------------------------------ MODULE MemPool ------------------------------
(***************************************************************************)
(* The memory pools of src/src/cmempool.c that threads share: fixed-size   *)
(* pools with a magazine of entries per thread, and the ranged pool that   *)
(* picks a size class among them.  Pops and pushes of a magazine take no   *)
(* lock; the pool's lock guards its free list and its list of magazines,   *)
(* the registry lock orders the exit of a thread, which gives its          *)
(* magazines back, against the destruction of the pools they belong to.    *)
(*                                                                         *)
(* A size is the number of its class.  Pool Pseudo (past the classes) is the *)
(* ranged pool's pseudo pool.  Free lists are stacks.  A pool may be made  *)
(* anew where a destroyed one was, while magazines of the old one linger.  *)
(***************************************************************************)
EXTENDS AddressSet

CONSTANTS
  Threads, Mags,             \* magazine ids; none is used twice
  Addresses,                 \* what malloc may return for a dynamic entry
  Null,
  Scenarios,                 \* classes, elem_count of each, whether they are
                             \* ranged and have caches, policy, the bounds maxCalls and maxCreations
  MinCachedPool, MagazineLimit, CapacityMax, ReserveDivisor  \* CCOL_MP_*

ASSUME MemPoolAssumption ==
  /\ MinCachedPool \in Nat \ {0} /\ ReserveDivisor \in Nat \ {0}
  /\ MagazineLimit \in Nat /\ CapacityMax \in Nat
  /\ \A s \in Scenarios :
       /\ s.classes \in Nat \ {0} /\ s.count \in [1 .. s.classes -> Nat]
       /\ s.policy = "last" => s.ranged
  /\ Null \notin Nat \cup Threads \cup Mags
  /\ Null \notin [kind : {"block", "dynamic"}, p : Nat, id : Nat \cup Addresses, size : Nat]

VARIABLES
  scenario,
  pool, lock, registry,      \* pool -> its state, its lock; _mp_registry_lock
  mag, tls,                  \* magazines; thread -> its list and direct map
  held,                      \* what callers have got and not given back
  th,                        \* thread -> its call
  calls, creations

poolVars == <<pool, lock, registry>>
vars == <<scenario, poolVars, mag, tls, held, th, calls, creations>>

Classes == 1 .. scenario.classes
Pseudo == scenario.classes + 1
Pools == 1 .. Pseudo
\* The pools that come and go with p: those of one ranged pool, or itself.
Group(p) == IF scenario.ranged THEN Pools ELSE {p}
Calling(t, p) == th[t].op \in {"alloc", "free", "destroy"} /\ th[t].group = Group(p)
Fallback(p) ==
  IF p = Pseudo THEN scenario.policy = "last" ELSE scenario.policy = "first"

Lesser(a, b) == IF a < b THEN a ELSE b
Greater(a, b) == IF a > b THEN a ELSE b

\* mempool_cache_geometry; a pool on a caller's buffer has no magazines.
Magazines(n) ==
  IF ~scenario.cached \/ n < MinCachedPool THEN 0 ELSE Greater(1, Lesser(n \div MinCachedPool, MagazineLimit))
Capacity(n) ==
  IF Magazines(n) = 0 THEN 0 ELSE Greater(1, Lesser(n \div (ReserveDivisor * Magazines(n)), CapacityMax))

\* Mutant: no reserve.
Reserve_None(n) == 0

Reserve(n) == Magazines(n) * Capacity(n)

Count(p) == scenario.count[p]          \* advertised_elem_count
Total(p) == IF p = Pseudo THEN 0 ELSE Count(p) + Reserve(Count(p))

\* cmempool_create_mp and init_r_mempool_pseudo_pool.
NewPool(p) == [mem |-> "live", free |-> [i \in 1 .. Total(p) |-> i], taken |-> {},
               mags |-> <<>>, table |-> <<>>, dynamic |-> 0]
Idle == [op |-> "none", step |-> "none", p |-> 0, size |-> 0, mag |-> Null, old |-> Null, todo |-> <<>>,
         live |-> 0, pushes |-> 0, group |-> {}]
NoMag == [mem |-> "none", pool |-> Null, slots |-> <<>>]

Init ==
  /\ scenario \in Scenarios
  /\ pool = [p \in Pools |-> NewPool(p)]
  /\ lock = [p \in Pools |-> Null] /\ registry = Null
  /\ mag = [m \in Mags |-> NoMag]
  /\ tls = [t \in Threads |-> [mags |-> <<>>, cache |-> Null, gone |-> FALSE]]
  /\ held = {} /\ th = [t \in Threads |-> Idle]
  /\ calls = 0 /\ creations = 0

\* Entries: one of a pool's block, and a dynamic one with its user_size.
Block(p, e) == [kind |-> "block", p |-> p, id |-> e, size |-> p]
Dynamic(p, a, n) == [kind |-> "dynamic", p |-> p, id |-> a, size |-> n]

Goto(t, step) == th' = [th EXCEPT ![t].step = step]
Unlocked(p) == lock[p] = Null

-----------------------------------------------------------------------------
(* Magazines.                                                              *)

\* mempool_tls_magazine_hit; the direct map has one slot here, so that the
\* pools compete for it.
Hit(t, p) == tls[t].cache # Null /\ mag[tls[t].cache].pool = p

\* mempool_tls_magazine_find walks along the thread's list.  Up to j it has met
\* neither an orphan nor pool p's magazine.
Passed(t, j) == \A i \in 1 .. j - 1 : mag[tls[t].mags[i]].pool \notin {Null, th[t].p}

\* An orphan on the way is freed, and the walk starts over.
Reap(t) ==
  /\ th[t].step \in {"find", "freeFind"}
  /\ \E j \in DOMAIN tls[t].mags : \E m \in {tls[t].mags[j]} :
       /\ Passed(t, j) /\ mag[m].pool = Null
       /\ mag' = [mag EXCEPT ![m].mem = "freed"]
       /\ tls' = [tls EXCEPT ![t].mags = RemoveFirst(@, m), ![t].cache = IF @ = m THEN Null ELSE @]
  /\ UNCHANGED <<scenario, poolVars, held, th, calls, creations>>

Find(t, next, none) ==
  \/ \E j \in DOMAIN tls[t].mags : \E m \in {tls[t].mags[j]} :
       /\ Passed(t, j) /\ mag[m].pool = th[t].p
       /\ tls' = [tls EXCEPT ![t].cache = m]
       /\ th' = [th EXCEPT ![t].step = next, ![t].mag = m]
  \/ /\ Passed(t, Len(tls[t].mags) + 1)
     /\ th' = [th EXCEPT ![t].step = none, ![t].mag = Null] /\ UNCHANGED tls

\* mempool_tls_magazine_create: allocating, or claiming what was free a moment
\* ago, may fail.
Create(t, next, none) ==
  \E p \in {th[t].p} :
    \/ Goto(t, none) /\ UNCHANGED <<pool, mag, tls>>
    \/ /\ Unlocked(p) /\ Len(pool[p].mags) < Magazines(Count(p))
       /\ \E x \in Mags : mag[x].mem = "none"
       /\ \E m \in {CHOOSE x \in Mags : mag[x].mem = "none"} :
            /\ mag' = [mag EXCEPT ![m] = [mem |-> "live", pool |-> p, slots |-> <<>>]]
            /\ pool' = [pool EXCEPT ![p].mags = <<m>> \o @]
            /\ tls' = [tls EXCEPT ![t].mags = <<m>> \o @, ![t].cache = m]
            /\ th' = [th EXCEPT ![t].step = next, ![t].mag = m]

\* mempool_magazine_refill_locked: up to n entries.
Budget(p) == Greater(0, Len(pool[p].free) - (Total(p) - Count(p)))
Refill(p, m) ==
  \E n \in {Lesser(Budget(p), Capacity(Count(p)) - Len(mag[m].slots))} :
    /\ mag' = [mag EXCEPT ![m].slots = @ \o SubSeq(pool[p].free, 1, n)]
    /\ pool' = [pool EXCEPT ![p].free = SubSeq(@, n + 1, Len(@))]

\* mempool_magazine_flush_locked of the n entries on top.
Flushed(f, slots, n) == Reverse(SubSeq(slots, Len(slots) - n + 1, Len(slots))) \o f

-----------------------------------------------------------------------------
(* Allocation.                                                             *)

Start(t, op, p, size, old) ==
  /\ th[t] = Idle /\ ~tls[t].gone /\ calls < scenario.maxCalls
  /\ \A q \in Group(p) : pool[q].mem = "live"
  /\ \A u \in Threads : Calling(u, p) => th[u].op # "destroy"
  /\ calls' = calls + 1
  /\ th' = [th EXCEPT ![t] = [Idle EXCEPT !.op = op, !.step = op, !.p = p, !.size = size, !.old = old,
                                          !.group = Group(p)]]
  /\ UNCHANGED <<scenario, poolVars, mag, tls, creations>>

\* crmempool_alloc_entry tries the classes from that of the size upwards.
AllocCall(t, size) == Start(t, "alloc", size, size, Null) /\ UNCHANGED held

\* cmempool_alloc_entry and mempool_alloc_from_cache.
AllocBegins(t) ==
  /\ th[t].step = "alloc" /\ th[t].p \in Classes
  /\ \E p \in {th[t].p} :
       th' = [th EXCEPT ![t].step = CASE Magazines(Count(p)) = 0 -> "serve"
                                      [] Hit(t, p) -> "pop"
                                      [] OTHER -> "find",
                        ![t].mag = IF Hit(t, p) THEN tls[t].cache ELSE Null]
  /\ UNCHANGED <<scenario, poolVars, mag, tls, held, calls, creations>>

AllocFinds(t) ==
  /\ th[t].step = "find"
  /\ Find(t, "pop", "budget")
  /\ UNCHANGED <<scenario, poolVars, mag, held, calls, creations>>

\* mempool_alloc_from_cache_slow: is there a magazine to be had?
AllocBudget(t) ==
  /\ th[t].step = "budget" /\ Unlocked(th[t].p)
  /\ Goto(t, IF Len(pool[th[t].p].mags) < Magazines(Count(th[t].p)) THEN "create" ELSE "serve")
  /\ UNCHANGED <<scenario, poolVars, mag, tls, held, calls, creations>>

AllocCreates(t) ==
  /\ th[t].step = "create" /\ Create(t, "pop", "serve")
  /\ UNCHANGED <<scenario, lock, registry, held, calls, creations>>

\* The entry goes to the caller; a reallocation goes on to give the old one back.
Return(t, entry) ==
  /\ held' = held \cup {entry}
  /\ \E old \in {th[t].old} :
       th' = [th EXCEPT ![t] = IF old = Null THEN Idle
                               ELSE [Idle EXCEPT !.op = "free", !.p = old.p, !.old = old, !.group = Group(old.p),
                                                 !.step = IF old.kind = "dynamic" THEN "ask" ELSE "free"]]

\* The magazine is popped, with no lock,
Pop(t) ==
  /\ th[t].step = "pop" /\ mag[th[t].mag].slots # <<>>
  /\ \E m \in {th[t].mag}, p \in {th[t].p} : \E e \in {mag[th[t].mag].slots[Len(mag[th[t].mag].slots)]} :
       /\ mag' = [mag EXCEPT ![m].slots = Front(@)]
       /\ pool' = [pool EXCEPT ![p].taken = @ \cup {e}]
       /\ Return(t, Block(p, e))
  /\ UNCHANGED <<scenario, lock, registry, tls, calls, creations>>

\* or filled first; what the reserve keeps back the same section serves.
RefillStep(t) ==
  /\ th[t].step = "pop" /\ mag[th[t].mag].slots = <<>> /\ Unlocked(th[t].p)
  /\ Refill(th[t].p, th[t].mag)
  /\ IF mag'[th[t].mag].slots # <<>> THEN Goto(t, "pop") /\ UNCHANGED lock
     ELSE /\ th' = [th EXCEPT ![t].step = "count", ![t].todo = pool[th[t].p].mags, ![t].pushes = 0,
                              ![t].live = Total(th[t].p) - Len(pool[th[t].p].free)]
          /\ lock' = [lock EXCEPT ![th[t].p] = t]
  /\ UNCHANGED <<scenario, registry, tls, held, calls, creations>>

\* mempool_serve takes the lock and counts what callers hold,
ServeLocks(t) ==
  /\ th[t].step = "serve" /\ Unlocked(th[t].p)
  /\ th' = [th EXCEPT ![t].step = "count", ![t].todo = pool[th[t].p].mags, ![t].pushes = 0,
                      ![t].live = Total(th[t].p) - Len(pool[th[t].p].free)]
  /\ lock' = [lock EXCEPT ![th[t].p] = t]
  /\ UNCHANGED <<scenario, pool, registry, mag, tls, held, calls, creations>>

\* mempool_live_count_locked: the magazines go on changing meanwhile.
CountStep(t) ==
  /\ th[t].step = "count" /\ th[t].todo # <<>> /\ pool[th[t].p].free # <<>>
  /\ th' = [th EXCEPT ![t].live = Greater(0, @ - Len(mag[Head(th[t].todo)].slots)), ![t].todo = Tail(@)]
  /\ UNCHANGED <<scenario, poolVars, mag, tls, held, calls, creations>>

\* and serves from the free list while they hold less than was advertised,
CanServe(t) ==
  /\ pool[th[t].p].free # <<>>
  /\ Magazines(Count(th[t].p)) = 0 \/ th[t].live < Count(th[t].p)
Counted(t) == th[t].step = "count" /\ (th[t].todo = <<>> \/ pool[th[t].p].free = <<>>)

ServeEntry(t) ==
  /\ Counted(t) /\ CanServe(t)
  /\ \E p \in {th[t].p} :
       /\ pool' = [pool EXCEPT ![p].free = Tail(@), ![p].taken = @ \cup {Head(pool[p].free)}]
       /\ Return(t, Block(p, Head(pool[p].free)))
       /\ lock' = [lock EXCEPT ![p] = Null]
  /\ UNCHANGED <<scenario, registry, mag, tls, calls, creations>>

\* else from the heap, if the pool falls back, and if that works.
InHeap == {x.id : x \in {y \in held : y.kind = "dynamic"}}
              \cup {th[t].old.id : t \in {u \in Threads : th[u].old # Null /\ th[u].old.kind = "dynamic"}}
AllocDynamic(t, p, size) ==
  \E a \in Addresses \ InHeap :
    /\ pool' = [pool EXCEPT ![p].table = SetInsert(@, a, pool[p].dynamic), ![p].dynamic = @ + 1]
    /\ Return(t, Dynamic(p, a, size))

ServeDynamic(t) ==
  /\ Counted(t) /\ ~CanServe(t) /\ Fallback(th[t].p)
  /\ AllocDynamic(t, th[t].p, th[t].p)
  /\ lock' = [lock EXCEPT ![th[t].p] = Null]
  /\ UNCHANGED <<scenario, registry, mag, tls, calls, creations>>

\* The class has none: the next one is asked.
Refused(t) ==
  /\ Counted(t) /\ ~CanServe(t)
  /\ th' = [th EXCEPT ![t] = [Idle EXCEPT !.op = th[t].op, !.step = "alloc", !.size = th[t].size, !.old = th[t].old,
                                          !.group = th[t].group,
                                          !.p = IF scenario.ranged THEN th[t].p + 1 ELSE Pseudo]]
  /\ lock' = [lock EXCEPT ![th[t].p] = Null]
  /\ UNCHANGED <<scenario, pool, registry, mag, tls, held, calls, creations>>

\* cmempool_pseudo_alloc_entry, or nothing: a reallocation then keeps what it
\* has, which is returned (and may be larger than asked for) or left alone.
AllocEnds(t) ==
  /\ th[t].step = "alloc" /\ th[t].p = Pseudo
  /\ \/ Fallback(Pseudo) /\ Unlocked(Pseudo) /\ AllocDynamic(t, Pseudo, th[t].size)
     \/ /\ held' = IF th[t].old = Null THEN held ELSE held \cup {th[t].old}
        /\ th' = [th EXCEPT ![t] = Idle] /\ UNCHANGED pool
  /\ UNCHANGED <<scenario, lock, registry, mag, tls, calls, creations>>

-----------------------------------------------------------------------------
(* Freeing and reallocation: the caller gives its entry up.                *)

FreeCall(t, x) == Start(t, "free", x.p, 0, x) /\ held' = held \ {x}

\* crmempool_realloc_entry: rmp_owner_of finds the entry's size; one that fits
\* exactly stays.
ReallocCall(t, x, size) ==
  /\ scenario.ranged /\ x.size # size
  /\ Start(t, "alloc", size, size, x) /\ held' = held \ {x}

\* __cmempool_free_entry and mempool_free_to_cache on an entry of the block.
FreeBegins(t) ==
  /\ th[t].step = "free" /\ th[t].old.kind = "block"
  /\ \E p \in {th[t].p} :
       th' = [th EXCEPT ![t].step = CASE Magazines(Count(p)) = 0 -> "lockedFree"
                                      [] Hit(t, p) -> "push"
                                      [] OTHER -> "freeFind",
                        ![t].mag = IF Hit(t, p) THEN tls[t].cache ELSE Null]
  /\ UNCHANGED <<scenario, poolVars, mag, tls, held, calls, creations>>

FreeFinds(t) ==
  /\ th[t].step = "freeFind"
  /\ Find(t, "push", "freeBudget")
  /\ UNCHANGED <<scenario, poolVars, mag, held, calls, creations>>

FreeBudget(t) ==
  /\ th[t].step = "freeBudget" /\ Unlocked(th[t].p)
  /\ Goto(t, IF Len(pool[th[t].p].mags) < Magazines(Count(th[t].p)) THEN "freeCreate" ELSE "lockedFree")
  /\ UNCHANGED <<scenario, poolVars, mag, tls, held, calls, creations>>

FreeCreates(t) ==
  /\ th[t].step = "freeCreate" /\ Create(t, "push", "lockedFree")
  /\ UNCHANGED <<scenario, lock, registry, held, calls, creations>>

\* Mutant: what goes back to the free list stays in the magazine.
FlushHalf_Keeps(t) ==
  /\ th[t].step = "push" /\ Unlocked(th[t].p) /\ Len(mag[th[t].mag].slots) = Capacity(Count(th[t].p))
  /\ \E p \in {th[t].p}, m \in {th[t].mag} :
       pool' = [pool EXCEPT ![p].free = Flushed(@, mag[m].slots, Greater(1, Capacity(Count(p)) \div 2))]
  /\ UNCHANGED <<scenario, lock, registry, mag, tls, held, th, calls, creations>>

\* A full magazine gives half back first.
FlushHalf(t) ==
  /\ th[t].step = "push" /\ Unlocked(th[t].p) /\ Len(mag[th[t].mag].slots) = Capacity(Count(th[t].p))
  /\ \E p \in {th[t].p}, m \in {th[t].mag} : \E n \in {Greater(1, Capacity(Count(th[t].p)) \div 2)} :
       /\ pool' = [pool EXCEPT ![p].free = Flushed(@, mag[m].slots, n)]
       /\ mag' = [mag EXCEPT ![m].slots = SubSeq(@, 1, Len(@) - n)]
  /\ UNCHANGED <<scenario, lock, registry, tls, held, th, calls, creations>>

\* Others that are counting this magazine may have read it already.
Push(t) ==
  /\ th[t].step = "push" /\ Len(mag[th[t].mag].slots) < Capacity(Count(th[t].p))
  /\ mag' = [mag EXCEPT ![th[t].mag].slots = Append(@, th[t].old.id)]
  /\ pool' = [pool EXCEPT ![th[t].p].taken = @ \ {th[t].old.id}]
  /\ th' = [u \in Threads |-> IF u = t THEN Idle
                              ELSE IF th[u].step = "count" /\ th[u].p = th[t].p
                                   THEN [th[u] EXCEPT !.pushes = @ + 1] ELSE th[u]]
  /\ UNCHANGED <<scenario, lock, registry, tls, held, calls, creations>>

\* mempool_free_body under the lock.
LockedFree(t) ==
  /\ th[t].step = "lockedFree" /\ Unlocked(th[t].p)
  /\ pool' = [pool EXCEPT ![th[t].p].free = <<th[t].old.id>> \o @, ![th[t].p].taken = @ \ {th[t].old.id}]
  /\ th' = [th EXCEPT ![t] = Idle]
  /\ UNCHANGED <<scenario, lock, registry, mag, tls, held, calls, creations>>

\* rmp_free_dynamic asks the pools in turn; one that has no dynamic entries is
\* passed over without its lock.
Asked(t, p) == Fallback(p) /\ pool[p].dynamic > 0
FreeDynamic(t) ==
  /\ th[t].step = "free" /\ th[t].old.kind = "dynamic"
  /\ th' = [th EXCEPT ![t].step = "ask", ![t].p = 1]
  /\ UNCHANGED <<scenario, poolVars, mag, tls, held, calls, creations>>

AskNext(t) ==
  /\ th[t].step = "ask" /\ th[t].p \in Pools
  /\ \/ ~Asked(t, th[t].p)
     \/ Unlocked(th[t].p) /\ ~SetHas(pool[th[t].p].table, th[t].old.id)
  /\ th' = [th EXCEPT ![t].p = @ + 1]
  /\ UNCHANGED <<scenario, poolVars, mag, tls, held, calls, creations>>

AskFound(t) ==
  /\ th[t].step = "ask" /\ th[t].p \in Pools /\ Asked(t, th[t].p)
  /\ Unlocked(th[t].p) /\ SetHas(pool[th[t].p].table, th[t].old.id)
  /\ pool' = [pool EXCEPT ![th[t].p].table = SetRemove(@, th[t].old.id), ![th[t].p].dynamic = @ - 1]
  /\ th' = [th EXCEPT ![t] = Idle]
  /\ UNCHANGED <<scenario, lock, registry, mag, tls, held, calls, creations>>

-----------------------------------------------------------------------------
(* Thread exit, and the end of the pools.                                  *)

\* _mp_tls_drain takes the list,
Exit(t) ==
  /\ th[t] = Idle /\ ~tls[t].gone /\ calls < scenario.maxCalls
  /\ calls' = calls + 1
  /\ tls' = [tls EXCEPT ![t] = [mags |-> <<>>, cache |-> Null, gone |-> TRUE]]
  /\ th' = [th EXCEPT ![t] = [Idle EXCEPT !.op = "exit", !.step = "drain", !.todo = tls[t].mags]]
  /\ UNCHANGED <<scenario, poolVars, mag, held, creations>>

PoolOf(m) == IF mag[m].pool = Null THEN 0 ELSE mag[m].pool

\* Mutant: the pool is looked up before the registry lock is taken.
DrainLooks_Early(t) ==
  /\ th[t].step = "drain" /\ th[t].todo # <<>>
  /\ th' = [th EXCEPT ![t].step = "flush", ![t].p = PoolOf(Head(th[t].todo))]
  /\ UNCHANGED <<scenario, poolVars, mag, tls, held, calls, creations>>

\* and one magazine after the other looks up its pool under the registry lock,
DrainLooks(t) ==
  /\ th[t].step = "drain" /\ th[t].todo # <<>> /\ registry = Null
  /\ registry' = t
  /\ th' = [th EXCEPT ![t].step = "flush", ![t].p = PoolOf(Head(th[t].todo))]
  /\ UNCHANGED <<scenario, pool, lock, mag, tls, held, calls, creations>>

\* gives the entries back and is freed.
DrainFlushes(t) ==
  /\ th[t].step = "flush"
  /\ \E m \in {Head(th[t].todo)}, p \in {th[t].p} :
       /\ \/ p = 0 /\ UNCHANGED pool
          \/ /\ p # 0 /\ Unlocked(p)
             /\ pool' = [pool EXCEPT ![p].free = Flushed(@, mag[m].slots, Len(mag[m].slots)),
                                     ![p].mags = RemoveFirst(@, m)]
       /\ mag' = [mag EXCEPT ![m].mem = "freed"]
  /\ registry' = Null
  /\ th' = [th EXCEPT ![t].step = "drain", ![t].p = 0, ![t].todo = Tail(@)]
  /\ UNCHANGED <<scenario, lock, tls, held, calls, creations>>

DrainEnds(t) ==
  /\ th[t].step = "drain" /\ th[t].todo = <<>>
  /\ th' = [th EXCEPT ![t] = Idle]
  /\ UNCHANGED <<scenario, poolVars, mag, tls, held, calls, creations>>

\* _crmempool_destroy, or _cmempool_destroy of pool p alone, once nobody is in
\* a call and every dynamic entry has been given back (it asserts otherwise);
\* threads may be exiting and orphans of other pools may be reaped.
Destroy(t, p) ==
  /\ th[t] = Idle /\ ~tls[t].gone /\ creations < scenario.maxCreations
  /\ \A u \in Threads : ~Calling(u, p)
  /\ p = Min(Group(p)) /\ \A q \in Group(p) : pool[q].mem = "live" /\ pool[q].dynamic = 0
  /\ creations' = creations + 1
  /\ held' = {x \in held : x.p \notin Group(p)}
  /\ th' = [th EXCEPT ![t] = [Idle EXCEPT !.op = "destroy", !.step = "destroy", !.p = p, !.group = Group(p)]]
  /\ UNCHANGED <<scenario, poolVars, mag, tls, calls>>

\* _cmempool_destroy of one pool: under both locks every magazine is unlinked
DestroyLocks(t) ==
  /\ th[t].step = "destroy" /\ registry = Null /\ Unlocked(th[t].p)
  /\ registry' = t /\ lock' = [lock EXCEPT ![th[t].p] = t]
  /\ Goto(t, "unlink")
  /\ UNCHANGED <<scenario, pool, mag, tls, held, calls, creations>>

DestroyUnlinks(t) ==
  /\ th[t].step = "unlink" /\ pool[th[t].p].mags # <<>>
  /\ th' = [th EXCEPT ![t].step = "orphan", ![t].mag = Head(pool[th[t].p].mags)]
  /\ pool' = [pool EXCEPT ![th[t].p].mags = Tail(@)]
  /\ UNCHANGED <<scenario, lock, registry, mag, tls, held, calls, creations>>

\* and then orphaned; its thread will free it.
DestroyOrphans(t) ==
  /\ th[t].step = "orphan"
  /\ mag' = [mag EXCEPT ![th[t].mag].pool = Null]
  /\ th' = [th EXCEPT ![t].step = "unlink", ![t].mag = Null]
  /\ UNCHANGED <<scenario, poolVars, tls, held, calls, creations>>

DestroyFrees(t) ==
  /\ th[t].step = "unlink" /\ pool[th[t].p].mags = <<>>
  /\ pool' = [pool EXCEPT ![th[t].p].mem = "freed"]
  /\ lock' = [lock EXCEPT ![th[t].p] = Null] /\ registry' = Null
  /\ th' = [th EXCEPT ![t] = IF th[t].p = Max(th[t].group) THEN Idle ELSE [th[t] EXCEPT !.step = "destroy", !.p = @ + 1]]
  /\ UNCHANGED <<scenario, mag, tls, held, calls, creations>>

\* crmempool_create_mp and cmempool_create_mp get the memory the old pools had.
CreatePools(t, p) ==
  /\ th[t] = Idle /\ ~tls[t].gone
  /\ \A q \in Group(p) : pool[q].mem = "freed"
  /\ \A u \in Threads : ~Calling(u, p)
  /\ pool' = [q \in Pools |-> IF q \in Group(p) THEN NewPool(q) ELSE pool[q]]
  /\ UNCHANGED <<scenario, lock, registry, mag, tls, held, th, calls, creations>>

-----------------------------------------------------------------------------
Alloc(t) ==
  \/ AllocBegins(t) \/ AllocFinds(t) \/ AllocBudget(t) \/ AllocCreates(t) \/ Pop(t) \/ RefillStep(t)
  \/ ServeLocks(t) \/ CountStep(t) \/ ServeEntry(t) \/ ServeDynamic(t) \/ Refused(t) \/ AllocEnds(t)
GiveBack(t) ==
  \/ FreeBegins(t) \/ FreeFinds(t) \/ FreeBudget(t) \/ FreeCreates(t) \/ FlushHalf(t) \/ Push(t)
  \/ LockedFree(t) \/ FreeDynamic(t) \/ AskNext(t) \/ AskFound(t)
End(t) ==
  \/ Exit(t) \/ DrainLooks(t) \/ DrainFlushes(t) \/ DrainEnds(t)
  \/ DestroyLocks(t) \/ DestroyUnlinks(t) \/ DestroyOrphans(t) \/ DestroyFrees(t)
  \/ \E p \in Classes : Destroy(t, p) \/ CreatePools(t, p)

Next ==
  \E t \in Threads :
    \/ \E n \in Classes : AllocCall(t, n) \/ \E x \in held : ReallocCall(t, x, n)
    \/ \E x \in held : FreeCall(t, x)
    \/ Reap(t) \/ Alloc(t) \/ GiveBack(t) \/ End(t)

Spec == Init /\ [][Next]_vars

-----------------------------------------------------------------------------
(* Properties.                                                             *)

\* The entries of pool p on their way back to it.
Leaving(p) ==
  {th[t].old.id : t \in {u \in Threads : th[u].old # Null /\ th[u].old.kind = "block" /\ th[u].old.p = p}}
Handed(p) == {x.id : x \in {y \in held : y.kind = "block" /\ y.p = p}}

\* The magazines of pool p.
Caching(p) == {m \in Mags : mag[m].mem = "live" /\ mag[m].pool = p}
Cached(ms) == UNION {Range(mag[m].slots) : m \in ms}

\* Pool p is in use: it is there, and nobody is destroying it.
Serving(p) == pool[p].mem = "live" /\ \A t \in Threads : Calling(t, p) => th[t].op # "destroy"

\* No entry is lost and none is in two places, whatever magazines were filled,
\* flushed, drained and orphaned: each is on the free list, in the magazine of
\* one thread, or with one caller, and only the last are marked taken.
EntryPlacedOnce ==
  \A p \in Classes : Serving(p) =>
    /\ pool[p].taken = Handed(p) \cup Leaving(p) /\ Handed(p) \cap Leaving(p) = {}
    /\ 1 .. Total(p) = Range(pool[p].free) \cup pool[p].taken \cup Cached(Caching(p))
    /\ IsInjective(pool[p].free) /\ \A m \in Caching(p) : IsInjective(mag[m].slots)
    /\ Range(pool[p].free) \cap pool[p].taken = {}
    /\ (Range(pool[p].free) \cup pool[p].taken) \cap Cached(Caching(p)) = {}
    /\ \A m, n \in Caching(p) : m # n => Cached({m}) \cap Cached({n}) = {}

\* A magazine is freed once, by its thread, and nobody reaches it afterwards:
\* not the thread's list and direct map, not its pool's list, not an exit that
\* is draining and not a destruction that is walking the list.  A pool is not
\* touched by an exit once it is freed.
NoDanglingMagazine ==
  /\ \A t \in Threads :
       /\ \A j \in DOMAIN tls[t].mags : mag[tls[t].mags[j]].mem = "live"
       /\ tls[t].cache # Null => mag[tls[t].cache].mem = "live"
       /\ th[t].mag # Null => mag[th[t].mag].mem = "live"
       /\ \A j \in DOMAIN th[t].todo : mag[th[t].todo[j]].mem = "live"
       /\ th[t].step = "flush" /\ th[t].p # 0 => pool[th[t].p].mem = "live"
  /\ \A p \in Pools : \A j \in DOMAIN pool[p].mags : mag[pool[p].mags[j]].mem = "live"

\* What is advertised is to be had: a class turns a caller away only when
\* callers hold that many entries of it, those others gave back during the
\* count included, however many sit in magazines of other threads.
RefusedOnlyWhenFull ==
  \A t \in Threads : Counted(t) /\ ~CanServe(t) =>
    Cardinality(pool[th[t].p].taken) + th[t].pushes >= Count(th[t].p)

\* The address set knows exactly the dynamic entries that are out, so giving
\* one back finds its pool although the search skips pools without a lock.
DynamicEntriesFound ==
  /\ \A p \in Pools : pool[p].mem = "live" =>
       \A a \in Addresses : SetHas(pool[p].table, a) <=>
         \/ \E x \in held : x.kind = "dynamic" /\ x.p = p /\ x.id = a
         \/ \E t \in Threads : th[t].old # Null /\ th[t].old.kind = "dynamic" /\ th[t].old.p = p /\ th[t].old.id = a
  /\ \A t \in Threads : th[t].step = "ask" => th[t].p \in Pools
=============================================================================
