--------------------------- MODULE MemPoolProofs ---------------------------
(***************************************************************************)
(* Proofs about MemPool, for every number of threads, classes and          *)
(* magazines and every geometry of the caches: a magazine is reachable     *)
(* from its thread and from its pool, and none dangles.                    *)
(***************************************************************************)
EXTENDS MemPool, SequenceLemmas

Ops == {"none", "alloc", "free", "exit", "destroy"}
Steps == {"none", "alloc", "find", "budget", "create", "pop", "serve", "count",
          "free", "freeFind", "freeBudget", "freeCreate", "push", "lockedFree", "ask",
          "drain", "flush", "destroy", "unlink", "orphan"}
EntryRec == {x \in [kind : {"block", "dynamic"}, p : Nat, id : Nat \cup Addresses, size : Nat] : x.kind = "block" => x.id \in Nat}
ThreadRec ==
  [op : Ops, step : Steps, p : Nat, size : Nat, mag : Mags \cup {Null}, old : EntryRec \cup {Null},
   todo : Seq(Mags), live : Int, pushes : Int, group : SUBSET Nat]
MagRec == [mem : {"none", "live", "freed"}, pool : Nat \cup {Null}, slots : Seq(Nat)]
ListRec == [mags : Seq(Mags), cache : Mags \cup {Null}, gone : BOOLEAN]

\* Of a pool everything but what its address set is.
PoolType(r) ==
  /\ r = [mem |-> r.mem, free |-> r.free, taken |-> r.taken, mags |-> r.mags, table |-> r.table, dynamic |-> r.dynamic]
  /\ r.mem \in {"live", "freed"} /\ r.free \in Seq(Nat) /\ r.taken \subseteq Nat /\ r.mags \in Seq(Mags)

TypeOK ==
  /\ scenario \in Scenarios
  /\ DOMAIN pool = Pools /\ \A p \in Pools : PoolType(pool[p])
  /\ lock \in [Pools -> Threads \cup {Null}] /\ registry \in Threads \cup {Null}
  /\ mag \in [Mags -> MagRec] /\ tls \in [Threads -> ListRec]
  /\ th \in [Threads -> ThreadRec] /\ held \subseteq EntryRec

AllocSteps == {"alloc", "find", "budget", "create", "pop", "serve", "count"}
FreeSteps == {"free", "freeFind", "freeBudget", "freeCreate", "push", "lockedFree", "ask"}

\* The pools of the call are there.
Called(t) == \E q \in Classes : th[t].group = Group(q) /\ \A x \in th[t].group : pool[x].mem = "live"

\* The control of thread t's call.
CallOK(t) ==
  /\ th[t].op = "none" => th[t] = Idle
  /\ th[t].op = "alloc" =>
       /\ th[t].step \in AllocSteps /\ Called(t)
       /\ th[t].p \in th[t].group \/ (th[t].step = "alloc" /\ th[t].p = Pseudo)
       /\ th[t].p \in Classes \/ (th[t].step = "alloc" /\ th[t].p = Pseudo)
       /\ th[t].old # Null => scenario.ranged
  /\ th[t].op = "free" =>
       /\ th[t].step \in FreeSteps /\ Called(t) /\ th[t].old # Null
       /\ th[t].step # "ask" => th[t].p = th[t].old.p
       /\ th[t].step \notin {"free", "ask"} => th[t].old.kind = "block"
  /\ th[t].op = "exit" => th[t].step \in {"drain", "flush"} /\ tls[t].gone /\ tls[t].mags = <<>> /\ tls[t].cache = Null
  /\ th[t].op = "destroy" =>
       /\ th[t].step \in {"destroy", "unlink", "orphan"} /\ th[t].p \in th[t].group
       /\ \E q \in Classes : th[t].group = Group(q)
       /\ \A x \in th[t].group : pool[x].mem = IF x < th[t].p THEN "freed" ELSE "live"
  /\ th[t].old # Null => th[t].old.p \in th[t].group /\ th[t].op \in {"alloc", "free"}
  /\ th[t].old # Null /\ th[t].old.kind = "block" => th[t].old.p \in Classes

\* The magazines it has in hand.
HandOK(t) ==
  /\ Distinct(tls[t].mags) /\ \A m \in Elems(tls[t].mags) : mag[m].mem = "live"
  /\ tls[t].cache # Null => tls[t].cache \in Elems(tls[t].mags)
  /\ th[t].op \in {"alloc", "free"} /\ th[t].mag # Null => th[t].mag \in Elems(tls[t].mags)
  /\ th[t].op \in {"exit", "destroy"} /\ th[t].step # "orphan" => th[t].mag = Null
  /\ th[t].step \in {"find", "freeFind"} => th[t].mag = Null
  /\ th[t].step \in {"pop", "push"} => th[t].mag # Null /\ mag[th[t].mag].pool = th[t].p
  /\ th[t].step = "orphan" => /\ th[t].mag # Null /\ mag[th[t].mag].mem = "live" /\ mag[th[t].mag].pool = th[t].p
                          /\ th[t].mag \notin Elems(pool[th[t].p].mags)
  /\ Distinct(th[t].todo)
  /\ th[t].op = "exit" => \A m \in Elems(th[t].todo) : mag[m].mem = "live"
  /\ th[t].step = "count" => Elems(th[t].todo) \subseteq Elems(pool[th[t].p].mags)
  /\ th[t].step = "flush" => th[t].todo # <<>> /\ th[t].p = PoolOf(Head(th[t].todo))
  /\ th[t].step \notin {"drain", "flush", "count"} => th[t].todo = <<>>

\* Whose a magazine is.
Own(t) == Elems(tls[t].mags) \cup (IF th[t].op = "exit" THEN Elems(th[t].todo) ELSE {})
OwnInv == \A t, u \in Threads : t # u => Own(t) \cap Own(u) = {}

\* A pool knows its magazines, but for the one that is being orphaned.
PoolAt(p) ==
  /\ Distinct(pool[p].mags) /\ (pool[p].mem = "freed" => pool[p].mags = <<>>)
  /\ \A m \in Elems(pool[p].mags) : mag[m].mem = "live" /\ mag[m].pool = p
  /\ \A m \in Mags : mag[m].mem = "live" /\ mag[m].pool = p =>
       m \in Elems(pool[p].mags) \/ \E t \in Threads : th[t].step = "orphan" /\ th[t].mag = m
  /\ p \in Classes => Len(pool[p].mags) <= Magazines(Count(p))
PoolInv == \A p \in Pools : PoolAt(p)

\* Who holds a lock.
Holding(t, p) == th[t].step \in {"count", "unlink", "orphan"} /\ th[t].p = p
LockInv ==
  /\ \A p \in Pools : lock[p] # Null => Holding(lock[p], p)
  /\ \A t \in Threads : \A p \in Pools : Holding(t, p) => lock[p] = t
  /\ registry # Null => th[registry].step \in {"flush", "unlink", "orphan"}
  /\ \A t \in Threads : th[t].step \in {"flush", "unlink", "orphan"} => registry = t

\* Nobody is inside the pools that somebody is destroying.
AloneInv ==
  \A t, u \in Threads : t # u /\ th[t].op = "destroy" /\ th[u].op \in {"alloc", "free", "destroy"}
                        => th[t].group # th[u].group

SInv ==
  /\ TypeOK /\ OwnInv /\ PoolInv /\ LockInv /\ AloneInv
  /\ \A t \in Threads : CallOK(t) /\ HandOK(t)
  /\ \A m \in Mags : mag[m].mem = "live" => mag[m].pool \in Classes \cup {Null}
  /\ \A x \in held : /\ x.p \in Pools /\ Serving(x.p) /\ (x.p \in Classes \/ scenario.ranged)
                     /\ x.kind = "block" => x.p \in Classes

-----------------------------------------------------------------------------
(* Scenarios, groups and the geometry of the caches.                       *)

LEMMA ScenarioFacts ==
  ASSUME TypeOK
  PROVE  /\ scenario.classes \in Nat \ {0} /\ Pseudo = scenario.classes + 1
         /\ Classes \subseteq Pools /\ Pools \subseteq Nat /\ Pseudo \notin Classes /\ Pseudo \in Pools
         /\ \A p \in Classes : Count(p) \in Nat /\ p # 0 /\ p + 1 \in Pools
         /\ \A p \in Pools : p \in Classes \/ p = Pseudo
         /\ 0 \notin Pools
         /\ scenario.policy = "last" => scenario.ranged
<1> DEFINE n == scenario.classes
<1>1. n \in Nat \ {0} /\ scenario.count \in [1 .. n -> Nat] /\ (scenario.policy = "last" => scenario.ranged)
  BY MemPoolAssumption DEF TypeOK
<1>2. Pseudo = n + 1 /\ Classes = 1 .. n /\ Pools = 1 .. n + 1 BY DEF Pseudo, Classes, Pools
<1> HIDE DEF n
<1>3. \A p \in 1 .. n : Count(p) \in Nat BY <1>1 DEF Count
<1>4. \A p \in 1 .. n + 1 : p \in 1 .. n \/ p = n + 1 BY <1>1
<1>5. 1 .. n \subseteq 1 .. n + 1 /\ 1 .. n + 1 \subseteq Nat /\ n + 1 \notin 1 .. n /\ n + 1 \in 1 .. n + 1 /\ 0 \notin 1 .. n + 1
      /\ \A p \in 1 .. n : p + 1 \in 1 .. n + 1 /\ p # 0
  BY <1>1
<1> QED BY <1>1, <1>2, <1>3, <1>4, <1>5 DEF n

LEMMA NullFacts ==
  /\ Null \notin Nat /\ Null \notin Threads /\ Null \notin Mags /\ Null \notin EntryRec
BY MemPoolAssumption DEF EntryRec

LEMMA GroupFacts ==
  ASSUME NEW p \in Pools
  PROVE  p \in Group(p) /\ Group(p) \subseteq Pools /\ \A x \in Group(p) : Group(x) = Group(p)
BY DEF Group

LEMMA DivFacts ==
  ASSUME NEW n \in Nat, NEW k \in Nat \ {0}
  PROVE  n \div k \in Nat
OBVIOUS

LEMMA Geometry ==
  ASSUME NEW n \in Nat
  PROVE  /\ Magazines(n) \in Nat /\ Capacity(n) \in Nat /\ Reserve(n) \in Nat
         /\ Magazines(n) # 0 => Capacity(n) # 0
<1>1. MinCachedPool \in Nat \ {0} /\ ReserveDivisor \in Nat \ {0} /\ MagazineLimit \in Nat /\ CapacityMax \in Nat
  BY MemPoolAssumption
<1>2. n \div MinCachedPool \in Nat BY <1>1, DivFacts
<1>3. Magazines(n) \in Nat BY <1>1, <1>2 DEF Magazines, Greater, Lesser
<1>4. CASE Magazines(n) = 0 BY <1>3, <1>4 DEF Capacity, Reserve
<1>5. CASE Magazines(n) # 0
  <2> DEFINE d == ReserveDivisor * Magazines(n)
  <2>1. d \in Nat \ {0} BY <1>1, <1>3, <1>5
  <2> HIDE DEF d
  <2>2. n \div d \in Nat BY <2>1, DivFacts
  <2>3. Capacity(n) = Greater(1, Lesser(n \div d, CapacityMax)) BY <1>5 DEF Capacity, d
  <2>4. Capacity(n) \in Nat /\ Capacity(n) # 0 BY <1>1, <2>2, <2>3 DEF Greater, Lesser
  <2>5. Reserve(n) \in Nat BY <1>3, <2>4 DEF Reserve
  <2> QED BY <1>3, <2>4, <2>5
<1> QED BY <1>4, <1>5

LEMMA ScenarioSame ==
  ASSUME scenario' = scenario
  PROVE  /\ Classes' = Classes /\ Pools' = Pools /\ Pseudo' = Pseudo
         /\ \A p : Group(p)' = Group(p)
         /\ \A p : Count(p)' = Count(p) /\ Total(p)' = Total(p)
         /\ \A n : Magazines(n)' = Magazines(n) /\ Capacity(n)' = Capacity(n)
BY DEF Classes, Pools, Pseudo, Group, Count, Total, Reserve, Magazines, Capacity

\* What step a call is at says which call it is.
LEMMA StepOp ==
  ASSUME TypeOK, NEW t \in Threads, CallOK(t)
  PROVE  /\ th[t] \in ThreadRec
         /\ th[t].op = "none" <=> th[t].step = "none"
         /\ th[t].op = "alloc" <=> th[t].step \in AllocSteps
         /\ th[t].op = "free" <=> th[t].step \in FreeSteps
         /\ th[t].op = "exit" <=> th[t].step \in {"drain", "flush"}
         /\ th[t].op = "destroy" <=> th[t].step \in {"destroy", "unlink", "orphan"}
<1>1. th[t] \in ThreadRec BY DEF TypeOK
<1>2. th[t].op \in Ops /\ th[t].step \in Steps BY <1>1 DEF ThreadRec
<1>3. th[t].op = "none" => th[t].step = "none" BY DEF CallOK, Idle
<1> QED BY <1>1, <1>2, <1>3 DEF CallOK, Ops, Steps, AllocSteps, FreeSteps

LEMMA GroupIs ==
  ASSUME TypeOK, NEW q \in Classes, NEW p \in Group(q)
  PROVE  Group(p) = Group(q) /\ p \in Pools
<1>1. q \in Pools BY ScenarioFacts
<1> QED BY <1>1, GroupFacts

\* Nobody destroys the pools of a call.
LEMMA CallServes ==
  ASSUME SInv, NEW t \in Threads, th[t].op \in {"alloc", "free"}, NEW p \in th[t].group
  PROVE  p \in Pools /\ Group(p) = th[t].group /\ pool[p].mem = "live" /\ Serving(p)
<1>1. TypeOK /\ CallOK(t) BY DEF SInv
<1>2. PICK q \in Classes : th[t].group = Group(q) /\ \A x \in th[t].group : pool[x].mem = "live"
  BY <1>1 DEF CallOK, Called
<1>3. Group(p) = Group(q) /\ p \in Pools BY <1>1, <1>2, GroupIs
<1>4. ASSUME NEW u \in Threads, Calling(u, p), th[u].op = "destroy" PROVE FALSE
  <2>1. th[u].group = Group(p) BY <1>4 DEF Calling
  <2>2. u # t BY <1>4
  <2> QED BY <1>2, <1>3, <1>4, <2>1, <2>2 DEF SInv, AloneInv
<1> QED BY <1>2, <1>3, <1>4 DEF Serving

\* Another thread's call, which only counts on.
Like(u) ==
  \/ th'[u] = th[u]
  \/ th[u].step = "count" /\ \E n \in Int : th'[u] = [th[u] EXCEPT !.pushes = n]

LEMMA LikeFields ==
  ASSUME TypeOK, NEW u \in Threads, Like(u)
  PROVE  /\ th'[u] \in ThreadRec
         /\ th'[u].op = th[u].op /\ th'[u].step = th[u].step /\ th'[u].p = th[u].p /\ th'[u].mag = th[u].mag
         /\ th'[u].old = th[u].old /\ th'[u].todo = th[u].todo /\ th'[u].live = th[u].live
         /\ th'[u].group = th[u].group /\ th'[u].size = th[u].size
         /\ th[u].step # "count" => th'[u] = th[u]
<1>1. th[u] \in ThreadRec BY DEF TypeOK
<1> QED BY <1>1 DEF Like, ThreadRec

\* A step that leaves the pools of u's call where they are leaves its control.
LEMMA CallFrame ==
  ASSUME SInv, scenario' = scenario, NEW u \in Threads, Like(u), tls'[u] = tls[u],
         th[u].op \in {"alloc", "free", "destroy"} => \A x \in th[u].group : pool'[x].mem = pool[x].mem
  PROVE  CallOK(u)'
<1>1. TypeOK /\ CallOK(u) BY DEF SInv
<1>2. /\ th'[u].op = th[u].op /\ th'[u].step = th[u].step /\ th'[u].p = th[u].p
      /\ th'[u].old = th[u].old /\ th'[u].group = th[u].group
      /\ th[u].op = "none" => th'[u] = th[u]
  <2>1. th[u].op = "none" => th[u].step # "count" BY <1>1, StepOp DEF AllocSteps
  <2> QED BY <1>1, <2>1, LikeFields
<1>3. Classes' = Classes /\ Pseudo' = Pseudo /\ \A p : Group(p)' = Group(p) BY ScenarioSame
<1>4. th[u].op \in {"alloc", "free"} /\ Called(u) => Called(u)'
  BY <1>2, <1>3 DEF Called
<1>5. Idle' = Idle BY DEF Idle
<1> QED BY <1>1, <1>2, <1>3, <1>4, <1>5 DEF CallOK

\* And one that leaves its magazines, what it has in hand.
LEMMA HandFrame ==
  ASSUME SInv, NEW u \in Threads, Like(u), tls'[u] = tls[u],
         \A m \in Own(u) : mag'[m].mem = mag[m].mem,
         th[u].step \in {"pop", "push"} => mag'[th[u].mag].pool = mag[th[u].mag].pool,
         th[u].step = "flush" => mag'[Head(th[u].todo)].pool = mag[Head(th[u].todo)].pool,
         th[u].step = "orphan" => /\ mag'[th[u].mag].mem = mag[th[u].mag].mem
                                  /\ mag'[th[u].mag].pool = mag[th[u].mag].pool,
         th[u].step \in {"count", "orphan"} => pool'[th[u].p].mags = pool[th[u].p].mags
  PROVE  HandOK(u)' /\ Own(u)' = Own(u)
<1>1. TypeOK /\ HandOK(u) BY DEF SInv
<1>2. /\ th'[u].op = th[u].op /\ th'[u].step = th[u].step /\ th'[u].p = th[u].p
      /\ th'[u].mag = th[u].mag /\ th'[u].todo = th[u].todo
  BY <1>1, LikeFields
<1>3. Own(u)' = Own(u) BY <1>2 DEF Own
<1>4. \A m \in Elems(tls[u].mags) : mag'[m].mem = mag[m].mem BY DEF Own
<1>5. th[u].op = "exit" => \A m \in Elems(th[u].todo) : mag'[m].mem = mag[m].mem BY DEF Own
<1>6. th[u].step = "flush" => PoolOf(Head(th[u].todo))' = PoolOf(Head(th[u].todo))
  BY <1>2 DEF PoolOf
<1> QED BY <1>1, <1>2, <1>3, <1>4, <1>5, <1>6 DEF HandOK

-----------------------------------------------------------------------------
(* Steps that leave the pools' lists and the magazines where they are.     *)

\* What such a step of thread t does to the others.
Apart(t) == \A u \in Threads \ {t} : Like(u) /\ tls'[u] = tls[u]
Still ==
  /\ scenario' = scenario
  /\ \A p \in Pools : pool'[p].mem = pool[p].mem /\ pool'[p].mags = pool[p].mags
  /\ \A m \in Mags : mag'[m].mem = mag[m].mem /\ mag'[m].pool = mag[m].pool

\* Thread t takes or releases the lock of the pool it counts, or does neither.
LocksOwn(t) ==
  \A p \in Pools :
    \/ lock'[p] = lock[p] /\ (Holding(t, p)' <=> Holding(t, p))
    \/ lock[p] = Null /\ lock'[p] = t /\ Holding(t, p)'
    \/ lock[p] = t /\ lock'[p] = Null /\ ~Holding(t, p)'

LEMMA OwnType ==
  ASSUME TypeOK, NEW u \in Threads
  PROVE  /\ Own(u) \subseteq Mags /\ Elems(tls[u].mags) \subseteq Mags /\ Elems(th[u].todo) \subseteq Mags
         /\ tls[u].mags \in Seq(Mags) /\ th[u].todo \in Seq(Mags) /\ tls[u] \in ListRec /\ th[u] \in ThreadRec
<1>1. tls[u] \in ListRec /\ th[u] \in ThreadRec BY DEF TypeOK
<1>2. tls[u].mags \in Seq(Mags) /\ th[u].todo \in Seq(Mags) BY <1>1 DEF ListRec, ThreadRec
<1>3. \A s \in Seq(Mags) : Elems(s) \subseteq Mags BY ElementOfSeq DEF Elems
<1> QED BY <1>1, <1>2, <1>3 DEF Own

LEMMA OthersStand ==
  ASSUME SInv, NEW t \in Threads, Still, Apart(t), NEW u \in Threads \ {t}
  PROVE  CallOK(u)' /\ HandOK(u)' /\ Own(u)' = Own(u)
<1>1. TypeOK /\ CallOK(u) /\ HandOK(u) BY DEF SInv
<1>2. Like(u) /\ tls'[u] = tls[u] /\ scenario' = scenario BY DEF Apart, Still
<1>3. th[u] \in ThreadRec /\ Own(u) \subseteq Mags /\ Elems(th[u].todo) \subseteq Mags BY <1>1, OwnType
<1>4. CallOK(u)'
  <2>1. ASSUME th[u].op \in {"alloc", "free", "destroy"}, NEW x \in th[u].group PROVE pool'[x].mem = pool[x].mem
    <3>1. PICK q \in Classes : th[u].group = Group(q) BY <1>1, <2>1 DEF CallOK, Called
    <3>2. x \in Pools BY <1>1, <3>1, <2>1, GroupIs
    <3> QED BY <3>2 DEF Still
  <2> QED BY <1>2, <2>1, CallFrame
<1>5. HandOK(u)' /\ Own(u)' = Own(u)
  <2>1. \A m \in Own(u) : mag'[m].mem = mag[m].mem BY <1>3 DEF Still
  <2>2. th[u].step \in {"pop", "push", "orphan"} => th[u].mag \in Mags
    <3>1. th[u].mag \in Mags \cup {Null} BY <1>3 DEF ThreadRec
    <3> QED BY <3>1, <1>1 DEF HandOK
  <2>3. th[u].step = "flush" => Head(th[u].todo) \in Mags
    BY <1>1, <1>3 DEF HandOK, ThreadRec
  <2>4. th[u].step \in {"count", "orphan"} => th[u].p \in Pools
    <3>1. th[u].step = "count" => th[u].p \in Classes BY <1>1, StepOp DEF CallOK, AllocSteps
    <3>2. th[u].step = "orphan" => \E q \in Classes : th[u].p \in Group(q) BY <1>1, StepOp DEF CallOK
    <3> QED BY <1>1, <3>1, <3>2, GroupIs, ScenarioFacts
  <2>5. /\ th[u].step \in {"pop", "push"} => mag'[th[u].mag].pool = mag[th[u].mag].pool
        /\ th[u].step = "flush" => mag'[Head(th[u].todo)].pool = mag[Head(th[u].todo)].pool
        /\ th[u].step = "orphan" => /\ mag'[th[u].mag].mem = mag[th[u].mag].mem
                                    /\ mag'[th[u].mag].pool = mag[th[u].mag].pool
    BY <2>2, <2>3 DEF Still
  <2>6. th[u].step \in {"count", "orphan"} => pool'[th[u].p].mags = pool[th[u].p].mags
    BY <2>4 DEF Still
  <2> QED BY <1>2, <2>1, <2>5, <2>6, HandFrame
<1> QED BY <1>4, <1>5

\* The locks after a step that leaves the registry and what others do alone.
LEMMA LocksKeep ==
  ASSUME SInv, NEW t \in Threads, TypeOK', scenario' = scenario, \A u \in Threads \ {t} : Like(u),
         registry' = registry, LocksOwn(t),
         th[t].step \notin {"flush", "unlink", "orphan"}, th'[t].step \notin {"flush", "unlink", "orphan"}
  PROVE  LockInv'
<1>1. TypeOK /\ LockInv BY DEF SInv
<1>2. Pools' = Pools BY ScenarioSame
<1>3. \A u \in Threads \ {t} : th'[u].step = th[u].step /\ th'[u].p = th[u].p BY <1>1, LikeFields
<1>4. \A u \in Threads \ {t} : \A p : Holding(u, p)' <=> Holding(u, p) BY <1>3 DEF Holding
<1>5. t # Null BY NullFacts
<1>6. ASSUME NEW p \in Pools, lock'[p] # Null PROVE Holding(lock[p], p)'
  <2>1. CASE lock'[p] = lock[p] /\ (Holding(t, p)' <=> Holding(t, p))
    <3>1. Holding(lock[p], p) /\ lock[p] \in Threads BY <1>1, <1>6, <2>1 DEF LockInv, TypeOK
    <3>2. lock'[p] = lock[p] BY <2>1
    <3>3. PICK u \in Threads : u = lock[p] BY <3>1
    <3>4. Holding(u, p)' BY <1>4, <2>1, <3>1, <3>3
    <3> QED BY <3>2, <3>3, <3>4 DEF Holding
  <2>2. CASE lock[p] = Null /\ lock'[p] = t /\ Holding(t, p)' BY <2>2 DEF Holding
  <2> QED BY <1>6, <2>1, <2>2 DEF LocksOwn
<1>7. ASSUME NEW u \in Threads, NEW p \in Pools, Holding(u, p)' PROVE lock'[p] = u
  <2>1. CASE u = t
    <3>1. Holding(t, p) => lock[p] = t BY <1>1 DEF LockInv
    <3> QED BY <1>7, <2>1, <3>1 DEF LocksOwn
  <2>2. CASE u # t
    <3>1. lock[p] = u BY <1>1, <1>4, <1>7, <2>2 DEF LockInv
    <3>2. u # Null BY NullFacts
    <3> QED BY <2>2, <3>1, <3>2 DEF LocksOwn
  <2> QED BY <2>1, <2>2
<1>8. ASSUME registry' # Null PROVE th'[registry'].step \in {"flush", "unlink", "orphan"}
  <2>1. registry \in Threads /\ th[registry].step \in {"flush", "unlink", "orphan"} BY <1>1, <1>8 DEF LockInv, TypeOK
  <2> QED BY <1>3, <2>1
<1>9. \A u \in Threads : th'[u].step \in {"flush", "unlink", "orphan"} => registry' = u
  BY <1>1, <1>3 DEF LockInv
<1> QED BY <1>2, <1>6, <1>7, <1>8, <1>9 DEF LockInv

\* Calls do not meet destructions of their pools.
Admitted(t) ==
  /\ th'[t].op # "destroy"
  /\ th'[t].op \in {"alloc", "free"} => \A u \in Threads \ {t} : th[u].op = "destroy" => th[u].group # th'[t].group

LEMMA AloneKeeps ==
  ASSUME SInv, NEW t \in Threads, \A u \in Threads \ {t} : Like(u), Admitted(t)
  PROVE  AloneInv'
<1>1. TypeOK /\ AloneInv BY DEF SInv
<1>2. \A u \in Threads \ {t} : th'[u].op = th[u].op /\ th'[u].group = th[u].group BY <1>1, LikeFields
<1> QED BY <1>1, <1>2 DEF AloneInv, Admitted

\* A pool goes on serving.
LEMMA ServingKeeps ==
  ASSUME SInv, NEW t \in Threads, scenario' = scenario, \A u \in Threads \ {t} : Like(u), th'[t].op # "destroy",
         NEW p \in Pools, Serving(p), pool'[p].mem = "live"
  PROVE  Serving(p)'
<1>1. TypeOK BY DEF SInv
<1>2. \A u \in Threads \ {t} : th'[u].op = th[u].op /\ th'[u].group = th[u].group BY <1>1, LikeFields
<1>3. Group(p)' = Group(p) BY ScenarioSame
<1> QED BY <1>2, <1>3 DEF Serving, Calling

HeldOK(x) == /\ x.p \in Pools /\ Serving(x.p) /\ (x.p \in Classes \/ scenario.ranged)
             /\ x.kind = "block" => x.p \in Classes

\* A step of thread t that keeps the pools' lists.
LEMMA StillKeeps ==
  ASSUME SInv, NEW t \in Threads, TypeOK', Still, Apart(t), LockInv', AloneInv', th[t].step # "orphan",
         CallOK(t)', HandOK(t)', Own(t)' = Own(t),
         \A x \in held' : HeldOK(x)'
  PROVE  SInv'
<1>1. TypeOK /\ OwnInv /\ PoolInv BY DEF SInv
<1>2. scenario' = scenario BY DEF Still
<1>3. Pools' = Pools /\ Classes' = Classes /\ \A p : Count(p)' = Count(p) BY <1>2, ScenarioSame
<1>4. \A n : Magazines(n)' = Magazines(n) BY <1>2, ScenarioSame
<1>5. \A u \in Threads : CallOK(u)' /\ HandOK(u)' /\ Own(u)' = Own(u)
  BY OthersStand
<1>6. \A u \in Threads \ {t} : Like(u) BY DEF Apart
<1>7. OwnInv' BY <1>1, <1>5 DEF OwnInv
<1>8. PoolInv'
  <2>1. \A u \in Threads : th[u].step = "orphan" => th'[u].step = "orphan" /\ th'[u].mag = th[u].mag
    BY <1>1, <1>6, LikeFields
  <2>2. \A p \in Pools : Elems(pool[p].mags) \subseteq Mags
    <3>1. \A p \in Pools : pool[p].mags \in Seq(Mags) BY <1>1 DEF TypeOK, PoolType
    <3> QED BY <3>1, ElementOfSeq DEF Elems
  <2> SUFFICES ASSUME NEW p \in Pools PROVE PoolAt(p)' BY <1>3 DEF PoolInv
  <2>3. p \in Pools /\ pool'[p].mem = pool[p].mem /\ pool'[p].mags = pool[p].mags BY <1>3 DEF Still
  <2>4. /\ Distinct(pool[p].mags) /\ (pool[p].mem = "freed" => pool[p].mags = <<>>)
        /\ \A m \in Elems(pool[p].mags) : mag[m].mem = "live" /\ mag[m].pool = p
        /\ \A m \in Mags : mag[m].mem = "live" /\ mag[m].pool = p =>
             m \in Elems(pool[p].mags) \/ \E u \in Threads : th[u].step = "orphan" /\ th[u].mag = m
        /\ p \in Classes => Len(pool[p].mags) <= Magazines(Count(p))
    BY <1>1, <2>3 DEF PoolInv, PoolAt
  <2>5. \A m \in Elems(pool[p].mags) : mag'[m].mem = "live" /\ mag'[m].pool = p
    BY <2>2, <2>3, <2>4 DEF Still
  <2>6. \A m \in Mags : mag'[m].mem = "live" /\ mag'[m].pool = p =>
             m \in Elems(pool[p].mags) \/ \E u \in Threads : th'[u].step = "orphan" /\ th'[u].mag = m
    BY <2>1, <2>4 DEF Still
  <2> QED BY <1>3, <1>4, <2>3, <2>4, <2>5, <2>6 DEF PoolAt
<1>9. \A m \in Mags : mag'[m].mem = "live" => mag'[m].pool \in Classes' \cup {Null}
  BY <1>3 DEF SInv, Still
<1> QED BY <1>5, <1>7, <1>8, <1>9 DEF SInv, HeldOK

\* One within a call, or before or after it.
LEMMA QuietKeeps ==
  ASSUME SInv, NEW t \in Threads, TypeOK', Still, Apart(t), registry' = registry, LocksOwn(t),
         th[t].step \notin {"flush", "unlink", "orphan"}, th'[t].step \notin {"flush", "unlink", "orphan"},
         Admitted(t), CallOK(t)', HandOK(t)', Own(t)' = Own(t),
         \A x \in held' : x \in held \/ HeldOK(x)
  PROVE  SInv'
<1>1. scenario' = scenario /\ \A u \in Threads \ {t} : Like(u) BY DEF Still, Apart
<1>2. LockInv' BY <1>1, LocksKeep
<1>3. AloneInv' BY <1>1, AloneKeeps
<1>4. ASSUME NEW x \in held' PROVE HeldOK(x)'
  <2>1. HeldOK(x) BY <1>4 DEF SInv, HeldOK
  <2>2. pool'[x.p].mem = "live" BY <2>1 DEF HeldOK, Serving, Still
  <2>3. Serving(x.p)' BY <1>1, <2>1, <2>2, ServingKeeps DEF Admitted, HeldOK
  <2> QED BY <1>1, <2>1, <2>3, ScenarioSame DEF HeldOK
<1> QED BY <1>2, <1>3, <1>4, StillKeeps

-----------------------------------------------------------------------------
(* Calls and allocation, action by action.                                 *)

\* The class of a call's pool, once it has begun.
LEMMA AtClass ==
  ASSUME TypeOK, NEW t \in Threads, CallOK(t),
         th[t].step \in (AllocSteps \cup FreeSteps) \ {"alloc", "free", "ask"}
  PROVE  /\ th[t].p \in Classes /\ th[t].p \in th[t].group /\ th[t].p \in Pools
         /\ Count(th[t].p) \in Nat /\ Total(th[t].p) \in Nat
<1>1. th[t].p \in Classes /\ th[t].p \in th[t].group
  BY StepOp DEF CallOK, AllocSteps, FreeSteps
<1>2. th[t].p \in Pools /\ Count(th[t].p) \in Nat /\ th[t].p # Pseudo BY <1>1, ScenarioFacts
<1>3. Total(th[t].p) = Count(th[t].p) + Reserve(Count(th[t].p)) BY <1>2 DEF Total
<1> QED BY <1>1, <1>2, <1>3, Geometry

\* A step that changes nothing but the call itself.
OwnStep(t) == /\ scenario' = scenario /\ pool' = pool /\ mag' = mag /\ registry' = registry
              /\ \A u \in Threads \ {t} : th'[u] = th[u] /\ tls'[u] = tls[u]

LEMMA OwnStepStill ==
  ASSUME NEW t, OwnStep(t)
  PROVE  Still /\ Apart(t)
BY DEF OwnStep, Still, Apart, Like

\* Idle is a record.
LEMMA IdleFields ==
  /\ Idle \in ThreadRec
  /\ Idle.op = "none" /\ Idle.step = "none" /\ Idle.mag = Null /\ Idle.old = Null /\ Idle.todo = <<>>
BY DEF Idle, ThreadRec, Ops, Steps

LEMMA StartKeeps ==
  ASSUME SInv, NEW t \in Threads, NEW op \in {"alloc", "free"}, NEW p \in Pools, NEW size \in Nat,
         NEW old \in EntryRec \cup {Null}, Start(t, op, p, size, old), held' \subseteq held,
         NEW q \in Classes, Group(p) = Group(q),
         op = "alloc" => p \in Classes,
         op = "alloc" /\ old # Null => scenario.ranged,
         op = "free" => old # Null /\ p = old.p,
         old # Null => old.p \in Group(p) /\ (old.kind = "block" => old.p \in Classes)
  PROVE  SInv'
<1>1. TypeOK BY DEF SInv
<1> DEFINE r == [Idle EXCEPT !.op = op, !.step = op, !.p = p, !.size = size, !.old = old, !.group = Group(p)]
<1>2. /\ th[t] = Idle /\ \A x \in Group(p) : pool[x].mem = "live"
      /\ \A u \in Threads : Calling(u, p) => th[u].op # "destroy"
      /\ th' = [th EXCEPT ![t] = r]
      /\ scenario' = scenario /\ pool' = pool /\ mag' = mag /\ registry' = registry /\ lock' = lock /\ tls' = tls
  BY DEF Start, poolVars
<1>3. /\ r.op = op /\ r.step = op /\ r.p = p /\ r.mag = Null /\ r.old = old /\ r.todo = <<>> /\ r.group = Group(p)
      /\ r \in ThreadRec
  <2>1. Group(p) \subseteq Nat /\ p \in Nat BY <1>1, GroupFacts, ScenarioFacts
  <2>2. Idle \in ThreadRec /\ Idle.mag = Null /\ Idle.todo = <<>> BY IdleFields
  <2>3. op \in Ops /\ op \in Steps BY DEF Ops, Steps
  <2>4. r \in ThreadRec BY <2>1, <2>2, <2>3 DEF ThreadRec
  <2> QED BY <2>2, <2>4 DEF ThreadRec
<1> HIDE DEF r
<1>4. th \in [Threads -> ThreadRec] BY <1>1 DEF TypeOK
<1>5. th'[t] = r /\ \A u \in Threads \ {t} : th'[u] = th[u] BY <1>2, <1>4
<1>6. TypeOK'
  <2>1. th' \in [Threads -> ThreadRec] BY <1>2, <1>3, <1>4
  <2>2. Pools' = Pools BY <1>2, ScenarioSame
  <2> QED BY <1>1, <1>2, <2>1, <2>2 DEF TypeOK, PoolType
<1>7. Still /\ Apart(t) BY <1>2, <1>5, OwnStepStill DEF OwnStep
<1>8. th[t].op = "none" /\ th[t].step = "none" BY <1>2, IdleFields
<1>9. LocksOwn(t) BY <1>2, <1>3, <1>5, <1>8 DEF LocksOwn, Holding
<1>10. Admitted(t)
  <2>1. \A u \in Threads \ {t} : th[u].op = "destroy" => th[u].group # Group(p) BY <1>2 DEF Calling
  <2> QED BY <1>3, <1>5, <2>1 DEF Admitted
<1>11. CallOK(t)'
  <2>1. Classes' = Classes /\ \A x : Group(x)' = Group(x) BY <1>2, ScenarioSame
  <2>2. Called(t)' BY <1>2, <1>3, <1>5, <2>1 DEF Called
  <2>3. p \in Group(p) BY GroupFacts
  <2> QED BY <1>2, <1>3, <1>5, <2>1, <2>2, <2>3 DEF CallOK, AllocSteps, FreeSteps
<1>12. HandOK(t)' /\ Own(t)' = Own(t)
  <2>1. HandOK(t) BY DEF SInv
  <2>2. Distinct(<<>>) BY DEF Distinct
  <2> QED BY <1>2, <1>3, <1>5, <1>8, <2>1, <2>2 DEF HandOK, Own
<1> QED BY <1>2, <1>3, <1>5, <1>6, <1>7, <1>8, <1>9, <1>10, <1>11, <1>12, QuietKeeps

LEMMA CallsKeep ==
  ASSUME SInv, NEW t \in Threads,
         \/ \E n \in Classes : AllocCall(t, n) \/ \E x \in held : ReallocCall(t, x, n)
         \/ \E x \in held : FreeCall(t, x)
  PROVE  SInv'
<1>1. TypeOK BY DEF SInv
<1>2. Classes \subseteq Pools /\ Pools \subseteq Nat BY <1>1, ScenarioFacts
<1>3. \A x \in held : x \in EntryRec /\ x # Null /\ HeldOK(x) BY <1>1, NullFacts DEF TypeOK, SInv, HeldOK
<1>4. ASSUME NEW n \in Classes, AllocCall(t, n) PROVE SInv'
  <2>1. Start(t, "alloc", n, n, Null) /\ held' = held BY <1>4 DEF AllocCall
  <2> QED BY <1>2, <2>1, StartKeeps
<1>5. ASSUME NEW n \in Classes, NEW x \in held, ReallocCall(t, x, n) PROVE SInv'
  <2>1. scenario.ranged /\ Start(t, "alloc", n, n, x) /\ held' \subseteq held BY <1>5 DEF ReallocCall
  <2>2. x.p \in Group(n) /\ (x.kind = "block" => x.p \in Classes) BY <1>3, <2>1 DEF HeldOK, Group
  <2> QED BY <1>2, <1>3, <2>1, <2>2, StartKeeps
<1>6. ASSUME NEW x \in held, FreeCall(t, x) PROVE SInv'
  <2>1. Start(t, "free", x.p, 0, x) /\ held' \subseteq held BY <1>6 DEF FreeCall
  <2>2. x.p \in Pools /\ (x.kind = "block" => x.p \in Classes) /\ (x.p \in Classes \/ scenario.ranged) BY <1>3 DEF HeldOK
  <2>3. PICK q \in Classes : Group(x.p) = Group(q)
    <3>1. CASE x.p \in Classes BY <3>1
    <3>2. CASE scenario.ranged
      <4>1. 1 \in Classes BY <1>1, ScenarioFacts DEF Classes
      <4> QED BY <3>2, <4>1 DEF Group
    <3> QED BY <2>2, <3>1, <3>2
  <2>4. x.p \in Group(x.p) BY <2>2, GroupFacts
  <2> QED BY <1>3, <2>1, <2>2, <2>3, <2>4, StartKeeps
<1> QED BY <1>4, <1>5, <1>6

\* Thread t's call goes on, or returns.
LEMMA WithinCall ==
  ASSUME SInv, NEW t \in Threads, Still, th[t].op \in {"alloc", "free"},
         th'[t].op = th[t].op, th'[t].group = th[t].group, th'[t].old = th[t].old,
         th[t].op = "alloc" => /\ th'[t].step \in AllocSteps
                               /\ \/ th'[t].p \in th[t].group /\ th'[t].p \in Classes
                                  \/ th'[t].step = "alloc" /\ th'[t].p = Pseudo,
         th[t].op = "free" => /\ th'[t].step \in FreeSteps /\ (th'[t].step # "ask" => th'[t].p = th[t].old.p)
                              /\ th'[t].step \notin {"free", "ask"} => th[t].old.kind = "block"
  PROVE  CallOK(t)'
<1>1. TypeOK /\ CallOK(t) BY DEF SInv
<1>2. Classes' = Classes /\ Pseudo' = Pseudo /\ scenario' = scenario /\ \A p : Group(p)' = Group(p)
  BY ScenarioSame DEF Still
<1>3. Called(t)'
  <2>1. Called(t) BY <1>1 DEF CallOK
  <2>2. PICK q \in Classes : th[t].group = Group(q) /\ \A x \in th[t].group : pool[x].mem = "live" BY <2>1 DEF Called
  <2>3. \A x \in th[t].group : x \in Pools BY <1>1, <2>2, GroupIs
  <2>4. \A x \in th[t].group : pool'[x].mem = "live" BY <2>2, <2>3 DEF Still
  <2> QED BY <1>2, <2>2, <2>4 DEF Called
<1> QED BY <1>1, <1>2, <1>3 DEF CallOK

LEMMA CallGoesOn ==
  ASSUME SInv, NEW t \in Threads, TypeOK', Still, Apart(t), registry' = registry, LocksOwn(t),
         th[t].op \in {"alloc", "free"}, th'[t].op \in {"none", "alloc", "free"},
         th'[t].op = "none" \/ th'[t].group = th[t].group,
         tls'[t].mags = tls[t].mags, CallOK(t)', HandOK(t)',
         \A x \in held' : x \in held \/ HeldOK(x)
  PROVE  SInv'
<1>1. TypeOK /\ CallOK(t) /\ AloneInv BY DEF SInv
<1>2. th[t].step \in AllocSteps \cup FreeSteps BY <1>1 DEF CallOK
<1>3. th'[t].step \notin {"flush", "unlink", "orphan"}
  BY IdleFields DEF CallOK, AllocSteps, FreeSteps
<1>4. Own(t)' = Own(t) BY DEF Own
<1>5. Admitted(t) BY <1>1 DEF Admitted, AloneInv
<1> QED BY <1>2, <1>3, <1>4, <1>5, QuietKeeps DEF AllocSteps, FreeSteps

\* What is in hand at a step of a call.
LEMMA WithinHand ==
  ASSUME SInv, NEW t \in Threads, TypeOK', Still, th'[t].op \in {"none", "alloc", "free"}, CallOK(t)',
         tls'[t].mags = tls[t].mags, tls'[t].cache # Null => tls'[t].cache \in Elems(tls[t].mags),
         th'[t].mag # Null => th'[t].mag \in Elems(tls[t].mags),
         th'[t].step \in {"find", "freeFind"} => th'[t].mag = Null,
         th'[t].step \in {"pop", "push"} => th'[t].mag # Null /\ mag[th'[t].mag].pool = th'[t].p,
         th'[t].todo = <<>> \/ (th'[t].step = "count" /\ Distinct(th'[t].todo) /\ Elems(th'[t].todo) \subseteq Elems(pool[th'[t].p].mags))
  PROVE  HandOK(t)'
<1>1. TypeOK /\ HandOK(t) BY DEF SInv
<1>2. Elems(tls[t].mags) \subseteq Mags BY <1>1, OwnType
<1>3. \A m \in Elems(tls[t].mags) : mag'[m].mem = "live" /\ mag'[m].pool = mag[m].pool
  BY <1>1, <1>2 DEF HandOK, Still
<1>4. th'[t].step \in AllocSteps \cup FreeSteps \cup {"none"} BY IdleFields DEF CallOK
<1>5. Distinct(th'[t].todo) BY DEF Distinct
<1>6. \A x : x \in Elems(<<>>) => FALSE BY DEF Elems
<1>7. th'[t].step = "count" => Elems(th'[t].todo) \subseteq Elems(pool'[th'[t].p].mags)
  <2> SUFFICES ASSUME th'[t].step = "count" PROVE Elems(th'[t].todo) \subseteq Elems(pool'[th'[t].p].mags) OBVIOUS
  <2>1. th'[t].op = "alloc" BY IdleFields DEF CallOK, FreeSteps
  <2>2. th'[t].p \in Classes' BY <2>1 DEF CallOK
  <2>3. th'[t].p \in Pools BY <1>1, <2>2, ScenarioSame, ScenarioFacts DEF Still
  <2>4. pool'[th'[t].p].mags = pool[th'[t].p].mags BY <2>3 DEF Still
  <2> QED BY <1>6, <2>4
<1> QED BY <1>1, <1>3, <1>4, <1>5, <1>7 DEF HandOK, AllocSteps, FreeSteps

\* Types after a step that changes the call only, the thread's list too.
LEMMA CallTypes ==
  ASSUME TypeOK, NEW t \in Threads, scenario' = scenario, pool' = pool, mag' = mag, lock' = lock, registry' = registry,
         NEW r \in ThreadRec, th' = [th EXCEPT ![t] = r],
         NEW l \in ListRec, tls' = [tls EXCEPT ![t] = l], held' \subseteq held
  PROVE  TypeOK' /\ th'[t] = r /\ tls'[t] = l /\ OwnStep(t) /\ Still /\ Apart(t)
<1>1. Pools' = Pools BY ScenarioSame
<1>2. th' \in [Threads -> ThreadRec] /\ tls' \in [Threads -> ListRec] BY DEF TypeOK
<1>3. /\ th'[t] = r /\ tls'[t] = l /\ \A u \in Threads \ {t} : th'[u] = th[u] /\ tls'[u] = tls[u] BY DEF TypeOK
<1>4. OwnStep(t) BY <1>3 DEF OwnStep
<1>5. TypeOK' BY <1>1, <1>2 DEF TypeOK, PoolType
<1> QED BY <1>3, <1>4, <1>5, OwnStepStill

\* A step of a call that only moves on, with the locks as they were.
LEMMA Moves ==
  ASSUME SInv, NEW t \in Threads, scenario' = scenario, pool' = pool, mag' = mag, lock' = lock, registry' = registry,
         held' = held, th[t].op \in {"alloc", "free"}, th[t].step # "count",
         NEW s \in Steps \ {"count"}, NEW p \in Nat, NEW m \in Mags \cup {Null},
         th' = [th EXCEPT ![t] = [th[t] EXCEPT !.step = s, !.p = p, !.mag = m]],
         NEW c \in Mags \cup {Null}, tls' = [tls EXCEPT ![t] = [tls[t] EXCEPT !.cache = c]],
         c # Null => c \in Elems(tls[t].mags),
         m # Null => m \in Elems(tls[t].mags),
         s \in {"find", "freeFind"} => m = Null,
         s \in {"pop", "push"} => m # Null /\ mag[m].pool = p,
         th[t].op = "alloc" => s \in AllocSteps /\ ((p \in th[t].group /\ p \in Classes) \/ (s = "alloc" /\ p = Pseudo)),
         th[t].op = "free" => /\ s \in FreeSteps /\ (s # "ask" => p = th[t].old.p)
                              /\ s \notin {"free", "ask"} => th[t].old.kind = "block"
  PROVE  SInv'
<1> DEFINE r == [th[t] EXCEPT !.step = s, !.p = p, !.mag = m]
           l == [tls[t] EXCEPT !.cache = c]
<1>1. TypeOK /\ CallOK(t) /\ HandOK(t) BY DEF SInv
<1>2. th[t] \in ThreadRec /\ tls[t] \in ListRec BY <1>1 DEF TypeOK
<1>3. /\ r \in ThreadRec /\ l \in ListRec
      /\ r.op = th[t].op /\ r.step = s /\ r.p = p /\ r.mag = m /\ r.old = th[t].old /\ r.group = th[t].group
      /\ r.todo = th[t].todo /\ l.mags = tls[t].mags /\ l.cache = c
  BY <1>2 DEF ThreadRec, ListRec
<1> HIDE DEF r, l
<1>4. TypeOK' /\ th'[t] = r /\ tls'[t] = l /\ OwnStep(t) /\ Still /\ Apart(t)
  BY <1>1, <1>3, CallTypes DEF r, l
<1>5. CallOK(t)' BY <1>3, <1>4, WithinCall
<1>6. th[t].todo = <<>>
  <2>1. th[t].step \in AllocSteps \cup FreeSteps BY <1>1 DEF CallOK
  <2> QED BY <1>1, <2>1 DEF HandOK, AllocSteps, FreeSteps
<1>7. HandOK(t)' BY <1>3, <1>4, <1>5, <1>6, WithinHand
<1>8. LocksOwn(t)
  <2>1. th[t].step \in AllocSteps \cup FreeSteps BY <1>1 DEF CallOK
  <2>2. s \in AllocSteps \cup FreeSteps OBVIOUS
  <2>3. \A x : ~Holding(t, x) /\ ~Holding(t, x)' BY <1>3, <1>4, <2>1, <2>2 DEF Holding, AllocSteps, FreeSteps
  <2> QED BY <2>3 DEF LocksOwn
<1> QED BY <1>3, <1>4, <1>5, <1>7, <1>8, CallGoesOn

LEMMA SameRec ==
  ASSUME TypeOK, NEW t \in Threads
  PROVE  /\ th[t] = [th[t] EXCEPT !.p = th[t].p] /\ th[t] = [th[t] EXCEPT !.mag = th[t].mag]
         /\ tls = [tls EXCEPT ![t] = [tls[t] EXCEPT !.cache = tls[t].cache]]
         /\ th[t].p \in Nat /\ th[t].mag \in Mags \cup {Null} /\ tls[t].cache \in Mags \cup {Null}
<1>1. th[t] \in ThreadRec /\ tls[t] \in ListRec /\ tls \in [Threads -> ListRec] BY DEF TypeOK
<1>2. tls[t] = [tls[t] EXCEPT !.cache = tls[t].cache] BY <1>1 DEF ListRec
<1>3. /\ th[t] = [th[t] EXCEPT !.p = th[t].p] /\ th[t] = [th[t] EXCEPT !.mag = th[t].mag] BY <1>1 DEF ThreadRec
<1>4. th[t].p \in Nat /\ th[t].mag \in Mags \cup {Null} /\ tls[t].cache \in Mags \cup {Null}
  BY <1>1 DEF ThreadRec, ListRec
<1> QED BY <1>1, <1>2, <1>3, <1>4

\* The same for a step that keeps the list and the pool.
LEMMA MovesTo ==
  ASSUME SInv, NEW t \in Threads, scenario' = scenario, pool' = pool, mag' = mag, lock' = lock, registry' = registry,
         held' = held, tls' = tls, th[t].op \in {"alloc", "free"}, th[t].step # "count",
         NEW s \in Steps \ {"count"}, NEW m \in Mags \cup {Null},
         th' = [th EXCEPT ![t] = [th[t] EXCEPT !.step = s, !.mag = m]],
         th[t].p \in Classes /\ th[t].p \in th[t].group,
         m # Null => m \in Elems(tls[t].mags),
         s \in {"find", "freeFind"} => m = Null,
         s \in {"pop", "push"} => m # Null /\ mag[m].pool = th[t].p,
         th[t].op = "alloc" => s \in AllocSteps,
         th[t].op = "free" => s \in FreeSteps \ {"ask"} /\ th[t].old.kind = "block" /\ th[t].p = th[t].old.p
  PROVE  SInv'
<1>1. TypeOK /\ HandOK(t) BY DEF SInv
<1>2. /\ th[t].p \in Nat /\ tls[t].cache \in Mags \cup {Null}
      /\ tls' = [tls EXCEPT ![t] = [tls[t] EXCEPT !.cache = tls[t].cache]]
  BY <1>1, SameRec
<1>3. th' = [th EXCEPT ![t] = [th[t] EXCEPT !.step = s, !.p = th[t].p, !.mag = m]]
  <2>1. th[t] \in ThreadRec BY <1>1 DEF TypeOK
  <2>2. [th[t] EXCEPT !.step = s, !.mag = m] = [th[t] EXCEPT !.step = s, !.p = th[t].p, !.mag = m]
    BY <2>1 DEF ThreadRec
  <2> QED BY <2>2
<1>4. tls[t].cache # Null => tls[t].cache \in Elems(tls[t].mags) BY <1>1 DEF HandOK
<1>5. PICK p \in Nat, c \in Mags \cup {Null} : p = th[t].p /\ c = tls[t].cache BY <1>2
<1>6. /\ th' = [th EXCEPT ![t] = [th[t] EXCEPT !.step = s, !.p = p, !.mag = m]]
      /\ tls' = [tls EXCEPT ![t] = [tls[t] EXCEPT !.cache = c]]
      /\ c # Null => c \in Elems(tls[t].mags)
      /\ s \in {"pop", "push"} => m # Null /\ mag[m].pool = p
      /\ th[t].op = "alloc" => s \in AllocSteps /\ ((p \in th[t].group /\ p \in Classes) \/ (s = "alloc" /\ p = Pseudo))
      /\ th[t].op = "free" => /\ s \in FreeSteps /\ (s # "ask" => p = th[t].old.p)
                              /\ s \notin {"free", "ask"} => th[t].old.kind = "block"
  BY <1>2, <1>3, <1>4, <1>5
<1> QED BY <1>6, Moves

\* Beginning a call, and the fast path.
LEMMA BeginsKeep ==
  ASSUME SInv, NEW t \in Threads, AllocBegins(t) \/ FreeBegins(t)
  PROVE  SInv'
<1>1. TypeOK /\ CallOK(t) /\ HandOK(t) BY DEF SInv
<1> DEFINE p == th[t].p
           m == IF Hit(t, p) THEN tls[t].cache ELSE Null
<1>2. p \in Classes /\ p \in th[t].group /\ th[t].op \in {"alloc", "free"} /\ th[t].step # "count"
      /\ (th[t].op = "free" => th[t].old.kind = "block" /\ p = th[t].old.p)
  <2>1. CASE AllocBegins(t)
    <3>1. th[t].step = "alloc" /\ p \in Classes BY <2>1 DEF AllocBegins
    <3>2. th[t].op = "alloc" BY <1>1, <3>1, StepOp DEF AllocSteps
    <3>3. p # Pseudo BY <1>1, <3>1, ScenarioFacts
    <3> QED BY <1>1, <3>1, <3>2, <3>3 DEF CallOK
  <2>2. CASE FreeBegins(t)
    <3>1. th[t].step = "free" /\ th[t].old.kind = "block" BY <2>2 DEF FreeBegins
    <3>2. th[t].op = "free" BY <1>1, <3>1, StepOp DEF FreeSteps
    <3>3. th[t].old # Null /\ p = th[t].old.p BY <1>1, <3>1, <3>2 DEF CallOK
    <3> QED BY <1>1, <3>1, <3>2, <3>3 DEF CallOK
  <2> QED BY <2>1, <2>2
<1>3. PICK s : /\ th' = [th EXCEPT ![t] = [th[t] EXCEPT !.step = s, !.mag = m]]
               /\ \/ s \in {"serve", "pop", "find"} /\ th[t].step = "alloc"
                  \/ s \in {"lockedFree", "push", "freeFind"} /\ th[t].step = "free"
               /\ s \in {"pop", "push"} => Hit(t, p)
               /\ s \in {"find", "freeFind"} => ~Hit(t, p)
  <2>1. CASE AllocBegins(t)
    <3> DEFINE s == CASE Magazines(Count(p)) = 0 -> "serve" [] Hit(t, p) -> "pop" [] OTHER -> "find"
    <3>1. th' = [th EXCEPT ![t].step = s, ![t].mag = m] /\ th[t].step = "alloc" BY <2>1 DEF AllocBegins
    <3> HIDE DEF s, m
    <3>2. th' = [th EXCEPT ![t] = [th[t] EXCEPT !.step = s, !.mag = m]] BY <1>1, <3>1 DEF TypeOK
    <3>3. s \in {"serve", "pop", "find"} /\ (s = "pop" => Hit(t, p)) /\ (s = "find" => ~Hit(t, p)) BY DEF s
    <3> QED BY <3>1, <3>2, <3>3
  <2>2. CASE FreeBegins(t)
    <3> DEFINE s == CASE Magazines(Count(p)) = 0 -> "lockedFree" [] Hit(t, p) -> "push" [] OTHER -> "freeFind"
    <3>1. th' = [th EXCEPT ![t].step = s, ![t].mag = m] /\ th[t].step = "free" BY <2>2 DEF FreeBegins
    <3> HIDE DEF s, m
    <3>2. th' = [th EXCEPT ![t] = [th[t] EXCEPT !.step = s, !.mag = m]] BY <1>1, <3>1 DEF TypeOK
    <3>3. s \in {"lockedFree", "push", "freeFind"} /\ (s = "push" => Hit(t, p)) /\ (s = "freeFind" => ~Hit(t, p)) BY DEF s
    <3> QED BY <3>1, <3>2, <3>3
  <2> QED BY <2>1, <2>2
<1>4. /\ scenario' = scenario /\ pool' = pool /\ mag' = mag /\ lock' = lock /\ registry' = registry
      /\ held' = held /\ tls' = tls
  BY DEF AllocBegins, FreeBegins, poolVars
<1>5. /\ m \in Mags \cup {Null} /\ (m # Null => m \in Elems(tls[t].mags))
      /\ Hit(t, p) => m # Null /\ mag[m].pool = p
      /\ ~Hit(t, p) => m = Null
  BY <1>1, SameRec DEF Hit, HandOK
<1> HIDE DEF m
<1>6. s \in Steps \ {"count"} BY <1>3 DEF Steps
<1>7. th[t].op = "alloc" => s \in AllocSteps BY <1>1, <1>3, StepOp DEF AllocSteps, FreeSteps
<1>8. th[t].op = "free" => s \in FreeSteps \ {"ask"} BY <1>1, <1>3, StepOp DEF AllocSteps, FreeSteps
<1> QED BY <1>2, <1>3, <1>4, <1>5, <1>6, <1>7, <1>8, MovesTo

\* Looking for the pool's magazine in the thread's list.
LEMMA FindsKeep ==
  ASSUME SInv, NEW t \in Threads, AllocFinds(t) \/ FreeFinds(t)
  PROVE  SInv'
<1>1. TypeOK /\ CallOK(t) /\ HandOK(t) BY DEF SInv
<1>2. PICK next, none :
        /\ \/ th[t].step = "find" /\ next = "pop" /\ none = "budget"
           \/ th[t].step = "freeFind" /\ next = "push" /\ none = "freeBudget"
        /\ Find(t, next, none)
  BY DEF AllocFinds, FreeFinds
<1>3. th[t].step \in {"find", "freeFind"} /\ th[t].step # "count" BY <1>2
<1>4. /\ th[t].op \in {"alloc", "free"} /\ th[t].p \in Classes /\ th[t].p \in th[t].group
      /\ th[t].op = "alloc" => {next, none} \subseteq AllocSteps
      /\ th[t].op = "free" => {next, none} \subseteq FreeSteps \ {"ask"} /\ th[t].old.kind = "block" /\ th[t].p = th[t].old.p
  <2>1. th[t].op \in {"alloc", "free"} /\ th[t].p \in Classes /\ th[t].p \in th[t].group
    BY <1>1, <1>3, StepOp, AtClass DEF AllocSteps, FreeSteps
  <2>2. th[t].op = "alloc" => {next, none} \subseteq AllocSteps BY <1>1, <1>2, StepOp DEF AllocSteps, FreeSteps
  <2>3. th[t].op = "free" => {next, none} \subseteq FreeSteps \ {"ask"} BY <1>1, <1>2, StepOp DEF AllocSteps, FreeSteps
  <2> QED BY <1>1, <1>3, <2>1, <2>2, <2>3 DEF CallOK
<1>5. /\ scenario' = scenario /\ pool' = pool /\ mag' = mag /\ lock' = lock /\ registry' = registry /\ held' = held
  BY DEF AllocFinds, FreeFinds, poolVars
<1>6. {next, none} \subseteq Steps \ {"count"} BY <1>2 DEF Steps
<1>7. th \in [Threads -> ThreadRec] /\ tls \in [Threads -> ListRec] BY <1>1 DEF TypeOK
<1>8. ASSUME NEW j \in DOMAIN tls[t].mags, NEW m, m = tls[t].mags[j], mag[m].pool = th[t].p,
             tls' = [tls EXCEPT ![t].cache = m], th' = [th EXCEPT ![t].step = next, ![t].mag = m]
      PROVE  SInv'
  <2>1. m \in Elems(tls[t].mags) /\ m \in Mags
    <3>1. tls[t].mags \in Seq(Mags) BY <1>1, OwnType
    <3> QED BY <1>8, <3>1, ElementOfSeq DEF Elems
  <2>2. m # Null BY <2>1, NullFacts
  <2>3. PICK p \in Nat : p = th[t].p BY <1>1, SameRec
  <2>4. th' = [th EXCEPT ![t] = [th[t] EXCEPT !.step = next, !.p = p, !.mag = m]]
    <3>1. [th EXCEPT ![t].step = next, ![t].mag = m] = [th EXCEPT ![t] = [th[t] EXCEPT !.step = next, !.mag = m]]
      BY <1>7
    <3>2. th[t] \in ThreadRec BY <1>7
    <3>3. [th[t] EXCEPT !.step = next, !.mag = m] = [th[t] EXCEPT !.step = next, !.p = p, !.mag = m]
      BY <2>3, <3>2 DEF ThreadRec
    <3> QED BY <1>8, <3>1, <3>3
  <2>5. tls' = [tls EXCEPT ![t] = [tls[t] EXCEPT !.cache = m]] BY <1>7, <1>8
  <2>6. next \in Steps \ {"count"} /\ next \notin {"find", "freeFind", "free", "ask", "alloc"} BY <1>2, <1>6
  <2>7. /\ th[t].op = "alloc" => next \in AllocSteps /\ p \in th[t].group /\ p \in Classes
        /\ th[t].op = "free" => next \in FreeSteps /\ p = th[t].old.p /\ th[t].old.kind = "block"
    BY <1>4, <2>3
  <2>8. mag[m].pool = p BY <1>8, <2>3
  <2>9. /\ next \in {"find", "freeFind"} => m = Null
        /\ next \in {"pop", "push"} => m # Null /\ mag[m].pool = p
        /\ th[t].op = "alloc" => next \in AllocSteps /\ ((p \in th[t].group /\ p \in Classes) \/ (next = "alloc" /\ p = Pseudo))
        /\ th[t].op = "free" => /\ next \in FreeSteps /\ (next # "ask" => p = th[t].old.p)
                                /\ next \notin {"free", "ask"} => th[t].old.kind = "block"
    BY <2>2, <2>6, <2>7, <2>8
  <2>10. m \in Mags \cup {Null} /\ th[t].op \in {"alloc", "free"} BY <2>1, <1>4
  <2> QED BY <1>3, <1>5, <2>1, <2>4, <2>5, <2>6, <2>9, <2>10, Moves
<1>9. ASSUME th' = [th EXCEPT ![t].step = none, ![t].mag = Null], tls' = tls PROVE SInv'
  <2>1. th' = [th EXCEPT ![t] = [th[t] EXCEPT !.step = none, !.mag = Null]] BY <1>7, <1>9
  <2>2. none \in Steps \ {"count"} /\ none \notin {"find", "freeFind", "pop", "push"} BY <1>2, <1>6
  <2> QED BY <1>3, <1>4, <1>5, <1>9, <2>1, <2>2, MovesTo
<1> QED BY <1>2, <1>8, <1>9 DEF Find

LEMMA BudgetsKeep ==
  ASSUME SInv, NEW t \in Threads, AllocBudget(t) \/ FreeBudget(t)
  PROVE  SInv'
<1>1. TypeOK /\ CallOK(t) /\ HandOK(t) BY DEF SInv
<1>2. PICK s : /\ Goto(t, s)
               /\ \/ th[t].step = "budget" /\ s \in {"create", "serve"}
                  \/ th[t].step = "freeBudget" /\ s \in {"freeCreate", "lockedFree"}
  BY DEF AllocBudget, FreeBudget
<1>3. th[t].step \in {"budget", "freeBudget"} BY <1>2
<1>4. /\ th[t].op \in {"alloc", "free"} /\ th[t].p \in Classes /\ th[t].p \in th[t].group
      /\ th[t].op = "alloc" => s \in AllocSteps
      /\ th[t].op = "free" => s \in FreeSteps \ {"ask"} /\ th[t].old.kind = "block" /\ th[t].p = th[t].old.p
  <2>1. th[t].op \in {"alloc", "free"} /\ th[t].p \in Classes /\ th[t].p \in th[t].group
    BY <1>1, <1>3, StepOp, AtClass DEF AllocSteps, FreeSteps
  <2>2. th[t].op = "alloc" => s \in AllocSteps BY <1>1, <1>2, StepOp DEF AllocSteps, FreeSteps
  <2>3. th[t].op = "free" => s \in FreeSteps \ {"ask"} BY <1>1, <1>2, StepOp DEF AllocSteps, FreeSteps
  <2> QED BY <1>1, <1>3, <2>1, <2>2, <2>3 DEF CallOK
<1>5. /\ scenario' = scenario /\ pool' = pool /\ mag' = mag /\ lock' = lock /\ registry' = registry /\ held' = held
      /\ tls' = tls
  BY DEF AllocBudget, FreeBudget, poolVars
<1>6. PICK m \in Mags \cup {Null} : m = th[t].mag BY <1>1, SameRec
<1>7. th' = [th EXCEPT ![t] = [th[t] EXCEPT !.step = s, !.mag = m]]
  <2>1. th \in [Threads -> ThreadRec] /\ th[t] \in ThreadRec BY <1>1 DEF TypeOK
  <2>2. [th[t] EXCEPT !.step = s] = [th[t] EXCEPT !.step = s, !.mag = m] BY <1>6, <2>1 DEF ThreadRec
  <2>3. th' = [th EXCEPT ![t] = [th[t] EXCEPT !.step = s]] BY <1>2, <2>1 DEF Goto
  <2> QED BY <2>2, <2>3
<1>8. s \in Steps \ {"count"} /\ s \notin {"find", "freeFind", "pop", "push"} BY <1>2 DEF Steps
<1>9. m # Null => m \in Elems(tls[t].mags) BY <1>1, <1>4, <1>6 DEF HandOK
<1>10. th[t].step # "count" BY <1>3
<1> QED BY <1>4, <1>5, <1>7, <1>8, <1>9, <1>10, MovesTo

\* What happens to the entries of a pool, and of a magazine.
StoreStep ==
  /\ scenario' = scenario
  /\ DOMAIN pool' = Pools
  /\ \A q \in Pools : PoolType(pool'[q]) /\ pool'[q].mem = pool[q].mem /\ pool'[q].mags = pool[q].mags
  /\ mag' \in [Mags -> MagRec]
  /\ \A m \in Mags : mag'[m].mem = mag[m].mem /\ mag'[m].pool = mag[m].pool

EntrySets == SUBSET Nat
SetsEntries(p, f, k) == pool' = [pool EXCEPT ![p].free = f, ![p].taken = k]
SetsFree(p, f) == pool' = [pool EXCEPT ![p].free = f]
SetsTaken(p, k) == pool' = [pool EXCEPT ![p].taken = k]
SetsSlots(m, s) == mag' = [mag EXCEPT ![m].slots = s]

LEMMA PoolEntries ==
  ASSUME TypeOK, NEW p \in Pools, NEW f \in Seq(Nat), NEW k \in EntrySets,
         DOMAIN pool' = Pools, \A q \in Pools \ {p} : pool'[q] = pool[q],
         pool'[p] = [mem |-> pool[p].mem, free |-> f, taken |-> k, mags |-> pool[p].mags,
                     table |-> pool[p].table, dynamic |-> pool[p].dynamic]
  PROVE  /\ \A q \in Pools : PoolType(pool'[q]) /\ pool'[q].mem = pool[q].mem /\ pool'[q].mags = pool[q].mags
                             /\ pool'[q].table = pool[q].table /\ pool'[q].dynamic = pool[q].dynamic
         /\ pool'[p].free = f /\ pool'[p].taken = k
<1>1. \A q \in Pools : PoolType(pool[q]) BY DEF TypeOK
<1>2. pool[p].mem \in {"live", "freed"} /\ pool[p].mags \in Seq(Mags) BY <1>1 DEF PoolType
<1>3. PoolType(pool'[p]) /\ pool'[p].free = f /\ pool'[p].taken = k
      /\ pool'[p].mem = pool[p].mem /\ pool'[p].mags = pool[p].mags
      /\ pool'[p].table = pool[p].table /\ pool'[p].dynamic = pool[p].dynamic
  BY <1>2 DEF PoolType, EntrySets
<1> QED BY <1>1, <1>3

LEMMA EntriesChange ==
  ASSUME TypeOK, NEW p \in Pools, NEW f \in Seq(Nat), NEW k \in EntrySets, SetsEntries(p, f, k)
  PROVE  /\ DOMAIN pool' = Pools /\ \A q \in Pools \ {p} : pool'[q] = pool[q]
         /\ \A q \in Pools : PoolType(pool'[q]) /\ pool'[q].mem = pool[q].mem /\ pool'[q].mags = pool[q].mags
                             /\ pool'[q].table = pool[q].table /\ pool'[q].dynamic = pool[q].dynamic
         /\ pool'[p].free = f /\ pool'[p].taken = k
<1> DEFINE a == pool[p]
<1>1. DOMAIN pool = Pools /\ PoolType(a) BY DEF TypeOK
<1>2. DOMAIN pool' = Pools /\ (\A q \in Pools \ {p} : pool'[q] = pool[q]) /\ pool'[p] = [a EXCEPT !.free = f, !.taken = k]
  BY <1>1 DEF SetsEntries
<1>3. a = [mem |-> a.mem, free |-> a.free, taken |-> a.taken, mags |-> a.mags, table |-> a.table, dynamic |-> a.dynamic]
  BY <1>1 DEF PoolType
<1>4. a.free \in Seq(Nat) /\ a.taken \in EntrySets BY <1>1 DEF PoolType, EntrySets
<1> HIDE DEF a
<1>5. pool'[p] = [mem |-> a.mem, free |-> f, taken |-> k, mags |-> a.mags, table |-> a.table, dynamic |-> a.dynamic]
  BY <1>2, <1>3
<1>6. pool'[p] = [mem |-> pool[p].mem, free |-> f, taken |-> k, mags |-> pool[p].mags,
                  table |-> pool[p].table, dynamic |-> pool[p].dynamic]
  BY <1>5 DEF a
<1>7. DOMAIN pool' = Pools /\ (\A q \in Pools \ {p} : pool'[q] = pool[q]) BY <1>2
<1> QED BY <1>6, <1>7, PoolEntries

LEMMA FreeChanges ==
  ASSUME TypeOK, NEW p \in Pools, NEW f \in Seq(Nat), SetsFree(p, f)
  PROVE  /\ DOMAIN pool' = Pools /\ \A q \in Pools \ {p} : pool'[q] = pool[q]
         /\ \A q \in Pools : PoolType(pool'[q]) /\ pool'[q].mem = pool[q].mem /\ pool'[q].mags = pool[q].mags
                             /\ pool'[q].table = pool[q].table /\ pool'[q].dynamic = pool[q].dynamic
         /\ pool'[p].free = f /\ pool'[p].taken = pool[p].taken
<1> DEFINE a == pool[p]
<1>1. DOMAIN pool = Pools /\ PoolType(a) BY DEF TypeOK
<1>2. DOMAIN pool' = Pools /\ (\A q \in Pools \ {p} : pool'[q] = pool[q]) /\ pool'[p] = [a EXCEPT !.free = f]
  BY <1>1 DEF SetsFree
<1>3. a = [mem |-> a.mem, free |-> a.free, taken |-> a.taken, mags |-> a.mags, table |-> a.table, dynamic |-> a.dynamic]
  BY <1>1 DEF PoolType
<1>4. a.free \in Seq(Nat) /\ a.taken \in EntrySets BY <1>1 DEF PoolType, EntrySets
<1> HIDE DEF a
<1>5. pool'[p] = [mem |-> a.mem, free |-> f, taken |-> a.taken, mags |-> a.mags, table |-> a.table, dynamic |-> a.dynamic]
  BY <1>2, <1>3
<1>6. pool'[p] = [mem |-> pool[p].mem, free |-> f, taken |-> pool[p].taken, mags |-> pool[p].mags,
                  table |-> pool[p].table, dynamic |-> pool[p].dynamic]
  BY <1>5 DEF a
<1>7. pool[p].free \in Seq(Nat) /\ pool[p].taken \in EntrySets BY <1>4 DEF a
<1> QED BY <1>2, <1>6, <1>7, PoolEntries

LEMMA TakenChanges ==
  ASSUME TypeOK, NEW p \in Pools, NEW k \in EntrySets, SetsTaken(p, k)
  PROVE  /\ DOMAIN pool' = Pools /\ \A q \in Pools \ {p} : pool'[q] = pool[q]
         /\ \A q \in Pools : PoolType(pool'[q]) /\ pool'[q].mem = pool[q].mem /\ pool'[q].mags = pool[q].mags
                             /\ pool'[q].table = pool[q].table /\ pool'[q].dynamic = pool[q].dynamic
         /\ pool'[p].free = pool[p].free /\ pool'[p].taken = k
<1> DEFINE a == pool[p]
<1>1. DOMAIN pool = Pools /\ PoolType(a) BY DEF TypeOK
<1>2. DOMAIN pool' = Pools /\ (\A q \in Pools \ {p} : pool'[q] = pool[q]) /\ pool'[p] = [a EXCEPT !.taken = k]
  BY <1>1 DEF SetsTaken
<1>3. a = [mem |-> a.mem, free |-> a.free, taken |-> a.taken, mags |-> a.mags, table |-> a.table, dynamic |-> a.dynamic]
  BY <1>1 DEF PoolType
<1>4. a.free \in Seq(Nat) /\ a.taken \in EntrySets BY <1>1 DEF PoolType, EntrySets
<1> HIDE DEF a
<1>5. pool'[p] = [mem |-> a.mem, free |-> a.free, taken |-> k, mags |-> a.mags, table |-> a.table, dynamic |-> a.dynamic]
  BY <1>2, <1>3
<1>6. pool'[p] = [mem |-> pool[p].mem, free |-> pool[p].free, taken |-> k, mags |-> pool[p].mags,
                  table |-> pool[p].table, dynamic |-> pool[p].dynamic]
  BY <1>5 DEF a
<1>7. pool[p].free \in Seq(Nat) /\ pool[p].taken \in EntrySets BY <1>4 DEF a
<1> QED BY <1>2, <1>6, <1>7, PoolEntries

LEMMA MagSlots ==
  ASSUME TypeOK, NEW m \in Mags, NEW s \in Seq(Nat), SetsSlots(m, s)
  PROVE  /\ mag' \in [Mags -> MagRec] /\ mag'[m].slots = s
         /\ \A n \in Mags : mag'[n].mem = mag[n].mem /\ mag'[n].pool = mag[n].pool
         /\ \A n \in Mags \ {m} : mag'[n] = mag[n]
<1>1. mag \in [Mags -> MagRec] BY DEF TypeOK
<1>2. mag'[m] = [mag[m] EXCEPT !.slots = s] BY <1>1 DEF SetsSlots
<1>3. mag[m] \in MagRec BY <1>1
<1>4. mag'[m] \in MagRec /\ mag'[m].slots = s /\ mag'[m].mem = mag[m].mem /\ mag'[m].pool = mag[m].pool
  BY <1>2, <1>3 DEF MagRec
<1>5. \A n \in Mags \ {m} : mag'[n] = mag[n] BY <1>1 DEF SetsSlots
<1>6. mag' = [n \in Mags |-> IF n = m THEN mag'[m] ELSE mag[n]] BY <1>1 DEF SetsSlots
<1>7. mag' \in [Mags -> MagRec] BY <1>1, <1>4, <1>6
<1> QED BY <1>4, <1>5, <1>7

\* A step of a call that moves entries.
LEMMA StoreGoesOn ==
  ASSUME SInv, NEW t \in Threads, StoreStep, registry' = registry, lock' \in [Pools -> Threads \cup {Null}], LocksOwn(t),
         th' \in [Threads -> ThreadRec], \A u \in Threads \ {t} : Like(u), tls' = tls,
         held' \subseteq EntryRec,
         th[t].op \in {"alloc", "free"}, th'[t].op \in {"none", "alloc", "free"},
         th'[t].op = "none" \/ th'[t].group = th[t].group,
         CallOK(t)', HandOK(t)',
         \A x \in held' : x \in held \/ HeldOK(x)
  PROVE  SInv'
<1>1. TypeOK BY DEF SInv
<1>2. Still BY DEF Still, StoreStep
<1>3. Pools' = Pools BY ScenarioSame DEF StoreStep
<1>4. TypeOK' BY <1>1, <1>3 DEF TypeOK, StoreStep
<1>5. Apart(t) BY DEF Apart
<1> QED BY <1>2, <1>4, <1>5, CallGoesOn

\* The call is over.
LEMMA Rests ==
  ASSUME SInv, NEW t \in Threads, TypeOK', Still, tls' = tls, th'[t] = Idle
  PROVE  CallOK(t)' /\ HandOK(t)'
<1>1. TypeOK /\ HandOK(t) BY DEF SInv
<1>2. CallOK(t)' BY IdleFields DEF CallOK, Idle
<1>3. tls[t].cache # Null => tls[t].cache \in Elems(tls[t].mags) BY <1>1 DEF HandOK
<1>4. HandOK(t)' BY <1>2, <1>3, IdleFields, WithinHand
<1> QED BY <1>2, <1>4

\* An allocation returns an entry.
LEMMA Returns ==
  ASSUME SInv, NEW t \in Threads, NEW e \in EntryRec, Return(t, e), th[t].op = "alloc", Still, tls' = tls,
         e.p \in th[t].group, e.kind = "block" => e.p \in Classes
  PROVE  /\ th' \in [Threads -> ThreadRec] /\ \A u \in Threads \ {t} : Like(u)
         /\ held' \subseteq EntryRec /\ \A x \in held' : x \in held \/ HeldOK(x)
         /\ th'[t].op \in {"none", "free"} /\ (th'[t].op = "none" \/ th'[t].group = th[t].group)
         /\ ~\E p : Holding(t, p)'
         /\ TypeOK' => CallOK(t)' /\ HandOK(t)'
         /\ th'[t] = Idle <=> th[t].old = Null
         /\ th'[t].old = th[t].old /\ th'[t].step \notin {"count"}
<1>1. TypeOK /\ CallOK(t) /\ HandOK(t) BY DEF SInv
<1> DEFINE old == th[t].old
           r == [Idle EXCEPT !.op = "free", !.p = old.p, !.old = old, !.group = Group(old.p),
                             !.step = IF old.kind = "dynamic" THEN "ask" ELSE "free"]
<1>2. th \in [Threads -> ThreadRec] /\ th[t] \in ThreadRec BY <1>1 DEF TypeOK
<1>3. th' = [th EXCEPT ![t] = IF old = Null THEN Idle ELSE r] /\ held' = held \cup {e} BY DEF Return
<1>4. PICK q \in Classes : th[t].group = Group(q) BY <1>1 DEF CallOK, Called
<1>5. old \in EntryRec \cup {Null} BY <1>2 DEF ThreadRec
<1>6. old # Null => /\ old \in EntryRec /\ old.p \in Pools /\ Group(old.p) = th[t].group
                    /\ old.p \in th[t].group /\ (old.kind = "block" => old.p \in Classes)
  BY <1>1, <1>4, <1>5, GroupIs DEF CallOK
<1>7. old # Null => /\ r \in ThreadRec /\ r.op = "free" /\ r.step \in {"free", "ask"} /\ r.p = old.p /\ r.old = old
                    /\ r.mag = Null /\ r.todo = <<>> /\ r.group = th[t].group
  <2> SUFFICES ASSUME old # Null
               PROVE  /\ r \in ThreadRec /\ r.op = "free" /\ r.step \in {"free", "ask"} /\ r.p = old.p /\ r.old = old
                      /\ r.mag = Null /\ r.todo = <<>> /\ r.group = th[t].group
    OBVIOUS
  <2>1. Group(old.p) \subseteq Nat /\ old.p \in Nat BY <1>1, <1>6, GroupFacts, ScenarioFacts
  <2>2. Idle \in ThreadRec /\ Idle.mag = Null /\ Idle.todo = <<>> BY IdleFields
  <2>3. "free" \in Ops /\ {"free", "ask"} \subseteq Steps BY DEF Ops, Steps
  <2>4. r \in ThreadRec BY <1>6, <2>1, <2>2, <2>3 DEF ThreadRec
  <2> QED BY <1>6, <2>2, <2>4 DEF ThreadRec
<1> HIDE DEF old, r
<1>8. th'[t] = (IF old = Null THEN Idle ELSE r) /\ \A u \in Threads \ {t} : th'[u] = th[u] BY <1>2, <1>3
<1>9. th' \in [Threads -> ThreadRec] BY <1>2, <1>3, <1>7, IdleFields
<1>10. /\ th'[t].op \in {"none", "free"} /\ (th'[t].op = "none" \/ th'[t].group = th[t].group)
       /\ th'[t].step \in {"none", "free", "ask"} /\ th'[t].old = old /\ th'[t].mag = Null /\ th'[t].todo = <<>>
  BY <1>7, <1>8, IdleFields
<1>11. ASSUME TypeOK' PROVE CallOK(t)' /\ HandOK(t)'
  <2>1. CASE old = Null BY <1>8, <1>11, <2>1, Rests
  <2>2. CASE old # Null
    <3>1. th'[t] = r BY <1>8, <2>2
    <3>2. Classes' = Classes /\ scenario' = scenario /\ \A x : Group(x)' = Group(x) BY ScenarioSame DEF Still
    <3>3. \A x \in th[t].group : x \in Pools /\ pool[x].mem = "live" BY CallServes
    <3>4. \A x \in th[t].group : pool'[x].mem = "live" BY <3>3 DEF Still
    <3>5. Called(t)' BY <1>4, <1>7, <2>2, <3>1, <3>2, <3>4 DEF Called
    <3>6. CallOK(t)' BY <1>6, <1>7, <2>2, <3>1, <3>2, <3>5 DEF CallOK, FreeSteps
    <3>7. tls[t].cache # Null => tls[t].cache \in Elems(tls[t].mags) BY <1>1 DEF HandOK
    <3>8. HandOK(t)' BY <1>10, <1>11, <3>6, <3>7, WithinHand
    <3> QED BY <3>6, <3>8
  <2> QED BY <2>1, <2>2
<1>12. \A p : ~Holding(t, p)' BY <1>10 DEF Holding
<1>13. HeldOK(e) BY <1>1, <1>4, CallServes, GroupIs, ScenarioFacts DEF HeldOK, Group
<1>14. held' \subseteq EntryRec BY <1>1, <1>3 DEF TypeOK
<1>15. th'[t] = Idle <=> th[t].old = Null BY <1>7, <1>8, IdleFields DEF old
<1> QED BY <1>3, <1>8, <1>9, <1>10, <1>11, <1>12, <1>13, <1>14, <1>15 DEF old, Like

\* The magazine in hand.
LEMMA InHand ==
  ASSUME SInv, NEW t \in Threads, th[t].step \in {"pop", "push"}
  PROVE  /\ TypeOK /\ CallOK(t) /\ HandOK(t)
         /\ th[t].mag \in Mags /\ th[t].mag \in Elems(tls[t].mags) /\ mag[th[t].mag].pool = th[t].p
         /\ mag[th[t].mag].mem = "live" /\ mag[th[t].mag].slots \in Seq(Nat)
         /\ th[t].p \in Classes /\ th[t].p \in Pools /\ th[t].p \in th[t].group /\ th[t].p \in Nat
         /\ PoolType(pool[th[t].p]) /\ pool[th[t].p].free \in Seq(Nat) /\ pool[th[t].p].taken \subseteq Nat
         /\ th[t].op = (IF th[t].step = "pop" THEN "alloc" ELSE "free")
<1>1. TypeOK /\ CallOK(t) /\ HandOK(t) BY DEF SInv
<1>2. th[t].op = (IF th[t].step = "pop" THEN "alloc" ELSE "free") BY <1>1, StepOp DEF AllocSteps, FreeSteps
<1>3. th[t].p \in Classes /\ th[t].p \in Pools /\ th[t].p \in th[t].group /\ th[t].p \in Nat
  BY <1>1, AtClass, ScenarioFacts DEF AllocSteps, FreeSteps
<1>4. th[t].mag \in Elems(tls[t].mags) /\ mag[th[t].mag].pool = th[t].p /\ mag[th[t].mag].mem = "live"
  BY <1>1, <1>2 DEF HandOK
<1>5. th[t].mag \in Mags BY <1>1, <1>4, OwnType
<1>6. mag[th[t].mag] \in MagRec BY <1>1, <1>5 DEF TypeOK
<1>7. PoolType(pool[th[t].p]) BY <1>1, <1>3 DEF TypeOK
<1> QED BY <1>1, <1>2, <1>3, <1>4, <1>5, <1>6, <1>7 DEF MagRec, PoolType

LEMMA BlockIs ==
  ASSUME NEW p \in Nat, NEW e \in Nat
  PROVE  Block(p, e) \in EntryRec /\ Block(p, e).p = p /\ Block(p, e).kind = "block" /\ Block(p, e).id = e
BY DEF Block, EntryRec

\* What popping a magazine does.
LEMMA PopDoes ==
  ASSUME SInv, NEW t \in Threads, Pop(t)
  PROVE  LET p == th[t].p
             m == th[t].mag
             e == Last(mag[m].slots)
         IN  /\ th[t].step = "pop" /\ mag[m].slots # <<>> /\ e \in Nat
             /\ StoreStep /\ Return(t, Block(p, e))
             /\ lock' = lock /\ registry' = registry /\ tls' = tls
             /\ \A n \in Mags \ {m} : mag'[n] = mag[n] /\ mag'[m].slots = Front(mag[m].slots)
             /\ mag'[m].slots = Front(mag[m].slots)
             /\ \A q \in Pools \ {p} : pool'[q] = pool[q]
             /\ pool'[p].free = pool[p].free /\ pool'[p].taken = pool[p].taken \cup {e}
<1> DEFINE p == th[t].p
           m == th[t].mag
           s == mag[m].slots
           e == s[Len(s)]
<1>1. th[t].step = "pop" /\ s # <<>> BY DEF Pop
<1>2. /\ TypeOK /\ m \in Mags /\ s \in Seq(Nat) /\ p \in Pools /\ pool[p].free \in Seq(Nat) /\ pool[p].taken \subseteq Nat
  BY <1>1, InHand
<1>3. e = Last(s) BY DEF Last
<1>4. e \in Nat
  <2>1. Len(s) \in Nat /\ Len(s) # 0 BY <1>1, <1>2, EmptySeq
  <2> QED BY <1>2, <2>1, ElementOfSeq
<1>5. Front(s) \in Seq(Nat)
  <2>1. Len(s) \in Nat /\ Len(s) # 0 /\ \A i \in 1 .. Len(s) : s[i] \in Nat BY <1>1, <1>2, EmptySeq, ElementOfSeq
  <2> QED BY <1>2, <2>1 DEF Front
<1>6. /\ mag' = [mag EXCEPT ![m].slots = Front(s)]
      /\ pool' = [pool EXCEPT ![p].taken = pool[p].taken \cup {e}]
      /\ Return(t, Block(p, e)) /\ scenario' = scenario /\ lock' = lock /\ registry' = registry /\ tls' = tls
  BY DEF Pop
<1> HIDE DEF p, m, s, e
<1>7. /\ mag' \in [Mags -> MagRec] /\ mag'[m].slots = Front(s)
      /\ \A n \in Mags : mag'[n].mem = mag[n].mem /\ mag'[n].pool = mag[n].pool
      /\ \A n \in Mags \ {m} : mag'[n] = mag[n]
  BY <1>2, <1>5, <1>6, MagSlots DEF SetsSlots
<1>8. /\ DOMAIN pool' = Pools /\ \A q \in Pools \ {p} : pool'[q] = pool[q]
      /\ \A q \in Pools : PoolType(pool'[q]) /\ pool'[q].mem = pool[q].mem /\ pool'[q].mags = pool[q].mags
      /\ pool'[p].free = pool[p].free /\ pool'[p].taken = pool[p].taken \cup {e}
  <2>1. pool[p].taken \cup {e} \in EntrySets /\ pool[p].taken \in EntrySets BY <1>2, <1>4 DEF EntrySets
  <2> QED BY <1>2, <1>6, <2>1, TakenChanges DEF SetsTaken
<1>9. StoreStep BY <1>6, <1>7, <1>8 DEF StoreStep
<1> QED BY <1>1, <1>3, <1>4, <1>6, <1>7, <1>8, <1>9 DEF p, m, s

\* The storing step of an allocation that returns block entry e of the call's pool.
LEMMA ReturnKeeps ==
  ASSUME SInv, NEW t \in Threads, StoreStep, th[t].op = "alloc", NEW e \in EntryRec, Return(t, e),
         e.p \in th[t].group, e.kind = "block" => e.p \in Classes,
         registry' = registry, tls' = tls,
         \/ lock' = lock /\ ~(\E p : Holding(t, p))
         \/ lock' = [lock EXCEPT ![th[t].p] = Null] /\ th[t].step = "count"
  PROVE  SInv'
<1>1. TypeOK /\ LockInv BY DEF SInv
<1>2. Still BY DEF Still, StoreStep
<1>3. /\ th' \in [Threads -> ThreadRec] /\ \A u \in Threads \ {t} : Like(u)
      /\ held' \subseteq EntryRec /\ \A x \in held' : x \in held \/ HeldOK(x)
      /\ th'[t].op \in {"none", "free"} /\ (th'[t].op = "none" \/ th'[t].group = th[t].group)
      /\ ~\E p : Holding(t, p)'
      /\ TypeOK' => CallOK(t)' /\ HandOK(t)'
  BY <1>2, Returns
<1>4. lock \in [Pools -> Threads \cup {Null}] BY <1>1 DEF TypeOK
<1>5. lock' \in [Pools -> Threads \cup {Null}] BY <1>4
<1>6. LocksOwn(t)
  <2>1. CASE lock' = lock /\ ~(\E p : Holding(t, p)) BY <1>3, <2>1 DEF LocksOwn
  <2>2. CASE lock' = [lock EXCEPT ![th[t].p] = Null] /\ th[t].step = "count"
    <3>1. \A p \in Pools : Holding(t, p) => lock[p] = t BY <1>1 DEF LockInv
    <3>2. \A p \in Pools : Holding(t, p) <=> p = th[t].p BY <2>2 DEF Holding
    <3>3. \A p \in Pools : lock'[p] = IF p = th[t].p THEN Null ELSE lock[p] BY <1>4, <2>2
    <3> QED BY <1>3, <3>1, <3>2, <3>3 DEF LocksOwn
  <2> QED BY <2>1, <2>2
<1>7. Pools' = Pools BY ScenarioSame DEF StoreStep
<1>8. TypeOK' BY <1>1, <1>3, <1>5, <1>7 DEF TypeOK, StoreStep
<1> QED BY <1>3, <1>5, <1>6, <1>8, StoreGoesOn

LEMMA PopKeeps ==
  ASSUME SInv, NEW t \in Threads, Pop(t)
  PROVE  SInv'
<1>1. /\ th[t].step = "pop" /\ Last(mag[th[t].mag].slots) \in Nat
      /\ StoreStep /\ Return(t, Block(th[t].p, Last(mag[th[t].mag].slots)))
      /\ lock' = lock /\ registry' = registry /\ tls' = tls
  BY PopDoes
<1>2. th[t].p \in Classes /\ th[t].p \in th[t].group /\ th[t].p \in Nat /\ th[t].op = "alloc" BY <1>1, InHand
<1>3. ~\E p : Holding(t, p) BY <1>1 DEF Holding
<1> QED BY <1>1, <1>2, <1>3, BlockIs, ReturnKeeps

\* A call record with one field changed.
LEMMA SetStep ==
  ASSUME NEW r \in ThreadRec, NEW x \in Steps
  PROVE  LET c == [r EXCEPT !.step = x]
         IN  /\ c \in ThreadRec /\ c.step = x
             /\ c.op = r.op /\ c.p = r.p /\ c.size = r.size /\ c.mag = r.mag /\ c.old = r.old
             /\ c.todo = r.todo /\ c.live = r.live /\ c.pushes = r.pushes /\ c.group = r.group
BY DEF ThreadRec

LEMMA SetTodo ==
  ASSUME NEW r \in ThreadRec, NEW x \in Seq(Mags)
  PROVE  LET c == [r EXCEPT !.todo = x]
         IN  /\ c \in ThreadRec /\ c.todo = x
             /\ c.op = r.op /\ c.step = r.step /\ c.p = r.p /\ c.size = r.size /\ c.mag = r.mag
             /\ c.old = r.old /\ c.live = r.live /\ c.pushes = r.pushes /\ c.group = r.group
BY DEF ThreadRec

LEMMA SetPushes ==
  ASSUME NEW r \in ThreadRec, NEW x \in Int
  PROVE  LET c == [r EXCEPT !.pushes = x]
         IN  /\ c \in ThreadRec /\ c.pushes = x
             /\ c.op = r.op /\ c.step = r.step /\ c.p = r.p /\ c.size = r.size /\ c.mag = r.mag
             /\ c.old = r.old /\ c.todo = r.todo /\ c.live = r.live /\ c.group = r.group
BY DEF ThreadRec

LEMMA SetLive ==
  ASSUME NEW r \in ThreadRec, NEW x \in Int
  PROVE  LET c == [r EXCEPT !.live = x]
         IN  /\ c \in ThreadRec /\ c.live = x
             /\ c.op = r.op /\ c.step = r.step /\ c.p = r.p /\ c.size = r.size /\ c.mag = r.mag
             /\ c.old = r.old /\ c.todo = r.todo /\ c.pushes = r.pushes /\ c.group = r.group
BY DEF ThreadRec

\* What a refill does.
LEMMA RefillDoes ==
  ASSUME SInv, NEW t \in Threads, RefillStep(t)
  PROVE  LET p == th[t].p
             m == th[t].mag
         IN  /\ th[t].step = "pop" /\ mag[m].slots = <<>> /\ lock[p] = Null
             /\ StoreStep
             /\ \E n \in 0 .. Len(pool[p].free) :
                  /\ mag'[m].slots = SubSeq(pool[p].free, 1, n) /\ n <= Capacity(Count(p))
                  /\ pool'[p].free = SubSeq(pool[p].free, n + 1, Len(pool[p].free))
             /\ \A n \in Mags \ {m} : mag'[n] = mag[n]
             /\ \A q \in Pools \ {p} : pool'[q] = pool[q]
             /\ pool'[p].taken = pool[p].taken
<1> DEFINE p == th[t].p
           m == th[t].mag
           f == pool[p].free
           n == Lesser(Budget(p), Capacity(Count(p)) - Len(mag[m].slots))
<1>1. th[t].step = "pop" /\ mag[m].slots = <<>> /\ lock[p] = Null /\ Refill(p, m) /\ scenario' = scenario
  BY DEF RefillStep, Unlocked
<1>2. TypeOK /\ m \in Mags /\ p \in Pools /\ f \in Seq(Nat) /\ CallOK(t) BY <1>1, InHand
<1>3. Count(p) \in Nat /\ Total(p) \in Nat /\ Total(p) - Count(p) \in Nat
  <2>1. p \in Classes /\ Count(p) \in Nat BY <1>1, <1>2, AtClass DEF AllocSteps
  <2>2. Total(p) = Count(p) + Reserve(Count(p)) BY <1>2, <2>1, ScenarioFacts DEF Total
  <2>3. Reserve(Count(p)) \in Nat BY <2>1, Geometry
  <2> HIDE DEF p
  <2> QED BY <2>1, <2>2, <2>3
<1>4. Capacity(Count(p)) \in Nat BY <1>3, Geometry
<1>5. Len(f) \in Nat /\ Budget(p) \in 0 .. Len(f)
  <2>1. Len(f) \in Nat BY <1>2
  <2>2. Budget(p) = Greater(0, Len(f) - (Total(p) - Count(p))) BY DEF Budget
  <2> HIDE DEF p, f
  <2> QED BY <1>3, <2>1, <2>2 DEF Greater
<1>6. n \in 0 .. Len(f) /\ n <= Capacity(Count(p)) BY <1>1, <1>4, <1>5 DEF Lesser
<1>7. /\ mag' = [mag EXCEPT ![m].slots = mag[m].slots \o SubSeq(f, 1, n)]
      /\ pool' = [pool EXCEPT ![p].free = SubSeq(f, n + 1, Len(f))]
  BY <1>1 DEF Refill
<1> HIDE DEF n
<1>8. SubSeq(f, 1, n) \in Seq(Nat) /\ SubSeq(f, n + 1, Len(f)) \in Seq(Nat) BY <1>2, <1>6, SplitElems
<1>9. mag[m].slots \o SubSeq(f, 1, n) = SubSeq(f, 1, n) BY <1>1, <1>8
<1> HIDE DEF p, m, f
<1>10. /\ mag' \in [Mags -> MagRec] /\ mag'[m].slots = SubSeq(f, 1, n)
       /\ \A x \in Mags : mag'[x].mem = mag[x].mem /\ mag'[x].pool = mag[x].pool
       /\ \A x \in Mags \ {m} : mag'[x] = mag[x]
  BY <1>2, <1>7, <1>8, <1>9, MagSlots DEF SetsSlots
<1>11. /\ DOMAIN pool' = Pools /\ \A q \in Pools \ {p} : pool'[q] = pool[q]
       /\ \A q \in Pools : PoolType(pool'[q]) /\ pool'[q].mem = pool[q].mem /\ pool'[q].mags = pool[q].mags
       /\ pool'[p].free = SubSeq(f, n + 1, Len(f)) /\ pool'[p].taken = pool[p].taken
  <2>1. SetsFree(p, SubSeq(f, n + 1, Len(f))) BY <1>7 DEF SetsFree
  <2> QED BY <1>2, <1>8, <2>1, FreeChanges
<1>12. StoreStep BY <1>1, <1>10, <1>11 DEF StoreStep
<1> QED BY <1>1, <1>6, <1>10, <1>11, <1>12 DEF p, m, f

\* The lock is taken for the count.
Counts(t) ==
  th' = [th EXCEPT ![t].step = "count", ![t].todo = pool[th[t].p].mags, ![t].pushes = 0,
                   ![t].live = Total(th[t].p) - Len(pool[th[t].p].free)]

LEMMA CountBegins ==
  ASSUME SInv, NEW t \in Threads, th[t].step \in {"pop", "serve"}, StoreStep, Unlocked(th[t].p),
         Counts(t), lock' = [lock EXCEPT ![th[t].p] = t], registry' = registry, tls' = tls, held' = held
  PROVE  SInv'
<1> DEFINE p == th[t].p
           r == [th[t] EXCEPT !.step = "count", !.todo = pool[p].mags, !.pushes = 0, !.live = Total(p) - Len(pool[p].free)]
<1>1. TypeOK /\ CallOK(t) /\ HandOK(t) /\ PoolInv BY DEF SInv
<1>2. th[t].op = "alloc" /\ p \in Classes /\ p \in th[t].group /\ p \in Pools /\ Total(p) \in Nat
  BY <1>1, StepOp, AtClass DEF AllocSteps
<1>3. th \in [Threads -> ThreadRec] /\ th[t] \in ThreadRec /\ lock \in [Pools -> Threads \cup {Null}] BY <1>1 DEF TypeOK
<1>4. th' = [th EXCEPT ![t] = r] BY <1>3 DEF Counts
<1>5. pool[p].mags \in Seq(Mags) /\ Distinct(pool[p].mags) /\ pool[p].free \in Seq(Nat)
  BY <1>1, <1>2 DEF TypeOK, PoolType, PoolInv, PoolAt
<1>6. Total(p) - Len(pool[p].free) \in Int BY <1>2, <1>5
<1>7. /\ r \in ThreadRec /\ r.op = "alloc" /\ r.step = "count" /\ r.p = p /\ r.group = th[t].group /\ r.old = th[t].old
      /\ r.mag = th[t].mag /\ r.todo = pool[p].mags /\ r.pushes = 0 /\ r.live = Total(p) - Len(pool[p].free)
  <2>1. PICK x \in ThreadRec, ms \in Seq(Mags), n \in Int : x = th[t] /\ ms = pool[p].mags /\ n = Total(p) - Len(pool[p].free)
    BY <1>3, <1>5, <1>6
  <2>2. "count" \in Steps /\ 0 \in Int BY DEF Steps
  <2>3. PICK a \in ThreadRec : a = [x EXCEPT !.step = "count"] BY <2>2, SetStep
  <2>4. PICK b \in ThreadRec : b = [a EXCEPT !.todo = ms] BY SetTodo
  <2>5. PICK c \in ThreadRec : c = [b EXCEPT !.pushes = 0] BY <2>2, SetPushes
  <2>6. PICK d \in ThreadRec : d = [c EXCEPT !.live = n] BY SetLive
  <2>7. r = d BY <2>1, <2>3, <2>4, <2>5, <2>6
  <2> HIDE DEF r
  <2>8. /\ a.op = x.op /\ a.step = "count" /\ a.p = x.p /\ a.group = x.group /\ a.old = x.old /\ a.mag = x.mag
    BY <2>2, <2>3, SetStep
  <2>9. /\ b.op = x.op /\ b.step = "count" /\ b.p = x.p /\ b.group = x.group /\ b.old = x.old /\ b.mag = x.mag
        /\ b.todo = ms
    BY <2>4, <2>8, SetTodo
  <2>10. /\ c.op = x.op /\ c.step = "count" /\ c.p = x.p /\ c.group = x.group /\ c.old = x.old /\ c.mag = x.mag
         /\ c.todo = ms /\ c.pushes = 0
    BY <2>2, <2>5, <2>9, SetPushes
  <2>11. /\ d.op = x.op /\ d.step = "count" /\ d.p = x.p /\ d.group = x.group /\ d.old = x.old /\ d.mag = x.mag
         /\ d.todo = ms /\ d.pushes = 0 /\ d.live = n
    BY <2>6, <2>10, SetLive
  <2> QED BY <1>2, <2>1, <2>7, <2>11
<1> HIDE DEF r
<1>8. /\ th'[t] = r /\ \A u \in Threads \ {t} : th'[u] = th[u]
      /\ th' \in [Threads -> ThreadRec]
  BY <1>3, <1>4, <1>7
<1>9. Still BY DEF Still, StoreStep
<1>10. CallOK(t)' BY <1>2, <1>7, <1>8, <1>9, WithinCall DEF AllocSteps
<1>11. \A q \in Pools : lock'[q] = IF q = p THEN t ELSE lock[q] BY <1>3
<1>12. LocksOwn(t)
  <2>1. \A q : ~Holding(t, q) BY DEF Holding
  <2>2. \A q : Holding(t, q)' <=> q = p BY <1>7, <1>8 DEF Holding
  <2>3. lock[p] = Null BY DEF Unlocked
  <2> QED BY <1>11, <2>1, <2>2, <2>3 DEF LocksOwn
<1>13. lock' \in [Pools -> Threads \cup {Null}] BY <1>3
<1>14. Pools' = Pools BY ScenarioSame DEF StoreStep
<1>15. TypeOK' BY <1>1, <1>8, <1>13, <1>14 DEF TypeOK, StoreStep
<1>16. HandOK(t)'
  <2>1. tls[t].cache # Null => tls[t].cache \in Elems(tls[t].mags) BY <1>1 DEF HandOK
  <2>2. th[t].mag # Null => th[t].mag \in Elems(tls[t].mags) BY <1>1, <1>2 DEF HandOK
  <2> QED BY <1>5, <1>7, <1>8, <1>9, <1>10, <1>15, <2>1, <2>2, WithinHand
<1>17. held' \subseteq EntryRec BY <1>1 DEF TypeOK
<1> QED BY <1>2, <1>7, <1>8, <1>10, <1>12, <1>13, <1>16, <1>17, StoreGoesOn DEF Like

LEMMA NothingMoves ==
  ASSUME TypeOK, scenario' = scenario, pool' = pool, mag' = mag
  PROVE  StoreStep
BY DEF TypeOK, StoreStep

LEMMA RefillKeeps ==
  ASSUME SInv, NEW t \in Threads, RefillStep(t)
  PROVE  SInv'
<1>1. /\ th[t].step = "pop" /\ StoreStep /\ Unlocked(th[t].p) BY RefillDoes DEF Unlocked
<1>2. registry' = registry /\ tls' = tls /\ held' = held BY DEF RefillStep
<1>3. CASE Goto(t, "pop") /\ lock' = lock
  <2>1. TypeOK /\ CallOK(t) /\ HandOK(t) /\ th[t].op = "alloc" /\ th[t].p \in Classes /\ th[t].p \in th[t].group
    BY <1>1, InHand
  <2>2. th' = th
    <3>1. th \in [Threads -> ThreadRec] /\ th[t] \in ThreadRec BY <2>1 DEF TypeOK
    <3>2. th[t] = [th[t] EXCEPT !.step = "pop"] BY <1>1, <3>1 DEF ThreadRec
    <3> QED BY <1>3, <3>1, <3>2 DEF Goto
  <2>3. Still BY <1>1 DEF Still, StoreStep
  <2>4. CallOK(t)' BY <2>1, <2>2, <2>3, <1>1, WithinCall DEF AllocSteps
  <2>5. Pools' = Pools BY <1>1, ScenarioSame DEF StoreStep
  <2>6. TypeOK' BY <1>1, <1>2, <1>3, <2>1, <2>2, <2>5 DEF TypeOK, StoreStep
  <2>7. HandOK(t)'
    <3>1. Elems(tls[t].mags) \subseteq Mags BY <2>1, OwnType
    <3>2. \A m \in Elems(tls[t].mags) : mag'[m].mem = mag[m].mem /\ mag'[m].pool = mag[m].pool BY <3>1, <2>3 DEF Still
    <3>3. th[t].mag \in Elems(tls[t].mags) /\ th[t].todo = <<>> /\ mag[th[t].mag].pool = th[t].p
          /\ th[t].mag # Null
      BY <1>1, <2>1, InHand DEF HandOK
    <3>4. tls[t].cache # Null => tls[t].cache \in Elems(tls[t].mags) BY <2>1 DEF HandOK
    <3> QED BY <1>1, <1>2, <2>1, <2>2, <2>3, <2>4, <2>6, <3>3, <3>4, WithinHand
  <2>8. LocksOwn(t) BY <1>3, <2>2 DEF LocksOwn, Holding
  <2>9. lock' \in [Pools -> Threads \cup {Null}] /\ th' \in [Threads -> ThreadRec] /\ held' \subseteq EntryRec
    BY <1>2, <1>3, <2>1, <2>2 DEF TypeOK
  <2> QED BY <1>1, <1>2, <2>1, <2>2, <2>4, <2>7, <2>8, <2>9, StoreGoesOn DEF Like
<1>4. CASE /\ th' = [th EXCEPT ![t].step = "count", ![t].todo = pool[th[t].p].mags, ![t].pushes = 0,
                               ![t].live = Total(th[t].p) - Len(pool[th[t].p].free)]
           /\ lock' = [lock EXCEPT ![th[t].p] = t]
  BY <1>1, <1>2, <1>4, CountBegins DEF Counts
<1> QED BY <1>3, <1>4 DEF RefillStep

LEMMA ServeLocksKeeps ==
  ASSUME SInv, NEW t \in Threads, ServeLocks(t)
  PROVE  SInv'
<1>1. TypeOK BY DEF SInv
<1>2. StoreStep BY <1>1, NothingMoves DEF ServeLocks
<1> QED BY <1>2, CountBegins DEF ServeLocks, Counts

\* A call that holds its pool's lock.
LEMMA Counting ==
  ASSUME SInv, NEW t \in Threads, th[t].step = "count"
  PROVE  /\ TypeOK /\ CallOK(t) /\ HandOK(t) /\ th[t].op = "alloc"
         /\ th[t].p \in Classes /\ th[t].p \in Pools /\ th[t].p \in Nat /\ th[t].p \in th[t].group
         /\ Count(th[t].p) \in Nat /\ Total(th[t].p) \in Nat
         /\ th[t] \in ThreadRec /\ th[t].live \in Int /\ th[t].todo \in Seq(Mags) /\ Distinct(th[t].todo)
         /\ lock[th[t].p] = t
         /\ PoolType(pool[th[t].p]) /\ pool[th[t].p].free \in Seq(Nat) /\ pool[th[t].p].taken \subseteq Nat
<1>1. TypeOK /\ CallOK(t) /\ HandOK(t) /\ LockInv BY DEF SInv
<1>2. /\ th[t].op = "alloc" /\ th[t].p \in Classes /\ th[t].p \in th[t].group /\ th[t].p \in Pools
      /\ Count(th[t].p) \in Nat /\ Total(th[t].p) \in Nat
  BY <1>1, StepOp, AtClass DEF AllocSteps
<1>3. th[t].p \in Nat BY <1>1, <1>2, ScenarioFacts
<1>4. th[t] \in ThreadRec /\ th[t].live \in Int /\ th[t].todo \in Seq(Mags) BY <1>1 DEF TypeOK, ThreadRec
<1>5. Distinct(th[t].todo) BY <1>1 DEF HandOK
<1>6. lock[th[t].p] = t BY <1>1, <1>2 DEF LockInv, Holding
<1>7. PoolType(pool[th[t].p]) BY <1>1, <1>2 DEF TypeOK
<1> QED BY <1>1, <1>2, <1>3, <1>4, <1>5, <1>6, <1>7 DEF PoolType

\* What one step of the count does.
LEMMA CountDoes ==
  ASSUME SInv, NEW t \in Threads, CountStep(t)
  PROVE  /\ th[t].step = "count" /\ th[t].todo # <<>>
         /\ Head(th[t].todo) \in Mags /\ Head(th[t].todo) \in Elems(th[t].todo) /\ Len(mag[Head(th[t].todo)].slots) \in Nat
         /\ th'[t] \in ThreadRec /\ th' \in [Threads -> ThreadRec]
         /\ th'[t].op = th[t].op /\ th'[t].step = "count" /\ th'[t].p = th[t].p /\ th'[t].mag = th[t].mag
         /\ th'[t].old = th[t].old /\ th'[t].group = th[t].group /\ th'[t].pushes = th[t].pushes
         /\ th'[t].todo = Tail(th[t].todo)
         /\ Distinct(Tail(th[t].todo)) /\ Elems(Tail(th[t].todo)) = Elems(th[t].todo) \ {Head(th[t].todo)}
         /\ th'[t].live = Greater(0, th[t].live - Len(mag[Head(th[t].todo)].slots))
         /\ \A u \in Threads \ {t} : th'[u] = th[u]
         /\ StoreStep /\ lock' = lock /\ registry' = registry /\ tls' = tls /\ held' = held
         /\ pool' = pool /\ mag' = mag
<1> DEFINE m == Head(th[t].todo)
           n == Greater(0, th[t].live - Len(mag[m].slots))
<1>1. th[t].step = "count" /\ th[t].todo # <<>> BY DEF CountStep
<1>2. TypeOK /\ th[t] \in ThreadRec /\ th[t].live \in Int /\ th[t].todo \in Seq(Mags) /\ Distinct(th[t].todo)
  BY <1>1, Counting
<1>3. m \in Mags /\ m \in Elems(th[t].todo) /\ Tail(th[t].todo) \in Seq(Mags) /\ Distinct(Tail(th[t].todo))
      /\ Elems(Tail(th[t].todo)) = Elems(th[t].todo) \ {m}
  BY <1>1, <1>2, TailElems
<1>4. Len(mag[m].slots) \in Nat
  <2>1. mag[m] \in MagRec BY <1>2, <1>3 DEF TypeOK
  <2>2. mag[m].slots \in Seq(Nat) BY <2>1 DEF MagRec
  <2> QED BY <2>2
<1>5. n \in Int
  <2>1. \A i \in Int : Greater(0, i) \in Int BY DEF Greater
  <2>2. PICK l \in Int, k \in Nat : l = th[t].live /\ k = Len(mag[m].slots) BY <1>2, <1>4
  <2>3. l - k \in Int OBVIOUS
  <2> QED BY <2>1, <2>2, <2>3
<1>6. PICK x \in ThreadRec, s \in Seq(Mags), k \in Int : x = th[t] /\ s = Tail(th[t].todo) /\ k = n
  BY <1>2, <1>3, <1>5
<1>7. PICK a \in ThreadRec : a = [x EXCEPT !.live = k] BY SetLive
<1>8. PICK b \in ThreadRec : b = [a EXCEPT !.todo = s] BY SetTodo
<1>9. /\ a.op = x.op /\ a.step = x.step /\ a.p = x.p /\ a.mag = x.mag /\ a.old = x.old /\ a.group = x.group
      /\ a.pushes = x.pushes /\ a.live = k
  BY <1>7, SetLive
<1>10. /\ b.op = x.op /\ b.step = x.step /\ b.p = x.p /\ b.mag = x.mag /\ b.old = x.old /\ b.group = x.group
       /\ b.pushes = x.pushes /\ b.live = k /\ b.todo = s
  BY <1>8, <1>9, SetTodo
<1>11. th \in [Threads -> ThreadRec] BY <1>2 DEF TypeOK
<1>12. th' = [th EXCEPT ![t] = b]
  <2>1. th' = [th EXCEPT ![t].live = n, ![t].todo = Tail(@)] BY DEF CountStep
  <2>2. th' = [th EXCEPT ![t] = [th[t] EXCEPT !.live = n, !.todo = Tail(th[t].todo)]]
    <3> HIDE DEF n
    <3>1. [th[t] EXCEPT !.live = n].todo = th[t].todo BY <1>2 DEF ThreadRec
    <3> QED BY <1>2, <1>11, <2>1, <3>1
  <2> QED BY <1>6, <1>7, <1>8, <2>2
<1>13. /\ th'[t] = b /\ th' \in [Threads -> ThreadRec] /\ \A u \in Threads \ {t} : th'[u] = th[u]
  BY <1>11, <1>12
<1>14. /\ scenario' = scenario /\ pool' = pool /\ mag' = mag /\ lock' = lock /\ registry' = registry /\ tls' = tls
       /\ held' = held
  BY DEF CountStep, poolVars
<1>15. StoreStep BY <1>2, <1>14, NothingMoves
<1> HIDE DEF n, m
<1> QED BY <1>1, <1>3, <1>4, <1>6, <1>10, <1>13, <1>14, <1>15 DEF n, m

LEMMA CountStepKeeps ==
  ASSUME SInv, NEW t \in Threads, CountStep(t)
  PROVE  SInv'
<1>1. /\ th[t].step = "count" /\ th'[t] \in ThreadRec /\ th' \in [Threads -> ThreadRec]
      /\ th'[t].op = th[t].op /\ th'[t].step = "count" /\ th'[t].p = th[t].p /\ th'[t].mag = th[t].mag
      /\ th'[t].old = th[t].old /\ th'[t].group = th[t].group
      /\ th'[t].todo = Tail(th[t].todo)
      /\ Distinct(Tail(th[t].todo)) /\ Elems(Tail(th[t].todo)) \subseteq Elems(th[t].todo)
      /\ \A u \in Threads \ {t} : th'[u] = th[u]
      /\ StoreStep /\ lock' = lock /\ registry' = registry /\ tls' = tls /\ held' = held
  BY CountDoes
<1>2. /\ TypeOK /\ CallOK(t) /\ HandOK(t) /\ th[t].op = "alloc" /\ th[t].p \in Classes /\ th[t].p \in th[t].group
  BY <1>1, Counting
<1>3. Still BY <1>1 DEF Still, StoreStep
<1>4. CallOK(t)' BY <1>1, <1>2, <1>3, WithinCall DEF AllocSteps
<1>5. Pools' = Pools BY <1>1, ScenarioSame DEF StoreStep
<1>6. TypeOK' BY <1>1, <1>2, <1>5 DEF TypeOK, StoreStep
<1>7. HandOK(t)'
  <2>1. Elems(th[t].todo) \subseteq Elems(pool[th[t].p].mags) BY <1>1, <1>2 DEF HandOK
  <2>2. tls[t].cache # Null => tls[t].cache \in Elems(tls[t].mags) BY <1>2 DEF HandOK
  <2>3. th[t].mag # Null => th[t].mag \in Elems(tls[t].mags) BY <1>2 DEF HandOK
  <2> QED BY <1>1, <1>2, <1>3, <1>4, <1>6, <2>1, <2>2, <2>3, WithinHand
<1>8. LocksOwn(t) BY <1>1 DEF LocksOwn, Holding
<1>9. lock' \in [Pools -> Threads \cup {Null}] /\ held' \subseteq EntryRec BY <1>1, <1>2 DEF TypeOK
<1> QED BY <1>1, <1>2, <1>4, <1>7, <1>8, <1>9, StoreGoesOn DEF Like

\* What serving an entry does.
LEMMA ServeDoes ==
  ASSUME SInv, NEW t \in Threads, ServeEntry(t)
  PROVE  LET p == th[t].p
             f == pool[p].free
         IN  /\ th[t].step = "count" /\ f # <<>> /\ Head(f) \in Nat
             /\ StoreStep /\ Return(t, Block(p, Head(f)))
             /\ lock' = [lock EXCEPT ![p] = Null] /\ registry' = registry /\ tls' = tls /\ mag' = mag
             /\ \A q \in Pools \ {p} : pool'[q] = pool[q]
             /\ pool'[p].free = Tail(f) /\ pool'[p].taken = pool[p].taken \cup {Head(f)}
<1> DEFINE p == th[t].p
           f == pool[p].free
           k == pool[p].taken \cup {Head(f)}
<1>1. th[t].step = "count" /\ f # <<>> BY DEF ServeEntry, Counted, CanServe
<1>2. TypeOK /\ p \in Pools /\ f \in Seq(Nat) /\ pool[p].taken \subseteq Nat BY <1>1, Counting
<1>3. Head(f) \in Nat /\ Tail(f) \in Seq(Nat) BY <1>1, <1>2
<1>4. k \in EntrySets BY <1>2, <1>3 DEF EntrySets
<1>5. /\ pool' = [pool EXCEPT ![p].free = Tail(@), ![p].taken = @ \cup {Head(f)}]
      /\ Return(t, Block(p, Head(f))) /\ lock' = [lock EXCEPT ![p] = Null]
      /\ scenario' = scenario /\ registry' = registry /\ tls' = tls /\ mag' = mag
  BY DEF ServeEntry
<1> HIDE DEF p, f
<1>6. SetsEntries(p, Tail(f), k)
  <2>1. DOMAIN pool = Pools /\ PoolType(pool[p]) BY <1>2 DEF TypeOK
  <2>2. [pool[p] EXCEPT !.free = Tail(f)].taken = pool[p].taken BY <2>1 DEF PoolType
  <2> QED BY <1>2, <1>5, <2>1, <2>2 DEF SetsEntries, f
<1> HIDE DEF k
<1>7. /\ DOMAIN pool' = Pools /\ \A q \in Pools \ {p} : pool'[q] = pool[q]
      /\ \A q \in Pools : PoolType(pool'[q]) /\ pool'[q].mem = pool[q].mem /\ pool'[q].mags = pool[q].mags
      /\ pool'[p].free = Tail(f) /\ pool'[p].taken = k
  BY <1>2, <1>3, <1>4, <1>6, EntriesChange
<1>8. mag' \in [Mags -> MagRec] BY <1>2, <1>5 DEF TypeOK
<1>9. StoreStep BY <1>5, <1>7, <1>8 DEF StoreStep
<1> QED BY <1>1, <1>3, <1>5, <1>7, <1>9 DEF p, f, k

LEMMA ServeEntryKeeps ==
  ASSUME SInv, NEW t \in Threads, ServeEntry(t)
  PROVE  SInv'
<1>1. /\ th[t].step = "count" /\ Head(pool[th[t].p].free) \in Nat
      /\ StoreStep /\ Return(t, Block(th[t].p, Head(pool[th[t].p].free)))
      /\ lock' = [lock EXCEPT ![th[t].p] = Null] /\ registry' = registry /\ tls' = tls
  BY ServeDoes
<1>2. th[t].p \in Classes /\ th[t].p \in th[t].group /\ th[t].p \in Nat /\ th[t].op = "alloc" BY <1>1, Counting
<1> QED BY <1>1, <1>2, BlockIs, ReturnKeeps

\* A dynamic entry: only the pool's address set changes.
LEMMA DynamicDoes ==
  ASSUME SInv, NEW t \in Threads, NEW p \in Pools, NEW n \in Nat, AllocDynamic(t, p, n), scenario' = scenario, mag' = mag
  PROVE  /\ StoreStep
         /\ \E a \in Addresses : Return(t, Dynamic(p, a, n)) /\ Dynamic(p, a, n) \in EntryRec
                                 /\ Dynamic(p, a, n).p = p /\ Dynamic(p, a, n).kind = "dynamic"
         /\ \A q \in Pools : pool'[q].free = pool[q].free /\ pool'[q].taken = pool[q].taken
<1>1. TypeOK BY DEF SInv
<1>2. PICK a \in Addresses :
        /\ pool' = [pool EXCEPT ![p].table = SetInsert(@, a, pool[p].dynamic), ![p].dynamic = @ + 1]
        /\ Return(t, Dynamic(p, a, n))
  BY DEF AllocDynamic
<1>3. p \in Nat BY <1>1, ScenarioFacts
<1>4. Dynamic(p, a, n) \in EntryRec /\ Dynamic(p, a, n).p = p /\ Dynamic(p, a, n).kind = "dynamic"
  BY <1>3 DEF Dynamic, EntryRec
<1> DEFINE x == SetInsert(pool[p].table, a, pool[p].dynamic)
           b == pool[p]
<1>5. DOMAIN pool = Pools /\ PoolType(b) BY <1>1 DEF TypeOK
<1>6. PICK y : pool' = [pool EXCEPT ![p].table = x, ![p].dynamic = y] BY <1>2
<1> HIDE DEF x, b
<1>7. pool'[p] = [b EXCEPT !.table = x, !.dynamic = y] /\ DOMAIN pool' = Pools /\ \A q \in Pools \ {p} : pool'[q] = pool[q]
  BY <1>5, <1>6 DEF b
<1>8. b = [mem |-> b.mem, free |-> b.free, taken |-> b.taken, mags |-> b.mags, table |-> b.table, dynamic |-> b.dynamic]
  BY <1>5 DEF PoolType
<1>9. pool'[p] = [mem |-> b.mem, free |-> b.free, taken |-> b.taken, mags |-> b.mags, table |-> x, dynamic |-> y]
  BY <1>7, <1>8
<1>10. PoolType(pool'[p]) /\ pool'[p].free = b.free /\ pool'[p].taken = b.taken /\ pool'[p].mem = b.mem /\ pool'[p].mags = b.mags
  BY <1>5, <1>9 DEF PoolType
<1>11. \A q \in Pools : PoolType(pool[q]) BY <1>1 DEF TypeOK
<1>12. \A q \in Pools : PoolType(pool'[q]) /\ pool'[q].mem = pool[q].mem /\ pool'[q].mags = pool[q].mags
                        /\ pool'[q].free = pool[q].free /\ pool'[q].taken = pool[q].taken
  BY <1>7, <1>10, <1>11 DEF b
<1>13. mag' \in [Mags -> MagRec] BY <1>1 DEF TypeOK
<1>14. StoreStep BY <1>7, <1>12, <1>13 DEF StoreStep
<1> QED BY <1>2, <1>4, <1>12, <1>14

LEMMA ServeDynamicKeeps ==
  ASSUME SInv, NEW t \in Threads, ServeDynamic(t)
  PROVE  SInv'
<1>1. /\ th[t].step = "count" /\ AllocDynamic(t, th[t].p, th[t].p) /\ lock' = [lock EXCEPT ![th[t].p] = Null]
      /\ scenario' = scenario /\ registry' = registry /\ mag' = mag /\ tls' = tls
  BY DEF ServeDynamic, Counted
<1>2. th[t].p \in Pools /\ th[t].p \in th[t].group /\ th[t].p \in Nat /\ th[t].op = "alloc" BY <1>1, Counting
<1>3. StoreStep BY <1>1, <1>2, DynamicDoes
<1>4. PICK a \in Addresses : /\ Return(t, Dynamic(th[t].p, a, th[t].p)) /\ Dynamic(th[t].p, a, th[t].p) \in EntryRec
                             /\ Dynamic(th[t].p, a, th[t].p).p = th[t].p
                             /\ Dynamic(th[t].p, a, th[t].p).kind = "dynamic"
  BY <1>1, <1>2, DynamicDoes
<1> QED BY <1>1, <1>2, <1>3, <1>4, ReturnKeeps

LEMMA RefusedKeeps ==
  ASSUME SInv, NEW t \in Threads, Refused(t)
  PROVE  SInv'
<1> DEFINE p == th[t].p
           q == IF scenario.ranged THEN p + 1 ELSE Pseudo
           r == [Idle EXCEPT !.op = th[t].op, !.step = "alloc", !.size = th[t].size, !.old = th[t].old,
                             !.group = th[t].group, !.p = q]
<1>1. /\ th[t].step = "count" /\ th' = [th EXCEPT ![t] = r] /\ lock' = [lock EXCEPT ![p] = Null]
      /\ scenario' = scenario /\ registry' = registry /\ mag' = mag /\ tls' = tls /\ pool' = pool /\ held' = held
  BY DEF Refused, Counted
<1>2. /\ TypeOK /\ CallOK(t) /\ HandOK(t) /\ th[t].op = "alloc" /\ p \in Classes /\ p \in Pools /\ p \in th[t].group
      /\ lock[p] = t
  BY <1>1, Counting
<1>3. th \in [Threads -> ThreadRec] /\ th[t] \in ThreadRec /\ lock \in [Pools -> Threads \cup {Null}] BY <1>2 DEF TypeOK
<1>4. /\ q \in Pools /\ q \in Nat
      /\ q = Pseudo \/ (q \in Classes /\ q \in th[t].group)
  <2>1. PICK c \in Classes : th[t].group = Group(c) BY <1>2 DEF CallOK, Called
  <2>2. scenario.ranged => th[t].group = Pools BY <2>1 DEF Group
  <2>3. p + 1 \in Pools /\ Pseudo \in Pools /\ Pools \subseteq Nat /\ \A x \in Pools : x \in Classes \/ x = Pseudo
    BY <1>2, ScenarioFacts
  <2> QED BY <2>2, <2>3
<1> HIDE DEF q
<1>5. /\ r \in ThreadRec /\ r.op = "alloc" /\ r.step = "alloc" /\ r.p = q /\ r.group = th[t].group /\ r.old = th[t].old
      /\ r.mag = Null /\ r.todo = <<>>
  <2>1. Idle \in ThreadRec /\ Idle.mag = Null /\ Idle.todo = <<>> BY IdleFields
  <2>2. "alloc" \in Ops /\ "alloc" \in Steps BY DEF Ops, Steps
  <2>3. th[t].size \in Nat /\ th[t].old \in EntryRec \cup {Null} /\ th[t].group \in SUBSET Nat BY <1>3 DEF ThreadRec
  <2>4. r \in ThreadRec BY <1>2, <1>4, <2>1, <2>2, <2>3 DEF ThreadRec
  <2> QED BY <1>2, <2>1, <2>4 DEF ThreadRec
<1> HIDE DEF r
<1>6. th'[t] = r /\ th' \in [Threads -> ThreadRec] /\ \A u \in Threads \ {t} : th'[u] = th[u] BY <1>1, <1>3, <1>5
<1>7. StoreStep BY <1>1, <1>2, NothingMoves
<1>8. Still BY <1>7 DEF Still, StoreStep
<1>9. CallOK(t)' BY <1>2, <1>4, <1>5, <1>6, <1>8, WithinCall DEF AllocSteps
<1>10. lock' \in [Pools -> Threads \cup {Null}] /\ \A x \in Pools : lock'[x] = IF x = p THEN Null ELSE lock[x] BY <1>1, <1>3
<1>11. Pools' = Pools BY <1>1, ScenarioSame
<1>12. TypeOK' BY <1>1, <1>2, <1>6, <1>10, <1>11 DEF TypeOK
<1>13. HandOK(t)'
  <2>1. tls[t].cache # Null => tls[t].cache \in Elems(tls[t].mags) BY <1>2 DEF HandOK
  <2> QED BY <1>1, <1>5, <1>6, <1>8, <1>9, <1>12, <2>1, WithinHand
<1>14. LocksOwn(t)
  <2>1. \A x : ~Holding(t, x)' BY <1>5, <1>6 DEF Holding
  <2>2. \A x : Holding(t, x) <=> x = p BY <1>1 DEF Holding
  <2> QED BY <1>2, <1>10, <2>1, <2>2 DEF LocksOwn
<1>15. held' \subseteq EntryRec BY <1>1, <1>2 DEF TypeOK
<1>16. \A x \in held' : x \in held \/ HeldOK(x) BY <1>1
<1> QED BY <1>1, <1>2, <1>5, <1>6, <1>7, <1>9, <1>10, <1>13, <1>14, <1>15, <1>16, StoreGoesOn DEF Like

\* A call that is over, with what it has kept.
LEMMA RestKeeps ==
  ASSUME SInv, NEW t \in Threads, StoreStep, th[t].op \in {"alloc", "free"}, th[t].step # "count",
         th' \in [Threads -> ThreadRec], th'[t] = Idle, \A u \in Threads \ {t} : Like(u),
         lock' = lock, registry' = registry, tls' = tls,
         held' \subseteq EntryRec, \A x \in held' : x \in held \/ HeldOK(x)
  PROVE  SInv'
<1>1. TypeOK /\ CallOK(t) BY DEF SInv
<1>2. Still BY DEF Still, StoreStep
<1>3. Pools' = Pools BY ScenarioSame DEF StoreStep
<1>4. TypeOK' BY <1>1, <1>3 DEF TypeOK, StoreStep
<1>5. CallOK(t)' /\ HandOK(t)' BY <1>2, <1>4, Rests
<1>6. th[t].step \in AllocSteps \cup FreeSteps BY <1>1 DEF CallOK
<1>7. LocksOwn(t)
  <2>1. \A x : ~Holding(t, x) /\ ~Holding(t, x)' BY <1>6, IdleFields DEF Holding, AllocSteps, FreeSteps
  <2> QED BY <2>1 DEF LocksOwn
<1>8. lock' \in [Pools -> Threads \cup {Null}] BY <1>1 DEF TypeOK
<1>9. th'[t].op = "none" BY IdleFields
<1> QED BY <1>5, <1>7, <1>8, <1>9, StoreGoesOn

LEMMA AllocEndsKeeps ==
  ASSUME SInv, NEW t \in Threads, AllocEnds(t)
  PROVE  SInv'
<1>1. /\ th[t].step = "alloc" /\ th[t].p = Pseudo
      /\ scenario' = scenario /\ lock' = lock /\ registry' = registry /\ mag' = mag /\ tls' = tls
  BY DEF AllocEnds
<1>2. TypeOK /\ CallOK(t) BY DEF SInv
<1>3. th[t].op = "alloc" BY <1>1, <1>2, StepOp DEF AllocSteps
<1>4. th \in [Threads -> ThreadRec] /\ th[t] \in ThreadRec BY <1>2 DEF TypeOK
<1>5. PICK q \in Classes : th[t].group = Group(q) BY <1>2, <1>3 DEF CallOK, Called
<1>6. ASSUME Fallback(Pseudo), AllocDynamic(t, Pseudo, th[t].size) PROVE SInv'
  <2>1. Pseudo \in Pools /\ th[t].size \in Nat BY <1>2, <1>4, ScenarioFacts DEF ThreadRec
  <2>2. Pseudo \in th[t].group
    <3>1. scenario.ranged BY <1>2, <1>6, ScenarioFacts DEF Fallback
    <3> QED BY <1>5, <2>1, <3>1 DEF Group
  <2>3. StoreStep BY <1>1, <1>6, <2>1, DynamicDoes
  <2>4. PICK a \in Addresses : /\ Return(t, Dynamic(Pseudo, a, th[t].size)) /\ Dynamic(Pseudo, a, th[t].size) \in EntryRec
                               /\ Dynamic(Pseudo, a, th[t].size).p = Pseudo
                               /\ Dynamic(Pseudo, a, th[t].size).kind = "dynamic"
    BY <1>1, <1>6, <2>1, DynamicDoes
  <2>5. ~\E x : Holding(t, x) BY <1>1 DEF Holding
  <2> QED BY <1>1, <1>3, <2>2, <2>3, <2>4, <2>5, ReturnKeeps
<1>7. ASSUME held' = (IF th[t].old = Null THEN held ELSE held \cup {th[t].old}), th' = [th EXCEPT ![t] = Idle], pool' = pool
      PROVE  SInv'
  <2>1. StoreStep BY <1>1, <1>2, <1>7, NothingMoves
  <2>2. th'[t] = Idle /\ th' \in [Threads -> ThreadRec] /\ \A u \in Threads \ {t} : Like(u)
    BY <1>4, <1>7, IdleFields DEF Like
  <2>3. th[t].old # Null => th[t].old \in EntryRec /\ HeldOK(th[t].old)
    <3> SUFFICES ASSUME th[t].old # Null PROVE th[t].old \in EntryRec /\ HeldOK(th[t].old) OBVIOUS
    <3>1. th[t].old \in EntryRec BY <1>4 DEF ThreadRec
    <3>2. th[t].old.p \in th[t].group /\ (th[t].old.kind = "block" => th[t].old.p \in Classes) /\ scenario.ranged
      BY <1>2, <1>3 DEF CallOK
    <3>3. th[t].old.p \in Pools /\ Serving(th[t].old.p) BY <1>3, <3>2, CallServes
    <3> QED BY <3>1, <3>2, <3>3 DEF HeldOK
  <2>4. held \subseteq EntryRec BY <1>2 DEF TypeOK
  <2>5. held' \subseteq EntryRec /\ \A x \in held' : x \in held \/ HeldOK(x) BY <1>7, <2>3, <2>4
  <2> QED BY <1>1, <1>3, <2>1, <2>2, <2>5, RestKeeps
<1> QED BY <1>6, <1>7 DEF AllocEnds

-----------------------------------------------------------------------------
(* Freeing, action by action.                                              *)

\* The magazine in hand is on the pool's list: it has a capacity.
LEMMA HandListed ==
  ASSUME SInv, NEW t \in Threads, th[t].step \in {"pop", "push"}
  PROVE  LET p == th[t].p
         IN  /\ th[t].mag \in Elems(pool[p].mags) /\ Magazines(Count(p)) \in Nat \ {0}
             /\ Capacity(Count(p)) \in Nat \ {0} /\ Count(p) \in Nat
<1> DEFINE p == th[t].p
           m == th[t].mag
<1>1. /\ TypeOK /\ CallOK(t) /\ m \in Mags /\ mag[m].pool = p /\ mag[m].mem = "live"
      /\ p \in Classes /\ p \in Pools /\ p \in th[t].group /\ th[t].op \in {"alloc", "free"}
  BY InHand
<1>2. PoolAt(p) BY <1>1 DEF SInv, PoolInv
<1>3. ASSUME NEW u \in Threads, th[u].step = "orphan", th[u].mag = m PROVE FALSE
  <2>1. CallOK(u) /\ HandOK(u) BY DEF SInv
  <2>2. th[u].op = "destroy" BY <1>1, <1>3, <2>1, StepOp
  <2>3. mag[m].pool = th[u].p BY <1>3, <2>1 DEF HandOK
  <2>4. PICK q \in Classes : th[u].group = Group(q) /\ th[u].p \in th[u].group BY <2>1, <2>2 DEF CallOK
  <2>5. th[u].group = Group(p) BY <1>1, <2>3, <2>4, GroupIs
  <2>6. th[t].group = Group(p) BY <1>1, CallServes
  <2>7. u # t BY <1>1, <2>2
  <2> QED BY <1>1, <2>2, <2>5, <2>6, <2>7 DEF SInv, AloneInv
<1>4. m \in Elems(pool[p].mags) BY <1>1, <1>2, <1>3 DEF PoolAt
<1>5. Count(p) \in Nat /\ Magazines(Count(p)) \in Nat /\ Capacity(Count(p)) \in Nat BY <1>1, ScenarioFacts, Geometry
<1>6. Len(pool[p].mags) \in Nat /\ Len(pool[p].mags) # 0
  <2>1. Len(pool[p].mags) \in Nat BY <1>1 DEF TypeOK, PoolType
  <2> QED BY <1>4, <2>1 DEF Elems
<1>7. Magazines(Count(p)) # 0
  <2>1. Len(pool[p].mags) <= Magazines(Count(p)) BY <1>1, <1>2 DEF PoolAt
  <2> HIDE DEF p
  <2> QED BY <1>5, <1>6, <2>1
<1> QED BY <1>1, <1>4, <1>5, <1>7, Geometry

\* What flushing half of a full magazine does.
LEMMA FlushHalfDoes ==
  ASSUME SInv, NEW t \in Threads, FlushHalf(t)
  PROVE  LET p == th[t].p
             m == th[t].mag
             f == pool[p].free
             s == mag[m].slots
         IN  /\ th[t].step = "push" /\ lock[p] = Null
             /\ StoreStep /\ th' = th /\ held' = held /\ lock' = lock /\ registry' = registry /\ tls' = tls
             /\ \E n \in 0 .. Len(s) : /\ mag'[m].slots = SubSeq(s, 1, n)
                                       /\ pool'[p].free = Reverse(SubSeq(s, n + 1, Len(s))) \o f
             /\ \A x \in Mags \ {m} : mag'[x] = mag[x]
             /\ \A q \in Pools \ {p} : pool'[q] = pool[q]
             /\ pool'[p].taken = pool[p].taken
<1> DEFINE p == th[t].p
           m == th[t].mag
           f == pool[p].free
           s == mag[m].slots
           c == Capacity(Count(p))
           n == Greater(1, c \div 2)
<1>1. th[t].step = "push" /\ lock[p] = Null /\ Len(s) = c BY DEF FlushHalf, Unlocked
<1>2. TypeOK /\ m \in Mags /\ s \in Seq(Nat) /\ p \in Pools /\ f \in Seq(Nat) BY <1>1, InHand
<1>3. c \in Nat \ {0} BY <1>1, HandListed
<1>4. n \in 1 .. c
  <2> HIDE DEF c
  <2>1. c \div 2 \in 0 .. c BY <1>3
  <2> QED BY <1>3, <2>1 DEF Greater
<1>5. PICK k \in 0 .. Len(s) : k = Len(s) - n /\ Len(s) - n + 1 = k + 1
  <2> HIDE DEF c, n
  <2> QED BY <1>1, <1>2, <1>3, <1>4
<1>6. /\ pool' = [pool EXCEPT ![p].free = Flushed(f, s, n)] /\ mag' = [mag EXCEPT ![m].slots = SubSeq(s, 1, Len(s) - n)]
      /\ scenario' = scenario /\ th' = th /\ held' = held /\ lock' = lock /\ registry' = registry /\ tls' = tls
  BY DEF FlushHalf
<1> HIDE DEF n
<1>7. Flushed(f, s, n) = Reverse(SubSeq(s, k + 1, Len(s))) \o f BY <1>5 DEF Flushed
<1>8. SubSeq(s, 1, k) \in Seq(Nat) /\ Reverse(SubSeq(s, k + 1, Len(s))) \o f \in Seq(Nat)
  <2>1. SubSeq(s, 1, k) \in Seq(Nat) /\ SubSeq(s, k + 1, Len(s)) \in Seq(Nat) BY <1>2, <1>5, SplitElems
  <2>2. Reverse(SubSeq(s, k + 1, Len(s))) \in Seq(Nat) BY <2>1, ReverseElems
  <2> QED BY <1>2, <2>1, <2>2, ConcatElems
<1>9. SetsSlots(m, SubSeq(s, 1, k)) /\ SetsFree(p, Reverse(SubSeq(s, k + 1, Len(s))) \o f)
  BY <1>5, <1>6, <1>7 DEF SetsSlots, SetsFree
<1> HIDE DEF p, m, f, s, c
<1>10. /\ mag' \in [Mags -> MagRec] /\ mag'[m].slots = SubSeq(s, 1, k)
       /\ \A x \in Mags : mag'[x].mem = mag[x].mem /\ mag'[x].pool = mag[x].pool
       /\ \A x \in Mags \ {m} : mag'[x] = mag[x]
  BY <1>2, <1>8, <1>9, MagSlots
<1>11. /\ DOMAIN pool' = Pools /\ \A q \in Pools \ {p} : pool'[q] = pool[q]
       /\ \A q \in Pools : PoolType(pool'[q]) /\ pool'[q].mem = pool[q].mem /\ pool'[q].mags = pool[q].mags
       /\ pool'[p].free = Reverse(SubSeq(s, k + 1, Len(s))) \o f /\ pool'[p].taken = pool[p].taken
  BY <1>2, <1>8, <1>9, FreeChanges
<1>12. StoreStep BY <1>6, <1>10, <1>11 DEF StoreStep
<1> QED BY <1>1, <1>5, <1>6, <1>10, <1>11, <1>12 DEF p, m, f, s

LEMMA FlushHalfKeeps ==
  ASSUME SInv, NEW t \in Threads, FlushHalf(t)
  PROVE  SInv'
<1>1. /\ th[t].step = "push" /\ StoreStep /\ th' = th /\ held' = held /\ lock' = lock /\ registry' = registry /\ tls' = tls
  BY FlushHalfDoes
<1>2. /\ TypeOK /\ CallOK(t) /\ HandOK(t) /\ th[t].op = "free" /\ mag[th[t].mag].pool = th[t].p
      /\ th[t].mag \in Mags /\ th[t].mag \in Elems(tls[t].mags)
  BY <1>1, InHand
<1>3. Still BY <1>1 DEF Still, StoreStep
<1>4. CallOK(t)'
  <2>1. th[t].p = th[t].old.p /\ th[t].old.kind = "block" BY <1>1, <1>2 DEF CallOK
  <2> QED BY <1>1, <1>2, <1>3, <2>1, WithinCall DEF FreeSteps
<1>5. Pools' = Pools BY <1>1, ScenarioSame DEF StoreStep
<1>6. TypeOK' BY <1>1, <1>2, <1>5 DEF TypeOK, StoreStep
<1>7. HandOK(t)'
  <2>1. tls[t].cache # Null => tls[t].cache \in Elems(tls[t].mags) BY <1>2 DEF HandOK
  <2>2. th[t].todo = <<>> /\ th[t].mag # Null BY <1>1, <1>2 DEF HandOK
  <2> QED BY <1>1, <1>2, <1>3, <1>4, <1>6, <2>1, <2>2, WithinHand
<1>8. LocksOwn(t) BY <1>1 DEF LocksOwn, Holding
<1>9. lock' \in [Pools -> Threads \cup {Null}] /\ held' \subseteq EntryRec /\ th' \in [Threads -> ThreadRec]
  BY <1>1, <1>2 DEF TypeOK
<1> QED BY <1>1, <1>2, <1>4, <1>7, <1>8, <1>9, StoreGoesOn DEF Like

\* What a push does.
LEMMA PushDoes ==
  ASSUME SInv, NEW t \in Threads, Push(t)
  PROVE  LET p == th[t].p
             m == th[t].mag
             e == th[t].old.id
         IN  /\ th[t].step = "push" /\ e \in Nat /\ th[t].old # Null /\ th[t].old.kind = "block" /\ th[t].old.p = p
             /\ Len(mag[m].slots) < Capacity(Count(p))
             /\ StoreStep /\ held' = held /\ lock' = lock /\ registry' = registry /\ tls' = tls
             /\ mag'[m].slots = Append(mag[m].slots, e)
             /\ \A x \in Mags \ {m} : mag'[x] = mag[x]
             /\ \A q \in Pools \ {p} : pool'[q] = pool[q]
             /\ pool'[p].free = pool[p].free /\ pool'[p].taken = pool[p].taken \ {e}
             /\ th' \in [Threads -> ThreadRec] /\ th'[t] = Idle
             /\ \A u \in Threads \ {t} : /\ Like(u)
                                         /\ th'[u].pushes = IF th[u].step = "count" /\ th[u].p = p THEN th[u].pushes + 1
                                                            ELSE th[u].pushes
<1> DEFINE p == th[t].p
           m == th[t].mag
           s == mag[m].slots
           e == th[t].old.id
<1>1. th[t].step = "push" /\ Len(s) < Capacity(Count(p)) BY DEF Push
<1>2. /\ TypeOK /\ CallOK(t) /\ m \in Mags /\ s \in Seq(Nat) /\ p \in Pools /\ pool[p].taken \subseteq Nat
      /\ th[t].op = "free"
  BY <1>1, InHand
<1>3. th[t].old # Null /\ th[t].old.kind = "block" /\ th[t].old.p = p BY <1>1, <1>2 DEF CallOK
<1>4. e \in Nat
  <2>1. th[t] \in ThreadRec BY <1>2 DEF TypeOK
  <2>2. th[t].old \in EntryRec BY <1>3, <2>1 DEF ThreadRec
  <2> QED BY <1>3, <2>2 DEF EntryRec
<1>5. Append(s, e) \in Seq(Nat) /\ pool[p].taken \ {e} \in EntrySets BY <1>2, <1>4 DEF EntrySets
<1>6. /\ SetsSlots(m, Append(s, e)) /\ SetsTaken(p, pool[p].taken \ {e})
      /\ scenario' = scenario /\ held' = held /\ lock' = lock /\ registry' = registry /\ tls' = tls
  BY DEF Push, SetsSlots, SetsTaken
<1>7. th' = [u \in Threads |-> IF u = t THEN Idle
                               ELSE IF th[u].step = "count" /\ th[u].p = p THEN [th[u] EXCEPT !.pushes = @ + 1] ELSE th[u]]
  BY DEF Push
<1> HIDE DEF p, m, s, e
<1>8. /\ mag' \in [Mags -> MagRec] /\ mag'[m].slots = Append(s, e)
      /\ \A x \in Mags : mag'[x].mem = mag[x].mem /\ mag'[x].pool = mag[x].pool
      /\ \A x \in Mags \ {m} : mag'[x] = mag[x]
  BY <1>2, <1>5, <1>6, MagSlots
<1>9. /\ DOMAIN pool' = Pools /\ \A q \in Pools \ {p} : pool'[q] = pool[q]
      /\ \A q \in Pools : PoolType(pool'[q]) /\ pool'[q].mem = pool[q].mem /\ pool'[q].mags = pool[q].mags
      /\ pool'[p].free = pool[p].free /\ pool'[p].taken = pool[p].taken \ {e}
  BY <1>2, <1>5, <1>6, TakenChanges
<1>10. StoreStep BY <1>6, <1>8, <1>9 DEF StoreStep
<1>11. ASSUME NEW u \in Threads \ {t}
       PROVE  /\ Like(u) /\ th'[u] \in ThreadRec
              /\ th'[u].pushes = IF th[u].step = "count" /\ th[u].p = p THEN th[u].pushes + 1 ELSE th[u].pushes
  <2>1. th[u] \in ThreadRec BY <1>2 DEF TypeOK
  <2>2. CASE th[u].step = "count" /\ th[u].p = p
    <3>1. th[u].pushes \in Int BY <2>1 DEF ThreadRec
    <3>2. PICK n \in Int : n = th[u].pushes + 1 BY <3>1
    <3>3. th'[u] = [th[u] EXCEPT !.pushes = n] BY <1>7, <2>2, <3>2
    <3>4. th'[u] \in ThreadRec /\ th'[u].pushes = n BY <2>1, <3>3, SetPushes
    <3> QED BY <2>2, <3>2, <3>3, <3>4 DEF Like
  <2>3. CASE ~(th[u].step = "count" /\ th[u].p = p)
    <3>1. th'[u] = th[u] BY <1>7, <2>3
    <3> QED BY <2>1, <2>3, <3>1 DEF Like
  <2> QED BY <2>2, <2>3
<1>12. th'[t] = Idle /\ th' \in [Threads -> ThreadRec]
  <2>1. th'[t] = Idle /\ DOMAIN th' = Threads BY <1>7
  <2>2. \A u \in Threads : th'[u] \in ThreadRec BY <1>11, <2>1, IdleFields
  <2>3. th' = [u \in Threads |-> th'[u]] BY <1>7
  <2> QED BY <2>1, <2>2, <2>3
<1> QED BY <1>1, <1>3, <1>4, <1>6, <1>8, <1>9, <1>10, <1>11, <1>12 DEF p, m, s, e

LEMMA PushKeeps ==
  ASSUME SInv, NEW t \in Threads, Push(t)
  PROVE  SInv'
<1>1. /\ th[t].step = "push" /\ StoreStep /\ held' = held /\ lock' = lock /\ registry' = registry /\ tls' = tls
      /\ th' \in [Threads -> ThreadRec] /\ th'[t] = Idle /\ \A u \in Threads \ {t} : Like(u)
  BY PushDoes
<1>2. TypeOK /\ th[t].op = "free" BY <1>1, InHand
<1>3. held' \subseteq EntryRec /\ \A x \in held' : x \in held BY <1>1, <1>2 DEF TypeOK
<1> QED BY <1>1, <1>2, <1>3, RestKeeps

\* What freeing under the lock does.
LEMMA LockedFreeDoes ==
  ASSUME SInv, NEW t \in Threads, LockedFree(t)
  PROVE  LET p == th[t].p
             e == th[t].old.id
         IN  /\ th[t].step = "lockedFree" /\ th[t].op = "free" /\ lock[p] = Null /\ p \in Classes /\ p \in Pools
             /\ e \in Nat /\ th[t].old # Null /\ th[t].old.kind = "block" /\ th[t].old.p = p
             /\ StoreStep /\ held' = held /\ lock' = lock /\ registry' = registry /\ tls' = tls /\ mag' = mag
             /\ \A q \in Pools \ {p} : pool'[q] = pool[q]
             /\ pool'[p].free = <<e>> \o pool[p].free /\ pool'[p].taken = pool[p].taken \ {e}
             /\ th' \in [Threads -> ThreadRec] /\ th'[t] = Idle /\ \A u \in Threads \ {t} : th'[u] = th[u]
<1> DEFINE p == th[t].p
           e == th[t].old.id
           f == <<e>> \o pool[p].free
           k == pool[p].taken \ {e}
<1>1. th[t].step = "lockedFree" /\ lock[p] = Null BY DEF LockedFree, Unlocked
<1>2. TypeOK /\ CallOK(t) BY DEF SInv
<1>3. th[t].op = "free" /\ p \in Classes /\ p \in Pools BY <1>1, <1>2, StepOp, AtClass DEF FreeSteps
<1>4. th[t].old # Null /\ th[t].old.kind = "block" /\ th[t].old.p = p BY <1>1, <1>2, <1>3 DEF CallOK
<1>5. th \in [Threads -> ThreadRec] BY <1>2 DEF TypeOK
<1>6. e \in Nat
  <2>1. th[t].old \in EntryRec BY <1>4, <1>5 DEF ThreadRec
  <2> QED BY <1>4, <2>1 DEF EntryRec
<1>7. f \in Seq(Nat) /\ k \in EntrySets
  <2>1. pool[p].free \in Seq(Nat) /\ pool[p].taken \subseteq Nat BY <1>2, <1>3 DEF TypeOK, PoolType
  <2> QED BY <1>6, <2>1, PushElems DEF EntrySets
<1>8. /\ pool' = [pool EXCEPT ![p].free = <<th[t].old.id>> \o @, ![p].taken = @ \ {th[t].old.id}]
      /\ th' = [th EXCEPT ![t] = Idle]
      /\ scenario' = scenario /\ held' = held /\ lock' = lock /\ registry' = registry /\ tls' = tls /\ mag' = mag
  BY DEF LockedFree
<1> HIDE DEF p
<1>9. SetsEntries(p, f, k)
  <2>1. DOMAIN pool = Pools /\ PoolType(pool[p]) BY <1>2, <1>3 DEF TypeOK
  <2>2. [pool[p] EXCEPT !.free = f].taken = pool[p].taken BY <2>1 DEF PoolType
  <2> QED BY <1>3, <1>8, <2>1, <2>2 DEF SetsEntries
<1> HIDE DEF e, f, k
<1>10. /\ DOMAIN pool' = Pools /\ \A q \in Pools \ {p} : pool'[q] = pool[q]
       /\ \A q \in Pools : PoolType(pool'[q]) /\ pool'[q].mem = pool[q].mem /\ pool'[q].mags = pool[q].mags
       /\ pool'[p].free = f /\ pool'[p].taken = k
  BY <1>2, <1>3, <1>7, <1>9, EntriesChange
<1>11. mag' \in [Mags -> MagRec] BY <1>2, <1>8 DEF TypeOK
<1>12. StoreStep BY <1>8, <1>10, <1>11 DEF StoreStep
<1>13. /\ th' \in [Threads -> ThreadRec] /\ th'[t] = Idle /\ \A u \in Threads \ {t} : th'[u] = th[u]
  BY <1>5, <1>8, IdleFields
<1> QED BY <1>1, <1>3, <1>4, <1>6, <1>8, <1>10, <1>12, <1>13 DEF p, e, f, k

LEMMA LockedFreeKeeps ==
  ASSUME SInv, NEW t \in Threads, LockedFree(t)
  PROVE  SInv'
<1>1. /\ th[t].step = "lockedFree" /\ th[t].op = "free"
      /\ StoreStep /\ held' = held /\ lock' = lock /\ registry' = registry /\ tls' = tls
      /\ th' \in [Threads -> ThreadRec] /\ th'[t] = Idle /\ \A u \in Threads \ {t} : th'[u] = th[u]
  BY LockedFreeDoes
<1>2. held' \subseteq EntryRec /\ \A x \in held' : x \in held BY <1>1 DEF SInv, TypeOK
<1> QED BY <1>1, <1>2, RestKeeps DEF Like

\* Freeing a dynamic entry: the pools are asked in turn.
LEMMA AskKeeps ==
  ASSUME SInv, NEW t \in Threads, FreeDynamic(t) \/ AskNext(t)
  PROVE  SInv'
<1>1. TypeOK /\ CallOK(t) /\ HandOK(t) BY DEF SInv
<1>2. th \in [Threads -> ThreadRec] /\ th[t] \in ThreadRec BY <1>1 DEF TypeOK
<1>3. th[t].step \in {"free", "ask"} /\ th[t].op = "free"
  <2>1. th[t].step \in {"free", "ask"} BY DEF FreeDynamic, AskNext
  <2> QED BY <1>1, <2>1, StepOp DEF FreeSteps
<1>4. PICK q \in Nat : th' = [th EXCEPT ![t] = [th[t] EXCEPT !.step = "ask", !.p = q]]
  <2>1. CASE FreeDynamic(t)
    <3>1. th' = [th EXCEPT ![t].step = "ask", ![t].p = 1] BY <2>1 DEF FreeDynamic
    <3>2. th' = [th EXCEPT ![t] = [th[t] EXCEPT !.step = "ask", !.p = 1]] BY <1>2, <3>1
    <3> QED BY <3>2
  <2>2. CASE AskNext(t)
    <3>1. th' = [th EXCEPT ![t].p = @ + 1] /\ th[t].step = "ask" BY <2>2 DEF AskNext
    <3>2. th[t].p \in Nat BY <1>2 DEF ThreadRec
    <3>3. PICK q \in Nat : q = th[t].p + 1 BY <3>2
    <3>4. th[t] = [th[t] EXCEPT !.step = "ask"] BY <1>2, <3>1 DEF ThreadRec
    <3>5. th' = [th EXCEPT ![t] = [[th[t] EXCEPT !.step = "ask"] EXCEPT !.p = q]] BY <1>2, <3>1, <3>3, <3>4
    <3> QED BY <3>5
  <2> QED BY <2>1, <2>2
<1>5. PICK m \in Mags \cup {Null} : m = th[t].mag BY <1>1, SameRec
<1>6. th' = [th EXCEPT ![t] = [th[t] EXCEPT !.step = "ask", !.p = q, !.mag = m]]
  <2>1. [th[t] EXCEPT !.step = "ask", !.p = q] = [th[t] EXCEPT !.step = "ask", !.p = q, !.mag = m]
    BY <1>2, <1>5 DEF ThreadRec
  <2> QED BY <1>4, <2>1
<1>7. PICK c \in Mags \cup {Null} : c = tls[t].cache BY <1>1, SameRec
<1>8. /\ scenario' = scenario /\ pool' = pool /\ mag' = mag /\ lock' = lock /\ registry' = registry /\ held' = held
      /\ tls' = tls
  BY DEF FreeDynamic, AskNext, poolVars
<1>9. tls' = [tls EXCEPT ![t] = [tls[t] EXCEPT !.cache = c]] BY <1>1, <1>7, <1>8, SameRec
<1>10. (c # Null => c \in Elems(tls[t].mags)) /\ (m # Null => m \in Elems(tls[t].mags))
  BY <1>1, <1>3, <1>5, <1>7 DEF HandOK
<1>11. "ask" \in Steps \ {"count"} /\ "ask" \in FreeSteps /\ th[t].step # "count" BY <1>3 DEF Steps, FreeSteps
<1>12. th[t].op \in {"alloc", "free"} /\ th[t].op # "alloc" BY <1>3
<1> QED BY <1>6, <1>8, <1>9, <1>10, <1>11, <1>12, Moves

LEMMA AskFoundDoes ==
  ASSUME SInv, NEW t \in Threads, AskFound(t)
  PROVE  /\ th[t].step = "ask" /\ th[t].op = "free"
         /\ StoreStep /\ held' = held /\ lock' = lock /\ registry' = registry /\ tls' = tls /\ mag' = mag
         /\ \A q \in Pools : pool'[q].free = pool[q].free /\ pool'[q].taken = pool[q].taken
         /\ th' \in [Threads -> ThreadRec] /\ th'[t] = Idle /\ \A u \in Threads \ {t} : th'[u] = th[u]
<1> DEFINE p == th[t].p
           b == pool[p]
           x == SetRemove(b.table, th[t].old.id)
<1>1. /\ th[t].step = "ask" /\ p \in Pools /\ th' = [th EXCEPT ![t] = Idle]
      /\ pool' = [pool EXCEPT ![p].table = SetRemove(@, th[t].old.id), ![p].dynamic = @ - 1]
      /\ scenario' = scenario /\ held' = held /\ lock' = lock /\ registry' = registry /\ tls' = tls /\ mag' = mag
  BY DEF AskFound
<1>2. TypeOK /\ CallOK(t) BY DEF SInv
<1>3. th[t].op = "free" BY <1>1, <1>2, StepOp DEF FreeSteps
<1>4. th' \in [Threads -> ThreadRec] /\ th'[t] = Idle /\ \A u \in Threads \ {t} : th'[u] = th[u]
  <2>1. th \in [Threads -> ThreadRec] BY <1>2 DEF TypeOK
  <2> QED BY <1>1, <2>1, IdleFields
<1>5. DOMAIN pool = Pools /\ PoolType(b) BY <1>1, <1>2 DEF TypeOK
<1>6. PICK y : pool' = [pool EXCEPT ![p].table = x, ![p].dynamic = y] BY <1>1
<1> HIDE DEF x, b
<1>7. pool'[p] = [b EXCEPT !.table = x, !.dynamic = y] /\ DOMAIN pool' = Pools /\ \A q \in Pools \ {p} : pool'[q] = pool[q]
  BY <1>1, <1>5, <1>6 DEF b
<1>8. b = [mem |-> b.mem, free |-> b.free, taken |-> b.taken, mags |-> b.mags, table |-> b.table, dynamic |-> b.dynamic]
  BY <1>5 DEF PoolType
<1>9. pool'[p] = [mem |-> b.mem, free |-> b.free, taken |-> b.taken, mags |-> b.mags, table |-> x, dynamic |-> y]
  BY <1>7, <1>8
<1>10. PoolType(pool'[p]) /\ pool'[p].free = b.free /\ pool'[p].taken = b.taken /\ pool'[p].mem = b.mem /\ pool'[p].mags = b.mags
  BY <1>5, <1>9 DEF PoolType
<1>11. \A q \in Pools : PoolType(pool[q]) BY <1>2 DEF TypeOK
<1>12. \A q \in Pools : PoolType(pool'[q]) /\ pool'[q].mem = pool[q].mem /\ pool'[q].mags = pool[q].mags
                        /\ pool'[q].free = pool[q].free /\ pool'[q].taken = pool[q].taken
  BY <1>7, <1>10, <1>11 DEF b
<1>13. mag' \in [Mags -> MagRec] BY <1>1, <1>2 DEF TypeOK
<1>14. StoreStep BY <1>1, <1>7, <1>12, <1>13 DEF StoreStep
<1> QED BY <1>1, <1>3, <1>4, <1>12, <1>14

LEMMA AskFoundKeeps ==
  ASSUME SInv, NEW t \in Threads, AskFound(t)
  PROVE  SInv'
<1>1. /\ th[t].step = "ask" /\ th[t].op = "free"
      /\ StoreStep /\ held' = held /\ lock' = lock /\ registry' = registry /\ tls' = tls
      /\ th' \in [Threads -> ThreadRec] /\ th'[t] = Idle /\ \A u \in Threads \ {t} : th'[u] = th[u]
  BY AskFoundDoes
<1>2. held' \subseteq EntryRec /\ \A x \in held' : x \in held BY <1>1 DEF SInv, TypeOK
<1> QED BY <1>1, <1>2, RestKeeps DEF Like

-----------------------------------------------------------------------------
(* Magazines come and go with their threads and pools.                     *)

LEMMA ExitKeeps ==
  ASSUME SInv, NEW t \in Threads, Exit(t)
  PROVE  SInv'
<1> DEFINE r == [Idle EXCEPT !.op = "exit", !.step = "drain", !.todo = tls[t].mags]
           l == [mags |-> <<>>, cache |-> Null, gone |-> TRUE]
<1>1. /\ th[t] = Idle /\ tls' = [tls EXCEPT ![t] = l] /\ th' = [th EXCEPT ![t] = r]
      /\ scenario' = scenario /\ pool' = pool /\ lock' = lock /\ registry' = registry /\ mag' = mag /\ held' = held
  BY DEF Exit, poolVars
<1>2. TypeOK /\ HandOK(t) BY DEF SInv
<1>3. l \in ListRec
  <2>1. <<>> \in Seq(Mags) OBVIOUS
  <2> QED BY <2>1 DEF ListRec
<1>4. /\ r \in ThreadRec /\ r.op = "exit" /\ r.step = "drain" /\ r.todo = tls[t].mags /\ r.mag = Null /\ r.old = Null
  <2>1. Idle \in ThreadRec /\ Idle.mag = Null /\ Idle.old = Null BY IdleFields
  <2>2. "exit" \in Ops /\ "drain" \in Steps BY DEF Ops, Steps
  <2>3. tls[t].mags \in Seq(Mags) BY <1>2, OwnType
  <2>4. r \in ThreadRec BY <2>1, <2>2, <2>3 DEF ThreadRec
  <2> QED BY <2>1, <2>4 DEF ThreadRec
<1>5. l.mags = <<>> /\ l.cache = Null /\ l.gone OBVIOUS
<1> HIDE DEF r, l
<1>6. TypeOK' /\ th'[t] = r /\ tls'[t] = l /\ Still /\ Apart(t) BY <1>1, <1>2, <1>3, <1>4, CallTypes
<1>7. th[t].op = "none" /\ th[t].step = "none" BY <1>1, IdleFields
<1>8. LocksOwn(t) BY <1>1, <1>4, <1>6, <1>7 DEF LocksOwn, Holding
<1>9. Admitted(t) BY <1>4, <1>6 DEF Admitted
<1>10. CallOK(t)' BY <1>4, <1>5, <1>6 DEF CallOK
<1>11. Distinct(<<>>) /\ Elems(<<>>) = {} BY DEF Distinct, Elems
<1>12. HandOK(t)' BY <1>1, <1>2, <1>4, <1>5, <1>6, <1>11 DEF HandOK
<1>13. Own(t)' = Own(t) BY <1>4, <1>5, <1>6, <1>7, <1>11 DEF Own
<1> QED BY <1>1, <1>4, <1>6, <1>7, <1>8, <1>9, <1>10, <1>12, <1>13, QuietKeeps

LEMMA DrainEndsKeeps ==
  ASSUME SInv, NEW t \in Threads, DrainEnds(t)
  PROVE  SInv'
<1>1. /\ th[t].step = "drain" /\ th[t].todo = <<>> /\ th' = [th EXCEPT ![t] = Idle]
      /\ scenario' = scenario /\ pool' = pool /\ lock' = lock /\ registry' = registry /\ mag' = mag /\ held' = held
      /\ tls' = tls
  BY DEF DrainEnds, poolVars
<1>2. TypeOK /\ HandOK(t) /\ CallOK(t) BY DEF SInv
<1>3. tls[t] \in ListRec /\ tls' = [tls EXCEPT ![t] = tls[t]] BY <1>1, <1>2 DEF TypeOK
<1>4. TypeOK' /\ th'[t] = Idle /\ Still /\ Apart(t) BY <1>1, <1>2, <1>3, IdleFields, CallTypes
<1>5. th[t].op = "exit" BY <1>1, <1>2, StepOp
<1>6. LocksOwn(t) BY <1>1, <1>4, IdleFields DEF LocksOwn, Holding
<1>7. Admitted(t) BY <1>4, IdleFields DEF Admitted
<1>8. CallOK(t)' /\ HandOK(t)' BY <1>1, <1>4, Rests
<1>9. Own(t)' = Own(t)
  <2>1. Elems(<<>>) = {} BY DEF Elems
  <2> QED BY <1>1, <1>4, <2>1, IdleFields DEF Own
<1> QED BY <1>1, <1>4, <1>6, <1>7, <1>8, <1>9, IdleFields, QuietKeeps

\* The registry lock is taken by a thread that held no lock.
LEMMA RegistryTaken ==
  ASSUME SInv, NEW t \in Threads, TypeOK', scenario' = scenario, \A u \in Threads \ {t} : Like(u),
         registry = Null, registry' = t, th'[t].step \in {"flush", "unlink"},
         th[t].step \notin {"count", "unlink", "orphan"},
         \/ th'[t].step = "flush" /\ lock' = lock
         \/ th'[t].step = "unlink" /\ lock[th'[t].p] = Null /\ lock' = [lock EXCEPT ![th'[t].p] = t]
  PROVE  LockInv'
<1>1. TypeOK /\ LockInv BY DEF SInv
<1>2. Pools' = Pools BY ScenarioSame
<1>3. \A u \in Threads \ {t} : th'[u].step = th[u].step /\ th'[u].p = th[u].p BY <1>1, LikeFields
<1>4. \A u \in Threads \ {t} : \A p : Holding(u, p)' <=> Holding(u, p) BY <1>3 DEF Holding
<1>5. t # Null BY NullFacts
<1>6. \A p : ~Holding(t, p) BY DEF Holding
<1>7. \A p \in Pools : \/ lock'[p] = lock[p] /\ ~Holding(t, p)'
                       \/ lock[p] = Null /\ lock'[p] = t /\ Holding(t, p)'
  <2>1. lock \in [Pools -> Threads \cup {Null}] BY <1>1 DEF TypeOK
  <2> QED BY <2>1 DEF Holding
<1>8. ASSUME NEW p \in Pools, lock'[p] # Null PROVE Holding(lock[p], p)'
  <2>1. CASE lock'[p] = lock[p] /\ ~Holding(t, p)'
    <3>1. PICK u \in Threads : u = lock[p] /\ Holding(u, p) BY <1>1, <1>8, <2>1 DEF LockInv, TypeOK
    <3>2. Holding(u, p)' BY <1>4, <1>6, <3>1
    <3> QED BY <2>1, <3>1, <3>2 DEF Holding
  <2>2. CASE lock'[p] = t /\ Holding(t, p)' BY <2>2 DEF Holding
  <2> QED BY <1>7, <2>1, <2>2
<1>9. ASSUME NEW u \in Threads, NEW p \in Pools, Holding(u, p)' PROVE lock'[p] = u
  <2>1. CASE u = t BY <1>7, <1>9, <2>1
  <2>2. CASE u # t
    <3>1. lock[p] = u BY <1>1, <1>4, <1>9, <2>2 DEF LockInv
    <3>2. u # Null BY NullFacts
    <3> QED BY <1>7, <3>1, <3>2
  <2> QED BY <2>1, <2>2
<1>10. \A u \in Threads \ {t} : th[u].step \notin {"flush", "unlink", "orphan"}
  <2>1. \A u \in Threads : u # Null BY NullFacts
  <2> QED BY <1>1, <2>1 DEF LockInv
<1>11. \A u \in Threads : th'[u].step \in {"flush", "unlink", "orphan"} => registry' = u BY <1>3, <1>10
<1> QED BY <1>2, <1>8, <1>9, <1>11 DEF LockInv

\* Holders' entries stay served while nobody begins or ends a destruction.
LEMMA HeldKeeps ==
  ASSUME SInv, NEW t \in Threads, scenario' = scenario, \A u \in Threads \ {t} : Like(u),
         th'[t].op = "destroy" => th[t].op = "destroy" /\ th'[t].group = th[t].group,
         \A p \in Pools : pool[p].mem = "live" /\ Serving(p) => pool'[p].mem = "live",
         held' \subseteq held
  PROVE  \A x \in held' : HeldOK(x)'
<1>1. TypeOK BY DEF SInv
<1>2. \A u \in Threads \ {t} : th'[u].op = th[u].op /\ th'[u].group = th[u].group BY <1>1, LikeFields
<1>3. Classes' = Classes /\ Pools' = Pools /\ \A p : Group(p)' = Group(p) BY ScenarioSame
<1> TAKE x \in held'
<1>4. HeldOK(x) BY DEF SInv, HeldOK
<1>5. Serving(x.p)' BY <1>2, <1>3, <1>4 DEF Serving, Calling, HeldOK
<1> QED BY <1>3, <1>4, <1>5 DEF HeldOK

LEMMA AloneFrame ==
  ASSUME SInv, NEW t \in Threads, \A u \in Threads \ {t} : Like(u),
         th'[t].op \in {"none", "exit"} \/ (th'[t].op = th[t].op /\ th'[t].group = th[t].group)
  PROVE  AloneInv'
<1>1. TypeOK /\ AloneInv BY DEF SInv
<1>2. \A u \in Threads \ {t} : th'[u].op = th[u].op /\ th'[u].group = th[u].group BY <1>1, LikeFields
<1> QED BY <1>1, <1>2 DEF AloneInv

LEMMA DrainLooksKeeps ==
  ASSUME SInv, NEW t \in Threads, DrainLooks(t)
  PROVE  SInv'
<1>1. /\ th[t].step = "drain" /\ th[t].todo # <<>> /\ registry = Null /\ registry' = t
      /\ th' = [th EXCEPT ![t].step = "flush", ![t].p = PoolOf(Head(th[t].todo))]
      /\ scenario' = scenario /\ pool' = pool /\ lock' = lock /\ mag' = mag /\ held' = held /\ tls' = tls
  BY DEF DrainLooks
<1>2. TypeOK /\ HandOK(t) /\ CallOK(t) BY DEF SInv
<1>3. th[t].op = "exit" BY <1>1, <1>2, StepOp
<1>4. th \in [Threads -> ThreadRec] /\ th[t] \in ThreadRec /\ th[t].todo \in Seq(Mags) BY <1>2 DEF TypeOK, ThreadRec
<1>5. Head(th[t].todo) \in Mags BY <1>1, <1>4
<1>6. PoolOf(Head(th[t].todo)) \in Nat
  <2>1. mag[Head(th[t].todo)] \in MagRec BY <1>2, <1>5 DEF TypeOK
  <2> QED BY <2>1 DEF MagRec, PoolOf
<1>7. PICK q \in Nat : q = PoolOf(Head(th[t].todo)) BY <1>6
<1> DEFINE r == [th[t] EXCEPT !.step = "flush", !.p = q]
<1>8. th' = [th EXCEPT ![t] = r] BY <1>1, <1>4, <1>7
<1>9. /\ r \in ThreadRec /\ r.op = "exit" /\ r.step = "flush" /\ r.p = q /\ r.todo = th[t].todo /\ r.mag = th[t].mag
      /\ r.old = th[t].old
  BY <1>3, <1>4 DEF ThreadRec, Steps
<1> HIDE DEF r
<1>10. th'[t] = r /\ th' \in [Threads -> ThreadRec] /\ \A u \in Threads \ {t} : th'[u] = th[u] BY <1>4, <1>8, <1>9
<1>11. Pools' = Pools BY <1>1, ScenarioSame
<1>12. TypeOK' BY <1>1, <1>2, <1>10, <1>11 DEF TypeOK, PoolType
<1>13. Still /\ Apart(t) BY <1>1, <1>10 DEF Still, Apart, Like
<1>14. \A u \in Threads \ {t} : Like(u) BY <1>10 DEF Like
<1>15. LockInv' BY <1>1, <1>9, <1>10, <1>12, <1>14, RegistryTaken
<1>16. AloneInv' BY <1>9, <1>10, <1>14, AloneFrame
<1>17. CallOK(t)' BY <1>1, <1>2, <1>3, <1>9, <1>10 DEF CallOK
<1>18. PoolOf(Head(th[t].todo))' = PoolOf(Head(th[t].todo))
  BY <1>1, <1>9, <1>10 DEF PoolOf
<1>19. HandOK(t)'
  <2>1. r.mag = Null /\ Distinct(r.todo) /\ \A m \in Elems(r.todo) : mag[m].mem = "live" BY <1>1, <1>2, <1>3, <1>9 DEF HandOK
  <2>2. Distinct(tls[t].mags) /\ (\A m \in Elems(tls[t].mags) : mag[m].mem = "live")
        /\ (tls[t].cache # Null => tls[t].cache \in Elems(tls[t].mags))
    BY <1>2 DEF HandOK
  <2> QED BY <1>1, <1>7, <1>9, <1>10, <1>18, <2>1, <2>2 DEF HandOK
<1>20. Own(t)' = Own(t) BY <1>1, <1>3, <1>9, <1>10 DEF Own
<1>21. \A x \in held' : HeldOK(x)'
  BY <1>1, <1>9, <1>10, <1>14, HeldKeeps
<1> QED BY <1>1, <1>12, <1>13, <1>15, <1>16, <1>17, <1>19, <1>20, <1>21, StillKeeps

\* A thread that is destroying pools is at one of them.
LEMMA Destroying ==
  ASSUME SInv, NEW t \in Threads, th[t].step \in {"destroy", "unlink", "orphan"}
  PROVE  /\ TypeOK /\ CallOK(t) /\ HandOK(t) /\ th[t].op = "destroy" /\ th[t] \in ThreadRec
         /\ th[t].p \in th[t].group /\ th[t].p \in Pools /\ th[t].p \in Nat /\ pool[th[t].p].mem = "live"
         /\ th[t].group = Group(th[t].p) /\ PoolType(pool[th[t].p]) /\ pool[th[t].p].mags \in Seq(Mags)
         /\ \E q \in Classes : th[t].group = Group(q)
         /\ \A x \in th[t].group : x \in Pools /\ pool[x].mem = IF x < th[t].p THEN "freed" ELSE "live"
         /\ th[t].old = Null /\ th[t].todo = <<>>
<1>1. TypeOK /\ CallOK(t) /\ HandOK(t) /\ th[t] \in ThreadRec BY DEF SInv, TypeOK
<1>2. th[t].op = "destroy" BY <1>1, StepOp
<1>3. PICK q \in Classes : th[t].group = Group(q) BY <1>1, <1>2 DEF CallOK
<1>4. th[t].p \in th[t].group /\ \A x \in th[t].group : pool[x].mem = IF x < th[t].p THEN "freed" ELSE "live"
  BY <1>1, <1>2 DEF CallOK
<1>5. \A x \in th[t].group : x \in Pools /\ Group(x) = th[t].group BY <1>1, <1>3, GroupIs
<1>6. th[t].p \in Pools /\ th[t].p \in Nat BY <1>1, <1>4, <1>5, ScenarioFacts
<1>7. pool[th[t].p].mem = "live" BY <1>4, <1>6
<1>8. PoolType(pool[th[t].p]) BY <1>1, <1>6 DEF TypeOK
<1>9. pool[th[t].p].mags \in Seq(Mags) BY <1>8 DEF PoolType
<1>10. th[t].old = Null /\ th[t].todo = <<>> BY <1>1, <1>2 DEF CallOK, HandOK
<1> QED BY <1>1, <1>2, <1>3, <1>4, <1>5, <1>6, <1>7, <1>8, <1>9, <1>10

LEMMA DestroyLocksKeeps ==
  ASSUME SInv, NEW t \in Threads, DestroyLocks(t)
  PROVE  SInv'
<1>1. /\ th[t].step = "destroy" /\ registry = Null /\ lock[th[t].p] = Null /\ registry' = t
      /\ lock' = [lock EXCEPT ![th[t].p] = t]
      /\ th' = [th EXCEPT ![t].step = "unlink"]
      /\ scenario' = scenario /\ pool' = pool /\ mag' = mag /\ held' = held /\ tls' = tls
  BY DEF DestroyLocks, Goto, Unlocked
<1>2. /\ TypeOK /\ HandOK(t) /\ CallOK(t) /\ th[t] \in ThreadRec /\ th[t].op = "destroy" /\ th[t].p \in Pools
      /\ th[t].old = Null /\ th[t].todo = <<>>
  BY <1>1, Destroying
<1>3. "unlink" \in Steps BY DEF Steps
<1>4. PICK r \in ThreadRec :
        /\ r = [th[t] EXCEPT !.step = "unlink"] /\ r.step = "unlink" /\ r.op = th[t].op /\ r.p = th[t].p /\ r.mag = th[t].mag
        /\ r.old = th[t].old /\ r.todo = th[t].todo /\ r.group = th[t].group
  BY <1>2, <1>3, SetStep
<1>5. th \in [Threads -> ThreadRec] BY <1>2 DEF TypeOK
<1>6. th' = [th EXCEPT ![t] = r] BY <1>1, <1>4
<1>7. th'[t] = r /\ th' \in [Threads -> ThreadRec] /\ \A u \in Threads \ {t} : th'[u] = th[u] BY <1>5, <1>6
<1>8. Pools' = Pools BY <1>1, ScenarioSame
<1>9. TypeOK' BY <1>1, <1>2, <1>7, <1>8 DEF TypeOK, PoolType
<1>10. Still /\ Apart(t) BY <1>1, <1>7 DEF Still, Apart, Like
<1>11. \A u \in Threads \ {t} : Like(u) BY <1>7 DEF Like
<1>12. LockInv' BY <1>1, <1>4, <1>7, <1>9, <1>11, RegistryTaken
<1>13. AloneInv' BY <1>4, <1>7, <1>11, AloneFrame
<1>14. CallOK(t)'
  <2>1. Classes' = Classes /\ \A p : Group(p)' = Group(p) BY <1>1, ScenarioSame
  <2> QED BY <1>1, <1>2, <1>4, <1>7, <2>1 DEF CallOK
<1>15. HandOK(t)' BY <1>1, <1>2, <1>4, <1>7 DEF HandOK
<1>16. Own(t)' = Own(t) BY <1>1, <1>2, <1>4, <1>7 DEF Own
<1>17. \A x \in held' : HeldOK(x)' BY <1>1, <1>2, <1>4, <1>7, <1>11, HeldKeeps
<1> QED BY <1>1, <1>9, <1>10, <1>12, <1>13, <1>14, <1>15, <1>16, <1>17, StillKeeps

LEMMA DestroyKeeps ==
  ASSUME SInv, NEW t \in Threads, NEW p \in Classes, Destroy(t, p)
  PROVE  SInv'
<1> DEFINE r == [Idle EXCEPT !.op = "destroy", !.step = "destroy", !.p = p, !.group = Group(p)]
<1>1. /\ th[t] = Idle /\ \A u \in Threads : ~Calling(u, p)
      /\ p = Min(Group(p)) /\ \A q \in Group(p) : pool[q].mem = "live"
      /\ held' = {x \in held : x.p \notin Group(p)}
      /\ th' = [th EXCEPT ![t] = r]
      /\ scenario' = scenario /\ pool' = pool /\ mag' = mag /\ tls' = tls /\ lock' = lock /\ registry' = registry
  BY DEF Destroy, poolVars
<1>2. TypeOK /\ HandOK(t) /\ CallOK(t) /\ AloneInv BY DEF SInv
<1>3. p \in Pools /\ p \in Nat BY <1>2, ScenarioFacts
<1>4. p \in Group(p) /\ Group(p) \subseteq Pools /\ Group(p) \subseteq Nat
  <2>1. p \in Group(p) /\ Group(p) \subseteq Pools BY <1>3, GroupFacts
  <2>2. Pools \subseteq Nat BY <1>2, ScenarioFacts
  <2> QED BY <2>1, <2>2
<1>5. \A q \in Group(p) : p <= q
  <2>1. CASE ~scenario.ranged BY <1>3, <2>1 DEF Group
  <2>2. CASE scenario.ranged
    <3>1. Group(p) = 1 .. Pseudo /\ Pseudo \in Nat
      <4>1. Pseudo \in Pools /\ Pools \subseteq Nat BY <1>2, ScenarioFacts
      <4> QED BY <2>2, <4>1 DEF Group, Pools
    <3>2. PICK n \in Nat : n = Pseudo BY <3>1
    <3>3. p \in 1 .. n BY <1>4, <3>1, <3>2
    <3>4. 1 \in 1 .. n /\ \A q \in 1 .. n : 1 <= q BY <3>3
    <3>5. \A q \in 1 .. n : (\A x \in 1 .. n : q <= x) => q = 1 BY <3>4
    <3>6. Min(1 .. n) = 1
      <4>1. Min(1 .. n) = CHOOSE q \in 1 .. n : \A x \in 1 .. n : q <= x BY DEF Min
      <4> QED BY <3>4, <3>5, <4>1
    <3>7. p = 1 BY <1>1, <3>1, <3>2, <3>6
    <3> QED BY <3>1, <3>2, <3>4, <3>7
  <2> QED BY <2>1, <2>2
<1>6. r \in ThreadRec /\ r.op = "destroy" /\ r.step = "destroy" /\ r.p = p /\ r.group = Group(p) /\ r.mag = Null /\ r.old = Null /\ r.todo = <<>>
  <2>1. Idle \in ThreadRec /\ Idle.mag = Null /\ Idle.old = Null /\ Idle.todo = <<>> BY IdleFields
  <2>2. "destroy" \in Ops /\ "destroy" \in Steps BY DEF Ops, Steps
  <2>3. r \in ThreadRec BY <1>3, <1>4, <2>1, <2>2 DEF ThreadRec
  <2> QED BY <2>1, <2>3 DEF ThreadRec
<1> HIDE DEF r
<1>7. tls[t] \in ListRec /\ tls' = [tls EXCEPT ![t] = tls[t]] BY <1>1, <1>2 DEF TypeOK
<1>8. held' \subseteq held BY <1>1
<1>9. TypeOK' /\ th'[t] = r /\ OwnStep(t) /\ Still /\ Apart(t)
  <2>1. /\ th' = [th EXCEPT ![t] = r] /\ TypeOK /\ r \in ThreadRec
        /\ scenario' = scenario /\ pool' = pool /\ mag' = mag /\ lock' = lock /\ registry' = registry
    BY <1>1, <1>2, <1>6
  <2>2. PICK l \in ListRec : tls' = [tls EXCEPT ![t] = l] BY <1>7
  <2> QED BY <2>1, <2>2, <1>8, CallTypes
<1>10. \A u \in Threads \ {t} : th'[u] = th[u] /\ Like(u) BY <1>9 DEF OwnStep, Like
<1>11. th[t].op = "none" /\ th[t].step = "none" BY <1>1, IdleFields
<1>12. LocksOwn(t) BY <1>1, <1>6, <1>9, <1>11 DEF LocksOwn, Holding
<1>13. LockInv' BY <1>1, <1>6, <1>9, <1>10, <1>11, <1>12, LocksKeep
<1>14. AloneInv'
  <2>1. \A u \in Threads \ {t} : th[u].op \in {"alloc", "free", "destroy"} => th[u].group # Group(p)
    BY <1>1 DEF Calling
  <2> QED BY <1>2, <1>6, <1>9, <1>10, <2>1 DEF AloneInv
<1>15. CallOK(t)'
  <2>1. Classes' = Classes /\ \A q : Group(q)' = Group(q) BY <1>1, ScenarioSame
  <2>2. \A x \in Group(p) : pool'[x].mem = IF x < p THEN "freed" ELSE "live"
    <3> SUFFICES ASSUME NEW x \in Group(p) PROVE pool'[x].mem = IF x < p THEN "freed" ELSE "live" OBVIOUS
    <3>1. x \in Nat /\ p <= x /\ pool'[x].mem = "live" BY <1>1, <1>4, <1>5
    <3>2. ~(x < p) BY <1>3, <3>1
    <3> QED BY <3>1, <3>2
  <2> QED BY <1>4, <1>6, <1>9, <2>1, <2>2 DEF CallOK
<1>16. HandOK(t)'
  <2>1. Distinct(<<>>) /\ Elems(<<>>) = {} BY DEF Distinct, Elems
  <2> QED BY <1>1, <1>2, <1>6, <1>9, <2>1 DEF HandOK
<1>17. Own(t)' = Own(t) BY <1>1, <1>6, <1>9, <1>11 DEF Own
<1>18. ASSUME NEW x \in held' PROVE HeldOK(x)'
  <2>1. HeldOK(x) /\ x.p \notin Group(p) BY <1>1, <1>18 DEF SInv, HeldOK
  <2>2. Group(x.p) # Group(p)
    <3>1. x.p \in Group(x.p) BY <2>1, GroupFacts DEF HeldOK
    <3> QED BY <2>1, <3>1
  <2>3. Classes' = Classes /\ Pools' = Pools /\ \A q : Group(q)' = Group(q) BY <1>1, ScenarioSame
  <2>4. Serving(x.p)' BY <1>1, <1>6, <1>9, <1>10, <2>1, <2>2, <2>3 DEF HeldOK, Serving, Calling
  <2> QED BY <1>1, <2>1, <2>3, <2>4 DEF HeldOK
<1> QED BY <1>9, <1>11, <1>13, <1>14, <1>15, <1>16, <1>17, <1>18, StillKeeps

\* A step that changes lists and one magazine, seen by another thread.
LEMMA OthersKeep ==
  ASSUME SInv, NEW t \in Threads, scenario' = scenario, Apart(t),
         \A x \in Pools : pool'[x].mem = pool[x].mem \/ (th[t].op = "destroy" /\ th[t].group = Group(x)),
         \A x \in Pools : pool'[x].mags = pool[x].mags \/ lock[x] \in {Null, t},
         NEW m, \A n \in Mags \ {m} : mag'[n].mem = mag[n].mem /\ mag'[n].pool = mag[n].pool,
         NEW u \in Threads \ {t},
         \/ m \notin Own(u) /\ ~(th[u].step = "orphan" /\ th[u].mag = m)
         \/ /\ mag'[m].mem = mag[m].mem /\ th[u].step \notin {"flush", "orphan"}
            /\ mag'[m].pool = mag[m].pool \/ th[u].step \notin {"pop", "push"} \/ th[u].mag # m
  PROVE  CallOK(u)' /\ HandOK(u)' /\ Own(u)' = Own(u)
<1>1. TypeOK /\ CallOK(u) /\ HandOK(u) /\ LockInv /\ AloneInv BY DEF SInv
<1>2. Like(u) /\ tls'[u] = tls[u] BY DEF Apart
<1>3. th[u] \in ThreadRec /\ Own(u) \subseteq Mags /\ th[u].todo \in Seq(Mags) BY <1>1, OwnType
<1>4. CallOK(u)'
  <2>1. ASSUME th[u].op \in {"alloc", "free", "destroy"}, NEW x \in th[u].group PROVE pool'[x].mem = pool[x].mem
    <3>1. PICK q \in Classes : th[u].group = Group(q) BY <1>1, <2>1 DEF CallOK, Called
    <3>2. x \in Pools /\ Group(x) = th[u].group BY <1>1, <3>1, <2>1, GroupIs
    <3>3. th[t].op = "destroy" => th[t].group # th[u].group BY <1>1, <2>1 DEF AloneInv
    <3> QED BY <3>2, <3>3
  <2> QED BY <1>2, <2>1, CallFrame
<1>5. \A n \in Own(u) : mag'[n].mem = mag[n].mem BY <1>3
<1>6. th[u].step \in {"pop", "push"} => th[u].mag \in Mags /\ th[u].mag \in Own(u)
  <2> SUFFICES ASSUME th[u].step \in {"pop", "push"} PROVE th[u].mag \in Mags /\ th[u].mag \in Own(u) OBVIOUS
  <2>1. th[u].op \in {"alloc", "free"} BY <1>1, StepOp DEF AllocSteps, FreeSteps
  <2>2. th[u].mag \in Elems(tls[u].mags) BY <1>1, <2>1 DEF HandOK
  <2> QED BY <1>3, <2>2 DEF Own
<1>7. th[u].step = "flush" => Head(th[u].todo) \in Mags /\ Head(th[u].todo) \in Own(u)
  <2> SUFFICES ASSUME th[u].step = "flush" PROVE Head(th[u].todo) \in Mags /\ Head(th[u].todo) \in Own(u) OBVIOUS
  <2>1. th[u].op = "exit" BY <1>1, StepOp
  <2>2. th[u].todo # <<>> /\ Distinct(th[u].todo) BY <1>1 DEF HandOK
  <2>3. Head(th[u].todo) \in Mags /\ Head(th[u].todo) \in Elems(th[u].todo) BY <1>3, <2>2, TailElems
  <2> QED BY <2>1, <2>3 DEF Own
<1>8. th[u].step = "orphan" => th[u].mag \in Mags
  <2>1. th[u].mag \in Mags \cup {Null} BY <1>3 DEF ThreadRec
  <2> QED BY <2>1, <1>1 DEF HandOK
<1>9. th[u].step \in {"count", "orphan"} => pool'[th[u].p].mags = pool[th[u].p].mags
  <2> SUFFICES ASSUME th[u].step \in {"count", "orphan"} PROVE pool'[th[u].p].mags = pool[th[u].p].mags OBVIOUS
  <2>1. th[u].p \in Pools BY Counting, Destroying
  <2>2. lock[th[u].p] = u BY <1>1, <2>1 DEF LockInv, Holding
  <2>3. u # Null BY NullFacts
  <2> QED BY <2>1, <2>2, <2>3
<1>10. /\ th[u].step \in {"pop", "push"} => mag'[th[u].mag].pool = mag[th[u].mag].pool
       /\ th[u].step = "flush" => mag'[Head(th[u].todo)].pool = mag[Head(th[u].todo)].pool
       /\ th[u].step = "orphan" => /\ mag'[th[u].mag].mem = mag[th[u].mag].mem
                                   /\ mag'[th[u].mag].pool = mag[th[u].mag].pool
  BY <1>6, <1>7, <1>8
<1> QED BY <1>2, <1>4, <1>5, <1>9, <1>10, HandFrame

\* And by a pool whose list it leaves.
LEMMA PoolFrame ==
  ASSUME SInv, scenario' = scenario, NEW q \in Pools, pool'[q].mem = pool[q].mem, pool'[q].mags = pool[q].mags,
         NEW m, \A n \in Mags \ {m} : mag'[n].mem = mag[n].mem /\ mag'[n].pool = mag[n].pool,
         \/ mag'[m].mem = mag[m].mem /\ mag'[m].pool = mag[m].pool
         \/ ~(mag[m].mem = "live" /\ mag[m].pool = q) /\ ~(mag'[m].mem = "live" /\ mag'[m].pool = q),
         \A u \in Threads : th[u].step = "orphan" /\ mag[th[u].mag].pool = q => th'[u].step = "orphan" /\ th'[u].mag = th[u].mag
  PROVE  PoolAt(q)'
<1>1. TypeOK /\ PoolAt(q) BY DEF SInv, PoolInv
<1>2. Classes' = Classes /\ Count(q)' = Count(q) /\ \A n : Magazines(n)' = Magazines(n) BY ScenarioSame
<1>3. Elems(pool[q].mags) \subseteq Mags
  <2>1. pool[q].mags \in Seq(Mags) BY <1>1 DEF TypeOK, PoolType
  <2> QED BY <2>1, ElementOfSeq DEF Elems
<1>4. \A n \in Mags : mag'[n].mem = "live" /\ mag'[n].pool = q <=> mag[n].mem = "live" /\ mag[n].pool = q OBVIOUS
<1>5. \A n \in Elems(pool[q].mags) : mag'[n].mem = "live" /\ mag'[n].pool = q BY <1>1, <1>3, <1>4 DEF PoolAt
<1>6. \A n \in Mags : mag'[n].mem = "live" /\ mag'[n].pool = q =>
             n \in Elems(pool[q].mags) \/ \E u \in Threads : th'[u].step = "orphan" /\ th'[u].mag = n
  BY <1>1, <1>4 DEF PoolAt
<1> QED BY <1>1, <1>2, <1>5, <1>6 DEF PoolAt

LEMMA ListsKeep ==
  ASSUME SInv, NEW t \in Threads, TypeOK', scenario' = scenario, LockInv', AloneInv', CallOK(t)', HandOK(t)',
         \A u \in Threads \ {t} : CallOK(u)' /\ HandOK(u)' /\ Own(u)' = Own(u) /\ Own(t)' \cap Own(u) = {},
         \A p \in Pools : PoolAt(p)',
         \A m \in Mags : mag'[m].mem = "live" => mag'[m].pool \in Classes \cup {Null},
         \A x \in held' : HeldOK(x)'
  PROVE  SInv'
<1>1. Pools' = Pools /\ Classes' = Classes BY ScenarioSame
<1>2. OwnInv BY DEF SInv
<1>3. \A u \in Threads : CallOK(u)' /\ HandOK(u)' OBVIOUS
<1>4. OwnInv' BY <1>2 DEF OwnInv
<1>5. PoolInv' BY <1>1 DEF PoolInv
<1> QED BY <1>1, <1>3, <1>4, <1>5 DEF SInv, HeldOK

\* Linking a magazine to a pool, or unlinking it.
Links(p, s) == pool' = [pool EXCEPT ![p].mags = s]
LEMMA ListChanges ==
  ASSUME TypeOK, scenario' = scenario, NEW p \in Pools, NEW s \in Seq(Mags), Links(p, s)
  PROVE  /\ DOMAIN pool' = Pools' /\ \A q \in Pools' : PoolType(pool'[q])
         /\ \A q \in Pools \ {p} : pool'[q] = pool[q]
         /\ \A q \in Pools : pool'[q].mem = pool[q].mem /\ pool'[q].free = pool[q].free /\ pool'[q].taken = pool[q].taken
         /\ pool'[p].mags = s
<1>1. DOMAIN pool = Pools /\ PoolType(pool[p]) /\ \A q \in Pools : PoolType(pool[q]) BY DEF TypeOK
<1>2. Pools' = Pools BY ScenarioSame
<1>3. pool'[p] = [pool[p] EXCEPT !.mags = s] /\ DOMAIN pool' = Pools /\ \A q \in Pools \ {p} : pool'[q] = pool[q]
  BY <1>1 DEF Links
<1> DEFINE r == pool[p]
<1>4. r = [mem |-> r.mem, free |-> r.free, taken |-> r.taken, mags |-> r.mags, table |-> r.table, dynamic |-> r.dynamic]
  BY <1>1 DEF PoolType
<1>5. pool'[p] = [mem |-> r.mem, free |-> r.free, taken |-> r.taken, mags |-> s, table |-> r.table, dynamic |-> r.dynamic]
  <2> HIDE DEF r
  <2>1. pool'[p] = [r EXCEPT !.mags = s] BY <1>3 DEF r
  <2> QED BY <1>4, <2>1
<1>6. PoolType(pool'[p]) BY <1>1, <1>5 DEF PoolType
<1> QED BY <1>1, <1>2, <1>3, <1>5, <1>6

\* What a new magazine changes.
NewMagazine(t, p, m, s) ==
  /\ Unlocked(p) /\ Len(pool[p].mags) < Magazines(Count(p)) /\ mag[m].mem = "none"
  /\ mag' = [mag EXCEPT ![m] = [mem |-> "live", pool |-> p, slots |-> <<>>]]
  /\ Links(p, <<m>> \o pool[p].mags)
  /\ tls' = [tls EXCEPT ![t].mags = <<m>> \o @, ![t].cache = m]
  /\ th' = [th EXCEPT ![t].step = s, ![t].mag = m]
  /\ scenario' = scenario /\ lock' = lock /\ registry' = registry /\ held' = held

\* A magazine for the pool, or none.
LEMMA CreateCases ==
  ASSUME SInv, NEW t \in Threads, AllocCreates(t) \/ FreeCreates(t)
  PROVE  /\ th[t].step \in {"create", "freeCreate"}
         /\ th[t].op = IF th[t].step = "create" THEN "alloc" ELSE "free"
         /\ \/ /\ Goto(t, IF th[t].step = "create" THEN "serve" ELSE "lockedFree")
               /\ scenario' = scenario /\ pool' = pool /\ mag' = mag /\ lock' = lock /\ registry' = registry
               /\ held' = held /\ tls' = tls
            \/ \E m \in Mags : NewMagazine(t, th[t].p, m, IF th[t].step = "create" THEN "pop" ELSE "push")
<1>1. TypeOK /\ CallOK(t) BY DEF SInv
<1>2. th[t].step \in {"create", "freeCreate"} BY DEF AllocCreates, FreeCreates
<1>3. th[t].op = IF th[t].step = "create" THEN "alloc" ELSE "free" BY <1>1, <1>2, StepOp DEF AllocSteps, FreeSteps
<1>4. th[t].p \in Pools BY <1>1, <1>2, AtClass DEF AllocSteps, FreeSteps
<1>5. ASSUME NEW next, NEW none, Create(t, next, none),
             scenario' = scenario, lock' = lock, registry' = registry, held' = held
      PROVE  \/ Goto(t, none) /\ pool' = pool /\ mag' = mag /\ tls' = tls
             \/ \E m \in Mags : NewMagazine(t, th[t].p, m, next)
  <2>1. CASE Goto(t, none) /\ pool' = pool /\ mag' = mag /\ tls' = tls BY <2>1
  <2>2. ASSUME ~(Goto(t, none) /\ pool' = pool /\ mag' = mag /\ tls' = tls)
        PROVE  \E m \in Mags : NewMagazine(t, th[t].p, m, next)
    <3> DEFINE m == CHOOSE x \in Mags : mag[x].mem = "none"
    <3>1. /\ Unlocked(th[t].p) /\ Len(pool[th[t].p].mags) < Magazines(Count(th[t].p))
          /\ \E x \in Mags : mag[x].mem = "none"
          /\ mag' = [mag EXCEPT ![m] = [mem |-> "live", pool |-> th[t].p, slots |-> <<>>]]
          /\ pool' = [pool EXCEPT ![th[t].p].mags = <<m>> \o @]
          /\ tls' = [tls EXCEPT ![t].mags = <<m>> \o @, ![t].cache = m]
          /\ th' = [th EXCEPT ![t].step = next, ![t].mag = m]
      BY <1>5, <2>2 DEF Create
    <3>2. m \in Mags /\ mag[m].mem = "none" BY <3>1
    <3> HIDE DEF m
    <3>3. Links(th[t].p, <<m>> \o pool[th[t].p].mags)
      <4>1. DOMAIN pool = Pools BY <1>1 DEF TypeOK
      <4> QED BY <1>4, <3>1, <4>1 DEF Links
    <3> QED BY <1>5, <3>1, <3>2, <3>3 DEF NewMagazine
  <2> QED BY <2>1, <2>2
<1>6. scenario' = scenario /\ lock' = lock /\ registry' = registry /\ held' = held BY DEF AllocCreates, FreeCreates
<1>7. \/ th[t].step = "create" /\ Create(t, "pop", "serve")
      \/ th[t].step = "freeCreate" /\ Create(t, "push", "lockedFree")
  BY DEF AllocCreates, FreeCreates
<1>8. CASE th[t].step = "create" /\ Create(t, "pop", "serve") BY <1>2, <1>3, <1>5, <1>6, <1>8
<1>9. CASE th[t].step = "freeCreate" /\ Create(t, "push", "lockedFree") BY <1>2, <1>3, <1>5, <1>6, <1>9
<1> QED BY <1>7, <1>8, <1>9

LEMMA NewMagazineDoes ==
  ASSUME SInv, NEW t \in Threads, NEW m \in Mags, th[t].step \in {"create", "freeCreate"},
         NEW s, s = (IF th[t].step = "create" THEN "pop" ELSE "push"), NewMagazine(t, th[t].p, m, s)
  PROVE  LET p == th[t].p
         IN  /\ p \in Classes /\ p \in Pools /\ lock[p] = Null /\ mag[m].mem = "none"
             /\ TypeOK' /\ Apart(t) /\ \A u \in Threads \ {t} : Like(u)
             /\ mag'[m] = [mem |-> "live", pool |-> p, slots |-> <<>>] /\ \A n \in Mags \ {m} : mag'[n] = mag[n]
             /\ pool'[p].mags = <<m>> \o pool[p].mags /\ Len(pool[p].mags) < Magazines(Count(p))
             /\ \A q \in Pools \ {p} : pool'[q] = pool[q]
             /\ \A q \in Pools : pool'[q].mem = pool[q].mem /\ pool'[q].free = pool[q].free /\ pool'[q].taken = pool[q].taken
             /\ tls'[t].mags = <<m>> \o tls[t].mags /\ tls'[t].cache = m /\ tls'[t].gone = tls[t].gone
             /\ th'[t].op = th[t].op /\ th'[t].step = s /\ th'[t].mag = m
             /\ th'[t].p = p /\ th'[t].old = th[t].old /\ th'[t].group = th[t].group /\ th'[t].todo = th[t].todo
<1>1. TypeOK /\ CallOK(t) BY DEF SInv
<1>2. th[t].p \in Classes /\ th[t].p \in Pools BY <1>1, AtClass DEF AllocSteps, FreeSteps
<1>3. PICK p \in Pools : p = th[t].p /\ p \in Classes BY <1>2
<1>4. p \in Nat /\ PoolType(pool[p]) /\ pool[p].mags \in Seq(Mags)
  <2>1. p \in Nat BY <1>1, <1>3, ScenarioFacts
  <2> QED BY <1>1, <2>1 DEF TypeOK, PoolType
<1>5. th \in [Threads -> ThreadRec] /\ th[t] \in ThreadRec /\ tls \in [Threads -> ListRec] /\ tls[t] \in ListRec
      /\ mag \in [Mags -> MagRec] /\ tls[t].mags \in Seq(Mags)
  BY <1>1 DEF TypeOK, ListRec
<1>6. mag'[m] = [mem |-> "live", pool |-> p, slots |-> <<>>] /\ (\A n \in Mags \ {m} : mag'[n] = mag[n]) /\ mag' \in [Mags -> MagRec]
  <2>1. [mem |-> "live", pool |-> p, slots |-> <<>>] \in MagRec
    <3>1. <<>> \in Seq(Nat) OBVIOUS
    <3> QED BY <1>4, <3>1 DEF MagRec
  <2>2. mag' = [mag EXCEPT ![m] = [mem |-> "live", pool |-> p, slots |-> <<>>]] BY <1>3 DEF NewMagazine
  <2> QED BY <1>5, <2>1, <2>2
<1>7. PICK c \in Seq(Mags) : c = <<m>> \o pool[p].mags BY <1>4, PushElems
<1>8. /\ DOMAIN pool' = Pools' /\ \A q \in Pools' : PoolType(pool'[q])
      /\ \A q \in Pools \ {p} : pool'[q] = pool[q]
      /\ \A q \in Pools : pool'[q].mem = pool[q].mem /\ pool'[q].free = pool[q].free /\ pool'[q].taken = pool[q].taken
      /\ pool'[p].mags = c
  BY <1>1, <1>3, <1>7, ListChanges DEF NewMagazine
<1>9. PICK d \in Seq(Mags) : d = <<m>> \o tls[t].mags BY <1>5, PushElems
<1>10. tls' = [tls EXCEPT ![t] = [tls[t] EXCEPT !.mags = d, !.cache = m]] BY <1>5, <1>9 DEF NewMagazine
<1>11. tls'[t] = [tls[t] EXCEPT !.mags = d, !.cache = m] /\ (\A u \in Threads \ {t} : tls'[u] = tls[u])
       /\ tls'[t].mags = d /\ tls'[t].cache = m /\ tls'[t].gone = tls[t].gone /\ tls' \in [Threads -> ListRec]
  BY <1>5, <1>9, <1>10 DEF ListRec
<1>12. th' = [th EXCEPT ![t] = [th[t] EXCEPT !.step = s, !.mag = m]] BY <1>5 DEF NewMagazine
<1>13. s \in Steps BY DEF Steps
<1>14. /\ th' \in [Threads -> ThreadRec] /\ \A u \in Threads \ {t} : th'[u] = th[u]
       /\ th'[t].op = th[t].op /\ th'[t].step = s /\ th'[t].mag = m
       /\ th'[t].p = p /\ th'[t].old = th[t].old /\ th'[t].group = th[t].group /\ th'[t].todo = th[t].todo
  BY <1>3, <1>5, <1>12, <1>13 DEF ThreadRec
<1>15. scenario' = scenario /\ lock' = lock /\ registry' = registry /\ held' = held /\ lock[p] = Null /\ mag[m].mem = "none"
       /\ Len(pool[p].mags) < Magazines(Count(p))
  BY <1>3 DEF NewMagazine, Unlocked
<1>16. TypeOK'
  <2>1. Pools' = Pools BY <1>15, ScenarioSame
  <2>2. scenario' \in Scenarios /\ held' \subseteq EntryRec /\ lock' \in [Pools' -> Threads \cup {Null}] /\ registry' \in Threads \cup {Null}
    BY <1>1, <1>15, <2>1 DEF TypeOK
  <2>3. DOMAIN pool' = Pools' /\ \A q \in Pools' : PoolType(pool'[q]) BY <1>8
  <2>4. mag' \in [Mags -> MagRec] /\ tls' \in [Threads -> ListRec] /\ th' \in [Threads -> ThreadRec] BY <1>6, <1>11, <1>14
  <2> QED BY <2>2, <2>3, <2>4 DEF TypeOK
<1>17. Apart(t) /\ \A u \in Threads \ {t} : Like(u) BY <1>11, <1>14 DEF Apart, Like
<1> QED BY <1>3, <1>6, <1>7, <1>8, <1>9, <1>11, <1>14, <1>15, <1>16, <1>17

LEMMA NewMagazineKeeps ==
  ASSUME SInv, NEW t \in Threads, NEW m \in Mags, th[t].step \in {"create", "freeCreate"},
         NEW s, s = (IF th[t].step = "create" THEN "pop" ELSE "push"), NewMagazine(t, th[t].p, m, s)
  PROVE  SInv'
<1>1. PICK p \in Pools : p = th[t].p
  <2>1. TypeOK /\ CallOK(t) BY DEF SInv
  <2> QED BY <2>1, AtClass DEF AllocSteps, FreeSteps
<1>2. /\ p \in Classes /\ lock[p] = Null /\ mag[m].mem = "none"
      /\ TypeOK' /\ Apart(t) /\ \A u \in Threads \ {t} : Like(u)
      /\ mag'[m] = [mem |-> "live", pool |-> p, slots |-> <<>>] /\ \A n \in Mags \ {m} : mag'[n] = mag[n]
      /\ pool'[p].mags = <<m>> \o pool[p].mags /\ Len(pool[p].mags) < Magazines(Count(p))
      /\ \A q \in Pools \ {p} : pool'[q] = pool[q]
      /\ \A q \in Pools : pool'[q].mem = pool[q].mem
      /\ tls'[t].mags = <<m>> \o tls[t].mags /\ tls'[t].cache = m /\ tls'[t].gone = tls[t].gone
      /\ th'[t].op = th[t].op /\ th'[t].step = s /\ th'[t].mag = m
      /\ th'[t].p = p /\ th'[t].old = th[t].old /\ th'[t].group = th[t].group /\ th'[t].todo = th[t].todo
  BY <1>1, NewMagazineDoes
<1>3. scenario' = scenario /\ lock' = lock /\ registry' = registry /\ held' = held BY DEF NewMagazine
<1>4. TypeOK /\ CallOK(t) /\ HandOK(t) /\ OwnInv /\ PoolAt(p) /\ LockInv BY DEF SInv, PoolInv
<1>5. th[t].op = (IF th[t].step = "create" THEN "alloc" ELSE "free") BY <1>4, StepOp DEF AllocSteps, FreeSteps
<1>6. mag'[m].mem = "live" /\ mag'[m].pool = p BY <1>2
<1>7. \A n \in Mags \ {m} : mag'[n].mem = mag[n].mem /\ mag'[n].pool = mag[n].pool BY <1>2
<1>8. \A u \in Threads : m \notin Own(u) /\ ~(th[u].step = "orphan" /\ th[u].mag = m)
  <2> TAKE u \in Threads
  <2>1. HandOK(u) BY DEF SInv
  <2> QED BY <1>2, <2>1 DEF HandOK, Own
<1>9. \A u \in Threads \ {t} : CallOK(u)' /\ HandOK(u)' /\ Own(u)' = Own(u)
  <2> TAKE u \in Threads \ {t}
  <2>1. \A x \in Pools : pool'[x].mem = pool[x].mem BY <1>2
  <2>2. \A x \in Pools : pool'[x].mags = pool[x].mags \/ lock[x] \in {Null, t} BY <1>2
  <2>3. m \notin Own(u) /\ ~(th[u].step = "orphan" /\ th[u].mag = m) BY <1>8
  <2> QED BY <1>2, <1>3, <1>7, <2>1, <2>2, <2>3, OthersKeep
<1>10. tls[t].mags \in Seq(Mags) /\ pool[p].mags \in Seq(Mags) BY <1>4, OwnType DEF TypeOK, PoolType
<1>11. m \notin Elems(tls[t].mags) /\ m \notin Elems(pool[p].mags)
  BY <1>2, <1>4 DEF HandOK, PoolAt
<1>12. /\ Elems(tls'[t].mags) = Elems(tls[t].mags) \cup {m} /\ Distinct(tls'[t].mags)
       /\ Elems(pool'[p].mags) = Elems(pool[p].mags) \cup {m} /\ Distinct(pool'[p].mags)
       /\ Len(pool'[p].mags) = Len(pool[p].mags) + 1
  BY <1>2, <1>4, <1>10, <1>11, PushElems DEF HandOK, PoolAt
<1>13. \A u \in Threads \ {t} : Own(t)' \cap Own(u) = {}
  <2>1. Own(t)' = Own(t) \cup {m} BY <1>2, <1>5, <1>12 DEF Own
  <2> QED BY <1>4, <1>8, <2>1 DEF OwnInv
<1>14. th[t].todo = <<>> BY <1>4 DEF HandOK
<1>15. CallOK(t)'
  <2>1. Classes' = Classes /\ Pseudo' = Pseudo /\ \A q : Group(q)' = Group(q) BY <1>3, ScenarioSame
  <2>2. Called(t)'
    <3>1. PICK q \in Classes : th[t].group = Group(q) /\ \A x \in th[t].group : pool[x].mem = "live"
      BY <1>4, <1>5 DEF CallOK, Called
    <3>2. \A x \in th[t].group : x \in Pools BY <1>4, <3>1, GroupIs
    <3>3. \A x \in th[t].group : pool'[x].mem = "live" BY <1>2, <3>1, <3>2
    <3> QED BY <1>2, <2>1, <3>1, <3>3 DEF Called
  <2>3. s \in (IF th[t].op = "alloc" THEN AllocSteps ELSE FreeSteps \ {"free", "ask"}) BY <1>5 DEF AllocSteps, FreeSteps
  <2>4. th[t].p \in th[t].group BY <1>4, AtClass DEF AllocSteps, FreeSteps
  <2>5. th[t].op = "free" => th[t].old # Null /\ p = th[t].old.p /\ th[t].old.kind = "block" BY <1>1, <1>4, <1>5 DEF CallOK
  <2>6. th[t].op = "alloc" /\ th[t].old # Null => scenario.ranged BY <1>4 DEF CallOK
  <2>7. th[t].old # Null => th[t].old.p \in th[t].group /\ (th[t].old.kind = "block" => th[t].old.p \in Classes)
    BY <1>4 DEF CallOK
  <2> QED BY <1>1, <1>2, <1>3, <1>5, <2>1, <2>2, <2>3, <2>4, <2>5, <2>6, <2>7 DEF CallOK
<1>16. HandOK(t)'
  <2>1. \A n \in Elems(tls[t].mags) : mag'[n].mem = "live"
    <3>1. Elems(tls[t].mags) \subseteq Mags BY <1>4, OwnType
    <3> QED BY <1>4, <1>7, <1>11, <3>1 DEF HandOK
  <2>2. Distinct(<<>>) BY DEF Distinct
  <2>3. m # Null BY NullFacts
  <2>4. s \in {"pop", "push"} OBVIOUS
  <2> QED BY <1>2, <1>5, <1>6, <1>12, <1>14, <2>1, <2>2, <2>3, <2>4 DEF HandOK
<1>17. \A q \in Pools : PoolAt(q)'
  <2> TAKE q \in Pools
  <2>1. CASE q # p
    <3>1. \A u \in Threads : th[u].step = "orphan" /\ mag[th[u].mag].pool = q => th'[u].step = "orphan" /\ th'[u].mag = th[u].mag
      BY <1>2, <1>4, LikeFields
    <3>2. pool'[q].mem = pool[q].mem /\ pool'[q].mags = pool[q].mags BY <1>2, <2>1
    <3>3. ~(mag[m].mem = "live" /\ mag[m].pool = q) /\ ~(mag'[m].mem = "live" /\ mag'[m].pool = q) BY <1>2, <1>6, <2>1
    <3> QED BY <1>3, <1>7, <3>1, <3>2, <3>3, PoolFrame
  <2>2. CASE q = p
    <3>1. Magazines(Count(p))' = Magazines(Count(p)) /\ Classes' = Classes
      <4>1. Count(p)' = Count(p) /\ \A n : Magazines(n)' = Magazines(n) BY <1>3, ScenarioSame
      <4> QED BY <1>3, <4>1, ScenarioSame
    <3>2. pool'[p].mem # "freed"
      <4>1. p \in th[t].group /\ th[t].op \in {"alloc", "free"} BY <1>1, <1>4, <1>5, AtClass DEF AllocSteps, FreeSteps
      <4>2. pool[p].mem = "live" BY <4>1, CallServes
      <4> QED BY <1>2, <4>2
    <3>3. \A n \in Elems(pool[p].mags) : mag'[n].mem = "live" /\ mag'[n].pool = p
      <4>1. \A n \in Elems(pool[p].mags) : n \in Mags BY <1>10, ElementOfSeq DEF Elems
      <4> QED BY <1>4, <1>7, <1>11, <4>1 DEF PoolAt
    <3>4. ASSUME NEW n \in Mags, mag'[n].mem = "live", mag'[n].pool = p
          PROVE  n \in Elems(pool'[p].mags) \/ \E u \in Threads : th'[u].step = "orphan" /\ th'[u].mag = n
      <4>1. CASE n = m BY <1>12, <4>1
      <4>2. CASE n # m
        <5>1. n \in Elems(pool[p].mags) \/ \E u \in Threads : th[u].step = "orphan" /\ th[u].mag = n
          BY <1>4, <1>7, <3>4, <4>2 DEF PoolAt
        <5>2. \A u \in Threads : th[u].step = "orphan" => th'[u].step = "orphan" /\ th'[u].mag = th[u].mag
          BY <1>2, <1>4, LikeFields
        <5> QED BY <1>12, <5>1, <5>2
      <4> QED BY <4>1, <4>2
    <3>5. Len(pool'[p].mags) <= Magazines(Count(p))
      <4>1. Len(pool[p].mags) \in Nat BY <1>10
      <4>2. Magazines(Count(p)) \in Nat BY <1>2, <1>4, ScenarioFacts, Geometry
      <4> QED BY <1>2, <1>12, <4>1, <4>2
    <3> QED BY <1>3, <1>6, <1>12, <2>2, <3>1, <3>2, <3>3, <3>4, <3>5 DEF PoolAt
  <2> QED BY <2>1, <2>2
<1>18. LockInv'
  <2>1. LocksOwn(t) BY <1>2, <1>3 DEF LocksOwn, Holding
  <2> QED BY <1>2, <1>3, <2>1, LocksKeep
<1>19. AloneInv' BY <1>2, AloneFrame
<1>20. \A n \in Mags : mag'[n].mem = "live" => mag'[n].pool \in Classes \cup {Null}
  BY <1>2, <1>6, <1>7 DEF SInv
<1>21. \A x \in held' : HeldOK(x)'
  <2>1. \A q \in Pools : pool[q].mem = "live" /\ Serving(q) => pool'[q].mem = "live" BY <1>2
  <2> QED BY <1>2, <1>3, <2>1, HeldKeeps
<1> QED BY <1>2, <1>3, <1>9, <1>13, <1>15, <1>16, <1>17, <1>18, <1>19, <1>20, <1>21, ListsKeep

LEMMA CreatesKeep ==
  ASSUME SInv, NEW t \in Threads, AllocCreates(t) \/ FreeCreates(t)
  PROVE  SInv'
<1>1. TypeOK /\ CallOK(t) /\ HandOK(t) BY DEF SInv
<1>2. th[t].step \in {"create", "freeCreate"} /\ th[t].op = IF th[t].step = "create" THEN "alloc" ELSE "free"
  BY CreateCases
<1> DEFINE s == IF th[t].step = "create" THEN "serve" ELSE "lockedFree"
<1>3. CASE /\ Goto(t, s)
           /\ scenario' = scenario /\ pool' = pool /\ mag' = mag /\ lock' = lock /\ registry' = registry
           /\ held' = held /\ tls' = tls
  <2>1. /\ th[t].p \in Classes /\ th[t].p \in th[t].group
        /\ th[t].op = "alloc" => s \in AllocSteps
        /\ th[t].op = "free" => s \in FreeSteps \ {"ask"} /\ th[t].old.kind = "block" /\ th[t].p = th[t].old.p
    BY <1>1, <1>2, AtClass DEF AllocSteps, FreeSteps, CallOK
  <2>2. PICK m \in Mags \cup {Null} : m = th[t].mag BY <1>1, SameRec
  <2>3. th' = [th EXCEPT ![t] = [th[t] EXCEPT !.step = s, !.mag = m]]
    <3>1. th \in [Threads -> ThreadRec] /\ th[t] \in ThreadRec BY <1>1 DEF TypeOK
    <3>2. PICK z : z = s OBVIOUS
    <3> HIDE DEF s
    <3>3. [th[t] EXCEPT !.step = z] = [th[t] EXCEPT !.step = z, !.mag = m] BY <2>2, <3>1 DEF ThreadRec
    <3>4. th' = [th EXCEPT ![t] = [th[t] EXCEPT !.step = z]] BY <1>3, <3>1, <3>2 DEF Goto
    <3> QED BY <3>2, <3>3, <3>4
  <2>4. s \in Steps \ {"count"} /\ s \notin {"find", "freeFind", "pop", "push"} BY DEF Steps
  <2>5. m # Null => m \in Elems(tls[t].mags) BY <1>1, <1>2, <2>2 DEF HandOK
  <2>6. th[t].step # "count" /\ th[t].op \in {"alloc", "free"} BY <1>2
  <2> HIDE DEF s
  <2> QED BY <1>3, <2>1, <2>3, <2>4, <2>5, <2>6, MovesTo
<1>4. CASE \E m \in Mags : NewMagazine(t, th[t].p, m, IF th[t].step = "create" THEN "pop" ELSE "push")
  BY <1>2, <1>4, NewMagazineKeeps
<1> QED BY <1>3, <1>4, CreateCases

\* What freeing a magazine changes.
Frees(m) == mag' = [mag EXCEPT ![m].mem = "freed"]
LEMMA FreesDoes ==
  ASSUME TypeOK, NEW m \in Mags, Frees(m)
  PROVE  /\ mag' \in [Mags -> MagRec] /\ mag'[m].mem = "freed" /\ mag'[m].pool = mag[m].pool /\ mag'[m].slots = mag[m].slots
         /\ \A n \in Mags \ {m} : mag'[n] = mag[n]
<1>1. mag \in [Mags -> MagRec] /\ mag[m] \in MagRec BY DEF TypeOK
<1>2. mag' = [mag EXCEPT ![m] = [mag[m] EXCEPT !.mem = "freed"]] BY DEF Frees
<1> QED BY <1>1, <1>2 DEF MagRec

LEMMA ReapKeeps ==
  ASSUME SInv, NEW t \in Threads, Reap(t)
  PROVE  SInv'
<1>1. TypeOK /\ CallOK(t) /\ HandOK(t) /\ OwnInv /\ LockInv /\ PoolInv BY DEF SInv
<1>2. tls[t].mags \in Seq(Mags) /\ tls \in [Threads -> ListRec] /\ tls[t] \in ListRec BY <1>1, OwnType DEF TypeOK
<1>3. PICK j \in DOMAIN tls[t].mags : \E m \in {tls[t].mags[j]} :
        /\ th[t].step \in {"find", "freeFind"} /\ mag[m].pool = Null /\ Frees(m)
        /\ tls' = [tls EXCEPT ![t].mags = RemoveFirst(@, m), ![t].cache = IF @ = m THEN Null ELSE @]
        /\ scenario' = scenario /\ pool' = pool /\ lock' = lock /\ registry' = registry /\ held' = held /\ th' = th
  BY DEF Reap, Frees, poolVars
<1>31. PICK m \in {tls[t].mags[j]} :
        /\ th[t].step \in {"find", "freeFind"} /\ mag[m].pool = Null /\ Frees(m)
        /\ tls' = [tls EXCEPT ![t].mags = RemoveFirst(@, m), ![t].cache = IF @ = m THEN Null ELSE @]
        /\ scenario' = scenario /\ pool' = pool /\ lock' = lock /\ registry' = registry /\ held' = held /\ th' = th
  BY <1>3
<1>4. m \in Elems(tls[t].mags) /\ m \in Mags BY <1>2, <1>3, <1>31, ElementOfSeq DEF Elems
<1>5. th[t].op = (IF th[t].step = "find" THEN "alloc" ELSE "free") BY <1>1, <1>31, StepOp DEF AllocSteps, FreeSteps
<1>6. /\ mag' \in [Mags -> MagRec] /\ mag'[m].mem = "freed" /\ mag'[m].pool = Null
      /\ \A n \in Mags \ {m} : mag'[n].mem = mag[n].mem /\ mag'[n].pool = mag[n].pool
  BY <1>1, <1>31, <1>4, FreesDoes
<1>7. PICK s \in Seq(Mags) : /\ s = RemoveFirst(tls[t].mags, m) /\ Distinct(s) /\ Elems(s) = Elems(tls[t].mags) \ {m}
  BY <1>1, <1>2, <1>4, RemoveFirstElems DEF HandOK
<1>8. PICK c \in Mags \cup {Null} : c = (IF tls[t].cache = m THEN Null ELSE tls[t].cache) BY <1>2 DEF ListRec
<1>9. tls' = [tls EXCEPT ![t] = [tls[t] EXCEPT !.mags = s, !.cache = c]] BY <1>2, <1>31, <1>7, <1>8
<1>10. tls' \in [Threads -> ListRec] /\ tls'[t].mags = s /\ tls'[t].cache = c /\ \A u \in Threads \ {t} : tls'[u] = tls[u]
  BY <1>2, <1>9 DEF ListRec
<1>11. TypeOK'
  <2>1. Pools' = Pools BY <1>31, ScenarioSame
  <2> QED BY <1>1, <1>31, <1>6, <1>10, <2>1 DEF TypeOK, PoolType
<1>12. Apart(t) /\ \A u \in Threads \ {t} : Like(u) BY <1>31, <1>10 DEF Apart, Like
<1>13. \A u \in Threads \ {t} : m \notin Own(u) /\ ~(th[u].step = "orphan" /\ th[u].mag = m)
  <2> TAKE u \in Threads \ {t}
  <2>1. HandOK(u) BY DEF SInv
  <2>2. m \notin Own(u) BY <1>1, <1>4 DEF OwnInv, Own
  <2>3. th[u].step = "orphan" => th[u].p # Null
    <3>1. th[u].step = "orphan" => th[u].p \in Nat BY Destroying
    <3> QED BY <3>1, NullFacts
  <2> QED BY <1>31, <2>1, <2>2, <2>3 DEF HandOK
<1>14. \A u \in Threads \ {t} : CallOK(u)' /\ HandOK(u)' /\ Own(u)' = Own(u)
  BY <1>31, <1>4, <1>6, <1>12, <1>13, OthersKeep
<1>15. \A u \in Threads \ {t} : Own(t)' \cap Own(u) = {}
  <2>1. Own(t)' \subseteq Own(t) BY <1>31, <1>5, <1>7, <1>10 DEF Own
  <2> QED BY <1>1, <2>1 DEF OwnInv
<1>16. Classes' = Classes /\ Pseudo' = Pseudo /\ \A q : Group(q)' = Group(q) BY <1>31, ScenarioSame
<1>17. CallOK(t)'
  <2>1. Called(t) => Called(t)' BY <1>31, <1>16 DEF Called
  <2> QED BY <1>1, <1>31, <1>5, <1>16, <2>1 DEF CallOK
<1>18. HandOK(t)'
  <2>1. th[t].mag = Null /\ Distinct(th[t].todo) /\ th[t].todo = <<>> BY <1>1, <1>31 DEF HandOK
  <2>2. \A n \in Elems(s) : mag'[n].mem = "live"
    <3>1. Elems(tls[t].mags) \subseteq Mags BY <1>1, OwnType
    <3> QED BY <1>1, <1>6, <1>7, <3>1 DEF HandOK
  <2>3. c # Null => c \in Elems(s) BY <1>1, <1>7, <1>8 DEF HandOK
  <2> QED BY <1>31, <1>5, <1>7, <1>10, <2>1, <2>2, <2>3 DEF HandOK
<1>19. \A q \in Pools : PoolAt(q)'
  <2> TAKE q \in Pools
  <2>1. q # Null
    <3>1. q \in Nat BY <1>1, ScenarioFacts
    <3> QED BY <3>1, NullFacts
  <2>2. pool'[q].mem = pool[q].mem /\ pool'[q].mags = pool[q].mags BY <1>31
  <2>3. \A u \in Threads : th'[u] = th[u] BY <1>31
  <2> QED BY <1>31, <1>4, <1>6, <2>1, <2>2, <2>3, PoolFrame
<1>20. LockInv'
  <2>1. LocksOwn(t) BY <1>31 DEF LocksOwn, Holding
  <2> QED BY <1>31, <1>11, <1>12, <2>1, LocksKeep
<1>21. AloneInv' BY <1>31, <1>12, AloneFrame
<1>22. \A n \in Mags : mag'[n].mem = "live" => mag'[n].pool \in Classes \cup {Null}
  BY <1>6 DEF SInv
<1>23. \A x \in held' : HeldOK(x)'
  <2>1. held' \subseteq held BY <1>31
  <2> QED BY <1>31, <1>12, <2>1, HeldKeeps
<1> QED BY <1>31, <1>11, <1>14, <1>15, <1>17, <1>18, <1>19, <1>20, <1>21, <1>22, <1>23, ListsKeep

\* A thread that is giving a magazine back.
LEMMA Flushing ==
  ASSUME SInv, NEW t \in Threads, th[t].step = "flush"
  PROVE  LET m == Head(th[t].todo)
             p == th[t].p
         IN  /\ TypeOK /\ CallOK(t) /\ HandOK(t) /\ th[t] \in ThreadRec /\ th[t].op = "exit" /\ registry = t
             /\ th[t].todo \in Seq(Mags) /\ th[t].todo # <<>> /\ Distinct(th[t].todo)
             /\ m \in Mags /\ m \in Elems(th[t].todo) /\ mag[m].mem = "live" /\ mag[m].slots \in Seq(Nat)
             /\ \A u \in Threads : th[u].step # "orphan"
             /\ \/ p = 0 /\ mag[m].pool = Null
                \/ /\ p # 0 /\ mag[m].pool = p /\ p \in Classes /\ p \in Pools /\ m \in Elems(pool[p].mags)
                   /\ pool[p].mem = "live" /\ PoolType(pool[p]) /\ pool[p].free \in Seq(Nat) /\ pool[p].mags \in Seq(Mags)
<1>1. TypeOK /\ CallOK(t) /\ HandOK(t) /\ th[t] \in ThreadRec /\ LockInv /\ PoolInv BY DEF SInv, TypeOK
<1>2. th[t].op = "exit" BY <1>1, StepOp
<1>3. registry = t /\ \A u \in Threads : th[u].step # "orphan" BY <1>1 DEF LockInv
<1>4. th[t].todo \in Seq(Mags) /\ th[t].todo # <<>> /\ Distinct(th[t].todo) BY <1>1 DEF HandOK, ThreadRec
<1>5. PICK m \in Mags : m = Head(th[t].todo) /\ m \in Elems(th[t].todo) BY <1>4, TailElems
<1>6. mag[m].mem = "live" BY <1>1, <1>2, <1>5 DEF HandOK
<1>7. mag[m].slots \in Seq(Nat) BY <1>1 DEF TypeOK, MagRec
<1>8. mag[m].pool \in Classes \cup {Null} BY <1>6 DEF SInv
<1>9. th[t].p = IF mag[m].pool = Null THEN 0 ELSE mag[m].pool BY <1>1, <1>5 DEF HandOK, PoolOf
<1>10. CASE mag[m].pool = Null BY <1>1, <1>2, <1>3, <1>4, <1>5, <1>6, <1>7, <1>9, <1>10
<1>11. CASE mag[m].pool # Null
  <2>1. PICK p \in Classes : p = mag[m].pool /\ p = th[t].p BY <1>8, <1>9, <1>11
  <2>2. p \in Pools /\ p # 0 BY <1>1, ScenarioFacts
  <2>3. PoolAt(p) /\ PoolType(pool[p]) BY <1>1, <2>2 DEF PoolInv, TypeOK
  <2>4. m \in Elems(pool[p].mags) BY <1>3, <1>6, <2>1, <2>3 DEF PoolAt
  <2>5. pool[p].mem = "live"
    <3>1. m \notin Elems(<<>>) BY DEF Elems
    <3> QED BY <2>3, <2>4, <3>1 DEF PoolAt, PoolType
  <2>6. pool[p].free \in Seq(Nat) /\ pool[p].mags \in Seq(Mags) BY <2>3 DEF PoolType
  <2> QED BY <1>1, <1>2, <1>3, <1>4, <1>5, <1>6, <1>7, <2>1, <2>2, <2>3, <2>4, <2>5, <2>6
<1> QED BY <1>10, <1>11

FreesList(p, f, s) == pool' = [pool EXCEPT ![p].free = f, ![p].mags = s]
LEMMA FreeListChanges ==
  ASSUME TypeOK, NEW p \in Pools, NEW f \in Seq(Nat), NEW s \in Seq(Mags), FreesList(p, f, s)
  PROVE  /\ DOMAIN pool' = Pools /\ \A q \in Pools : PoolType(pool'[q])
         /\ \A q \in Pools \ {p} : pool'[q] = pool[q]
         /\ \A q \in Pools : pool'[q].mem = pool[q].mem /\ pool'[q].taken = pool[q].taken
         /\ pool'[p].mags = s /\ pool'[p].free = f
<1>1. DOMAIN pool = Pools /\ PoolType(pool[p]) /\ \A q \in Pools : PoolType(pool[q]) BY DEF TypeOK
<1>2. pool'[p] = [pool[p] EXCEPT !.free = f, !.mags = s] /\ DOMAIN pool' = Pools /\ \A q \in Pools \ {p} : pool'[q] = pool[q]
  BY <1>1 DEF FreesList
<1> DEFINE r == pool[p]
<1>3. r = [mem |-> r.mem, free |-> r.free, taken |-> r.taken, mags |-> r.mags, table |-> r.table, dynamic |-> r.dynamic]
  BY <1>1 DEF PoolType
<1>4. pool'[p] = [mem |-> r.mem, free |-> f, taken |-> r.taken, mags |-> s, table |-> r.table, dynamic |-> r.dynamic]
  <2> HIDE DEF r
  <2>1. pool'[p] = [r EXCEPT !.free = f, !.mags = s] BY <1>2 DEF r
  <2> QED BY <1>3, <2>1
<1>5. PoolType(pool'[p]) BY <1>1, <1>4 DEF PoolType
<1> QED BY <1>1, <1>2, <1>4, <1>5

\* What giving a magazine back does.
LEMMA DrainFlushesDoes ==
  ASSUME SInv, NEW t \in Threads, DrainFlushes(t)
  PROVE  LET m == Head(th[t].todo)
             p == th[t].p
         IN  /\ th[t].step = "flush" /\ registry' = Null /\ TypeOK'
             /\ Frees(m) /\ scenario' = scenario /\ lock' = lock /\ tls' = tls /\ held' = held
             /\ th'[t].op = "exit" /\ th'[t].step = "drain" /\ th'[t].p = 0 /\ th'[t].todo = Tail(th[t].todo)
             /\ th'[t].mag = th[t].mag /\ th'[t].old = th[t].old /\ \A u \in Threads \ {t} : th'[u] = th[u]
             /\ \/ p = 0 /\ pool' = pool
                \/ /\ p # 0 /\ lock[p] = Null
                   /\ \A q \in Pools \ {p} : pool'[q] = pool[q]
                   /\ \A q \in Pools : pool'[q].mem = pool[q].mem /\ pool'[q].taken = pool[q].taken
                   /\ pool'[p].mags = RemoveFirst(pool[p].mags, m)
                   /\ pool'[p].free = Flushed(pool[p].free, mag[m].slots, Len(mag[m].slots))
<1>1. th[t].step = "flush" BY DEF DrainFlushes
<1>2. PICK m \in Mags : m = Head(th[t].todo) BY <1>1, Flushing
<1>3. PICK p \in Nat : p = th[t].p
  <2>1. th[t] \in ThreadRec BY <1>1, Flushing
  <2> QED BY <2>1 DEF ThreadRec
<1>4. /\ TypeOK /\ th[t] \in ThreadRec /\ th[t].op = "exit"
      /\ th[t].todo \in Seq(Mags) /\ th[t].todo # <<>> /\ Distinct(th[t].todo)
      /\ m \in Elems(th[t].todo) /\ mag[m].slots \in Seq(Nat)
      /\ \/ p = 0
         \/ /\ p # 0 /\ p \in Pools /\ m \in Elems(pool[p].mags)
            /\ PoolType(pool[p]) /\ pool[p].free \in Seq(Nat) /\ pool[p].mags \in Seq(Mags)
  BY <1>1, <1>2, <1>3, Flushing
<1>5. /\ Frees(m) /\ registry' = Null /\ scenario' = scenario /\ lock' = lock /\ tls' = tls /\ held' = held
      /\ th' = [th EXCEPT ![t].step = "drain", ![t].p = 0, ![t].todo = Tail(@)]
      /\ \/ p = 0 /\ pool' = pool
         \/ /\ p # 0 /\ lock[p] = Null
            /\ pool' = [pool EXCEPT ![p].free = Flushed(@, mag[m].slots, Len(mag[m].slots)), ![p].mags = RemoveFirst(@, m)]
  BY <1>2, <1>3 DEF DrainFlushes, Frees, Unlocked
<1>6. mag' \in [Mags -> MagRec] BY <1>4, <1>5, FreesDoes
<1>7. PICK w \in Seq(Mags) : w = Tail(th[t].todo) BY <1>4, TailElems
<1>8. th \in [Threads -> ThreadRec] BY <1>4 DEF TypeOK
<1>9. th' = [th EXCEPT ![t] = [th[t] EXCEPT !.step = "drain", !.p = 0, !.todo = w]] BY <1>5, <1>7, <1>8
<1>10. /\ th' \in [Threads -> ThreadRec] /\ \A u \in Threads \ {t} : th'[u] = th[u]
       /\ th'[t].op = "exit" /\ th'[t].step = "drain" /\ th'[t].p = 0 /\ th'[t].todo = w
       /\ th'[t].mag = th[t].mag /\ th'[t].old = th[t].old
  BY <1>4, <1>8, <1>9 DEF ThreadRec, Steps
<1>11. Pools' = Pools BY <1>5, ScenarioSame
<1>12. CASE p = 0
  <2>1. pool' = pool BY <1>5, <1>12
  <2>2. TypeOK' BY <1>4, <1>5, <1>6, <1>10, <1>11, <2>1 DEF TypeOK, PoolType
  <2> QED BY <1>1, <1>2, <1>3, <1>5, <1>7, <1>10, <1>12, <2>1, <2>2
<1>13. CASE p # 0
  <2>1. p \in Pools /\ m \in Elems(pool[p].mags) /\ pool[p].free \in Seq(Nat) /\ pool[p].mags \in Seq(Mags) /\ PoolType(pool[p])
    BY <1>4, <1>13
  <2>2. PICK f \in Seq(Nat) : f = Flushed(pool[p].free, mag[m].slots, Len(mag[m].slots))
    <3> DEFINE s == mag[m].slots
               b == SubSeq(s, Len(s) - Len(s) + 1, Len(s))
    <3>1. Len(s) - Len(s) + 1 = 0 + 1 /\ 0 \in 0 .. Len(s) BY <1>4
    <3>2. b \in Seq(Nat) BY <1>4, <3>1, SplitElems
    <3> HIDE DEF b
    <3>3. Reverse(b) \in Seq(Nat) BY <3>2, ReverseElems
    <3>4. Reverse(b) \o pool[p].free \in Seq(Nat) BY <2>1, <3>3, ConcatElems
    <3> QED BY <3>4 DEF Flushed, b
  <2>3. PICK s \in Seq(Mags) : s = RemoveFirst(pool[p].mags, m)
    <3>1. Distinct(pool[p].mags) BY <2>1 DEF SInv, PoolInv, PoolAt
    <3> QED BY <2>1, <3>1, RemoveFirstElems
  <2>4. FreesList(p, f, s)
    <3>1. DOMAIN pool = Pools BY <1>4 DEF TypeOK
    <3> QED BY <1>5, <1>13, <2>1, <2>2, <2>3, <3>1 DEF FreesList
  <2>5. /\ DOMAIN pool' = Pools /\ \A q \in Pools : PoolType(pool'[q])
        /\ \A q \in Pools \ {p} : pool'[q] = pool[q]
        /\ \A q \in Pools : pool'[q].mem = pool[q].mem /\ pool'[q].taken = pool[q].taken
        /\ pool'[p].mags = s /\ pool'[p].free = f
    BY <1>4, <2>1, <2>4, FreeListChanges
  <2>6. TypeOK'
    <3>1. scenario' \in Scenarios /\ held' \subseteq EntryRec /\ lock' \in [Pools' -> Threads \cup {Null}]
          /\ registry' \in Threads \cup {Null} /\ tls' \in [Threads -> ListRec]
      BY <1>4, <1>5, <1>11 DEF TypeOK
    <3> QED BY <1>6, <1>10, <1>11, <2>5, <3>1 DEF TypeOK
  <2>7. lock[p] = Null BY <1>5, <1>13
  <2> QED BY <1>1, <1>2, <1>3, <1>5, <1>7, <1>10, <1>13, <2>2, <2>3, <2>5, <2>6, <2>7
<1> QED BY <1>12, <1>13

\* The registry lock is given back, and the pool's with it.
LEMMA RegistryReleased ==
  ASSUME SInv, NEW t \in Threads, scenario' = scenario, \A u \in Threads \ {t} : Like(u),
         registry' = Null, th[t].step \in {"flush", "unlink"}, th'[t].step \notin {"count", "flush", "unlink", "orphan"},
         \/ th[t].step = "flush" /\ lock' = lock
         \/ th[t].step = "unlink" /\ lock' = [lock EXCEPT ![th[t].p] = Null]
  PROVE  LockInv'
<1>1. TypeOK /\ LockInv /\ registry = t BY DEF SInv, LockInv
<1>2. Pools' = Pools BY ScenarioSame
<1>3. \A u \in Threads \ {t} : th'[u].step = th[u].step /\ th'[u].p = th[u].p BY <1>1, LikeFields
<1>4. \A u \in Threads \ {t} : \A p : Holding(u, p)' <=> Holding(u, p) BY <1>3 DEF Holding
<1>5. t # Null BY NullFacts
<1>6. \A p : ~Holding(t, p)' BY DEF Holding
<1>7. \A p \in Pools : \/ lock'[p] = lock[p] /\ ~Holding(t, p)
                       \/ lock'[p] = Null /\ Holding(t, p)
  <2>1. lock \in [Pools -> Threads \cup {Null}] BY <1>1 DEF TypeOK
  <2> QED BY <2>1 DEF Holding
<1>8. ASSUME NEW p \in Pools, lock'[p] # Null PROVE Holding(lock[p], p)'
  <2>1. lock'[p] = lock[p] /\ ~Holding(t, p) BY <1>7, <1>8
  <2>2. PICK u \in Threads : u = lock[p] /\ Holding(u, p) BY <1>1, <1>8, <2>1 DEF LockInv, TypeOK
  <2>3. Holding(u, p)' BY <1>4, <2>1, <2>2
  <2> QED BY <2>1, <2>2, <2>3 DEF Holding
<1>9. ASSUME NEW u \in Threads, NEW p \in Pools, Holding(u, p)' PROVE lock'[p] = u
  <2>1. u # t BY <1>6, <1>9
  <2>2. lock[p] = u BY <1>1, <1>4, <1>9, <2>1 DEF LockInv
  <2>3. Holding(t, p) => lock[p] = t BY <1>1 DEF LockInv
  <2> QED BY <1>7, <2>1, <2>2, <2>3
<1>10. \A u \in Threads \ {t} : th[u].step \notin {"flush", "unlink", "orphan"} BY <1>1 DEF LockInv
<1>11. \A u \in Threads : th'[u].step \notin {"flush", "unlink", "orphan"} BY <1>3, <1>10
<1> QED BY <1>2, <1>8, <1>9, <1>11 DEF LockInv

LEMMA DrainFlushesKeeps ==
  ASSUME SInv, NEW t \in Threads, DrainFlushes(t)
  PROVE  SInv'
<1>1. th[t].step = "flush" BY DEF DrainFlushes
<1>2. PICK m \in Mags : m = Head(th[t].todo) BY <1>1, Flushing
<1>3. PICK p \in Nat : p = th[t].p
  <2>1. th[t] \in ThreadRec BY <1>1, Flushing
  <2> QED BY <2>1 DEF ThreadRec
<1>4. /\ TypeOK /\ CallOK(t) /\ HandOK(t) /\ th[t].op = "exit"
      /\ th[t].todo \in Seq(Mags) /\ th[t].todo # <<>> /\ Distinct(th[t].todo)
      /\ m \in Elems(th[t].todo) /\ mag[m].mem = "live"
      /\ \A u \in Threads : th[u].step # "orphan"
      /\ \/ p = 0 /\ mag[m].pool = Null
         \/ /\ p # 0 /\ mag[m].pool = p /\ p \in Classes /\ p \in Pools /\ m \in Elems(pool[p].mags)
            /\ pool[p].mem = "live" /\ pool[p].mags \in Seq(Mags)
  BY <1>1, <1>2, <1>3, Flushing
<1>5. /\ registry' = Null /\ TypeOK'
      /\ Frees(m) /\ scenario' = scenario /\ lock' = lock /\ tls' = tls /\ held' = held
      /\ th'[t].op = "exit" /\ th'[t].step = "drain" /\ th'[t].p = 0 /\ th'[t].todo = Tail(th[t].todo)
      /\ th'[t].mag = th[t].mag /\ th'[t].old = th[t].old /\ \A u \in Threads \ {t} : th'[u] = th[u]
      /\ \/ p = 0 /\ pool' = pool
         \/ /\ p # 0 /\ lock[p] = Null
            /\ \A q \in Pools \ {p} : pool'[q] = pool[q]
            /\ \A q \in Pools : pool'[q].mem = pool[q].mem
            /\ pool'[p].mags = RemoveFirst(pool[p].mags, m)
  BY <1>2, <1>3, DrainFlushesDoes
<1>6. OwnInv /\ PoolInv BY DEF SInv
<1>7. /\ mag'[m].mem = "freed" /\ \A n \in Mags \ {m} : mag'[n].mem = mag[n].mem /\ mag'[n].pool = mag[n].pool
  BY <1>4, <1>5, FreesDoes
<1>8. Apart(t) /\ \A u \in Threads \ {t} : Like(u) BY <1>5 DEF Apart, Like
<1>9. \A u \in Threads \ {t} : CallOK(u)' /\ HandOK(u)' /\ Own(u)' = Own(u)
  <2> TAKE u \in Threads \ {t}
  <2>1. m \in Own(t) BY <1>4 DEF Own
  <2>2. m \notin Own(u) /\ th[u].step # "orphan" BY <1>4, <1>6, <2>1 DEF OwnInv
  <2>3. \A x \in Pools : pool'[x].mem = pool[x].mem BY <1>5
  <2>4. \A x \in Pools : pool'[x].mags = pool[x].mags \/ lock[x] \in {Null, t} BY <1>5
  <2> QED BY <1>5, <1>7, <1>8, <2>2, <2>3, <2>4, OthersKeep
<1>10. Distinct(Tail(th[t].todo)) /\ Elems(Tail(th[t].todo)) = Elems(th[t].todo) \ {m} BY <1>2, <1>4, TailElems
<1>11. \A u \in Threads \ {t} : Own(t)' \cap Own(u) = {}
  <2>1. Own(t)' \subseteq Own(t) BY <1>4, <1>5, <1>10 DEF Own
  <2> QED BY <1>6, <2>1 DEF OwnInv
<1>12. CallOK(t)' BY <1>4, <1>5 DEF CallOK
<1>13. HandOK(t)'
  <2>1. tls[t].mags = <<>> /\ tls[t].cache = Null /\ th[t].mag = Null BY <1>1, <1>4 DEF CallOK, HandOK
  <2>2. Distinct(<<>>) /\ Elems(<<>>) = {} BY DEF Distinct, Elems
  <2>3. \A n \in Elems(Tail(th[t].todo)) : mag'[n].mem = "live"
    <3>1. Elems(th[t].todo) \subseteq Mags BY <1>4, OwnType
    <3> QED BY <1>4, <1>7, <1>10, <3>1 DEF HandOK
  <2> QED BY <1>5, <1>10, <2>1, <2>2, <2>3 DEF HandOK
<1>14. \A q \in Pools : PoolAt(q)'
  <2> TAKE q \in Pools
  <2>1. \A u \in Threads : th[u].step # "orphan" BY <1>4
  <2>2. CASE p # q
    <3>1. pool'[q].mem = pool[q].mem /\ pool'[q].mags = pool[q].mags BY <1>5, <2>2
    <3>2. mag[m].pool # q
      <4>1. q \in Nat BY <1>4, ScenarioFacts
      <4> QED BY <1>4, <2>2, <4>1, NullFacts
    <3>3. ~(mag'[m].mem = "live") BY <1>7
    <3> QED BY <1>5, <1>7, <2>1, <3>1, <3>2, <3>3, PoolFrame
  <2>3. CASE p = q
    <3>1. p # 0 BY <1>4, <2>3, ScenarioFacts
    <3>2. /\ m \in Elems(pool[q].mags) /\ pool[q].mem = "live" /\ pool[q].mags \in Seq(Mags) /\ q \in Classes
          /\ pool'[q].mem = pool[q].mem /\ pool'[q].mags = RemoveFirst(pool[q].mags, m)
      BY <1>4, <1>5, <2>3, <3>1
    <3>3. PoolAt(q) BY <1>6 DEF PoolInv
    <3>4. /\ Len(pool'[q].mags) = Len(pool[q].mags) - 1 /\ Distinct(pool'[q].mags)
          /\ Elems(pool'[q].mags) = Elems(pool[q].mags) \ {m}
      BY <3>2, <3>3, RemoveFirstElems DEF PoolAt
    <3>5. Magazines(Count(q))' = Magazines(Count(q)) /\ Classes' = Classes
      <4>1. Count(q)' = Count(q) /\ \A n : Magazines(n)' = Magazines(n) BY <1>5, ScenarioSame
      <4> QED BY <1>5, <4>1, ScenarioSame
    <3>6. Len(pool'[q].mags) <= Magazines(Count(q))
      <4>1. Len(pool[q].mags) \in Nat BY <3>2
      <4>2. Magazines(Count(q)) \in Nat BY <1>4, <3>2, ScenarioFacts, Geometry
      <4>3. Len(pool[q].mags) <= Magazines(Count(q)) BY <3>2, <3>3 DEF PoolAt
      <4> QED BY <3>4, <4>1, <4>2, <4>3
    <3>7. \A n \in Elems(pool[q].mags) \ {m} : mag'[n].mem = "live" /\ mag'[n].pool = q
      <4>1. \A n \in Elems(pool[q].mags) : n \in Mags BY <3>2, ElementOfSeq DEF Elems
      <4> QED BY <1>7, <3>3, <4>1 DEF PoolAt
    <3>8. \A n \in Mags : mag'[n].mem = "live" /\ mag'[n].pool = q => n \in Elems(pool[q].mags) \ {m}
      BY <1>7, <2>1, <3>3 DEF PoolAt
    <3> QED BY <3>2, <3>4, <3>5, <3>6, <3>7, <3>8 DEF PoolAt
  <2> QED BY <2>2, <2>3
<1>15. LockInv' BY <1>1, <1>5, <1>8, RegistryReleased
<1>16. AloneInv' BY <1>5, <1>8, AloneFrame
<1>17. \A n \in Mags : mag'[n].mem = "live" => mag'[n].pool \in Classes \cup {Null} BY <1>7 DEF SInv
<1>18. \A x \in held' : HeldOK(x)'
  <2>1. held' \subseteq held /\ \A q \in Pools : pool[q].mem = "live" /\ Serving(q) => pool'[q].mem = "live" BY <1>5
  <2> QED BY <1>5, <1>8, <2>1, HeldKeeps
<1> QED BY <1>5, <1>9, <1>11, <1>12, <1>13, <1>14, <1>15, <1>16, <1>17, <1>18, ListsKeep

\* The destruction goes on under both locks.
LEMMA LocksHeld ==
  ASSUME SInv, NEW t \in Threads, scenario' = scenario, \A u \in Threads \ {t} : Like(u),
         registry' = registry, lock' = lock, th'[t].p = th[t].p,
         th[t].step \in {"unlink", "orphan"}, th'[t].step \in {"unlink", "orphan"}
  PROVE  LockInv'
<1>1. TypeOK /\ LockInv BY DEF SInv
<1>2. Pools' = Pools BY ScenarioSame
<1>3. \A u \in Threads \ {t} : th'[u].step = th[u].step /\ th'[u].p = th[u].p BY <1>1, LikeFields
<1>4. \A u \in Threads : \A p : Holding(u, p)' <=> Holding(u, p) BY <1>3 DEF Holding
<1>5. ASSUME NEW p \in Pools, lock'[p] # Null PROVE Holding(lock[p], p)'
  <2>1. PICK u \in Threads : u = lock[p] /\ Holding(u, p) BY <1>1, <1>5 DEF LockInv, TypeOK
  <2>2. lock'[p] = lock[p] OBVIOUS
  <2> QED BY <1>4, <2>1, <2>2 DEF Holding
<1>6. \A u \in Threads : \A p \in Pools : Holding(u, p)' => lock'[p] = u BY <1>1, <1>4 DEF LockInv
<1>7. registry = t BY <1>1 DEF LockInv
<1>8. \A u \in Threads : th'[u].step \in {"flush", "unlink", "orphan"} => registry' = u BY <1>1, <1>3, <1>7 DEF LockInv
<1> QED BY <1>2, <1>5, <1>6, <1>7, <1>8 DEF LockInv

\* The thread that orphans a magazine.
LEMMA OrphanRec ==
  ASSUME TypeOK, NEW t \in Threads, NEW s \in Steps, NEW m \in Mags \cup {Null},
         th' = [th EXCEPT ![t].step = s, ![t].mag = m]
  PROVE  /\ th' \in [Threads -> ThreadRec] /\ \A u \in Threads \ {t} : th'[u] = th[u]
         /\ th'[t].op = th[t].op /\ th'[t].step = s /\ th'[t].p = th[t].p /\ th'[t].mag = m /\ th'[t].old = th[t].old
         /\ th'[t].todo = th[t].todo /\ th'[t].group = th[t].group
<1>1. th \in [Threads -> ThreadRec] /\ th[t] \in ThreadRec BY DEF TypeOK
<1>2. th' = [th EXCEPT ![t] = [th[t] EXCEPT !.step = s, !.mag = m]] BY <1>1
<1>3. PICK r : r = [th[t] EXCEPT !.step = s, !.mag = m] OBVIOUS
<1>4. /\ r \in ThreadRec /\ r.op = th[t].op /\ r.step = s /\ r.p = th[t].p /\ r.mag = m /\ r.old = th[t].old
      /\ r.todo = th[t].todo /\ r.group = th[t].group
  BY <1>1, <1>3 DEF ThreadRec
<1>5. th' = [th EXCEPT ![t] = r] BY <1>2, <1>3
<1>6. th'[t] = r /\ th' \in [Threads -> ThreadRec] /\ \A u \in Threads \ {t} : th'[u] = th[u] BY <1>1, <1>4, <1>5
<1> QED BY <1>4, <1>6

LEMMA DestroyUnlinksKeeps ==
  ASSUME SInv, NEW t \in Threads, DestroyUnlinks(t)
  PROVE  SInv'
<1>1. th[t].step = "unlink" BY DEF DestroyUnlinks
<1>2. PICK p \in Pools : p = th[t].p BY <1>1, Destroying
<1>3. /\ TypeOK /\ CallOK(t) /\ HandOK(t) /\ th[t].op = "destroy" /\ p \in th[t].group /\ pool[p].mem = "live"
      /\ pool[p].mags \in Seq(Mags) /\ \A x \in th[t].group : x \in Pools
      /\ th[t].old = Null /\ th[t].todo = <<>>
  BY <1>1, <1>2, Destroying
<1>4. PoolInv /\ LockInv /\ OwnInv /\ PoolAt(p) BY DEF SInv, PoolInv
<1>5. pool[p].mags # <<>> /\ Distinct(pool[p].mags) BY <1>2, <1>4 DEF DestroyUnlinks, PoolAt
<1>6. PICK m \in Mags : m = Head(pool[p].mags) /\ m \in Elems(pool[p].mags) BY <1>3, <1>5, TailElems
<1>7. PICK s \in Seq(Mags) : s = Tail(pool[p].mags) /\ Distinct(s) /\ Elems(s) = Elems(pool[p].mags) \ {m}
  BY <1>3, <1>5, <1>6, TailElems
<1>8. /\ th' = [th EXCEPT ![t].step = "orphan", ![t].mag = m]
      /\ scenario' = scenario /\ lock' = lock /\ registry' = registry /\ mag' = mag /\ tls' = tls /\ held' = held
  BY <1>2, <1>6 DEF DestroyUnlinks
<1>9. Links(p, s)
  <2>1. DOMAIN pool = Pools BY <1>3 DEF TypeOK
  <2> QED BY <1>2, <1>7, <2>1 DEF Links, DestroyUnlinks
<1>10. /\ DOMAIN pool' = Pools' /\ \A q \in Pools' : PoolType(pool'[q])
       /\ \A q \in Pools \ {p} : pool'[q] = pool[q]
       /\ \A q \in Pools : pool'[q].mem = pool[q].mem
       /\ pool'[p].mags = s
  BY <1>3, <1>8, <1>9, ListChanges
<1>11. /\ th' \in [Threads -> ThreadRec] /\ \A u \in Threads \ {t} : th'[u] = th[u]
       /\ th'[t].op = "destroy" /\ th'[t].step = "orphan" /\ th'[t].p = p /\ th'[t].mag = m /\ th'[t].old = Null
       /\ th'[t].todo = <<>> /\ th'[t].group = th[t].group
  <2>1. PICK z \in Steps : z = "orphan" BY DEF Steps
  <2>2. PICK n \in Mags \cup {Null} : n = m OBVIOUS
  <2>3. th' = [th EXCEPT ![t].step = z, ![t].mag = n] BY <1>8, <2>1, <2>2
  <2>4. /\ th' \in [Threads -> ThreadRec] /\ \A u \in Threads \ {t} : th'[u] = th[u]
        /\ th'[t].op = th[t].op /\ th'[t].step = z /\ th'[t].p = th[t].p /\ th'[t].mag = n /\ th'[t].old = th[t].old
        /\ th'[t].todo = th[t].todo /\ th'[t].group = th[t].group
    BY <1>3, <2>3, OrphanRec
  <2> QED BY <1>2, <1>3, <2>1, <2>2, <2>4
<1>12. Pools' = Pools /\ Classes' = Classes /\ \A q : Group(q)' = Group(q) BY <1>8, ScenarioSame
<1>13. TypeOK' BY <1>3, <1>8, <1>10, <1>11, <1>12 DEF TypeOK
<1>14. Apart(t) /\ \A u \in Threads \ {t} : Like(u) BY <1>8, <1>11 DEF Apart, Like
<1>15. lock[p] = t /\ \A u \in Threads \ {t} : th[u].step \notin {"flush", "unlink", "orphan"}
  <2>1. lock[p] = t BY <1>1, <1>2, <1>4 DEF LockInv, Holding
  <2>2. registry = t BY <1>1, <1>4 DEF LockInv
  <2> QED BY <1>4, <2>1, <2>2 DEF LockInv
<1>16. mag[m].mem = "live" /\ mag[m].pool = p BY <1>4, <1>6 DEF PoolAt
<1>17. \A u \in Threads \ {t} : CallOK(u)' /\ HandOK(u)' /\ Own(u)' = Own(u)
  <2> TAKE u \in Threads \ {t}
  <2>1. \A x \in Pools : pool'[x].mags = pool[x].mags \/ lock[x] \in {Null, t} BY <1>10, <1>15
  <2>2. \A n \in Mags \ {m} : mag'[n].mem = mag[n].mem /\ mag'[n].pool = mag[n].pool BY <1>8
  <2>3. mag'[m].mem = mag[m].mem /\ mag'[m].pool = mag[m].pool /\ th[u].step \notin {"flush", "orphan"} BY <1>8, <1>15
  <2> QED BY <1>8, <1>10, <1>14, <2>1, <2>2, <2>3, OthersKeep
<1>18. Own(t)' = Own(t) BY <1>3, <1>8, <1>11 DEF Own
<1>19. \A u \in Threads \ {t} : Own(t)' \cap Own(u) = {} BY <1>4, <1>18 DEF OwnInv
<1>20. CallOK(t)' BY <1>2, <1>3, <1>8, <1>10, <1>11, <1>12 DEF CallOK
<1>21. HandOK(t)'
  <2>1. m # Null BY NullFacts
  <2>2. Distinct(<<>>) BY DEF Distinct
  <2> QED BY <1>3, <1>7, <1>8, <1>10, <1>11, <1>16, <2>1, <2>2 DEF HandOK
<1>22. \A q \in Pools : PoolAt(q)'
  <2> TAKE q \in Pools
  <2>1. CASE q # p
    <3>1. \A u \in Threads : th[u].step # "orphan" BY <1>1, <1>15
    <3>2. pool'[q].mem = pool[q].mem /\ pool'[q].mags = pool[q].mags BY <1>10, <2>1
    <3>3. \A n \in Mags : mag'[n].mem = mag[n].mem /\ mag'[n].pool = mag[n].pool BY <1>8
    <3> QED BY <1>8, <3>1, <3>2, <3>3, PoolFrame
  <2>2. CASE q = p
    <3>1. \A n \in Elems(s) : mag'[n].mem = "live" /\ mag'[n].pool = p BY <1>4, <1>7, <1>8 DEF PoolAt
    <3>2. ASSUME NEW n \in Mags, mag'[n].mem = "live", mag'[n].pool = p
          PROVE  n \in Elems(s) \/ \E u \in Threads : th'[u].step = "orphan" /\ th'[u].mag = n
      <4>1. n \in Elems(pool[p].mags) BY <1>1, <1>4, <1>8, <1>15, <3>2 DEF PoolAt
      <4> QED BY <1>7, <1>11, <4>1
    <3>3. p \in Classes => Len(s) <= Magazines(Count(p))
      <4>1. Len(s) = Len(pool[p].mags) - 1 /\ Len(pool[p].mags) \in Nat BY <1>3, <1>5, <1>7
      <4>2. p \in Classes => Magazines(Count(p)) \in Nat BY <1>3, ScenarioFacts, Geometry
      <4>3. p \in Classes => Len(pool[p].mags) <= Magazines(Count(p)) BY <1>4 DEF PoolAt
      <4> QED BY <4>1, <4>2, <4>3
    <3>4. Magazines(Count(p))' = Magazines(Count(p))
      <4>1. Count(p)' = Count(p) /\ \A n : Magazines(n)' = Magazines(n) BY <1>8, ScenarioSame
      <4> QED BY <1>8, <4>1
    <3> QED BY <1>3, <1>7, <1>10, <1>12, <2>2, <3>1, <3>2, <3>3, <3>4 DEF PoolAt
  <2> QED BY <2>1, <2>2
<1>23. LockInv' BY <1>1, <1>2, <1>8, <1>11, <1>14, LocksHeld
<1>24. AloneInv' BY <1>3, <1>11, <1>14, AloneFrame
<1>25. \A n \in Mags : mag'[n].mem = "live" => mag'[n].pool \in Classes \cup {Null} BY <1>8 DEF SInv
<1>26. \A x \in held' : HeldOK(x)'
  <2>1. held' \subseteq held /\ \A q \in Pools : pool[q].mem = "live" /\ Serving(q) => pool'[q].mem = "live" BY <1>8, <1>10
  <2> QED BY <1>3, <1>8, <1>11, <1>14, <2>1, HeldKeeps
<1> QED BY <1>8, <1>13, <1>17, <1>19, <1>20, <1>21, <1>22, <1>23, <1>24, <1>25, <1>26, ListsKeep

LEMMA DestroyOrphansKeeps ==
  ASSUME SInv, NEW t \in Threads, DestroyOrphans(t)
  PROVE  SInv'
<1>1. th[t].step = "orphan" BY DEF DestroyOrphans
<1>2. PICK p \in Pools : p = th[t].p BY <1>1, Destroying
<1>3. /\ TypeOK /\ CallOK(t) /\ HandOK(t) /\ th[t].op = "destroy" /\ p \in th[t].group /\ p \in Nat
      /\ th[t].group = Group(p)
      /\ th[t].old = Null /\ th[t].todo = <<>> /\ pool[p].mags \in Seq(Mags)
  BY <1>1, <1>2, Destroying
<1>4. PoolInv /\ LockInv /\ OwnInv /\ AloneInv /\ PoolAt(p) BY DEF SInv, PoolInv
<1>5. PICK m \in Mags : m = th[t].mag /\ mag[m].mem = "live" /\ mag[m].pool = p /\ m \notin Elems(pool[p].mags)
  <2>1. th[t].mag \in Mags \cup {Null} BY <1>3, SameRec
  <2> QED BY <1>1, <1>2, <1>3, <2>1 DEF HandOK
<1>6. /\ mag' = [mag EXCEPT ![m].pool = Null]
      /\ th' = [th EXCEPT ![t].step = "unlink", ![t].mag = Null]
      /\ scenario' = scenario /\ lock' = lock /\ registry' = registry /\ pool' = pool /\ tls' = tls /\ held' = held
  BY <1>5 DEF DestroyOrphans, poolVars
<1>7. /\ mag' \in [Mags -> MagRec] /\ mag'[m].mem = "live" /\ mag'[m].pool = Null
      /\ \A n \in Mags \ {m} : mag'[n].mem = mag[n].mem /\ mag'[n].pool = mag[n].pool
  <2>1. mag \in [Mags -> MagRec] /\ mag[m] \in MagRec BY <1>3 DEF TypeOK
  <2>2. mag' = [mag EXCEPT ![m] = [mag[m] EXCEPT !.pool = Null]] BY <1>6
  <2> QED BY <1>5, <2>1, <2>2 DEF MagRec
<1>8. /\ th' \in [Threads -> ThreadRec] /\ \A u \in Threads \ {t} : th'[u] = th[u]
      /\ th'[t].op = "destroy" /\ th'[t].step = "unlink" /\ th'[t].p = p /\ th'[t].mag = Null /\ th'[t].old = Null
      /\ th'[t].todo = <<>> /\ th'[t].group = th[t].group
  <2>1. PICK z \in Steps : z = "unlink" BY DEF Steps
  <2>2. PICK n \in Mags \cup {Null} : n = Null OBVIOUS
  <2>3. th' = [th EXCEPT ![t].step = z, ![t].mag = n] BY <1>6, <2>1, <2>2
  <2>4. /\ th' \in [Threads -> ThreadRec] /\ \A u \in Threads \ {t} : th'[u] = th[u]
        /\ th'[t].op = th[t].op /\ th'[t].step = z /\ th'[t].p = th[t].p /\ th'[t].mag = n /\ th'[t].old = th[t].old
        /\ th'[t].todo = th[t].todo /\ th'[t].group = th[t].group
    BY <1>3, <2>3, OrphanRec
  <2> QED BY <1>2, <1>3, <2>1, <2>2, <2>4
<1>9. Pools' = Pools /\ Classes' = Classes /\ \A q : Group(q)' = Group(q) BY <1>6, ScenarioSame
<1>10. TypeOK' BY <1>3, <1>6, <1>7, <1>8, <1>9 DEF TypeOK, PoolType
<1>11. Apart(t) /\ \A u \in Threads \ {t} : Like(u) BY <1>6, <1>8 DEF Apart, Like
<1>12. \A u \in Threads \ {t} : th[u].step \notin {"flush", "unlink", "orphan"}
  <2>1. registry = t BY <1>1, <1>4 DEF LockInv
  <2> QED BY <1>4, <2>1 DEF LockInv
<1>13. \A u \in Threads \ {t} : CallOK(u)' /\ HandOK(u)' /\ Own(u)' = Own(u)
  <2> TAKE u \in Threads \ {t}
  <2>1. mag'[m].mem = mag[m].mem /\ th[u].step \notin {"flush", "orphan"} BY <1>5, <1>7, <1>12
  <2>2. th[u].step \notin {"pop", "push"} \/ th[u].mag # m
    <3> SUFFICES ASSUME th[u].step \in {"pop", "push"}, th[u].mag = m PROVE FALSE OBVIOUS
    <3>1. /\ mag[m].pool = th[u].p /\ th[u].p \in th[u].group /\ th[u].op \in {"alloc", "free"} BY InHand
    <3>2. Group(p) = th[u].group BY <1>5, <3>1, CallServes
    <3>3. th[t].group # th[u].group BY <1>3, <1>4, <3>1 DEF AloneInv
    <3> QED BY <1>3, <3>2, <3>3
  <2>3. \A x \in Pools : pool'[x].mem = pool[x].mem /\ pool'[x].mags = pool[x].mags BY <1>6
  <2> QED BY <1>6, <1>7, <1>11, <2>1, <2>2, <2>3, OthersKeep
<1>14. Own(t)' = Own(t) BY <1>3, <1>6, <1>8 DEF Own
<1>15. \A u \in Threads \ {t} : Own(t)' \cap Own(u) = {} BY <1>4, <1>14 DEF OwnInv
<1>16. CallOK(t)' BY <1>2, <1>3, <1>6, <1>8, <1>9 DEF CallOK
<1>17. HandOK(t)'
  <2>1. Distinct(<<>>) BY DEF Distinct
  <2>2. \A n \in Elems(tls[t].mags) : mag'[n].mem = "live"
    <3>1. Elems(tls[t].mags) \subseteq Mags BY <1>3, OwnType
    <3> QED BY <1>3, <1>7, <3>1 DEF HandOK
  <2> QED BY <1>3, <1>6, <1>8, <2>1, <2>2 DEF HandOK
<1>18. \A q \in Pools : PoolAt(q)'
  <2> TAKE q \in Pools
  <2>1. \A u \in Threads : th[u].step = "orphan" => u = t BY <1>12
  <2>2. CASE q # p
    <3>1. ~(mag[m].mem = "live" /\ mag[m].pool = q) /\ ~(mag'[m].mem = "live" /\ mag'[m].pool = q)
      <4>1. q # Null
        <5>1. q \in Nat BY <1>3, ScenarioFacts
        <5> QED BY <5>1, NullFacts
      <4> QED BY <1>5, <1>7, <2>2, <4>1
    <3>2. \A u \in Threads : ~(th[u].step = "orphan" /\ mag[th[u].mag].pool = q) BY <1>5, <2>1, <2>2
    <3>3. pool'[q].mem = pool[q].mem /\ pool'[q].mags = pool[q].mags BY <1>6
    <3> QED BY <1>6, <1>7, <3>1, <3>2, <3>3, PoolFrame
  <2>3. CASE q = p
    <3>1. \A n \in Elems(pool[p].mags) : mag'[n].mem = "live" /\ mag'[n].pool = p
      <4>1. \A n \in Elems(pool[p].mags) : n \in Mags BY <1>3, ElementOfSeq DEF Elems
      <4> QED BY <1>4, <1>5, <1>7, <4>1 DEF PoolAt
    <3>2. ASSUME NEW n \in Mags, mag'[n].mem = "live", mag'[n].pool = p PROVE n \in Elems(pool[p].mags)
      <4>1. n # m BY <1>3, <1>7, <3>2, NullFacts
      <4>2. mag[n].mem = "live" /\ mag[n].pool = p BY <1>7, <3>2, <4>1
      <4> QED BY <1>4, <1>5, <2>1, <4>1, <4>2 DEF PoolAt
    <3>3. Magazines(Count(p))' = Magazines(Count(p))
      <4>1. Count(p)' = Count(p) /\ \A n : Magazines(n)' = Magazines(n) BY <1>6, ScenarioSame
      <4> QED BY <1>6, <4>1
    <3> QED BY <1>4, <1>6, <1>9, <2>3, <3>1, <3>2, <3>3 DEF PoolAt
  <2> QED BY <2>2, <2>3
<1>19. LockInv' BY <1>1, <1>2, <1>6, <1>8, <1>11, LocksHeld
<1>20. AloneInv' BY <1>3, <1>8, <1>11, AloneFrame
<1>21. \A n \in Mags : mag'[n].mem = "live" => mag'[n].pool \in Classes \cup {Null} BY <1>7 DEF SInv
<1>22. \A x \in held' : HeldOK(x)'
  <2>1. held' \subseteq held /\ \A q \in Pools : pool[q].mem = "live" /\ Serving(q) => pool'[q].mem = "live" BY <1>6
  <2> QED BY <1>3, <1>6, <1>8, <1>11, <2>1, HeldKeeps
<1> QED BY <1>6, <1>10, <1>13, <1>15, <1>16, <1>17, <1>18, <1>19, <1>20, <1>21, <1>22, ListsKeep

\* Destroying one pool after the other.
LEMMA NextOfGroup ==
  ASSUME TypeOK, NEW q \in Classes, NEW p \in Group(q), p # Max(Group(q))
  PROVE  p + 1 \in Group(q) /\ \A x \in Group(q) : x \in Nat
<1>1. Pools \subseteq Nat /\ q \in Pools /\ Pseudo \in Pools BY ScenarioFacts
<1>2. \A x \in Group(q) : x \in Nat
  <2>1. Group(q) \subseteq Pools BY <1>1, GroupFacts
  <2> QED BY <1>1, <2>1
<1>3. CASE ~scenario.ranged
  <2>1. Group(q) = {q} /\ p = q BY <1>3 DEF Group
  <2>2. q \in Nat BY <1>1
  <2>3. Max({q}) = q
    <3>1. Max({q}) = CHOOSE x \in {q} : \A y \in {q} : x >= y BY DEF Max
    <3> QED BY <2>2, <3>1
  <2> QED BY <2>1, <2>3
<1>4. CASE scenario.ranged
  <2>1. PICK n \in Nat : n = Pseudo BY <1>1
  <2>2. Group(q) = 1 .. n /\ q \in 1 .. n BY <1>1, <1>4, <2>1 DEF Group, Pools
  <2>3. n \in 1 .. n /\ \A y \in 1 .. n : n >= y BY <2>2
  <2>4. \A x \in 1 .. n : (\A y \in 1 .. n : x >= y) => x = n BY <2>3
  <2>5. Max(1 .. n) = n
    <3>1. Max(1 .. n) = CHOOSE x \in 1 .. n : \A y \in 1 .. n : x >= y BY DEF Max
    <3> QED BY <2>3, <2>4, <3>1
  <2>6. p \in 1 .. n /\ p # n BY <2>2, <2>5
  <2>7. p + 1 \in 1 .. n BY <2>6
  <2> QED BY <1>2, <2>2, <2>7
<1> QED BY <1>3, <1>4

\* What destroying a pool comes to.
LEMMA DestroyFreesDoes ==
  ASSUME SInv, NEW t \in Threads, DestroyFrees(t)
  PROVE  LET p == th[t].p
         IN  /\ th[t].step = "unlink" /\ pool[p].mags = <<>> /\ TypeOK'
             /\ scenario' = scenario /\ mag' = mag /\ tls' = tls /\ held' = held
             /\ lock' = [lock EXCEPT ![p] = Null] /\ registry' = Null
             /\ pool'[p].mem = "freed" /\ pool'[p].mags = pool[p].mags /\ \A q \in Pools \ {p} : pool'[q] = pool[q]
             /\ \A u \in Threads \ {t} : th'[u] = th[u]
             /\ \/ th'[t] = Idle /\ p = Max(th[t].group)
                \/ /\ p # Max(th[t].group) /\ th'[t].op = "destroy" /\ th'[t].step = "destroy" /\ th'[t].p = p + 1
                   /\ th'[t].group = th[t].group /\ th'[t].mag = th[t].mag /\ th'[t].old = th[t].old /\ th'[t].todo = th[t].todo
<1>1. th[t].step = "unlink" BY DEF DestroyFrees
<1>2. PICK p \in Pools : p = th[t].p BY <1>1, Destroying
<1>3. TypeOK /\ th[t] \in ThreadRec /\ th[t].op = "destroy" /\ PoolType(pool[p]) /\ p \in Nat BY <1>1, <1>2, Destroying
<1>4. /\ pool[p].mags = <<>> /\ scenario' = scenario /\ mag' = mag /\ tls' = tls /\ held' = held
      /\ pool' = [pool EXCEPT ![p].mem = "freed"]
      /\ lock' = [lock EXCEPT ![p] = Null] /\ registry' = Null
      /\ th' = [th EXCEPT ![t] = IF p = Max(th[t].group) THEN Idle ELSE [th[t] EXCEPT !.step = "destroy", !.p = @ + 1]]
  BY <1>2 DEF DestroyFrees
<1>5. /\ DOMAIN pool' = Pools /\ \A q \in Pools \ {p} : pool'[q] = pool[q]
      /\ PoolType(pool'[p]) /\ pool'[p].mem = "freed" /\ pool'[p].mags = pool[p].mags
  <2> DEFINE r == pool[p]
  <2>1. DOMAIN pool = Pools BY <1>3 DEF TypeOK
  <2>2. pool'[p] = [pool[p] EXCEPT !.mem = "freed"] /\ DOMAIN pool' = Pools /\ \A q \in Pools \ {p} : pool'[q] = pool[q]
    BY <1>4, <2>1
  <2>3. r = [mem |-> r.mem, free |-> r.free, taken |-> r.taken, mags |-> r.mags, table |-> r.table, dynamic |-> r.dynamic]
    BY <1>3 DEF PoolType
  <2>4. pool'[p] = [mem |-> "freed", free |-> r.free, taken |-> r.taken, mags |-> r.mags, table |-> r.table, dynamic |-> r.dynamic]
    <3> HIDE DEF r
    <3>1. pool'[p] = [r EXCEPT !.mem = "freed"] BY <2>2 DEF r
    <3> QED BY <2>3, <3>1
  <2>5. PoolType(pool'[p]) BY <1>3, <2>4 DEF PoolType
  <2> QED BY <2>2, <2>4, <2>5
<1>6. PICK r : r = IF p = Max(th[t].group) THEN Idle ELSE [th[t] EXCEPT !.step = "destroy", !.p = @ + 1] OBVIOUS
<1>7. /\ r \in ThreadRec
      /\ \/ r = Idle /\ p = Max(th[t].group)
         \/ /\ p # Max(th[t].group) /\ r.op = "destroy" /\ r.step = "destroy" /\ r.p = p + 1
            /\ r.group = th[t].group /\ r.mag = th[t].mag /\ r.old = th[t].old /\ r.todo = th[t].todo
  <2>1. CASE p = Max(th[t].group) BY <1>6, <2>1, IdleFields
  <2>2. CASE p # Max(th[t].group)
    <3>1. r = [th[t] EXCEPT !.step = "destroy", !.p = p + 1] BY <1>2, <1>6, <2>2
    <3>2. "destroy" \in Steps /\ p + 1 \in Nat BY <1>3 DEF Steps
    <3> QED BY <1>3, <2>2, <3>1, <3>2 DEF ThreadRec
  <2> QED BY <2>1, <2>2
<1>8. th'[t] = r /\ th' \in [Threads -> ThreadRec] /\ \A u \in Threads \ {t} : th'[u] = th[u]
  <2>1. th \in [Threads -> ThreadRec] BY <1>3 DEF TypeOK
  <2>2. th' = [th EXCEPT ![t] = r] BY <1>4, <1>6
  <2> QED BY <1>7, <2>1, <2>2
<1>9. TypeOK'
  <2>1. Pools' = Pools BY <1>4, ScenarioSame
  <2>2. lock' \in [Pools -> Threads \cup {Null}] /\ registry' \in Threads \cup {Null} BY <1>3, <1>4 DEF TypeOK
  <2>3. \A q \in Pools : PoolType(pool'[q]) BY <1>3, <1>5 DEF TypeOK
  <2>4. scenario' \in Scenarios /\ mag' \in [Mags -> MagRec] /\ tls' \in [Threads -> ListRec] /\ held' \subseteq EntryRec
    BY <1>3, <1>4 DEF TypeOK
  <2> QED BY <1>5, <1>8, <2>1, <2>2, <2>3, <2>4 DEF TypeOK
<1> QED BY <1>1, <1>2, <1>4, <1>5, <1>7, <1>8, <1>9

LEMMA DestroyFreesKeeps ==
  ASSUME SInv, NEW t \in Threads, DestroyFrees(t)
  PROVE  SInv'
<1>1. th[t].step = "unlink" BY DEF DestroyFrees
<1>2. PICK p \in Pools : p = th[t].p BY <1>1, Destroying
<1>3. /\ TypeOK /\ CallOK(t) /\ HandOK(t) /\ th[t].op = "destroy" /\ p \in th[t].group /\ p \in Nat
      /\ th[t].group = Group(p) /\ \A x \in th[t].group : x \in Pools /\ pool[x].mem = IF x < p THEN "freed" ELSE "live"
      /\ th[t].old = Null /\ th[t].todo = <<>>
  BY <1>1, <1>2, Destroying
<1>4. /\ pool[p].mags = <<>> /\ TypeOK'
      /\ scenario' = scenario /\ mag' = mag /\ tls' = tls /\ held' = held
      /\ lock' = [lock EXCEPT ![p] = Null] /\ registry' = Null
      /\ pool'[p].mem = "freed" /\ pool'[p].mags = pool[p].mags /\ \A q \in Pools \ {p} : pool'[q] = pool[q]
      /\ \A u \in Threads \ {t} : th'[u] = th[u]
      /\ \/ th'[t] = Idle /\ p = Max(th[t].group)
         \/ /\ p # Max(th[t].group) /\ th'[t].op = "destroy" /\ th'[t].step = "destroy" /\ th'[t].p = p + 1
            /\ th'[t].group = th[t].group /\ th'[t].mag = th[t].mag /\ th'[t].old = th[t].old /\ th'[t].todo = th[t].todo
  BY <1>2, DestroyFreesDoes
<1>5. PICK q \in Classes : th[t].group = Group(q) BY <1>1, Destroying
<1>6. PoolInv /\ LockInv /\ OwnInv /\ AloneInv /\ PoolAt(p) BY DEF SInv, PoolInv
<1>7. Apart(t) /\ \A u \in Threads \ {t} : Like(u) BY <1>4 DEF Apart, Like
<1>8. \A u \in Threads \ {t} : th[u].step \notin {"flush", "unlink", "orphan"}
  <2>1. registry = t BY <1>1, <1>6 DEF LockInv
  <2> QED BY <1>6, <2>1 DEF LockInv
<1>9. Pools' = Pools /\ Classes' = Classes /\ \A x : Group(x)' = Group(x) BY <1>4, ScenarioSame
<1>10. \A n \in Mags : mag'[n].mem = mag[n].mem /\ mag'[n].pool = mag[n].pool BY <1>4
<1>11. \A u \in Threads \ {t} : CallOK(u)' /\ HandOK(u)' /\ Own(u)' = Own(u)
  <2> TAKE u \in Threads \ {t}
  <2>1. \A x \in Pools : pool'[x].mem = pool[x].mem \/ (th[t].op = "destroy" /\ th[t].group = Group(x)) BY <1>3, <1>4
  <2>2. \A x \in Pools : pool'[x].mags = pool[x].mags BY <1>4
  <2>3. mag'[Null].mem = mag[Null].mem /\ mag'[Null].pool = mag[Null].pool BY <1>4
  <2> QED BY <1>4, <1>7, <1>8, <1>10, <2>1, <2>2, <2>3, OthersKeep
<1>12. th'[t].op \in {"none", "destroy"} /\ th'[t].todo = <<>> /\ th'[t].mag = Null /\ th'[t].step \in {"none", "destroy"}
  <2>1. th[t].mag = Null BY <1>1, <1>3 DEF HandOK
  <2> QED BY <1>3, <1>4, <2>1, IdleFields
<1>13. Own(t)' = Own(t) BY <1>3, <1>4, <1>12 DEF Own
<1>14. \A u \in Threads \ {t} : Own(t)' \cap Own(u) = {} BY <1>6, <1>13 DEF OwnInv
<1>15. CallOK(t)'
  <2>1. Idle' = Idle BY DEF Idle
  <2>2. CASE th'[t] = Idle BY <2>1, <2>2, IdleFields DEF CallOK
  <2>3. CASE p # Max(th[t].group) /\ th'[t].op = "destroy" /\ th'[t].step = "destroy" /\ th'[t].p = p + 1
             /\ th'[t].group = th[t].group /\ th'[t].old = th[t].old
    <3>1. p + 1 \in th[t].group /\ \A x \in th[t].group : x \in Nat BY <1>3, <1>5, <2>3, NextOfGroup
    <3>2. ASSUME NEW x \in th[t].group PROVE pool'[x].mem = IF x < p + 1 THEN "freed" ELSE "live"
      <4>1. x \in Nat /\ x \in Pools /\ pool[x].mem = IF x < p THEN "freed" ELSE "live" BY <1>3, <3>1
      <4>2. CASE x = p
        <5>1. p < p + 1 BY <1>3
        <5> QED BY <1>4, <4>2, <5>1
      <4>3. CASE x # p
        <5>1. pool'[x].mem = pool[x].mem BY <1>4, <4>1, <4>3
        <5>2. (x < p + 1) = (x < p) BY <1>3, <4>1, <4>3
        <5> QED BY <4>1, <5>1, <5>2
      <4> QED BY <4>2, <4>3
    <3> QED BY <1>3, <1>5, <1>9, <2>3, <3>1, <3>2 DEF CallOK
  <2> QED BY <1>4, <2>2, <2>3
<1>16. HandOK(t)'
  <2>1. Distinct(<<>>) BY DEF Distinct
  <2> QED BY <1>3, <1>4, <1>12, <2>1 DEF HandOK
<1>17. \A x \in Pools : PoolAt(x)'
  <2> TAKE x \in Pools
  <2>1. \A u \in Threads : th[u].step # "orphan" BY <1>1, <1>8
  <2>2. CASE x # p
    <3>1. pool'[x].mem = pool[x].mem /\ pool'[x].mags = pool[x].mags BY <1>4, <2>2
    <3>2. mag'[Null].mem = mag[Null].mem /\ mag'[Null].pool = mag[Null].pool BY <1>4
    <3> QED BY <1>4, <1>10, <2>1, <3>1, <3>2, PoolFrame
  <2>3. CASE x = p
    <3>1. Magazines(Count(p))' = Magazines(Count(p))
      <4>1. Count(p)' = Count(p) /\ \A n : Magazines(n)' = Magazines(n) BY <1>4, ScenarioSame
      <4> QED BY <1>4, <4>1
    <3>2. \A n \in Mags : ~(mag'[n].mem = "live" /\ mag'[n].pool = p)
      <4>1. \A n : n \notin Elems(<<>>) BY DEF Elems
      <4> QED BY <1>4, <1>6, <2>1, <4>1 DEF PoolAt
    <3> QED BY <1>4, <1>6, <1>9, <2>3, <3>1, <3>2 DEF PoolAt
  <2> QED BY <2>2, <2>3
<1>18. LockInv' BY <1>1, <1>2, <1>4, <1>7, <1>12, RegistryReleased
<1>19. AloneInv' BY <1>3, <1>4, <1>7, IdleFields, AloneFrame
<1>20. \A n \in Mags : mag'[n].mem = "live" => mag'[n].pool \in Classes \cup {Null} BY <1>4 DEF SInv
<1>21. \A x \in held' : HeldOK(x)'
  <2>1. ASSUME NEW x \in Pools, pool[x].mem = "live", Serving(x) PROVE pool'[x].mem = "live"
    <3>1. Calling(t, p) BY <1>3 DEF Calling
    <3>2. x # p BY <1>3, <2>1, <3>1 DEF Serving
    <3> QED BY <1>4, <2>1, <3>2
  <2>2. th'[t].op = "destroy" => th[t].op = "destroy" /\ th'[t].group = th[t].group BY <1>3, <1>4, IdleFields
  <2>3. held' \subseteq held BY <1>4
  <2> QED BY <1>4, <1>7, <2>1, <2>2, <2>3, HeldKeeps
<1> QED BY <1>4, <1>11, <1>14, <1>15, <1>16, <1>17, <1>18, <1>19, <1>20, <1>21, ListsKeep

LEMMA NewPoolFacts ==
  ASSUME TypeOK, NEW q \in Pools
  PROVE  /\ Total(q) \in Nat /\ PoolType(NewPool(q)) /\ NewPool(q).mem = "live" /\ NewPool(q).mags = <<>>
         /\ NewPool(q).free = [i \in 1 .. Total(q) |-> i] /\ NewPool(q).taken = {}
<1>1. Total(q) \in Nat
  <2>1. CASE q = Pseudo BY <2>1 DEF Total
  <2>2. CASE q # Pseudo
    <3>1. Count(q) \in Nat BY <2>2, ScenarioFacts
    <3>2. Reserve(Count(q)) \in Nat BY <3>1, Geometry
    <3> QED BY <2>2, <3>1, <3>2 DEF Total
  <2> QED BY <2>1, <2>2
<1>2. PICK n \in Nat : n = Total(q) BY <1>1
<1>3. [i \in 1 .. n |-> i] \in Seq(Nat)
  <2>1. \A i \in 1 .. n : i \in Nat BY <1>2
  <2> QED BY <2>1, IsASeq
<1>4. <<>> \in Seq(Mags) OBVIOUS
<1>5. NewPool(q) = [mem |-> "live", free |-> [i \in 1 .. n |-> i], taken |-> {}, mags |-> <<>>, table |-> <<>>, dynamic |-> 0]
  BY <1>2 DEF NewPool
<1> QED BY <1>2, <1>3, <1>4, <1>5 DEF PoolType

\* New pools in the place of old ones.
LEMMA CreatePoolsDoes ==
  ASSUME SInv, NEW t \in Threads, NEW p \in Classes, CreatePools(t, p)
  PROVE  /\ scenario' = scenario /\ lock' = lock /\ registry' = registry /\ mag' = mag /\ tls' = tls /\ held' = held /\ th' = th
         /\ DOMAIN pool' = Pools
         /\ \A q \in Pools : pool'[q] = IF q \in Group(p) THEN NewPool(q) ELSE pool[q]
         /\ \A q \in Group(p) : q \in Pools /\ Group(q) = Group(p) /\ pool[q].mem = "freed" /\ ~Serving(q)
         /\ \A u \in Threads : \A q \in Group(p) : ~Calling(u, q)
<1>1. TypeOK BY DEF SInv
<1>2. p \in Pools BY <1>1, ScenarioFacts
<1>3. \A q \in Group(p) : q \in Pools /\ Group(q) = Group(p) BY <1>2, GroupFacts
<1>4. \A q \in Group(p) : pool[q].mem = "freed" /\ ~Serving(q) BY DEF CreatePools, Serving
<1>5. \A u \in Threads : ~Calling(u, p) BY DEF CreatePools
<1>6. \A u \in Threads : \A q \in Group(p) : ~Calling(u, q) BY <1>3, <1>5 DEF Calling
<1> QED BY <1>3, <1>4, <1>6 DEF CreatePools

LEMMA CreatePoolsKeeps ==
  ASSUME SInv, NEW t \in Threads, NEW p \in Classes, CreatePools(t, p)
  PROVE  SInv'
<1>1. /\ scenario' = scenario /\ lock' = lock /\ registry' = registry /\ mag' = mag /\ tls' = tls /\ held' = held /\ th' = th
      /\ DOMAIN pool' = Pools
      /\ \A q \in Pools : pool'[q] = IF q \in Group(p) THEN NewPool(q) ELSE pool[q]
      /\ \A q \in Group(p) : q \in Pools /\ Group(q) = Group(p) /\ pool[q].mem = "freed" /\ ~Serving(q)
      /\ \A u \in Threads : \A q \in Group(p) : ~Calling(u, q)
  BY CreatePoolsDoes
<1>2. TypeOK /\ PoolInv /\ LockInv /\ OwnInv /\ AloneInv BY DEF SInv
<1>3. Pools' = Pools /\ Classes' = Classes /\ \A q : Group(q)' = Group(q) BY <1>1, ScenarioSame
<1>4. \A q \in Pools : PoolType(pool'[q]) BY <1>1, <1>2, NewPoolFacts DEF TypeOK
<1>5. TypeOK'
  <2>1. scenario' \in Scenarios /\ lock' \in [Pools -> Threads \cup {Null}] /\ registry' \in Threads \cup {Null}
        /\ mag' \in [Mags -> MagRec] /\ tls' \in [Threads -> ListRec] /\ th' \in [Threads -> ThreadRec] /\ held' \subseteq EntryRec
    BY <1>1, <1>2 DEF TypeOK
  <2> QED BY <1>1, <1>3, <1>4, <2>1 DEF TypeOK
<1>6. \A u \in Threads : CallOK(u)' /\ HandOK(u)' /\ Own(u)' = Own(u)
  <2> TAKE u \in Threads
  <2>1. CallOK(u) BY DEF SInv
  <2>2. ASSUME th[u].op \in {"alloc", "free", "destroy"}, NEW x \in th[u].group PROVE pool'[x] = pool[x] /\ x \in Pools
    <3>1. PICK q \in Classes : th[u].group = Group(q) BY <2>1, <2>2 DEF CallOK, Called
    <3>2. x \in Pools /\ Group(x) = th[u].group BY <1>2, <2>2, <3>1, GroupIs
    <3>3. x \notin Group(p) BY <1>1, <2>2, <3>2 DEF Calling
    <3> QED BY <1>1, <3>2, <3>3
  <2>3. CallOK(u)'
    <3>1. Like(u) /\ tls'[u] = tls[u] BY <1>1 DEF Like
    <3> QED BY <1>1, <2>2, <3>1, CallFrame
  <2>4. th[u].step \in {"count", "orphan"} => pool'[th[u].p].mags = pool[th[u].p].mags
    <3>1. th[u].step \in {"count", "orphan"} => th[u].op \in {"alloc", "destroy"} /\ th[u].p \in th[u].group
      BY Counting, Destroying
    <3> QED BY <2>2, <3>1
  <2>5. Like(u) BY <1>1 DEF Like
  <2> QED BY <1>1, <2>3, <2>4, <2>5, HandFrame
<1>7. \A u \in Threads \ {t} : Own(t)' \cap Own(u) = {} BY <1>2, <1>6 DEF OwnInv
<1>8. \A q \in Pools : PoolAt(q)'
  <2> TAKE q \in Pools
  <2>1. CASE q \notin Group(p)
    <3>1. pool'[q].mem = pool[q].mem /\ pool'[q].mags = pool[q].mags BY <1>1, <2>1
    <3>2. mag'[Null].mem = mag[Null].mem /\ mag'[Null].pool = mag[Null].pool BY <1>1
    <3>3. \A n \in Mags : mag'[n].mem = mag[n].mem /\ mag'[n].pool = mag[n].pool BY <1>1
    <3>4. \A u \in Threads : th'[u] = th[u] BY <1>1
    <3> QED BY <1>1, <3>1, <3>2, <3>3, <3>4, PoolFrame
  <2>2. CASE q \in Group(p)
    <3>1. pool'[q].mem = "live" /\ pool'[q].mags = <<>> BY <1>1, <1>2, <2>2, NewPoolFacts
    <3>2. PoolAt(q) /\ pool[q].mem = "freed" /\ pool[q].mags = <<>> BY <1>1, <1>2, <2>2 DEF PoolInv, PoolAt
    <3>3. Distinct(<<>>) /\ \A n : n \notin Elems(<<>>) BY DEF Distinct, Elems
    <3>4. \A n \in Mags : ~(mag[n].mem = "live" /\ mag[n].pool = q)
      <4> SUFFICES ASSUME NEW n \in Mags, mag[n].mem = "live", mag[n].pool = q PROVE FALSE OBVIOUS
      <4>1. PICK u \in Threads : th[u].step = "orphan" /\ th[u].mag = n BY <3>2, <3>3 DEF PoolAt
      <4>2. HandOK(u) /\ pool[th[u].p].mem = "live" BY <4>1, Destroying
      <4>3. th[u].p = q BY <4>1, <4>2 DEF HandOK
      <4> QED BY <3>2, <4>2, <4>3
    <3>5. q \in Classes => 0 <= Magazines(Count(q))
      <4>1. q \in Classes => Magazines(Count(q)) \in Nat BY <1>2, ScenarioFacts, Geometry
      <4> QED BY <4>1
    <3>6. Magazines(Count(q))' = Magazines(Count(q))
      <4>1. Count(q)' = Count(q) /\ \A n : Magazines(n)' = Magazines(n) BY <1>1, ScenarioSame
      <4> QED BY <1>1, <4>1
    <3>7. Len(<<>>) = 0 OBVIOUS
    <3> QED BY <1>1, <1>3, <3>1, <3>3, <3>4, <3>5, <3>6, <3>7 DEF PoolAt
  <2> QED BY <2>1, <2>2
<1>9. LockInv' BY <1>1, <1>2, <1>3 DEF LockInv, Holding
<1>10. AloneInv' BY <1>1, <1>2 DEF AloneInv
<1>11. \A n \in Mags : mag'[n].mem = "live" => mag'[n].pool \in Classes \cup {Null} BY <1>1 DEF SInv
<1>12. ASSUME NEW x \in held' PROVE HeldOK(x)'
  <2>1. HeldOK(x) BY <1>1, <1>12 DEF SInv, HeldOK
  <2>2. x.p \notin Group(p) BY <1>1, <2>1 DEF HeldOK
  <2>3. pool'[x.p] = pool[x.p] BY <1>1, <2>1, <2>2 DEF HeldOK
  <2>4. Serving(x.p)' BY <1>1, <1>3, <2>1, <2>3 DEF HeldOK, Serving, Calling
  <2> QED BY <1>1, <1>3, <2>1, <2>4 DEF HeldOK
<1> QED BY <1>1, <1>5, <1>6, <1>7, <1>8, <1>9, <1>10, <1>11, <1>12, ListsKeep

-----------------------------------------------------------------------------
(* The invariant, and what it gives.                                       *)

LEMMA InitInv ==
  ASSUME Init
  PROVE  SInv
<1>1. /\ scenario \in Scenarios /\ pool = [p \in Pools |-> NewPool(p)] /\ lock = [p \in Pools |-> Null] /\ registry = Null
      /\ mag = [m \in Mags |-> NoMag] /\ tls = [t \in Threads |-> [mags |-> <<>>, cache |-> Null, gone |-> FALSE]]
      /\ held = {} /\ th = [t \in Threads |-> Idle]
  BY DEF Init
<1>2. scenario.classes \in Nat \ {0} /\ scenario.count \in [1 .. scenario.classes -> Nat]
  BY <1>1, MemPoolAssumption
<1>3. \A p \in Pools : PoolType(NewPool(p)) /\ NewPool(p).mem = "live" /\ NewPool(p).mags = <<>>
  <2> TAKE p \in Pools
  <2>1. Total(p) \in Nat
    <3>1. CASE p = Pseudo BY <3>1 DEF Total
    <3>2. CASE p # Pseudo
      <4>1. p \in 1 .. scenario.classes BY <1>2, <3>2 DEF Pools, Pseudo
      <4>2. Count(p) \in Nat BY <1>2, <4>1 DEF Count
      <4>3. Reserve(Count(p)) \in Nat BY <4>2, Geometry
      <4> QED BY <3>2, <4>2, <4>3 DEF Total
    <3> QED BY <3>1, <3>2
  <2>2. PICK n \in Nat : n = Total(p) BY <2>1
  <2>3. [i \in 1 .. n |-> i] \in Seq(Nat)
    <3>1. \A i \in 1 .. n : i \in Nat BY <2>2
    <3> QED BY <3>1, IsASeq
  <2>4. <<>> \in Seq(Mags) OBVIOUS
  <2>5. NewPool(p) = [mem |-> "live", free |-> [i \in 1 .. n |-> i], taken |-> {}, mags |-> <<>>, table |-> <<>>, dynamic |-> 0]
    BY <2>2 DEF NewPool
  <2> QED BY <2>2, <2>3, <2>4, <2>5 DEF PoolType
<1>4. TypeOK
  <2>1. NoMag \in MagRec
    <3>1. <<>> \in Seq(Nat) OBVIOUS
    <3> QED BY <3>1 DEF NoMag, MagRec
  <2>2. [mags |-> <<>>, cache |-> Null, gone |-> FALSE] \in ListRec
    <3>1. <<>> \in Seq(Mags) OBVIOUS
    <3> QED BY <3>1 DEF ListRec
  <2>3. DOMAIN pool = Pools /\ \A p \in Pools : PoolType(pool[p]) BY <1>1, <1>3
  <2> QED BY <1>1, <2>1, <2>2, <2>3, IdleFields DEF TypeOK
<1>5. \A t \in Threads : th[t] = Idle /\ th[t].op = "none" /\ th[t].step = "none" /\ th[t].mag = Null /\ th[t].old = Null
                         /\ th[t].todo = <<>> /\ tls[t].mags = <<>> /\ tls[t].cache = Null
  BY <1>1, IdleFields
<1>6. Distinct(<<>>) /\ \A x : x \notin Elems(<<>>) BY DEF Distinct, Elems
<1>7. \A t \in Threads : CallOK(t)
  <2> TAKE t \in Threads
  <2> QED BY <1>5 DEF CallOK
<1>8. \A t \in Threads : HandOK(t)
  <2> TAKE t \in Threads
  <2> QED BY <1>5, <1>6 DEF HandOK
<1>9. OwnInv BY <1>5, <1>6 DEF OwnInv, Own
<1>10. \A m \in Mags : mag[m].mem # "live" BY <1>1 DEF NoMag
<1>11. PoolInv
  <2> SUFFICES ASSUME NEW p \in Pools PROVE PoolAt(p) BY DEF PoolInv
  <2>1. pool[p].mem = "live" /\ pool[p].mags = <<>> BY <1>1, <1>3
  <2>2. p \in Classes => 0 <= Magazines(Count(p))
    <3>1. p \in Classes => Magazines(Count(p)) \in Nat BY <1>4, ScenarioFacts, Geometry
    <3> QED BY <3>1
  <2>3. Len(<<>>) = 0 OBVIOUS
  <2> QED BY <1>6, <1>10, <2>1, <2>2, <2>3 DEF PoolAt
<1>12. LockInv
  <2>1. \A p \in Pools : lock[p] = Null BY <1>1
  <2> QED BY <1>1, <1>5, <2>1 DEF LockInv, Holding
<1>13. AloneInv BY <1>5 DEF AloneInv
<1> QED BY <1>1, <1>4, <1>7, <1>8, <1>9, <1>10, <1>11, <1>12, <1>13 DEF SInv

LEMMA NothingKeeps ==
  ASSUME SInv, UNCHANGED vars
  PROVE  SInv'
<1>1. /\ scenario' = scenario /\ pool' = pool /\ lock' = lock /\ registry' = registry /\ mag' = mag
      /\ tls' = tls /\ held' = held /\ th' = th
  BY DEF vars, poolVars
<1>2. Pools' = Pools /\ Classes' = Classes /\ Pseudo' = Pseudo /\ \A q : Group(q)' = Group(q) /\ Count(q)' = Count(q)
  BY <1>1, ScenarioSame
<1>3. \A n : Magazines(n)' = Magazines(n) BY <1>1, ScenarioSame
<1>4. TypeOK' BY <1>1, <1>2 DEF SInv, TypeOK, PoolType
<1>5. OwnInv' BY <1>1 DEF SInv, OwnInv, Own
<1>6. \A p \in Pools : PoolAt(p)' BY <1>1, <1>2, <1>3 DEF SInv, PoolInv, PoolAt
<1>7. LockInv' BY <1>1, <1>2 DEF SInv, LockInv, Holding
<1>8. AloneInv' BY <1>1 DEF SInv, AloneInv
<1>9. ASSUME NEW u \in Threads PROVE CallOK(u)' /\ HandOK(u)'
  <2>1. Like(u) /\ tls'[u] = tls[u] BY <1>1 DEF Like
  <2> QED BY <1>1, <2>1, CallFrame, HandFrame
<1>10. ASSUME NEW x \in held' PROVE HeldOK(x)'
  <2>1. HeldOK(x) BY <1>1, <1>10 DEF SInv, HeldOK
  <2> QED BY <1>1, <1>2, <2>1 DEF HeldOK, Serving, Calling
<1>11. PoolInv' BY <1>2, <1>6 DEF PoolInv
<1>12. \A n \in Mags : mag'[n].mem = "live" => mag'[n].pool \in Classes' \cup {Null} BY <1>1, <1>2 DEF SInv
<1> QED BY <1>4, <1>5, <1>7, <1>8, <1>9, <1>10, <1>11, <1>12 DEF SInv, HeldOK

LEMMA NextKeeps ==
  ASSUME SInv, [Next]_vars
  PROVE  SInv'
<1>1. CASE UNCHANGED vars BY <1>1, NothingKeeps
<1>2. CASE Next
  <2>1. PICK t \in Threads :
          \/ \E n \in Classes : AllocCall(t, n) \/ \E x \in held : ReallocCall(t, x, n)
          \/ \E x \in held : FreeCall(t, x)
          \/ Reap(t) \/ Alloc(t) \/ GiveBack(t) \/ End(t)
    BY <1>2 DEF Next
  <2>2. CASE \/ \E n \in Classes : AllocCall(t, n) \/ \E x \in held : ReallocCall(t, x, n)
             \/ \E x \in held : FreeCall(t, x)
    BY <2>2, CallsKeep
  <2>3. CASE Reap(t) BY <2>3, ReapKeeps
  <2>4. CASE Alloc(t)
    BY <2>4, BeginsKeep, FindsKeep, BudgetsKeep, CreatesKeep, PopKeeps, RefillKeeps, ServeLocksKeeps, CountStepKeeps,
       ServeEntryKeeps, ServeDynamicKeeps, RefusedKeeps, AllocEndsKeeps
    DEF Alloc
  <2>5. CASE GiveBack(t)
    BY <2>5, BeginsKeep, FindsKeep, BudgetsKeep, CreatesKeep, FlushHalfKeeps, PushKeeps, LockedFreeKeeps, AskKeeps, AskFoundKeeps
    DEF GiveBack
  <2>6. CASE End(t)
    BY <2>6, ExitKeeps, DrainLooksKeeps, DrainFlushesKeeps, DrainEndsKeeps, DestroyKeeps, DestroyLocksKeeps,
       DestroyUnlinksKeeps, DestroyOrphansKeeps, DestroyFreesKeeps, CreatePoolsKeeps
    DEF End
  <2> QED BY <2>1, <2>2, <2>3, <2>4, <2>5, <2>6
<1> QED BY <1>1, <1>2

\* What a thread or a pool can reach, and what an exit is about to touch.
LEMMA ReachLive ==
  ASSUME SInv
  PROVE  NoDanglingMagazine
<1>1. TypeOK /\ PoolInv BY DEF SInv
<1>2. ASSUME NEW t \in Threads
      PROVE  /\ \A j \in DOMAIN tls[t].mags : mag[tls[t].mags[j]].mem = "live"
             /\ tls[t].cache # Null => mag[tls[t].cache].mem = "live"
             /\ th[t].mag # Null => mag[th[t].mag].mem = "live"
             /\ \A j \in DOMAIN th[t].todo : mag[th[t].todo[j]].mem = "live"
             /\ th[t].step = "flush" /\ th[t].p # 0 => pool[th[t].p].mem = "live"
  <2>1. CallOK(t) /\ HandOK(t) /\ th[t] \in ThreadRec BY DEF SInv, TypeOK
  <2>2. tls[t].mags \in Seq(Mags) /\ th[t].todo \in Seq(Mags) BY <1>1, OwnType
  <2>3. \A j \in DOMAIN tls[t].mags : tls[t].mags[j] \in Elems(tls[t].mags) BY <2>2 DEF Elems
  <2>4. \A j \in DOMAIN th[t].todo : th[t].todo[j] \in Elems(th[t].todo) BY <2>2 DEF Elems
  <2>5. \A m \in Elems(tls[t].mags) : mag[m].mem = "live" BY <2>1 DEF HandOK
  <2>6. tls[t].cache # Null => mag[tls[t].cache].mem = "live" BY <2>1, <2>5 DEF HandOK
  <2>7. th[t].mag # Null => mag[th[t].mag].mem = "live"
    <3>1. th[t].op \in {"alloc", "free"} /\ th[t].mag # Null => th[t].mag \in Elems(tls[t].mags) BY <2>1 DEF HandOK
    <3>2. th[t].op \in {"exit", "destroy"} /\ th[t].step # "orphan" => th[t].mag = Null BY <2>1 DEF HandOK
    <3>3. th[t].step = "orphan" => mag[th[t].mag].mem = "live" BY <2>1 DEF HandOK
    <3>4. th[t].op = "none" => th[t].mag = Null BY <2>1, IdleFields DEF CallOK
    <3>5. th[t].op \in Ops BY <2>1 DEF ThreadRec
    <3> QED BY <2>5, <3>1, <3>2, <3>3, <3>4, <3>5 DEF Ops
  <2>8. \A m \in Elems(th[t].todo) : mag[m].mem = "live"
    <3>1. CASE th[t].step = "count"
      <4>1. Elems(th[t].todo) \subseteq Elems(pool[th[t].p].mags) BY <2>1, <3>1 DEF HandOK
      <4>2. PoolAt(th[t].p) BY <1>1, <3>1, Counting DEF PoolInv
      <4> QED BY <4>1, <4>2 DEF PoolAt
    <3>2. CASE th[t].step \in {"drain", "flush"}
      <4>1. th[t].op = "exit" BY <1>1, <2>1, <3>2, StepOp
      <4> QED BY <2>1, <4>1 DEF HandOK
    <3>3. CASE th[t].step \notin {"drain", "flush", "count"}
      <4>1. \A x : x \notin Elems(<<>>) BY DEF Elems
      <4> QED BY <2>1, <3>3, <4>1 DEF HandOK
    <3> QED BY <3>1, <3>2, <3>3
  <2>9. th[t].step = "flush" /\ th[t].p # 0 => pool[th[t].p].mem = "live" BY Flushing
  <2> QED BY <2>3, <2>4, <2>5, <2>6, <2>7, <2>8, <2>9
<1>3. ASSUME NEW p \in Pools, NEW j \in DOMAIN pool[p].mags PROVE mag[pool[p].mags[j]].mem = "live"
  <2>1. PoolAt(p) /\ PoolType(pool[p]) BY <1>1 DEF PoolInv, TypeOK
  <2>2. pool[p].mags \in Seq(Mags) BY <2>1 DEF PoolType
  <2>3. pool[p].mags[j] \in Elems(pool[p].mags) BY <1>3, <2>2 DEF Elems
  <2> QED BY <2>1, <2>3 DEF PoolAt
<1> QED BY <1>2, <1>3 DEF NoDanglingMagazine

\* Under every interleaving of calls, exits and destructions no list or map
\* leads to a magazine that mempool_tls_reap or _mp_tls_drain has freed, and no
\* exit flushes a magazine into a pool that _cmempool_destroy has freed.
THEOREM Invariant == Spec => []SInv
<1>1. Init => SInv BY InitInv
<1>2. SInv /\ [Next]_vars => SInv' BY NextKeeps
<1> QED BY <1>1, <1>2, PTL DEF Spec

THEOREM MagazinesStayReachable == Spec => []NoDanglingMagazine
<1>1. SInv => NoDanglingMagazine BY ReachLive
<1> QED BY <1>1, Invariant, PTL
=============================================================================
