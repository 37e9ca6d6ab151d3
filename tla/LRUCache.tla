------------------------------- MODULE LRUCache -------------------------------
(***************************************************************************)
(* One segment of the LRU cache (src/src/clrucache.c): a map from keys to  *)
(* entries, the list that orders them by use, and the two calls that may   *)
(* leave the segment's mutex to talk to the remote store, get and set.     *)
(* A key always belongs to the same segment and segments share nothing, so *)
(* one of them is the whole protocol.                                      *)
(*                                                                         *)
(* clrucache_get_full and clrucache_get_into are the same code up to the   *)
(* size check of the second: `want' is AnySize for the first, the size of  *)
(* the caller's buffer for the second.  A call holds a pin from            *)
(* resolve to return, which destroy waits for; HandleTable models that.    *)
(***************************************************************************)
EXTENDS Integers, FiniteSets, SequencesExt

CONSTANTS
  Callers, Keys, Values,
  SizeOf,                 \* value -> its size in bytes
  AnySize,                \* the size a get_full asks for
  BufferSizes,            \* sizes of the buffers given to get_into
  Capacity,               \* entries the segment may hold
  Callbacks,              \* the sets of callbacks a cache may be created with
  MaxCalls,               \* bound: calls made in a behaviour
  Null

\* Addresses of entries: one in the map per key, one more held per thread.
Entries == 1 .. (Cardinality(Keys) + Cardinality(Callers))

ASSUME LRUAssumption ==
  /\ Capacity \in Nat \ {0} /\ MaxCalls \in Nat
  /\ Callbacks \subseteq SUBSET {"getter", "setter"}
  /\ IsFiniteSet(Keys) /\ IsFiniteSet(Callers)
  /\ Null \notin Values \cup Entries

VARIABLES
  shard,     \* [map, entry, lru (most recent first), size]
  mutex,     \* thread that keeps the segment's mutex into its next step, or Null
  thread,    \* the call each thread is in
  store,     \* the remote store: key -> value
  cache,     \* [open: not yet destroyed, callbacks: given at creation]
  calls

cacheVars == <<shard, mutex, thread, store, cache, calls>>

HasGetter == "getter" \in cache.callbacks
HasSetter == "setter" \in cache.callbacks

\* A freed entry keeps no field that the code may read: alive is FALSE.
Freed ==
  [alive |-> FALSE, key |-> Null, value |-> Null, fetching |-> FALSE,
   setting |-> FALSE, evicted |-> FALSE, mismatch |-> FALSE, failed |-> FALSE,
   waiters |-> 0, asleep |-> {}]

Idle == [pc |-> "idle", op |-> Null, key |-> Null, want |-> Null, val |-> Null,
         ent |-> Null, ok |-> FALSE, ret |-> Null, seen |-> {}]

CacheInit ==
  /\ shard = [map |-> [k \in Keys |-> Null], entry |-> [e \in Entries |-> Freed],
              lru |-> <<>>, size |-> 0]
  /\ mutex = Null /\ thread = [t \in Callers |-> Idle]
  /\ store \in [Keys -> Values]
  /\ cache \in [open : {TRUE}, callbacks : Callbacks] /\ calls = 0

-----------------------------------------------------------------------------
(* The segment's helpers, as functions from a segment to a segment.         *)

InLRU(s, e) == \E i \in DOMAIN s.lru : s.lru[i] = e
Busy(s, e) == s.entry[e].fetching \/ s.entry[e].setting

\* Mutant: the entry goes although others still wait for it.
Release_Early(s, e) ==
  IF s.entry[e].evicted THEN [s EXCEPT !.entry[e] = Freed] ELSE s

\* entry_free, by whoever finds an entry out of the map with no waiter left.
Release(s, e) ==
  IF s.entry[e].evicted /\ s.entry[e].waiters = 0
  THEN [s EXCEPT !.entry[e] = Freed] ELSE s

\* Out of the map and out of reach for later calls; its waiters are woken.
Unmap(s, e) ==
  [s EXCEPT !.map[s.entry[e].key] = Null,
            !.entry[e] = [@ EXCEPT !.evicted = TRUE, !.asleep = {}]]

\* The least recently used entry goes.  One that is being set only loses its
\* value and its place: the setter still needs the entry.
EvictLRU(s) ==
  LET v == Last(s.lru)
      s1 == [s EXCEPT !.lru = Front(s.lru), !.size = @ - 1]
  IN  IF s.entry[v].setting
      THEN [s1 EXCEPT !.entry[v].value = Null]
      ELSE Release(Unmap(s1, v), v)

MakeRoom(s) ==
  LET after[n \in 0 .. Cardinality(Entries)] ==
        IF n = 0 THEN s
        ELSE LET p == after[n - 1]
             IN  IF p.size >= Capacity /\ p.lru # <<>> THEN EvictLRU(p) ELSE p
  IN  after[Cardinality(Entries)]

MoveToFront(s, e) == [s EXCEPT !.lru = <<e>> \o RemoveFirst(s.lru, e)]

\* A new value becomes the most recently used one.
StoreValue(s, e, v) ==
  LET s1 == [s EXCEPT !.entry[e].value = v]
      s2 == MakeRoom(s1)
  IN  IF InLRU(s, e) THEN MoveToFront(s1, e)
      ELSE [s2 EXCEPT !.lru = <<e>> \o @, !.size = @ + 1]

FreshEntry(s) == CHOOSE e \in Entries :
                   ~s.entry[e].alive /\ \A f \in 1 .. (e - 1) : s.entry[f].alive

\* A placeholder for k, which a lookup finds from here on.
Insert(s, k, e) ==
  [s EXCEPT !.map[k] = e,
            !.entry[e] = [Freed EXCEPT !.alive = TRUE, !.key = k]]

Enter(s, e) == [s EXCEPT !.entry[e].waiters = @ + 1]
Exit(s, e) == [s EXCEPT !.entry[e].waiters = @ - 1]
Sleep(s, e, t) == [s EXCEPT !.entry[e].asleep = @ \cup {t}]
Broadcast(s, e) == [s EXCEPT !.entry[e].asleep = {}]

-----------------------------------------------------------------------------
(* The calls.                                                               *)

Move(t, to, e) == thread' = [thread EXCEPT ![t].pc = to, ![t].ent = e]

\* `ret' is the answer, `v' what a get copied out for its caller.
Answer(t, ret, v) ==
  /\ thread' = [thread EXCEPT ![t].pc = "done", ![t].ent = Null,
                              ![t].ret = ret, ![t].val = v]
  /\ mutex' = Null

Fits(t, v) == v # Null /\ thread[t].want \in {AnySize, SizeOf[v]}

Call(t, pc, op, k, want, v) ==
  /\ cache.open /\ thread[t].pc = "idle" /\ calls < MaxCalls
  /\ thread' = [thread EXCEPT ![t] = [Idle EXCEPT
       !.pc = pc, !.op = op, !.key = k, !.want = want, !.val = v,
       !.seen = {store[k]}]]
  /\ calls' = calls + 1
  /\ UNCHANGED <<shard, mutex, store, cache>>

GetCall(t) ==
  \E k \in Keys, w \in BufferSizes \cup {AnySize} : Call(t, "enter", "get", k, w, Null)

\* A set copies its value first, and ends here when it cannot.
SetCall(t) ==
  \E k \in Keys, v \in Values :
    Call(t, "enter", "set", k, Null, v) \/ Call(t, "done", "set", k, Null, v)

\* At the lookup, holding the mutex it has just taken or kept.
AtLookup(t, op) ==
  /\ thread[t].pc = "enter" /\ thread[t].op = op
  /\ mutex \in {Null, t}
Found(t) == shard.map[thread[t].key]

\* No memory for the entry, its key or the map's node: each of them is taken
\* before anything has changed.
NoMemory(t) ==
  /\ AtLookup(t, "set") \/ (AtLookup(t, "get") /\ HasGetter)
  /\ Found(t) = Null
  /\ Answer(t, "nomem", Null)
  /\ UNCHANGED <<shard, store, cache, calls>>

\* A call that finds the key being fetched or set waits for it.
WaitForEntry(t) ==
  /\ \E op \in {"get", "set"} : AtLookup(t, op)
  /\ Found(t) # Null /\ Busy(shard, Found(t))
  /\ shard' = Sleep(Enter(shard, Found(t)), Found(t), t)
  /\ Move(t, "wait", Found(t)) /\ mutex' = Null
  /\ UNCHANGED <<store, cache, calls>>

GetNotCached(t) ==
  /\ AtLookup(t, "get") /\ Found(t) = Null /\ ~HasGetter
  /\ Answer(t, "notfound", Null)
  /\ UNCHANGED <<shard, store, cache, calls>>

\* The first get to miss puts a placeholder in the map and fetches.
GetMiss(t) ==
  /\ AtLookup(t, "get") /\ Found(t) = Null /\ HasGetter
  /\ \E e \in {FreshEntry(shard)} :
       /\ shard' = [Enter(Insert(shard, thread[t].key, e), e)
                      EXCEPT !.entry[e].fetching = TRUE]
       /\ Move(t, "remote", e)
  /\ mutex' = Null
  /\ UNCHANGED <<store, cache, calls>>

\* The value is copied out under the mutex; an evicted entry is only released.
\* get_full allocates the copy, and leaves the list alone when it cannot.
Hit(t, s, e) ==
  \E v \in {s.entry[e].value} :
    \/ /\ Fits(t, v)
       /\ shard' = Release(IF s.entry[e].evicted THEN s ELSE MoveToFront(s, e), e)
       /\ Answer(t, "ok", v)
    \/ /\ ~Fits(t, v)
       /\ shard' = Release(s, e) /\ Answer(t, "mismatch", Null)
    \/ /\ thread[t].want = AnySize
       /\ shard' = Release(s, e) /\ Answer(t, "nomem", Null)

GetHit(t) ==
  /\ AtLookup(t, "get") /\ Found(t) # Null /\ ~Busy(shard, Found(t))
  /\ Hit(t, shard, Found(t))
  /\ UNCHANGED <<store, cache, calls>>

\* The remote getter reads the store, or fails; no mutex is held.
RemoteGet(t) ==
  /\ thread[t].pc = "remote" /\ thread[t].op = "get"
  /\ \E v \in {store[thread[t].key], Null} :
       thread' = [thread EXCEPT ![t].pc = "back", ![t].val = v]
  /\ UNCHANGED <<shard, mutex, store, cache, calls>>

\* The fetch is over: publish the value, or take the placeholder out again
\* and leave its waiters the reason.
FetchDone(t) ==
  /\ thread[t].pc = "back" /\ thread[t].op = "get" /\ mutex = Null
  /\ \E e \in {thread[t].ent}, v \in {thread[t].val} :
     \E s \in {[Exit(shard, e) EXCEPT !.entry[e].fetching = FALSE]} :
       \/ /\ Fits(t, v)
          /\ shard' = Broadcast(StoreValue(s, e, v), e)
          /\ \/ Answer(t, "ok", v)
             \/ thread[t].want = AnySize /\ Answer(t, "nomem", Null)
       \/ /\ ~Fits(t, v)
          /\ shard' = Release(Unmap([s EXCEPT
               !.entry[e].failed = TRUE, !.entry[e].mismatch = v # Null], e), e)
          /\ Answer(t, IF v = Null THEN "notfound" ELSE "mismatch", Null)
  /\ UNCHANGED <<store, cache, calls>>

\* Mutant: the value stays although the remote setter failed.
EndSet_StoresAnyway(s, e, v, ok) ==
  Release(Broadcast([StoreValue(s, e, v) EXCEPT !.entry[e].setting = FALSE], e), e)

\* The set is over, the mutex held again: the new value, or nothing at all;
\* a key that has no cached value then leaves the map.
EndSet(s, e, v, ok) ==
  LET s1 == IF ok THEN StoreValue(s, e, v)
            ELSE IF InLRU(s, e) THEN s ELSE Unmap(s, e)
  IN  Release(Broadcast([s1 EXCEPT !.entry[e].setting = FALSE], e), e)

\* The entry is this set's alone from here to EndSet.
BeginSet(t, s, e) ==
  \E s1 \in {[s EXCEPT !.entry[e].setting = TRUE]} :
    \/ /\ HasSetter
       /\ shard' = Enter(s1, e) /\ Move(t, "remote", e) /\ mutex' = Null
    \/ /\ ~HasSetter
       /\ shard' = EndSet(s1, e, thread[t].val, TRUE) /\ Answer(t, "ok", Null)

\* Mutant: a set does not wait for the call that works on the key.
SetEntry_NoWait(t) ==
  /\ AtLookup(t, "set")
  /\ \/ /\ Found(t) = Null
        /\ \E e \in {FreshEntry(shard)} :
             BeginSet(t, Insert(shard, thread[t].key, e), e)
     \/ Found(t) # Null /\ BeginSet(t, shard, Found(t))
  /\ UNCHANGED <<store, cache, calls>>

SetEntry(t) ==
  /\ AtLookup(t, "set")
  /\ \/ /\ Found(t) = Null
        /\ \E e \in {FreshEntry(shard)} :
             BeginSet(t, Insert(shard, thread[t].key, e), e)
     \/ /\ Found(t) # Null /\ ~Busy(shard, Found(t))
        /\ BeginSet(t, shard, Found(t))
  /\ UNCHANGED <<store, cache, calls>>

\* The remote setter stores the value, or fails and stores nothing.  Every
\* call under way for that key has now seen both values.
RemoteSet(t) ==
  /\ thread[t].pc = "remote" /\ thread[t].op = "set"
  /\ \E ok \in BOOLEAN, k \in {thread[t].key} :
       /\ store' = [store EXCEPT ![k] = IF ok THEN thread[t].val ELSE @]
       /\ thread' = [u \in Callers |->
            [thread[u] EXCEPT
               !.pc = IF u = t THEN "back" ELSE @,
               !.ok = IF u = t THEN ok ELSE @,
               !.seen = IF thread[u].key = k /\ thread[u].pc # "done"
                        THEN @ \cup {store'[k]} ELSE @]]
  /\ UNCHANGED <<shard, mutex, cache, calls>>

SetDone(t) ==
  /\ thread[t].pc = "back" /\ thread[t].op = "set" /\ mutex = Null
  /\ \E e \in {thread[t].ent} :
       shard' = EndSet(Exit(shard, e), e, thread[t].val, thread[t].ok)
  /\ Answer(t, IF thread[t].ok THEN "ok" ELSE "failed", Null)
  /\ UNCHANGED <<store, cache, calls>>

-----------------------------------------------------------------------------
(* Waiting on an entry's condition variable.                                *)

Sleeping(t) == thread[t].pc = "wait" /\ t \in shard.entry[thread[t].ent].asleep

\* A wake-up nobody sent, which the condition variable allows.
Spurious(t) ==
  /\ Sleeping(t)
  /\ shard' = [shard EXCEPT !.entry[thread[t].ent].asleep = @ \ {t}]
  /\ UNCHANGED <<mutex, thread, store, cache, calls>>

AtWake(t) == thread[t].pc = "wait" /\ ~Sleeping(t) /\ mutex = Null

WaitAgain(t) ==
  /\ AtWake(t) /\ Busy(shard, thread[t].ent)
  /\ shard' = Sleep(shard, thread[t].ent, t)
  /\ UNCHANGED <<mutex, thread, store, cache, calls>>

\* Back to the lookup.  The mutex is only given up to free the entry.
LookAgain(t, s, e) ==
  /\ shard' = Release(s, e)
  /\ Move(t, "enter", Null)
  /\ mutex' = IF s.entry[e].evicted /\ s.entry[e].waiters = 0 THEN Null ELSE t

\* The fetch or the set a get waited for has ended.
GetWakes(t) ==
  /\ AtWake(t) /\ thread[t].op = "get" /\ ~Busy(shard, thread[t].ent)
  /\ \E e \in {thread[t].ent} : \E s \in {Exit(shard, e)} :
       \/ /\ s.entry[e].value = Null /\ ~s.entry[e].failed
          /\ LookAgain(t, s, e)
       \/ /\ s.entry[e].value = Null /\ s.entry[e].failed
          /\ shard' = Release(s, e)
          /\ Answer(t, IF s.entry[e].mismatch THEN "mismatch" ELSE "notfound", Null)
       \/ /\ s.entry[e].value # Null
          /\ Hit(t, s, e)
  /\ UNCHANGED <<store, cache, calls>>

\* A set takes over the entry it waited for, unless that has left the map.
SetWakes(t) ==
  /\ AtWake(t) /\ thread[t].op = "set" /\ ~Busy(shard, thread[t].ent)
  /\ \E e \in {thread[t].ent} : \E s \in {Exit(shard, e)} :
       \/ ~s.entry[e].evicted /\ BeginSet(t, s, e)
       \/ s.entry[e].evicted /\ LookAgain(t, s, e)
  /\ UNCHANGED <<store, cache, calls>>

\* The caller has its answer.
Returned(t) ==
  /\ thread[t].pc = "done"
  /\ thread' = [thread EXCEPT ![t] = Idle]
  /\ UNCHANGED <<shard, mutex, store, cache, calls>>

\* clrucache_destroy, once no call holds a pin: it evicts what the list holds
\* and drops the map.
Destroy ==
  /\ cache.open /\ \A t \in Callers : thread[t].pc = "idle"
  /\ cache' = [cache EXCEPT !.open = FALSE]
  /\ shard' = LET gone[n \in 0 .. Cardinality(Entries)] ==
                    IF n = 0 THEN shard
                    ELSE LET p == gone[n - 1]
                         IN  IF p.lru = <<>> THEN p ELSE EvictLRU(p)
              IN  [gone[Cardinality(Entries)] EXCEPT !.map = [k \in Keys |-> Null]]
  /\ UNCHANGED <<mutex, thread, store, calls>>

Closed == ~cache.open /\ UNCHANGED cacheVars

\* What a thread does once it has made a call.
Step(t) ==
  \/ NoMemory(t) \/ WaitForEntry(t) \/ GetNotCached(t) \/ GetMiss(t) \/ GetHit(t)
  \/ RemoteGet(t) \/ FetchDone(t) \/ SetEntry(t) \/ RemoteSet(t) \/ SetDone(t)
  \/ WaitAgain(t) \/ GetWakes(t) \/ SetWakes(t) \/ Returned(t)

CacheNext ==
  \/ \E t \in Callers : GetCall(t) \/ SetCall(t) \/ Step(t) \/ Spurious(t)
  \/ Destroy \/ Closed

CacheSpec == CacheInit /\ [][CacheNext]_cacheVars

-----------------------------------------------------------------------------
Held == {thread[t].ent : t \in Callers} \ {Null}
Mapped == {shard.map[k] : k \in Keys} \ {Null}
Listed == {shard.lru[i] : i \in DOMAIN shard.lru}

\* No pointer to a freed entry is left anywhere: not in the map, not in the
\* use-order list, not in a call that sleeps or talks to the remote store
\* while others evict, fail and free (src/src/clrucache.c 580, 1423, 1474,
\* 1719, 1814).
NoDanglingEntry ==
  \A e \in Held \cup Mapped \cup Listed : shard.entry[e].alive

\* And no entry is lost: whatever is allocated is in the map or in the hands
\* of a call that will free it; the last waiter of an entry that failed or was
\* evicted must not leave it behind.  So destroy, which only walks the list
\* (831), frees everything.
NoLeak ==
  \A e \in Entries : shard.entry[e].alive => e \in Held \cup Mapped

\* An entry nobody fetches or sets is in the map exactly when it is in the
\* list, with a value, so the assertions at 1501-1502 hold and every idle key
\* can be evicted; the list has no duplicates, its length is the count, and
\* that never passes the capacity.
Published ==
  /\ \A k \in Keys :
       LET e == shard.map[k] IN
       e # Null => /\ shard.entry[e].key = k
                   /\ ~Busy(shard, e) => InLRU(shard, e)
  /\ \A e \in Listed : shard.entry[e].value # Null /\ e \in Mapped
  /\ Cardinality(Listed) = Len(shard.lru) /\ Len(shard.lru) = shard.size
  /\ shard.size <= Capacity

\* At most one remote call per key is under way: gets that miss together share
\* one fetch, sets are serialised, and neither overlaps the other.
SingleFlight ==
  \A t, u \in Callers :
    /\ t # u /\ thread[t].pc \in {"remote", "back"} /\ thread[u].pc \in {"remote", "back"}
    => thread[t].key # thread[u].key

\* With both callbacks, a get answers with a value the remote store held at
\* some moment of the call, even when it waited for an entry that was set or
\* evicted before it woke.
GetsFresh ==
  HasGetter /\ HasSetter =>
    \A t \in Callers :
      /\ thread[t].pc = "done" /\ thread[t].op = "get" /\ thread[t].ret = "ok"
      => thread[t].val \in thread[t].seen

\* Nobody sleeps for ever: as long as a call sleeps on an entry, the one that
\* fetches or sets it is still under way and signals at its end, also when the
\* entry is evicted or taken out of the map meanwhile.
SleepersWake ==
  \A t \in Callers :
    Sleeping(t) => \E u \in Callers :
      thread[u].pc \in {"remote", "back"} /\ thread[u].ent = thread[t].ent

\* What the map, the list and the calls point at is alive, everything alive is
\* pointed at, and idle entries are where a get and an eviction look for them.
EntriesIntact == NoDanglingEntry /\ NoLeak /\ Published

\* One call works for all who wait: never two at once for a key, and none gone
\* while somebody still sleeps on its entry.
OneWorksForAll == SingleFlight /\ SleepersWake
=============================================================================
