-------------------------- MODULE ContainerProofs --------------------------
(***************************************************************************)
(* Proofs about the containers that threads share, for every size and any  *)
(* number of threads.                                                      *)
(*                                                                         *)
(* The two queues of src/src/cthreadcomm.c.  The ring (CircQueue): the     *)
(* waiting counters are exact, no wake-up is lost and the ring implements  *)
(* BoundedFIFO.  The list (DynQueue, here List): its links stay intact, no *)
(* wake-up is lost and the list implements BoundedFIFO.                    *)
(*                                                                         *)
(* The cache of src/src/clrucache.c (LRUCache), for every choice of        *)
(* callbacks.  LRUInv says of each entry where it is and which calls hold  *)
(* it, FreshInv what the cached values have to do with the remote store's. *)
(* A step changes one entry and one call, so most lemmas are about the     *)
(* entries and calls that are not being changed (OthersOK, OthersFresh).   *)
(***************************************************************************)
EXTENDS MCQueues, LRUCache, SequenceLemmas

(* Part one: the ring.                                                     *)

\* The write index is msg_count slots after the read index, round the ring.
RingInv ==
  write_index = IF read_index + msg_count < MaxSize THEN read_index + msg_count
                ELSE read_index + msg_count - MaxSize

\* A sender in a call holds its own message; senders and receivers are in
\* their own sections.
CallInv ==
  /\ \A t \in Senders : /\ pc[t] \in {"idle", "send", "write_cond"}
                        /\ pc[t] # "idle" => msg[t] \in Messages /\ msg[t].from = t
  /\ \A r \in Receivers : pc[r] \in {"idle", "recv", "read_cond"}

IInv == TypeOK /\ RingInv /\ CallInv /\ WaitersCounted

WritersAt == {t \in Senders : pc[t] = "write_cond"}
ReadersAt == {r \in Receivers : pc[r] = "read_cond"}

-----------------------------------------------------------------------------
(* Counting the threads at a condition variable.                           *)

LEMMA AtFinite ==
  /\ IsFiniteSet(WritersAt) /\ Cardinality(WritersAt) \in Nat
  /\ IsFiniteSet(ReadersAt) /\ Cardinality(ReadersAt) \in Nat
<1>1. WritersAt \subseteq Senders /\ ReadersAt \subseteq Receivers
  BY DEF WritersAt, ReadersAt
<1> QED BY <1>1, QueueAssumption, FS_Subset, FS_CardinalityType

LEMMA AtFiniteNext ==
  /\ IsFiniteSet(WritersAt') /\ Cardinality(WritersAt') \in Nat
  /\ IsFiniteSet(ReadersAt') /\ Cardinality(ReadersAt') \in Nat
<1>1. WritersAt' \subseteq Senders /\ ReadersAt' \subseteq Receivers
  BY DEF WritersAt, ReadersAt
<1> QED BY <1>1, QueueAssumption, FS_Subset, FS_CardinalityType

\* What a step of thread t does to the number of threads at write_cond.
LEMMA CountWriters ==
  ASSUME TypeOK, NEW t \in Threads, NEW to, pc' = [pc EXCEPT ![t] = to]
  PROVE  /\ t \in Senders /\ pc[t] # "write_cond" /\ to = "write_cond" =>
              Cardinality(WritersAt') = Cardinality(WritersAt) + 1
         /\ t \in Senders /\ pc[t] = "write_cond" /\ to # "write_cond" =>
              Cardinality(WritersAt') = Cardinality(WritersAt) - 1 /\ Cardinality(WritersAt) > 0
         /\ t \notin Senders => Cardinality(WritersAt') = Cardinality(WritersAt)
         /\ pc[t] = "write_cond" /\ to = "write_cond" => Cardinality(WritersAt') = Cardinality(WritersAt)
         /\ pc[t] # "write_cond" /\ to # "write_cond" => Cardinality(WritersAt') = Cardinality(WritersAt)
<1>1. pc \in [Threads -> {"idle", "send", "write_cond", "recv", "read_cond"}] /\ Senders \subseteq Threads
  BY DEF TypeOK, Threads
<1>2. ASSUME t \in Senders /\ pc[t] # "write_cond" /\ to = "write_cond" PROVE Cardinality(WritersAt') = Cardinality(WritersAt) + 1
  <2>1. WritersAt' = WritersAt \cup {t} /\ t \notin WritersAt BY <1>1, <1>2 DEF WritersAt
  <2> QED BY <1>2, <2>1, AtFinite, FS_AddElement
<1>3. ASSUME t \in Senders /\ pc[t] = "write_cond" /\ to # "write_cond" PROVE Cardinality(WritersAt') = Cardinality(WritersAt) - 1 /\ Cardinality(WritersAt) > 0
  <2>1. WritersAt' = WritersAt \ {t} /\ t \in WritersAt BY <1>1, <1>3 DEF WritersAt
  <2>2. Cardinality(WritersAt) # 0 BY <2>1, AtFinite, FS_EmptySet
  <2>3. Cardinality(WritersAt') = Cardinality(WritersAt) - 1 BY <2>1, AtFinite, FS_RemoveElement
  <2> QED BY <2>2, <2>3, AtFinite
<1>4. ASSUME t \notin Senders \/ (pc[t] = "write_cond" <=> to = "write_cond") PROVE Cardinality(WritersAt') = Cardinality(WritersAt)
  <2>1. WritersAt' = WritersAt BY <1>1, <1>4 DEF WritersAt
  <2> QED BY <1>4, <2>1
<1> QED BY <1>2, <1>3, <1>4

\* What a step of thread t does to the number of threads at read_cond.
LEMMA CountReaders ==
  ASSUME TypeOK, NEW t \in Threads, NEW to, pc' = [pc EXCEPT ![t] = to]
  PROVE  /\ t \in Receivers /\ pc[t] # "read_cond" /\ to = "read_cond" =>
              Cardinality(ReadersAt') = Cardinality(ReadersAt) + 1
         /\ t \in Receivers /\ pc[t] = "read_cond" /\ to # "read_cond" =>
              Cardinality(ReadersAt') = Cardinality(ReadersAt) - 1 /\ Cardinality(ReadersAt) > 0
         /\ t \notin Receivers => Cardinality(ReadersAt') = Cardinality(ReadersAt)
         /\ pc[t] = "read_cond" /\ to = "read_cond" => Cardinality(ReadersAt') = Cardinality(ReadersAt)
         /\ pc[t] # "read_cond" /\ to # "read_cond" => Cardinality(ReadersAt') = Cardinality(ReadersAt)
<1>1. pc \in [Threads -> {"idle", "send", "write_cond", "recv", "read_cond"}] /\ Receivers \subseteq Threads
  BY DEF TypeOK, Threads
<1>2. ASSUME t \in Receivers /\ pc[t] # "read_cond" /\ to = "read_cond" PROVE Cardinality(ReadersAt') = Cardinality(ReadersAt) + 1
  <2>1. ReadersAt' = ReadersAt \cup {t} /\ t \notin ReadersAt BY <1>1, <1>2 DEF ReadersAt
  <2> QED BY <1>2, <2>1, AtFinite, FS_AddElement
<1>3. ASSUME t \in Receivers /\ pc[t] = "read_cond" /\ to # "read_cond" PROVE Cardinality(ReadersAt') = Cardinality(ReadersAt) - 1 /\ Cardinality(ReadersAt) > 0
  <2>1. ReadersAt' = ReadersAt \ {t} /\ t \in ReadersAt BY <1>1, <1>3 DEF ReadersAt
  <2>2. Cardinality(ReadersAt) # 0 BY <2>1, AtFinite, FS_EmptySet
  <2>3. Cardinality(ReadersAt') = Cardinality(ReadersAt) - 1 BY <2>1, AtFinite, FS_RemoveElement
  <2> QED BY <2>2, <2>3, AtFinite
<1>4. ASSUME t \notin Receivers \/ (pc[t] = "read_cond" <=> to = "read_cond") PROVE Cardinality(ReadersAt') = Cardinality(ReadersAt)
  <2>1. ReadersAt' = ReadersAt BY <1>1, <1>4 DEF ReadersAt
  <2> QED BY <1>4, <2>1
<1> QED BY <1>2, <1>3, <1>4

\* A thread of its own kind leaves write_cond, or was not there.
LEMMA WritersLeave ==
  ASSUME TypeOK, NEW t \in Senders, NEW to, to # "write_cond", pc' = [pc EXCEPT ![t] = to]
  PROVE  Cardinality(WritersAt') = IF pc[t] = "write_cond" THEN Cardinality(WritersAt) - 1 ELSE Cardinality(WritersAt)
<1>1. t \in Threads BY DEF Threads
<1>2. CASE pc[t] = "write_cond" BY <1>1, <1>2, CountWriters
<1>3. CASE pc[t] # "write_cond" BY <1>1, <1>3, CountWriters
<1> QED BY <1>2, <1>3

\* A thread of its own kind leaves read_cond, or was not there.
LEMMA ReadersLeave ==
  ASSUME TypeOK, NEW t \in Receivers, NEW to, to # "read_cond", pc' = [pc EXCEPT ![t] = to]
  PROVE  Cardinality(ReadersAt') = IF pc[t] = "read_cond" THEN Cardinality(ReadersAt) - 1 ELSE Cardinality(ReadersAt)
<1>1. t \in Threads BY DEF Threads
<1>2. CASE pc[t] = "read_cond" BY <1>1, <1>2, CountReaders
<1>3. CASE pc[t] # "read_cond" BY <1>1, <1>3, CountReaders
<1> QED BY <1>2, <1>3

-----------------------------------------------------------------------------
(* The inductive invariant.                                                *)

LEMMA Counted == WaitersCounted <=> /\ writers_waiting = Cardinality(WritersAt)
                                    /\ readers_waiting = Cardinality(ReadersAt)
BY DEF WaitersCounted, WritersAt, ReadersAt

LEMMA CountedNext == WaitersCounted' <=> /\ writers_waiting' = Cardinality(WritersAt')
                                         /\ readers_waiting' = Cardinality(ReadersAt')
BY DEF WaitersCounted, WritersAt, ReadersAt

LEMMA InvInit == Init => IInv
<1> SUFFICES ASSUME Init PROVE IInv
  OBVIOUS
<1>1. TypeOK
  <2>1. 0 \in Slots BY QueueAssumption DEF Slots
  <2>2. /\ msg_array \in [Slots -> Messages \cup {Nothing}]
        /\ msg \in [Senders -> Messages \cup {Nothing}]
    BY DEF Init
  <2>3. /\ pc \in [Threads -> {"idle", "send", "write_cond", "recv", "read_cond"}]
        /\ mode \in [Threads -> {"none", "block", "try", "timed"}]
    BY DEF Init
  <2>4. 0 \in Nat /\ 0 \in 0 .. MaxSize BY QueueAssumption
  <2>5. /\ read_index \in Slots /\ write_index \in Slots /\ msg_count \in 0 .. MaxSize
        /\ readers_waiting \in Nat /\ writers_waiting \in Nat
    BY <2>1, <2>4 DEF Init
  <2>6. writing_disabled \in BOOLEAN /\ asleep \subseteq Threads /\ got \in Messages \cup {Nothing}
    BY DEF Init
  <2> QED BY <2>2, <2>3, <2>5, <2>6 DEF TypeOK
<1>2. RingInv /\ CallInv BY QueueAssumption DEF Init, RingInv, CallInv, Threads
<1>3. WritersAt = {} /\ ReadersAt = {} BY QueueAssumption DEF Init, WritersAt, ReadersAt, Threads
<1>4. Cardinality(WritersAt) = 0 /\ Cardinality(ReadersAt) = 0 BY <1>3, FS_EmptySet
<1>5. WaitersCounted BY <1>4, Counted DEF Init
<1> QED BY <1>1, <1>2, <1>5 DEF IInv

LEMMA SendCallStep ==
  ASSUME IInv, NEW t \in Senders, NEW d \in Data, NEW m \in {"block", "try", "timed"}, SendCall(t, d, m)
  PROVE  IInv'
<1>1. TypeOK /\ RingInv /\ CallInv /\ WaitersCounted BY DEF IInv
<1>2. t \in Threads /\ Senders \cap Receivers = {} /\ pc' = [pc EXCEPT ![t] = "send"]
  BY QueueAssumption DEF Threads, SendCall, Return, Goto
<1>3. WaitersCounted'
  <2>1. Cardinality(WritersAt') = IF pc[t] = "write_cond" THEN Cardinality(WritersAt) - 1 ELSE Cardinality(WritersAt)
    BY <1>1, <1>2, WritersLeave
  <2>2. Cardinality(ReadersAt') = Cardinality(ReadersAt)
    BY <1>1, <1>2, CountReaders
  <2> QED BY <1>1, <2>1, <2>2, Counted, CountedNext, AtFinite DEF SendCall, At, Entering, Woken, CountedOut
<1>4. readers_waiting' \in Nat /\ writers_waiting' \in Nat
  BY <1>3, CountedNext, AtFiniteNext
<1>5. RingInv' /\ msg_count' \in 0 .. MaxSize /\ read_index' \in Slots /\ write_index' \in Slots
  BY <1>1, QueueAssumption DEF TypeOK, RingInv, Slots, SendCall, ringVars, Full, Empty, NextIndex
<1>6. CallInv'
  BY <1>1, <1>2 DEF TypeOK, CallInv, Threads, Messages, SendCall, At, Entering, Woken, Return
<1>7. TypeOK'
  BY <1>1, <1>2, <1>4, <1>5 DEF TypeOK, CallInv, Messages, SendCall, At, Entering, Woken, Return, SignalIf, On, ringVars, Modes
<1> QED BY <1>3, <1>5, <1>6, <1>7 DEF IInv

LEMMA SendRefusedStep ==
  ASSUME IInv, NEW t \in Senders, SendRefused(t)
  PROVE  IInv'
<1>1. TypeOK /\ RingInv /\ CallInv /\ WaitersCounted BY DEF IInv
<1>2. t \in Threads /\ Senders \cap Receivers = {} /\ pc' = [pc EXCEPT ![t] = "idle"]
  BY QueueAssumption DEF Threads, SendRefused, Return, Goto
<1>3. WaitersCounted'
  <2>1. Cardinality(WritersAt') = IF pc[t] = "write_cond" THEN Cardinality(WritersAt) - 1 ELSE Cardinality(WritersAt)
    BY <1>1, <1>2, WritersLeave
  <2>2. Cardinality(ReadersAt') = Cardinality(ReadersAt)
    BY <1>1, <1>2, CountReaders
  <2> QED BY <1>1, <2>1, <2>2, Counted, CountedNext, AtFinite DEF SendRefused, At, Entering, Woken, CountedOut
<1>4. readers_waiting' \in Nat /\ writers_waiting' \in Nat
  BY <1>3, CountedNext, AtFiniteNext
<1>5. RingInv' /\ msg_count' \in 0 .. MaxSize /\ read_index' \in Slots /\ write_index' \in Slots
  BY <1>1, QueueAssumption DEF TypeOK, RingInv, Slots, SendRefused, ringVars, Full, Empty, NextIndex
<1>6. CallInv'
  BY <1>1, <1>2 DEF TypeOK, CallInv, Threads, Messages, SendRefused, At, Entering, Woken, Return
<1>7. TypeOK'
  BY <1>1, <1>2, <1>4, <1>5 DEF TypeOK, CallInv, Messages, SendRefused, At, Entering, Woken, Return, SignalIf, On, ringVars, Modes
<1> QED BY <1>3, <1>5, <1>6, <1>7 DEF IInv

LEMMA SendWaitsStep ==
  ASSUME IInv, NEW t \in Senders, SendWaits(t)
  PROVE  IInv'
<1>1. TypeOK /\ RingInv /\ CallInv /\ WaitersCounted BY DEF IInv
<1>2. t \in Threads /\ Senders \cap Receivers = {} /\ pc' = [pc EXCEPT ![t] = "write_cond"]
  BY QueueAssumption DEF Threads, SendWaits, Return, Goto
<1>3. WaitersCounted'
  <2>1. Cardinality(WritersAt') = IF pc[t] = "write_cond" THEN Cardinality(WritersAt) ELSE Cardinality(WritersAt) + 1
    BY <1>1, <1>2, CountWriters
  <2>2. Cardinality(ReadersAt') = Cardinality(ReadersAt)
    BY <1>1, <1>2, CountReaders
  <2> QED BY <1>1, <2>1, <2>2, Counted, CountedNext, AtFinite DEF SendWaits, At, Entering, Woken, CountedOut
<1>4. readers_waiting' \in Nat /\ writers_waiting' \in Nat
  BY <1>3, CountedNext, AtFiniteNext
<1>5. RingInv' /\ msg_count' \in 0 .. MaxSize /\ read_index' \in Slots /\ write_index' \in Slots
  BY <1>1, QueueAssumption DEF TypeOK, RingInv, Slots, SendWaits, ringVars, Full, Empty, NextIndex
<1>6. CallInv'
  BY <1>1, <1>2 DEF TypeOK, CallInv, Threads, Messages, SendWaits, At, Entering, Woken, Return
<1>7. TypeOK'
  BY <1>1, <1>2, <1>4, <1>5 DEF TypeOK, CallInv, Messages, SendWaits, At, Entering, Woken, Return, SignalIf, On, ringVars, Modes
<1> QED BY <1>3, <1>5, <1>6, <1>7 DEF IInv

LEMMA SendTimesOutStep ==
  ASSUME IInv, NEW t \in Senders, SendTimesOut(t)
  PROVE  IInv'
<1>1. TypeOK /\ RingInv /\ CallInv /\ WaitersCounted BY DEF IInv
<1>2. t \in Threads /\ Senders \cap Receivers = {} /\ pc' = [pc EXCEPT ![t] = "idle"]
  BY QueueAssumption DEF Threads, SendTimesOut, Return, Goto
<1>3. WaitersCounted'
  <2>1. Cardinality(WritersAt') = IF pc[t] = "write_cond" THEN Cardinality(WritersAt) - 1 ELSE Cardinality(WritersAt)
    BY <1>1, <1>2, WritersLeave
  <2>2. Cardinality(ReadersAt') = Cardinality(ReadersAt)
    BY <1>1, <1>2, CountReaders
  <2> QED BY <1>1, <2>1, <2>2, Counted, CountedNext, AtFinite DEF SendTimesOut, At, Entering, Woken, CountedOut
<1>4. readers_waiting' \in Nat /\ writers_waiting' \in Nat
  BY <1>3, CountedNext, AtFiniteNext
<1>5. RingInv' /\ msg_count' \in 0 .. MaxSize /\ read_index' \in Slots /\ write_index' \in Slots
  BY <1>1, QueueAssumption DEF TypeOK, RingInv, Slots, SendTimesOut, ringVars, Full, Empty, NextIndex
<1>6. CallInv'
  BY <1>1, <1>2 DEF TypeOK, CallInv, Threads, Messages, SendTimesOut, At, Entering, Woken, Return
<1>7. TypeOK'
  BY <1>1, <1>2, <1>4, <1>5 DEF TypeOK, CallInv, Messages, SendTimesOut, At, Entering, Woken, Return, SignalIf, On, ringVars, Modes
<1> QED BY <1>3, <1>5, <1>6, <1>7 DEF IInv

LEMMA SendPutsStep ==
  ASSUME IInv, NEW t \in Senders, SendPuts(t)
  PROVE  IInv'
<1>1. TypeOK /\ RingInv /\ CallInv /\ WaitersCounted BY DEF IInv
<1>2. t \in Threads /\ Senders \cap Receivers = {} /\ pc' = [pc EXCEPT ![t] = "idle"]
  BY QueueAssumption DEF Threads, SendPuts, Return, Goto
<1>3. WaitersCounted'
  <2>1. Cardinality(WritersAt') = IF pc[t] = "write_cond" THEN Cardinality(WritersAt) - 1 ELSE Cardinality(WritersAt)
    BY <1>1, <1>2, WritersLeave
  <2>2. Cardinality(ReadersAt') = Cardinality(ReadersAt)
    BY <1>1, <1>2, CountReaders
  <2> QED BY <1>1, <2>1, <2>2, Counted, CountedNext, AtFinite DEF SendPuts, At, Entering, Woken, CountedOut
<1>4. readers_waiting' \in Nat /\ writers_waiting' \in Nat
  BY <1>3, CountedNext, AtFiniteNext
<1>5. RingInv' /\ msg_count' \in 0 .. MaxSize /\ read_index' \in Slots /\ write_index' \in Slots
  BY <1>1, QueueAssumption DEF TypeOK, RingInv, Slots, SendPuts, ringVars, Full, Empty, NextIndex
<1>6. CallInv'
  BY <1>1, <1>2 DEF TypeOK, CallInv, Threads, Messages, SendPuts, At, Entering, Woken, Return
<1>7. TypeOK'
  BY <1>1, <1>2, <1>4, <1>5 DEF TypeOK, CallInv, Messages, SendPuts, At, Entering, Woken, Return, SignalIf, On, ringVars, Modes
<1> QED BY <1>3, <1>5, <1>6, <1>7 DEF IInv

LEMMA RecvCallStep ==
  ASSUME IInv, NEW r \in Receivers, NEW m \in {"block", "try", "timed"}, RecvCall(r, m)
  PROVE  IInv'
<1>1. TypeOK /\ RingInv /\ CallInv /\ WaitersCounted BY DEF IInv
<1>2. r \in Threads /\ Senders \cap Receivers = {} /\ pc' = [pc EXCEPT ![r] = "recv"]
  BY QueueAssumption DEF Threads, RecvCall, Return, Goto
<1>3. WaitersCounted'
  <2>1. Cardinality(ReadersAt') = IF pc[r] = "read_cond" THEN Cardinality(ReadersAt) - 1 ELSE Cardinality(ReadersAt)
    BY <1>1, <1>2, ReadersLeave
  <2>2. Cardinality(WritersAt') = Cardinality(WritersAt)
    BY <1>1, <1>2, CountWriters
  <2> QED BY <1>1, <2>1, <2>2, Counted, CountedNext, AtFinite DEF RecvCall, At, Entering, Woken, CountedOut
<1>4. readers_waiting' \in Nat /\ writers_waiting' \in Nat
  BY <1>3, CountedNext, AtFiniteNext
<1>5. RingInv' /\ msg_count' \in 0 .. MaxSize /\ read_index' \in Slots /\ write_index' \in Slots
  BY <1>1, QueueAssumption DEF TypeOK, RingInv, Slots, RecvCall, ringVars, Full, Empty, NextIndex
<1>6. CallInv'
  BY <1>1, <1>2 DEF TypeOK, CallInv, Threads, Messages, RecvCall, At, Entering, Woken, Return
<1>7. TypeOK'
  BY <1>1, <1>2, <1>4, <1>5 DEF TypeOK, CallInv, Messages, RecvCall, At, Entering, Woken, Return, SignalIf, On, ringVars, Modes
<1> QED BY <1>3, <1>5, <1>6, <1>7 DEF IInv

LEMMA RecvFindsNoneStep ==
  ASSUME IInv, NEW r \in Receivers, RecvFindsNone(r)
  PROVE  IInv'
<1>1. TypeOK /\ RingInv /\ CallInv /\ WaitersCounted BY DEF IInv
<1>2. r \in Threads /\ Senders \cap Receivers = {} /\ pc' = [pc EXCEPT ![r] = "idle"]
  BY QueueAssumption DEF Threads, RecvFindsNone, Return, Goto
<1>3. WaitersCounted'
  <2>1. Cardinality(ReadersAt') = IF pc[r] = "read_cond" THEN Cardinality(ReadersAt) - 1 ELSE Cardinality(ReadersAt)
    BY <1>1, <1>2, ReadersLeave
  <2>2. Cardinality(WritersAt') = Cardinality(WritersAt)
    BY <1>1, <1>2, CountWriters
  <2> QED BY <1>1, <2>1, <2>2, Counted, CountedNext, AtFinite DEF RecvFindsNone, At, Entering, Woken, CountedOut
<1>4. readers_waiting' \in Nat /\ writers_waiting' \in Nat
  BY <1>3, CountedNext, AtFiniteNext
<1>5. RingInv' /\ msg_count' \in 0 .. MaxSize /\ read_index' \in Slots /\ write_index' \in Slots
  BY <1>1, QueueAssumption DEF TypeOK, RingInv, Slots, RecvFindsNone, ringVars, Full, Empty, NextIndex
<1>6. CallInv'
  BY <1>1, <1>2 DEF TypeOK, CallInv, Threads, Messages, RecvFindsNone, At, Entering, Woken, Return
<1>7. TypeOK'
  BY <1>1, <1>2, <1>4, <1>5 DEF TypeOK, CallInv, Messages, RecvFindsNone, At, Entering, Woken, Return, SignalIf, On, ringVars, Modes
<1> QED BY <1>3, <1>5, <1>6, <1>7 DEF IInv

LEMMA RecvWaitsStep ==
  ASSUME IInv, NEW r \in Receivers, RecvWaits(r)
  PROVE  IInv'
<1>1. TypeOK /\ RingInv /\ CallInv /\ WaitersCounted BY DEF IInv
<1>2. r \in Threads /\ Senders \cap Receivers = {} /\ pc' = [pc EXCEPT ![r] = "read_cond"]
  BY QueueAssumption DEF Threads, RecvWaits, Return, Goto
<1>3. WaitersCounted'
  <2>1. Cardinality(ReadersAt') = IF pc[r] = "read_cond" THEN Cardinality(ReadersAt) ELSE Cardinality(ReadersAt) + 1
    BY <1>1, <1>2, CountReaders
  <2>2. Cardinality(WritersAt') = Cardinality(WritersAt)
    BY <1>1, <1>2, CountWriters
  <2> QED BY <1>1, <2>1, <2>2, Counted, CountedNext, AtFinite DEF RecvWaits, At, Entering, Woken, CountedOut
<1>4. readers_waiting' \in Nat /\ writers_waiting' \in Nat
  BY <1>3, CountedNext, AtFiniteNext
<1>5. RingInv' /\ msg_count' \in 0 .. MaxSize /\ read_index' \in Slots /\ write_index' \in Slots
  BY <1>1, QueueAssumption DEF TypeOK, RingInv, Slots, RecvWaits, ringVars, Full, Empty, NextIndex
<1>6. CallInv'
  BY <1>1, <1>2 DEF TypeOK, CallInv, Threads, Messages, RecvWaits, At, Entering, Woken, Return
<1>7. TypeOK'
  BY <1>1, <1>2, <1>4, <1>5 DEF TypeOK, CallInv, Messages, RecvWaits, At, Entering, Woken, Return, SignalIf, On, ringVars, Modes
<1> QED BY <1>3, <1>5, <1>6, <1>7 DEF IInv

LEMMA RecvTimesOutStep ==
  ASSUME IInv, NEW r \in Receivers, RecvTimesOut(r)
  PROVE  IInv'
<1>1. TypeOK /\ RingInv /\ CallInv /\ WaitersCounted BY DEF IInv
<1>2. r \in Threads /\ Senders \cap Receivers = {} /\ pc' = [pc EXCEPT ![r] = "idle"]
  BY QueueAssumption DEF Threads, RecvTimesOut, Return, Goto
<1>3. WaitersCounted'
  <2>1. Cardinality(ReadersAt') = IF pc[r] = "read_cond" THEN Cardinality(ReadersAt) - 1 ELSE Cardinality(ReadersAt)
    BY <1>1, <1>2, ReadersLeave
  <2>2. Cardinality(WritersAt') = Cardinality(WritersAt)
    BY <1>1, <1>2, CountWriters
  <2> QED BY <1>1, <2>1, <2>2, Counted, CountedNext, AtFinite DEF RecvTimesOut, At, Entering, Woken, CountedOut
<1>4. readers_waiting' \in Nat /\ writers_waiting' \in Nat
  BY <1>3, CountedNext, AtFiniteNext
<1>5. RingInv' /\ msg_count' \in 0 .. MaxSize /\ read_index' \in Slots /\ write_index' \in Slots
  BY <1>1, QueueAssumption DEF TypeOK, RingInv, Slots, RecvTimesOut, ringVars, Full, Empty, NextIndex
<1>6. CallInv'
  BY <1>1, <1>2 DEF TypeOK, CallInv, Threads, Messages, RecvTimesOut, At, Entering, Woken, Return
<1>7. TypeOK'
  BY <1>1, <1>2, <1>4, <1>5 DEF TypeOK, CallInv, Messages, RecvTimesOut, At, Entering, Woken, Return, SignalIf, On, ringVars, Modes
<1> QED BY <1>3, <1>5, <1>6, <1>7 DEF IInv

LEMMA RecvTakesStep ==
  ASSUME IInv, NEW r \in Receivers, RecvTakes(r)
  PROVE  IInv'
<1>1. TypeOK /\ RingInv /\ CallInv /\ WaitersCounted BY DEF IInv
<1>2. r \in Threads /\ Senders \cap Receivers = {} /\ pc' = [pc EXCEPT ![r] = "idle"]
  BY QueueAssumption DEF Threads, RecvTakes, Return, Goto
<1>3. WaitersCounted'
  <2>1. Cardinality(ReadersAt') = IF pc[r] = "read_cond" THEN Cardinality(ReadersAt) - 1 ELSE Cardinality(ReadersAt)
    BY <1>1, <1>2, ReadersLeave
  <2>2. Cardinality(WritersAt') = Cardinality(WritersAt)
    BY <1>1, <1>2, CountWriters
  <2> QED BY <1>1, <2>1, <2>2, Counted, CountedNext, AtFinite DEF RecvTakes, At, Entering, Woken, CountedOut
<1>4. readers_waiting' \in Nat /\ writers_waiting' \in Nat
  BY <1>3, CountedNext, AtFiniteNext
<1>5. RingInv' /\ msg_count' \in 0 .. MaxSize /\ read_index' \in Slots /\ write_index' \in Slots
  BY <1>1, QueueAssumption DEF TypeOK, RingInv, Slots, RecvTakes, ringVars, Full, Empty, NextIndex
<1>6. CallInv'
  BY <1>1, <1>2 DEF TypeOK, CallInv, Threads, Messages, RecvTakes, At, Entering, Woken, Return
<1>7. TypeOK'
  BY <1>1, <1>2, <1>4, <1>5 DEF TypeOK, CallInv, Messages, RecvTakes, At, Entering, Woken, Return, SignalIf, On, ringVars, Modes
<1> QED BY <1>3, <1>5, <1>6, <1>7 DEF IInv

\* The switch, spurious wake-ups and stuttering leave every thread where it is.
LEMMA InPlaceStep ==
  ASSUME IInv, writing_disabled' \in BOOLEAN, asleep' \subseteq asleep,
         UNCHANGED <<ringVars, readers_waiting, writers_waiting, pc, mode, msg, got>>
  PROVE  IInv'
<1>1. TypeOK' BY DEF IInv, TypeOK, ringVars
<1>2. RingInv' /\ CallInv' /\ WaitersCounted'
  BY DEF IInv, RingInv, CallInv, WaitersCounted, ringVars
<1> QED BY <1>1, <1>2 DEF IInv

LEMMA InvStep == IInv /\ [Next]_vars => IInv'
<1> SUFFICES ASSUME IInv, [Next]_vars PROVE IInv'
  OBVIOUS
<1>1. CASE \E t \in Senders, d \in Data, m \in {"block", "try", "timed"} : SendCall(t, d, m)
  BY <1>1, SendCallStep
<1>2. CASE \E t \in Senders : SendRefused(t) BY <1>2, SendRefusedStep
<1>3. CASE \E t \in Senders : SendWaits(t) BY <1>3, SendWaitsStep
<1>4. CASE \E t \in Senders : SendPuts(t) BY <1>4, SendPutsStep
<1>5. CASE \E t \in Senders : SendTimesOut(t) BY <1>5, SendTimesOutStep
<1>6. CASE \E r \in Receivers, m \in {"block", "try", "timed"} : RecvCall(r, m)
  BY <1>6, RecvCallStep
<1>7. CASE \E r \in Receivers : RecvFindsNone(r) BY <1>7, RecvFindsNoneStep
<1>8. CASE \E r \in Receivers : RecvWaits(r) BY <1>8, RecvWaitsStep
<1>9. CASE \E r \in Receivers : RecvTakes(r) BY <1>9, RecvTakesStep
<1>10. CASE \E r \in Receivers : RecvTimesOut(r) BY <1>10, RecvTimesOutStep
<1>11. CASE \E b \in BOOLEAN : SetDisabled(b)
  BY <1>11, InPlaceStep DEF SetDisabled
<1>12. CASE \E t \in Threads : SpuriousWakeup(t)
  <2>1. writing_disabled \in BOOLEAN BY DEF IInv, TypeOK
  <2> QED BY <1>12, <2>1, InPlaceStep DEF SpuriousWakeup
<1>13. CASE UNCHANGED vars
  <2>1. writing_disabled \in BOOLEAN BY DEF IInv, TypeOK
  <2> QED BY <1>13, <2>1, InPlaceStep DEF vars
<1> QED BY <1>1, <1>2, <1>3, <1>4, <1>5, <1>6, <1>7, <1>8, <1>9, <1>10, <1>11, <1>12, <1>13
        DEF Next, Send, Recv

LEMMA Invariance == Spec => []IInv
BY InvInit, InvStep, PTL DEF Spec

\* The indices and the count stay in range whatever the interleaving.
THEOREM TypeCorrect == Spec => []TypeOK
<1>1. IInv => TypeOK BY DEF IInv
<1> QED BY <1>1, Invariance, PTL

\* The two waiting counters, by which send and receive decide whether to
\* signal, are exact at every step of every interleaving.
THEOREM CountersExact == Spec => []WaitersCounted
<1>1. IInv => WaitersCounted BY DEF IInv
<1> QED BY <1>1, Invariance, PTL

-----------------------------------------------------------------------------
(* The ring implements the bounded FIFO.                                   *)

\* An offset within the ring, wrapped once, is a slot.
LEMMA WrapRange ==
  \A n \in Nat : \A r \in 0 .. n - 1, c \in 0 .. n : \A i \in 1 .. c :
    (IF r + i - 1 < n THEN r + i - 1 ELSE r + i - 1 - n) \in 0 .. n - 1
OBVIOUS

LEMMA ContentsType ==
  ASSUME TypeOK
  PROVE  /\ Contents \in Seq(Messages \cup {Nothing}) /\ Len(Contents) = msg_count
         /\ \A i \in 1 .. msg_count : Contents[i] = msg_array[Position(i)]
<1>1. \A i \in 1 .. msg_count : Position(i) \in Slots
  BY QueueAssumption DEF TypeOK, Position, Slots
<1>2. \A i \in 1 .. msg_count : msg_array[Position(i)] \in Messages \cup {Nothing}
  BY <1>1 DEF TypeOK
<1>3. msg_count \in Nat BY QueueAssumption DEF TypeOK
<1>4. Contents \in [1 .. msg_count -> Messages \cup {Nothing}] BY <1>2 DEF Contents
<1> QED BY <1>3, <1>4 DEF Contents

LEMMA ContentsTypeNext ==
  ASSUME TypeOK'
  PROVE  /\ Contents' \in Seq(Messages \cup {Nothing}) /\ Len(Contents') = msg_count'
         /\ \A i \in 1 .. msg_count' : Contents'[i] = msg_array'[Position(i)']
<1>1. \A i \in 1 .. msg_count' : Position(i)' \in Slots
  <2>1. MaxSize \in Nat /\ read_index' \in 0 .. MaxSize - 1 /\ msg_count' \in 0 .. MaxSize
    BY QueueAssumption DEF TypeOK, Slots
  <2>2. \A i \in 1 .. msg_count' : Position(i)' \in 0 .. MaxSize - 1
    BY <2>1, WrapRange DEF Position
  <2> QED BY <2>2 DEF Slots
<1>2. \A i \in 1 .. msg_count' : msg_array'[Position(i)'] \in Messages \cup {Nothing}
  BY <1>1 DEF TypeOK
<1>3. msg_count' \in Nat BY QueueAssumption DEF TypeOK
<1>4. Contents' \in [1 .. msg_count' -> Messages \cup {Nothing}] BY <1>2 DEF Contents
<1> QED BY <1>3, <1>4 DEF Contents

\* A message put at the write index is the last one of the queue.
LEMMA PutAppends ==
  ASSUME IInv, IInv', NEW t \in Senders, SendPuts(t)
  PROVE  FIFO!Put(msg[t])
<1>1. TypeOK /\ TypeOK' /\ RingInv /\ CallInv BY DEF IInv
<1>2. msg[t] \in Messages /\ msg[t].from = t
  BY <1>1 DEF CallInv, SendPuts, At, Entering, Woken
<1>3. msg_count < MaxSize /\ msg_count' = msg_count + 1 /\ msg_count \in Nat
  BY <1>1, QueueAssumption DEF SendPuts, Full, TypeOK
<1>4. Contents' = Append(Contents, msg[t])
  <2>1. /\ Append(Contents, msg[t]) \in Seq(Messages \cup {Nothing})
        /\ Len(Append(Contents, msg[t])) = msg_count + 1
        /\ \A i \in 1 .. msg_count : Append(Contents, msg[t])[i] = Contents[i]
        /\ Append(Contents, msg[t])[msg_count + 1] = msg[t]
    BY <1>1, <1>2, ContentsType, AppendProperties
  <2>2. ASSUME NEW i \in 1 .. msg_count PROVE Contents'[i] = Append(Contents, msg[t])[i]
    <3>1. Position(i)' = Position(i) /\ Position(i) \in Slots /\ Position(i) # write_index
      <4>1. /\ MaxSize \in Nat /\ read_index \in 0 .. MaxSize - 1 /\ i \in 1 .. MaxSize - 1
            /\ read_index' = read_index
        BY <1>1, <1>3, QueueAssumption DEF TypeOK, Slots, SendPuts
      <4> QED BY <1>1, <1>3, <4>1 DEF RingInv, Position, Slots
    <3>2. msg_array'[Position(i)] = msg_array[Position(i)]
      BY <1>1, <3>1 DEF SendPuts, TypeOK
    <3>3. Contents'[i] = msg_array'[Position(i)'] /\ Contents[i] = msg_array[Position(i)]
      BY <1>1, <1>3, ContentsType, ContentsTypeNext
    <3> QED BY <2>1, <3>1, <3>2, <3>3
  <2>3. Contents'[msg_count + 1] = msg[t]
    <3>1. PICK n \in Nat : n = msg_count + 1 BY <1>3
    <3>2. Position(n)' = write_index /\ write_index \in Slots
      <4>1. /\ MaxSize \in Nat /\ read_index \in 0 .. MaxSize - 1 /\ n \in 1 .. MaxSize
            /\ read_index' = read_index
        BY <1>1, <1>3, <3>1, QueueAssumption DEF TypeOK, Slots, SendPuts
      <4> QED BY <1>1, <1>3, <3>1, <4>1 DEF RingInv, Position, Slots
    <3>3. msg_array'[write_index] = msg[t] BY <1>1, <3>2 DEF SendPuts, TypeOK
    <3>4. n \in 1 .. msg_count' BY <1>3, <3>1
    <3>5. Contents'[n] = msg_array'[Position(n)'] BY <1>1, <3>4, ContentsTypeNext
    <3> QED BY <3>1, <3>2, <3>3, <3>5
  <2>4. \A i \in 1 .. msg_count + 1 : Contents'[i] = Append(Contents, msg[t])[i]
    BY <1>3, <2>1, <2>2, <2>3
  <2>5. Contents' \in Seq(Messages \cup {Nothing}) /\ Len(Contents') = msg_count + 1
    BY <1>1, <1>3, ContentsTypeNext
  <2> QED BY <1>3, <2>1, <2>4, <2>5, SeqEqual
<1>5. writing_disabled => msg[t].from \in Owners BY <1>2 DEF SendPuts, Stopped
<1>6. Len(Contents) < MaxSize BY <1>1, <1>3, ContentsType
<1> QED BY <1>4, <1>5, <1>6 DEF FIFO!Put, SendPuts

\* A message taken at the read index is the first one of the queue.
LEMMA TakeRemovesHead ==
  ASSUME IInv, IInv', NEW r \in Receivers, RecvTakes(r)
  PROVE  FIFO!Take
<1>1. TypeOK /\ TypeOK' /\ RingInv BY DEF IInv
<1>2. msg_count \in Nat /\ msg_count > 0 /\ msg_count' = msg_count - 1 /\ msg_count <= MaxSize
  BY <1>1, QueueAssumption DEF RecvTakes, Empty, TypeOK
<1>3. Contents \in Seq(Messages \cup {Nothing}) /\ Len(Contents) = msg_count /\ Contents # <<>>
  BY <1>1, <1>2, ContentsType
<1>4. got' = Head(Contents)
  <2>1. Position(1) = read_index /\ 1 \in 1 .. msg_count
    BY <1>1, <1>2, QueueAssumption DEF Position, TypeOK, Slots
  <2>2. Contents[1] = msg_array[read_index] BY <1>1, <2>1, ContentsType
  <2> QED BY <1>3, <2>2, HeadTailProperties DEF RecvTakes
<1>5. Contents' = Tail(Contents)
  <2>1. /\ Tail(Contents) \in Seq(Messages \cup {Nothing}) /\ Len(Tail(Contents)) = msg_count - 1
        /\ \A i \in 1 .. msg_count - 1 : Tail(Contents)[i] = Contents[i + 1]
    BY <1>2, <1>3, HeadTailProperties
  <2>2. ASSUME NEW i \in 1 .. msg_count - 1 PROVE Contents'[i] = Tail(Contents)[i]
    <3>1. i + 1 \in 1 .. msg_count /\ i \in 1 .. msg_count' BY <1>2
    <3>2. Position(i)' = Position(i + 1)
      <4>1. MaxSize \in Nat /\ read_index \in 0 .. MaxSize - 1 /\ i \in 1 .. MaxSize - 1
        BY <1>1, <1>2, QueueAssumption DEF TypeOK, Slots
      <4>2. read_index' = IF read_index + 1 = MaxSize THEN 0 ELSE read_index + 1
        BY DEF RecvTakes, NextIndex
      <4> QED BY <4>1, <4>2 DEF Position
    <3>3. Contents'[i] = msg_array'[Position(i)'] BY <1>1, <3>1, ContentsTypeNext
    <3>4. Contents[i + 1] = msg_array[Position(i + 1)] BY <1>1, <3>1, ContentsType
    <3>5. msg_array' = msg_array BY DEF RecvTakes
    <3> QED BY <2>1, <3>2, <3>3, <3>4, <3>5
  <2>3. Contents' \in Seq(Messages \cup {Nothing}) /\ Len(Contents') = msg_count - 1
    BY <1>1, <1>2, ContentsTypeNext
  <2> QED BY <1>2, <2>1, <2>2, <2>3, SeqEqual
<1> QED BY <1>3, <1>4, <1>5 DEF FIFO!Take, RecvTakes

\* A step that leaves the ring alone leaves its contents alone.
LEMMA RingUnchanged == UNCHANGED ringVars => Contents' = Contents
BY DEF ringVars, Contents, Position

LEMMA RefineStep == IInv /\ IInv' /\ [Next]_vars => [FIFO!FifoNext]_(FIFO!fifoVars)
<1> SUFFICES ASSUME IInv, IInv', [Next]_vars PROVE FIFO!FifoNext \/ UNCHANGED FIFO!fifoVars
  OBVIOUS
<1>1. CASE \E t \in Senders : SendPuts(t)
  <2>1. PICK t \in Senders : SendPuts(t) BY <1>1
  <2>2. msg[t] \in Messages BY <2>1 DEF IInv, CallInv, SendPuts, At, Entering, Woken
  <2>3. FIFO!Put(msg[t]) BY <2>1, PutAppends
  <2> QED BY <2>2, <2>3 DEF FIFO!FifoNext
<1>2. CASE \E r \in Receivers : RecvTakes(r)
  BY <1>2, TakeRemovesHead DEF FIFO!FifoNext
<1>3. CASE \E b \in BOOLEAN : SetDisabled(b)
  <2>1. PICK b \in BOOLEAN : SetDisabled(b) BY <1>3
  <2>2. FIFO!Switch(b) BY <2>1, RingUnchanged DEF SetDisabled, FIFO!Switch
  <2> QED BY <2>2 DEF FIFO!FifoNext
<1>4. CASE UNCHANGED <<ringVars, writing_disabled, got>>
  BY <1>4, RingUnchanged DEF FIFO!fifoVars
<1>5. \/ \E t \in Senders : SendPuts(t)
      \/ \E r \in Receivers : RecvTakes(r)
      \/ \E b \in BOOLEAN : SetDisabled(b)
      \/ UNCHANGED <<ringVars, writing_disabled, got>>
  BY DEF Next, vars, Send, Recv, SendCall, SendRefused, SendWaits, SendTimesOut,
         RecvCall, RecvFindsNone, RecvWaits, RecvTimesOut, SpuriousWakeup
<1> QED BY <1>1, <1>2, <1>3, <1>4, <1>5

LEMMA RefineInit == Init => FIFO!FifoInit
<1> SUFFICES ASSUME Init PROVE FIFO!FifoInit
  OBVIOUS
<1>1. Contents = <<>>
  <2>1. TypeOK /\ msg_count = 0 BY InvInit DEF IInv, Init
  <2>2. Contents \in Seq(Messages \cup {Nothing}) /\ Len(Contents) = 0 BY <2>1, ContentsType
  <2> QED BY <2>2, EmptySeq
<1> QED BY <1>1 DEF Init, FIFO!FifoInit

\* The ring with its wrapping indices, for every size and any number of
\* senders and receivers, implements the bounded FIFO with its switch.
THEOREM Refinement == Spec => ImplementsFIFO
BY RefineInit, RefineStep, Invariance, PTL DEF Spec, ImplementsFIFO, FIFO!FifoSpec

-----------------------------------------------------------------------------
(* No wake-up of the ring is lost.                                         *)

LEMMA OneLess ==
  ASSUME NEW S, NEW T, NEW t, IsFiniteSet(S), IsFiniteSet(T), S \ {t} \subseteq T
  PROVE  Cardinality(T) >= Cardinality(S) - 1 /\ Cardinality(S) \in Nat /\ Cardinality(T) \in Nat
<1>1. Cardinality(S) \in Nat /\ Cardinality(T) \in Nat BY FS_CardinalityType
<1>2. S \ {t} \in SUBSET T /\ IsFiniteSet(S \ {t}) BY FS_RemoveElement
<1>3. Cardinality(S \ {t}) <= Cardinality(T) /\ Cardinality(S \ {t}) \in Nat BY <1>2, FS_Subset, FS_CardinalityType
<1>4. CASE t \in S BY <1>1, <1>3, <1>4, FS_RemoveElement
<1>5. CASE t \notin S
  <2>1. S \ {t} = S BY <1>5
  <2> QED BY <1>1, <1>3, <2>1
<1> QED BY <1>4, <1>5

LEMMA OneMore ==
  ASSUME NEW S, NEW T, NEW u, IsFiniteSet(S), IsFiniteSet(T), u \notin S, S \cup {u} \subseteq T
  PROVE  Cardinality(T) >= Cardinality(S) + 1 /\ Cardinality(S) \in Nat /\ Cardinality(T) \in Nat
<1>1. Cardinality(S) \in Nat /\ Cardinality(T) \in Nat BY FS_CardinalityType
<1>2. S \cup {u} \in SUBSET T OBVIOUS
<1>3. Cardinality(S \cup {u}) = Cardinality(S) + 1 BY FS_AddElement
<1>4. Cardinality(S \cup {u}) <= Cardinality(T) BY <1>2, FS_Subset
<1> QED BY <1>1, <1>3, <1>4

LEMMA NotFewer ==
  ASSUME NEW S, NEW T, IsFiniteSet(T), S \subseteq T
  PROVE  Cardinality(T) >= Cardinality(S) /\ Cardinality(S) \in Nat /\ Cardinality(T) \in Nat
<1>1. S \in SUBSET T OBVIOUS
<1> QED BY <1>1, FS_Subset, FS_CardinalityType

LEMMA WokenFinite ==
  /\ IsFiniteSet(WokenWriters) /\ IsFiniteSet(WokenWriters')
  /\ IsFiniteSet(WokenReaders) /\ IsFiniteSet(WokenReaders')
<1>1. /\ WokenWriters \subseteq Senders /\ WokenWriters' \subseteq Senders
      /\ WokenReaders \subseteq Receivers /\ WokenReaders' \subseteq Receivers
  BY DEF WokenWriters, WokenReaders
<1> QED BY <1>1, QueueAssumption, FS_Subset

\* Who sleeps at a condition is counted there, so the signal is not skipped.
LEMMA SignalReaches ==
  ASSUME IInv
  PROVE  /\ On("write_cond") \subseteq Senders /\ On("read_cond") \subseteq Receivers
         /\ On("write_cond") # {} => writers_waiting > 0
         /\ On("read_cond") # {} => readers_waiting > 0
<1>1. TypeOK /\ CallInv /\ WaitersCounted BY DEF IInv
<1>2. On("write_cond") \subseteq WritersAt /\ On("read_cond") \subseteq ReadersAt
  BY <1>1 DEF On, WritersAt, ReadersAt, TypeOK, CallInv, Threads
<1>3. On("write_cond") # {} => Cardinality(WritersAt) # 0 BY <1>2, AtFinite, FS_EmptySet
<1>4. On("read_cond") # {} => Cardinality(ReadersAt) # 0 BY <1>2, AtFinite, FS_EmptySet
<1> QED BY <1>1, <1>2, <1>3, <1>4, AtFinite, Counted DEF WritersAt, ReadersAt

\* A step that leaves the messages and the switch alone, sends nobody to sleep
\* and takes no woken thread away from what it was woken for.
LEMMA WakeFrame ==
  ASSUME TypeOK, NoLostWakeup, UNCHANGED <<msg_count, writing_disabled>>,
         On("write_cond")' \subseteq On("write_cond"), On("read_cond")' \subseteq On("read_cond"),
         Full \/ WokenWriters \subseteq WokenWriters', Empty \/ WokenReaders \subseteq WokenReaders'
  PROVE  NoLostWakeup'
<1>1. MaxSize \in Nat /\ msg_count \in Nat BY QueueAssumption DEF TypeOK
<1>2. ASSUME On("write_cond")' # {} PROVE Cardinality(WokenWriters') >= MaxSize - msg_count
  <2>1. Cardinality(WokenWriters') \in Nat BY WokenFinite, FS_CardinalityType
  <2>2. CASE Full BY <1>1, <2>1, <2>2 DEF Full
  <2>3. CASE WokenWriters \subseteq WokenWriters'
    <3>1. Cardinality(WokenWriters') >= Cardinality(WokenWriters) /\ Cardinality(WokenWriters) \in Nat
      BY <2>3, WokenFinite, NotFewer
    <3>2. Cardinality(WokenWriters) >= MaxSize - msg_count BY <1>2 DEF NoLostWakeup
    <3> QED BY <1>1, <2>1, <3>1, <3>2
  <2> QED BY <2>2, <2>3
<1>3. ASSUME On("read_cond")' # {} PROVE Cardinality(WokenReaders') >= msg_count
  <2>1. Cardinality(WokenReaders') \in Nat BY WokenFinite, FS_CardinalityType
  <2>2. CASE Empty BY <1>1, <2>1, <2>2 DEF Empty
  <2>3. CASE WokenReaders \subseteq WokenReaders'
    <3>1. Cardinality(WokenReaders') >= Cardinality(WokenReaders) /\ Cardinality(WokenReaders) \in Nat
      BY <2>3, WokenFinite, NotFewer
    <3>2. Cardinality(WokenReaders) >= msg_count BY <1>3 DEF NoLostWakeup
    <3> QED BY <1>1, <2>1, <3>1, <3>2
  <2> QED BY <2>2, <2>3
<1>4. writing_disabled' => On("write_cond")' \subseteq Owners BY DEF NoLostWakeup
<1> QED BY <1>2, <1>3, <1>4 DEF NoLostWakeup

LEMMA PutWakes ==
  ASSUME IInv, NoLostWakeup, NEW t \in Senders, SendPuts(t)
  PROVE  NoLostWakeup'
<1>1. TypeOK /\ CallInv BY DEF IInv
<1>2. t \in Threads /\ t \notin Receivers /\ pc' = [pc EXCEPT ![t] = "idle"]
      /\ pc \in [Threads -> {"idle", "send", "write_cond", "recv", "read_cond"}]
  BY <1>1, QueueAssumption DEF Threads, SendPuts, Return, Goto, TypeOK
<1>3. /\ On("read_cond") = {} /\ asleep' = asleep
      \/ \E u \in On("read_cond") : asleep' = asleep \ {u}
  BY SignalReaches DEF SendPuts, SignalIf
<1>4. MaxSize \in Nat /\ msg_count \in Nat /\ msg_count' = msg_count + 1 /\ writing_disabled' = writing_disabled
      /\ asleep' \subseteq asleep /\ asleep \subseteq Threads
  BY <1>1, <1>3, QueueAssumption DEF TypeOK, SendPuts
<1>5. On("write_cond")' \subseteq On("write_cond") BY <1>2, <1>4 DEF On
<1>6. ASSUME On("write_cond")' # {} PROVE Cardinality(WokenWriters') >= MaxSize - msg_count'
  <2>1. WokenWriters \ {t} \subseteq WokenWriters'
    BY <1>2, <1>4 DEF WokenWriters, Woken, Stopped, Threads
  <2>2. Cardinality(WokenWriters') >= Cardinality(WokenWriters) - 1
        /\ Cardinality(WokenWriters) \in Nat /\ Cardinality(WokenWriters') \in Nat
    BY <2>1, WokenFinite, OneLess
  <2>3. Cardinality(WokenWriters) >= MaxSize - msg_count BY <1>5, <1>6 DEF NoLostWakeup
  <2> QED BY <1>4, <2>2, <2>3
<1>7. ASSUME On("read_cond")' # {} PROVE Cardinality(WokenReaders') >= msg_count'
  <2>1. On("read_cond") # {} BY <1>2, <1>4, <1>7 DEF On
  <2>2. PICK u \in On("read_cond") : asleep' = asleep \ {u} BY <1>3, <2>1
  <2>3. u \in Receivers /\ u \notin WokenReaders BY <2>2, SignalReaches DEF On, WokenReaders, Woken
  <2>4. WokenReaders \cup {u} \subseteq WokenReaders'
    BY <1>2, <1>4, <2>2, <2>3 DEF WokenReaders, Woken, On, Threads
  <2>5. Cardinality(WokenReaders') >= Cardinality(WokenReaders) + 1
        /\ Cardinality(WokenReaders) \in Nat /\ Cardinality(WokenReaders') \in Nat
    BY <2>3, <2>4, WokenFinite, OneMore
  <2>6. Cardinality(WokenReaders) >= msg_count BY <2>1 DEF NoLostWakeup
  <2> QED BY <1>4, <2>5, <2>6
<1>8. writing_disabled' => On("write_cond")' \subseteq Owners BY <1>4, <1>5 DEF NoLostWakeup
<1> QED BY <1>6, <1>7, <1>8 DEF NoLostWakeup

LEMMA TakeWakes ==
  ASSUME IInv, NoLostWakeup, NEW r \in Receivers, RecvTakes(r)
  PROVE  NoLostWakeup'
<1>1. TypeOK /\ CallInv BY DEF IInv
<1>2. r \in Threads /\ r \notin Senders /\ pc' = [pc EXCEPT ![r] = "idle"]
      /\ pc \in [Threads -> {"idle", "send", "write_cond", "recv", "read_cond"}]
  BY <1>1, QueueAssumption DEF Threads, RecvTakes, Return, Goto, TypeOK
<1>3. /\ On("write_cond") = {} /\ asleep' = asleep
      \/ \E u \in On("write_cond") : asleep' = asleep \ {u}
  BY SignalReaches DEF RecvTakes, SignalIf
<1>4. MaxSize \in Nat /\ msg_count \in Nat /\ msg_count' = msg_count - 1 /\ writing_disabled' = writing_disabled
      /\ asleep' \subseteq asleep /\ asleep \subseteq Threads
  BY <1>1, <1>3, QueueAssumption DEF TypeOK, RecvTakes
<1>5. On("write_cond")' \subseteq On("write_cond") /\ On("read_cond")' \subseteq On("read_cond")
  BY <1>2, <1>4 DEF On
<1>6. ASSUME On("read_cond")' # {} PROVE Cardinality(WokenReaders') >= msg_count'
  <2>1. WokenReaders \ {r} \subseteq WokenReaders'
    BY <1>2, <1>4 DEF WokenReaders, Woken, Threads
  <2>2. Cardinality(WokenReaders') >= Cardinality(WokenReaders) - 1
        /\ Cardinality(WokenReaders) \in Nat /\ Cardinality(WokenReaders') \in Nat
    BY <2>1, WokenFinite, OneLess
  <2>3. Cardinality(WokenReaders) >= msg_count BY <1>5, <1>6 DEF NoLostWakeup
  <2> QED BY <1>4, <2>2, <2>3
<1>7. ASSUME On("write_cond")' # {} PROVE Cardinality(WokenWriters') >= MaxSize - msg_count'
  <2>1. On("write_cond") # {} BY <1>5, <1>7
  <2>2. PICK u \in On("write_cond") : asleep' = asleep \ {u} BY <1>3, <2>1
  <2>3. u \in Senders /\ u \notin WokenWriters BY <2>2, SignalReaches DEF On, WokenWriters, Woken
  <2>4. ~Stopped(u)' BY <1>4, <2>2 DEF NoLostWakeup, Stopped
  <2>5. WokenWriters \cup {u} \subseteq WokenWriters'
    <3>1. u \in WokenWriters' BY <1>2, <2>2, <2>3, <2>4 DEF WokenWriters, Woken, On, Threads
    <3>2. WokenWriters \subseteq WokenWriters' BY <1>2, <1>4 DEF WokenWriters, Woken, Stopped, Threads
    <3> QED BY <3>1, <3>2
  <2>6. Cardinality(WokenWriters') >= Cardinality(WokenWriters) + 1
        /\ Cardinality(WokenWriters) \in Nat /\ Cardinality(WokenWriters') \in Nat
    BY <2>3, <2>5, WokenFinite, OneMore
  <2>7. Cardinality(WokenWriters) >= MaxSize - msg_count BY <2>1 DEF NoLostWakeup
  <2> QED BY <1>4, <2>6, <2>7
<1>8. writing_disabled' => On("write_cond")' \subseteq Owners BY <1>4, <1>5 DEF NoLostWakeup
<1> QED BY <1>6, <1>7, <1>8 DEF NoLostWakeup

\* Sleeping is for a full ring and a sender the switch does not stop.
LEMMA SendWaitsWakes ==
  ASSUME IInv, NoLostWakeup, NEW t \in Senders, SendWaits(t)
  PROVE  NoLostWakeup'
<1>1. TypeOK /\ MaxSize \in Nat /\ msg_count \in Nat BY QueueAssumption DEF IInv, TypeOK
<1>2. /\ t \in Threads /\ t \notin Receivers /\ pc' = [pc EXCEPT ![t] = "write_cond"] /\ asleep' = asleep \cup {t}
      /\ pc \in [Threads -> {"idle", "send", "write_cond", "recv", "read_cond"}] /\ ~Stopped(t)
      /\ msg_count = MaxSize /\ UNCHANGED <<msg_count, writing_disabled>>
  BY <1>1, QueueAssumption DEF Threads, SendWaits, Goto, TypeOK, Full, ringVars
<1>3. writing_disabled' => On("write_cond")' \subseteq Owners BY <1>1, <1>2 DEF NoLostWakeup, On, Stopped, TypeOK
<1>4. On("read_cond")' \subseteq On("read_cond") BY <1>1, <1>2 DEF On, TypeOK
<1>5. WokenReaders \subseteq WokenReaders' BY <1>2 DEF WokenReaders, Woken, Threads
<1>6. Cardinality(WokenReaders') >= Cardinality(WokenReaders) /\ Cardinality(WokenReaders) \in Nat
      /\ Cardinality(WokenReaders') \in Nat /\ Cardinality(WokenWriters') \in Nat
  BY <1>5, WokenFinite, NotFewer, FS_CardinalityType
<1> QED BY <1>1, <1>2, <1>3, <1>4, <1>6 DEF NoLostWakeup

LEMMA RecvWaitsWakes ==
  ASSUME IInv, NoLostWakeup, NEW r \in Receivers, RecvWaits(r)
  PROVE  NoLostWakeup'
<1>1. TypeOK /\ MaxSize \in Nat /\ msg_count \in Nat BY QueueAssumption DEF IInv, TypeOK
<1>2. /\ r \in Threads /\ r \notin Senders /\ pc' = [pc EXCEPT ![r] = "read_cond"] /\ asleep' = asleep \cup {r}
      /\ pc \in [Threads -> {"idle", "send", "write_cond", "recv", "read_cond"}]
      /\ msg_count = 0 /\ UNCHANGED <<msg_count, writing_disabled>>
  BY <1>1, QueueAssumption DEF Threads, RecvWaits, Goto, TypeOK, Empty, ringVars
<1>3. On("write_cond")' \subseteq On("write_cond") BY <1>1, <1>2 DEF On, TypeOK
<1>4. WokenWriters \subseteq WokenWriters' BY <1>2 DEF WokenWriters, Woken, Stopped, Threads
<1>5. Cardinality(WokenWriters') >= Cardinality(WokenWriters) /\ Cardinality(WokenWriters) \in Nat
      /\ Cardinality(WokenReaders') \in Nat /\ Cardinality(WokenWriters') \in Nat
  BY <1>4, WokenFinite, NotFewer, FS_CardinalityType
<1> QED BY <1>1, <1>2, <1>3, <1>5 DEF NoLostWakeup

LEMMA WakeStep == IInv /\ NoLostWakeup /\ [Next]_vars => NoLostWakeup'
<1> SUFFICES ASSUME IInv, NoLostWakeup, [Next]_vars PROVE NoLostWakeup'
  OBVIOUS
<1>1. TypeOK /\ CallInv BY DEF IInv
<1>2. pc \in [Threads -> {"idle", "send", "write_cond", "recv", "read_cond"}] /\ asleep \subseteq Threads
      /\ Senders \subseteq Threads /\ Receivers \subseteq Threads /\ Senders \cap Receivers = {}
  BY <1>1, QueueAssumption DEF TypeOK, Threads
<1>3. ASSUME NEW t \in Senders, NEW d \in Data, NEW m \in {"block", "try", "timed"}, SendCall(t, d, m)
      PROVE  NoLostWakeup'
  <2>1. pc[t] = "idle" /\ pc' = [pc EXCEPT ![t] = "send"] /\ UNCHANGED <<msg_count, writing_disabled, asleep>>
    BY <1>3 DEF SendCall, Goto, ringVars
  <2> QED BY <1>1, <1>2, <2>1, WakeFrame DEF On, WokenWriters, WokenReaders, Woken, Stopped
<1>4. ASSUME NEW t \in Senders, SendRefused(t) PROVE NoLostWakeup'
  <2>1. /\ pc' = [pc EXCEPT ![t] = "idle"] /\ UNCHANGED <<msg_count, writing_disabled, asleep>>
        /\ Stopped(t) \/ Full
    BY <1>4 DEF SendRefused, Return, Goto, ringVars
  <2>2. On("write_cond")' \subseteq On("write_cond") /\ On("read_cond")' \subseteq On("read_cond")
    BY <1>2, <2>1 DEF On
  <2>3. WokenReaders \subseteq WokenReaders' BY <1>2, <2>1 DEF WokenReaders, Woken
  <2>4. Full \/ WokenWriters \subseteq WokenWriters' BY <1>2, <2>1 DEF WokenWriters, Woken, Stopped
  <2> QED BY <1>1, <2>1, <2>2, <2>3, <2>4, WakeFrame
<1>5. ASSUME NEW t \in Senders, SendTimesOut(t) PROVE NoLostWakeup'
  <2>1. /\ pc' = [pc EXCEPT ![t] = "idle"] /\ UNCHANGED <<msg_count, writing_disabled>> /\ Full
        /\ asleep' = asleep \ {t}
    BY <1>5 DEF SendTimesOut, Return, Goto, ringVars
  <2>2. On("write_cond")' \subseteq On("write_cond") /\ On("read_cond")' \subseteq On("read_cond")
    BY <1>2, <2>1 DEF On
  <2>3. WokenReaders \subseteq WokenReaders' BY <1>2, <2>1 DEF WokenReaders, Woken
  <2> QED BY <1>1, <2>1, <2>2, <2>3, WakeFrame
<1>6. ASSUME NEW r \in Receivers, NEW m \in {"block", "try", "timed"}, RecvCall(r, m) PROVE NoLostWakeup'
  <2>1. pc[r] = "idle" /\ pc' = [pc EXCEPT ![r] = "recv"] /\ UNCHANGED <<msg_count, writing_disabled, asleep>>
    BY <1>6 DEF RecvCall, Goto, ringVars
  <2> QED BY <1>1, <1>2, <2>1, WakeFrame DEF On, WokenWriters, WokenReaders, Woken, Stopped
<1>7. ASSUME NEW r \in Receivers, RecvFindsNone(r) \/ RecvTimesOut(r) PROVE NoLostWakeup'
  <2>1. /\ pc' = [pc EXCEPT ![r] = "idle"] /\ UNCHANGED <<msg_count, writing_disabled>> /\ Empty
        /\ asleep' \in {asleep, asleep \ {r}}
    BY <1>7 DEF RecvFindsNone, RecvTimesOut, Return, Goto, ringVars
  <2>2. On("write_cond")' \subseteq On("write_cond") /\ On("read_cond")' \subseteq On("read_cond")
    BY <1>2, <2>1 DEF On
  <2>3. WokenWriters \subseteq WokenWriters' BY <1>2, <2>1 DEF WokenWriters, Woken, Stopped
  <2> QED BY <1>1, <2>1, <2>2, <2>3, WakeFrame
<1>8. ASSUME NEW b \in BOOLEAN, SetDisabled(b) PROVE NoLostWakeup'
  <2>1. asleep' = asleep \ On("write_cond") /\ UNCHANGED <<msg_count, pc>> BY <1>8 DEF SetDisabled, ringVars
  <2>2. On("write_cond")' = {} /\ On("read_cond")' = On("read_cond") BY <2>1 DEF On
  <2>3. WokenReaders' = WokenReaders BY <2>1 DEF WokenReaders, Woken, On
  <2> QED BY <2>1, <2>2, <2>3 DEF NoLostWakeup
<1>9. ASSUME NEW t \in Threads, SpuriousWakeup(t) PROVE NoLostWakeup'
  <2>1. asleep' = asleep \ {t} /\ UNCHANGED <<msg_count, writing_disabled, pc>> BY <1>9 DEF SpuriousWakeup, ringVars
  <2> QED BY <1>1, <2>1, WakeFrame DEF On, WokenWriters, WokenReaders, Woken, Stopped
<1>10. CASE UNCHANGED vars
  <2>1. UNCHANGED <<msg_count, writing_disabled, pc, asleep>> BY <1>10 DEF vars, ringVars
  <2> QED BY <1>1, <2>1, WakeFrame DEF On, WokenWriters, WokenReaders, Woken, Stopped
<1> QED BY <1>3, <1>4, <1>5, <1>6, <1>7, <1>8, <1>9, <1>10, SendWaitsWakes, RecvWaitsWakes, PutWakes, TakeWakes
        DEF Next, Send, Recv

\* In the ring no wake-up is lost: while senders sleep there is a sender on its way
\* for every free slot, and the same for receivers and messages.
THEOREM RingLosesNoWakeup == Spec => []NoLostWakeup
<1>1. Init => NoLostWakeup BY DEF Init, NoLostWakeup, On
<1> QED BY <1>1, WakeStep, Invariance, PTL DEF Spec

-----------------------------------------------------------------------------
(* Part two: the linked list.  A list is known by the sequence s of the    *)
(* addresses of its nodes, from head to tail.                              *)

Linked(nd, hd, tl, s) ==
  /\ s \in Seq(List!Nodes) /\ Distinct(s)
  /\ nd \in [List!Nodes -> List!NodeRecords \cup {Nothing}]
  /\ \A a \in List!Nodes : nd[a] # Nothing <=> a \in Elems(s)
  /\ \A i \in 1 .. Len(s) : /\ nd[s[i]].next = IF i = Len(s) THEN 0 ELSE s[i + 1]
                            /\ nd[s[i]].prev = IF i = 1 THEN 0 ELSE s[i - 1]
  /\ hd = IF Len(s) = 0 THEN 0 ELSE s[1]
  /\ tl = IF Len(s) = 0 THEN 0 ELSE s[Len(s)]

Msgs(nd, s) == [i \in 1 .. Len(s) |-> nd[s[i]].msg]

\* The function that Nth of DynQueue denotes.
Chain(nd, hd, n) == CHOOSE f : f = [i \in 1 .. n |-> IF i = 1 THEN hd ELSE nd[f[i - 1]].next]

LEMMA NthIsChain ==
  /\ \A n : List!Nth(n) = Chain(l_node, l_head, n)
  /\ List!Contents' = [i \in 1 .. l_msg_count' |-> l_node'[Chain(l_node', l_head', l_msg_count')[i]].msg]
BY Zenon DEF List!Nth, Chain, List!Contents

LEMMA LinkedNodes ==
  ASSUME NEW nd, NEW hd, NEW tl, NEW s, Linked(nd, hd, tl, s)
  PROVE  /\ Len(s) \in Nat /\ s \in [1 .. Len(s) -> List!Nodes]
         /\ \A i \in 1 .. Len(s) : nd[s[i]] \in List!NodeRecords /\ s[i] \in Elems(s) /\ s[i] # 0
         /\ \A i, j \in 1 .. Len(s) : s[i] = s[j] => i = j
<1>1. Len(s) \in Nat /\ s \in [1 .. Len(s) -> List!Nodes] BY LenProperties, ElementOfSeq DEF Linked
<1>2. \A i \in 1 .. Len(s) : s[i] \in Elems(s) /\ s[i] \in List!Nodes BY <1>1 DEF Elems
<1>3. \A i \in 1 .. Len(s) : nd[s[i]] \in List!NodeRecords BY <1>2 DEF Linked
<1>4. 0 \notin List!Nodes BY DEF List!Nodes
<1> QED BY <1>1, <1>2, <1>3, <1>4 DEF Linked, Distinct

\* Following the next links from the head gives the nodes in order.
LEMMA ChainOfLinked ==
  ASSUME NEW nd, NEW hd, NEW tl, NEW s, Linked(nd, hd, tl, s)
  PROVE  Chain(nd, hd, Len(s)) = s
<1> DEFINE n == Len(s)
           Eqn(f) == f = [i \in 1 .. n |-> IF i = 1 THEN hd ELSE nd[f[i - 1]].next]
           f == Chain(nd, hd, n)
<1>1. n \in Nat /\ s \in [1 .. n -> List!Nodes] BY LinkedNodes
<1>2. Eqn(s)
  <2>1. ASSUME NEW i \in 1 .. n PROVE s[i] = IF i = 1 THEN hd ELSE nd[s[i - 1]].next
    <3>1. CASE i = 1 BY <1>1, <3>1 DEF Linked
    <3>2. CASE i # 1
      <4>1. i - 1 \in 1 .. n /\ i - 1 # n /\ (i - 1) + 1 = i BY <1>1, <3>2
      <4>2. nd[s[i - 1]].next = s[(i - 1) + 1] BY <4>1 DEF Linked
      <4> QED BY <3>2, <4>1, <4>2
    <3> QED BY <3>1, <3>2
  <2> QED BY <1>1, <2>1
<1>3. Eqn(f)
  <2>1. f = CHOOSE g : Eqn(g) BY Zenon DEF Chain
  <2> HIDE DEF Eqn, f
  <2> QED BY <1>2, <2>1
<1> HIDE DEF f
<1>4. f = [i \in 1 .. n |-> IF i = 1 THEN hd ELSE nd[f[i - 1]].next] BY <1>3
<1> DEFINE T == {m \in Nat : m + 1 \in 1 .. n => f[m + 1] = s[m + 1]}
<1>5. 0 \in T
  <2>1. ASSUME 1 \in 1 .. n PROVE f[1] = s[1] BY <1>2, <1>4, <2>1
  <2> QED BY <2>1
<1>6. ASSUME NEW m \in T PROVE m + 1 \in T
  <2>1. m \in Nat BY <1>6
  <2>2. ASSUME m + 2 \in 1 .. n PROVE f[m + 2] = s[m + 2]
    <3>1. m + 1 \in 1 .. n /\ (m + 2) - 1 = m + 1 /\ m + 2 # 1 BY <1>1, <2>1, <2>2
    <3>2. f[m + 1] = s[m + 1] BY <1>6, <3>1
    <3>3. f[m + 2] = nd[f[m + 1]].next /\ s[m + 2] = nd[s[m + 1]].next
      BY <1>2, <1>4, <2>2, <3>1
    <3> QED BY <3>2, <3>3
  <2>3. m + 1 \in Nat /\ (m + 1) + 1 = m + 2 BY <2>1
  <2> QED BY <2>2, <2>3
<1>7. T = Nat
  <2> HIDE DEF T
  <2>1. T \in SUBSET Nat BY DEF T
  <2> QED BY <1>5, <1>6, <2>1, NatSetInduction
<1>8. \A i \in 1 .. n : f[i] = s[i]
  <2>1. ASSUME NEW i \in 1 .. n PROVE f[i] = s[i]
    <3>1. i - 1 \in Nat /\ (i - 1) + 1 = i BY <1>1
    <3>2. i - 1 \in T BY <1>7, <3>1
    <3> QED BY <3>1, <3>2
  <2> QED BY <2>1
<1>9. f = [i \in 1 .. n |-> f[i]] BY <1>4
<1>10. f = s BY <1>1, <1>8, <1>9
<1> QED BY <1>10 DEF f

LEMMA MsgsType ==
  ASSUME NEW nd, NEW hd, NEW tl, NEW s, Linked(nd, hd, tl, s)
  PROVE  /\ Msgs(nd, s) \in Seq(List!Messages) /\ Len(Msgs(nd, s)) = Len(s)
         /\ \A i \in 1 .. Len(s) : Msgs(nd, s)[i] = nd[s[i]].msg
<1>1. Len(s) \in Nat /\ \A i \in 1 .. Len(s) : nd[s[i]] \in List!NodeRecords BY LinkedNodes
<1>2. \A i \in 1 .. Len(s) : nd[s[i]].msg \in List!Messages BY <1>1 DEF List!NodeRecords
<1>3. Msgs(nd, s) \in [1 .. Len(s) -> List!Messages] BY <1>2 DEF Msgs
<1> QED BY <1>1, <1>3 DEF Msgs

\* append_msg_to_dq_tail puts a node it allocated behind the last one.
Appended(nd, hd, tl, a, m, nd2, hd2, tl2) ==
  /\ nd2 = [b \in List!Nodes |->
              IF b = a THEN [msg |-> m, next |-> 0, prev |-> IF hd = 0 THEN 0 ELSE tl]
              ELSE IF hd # 0 /\ b = tl THEN [nd[b] EXCEPT !.next = a] ELSE nd[b]]
  /\ hd2 = IF hd = 0 THEN a ELSE hd
  /\ tl2 = a

LEMMA AppendLinked ==
  ASSUME NEW nd, NEW hd, NEW tl, NEW s, Linked(nd, hd, tl, s),
         NEW a \in List!Nodes, nd[a] = Nothing, NEW m \in List!Messages, NEW nd2, NEW hd2, NEW tl2,
         Appended(nd, hd, tl, a, m, nd2, hd2, tl2)
  PROVE  /\ Linked(nd2, hd2, tl2, Append(s, a)) /\ Len(Append(s, a)) = Len(s) + 1
         /\ Msgs(nd2, Append(s, a)) = Append(Msgs(nd, s), m)
<1> DEFINE n == Len(s)
           r == Append(s, a)
<1>1. /\ n \in Nat /\ s \in [1 .. n -> List!Nodes]
      /\ \A i \in 1 .. n : nd[s[i]] \in List!NodeRecords /\ s[i] \in Elems(s) /\ s[i] # 0
      /\ \A i, j \in 1 .. n : s[i] = s[j] => i = j
  BY LinkedNodes
<1>2. /\ s \in Seq(List!Nodes) /\ Distinct(s) /\ nd \in [List!Nodes -> List!NodeRecords \cup {Nothing}]
      /\ \A b \in List!Nodes : nd[b] # Nothing <=> b \in Elems(s)
      /\ \A i \in 1 .. n : /\ nd[s[i]].next = IF i = n THEN 0 ELSE s[i + 1]
                           /\ nd[s[i]].prev = IF i = 1 THEN 0 ELSE s[i - 1]
      /\ hd = (IF n = 0 THEN 0 ELSE s[1]) /\ tl = (IF n = 0 THEN 0 ELSE s[n])
  BY DEF Linked
<1>3. a \notin Elems(s) /\ a # 0 BY <1>2 DEF List!Nodes
<1>4. r \in Seq(List!Nodes) /\ Elems(r) = Elems(s) \cup {a} /\ Distinct(r) BY <1>2, <1>3, AppendElems
<1>5. Len(r) = n + 1 /\ (\A i \in 1 .. n : r[i] = s[i]) /\ r[n + 1] = a BY <1>2, AppendProperties
<1> HIDE DEF n, r
<1>6. hd = 0 <=> n = 0 BY <1>1, <1>2
<1>7. n # 0 => tl = s[n] /\ n \in 1 .. n /\ tl \in List!Nodes BY <1>1, <1>2
<1>8. /\ nd2[a] = [msg |-> m, next |-> 0, prev |-> IF n = 0 THEN 0 ELSE s[n]]
      /\ \A i \in 1 .. n : nd2[s[i]] = IF i = n THEN [nd[s[i]] EXCEPT !.next = a] ELSE nd[s[i]]
  <2>1. nd2[a] = [msg |-> m, next |-> 0, prev |-> IF n = 0 THEN 0 ELSE s[n]] BY <1>2, <1>6 DEF Appended
  <2>2. ASSUME NEW i \in 1 .. n PROVE nd2[s[i]] = IF i = n THEN [nd[s[i]] EXCEPT !.next = a] ELSE nd[s[i]]
    <3>1. s[i] # a /\ s[i] \in List!Nodes /\ hd # 0 BY <1>1, <1>3, <1>6
    <3>2. s[i] = tl <=> i = n BY <1>1, <1>7
    <3> QED BY <3>1, <3>2 DEF Appended
  <2> QED BY <2>1, <2>2
<1>9. nd2[a] \in List!NodeRecords /\ \A i \in 1 .. n : nd2[s[i]] \in List!NodeRecords
  <2>1. 0 \in List!Nodes \cup {List!Null} BY DEF List!Null
  <2>2. n # 0 => s[n] \in List!Nodes BY <1>1
  <2>3. nd2[a] \in List!NodeRecords BY <1>8, <2>1, <2>2 DEF List!NodeRecords
  <2>4. \A i \in 1 .. n : nd2[s[i]] \in List!NodeRecords BY <1>1, <1>8 DEF List!NodeRecords
  <2> QED BY <2>3, <2>4
<1>10. Nothing \notin List!NodeRecords BY ListAssumption DEF List!DynQueueAssumption
<1>11. \A b \in List!Nodes : b \notin Elems(r) => nd2[b] = Nothing
  <2>1. SUFFICES ASSUME NEW b \in List!Nodes, b \notin Elems(r) PROVE nd2[b] = Nothing OBVIOUS
  <2>2. b # a /\ nd[b] = Nothing /\ b \notin Elems(s) BY <1>2, <1>4, <2>1
  <2>3. ~(hd # 0 /\ b = tl) BY <1>1, <1>6, <1>7, <2>2
  <2> QED BY <2>2, <2>3 DEF Appended
<1>12. \A b \in Elems(r) : nd2[b] \in List!NodeRecords
  <2>1. \A b \in Elems(s) : \E i \in 1 .. n : b = s[i] BY DEF Elems, n
  <2> QED BY <1>4, <1>9, <2>1
<1>13. nd2 \in [List!Nodes -> List!NodeRecords \cup {Nothing}]
  <2>1. \A b \in List!Nodes : nd2[b] \in List!NodeRecords \cup {Nothing} BY <1>11, <1>12
  <2>2. nd2 = [b \in List!Nodes |-> nd2[b]] BY DEF Appended
  <2> QED BY <2>1, <2>2
<1>14. \A b \in List!Nodes : nd2[b] # Nothing <=> b \in Elems(r) BY <1>10, <1>11, <1>12
<1>15. ASSUME NEW i \in 1 .. n + 1
       PROVE  /\ nd2[r[i]].next = IF i = n + 1 THEN 0 ELSE r[i + 1]
              /\ nd2[r[i]].prev = IF i = 1 THEN 0 ELSE r[i - 1]
              /\ nd2[r[i]].msg = Append(Msgs(nd, s), m)[i]
  <2>1. /\ Len(Msgs(nd, s)) = n /\ \A j \in 1 .. n : Append(Msgs(nd, s), m)[j] = nd[s[j]].msg
        /\ Append(Msgs(nd, s), m)[n + 1] = m
    BY MsgsType, AppendProperties DEF n
  <2>2. CASE i = n + 1
    <3>1. r[i] = a /\ (n # 0 => r[i - 1] = s[n] /\ i # 1) /\ (n = 0 => i = 1) BY <1>1, <1>5, <2>2
    <3> QED BY <1>8, <2>1, <2>2, <3>1
  <2>3. CASE i \in 1 .. n
    <3>1. r[i] = s[i] /\ (i # n => r[i + 1] = s[i + 1] /\ i + 1 \in 1 .. n) /\ (i = n => r[i + 1] = a) /\ i # n + 1
      BY <1>1, <1>5, <2>3
    <3>2. i # 1 => r[i - 1] = s[i - 1] /\ i - 1 \in 1 .. n BY <1>1, <1>5, <2>3
    <3>3. nd[s[i]] \in List!NodeRecords BY <1>1, <2>3
    <3>4. nd2[s[i]].msg = nd[s[i]].msg /\ nd2[s[i]].prev = nd[s[i]].prev
          /\ nd2[s[i]].next = IF i = n THEN a ELSE nd[s[i]].next
      <4>1. CASE i = n
        <5>1. nd2[s[i]] = [nd[s[i]] EXCEPT !.next = a] BY <1>8, <2>3, <4>1
        <5> QED BY <3>3, <4>1, <5>1 DEF List!NodeRecords
      <4>2. CASE i # n
        <5>1. nd2[s[i]] = nd[s[i]] BY <1>8, <2>3, <4>2
        <5> QED BY <4>2, <5>1
      <4> QED BY <4>1, <4>2
    <3> QED BY <1>2, <2>1, <2>3, <3>1, <3>2, <3>4
  <2>4. i = n + 1 \/ i \in 1 .. n BY <1>1
  <2> QED BY <2>2, <2>3, <2>4
<1>16. hd2 = r[1] /\ tl2 = r[n + 1] BY <1>1, <1>2, <1>5, <1>6 DEF Appended
<1>17. Linked(nd2, hd2, tl2, r)
  <2>1. Len(r) # 0 BY <1>1, <1>5
  <2>2. \A i \in 1 .. Len(r) : /\ nd2[r[i]].next = IF i = Len(r) THEN 0 ELSE r[i + 1]
                               /\ nd2[r[i]].prev = IF i = 1 THEN 0 ELSE r[i - 1]
    BY <1>5, <1>15
  <2>3. hd2 = r[1] /\ tl2 = r[Len(r)] BY <1>5, <1>16
  <2> QED BY <1>4, <1>13, <1>14, <2>1, <2>2, <2>3 DEF Linked
<1>18. Msgs(nd2, r) = Append(Msgs(nd, s), m)
  <2>1. /\ Append(Msgs(nd, s), m) \in Seq(List!Messages) /\ Len(Append(Msgs(nd, s), m)) = n + 1
    BY MsgsType, AppendProperties DEF n
  <2>2. Msgs(nd2, r) \in Seq(List!Messages) /\ Len(Msgs(nd2, r)) = n + 1
        /\ \A i \in 1 .. n + 1 : Msgs(nd2, r)[i] = nd2[r[i]].msg
    <3>1. /\ Msgs(nd2, r) \in Seq(List!Messages) /\ Len(Msgs(nd2, r)) = Len(r)
          /\ \A i \in 1 .. Len(r) : Msgs(nd2, r)[i] = nd2[r[i]].msg
      BY <1>17, MsgsType
    <3> QED BY <1>5, <3>1
  <2>3. \A i \in 1 .. n + 1 : Msgs(nd2, r)[i] = Append(Msgs(nd, s), m)[i] BY <1>15, <2>2
  <2> QED BY <2>1, <2>2, <2>3, SeqEqual
<1> QED BY <1>5, <1>17, <1>18 DEF n, r

\* remove_msg_from_dq_head takes the first node and frees it.
Removed(nd, hd, tl, nd2, hd2, tl2) ==
  /\ hd2 = nd[hd].next
  /\ tl2 = IF nd[hd].next = 0 THEN 0 ELSE tl
  /\ nd2 = [b \in List!Nodes |->
              IF b = hd THEN Nothing
              ELSE IF b = nd[hd].next THEN [nd[b] EXCEPT !.prev = 0] ELSE nd[b]]

LEMMA RemoveLinked ==
  ASSUME NEW nd, NEW hd, NEW tl, NEW s, Linked(nd, hd, tl, s), s # <<>>, NEW nd2, NEW hd2, NEW tl2,
         Removed(nd, hd, tl, nd2, hd2, tl2)
  PROVE  /\ Linked(nd2, hd2, tl2, Tail(s)) /\ Len(Tail(s)) = Len(s) - 1
         /\ Msgs(nd, s) # <<>> /\ nd[hd].msg = Head(Msgs(nd, s))
         /\ Msgs(nd2, Tail(s)) = Tail(Msgs(nd, s))
<1> DEFINE n == Len(s)
           r == Tail(s)
<1>1. /\ n \in Nat /\ s \in [1 .. n -> List!Nodes]
      /\ \A i \in 1 .. n : nd[s[i]] \in List!NodeRecords /\ s[i] \in Elems(s) /\ s[i] # 0
      /\ \A i, j \in 1 .. n : s[i] = s[j] => i = j
  BY LinkedNodes
<1>2. /\ s \in Seq(List!Nodes) /\ Distinct(s) /\ nd \in [List!Nodes -> List!NodeRecords \cup {Nothing}]
      /\ \A b \in List!Nodes : nd[b] # Nothing <=> b \in Elems(s)
      /\ \A i \in 1 .. n : /\ nd[s[i]].next = IF i = n THEN 0 ELSE s[i + 1]
                           /\ nd[s[i]].prev = IF i = 1 THEN 0 ELSE s[i - 1]
      /\ hd = (IF n = 0 THEN 0 ELSE s[1]) /\ tl = (IF n = 0 THEN 0 ELSE s[n])
  BY DEF Linked
<1>3. n # 0 BY <1>2, EmptySeq
<1>4. r \in Seq(List!Nodes) /\ Distinct(r) /\ Elems(r) = Elems(s) \ {Head(s)} /\ Head(s) = s[1]
  BY <1>2, TailElems, HeadTailProperties
<1>5. Len(r) = n - 1 /\ \A i \in 1 .. n - 1 : r[i] = s[i + 1] BY <1>2, HeadTailProperties
<1>6. \A b \in Elems(s) : \E i \in 1 .. n : b = s[i] BY DEF Elems
<1>7. /\ Msgs(nd, s) \in Seq(List!Messages) /\ Len(Msgs(nd, s)) = n
      /\ \A i \in 1 .. n : Msgs(nd, s)[i] = nd[s[i]].msg
  BY MsgsType
<1> HIDE DEF n, r
<1>8. 1 \in 1 .. n /\ n \in 1 .. n /\ hd = s[1] /\ tl = s[n] /\ hd \in List!Nodes BY <1>1, <1>2, <1>3
<1>9. nd[hd].next = IF n = 1 THEN 0 ELSE s[2] BY <1>2, <1>8
<1>10. nd2[hd] = Nothing /\ \A i \in 2 .. n : nd2[s[i]] = IF i = 2 THEN [nd[s[i]] EXCEPT !.prev = 0] ELSE nd[s[i]]
  <2>1. nd2[hd] = Nothing BY <1>8 DEF Removed
  <2>2. ASSUME NEW i \in 2 .. n PROVE nd2[s[i]] = IF i = 2 THEN [nd[s[i]] EXCEPT !.prev = 0] ELSE nd[s[i]]
    <3>1. i \in 1 .. n /\ 2 \in 1 .. n /\ i # 1 /\ n # 1 BY <1>1
    <3>2. s[i] # hd /\ s[i] \in List!Nodes BY <1>1, <1>8, <3>1
    <3>3. s[i] = nd[hd].next <=> i = 2 BY <1>1, <1>9, <3>1
    <3> QED BY <3>2, <3>3 DEF Removed
  <2> QED BY <2>1, <2>2
<1>21. \A i \in 1 .. n - 1 : nd2[s[i + 1]] = IF i = 1 THEN [nd[s[i + 1]] EXCEPT !.prev = 0] ELSE nd[s[i + 1]]
  <2>1. SUFFICES ASSUME NEW i \in 1 .. n - 1
                 PROVE  nd2[s[i + 1]] = IF i = 1 THEN [nd[s[i + 1]] EXCEPT !.prev = 0] ELSE nd[s[i + 1]]
    OBVIOUS
  <2>2. PICK j \in 2 .. n : j = i + 1 /\ (j = 2 <=> i = 1) BY <1>1
  <2>3. nd2[s[j]] = IF j = 2 THEN [nd[s[j]] EXCEPT !.prev = 0] ELSE nd[s[j]] BY <1>10
  <2> QED BY <2>2, <2>3
<1>11. \A i \in 2 .. n : nd2[s[i]] \in List!NodeRecords
  <2>1. SUFFICES ASSUME NEW i \in 2 .. n PROVE nd2[s[i]] \in List!NodeRecords OBVIOUS
  <2>2. nd[s[i]] \in List!NodeRecords BY <1>1
  <2>3. CASE i = 2
    <3>1. nd2[s[i]] = [nd[s[i]] EXCEPT !.prev = 0] BY <1>10, <2>3
    <3>2. 0 \in List!Nodes \cup {List!Null} BY DEF List!Null
    <3> QED BY <2>2, <3>1, <3>2 DEF List!NodeRecords
  <2>4. CASE i # 2
    <3>1. nd2[s[i]] = nd[s[i]] BY <1>10, <2>4
    <3> QED BY <2>2, <3>1
  <2> QED BY <2>3, <2>4
<1>12. Nothing \notin List!NodeRecords BY ListAssumption DEF List!DynQueueAssumption
<1>13. \A b \in Elems(r) : nd2[b] \in List!NodeRecords
  <2>1. SUFFICES ASSUME NEW b \in Elems(r) PROVE nd2[b] \in List!NodeRecords OBVIOUS
  <2>2. b \in Elems(s) /\ b # s[1] BY <1>4
  <2>3. PICK i \in 1 .. n : b = s[i] BY <1>6, <2>2
  <2>4. i \in 2 .. n BY <1>1, <2>2, <2>3
  <2> QED BY <1>11, <2>3, <2>4
<1>14. \A b \in List!Nodes : b \notin Elems(r) => nd2[b] = Nothing
  <2>1. SUFFICES ASSUME NEW b \in List!Nodes, b \notin Elems(r) PROVE nd2[b] = Nothing OBVIOUS
  <2>2. CASE b = hd BY <1>10, <2>2
  <2>3. CASE b # hd
    <3>1. b \notin Elems(s) /\ nd[b] = Nothing BY <1>2, <1>4, <1>8, <2>1, <2>3
    <3>2. n # 1 => 2 \in 1 .. n BY <1>1, <1>3
    <3>3. b # 0 BY DEF List!Nodes
    <3>4. b # nd[hd].next BY <1>1, <1>9, <3>1, <3>2, <3>3
    <3> QED BY <2>3, <3>1, <3>4 DEF Removed
  <2> QED BY <2>2, <2>3
<1>15. nd2 \in [List!Nodes -> List!NodeRecords \cup {Nothing}]
  <2>1. \A b \in List!Nodes : nd2[b] \in List!NodeRecords \cup {Nothing} BY <1>13, <1>14
  <2>2. nd2 = [b \in List!Nodes |-> nd2[b]] BY DEF Removed
  <2> QED BY <2>1, <2>2
<1>16. \A b \in List!Nodes : nd2[b] # Nothing <=> b \in Elems(r) BY <1>12, <1>13, <1>14
<1>17. ASSUME NEW i \in 1 .. n - 1
       PROVE  /\ nd2[r[i]].next = IF i = n - 1 THEN 0 ELSE r[i + 1]
              /\ nd2[r[i]].prev = IF i = 1 THEN 0 ELSE r[i - 1]
              /\ nd2[r[i]].msg = nd[s[i + 1]].msg
  <2>1. r[i] = s[i + 1] /\ i + 1 \in 2 .. n /\ i + 1 \in 1 .. n /\ i + 1 # 1 /\ (i = n - 1 <=> i + 1 = n)
    BY <1>1, <1>5
  <2>2. i # n - 1 => i + 1 \in 1 .. n - 1 /\ r[i + 1] = s[(i + 1) + 1] BY <1>1, <1>5
  <2>3. i # 1 => i - 1 \in 1 .. n - 1 /\ r[i - 1] = s[i] /\ (i + 1) - 1 = i BY <1>1, <1>5
  <2>4. nd[s[i + 1]] \in List!NodeRecords BY <1>1, <2>1
  <2>5. /\ nd2[s[i + 1]].next = nd[s[i + 1]].next /\ nd2[s[i + 1]].msg = nd[s[i + 1]].msg
        /\ nd2[s[i + 1]].prev = IF i = 1 THEN 0 ELSE nd[s[i + 1]].prev
    <3>1. CASE i = 1
      <4>1. nd2[s[i + 1]] = [nd[s[i + 1]] EXCEPT !.prev = 0] BY <1>21, <3>1
      <4> QED BY <2>4, <3>1, <4>1 DEF List!NodeRecords
    <3>2. CASE i # 1
      <4>1. nd2[s[i + 1]] = nd[s[i + 1]] BY <1>21, <3>2
      <4> QED BY <3>2, <4>1
    <3> QED BY <3>1, <3>2
  <2>6. /\ nd[s[i + 1]].next = IF i + 1 = n THEN 0 ELSE s[(i + 1) + 1]
        /\ nd[s[i + 1]].prev = s[(i + 1) - 1]
    BY <1>2, <2>1
  <2> QED BY <2>1, <2>2, <2>3, <2>5, <2>6
<1>18. Linked(nd2, hd2, tl2, r)
  <2>1. \A i \in 1 .. Len(r) : /\ nd2[r[i]].next = IF i = Len(r) THEN 0 ELSE r[i + 1]
                               /\ nd2[r[i]].prev = IF i = 1 THEN 0 ELSE r[i - 1]
    BY <1>5, <1>17
  <2>2. hd2 = (IF Len(r) = 0 THEN 0 ELSE r[1]) /\ tl2 = (IF Len(r) = 0 THEN 0 ELSE r[Len(r)])
    <3>1. CASE n = 1 BY <1>5, <1>9, <3>1 DEF Removed
    <3>2. CASE n # 1
      <4>1. 1 \in 1 .. n - 1 /\ n - 1 \in 1 .. n - 1 /\ (n - 1) + 1 = n /\ 2 \in 1 .. n BY <1>1, <1>3, <3>2
      <4>2. r[1] = s[2] /\ r[n - 1] = s[n] /\ s[2] # 0 BY <1>1, <1>5, <4>1
      <4> QED BY <1>5, <1>8, <1>9, <3>2, <4>1, <4>2 DEF Removed
    <3> QED BY <3>1, <3>2
  <2> QED BY <1>4, <1>15, <1>16, <2>1, <2>2 DEF Linked
<1>19. Msgs(nd, s) # <<>> /\ nd[hd].msg = Head(Msgs(nd, s))
  <2>1. Msgs(nd, s) # <<>> BY <1>3, <1>7, EmptySeq
  <2>2. Head(Msgs(nd, s)) = Msgs(nd, s)[1] BY <1>7, <2>1, HeadTailProperties
  <2> QED BY <1>7, <1>8, <2>1, <2>2
<1>20. Msgs(nd2, r) = Tail(Msgs(nd, s))
  <2>1. /\ Tail(Msgs(nd, s)) \in Seq(List!Messages) /\ Len(Tail(Msgs(nd, s))) = n - 1
        /\ \A i \in 1 .. n - 1 : Tail(Msgs(nd, s))[i] = Msgs(nd, s)[i + 1]
    BY <1>7, <1>19, HeadTailProperties
  <2>2. Msgs(nd2, r) \in Seq(List!Messages) /\ Len(Msgs(nd2, r)) = n - 1
        /\ \A i \in 1 .. n - 1 : Msgs(nd2, r)[i] = nd2[r[i]].msg
    <3>1. /\ Msgs(nd2, r) \in Seq(List!Messages) /\ Len(Msgs(nd2, r)) = Len(r)
          /\ \A i \in 1 .. Len(r) : Msgs(nd2, r)[i] = nd2[r[i]].msg
      BY <1>18, MsgsType
    <3> QED BY <1>5, <3>1
  <2>3. \A i \in 1 .. n - 1 : i + 1 \in 1 .. n BY <1>1
  <2>4. \A i \in 1 .. n - 1 : Msgs(nd2, r)[i] = Tail(Msgs(nd, s))[i] BY <1>7, <1>17, <2>1, <2>2, <2>3
  <2> QED BY <2>1, <2>2, <2>4, SeqEqual
<1> QED BY <1>5, <1>18, <1>19, <1>20 DEF n, r

-----------------------------------------------------------------------------
(* The inductive invariant of the list.                                    *)

\* The list's instance of FiniteSets is the module itself.
LEMMA ListFiniteSets ==
  /\ \A S : List!IsFiniteSet(S) <=> IsFiniteSet(S)
  /\ \A S : List!Cardinality(S) = Cardinality(S)
<1>1. \A S : List!IsFiniteSet(S) <=> IsFiniteSet(S) BY Zenon DEF List!IsFiniteSet, IsFiniteSet
<1>2. \A S : List!Cardinality(S) = Cardinality(S) BY Zenon DEF List!Cardinality, Cardinality
<1> QED BY <1>1, <1>2

ListReaders == {r \in ListReceivers : l_pc[r] = "read_cond"}

\* The links are those of some sequence of msg_count nodes; whoever sleeps is in
\* the receive's wait and counted there.
LInv ==
  /\ List!TypeOK
  /\ \E s : Linked(l_node, l_head, l_tail, s) /\ Len(s) = l_msg_count
  /\ l_asleep \subseteq ListReaders /\ l_readers_waiting = Cardinality(ListReaders)
  /\ List!NoLostWakeup

ListWoken == ListReaders \ l_asleep

LEMMA ListReadersFinite ==
  /\ IsFiniteSet(ListReceivers) /\ Cardinality(ListReceivers) \in Nat
  /\ IsFiniteSet(ListReaders) /\ IsFiniteSet(ListReaders') /\ IsFiniteSet(ListWoken) /\ IsFiniteSet(ListWoken')
  /\ Cardinality(ListReaders) \in 0 .. Cardinality(ListReceivers)
  /\ Cardinality(ListReaders') \in 0 .. Cardinality(ListReceivers)
  /\ Cardinality(ListWoken) \in Nat /\ Cardinality(ListWoken') \in Nat
<1>1. IsFiniteSet(ListReceivers) BY ListAssumption, ListFiniteSets DEF List!DynQueueAssumption
<1>2. /\ ListReaders \in SUBSET ListReceivers /\ ListReaders' \in SUBSET ListReceivers
      /\ ListWoken \in SUBSET ListReceivers /\ ListWoken' \in SUBSET ListReceivers
  BY DEF ListReaders, ListWoken
<1>3. /\ IsFiniteSet(ListReaders) /\ IsFiniteSet(ListReaders')
      /\ IsFiniteSet(ListWoken) /\ IsFiniteSet(ListWoken')
  BY <1>1, <1>2, FS_Subset
<1>4. /\ Cardinality(ListReceivers) \in Nat /\ Cardinality(ListReaders) \in Nat
      /\ Cardinality(ListReaders') \in Nat
      /\ Cardinality(ListWoken) \in Nat /\ Cardinality(ListWoken') \in Nat
  BY <1>1, <1>3, FS_CardinalityType
<1>5. /\ Cardinality(ListReaders) <= Cardinality(ListReceivers)
      /\ Cardinality(ListReaders') <= Cardinality(ListReceivers)
  BY <1>1, <1>2, FS_Subset
<1>6. /\ Cardinality(ListReaders) \in 0 .. Cardinality(ListReceivers)
      /\ Cardinality(ListReaders') \in 0 .. Cardinality(ListReceivers)
  BY <1>4, <1>5
<1> QED BY <1>1, <1>3, <1>4, <1>6

\* What a step of receiver r does to the number of receivers in the wait.
LEMMA ListCount ==
  ASSUME List!TypeOK, NEW r \in ListReceivers, NEW to, l_pc' = [l_pc EXCEPT ![r] = to]
  PROVE  /\ l_pc[r] = "read_cond" /\ to # "read_cond" =>
              Cardinality(ListReaders') = Cardinality(ListReaders) - 1
         /\ l_pc[r] # "read_cond" /\ to = "read_cond" =>
              Cardinality(ListReaders') = Cardinality(ListReaders) + 1
         /\ (l_pc[r] = "read_cond" <=> to = "read_cond") => Cardinality(ListReaders') = Cardinality(ListReaders)
<1>1. l_pc \in [ListReceivers -> {"idle", "recv", "read_cond"}] BY DEF List!TypeOK
<1>2. ASSUME l_pc[r] = "read_cond", to # "read_cond" PROVE Cardinality(ListReaders') = Cardinality(ListReaders) - 1
  <2>1. ListReaders' = ListReaders \ {r} /\ r \in ListReaders BY <1>1, <1>2 DEF ListReaders
  <2> QED BY <2>1, ListReadersFinite, FS_RemoveElement
<1>3. ASSUME l_pc[r] # "read_cond", to = "read_cond" PROVE Cardinality(ListReaders') = Cardinality(ListReaders) + 1
  <2>1. ListReaders' = ListReaders \cup {r} /\ r \notin ListReaders BY <1>1, <1>3 DEF ListReaders
  <2> QED BY <2>1, ListReadersFinite, FS_AddElement
<1>4. ASSUME l_pc[r] = "read_cond" <=> to = "read_cond" PROVE Cardinality(ListReaders') = Cardinality(ListReaders)
  <2>1. ListReaders' = ListReaders BY <1>1, <1>4 DEF ListReaders
  <2> QED BY <2>1
<1> QED BY <1>2, <1>3, <1>4

LEMMA ListWake ==
  /\ List!NoLostWakeup <=> (l_asleep # {} => Cardinality(ListWoken) >= l_msg_count)
  /\ List!NoLostWakeup' <=> (l_asleep' # {} => Cardinality(ListWoken') >= l_msg_count')
<1>1. /\ ListWoken = {r \in ListReceivers : l_pc[r] = "read_cond"} \ l_asleep
      /\ ListWoken' = {r \in ListReceivers : l_pc'[r] = "read_cond"} \ l_asleep'
  BY DEF ListWoken, ListReaders
<1> QED BY <1>1, ListFiniteSets DEF List!NoLostWakeup

\* The parts of the invariant after a step.
LEMMA LInvIntro ==
  ASSUME NEW s, Linked(l_node', l_head', l_tail', s), Len(s) = l_msg_count', l_msg_count' \in 0 .. MaxCount,
         l_pc' \in [ListReceivers -> {"idle", "recv", "read_cond"}],
         l_asleep' \subseteq ListReaders', l_readers_waiting' = Cardinality(ListReaders'),
         l_asleep' # {} => Cardinality(ListWoken') >= l_msg_count'
  PROVE  LInv'
<1>1. List!TypeOK'
  <2>1. l_node' \in [List!Nodes -> List!NodeRecords \cup {Nothing}] BY DEF Linked
  <2>2. l_head' \in List!Nodes \cup {List!Null} /\ l_tail' \in List!Nodes \cup {List!Null}
    <3>1. Len(s) \in Nat /\ s \in [1 .. Len(s) -> List!Nodes] BY LinkedNodes
    <3>2. CASE Len(s) = 0 BY <3>2 DEF Linked, List!Null
    <3>3. CASE Len(s) # 0
      <4>1. 1 \in 1 .. Len(s) /\ Len(s) \in 1 .. Len(s) BY <3>1, <3>3
      <4> QED BY <3>1, <3>3, <4>1 DEF Linked
    <3> QED BY <3>2, <3>3
  <2>3. l_asleep' \subseteq ListReceivers BY DEF ListReaders
  <2>4. l_readers_waiting' \in 0 .. List!Cardinality(ListReceivers) BY ListReadersFinite, ListFiniteSets
  <2> QED BY <2>1, <2>2, <2>3, <2>4 DEF List!TypeOK
<1>2. List!NoLostWakeup' BY ListWake
<1>3. \E q : Linked(l_node', l_head', l_tail', q) /\ Len(q) = l_msg_count' OBVIOUS
<1> QED BY <1>1, <1>2, <1>3 DEF LInv

LEMMA LInvParts ==
  ASSUME LInv
  PROVE  /\ l_pc \in [ListReceivers -> {"idle", "recv", "read_cond"}]
         /\ l_asleep \subseteq ListReaders /\ l_asleep \subseteq ListReceivers
         /\ l_readers_waiting = Cardinality(ListReaders) /\ l_readers_waiting \in Nat
         /\ l_msg_count \in 0 .. MaxCount /\ MaxCount \in Nat
         /\ l_asleep # {} => Cardinality(ListWoken) >= l_msg_count
         /\ List!TypeOK
<1>1. l_asleep # {} => Cardinality(ListWoken) >= l_msg_count BY ListWake DEF LInv
<1>2. MaxCount \in Nat BY ListAssumption DEF List!DynQueueAssumption
<1>3. l_asleep \subseteq ListReceivers BY DEF LInv, ListReaders
<1> QED BY <1>1, <1>2, <1>3, ListReadersFinite DEF LInv, List!TypeOK

LEMMA ListInvInit == List!Init => LInv
<1> SUFFICES ASSUME List!Init PROVE LInv OBVIOUS
<1> USE DEF List!Init
<1>1. Linked(l_node, l_head, l_tail, <<>>)
  <2>1. <<>> \in Seq(List!Nodes) /\ Len(<<>>) = 0 /\ Distinct(<<>>) /\ Elems(<<>>) = {}
    BY DEF Elems, Distinct
  <2>2. \A i \in 1 .. 0 : FALSE OBVIOUS
  <2>3. l_node \in [List!Nodes -> List!NodeRecords \cup {Nothing}]
        /\ \A a \in List!Nodes : l_node[a] # Nothing <=> a \in {}
    OBVIOUS
  <2> QED BY <2>1, <2>2, <2>3 DEF Linked, List!Null
<1>2. ListReaders = {} BY DEF ListReaders
<1>3. Cardinality(ListReaders) = 0 BY <1>2, FS_EmptySet
<1>4. List!TypeOK
  <2>1. 0 \in 0 .. MaxCount /\ 0 \in 0 .. List!Cardinality(ListReceivers)
    BY ListAssumption, ListReadersFinite, ListFiniteSets DEF List!DynQueueAssumption
  <2> QED BY <2>1 DEF List!TypeOK
<1>5. List!NoLostWakeup BY DEF List!NoLostWakeup
<1>6. Len(<<>>) = l_msg_count OBVIOUS
<1> QED BY <1>1, <1>2, <1>3, <1>4, <1>5, <1>6 DEF LInv

\* A step that leaves the list alone.
LEMMA ListFrame ==
  ASSUME LInv, UNCHANGED List!listVars,
         l_pc' \in [ListReceivers -> {"idle", "recv", "read_cond"}],
         l_asleep' \subseteq ListReaders', l_readers_waiting' = Cardinality(ListReaders'),
         l_asleep' # {} => Cardinality(ListWoken') >= l_msg_count'
  PROVE  LInv'
<1>1. l_node' = l_node /\ l_head' = l_head /\ l_tail' = l_tail /\ l_msg_count' = l_msg_count BY DEF List!listVars
<1>2. PICK s : Linked(l_node, l_head, l_tail, s) /\ Len(s) = l_msg_count BY DEF LInv
<1>3. l_msg_count' \in 0 .. MaxCount BY <1>1, LInvParts
<1>4. Linked(l_node', l_head', l_tail', s) /\ Len(s) = l_msg_count' BY <1>1, <1>2
<1> QED BY <1>3, <1>4, LInvIntro

LEMMA ListRecvCall ==
  ASSUME LInv, NEW r \in ListReceivers, NEW m \in {"block", "try", "timed"},
         List!RecvCall(r, m) \/ List!RecvFindsNone(r)
  PROVE  LInv'
<1>1. PICK to \in {"idle", "recv"} :
        /\ l_pc[r] # "read_cond" /\ l_pc' = [l_pc EXCEPT ![r] = to]
        /\ UNCHANGED List!listVars /\ l_readers_waiting' = l_readers_waiting /\ l_asleep' = l_asleep
  BY DEF List!RecvCall, List!RecvFindsNone, List!Goto, List!Return
<1>2. ListReaders' = ListReaders BY <1>1, LInvParts DEF ListReaders
<1>3. ListWoken' = ListWoken BY <1>1, <1>2 DEF ListWoken
<1>4. l_pc' \in [ListReceivers -> {"idle", "recv", "read_cond"}] BY <1>1, LInvParts
<1>5. l_msg_count' = l_msg_count BY <1>1 DEF List!listVars
<1> QED BY <1>1, <1>2, <1>3, <1>4, <1>5, LInvParts, ListFrame

LEMMA ListRecvWaits ==
  ASSUME LInv, NEW r \in ListReceivers, List!RecvWaits(r)
  PROVE  LInv'
<1>1. /\ l_pc' = [l_pc EXCEPT ![r] = "read_cond"] /\ UNCHANGED List!listVars
      /\ l_asleep' = l_asleep \cup {r} /\ l_msg_count = 0
      /\ l_pc[r] = "recv" \/ l_pc[r] = "read_cond"
      /\ l_readers_waiting' = (IF l_pc[r] = "read_cond" THEN l_readers_waiting - 1 ELSE l_readers_waiting) + 1
  BY DEF List!RecvWaits, List!Goto, List!At, List!CountedOut
<1>2. l_pc' \in [ListReceivers -> {"idle", "recv", "read_cond"}] BY <1>1, LInvParts
<1>3. ListReaders' = ListReaders \cup {r} BY <1>1, LInvParts DEF ListReaders
<1>4. l_asleep' \subseteq ListReaders' BY <1>1, <1>3, LInvParts
<1>5. l_readers_waiting' = Cardinality(ListReaders')
  <2>1. List!TypeOK /\ l_readers_waiting = Cardinality(ListReaders) /\ l_readers_waiting \in Nat BY LInvParts
  <2>2. CASE l_pc[r] = "read_cond"
    <3>1. Cardinality(ListReaders') = Cardinality(ListReaders) BY <1>1, <2>1, <2>2, ListCount
    <3> QED BY <1>1, <2>1, <2>2, <3>1
  <2>3. CASE l_pc[r] # "read_cond"
    <3>1. Cardinality(ListReaders') = Cardinality(ListReaders) + 1 BY <1>1, <2>1, <2>3, ListCount
    <3> QED BY <1>1, <2>1, <2>3, <3>1
  <2> QED BY <2>2, <2>3
<1>6. l_msg_count' = 0 BY <1>1 DEF List!listVars
<1>7. Cardinality(ListWoken') >= 0 BY ListReadersFinite
<1> QED BY <1>1, <1>2, <1>4, <1>5, <1>6, <1>7, ListFrame

LEMMA ListRecvTimesOut ==
  ASSUME LInv, NEW r \in ListReceivers, List!RecvTimesOut(r)
  PROVE  LInv'
<1>1. /\ l_pc' = [l_pc EXCEPT ![r] = "idle"] /\ UNCHANGED List!listVars
      /\ l_asleep' = l_asleep \ {r} /\ l_msg_count = 0 /\ l_pc[r] = "read_cond"
      /\ l_readers_waiting' = l_readers_waiting - 1
  BY DEF List!RecvTimesOut, List!Goto, List!Return
<1>2. l_pc' \in [ListReceivers -> {"idle", "recv", "read_cond"}] BY <1>1, LInvParts
<1>3. ListReaders' = ListReaders \ {r} BY <1>1, LInvParts DEF ListReaders
<1>4. l_asleep' \subseteq ListReaders' BY <1>1, <1>3, LInvParts
<1>5. l_readers_waiting' = Cardinality(ListReaders')
  <2>1. List!TypeOK /\ l_readers_waiting = Cardinality(ListReaders) /\ "idle" # "read_cond" BY LInvParts
  <2>2. Cardinality(ListReaders') = Cardinality(ListReaders) - 1 BY <1>1, <2>1, ListCount
  <2> QED BY <1>1, <2>1, <2>2
<1>6. l_msg_count' = 0 BY <1>1 DEF List!listVars
<1>7. Cardinality(ListWoken') >= 0 BY ListReadersFinite
<1> QED BY <1>1, <1>2, <1>4, <1>5, <1>6, <1>7, ListFrame

LEMMA ListInPlace ==
  ASSUME LInv, UNCHANGED List!vars \/ (\E b \in BOOLEAN : List!SetDisabled(b))
               \/ (\E r \in ListReceivers : List!SpuriousWakeup(r))
  PROVE  LInv'
<1>1. UNCHANGED List!listVars /\ l_pc' = l_pc /\ l_readers_waiting' = l_readers_waiting /\ l_asleep' \subseteq l_asleep
  BY DEF List!vars, List!SetDisabled, List!SpuriousWakeup, List!callVars
<1>2. ListReaders' = ListReaders BY <1>1 DEF ListReaders
<1>3. ListWoken \subseteq ListWoken' BY <1>1, <1>2 DEF ListWoken
<1>4. Cardinality(ListWoken') >= Cardinality(ListWoken) BY <1>3, ListReadersFinite, NotFewer
<1>5. l_msg_count' = l_msg_count BY <1>1 DEF List!listVars
<1>6. l_asleep' # {} => Cardinality(ListWoken') >= l_msg_count'
  BY <1>1, <1>4, <1>5, LInvParts, ListReadersFinite
<1>7. l_asleep' \subseteq ListReaders' BY <1>1, <1>2, LInvParts
<1> QED BY <1>1, <1>2, <1>6, <1>7, LInvParts, ListFrame

\* A receive takes the head of the list out.
LEMMA ListRecvTakes ==
  ASSUME LInv, NEW r \in ListReceivers, List!RecvTakes(r)
  PROVE  LInv'
<1>1. /\ l_pc' = [l_pc EXCEPT ![r] = "idle"] /\ l_asleep' = l_asleep /\ l_msg_count > 0
      /\ l_pc[r] = "recv" \/ (l_pc[r] = "read_cond" /\ r \notin l_asleep)
      /\ l_msg_count' = l_msg_count - 1
      /\ l_readers_waiting' = IF l_pc[r] = "read_cond" THEN l_readers_waiting - 1 ELSE l_readers_waiting
      /\ Removed(l_node, l_head, l_tail, l_node', l_head', l_tail')
  BY DEF List!RecvTakes, List!Goto, List!Return, List!At, List!CountedOut, List!RemoveHead, List!Null, Removed
<1>2. l_pc' \in [ListReceivers -> {"idle", "recv", "read_cond"}] BY <1>1, LInvParts
<1>3. ListReaders' = ListReaders \ {r} BY <1>1, LInvParts DEF ListReaders
<1>4. r \notin l_asleep BY <1>1, LInvParts DEF ListReaders
<1>5. l_asleep' \subseteq ListReaders' BY <1>1, <1>3, <1>4, LInvParts
<1>6. l_readers_waiting' = Cardinality(ListReaders')
  <2>1. List!TypeOK /\ l_readers_waiting = Cardinality(ListReaders) /\ "idle" # "read_cond" BY LInvParts
  <2>2. CASE l_pc[r] = "read_cond"
    <3>1. Cardinality(ListReaders') = Cardinality(ListReaders) - 1 BY <1>1, <2>1, <2>2, ListCount
    <3> QED BY <1>1, <2>1, <2>2, <3>1
  <2>3. CASE l_pc[r] # "read_cond"
    <3>1. Cardinality(ListReaders') = Cardinality(ListReaders) BY <1>1, <2>1, <2>3, ListCount
    <3> QED BY <1>1, <2>1, <2>3, <3>1
  <2> QED BY <2>2, <2>3
<1>7. PICK s : Linked(l_node, l_head, l_tail, s) /\ Len(s) = l_msg_count BY DEF LInv
<1>8. s # <<>>
  <2>1. s = <<>> => Len(s) = 0 OBVIOUS
  <2> QED BY <1>1, <1>7, <2>1, LInvParts
<1>9. Linked(l_node', l_head', l_tail', Tail(s)) /\ Len(Tail(s)) = Len(s) - 1 BY <1>1, <1>7, <1>8, RemoveLinked
<1>10. Len(Tail(s)) = l_msg_count' /\ l_msg_count' \in 0 .. MaxCount BY <1>1, <1>7, <1>9, LInvParts
<1>11. l_asleep' # {} => Cardinality(ListWoken') >= l_msg_count'
  <2>1. ListWoken \ {r} \subseteq ListWoken' BY <1>1, <1>3 DEF ListWoken
  <2>2. Cardinality(ListWoken') >= Cardinality(ListWoken) - 1 BY <2>1, ListReadersFinite, OneLess
  <2> QED BY <1>1, <2>2, LInvParts, ListReadersFinite
<1> QED BY <1>2, <1>5, <1>6, <1>9, <1>10, <1>11, LInvIntro

\* A send puts a node at the tail and wakes a receiver that sleeps.
LEMMA ListSend ==
  ASSUME LInv, NEW t \in Senders, NEW d \in Data, List!Send(t, d)
  PROVE  LInv'
<1>1. /\ l_pc' = l_pc /\ l_readers_waiting' = l_readers_waiting
      /\ l_msg_count # MaxCount /\ l_msg_count' = l_msg_count + 1
  BY DEF List!Send, List!callVars
<1>2. PICK a \in List!FreeNodes : List!AppendTail(a, [from |-> t, data |-> d]) BY DEF List!Send
<1>3. a \in List!Nodes /\ l_node[a] = Nothing BY DEF List!FreeNodes
<1>4. [from |-> t, data |-> d] \in List!Messages BY DEF List!Messages
<1>5. Appended(l_node, l_head, l_tail, a, [from |-> t, data |-> d], l_node', l_head', l_tail')
  BY <1>2 DEF List!AppendTail, List!Null, Appended
<1>6. PICK s : Linked(l_node, l_head, l_tail, s) /\ Len(s) = l_msg_count BY DEF LInv
<1>7. Linked(l_node', l_head', l_tail', Append(s, a)) /\ Len(Append(s, a)) = Len(s) + 1
  BY <1>3, <1>4, <1>5, <1>6, AppendLinked
<1>8. Len(Append(s, a)) = l_msg_count' /\ l_msg_count' \in 0 .. MaxCount BY <1>1, <1>6, <1>7, LInvParts
<1>9. ListReaders' = ListReaders BY <1>1 DEF ListReaders
<1>10. l_asleep' \subseteq l_asleep /\ (l_asleep' # {} => Cardinality(ListWoken') >= l_msg_count')
  <2>1. CASE l_readers_waiting > 0 /\ l_asleep # {}
    <3>1. PICK u \in l_asleep : l_asleep' = l_asleep \ {u} BY <2>1 DEF List!Send, List!Signal
    <3>2. u \notin ListWoken /\ ListWoken \cup {u} \subseteq ListWoken' BY <1>9, <3>1, LInvParts DEF ListWoken
    <3>3. Cardinality(ListWoken') >= Cardinality(ListWoken) + 1 BY <3>2, ListReadersFinite, OneMore
    <3>4. Cardinality(ListWoken') >= l_msg_count' BY <1>1, <2>1, <3>3, LInvParts, ListReadersFinite
    <3> QED BY <3>1, <3>4
  <2>2. CASE ~(l_readers_waiting > 0 /\ l_asleep # {})
    <3>1. l_asleep = {}
      <4>1. CASE l_readers_waiting > 0 BY <2>2, <4>1
      <4>2. CASE ~(l_readers_waiting > 0)
        <5>1. Cardinality(ListReaders) = 0 BY <4>2, LInvParts
        <5>2. ListReaders = {} BY <5>1, ListReadersFinite, FS_EmptySet
        <5> QED BY <5>2, LInvParts
      <4> QED BY <4>1, <4>2
    <3>2. l_asleep' = l_asleep BY <2>2 DEF List!Send, List!Signal
    <3> QED BY <3>1, <3>2
  <2> QED BY <2>1, <2>2
<1>11. l_asleep' \subseteq ListReaders' BY <1>9, <1>10, LInvParts
<1>12. l_readers_waiting' = Cardinality(ListReaders') BY <1>1, <1>9, LInvParts
<1>13. l_pc' \in [ListReceivers -> {"idle", "recv", "read_cond"}] BY <1>1, LInvParts
<1> QED BY <1>7, <1>8, <1>10, <1>11, <1>12, <1>13, LInvIntro

LEMMA ListInvStep == LInv /\ [List!Next]_List!vars => LInv'
<1> SUFFICES ASSUME LInv, [List!Next]_List!vars PROVE LInv' OBVIOUS
<1>1. ASSUME NEW t \in Senders, NEW d \in Data, List!Send(t, d) PROVE LInv' BY <1>1, ListSend
<1>2. ASSUME NEW r \in ListReceivers, NEW m \in {"block", "try", "timed"}, List!RecvCall(r, m) PROVE LInv'
  BY <1>2, ListRecvCall
<1>3. ASSUME NEW r \in ListReceivers, List!RecvFindsNone(r) PROVE LInv'
  <2>1. "try" \in {"block", "try", "timed"} OBVIOUS
  <2> QED BY <1>3, <2>1, ListRecvCall
<1>4. ASSUME NEW r \in ListReceivers, List!RecvWaits(r) PROVE LInv' BY <1>4, ListRecvWaits
<1>5. ASSUME NEW r \in ListReceivers, List!RecvTimesOut(r) PROVE LInv' BY <1>5, ListRecvTimesOut
<1>6. ASSUME NEW r \in ListReceivers, List!RecvTakes(r) PROVE LInv' BY <1>6, ListRecvTakes
<1>7. ASSUME NEW r \in ListReceivers, List!SpuriousWakeup(r) PROVE LInv' BY <1>7, ListInPlace
<1>8. ASSUME NEW b \in BOOLEAN, List!SetDisabled(b) PROVE LInv' BY <1>8, ListInPlace
<1>9. CASE UNCHANGED List!vars BY <1>9, ListInPlace
<1> QED BY <1>1, <1>2, <1>3, <1>4, <1>5, <1>6, <1>7, <1>8, <1>9 DEF List!Next

LEMMA ListInvariance == List!Spec => []LInv
BY ListInvInit, ListInvStep, PTL DEF List!Spec

\* The links of a sequence are what ListIntact asks for.
LEMMA LinkedIntact == LInv => List!ListIntact
<1> SUFFICES ASSUME LInv PROVE List!ListIntact OBVIOUS
<1>1. PICK s : Linked(l_node, l_head, l_tail, s) /\ Len(s) = l_msg_count BY DEF LInv
<1>2. /\ l_msg_count \in Nat
      /\ \A i \in 1 .. l_msg_count : l_node[s[i]] \in List!NodeRecords /\ s[i] \in Elems(s) /\ s[i] # 0
      /\ s \in [1 .. l_msg_count -> List!Nodes]
  BY <1>1, LinkedNodes
<1>3. List!Nth(l_msg_count) = s BY <1>1, NthIsChain, ChainOfLinked
<1>4. List!Cardinality({a \in List!Nodes : l_node[a] # Nothing}) = l_msg_count
  <2>1. Elems(s) \subseteq List!Nodes BY <1>1, <1>2 DEF Elems
  <2>2. {a \in List!Nodes : l_node[a] # Nothing} = Elems(s) BY <1>1, <2>1 DEF Linked
  <2>3. Cardinality(Elems(s)) = Len(s) BY <1>1, DistinctCard DEF Linked
  <2> QED BY <1>1, <2>2, <2>3, ListFiniteSets
<1>5. /\ l_head = IF l_msg_count = 0 THEN 0 ELSE s[1]
      /\ l_tail = IF l_msg_count = 0 THEN 0 ELSE s[l_msg_count]
  BY <1>1 DEF Linked
<1>6. l_msg_count # 0 => 1 \in 1 .. l_msg_count /\ l_msg_count \in 1 .. l_msg_count BY <1>2
<1>7. (l_msg_count = 0 <=> l_head = List!Null) /\ (l_head = List!Null <=> l_tail = List!Null)
  BY <1>2, <1>5, <1>6 DEF List!Null
<1>8. ASSUME l_msg_count > 0
      PROVE  /\ l_node[l_head] # Nothing /\ l_node[l_head].prev = List!Null
             /\ l_tail = s[l_msg_count] /\ l_node[l_tail].next = List!Null
             /\ \A i \in 2 .. l_msg_count : l_node[s[i]].prev = s[i - 1]
  <2>1. l_head = s[1] /\ l_tail = s[l_msg_count] /\ l_msg_count # 0 BY <1>2, <1>5, <1>8
  <2>2. Nothing \notin List!NodeRecords BY ListAssumption DEF List!DynQueueAssumption
  <2>3. l_node[l_head] # Nothing BY <1>2, <1>6, <2>1, <2>2
  <2>4. \A i \in 1 .. l_msg_count : /\ l_node[s[i]].next = IF i = l_msg_count THEN 0 ELSE s[i + 1]
                                    /\ l_node[s[i]].prev = IF i = 1 THEN 0 ELSE s[i - 1]
    BY <1>1 DEF Linked
  <2>5. l_node[l_head].prev = List!Null /\ l_node[l_tail].next = List!Null BY <1>6, <2>1, <2>4 DEF List!Null
  <2>6. \A i \in 2 .. l_msg_count : i \in 1 .. l_msg_count /\ i # 1 BY <1>2
  <2> QED BY <2>1, <2>3, <2>4, <2>5, <2>6
<1> QED BY <1>3, <1>4, <1>7, <1>8 DEF List!ListIntact

-----------------------------------------------------------------------------
(* The list's own refinement of the bounded FIFO.                          *)

\* Contents is the messages of the nodes in order.
LEMMA ListContents ==
  ASSUME NEW s
  PROVE  /\ Linked(l_node, l_head, l_tail, s) /\ Len(s) = l_msg_count => List!Contents = Msgs(l_node, s)
         /\ Linked(l_node', l_head', l_tail', s) /\ Len(s) = l_msg_count' => List!Contents' = Msgs(l_node', s)
<1>1. ASSUME Linked(l_node, l_head, l_tail, s), Len(s) = l_msg_count PROVE List!Contents = Msgs(l_node, s)
  <2>1. List!Nth(l_msg_count) = s BY <1>1, NthIsChain, ChainOfLinked
  <2> QED BY <1>1, <2>1 DEF List!Contents, Msgs
<1>2. ASSUME Linked(l_node', l_head', l_tail', s), Len(s) = l_msg_count' PROVE List!Contents' = Msgs(l_node', s)
  <2>1. Chain(l_node', l_head', l_msg_count') = s BY <1>2, ChainOfLinked
  <2> QED BY <1>2, <2>1, NthIsChain DEF Msgs
<1> QED BY <1>1, <1>2

LEMMA ListSendPuts ==
  ASSUME LInv, NEW t \in Senders, NEW d \in Data, List!Send(t, d)
  PROVE  \E m \in List!Messages : List!FIFO!Put(m)
<1> DEFINE m == [from |-> t, data |-> d]
<1>1. /\ l_msg_count # MaxCount /\ l_msg_count' = l_msg_count + 1
      /\ l_writing_disabled => t \in Owners
      /\ l_writing_disabled' = l_writing_disabled /\ l_got' = l_got
  BY DEF List!Send
<1>2. PICK a \in List!FreeNodes : List!AppendTail(a, m) BY DEF List!Send
<1>3. a \in List!Nodes /\ l_node[a] = Nothing BY DEF List!FreeNodes
<1>4. m \in List!Messages /\ m.from = t BY DEF List!Messages
<1> HIDE DEF m
<1>5. Appended(l_node, l_head, l_tail, a, m, l_node', l_head', l_tail')
  BY <1>2 DEF List!AppendTail, List!Null, Appended
<1>6. PICK s : Linked(l_node, l_head, l_tail, s) /\ Len(s) = l_msg_count BY DEF LInv
<1>7. /\ Linked(l_node', l_head', l_tail', Append(s, a)) /\ Len(Append(s, a)) = Len(s) + 1
      /\ Msgs(l_node', Append(s, a)) = Append(Msgs(l_node, s), m)
  BY <1>3, <1>4, <1>5, <1>6, AppendLinked
<1>8. Len(Append(s, a)) = l_msg_count' BY <1>1, <1>6, <1>7
<1>9. List!Contents = Msgs(l_node, s) /\ List!Contents' = Append(Msgs(l_node, s), m)
  BY <1>6, <1>7, <1>8, ListContents
<1>10. Len(List!Contents) < MaxCount BY <1>1, <1>6, <1>9, LInvParts, MsgsType
<1> QED BY <1>1, <1>4, <1>9, <1>10 DEF List!FIFO!Put

LEMMA ListRecvTakesHead ==
  ASSUME LInv, NEW r \in ListReceivers, List!RecvTakes(r)
  PROVE  List!FIFO!Take
<1>1. /\ l_msg_count > 0 /\ l_msg_count' = l_msg_count - 1
      /\ l_got' = l_node[l_head].msg /\ l_writing_disabled' = l_writing_disabled
      /\ Removed(l_node, l_head, l_tail, l_node', l_head', l_tail')
  BY DEF List!RecvTakes, List!RemoveHead, List!Null, Removed
<1>2. PICK s : Linked(l_node, l_head, l_tail, s) /\ Len(s) = l_msg_count BY DEF LInv
<1>3. s # <<>>
  <2>1. s = <<>> => Len(s) = 0 OBVIOUS
  <2> QED BY <1>1, <1>2, <2>1, LInvParts
<1>4. /\ Linked(l_node', l_head', l_tail', Tail(s)) /\ Len(Tail(s)) = Len(s) - 1
      /\ Msgs(l_node, s) # <<>> /\ l_node[l_head].msg = Head(Msgs(l_node, s))
      /\ Msgs(l_node', Tail(s)) = Tail(Msgs(l_node, s))
  BY <1>1, <1>2, <1>3, RemoveLinked
<1>5. Len(Tail(s)) = l_msg_count' BY <1>1, <1>2, <1>4
<1>6. List!Contents = Msgs(l_node, s) /\ List!Contents' = Tail(Msgs(l_node, s))
  BY <1>2, <1>4, <1>5, ListContents
<1> QED BY <1>1, <1>4, <1>6 DEF List!FIFO!Take

LEMMA ListUnchanged == UNCHANGED List!listVars => List!Contents' = List!Contents
<1> SUFFICES ASSUME UNCHANGED List!listVars PROVE List!Contents' = List!Contents OBVIOUS
<1>1. l_node' = l_node /\ l_head' = l_head /\ l_msg_count' = l_msg_count BY DEF List!listVars
<1>2. List!Contents = [i \in 1 .. l_msg_count |-> l_node[List!Nth(l_msg_count)[i]].msg] BY DEF List!Contents
<1> QED BY <1>1, <1>2, NthIsChain

LEMMA ListRefineStep == LInv /\ [List!Next]_List!vars => [List!FIFO!FifoNext]_(List!FIFO!fifoVars)
<1> SUFFICES ASSUME LInv, [List!Next]_List!vars PROVE [List!FIFO!FifoNext]_(List!FIFO!fifoVars) OBVIOUS
<1> DEFINE Goal == List!FIFO!FifoNext \/ UNCHANGED List!FIFO!fifoVars
<1>1. ASSUME NEW t \in Senders, NEW d \in Data, List!Send(t, d) PROVE Goal
  BY <1>1, ListSendPuts DEF List!FIFO!FifoNext
<1>2. ASSUME NEW r \in ListReceivers, List!RecvTakes(r) PROVE Goal BY <1>2, ListRecvTakesHead DEF List!FIFO!FifoNext
<1>3. ASSUME NEW b \in BOOLEAN, List!SetDisabled(b) PROVE Goal
  <2>1. UNCHANGED List!listVars /\ l_writing_disabled' = b /\ l_got' = l_got BY <1>3 DEF List!SetDisabled
  <2> QED BY <2>1, ListUnchanged DEF List!FIFO!FifoNext, List!FIFO!Switch
<1>4. ASSUME UNCHANGED <<List!listVars, l_writing_disabled, l_got>> PROVE Goal
  BY <1>4, ListUnchanged DEF List!FIFO!fifoVars
<1>5. ASSUME NEW r \in ListReceivers, NEW m \in {"block", "try", "timed"}, List!RecvCall(r, m) PROVE Goal
  BY <1>4, <1>5 DEF List!RecvCall
<1>6. ASSUME NEW r \in ListReceivers,
             List!RecvFindsNone(r) \/ List!RecvWaits(r) \/ List!RecvTimesOut(r) \/ List!SpuriousWakeup(r)
      PROVE  Goal
  BY <1>4, <1>6 DEF List!RecvFindsNone, List!RecvWaits, List!RecvTimesOut, List!SpuriousWakeup
<1>7. CASE UNCHANGED List!vars BY <1>4, <1>7 DEF List!vars
<1>8. Goal BY <1>1, <1>2, <1>3, <1>5, <1>6, <1>7 DEF List!Next
<1> QED BY <1>8

LEMMA ListRefineInit == List!Init => List!FIFO!FifoInit
<1> SUFFICES ASSUME List!Init PROVE List!FIFO!FifoInit OBVIOUS
<1>1. l_msg_count = 0 /\ l_writing_disabled = FALSE /\ l_got = Nothing BY DEF List!Init
<1>2. List!Contents = <<>> BY <1>1 DEF List!Contents
<1> QED BY <1>1, <1>2 DEF List!FIFO!FifoInit

-----------------------------------------------------------------------------
(* The two queues together, as they are explored.                          *)

LEMMA RingOfBoth == QSpec => Spec
<1>1. QInit => Init BY DEF QInit
<1>2. [QNext]_<<kind, vars, listQueue>> => [Next]_vars BY DEF QNext, vars
<1> QED BY <1>1, <1>2, PTL DEF QSpec, Spec

LEMMA ListOfBoth == QSpec => List!Spec
<1>1. QInit => List!Init BY DEF QInit
<1>2. [QNext]_<<kind, vars, listQueue>> => [List!Next]_List!vars
  BY DEF QNext, List!vars, List!listVars, List!callVars, listQueue
<1> QED BY <1>1, <1>2, PTL DEF QSpec, List!Spec

\* Neither queue loses a wake-up: a message that is there, and a slot that is
\* free, has a thread on its way to it while others sleep in the wait, however
\* timeouts and spurious wake-ups come together with signals; and the list's
\* links agree in both directions with no node leaked or used after free
\* (cdynmq_send, cdynmq_recv, ccircq_send, ccircq_recv).
THEOREM NoQueueLosesAWakeup == QSpec => []NoWakeupLost
<1>1. List!Spec => [](List!NoLostWakeup /\ List!ListIntact)
  <2>1. LInv => List!NoLostWakeup /\ List!ListIntact BY LinkedIntact DEF LInv
  <2> QED BY <2>1, ListInvariance, PTL
<1>2. NoLostWakeup /\ List!NoLostWakeup /\ List!ListIntact => NoWakeupLost BY DEF NoWakeupLost
<1> QED BY <1>1, <1>2, RingOfBoth, ListOfBoth, RingLosesNoWakeup, PTL

\* The linked list of cdynmq is the bounded FIFO, for any number of nodes: what
\* was sent is received once and in the order it was sent.
THEOREM ListRefinement == QSpec => ListImplementsFIFO
<1>1. List!Spec => List!FIFO!FifoSpec
  BY ListInvariance, ListRefineInit, ListRefineStep, PTL DEF List!Spec, List!FIFO!FifoSpec
<1> QED BY <1>1, ListOfBoth, PTL DEF ListImplementsFIFO, List!ImplementsFIFO

(* Part three: the cache.                                                  *)

Pcs == {"idle", "enter", "wait", "remote", "back", "done"}
AtEntry == {"wait", "remote", "back"}
Working == {"remote", "back"}

EntryRec ==
  [alive : BOOLEAN, key : Keys \cup {Null}, value : Values \cup {Null}, fetching : BOOLEAN,
   setting : BOOLEAN, evicted : BOOLEAN, mismatch : BOOLEAN, failed : BOOLEAN,
   waiters : Int, asleep : SUBSET Callers]
Segment ==
  [map : [Keys -> Entries \cup {Null}], entry : [Entries -> EntryRec],
   lru : Seq(Entries), size : Int]
ThreadRec ==
  [pc : Pcs, op : {"get", "set", Null}, key : Keys \cup {Null},
   want : BufferSizes \cup {AnySize, Null}, val : Values \cup {Null}, ent : Entries \cup {Null},
   ok : BOOLEAN, ret : {"ok", "nomem", "notfound", "mismatch", "failed", Null},
   seen : SUBSET Values]
Calls == [Callers -> ThreadRec]

\* The list orders distinct entries, and the map points at entries of its keys.
SegOK(s) ==
  /\ s \in Segment
  /\ Distinct(s.lru) /\ s.size = Len(s.lru) /\ s.size <= Capacity
  /\ \A k \in Keys : s.map[k] # Null =>
       s.entry[s.map[k]].alive /\ s.entry[s.map[k]].key = k /\ ~s.entry[s.map[k]].evicted

Holders(th, e) == {t \in Callers : th[t].ent = e}

\* An entry and the calls that hold it.
HeldOK(r, th, e) ==
  /\ r.waiters = Cardinality(Holders(th, e))
  /\ \A t \in Callers : th[t].ent = e => r.alive /\ th[t].key = r.key
  /\ \A t \in r.asleep : th[t].ent = e /\ th[t].pc = "wait"
  /\ \A t \in Callers : th[t].ent = e /\ th[t].pc \in Working =>
       /\ th[t].op = "get" => r.fetching
       /\ th[t].op = "set" => r.setting
       /\ \A u \in Callers : th[u].ent = e /\ th[u].pc \in Working => t = u
  /\ r.fetching \/ r.setting => \E t \in Callers : th[t].ent = e /\ th[t].pc \in Working

\* Where an entry is: free, out of the map with calls that hold it, or in it.
PlaceOK(s, e) ==
  LET r == s.entry[e] IN
  /\ ~r.alive => r = Freed /\ ~InLRU(s, e)
  /\ r.alive => r.key \in Keys
  /\ r.alive /\ r.evicted =>
       s.map[r.key] # e /\ ~InLRU(s, e) /\ ~r.fetching /\ ~r.setting /\ r.waiters # 0
  /\ r.alive /\ ~r.evicted =>
       /\ s.map[r.key] = e
       /\ InLRU(s, e) <=> r.value # Null
       /\ r.fetching => ~r.setting /\ ~InLRU(s, e)
       /\ ~Busy(s, e) => InLRU(s, e)
  /\ r.asleep # {} => Busy(s, e)

EntryOK(s, th, e) == HeldOK(s.entry[e], th, e) /\ PlaceOK(s, e)
\* All entries but those of X, which a step is in the middle of changing.
OthersOK(s, th, X) == SegOK(s) /\ \A e \in Entries \ X : EntryOK(s, th, e)

CallOK(c) ==
  /\ c.ent # Null <=> c.pc \in AtEntry
  /\ c.pc # "idle" => c.op \in {"get", "set"} /\ c.key \in Keys
  /\ c.pc \in AtEntry \cup {"enter"} /\ c.op = "set" => c.val \in Values

LRUInv ==
  /\ OthersOK(shard, thread, {}) /\ thread \in Calls
  /\ store \in [Keys -> Values] /\ cache \in [open : BOOLEAN, callbacks : Callbacks]
  /\ \A t \in Callers : CallOK(thread[t])

\* With both callbacks, what is cached is what the store holds, or held at some
\* moment of every call that may still read it.
CachedFresh(s, th, st, e) ==
  s.entry[e].alive /\ InLRU(s, e) =>
    \/ s.entry[e].value = st[s.entry[e].key]
    \/ \E u \in Callers : th[u].ent = e /\ th[u].pc = "back" /\ th[u].op = "set" /\ th[u].ok
CallFresh(s, st, c) ==
  /\ c.pc \in AtEntry \cup {"enter"} => st[c.key] \in c.seen
  /\ c.pc = "back" /\ c.op = "set" /\ c.ok => c.val = st[c.key]
  /\ c.pc = "back" /\ c.op = "get" /\ c.val # Null => c.val = st[c.key]
  /\ c.pc = "wait" /\ c.op = "get" /\ ~Busy(s, c.ent) /\ s.entry[c.ent].value # Null =>
       s.entry[c.ent].value \in c.seen
  /\ c.pc = "done" /\ c.op = "get" /\ c.ret = "ok" => c.val \in c.seen
FreshInv ==
  HasGetter /\ HasSetter =>
    /\ \A e \in Entries : CachedFresh(shard, thread, store, e)
    /\ \A t \in Callers : CallFresh(shard, store, thread[t])

LEMMA UnmapFields ==
  ASSUME NEW s \in Segment, NEW e \in Entries, s.entry[e].key \in Keys
  PROVE  Unmap(s, e) =
           [map |-> [s.map EXCEPT ![s.entry[e].key] = Null],
            entry |-> [s.entry EXCEPT ![e] = [s.entry[e] EXCEPT !.evicted = TRUE, !.asleep = {}]],
            lru |-> s.lru, size |-> s.size]
<1> DEFINE k == s.entry[e].key
           r == [s.entry[e] EXCEPT !.evicted = TRUE, !.asleep = {}]
<1>1. Unmap(s, e) = [[s EXCEPT !.map = [s.map EXCEPT ![k] = Null]] EXCEPT !.entry = [s.entry EXCEPT ![e] = r]]
  BY Zenon DEF Unmap, Segment
<1> HIDE DEF k, r
<1> QED BY <1>1 DEF Segment, k, r

-----------------------------------------------------------------------------
(* Entries, segments and the calls that hold entries.                      *)

LEMMA NullFacts == Null \notin Entries /\ Null \notin Values /\ Capacity \in Nat \ {0}
BY LRUAssumption

LEMMA SegFields ==
  ASSUME NEW s \in Segment
  PROVE  /\ s.map \in [Keys -> Entries \cup {Null}] /\ s.entry \in [Entries -> EntryRec]
         /\ s.lru \in Seq(Entries) /\ s.size \in Int
         /\ s = [map |-> s.map, entry |-> s.entry, lru |-> s.lru, size |-> s.size]
BY DEF Segment

LEMMA ListedIs ==
  ASSUME NEW s, NEW S, s.lru \in Seq(S), NEW e
  PROVE  InLRU(s, e) <=> e \in Elems(s.lru)
<1>1. DOMAIN s.lru = 1 .. Len(s.lru) BY LenProperties
<1> QED BY <1>1 DEF InLRU, Elems

LEMMA FreedFacts == Freed \in EntryRec /\ ~Freed.alive /\ Freed.waiters = 0 /\ Freed.asleep = {} /\ ~Freed.evicted
                    /\ ~Freed.fetching /\ ~Freed.setting /\ Freed.value = Null
BY DEF Freed, EntryRec

\* An entry record after a step that changes it.
LEMMA RecFields ==
  ASSUME NEW r \in EntryRec
  PROVE  /\ r.alive \in BOOLEAN /\ r.key \in Keys \cup {Null} /\ r.value \in Values \cup {Null}
         /\ r.fetching \in BOOLEAN /\ r.setting \in BOOLEAN /\ r.evicted \in BOOLEAN
         /\ r.waiters \in Int /\ r.asleep \in SUBSET Callers
BY DEF EntryRec

Put(s, e, r) == [s EXCEPT !.entry = [s.entry EXCEPT ![e] = r]]

LEMMA PutFields ==
  ASSUME NEW s \in Segment, NEW e \in Entries, NEW r \in EntryRec
  PROVE  /\ Put(s, e, r) \in Segment
         /\ Put(s, e, r).map = s.map /\ Put(s, e, r).lru = s.lru /\ Put(s, e, r).size = s.size
         /\ Put(s, e, r).entry[e] = r
         /\ \A f \in Entries \ {e} : Put(s, e, r).entry[f] = s.entry[f]
         /\ \A f : InLRU(Put(s, e, r), f) <=> InLRU(s, f)
<1> DEFINE z == [s.entry EXCEPT ![e] = r]
<1>1. z \in [Entries -> EntryRec] /\ z[e] = r /\ \A f \in Entries \ {e} : z[f] = s.entry[f]
  BY SegFields
<1>2. Put(s, e, r) = [s EXCEPT !.entry = z] BY Zenon DEF Put
<1> HIDE DEF z
<1>3. /\ Put(s, e, r) \in Segment
      /\ Put(s, e, r).map = s.map /\ Put(s, e, r).lru = s.lru /\ Put(s, e, r).size = s.size
      /\ Put(s, e, r).entry = z
  BY <1>1, <1>2 DEF Segment
<1>4. \A f : InLRU(Put(s, e, r), f) <=> InLRU(s, f) BY <1>3 DEF InLRU
<1> QED BY <1>1, <1>3, <1>4

LEMMA PlaceSame ==
  ASSUME NEW s, NEW z, NEW e, PlaceOK(s, e), z.entry[e] = s.entry[e],
         s.entry[e].alive => (z.map[s.entry[e].key] = e <=> s.map[s.entry[e].key] = e),
         InLRU(z, e) <=> InLRU(s, e)
  PROVE  PlaceOK(z, e)
BY DEF PlaceOK, Busy

\* Only an entry of X changes, and it stays where the map has it.
LEMMA PutOthers ==
  ASSUME NEW s, NEW th, NEW X, NEW e \in Entries \cap X, NEW r \in EntryRec, OthersOK(s, th, X),
         \A k \in Keys : s.map[k] = e => r.alive /\ r.key = k /\ ~r.evicted
  PROVE  OthersOK(Put(s, e, r), th, X)
<1> DEFINE z == Put(s, e, r)
<1>1. s \in Segment BY DEF OthersOK, SegOK
<1>2. /\ z \in Segment /\ z.map = s.map /\ z.lru = s.lru /\ z.size = s.size /\ z.entry[e] = r
      /\ \A f \in Entries \ {e} : z.entry[f] = s.entry[f]
      /\ \A f : InLRU(z, f) <=> InLRU(s, f)
  BY <1>1, PutFields
<1> HIDE DEF z
<1>3. SegOK(z)
  <2>1. s.map \in [Keys -> Entries \cup {Null}] BY <1>1, SegFields
  <2>2. ASSUME NEW k \in Keys, z.map[k] # Null
        PROVE  z.entry[z.map[k]].alive /\ z.entry[z.map[k]].key = k /\ ~z.entry[z.map[k]].evicted
    <3>1. CASE s.map[k] = e BY <1>2, <3>1
    <3>2. CASE s.map[k] # e
      <4>1. s.map[k] \in Entries \ {e} BY <1>2, <2>1, <2>2, <3>2
      <4> QED BY <1>2, <2>2, <4>1 DEF OthersOK, SegOK
    <3> QED BY <3>1, <3>2
  <2> QED BY <1>2, <2>2 DEF OthersOK, SegOK
<1>4. ASSUME NEW f \in Entries \ X PROVE EntryOK(z, th, f)
  <2>1. f \in Entries \ {e} /\ EntryOK(s, th, f) BY DEF OthersOK
  <2>2. PlaceOK(s, f) /\ HeldOK(s.entry[f], th, f) BY <2>1 DEF EntryOK
  <2>3. PlaceOK(z, f) BY <1>2, <2>1, <2>2, PlaceSame
  <2> QED BY <1>2, <2>1, <2>2, <2>3 DEF EntryOK
<1> QED BY <1>3, <1>4 DEF OthersOK, z

LEMMA CallFields ==
  ASSUME NEW c \in ThreadRec
  PROVE  /\ c.pc \in Pcs /\ c.key \in Keys \cup {Null} /\ c.val \in Values \cup {Null}
         /\ c.ent \in Entries \cup {Null} /\ c.ok \in BOOLEAN /\ c.seen \in SUBSET Values
BY DEF ThreadRec

LEMMA ChangeCall ==
  ASSUME NEW th \in Calls, NEW t \in Callers, NEW c \in ThreadRec
  PROVE  /\ [th EXCEPT ![t] = c] \in Calls /\ [th EXCEPT ![t] = c][t] = c
         /\ \A u \in Callers \ {t} : [th EXCEPT ![t] = c][u] = th[u]
BY DEF Calls

LEMMA HoldersFinite ==
  ASSUME NEW th, NEW e
  PROVE  IsFiniteSet(Holders(th, e)) /\ Cardinality(Holders(th, e)) \in Nat
         /\ (Cardinality(Holders(th, e)) = 0 <=> \A t \in Callers : th[t].ent # e)
<1>1. Holders(th, e) \subseteq Callers /\ IsFiniteSet(Callers) BY LRUAssumption DEF Holders
<1>2. IsFiniteSet(Holders(th, e)) BY <1>1, FS_Subset
<1>3. Cardinality(Holders(th, e)) = 0 <=> Holders(th, e) = {} BY <1>2, FS_EmptySet
<1> QED BY <1>2, <1>3, FS_CardinalityType DEF Holders

\* A call takes or lets go of an entry.
LEMMA HoldersChange ==
  ASSUME NEW th \in Calls, NEW t \in Callers, NEW c \in ThreadRec, NEW e, NEW z, z = [th EXCEPT ![t] = c]
  PROVE  /\ th[t].ent # e /\ c.ent = e => Cardinality(Holders(z, e)) = Cardinality(Holders(th, e)) + 1
         /\ th[t].ent = e /\ c.ent # e => Cardinality(Holders(z, e)) = Cardinality(Holders(th, e)) - 1
         /\ th[t].ent # e /\ c.ent # e => Cardinality(Holders(z, e)) = Cardinality(Holders(th, e))
         /\ th[t].ent = e /\ c.ent = e => Cardinality(Holders(z, e)) = Cardinality(Holders(th, e))
<1>1. z[t] = c /\ \A u \in Callers \ {t} : z[u] = th[u] BY DEF Calls
<1>2. IsFiniteSet(Holders(th, e)) /\ IsFiniteSet(Holders(z, e)) BY HoldersFinite
<1>3. ASSUME th[t].ent # e, c.ent = e PROVE Cardinality(Holders(z, e)) = Cardinality(Holders(th, e)) + 1
  <2>1. Holders(z, e) = Holders(th, e) \cup {t} /\ t \notin Holders(th, e) BY <1>1, <1>3 DEF Holders
  <2> QED BY <1>2, <2>1, FS_AddElement
<1>4. ASSUME th[t].ent = e, c.ent # e PROVE Cardinality(Holders(z, e)) = Cardinality(Holders(th, e)) - 1
  <2>1. Holders(z, e) = Holders(th, e) \ {t} /\ t \in Holders(th, e) BY <1>1, <1>4 DEF Holders
  <2> QED BY <1>2, <2>1, FS_RemoveElement
<1>5. ASSUME th[t].ent # e, c.ent # e PROVE Holders(z, e) = Holders(th, e) BY <1>1, <1>5 DEF Holders
<1>6. ASSUME th[t].ent = e, c.ent = e PROVE Holders(z, e) = Holders(th, e) BY <1>1, <1>6 DEF Holders
<1> QED BY <1>3, <1>4, <1>5, <1>6

LEMMA HeldLeave ==
  ASSUME NEW th \in Calls, NEW t \in Callers, NEW c \in ThreadRec, NEW e,
         NEW r \in EntryRec, NEW q \in EntryRec, HeldOK(r, th, e),
         th[t].ent = e, c.ent # e, q.alive, q.key = r.key, q.waiters = r.waiters - 1,
         q.asleep \subseteq r.asleep, t \notin q.asleep,
         th[t].pc \in Working => ~q.fetching /\ ~q.setting,
         th[t].pc \notin Working => (q.fetching <=> r.fetching) /\ (q.setting <=> r.setting)
  PROVE  HeldOK(q, [th EXCEPT ![t] = c], e)
<1> DEFINE z == [th EXCEPT ![t] = c]
<1>1. z[t] = c /\ \A u \in Callers \ {t} : z[u] = th[u] BY DEF Calls
<1>2. Cardinality(Holders(z, e)) = Cardinality(Holders(th, e)) - 1 BY HoldersChange
<1>3. r.asleep \subseteq Callers BY RecFields
<1> HIDE DEF z
<1>4. q.waiters = Cardinality(Holders(z, e)) BY <1>2 DEF HeldOK
<1>5. \A u \in Callers : z[u].ent = e => u # t /\ th[u].ent = e /\ z[u] = th[u] BY <1>1
<1>6. \A u \in q.asleep : z[u].ent = e /\ z[u].pc = "wait" BY <1>1, <1>3 DEF HeldOK
<1>7. CASE th[t].pc \in Working
  <2>1. \A u \in Callers : z[u].ent = e => z[u].pc \notin Working BY <1>5, <1>7 DEF HeldOK
  <2> QED BY <1>4, <1>5, <1>6, <1>7, <2>1 DEF HeldOK, z
<1>8. CASE th[t].pc \notin Working
  <2>1. r.fetching \/ r.setting => \E u \in Callers : z[u].ent = e /\ z[u].pc \in Working
    <3>1. SUFFICES ASSUME r.fetching \/ r.setting PROVE \E u \in Callers : z[u].ent = e /\ z[u].pc \in Working
      OBVIOUS
    <3>2. PICK u \in Callers : th[u].ent = e /\ th[u].pc \in Working BY <3>1 DEF HeldOK
    <3>3. u # t BY <1>8, <3>2
    <3> QED BY <1>1, <3>2, <3>3
  <2> QED BY <1>4, <1>5, <1>6, <1>8, <2>1 DEF HeldOK, z
<1> QED BY <1>7, <1>8

LEMMA HeldJoin ==
  ASSUME NEW th \in Calls, NEW t \in Callers, NEW c \in ThreadRec, NEW e,
         NEW r \in EntryRec, NEW q \in EntryRec, HeldOK(r, th, e),
         th[t].ent # e, c.ent = e, q.alive, c.key = q.key, q.waiters = r.waiters + 1,
         r.alive => q.key = r.key,
         q.asleep \subseteq r.asleep \cup {t}, t \in q.asleep => c.pc = "wait",
         c.pc \in Working => ~r.fetching /\ ~r.setting /\ (c.op = "get" => q.fetching) /\ (c.op = "set" => q.setting),
         c.pc \notin Working => (q.fetching <=> r.fetching) /\ (q.setting <=> r.setting),
         \A u \in Callers : th[u].pc \in Working => th[u].op \in {"get", "set"}
  PROVE  HeldOK(q, [th EXCEPT ![t] = c], e)
<1> DEFINE z == [th EXCEPT ![t] = c]
<1>1. z[t] = c /\ \A u \in Callers \ {t} : z[u] = th[u] BY DEF Calls
<1>2. Cardinality(Holders(z, e)) = Cardinality(Holders(th, e)) + 1 BY HoldersChange
<1>3. r.asleep \subseteq Callers BY RecFields
<1> HIDE DEF z
<1>4. q.waiters = Cardinality(Holders(z, e)) BY <1>2 DEF HeldOK
<1>5. \A u \in Callers : z[u].ent = e => q.alive /\ z[u].key = q.key BY <1>1 DEF HeldOK
<1>6. \A u \in q.asleep : z[u].ent = e /\ z[u].pc = "wait"
  <2>1. ASSUME NEW u \in q.asleep, u # t PROVE z[u].ent = e /\ z[u].pc = "wait"
    <3>1. u \in r.asleep /\ u \in Callers \ {t} BY <1>3, <2>1
    <3> QED BY <1>1, <3>1 DEF HeldOK
  <2> QED BY <1>1, <2>1
<1>7. CASE c.pc \in Working
  <2>1. \A u \in Callers \ {t} : th[u].ent = e => th[u].pc \notin Working BY <1>7 DEF HeldOK
  <2>2. \A u \in Callers : z[u].ent = e /\ z[u].pc \in Working => u = t BY <1>1, <2>1
  <2> QED BY <1>1, <1>4, <1>5, <1>6, <1>7, <2>2 DEF HeldOK, z
<1>8. CASE c.pc \notin Working
  <2>1. \A u \in Callers : z[u].ent = e /\ z[u].pc \in Working => u # t /\ z[u] = th[u] BY <1>1, <1>8
  <2>2. r.fetching \/ r.setting => \E u \in Callers : z[u].ent = e /\ z[u].pc \in Working
    <3>1. SUFFICES ASSUME r.fetching \/ r.setting PROVE \E u \in Callers : z[u].ent = e /\ z[u].pc \in Working
      OBVIOUS
    <3>2. PICK u \in Callers : th[u].ent = e /\ th[u].pc \in Working BY <3>1 DEF HeldOK
    <3>3. u # t BY <3>2
    <3> QED BY <1>1, <3>2, <3>3
  <2> QED BY <1>4, <1>5, <1>6, <1>8, <2>1, <2>2 DEF HeldOK, z
<1> QED BY <1>7, <1>8

\* Calls that keep their entries, and stay asleep or at work as they are.
LEMMA HeldSame ==
  ASSUME NEW th, NEW z, NEW e, NEW r, NEW q, HeldOK(r, th, e), r.asleep \subseteq Callers,
         \A u \in Callers : (th[u].ent = e <=> z[u].ent = e),
         \A u \in Callers : th[u].ent = e =>
           /\ z[u].key = th[u].key /\ z[u].op = th[u].op
           /\ z[u].pc \in Working <=> th[u].pc \in Working
           /\ z[u].pc = "wait" <=> th[u].pc = "wait",
         q.alive = r.alive, q.key = r.key, q.waiters = r.waiters, q.fetching = r.fetching, q.setting = r.setting,
         \A u \in q.asleep : u \in r.asleep \/ (u \in Callers /\ th[u].ent = e /\ th[u].pc = "wait")
  PROVE  HeldOK(q, z, e)
<1>1. Holders(z, e) = Holders(th, e) BY DEF Holders
<1>2. \A u \in q.asleep : z[u].ent = e /\ z[u].pc = "wait" BY DEF HeldOK
<1>3. q.fetching \/ q.setting => \E u \in Callers : z[u].ent = e /\ z[u].pc \in Working BY DEF HeldOK
<1> QED BY <1>1, <1>2, <1>3 DEF HeldOK

\* Only a call that holds an entry of X, or none, changes.
LEMMA CallOthers ==
  ASSUME NEW s, NEW th \in Calls, NEW X, NEW t \in Callers, NEW c \in ThreadRec, OthersOK(s, th, X),
         th[t].ent \in X \cup {Null}, c.ent \in X \cup {Null}
  PROVE  OthersOK(s, [th EXCEPT ![t] = c], X)
<1> DEFINE z == [th EXCEPT ![t] = c]
<1>1. z[t] = c /\ \A u \in Callers \ {t} : z[u] = th[u] BY DEF Calls
<1> HIDE DEF z
<1>2. ASSUME NEW e \in Entries \ X PROVE EntryOK(s, z, e)
  <2>1. HeldOK(s.entry[e], th, e) /\ PlaceOK(s, e) /\ s \in Segment BY DEF OthersOK, EntryOK, SegOK
  <2>2. e # Null /\ s.entry[e] \in EntryRec BY <2>1, NullFacts, SegFields
  <2>3. s.entry[e].asleep \subseteq Callers BY <2>2, RecFields
  <2>4. \A u \in Callers : (th[u].ent = e <=> z[u].ent = e) /\ (th[u].ent = e => z[u] = th[u])
    BY <1>1, <2>2
  <2>5. HeldOK(s.entry[e], z, e) BY <2>1, <2>3, <2>4, HeldSame
  <2> QED BY <2>1, <2>5 DEF EntryOK
<1> QED BY <1>2 DEF OthersOK, z

-----------------------------------------------------------------------------
(* Entries that leave, and values that come in.                            *)

\* An entry with a value has had it before, and is only in the list if it was.
Calm(s, z, f) ==
  /\ z.entry[f].alive /\ z.entry[f].value # Null =>
       /\ s.entry[f].alive /\ z.entry[f].value = s.entry[f].value /\ z.entry[f].key = s.entry[f].key
       /\ (z.entry[f].fetching <=> s.entry[f].fetching) /\ (z.entry[f].setting <=> s.entry[f].setting)
  /\ InLRU(z, f) => InLRU(s, f)

LEMMA CalmTrans ==
  ASSUME NEW s, NEW y, NEW z, NEW f, Calm(s, y, f), Calm(y, z, f)
  PROVE  Calm(s, z, f)
BY DEF Calm

\* Out of the map and of the list; only the calls that hold it are left.
Gone(s, th, e) ==
  /\ HeldOK(s.entry[e], th, e) /\ s.entry[e].alive /\ s.entry[e].evicted /\ s.entry[e].key \in Keys
  /\ s.map[s.entry[e].key] # e /\ ~InLRU(s, e)
  /\ ~s.entry[e].fetching /\ ~s.entry[e].setting /\ s.entry[e].asleep = {}

LEMMA HeldFreed ==
  ASSUME NEW th, NEW e, NEW r, HeldOK(r, th, e), r.waiters = 0
  PROVE  HeldOK(Freed, th, e)
<1>0. Cardinality(Holders(th, e)) = 0 BY DEF HeldOK
<1>1. \A t \in Callers : th[t].ent # e BY <1>0, HoldersFinite
<1> QED BY <1>1, FreedFacts DEF HeldOK

LEMMA ReleaseGone ==
  ASSUME NEW s, NEW th, NEW X, NEW e \in Entries, OthersOK(s, th, X \cup {e}), Gone(s, th, e)
  PROVE  /\ OthersOK(Release(s, e), th, X) /\ \A f \in Entries : Calm(s, Release(s, e), f)
         /\ Release(s, e).map = s.map /\ Release(s, e).lru = s.lru
         /\ \A f \in Entries \ {e} : Release(s, e).entry[f] = s.entry[f]
<1>1. s \in Segment BY DEF OthersOK, SegOK
<1>2. CASE s.entry[e].waiters = 0
  <2> DEFINE z == Put(s, e, Freed)
  <2>1. Release(s, e) = z BY <1>2 DEF Release, Gone, Put
  <2>2. Freed \in EntryRec BY FreedFacts
  <2>3. /\ z.map = s.map /\ z.lru = s.lru /\ z.entry[e] = Freed
        /\ \A f \in Entries \ {e} : z.entry[f] = s.entry[f]
        /\ \A f : InLRU(z, f) <=> InLRU(s, f)
    BY <1>1, <2>2, PutFields
  <2>4. OthersOK(z, th, X \cup {e})
    <3>1. \A k \in Keys : s.map[k] # e
      <4>1. e # Null BY NullFacts
      <4> QED BY <4>1 DEF OthersOK, SegOK, Gone
    <3> QED BY <2>2, <3>1, PutOthers
  <2> HIDE DEF z
  <2>5. HeldOK(Freed, th, e) BY <1>2, HeldFreed DEF Gone
  <2>6. PlaceOK(z, e) BY <2>3, FreedFacts DEF PlaceOK, Gone
  <2>7. EntryOK(z, th, e) BY <2>3, <2>5, <2>6 DEF EntryOK
  <2>8. OthersOK(z, th, X) BY <2>4, <2>7 DEF OthersOK
  <2>9. \A f \in Entries : Calm(s, z, f) BY <2>3, FreedFacts DEF Calm
  <2> QED BY <2>1, <2>3, <2>8, <2>9
<1>3. CASE s.entry[e].waiters # 0
  <2>1. Release(s, e) = s BY <1>3 DEF Release
  <2>2. PlaceOK(s, e) BY <1>3 DEF PlaceOK, Gone
  <2>3. EntryOK(s, th, e) BY <2>2 DEF EntryOK, Gone
  <2>4. OthersOK(s, th, X) BY <2>3 DEF OthersOK
  <2>5. \A f \in Entries : Calm(s, s, f) BY DEF Calm
  <2> QED BY <2>1, <2>4, <2>5
<1> QED BY <1>2, <1>3

\* What is not out of the map is not freed.
LEMMA ReleaseNot ==
  ASSUME NEW s, NEW e, ~s.entry[e].evicted
  PROVE  Release(s, e) = s
BY DEF Release

\* A mapped entry that nobody works on any more leaves the map.
Unmaps(s, th, e, q, z) ==
  /\ s.entry[e].alive /\ s.entry[e].key \in Keys /\ ~s.entry[e].evicted
  /\ s.map[s.entry[e].key] = e /\ ~InLRU(s, e)
  /\ q \in EntryRec /\ HeldOK(q, th, e) /\ q.alive /\ q.evicted /\ q.key = s.entry[e].key
  /\ ~q.fetching /\ ~q.setting /\ q.asleep = {}
  /\ z \in Segment /\ z.map = [s.map EXCEPT ![s.entry[e].key] = Null] /\ z.entry = [s.entry EXCEPT ![e] = q]
  /\ z.lru = s.lru /\ z.size = s.size

LEMMA UnmapGone ==
  ASSUME NEW s, NEW th, NEW X, NEW e \in Entries, OthersOK(s, th, X \cup {e}), NEW q, NEW z, Unmaps(s, th, e, q, z)
  PROVE  OthersOK(z, th, X \cup {e}) /\ Gone(z, th, e)
<1> USE DEF Unmaps
<1>1. s \in Segment BY DEF OthersOK, SegOK
<1>2. s.map \in [Keys -> Entries \cup {Null}] /\ s.entry \in [Entries -> EntryRec] BY <1>1, SegFields
<1> DEFINE k == s.entry[e].key
<1>3. /\ z.map[k] = Null /\ \A j \in Keys \ {k} : z.map[j] = s.map[j]
      /\ z.entry[e] = q /\ \A f \in Entries \ {e} : z.entry[f] = s.entry[f]
  BY <1>2
<1>4. \A f : InLRU(z, f) <=> InLRU(s, f) BY DEF InLRU
<1>5. e # Null BY NullFacts
<1>6. Gone(z, th, e) BY <1>3, <1>4, <1>5 DEF Gone
<1>7. \A j \in Keys : s.map[j] # Null =>
        s.entry[s.map[j]].alive /\ s.entry[s.map[j]].key = j /\ ~s.entry[s.map[j]].evicted
  BY DEF OthersOK, SegOK
<1>8. SegOK(z)
  <2>1. ASSUME NEW j \in Keys, z.map[j] # Null
        PROVE  z.entry[z.map[j]].alive /\ z.entry[z.map[j]].key = j /\ ~z.entry[z.map[j]].evicted
    <3>1. j # k /\ z.map[j] = s.map[j] BY <1>3, <2>1
    <3>2. s.map[j] \in Entries \ {e} BY <1>2, <1>7, <2>1, <3>1
    <3> QED BY <1>3, <1>7, <2>1, <3>1, <3>2
  <2> QED BY <2>1 DEF OthersOK, SegOK
<1>9. ASSUME NEW f \in Entries \ (X \cup {e}) PROVE EntryOK(z, th, f)
  <2>1. PlaceOK(s, f) /\ HeldOK(s.entry[f], th, f) BY DEF OthersOK, EntryOK
  <2>2. z.entry[f] = s.entry[f] BY <1>3
  <2>3. s.entry[f].alive => (z.map[s.entry[f].key] = f <=> s.map[s.entry[f].key] = f)
    <3>1. f # Null BY NullFacts
    <3>2. s.entry[f].alive => s.entry[f].key \in Keys BY <2>1 DEF PlaceOK
    <3> QED BY <1>3, <3>1, <3>2
  <2>4. PlaceOK(z, f) BY <1>4, <2>1, <2>2, <2>3, PlaceSame
  <2> QED BY <2>1, <2>2, <2>4 DEF EntryOK
<1> QED BY <1>6, <1>8, <1>9 DEF OthersOK

LEMMA SegIs ==
  ASSUME NEW s, NEW m \in [Keys -> Entries \cup {Null}], NEW en \in [Entries -> EntryRec],
         NEW l \in Seq(Entries), NEW n \in Int, s = [map |-> m, entry |-> en, lru |-> l, size |-> n]
  PROVE  s \in Segment /\ s.map = m /\ s.entry = en /\ s.lru = l /\ s.size = n
BY DEF Segment

\* The list changes, its other members do not.
LEMMA Relist ==
  ASSUME NEW s, NEW th, NEW X, NEW e \in Entries, OthersOK(s, th, X), NEW z \in Segment,
         z.map = s.map, z.entry = s.entry, Distinct(z.lru), z.size = Len(z.lru), z.size <= Capacity,
         Elems(z.lru) \ {e} = Elems(s.lru) \ {e}
  PROVE  /\ OthersOK(z, th, X \cup {e})
         /\ \A f \in Entries \ {e} : InLRU(z, f) <=> InLRU(s, f)
<1>1. s.lru \in Seq(Entries) /\ z.lru \in Seq(Entries) BY SegFields DEF OthersOK, SegOK
<1>2. \A f \in Entries \ {e} : InLRU(z, f) <=> InLRU(s, f)
  <2>1. \A f : InLRU(z, f) <=> f \in Elems(z.lru) BY <1>1, ListedIs
  <2>2. \A f : InLRU(s, f) <=> f \in Elems(s.lru) BY <1>1, ListedIs
  <2> QED BY <2>1, <2>2
<1>3. SegOK(z) BY DEF OthersOK, SegOK
<1>4. ASSUME NEW f \in Entries \ (X \cup {e}) PROVE EntryOK(z, th, f)
  <2>1. PlaceOK(s, f) /\ HeldOK(s.entry[f], th, f) BY DEF OthersOK, EntryOK
  <2>2. PlaceOK(z, f) BY <1>2, <2>1, PlaceSame
  <2> QED BY <2>1, <2>2 DEF EntryOK
<1> QED BY <1>2, <1>3, <1>4 DEF OthersOK

\* evict_lru, in the middle of a step that is changing the entries of X.
LEMMA EvictOthers ==
  ASSUME NEW s, NEW th, NEW X, OthersOK(s, th, X), s.lru # <<>>, Last(s.lru) \notin X
  PROVE  /\ Last(s.lru) \in Entries /\ OthersOK(EvictLRU(s), th, X)
         /\ Elems(EvictLRU(s).lru) = Elems(s.lru) \ {Last(s.lru)}
         /\ EvictLRU(s).size = s.size - 1
         /\ \A f \in Entries : Calm(s, EvictLRU(s), f)
         /\ \A f \in Entries \ {Last(s.lru)} : EvictLRU(s).entry[f] = s.entry[f]
         /\ \A k \in Keys : s.map[k] \in X => EvictLRU(s).map[k] = s.map[k]
<1> DEFINE v == Last(s.lru)
           y == [s EXCEPT !.lru = Front(s.lru), !.size = s.size - 1]
<1>1. s \in Segment /\ Distinct(s.lru) /\ s.size = Len(s.lru) /\ s.size <= Capacity BY DEF OthersOK, SegOK
<1>2. /\ s.map \in [Keys -> Entries \cup {Null}] /\ s.entry \in [Entries -> EntryRec]
      /\ s.lru \in Seq(Entries) /\ s.size \in Int
  BY <1>1, SegFields
<1>3. /\ v \in Entries /\ v \in Elems(s.lru) /\ Front(s.lru) \in Seq(Entries) /\ Len(Front(s.lru)) = Len(s.lru) - 1
      /\ Distinct(Front(s.lru)) /\ Elems(Front(s.lru)) = Elems(s.lru) \ {v}
  BY <1>1, <1>2, FrontElems
<1>4. EvictLRU(s) = IF s.entry[v].setting THEN [y EXCEPT !.entry[v].value = Null] ELSE Release(Unmap(y, v), v)
  BY DEF EvictLRU
<1>5. y = [map |-> s.map, entry |-> s.entry, lru |-> Front(s.lru), size |-> s.size - 1]
  <2> DEFINE m == s.map
             en == s.entry
             l == s.lru
             n == s.size
             a == Front(s.lru)
             b == s.size - 1
  <2>1. s = [map |-> m, entry |-> en, lru |-> l, size |-> n] BY <1>1, SegFields
  <2>2. y = [s EXCEPT !.lru = a, !.size = b] OBVIOUS
  <2> HIDE DEF m, en, l, n, a, b, y
  <2>3. y = [map |-> m, entry |-> en, lru |-> a, size |-> b] BY <2>1, <2>2
  <2> QED BY <2>3 DEF m, en, a, b
<1>6. s.size - 1 \in Int /\ s.size - 1 = Len(Front(s.lru)) /\ s.size - 1 <= Capacity BY <1>1, <1>2, <1>3, NullFacts
<1> HIDE DEF v, y
<1>7. Elems(Front(s.lru)) \ {v} = Elems(s.lru) \ {v} BY <1>3
<1>9. y \in Segment /\ y.map = s.map /\ y.entry = s.entry /\ y.lru = Front(s.lru) /\ y.size = s.size - 1
  BY <1>2, <1>3, <1>5, <1>6, SegIs
<1>8. /\ OthersOK(y, th, X \cup {v}) /\ y.map = s.map /\ y.entry = s.entry /\ y.lru = Front(s.lru) /\ y.size = s.size - 1
      /\ \A f \in Entries \ {v} : InLRU(y, f) <=> InLRU(s, f)
  BY <1>3, <1>6, <1>7, <1>9, Relist
<1>10. InLRU(s, v) /\ ~InLRU(y, v) BY <1>2, <1>3, <1>8, ListedIs
<1>11. /\ s.entry[v].alive /\ ~s.entry[v].evicted /\ s.entry[v].key \in Keys /\ s.map[s.entry[v].key] = v
       /\ ~s.entry[v].fetching
       /\ s.entry[v].asleep # {} => s.entry[v].setting
       /\ HeldOK(s.entry[v], th, v)
  <2>1. v \in Entries \ X BY <1>3 DEF v
  <2>2. PlaceOK(s, v) /\ HeldOK(s.entry[v], th, v) BY <2>1 DEF OthersOK, EntryOK
  <2> QED BY <1>10, <2>2 DEF PlaceOK, Busy
<1>12. \A f \in Entries : Calm(s, y, f) BY <1>8, <1>10 DEF Calm
<1>13. s.entry[v] \in EntryRec /\ s.entry[v].asleep \subseteq Callers BY <1>2, <1>3, RecFields
<1>14. CASE s.entry[v].setting
  <2> DEFINE q == [s.entry[v] EXCEPT !.value = Null]
             z == Put(y, v, q)
  <2>1. /\ q \in EntryRec /\ q.alive = s.entry[v].alive /\ q.key = s.entry[v].key /\ q.value = Null
        /\ q.fetching = s.entry[v].fetching /\ q.setting = s.entry[v].setting /\ q.evicted = s.entry[v].evicted
        /\ q.waiters = s.entry[v].waiters /\ q.asleep = s.entry[v].asleep
    BY <1>13 DEF EntryRec
  <2>2. EvictLRU(s) = z BY <1>4, <1>8, <1>14 DEF Put
  <2> HIDE DEF q
  <2>3. /\ z.map = s.map /\ z.lru = Front(s.lru) /\ z.size = s.size - 1 /\ z.entry[v] = q
        /\ \A f \in Entries \ {v} : z.entry[f] = s.entry[f]
        /\ \A f : InLRU(z, f) <=> InLRU(y, f)
    BY <1>3, <1>8, <1>9, <2>1, PutFields
  <2>4. OthersOK(z, th, X \cup {v})
    <3>1. \A k \in Keys : y.map[k] = v => q.alive /\ q.key = k /\ ~q.evicted
      <4>1. v # Null BY <1>3, NullFacts
      <4> QED BY <1>8, <1>11, <2>1, <4>1 DEF OthersOK, SegOK
    <3> QED BY <1>3, <1>8, <2>1, <3>1, PutOthers
  <2> HIDE DEF z
  <2>5. PlaceOK(z, v) BY <1>10, <1>11, <1>14, <2>1, <2>3 DEF PlaceOK, Busy
  <2>6. HeldOK(q, th, v) BY <1>11, <1>13, <2>1, HeldSame
  <2>7. OthersOK(z, th, X) BY <2>3, <2>4, <2>5, <2>6 DEF OthersOK, EntryOK
  <2>8. \A f \in Entries : Calm(y, z, f) BY <1>8, <2>1, <2>3 DEF Calm
  <2>9. \A f \in Entries : Calm(s, z, f) BY <1>12, <2>8, CalmTrans
  <2> QED BY <1>3, <2>2, <2>3, <2>7, <2>9 DEF v
<1>15. CASE ~s.entry[v].setting
  <2> DEFINE q == [s.entry[v] EXCEPT !.evicted = TRUE, !.asleep = {}]
             x == Unmap(y, v)
             z == Release(x, v)
  <2>1. /\ q \in EntryRec /\ q.alive = s.entry[v].alive /\ q.key = s.entry[v].key /\ q.value = s.entry[v].value
        /\ q.fetching = s.entry[v].fetching /\ q.setting = s.entry[v].setting /\ q.evicted
        /\ q.waiters = s.entry[v].waiters /\ q.asleep = {}
    BY <1>13 DEF EntryRec
  <2>2. EvictLRU(s) = z BY <1>4, <1>15
  <2>3. x = [map |-> [s.map EXCEPT ![s.entry[v].key] = Null], entry |-> [s.entry EXCEPT ![v] = q],
             lru |-> Front(s.lru), size |-> s.size - 1]
    BY <1>3, <1>8, <1>9, <1>11, UnmapFields
  <2> HIDE DEF q, x
  <2>4. /\ x \in Segment /\ x.map = [s.map EXCEPT ![s.entry[v].key] = Null] /\ x.entry = [s.entry EXCEPT ![v] = q]
        /\ x.lru = Front(s.lru) /\ x.size = s.size - 1
    <3>1. [s.map EXCEPT ![s.entry[v].key] = Null] \in [Keys -> Entries \cup {Null}] BY <1>2
    <3>2. [s.entry EXCEPT ![v] = q] \in [Entries -> EntryRec] BY <1>2, <2>1
    <3> QED BY <1>3, <1>6, <2>3, <3>1, <3>2, SegIs
  <2>5. HeldOK(q, th, v) BY <1>11, <1>13, <2>1, HeldSame
  <2>6. OthersOK(x, th, X \cup {v}) /\ Gone(x, th, v)
    <3>1. Unmaps(y, th, v, q, x) BY <1>8, <1>10, <1>11, <1>15, <2>1, <2>4, <2>5 DEF Unmaps
    <3> QED BY <1>3, <1>8, <3>1, UnmapGone
  <2>7. /\ OthersOK(z, th, X) /\ \A f \in Entries : Calm(x, z, f)
        /\ z.map = x.map /\ z.lru = x.lru /\ \A f \in Entries \ {v} : z.entry[f] = x.entry[f]
    BY <1>3, <2>6, ReleaseGone
  <2>8. x.entry[v] = q /\ \A f \in Entries \ {v} : x.entry[f] = s.entry[f] BY <1>2, <1>3, <2>4
  <2>9. \A f : InLRU(x, f) <=> InLRU(y, f) BY <1>8, <2>4 DEF InLRU
  <2>10. \A f \in Entries : Calm(y, x, f) BY <1>8, <2>1, <2>8, <2>9 DEF Calm
  <2>11. \A f \in Entries : Calm(s, z, f) BY <1>12, <2>7, <2>10, CalmTrans
  <2>12. z.size = s.size - 1 BY <1>6, <2>4, <2>7 DEF OthersOK, SegOK
  <2>13. \A k \in Keys : s.map[k] \in X => z.map[k] = s.map[k]
    <3>1. v \notin X BY DEF v
    <3> QED BY <1>2, <1>11, <2>4, <2>7, <3>1
  <2> HIDE DEF z
  <2>14. \A f \in Entries \ {v} : z.entry[f] = s.entry[f] BY <2>7, <2>8
  <2>15. Elems(z.lru) = Elems(s.lru) \ {v} BY <1>3, <2>4, <2>7
  <2> QED BY <1>3, <2>2, <2>7, <2>11, <2>12, <2>13, <2>14, <2>15 DEF v
<1> QED BY <1>14, <1>15

LEMMA EntriesFinite == IsFiniteSet(Entries) /\ Cardinality(Entries) \in Nat
<1>1. Cardinality(Keys) + Cardinality(Callers) \in Nat
  <2>1. IsFiniteSet(Keys) /\ IsFiniteSet(Callers) BY LRUAssumption
  <2> QED BY <2>1, FS_CardinalityType
<1>2. IsFiniteSet(Entries) BY <1>1, FS_Interval DEF Entries
<1> QED BY <1>2, FS_CardinalityType

\* make_room evicts at most one entry: the list never passes the capacity.
Roomier(s) == IF s.size >= Capacity /\ s.lru # <<>> THEN EvictLRU(s) ELSE s
Rooms(s, f) ==
  f = [n \in 0 .. Cardinality(Entries) |->
         IF n = 0 THEN s
         ELSE LET p == f[n - 1] IN IF p.size >= Capacity /\ p.lru # <<>> THEN EvictLRU(p) ELSE p]

LEMMA MakeRoomIs ==
  ASSUME NEW s, NEW e \in Entries, Roomier(Roomier(s)) = Roomier(s)
  PROVE  MakeRoom(s) = Roomier(s)
<1> DEFINE N == Cardinality(Entries)
           r == Roomier(s)
           g == [n \in 0 .. N |-> IF n = 0 THEN s ELSE r]
           after == CHOOSE f : Rooms(s, f)
<1>1. N \in Nat BY EntriesFinite
<1>2. N # 0 BY EntriesFinite, FS_EmptySet
<1> HIDE DEF N, r
<1>3. Roomier(r) = r /\ Roomier(s) = r BY DEF r
<1>4. Rooms(s, g)
  <2> DEFINE Rhs(n) == IF n = 0 THEN s ELSE Roomier(g[n - 1])
  <2>1. ASSUME NEW n \in 0 .. N PROVE g[n] = Rhs(n)
    <3>1. CASE n = 0 BY <3>1, <1>1
    <3>2. CASE n = 1
      <4>1. n - 1 = 0 /\ n - 1 \in 0 .. N /\ n # 0 BY <1>1, <3>2
      <4>2. g[n - 1] = s /\ g[n] = r BY <4>1
      <4> QED BY <1>3, <4>1, <4>2
    <3>3. CASE n # 0 /\ n # 1
      <4>1. n - 1 # 0 /\ n - 1 \in 0 .. N BY <1>1, <3>3
      <4>2. g[n - 1] = r /\ g[n] = r BY <3>3, <4>1
      <4> QED BY <1>3, <3>3, <4>2
    <3> QED BY <3>1, <3>2, <3>3
  <2>2. g = [n \in 0 .. N |-> Rhs(n)] BY <2>1
  <2> HIDE DEF g
  <2> QED BY <2>2 DEF Rooms, Roomier, N
<1> HIDE DEF g
<1>5. Rooms(s, after) BY <1>4
<1>6. MakeRoom(s) = after[N] BY DEF MakeRoom, Rooms, N
<1> HIDE DEF after
<1>7. after[0] = s /\ \A n \in 1 .. N : after[n] = Roomier(after[n - 1])
  <2>1. after[0] = s BY <1>1, <1>5 DEF Rooms, N
  <2>2. ASSUME NEW n \in 1 .. N PROVE after[n] = Roomier(after[n - 1])
    <3>1. n \in 0 .. N /\ n # 0 BY <1>1
    <3> QED BY <1>5, <3>1 DEF Rooms, Roomier, N
  <2> QED BY <2>1, <2>2
<1>8. \A n \in Nat : n + 1 \in 1 .. N => after[n + 1] = r
  <2> DEFINE T == {n \in Nat : n + 1 \in 1 .. N => after[n + 1] = r}
  <2>1. 0 \in T
    <3>1. 1 \in 1 .. N /\ 1 - 1 = 0 BY <1>1, <1>2
    <3>2. after[1] = Roomier(after[0]) BY <1>7, <3>1
    <3> QED BY <1>3, <1>7, <3>2
  <2>2. ASSUME NEW n \in T PROVE n + 1 \in T
    <3>1. SUFFICES ASSUME (n + 1) + 1 \in 1 .. N PROVE after[(n + 1) + 1] = r OBVIOUS
    <3>2. n + 1 \in 1 .. N /\ ((n + 1) + 1) - 1 = n + 1 BY <1>1, <3>1
    <3>3. after[(n + 1) + 1] = Roomier(after[n + 1]) BY <1>7, <3>1, <3>2
    <3> QED BY <1>3, <3>2, <3>3
  <2>3. T = Nat BY <2>1, <2>2, NatSetInduction
  <2> QED BY <2>3
<1>9. N - 1 \in Nat /\ (N - 1) + 1 = N /\ N \in 1 .. N BY <1>1, <1>2
<1> QED BY <1>6, <1>8, <1>9 DEF r

\* make_room, while a step is changing the entries of X.
LEMMA RoomOthers ==
  ASSUME NEW s, NEW th, NEW X, OthersOK(s, th, X), \A f \in X : ~InLRU(s, f), NEW e \in Entries
  PROVE  /\ OthersOK(MakeRoom(s), th, X)
         /\ Elems(MakeRoom(s).lru) \subseteq Elems(s.lru) /\ MakeRoom(s).size < Capacity
         /\ \A f \in Entries : Calm(s, MakeRoom(s), f)
         /\ \A f \in X \cap Entries : MakeRoom(s).entry[f] = s.entry[f]
         /\ \A k \in Keys : s.map[k] \in X => MakeRoom(s).map[k] = s.map[k]
<1>1. s.lru \in Seq(Entries) /\ s.size = Len(s.lru) /\ s.size <= Capacity /\ s.size \in Nat /\ Distinct(s.lru)
  BY SegFields, LenProperties DEF OthersOK, SegOK
<1>2. CASE s.size >= Capacity
  <2>1. s.lru # <<>> BY <1>1, <1>2, NullFacts, EmptySeq
  <2>2. Last(s.lru) \notin X
    <3>1. Last(s.lru) \in Elems(s.lru) BY <1>1, <2>1, FrontElems
    <3> QED BY <1>1, <3>1, ListedIs
  <2> DEFINE v == Last(s.lru)
             z == EvictLRU(s)
  <2>3. /\ v \in Entries /\ OthersOK(z, th, X) /\ Elems(z.lru) = Elems(s.lru) \ {v} /\ z.size = s.size - 1
        /\ \A f \in Entries : Calm(s, z, f)
        /\ \A f \in Entries \ {v} : z.entry[f] = s.entry[f]
        /\ \A k \in Keys : s.map[k] \in X => z.map[k] = s.map[k]
    BY <2>1, <2>2, EvictOthers
  <2>4. Roomier(s) = z BY <1>2, <2>1 DEF Roomier
  <2>5. z.size < Capacity /\ z.size \in Int BY <1>1, <2>3, NullFacts
  <2> HIDE DEF z
  <2>6. Roomier(z) = z BY <2>5, NullFacts DEF Roomier
  <2>7. MakeRoom(s) = z BY <2>4, <2>6, MakeRoomIs
  <2>8. \A f \in X \cap Entries : z.entry[f] = s.entry[f] BY <2>2, <2>3
  <2> QED BY <2>2, <2>3, <2>5, <2>7, <2>8
<1>3. CASE ~(s.size >= Capacity)
  <2>1. Roomier(s) = s BY <1>3 DEF Roomier
  <2>2. MakeRoom(s) = s BY <2>1, MakeRoomIs
  <2>3. s.size < Capacity BY <1>1, <1>3, NullFacts
  <2> QED BY <2>2, <2>3 DEF Calm
<1> QED BY <1>2, <1>3

LEMMA MovedToFront ==
  ASSUME NEW s, NEW th, NEW X, NEW e \in Entries, OthersOK(s, th, X), InLRU(s, e)
  PROVE  /\ OthersOK(MoveToFront(s, e), th, X)
         /\ MoveToFront(s, e).map = s.map /\ MoveToFront(s, e).entry = s.entry
         /\ \A f \in Entries : InLRU(MoveToFront(s, e), f) <=> InLRU(s, f)
<1> DEFINE z == MoveToFront(s, e)
           r == RemoveFirst(s.lru, e)
           q == <<e>> \o r
<1>1. s \in Segment /\ Distinct(s.lru) /\ s.size = Len(s.lru) /\ s.size <= Capacity BY DEF OthersOK, SegOK
<1>2. /\ s.map \in [Keys -> Entries \cup {Null}] /\ s.entry \in [Entries -> EntryRec]
      /\ s.lru \in Seq(Entries) /\ s.size \in Int /\ Len(s.lru) \in Nat
  BY <1>1, SegFields, LenProperties
<1>3. e \in Elems(s.lru) BY <1>2, ListedIs
<1>4. r \in Seq(Entries) /\ Len(r) = Len(s.lru) - 1 /\ Distinct(r) /\ Elems(r) = Elems(s.lru) \ {e}
  BY <1>1, <1>2, <1>3, RemoveFirstElems
<1>5. z = [s EXCEPT !.lru = q] BY DEF MoveToFront
<1> HIDE DEF r, z
<1>6. q \in Seq(Entries) /\ Len(q) = Len(r) + 1 /\ Elems(q) = Elems(r) \cup {e} /\ Distinct(q)
  BY <1>4, PushElems
<1> HIDE DEF q
<1>7. z \in Segment /\ z.map = s.map /\ z.entry = s.entry /\ z.lru = q /\ z.size = s.size
  BY <1>1, <1>5, <1>6 DEF Segment
<1>8. Elems(q) = Elems(s.lru) BY <1>3, <1>4, <1>6
<1>9. \A f : InLRU(z, f) <=> InLRU(s, f)
  <2>1. \A f : InLRU(z, f) <=> f \in Elems(q) BY <1>6, <1>7, ListedIs
  <2>2. \A f : InLRU(s, f) <=> f \in Elems(s.lru) BY <1>2, ListedIs
  <2> QED BY <1>8, <2>1, <2>2
<1>10. z.size = Len(z.lru) BY <1>1, <1>2, <1>4, <1>6, <1>7
<1>11. SegOK(z) BY <1>1, <1>6, <1>7, <1>10 DEF OthersOK, SegOK
<1>12. ASSUME NEW f \in Entries \ X PROVE EntryOK(z, th, f)
  <2>1. PlaceOK(s, f) /\ HeldOK(s.entry[f], th, f) BY DEF OthersOK, EntryOK
  <2>2. PlaceOK(z, f) BY <1>7, <1>9, <2>1, PlaceSame
  <2> QED BY <1>7, <2>1, <2>2 DEF EntryOK
<1> QED BY <1>7, <1>9, <1>11, <1>12 DEF OthersOK, z

\* An entry in the map whose flags and waiters a step is changing.
Half(s, th, e) ==
  /\ OthersOK(s, th, {e}) /\ s.entry[e].alive /\ ~s.entry[e].evicted
  /\ s.entry[e].key \in Keys /\ s.map[s.entry[e].key] = e
  /\ InLRU(s, e) <=> s.entry[e].value # Null

SameCall(r, q) ==
  /\ q.alive = r.alive /\ q.key = r.key /\ q.fetching = r.fetching /\ q.setting = r.setting
  /\ q.evicted = r.evicted /\ q.waiters = r.waiters /\ q.asleep = r.asleep

\* Changing flags, waiters and value of such an entry leaves the others alone.
LEMMA PutHalf ==
  ASSUME NEW s, NEW th, NEW e \in Entries, OthersOK(s, th, {e}), NEW q \in EntryRec,
         q.alive, s.entry[e].alive, ~q.evicted, q.key = s.entry[e].key
  PROVE  OthersOK(Put(s, e, q), th, {e})
<1>1. ASSUME NEW k \in Keys, s.map[k] = e PROVE q.alive /\ q.key = k /\ ~q.evicted
  <2>1. s.entry[e].key = k BY <1>1, NullFacts DEF OthersOK, SegOK
  <2> QED BY <2>1
<1>2. e \in Entries \cap {e} OBVIOUS
<1> QED BY <1>1, <1>2, PutOthers

\* entry_store_value: the value is in, and the entry in the list.
LEMMA StoreHalf ==
  ASSUME NEW s, NEW th, NEW e \in Entries, Half(s, th, e), NEW v \in Values
  PROVE  /\ Half(StoreValue(s, e, v), th, e) /\ InLRU(StoreValue(s, e, v), e)
         /\ SameCall(s.entry[e], StoreValue(s, e, v).entry[e]) /\ StoreValue(s, e, v).entry[e].value = v
         /\ \A f \in Entries \ {e} : Calm(s, StoreValue(s, e, v), f)
<1> DEFINE q == [s.entry[e] EXCEPT !.value = v]
           y == Put(s, e, q)
           z == StoreValue(s, e, v)
<1>1. s \in Segment BY DEF OthersOK, SegOK, Half
<1>2. s.entry[e] \in EntryRec BY <1>1, SegFields
<1>3. q \in EntryRec /\ SameCall(s.entry[e], q) /\ q.value = v BY <1>2 DEF EntryRec, SameCall
<1>4. [s EXCEPT !.entry[e].value = v] = y BY DEF Put
<1>5. z = IF InLRU(s, e) THEN MoveToFront(y, e)
          ELSE [MakeRoom(y) EXCEPT !.lru = <<e>> \o MakeRoom(y).lru, !.size = MakeRoom(y).size + 1]
  BY <1>4 DEF StoreValue
<1> HIDE DEF q
<1>6. /\ y \in Segment /\ y.map = s.map /\ y.entry[e] = q
      /\ \A f \in Entries \ {e} : y.entry[f] = s.entry[f]
      /\ \A f : InLRU(y, f) <=> InLRU(s, f)
  BY <1>1, <1>3, PutFields
<1>7. OthersOK(y, th, {e}) BY <1>3, PutHalf DEF Half, SameCall
<1>8. v # Null BY NullFacts
<1>9. \A f \in Entries \ {e} : Calm(s, y, f) BY <1>6 DEF Calm
<1> HIDE DEF y, z
<1>10. CASE InLRU(s, e)
  <2>1. /\ OthersOK(z, th, {e}) /\ z.map = y.map /\ z.entry = y.entry
        /\ \A f \in Entries : InLRU(z, f) <=> InLRU(y, f)
    BY <1>5, <1>6, <1>7, <1>10, MovedToFront
  <2>2. Half(z, th, e) BY <1>3, <1>6, <1>8, <1>10, <2>1 DEF Half, SameCall
  <2>3. \A f \in Entries \ {e} : Calm(y, z, f) BY <2>1 DEF Calm
  <2>4. \A f \in Entries \ {e} : Calm(s, z, f) BY <1>9, <2>3, CalmTrans
  <2> QED BY <1>3, <1>6, <1>10, <2>1, <2>2, <2>4 DEF z
<1>11. CASE ~InLRU(s, e)
  <2> DEFINE x == MakeRoom(y)
             l == <<e>> \o x.lru
             n == x.size + 1
  <2>1. \A f \in {e} : ~InLRU(y, f) BY <1>6, <1>11
  <2>2. /\ OthersOK(x, th, {e}) /\ Elems(x.lru) \subseteq Elems(y.lru) /\ x.size < Capacity
        /\ \A f \in Entries : Calm(y, x, f)
        /\ x.entry[e] = y.entry[e]
        /\ \A k \in Keys : y.map[k] \in {e} => x.map[k] = y.map[k]
    BY <1>7, <2>1, RoomOthers
  <2>3. z = [x EXCEPT !.lru = l, !.size = n] BY <1>5, <1>11
  <2> HIDE DEF x
  <2>4. x \in Segment /\ Distinct(x.lru) /\ x.size = Len(x.lru) BY <2>2 DEF OthersOK, SegOK
  <2>5. x.lru \in Seq(Entries) /\ x.size \in Int /\ x.map \in [Keys -> Entries \cup {Null}] /\ x.entry \in [Entries -> EntryRec]
        /\ x = [map |-> x.map, entry |-> x.entry, lru |-> x.lru, size |-> x.size] BY <2>4, SegFields
  <2>6. e \notin Elems(x.lru)
    <3>1. y.lru \in Seq(Entries) BY <1>6, SegFields
    <3> QED BY <2>1, <2>2, <3>1, ListedIs
  <2>7. l \in Seq(Entries) /\ Len(l) = Len(x.lru) + 1 /\ Elems(l) = Elems(x.lru) \cup {e} /\ Distinct(l)
    BY <2>4, <2>5, <2>6, PushElems
  <2>8. n \in Int /\ n <= Capacity /\ n = Len(l) BY <2>2, <2>4, <2>5, <2>7, NullFacts
  <2>9. z = [map |-> x.map, entry |-> x.entry, lru |-> l, size |-> n]
    <3> DEFINE m == x.map
               en == x.entry
               a == x.lru
               b == x.size
    <3>1. x = [map |-> m, entry |-> en, lru |-> a, size |-> b] BY <2>5
    <3> HIDE DEF m, en, a, b, l, n
    <3>2. z = [map |-> m, entry |-> en, lru |-> l, size |-> n] BY <2>3, <3>1
    <3> QED BY <3>2 DEF m, en
  <2> HIDE DEF l, n
  <2>10. z \in Segment /\ z.map = x.map /\ z.entry = x.entry /\ z.lru = l /\ z.size = n
    BY <2>5, <2>7, <2>8, <2>9, SegIs
  <2>11. Elems(l) \ {e} = Elems(x.lru) \ {e} BY <2>7
  <2>12. OthersOK(z, th, {e}) /\ \A f \in Entries \ {e} : InLRU(z, f) <=> InLRU(x, f)
    <3>1. OthersOK(z, th, {e} \cup {e}) /\ \A f \in Entries \ {e} : InLRU(z, f) <=> InLRU(x, f)
      BY <2>2, <2>7, <2>8, <2>10, <2>11, Relist
    <3>2. {e} \cup {e} = {e} OBVIOUS
    <3> QED BY <3>1, <3>2
  <2>13. InLRU(z, e) BY <2>7, <2>10, ListedIs
  <2>14. z.entry[e] = q BY <1>6, <2>2, <2>10
  <2>15. z.map[q.key] = e /\ q.key \in Keys /\ q.alive /\ ~q.evicted
    <3>1. q.key \in Keys /\ s.map[q.key] = e /\ q.alive /\ ~q.evicted BY <1>3 DEF Half, SameCall
    <3> QED BY <1>6, <2>2, <2>10, <3>1
  <2>16. Half(z, th, e) BY <1>3, <1>8, <2>12, <2>13, <2>14, <2>15 DEF Half
  <2>17. \A f \in Entries \ {e} : Calm(x, z, f) BY <2>10, <2>12 DEF Calm
  <2>18. \A f \in Entries \ {e} : Calm(s, z, f) BY <1>9, <2>2, <2>17, CalmTrans
  <2> QED BY <1>3, <2>13, <2>14, <2>16, <2>18 DEF z
<1> QED BY <1>10, <1>11

LEMMA PutPut ==
  ASSUME NEW s \in Segment, NEW e \in Entries, NEW a \in EntryRec, NEW b \in EntryRec
  PROVE  Put(Put(s, e, a), e, b) = Put(s, e, b)
<1> DEFINE y == Put(s, e, a)
<1>1. y \in Segment /\ y.map = s.map /\ y.lru = s.lru /\ y.size = s.size /\ y.entry = [s.entry EXCEPT ![e] = a]
  <2>1. [s.entry EXCEPT ![e] = a] \in [Entries -> EntryRec] BY SegFields
  <2>2. y = [s EXCEPT !.entry = [s.entry EXCEPT ![e] = a]] BY DEF Put
  <2> HIDE DEF y
  <2>3. y \in Segment /\ y.map = s.map /\ y.lru = s.lru /\ y.size = s.size BY <2>1, <2>2 DEF Segment
  <2>4. y.entry = [s.entry EXCEPT ![e] = a] BY <2>1, <2>2 DEF Segment
  <2> QED BY <2>3, <2>4
<1> HIDE DEF y
<1>2. [y.entry EXCEPT ![e] = b] = [s.entry EXCEPT ![e] = b] BY <1>1, SegFields
<1> DEFINE z == [s.entry EXCEPT ![e] = b]
<1>3. Put(y, e, b) = [y EXCEPT !.entry = z] BY <1>2 DEF Put
<1>4. Put(s, e, b) = [s EXCEPT !.entry = z] BY DEF Put
<1>5. z \in [Entries -> EntryRec] BY SegFields
<1> HIDE DEF z
<1>6. Put(y, e, b) = [map |-> s.map, entry |-> z, lru |-> s.lru, size |-> s.size] BY <1>1, <1>3, <1>5 DEF Segment
<1>7. Put(s, e, b) = [map |-> s.map, entry |-> z, lru |-> s.lru, size |-> s.size] BY <1>4, <1>5 DEF Segment
<1> QED BY <1>6, <1>7 DEF y

\* Nobody works on the entry any more and it has a value: it is all right again.
LEMMA FinishIn ==
  ASSUME NEW s, NEW th, NEW e \in Entries, Half(s, th, e), InLRU(s, e),
         NEW q \in EntryRec, HeldOK(q, th, e), q.alive, ~q.evicted, q.key = s.entry[e].key,
         q.value = s.entry[e].value, ~q.fetching, ~q.setting, q.asleep = {}
  PROVE  /\ OthersOK(Put(s, e, q), th, {}) /\ Put(s, e, q).entry[e] = q
         /\ \A f \in Entries \ {e} : Calm(s, Put(s, e, q), f)
<1> DEFINE z == Put(s, e, q)
<1>1. s \in Segment BY DEF OthersOK, SegOK, Half
<1>2. /\ z.map = s.map /\ z.entry[e] = q /\ \A f \in Entries \ {e} : z.entry[f] = s.entry[f]
      /\ \A f : InLRU(z, f) <=> InLRU(s, f)
  BY <1>1, PutFields
<1>3. OthersOK(z, th, {e}) BY PutHalf DEF Half
<1> HIDE DEF z
<1>4. PlaceOK(z, e) BY <1>2 DEF PlaceOK, Half, Busy
<1>5. OthersOK(z, th, {}) BY <1>2, <1>3, <1>4 DEF OthersOK, EntryOK
<1> QED BY <1>2, <1>5 DEF z, Calm

\* It has none: it leaves the map, and goes with the last call that holds it.
LEMMA FinishOut ==
  ASSUME NEW s, NEW th, NEW e \in Entries, Half(s, th, e), NEW q, NEW z, Unmaps(s, th, e, q, z)
  PROVE  /\ OthersOK(Release(z, e), th, {}) /\ Release(z, e).entry[e] \in {q, Freed} /\ ~InLRU(Release(z, e), e)
         /\ \A f \in Entries \ {e} : Calm(s, Release(z, e), f)
<1> DEFINE X == {}
           y == Release(z, e)
<1>1. X \cup {e} = {e} OBVIOUS
<1> HIDE DEF X
<1>2. OthersOK(z, th, X \cup {e}) /\ Gone(z, th, e) BY <1>1, UnmapGone DEF Half
<1>3. /\ OthersOK(y, th, X) /\ y.lru = z.lru /\ \A f \in Entries \ {e} : y.entry[f] = z.entry[f]
  BY <1>2, ReleaseGone
<1>4. \A f \in Entries \ {e} : z.entry[f] = s.entry[f] /\ z.entry[e] = q
  BY SegFields DEF Unmaps, Half, OthersOK, SegOK
<1>5. z.entry[e] = q BY SegFields DEF Unmaps, Half, OthersOK, SegOK
<1>6. y.entry[e] \in {q, Freed}
  <2>1. z \in Segment BY DEF Unmaps
  <2>2. [z EXCEPT !.entry[e] = Freed] = Put(z, e, Freed) BY DEF Put
  <2>3. Put(z, e, Freed).entry[e] = Freed BY <2>1, FreedFacts, PutFields
  <2> QED BY <1>5, <2>2, <2>3 DEF Release
<1> HIDE DEF y
<1>7. \A f : InLRU(y, f) <=> InLRU(s, f) BY <1>3 DEF InLRU, Unmaps
<1>8. ~InLRU(s, e) BY DEF Unmaps
<1> QED BY <1>3, <1>4, <1>6, <1>7, <1>8 DEF X, y, Calm

\* The set is over: its flag is down, its waiters are awake.
LEMMA EndPut ==
  ASSUME NEW y \in Segment, NEW e \in Entries
  PROVE  \E b \in EntryRec :
           /\ Broadcast([y EXCEPT !.entry[e].setting = FALSE], e) = Put(y, e, b)
           /\ b.alive = y.entry[e].alive /\ b.key = y.entry[e].key /\ b.value = y.entry[e].value
           /\ b.fetching = y.entry[e].fetching /\ b.evicted = y.entry[e].evicted /\ b.waiters = y.entry[e].waiters
           /\ ~b.setting /\ b.asleep = {}
<1> DEFINE a == [y.entry[e] EXCEPT !.setting = FALSE]
           b == [a EXCEPT !.asleep = {}]
           x == Put(y, e, a)
<1>1. y.entry[e] \in EntryRec BY SegFields
<1>2. /\ a \in EntryRec /\ a.alive = y.entry[e].alive /\ a.key = y.entry[e].key /\ a.value = y.entry[e].value
      /\ a.fetching = y.entry[e].fetching /\ a.evicted = y.entry[e].evicted /\ a.waiters = y.entry[e].waiters
      /\ ~a.setting
  BY <1>1 DEF EntryRec
<1>3. [y EXCEPT !.entry[e].setting = FALSE] = x BY DEF Put
<1> HIDE DEF a
<1>4. /\ b \in EntryRec /\ b.alive = a.alive /\ b.key = a.key /\ b.value = a.value
      /\ b.fetching = a.fetching /\ b.evicted = a.evicted /\ b.waiters = a.waiters
      /\ b.setting = a.setting /\ b.asleep = {}
  BY <1>2 DEF EntryRec
<1>5. x.entry[e] = a BY <1>2, PutFields
<1> HIDE DEF x
<1>6. Broadcast(x, e) = Put(x, e, b) BY <1>5 DEF Broadcast, Put
<1> HIDE DEF b
<1>7. Put(x, e, b) = Put(y, e, b) BY <1>2, <1>4, PutPut DEF x
<1>8. Broadcast([y EXCEPT !.entry[e].setting = FALSE], e) = Put(y, e, b) BY <1>3, <1>6, <1>7
<1> QED BY <1>2, <1>4, <1>8

\* What e's record r becomes once nobody works on it suits the calls in th.
LetGo(r, th, e) ==
  \A d \in EntryRec :
    (/\ d.alive /\ d.key = r.key /\ d.waiters = r.waiters
     /\ ~d.fetching /\ ~d.setting /\ d.asleep = {})
    => HeldOK(d, th, e)

\* set_full's last part: e is set by a call that has let go of it in th.
LEMMA EndSetOK ==
  ASSUME NEW s, NEW th, NEW e \in Entries, Half(s, th, e), NEW v \in Values, NEW ok \in BOOLEAN,
         s.entry[e].setting, ~s.entry[e].fetching,
         LetGo(s.entry[e], th, e)
  PROVE  /\ OthersOK(EndSet(s, e, v, ok), th, {})
         /\ ok => EndSet(s, e, v, ok).entry[e].value = v
         /\ ~ok => (EndSet(s, e, v, ok).entry[e].value \in {s.entry[e].value, Null})
         /\ ~ok => (InLRU(EndSet(s, e, v, ok), e) => InLRU(s, e))
         /\ EndSet(s, e, v, ok).entry[e].alive => EndSet(s, e, v, ok).entry[e].key = s.entry[e].key
         /\ \A f \in Entries \ {e} : Calm(s, EndSet(s, e, v, ok), f)
<1> DEFINE y == IF ok THEN StoreValue(s, e, v) ELSE IF InLRU(s, e) THEN s ELSE Unmap(s, e)
           z == EndSet(s, e, v, ok)
<1>1. s \in Segment /\ s.entry[e] \in EntryRec BY SegFields DEF Half, OthersOK, SegOK
<1>2. z = Release(Broadcast([y EXCEPT !.entry[e].setting = FALSE], e), e) BY DEF EndSet
<1>3. CASE ok \/ InLRU(s, e)
  <2>1. /\ Half(y, th, e) /\ InLRU(y, e) /\ SameCall(s.entry[e], y.entry[e])
        /\ (ok => y.entry[e].value = v) /\ (~ok => y.entry[e].value = s.entry[e].value)
        /\ (~ok => InLRU(s, e)) /\ \A f \in Entries \ {e} : Calm(s, y, f)
    <3>1. CASE ok
      <4>1. y = StoreValue(s, e, v) BY <3>1
      <4> QED BY <3>1, <4>1, StoreHalf
    <3>2. CASE ~ok BY <1>3, <3>2 DEF SameCall, Calm
    <3> QED BY <3>1, <3>2
  <2> HIDE DEF y, z
  <2>2. y \in Segment BY <2>1 DEF Half, OthersOK, SegOK
  <2>3. PICK b \in EntryRec :
           /\ Broadcast([y EXCEPT !.entry[e].setting = FALSE], e) = Put(y, e, b)
           /\ b.alive = y.entry[e].alive /\ b.key = y.entry[e].key /\ b.value = y.entry[e].value
           /\ b.fetching = y.entry[e].fetching /\ b.evicted = y.entry[e].evicted /\ b.waiters = y.entry[e].waiters
           /\ ~b.setting /\ b.asleep = {}
    BY <2>2, EndPut
  <2>4. b.alive /\ ~b.evicted /\ b.key = s.entry[e].key /\ ~b.fetching /\ HeldOK(b, th, e)
    BY <2>1, <2>3 DEF Half, SameCall, LetGo
  <2>5. OthersOK(Put(y, e, b), th, {}) /\ Put(y, e, b).entry[e] = b
        /\ \A f \in Entries \ {e} : Calm(y, Put(y, e, b), f)
    BY <2>1, <2>3, <2>4, FinishIn
  <2>6. z = Put(y, e, b) BY <1>2, <2>3, <2>4, <2>5 DEF Release
  <2>7. \A f \in Entries \ {e} : Calm(s, z, f) BY <2>1, <2>5, <2>6, CalmTrans
  <2> QED BY <2>1, <2>3, <2>4, <2>5, <2>6, <2>7 DEF z
<1>4. CASE ~ok /\ ~InLRU(s, e)
  <2> DEFINE d == [s.entry[e] EXCEPT !.evicted = TRUE, !.asleep = {}]
             m == [s.map EXCEPT ![s.entry[e].key] = Null]
  <2>1. y = [map |-> m, entry |-> [s.entry EXCEPT ![e] = d], lru |-> s.lru, size |-> s.size]
    BY <1>1, <1>4, UnmapFields DEF Half
  <2>2. d \in EntryRec /\ d.evicted /\ d.value = s.entry[e].value /\ d.fetching = s.entry[e].fetching
        /\ d.alive = s.entry[e].alive /\ d.key = s.entry[e].key /\ d.waiters = s.entry[e].waiters
    BY <1>1 DEF EntryRec
  <2> HIDE DEF d, y, z
  <2>3. /\ m \in [Keys -> Entries \cup {Null}] /\ [s.entry EXCEPT ![e] = d] \in [Entries -> EntryRec]
        /\ s.lru \in Seq(Entries) /\ s.size \in Int
    BY <1>1, <2>2, SegFields
  <2>4. /\ y \in Segment /\ y.map = m /\ y.entry = [s.entry EXCEPT ![e] = d] /\ y.lru = s.lru /\ y.size = s.size
    <3> HIDE DEF m
    <3> QED BY <2>1, <2>3, SegIs
  <2> HIDE DEF m
  <2>5. y.entry[e] = d BY <1>1, <2>4, SegFields
  <2>6. PICK b \in EntryRec :
           /\ Broadcast([y EXCEPT !.entry[e].setting = FALSE], e) = Put(y, e, b)
           /\ b.alive = y.entry[e].alive /\ b.key = y.entry[e].key /\ b.value = y.entry[e].value
           /\ b.fetching = y.entry[e].fetching /\ b.evicted = y.entry[e].evicted /\ b.waiters = y.entry[e].waiters
           /\ ~b.setting /\ b.asleep = {}
    BY <2>4, EndPut
  <2> DEFINE x == Put(y, e, b)
  <2>7. x \in Segment /\ x.map = y.map /\ x.lru = y.lru /\ x.size = y.size BY <2>4, <2>6, PutFields
  <2>8. x.entry = [s.entry EXCEPT ![e] = b]
    <3>1. x = [y EXCEPT !.entry = [y.entry EXCEPT ![e] = b]] BY DEF Put
    <3>2. [y.entry EXCEPT ![e] = b] = [s.entry EXCEPT ![e] = b] BY <1>1, <2>4, SegFields
    <3> HIDE DEF x
    <3> QED BY <2>4, <3>1, <3>2 DEF Segment
  <2> HIDE DEF x
  <2>9. HeldOK(b, th, e) BY <2>2, <2>5, <2>6 DEF Half, LetGo
  <2>10. Unmaps(s, th, e, b, x) BY <1>4, <2>2, <2>4, <2>5, <2>6, <2>7, <2>8, <2>9 DEF Unmaps, Half, m
  <2>11. z = Release(x, e) BY <1>2, <2>6 DEF x
  <2>12. /\ OthersOK(z, th, {}) /\ z.entry[e] \in {b, Freed} /\ ~InLRU(z, e)
         /\ \A f \in Entries \ {e} : Calm(s, z, f)
    BY <2>10, <2>11, FinishOut
  <2> QED BY <1>4, <2>2, <2>5, <2>6, <2>12, FreedFacts DEF z
<1> QED BY <1>3, <1>4

-----------------------------------------------------------------------------
(* Steps of one call.                                                      *)

Rets == {"ok", "nomem", "notfound", "mismatch", "failed", Null}

LEMMA MoveIs ==
  ASSUME thread \in Calls, NEW t \in Callers, NEW to \in Pcs, NEW e \in Entries \cup {Null}, Move(t, to, e)
  PROVE  \E c \in ThreadRec :
           /\ thread' = [thread EXCEPT ![t] = c] /\ c.pc = to /\ c.ent = e
           /\ c.op = thread[t].op /\ c.key = thread[t].key /\ c.val = thread[t].val
           /\ c.ok = thread[t].ok /\ c.seen = thread[t].seen
<1> DEFINE c == [thread[t] EXCEPT !.pc = to, !.ent = e]
<1>1. thread[t] \in ThreadRec BY DEF Calls
<1>2. /\ c \in ThreadRec /\ c.pc = to /\ c.ent = e
      /\ c.op = thread[t].op /\ c.key = thread[t].key /\ c.val = thread[t].val
      /\ c.ok = thread[t].ok /\ c.seen = thread[t].seen
  BY <1>1 DEF ThreadRec
<1>3. thread' = [thread EXCEPT ![t] = c] BY Zenon DEF Move, Calls
<1> QED BY <1>2, <1>3

LEMMA AnswerIs ==
  ASSUME thread \in Calls, NEW t \in Callers, NEW ret \in Rets, NEW v \in Values \cup {Null}, Answer(t, ret, v)
  PROVE  \E c \in ThreadRec :
           /\ thread' = [thread EXCEPT ![t] = c] /\ c.pc = "done" /\ c.ent = Null
           /\ c.op = thread[t].op /\ c.key = thread[t].key /\ c.ret = ret /\ c.val = v
           /\ c.seen = thread[t].seen
<1> DEFINE c == [thread[t] EXCEPT !.pc = "done", !.ent = Null, !.ret = ret, !.val = v]
<1>1. thread[t] \in ThreadRec BY DEF Calls
<1>2. /\ c \in ThreadRec /\ c.pc = "done" /\ c.ent = Null
      /\ c.op = thread[t].op /\ c.key = thread[t].key /\ c.ret = ret /\ c.val = v
      /\ c.seen = thread[t].seen
  BY <1>1 DEF ThreadRec, Pcs, Rets
<1>3. thread' = [thread EXCEPT ![t] = c] BY Zenon DEF Answer, Calls
<1> QED BY <1>2, <1>3

LEMMA InvFields ==
  ASSUME LRUInv
  PROVE  /\ OthersOK(shard, thread, {}) /\ SegOK(shard) /\ shard \in Segment /\ thread \in Calls
         /\ \A e \in Entries : EntryOK(shard, thread, e) /\ shard.entry[e] \in EntryRec
         /\ \A t \in Callers : thread[t] \in ThreadRec /\ CallOK(thread[t])
         /\ store \in [Keys -> Values] /\ cache \in [open : BOOLEAN, callbacks : Callbacks]
<1>1. shard \in Segment BY DEF LRUInv, OthersOK, SegOK
<1>2. \A e \in Entries : shard.entry[e] \in EntryRec BY <1>1, SegFields
<1> QED BY <1>1, <1>2 DEF LRUInv, OthersOK, Calls

\* The invariant after a step of t's call, which is c from then on.
LEMMA StepInv ==
  ASSUME LRUInv, NEW t \in Callers, NEW c \in ThreadRec, thread' = [thread EXCEPT ![t] = c],
         OthersOK(shard', thread', {}), CallOK(c), UNCHANGED <<store, cache>>
  PROVE  LRUInv'
<1>1. /\ thread \in Calls /\ \A u \in Callers : CallOK(thread[u])
      /\ store \in [Keys -> Values] /\ cache \in [open : BOOLEAN, callbacks : Callbacks]
  BY DEF LRUInv
<1>2. thread' \in Calls /\ thread'[t] = c /\ \A u \in Callers \ {t} : thread'[u] = thread[u]
  BY <1>1 DEF Calls
<1>3. \A u \in Callers : CallOK(thread'[u]) BY <1>1, <1>2
<1> QED BY <1>1, <1>2, <1>3 DEF LRUInv

\* What the step has to show of e, the entry it works on, and of its call.
FreshHere(t, c, e) ==
  /\ e \in Entries => CachedFresh(shard', thread', store, e)
  /\ CallFresh(shard', store, c)
  /\ \A u \in Callers \ {t} :
       /\ e \in Entries /\ thread[u].ent = e /\ thread[u].pc = "wait" /\ thread[u].op = "get"
       /\ ~Busy(shard', e) /\ shard'.entry[e].value # Null
       => shard'.entry[e].value \in thread[u].seen

LEMMA StepFresh ==
  ASSUME LRUInv, FreshInv, NEW t \in Callers, NEW c \in ThreadRec, thread' = [thread EXCEPT ![t] = c],
         OthersOK(shard', thread', {}), UNCHANGED <<store, cache>>, NEW e \in Entries \cup {Null},
         thread[t].ent \in {e, Null} \/ thread[t].pc # "back", \A f \in Entries \ {e} : Calm(shard, shard', f),
         HasGetter /\ HasSetter => FreshHere(t, c, e)
  PROVE  FreshInv'
<1>1. SUFFICES ASSUME HasGetter, HasSetter
               PROVE  /\ \A f \in Entries : CachedFresh(shard', thread', store, f)
                      /\ \A u \in Callers : CallFresh(shard', store, thread'[u])
  BY DEF FreshInv, HasGetter, HasSetter
<1>2. /\ \A f \in Entries : CachedFresh(shard, thread, store, f)
      /\ \A u \in Callers : CallFresh(shard, store, thread[u])
  BY <1>1 DEF FreshInv
<1>3. thread'[t] = c /\ \A u \in Callers \ {t} : thread'[u] = thread[u] BY DEF LRUInv, Calls
<1>4. FreshHere(t, c, e) BY <1>1
<1>5. ASSUME NEW f \in Entries PROVE CachedFresh(shard', thread', store, f)
  <2>1. CASE f = e BY <1>4, <2>1 DEF FreshHere
  <2>2. CASE f # e
    <3>1. SUFFICES ASSUME shard'.entry[f].alive, InLRU(shard', f)
                   PROVE  \/ shard'.entry[f].value = store[shard'.entry[f].key]
                          \/ \E u \in Callers : thread'[u].ent = f /\ thread'[u].pc = "back" /\ thread'[u].op = "set" /\ thread'[u].ok
      BY DEF CachedFresh
    <3>2. PlaceOK(shard', f) BY DEF OthersOK, EntryOK
    <3>3. shard'.entry[f].value # Null BY <3>1, <3>2 DEF PlaceOK
    <3>4. Calm(shard, shard', f) BY <2>2
    <3>5. /\ shard.entry[f].alive /\ shard'.entry[f].value = shard.entry[f].value
          /\ shard'.entry[f].key = shard.entry[f].key /\ InLRU(shard, f)
      BY <3>1, <3>3, <3>4 DEF Calm
    <3>6. CASE \E u \in Callers : thread[u].ent = f /\ thread[u].pc = "back" /\ thread[u].op = "set" /\ thread[u].ok
      <4>1. PICK u \in Callers : thread[u].ent = f /\ thread[u].pc = "back" /\ thread[u].op = "set" /\ thread[u].ok
        BY <3>6
      <4>2. u # t BY <2>2, <4>1, NullFacts
      <4> QED BY <1>3, <4>1, <4>2
    <3> QED BY <1>2, <3>5, <3>6 DEF CachedFresh
  <2> QED BY <2>1, <2>2
<1>6. ASSUME NEW u \in Callers PROVE CallFresh(shard', store, thread'[u])
  <2>1. CASE u = t BY <1>3, <1>4, <2>1 DEF FreshHere
  <2>2. CASE u # t
    <3>1. thread'[u] = thread[u] BY <1>3, <2>2
    <3>2. SUFFICES ASSUME thread[u].pc = "wait", thread[u].op = "get", ~Busy(shard', thread[u].ent),
                          shard'.entry[thread[u].ent].value # Null
                   PROVE  shard'.entry[thread[u].ent].value \in thread[u].seen
      BY <1>2, <3>1 DEF CallFresh
    <3> DEFINE f == thread[u].ent
    <3>3. f \in Entries BY <3>2, InvFields, CallFields DEF CallOK, AtEntry
    <3>4. CASE f = e BY <1>4, <2>2, <3>2, <3>3, <3>4 DEF FreshHere
    <3>5. CASE f # e
      <4>1. HeldOK(shard'.entry[f], thread', f) BY <3>3 DEF OthersOK, EntryOK
      <4>2. shard'.entry[f].alive BY <3>1, <4>1 DEF HeldOK
      <4>3. Calm(shard, shard', f) BY <3>3, <3>5
      <4>4. shard'.entry[f].value = shard.entry[f].value /\ ~Busy(shard, f)
        BY <3>2, <4>2, <4>3 DEF Calm, Busy
      <4> QED BY <1>2, <3>2, <4>4 DEF CallFresh
    <3> QED BY <3>4, <3>5
  <2> QED BY <2>1, <2>2
<1> QED BY <1>5, <1>6

Keeps == LRUInv' /\ (FreshInv => FreshInv')

LEMMA CalmSame ==
  ASSUME shard' = shard
  PROVE  \A f \in Entries : Calm(shard, shard', f)
BY DEF Calm

\* A step of a call that neither holds an entry nor touches the segment.
LEMMA AloneStep ==
  ASSUME LRUInv, NEW t \in Callers, NEW c \in ThreadRec, thread' = [thread EXCEPT ![t] = c],
         thread[t].ent = Null, c.ent = Null, CallOK(c), UNCHANGED <<shard, store, cache>>,
         HasGetter /\ HasSetter /\ FreshInv => CallFresh(shard, store, c)
  PROVE  Keeps
<1>1. OthersOK(shard', thread', {}) BY InvFields, CallOthers
<1>2. LRUInv' BY <1>1, StepInv
<1>3. ASSUME FreshInv PROVE FreshInv'
  <2>1. HasGetter /\ HasSetter => FreshHere(t, c, Null) BY <1>3, NullFacts DEF FreshHere
  <2>2. \A f \in Entries \ {Null} : Calm(shard, shard', f) BY CalmSame
  <2> QED BY <1>1, <1>3, <2>1, <2>2, StepFresh
<1> QED BY <1>2, <1>3 DEF Keeps

LEMMA CallStep ==
  ASSUME LRUInv, NEW t \in Callers, NEW to \in {"enter", "done"}, NEW op \in {"get", "set"}, NEW k \in Keys,
         NEW w \in BufferSizes \cup {AnySize, Null}, NEW v \in Values \cup {Null},
         op = "set" => v \in Values, to = "done" => op = "set", Call(t, to, op, k, w, v)
  PROVE  Keeps
<1> DEFINE c == [Idle EXCEPT !.pc = to, !.op = op, !.key = k, !.want = w, !.val = v, !.seen = {store[k]}]
<1>1. store[k] \in Values BY DEF LRUInv
<1>2. c \in ThreadRec /\ c.pc = to /\ c.op = op /\ c.key = k /\ c.val = v /\ c.ent = Null /\ c.seen = {store[k]}
  BY <1>1 DEF Idle, ThreadRec, Pcs
<1>3. thread' = [thread EXCEPT ![t] = c] /\ thread[t].pc = "idle" /\ UNCHANGED <<shard, store, cache>> BY DEF Call
<1> HIDE DEF c
<1>4. thread[t].ent = Null BY <1>3, InvFields DEF CallOK, AtEntry
<1>5. CallOK(c) BY <1>2 DEF CallOK, AtEntry
<1>6. CallFresh(shard, store, c) BY <1>2 DEF CallFresh, AtEntry
<1> QED BY <1>2, <1>3, <1>4, <1>5, <1>6, AloneStep

LEMMA GetCallStep ==
  ASSUME LRUInv, NEW t \in Callers, GetCall(t)
  PROVE  Keeps
<1>1. PICK k \in Keys, w \in BufferSizes \cup {AnySize} : Call(t, "enter", "get", k, w, Null) BY DEF GetCall
<1> QED BY <1>1, CallStep

LEMMA SetCallStep ==
  ASSUME LRUInv, NEW t \in Callers, SetCall(t)
  PROVE  Keeps
<1>1. PICK k \in Keys, v \in Values :
        Call(t, "enter", "set", k, Null, v) \/ Call(t, "done", "set", k, Null, v) BY DEF SetCall
<1>2. CASE Call(t, "enter", "set", k, Null, v) BY <1>2, CallStep
<1>3. CASE Call(t, "done", "set", k, Null, v) BY <1>3, CallStep
<1> QED BY <1>1, <1>2, <1>3

LEMMA LookupFacts ==
  ASSUME LRUInv, NEW t \in Callers, NEW op, AtLookup(t, op)
  PROVE  /\ thread[t].pc = "enter" /\ thread[t].op = op /\ thread[t].ent = Null /\ thread[t].key \in Keys
         /\ Found(t) = shard.map[thread[t].key] /\ Found(t) \in Entries \cup {Null}
<1>1. CallOK(thread[t]) /\ shard \in Segment BY InvFields
<1>2. shard.map \in [Keys -> Entries \cup {Null}] BY <1>1, SegFields
<1>3. thread[t].pc = "enter" /\ thread[t].op = op BY DEF AtLookup
<1> QED BY <1>1, <1>2, <1>3 DEF CallOK, AtEntry, Found

LEMMA NoMemoryStep ==
  ASSUME LRUInv, NEW t \in Callers, NoMemory(t)
  PROVE  Keeps
<1>1. PICK op \in {"get", "set"} : AtLookup(t, op) BY DEF NoMemory
<1>2. Answer(t, "nomem", Null) /\ UNCHANGED <<shard, store, cache>> BY DEF NoMemory
<1>3. thread[t].ent = Null /\ thread[t].key \in Keys /\ thread[t].op \in {"get", "set"} BY <1>1, LookupFacts
<1>4. PICK c \in ThreadRec :
           /\ thread' = [thread EXCEPT ![t] = c] /\ c.pc = "done" /\ c.ent = Null
           /\ c.op = thread[t].op /\ c.key = thread[t].key /\ c.ret = "nomem" /\ c.val = Null
           /\ c.seen = thread[t].seen
  BY <1>2, InvFields, AnswerIs DEF Rets
<1>5. CallOK(c) /\ CallFresh(shard, store, c) BY <1>3, <1>4 DEF CallOK, CallFresh, AtEntry
<1> QED BY <1>2, <1>3, <1>4, <1>5, AloneStep

LEMMA GetNotCachedStep ==
  ASSUME LRUInv, NEW t \in Callers, GetNotCached(t)
  PROVE  Keeps
<1>1. AtLookup(t, "get") BY DEF GetNotCached
<1>2. Answer(t, "notfound", Null) /\ UNCHANGED <<shard, store, cache>> BY DEF GetNotCached
<1>3. thread[t].ent = Null /\ thread[t].key \in Keys /\ thread[t].op \in {"get", "set"} BY <1>1, LookupFacts
<1>4. PICK c \in ThreadRec :
           /\ thread' = [thread EXCEPT ![t] = c] /\ c.pc = "done" /\ c.ent = Null
           /\ c.op = thread[t].op /\ c.key = thread[t].key /\ c.ret = "notfound" /\ c.val = Null
           /\ c.seen = thread[t].seen
  BY <1>2, InvFields, AnswerIs DEF Rets
<1>5. CallOK(c) /\ CallFresh(shard, store, c) BY <1>3, <1>4 DEF CallOK, CallFresh, AtEntry
<1> QED BY <1>2, <1>3, <1>4, <1>5, AloneStep

LEMMA ReturnedStep ==
  ASSUME LRUInv, NEW t \in Callers, Returned(t)
  PROVE  Keeps
<1>1. thread[t].pc = "done" /\ thread' = [thread EXCEPT ![t] = Idle] /\ UNCHANGED <<shard, store, cache>>
  BY DEF Returned
<1>2. Idle \in ThreadRec /\ Idle.pc = "idle" /\ Idle.ent = Null BY DEF Idle, ThreadRec, Pcs
<1>3. thread[t].ent = Null BY <1>1, InvFields DEF CallOK, AtEntry
<1>4. CallOK(Idle) /\ CallFresh(shard, store, Idle) BY <1>2 DEF CallOK, CallFresh, AtEntry
<1> QED BY <1>1, <1>2, <1>3, <1>4, AloneStep

\* A get is back from the remote store.
LEMMA RemoteGetStep ==
  ASSUME LRUInv, NEW t \in Callers, RemoteGet(t)
  PROVE  Keeps
<1>1. PICK v \in {store[thread[t].key], Null} :
        /\ thread[t].pc = "remote" /\ thread[t].op = "get"
        /\ thread' = [thread EXCEPT ![t].pc = "back", ![t].val = v]
        /\ UNCHANGED <<shard, store, cache>>
  BY DEF RemoteGet
<1> DEFINE c == [thread[t] EXCEPT !.pc = "back", !.val = v]
           e == thread[t].ent
<1>2. thread[t] \in ThreadRec /\ CallOK(thread[t]) BY InvFields
<1>3. thread[t].key \in Keys /\ v \in Values \cup {Null} BY <1>1, <1>2, InvFields DEF CallOK
<1>4. /\ c \in ThreadRec /\ c.pc = "back" /\ c.val = v /\ c.ent = e /\ c.op = thread[t].op /\ c.key = thread[t].key
      /\ c.seen = thread[t].seen
  BY <1>2, <1>3 DEF ThreadRec, Pcs
<1>5. thread' = [thread EXCEPT ![t] = c] BY <1>1, InvFields, Zenon DEF Calls
<1> HIDE DEF c
<1>6. e \in Entries BY <1>1, <1>2, CallFields DEF CallOK, AtEntry
<1>7. OthersOK(shard, thread', {e})
  <2>1. OthersOK(shard, thread, {e}) BY InvFields DEF OthersOK
  <2> QED BY <1>4, <1>5, <2>1, InvFields, CallOthers
<1>8. EntryOK(shard, thread', e)
  <2>1. HeldOK(shard.entry[e], thread, e) /\ PlaceOK(shard, e) /\ shard.entry[e].asleep \subseteq Callers
    BY <1>6, InvFields, RecFields DEF EntryOK
  <2>2. thread'[t] = c /\ \A u \in Callers \ {t} : thread'[u] = thread[u] BY <1>5, InvFields DEF Calls
  <2>3. HeldOK(shard.entry[e], thread', e)
    <3>1. \A u \in Callers : (thread[u].ent = e <=> thread'[u].ent = e) BY <1>4, <2>2
    <3>2. \A u \in Callers : thread[u].ent = e =>
           /\ thread'[u].key = thread[u].key /\ thread'[u].op = thread[u].op
           /\ thread'[u].pc \in Working <=> thread[u].pc \in Working
           /\ thread'[u].pc = "wait" <=> thread[u].pc = "wait"
      BY <1>1, <1>4, <2>2 DEF Working
    <3> QED BY <2>1, <3>1, <3>2, HeldSame
  <2> QED BY <2>1, <2>3 DEF EntryOK
<1>9. OthersOK(shard', thread', {}) BY <1>1, <1>7, <1>8 DEF OthersOK
<1>10. CallOK(c) BY <1>1, <1>2, <1>4 DEF CallOK, AtEntry
<1>11. LRUInv' BY <1>1, <1>4, <1>5, <1>9, <1>10, StepInv
<1>12. ASSUME FreshInv, HasGetter, HasSetter PROVE FreshHere(t, c, e)
  <2>1. CachedFresh(shard, thread, store, e) /\ \A u \in Callers : CallFresh(shard, store, thread[u])
    BY <1>6, <1>12 DEF FreshInv
  <2>2. thread'[t] = c /\ \A u \in Callers \ {t} : thread'[u] = thread[u] BY <1>5, InvFields DEF Calls
  <2>3. CachedFresh(shard', thread', store, e) BY <1>1, <2>1, <2>2 DEF CachedFresh
  <2>4. CallFresh(shard', store, c) BY <1>1, <1>4, <2>1 DEF CallFresh, AtEntry
  <2>5. ASSUME NEW u \in Callers \ {t}, thread[u].ent = e, thread[u].pc = "wait", thread[u].op = "get",
               ~Busy(shard', e), shard'.entry[e].value # Null
        PROVE  shard'.entry[e].value \in thread[u].seen
    BY <1>1, <2>1, <2>5 DEF CallFresh
  <2> QED BY <2>3, <2>4, <2>5 DEF FreshHere
<1>13. FreshInv => FreshInv' BY <1>1, <1>4, <1>5, <1>6, <1>9, <1>12, CalmSame, StepFresh
<1> QED BY <1>11, <1>13 DEF Keeps

\* A step that leaves entry e where it is.
LEMMA PutPlace ==
  ASSUME NEW s, NEW th, NEW e \in Entries, OthersOK(s, th, {e}), PlaceOK(s, e),
         NEW q \in EntryRec, q.alive = s.entry[e].alive, q.key = s.entry[e].key, q.value = s.entry[e].value,
         q.evicted = s.entry[e].evicted, q.fetching = s.entry[e].fetching, q.setting = s.entry[e].setting,
         q.alive, q.evicted => q.waiters # 0, q.asleep # {} => Busy(s, e), HeldOK(q, th, e)
  PROVE  OthersOK(Put(s, e, q), th, {})
<1> DEFINE z == Put(s, e, q)
<1>1. s \in Segment BY DEF OthersOK, SegOK
<1>2. /\ z.map = s.map /\ z.entry[e] = q /\ \A f \in Entries \ {e} : z.entry[f] = s.entry[f]
      /\ \A f : InLRU(z, f) <=> InLRU(s, f)
  BY <1>1, PutFields
<1>3. OthersOK(z, th, {e})
  <2>1. ASSUME NEW k \in Keys, s.map[k] = e PROVE q.alive /\ q.key = k /\ ~q.evicted
    BY <2>1, NullFacts DEF OthersOK, SegOK
  <2>2. e \in Entries \cap {e} OBVIOUS
  <2> QED BY <2>1, <2>2, PutOthers
<1> HIDE DEF z
<1>4. PlaceOK(z, e) BY <1>2 DEF PlaceOK, Busy
<1>5. OthersOK(z, th, {}) BY <1>2, <1>3, <1>4 DEF OthersOK, EntryOK
<1> QED BY <1>5 DEF z

\* A call starts to sleep on its entry, or wakes up.
LEMMA AsleepStep ==
  ASSUME LRUInv, NEW t \in Callers, thread[t].pc = "wait", NEW A \in SUBSET Callers,
         A \subseteq shard.entry[thread[t].ent].asleep \cup {t}, A # {} => Busy(shard, thread[t].ent),
         shard' = [shard EXCEPT !.entry[thread[t].ent].asleep = A], UNCHANGED <<thread, store, cache>>
  PROVE  Keeps
<1> DEFINE e == thread[t].ent
           r == shard.entry[e]
           q == [r EXCEPT !.asleep = A]
<1>1. e \in Entries BY InvFields, CallFields DEF CallOK, AtEntry
<1>2. HeldOK(r, thread, e) /\ PlaceOK(shard, e) /\ r \in EntryRec /\ shard \in Segment BY <1>1, InvFields DEF EntryOK
<1>3. /\ q \in EntryRec /\ q.alive = r.alive /\ q.key = r.key /\ q.value = r.value /\ q.evicted = r.evicted
      /\ q.fetching = r.fetching /\ q.setting = r.setting /\ q.waiters = r.waiters /\ q.asleep = A
  BY <1>2 DEF EntryRec
<1>4. shard' = Put(shard, e, q) BY DEF Put
<1> HIDE DEF q
<1>5. HeldOK(q, thread, e)
  <2>1. \A u \in q.asleep : u \in r.asleep \/ (u \in Callers /\ thread[u].ent = e /\ thread[u].pc = "wait")
    BY <1>3
  <2>2. r.asleep \subseteq Callers BY <1>2, RecFields
  <2> QED BY <1>2, <1>3, <2>1, <2>2, HeldSame
<1>6. r.alive BY <1>2 DEF HeldOK
<1>7. OthersOK(shard, thread, {e}) BY InvFields DEF OthersOK
<1>8. OthersOK(Put(shard, e, q), thread, {}) BY <1>1, <1>2, <1>3, <1>5, <1>6, <1>7, PutPlace DEF PlaceOK
<1>9. thread' = [thread EXCEPT ![t] = thread[t]] /\ thread[t] \in ThreadRec /\ CallOK(thread[t])
      /\ OthersOK(shard', thread', {})
  BY <1>4, <1>8, InvFields DEF Calls
<1>10. LRUInv' BY <1>9, StepInv
<1>11. /\ shard'.entry[e] = q /\ \A f \in Entries \ {e} : shard'.entry[f] = shard.entry[f]
       /\ \A f : InLRU(shard', f) <=> InLRU(shard, f)
  <2>1. /\ Put(shard, e, q).entry[e] = q /\ \A f \in Entries \ {e} : Put(shard, e, q).entry[f] = shard.entry[f]
        /\ \A f : InLRU(Put(shard, e, q), f) <=> InLRU(shard, f)
    BY <1>1, <1>2, <1>3, PutFields
  <2> QED BY <1>4, <2>1
<1>12. \A f \in Entries : Calm(shard, shard', f) BY <1>3, <1>11 DEF Calm
<1>13. ASSUME FreshInv, HasGetter, HasSetter PROVE FreshHere(t, thread[t], e)
  <2>1. /\ CachedFresh(shard, thread, store, e) /\ \A u \in Callers : CallFresh(shard, store, thread[u])
    BY <1>1, <1>13 DEF FreshInv
  <2>2. Busy(shard', e) <=> Busy(shard, e) BY <1>3, <1>11 DEF Busy
  <2>3. CachedFresh(shard', thread', store, e) BY <1>3, <1>11, <2>1 DEF CachedFresh
  <2>4. CallFresh(shard', store, thread[t]) BY <1>3, <1>11, <2>1, <2>2 DEF CallFresh
  <2>5. ASSUME NEW u \in Callers \ {t}, thread[u].ent = e, thread[u].pc = "wait", thread[u].op = "get",
               ~Busy(shard', e), shard'.entry[e].value # Null
        PROVE  shard'.entry[e].value \in thread[u].seen
    BY <1>3, <1>11, <2>1, <2>2, <2>5 DEF CallFresh
  <2> QED BY <2>3, <2>4, <2>5 DEF FreshHere
<1>14. FreshInv => FreshInv'
  <2>1. \A f \in Entries \ {e} : Calm(shard, shard', f) BY <1>12
  <2>2. thread[t].ent \in {e, Null} OBVIOUS
  <2> HIDE DEF e
  <2> QED BY <1>1, <1>9, <1>13, <2>1, <2>2, StepFresh
<1> QED BY <1>10, <1>14 DEF Keeps

LEMMA SpuriousStep ==
  ASSUME LRUInv, NEW t \in Callers, Spurious(t)
  PROVE  Keeps
<1> DEFINE A == shard.entry[thread[t].ent].asleep \ {t}
<1>1. thread[t].pc = "wait" /\ UNCHANGED <<thread, store, cache>>
      /\ shard' = [shard EXCEPT !.entry[thread[t].ent].asleep = A]
  BY DEF Spurious, Sleeping
<1>2. thread[t].ent \in Entries BY <1>1, InvFields, CallFields DEF CallOK, AtEntry
<1>3. PlaceOK(shard, thread[t].ent) /\ shard.entry[thread[t].ent].asleep \in SUBSET Callers
  BY <1>2, InvFields, RecFields DEF EntryOK
<1>4. A \in SUBSET Callers /\ A \subseteq shard.entry[thread[t].ent].asleep \cup {t} /\ (A # {} => Busy(shard, thread[t].ent))
  BY <1>3 DEF PlaceOK
<1> HIDE DEF A
<1> QED BY <1>1, <1>4, AsleepStep

LEMMA WaitAgainStep ==
  ASSUME LRUInv, NEW t \in Callers, WaitAgain(t)
  PROVE  Keeps
<1> DEFINE A == shard.entry[thread[t].ent].asleep \cup {t}
<1>1. thread[t].pc = "wait" /\ Busy(shard, thread[t].ent) /\ UNCHANGED <<thread, store, cache>>
      /\ shard' = [shard EXCEPT !.entry[thread[t].ent].asleep = A]
  BY DEF WaitAgain, AtWake, Sleep
<1>2. thread[t].ent \in Entries BY <1>1, InvFields, CallFields DEF CallOK, AtEntry
<1>3. shard.entry[thread[t].ent].asleep \in SUBSET Callers BY <1>2, InvFields, RecFields
<1>4. A \in SUBSET Callers BY <1>3
<1> HIDE DEF A
<1>5. A \subseteq shard.entry[thread[t].ent].asleep \cup {t} BY DEF A
<1> QED BY <1>1, <1>4, <1>5, AsleepStep

\* A call that finds its key busy waits.
LEMMA WaitForEntryStep ==
  ASSUME LRUInv, NEW t \in Callers, WaitForEntry(t)
  PROVE  Keeps
<1> DEFINE e == Found(t)
           r == shard.entry[e]
           p == [r EXCEPT !.waiters = r.waiters + 1]
           q == [p EXCEPT !.asleep = p.asleep \cup {t}]
<1>1. PICK op \in {"get", "set"} : AtLookup(t, op) BY DEF WaitForEntry
<1>2. /\ e # Null /\ Busy(shard, e) /\ shard' = Sleep(Enter(shard, e), e, t) /\ Move(t, "wait", e)
      /\ UNCHANGED <<store, cache>>
  BY DEF WaitForEntry
<1>3. /\ thread[t].pc = "enter" /\ thread[t].op = op /\ thread[t].ent = Null /\ thread[t].key \in Keys
      /\ e = shard.map[thread[t].key] /\ e \in Entries
  BY <1>1, <1>2, LookupFacts
<1> HIDE DEF e
<1>4. HeldOK(r, thread, e) /\ PlaceOK(shard, e) /\ r \in EntryRec /\ shard \in Segment BY <1>3, InvFields DEF EntryOK
<1>5. r.alive /\ r.key = thread[t].key /\ ~r.evicted BY <1>2, <1>3, InvFields DEF SegOK
<1>6. /\ p \in EntryRec /\ p.alive = r.alive /\ p.key = r.key /\ p.value = r.value /\ p.evicted = r.evicted
      /\ p.fetching = r.fetching /\ p.setting = r.setting /\ p.waiters = r.waiters + 1 /\ p.asleep = r.asleep
  BY <1>4 DEF EntryRec
<1>7. Enter(shard, e) = Put(shard, e, p) BY DEF Enter, Put
<1> HIDE DEF p
<1>8. p.asleep \cup {t} \in SUBSET Callers BY <1>6, RecFields
<1>9. /\ q \in EntryRec /\ q.alive = r.alive /\ q.key = r.key /\ q.value = r.value /\ q.evicted = r.evicted
      /\ q.fetching = r.fetching /\ q.setting = r.setting /\ q.waiters = r.waiters + 1 /\ q.asleep = r.asleep \cup {t}
  BY <1>6, <1>8 DEF EntryRec
<1>10. shard' = Put(shard, e, q)
  <2>1. Put(shard, e, p).entry[e] = p BY <1>3, <1>4, <1>6, PutFields
  <2>2. Sleep(Put(shard, e, p), e, t) = Put(Put(shard, e, p), e, q) BY <2>1 DEF Sleep, Put
  <2> HIDE DEF q
  <2> QED BY <1>2, <1>3, <1>4, <1>6, <1>7, <1>9, <2>2, PutPut
<1> HIDE DEF q
<1>11. PICK c \in ThreadRec :
           /\ thread' = [thread EXCEPT ![t] = c] /\ c.pc = "wait" /\ c.ent = e
           /\ c.op = thread[t].op /\ c.key = thread[t].key /\ c.val = thread[t].val
           /\ c.ok = thread[t].ok /\ c.seen = thread[t].seen
  BY <1>2, <1>3, InvFields, MoveIs DEF Pcs
<1>12. HeldOK(q, thread', e)
  <2>1. thread[t].ent # e BY <1>2, <1>3
  <2>2. \A u \in Callers : thread[u].pc \in Working => thread[u].op \in {"get", "set"}
    BY InvFields DEF CallOK, Working
  <2>3. "wait" \notin Working BY DEF Working
  <2> QED BY <1>3, <1>4, <1>5, <1>9, <1>11, <2>1, <2>2, <2>3, InvFields, HeldJoin
<1>13. OthersOK(shard, thread', {e})
  <2>1. OthersOK(shard, thread, {e}) BY InvFields DEF OthersOK
  <2> QED BY <1>3, <1>11, <2>1, InvFields, CallOthers
<1>14. OthersOK(shard', thread', {})
  <2>1. OthersOK(Put(shard, e, q), thread', {}) BY <1>2, <1>3, <1>4, <1>5, <1>9, <1>12, <1>13, PutPlace
  <2> QED BY <1>10, <2>1
<1>15. CallOK(c) /\ CallOK(thread[t]) BY <1>2, <1>3, <1>11, InvFields DEF CallOK, AtEntry
<1>16. LRUInv' BY <1>2, <1>11, <1>14, <1>15, StepInv
<1>17. /\ shard'.entry[e] = q /\ \A f \in Entries \ {e} : shard'.entry[f] = shard.entry[f]
       /\ \A f : InLRU(shard', f) <=> InLRU(shard, f)
  <2>1. /\ Put(shard, e, q).entry[e] = q /\ \A f \in Entries \ {e} : Put(shard, e, q).entry[f] = shard.entry[f]
        /\ \A f : InLRU(Put(shard, e, q), f) <=> InLRU(shard, f)
    <3>1. shard \in Segment /\ e \in Entries /\ q \in EntryRec BY <1>3, <1>4, <1>9
    <3> QED BY <3>1, PutFields
  <2> QED BY <1>10, <2>1
<1>18. \A f \in Entries \ {e} : Calm(shard, shard', f) BY <1>17 DEF Calm
<1>19. ASSUME FreshInv, HasGetter, HasSetter PROVE FreshHere(t, c, e)
  <2>1. /\ CachedFresh(shard, thread, store, e) /\ CallFresh(shard, store, thread[t])
    BY <1>3, <1>19 DEF FreshInv
  <2>2. thread'[t] = c /\ \A u \in Callers \ {t} : thread'[u] = thread[u] BY <1>11, InvFields DEF Calls
  <2>3. Busy(shard', e) BY <1>2, <1>9, <1>17 DEF Busy
  <2>4. CachedFresh(shard', thread', store, e)
    <3>1. \A u \in Callers : thread[u].ent = e => u # t BY <1>2, <1>3
    <3> QED BY <1>9, <1>17, <2>1, <2>2, <3>1 DEF CachedFresh
  <2>5. CallFresh(shard', store, c) BY <1>3, <1>11, <2>1, <2>3 DEF CallFresh, AtEntry
  <2> QED BY <2>3, <2>4, <2>5 DEF FreshHere
<1>20. FreshInv => FreshInv'
  <2>1. thread[t].ent \in {e, Null} BY <1>3
  <2> QED BY <1>2, <1>3, <1>11, <1>14, <1>18, <1>19, <2>1, StepFresh
<1> QED BY <1>16, <1>20 DEF Keeps

-----------------------------------------------------------------------------
(* Misses: an address for the new entry.                                   *)

LEMMA LeastEntry ==
  ASSUME NEW F \in SUBSET Entries, F # {}
  PROVE  \E e \in F : \A f \in 1 .. (e - 1) : f \notin F
<1> DEFINE R == {p \in Nat \X Nat : p[1] < p[2]}
<1>1. IsWellFoundedOn(R, Nat) BY NatLessThanWellFounded DEF OpToRel
<1>2. Cardinality(Keys) + Cardinality(Callers) \in Nat
  <2>1. IsFiniteSet(Keys) /\ IsFiniteSet(Callers) BY LRUAssumption
  <2> QED BY <2>1, FS_CardinalityType
<1>3. F \subseteq Nat BY <1>2 DEF Entries
<1>4. PICK e \in F : \A f \in F : <<f, e>> \notin R BY <1>1, <1>3, WFMin
<1>5. \A f \in 1 .. (e - 1) : f \in Nat /\ f < e /\ e \in Nat BY <1>3
<1>6. \A f \in 1 .. (e - 1) : <<f, e>> \in R BY <1>5
<1> QED BY <1>4, <1>6

LEMMA ImageSmall ==
  ASSUME NEW S, IsFiniteSet(S), NEW f, NEW T, T = {f[x] : x \in S}
  PROVE  IsFiniteSet(T) /\ Cardinality(T) <= Cardinality(S)
<1> DEFINE g == [x \in S |-> f[x]]
<1>1. g \in Surjection(S, T) BY DEF Surjection
<1> HIDE DEF g
<1> QED BY <1>1, FS_Surjection

\* There is an address left for a call that misses: the entries in use are in
\* the map or in the hands of other calls.
LEMMA FreshExists ==
  ASSUME LRUInv, NEW t \in Callers, thread[t].ent = Null, NEW k \in Keys, shard.map[k] = Null
  PROVE  FreshEntry(shard) \in Entries /\ ~shard.entry[FreshEntry(shard)].alive
<1> DEFINE Ks == Keys \ {k}
           Ts == Callers \ {t}
           ents == [u \in Ts |-> thread[u].ent]
           A == {shard.map[j] : j \in Ks}
           B == {ents[u] : u \in Ts}
           F == {e \in Entries : ~shard.entry[e].alive}
           nk == Cardinality(Keys)
           nt == Cardinality(Callers)
<1>1. IsFiniteSet(Keys) /\ IsFiniteSet(Callers) BY LRUAssumption
<1>2. IsFiniteSet(Ks) /\ Cardinality(Ks) = nk - 1 /\ IsFiniteSet(Ts) /\ Cardinality(Ts) = nt - 1 /\ nk \in Nat /\ nt \in Nat
  BY <1>1, FS_RemoveElement, FS_CardinalityType
<1>3. IsFiniteSet(A) /\ Cardinality(A) <= nk - 1
  <2>1. IsFiniteSet(A) /\ Cardinality(A) <= Cardinality(Ks)
    <3> HIDE DEF Ks
    <3> QED BY <1>2, ImageSmall
  <2> QED BY <1>2, <2>1
<1>4. IsFiniteSet(B) /\ Cardinality(B) <= nt - 1
  <2>1. IsFiniteSet(B) /\ Cardinality(B) <= Cardinality(Ts)
    <3> HIDE DEF Ts, ents
    <3> QED BY <1>2, ImageSmall
  <2> QED BY <1>2, <2>1
<1>5. Entries \ F \subseteq A \cup B
  <2>1. SUFFICES ASSUME NEW e \in Entries, shard.entry[e].alive PROVE e \in A \cup B
    OBVIOUS
  <2>2. PlaceOK(shard, e) /\ HeldOK(shard.entry[e], thread, e) BY InvFields DEF EntryOK
  <2>3. e # Null BY NullFacts
  <2>4. CASE shard.entry[e].evicted
    <3>1. Cardinality(Holders(thread, e)) # 0 BY <2>1, <2>2, <2>4 DEF PlaceOK, HeldOK
    <3>2. \E u \in Callers : thread[u].ent = e BY <3>1, HoldersFinite
    <3> QED BY <2>3, <3>2
  <2>5. CASE ~shard.entry[e].evicted
    <3>1. shard.entry[e].key \in Keys /\ shard.map[shard.entry[e].key] = e BY <2>1, <2>2, <2>5 DEF PlaceOK
    <3> QED BY <2>3, <3>1
  <2> QED BY <2>4, <2>5
<1> HIDE DEF A, B
<1>6. IsFiniteSet(A \cup B) /\ Cardinality(A \cup B) <= nk + nt - 2
  <2>1. IsFiniteSet(A \cup B) /\ Cardinality(A \cup B) = Cardinality(A) + Cardinality(B) - Cardinality(A \cap B)
    BY <1>3, <1>4, FS_Union
  <2>2. IsFiniteSet(A \cap B) BY <1>3, FS_Intersection
  <2>3. Cardinality(A \cap B) \in Nat /\ Cardinality(A) \in Nat /\ Cardinality(B) \in Nat
    BY <1>3, <1>4, <2>2, FS_CardinalityType
  <2> QED BY <1>2, <1>3, <1>4, <2>1, <2>3
<1>7. Cardinality(Entries) = nk + nt
  <2>1. nk + nt \in Nat BY <1>2
  <2> HIDE DEF nk, nt
  <2>2. Cardinality(1 .. (nk + nt)) = nk + nt
    <3>1. Cardinality(1 .. (nk + nt)) = IF 1 > nk + nt THEN 0 ELSE (nk + nt) - 1 + 1 BY <2>1, FS_Interval
    <3> QED BY <2>1, <3>1
  <2> QED BY <2>2 DEF Entries, nk, nt
<1>8. F # {}
  <2>1. SUFFICES ASSUME F = {} PROVE FALSE OBVIOUS
  <2>2. Entries \subseteq A \cup B BY <1>5, <2>1
  <2>3. Cardinality(Entries) <= Cardinality(A \cup B) BY <1>6, <2>2, FS_Subset
  <2>4. Cardinality(A \cup B) \in Nat BY <1>6, FS_CardinalityType
  <2> QED BY <1>2, <1>6, <1>7, <2>3, <2>4
<1>9. PICK e \in F : \A f \in 1 .. (e - 1) : f \notin F BY <1>8, LeastEntry
<1>10. \A f \in 1 .. (e - 1) : f \in Entries
  <2>1. nk + nt \in Nat BY <1>2
  <2> QED BY <2>1 DEF Entries
<1>11. e \in Entries /\ ~shard.entry[e].alive /\ \A f \in 1 .. (e - 1) : shard.entry[f].alive
  BY <1>9, <1>10
<1> QED BY <1>11 DEF FreshEntry

LEMMA InsertFields ==
  ASSUME NEW s \in Segment, NEW k \in Keys, NEW e \in Entries
  PROVE  /\ Insert(s, k, e) \in Segment /\ Insert(s, k, e).lru = s.lru /\ Insert(s, k, e).size = s.size
         /\ Insert(s, k, e).map[k] = e /\ \A j \in Keys \ {k} : Insert(s, k, e).map[j] = s.map[j]
         /\ \A f \in Entries \ {e} : Insert(s, k, e).entry[f] = s.entry[f]
         /\ LET r == Insert(s, k, e).entry[e] IN
              /\ r \in EntryRec /\ r.alive /\ r.key = k /\ r.value = Null /\ ~r.fetching /\ ~r.setting
              /\ ~r.evicted /\ r.waiters = 0 /\ r.asleep = {}
<1> DEFINE r == [Freed EXCEPT !.alive = TRUE, !.key = k]
           m == [s.map EXCEPT ![k] = e]
           en == [s.entry EXCEPT ![e] = r]
           z == Insert(s, k, e)
<1>1. /\ r \in EntryRec /\ r.alive /\ r.key = k /\ r.value = Null /\ ~r.fetching /\ ~r.setting
      /\ ~r.evicted /\ r.waiters = 0 /\ r.asleep = {}
  <2> DEFINE x == [Freed EXCEPT !.alive = TRUE]
  <2>1. r = [x EXCEPT !.key = k] BY Zenon
  <2>2. /\ x \in EntryRec /\ x.alive /\ x.value = Null /\ ~x.fetching /\ ~x.setting
        /\ ~x.evicted /\ x.waiters = 0 /\ x.asleep = {}
    BY FreedFacts DEF EntryRec
  <2> HIDE DEF r, x
  <2> QED BY <2>1, <2>2 DEF EntryRec
<1>2. z = [[s EXCEPT !.map = m] EXCEPT !.entry = en] BY Zenon DEF Insert, Segment
<1> HIDE DEF r, z
<1>3. /\ m \in [Keys -> Entries \cup {Null}] /\ m[k] = e /\ \A j \in Keys \ {k} : m[j] = s.map[j]
      /\ en \in [Entries -> EntryRec] /\ en[e] = r /\ \A f \in Entries \ {e} : en[f] = s.entry[f]
  BY <1>1, SegFields
<1> HIDE DEF m, en
<1>4. z = [map |-> m, entry |-> en, lru |-> s.lru, size |-> s.size] BY <1>2 DEF Segment
<1>5. z \in Segment /\ z.map = m /\ z.entry = en /\ z.lru = s.lru /\ z.size = s.size BY <1>3, <1>4, SegFields, SegIs
<1> QED BY <1>1, <1>3, <1>5 DEF z

\* A placeholder for k is in the map, and nowhere else.
LEMMA InsertHalf ==
  ASSUME NEW s, NEW th, NEW e \in Entries, OthersOK(s, th, {}), ~s.entry[e].alive, NEW k \in Keys, s.map[k] = Null
  PROVE  /\ Half(Insert(s, k, e), th, e) /\ ~InLRU(Insert(s, k, e), e)
         /\ HeldOK(Insert(s, k, e).entry[e], th, e)
         /\ \A f \in Entries \ {e} : Calm(s, Insert(s, k, e), f)
<1> DEFINE z == Insert(s, k, e)
<1>1. s \in Segment /\ EntryOK(s, th, e) /\ SegOK(s) BY DEF OthersOK, SegOK
<1>2. /\ z \in Segment /\ z.lru = s.lru /\ z.size = s.size
      /\ z.map[k] = e /\ \A j \in Keys \ {k} : z.map[j] = s.map[j]
      /\ \A f \in Entries \ {e} : z.entry[f] = s.entry[f]
  BY <1>1, InsertFields
<1>3. /\ z.entry[e].alive /\ z.entry[e].key = k /\ z.entry[e].value = Null /\ ~z.entry[e].fetching /\ ~z.entry[e].setting
      /\ ~z.entry[e].evicted /\ z.entry[e].waiters = 0 /\ z.entry[e].asleep = {}
  BY <1>1, InsertFields
<1> HIDE DEF z
<1>4. \A f : InLRU(z, f) <=> InLRU(s, f) BY <1>2 DEF InLRU
<1>5. e # Null BY NullFacts
<1>6. ~InLRU(s, e) /\ HeldOK(s.entry[e], th, e) BY <1>1 DEF EntryOK, PlaceOK
<1>7. \A u \in Callers : th[u].ent # e BY <1>6 DEF HeldOK
<1>8. HeldOK(z.entry[e], th, e)
  <2>1. Cardinality(Holders(th, e)) = 0 BY <1>7, HoldersFinite
  <2> QED BY <1>3, <1>7, <2>1 DEF HeldOK
<1>9. SegOK(z)
  <2>1. s.map \in [Keys -> Entries \cup {Null}] BY <1>1, SegFields
  <2>2. ASSUME NEW j \in Keys, z.map[j] # Null
        PROVE  z.entry[z.map[j]].alive /\ z.entry[z.map[j]].key = j /\ ~z.entry[z.map[j]].evicted
    <3>1. CASE j = k BY <1>2, <1>3, <3>1
    <3>2. CASE j # k
      <4>1. z.map[j] = s.map[j] /\ s.map[j] # Null /\ s.map[j] \in Entries BY <1>2, <2>1, <2>2, <3>2
      <4>2. s.entry[s.map[j]].alive /\ s.entry[s.map[j]].key = j /\ ~s.entry[s.map[j]].evicted
        BY <1>1, <4>1 DEF SegOK
      <4>3. s.map[j] # e BY <4>2
      <4> QED BY <1>2, <4>1, <4>2, <4>3
    <3> QED BY <3>1, <3>2
  <2> QED BY <1>1, <1>2, <2>2 DEF SegOK
<1>10. ASSUME NEW f \in Entries \ {e} PROVE EntryOK(z, th, f)
  <2>1. PlaceOK(s, f) /\ HeldOK(s.entry[f], th, f) BY DEF OthersOK, EntryOK
  <2>2. f # Null BY NullFacts
  <2>3. s.entry[f].alive => (z.map[s.entry[f].key] = f <=> s.map[s.entry[f].key] = f)
    BY <1>2, <2>1, <2>2 DEF PlaceOK
  <2>4. PlaceOK(z, f) BY <1>2, <1>4, <2>1, <2>3, PlaceSame
  <2> QED BY <1>2, <2>1, <2>4 DEF EntryOK
<1>11. Half(z, th, e) BY <1>2, <1>3, <1>4, <1>6, <1>9, <1>10 DEF Half, OthersOK
<1>12. \A f \in Entries \ {e} : Calm(s, z, f) BY <1>2, <1>4 DEF Calm
<1> QED BY <1>4, <1>6, <1>8, <1>11, <1>12 DEF z

\* Somebody works on the entry from here on.
LEMMA HalfBusy ==
  ASSUME NEW s, NEW th, NEW e \in Entries, Half(s, th, e), NEW q \in EntryRec, HeldOK(q, th, e),
         q.alive, ~q.evicted, q.key = s.entry[e].key, q.value = s.entry[e].value,
         q.fetching \/ q.setting, q.fetching => ~q.setting /\ q.value = Null
  PROVE  /\ OthersOK(Put(s, e, q), th, {}) /\ Put(s, e, q).entry[e] = q
         /\ InLRU(Put(s, e, q), e) <=> InLRU(s, e)
         /\ \A f \in Entries \ {e} : Calm(s, Put(s, e, q), f)
<1> DEFINE z == Put(s, e, q)
<1>1. s \in Segment BY DEF OthersOK, SegOK, Half
<1>2. /\ z.map = s.map /\ z.entry[e] = q /\ \A f \in Entries \ {e} : z.entry[f] = s.entry[f]
      /\ \A f : InLRU(z, f) <=> InLRU(s, f)
  BY <1>1, PutFields
<1>3. OthersOK(z, th, {e}) BY PutHalf DEF Half
<1> HIDE DEF z
<1>4. PlaceOK(z, e) BY <1>2 DEF PlaceOK, Half, Busy
<1>5. OthersOK(z, th, {}) BY <1>2, <1>3, <1>4 DEF OthersOK, EntryOK
<1> QED BY <1>2, <1>5 DEF z, Calm

\* A call that starts to work on an entry nobody works on.
Joins(s, th, t, e, c, q) ==
  /\ Half(s, th, e) /\ HeldOK(s.entry[e], th, e) /\ th \in Calls /\ th[t].ent = Null
  /\ ~s.entry[e].fetching /\ ~s.entry[e].setting /\ s.entry[e].asleep = {}
  /\ \A u \in Callers : th[u].pc \in Working => th[u].op \in {"get", "set"}
  /\ c \in ThreadRec /\ c.ent = e /\ c.pc = "remote" /\ c.key = s.entry[e].key
  /\ q \in EntryRec /\ q.alive /\ ~q.evicted /\ q.key = s.entry[e].key /\ q.value = s.entry[e].value
  /\ q.waiters = s.entry[e].waiters + 1 /\ q.asleep = {}
  /\ c.op = "get" => q.fetching
  /\ c.op = "set" => q.setting
  /\ q.fetching \/ q.setting
  /\ q.fetching => ~q.setting /\ q.value = Null

LEMMA JoinWork ==
  ASSUME NEW s, NEW th, NEW t \in Callers, NEW e \in Entries, NEW c, NEW q, Joins(s, th, t, e, c, q)
  PROVE  /\ OthersOK(Put(s, e, q), [th EXCEPT ![t] = c], {}) /\ Put(s, e, q).entry[e] = q
         /\ InLRU(Put(s, e, q), e) <=> InLRU(s, e)
         /\ \A f \in Entries \ {e} : Calm(s, Put(s, e, q), f)
<1> DEFINE w == [th EXCEPT ![t] = c]
<1>1. th[t].ent # e /\ "remote" \in Working BY NullFacts DEF Joins, Working
<1>2. s.entry[e] \in EntryRec BY SegFields DEF Joins, Half, OthersOK, SegOK
<1>3. HeldOK(q, w, e)
  <2>1. /\ HeldOK(s.entry[e], th, e) /\ th \in Calls /\ c \in ThreadRec /\ c.ent = e /\ q.alive /\ c.key = q.key
        /\ q.waiters = s.entry[e].waiters + 1 /\ q.key = s.entry[e].key /\ q.asleep = {} /\ q \in EntryRec
        /\ (c.op = "get" => q.fetching) /\ (c.op = "set" => q.setting)
        /\ ~s.entry[e].fetching /\ ~s.entry[e].setting /\ c.pc \in Working
        /\ \A u \in Callers : th[u].pc \in Working => th[u].op \in {"get", "set"}
    BY <1>1 DEF Joins
  <2> QED BY <1>1, <1>2, <2>1, HeldJoin
<1>4. OthersOK(s, w, {e}) BY CallOthers DEF Joins, Half
<1>5. Half(s, w, e) BY <1>4 DEF Joins, Half
<1> HIDE DEF w
<1> QED BY <1>3, <1>5, HalfBusy DEF Joins, w

\* The first get that misses puts the placeholder in and fetches.
LEMMA GetMissStep ==
  ASSUME LRUInv, NEW t \in Callers, GetMiss(t)
  PROVE  Keeps
<1> DEFINE k == thread[t].key
           e == FreshEntry(shard)
           s == Insert(shard, k, e)
           p == [s.entry[e] EXCEPT !.waiters = s.entry[e].waiters + 1]
           q == [p EXCEPT !.fetching = TRUE]
<1>1. /\ AtLookup(t, "get") /\ Found(t) = Null /\ shard' = [Enter(s, e) EXCEPT !.entry[e].fetching = TRUE]
      /\ Move(t, "remote", e) /\ UNCHANGED <<store, cache>>
  BY DEF GetMiss
<1>2. thread[t].pc = "enter" /\ thread[t].op = "get" /\ thread[t].ent = Null /\ k \in Keys /\ shard.map[k] = Null
  BY <1>1, LookupFacts
<1>3. e \in Entries /\ ~shard.entry[e].alive BY <1>2, FreshExists
<1> HIDE DEF e
<1>4. shard \in Segment /\ OthersOK(shard, thread, {}) /\ thread \in Calls BY InvFields
<1>5. /\ Half(s, thread, e) /\ ~InLRU(s, e) /\ HeldOK(s.entry[e], thread, e)
      /\ \A f \in Entries \ {e} : Calm(shard, s, f)
  BY <1>2, <1>3, <1>4, InsertHalf
<1>6. /\ s \in Segment /\ s.entry[e] \in EntryRec /\ s.entry[e].alive /\ s.entry[e].key = k /\ s.entry[e].value = Null
      /\ ~s.entry[e].fetching /\ ~s.entry[e].setting /\ ~s.entry[e].evicted /\ s.entry[e].asleep = {}
  BY <1>2, <1>3, <1>4, InsertFields
<1> HIDE DEF s
<1>7. /\ p \in EntryRec /\ p.alive /\ p.key = k /\ p.value = Null /\ ~p.setting /\ ~p.evicted
      /\ p.waiters = s.entry[e].waiters + 1 /\ p.asleep = {}
  BY <1>6 DEF EntryRec
<1>8. Enter(s, e) = Put(s, e, p) BY DEF Enter, Put
<1> HIDE DEF p
<1>9. /\ q \in EntryRec /\ q.alive /\ q.key = k /\ q.value = Null /\ ~q.setting /\ ~q.evicted /\ q.fetching
      /\ q.waiters = s.entry[e].waiters + 1 /\ q.asleep = {}
  BY <1>7 DEF EntryRec
<1>10. shard' = Put(s, e, q)
  <2>1. Put(s, e, p).entry[e] = p BY <1>3, <1>6, <1>7, PutFields
  <2>2. [Put(s, e, p) EXCEPT !.entry[e].fetching = TRUE] = Put(Put(s, e, p), e, q) BY <2>1 DEF Put
  <2> HIDE DEF q
  <2> QED BY <1>1, <1>3, <1>6, <1>7, <1>8, <1>9, <2>2, PutPut
<1> HIDE DEF q
<1>11. PICK c \in ThreadRec :
           /\ thread' = [thread EXCEPT ![t] = c] /\ c.pc = "remote" /\ c.ent = e
           /\ c.op = thread[t].op /\ c.key = thread[t].key /\ c.val = thread[t].val
           /\ c.ok = thread[t].ok /\ c.seen = thread[t].seen
  BY <1>1, <1>3, <1>4, MoveIs DEF Pcs
<1>12. Joins(s, thread, t, e, c, q)
  <2>1. \A u \in Callers : thread[u].pc \in Working => thread[u].op \in {"get", "set"}
    BY InvFields DEF CallOK, Working
  <2> QED BY <1>2, <1>4, <1>5, <1>6, <1>9, <1>11, <2>1 DEF Joins
<1>13. /\ OthersOK(Put(s, e, q), thread', {}) /\ Put(s, e, q).entry[e] = q
       /\ InLRU(Put(s, e, q), e) <=> InLRU(s, e)
       /\ \A f \in Entries \ {e} : Calm(s, Put(s, e, q), f)
  <2> DEFINE w == [thread EXCEPT ![t] = c]
  <2>1. /\ OthersOK(Put(s, e, q), w, {}) /\ Put(s, e, q).entry[e] = q
        /\ (InLRU(Put(s, e, q), e) <=> InLRU(s, e))
        /\ \A f \in Entries \ {e} : Calm(s, Put(s, e, q), f)
    BY <1>3, <1>12, JoinWork
  <2> QED BY <1>11, <2>1
<1>14. /\ OthersOK(shard', thread', {}) /\ shard'.entry[e] = q /\ ~InLRU(shard', e)
       /\ \A f \in Entries \ {e} : Calm(shard, shard', f)
  BY <1>5, <1>10, <1>13, CalmTrans
<1>15. CallOK(c)
  <2>1. e # Null BY <1>3, NullFacts
  <2> QED BY <1>2, <1>11, <2>1 DEF CallOK, AtEntry
<1>16. LRUInv' BY <1>1, <1>11, <1>14, <1>15, StepInv
<1>17. ASSUME FreshInv, HasGetter, HasSetter PROVE FreshHere(t, c, e)
  <2>1. CallFresh(shard, store, thread[t]) BY <1>17 DEF FreshInv
  <2>2. CallFresh(shard', store, c) BY <1>2, <1>11, <2>1 DEF CallFresh, AtEntry
  <2>3. CachedFresh(shard', thread', store, e) BY <1>14 DEF CachedFresh
  <2> QED BY <1>9, <1>14, <2>2, <2>3 DEF FreshHere
<1>18. FreshInv => FreshInv'
  <2>1. thread[t].ent \in {e, Null} BY <1>2
  <2> QED BY <1>1, <1>3, <1>11, <1>14, <1>17, <2>1, StepFresh
<1> QED BY <1>16, <1>18 DEF Keeps

\* The answer of a get that finds its value in the map.
LEMMA HitReturns ==
  ASSUME thread \in Calls, NEW t \in Callers, NEW s, NEW e, s.entry[e].value \in Values \cup {Null},
         Hit(t, s, e)
  PROVE  /\ \/ shard' = Release(s, e)
            \/ ~s.entry[e].evicted /\ shard' = MoveToFront(s, e)
         /\ \E c \in ThreadRec :
              /\ thread' = [thread EXCEPT ![t] = c] /\ c.pc = "done" /\ c.ent = Null
              /\ c.op = thread[t].op /\ c.key = thread[t].key /\ c.seen = thread[t].seen
              /\ c.ret = "ok" => c.val = s.entry[e].value
<1> DEFINE v == s.entry[e].value
<1>1. \/ ~s.entry[e].evicted /\ shard' = Release(MoveToFront(s, e), e) /\ Answer(t, "ok", v)
      \/ shard' = Release(s, e) /\ Answer(t, "ok", v)
      \/ shard' = Release(s, e) /\ Answer(t, "mismatch", Null)
      \/ shard' = Release(s, e) /\ Answer(t, "nomem", Null)
  BY DEF Hit
<1>2. ASSUME ~s.entry[e].evicted PROVE Release(MoveToFront(s, e), e) = MoveToFront(s, e)
  <2>1. ~MoveToFront(s, e).entry[e].evicted BY <1>2 DEF MoveToFront
  <2> QED BY <2>1, ReleaseNot
<1> HIDE DEF v
<1>3. "ok" \in Rets /\ "mismatch" \in Rets /\ "nomem" \in Rets /\ v \in Values \cup {Null} /\ Null \in Values \cup {Null}
  BY DEF Rets, v
<1>4. ASSUME NEW ret \in Rets, NEW x \in Values \cup {Null}, Answer(t, ret, x), ret = "ok" => x = v
      PROVE  \E c \in ThreadRec :
               /\ thread' = [thread EXCEPT ![t] = c] /\ c.pc = "done" /\ c.ent = Null
               /\ c.op = thread[t].op /\ c.key = thread[t].key /\ c.seen = thread[t].seen
               /\ c.ret = "ok" => c.val = v
  <2>1. PICK c \in ThreadRec :
           /\ thread' = [thread EXCEPT ![t] = c] /\ c.pc = "done" /\ c.ent = Null
           /\ c.op = thread[t].op /\ c.key = thread[t].key /\ c.ret = ret /\ c.val = x
           /\ c.seen = thread[t].seen
    BY <1>4, AnswerIs
  <2> QED BY <1>4, <2>1
<1>5. \/ Answer(t, "ok", v)
      \/ Answer(t, "mismatch", Null)
      \/ Answer(t, "nomem", Null)
  BY <1>1
<1>6. \E c \in ThreadRec :
               /\ thread' = [thread EXCEPT ![t] = c] /\ c.pc = "done" /\ c.ent = Null
               /\ c.op = thread[t].op /\ c.key = thread[t].key /\ c.seen = thread[t].seen
               /\ c.ret = "ok" => c.val = v
  <2>1. CASE Answer(t, "ok", v) BY <1>3, <1>4, <2>1
  <2>2. CASE Answer(t, "mismatch", Null) BY <1>3, <1>4, <2>2
  <2>3. CASE Answer(t, "nomem", Null) BY <1>3, <1>4, <2>3
  <2> QED BY <1>5, <2>1, <2>2, <2>3
<1> QED BY <1>1, <1>2, <1>6 DEF v

LEMMA GetHitStep ==
  ASSUME LRUInv, NEW t \in Callers, GetHit(t)
  PROVE  Keeps
<1> DEFINE e == Found(t)
<1>1. AtLookup(t, "get") /\ e # Null /\ ~Busy(shard, e) /\ Hit(t, shard, e) /\ UNCHANGED <<store, cache>>
  BY DEF GetHit
<1>2. /\ thread[t].pc = "enter" /\ thread[t].op = "get" /\ thread[t].ent = Null /\ thread[t].key \in Keys
      /\ e = shard.map[thread[t].key] /\ e \in Entries
  BY <1>1, LookupFacts
<1> HIDE DEF e
<1>3. /\ thread \in Calls /\ OthersOK(shard, thread, {}) /\ EntryOK(shard, thread, e) /\ CallOK(thread[t])
      /\ shard.entry[e] \in EntryRec
  BY <1>2, InvFields
<1>4. shard.entry[e].alive /\ shard.entry[e].key = thread[t].key /\ ~shard.entry[e].evicted
  BY <1>1, <1>2, <1>3 DEF OthersOK, SegOK
<1>5. InLRU(shard, e) /\ shard.entry[e].value # Null BY <1>1, <1>3, <1>4 DEF EntryOK, PlaceOK
<1>6. shard.entry[e].value \in Values \cup {Null} BY <1>3, RecFields
<1>7. PICK c \in ThreadRec :
        /\ thread' = [thread EXCEPT ![t] = c] /\ c.pc = "done" /\ c.ent = Null
        /\ c.op = thread[t].op /\ c.key = thread[t].key /\ c.seen = thread[t].seen
        /\ c.ret = "ok" => c.val = shard.entry[e].value
  BY <1>1, <1>3, <1>4, <1>6, HitReturns
<1>8. /\ OthersOK(shard', thread, {}) /\ shard'.entry = shard.entry
      /\ \A f \in Entries : InLRU(shard', f) <=> InLRU(shard, f)
  <2>1. shard' \in {shard, MoveToFront(shard, e)} BY <1>1, <1>3, <1>4, <1>6, HitReturns, ReleaseNot
  <2>2. /\ OthersOK(MoveToFront(shard, e), thread, {}) /\ MoveToFront(shard, e).entry = shard.entry
        /\ \A f \in Entries : InLRU(MoveToFront(shard, e), f) <=> InLRU(shard, f)
    <3>1. OthersOK(shard, thread, {}) /\ InLRU(shard, e) /\ e \in Entries BY <1>2, <1>3, <1>5
    <3> QED BY <3>1, MovedToFront
  <2> QED BY <1>3, <2>1, <2>2
<1>9. OthersOK(shard', thread', {}) BY <1>2, <1>3, <1>7, <1>8, CallOthers
<1>10. CallOK(c) BY <1>2, <1>7 DEF CallOK, AtEntry
<1>11. LRUInv' BY <1>1, <1>7, <1>9, <1>10, StepInv
<1>12. \A f \in Entries : Calm(shard, shard', f) BY <1>8 DEF Calm
<1>13. ASSUME FreshInv, HasGetter, HasSetter PROVE FreshHere(t, c, Null)
  <2>1. CallFresh(shard, store, thread[t]) /\ CachedFresh(shard, thread, store, e) BY <1>2, <1>13 DEF FreshInv
  <2>2. ~ \E u \in Callers : thread[u].ent = e /\ thread[u].pc = "back" /\ thread[u].op = "set"
    BY <1>1, <1>3 DEF EntryOK, HeldOK, Busy, Working
  <2>3. shard.entry[e].value = store[thread[t].key] BY <1>4, <1>5, <2>1, <2>2 DEF CachedFresh
  <2>4. shard.entry[e].value \in thread[t].seen BY <1>2, <2>1, <2>3 DEF CallFresh
  <2>5. CallFresh(shard', store, c) BY <1>7, <2>4 DEF CallFresh, AtEntry
  <2> QED BY <2>5, NullFacts DEF FreshHere
<1>14. FreshInv => FreshInv'
  <2>1. thread[t].ent \in {Null, Null} BY <1>2
  <2> QED BY <1>1, <1>7, <1>9, <1>12, <1>13, <2>1, StepFresh
<1> QED BY <1>11, <1>14 DEF Keeps

\* A fetch is over: the entry is in the map still, without a value, and the
\* call that fetched lets go of it.
LEMMA FetchOver ==
  ASSUME LRUInv, NEW t \in Callers, thread[t].pc = "back", thread[t].op = "get", NEW e, e = thread[t].ent,
         NEW c \in ThreadRec, c.ent = Null, NEW w, w = [thread EXCEPT ![t] = c]
  PROVE  \E q \in EntryRec :
           /\ [Exit(shard, e) EXCEPT !.entry[e].fetching = FALSE] = Put(shard, e, q)
           /\ Half(Put(shard, e, q), w, e) /\ Put(shard, e, q).entry[e] = q /\ q.value = Null /\ q.key = thread[t].key
           /\ ~q.fetching /\ ~q.setting /\ e \in Entries
           /\ \A f \in Entries \ {e} : Calm(shard, Put(shard, e, q), f)
           /\ LetGo(q, w, e)
<1> DEFINE r == shard.entry[e]
           p == [r EXCEPT !.waiters = r.waiters - 1]
           q == [p EXCEPT !.fetching = FALSE]
           s == Put(shard, e, q)
<1>1. /\ thread \in Calls /\ OthersOK(shard, thread, {}) /\ CallOK(thread[t]) /\ shard \in Segment
      /\ thread[t] \in ThreadRec
  BY InvFields
<1>2. e \in Entries /\ e # Null BY <1>1, CallFields, NullFacts DEF CallOK, AtEntry
<1>3. HeldOK(r, thread, e) /\ PlaceOK(shard, e) /\ r \in EntryRec BY <1>2, InvFields DEF EntryOK
<1>4. r.alive /\ r.fetching /\ r.key = thread[t].key BY <1>3 DEF HeldOK, Working
<1>5. /\ ~r.evicted /\ ~r.setting /\ r.key \in Keys /\ shard.map[r.key] = e /\ ~InLRU(shard, e) /\ r.value = Null
  BY <1>3, <1>4, RecFields DEF PlaceOK
<1>6. /\ p \in EntryRec /\ p.alive = r.alive /\ p.key = r.key /\ p.value = r.value /\ p.evicted = r.evicted
      /\ p.setting = r.setting /\ p.waiters = r.waiters - 1
  BY <1>3 DEF EntryRec
<1>7. Exit(shard, e) = Put(shard, e, p) BY DEF Exit, Put
<1> HIDE DEF p
<1>8. /\ q \in EntryRec /\ q.alive = r.alive /\ q.key = r.key /\ q.value = r.value /\ q.evicted = r.evicted
      /\ q.setting = r.setting /\ q.waiters = r.waiters - 1 /\ ~q.fetching
  BY <1>6 DEF EntryRec
<1>9. [Exit(shard, e) EXCEPT !.entry[e].fetching = FALSE] = s
  <2>1. Put(shard, e, p).entry[e] = p BY <1>1, <1>2, <1>6, PutFields
  <2>2. [Put(shard, e, p) EXCEPT !.entry[e].fetching = FALSE] = Put(Put(shard, e, p), e, q) BY <2>1 DEF Put
  <2> HIDE DEF q
  <2> QED BY <1>1, <1>2, <1>6, <1>7, <1>8, <2>2, PutPut
<1> HIDE DEF q
<1>10. /\ s.map = shard.map /\ s.entry[e] = q /\ \A f \in Entries \ {e} : s.entry[f] = shard.entry[f]
       /\ \A f : InLRU(s, f) <=> InLRU(shard, f)
  BY <1>1, <1>2, <1>8, PutFields
<1>11. OthersOK(shard, w, {e})
  <2>1. OthersOK(shard, thread, {e}) BY <1>1 DEF OthersOK
  <2> QED BY <1>1, <2>1, CallOthers
<1>12. OthersOK(s, w, {e})
  <2>1. q \in EntryRec /\ q.alive /\ shard.entry[e].alive /\ ~q.evicted /\ q.key = shard.entry[e].key
    BY <1>4, <1>5, <1>8
  <2> QED BY <1>2, <1>11, <2>1, PutHalf
<1> HIDE DEF s
<1>13. Half(s, w, e) BY <1>4, <1>5, <1>8, <1>10, <1>12 DEF Half
<1>14. \A f \in Entries \ {e} : Calm(shard, s, f) BY <1>10 DEF Calm
<1>15. ASSUME NEW d \in EntryRec, d.alive, d.key = q.key, d.waiters = q.waiters, ~d.fetching, ~d.setting, d.asleep = {}
       PROVE  HeldOK(d, w, e)
  <2>1. d.key = r.key /\ d.waiters = r.waiters - 1 /\ c.ent # e BY <1>2, <1>8, <1>15
  <2>2. HeldOK(d, [thread EXCEPT ![t] = c], e) BY <1>1, <1>3, <1>15, <2>1, HeldLeave DEF Working
  <2> QED BY <2>2
<1>16. LetGo(q, w, e) BY <1>15 DEF LetGo
<1> QED BY <1>2, <1>4, <1>5, <1>8, <1>9, <1>10, <1>13, <1>14, <1>16 DEF s

\* The fetched value is published, and everybody wakes.
LEMMA FetchStores ==
  ASSUME NEW s, NEW th, NEW e \in Entries, Half(s, th, e), ~s.entry[e].fetching, ~s.entry[e].setting, NEW v \in Values,
         LetGo(s.entry[e], th, e)
  PROVE  LET z == Broadcast(StoreValue(s, e, v), e) IN
         /\ OthersOK(z, th, {}) /\ z.entry[e].value = v /\ z.entry[e].key = s.entry[e].key
         /\ \A f \in Entries \ {e} : Calm(s, z, f)
<1> DEFINE y == StoreValue(s, e, v)
           b == [y.entry[e] EXCEPT !.asleep = {}]
           z == Broadcast(y, e)
<1>1. /\ Half(y, th, e) /\ InLRU(y, e) /\ SameCall(s.entry[e], y.entry[e]) /\ y.entry[e].value = v
      /\ \A f \in Entries \ {e} : Calm(s, y, f)
  BY StoreHalf
<1> HIDE DEF y
<1>2. y.entry[e] \in EntryRec BY <1>1, SegFields DEF Half, OthersOK, SegOK
<1>3. /\ b \in EntryRec /\ b.alive = y.entry[e].alive /\ b.key = y.entry[e].key /\ b.value = y.entry[e].value
      /\ b.fetching = y.entry[e].fetching /\ b.evicted = y.entry[e].evicted /\ b.waiters = y.entry[e].waiters
      /\ b.setting = y.entry[e].setting /\ b.asleep = {}
  BY <1>2 DEF EntryRec
<1>4. z = Put(y, e, b) BY DEF Broadcast, Put
<1> HIDE DEF b
<1>5. b.alive /\ ~b.evicted /\ ~b.fetching /\ ~b.setting /\ b.key = s.entry[e].key /\ b.waiters = s.entry[e].waiters
  BY <1>1, <1>3 DEF SameCall, Half
<1>6. HeldOK(b, th, e) BY <1>3, <1>5 DEF LetGo
<1>7. OthersOK(Put(y, e, b), th, {}) /\ Put(y, e, b).entry[e] = b
      /\ \A f \in Entries \ {e} : Calm(y, Put(y, e, b), f)
  BY <1>1, <1>3, <1>5, <1>6, FinishIn
<1> HIDE DEF z
<1>8. \A f \in Entries \ {e} : Calm(s, z, f) BY <1>1, <1>4, <1>7, CalmTrans
<1> QED BY <1>1, <1>3, <1>4, <1>5, <1>7, <1>8 DEF z, y

\* A fetch that failed takes its placeholder out of the map.
LEMMA FetchFails ==
  ASSUME NEW s, NEW th, NEW e \in Entries, Half(s, th, e), ~s.entry[e].fetching, ~s.entry[e].setting,
         s.entry[e].value = Null, NEW m \in BOOLEAN,
         LetGo(s.entry[e], th, e)
  PROVE  LET z == Release(Unmap([s EXCEPT !.entry[e].failed = TRUE, !.entry[e].mismatch = m], e), e) IN
         /\ OthersOK(z, th, {}) /\ z.entry[e].value = Null /\ ~InLRU(z, e)
         /\ \A f \in Entries \ {e} : Calm(s, z, f)
<1> DEFINE r == s.entry[e]
           a == [r EXCEPT !.failed = TRUE]
           b == [a EXCEPT !.mismatch = m]
           y == Put(s, e, b)
           d == [b EXCEPT !.evicted = TRUE, !.asleep = {}]
           map == [y.map EXCEPT ![y.entry[e].key] = Null]
           x == Unmap(y, e)
           z == Release(x, e)
<1>1. s \in Segment /\ r \in EntryRec /\ OthersOK(s, th, {e}) BY SegFields DEF Half, OthersOK, SegOK
<1>2. /\ a \in EntryRec /\ a.alive = r.alive /\ a.key = r.key /\ a.value = r.value /\ a.evicted = r.evicted
      /\ a.fetching = r.fetching /\ a.setting = r.setting /\ a.waiters = r.waiters
  BY <1>1 DEF EntryRec
<1>3. [s EXCEPT !.entry[e].failed = TRUE, !.entry[e].mismatch = m] = y
  <2>1. [s EXCEPT !.entry[e].failed = TRUE, !.entry[e].mismatch = m]
          = [[s EXCEPT !.entry[e].failed = TRUE] EXCEPT !.entry[e].mismatch = m] BY Zenon
  <2>2. [s EXCEPT !.entry[e].failed = TRUE] = Put(s, e, a) BY DEF Put
  <2> HIDE DEF a
  <2>3. b \in EntryRec BY <1>2 DEF EntryRec
  <2>4. Put(s, e, a).entry[e] = a BY <1>1, <1>2, PutFields
  <2>5. [Put(s, e, a) EXCEPT !.entry[e].mismatch = m] = Put(Put(s, e, a), e, b) BY <2>4 DEF Put
  <2> HIDE DEF b
  <2>6. Put(Put(s, e, a), e, b) = Put(s, e, b) BY <1>1, <1>2, <2>3, PutPut
  <2> QED BY <2>1, <2>2, <2>5, <2>6
<1> HIDE DEF a
<1>4. /\ b \in EntryRec /\ b.alive = r.alive /\ b.key = r.key /\ b.value = r.value /\ b.evicted = r.evicted
      /\ b.fetching = r.fetching /\ b.setting = r.setting /\ b.waiters = r.waiters
  BY <1>2 DEF EntryRec
<1> HIDE DEF b
<1>5. /\ y \in Segment /\ y.map = s.map /\ y.lru = s.lru /\ y.size = s.size /\ y.entry[e] = b
      /\ \A f \in Entries \ {e} : y.entry[f] = s.entry[f]
      /\ \A f : InLRU(y, f) <=> InLRU(s, f)
  BY <1>1, <1>4, PutFields
<1>6. OthersOK(y, th, {e}) BY <1>1, <1>4, PutHalf DEF Half
<1> HIDE DEF y
<1>7. Half(y, th, e) /\ ~InLRU(y, e) BY <1>4, <1>5, <1>6 DEF Half
<1>8. x = [map |-> map, entry |-> [y.entry EXCEPT ![e] = d], lru |-> y.lru, size |-> y.size]
  BY <1>5, <1>7, UnmapFields DEF Half
<1>9. /\ d \in EntryRec /\ d.evicted /\ d.asleep = {} /\ d.value = b.value /\ d.fetching = b.fetching
      /\ d.setting = b.setting /\ d.alive = b.alive /\ d.key = b.key /\ d.waiters = b.waiters
  BY <1>4 DEF EntryRec
<1> HIDE DEF d, x
<1>10. /\ map \in [Keys -> Entries \cup {Null}] /\ [y.entry EXCEPT ![e] = d] \in [Entries -> EntryRec]
       /\ y.lru \in Seq(Entries) /\ y.size \in Int
  BY <1>5, <1>9, SegFields
<1>11. x \in Segment /\ x.map = map /\ x.entry = [y.entry EXCEPT ![e] = d] /\ x.lru = y.lru /\ x.size = y.size
  <2> HIDE DEF map
  <2> QED BY <1>8, <1>10, SegIs
<1>12. HeldOK(d, th, e) BY <1>4, <1>9 DEF Half, LetGo
<1>13. Unmaps(y, th, e, d, x) BY <1>4, <1>5, <1>7, <1>9, <1>11, <1>12 DEF Unmaps, Half
<1>14. /\ OthersOK(z, th, {}) /\ z.entry[e] \in {d, Freed} /\ ~InLRU(z, e) /\ \A f \in Entries \ {e} : Calm(y, z, f)
  BY <1>7, <1>13, FinishOut
<1> HIDE DEF z
<1>15. \A f \in Entries \ {e} : Calm(s, y, f) BY <1>5 DEF Calm
<1>16. \A f \in Entries \ {e} : Calm(s, z, f) BY <1>14, <1>15, CalmTrans
<1>17. z.entry[e].value = Null BY <1>4, <1>9, <1>14, FreedFacts
<1> QED BY <1>3, <1>14, <1>16, <1>17 DEF z, x

LEMMA FetchDoneStep ==
  ASSUME LRUInv, NEW t \in Callers, FetchDone(t)
  PROVE  Keeps
<1> DEFINE e == thread[t].ent
           v == thread[t].val
           s == [Exit(shard, e) EXCEPT !.entry[e].fetching = FALSE]
<1>1. /\ thread[t].pc = "back" /\ thread[t].op = "get" /\ UNCHANGED <<store, cache>>
      /\ \/ /\ v # Null /\ shard' = Broadcast(StoreValue(s, e, v), e)
            /\ Answer(t, "ok", v) \/ Answer(t, "nomem", Null)
         \/ /\ shard' = Release(Unmap([s EXCEPT !.entry[e].failed = TRUE, !.entry[e].mismatch = v # Null], e), e)
            /\ Answer(t, IF v = Null THEN "notfound" ELSE "mismatch", Null)
  BY DEF FetchDone, Fits
<1>2. /\ thread \in Calls /\ CallOK(thread[t]) /\ thread[t] \in ThreadRec BY InvFields
<1>3. v \in Values \cup {Null} BY <1>2, CallFields
<1> HIDE DEF v
<1>4. PICK c \in ThreadRec :
        /\ thread' = [thread EXCEPT ![t] = c] /\ c.pc = "done" /\ c.ent = Null
        /\ c.op = thread[t].op /\ c.key = thread[t].key /\ c.seen = thread[t].seen
        /\ c.ret = "ok" => c.val = v /\ v # Null
  <2>1. "ok" \in Rets /\ "mismatch" \in Rets /\ "nomem" \in Rets /\ "notfound" \in Rets /\ Null \in Values \cup {Null}
    BY DEF Rets
  <2>2. CASE Answer(t, "ok", v) /\ v # Null BY <1>2, <1>3, <2>1, <2>2, AnswerIs
  <2>3. ASSUME NEW ret \in {"nomem", "notfound", "mismatch"}, Answer(t, ret, Null)
        PROVE  \E c \in ThreadRec :
                 /\ thread' = [thread EXCEPT ![t] = c] /\ c.pc = "done" /\ c.ent = Null
                 /\ c.op = thread[t].op /\ c.key = thread[t].key /\ c.seen = thread[t].seen
                 /\ c.ret # "ok"
    <3>1. PICK c \in ThreadRec :
           /\ thread' = [thread EXCEPT ![t] = c] /\ c.pc = "done" /\ c.ent = Null
           /\ c.op = thread[t].op /\ c.key = thread[t].key /\ c.ret = ret
           /\ c.seen = thread[t].seen
      BY <1>2, <2>1, <2>3, AnswerIs
    <3> QED BY <3>1
  <2>4. (IF v = Null THEN "notfound" ELSE "mismatch") \in {"notfound", "mismatch"} OBVIOUS
  <2> QED BY <1>1, <2>2, <2>3, <2>4
<1>5. PICK q \in EntryRec :
           /\ s = Put(shard, e, q)
           /\ Half(Put(shard, e, q), thread', e) /\ Put(shard, e, q).entry[e] = q /\ q.value = Null /\ q.key = thread[t].key
           /\ ~q.fetching /\ ~q.setting /\ e \in Entries
           /\ \A f \in Entries \ {e} : Calm(shard, Put(shard, e, q), f)
           /\ LetGo(q, thread', e)
  BY <1>1, <1>4, FetchOver
<1>6. /\ Half(s, thread', e) /\ ~s.entry[e].fetching /\ ~s.entry[e].setting /\ s.entry[e].value = Null
      /\ s.entry[e].key = thread[t].key /\ e \in Entries /\ \A f \in Entries \ {e} : Calm(shard, s, f)
      /\ LetGo(s.entry[e], thread', e)
  BY <1>5
<1> HIDE DEF s, e
<1>7. /\ OthersOK(shard', thread', {}) /\ \A f \in Entries \ {e} : Calm(shard, shard', f)
      /\ shard'.entry[e].value # Null => v # Null /\ shard'.entry[e].value = v
      /\ InLRU(shard', e) => v # Null /\ shard'.entry[e].value = v /\ shard'.entry[e].key = thread[t].key
  <2>1. CASE v # Null /\ shard' = Broadcast(StoreValue(s, e, v), e)
    <3> DEFINE z == Broadcast(StoreValue(s, e, v), e)
    <3>1. /\ OthersOK(z, thread', {}) /\ z.entry[e].value = v /\ z.entry[e].key = s.entry[e].key
          /\ \A f \in Entries \ {e} : Calm(s, z, f)
      BY <1>3, <1>6, <2>1, FetchStores
    <3> HIDE DEF z
    <3>2. shard' = z BY <2>1 DEF z
    <3>3. \A f \in Entries \ {e} : Calm(shard, shard', f) BY <1>6, <3>1, <3>2, CalmTrans
    <3> QED BY <1>6, <2>1, <3>1, <3>2, <3>3
  <2>2. CASE shard' = Release(Unmap([s EXCEPT !.entry[e].failed = TRUE, !.entry[e].mismatch = v # Null], e), e)
    <3> DEFINE m == v # Null
               z == Release(Unmap([s EXCEPT !.entry[e].failed = TRUE, !.entry[e].mismatch = m], e), e)
    <3>1. m \in BOOLEAN /\ shard' = z BY <2>2
    <3> HIDE DEF m
    <3>2. /\ OthersOK(z, thread', {}) /\ z.entry[e].value = Null /\ ~InLRU(z, e)
          /\ \A f \in Entries \ {e} : Calm(s, z, f)
      BY <1>6, <3>1, FetchFails
    <3> HIDE DEF z
    <3>3. \A f \in Entries \ {e} : Calm(shard, shard', f) BY <1>6, <3>1, <3>2, CalmTrans
    <3> QED BY <3>1, <3>2, <3>3
  <2> QED BY <1>1, <2>1, <2>2
<1>8. CallOK(c) BY <1>1, <1>2, <1>4 DEF CallOK, AtEntry
<1>9. LRUInv' BY <1>1, <1>4, <1>7, <1>8, StepInv
<1>10. ASSUME FreshInv, HasGetter, HasSetter PROVE FreshHere(t, c, e)
  <2>1. \A u \in Callers : CallFresh(shard, store, thread[u]) BY <1>10 DEF FreshInv
  <2>2. v # Null => v = store[thread[t].key] BY <1>1, <2>1 DEF CallFresh, v
  <2>3. CallFresh(shard', store, c) BY <1>1, <1>4, <2>1, <2>2 DEF CallFresh, AtEntry
  <2>4. CachedFresh(shard', thread', store, e) BY <1>7, <2>2 DEF CachedFresh
  <2>5. ASSUME NEW u \in Callers, thread[u].ent = e, thread[u].pc = "wait", shard'.entry[e].value # Null
        PROVE  shard'.entry[e].value \in thread[u].seen
    <3>1. HeldOK(shard.entry[e], thread, e) BY <1>6, InvFields DEF EntryOK
    <3>2. thread[u].key = thread[t].key BY <2>5, <3>1 DEF HeldOK, e
    <3> QED BY <1>7, <2>1, <2>2, <2>5, <3>2 DEF CallFresh, AtEntry
  <2> QED BY <2>3, <2>4, <2>5 DEF FreshHere
<1>11. FreshInv => FreshInv'
  <2>1. thread[t].ent \in {e, Null} /\ e \in Entries \cup {Null} BY <1>6 DEF e
  <2> QED BY <1>1, <1>4, <1>7, <1>10, <2>1, StepFresh
<1> QED BY <1>9, <1>11 DEF Keeps

\* A set is over.
LEMMA SetDoneStep ==
  ASSUME LRUInv, NEW t \in Callers, SetDone(t)
  PROVE  Keeps
<1> DEFINE e == thread[t].ent
           v == thread[t].val
           ok == thread[t].ok
           r == shard.entry[e]
           p == [r EXCEPT !.waiters = r.waiters - 1]
           s == Put(shard, e, p)
           z == EndSet(s, e, v, ok)
<1>1. /\ thread[t].pc = "back" /\ thread[t].op = "set" /\ UNCHANGED <<store, cache>>
      /\ shard' = EndSet(Exit(shard, e), e, v, ok)
      /\ Answer(t, IF ok THEN "ok" ELSE "failed", Null)
  BY DEF SetDone
<1>2. /\ thread \in Calls /\ OthersOK(shard, thread, {}) /\ CallOK(thread[t]) /\ shard \in Segment
      /\ thread[t] \in ThreadRec
  BY InvFields
<1>3. e \in Entries /\ e # Null /\ ok \in BOOLEAN /\ v \in Values
  BY <1>1, <1>2, CallFields, NullFacts DEF CallOK, AtEntry
<1>4. HeldOK(r, thread, e) /\ PlaceOK(shard, e) /\ r \in EntryRec BY <1>3, InvFields DEF EntryOK
<1>5. r.alive /\ r.setting /\ r.key = thread[t].key BY <1>1, <1>4 DEF HeldOK, Working
<1>6. /\ ~r.evicted /\ ~r.fetching /\ r.key \in Keys /\ shard.map[r.key] = e
      /\ InLRU(shard, e) <=> r.value # Null
  BY <1>4, <1>5, RecFields DEF PlaceOK
<1>7. /\ p \in EntryRec /\ p.alive = r.alive /\ p.key = r.key /\ p.value = r.value /\ p.evicted = r.evicted
      /\ p.setting = r.setting /\ p.fetching = r.fetching /\ p.waiters = r.waiters - 1
  BY <1>4 DEF EntryRec
<1>8. shard' = z BY <1>1 DEF Exit, Put
<1> HIDE DEF p
<1>9. PICK c \in ThreadRec :
        /\ thread' = [thread EXCEPT ![t] = c] /\ c.pc = "done" /\ c.ent = Null
        /\ c.op = thread[t].op /\ c.key = thread[t].key /\ c.seen = thread[t].seen
  <2>1. (IF ok THEN "ok" ELSE "failed") \in Rets /\ Null \in Values \cup {Null} BY DEF Rets
  <2> QED BY <1>1, <1>2, <2>1, AnswerIs
<1>10. /\ s.map = shard.map /\ s.entry[e] = p /\ \A f \in Entries \ {e} : s.entry[f] = shard.entry[f]
       /\ \A f : InLRU(s, f) <=> InLRU(shard, f)
  BY <1>2, <1>3, <1>7, PutFields
<1> DEFINE w == [thread EXCEPT ![t] = c]
<1>11. OthersOK(shard, w, {e})
  <2>1. OthersOK(shard, thread, {e}) BY <1>2 DEF OthersOK
  <2>2. thread[t].ent \in {e} \cup {Null} /\ c.ent \in {e} \cup {Null} BY <1>9
  <2> QED BY <1>2, <2>1, <2>2, CallOthers
<1>12. OthersOK(s, w, {e})
  <2>1. p \in EntryRec /\ p.alive /\ shard.entry[e].alive /\ ~p.evicted /\ p.key = shard.entry[e].key
    BY <1>5, <1>6, <1>7
  <2> HIDE DEF w
  <2> QED BY <1>3, <1>11, <2>1, PutHalf
<1>13. Half(s, w, e)
  <2> HIDE DEF s, w
  <2> QED BY <1>5, <1>6, <1>7, <1>10, <1>12 DEF Half
<1>14. LetGo(p, w, e)
  <2>1. ASSUME NEW d \in EntryRec, d.alive, d.key = p.key, d.waiters = p.waiters, ~d.fetching, ~d.setting, d.asleep = {}
        PROVE  HeldOK(d, w, e)
    <3>1. d.key = r.key /\ d.waiters = r.waiters - 1 /\ c.ent # e /\ thread[t].ent = e BY <1>3, <1>7, <1>9, <2>1
    <3>2. d.asleep \subseteq r.asleep /\ t \notin d.asleep BY <2>1
    <3> HIDE DEF e, r
    <3> QED BY <1>1, <1>2, <1>4, <2>1, <3>1, <3>2, HeldLeave DEF Working
  <2> HIDE DEF w, e
  <2> QED BY <2>1 DEF LetGo
<1> HIDE DEF s
<1>15. /\ OthersOK(z, w, {}) /\ (ok => z.entry[e].value = v) /\ (~ok => z.entry[e].value \in {p.value, Null})
       /\ (~ok => (InLRU(z, e) => InLRU(s, e))) /\ (z.entry[e].alive => z.entry[e].key = p.key)
       /\ \A f \in Entries \ {e} : Calm(s, z, f)
  <2> HIDE DEF w, e, v, ok
  <2>1. s.entry[e].setting /\ ~s.entry[e].fetching /\ LetGo(s.entry[e], w, e) /\ s.entry[e] = p
    BY <1>5, <1>6, <1>7, <1>10, <1>14
  <2> QED BY <1>3, <1>13, <2>1, EndSetOK
<1> HIDE DEF z
<1>16. OthersOK(shard', thread', {}) BY <1>8, <1>9, <1>15
<1>17. \A f \in Entries \ {e} : Calm(shard, shard', f)
  <2>1. \A f \in Entries \ {e} : Calm(shard, s, f) BY <1>10 DEF Calm
  <2> QED BY <1>8, <1>15, <2>1, CalmTrans
<1>18. CallOK(c) BY <1>1, <1>2, <1>9 DEF CallOK, AtEntry
<1>19. LRUInv' BY <1>1, <1>9, <1>16, <1>18, StepInv
<1>20. ASSUME FreshInv, HasGetter, HasSetter PROVE FreshHere(t, c, e)
  <2>1. /\ \A u \in Callers : CallFresh(shard, store, thread[u]) /\ CachedFresh(shard, thread, store, e)
    BY <1>3, <1>20 DEF FreshInv
  <2>2. CallFresh(shard', store, c) BY <1>1, <1>9 DEF CallFresh, AtEntry
  <2>3. ok => v = store[thread[t].key] BY <1>1, <2>1 DEF CallFresh
  <2>4. ~ok /\ r.value # Null => r.value = store[thread[t].key]
    <3>1. \A u \in Callers : thread[u].ent = e /\ thread[u].pc = "back" => u = t
      BY <1>1, <1>4 DEF HeldOK, Working
    <3> QED BY <1>5, <1>6, <2>1, <3>1 DEF CachedFresh
  <2>5. /\ shard'.entry[e].value # Null => shard'.entry[e].value = store[thread[t].key]
        /\ shard'.entry[e].alive => shard'.entry[e].key = thread[t].key
    <3>1. p.value = r.value /\ p.key = thread[t].key BY <1>5, <1>7
    <3> HIDE DEF e, r, v, ok
    <3> QED BY <1>3, <1>8, <1>15, <2>3, <2>4, <3>1
  <2>6. CachedFresh(shard', thread', store, e)
    <3>1. PlaceOK(shard', e) BY <1>3, <1>16 DEF OthersOK, EntryOK
    <3> QED BY <2>5, <3>1 DEF CachedFresh, PlaceOK
  <2>7. ASSUME NEW u \in Callers, thread[u].ent = e, thread[u].pc = "wait", shard'.entry[e].value # Null
        PROVE  shard'.entry[e].value \in thread[u].seen
    <3>1. thread[u].key = thread[t].key BY <1>4, <1>5, <2>7 DEF HeldOK
    <3> QED BY <2>1, <2>5, <2>7, <3>1 DEF CallFresh, AtEntry
  <2> QED BY <2>2, <2>6, <2>7 DEF FreshHere
<1>21. FreshInv => FreshInv'
  <2>1. thread[t].ent \in {e, Null} /\ e \in Entries \cup {Null} BY <1>3
  <2> HIDE DEF e
  <2> QED BY <1>1, <1>9, <1>16, <1>17, <1>20, <2>1, StepFresh
<1> QED BY <1>19, <1>21 DEF Keeps

\* A set that has found, or made, an entry nobody works on: th is thread, but
\* for the entry the call itself may have waited for.
Takes(t, s, th, e) ==
  /\ Half(s, th, e) /\ HeldOK(s.entry[e], th, e) /\ th \in Calls /\ th[t].ent = Null
  /\ th[t].op = "set" /\ \A u \in Callers \ {t} : th[u] = thread[u]
  /\ ~s.entry[e].fetching /\ ~s.entry[e].setting /\ s.entry[e].asleep = {} /\ s.entry[e].key = thread[t].key
  /\ thread[t].op = "set" /\ thread[t].pc \in {"enter", "wait"} /\ thread[t].ent \in {e, Null}
  /\ \A f \in Entries \ {e} : Calm(shard, s, f)
  /\ HasGetter /\ HasSetter /\ FreshInv => CachedFresh(s, th, store, e)

LEMMA SettingIs ==
  ASSUME NEW s \in Segment, NEW e \in Entries
  PROVE  \E a \in EntryRec :
           /\ [s EXCEPT !.entry[e].setting = TRUE] = Put(s, e, a)
           /\ a.alive = s.entry[e].alive /\ a.key = s.entry[e].key /\ a.value = s.entry[e].value
           /\ a.evicted = s.entry[e].evicted /\ a.fetching = s.entry[e].fetching /\ a.setting
           /\ a.waiters = s.entry[e].waiters /\ a.asleep = s.entry[e].asleep
<1> DEFINE a == [s.entry[e] EXCEPT !.setting = TRUE]
<1>1. s.entry[e] \in EntryRec BY SegFields
<1>2. /\ a \in EntryRec
      /\ a.alive = s.entry[e].alive /\ a.key = s.entry[e].key /\ a.value = s.entry[e].value
      /\ a.evicted = s.entry[e].evicted /\ a.fetching = s.entry[e].fetching /\ a.setting
      /\ a.waiters = s.entry[e].waiters /\ a.asleep = s.entry[e].asleep
  BY <1>1 DEF EntryRec
<1>3. [s EXCEPT !.entry[e].setting = TRUE] = Put(s, e, a) BY DEF Put
<1> HIDE DEF a
<1> QED BY <1>2, <1>3

\* With a setter, the set goes on to the remote store.
LEMMA BeginRemote ==
  ASSUME LRUInv, NEW t \in Callers, NEW s, NEW th, NEW e \in Entries, Takes(t, s, th, e),
         shard' = Enter([s EXCEPT !.entry[e].setting = TRUE], e), Move(t, "remote", e), UNCHANGED <<store, cache>>
  PROVE  Keeps
<1>1. /\ thread \in Calls /\ CallOK(thread[t]) /\ s \in Segment /\ th \in Calls
      /\ e # Null /\ \A f \in Entries \ {e} : Calm(shard, s, f)
  BY InvFields, NullFacts DEF Takes, Half, OthersOK, SegOK
<1>2. PICK a \in EntryRec :
           /\ [s EXCEPT !.entry[e].setting = TRUE] = Put(s, e, a)
           /\ a.alive = s.entry[e].alive /\ a.key = s.entry[e].key /\ a.value = s.entry[e].value
           /\ a.evicted = s.entry[e].evicted /\ a.fetching = s.entry[e].fetching /\ a.setting
           /\ a.waiters = s.entry[e].waiters /\ a.asleep = s.entry[e].asleep
  BY <1>1, SettingIs
<1> DEFINE q == [a EXCEPT !.waiters = a.waiters + 1]
<1>3. /\ q \in EntryRec
      /\ q.alive = s.entry[e].alive /\ q.key = s.entry[e].key /\ q.value = s.entry[e].value
      /\ q.evicted = s.entry[e].evicted /\ q.fetching = s.entry[e].fetching /\ q.setting
      /\ q.waiters = s.entry[e].waiters + 1 /\ q.asleep = s.entry[e].asleep
  BY <1>2 DEF EntryRec
<1>4. shard' = Put(s, e, q)
  <2>1. Put(s, e, a).entry[e] = a BY <1>1, <1>2, PutFields
  <2>2. Enter(Put(s, e, a), e) = Put(Put(s, e, a), e, q) BY <2>1 DEF Enter, Put
  <2> HIDE DEF q
  <2>3. Put(Put(s, e, a), e, q) = Put(s, e, q) BY <1>1, <1>2, <1>3, PutPut
  <2> QED BY <1>2, <2>2, <2>3
<1> HIDE DEF q
<1>5. PICK c \in ThreadRec :
           /\ thread' = [thread EXCEPT ![t] = c] /\ c.pc = "remote" /\ c.ent = e
           /\ c.op = thread[t].op /\ c.key = thread[t].key /\ c.val = thread[t].val
           /\ c.ok = thread[t].ok /\ c.seen = thread[t].seen
  BY <1>1, MoveIs DEF Pcs
<1> DEFINE w == [th EXCEPT ![t] = c]
<1>6. thread' = w BY <1>1, <1>5 DEF Takes, Calls
<1>7. Joins(s, th, t, e, c, q)
  <2>1. \A u \in Callers : th[u].pc \in Working => th[u].op \in {"get", "set"}
    <3>1. \A u \in Callers \ {t} : CallOK(th[u]) BY InvFields DEF Takes
    <3>2. \A u \in Callers \ {t} : th[u].pc \in Working => th[u].op \in {"get", "set"}
      BY <3>1 DEF CallOK, Working
    <3>3. th[t].op = "set" BY DEF Takes
    <3> QED BY <3>2, <3>3
  <2>2. /\ Half(s, th, e) /\ HeldOK(s.entry[e], th, e) /\ th[t].ent = Null /\ s.entry[e].alive /\ ~s.entry[e].evicted
        /\ ~s.entry[e].fetching /\ ~s.entry[e].setting /\ s.entry[e].asleep = {} /\ s.entry[e].key = thread[t].key
        /\ thread[t].op = "set"
    BY DEF Takes, Half
  <2> QED BY <1>1, <1>3, <1>5, <2>1, <2>2 DEF Joins
<1>8. /\ OthersOK(Put(s, e, q), w, {}) /\ Put(s, e, q).entry[e] = q
      /\ (InLRU(Put(s, e, q), e) <=> InLRU(s, e))
      /\ \A f \in Entries \ {e} : Calm(s, Put(s, e, q), f)
  BY <1>7, JoinWork
<1>9. /\ OthersOK(shard', thread', {}) /\ shard'.entry[e] = q /\ (InLRU(shard', e) <=> InLRU(s, e))
      /\ \A f \in Entries \ {e} : Calm(shard, shard', f)
  BY <1>1, <1>4, <1>6, <1>8, CalmTrans
<1>10. CallOK(c)
  <2>1. thread[t].pc \in {"enter", "wait"} /\ thread[t].op = "set" BY DEF Takes
  <2> QED BY <1>1, <1>5, <2>1 DEF CallOK, AtEntry
<1>11. LRUInv' BY <1>5, <1>9, <1>10, StepInv
<1>12. ASSUME FreshInv, HasGetter, HasSetter PROVE FreshHere(t, c, e)
  <2>1. CallFresh(shard, store, thread[t]) /\ CachedFresh(s, th, store, e) BY <1>12 DEF FreshInv, Takes
  <2>2. CallFresh(shard', store, c) BY <1>5, <2>1 DEF CallFresh, AtEntry, Takes
  <2>3. ~ \E u \in Callers : th[u].ent = e /\ th[u].pc = "back" /\ th[u].op = "set"
    BY DEF Takes, HeldOK, Working
  <2>4. CachedFresh(shard', thread', store, e) BY <1>3, <1>9, <2>1, <2>3 DEF CachedFresh
  <2>5. Busy(shard', e) BY <1>3, <1>9 DEF Busy
  <2> QED BY <2>2, <2>4, <2>5 DEF FreshHere
<1>13. FreshInv => FreshInv'
  <2>1. thread[t].ent \in {e, Null} BY DEF Takes
  <2> HIDE DEF w
  <2> QED BY <1>5, <1>9, <1>12, <2>1, StepFresh
<1> QED BY <1>11, <1>13 DEF Keeps

\* Without one it ends here.
LEMMA BeginLocal ==
  ASSUME LRUInv, NEW t \in Callers, NEW s, NEW th, NEW e \in Entries, Takes(t, s, th, e), ~HasSetter,
         shard' = EndSet([s EXCEPT !.entry[e].setting = TRUE], e, thread[t].val, TRUE), Answer(t, "ok", Null),
         UNCHANGED <<store, cache>>
  PROVE  Keeps
<1> DEFINE v == thread[t].val
<1>1. /\ thread \in Calls /\ CallOK(thread[t]) /\ s \in Segment /\ th \in Calls /\ e # Null /\ v \in Values
  BY InvFields, NullFacts DEF Takes, Half, OthersOK, SegOK, CallOK, AtEntry
<1>2. PICK a \in EntryRec :
           /\ [s EXCEPT !.entry[e].setting = TRUE] = Put(s, e, a)
           /\ a.alive = s.entry[e].alive /\ a.key = s.entry[e].key /\ a.value = s.entry[e].value
           /\ a.evicted = s.entry[e].evicted /\ a.fetching = s.entry[e].fetching /\ a.setting
           /\ a.waiters = s.entry[e].waiters /\ a.asleep = s.entry[e].asleep
  BY <1>1, SettingIs
<1> DEFINE x == Put(s, e, a)
           z == EndSet(x, e, v, TRUE)
<1>3. shard' = z BY <1>2
<1>4. PICK c \in ThreadRec :
        /\ thread' = [thread EXCEPT ![t] = c] /\ c.pc = "done" /\ c.ent = Null
        /\ c.op = thread[t].op /\ c.key = thread[t].key /\ c.seen = thread[t].seen
  <2>1. "ok" \in Rets /\ Null \in Values \cup {Null} BY DEF Rets
  <2> QED BY <1>1, <2>1, AnswerIs
<1> DEFINE w == [th EXCEPT ![t] = c]
<1>5. thread' = w BY <1>1, <1>4 DEF Takes, Calls
<1>6. OthersOK(s, w, {e})
  <2>1. OthersOK(s, th, {e}) /\ th[t].ent \in {e} \cup {Null} BY DEF Takes, Half
  <2> QED BY <1>1, <1>4, <2>1, CallOthers
<1>7. w[t] = c /\ \A u \in Callers \ {t} : w[u] = th[u] BY <1>1, <1>4 DEF Calls
<1> HIDE DEF w
<1>8. /\ s.entry[e].alive /\ ~s.entry[e].evicted /\ s.entry[e].key \in Keys /\ s.map[s.entry[e].key] = e
      /\ (InLRU(s, e) <=> s.entry[e].value # Null) /\ ~s.entry[e].fetching /\ ~s.entry[e].setting
      /\ s.entry[e].asleep = {} /\ HeldOK(s.entry[e], th, e) /\ th[t].ent = Null
  BY DEF Takes, Half
<1>9. /\ x.map = s.map /\ x.entry[e] = a /\ \A f \in Entries \ {e} : x.entry[f] = s.entry[f]
      /\ \A f : InLRU(x, f) <=> InLRU(s, f)
  BY <1>1, <1>2, PutFields
<1>10. OthersOK(x, w, {e}) BY <1>2, <1>6, <1>8, PutHalf
<1> HIDE DEF x
<1>11. Half(x, w, e) BY <1>2, <1>8, <1>9, <1>10 DEF Half
<1>12. LetGo(a, w, e)
  <2>1. ASSUME NEW d \in EntryRec, d.alive, d.key = a.key, d.waiters = a.waiters, ~d.fetching, ~d.setting, d.asleep = {}
        PROVE  HeldOK(d, w, e)
    <3> DEFINE r == s.entry[e]
    <3>1. r \in EntryRec BY <1>1, SegFields
    <3>2. d.alive = r.alive /\ d.fetching = r.fetching /\ d.setting = r.setting /\ d.key = r.key /\ d.waiters = r.waiters
      BY <1>2, <1>8, <2>1, <3>1, RecFields
    <3>3. \A u \in Callers : (th[u].ent = e <=> w[u].ent = e) /\ (th[u].ent = e => w[u] = th[u])
      BY <1>1, <1>4, <1>7, <1>8
    <3>4. HeldOK(r, th, e) /\ r.asleep \subseteq Callers /\ \A u \in d.asleep : FALSE BY <1>8, <2>1
    <3> HIDE DEF r
    <3> QED BY <3>2, <3>3, <3>4, HeldSame
  <2> QED BY <2>1 DEF LetGo
<1>13. OthersOK(z, w, {})
  <2>1. x.entry[e].setting /\ ~x.entry[e].fetching /\ LetGo(x.entry[e], w, e) BY <1>2, <1>8, <1>9, <1>12
  <2> HIDE DEF v
  <2> QED BY <1>1, <1>11, <2>1, EndSetOK
<1> HIDE DEF z
<1>14. OthersOK(shard', thread', {}) BY <1>3, <1>5, <1>13
<1>15. CallOK(c)
  <2>1. thread[t].pc \in {"enter", "wait"} /\ thread[t].op = "set" BY DEF Takes
  <2> QED BY <1>1, <1>4, <2>1 DEF CallOK, AtEntry
<1>16. LRUInv' BY <1>4, <1>14, <1>15, StepInv
<1>17. FreshInv' BY DEF FreshInv, HasSetter
<1> QED BY <1>16, <1>17 DEF Keeps

LEMMA BeginSetStep ==
  ASSUME LRUInv, NEW t \in Callers, NEW s, NEW th, NEW e \in Entries, Takes(t, s, th, e), BeginSet(t, s, e),
         UNCHANGED <<store, cache>>
  PROVE  Keeps
<1>1. \/ /\ HasSetter /\ shard' = Enter([s EXCEPT !.entry[e].setting = TRUE], e)
         /\ Move(t, "remote", e)
      \/ /\ ~HasSetter /\ shard' = EndSet([s EXCEPT !.entry[e].setting = TRUE], e, thread[t].val, TRUE)
         /\ Answer(t, "ok", Null)
  BY DEF BeginSet
<1> QED BY <1>1, BeginRemote, BeginLocal

\* A set that finds its key free, or nobody at work on it.
LEMMA SetEntryStep ==
  ASSUME LRUInv, NEW t \in Callers, SetEntry(t)
  PROVE  Keeps
<1> DEFINE k == thread[t].key
<1>1. AtLookup(t, "set") /\ UNCHANGED <<store, cache>> BY DEF SetEntry
<1>2. /\ thread[t].pc = "enter" /\ thread[t].op = "set" /\ thread[t].ent = Null /\ k \in Keys
      /\ Found(t) = shard.map[k] /\ Found(t) \in Entries \cup {Null}
  BY <1>1, LookupFacts
<1>3. shard \in Segment /\ OthersOK(shard, thread, {}) /\ thread \in Calls BY InvFields
<1>4. CASE Found(t) = Null
  <2> DEFINE e == FreshEntry(shard)
             s == Insert(shard, k, e)
  <2>1. BeginSet(t, s, e) BY <1>4 DEF SetEntry
  <2>2. e \in Entries /\ ~shard.entry[e].alive BY <1>2, <1>4, FreshExists
  <2> HIDE DEF e
  <2>3. /\ Half(s, thread, e) /\ ~InLRU(s, e) /\ HeldOK(s.entry[e], thread, e)
        /\ \A f \in Entries \ {e} : Calm(shard, s, f)
    BY <1>2, <1>3, <1>4, <2>2, InsertHalf
  <2>4. /\ s.entry[e].key = k /\ ~s.entry[e].fetching /\ ~s.entry[e].setting /\ s.entry[e].asleep = {}
    BY <1>2, <1>3, <2>2, InsertFields
  <2> HIDE DEF s
  <2>5. CachedFresh(s, thread, store, e) BY <2>3 DEF CachedFresh
  <2>6. Takes(t, s, thread, e) BY <1>2, <1>3, <2>3, <2>4, <2>5 DEF Takes
  <2> QED BY <1>1, <2>1, <2>2, <2>6, BeginSetStep
<1>5. CASE Found(t) # Null
  <2> DEFINE e == Found(t)
  <2>1. ~Busy(shard, e) /\ BeginSet(t, shard, e) BY <1>5 DEF SetEntry
  <2>2. e \in Entries /\ shard.map[k] = e BY <1>2, <1>5
  <2> HIDE DEF e
  <2>3. EntryOK(shard, thread, e) BY <2>2, InvFields
  <2>4. shard.entry[e].alive /\ shard.entry[e].key = k /\ ~shard.entry[e].evicted
    <3>1. OthersOK(shard, thread, {}) /\ k \in Keys /\ shard.map[k] = e /\ e \in Entries BY <1>2, <1>3, <2>2
    <3> HIDE DEF k
    <3>2. e # Null BY <2>2, NullFacts
    <3> QED BY <3>1, <3>2 DEF OthersOK, SegOK
  <2>5. Half(shard, thread, e) /\ shard.entry[e].asleep = {}
    BY <1>2, <1>3, <2>1, <2>2, <2>3, <2>4 DEF Half, OthersOK, EntryOK, PlaceOK
  <2>6. HasGetter /\ HasSetter /\ FreshInv => CachedFresh(shard, thread, store, e) BY <2>2 DEF FreshInv
  <2>7. \A f \in Entries \ {e} : Calm(shard, shard, f) BY DEF Calm
  <2>8. Takes(t, shard, thread, e)
    BY <1>2, <1>3, <2>1, <2>3, <2>4, <2>5, <2>6, <2>7 DEF Takes, EntryOK, Busy
  <2> QED BY <1>1, <2>1, <2>2, <2>8, BeginSetStep
<1> QED BY <1>4, <1>5

-----------------------------------------------------------------------------
(* Calls that wake up and leave their entry.                               *)

Wakes(t) == thread[t].pc = "wait" /\ ~Busy(shard, thread[t].ent)

\* The entry without the call that leaves it, the others as they were.
Left(t, e, w, p) ==
  LET s == Put(shard, e, p) IN
  /\ p \in EntryRec /\ Exit(shard, e) = s /\ s.entry[e] = p /\ e \in Entries
  /\ shard.entry[e].alive /\ p.alive /\ p.key = thread[t].key /\ p.value = shard.entry[e].value
  /\ p.evicted = shard.entry[e].evicted /\ p.failed = shard.entry[e].failed
  /\ ~p.fetching /\ ~p.setting /\ p.asleep = {} /\ p.waiters = shard.entry[e].waiters - 1
  /\ ~shard.entry[e].fetching /\ ~shard.entry[e].setting /\ p.key = shard.entry[e].key
  /\ HeldOK(p, w, e) /\ OthersOK(shard, w, {e}) /\ OthersOK(s, w, {e}) /\ PlaceOK(shard, e)
  /\ s.map = shard.map
  /\ \A f : InLRU(s, f) <=> InLRU(shard, f)
  /\ \A f \in Entries : Calm(shard, s, f)

LEMMA WakeLeaves ==
  ASSUME LRUInv, NEW t \in Callers, Wakes(t), NEW e, e = thread[t].ent,
         NEW c \in ThreadRec, c.ent = Null, NEW w, w = [thread EXCEPT ![t] = c]
  PROVE  \E p \in EntryRec : Left(t, e, w, p)
<1> DEFINE r == shard.entry[e]
           p == [r EXCEPT !.waiters = r.waiters - 1]
           s == Put(shard, e, p)
<1>1. /\ thread \in Calls /\ OthersOK(shard, thread, {}) /\ CallOK(thread[t]) /\ shard \in Segment
      /\ thread[t] \in ThreadRec
  BY InvFields
<1>2. e \in Entries /\ e # Null BY <1>1, CallFields, NullFacts DEF CallOK, AtEntry, Wakes
<1>3. HeldOK(r, thread, e) /\ PlaceOK(shard, e) /\ r \in EntryRec BY <1>2, InvFields DEF EntryOK
<1>4. r.alive /\ r.key = thread[t].key /\ ~r.fetching /\ ~r.setting /\ r.asleep = {}
  BY <1>3 DEF HeldOK, PlaceOK, Wakes, Busy
<1>5. /\ p \in EntryRec /\ p.alive = r.alive /\ p.key = r.key /\ p.value = r.value /\ p.evicted = r.evicted
      /\ p.setting = r.setting /\ p.fetching = r.fetching /\ p.waiters = r.waiters - 1 /\ p.asleep = r.asleep
      /\ p.failed = r.failed
  BY <1>3 DEF EntryRec
<1>6. Exit(shard, e) = s BY DEF Exit, Put
<1> HIDE DEF p
<1>7. /\ s.map = shard.map /\ s.entry[e] = p /\ \A f \in Entries \ {e} : s.entry[f] = shard.entry[f]
      /\ \A f : InLRU(s, f) <=> InLRU(shard, f)
  BY <1>1, <1>2, <1>5, PutFields
<1>8. OthersOK(shard, w, {e})
  <2>1. OthersOK(shard, thread, {e}) BY <1>1 DEF OthersOK
  <2>2. thread[t].ent \in {e} \cup {Null} /\ c.ent \in {e} \cup {Null} OBVIOUS
  <2> QED BY <1>1, <2>1, <2>2, CallOthers
<1>9. OthersOK(s, w, {e})
  <2>1. ASSUME NEW k \in Keys, shard.map[k] = e PROVE p.alive /\ p.key = k /\ ~p.evicted
    BY <1>1, <1>2, <1>5, <2>1 DEF OthersOK, SegOK
  <2>2. e \in Entries \cap {e} /\ p \in EntryRec BY <1>2, <1>5
  <2> HIDE DEF r
  <2> QED BY <1>8, <2>1, <2>2, PutOthers
<1>10. HeldOK(p, w, e)
  <2>1. c.ent # e /\ thread[t].ent = e /\ t \notin p.asleep /\ p.asleep \subseteq r.asleep BY <1>2, <1>4, <1>5
  <2>2. "wait" \notin Working /\ thread[t].pc = "wait" BY DEF Working, Wakes
  <2> HIDE DEF r
  <2> QED BY <1>1, <1>3, <1>4, <1>5, <2>1, <2>2, HeldLeave
<1>11. \A f \in Entries : Calm(shard, s, f) BY <1>4, <1>5, <1>7 DEF Calm
<1> HIDE DEF s
<1> QED BY <1>2, <1>3, <1>4, <1>5, <1>6, <1>7, <1>8, <1>9, <1>10, <1>11 DEF Left, s

\* It frees an entry that is out of the map, or leaves a mapped one in place.
LEMMA LeaveOK ==
  ASSUME NEW t \in Callers, NEW e, NEW w, NEW p, Left(t, e, w, p), NEW z,
         z = Release(Exit(shard, e), e) \/ (~p.evicted /\ z = MoveToFront(Exit(shard, e), e))
  PROVE  OthersOK(z, w, {}) /\ \A f \in Entries : Calm(shard, z, f)
<1> DEFINE s == Exit(shard, e)
<1>1. /\ p \in EntryRec /\ s.entry[e] = p /\ e \in Entries /\ p.alive /\ p.key \in Keys
      /\ ~p.fetching /\ ~p.setting /\ p.asleep = {}
      /\ HeldOK(p, w, e) /\ OthersOK(s, w, {e}) /\ s.map = shard.map
      /\ \A f : InLRU(s, f) <=> InLRU(shard, f)
      /\ \A f \in Entries : Calm(shard, s, f)
  BY DEF Left, PlaceOK
<1>2. CASE p.evicted
  <2>1. p.key = shard.entry[e].key /\ shard.entry[e].alive /\ shard.entry[e].evicted /\ PlaceOK(shard, e)
    BY <1>2 DEF Left
  <2>2. shard.map[p.key] # e /\ ~InLRU(shard, e) BY <2>1 DEF PlaceOK
  <2> HIDE DEF s
  <2>3. Gone(s, w, e) BY <1>1, <1>2, <2>2 DEF Gone
  <2>4. OthersOK(s, w, {} \cup {e}) BY <1>1
  <2>5. OthersOK(Release(s, e), w, {}) /\ \A f \in Entries : Calm(s, Release(s, e), f)
    BY <1>1, <2>3, <2>4, ReleaseGone
  <2>6. z = Release(s, e) BY <1>2 DEF s
  <2> QED BY <1>1, <2>5, <2>6, CalmTrans
<1>3. CASE ~p.evicted
  <2>1. /\ OthersOK(shard, w, {e}) /\ PlaceOK(shard, e) /\ p.alive = shard.entry[e].alive /\ p.key = shard.entry[e].key
        /\ p.value = shard.entry[e].value /\ p.evicted = shard.entry[e].evicted /\ s = Put(shard, e, p)
        /\ ~shard.entry[e].fetching /\ ~shard.entry[e].setting /\ ~shard.entry[e].evicted /\ shard.entry[e].alive
    BY <1>1, <1>3 DEF Left
  <2>2. InLRU(shard, e) BY <2>1 DEF PlaceOK, Busy
  <2>3. shard.entry[e] \in EntryRec
    <3>1. shard \in Segment BY <2>1 DEF OthersOK, SegOK
    <3> QED BY <1>1, <3>1, SegFields
  <2>4. p.fetching = shard.entry[e].fetching /\ p.setting = shard.entry[e].setting BY <1>1, <2>1, <2>3, RecFields
  <2>5. OthersOK(Put(shard, e, p), w, {}) BY <1>1, <1>3, <2>1, <2>4, PutPlace
  <2> HIDE DEF s
  <2>6. OthersOK(s, w, {}) /\ InLRU(s, e) BY <1>1, <2>1, <2>2, <2>5
  <2>7. CASE z = Release(s, e) BY <1>1, <1>3, <2>6, <2>7, ReleaseNot
  <2>8. CASE z = MoveToFront(s, e)
    <3> DEFINE y == MoveToFront(s, e)
    <3>1. OthersOK(y, w, {}) /\ y.entry = s.entry /\ \A f \in Entries : InLRU(y, f) <=> InLRU(s, f)
      BY <1>1, <2>6, MovedToFront
    <3> HIDE DEF y
    <3>2. \A f \in Entries : Calm(shard, y, f) BY <1>1, <3>1 DEF Calm
    <3> QED BY <2>8, <3>1, <3>2 DEF y
  <2> QED BY <2>7, <2>8 DEF s
<1> QED BY <1>2, <1>3

LEMMA LeaveStep ==
  ASSUME LRUInv, NEW t \in Callers, Wakes(t), NEW c \in ThreadRec, thread' = [thread EXCEPT ![t] = c], c.ent = Null,
         CallOK(c), UNCHANGED <<store, cache>>, NEW e, e = thread[t].ent,
         \/ shard' = Release(Exit(shard, e), e)
         \/ ~shard.entry[e].evicted /\ shard' = MoveToFront(Exit(shard, e), e),
         HasGetter /\ HasSetter /\ FreshInv => CallFresh(shard', store, c)
  PROVE  Keeps
<1> DEFINE w == [thread EXCEPT ![t] = c]
<1>1. PICK p \in EntryRec : Left(t, e, w, p)
  <2> HIDE DEF w
  <2>1. w = [thread EXCEPT ![t] = c] BY DEF w
  <2> QED BY <2>1, WakeLeaves
<1> HIDE DEF w
<1>2. p.evicted = shard.entry[e].evicted BY <1>1 DEF Left
<1>3. OthersOK(shard', w, {}) /\ \A f \in Entries : Calm(shard, shard', f) BY <1>1, <1>2, LeaveOK
<1>4. OthersOK(shard', thread', {}) BY <1>3 DEF w
<1>5. LRUInv' BY <1>4, StepInv
<1>6. FreshInv => FreshInv'
  <2>1. thread[t].pc # "back" BY DEF Wakes
  <2>2. HasGetter /\ HasSetter /\ FreshInv => FreshHere(t, c, Null) BY NullFacts DEF FreshHere
  <2>3. \A f \in Entries \ {Null} : Calm(shard, shard', f) BY <1>3
  <2> QED BY <1>4, <2>1, <2>2, <2>3, StepFresh
<1> QED BY <1>5, <1>6 DEF Keeps

\* A call that looks its key up again.
LEMMA LookAgainStep ==
  ASSUME LRUInv, NEW t \in Callers, Wakes(t), LookAgain(t, Exit(shard, thread[t].ent), thread[t].ent),
         UNCHANGED <<store, cache>>
  PROVE  Keeps
<1>1. shard' = Release(Exit(shard, thread[t].ent), thread[t].ent) /\ Move(t, "enter", Null) BY DEF LookAgain
<1>2. PICK c \in ThreadRec :
           /\ thread' = [thread EXCEPT ![t] = c] /\ c.pc = "enter" /\ c.ent = Null
           /\ c.op = thread[t].op /\ c.key = thread[t].key /\ c.val = thread[t].val
           /\ c.ok = thread[t].ok /\ c.seen = thread[t].seen
  BY <1>1, InvFields, MoveIs DEF Pcs
<1>3. CallOK(c) BY <1>2, InvFields DEF CallOK, AtEntry, Wakes
<1>4. HasGetter /\ HasSetter /\ FreshInv => CallFresh(shard', store, c)
  <2>1. HasGetter /\ HasSetter /\ FreshInv => CallFresh(shard, store, thread[t]) BY DEF FreshInv
  <2> QED BY <1>2, <2>1 DEF CallFresh, AtEntry, Wakes
<1> QED BY <1>1, <1>2, <1>3, <1>4, LeaveStep

\* A get whose wait is over.
LEMMA GetWakesStep ==
  ASSUME LRUInv, NEW t \in Callers, GetWakes(t)
  PROVE  Keeps
<1> DEFINE e == thread[t].ent
           s == Exit(shard, e)
<1>1. /\ Wakes(t) /\ thread[t].op = "get" /\ UNCHANGED <<store, cache>>
      /\ \/ LookAgain(t, s, e)
         \/ /\ shard' = Release(s, e)
            /\ Answer(t, IF s.entry[e].mismatch THEN "mismatch" ELSE "notfound", Null)
         \/ s.entry[e].value # Null /\ Hit(t, s, e)
  BY DEF GetWakes, AtWake, Wakes
<1>2. CASE LookAgain(t, s, e) BY <1>1, <1>2, LookAgainStep
<1>3. CASE /\ shard' = Release(s, e)
           /\ Answer(t, IF s.entry[e].mismatch THEN "mismatch" ELSE "notfound", Null)
  <2> DEFINE ret == IF s.entry[e].mismatch THEN "mismatch" ELSE "notfound"
  <2>1. ret \in Rets /\ ret # "ok" /\ Null \in Values \cup {Null} BY DEF Rets
  <2>2. Answer(t, ret, Null) BY <1>3
  <2> HIDE DEF ret
  <2>3. PICK c \in ThreadRec :
           /\ thread' = [thread EXCEPT ![t] = c] /\ c.pc = "done" /\ c.ent = Null
           /\ c.op = thread[t].op /\ c.key = thread[t].key /\ c.ret = ret
           /\ c.seen = thread[t].seen
    BY <2>1, <2>2, InvFields, AnswerIs
  <2>4. CallOK(c) BY <1>1, <2>3, InvFields DEF CallOK, AtEntry, Wakes
  <2>5. CallFresh(shard', store, c) BY <2>1, <2>3 DEF CallFresh, AtEntry
  <2> QED BY <1>1, <1>3, <2>3, <2>4, <2>5, LeaveStep
<1>4. CASE s.entry[e].value # Null /\ Hit(t, s, e)
  <2>1. PICK p \in EntryRec : Left(t, e, [thread EXCEPT ![t] = Idle], p)
    <3>1. Idle \in ThreadRec /\ Idle.ent = Null BY DEF Idle, ThreadRec, Pcs
    <3> QED BY <1>1, <3>1, WakeLeaves
  <2>2. s.entry[e] = p /\ p.value = shard.entry[e].value /\ p.evicted = shard.entry[e].evicted /\ p.value \in Values \cup {Null}
    BY <2>1, RecFields DEF Left
  <2> HIDE DEF s, e
  <2>3. PICK c \in ThreadRec :
              /\ thread' = [thread EXCEPT ![t] = c] /\ c.pc = "done" /\ c.ent = Null
              /\ c.op = thread[t].op /\ c.key = thread[t].key /\ c.seen = thread[t].seen
              /\ c.ret = "ok" => c.val = p.value
    BY <1>4, <2>2, InvFields, HitReturns
  <2>4. shard' = Release(s, e) \/ (~p.evicted /\ shard' = MoveToFront(s, e))
    BY <1>4, <2>2, InvFields, HitReturns
  <2>5. CallOK(c) BY <1>1, <2>3, InvFields DEF CallOK, AtEntry, Wakes
  <2>6. HasGetter /\ HasSetter /\ FreshInv => CallFresh(shard', store, c)
    <3>1. HasGetter /\ HasSetter /\ FreshInv => CallFresh(shard, store, thread[t]) BY DEF FreshInv
    <3> QED BY <1>1, <1>4, <2>2, <2>3, <3>1 DEF CallFresh, AtEntry, Wakes, e
  <2> QED BY <1>1, <2>2, <2>3, <2>4, <2>5, <2>6, LeaveStep DEF s, e
<1> QED BY <1>1, <1>2, <1>3, <1>4

\* A set whose wait is over takes the entry over, or looks again.
LEMMA SetWakesStep ==
  ASSUME LRUInv, NEW t \in Callers, SetWakes(t)
  PROVE  Keeps
<1> DEFINE e == thread[t].ent
           s == Exit(shard, e)
           c == [thread[t] EXCEPT !.ent = Null]
           w == [thread EXCEPT ![t] = c]
<1>1. /\ Wakes(t) /\ thread[t].op = "set" /\ UNCHANGED <<store, cache>>
      /\ \/ ~s.entry[e].evicted /\ BeginSet(t, s, e)
         \/ LookAgain(t, s, e)
  BY DEF SetWakes, AtWake, Wakes
<1>2. CASE LookAgain(t, s, e) BY <1>1, <1>2, LookAgainStep
<1>3. CASE ~s.entry[e].evicted /\ BeginSet(t, s, e)
  <2>1. thread \in Calls /\ thread[t] \in ThreadRec BY InvFields
  <2>2. c \in ThreadRec /\ c.ent = Null /\ c.op = thread[t].op BY <2>1 DEF ThreadRec
  <2> HIDE DEF c
  <2>3. w \in Calls /\ w[t] = c /\ \A u \in Callers \ {t} : w[u] = thread[u] BY <2>1, <2>2, ChangeCall
  <2>4. PICK p \in EntryRec : Left(t, e, w, p) BY <1>1, <2>2, WakeLeaves
  <2> HIDE DEF w
  <2>5. /\ s = Put(shard, e, p) /\ s.entry[e] = p /\ e \in Entries /\ p.alive /\ ~p.evicted /\ p.key = thread[t].key
        /\ ~p.fetching /\ ~p.setting /\ p.asleep = {} /\ HeldOK(p, w, e) /\ OthersOK(s, w, {e})
        /\ p.key = shard.entry[e].key /\ p.value = shard.entry[e].value /\ shard.entry[e].alive /\ ~shard.entry[e].evicted
        /\ PlaceOK(shard, e) /\ s.map = shard.map
        /\ \A f : InLRU(s, f) <=> InLRU(shard, f)
        /\ \A f \in Entries : Calm(shard, s, f)
    BY <1>3, <2>4 DEF Left
  <2>6. p.key \in Keys /\ shard.map[p.key] = e /\ (InLRU(shard, e) <=> p.value # Null)
    BY <2>5 DEF PlaceOK
  <2> HIDE DEF s
  <2>7. Half(s, w, e) BY <2>5, <2>6 DEF Half
  <2>8. HasGetter /\ HasSetter /\ FreshInv => CachedFresh(s, w, store, e)
    <3>1. HasGetter /\ HasSetter /\ FreshInv => CachedFresh(shard, thread, store, e) BY <2>5 DEF FreshInv
    <3>2. \A u \in Callers : thread[u].pc = "back" => u # t BY <1>1 DEF Wakes
    <3>3. ASSUME CachedFresh(shard, thread, store, e) PROVE CachedFresh(s, w, store, e)
      <4>1. SUFFICES ASSUME InLRU(shard, e), p.value # store[p.key]
                     PROVE  \E u \in Callers : w[u].ent = e /\ w[u].pc = "back" /\ w[u].op = "set" /\ w[u].ok
        BY <2>5 DEF CachedFresh
      <4>2. PICK u \in Callers : thread[u].ent = e /\ thread[u].pc = "back" /\ thread[u].op = "set" /\ thread[u].ok
        BY <2>5, <3>3, <4>1 DEF CachedFresh
      <4>3. w[u] = thread[u] BY <2>3, <3>2, <4>2
      <4> QED BY <4>2, <4>3
    <3> QED BY <3>1, <3>3
  <2>9. Takes(t, s, w, e)
    <3>1. thread[t].ent \in {e, Null} /\ thread[t].pc \in {"enter", "wait"} BY <1>1 DEF Wakes
    <3> HIDE DEF e
    <3> QED BY <1>1, <2>2, <2>3, <2>5, <2>7, <2>8, <3>1 DEF Takes
  <2> HIDE DEF e
  <2> QED BY <1>1, <1>3, <2>5, <2>9, BeginSetStep
<1> QED BY <1>1, <1>2, <1>3

-----------------------------------------------------------------------------
(* The remote setter.                                                      *)

\* Whoever works for a key works on the entry the map has for it.
LEMMA WorkerFacts ==
  ASSUME LRUInv, NEW u \in Callers, thread[u].pc \in Working
  PROVE  LET e == thread[u].ent IN
         /\ e \in Entries /\ thread[u].key \in Keys /\ thread[u].op \in {"get", "set"} /\ Busy(shard, e)
         /\ shard.entry[e].alive /\ ~shard.entry[e].evicted /\ shard.map[thread[u].key] = e
         /\ \A w \in Callers : thread[w].ent = e /\ thread[w].pc \in Working => w = u
<1> DEFINE e == thread[u].ent
<1>1. CallOK(thread[u]) /\ thread[u] \in ThreadRec BY InvFields
<1>2. e \in Entries /\ thread[u].key \in Keys /\ thread[u].op \in {"get", "set"}
  BY <1>1, CallFields DEF CallOK, AtEntry, Working
<1>3. HeldOK(shard.entry[e], thread, e) /\ PlaceOK(shard, e) BY <1>2, InvFields DEF EntryOK
<1>4. Busy(shard, e) /\ shard.entry[e].alive /\ shard.entry[e].key = thread[u].key
  BY <1>2, <1>3 DEF HeldOK, Busy
<1>5. ~shard.entry[e].evicted BY <1>3, <1>4 DEF PlaceOK, Busy
<1>6. shard.map[thread[u].key] = e BY <1>3, <1>4, <1>5 DEF PlaceOK
<1>7. \A w \in Callers : thread[w].ent = e /\ thread[w].pc \in Working => w = u BY <1>3 DEF HeldOK
<1> QED BY <1>2, <1>4, <1>5, <1>6, <1>7

LEMMA WorkersDiffer ==
  ASSUME LRUInv, NEW t \in Callers, NEW u \in Callers, thread[t].pc \in Working, thread[u].pc \in Working,
         thread[t].key = thread[u].key
  PROVE  t = u
<1>1. shard.map[thread[t].key] = thread[t].ent /\ shard.map[thread[u].key] = thread[u].ent BY WorkerFacts
<1>2. \A w \in Callers : thread[w].ent = thread[t].ent /\ thread[w].pc \in Working => w = t BY WorkerFacts
<1> QED BY <1>1, <1>2

\* The calls after the remote setter has answered ok.
Answered(t, ok) ==
  /\ store' \in [Keys -> Values] /\ thread' \in Calls /\ ok \in BOOLEAN
  /\ store'[thread[t].key] = IF ok THEN thread[t].val ELSE store[thread[t].key]
  /\ \A j \in Keys \ {thread[t].key} : store'[j] = store[j]
  /\ \A u \in Callers :
       /\ thread'[u].op = thread[u].op /\ thread'[u].key = thread[u].key /\ thread'[u].val = thread[u].val
       /\ thread'[u].ent = thread[u].ent /\ thread'[u].ret = thread[u].ret
       /\ thread'[u].pc = IF u = t THEN "back" ELSE thread[u].pc
       /\ thread'[u].ok = IF u = t THEN ok ELSE thread[u].ok
       /\ thread'[u].seen = IF thread[u].key = thread[t].key /\ thread[u].pc # "done"
                            THEN thread[u].seen \cup {store'[thread[t].key]} ELSE thread[u].seen

LEMMA RemoteSetCalls ==
  ASSUME LRUInv, NEW t \in Callers, RemoteSet(t)
  PROVE  \E ok \in BOOLEAN : Answered(t, ok)
<1>1. thread[t].pc = "remote" /\ thread[t].op = "set" BY DEF RemoteSet
<1>2. PICK ok \in BOOLEAN, k \in {thread[t].key} :
       /\ store' = [store EXCEPT ![k] = IF ok THEN thread[t].val ELSE @]
       /\ thread' = [u \in Callers |->
            [thread[u] EXCEPT
               !.pc = IF u = t THEN "back" ELSE @,
               !.ok = IF u = t THEN ok ELSE @,
               !.seen = IF thread[u].key = k /\ thread[u].pc # "done"
                        THEN @ \cup {store'[k]} ELSE @]]
  BY Zenon DEF RemoteSet
<1>3. k \in Keys BY <1>1, WorkerFacts DEF Working
<1>4. thread[t].val \in Values BY <1>1, InvFields DEF CallOK, AtEntry
<1>5. store \in [Keys -> Values] BY InvFields
<1>6. /\ store' \in [Keys -> Values] /\ store'[k] = IF ok THEN thread[t].val ELSE store[k]
      /\ \A j \in Keys \ {k} : store'[j] = store[j]
  BY <1>2, <1>3, <1>4, <1>5
<1>7. store'[k] \in Values BY <1>3, <1>6
<1>8. ASSUME NEW u \in Callers
      PROVE  /\ thread'[u] \in ThreadRec
             /\ thread'[u].op = thread[u].op /\ thread'[u].key = thread[u].key /\ thread'[u].val = thread[u].val
             /\ thread'[u].ent = thread[u].ent /\ thread'[u].ret = thread[u].ret
             /\ thread'[u].pc = IF u = t THEN "back" ELSE thread[u].pc
             /\ thread'[u].ok = IF u = t THEN ok ELSE thread[u].ok
             /\ thread'[u].seen = IF thread[u].key = k /\ thread[u].pc # "done"
                                  THEN thread[u].seen \cup {store'[k]} ELSE thread[u].seen
  <2> DEFINE x == thread[u]
             P == IF u = t THEN "back" ELSE x.pc
             O == IF u = t THEN ok ELSE x.ok
             S == IF x.key = k /\ x.pc # "done" THEN x.seen \cup {store'[k]} ELSE x.seen
             a == [x EXCEPT !.pc = P]
             b == [a EXCEPT !.ok = O]
             d == [b EXCEPT !.seen = S]
  <2>1. x \in ThreadRec BY InvFields
  <2>2. P \in Pcs /\ O \in BOOLEAN /\ S \in SUBSET Values BY <1>7, <2>1, CallFields DEF Pcs
  <2>3. thread'[u] = d BY <1>2, Zenon
  <2> HIDE DEF P, O, S, x
  <2>4. /\ a \in ThreadRec /\ a.pc = P /\ a.op = x.op /\ a.key = x.key /\ a.val = x.val /\ a.ent = x.ent
        /\ a.ret = x.ret /\ a.ok = x.ok /\ a.seen = x.seen
    BY <2>1, <2>2 DEF ThreadRec
  <2> HIDE DEF a
  <2>5. /\ b \in ThreadRec /\ b.pc = P /\ b.op = x.op /\ b.key = x.key /\ b.val = x.val /\ b.ent = x.ent
        /\ b.ret = x.ret /\ b.ok = O /\ b.seen = x.seen
    BY <2>2, <2>4 DEF ThreadRec
  <2> HIDE DEF b
  <2>6. /\ d \in ThreadRec /\ d.pc = P /\ d.op = x.op /\ d.key = x.key /\ d.val = x.val /\ d.ent = x.ent
        /\ d.ret = x.ret /\ d.ok = O /\ d.seen = S
    BY <2>2, <2>5 DEF ThreadRec
  <2> HIDE DEF d
  <2> QED BY <2>3, <2>6 DEF P, O, S, x
<1>9. thread' \in Calls
  <2>1. thread' = [u \in Callers |-> thread'[u]] BY <1>2
  <2> QED BY <1>8, <2>1 DEF Calls
<1> QED BY <1>6, <1>8, <1>9 DEF Answered

LEMMA RemoteSetStep ==
  ASSUME LRUInv, NEW t \in Callers, RemoteSet(t)
  PROVE  Keeps
<1> DEFINE k == thread[t].key
           e == thread[t].ent
<1>1. thread[t].pc = "remote" /\ thread[t].op = "set" /\ UNCHANGED <<shard, cache>> BY DEF RemoteSet
<1>2. PICK ok \in BOOLEAN : Answered(t, ok) BY RemoteSetCalls
<1>3. /\ OthersOK(shard, thread, {}) /\ SegOK(shard) /\ shard \in Segment
      /\ cache \in [open : BOOLEAN, callbacks : Callbacks]
  BY InvFields
<1>4. \A u \in Callers : thread'[u].pc \in Working <=> thread[u].pc \in Working BY <1>1, <1>2 DEF Answered, Working
<1>5. \A u \in Callers : thread'[u].pc = "wait" <=> thread[u].pc = "wait" BY <1>1, <1>2 DEF Answered
<1>6. ASSUME NEW f \in Entries PROVE EntryOK(shard, thread', f)
  <2>1. HeldOK(shard.entry[f], thread, f) /\ PlaceOK(shard, f) BY InvFields DEF EntryOK
  <2>2. shard.entry[f].asleep \subseteq Callers
    <3>1. shard.entry[f] \in EntryRec BY InvFields
    <3> QED BY <3>1, RecFields
  <2>3. \A u \in Callers : /\ thread[u].ent = f <=> thread'[u].ent = f
                           /\ thread'[u].key = thread[u].key /\ thread'[u].op = thread[u].op
    BY <1>2 DEF Answered
  <2> DEFINE r == shard.entry[f]
  <2> HIDE DEF r
  <2>4. HeldOK(r, thread', f) BY <1>4, <1>5, <2>1, <2>2, <2>3, HeldSame DEF r
  <2> QED BY <2>1, <2>4 DEF EntryOK, r
<1>7. OthersOK(shard', thread', {}) BY <1>1, <1>3, <1>6 DEF OthersOK
<1>8. ASSUME NEW u \in Callers PROVE CallOK(thread'[u])
  <2>1. CallOK(thread[u]) BY InvFields
  <2> QED BY <1>1, <1>2, <2>1 DEF CallOK, Answered, AtEntry
<1>9. LRUInv' BY <1>1, <1>2, <1>3, <1>7, <1>8 DEF LRUInv, Answered
<1>10. /\ k \in Keys /\ e \in Entries /\ shard.map[k] = e
  BY <1>1, WorkerFacts DEF Working
<1>11. \A u \in Callers : thread[u].pc = "back" => thread[u].key # k
  BY <1>1, WorkersDiffer DEF Working
<1>12. ASSUME FreshInv, HasGetter, HasSetter
       PROVE  /\ \A f \in Entries : CachedFresh(shard', thread', store', f)
              /\ \A u \in Callers : CallFresh(shard', store', thread'[u])
  <2>1. /\ \A f \in Entries : CachedFresh(shard, thread, store, f)
        /\ \A u \in Callers : CallFresh(shard, store, thread[u])
    BY <1>12 DEF FreshInv
  <2>2. ASSUME NEW f \in Entries PROVE CachedFresh(shard, thread', store', f)
    <3>1. SUFFICES ASSUME shard.entry[f].alive, InLRU(shard, f), shard.entry[f].value # store'[shard.entry[f].key]
                   PROVE  \E u \in Callers : thread'[u].ent = f /\ thread'[u].pc = "back" /\ thread'[u].op = "set" /\ thread'[u].ok
      BY DEF CachedFresh
    <3>2. PlaceOK(shard, f) BY InvFields DEF EntryOK
    <3>3. shard.entry[f].key \in Keys /\ shard.map[shard.entry[f].key] = f BY <3>1, <3>2 DEF PlaceOK
    <3>4. CASE \E u \in Callers : thread[u].ent = f /\ thread[u].pc = "back" /\ thread[u].op = "set" /\ thread[u].ok
      <4>1. PICK u \in Callers : thread[u].ent = f /\ thread[u].pc = "back" /\ thread[u].op = "set" /\ thread[u].ok
        BY <3>4
      <4>2. u # t BY <1>1, <4>1
      <4>3. /\ thread'[u].ent = thread[u].ent /\ thread'[u].pc = thread[u].pc /\ thread'[u].op = thread[u].op
            /\ thread'[u].ok = thread[u].ok
        BY <1>2, <4>2 DEF Answered
      <4> QED BY <4>1, <4>3
    <3>5. CASE shard.entry[f].value = store[shard.entry[f].key]
      <4>1. shard.entry[f].key = k /\ ok BY <1>2, <3>1, <3>3, <3>5 DEF Answered
      <4>2. f = e BY <1>10, <3>3, <4>1
      <4> QED BY <1>1, <1>2, <4>1, <4>2 DEF Answered
    <3> QED BY <2>1, <3>1, <3>4, <3>5 DEF CachedFresh
  <2>3. ASSUME NEW u \in Callers PROVE CallFresh(shard, store', thread'[u])
    <3>1. CallFresh(shard, store, thread[u]) /\ CallOK(thread[u]) BY <2>1, InvFields
    <3>2. /\ thread'[u].op = thread[u].op /\ thread'[u].key = thread[u].key /\ thread'[u].val = thread[u].val
          /\ thread'[u].ent = thread[u].ent /\ thread'[u].ret = thread[u].ret
          /\ thread'[u].pc = IF u = t THEN "back" ELSE thread[u].pc
          /\ thread'[u].ok = IF u = t THEN ok ELSE thread[u].ok
          /\ thread[u].seen \subseteq thread'[u].seen
          /\ thread[u].key = k /\ thread[u].pc # "done" => store'[k] \in thread'[u].seen
      BY <1>2 DEF Answered
    <3>3. \A j \in Keys \ {k} : store'[j] = store[j] BY <1>2 DEF Answered
    <3>4. ok => store'[k] = thread[t].val BY <1>2 DEF Answered
    <3>5. thread'[u].pc \in AtEntry \cup {"enter"} => store'[thread[u].key] \in thread'[u].seen
      BY <1>1, <3>1, <3>2, <3>3 DEF CallFresh, CallOK, AtEntry
    <3>6. CASE u = t
      BY <1>1, <3>1, <3>2, <3>4, <3>5, <3>6 DEF CallFresh
    <3>7. CASE u # t
      <4>1. thread[u].pc = "back" => thread[u].key \in Keys \ {k} BY <1>11, <3>1 DEF CallOK
      <4> QED BY <3>1, <3>2, <3>3, <3>5, <3>7, <4>1 DEF CallFresh
    <3> QED BY <3>6, <3>7
  <2> QED BY <1>1, <2>2, <2>3
<1>13. FreshInv => FreshInv' BY <1>1, <1>12 DEF FreshInv, HasGetter, HasSetter
<1> QED BY <1>9, <1>13 DEF Keeps

-----------------------------------------------------------------------------
(* Destroying the cache.                                                   *)

Goner(s) == IF s.lru = <<>> THEN s ELSE EvictLRU(s)
Empties(s, m, f) == f = [n \in 0 .. m |-> IF n = 0 THEN s ELSE Goner(f[n - 1])]

LEMMA EmptiesExists ==
  ASSUME NEW s, NEW m \in Nat
  PROVE  \E f : Empties(s, m, f)
<1> DEFINE T == {i \in Nat : \E f : Empties(s, i, f)}
<1>1. 0 \in T
  <2> DEFINE f == [n \in 0 .. 0 |-> s]
  <2>1. f = [n \in 0 .. 0 |-> IF n = 0 THEN s ELSE Goner(f[n - 1])] OBVIOUS
  <2> HIDE DEF f
  <2>2. Empties(s, 0, f) BY <2>1 DEF Empties
  <2> QED BY <2>2
<1>2. ASSUME NEW i \in T PROVE i + 1 \in T
  <2>1. PICK f : Empties(s, i, f) OBVIOUS
  <2> DEFINE g == [n \in 0 .. (i + 1) |-> IF n = i + 1 THEN Goner(f[i]) ELSE f[n]]
             Rhs(n) == IF n = 0 THEN s ELSE Goner(g[n - 1])
  <2>2. ASSUME NEW n \in 0 .. (i + 1) PROVE g[n] = Rhs(n)
    <3>1. CASE n = i + 1
      <4>1. n - 1 \in 0 .. (i + 1) /\ n - 1 = i /\ n # 0 /\ n - 1 # i + 1 BY <3>1
      <4>2. g[n - 1] = f[i] /\ g[n] = Goner(f[i]) BY <3>1, <4>1
      <4> QED BY <4>1, <4>2
    <3>2. CASE n # i + 1
      <4>1. n \in 0 .. i /\ g[n] = f[n] BY <3>2
      <4>2. f[n] = IF n = 0 THEN s ELSE Goner(f[n - 1]) BY <2>1, <4>1 DEF Empties
      <4>3. n # 0 => n - 1 \in 0 .. (i + 1) /\ n - 1 # i + 1 BY <4>1
      <4>4. n # 0 => g[n - 1] = f[n - 1] BY <4>3
      <4> HIDE DEF g
      <4> QED BY <4>1, <4>2, <4>4
    <3> QED BY <3>1, <3>2
  <2>3. g = [n \in 0 .. (i + 1) |-> Rhs(n)] BY <2>2
  <2> HIDE DEF g
  <2>4. Empties(s, i + 1, g) BY <2>3 DEF Empties
  <2> QED BY <2>4
<1>3. T = Nat BY <1>1, <1>2, NatSetInduction
<1> QED BY <1>3

\* The list is empty after as many evictions as there are entries.
LEMMA EmptiesAll ==
  ASSUME NEW s, NEW th, OthersOK(s, th, {}), NEW f, Empties(s, Cardinality(Entries), f)
  PROVE  LET z == f[Cardinality(Entries)] IN OthersOK(z, th, {}) /\ z.lru = <<>>
<1> DEFINE N == Cardinality(Entries)
           L == Len(s.lru)
           Good(n, z) == OthersOK(z, th, {}) /\ (z.lru = <<>> \/ Len(z.lru) + n = L)
           T == {n \in Nat : n \in 0 .. N => Good(n, f[n])}
<1>1. N \in Nat BY EntriesFinite
<1>2. L \in Nat /\ L <= N
  <2>1. s.lru \in Seq(Entries) /\ Distinct(s.lru) BY SegFields DEF OthersOK, SegOK
  <2>2. Cardinality(Elems(s.lru)) = L BY <2>1, DistinctCard
  <2>3. Elems(s.lru) \subseteq Entries BY <2>1 DEF Elems
  <2>4. Cardinality(Elems(s.lru)) <= N BY <2>3, EntriesFinite, FS_Subset
  <2> QED BY <2>1, <2>2, <2>4, LenProperties
<1>3. /\ f[0] = s
      /\ \A n \in 1 .. N : f[n] = Goner(f[n - 1])
  <2> HIDE DEF N
  <2>1. f = [n \in 0 .. N |-> IF n = 0 THEN s ELSE Goner(f[n - 1])] BY DEF Empties, N
  <2>2. \A n \in 0 .. N : f[n] = IF n = 0 THEN s ELSE Goner(f[n - 1]) BY <2>1
  <2>3. 0 \in 0 .. N /\ \A n \in 1 .. N : n \in 0 .. N /\ n # 0 BY <1>1
  <2> QED BY <2>2, <2>3
<1> HIDE DEF N, L
<1>4. 0 \in T BY <1>2, <1>3 DEF L
<1>5. ASSUME NEW n \in T PROVE n + 1 \in T
  <2>1. SUFFICES ASSUME n + 1 \in 0 .. N PROVE Good(n + 1, f[n + 1]) OBVIOUS
  <2>2. n \in 0 .. N /\ n + 1 \in 1 .. N /\ (n + 1) - 1 = n BY <1>1, <2>1
  <2> DEFINE p == f[n]
  <2>3. Good(n, p) /\ f[n + 1] = Goner(p) BY <1>3, <2>2
  <2> HIDE DEF p
  <2>4. CASE p.lru = <<>> BY <2>3, <2>4 DEF Goner
  <2>5. CASE p.lru # <<>>
    <3>1. f[n + 1] = EvictLRU(p) BY <2>3, <2>5 DEF Goner
    <3>2. OthersOK(p, th, {}) /\ Last(p.lru) \notin {} BY <2>3
    <3>3. OthersOK(EvictLRU(p), th, {}) /\ EvictLRU(p).size = p.size - 1 BY <2>5, <3>2, EvictOthers
    <3>4. p.size = Len(p.lru) /\ EvictLRU(p).size = Len(EvictLRU(p).lru) BY <3>2, <3>3 DEF OthersOK, SegOK
    <3>5. Len(p.lru) \in Nat
      <4>1. p.lru \in Seq(Entries) BY <3>2, SegFields DEF OthersOK, SegOK
      <4> QED BY <4>1, LenProperties
    <3>6. Len(p.lru) + n = L BY <2>3, <2>5
    <3>7. Len(EvictLRU(p).lru) + (n + 1) = L
      <4> DEFINE a == Len(p.lru)
                 b == Len(EvictLRU(p).lru)
      <4>1. b = a - 1 /\ a \in Nat /\ n \in Nat /\ a + n = L BY <1>1, <2>2, <3>3, <3>4, <3>5, <3>6
      <4> HIDE DEF a, b
      <4> QED BY <4>1 DEF b
    <3> QED BY <3>1, <3>3, <3>7
  <2> QED BY <2>4, <2>5
<1>6. T = Nat
  <2> HIDE DEF T
  <2>1. T \in SUBSET Nat BY DEF T
  <2> QED BY <1>4, <1>5, <2>1, NatSetInduction
<1>7. Good(N, f[N]) BY <1>1, <1>6
<1>8. f[N].lru = <<>>
  <2>1. f[N].lru \in Seq(Entries) BY <1>7, SegFields DEF OthersOK, SegOK
  <2>2. Len(f[N].lru) \in Nat BY <2>1, LenProperties
  <2>3. SUFFICES ASSUME Len(f[N].lru) + N = L PROVE f[N].lru = <<>> BY <1>7
  <2>4. Len(f[N].lru) = 0 BY <1>1, <1>2, <2>2, <2>3
  <2> QED BY <2>1, <2>4, EmptySeq
<1> QED BY <1>7, <1>8 DEF N

LEMMA DestroyStep ==
  ASSUME LRUInv, Destroy
  PROVE  Keeps
<1> DEFINE N == Cardinality(Entries)
           gone == CHOOSE f : f = [n \in 0 .. N |->
                     IF n = 0 THEN shard
                     ELSE LET p == f[n - 1] IN IF p.lru = <<>> THEN p ELSE EvictLRU(p)]
           y == gone[N]
<1>1. /\ \A t \in Callers : thread[t].pc = "idle"
      /\ cache' = [cache EXCEPT !.open = FALSE] /\ UNCHANGED <<thread, store>>
      /\ shard' = [y EXCEPT !.map = [k \in Keys |-> Null]]
  BY DEF Destroy
<1>2. Empties(shard, N, gone)
  <2>1. \E f : Empties(shard, N, f) BY EntriesFinite, EmptiesExists
  <2>2. \E f : f = [n \in 0 .. N |->
                     IF n = 0 THEN shard
                     ELSE LET p == f[n - 1] IN IF p.lru = <<>> THEN p ELSE EvictLRU(p)]
    BY <2>1 DEF Empties, Goner
  <2> QED BY <2>2 DEF Empties, Goner
<1> HIDE DEF gone
<1>3. OthersOK(y, thread, {}) /\ y.lru = <<>> BY <1>2, EmptiesAll, InvFields
<1> HIDE DEF y, N
<1>4. \A e \in Entries, t \in Callers : thread[t].ent # e
  BY <1>1, InvFields, NullFacts DEF CallOK, AtEntry
<1>5. y \in Segment BY <1>3 DEF OthersOK, SegOK
<1>6. \A e : ~InLRU(y, e) BY <1>3 DEF InLRU
<1>7. ASSUME NEW e \in Entries PROVE y.entry[e] = Freed /\ HeldOK(Freed, thread, e)
  <2>1. HeldOK(y.entry[e], thread, e) /\ PlaceOK(y, e) BY <1>3 DEF OthersOK, EntryOK
  <2>2. Cardinality(Holders(thread, e)) = 0 BY <1>4, HoldersFinite
  <2>3. y.entry[e].waiters = 0 /\ ~Busy(y, e) BY <1>4, <2>1, <2>2 DEF HeldOK, Busy
  <2>4. ~y.entry[e].alive BY <1>6, <2>1, <2>3 DEF PlaceOK
  <2>5. y.entry[e] = Freed BY <2>1, <2>4 DEF PlaceOK
  <2> QED BY <2>1, <2>5
<1> DEFINE m == [k \in Keys |-> Null]
<1>8. shard' \in Segment /\ shard'.map = m /\ shard'.entry = y.entry /\ shard'.lru = y.lru /\ shard'.size = y.size
  <2>1. shard' = [map |-> m, entry |-> y.entry, lru |-> y.lru, size |-> y.size]
    BY <1>1, <1>5, SegFields
  <2>2. m \in [Keys -> Entries \cup {Null}] OBVIOUS
  <2> HIDE DEF m
  <2> QED BY <1>5, <2>1, <2>2, SegFields, SegIs
<1>9. \A e : ~InLRU(shard', e) BY <1>3, <1>8 DEF InLRU
<1>10. SegOK(shard')
  <2>1. SegOK(y) BY <1>3 DEF OthersOK
  <2> QED BY <1>8, <2>1 DEF SegOK
<1>11. ASSUME NEW e \in Entries PROVE EntryOK(shard', thread', e)
  <2>1. shard'.entry[e] = Freed /\ HeldOK(Freed, thread', e) BY <1>1, <1>7, <1>8
  <2>2. PlaceOK(shard', e) BY <1>9, <2>1, FreedFacts DEF PlaceOK
  <2> QED BY <2>1, <2>2 DEF EntryOK
<1>12. LRUInv'
  <2>1. cache' \in [open : BOOLEAN, callbacks : Callbacks] BY <1>1, InvFields
  <2> QED BY <1>1, <1>10, <1>11, <2>1, InvFields DEF LRUInv, OthersOK
<1>13. FreshInv => FreshInv'
  <2>1. \A e \in Entries : CachedFresh(shard', thread', store', e) BY <1>9 DEF CachedFresh
  <2>2. \A t \in Callers : CallFresh(shard', store', thread'[t]) BY <1>1 DEF CallFresh, AtEntry
  <2> QED BY <2>1, <2>2 DEF FreshInv
<1> QED BY <1>12, <1>13 DEF Keeps

-----------------------------------------------------------------------------
(* The specification keeps the invariants, which imply its properties.     *)

LEMMA InitInv == CacheInit => LRUInv /\ FreshInv
<1>1. SUFFICES ASSUME CacheInit PROVE LRUInv /\ FreshInv OBVIOUS
<1> DEFINE m == [k \in Keys |-> Null]
           en == [e \in Entries |-> Freed]
<1>2. /\ shard = [map |-> m, entry |-> en, lru |-> <<>>, size |-> 0]
      /\ thread = [t \in Callers |-> Idle]
      /\ store \in [Keys -> Values] /\ cache \in [open : {TRUE}, callbacks : Callbacks]
  BY <1>1 DEF CacheInit
<1>3. m \in [Keys -> Entries \cup {Null}] /\ en \in [Entries -> EntryRec] /\ <<>> \in Seq(Entries) /\ 0 \in Int
  BY FreedFacts
<1>4. /\ \A k \in Keys : m[k] = Null
      /\ \A e \in Entries : en[e] = Freed
  OBVIOUS
<1> HIDE DEF m, en
<1>5. shard \in Segment /\ shard.map = m /\ shard.entry = en /\ shard.lru = <<>> /\ shard.size = 0
  BY <1>2, <1>3, SegIs
<1>6. Idle \in ThreadRec /\ Idle.ent = Null /\ Idle.pc = "idle" BY DEF Idle, ThreadRec, Pcs
<1>7. thread \in Calls /\ \A t \in Callers : thread[t] = Idle BY <1>2, <1>6 DEF Calls
<1>8. \A e : ~InLRU(shard, e) BY <1>5 DEF InLRU
<1>9. SegOK(shard)
  <2>1. Len(shard.lru) = 0 /\ Distinct(shard.lru) BY <1>5 DEF Distinct
  <2> QED BY <1>4, <1>5, <2>1, NullFacts DEF SegOK
<1>10. ASSUME NEW e \in Entries PROVE EntryOK(shard, thread, e)
  <2>1. \A t \in Callers : thread[t].ent # e BY <1>6, <1>7, NullFacts
  <2>2. Cardinality(Holders(thread, e)) = 0 BY <2>1, HoldersFinite
  <2>3. shard.entry[e] = Freed BY <1>4, <1>5
  <2>4. HeldOK(Freed, thread, e) BY <2>1, <2>2, FreedFacts DEF HeldOK
  <2>5. PlaceOK(shard, e) BY <1>8, <2>3, FreedFacts DEF PlaceOK
  <2> QED BY <2>3, <2>4, <2>5 DEF EntryOK
<1>11. \A t \in Callers : CallOK(thread[t]) BY <1>6, <1>7 DEF CallOK, AtEntry
<1>12. LRUInv BY <1>2, <1>7, <1>9, <1>10, <1>11 DEF LRUInv, OthersOK
<1>13. FreshInv
  <2>1. \A e \in Entries : CachedFresh(shard, thread, store, e) BY <1>8 DEF CachedFresh
  <2>2. \A t \in Callers : CallFresh(shard, store, thread[t]) BY <1>6, <1>7 DEF CallFresh, AtEntry
  <2> QED BY <2>1, <2>2 DEF FreshInv
<1> QED BY <1>12, <1>13

\* Steps that change nothing, as a closed cache's.
LEMMA StutterKeeps ==
  ASSUME LRUInv, UNCHANGED cacheVars
  PROVE  Keeps
<1>1. UNCHANGED <<shard, thread, store, cache>> BY DEF cacheVars
<1>2. LRUInv' BY <1>1 DEF LRUInv
<1>3. FreshInv => FreshInv' BY <1>1 DEF FreshInv, HasGetter, HasSetter
<1> QED BY <1>2, <1>3 DEF Keeps

LEMMA NextKeeps == LRUInv /\ [CacheNext]_cacheVars => Keeps
<1>1. SUFFICES ASSUME LRUInv, [CacheNext]_cacheVars PROVE Keeps OBVIOUS
<1>2. ASSUME NEW t \in Callers, GetCall(t) \/ SetCall(t) \/ Spurious(t) PROVE Keeps
  BY <1>1, <1>2, GetCallStep, SetCallStep, SpuriousStep
<1>3. ASSUME NEW t \in Callers, Step(t) PROVE Keeps
  <2>1. CASE NoMemory(t) \/ WaitForEntry(t) \/ GetNotCached(t)
    BY <1>1, <2>1, NoMemoryStep, WaitForEntryStep, GetNotCachedStep
  <2>2. CASE GetMiss(t) \/ GetHit(t) \/ RemoteGet(t) \/ FetchDone(t)
    BY <1>1, <2>2, GetMissStep, GetHitStep, RemoteGetStep, FetchDoneStep
  <2>3. CASE SetEntry(t) \/ RemoteSet(t) \/ SetDone(t)
    BY <1>1, <2>3, SetEntryStep, RemoteSetStep, SetDoneStep
  <2>4. CASE WaitAgain(t) \/ GetWakes(t) \/ SetWakes(t) \/ Returned(t)
    BY <1>1, <2>4, WaitAgainStep, GetWakesStep, SetWakesStep, ReturnedStep
  <2> QED BY <1>3, <2>1, <2>2, <2>3, <2>4 DEF Step
<1>4. CASE Destroy BY <1>1, <1>4, DestroyStep
<1>5. CASE UNCHANGED cacheVars BY <1>1, <1>5, StutterKeeps
<1> QED BY <1>1, <1>2, <1>3, <1>4, <1>5 DEF CacheNext, Closed

\* What the map, the list and the calls hold is what they should.
LEMMA InvIntact == LRUInv => EntriesIntact
<1>1. SUFFICES ASSUME LRUInv PROVE EntriesIntact OBVIOUS
<1>2. /\ SegOK(shard) /\ shard \in Segment /\ \A e \in Entries : HeldOK(shard.entry[e], thread, e) /\ PlaceOK(shard, e)
  BY <1>1, InvFields DEF EntryOK
<1>3. shard.lru \in Seq(Entries) /\ shard.map \in [Keys -> Entries \cup {Null}] BY <1>2, SegFields
<1>4. DOMAIN shard.lru = 1 .. Len(shard.lru) /\ Len(shard.lru) \in Nat BY <1>3, LenProperties
<1>5. Listed = Elems(shard.lru) BY <1>4 DEF Listed, Elems
<1>6. ASSUME NEW e \in Listed
      PROVE  e \in Entries /\ shard.entry[e].alive /\ shard.entry[e].value # Null /\ e \in Mapped
  <2>1. InLRU(shard, e) /\ e \in Entries BY <1>3, <1>4, <1>6 DEF InLRU, Listed
  <2>2. PlaceOK(shard, e) BY <1>2, <2>1
  <2>3. /\ shard.entry[e].alive /\ ~shard.entry[e].evicted /\ shard.entry[e].value # Null
        /\ shard.entry[e].key \in Keys /\ shard.map[shard.entry[e].key] = e
    BY <2>1, <2>2 DEF PlaceOK
  <2> QED BY <2>1, <2>3, NullFacts DEF Mapped
<1>7. NoDanglingEntry
  <2>1. ASSUME NEW e \in Held PROVE shard.entry[e].alive
    <3>1. PICK t \in Callers : thread[t].ent = e /\ e # Null BY DEF Held
    <3>2. e \in Entries
      <4>1. thread[t] \in ThreadRec BY <1>1, InvFields
      <4> QED BY <3>1, <4>1, CallFields
    <3> QED BY <1>2, <3>1, <3>2 DEF HeldOK
  <2>2. ASSUME NEW e \in Mapped PROVE shard.entry[e].alive
    BY <1>2, <1>3 DEF Mapped, SegOK
  <2> QED BY <1>6, <2>1, <2>2 DEF NoDanglingEntry
<1>8. NoLeak
  <2>1. SUFFICES ASSUME NEW e \in Entries, shard.entry[e].alive PROVE e \in Held \cup Mapped BY DEF NoLeak
  <2>2. PlaceOK(shard, e) /\ HeldOK(shard.entry[e], thread, e) /\ e # Null BY <1>2, NullFacts
  <2>3. CASE shard.entry[e].evicted
    <3>1. Cardinality(Holders(thread, e)) # 0 BY <2>1, <2>2, <2>3 DEF PlaceOK, HeldOK
    <3>2. \E t \in Callers : thread[t].ent = e BY <3>1, HoldersFinite
    <3> QED BY <2>2, <3>2 DEF Held
  <2>4. CASE ~shard.entry[e].evicted BY <2>1, <2>2, <2>4 DEF PlaceOK, Mapped
  <2> QED BY <2>3, <2>4
<1>9. Published
  <2>1. ASSUME NEW k \in Keys, shard.map[k] # Null
        PROVE  /\ shard.entry[shard.map[k]].key = k
               /\ ~Busy(shard, shard.map[k]) => InLRU(shard, shard.map[k])
    <3> DEFINE e == shard.map[k]
    <3>1. e \in Entries /\ shard.entry[e].alive /\ shard.entry[e].key = k /\ ~shard.entry[e].evicted
      BY <1>2, <1>3, <2>1 DEF SegOK
    <3>2. PlaceOK(shard, e) BY <1>2, <3>1
    <3> HIDE DEF e
    <3>3. shard.entry[e].key = k /\ (~Busy(shard, e) => InLRU(shard, e)) BY <3>1, <3>2 DEF PlaceOK
    <3> QED BY <3>3 DEF e
  <2>2. Cardinality(Listed) = Len(shard.lru) BY <1>2, <1>3, <1>5, DistinctCard DEF SegOK
  <2>3. Len(shard.lru) = shard.size /\ shard.size <= Capacity BY <1>2 DEF SegOK
  <2> QED BY <1>6, <2>1, <2>2, <2>3 DEF Published
<1> QED BY <1>7, <1>8, <1>9 DEF EntriesIntact

\* One call works for a key, and whoever sleeps is waiting for it.
LEMMA InvOneWorks == LRUInv => OneWorksForAll
<1>1. SUFFICES ASSUME LRUInv PROVE OneWorksForAll OBVIOUS
<1>2. SingleFlight BY <1>1, WorkersDiffer DEF SingleFlight, Working
<1>3. SleepersWake
  <2>1. SUFFICES ASSUME NEW t \in Callers, Sleeping(t)
                 PROVE  \E u \in Callers : thread[u].pc \in Working /\ thread[u].ent = thread[t].ent
    BY DEF SleepersWake, Working
  <2> DEFINE e == thread[t].ent
  <2>2. thread[t].pc = "wait" /\ t \in shard.entry[e].asleep BY <2>1 DEF Sleeping
  <2>3. e \in Entries
    <3>1. CallOK(thread[t]) /\ thread[t] \in ThreadRec BY <1>1, InvFields
    <3> QED BY <2>2, <3>1, CallFields DEF CallOK, AtEntry
  <2>4. HeldOK(shard.entry[e], thread, e) /\ PlaceOK(shard, e) BY <1>1, <2>3, InvFields DEF EntryOK
  <2>5. Busy(shard, e) BY <2>2, <2>4 DEF PlaceOK
  <2> QED BY <2>4, <2>5 DEF HeldOK, Busy
<1> QED BY <1>2, <1>3 DEF OneWorksForAll

\* What a get with both callbacks answers was in the remote store.
LEMMA InvFresh == FreshInv => GetsFresh
BY DEF FreshInv, CallFresh, GetsFresh

\* The two inductive invariants, of every call of clrucache_get_full,
\* clrucache_get_into, clrucache_set_full and clrucache_destroy: where each
\* entry is and which calls hold it, and what the cached values have to do
\* with the remote store's.
THEOREM LRUInvariant == CacheSpec => [](LRUInv /\ FreshInv)
<1>1. CacheInit => LRUInv /\ FreshInv BY InitInv
<1>2. (LRUInv /\ FreshInv) /\ [CacheNext]_cacheVars => (LRUInv /\ FreshInv)' BY NextKeeps DEF Keeps
<1> QED BY <1>1, <1>2, PTL DEF CacheSpec

\* No pointer to a freed entry is ever followed and none that is allocated is
\* lost, whatever evictions, failed fetches and frees happen while a call of
\* clrucache_get_full or clrucache_set_full sleeps on an entry or talks to the
\* remote store; idle entries are in the map and in the list, and the list
\* never passes the segment's capacity.
THEOREM EntriesStayIntact == CacheSpec => []EntriesIntact
<1>1. LRUInv /\ FreshInv => EntriesIntact BY InvIntact
<1> QED BY <1>1, LRUInvariant, PTL

\* At most one remote getter or setter is called for a key at a time, and as
\* long as a call sleeps on an entry's condition variable the one that will
\* broadcast on it is under way.
THEOREM OneCallWorks == CacheSpec => []OneWorksForAll
<1>1. LRUInv /\ FreshInv => OneWorksForAll BY InvOneWorks
<1> QED BY <1>1, LRUInvariant, PTL

\* With both callbacks a get that succeeds copies out a value the remote store
\* held at some moment of the call, also when the entry it waited for was set
\* or evicted before it woke.
THEOREM GetsAnswerFresh == CacheSpec => []GetsFresh
<1>1. LRUInv /\ FreshInv => GetsFresh BY InvFresh
<1> QED BY <1>1, LRUInvariant, PTL
=============================================================================
