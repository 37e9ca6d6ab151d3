-------------------------- MODULE ThreadPoolProofs --------------------------
(***************************************************************************)
(* Proofs about ThreadPool, for any number of workers, clients and tasks   *)
(* and every queue capacity: a task completes once, a shutdown is final,   *)
(* cthrpool_wait is a barrier and nobody is stranded.  Then those about    *)
(* Future, for any number of waiters, and about HandleTable, the handles   *)
(* both are reached through.                                               *)
(***************************************************************************)
EXTENDS ThreadPool, Future, HandleTable, SequenceLemmas

\* The worker is inside a task function, which may be submitting itself.
InTask(w) == pc[w] \in {"run", "submit", "alloc", "enomem"}
BusyWorkers == {w \in Workers : InTask(w) \/ pc[w] = "finish"}

\* Where every thread may be, and what it has in hand there.
PcInv ==
  /\ \A w \in Workers : /\ pc[w] \in WorkerPc \cup {"submit", "alloc", "enomem"}
                        /\ cur[w] # None <=> InTask(w)
  /\ \A c \in Clients : /\ pc[c] \in ClientPc \cup SubmitPc
                        /\ list[c] # <<>> => pc[c] \in {"discard", "escalate"}
  /\ \A t \in Threads : sub[t] # None <=> pc[t] \in SubmitPc
  /\ \A t \in asleep : pc[t] \in {"on_not_empty", "on_not_full", "on_idle", "on_shutdown"}

\* A task being submitted belongs to one call, which has not answered.
SubInv ==
  /\ \A t \in Threads : sub[t] # None => status[sub[t]] = "submitting"
  /\ \A t, u \in Threads : sub[t] # None /\ sub[t] = sub[u] => t = u

Queued(k) == k \in Elems(queue)
Run(k) == \E w \in Workers : cur[w] = k
Stolen(k) == \E c \in Clients : k \in Elems(list[c])
Completed(k) == outcome[k] # "none"

\* A task is in at most one place, and in one exactly when it was accepted.
PlaceInv ==
  /\ Distinct(queue) /\ \A c \in Clients : Distinct(list[c])
  /\ \A v, w \in Workers : cur[v] # None /\ cur[v] = cur[w] => v = w
  /\ \A c, d \in Clients : \A k \in Elems(list[c]) : k \in Elems(list[d]) => c = d
  /\ \A k \in Tasks :
       /\ Queued(k) => ~Run(k) /\ ~Stolen(k) /\ ~Completed(k)
       /\ Run(k) => ~Stolen(k) /\ ~Completed(k)
       /\ Stolen(k) => ~Completed(k)
       /\ status[k] = "accepted" <=> Queued(k) \/ Run(k) \/ Stolen(k) \/ Completed(k)

ActiveInv == active = Cardinality(BusyWorkers)

Discarding == \E c \in Clients : pc[c] \in {"discard", "escalate"}

\* The shutdown flags, and what they say of the workers.
FlagInv ==
  /\ started <=> Stopping
  /\ immediate => queue = <<>>
  /\ \A w \in Workers : pc[w] = "exited" => Stopping /\ queue = <<>>
  /\ \A c \in Clients :
       /\ pc[c] \in {"on_shutdown", "discard", "escalate", "join", "mark"} => started
       /\ pc[c] \in {"join", "mark"} => On("on_not_empty") = {}
       /\ pc[c] = "mark" => \A w \in Workers : pc[w] = "exited"
  /\ complete => started /\ \A w \in Workers : pc[w] = "exited"
  /\ started /\ ~complete => \E c \in Clients : pc[c] \in {"discard", "join", "mark"}
  /\ complete => On("on_shutdown") = {}

DestroyInv ==
  /\ \A c \in Clients : /\ destroying[c] => ~live
                        /\ pc[c] = "pins" => complete /\ destroying[c]
  /\ \A c, d \in Clients : destroying[c] /\ destroying[d] => c = d
  /\ freed => ~live /\ complete /\ \A c \in Clients : pc[c] = "idle"

\* Calls that are past their wait for room, or have not begun it.
Trying == {t \in Threads : pc[t] \in SubmitPc /\ t \notin asleep}

\* Whoever sleeps has somebody on the way who will wake it.
WakeInv ==
  /\ queue # <<>> => \E w \in Workers : w \notin asleep /\ pc[w] # "exited"
  /\ On("on_not_full") # {} => Cap > 0 /\ ~drain /\ (immediate => Discarding)
  /\ On("on_not_full") # {} /\ ~Stopping => Len(queue) + Cardinality(Trying) >= Cap
  /\ On("on_idle") # {} => active > 0 \/ queue # <<>> \/ Discarding

IInv == TypeOK /\ PcInv /\ SubInv /\ PlaceInv /\ ActiveInv /\ FlagInv /\ DestroyInv /\ WakeInv

-----------------------------------------------------------------------------
(* What the steps have in common.                                          *)

LEMMA ThreadSets == Workers \subseteq Threads /\ Clients \subseteq Threads /\ Workers \cap Clients = {} /\ None \notin Tasks
BY PoolAssumption DEF Threads, Tasks, None

LEMMA BusyFinite == /\ IsFiniteSet(BusyWorkers) /\ Cardinality(BusyWorkers) \in Nat
                    /\ Cardinality(BusyWorkers) <= Cardinality(Workers)
<1>1. BusyWorkers \subseteq Workers BY DEF BusyWorkers
<1> QED BY <1>1, PoolAssumption, FS_Subset, FS_CardinalityType

LEMMA TryingFinite == IsFiniteSet(Trying) /\ Cardinality(Trying) \in Nat
<1>1. Trying \subseteq Threads BY DEF Trying
<1>2. IsFiniteSet(Threads) BY PoolAssumption, FS_Union DEF Threads
<1> QED BY <1>1, <1>2, FS_Subset, FS_CardinalityType

LEMMA TryingFiniteNext == IsFiniteSet(Trying') /\ Cardinality(Trying') \in Nat
<1>1. Trying' \subseteq Threads BY DEF Trying
<1>2. IsFiniteSet(Threads) BY PoolAssumption, FS_Union DEF Threads
<1> QED BY <1>1, <1>2, FS_Subset, FS_CardinalityType

\* What a signal leaves asleep.
LEMMA SignalledOne ==
  ASSUME NEW cv, asleep' \in Signalled(cv)
  PROVE  \/ On(cv) = {} /\ asleep' = asleep
         \/ \E t \in On(cv) : asleep' = asleep \ {t}
BY DEF Signalled

\* No task moves and none is accepted.
LEMMA PlaceSame ==
  ASSUME PlaceInv, UNCHANGED <<queue, cur, list, outcome>>,
         \A k \in Tasks : status'[k] = "accepted" <=> status[k] = "accepted"
  PROVE  PlaceInv'
<1>1. Distinct(queue)' /\ \A c \in Clients : Distinct(list[c])' BY DEF PlaceInv, Distinct
<1>2. \A k \in Tasks : /\ Queued(k)' <=> Queued(k)
                       /\ Run(k)' <=> Run(k)
                       /\ Stolen(k)' <=> Stolen(k)
                       /\ Completed(k)' <=> Completed(k)
  BY DEF Queued, Run, Stolen, Completed, Elems
<1>3. \A c \in Clients : Elems(list[c])' = Elems(list[c]) BY DEF Elems
<1> QED BY <1>1, <1>2, <1>3 DEF PlaceInv

\* No worker begins or ends a task.
LEMMA ActiveSame ==
  ASSUME ActiveInv, active' = active,
         \A w \in Workers : (InTask(w) \/ pc[w] = "finish")' <=> InTask(w) \/ pc[w] = "finish"
  PROVE  ActiveInv' /\ active' \in 0 .. Cardinality(Workers)
<1>1. BusyWorkers' = BusyWorkers BY DEF BusyWorkers
<1>2. Cardinality(Workers) \in Nat BY PoolAssumption, FS_CardinalityType
<1> QED BY <1>1, <1>2, BusyFinite DEF ActiveInv

\* Nobody goes to sleep whom somebody has to wake, and nobody who was going to
\* wake another stops short of it.
LEMMA WakeSame ==
  ASSUME TypeOK, WakeInv, UNCHANGED <<queue, active, drain, immediate>>,
         On("on_not_full")' \subseteq On("on_not_full"), On("on_idle")' \subseteq On("on_idle"),
         ~Stopping /\ ~Full => Trying \subseteq Trying',
         Discarding => Discarding',
         queue # <<>> => \A w \in Workers : w \notin asleep /\ pc[w] # "exited" => w \notin asleep' /\ pc'[w] # "exited"
  PROVE  WakeInv'
<1>1. Len(queue) \in Nat /\ Cap \in Nat BY LenProperties, PoolAssumption DEF TypeOK
<1>2. ASSUME On("on_not_full")' # {}, ~Stopping
      PROVE  Len(queue) + Cardinality(Trying') >= Cap
  <2>1. On("on_not_full") # {} /\ Len(queue) + Cardinality(Trying) >= Cap /\ Cap > 0 BY <1>2 DEF WakeInv
  <2>2. CASE Full BY <1>1, <2>2, TryingFiniteNext DEF Full
  <2>3. CASE ~Full
    <3>1. Trying \in SUBSET Trying' BY <1>2, <2>3
    <3>2. Cardinality(Trying) <= Cardinality(Trying') BY <3>1, TryingFiniteNext, FS_Subset
    <3> QED BY <1>1, <2>1, <3>2, TryingFinite, TryingFiniteNext
  <2> QED BY <2>2, <2>3
<1>3. Stopping' <=> Stopping BY DEF Stopping
<1>4. On("on_not_full")' # {} => Cap > 0 /\ ~drain' /\ (immediate' => Discarding') BY DEF WakeInv
<1>5. On("on_idle")' # {} => active' > 0 \/ queue' # <<>> \/ Discarding' BY DEF WakeInv
<1>6. queue' # <<>> => \E w \in Workers : w \notin asleep' /\ pc'[w] # "exited" BY DEF WakeInv
<1> QED BY <1>2, <1>3, <1>4, <1>5, <1>6 DEF WakeInv

\* A client goes from one place of its calls to another, perhaps to sleep.
LEMMA ClientMoves ==
  ASSUME TypeOK, PcInv, ActiveInv, NEW c \in Clients, NEW to \in ClientPc, pc[c] \in ClientPc,
         pc' = [pc EXCEPT ![c] = to], UNCHANGED <<active, cur, sub>>,
         \A d \in Clients : list'[d] # <<>> => IF d = c THEN to \in {"discard", "escalate"} ELSE list[d] # <<>>,
         asleep' \subseteq asleep \cup {c}, c \in asleep' => to \in {"on_idle", "on_shutdown"}
  PROVE  /\ PcInv' /\ ActiveInv' /\ active' \in 0 .. Cardinality(Workers)
         /\ pc' \in [Threads -> WorkerPc \cup SubmitPc \cup ClientPc] /\ asleep' \subseteq Threads
         /\ pc'[c] = to /\ \A t \in Threads \ {c} : pc'[t] = pc[t]
         /\ Trying \ asleep' \subseteq Trying'
<1>1. /\ pc' \in [Threads -> WorkerPc \cup SubmitPc \cup ClientPc] /\ asleep' \subseteq Threads
      /\ pc'[c] = to /\ \A t \in Threads \ {c} : pc'[t] = pc[t]
  BY ThreadSets DEF TypeOK
<1>2. ActiveInv' /\ active' \in 0 .. Cardinality(Workers)
  BY <1>1, ThreadSets, ActiveSame DEF InTask
<1>3. \A w \in Workers : /\ pc'[w] \in WorkerPc \cup {"submit", "alloc", "enomem"}
                         /\ cur'[w] # None <=> InTask(w)'
  BY <1>1, ThreadSets DEF PcInv, InTask
<1>4. \A d \in Clients : /\ pc'[d] \in ClientPc \cup SubmitPc
                         /\ list'[d] # <<>> => pc'[d] \in {"discard", "escalate"}
  BY <1>1, ThreadSets DEF PcInv
<1>5. \A t \in Threads : sub'[t] # None <=> pc'[t] \in SubmitPc
  BY <1>1, ThreadSets DEF PcInv, SubmitPc, ClientPc
<1>6. \A t \in asleep' : pc'[t] \in {"on_not_empty", "on_not_full", "on_idle", "on_shutdown"}
  BY <1>1 DEF PcInv, TypeOK
<1>7. Trying \ asleep' \subseteq Trying'
  BY <1>1, ThreadSets DEF Trying, SubmitPc, ClientPc
<1> QED BY <1>1, <1>2, <1>3, <1>4, <1>5, <1>6, <1>7 DEF PcInv

-----------------------------------------------------------------------------
(* The inductive step, action by action.                                   *)

LEMMA SubmitCallStep ==
  ASSUME IInv, NEW t \in Threads, NEW k \in Tasks, NEW m \in Modes, SubmitCall(t, k, m)
  PROVE  IInv'
<1>1. TypeOK /\ PcInv /\ SubInv /\ PlaceInv /\ ActiveInv /\ FlagInv /\ DestroyInv /\ WakeInv BY DEF IInv
<1>2. m \in {"block", "try", "timed"} BY PoolAssumption
<1>3. PcInv'
  BY <1>1, <1>2, ThreadSets DEF TypeOK, PcInv, InTask, SubmitCall, Goto, subVars, SubmitPc, WorkerPc, ClientPc
<1>4. SubInv' BY <1>1, <1>2, ThreadSets DEF TypeOK, PcInv, SubInv, SubmitCall, subVars, SubmitPc
<1>5. PlaceInv' BY <1>1, PlaceSame DEF TypeOK, SubmitCall
<1>6. ActiveInv' /\ active' \in 0 .. Cardinality(Workers)
  BY <1>1, <1>2, ThreadSets, ActiveSame DEF TypeOK, PcInv, InTask, SubmitCall, Goto, SubmitPc, WorkerPc
<1>7. TypeOK' BY <1>1, <1>2, ThreadSets, <1>6 DEF TypeOK, SubmitCall, Goto, flagVars, subVars, SubmitPc, WorkerPc, ClientPc
<1>8. FlagInv' BY <1>1, <1>2, ThreadSets DEF TypeOK, PcInv, FlagInv, SubmitCall, Goto, flagVars, Stopping, On
<1>9. DestroyInv' BY <1>1, <1>2, ThreadSets DEF TypeOK, PcInv, FlagInv, DestroyInv, SubmitCall, Goto, flagVars
<1>10. WakeInv'
  <2>1. ~Stopping /\ ~Full => Trying \subseteq Trying'
    BY <1>1, <1>2, ThreadSets DEF TypeOK, PcInv, Trying, SubmitCall, Goto, SubmitPc
  <2>2. On("on_not_full")' \subseteq On("on_not_full") /\ On("on_idle")' \subseteq On("on_idle")
    BY <1>1, <1>2, ThreadSets DEF TypeOK, PcInv, On, SubmitCall, Goto
  <2>3. Discarding => Discarding' BY <1>1, <1>2, ThreadSets DEF TypeOK, PcInv, Discarding, SubmitCall, Goto
  <2>4. queue # <<>> => \A u \in Workers : u \notin asleep /\ pc[u] # "exited" => u \notin asleep' /\ pc'[u] # "exited"
    BY <1>1, <1>2, ThreadSets DEF TypeOK, PcInv, FlagInv, SubmitCall, Goto
  <2>5. UNCHANGED <<queue, active, drain, immediate>> BY DEF SubmitCall, flagVars
  <2> QED BY <1>1, <2>1, <2>2, <2>3, <2>4, <2>5, WakeSame
<1> QED BY <1>3, <1>4, <1>5, <1>6, <1>7, <1>8, <1>9, <1>10 DEF IInv

LEMMA SubmitRefusedStep ==
  ASSUME IInv, NEW t \in Threads, SubmitRefused(t)
  PROVE  IInv'
<1>1. TypeOK /\ PcInv /\ SubInv /\ PlaceInv /\ ActiveInv /\ FlagInv /\ DestroyInv /\ WakeInv BY DEF IInv
<1>3. PcInv'
  BY <1>1, ThreadSets DEF TypeOK, PcInv, InTask, SubmitRefused, At, SubmitReturns, Goto, subVars, SubmitPc, WorkerPc, ClientPc
<1>4. SubInv' BY <1>1, ThreadSets DEF TypeOK, PcInv, SubInv, SubmitRefused, At, SubmitReturns, subVars, SubmitPc
<1>5. PlaceInv' BY <1>1, PlaceSame DEF TypeOK, SubmitRefused, At, SubmitReturns, PcInv, SubInv, SubmitPc
<1>6. ActiveInv' /\ active' \in 0 .. Cardinality(Workers)
  BY <1>1, ThreadSets, ActiveSame DEF TypeOK, PcInv, InTask, SubmitRefused, At, SubmitReturns, Goto, SubmitPc, WorkerPc
<1>7. TypeOK' BY <1>1, ThreadSets, <1>6 DEF TypeOK, SubmitRefused, At, SubmitReturns, Goto, flagVars, subVars, SubmitPc, WorkerPc, ClientPc
<1>8. FlagInv' BY <1>1, ThreadSets DEF TypeOK, PcInv, FlagInv, SubmitRefused, At, SubmitReturns, Goto, flagVars, Stopping, On
<1>9. DestroyInv' BY <1>1, ThreadSets DEF TypeOK, PcInv, FlagInv, DestroyInv, SubmitRefused, At, SubmitReturns, Goto, flagVars
<1>10. WakeInv'
  <2>1. ~Stopping /\ ~Full => Trying \subseteq Trying'
    BY <1>1, ThreadSets DEF TypeOK, PcInv, Trying, SubmitRefused, At, SubmitReturns, Goto, SubmitPc
  <2>2. On("on_not_full")' \subseteq On("on_not_full") /\ On("on_idle")' \subseteq On("on_idle")
    BY <1>1, ThreadSets DEF TypeOK, PcInv, On, SubmitRefused, At, SubmitReturns, Goto
  <2>3. Discarding => Discarding' BY <1>1, ThreadSets DEF TypeOK, PcInv, Discarding, SubmitRefused, At, SubmitReturns, Goto
  <2>4. queue # <<>> => \A u \in Workers : u \notin asleep /\ pc[u] # "exited" => u \notin asleep' /\ pc'[u] # "exited"
    BY <1>1, ThreadSets DEF TypeOK, PcInv, FlagInv, SubmitRefused, At, SubmitReturns, Goto
  <2>5. UNCHANGED <<queue, active, drain, immediate>> BY DEF SubmitRefused, At, SubmitReturns, flagVars
  <2> QED BY <1>1, <2>1, <2>2, <2>3, <2>4, <2>5, WakeSame
<1> QED BY <1>3, <1>4, <1>5, <1>6, <1>7, <1>8, <1>9, <1>10 DEF IInv

LEMMA SubmitTimesOutStep ==
  ASSUME IInv, NEW t \in Threads, SubmitTimesOut(t)
  PROVE  IInv'
<1>1. TypeOK /\ PcInv /\ SubInv /\ PlaceInv /\ ActiveInv /\ FlagInv /\ DestroyInv /\ WakeInv BY DEF IInv
<1>3. PcInv'
  BY <1>1, ThreadSets DEF TypeOK, PcInv, InTask, SubmitTimesOut, SubmitReturns, Goto, subVars, SubmitPc, WorkerPc, ClientPc
<1>4. SubInv' BY <1>1, ThreadSets DEF TypeOK, PcInv, SubInv, SubmitTimesOut, SubmitReturns, subVars, SubmitPc
<1>5. PlaceInv' BY <1>1, PlaceSame DEF TypeOK, SubmitTimesOut, SubmitReturns, PcInv, SubInv, SubmitPc
<1>6. ActiveInv' /\ active' \in 0 .. Cardinality(Workers)
  BY <1>1, ThreadSets, ActiveSame DEF TypeOK, PcInv, InTask, SubmitTimesOut, SubmitReturns, Goto, SubmitPc, WorkerPc
<1>7. TypeOK' BY <1>1, ThreadSets, <1>6 DEF TypeOK, SubmitTimesOut, SubmitReturns, Goto, flagVars, subVars, SubmitPc, WorkerPc, ClientPc
<1>8. FlagInv' BY <1>1, ThreadSets DEF TypeOK, PcInv, FlagInv, SubmitTimesOut, SubmitReturns, Goto, flagVars, Stopping, On
<1>9. DestroyInv' BY <1>1, ThreadSets DEF TypeOK, PcInv, FlagInv, DestroyInv, SubmitTimesOut, SubmitReturns, Goto, flagVars
<1>10. WakeInv'
  <2>1. ~Stopping /\ ~Full => Trying \subseteq Trying'
    BY <1>1, ThreadSets DEF TypeOK, PcInv, Trying, SubmitTimesOut, SubmitReturns, Goto, SubmitPc
  <2>2. On("on_not_full")' \subseteq On("on_not_full") /\ On("on_idle")' \subseteq On("on_idle")
    BY <1>1, ThreadSets DEF TypeOK, PcInv, On, SubmitTimesOut, SubmitReturns, Goto
  <2>3. Discarding => Discarding' BY <1>1, ThreadSets DEF TypeOK, PcInv, Discarding, SubmitTimesOut, SubmitReturns, Goto
  <2>4. queue # <<>> => \A u \in Workers : u \notin asleep /\ pc[u] # "exited" => u \notin asleep' /\ pc'[u] # "exited"
    BY <1>1, ThreadSets DEF TypeOK, PcInv, FlagInv, SubmitTimesOut, SubmitReturns, Goto
  <2>5. UNCHANGED <<queue, active, drain, immediate>> BY DEF SubmitTimesOut, SubmitReturns, flagVars
  <2> QED BY <1>1, <2>1, <2>2, <2>3, <2>4, <2>5, WakeSame
<1> QED BY <1>3, <1>4, <1>5, <1>6, <1>7, <1>8, <1>9, <1>10 DEF IInv

LEMMA SubmitNeedsNodeStep ==
  ASSUME IInv, NEW t \in Threads, SubmitNeedsNode(t)
  PROVE  IInv'
<1>1. TypeOK /\ PcInv /\ SubInv /\ PlaceInv /\ ActiveInv /\ FlagInv /\ DestroyInv /\ WakeInv BY DEF IInv
<1>3. PcInv'
  BY <1>1, ThreadSets DEF TypeOK, PcInv, InTask, SubmitNeedsNode, At, Goto, subVars, SubmitPc, WorkerPc, ClientPc
<1>4. SubInv' BY <1>1, ThreadSets DEF TypeOK, PcInv, SubInv, SubmitNeedsNode, At, subVars, SubmitPc
<1>5. PlaceInv' BY <1>1, PlaceSame DEF TypeOK, SubmitNeedsNode, At
<1>6. ActiveInv' /\ active' \in 0 .. Cardinality(Workers)
  BY <1>1, ThreadSets, ActiveSame DEF TypeOK, PcInv, InTask, SubmitNeedsNode, At, Goto, SubmitPc, WorkerPc
<1>7. TypeOK' BY <1>1, ThreadSets, <1>6 DEF TypeOK, SubmitNeedsNode, At, Goto, flagVars, subVars, SubmitPc, WorkerPc, ClientPc
<1>8. FlagInv' BY <1>1, ThreadSets DEF TypeOK, PcInv, FlagInv, SubmitNeedsNode, At, Goto, flagVars, Stopping, On
<1>9. DestroyInv' BY <1>1, ThreadSets DEF TypeOK, PcInv, FlagInv, DestroyInv, SubmitNeedsNode, At, Goto, flagVars
<1>10. WakeInv'
  <2>1. ~Stopping /\ ~Full => Trying \subseteq Trying'
    BY <1>1, ThreadSets DEF TypeOK, PcInv, Trying, SubmitNeedsNode, At, Goto, SubmitPc
  <2>2. On("on_not_full")' \subseteq On("on_not_full") /\ On("on_idle")' \subseteq On("on_idle")
    BY <1>1, ThreadSets DEF TypeOK, PcInv, On, SubmitNeedsNode, At, Goto
  <2>3. Discarding => Discarding' BY <1>1, ThreadSets DEF TypeOK, PcInv, Discarding, SubmitNeedsNode, At, Goto
  <2>4. queue # <<>> => \A u \in Workers : u \notin asleep /\ pc[u] # "exited" => u \notin asleep' /\ pc'[u] # "exited"
    BY <1>1, ThreadSets DEF TypeOK, PcInv, FlagInv, SubmitNeedsNode, At, Goto
  <2>5. UNCHANGED <<queue, active, drain, immediate>> BY DEF SubmitNeedsNode, At, flagVars
  <2> QED BY <1>1, <2>1, <2>2, <2>3, <2>4, <2>5, WakeSame
<1> QED BY <1>3, <1>4, <1>5, <1>6, <1>7, <1>8, <1>9, <1>10 DEF IInv

LEMMA SubmitAllocatesStep ==
  ASSUME IInv, NEW t \in Threads, SubmitAllocates(t)
  PROVE  IInv'
<1>1. TypeOK /\ PcInv /\ SubInv /\ PlaceInv /\ ActiveInv /\ FlagInv /\ DestroyInv /\ WakeInv BY DEF IInv
<1>2. PICK to \in {"submit", "enomem"} : pc' = [pc EXCEPT ![t] = to]
  BY DEF SubmitAllocates, Goto
<1>3. PcInv'
  <2>1. pc[t] = "alloc" /\ UNCHANGED <<cur, list, sub, asleep>> BY DEF SubmitAllocates
  <2> QED BY <1>1, <1>2, <2>1, ThreadSets DEF TypeOK, PcInv, InTask, SubmitPc, WorkerPc, ClientPc
<1>4. SubInv' BY <1>1, <1>2, ThreadSets DEF TypeOK, PcInv, SubInv, SubmitAllocates, subVars, SubmitPc
<1>5. PlaceInv' BY <1>1, PlaceSame DEF TypeOK, SubmitAllocates
<1>6. ActiveInv' /\ active' \in 0 .. Cardinality(Workers)
  BY <1>1, <1>2, ThreadSets, ActiveSame DEF TypeOK, PcInv, InTask, SubmitAllocates, Goto, SubmitPc, WorkerPc
<1>7. TypeOK' BY <1>1, <1>2, ThreadSets, <1>6 DEF TypeOK, SubmitAllocates, Goto, flagVars, subVars, SubmitPc, WorkerPc, ClientPc
<1>8. FlagInv' BY <1>1, <1>2, ThreadSets DEF TypeOK, PcInv, FlagInv, SubmitAllocates, Goto, flagVars, Stopping, On
<1>9. DestroyInv' BY <1>1, <1>2, ThreadSets DEF TypeOK, PcInv, FlagInv, DestroyInv, SubmitAllocates, Goto, flagVars
<1>10. WakeInv'
  <2>1. ~Stopping /\ ~Full => Trying \subseteq Trying'
    BY <1>1, <1>2, ThreadSets DEF TypeOK, PcInv, Trying, SubmitAllocates, Goto, SubmitPc
  <2>2. On("on_not_full")' \subseteq On("on_not_full") /\ On("on_idle")' \subseteq On("on_idle")
    BY <1>1, <1>2, ThreadSets DEF TypeOK, PcInv, On, SubmitAllocates, Goto
  <2>3. Discarding => Discarding' BY <1>1, <1>2, ThreadSets DEF TypeOK, PcInv, Discarding, SubmitAllocates, Goto
  <2>4. queue # <<>> => \A u \in Workers : u \notin asleep /\ pc[u] # "exited" => u \notin asleep' /\ pc'[u] # "exited"
    BY <1>1, <1>2, ThreadSets DEF TypeOK, PcInv, FlagInv, SubmitAllocates, Goto
  <2>5. UNCHANGED <<queue, active, drain, immediate>> BY DEF SubmitAllocates, flagVars
  <2> QED BY <1>1, <2>1, <2>2, <2>3, <2>4, <2>5, WakeSame
<1> QED BY <1>3, <1>4, <1>5, <1>6, <1>7, <1>8, <1>9, <1>10 DEF IInv

LEMMA SpuriousWakeupStep ==
  ASSUME IInv, NEW t \in Threads, SpuriousWakeup(t)
  PROVE  IInv'
<1>1. TypeOK /\ PcInv /\ SubInv /\ PlaceInv /\ ActiveInv /\ FlagInv /\ DestroyInv /\ WakeInv BY DEF IInv
<1>3. PcInv'
  BY <1>1, ThreadSets DEF TypeOK, PcInv, InTask, SpuriousWakeup, Goto, subVars, SubmitPc, WorkerPc, ClientPc
<1>4. SubInv' BY <1>1, ThreadSets DEF TypeOK, PcInv, SubInv, SpuriousWakeup, subVars, SubmitPc
<1>5. PlaceInv' BY <1>1, PlaceSame DEF TypeOK, SpuriousWakeup
<1>6. ActiveInv' /\ active' \in 0 .. Cardinality(Workers)
  BY <1>1, ThreadSets, ActiveSame DEF TypeOK, PcInv, InTask, SpuriousWakeup, Goto, SubmitPc, WorkerPc
<1>7. TypeOK' BY <1>1, ThreadSets, <1>6 DEF TypeOK, SpuriousWakeup, Goto, flagVars, subVars, SubmitPc, WorkerPc, ClientPc
<1>8. FlagInv' BY <1>1, ThreadSets DEF TypeOK, PcInv, FlagInv, SpuriousWakeup, Goto, flagVars, Stopping, On
<1>9. DestroyInv' BY <1>1, ThreadSets DEF TypeOK, PcInv, FlagInv, DestroyInv, SpuriousWakeup, Goto, flagVars
<1>10. WakeInv'
  <2>1. ~Stopping /\ ~Full => Trying \subseteq Trying'
    BY <1>1, ThreadSets DEF TypeOK, PcInv, Trying, SpuriousWakeup, Goto, SubmitPc
  <2>2. On("on_not_full")' \subseteq On("on_not_full") /\ On("on_idle")' \subseteq On("on_idle")
    BY <1>1, ThreadSets DEF TypeOK, PcInv, On, SpuriousWakeup, Goto
  <2>3. Discarding => Discarding' BY <1>1, ThreadSets DEF TypeOK, PcInv, Discarding, SpuriousWakeup, Goto
  <2>4. queue # <<>> => \A u \in Workers : u \notin asleep /\ pc[u] # "exited" => u \notin asleep' /\ pc'[u] # "exited"
    BY <1>1, ThreadSets DEF TypeOK, PcInv, FlagInv, SpuriousWakeup, Goto
  <2>5. UNCHANGED <<queue, active, drain, immediate>> BY DEF SpuriousWakeup, flagVars
  <2> QED BY <1>1, <2>1, <2>2, <2>3, <2>4, <2>5, WakeSame
<1> QED BY <1>3, <1>4, <1>5, <1>6, <1>7, <1>8, <1>9, <1>10 DEF IInv

LEMMA WorkerSleepsStep ==
  ASSUME IInv, NEW w \in Workers, WorkerSleeps(w)
  PROVE  IInv'
<1>1. TypeOK /\ PcInv /\ SubInv /\ PlaceInv /\ ActiveInv /\ FlagInv /\ DestroyInv /\ WakeInv BY DEF IInv
<1>3. PcInv'
  BY <1>1, ThreadSets DEF TypeOK, PcInv, InTask, WorkerSleeps, At, Sleep, Goto, subVars, SubmitPc, WorkerPc, ClientPc
<1>4. SubInv' BY <1>1, ThreadSets DEF TypeOK, PcInv, SubInv, WorkerSleeps, At, Sleep, subVars, SubmitPc
<1>5. PlaceInv' BY <1>1, PlaceSame DEF TypeOK, WorkerSleeps, At, Sleep
<1>6. ActiveInv' /\ active' \in 0 .. Cardinality(Workers)
  BY <1>1, ThreadSets, ActiveSame DEF TypeOK, PcInv, InTask, WorkerSleeps, At, Sleep, Goto, SubmitPc, WorkerPc
<1>7. TypeOK' BY <1>1, ThreadSets, <1>6 DEF TypeOK, WorkerSleeps, At, Sleep, Goto, flagVars, subVars, SubmitPc, WorkerPc, ClientPc
<1>8. FlagInv' BY <1>1, ThreadSets DEF TypeOK, PcInv, FlagInv, WorkerSleeps, At, Sleep, Goto, flagVars, Stopping, On
<1>9. DestroyInv' BY <1>1, ThreadSets DEF TypeOK, PcInv, FlagInv, DestroyInv, WorkerSleeps, At, Sleep, Goto, flagVars
<1>10. WakeInv'
  <2>1. ~Stopping /\ ~Full => Trying \subseteq Trying'
    BY <1>1, ThreadSets DEF TypeOK, PcInv, Trying, WorkerSleeps, At, Sleep, Goto, SubmitPc
  <2>2. On("on_not_full")' \subseteq On("on_not_full") /\ On("on_idle")' \subseteq On("on_idle")
    BY <1>1, ThreadSets DEF TypeOK, PcInv, On, WorkerSleeps, At, Sleep, Goto
  <2>3. Discarding => Discarding' BY <1>1, ThreadSets DEF TypeOK, PcInv, Discarding, WorkerSleeps, At, Sleep, Goto
  <2>4. queue # <<>> => \A u \in Workers : u \notin asleep /\ pc[u] # "exited" => u \notin asleep' /\ pc'[u] # "exited"
    BY <1>1, ThreadSets DEF TypeOK, PcInv, FlagInv, WorkerSleeps, At, Sleep, Goto
  <2>5. UNCHANGED <<queue, active, drain, immediate>> BY DEF WorkerSleeps, At, Sleep, flagVars
  <2> QED BY <1>1, <2>1, <2>2, <2>3, <2>4, <2>5, WakeSame
<1> QED BY <1>3, <1>4, <1>5, <1>6, <1>7, <1>8, <1>9, <1>10 DEF IInv

LEMMA WorkerExitsStep ==
  ASSUME IInv, NEW w \in Workers, WorkerExits(w)
  PROVE  IInv'
<1>1. TypeOK /\ PcInv /\ SubInv /\ PlaceInv /\ ActiveInv /\ FlagInv /\ DestroyInv /\ WakeInv BY DEF IInv
<1>3. PcInv'
  BY <1>1, ThreadSets DEF TypeOK, PcInv, InTask, WorkerExits, At, Goto, subVars, SubmitPc, WorkerPc, ClientPc
<1>4. SubInv' BY <1>1, ThreadSets DEF TypeOK, PcInv, SubInv, WorkerExits, At, subVars, SubmitPc
<1>5. PlaceInv' BY <1>1, PlaceSame DEF TypeOK, WorkerExits, At
<1>6. ActiveInv' /\ active' \in 0 .. Cardinality(Workers)
  BY <1>1, ThreadSets, ActiveSame DEF TypeOK, PcInv, InTask, WorkerExits, At, Goto, SubmitPc, WorkerPc
<1>7. TypeOK' BY <1>1, ThreadSets, <1>6 DEF TypeOK, WorkerExits, At, Goto, flagVars, subVars, SubmitPc, WorkerPc, ClientPc
<1>8. FlagInv' BY <1>1, ThreadSets DEF TypeOK, PcInv, FlagInv, WorkerExits, At, Goto, flagVars, Stopping, On
<1>9. DestroyInv' BY <1>1, ThreadSets DEF TypeOK, PcInv, FlagInv, DestroyInv, WorkerExits, At, Goto, flagVars
<1>10. WakeInv'
  <2>1. ~Stopping /\ ~Full => Trying \subseteq Trying'
    BY <1>1, ThreadSets DEF TypeOK, PcInv, Trying, WorkerExits, At, Goto, SubmitPc
  <2>2. On("on_not_full")' \subseteq On("on_not_full") /\ On("on_idle")' \subseteq On("on_idle")
    BY <1>1, ThreadSets DEF TypeOK, PcInv, On, WorkerExits, At, Goto
  <2>3. Discarding => Discarding' BY <1>1, ThreadSets DEF TypeOK, PcInv, Discarding, WorkerExits, At, Goto
  <2>4. queue # <<>> => \A u \in Workers : u \notin asleep /\ pc[u] # "exited" => u \notin asleep' /\ pc'[u] # "exited"
    BY <1>1, ThreadSets DEF TypeOK, PcInv, FlagInv, WorkerExits, At, Goto
  <2>5. UNCHANGED <<queue, active, drain, immediate>> BY DEF WorkerExits, At, flagVars
  <2> QED BY <1>1, <2>1, <2>2, <2>3, <2>4, <2>5, WakeSame
<1> QED BY <1>3, <1>4, <1>5, <1>6, <1>7, <1>8, <1>9, <1>10 DEF IInv

LEMMA CallStep ==
  ASSUME IInv, NEW c \in Clients, NEW entry \in {"wait", "drain", "immediate"}, Call(c, entry)
  PROVE  IInv'
<1>1. TypeOK /\ PcInv /\ SubInv /\ PlaceInv /\ ActiveInv /\ FlagInv /\ DestroyInv /\ WakeInv BY DEF IInv
<1>3. PcInv'
  BY <1>1, ThreadSets DEF TypeOK, PcInv, InTask, Call, Goto, subVars, SubmitPc, WorkerPc, ClientPc
<1>4. SubInv' BY <1>1, ThreadSets DEF TypeOK, PcInv, SubInv, Call, subVars, SubmitPc
<1>5. PlaceInv' BY <1>1, PlaceSame DEF TypeOK, Call
<1>6. ActiveInv' /\ active' \in 0 .. Cardinality(Workers)
  BY <1>1, ThreadSets, ActiveSame DEF TypeOK, PcInv, InTask, Call, Goto, SubmitPc, WorkerPc
<1>7. TypeOK' BY <1>1, ThreadSets, <1>6 DEF TypeOK, Call, Goto, flagVars, subVars, SubmitPc, WorkerPc, ClientPc
<1>8. FlagInv' BY <1>1, ThreadSets DEF TypeOK, PcInv, FlagInv, Call, Goto, flagVars, Stopping, On
<1>9. DestroyInv' BY <1>1, ThreadSets DEF TypeOK, PcInv, FlagInv, DestroyInv, Call, Goto, flagVars
<1>10. WakeInv'
  <2>1. ~Stopping /\ ~Full => Trying \subseteq Trying'
    BY <1>1, ThreadSets DEF TypeOK, PcInv, Trying, Call, Goto, SubmitPc
  <2>2. On("on_not_full")' \subseteq On("on_not_full") /\ On("on_idle")' \subseteq On("on_idle")
    BY <1>1, ThreadSets DEF TypeOK, PcInv, On, Call, Goto
  <2>3. Discarding => Discarding' BY <1>1, ThreadSets DEF TypeOK, PcInv, Discarding, Call, Goto
  <2>4. queue # <<>> => \A u \in Workers : u \notin asleep /\ pc[u] # "exited" => u \notin asleep' /\ pc'[u] # "exited"
    BY <1>1, ThreadSets DEF TypeOK, PcInv, FlagInv, Call, Goto
  <2>5. UNCHANGED <<queue, active, drain, immediate>> BY DEF Call, flagVars
  <2> QED BY <1>1, <2>1, <2>2, <2>3, <2>4, <2>5, WakeSame
<1> QED BY <1>3, <1>4, <1>5, <1>6, <1>7, <1>8, <1>9, <1>10 DEF IInv

LEMMA DestroyCallStep ==
  ASSUME IInv, NEW c \in Clients, DestroyCall(c)
  PROVE  IInv'
<1>1. TypeOK /\ PcInv /\ SubInv /\ PlaceInv /\ ActiveInv /\ FlagInv /\ DestroyInv /\ WakeInv BY DEF IInv
<1>3. PcInv'
  BY <1>1, ThreadSets DEF TypeOK, PcInv, InTask, DestroyCall, Goto, subVars, SubmitPc, WorkerPc, ClientPc
<1>4. SubInv' BY <1>1, ThreadSets DEF TypeOK, PcInv, SubInv, DestroyCall, subVars, SubmitPc
<1>5. PlaceInv' BY <1>1, PlaceSame DEF TypeOK, DestroyCall
<1>6. ActiveInv' /\ active' \in 0 .. Cardinality(Workers)
  BY <1>1, ThreadSets, ActiveSame DEF TypeOK, PcInv, InTask, DestroyCall, Goto, SubmitPc, WorkerPc
<1>7. TypeOK' BY <1>1, ThreadSets, <1>6 DEF TypeOK, DestroyCall, Goto, flagVars, subVars, SubmitPc, WorkerPc, ClientPc
<1>8. FlagInv' BY <1>1, ThreadSets DEF TypeOK, PcInv, FlagInv, DestroyCall, Goto, flagVars, Stopping, On
<1>9. DestroyInv' BY <1>1, ThreadSets DEF TypeOK, PcInv, FlagInv, DestroyInv, DestroyCall, Goto, flagVars
<1>10. WakeInv'
  <2>1. ~Stopping /\ ~Full => Trying \subseteq Trying'
    BY <1>1, ThreadSets DEF TypeOK, PcInv, Trying, DestroyCall, Goto, SubmitPc
  <2>2. On("on_not_full")' \subseteq On("on_not_full") /\ On("on_idle")' \subseteq On("on_idle")
    BY <1>1, ThreadSets DEF TypeOK, PcInv, On, DestroyCall, Goto
  <2>3. Discarding => Discarding' BY <1>1, ThreadSets DEF TypeOK, PcInv, Discarding, DestroyCall, Goto
  <2>4. queue # <<>> => \A u \in Workers : u \notin asleep /\ pc[u] # "exited" => u \notin asleep' /\ pc'[u] # "exited"
    BY <1>1, ThreadSets DEF TypeOK, PcInv, FlagInv, DestroyCall, Goto
  <2>5. UNCHANGED <<queue, active, drain, immediate>> BY DEF DestroyCall, flagVars
  <2> QED BY <1>1, <2>1, <2>2, <2>3, <2>4, <2>5, WakeSame
<1> QED BY <1>3, <1>4, <1>5, <1>6, <1>7, <1>8, <1>9, <1>10 DEF IInv

LEMMA JoinStep ==
  ASSUME IInv, NEW c \in Clients, Join(c)
  PROVE  IInv'
<1>1. TypeOK /\ PcInv /\ SubInv /\ PlaceInv /\ ActiveInv /\ FlagInv /\ DestroyInv /\ WakeInv BY DEF IInv
<1>3. PcInv'
  BY <1>1, ThreadSets DEF TypeOK, PcInv, InTask, Join, Goto, subVars, SubmitPc, WorkerPc, ClientPc
<1>4. SubInv' BY <1>1, ThreadSets DEF TypeOK, PcInv, SubInv, Join, subVars, SubmitPc
<1>5. PlaceInv' BY <1>1, PlaceSame DEF TypeOK, Join
<1>6. ActiveInv' /\ active' \in 0 .. Cardinality(Workers)
  BY <1>1, ThreadSets, ActiveSame DEF TypeOK, PcInv, InTask, Join, Goto, SubmitPc, WorkerPc
<1>7. TypeOK' BY <1>1, ThreadSets, <1>6 DEF TypeOK, Join, Goto, flagVars, subVars, SubmitPc, WorkerPc, ClientPc
<1>8. FlagInv' BY <1>1, ThreadSets DEF TypeOK, PcInv, FlagInv, Join, Goto, flagVars, Stopping, On
<1>9. DestroyInv' BY <1>1, ThreadSets DEF TypeOK, PcInv, FlagInv, DestroyInv, Join, Goto, flagVars
<1>10. WakeInv'
  <2>1. ~Stopping /\ ~Full => Trying \subseteq Trying'
    BY <1>1, ThreadSets DEF TypeOK, PcInv, Trying, Join, Goto, SubmitPc
  <2>2. On("on_not_full")' \subseteq On("on_not_full") /\ On("on_idle")' \subseteq On("on_idle")
    BY <1>1, ThreadSets DEF TypeOK, PcInv, On, Join, Goto
  <2>3. Discarding => Discarding' BY <1>1, ThreadSets DEF TypeOK, PcInv, Discarding, Join, Goto
  <2>4. queue # <<>> => \A u \in Workers : u \notin asleep /\ pc[u] # "exited" => u \notin asleep' /\ pc'[u] # "exited"
    BY <1>1, ThreadSets DEF TypeOK, PcInv, FlagInv, Join, Goto
  <2>5. UNCHANGED <<queue, active, drain, immediate>> BY DEF Join, flagVars
  <2> QED BY <1>1, <2>1, <2>2, <2>3, <2>4, <2>5, WakeSame
<1> QED BY <1>3, <1>4, <1>5, <1>6, <1>7, <1>8, <1>9, <1>10 DEF IInv

LEMMA MarkCompleteStep ==
  ASSUME IInv, NEW c \in Clients, MarkComplete(c)
  PROVE  IInv'
<1>1. TypeOK /\ PcInv /\ SubInv /\ PlaceInv /\ ActiveInv /\ FlagInv /\ DestroyInv /\ WakeInv BY DEF IInv
<1>3. PcInv'
  BY <1>1, ThreadSets DEF TypeOK, PcInv, InTask, MarkComplete, AfterShutdown, Broadcast, Goto, subVars, SubmitPc, WorkerPc, ClientPc
<1>4. SubInv' BY <1>1, ThreadSets DEF TypeOK, PcInv, SubInv, MarkComplete, AfterShutdown, Broadcast, subVars, SubmitPc
<1>5. PlaceInv' BY <1>1, PlaceSame DEF TypeOK, MarkComplete, AfterShutdown, Broadcast
<1>6. ActiveInv' /\ active' \in 0 .. Cardinality(Workers)
  BY <1>1, ThreadSets, ActiveSame DEF TypeOK, PcInv, InTask, MarkComplete, AfterShutdown, Broadcast, Goto, SubmitPc, WorkerPc
<1>7. TypeOK' BY <1>1, ThreadSets, <1>6 DEF TypeOK, MarkComplete, AfterShutdown, Broadcast, Goto, flagVars, subVars, SubmitPc, WorkerPc, ClientPc
<1>8. FlagInv' BY <1>1, ThreadSets DEF TypeOK, PcInv, FlagInv, MarkComplete, AfterShutdown, Broadcast, Goto, flagVars, Stopping, On
<1>9. DestroyInv' BY <1>1, ThreadSets DEF TypeOK, PcInv, FlagInv, DestroyInv, MarkComplete, AfterShutdown, Broadcast, Goto, flagVars
<1>10. WakeInv'
  <2>1. ~Stopping /\ ~Full => Trying \subseteq Trying'
    BY <1>1, ThreadSets DEF TypeOK, PcInv, Trying, MarkComplete, AfterShutdown, Broadcast, Goto, SubmitPc
  <2>2. On("on_not_full")' \subseteq On("on_not_full") /\ On("on_idle")' \subseteq On("on_idle")
    BY <1>1, ThreadSets DEF TypeOK, PcInv, On, MarkComplete, AfterShutdown, Broadcast, Goto
  <2>3. Discarding => Discarding' BY <1>1, ThreadSets DEF TypeOK, PcInv, Discarding, MarkComplete, AfterShutdown, Broadcast, Goto
  <2>4. queue # <<>> => \A u \in Workers : u \notin asleep /\ pc[u] # "exited" => u \notin asleep' /\ pc'[u] # "exited"
    BY <1>1, ThreadSets DEF TypeOK, PcInv, FlagInv, MarkComplete, AfterShutdown, Broadcast, Goto
  <2>5. UNCHANGED <<queue, active, drain, immediate>> BY DEF MarkComplete, AfterShutdown, Broadcast, flagVars
  <2> QED BY <1>1, <2>1, <2>2, <2>3, <2>4, <2>5, WakeSame
<1> QED BY <1>3, <1>4, <1>5, <1>6, <1>7, <1>8, <1>9, <1>10 DEF IInv

LEMMA DestroyFreesStep ==
  ASSUME IInv, NEW c \in Clients, DestroyFrees(c)
  PROVE  IInv'
<1>1. TypeOK /\ PcInv /\ SubInv /\ PlaceInv /\ ActiveInv /\ FlagInv /\ DestroyInv /\ WakeInv BY DEF IInv
<1>3. PcInv'
  BY <1>1, ThreadSets DEF TypeOK, PcInv, InTask, DestroyFrees, Pinning, Goto, subVars, SubmitPc, WorkerPc, ClientPc
<1>4. SubInv' BY <1>1, ThreadSets DEF TypeOK, PcInv, SubInv, DestroyFrees, Pinning, subVars, SubmitPc
<1>5. PlaceInv' BY <1>1, PlaceSame DEF TypeOK, DestroyFrees, Pinning
<1>6. ActiveInv' /\ active' \in 0 .. Cardinality(Workers)
  BY <1>1, ThreadSets, ActiveSame DEF TypeOK, PcInv, InTask, DestroyFrees, Pinning, Goto, SubmitPc, WorkerPc
<1>7. TypeOK' BY <1>1, ThreadSets, <1>6 DEF TypeOK, DestroyFrees, Pinning, Goto, flagVars, subVars, SubmitPc, WorkerPc, ClientPc
<1>8. FlagInv' BY <1>1, ThreadSets DEF TypeOK, PcInv, FlagInv, DestroyFrees, Pinning, Goto, flagVars, Stopping, On
<1>9. DestroyInv' BY <1>1, ThreadSets DEF TypeOK, PcInv, FlagInv, DestroyInv, DestroyFrees, Pinning, Goto, flagVars
<1>10. WakeInv'
  <2>1. ~Stopping /\ ~Full => Trying \subseteq Trying'
    BY <1>1, ThreadSets DEF TypeOK, PcInv, Trying, DestroyFrees, Pinning, Goto, SubmitPc
  <2>2. On("on_not_full")' \subseteq On("on_not_full") /\ On("on_idle")' \subseteq On("on_idle")
    BY <1>1, ThreadSets DEF TypeOK, PcInv, On, DestroyFrees, Pinning, Goto
  <2>3. Discarding => Discarding' BY <1>1, ThreadSets DEF TypeOK, PcInv, Discarding, DestroyFrees, Pinning, Goto
  <2>4. queue # <<>> => \A u \in Workers : u \notin asleep /\ pc[u] # "exited" => u \notin asleep' /\ pc'[u] # "exited"
    BY <1>1, ThreadSets DEF TypeOK, PcInv, FlagInv, DestroyFrees, Pinning, Goto
  <2>5. UNCHANGED <<queue, active, drain, immediate>> BY DEF DestroyFrees, Pinning, flagVars
  <2> QED BY <1>1, <2>1, <2>2, <2>3, <2>4, <2>5, WakeSame
<1> QED BY <1>3, <1>4, <1>5, <1>6, <1>7, <1>8, <1>9, <1>10 DEF IInv

LEMMA ShutdownWaitStep ==
  ASSUME IInv, NEW c \in Clients, ShutdownWait(c)
  PROVE  IInv'
<1>1. TypeOK /\ PcInv /\ SubInv /\ PlaceInv /\ ActiveInv /\ FlagInv /\ DestroyInv /\ WakeInv BY DEF IInv
<1>2. /\ pc[c] = "on_shutdown" /\ c \notin asleep /\ AwaitComplete(c, asleep)
      /\ UNCHANGED <<queue, active, drain, immediate, started, complete, live, freed, cur, sub, mode, spare,
                     list, destroying, status, outcome>>
  BY DEF ShutdownWait, flagVars, subVars
<1>3. PICK to \in {"pins", "idle", "on_shutdown"} :
        /\ pc' = [pc EXCEPT ![c] = to]
        /\ to = "pins" => complete /\ destroying[c]
        /\ IF to = "on_shutdown" THEN ~complete /\ asleep' = asleep \cup {c} ELSE asleep' = asleep
  BY <1>1, <1>2 DEF AwaitComplete, AfterShutdown, Goto
<1>4. to \in ClientPc /\ pc[c] \in ClientPc /\ (c \in asleep' => to = "on_shutdown")
  BY <1>2, <1>3 DEF ClientPc
<1>5. \A d \in Clients : list'[d] # <<>> => IF d = c THEN to \in {"discard", "escalate"} ELSE list[d] # <<>>
  BY <1>1, <1>2 DEF PcInv
<1>6. /\ PcInv' /\ ActiveInv' /\ active' \in 0 .. Cardinality(Workers)
      /\ pc' \in [Threads -> WorkerPc \cup SubmitPc \cup ClientPc] /\ asleep' \subseteq Threads
      /\ pc'[c] = to /\ \A t \in Threads \ {c} : pc'[t] = pc[t]
      /\ Trying \ asleep' \subseteq Trying'
  BY <1>1, <1>2, <1>3, <1>4, <1>5, ClientMoves
<1>7. TypeOK' BY <1>1, <1>2, <1>6 DEF TypeOK
<1>8. SubInv' /\ PlaceInv' BY <1>1, <1>2, PlaceSame DEF SubInv
<1>9. FlagInv' BY <1>1, <1>2, <1>3, <1>6, ThreadSets DEF TypeOK, FlagInv, Stopping, On
<1>10. DestroyInv' BY <1>1, <1>2, <1>3, <1>6, ThreadSets DEF DestroyInv
<1>11. WakeInv'
  <2>1. Trying \subseteq Trying' BY <1>2, <1>3, <1>6 DEF Trying, SubmitPc
  <2>2. On("on_not_full")' \subseteq On("on_not_full") /\ On("on_idle")' \subseteq On("on_idle")
    BY <1>1, <1>2, <1>3, <1>6 DEF TypeOK, On
  <2>3. Discarding => Discarding' BY <1>2, <1>6, ThreadSets DEF Discarding
  <2>4. \A w \in Workers : w \notin asleep /\ pc[w] # "exited" => w \notin asleep' /\ pc'[w] # "exited"
    BY <1>3, <1>6, ThreadSets
  <2> QED BY <1>1, <1>2, <2>1, <2>2, <2>3, <2>4, WakeSame
<1> QED BY <1>6, <1>7, <1>8, <1>9, <1>10, <1>11 DEF IInv

LEMMA WaitStep ==
  ASSUME IInv, NEW c \in Clients, Wait(c)
  PROVE  IInv'
<1>1. TypeOK /\ PcInv /\ SubInv /\ PlaceInv /\ ActiveInv /\ FlagInv /\ DestroyInv /\ WakeInv BY DEF IInv
<1>2. /\ pc[c] \in {"wait", "on_idle"} /\ c \notin asleep
      /\ UNCHANGED <<queue, active, drain, immediate, started, complete, live, freed, cur, sub, mode, spare,
                     list, destroying, status, outcome>>
  BY <1>1 DEF Wait, At, PcInv, flagVars, subVars
<1>3. PICK to \in {"on_idle", "idle"} :
        /\ pc' = [pc EXCEPT ![c] = to]
        /\ IF to = "on_idle" THEN (active > 0 \/ queue # <<>>) /\ asleep' = asleep \cup {c} ELSE asleep' = asleep
  BY <1>1, <1>2 DEF Wait, Sleep, Goto
<1>4. to \in ClientPc /\ pc[c] \in ClientPc /\ (c \in asleep' => to = "on_idle")
  BY <1>2, <1>3 DEF ClientPc
<1>5. \A d \in Clients : list'[d] # <<>> => IF d = c THEN to \in {"discard", "escalate"} ELSE list[d] # <<>>
  BY <1>1, <1>2 DEF PcInv
<1>6. /\ PcInv' /\ ActiveInv' /\ active' \in 0 .. Cardinality(Workers)
      /\ pc' \in [Threads -> WorkerPc \cup SubmitPc \cup ClientPc] /\ asleep' \subseteq Threads
      /\ pc'[c] = to /\ \A t \in Threads \ {c} : pc'[t] = pc[t]
      /\ Trying \ asleep' \subseteq Trying'
  BY <1>1, <1>2, <1>3, <1>4, <1>5, ClientMoves
<1>7. TypeOK' BY <1>1, <1>2, <1>6 DEF TypeOK
<1>8. SubInv' /\ PlaceInv' BY <1>1, <1>2, PlaceSame DEF SubInv
<1>9. FlagInv' BY <1>1, <1>2, <1>3, <1>6, ThreadSets DEF TypeOK, FlagInv, Stopping, On
<1>10. DestroyInv' BY <1>1, <1>2, <1>3, <1>6, ThreadSets DEF DestroyInv
<1>11. WakeInv'
  <2>1. Trying' = Trying BY <1>2, <1>3, <1>6 DEF Trying, SubmitPc
  <2>2. On("on_not_full")' = On("on_not_full")
    BY <1>1, <1>2, <1>3, <1>6 DEF TypeOK, On
  <2>3. On("on_idle")' # {} => On("on_idle") # {} \/ active > 0 \/ queue # <<>>
    BY <1>1, <1>2, <1>3, <1>6 DEF TypeOK, On
  <2>4. Discarding' <=> Discarding BY <1>2, <1>3, <1>6, ThreadSets DEF Discarding
  <2>5. \A w \in Workers : w \notin asleep /\ pc[w] # "exited" => w \notin asleep' /\ pc'[w] # "exited"
    BY <1>3, <1>6, ThreadSets
  <2> QED BY <1>1, <1>2, <2>1, <2>2, <2>3, <2>4, <2>5 DEF WakeInv, Stopping
<1> QED BY <1>6, <1>7, <1>8, <1>9, <1>10, <1>11 DEF IInv

LEMMA ShutdownDrainStep ==
  ASSUME IInv, NEW c \in Clients, ShutdownDrain(c)
  PROVE  IInv'
<1>1. TypeOK /\ PcInv /\ SubInv /\ PlaceInv /\ ActiveInv /\ FlagInv /\ DestroyInv /\ WakeInv BY DEF IInv
<1>2. /\ pc[c] = "drain" /\ c \notin asleep
      /\ UNCHANGED <<queue, active, immediate, complete, live, freed, cur, sub, mode, spare,
                     list, destroying, status, outcome>>
  BY <1>1 DEF ShutdownDrain, PcInv, flagVars, subVars
<1>3. PICK to \in {"pins", "idle", "on_shutdown", "join"} :
        /\ pc' = [pc EXCEPT ![c] = to]
        /\ to = "pins" => complete /\ destroying[c]
        /\ to # "join" => started /\ UNCHANGED <<drain, started>>
        /\ to \in {"pins", "idle"} => asleep' = asleep
        /\ to = "on_shutdown" => ~complete /\ asleep' = asleep \cup {c}
        /\ to = "join" => /\ ~started /\ drain' = TRUE /\ started' = TRUE
                          /\ asleep' = Broadcast({"on_not_empty", "on_not_full"})
  <2>1. CASE started
    <3>1. AwaitComplete(c, asleep) /\ UNCHANGED <<drain, started>> BY <2>1 DEF ShutdownDrain, flagVars
    <3> QED BY <2>1, <3>1 DEF AwaitComplete, AfterShutdown, Goto
  <2>2. CASE ~started BY <2>2 DEF ShutdownDrain, Goto
  <2> QED BY <2>1, <2>2
<1>4. to \in ClientPc /\ pc[c] \in ClientPc /\ (c \in asleep' => to = "on_shutdown") /\ asleep' \subseteq asleep \cup {c}
  BY <1>2, <1>3 DEF ClientPc, Broadcast
<1>5. \A d \in Clients : list'[d] # <<>> => IF d = c THEN to \in {"discard", "escalate"} ELSE list[d] # <<>>
  BY <1>1, <1>2 DEF PcInv
<1>6. /\ PcInv' /\ ActiveInv' /\ active' \in 0 .. Cardinality(Workers)
      /\ pc' \in [Threads -> WorkerPc \cup SubmitPc \cup ClientPc] /\ asleep' \subseteq Threads
      /\ pc'[c] = to /\ \A t \in Threads \ {c} : pc'[t] = pc[t]
      /\ Trying \ asleep' \subseteq Trying'
  BY <1>1, <1>2, <1>3, <1>4, <1>5, ClientMoves
<1>7. TypeOK'
  <2>1. drain' \in BOOLEAN /\ started' \in BOOLEAN BY <1>1, <1>3 DEF TypeOK
  <2> QED BY <1>1, <1>2, <1>6, <2>1 DEF TypeOK
<1>8. SubInv' /\ PlaceInv' BY <1>1, <1>2, PlaceSame DEF SubInv
<1>9. FlagInv'
  <2>1. CASE to = "join"
    <3>1. On("on_not_empty")' = {} BY <1>3, <1>6, <1>2, <2>1 DEF On, Broadcast
    <3>2. ~complete /\ ~immediate /\ drain' /\ started' BY <1>1, <1>3, <2>1 DEF FlagInv, Stopping
    <3>3. \A d \in Clients : pc[d] \notin {"on_shutdown", "discard", "escalate", "join", "mark"}
      BY <1>1, <1>3, <2>1 DEF FlagInv
    <3>4. \A w \in Workers : pc'[w] # "exited" BY <1>1, <1>3, <1>6, <2>1, ThreadSets DEF FlagInv, Stopping
    <3> QED BY <1>2, <1>3, <1>6, <2>1, <3>1, <3>2, <3>3, <3>4, ThreadSets DEF FlagInv, Stopping
  <2>2. CASE to # "join" BY <1>1, <1>2, <1>3, <1>6, <2>2, ThreadSets DEF TypeOK, FlagInv, Stopping, On
  <2> QED BY <2>1, <2>2
<1>10. DestroyInv' BY <1>1, <1>2, <1>3, <1>6, ThreadSets DEF DestroyInv
<1>11. WakeInv'
  <2>1. CASE to = "join"
    <3>1. On("on_not_full")' = {} BY <1>3, <1>6, <1>2, <2>1 DEF On, Broadcast
    <3>2. On("on_idle")' \subseteq On("on_idle") BY <1>1, <1>3, <1>6, <1>2, <2>1 DEF On, Broadcast, TypeOK
    <3>3. Discarding => Discarding' BY <1>2, <1>6, ThreadSets DEF Discarding
    <3>4. \A w \in Workers : w \notin asleep /\ pc[w] # "exited" => w \notin asleep' /\ pc'[w] # "exited"
      BY <1>3, <1>6, <2>1, ThreadSets DEF Broadcast
    <3> QED BY <1>1, <1>2, <3>1, <3>2, <3>3, <3>4 DEF WakeInv
  <2>2. CASE to # "join"
    <3>1. Trying \subseteq Trying' BY <1>2, <1>3, <1>6, <2>2 DEF Trying, SubmitPc
    <3>2. On("on_not_full")' \subseteq On("on_not_full") /\ On("on_idle")' \subseteq On("on_idle")
      BY <1>1, <1>2, <1>3, <1>6, <2>2 DEF TypeOK, On
    <3>3. Discarding => Discarding' BY <1>2, <1>6, ThreadSets DEF Discarding
    <3>4. \A w \in Workers : w \notin asleep /\ pc[w] # "exited" => w \notin asleep' /\ pc'[w] # "exited"
      BY <1>3, <1>6, <2>2, ThreadSets
    <3> QED BY <1>1, <1>2, <1>3, <2>2, <3>1, <3>2, <3>3, <3>4, WakeSame
  <2> QED BY <2>1, <2>2
<1> QED BY <1>6, <1>7, <1>8, <1>9, <1>10, <1>11 DEF IInv

LEMMA DiscardDoneStep ==
  ASSUME IInv, NEW c \in Clients, DiscardDone(c)
  PROVE  IInv'
<1> DEFINE cvs == {"on_not_empty", "on_not_full"} \cup (IF active = 0 THEN {"on_idle"} ELSE {})
<1>1. TypeOK /\ PcInv /\ SubInv /\ PlaceInv /\ ActiveInv /\ FlagInv /\ DestroyInv /\ WakeInv BY DEF IInv
<1>2. /\ pc[c] \in {"discard", "escalate"} /\ c \notin asleep /\ list[c] = <<>>
      /\ UNCHANGED <<queue, active, drain, immediate, started, complete, live, freed, cur, sub, mode, spare,
                     list, destroying, status, outcome>>
  BY <1>1 DEF DiscardDone, PcInv, flagVars, subVars
<1>3. PICK to \in {"pins", "idle", "on_shutdown", "join"} :
        /\ pc' = [pc EXCEPT ![c] = to]
        /\ to = "pins" => complete /\ destroying[c]
        /\ to = "join" <=> pc[c] = "discard"
        /\ to = "on_shutdown" => ~complete
        /\ asleep' = IF to = "on_shutdown" THEN Broadcast(cvs) \cup {c} ELSE Broadcast(cvs)
  <2>1. CASE pc[c] = "escalate"
    <3>1. AwaitComplete(c, Broadcast(cvs)) BY <2>1 DEF DiscardDone
    <3> HIDE DEF cvs
    <3> QED BY <2>1, <3>1 DEF AwaitComplete, AfterShutdown, Goto
  <2>2. CASE pc[c] = "discard" BY <2>2 DEF DiscardDone, Goto
  <2> QED BY <1>2, <2>1, <2>2
<1>4. to \in ClientPc /\ pc[c] \in ClientPc /\ (c \in asleep' => to = "on_shutdown") /\ asleep' \subseteq asleep \cup {c}
  BY <1>2, <1>3 DEF ClientPc, Broadcast
<1>5. \A d \in Clients : list'[d] # <<>> => IF d = c THEN to \in {"discard", "escalate"} ELSE list[d] # <<>>
  BY <1>1, <1>2 DEF PcInv
<1>6. /\ PcInv' /\ ActiveInv' /\ active' \in 0 .. Cardinality(Workers)
      /\ pc' \in [Threads -> WorkerPc \cup SubmitPc \cup ClientPc] /\ asleep' \subseteq Threads
      /\ pc'[c] = to /\ \A t \in Threads \ {c} : pc'[t] = pc[t]
      /\ Trying \ asleep' \subseteq Trying'
  BY <1>1, <1>2, <1>3, <1>4, <1>5, ClientMoves
<1>7. TypeOK' BY <1>1, <1>2, <1>6 DEF TypeOK
<1>8. SubInv' /\ PlaceInv' BY <1>1, <1>2, PlaceSame DEF SubInv
<1>12. /\ On("on_not_empty")' = {} /\ On("on_not_full")' = {} /\ (active = 0 => On("on_idle")' = {})
       /\ On("on_idle")' \subseteq On("on_idle")
  BY <1>1, <1>2, <1>3, <1>6 DEF On, Broadcast, TypeOK
<1>13. complete => On("on_shutdown")' \subseteq On("on_shutdown")
  BY <1>1, <1>2, <1>3, <1>6 DEF On, Broadcast, TypeOK
<1>9. FlagInv' BY <1>1, <1>2, <1>3, <1>6, <1>12, <1>13, ThreadSets DEF FlagInv, Stopping
<1>10. DestroyInv' BY <1>1, <1>2, <1>3, <1>6, ThreadSets DEF DestroyInv
<1>11. WakeInv'
  <2>1. \A w \in Workers : w \notin asleep /\ pc[w] # "exited" => w \notin asleep' /\ pc'[w] # "exited"
    BY <1>3, <1>4, <1>6, ThreadSets
  <2>2. active \in Nat BY <1>1, BusyFinite DEF ActiveInv
  <2> QED BY <1>1, <1>2, <1>12, <2>1, <2>2 DEF WakeInv
<1> QED BY <1>6, <1>7, <1>8, <1>9, <1>10, <1>11 DEF IInv

LEMMA ShutdownImmediateStep ==
  ASSUME IInv, NEW c \in Clients, ShutdownImmediate(c)
  PROVE  IInv'
<1>1. TypeOK /\ PcInv /\ SubInv /\ PlaceInv /\ ActiveInv /\ FlagInv /\ DestroyInv /\ WakeInv BY DEF IInv
<1>2. /\ pc[c] = "immediate" /\ c \notin asleep /\ list[c] = <<>>
      /\ UNCHANGED <<active, drain, complete, live, freed, cur, sub, mode, spare, destroying, status, outcome>>
  BY <1>1 DEF ShutdownImmediate, PcInv, flagVars, subVars
<1>3. PICK to \in {"pins", "idle", "on_shutdown", "discard", "escalate"} :
        /\ pc' = [pc EXCEPT ![c] = to]
        /\ to = "pins" => complete /\ destroying[c]
        /\ to \in {"pins", "idle", "on_shutdown"} => started /\ UNCHANGED <<immediate, started, queue, list>>
        /\ asleep' = IF to = "on_shutdown" THEN asleep \cup {c} ELSE asleep
        /\ to = "on_shutdown" => ~complete
        /\ to \in {"discard", "escalate"} => /\ immediate' = TRUE /\ started' = TRUE /\ queue' = <<>>
                                             /\ list' = [list EXCEPT ![c] = queue]
                                             /\ started <=> to = "escalate"
  <2>1. CASE started /\ immediate
    <3>1. AwaitComplete(c, asleep) /\ UNCHANGED <<immediate, started, queue, list>>
      BY <2>1 DEF ShutdownImmediate, flagVars
    <3> QED BY <2>1, <3>1 DEF AwaitComplete, AfterShutdown, Goto
  <2>2. CASE ~(started /\ immediate)
    BY <2>2 DEF ShutdownImmediate, Goto
  <2> QED BY <2>1, <2>2
<1>4. to \in ClientPc /\ pc[c] \in ClientPc /\ (c \in asleep' => to = "on_shutdown") /\ asleep' \subseteq asleep \cup {c}
  BY <1>2, <1>3 DEF ClientPc
<1>5. \A d \in Clients : list'[d] # <<>> => IF d = c THEN to \in {"discard", "escalate"} ELSE list[d] # <<>>
  BY <1>1, <1>2, <1>3 DEF PcInv, TypeOK
<1>6. /\ PcInv' /\ ActiveInv' /\ active' \in 0 .. Cardinality(Workers)
      /\ pc' \in [Threads -> WorkerPc \cup SubmitPc \cup ClientPc] /\ asleep' \subseteq Threads
      /\ pc'[c] = to /\ \A t \in Threads \ {c} : pc'[t] = pc[t]
      /\ Trying \ asleep' \subseteq Trying'
  BY <1>1, <1>2, <1>3, <1>4, <1>5, ClientMoves
<1>7. SubInv' BY <1>1, <1>2 DEF SubInv
<1>8. DestroyInv' BY <1>1, <1>2, <1>3, <1>6, ThreadSets DEF DestroyInv
<1>9. CASE to \in {"pins", "idle", "on_shutdown"}
  <2>1. UNCHANGED <<immediate, started, queue, list>> BY <1>3, <1>9
  <2>2. TypeOK' BY <1>1, <1>2, <1>6, <2>1 DEF TypeOK
  <2>3. PlaceInv' BY <1>1, <1>2, <2>1, PlaceSame
  <2>4. FlagInv' BY <1>1, <1>2, <1>3, <1>6, <1>9, <2>1, ThreadSets DEF TypeOK, FlagInv, Stopping, On
  <2>5. WakeInv'
    <3>1. Trying \subseteq Trying' BY <1>2, <1>3, <1>6, <1>9 DEF Trying, SubmitPc
    <3>2. On("on_not_full")' \subseteq On("on_not_full") /\ On("on_idle")' \subseteq On("on_idle")
      BY <1>1, <1>2, <1>3, <1>6, <1>9 DEF TypeOK, On
    <3>3. Discarding => Discarding' BY <1>2, <1>6, ThreadSets DEF Discarding
    <3>4. \A w \in Workers : w \notin asleep /\ pc[w] # "exited" => w \notin asleep' /\ pc'[w] # "exited"
      BY <1>3, <1>6, ThreadSets
    <3> QED BY <1>1, <1>2, <2>1, <3>1, <3>2, <3>3, <3>4, WakeSame
  <2> QED BY <1>6, <1>7, <1>8, <2>2, <2>3, <2>4, <2>5 DEF IInv
<1>10. CASE to \in {"discard", "escalate"}
  <2>1. /\ immediate' = TRUE /\ started' = TRUE /\ queue' = <<>> /\ asleep' = asleep
        /\ list' = [list EXCEPT ![c] = queue] /\ (started <=> to = "escalate")
    BY <1>3, <1>10
  <2>2. /\ list' \in [Clients -> Seq(Tasks)] /\ list'[c] = queue /\ queue \in Seq(Tasks)
        /\ \A d \in Clients \ {c} : list'[d] = list[d]
    BY <1>1, <2>1 DEF TypeOK
  <2>3. <<>> \in Seq(Tasks) /\ Len(<<>>) = 0 BY EmptySeq
  <2>4. TypeOK'
    <3>1. queue' \in Seq(Tasks) /\ Len(queue') = 0 BY <2>1, <2>3
    <3>2. Cap > 0 => Len(queue') <= Cap BY <3>1, PoolAssumption
    <3>3. immediate' \in BOOLEAN /\ started' \in BOOLEAN BY <2>1
    <3> QED BY <1>1, <1>2, <1>6, <2>2, <3>1, <3>2, <3>3 DEF TypeOK
  <2>5. PlaceInv'
    <3>1. Elems(queue)' = {} /\ Distinct(queue)' BY <2>1, <2>3 DEF Elems, Distinct
    <3>2. /\ Elems(list[c])' = Elems(queue) /\ Distinct(list[c])' /\ Elems(list[c]) = {}
          /\ \A d \in Clients \ {c} : Elems(list[d])' = Elems(list[d]) /\ Distinct(list[d])'
      BY <1>1, <1>2, <2>2, <2>3 DEF PlaceInv, Elems, Distinct
    <3>3. \A k \in Elems(queue) : k \in Tasks BY <2>2, ElementOfSeq DEF Elems
    <3>4. \A k \in Tasks : /\ ~Queued(k)' /\ (Run(k)' <=> Run(k)) /\ (Completed(k)' <=> Completed(k))
                           /\ Stolen(k)' <=> Stolen(k) \/ Queued(k)
      BY <1>2, <3>1, <3>2 DEF Queued, Run, Completed, Stolen
    <3>5. \A d, e \in Clients : \A k \in Elems(list[d])' : k \in Elems(list[e])' => d = e
      BY <1>1, <3>2, <3>3 DEF PlaceInv, Stolen, Queued
    <3> QED BY <1>1, <1>2, <3>1, <3>2, <3>4, <3>5 DEF PlaceInv
  <2>6. On("on_not_empty")' = On("on_not_empty") /\ On("on_shutdown")' = On("on_shutdown")
        /\ On("on_not_full")' = On("on_not_full") /\ On("on_idle")' = On("on_idle")
    BY <1>1, <1>2, <1>6, <2>1 DEF On, TypeOK
  <2>7. FlagInv' BY <1>1, <1>2, <1>6, <1>10, <2>1, <2>6, ThreadSets DEF FlagInv, Stopping
  <2>8. Discarding' BY <1>6, <1>10 DEF Discarding
  <2>9. WakeInv' BY <1>1, <1>2, <2>1, <2>6, <2>8 DEF WakeInv, Stopping
  <2> QED BY <1>6, <1>7, <1>8, <2>4, <2>5, <2>7, <2>9 DEF IInv
<1> QED BY <1>9, <1>10

LEMMA DiscardStep ==
  ASSUME IInv, NEW c \in Clients, Discard(c)
  PROVE  IInv'
<1> DEFINE k == Head(list[c])
<1>1. TypeOK /\ PcInv /\ SubInv /\ PlaceInv /\ ActiveInv /\ FlagInv /\ DestroyInv /\ WakeInv BY DEF IInv
<1>2. /\ pc[c] \in {"discard", "escalate"} /\ list[c] # <<>>
      /\ outcome' = [outcome EXCEPT ![k] = "discarded"]
      /\ list' = [list EXCEPT ![c] = Tail(list[c])]
      /\ UNCHANGED <<queue, active, drain, immediate, started, complete, live, freed, pc, asleep, cur,
                     sub, mode, spare, destroying, status>>
  BY DEF Discard, flagVars, subVars
<1>3. list[c] \in Seq(Tasks) /\ Distinct(list[c]) BY <1>1 DEF TypeOK, PlaceInv
<1>4. /\ k \in Tasks /\ k \in Elems(list[c])
      /\ Tail(list[c]) \in Seq(Tasks) /\ Distinct(Tail(list[c]))
      /\ Elems(Tail(list[c])) = Elems(list[c]) \ {k}
  BY <1>2, <1>3, TailElems
<1> HIDE DEF k
<1>5. /\ list' \in [Clients -> Seq(Tasks)] /\ list'[c] = Tail(list[c])
      /\ \A d \in Clients \ {c} : list'[d] = list[d]
      /\ outcome' \in [Tasks -> {"none", "ran", "discarded"}] /\ outcome'[k] = "discarded"
      /\ \A j \in Tasks \ {k} : outcome'[j] = outcome[j]
  BY <1>1, <1>2, <1>4 DEF TypeOK
<1>6. TypeOK' BY <1>1, <1>2, <1>5 DEF TypeOK
<1>7. PcInv' BY <1>1, <1>2, <1>5 DEF PcInv, InTask
<1>8. SubInv' /\ DestroyInv' /\ FlagInv' BY <1>1, <1>2 DEF SubInv, DestroyInv, FlagInv, Stopping, On
<1>9. ActiveInv' BY <1>1, <1>2 DEF ActiveInv, BusyWorkers, InTask
<1>10. WakeInv'
  BY <1>1, <1>2, WakeSame DEF On, Trying, Discarding
<1>11. PlaceInv'
  <2>1. Elems(queue)' = Elems(queue) /\ Distinct(queue)' BY <1>1, <1>2 DEF PlaceInv, Elems, Distinct
  <2>2. /\ Elems(list[c])' = Elems(list[c]) \ {k} /\ Distinct(list[c])'
        /\ \A d \in Clients \ {c} : Elems(list[d])' = Elems(list[d]) /\ Distinct(list[d])'
    <3>4. Elems(list[c])' = Elems(list'[c]) /\ (Distinct(list'[c]) => Distinct(list[c])') BY DEF Elems, Distinct
    <3>1. Elems(list[c])' = Elems(list[c]) \ {k} /\ Distinct(list[c])' BY <1>4, <1>5, <3>4
    <3>2. \A d \in Clients \ {c} : Elems(list[d])' = Elems(list[d]) BY <1>5 DEF Elems
    <3>3. \A d \in Clients \ {c} : Distinct(list[d])' BY <1>1, <1>5 DEF PlaceInv, Distinct
    <3> QED BY <3>1, <3>2, <3>3
  <2>3. \A d \in Clients \ {c} : k \notin Elems(list[d]) BY <1>1, <1>4 DEF PlaceInv
  <2>4. \A j \in Tasks : /\ Queued(j)' <=> Queued(j)
                         /\ Run(j)' <=> Run(j)
                         /\ Stolen(j)' <=> Stolen(j) /\ j # k
                         /\ Completed(j)' <=> Completed(j) \/ j = k
    BY <1>2, <1>5, <2>1, <2>2, <2>3 DEF Queued, Run, Stolen, Completed
  <2>5. Stolen(k) BY <1>4 DEF Stolen
  <2>6. \A d, e \in Clients : \A j \in Elems(list[d])' : j \in Elems(list[e])' => d = e
    BY <1>1, <2>2 DEF PlaceInv
  <2> QED BY <1>1, <1>2, <1>4, <2>1, <2>2, <2>4, <2>5, <2>6 DEF PlaceInv
<1> QED BY <1>6, <1>7, <1>8, <1>9, <1>10, <1>11 DEF IInv

LEMMA SubmitWaitsStep ==
  ASSUME IInv, NEW t \in Threads, SubmitWaits(t)
  PROVE  IInv'
<1>1. TypeOK /\ PcInv /\ SubInv /\ PlaceInv /\ ActiveInv /\ FlagInv /\ DestroyInv /\ WakeInv BY DEF IInv
<1>3. PcInv'
  BY <1>1, ThreadSets DEF TypeOK, PcInv, InTask, SubmitWaits, At, Sleep, Goto, subVars, SubmitPc, WorkerPc, ClientPc
<1>4. SubInv' BY <1>1, ThreadSets DEF TypeOK, PcInv, SubInv, SubmitWaits, At, Sleep, subVars, SubmitPc
<1>5. PlaceInv' BY <1>1, PlaceSame DEF TypeOK, SubmitWaits, At, Sleep
<1>6. ActiveInv' /\ active' \in 0 .. Cardinality(Workers)
  BY <1>1, ThreadSets, ActiveSame DEF TypeOK, PcInv, InTask, SubmitWaits, At, Sleep, Goto, SubmitPc, WorkerPc
<1>7. TypeOK' BY <1>1, ThreadSets, <1>6 DEF TypeOK, SubmitWaits, At, Sleep, Goto, flagVars, subVars, SubmitPc, WorkerPc, ClientPc
<1>8. FlagInv' BY <1>1, ThreadSets DEF TypeOK, PcInv, FlagInv, SubmitWaits, At, Sleep, Goto, flagVars, Stopping, On
<1>9. DestroyInv' BY <1>1, ThreadSets DEF TypeOK, PcInv, FlagInv, DestroyInv, SubmitWaits, At, Sleep, Goto, flagVars
<1>10. WakeInv'
  <2>1. /\ Cap > 0 /\ ~drain /\ ~immediate /\ Len(queue) >= Cap /\ t \notin Workers
        /\ UNCHANGED <<queue, active, drain, immediate>>
    BY DEF SubmitWaits, Full, Stopping, flagVars
  <2>2. On("on_idle")' \subseteq On("on_idle") BY <1>1 DEF TypeOK, PcInv, On, SubmitWaits, Sleep, Goto
  <2>3. Discarding => Discarding' BY <1>1, ThreadSets DEF TypeOK, PcInv, Discarding, SubmitWaits, At, Sleep, Goto
  <2>4. \A w \in Workers : w \notin asleep /\ pc[w] # "exited" => w \notin asleep' /\ pc'[w] # "exited"
    BY <1>1, <2>1, ThreadSets DEF TypeOK, SubmitWaits, Sleep, Goto
  <2>5. Len(queue) \in Nat /\ Cap \in Nat BY <1>1, LenProperties, PoolAssumption DEF TypeOK
  <2>6. Len(queue) + Cardinality(Trying') >= Cap BY <2>1, <2>5, TryingFiniteNext
  <2> QED BY <1>1, <2>1, <2>2, <2>3, <2>4, <2>6 DEF WakeInv
<1> QED BY <1>3, <1>4, <1>5, <1>6, <1>7, <1>8, <1>9, <1>10 DEF IInv

LEMMA SubmitOutOfMemoryStep ==
  ASSUME IInv, NEW t \in Threads, SubmitOutOfMemory(t)
  PROVE  IInv'
<1>1. TypeOK /\ PcInv /\ SubInv /\ PlaceInv /\ ActiveInv /\ FlagInv /\ DestroyInv /\ WakeInv BY DEF IInv
<1>2. /\ pc[t] = "enomem" /\ t \notin asleep
      /\ \/ On("on_not_full") = {} /\ asleep' = asleep
         \/ \E u \in On("on_not_full") : asleep' = asleep \ {u}
  BY <1>1, SignalledOne DEF SubmitOutOfMemory, PcInv
<1>3. PcInv'
  BY <1>1, <1>2, ThreadSets DEF TypeOK, PcInv, InTask, SubmitOutOfMemory, SubmitReturns, Goto, subVars, SubmitPc, WorkerPc, ClientPc
<1>4. SubInv' BY <1>1, <1>2, ThreadSets DEF TypeOK, PcInv, SubInv, SubmitOutOfMemory, SubmitReturns, subVars, SubmitPc
<1>5. PlaceInv' BY <1>1, PlaceSame DEF TypeOK, SubmitOutOfMemory, SubmitReturns, PcInv, SubInv, SubmitPc
<1>6. ActiveInv' /\ active' \in 0 .. Cardinality(Workers)
  BY <1>1, <1>2, ThreadSets, ActiveSame DEF TypeOK, PcInv, InTask, SubmitOutOfMemory, SubmitReturns, Goto, SubmitPc, WorkerPc
<1>7. TypeOK' BY <1>1, <1>2, ThreadSets, <1>6 DEF TypeOK, SubmitOutOfMemory, SubmitReturns, Goto, flagVars, subVars, SubmitPc, WorkerPc, ClientPc
<1>8. FlagInv' BY <1>1, <1>2, ThreadSets DEF TypeOK, PcInv, FlagInv, SubmitOutOfMemory, SubmitReturns, Goto, flagVars, Stopping, On
<1>9. DestroyInv' BY <1>1, <1>2, ThreadSets DEF TypeOK, PcInv, FlagInv, DestroyInv, SubmitOutOfMemory, SubmitReturns, Goto, flagVars
<1>10. WakeInv'
  <2>1. UNCHANGED <<queue, active, drain, immediate>> BY DEF SubmitOutOfMemory, flagVars
  <2>2. On("on_not_full")' \subseteq On("on_not_full") /\ On("on_idle")' \subseteq On("on_idle")
    BY <1>1, <1>2 DEF TypeOK, PcInv, On, SubmitOutOfMemory, SubmitReturns, Goto
  <2>3. Discarding => Discarding' BY <1>1, <1>2, ThreadSets DEF TypeOK, PcInv, Discarding, SubmitOutOfMemory, SubmitReturns, Goto
  <2>4. \A w \in Workers : w \notin asleep /\ pc[w] # "exited" => w \notin asleep' /\ pc'[w] # "exited"
    BY <1>1, <1>2, ThreadSets DEF TypeOK, PcInv, SubmitOutOfMemory, SubmitReturns, Goto
  <2>5. Len(queue) \in Nat /\ Cap \in Nat BY <1>1, LenProperties, PoolAssumption DEF TypeOK
  <2>6. ASSUME On("on_not_full")' # {}, ~Stopping PROVE Len(queue) + Cardinality(Trying') >= Cap
    <3>1. PICK u \in On("on_not_full") : asleep' = asleep \ {u} BY <1>2, <2>2, <2>6
    <3>2. /\ u \in Threads /\ u # t /\ u \notin Trying /\ t \in Trying
          /\ Trying' = (Trying \ {t}) \cup {u}
      BY <1>1, <1>2, <3>1, ThreadSets DEF On, Trying, TypeOK, SubmitPc, SubmitOutOfMemory, SubmitReturns, Goto
    <3>3. IsFiniteSet(Trying \ {t}) /\ Cardinality(Trying \ {t}) = Cardinality(Trying) - 1
      BY <3>2, TryingFinite, FS_RemoveElement
    <3>4. Cardinality(Trying') = Cardinality(Trying \ {t}) + 1 BY <3>2, <3>3, FS_AddElement
    <3>5. Len(queue) + Cardinality(Trying) >= Cap BY <1>1, <2>2, <2>6 DEF WakeInv
    <3> QED BY <2>5, <3>3, <3>4, <3>5, TryingFinite
  <2> QED BY <1>1, <2>1, <2>2, <2>3, <2>4, <2>6 DEF WakeInv, Stopping
<1> QED BY <1>3, <1>4, <1>5, <1>6, <1>7, <1>8, <1>9, <1>10 DEF IInv

LEMMA SubmitEnqueuesStep ==
  ASSUME IInv, NEW t \in Threads, SubmitEnqueues(t)
  PROVE  IInv'
<1> DEFINE k == sub[t]
           to == IF t \in Workers THEN "run" ELSE "idle"
<1>1. TypeOK /\ PcInv /\ SubInv /\ PlaceInv /\ ActiveInv /\ FlagInv /\ DestroyInv /\ WakeInv BY DEF IInv
<1>2. /\ pc[t] \in {"submit", "on_not_full"} /\ t \notin asleep /\ ~drain /\ ~immediate /\ ~Full
      /\ queue' = Append(queue, k) /\ pc' = [pc EXCEPT ![t] = to]
      /\ status' = [status EXCEPT ![k] = "accepted"] /\ sub' = [sub EXCEPT ![t] = None]
      /\ spare' = [spare EXCEPT ![t] = FALSE]
      /\ UNCHANGED <<active, drain, immediate, started, complete, live, freed, cur, mode, list, destroying, outcome>>
  BY <1>1 DEF SubmitEnqueues, SubmitReturns, At, Goto, Stopping, flagVars, PcInv
<1>3. /\ On("on_not_empty") = {} /\ asleep' = asleep
      \/ \E u \in On("on_not_empty") : asleep' = asleep \ {u}
  BY SignalledOne DEF SubmitEnqueues
<1>4. k # None /\ k \in Tasks /\ status[k] = "submitting"
  BY <1>1, <1>2 DEF TypeOK, PcInv, SubInv, SubmitPc
<1>5. /\ Len(queue) \in Nat /\ Cap \in Nat /\ (Cap > 0 => Len(queue) < Cap)
      /\ queue' \in Seq(Tasks) /\ Len(queue') = Len(queue) + 1 /\ queue' # <<>>
  BY <1>1, <1>2, <1>4, PoolAssumption, LenProperties, AppendProperties DEF TypeOK, Full
<1>6. ~Queued(k) /\ ~Run(k) /\ ~Stolen(k) /\ ~Completed(k) BY <1>1, <1>4 DEF PlaceInv
<1> HIDE DEF k
<1>7. /\ pc' \in [Threads -> WorkerPc \cup SubmitPc \cup ClientPc] /\ pc'[t] = to
      /\ \A u \in Threads \ {t} : pc'[u] = pc[u]
      /\ asleep' \subseteq asleep
  BY <1>1, <1>2, <1>3 DEF TypeOK, WorkerPc, ClientPc
<1>8. PcInv'
  <2>1. \A w \in Workers : /\ pc'[w] \in WorkerPc \cup {"submit", "alloc", "enomem"}
                           /\ cur'[w] # None <=> InTask(w)'
    BY <1>1, <1>2, <1>7, ThreadSets DEF PcInv, InTask, WorkerPc
  <2>2. \A c \in Clients : /\ pc'[c] \in ClientPc \cup SubmitPc
                           /\ list'[c] # <<>> => pc'[c] \in {"discard", "escalate"}
    BY <1>1, <1>2, <1>7, ThreadSets DEF PcInv, ClientPc
  <2>3. \A u \in Threads : sub'[u] # None <=> pc'[u] \in SubmitPc
    BY <1>1, <1>2, <1>7 DEF PcInv, TypeOK, SubmitPc
  <2>4. \A u \in asleep' : pc'[u] \in {"on_not_empty", "on_not_full", "on_idle", "on_shutdown"}
    BY <1>1, <1>2, <1>7 DEF PcInv, TypeOK
  <2> QED BY <2>1, <2>2, <2>3, <2>4 DEF PcInv
<1>9. SubInv' BY <1>1, <1>2, <1>4 DEF TypeOK, SubInv, k
<1>10. ActiveInv' /\ active' \in 0 .. Cardinality(Workers)
  BY <1>1, <1>2, <1>7, ThreadSets, ActiveSame DEF PcInv, InTask, WorkerPc
<1>11. TypeOK'
  <2>1. Cap > 0 => Len(queue') <= Cap BY <1>5
  <2>2. /\ sub' \in [Threads -> Tasks \cup {None}] /\ spare' \in [Threads -> BOOLEAN]
        /\ status' \in [Tasks -> {"new", "submitting", "accepted", "refused"}] /\ asleep' \subseteq Threads
    BY <1>1, <1>2, <1>7 DEF TypeOK
  <2> QED BY <1>1, <1>2, <1>5, <1>7, <1>10, <2>1, <2>2 DEF TypeOK
<1>12. PlaceInv'
  <2>1. queue \in Seq(Tasks) /\ Distinct(queue) /\ k \notin Elems(queue) BY <1>1, <1>6 DEF TypeOK, PlaceInv, Queued
  <2>2. Elems(Append(queue, k)) = Elems(queue) \cup {k} /\ Distinct(Append(queue, k))
    BY <1>4, <2>1, AppendElems
  <2>3. Elems(queue)' = Elems(Append(queue, k)) /\ (Distinct(Append(queue, k)) => Distinct(queue)')
    BY <1>2 DEF Elems, Distinct
  <2>4. \A c \in Clients : Elems(list[c])' = Elems(list[c]) /\ Distinct(list[c])'
    BY <1>1, <1>2 DEF PlaceInv, Elems, Distinct
  <2>5. \A j \in Tasks : /\ Queued(j)' <=> Queued(j) \/ j = k
                         /\ Run(j)' <=> Run(j)
                         /\ Stolen(j)' <=> Stolen(j)
                         /\ Completed(j)' <=> Completed(j)
                         /\ status'[j] = "accepted" <=> status[j] = "accepted" \/ j = k
    BY <1>1, <1>2, <1>4, <2>2, <2>3, <2>4 DEF TypeOK, Queued, Run, Stolen, Completed
  <2>6. \A v, w \in Workers : cur'[v] # None /\ cur'[v] = cur'[w] => v = w BY <1>1, <1>2 DEF PlaceInv
  <2>7. \A c, d \in Clients : \A j \in Elems(list[c])' : j \in Elems(list[d])' => c = d
    BY <1>1, <2>4 DEF PlaceInv
  <2>8. Distinct(queue)' BY <2>2, <2>3
  <2> QED BY <1>1, <1>6, <2>4, <2>5, <2>6, <2>7, <2>8 DEF PlaceInv
<1>13. FlagInv'
  <2>1. ~started /\ ~complete /\ \A w \in Workers : pc[w] # "exited" BY <1>1, <1>2 DEF FlagInv, Stopping
  <2>2. \A c \in Clients : pc'[c] \notin {"on_shutdown", "discard", "escalate", "join", "mark"}
    BY <1>1, <1>2, <1>7, <2>1, ThreadSets DEF FlagInv
  <2>3. \A w \in Workers : pc'[w] # "exited" BY <1>7, <2>1, ThreadSets
  <2> QED BY <1>2, <2>1, <2>2, <2>3 DEF FlagInv, Stopping
<1>14. DestroyInv'
  BY <1>1, <1>2, <1>7, ThreadSets DEF DestroyInv
<1>15. WakeInv'
  <2>1. \E w \in Workers : w \notin asleep' /\ pc'[w] # "exited"
    <3>1. \A w \in Workers : pc'[w] # "exited"
      BY <1>1, <1>2, <1>7, ThreadSets DEF FlagInv, Stopping
    <3>2. CASE \E u \in On("on_not_empty") : asleep' = asleep \ {u}
      <4>1. PICK u \in On("on_not_empty") : asleep' = asleep \ {u} BY <3>2
      <4>2. u \in Workers BY <1>1 DEF On, TypeOK, PcInv, Threads, ClientPc, SubmitPc
      <4> QED BY <3>1, <4>1, <4>2
    <3>3. CASE On("on_not_empty") = {} /\ asleep' = asleep
      <4>1. PICK w \in Workers : TRUE BY PoolAssumption
      <4>2. CASE w \notin asleep BY <3>1, <3>3, <4>1, <4>2
      <4>3. CASE w \in asleep
        <5>1. pc[w] = "on_not_empty" BY <1>1, <4>1, <4>3 DEF PcInv, WorkerPc
        <5> QED BY <3>3, <4>3, <5>1 DEF On
      <4> QED BY <4>2, <4>3
    <3> QED BY <1>3, <3>2, <3>3
  <2>2. On("on_not_full")' \subseteq On("on_not_full") BY <1>1, <1>2, <1>7 DEF On, TypeOK
  <2>3. Discarding => Discarding' BY <1>2, <1>7, ThreadSets DEF Discarding
  <2>4. ASSUME On("on_not_full")' # {} PROVE Len(queue') + Cardinality(Trying') >= Cap
    <3>1. Len(queue) + Cardinality(Trying) >= Cap BY <1>1, <1>2, <2>2, <2>4 DEF WakeInv, Stopping
    <3>2. t \in Trying BY <1>2 DEF Trying, SubmitPc
    <3>3. Trying \ {t} \subseteq Trying' BY <1>2, <1>7 DEF Trying
    <3>4. IsFiniteSet(Trying \ {t}) /\ Cardinality(Trying \ {t}) = Cardinality(Trying) - 1
      BY <3>2, TryingFinite, FS_RemoveElement
    <3>5. Cardinality(Trying \ {t}) <= Cardinality(Trying')
      <4>1. Trying \ {t} \in SUBSET Trying' BY <3>3
      <4> QED BY <4>1, TryingFiniteNext, FS_Subset
    <3> QED BY <1>5, <3>1, <3>4, <3>5, TryingFinite, TryingFiniteNext
  <2> QED BY <1>1, <1>2, <1>5, <2>1, <2>2, <2>3, <2>4 DEF WakeInv
<1> QED BY <1>8, <1>9, <1>10, <1>11, <1>12, <1>13, <1>14, <1>15 DEF IInv

LEMMA WorkerTakesStep ==
  ASSUME IInv, NEW w \in Workers, WorkerTakes(w)
  PROVE  IInv'
<1> DEFINE k == Head(queue)
<1>1. TypeOK /\ PcInv /\ SubInv /\ PlaceInv /\ ActiveInv /\ FlagInv /\ DestroyInv /\ WakeInv BY DEF IInv
<1>2. /\ pc[w] \in {"loop", "on_not_empty"} /\ w \notin asleep /\ queue # <<>> /\ ~immediate
      /\ cur' = [cur EXCEPT ![w] = k] /\ queue' = Tail(queue) /\ active' = active + 1
      /\ pc' = [pc EXCEPT ![w] = "run"]
      /\ UNCHANGED <<drain, immediate, started, complete, live, freed, sub, mode, spare, list, destroying, status, outcome>>
  BY <1>1 DEF WorkerTakes, At, Goto, flagVars, subVars, PcInv
<1>3. /\ asleep' = asleep /\ (Cap > 0 => On("on_not_full") = {})
      \/ \E u \in On("on_not_full") : asleep' = asleep \ {u}
  BY SignalledOne DEF WorkerTakes
<1>4. /\ queue \in Seq(Tasks) /\ Distinct(queue) BY <1>1 DEF TypeOK, PlaceInv
<1>5. /\ k \in Tasks /\ k \in Elems(queue)
      /\ Tail(queue) \in Seq(Tasks) /\ Distinct(Tail(queue)) /\ Elems(Tail(queue)) = Elems(queue) \ {k}
  BY <1>2, <1>4, TailElems
<1>6. Len(queue) \in Nat /\ Len(queue') = Len(queue) - 1 /\ Cap \in Nat /\ Len(queue') \in Nat
  BY <1>2, <1>4, PoolAssumption, LenProperties, HeadTailProperties, EmptySeq
<1> HIDE DEF k
<1>7. /\ pc' \in [Threads -> WorkerPc \cup SubmitPc \cup ClientPc] /\ pc'[w] = "run"
      /\ \A u \in Threads \ {w} : pc'[u] = pc[u]
      /\ asleep' \subseteq asleep
      /\ cur' \in [Workers -> Tasks \cup {None}] /\ cur'[w] = k /\ \A v \in Workers \ {w} : cur'[v] = cur[v]
  BY <1>1, <1>2, <1>3, <1>5, ThreadSets DEF TypeOK, WorkerPc
<1>8. PcInv'
  <2>1. \A v \in Workers : /\ pc'[v] \in WorkerPc \cup {"submit", "alloc", "enomem"}
                           /\ cur'[v] # None <=> InTask(v)'
    BY <1>1, <1>5, <1>7, ThreadSets DEF PcInv, InTask, WorkerPc
  <2>2. \A c \in Clients : /\ pc'[c] \in ClientPc \cup SubmitPc
                           /\ list'[c] # <<>> => pc'[c] \in {"discard", "escalate"}
    BY <1>1, <1>2, <1>7, ThreadSets DEF PcInv
  <2>3. \A u \in Threads : sub'[u] # None <=> pc'[u] \in SubmitPc
    BY <1>1, <1>2, <1>7, ThreadSets DEF PcInv, SubmitPc
  <2>4. \A u \in asleep' : pc'[u] \in {"on_not_empty", "on_not_full", "on_idle", "on_shutdown"}
    BY <1>1, <1>2, <1>7 DEF PcInv, TypeOK
  <2> QED BY <2>1, <2>2, <2>3, <2>4 DEF PcInv
<1>9. SubInv' BY <1>1, <1>2 DEF SubInv
<1>10. ActiveInv' /\ active' \in 0 .. Cardinality(Workers)
  <2>1. BusyWorkers' = BusyWorkers \cup {w} /\ w \notin BusyWorkers
    BY <1>2, <1>7, ThreadSets DEF BusyWorkers, InTask
  <2>2. Cardinality(BusyWorkers') = Cardinality(BusyWorkers) + 1 BY <2>1, BusyFinite, FS_AddElement
  <2>3. BusyWorkers' \in SUBSET Workers BY DEF BusyWorkers
  <2>4. Cardinality(BusyWorkers') <= Cardinality(Workers) /\ Cardinality(Workers) \in Nat
    BY <2>3, PoolAssumption, FS_Subset, FS_CardinalityType
  <2> QED BY <1>1, <1>2, <2>2, <2>4, BusyFinite DEF ActiveInv
<1>11. TypeOK'
  <2>1. Cap > 0 => Len(queue') <= Cap BY <1>1, <1>6 DEF TypeOK
  <2>2. queue' \in Seq(Tasks) /\ asleep' \subseteq Threads BY <1>1, <1>2, <1>5, <1>7 DEF TypeOK
  <2> QED BY <1>1, <1>2, <1>7, <1>10, <2>1, <2>2 DEF TypeOK
<1>12. PlaceInv'
  <2>1. Elems(queue)' = Elems(Tail(queue)) /\ (Distinct(Tail(queue)) => Distinct(queue)')
    BY <1>2 DEF Elems, Distinct
  <2>2. \A c \in Clients : Elems(list[c])' = Elems(list[c]) /\ Distinct(list[c])'
    BY <1>1, <1>2 DEF PlaceInv, Elems, Distinct
  <2>3. Queued(k) /\ k # None BY <1>5, ThreadSets DEF Queued
  <2>4. cur[w] = None BY <1>1, <1>2 DEF PcInv, InTask
  <2>5. \A v \in Workers : cur[v] # k BY <1>1, <1>5, <2>3 DEF PlaceInv, Run
  <2>6. \A j \in Tasks : Run(j)' <=> Run(j) \/ j = k
    <3> SUFFICES ASSUME NEW j \in Tasks PROVE Run(j)' <=> Run(j) \/ j = k OBVIOUS
    <3>1. Run(j) => Run(j)'
      <4>1. SUFFICES ASSUME NEW v \in Workers, cur[v] = j PROVE cur'[v] = j BY DEF Run
      <4>2. v # w BY <2>4, <4>1, ThreadSets
      <4> QED BY <1>7, <4>1, <4>2
    <3> QED BY <1>7, <3>1 DEF Run
  <2>7. \A j \in Tasks : /\ Queued(j)' <=> Queued(j) /\ j # k
                         /\ Stolen(j)' <=> Stolen(j)
                         /\ Completed(j)' <=> Completed(j)
    BY <1>2, <1>5, <2>1, <2>2 DEF Queued, Stolen, Completed
  <2>8. \A u, v \in Workers : cur'[u] # None /\ cur'[u] = cur'[v] => u = v
    BY <1>1, <1>7, <2>5 DEF PlaceInv
  <2>9. \A c, d \in Clients : \A j \in Elems(list[c])' : j \in Elems(list[d])' => c = d
    BY <1>1, <2>2 DEF PlaceInv
  <2>10. Distinct(queue)' BY <1>5, <2>1
  <2> QED BY <1>1, <1>2, <1>5, <2>2, <2>3, <2>6, <2>7, <2>8, <2>9, <2>10 DEF PlaceInv
<1>13. FlagInv'
  <2>1. ~complete /\ \A v \in Workers : pc'[v] # "exited" BY <1>1, <1>2, <1>7, ThreadSets DEF FlagInv
  <2>2. \A c \in Clients : pc'[c] = pc[c] /\ pc[c] # "mark" BY <1>1, <1>2, <1>7, ThreadSets DEF FlagInv
  <2>3. On("on_not_empty")' \subseteq On("on_not_empty") BY <1>1, <1>7 DEF On, TypeOK
  <2> QED BY <1>1, <1>2, <2>1, <2>2, <2>3 DEF FlagInv, Stopping
<1>14. DestroyInv' BY <1>1, <1>2, <1>7, ThreadSets DEF DestroyInv
<1>15. WakeInv'
  <2>1. w \notin asleep' /\ pc'[w] # "exited" BY <1>2, <1>7
  <2>2. On("on_not_full")' \subseteq On("on_not_full") BY <1>1, <1>2, <1>7 DEF On, TypeOK
  <2>3. active' > 0 BY <1>1, <1>2, BusyFinite DEF ActiveInv
  <2>4. Discarding' <=> Discarding BY <1>2, <1>7, ThreadSets DEF Discarding
  <2>5. ASSUME On("on_not_full")' # {}, ~Stopping PROVE Len(queue') + Cardinality(Trying') >= Cap
    <3>1. Cap > 0 /\ Len(queue) + Cardinality(Trying) >= Cap BY <1>1, <2>2, <2>5 DEF WakeInv
    <3>2. PICK u \in On("on_not_full") : asleep' = asleep \ {u} BY <1>3, <2>2, <2>5, <3>1
    <3>3. /\ u \in Threads /\ u \notin Trying /\ Trying' = Trying \cup {u}
      BY <1>1, <1>2, <1>7, <3>2 DEF On, Trying, TypeOK, SubmitPc
    <3>4. Cardinality(Trying') = Cardinality(Trying) + 1 BY <3>3, TryingFinite, FS_AddElement
    <3> QED BY <1>6, <3>1, <3>4, TryingFinite
  <2> QED BY <1>1, <1>2, <2>1, <2>2, <2>3, <2>4, <2>5 DEF WakeInv, Stopping
<1> QED BY <1>8, <1>9, <1>10, <1>11, <1>12, <1>13, <1>14, <1>15 DEF IInv

LEMMA WorkerCompletesStep ==
  ASSUME IInv, NEW w \in Workers, WorkerCompletes(w)
  PROVE  IInv'
<1> DEFINE k == cur[w]
<1>1. TypeOK /\ PcInv /\ SubInv /\ PlaceInv /\ ActiveInv /\ FlagInv /\ DestroyInv /\ WakeInv BY DEF IInv
<1>2. /\ pc[w] = "run" /\ w \notin asleep
      /\ outcome' = [outcome EXCEPT ![k] = "ran"] /\ cur' = [cur EXCEPT ![w] = None]
      /\ pc' = [pc EXCEPT ![w] = "finish"]
      /\ UNCHANGED <<queue, active, drain, immediate, started, complete, live, freed, asleep, sub, mode, spare,
                     list, destroying, status>>
  BY <1>1 DEF WorkerCompletes, Goto, flagVars, subVars, PcInv
<1>3. k \in Tasks /\ Run(k) BY <1>1, <1>2 DEF TypeOK, PcInv, InTask, Run
<1>4. \A v \in Workers \ {w} : cur[v] # k BY <1>1, <1>3, ThreadSets DEF PlaceInv
<1> HIDE DEF k
<1>5. /\ pc' \in [Threads -> WorkerPc \cup SubmitPc \cup ClientPc] /\ pc'[w] = "finish"
      /\ \A u \in Threads \ {w} : pc'[u] = pc[u]
      /\ cur' \in [Workers -> Tasks \cup {None}] /\ cur'[w] = None /\ \A v \in Workers \ {w} : cur'[v] = cur[v]
      /\ outcome' \in [Tasks -> {"none", "ran", "discarded"}] /\ outcome'[k] = "ran"
      /\ \A j \in Tasks \ {k} : outcome'[j] = outcome[j]
  BY <1>1, <1>2, <1>3, ThreadSets DEF TypeOK, WorkerPc
<1>6. PcInv'
  <2>1. \A v \in Workers : /\ pc'[v] \in WorkerPc \cup {"submit", "alloc", "enomem"}
                           /\ cur'[v] # None <=> InTask(v)'
    BY <1>1, <1>5, ThreadSets DEF PcInv, InTask, WorkerPc
  <2>2. \A c \in Clients : /\ pc'[c] \in ClientPc \cup SubmitPc
                           /\ list'[c] # <<>> => pc'[c] \in {"discard", "escalate"}
    BY <1>1, <1>2, <1>5, ThreadSets DEF PcInv
  <2>3. \A u \in Threads : sub'[u] # None <=> pc'[u] \in SubmitPc
    BY <1>1, <1>2, <1>5, ThreadSets DEF PcInv, SubmitPc
  <2>4. \A u \in asleep' : pc'[u] \in {"on_not_empty", "on_not_full", "on_idle", "on_shutdown"}
    BY <1>1, <1>2, <1>5 DEF PcInv, TypeOK
  <2> QED BY <2>1, <2>2, <2>3, <2>4 DEF PcInv
<1>7. ActiveInv' /\ active' \in 0 .. Cardinality(Workers)
  BY <1>1, <1>2, <1>5, ThreadSets, ActiveSame DEF InTask
<1>8. TypeOK' BY <1>1, <1>2, <1>5, <1>7 DEF TypeOK
<1>9. SubInv' BY <1>1, <1>2 DEF SubInv
<1>10. PlaceInv'
  <2>1. Elems(queue)' = Elems(queue) /\ Distinct(queue)' BY <1>1, <1>2 DEF PlaceInv, Elems, Distinct
  <2>2. \A c \in Clients : Elems(list[c])' = Elems(list[c]) /\ Distinct(list[c])'
    BY <1>1, <1>2 DEF PlaceInv, Elems, Distinct
  <2>3. \A j \in Tasks : Run(j)' <=> Run(j) /\ j # k
    <3> SUFFICES ASSUME NEW j \in Tasks PROVE Run(j)' <=> Run(j) /\ j # k OBVIOUS
    <3>1. ASSUME Run(j)' PROVE Run(j) /\ j # k
      <4>1. PICK v \in Workers : cur'[v] = j BY <3>1 DEF Run
      <4>2. v # w BY <1>5, <4>1, ThreadSets
      <4> QED BY <1>4, <1>5, <4>1, <4>2 DEF Run
    <3>2. ASSUME Run(j), j # k PROVE Run(j)'
      <4>1. PICK v \in Workers : cur[v] = j BY <3>2 DEF Run
      <4>2. v # w BY <3>2, <4>1 DEF k
      <4> QED BY <1>5, <4>1, <4>2 DEF Run
    <3> QED BY <3>1, <3>2
  <2>4. \A j \in Tasks : /\ Queued(j)' <=> Queued(j)
                         /\ Stolen(j)' <=> Stolen(j)
                         /\ Completed(j)' <=> Completed(j) \/ j = k
    BY <1>3, <1>5, <2>1, <2>2 DEF Queued, Stolen, Completed
  <2>5. \A u, v \in Workers : cur'[u] # None /\ cur'[u] = cur'[v] => u = v
    BY <1>1, <1>5 DEF PlaceInv
  <2>6. \A c, d \in Clients : \A j \in Elems(list[c])' : j \in Elems(list[d])' => c = d
    BY <1>1, <2>2 DEF PlaceInv
  <2> QED BY <1>1, <1>2, <1>3, <2>1, <2>2, <2>3, <2>4, <2>5, <2>6 DEF PlaceInv
<1>11. FlagInv'
  <2>1. \A v \in Workers : pc'[v] = "exited" <=> pc[v] = "exited" BY <1>2, <1>5, ThreadSets
  <2>2. \A c \in Clients : pc'[c] = pc[c] BY <1>5, ThreadSets
  <2>3. On("on_not_empty")' = On("on_not_empty") /\ On("on_shutdown")' = On("on_shutdown")
    BY <1>1, <1>2, <1>5 DEF On, TypeOK
  <2> QED BY <1>1, <1>2, <2>1, <2>2, <2>3 DEF FlagInv, Stopping
<1>12. DestroyInv' BY <1>1, <1>2, <1>5, ThreadSets DEF DestroyInv
<1>13. WakeInv'
  <2>1. Trying' = Trying BY <1>2, <1>5 DEF Trying, SubmitPc
  <2>2. On("on_not_full")' = On("on_not_full") /\ On("on_idle")' = On("on_idle")
    BY <1>1, <1>2, <1>5 DEF On, TypeOK
  <2>3. Discarding => Discarding' BY <1>5, ThreadSets DEF Discarding
  <2>4. \A v \in Workers : v \notin asleep /\ pc[v] # "exited" => v \notin asleep' /\ pc'[v] # "exited"
    BY <1>2, <1>5, ThreadSets
  <2> QED BY <1>1, <1>2, <2>1, <2>2, <2>3, <2>4, WakeSame
<1> QED BY <1>6, <1>7, <1>8, <1>9, <1>10, <1>11, <1>12, <1>13 DEF IInv

LEMMA WorkerFinishesStep ==
  ASSUME IInv, NEW w \in Workers, WorkerFinishes(w)
  PROVE  IInv'
<1>1. TypeOK /\ PcInv /\ SubInv /\ PlaceInv /\ ActiveInv /\ FlagInv /\ DestroyInv /\ WakeInv BY DEF IInv
<1>2. /\ pc[w] = "finish" /\ w \notin asleep /\ active' = active - 1
      /\ pc' = [pc EXCEPT ![w] = "loop"] /\ asleep' \subseteq asleep
      /\ UNCHANGED <<queue, drain, immediate, started, complete, live, freed, cur, sub, mode, spare,
                     list, destroying, status, outcome>>
  BY <1>1 DEF WorkerFinishes, Broadcast, Goto, flagVars, subVars, PcInv
<1>3. /\ pc' \in [Threads -> WorkerPc \cup SubmitPc \cup ClientPc] /\ pc'[w] = "loop"
      /\ \A u \in Threads \ {w} : pc'[u] = pc[u]
  BY <1>1, <1>2, ThreadSets DEF TypeOK, WorkerPc
<1>4. PcInv'
  <2>1. \A v \in Workers : /\ pc'[v] \in WorkerPc \cup {"submit", "alloc", "enomem"}
                           /\ cur'[v] # None <=> InTask(v)'
    BY <1>1, <1>2, <1>3, ThreadSets DEF PcInv, InTask, WorkerPc
  <2>2. \A c \in Clients : /\ pc'[c] \in ClientPc \cup SubmitPc
                           /\ list'[c] # <<>> => pc'[c] \in {"discard", "escalate"}
    BY <1>1, <1>2, <1>3, ThreadSets DEF PcInv
  <2>3. \A u \in Threads : sub'[u] # None <=> pc'[u] \in SubmitPc
    BY <1>1, <1>2, <1>3, ThreadSets DEF PcInv, SubmitPc
  <2>4. \A u \in asleep' : pc'[u] \in {"on_not_empty", "on_not_full", "on_idle", "on_shutdown"}
    BY <1>1, <1>2, <1>3 DEF PcInv, TypeOK
  <2> QED BY <2>1, <2>2, <2>3, <2>4 DEF PcInv
<1>5. ActiveInv' /\ active' \in 0 .. Cardinality(Workers)
  <2>1. BusyWorkers' = BusyWorkers \ {w} /\ w \in BusyWorkers
    BY <1>2, <1>3, ThreadSets DEF BusyWorkers, InTask
  <2>2. Cardinality(BusyWorkers') = Cardinality(BusyWorkers) - 1 /\ IsFiniteSet(BusyWorkers')
    BY <2>1, BusyFinite, FS_RemoveElement
  <2>3. Cardinality(BusyWorkers') \in Nat /\ Cardinality(Workers) \in Nat
    BY <2>2, PoolAssumption, FS_CardinalityType
  <2> QED BY <1>1, <1>2, <2>2, <2>3, BusyFinite DEF ActiveInv
<1>6. TypeOK' BY <1>1, <1>2, <1>3, <1>5 DEF TypeOK
<1>7. SubInv' /\ PlaceInv' BY <1>1, <1>2, PlaceSame DEF SubInv
<1>8. FlagInv'
  <2>1. \A v \in Workers : pc'[v] = "exited" <=> pc[v] = "exited" BY <1>2, <1>3, ThreadSets
  <2>2. \A c \in Clients : pc'[c] = pc[c] BY <1>3, ThreadSets
  <2>3. On("on_not_empty")' \subseteq On("on_not_empty") /\ On("on_shutdown")' \subseteq On("on_shutdown")
    BY <1>1, <1>2, <1>3 DEF On, TypeOK
  <2> QED BY <1>1, <1>2, <2>1, <2>2, <2>3 DEF FlagInv, Stopping
<1>9. DestroyInv' BY <1>1, <1>2, <1>3, ThreadSets DEF DestroyInv
<1>10. WakeInv'
  <2>1. On("on_not_full")' \subseteq On("on_not_full") BY <1>1, <1>2, <1>3 DEF On, TypeOK
  <2>2. Trying' = Trying
    BY <1>1, <1>2, <1>3 DEF Trying, SubmitPc, WorkerFinishes, Broadcast
  <2>3. Discarding' <=> Discarding BY <1>3, ThreadSets DEF Discarding
  <2>4. \A v \in Workers : v \notin asleep /\ pc[v] # "exited" => v \notin asleep' /\ pc'[v] # "exited"
    BY <1>2, <1>3, ThreadSets
  <2>5. On("on_idle")' # {} => active' > 0 \/ queue # <<>>
    <3>1. CASE active' = 0 /\ queue = <<>>
      <4>1. asleep' = Broadcast({"on_idle"}) BY <3>1 DEF WorkerFinishes
      <4> QED BY <1>2, <1>3, <4>1 DEF On, Broadcast
    <3>2. active' # 0 => active' > 0 BY <1>5
    <3> QED BY <3>1, <3>2
  <2> QED BY <1>1, <1>2, <2>1, <2>2, <2>3, <2>4, <2>5 DEF WakeInv, Stopping
<1> QED BY <1>4, <1>5, <1>6, <1>7, <1>8, <1>9, <1>10 DEF IInv

-----------------------------------------------------------------------------
(* The invariant and what follows from it.                                 *)

LEMMA InvInit == Init => IInv
<1> SUFFICES ASSUME Init PROVE IInv OBVIOUS
<1>1. /\ queue = <<>> /\ asleep = {} /\ active = 0 /\ ~drain /\ ~immediate /\ ~started /\ ~complete /\ live /\ ~freed
      /\ \A w \in Workers : pc[w] = "loop" /\ cur[w] = None
      /\ \A c \in Clients : pc[c] = "idle" /\ list[c] = <<>> /\ destroying[c] = FALSE
      /\ \A t \in Threads : sub[t] = None
      /\ \A k \in Tasks : status[k] = "new" /\ outcome[k] = "none"
  BY ThreadSets DEF Init
<1>2. <<>> \in Seq(Tasks) /\ Len(<<>>) = 0 BY EmptySeq
<1>3. \A t \in Threads : t \in Workers \/ t \in Clients BY DEF Threads
<1>4. TypeOK
  <2>1. Cardinality(Workers) \in Nat /\ Cap \in Nat BY PoolAssumption, FS_CardinalityType
  <2>2. active \in 0 .. Cardinality(Workers) /\ (Cap > 0 => Len(queue) <= Cap) BY <1>1, <1>2, <2>1
  <2>3. pc \in [Threads -> WorkerPc \cup SubmitPc \cup ClientPc] BY DEF Init, WorkerPc, ClientPc
  <2> QED BY <1>1, <1>2, <2>2, <2>3 DEF Init, TypeOK
<1>5. PcInv BY <1>1, <1>3 DEF PcInv, InTask, WorkerPc, ClientPc, SubmitPc
<1>6. SubInv BY <1>1 DEF SubInv
<1>7. PlaceInv
  <2>1. Elems(<<>>) = {} /\ Distinct(<<>>) BY <1>2 DEF Elems, Distinct
  <2>2. \A k \in Tasks : ~Queued(k) /\ ~Run(k) /\ ~Stolen(k) /\ ~Completed(k)
    BY <1>1, <2>1, ThreadSets DEF Queued, Run, Stolen, Completed
  <2> QED BY <1>1, <2>1, <2>2 DEF PlaceInv
<1>8. ActiveInv
  <2>1. BusyWorkers = {} BY <1>1 DEF BusyWorkers, InTask
  <2> QED BY <1>1, <2>1, FS_EmptySet DEF ActiveInv
<1>9. FlagInv BY <1>1 DEF FlagInv, Stopping, On
<1>10. DestroyInv BY <1>1 DEF DestroyInv
<1>11. WakeInv BY <1>1 DEF WakeInv, On
<1> QED BY <1>4, <1>5, <1>6, <1>7, <1>8, <1>9, <1>10, <1>11 DEF IInv

LEMMA InvStutters == IInv /\ UNCHANGED vars => IInv'
<1> SUFFICES ASSUME IInv, UNCHANGED vars PROVE IInv' OBVIOUS
<1>1. TypeOK /\ PcInv /\ SubInv /\ PlaceInv /\ ActiveInv /\ FlagInv /\ DestroyInv /\ WakeInv BY DEF IInv
<1>2. UNCHANGED <<queue, active, drain, immediate, started, complete, live, freed, pc, asleep, cur, sub, mode,
                  spare, list, destroying, status, outcome>>
  BY DEF vars, flagVars, subVars
<1>3. TypeOK' /\ PcInv' /\ SubInv' BY <1>1, <1>2 DEF TypeOK, PcInv, SubInv, InTask
<1>4. PlaceInv' BY <1>1, <1>2, PlaceSame
<1>5. ActiveInv' BY <1>1, <1>2 DEF ActiveInv, BusyWorkers, InTask
<1>6. FlagInv' /\ DestroyInv' BY <1>1, <1>2 DEF FlagInv, DestroyInv, Stopping, On
<1>7. WakeInv' BY <1>1, <1>2, WakeSame DEF On, Trying, Discarding
<1> QED BY <1>3, <1>4, <1>5, <1>6, <1>7 DEF IInv

LEMMA InvNext == IInv /\ [Next]_vars => IInv'
<1> SUFFICES ASSUME IInv, [Next]_vars PROVE IInv' OBVIOUS
<1>1. CASE UNCHANGED vars BY <1>1, InvStutters
<1>2. ASSUME NEW t \in Threads, NEW k \in Tasks, NEW m \in Modes, SubmitCall(t, k, m) PROVE IInv'
  BY <1>2, SubmitCallStep
<1>3. ASSUME NEW t \in Threads, Submit(t) PROVE IInv'
  BY <1>3, SubmitRefusedStep, SubmitWaitsStep, SubmitEnqueuesStep, SubmitNeedsNodeStep, SubmitAllocatesStep,
     SubmitOutOfMemoryStep DEF Submit
<1>4. ASSUME NEW t \in Threads, SubmitTimesOut(t) \/ SpuriousWakeup(t) PROVE IInv'
  BY <1>4, SubmitTimesOutStep, SpuriousWakeupStep
<1>5. ASSUME NEW w \in Workers, Worker(w) PROVE IInv'
  BY <1>5, WorkerSleepsStep, WorkerExitsStep, WorkerTakesStep, WorkerCompletesStep, WorkerFinishesStep DEF Worker
<1>6. ASSUME NEW c \in Clients, Call(c, "wait") \/ Call(c, "drain") \/ Call(c, "immediate") \/ DestroyCall(c)
      PROVE  IInv'
  BY <1>6, CallStep, DestroyCallStep
<1>7. ASSUME NEW c \in Clients, Client(c) PROVE IInv'
  BY <1>7, WaitStep, ShutdownWaitStep, ShutdownDrainStep, ShutdownImmediateStep, DiscardStep, DiscardDoneStep,
     JoinStep, MarkCompleteStep, DestroyFreesStep DEF Client
<1> QED BY <1>1, <1>2, <1>3, <1>4, <1>5, <1>6, <1>7 DEF Next

LEMMA Invariance == Spec => []IInv
<1>1. Init => IInv BY InvInit
<1>2. IInv /\ [Next]_vars => IInv' BY InvNext
<1> QED BY <1>1, <1>2, PTL DEF Spec

\* The queue never exceeds queue_cap and active_count never the number of
\* workers, although submit_generic gives the lock up between finding room and
\* enqueueing, and the count is changed by every worker.
THEOREM QueueStaysBounded == Spec => []TypeOK
<1>1. IInv => TypeOK BY DEF IInv
<1> QED BY <1>1, Invariance, PTL

\* What it means for a task to be in a place.
LEMMA PlacesOf ==
  ASSUME TypeOK, NEW k \in Tasks
  PROVE  /\ Queued(k) <=> \E i \in DOMAIN queue : queue[i] = k
         /\ \A c \in Clients : k \in Elems(list[c]) <=> \E i \in DOMAIN list[c] : list[c][i] = k
<1>1. DOMAIN queue = 1 .. Len(queue) /\ \A c \in Clients : DOMAIN list[c] = 1 .. Len(list[c])
  BY LenProperties DEF TypeOK
<1> QED BY <1>1 DEF Queued, Elems

\* A task is in no place when it was not accepted, and in a single one when it was.
LEMMA OnePlace ==
  ASSUME TypeOK, PlaceInv, NEW k \in Tasks
  PROVE  Cardinality(Places(k)) = IF status[k] = "accepted" THEN 1 ELSE 0
<1>1. DOMAIN queue = 1 .. Len(queue) /\ \A c \in Clients : DOMAIN list[c] = 1 .. Len(list[c])
  BY LenProperties DEF TypeOK
<1>2. /\ Queued(k) <=> \E i \in DOMAIN queue : queue[i] = k
      /\ \A c \in Clients : k \in Elems(list[c]) <=> \E i \in DOMAIN list[c] : list[c][i] = k
  BY PlacesOf
<1> DEFINE q == {<<"queue", i>> : i \in {j \in DOMAIN queue : queue[j] = k}}
           r == {<<"worker", w>> : w \in {v \in Workers : cur[v] = k}}
           s == UNION {{<<"discard", c, i>> : i \in {j \in DOMAIN list[c] : list[c][j] = k}} : c \in Clients}
           d == IF outcome[k] = "none" THEN {} ELSE {<<"completed">>}
<1>3. Places(k) = q \cup r \cup s \cup d BY DEF Places
<1>4. ~Queued(k) => q = {} BY <1>2
<1>5. ~Run(k) => r = {} BY DEF Run
<1>6. ~Stolen(k) => s = {} BY <1>2 DEF Stolen
<1>7. ~Completed(k) => d = {} BY DEF Completed
<1>8. Queued(k) => \E x : q = {x}
  <2>1. SUFFICES ASSUME Queued(k) PROVE \E x : q = {x} OBVIOUS
  <2>2. PICK i \in DOMAIN queue : queue[i] = k BY <1>2, <2>1
  <2>3. \A j \in DOMAIN queue : queue[j] = k => j = i BY <1>1, <2>2 DEF PlaceInv, Distinct
  <2>4. q = {<<"queue", i>>} BY <2>2, <2>3
  <2> QED BY <2>4
<1>9. Run(k) => \E x : r = {x}
  <2>1. SUFFICES ASSUME Run(k) PROVE \E x : r = {x} OBVIOUS
  <2>2. PICK w \in Workers : cur[w] = k BY <2>1 DEF Run
  <2>3. \A v \in Workers : cur[v] = k => v = w BY <2>2, ThreadSets DEF PlaceInv
  <2>4. r = {<<"worker", w>>} BY <2>2, <2>3
  <2> QED BY <2>4
<1>10. Stolen(k) => \E x : s = {x}
  <2>1. SUFFICES ASSUME Stolen(k) PROVE \E x : s = {x} OBVIOUS
  <2>2. PICK c \in Clients : k \in Elems(list[c]) BY <2>1 DEF Stolen
  <2>3. PICK i \in DOMAIN list[c] : list[c][i] = k BY <1>2, <2>2
  <2>4. \A e \in Clients : \A j \in DOMAIN list[e] : list[e][j] = k => e = c /\ j = i
    <3>1. SUFFICES ASSUME NEW e \in Clients, NEW j \in DOMAIN list[e], list[e][j] = k PROVE e = c /\ j = i OBVIOUS
    <3>2. e = c BY <1>2, <2>2, <3>1 DEF PlaceInv
    <3>3. Distinct(list[c]) BY DEF PlaceInv
    <3> QED BY <1>1, <2>3, <3>1, <3>2, <3>3 DEF Distinct
  <2>5. s = {<<"discard", c, i>>} BY <2>3, <2>4
  <2> QED BY <2>5
<1>11. Completed(k) => \E x : d = {x} BY DEF Completed
<1> HIDE DEF q, r, s, d
<1>12. status[k] = "accepted" => \E x : Places(k) = {x}
  BY <1>3, <1>4, <1>5, <1>6, <1>7, <1>8, <1>9, <1>10, <1>11 DEF PlaceInv
<1>13. status[k] # "accepted" => Places(k) = {}
  BY <1>3, <1>4, <1>5, <1>6, <1>7 DEF PlaceInv
<1> QED BY <1>12, <1>13, FS_Singleton, FS_EmptySet

\* on_complete comes exactly once for a task whose submit succeeded and never for
\* another: the task is in the queue, with one worker, in one discard list or
\* completed, through every shutdown, escalation and nested submit.
THEOREM TasksCompleteOnce == Spec => []CompletesOnce
<1>1. IInv => CompletesOnce BY OnePlace DEF IInv, CompletesOnce
<1> QED BY <1>1, Invariance, PTL

\* shutdown_complete is set only when every worker has left and no task is queued
\* or counted active, and pool_free_self runs only when no call is inside.
THEOREM ShutdownsAreFinal == Spec => []ShutdownIsFinal
<1>1. IInv => ShutdownIsFinal
  <2> SUFFICES ASSUME IInv PROVE ShutdownIsFinal OBVIOUS
  <2>1. FlagInv /\ DestroyInv /\ ActiveInv BY DEF IInv
  <2>2. complete => active = 0
    <3>1. (\A w \in Workers : pc[w] = "exited") => BusyWorkers = {} BY DEF BusyWorkers, InTask
    <3> QED BY <2>1, <3>1, FS_EmptySet DEF FlagInv, ActiveInv
  <2> QED BY <2>1, <2>2 DEF FlagInv, DestroyInv, ShutdownIsFinal, Threads
<1> QED BY <1>1, Invariance, PTL

\* Only cthrpool_wait's own section brings its caller back, and only on an idle pool.
LEMMA WaitReturnsIdle ==
  ASSUME IInv, Next, NEW c \in Clients, pc[c] \in {"wait", "on_idle"}, pc'[c] = "idle"
  PROVE  queue = <<>> /\ active = 0
<1>1. pc \in [Threads -> WorkerPc \cup SubmitPc \cup ClientPc] /\ c \notin Workers /\ c \in Threads
  BY ThreadSets DEF IInv, TypeOK
<1>2. ASSUME NEW t \in Threads, NEW k \in Tasks, NEW m \in Modes, SubmitCall(t, k, m) PROVE FALSE
  BY <1>1, <1>2 DEF SubmitCall, Goto
<1>3. ASSUME NEW t \in Threads, Submit(t) PROVE FALSE
  <2>1. ASSUME SubmitAllocates(t) PROVE FALSE
    <3>1. PICK to : pc' = [pc EXCEPT ![t] = to] /\ pc[t] = "alloc" BY <2>1 DEF SubmitAllocates, Goto
    <3> QED BY <1>1, <3>1
  <2>2. ASSUME SubmitRefused(t) \/ SubmitEnqueues(t) \/ SubmitOutOfMemory(t) PROVE FALSE
    <3>1. PICK to : pc' = [pc EXCEPT ![t] = to] /\ pc[t] \in SubmitPc
      BY <2>2 DEF SubmitRefused, SubmitEnqueues, SubmitOutOfMemory, SubmitReturns, At, Goto, SubmitPc
    <3> QED BY <1>1, <3>1 DEF SubmitPc
  <2>3. ASSUME SubmitWaits(t) \/ SubmitNeedsNode(t) PROVE FALSE
    <3>1. PICK to : pc' = [pc EXCEPT ![t] = to] /\ pc[t] \in SubmitPc
      BY <2>3 DEF SubmitWaits, SubmitNeedsNode, At, Sleep, Goto, SubmitPc
    <3> QED BY <1>1, <3>1 DEF SubmitPc
  <2> QED BY <1>3, <2>1, <2>2, <2>3 DEF Submit
<1>4. ASSUME NEW t \in Threads, SubmitTimesOut(t) \/ SpuriousWakeup(t) PROVE FALSE
  BY <1>1, <1>4 DEF SubmitTimesOut, SpuriousWakeup, SubmitReturns, Goto
<1>5. ASSUME NEW w \in Workers, Worker(w) PROVE FALSE
  <2>1. PICK to : pc' = [pc EXCEPT ![w] = to]
    BY <1>5 DEF Worker, WorkerSleeps, WorkerExits, WorkerTakes, WorkerCompletes, WorkerFinishes, Sleep, Goto
  <2> QED BY <1>1, <2>1
<1>6. ASSUME NEW d \in Clients, NEW e, Call(d, e) \/ DestroyCall(d) PROVE FALSE
  BY <1>1, <1>6 DEF Call, DestroyCall, Goto
<1>7. ASSUME NEW d \in Clients, Client(d) PROVE queue = <<>> /\ active = 0
  <2>1. CASE Wait(d)
    <3>1. \E to : pc' = [pc EXCEPT ![d] = to] BY <2>1 DEF Wait, Sleep, Goto
    <3>2. d = c BY <1>1, <3>1
    <3>3. ~(active > 0 \/ queue # <<>>) BY <1>1, <2>1, <3>2 DEF Wait, Sleep, Goto
    <3>4. active \in Nat BY BusyFinite DEF IInv, ActiveInv
    <3> QED BY <3>3, <3>4
  <2>2. CASE ~Wait(d)
    <3>1. CASE Discard(d) BY <3>1 DEF Discard
    <3>2. CASE Join(d) \/ MarkComplete(d) \/ DestroyFrees(d)
      BY <1>1, <3>2 DEF Join, MarkComplete, DestroyFrees, AfterShutdown, Goto
    <3>3. CASE ShutdownWait(d)
      <4>1. \E to : pc' = [pc EXCEPT ![d] = to] /\ pc[d] = "on_shutdown"
        BY <3>3 DEF ShutdownWait, AwaitComplete, Goto
      <4> QED BY <1>1, <4>1
    <3>4. CASE ShutdownDrain(d)
      <4>1. \E to : pc' = [pc EXCEPT ![d] = to] /\ pc[d] = "drain"
        BY <3>4 DEF ShutdownDrain, AwaitComplete, Goto
      <4> QED BY <1>1, <4>1
    <3>5. CASE ShutdownImmediate(d)
      <4>1. \E to : pc' = [pc EXCEPT ![d] = to] /\ pc[d] = "immediate"
        BY <3>5 DEF ShutdownImmediate, AwaitComplete, Goto
      <4> QED BY <1>1, <4>1
    <3>6. CASE DiscardDone(d)
      <4>1. \E to : pc' = [pc EXCEPT ![d] = to] /\ pc[d] \in {"discard", "escalate"}
        BY <3>6 DEF DiscardDone, AwaitComplete, Goto
      <4> QED BY <1>1, <4>1
    <3> QED BY <1>7, <2>2, <3>1, <3>2, <3>3, <3>4, <3>5, <3>6 DEF Client
  <2> QED BY <2>1, <2>2
<1> QED BY <1>2, <1>3, <1>4, <1>5, <1>6, <1>7 DEF Next

\* cthrpool_wait returns only when every task accepted so far has completed or been
\* taken by an immediate shutdown.
THEOREM WaitReturnsAfterTheTasks == Spec => WaitIsBarrier
<1> DEFINE Barrier ==
       \A c \in Clients :
         pc[c] \in {"wait", "on_idle"} /\ pc'[c] = "idle" =>
           \A k \in Tasks : status[k] = "accepted" =>
             outcome[k] # "none" \/ \E d \in Clients : \E i \in DOMAIN list[d] : list[d][i] = k
<1>1. IInv /\ [Next]_vars => [Barrier]_vars
  <2>1. SUFFICES ASSUME IInv, Next, NEW c \in Clients, pc[c] \in {"wait", "on_idle"}, pc'[c] = "idle",
                        NEW k \in Tasks, status[k] = "accepted", outcome[k] = "none"
                 PROVE  \E d \in Clients : \E i \in DOMAIN list[d] : list[d][i] = k
    OBVIOUS
  <2>2. queue = <<>> /\ active = 0 BY <2>1, WaitReturnsIdle
  <2>3. TypeOK /\ PcInv /\ PlaceInv /\ ActiveInv BY <2>1 DEF IInv
  <2>4. BusyWorkers = {} BY <2>2, <2>3, BusyFinite, FS_EmptySet DEF ActiveInv
  <2>5. ~Run(k) BY <2>3, <2>4, ThreadSets DEF PcInv, BusyWorkers, Run
  <2>6. ~Queued(k) BY <2>2, EmptySeq DEF Queued, Elems
  <2>7. Stolen(k) BY <2>1, <2>3, <2>5, <2>6 DEF PlaceInv, Completed
  <2> QED BY <2>3, <2>7, PlacesOf DEF Stolen
<1>2. WaitIsBarrier <=> [][Barrier]_vars BY DEF WaitIsBarrier
<1> HIDE DEF Barrier
<1> QED BY <1>1, <1>2, Invariance, PTL DEF Spec

\* No wake-up of the pool's four condition variables is lost and its calls never
\* wait for one another: when every thread waits, nothing is queued and no call is
\* inside the pool.
THEOREM NobodyIsStranded == Spec => []NobodyStranded
<1>1. IInv => NobodyStranded
  <2>1. SUFFICES ASSUME IInv, \A t \in Threads : Waits(t)
                 PROVE  queue = <<>> /\ \A c \in Clients : pc[c] = "idle"
    BY DEF NobodyStranded
  <2>2. TypeOK /\ PcInv /\ ActiveInv /\ FlagInv /\ DestroyInv /\ WakeInv BY <2>1 DEF IInv
  <2>3. \A w \in Workers : pc[w] = "exited" \/ w \in On("on_not_empty")
    BY <2>1, <2>2, ThreadSets DEF PcInv, Waits, WorkerPc, On
  <2>4. queue = <<>> BY <2>2, <2>3 DEF WakeInv, On
  <2>5. active = 0
    <3>1. BusyWorkers = {} BY <2>3 DEF BusyWorkers, InTask, On
    <3> QED BY <2>2, <3>1, FS_EmptySet DEF ActiveInv
  <2>6. \A c \in Clients : pc[c] \notin {"discard", "escalate", "mark"}
    BY <2>1, <2>2, ThreadSets DEF PcInv, Waits
  <2>7. \A c \in Clients : pc[c] # "join"
    BY <2>1, <2>2, <2>3, ThreadSets DEF FlagInv, PcInv, Waits
  <2>8. Trying = {}
    BY <2>1, <2>2, <2>3 DEF Trying, Waits, Threads, SubmitPc, On
  <2>9. On("on_not_full") = {}
    <3>1. Cardinality(Trying) = 0 /\ Len(queue) = 0 BY <2>4, <2>8, FS_EmptySet, EmptySeq
    <3>2. Cap > 0 => ~(Len(queue) + Cardinality(Trying) >= Cap) BY <3>1, PoolAssumption
    <3> QED BY <2>2, <2>6, <3>2 DEF WakeInv, Discarding, Stopping
  <2>10. On("on_idle") = {} BY <2>2, <2>4, <2>5, <2>6 DEF WakeInv, Discarding
  <2>11. On("on_shutdown") = {}
    <3>1. SUFFICES ASSUME NEW t \in On("on_shutdown") PROVE FALSE OBVIOUS
    <3>2. t \in Clients BY <2>2, <3>1 DEF On, TypeOK, PcInv, Threads, WorkerPc
    <3>3. started /\ ~complete BY <2>2, <3>1, <3>2 DEF FlagInv, On
    <3> QED BY <2>2, <2>6, <2>7, <3>3 DEF FlagInv
  <2>12. \A c \in Clients : c \notin asleep
    BY <2>2, <2>9, <2>10, <2>11 DEF PcInv, On, ClientPc, SubmitPc
  <2>13. \A c \in Clients : pc[c] \in {"idle", "pins"}
    BY <2>1, <2>2, <2>7, <2>12, ThreadSets DEF Waits, PcInv, ClientPc, SubmitPc
  <2>14. \A t \in Threads : ~Pinning(t)
    BY <2>2, <2>3, <2>13 DEF Pinning, DestroyInv, Threads, SubmitPc, On
  <2>15. \A c \in Clients : pc[c] # "pins" BY <2>1, <2>12, <2>14, ThreadSets DEF Waits
  <2> QED BY <2>4, <2>13, <2>15
<1> QED BY <1>1, Invariance, PTL

-----------------------------------------------------------------------------
(* Futures: the reference count is the number of parties that still have a *)
(* claim on the block, so the block outlives all of them, and the result is *)
(* written once.                                                           *)

\* The gets that have their reference.
Waiters == {g \in Getters : at[g] = "on_cv"}

OwnerShare == IF at[Owner] \in {"submitting", "holds"} THEN 1 ELSE 0
ProducerShare == IF pending \/ at[Owner] = "submitting" THEN 1 ELSE 0
Claims == Cardinality(Waiters) + OwnerShare + ProducerShare

\* While the block is live the count is exactly the number of claims.
RefInv == life = "live" => ref = Claims

\* Who has a claim finds the block live; the one thread about to destroy it
\* is alone and nothing else is claimed; a get that is short of its reference
\* is covered by the owner's.
LifeInv ==
  /\ Claims > 0 => life = "live"
  /\ \A t \in Parties : at[t] = "destroy" => life = "live" /\ Claims = 0
  /\ \A t, u \in Parties : at[t] = "destroy" /\ at[u] = "destroy" => t = u
  /\ \A g \in Getters : at[g] = "entered" => at[Owner] = "holds"
  /\ \A g \in Getters : at[g] # "submitting" /\ at[g] # "holds"
  /\ \A p \in Producers : at[p] \in {"start", "destroy", "end"}
  /\ at[Owner] \in {"start", "submitting", "holds", "destroy", "end"}
  /\ at[Owner] = "start" => life = "none"
  /\ at[Owner] = "submitting" => life = "live" /\ Claims = 2

\* The producer's claim lasts exactly as long as the future is not done.
DoneInv ==
  /\ done => ~pending
  /\ at[Owner] = "holds" /\ ~done => pending
  /\ at[Owner] \in {"start", "submitting"} => ~done /\ ~pending
  /\ ~done => result = Null /\ ~cancelled

FutureInv == FutureTypeOK /\ RefInv /\ LifeInv /\ DoneInv /\ SameResult

-----------------------------------------------------------------------------

LEMMA WaitersFinite ==
  /\ IsFiniteSet(Waiters) /\ Cardinality(Waiters) \in Nat
  /\ Cardinality(Waiters) = 0 <=> Waiters = {}
<1>1. IsFiniteSet(Waiters)
  BY FutureAssumption, FS_Subset DEF Waiters
<1> QED BY <1>1, FS_CardinalityType, FS_EmptySet

\* A get takes its reference.
LEMMA WaiterJoins ==
  ASSUME FutureTypeOK, NEW g \in Getters, at[g] = "entered", at' = [at EXCEPT ![g] = "on_cv"]
  PROVE  Cardinality(Waiters') = Cardinality(Waiters) + 1
<1>1. Waiters' = Waiters \cup {g} /\ g \notin Waiters
  BY DEF Waiters, FutureTypeOK, Parties
<1> QED BY <1>1, WaitersFinite, FS_AddElement

\* A get gives it up.
LEMMA WaiterLeaves ==
  ASSUME FutureTypeOK, NEW g \in Getters, NEW to, to # "on_cv", at[g] = "on_cv",
         at' = [at EXCEPT ![g] = to]
  PROVE  Cardinality(Waiters') = Cardinality(Waiters) - 1 /\ Cardinality(Waiters) > 0
<1>1. Waiters' = Waiters \ {g} /\ g \in Waiters
  BY DEF Waiters, FutureTypeOK, Parties
<1>2. Waiters # {} BY <1>1
<1> QED BY <1>1, <1>2, WaitersFinite, FS_RemoveElement

\* Nobody else changes who waits.
LEMMA WaitersSame ==
  ASSUME FutureTypeOK, NEW t \in Parties, NEW to, to # "on_cv", at[t] # "on_cv",
         at' = [at EXCEPT ![t] = to]
  PROVE  Waiters' = Waiters
BY DEF Waiters, FutureTypeOK, Parties

-----------------------------------------------------------------------------

LEMMA FutureInvInit == FutureInit => FutureInv
<1> SUFFICES ASSUME FutureInit PROVE FutureInv
  OBVIOUS
<1>1. FutureTypeOK BY FutureAssumption DEF FutureInit, FutureTypeOK, Parties
<1>2. Waiters = {} BY FutureAssumption DEF FutureInit, Waiters, Parties
<1>3. Claims = 0
  BY <1>2, FS_EmptySet DEF FutureInit, Claims, OwnerShare, ProducerShare, Parties
<1> QED
  BY <1>1, <1>3, FutureAssumption DEF FutureInit, FutureInv, RefInv, LifeInv, DoneInv, SameResult, Parties

\* What every step below starts from.
LEMMA FutureBasics ==
  ASSUME FutureInv
  PROVE  /\ Cardinality(Waiters) \in Nat /\ Claims \in Nat
         /\ OwnerShare \in {0, 1} /\ ProducerShare \in {0, 1}
         /\ ref \in Nat /\ at \in [Parties -> {"start", "submitting", "holds", "entered", "on_cv", "destroy", "end"}]
         /\ Owner \in Parties /\ Getters \subseteq Parties /\ Producers \subseteq Parties
         /\ Owner \notin Getters /\ Owner \notin Producers /\ Getters \cap Producers = {}
BY WaitersFinite, FutureAssumption DEF FutureInv, FutureTypeOK, Parties, Claims, OwnerShare, ProducerShare

\* A producer or a get gives its claim up: the block stays live, and the thread
\* goes on to destroy it exactly if no claim is left.
LEMMA DropLife ==
  ASSUME FutureInv, NEW t \in Getters \cup Producers,
         at' = [at EXCEPT ![t] = AfterDrop(ref')], life' = life,
         Claims > 0, Claims' = Claims - 1, ref' = Claims', at[Owner] # "submitting"
  PROVE  LifeInv'
<1>1. /\ Claims \in Nat /\ Owner \in Parties /\ Getters \subseteq Parties /\ Producers \subseteq Parties
      /\ Owner \notin Getters /\ Owner \notin Producers /\ t \in Parties /\ t # Owner
      /\ at \in [Parties -> {"start", "submitting", "holds", "entered", "on_cv", "destroy", "end"}]
  BY FutureBasics
<1>2. LifeInv BY DEF FutureInv
<1>3. \A u \in Parties : at[u] # "destroy" BY <1>1, <1>2 DEF LifeInv
<1>4. \A u \in Parties : at'[u] = IF u = t THEN AfterDrop(ref') ELSE at[u] BY <1>1
<1>5. AfterDrop(ref') = IF Claims' = 0 THEN "destroy" ELSE "end" BY DEF AfterDrop
<1>6. \A u \in Parties : at'[u] = "destroy" => u = t /\ life' = "live" /\ Claims' = 0
  BY <1>1, <1>2, <1>3, <1>4, <1>5 DEF LifeInv
<1>7. /\ \A g \in Getters : at'[g] = "entered" => at'[Owner] = "holds"
      /\ \A g \in Getters : at'[g] # "submitting" /\ at'[g] # "holds"
      /\ \A p \in Producers : at'[p] \in {"start", "destroy", "end"}
  BY <1>1, <1>2, <1>4, <1>5 DEF LifeInv
<1>8. at'[Owner] \in {"holds", "destroy", "end"}
  BY <1>1, <1>2, <1>4 DEF LifeInv
<1> QED BY <1>1, <1>2, <1>6, <1>7, <1>8 DEF LifeInv

LEMMA CreateDetachedStep ==
  ASSUME FutureInv, ClaimFirst, CreateDetached
  PROVE  FutureInv'
<1>0. /\ FutureTypeOK /\ RefInv /\ LifeInv /\ DoneInv /\ SameResult
  BY DEF FutureInv
<1>1. /\ Cardinality(Waiters) \in Nat /\ Claims \in Nat /\ ref \in Nat
      /\ Owner \in Parties /\ Getters \subseteq Parties /\ Producers \subseteq Parties
      /\ Owner \notin Getters /\ Owner \notin Producers /\ Getters \cap Producers = {}
      /\ at \in [Parties -> {"start", "submitting", "holds", "entered", "on_cv", "destroy", "end"}]
  BY FutureBasics
<1>2. Cardinality(Waiters') = Cardinality(Waiters)
  BY <1>0, <1>1, WaitersSame DEF LifeInv, CreateDetached, stateVars, Moves, AfterDrop
<1>3. Claims = 0 /\ Claims' = 2
  BY <1>0, <1>1, <1>2 DEF Claims, OwnerShare, ProducerShare, RefInv, LifeInv, DoneInv, CreateDetached, stateVars, Moves, AfterDrop
<1>4. FutureTypeOK'
  BY <1>0, <1>1, <1>3 DEF FutureTypeOK, RefInv, LifeInv, CreateDetached, stateVars, Moves, AfterDrop
<1>5. RefInv'
  BY <1>0, <1>1, <1>3 DEF RefInv, LifeInv, CreateDetached, stateVars, Moves, AfterDrop
<1>6. LifeInv'
  BY <1>0, <1>1, <1>3 DEF RefInv, LifeInv, CreateDetached, stateVars, Moves, AfterDrop
<1>7. DoneInv' /\ SameResult'
  BY <1>0, <1>1 DEF FutureTypeOK, LifeInv, DoneInv, SameResult, CreateDetached, stateVars, Moves, AfterDrop
<1> QED BY <1>4, <1>5, <1>6, <1>7 DEF FutureInv

LEMMA SubmitAllocStep ==
  ASSUME FutureInv, ClaimFirst, SubmitAlloc
  PROVE  FutureInv'
<1>0. /\ FutureTypeOK /\ RefInv /\ LifeInv /\ DoneInv /\ SameResult
  BY DEF FutureInv
<1>1. /\ Cardinality(Waiters) \in Nat /\ Claims \in Nat /\ ref \in Nat
      /\ Owner \in Parties /\ Getters \subseteq Parties /\ Producers \subseteq Parties
      /\ Owner \notin Getters /\ Owner \notin Producers /\ Getters \cap Producers = {}
      /\ at \in [Parties -> {"start", "submitting", "holds", "entered", "on_cv", "destroy", "end"}]
  BY FutureBasics
<1>2. Cardinality(Waiters') = Cardinality(Waiters)
  BY <1>0, <1>1, WaitersSame DEF LifeInv, SubmitAlloc, stateVars, Moves, AfterDrop
<1>3. Claims = 0 /\ Claims' = 2
  BY <1>0, <1>1, <1>2 DEF Claims, OwnerShare, ProducerShare, RefInv, LifeInv, DoneInv, SubmitAlloc, stateVars, Moves, AfterDrop
<1>4. FutureTypeOK'
  BY <1>0, <1>1, <1>3 DEF FutureTypeOK, RefInv, LifeInv, SubmitAlloc, stateVars, Moves, AfterDrop
<1>5. RefInv'
  BY <1>0, <1>1, <1>3 DEF RefInv, LifeInv, SubmitAlloc, stateVars, Moves, AfterDrop
<1>6. LifeInv'
  BY <1>0, <1>1, <1>3 DEF RefInv, LifeInv, SubmitAlloc, stateVars, Moves, AfterDrop
<1>7. DoneInv' /\ SameResult'
  BY <1>0, <1>1 DEF FutureTypeOK, LifeInv, DoneInv, SameResult, SubmitAlloc, stateVars, Moves, AfterDrop
<1> QED BY <1>4, <1>5, <1>6, <1>7 DEF FutureInv

LEMMA SubmitAcceptedStep ==
  ASSUME FutureInv, ClaimFirst, SubmitAccepted
  PROVE  FutureInv'
<1>0. /\ FutureTypeOK /\ RefInv /\ LifeInv /\ DoneInv /\ SameResult
  BY DEF FutureInv
<1>1. /\ Cardinality(Waiters) \in Nat /\ Claims \in Nat /\ ref \in Nat
      /\ Owner \in Parties /\ Getters \subseteq Parties /\ Producers \subseteq Parties
      /\ Owner \notin Getters /\ Owner \notin Producers /\ Getters \cap Producers = {}
      /\ at \in [Parties -> {"start", "submitting", "holds", "entered", "on_cv", "destroy", "end"}]
  BY FutureBasics
<1>2. Cardinality(Waiters') = Cardinality(Waiters)
  BY <1>0, <1>1, WaitersSame DEF LifeInv, SubmitAccepted, stateVars, Moves, AfterDrop
<1>3. Claims = 2 /\ Claims' = 2
  BY <1>0, <1>1, <1>2 DEF Claims, OwnerShare, ProducerShare, RefInv, LifeInv, DoneInv, SubmitAccepted, stateVars, Moves, AfterDrop
<1>4. FutureTypeOK'
  BY <1>0, <1>1, <1>3 DEF FutureTypeOK, RefInv, LifeInv, SubmitAccepted, stateVars, Moves, AfterDrop
<1>5. RefInv'
  BY <1>0, <1>1, <1>3 DEF RefInv, LifeInv, SubmitAccepted, stateVars, Moves, AfterDrop
<1>6. LifeInv'
  BY <1>0, <1>1, <1>3 DEF RefInv, LifeInv, SubmitAccepted, stateVars, Moves, AfterDrop
<1>7. DoneInv' /\ SameResult'
  BY <1>0, <1>1 DEF FutureTypeOK, LifeInv, DoneInv, SameResult, SubmitAccepted, stateVars, Moves, AfterDrop
<1> QED BY <1>4, <1>5, <1>6, <1>7 DEF FutureInv

LEMMA SubmitDiscardsStep ==
  ASSUME FutureInv, ClaimFirst, SubmitDiscards
  PROVE  FutureInv'
<1>0. /\ FutureTypeOK /\ RefInv /\ LifeInv /\ DoneInv /\ SameResult
  BY DEF FutureInv
<1>1. /\ Cardinality(Waiters) \in Nat /\ Claims \in Nat /\ ref \in Nat
      /\ Owner \in Parties /\ Getters \subseteq Parties /\ Producers \subseteq Parties
      /\ Owner \notin Getters /\ Owner \notin Producers /\ Getters \cap Producers = {}
      /\ at \in [Parties -> {"start", "submitting", "holds", "entered", "on_cv", "destroy", "end"}]
  BY FutureBasics
<1>2. Cardinality(Waiters') = Cardinality(Waiters)
  BY <1>0, <1>1, WaitersSame DEF LifeInv, SubmitDiscards, stateVars, Moves, AfterDrop
<1>3. Claims = 2 /\ Claims' = 0
  BY <1>0, <1>1, <1>2 DEF Claims, OwnerShare, ProducerShare, RefInv, LifeInv, DoneInv, SubmitDiscards, stateVars, Moves, AfterDrop
<1>4. FutureTypeOK'
  BY <1>0, <1>1, <1>3 DEF FutureTypeOK, RefInv, LifeInv, SubmitDiscards, stateVars, Moves, AfterDrop
<1>5. RefInv'
  BY <1>0, <1>1, <1>3 DEF RefInv, LifeInv, SubmitDiscards, stateVars, Moves, AfterDrop
<1>6. LifeInv'
  BY <1>0, <1>1, <1>3 DEF RefInv, LifeInv, SubmitDiscards, stateVars, Moves, AfterDrop
<1>7. DoneInv' /\ SameResult'
  BY <1>0, <1>1 DEF FutureTypeOK, LifeInv, DoneInv, SameResult, SubmitDiscards, stateVars, Moves, AfterDrop
<1> QED BY <1>4, <1>5, <1>6, <1>7 DEF FutureInv

LEMMA FreeStep ==
  ASSUME FutureInv, ClaimFirst, Free
  PROVE  FutureInv'
<1>0. /\ FutureTypeOK /\ RefInv /\ LifeInv /\ DoneInv /\ SameResult
  BY DEF FutureInv
<1>1. /\ Cardinality(Waiters) \in Nat /\ Claims \in Nat /\ ref \in Nat
      /\ Owner \in Parties /\ Getters \subseteq Parties /\ Producers \subseteq Parties
      /\ Owner \notin Getters /\ Owner \notin Producers /\ Getters \cap Producers = {}
      /\ at \in [Parties -> {"start", "submitting", "holds", "entered", "on_cv", "destroy", "end"}]
  BY FutureBasics
<1>2. Cardinality(Waiters') = Cardinality(Waiters)
  BY <1>0, <1>1, WaitersSame DEF LifeInv, Free, stateVars, Moves, AfterDrop
<1>3. Claims > 0 /\ Claims' = Claims - 1 /\ life = "live" /\ ref = Claims /\ ref' = Claims' /\ ref' \in Nat
  BY <1>0, <1>1, <1>2 DEF Claims, OwnerShare, ProducerShare, RefInv, LifeInv, DoneInv, Free, stateVars, Moves, AfterDrop
<1>4. FutureTypeOK'
  BY <1>0, <1>1, <1>3 DEF FutureTypeOK, RefInv, LifeInv, Free, stateVars, Moves, AfterDrop
<1>5. RefInv'
  BY <1>0, <1>1, <1>3 DEF RefInv, LifeInv, Free, stateVars, Moves, AfterDrop
<1>6. LifeInv'
  BY <1>0, <1>1, <1>3 DEF RefInv, LifeInv, Free, stateVars, Moves, AfterDrop
<1>7. DoneInv' /\ SameResult'
  BY <1>0, <1>1 DEF FutureTypeOK, LifeInv, DoneInv, SameResult, Free, stateVars, Moves, AfterDrop
<1> QED BY <1>4, <1>5, <1>6, <1>7 DEF FutureInv

LEMMA TaskEndsStep ==
  ASSUME FutureInv, ClaimFirst, NEW p \in Producers, TaskEnds(p)
  PROVE  FutureInv'
<1>0. /\ FutureTypeOK /\ RefInv /\ LifeInv /\ DoneInv /\ SameResult
  BY DEF FutureInv
<1>1. /\ Cardinality(Waiters) \in Nat /\ Claims \in Nat /\ ref \in Nat
      /\ Owner \in Parties /\ Getters \subseteq Parties /\ Producers \subseteq Parties
      /\ Owner \notin Getters /\ Owner \notin Producers /\ Getters \cap Producers = {}
      /\ at \in [Parties -> {"start", "submitting", "holds", "entered", "on_cv", "destroy", "end"}]
  BY FutureBasics
<1>2. Cardinality(Waiters') = Cardinality(Waiters)
  BY <1>0, <1>1, WaitersSame DEF LifeInv, TaskEnds, stateVars, Moves, AfterDrop
<1>3. Claims > 0 /\ Claims' = Claims - 1 /\ life = "live" /\ ref = Claims /\ ref' = Claims' /\ ref' \in Nat /\ at[Owner] # "submitting"
  BY <1>0, <1>1, <1>2 DEF Claims, OwnerShare, ProducerShare, RefInv, LifeInv, DoneInv, TaskEnds, stateVars, Moves, AfterDrop
<1>4. FutureTypeOK'
  BY <1>0, <1>1, <1>3 DEF FutureTypeOK, RefInv, LifeInv, TaskEnds, stateVars, Moves, AfterDrop
<1>5. RefInv'
  BY <1>0, <1>1, <1>3 DEF RefInv, LifeInv, TaskEnds, stateVars, Moves, AfterDrop
<1>6. LifeInv'
  BY <1>3, DropLife DEF TaskEnds
<1>7. DoneInv' /\ SameResult'
  BY <1>0, <1>1 DEF FutureTypeOK, LifeInv, DoneInv, SameResult, TaskEnds, stateVars, Moves, AfterDrop
<1> QED BY <1>4, <1>5, <1>6, <1>7 DEF FutureInv

LEMMA FulfillStep ==
  ASSUME FutureInv, ClaimFirst, NEW p \in Producers, Fulfill(p)
  PROVE  FutureInv'
<1>0. /\ FutureTypeOK /\ RefInv /\ LifeInv /\ DoneInv /\ SameResult
  BY DEF FutureInv
<1>1. /\ Cardinality(Waiters) \in Nat /\ Claims \in Nat /\ ref \in Nat
      /\ Owner \in Parties /\ Getters \subseteq Parties /\ Producers \subseteq Parties
      /\ Owner \notin Getters /\ Owner \notin Producers /\ Getters \cap Producers = {}
      /\ at \in [Parties -> {"start", "submitting", "holds", "entered", "on_cv", "destroy", "end"}]
  BY FutureBasics
<1>2. Cardinality(Waiters') = Cardinality(Waiters)
  BY <1>0, <1>1, WaitersSame DEF LifeInv, Fulfill, stateVars, Moves, AfterDrop
<1>3. IF done THEN Claims' = Claims ELSE Claims > 0 /\ Claims' = Claims - 1 /\ life = "live" /\ ref = Claims /\ ref' = Claims' /\ ref' \in Nat /\ at[Owner] # "submitting"
  BY <1>0, <1>1, <1>2 DEF Claims, OwnerShare, ProducerShare, RefInv, LifeInv, DoneInv, Fulfill, stateVars, Moves, AfterDrop
<1>4. FutureTypeOK'
  BY <1>0, <1>1, <1>3 DEF FutureTypeOK, RefInv, LifeInv, Fulfill, stateVars, Moves, AfterDrop
<1>5. RefInv'
  BY <1>0, <1>1, <1>3 DEF RefInv, LifeInv, Fulfill, stateVars, Moves, AfterDrop
<1>6. LifeInv'
  <2>1. CASE done
    BY <1>0, <1>1, <1>3, <2>1 DEF RefInv, LifeInv, Fulfill, stateVars, Moves, AfterDrop
  <2>2. CASE ~done
    BY <1>3, <2>2, DropLife DEF Fulfill
  <2> QED BY <2>1, <2>2
<1>7. DoneInv' /\ SameResult'
  BY <1>0, <1>1 DEF FutureTypeOK, LifeInv, DoneInv, SameResult, Fulfill, stateVars, Moves, AfterDrop
<1> QED BY <1>4, <1>5, <1>6, <1>7 DEF FutureInv

LEMMA GetCallStep ==
  ASSUME FutureInv, ClaimFirst, NEW g \in Getters, GetCall(g)
  PROVE  FutureInv'
<1>0. /\ FutureTypeOK /\ RefInv /\ LifeInv /\ DoneInv /\ SameResult
  BY DEF FutureInv
<1>1. /\ Cardinality(Waiters) \in Nat /\ Claims \in Nat /\ ref \in Nat
      /\ Owner \in Parties /\ Getters \subseteq Parties /\ Producers \subseteq Parties
      /\ Owner \notin Getters /\ Owner \notin Producers /\ Getters \cap Producers = {}
      /\ at \in [Parties -> {"start", "submitting", "holds", "entered", "on_cv", "destroy", "end"}]
  BY FutureBasics
<1>2. Cardinality(Waiters') = Cardinality(Waiters)
  BY <1>0, <1>1, WaitersSame DEF LifeInv, GetCall, stateVars, Moves, AfterDrop
<1>3. Claims' = Claims
  BY <1>0, <1>1, <1>2 DEF Claims, OwnerShare, ProducerShare, RefInv, LifeInv, DoneInv, GetCall, stateVars, Moves, AfterDrop
<1>4. FutureTypeOK'
  BY <1>0, <1>1, <1>3 DEF FutureTypeOK, RefInv, LifeInv, GetCall, stateVars, Moves, AfterDrop
<1>5. RefInv'
  BY <1>0, <1>1, <1>3 DEF RefInv, LifeInv, GetCall, stateVars, Moves, AfterDrop
<1>6. LifeInv'
  BY <1>0, <1>1, <1>3 DEF RefInv, LifeInv, GetCall, stateVars, Moves, AfterDrop
<1>7. DoneInv' /\ SameResult'
  BY <1>0, <1>1 DEF FutureTypeOK, LifeInv, DoneInv, SameResult, GetCall, stateVars, Moves, AfterDrop
<1> QED BY <1>4, <1>5, <1>6, <1>7 DEF FutureInv

LEMMA GetEntersStep ==
  ASSUME FutureInv, ClaimFirst, NEW g \in Getters, GetEnters(g)
  PROVE  FutureInv'
<1>0. /\ FutureTypeOK /\ RefInv /\ LifeInv /\ DoneInv /\ SameResult
  BY DEF FutureInv
<1>1. /\ Cardinality(Waiters) \in Nat /\ Claims \in Nat /\ ref \in Nat
      /\ Owner \in Parties /\ Getters \subseteq Parties /\ Producers \subseteq Parties
      /\ Owner \notin Getters /\ Owner \notin Producers /\ Getters \cap Producers = {}
      /\ at \in [Parties -> {"start", "submitting", "holds", "entered", "on_cv", "destroy", "end"}]
  BY FutureBasics
<1>2. Cardinality(Waiters') = Cardinality(Waiters) + 1
  BY <1>0, <1>1, WaiterJoins DEF LifeInv, GetEnters, stateVars, Moves, AfterDrop
<1>3. Claims > 0 /\ Claims' = Claims + 1 /\ at[Owner] = "holds"
  BY <1>0, <1>1, <1>2 DEF Claims, OwnerShare, ProducerShare, RefInv, LifeInv, DoneInv, GetEnters, stateVars, Moves, AfterDrop
<1>4. FutureTypeOK'
  BY <1>0, <1>1, <1>3 DEF FutureTypeOK, RefInv, LifeInv, GetEnters, stateVars, Moves, AfterDrop
<1>5. RefInv'
  BY <1>0, <1>1, <1>3 DEF RefInv, LifeInv, GetEnters, stateVars, Moves, AfterDrop
<1>6. LifeInv'
  BY <1>0, <1>1, <1>3 DEF RefInv, LifeInv, GetEnters, stateVars, Moves, AfterDrop
<1>7. DoneInv' /\ SameResult'
  BY <1>0, <1>1 DEF FutureTypeOK, LifeInv, DoneInv, SameResult, GetEnters, stateVars, Moves, AfterDrop
<1> QED BY <1>4, <1>5, <1>6, <1>7 DEF FutureInv

LEMMA GetReturnsStep ==
  ASSUME FutureInv, ClaimFirst, NEW g \in Getters, GetReturns(g)
  PROVE  FutureInv'
<1>0. /\ FutureTypeOK /\ RefInv /\ LifeInv /\ DoneInv /\ SameResult
  BY DEF FutureInv
<1>1. /\ Cardinality(Waiters) \in Nat /\ Claims \in Nat /\ ref \in Nat
      /\ Owner \in Parties /\ Getters \subseteq Parties /\ Producers \subseteq Parties
      /\ Owner \notin Getters /\ Owner \notin Producers /\ Getters \cap Producers = {}
      /\ at \in [Parties -> {"start", "submitting", "holds", "entered", "on_cv", "destroy", "end"}]
  BY FutureBasics
<1>2. Cardinality(Waiters') = Cardinality(Waiters) - 1 /\ Cardinality(Waiters) > 0
  BY <1>0, <1>1, WaiterLeaves DEF LifeInv, GetReturns, stateVars, Moves, AfterDrop
<1>3. Claims > 0 /\ Claims' = Claims - 1 /\ life = "live" /\ ref = Claims /\ ref' = Claims' /\ ref' \in Nat /\ at[Owner] # "submitting"
  BY <1>0, <1>1, <1>2 DEF Claims, OwnerShare, ProducerShare, RefInv, LifeInv, DoneInv, GetReturns, stateVars, Moves, AfterDrop
<1>4. FutureTypeOK'
  BY <1>0, <1>1, <1>3 DEF FutureTypeOK, RefInv, LifeInv, GetReturns, stateVars, Moves, AfterDrop
<1>5. RefInv'
  BY <1>0, <1>1, <1>3 DEF RefInv, LifeInv, GetReturns, stateVars, Moves, AfterDrop
<1>6. LifeInv'
  BY <1>3, DropLife DEF GetReturns
<1>7. DoneInv' /\ SameResult'
  BY <1>0, <1>1 DEF FutureTypeOK, LifeInv, DoneInv, SameResult, GetReturns, stateVars, Moves, AfterDrop
<1> QED BY <1>4, <1>5, <1>6, <1>7 DEF FutureInv

LEMMA DestroyFutureStep ==
  ASSUME FutureInv, ClaimFirst, NEW t \in Parties, Destroy(t)
  PROVE  FutureInv'
<1>0. /\ FutureTypeOK /\ RefInv /\ LifeInv /\ DoneInv /\ SameResult
  BY DEF FutureInv
<1>1. /\ Cardinality(Waiters) \in Nat /\ Claims \in Nat /\ ref \in Nat
      /\ Owner \in Parties /\ Getters \subseteq Parties /\ Producers \subseteq Parties
      /\ Owner \notin Getters /\ Owner \notin Producers /\ Getters \cap Producers = {}
      /\ at \in [Parties -> {"start", "submitting", "holds", "entered", "on_cv", "destroy", "end"}]
  BY FutureBasics
<1>2. Cardinality(Waiters') = Cardinality(Waiters)
  BY <1>0, <1>1, WaitersSame DEF LifeInv, Destroy, stateVars, Moves, AfterDrop
<1>3. Claims = 0 /\ Claims' = 0
  BY <1>0, <1>1, <1>2 DEF Claims, OwnerShare, ProducerShare, RefInv, LifeInv, DoneInv, Destroy, stateVars, Moves, AfterDrop
<1>4. FutureTypeOK'
  BY <1>0, <1>1, <1>3 DEF FutureTypeOK, RefInv, LifeInv, Destroy, stateVars, Moves, AfterDrop
<1>5. RefInv'
  BY <1>0, <1>1, <1>3 DEF RefInv, LifeInv, Destroy, stateVars, Moves, AfterDrop
<1>6. LifeInv'
  BY <1>0, <1>1, <1>3 DEF RefInv, LifeInv, Destroy, stateVars, Moves, AfterDrop
<1>7. DoneInv' /\ SameResult'
  BY <1>0, <1>1 DEF FutureTypeOK, LifeInv, DoneInv, SameResult, Destroy, stateVars, Moves, AfterDrop
<1> QED BY <1>4, <1>5, <1>6, <1>7 DEF FutureInv

LEMMA FutureInvStep ==
  ASSUME FutureInv, ClaimFirst, [FutureNext]_futureVars
  PROVE  FutureInv'
<1>1. CASE OwnerStep
  BY <1>1, CreateDetachedStep, SubmitAllocStep, SubmitAcceptedStep, SubmitDiscardsStep, FreeStep
     DEF OwnerStep
<1>2. ASSUME NEW p \in Producers, Produce(p) PROVE FutureInv'
  BY <1>2, TaskEndsStep, FulfillStep DEF Produce
<1>3. ASSUME NEW g \in Getters, GetCall(g) PROVE FutureInv'
  BY <1>3, GetCallStep
<1>4. ASSUME NEW g \in Getters, Get(g) PROVE FutureInv'
  <2>1. CASE GetSleepsAgain(g)
    BY <2>1 DEF GetSleepsAgain, FutureInv, FutureTypeOK, RefInv, LifeInv, DoneInv, SameResult, Claims, OwnerShare,
                ProducerShare, Waiters, stateVars
  <2> QED BY <1>4, <2>1, GetEntersStep, GetReturnsStep DEF Get
<1>5. ASSUME NEW g \in Getters, GetWakesSpuriously(g) PROVE FutureInv'
  BY <1>5 DEF GetWakesSpuriously, FutureInv, FutureTypeOK, RefInv, LifeInv, DoneInv, SameResult, Claims, OwnerShare,
              ProducerShare, Waiters, stateVars
<1>6. ASSUME NEW t \in Parties, Destroy(t) PROVE FutureInv'
  BY <1>6, DestroyFutureStep
<1>7. CASE UNCHANGED futureVars
  BY <1>7 DEF futureVars, FutureInv, FutureTypeOK, RefInv, LifeInv, DoneInv, SameResult, Claims, OwnerShare,
              ProducerShare, Waiters, stateVars
<1> QED BY <1>1, <1>2, <1>3, <1>4, <1>5, <1>6, <1>7 DEF FutureNext

LEMMA FutureInvariance == ASSUME ClaimFirst PROVE FutureSpec => []FutureInv
<1>1. FutureInit => FutureInv BY FutureInvInit
<1>2. FutureInv /\ [FutureNext]_futureVars => FutureInv' BY FutureInvStep
<1> QED BY <1>1, <1>2, PTL DEF FutureSpec

LEMMA FutureInvSafe == FutureInv => NoUseAfterFree
<1> SUFFICES ASSUME FutureInv, NEW t \in Parties, Touching(t) PROVE life = "live"
  BY DEF NoUseAfterFree
<1>1. /\ FutureTypeOK /\ LifeInv /\ DoneInv
      /\ Cardinality(Waiters) \in Nat /\ OwnerShare \in {0, 1} /\ ProducerShare \in {0, 1}
  BY FutureBasics DEF FutureInv
<1>2. CASE at[t] = "on_cv"
  <2>1. t \in Waiters BY <1>1, <1>2 DEF LifeInv, Parties, Waiters
  <2>2. Cardinality(Waiters) # 0 BY <2>1, WaitersFinite
  <2> QED BY <1>1, <2>2 DEF LifeInv, Claims
<1>3. CASE at[t] \in {"submitting", "holds", "entered"}
  <2>1. at[Owner] \in {"submitting", "holds"} BY <1>1, <1>3 DEF LifeInv, Parties
  <2> QED BY <1>1, <2>1 DEF LifeInv, Claims, OwnerShare
<1>4. CASE pending
  BY <1>1, <1>4 DEF LifeInv, Claims, ProducerShare
<1>5. CASE at[t] = "destroy"
  BY <1>1, <1>5 DEF LifeInv
<1> QED BY <1>2, <1>3, <1>4, <1>5 DEF Touching

\* For any number of gets and producers: no thread that still has something to
\* do with a future (cthrpool_future_get, _free, _fulfill, a worker completing a
\* task, a shutdown cancelling it) finds it freed, and it is not destroyed
\* twice, provided no free overtakes a get that has not yet taken its reference.
THEOREM FutureSafety == ASSUME ClaimFirst PROVE FutureSpec => []NoUseAfterFree
BY FutureInvariance, FutureInvSafe, PTL

\* Under the same proviso every get that returned has returned the delivered
\* result, and a cancelled future delivers the null result.
THEOREM GetsAgree == ASSUME ClaimFirst PROVE FutureSpec => []SameResult
<1>1. FutureInv => SameResult BY DEF FutureInv
<1> QED BY <1>1, FutureInvariance, PTL

\* Under the same proviso a future once done stays as it is: neither a second
\* fulfill nor a cancellation after the completion changes what gets return.
THEOREM DeliveredOnce == ASSUME ClaimFirst PROVE FutureSpec => ResultStable
<1>1. ASSUME FutureInv, [FutureNext]_futureVars PROVE done => done' /\ result' = result /\ cancelled' = cancelled
  <2>1. /\ done => ~pending
        /\ at[Owner] \in {"start", "submitting"} => ~done
    BY <1>1 DEF FutureInv, DoneInv
  <2>2. CASE OwnerStep
    BY <2>2 DEF OwnerStep, CreateDetached, SubmitAlloc, SubmitAccepted, SubmitDiscards, Free, stateVars
  <2>3. ASSUME NEW p \in Producers, Produce(p), done
        PROVE  done' /\ result' = result /\ cancelled' = cancelled
    BY <2>1, <2>3 DEF Produce, TaskEnds, Fulfill, stateVars
  <2>4. ASSUME NEW g \in Getters, GetCall(g) \/ Get(g) \/ GetWakesSpuriously(g)
        PROVE  UNCHANGED stateVars
    BY <2>4 DEF GetCall, Get, GetEnters, GetReturns, GetSleepsAgain, GetWakesSpuriously
  <2>5. ASSUME NEW t \in Parties, Destroy(t) PROVE UNCHANGED stateVars
    BY <2>5 DEF Destroy
  <2> QED BY <1>1, <2>2, <2>3, <2>4, <2>5 DEF FutureNext, futureVars, stateVars
<1> QED BY <1>1, FutureInvariance, PTL DEF FutureSpec, ResultStable

-----------------------------------------------------------------------------
(***************************************************************************)
(* The handles that pools and futures are reached through (HandleTable),   *)
(* for any number of threads, slots, stripes and objects and every         *)
(* generation width: a pinned object is not freed under its user, and a    *)
(* destroyed index is not lost.                                            *)
(***************************************************************************)
\* Threads whose increment of stripe k of slot s is not yet undone.
Holders(s, k) ==
  {t \in Callers : ctl[t] \in Counted /\ Idx(hnd[t]) = s /\ StripeOf[t] = k}

CountInv == \A s \in Slot, k \in Stripe : count[<<s, k>>] = Cardinality(Holders(s, k))

\* What a slot says of its object; the handle in the object names the slot, so
\* no two slots have the same object.
SlotInv ==
  \A s \in Slot :
    /\ slotInUse[s] = state[s].live
    /\ slotInUse[s] => /\ slotPtr[s] # NoObj
                       /\ pinPtr[s] = slotPtr[s]
                       /\ obj[slotPtr[s]] = "live"
    /\ slotPtr[s] # NoObj => /\ obj[slotPtr[s]] # "unborn"
                             /\ self[slotPtr[s]] # NoObj
                             /\ Idx(self[slotPtr[s]]) = s
                             /\ s < nslots

\* The free list holds each released index at most once.
FreeInv ==
  /\ \A i \in DOMAIN freeIdx : /\ freeIdx[i] < nslots
                               /\ slotPtr[freeIdx[i]] = NoObj
                               /\ ~slotInUse[freeIdx[i]]
  /\ \A i, j \in DOMAIN freeIdx : freeIdx[i] = freeIdx[j] => i = j

Creating(t) == ctl[t] \in {"acquire", "store", "abandon"}
Destroying(t) == ctl[t] \in {"scan", "free", "release"}

\* A thread that creates an object is alone with it.
CreatorInv ==
  \A t \in Callers : Creating(t) =>
    /\ ptr[t] \in Objs
    /\ obj[ptr[t]] = "live"
    /\ \A s \in Slot : slotPtr[s] # ptr[t]
    /\ \A u \in Callers : Creating(u) /\ ptr[u] = ptr[t] => u = t
    /\ ctl[t] = "store" => LET s == Idx(hnd[t]) IN
                          /\ wlock = t
                          /\ slotPtr[s] = NoObj
                          /\ ~slotInUse[s]
                          /\ s < nslots
                          /\ pinPtr[s] = ptr[t]
                          /\ self[ptr[t]] = hnd[t]
                          /\ \A i \in DOMAIN freeIdx : freeIdx[i] # s

\* A thread that destroys an object is alone in doing so.
DestroyerInv ==
  \A d \in Callers : Destroying(d) =>
    LET s == Idx(hnd[d]) IN
    /\ ptr[d] \in Objs
    /\ ~slotInUse[s]
    /\ slotPtr[s] = ptr[d]
    /\ pinPtr[s] = ptr[d]
    /\ ctl[d] # "release" => obj[ptr[d]] = "live"
    /\ acc[d] >= 0
    /\ \A e \in Callers : Destroying(e) /\ Idx(hnd[e]) = s => e = d

Using(t) == ctl[t] \in {"load", "use"}

\* A destroyer's scan has not yet passed the stripe of t.
NotPassed(d, t) ==
  /\ ctl[d] = "scan"
  /\ Idx(hnd[d]) = Idx(hnd[t])
  /\ acc[d] = 0 => stripeAt[d] <= StripeOf[t]

\* A granted pin is on a live slot, or on one whose destroyer will still see it.
UserInv ==
  \A t \in Callers : Using(t) =>
    /\ ctl[t] = "use" => ptr[t] = pinPtr[Idx(hnd[t])]
    /\ slotInUse[Idx(hnd[t])] \/ \E d \in Callers : NotPassed(d, t)

HandleIInv == HandleTypeOK /\ CountInv /\ SlotInv /\ FreeInv /\ CreatorInv /\ DestroyerInv /\ UserInv

-----------------------------------------------------------------------------
USE ThreadsAssumption, SizesAssumption, StripeAssumption, NoneAssumption, ExitAssumption

\* A handle is an index and a generation.
LEMMA HandleParts ==
  ASSUME NEW h \in Handle
  PROVE  Idx(h) \in Slot /\ GenOf(h) \in Gen
BY DEF Handle, Idx, GenOf

\* Generations stay within their width.
LEMMA GenType == \A g \in Gen : Bump(g) \in Gen /\ NextGen(g) \in Gen
BY DEF Gen, Bump, NextGen

LEMMA TypeInit == HandleInit => HandleTypeOK
<1> SUFFICES ASSUME HandleInit PROVE HandleTypeOK
  OBVIOUS
<1> USE DEF HandleInit
<1>1. 0 \in Slot /\ 0 \in Gen
  BY DEF Slot, Gen
<1>2. <<0, 0>> \in Handle
  BY <1>1 DEF Handle
<1>3. state \in [Slot -> [gen : Gen, live : BOOLEAN]]
  BY <1>1
<1>4. count \in [Slot \X Stripe -> Int]
  OBVIOUS
<1>5. ctl \in [Callers -> Pc] /\ hnd \in [Callers -> Handle]
  BY <1>2 DEF Pc
<1>6. stripeAt \in [Callers -> 0 .. NStripes] /\ nslots \in 0 .. MaxSlots
  OBVIOUS
<1>7. slotPtr \in [Slot -> Objs \cup {NoObj}] /\ pinPtr \in [Slot -> Objs \cup {NoObj}]
  OBVIOUS
<1>8. slotGen \in [Slot -> Gen] /\ slotInUse \in [Slot -> BOOLEAN] /\ storage \in [Slot -> BOOLEAN]
  BY <1>1
<1>9. freeIdx \in Seq(Slot) /\ lost \in Nat
  OBVIOUS
<1>10. obj \in [Objs -> {"unborn", "live", "freed"}] /\ self \in [Objs -> Handle \cup {NoObj}]
  OBVIOUS
<1>11. ptr \in [Callers -> Objs \cup {NoObj}] /\ acc \in [Callers -> Int]
  OBVIOUS
<1>12. wlock \in Callers \cup {NoObj} /\ deferred \in BOOLEAN /\ released \in BOOLEAN /\ issued \subseteq Handle
  OBVIOUS
<1> QED
  BY <1>3, <1>4, <1>5, <1>6, <1>7, <1>8, <1>9, <1>10, <1>11, <1>12 DEF HandleTypeOK

\* A destroyer and a user of an object reach its slot through the handle the
\* object stores.
LEMMA SelfSlot ==
  ASSUME HandleIInv, NEW t \in Callers, Destroying(t) \/ ctl[t] = "use"
  PROVE  /\ Idx(hnd[t]) \in Slot
         /\ ptr[t] \in Objs
         /\ obj[ptr[t]] = "live" \/ ctl[t] = "release"
         /\ Idx(self[ptr[t]]) = Idx(hnd[t])
<1>1. Idx(hnd[t]) \in Slot
  BY HandleParts DEF HandleIInv, HandleTypeOK
<1>2. CASE Destroying(t)
  <2>1. /\ ptr[t] \in Objs
        /\ slotPtr[Idx(hnd[t])] = ptr[t]
        /\ obj[ptr[t]] = "live" \/ ctl[t] = "release"
    BY <1>2 DEF HandleIInv, DestroyerInv
  <2>2. Idx(self[ptr[t]]) = Idx(hnd[t])
    BY <1>1, <2>1 DEF HandleIInv, SlotInv
  <2> QED
    BY <1>1, <2>1, <2>2
<1>3. CASE ctl[t] = "use"
  <2>1. ptr[t] = pinPtr[Idx(hnd[t])]
    BY <1>3 DEF HandleIInv, UserInv, Using
  <2>2. CASE slotInUse[Idx(hnd[t])]
    <3>1. slotPtr[Idx(hnd[t])] \in Objs
      BY <1>1, <2>2 DEF HandleIInv, HandleTypeOK, SlotInv
    <3> QED
      BY <1>1, <2>1, <2>2, <3>1 DEF HandleIInv, SlotInv
  <2>3. CASE \E d \in Callers : NotPassed(d, t)
    <3>1. PICK d \in Callers : NotPassed(d, t)
      BY <2>3
    <3>2. pinPtr[Idx(hnd[t])] = ptr[d] /\ slotPtr[Idx(hnd[t])] = ptr[d] /\ ptr[d] \in Objs /\ obj[ptr[d]] = "live"
      BY <3>1 DEF HandleIInv, DestroyerInv, Destroying, NotPassed
    <3> QED
      BY <1>1, <2>1, <3>2 DEF HandleIInv, SlotInv
  <2> QED
    BY <1>3, <2>2, <2>3 DEF HandleIInv, UserInv, Using
<1> QED
  BY <1>2, <1>3

\* Every step keeps the types.
LEMMA TypeStep == HandleIInv /\ [HandleNext]_handleVars => HandleTypeOK'
<1> SUFFICES ASSUME HandleIInv, [HandleNext]_handleVars PROVE HandleTypeOK'
  OBVIOUS
<1> HandleTypeOK
  BY DEF HandleIInv
<1> USE DEF HandleTypeOK, GoesTo, Pc, Counted
<1>0. \A t \in Callers : Idx(hnd[t]) \in Slot /\ GenOf(hnd[t]) \in Gen
  BY HandleParts
<1>a. freeIdx \in Seq(Slot) /\ lost \in Nat
  OBVIOUS
<1>b. count \in [Slot \X Stripe -> Int]
  OBVIOUS
<1>c. /\ stripeAt \in [Callers -> 0 .. NStripes] /\ acc \in [Callers -> Int]
      /\ ctl \in [Callers -> Pc]
  OBVIOUS
<1>1. ASSUME NEW t \in Callers, NEW o \in Objs, Create(t, o) PROVE HandleTypeOK'
  BY <1>1 DEF Create, tableVars, pinVars
<1>2. ASSUME NEW t \in Callers, NEW h \in issued, ResolveCall(t, h) PROVE HandleTypeOK'
  BY <1>2 DEF ResolveCall, tableVars, pinVars, objVars
<1>3. ASSUME NEW t \in Callers, NEW h \in issued, DestroyRetire(t, h) PROVE HandleTypeOK'
  <2>1. Idx(h) \in Slot /\ h \in Handle
    BY HandleParts
  <2>2. state' \in [Slot -> [gen : Gen, live : BOOLEAN]]
    BY <1>3, <2>1 DEF DestroyRetire
  <2>3. slotInUse' \in [Slot -> BOOLEAN] /\ ptr' \in [Callers -> Objs \cup {NoObj}]
    BY <1>3, <2>1 DEF DestroyRetire
  <2>4. stripeAt' \in [Callers -> 0 .. NStripes] /\ acc' \in [Callers -> Int]
    BY <1>3 DEF DestroyRetire
  <2>5. hnd' \in [Callers -> Handle] /\ ctl' \in [Callers -> Pc]
    BY <1>3, <2>1 DEF DestroyRetire
  <2> QED
    BY <1>3, <2>2, <2>3, <2>4, <2>5 DEF DestroyRetire, objVars
<1>4. ASSUME NEW t \in Callers, NEW s \in Slot, AcquireSlot(t, s) PROVE HandleTypeOK'
  <2> DEFINE h == <<s, NextGen(slotGen[s])>>
  <2>1. h \in Handle /\ GenOf(h) \in Gen
    BY GenType DEF Handle, GenOf
  <2>2. slotGen' \in [Slot -> Gen] /\ self' \in [Objs -> Handle \cup {NoObj}] /\ hnd' \in [Callers -> Handle]
    BY <1>4, <2>1 DEF AcquireSlot
  <2>3. lost' \in Nat /\ nslots' \in 0 .. MaxSlots
    BY <1>4 DEF AcquireSlot, TakeIndex
  <2>6. freeIdx' \in Seq(Slot)
    <3>1. freeIdx # <<>> => SubSeq(freeIdx, 1, Len(freeIdx) - 1) \in Seq(Slot)
      BY SubSeqProperties, LenProperties, EmptySeq
    <3> QED
      BY <1>4, <3>1 DEF AcquireSlot, TakeIndex
  <2>4. pinPtr' \in [Slot -> Objs \cup {NoObj}] /\ storage' \in [Slot -> BOOLEAN]
    BY <1>4 DEF AcquireSlot
  <2>5. wlock' \in Callers \cup {NoObj} /\ ctl' \in [Callers -> Pc]
    BY <1>4 DEF AcquireSlot
  <2> QED
    BY <1>4, <2>2, <2>3, <2>4, <2>5, <2>6 DEF AcquireSlot
<1>5. ASSUME NEW t \in Callers, NEW s \in Slot, AcquireFails(t, s) PROVE HandleTypeOK'
  <2>1. lost' \in Nat /\ nslots' \in 0 .. MaxSlots
    BY <1>5 DEF AcquireFails, GiveBack
  <2>3. freeIdx' \in Seq(Slot)
    <3>1. freeIdx # <<>> => SubSeq(freeIdx, 1, Len(freeIdx) - 1) \in Seq(Slot)
      BY SubSeqProperties, LenProperties, EmptySeq
    <3> DEFINE front == SubSeq(freeIdx, 1, Len(freeIdx) - 1)
    <3>2. \/ freeIdx # <<>> /\ freeIdx' \in {Append(front, s), front}
          \/ freeIdx' \in {<<s>>, freeIdx}
      BY <1>5 DEF AcquireFails, GiveBack
    <3>3. freeIdx # <<>> => Append(front, s) \in Seq(Slot)
      BY <3>1, AppendProperties
    <3>4. <<s>> \in Seq(Slot)
      OBVIOUS
    <3> HIDE DEF front, HandleTypeOK
    <3> QED
      BY <1>a, <3>1, <3>2, <3>3, <3>4 DEF front
  <2>2. slotGen' \in [Slot -> Gen] /\ slotPtr' \in [Slot -> Objs \cup {NoObj}] /\ ctl' \in [Callers -> Pc]
    BY <1>5, GenType DEF AcquireFails
  <2> QED
    BY <1>5, <2>1, <2>2, <2>3 DEF AcquireFails, pinVars, objVars
<1>6. ASSUME NEW t \in Callers, AcquireRefused(t) PROVE HandleTypeOK'
  BY <1>6 DEF AcquireRefused, pinVars, objVars
<1>7. ASSUME NEW t \in Callers, PublishState(t) PROVE HandleTypeOK'
  BY <1>7, <1>0 DEF PublishState, objVars
<1>8. ASSUME NEW t \in Callers, Abandon(t) PROVE HandleTypeOK'
  BY <1>8 DEF Abandon, tableVars, pinVars
<1>9. ASSUME NEW t \in Callers, PinLookup(t) \/ PinRecheck(t) PROVE HandleTypeOK'
  BY <1>9 DEF PinLookup, PinRecheck, tableVars, pinVars, objVars
<1>10. ASSUME NEW t \in Callers, PinAdd(t) \/ PinBackout(t) \/ Unpin(t) PROVE HandleTypeOK'
  <2>1. count' \in [Slot \X Stripe -> Int]
    <3>1. ctl[t] = "use" => Idx(self[ptr[t]]) = Idx(hnd[t])
      BY SelfSlot
    <3>2. count' = [count EXCEPT ![<<Idx(hnd[t]), StripeOf[t]>>] = count[<<Idx(hnd[t]), StripeOf[t]>>] + 1]
          \/ count' = [count EXCEPT ![<<Idx(hnd[t]), StripeOf[t]>>] = count[<<Idx(hnd[t]), StripeOf[t]>>] - 1]
      BY <1>10, <3>1 DEF PinAdd, PinBackout, Unpin
    <3>3. StripeOf[t] \in Stripe /\ count[<<Idx(hnd[t]), StripeOf[t]>>] \in Int
      BY <1>0
    <3> HIDE DEF HandleTypeOK
    <3> QED
      BY <1>0, <1>b, <3>2, <3>3
  <2>2. ctl' \in [Callers -> Pc]
    BY <1>10 DEF PinAdd, PinBackout, Unpin
  <2> QED
    BY <1>10, <2>1, <2>2 DEF PinAdd, PinBackout, Unpin, tableVars, objVars
<1>11. ASSUME NEW t \in Callers, PinLoad(t) PROVE HandleTypeOK'
  BY <1>11, <1>0 DEF PinLoad, tableVars, pinVars, objVars
<1>12. ASSUME NEW t \in Callers, ScanStripe(t) PROVE HandleTypeOK'
  <2>1. stripeAt' \in [Callers -> 0 .. NStripes]
    <3> HIDE DEF HandleTypeOK
    <3> QED
      BY <1>c, <1>12 DEF ScanStripe
  <2>2. acc' \in [Callers -> Int]
    <3>1. Idx(self[ptr[t]]) \in Slot
      BY <1>12, SelfSlot DEF ScanStripe, Destroying
    <3>2. stripeAt[t] \in Stripe
      BY <1>12 DEF ScanStripe, Stripe
    <3>3. count[<<Idx(self[ptr[t]]), stripeAt[t]>>] \in Int
      BY <3>1, <3>2
    <3> HIDE DEF HandleTypeOK
    <3> QED
      BY <1>c, <1>12, <3>3 DEF ScanStripe
  <2> QED
    BY <1>12, <2>1, <2>2 DEF ScanStripe, tableVars, pinVars, objVars
<1>13. ASSUME NEW t \in Callers, ScanAgain(t) \/ ScanDone(t) PROVE HandleTypeOK'
  <2>1. stripeAt' = stripeAt \/ stripeAt' = [stripeAt EXCEPT ![t] = 0]
    BY <1>13 DEF ScanAgain, ScanDone
  <2>2. acc' = acc \/ acc' = [acc EXCEPT ![t] = 0]
    BY <1>13 DEF ScanAgain, ScanDone
  <2>3. ctl' = ctl \/ ctl' = [ctl EXCEPT ![t] = "free"]
    BY <1>13 DEF ScanAgain, ScanDone
  <2> HIDE DEF HandleTypeOK
  <2>4. stripeAt' \in [Callers -> 0 .. NStripes]
    BY <1>c, <2>1
  <2>5. acc' \in [Callers -> Int]
    BY <1>c, <2>2
  <2>6. ctl' \in [Callers -> Pc]
    BY <1>c, <2>3
  <2>7. UNCHANGED <<tableVars, wlock, pinVars, objVars, hnd, ptr, issued>>
    BY <1>13 DEF ScanAgain, ScanDone
  <2> QED
    BY <2>4, <2>5, <2>6, <2>7 DEF HandleTypeOK, tableVars, pinVars, objVars
<1>14. ASSUME NEW t \in Callers, FreeObject(t) PROVE HandleTypeOK'
  BY <1>14 DEF FreeObject, tableVars, pinVars
<1>15. ASSUME NEW t \in Callers, ReleaseSlot(t) PROVE HandleTypeOK'
  <2>1. freeIdx' \in Seq(Slot) /\ lost' \in Nat
    <3>1. freeIdx' \in {Append(freeIdx, Idx(hnd[t])), freeIdx} /\ lost' \in {lost, lost + 1}
      BY <1>15 DEF ReleaseSlot, GiveBack
    <3>2. Append(freeIdx, Idx(hnd[t])) \in Seq(Slot)
      BY <1>0, AppendProperties
    <3> HIDE DEF HandleTypeOK
    <3> QED
      BY <1>a, <3>1, <3>2
  <2>2. slotGen' \in [Slot -> Gen] /\ slotPtr' \in [Slot -> Objs \cup {NoObj}] /\ ctl' \in [Callers -> Pc]
    BY <1>15, <1>0, GenType DEF ReleaseSlot
  <2>3. released' \in BOOLEAN /\ deferred' \in BOOLEAN
    BY <1>15 DEF ReleaseSlot
  <2> QED
    BY <1>15, <2>1, <2>2, <2>3 DEF ReleaseSlot, pinVars, objVars
<1>16. ASSUME ExitCleanup PROVE HandleTypeOK'
  BY <1>16 DEF ExitCleanup, pinVars, objVars, threadVars
<1>17. CASE UNCHANGED handleVars
  BY <1>17 DEF handleVars, tableVars, pinVars, objVars, threadVars
<1> QED
  BY <1>1, <1>2, <1>3, <1>4, <1>5, <1>6, <1>7, <1>8, <1>9, <1>10, <1>11, <1>12, <1>13,
     <1>14, <1>15, <1>16, <1>17 DEF HandleNext, Progress


-----------------------------------------------------------------------------

LEMMA HoldersFinite == \A s, k : IsFiniteSet(Holders(s, k))
BY FS_Subset DEF Holders

\* A step that neither starts nor ends a pin, and moves no pin to another
\* handle, leaves every set of holders alone.
LEMMA HoldersSame ==
  ASSUME NEW t \in Callers, HandleTypeOK,
         \A u \in Callers \ {t} : ctl'[u] = ctl[u] /\ hnd'[u] = hnd[u],
         ctl'[t] \in Counted <=> ctl[t] \in Counted,
         ctl[t] \in Counted => hnd'[t] = hnd[t],
         count' = count, CountInv
  PROVE  CountInv'
<1>1. \A s, k : Holders(s, k)' = Holders(s, k)
  BY DEF Holders
<1> QED
  BY <1>1 DEF CountInv

\* The counters keep counting the holders.
LEMMA CountStep == HandleIInv /\ [HandleNext]_handleVars => CountInv'
<1> SUFFICES ASSUME HandleIInv, [HandleNext]_handleVars PROVE CountInv'
  OBVIOUS
<1>0. HandleTypeOK /\ CountInv
  BY DEF HandleIInv
<1>a. ctl \in [Callers -> Pc] /\ hnd \in [Callers -> Handle] /\ count \in [Slot \X Stripe -> Int]
  BY <1>0 DEF HandleTypeOK
<1> USE DEF GoesTo, Counted, threadVars
<1>1. ASSUME NEW t \in Callers, NEW o \in Objs, Create(t, o) PROVE CountInv'
  BY <1>0, <1>1, <1>a, HoldersSame DEF Create, pinVars
<1>2. ASSUME NEW t \in Callers, NEW h \in issued, ResolveCall(t, h) PROVE CountInv'
  BY <1>0, <1>2, <1>a, HoldersSame DEF ResolveCall, pinVars
<1>3. ASSUME NEW t \in Callers, NEW h \in issued, DestroyRetire(t, h) PROVE CountInv'
  BY <1>0, <1>3, <1>a, HoldersSame DEF DestroyRetire
<1>4. ASSUME NEW t \in Callers, NEW s \in Slot, AcquireSlot(t, s) PROVE CountInv'
  BY <1>0, <1>4, <1>a, HoldersSame DEF AcquireSlot
<1>5. ASSUME NEW t \in Callers, NEW s \in Slot, AcquireFails(t, s) PROVE CountInv'
  BY <1>0, <1>5, <1>a, HoldersSame DEF AcquireFails, pinVars
<1>6. ASSUME NEW t \in Callers, AcquireRefused(t) \/ Abandon(t) \/ PublishState(t) PROVE CountInv'
  BY <1>0, <1>6, <1>a, HoldersSame DEF AcquireRefused, Abandon, PublishState, pinVars
<1>7. ASSUME NEW t \in Callers, PinLookup(t) \/ PinRecheck(t) \/ PinLoad(t) PROVE CountInv'
  BY <1>0, <1>7, <1>a, HoldersSame DEF PinLookup, PinRecheck, PinLoad, pinVars
<1>8. ASSUME NEW t \in Callers, ScanStripe(t) \/ ScanAgain(t) \/ ScanDone(t) PROVE CountInv'
  BY <1>0, <1>8, <1>a, HoldersSame DEF ScanStripe, ScanAgain, ScanDone, pinVars
<1>9. ASSUME NEW t \in Callers, FreeObject(t) \/ ReleaseSlot(t) PROVE CountInv'
  BY <1>0, <1>9, <1>a, HoldersSame DEF FreeObject, ReleaseSlot, pinVars
<1>10. ASSUME NEW t \in Callers, PinAdd(t) PROVE CountInv'
  <2> DEFINE S == Idx(hnd[t])
             K == StripeOf[t]
  <2>1. S \in Slot /\ K \in Stripe
    BY <1>a, HandleParts
  <2>2. SUFFICES ASSUME NEW s \in Slot, NEW k \in Stripe PROVE count'[<<s, k>>] = Cardinality(Holders(s, k)')
    BY DEF CountInv
  <2>3. CASE s = S /\ k = K
    <3>1. Holders(s, k)' = Holders(s, k) \cup {t} /\ t \notin Holders(s, k)
      BY <1>10, <1>a, <2>3 DEF PinAdd, Holders
    <3>2. Cardinality(Holders(s, k)') = Cardinality(Holders(s, k)) + 1
      BY <3>1, HoldersFinite, FS_AddElement
    <3>3. count'[<<s, k>>] = count[<<s, k>>] + 1
      BY <1>10, <1>a, <2>1, <2>3 DEF PinAdd
    <3> QED
      BY <1>0, <3>2, <3>3 DEF CountInv
  <2>4. CASE ~(s = S /\ k = K)
    <3>1. Holders(s, k)' = Holders(s, k)
      BY <1>10, <1>a, <2>4 DEF PinAdd, Holders
    <3>2. count'[<<s, k>>] = count[<<s, k>>]
      BY <1>10, <1>a, <2>1, <2>4 DEF PinAdd
    <3> QED
      BY <1>0, <3>1, <3>2 DEF CountInv
  <2> QED
    BY <2>3, <2>4
<1>11. ASSUME NEW t \in Callers, PinBackout(t) \/ Unpin(t) PROVE CountInv'
  <2> DEFINE S == Idx(hnd[t])
             K == StripeOf[t]
  <2>1. S \in Slot /\ K \in Stripe
    BY <1>a, HandleParts
  <2>2. ctl[t] = "use" => Idx(self[ptr[t]]) = S
    BY SelfSlot
  <2>3. count' = [count EXCEPT ![<<S, K>>] = @ - 1]
    BY <1>11, <2>2 DEF PinBackout, Unpin
  <2>4. ctl[t] \in Counted /\ ctl' = [ctl EXCEPT ![t] = "idle"] /\ hnd' = hnd
    BY <1>11 DEF PinBackout, Unpin
  <2>5. SUFFICES ASSUME NEW s \in Slot, NEW k \in Stripe PROVE count'[<<s, k>>] = Cardinality(Holders(s, k)')
    BY DEF CountInv
  <2>6. CASE s = S /\ k = K
    <3>1. Holders(s, k)' = Holders(s, k) \ {t} /\ t \in Holders(s, k)
      BY <1>a, <2>4, <2>6 DEF Holders
    <3>2. Cardinality(Holders(s, k)') = Cardinality(Holders(s, k)) - 1
      BY <3>1, HoldersFinite, FS_RemoveElement
    <3>3. count'[<<s, k>>] = count[<<s, k>>] - 1
      BY <1>a, <2>1, <2>3, <2>6
    <3> QED
      BY <1>0, <3>2, <3>3 DEF CountInv
  <2>7. CASE ~(s = S /\ k = K)
    <3>1. Holders(s, k)' = Holders(s, k)
      BY <1>a, <2>4, <2>7 DEF Holders
    <3>2. count'[<<s, k>>] = count[<<s, k>>]
      BY <1>a, <2>1, <2>3, <2>7
    <3> QED
      BY <1>0, <3>1, <3>2 DEF CountInv
  <2> QED
    BY <2>6, <2>7
<1>12. CASE ExitCleanup \/ UNCHANGED handleVars
  <2>1. ctl' = ctl /\ hnd' = hnd /\ count' = count
    BY <1>12 DEF ExitCleanup, handleVars, pinVars
  <2>2. \A s, k : Holders(s, k)' = Holders(s, k)
    BY <2>1 DEF Holders
  <2> QED
    BY <1>0, <2>1, <2>2 DEF CountInv
<1> QED
  BY <1>1, <1>2, <1>3, <1>4, <1>5, <1>6, <1>7, <1>8, <1>9, <1>10, <1>11, <1>12
  DEF HandleNext, Progress

-----------------------------------------------------------------------------

\* Popping the free list drops its last index and nothing else.
LEMMA PopFacts ==
  ASSUME HandleTypeOK, FreeInv, freeIdx # <<>>
  PROVE  LET front == SubSeq(freeIdx, 1, Len(freeIdx) - 1) IN
         /\ front \in Seq(Slot)
         /\ DOMAIN front \subseteq DOMAIN freeIdx
         /\ \A i \in DOMAIN front : front[i] = freeIdx[i] /\ front[i] # freeIdx[Len(freeIdx)]
         /\ Len(freeIdx) \in DOMAIN freeIdx
<1> DEFINE front == SubSeq(freeIdx, 1, Len(freeIdx) - 1)
<1>1. freeIdx \in Seq(Slot)
  BY DEF HandleTypeOK
<1>2. Len(freeIdx) \in Nat \ {0} /\ DOMAIN freeIdx = 1 .. Len(freeIdx)
  BY <1>1, LenProperties, EmptySeq
<1>3. \A i \in 1 .. Len(freeIdx) - 1 : freeIdx[i] \in Slot
  BY <1>1, <1>2
<1>4. /\ front \in Seq(Slot)
      /\ Len(front) = Len(freeIdx) - 1
      /\ \A i \in 1 .. Len(freeIdx) - 1 : front[i] = freeIdx[i]
  BY <1>2, <1>3, SubSeqProperties
<1>5. DOMAIN front = 1 .. Len(freeIdx) - 1
  BY <1>4, LenProperties
<1> HIDE DEF front
<1>6. \A i \in DOMAIN front : front[i] # freeIdx[Len(freeIdx)]
  BY <1>2, <1>4, <1>5 DEF FreeInv
<1> QED
  BY <1>2, <1>4, <1>5, <1>6 DEF front

\* The index an acquire takes is free, and no longer listed.
LEMMA TakeFacts ==
  ASSUME HandleTypeOK, SlotInv, FreeInv, NEW s \in Slot, TakeIndex(s)
  PROVE  /\ slotPtr[s] = NoObj /\ ~slotInUse[s]
         /\ s < nslots' /\ nslots <= nslots'
         /\ DOMAIN freeIdx' \subseteq DOMAIN freeIdx
         /\ \A i \in DOMAIN freeIdx' : freeIdx'[i] = freeIdx[i] /\ freeIdx'[i] # s
<1>1. nslots \in Nat /\ \A r \in Slot : r \in Nat
  BY DEF HandleTypeOK, Slot
<1>2. CASE freeIdx # <<>> /\ s = freeIdx[Len(freeIdx)]
           /\ freeIdx' = SubSeq(freeIdx, 1, Len(freeIdx) - 1) /\ UNCHANGED <<lost, nslots>>
  <2>1. Len(freeIdx) \in DOMAIN freeIdx
    BY <1>2, PopFacts
  <2> QED
    BY <1>1, <1>2, <2>1, PopFacts DEF FreeInv
<1>3. CASE freeIdx = <<>> /\ LostSlot(s) /\ UNCHANGED <<freeIdx, nslots>>
  BY <1>1, <1>3 DEF LostSlot, Reclaimable
<1>4. CASE freeIdx = <<>> /\ s = nslots /\ nslots' = nslots + 1 /\ UNCHANGED freeIdx
  BY <1>1, <1>4 DEF SlotInv
<1> QED
  BY <1>2, <1>3, <1>4 DEF TakeIndex

\* An index pushed on a list of other indices is the only new one.
LEMMA PushFacts ==
  ASSUME NEW free \in Seq(Slot), NEW s \in Slot
  PROVE  \A i \in DOMAIN Append(free, s) :
           \/ i \in DOMAIN free /\ Append(free, s)[i] = free[i]
           \/ i = Len(free) + 1 /\ Append(free, s)[i] = s
<1>1. /\ Append(free, s) \in Seq(Slot)
      /\ Len(Append(free, s)) = Len(free) + 1
      /\ \A i \in 1 .. Len(free) : Append(free, s)[i] = free[i]
      /\ Append(free, s)[Len(free) + 1] = s
  BY AppendProperties
<1>2. DOMAIN Append(free, s) = 1 .. Len(free) + 1 /\ DOMAIN free = 1 .. Len(free) /\ Len(free) \in Nat
  BY <1>1, LenProperties
<1> QED
  BY <1>1, <1>2

\* A failed acquire leaves the slots and the list as good as they were.
LEMMA FailFacts ==
  ASSUME HandleTypeOK, SlotInv, FreeInv, NEW t \in Callers, NEW s \in Slot, AcquireFails(t, s)
  PROVE  /\ slotPtr[s] = NoObj /\ ~slotInUse[s]
         /\ s < nslots' /\ nslots <= nslots'
         /\ \A i \in DOMAIN freeIdx' :
              \/ freeIdx'[i] = s
              \/ i \in DOMAIN freeIdx /\ freeIdx'[i] = freeIdx[i]
         /\ \A i, j \in DOMAIN freeIdx' : freeIdx'[i] = freeIdx'[j] => i = j
<1>1. nslots \in Nat /\ \A r \in Slot : r \in Nat
  BY DEF HandleTypeOK, Slot
<1>2. CASE /\ freeIdx # <<>> /\ s = freeIdx[Len(freeIdx)]
           /\ GiveBack(s, SubSeq(freeIdx, 1, Len(freeIdx) - 1))
           /\ UNCHANGED nslots
  <2> DEFINE front == SubSeq(freeIdx, 1, Len(freeIdx) - 1)
  <2>1. /\ front \in Seq(Slot)
        /\ DOMAIN front \subseteq DOMAIN freeIdx
        /\ \A i \in DOMAIN front : front[i] = freeIdx[i] /\ front[i] # s
        /\ Len(freeIdx) \in DOMAIN freeIdx
    BY <1>2, PopFacts
  <2>2. freeIdx' \in {Append(front, s), front}
    BY <1>2 DEF GiveBack
  <2> HIDE DEF front
  <2>3. CASE freeIdx' = front
    BY <1>1, <1>2, <2>1, <2>3 DEF FreeInv
  <2>4. CASE freeIdx' = Append(front, s)
    BY <1>1, <1>2, <2>1, <2>4, PushFacts DEF FreeInv
  <2> QED
    BY <2>2, <2>3, <2>4
<1>3. CASE /\ freeIdx = <<>> /\ LostSlot(s)
           /\ freeIdx' = <<s>> \/ UNCHANGED freeIdx
           /\ UNCHANGED nslots
  BY <1>1, <1>3 DEF LostSlot, Reclaimable
<1>4. CASE /\ freeIdx = <<>> /\ s = nslots /\ nslots' = nslots + 1
           /\ freeIdx' = <<s>> \/ UNCHANGED freeIdx
  BY <1>1, <1>4 DEF SlotInv
<1> QED
  BY <1>2, <1>3, <1>4 DEF AcquireFails

\* What each slot says of its object survives every step.
LEMMA SlotStep == HandleIInv /\ [HandleNext]_handleVars => SlotInv'
<1> SUFFICES ASSUME HandleIInv, [HandleNext]_handleVars PROVE SlotInv'
  OBVIOUS
<1>0. HandleTypeOK /\ SlotInv /\ FreeInv /\ CreatorInv /\ DestroyerInv
  BY DEF HandleIInv
<1>a. /\ slotPtr \in [Slot -> Objs \cup {NoObj}] /\ slotInUse \in [Slot -> BOOLEAN]
      /\ nslots \in Nat /\ state \in [Slot -> [gen : Gen, live : BOOLEAN]]
      /\ pinPtr \in [Slot -> Objs \cup {NoObj}]
      /\ obj \in [Objs -> {"unborn", "live", "freed"}]
      /\ self \in [Objs -> Handle \cup {NoObj}]
      /\ ctl \in [Callers -> Pc] /\ hnd \in [Callers -> Handle]
      /\ ptr \in [Callers -> Objs \cup {NoObj}]
      /\ \A r \in Slot : r \in Nat
  BY <1>0 DEF HandleTypeOK, Slot
<1>b. \A u \in Callers : Idx(hnd[u]) \in Slot /\ GenOf(hnd[u]) \in Gen
  BY <1>a, HandleParts
<1> USE DEF GoesTo
<1>1. ASSUME NEW t \in Callers, NEW o \in Objs, Create(t, o) PROVE SlotInv'
  BY <1>0, <1>a, <1>1 DEF Create, SlotInv, tableVars, pinVars
<1>2. ASSUME NEW t \in Callers, NEW h \in issued, DestroyRetire(t, h) PROVE SlotInv'
  <2>1. Idx(h) \in Slot
    BY <1>0, HandleParts DEF HandleTypeOK
  <2> QED
    BY <1>0, <1>a, <1>2, <2>1 DEF DestroyRetire, SlotInv, objVars
<1>3. ASSUME NEW t \in Callers, NEW s \in Slot, AcquireSlot(t, s) PROVE SlotInv'
  <2>1. /\ slotPtr[s] = NoObj /\ ~slotInUse[s] /\ nslots <= nslots' /\ nslots' \in Nat
        /\ ptr[t] \in Objs /\ \A r \in Slot : slotPtr[r] # ptr[t]
    BY <1>0, <1>3, TakeFacts, TypeStep DEF AcquireSlot, CreatorInv, Creating, HandleTypeOK
  <2>2. \A r \in Slot : slotPtr[r] # NoObj => self'[slotPtr[r]] = self[slotPtr[r]]
    BY <1>3, <1>a, <2>1 DEF AcquireSlot
  <2>3. \A r \in Slot : slotInUse[r] => pinPtr'[r] = pinPtr[r]
    BY <1>3, <1>a, <2>1 DEF AcquireSlot
  <2> QED
    BY <1>0, <1>a, <1>3, <2>1, <2>2, <2>3 DEF AcquireSlot, SlotInv
<1>4. ASSUME NEW t \in Callers, PublishState(t) PROVE SlotInv'
  <2>1. LET s == Idx(hnd[t]) IN /\ ptr[t] \in Objs /\ obj[ptr[t]] = "live"
                                /\ s < nslots /\ pinPtr[s] = ptr[t] /\ self[ptr[t]] = hnd[t]
    BY <1>0, <1>4 DEF PublishState, CreatorInv, Creating
  <2>2. hnd[t] # NoObj
    BY <1>a
  <2> QED
    BY <1>0, <1>a, <1>b, <1>4, <2>1, <2>2 DEF PublishState, SlotInv, objVars
<1>5. ASSUME NEW t \in Callers, NEW s \in Slot, AcquireFails(t, s) PROVE SlotInv'
  <2>1. slotPtr[s] = NoObj /\ ~slotInUse[s] /\ nslots <= nslots'
    BY <1>0, <1>5, FailFacts
  <2>2. nslots' \in Nat
    BY TypeStep DEF HandleTypeOK
  <2> QED
    BY <1>0, <1>a, <1>5, <2>1, <2>2 DEF AcquireFails, SlotInv, pinVars, objVars
<1>6. ASSUME NEW t \in Callers, Abandon(t) PROVE SlotInv'
  <2>1. ptr[t] \in Objs /\ \A r \in Slot : slotPtr[r] # ptr[t]
    BY <1>0, <1>6 DEF Abandon, CreatorInv, Creating
  <2> QED
    BY <1>0, <1>a, <1>6, <2>1 DEF Abandon, SlotInv, tableVars, pinVars
<1>7. ASSUME NEW t \in Callers, FreeObject(t) PROVE SlotInv'
  <2>1. /\ ptr[t] \in Objs /\ ~slotInUse[Idx(hnd[t])] /\ slotPtr[Idx(hnd[t])] = ptr[t]
    BY <1>0, <1>7 DEF FreeObject, DestroyerInv, Destroying
  <2>2. \A r \in Slot : slotInUse[r] => slotPtr[r] # ptr[t]
    BY <1>0, <1>b, <2>1 DEF SlotInv
  <2> QED
    BY <1>0, <1>a, <1>7, <2>1, <2>2 DEF FreeObject, SlotInv, tableVars, pinVars
<1>8. ASSUME NEW t \in Callers, ReleaseSlot(t) PROVE SlotInv'
  <2>1. ~slotInUse[Idx(hnd[t])]
    BY <1>0, <1>8 DEF ReleaseSlot, DestroyerInv, Destroying
  <2> QED
    BY <1>0, <1>a, <1>b, <1>8, <2>1 DEF ReleaseSlot, SlotInv, pinVars, objVars
<1>9. CASE UNCHANGED <<slotPtr, slotInUse, nslots, state, pinPtr, obj, self>>
  BY <1>0, <1>9 DEF SlotInv
<1> QED
  <2>1. ASSUME NEW t \in Callers,
               \/ \E h \in issued : ResolveCall(t, h)
               \/ AcquireRefused(t) \/ PinLookup(t) \/ PinAdd(t) \/ PinRecheck(t) \/ PinLoad(t)
               \/ PinBackout(t) \/ Unpin(t) \/ ScanStripe(t) \/ ScanAgain(t) \/ ScanDone(t)
        PROVE  UNCHANGED <<slotPtr, slotInUse, nslots, state, pinPtr, obj, self>>
    BY <2>1 DEF ResolveCall, AcquireRefused, PinLookup, PinAdd, PinRecheck, PinLoad, PinBackout,
                Unpin, ScanStripe, ScanAgain, ScanDone, tableVars, pinVars, objVars
  <2>2. CASE ExitCleanup \/ UNCHANGED handleVars
    BY <2>2, <1>9 DEF ExitCleanup, handleVars, tableVars, pinVars, objVars
  <2> QED
    BY <1>1, <1>2, <1>3, <1>4, <1>5, <1>6, <1>7, <1>8, <1>9, <2>1, <2>2 DEF HandleNext, Progress

\* The free list keeps listing free indices, each once.
LEMMA FreeListStep == HandleIInv /\ [HandleNext]_handleVars => FreeInv'
<1> SUFFICES ASSUME HandleIInv, [HandleNext]_handleVars PROVE FreeInv'
  OBVIOUS
<1>0. HandleTypeOK /\ SlotInv /\ FreeInv /\ CreatorInv /\ DestroyerInv
  BY DEF HandleIInv
<1>a. /\ slotPtr \in [Slot -> Objs \cup {NoObj}] /\ slotInUse \in [Slot -> BOOLEAN]
      /\ nslots \in Nat /\ freeIdx \in Seq(Slot)
      /\ hnd \in [Callers -> Handle]
      /\ ptr \in [Callers -> Objs \cup {NoObj}]
      /\ \A r \in Slot : r \in Nat
  BY <1>0 DEF HandleTypeOK, Slot
<1>b. \A u \in Callers : Idx(hnd[u]) \in Slot
  BY <1>a, HandleParts
<1>c. nslots' \in Nat /\ freeIdx' \in Seq(Slot)
  BY TypeStep DEF HandleTypeOK
<1>d. (\A i \in DOMAIN freeIdx : freeIdx[i] \in Slot) /\ (\A i \in DOMAIN freeIdx' : freeIdx'[i] \in Slot)
  BY <1>a, <1>c
<1> USE DEF GoesTo
<1>1. ASSUME NEW t \in Callers, NEW h \in issued, DestroyRetire(t, h) PROVE FreeInv'
  <2>1. Idx(h) \in Slot /\ slotInUse[Idx(h)]
    BY <1>0, <1>1, HandleParts DEF HandleTypeOK, DestroyRetire
  <2> QED
    BY <1>0, <1>a, <1>d, <1>1, <2>1 DEF DestroyRetire, FreeInv
<1>2. ASSUME NEW t \in Callers, NEW s \in Slot, AcquireSlot(t, s) PROVE FreeInv'
  <2>1. TakeIndex(s) /\ UNCHANGED <<slotPtr, slotInUse>>
    BY <1>2 DEF AcquireSlot
  <2>2. /\ nslots <= nslots'
        /\ DOMAIN freeIdx' \subseteq DOMAIN freeIdx
        /\ \A i \in DOMAIN freeIdx' : freeIdx'[i] = freeIdx[i]
    BY <1>0, <2>1, TakeFacts
  <2> QED
    BY <1>0, <1>a, <1>c, <1>d, <2>1, <2>2 DEF FreeInv
<1>3. ASSUME NEW t \in Callers, PublishState(t) PROVE FreeInv'
  <2>1. \A i \in DOMAIN freeIdx : freeIdx[i] # Idx(hnd[t])
    BY <1>0, <1>3 DEF PublishState, CreatorInv, Creating
  <2> QED
    BY <1>0, <1>a, <1>b, <1>d, <1>3, <2>1 DEF PublishState, FreeInv
<1>4. ASSUME NEW t \in Callers, NEW s \in Slot, AcquireFails(t, s) PROVE FreeInv'
  <2>1. slotPtr' = [slotPtr EXCEPT ![s] = NoObj] /\ slotInUse' = slotInUse
    BY <1>4 DEF AcquireFails
  <2> QED
    BY <1>0, <1>a, <1>c, <1>d, <1>4, <2>1, FailFacts DEF FreeInv
<1>5. ASSUME NEW t \in Callers, ReleaseSlot(t) PROVE FreeInv'
  <2> DEFINE s == Idx(hnd[t])
  <2>1. ~slotInUse[s] /\ slotPtr[s] = ptr[t] /\ ptr[t] \in Objs
    BY <1>0, <1>5 DEF ReleaseSlot, DestroyerInv, Destroying
  <2>2. s < nslots /\ s \in Slot
    BY <1>0, <1>b, <2>1 DEF SlotInv
  <2>3. \A i \in DOMAIN freeIdx : freeIdx[i] # s
    BY <1>0, <2>1 DEF FreeInv
  <2>4. /\ slotPtr' = [slotPtr EXCEPT ![s] = NoObj] /\ UNCHANGED <<slotInUse, nslots>>
        /\ freeIdx' \in {Append(freeIdx, s), freeIdx}
    BY <1>5 DEF ReleaseSlot, GiveBack
  <2>5. CASE freeIdx' = freeIdx
    BY <1>0, <1>a, <1>d, <2>4, <2>5 DEF FreeInv
  <2>6. CASE freeIdx' = Append(freeIdx, s)
    <3> HIDE DEF s
    <3>1. \A i \in DOMAIN freeIdx' : \/ i \in DOMAIN freeIdx /\ freeIdx'[i] = freeIdx[i]
                                     \/ i = Len(freeIdx) + 1 /\ freeIdx'[i] = s
      BY <1>a, <2>2, <2>6, PushFacts
    <3> QED
      BY <1>0, <1>a, <1>d, <2>1, <2>2, <2>3, <2>4, <3>1 DEF FreeInv
  <2> QED
    BY <2>4, <2>5, <2>6
<1>6. CASE UNCHANGED <<slotPtr, slotInUse, nslots, freeIdx>>
  BY <1>0, <1>6 DEF FreeInv
<1> QED
  <2>1. ASSUME NEW t \in Callers,
               \/ \E o \in Objs : Create(t, o)
               \/ \E h \in issued : ResolveCall(t, h)
               \/ AcquireRefused(t) \/ Abandon(t) \/ PinLookup(t) \/ PinAdd(t) \/ PinRecheck(t)
               \/ PinLoad(t) \/ PinBackout(t) \/ Unpin(t)
               \/ ScanStripe(t) \/ ScanAgain(t) \/ ScanDone(t) \/ FreeObject(t)
        PROVE  UNCHANGED <<slotPtr, slotInUse, nslots, freeIdx>>
    BY <2>1 DEF Create, ResolveCall, AcquireRefused, Abandon, PinLookup, PinAdd, PinRecheck, PinLoad,
                PinBackout, Unpin, ScanStripe, ScanAgain, ScanDone, FreeObject, tableVars
  <2>2. CASE ExitCleanup \/ UNCHANGED handleVars
    BY <2>2, <1>6 DEF ExitCleanup, handleVars, tableVars
  <2> QED
    BY <1>1, <1>2, <1>3, <1>4, <1>5, <1>6, <2>1, <2>2 DEF HandleNext, Progress

-----------------------------------------------------------------------------

\* A step of a thread that creates nothing before or after it, and touches no
\* slot, leaves the creators alone.
LEMMA CreatorFrame ==
  ASSUME NEW t \in Callers, CreatorInv,
         \A u \in Callers \ {t} : ctl'[u] = ctl[u] /\ hnd'[u] = hnd[u] /\ ptr'[u] = ptr[u],
         ~ Creating(t)',
         UNCHANGED <<slotPtr, slotInUse, nslots, pinPtr, self, freeIdx, wlock, obj>>
  PROVE  CreatorInv'
BY DEF CreatorInv, Creating

\* Creators stay alone with their objects.
LEMMA CreatorStep == HandleIInv /\ [HandleNext]_handleVars => CreatorInv'
<1> SUFFICES ASSUME HandleIInv, [HandleNext]_handleVars PROVE CreatorInv'
  OBVIOUS
<1>0. HandleTypeOK /\ SlotInv /\ FreeInv /\ CreatorInv /\ DestroyerInv
  BY DEF HandleIInv
<1>a. /\ slotPtr \in [Slot -> Objs \cup {NoObj}] /\ slotInUse \in [Slot -> BOOLEAN]
      /\ nslots \in Nat /\ pinPtr \in [Slot -> Objs \cup {NoObj}]
      /\ obj \in [Objs -> {"unborn", "live", "freed"}]
      /\ self \in [Objs -> Handle \cup {NoObj}]
      /\ ctl \in [Callers -> Pc] /\ hnd \in [Callers -> Handle]
      /\ ptr \in [Callers -> Objs \cup {NoObj}]
      /\ \A r \in Slot : r \in Nat
  BY <1>0 DEF HandleTypeOK, Slot
<1>b. \A u \in Callers : Idx(hnd[u]) \in Slot
  BY <1>a, HandleParts
<1>c. wlock = NoObj => \A u \in Callers : ctl[u] # "store"
  BY <1>0 DEF CreatorInv, Creating
<1> USE DEF GoesTo
<1>1. ASSUME NEW t \in Callers, NEW o \in Objs, Create(t, o) PROVE CreatorInv'
  <2>1. (\A s \in Slot : slotPtr[s] # o) /\ (\A u \in Callers : Creating(u) => ptr[u] # o)
    BY <1>0, <1>1 DEF Create, SlotInv, CreatorInv
  <2> QED
    BY <1>0, <1>a, <1>1, <2>1 DEF Create, CreatorInv, Creating, tableVars, pinVars
<1>2. ASSUME NEW t \in Callers, NEW s \in Slot, AcquireSlot(t, s) PROVE CreatorInv'
  <2>1. /\ slotPtr[s] = NoObj /\ ~slotInUse[s] /\ s < nslots'
        /\ \A i \in DOMAIN freeIdx' : freeIdx'[i] # s
    BY <1>0, <1>2, TakeFacts DEF AcquireSlot
  <2>2. Creating(t) /\ \A u \in Callers : ctl[u] # "store"
    BY <1>2, <1>c DEF AcquireSlot, Creating
  <2>3. /\ hnd' = [hnd EXCEPT ![t] = <<s, NextGen(slotGen[s])>>]
        /\ self' = [self EXCEPT ![ptr[t]] = <<s, NextGen(slotGen[s])>>]
        /\ pinPtr' = [pinPtr EXCEPT ![s] = ptr[t]]
        /\ ctl' = [ctl EXCEPT ![t] = "store"]
        /\ wlock' = t
        /\ UNCHANGED <<slotPtr, slotInUse, obj, ptr>>
    BY <1>2 DEF AcquireSlot
  <2>4. Idx(hnd'[t]) = s /\ self'[ptr[t]] = hnd'[t] /\ pinPtr'[s] = ptr[t] /\ ptr[t] \in Objs
    BY <1>0, <1>a, <2>2, <2>3 DEF CreatorInv, Idx
  <2>5. ASSUME NEW u \in Callers, Creating(u)'
        PROVE  Creating(u) /\ (ctl'[u] = "store" => u = t)
    BY <1>a, <2>2, <2>3, <2>5 DEF Creating
  <2> QED
    BY <1>0, <2>1, <2>3, <2>4, <2>5 DEF CreatorInv
<1>3. ASSUME NEW t \in Callers, PublishState(t) PROVE CreatorInv'
  <2>1. Creating(t) /\ wlock = t /\ ptr[t] \in Objs
    BY <1>0, <1>3 DEF PublishState, Creating, CreatorInv
  <2>2. \A u \in Callers : ctl[u] = "store" => u = t
    BY <1>0, <2>1 DEF CreatorInv, Creating
  <2>3. /\ slotPtr' = [slotPtr EXCEPT ![Idx(hnd[t])] = ptr[t]]
        /\ ctl' = [ctl EXCEPT ![t] = "idle"]
        /\ UNCHANGED <<obj, ptr>>
    BY <1>3 DEF PublishState, objVars
  <2>4. ASSUME NEW u \in Callers, Creating(u)'
        PROVE  u # t /\ Creating(u) /\ ctl'[u] # "store"
    BY <1>a, <2>2, <2>3, <2>4 DEF Creating
  <2> QED
    BY <1>0, <1>a, <1>b, <2>1, <2>3, <2>4 DEF CreatorInv
<1>4. ASSUME NEW t \in Callers, NEW s \in Slot, AcquireFails(t, s) PROVE CreatorInv'
  <2>1. slotPtr[s] = NoObj
    BY <1>0, <1>4, FailFacts
  <2>2. /\ slotPtr' = [slotPtr EXCEPT ![s] = NoObj]
        /\ ctl[t] = "acquire" /\ ctl' = [ctl EXCEPT ![t] = "abandon"]
        /\ wlock = NoObj
        /\ UNCHANGED <<obj, ptr>>
    BY <1>4 DEF AcquireFails, objVars
  <2>3. ASSUME NEW u \in Callers, Creating(u)'
        PROVE  Creating(u) /\ ctl'[u] # "store"
    BY <1>a, <1>c, <2>2, <2>3 DEF Creating
  <2> QED
    BY <1>0, <1>a, <2>1, <2>2, <2>3 DEF CreatorInv
<1>5. ASSUME NEW t \in Callers, AcquireRefused(t) PROVE CreatorInv'
  <2>1. /\ ctl[t] = "acquire" /\ ctl' = [ctl EXCEPT ![t] = "abandon"]
        /\ wlock = NoObj
        /\ UNCHANGED <<slotPtr, obj, ptr>>
    BY <1>5 DEF AcquireRefused, objVars
  <2>2. ASSUME NEW u \in Callers, Creating(u)'
        PROVE  Creating(u) /\ ctl'[u] # "store"
    BY <1>a, <1>c, <2>1, <2>2 DEF Creating
  <2> QED
    BY <1>0, <1>a, <2>1, <2>2 DEF CreatorInv
<1>6. ASSUME NEW t \in Callers, Abandon(t) \/ FreeObject(t) PROVE CreatorInv'
  <2>1. /\ ctl' = [ctl EXCEPT ![t] = "idle"] \/ ctl' = [ctl EXCEPT ![t] = "release"]
        /\ obj' = [obj EXCEPT ![ptr[t]] = "freed"]
        /\ UNCHANGED <<slotPtr, slotInUse, nslots, pinPtr, self, freeIdx, wlock, hnd, ptr>>
    BY <1>6 DEF Abandon, FreeObject, tableVars, pinVars
  <2>2. ASSUME NEW u \in Callers, Creating(u), u # t PROVE ptr[u] # ptr[t]
    <3>1. CASE Abandon(t)
      BY <1>0, <2>2, <3>1 DEF Abandon, CreatorInv, Creating
    <3>2. CASE FreeObject(t)
      BY <1>0, <1>b, <2>2, <3>2 DEF FreeObject, CreatorInv, DestroyerInv, Destroying
    <3> QED
      BY <1>6, <3>1, <3>2
  <2>3. ASSUME NEW u \in Callers, Creating(u)' PROVE u # t /\ Creating(u) /\ ctl'[u] = ctl[u]
    BY <1>a, <2>1, <2>3 DEF Creating
  <2> QED
    BY <1>0, <1>a, <2>1, <2>2, <2>3 DEF CreatorInv
<1>7. ASSUME NEW t \in Callers, ReleaseSlot(t) \/ \E h \in issued : DestroyRetire(t, h)
      PROVE  CreatorInv'
  <2>1. /\ ctl' = [ctl EXCEPT ![t] = "idle"] \/ ctl' = [ctl EXCEPT ![t] = "scan"]
        /\ wlock = NoObj /\ obj' = obj
        /\ \A u \in Callers \ {t} : ptr'[u] = ptr[u]
        /\ \A s \in Slot : slotPtr'[s] \in {slotPtr[s], NoObj}
    BY <1>7, <1>a DEF ReleaseSlot, DestroyRetire, objVars
  <2>2. ASSUME NEW u \in Callers, Creating(u)' PROVE u # t /\ Creating(u) /\ ctl'[u] # "store"
    BY <1>a, <1>c, <2>1, <2>2 DEF Creating
  <2> QED
    BY <1>0, <2>1, <2>2 DEF CreatorInv
<1>8. ASSUME NEW t \in Callers,
             \/ \E h \in issued : ResolveCall(t, h)
             \/ PinLookup(t) \/ PinAdd(t) \/ PinRecheck(t) \/ PinLoad(t) \/ PinBackout(t) \/ Unpin(t)
             \/ ScanStripe(t) \/ ScanAgain(t) \/ ScanDone(t)
      PROVE  CreatorInv'
  <2>1. UNCHANGED <<slotPtr, slotInUse, nslots, pinPtr, self, freeIdx, wlock, obj>>
    BY <1>8 DEF ResolveCall, PinLookup, PinAdd, PinRecheck, PinLoad, PinBackout, Unpin,
                ScanStripe, ScanAgain, ScanDone, tableVars, pinVars, objVars
  <2>2. \A u \in Callers \ {t} : ctl'[u] = ctl[u] /\ hnd'[u] = hnd[u] /\ ptr'[u] = ptr[u]
    BY <1>8, <1>a DEF ResolveCall, PinLookup, PinAdd, PinRecheck, PinLoad, PinBackout, Unpin,
                      ScanStripe, ScanAgain, ScanDone
  <2>3. ~ Creating(t)'
    BY <1>8, <1>a DEF ResolveCall, PinLookup, PinAdd, PinRecheck, PinLoad, PinBackout, Unpin,
                      ScanStripe, ScanAgain, ScanDone, Creating
  <2> QED
    BY <1>0, <2>1, <2>2, <2>3, CreatorFrame
<1>9. CASE ExitCleanup \/ UNCHANGED handleVars
  <2>1. UNCHANGED <<slotPtr, slotInUse, nslots, pinPtr, self, freeIdx, wlock, obj, ctl, hnd, ptr>>
    BY <1>9 DEF ExitCleanup, handleVars, tableVars, pinVars, objVars, threadVars
  <2> QED
    BY <1>0, <2>1 DEF CreatorInv, Creating
<1> QED
  BY <1>1, <1>2, <1>3, <1>4, <1>5, <1>6, <1>7, <1>8, <1>9 DEF HandleNext, Progress

-----------------------------------------------------------------------------

\* Destroyers stay alone with their slots.
LEMMA DestroyerStep == HandleIInv /\ [HandleNext]_handleVars => DestroyerInv'
<1> SUFFICES ASSUME HandleIInv, [HandleNext]_handleVars PROVE DestroyerInv'
  OBVIOUS
<1>0. HandleTypeOK /\ CountInv /\ SlotInv /\ FreeInv /\ CreatorInv /\ DestroyerInv
  BY DEF HandleIInv
<1>a. /\ slotPtr \in [Slot -> Objs \cup {NoObj}] /\ slotInUse \in [Slot -> BOOLEAN]
      /\ pinPtr \in [Slot -> Objs \cup {NoObj}]
      /\ obj \in [Objs -> {"unborn", "live", "freed"}]
      /\ ctl \in [Callers -> Pc] /\ hnd \in [Callers -> Handle]
      /\ ptr \in [Callers -> Objs \cup {NoObj}]
      /\ stripeAt \in [Callers -> 0 .. NStripes] /\ acc \in [Callers -> Int]
  BY <1>0 DEF HandleTypeOK, Slot
<1>b. \A u \in Callers : Idx(hnd[u]) \in Slot
  BY <1>a, HandleParts
<1> USE DEF GoesTo
<1>1. ASSUME NEW t \in Callers, NEW h \in issued, DestroyRetire(t, h) PROVE DestroyerInv'
  <2> DEFINE s == Idx(h)
  <2>1. s \in Slot
    BY <1>0, HandleParts DEF HandleTypeOK
  <2>2. /\ slotInUse[s] /\ slotInUse' = [slotInUse EXCEPT ![s] = FALSE]
        /\ ctl' = [ctl EXCEPT ![t] = "scan"] /\ hnd' = [hnd EXCEPT ![t] = h]
        /\ ptr' = [ptr EXCEPT ![t] = slotPtr[s]] /\ acc' = [acc EXCEPT ![t] = 0]
        /\ ctl[t] = "idle"
        /\ UNCHANGED <<slotPtr, pinPtr, obj>>
    BY <1>1 DEF DestroyRetire, objVars
  <2>3. slotPtr[s] \in Objs /\ pinPtr[s] = slotPtr[s] /\ obj[slotPtr[s]] = "live"
    BY <1>0, <1>a, <2>1, <2>2 DEF SlotInv
  <2>4. \A d \in Callers : Destroying(d) => d # t /\ Idx(hnd[d]) # s
    BY <1>0, <2>2 DEF DestroyerInv, Destroying
  <2> HIDE DEF s
  <2>5. ASSUME NEW d \in Callers, Destroying(d)' PROVE d = t \/ Destroying(d)
    BY <1>a, <2>2, <2>5 DEF Destroying
  <2> QED
    BY <1>0, <1>a, <1>b, <2>1, <2>2, <2>3, <2>4, <2>5 DEF DestroyerInv, s
<1>2. ASSUME NEW t \in Callers, NEW s \in Slot, AcquireSlot(t, s) PROVE DestroyerInv'
  <2>1. slotPtr[s] = NoObj
    BY <1>0, <1>2, TakeFacts DEF AcquireSlot
  <2>2. /\ ctl[t] = "acquire" /\ ctl' = [ctl EXCEPT ![t] = "store"]
        /\ \A u \in Callers \ {t} : hnd'[u] = hnd[u]
        /\ pinPtr' = [pinPtr EXCEPT ![s] = ptr[t]]
        /\ UNCHANGED <<slotPtr, slotInUse, obj, ptr, acc>>
    BY <1>2, <1>a DEF AcquireSlot
  <2>3. ASSUME NEW d \in Callers, Destroying(d)'
        PROVE  d # t /\ Destroying(d) /\ Idx(hnd[d]) # s /\ ctl'[d] = ctl[d]
    BY <1>0, <1>a, <2>1, <2>2, <2>3 DEF Destroying, DestroyerInv
  <2> QED
    BY <1>0, <1>a, <1>b, <2>2, <2>3 DEF DestroyerInv
<1>3. ASSUME NEW t \in Callers, PublishState(t) PROVE DestroyerInv'
  <2>1. slotPtr[Idx(hnd[t])] = NoObj
    BY <1>0, <1>3 DEF PublishState, CreatorInv, Creating
  <2>2. /\ ctl[t] = "store" /\ ctl' = [ctl EXCEPT ![t] = "idle"]
        /\ slotPtr' = [slotPtr EXCEPT ![Idx(hnd[t])] = ptr[t]]
        /\ slotInUse' = [slotInUse EXCEPT ![Idx(hnd[t])] = TRUE]
        /\ UNCHANGED <<pinPtr, obj, hnd, ptr, acc>>
    BY <1>3 DEF PublishState, objVars
  <2>3. ASSUME NEW d \in Callers, Destroying(d)'
        PROVE  d # t /\ Destroying(d) /\ Idx(hnd[d]) # Idx(hnd[t]) /\ ctl'[d] = ctl[d]
    BY <1>0, <1>a, <2>1, <2>2, <2>3 DEF Destroying, DestroyerInv
  <2> QED
    BY <1>0, <1>a, <1>b, <2>2, <2>3 DEF DestroyerInv
<1>4. ASSUME NEW t \in Callers, NEW s \in Slot, AcquireFails(t, s) PROVE DestroyerInv'
  <2>1. slotPtr[s] = NoObj
    BY <1>0, <1>4, FailFacts
  <2>2. /\ ctl[t] = "acquire" /\ ctl' = [ctl EXCEPT ![t] = "abandon"]
        /\ slotPtr' = [slotPtr EXCEPT ![s] = NoObj]
        /\ UNCHANGED <<pinPtr, slotInUse, obj, hnd, ptr, acc>>
    BY <1>4 DEF AcquireFails, pinVars, objVars
  <2>3. slotPtr' = slotPtr
    BY <1>a, <2>1, <2>2
  <2>4. ASSUME NEW d \in Callers, Destroying(d)' PROVE Destroying(d) /\ ctl'[d] = ctl[d]
    BY <1>a, <2>2, <2>4 DEF Destroying
  <2> QED
    BY <1>0, <2>2, <2>3, <2>4 DEF DestroyerInv
<1>5. ASSUME NEW t \in Callers, Abandon(t) \/ FreeObject(t) PROVE DestroyerInv'
  <2>1. /\ ctl' = [ctl EXCEPT ![t] = "idle"] \/ (ctl' = [ctl EXCEPT ![t] = "release"] /\ Destroying(t))
        /\ obj' = [obj EXCEPT ![ptr[t]] = "freed"]
        /\ UNCHANGED <<slotPtr, slotInUse, pinPtr, hnd, ptr, acc>>
    BY <1>5 DEF Abandon, FreeObject, Destroying, tableVars, pinVars
  <2>2. ASSUME NEW d \in Callers, Destroying(d), d # t PROVE ptr[d] # ptr[t] /\ ptr[d] \in Objs
    <3>1. CASE Abandon(t)
      BY <1>0, <1>b, <2>2, <3>1 DEF Abandon, CreatorInv, Creating, DestroyerInv
    <3>2. CASE FreeObject(t)
      <4>1. Idx(self[ptr[d]]) = Idx(hnd[d]) /\ Idx(self[ptr[t]]) = Idx(hnd[t]) /\ Destroying(t)
        BY <2>2, <3>2, SelfSlot DEF FreeObject, Destroying
      <4> QED
        BY <1>0, <2>2, <4>1 DEF DestroyerInv
    <3> QED
      BY <1>5, <3>1, <3>2
  <2>3. ASSUME NEW d \in Callers, Destroying(d)'
        PROVE  Destroying(d) /\ (IF d = t THEN ctl'[d] = "release" ELSE ctl'[d] = ctl[d])
    BY <1>a, <2>1, <2>3 DEF Destroying
  <2> QED
    BY <1>0, <1>a, <2>1, <2>2, <2>3 DEF DestroyerInv
<1>6. ASSUME NEW t \in Callers, ReleaseSlot(t) PROVE DestroyerInv'
  <2>1. /\ Destroying(t) /\ ctl' = [ctl EXCEPT ![t] = "idle"]
        /\ slotPtr' = [slotPtr EXCEPT ![Idx(hnd[t])] = NoObj]
        /\ UNCHANGED <<slotInUse, pinPtr, obj, hnd, ptr, acc>>
    BY <1>6 DEF ReleaseSlot, Destroying, pinVars, objVars
  <2>2. ASSUME NEW d \in Callers, Destroying(d)'
        PROVE  d # t /\ Destroying(d) /\ ctl'[d] = ctl[d]
    BY <1>a, <2>1, <2>2 DEF Destroying
  <2>3. \A d \in Callers : Destroying(d) /\ d # t => Idx(hnd[d]) # Idx(hnd[t])
    BY <1>0, <2>1 DEF DestroyerInv
  <2> QED
    BY <1>0, <1>a, <1>b, <2>1, <2>2, <2>3 DEF DestroyerInv
<1>7. ASSUME NEW t \in Callers, ScanStripe(t) PROVE DestroyerInv'
  <2>1. Idx(self[ptr[t]]) = Idx(hnd[t])
    BY <1>7, SelfSlot DEF ScanStripe, Destroying
  <2>2. stripeAt[t] \in Stripe
    BY <1>7, <1>a DEF ScanStripe, Stripe
  <2>3. count[<<Idx(hnd[t]), stripeAt[t]>>] \in Nat
    BY <1>0, <1>b, <2>2, HoldersFinite, FS_CardinalityType DEF CountInv
  <2>4. /\ acc' = [acc EXCEPT ![t] = @ + count[<<Idx(hnd[t]), stripeAt[t]>>]]
        /\ UNCHANGED <<slotPtr, slotInUse, pinPtr, obj, ctl, hnd, ptr>>
    BY <1>7, <2>1 DEF ScanStripe, tableVars, pinVars, objVars
  <2>5. \A d \in Callers : Destroying(d) => acc'[d] >= 0
    BY <1>0, <1>a, <2>3, <2>4 DEF DestroyerInv
  <2> QED
    BY <1>0, <2>4, <2>5 DEF DestroyerInv, Destroying
<1>8. ASSUME NEW t \in Callers, ScanAgain(t) \/ ScanDone(t) PROVE DestroyerInv'
  <2>1. /\ Destroying(t) /\ ctl[t] # "release"
        /\ ctl' = [ctl EXCEPT ![t] = "free"] \/ ctl' = ctl
        /\ acc' = [acc EXCEPT ![t] = 0] \/ acc' = acc
        /\ UNCHANGED <<slotPtr, slotInUse, pinPtr, obj, hnd, ptr>>
    BY <1>8 DEF ScanAgain, ScanDone, Destroying, tableVars, pinVars, objVars
  <2>2. \A d \in Callers : Destroying(d)' => Destroying(d) /\ (ctl'[d] # "release" => ctl[d] # "release")
    BY <1>a, <2>1 DEF Destroying
  <2>3. \A d \in Callers : Destroying(d) => acc'[d] >= 0
    BY <1>0, <1>a, <2>1 DEF DestroyerInv
  <2> QED
    BY <1>0, <2>1, <2>2, <2>3 DEF DestroyerInv
<1>9. ASSUME NEW t \in Callers,
             \/ \E o \in Objs : Create(t, o)
             \/ \E h \in issued : ResolveCall(t, h)
             \/ AcquireRefused(t)
             \/ PinLookup(t) \/ PinAdd(t) \/ PinRecheck(t) \/ PinLoad(t) \/ PinBackout(t) \/ Unpin(t)
      PROVE  DestroyerInv'
  <2>1. UNCHANGED <<slotPtr, slotInUse, pinPtr, acc>>
    BY <1>9 DEF Create, ResolveCall, AcquireRefused, PinLookup, PinAdd, PinRecheck, PinLoad,
                PinBackout, Unpin, tableVars, pinVars
  <2>2. \A u \in Callers \ {t} : ctl'[u] = ctl[u] /\ hnd'[u] = hnd[u] /\ ptr'[u] = ptr[u]
    BY <1>9, <1>a DEF Create, ResolveCall, AcquireRefused, PinLookup, PinAdd, PinRecheck, PinLoad,
                      PinBackout, Unpin
  <2>3. ~ Destroying(t)'
    BY <1>9, <1>a DEF Create, ResolveCall, AcquireRefused, PinLookup, PinAdd, PinRecheck, PinLoad,
                      PinBackout, Unpin, Destroying
  <2>4. \A o \in Objs : obj[o] = "live" => obj'[o] = "live"
    BY <1>9, <1>a DEF Create, ResolveCall, AcquireRefused, PinLookup, PinAdd, PinRecheck, PinLoad,
                      PinBackout, Unpin, objVars
  <2>5. ASSUME NEW d \in Callers, Destroying(d)' PROVE d # t /\ Destroying(d)
    BY <2>2, <2>3, <2>5 DEF Destroying
  <2> QED
    BY <1>0, <2>1, <2>2, <2>4, <2>5 DEF DestroyerInv
<1>10. CASE ExitCleanup \/ UNCHANGED handleVars
  <2>1. UNCHANGED <<slotPtr, slotInUse, pinPtr, obj, ctl, hnd, ptr, acc>>
    BY <1>10 DEF ExitCleanup, handleVars, tableVars, pinVars, objVars, threadVars
  <2> QED
    BY <1>0, <2>1 DEF DestroyerInv, Destroying
<1> QED
  BY <1>1, <1>2, <1>3, <1>4, <1>5, <1>6, <1>7, <1>8, <1>9, <1>10 DEF HandleNext, Progress

-----------------------------------------------------------------------------

\* A step of a thread that neither uses nor scans, takes no slot out of use and
\* republishes no pointer, leaves the users alone.
LEMMA UserFrame ==
  ASSUME NEW x \in Callers, UserInv, ctl[x] # "scan", ~ Using(x)',
         \A u \in Callers \ {x} : /\ ctl'[u] = ctl[u] /\ hnd'[u] = hnd[u] /\ ptr'[u] = ptr[u]
                                  /\ stripeAt'[u] = stripeAt[u] /\ acc'[u] = acc[u],
         \A t \in Callers : /\ slotInUse[Idx(hnd[t])] => slotInUse'[Idx(hnd[t])]
                            /\ pinPtr'[Idx(hnd[t])] = pinPtr[Idx(hnd[t])] \/ ~ Using(t)
  PROVE  UserInv'
<1> SUFFICES ASSUME NEW t \in Callers, Using(t)'
             PROVE  /\ ctl'[t] = "use" => ptr'[t] = pinPtr'[Idx(hnd'[t])]
                    /\ slotInUse'[Idx(hnd'[t])] \/ \E d \in Callers : NotPassed(d, t)'
  BY DEF UserInv
<1>1. t # x /\ Using(t) /\ hnd'[t] = hnd[t] /\ ptr'[t] = ptr[t] /\ ctl'[t] = ctl[t]
  BY DEF Using
<1>2. \A d \in Callers : NotPassed(d, t) => NotPassed(d, t)'
  BY <1>1 DEF NotPassed
<1> QED
  BY <1>1, <1>2 DEF UserInv

\* A granted pin stays on a live slot or ahead of the scan.
LEMMA UserStep == HandleIInv /\ [HandleNext]_handleVars => UserInv'
<1> SUFFICES ASSUME HandleIInv, [HandleNext]_handleVars PROVE UserInv'
  OBVIOUS
<1>0. HandleTypeOK /\ CountInv /\ SlotInv /\ FreeInv /\ CreatorInv /\ DestroyerInv /\ UserInv
  BY DEF HandleIInv
<1>a. /\ slotInUse \in [Slot -> BOOLEAN] /\ state \in [Slot -> [gen : Gen, live : BOOLEAN]]
      /\ pinPtr \in [Slot -> Objs \cup {NoObj}]
      /\ ctl \in [Callers -> Pc] /\ hnd \in [Callers -> Handle]
      /\ ptr \in [Callers -> Objs \cup {NoObj}]
      /\ stripeAt \in [Callers -> 0 .. NStripes] /\ acc \in [Callers -> Int]
  BY <1>0 DEF HandleTypeOK
<1>b. \A u \in Callers : Idx(hnd[u]) \in Slot /\ StripeOf[u] \in 0 .. NStripes - 1
  BY <1>a, HandleParts DEF Stripe
<1> USE DEF GoesTo
<1>1. ASSUME NEW x \in Callers, NEW h \in issued, DestroyRetire(x, h) PROVE UserInv'
  <2>1. Idx(h) \in Slot
    BY <1>0, HandleParts DEF HandleTypeOK
  <2>2. /\ slotInUse' = [slotInUse EXCEPT ![Idx(h)] = FALSE]
        /\ ctl[x] = "idle" /\ ctl' = [ctl EXCEPT ![x] = "scan"] /\ hnd' = [hnd EXCEPT ![x] = h]
        /\ ptr' = [ptr EXCEPT ![x] = slotPtr[Idx(h)]] /\ pinPtr' = pinPtr
        /\ stripeAt' = [stripeAt EXCEPT ![x] = 0] /\ acc' = [acc EXCEPT ![x] = 0]
    BY <1>1 DEF DestroyRetire
  <2> SUFFICES ASSUME NEW t \in Callers, Using(t)'
               PROVE  /\ ctl'[t] = "use" => ptr'[t] = pinPtr'[Idx(hnd'[t])]
                      /\ slotInUse'[Idx(hnd'[t])] \/ \E d \in Callers : NotPassed(d, t)'
    BY DEF UserInv
  <2>3. t # x /\ Using(t) /\ hnd'[t] = hnd[t] /\ ptr'[t] = ptr[t] /\ ctl'[t] = ctl[t]
    BY <1>a, <2>2 DEF Using
  <2>4. \A d \in Callers : NotPassed(d, t) => NotPassed(d, t)'
    BY <1>a, <2>2, <2>3 DEF NotPassed
  <2>5. Idx(hnd[t]) = Idx(h) => NotPassed(x, t)'
    BY <1>a, <1>b, <2>2, <2>3 DEF NotPassed
  <2> QED
    BY <1>0, <1>a, <1>b, <2>2, <2>3, <2>4, <2>5 DEF UserInv
<1>2. ASSUME NEW x \in Callers, NEW s \in Slot, AcquireSlot(x, s) PROVE UserInv'
  <2>1. slotPtr[s] = NoObj /\ ~slotInUse[s]
    BY <1>0, <1>2, TakeFacts DEF AcquireSlot
  <2>2. /\ ctl[x] # "scan" /\ ~ Using(x)'
        /\ \A u \in Callers \ {x} : /\ ctl'[u] = ctl[u] /\ hnd'[u] = hnd[u] /\ ptr'[u] = ptr[u]
                                    /\ stripeAt'[u] = stripeAt[u] /\ acc'[u] = acc[u]
        /\ slotInUse' = slotInUse /\ pinPtr' = [pinPtr EXCEPT ![s] = ptr[x]]
    BY <1>2, <1>a DEF AcquireSlot, Using
  <2>3. ASSUME NEW t \in Callers, Using(t) PROVE Idx(hnd[t]) # s
    <3>1. ASSUME NEW d \in Callers, NotPassed(d, t) PROVE Idx(hnd[t]) # s
      BY <1>0, <2>1, <3>1 DEF NotPassed, DestroyerInv, Destroying
    <3> QED
      BY <1>0, <2>1, <2>3, <3>1 DEF UserInv
  <2> QED
    BY <1>0, <1>a, <1>b, <2>2, <2>3, UserFrame
<1>3. ASSUME NEW x \in Callers, PublishState(x) PROVE UserInv'
  <2>1. /\ ctl[x] # "scan" /\ ~ Using(x)'
        /\ \A u \in Callers \ {x} : /\ ctl'[u] = ctl[u] /\ hnd'[u] = hnd[u] /\ ptr'[u] = ptr[u]
                                    /\ stripeAt'[u] = stripeAt[u] /\ acc'[u] = acc[u]
        /\ slotInUse' = [slotInUse EXCEPT ![Idx(hnd[x])] = TRUE] /\ pinPtr' = pinPtr
    BY <1>3, <1>a DEF PublishState, Using
  <2> QED
    BY <1>0, <1>a, <1>b, <2>1, UserFrame
<1>4. ASSUME NEW x \in Callers, PinRecheck(x) \/ PinLoad(x) PROVE UserInv'
  <2>1. /\ ctl[x] # "scan"
        /\ ctl' = [ctl EXCEPT ![x] = ctl'[x]] /\ ctl'[x] \in {"load", "backout", "use"}
        /\ ptr' = [ptr EXCEPT ![x] = ptr'[x]]
        /\ UNCHANGED <<hnd, stripeAt, acc, slotInUse, pinPtr>>
    BY <1>4, <1>a DEF PinRecheck, PinLoad, tableVars, pinVars
  <2>2. \A d, t \in Callers : NotPassed(d, t) => NotPassed(d, t)'
    BY <1>a, <2>1 DEF NotPassed
  <2>3. ASSUME NEW t \in Callers, Using(t)', t # x
        PROVE  /\ ctl'[t] = "use" => ptr'[t] = pinPtr'[Idx(hnd'[t])]
               /\ slotInUse'[Idx(hnd'[t])] \/ \E d \in Callers : NotPassed(d, t)'
    <3>1. Using(t) /\ ctl'[t] = ctl[t] /\ ptr'[t] = ptr[t]
      BY <1>a, <2>1, <2>3 DEF Using
    <3> QED
      BY <1>0, <2>1, <2>2, <3>1 DEF UserInv
  <2>4. ctl'[x] = "use" => ptr'[x] = pinPtr[Idx(hnd[x])]
    BY <1>4, <1>a DEF PinRecheck, PinLoad
  <2>5. ASSUME Using(x)' PROVE slotInUse'[Idx(hnd'[x])] \/ \E d \in Callers : NotPassed(d, x)'
    <3>1. CASE PinLoad(x)
      <4>1. Using(x)
        BY <3>1 DEF PinLoad, Using
      <4> QED
        BY <1>0, <2>1, <2>2, <4>1 DEF UserInv
    <3>2. CASE PinRecheck(x)
      <4>1. state[Idx(hnd[x])] = Want(hnd[x])
        BY <1>a, <2>5, <3>2 DEF PinRecheck, Using
      <4>2. state[Idx(hnd[x])].live
        BY <4>1 DEF Want
      <4> QED
        BY <1>0, <1>b, <2>1, <4>2 DEF SlotInv
    <3> QED
      BY <1>4, <3>1, <3>2
  <2> QED
    BY <2>1, <2>3, <2>4, <2>5 DEF UserInv
<1>5. ASSUME NEW x \in Callers, ScanStripe(x) \/ ScanAgain(x) \/ ScanDone(x) PROVE UserInv'
  <2>1. /\ ctl[x] = "scan" /\ ~ Using(x)'
        /\ \A u \in Callers \ {x} : ctl'[u] = ctl[u] /\ stripeAt'[u] = stripeAt[u] /\ acc'[u] = acc[u]
        /\ UNCHANGED <<hnd, ptr, slotInUse, pinPtr>>
    BY <1>5, <1>a DEF ScanStripe, ScanAgain, ScanDone, Using, tableVars, pinVars
  <2>2. acc[x] >= 0
    BY <1>0, <2>1 DEF DestroyerInv, Destroying
  <2>3. ASSUME NEW t \in Callers, Using(t), NotPassed(x, t) PROVE NotPassed(x, t)'
    <3>1. CASE ScanStripe(x)
      <4>1. Idx(self[ptr[x]]) = Idx(hnd[x]) /\ Idx(hnd[x]) = Idx(hnd[t])
        BY <2>1, <2>3, SelfSlot DEF Destroying, NotPassed
      <4>2. stripeAt[x] \in Stripe
        BY <1>a, <3>1 DEF ScanStripe, Stripe
      <4> DEFINE c == count[<<Idx(hnd[t]), stripeAt[x]>>]
                 H == Holders(Idx(hnd[t]), stripeAt[x])
      <4>3. /\ ctl' = ctl /\ hnd' = hnd
            /\ acc'[x] = acc[x] + c
            /\ stripeAt'[x] = stripeAt[x] + 1
        BY <1>a, <3>1, <4>1 DEF ScanStripe
      <4>4. c = Cardinality(H) /\ c \in Nat
        BY <1>0, <1>b, <4>2, HoldersFinite, FS_CardinalityType DEF CountInv
      <4>5. StripeOf[t] = stripeAt[x] => c # 0
        <5>1. StripeOf[t] = stripeAt[x] => t \in H
          BY <2>3 DEF Holders, Using, Counted
        <5>2. c = 0 => H = {}
          BY <4>4, HoldersFinite, FS_EmptySet
        <5> QED
          BY <5>1, <5>2
      <4> HIDE DEF c, H
      <4>6. acc'[x] = 0 => acc[x] = 0 /\ c = 0
        BY <1>a, <2>2, <4>3, <4>4
      <4>7. acc'[x] = 0 => stripeAt'[x] <= StripeOf[t]
        <5>1. acc'[x] = 0 => stripeAt[x] <= StripeOf[t] /\ StripeOf[t] # stripeAt[x]
          BY <2>3, <4>5, <4>6 DEF NotPassed
        <5>2. stripeAt[x] \in Int /\ StripeOf[t] \in Int
          BY <1>a, <1>b
        <5> QED
          BY <4>3, <5>1, <5>2
      <4> QED
        BY <2>3, <4>3, <4>7 DEF NotPassed
    <3>2. CASE ScanAgain(x)
      BY <1>a, <1>b, <2>3, <3>2 DEF ScanAgain, NotPassed
    <3>3. CASE ScanDone(x)
      BY <1>a, <1>b, <2>2, <2>3, <3>3 DEF ScanDone, NotPassed
    <3> QED
      BY <1>5, <3>1, <3>2, <3>3
  <2>4. \A d, t \in Callers : d # x /\ NotPassed(d, t) => NotPassed(d, t)'
    BY <2>1 DEF NotPassed
  <2>5. ASSUME NEW t \in Callers, Using(t)' PROVE t # x /\ Using(t) /\ ctl'[t] = ctl[t]
    BY <2>1, <2>5 DEF Using
  <2> QED
    BY <1>0, <2>1, <2>3, <2>4, <2>5 DEF UserInv
<1>6. ASSUME NEW x \in Callers,
             \/ \E o \in Objs : Create(x, o)
             \/ \E h \in issued : ResolveCall(x, h)
             \/ \E s \in Slot : AcquireFails(x, s)
             \/ AcquireRefused(x) \/ Abandon(x)
             \/ PinLookup(x) \/ PinAdd(x) \/ PinBackout(x) \/ Unpin(x)
             \/ FreeObject(x) \/ ReleaseSlot(x)
      PROVE  UserInv'
  <2>1. UNCHANGED <<slotInUse, pinPtr, stripeAt, acc>>
    BY <1>6 DEF Create, ResolveCall, AcquireFails, AcquireRefused, Abandon, PinLookup, PinAdd,
                PinBackout, Unpin, FreeObject, ReleaseSlot, tableVars, pinVars
  <2>2. \A u \in Callers \ {x} : ctl'[u] = ctl[u] /\ hnd'[u] = hnd[u] /\ ptr'[u] = ptr[u]
    BY <1>6, <1>a DEF Create, ResolveCall, AcquireFails, AcquireRefused, Abandon, PinLookup, PinAdd,
                      PinBackout, Unpin, FreeObject, ReleaseSlot
  <2>3. ctl[x] # "scan" /\ ~ Using(x)'
    BY <1>6, <1>a DEF Create, ResolveCall, AcquireFails, AcquireRefused, Abandon, PinLookup, PinAdd,
                      PinBackout, Unpin, FreeObject, ReleaseSlot, Using
  <2> QED
    BY <1>0, <2>1, <2>2, <2>3, UserFrame
<1>7. CASE ExitCleanup \/ UNCHANGED handleVars
  <2>1. UNCHANGED <<slotInUse, pinPtr, ctl, hnd, ptr, stripeAt, acc>>
    BY <1>7 DEF ExitCleanup, handleVars, tableVars, pinVars, threadVars
  <2> QED
    BY <1>0, <2>1 DEF UserInv, Using, NotPassed
<1> QED
  BY <1>1, <1>2, <1>3, <1>4, <1>5, <1>6, <1>7 DEF HandleNext, Progress

-----------------------------------------------------------------------------

LEMMA HandleInvInit == HandleInit => HandleIInv
<1> SUFFICES ASSUME HandleInit PROVE HandleIInv
  OBVIOUS
<1>1. HandleTypeOK
  BY TypeInit
<1>2. CountInv
  <2>1. \A s, k : Holders(s, k) = {}
    BY DEF HandleInit, Holders, Counted
  <2>2. \A s \in Slot, k \in Stripe : count[<<s, k>>] = 0
    BY DEF HandleInit
  <2> QED
    BY <2>1, <2>2, FS_EmptySet DEF CountInv
<1>3. SlotInv
  BY DEF HandleInit, SlotInv
<1>4. FreeInv
  BY DEF HandleInit, FreeInv
<1>5. CreatorInv /\ DestroyerInv /\ UserInv
  BY DEF HandleInit, CreatorInv, DestroyerInv, UserInv, Creating, Destroying, Using
<1> QED
  BY <1>1, <1>2, <1>3, <1>4, <1>5 DEF HandleIInv

LEMMA InvStep == HandleIInv /\ [HandleNext]_handleVars => HandleIInv'
BY TypeStep, CountStep, SlotStep, FreeListStep, CreatorStep, DestroyerStep, UserStep DEF HandleIInv

LEMMA HandleInvariance == HandleSpec => []HandleIInv
BY HandleInvInit, InvStep, PTL DEF HandleSpec

\* The types hold in every reachable state of the handle table.
THEOREM TypeCorrect == HandleSpec => []HandleTypeOK
<1>1. HandleIInv => HandleTypeOK
  BY DEF HandleIInv
<1> QED
  BY <1>1, HandleInvariance, PTL

\* The lock-free resolve of cpintable.c is memory safe: whatever the number of
\* threads, slots and stripes, and even when generations wrap, no destroy frees
\* an object that a resolve has handed out and not yet unpinned.
THEOREM PinSafety == HandleSpec => []PinnedObjectAlive
<1>1. HandleIInv => PinnedObjectAlive
  BY SelfSlot DEF PinnedObjectAlive
<1> QED
  BY <1>1, HandleInvariance, PTL

\* Every destroy that reached the scan works alone on its slot: no other
\* destroy frees the same object or gives the same index back.
THEOREM DestroyExclusive == HandleSpec => []DestroyerInv
<1>1. HandleIInv => DestroyerInv
  BY DEF HandleIInv
<1> QED
  BY <1>1, HandleInvariance, PTL

-----------------------------------------------------------------------------
(* Handles and indices.                                                    *)

\* The generation of a slot is that of the object it holds, of the word it
\* publishes while in use, and of every handle that is on its way through it.
GenInv ==
  /\ \A s \in Slot : /\ slotPtr[s] # NoObj => GenOf(self[slotPtr[s]]) = slotGen[s]
                     /\ slotInUse[s] => state[s].gen = slotGen[s]
  /\ \A t \in Callers : ctl[t] = "store" \/ Using(t) => GenOf(hnd[t]) = slotGen[Idx(hnd[t])]

\* The index taken by a publish that has not stored its state yet.
Unsettled == {Idx(hnd[t]) : t \in {u \in Callers : ctl[u] = "store"}}
Released == Reclaimable \ Unsettled

\* An index that nobody holds is on the free list or counted as lost.
AccountInv == ~released => Cardinality(Released) = lost + Len(freeIdx)

\* While the write lock is free no publish is under way.
LEMMA NoStoreUnlocked ==
  ASSUME HandleIInv, wlock = NoObj
  PROVE  (\A t \in Callers : ctl[t] # "store") /\ Unsettled = {}
<1>1. \A t \in Callers : ctl[t] = "store" => wlock = t BY DEF HandleIInv, CreatorInv, Creating
<1>2. \A t \in Callers : ctl[t] # "store" BY <1>1
<1> QED BY <1>2 DEF Unsettled

\* Nobody uses an index that is free.
LEMMA FreeUnused ==
  ASSUME HandleIInv, NEW s \in Slot, slotPtr[s] = NoObj
  PROVE  \A t \in Callers : Using(t) => Idx(hnd[t]) # s
<1> SUFFICES ASSUME NEW t \in Callers, Using(t), Idx(hnd[t]) = s PROVE FALSE OBVIOUS
<1>1. ~slotInUse[s] BY DEF HandleIInv, SlotInv
<1>2. PICK d \in Callers : NotPassed(d, t) BY <1>1 DEF HandleIInv, UserInv
<1>3. slotPtr[s] = ptr[d] /\ ptr[d] \in Objs BY <1>2 DEF HandleIInv, DestroyerInv, Destroying, NotPassed
<1> QED BY <1>3

\* An index that a destroy gives back has no user left.
LEMMA ReleaseUnused ==
  ASSUME HandleIInv, NEW x \in Callers, ctl[x] = "release"
  PROVE  \A t \in Callers : Using(t) => Idx(hnd[t]) # Idx(hnd[x])
<1> SUFFICES ASSUME NEW t \in Callers, Using(t), Idx(hnd[t]) = Idx(hnd[x]) PROVE FALSE OBVIOUS
<1>1. ~slotInUse[Idx(hnd[x])] BY DEF HandleIInv, DestroyerInv, Destroying
<1>2. PICK d \in Callers : NotPassed(d, t) BY <1>1 DEF HandleIInv, UserInv
<1>3. d = x BY <1>2 DEF HandleIInv, DestroyerInv, Destroying, NotPassed
<1> QED BY <1>2, <1>3 DEF NotPassed

\* A step that moves no generation and starts no use.
LEMMA GenFrame ==
  ASSUME GenInv, UNCHANGED <<slotPtr, slotGen, self>>,
         \A s \in Slot : slotInUse'[s] => slotInUse[s] /\ state'[s].gen = state[s].gen,
         \A t \in Callers : ctl'[t] = "store" \/ Using(t)' =>
                              (ctl[t] = "store" \/ Using(t)) /\ hnd'[t] = hnd[t]
  PROVE  GenInv'
BY DEF GenInv

LEMMA GenStep == HandleIInv /\ GenInv /\ [HandleNext]_handleVars => GenInv'
<1> SUFFICES ASSUME HandleIInv, GenInv, [HandleNext]_handleVars PROVE GenInv' OBVIOUS
<1>a. /\ slotPtr \in [Slot -> Objs \cup {NoObj}] /\ slotGen \in [Slot -> Gen]
      /\ slotInUse \in [Slot -> BOOLEAN] /\ state \in [Slot -> [gen : Gen, live : BOOLEAN]]
      /\ self \in [Objs -> Handle \cup {NoObj}]
      /\ ctl \in [Callers -> Pc] /\ hnd \in [Callers -> Handle] /\ ptr \in [Callers -> Objs \cup {NoObj}]
      /\ issued \subseteq Handle
  BY DEF HandleIInv, HandleTypeOK
<1>b. \A u \in Callers : Idx(hnd[u]) \in Slot /\ GenOf(hnd[u]) \in Gen BY <1>a, HandleParts
<1> USE DEF GoesTo
<1>1. ASSUME NEW x \in Callers, NEW h \in issued, DestroyRetire(x, h) PROVE GenInv'
  <2>1. Idx(h) \in Slot BY <1>a, HandleParts
  <2>2. /\ UNCHANGED <<slotPtr, slotGen, self>> /\ slotInUse' = [slotInUse EXCEPT ![Idx(h)] = FALSE]
        /\ state' = [state EXCEPT ![Idx(h)] = [gen |-> @.gen, live |-> FALSE]]
        /\ ctl' = [ctl EXCEPT ![x] = "scan"] /\ hnd' = [hnd EXCEPT ![x] = h]
    BY <1>1 DEF DestroyRetire, objVars
  <2>3. \A s \in Slot : slotInUse'[s] => slotInUse[s] /\ state'[s].gen = state[s].gen BY <1>a, <2>1, <2>2
  <2>4. \A t \in Callers : ctl'[t] = "store" \/ Using(t)' => (ctl[t] = "store" \/ Using(t)) /\ hnd'[t] = hnd[t]
    BY <1>a, <2>2 DEF Using
  <2> QED BY <2>2, <2>3, <2>4, GenFrame
<1>2. ASSUME NEW x \in Callers, NEW s \in Slot, AcquireSlot(x, s) PROVE GenInv'
  <2> DEFINE g == NextGen(slotGen[s])
  <2>1. slotPtr[s] = NoObj /\ ~slotInUse[s] BY <1>2, TakeFacts DEF AcquireSlot, HandleIInv
  <2>2. /\ slotGen' = [slotGen EXCEPT ![s] = g] /\ self' = [self EXCEPT ![ptr[x]] = <<s, g>>]
        /\ hnd' = [hnd EXCEPT ![x] = <<s, g>>]
        /\ ctl[x] = "acquire" /\ ctl' = [ctl EXCEPT ![x] = "store"] /\ wlock = NoObj
        /\ UNCHANGED <<slotPtr, slotInUse, state>>
    BY <1>2 DEF AcquireSlot, GenOf
  <2> HIDE DEF g
  <2>3. \A r \in Slot : slotPtr[r] # ptr[x] BY <2>2 DEF HandleIInv, CreatorInv, Creating
  <2>4. \A r \in Slot : slotPtr[r] # NoObj => r # s /\ slotGen'[r] = slotGen[r] /\ self'[slotPtr[r]] = self[slotPtr[r]]
    BY <1>a, <2>1, <2>2, <2>3
  <2>5. \A r \in Slot : slotInUse[r] => r # s /\ slotGen'[r] = slotGen[r] BY <1>a, <2>1, <2>2
  <2>6. ASSUME NEW t \in Callers, ctl'[t] = "store" \/ Using(t)' PROVE GenOf(hnd'[t]) = slotGen'[Idx(hnd'[t])]
    <3>1. CASE t = x
      <4>1. hnd'[t] = <<s, g>> BY <1>a, <2>2, <3>1
      <4> QED BY <1>a, <2>2, <4>1 DEF Idx, GenOf
    <3>2. CASE t # x
      <4>1. hnd'[t] = hnd[t] /\ ctl'[t] = ctl[t] BY <1>a, <2>2, <3>2
      <4>2. Using(t) BY <2>2, <2>6, <4>1, NoStoreUnlocked DEF Using
      <4>3. Idx(hnd[t]) # s BY <2>1, <4>2, FreeUnused
      <4> QED BY <1>a, <1>b, <2>2, <4>1, <4>2, <4>3 DEF GenInv
    <3> QED BY <3>1, <3>2
  <2> QED BY <2>2, <2>4, <2>5, <2>6 DEF GenInv
<1>3. ASSUME NEW x \in Callers, NEW s \in Slot, AcquireFails(x, s) PROVE GenInv'
  <2>1. slotPtr[s] = NoObj /\ ~slotInUse[s] BY <1>3, FailFacts DEF HandleIInv
  <2>2. /\ slotGen' = [slotGen EXCEPT ![s] = NextGen(@)] /\ slotPtr' = [slotPtr EXCEPT ![s] = NoObj]
        /\ ctl' = [ctl EXCEPT ![x] = "abandon"] /\ wlock = NoObj
        /\ UNCHANGED <<slotInUse, state, self, hnd>>
    BY <1>3 DEF AcquireFails, pinVars, objVars
  <2>3. slotPtr' = slotPtr BY <1>a, <2>1, <2>2
  <2>4. \A r \in Slot : r # s => slotGen'[r] = slotGen[r] BY <1>a, <2>2
  <2>5. ASSUME NEW t \in Callers, ctl'[t] = "store" \/ Using(t)' PROVE GenOf(hnd'[t]) = slotGen'[Idx(hnd'[t])]
    <3>1. t # x /\ ctl'[t] = ctl[t] BY <1>a, <2>2, <2>5 DEF Using
    <3>2. Using(t) BY <2>2, <2>5, <3>1, NoStoreUnlocked DEF Using
    <3>3. Idx(hnd[t]) # s BY <2>1, <3>2, FreeUnused
    <3> QED BY <1>b, <2>2, <2>4, <3>2, <3>3 DEF GenInv
  <2> QED BY <2>1, <2>2, <2>3, <2>4, <2>5 DEF GenInv
<1>4. ASSUME NEW x \in Callers, ReleaseSlot(x) PROVE GenInv'
  <2> DEFINE s == Idx(hnd[x])
  <2>1. /\ slotGen' = [slotGen EXCEPT ![s] = Bump(@)] /\ slotPtr' = [slotPtr EXCEPT ![s] = NoObj]
        /\ ctl[x] = "release" /\ ctl' = [ctl EXCEPT ![x] = "idle"] /\ wlock = NoObj
        /\ UNCHANGED <<slotInUse, state, self, hnd>>
    BY <1>4 DEF ReleaseSlot, pinVars, objVars
  <2>2. ~slotInUse[s] BY <2>1 DEF HandleIInv, DestroyerInv, Destroying
  <2>3. \A t \in Callers : Using(t) => Idx(hnd[t]) # s BY <2>1, ReleaseUnused
  <2>4. s \in Slot BY <1>b
  <2> HIDE DEF s
  <2>5. \A r \in Slot : r # s => slotGen'[r] = slotGen[r] /\ slotPtr'[r] = slotPtr[r] BY <1>a, <2>1
  <2>6. slotPtr'[s] = NoObj BY <1>a, <2>1, <2>4
  <2>7. ASSUME NEW t \in Callers, ctl'[t] = "store" \/ Using(t)' PROVE GenOf(hnd'[t]) = slotGen'[Idx(hnd'[t])]
    <3>1. t # x /\ ctl'[t] = ctl[t] BY <1>a, <2>1, <2>7 DEF Using
    <3>2. Using(t) BY <2>1, <2>7, <3>1, NoStoreUnlocked DEF Using
    <3> QED BY <1>b, <2>1, <2>3, <2>5, <3>2 DEF GenInv
  <2> QED BY <2>1, <2>2, <2>5, <2>6, <2>7 DEF GenInv
<1>5. ASSUME NEW x \in Callers, PublishState(x) PROVE GenInv'
  <2> DEFINE s == Idx(hnd[x])
  <2>1. /\ state' = [state EXCEPT ![s] = [gen |-> GenOf(hnd[x]), live |-> TRUE]]
        /\ slotPtr' = [slotPtr EXCEPT ![s] = ptr[x]] /\ slotInUse' = [slotInUse EXCEPT ![s] = TRUE]
        /\ ctl[x] = "store" /\ ctl' = [ctl EXCEPT ![x] = "idle"]
        /\ UNCHANGED <<slotGen, self, hnd>>
    BY <1>5 DEF PublishState, objVars
  <2>2. self[ptr[x]] = hnd[x] BY <2>1 DEF HandleIInv, CreatorInv, Creating
  <2>3. GenOf(hnd[x]) = slotGen[s] BY <2>1 DEF GenInv
  <2>4. s \in Slot BY <1>b
  <2> HIDE DEF s
  <2>5. slotPtr'[s] = ptr[x] /\ state'[s].gen = slotGen[s] BY <1>a, <2>1, <2>3, <2>4
  <2>6. \A r \in Slot : r # s => slotPtr'[r] = slotPtr[r] /\ slotInUse'[r] = slotInUse[r] /\ state'[r] = state[r]
    BY <1>a, <2>1
  <2>7. \A t \in Callers : ctl'[t] = "store" \/ Using(t)' => ctl[t] = "store" \/ Using(t) BY <1>a, <2>1 DEF Using
  <2>8. \A r \in Slot : /\ slotPtr'[r] # NoObj => GenOf(self'[slotPtr'[r]]) = slotGen'[r]
                        /\ slotInUse'[r] => state'[r].gen = slotGen'[r]
    BY <2>1, <2>2, <2>3, <2>5, <2>6 DEF GenInv
  <2> QED BY <2>1, <2>7, <2>8 DEF GenInv
<1>6. ASSUME NEW x \in Callers, PinRecheck(x) PROVE GenInv'
  <2>1. /\ ctl' = [ctl EXCEPT ![x] = IF state[Idx(hnd[x])] = Want(hnd[x]) THEN "load" ELSE "backout"]
        /\ UNCHANGED <<slotPtr, slotGen, slotInUse, state, self, hnd>>
    BY <1>6 DEF PinRecheck, tableVars, pinVars, objVars
  <2>2. ASSUME NEW t \in Callers, ctl'[t] = "store" \/ Using(t)' PROVE GenOf(hnd[t]) = slotGen[Idx(hnd[t])]
    <3>1. CASE t = x
      <4>1. state[Idx(hnd[x])] = Want(hnd[x]) BY <1>a, <2>1, <2>2, <3>1 DEF Using
      <4>2. state[Idx(hnd[x])].live /\ state[Idx(hnd[x])].gen = GenOf(hnd[x]) BY <4>1 DEF Want
      <4> QED BY <1>b, <3>1, <4>2 DEF GenInv, HandleIInv, SlotInv
    <3>2. CASE t # x
      <4>1. ctl'[t] = ctl[t] BY <1>a, <2>1, <3>2
      <4> QED BY <2>2, <4>1 DEF GenInv, Using
    <3> QED BY <3>1, <3>2
  <2> QED BY <2>1, <2>2 DEF GenInv
<1>7. ASSUME NEW x \in Callers,
             \/ \E o \in Objs : Create(x, o)
             \/ \E h \in issued : ResolveCall(x, h)
             \/ AcquireRefused(x) \/ Abandon(x)
             \/ PinLookup(x) \/ PinAdd(x) \/ PinLoad(x) \/ PinBackout(x) \/ Unpin(x)
             \/ ScanStripe(x) \/ ScanAgain(x) \/ ScanDone(x) \/ FreeObject(x)
      PROVE  GenInv'
  <2>1. UNCHANGED <<slotPtr, slotGen, slotInUse, state, self>>
    BY <1>7 DEF Create, ResolveCall, AcquireRefused, Abandon, PinLookup, PinAdd, PinLoad, PinBackout,
                Unpin, ScanStripe, ScanAgain, ScanDone, FreeObject, tableVars, pinVars, objVars
  <2>2. \A u \in Callers \ {x} : ctl'[u] = ctl[u] /\ hnd'[u] = hnd[u]
    BY <1>7, <1>a DEF Create, ResolveCall, AcquireRefused, Abandon, PinLookup, PinAdd, PinLoad,
                      PinBackout, Unpin, ScanStripe, ScanAgain, ScanDone, FreeObject
  <2>3. ctl'[x] = "store" \/ Using(x)' => (ctl[x] = "store" \/ Using(x)) /\ hnd'[x] = hnd[x]
    BY <1>7, <1>a DEF Create, ResolveCall, AcquireRefused, Abandon, PinLookup, PinAdd, PinLoad,
                      PinBackout, Unpin, ScanStripe, ScanAgain, ScanDone, FreeObject, Using
  <2>4. \A u \in Callers \ {x} : Using(u)' => Using(u) BY <2>2 DEF Using
  <2> QED BY <2>1, <2>2, <2>3, <2>4, GenFrame
<1>8. CASE ExitCleanup \/ UNCHANGED handleVars
  <2>1. UNCHANGED <<slotPtr, slotGen, slotInUse, state, self, ctl, hnd>>
    BY <1>8 DEF ExitCleanup, handleVars, tableVars, pinVars, objVars, threadVars
  <2> QED BY <2>1 DEF GenInv, Using
<1> QED BY <1>1, <1>2, <1>3, <1>4, <1>5, <1>6, <1>7, <1>8 DEF HandleNext, Progress

-----------------------------------------------------------------------------

LEMMA ReleasedFinite ==
  /\ IsFiniteSet(Reclaimable) /\ Cardinality(Reclaimable) \in Nat
  /\ IsFiniteSet(Released) /\ Cardinality(Released) \in Nat
<1>1. IsFiniteSet(Slot) BY FS_Interval DEF Slot
<1>2. Reclaimable \in SUBSET Slot /\ Released \in SUBSET Slot BY DEF Reclaimable, Released
<1>3. IsFiniteSet(Reclaimable) /\ IsFiniteSet(Released) BY <1>1, <1>2, FS_Subset
<1> QED BY <1>3, FS_CardinalityType

\* The length of the list after a pop, and after the popped index went back.
LEMMA PopLength ==
  ASSUME HandleTypeOK, FreeInv, freeIdx # <<>>, NEW s \in Slot
  PROVE  LET front == SubSeq(freeIdx, 1, Len(freeIdx) - 1) IN
         Len(front) = Len(freeIdx) - 1 /\ Len(Append(front, s)) = Len(freeIdx) /\ Len(freeIdx) \in Nat
<1> DEFINE front == SubSeq(freeIdx, 1, Len(freeIdx) - 1)
<1>1. freeIdx \in Seq(Slot) BY DEF HandleTypeOK
<1>2. Len(freeIdx) \in Nat \ {0} BY <1>1, LenProperties, EmptySeq
<1>3. front \in Seq(Slot) BY PopFacts
<1>4. Len(front) = Len(freeIdx) - 1
  <2>1. \A i \in 1 .. Len(freeIdx) - 1 : freeIdx[i] \in Slot BY <1>1, <1>2
  <2>2. Len(front) = IF 1 <= Len(freeIdx) - 1 THEN (Len(freeIdx) - 1) - 1 + 1 ELSE 0
    BY <1>2, <2>1, SubSeqProperties
  <2>3. \A n \in Nat \ {0} : (IF 1 <= n - 1 THEN (n - 1) - 1 + 1 ELSE 0) = n - 1 OBVIOUS
  <2>4. (IF 1 <= Len(freeIdx) - 1 THEN (Len(freeIdx) - 1) - 1 + 1 ELSE 0) = Len(freeIdx) - 1
    BY <1>2, <2>3, Zenon
  <2> HIDE DEF front
  <2> QED BY <2>2, <2>4
<1> HIDE DEF front
<1>5. Len(Append(front, s)) = Len(front) + 1 BY <1>3, AppendProperties
<1>6. Len(Append(front, s)) = Len(freeIdx) BY <1>2, <1>4, <1>5
<1> QED BY <1>2, <1>4, <1>6 DEF front

\* Nothing is lost when the scan for a lost index would find none.
LEMMA NoneLost ==
  ASSUME lost \in Nat, freeIdx = <<>>, Cardinality(Reclaimable) = lost + Len(freeIdx),
         lost > 0 => Reclaimable = {}
  PROVE  lost = 0 /\ Len(freeIdx) = 0 /\ Cardinality(Reclaimable) = 0
<1>1. Len(freeIdx) = 0 OBVIOUS
<1>2. Cardinality(Reclaimable) = lost BY <1>1
<1>3. Reclaimable = {} => Cardinality(Reclaimable) = 0 BY FS_EmptySet
<1> QED BY <1>1, <1>2, <1>3

\* A step that takes or gives back no index.
LEMMA AccountFrame ==
  ASSUME AccountInv, Released' = Released, UNCHANGED <<lost, freeIdx>>, ~released' => ~released
  PROVE  AccountInv'
BY DEF AccountInv

LEMMA AccountStep == HandleIInv /\ AccountInv /\ [HandleNext]_handleVars => AccountInv'
<1> SUFFICES ASSUME HandleIInv, AccountInv, [HandleNext]_handleVars PROVE AccountInv' OBVIOUS
<1>a. /\ slotPtr \in [Slot -> Objs \cup {NoObj}] /\ slotInUse \in [Slot -> BOOLEAN]
      /\ nslots \in Nat /\ lost \in Nat /\ Len(freeIdx) \in Nat /\ freeIdx \in Seq(Slot)
      /\ ctl \in [Callers -> Pc] /\ hnd \in [Callers -> Handle] /\ ptr \in [Callers -> Objs \cup {NoObj}]
      /\ issued \subseteq Handle
  BY LenProperties DEF HandleIInv, HandleTypeOK
<1>b. \A u \in Callers : Idx(hnd[u]) \in Slot BY <1>a, HandleParts
<1>c. Len(<<>>) = 0 /\ (freeIdx = <<>> => Len(freeIdx) = 0) OBVIOUS
<1>e. lost' \in Nat /\ Len(freeIdx') \in Nat
  <2>1. HandleTypeOK' BY TypeStep
  <2>2. freeIdx' \in Seq(Slot) /\ lost' \in Nat BY <2>1 DEF HandleTypeOK
  <2> QED BY <2>2, LenProperties
<1>d. \A s \in Slot : s \in Int BY DEF Slot
<1> USE DEF GoesTo
<1>1. ASSUME NEW x \in Callers, NEW s \in Slot, AcquireSlot(x, s) PROVE AccountInv'
  <2>1. /\ wlock = NoObj /\ ~released /\ released' = released /\ TakeIndex(s)
        /\ ctl' = [ctl EXCEPT ![x] = "store"] /\ hnd' = [hnd EXCEPT ![x] = <<s, NextGen(slotGen[s])>>]
        /\ UNCHANGED <<slotPtr, slotInUse>>
    BY <1>1 DEF AcquireSlot
  <2>2. \A t \in Callers : ctl[t] # "store" BY <2>1, NoStoreUnlocked
  <2>3. Unsettled' = {s}
    <3>1. \A t \in Callers : ctl'[t] = "store" <=> t = x BY <1>a, <2>1, <2>2
    <3>2. Idx(hnd'[x]) = s BY <1>a, <2>1 DEF Idx
    <3> QED BY <3>1, <3>2 DEF Unsettled
  <2>4. Cardinality(Reclaimable) = lost + Len(freeIdx)
    <3>1. Released = Reclaimable BY <2>1, NoStoreUnlocked DEF Released
    <3> QED BY <2>1, <3>1 DEF AccountInv
  <2>5. slotPtr[s] = NoObj /\ ~slotInUse[s] /\ s < nslots' BY <2>1, TakeFacts DEF HandleIInv
  <2>6. CASE nslots' = nslots /\ lost' + Len(freeIdx') = lost + Len(freeIdx) - 1
    <3>1. Reclaimable' = Reclaimable /\ s \in Reclaimable BY <2>1, <2>5, <2>6 DEF Reclaimable
    <3>2. Released' = Reclaimable \ {s} BY <2>3, <3>1 DEF Released
    <3>3. Cardinality(Reclaimable \ {s}) = Cardinality(Reclaimable) - 1 BY <3>1, ReleasedFinite, FS_RemoveElement
    <3>4. Cardinality(Released') = lost' + Len(freeIdx') BY <1>a, <1>e, <2>4, <2>6, <3>2, <3>3
    <3> QED BY <3>4 DEF AccountInv
  <2>7. CASE /\ freeIdx = <<>> /\ (lost > 0 => Reclaimable = {}) /\ s = nslots /\ nslots' = nslots + 1
             /\ lost' = 0 /\ UNCHANGED freeIdx
    <3>1. lost = 0 BY <1>a, <2>4, <2>7, NoneLost
    <3>2. Released' = Reclaimable
      <4>1. \A r \in Slot : r < nslots' /\ r # s <=> r < nslots BY <1>a, <1>d, <2>7
      <4>2. Released' = {r \in Slot : r < nslots' /\ r # s /\ slotPtr[r] = NoObj /\ ~slotInUse[r]}
        BY <2>1, <2>3 DEF Released, Reclaimable
      <4> QED BY <4>1, <4>2 DEF Reclaimable
    <3> QED BY <2>4, <2>7, <3>1, <3>2 DEF AccountInv
  <2>8. CASE /\ freeIdx # <<>> /\ freeIdx' = SubSeq(freeIdx, 1, Len(freeIdx) - 1) /\ UNCHANGED <<lost, nslots>>
    <3>1. Len(freeIdx') = Len(freeIdx) - 1 BY <2>8, PopLength DEF HandleIInv
    <3>2. lost' + Len(freeIdx') = lost + Len(freeIdx) - 1 BY <1>a, <2>8, <3>1
    <3> QED BY <2>6, <2>8, <3>2
  <2>9. CASE freeIdx = <<>> /\ lost' = lost - 1 /\ UNCHANGED <<freeIdx, nslots>>
    <3>1. lost' + Len(freeIdx') = lost + Len(freeIdx) - 1 BY <1>a, <2>9
    <3> QED BY <2>6, <2>9, <3>1
  <2> QED BY <2>1, <2>7, <2>8, <2>9 DEF TakeIndex
<1>2. ASSUME NEW x \in Callers, NEW s \in Slot, AcquireFails(x, s) PROVE AccountInv'
  <2>1. /\ wlock = NoObj /\ ~released /\ released' = released
        /\ ctl' = [ctl EXCEPT ![x] = "abandon"] /\ slotPtr' = [slotPtr EXCEPT ![s] = NoObj]
        /\ UNCHANGED <<slotInUse, hnd>>
    BY <1>2 DEF AcquireFails
  <2>2. Unsettled' = {}
    <3>1. \A t \in Callers : ctl'[t] # "store" BY <1>a, <2>1, NoStoreUnlocked
    <3> QED BY <3>1 DEF Unsettled
  <2>3. Cardinality(Reclaimable) = lost + Len(freeIdx)
    <3>1. Released = Reclaimable BY <2>1, NoStoreUnlocked DEF Released
    <3> QED BY <2>1, <3>1 DEF AccountInv
  <2>4. slotPtr[s] = NoObj /\ ~slotInUse[s] /\ s < nslots' BY <1>2, FailFacts DEF HandleIInv
  <2>5. slotPtr' = slotPtr BY <1>a, <2>1, <2>4
  <2>6. CASE nslots' = nslots /\ lost' + Len(freeIdx') = lost + Len(freeIdx)
    <3>1. Released' = Reclaimable BY <2>1, <2>2, <2>5, <2>6 DEF Released, Reclaimable
    <3> QED BY <2>3, <2>6, <3>1 DEF AccountInv
  <2>7. CASE /\ freeIdx = <<>> /\ (lost > 0 => Reclaimable = {}) /\ s = nslots /\ nslots' = nslots + 1
             /\ lost' + Len(freeIdx') = 1
    <3>1. lost = 0 /\ Cardinality(Reclaimable) = 0 BY <1>a, <2>3, <2>7, NoneLost
    <3>2. Released' = Reclaimable \cup {s} /\ s \notin Reclaimable
      <4>1. \A r \in Slot : r < nslots' <=> r < nslots \/ r = s BY <1>a, <1>d, <2>7
      <4>2. Released' = {r \in Slot : r < nslots' /\ slotPtr[r] = NoObj /\ ~slotInUse[r]}
        BY <2>1, <2>2, <2>5 DEF Released, Reclaimable
      <4>3. s \notin Reclaimable BY <1>a, <2>7 DEF Reclaimable
      <4> QED BY <2>4, <4>1, <4>2, <4>3 DEF Reclaimable
    <3>3. Cardinality(Reclaimable \cup {s}) = Cardinality(Reclaimable) + 1 BY <3>2, ReleasedFinite, FS_AddElement
    <3> QED BY <2>7, <3>1, <3>2, <3>3 DEF AccountInv
  <2>8. Len(<<s>>) = 1 OBVIOUS
  <2>9. CASE freeIdx # <<>> /\ GiveBack(s, SubSeq(freeIdx, 1, Len(freeIdx) - 1)) /\ UNCHANGED nslots
    <3>1. /\ Len(SubSeq(freeIdx, 1, Len(freeIdx) - 1)) = Len(freeIdx) - 1
          /\ Len(Append(SubSeq(freeIdx, 1, Len(freeIdx) - 1), s)) = Len(freeIdx)
      BY <2>9, PopLength DEF HandleIInv
    <3>2. \/ Len(freeIdx') = Len(freeIdx) /\ lost' = lost
          \/ Len(freeIdx') = Len(freeIdx) - 1 /\ lost' = lost + 1
      BY <2>9, <3>1 DEF GiveBack
    <3>3. lost' + Len(freeIdx') = lost + Len(freeIdx) BY <1>a, <3>2
    <3> QED BY <2>6, <2>9, <3>3
  <2>10. CASE /\ freeIdx = <<>> /\ UNCHANGED nslots
              /\ (freeIdx' = <<s>> /\ lost' = lost - 1) \/ UNCHANGED <<freeIdx, lost>>
    <3>1. \/ Len(freeIdx') = Len(freeIdx) + 1 /\ lost' = lost - 1
          \/ Len(freeIdx') = Len(freeIdx) /\ lost' = lost
      BY <1>c, <2>8, <2>10
    <3>2. lost' + Len(freeIdx') = lost + Len(freeIdx) BY <1>a, <1>e, <3>1
    <3> QED BY <2>6, <2>10, <3>2
  <2>11. CASE /\ freeIdx = <<>> /\ (lost > 0 => Reclaimable = {}) /\ s = nslots /\ nslots' = nslots + 1
              /\ (freeIdx' = <<s>> /\ lost' = 0) \/ (UNCHANGED freeIdx /\ lost' = 1)
    <3>1. (Len(freeIdx') = 1 /\ lost' = 0) \/ (Len(freeIdx') = 0 /\ lost' = 1) BY <1>c, <2>8, <2>11
    <3>2. lost' + Len(freeIdx') = 1
      <4>1. CASE Len(freeIdx') = 1 /\ lost' = 0 BY <4>1
      <4>2. CASE Len(freeIdx') = 0 /\ lost' = 1 BY <4>2
      <4> QED BY <3>1, <4>1, <4>2
    <3> QED BY <2>7, <2>11, <3>2
  <2> QED BY <1>2, <2>9, <2>10, <2>11 DEF AcquireFails
<1>3. ASSUME NEW x \in Callers, AcquireRefused(x) PROVE AccountInv'
  <2>1. /\ wlock = NoObj /\ released' = released /\ UNCHANGED <<slotPtr, slotInUse, nslots, freeIdx, hnd>>
        /\ ctl' = [ctl EXCEPT ![x] = "abandon"]
        /\ released \/ (freeIdx = <<>> /\ (lost > 0 => Reclaimable = {}) /\ lost' = 0)
    BY <1>3 DEF AcquireRefused
  <2>2. Unsettled = {} /\ Unsettled' = {}
    <3>1. \A t \in Callers : ctl'[t] # "store" BY <1>a, <2>1, NoStoreUnlocked
    <3> QED BY <2>1, <3>1, NoStoreUnlocked DEF Unsettled
  <2>3. Released' = Reclaimable /\ Released = Reclaimable BY <2>1, <2>2 DEF Released, Reclaimable
  <2>4. CASE ~released
    <3>1. Cardinality(Reclaimable) = lost + Len(freeIdx) BY <2>3, <2>4 DEF AccountInv
    <3>2. lost = 0 BY <1>a, <2>1, <2>4, <3>1, NoneLost
    <3> QED BY <2>1, <2>3, <2>4, <3>1, <3>2 DEF AccountInv
  <2> QED BY <2>1, <2>4 DEF AccountInv
<1>4. ASSUME NEW x \in Callers, PublishState(x) PROVE AccountInv'
  <2> DEFINE s == Idx(hnd[x])
  <2>1. /\ slotPtr' = [slotPtr EXCEPT ![s] = ptr[x]] /\ slotInUse' = [slotInUse EXCEPT ![s] = TRUE]
        /\ ctl[x] = "store" /\ ctl' = [ctl EXCEPT ![x] = "idle"]
        /\ UNCHANGED <<nslots, lost, freeIdx, released, hnd>>
    BY <1>4 DEF PublishState
  <2>2. \A t \in Callers : ctl[t] = "store" <=> t = x
    <3>1. \A t \in Callers : ctl[t] = "store" => wlock = t BY DEF HandleIInv, CreatorInv, Creating
    <3> QED BY <2>1, <3>1
  <2>3. Unsettled = {s} BY <2>2 DEF Unsettled
  <2>4. Unsettled' = {}
    <3>1. \A t \in Callers : ctl'[t] # "store" BY <1>a, <2>1, <2>2
    <3> QED BY <3>1 DEF Unsettled
  <2>5. s \in Slot BY <1>b
  <2> HIDE DEF s
  <2>6. Reclaimable' = Reclaimable \ {s} BY <1>a, <2>1, <2>5 DEF Reclaimable
  <2>7. Released' = Released BY <2>3, <2>4, <2>6 DEF Released
  <2> QED BY <2>1, <2>7, AccountFrame
<1>5. ASSUME NEW x \in Callers, NEW h \in issued, DestroyRetire(x, h) PROVE AccountInv'
  <2>1. Idx(h) \in Slot BY <1>a, HandleParts
  <2>2. /\ slotInUse[Idx(h)] /\ slotInUse' = [slotInUse EXCEPT ![Idx(h)] = FALSE]
        /\ wlock = NoObj /\ ctl' = [ctl EXCEPT ![x] = "scan"]
        /\ UNCHANGED <<slotPtr, nslots, lost, freeIdx, released>>
    BY <1>5 DEF DestroyRetire
  <2>3. slotPtr[Idx(h)] # NoObj BY <2>1, <2>2 DEF HandleIInv, SlotInv
  <2>4. Reclaimable' = Reclaimable BY <1>a, <2>1, <2>2, <2>3 DEF Reclaimable
  <2>5. Unsettled = {} /\ Unsettled' = {}
    <3>1. \A t \in Callers : ctl'[t] # "store" BY <1>a, <2>2, NoStoreUnlocked
    <3> QED BY <2>2, <3>1, NoStoreUnlocked DEF Unsettled
  <2>6. Released' = Released BY <2>4, <2>5 DEF Released
  <2> QED BY <2>2, <2>6, AccountFrame
<1>6. ASSUME NEW x \in Callers, ReleaseSlot(x) PROVE AccountInv'
  <2> DEFINE s == Idx(hnd[x])
  <2>1. /\ slotPtr' = [slotPtr EXCEPT ![s] = NoObj] /\ GiveBack(s, freeIdx)
        /\ ctl[x] = "release" /\ ctl' = [ctl EXCEPT ![x] = "idle"] /\ wlock = NoObj
        /\ released => released'
        /\ UNCHANGED <<slotInUse, nslots, hnd>>
    BY <1>6 DEF ReleaseSlot
  <2>2. ~slotInUse[s] /\ slotPtr[s] = ptr[x] /\ ptr[x] \in Objs BY <2>1 DEF HandleIInv, DestroyerInv, Destroying
  <2>3. s \in Slot BY <1>b
  <2> HIDE DEF s
  <2>4. slotPtr[s] # NoObj /\ s < nslots BY <2>2, <2>3 DEF HandleIInv, SlotInv
  <2>5. Unsettled = {} /\ Unsettled' = {}
    <3>1. \A t \in Callers : ctl'[t] # "store" BY <1>a, <2>1, NoStoreUnlocked
    <3> QED BY <2>1, <3>1, NoStoreUnlocked DEF Unsettled
  <2>6. Reclaimable' = Reclaimable \cup {s} /\ s \notin Reclaimable
    BY <1>a, <2>1, <2>2, <2>3, <2>4 DEF Reclaimable
  <2>7. Released' = Released \cup {s} /\ s \notin Released BY <2>5, <2>6 DEF Released
  <2>8. Cardinality(Released') = Cardinality(Released) + 1 BY <2>7, ReleasedFinite, FS_AddElement
  <2>9. Len(Append(freeIdx, s)) = Len(freeIdx) + 1 BY <1>a, <2>3, AppendProperties
  <2>10. lost' + Len(freeIdx') = lost + Len(freeIdx) + 1
    <3>1. \/ Len(freeIdx') = Len(freeIdx) + 1 /\ lost' = lost
          \/ Len(freeIdx') = Len(freeIdx) /\ lost' = lost + 1
      BY <2>1, <2>9 DEF GiveBack
    <3>2. CASE Len(freeIdx') = Len(freeIdx) + 1 /\ lost' = lost BY <1>a, <3>2
    <3>3. CASE Len(freeIdx') = Len(freeIdx) /\ lost' = lost + 1 BY <1>a, <3>3
    <3> QED BY <3>1, <3>2, <3>3
  <2>11. ~released' => Cardinality(Released) = lost + Len(freeIdx) BY <2>1 DEF AccountInv
  <2> QED BY <2>8, <2>10, <2>11 DEF AccountInv
<1>7. ASSUME NEW x \in Callers,
             \/ \E o \in Objs : Create(x, o)
             \/ \E h \in issued : ResolveCall(x, h)
             \/ Abandon(x)
             \/ PinLookup(x) \/ PinAdd(x) \/ PinRecheck(x) \/ PinLoad(x) \/ PinBackout(x) \/ Unpin(x)
             \/ ScanStripe(x) \/ ScanAgain(x) \/ ScanDone(x) \/ FreeObject(x)
      PROVE  AccountInv'
  <2>1. UNCHANGED <<slotPtr, slotInUse, nslots, lost, freeIdx, released>>
    BY <1>7 DEF Create, ResolveCall, Abandon, PinLookup, PinAdd, PinRecheck, PinLoad, PinBackout,
                Unpin, ScanStripe, ScanAgain, ScanDone, FreeObject, tableVars
  <2>2. \A u \in Callers \ {x} : ctl'[u] = ctl[u] /\ hnd'[u] = hnd[u]
    BY <1>7, <1>a DEF Create, ResolveCall, Abandon, PinLookup, PinAdd, PinRecheck, PinLoad,
                      PinBackout, Unpin, ScanStripe, ScanAgain, ScanDone, FreeObject
  <2>3. ctl[x] # "store" /\ ctl'[x] # "store"
    BY <1>7, <1>a DEF Create, ResolveCall, Abandon, PinLookup, PinAdd, PinRecheck, PinLoad,
                      PinBackout, Unpin, ScanStripe, ScanAgain, ScanDone, FreeObject
  <2>4. Unsettled' = Unsettled
    <3>1. \A u \in Callers : ctl'[u] = "store" <=> ctl[u] = "store" BY <2>2, <2>3
    <3>2. \A u \in Callers : ctl[u] = "store" => hnd'[u] = hnd[u] BY <2>2, <2>3
    <3> QED BY <3>1, <3>2 DEF Unsettled
  <2>5. Released' = Released BY <2>1, <2>4 DEF Released, Reclaimable
  <2> QED BY <2>1, <2>5, AccountFrame
<1>8. CASE ExitCleanup \/ UNCHANGED handleVars
  <2>1. UNCHANGED <<slotPtr, slotInUse, nslots, lost, freeIdx, ctl, hnd>> /\ (~released' => ~released)
    BY <1>8 DEF ExitCleanup, handleVars, tableVars, threadVars
  <2>2. Released' = Released BY <2>1 DEF Released, Reclaimable, Unsettled
  <2> QED BY <2>1, <2>2, AccountFrame
<1> QED BY <1>1, <1>2, <1>3, <1>4, <1>5, <1>6, <1>7, <1>8 DEF HandleNext, Progress

LEMMA IndexInit == HandleInit => GenInv /\ AccountInv
<1> SUFFICES ASSUME HandleInit PROVE GenInv /\ AccountInv OBVIOUS
<1>1. GenInv BY DEF HandleInit, GenInv, Using
<1>2. Released = {} BY DEF HandleInit, Released, Reclaimable, Slot
<1>3. lost = 0 /\ Len(freeIdx) = 0 BY DEF HandleInit
<1> QED BY <1>1, <1>2, <1>3, FS_EmptySet DEF AccountInv

LEMMA IndexInvariance == HandleSpec => [](HandleIInv /\ GenInv /\ AccountInv)
BY HandleInvInit, InvStep, IndexInit, GenStep, AccountStep, PTL DEF HandleSpec

\* A resolve hands out the object whose own handle it was asked for, and
\* between locked sections every released index is on the free list once or
\* counted in lost_indices: for any number of threads and slots, also when
\* pushes onto the free list fail and when generations wrap.
THEOREM HandlesAndIndicesSound == HandleSpec => []IndicesSound
<1>1. HandleIInv /\ GenInv => ResolvesToOwnObject
  <2> SUFFICES ASSUME HandleIInv, GenInv, NEW t \in Callers, ctl[t] = "use" PROVE self[ptr[t]] = hnd[t]
    BY DEF ResolvesToOwnObject
  <2> DEFINE s == Idx(hnd[t])
  <2>1. s \in Slot /\ ptr[t] \in Objs /\ Idx(self[ptr[t]]) = s BY SelfSlot
  <2>2. slotPtr[s] = ptr[t]
    <3>1. ptr[t] = pinPtr[s] BY DEF HandleIInv, UserInv, Using
    <3>2. CASE slotInUse[s] BY <2>1, <3>1, <3>2 DEF HandleIInv, SlotInv
    <3>3. CASE ~slotInUse[s]
      <4>1. PICK d \in Callers : NotPassed(d, t) BY <3>3 DEF HandleIInv, UserInv, Using
      <4> QED BY <3>1, <4>1 DEF HandleIInv, DestroyerInv, Destroying, NotPassed
    <3> QED BY <3>2, <3>3
  <2>3. slotPtr[s] # NoObj BY <2>1, <2>2
  <2>4. GenOf(self[ptr[t]]) = slotGen[s] /\ GenOf(hnd[t]) = slotGen[s] BY <2>1, <2>2, <2>3 DEF GenInv, Using
  <2>5. self[ptr[t]] \in Handle /\ hnd[t] \in Handle BY <2>1, <2>2, <2>3 DEF HandleIInv, HandleTypeOK, SlotInv
  <2>6. Idx(self[ptr[t]]) = Idx(hnd[t]) /\ GenOf(self[ptr[t]]) = GenOf(hnd[t]) BY <2>1, <2>4
  <2> HIDE DEF s
  <2> QED BY <2>5, <2>6 DEF Handle, Idx, GenOf
<1>2. HandleIInv /\ AccountInv => IndexAccounting
  <2> SUFFICES ASSUME HandleIInv, AccountInv, wlock = NoObj, ~released
               PROVE  LET listed == {freeIdx[i] : i \in DOMAIN freeIdx} IN
                      /\ Cardinality(listed) = Len(freeIdx)
                      /\ listed \subseteq Reclaimable
                      /\ lost = Cardinality(Reclaimable) - Len(freeIdx)
    BY DEF IndexAccounting
  <2>1. freeIdx \in Seq(Slot) /\ Len(freeIdx) \in Nat /\ lost \in Nat /\ DOMAIN freeIdx = 1 .. Len(freeIdx)
    BY LenProperties DEF HandleIInv, HandleTypeOK
  <2>2. {freeIdx[i] : i \in DOMAIN freeIdx} = Elems(freeIdx) BY <2>1 DEF Elems
  <2>3. Distinct(freeIdx) BY <2>1 DEF HandleIInv, FreeInv, Distinct
  <2>4. Cardinality(Elems(freeIdx)) = Len(freeIdx) BY <2>1, <2>3, DistinctCard
  <2>5. Elems(freeIdx) \subseteq Reclaimable
    <3>1. \A i \in 1 .. Len(freeIdx) : freeIdx[i] \in Slot BY <2>1
    <3> QED BY <2>1, <3>1 DEF HandleIInv, FreeInv, Elems, Reclaimable
  <2>6. Cardinality(Reclaimable) = lost + Len(freeIdx)
    <3>1. Released = Reclaimable BY NoStoreUnlocked DEF Released
    <3> QED BY <3>1 DEF AccountInv
  <2>7. lost = Cardinality(Reclaimable) - Len(freeIdx) BY <2>1, <2>6
  <2> QED BY <2>2, <2>4, <2>5, <2>7
<1>3. HandleIInv /\ GenInv /\ AccountInv => IndicesSound BY <1>1, <1>2 DEF IndicesSound
<1> QED BY <1>3, IndexInvariance, PTL
=============================================================================
