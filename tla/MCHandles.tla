----------------------------- MODULE MCHandles -----------------------------
(* Small instances of HandleTable and Future: the two lock-free or         *)
(* reference-counted ways an object outlives its users.  One of them is    *)
(* explored at a time; the other stays as it was created.                  *)
EXTENDS HandleTable, Future, TLC

CONSTANTS t1, t2

VARIABLE part    \* which of the two is explored

allVars == <<part, handleVars, futureVars>>

\* Each thread has its own stripe, so a scan can pass one and miss the other.
StripesFor2 == (t1 :> 0) @@ (t2 :> 1)

HInit == part \in {"table", "future"} /\ HandleInit /\ FutureInit

OnTable(A) == part = "table" /\ A /\ UNCHANGED <<part, futureVars>>
OnFuture(A) == part = "future" /\ A /\ UNCHANGED <<part, handleVars>>

HNext == OnTable(HandleNext) \/ OnFuture(FutureNext)

\* The fairness of HandleFairSpec and FutureFairSpec, each for its own part.
HFairSpec ==
  /\ HInit /\ [][HNext]_allVars
  /\ \A t \in Callers : WF_allVars(OnTable(Progress(t)))
  /\ WF_allVars(OnFuture(OwnerStep))
  /\ WF_allVars(OnFuture(\E p \in Producers : Produce(p)))
  /\ \A g \in Getters : WF_allVars(OnFuture(Get(g)))
  /\ \A t \in Parties : WF_allVars(OnFuture(Destroy(t)))
=============================================================================
