------------------------------- MODULE Future -------------------------------
(***************************************************************************)
(* One cthrpool_future_t (src/src/cthreadpool.c): the reference count that *)
(* the submitting caller, the producer and every get in progress share,    *)
(* the completion and its broadcast, and the destruction by whoever drops  *)
(* the last reference.                                                     *)
(*                                                                         *)
(* A section under f->mu is one step; the destruction after the unlock is  *)
(* a step of its own.  The producer of a pool-backed future is the worker  *)
(* that runs the task or the shutdown that cancels it, whichever got the   *)
(* task (ThreadPool shows it is one of them); the producers of a detached  *)
(* future are callers of cthrpool_future_fulfill.                          *)
(***************************************************************************)
EXTENDS Integers, FiniteSets

CONSTANTS
  Getters,     \* threads that call cthrpool_future_get, each once
  Producers,   \* threads that complete, cancel or fulfill
  Owner,       \* the thread that gets the handle and frees it
  Results,     \* values a producer delivers
  Null,        \* the result of a cancelled task
  ClaimFirst   \* the owner frees only when no get is short of its reference

ASSUME FutureAssumption ==
  /\ IsFiniteSet(Getters) /\ IsFiniteSet(Producers)
  /\ Getters \cap Producers = {} /\ Owner \notin Getters \cup Producers
  /\ Null \notin Results
  /\ ClaimFirst \in BOOLEAN

Parties == Getters \cup Producers \cup {Owner}

VARIABLES
  life,        \* the block: "none", "live", "freed"
  kind,        \* "task" or "detached"
  ref,         \* refcount
  done, cancelled, result,
  pending,     \* the producer's reference has not been given up
  at,          \* control of each thread
  waiting,     \* getters inside pthread_cond_wait on f->cv
  got          \* what each get returned

stateVars == <<done, cancelled, result>>
futureVars == <<life, kind, ref, stateVars, pending, at, waiting, got>>

FutureInit ==
  /\ life = "none" /\ kind = "task" /\ ref = 0
  /\ done = FALSE /\ cancelled = FALSE /\ result = Null
  /\ pending = FALSE
  /\ at = [t \in Parties |-> "start"]
  /\ waiting = {}
  /\ got = [g \in Getters |-> Null]

Moves(t, from, to) == at[t] = from /\ at' = [at EXCEPT ![t] = to]

\* Mutant: the last reference is never turned into a destruction.
AfterDrop_Leaks(remaining) == "end"

\* The unlock after a decrement: whoever saw zero destroys the future.
AfterDrop(remaining) == IF remaining = 0 THEN "destroy" ELSE "end"

-----------------------------------------------------------------------------

\* cthrpool_future_create_detached.
CreateDetached ==
  /\ Moves(Owner, "start", "holds")
  /\ life' = "live" /\ kind' = "detached" /\ ref' = 2 /\ pending' = TRUE
  /\ UNCHANGED <<stateVars, waiting, got>>

\* submit_future_alloc, before the submit.
SubmitAlloc ==
  /\ Moves(Owner, "start", "submitting")
  /\ life' = "live" /\ kind' = "task" /\ ref' = 2
  /\ UNCHANGED <<stateVars, pending, waiting, got>>

\* The task is queued with the future in it, and the handle returned.
SubmitAccepted ==
  /\ Moves(Owner, "submitting", "holds")
  /\ pending' = TRUE
  /\ UNCHANGED <<life, kind, ref, stateVars, waiting, got>>

\* The submit fails: submit_future_discard frees the future nobody has seen.
SubmitDiscards ==
  /\ Moves(Owner, "submitting", "end")
  /\ life' = "freed"
  /\ UNCHANGED <<kind, ref, stateVars, pending, waiting, got>>

\* cthrpool_future_free.  Documented as fine while other threads are inside
\* cthrpool_future_get.
Free ==
  /\ ClaimFirst => \A g \in Getters : at[g] # "entered"
  /\ at[Owner] = "holds"
  /\ ref' = ref - 1
  /\ at' = [at EXCEPT ![Owner] = AfterDrop(ref')]
  /\ UNCHANGED <<life, kind, stateVars, pending, waiting, got>>

-----------------------------------------------------------------------------

\* The worker stores the result of the task function, or the shutdown cancels.
TaskEnds(p) ==
  /\ kind = "task" /\ pending /\ at[p] = "start"
  /\ \/ result' \in Results /\ UNCHANGED cancelled
     \/ cancelled' = TRUE /\ UNCHANGED result
  /\ done' = TRUE
  /\ waiting' = {}
  /\ pending' = FALSE
  /\ ref' = ref - 1
  /\ at' = [at EXCEPT ![p] = AfterDrop(ref')]
  /\ UNCHANGED <<life, kind, got>>

\* cthrpool_future_fulfill.  A call that comes second is refused; it may come
\* only while the handle is still held.
Fulfill(p) ==
  /\ kind = "detached" /\ at[p] = "start"
  /\ pending \/ at[Owner] = "holds"
  /\ IF done
     THEN /\ at' = [at EXCEPT ![p] = "end"]
          /\ UNCHANGED <<ref, stateVars, pending, waiting>>
     ELSE /\ result' \in Results
          /\ done' = TRUE
          /\ waiting' = {}
          /\ pending' = FALSE
          /\ ref' = ref - 1
          /\ at' = [at EXCEPT ![p] = AfterDrop(ref')]
          /\ UNCHANGED cancelled
  /\ UNCHANGED <<life, kind, got>>

-----------------------------------------------------------------------------

\* A thread calls cthrpool_future_get on a handle that is held.
GetCall(g) ==
  /\ at[Owner] = "holds"
  /\ Moves(g, "start", "entered")
  /\ UNCHANGED <<life, kind, ref, stateVars, pending, waiting, got>>

\* Mutant: a waiter takes no reference of its own.
GetEnters_NoReference(g) ==
  /\ Moves(g, "entered", "on_cv")
  /\ waiting' = IF done THEN waiting ELSE waiting \cup {g}
  /\ UNCHANGED <<life, kind, ref, stateVars, pending, got>>

\* First section of get: take a reference, then sleep unless done.
GetEnters(g) ==
  /\ Moves(g, "entered", "on_cv")
  /\ ref' = ref + 1
  /\ waiting' = IF done THEN waiting ELSE waiting \cup {g}
  /\ UNCHANGED <<life, kind, stateVars, pending, got>>

\* Mutant: the wait is an if, not a while.
GetReturns_NoLoop(g) ==
  /\ at[g] = "on_cv" /\ g \notin waiting
  /\ got' = [got EXCEPT ![g] = result]
  /\ ref' = ref - 1
  /\ at' = [at EXCEPT ![g] = AfterDrop(ref')]
  /\ UNCHANGED <<life, kind, stateVars, pending, waiting>>

\* The wait is over and the future done: read the result, drop the reference.
GetReturns(g) ==
  /\ at[g] = "on_cv" /\ g \notin waiting /\ done
  /\ got' = [got EXCEPT ![g] = result]
  /\ ref' = ref - 1
  /\ at' = [at EXCEPT ![g] = AfterDrop(ref')]
  /\ UNCHANGED <<life, kind, stateVars, pending, waiting>>

\* The wait is over and the future is not done: wait again.
GetSleepsAgain(g) ==
  /\ at[g] = "on_cv" /\ g \notin waiting /\ ~done
  /\ waiting' = waiting \cup {g}
  /\ UNCHANGED <<life, kind, ref, stateVars, pending, at, got>>

GetWakesSpuriously(g) ==
  /\ g \in waiting
  /\ waiting' = waiting \ {g}
  /\ UNCHANGED <<life, kind, ref, stateVars, pending, at, got>>

\* future_destroy_if_unreferenced with remaining = 0.
Destroy(t) ==
  /\ Moves(t, "destroy", "end")
  /\ life' = "freed"
  /\ UNCHANGED <<kind, ref, stateVars, pending, waiting, got>>

-----------------------------------------------------------------------------

OwnerStep == CreateDetached \/ SubmitAlloc \/ SubmitAccepted \/ SubmitDiscards \/ Free
Produce(p) == TaskEnds(p) \/ Fulfill(p)
Get(g) == GetEnters(g) \/ GetReturns(g) \/ GetSleepsAgain(g)

FutureNext ==
  \/ OwnerStep
  \/ \E p \in Producers : Produce(p)
  \/ \E g \in Getters : GetCall(g) \/ Get(g) \/ GetWakesSpuriously(g)
  \/ \E t \in Parties : Destroy(t)

FutureSpec == FutureInit /\ [][FutureNext]_futureVars

\* The owner frees what it got, one producer delivers, and a get once called
\* keeps running.  The gets themselves need not be called.
FutureFairSpec ==
  /\ FutureSpec
  /\ WF_futureVars(OwnerStep)
  /\ WF_futureVars(\E p \in Producers : Produce(p))
  /\ \A g \in Getters : WF_futureVars(Get(g))
  /\ \A t \in Parties : WF_futureVars(Destroy(t))

-----------------------------------------------------------------------------
(* Properties.                                                             *)

FutureTypeOK ==
  /\ life \in {"none", "live", "freed"} /\ kind \in {"task", "detached"}
  /\ ref \in Nat
  /\ done \in BOOLEAN /\ cancelled \in BOOLEAN /\ pending \in BOOLEAN
  /\ result \in Results \cup {Null}
  /\ at \in [Parties -> {"start", "submitting", "holds", "entered", "on_cv", "destroy", "end"}]
  /\ waiting \subseteq Getters
  /\ got \in [Getters -> Results \cup {Null}]

\* A thread whose next step touches the future.
Touching(t) ==
  \/ at[t] \in {"submitting", "holds", "entered", "on_cv", "destroy"}
  \/ t \in Producers /\ at[t] = "start" /\ pending

\* No thread that still has something to do with the future finds it freed:
\* neither a get that sleeps in f->cv, nor the producer after an early free,
\* nor a second destruction.
NoUseAfterFree == \A t \in Parties : Touching(t) => life = "live"

\* All the gets of one future return the same value, the one delivered, and
\* none returns before the future is done.
SameResult ==
  /\ \A g \in Getters : at[g] \in {"destroy", "end"} => done /\ got[g] = result
  /\ cancelled => result = Null

\* A delivered result never changes: no second producer gets through.
ResultStable == [][done => done' /\ result' = result /\ cancelled' = cancelled]_futureVars

\* Once the owner has freed the handle the future's memory is given back, in
\* whatever order owner, producer and gets leave.
EventuallyFreed == life = "live" ~> life = "freed"

\* Every get returns: the completion's broadcast reaches each waiter.
GetsReturn == \A g \in Getters : at[g] = "entered" ~> at[g] = "end"

\* Nothing is left waiting or allocated.
FutureSettles == GetsReturn /\ EventuallyFreed
=============================================================================
