----------------------------- MODULE ThreadPool -----------------------------
(***************************************************************************)
(* One thread pool (src/src/cthreadpool.c): its workers, the bounded task  *)
(* queue, the four condition variables under pool->mu, the three submit    *)
(* modes, cthrpool_wait, the two shutdowns with the escalation from drain  *)
(* to immediate, and destroy.                                              *)
(*                                                                         *)
(* A section between a lock and the next unlock or condition wait is one   *)
(* step.  A thread in a condition wait is in asleep until a signal, a      *)
(* broadcast, a timeout or a spurious wake-up takes it out; it then locks  *)
(* again and re-evaluates its loop.  User code (the task function, the     *)
(* completion callbacks, the allocator) runs between steps, without the    *)
(* lock.  A task function may submit to its own pool.                      *)
(*                                                                         *)
(* The free list of task nodes is left to its answer: a pop finds a node   *)
(* or it does not.                                                         *)
(***************************************************************************)
EXTENDS Integers, FiniteSets, Sequences

CONSTANTS
  Workers,     \* pool->threads
  Clients,     \* other threads that call the pool
  MaxTasks,    \* submit calls a run may make
  Cap,         \* queue_cap, 0 for unbounded
  Modes,       \* the submit modes callers use: "block", "try", "timed"
  Nesting      \* task functions submit to their own pool

ASSUME PoolAssumption ==
  /\ IsFiniteSet(Workers) /\ Workers # {} /\ IsFiniteSet(Clients)
  /\ Workers \cap Clients = {}
  /\ Cap \in Nat
  /\ Modes \subseteq {"block", "try", "timed"}
  /\ Nesting \in BOOLEAN
  /\ MaxTasks \in Nat

Threads == Workers \cup Clients

\* A task is the number of its submit call; 0 stands for no task.
Tasks == 1 .. MaxTasks
None == 0

VARIABLES
  queue,       \* head ... tail, waiting tasks
  active,      \* active_count
  drain, immediate, started, complete,   \* the shutdown flags
  live,        \* the handle resolves
  freed,       \* pool_free_self has run
  pc,          \* control of each thread
  asleep,      \* threads inside pthread_cond_(timed)wait
  cur,         \* worker -> the task whose function it runs
  sub, mode, spare,   \* thread -> task being submitted, how, spare node in hand
  list,        \* thread -> stolen tasks it still has to discard
  destroying,  \* thread -> its shutdown belongs to a destroy
  status,      \* task -> what its submit call has said
  outcome      \* task -> on_complete's flag (or future done/cancelled)

flagVars == <<drain, immediate, started, complete>>
subVars  == <<sub, mode, spare>>
vars == <<queue, active, flagVars, live, freed, pc, asleep, cur, subVars, list,
          destroying, status, outcome>>

WorkerPc == {"loop", "on_not_empty", "run", "finish", "exited"}
SubmitPc == {"submit", "on_not_full", "alloc", "enomem"}
ClientPc == {"idle", "wait", "on_idle", "drain", "immediate", "discard", "escalate",
             "join", "mark", "on_shutdown", "pins"}

Init ==
  /\ queue = <<>> /\ active = 0
  /\ drain = FALSE /\ immediate = FALSE /\ started = FALSE /\ complete = FALSE
  /\ live = TRUE /\ freed = FALSE
  /\ pc = [t \in Threads |-> IF t \in Workers THEN "loop" ELSE "idle"]
  /\ asleep = {}
  /\ cur = [w \in Workers |-> None]
  /\ sub = [t \in Threads |-> None]
  /\ mode = [t \in Threads |-> "block"]
  /\ spare = [t \in Threads |-> FALSE]
  /\ list = [c \in Clients |-> <<>>]
  /\ destroying = [c \in Clients |-> FALSE]
  /\ status = [k \in Tasks |-> "new"]
  /\ outcome = [k \in Tasks |-> "none"]

-----------------------------------------------------------------------------
(* Condition variables.                                                    *)

On(cv) == {t \in asleep : pc[t] = cv}

\* What asleep may become after one signal, and after broadcasts.
Signalled(cv) == IF On(cv) = {} THEN {asleep} ELSE {asleep \ {t} : t \in On(cv)}
Broadcast(cvs) == {t \in asleep : pc[t] \notin cvs}

\* A thread at the top of a section: it comes from outside, or a wait it
\* returned from goes round its loop.
At(t, entry, cv) == pc[t] = entry \/ (pc[t] = cv /\ t \notin asleep)

Goto(t, to) == pc' = [pc EXCEPT ![t] = to]

\* pthread_cond_wait: give the lock up and sleep.
Sleep(t, cv) == Goto(t, cv) /\ asleep' = asleep \cup {t}

Stopping == drain \/ immediate
Full == Cap > 0 /\ Len(queue) >= Cap

-----------------------------------------------------------------------------
(* submit_generic and submit_future_generic.                               *)

\* A client submits through the handle; a task function through the pool it
\* runs on.
SubmitCall(t, k, m) ==
  /\ status[k] = "new" /\ \A j \in Tasks : j < k => status[j] # "new"
  /\ \/ t \in Clients /\ live /\ pc[t] = "idle"
     \/ t \in Workers /\ Nesting /\ live /\ pc[t] = "run"
  /\ status' = [status EXCEPT ![k] = "submitting"]
  /\ sub' = [sub EXCEPT ![t] = k]
  /\ mode' = [mode EXCEPT ![t] = m]
  /\ Goto(t, "submit")
  /\ UNCHANGED <<queue, active, flagVars, live, freed, asleep, cur, spare, list, destroying, outcome>>

\* The submit call returns with answer s; the spare node is freed.
SubmitReturns(t, s) ==
  /\ Goto(t, IF t \in Workers THEN "run" ELSE "idle")
  /\ status' = [status EXCEPT ![sub[t]] = s]
  /\ sub' = [sub EXCEPT ![t] = None]
  /\ spare' = [spare EXCEPT ![t] = FALSE]
  /\ UNCHANGED mode

\* submit_wait_for_room_locked refuses: the pool is shutting down, or it is
\* full and the caller may not wait (a try, or one of the pool's own workers).
SubmitRefused(t) ==
  /\ At(t, "submit", "on_not_full")
  /\ Stopping \/ (Full /\ (mode[t] = "try" \/ t \in Workers))
  /\ SubmitReturns(t, "refused")
  /\ UNCHANGED <<queue, active, flagVars, live, freed, asleep, cur, list, destroying, outcome>>

SubmitWaits(t) ==
  /\ At(t, "submit", "on_not_full")
  /\ ~Stopping /\ Full /\ mode[t] # "try" /\ t \notin Workers
  /\ Sleep(t, "on_not_full")
  /\ UNCHANGED <<queue, active, flagVars, live, freed, cur, subVars, list, destroying, status, outcome>>

\* The deadline passes.  The call fails only if there is still no room and no
\* shutdown; otherwise the loop ends the way a wake-up would end it.
SubmitTimesOut(t) ==
  /\ pc[t] = "on_not_full" /\ mode[t] = "timed"
  /\ ~Stopping /\ Full
  /\ asleep' = asleep \ {t}
  /\ SubmitReturns(t, "refused")
  /\ UNCHANGED <<queue, active, flagVars, live, freed, cur, list, destroying, outcome>>

\* Mutant: after the allocation the shutdown flags are not looked at again.
SubmitEnqueues_IgnoresShutdown(t) ==
  /\ At(t, "submit", "on_not_full")
  /\ (~Stopping \/ spare[t]) /\ ~Full
  /\ queue' = Append(queue, sub[t])
  /\ asleep' \in Signalled("on_not_empty")
  /\ SubmitReturns(t, "accepted")
  /\ UNCHANGED <<active, flagVars, live, freed, cur, list, destroying, outcome>>

\* Room and a task node, from the free list or in hand: enqueue and signal.
SubmitEnqueues(t) ==
  /\ At(t, "submit", "on_not_full")
  /\ ~Stopping /\ ~Full
  /\ queue' = Append(queue, sub[t])
  /\ asleep' \in Signalled("on_not_empty")
  /\ SubmitReturns(t, "accepted")
  /\ UNCHANGED <<active, flagVars, live, freed, cur, list, destroying, outcome>>

\* Room and no node: unlock to allocate one.
SubmitNeedsNode(t) ==
  /\ At(t, "submit", "on_not_full")
  /\ ~Stopping /\ ~Full /\ ~spare[t]
  /\ Goto(t, "alloc")
  /\ UNCHANGED <<queue, active, flagVars, live, freed, asleep, cur, subVars, list, destroying, status, outcome>>

\* The allocation succeeds, and the section starts over with a spare node, or
\* fails.
SubmitAllocates(t) ==
  /\ pc[t] = "alloc"
  /\ \/ Goto(t, "submit") /\ spare' = [spare EXCEPT ![t] = TRUE]
     \/ Goto(t, "enomem") /\ UNCHANGED spare
  /\ UNCHANGED <<queue, active, flagVars, live, freed, asleep, cur, sub, mode, list, destroying, status, outcome>>

\* Mutant: a failed allocation keeps the wake-up it used up.
SubmitOutOfMemory_NoSignal(t) ==
  /\ pc[t] = "enomem"
  /\ SubmitReturns(t, "refused")
  /\ UNCHANGED <<queue, active, flagVars, live, freed, asleep, cur, list, destroying, outcome>>

\* Out of memory: hand on the wake-up this call may have used up.
SubmitOutOfMemory(t) ==
  /\ pc[t] = "enomem"
  /\ asleep' \in Signalled("on_not_full")
  /\ SubmitReturns(t, "refused")
  /\ UNCHANGED <<queue, active, flagVars, live, freed, cur, list, destroying, outcome>>

Submit(t) ==
  \/ SubmitRefused(t) \/ SubmitWaits(t) \/ SubmitEnqueues(t)
  \/ SubmitNeedsNode(t) \/ SubmitAllocates(t) \/ SubmitOutOfMemory(t)

-----------------------------------------------------------------------------
(* worker_thread_fn.                                                       *)

WorkerSleeps(w) ==
  /\ At(w, "loop", "on_not_empty")
  /\ queue = <<>> /\ ~Stopping
  /\ Sleep(w, "on_not_empty")
  /\ UNCHANGED <<queue, active, flagVars, live, freed, cur, subVars, list, destroying, status, outcome>>

WorkerExits(w) ==
  /\ At(w, "loop", "on_not_empty")
  /\ immediate \/ (drain /\ queue = <<>>)
  /\ Goto(w, "exited")
  /\ UNCHANGED <<queue, active, flagVars, live, freed, asleep, cur, subVars, list, destroying, status, outcome>>

\* dequeue, count the task as active and let a blocked submitter in.
WorkerTakes(w) ==
  /\ At(w, "loop", "on_not_empty")
  /\ queue # <<>> /\ ~immediate
  /\ cur' = [cur EXCEPT ![w] = Head(queue)]
  /\ queue' = Tail(queue)
  /\ active' = active + 1
  /\ IF Cap > 0 THEN asleep' \in Signalled("on_not_full") ELSE UNCHANGED asleep
  /\ Goto(w, "run")
  /\ UNCHANGED <<flagVars, live, freed, subVars, list, destroying, status, outcome>>

\* The task function returns and on_complete(arg, true) runs, or the future is
\* fulfilled.
WorkerCompletes(w) ==
  /\ pc[w] = "run"
  /\ outcome' = [outcome EXCEPT ![cur[w]] = "ran"]
  /\ cur' = [cur EXCEPT ![w] = None]
  /\ Goto(w, "finish")
  /\ UNCHANGED <<queue, active, flagVars, live, freed, asleep, subVars, list, destroying, status>>

WorkerFinishes(w) ==
  /\ pc[w] = "finish"
  /\ active' = active - 1
  /\ asleep' = IF active' = 0 /\ queue = <<>> THEN Broadcast({"on_idle"}) ELSE asleep
  /\ Goto(w, "loop")
  /\ UNCHANGED <<queue, flagVars, live, freed, cur, subVars, list, destroying, status, outcome>>

Worker(w) ==
  WorkerSleeps(w) \/ WorkerExits(w) \/ WorkerTakes(w) \/ WorkerCompletes(w) \/ WorkerFinishes(w)

-----------------------------------------------------------------------------
(* cthrpool_wait, the shutdowns and destroy.  From a worker of the pool and  *)
(* from a discard callback the first three return at once, and destroy is a  *)
(* fatal error.                                                              *)

Call(c, entry) ==
  /\ live /\ pc[c] = "idle"
  /\ Goto(c, entry)
  /\ UNCHANGED <<queue, active, flagVars, live, freed, asleep, cur, subVars, list, destroying, status, outcome>>

\* Mutant: only the queue is looked at, not the tasks being run.
Wait_QueueOnly(c) ==
  /\ At(c, "wait", "on_idle")
  /\ IF queue # <<>>
     THEN Sleep(c, "on_idle")
     ELSE Goto(c, "idle") /\ UNCHANGED asleep
  /\ UNCHANGED <<queue, active, flagVars, live, freed, cur, subVars, list, destroying, status, outcome>>

Wait(c) ==
  /\ At(c, "wait", "on_idle")
  /\ IF active > 0 \/ queue # <<>>
     THEN Sleep(c, "on_idle")
     ELSE Goto(c, "idle") /\ UNCHANGED asleep
  /\ UNCHANGED <<queue, active, flagVars, live, freed, cur, subVars, list, destroying, status, outcome>>

\* A shutdown returns to its caller, or to the destroy it is part of.
AfterShutdown(c) == IF destroying[c] THEN "pins" ELSE "idle"

\* The tail of both shutdowns for a call that did not start it.
AwaitComplete(c, woken) ==
  IF complete
  THEN Goto(c, AfterShutdown(c)) /\ asleep' = woken
  ELSE Goto(c, "on_shutdown") /\ asleep' = woken \cup {c}

ShutdownWait(c) ==
  /\ pc[c] = "on_shutdown" /\ c \notin asleep
  /\ AwaitComplete(c, asleep)
  /\ UNCHANGED <<queue, active, flagVars, live, freed, cur, subVars, list, destroying, status, outcome>>

\* _cthrpool_shutdown_drain_internal up to the joins.
ShutdownDrain(c) ==
  /\ pc[c] = "drain"
  /\ IF started
     THEN AwaitComplete(c, asleep) /\ UNCHANGED flagVars
     ELSE /\ drain' = TRUE /\ started' = TRUE
          /\ asleep' = Broadcast({"on_not_empty", "on_not_full"})
          /\ Goto(c, "join")
          /\ UNCHANGED <<immediate, complete>>
  /\ UNCHANGED <<queue, active, live, freed, cur, subVars, list, destroying, status, outcome>>

\* Mutant: the tasks are listed for the discard and left in the queue.
ShutdownImmediate_KeepsQueue(c) ==
  /\ pc[c] = "immediate"
  /\ IF started /\ immediate
     THEN AwaitComplete(c, asleep) /\ UNCHANGED <<flagVars, list>>
     ELSE /\ immediate' = TRUE /\ started' = TRUE
          /\ list' = [list EXCEPT ![c] = queue]
          /\ Goto(c, IF started THEN "escalate" ELSE "discard")
          /\ UNCHANGED <<drain, complete, asleep>>
  /\ UNCHANGED <<queue, active, live, freed, cur, subVars, destroying, status, outcome>>

\* _cthrpool_shutdown_immediate_internal up to the unlock before the discard.
ShutdownImmediate(c) ==
  /\ pc[c] = "immediate"
  /\ IF started /\ immediate
     THEN AwaitComplete(c, asleep) /\ UNCHANGED <<flagVars, queue, list>>
     ELSE /\ immediate' = TRUE /\ started' = TRUE
          /\ list' = [list EXCEPT ![c] = queue]
          /\ queue' = <<>>
          /\ Goto(c, IF started THEN "escalate" ELSE "discard")
          /\ UNCHANGED <<drain, complete, asleep>>
  /\ UNCHANGED <<active, live, freed, cur, subVars, destroying, status, outcome>>

\* _cthrpool_discard_tasks: on_complete(arg, false), or the future is cancelled.
Discard(c) ==
  /\ pc[c] \in {"discard", "escalate"} /\ list[c] # <<>>
  /\ outcome' = [outcome EXCEPT ![Head(list[c])] = "discarded"]
  /\ list' = [list EXCEPT ![c] = Tail(@)]
  /\ UNCHANGED <<queue, active, flagVars, live, freed, pc, asleep, cur, subVars, destroying, status>>

\* Lock again and wake everybody the flags concern.
DiscardDone(c) ==
  LET woken == Broadcast({"on_not_empty", "on_not_full"} \cup (IF active = 0 THEN {"on_idle"} ELSE {}))
  IN
  /\ pc[c] \in {"discard", "escalate"} /\ list[c] = <<>>
  /\ IF pc[c] = "escalate"
     THEN AwaitComplete(c, woken)
     ELSE Goto(c, "join") /\ asleep' = woken
  /\ UNCHANGED <<queue, active, flagVars, live, freed, cur, subVars, list, destroying, status, outcome>>

\* The joins return when every worker has exited.
Join(c) ==
  /\ pc[c] = "join"
  /\ \A w \in Workers : pc[w] = "exited"
  /\ Goto(c, "mark")
  /\ UNCHANGED <<queue, active, flagVars, live, freed, asleep, cur, subVars, list, destroying, status, outcome>>

\* _cthrpool_mark_shutdown_complete.
MarkComplete(c) ==
  /\ pc[c] = "mark"
  /\ complete' = TRUE
  /\ asleep' = Broadcast({"on_shutdown"})
  /\ Goto(c, AfterShutdown(c))
  /\ UNCHANGED <<queue, active, drain, immediate, started, live, freed, cur, subVars, list, destroying, status, outcome>>

\* __cthrpool_destroy retires the handle and shuts the pool down.
DestroyCall(c) ==
  /\ live /\ pc[c] = "idle"
  /\ live' = FALSE
  /\ destroying' = [destroying EXCEPT ![c] = TRUE]
  /\ Goto(c, "drain")
  /\ UNCHANGED <<queue, active, flagVars, freed, asleep, cur, subVars, list, status, outcome>>

\* A call that resolved the handle holds a pin until it returns.
Pinning(t) == /\ t \in Clients => pc[t] # "idle" /\ ~destroying[t]
              /\ t \in Workers => pc[t] \in SubmitPc

\* _cthrpool_wait_for_pins, then the pool is freed.
DestroyFrees(c) ==
  /\ pc[c] = "pins"
  /\ \A t \in Threads : ~Pinning(t)
  /\ freed' = TRUE
  /\ Goto(c, "idle")
  /\ UNCHANGED <<queue, active, flagVars, live, asleep, cur, subVars, list, destroying, status, outcome>>

Client(c) ==
  \/ Wait(c) \/ ShutdownWait(c) \/ ShutdownDrain(c) \/ ShutdownImmediate(c)
  \/ Discard(c) \/ DiscardDone(c) \/ Join(c) \/ MarkComplete(c) \/ DestroyFrees(c)

-----------------------------------------------------------------------------

\* POSIX lets a condition wait return unprovoked.
SpuriousWakeup(t) ==
  /\ t \in asleep
  /\ asleep' = asleep \ {t}
  /\ UNCHANGED <<queue, active, flagVars, live, freed, pc, cur, subVars, list, destroying, status, outcome>>

Next ==
  \/ \E t \in Threads : \/ \E k \in Tasks, m \in Modes : SubmitCall(t, k, m)
                        \/ Submit(t) \/ SubmitTimesOut(t) \/ SpuriousWakeup(t)
  \/ \E w \in Workers : Worker(w)
  \/ \E c \in Clients : \/ Call(c, "wait") \/ Call(c, "drain") \/ Call(c, "immediate")
                        \/ DestroyCall(c) \/ Client(c)

Spec == Init /\ [][Next]_vars

-----------------------------------------------------------------------------
(* Properties.                                                             *)

\* The queue never exceeds queue_cap, although submit gives the lock up to
\* allocate between finding room and enqueueing.
TypeOK ==
  /\ queue \in Seq(Tasks) /\ (Cap > 0 => Len(queue) <= Cap)
  /\ active \in 0 .. Cardinality(Workers)
  /\ <<drain, immediate, started, complete, live, freed>> \in
       BOOLEAN \X BOOLEAN \X BOOLEAN \X BOOLEAN \X BOOLEAN \X BOOLEAN
  /\ pc \in [Threads -> WorkerPc \cup SubmitPc \cup ClientPc]
  /\ asleep \subseteq Threads
  /\ cur \in [Workers -> Tasks \cup {None}]
  /\ sub \in [Threads -> Tasks \cup {None}]
  /\ mode \in [Threads -> {"block", "try", "timed"}]
  /\ spare \in [Threads -> BOOLEAN]
  /\ list \in [Clients -> Seq(Tasks)]
  /\ destroying \in [Clients -> BOOLEAN]
  /\ status \in [Tasks -> {"new", "submitting", "accepted", "refused"}]
  /\ outcome \in [Tasks -> {"none", "ran", "discarded"}]

\* The places that will complete task k exactly once each, and the completion.
Places(k) ==
  {<<"queue", i>> : i \in {j \in DOMAIN queue : queue[j] = k}}
  \cup {<<"worker", w>> : w \in {v \in Workers : cur[v] = k}}
  \cup (UNION {{<<"discard", c, i>> : i \in {j \in DOMAIN list[c] : list[c][j] = k}} : c \in Clients})
  \cup (IF outcome[k] = "none" THEN {} ELSE {<<"completed">>})

\* on_complete (or the future's result) comes exactly once for a submit that
\* reported success, and never for one that failed: through every shutdown,
\* escalation and nested submit, an accepted task is in one place.
CompletesOnce ==
  \A k \in Tasks : Cardinality(Places(k)) = IF status[k] = "accepted" THEN 1 ELSE 0

\* A shutdown is over (shutdown_complete, on which every shutdown call returns)
\* only when no worker is left and no task is queued that nobody would run:
\* a submit that was between its two sections has not slipped in.  Destroy frees
\* the pool only when no other call is inside either.
ShutdownIsFinal ==
  /\ complete => \A w \in Workers : pc[w] = "exited" /\ queue = <<>> /\ active = 0
  /\ freed => \A t \in Threads : pc[t] = IF t \in Workers THEN "exited" ELSE "idle"

\* cthrpool_wait returns only at a moment at which every task accepted so far
\* has completed or been taken by an immediate shutdown.
WaitIsBarrier ==
  [][\A c \in Clients :
       pc[c] \in {"wait", "on_idle"} /\ pc'[c] = "idle" =>
         \A k \in Tasks : status[k] = "accepted" =>
           outcome[k] # "none" \/ \E d \in Clients : \E i \in DOMAIN list[d] : list[d][i] = k]_vars

\* t waits for somebody else, or for its program to call the pool again.
Waits(t) ==
  \/ t \in asleep \/ pc[t] \in {"idle", "exited"}
  \/ pc[t] = "join" /\ \E w \in Workers : pc[w] # "exited"
  \/ pc[t] = "pins" /\ \E u \in Threads : Pinning(u)

\* No wake-up is lost and nobody waits for one another: if every thread waits,
\* and no timeout or spurious wake-up helps, no task is queued and no call is
\* inside the pool.
NobodyStranded ==
  (\A t \in Threads : Waits(t)) => queue = <<>> /\ \A c \in Clients : pc[c] = "idle"
=============================================================================
