------------------------------ MODULE EventLoop ------------------------------
(***************************************************************************)
(* ceventloop (src/src/cthreadcomm.c): one poller thread waits in epoll    *)
(* for registered descriptors and queues and runs their callbacks, itself  *)
(* or on a dispatch pool.  Registrations are added, removed, paused and    *)
(* modified by any thread, by callbacks too, while events of theirs are in *)
(* the poller's batch or in a job; a registration and the entry it shares  *)
(* with the other direction of its descriptor are therefore not freed by   *)
(* the removal but put on lists the poller frees between batches.          *)
(*                                                                         *)
(* A section of a stripe lock is one step.  One descriptor and one queue   *)
(* exist; an entry is named after the registration it was made for.  The   *)
(* handle tables are in HandleTable, the pool in ThreadPool.               *)
(***************************************************************************)
EXTENDS WaiterList, Integers, FiniteSets

CONSTANTS
  Regs, Workers, Poller,
  Clients, Owners,       \* threads that use the loop; threads that end it or the queue
  Scenarios,             \* what the registrations are for, whether the loop has a
                         \* dispatch pool, and the bounds maxCalls
                         \* on API calls and maxEvents on sends, descriptor events
                         \* and refusals of the pool
  Conditions,            \* what may happen to the descriptor
  Capacity               \* max_size of the queue

Executors == Workers \cup {Poller}
Threads == Clients \cup Owners \cup Executors
Dirs == {"read", "write"}

VARIABLES
  scenario,              \* fixed by ceventloop_create_mp and the callers
  reg, entry, job,       \* by registration: itself, its entry, that entry's items
  fdReady,               \* conditions of the descriptor
  msg_count, waiters, rotor, wake, dispatch_refs, queueMem,
  pendingRegs, pendingEntries,   \* the free lists
  reclaimWake, retry,    \* reclaim_wake_efd; the next wait is bounded
  batch,                 \* events epoll_wait returned and the poller has not handled
  ex, jobs,              \* executor -> what it does; the pool's queue
  loop, call,            \* the loop; thread -> its API call
  onRemoved,             \* registration -> how often on_removed was called
  calls, events

regVars == <<reg, entry, job>>
queueVars == <<msg_count, waiters, rotor, wake, dispatch_refs, queueMem>>
freeVars == <<pendingRegs, pendingEntries>>
pollVars == <<retry, batch, ex, jobs>>
boundVars == <<calls, events>>
vars == <<scenario, regVars, fdReady, queueVars, freeVars, reclaimWake, pollVars, loop, call,
          onRemoved, boundVars>>

NoReg == [mem |-> "none", slot |-> FALSE, removed |-> FALSE, ref |-> 0, pins |-> 0, paused |-> FALSE,
          muted |-> FALSE, dir |-> "read", entry |-> Null, detached |-> FALSE]
NoEntry == [mem |-> "none", removed |-> FALSE, ref |-> 0, read |-> Null, write |-> Null, armed |-> {}]
Rest(pc) == [pc |-> pc, entry |-> Null, i |-> 1]
Idle == [op |-> "none", r |-> Null, step |-> "none", wake |-> FALSE]
NoWake == [ready |-> FALSE, hops |-> 0]

pooled == scenario.pooled
IsFd(r) == scenario.on[r].sel = "fd"
UsesFd == \E r \in Regs : IsFd(r)
UsesQueue == \E r \in Regs : ~IsFd(r)
Handles(r, h) == h \in scenario.on[r].handlers
DirHandler(d) == IF d = "read" THEN "readable" ELSE "writable"

-----------------------------------------------------------------------------
(* Interest in a descriptor, and wakes of a queue's registrations.         *)

\* _fd_reg_interest_bits.
Bits(g, r, d) ==
  IF r = Null \/ g[r].paused \/ g[r].muted THEN {}
  ELSE {"err"} \cup (IF d = "read" THEN {"rdhup"} ELSE {})
       \cup (IF Handles(r, DirHandler(d)) THEN {IF d = "read" THEN "in" ELSE "out"} ELSE {})

\* Mutant: an entry is not armed again.
Rearmed_Never(g, e) == e

\* _ceventloop_rearm_entry_locked: what entry e asks epoll for.
Rearmed(g, e) ==
  IF e.removed THEN e
  ELSE IF e.read # Null /\ ~IsFd(e.read) THEN [e EXCEPT !.armed = {"in"}]
  ELSE [e EXCEPT !.armed = Bits(g, e.read, "read") \cup Bits(g, e.write, "write")]

\* _queue_sel_is_ready.
QueueReady(n, d) == IF d = "read" THEN n > 0 ELSE n < Capacity

\* _notify_waiter and _notify_waiter_forwarded of the nodes in to.
Notified(w, to) == [r \in Regs |-> IF \E j \in DOMAIN to : to[j] = r THEN [ready |-> TRUE, hops |-> 0] ELSE w[r]]
Forward(w, r, hops) ==
  [w EXCEPT ![r] = [ready |-> TRUE, hops |-> IF ~@.ready \/ hops < @.hops THEN hops ELSE @.hops]]

\* notify_one_sel_waiter on the list of direction d, the lists being l and rot.
NotifyOne(l, rot, d) ==
  \E to \in {Target(l[d], rot[d])} :
    /\ wake' = Notified(wake, to)
    /\ rotor' = [rot EXCEPT ![d] = Rotated(l[d], @, to)]

\* A node leaves the list; a queue that is ready passes the wake on.
Unlink(r) ==
  \E d \in {reg[r].dir} :
  \E l \in {[waiters EXCEPT ![d] = Without(@, r)]} :
  \E rot \in {[rotor EXCEPT ![d] = Unrotored(waiters[d], @, r)]} :
    /\ waiters' = l
    /\ \/ QueueReady(msg_count, d) /\ NotifyOne(l, rot, d)
       \/ ~QueueReady(msg_count, d) /\ rotor' = rot /\ UNCHANGED wake

NewReg(r, e) == [NoReg EXCEPT !.mem = "live", !.slot = TRUE, !.ref = 1, !.dir = scenario.on[r].dir, !.entry = e]

\* A loop that has nothing to do; Present are the registrations it has got.
\* (Two that are present do not share a descriptor.)
Present == {r \in Regs : scenario.on[r].present}
Init ==
  /\ scenario \in Scenarios
  /\ reg = [r \in Regs |-> IF r \in Present THEN NewReg(r, r) ELSE NoReg]
  /\ entry = [r \in Regs |->
       IF r \notin Present THEN NoEntry
       ELSE IF ~IsFd(r) THEN [NoEntry EXCEPT !.mem = "live", !.read = r, !.armed = {"in"}]
       ELSE Rearmed(reg, [[NoEntry EXCEPT !.mem = "live"] EXCEPT ![scenario.on[r].dir] = r])]
  /\ job = [r \in Regs |-> <<>>]
  /\ fdReady = {}
  /\ msg_count = 0 /\ rotor = [d \in Dirs |-> Null]
  /\ waiters \in {l \in [Dirs -> {<<>>} \cup {<<r>> : r \in Regs} \cup {p \in Regs \X Regs : p[1] # p[2]}] :
                   \A d \in Dirs : {l[d][j] : j \in DOMAIN l[d]} = {r \in Present : ~IsFd(r) /\ scenario.on[r].dir = d}}
  /\ wake = [r \in Regs |-> IF r \in Present /\ ~IsFd(r) /\ QueueReady(0, scenario.on[r].dir)
                             THEN [ready |-> TRUE, hops |-> 0] ELSE NoWake]
  /\ dispatch_refs = 0 /\ queueMem = "live"
  /\ pendingRegs = {} /\ pendingEntries = {} /\ reclaimWake = FALSE
  /\ retry = FALSE /\ batch = {} /\ jobs = <<>>
  /\ ex = [x \in Executors |-> Rest(IF x = Poller THEN "top" ELSE "idle")]
  /\ loop = [mem |-> "live", in_use |-> TRUE, claimed |-> FALSE, started |-> FALSE,
             shutting_down |-> FALSE, joined |-> FALSE, pins |-> 0]
  /\ call = [t \in Threads |-> Idle]
  /\ onRemoved = [r \in Regs |-> 0] /\ calls = 0 /\ events = 0

-----------------------------------------------------------------------------
(* Other threads use the queue and the descriptor.                         *)

Send ==
  /\ UsesQueue /\ queueMem = "live"
  /\ events < scenario.maxEvents /\ msg_count < Capacity
  /\ msg_count' = msg_count + 1 /\ events' = events + 1
  /\ NotifyOne(waiters, rotor, "read")
  /\ UNCHANGED <<scenario, regVars, fdReady, waiters, dispatch_refs, queueMem, freeVars, reclaimWake,
                 pollVars, loop, call, onRemoved, calls>>

FdEvent ==
  /\ UsesFd /\ events < scenario.maxEvents
  /\ \E c \in Conditions \ fdReady : fdReady' = fdReady \cup {c}
  /\ events' = events + 1
  /\ UNCHANGED <<scenario, regVars, queueVars, freeVars, reclaimWake, pollVars, loop, call,
                 onRemoved, calls>>

-----------------------------------------------------------------------------
(* The API: a call pins the loop, then the registration it names.          *)

\* A callback calls from the executor it runs on.
MayCall(t) == call[t] = Idle /\ t \notin Owners /\ (t \in Executors => ex[t].pc = "cb")

Step(t, s) == call' = [call EXCEPT ![t].step = s]

\* _ceventloop_resolve.  The handle of a registration is known once it is in.
\* A queue's registration refuses to be modified or resumed as it does a pause.
Resolve(t, op, r) ==
  /\ MayCall(t) /\ calls < scenario.maxCalls /\ loop.in_use
  /\ (op = "add") = (reg[r].mem = "none")
  /\ IsFd(r) \/ op \in {"add", "remove", "pause"}
  /\ op = "add" => \A u \in Threads : call[u].op = "add" => call[u].r # r
  /\ op = "add" /\ ~IsFd(r) => queueMem = "live"
  /\ call' = [call EXCEPT ![t] = [op |-> op, r |-> r, step |-> "loop", wake |-> FALSE]]
  /\ loop' = [loop EXCEPT !.pins = @ + 1]
  /\ calls' = calls + 1
  /\ UNCHANGED <<scenario, regVars, fdReady, queueVars, freeVars, reclaimWake, pollVars, onRemoved,
                 events>>

\* _ceventloop_resolve_unpin at the end of a call.
EndCall(t) ==
  /\ call' = [call EXCEPT ![t] = Idle]
  /\ loop' = [loop EXCEPT !.pins = @ - 1]

\* The loop is shut down, the direction is taken, or something fails.
AddFails(t) ==
  /\ call[t].op = "add" /\ EndCall(t)
  /\ UNCHANGED <<scenario, regVars, fdReady, queueVars, freeVars, reclaimWake, pollVars, onRemoved,
                 boundVars>>

\* _fd_registry_find: the entry of the descriptor, a new one if it has none.
EntryFor(r) ==
  IF \E e \in Regs : entry[e].mem = "live" /\ ~entry[e].removed /\ IsFd(e)
  THEN CHOOSE e \in Regs : entry[e].mem = "live" /\ ~entry[e].removed /\ IsFd(e) ELSE r

\* ceventloop_add of a descriptor: _ceventloop_add_fd.
AddFd(t) ==
  /\ call[t].op = "add" /\ ~loop.shutting_down
  /\ \E r \in {call[t].r} : IsFd(r) /\ \E e \in {EntryFor(r)} :
       /\ e # r => entry[e][scenario.on[r].dir] = Null
       /\ reg' = [reg EXCEPT ![r] = NewReg(r, e)]
       /\ entry' = [entry EXCEPT ![e] =
            Rearmed(reg', [@ EXCEPT !.mem = "live", ![scenario.on[r].dir] = r])]
  /\ EndCall(t)
  /\ UNCHANGED <<scenario, job, fdReady, queueVars, freeVars, reclaimWake, pollVars, onRemoved,
                 boundVars>>

\* ceventloop_add of a queue: _ceventloop_add_queue; a queue that is ready
\* already wakes the new node.
AddQueue(t) ==
  /\ call[t].op = "add" /\ ~loop.shutting_down
  /\ \E r \in {call[t].r} : \E d \in {scenario.on[r].dir} :
       /\ ~IsFd(r)
       /\ reg' = [reg EXCEPT ![r] = NewReg(r, r)]
       /\ entry' = [entry EXCEPT ![r] = [@ EXCEPT !.mem = "live", !.read = r, !.armed = {"in"}]]
       /\ waiters' = [waiters EXCEPT ![d] = <<r>> \o @]
       /\ wake' = IF QueueReady(msg_count, d) THEN Notified(wake, <<r>>) ELSE wake
  /\ EndCall(t)
  /\ UNCHANGED <<scenario, job, fdReady, msg_count, rotor, dispatch_refs, queueMem, freeVars, reclaimWake,
                 pollVars, onRemoved, boundVars>>

\* _ceventloop_reg_resolve; a handle whose slot is released resolves to nothing.
RegResolve(t) ==
  /\ call[t].step = "loop" /\ call[t].op # "add"
  /\ \E r \in {call[t].r} :
       \/ /\ reg[r].slot
          /\ reg' = [reg EXCEPT ![r].pins = @ + 1]
          /\ Step(t, "pinned") /\ UNCHANGED loop
       \/ ~reg[r].slot /\ EndCall(t) /\ UNCHANGED reg
  /\ UNCHANGED <<scenario, entry, job, fdReady, queueVars, freeVars, reclaimWake, pollVars, onRemoved,
                 boundVars>>

\* ceventloop_modify, ceventloop_pause and ceventloop_resume of a descriptor's
\* registration: the new registration, if the call changes anything.
Modified(r) ==
  LET d == IF reg[r].dir = "read" THEN "write" ELSE "read"
  IN IF entry[reg[r].entry][d] # Null THEN reg[r] ELSE [reg[r] EXCEPT !.dir = d, !.muted = FALSE]
Changed(op, r) ==
  CASE op = "modify" -> Modified(r)
    [] op = "unmute" -> [reg[r] EXCEPT !.muted = FALSE]     \* modify to the direction it has
    [] op = "pause"  -> [reg[r] EXCEPT !.paused = TRUE]
    [] op = "resume" -> [reg[r] EXCEPT !.paused = FALSE, !.muted = FALSE]

Change(t) ==
  /\ call[t].step = "pinned" /\ call[t].op # "remove"
  /\ \E r \in {call[t].r} : \E new \in {IF IsFd(r) /\ ~reg[r].removed THEN Changed(call[t].op, r) ELSE reg[r]} :
       /\ reg' = [reg EXCEPT ![r] = new]
       /\ entry' = IF new = reg[r] THEN entry
                   ELSE [entry EXCEPT ![reg[r].entry] =
                          Rearmed(reg', [[@ EXCEPT ![reg[r].dir] = Null] EXCEPT ![new.dir] = r])]
  /\ Step(t, "unpin")
  /\ UNCHANGED <<scenario, job, fdReady, queueVars, freeVars, reclaimWake, pollVars, loop, onRemoved,
                 boundVars>>

\* _ceventloop_defer_entry_free of entry e.
DeferEntry(e) == pendingEntries' = pendingEntries \cup {e}

UnlinkFd(r) ==
  \E e \in {reg[r].entry} : \E left \in {[entry[e] EXCEPT ![reg[r].dir] = Null]} :
    /\ \/ /\ left.read = Null /\ left.write = Null
          /\ entry' = [entry EXCEPT ![e] = [left EXCEPT !.removed = TRUE, !.armed = {}]]
          /\ DeferEntry(e)
       \/ /\ left.read # Null \/ left.write # Null
          /\ entry' = [entry EXCEPT ![e] = Rearmed(reg, left)]
          /\ UNCHANGED pendingEntries
    /\ UNCHANGED <<waiters, rotor, wake>>

UnlinkQueue(r) ==
  /\ \/ ~reg[r].detached /\ Unlink(r)
     \/ reg[r].detached /\ UNCHANGED <<waiters, rotor, wake>>
  /\ entry' = [entry EXCEPT ![r] = [@ EXCEPT !.removed = TRUE, !.read = Null, !.armed = {}]]
  /\ DeferEntry(r)

\* _ceventloop_remove_unlink; only the first of several removals does it.
RemoveUnlink(t) ==
  /\ call[t].step = "pinned" /\ call[t].op = "remove"
  /\ \E r \in {call[t].r} :
       \/ /\ reg[r].removed /\ Step(t, "unpin")
          /\ UNCHANGED <<reg, entry, waiters, rotor, wake, pendingEntries>>
       \/ /\ ~reg[r].removed /\ Step(t, "release")
          /\ reg' = [reg EXCEPT ![r].removed = TRUE]
          /\ \/ IsFd(r) /\ UnlinkFd(r)
             \/ ~IsFd(r) /\ UnlinkQueue(r)
  /\ UNCHANGED <<scenario, job, fdReady, msg_count, dispatch_refs, queueMem, pendingRegs, reclaimWake,
                 pollVars, loop, onRemoved, boundVars>>

\* _ceventloop_reg_slot_release.
SlotRelease(t) ==
  /\ call[t].step = "release"
  /\ reg' = [reg EXCEPT ![call[t].r].slot = FALSE]
  /\ Step(t, "finish")
  /\ UNCHANGED <<scenario, entry, job, fdReady, queueVars, freeVars, reclaimWake, pollVars, loop,
                 onRemoved, boundVars>>

\* A reference of r is given up; the last one defers the free.
DropRef(r) ==
  /\ reg' = [reg EXCEPT ![r].ref = @ - 1]
  /\ pendingRegs' = IF reg[r].ref = 1 /\ reg[r].removed THEN pendingRegs \cup {r} ELSE pendingRegs

\* _ceventloop_remove_finish.
RemoveFinish(t) ==
  /\ call[t].step = "finish"
  /\ DropRef(call[t].r) /\ reclaimWake' = TRUE
  /\ Step(t, "unpin")
  /\ UNCHANGED <<scenario, entry, job, fdReady, queueVars, pendingEntries, pollVars, loop,
                 onRemoved, boundVars>>

\* _ceventloop_reg_resolve_unpin reads what it needs while it holds the pin,
UnpinReads(t) ==
  /\ call[t].step = "unpin"
  /\ call' = [call EXCEPT ![t].step = "drop",
              ![t].wake = reg[call[t].r].removed /\ Handles(call[t].r, "removed")]
  /\ UNCHANGED <<scenario, regVars, fdReady, queueVars, freeVars, reclaimWake, pollVars, loop,
                 onRemoved, boundVars>>

\* and then drops it and touches the registration no more.
Unpin(t) ==
  /\ call[t].step = "drop"
  /\ reg' = [reg EXCEPT ![call[t].r].pins = @ - 1]
  /\ reclaimWake' = (reclaimWake \/ (reg[call[t].r].pins = 1 /\ call[t].wake))
  /\ EndCall(t)
  /\ UNCHANGED <<scenario, entry, job, fdReady, queueVars, freeVars, pollVars, onRemoved, boundVars>>

-----------------------------------------------------------------------------
(* The poller.                                                             *)

\* _ceventloop_reg_free: on_removed is the last the registration sees of the
\* loop.  (A registration that never got an entry is not told.)
Free(rs) ==
  /\ reg' = [r \in Regs |-> IF r \in rs THEN [reg[r] EXCEPT !.mem = "freed"] ELSE reg[r]]
  /\ onRemoved' = [r \in Regs |-> IF r \in rs /\ Handles(r, "removed") THEN onRemoved[r] + 1 ELSE onRemoved[r]]

\* Mutant: deferred registrations are freed under a pin.
Reclaimable_Pinned == pendingRegs

\* _ceventloop_reclaim_pending_frees.  The batch generation has just gone up,
\* so every deferred entry was deferred in an earlier batch.
Reclaimable == {r \in pendingRegs : reg[r].pins = 0}
ReclaimableEntries == {e \in pendingEntries : entry[e].ref = 0}

\* The head of _ceventloop_thread_fn's loop.
PollTop ==
  /\ ex[Poller].pc = "top" /\ ~loop.shutting_down
  /\ entry' = [e \in Regs |-> IF e \in ReclaimableEntries THEN [entry[e] EXCEPT !.mem = "freed"] ELSE entry[e]]
  /\ Free(Reclaimable)
  /\ pendingEntries' = pendingEntries \ ReclaimableEntries
  /\ pendingRegs' = pendingRegs \ Reclaimable
  /\ retry' = (pendingEntries' # {} \/ pendingRegs' # {})
  /\ ex' = [ex EXCEPT ![Poller] = Rest("wait")]
  /\ UNCHANGED <<scenario, job, fdReady, queueVars, reclaimWake, batch, jobs, loop, call, boundVars>>

PollExits ==
  /\ ex[Poller].pc = "top" /\ loop.shutting_down
  /\ ex' = [ex EXCEPT ![Poller] = Rest("gone")]
  /\ UNCHANGED <<scenario, regVars, fdReady, queueVars, freeVars, reclaimWake, retry, batch, jobs, loop,
                 call, onRemoved, boundVars>>

\* What epoll has to say of an entry.
Reported(e) ==
  IF entry[e].read # Null /\ ~IsFd(entry[e].read)
  THEN IF wake[entry[e].read].ready THEN entry[e].armed ELSE {}
  ELSE entry[e].armed \cap fdReady

\* ccol_poll_wait returns with every ready entry, which the pool's one-shot
\* interest disarms, or because of a wake, the retry's deadline or the shutdown.
PollWait ==
  /\ ex[Poller].pc = "wait"
  /\ \E got \in {{[entry |-> e, ev |-> Reported(e)] : e \in {f \in Regs : Reported(f) # {}}}} :
       /\ got # {} \/ retry \/ reclaimWake \/ loop.shutting_down
       /\ batch' = got
       /\ entry' = [e \in Regs |-> IF pooled /\ \E b \in got : b.entry = e THEN [entry[e] EXCEPT !.armed = {}]
                                   ELSE entry[e]]
  /\ reclaimWake' = FALSE
  /\ ex' = [ex EXCEPT ![Poller] = Rest("batch")]
  /\ UNCHANGED <<scenario, reg, job, fdReady, queueVars, freeVars, retry, jobs, loop, call, onRemoved,
                 boundVars>>

BatchEnds ==
  /\ ex[Poller].pc = "batch" /\ batch = {}
  /\ ex' = [ex EXCEPT ![Poller] = Rest("top")]
  /\ UNCHANGED <<scenario, regVars, fdReady, queueVars, freeVars, reclaimWake, retry, batch, jobs, loop,
                 call, onRemoved, boundVars>>

DirBits(d) == IF d = "read" THEN {"in", "rdhup"} ELSE {"out"}

\* _ccol_fd_reg_takes_event and _ccol_fd_reg_takes_condition.
Takes(r, d, ev) ==
  IF r = Null \/ ev \cap ({"err"} \cup DirBits(d)) = {} THEN "none"
  ELSE IF reg[r].removed THEN "none"
  ELSE IF ev \cap DirBits(d) # {} /\ Handles(r, DirHandler(d)) THEN "direction"
  ELSE IF Handles(r, "error") THEN "error"
  ELSE IF Handles(r, DirHandler(d)) THEN "direction" ELSE "mute"

Item(r, k) == [reg |-> r, kind |-> k, before |-> Null, hops |-> 0]

\* The items the event gives the two registrations of a descriptor.
FdItems(e, ev) ==
  LET of(r, d) == CASE Takes(r, d, ev) = "direction" -> <<Item(r, d)>>
                    [] Takes(r, d, ev) = "error" -> <<Item(r, "error")>>
                    [] OTHER -> <<>>
  IN of(entry[e].read, "read") \o of(entry[e].write, "write")
Muted(e, ev) ==
  {r \in {entry[e].read, entry[e].write} : \E d \in Dirs : r = entry[e][d] /\ Takes(r, d, ev) = "mute"}

\* The item of a queue's registration: _queue_reg_consume_wake has seen the
\* queue at n messages.
QueueItem(r, n) == [reg |-> r, kind |-> reg[r].dir, before |-> n, hops |-> wake[r].hops]

Items(e, ev) ==
  IF entry[e].read # Null /\ ~IsFd(entry[e].read)
  THEN <<IF pooled THEN Item(entry[e].read, reg[entry[e].read].dir) ELSE QueueItem(entry[e].read, msg_count)>>
  ELSE FdItems(e, ev)

\* The references a collection takes, and registrations nobody would call.
Collected(e, ev) ==
  LET took == {Items(e, ev)[j].reg : j \in DOMAIN Items(e, ev)}
  IN [r \in Regs |-> IF r \in took THEN [reg[r] EXCEPT !.ref = @ + 1]
                     ELSE IF r \in Muted(e, ev) THEN [reg[r] EXCEPT !.muted = TRUE] ELSE reg[r]]

\* _ceventloop_handle_event: with no pool the poller runs the items itself.
HandleEvent(b) ==
  /\ ex[Poller].pc = "batch" /\ ~pooled /\ b \in batch
  /\ batch' = batch \ {b}
  /\ \E its \in {Items(b.entry, b.ev)} :
       /\ job' = [job EXCEPT ![b.entry] = its]
       /\ reg' = Collected(b.entry, b.ev)
       /\ entry' = [entry EXCEPT ![b.entry] = IF Muted(b.entry, b.ev) = {} THEN @ ELSE Rearmed(reg', @)]
       /\ IF its # <<>> /\ ~IsFd(its[1].reg)
          THEN wake' = [wake EXCEPT ![its[1].reg] = NoWake] /\ dispatch_refs' = dispatch_refs + 1
          ELSE UNCHANGED <<wake, dispatch_refs>>
       /\ ex' = [ex EXCEPT ![Poller] = IF its = <<>> THEN Rest("batch") ELSE [pc |-> "item", entry |-> b.entry, i |-> 1]]
  /\ UNCHANGED <<scenario, fdReady, msg_count, waiters, rotor, queueMem, freeVars, reclaimWake, retry, jobs,
                 loop, call, onRemoved, boundVars>>

\* Mutant: an entry with a job gets a second one.
InFlight_Ignored(e) == FALSE

\* A job of the entry has not finished: its end will arm the entry again.
InFlight(e) == entry[e].ref > 0

PollerDrops(b) ==
  /\ ex[Poller].pc = "batch" /\ pooled /\ b \in batch
  /\ InFlight(b.entry) \/ Items(b.entry, b.ev) = <<>>
  /\ batch' = batch \ {b}
  /\ \/ InFlight(b.entry) /\ UNCHANGED <<reg, entry>>
     \/ /\ ~InFlight(b.entry)
        /\ reg' = Collected(b.entry, b.ev)
        /\ entry' = [entry EXCEPT ![b.entry] = IF Muted(b.entry, b.ev) = {} THEN @ ELSE Rearmed(reg', @)]
  /\ UNCHANGED <<scenario, job, fdReady, queueVars, freeVars, reclaimWake, retry, ex, jobs, loop, call,
                 onRemoved, boundVars>>

\* _ceventloop_poller_collect: the job is submitted, or taken back if the pool
\* does not take it, which it does not do for ever (a failure is one of events).
PollerCollect(b) ==
  /\ ex[Poller].pc = "batch" /\ pooled /\ b \in batch
  /\ ~InFlight(b.entry) /\ Items(b.entry, b.ev) # <<>>
  /\ batch' = batch \ {b}
  /\ job' = [job EXCEPT ![b.entry] = Items(b.entry, b.ev)]
  /\ reg' = Collected(b.entry, b.ev)
  /\ entry' = [entry EXCEPT ![b.entry] =
       [(IF Muted(b.entry, b.ev) = {} THEN @ ELSE Rearmed(reg', @)) EXCEPT !.ref = @ + 1]]
  /\ \/ jobs' = Append(jobs, b.entry) /\ UNCHANGED <<ex, events>>
     \/ /\ events < scenario.maxEvents /\ events' = events + 1
        /\ ex' = [ex EXCEPT ![Poller] = [pc |-> "undo", entry |-> b.entry, i |-> 1]] /\ UNCHANGED jobs
  /\ UNCHANGED <<scenario, fdReady, queueVars, freeVars, reclaimWake, retry, loop, call, onRemoved, calls>>

-----------------------------------------------------------------------------
(* Running items, on the poller or on a worker.                            *)

Locks(x, e) == ex[x].entry = e /\ ex[x].pc \in {"item", "cb", "cascade", "release"}

\* A worker of the pool takes a job and the entry's dispatch_lock.
WorkerTakes(w) ==
  /\ ex[w].pc = "idle" /\ jobs # <<>>
  /\ \A x \in Executors : ~Locks(x, Head(jobs))
  /\ ex' = [ex EXCEPT ![w] = [pc |-> "item", entry |-> Head(jobs), i |-> 1]]
  /\ jobs' = Tail(jobs)
  /\ UNCHANGED <<scenario, regVars, fdReady, queueVars, freeVars, reclaimWake, retry, batch, loop, call,
                 onRemoved, boundVars>>

Current(x) == job[ex[x].entry][ex[x].i]
Goto(x, pc) == ex' = [ex EXCEPT ![x].pc = pc]
OfQueue(x) == ~IsFd(Current(x).reg)

\* _ceventloop_dispatch_job_fn on a queue's item: a live registration takes the
\* queue's dispatch reference and consumes the wake.
Consume(x) ==
  /\ ex[x].pc = "item" /\ OfQueue(x) /\ Current(x).before = Null
  /\ \E r \in {Current(x).reg} :
       \/ reg[r].removed /\ Goto(x, "release") /\ UNCHANGED <<job, dispatch_refs, wake>>
       \/ /\ ~reg[r].removed
          /\ dispatch_refs' = dispatch_refs + 1
          /\ job' = [job EXCEPT ![ex[x].entry][ex[x].i] = QueueItem(r, msg_count)]
          /\ wake' = [wake EXCEPT ![r] = NoWake]
          /\ UNCHANGED ex
  /\ UNCHANGED <<scenario, reg, entry, fdReady, msg_count, waiters, rotor, queueMem, freeVars, reclaimWake,
                 retry, batch, jobs, loop, call, onRemoved, boundVars>>

AfterCallback(x) == IF OfQueue(x) THEN "cascade" ELSE "release"

\* _ceventloop_run_callback: not for a registration removed or paused since.
RunCallback(x) ==
  /\ ex[x].pc = "item" /\ (OfQueue(x) => Current(x).before # Null)
  /\ Goto(x, IF reg[Current(x).reg].removed \/ reg[Current(x).reg].paused THEN AfterCallback(x) ELSE "cb")
  /\ UNCHANGED <<scenario, regVars, fdReady, queueVars, freeVars, reclaimWake, retry, batch, jobs, loop,
                 call, onRemoved, boundVars>>

Moves(it) ==
  /\ scenario.on[it.reg].moves /\ QueueReady(msg_count, it.kind)
  /\ it.kind = "read" \/ events < scenario.maxEvents

\* The callback returns.  One on a descriptor has seen to the condition, or
\* not; one on a queue has received or sent one message, or declines.
CallbackReturns(x) ==
  /\ ex[x].pc = "cb" /\ call[x] = Idle
  /\ \E it \in {Current(x)} :
       \/ /\ IsFd(it.reg)
          /\ fdReady' \in {fdReady, fdReady \ (IF it.kind = "error" THEN {"err"} ELSE {"err"} \cup DirBits(it.kind))}
          /\ UNCHANGED <<msg_count, rotor, wake, events>>
       \/ /\ ~IsFd(it.reg) /\ Moves(it)
          /\ msg_count' = IF it.kind = "read" THEN msg_count - 1 ELSE msg_count + 1
          /\ events' = IF it.kind = "read" THEN events ELSE events + 1
          /\ NotifyOne(waiters, rotor, IF it.kind = "read" THEN "write" ELSE "read")
          /\ UNCHANGED fdReady
       \/ ~IsFd(it.reg) /\ ~Moves(it) /\ UNCHANGED <<fdReady, msg_count, rotor, wake, events>>
  /\ Goto(x, AfterCallback(x))
  /\ UNCHANGED <<scenario, regVars, waiters, dispatch_refs, queueMem, freeVars, reclaimWake, retry, batch,
                 jobs, loop, call, onRemoved, calls>>

\* _ceventloop_queue_cascade_notify_next on a queue that is still ready.  A
\* dispatch that moved a message wakes its registration again and the next one;
\* one that did not passes the wake on, once round the list at most.
Cascaded(it) ==
  LET list  == waiters[it.kind]
      next  == NextOf(list, it.reg)
      moved == IF it.kind = "read" THEN msg_count < it.before ELSE msg_count > it.before
      to    == IF next # Null THEN next ELSE Head(list)
  IN IF moved
     THEN IF next # Null THEN Forward(Notified(wake, <<it.reg>>), next, 1) ELSE Notified(wake, <<it.reg>>)
     ELSE IF to # it.reg /\ Len(list) > it.hops + 1 THEN Forward(wake, to, it.hops + 1) ELSE wake

\* The cascade, and _queue_dispatch_ref_release, the last touch of the queue.
Cascade(x) ==
  /\ ex[x].pc = "cascade"
  /\ \E it \in {Current(x)} :
       wake' = IF ~reg[it.reg].removed /\ QueueReady(msg_count, it.kind) THEN Cascaded(it) ELSE wake
  /\ dispatch_refs' = dispatch_refs - 1
  /\ Goto(x, "release")
  /\ UNCHANGED <<scenario, regVars, fdReady, msg_count, waiters, rotor, queueMem, freeVars, reclaimWake, retry,
                 batch, jobs, loop, call, onRemoved, boundVars>>

\* _ceventloop_release_after_dispatch, then the next item or the end.
Release(x) ==
  /\ ex[x].pc \in {"release", "undo"}
  /\ \E r \in {Current(x).reg} :
       /\ DropRef(r)
       /\ reclaimWake' = (reclaimWake \/ r \in pendingRegs' \ pendingRegs)
  /\ ex' = [ex EXCEPT ![x] =
       IF ex[x].i < Len(job[ex[x].entry]) THEN [@ EXCEPT !.i = @ + 1, !.pc = IF @ = "undo" THEN @ ELSE "item"]
       ELSE IF pooled THEN [@ EXCEPT !.pc = "rearm"] ELSE Rest("batch")]
  /\ job' = IF pooled \/ ex[x].i < Len(job[ex[x].entry]) THEN job ELSE [job EXCEPT ![ex[x].entry] = <<>>]
  /\ UNCHANGED <<scenario, entry, fdReady, queueVars, pendingEntries, retry, batch, jobs, loop,
                 call, onRemoved, boundVars>>

\* The end of a job: the entry is armed again and may have the next one.
Rearm(x) ==
  /\ ex[x].pc = "rearm"
  /\ entry' = [entry EXCEPT ![ex[x].entry] = [Rearmed(reg, @) EXCEPT !.ref = @ - 1]]
  /\ job' = [job EXCEPT ![ex[x].entry] = <<>>]
  /\ ex' = [ex EXCEPT ![x] = Rest(IF x = Poller THEN "batch" ELSE "idle")]
  /\ UNCHANGED <<scenario, reg, fdReady, queueVars, freeVars, reclaimWake, retry, batch, jobs, loop, call,
                 onRemoved, boundVars>>

-----------------------------------------------------------------------------
(* Shutdown, destruction, and the end of the queue.                        *)

\* ceventloop_shutdown pins the loop; __ceventloop_destroy claims it.  Neither
\* is for a thread that runs callbacks of the loop.
BeginShutdown(c, op) ==
  /\ c \in Owners /\ call[c] = Idle /\ calls < scenario.maxCalls /\ loop.in_use
  /\ \/ op = "shutdown" /\ loop' = [loop EXCEPT !.pins = @ + 1]
     \/ op = "destroy" /\ ~loop.claimed /\ loop' = [loop EXCEPT !.claimed = TRUE]
  /\ call' = [call EXCEPT ![c] = [Idle EXCEPT !.op = op, !.step = "enter"]]
  /\ calls' = calls + 1
  /\ UNCHANGED <<scenario, regVars, fdReady, queueVars, freeVars, reclaimWake, pollVars, onRemoved, events>>

\* _ceventloop_shutdown_internal: the first caller leads, the others wait.
EnterShutdown(c) ==
  /\ call[c].step = "enter"
  /\ Step(c, IF loop.started THEN "follow" ELSE "join")
  /\ loop' = [loop EXCEPT !.started = TRUE, !.shutting_down = TRUE]
  /\ UNCHANGED <<scenario, regVars, fdReady, queueVars, freeVars, reclaimWake, pollVars, onRemoved, boundVars>>

\* The poller is joined, then the pool drained.
Drained == ex[Poller].pc = "gone" /\ jobs = <<>> /\ \A w \in Workers : ex[w].pc = "idle"

\* _ceventloop_detach_queue_regs, one registration.
Detachable == {r \in Regs : ~IsFd(r) /\ reg[r].mem = "live" /\ ~reg[r].removed /\ ~reg[r].detached}
Detach(c, r) ==
  /\ call[c].step = "join" /\ Drained /\ r \in Detachable
  /\ Unlink(r)
  /\ reg' = [reg EXCEPT ![r].detached = TRUE]
  /\ UNCHANGED <<scenario, entry, job, fdReady, msg_count, dispatch_refs, queueMem, freeVars, reclaimWake,
                 pollVars, loop, call, onRemoved, boundVars>>

Joined(c) ==
  /\ call[c].step = "join" /\ Drained /\ Detachable = {}
  /\ loop' = [loop EXCEPT !.joined = TRUE] /\ Step(c, "shut")
  /\ UNCHANGED <<scenario, regVars, fdReady, queueVars, freeVars, reclaimWake, pollVars, onRemoved, boundVars>>

Follow(c) ==
  /\ call[c].step = "follow" /\ loop.joined /\ Step(c, "shut")
  /\ UNCHANGED <<scenario, regVars, fdReady, queueVars, freeVars, reclaimWake, pollVars, loop, onRemoved,
                 boundVars>>

\* A shutdown returns; a destruction takes the handle away,
AfterShutdown(c) ==
  /\ call[c].step = "shut"
  /\ \/ call[c].op = "shutdown" /\ EndCall(c)
     \/ /\ call[c].op = "destroy" /\ Step(c, "pins")
        /\ loop' = [loop EXCEPT !.in_use = FALSE]
  /\ UNCHANGED <<scenario, regVars, fdReady, queueVars, freeVars, reclaimWake, pollVars, onRemoved, boundVars>>

\* and waits until no call has the loop pinned.
Unpinned == loop.pins = 0

\* _ceventloop_teardown_raw: what is deferred and what is registered goes.
Teardown(c) ==
  /\ call[c].step = "pins" /\ Unpinned
  /\ Free(pendingRegs \cup {r \in Regs : reg[r].mem = "live" /\ ~reg[r].removed})
  /\ entry' = [e \in Regs |-> IF entry[e].mem = "live" THEN [entry[e] EXCEPT !.mem = "freed"] ELSE entry[e]]
  /\ pendingRegs' = {} /\ pendingEntries' = {}
  /\ loop' = [loop EXCEPT !.mem = "freed"]
  /\ call' = [call EXCEPT ![c] = Idle]
  /\ UNCHANGED <<scenario, job, fdReady, queueVars, reclaimWake, pollVars, boundVars>>

\* The detached registrations a queue still counts.
DetachedCount == Cardinality({r \in Regs : reg[r].detached /\ reg[r].mem = "live" /\ ~reg[r].removed})

\* __ccircq_destroy and __cdynmq_destroy of an empty queue without registrations
\* (any other aborts): it waits for the dispatches under way.
QueueDestroy(c) ==
  /\ UsesQueue /\ c \in Owners /\ call[c] = Idle /\ calls < scenario.maxCalls /\ queueMem = "live"
  /\ waiters["read"] = <<>> /\ waiters["write"] = <<>> /\ DetachedCount = 0 /\ msg_count = 0
  /\ \A t \in Threads : call[t].op = "add" => IsFd(call[t].r)
  /\ queueMem' = "going" /\ calls' = calls + 1
  /\ call' = [call EXCEPT ![c] = [Idle EXCEPT !.op = "queue", !.step = "refs"]]
  /\ UNCHANGED <<scenario, regVars, fdReady, msg_count, waiters, rotor, wake, dispatch_refs, freeVars,
                 reclaimWake, pollVars, loop, onRemoved, events>>

\* _queue_wait_for_dispatch_refs.
NoDispatch == dispatch_refs = 0

QueueFreed(c) ==
  /\ call[c].step = "refs" /\ NoDispatch
  /\ queueMem' = "freed"
  /\ call' = [call EXCEPT ![c] = Idle]
  /\ UNCHANGED <<scenario, regVars, fdReady, msg_count, waiters, rotor, wake, dispatch_refs, freeVars,
                 reclaimWake, pollVars, loop, onRemoved, boundVars>>

-----------------------------------------------------------------------------
Poll == PollTop \/ PollExits \/ PollWait \/ BatchEnds \/ \E b \in batch : HandleEvent(b) \/ PollerDrops(b) \/ PollerCollect(b)

Execute(x) ==
  \/ Consume(x) \/ RunCallback(x) \/ CallbackReturns(x) \/ Cascade(x) \/ Release(x) \/ Rearm(x)

\* A thread goes on with the call it has begun.
Proceed(t) ==
  \/ AddFd(t) \/ AddQueue(t) \/ AddFails(t) \/ RegResolve(t) \/ Change(t)
  \/ RemoveUnlink(t) \/ SlotRelease(t) \/ RemoveFinish(t) \/ UnpinReads(t) \/ Unpin(t)
  \/ EnterShutdown(t) \/ (\E r \in Regs : Detach(t, r)) \/ Joined(t) \/ Follow(t) \/ AfterShutdown(t) \/ Teardown(t)
  \/ QueueFreed(t)

Ops == {"add", "remove", "pause", "resume", "modify", "unmute"}

Next ==
  \/ Poll
  \/ \E w \in Workers : WorkerTakes(w)
  \/ \E x \in Executors : Execute(x)
  \/ \E t \in Threads : Proceed(t) \/ \E op \in Ops, r \in Regs : Resolve(t, op, r)
  \/ \E c \in Owners : BeginShutdown(c, "shutdown") \/ BeginShutdown(c, "destroy") \/ QueueDestroy(c)
  \/ Send \/ FdEvent

Spec == Init /\ [][Next]_vars

\* What thread t does of its own; callbacks return, calls go on.
Runs(t) ==
  \/ Proceed(t)
  \/ t \in Executors /\ Execute(t)
  \/ t = Poller /\ Poll
  \/ t \in Workers /\ WorkerTakes(t)

\* Every thread runs; nobody has to begin a call.
FairSpec == Spec /\ \A t \in Threads : WF_vars(Runs(t))

-----------------------------------------------------------------------------
(* Properties.                                                             *)

Busy(x) == ex[x].entry # Null
Pinned(t) == call[t].step \in {"pinned", "release", "finish", "unpin", "drop"}

\* Everything a thread still has in its hands is there: the registration and
\* the loop a call has pinned, the entries in the poller's batch, in the pool's
\* queue and under an executor, the registrations of their items, and the queue
\* between taking its dispatch reference and giving it back.
NoUseAfterFree ==
  /\ \A t \in Threads : Pinned(t) => reg[call[t].r].mem = "live"
  /\ \A b \in batch : entry[b.entry].mem = "live"
  /\ \A j \in DOMAIN jobs : entry[jobs[j]].mem = "live"
  /\ \A e \in Regs : \A j \in DOMAIN job[e] :
       (\E k \in DOMAIN jobs : jobs[k] = e) \/ (\E x \in Executors : ex[x].entry = e /\ j >= ex[x].i /\ ex[x].pc # "rearm")
         => reg[job[e][j].reg].mem = "live"
  /\ \A x \in Executors : Busy(x) => entry[ex[x].entry].mem = "live"
  /\ \A d \in Dirs : \A j \in DOMAIN waiters[d] : reg[waiters[d][j]].mem = "live"
  /\ queueMem = "freed" => ~\E x \in Executors : Busy(x) /\ ex[x].pc \in {"item", "cb", "cascade"}
                                                 /\ OfQueue(x) /\ Current(x).before # Null
  /\ loop.mem = "freed" => /\ \A x \in Executors : ~Busy(x)
                           /\ \A t \in Threads : call[t].op \in {"none", "queue"}

\* on_removed is called once for every registration that goes, whichever of
\* remover, dispatch, poller and teardown gives it up last, and a loop that is
\* gone has told them all.
OnRemovedExactlyOnce ==
  /\ \A r \in Regs : Handles(r, "removed") => onRemoved[r] = (IF reg[r].mem = "freed" THEN 1 ELSE 0)
  /\ loop.mem = "freed" => \A r \in Regs : reg[r].mem # "live"

\* An entry has at most one job, queued or running: callbacks of a descriptor
\* never overlap and none is queued behind one that may free what it would use.
OneJobPerEntry ==
  \A e \in Regs :
    Cardinality({x \in Executors : ex[x].entry = e}) + Cardinality({j \in DOMAIN jobs : jobs[j] = e}) <= 1

Live(r) == reg[r].mem = "live" /\ ~reg[r].removed

\* A condition a registration has asked for and can answer.
Wanted(r) ==
  /\ Live(r) /\ IsFd(r) /\ ~loop.shutting_down
  /\ Bits(reg, r, reg[r].dir) \cap fdReady # {}
Serving(r) == \E x \in Executors : Busy(x) /\ ex[x].pc = "cb" /\ Current(x).reg = r

\* A registration that takes messages and a queue that has some.
Backlog == msg_count > 0 /\ ~loop.shutting_down
             /\ \E r \in Regs : Live(r) /\ ~IsFd(r) /\ reg[r].dir = "read" /\ scenario.on[r].moves

\* No event is lost between the one-shot interest, the jobs in flight, pauses
\* and modifications: a ready descriptor is served, or stops being asked for.
\* A queue's backlog is worked off although a burst of sends is one wake and
\* other listeners decline it.
EventsAreServed ==
  /\ \A r \in Regs : Wanted(r) ~> (~Wanted(r) \/ Serving(r))
  /\ Backlog ~> ~Backlog

\* A removed registration is freed although the wake of its last user may be
\* missing, and a destruction comes to its end.
RemovalsComplete ==
  /\ \A r \in Regs : reg[r].removed ~> (reg[r].mem = "freed" \/ loop.shutting_down)
  /\ loop.claimed ~> loop.mem = "freed"

\* The callbacks of a registration come one after the other, on_removed once and
\* after the rest.
CallbacksInTurn == OneJobPerEntry /\ OnRemovedExactlyOnce

\* The loop keeps going: events are answered, removals and destructions end.
LoopProgresses == EventsAreServed /\ RemovalsComplete
=============================================================================
