----------------------------- MODULE HttpServer -----------------------------
(***************************************************************************)
(* Connections of the HTTP server (src/src/chttpserver.c), from accept to  *)
(* the last registration's on_removed, with the body memory limit of       *)
(* BodyMemory and the destruction of the server.                           *)
(*                                                                         *)
(* A connection has one holder at a time: a thread that works on it, a     *)
(* task in a pool, the idle or the parked list, the memory-wait list, or   *)
(* somebody's private batch.  Reactor threads run the callbacks, the pools *)
(* run _task_worker, _task_resume and _reject_task, the sweep enforces the *)
(* limits, and the destroyer takes all of it down.  The admission loop of  *)
(* _mem_admit runs on whatever thread called it; it is a thread here, and  *)
(* its caller stands still meanwhile.                                      *)
(*                                                                         *)
(* A section of srv->mutex, idle_mutex or wait_mutex is one step.  What    *)
(* the peer does, whether a limit has passed and whether a call fails is   *)
(* chosen where the code looks.  Sizes are in units of the first buffer.   *)
(* Left out: streaming routes and their queue, restart and retired pools,  *)
(* TLS, max_connections and resource pressure at the listener, the engine. *)
(***************************************************************************)
EXTENDS BodyMemory, SequencesExt

CONSTANTS
  Reactors, Workers, Rejecters,    \* threads of the reactor, worker_pool and reject_pool
  MaxBody,                         \* max_body_size
  MaxRegs,                         \* bound on the registrations of a connection
  Scenarios                        \* the instances Init chooses from

VARIABLES
  scenario,        \* what may happen in this instance
  left,            \* how many calls may still fail, and how often the sweep may come
  conn,            \* chttpsvr_conn_t
  regs,            \* its registrations with the reactor, in the order of ceventloop_add
  srv,             \* struct chttpserver
  th,              \* what each thread does
  tasks, rejects,  \* the queues of worker_pool and reject_pool
  todo             \* the connections the sweep, or the destroyer, has unlinked

Threads == Reactors \cup Workers \cup Rejecters \cup {"sweep", "destroyer", "admitter"}

\* Threads have one role each.  A body is at most MaxBody long (413 otherwise),
\* so a reservation for it, old and new buffer, is at most twice that.
ASSUME HttpServerAssumption ==
  /\ Reactors \cap (Workers \cup Rejecters) = {} /\ Workers \cap Rejecters = {}
  /\ {"sweep", "destroyer", "admitter"} \cap (Reactors \cup Workers \cup Rejecters) = {}
  /\ Callers = Threads \cup {"expired"} /\ "expired" \notin Threads
  /\ Null \notin Conns /\ "listener" \notin Conns
  /\ MaxBody \in Nat /\ 2 * MaxBody <= MaxNeed /\ 1 <= MaxNeed /\ MaxRegs \in Nat \ {0}
  /\ \A s \in Scenarios :
       /\ s.idle \subseteq Conns /\ s.fresh \subseteq Conns /\ s.reactors \subseteq Reactors
       /\ s.sizes \subseteq 0 .. MaxBody /\ s.declared \subseteq BOOLEAN /\ s.reqs \in Nat

srvVars == <<scenario, left, conn, regs, srv, th, tasks, rejects, todo>>
vars == <<srvVars, memVars>>

NoConn == [life |-> "none", refs |-> 0, list |-> "none", div |-> FALSE, park |-> "none", reg |-> 0,
           size |-> 0, declared |-> FALSE, len |-> 0, cap |-> 0, wp |-> "none", keep |-> FALSE,
           shut |-> FALSE, reqs |-> 0]
Resting == [pc |-> "rest", c |-> Null, ev |-> <<Null, 0>>, rel |-> 0, then |-> "none", home |-> "rest",
            pool |-> FALSE]

\* A running server, whose connections are yet to come or wait for a request.
Init ==
  /\ MemInit
  /\ scenario \in Scenarios /\ left = [faults |-> scenario.faults, sweeps |-> scenario.sweeps]
  /\ conn = [c \in Conns |-> IF c \in scenario.idle
                                 THEN [NoConn EXCEPT !.life = "open", !.refs = 2, !.reg = 1, !.list = "idle",
                                                     !.reqs = scenario.reqs]
                                 ELSE NoConn]
  /\ regs = [c \in Conns |-> [n \in 1 .. MaxRegs |-> IF n = conn[c].reg THEN "on" ELSE "none"]]
  /\ srv = [life |-> "up", refs |-> 2 + Cardinality(scenario.idle), listening |-> TRUE, lreg |-> "on", lpins |-> 0, spins |-> 0,
            swept |-> TRUE, in_flight |-> 0, draining |-> FALSE, mutex |-> FALSE,
            worker_pool |-> "up", reject_pool |-> "up"]
  /\ th = [t \in Threads |-> Resting]
  /\ tasks = <<>> /\ rejects = <<>> /\ todo = [t \in {"sweep", "destroyer"} |-> {}]

Can(x) == x \in scenario.can
Fault == left.faults > 0 /\ left' = [left EXCEPT !.faults = @ - 1]

\* t may take a step at pc: it is neither inside _mem_admit nor about to call it.
Runs(t, pc) == th[t].pc = pc /\ t \notin calls /\ mem_admitting # t
Goto(t, pc) == th' = [th EXCEPT ![t].pc = pc]
GotoThen(t, pc, then) == th' = [th EXCEPT ![t].pc = pc, ![t].then = then]
Has(t) == conn[th[t].c]
Set(c, rec) == conn' = [conn EXCEPT ![c] = rec]

\* t has given its connection up; it still has requests to take out of in_flight.
Leave(t) == th' = [th EXCEPT ![t].c = Null, ![t].pc = IF th[t].rel = 0 THEN th[t].home ELSE "ends"]
\* t has no connection, and one request less to take out of in_flight.
HandOver(t) == th' = [th EXCEPT ![t].c = Null, ![t].rel = @ - 1,
                                ![t].pc = IF th[t].rel = 1 THEN th[t].home ELSE "ends"]
MutexFree == ~srv.mutex

others == <<scenario, srv, tasks, rejects, todo>>

\* _release_in_flight.
Ends(t) ==
  /\ Runs(t, "ends") /\ MutexFree
  /\ srv' = [srv EXCEPT !.in_flight = @ - 1]
  /\ HandOver(t)
  /\ UNCHANGED <<scenario, left, conn, regs, tasks, rejects, todo, memVars>>

-----------------------------------------------------------------------------
(* Closing.                                                                *)

\* _conn_free, _conn_close's and _conn_on_removed's last reference.
Dropped(x) == [x EXCEPT !.refs = @ - 1, !.life = IF x.refs = 1 THEN "freed" ELSE @]

\* _conn_close: off the lists and out of the reactor, which calls on_removed later.
Close(t) ==
  /\ Runs(t, "close")
  /\ LET c == th[t].c
         x == conn[c]
     IN  /\ regs' = IF x.reg > 0 THEN [regs EXCEPT ![c][x.reg] = "removed"] ELSE regs
         /\ Set(c, [x EXCEPT !.list = "none", !.div = FALSE, !.park = "none", !.reg = 0, !.wp = "none"])
  /\ GotoThen(t, "drop", "deref")
  /\ UNCHANGED <<others, left, memVars>>

\* _conn_drop_body; a response that is parked goes on to be armed.
Drop(t) ==
  /\ Runs(t, "drop")
  /\ LET c == th[t].c
     IN  /\ IF Holds(c) \/ mem_exempt[c] THEN Release(t, c) ELSE UNCHANGED memVars
         /\ Set(c, [conn[c] EXCEPT !.cap = 0, !.len = 0])
  /\ Goto(t, IF th[t].then = "write" THEN "arm" ELSE th[t].then)
  /\ UNCHANGED <<others, left, regs>>

Deref(t) ==
  /\ Runs(t, "deref")
  /\ LET x == Dropped(Has(t))
     IN  Set(th[t].c, [x EXCEPT !.life = IF @ = "freed" THEN @ ELSE "closed"])
  /\ Leave(t)
  /\ UNCHANGED <<others, left, regs, memVars>>

\* _chttpsvr_finish_destroy with the last of the server's references.
SrvDropped(s) == [s EXCEPT !.refs = @ - 1, !.life = IF s.refs = 1 THEN "freed" ELSE @]

\* _conn_on_removed, once no dispatch of the registration runs: the
\* connection's reference, then the server's.
OnRemoved(c, n) ==
  /\ regs[c][n] = "removed" /\ \A r \in Reactors : th[r].ev # <<c, n>>
  /\ regs' = [regs EXCEPT ![c][n] = "gone"]
  /\ Set(c, Dropped(conn[c]))
  /\ srv' = SrvDropped(srv)
  /\ UNCHANGED <<scenario, left, th, tasks, rejects, todo, memVars>>

-----------------------------------------------------------------------------
(* Waiting for the peer.  A registration is armed before the connection is *)
(* listed: an event in between finds nothing to claim, and comes again.    *)

\* The reactor watches x: the registration it has, or a new one, which is a
\* reference to the connection and one to the server.
Arm(t) ==
  /\ Runs(t, "arm")
  /\ LET c == th[t].c
         x == [conn[c] EXCEPT !.div = FALSE, !.park = IF th[t].then = "idle" THEN "none" ELSE th[t].then]
         fresh == CHOOSE n \in 1 .. MaxRegs : regs[c][n] = "none" /\ \A m \in 1 .. n - 1 : regs[c][m] # "none"
     IN  \/ /\ x.reg > 0
            /\ Set(c, x) /\ regs' = [regs EXCEPT ![c][x.reg] = "on"]
            /\ Goto(t, "list")
            /\ UNCHANGED <<srv, left>>
         \/ /\ x.reg = 0 /\ \E n \in 1 .. MaxRegs : regs[c][n] = "none"
            /\ Set(c, [x EXCEPT !.reg = fresh, !.refs = @ + 1]) /\ regs' = [regs EXCEPT ![c][fresh] = "on"]
            /\ srv' = [srv EXCEPT !.refs = @ + 1]
            /\ Goto(t, "list")
            /\ UNCHANGED left
         \/ /\ Fault
            /\ Set(c, [x EXCEPT !.park = "none", !.wp = "none"])
            /\ Goto(t, "close")
            /\ UNCHANGED <<regs, srv>>
  /\ UNCHANGED <<scenario, tasks, rejects, todo, memVars>>

\* _idle_list_add, _parked_list_add.
List(t) ==
  /\ Runs(t, "list")
  /\ Set(th[t].c, [Has(t) EXCEPT !.list = IF @ # "none" THEN @ ELSE IF th[t].then = "idle" THEN "idle" ELSE "parked"])
  /\ Leave(t)
  /\ UNCHANGED <<others, left, regs, memVars>>

\* The reactor has an event for a registration and runs its callback, one at a
\* time: _conn_on_readable, _conn_on_writable or _conn_on_error.
Dispatch(r, c, n) ==
  /\ r \in scenario.reactors /\ th[r].pc = "rest" /\ regs[c][n] = "on" /\ \A q \in Reactors : th[q].ev # <<c, n>>
  /\ \E kind \in {"pump", "close"} :
       /\ kind = "close" => Can("error")
       /\ th' = [th EXCEPT ![r] = [Resting EXCEPT !.pc = "claim", !.c = c, !.ev = <<c, n>>, !.then = kind,
                                                  !.home = "returned"]]
  /\ UNCHANGED <<others, left, conn, regs, memVars>>

Returned(r) ==
  /\ Runs(r, "returned") /\ th' = [th EXCEPT ![r] = Resting]
  /\ UNCHANGED <<others, left, conn, regs, memVars>>

\* Mutant: the connection stays in its list.
Claim_StaysListed(r) ==
  /\ Runs(r, "claim")
  /\ \/ Has(r).list = "none" /\ Leave(r)
     \/ /\ Has(r).list # "none"
        /\ IF th[r].then = "close" THEN Goto(r, "close")
           ELSE IF Has(r).park = "none" THEN Goto(r, "pump")
           ELSE IF Has(r).park = "linger" THEN Goto(r, "linger_step")
           ELSE GotoThen(r, "pause", "resume")
  /\ UNCHANGED <<others, left, conn, regs, memVars>>

\* _idle_list_try_claim: whoever unlists a connection has it.
Claim(r) ==
  /\ Runs(r, "claim")
  /\ \/ Has(r).list = "none" /\ Leave(r) /\ UNCHANGED conn
     \/ /\ Has(r).list # "none"
        /\ Set(th[r].c, [Has(r) EXCEPT !.list = "none"])
        /\ IF th[r].then = "close" THEN Goto(r, "close")
           ELSE IF Has(r).park = "none" THEN Goto(r, "pump")
           ELSE IF Has(r).park = "linger" THEN Goto(r, "linger_step")
           ELSE GotoThen(r, "pause", "resume")
  /\ UNCHANGED <<others, left, regs, memVars>>

\* _conn_linger_step.
LingerStep(t) ==
  /\ Runs(t, "linger_step")
  /\ \/ GotoThen(t, "list", "linger") /\ UNCHANGED conn
     \/ Goto(t, "close") /\ UNCHANGED conn
  /\ UNCHANGED <<others, left, regs, memVars>>

-----------------------------------------------------------------------------
(* Reading a request.                                                      *)

\* What the next bytes make of the connection (_conn_feed_bytes): more are
\* needed, a request with a body of some size, or one to be refused.
Feeds(t, x) ==
  \/ GotoThen(t, "arm", "idle") /\ Set(th[t].c, x)
  \/ /\ x.reqs > 0
     /\ \E size \in scenario.sizes, declared \in scenario.declared :
          Set(th[t].c, [x EXCEPT !.size = size, !.declared = declared /\ size > 0, !.reqs = @ - 1])
     /\ GotoThen(t, "pause", "start")
  \/ /\ Can("bad") /\ x.reqs > 0
     /\ Set(th[t].c, [x EXCEPT !.reqs = @ - 1]) /\ GotoThen(t, "pause", "reject")

\* _conn_pump.
Pump(t) ==
  /\ Runs(t, "pump")
  /\ \/ ~Has(t).shut /\ Feeds(t, Has(t))
     \/ (Can("error") \/ Has(t).shut) /\ Goto(t, "close") /\ UNCHANGED conn
  /\ UNCHANGED <<others, left, regs, memVars>>

\* The head of _conn_start_diverted, _conn_dispatch_reject and
\* _conn_resume_parked: _conn_pause_reg, which removes what it cannot pause,
\* and _diverted_list_add.
Pause(t) ==
  /\ Runs(t, "pause")
  /\ LET c == th[t].c
         x == [conn[c] EXCEPT !.list = "none", !.div = TRUE]
     IN  \/ /\ regs' = IF x.reg > 0 THEN [regs EXCEPT ![c][x.reg] = "paused"] ELSE regs
            /\ Set(c, x) /\ UNCHANGED left
         \/ /\ x.reg > 0 /\ Fault
            /\ regs' = [regs EXCEPT ![c][x.reg] = "removed"]
            /\ Set(c, [x EXCEPT !.reg = 0])
  /\ Goto(t, "count")
  /\ UNCHANGED <<others, memVars>>

\* Their count of the request, and the pool they see.  A start while the server
\* drains, or without memory for the carry-over, is a refusal.  A declared body
\* that came whole with its head passes no gate.
Count(t) ==
  /\ Runs(t, "count") /\ MutexFree
  /\ srv' = [srv EXCEPT !.in_flight = @ + 1]
  /\ \E pc \in {"gate", "submit", "reject_pool"} :
       /\ th' = [th EXCEPT ![t].rel = @ + 1, ![t].pool = (srv.worker_pool = "up"), ![t].pc = pc]
       /\ LET refused == th[t].then = "reject" \/ (th[t].then = "start" /\ srv.draining)
              gated == th[t].then = "start" /\ Has(t).declared
          IN  \/ /\ IF refused THEN pc = "reject_pool"
                    ELSE \/ pc = "gate" /\ gated
                         \/ pc = "submit" /\ (gated => Can("carry"))
                 /\ UNCHANGED left
              \/ ~refused /\ pc = "reject_pool" /\ th[t].then = "start" /\ Fault
  /\ UNCHANGED <<scenario, conn, regs, tasks, rejects, todo, memVars>>

\* _conn_divert_gate: the first buffer of a declared body is reserved.
Gate(t) ==
  /\ Runs(t, "gate")
  /\ \/ Reserve(th[t].c, 1) /\ Goto(t, "submit")
     \/ ReserveFails(th[t].c, 1) /\ GotoThen(t, "enqueue", "memstart")
  /\ UNCHANGED <<others, left, conn, regs>>

\* Room for the body read so far and the next read; while the buffer grows, the
\* old one too (_body_grow_target, _drain_body_socket_read).
Ceiling(x) == IF x.declared THEN x.size ELSE MaxBody
Target(x) == IF x.len < x.cap THEN x.cap
             ELSE LET twice == IF x.cap = 0 THEN 1 ELSE 2 * x.cap
                  IN  IF twice > Ceiling(x) THEN Ceiling(x) ELSE twice

\* A body that came whole holds no reservation, and gets its size at once.
ArrivedWhole(c) == conn[c].declared /\ mem_charged[c] = 0 /\ ~mem_exempt[c]
GrowTarget(c) == IF ArrivedWhole(c) THEN conn[c].size ELSE Target(conn[c])

Want(x) == IF Target(x) <= x.cap THEN x.cap ELSE Target(x) + x.cap
Step(c) == Want(conn[c]) - mem_charged[c]

\* The request waits for memory without a thread.
EnqueueWaiter(t) ==
  /\ Runs(t, "enqueue")
  /\ LET c == th[t].c
     IN  /\ Enqueue(t, c, IF th[t].then = "memstart" THEN 1 ELSE Step(c))
         /\ Set(c, [conn[c] EXCEPT !.div = FALSE, !.park = th[t].then])
  /\ th' = [th EXCEPT ![t].c = Null, ![t].pc = "queued"]
  /\ UNCHANGED <<others, left, regs>>

\* Its _release_in_flight, before the call of _mem_admit.
Queued(t) ==
  /\ th[t].pc = "queued" /\ MutexFree
  /\ srv' = [srv EXCEPT !.in_flight = @ - 1]
  /\ HandOver(t)
  /\ UNCHANGED <<scenario, left, conn, regs, tasks, rejects, todo, memVars>>

\* _srv_submit: to the pool that was seen, unless its shutdown has begun.
Submit(t) ==
  /\ Runs(t, "submit")
  /\ LET fn == IF Has(t).park = "none" THEN "worker" ELSE "resume"
         open == th[t].pool /\ srv.worker_pool \in {"up", "detached"}
     IN  \/ /\ open /\ tasks' = Append(tasks, <<fn, th[t].c>>)
            /\ HandOver(t)
            /\ UNCHANGED <<conn, left>>
         \/ /\ IF open THEN Fault ELSE UNCHANGED left
            /\ Set(th[t].c, [Has(t) EXCEPT !.park = "none"])
            /\ Goto(t, IF Has(t).park = "write" THEN "close" ELSE "reject_pool")
            /\ UNCHANGED tasks
  /\ UNCHANGED <<scenario, srv, rejects, todo, regs, memVars>>

-----------------------------------------------------------------------------
(* Refusing.                                                               *)

\* _conn_reject_via_pool.
RejectPool(t) ==
  /\ Runs(t, "reject_pool") /\ MutexFree
  /\ Goto(t, IF srv.reject_pool = "up" THEN "reject_submit" ELSE "reject")
  /\ UNCHANGED <<others, left, conn, regs, memVars>>

RejectSubmit(t) ==
  /\ Runs(t, "reject_submit")
  /\ \/ /\ srv.reject_pool \in {"up", "detached"}
        /\ rejects' = Append(rejects, th[t].c)
        /\ HandOver(t)
        /\ UNCHANGED left
     \/ /\ IF srv.reject_pool \in {"up", "detached"} THEN Fault ELSE UNCHANGED left
        /\ Goto(t, "reject") /\ UNCHANGED rejects
  /\ UNCHANGED <<scenario, srv, tasks, todo, conn, regs, memVars>>

RejectTask(j) ==
  /\ th[j].pc = "rest" /\ rejects # <<>>
  /\ th' = [th EXCEPT ![j] = [Resting EXCEPT !.pc = "reject", !.c = Head(rejects), !.rel = 1]]
  /\ rejects' = Tail(rejects)
  /\ UNCHANGED <<scenario, left, conn, regs, srv, tasks, todo, memVars>>

\* What becomes of a send that never waits.
Sends(t, outcome) == /\ outcome = "partial" => Can("partial") /\ ~Has(t).shut
                     /\ outcome = "sent" => ~Has(t).shut
                     /\ outcome = "failed" => Can("error") \/ Has(t).shut

\* After the last response: the rest of the request is discarded, or there is none.
Over(t, x) == /\ \/ Can("linger") /\ GotoThen(t, "drop", "linger")
                 \/ Goto(t, "close")
              /\ Set(th[t].c, x)

\* _conn_reject_and_close.
Reject(t) ==
  /\ Runs(t, "reject")
  /\ \/ Sends(t, "sent") /\ Over(t, Has(t))
     \/ /\ Sends(t, "partial")
        /\ Set(th[t].c, [Has(t) EXCEPT !.wp = "reject"])
        /\ GotoThen(t, "drop", "write")
     \/ Sends(t, "failed") /\ Goto(t, "close") /\ UNCHANGED conn
  /\ UNCHANGED <<others, left, regs, memVars>>

\* _conn_linger, once the request's state is dropped.
Linger(t) ==
  /\ Runs(t, "linger")
  /\ \/ GotoThen(t, "arm", "linger")
     \/ (Can("error") \/ Has(t).shut) /\ Goto(t, "close")
  /\ UNCHANGED <<others, left, conn, regs, memVars>>

-----------------------------------------------------------------------------
(* The tasks of the worker pool.                                           *)

TakeTask(w) ==
  /\ th[w].pc = "rest" /\ tasks # <<>>
  /\ th' = [th EXCEPT ![w] = [Resting EXCEPT !.pc = Head(tasks)[1], !.c = Head(tasks)[2], !.rel = 1]]
  /\ tasks' = Tail(tasks)
  /\ UNCHANGED <<scenario, left, conn, regs, srv, rejects, todo, memVars>>

\* _task_worker: a refusal while the server drains; else "100 Continue", where
\* the client waits for it, and the body.  Without memory for the carry-over the
\* answer is an error; when "100 Continue" fails there is none.
TaskWorker(t) ==
  /\ Runs(t, "worker")
  /\ \/ srv.draining /\ Goto(t, "reject_pool") /\ UNCHANGED <<conn, left>>
     \/ ~srv.draining /\ Goto(t, "body") /\ UNCHANGED <<conn, left>>
     \/ /\ ~srv.draining /\ Fault
        /\ Set(th[t].c, [Has(t) EXCEPT !.keep = FALSE]) /\ GotoThen(t, "drop", "answer")
     \/ /\ ~srv.draining /\ Can("interim") /\ Has(t).size > 0
        /\ \/ Sends(t, "failed") /\ GotoThen(t, "drop", "close") /\ UNCHANGED conn
           \/ /\ Sends(t, "partial")
              /\ Set(th[t].c, [Has(t) EXCEPT !.wp = "interim"]) /\ GotoThen(t, "arm", "write")
        /\ UNCHANGED left
  /\ UNCHANGED <<others, regs, memVars>>

TrimTo(t, c, keep) == IF mem_charged[c] > keep THEN Trim(t, c, keep) ELSE UNCHANGED memVars

\* _task_resume of a parked body: _task_read_body_and_finish, unless the time has
\* run out meanwhile.
ResumeBody(t) ==
  /\ Runs(t, "resume") /\ Has(t).wp = "none"
  /\ LET x == [Has(t) EXCEPT !.park = "none"]
     IN  \/ Goto(t, "body") /\ Set(th[t].c, x) /\ UNCHANGED memVars
         \/ /\ Can("error")
            /\ Set(th[t].c, [x EXCEPT !.keep = FALSE])
            /\ TrimTo(t, th[t].c, x.cap) /\ GotoThen(t, "drop", "answer")
  /\ UNCHANGED <<others, left, regs>>

\* _task_resume of a parked write: _task_continue_write, _task_continue_interim,
\* which treat a time that has run out as a failure.
ResumeWrite(t) ==
  /\ Runs(t, "resume") /\ Has(t).wp # "none"
  /\ LET x == [Has(t) EXCEPT !.park = "none"]
         ended == [x EXCEPT !.wp = "none"]
     IN  \/ Sends(t, "partial") /\ GotoThen(t, "arm", "write") /\ Set(th[t].c, x)
         \/ Sends(t, "failed") /\ Goto(t, "close") /\ Set(th[t].c, ended)
         \/ x.wp = "interim" /\ Sends(t, "sent") /\ Goto(t, "body") /\ Set(th[t].c, ended)
         \/ x.wp = "reject" /\ Sends(t, "sent") /\ Over(t, ended)
         \/ /\ x.wp = "response" /\ Sends(t, "sent")
            /\ IF x.keep /\ ~srv.draining THEN Goto(t, "tail") /\ Set(th[t].c, ended) ELSE Over(t, ended)
  /\ UNCHANGED <<others, left, regs, memVars>>

\* _drain_body: reserve, then read; what came with the head of the request is
\* there without.  The end of a body whose length is not declared comes with its
\* last bytes or with a read of its own, which leaves memory to give back
\* (_mem_settle) before the handler runs.
Body(t) ==
  /\ Runs(t, "body")
  /\ LET c == th[t].c
     IN  \/ /\ conn[c].len = conn[c].size /\ (conn[c].declared \/ conn[c].size = 0)
            /\ Goto(t, "handler") /\ UNCHANGED memVars
         \/ /\ Can("carry") /\ conn[c].len = 0 /\ conn[c].size > 0
            /\ GotoThen(t, "read", "carry") /\ UNCHANGED memVars
         \/ /\ conn[c].len < conn[c].size \/ (conn[c].size > 0 /\ ~conn[c].declared)
            /\ ~ArrivedWhole(c)
            /\ \/ Step(c) <= 0 /\ Goto(t, "read") /\ UNCHANGED memVars
               \/ Step(c) > 0 /\ Reserve(c, Step(c)) /\ Goto(t, "read")
               \/ Step(c) > 0 /\ ReserveFails(c, Step(c)) /\ GotoThen(t, "enqueue", "membody")
  /\ UNCHANGED <<others, left, conn, regs>>

\* The read, _on_body's growth of the buffer, and _task_park_body when there
\* was nothing to read.
ReadBody(t) ==
  /\ Runs(t, "read")
  /\ LET c == th[t].c
         x == conn[c]
     IN  \/ /\ ~x.shut \/ th[t].then = "carry"
            /\ x.len < x.size
            /\ Set(c, [x EXCEPT !.len = IF ArrivedWhole(c) THEN x.size ELSE @ + 1, !.cap = GrowTarget(c)])
            /\ IF GrowTarget(c) > x.cap THEN TrimTo(t, c, GrowTarget(c)) ELSE UNCHANGED memVars
            /\ \/ GotoThen(t, "body", "none")
               \/ ~x.declared /\ x.len + 1 = x.size /\ GotoThen(t, "handler", "none")
         \/ /\ ~x.shut /\ x.len = x.size
            /\ TrimTo(t, c, x.cap) /\ Goto(t, "handler") /\ UNCHANGED conn
         \/ /\ ~x.shut /\ Can("stall") /\ th[t].then # "carry"
            /\ IF x.cap > 0 THEN TrimTo(t, c, x.cap) ELSE UNCHANGED memVars
            /\ GotoThen(t, "arm", "body") /\ UNCHANGED conn
         \/ /\ (Can("error") \/ x.shut) /\ th[t].then # "carry"
            /\ Set(c, [x EXCEPT !.keep = FALSE])
            /\ GotoThen(t, "drop", "answer") /\ TrimTo(t, c, x.cap)
  /\ UNCHANGED <<others, left, regs>>

\* The handler, and _task_finish: the body goes before the answer is sent.
Handler(t) ==
  /\ Runs(t, "handler")
  /\ \E k \in BOOLEAN : (k => Can("keep") /\ ~srv.draining) /\ Set(th[t].c, [Has(t) EXCEPT !.keep = k])
  /\ GotoThen(t, "drop", "answer")
  /\ UNCHANGED <<others, left, regs, memVars>>

\* _task_finish's response, and the end of _task_tail for a connection that is
\* not kept.
Answer(t) ==
  /\ Runs(t, "answer")
  /\ LET x == Has(t)
     IN  \/ Sends(t, "sent") /\ IF x.keep THEN Goto(t, "tail") /\ UNCHANGED conn ELSE Over(t, x)
         \/ Sends(t, "partial") /\ GotoThen(t, "arm", "write") /\ Set(th[t].c, [x EXCEPT !.wp = "response"])
         \/ Sends(t, "failed") /\ Goto(t, "close") /\ UNCHANGED conn
  /\ UNCHANGED <<others, left, regs, memVars>>

\* _task_tail of a kept connection: what the client sent ahead is fed first.
TaskTail(t) ==
  /\ Runs(t, "tail")
  /\ LET x == [Has(t) EXCEPT !.div = FALSE, !.size = 0, !.len = 0, !.cap = 0, !.keep = FALSE]
     IN  \/ GotoThen(t, "arm", "idle") /\ Set(th[t].c, x)
         \/ Can("ahead") /\ Feeds(t, x)
         \/ Can("error") /\ Goto(t, "close") /\ Set(th[t].c, x)
  /\ UNCHANGED <<others, left, regs, memVars>>

-----------------------------------------------------------------------------
(* The admission loop.                                                     *)

AdmitCall(t) ==
  /\ \/ t # "expired" /\ th[t].pc # "queued"
     \/ t = "expired" /\ todo["sweep"] = {} /\ Runs("sweep", "waits_over")
  /\ Admit(t)
  /\ UNCHANGED srvVars

AdmitLoop == (AdmitHead \/ AdmitLooked \/ (th["admitter"].pc = "rest" /\ AdmitAgain)) /\ UNCHANGED srvVars

\* _mem_dispatch.
MemDispatch ==
  /\ th["admitter"].pc = "rest" /\ TakeBatch
  /\ LET c == Head(batch)
     IN  /\ Set(c, [conn[c] EXCEPT !.park = IF @ = "membody" THEN "body" ELSE "none", !.div = TRUE])
         /\ th' = [th EXCEPT !["admitter"] = [Resting EXCEPT !.pc = "count", !.c = c, !.then = "admitted"]]
  /\ UNCHANGED <<others, left, regs>>

-----------------------------------------------------------------------------
(* The listener.                                                           *)

Listening(r) == th[r].ev = <<"listener", 0>>

\* _listener_on_readable: called, then pinned, then at most until stopped.
ListenerCalled(r) ==
  /\ r \in scenario.reactors /\ th[r].pc = "rest" /\ srv.lreg = "on" /\ \A q \in Reactors : ~Listening(q)
  /\ \E c \in scenario.fresh : conn[c].life = "none"
  /\ th' = [th EXCEPT ![r] = [Resting EXCEPT !.pc = "listener", !.ev = <<"listener", 0>>]]
  /\ UNCHANGED <<others, left, conn, regs, memVars>>

ListenerPins(r) ==
  /\ Runs(r, "listener") /\ MutexFree
  /\ srv' = [srv EXCEPT !.lpins = @ + 1]
  /\ Goto(r, IF srv.listening THEN "accept" ELSE "unpin")
  /\ UNCHANGED <<scenario, left, conn, regs, tasks, rejects, todo, memVars>>

\* _listener_on_readable_impl.
Accept(r) ==
  /\ Runs(r, "accept")
  /\ \/ \E c \in scenario.fresh :
          /\ conn[c].life = "none"
          /\ Set(c, [NoConn EXCEPT !.life = "open", !.refs = 1, !.reqs = scenario.reqs])
          /\ th' = [th EXCEPT ![r].pc = "pump", ![r].c = c, ![r].home = "accept"]
     \/ Goto(r, "unpin") /\ UNCHANGED conn
  /\ UNCHANGED <<others, left, regs, memVars>>

ListenerUnpins(r) ==
  /\ Runs(r, "unpin") /\ MutexFree
  /\ srv' = [srv EXCEPT !.lpins = @ - 1]
  /\ th' = [th EXCEPT ![r] = Resting]
  /\ UNCHANGED <<scenario, left, conn, regs, tasks, rejects, todo, memVars>>

\* _listener_on_removed.
ListenerRemoved ==
  /\ srv.lreg = "removed" /\ \A r \in Reactors : ~Listening(r)
  /\ srv' = [SrvDropped(srv) EXCEPT !.lreg = "gone"]
  /\ UNCHANGED <<scenario, left, conn, regs, th, tasks, rejects, todo, memVars>>

-----------------------------------------------------------------------------
(* The sweep, _idle_sweep_fn: it pins the server, unlists what has been    *)
(* there too long, and closes or refuses it.                               *)

SweepBegins ==
  /\ th["sweep"].pc = "rest" /\ srv.swept /\ left.sweeps > 0
  /\ left' = [left EXCEPT !.sweeps = @ - 1]
  /\ srv' = [srv EXCEPT !.spins = @ + 1]
  /\ Goto("sweep", "scan")
  /\ UNCHANGED <<scenario, conn, regs, tasks, rejects, todo, memVars>>

Listed(l) == {c \in Conns : conn[c].list = l}
Unlisted(cs) == conn' = [c \in Conns |-> IF c \in cs THEN [conn[c] EXCEPT !.list = "none"] ELSE conn[c]]

\* The section of idle_mutex in _sweep_server.  A parked write whose progress
\* only the kernel knows is looked at outside it, among the first.
SweepScan ==
  /\ Runs("sweep", "scan")
  /\ \E late \in SUBSET (Listed("idle") \cup Listed("parked")) :
       \E asked \in SUBSET {c \in late : conn[c].park = "write"} :
         /\ Unlisted(late)
         /\ LET kind(c) == IF c \in asked THEN "query" ELSE IF conn[c].park = "body" THEN "pause" ELSE "close"
            IN  todo' = [todo EXCEPT !["sweep"] = @ \cup {<<c, kind(c)>> : c \in late}]
  /\ Goto("sweep", "sweeping")
  /\ UNCHANGED <<scenario, left, regs, srv, tasks, rejects, memVars>>

\* _conn_close, _conn_dispatch_reject, or back into the list.
SweepNext ==
  /\ th["sweep"].pc \in {"sweeping", "waits_over"} /\ Runs("sweep", th["sweep"].pc)
  /\ \E c \in Conns, k \in {"query", "close", "pause"}, pc \in {"close", "pause", "list"} :
       /\ <<c, k>> \in todo["sweep"]
       /\ \A late \in todo["sweep"] : (late[2] = "query" => k = "query") /\ (late[2] = "close" => k # "pause")
       /\ pc = k \/ (k = "query" /\ pc \in {"close", "list"})
       /\ th' = [th EXCEPT !["sweep"] = [Resting EXCEPT !.pc = pc, !.c = c, !.home = th["sweep"].pc,
                               !.then = IF pc = "pause" THEN "reject" ELSE conn[c].park]]
       /\ IF pc = "list" THEN UNCHANGED conn ELSE Set(c, [conn[c] EXCEPT !.park = "none"])
       /\ todo' = [todo EXCEPT !["sweep"] = @ \ {<<c, k>>}]
  /\ UNCHANGED <<scenario, left, regs, srv, tasks, rejects, memVars>>

\* _sweep_parked_waits.
SweepWaits ==
  /\ Runs("sweep", "sweeping") /\ todo["sweep"] = {}
  /\ \E late \in SUBSET ToSet(mem_list) :
       /\ late # {} => Can("expire")
       /\ ExpireWaiters("expired", late)
       /\ todo' = [todo EXCEPT !["sweep"] = {<<c, "pause">> : c \in late}]
  /\ Goto("sweep", "waits_over")
  /\ UNCHANGED <<scenario, left, conn, regs, srv, tasks, rejects>>

SweepEnds ==
  /\ Runs("sweep", "waits_over") /\ todo["sweep"] = {} /\ "expired" \notin calls /\ mem_admitting # "expired"
  /\ MutexFree
  /\ srv' = [srv EXCEPT !.spins = @ - 1]
  /\ th' = [th EXCEPT !["sweep"] = Resting]
  /\ UNCHANGED <<scenario, left, conn, regs, tasks, rejects, todo, memVars>>

-----------------------------------------------------------------------------
(* Destruction: __chttpsvr_destroy and _quiesce_server_once.               *)

DestroyerGoes(from, to) == Runs("destroyer", from) /\ Goto("destroyer", to)
untouched == <<scenario, left, conn, regs, tasks, rejects, todo>>

Destroy ==
  /\ Can("destroy") /\ DestroyerGoes("rest", "stop")
  /\ srv' = [srv EXCEPT !.draining = TRUE]
  /\ UNCHANGED <<untouched, memVars>>

\* _chttpsvr_stop_internal.
Stop ==
  /\ DestroyerGoes("stop", "stopping")
  /\ srv' = [srv EXCEPT !.listening = FALSE, !.lreg = "removed"]
  /\ UNCHANGED <<untouched, memVars>>

Stopped ==
  /\ DestroyerGoes("stopping", "drain") /\ srv.lpins = 0
  /\ UNCHANGED <<untouched, srv, memVars>>

\* Mutant: connections are still admitted.
Drain_StillAdmits == DestroyerGoes("drain", "close_idle") /\ UNCHANGED <<untouched, srv, memVars>>

\* _drain_and_close_all_connections.
Drain == DestroyerGoes("drain", "close_idle") /\ CloseAdmission /\ UNCHANGED <<untouched, srv>>

\* _close_idle_connections, for the lists ls; to is where it ends.
CloseListed(from, ls, to) ==
  /\ Runs("destroyer", from) /\ todo["destroyer"] = {}
  /\ LET cs == UNION {Listed(l) : l \in ls}
     IN  /\ Unlisted(cs)
         /\ todo' = [todo EXCEPT !["destroyer"] = cs]
         /\ Goto("destroyer", IF cs = {} THEN to ELSE from)
  /\ UNCHANGED <<scenario, left, regs, srv, tasks, rejects, memVars>>

CloseIdle == CloseListed("close_idle", {"idle"}, "wait")
CloseAll == CloseListed("close_all", {"idle", "parked"}, "flush")

CloseNext ==
  /\ th["destroyer"].pc \in {"close_idle", "close_all", "flush"} /\ Runs("destroyer", th["destroyer"].pc)
  /\ \E c \in todo["destroyer"] :
       /\ Set(c, [conn[c] EXCEPT !.park = "none"])
       /\ th' = [th EXCEPT !["destroyer"] = [Resting EXCEPT !.pc = "close", !.c = c, !.home = th["destroyer"].pc]]
       /\ todo' = [todo EXCEPT !["destroyer"] = @ \ {c}]
  /\ UNCHANGED <<scenario, left, regs, srv, tasks, rejects, memVars>>

\* _wait_in_flight_bounded: twice, and at the first timeout the sockets of
\* diverted connections are shut down.
ForceUnblock ==
  /\ DestroyerGoes("wait", "wait_again") /\ srv.in_flight > 0
  /\ conn' = [c \in Conns |-> IF conn[c].div THEN [conn[c] EXCEPT !.shut = TRUE] ELSE conn[c]]
  /\ UNCHANGED <<scenario, left, regs, srv, tasks, rejects, todo, memVars>>

\* The pools are taken away, with srv->mutex held from here to FlushEnds.
Detach ==
  /\ th["destroyer"].pc \in {"wait", "wait_again"}
  /\ srv.in_flight = 0 \/ th["destroyer"].pc = "wait_again"
  /\ DestroyerGoes(th["destroyer"].pc, "close_all")
  /\ srv' = [srv EXCEPT !.mutex = TRUE, !.worker_pool = "detached", !.reject_pool = "detached"]
  /\ UNCHANGED <<untouched, memVars>>

Flush ==
  /\ Runs("destroyer", "flush") /\ todo["destroyer"] = {} /\ FlushWaiters
  /\ todo' = [todo EXCEPT !["destroyer"] = ToSet(mem_list)]
  /\ UNCHANGED <<scenario, left, conn, regs, srv, th, tasks, rejects>>

FlushEnds ==
  /\ todo["destroyer"] = {} /\ mem_list = <<>> /\ ~locked
  /\ DestroyerGoes("flush", "poll")
  /\ srv' = [srv EXCEPT !.mutex = FALSE]
  /\ UNCHANGED <<untouched, memVars>>

\* The poll of current_connections, which also closes what has come back, until
\* there is none or the time is up.
Poll ==
  /\ Runs("destroyer", "poll")
  /\ LET none == \A c \in Conns : conn[c].life \in {"none", "freed"}
     IN  \/ (none \/ Can("deadline")) /\ Goto("destroyer", "pools")
         \/ ~none /\ Goto("destroyer", "close_all")
  /\ UNCHANGED <<untouched, srv, memVars>>

\* _destroy_detached_pools: each drains and joins.
PoolShuts ==
  /\ DestroyerGoes("pools", "join_workers")
  /\ srv' = [srv EXCEPT !.worker_pool = "shut"]
  /\ UNCHANGED <<untouched, memVars>>

WorkersJoin ==
  /\ DestroyerGoes("join_workers", "join_rejecters")
  /\ tasks = <<>> /\ \A w \in Workers : th[w].pc = "rest" /\ w \notin calls /\ mem_admitting # w
  /\ srv' = [srv EXCEPT !.reject_pool = "shut"]
  /\ UNCHANGED <<untouched, memVars>>

\* _servers_unregister.
RejectersJoin ==
  /\ DestroyerGoes("join_rejecters", "pins")
  /\ rejects = <<>> /\ \A j \in Rejecters : th[j].pc = "rest" /\ j \notin calls /\ mem_admitting # j
  /\ srv' = [srv EXCEPT !.swept = FALSE]
  /\ UNCHANGED <<untouched, memVars>>

\* Mutant: the sweep may still be at this server.
DestroyEnds_NoPins ==
  /\ DestroyerGoes("pins", "done")
  /\ srv' = SrvDropped(srv)
  /\ UNCHANGED <<untouched, memVars>>

\* Nobody new can pin the server; then its own reference goes.
DestroyEnds ==
  /\ DestroyerGoes("pins", "done") /\ srv.spins = 0 /\ srv.lpins = 0
  /\ srv' = SrvDropped(srv)
  /\ UNCHANGED <<untouched, memVars>>

-----------------------------------------------------------------------------
\* Everything a thread does with the connection it has.
ConnStep(t) ==
  \/ Ends(t) \/ Close(t) \/ Drop(t) \/ Deref(t) \/ Arm(t) \/ List(t)
  \/ LingerStep(t) \/ Pump(t) \/ Pause(t) \/ Count(t) \/ Gate(t) \/ EnqueueWaiter(t) \/ Queued(t) \/ Submit(t)
  \/ RejectPool(t) \/ RejectSubmit(t) \/ Reject(t) \/ Linger(t)
  \/ TaskWorker(t) \/ ResumeBody(t) \/ ResumeWrite(t) \/ Body(t) \/ ReadBody(t) \/ Handler(t) \/ Answer(t) \/ TaskTail(t)

ReactorStep(r) == Claim(r) \/ Returned(r) \/ ListenerPins(r) \/ Accept(r) \/ ListenerUnpins(r)
SweepStep == SweepBegins \/ SweepScan \/ SweepNext \/ SweepWaits \/ SweepEnds
DestroyStep == \/ Stop \/ Stopped \/ Drain \/ CloseIdle \/ CloseAll \/ CloseNext \/ ForceUnblock \/ Detach
               \/ Flush \/ FlushEnds \/ Poll \/ PoolShuts \/ WorkersJoin \/ RejectersJoin \/ DestroyEnds
Removals == ListenerRemoved \/ \E c \in Conns, n \in 1 .. MaxRegs : OnRemoved(c, n)

\* Nothing left to do.
Finished ==
  /\ \A t \in Threads : th[t].pc \in {"rest", "done"}
  /\ Can("deadline") \/ \A c \in Conns : conn[c].life \in {"none", "freed"}
  /\ UNCHANGED vars

Next ==
  \/ \E t \in Threads : ConnStep(t)
  \/ \E t \in Callers : AdmitCall(t)
  \/ \E r \in Reactors : ReactorStep(r) \/ ListenerCalled(r) \/ \E c \in Conns, n \in 1 .. MaxRegs : Dispatch(r, c, n)
  \/ \E w \in Workers : TakeTask(w)
  \/ \E j \in Rejecters : RejectTask(j)
  \/ AdmitLoop \/ MemDispatch \/ Removals \/ SweepStep \/ Destroy \/ DestroyStep
  \/ Finished

Spec == Init /\ [][Next]_vars

-----------------------------------------------------------------------------
\* The server follows the protocol of BodyMemory: what holds for MemSpec holds
\* here, whatever the connections, the sweep and the destroyer do.
ImplementsBodyMemory == MemSpec

\* The places a connection is in.
In(q, c) == {i \in DOMAIN q : q[i] = c}
Places(c) ==
  {<<"thread", t>> : t \in {u \in Threads : th[u].c = c /\ th[u].pc # "claim"}}
    \cup {<<"list", l>> : l \in {conn[c].list} \ {"none"}}
    \cup {<<"memory", i>> : i \in In(mem_list, c)} \cup {<<"batch", i>> : i \in In(batch, c)}
    \cup {<<"task", i>> : i \in {k \in DOMAIN tasks : tasks[k][2] = c}} \cup {<<"reject", i>> : i \in In(rejects, c)}
    \cup {<<"sweep", late>> : late \in {l \in todo["sweep"] : l[1] = c}}
    \cup {<<"destroyer", d>> : d \in todo["destroyer"] \cap {c}}

\* A connection is in one place at a time and never in none, until it is
\* closed, once: no two threads work on it and nobody forgets it.  A callback
\* that has yet to claim it may look at it, so it is not freed before.
OneHolder ==
  \A c \in Conns :
    /\ Cardinality(Places(c)) = IF conn[c].life = "open" THEN 1 ELSE 0
    /\ conn[c].life = "freed" => \A t \in Threads : th[t].c # c

\* The server outlives everyone who may still use it: callbacks, on_removed,
\* tasks, the sweep and the destroyer's own work.
ServerLives ==
  srv.life = "freed" =>
    /\ \A t \in Threads : th[t].pc \in {"rest", "done"} /\ t \notin calls /\ mem_admitting # t
    /\ \A c \in Conns, n \in 1 .. MaxRegs : regs[c][n] \in {"none", "gone"}
=============================================================================
