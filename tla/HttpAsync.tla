------------------------------ MODULE HttpAsync ------------------------------
(***************************************************************************)
(* Asynchronous requests of the HTTP client (src/src/chttpclient.c).  A    *)
(* request is a chain: the future it fulfils and what its hops share.  A   *)
(* hop runs on a ctx, one connection registered with the reactor, whose    *)
(* callbacks the event loop runs one at a time.  A finished hop leaves its *)
(* ctx in the client's idle pool, still registered, and a thread that      *)
(* submits a request may take it from there while a callback of it runs.   *)
(* A sweep thread enforces the deadlines, and a destroy waits for all of   *)
(* it.  The peer, the network and the reactor are the environment.         *)
(*                                                                         *)
(* A section of cli->lock, chain->lock or deadline_lock is one step;       *)
(* idle_lock is held over several, and sw.node is the stripe lock of the   *)
(* ctx the sweep is at.  Every request goes to one origin, by name.        *)
(***************************************************************************)
EXTENDS Integers, Sequences, FiniteSets

CONSTANTS Requests, Ctxs, Scenarios, Null, MaxIdle

VARIABLES
  scenario,        \* what is asked for, and how often the environment surprises
  ctx,             \* chttp_async_ctx_t, by ctx
  chain,           \* chttp_async_chain_t, by request
  cli, engine,     \* the client; reactor_refs
  lock,            \* idle_lock of a ctx: who holds it
  act,             \* what the submitter of a request, or the callback of a ctx, does
  sw, dst,         \* the sweep; the thread that destroys the client
  net,             \* the connection of a ctx as the peer has it
  execs,           \* how often the peer carried out the current hop of a request
  expired,         \* requests whose deadline has passed
  surprises        \* how often the environment may still do each

envVars == <<net, execs, expired, surprises>>
vars == <<scenario, ctx, chain, cli, engine, lock, act, sw, dst, envVars>>

Actors == Requests \cup Ctxs
NoCtx == [life |-> "none", st |-> "connecting", chain |-> Null, gen |-> 0, fd |-> FALSE,
          reg |-> "none", reused |-> FALSE, checked |-> FALSE, sent |-> 0, bytes |-> FALSE,
          unsafe |-> FALSE, done |-> FALSE, timed |-> FALSE, abandoned |-> FALSE, tainted |-> FALSE,
          pending |-> FALSE, decided |-> FALSE, due |-> FALSE]
NoChain == [refs |-> 0, res |-> "none", gen |-> 0, hop |-> 0]
NoNet == [up |-> "syn", inbox |-> <<>>, fin |-> FALSE, shut |-> FALSE, hs |-> FALSE,
          req |-> <<Null, 0>>, got |-> "none", half |-> "none"]
Rest == [pc |-> "idle", r |-> Null, c |-> Null, ev |-> "none", keep |-> FALSE, then |-> "none"]
NoSweep == [pc |-> "idle", node |-> Null, r |-> Null, early |-> FALSE]

\* A client that has not been used, or has one idle connection, ctx 1.
Init ==
  /\ scenario \in Scenarios
  /\ ctx = [c \in Ctxs |-> IF scenario.pooled /\ c = 1
                              THEN [NoCtx EXCEPT !.life = "live", !.st = "idle", !.fd = TRUE, !.reg = "read"]
                              ELSE NoCtx]
  /\ net = [c \in Ctxs |-> IF scenario.pooled /\ c = 1 THEN [NoNet EXCEPT !.up = "up", !.hs = TRUE] ELSE NoNet]
  /\ chain = [r \in Requests |-> NoChain] /\ execs = [r \in Requests |-> 0]
  /\ cli = [alive |-> TRUE, destroying |-> FALSE, gen |-> 0, inflight |-> 0,
            pool |-> IF scenario.pooled THEN <<1>> ELSE <<>>, idle |-> IF scenario.pooled THEN 1 ELSE 0]
  /\ engine = cli.idle /\ lock = [c \in Ctxs |-> Null]
  /\ act = [a \in Actors |-> Rest] /\ sw = NoSweep /\ dst = "idle"
  /\ expired = {} /\ surprises = scenario.surprises

Surprise(k) == surprises[k] > 0 /\ surprises' = [surprises EXCEPT ![k] = @ - 1]
Dead(c) == net[c].fin \/ net[c].shut
Goto(a, pc) == act' = [act EXCEPT ![a].pc = pc]
Shut(n, cs) == [c \in Ctxs |-> IF c \in cs THEN [n[c] EXCEPT !.shut = TRUE] ELSE n[c]]

-----------------------------------------------------------------------------
(* The chain.                                                              *)

\* _async_fulfill_chain: the first result is the request's.
Fulfilled(ch, r, res) == IF ch[r].res = "none" THEN [ch EXCEPT ![r].res = res] ELSE ch

\* _async_chain_retain.
Retained(ch, r) == [ch EXCEPT ![r].refs = @ + 1]

\* _async_chain_release, ch being the chains before it.  The last reference
\* also gives the engine back and lets a destroy go on.
Release(ch, r) ==
  \/ /\ ch[r].refs > 1
     /\ chain' = [ch EXCEPT ![r].refs = @ - 1]
     /\ UNCHANGED <<engine, cli>>
  \/ /\ ch[r].refs = 1
     /\ chain' = [Fulfilled(ch, r, "aborted") EXCEPT ![r].refs = 0]
     /\ engine' = engine - 1
     /\ cli' = [cli EXCEPT !.inflight = @ - 1]

\* _async_ctx_create and _async_connect_begin of a new ctx n for request r: its
\* connect task is queued to the DNS pool.
Unused == {n \in Ctxs : ctx[n].life = "none" /\ \A m \in Ctxs : m < n => ctx[m].life # "none"}
NewCtx(x, n, r) == [x EXCEPT ![n] = [NoCtx EXCEPT !.life = "live", !.chain = r, !.gen = chain[r].gen]]
ConnectTask(t, n, r) == [t EXCEPT ![n] = [Rest EXCEPT !.pc = "lookup", !.r = r]]

\* _chttp_do_async_internal, up to its call of _async_submit_hop, and the
\* reference that takes.
Submit(r) ==
  /\ act[r].pc = "idle" /\ r \in scenario.asked /\ ~cli.destroying
  /\ scenario.inTurn => \A q \in Requests \ {r} : chain[q].refs > 0 => chain[q].res # "none"
  /\ chain' = [chain EXCEPT ![r] = [NoChain EXCEPT !.refs = 1, !.gen = cli.gen]]
  /\ engine' = engine + 1
  /\ cli' = [cli EXCEPT !.inflight = @ + 1]
  /\ act' = [act EXCEPT ![r] = [Rest EXCEPT !.pc = "take", !.r = r]]
  /\ UNCHANGED <<scenario, ctx, lock, sw, dst, envVars>>

-----------------------------------------------------------------------------
(* _async_submit_hop by actor a, of request act[a].r.                      *)

\* A pooled ctx that _async_idle_pool_take may hand out.
Usable(c) == ~scenario.https \/ ctx[c].gen = cli.gen

\* The pool after its last element has taken the place of element i.
SwapRemoved(p, i) ==
  [j \in 1..(Len(p) - 1) |-> IF j = i THEN p[Len(p)] ELSE p[j]]

\* _async_idle_pool_take: from the back of the pool; a ctx that cannot be used
\* is shut down on the way and left for its callback to evict.
TakePooled(a) ==
  /\ act[a].pc = "take"
  /\ \E i \in DOMAIN cli.pool :
       /\ Usable(cli.pool[i])
       /\ \A j \in DOMAIN cli.pool : j > i => ~Usable(cli.pool[j])
       /\ cli' = [cli EXCEPT !.pool = SwapRemoved(@, i), !.idle = @ - 1]
       /\ net' = Shut(net, {cli.pool[j] : j \in (i + 1)..Len(cli.pool)})
       /\ act' = [act EXCEPT ![a].pc = "lock", ![a].c = cli.pool[i]]
  /\ UNCHANGED <<scenario, ctx, chain, engine, lock, sw, dst, execs, expired, surprises>>

\* No such ctx: a fresh one, or no memory for it.
TakeFresh(a) ==
  /\ act[a].pc = "take" /\ \A i \in DOMAIN cli.pool : ~Usable(cli.pool[i])
  /\ net' = Shut(net, {cli.pool[i] : i \in DOMAIN cli.pool})
  /\ \/ \E n \in Unused :
          /\ ctx' = NewCtx(ctx, n, act[a].r)
          /\ act' = ConnectTask([act EXCEPT ![a].pc = "end"], n, act[a].r)
          /\ UNCHANGED <<chain, cli, engine, surprises>>
     \/ /\ Surprise("fault")
        /\ Release(Fulfilled(chain, act[a].r, "failed"), act[a].r)
        /\ Goto(a, "end")
        /\ UNCHANGED ctx
  /\ UNCHANGED <<scenario, lock, sw, dst, execs, expired>>

\* The end of _async_idle_pool_take: idle_lock stays locked.
LockTaken(a) ==
  /\ act[a].pc = "lock" /\ lock[act[a].c] = Null
  /\ lock' = [lock EXCEPT ![act[a].c] = a]
  /\ ctx' = [ctx EXCEPT ![act[a].c].timed = FALSE, ![act[a].c].chain = act[a].r, ![act[a].c].st = "writing"]
  /\ Goto(a, "setup")
  /\ UNCHANGED <<scenario, chain, cli, engine, sw, dst, envVars>>

\* The hop is set up on the taken ctx and its registration flipped to write.
Reactivate(a) ==
  \E c \in {act[a].c} :
    /\ act[a].pc = "setup"
    /\ ctx' = [ctx EXCEPT ![c].reused = TRUE, ![c].checked = FALSE, ![c].reg = "write"]
    /\ lock' = [lock EXCEPT ![c] = Null]
    /\ Goto(a, "unpool")
    /\ UNCHANGED <<scenario, chain, cli, engine, sw, dst, envVars>>

\* _async_submit_hop_fail of a taken ctx: no thread but its callback may free it.
SetupFails(a) ==
  \E c \in {act[a].c} :
    /\ act[a].pc = "setup" /\ Surprise("fault")
    /\ chain' = Fulfilled(chain, act[a].r, "failed")
    /\ ctx' = [ctx EXCEPT ![c].reused = TRUE, ![c].pending = TRUE, ![c].done = TRUE]
    /\ Goto(a, "abandon")
    /\ UNCHANGED <<scenario, cli, engine, lock, sw, dst, net, execs, expired>>

\* ceventloop_modify refuses the flip: the hop is retried on a fresh ctx.
ReactivateFails(a) ==
  \E c \in {act[a].c}, n \in Unused :
    /\ act[a].pc = "setup" /\ Surprise("fault")
    /\ chain' = Retained(chain, act[a].r)
    /\ ctx' = NewCtx([ctx EXCEPT ![c].reused = TRUE, ![c].pending = TRUE, ![c].done = TRUE], n, act[a].r)
    /\ act' = ConnectTask([act EXCEPT ![a].pc = "abandon"], n, act[a].r)
    /\ UNCHANGED <<scenario, cli, engine, lock, sw, dst, net, execs, expired>>

\* The shutdown makes the reactor call back, which tears the ctx down.
Abandon(a) ==
  /\ act[a].pc = "abandon"
  /\ net' = Shut(net, {act[a].c})
  /\ lock' = [lock EXCEPT ![act[a].c] = Null]
  /\ Goto(a, "unpool")
  /\ UNCHANGED <<scenario, ctx, chain, cli, engine, sw, dst, execs, expired, surprises>>

\* The end of _async_submit_hop, which gives back the reference a taken ctx had
\* to the engine; then its caller's: chttpcli_do_async unpins the client, a
\* redirect gives back the reference it held.
SubmitReturns(a) ==
  /\ act[a].pc \in {"unpool", "end"}
  /\ engine' = IF act[a].pc = "unpool" THEN engine - 1 ELSE engine
  /\ act' = IF a \in Requests THEN [act EXCEPT ![a].pc = "done"]
                              ELSE [act EXCEPT ![a].pc = "release", ![a].then = "none"]
  /\ UNCHANGED <<scenario, ctx, chain, cli, lock, sw, dst, envVars>>

-----------------------------------------------------------------------------
(* _async_connect_task of ctx c.                                           *)

\* The hop ends with result res: at each stage if the sweep has marked it, or
\* if the stage fails.
TaskEnds(c, res) == chain' = Fulfilled(chain, act[c].r, res) /\ Goto(c, "teardown")
StageEnds(c) ==
  \/ ctx[c].timed /\ TaskEnds(c, "timeout") /\ UNCHANGED surprises
  \/ ~ctx[c].timed /\ TaskEnds(c, "failed") /\ Surprise("fault")

Lookup(c) ==
  /\ act[c].pc = "lookup"
  /\ \/ StageEnds(c)
     \/ ~ctx[c].timed /\ Goto(c, "connect") /\ UNCHANGED <<chain, surprises>>
  /\ UNCHANGED <<scenario, ctx, cli, engine, lock, sw, dst, net, execs, expired>>

\* The name is known; the connect starts, and _async_connect_register stores
\* the fd before it looks at the mark.
Connect(c) ==
  /\ act[c].pc = "connect"
  /\ \/ StageEnds(c) /\ UNCHANGED ctx
     \/ /\ ~ctx[c].timed
        /\ ctx' = [ctx EXCEPT ![c].fd = TRUE]
        /\ Goto(c, "register") /\ UNCHANGED <<chain, surprises>>
  /\ UNCHANGED <<scenario, cli, engine, lock, sw, dst, net, execs, expired>>

Register(c) ==
  /\ act[c].pc = "register"
  /\ \/ StageEnds(c) /\ UNCHANGED ctx
     \/ /\ ~ctx[c].timed
        /\ ctx' = [ctx EXCEPT ![c].reg = "write"]
        /\ Goto(c, "idle") /\ UNCHANGED <<chain, surprises>>
  /\ UNCHANGED <<scenario, cli, engine, lock, sw, dst, net, execs, expired>>

-----------------------------------------------------------------------------
(* A callback of ctx c: the event loop collects an event, a worker runs it *)
(* later.                                                                  *)

Events(c) ==
  {ev \in {"read", "write", "error"} :
     \/ ev = "read" /\ ctx[c].reg = "read" /\ (net[c].inbox # <<>> \/ Dead(c))
     \/ ev = "write" /\ ctx[c].reg = "write" /\ (net[c].up # "syn" \/ net[c].shut)
     \/ ev = "error" /\ (Dead(c) \/ net[c].up = "refused")}

Collect(c) ==
  /\ act[c].pc = "idle" /\ ctx[c].life = "live" /\ ctx[c].reg # "none"
  /\ \E ev \in Events(c) : act' = [act EXCEPT ![c] = [Rest EXCEPT !.pc = "start", !.ev = ev]]
  /\ UNCHANGED <<scenario, ctx, chain, cli, engine, lock, sw, dst, envVars>>

\* An event that two reactor threads collected, and the other one dealt with.
CollectStale(c) ==
  /\ act[c].pc = "idle" /\ ctx[c].life = "live" /\ ctx[c].reg = "read" /\ Surprise("stale")
  /\ act' = [act EXCEPT ![c] = [Rest EXCEPT !.pc = "start", !.ev = "read"]]
  /\ UNCHANGED <<scenario, ctx, chain, cli, engine, lock, sw, dst, net, execs, expired>>

\* The top of each callback: the hop is over already, and the ctx perhaps left
\* for this callback to tear down.
StartCompleted(c) ==
  /\ act[c].pc = "start" /\ ctx[c].done
  /\ act' = [act EXCEPT ![c].pc = IF ctx[c].pending THEN "teardown" ELSE "idle", ![c].r = ctx[c].chain]
  /\ UNCHANGED <<scenario, ctx, chain, cli, engine, lock, sw, dst, envVars>>

\* _async_dispatch_kind of a hop that is not over.
StartKind(c) ==
  /\ act[c].pc = "start" /\ ~ctx[c].done /\ lock[c] = Null
  /\ Goto(c, IF ctx[c].st # "idle" THEN "active"
             ELSE CASE act[c].ev = "read" -> "probe" [] act[c].ev = "write" -> "rest" [] OTHER -> "evict")
  /\ UNCHANGED <<scenario, ctx, chain, cli, engine, lock, sw, dst, envVars>>

\* The hop of an active callback fails: _async_ctx_finish is next.
Fails(c) == act' = [act EXCEPT ![c].pc = "finish", ![c].r = ctx[c].chain]

\* _async_connect_failed, and a TLS handshake that fails.
SetupError(c) ==
  /\ act[c].pc = "active" /\ ctx[c].st \in {"connecting", "tls"}
  /\ act[c].ev = "error" \/ net[c].up = "refused" \/ (Dead(c) /\ net[c].inbox = <<>>)
  /\ chain' = Fulfilled(chain, ctx[c].chain, IF ctx[c].timed THEN "timeout" ELSE "failed")
  /\ Fails(c)
  /\ UNCHANGED <<scenario, ctx, cli, engine, lock, sw, dst, envVars>>

\* _async_on_writable_impl of a connection that is up.
Connected(c) ==
  /\ act[c].pc = "active" /\ ctx[c].st = "connecting" /\ act[c].ev = "write" /\ net[c].up = "up"
  /\ ctx' = [ctx EXCEPT ![c].st = IF scenario.https THEN "tls" ELSE "writing"]
  /\ UNCHANGED <<scenario, chain, cli, engine, lock, act, sw, dst, envVars>>

\* _async_tls_advance that does not fail.
TlsAdvance(c) ==
  /\ act[c].pc = "active" /\ ctx[c].st = "tls" /\ act[c].ev # "error"
  /\ \/ /\ net[c].inbox # <<>>
        /\ net' = [net EXCEPT ![c].inbox = Tail(@)]
        /\ ctx' = [ctx EXCEPT ![c].st = "writing", ![c].reg = "write"]
        /\ UNCHANGED act
     \/ /\ net[c].inbox = <<>> /\ ~Dead(c)
        /\ ctx' = [ctx EXCEPT ![c].reg = "read"]
        /\ Goto(c, "idle") /\ UNCHANGED net
  /\ UNCHANGED <<scenario, chain, cli, engine, lock, sw, dst, execs, expired, surprises>>

\* Once the connection is set up an error ends the hop.
ActiveError(c) ==
  /\ act[c].pc = "active" /\ ctx[c].st \in {"writing", "awaiting", "reading"} /\ act[c].ev = "error"
  /\ Fails(c)
  /\ UNCHANGED <<scenario, ctx, chain, cli, engine, lock, sw, dst, envVars>>

Unchecked(c) == ctx[c].reused /\ ~ctx[c].checked /\ ctx[c].sent = 0

\* _async_reused_conn_is_clean, in _async_drive_write.
CheckReused(c) ==
  /\ act[c].pc = "active" /\ ctx[c].st = "writing" /\ act[c].ev # "error" /\ Unchecked(c)
  /\ ctx' = [ctx EXCEPT ![c].checked = TRUE]
  /\ IF ctx[c].tainted \/ net[c].inbox # <<>> \/ Dead(c) THEN Fails(c) ELSE UNCHANGED act
  /\ UNCHANGED <<scenario, chain, cli, engine, lock, sw, dst, envVars>>

\* _async_plain_try_write and _async_tls_try_write of the head (1) or of the
\* whole request (2), which fits the socket's buffer.
Writes(c) == IF scenario.want100 /\ ~ctx[c].decided THEN 1 ELSE 2

TryWrite(c) ==
  /\ act[c].pc = "active" /\ ctx[c].st = "writing" /\ act[c].ev # "error" /\ ~Unchecked(c)
  /\ \/ /\ ~net[c].shut
        /\ ctx' = [ctx EXCEPT ![c].sent = Writes(c), ![c].due = FALSE, ![c].reg = "read",
                              ![c].st = IF Writes(c) = 1 THEN "awaiting" ELSE "reading"]
        /\ net' = [net EXCEPT ![c].req = <<ctx[c].chain, chain[ctx[c].chain].hop>>,
                              ![c].got = IF @ = "early" /\ ctx[c].sent = 1 THEN @ ELSE <<"head", "full">>[Writes(c)]]
     \/ /\ Dead(c)                         \* _async_upload_pause(ctx, false)
        /\ ctx' = [ctx EXCEPT ![c].st = "reading", ![c].reg = "read"]
        /\ UNCHANGED net
  /\ Goto(c, "idle")
  /\ UNCHANGED <<scenario, chain, cli, engine, lock, sw, dst, execs, expired, surprises>>

\* A write event of a hop that reads: one that waits for a 100 Continue sends
\* the body once that wait is over; a TLS read goes on; else it is stray.
ReaderWritable(c) ==
  /\ act[c].pc = "active" /\ ctx[c].st \in {"awaiting", "reading"} /\ act[c].ev = "write"
  /\ \/ /\ ctx[c].st = "awaiting" /\ ctx[c].due
        /\ ctx' = [ctx EXCEPT ![c].decided = TRUE, ![c].st = "writing"] /\ UNCHANGED act
     \/ /\ ctx[c].st = "awaiting" /\ ~ctx[c].due
        /\ ctx' = [ctx EXCEPT ![c].reg = "read"] /\ Goto(c, "idle")
     \/ /\ ctx[c].st = "reading" /\ scenario.https
        /\ ctx' = [ctx EXCEPT ![c].reg = "read"] /\ act' = [act EXCEPT ![c].ev = "read"]
     \/ /\ ctx[c].st = "reading" /\ ~scenario.https
        /\ Goto(c, "rest") /\ UNCHANGED ctx
  /\ UNCHANGED <<scenario, chain, cli, engine, lock, sw, dst, envVars>>

Reads(c) == act[c].pc = "active" /\ ctx[c].st \in {"awaiting", "reading"} /\ act[c].ev = "read"
Overdue(c) == ctx[c].timed \/ ctx[c].chain \in expired

\* _async_on_readable_impl finds the deadline passed.
ReadTimesOut(c) ==
  /\ Reads(c) /\ Overdue(c)
  /\ ctx' = [ctx EXCEPT ![c].timed = TRUE, ![c].done = TRUE, ![c].decided = @ \/ ctx[c].st = "awaiting"]
  /\ chain' = Fulfilled(chain, ctx[c].chain, "timeout")
  /\ Fails(c)
  /\ UNCHANGED <<scenario, cli, engine, lock, sw, dst, envVars>>

\* The read finds nothing, or the end of the connection.
ReadEmpty(c) ==
  /\ Reads(c) /\ ~Overdue(c) /\ net[c].inbox = <<>>
  /\ IF Dead(c) THEN Fails(c) ELSE Goto(c, "idle")
  /\ UNCHANGED <<scenario, ctx, chain, cli, engine, lock, sw, dst, envVars>>

\* A 100: what _async_awaiting_continue_on_data waits for, an interim response
\* to _async_process_reading_data.
ReadContinue(c) ==
  /\ Reads(c) /\ ~Overdue(c) /\ net[c].inbox # <<>> /\ Head(net[c].inbox) = "100"
  /\ net' = [net EXCEPT ![c].inbox = Tail(@)]
  /\ \/ /\ ctx[c].st = "awaiting"
        /\ ctx' = [ctx EXCEPT ![c].bytes = TRUE, ![c].decided = TRUE, ![c].unsafe = TRUE, ![c].st = "writing"]
        /\ UNCHANGED act
     \/ /\ ctx[c].st = "reading"
        /\ ctx' = [ctx EXCEPT ![c].bytes = TRUE] /\ Goto(c, "idle")
  /\ UNCHANGED <<scenario, chain, cli, engine, lock, sw, dst, execs, expired, surprises>>

\* A final response: the chain is kept while the connection is let go.  One
\* that came before the body was sent, or with bytes after it, spends the
\* connection; so may any other, if the peer says so.
Keepable(c) == ctx[c].st = "reading" /\ ctx[c].sent = 2 /\ Len(net[c].inbox) = 1

ReadFinal(c) ==
  \E keep \in BOOLEAN :
    /\ Reads(c) /\ ~Overdue(c) /\ net[c].inbox # <<>> /\ Head(net[c].inbox) # "100"
    /\ keep => Keepable(c)
    /\ IF Keepable(c) /\ ~keep THEN Surprise("unkept") ELSE UNCHANGED surprises
    /\ net' = [net EXCEPT ![c].inbox = Tail(@)]
    /\ ctx' = [ctx EXCEPT ![c].bytes = TRUE, ![c].done = TRUE, ![c].decided = @ \/ ctx[c].st = "awaiting"]
    /\ chain' = Retained(chain, ctx[c].chain)
    /\ act' = [act EXCEPT ![c].pc = "complete", ![c].r = ctx[c].chain, ![c].keep = keep, ![c].then = Head(net[c].inbox)]
    /\ UNCHANGED <<scenario, cli, engine, lock, sw, dst, execs, expired>>

-----------------------------------------------------------------------------
(* The end of a hop, in the callback or the connect task of ctx c.         *)

Pooled == {cli.pool[i] : i \in DOMAIN cli.pool}
Drop(p, c) == SwapRemoved(p, CHOOSE i \in DOMAIN p : p[i] = c)
CleanCtx(x) == [NoCtx EXCEPT !.life = "live", !.st = "idle", !.gen = x.gen, !.fd = TRUE, !.reg = x.reg,
                             !.checked = x.checked, !.due = x.due]

\* _async_idle_pool_offer, which resets the ctx and, in the pool, gives it a
\* reference of its own to the engine; without memory to push it, it is freed.
Offer(c) ==
  /\ act[c].pc = "complete" /\ lock[c] = Null
  /\ act[c].keep /\ ~cli.destroying /\ Len(cli.pool) < MaxIdle
  /\ ctx' = [ctx EXCEPT ![c] = CleanCtx(@)]
  /\ \/ /\ cli' = [cli EXCEPT !.pool = Append(@, c), !.idle = @ + 1]
        /\ engine' = engine + 1
        /\ Goto(c, "release") /\ UNCHANGED surprises
     \/ /\ Surprise("fault") /\ Goto(c, "teardown") /\ UNCHANGED <<cli, engine>>
  /\ UNCHANGED <<scenario, chain, lock, sw, dst, net, execs, expired>>

\* _async_finish_connection of a connection that is not kept.
NotKept(c) ==
  /\ act[c].pc = "complete"
  /\ ~act[c].keep \/ cli.destroying \/ Len(cli.pool) >= MaxIdle
  /\ Goto(c, "finish")
  /\ UNCHANGED <<scenario, ctx, chain, cli, engine, lock, sw, dst, envVars>>

\* Mutant: what was sent does not matter.
Retryable_Any(c) == ctx[c].reused /\ ~ctx[c].bytes /\ ~ctx[c].unsafe

\* A hop on a reused connection that the peer has not begun to answer, and
\* that may be sent again.
Retryable(c) ==
  ctx[c].reused /\ ~ctx[c].bytes /\ ~ctx[c].unsafe /\ (scenario.replay \/ ctx[c].sent < 2)

\* _async_ctx_finish, and _async_retry_hop.
Finish(c) ==
  /\ act[c].pc = "finish"
  /\ \/ /\ ~ctx[c].done /\ ctx[c].timed
        /\ chain' = Fulfilled(chain, act[c].r, "timeout")
        /\ Goto(c, "teardown") /\ UNCHANGED <<ctx, surprises>>
     \/ /\ ~ctx[c].done /\ ~ctx[c].timed /\ Retryable(c)
        /\ \/ \E n \in Unused :
                /\ chain' = Retained(chain, act[c].r)
                /\ ctx' = NewCtx([ctx EXCEPT ![c].done = TRUE], n, act[c].r)
                /\ act' = ConnectTask([act EXCEPT ![c].pc = "teardown"], n, act[c].r)
                /\ UNCHANGED surprises
           \/ /\ Surprise("fault")
              /\ chain' = Fulfilled(chain, act[c].r, "failed")
              /\ ctx' = [ctx EXCEPT ![c].done = TRUE]
              /\ Goto(c, "teardown")
     \/ /\ ctx[c].done \/ (~ctx[c].timed /\ ~Retryable(c))
        /\ Goto(c, "teardown") /\ UNCHANGED <<chain, ctx, surprises>>
  /\ UNCHANGED <<scenario, cli, engine, lock, sw, dst, net, execs, expired>>

\* Mutant: the ctx is freed without waiting for the thread that took it.
DestroyNow_Unlocked(c) == sw.node # c /\ ctx' = [ctx EXCEPT ![c].life = "freed", ![c].reg = "none"]

\* _async_ctx_destroy_now: it waits for a thread that reactivates the ctx, and,
\* to unregister its deadline, for a sweep that is at it.
DestroyNow(c) ==
  /\ lock[c] = Null /\ sw.node # c
  /\ ctx' = [ctx EXCEPT ![c].life = "freed", ![c].reg = "none"]

\* _async_ctx_teardown: the ctx, then the reference the hop has to the chain.
Teardown(c) ==
  /\ act[c].pc = "teardown" /\ DestroyNow(c)
  /\ net' = Shut(net, {c})
  /\ Goto(c, "release")
  /\ UNCHANGED <<scenario, chain, cli, engine, lock, sw, dst, execs, expired, surprises>>

ReleaseChain(c) ==
  /\ act[c].pc = "release"
  /\ Release(chain, act[c].r)
  /\ IF act[c].then = "none" THEN act' = [act EXCEPT ![c] = Rest] ELSE Goto(c, "after")
  /\ UNCHANGED <<scenario, ctx, lock, sw, dst, envVars>>

\* The callback has let the connection go and delivers the response.
Deliver(c) ==
  /\ act[c].pc = "after" /\ act[c].then # "redir"
  /\ Release(Fulfilled(chain, act[c].r, act[c].then), act[c].r)
  /\ act' = [act EXCEPT ![c] = Rest]
  /\ UNCHANGED <<scenario, ctx, lock, sw, dst, envVars>>

\* _async_handle_redirect submits the next hop.
Redirect(c) ==
  /\ act[c].pc = "after" /\ act[c].then = "redir"
  /\ chain' = [chain EXCEPT ![act[c].r].hop = @ + 1, ![act[c].r].refs = @ + 1]
  /\ Goto(c, "take")
  /\ execs' = [execs EXCEPT ![act[c].r] = 0]
  /\ UNCHANGED <<scenario, ctx, cli, engine, lock, sw, dst, net, expired, surprises>>

-----------------------------------------------------------------------------
(* A callback of a ctx that was idle when it started.                      *)

\* Mutant: the interest is set whatever the hop does.
Rested_Always(x) == [x EXCEPT !.reg = "read"]

Rested(x) == IF x.st \in {"reading", "idle"} THEN [x EXCEPT !.reg = "read"] ELSE x

\* _async_writable_rest.
WritableRest(c) ==
  /\ act[c].pc = "rest" /\ lock[c] = Null
  /\ ctx' = [ctx EXCEPT ![c] = Rested(@)]
  /\ act' = [act EXCEPT ![c] = Rest]
  /\ UNCHANGED <<scenario, chain, cli, engine, lock, sw, dst, envVars>>

\* Mutant: the byte that was read leaves no trace.
Tainted_Not(x) == x

Tainted(x) == [x EXCEPT !.tainted = TRUE]

\* The read of an idle connection: nothing, after a stale event, leaves it as it
\* is; any byte, or its end, makes it unusable, for the thread too that may have
\* taken the ctx by now.
Probe(c) ==
  /\ act[c].pc = "probe"
  /\ \/ /\ net[c].inbox = <<>> /\ ~Dead(c)
        /\ act' = [act EXCEPT ![c] = Rest]
        /\ UNCHANGED <<ctx, net>>
     \/ /\ net[c].inbox # <<>> \/ Dead(c)
        /\ net' = [net EXCEPT ![c].inbox = IF @ = <<>> THEN @ ELSE Tail(@)]
        /\ ctx' = [ctx EXCEPT ![c] = Tainted(@)]
        /\ Goto(c, "evict")
  /\ UNCHANGED <<scenario, chain, cli, engine, lock, sw, dst, execs, expired, surprises>>

\* _async_idle_ctx_finish: nothing to do for a ctx that was taken.
Evict(c) ==
  /\ act[c].pc = "evict"
  /\ IF c \in Pooled
       THEN cli' = [cli EXCEPT !.pool = Drop(@, c)] /\ Goto(c, "free")
       ELSE act' = [act EXCEPT ![c] = Rest] /\ UNCHANGED cli
  /\ UNCHANGED <<scenario, ctx, chain, engine, lock, sw, dst, envVars>>

FreeEvicted(c) ==
  /\ act[c].pc = "free" /\ DestroyNow(c)
  /\ net' = Shut(net, {c})
  /\ engine' = engine - 1
  /\ Goto(c, "dec")
  /\ UNCHANGED <<scenario, chain, cli, lock, sw, dst, execs, expired, surprises>>

\* The count lets a destroy go on only now.
CountEvicted(c) ==
  /\ act[c].pc = "dec"
  /\ cli' = [cli EXCEPT !.idle = @ - 1]
  /\ act' = [act EXCEPT ![c] = Rest]
  /\ UNCHANGED <<scenario, ctx, chain, engine, lock, sw, dst, envVars>>

-----------------------------------------------------------------------------
(* _client_deadline_sweep_once at ctx c, whose stripe it has locked.       *)

\* Under deadline_lock: a hop whose deadline has passed is marked; one marked
\* by an earlier sweep that is still there is abandoned, once.
Marks(c) == ~ctx[c].timed /\ ctx[c].chain # Null /\ ctx[c].chain \in expired
Abandons(c) == ctx[c].timed /\ ctx[c].chain # Null /\ ~ctx[c].abandoned
FlipsLate(c) == /\ ctx[c].st = "awaiting" /\ ctx[c].due /\ ~ctx[c].decided /\ ctx[c].reg = "read"
                /\ ~Marks(c) /\ ~Abandons(c)

Judge(c) ==
  /\ sw.pc = "idle" /\ ctx[c].life = "live"
  /\ \/ /\ Marks(c)
        /\ ctx' = [ctx EXCEPT ![c].timed = TRUE]
        /\ sw' = [pc |-> "act", node |-> c, r |-> ctx[c].chain, early |-> ctx[c].st = "connecting"]
        /\ UNCHANGED chain
     \/ /\ Abandons(c)
        /\ ctx' = [ctx EXCEPT ![c].abandoned = TRUE]
        /\ chain' = Retained(chain, ctx[c].chain)
        /\ sw' = [NoSweep EXCEPT !.pc = "settle", !.r = ctx[c].chain]
     \/ /\ FlipsLate(c)
        /\ sw' = [NoSweep EXCEPT !.pc = "flip", !.node = c]
        /\ UNCHANGED <<ctx, chain>>
  /\ UNCHANGED <<scenario, cli, engine, lock, act, dst, envVars>>

\* Mutant: the mark is made outside deadline_lock, on the hop that has the ctx by now.
SweepAct_Marks ==
  /\ sw.pc = "act"
  /\ ctx' = [ctx EXCEPT ![sw.node].timed = TRUE]
  /\ net' = IF ctx[sw.node].fd THEN Shut(net, {sw.node}) ELSE net
  /\ sw' = NoSweep
  /\ UNCHANGED <<scenario, chain, cli, engine, lock, act, dst, execs, expired, surprises>>

\* What the mark leads to: the connection is shut down, for its callback to
\* end the hop, or, while it has none, the hop is abandoned at once.
SweepAct ==
  /\ sw.pc = "act"
  /\ IF ~ctx[sw.node].fd /\ sw.early /\ ~ctx[sw.node].abandoned
       THEN /\ ctx' = [ctx EXCEPT ![sw.node].abandoned = TRUE]
            /\ chain' = Retained(chain, sw.r)
            /\ sw' = [NoSweep EXCEPT !.pc = "settle", !.r = sw.r]
            /\ UNCHANGED net
       ELSE /\ net' = IF ctx[sw.node].fd THEN Shut(net, {sw.node}) ELSE net
            /\ sw' = NoSweep
            /\ UNCHANGED <<ctx, chain>>
  /\ UNCHANGED <<scenario, cli, engine, lock, act, dst, execs, expired, surprises>>

SweepSettle ==
  /\ sw.pc = "settle"
  /\ Release(Fulfilled(chain, sw.r, "timeout"), sw.r)
  /\ sw' = NoSweep
  /\ UNCHANGED <<scenario, ctx, lock, act, dst, envVars>>

\* The wait for a 100 Continue is over: the callback is to send the body.  The
\* hop may have gone on since it was looked at.
SweepFlip ==
  /\ sw.pc = "flip"
  /\ ctx' = [ctx EXCEPT ![sw.node].reg = "write"]
  /\ sw' = NoSweep
  /\ UNCHANGED <<scenario, chain, cli, engine, lock, act, dst, envVars>>

-----------------------------------------------------------------------------
(* __chttpcli_destroy, and chttpcli_set_tls.                               *)

DestroyBegins ==
  /\ dst = "idle" /\ scenario.destroy
  /\ dst' = "pins"
  /\ cli' = [cli EXCEPT !.destroying = TRUE]
  /\ UNCHANGED <<scenario, ctx, chain, engine, lock, act, sw, envVars>>

\* No call has the client pinned, and no request is in flight.
DestroyDrains ==
  /\ \/ dst = "pins" /\ (\A r \in Requests : act[r].pc \in {"idle", "done"}) /\ dst' = "requests"
     \/ dst = "requests" /\ cli.inflight = 0 /\ dst' = "shut"
  /\ UNCHANGED <<scenario, ctx, chain, cli, engine, lock, act, sw, envVars>>

DestroyShuts ==
  /\ dst = "shut"
  /\ net' = Shut(net, Pooled)
  /\ dst' = "idlers"
  /\ UNCHANGED <<scenario, ctx, chain, cli, engine, lock, act, sw, execs, expired, surprises>>

DestroyFrees ==
  /\ dst = "idlers" /\ cli.idle = 0
  /\ cli' = [cli EXCEPT !.alive = FALSE]
  /\ dst' = "done"
  /\ UNCHANGED <<scenario, ctx, chain, engine, lock, act, sw, envVars>>

SetTls ==
  /\ cli.alive /\ ~cli.destroying /\ Surprise("tls")
  /\ cli' = [cli EXCEPT !.gen = @ + 1]
  /\ UNCHANGED <<scenario, ctx, chain, engine, lock, act, sw, dst, net, execs, expired>>

-----------------------------------------------------------------------------
(* The environment: the server at the other end of ctx c, and the clock.   *)

Hears(c) == ctx[c].life = "live" /\ net[c].up = "up" /\ ~Dead(c)
Sends(n, c, m) == [n EXCEPT ![c].inbox = Append(@, m)]

Accept(c) ==
  /\ ctx[c].fd /\ net[c].up = "syn"
  /\ \/ net' = [net EXCEPT ![c].up = "up"] /\ UNCHANGED surprises
     \/ net' = [net EXCEPT ![c].up = "refused"] /\ Surprise("refuse")
  /\ UNCHANGED <<scenario, ctx, chain, cli, engine, lock, act, sw, dst, execs, expired>>

Handshake(c) ==
  /\ Hears(c) /\ ctx[c].st = "tls" /\ ~net[c].hs
  /\ net' = Sends([net EXCEPT ![c].hs = TRUE], c, "hs")
  /\ UNCHANGED <<scenario, ctx, chain, cli, engine, lock, act, sw, dst, execs, expired, surprises>>

\* The head has come: a 100 Continue, or a final answer without the body.
AnswersHead(c) ==
  /\ Hears(c) /\ net[c].got = "head"
  /\ \/ net' = Sends([net EXCEPT ![c].got = "told"], c, "100")
     \/ net' = Sends([net EXCEPT ![c].got = "early"], c, "resp")
  /\ UNCHANGED <<scenario, ctx, chain, cli, engine, lock, act, sw, dst, execs, expired, surprises>>

\* The request has come, perhaps on a connection that is closed by now.
Execute(c) ==
  /\ net[c].got = "full"
  /\ net' = [net EXCEPT ![c].got = "done"]
  /\ execs' = [r \in Requests |-> IF net[c].req = <<r, chain[r].hop>> THEN execs[r] + 1 ELSE execs[r]]
  /\ UNCHANGED <<scenario, ctx, chain, cli, engine, lock, act, sw, dst, expired, surprises>>

Answer(c) ==
  /\ Hears(c) /\ net[c].got = "done"
  /\ \/ net' = Sends([net EXCEPT ![c].got = "none"], c, "resp") /\ UNCHANGED surprises
     \/ net' = Sends([net EXCEPT ![c].got = "none"], c, "redir") /\ Surprise("redirect")
  /\ UNCHANGED <<scenario, ctx, chain, cli, engine, lock, act, sw, dst, execs, expired>>

\* Two parts of a message nobody asked for, the first while nothing is asked.
Stray(c) ==
  /\ Hears(c)
  /\ \/ /\ net[c].half = "none" /\ ctx[c].st = "idle" /\ Surprise("stray")
        /\ net' = Sends([net EXCEPT ![c].half = "first"], c, "foreign")
     \/ /\ net[c].half = "first" /\ UNCHANGED surprises
        /\ net' = Sends([net EXCEPT ![c].half = "both"], c, "foreign")
  /\ UNCHANGED <<scenario, ctx, chain, cli, engine, lock, act, sw, dst, execs, expired>>

Close(c) ==
  /\ Hears(c) /\ Surprise("close")
  /\ net' = [net EXCEPT ![c].fin = TRUE]
  /\ UNCHANGED <<scenario, ctx, chain, cli, engine, lock, act, sw, dst, execs, expired>>

Expire(r) ==
  /\ r \in scenario.deadline /\ chain[r].refs > 0 /\ r \notin expired
  /\ expired' = expired \cup {r}
  /\ UNCHANGED <<scenario, ctx, chain, cli, engine, lock, act, sw, dst, net, execs, surprises>>

ContinueDue(c) ==
  /\ ctx[c].life = "live" /\ ctx[c].st = "awaiting" /\ ~ctx[c].due
  /\ ctx' = [ctx EXCEPT ![c].due = TRUE]
  /\ UNCHANGED <<scenario, chain, cli, engine, lock, act, sw, dst, envVars>>

-----------------------------------------------------------------------------
SubmitHop(a) == TakePooled(a) \/ TakeFresh(a) \/ LockTaken(a) \/ Reactivate(a) \/ SetupFails(a)
                  \/ ReactivateFails(a) \/ Abandon(a) \/ SubmitReturns(a)
ConnectStep(c) == Lookup(c) \/ Connect(c) \/ Register(c)
CallbackStep(c) ==
  \/ Collect(c) \/ StartCompleted(c) \/ StartKind(c) \/ SetupError(c) \/ Connected(c) \/ TlsAdvance(c)
  \/ ActiveError(c) \/ CheckReused(c) \/ TryWrite(c) \/ ReaderWritable(c) \/ ReadTimesOut(c)
  \/ ReadEmpty(c) \/ ReadContinue(c) \/ ReadFinal(c)
FinishStep(c) == Offer(c) \/ NotKept(c) \/ Finish(c) \/ Teardown(c) \/ ReleaseChain(c) \/ Deliver(c) \/ Redirect(c)
IdleStep(c) == WritableRest(c) \/ Probe(c) \/ Evict(c) \/ FreeEvicted(c) \/ CountEvicted(c)
ReactorStep(c) == SubmitHop(c) \/ ConnectStep(c) \/ CallbackStep(c) \/ FinishStep(c) \/ IdleStep(c)
SweepStep == (\E c \in Ctxs : Judge(c)) \/ SweepAct \/ SweepSettle \/ SweepFlip
DestroyStep == DestroyDrains \/ DestroyShuts \/ DestroyFrees
PeerStep(c) == Accept(c) \/ Handshake(c) \/ Execute(c) \/ Answer(c)

Next ==
  \/ \E r \in Requests : Submit(r) \/ SubmitHop(r) \/ Expire(r)
  \/ \E c \in Ctxs : ReactorStep(c) \/ PeerStep(c)
  \/ \E c \in Ctxs : AnswersHead(c) \/ Stray(c) \/ Close(c) \/ ContinueDue(c) \/ CollectStale(c)
  \/ SweepStep \/ DestroyBegins \/ DestroyStep \/ SetTls

Spec == Init /\ [][Next]_vars

\* Every thread of the program runs, and time passes.  The peer answers where
\* some request has no deadline; where all have one, it need not.
Served == ~(scenario.asked \subseteq scenario.deadline)

FairSpec ==
  /\ Spec
  /\ \A r \in Requests : WF_vars(SubmitHop(r))
  /\ \A c \in Ctxs : WF_vars(ReactorStep(c)) /\ WF_vars(Served /\ PeerStep(c))
  /\ WF_vars(SweepStep) /\ WF_vars(DestroyStep)
  /\ WF_vars((\E r \in Requests : Expire(r)) \/ (\E c \in Ctxs : ContinueDue(c)))

-----------------------------------------------------------------------------
UsesCtx == {"lookup", "connect", "register", "start", "active", "probe", "rest", "evict",
            "complete", "finish", "teardown", "free"}
UsesChain == {"take", "lock", "setup", "abandon", "lookup", "connect", "register",
              "complete", "finish", "teardown", "release", "after"}

\* Nothing is used once it is freed: no ctx by its callback, its connect task,
\* the thread that takes it from the pool or the sweep; no chain by a hop of it
\* or by whoever settles it; not the engine while a ctx is registered with it;
\* and not the client, of which a destroy leaves neither ctx nor request.
LiveWhileUsed ==
  /\ \A c \in Ctxs : act[c].pc \in UsesCtx => ctx[c].life = "live"
  /\ \A a \in Actors : act[a].pc \in {"lock", "setup", "abandon"} => ctx[act[a].c].life = "live"
  /\ \A c \in Pooled \cup ({sw.node} \ {Null}) : ctx[c].life = "live"
  /\ \A a \in Actors : act[a].pc \in UsesChain => chain[act[a].r].refs > 0
  /\ \A c \in Ctxs : ctx[c].life = "live" => engine > 0 /\ (ctx[c].chain # Null => chain[ctx[c].chain].refs > 0)
  /\ ~cli.alive => /\ \A c \in Ctxs : ctx[c].life # "live" /\ act[c].pc = "idle"
                   /\ \A r \in Requests : chain[r].refs = 0 /\ act[r].pc \in {"idle", "done"}

\* A request times out by its own deadline only, never by the mark that a
\* sweep left on a connection for the request that had it before.
TimeoutIsOwn == \A r \in Requests : chain[r].res = "timeout" => r \in expired

\* A hop of a request that is not idempotent is carried out at most once,
\* however often its connection fails and the hop is sent again.
AtMostOnce == ~scenario.replay => \A r \in Requests : execs[r] <= 1

\* No request is answered with a message that the peer began to send while the
\* connection was idle, whoever read the beginning of it.
NoForeignAnswer == \A r \in Requests : chain[r].res # "foreign"

\* A request that was submitted under a TLS configuration is not sent on a
\* connection of an older one.
FreshTls ==
  \A c \in Ctxs : ctx[c].life = "live" /\ ctx[c].chain # Null /\ ctx[c].sent > 0
                   => ctx[c].gen >= chain[ctx[c].chain].gen

\* Every request is settled and lets go of the client, by its answer or by its
\* deadline, and a destroy of the client returns.
RequestsSettle ==
  /\ \A r \in Requests : chain[r].refs > 0 ~> chain[r].refs = 0 /\ chain[r].res # "none"
  /\ dst = "pins" ~> dst = "done"

\* A pooled connection serves the next request as a new one would: nothing of
\* its past is taken for an answer, and its TLS configuration is not outdated.
ReuseIsSound == NoForeignAnswer /\ FreshTls
=============================================================================
