----------------------------- MODULE MCEventLoop -----------------------------
(* Small instances of EventLoop.                                           *)
EXTENDS EventLoop, TLC

CONSTANTS r1, r2

On(sel, dir, handlers, moves, present) ==
  [sel |-> sel, dir |-> dir, handlers |-> handlers, moves |-> moves, present |-> present]

Scenario(on, pool, c, n) == [on |-> on, pooled |-> pool, maxCalls |-> c, maxEvents |-> n]

\* Both directions of one descriptor, one of them with nobody to tell of errors.
BothDirections(pool) == Scenario(
  (r1 :> On("fd", "read", {"readable", "error", "removed"}, FALSE, TRUE)) @@
  (r2 :> On("fd", "write", {"removed"}, FALSE, FALSE)), pool, 1, 2)

\* Two readers of one queue, one of which never takes a message.
TwoListeners(pool, maxCalls) == Scenario(
  (r1 :> On("queue", "read", {"readable", "removed"}, TRUE, TRUE)) @@
  (r2 :> On("queue", "read", {"readable", "removed"}, FALSE, TRUE)), pool, maxCalls, 2)

\* A reader and a writer of one queue.
ReaderAndWriter(pool) == Scenario(
  (r1 :> On("queue", "read", {"readable", "removed"}, TRUE, TRUE)) @@
  (r2 :> On("queue", "write", {"writable"}, TRUE, FALSE)), pool, 1, 1)

\* A queue and a descriptor: the queue is destroyed, or the loop.
QueueEnds(pool) == Scenario(
  (r1 :> On("queue", "read", {"readable", "removed"}, TRUE, TRUE)) @@
  (r2 :> On("fd", "read", {"readable"}, FALSE, FALSE)), pool, 2, 1)

Instances ==
  {BothDirections(pool) : pool \in BOOLEAN} \cup {QueueEnds(pool) : pool \in BOOLEAN}
  \cup {TwoListeners(FALSE, 1), TwoListeners(TRUE, 0), ReaderAndWriter(TRUE)}
=============================================================================
