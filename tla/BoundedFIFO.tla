----------------------------- MODULE BoundedFIFO -----------------------------
(***************************************************************************)
(* What the queues of src/src/cthreadcomm.c promise: a bounded first-in    *)
(* first-out queue with a switch that stops ordinary senders.  Messages    *)
(* that their sender handed over are received once each, in order; a send  *)
(* by the owner ignores the switch.                                        *)
(***************************************************************************)
EXTENDS Integers, Sequences

CONSTANTS
  Capacity,    \* most messages it holds
  Messages,    \* records with a field "from"
  Owners,      \* senders the switch does not stop
  Nothing      \* nothing has been received yet

VARIABLES contents, closed, got

fifoVars == <<contents, closed, got>>

FifoInit ==
  /\ contents = <<>> /\ closed = FALSE
  /\ got = Nothing

Put(m) ==
  /\ Len(contents) < Capacity
  /\ closed => m.from \in Owners
  /\ contents' = Append(contents, m)
  /\ UNCHANGED <<closed, got>>

Take ==
  /\ contents # <<>>
  /\ got' = Head(contents)
  /\ contents' = Tail(contents)
  /\ UNCHANGED closed

Switch(b) == closed' = b /\ UNCHANGED <<contents, got>>

FifoNext ==
  \/ \E m \in Messages : Put(m)
  \/ Take
  \/ \E b \in BOOLEAN : Switch(b)

FifoSpec == FifoInit /\ [][FifoNext]_fifoVars
=============================================================================
