----------------------------- MODULE MCLogWriter -----------------------------
(* Small instances of LogWriter.                                           *)
EXTENDS LogWriter, TLC

\* Threads are interchangeable.
ThreadSymmetry == Permutations(Threads)

Base == [bounded |-> TRUE, open |-> TRUE, ordered |-> TRUE, records |-> 3, flushes |-> 0,
         refusals |-> 0, mayDie |-> FALSE, rotations |-> 0, envelopeFails |-> 0, sendFails |-> 0,
         wakeLost |-> FALSE]

\* Refused writes, with and without rotation.
Refusals(rotations) == [Base EXCEPT !.refusals = 2, !.records = 4, !.rotations = rotations]

\* Records that cannot be queued.
Unsent(n) == [Base EXCEPT !.bounded = FALSE, !.sendFails = n, !.refusals = 1, !.flushes = 1, !.ordered = n = 1]
Unallocated(dies) == [Base EXCEPT !.envelopeFails = 1, !.refusals = 2, !.mayDie = dies, !.ordered = FALSE]

Instances == {Refusals(0), Refusals(2), Unsent(1), Unsent(3), Unallocated(TRUE), Unallocated(FALSE)}
=============================================================================
