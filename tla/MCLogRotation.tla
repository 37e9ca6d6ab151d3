---------------------------- MODULE MCLogRotation ----------------------------
(* Small instances of LogRotation.                                         *)
EXTENDS LogRotation

Base == [keep |-> 1, link |-> FALSE, clockBack |-> FALSE, rollbackFails |-> FALSE,
         timed |-> FALSE, sized |-> TRUE,
         opens |-> 1, crashes |-> 0, faults |-> 0, ticks |-> 0, records |-> 4]

\* Crashes, with either way of publishing a name.
Crashes(link) == [Base EXCEPT !.link = link, !.opens = 3, !.crashes = 2, !.records = 4, !.keep = 2]

\* A slow compression under a fast writer, on a clock that steps both ways.
Clock == [Base EXCEPT !.clockBack = TRUE, !.ticks = 2, !.crashes = 1, !.opens = 2, !.timed = TRUE, !.records = 4]

\* Failing calls.
Faults == [Base EXCEPT !.faults = 2, !.rollbackFails = TRUE, !.ticks = 1, !.opens = 2]

\* The clock steps back after a rotation that could not be undone.
SteppedBack == {[Base EXCEPT !.faults = 1, !.rollbackFails = TRUE, !.clockBack = TRUE, !.ticks = 2]}

Instances == {Crashes(TRUE), Crashes(FALSE), Clock, Faults}
=============================================================================
