---------------------------- MODULE MCHttpAsync ----------------------------
(* Two requests, and a connection for each hop; one surprise of a kind.    *)
EXTENDS HttpAsync, TLC
CONSTANTS r1, r2

None == [fault |-> 0, stray |-> 0, close |-> 0, refuse |-> 0, redirect |-> 0, tls |-> 0, unkept |-> 0, stale |-> 0]
Base == [asked |-> {r1}, deadline |-> {}, inTurn |-> FALSE, pooled |-> TRUE, destroy |-> TRUE, https |-> FALSE, want100 |-> FALSE,
         replay |-> FALSE, surprises |-> None]

MCScenarios ==
  { [Base EXCEPT !.surprises.stray = 1, !.surprises.stale = 1],
    [Base EXCEPT !.surprises.fault = 1, !.surprises.close = 1, !.replay = TRUE],
    [Base EXCEPT !.pooled = FALSE, !.surprises.fault = 1, !.surprises.redirect = 1, !.surprises.unkept = 1],
    [Base EXCEPT !.https = TRUE, !.surprises.tls = 1],
    [Base EXCEPT !.surprises.close = 1, !.destroy = FALSE],
    [Base EXCEPT !.https = TRUE, !.want100 = TRUE, !.surprises.close = 1, !.destroy = FALSE],
    [Base EXCEPT !.want100 = TRUE, !.surprises.redirect = 1, !.destroy = FALSE],
    [Base EXCEPT !.asked = {r1, r2}, !.inTurn = TRUE, !.want100 = TRUE, !.destroy = FALSE],
    [Base EXCEPT !.pooled = FALSE, !.deadline = {r1}, !.surprises.refuse = 1, !.surprises.fault = 1],
    [Base EXCEPT !.asked = {r1, r2}, !.inTurn = TRUE, !.deadline = {r1}, !.destroy = FALSE],
    [Base EXCEPT !.asked = {r1, r2}] }
=============================================================================
