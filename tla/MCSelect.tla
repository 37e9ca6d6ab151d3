------------------------------ MODULE MCSelect ------------------------------
(* Small instances of Select.                                              *)
EXTENDS Select, TLC

CONSTANTS s1, s2, q1, q2

Sel(q, d) == [queue |-> q, dir |-> d]

\* Both wait for room in one queue; the wake of one may be answered with a
\* message from another queue, that of the other with the descriptor.
Pairs ==
  (s1 :> <<Sel(q1, "read"), Sel(q2, "write")>>) @@
  (s2 :> <<Sel(q2, "write"), Sel(Fd, "read")>>)
=============================================================================
