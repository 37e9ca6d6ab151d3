------------------------------ MODULE WaiterList ------------------------------
(***************************************************************************)
(* The list of waiter nodes a queue keeps for one direction (src/src/      *)
(* cthreadcomm.c): nodes are linked at the head, a rotor remembers where   *)
(* the next single notification goes.                                      *)
(***************************************************************************)
EXTENDS Sequences, Integers

CONSTANT Null

\* The node behind n in the list.
NextOf(list, n) ==
  IF \E j \in 1 .. Len(list) - 1 : list[j] = n
  THEN list[(CHOOSE j \in 1 .. Len(list) - 1 : list[j] = n) + 1] ELSE Null

\* notify_one_sel_waiter: its target, none if the list is empty, and where it
\* leaves the rotor.
Target(list, rot) ==
  IF rot # Null THEN <<rot>> ELSE IF list = <<>> THEN <<>> ELSE <<Head(list)>>
Rotated(list, rot, to) == IF to = <<>> THEN rot ELSE NextOf(list, Head(to))

\* _sel_unlink_waiter_locked: the node before n is followed by the one behind it.
Without(list, n) ==
  LET at == CHOOSE j \in 1 .. Len(list) : list[j] = n
  IN  [i \in 1 .. Len(list) - 1 |-> IF i < at THEN list[i] ELSE list[i + 1]]

\* Mutant: the rotor stays on a node that leaves.
Unrotored_Stays(list, rot, n) == rot

\* _sel_unlink_waiter_locked's care for the rotor.
Unrotored(list, rot, n) == IF rot = n THEN NextOf(list, n) ELSE rot
=============================================================================
