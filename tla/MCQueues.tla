------------------------------ MODULE MCQueues ------------------------------
(* Small instances of the two queues of src/src/cthreadcomm.c.  One of     *)
(* them is explored at a time; the other stays as it was created.          *)
EXTENDS CircQueue, TLC

CONSTANTS MaxCount, ListReceivers

VARIABLES
  kind,        \* the queue that is explored
  l_node, l_head, l_tail, l_msg_count, l_writing_disabled, l_readers_waiting,
  l_pc, l_asleep, l_mode, l_got

List == INSTANCE DynQueue WITH
  Receivers <- ListReceivers,
  node <- l_node, head <- l_head, tail <- l_tail, msg_count <- l_msg_count,
  writing_disabled <- l_writing_disabled, readers_waiting <- l_readers_waiting,
  pc <- l_pc, asleep <- l_asleep, mode <- l_mode, got <- l_got

ASSUME ListAssumption == List!DynQueueAssumption

listQueue == <<l_node, l_head, l_tail, l_msg_count, l_writing_disabled, l_readers_waiting,
               l_pc, l_asleep, l_mode, l_got>>

QInit == kind \in {"ring", "list"} /\ Init /\ List!Init

QNext ==
  /\ UNCHANGED kind
  /\ \/ kind = "ring" /\ Next /\ UNCHANGED listQueue
     \/ kind = "list" /\ List!Next /\ UNCHANGED vars

QSpec == QInit /\ [][QNext]_<<kind, vars, listQueue>>

\* In either queue a message, and a free slot, has somebody on the way to it
\* while others sleep; and the count cdynmq's wake-ups go by is that of a list
\* whose links agree in both directions, with no node left over.
NoWakeupLost == NoLostWakeup /\ List!NoLostWakeup /\ List!ListIntact

\* The linked list of cdynmq implements the bounded FIFO.
ListImplementsFIFO == List!ImplementsFIFO

Symmetric == Permutations(Receivers) \cup Permutations(Senders \ Owners)
=============================================================================
