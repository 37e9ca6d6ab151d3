------------------------------ MODULE DynQueue ------------------------------
(***************************************************************************)
(* cdynmq (src/src/cthreadcomm.c): a queue kept as a doubly linked list of *)
(* allocated nodes.  A send never waits: it is refused while sending is    *)
(* disabled, at the largest count, or when no node can be allocated.       *)
(* Receives block, try, or wait with a timeout.  The owner's send ignores  *)
(* the switch.                                                             *)
(*                                                                         *)
(* One section under dq->mutex is one step; the wake-up protocol is that   *)
(* of CircQueue with one condition variable.  Waiters of cselect are in    *)
(* module Select.                                                          *)
(***************************************************************************)
EXTENDS Integers, FiniteSets, Sequences

CONSTANTS
  MaxCount,    \* ccol_max_elem_count
  Senders, Receivers,
  Owners,      \* the senders that call cdynmq_owner_send
  Data,        \* payloads
  Nothing

Messages == [from : Senders, data : Data]

\* Addresses of nodes; the allocator gives back what was freed.
Nodes == 1 .. MaxCount + 1
Null == 0

\* struct dllist_node.
NodeRecords == [msg : Messages, next : Nodes \cup {Null}, prev : Nodes \cup {Null}]

\* What the constants of a queue are like.
DynQueueAssumption ==
  /\ MaxCount \in Nat \ {0}
  /\ IsFiniteSet(Receivers) /\ Senders \cap Receivers = {} /\ Owners \subseteq Senders
  /\ Nothing \notin NodeRecords

VARIABLES
  node,        \* address -> [msg, next, prev], or Nothing while it is free
  head, tail, msg_count,
  writing_disabled, readers_waiting,
  pc, asleep,  \* receiver's control; receivers inside the condition wait
  mode,
  got          \* the message received last

listVars == <<node, head, tail, msg_count>>
callVars == <<pc, mode>>
vars == <<listVars, writing_disabled, readers_waiting, callVars, asleep, got>>

Init ==
  /\ node = [a \in Nodes |-> Nothing]
  /\ head = Null /\ tail = Null /\ msg_count = 0
  /\ writing_disabled = FALSE /\ readers_waiting = 0
  /\ pc = [r \in Receivers |-> "idle"] /\ mode = [r \in Receivers |-> "none"]
  /\ asleep = {} /\ got = Nothing

-----------------------------------------------------------------------------

\* Mutant: the node goes in at the other end, with its links right.
AppendTail_AtHead(a, m) ==
  /\ node' = [b \in Nodes |->
       IF b = a THEN [msg |-> m, next |-> head, prev |-> Null]
       ELSE IF b = head THEN [node[b] EXCEPT !.prev = a] ELSE node[b]]
  /\ head' = a
  /\ tail' = IF tail = Null THEN a ELSE tail

\* append_msg_to_dq_tail, the node's memory being at a.
AppendTail(a, m) ==
  /\ node' = [b \in Nodes |->
       IF b = a THEN [msg |-> m, next |-> Null, prev |-> IF head = Null THEN Null ELSE tail]
       ELSE IF head # Null /\ b = tail THEN [node[b] EXCEPT !.next = a] ELSE node[b]]
  /\ head' = IF head = Null THEN a ELSE head
  /\ tail' = a

\* remove_msg_from_dq_head.
RemoveHead ==
  /\ head' = node[head].next
  /\ tail' = IF node[head].next = Null THEN Null ELSE tail
  /\ node' = [b \in Nodes |->
       IF b = head THEN Nothing
       ELSE IF b = node[head].next THEN [node[b] EXCEPT !.prev = Null] ELSE node[b]]

\* What the allocator returns: a free address, or none.
FreeNodes == {b \in Nodes : node[b] = Nothing /\ \A c \in 1 .. (b - 1) : node[c] # Nothing}

Signal ==
  IF readers_waiting > 0 /\ asleep # {}
  THEN \E r \in asleep : asleep' = asleep \ {r}
  ELSE UNCHANGED asleep

\* cdynmq_send and cdynmq_owner_send when they succeed; the ones that do not
\* (switch, count or memory) leave the queue as it is.
Send(t, d) ==
  /\ writing_disabled => t \in Owners
  /\ msg_count # MaxCount
  /\ \E a \in FreeNodes :
       AppendTail(a, [from |-> t, data |-> d])
  /\ msg_count' = msg_count + 1
  /\ Signal
  /\ UNCHANGED <<writing_disabled, readers_waiting, callVars, got>>

-----------------------------------------------------------------------------
(* cdynmq_recv, cdynmq_try_recv and cdynmq_timed_recv.                      *)

Goto(r, to, m) == pc' = [pc EXCEPT ![r] = to] /\ mode' = [mode EXCEPT ![r] = m]
Return(r) == Goto(r, "idle", "none")

\* The section starts, or the wait has returned with the mutex held.
At(r) == pc[r] = "recv" \/ (pc[r] = "read_cond" /\ r \notin asleep)
CountedOut(r) == IF pc[r] = "read_cond" THEN readers_waiting - 1 ELSE readers_waiting

RecvCall(r, m) ==
  /\ pc[r] = "idle"
  /\ Goto(r, "recv", m)
  /\ UNCHANGED <<listVars, writing_disabled, readers_waiting, asleep, got>>

RecvFindsNone(r) ==
  /\ pc[r] = "recv" /\ msg_count = 0 /\ mode[r] = "try"
  /\ Return(r)
  /\ UNCHANGED <<listVars, writing_disabled, readers_waiting, asleep, got>>

RecvWaits(r) ==
  /\ At(r) /\ msg_count = 0 /\ mode[r] # "try"
  /\ readers_waiting' = CountedOut(r) + 1
  /\ Goto(r, "read_cond", mode[r])
  /\ asleep' = asleep \cup {r}
  /\ UNCHANGED <<listVars, writing_disabled, got>>

\* The wait ends with an error, a timeout or another one, and the queue is
\* still empty; otherwise the receive goes on.
RecvTimesOut(r) ==
  /\ pc[r] = "read_cond" /\ mode[r] = "timed" /\ msg_count = 0
  /\ readers_waiting' = readers_waiting - 1
  /\ asleep' = asleep \ {r}
  /\ Return(r)
  /\ UNCHANGED <<listVars, writing_disabled, got>>

RecvTakes(r) ==
  /\ At(r) /\ msg_count > 0
  /\ got' = node[head].msg
  /\ RemoveHead
  /\ msg_count' = msg_count - 1
  /\ readers_waiting' = CountedOut(r)
  /\ Return(r)
  /\ UNCHANGED <<writing_disabled, asleep>>

\* cdynmq_disable_sending and cdynmq_enable_sending: nobody blocks on them.
SetDisabled(b) ==
  /\ writing_disabled' = b
  /\ UNCHANGED <<listVars, readers_waiting, callVars, asleep, got>>

SpuriousWakeup(r) ==
  /\ r \in asleep
  /\ asleep' = asleep \ {r}
  /\ UNCHANGED <<listVars, writing_disabled, readers_waiting, callVars, got>>

Next ==
  \/ \E t \in Senders, d \in Data : Send(t, d)
  \/ \E r \in Receivers :
       \/ \E m \in {"block", "try", "timed"} : RecvCall(r, m)
       \/ RecvFindsNone(r) \/ RecvWaits(r) \/ RecvTimesOut(r) \/ RecvTakes(r)
       \/ SpuriousWakeup(r)
  \/ \E b \in BOOLEAN : SetDisabled(b)

Spec == Init /\ [][Next]_vars

-----------------------------------------------------------------------------
TypeOK ==
  /\ node \in [Nodes -> NodeRecords \cup {Nothing}]
  /\ head \in Nodes \cup {Null} /\ tail \in Nodes \cup {Null}
  /\ msg_count \in 0 .. MaxCount /\ readers_waiting \in 0 .. Cardinality(Receivers)
  /\ pc \in [Receivers -> {"idle", "recv", "read_cond"}] /\ asleep \subseteq Receivers

\* The i-th node of the list, counted from the head.
Nth(n) ==
  LET nth[i \in 1 .. n] == IF i = 1 THEN head ELSE node[nth[i - 1]].next
  IN  nth

\* The messages in the list, oldest first.
Contents == [i \in 1 .. msg_count |-> node[Nth(msg_count)[i]].msg]

\* The links are sound: msg_count nodes lie between head and tail, linked both
\* ways, and no other node is allocated, so nothing leaks and nothing points
\* at freed memory.
ListIntact ==
  /\ Cardinality({a \in Nodes : node[a] # Nothing}) = msg_count
  /\ msg_count = 0 <=> head = Null
  /\ head = Null <=> tail = Null
  /\ msg_count > 0 =>
       LET nth == Nth(msg_count) IN
       /\ node[head] # Nothing /\ node[head].prev = Null
       /\ tail = nth[msg_count] /\ node[tail].next = Null
       /\ \A i \in 2 .. msg_count : node[nth[i]].prev = nth[i - 1]

FIFO == INSTANCE BoundedFIFO WITH
          Capacity <- MaxCount, contents <- Contents, closed <- writing_disabled

\* The linked list is a bounded FIFO: every accepted message is received once
\* and in order, and the switch stops every sender but the owner.
ImplementsFIFO == FIFO!FifoSpec

\* No message waits while receivers sleep: for each message there is a
\* receiver on its way back from the wait, also when timeouts come together
\* with signals.
NoLostWakeup ==
  asleep # {} => Cardinality({r \in Receivers : pc[r] = "read_cond"} \ asleep) >= msg_count
=============================================================================
