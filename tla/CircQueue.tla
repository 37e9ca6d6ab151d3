------------------------------ MODULE CircQueue ------------------------------
(***************************************************************************)
(* ccircq (src/src/cthreadcomm.c): a ring of max_size messages with        *)
(* blocking, trying and timed sends and receives, the owner's send and the *)
(* switch ccircq_disable_sending / ccircq_enable_sending.                  *)
(*                                                                         *)
(* One section under cq->mutex is one step.  The queue signals a condition *)
(* variable only when its count of waiting threads is not zero; a thread   *)
(* counts itself out when it has the mutex again.  The select waiters of   *)
(* the queue are in module Select.                                         *)
(***************************************************************************)
EXTENDS Integers, FiniteSets, Sequences

CONSTANTS
  MaxSize,     \* max_size
  Senders, Receivers,
  Owners,      \* the senders that call ccircq_owner_send
  Data,        \* payloads
  Nothing

ASSUME QueueAssumption ==
  /\ MaxSize \in Nat \ {0}
  /\ IsFiniteSet(Senders) /\ IsFiniteSet(Receivers)
  /\ Senders \cap Receivers = {} /\ Owners \subseteq Senders

Messages == [from : Senders, data : Data]
Slots == 0 .. MaxSize - 1
Threads == Senders \cup Receivers

VARIABLES
  msg_array, read_index, write_index, msg_count,
  writing_disabled,
  readers_waiting, writers_waiting,
  pc, asleep,  \* control; threads inside a condition wait
  mode,        \* thread -> "block", "try" or "timed" while in a call
  msg,         \* sender -> message it sends
  got          \* the message received last, by whichever receiver

ringVars == <<msg_array, read_index, write_index, msg_count>>
vars == <<ringVars, writing_disabled, readers_waiting, writers_waiting, pc, asleep, mode, msg, got>>

Modes(t) == IF t \in Owners THEN {"try", "timed"} ELSE {"block", "try", "timed"}

Init ==
  /\ msg_array = [i \in Slots |-> Nothing]
  /\ read_index = 0 /\ write_index = 0 /\ msg_count = 0
  /\ writing_disabled = FALSE
  /\ readers_waiting = 0 /\ writers_waiting = 0
  /\ pc = [t \in Threads |-> "idle"]
  /\ asleep = {}
  /\ mode = [t \in Threads |-> "none"]
  /\ msg = [t \in Senders |-> Nothing]
  /\ got = Nothing

-----------------------------------------------------------------------------

On(cv) == {t \in asleep : pc[t] = cv}
Goto(t, to) == pc' = [pc EXCEPT ![t] = to]

\* The call returns and its locals are gone.
Return(t) ==
  /\ Goto(t, "idle")
  /\ mode' = [mode EXCEPT ![t] = "none"]
  /\ msg' = [u \in Senders |-> IF u = t THEN Nothing ELSE msg[u]]

\* A signal guarded by the count of waiting threads.
SignalIf(waiting, cv) ==
  IF waiting > 0 /\ On(cv) # {}
  THEN \E t \in On(cv) : asleep' = asleep \ {t}
  ELSE UNCHANGED asleep

\* The section starts, or the wait has returned with the mutex held.
Entering(t, entry) == pc[t] = entry
Woken(t, cv) == pc[t] = cv /\ t \notin asleep
At(t, entry, cv) == Entering(t, entry) \/ Woken(t, cv)

\* The count after the thread, if it comes back from its wait, took itself out.
CountedOut(t, waiting, cv) == IF pc[t] = cv THEN waiting - 1 ELSE waiting

NextIndex(i) == IF i + 1 = MaxSize THEN 0 ELSE i + 1

Full == msg_count = MaxSize
Empty == msg_count = 0

-----------------------------------------------------------------------------
(* ccircq_send, ccircq_try_send, ccircq_timed_send, ccircq_owner_send.     *)

SendCall(t, d, m) ==
  /\ pc[t] = "idle" /\ m \in Modes(t)
  /\ msg' = [msg EXCEPT ![t] = [from |-> t, data |-> d]]
  /\ mode' = [mode EXCEPT ![t] = m]
  /\ Goto(t, "send")
  /\ UNCHANGED <<ringVars, writing_disabled, readers_waiting, writers_waiting, asleep, got>>

\* The switch stops everyone but the owner.
Stopped(t) == writing_disabled /\ t \notin Owners

\* ccol_not_permitted or ccol_container_full.
SendRefused(t) ==
  /\ At(t, "send", "write_cond")
  /\ Stopped(t) \/ (Full /\ mode[t] = "try")
  /\ writers_waiting' = CountedOut(t, writers_waiting, "write_cond")
  /\ Return(t)
  /\ UNCHANGED <<ringVars, writing_disabled, readers_waiting, asleep, got>>

SendWaits(t) ==
  /\ At(t, "send", "write_cond")
  /\ ~Stopped(t) /\ Full /\ mode[t] # "try"
  /\ writers_waiting' = CountedOut(t, writers_waiting, "write_cond") + 1
  /\ Goto(t, "write_cond")
  /\ asleep' = asleep \cup {t}
  /\ UNCHANGED <<ringVars, writing_disabled, readers_waiting, mode, msg, got>>

\* Mutant: a timeout is a failure whatever the state.
SendTimesOut_Always(t) ==
  /\ pc[t] = "write_cond" /\ mode[t] = "timed"
  /\ writers_waiting' = writers_waiting - 1
  /\ asleep' = asleep \ {t}
  /\ Return(t)
  /\ UNCHANGED <<ringVars, writing_disabled, readers_waiting, got>>

\* Mutant: a sender that times out leaves itself counted.
SendTimesOut_StaysCounted(t) ==
  /\ pc[t] = "write_cond" /\ mode[t] = "timed"
  /\ ~Stopped(t) /\ Full
  /\ asleep' = asleep \ {t}
  /\ Return(t)
  /\ UNCHANGED <<ringVars, writing_disabled, readers_waiting, writers_waiting, got>>

\* A timed wait ends with an error: the state decides, and only a full queue
\* with the switch open is a failure.
SendTimesOut(t) ==
  /\ pc[t] = "write_cond" /\ mode[t] = "timed"
  /\ ~Stopped(t) /\ Full
  /\ writers_waiting' = writers_waiting - 1
  /\ asleep' = asleep \ {t}
  /\ Return(t)
  /\ UNCHANGED <<ringVars, writing_disabled, readers_waiting, got>>

\* Mutant: the switch is looked at before the wait only.
SendPuts_SwitchOnce(t) ==
  /\ At(t, "send", "write_cond")
  /\ pc[t] = "send" => ~Stopped(t)
  /\ ~Full
  /\ msg_array' = [msg_array EXCEPT ![write_index] = msg[t]]
  /\ write_index' = NextIndex(write_index)
  /\ msg_count' = msg_count + 1
  /\ SignalIf(readers_waiting, "read_cond")
  /\ writers_waiting' = CountedOut(t, writers_waiting, "write_cond")
  /\ Return(t)
  /\ UNCHANGED <<read_index, writing_disabled, readers_waiting, got>>

\* _sendto_cq.
SendPuts(t) ==
  /\ At(t, "send", "write_cond")
  /\ ~Stopped(t) /\ ~Full
  /\ msg_array' = [msg_array EXCEPT ![write_index] = msg[t]]
  /\ write_index' = NextIndex(write_index)
  /\ msg_count' = msg_count + 1
  /\ SignalIf(readers_waiting, "read_cond")
  /\ writers_waiting' = CountedOut(t, writers_waiting, "write_cond")
  /\ Return(t)
  /\ UNCHANGED <<read_index, writing_disabled, readers_waiting, got>>

Send(t) == SendRefused(t) \/ SendWaits(t) \/ SendPuts(t)

-----------------------------------------------------------------------------
(* ccircq_recv, ccircq_try_recv, ccircq_timed_recv.                        *)

RecvCall(r, m) ==
  /\ pc[r] = "idle"
  /\ mode' = [mode EXCEPT ![r] = m]
  /\ Goto(r, "recv")
  /\ UNCHANGED <<ringVars, writing_disabled, readers_waiting, writers_waiting, asleep, msg, got>>

RecvFindsNone(r) ==
  /\ pc[r] = "recv" /\ Empty /\ mode[r] = "try"
  /\ Return(r)
  /\ UNCHANGED <<ringVars, writing_disabled, readers_waiting, writers_waiting, asleep, got>>

RecvWaits(r) ==
  /\ At(r, "recv", "read_cond")
  /\ Empty /\ mode[r] # "try"
  /\ readers_waiting' = CountedOut(r, readers_waiting, "read_cond") + 1
  /\ Goto(r, "read_cond")
  /\ asleep' = asleep \cup {r}
  /\ UNCHANGED <<ringVars, writing_disabled, writers_waiting, mode, msg, got>>

RecvTimesOut(r) ==
  /\ pc[r] = "read_cond" /\ mode[r] = "timed"
  /\ Empty
  /\ readers_waiting' = readers_waiting - 1
  /\ asleep' = asleep \ {r}
  /\ Return(r)
  /\ UNCHANGED <<ringVars, writing_disabled, writers_waiting, got>>

\* _recvfrom_cq.
RecvTakes(r) ==
  /\ At(r, "recv", "read_cond")
  /\ ~Empty
  /\ got' = msg_array[read_index]
  /\ read_index' = NextIndex(read_index)
  /\ msg_count' = msg_count - 1
  /\ SignalIf(writers_waiting, "write_cond")
  /\ readers_waiting' = CountedOut(r, readers_waiting, "read_cond")
  /\ Return(r)
  /\ UNCHANGED <<msg_array, write_index, writing_disabled, writers_waiting>>

Recv(r) == RecvFindsNone(r) \/ RecvWaits(r) \/ RecvTakes(r)

-----------------------------------------------------------------------------

\* ccircq_disable_sending and ccircq_enable_sending.
SetDisabled(b) ==
  /\ writing_disabled' = b
  /\ asleep' = asleep \ On("write_cond")
  /\ UNCHANGED <<ringVars, readers_waiting, writers_waiting, pc, mode, msg, got>>

SpuriousWakeup(t) ==
  /\ t \in asleep
  /\ asleep' = asleep \ {t}
  /\ UNCHANGED <<ringVars, writing_disabled, readers_waiting, writers_waiting, pc, mode, msg, got>>

Next ==
  \/ \E t \in Senders : \/ \E d \in Data, m \in {"block", "try", "timed"} : SendCall(t, d, m)
                        \/ Send(t) \/ SendTimesOut(t)
  \/ \E r \in Receivers : \/ \E m \in {"block", "try", "timed"} : RecvCall(r, m)
                          \/ Recv(r) \/ RecvTimesOut(r)
  \/ \E b \in BOOLEAN : SetDisabled(b)
  \/ \E t \in Threads : SpuriousWakeup(t)

Spec == Init /\ [][Next]_vars

-----------------------------------------------------------------------------
(* Properties.                                                             *)

TypeOK ==
  /\ msg_array \in [Slots -> Messages \cup {Nothing}]
  /\ read_index \in Slots /\ write_index \in Slots /\ msg_count \in 0 .. MaxSize
  /\ writing_disabled \in BOOLEAN
  /\ readers_waiting \in Nat /\ writers_waiting \in Nat
  /\ pc \in [Threads -> {"idle", "send", "write_cond", "recv", "read_cond"}]
  /\ asleep \subseteq Threads
  /\ mode \in [Threads -> {"none", "block", "try", "timed"}]
  /\ msg \in [Senders -> Messages \cup {Nothing}]
  /\ got \in Messages \cup {Nothing}

\* The messages in the ring, oldest first.
Position(i) == IF read_index + i - 1 < MaxSize THEN read_index + i - 1 ELSE read_index + i - 1 - MaxSize
Contents == [i \in 1 .. msg_count |-> msg_array[Position(i)]]

FIFO == INSTANCE BoundedFIFO WITH
          Capacity <- MaxSize, contents <- Contents, closed <- writing_disabled

\* The ring, with its two indices wrapping round, is a bounded FIFO: every
\* message a send accepted is received once, in the order of the sends, and
\* nothing is accepted from an ordinary sender while sending is disabled.
ImplementsFIFO == FIFO!FifoSpec

\* Threads woken from the condition whose section will use what it found.
WokenWriters == {t \in Senders : Woken(t, "write_cond") /\ ~Stopped(t)}
WokenReaders == {r \in Receivers : Woken(r, "read_cond")}

\* No wake-up is lost: while a sender sleeps there are as many senders on
\* their way back as there are free slots, and the same for receivers and
\* messages.  Timeouts, refusals and callers that jump the queue take no
\* wake-up with them, and ccircq_disable_sending wakes every ordinary sender.
NoLostWakeup ==
  /\ writing_disabled => On("write_cond") \subseteq Owners
  /\ On("write_cond") # {} => Cardinality(WokenWriters) >= MaxSize - msg_count
  /\ On("read_cond") # {} => Cardinality(WokenReaders) >= msg_count

\* Nobody waits uncounted: the counters that let send and receive skip the
\* signal are the number of threads between their wait and their count-out.
WaitersCounted ==
  /\ writers_waiting = Cardinality({t \in Senders : pc[t] = "write_cond"})
  /\ readers_waiting = Cardinality({r \in Receivers : pc[r] = "read_cond"})
=============================================================================
