-------------------------------- MODULE Select --------------------------------
(***************************************************************************)
(* cselect and cselect_timed (src/src/cthreadcomm.c): a thread waits until *)
(* one of several queue directions or a file descriptor is ready.  It      *)
(* links a waiter node into the list of every queue it finds not ready,    *)
(* waits on its own condition variable, or in epoll when the set has a     *)
(* descriptor, takes its nodes out again and looks once more.              *)
(*                                                                         *)
(* A send wakes exactly one listed waiter, chosen by the list's rotor; the *)
(* notifier holds the queue's mutex from the change of the queue to the    *)
(* signal, which it sends after it released the waiter's own mutex.  The   *)
(* messages and the blocked senders and receivers are in CircQueue.        *)
(***************************************************************************)
EXTENDS WaiterList, Integers, FiniteSets, Sequences

CONSTANTS
  Selectors, Others,     \* threads that call cselect; threads that do not
  Queues, Fd,            \* Fd stands for the one file descriptor
  Selectables,           \* selector -> sequence of [queue, dir]
  Capacity,              \* max_size of every queue
  MaxEvents              \* bound: sends, switches and descriptor events

\* What _sel_validate_args lets through.
ASSUME SelectAssumption ==
  /\ Selectors \cap Others = {} /\ Fd \notin Queues /\ Null \notin Selectors
  /\ Selectables \in [Selectors -> Seq([queue : Queues \cup {Fd}, dir : {"read", "write"}])]
  /\ \A s \in Selectors : Selectables[s] # <<>>
  /\ Capacity \in Nat \ {0} /\ MaxEvents \in Nat

Dirs == {"read", "write"}
Threads == Selectors \cup Others
Indices(s) == 1 .. Len(Selectables[s])
Lists == Queues \X Dirs
ListOf(s, i) == <<Selectables[s][i].queue, Selectables[s][i].dir>>
Nodes == {n \in Selectors \X Nat : n[2] \in Indices(n[1])}
HasFd(s) == \E i \in Indices(s) : Selectables[s][i].queue = Fd

VARIABLES
  msg_count, writing_disabled, fd_ready,
  waiters, rotor,        \* list -> its nodes, head first; list -> node or Null
  ready, efd,            \* selector -> its flag; the nodes whose eventfd is written
  epoll,                 \* selectors that have built their epoll set
  pc, asleep,
  start, left,           \* where the scan began, how many are left to look at
  found,                 \* index the call will return, 0 for none
  after,                 \* what follows the deregistration
  fd_seen,               \* what poll said of the descriptor when the scan began
  signal,                \* thread -> what it still has to signal, mutex held
  events

queueVars == <<msg_count, writing_disabled>>
listVars == <<waiters, rotor>>
wakeVars == <<ready, efd, signal>>
callVars == <<start, left, found, after, fd_seen>>
vars == <<queueVars, fd_ready, listVars, wakeVars, epoll, pc, asleep, callVars, events>>

Unlocked == [queue |-> Null, cond |-> Null, rest |-> <<>>]

Init ==
  /\ msg_count = [q \in Queues |-> 0] /\ writing_disabled = [q \in Queues |-> FALSE]
  /\ fd_ready = FALSE
  /\ waiters = [l \in Lists |-> <<>>] /\ rotor = [l \in Lists |-> Null]
  /\ ready = [s \in Selectors |-> FALSE] /\ efd = {}
  /\ epoll = {}
  /\ pc = [s \in Selectors |-> "idle"] /\ asleep = {}
  /\ start = [s \in Selectors |-> 1] /\ left = [s \in Selectors |-> 0]
  /\ found = [s \in Selectors |-> 0] /\ after = [s \in Selectors |-> "none"]
  /\ fd_seen = [s \in Selectors |-> FALSE]
  /\ signal = [t \in Threads |-> Unlocked]
  /\ events = 0

-----------------------------------------------------------------------------
(* Waking waiters.                                                         *)

\* Nobody is inside a section of the queue's mutex.
Free(q) == \A t \in Threads : signal[t].queue # q
Running(t) == signal[t] = Unlocked

\* _notify_waiter up to the release of sel_mtx, for the first of targets; the
\* thread keeps the queue's mutex while a signal or another target is left.
\* written are the nodes whose eventfd is written already.
Mark(t, q, targets, written) ==
  \/ /\ targets = <<>>
     /\ efd' = written /\ signal' = [signal EXCEPT ![t] = Unlocked]
     /\ UNCHANGED ready
  \/ /\ targets # <<>>
     /\ \E n \in {Head(targets)} : \E wakes \in {~ready[n[1]] /\ n[1] \notin epoll} :
          /\ ready' = [ready EXCEPT ![n[1]] = TRUE]
          /\ efd' = IF ~ready[n[1]] /\ n[1] \in epoll THEN written \cup {n} ELSE written
          /\ signal' = [signal EXCEPT ![t] =
               IF wakes \/ Tail(targets) # <<>>
               THEN [queue |-> q, cond |-> IF wakes THEN n[1] ELSE Null, rest |-> Tail(targets)]
               ELSE Unlocked]

NotifyOne(t, l) ==
  \E to \in {Target(waiters[l], rotor[l])} :
    /\ Mark(t, l[1], to, efd)
    /\ rotor' = [rotor EXCEPT ![l] = Rotated(waiters[l], @, to)]

\* The condition variable is signalled once sel_mtx is released, then the walk
\* of notify_all_sel_waiters goes on or the queue's mutex is released.
NotifySignal(t) ==
  /\ signal[t] # Unlocked
  /\ asleep' = asleep \ {signal[t].cond}
  /\ Mark(t, signal[t].queue, signal[t].rest, efd)
  /\ UNCHANGED <<queueVars, fd_ready, listVars, epoll, pc, callVars, events>>

-----------------------------------------------------------------------------
(* Operations on the queues and the descriptor.                            *)

Put(t, q) ==
  /\ Free(q) /\ msg_count[q] < Capacity /\ ~writing_disabled[q]
  /\ msg_count' = [msg_count EXCEPT ![q] = @ + 1]
  /\ NotifyOne(t, <<q, "read">>)

Get(t, q) ==
  /\ Free(q) /\ msg_count[q] > 0
  /\ msg_count' = [msg_count EXCEPT ![q] = @ - 1]
  /\ NotifyOne(t, <<q, "write">>)

Send(t, q) ==
  /\ Running(t) /\ events < MaxEvents
  /\ Put(t, q) /\ events' = events + 1
  /\ UNCHANGED <<writing_disabled, fd_ready, waiters, epoll, pc, asleep, callVars>>

Recv(t, q) ==
  /\ Running(t) /\ Get(t, q)
  /\ UNCHANGED <<writing_disabled, fd_ready, waiters, epoll, pc, asleep, callVars, events>>

\* The disable and enable calls wake every write waiter.
SetDisabled(t, q, b) ==
  /\ Running(t) /\ Free(q) /\ events < MaxEvents /\ writing_disabled[q] # b
  /\ writing_disabled' = [writing_disabled EXCEPT ![q] = b]
  /\ Mark(t, q, waiters[<<q, "write">>], efd)
  /\ events' = events + 1
  /\ UNCHANGED <<msg_count, fd_ready, listVars, epoll, pc, asleep, callVars>>

FdEvent ==
  /\ ~fd_ready /\ events < MaxEvents
  /\ fd_ready' = TRUE /\ events' = events + 1
  /\ UNCHANGED <<queueVars, listVars, wakeVars, epoll, pc, asleep, callVars>>

-----------------------------------------------------------------------------
(* The call.                                                               *)

\* _queue_sel_is_ready, and what poll says of the descriptor.
Ready(l) ==
  IF l[1] = Fd THEN fd_ready
  ELSE IF l[2] = "read" THEN msg_count[l[1]] > 0
  ELSE msg_count[l[1]] < Capacity \/ writing_disabled[l[1]]

Listed(s, i) == ListOf(s, i) \in Lists /\ \E j \in DOMAIN waiters[ListOf(s, i)] : waiters[ListOf(s, i)][j] = <<s, i>>
Linked(s) == {i \in Indices(s) : Listed(s, i)}

\* _sel_phase1_scan_register begins, with one poll of the descriptor.
BeginScan(s) ==
  /\ left' = [left EXCEPT ![s] = Len(Selectables[s])]
  /\ fd_seen' = [fd_seen EXCEPT ![s] = HasFd(s) /\ fd_ready]
  /\ after' = [after EXCEPT ![s] = "none"]
  /\ ready' = [ready EXCEPT ![s] = FALSE]
  /\ pc' = [pc EXCEPT ![s] = "scan"]

SelectCall(s) ==
  /\ pc[s] = "idle" /\ Running(s)
  /\ \E i \in Indices(s) : start' = [start EXCEPT ![s] = i]
  /\ BeginScan(s)
  /\ UNCHANGED <<queueVars, fd_ready, listVars, efd, signal, epoll, asleep, found, events>>

\* The call is over when its nodes are out of the lists.
Leave(s, i) ==
  /\ found' = [found EXCEPT ![s] = i]
  /\ left' = [left EXCEPT ![s] = 0] /\ fd_seen' = [fd_seen EXCEPT ![s] = FALSE]
  /\ after' = [after EXCEPT ![s] = "return"]
  /\ pc' = [pc EXCEPT ![s] = "dereg"]

PollFails(s) ==
  /\ pc[s] = "scan" /\ HasFd(s) /\ left[s] = Len(Selectables[s])
  /\ Leave(s, 0)
  /\ UNCHANGED <<queueVars, fd_ready, listVars, wakeVars, epoll, asleep, start, events>>

\* The index the scan is at.
At(s) == LET i == start[s] + Len(Selectables[s]) - left[s]
         IN IF i > Len(Selectables[s]) THEN i - Len(Selectables[s]) ELSE i

Scanning(s) == pc[s] = "scan" /\ left[s] > 0 /\ Running(s)

Here(s) == ListOf(s, At(s))

\* A ready queue passes the wake on to the next waiter and ends the scan.
ScanFinds(s) ==
  /\ Scanning(s) /\ Here(s) \in Lists /\ Free(Here(s)[1]) /\ Ready(Here(s))
  /\ \E l \in {Here(s)} : NotifyOne(s, l)
  /\ Leave(s, At(s))
  /\ UNCHANGED <<queueVars, fd_ready, waiters, epoll, asleep, start, events>>

\* _sel_link_waiter at the head of the list of a queue that is not ready.
ScanLinks(s) ==
  /\ Scanning(s) /\ Here(s) \in Lists /\ Free(Here(s)[1]) /\ ~Ready(Here(s))
  /\ waiters' = [waiters EXCEPT ![Here(s)] = <<<<s, At(s)>>>> \o @]
  /\ left' = [left EXCEPT ![s] = @ - 1]
  /\ UNCHANGED <<queueVars, fd_ready, rotor, wakeVars, epoll, pc, asleep, start, found, after, fd_seen, events>>

\* The descriptor, as the poll saw it.
ScanFdFinds(s) ==
  /\ Scanning(s) /\ Here(s) \notin Lists /\ fd_seen[s]
  /\ Leave(s, At(s))
  /\ UNCHANGED <<queueVars, fd_ready, listVars, wakeVars, epoll, asleep, start, events>>

ScanFdPasses(s) ==
  /\ Scanning(s) /\ Here(s) \notin Lists /\ ~fd_seen[s]
  /\ left' = [left EXCEPT ![s] = @ - 1]
  /\ UNCHANGED <<queueVars, fd_ready, listVars, wakeVars, epoll, pc, asleep, start, found, after, fd_seen, events>>

\* Nothing is ready: wait, or first build the epoll set.
ScanEnds(s) ==
  /\ pc[s] = "scan" /\ left[s] = 0 /\ Running(s)
  /\ IF HasFd(s) /\ s \notin epoll
     THEN pc' = [pc EXCEPT ![s] = "dereg"] /\ after' = [after EXCEPT ![s] = "setup"]
     ELSE pc' = [pc EXCEPT ![s] = "wait"] /\ UNCHANGED after
  /\ UNCHANGED <<queueVars, fd_ready, listVars, wakeVars, epoll, asleep, start, left, found, fd_seen, events>>

\* _sel_wait_condvar: the flag is looked at, and the wait begun, under sel_mtx.
WaitSleeps(s) ==
  /\ pc[s] = "wait" /\ ~HasFd(s) /\ ~ready[s] /\ s \notin asleep
  /\ asleep' = asleep \cup {s}
  /\ UNCHANGED <<queueVars, fd_ready, listVars, wakeVars, epoll, pc, callVars, events>>

WaitReturns(s) ==
  /\ pc[s] = "wait" /\ ~HasFd(s) /\ ready[s] /\ s \notin asleep
  /\ ready' = [ready EXCEPT ![s] = FALSE]
  /\ after' = [after EXCEPT ![s] = "rescan"]
  /\ pc' = [pc EXCEPT ![s] = "dereg"]
  /\ UNCHANGED <<queueVars, fd_ready, listVars, efd, signal, epoll, asleep, start, left, found, fd_seen, events>>

\* The deadline passes, or the wait fails: with the flag set it counts as a wake.
WaitTimesOut(s) ==
  /\ pc[s] = "wait" /\ ~HasFd(s) /\ s \in asleep
  /\ asleep' = asleep \ {s}
  /\ ready' = [ready EXCEPT ![s] = FALSE]
  /\ after' = [after EXCEPT ![s] = IF ready[s] THEN "rescan" ELSE "return"]
  /\ pc' = [pc EXCEPT ![s] = "dereg"]
  /\ UNCHANGED <<queueVars, fd_ready, listVars, efd, signal, epoll, start, left, found, fd_seen, events>>

SpuriousWakeup(s) ==
  /\ s \in asleep /\ asleep' = asleep \ {s}
  /\ UNCHANGED <<queueVars, fd_ready, listVars, wakeVars, epoll, pc, callVars, events>>

\* _sel_wait_epoll: a descriptor that fired is the result, an eventfd alone
\* means another look.
EpollReturns(s) ==
  /\ pc[s] = "wait" /\ s \in epoll
  /\ \/ fd_ready /\ Leave(s, CHOOSE i \in Indices(s) : ListOf(s, i)[1] = Fd)
     \/ /\ ~fd_ready /\ \E n \in efd : n[1] = s
        /\ after' = [after EXCEPT ![s] = "rescan"]
        /\ pc' = [pc EXCEPT ![s] = "dereg"]
        /\ UNCHANGED <<found, left, fd_seen>>
  /\ UNCHANGED <<queueVars, fd_ready, listVars, wakeVars, epoll, asleep, start, events>>

\* The deadline passes with no event, or epoll fails.
EpollTimesOut(s) ==
  /\ pc[s] = "wait" /\ s \in epoll
  /\ Leave(s, 0)
  /\ UNCHANGED <<queueVars, fd_ready, listVars, wakeVars, epoll, asleep, start, events>>

\* The next node the deregistration takes out.
Departing(s) == CHOOSE i \in Linked(s) : \A j \in Linked(s) : i <= j

\* Mutant: the wake is not passed on.
Forwarded_Never(l, list, rot) == <<>>

\* Whom a departing node's queue notifies: a ready queue passes the wake on.
Forwarded(l, list, rot) == IF Ready(l) THEN Target(list, rot) ELSE <<>>

\* deregister_sel_waiter; the eventfd is drained.
Deregister(s) ==
  /\ pc[s] = "dereg" /\ Running(s) /\ Linked(s) # {}
  /\ \E n \in {<<s, Departing(s)>>} : \E l \in {ListOf(s, n[2])} :
       \E list \in {Without(waiters[l], n)}, rot \in {Unrotored(waiters[l], rotor[l], n)} :
       \E to \in {Forwarded(l, list, rot)} :
         /\ Free(l[1])
         /\ waiters' = [waiters EXCEPT ![l] = list]
         /\ rotor' = [rotor EXCEPT ![l] = Rotated(list, rot, to)]
         /\ Mark(s, l[1], to, efd \ {n})
  /\ UNCHANGED <<queueVars, fd_ready, epoll, pc, asleep, callVars, events>>

Deregistered(s, what) == pc[s] = "dereg" /\ Running(s) /\ Linked(s) = {} /\ after[s] = what

\* The flag is cleared and the scan starts over.
LooksAgain(s) ==
  /\ Deregistered(s, "rescan")
  /\ BeginScan(s)
  /\ UNCHANGED <<queueVars, fd_ready, listVars, efd, signal, epoll, asleep, start, found, events>>

\* _sel_setup_epoll, unless the deadline has passed or the set cannot be built.
BuildsEpoll(s) ==
  /\ Deregistered(s, "setup")
  /\ epoll' = epoll \cup {s}
  /\ BeginScan(s)
  /\ UNCHANGED <<queueVars, fd_ready, listVars, efd, signal, asleep, start, found, events>>

EpollSetupFails(s) ==
  /\ Deregistered(s, "setup")
  /\ after' = [after EXCEPT ![s] = "return"]
  /\ UNCHANGED <<queueVars, fd_ready, listVars, wakeVars, epoll, pc, asleep, start, left, found, fd_seen, events>>

\* cselect_timed returns and its locals are gone.
Returns(s) ==
  /\ Deregistered(s, "return")
  /\ pc' = [pc EXCEPT ![s] = IF found[s] = 0 THEN "idle" ELSE "use"]
  /\ epoll' = epoll \ {s}
  /\ ready' = [ready EXCEPT ![s] = FALSE]
  /\ start' = [start EXCEPT ![s] = 1] /\ after' = [after EXCEPT ![s] = "none"]
  /\ UNCHANGED <<queueVars, fd_ready, listVars, efd, signal, asleep, left, found, fd_seen, events>>

\* The caller does what the call said it may do, without waiting: somebody
\* else may have done it before.
Use(s) ==
  /\ pc[s] = "use" /\ Running(s)
  /\ LET q == ListOf(s, found[s])[1]
         d == ListOf(s, found[s])[2]
     IN \/ /\ q = Fd /\ fd_ready' = FALSE
           /\ UNCHANGED <<msg_count, wakeVars, rotor>>
        \/ /\ q # Fd /\ d = "read" /\ Get(s, q)
           /\ UNCHANGED fd_ready
        \/ /\ q # Fd /\ d = "write" /\ Put(s, q)
           /\ UNCHANGED fd_ready
        \/ /\ q # Fd /\ Free(q)
           /\ IF d = "read" THEN msg_count[q] = 0 ELSE msg_count[q] = Capacity \/ writing_disabled[q]
           /\ UNCHANGED <<msg_count, wakeVars, rotor, fd_ready>>
  /\ found' = [found EXCEPT ![s] = 0]
  /\ pc' = [pc EXCEPT ![s] = "idle"]
  /\ UNCHANGED <<writing_disabled, waiters, epoll, asleep, start, left, after, fd_seen, events>>

\* The steps of a thread that uses cselect in a loop.
Selector(s) ==
  \/ SelectCall(s) \/ ScanFinds(s) \/ ScanLinks(s) \/ ScanFdFinds(s) \/ ScanFdPasses(s) \/ ScanEnds(s)
  \/ WaitSleeps(s) \/ WaitReturns(s) \/ EpollReturns(s)
  \/ Deregister(s) \/ LooksAgain(s) \/ BuildsEpoll(s) \/ Returns(s) \/ Use(s)

Next ==
  \/ \E s \in Selectors : \/ Selector(s) \/ SpuriousWakeup(s)
                          \/ PollFails(s) \/ EpollSetupFails(s) \/ WaitTimesOut(s) \/ EpollTimesOut(s)
  \/ \E t \in Others, q \in Queues : \/ Send(t, q) \/ Recv(t, q)
                                     \/ \E b \in BOOLEAN : SetDisabled(t, q, b)
  \/ \E t \in Threads : NotifySignal(t)
  \/ FdEvent

Spec == Init /\ [][Next]_vars

-----------------------------------------------------------------------------
(* Properties.                                                             *)

InCall(s) == pc[s] \in {"scan", "wait", "dereg"}

TypeOK ==
  /\ msg_count \in [Queues -> 0 .. Capacity] /\ writing_disabled \in [Queues -> BOOLEAN]
  /\ fd_ready \in BOOLEAN
  /\ \A l \in Lists : \A j \in DOMAIN waiters[l] : waiters[l][j] \in Nodes
  /\ \A l \in Lists : rotor[l] \in Nodes \cup {Null}
  /\ ready \in [Selectors -> BOOLEAN] /\ efd \subseteq Nodes
  /\ epoll \subseteq Selectors /\ asleep \subseteq Selectors
  /\ pc \in [Selectors -> {"idle", "scan", "wait", "dereg", "use"}]
  /\ \A s \in Selectors : start[s] \in Indices(s) /\ left[s] \in 0 .. Len(Selectables[s])
  /\ \A s \in Selectors : found[s] \in 0 .. Len(Selectables[s])
  /\ after \in [Selectors -> {"none", "rescan", "setup", "return"}]
  /\ fd_seen \in [Selectors -> BOOLEAN] /\ events \in 0 .. MaxEvents

\* No list, rotor or half-done notification points at a node whose call has
\* returned and freed it; a node is in its list once.
NoDanglingNode ==
  /\ \A l \in Lists : \A j, k \in DOMAIN waiters[l] :
       /\ InCall(waiters[l][j][1])
       /\ waiters[l][j] = waiters[l][k] => j = k
  /\ \A l \in Lists : rotor[l] # Null => \E j \in DOMAIN waiters[l] : waiters[l][j] = rotor[l]
  /\ \A t \in Threads : signal[t].cond # Null => InCall(signal[t].cond)

\* The selector is awake, or something will wake it.
WillLook(s) ==
  \/ pc[s] # "wait"
  \/ IF s \in epoll THEN fd_ready \/ \E n \in efd : n[1] = s
     ELSE ready[s] /\ (s \in asleep => \E t \in Threads : signal[t].cond = s)

\* A wake is never lost: while a queue is ready and has waiters, one of them
\* is going to look, or a walk over the waiters is on its way.  Waiters that
\* time out, find another queue or are told twice pass the wake on.
NoLostNotify ==
  \A l \in Lists :
    Ready(l) /\ waiters[l] # <<>> /\ Free(l[1]) =>
      \E j \in DOMAIN waiters[l] : WillLook(waiters[l][j][1])
=============================================================================
