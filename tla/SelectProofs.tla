---------------------------- MODULE SelectProofs ----------------------------
(***************************************************************************)
(* For any number of selectors, queues and other threads, and any          *)
(* selectables: no wake of a select is lost, and no waiter list, rotor or  *)
(* notification refers to a node whose call has returned.                  *)
(***************************************************************************)
EXTENDS Select, SequenceLemmas

Signals == [queue : Queues \cup {Null}, cond : Selectors \cup {Null}, rest : Seq(Nodes)]

TypeInv ==
  /\ msg_count \in [Queues -> 0 .. Capacity] /\ writing_disabled \in [Queues -> BOOLEAN]
  /\ fd_ready \in BOOLEAN
  /\ waiters \in [Lists -> Seq(Nodes)] /\ rotor \in [Lists -> Nodes \cup {Null}]
  /\ ready \in [Selectors -> BOOLEAN] /\ efd \subseteq Nodes
  /\ epoll \subseteq Selectors /\ asleep \subseteq Selectors
  /\ pc \in [Selectors -> {"idle", "scan", "wait", "dereg", "use"}]
  /\ start \in [Selectors -> Nat] /\ left \in [Selectors -> Nat] /\ found \in [Selectors -> Nat]
  /\ \A s \in Selectors : /\ start[s] \in Indices(s)
                          /\ left[s] \in 0 .. Len(Selectables[s])
                          /\ found[s] \in 0 .. Len(Selectables[s])
  /\ after \in [Selectors -> {"none", "rescan", "setup", "return"}]
  /\ fd_seen \in [Selectors -> BOOLEAN] /\ events \in 0 .. MaxEvents
  /\ signal \in [Threads -> Signals]

\* Only a call with a descriptor waits in epoll, and one that is used has found
\* something.
CallInv ==
  \A s \in Selectors : /\ s \in epoll \/ after[s] = "setup" => HasFd(s)
                       /\ pc[s] = "use" => found[s] # 0

\* How far from the start of the scan an index is, and whether the scan has been there.
Offset(s, i) == IF i >= start[s] THEN i - start[s] ELSE (i + Len(Selectables[s])) - start[s]
Visited(s, i) == Offset(s, i) < Len(Selectables[s]) - left[s]

\* A list holds nodes of calls in progress, each once and in the list it is for, and
\* during the scan only those the scan has passed; its rotor is one of them.
ListInv ==
  \A l \in Lists :
    /\ Distinct(waiters[l])
    /\ \A n \in Elems(waiters[l]) : /\ ListOf(n[1], n[2]) = l
                                    /\ InCall(n[1])
                                    /\ pc[n[1]] = "scan" => Visited(n[1], n[2])
    /\ rotor[l] # Null => rotor[l] \in Elems(waiters[l])

\* What a notifier is about to signal or to mark is linked in the queue it has locked.
OnQueue(w, n, q) == \E l \in Lists : l[1] = q /\ n \in Elems(w[l])
StillLinked(w, g) ==
  /\ g = Unlocked \/ g.queue \in Queues
  /\ g.cond # Null => \E i \in Indices(g.cond) : OnQueue(w, <<g.cond, i>>, g.queue)
  /\ \A n \in Elems(g.rest) : OnQueue(w, n, g.queue)
SignalInv == \A t \in Threads : StillLinked(waiters, signal[t])

\* A flag that is set comes with what ends the wait.
WakeInv ==
  \A s \in Selectors : ready[s] =>
    /\ s \notin epoll /\ s \in asleep => \E t \in Threads : signal[t].cond = s
    /\ s \in epoll /\ pc[s] \in {"scan", "wait"} => \E n \in efd : n[1] = s

\* One of the waiters of a ready queue has its flag set or is on its way out, where it
\* passes the wake on.
Look(s) == ready[s] \/ pc[s] = "dereg"
LookInv ==
  \A l \in Lists :
    Ready(l) /\ waiters[l] # <<>> => \E n \in Elems(waiters[l]) : Look(n[1])

IInv == TypeInv /\ CallInv /\ ListInv /\ SignalInv /\ WakeInv /\ LookInv

-----------------------------------------------------------------------------
(* The operators of the waiter list.                                       *)

LEMMA SelectablesType ==
  ASSUME NEW s \in Selectors
  PROVE  /\ Len(Selectables[s]) \in Nat \ {0}
         /\ \A i \in Indices(s) : /\ i \in Nat \ {0} /\ <<s, i>> \in Nodes
                                  /\ ListOf(s, i) \in Lists \/ ListOf(s, i)[1] = Fd
                                  /\ ListOf(s, i)[1] # Fd => ListOf(s, i) \in Lists
<1> DEFINE Item == [queue : Queues \cup {Fd}, dir : {"read", "write"}]
<1>1. Selectables[s] \in Seq(Item) /\ Selectables[s] # <<>> BY SelectAssumption
<1>2. Len(Selectables[s]) \in Nat \ {0} BY <1>1, LenProperties, EmptySeq
<1>3. ASSUME NEW i \in Indices(s) PROVE Selectables[s][i] \in Item
  BY <1>1, ElementOfSeq DEF Indices
<1>4. ASSUME NEW i \in Indices(s) PROVE i \in Nat \ {0} /\ <<s, i>> \in Nodes
  BY <1>2 DEF Indices, Nodes
<1> QED BY <1>2, <1>3, <1>4 DEF ListOf, Lists, Dirs

LEMMA NodeType ==
  ASSUME NEW n \in Nodes
  PROVE  n[1] \in Selectors /\ n[2] \in Indices(n[1]) /\ n = <<n[1], n[2]>>
BY DEF Nodes

LEMMA NextOfIn ==
  ASSUME NEW S, NEW list \in Seq(S), NEW n
  PROVE  /\ NextOf(list, n) = Null \/ NextOf(list, n) \in Elems(list)
         /\ Distinct(list) => NextOf(list, n) = Null \/ NextOf(list, n) # n
<1>1. Len(list) \in Nat BY LenProperties
<1>2. CASE \E j \in 1 .. Len(list) - 1 : list[j] = n
  <2> DEFINE j == CHOOSE k \in 1 .. Len(list) - 1 : list[k] = n
  <2>1. j \in 1 .. Len(list) - 1 /\ list[j] = n BY <1>2
  <2>2. NextOf(list, n) = list[j + 1] BY <1>2 DEF NextOf
  <2> HIDE DEF j
  <2>3. j \in 1 .. Len(list) /\ j + 1 \in 1 .. Len(list) /\ j + 1 # j BY <1>1, <2>1
  <2> QED BY <2>1, <2>2, <2>3 DEF Elems, Distinct
<1>3. CASE ~\E j \in 1 .. Len(list) - 1 : list[j] = n BY <1>3 DEF NextOf
<1> QED BY <1>2, <1>3

LEMMA TargetProperties ==
  ASSUME NEW S, NEW list \in Seq(S), NEW rot, rot # Null => rot \in Elems(list)
  PROVE  /\ Target(list, rot) \in Seq(S)
         /\ Elems(Target(list, rot)) \subseteq Elems(list)
         /\ list # <<>> => Target(list, rot) # <<>>
         /\ Target(list, rot) # <<>> => Head(Target(list, rot)) \in Elems(list)
         /\ Tail(Target(list, rot)) = <<>> \/ Target(list, rot) = <<>>
<1>0. Len(list) \in Nat /\ \A i \in 1 .. Len(list) : list[i] \in S BY LenProperties, ElementOfSeq
<1>1. Elems(list) \subseteq S BY <1>0 DEF Elems
<1>2. ASSUME NEW x \in Elems(list)
      PROVE  /\ <<x>> \in Seq(S) /\ Elems(<<x>>) \subseteq Elems(list) /\ <<x>> # <<>>
             /\ Head(<<x>>) = x /\ Tail(<<x>>) = <<>>
  BY <1>1 DEF Elems
<1>3. CASE rot # Null BY <1>2, <1>3 DEF Target
<1>4. CASE rot = Null /\ list = <<>>
  <2>1. Target(list, rot) = <<>> BY <1>4 DEF Target
  <2>2. <<>> \in Seq(S) /\ Elems(<<>>) = {} BY DEF Elems
  <2> QED BY <2>1, <2>2, <1>4
<1>5. CASE rot = Null /\ list # <<>>
  <2>1. Head(list) = list[1] /\ 1 \in 1 .. Len(list) BY <1>0, <1>5, EmptySeq, HeadTailProperties
  <2>2. Head(list) \in Elems(list) BY <2>1 DEF Elems
  <2> QED BY <1>2, <1>5, <2>2 DEF Target
<1> QED BY <1>3, <1>4, <1>5

LEMMA RotatedIn ==
  ASSUME NEW S, NEW list \in Seq(S), NEW rot, rot # Null => rot \in Elems(list), NEW to
  PROVE  Rotated(list, rot, to) # Null => Rotated(list, rot, to) \in Elems(list)
BY NextOfIn DEF Rotated

LEMMA ConsProperties ==
  ASSUME NEW S, NEW list \in Seq(S), NEW x \in S
  PROVE  /\ <<x>> \o list \in Seq(S) /\ <<x>> \o list # <<>>
         /\ Elems(<<x>> \o list) = Elems(list) \cup {x}
         /\ Distinct(list) /\ x \notin Elems(list) => Distinct(<<x>> \o list)
<1> DEFINE new == <<x>> \o list
<1>1. <<x>> \in Seq(S) /\ Len(<<x>>) = 1 /\ <<x>>[1] = x OBVIOUS
<1>2. /\ new \in Seq(S) /\ Len(new) = 1 + Len(list) /\ Len(list) \in Nat
      /\ \A i \in 1 .. 1 + Len(list) : new[i] = IF i <= 1 THEN <<x>>[i] ELSE list[i - 1]
  BY <1>1, ConcatProperties, LenProperties
<1> HIDE DEF new
<1>3. new[1] = x /\ \A i \in 1 .. Len(list) : new[i + 1] = list[i]
  <2>1. ASSUME NEW i \in 1 .. Len(list) PROVE new[i + 1] = list[i]
    <3>1. i + 1 \in 1 .. 1 + Len(list) /\ ~(i + 1 <= 1) /\ (i + 1) - 1 = i BY <1>2
    <3> QED BY <1>2, <3>1
  <2> QED BY <1>1, <1>2, <2>1
<1>4. new # <<>> BY <1>2, EmptySeq
<1>5. \A i \in 1 .. Len(new) : i = 1 \/ \E j \in 1 .. Len(list) : i = j + 1
  <2> SUFFICES ASSUME NEW i \in 1 .. Len(new), i # 1 PROVE \E j \in 1 .. Len(list) : i = j + 1 OBVIOUS
  <2>1. i - 1 \in 1 .. Len(list) /\ i = (i - 1) + 1 BY <1>2
  <2> QED BY <2>1
<1>6. \A j \in 1 .. Len(list) : j + 1 \in 1 .. Len(new) BY <1>2
<1>7. 1 \in 1 .. Len(new) BY <1>2
<1>8. Elems(new) = Elems(list) \cup {x}
  <2>1. ASSUME NEW y \in Elems(new) PROVE y \in Elems(list) \cup {x}
    <3>1. PICK i \in 1 .. Len(new) : new[i] = y BY DEF Elems
    <3>2. CASE i = 1 BY <1>3, <3>1, <3>2
    <3>3. CASE i # 1
      <4>1. PICK j \in 1 .. Len(list) : i = j + 1 BY <1>5, <3>3
      <4> QED BY <1>3, <3>1, <4>1 DEF Elems
    <3> QED BY <3>2, <3>3
  <2>2. ASSUME NEW y \in Elems(list) PROVE y \in Elems(new)
    <3>1. PICK j \in 1 .. Len(list) : list[j] = y BY DEF Elems
    <3>2. j + 1 \in 1 .. Len(new) /\ new[j + 1] = y BY <1>3, <1>6, <3>1
    <3> QED BY <3>2 DEF Elems
  <2>3. x \in Elems(new) BY <1>3, <1>7 DEF Elems
  <2> QED BY <2>1, <2>2, <2>3
<1>9. ASSUME Distinct(list), x \notin Elems(list) PROVE Distinct(new)
  <2>1. \A j \in 1 .. Len(list) : list[j] # x BY <1>9 DEF Elems
  <2>2. SUFFICES ASSUME NEW i \in 1 .. Len(new), NEW j \in 1 .. Len(new), new[i] = new[j] PROVE i = j
    BY DEF Distinct
  <2>3. CASE i = 1 BY <1>3, <1>5, <2>1, <2>2, <2>3
  <2>4. CASE j = 1 BY <1>3, <1>5, <2>1, <2>2, <2>4
  <2>5. CASE i # 1 /\ j # 1
    <3>1. PICK k \in 1 .. Len(list) : i = k + 1 BY <1>5, <2>5
    <3>2. PICK m \in 1 .. Len(list) : j = m + 1 BY <1>5, <2>5
    <3>3. k = m BY <1>3, <1>9, <2>2, <3>1, <3>2 DEF Distinct
    <3> QED BY <3>1, <3>2, <3>3
  <2> QED BY <2>3, <2>4, <2>5
<1> QED BY <1>2, <1>4, <1>8, <1>9 DEF new

LEMMA WithoutProperties ==
  ASSUME NEW S, NEW list \in Seq(S), NEW n \in Elems(list), Distinct(list)
  PROVE  /\ Without(list, n) \in Seq(S) /\ Distinct(Without(list, n))
         /\ Elems(Without(list, n)) = Elems(list) \ {n}
<1> DEFINE at == CHOOSE j \in 1 .. Len(list) : list[j] = n
           N == Len(list)
           new == Without(list, n)
<1>1. at \in 1 .. N /\ list[at] = n BY DEF Elems
<1>2. new = [i \in 1 .. N - 1 |-> IF i < at THEN list[i] ELSE list[i + 1]] BY DEF Without
<1>3. N \in Nat /\ \A i \in 1 .. N : list[i] \in S BY LenProperties, ElementOfSeq
<1> HIDE DEF at, new
<1>4. \A i \in 1 .. N - 1 : i \in 1 .. N /\ i + 1 \in 1 .. N BY <1>3
<1>5. new \in [1 .. N - 1 -> S] BY <1>2, <1>3, <1>4
<1>6. N - 1 \in Nat BY <1>1, <1>3
<1>7. new \in Seq(S) /\ Len(new) = N - 1
  <2>1. new \in Seq(S) BY <1>5, <1>6
  <2>2. DOMAIN new = 1 .. N - 1 BY <1>5
  <2> QED BY <1>6, <2>1, <2>2, LenProperties
<1> HIDE DEF N
<1>8. \A i \in 1 .. N - 1 : new[i] = IF i < at THEN list[i] ELSE list[i + 1] BY <1>2
<1>9. Distinct(new)
  <2>1. SUFFICES ASSUME NEW i \in 1 .. N - 1, NEW j \in 1 .. N - 1, new[i] = new[j] PROVE i = j
    BY <1>7 DEF Distinct
  <2>2. \A k, m \in 1 .. N : list[k] = list[m] => k = m BY DEF Distinct, N
  <2>3. CASE i < at /\ j < at BY <1>4, <1>8, <2>1, <2>2, <2>3
  <2>4. CASE i < at /\ ~(j < at)
    <3>1. i = j + 1 BY <1>4, <1>8, <2>1, <2>2, <2>4
    <3> QED BY <1>1, <1>3, <2>4, <3>1
  <2>5. CASE ~(i < at) /\ j < at
    <3>1. j = i + 1 BY <1>4, <1>8, <2>1, <2>2, <2>5
    <3> QED BY <1>1, <1>3, <2>5, <3>1
  <2>6. CASE ~(i < at) /\ ~(j < at)
    <3>1. i + 1 = j + 1 BY <1>4, <1>8, <2>1, <2>2, <2>6
    <3> QED BY <1>3, <3>1
  <2> QED BY <2>3, <2>4, <2>5, <2>6
<1>10. ASSUME NEW x \in Elems(new) PROVE x \in Elems(list) \ {n}
  <2>1. PICK i \in 1 .. N - 1 : new[i] = x BY <1>7 DEF Elems
  <2>2. PICK k \in 1 .. N : x = list[k] /\ k # at
    <3>1. CASE i < at BY <1>1, <1>4, <1>8, <2>1, <3>1
    <3>2. CASE ~(i < at) BY <1>1, <1>3, <1>4, <1>8, <2>1, <3>2
    <3> QED BY <3>1, <3>2
  <2>3. x # n BY <1>1, <2>2 DEF Distinct, N
  <2> QED BY <2>2, <2>3 DEF Elems, N
<1>11. ASSUME NEW x \in Elems(list) \ {n} PROVE x \in Elems(new)
  <2>1. PICK k \in 1 .. N : list[k] = x /\ k # at BY <1>1 DEF Elems, N
  <2>2. CASE k < at
    <3>1. k \in 1 .. N - 1 BY <1>1, <1>3, <2>1, <2>2
    <3> QED BY <1>7, <1>8, <2>1, <2>2, <3>1 DEF Elems
  <2>3. CASE k > at
    <3>1. k - 1 \in 1 .. N - 1 /\ ~(k - 1 < at) /\ (k - 1) + 1 = k BY <1>1, <1>3, <2>1, <2>3
    <3>2. new[k - 1] = x BY <1>8, <2>1, <3>1
    <3> QED BY <1>7, <3>1, <3>2 DEF Elems
  <2> QED BY <1>1, <1>3, <2>1, <2>2, <2>3
<1> QED BY <1>7, <1>9, <1>10, <1>11 DEF new

LEMMA UnrotoredIn ==
  ASSUME NEW S, NEW list \in Seq(S), NEW n \in Elems(list), Distinct(list),
         NEW rot, rot # Null => rot \in Elems(list)
  PROVE  Unrotored(list, rot, n) # Null => Unrotored(list, rot, n) \in Elems(Without(list, n))
BY NextOfIn, WithoutProperties DEF Unrotored

-----------------------------------------------------------------------------
(* What a notification does.                                               *)

\* What Mark leaves: the thread holds the mutex of q for signals to nodes among
\* the targets, or nothing.
LEMMA MarkEffect ==
  ASSUME TypeInv, NEW t \in Threads, NEW q \in Queues, NEW targets \in Seq(Nodes),
         NEW written \in SUBSET Nodes, Mark(t, q, targets, written)
  PROVE  /\ ready' \in [Selectors -> BOOLEAN] /\ efd' \in SUBSET Nodes /\ signal' \in [Threads -> Signals]
         /\ \A s \in Selectors : ready[s] => ready'[s]
         /\ written \subseteq efd'
         /\ \A u \in Threads \ {t} : signal'[u] = signal[u]
         /\ targets # <<>> => ready'[Head(targets)[1]]
         /\ \A s \in Selectors : ready'[s] /\ ~ready[s] =>
              /\ s \in epoll => \E n \in efd' : n[1] = s
              /\ s \notin epoll => signal'[t].cond = s
         /\ \/ signal'[t] = Unlocked
            \/ /\ signal'[t].queue = q /\ targets # <<>> /\ signal'[t].rest = Tail(targets)
               /\ signal'[t].cond \in {Null, Head(targets)[1]}
<1>0. /\ ready \in [Selectors -> BOOLEAN] /\ efd \in SUBSET Nodes /\ signal \in [Threads -> Signals]
  BY DEF TypeInv
<1>1. Unlocked \in Signals BY DEF Unlocked, Signals
<1>2. CASE targets = <<>>
  <2>1. efd' = written /\ signal' = [signal EXCEPT ![t] = Unlocked] /\ ready' = ready
    BY <1>2 DEF Mark
  <2> QED BY <1>0, <1>1, <1>2, <2>1
<1>3. CASE targets # <<>>
  <2> DEFINE n == Head(targets)
             wakes == ~ready[n[1]] /\ n[1] \notin epoll
             sig == IF wakes \/ Tail(targets) # <<>>
                    THEN [queue |-> q, cond |-> IF wakes THEN n[1] ELSE Null, rest |-> Tail(targets)]
                    ELSE Unlocked
  <2>1. /\ ready' = [ready EXCEPT ![n[1]] = TRUE]
        /\ efd' = IF ~ready[n[1]] /\ n[1] \in epoll THEN written \cup {n} ELSE written
        /\ signal' = [signal EXCEPT ![t] = sig]
    BY <1>3 DEF Mark
  <2>2. n \in Nodes /\ Tail(targets) \in Seq(Nodes) BY <1>3, HeadTailProperties
  <2>3. n[1] \in Selectors BY <2>2, NodeType
  <2>4. sig \in Signals BY <1>1, <2>2, <2>3 DEF Signals
  <2>5. \/ sig = Unlocked
        \/ sig.queue = q /\ sig.rest = Tail(targets) /\ sig.cond \in {Null, n[1]}
    OBVIOUS
  <2>6. wakes => sig.cond = n[1] OBVIOUS
  <2> HIDE DEF n, sig
  <2>7. signal'[t] = sig /\ \A u \in Threads \ {t} : signal'[u] = signal[u] BY <1>0, <2>1
  <2>8. /\ ready' \in [Selectors -> BOOLEAN] /\ efd' \in SUBSET Nodes /\ signal' \in [Threads -> Signals]
    BY <1>0, <2>1, <2>2, <2>3, <2>4
  <2>9. ready'[n[1]] /\ \A s \in Selectors : s # n[1] => ready'[s] = ready[s] BY <1>0, <2>1, <2>3
  <2>10. ASSUME NEW s \in Selectors, ready'[s], ~ready[s]
         PROVE  /\ s \in epoll => \E m \in efd' : m[1] = s
                /\ s \notin epoll => signal'[t].cond = s
    <3>1. s = n[1] BY <2>9, <2>10
    <3>2. s \in epoll => n \in efd' BY <2>1, <2>10, <3>1
    <3>3. s \notin epoll => wakes BY <2>10, <3>1
    <3> QED BY <2>6, <2>7, <3>1, <3>2, <3>3
  <2>11. written \subseteq efd' BY <2>1
  <2>12. \A s \in Selectors : ready[s] => ready'[s] BY <1>0, <2>9
  <2>13. n = Head(targets) BY DEF n
  <2> HIDE DEF wakes
  <2> QED BY <1>3, <2>5, <2>7, <2>8, <2>9, <2>10, <2>11, <2>12, <2>13
<1> QED BY <1>2, <1>3

\* What is left to signal is still linked, if the targets are.
LEMMA MarkSignals ==
  ASSUME TypeInv, SignalInv, NEW t \in Threads, NEW q \in Queues, NEW targets \in Seq(Nodes),
         NEW written \in SUBSET Nodes, Mark(t, q, targets, written),
         \A n \in Elems(targets) : OnQueue(waiters', n, q),
         \A u \in Threads \ {t}, n \in Nodes : OnQueue(waiters, n, signal[u].queue) => OnQueue(waiters', n, signal[u].queue)
  PROVE  SignalInv'
<1>1. ASSUME NEW u \in Threads \ {t}
      PROVE  StillLinked(waiters', signal'[u])
  <2>1. signal'[u] = signal[u] /\ signal[u] \in Signals BY MarkEffect DEF TypeInv
  <2>2. ASSUME signal[u].cond # Null
        PROVE  \E i \in Indices(signal[u].cond) : OnQueue(waiters', <<signal[u].cond, i>>, signal[u].queue)
    <3>1. signal[u].cond \in Selectors BY <2>1, <2>2 DEF Signals
    <3>2. PICK i \in Indices(signal[u].cond) : OnQueue(waiters, <<signal[u].cond, i>>, signal[u].queue)
      BY <2>2 DEF SignalInv, StillLinked
    <3>3. <<signal[u].cond, i>> \in Nodes BY <3>1, <3>2, SelectablesType
    <3> QED BY <3>2, <3>3
  <2>3. ASSUME NEW n \in Elems(signal[u].rest) PROVE OnQueue(waiters', n, signal[u].queue)
    <3>1. OnQueue(waiters, n, signal[u].queue) BY DEF SignalInv, StillLinked
    <3>2. signal[u].rest \in Seq(Nodes) BY <2>1 DEF Signals
    <3>3. n \in Nodes BY <3>2, ElementOfSeq DEF Elems
    <3> QED BY <3>1, <3>3
  <2>4. signal[u] = Unlocked \/ signal[u].queue \in Queues BY DEF SignalInv, StillLinked
  <2> QED BY <2>1, <2>2, <2>3, <2>4 DEF StillLinked
<1>2. StillLinked(waiters', signal'[t])
  <2>1. CASE signal'[t] = Unlocked
    <3>1. signal'[t].cond = Null /\ signal'[t].rest = <<>> BY <2>1 DEF Unlocked
    <3>2. Elems(<<>>) = {} BY DEF Elems
    <3> QED BY <2>1, <3>1, <3>2 DEF StillLinked
  <2>2. CASE signal'[t] # Unlocked
    <3>1. /\ signal'[t].queue = q /\ targets # <<>> /\ signal'[t].rest = Tail(targets)
          /\ signal'[t].cond \in {Null, Head(targets)[1]}
      BY <2>2, MarkEffect
    <3>2. /\ Len(targets) \in Nat /\ Len(targets) # 0
          /\ Head(targets) = targets[1] /\ Tail(targets) \in Seq(Nodes) /\ Len(Tail(targets)) = Len(targets) - 1
          /\ \A i \in 1 .. Len(Tail(targets)) : Tail(targets)[i] = targets[i + 1]
          /\ Head(targets) \in Nodes
      BY <3>1, HeadTailProperties, LenProperties, EmptySeq
    <3>3. Head(targets) \in Elems(targets) BY <3>2 DEF Elems
    <3>4. ASSUME NEW n \in Elems(Tail(targets)) PROVE n \in Elems(targets)
      <4>1. PICK i \in 1 .. Len(targets) - 1 : n = targets[i + 1] BY <3>2 DEF Elems
      <4>2. i + 1 \in 1 .. Len(targets) BY <3>2
      <4> QED BY <4>1, <4>2 DEF Elems
    <3>5. Head(targets)[2] \in Indices(Head(targets)[1]) /\ Head(targets) = <<Head(targets)[1], Head(targets)[2]>>
      BY <3>2, NodeType
    <3>6. OnQueue(waiters', <<Head(targets)[1], Head(targets)[2]>>, q) BY <3>3, <3>5
    <3> QED BY <3>1, <3>4, <3>5, <3>6 DEF StillLinked
  <2> QED BY <2>1, <2>2
<1>3. ASSUME NEW u \in Threads
      PROVE  StillLinked(waiters', signal'[u])
  BY <1>1, <1>2
<1> QED BY <1>3 DEF SignalInv

\* A notification keeps every flag backed by what ends the wait.
LEMMA MarkWakes ==
  ASSUME TypeInv, WakeInv, NEW t \in Threads, NEW q \in Queues, NEW targets \in Seq(Nodes),
         NEW written \in SUBSET Nodes, Mark(t, q, targets, written),
         asleep' \subseteq asleep, signal[t].cond \notin asleep', epoll' = epoll,
         \A s \in Selectors : pc'[s] \in {"scan", "wait"} =>
           /\ pc[s] \in {"scan", "wait"}
           /\ \A n \in efd : n[1] = s => n \in written
  PROVE  WakeInv'
<1>1. SUFFICES ASSUME NEW s \in Selectors, ready'[s]
               PROVE  /\ s \notin epoll /\ s \in asleep' => \E u \in Threads : signal'[u].cond = s
                      /\ s \in epoll /\ pc'[s] \in {"scan", "wait"} => \E n \in efd' : n[1] = s
  BY DEF WakeInv
<1>2. CASE ~ready[s] BY <1>1, <1>2, MarkEffect
<1>3. CASE ready[s]
  <2>1. ASSUME s \notin epoll, s \in asleep' PROVE \E u \in Threads : signal'[u].cond = s
    <3>1. PICK u \in Threads : signal[u].cond = s BY <1>3, <2>1 DEF WakeInv
    <3>2. u # t BY <2>1, <3>1
    <3>3. signal'[u] = signal[u] BY <3>2, MarkEffect
    <3> QED BY <3>1, <3>3
  <2>2. ASSUME s \in epoll, pc'[s] \in {"scan", "wait"} PROVE \E n \in efd' : n[1] = s
    <3>1. PICK n \in efd : n[1] = s BY <1>3, <2>2 DEF WakeInv
    <3>2. n \in efd' BY <2>2, <3>1, MarkEffect
    <3> QED BY <3>1, <3>2
  <2> QED BY <2>1, <2>2
<1> QED BY <1>2, <1>3

\* A single notification is a Mark of nodes of its list, at least one if there is
\* any, and leaves the rotor in the list.
LEMMA NotifyOneMarks ==
  ASSUME TypeInv, ListInv, NEW t \in Threads, NEW l \in Lists, NotifyOne(t, l)
  PROVE  /\ l[1] \in Queues
         /\ \E targets \in Seq(Nodes) :
              /\ Mark(t, l[1], targets, efd)
              /\ Elems(targets) \subseteq Elems(waiters[l])
              /\ waiters[l] # <<>> => targets # <<>> /\ Head(targets) \in Elems(waiters[l])
         /\ rotor' \in [Lists -> Nodes \cup {Null}]
         /\ \A k \in Lists : rotor'[k] # Null => rotor'[k] \in Elems(waiters[k])
<1> DEFINE to == Target(waiters[l], rotor[l])
<1>1. l[1] \in Queues BY DEF Lists
<1>2. /\ waiters \in [Lists -> Seq(Nodes)] /\ rotor \in [Lists -> Nodes \cup {Null}]
      /\ waiters[l] \in Seq(Nodes)
      /\ \A k \in Lists : rotor[k] # Null => rotor[k] \in Elems(waiters[k])
  BY DEF TypeInv, ListInv
<1>3. /\ Mark(t, l[1], to, efd)
      /\ rotor' = [rotor EXCEPT ![l] = Rotated(waiters[l], rotor[l], to)]
  BY DEF NotifyOne
<1>4. /\ to \in Seq(Nodes) /\ Elems(to) \subseteq Elems(waiters[l])
      /\ waiters[l] # <<>> => to # <<>> /\ Head(to) \in Elems(waiters[l])
  BY <1>2, TargetProperties
<1> HIDE DEF to
<1>5. Rotated(waiters[l], rotor[l], to) # Null => Rotated(waiters[l], rotor[l], to) \in Elems(waiters[l])
  BY <1>2, RotatedIn
<1>6. Elems(waiters[l]) \subseteq Nodes BY <1>2, ElementOfSeq DEF Elems
<1> QED BY <1>1, <1>2, <1>3, <1>4, <1>5, <1>6

-----------------------------------------------------------------------------
(* Nodes and where the scan is.                                            *)

LEMMA LinkedDef ==
  ASSUME TypeInv, NEW s \in Selectors
  PROVE  \A i : i \in Linked(s) <=> /\ i \in Indices(s) /\ ListOf(s, i) \in Lists
                                    /\ <<s, i>> \in Elems(waiters[ListOf(s, i)])
<1>1. ASSUME NEW l \in Lists PROVE DOMAIN waiters[l] = 1 .. Len(waiters[l])
  <2>1. waiters[l] \in Seq(Nodes) BY DEF TypeInv
  <2> QED BY <2>1, LenProperties
<1> QED BY <1>1 DEF Linked, Listed, Elems

LEMMA ListedNode ==
  ASSUME TypeInv, ListInv, NEW l \in Lists, NEW n \in Elems(waiters[l])
  PROVE  /\ n \in Nodes /\ n[1] \in Selectors /\ n[2] \in Indices(n[1]) /\ n = <<n[1], n[2]>>
         /\ n[2] \in Linked(n[1]) /\ ListOf(n[1], n[2]) = l /\ InCall(n[1])
<1>1. waiters[l] \in Seq(Nodes) BY DEF TypeInv
<1>2. n \in Nodes BY <1>1, ElementOfSeq DEF Elems
<1>3. n[1] \in Selectors /\ n[2] \in Indices(n[1]) /\ n = <<n[1], n[2]>> BY <1>2, NodeType
<1>4. ListOf(n[1], n[2]) = l /\ InCall(n[1]) BY DEF ListInv
<1> QED BY <1>2, <1>3, <1>4, LinkedDef

\* A thread outside a call has no node anywhere.
LEMMA OutsideUnlinked ==
  ASSUME TypeInv, ListInv, NEW s \in Selectors, ~InCall(s)
  PROVE  Linked(s) = {}
<1> SUFFICES ASSUME NEW i \in Linked(s) PROVE FALSE OBVIOUS
<1>1. ListOf(s, i) \in Lists /\ <<s, i>> \in Elems(waiters[ListOf(s, i)]) BY LinkedDef
<1>2. InCall(<<s, i>>[1]) BY <1>1, ListedNode
<1> QED BY <1>2

LEMMA AtProperties ==
  ASSUME TypeInv, NEW s \in Selectors, left[s] > 0
  PROVE  /\ At(s) \in Indices(s) /\ At(s) \in 0 .. Len(Selectables[s]) /\ At(s) # 0 /\ <<s, At(s)>> \in Nodes
         /\ Offset(s, At(s)) = Len(Selectables[s]) - left[s]
         /\ Here(s) \in Lists => Here(s)[1] \in Queues
<1>1. /\ start[s] \in 1 .. Len(Selectables[s]) /\ left[s] \in 0 .. Len(Selectables[s])
      /\ Len(Selectables[s]) \in Nat
  BY SelectablesType DEF TypeInv, Indices
<1>2. At(s) \in Indices(s) BY <1>1 DEF At, Indices
<1>3. Offset(s, At(s)) = Len(Selectables[s]) - left[s] BY <1>1 DEF At, Offset
<1>4. At(s) \in 0 .. Len(Selectables[s]) /\ At(s) # 0 BY <1>1, <1>2 DEF Indices
<1> QED BY <1>2, <1>3, <1>4, SelectablesType DEF Lists

LEMMA DepartingLinked ==
  ASSUME NEW s \in Selectors, Linked(s) # {}
  PROVE  Departing(s) \in Linked(s)
<1>1. Linked(s) \subseteq Nat BY SelectablesType DEF Linked
<1> DEFINE R == {p \in Nat \X Nat : p[1] < p[2]}
<1>2. IsWellFoundedOn(R, Nat)
  BY NatLessThanWellFounded DEF OpToRel
<1> DEFINE T == Linked(s)
<1>3. PICK i \in T : \A j \in T : <<j, i>> \notin R
  <2>1. T \subseteq Nat /\ T # {} BY <1>1
  <2> HIDE DEF R, T
  <2> QED BY <1>2, <2>1, WFMin
<1>4. ASSUME NEW j \in T PROVE i <= j
  <2>1. i \in Nat /\ j \in Nat BY <1>1
  <2>2. j < i => <<j, i>> \in R BY <2>1
  <2> QED BY <1>3, <2>1, <2>2
<1> QED BY <1>4 DEF Departing

-----------------------------------------------------------------------------
(* Types.                                                                  *)

\* The types of what a notification does not touch.
CallType ==
  /\ epoll \subseteq Selectors /\ asleep \subseteq Selectors
  /\ pc \in [Selectors -> {"idle", "scan", "wait", "dereg", "use"}]
  /\ start \in [Selectors -> Nat] /\ left \in [Selectors -> Nat] /\ found \in [Selectors -> Nat]
  /\ \A s \in Selectors : /\ start[s] \in Indices(s)
                          /\ left[s] \in 0 .. Len(Selectables[s])
                          /\ found[s] \in 0 .. Len(Selectables[s])
  /\ after \in [Selectors -> {"none", "rescan", "setup", "return"}]
  /\ fd_seen \in [Selectors -> BOOLEAN]
QueueType ==
  /\ msg_count \in [Queues -> 0 .. Capacity] /\ writing_disabled \in [Queues -> BOOLEAN]
  /\ fd_ready \in BOOLEAN /\ events \in 0 .. MaxEvents
ListType == waiters \in [Lists -> Seq(Nodes)] /\ rotor \in [Lists -> Nodes \cup {Null}]
NotifyType ==
  ready \in [Selectors -> BOOLEAN] /\ efd \in SUBSET Nodes /\ signal \in [Threads -> Signals]

LEMMA TypeParts == TypeInv <=> CallType /\ QueueType /\ ListType /\ NotifyType
BY DEF TypeInv, CallType, QueueType, ListType, NotifyType

LEMMA LeaveTypes ==
  ASSUME TypeInv, NEW s \in Selectors, NEW i \in 0 .. Len(Selectables[s]), Leave(s, i),
         UNCHANGED <<epoll, asleep, start>>
  PROVE  CallType'
<1>1. Len(Selectables[s]) \in Nat BY SelectablesType
<1> QED BY <1>1 DEF TypeInv, CallType, Leave

LEMMA BeginScanTypes ==
  ASSUME TypeInv, NEW s \in Selectors, BeginScan(s), start' \in [Selectors -> Nat],
         \A u \in Selectors : start'[u] \in Indices(u),
         epoll' \subseteq Selectors, UNCHANGED <<asleep, found>>
  PROVE  CallType' /\ ready' \in [Selectors -> BOOLEAN]
<1>1. Len(Selectables[s]) \in Nat BY SelectablesType
<1>2. HasFd(s) \in BOOLEAN BY DEF HasFd
<1>3. fd_seen' \in [Selectors -> BOOLEAN] BY <1>2 DEF TypeInv, BeginScan
<1>4. ready' \in [Selectors -> BOOLEAN] BY DEF TypeInv, BeginScan
<1>5. left' \in [Selectors -> Nat] /\ \A u \in Selectors : left'[u] \in 0 .. Len(Selectables[u])
  BY <1>1 DEF TypeInv, BeginScan
<1>6. pc' \in [Selectors -> {"idle", "scan", "wait", "dereg", "use"}]
  BY DEF TypeInv, BeginScan
<1>7. after' \in [Selectors -> {"none", "rescan", "setup", "return"}]
  BY DEF TypeInv, BeginScan
<1> QED BY <1>3, <1>4, <1>5, <1>6, <1>7 DEF TypeInv, CallType

LEMMA NotifyOneTypes ==
  ASSUME TypeInv, ListInv, NEW t \in Threads, NEW l \in Lists, NotifyOne(t, l), UNCHANGED waiters
  PROVE  ListType' /\ NotifyType'
<1>1. PICK targets \in Seq(Nodes) : Mark(t, l[1], targets, efd) BY NotifyOneMarks
<1>2. l[1] \in Queues /\ rotor' \in [Lists -> Nodes \cup {Null}] BY NotifyOneMarks
<1>3. efd \in SUBSET Nodes /\ waiters \in [Lists -> Seq(Nodes)] BY DEF TypeInv
<1>4. NotifyType' BY <1>1, <1>2, <1>3, MarkEffect DEF NotifyType
<1> QED BY <1>2, <1>3, <1>4 DEF ListType

LEMMA PutTypes ==
  ASSUME TypeInv, ListInv, NEW t \in Threads, NEW q \in Queues, Put(t, q) \/ Get(t, q), UNCHANGED waiters
  PROVE  ListType' /\ NotifyType' /\ msg_count' \in [Queues -> 0 .. Capacity]
<1>1. <<q, "read">> \in Lists /\ <<q, "write">> \in Lists BY DEF Lists, Dirs
<1>2. NotifyOne(t, <<q, "read">>) \/ NotifyOne(t, <<q, "write">>) BY DEF Put, Get
<1>3. ListType' /\ NotifyType' BY <1>1, <1>2, NotifyOneTypes
<1>4. msg_count' \in [Queues -> 0 .. Capacity]
  <2>0. msg_count \in [Queues -> 0 .. Capacity] /\ Capacity \in Nat BY SelectAssumption DEF TypeInv
  <2>1. CASE Put(t, q)
    <3>1. msg_count' = [msg_count EXCEPT ![q] = @ + 1] /\ msg_count[q] < Capacity BY <2>1 DEF Put
    <3> QED BY <2>0, <3>1
  <2>2. CASE Get(t, q)
    <3>1. msg_count' = [msg_count EXCEPT ![q] = @ - 1] /\ msg_count[q] > 0 BY <2>2 DEF Get
    <3> QED BY <2>0, <3>1
  <2> QED BY <2>1, <2>2
<1> QED BY <1>3, <1>4

\* The first half of a call.
LEMMA ScanTypes ==
  ASSUME TypeInv, CallInv, ListInv, NEW s \in Selectors,
         \/ SelectCall(s) \/ PollFails(s) \/ ScanFinds(s) \/ ScanLinks(s)
         \/ ScanFdFinds(s) \/ ScanFdPasses(s) \/ ScanEnds(s)
  PROVE  TypeInv'
<1>0. s \in Threads /\ CallType /\ QueueType /\ ListType /\ NotifyType BY TypeParts DEF Threads
<1>1. CASE SelectCall(s)
  <2>1. start' \in [Selectors -> Nat] /\ \A u \in Selectors : start'[u] \in Indices(u)
    BY <1>0, <1>1, SelectablesType DEF SelectCall, CallType
  <2>2. BeginScan(s) /\ UNCHANGED <<queueVars, fd_ready, listVars, efd, signal, epoll, asleep, found, events>>
    BY <1>1 DEF SelectCall
  <2>3. epoll' \subseteq Selectors /\ UNCHANGED <<asleep, found>> BY <1>0, <2>2 DEF CallType
  <2>4. CallType' /\ ready' \in [Selectors -> BOOLEAN] BY <2>1, <2>2, <2>3, BeginScanTypes
  <2>5. QueueType' /\ ListType' /\ NotifyType'
    BY <1>0, <2>2, <2>4 DEF QueueType, ListType, NotifyType, queueVars, listVars
  <2> QED BY <2>4, <2>5, TypeParts DEF TypeInv, CallType, QueueType, ListType, NotifyType
<1>2. CASE PollFails(s)
  <2>1. 0 \in 0 .. Len(Selectables[s]) BY SelectablesType
  <2>2. CallType' BY <1>2, <2>1, LeaveTypes DEF PollFails
  <2>3. QueueType' /\ ListType' /\ NotifyType'
    BY <1>0, <1>2 DEF PollFails, QueueType, ListType, NotifyType, queueVars, listVars, wakeVars
  <2> QED BY <2>2, <2>3 DEF TypeInv, CallType, QueueType, ListType, NotifyType
<1>3. CASE ScanFinds(s)
  <2>1. left[s] > 0 /\ Here(s) \in Lists /\ NotifyOne(s, Here(s)) BY <1>3 DEF ScanFinds, Scanning
  <2>2. At(s) \in 0 .. Len(Selectables[s]) BY <2>1, AtProperties
  <2>3. CallType' BY <1>3, <2>2, LeaveTypes DEF ScanFinds
  <2>4. ListType' /\ NotifyType' BY <1>0, <1>3, <2>1, NotifyOneTypes DEF ScanFinds
  <2>5. QueueType' BY <1>0, <1>3 DEF ScanFinds, QueueType, queueVars
  <2> QED BY <2>3, <2>4, <2>5 DEF TypeInv, CallType, QueueType, ListType, NotifyType
<1>4. CASE ScanLinks(s)
  <2>1. left[s] > 0 /\ Here(s) \in Lists BY <1>4 DEF ScanLinks, Scanning
  <2>2. <<s, At(s)>> \in Nodes BY <2>1, AtProperties
  <2>3. <<<<s, At(s)>>>> \o waiters[Here(s)] \in Seq(Nodes) BY <1>0, <2>1, <2>2, ConsProperties DEF ListType
  <2>4. ListType' BY <1>0, <1>4, <2>1, <2>3 DEF ScanLinks, ListType
  <2>5. CallType' BY <1>0, <1>4, <2>1 DEF ScanLinks, CallType
  <2>6. QueueType' /\ NotifyType' BY <1>0, <1>4 DEF ScanLinks, QueueType, NotifyType, queueVars, wakeVars
  <2> QED BY <2>4, <2>5, <2>6 DEF TypeInv, CallType, QueueType, ListType, NotifyType
<1>5. CASE ScanFdFinds(s)
  <2>1. left[s] > 0 BY <1>5 DEF ScanFdFinds, Scanning
  <2>2. At(s) \in 0 .. Len(Selectables[s]) BY <2>1, AtProperties
  <2>3. CallType' BY <1>5, <2>2, LeaveTypes DEF ScanFdFinds
  <2>4. QueueType' /\ ListType' /\ NotifyType'
    BY <1>0, <1>5 DEF ScanFdFinds, QueueType, ListType, NotifyType, queueVars, listVars, wakeVars
  <2> QED BY <2>3, <2>4 DEF TypeInv, CallType, QueueType, ListType, NotifyType
<1>6. CASE ScanFdPasses(s)
  <2>1. CallType' BY <1>0, <1>6 DEF ScanFdPasses, Scanning, CallType
  <2>2. QueueType' /\ ListType' /\ NotifyType'
    BY <1>0, <1>6 DEF ScanFdPasses, QueueType, ListType, NotifyType, queueVars, listVars, wakeVars
  <2> QED BY <2>1, <2>2 DEF TypeInv, CallType, QueueType, ListType, NotifyType
<1>7. CASE ScanEnds(s)
  <2>1. CallType' BY <1>0, <1>7 DEF ScanEnds, CallType
  <2>2. QueueType' /\ ListType' /\ NotifyType'
    BY <1>0, <1>7 DEF ScanEnds, QueueType, ListType, NotifyType, queueVars, listVars, wakeVars
  <2> QED BY <2>1, <2>2 DEF TypeInv, CallType, QueueType, ListType, NotifyType
<1> QED BY <1>1, <1>2, <1>3, <1>4, <1>5, <1>6, <1>7

\* The second half of a call.
LEMMA WaitTypes ==
  ASSUME TypeInv, CallInv, ListInv, NEW s \in Selectors,
         \/ WaitSleeps(s) \/ WaitReturns(s) \/ WaitTimesOut(s) \/ SpuriousWakeup(s)
         \/ EpollReturns(s) \/ EpollTimesOut(s) \/ EpollSetupFails(s)
         \/ LooksAgain(s) \/ BuildsEpoll(s) \/ Returns(s)
  PROVE  TypeInv'
<1>0. s \in Threads /\ CallType /\ QueueType /\ ListType /\ NotifyType BY TypeParts DEF Threads
<1>1. CASE WaitSleeps(s)
  BY <1>0, <1>1 DEF WaitSleeps, TypeInv, CallType, QueueType, ListType, NotifyType, queueVars, listVars, wakeVars, callVars
<1>2. CASE WaitReturns(s)
  <2>1. CallType' BY <1>0, <1>2 DEF WaitReturns, CallType
  <2>2. QueueType' /\ ListType' /\ NotifyType'
    BY <1>0, <1>2 DEF WaitReturns, QueueType, ListType, NotifyType, queueVars, listVars
  <2> QED BY <2>1, <2>2 DEF TypeInv, CallType, QueueType, ListType, NotifyType
<1>3. CASE WaitTimesOut(s)
  <2>1. CallType' BY <1>0, <1>3 DEF WaitTimesOut, CallType
  <2>2. QueueType' /\ ListType' /\ NotifyType'
    BY <1>0, <1>3 DEF WaitTimesOut, QueueType, ListType, NotifyType, queueVars, listVars
  <2> QED BY <2>1, <2>2 DEF TypeInv, CallType, QueueType, ListType, NotifyType
<1>4. CASE SpuriousWakeup(s)
  BY <1>0, <1>4 DEF SpuriousWakeup, TypeInv, CallType, QueueType, ListType, NotifyType, queueVars, listVars, wakeVars, callVars
<1>5. CASE EpollReturns(s)
  <2>1. QueueType' /\ ListType' /\ NotifyType'
    BY <1>0, <1>5 DEF EpollReturns, QueueType, ListType, NotifyType, queueVars, listVars, wakeVars
  <2>2. CASE fd_ready
    <3> DEFINE i == CHOOSE k \in Indices(s) : ListOf(s, k)[1] = Fd
    <3>1. \E k \in Indices(s) : ListOf(s, k)[1] = Fd BY <1>5 DEF EpollReturns, CallInv, HasFd, ListOf
    <3>2. i \in Indices(s) BY <3>1
    <3>3. i \in 0 .. Len(Selectables[s]) BY <3>2, SelectablesType DEF Indices
    <3>4. Leave(s, i) /\ UNCHANGED <<epoll, asleep, start>> BY <1>5, <2>2 DEF EpollReturns
    <3> HIDE DEF i
    <3>5. CallType' BY <3>3, <3>4, LeaveTypes
    <3> QED BY <2>1, <3>5 DEF TypeInv, CallType, QueueType, ListType, NotifyType
  <2>3. CASE ~fd_ready
    <3>1. CallType' BY <1>0, <1>5, <2>3 DEF EpollReturns, CallType
    <3> QED BY <2>1, <3>1 DEF TypeInv, CallType, QueueType, ListType, NotifyType
  <2> QED BY <2>2, <2>3
<1>6. CASE EpollTimesOut(s)
  <2>1. 0 \in 0 .. Len(Selectables[s]) BY SelectablesType
  <2>2. CallType' BY <1>6, <2>1, LeaveTypes DEF EpollTimesOut
  <2>3. QueueType' /\ ListType' /\ NotifyType'
    BY <1>0, <1>6 DEF EpollTimesOut, QueueType, ListType, NotifyType, queueVars, listVars, wakeVars
  <2> QED BY <2>2, <2>3 DEF TypeInv, CallType, QueueType, ListType, NotifyType
<1>7. CASE EpollSetupFails(s)
  <2>1. CallType' BY <1>0, <1>7 DEF EpollSetupFails, CallType
  <2>2. QueueType' /\ ListType' /\ NotifyType'
    BY <1>0, <1>7 DEF EpollSetupFails, QueueType, ListType, NotifyType, queueVars, listVars, wakeVars
  <2> QED BY <2>1, <2>2 DEF TypeInv, CallType, QueueType, ListType, NotifyType
<1>8. CASE LooksAgain(s) \/ BuildsEpoll(s)
  <2>1. /\ BeginScan(s) /\ epoll' \subseteq Selectors
        /\ UNCHANGED <<queueVars, fd_ready, listVars, efd, signal, asleep, start, found, events>>
    BY <1>0, <1>8 DEF LooksAgain, BuildsEpoll, CallType
  <2>2. start' \in [Selectors -> Nat] /\ \A u \in Selectors : start'[u] \in Indices(u) BY <1>0, <2>1 DEF CallType
  <2>3. CallType' /\ ready' \in [Selectors -> BOOLEAN] BY <2>1, <2>2, BeginScanTypes
  <2>4. QueueType' /\ ListType' /\ NotifyType'
    BY <1>0, <2>1, <2>3 DEF QueueType, ListType, NotifyType, queueVars, listVars
  <2> QED BY <2>3, <2>4 DEF TypeInv, CallType, QueueType, ListType, NotifyType
<1>9. CASE Returns(s)
  <2>1. 1 \in Indices(s) BY SelectablesType DEF Indices
  <2>2. CallType' BY <1>0, <1>9, <2>1 DEF Returns, CallType
  <2>3. QueueType' /\ ListType' /\ NotifyType'
    BY <1>0, <1>9 DEF Returns, QueueType, ListType, NotifyType, queueVars, listVars
  <2> QED BY <2>2, <2>3 DEF TypeInv, CallType, QueueType, ListType, NotifyType
<1> QED BY <1>1, <1>2, <1>3, <1>4, <1>5, <1>6, <1>7, <1>8, <1>9

\* What a step of Deregister does: the node leaves its list, and a ready queue's next
\* waiter is marked.
LEMMA DeregisterMarks ==
  ASSUME TypeInv, ListInv, NEW s \in Selectors, Deregister(s)
  PROVE  \E n \in Nodes, l \in Lists, targets \in Seq(Nodes) :
           /\ n[1] = s /\ n \in Elems(waiters[l]) /\ l[1] \in Queues /\ Free(l[1])
           /\ waiters' = [waiters EXCEPT ![l] = Without(waiters[l], n)]
           /\ waiters'[l] \in Seq(Nodes) /\ Distinct(waiters'[l])
           /\ Elems(waiters'[l]) = Elems(waiters[l]) \ {n}
           /\ rotor' \in [Lists -> Nodes \cup {Null}]
           /\ \A k \in Lists : rotor'[k] # Null => rotor'[k] \in Elems(waiters'[k])
           /\ Mark(s, l[1], targets, efd \ {n})
           /\ Elems(targets) \subseteq Elems(waiters'[l])
           /\ Ready(l) /\ waiters'[l] # <<>> => targets # <<>> /\ Head(targets) \in Elems(waiters'[l])
<1> DEFINE n == <<s, Departing(s)>>
           l == ListOf(s, n[2])
           list == Without(waiters[l], n)
           rot == Unrotored(waiters[l], rotor[l], n)
           to == Forwarded(l, list, rot)
<1>1. /\ Linked(s) # {} /\ Free(l[1])
      /\ waiters' = [waiters EXCEPT ![l] = list]
      /\ rotor' = [rotor EXCEPT ![l] = Rotated(list, rot, to)]
      /\ Mark(s, l[1], to, efd \ {n})
  BY DEF Deregister
<1>2. Departing(s) \in Linked(s) BY <1>1, DepartingLinked
<1>3. l \in Lists /\ n \in Elems(waiters[l]) /\ n[1] = s BY <1>2, LinkedDef
<1> HIDE DEF l, n
<1>4. l[1] \in Queues /\ n \in Nodes BY <1>3, ListedNode DEF Lists
<1>5. /\ waiters \in [Lists -> Seq(Nodes)] /\ rotor \in [Lists -> Nodes \cup {Null}] /\ waiters[l] \in Seq(Nodes)
      /\ Distinct(waiters[l]) /\ \A k \in Lists : rotor[k] # Null => rotor[k] \in Elems(waiters[k])
  BY <1>3 DEF TypeInv, ListInv
<1>6. list \in Seq(Nodes) /\ Distinct(list) /\ Elems(list) = Elems(waiters[l]) \ {n}
  BY <1>3, <1>5, WithoutProperties
<1>7. rot # Null => rot \in Elems(list) BY <1>3, <1>5, UnrotoredIn
<1> HIDE DEF list, rot
<1>8. /\ to \in Seq(Nodes) /\ Elems(to) \subseteq Elems(list)
      /\ Ready(l) /\ list # <<>> => to # <<>> /\ Head(to) \in Elems(list)
  <2>1. CASE Ready(l)
    <3>1. to = Target(list, rot) BY <2>1 DEF Forwarded
    <3> QED BY <1>6, <1>7, <2>1, <3>1, TargetProperties
  <2>2. CASE ~Ready(l)
    <3>1. to = <<>> BY <2>2 DEF Forwarded
    <3>2. <<>> \in Seq(Nodes) /\ Elems(<<>>) = {} BY DEF Elems
    <3> QED BY <2>2, <3>1, <3>2
  <2> QED BY <2>1, <2>2
<1> HIDE DEF to
<1>9. Rotated(list, rot, to) # Null => Rotated(list, rot, to) \in Elems(list) BY <1>6, <1>7, RotatedIn
<1>10. Elems(list) \subseteq Nodes BY <1>6, ElementOfSeq DEF Elems
<1>11. waiters'[l] = list /\ \A k \in Lists \ {l} : waiters'[k] = waiters[k] BY <1>1, <1>3, <1>5
<1>12. rotor' \in [Lists -> Nodes \cup {Null}] BY <1>1, <1>3, <1>5, <1>9, <1>10
<1>13. ASSUME NEW k \in Lists, rotor'[k] # Null PROVE rotor'[k] \in Elems(waiters'[k])
  <2>1. CASE k = l BY <1>1, <1>5, <1>9, <1>11, <1>13, <2>1
  <2>2. CASE k # l BY <1>1, <1>5, <1>11, <1>13, <2>2
  <2> QED BY <2>1, <2>2
<1>14. waiters' = [waiters EXCEPT ![l] = Without(waiters[l], n)] BY <1>1 DEF list
<1> QED BY <1>1, <1>3, <1>4, <1>6, <1>8, <1>11, <1>12, <1>13, <1>14

LEMMA DeregisterTypes ==
  ASSUME TypeInv, ListInv, NEW s \in Selectors, Deregister(s)
  PROVE  TypeInv'
<1>0. s \in Threads /\ CallType /\ QueueType /\ ListType /\ NotifyType BY TypeParts DEF Threads
<1>1. PICK n \in Nodes, l \in Lists, targets \in Seq(Nodes) :
         /\ l[1] \in Queues /\ waiters' = [waiters EXCEPT ![l] = Without(waiters[l], n)]
         /\ waiters'[l] \in Seq(Nodes) /\ rotor' \in [Lists -> Nodes \cup {Null}]
         /\ Mark(s, l[1], targets, efd \ {n})
  BY DeregisterMarks
<1>2. ListType' BY <1>0, <1>1 DEF ListType
<1>3. efd \ {n} \in SUBSET Nodes BY <1>0 DEF NotifyType
<1>4. NotifyType' BY <1>0, <1>1, <1>3, MarkEffect DEF NotifyType
<1>5. CallType' /\ QueueType' BY <1>0 DEF Deregister, CallType, QueueType, callVars, queueVars
<1> QED BY <1>2, <1>4, <1>5 DEF TypeInv, CallType, QueueType, ListType, NotifyType

LEMMA UseTypes ==
  ASSUME TypeInv, CallInv, ListInv, NEW s \in Selectors, Use(s)
  PROVE  /\ TypeInv' /\ UNCHANGED waiters
         /\ \/ UNCHANGED <<msg_count, wakeVars, rotor>>
            \/ \E q \in Queues : Get(s, q) \/ Put(s, q)
<1>0. s \in Threads /\ CallType /\ QueueType /\ ListType /\ NotifyType BY TypeParts DEF Threads
<1> DEFINE q == ListOf(s, found[s])[1]
<1>1. found[s] # 0 BY DEF Use, CallInv
<1>2. found[s] \in Indices(s) BY <1>0, <1>1, SelectablesType DEF CallType, Indices
<1>3. q # Fd => q \in Queues BY <1>2, SelectablesType DEF Lists
<1>4. /\ found' = [found EXCEPT ![s] = 0] /\ pc' = [pc EXCEPT ![s] = "idle"]
      /\ UNCHANGED <<writing_disabled, waiters, epoll, asleep, start, left, after, fd_seen, events>>
  BY DEF Use
<1>5. CallType'
  <2>1. 0 \in 0 .. Len(Selectables[s]) BY SelectablesType
  <2> QED BY <1>0, <1>4, <2>1 DEF CallType
<1>6. \/ fd_ready' = FALSE /\ UNCHANGED <<msg_count, wakeVars, rotor>>
      \/ q \in Queues /\ (Get(s, q) \/ Put(s, q)) /\ UNCHANGED fd_ready
      \/ UNCHANGED <<msg_count, wakeVars, rotor, fd_ready>>
  BY <1>3 DEF Use
<1> HIDE DEF q
<1>7. CASE q \in Queues /\ (Get(s, q) \/ Put(s, q)) /\ UNCHANGED fd_ready
  <2>1. ListType' /\ NotifyType' /\ msg_count' \in [Queues -> 0 .. Capacity] BY <1>0, <1>4, <1>7, PutTypes
  <2>2. QueueType' BY <1>0, <1>4, <1>7, <2>1 DEF QueueType
  <2>3. TypeInv' BY <1>5, <2>1, <2>2 DEF TypeInv, CallType, QueueType, ListType, NotifyType
  <2> QED BY <1>4, <1>7, <2>3
<1>8. CASE UNCHANGED <<msg_count, wakeVars, rotor>> /\ fd_ready' \in BOOLEAN
  <2>1. QueueType' BY <1>0, <1>4, <1>8 DEF QueueType
  <2>2. ListType' /\ NotifyType' BY <1>0, <1>4, <1>8 DEF ListType, NotifyType, wakeVars
  <2>3. TypeInv' BY <1>5, <2>1, <2>2 DEF TypeInv, CallType, QueueType, ListType, NotifyType
  <2> QED BY <1>4, <1>8, <2>3
<1>9. fd_ready \in BOOLEAN BY <1>0 DEF QueueType
<1> QED BY <1>6, <1>7, <1>8, <1>9

\* Steps of other threads.
LEMMA OtherTypes ==
  ASSUME TypeInv, ListInv, SignalInv,
         \/ \E t \in Others, q \in Queues : \/ Send(t, q) \/ Recv(t, q)
                                            \/ \E b \in BOOLEAN : SetDisabled(t, q, b)
         \/ \E t \in Threads : NotifySignal(t)
         \/ FdEvent
  PROVE  TypeInv'
<1>0. CallType /\ QueueType /\ ListType /\ NotifyType BY TypeParts
<1>1. ASSUME NEW t \in Others, NEW q \in Queues, Send(t, q) \/ Recv(t, q) PROVE TypeInv'
  <2>1. t \in Threads /\ (Put(t, q) \/ Get(t, q)) /\ UNCHANGED <<writing_disabled, fd_ready, waiters, epoll, pc, asleep, callVars>>
    BY <1>1 DEF Send, Recv, Threads
  <2>2. ListType' /\ NotifyType' /\ msg_count' \in [Queues -> 0 .. Capacity] BY <2>1, PutTypes
  <2>3. events' \in 0 .. MaxEvents BY <1>0, <1>1, SelectAssumption DEF Send, Recv, QueueType
  <2>4. QueueType' /\ CallType' BY <1>0, <2>1, <2>2, <2>3 DEF QueueType, CallType, callVars
  <2> QED BY <2>2, <2>4 DEF TypeInv, CallType, QueueType, ListType, NotifyType
<1>2. ASSUME NEW t \in Others, NEW q \in Queues, NEW b \in BOOLEAN, SetDisabled(t, q, b) PROVE TypeInv'
  <2>1. t \in Threads /\ <<q, "write">> \in Lists BY DEF Threads, Lists, Dirs
  <2>2. waiters[<<q, "write">>] \in Seq(Nodes) /\ efd \in SUBSET Nodes BY <1>0, <2>1 DEF ListType, NotifyType
  <2>3. Mark(t, q, waiters[<<q, "write">>], efd) BY <1>2 DEF SetDisabled
  <2>4. NotifyType' BY <2>1, <2>2, <2>3, MarkEffect DEF NotifyType
  <2>5. QueueType' /\ CallType' /\ ListType'
    BY <1>0, <1>2, SelectAssumption DEF SetDisabled, QueueType, CallType, ListType, callVars, listVars
  <2> QED BY <2>4, <2>5 DEF TypeInv, CallType, QueueType, ListType, NotifyType
<1>3. ASSUME NEW t \in Threads, NotifySignal(t) PROVE TypeInv'
  <2>1. /\ Mark(t, signal[t].queue, signal[t].rest, efd) /\ asleep' \subseteq asleep
        /\ UNCHANGED <<queueVars, fd_ready, listVars, epoll, pc, callVars, events>>
    BY <1>3 DEF NotifySignal
  <2>2. signal[t] \in Signals /\ efd \in SUBSET Nodes BY <1>0 DEF NotifyType
  <2>3. signal[t].rest \in Seq(Nodes) BY <2>2 DEF Signals
  <2>4. NotifyType'
    <3>1. signal[t].queue \in Queues BY <1>3 DEF NotifySignal, SignalInv, StillLinked
    <3> QED BY <2>1, <2>2, <2>3, <3>1, MarkEffect DEF NotifyType
  <2>5. QueueType' /\ CallType' /\ ListType'
    BY <1>0, <2>1 DEF QueueType, CallType, ListType, callVars, listVars, queueVars
  <2> QED BY <2>4, <2>5 DEF TypeInv, CallType, QueueType, ListType, NotifyType
<1>4. CASE FdEvent
  <2>1. QueueType' BY <1>0, <1>4, SelectAssumption DEF FdEvent, QueueType, queueVars
  <2>2. CallType' /\ ListType' /\ NotifyType'
    BY <1>0, <1>4 DEF FdEvent, CallType, ListType, NotifyType, callVars, listVars, wakeVars
  <2> QED BY <2>1, <2>2 DEF TypeInv, CallType, QueueType, ListType, NotifyType
<1> QED BY <1>1, <1>2, <1>3, <1>4

LEMMA TypeStep == ASSUME IInv, Next PROVE TypeInv'
<1>1. ASSUME NEW s \in Selectors, Selector(s) \/ SpuriousWakeup(s) \/ PollFails(s) \/ EpollSetupFails(s)
                                  \/ WaitTimesOut(s) \/ EpollTimesOut(s)
      PROVE  TypeInv'
  <2>1. CASE \/ SelectCall(s) \/ PollFails(s) \/ ScanFinds(s) \/ ScanLinks(s)
             \/ ScanFdFinds(s) \/ ScanFdPasses(s) \/ ScanEnds(s)
    BY <2>1, ScanTypes DEF IInv
  <2>2. CASE \/ WaitSleeps(s) \/ WaitReturns(s) \/ WaitTimesOut(s) \/ SpuriousWakeup(s)
             \/ EpollReturns(s) \/ EpollTimesOut(s) \/ EpollSetupFails(s)
             \/ LooksAgain(s) \/ BuildsEpoll(s) \/ Returns(s)
    BY <2>2, WaitTypes DEF IInv
  <2>3. CASE Deregister(s) BY <2>3, DeregisterTypes DEF IInv
  <2>4. CASE Use(s) BY <2>4, UseTypes DEF IInv
  <2> QED BY <1>1, <2>1, <2>2, <2>3, <2>4 DEF Selector
<1>2. CASE \/ \E t \in Others, q \in Queues : \/ Send(t, q) \/ Recv(t, q)
                                              \/ \E b \in BOOLEAN : SetDisabled(t, q, b)
           \/ \E t \in Threads : NotifySignal(t)
           \/ FdEvent
  BY <1>2, OtherTypes DEF IInv
<1> QED BY <1>1, <1>2 DEF Next

-----------------------------------------------------------------------------
(* The call.                                                               *)

LEMMA CallStep == ASSUME IInv, Next PROVE CallInv'
<1>0. TypeInv /\ CallInv BY DEF IInv
<1>1. ASSUME NEW u \in Selectors
      PROVE  /\ u \in epoll' \/ after'[u] = "setup" => HasFd(u)
             /\ pc'[u] = "use" => found'[u] # 0
  <2>0. /\ u \in epoll \/ after[u] = "setup" => HasFd(u)
        /\ pc[u] = "use" => found[u] # 0
    BY <1>0 DEF CallInv
  <2>a. /\ after \in [Selectors -> {"none", "rescan", "setup", "return"}] /\ found \in [Selectors -> Nat]
        /\ pc \in [Selectors -> {"idle", "scan", "wait", "dereg", "use"}]
    BY <1>0 DEF TypeInv
  <2>1. ASSUME NEW s \in Selectors, UNCHANGED epoll, BeginScan(s), UNCHANGED found
        PROVE  /\ u \in epoll' \/ after'[u] = "setup" => HasFd(u)
               /\ pc'[u] = "use" => found'[u] # 0
    BY <2>0, <2>a, <2>1 DEF BeginScan
  <2>2. ASSUME NEW s \in Selectors, UNCHANGED epoll, \E i : Leave(s, i)
        PROVE  /\ u \in epoll' \/ after'[u] = "setup" => HasFd(u)
               /\ pc'[u] = "use" => found'[u] # 0
    BY <2>0, <2>a, <2>2 DEF Leave
  <2>3. ASSUME NEW s \in Selectors, Selector(s) \/ SpuriousWakeup(s) \/ PollFails(s) \/ EpollSetupFails(s)
                                    \/ WaitTimesOut(s) \/ EpollTimesOut(s)
        PROVE  /\ u \in epoll' \/ after'[u] = "setup" => HasFd(u)
               /\ pc'[u] = "use" => found'[u] # 0
    <3>1. CASE SelectCall(s) \/ LooksAgain(s) BY <2>1, <3>1 DEF SelectCall, LooksAgain
    <3>2. CASE PollFails(s) \/ ScanFinds(s) \/ ScanFdFinds(s) \/ EpollTimesOut(s)
      BY <2>2, <3>2 DEF PollFails, ScanFinds, ScanFdFinds, EpollTimesOut
    <3>3. CASE ScanLinks(s) \/ ScanFdPasses(s) BY <2>0, <3>3 DEF ScanLinks, ScanFdPasses
    <3>4. CASE ScanEnds(s)
      <4>1. CASE HasFd(s) /\ s \notin epoll
        <5>1. /\ pc' = [pc EXCEPT ![s] = "dereg"] /\ after' = [after EXCEPT ![s] = "setup"]
              /\ epoll' = epoll /\ found' = found
          BY <3>4, <4>1 DEF ScanEnds
        <5> QED BY <2>0, <2>a, <4>1, <5>1
      <4>2. CASE ~(HasFd(s) /\ s \notin epoll)
        <5>1. pc' = [pc EXCEPT ![s] = "wait"] /\ after' = after /\ epoll' = epoll /\ found' = found
          BY <3>4, <4>2 DEF ScanEnds
        <5> QED BY <2>0, <2>a, <5>1
      <4> QED BY <4>1, <4>2
    <3>5. CASE WaitSleeps(s) \/ SpuriousWakeup(s) BY <2>0, <3>5 DEF WaitSleeps, SpuriousWakeup, callVars
    <3>6. CASE WaitReturns(s) \/ WaitTimesOut(s) BY <2>0, <2>a, <3>6 DEF WaitReturns, WaitTimesOut
    <3>7. CASE EpollReturns(s)
      <4>1. CASE fd_ready BY <2>2, <3>7, <4>1 DEF EpollReturns
      <4>2. CASE ~fd_ready BY <2>0, <2>a, <3>7, <4>2 DEF EpollReturns
      <4> QED BY <4>1, <4>2
    <3>8. CASE Deregister(s) BY <2>0, <3>8 DEF Deregister, callVars
    <3>9. CASE BuildsEpoll(s)
      <4>1. after[s] = "setup" /\ epoll' = epoll \cup {s} BY <3>9 DEF BuildsEpoll, Deregistered
      <4>2. HasFd(s) BY <1>0, <4>1 DEF CallInv
      <4>3. found' = found /\ BeginScan(s) BY <3>9 DEF BuildsEpoll
      <4> QED BY <2>0, <2>a, <4>1, <4>2, <4>3 DEF BeginScan
    <3>10. CASE EpollSetupFails(s) BY <2>0, <2>a, <3>10 DEF EpollSetupFails
    <3>11. CASE Returns(s) BY <2>0, <2>a, <3>11 DEF Returns
    <3>12. CASE Use(s)
      <4>1. /\ found' = [found EXCEPT ![s] = 0] /\ pc' = [pc EXCEPT ![s] = "idle"]
            /\ epoll' = epoll /\ after' = after
        BY <3>12 DEF Use
      <4> QED BY <2>0, <2>a, <4>1
    <3> QED BY <2>3, <3>1, <3>2, <3>3, <3>4, <3>5, <3>6, <3>7, <3>8, <3>9, <3>10, <3>11, <3>12 DEF Selector
  <2>4. ASSUME UNCHANGED <<epoll, pc, callVars>>
        PROVE  /\ u \in epoll' \/ after'[u] = "setup" => HasFd(u)
               /\ pc'[u] = "use" => found'[u] # 0
    BY <2>0, <2>4 DEF callVars
  <2>5. CASE \/ \E t \in Others, q \in Queues : \/ Send(t, q) \/ Recv(t, q)
                                                \/ \E b \in BOOLEAN : SetDisabled(t, q, b)
             \/ \E t \in Threads : NotifySignal(t)
             \/ FdEvent
    <3>1. UNCHANGED <<epoll, pc, callVars>> BY <2>5 DEF Send, Recv, SetDisabled, NotifySignal, FdEvent
    <3> QED BY <2>4, <3>1
  <2> QED BY <2>3, <2>5 DEF Next
<1> QED BY <1>1 DEF CallInv

-----------------------------------------------------------------------------
(* Steps that leave the lists alone.                                       *)

LEMMA ReadyDef ==
  ASSUME NEW l \in Lists
  PROVE  /\ l[1] \in Queues /\ l[2] \in Dirs /\ l = <<l[1], l[2]>>
         /\ Ready(l) = IF l[2] = "read" THEN msg_count[l[1]] > 0
                       ELSE msg_count[l[1]] < Capacity \/ writing_disabled[l[1]]
         /\ Ready(l)' = IF l[2] = "read" THEN msg_count'[l[1]] > 0
                        ELSE msg_count'[l[1]] < Capacity \/ writing_disabled'[l[1]]
<1>1. l[1] \in Queues /\ l[2] \in Dirs /\ l = <<l[1], l[2]>> BY DEF Lists
<1>2. l[1] # Fd BY <1>1, SelectAssumption
<1> QED BY <1>1, <1>2 DEF Ready

\* A selector with linked nodes may go on in its call, but not begin a new scan.
StaysInCall(s) ==
  /\ pc'[s] \in {"scan", "wait", "dereg"}
  /\ pc'[s] = "scan" => /\ pc[s] = "scan" /\ start'[s] = start[s]
                        /\ left'[s] \in Nat /\ left'[s] <= left[s]

LEMMA ListKept ==
  ASSUME TypeInv, ListInv, waiters' = waiters,
         \A l \in Lists : rotor'[l] # Null => rotor'[l] \in Elems(waiters[l]),
         \A s \in Selectors : Linked(s) # {} => StaysInCall(s)
  PROVE  ListInv'
<1> SUFFICES ASSUME NEW l \in Lists
             PROVE  /\ Distinct(waiters[l])
                    /\ \A n \in Elems(waiters[l]) : /\ ListOf(n[1], n[2]) = l
                                                    /\ InCall(n[1])'
                                                    /\ pc'[n[1]] = "scan" => Visited(n[1], n[2])'
                    /\ rotor'[l] # Null => rotor'[l] \in Elems(waiters[l])
  BY DEF ListInv
<1>1. Distinct(waiters[l]) BY DEF ListInv
<1>2. ASSUME NEW n \in Elems(waiters[l])
      PROVE  /\ ListOf(n[1], n[2]) = l /\ InCall(n[1])'
             /\ pc'[n[1]] = "scan" => Visited(n[1], n[2])'
  <2>1. /\ n[1] \in Selectors /\ n[2] \in Indices(n[1]) /\ Linked(n[1]) # {} /\ ListOf(n[1], n[2]) = l
    BY ListedNode
  <2>2. StaysInCall(n[1]) BY <2>1
  <2>3. InCall(n[1])' BY <2>2 DEF StaysInCall, InCall
  <2>4. ASSUME pc'[n[1]] = "scan" PROVE Visited(n[1], n[2])'
    <3>1. Visited(n[1], n[2]) /\ start'[n[1]] = start[n[1]] /\ left'[n[1]] \in Nat /\ left'[n[1]] <= left[n[1]]
      BY <2>2, <2>4 DEF ListInv, StaysInCall
    <3>2. left[n[1]] \in Nat /\ Len(Selectables[n[1]]) \in Nat /\ start[n[1]] \in Nat /\ n[2] \in Nat
      BY <2>1, SelectablesType DEF TypeInv
    <3>3. Offset(n[1], n[2])' = Offset(n[1], n[2]) BY <3>1 DEF Offset
    <3>4. Offset(n[1], n[2]) \in Int BY <3>2 DEF Offset
    <3>5. Offset(n[1], n[2]) < Len(Selectables[n[1]]) - left'[n[1]] BY <3>1, <3>2, <3>4 DEF Visited
    <3> QED BY <3>3, <3>5 DEF Visited
  <2> QED BY <2>1, <2>3, <2>4
<1> QED BY <1>1, <1>2

LEMMA LookKept ==
  ASSUME TypeInv, ListInv, LookInv, waiters' = waiters,
         \A s \in Selectors : Linked(s) # {} /\ Look(s) => ready'[s] \/ pc'[s] = "dereg",
         \A l \in Lists : Ready(l)' /\ waiters[l] # <<>> =>
           Ready(l) \/ \E n \in Elems(waiters[l]) : ready'[n[1]]
  PROVE  LookInv'
<1> SUFFICES ASSUME NEW l \in Lists, Ready(l)', waiters[l] # <<>>
             PROVE  \E n \in Elems(waiters[l]) : ready'[n[1]] \/ pc'[n[1]] = "dereg"
  BY DEF LookInv, Look
<1>1. CASE Ready(l)
  <2>1. PICK n \in Elems(waiters[l]) : Look(n[1]) BY <1>1 DEF LookInv
  <2>2. n[1] \in Selectors /\ Linked(n[1]) # {} BY ListedNode
  <2> QED BY <2>1, <2>2
<1>2. CASE ~Ready(l) BY <1>2
<1> QED BY <1>1, <1>2

\* A step of one selector that sends no notification.
LEMMA QuietStep ==
  ASSUME IInv, NEW s \in Selectors, UNCHANGED <<queueVars, listVars, signal, efd>>,
         \A u \in Selectors \ {s} : /\ pc'[u] = pc[u] /\ start'[u] = start[u] /\ left'[u] = left[u]
                                    /\ ready'[u] = ready[u]
                                    /\ u \in epoll' <=> u \in epoll
                                    /\ u \in asleep' => u \in asleep,
         Linked(s) # {} => StaysInCall(s) /\ (Look(s) => ready'[s] \/ pc'[s] = "dereg"),
         ready'[s] => /\ ready[s]
                      /\ s \notin epoll' /\ s \in asleep' => s \notin epoll /\ s \in asleep
                      /\ s \in epoll' /\ pc'[s] \in {"scan", "wait"} => s \in epoll /\ pc[s] \in {"scan", "wait"}
  PROVE  ListInv' /\ SignalInv' /\ WakeInv' /\ LookInv'
<1>0. TypeInv /\ ListInv /\ SignalInv /\ WakeInv /\ LookInv BY DEF IInv
<1>1. waiters' = waiters /\ rotor' = rotor /\ signal' = signal /\ efd' = efd
      /\ msg_count' = msg_count /\ writing_disabled' = writing_disabled
  BY DEF queueVars, listVars
<1>2. ListInv'
  <2>1. ASSUME NEW u \in Selectors, Linked(u) # {} PROVE StaysInCall(u)
    <3>1. CASE u = s BY <2>1, <3>1
    <3>2. CASE u # s
      <4>1. InCall(u) BY <1>0, <2>1, OutsideUnlinked
      <4>2. left[u] \in Nat BY <1>0 DEF TypeInv
      <4> QED BY <3>2, <4>1, <4>2 DEF StaysInCall, InCall
    <3> QED BY <3>1, <3>2
  <2>2. \A l \in Lists : rotor'[l] # Null => rotor'[l] \in Elems(waiters[l]) BY <1>0, <1>1 DEF ListInv
  <2> QED BY <1>0, <1>1, <2>1, <2>2, ListKept
<1>3. SignalInv' BY <1>0, <1>1 DEF SignalInv
<1>4. WakeInv'
  <2> SUFFICES ASSUME NEW u \in Selectors, ready'[u]
               PROVE  /\ u \notin epoll' /\ u \in asleep' => \E t \in Threads : signal'[t].cond = u
                      /\ u \in epoll' /\ pc'[u] \in {"scan", "wait"} => \E n \in efd' : n[1] = u
    BY DEF WakeInv
  <2>1. CASE u = s BY <1>0, <1>1, <2>1 DEF WakeInv
  <2>2. CASE u # s BY <1>0, <1>1, <2>2 DEF WakeInv
  <2> QED BY <2>1, <2>2
<1>5. LookInv'
  <2>1. ASSUME NEW u \in Selectors, Linked(u) # {}, Look(u) PROVE ready'[u] \/ pc'[u] = "dereg"
    <3>1. CASE u = s BY <2>1, <3>1
    <3>2. CASE u # s BY <2>1, <3>2 DEF Look
    <3> QED BY <3>1, <3>2
  <2>2. \A l \in Lists : Ready(l)' => Ready(l) BY <1>1, ReadyDef
  <2> QED BY <1>0, <1>1, <2>1, <2>2, LookKept
<1> QED BY <1>2, <1>3, <1>4, <1>5

\* A step that notifies waiters of q.
LEMMA NotifyStep ==
  ASSUME IInv, NEW t \in Threads, NEW q \in Queues, NEW targets \in Seq(Nodes),
         Mark(t, q, targets, efd), waiters' = waiters,
         \A n \in Elems(targets) : OnQueue(waiters, n, q),
         \A l \in Lists : rotor'[l] # Null => rotor'[l] \in Elems(waiters[l]),
         asleep' \subseteq asleep, signal[t].cond \notin asleep', epoll' = epoll,
         \A s \in Selectors : /\ Linked(s) # {} => StaysInCall(s)
                              /\ pc[s] = "dereg" /\ Linked(s) # {} => pc'[s] = "dereg"
                              /\ pc'[s] \in {"scan", "wait"} => pc[s] \in {"scan", "wait"},
         \A l \in Lists : Ready(l)' /\ waiters[l] # <<>> =>
           Ready(l) \/ (targets # <<>> /\ Head(targets) \in Elems(waiters[l]))
  PROVE  ListInv' /\ SignalInv' /\ WakeInv' /\ LookInv'
<1>0. TypeInv /\ ListInv /\ SignalInv /\ WakeInv /\ LookInv /\ efd \in SUBSET Nodes BY DEF IInv, TypeInv
<1>1. ListInv' BY <1>0, ListKept
<1>2. SignalInv' BY <1>0, MarkSignals
<1>3. WakeInv' BY <1>0, MarkWakes
<1>4. LookInv'
  <2>1. /\ \A s \in Selectors : ready[s] => ready'[s]
        /\ targets # <<>> => ready'[Head(targets)[1]]
    BY <1>0, MarkEffect
  <2>2. \A s \in Selectors : Linked(s) # {} /\ Look(s) => ready'[s] \/ pc'[s] = "dereg" BY <2>1 DEF Look
  <2>3. \A l \in Lists : Ready(l)' /\ waiters[l] # <<>> =>
           Ready(l) \/ \E n \in Elems(waiters[l]) : ready'[n[1]]
    BY <2>1
  <2> QED BY <1>0, <2>2, <2>3, LookKept
<1> QED BY <1>1, <1>2, <1>3, <1>4

\* The quiet steps of a selector.
LEMMA QuietSteps ==
  ASSUME IInv, NEW s \in Selectors,
         \/ SelectCall(s) \/ PollFails(s) \/ ScanFdFinds(s) \/ ScanFdPasses(s) \/ ScanEnds(s)
         \/ WaitSleeps(s) \/ WaitReturns(s) \/ WaitTimesOut(s) \/ SpuriousWakeup(s)
         \/ EpollReturns(s) \/ EpollTimesOut(s) \/ EpollSetupFails(s)
         \/ LooksAgain(s) \/ BuildsEpoll(s) \/ Returns(s)
  PROVE  ListInv' /\ SignalInv' /\ WakeInv' /\ LookInv'
<1>0. TypeInv /\ ListInv BY DEF IInv
<1>a. /\ pc \in [Selectors -> {"idle", "scan", "wait", "dereg", "use"}] /\ ready \in [Selectors -> BOOLEAN]
      /\ start \in [Selectors -> Nat] /\ left \in [Selectors -> Nat]
  BY <1>0 DEF TypeInv
<1>b. UNCHANGED <<queueVars, listVars, signal, efd>>
  BY DEF SelectCall, PollFails, ScanFdFinds, ScanFdPasses, ScanEnds, WaitSleeps, WaitReturns, WaitTimesOut,
         SpuriousWakeup, EpollReturns, EpollTimesOut, EpollSetupFails, LooksAgain, BuildsEpoll, Returns, wakeVars
<1> DEFINE Rest == \A u \in Selectors \ {s} :
                        /\ pc'[u] = pc[u] /\ start'[u] = start[u] /\ left'[u] = left[u] /\ ready'[u] = ready[u]
                        /\ u \in epoll' <=> u \in epoll
                        /\ u \in asleep' => u \in asleep
           Stays == Linked(s) # {} => StaysInCall(s) /\ (Look(s) => ready'[s] \/ pc'[s] = "dereg")
           Backed == ready'[s] =>
                      /\ ready[s]
                      /\ s \notin epoll' /\ s \in asleep' => s \notin epoll /\ s \in asleep
                      /\ s \in epoll' /\ pc'[s] \in {"scan", "wait"} => s \in epoll /\ pc[s] \in {"scan", "wait"}
<1>1. CASE SelectCall(s)
  <2>1. Linked(s) = {} BY <1>0, <1>1, OutsideUnlinked DEF SelectCall, InCall
  <2>2. Rest BY <1>a, <1>1 DEF SelectCall, BeginScan
  <2>3. Backed BY <1>a, <1>1 DEF SelectCall, BeginScan
  <2> QED BY <1>b, <2>1, <2>2, <2>3, QuietStep
<1>2. CASE PollFails(s) \/ ScanFdFinds(s) \/ EpollTimesOut(s)
  <2>1. /\ \E i : Leave(s, i)
        /\ UNCHANGED <<ready, epoll, asleep, start>>
    BY <1>2 DEF PollFails, ScanFdFinds, EpollTimesOut, wakeVars
  <2>2. Rest BY <1>a, <2>1 DEF Leave
  <2>3. Backed BY <1>a, <2>1 DEF Leave
  <2>4. Stays BY <1>a, <2>1 DEF Leave, StaysInCall
  <2> QED BY <1>b, <2>2, <2>3, <2>4, QuietStep
<1>3. CASE ScanFdPasses(s)
  <2>1. Rest BY <1>a, <1>3 DEF ScanFdPasses, wakeVars
  <2>2. Backed BY <1>a, <1>3 DEF ScanFdPasses, wakeVars
  <2>3. Stays BY <1>a, <1>3 DEF ScanFdPasses, wakeVars, Scanning, StaysInCall, Look
  <2> QED BY <1>b, <2>1, <2>2, <2>3, QuietStep
<1>4. CASE ScanEnds(s)
  <2>1. /\ pc[s] = "scan" /\ UNCHANGED <<ready, epoll, asleep, start, left>>
        /\ pc' = [pc EXCEPT ![s] = "dereg"] \/ pc' = [pc EXCEPT ![s] = "wait"]
    BY <1>4 DEF ScanEnds, wakeVars
  <2>2. Rest BY <1>a, <2>1
  <2>3. Backed BY <1>a, <2>1
  <2>4. Stays BY <1>a, <2>1 DEF StaysInCall, Look
  <2> QED BY <1>b, <2>2, <2>3, <2>4, QuietStep
<1>5. CASE WaitSleeps(s) \/ SpuriousWakeup(s)
  <2>1. /\ UNCHANGED <<ready, epoll, pc, start, left>>
        /\ asleep' = asleep \/ asleep' = asleep \ {s} \/ (~ready[s] /\ asleep' = asleep \cup {s})
    BY <1>5 DEF WaitSleeps, SpuriousWakeup, wakeVars, callVars
  <2>2. Rest BY <2>1
  <2>3. Backed BY <2>1
  <2>4. ASSUME Linked(s) # {} PROVE StaysInCall(s) /\ (Look(s) => ready'[s] \/ pc'[s] = "dereg")
    <3>1. InCall(s) BY <1>0, <2>4, OutsideUnlinked
    <3> QED BY <1>a, <2>1, <3>1 DEF StaysInCall, InCall, Look
  <2> QED BY <1>b, <2>2, <2>3, <2>4, QuietStep
<1>6. CASE WaitReturns(s) \/ WaitTimesOut(s)
  <2>1. /\ ready' = [ready EXCEPT ![s] = FALSE] /\ pc' = [pc EXCEPT ![s] = "dereg"]
        /\ asleep' \subseteq asleep /\ UNCHANGED <<epoll, start, left>>
    BY <1>6 DEF WaitReturns, WaitTimesOut
  <2>2. Rest BY <1>a, <2>1
  <2>3. Backed BY <1>a, <2>1
  <2>4. Stays BY <1>a, <2>1 DEF StaysInCall, Look
  <2> QED BY <1>b, <2>2, <2>3, <2>4, QuietStep
<1>7. CASE EpollReturns(s)
  <2>1. /\ pc' = [pc EXCEPT ![s] = "dereg"] /\ UNCHANGED <<ready, epoll, asleep, start>>
        /\ left' = left \/ left' = [left EXCEPT ![s] = 0]
    BY <1>7 DEF EpollReturns, wakeVars, Leave
  <2>2. Rest BY <1>a, <2>1
  <2>3. Backed BY <1>a, <2>1
  <2>4. Stays BY <1>a, <2>1 DEF StaysInCall, Look
  <2> QED BY <1>b, <2>2, <2>3, <2>4, QuietStep
<1>8. CASE EpollSetupFails(s)
  <2>1. Linked(s) = {} /\ UNCHANGED <<ready, epoll, pc, asleep, start, left>>
    BY <1>8 DEF EpollSetupFails, Deregistered, wakeVars
  <2> QED BY <1>b, <2>1, QuietStep
<1>9. CASE LooksAgain(s) \/ BuildsEpoll(s)
  <2>1. Linked(s) = {} /\ BeginScan(s) /\ UNCHANGED <<asleep, start>> /\ (epoll' = epoll \/ epoll' = epoll \cup {s})
    BY <1>9 DEF LooksAgain, BuildsEpoll, Deregistered
  <2>2. Rest BY <1>a, <2>1 DEF BeginScan
  <2>3. Backed BY <1>a, <2>1 DEF BeginScan
  <2> QED BY <1>b, <2>1, <2>2, <2>3, QuietStep
<1>10. CASE Returns(s)
  <2>1. Linked(s) = {} BY <1>10 DEF Returns, Deregistered
  <2>2. Rest BY <1>a, <1>10 DEF Returns
  <2>3. Backed BY <1>a, <1>10 DEF Returns
  <2> QED BY <1>b, <2>1, <2>2, <2>3, QuietStep
<1> QED BY <1>1, <1>2, <1>3, <1>4, <1>5, <1>6, <1>7, <1>8, <1>9, <1>10

-----------------------------------------------------------------------------
(* Steps that notify.                                                      *)

LEMMA RunningThread ==
  ASSUME TypeInv, NEW t \in Threads, Running(t)
  PROVE  signal[t].cond \notin asleep
BY SelectAssumption DEF TypeInv, Running, Unlocked

\* A put or a get, with what the thread itself does next.
LEMMA PutStep ==
  ASSUME IInv, NEW t \in Threads, NEW q \in Queues, Running(t), Put(t, q) \/ Get(t, q),
         UNCHANGED <<waiters, writing_disabled, asleep, epoll>>,
         \A s \in Selectors : /\ Linked(s) # {} => StaysInCall(s)
                              /\ pc[s] = "dereg" /\ Linked(s) # {} => pc'[s] = "dereg"
                              /\ pc'[s] \in {"scan", "wait"} => pc[s] \in {"scan", "wait"}
  PROVE  ListInv' /\ SignalInv' /\ WakeInv' /\ LookInv'
<1>0. TypeInv /\ ListInv BY DEF IInv
<1> DEFINE l == IF Put(t, q) THEN <<q, "read">> ELSE <<q, "write">>
<1>1. l \in Lists /\ l[1] = q BY DEF Lists, Dirs
<1>2. NotifyOne(t, l) BY DEF Put, Get
<1>3. \A k \in Lists : Ready(k)' => Ready(k) \/ k = l
  <2> SUFFICES ASSUME NEW k \in Lists, Ready(k)', k # l PROVE Ready(k) OBVIOUS
  <2>1. k[1] \in Queues /\ k[2] \in {"read", "write"} /\ k = <<k[1], k[2]>> BY ReadyDef DEF Dirs
  <2>2. msg_count \in [Queues -> 0 .. Capacity] /\ Capacity \in Nat BY <1>0, SelectAssumption DEF TypeInv
  <2>3. CASE k[1] # q
    <3>1. msg_count'[k[1]] = msg_count[k[1]] BY <2>1, <2>2, <2>3 DEF Put, Get
    <3> QED BY <3>1, ReadyDef
  <2>4. CASE k[1] = q /\ Put(t, q)
    <3>1. k[2] = "write" BY <2>1, <2>4
    <3>2. msg_count'[q] = msg_count[q] + 1 BY <2>2, <2>4 DEF Put
    <3>3. msg_count'[q] < Capacity \/ writing_disabled[q] BY <2>4, <3>1, ReadyDef
    <3>4. msg_count[q] < Capacity \/ writing_disabled[q] BY <2>2, <3>2, <3>3
    <3> QED BY <2>4, <3>1, <3>4, ReadyDef
  <2>5. CASE k[1] = q /\ ~Put(t, q)
    <3>1. k[2] = "read" /\ Get(t, q) BY <2>1, <2>5
    <3>2. msg_count'[q] = msg_count[q] - 1 BY <2>2, <3>1 DEF Get
    <3>3. msg_count'[q] > 0 BY <2>5, <3>1, ReadyDef
    <3>4. msg_count[q] > 0 BY <2>2, <3>2, <3>3
    <3> QED BY <2>5, <3>1, <3>4, ReadyDef
  <2> QED BY <2>3, <2>4, <2>5
<1> HIDE DEF l
<1>4. PICK targets \in Seq(Nodes) :
        /\ Mark(t, l[1], targets, efd)
        /\ Elems(targets) \subseteq Elems(waiters[l])
        /\ waiters[l] # <<>> => targets # <<>> /\ Head(targets) \in Elems(waiters[l])
  BY <1>0, <1>1, <1>2, NotifyOneMarks
<1>5. \A k \in Lists : rotor'[k] # Null => rotor'[k] \in Elems(waiters[k]) BY <1>0, <1>1, <1>2, NotifyOneMarks
<1>6. \A n \in Elems(targets) : OnQueue(waiters, n, q) BY <1>1, <1>4 DEF OnQueue
<1>7. signal[t].cond \notin asleep' /\ asleep' \subseteq asleep /\ epoll' = epoll /\ waiters' = waiters
  BY <1>0, RunningThread
<1>8. \A k \in Lists : Ready(k)' /\ waiters[k] # <<>> =>
           Ready(k) \/ (targets # <<>> /\ Head(targets) \in Elems(waiters[k]))
  BY <1>3, <1>4
<1>9. Mark(t, q, targets, efd) BY <1>1, <1>4
<1> QED BY <1>5, <1>6, <1>7, <1>8, <1>9, NotifyStep

\* Nothing happens to the calls themselves.
LEMMA CallsKept ==
  ASSUME TypeInv, ListInv, UNCHANGED <<pc, start, left>>
  PROVE  \A s \in Selectors : /\ Linked(s) # {} => StaysInCall(s)
                              /\ pc[s] = "dereg" /\ Linked(s) # {} => pc'[s] = "dereg"
                              /\ pc'[s] \in {"scan", "wait"} => pc[s] \in {"scan", "wait"}
<1> SUFFICES ASSUME NEW s \in Selectors, Linked(s) # {} PROVE StaysInCall(s) OBVIOUS
<1>1. InCall(s) BY OutsideUnlinked
<1>2. left[s] \in Nat BY DEF TypeInv
<1> QED BY <1>1, <1>2 DEF StaysInCall, InCall

LEMMA OtherSteps ==
  ASSUME IInv,
         \/ \E t \in Others, q \in Queues : \/ Send(t, q) \/ Recv(t, q)
                                            \/ \E b \in BOOLEAN : SetDisabled(t, q, b)
         \/ \E t \in Threads : NotifySignal(t)
         \/ FdEvent
  PROVE  ListInv' /\ SignalInv' /\ WakeInv' /\ LookInv'
<1>0. TypeInv /\ ListInv /\ SignalInv /\ WakeInv /\ LookInv BY DEF IInv
<1>1. UNCHANGED <<pc, start, left, waiters, epoll>>
  BY DEF Send, Recv, SetDisabled, NotifySignal, FdEvent, callVars, listVars
<1>2. \A s \in Selectors : /\ Linked(s) # {} => StaysInCall(s)
                           /\ pc[s] = "dereg" /\ Linked(s) # {} => pc'[s] = "dereg"
                           /\ pc'[s] \in {"scan", "wait"} => pc[s] \in {"scan", "wait"}
  BY <1>0, <1>1, CallsKept
<1>3. ASSUME NEW t \in Others, NEW q \in Queues, Send(t, q) \/ Recv(t, q)
      PROVE  ListInv' /\ SignalInv' /\ WakeInv' /\ LookInv'
  <2>1. /\ t \in Threads /\ Running(t) /\ (Put(t, q) \/ Get(t, q))
        /\ UNCHANGED <<waiters, writing_disabled, asleep, epoll>>
    BY <1>3 DEF Send, Recv, Threads
  <2> QED BY <1>2, <2>1, PutStep
<1>4. ASSUME NEW t \in Others, NEW q \in Queues, NEW b \in BOOLEAN, SetDisabled(t, q, b)
      PROVE  ListInv' /\ SignalInv' /\ WakeInv' /\ LookInv'
  <2> DEFINE l == <<q, "write">>
  <2>1. t \in Threads /\ l \in Lists /\ l[1] = q BY DEF Threads, Lists, Dirs
  <2>2. waiters[l] \in Seq(Nodes) BY <1>0, <2>1 DEF TypeInv
  <2>3. /\ Mark(t, q, waiters[l], efd) /\ rotor' = rotor /\ asleep' = asleep /\ Running(t)
        /\ msg_count' = msg_count /\ writing_disabled' = [writing_disabled EXCEPT ![q] = b]
    BY <1>4 DEF SetDisabled, listVars
  <2>4. \A k \in Lists : Ready(k)' => Ready(k) \/ k = l
    <3> SUFFICES ASSUME NEW k \in Lists, Ready(k)', k # l PROVE Ready(k) OBVIOUS
    <3>1. k[1] \in Queues /\ k[2] \in {"read", "write"} /\ k = <<k[1], k[2]>> BY ReadyDef DEF Dirs
    <3>2. CASE k[2] = "read" BY <2>3, <3>2, ReadyDef
    <3>3. CASE k[2] = "write"
      <4>1. k[1] # q BY <3>1, <3>3
      <4>2. writing_disabled'[k[1]] = writing_disabled[k[1]] BY <1>0, <2>3, <3>1, <4>1 DEF TypeInv
      <4> QED BY <2>3, <3>3, <4>2, ReadyDef
    <3> QED BY <3>1, <3>2, <3>3
  <2> HIDE DEF l
  <2>5. ASSUME waiters[l] # <<>> PROVE Head(waiters[l]) \in Elems(waiters[l])
    BY <2>2, <2>5, HeadTailProperties, LenProperties, EmptySeq DEF Elems
  <2>6. \A n \in Elems(waiters[l]) : OnQueue(waiters, n, q) BY <2>1 DEF OnQueue
  <2>7. \A k \in Lists : rotor'[k] # Null => rotor'[k] \in Elems(waiters[k]) BY <1>0, <2>3 DEF ListInv
  <2>8. signal[t].cond \notin asleep' /\ asleep' \subseteq asleep BY <1>0, <2>1, <2>3, RunningThread
  <2>9. \A k \in Lists : Ready(k)' /\ waiters[k] # <<>> =>
             Ready(k) \/ (waiters[l] # <<>> /\ Head(waiters[l]) \in Elems(waiters[k]))
    BY <2>4, <2>5
  <2> QED BY <1>1, <1>2, <2>1, <2>2, <2>3, <2>6, <2>7, <2>8, <2>9, NotifyStep
<1>5. ASSUME NEW t \in Threads, NotifySignal(t)
      PROVE  ListInv' /\ SignalInv' /\ WakeInv' /\ LookInv'
  <2> DEFINE q == signal[t].queue
             targets == signal[t].rest
  <2>1. /\ Mark(t, q, targets, efd) /\ asleep' = asleep \ {signal[t].cond}
        /\ UNCHANGED <<queueVars, listVars>> /\ signal[t] # Unlocked
    BY <1>5 DEF NotifySignal
  <2>2. StillLinked(waiters, signal[t]) /\ signal[t] \in Signals BY <1>0 DEF SignalInv, TypeInv
  <2>3. q \in Queues /\ targets \in Seq(Nodes) /\ \A n \in Elems(targets) : OnQueue(waiters, n, q)
    BY <2>1, <2>2 DEF StillLinked, Signals
  <2> HIDE DEF q, targets
  <2>4. \A k \in Lists : Ready(k)' => Ready(k) BY <2>1, ReadyDef DEF queueVars
  <2>5. \A k \in Lists : rotor'[k] # Null => rotor'[k] \in Elems(waiters[k]) BY <1>0, <2>1 DEF ListInv, listVars
  <2>6. signal[t].cond \notin asleep' /\ asleep' \subseteq asleep BY <2>1
  <2> QED BY <1>1, <1>2, <2>1, <2>3, <2>4, <2>5, <2>6, NotifyStep
<1>6. CASE FdEvent
  <2>1. UNCHANGED <<queueVars, listVars, wakeVars, epoll, pc, asleep, callVars>> BY <1>6 DEF FdEvent
  <2>2. ListInv' BY <1>0, <2>1 DEF ListInv, listVars, callVars, InCall, Visited, Offset
  <2>3. SignalInv' BY <1>0, <2>1 DEF SignalInv, listVars, wakeVars
  <2>4. WakeInv' BY <1>0, <2>1 DEF WakeInv, wakeVars
  <2>5. \A k \in Lists : Ready(k)' => Ready(k) BY <2>1, ReadyDef DEF queueVars
  <2>6. \A s \in Selectors : Look(s) => ready'[s] \/ pc'[s] = "dereg" BY <2>1 DEF Look, wakeVars
  <2>7. LookInv' BY <1>0, <1>1, <2>5, <2>6, LookKept
  <2> QED BY <2>2, <2>3, <2>4, <2>7
<1> QED BY <1>3, <1>4, <1>5, <1>6

LEMMA ScanFindsStep ==
  ASSUME IInv, NEW s \in Selectors, ScanFinds(s)
  PROVE  ListInv' /\ SignalInv' /\ WakeInv' /\ LookInv'
<1>0. TypeInv /\ ListInv /\ s \in Threads BY DEF IInv, Threads
<1> DEFINE l == Here(s)
<1>1. /\ l \in Lists /\ Running(s) /\ NotifyOne(s, l) /\ Leave(s, At(s))
      /\ UNCHANGED <<queueVars, waiters, epoll, asleep, start>>
  BY DEF ScanFinds, Scanning
<1> HIDE DEF l
<1>2. PICK targets \in Seq(Nodes) :
        /\ Mark(s, l[1], targets, efd)
        /\ Elems(targets) \subseteq Elems(waiters[l])
  BY <1>0, <1>1, NotifyOneMarks
<1>3. l[1] \in Queues /\ \A k \in Lists : rotor'[k] # Null => rotor'[k] \in Elems(waiters[k])
  BY <1>0, <1>1, NotifyOneMarks
<1>4. \A n \in Elems(targets) : OnQueue(waiters, n, l[1]) BY <1>1, <1>2 DEF OnQueue
<1>5. signal[s].cond \notin asleep' /\ asleep' \subseteq asleep /\ epoll' = epoll /\ waiters' = waiters
  BY <1>0, <1>1, RunningThread
<1>6. \A k \in Lists : Ready(k)' => Ready(k) BY <1>1, ReadyDef DEF queueVars
<1>7. ASSUME NEW u \in Selectors
      PROVE  /\ Linked(u) # {} => StaysInCall(u)
             /\ pc[u] = "dereg" /\ Linked(u) # {} => pc'[u] = "dereg"
             /\ pc'[u] \in {"scan", "wait"} => pc[u] \in {"scan", "wait"}
  <2>0. pc' = [pc EXCEPT ![s] = "dereg"] /\ left' = [left EXCEPT ![s] = 0] /\ start' = start BY <1>1 DEF Leave
  <2>1. CASE u = s BY <1>0, <2>0, <2>1 DEF TypeInv, StaysInCall
  <2>2. CASE u # s
    <3>1. pc'[u] = pc[u] /\ left'[u] = left[u] /\ left[u] \in Nat BY <1>0, <2>0, <2>2 DEF TypeInv
    <3>2. Linked(u) # {} => InCall(u) BY <1>0, OutsideUnlinked
    <3> QED BY <2>0, <3>1, <3>2 DEF StaysInCall, InCall
  <2> QED BY <2>1, <2>2
<1> QED BY <1>0, <1>2, <1>3, <1>4, <1>5, <1>6, <1>7, NotifyStep

LEMMA UseStep ==
  ASSUME IInv, NEW s \in Selectors, Use(s)
  PROVE  ListInv' /\ SignalInv' /\ WakeInv' /\ LookInv'
<1>0. TypeInv /\ CallInv /\ ListInv /\ SignalInv /\ WakeInv /\ LookInv /\ s \in Threads BY DEF IInv, Threads
<1>1. /\ pc[s] = "use" /\ Running(s) /\ pc' = [pc EXCEPT ![s] = "idle"]
      /\ UNCHANGED <<writing_disabled, waiters, epoll, asleep, start, left>>
  BY DEF Use
<1>2. Linked(s) = {} BY <1>0, <1>1, OutsideUnlinked DEF InCall
<1>3. ASSUME NEW u \in Selectors
      PROVE  /\ Linked(u) # {} => StaysInCall(u)
             /\ pc[u] = "dereg" /\ Linked(u) # {} => pc'[u] = "dereg"
             /\ pc'[u] \in {"scan", "wait"} => pc[u] \in {"scan", "wait"}
  <2>1. CASE u = s BY <1>0, <1>1, <1>2, <2>1 DEF TypeInv
  <2>2. CASE u # s
    <3>1. pc'[u] = pc[u] /\ left[u] \in Nat BY <1>0, <1>1, <2>2 DEF TypeInv
    <3>2. Linked(u) # {} => InCall(u) BY <1>0, OutsideUnlinked
    <3> QED BY <1>1, <3>1, <3>2 DEF StaysInCall, InCall
  <2> QED BY <2>1, <2>2
<1>4. CASE \E q \in Queues : Get(s, q) \/ Put(s, q)
  <2>1. PICK q \in Queues : Get(s, q) \/ Put(s, q) BY <1>4
  <2> QED BY <1>0, <1>1, <1>3, <2>1, PutStep
<1>5. CASE UNCHANGED <<msg_count, wakeVars, rotor>>
  <2>1. UNCHANGED <<queueVars, listVars, signal, efd, ready>> BY <1>1, <1>5 DEF queueVars, listVars, wakeVars
  <2>2. \A u \in Selectors \ {s} : pc'[u] = pc[u] BY <1>0, <1>1 DEF TypeInv
  <2>3. pc'[s] = "idle" BY <1>0, <1>1 DEF TypeInv
  <2> QED BY <1>1, <1>2, <2>1, <2>2, <2>3, QuietStep
<1> QED BY <1>0, <1>4, <1>5, UseTypes

-----------------------------------------------------------------------------
(* Steps that change a list.                                               *)

LEMMA ScanLinksStep ==
  ASSUME IInv, NEW s \in Selectors, ScanLinks(s)
  PROVE  ListInv' /\ SignalInv' /\ WakeInv' /\ LookInv'
<1>0. TypeInv /\ ListInv /\ SignalInv /\ WakeInv /\ LookInv BY DEF IInv
<1> DEFINE l == Here(s)
           n == <<s, At(s)>>
           list == <<n>> \o waiters[l]
<1>1. /\ l \in Lists /\ left[s] > 0 /\ pc[s] = "scan" /\ ~Ready(l)
      /\ waiters' = [waiters EXCEPT ![l] = list]
      /\ left' = [left EXCEPT ![s] = @ - 1]
      /\ UNCHANGED <<queueVars, rotor, wakeVars, epoll, pc, asleep, start>>
  BY DEF ScanLinks, Scanning
<1>2. n \in Nodes /\ n[1] = s /\ n[2] = At(s) /\ ListOf(s, At(s)) = l BY <1>0, <1>1, AtProperties DEF Here
<1>3. Offset(s, At(s)) = Len(Selectables[s]) - left[s] BY <1>0, <1>1, AtProperties
<1>4. /\ waiters \in [Lists -> Seq(Nodes)] /\ left \in [Selectors -> Nat] /\ left[s] \in Nat
      /\ Len(Selectables[s]) \in Nat /\ waiters[l] \in Seq(Nodes)
  BY <1>0, <1>1, SelectablesType DEF TypeInv
<1> HIDE DEF l, n
<1>5. n \notin Elems(waiters[l])
  <2> SUFFICES ASSUME n \in Elems(waiters[l]) PROVE FALSE OBVIOUS
  <2>1. Visited(s, At(s)) BY <1>0, <1>1, <1>2 DEF ListInv
  <2> QED BY <1>3, <1>4, <2>1 DEF Visited
<1>6. Distinct(waiters[l]) BY <1>0, <1>1 DEF ListInv
<1>7. Elems(list) = Elems(waiters[l]) \cup {n} /\ Distinct(list) BY <1>2, <1>4, <1>5, <1>6, ConsProperties
<1> HIDE DEF list
<1>8. waiters'[l] = list /\ \A k \in Lists \ {l} : waiters'[k] = waiters[k] BY <1>1, <1>4
<1>9. \A k \in Lists : Elems(waiters[k]) \subseteq Elems(waiters'[k]) BY <1>7, <1>8
<1>10. \A u \in Selectors : left'[u] \in Nat /\ left'[u] <= left[u] BY <1>1, <1>4
<1>11. left'[s] = left[s] - 1 BY <1>1, <1>4
<1>12. ListInv'
  <2> SUFFICES ASSUME NEW k \in Lists
               PROVE  /\ Distinct(waiters'[k])
                      /\ \A m \in Elems(waiters'[k]) : /\ ListOf(m[1], m[2]) = k
                                                       /\ InCall(m[1])'
                                                       /\ pc'[m[1]] = "scan" => Visited(m[1], m[2])'
                      /\ rotor'[k] # Null => rotor'[k] \in Elems(waiters'[k])
    BY DEF ListInv
  <2>1. Distinct(waiters'[k])
    <3>1. CASE k = l BY <1>7, <1>8, <3>1
    <3>2. CASE k # l BY <1>0, <1>8, <3>2 DEF ListInv
    <3> QED BY <3>1, <3>2
  <2>2. rotor'[k] # Null => rotor'[k] \in Elems(waiters'[k]) BY <1>0, <1>1, <1>9 DEF ListInv
  <2>3. ASSUME NEW m \in Elems(waiters[k])
        PROVE  /\ ListOf(m[1], m[2]) = k /\ InCall(m[1])'
               /\ pc'[m[1]] = "scan" => Visited(m[1], m[2])'
    <3>1. m[1] \in Selectors /\ m[2] \in Indices(m[1]) /\ ListOf(m[1], m[2]) = k /\ InCall(m[1]) BY <1>0, ListedNode
    <3>2. InCall(m[1])' BY <1>1, <3>1 DEF InCall
    <3>3. ASSUME pc'[m[1]] = "scan" PROVE Visited(m[1], m[2])'
      <4>1. Visited(m[1], m[2]) BY <1>0, <1>1, <3>3 DEF ListInv
      <4>2. left[m[1]] \in Nat /\ Len(Selectables[m[1]]) \in Nat /\ start[m[1]] \in Nat /\ m[2] \in Nat
        BY <1>0, <3>1, SelectablesType DEF TypeInv
      <4>3. left'[m[1]] \in Nat /\ left'[m[1]] <= left[m[1]] BY <1>10, <3>1
      <4>4. Offset(m[1], m[2])' = Offset(m[1], m[2]) BY <1>1 DEF Offset
      <4>5. Offset(m[1], m[2]) \in Int BY <4>2 DEF Offset
      <4>6. Offset(m[1], m[2]) < Len(Selectables[m[1]]) - left'[m[1]] BY <4>1, <4>2, <4>3, <4>5 DEF Visited
      <4> QED BY <4>4, <4>6 DEF Visited
    <3> QED BY <3>1, <3>2, <3>3
  <2>4. ASSUME NEW m, k = l, m = n
        PROVE  /\ ListOf(m[1], m[2]) = k /\ InCall(m[1])'
               /\ pc'[m[1]] = "scan" => Visited(m[1], m[2])'
    <3>0. m[1] = s /\ m[2] = At(s) BY <1>2, <2>4
    <3>1. InCall(s)' BY <1>1 DEF InCall
    <3>2. Offset(s, m[2]) < Len(Selectables[s]) - left'[s] BY <1>3, <1>4, <1>11, <3>0
    <3>3. Offset(s, m[2])' = Offset(s, m[2]) BY <1>1 DEF Offset
    <3>4. Visited(s, m[2])' BY <3>2, <3>3 DEF Visited
    <3> QED BY <1>2, <2>4, <3>0, <3>1, <3>4
  <2>5. \A m \in Elems(waiters'[k]) : m \in Elems(waiters[k]) \/ (k = l /\ m = n)
    <3>1. CASE k = l BY <1>7, <1>8, <3>1
    <3>2. CASE k # l BY <1>8, <3>2
    <3> QED BY <3>1, <3>2
  <2> QED BY <2>1, <2>2, <2>3, <2>4, <2>5
<1>13. SignalInv'
  <2> SUFFICES ASSUME NEW t \in Threads PROVE StillLinked(waiters', signal[t]) BY <1>1 DEF SignalInv, wakeVars
  <2>1. StillLinked(waiters, signal[t]) BY <1>0 DEF SignalInv
  <2>2. \A m, q : OnQueue(waiters, m, q) => OnQueue(waiters', m, q) BY <1>9 DEF OnQueue
  <2> QED BY <2>1, <2>2 DEF StillLinked
<1>14. WakeInv' BY <1>0, <1>1 DEF WakeInv, wakeVars
<1>15. LookInv'
  <2> SUFFICES ASSUME NEW k \in Lists, Ready(k)', waiters'[k] # <<>>
               PROVE  \E m \in Elems(waiters'[k]) : ready'[m[1]] \/ pc'[m[1]] = "dereg"
    BY DEF LookInv, Look
  <2>1. Ready(k) BY <1>1, ReadyDef DEF queueVars
  <2>2. k # l BY <1>1, <2>1
  <2>3. waiters'[k] = waiters[k] BY <1>8, <2>2
  <2>4. PICK m \in Elems(waiters[k]) : Look(m[1]) BY <1>0, <2>1, <2>3 DEF LookInv
  <2> QED BY <1>1, <2>3, <2>4 DEF Look, wakeVars
<1> QED BY <1>12, <1>13, <1>14, <1>15

LEMMA DeregisterStep ==
  ASSUME IInv, NEW s \in Selectors, Deregister(s)
  PROVE  ListInv' /\ SignalInv' /\ WakeInv' /\ LookInv'
<1>0. TypeInv /\ ListInv /\ SignalInv /\ WakeInv /\ LookInv /\ s \in Threads BY DEF IInv, Threads
<1>1. PICK n \in Nodes, l \in Lists, targets \in Seq(Nodes) :
           /\ n[1] = s /\ n \in Elems(waiters[l]) /\ l[1] \in Queues /\ Free(l[1])
           /\ waiters' = [waiters EXCEPT ![l] = Without(waiters[l], n)]
           /\ waiters'[l] \in Seq(Nodes) /\ Distinct(waiters'[l])
           /\ Elems(waiters'[l]) = Elems(waiters[l]) \ {n}
           /\ rotor' \in [Lists -> Nodes \cup {Null}]
           /\ \A k \in Lists : rotor'[k] # Null => rotor'[k] \in Elems(waiters'[k])
           /\ Mark(s, l[1], targets, efd \ {n})
           /\ Elems(targets) \subseteq Elems(waiters'[l])
           /\ Ready(l) /\ waiters'[l] # <<>> => targets # <<>> /\ Head(targets) \in Elems(waiters'[l])
  BY <1>0, DeregisterMarks
<1>2. pc[s] = "dereg" /\ Running(s) /\ UNCHANGED <<queueVars, epoll, pc, asleep, callVars>> BY DEF Deregister
<1>3. waiters \in [Lists -> Seq(Nodes)] /\ efd \ {n} \in SUBSET Nodes BY <1>0 DEF TypeInv
<1>4. \A k \in Lists \ {l} : waiters'[k] = waiters[k] BY <1>1, <1>3
<1>5. \A k \in Lists : Elems(waiters'[k]) \subseteq Elems(waiters[k])
  <2> SUFFICES ASSUME NEW k \in Lists PROVE Elems(waiters'[k]) \subseteq Elems(waiters[k]) OBVIOUS
  <2>1. CASE k = l BY <1>1, <2>1
  <2>2. CASE k # l BY <1>4, <2>2
  <2> QED BY <2>1, <2>2
<1>6. ListInv'
  <2> SUFFICES ASSUME NEW k \in Lists
               PROVE  /\ Distinct(waiters'[k])
                      /\ \A m \in Elems(waiters'[k]) : /\ ListOf(m[1], m[2]) = k
                                                       /\ InCall(m[1])'
                                                       /\ pc'[m[1]] = "scan" => Visited(m[1], m[2])'
                      /\ rotor'[k] # Null => rotor'[k] \in Elems(waiters'[k])
    BY DEF ListInv
  <2>1. Distinct(waiters'[k])
    <3>1. CASE k = l BY <1>1, <3>1
    <3>2. CASE k # l BY <1>0, <1>4, <3>2 DEF ListInv
    <3> QED BY <3>1, <3>2
  <2>2. ASSUME NEW m \in Elems(waiters'[k])
        PROVE  /\ ListOf(m[1], m[2]) = k /\ InCall(m[1])'
               /\ pc'[m[1]] = "scan" => Visited(m[1], m[2])'
    <3>1. m \in Elems(waiters[k]) BY <1>5
    <3>2. /\ ListOf(m[1], m[2]) = k /\ InCall(m[1])
          /\ pc[m[1]] = "scan" => Visited(m[1], m[2])
      BY <1>0, <3>1 DEF ListInv
    <3>3. InCall(m[1])' BY <1>2, <3>2 DEF InCall
    <3>4. Visited(m[1], m[2]) => Visited(m[1], m[2])' BY <1>2 DEF Visited, Offset, callVars
    <3> QED BY <1>2, <3>2, <3>3, <3>4
  <2> QED BY <1>1, <2>1, <2>2
<1>7. SignalInv'
  <2>1. \A m \in Elems(targets) : OnQueue(waiters', m, l[1]) BY <1>1 DEF OnQueue
  <2>2. ASSUME NEW u \in Threads \ {s}, NEW m \in Nodes, OnQueue(waiters, m, signal[u].queue)
        PROVE  OnQueue(waiters', m, signal[u].queue)
    <3>1. PICK k \in Lists : k[1] = signal[u].queue /\ m \in Elems(waiters[k]) BY <2>2 DEF OnQueue
    <3>2. signal[u].queue # l[1] BY <1>1 DEF Free
    <3>3. waiters'[k] = waiters[k] BY <1>4, <3>1, <3>2
    <3> QED BY <3>1, <3>3 DEF OnQueue
  <2> QED BY <1>0, <1>1, <1>3, <2>1, <2>2, MarkSignals
<1>8. WakeInv'
  <2>1. signal[s].cond \notin asleep' /\ asleep' \subseteq asleep /\ epoll' = epoll BY <1>0, <1>2, RunningThread
  <2>2. ASSUME NEW u \in Selectors, pc'[u] \in {"scan", "wait"}
        PROVE  pc[u] \in {"scan", "wait"} /\ \A m \in efd : m[1] = u => m \in efd \ {n}
    BY <1>1, <1>2, <2>2
  <2> QED BY <1>0, <1>1, <1>3, <2>1, <2>2, MarkWakes
<1>9. LookInv'
  <2> SUFFICES ASSUME NEW k \in Lists, Ready(k)', waiters'[k] # <<>>
               PROVE  \E m \in Elems(waiters'[k]) : ready'[m[1]] \/ pc'[m[1]] = "dereg"
    BY DEF LookInv, Look
  <2>1. Ready(k) BY <1>2, ReadyDef DEF queueVars
  <2>2. /\ \A u \in Selectors : ready[u] => ready'[u]
        /\ targets # <<>> => ready'[Head(targets)[1]]
    BY <1>0, <1>1, <1>3, MarkEffect
  <2>3. CASE k = l BY <1>1, <2>1, <2>2, <2>3
  <2>4. CASE k # l
    <3>1. waiters'[k] = waiters[k] BY <1>4, <2>4
    <3>2. PICK m \in Elems(waiters[k]) : Look(m[1]) BY <1>0, <2>1, <3>1 DEF LookInv
    <3>3. m[1] \in Selectors BY <1>0, ListedNode
    <3> QED BY <1>2, <2>2, <3>1, <3>2, <3>3 DEF Look
  <2> QED BY <2>3, <2>4
<1> QED BY <1>6, <1>7, <1>8, <1>9

-----------------------------------------------------------------------------
(* The theorems.                                                           *)

LEMMA InvInit == Init => IInv
<1> SUFFICES ASSUME Init PROVE IInv OBVIOUS
<1>1. TypeInv
  <2>1. CallType
    <3>1. \A s \in Selectors : 1 \in Indices(s) /\ 0 \in 0 .. Len(Selectables[s])
      BY SelectablesType DEF Indices
    <3> QED BY <3>1 DEF Init, CallType
  <2>2. QueueType
    <3>1. 0 \in 0 .. Capacity /\ 0 \in 0 .. MaxEvents BY SelectAssumption
    <3> QED BY <3>1 DEF Init, QueueType
  <2>3. ListType BY DEF Init, ListType
  <2>4. NotifyType
    <3>1. Unlocked \in Signals BY DEF Unlocked, Signals
    <3> QED BY <3>1 DEF Init, NotifyType
  <2> QED BY <2>1, <2>2, <2>3, <2>4, TypeParts
<1>2. CallInv BY DEF Init, CallInv
<1>3. Elems(<<>>) = {} /\ Distinct(<<>>) BY DEF Elems, Distinct
<1>4. ListInv BY <1>3 DEF Init, ListInv
<1>5. SignalInv
  <2>1. \A t \in Threads : signal[t] = Unlocked BY DEF Init
  <2>2. StillLinked(waiters, Unlocked) BY <1>3 DEF StillLinked, Unlocked
  <2> QED BY <2>1, <2>2 DEF SignalInv
<1>6. WakeInv BY DEF Init, WakeInv
<1>7. LookInv BY DEF Init, LookInv
<1> QED BY <1>1, <1>2, <1>4, <1>5, <1>6, <1>7 DEF IInv

LEMMA InvStep == IInv /\ [Next]_vars => IInv'
<1>1. ASSUME IInv, Next PROVE IInv'
  <2>1. TypeInv' /\ CallInv' BY <1>1, TypeStep, CallStep
  <2>2. ASSUME NEW s \in Selectors, Selector(s) \/ SpuriousWakeup(s) \/ PollFails(s) \/ EpollSetupFails(s)
                                    \/ WaitTimesOut(s) \/ EpollTimesOut(s)
        PROVE  ListInv' /\ SignalInv' /\ WakeInv' /\ LookInv'
    BY <1>1, <2>2, QuietSteps, ScanFindsStep, ScanLinksStep, DeregisterStep, UseStep DEF Selector
  <2>3. CASE \/ \E t \in Others, q \in Queues : \/ Send(t, q) \/ Recv(t, q)
                                                \/ \E b \in BOOLEAN : SetDisabled(t, q, b)
             \/ \E t \in Threads : NotifySignal(t)
             \/ FdEvent
    BY <1>1, <2>1, <2>3, OtherSteps DEF IInv
  <2>4. ListInv' /\ SignalInv' /\ WakeInv' /\ LookInv' BY <1>1, <2>2, <2>3, OtherSteps DEF Next
  <2> QED BY <2>1, <2>4 DEF IInv
<1>2. ASSUME IInv, UNCHANGED vars PROVE IInv'
  <2>1. UNCHANGED <<queueVars, listVars, wakeVars, callVars, epoll, pc, asleep, fd_ready, events>>
    BY <1>2 DEF vars
  <2>2. TypeInv' BY <1>2, <2>1 DEF IInv, TypeInv, queueVars, listVars, wakeVars, callVars
  <2>3. CallInv' BY <1>2, <2>1 DEF IInv, CallInv, callVars
  <2>4. ListInv' BY <1>2, <2>1 DEF IInv, ListInv, listVars, callVars, InCall, Visited, Offset
  <2>5. SignalInv' BY <1>2, <2>1 DEF IInv, SignalInv, listVars, wakeVars
  <2>6. WakeInv' BY <1>2, <2>1 DEF IInv, WakeInv, wakeVars
  <2>7. LookInv' BY <1>2, <2>1 DEF IInv, LookInv, Look, Ready, listVars, wakeVars, queueVars
  <2> QED BY <2>2, <2>3, <2>4, <2>5, <2>6, <2>7 DEF IInv
<1> QED BY <1>1, <1>2

LEMMA Invariance == Spec => []IInv
BY InvInit, InvStep, PTL DEF Spec

\* cselect's nodes live on the heap of one call: at no time does a queue's list, a
\* rotor, or a notifier between its two critical sections refer to a node of a call
\* that has returned, however many selects share the queue.
THEOREM NoNodeDangles == Spec => []NoDanglingNode
<1>1. IInv => NoDanglingNode
  <2> SUFFICES ASSUME IInv PROVE NoDanglingNode OBVIOUS
  <2>0. TypeInv /\ ListInv /\ SignalInv BY DEF IInv
  <2>1. ASSUME NEW l \in Lists
        PROVE  /\ DOMAIN waiters[l] = 1 .. Len(waiters[l])
               /\ \A j \in 1 .. Len(waiters[l]) : waiters[l][j] \in Elems(waiters[l])
    <3>1. waiters[l] \in Seq(Nodes) BY <2>0 DEF TypeInv
    <3> QED BY <3>1, LenProperties DEF Elems
  <2>2. ASSUME NEW l \in Lists, NEW j \in DOMAIN waiters[l], NEW k \in DOMAIN waiters[l]
        PROVE  /\ InCall(waiters[l][j][1])
               /\ waiters[l][j] = waiters[l][k] => j = k
    BY <2>0, <2>1 DEF ListInv, Distinct
  <2>3. ASSUME NEW l \in Lists, rotor[l] # Null PROVE \E j \in DOMAIN waiters[l] : waiters[l][j] = rotor[l]
    BY <2>0, <2>1, <2>3 DEF ListInv, Elems
  <2>4. ASSUME NEW t \in Threads, signal[t].cond # Null PROVE InCall(signal[t].cond)
    <3>1. PICK i \in Indices(signal[t].cond) : OnQueue(waiters, <<signal[t].cond, i>>, signal[t].queue)
      BY <2>0, <2>4 DEF SignalInv, StillLinked
    <3>2. PICK l \in Lists : <<signal[t].cond, i>> \in Elems(waiters[l]) BY <3>1 DEF OnQueue
    <3>3. InCall(<<signal[t].cond, i>>[1]) BY <2>0, <3>2, ListedNode
    <3> QED BY <3>3
  <2> QED BY <2>2, <2>3, <2>4 DEF NoDanglingNode
<1> QED BY <1>1, Invariance, PTL

\* A wake is never lost: while a queue is ready and has waiters, one of them is going
\* to look, though a notification marks only one, its signal comes after the mutex was
\* released, and waiters time out, fail, find another queue or are told twice.
THEOREM NoNotifyLost == Spec => []NoLostNotify
<1>1. IInv => NoLostNotify
  <2> SUFFICES ASSUME IInv, NEW l \in Lists, Ready(l), waiters[l] # <<>>
               PROVE  \E j \in DOMAIN waiters[l] : WillLook(waiters[l][j][1])
    BY DEF NoLostNotify
  <2>0. TypeInv /\ ListInv /\ WakeInv /\ LookInv BY DEF IInv
  <2>1. PICK n \in Elems(waiters[l]) : Look(n[1]) BY <2>0 DEF LookInv
  <2>2. waiters[l] \in Seq(Nodes) BY <2>0 DEF TypeInv
  <2>3. PICK j \in DOMAIN waiters[l] : waiters[l][j] = n BY <2>2, LenProperties DEF Elems
  <2>4. n[1] \in Selectors BY <2>0, ListedNode
  <2>5. WillLook(n[1]) BY <2>0, <2>1, <2>4 DEF Look, WakeInv, WillLook
  <2> QED BY <2>3, <2>5
<1> QED BY <1>1, Invariance, PTL
=============================================================================
