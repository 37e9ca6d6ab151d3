------------------------- MODULE HttpServerProofs -------------------------
(***************************************************************************)
(* For every set of threads and connections, every limit and scenario:     *)
(* a connection of the server has one holder, the server outlives its      *)
(* users, and it follows the protocol of BodyMemory, whose own theorems    *)
(* come first.                                                             *)
(***************************************************************************)
EXTENDS HttpServer, SequenceLemmas

-----------------------------------------------------------------------------
(* The books of body memory, for every limit and any number of connections  *)
(* and of threads that free memory.                                        *)
-----------------------------------------------------------------------------
(* What Unlinked returns.                                                  *)

\* The recursive function of Unlinked is what its equation says.
Kept(list, cs, n, f) ==
  f = [i \in 0 .. n |-> IF i = 0 THEN <<>>
                        ELSE IF list[i] \in cs THEN f[i - 1] ELSE Append(f[i - 1], list[i])]

LEMMA KeptExists ==
  ASSUME NEW list, NEW cs, NEW n \in Nat
  PROVE  \E f : Kept(list, cs, n, f)
<1> DEFINE T == {m \in Nat : \E f : Kept(list, cs, m, f)}
<1>1. 0 \in T
  <2> DEFINE g == [i \in 0 .. 0 |-> <<>>]
  <2>1. Kept(list, cs, 0, g) BY DEF Kept
  <2> QED BY <2>1
<1>2. ASSUME NEW m \in T PROVE m + 1 \in T
  <2>1. PICK f : Kept(list, cs, m, f) BY <1>2
  <2>3. \A i \in 0 .. m : f[i] = IF i = 0 THEN <<>>
                                 ELSE IF list[i] \in cs THEN f[i - 1] ELSE Append(f[i - 1], list[i])
    BY <2>1, Zenon DEF Kept
  <2> DEFINE g == [i \in 0 .. m + 1 |->
                     IF i # m + 1 THEN f[i]
                     ELSE IF list[i] \in cs THEN f[i - 1] ELSE Append(f[i - 1], list[i])]
  <2>2. Kept(list, cs, m + 1, g)
    <3> DEFINE Rhs(i) == IF i = 0 THEN <<>>
                         ELSE IF list[i] \in cs THEN g[i - 1] ELSE Append(g[i - 1], list[i])
    <3>1. ASSUME NEW i \in 0 .. m + 1 PROVE g[i] = Rhs(i)
      <4>1. CASE i = 0
        <5>1. i # m + 1 /\ 0 \in 0 .. m BY <4>1
        <5>2. f[0] = <<>> BY <2>3, <5>1
        <5> QED BY <4>1, <5>1, <5>2
      <4>2. CASE i \in 1 .. m
        <5>1. i \in 0 .. m /\ i - 1 \in 0 .. m /\ i - 1 \in 0 .. m + 1 /\ i - 1 # m + 1 /\ i # m + 1
          BY <4>2
        <5>2. g[i] = f[i] /\ g[i - 1] = f[i - 1] BY <5>1
        <5>3. f[i] = IF list[i] \in cs THEN f[i - 1] ELSE Append(f[i - 1], list[i])
          BY <2>3, <4>2, <5>1
        <5> QED BY <4>2, <5>2, <5>3
      <4>3. CASE i = m + 1
        <5>1. i - 1 \in 0 .. m + 1 /\ i - 1 # m + 1 /\ i # 0 BY <4>3
        <5>2. g[i - 1] = f[i - 1] BY <5>1
        <5> QED BY <4>3, <5>1, <5>2
      <4> QED BY <4>1, <4>2, <4>3
    <3>2. g = [i \in 0 .. m + 1 |-> Rhs(i)] BY <3>1
    <3> HIDE DEF g
    <3> QED BY <3>2 DEF Kept
  <2> QED BY <2>2
<1>3. T = Nat BY <1>1, <1>2, NatSetInduction
<1> QED BY <1>3

LEMMA UnlinkedDef ==
  ASSUME NEW S, NEW list \in Seq(S), NEW cs
  PROVE  \E kept : /\ Unlinked(list, cs) = kept[Len(list)] /\ kept[0] = <<>>
                   /\ \A k \in 1 .. Len(list) :
                        kept[k] = IF list[k] \in cs THEN kept[k - 1] ELSE Append(kept[k - 1], list[k])
<1> DEFINE N == Len(list)
           kept == CHOOSE f : Kept(list, cs, N, f)
<1>1. N \in Nat BY LenProperties
<1>2. Kept(list, cs, N, kept) BY <1>1, KeptExists
<1>3. Unlinked(list, cs) = kept[N] BY DEF Unlinked, Kept
<1> HIDE DEF kept
<1>4. kept[0] = <<>> BY <1>1, <1>2 DEF Kept
<1>5. ASSUME NEW k \in 1 .. N
      PROVE  kept[k] = IF list[k] \in cs THEN kept[k - 1] ELSE Append(kept[k - 1], list[k])
  <2>1. k \in 0 .. N /\ k # 0 BY <1>1
  <2> QED BY <1>2, <2>1 DEF Kept
<1> QED BY <1>3, <1>4, <1>5

LEMMA UnlinkedProperties ==
  ASSUME NEW S, NEW list \in Seq(S), NEW cs, Distinct(list)
  PROVE  /\ Unlinked(list, cs) \in Seq(S) /\ Distinct(Unlinked(list, cs))
         /\ Elems(Unlinked(list, cs)) = Elems(list) \ cs
<1> DEFINE N == Len(list)
<1>1. N \in Nat /\ \A i \in 1 .. N : list[i] \in S BY LenProperties, ElementOfSeq
<1>2. PICK kept : /\ Unlinked(list, cs) = kept[N] /\ kept[0] = <<>>
                  /\ \A k \in 1 .. N :
                       kept[k] = IF list[k] \in cs THEN kept[k - 1] ELSE Append(kept[k - 1], list[k])
  BY UnlinkedDef
<1>3. Unlinked(list, cs) = kept[N] BY <1>2
<1> DEFINE Firsts(n) == {list[i] : i \in 1 .. n} \ cs
           Good(n) == /\ kept[n] \in Seq(S) /\ Distinct(kept[n]) /\ Elems(kept[n]) = Firsts(n)
           T == {n \in Nat : n <= N => Good(n)}
<1>4. 0 \in T
  <2>1. kept[0] = <<>> BY <1>2
  <2>2. <<>> \in Seq(S) /\ Len(<<>>) = 0 BY EmptySeq
  <2>3. Elems(<<>>) = {} /\ Distinct(<<>>) BY <2>2 DEF Elems, Distinct
  <2>4. Firsts(0) = {} OBVIOUS
  <2> QED BY <2>1, <2>2, <2>3, <2>4
<1>5. ASSUME NEW n \in T PROVE n + 1 \in T
  <2>1. SUFFICES ASSUME n + 1 <= N PROVE Good(n + 1)
    OBVIOUS
  <2>2. n \in Nat /\ n + 1 \in 1 .. N /\ Good(n) BY <1>1, <1>5, <2>1
  <2> DEFINE x == list[n + 1]
  <2>3. kept[n + 1] = IF x \in cs THEN kept[n] ELSE Append(kept[n], x)
    <3>2. (n + 1) - 1 = n BY <2>2
    <3> QED BY <1>2, <2>2, <3>2
  <2>4. Firsts(n + 1) = Firsts(n) \cup ({x} \ cs)
    <3>1. 1 .. n + 1 = (1 .. n) \cup {n + 1} BY <2>2
    <3> QED BY <3>1
  <2>5. x \in S /\ x \notin Firsts(n)
    <3>1. \A i \in 1 .. n : i \in 1 .. N /\ i # n + 1 BY <1>1, <2>2
    <3>2. \A i \in 1 .. n : list[i] # x BY <2>2, <3>1 DEF Distinct
    <3> QED BY <1>1, <2>2, <3>2
  <2> HIDE DEF x, Firsts
  <2>6. CASE x \in cs BY <2>2, <2>3, <2>4, <2>6
  <2>7. CASE x \notin cs
    <3>1. kept[n + 1] = Append(kept[n], x) /\ kept[n] \in Seq(S) BY <2>2, <2>3, <2>7
    <3>2. /\ Append(kept[n], x) \in Seq(S)
          /\ Elems(Append(kept[n], x)) = Elems(kept[n]) \cup {x}
          /\ Distinct(kept[n]) /\ x \notin Elems(kept[n]) => Distinct(Append(kept[n], x))
      BY <2>5, <3>1, AppendElems
    <3> QED BY <2>2, <2>4, <2>5, <2>7, <3>1, <3>2
  <2> QED BY <2>6, <2>7
<1>6. T = Nat
  <2> HIDE DEF Good
  <2> QED BY <1>4, <1>5, NatSetInduction
<1>7. Good(N)
  <2> HIDE DEF Good
  <2>1. N \in T BY <1>1, <1>6, Zenon
  <2>2. N <= N BY <1>1
  <2> QED BY <2>1, <2>2
<1> QED BY <1>3, <1>7 DEF Elems

LEMMA UnlinkedNone ==
  ASSUME NEW S, NEW list \in Seq(S), NEW cs, \A i \in 1 .. Len(list) : list[i] \notin cs
  PROVE  Unlinked(list, cs) = list
<1> DEFINE N == Len(list)
<1>1. N \in Nat /\ \A i \in 1 .. N : list[i] \in S BY LenProperties, ElementOfSeq
<1>2. PICK kept : /\ Unlinked(list, cs) = kept[N] /\ kept[0] = <<>>
                  /\ \A k \in 1 .. N :
                       kept[k] = IF list[k] \in cs THEN kept[k - 1] ELSE Append(kept[k - 1], list[k])
  BY UnlinkedDef
<1> DEFINE Good(n) == kept[n] \in Seq(S) /\ Len(kept[n]) = n /\ \A i \in 1 .. n : kept[n][i] = list[i]
           T == {n \in Nat : n <= N => Good(n)}
<1>3. 0 \in T
  <2>1. kept[0] \in Seq(S) /\ Len(kept[0]) = 0 /\ 1 .. 0 = {} BY <1>2, EmptySeq
  <2> QED BY <2>1
<1>4. ASSUME NEW n \in T PROVE n + 1 \in T
  <2>1. SUFFICES ASSUME n + 1 <= N PROVE Good(n + 1)
    OBVIOUS
  <2>2. n \in Nat /\ n + 1 \in 1 .. N /\ Good(n) /\ (n + 1) - 1 = n BY <1>1, <1>4, <2>1
  <2>3. kept[n + 1] = Append(kept[n], list[n + 1]) BY <1>2, <2>2
  <2>4. list[n + 1] \in S BY <1>1, <2>2
  <2>5. /\ kept[n + 1] \in Seq(S) /\ Len(kept[n + 1]) = n + 1
        /\ \A i \in 1 .. n : kept[n + 1][i] = kept[n][i]
        /\ kept[n + 1][n + 1] = list[n + 1]
    BY <2>2, <2>3, <2>4, AppendProperties
  <2>6. \A i \in 1 .. n + 1 : i \in 1 .. n \/ i = n + 1 BY <2>2
  <2> QED BY <2>2, <2>5, <2>6
<1>5. T = Nat
  <2> HIDE DEF Good
  <2> QED BY <1>3, <1>4, NatSetInduction
<1>6. Good(N)
  <2> HIDE DEF Good
  <2>1. N \in T BY <1>1, <1>5, Zenon
  <2>2. N <= N BY <1>1
  <2> QED BY <2>1, <2>2
<1>7. kept[N] = list BY <1>6, SeqEqual
<1> QED BY <1>2, <1>7

-----------------------------------------------------------------------------
(* Counting what is held.                                                  *)

HeldBy(f, cs) == UNION {{c} \X (1 .. f[c]) : c \in cs}

LEMMA HeldElement ==
  ASSUME NEW f, NEW cs, NEW x
  PROVE  x \in HeldBy(f, cs) <=> \E c \in cs : \E i \in 1 .. f[c] : x = <<c, i>>
BY DEF HeldBy

LEMMA HeldOne ==
  ASSUME NEW c, NEW n \in Nat
  PROVE  IsFiniteSet({c} \X (1 .. n)) /\ Cardinality({c} \X (1 .. n)) = n
<1>1. IsFiniteSet(1 .. n) /\ Cardinality(1 .. n) = n BY FS_Interval
<1>2. IsFiniteSet({c}) /\ Cardinality({c}) = 1 BY FS_Singleton
<1>3. /\ IsFiniteSet({c} \X (1 .. n))
      /\ Cardinality({c} \X (1 .. n)) = Cardinality({c}) * Cardinality(1 .. n)
  BY <1>1, <1>2, FS_Product
<1> QED BY <1>1, <1>2, <1>3

LEMMA HeldFinite ==
  ASSUME NEW f \in [Conns -> Nat], NEW cs \in SUBSET Conns
  PROVE  IsFiniteSet(HeldBy(f, cs)) /\ Cardinality(HeldBy(f, cs)) \in Nat
<1> DEFINE F == [c \in cs |-> {c} \X (1 .. f[c])]
           U == {{c} \X (1 .. f[c]) : c \in cs}
<1>1. IsFiniteSet(cs) BY BodyMemoryAssumption, FS_Subset
<1>2. F \in Surjection(cs, U) BY DEF Surjection
<1>3. IsFiniteSet(U) BY <1>1, <1>2, FS_Surjection
<1>4. \A V \in U : IsFiniteSet(V)
  <2>1. ASSUME NEW V \in U PROVE IsFiniteSet(V)
    <3>1. PICK c \in cs : V = {c} \X (1 .. f[c]) OBVIOUS
    <3>2. f[c] \in Nat OBVIOUS
    <3> QED BY <3>1, <3>2, HeldOne
  <2> QED BY <2>1
<1>5. IsFiniteSet(UNION U) BY <1>3, <1>4, FS_UNION
<1> QED BY <1>5, FS_CardinalityType DEF HeldBy

LEMMA HeldSplit ==
  ASSUME NEW f \in [Conns -> Nat], NEW cs \in SUBSET Conns, NEW c \in cs
  PROVE  Cardinality(HeldBy(f, cs)) = Cardinality(HeldBy(f, cs \ {c})) + f[c]
<1> DEFINE A == HeldBy(f, cs \ {c})
           B == {c} \X (1 .. f[c])
<1>1. HeldBy(f, cs) = A \cup B
  <2>1. \A x : x \in B <=> \E i \in 1 .. f[c] : x = <<c, i>> OBVIOUS
  <2>2. \A x : x \in A <=> \E d \in cs \ {c} : \E i \in 1 .. f[d] : x = <<d, i>> BY HeldElement
  <2>3. \A x : x \in HeldBy(f, cs) <=> \E d \in cs : \E i \in 1 .. f[d] : x = <<d, i>> BY HeldElement
  <2> HIDE DEF A, B
  <2>4. \A x : x \in HeldBy(f, cs) <=> x \in A \/ x \in B BY <2>1, <2>2, <2>3
  <2> QED BY <2>4
<1>2. A \cap B = {} BY HeldElement
<1>3. IsFiniteSet(A) /\ Cardinality(A) \in Nat BY HeldFinite
<1>4. f[c] \in Nat OBVIOUS
<1>5. IsFiniteSet(B) /\ Cardinality(B) = f[c] BY <1>4, HeldOne
<1> HIDE DEF A, B
<1>6. Cardinality(A \cup B) = Cardinality(A) + Cardinality(B) - Cardinality(A \cap B)
  BY <1>3, <1>5, FS_Union
<1>7. Cardinality(A \cap B) = 0 BY <1>2, FS_EmptySet
<1>8. Cardinality(A \cup B) = Cardinality(A) + f[c] BY <1>3, <1>4, <1>5, <1>6, <1>7
<1> QED BY <1>1, <1>8 DEF A

LEMMA HeldSame ==
  ASSUME NEW f, NEW g, NEW cs, \A c \in cs : f[c] = g[c]
  PROVE  HeldBy(f, cs) = HeldBy(g, cs)
<1>1. {{c} \X (1 .. f[c]) : c \in cs} = {{c} \X (1 .. g[c]) : c \in cs} OBVIOUS
<1> QED BY <1>1 DEF HeldBy

LEMMA HeldLess ==
  ASSUME NEW f \in [Conns -> Nat], NEW cs \in SUBSET Conns, NEW ds \in SUBSET cs
  PROVE  Cardinality(HeldBy(f, ds)) <= Cardinality(HeldBy(f, cs))
<1>1. HeldBy(f, ds) \subseteq HeldBy(f, cs) BY HeldElement
<1> QED BY <1>1, HeldFinite, FS_Subset

\* One connection's charge changes, in f, to k.
HeldAfter(f, g, c, k) ==
  /\ g \in [Conns -> Nat]
  /\ \A cs \in SUBSET Conns :
       Cardinality(HeldBy(g, cs)) =
         IF c \in cs THEN Cardinality(HeldBy(f, cs)) - f[c] + k ELSE Cardinality(HeldBy(f, cs))

LEMMA HeldChange ==
  ASSUME NEW f \in [Conns -> Nat], NEW c \in Conns, NEW k \in Nat
  PROVE  HeldAfter(f, [f EXCEPT ![c] = k], c, k)
<1> DEFINE g == [f EXCEPT ![c] = k]
<1>1. g \in [Conns -> Nat] /\ g[c] = k /\ \A d \in Conns \ {c} : g[d] = f[d] OBVIOUS
<1> HIDE DEF g
<1>2. ASSUME NEW cs \in SUBSET Conns, c \notin cs
      PROVE  Cardinality(HeldBy(g, cs)) = Cardinality(HeldBy(f, cs))
  <2>1. \A d \in cs : g[d] = f[d] BY <1>1, <1>2
  <2>2. HeldBy(g, cs) = HeldBy(f, cs) BY <2>1, HeldSame
  <2> QED BY <2>2
<1>3. ASSUME NEW cs \in SUBSET Conns, c \in cs
      PROVE  Cardinality(HeldBy(g, cs)) = Cardinality(HeldBy(f, cs)) - f[c] + k
  <2>1. Cardinality(HeldBy(g, cs)) = Cardinality(HeldBy(g, cs \ {c})) + k BY <1>1, <1>3, HeldSplit
  <2>2. Cardinality(HeldBy(f, cs)) = Cardinality(HeldBy(f, cs \ {c})) + f[c] BY <1>3, HeldSplit
  <2>3. Cardinality(HeldBy(g, cs \ {c})) = Cardinality(HeldBy(f, cs \ {c}))
    <3>1. cs \ {c} \in SUBSET Conns /\ c \notin cs \ {c} OBVIOUS
    <3> QED BY <1>2, <3>1
  <2>4. Cardinality(HeldBy(f, cs \ {c})) \in Nat /\ f[c] \in Nat BY <1>3, HeldFinite
  <2> QED BY <2>1, <2>2, <2>3, <2>4
<1>4. HeldAfter(f, g, c, k) BY <1>1, <1>2, <1>3 DEF HeldAfter
<1> QED BY <1>4 DEF g

-----------------------------------------------------------------------------
(* The inductive invariant.                                                *)

TypeOK ==
  /\ mem_in_use \in Nat /\ mem_holders \in Nat /\ mem_blocked \in Nat
  /\ mem_list \in Seq(Conns) /\ batch \in Seq(Conns)
  /\ calls \subseteq Callers /\ mem_admitting \in Callers \cup {Null}
  /\ mem_exempt_active \in BOOLEAN /\ mem_admission_closed \in BOOLEAN
  /\ mem_admit_again \in BOOLEAN /\ locked \in BOOLEAN
  /\ mem_charged \in [Conns -> Nat] /\ mem_need \in [Conns -> Nat]
  /\ mem_exempt \in [Conns -> BOOLEAN]

\* The sets the counters count.
Holders == {c \in Conns : Holds(c)}
Blocked == {c \in Conns : Holds(c) /\ c \in Elems(mem_list)}
Unexempt == {c \in Conns : ~mem_exempt[c]}

CountInv ==
  /\ mem_holders = Cardinality(Holders)
  /\ mem_blocked = Cardinality(Blocked)
  /\ mem_in_use = Cardinality(HeldBy(mem_charged, Conns))

ExemptInv ==
  /\ mem_exempt_active <=> \E c \in Conns : mem_exempt[c]
  /\ \A c, d \in Conns : mem_exempt[c] /\ mem_exempt[d] => c = d
  /\ \A c \in Conns : mem_exempt[c] => c \notin Elems(mem_list)

LimitInv == Cardinality(HeldBy(mem_charged, Unexempt)) <= MemCap

\* wait_mutex is held by a loop that runs.
LoopInv == locked => mem_admitting # Null

IInv == /\ TypeOK /\ Distinct(mem_list) /\ CountInv /\ ExemptInv /\ LimitInv
        /\ LoopInv /\ NoLostAdmission

LEMMA WaitingElems == \A c : Waiting(c) <=> c \in Elems(mem_list)
BY DEF Waiting, Elems

LEMMA InvImplies == IInv => MemoryBounded
<1> SUFFICES ASSUME IInv PROVE MemoryBounded
  OBVIOUS
<1>1. \A cs : Held(cs) = HeldBy(mem_charged, cs) BY DEF Held, HeldBy
<1>2. Blocked = {c \in Conns : Holds(c) /\ Waiting(c)} BY WaitingElems DEF Blocked
<1>3. MemoryAccounted
  BY <1>2, WaitingElems DEF IInv, CountInv, ExemptInv, MemoryAccounted, Holders
<1> QED BY <1>1, <1>3 DEF IInv, CountInv, LimitInv, MemoryBounded, Unexempt

LEMMA SetsFinite ==
  /\ IsFiniteSet(Holders) /\ Cardinality(Holders) \in Nat
  /\ IsFiniteSet(Blocked) /\ Cardinality(Blocked) \in Nat
<1>1. Holders \subseteq Conns /\ Blocked \subseteq Conns BY DEF Holders, Blocked
<1> QED BY <1>1, BodyMemoryAssumption, FS_Subset, FS_CardinalityType

\* One connection's charge changes: the set of those who hold memory.
LEMMA HoldersChange ==
  ASSUME TypeOK, NEW c \in Conns, NEW k \in Nat, mem_charged' = [mem_charged EXCEPT ![c] = k]
  PROVE  Cardinality(Holders') = IF k > 0
                                 THEN IF Holds(c) THEN Cardinality(Holders) ELSE Cardinality(Holders) + 1
                                 ELSE IF Holds(c) THEN Cardinality(Holders) - 1 ELSE Cardinality(Holders)
<1>1. /\ mem_charged' \in [Conns -> Nat] /\ mem_charged'[c] = k
      /\ \A d \in Conns \ {c} : mem_charged'[d] = mem_charged[d]
  BY DEF TypeOK
<1>2. CASE k > 0
  <2>1. Holders' = Holders \cup {c} BY <1>1, <1>2 DEF Holders, Holds
  <2>2. c \in Holders <=> Holds(c) BY DEF Holders
  <2> QED BY <1>2, <2>1, <2>2, SetsFinite, FS_AddElement
<1>3. CASE ~(k > 0)
  <2>1. Holders' = Holders \ {c} BY <1>1, <1>3 DEF Holders, Holds
  <2>2. c \in Holders <=> Holds(c) BY DEF Holders
  <2> QED BY <1>3, <2>1, <2>2, SetsFinite, FS_RemoveElement
<1> QED BY <1>2, <1>3

\* A step that changes neither what is held nor who waits.
LEMMA SameBooks ==
  ASSUME IInv, UNCHANGED <<memCounts, mem_blocked, mem_list, mem_exempt_active, mem_exempt>>
  PROVE  Distinct(mem_list)' /\ CountInv' /\ ExemptInv' /\ LimitInv'
<1>1. Elems(mem_list)' = Elems(mem_list) /\ (Distinct(mem_list)' <=> Distinct(mem_list))
  BY DEF Elems, Distinct
<1>2. Holders' = Holders /\ Blocked' = Blocked /\ Unexempt' = Unexempt
  BY <1>1 DEF Holders, Blocked, Unexempt, Holds, memCounts
<1>3. CountInv' /\ LimitInv' BY <1>2 DEF IInv, CountInv, LimitInv, memCounts
<1>4. ExemptInv' BY <1>1 DEF IInv, ExemptInv
<1> QED BY <1>1, <1>3, <1>4 DEF IInv

\* What a grant of n to c does to the books.
LEMMA GrantBooks ==
  ASSUME TypeOK, CountInv, NEW c \in Conns, NEW n \in Nat, Grant(c, n)
  PROVE  /\ mem_charged' \in [Conns -> Nat] /\ mem_in_use' \in Nat /\ mem_holders' \in Nat
         /\ \A d \in Conns \ {c} : mem_charged'[d] = mem_charged[d]
         /\ mem_in_use' = Cardinality(HeldBy(mem_charged', Conns))
         /\ mem_holders' = Cardinality(Holders')
         /\ n <= MemCap => mem_in_use' = mem_in_use + n
         /\ mem_in_use' >= mem_in_use
         /\ \A cs \in SUBSET (Conns \ {c}) :
              Cardinality(HeldBy(mem_charged', cs)) = Cardinality(HeldBy(mem_charged, cs))
<1> DEFINE g == IF n > MemCap THEN MemCap ELSE n
           k == mem_charged[c] + g
<1>1. g \in Nat /\ mem_charged[c] \in Nat /\ k \in Nat /\ MemCap \in Nat
  BY BodyMemoryAssumption DEF TypeOK
<1>2. n <= MemCap => g = n BY <1>1
<1>3. /\ mem_charged' = [mem_charged EXCEPT ![c] = k]
      /\ mem_in_use' = mem_in_use + g
      /\ mem_holders' = IF g > 0 /\ ~Holds(c) THEN mem_holders + 1 ELSE mem_holders
  BY DEF Grant, TypeOK
<1>4. k > 0 <=> Holds(c) \/ g > 0 BY <1>1 DEF Holds
<1> HIDE DEF g, k
<1>5. /\ mem_charged' \in [Conns -> Nat]
      /\ \A cs \in SUBSET Conns :
           Cardinality(HeldBy(mem_charged', cs)) =
             IF c \in cs THEN Cardinality(HeldBy(mem_charged, cs)) - mem_charged[c] + k
             ELSE Cardinality(HeldBy(mem_charged, cs))
  <2>1. mem_charged \in [Conns -> Nat] BY DEF TypeOK
  <2>2. HeldAfter(mem_charged, mem_charged', c, k) BY <1>1, <1>3, <2>1, HeldChange, Zenon
  <2> QED BY <2>2 DEF HeldAfter
<1>6. mem_in_use' = Cardinality(HeldBy(mem_charged', Conns))
  <2>1. Cardinality(HeldBy(mem_charged', Conns)) = mem_in_use - mem_charged[c] + k
    BY <1>5 DEF CountInv
  <2> QED BY <1>1, <1>3, <2>1 DEF k, TypeOK
<1>7. mem_holders' = Cardinality(Holders')
  <2>1. Cardinality(Holders') = IF k > 0
                                 THEN IF Holds(c) THEN mem_holders ELSE mem_holders + 1
                                 ELSE IF Holds(c) THEN mem_holders - 1 ELSE mem_holders
    BY <1>1, <1>3, HoldersChange DEF CountInv
  <2> QED BY <1>1, <1>3, <1>4, <2>1 DEF TypeOK
<1>8. mem_in_use' \in Nat /\ mem_holders' \in Nat /\ mem_in_use' >= mem_in_use
  BY <1>1, <1>3 DEF TypeOK
<1>9. \A d \in Conns \ {c} : mem_charged'[d] = mem_charged[d] BY <1>3 DEF TypeOK
<1>10. \A cs \in SUBSET (Conns \ {c}) :
         Cardinality(HeldBy(mem_charged', cs)) = Cardinality(HeldBy(mem_charged, cs))
  BY <1>5
<1> QED BY <1>2, <1>3, <1>5, <1>6, <1>7, <1>8, <1>9, <1>10

LEMMA ReserveStep ==
  ASSUME IInv, NEW c \in Conns, NEW n \in Nat, ~Waiting(c), Reserve(c, n)
  PROVE  IInv'
<1>1. TypeOK /\ Distinct(mem_list) /\ CountInv /\ ExemptInv /\ LimitInv /\ NoLostAdmission BY DEF IInv
<1>2. Grant(c, n) /\ MayReserve(c, n) BY DEF Reserve
<1>3. UNCHANGED <<mem_blocked, mem_list, mem_exempt_active, mem_admission_closed, memLoop,
                  mem_exempt, mem_need, calls>>
  BY DEF Reserve
<1>4. /\ mem_charged' \in [Conns -> Nat] /\ mem_in_use' \in Nat /\ mem_holders' \in Nat
      /\ \A d \in Conns \ {c} : mem_charged'[d] = mem_charged[d]
      /\ mem_in_use' = Cardinality(HeldBy(mem_charged', Conns))
      /\ mem_holders' = Cardinality(Holders')
      /\ n <= MemCap => mem_in_use' = mem_in_use + n
      /\ mem_in_use' >= mem_in_use
      /\ \A cs \in SUBSET (Conns \ {c}) :
           Cardinality(HeldBy(mem_charged', cs)) = Cardinality(HeldBy(mem_charged, cs))
  BY <1>1, <1>2, GrantBooks
<1>5. TypeOK' BY <1>1, <1>3, <1>4 DEF TypeOK, memLoop
<1>6. Distinct(mem_list)' /\ ExemptInv' BY <1>1, <1>3 DEF Distinct, ExemptInv, Elems
<1>10. LoopInv' BY <1>3 DEF IInv, LoopInv, memLoop
<1>7. CountInv'
  <2>1. c \notin Elems(mem_list) BY WaitingElems
  <2>2. Blocked' = Blocked BY <1>3, <1>4, <2>1 DEF Blocked, Holds, Elems
  <2> QED BY <1>1, <1>3, <1>4, <2>2 DEF CountInv
<1>8. LimitInv'
  <2>1. Unexempt' = Unexempt /\ Unexempt \subseteq Conns BY <1>3 DEF Unexempt
  <2>2. CASE mem_exempt[c]
    <3>1. Unexempt \in SUBSET (Conns \ {c}) BY <2>2 DEF Unexempt
    <3> QED BY <1>1, <1>4, <2>1, <3>1 DEF LimitInv
  <2>3. CASE Fits(n)
    <3>1. mem_in_use' <= MemCap
      BY <1>1, <1>4, <2>3, BodyMemoryAssumption DEF Fits, TypeOK
    <3>2. Cardinality(HeldBy(mem_charged', Unexempt)) <= Cardinality(HeldBy(mem_charged', Conns))
      BY <1>4, <2>1, HeldLess
    <3>3. /\ Cardinality(HeldBy(mem_charged', Unexempt)) \in Nat
          /\ Cardinality(HeldBy(mem_charged', Conns)) \in Nat
      BY <1>4, <2>1, HeldFinite
    <3> QED BY <1>4, <2>1, <3>1, <3>2, <3>3, BodyMemoryAssumption DEF LimitInv
  <2> QED BY <1>2, <2>2, <2>3 DEF MayReserve
<1>9. NoLostAdmission'
  <2>1. SUFFICES ASSUME mem_admitting = Null, calls = {}, Admissible' PROVE FALSE
    BY <1>3 DEF NoLostAdmission, memLoop
  <2>2. ~Admissible BY <1>1, <2>1 DEF NoLostAdmission
  <2>3. mem_list # <<>> BY <1>3, <2>1 DEF Admissible
  <2>4. mem_exempt[c] /\ mem_exempt_active BY <1>1, <1>2, <2>3 DEF MayReserve, ExemptInv
  <2>5. Fits(mem_need[Head(mem_list)])' BY <1>3, <2>1, <2>4 DEF Admissible, Ahead
  <2>6. Fits(mem_need[Head(mem_list)])
    <3>1. Head(mem_list) \in Conns /\ mem_need[Head(mem_list)] \in Nat
      BY <1>1, <2>3, HeadTailProperties DEF TypeOK
    <3>2. mem_need' = mem_need /\ mem_list' = mem_list BY <1>3
    <3>3. mem_in_use' <= MemCap /\ mem_need[Head(mem_list)] <= MemCap - mem_in_use'
      BY <2>5, <3>2 DEF Fits
    <3>4. mem_in_use \in Nat /\ mem_in_use' \in Nat /\ mem_in_use <= mem_in_use' BY <1>1, <1>4 DEF TypeOK
    <3> QED BY <3>1, <3>3, <3>4, BodyMemoryAssumption DEF Fits
  <2> QED BY <1>3, <2>1, <2>2, <2>6 DEF Admissible
<1> QED BY <1>5, <1>6, <1>7, <1>8, <1>9, <1>10 DEF IInv

LEMMA EnqueueStep ==
  ASSUME IInv, NEW c \in Conns, NEW n \in Nat, NEW t \in Callers,
         ~Waiting(c), ~mem_exempt[c], Enqueue(t, c, n)
  PROVE  IInv'
<1>1. TypeOK /\ Distinct(mem_list) /\ CountInv /\ ExemptInv /\ LimitInv BY DEF IInv
<1>2. /\ mem_list' = Append(mem_list, c)
      /\ mem_need' = [mem_need EXCEPT ![c] = n]
      /\ mem_blocked' = IF Holds(c) THEN mem_blocked + 1 ELSE mem_blocked
      /\ calls' = calls \cup {t}
      /\ UNCHANGED <<memCounts, mem_exempt_active, mem_admission_closed, memLoop, mem_exempt>>
  BY DEF Enqueue
<1>3. c \notin Elems(mem_list) BY WaitingElems
<1>4. /\ mem_list' \in Seq(Conns) /\ Elems(mem_list') = Elems(mem_list) \cup {c}
      /\ Distinct(mem_list')
  BY <1>1, <1>2, <1>3, AppendElems DEF TypeOK
<1>5. TypeOK' BY <1>1, <1>2, <1>4 DEF TypeOK, memLoop, memCounts
<1>6. CountInv'
  <2>1. Holders' = Holders BY <1>2 DEF Holders, Holds, memCounts
  <2>2. Elems(mem_list)' = Elems(mem_list) \cup {c} BY <1>4 DEF Elems
  <2>3. Blocked' = IF Holds(c) THEN Blocked \cup {c} ELSE Blocked
    BY <1>2, <2>2 DEF Blocked, Holds, memCounts
  <2>4. c \notin Blocked BY <1>3 DEF Blocked
  <2>5. Cardinality(Blocked') = IF Holds(c) THEN Cardinality(Blocked) + 1 ELSE Cardinality(Blocked)
    BY <2>3, <2>4, SetsFinite, FS_AddElement
  <2> QED BY <1>1, <1>2, <2>1, <2>5 DEF CountInv, memCounts
<1>7. ExemptInv' BY <1>1, <1>2, <1>4 DEF ExemptInv, Elems
<1>8. LimitInv' BY <1>1, <1>2 DEF LimitInv, Unexempt, memCounts
<1>9. NoLostAdmission' BY <1>2 DEF NoLostAdmission
<1>10. Distinct(mem_list)' BY <1>4 DEF Distinct
<1>11. LoopInv' BY <1>2 DEF IInv, LoopInv, memLoop
<1> QED BY <1>5, <1>6, <1>7, <1>8, <1>9, <1>10, <1>11 DEF IInv

\* c's charge falls to k, and with it the books; whoever waits is told.
LEMMA LessBooks ==
  ASSUME TypeOK, CountInv, LimitInv, NEW c \in Conns, NEW k \in Nat, k <= mem_charged[c], ~Waiting(c),
         mem_charged' = [mem_charged EXCEPT ![c] = k],
         mem_in_use' = mem_in_use - (mem_charged[c] - k),
         mem_holders' = IF k = 0 /\ Holds(c) THEN mem_holders - 1 ELSE mem_holders,
         UNCHANGED <<mem_list, mem_blocked>>,
         \A d \in Conns \ {c} : mem_exempt'[d] = mem_exempt[d],
         mem_exempt'[c] = mem_exempt[c] \/ k = 0
  PROVE  /\ CountInv' /\ LimitInv'
         /\ mem_charged' \in [Conns -> Nat] /\ mem_in_use' \in Nat /\ mem_holders' \in Nat
<1>1. mem_charged[c] \in Nat /\ mem_in_use \in Nat /\ mem_holders \in Nat BY DEF TypeOK
<1>2. /\ mem_charged' \in [Conns -> Nat]
      /\ \A cs \in SUBSET Conns :
           Cardinality(HeldBy(mem_charged', cs)) =
             IF c \in cs THEN Cardinality(HeldBy(mem_charged, cs)) - mem_charged[c] + k
             ELSE Cardinality(HeldBy(mem_charged, cs))
  <2>1. mem_charged \in [Conns -> Nat] BY DEF TypeOK
  <2>2. HeldAfter(mem_charged, mem_charged', c, k) BY <2>1, HeldChange, Zenon
  <2> QED BY <2>2 DEF HeldAfter
<1>3. mem_in_use' = Cardinality(HeldBy(mem_charged', Conns)) /\ mem_in_use' \in Nat
  <2>1. Cardinality(HeldBy(mem_charged', Conns)) = mem_in_use - mem_charged[c] + k
    BY <1>2 DEF CountInv
  <2>2. Cardinality(HeldBy(mem_charged', Conns)) \in Nat BY <1>2, HeldFinite
  <2> QED BY <1>1, <2>1, <2>2
<1>4. mem_holders' = Cardinality(Holders') /\ mem_holders' \in Nat
  <2>1. Cardinality(Holders') = IF k > 0
                                 THEN IF Holds(c) THEN mem_holders ELSE mem_holders + 1
                                 ELSE IF Holds(c) THEN mem_holders - 1 ELSE mem_holders
    BY HoldersChange DEF CountInv
  <2>2. k > 0 => Holds(c) BY <1>1 DEF Holds
  <2>3. mem_holders' = Cardinality(Holders') BY <1>1, <2>1, <2>2
  <2>4. Holders' \subseteq Conns BY DEF Holders
  <2>5. IsFiniteSet(Holders') BY <2>4, BodyMemoryAssumption, FS_Subset
  <2> QED BY <2>3, <2>5, FS_CardinalityType
<1>5. mem_blocked' = Cardinality(Blocked')
  <2>1. c \notin Elems(mem_list) BY WaitingElems
  <2>2. \A d \in Conns \ {c} : mem_charged'[d] = mem_charged[d] BY DEF TypeOK
  <2>3. Blocked' = Blocked BY <2>1, <2>2 DEF Blocked, Holds, Elems
  <2> QED BY <2>3 DEF CountInv
<1>6. LimitInv'
  <2>1. Unexempt' \subseteq Conns /\ Unexempt \subseteq Conns BY DEF Unexempt
  <2>2. CASE mem_exempt'[c] = mem_exempt[c]
    <3>1. Unexempt' = Unexempt BY <2>2 DEF Unexempt
    <3>2. /\ Cardinality(HeldBy(mem_charged', Unexempt)) \in Nat
          /\ Cardinality(HeldBy(mem_charged, Unexempt)) \in Nat
      BY <1>2, <2>1, HeldFinite DEF TypeOK
    <3>3. Cardinality(HeldBy(mem_charged', Unexempt)) <= Cardinality(HeldBy(mem_charged, Unexempt))
      <4>1. Cardinality(HeldBy(mem_charged', Unexempt)) =
              IF c \in Unexempt THEN Cardinality(HeldBy(mem_charged, Unexempt)) - mem_charged[c] + k
              ELSE Cardinality(HeldBy(mem_charged, Unexempt))
        BY <1>2, <2>1
      <4> QED BY <1>1, <3>2, <4>1
    <3> QED BY <3>1, <3>2, <3>3, BodyMemoryAssumption DEF LimitInv
  <2>3. CASE mem_exempt'[c] # mem_exempt[c] /\ k = 0
    <3>1. Unexempt' \ {c} = Unexempt \ {c} BY DEF Unexempt
    <3>2. Cardinality(HeldBy(mem_charged', Unexempt')) = Cardinality(HeldBy(mem_charged', Unexempt \ {c}))
      <4>1. CASE c \in Unexempt'
        <5>1. mem_charged'[c] = 0 BY <2>3 DEF TypeOK
        <5>2. Cardinality(HeldBy(mem_charged', Unexempt')) = Cardinality(HeldBy(mem_charged', Unexempt' \ {c})) + 0
          BY <1>2, <2>1, <4>1, <5>1, HeldSplit
        <5>3. Cardinality(HeldBy(mem_charged', Unexempt' \ {c})) \in Nat BY <1>2, <2>1, HeldFinite
        <5>4. HeldBy(mem_charged', Unexempt' \ {c}) = HeldBy(mem_charged', Unexempt \ {c}) BY <3>1, Zenon
        <5>5. Cardinality(HeldBy(mem_charged', Unexempt')) = Cardinality(HeldBy(mem_charged', Unexempt' \ {c}))
          BY <5>2, <5>3
        <5> QED BY <5>4, <5>5, Zenon
      <4>2. CASE c \notin Unexempt'
        <5>1. Unexempt' = Unexempt \ {c} BY <3>1, <4>2
        <5> QED BY <5>1
      <4> QED BY <4>1, <4>2
    <3>3. Cardinality(HeldBy(mem_charged', Unexempt \ {c})) = Cardinality(HeldBy(mem_charged, Unexempt \ {c}))
      <4>1. Unexempt \ {c} \in SUBSET Conns /\ c \notin Unexempt \ {c} BY <2>1
      <4> QED BY <1>2, <4>1
    <3>4. Cardinality(HeldBy(mem_charged, Unexempt \ {c})) <= Cardinality(HeldBy(mem_charged, Unexempt))
      BY <2>1, HeldLess DEF TypeOK
    <3>5. /\ Cardinality(HeldBy(mem_charged, Unexempt \ {c})) \in Nat
          /\ Cardinality(HeldBy(mem_charged, Unexempt)) \in Nat
      <4>1. Unexempt \ {c} \in SUBSET Conns BY <2>1
      <4> QED BY <2>1, <4>1, HeldFinite DEF TypeOK
    <3> QED BY <3>2, <3>3, <3>4, <3>5, BodyMemoryAssumption DEF LimitInv
  <2> QED BY <2>2, <2>3
<1> QED BY <1>2, <1>3, <1>4, <1>5, <1>6 DEF CountInv

LEMMA ReleaseStep ==
  ASSUME IInv, NEW c \in Conns, NEW t \in Callers, ~Waiting(c), Release(t, c)
  PROVE  IInv'
<1>1. TypeOK /\ Distinct(mem_list) /\ CountInv /\ ExemptInv /\ LimitInv /\ LoopInv /\ NoLostAdmission
  BY DEF IInv
<1>2. /\ mem_in_use' = mem_in_use - mem_charged[c]
      /\ mem_holders' = IF Holds(c) THEN mem_holders - 1 ELSE mem_holders
      /\ mem_charged' = [mem_charged EXCEPT ![c] = 0]
      /\ mem_exempt' = [mem_exempt EXCEPT ![c] = FALSE]
      /\ mem_exempt_active' = (mem_exempt_active /\ ~mem_exempt[c])
      /\ calls' = IF mem_list # <<>> THEN calls \cup {t} ELSE calls
      /\ UNCHANGED <<mem_blocked, mem_list, mem_admission_closed, memLoop, mem_need>>
  BY DEF Release
<1>3. mem_charged[c] \in Nat /\ mem_in_use \in Nat /\ 0 <= mem_charged[c] BY <1>1 DEF TypeOK
<1>4. mem_in_use' = mem_in_use - (mem_charged[c] - 0) BY <1>2, <1>3
<1>5. \A d \in Conns \ {c} : mem_exempt'[d] = mem_exempt[d] BY <1>1, <1>2 DEF TypeOK
<1>6. mem_exempt'[c] = FALSE BY <1>1, <1>2 DEF TypeOK
<1>7. /\ CountInv' /\ LimitInv'
      /\ mem_charged' \in [Conns -> Nat] /\ mem_in_use' \in Nat /\ mem_holders' \in Nat
  BY <1>1, <1>2, <1>3, <1>4, <1>5, LessBooks
<1>8. TypeOK' BY <1>1, <1>2, <1>7 DEF TypeOK, memLoop
<1>9. Distinct(mem_list)' /\ LoopInv' BY <1>1, <1>2 DEF Distinct, LoopInv, memLoop
<1>10. ExemptInv' BY <1>1, <1>2, <1>5, <1>6 DEF ExemptInv, Elems
<1>11. NoLostAdmission' BY <1>2 DEF NoLostAdmission, Admissible
<1> QED BY <1>7, <1>8, <1>9, <1>10, <1>11 DEF IInv

LEMMA TrimStep ==
  ASSUME IInv, NEW c \in Conns, NEW t \in Callers, NEW n \in Nat, ~Waiting(c), Trim(t, c, n)
  PROVE  IInv'
<1>1. TypeOK /\ Distinct(mem_list) /\ CountInv /\ ExemptInv /\ LimitInv /\ LoopInv /\ NoLostAdmission
  BY DEF IInv
<1>2. /\ mem_charged[c] > n
      /\ mem_in_use' = mem_in_use - (mem_charged[c] - n)
      /\ mem_holders' = IF n = 0 THEN mem_holders - 1 ELSE mem_holders
      /\ mem_charged' = [mem_charged EXCEPT ![c] = n]
      /\ calls' = IF mem_list # <<>> THEN calls \cup {t} ELSE calls
      /\ UNCHANGED <<mem_blocked, mem_list, mem_exempt_active, mem_admission_closed, memLoop,
                     mem_exempt, mem_need>>
  BY DEF Trim
<1>3. mem_charged[c] \in Nat /\ n <= mem_charged[c] /\ Holds(c) BY <1>1, <1>2 DEF TypeOK, Holds
<1>4. mem_holders' = IF n = 0 /\ Holds(c) THEN mem_holders - 1 ELSE mem_holders BY <1>2, <1>3
<1>5. /\ CountInv' /\ LimitInv'
      /\ mem_charged' \in [Conns -> Nat] /\ mem_in_use' \in Nat /\ mem_holders' \in Nat
  BY <1>1, <1>2, <1>3, <1>4, LessBooks
<1>6. TypeOK' BY <1>1, <1>2, <1>5 DEF TypeOK, memLoop
<1>7. Distinct(mem_list)' /\ LoopInv' /\ ExemptInv'
  BY <1>1, <1>2 DEF Distinct, LoopInv, memLoop, ExemptInv, Elems
<1>8. NoLostAdmission' BY <1>2 DEF NoLostAdmission, Admissible
<1> QED BY <1>5, <1>6, <1>7, <1>8 DEF IInv

\* Connections leave the list without being admitted.
LEMMA UnlinkBooks ==
  ASSUME IInv, NEW cs \in SUBSET Conns, \A c \in cs : Waiting(c), Unlink(cs),
         UNCHANGED <<memCounts, mem_exempt_active, mem_exempt>>
  PROVE  /\ mem_list' \in Seq(Conns) /\ mem_blocked' \in Nat
         /\ Distinct(mem_list)' /\ CountInv' /\ ExemptInv' /\ LimitInv'
<1>1. TypeOK /\ Distinct(mem_list) /\ CountInv /\ ExemptInv /\ LimitInv BY DEF IInv
<1>2. /\ mem_list' = Unlinked(mem_list, cs)
      /\ mem_blocked' = mem_blocked - Cardinality({c \in cs : Holds(c)})
  BY DEF Unlink
<1>3. /\ mem_list' \in Seq(Conns) /\ Distinct(mem_list') /\ Elems(mem_list') = Elems(mem_list) \ cs
  BY <1>1, <1>2, UnlinkedProperties DEF TypeOK
<1>4. Elems(mem_list)' = Elems(mem_list) \ cs /\ Distinct(mem_list)' BY <1>3 DEF Elems, Distinct
<1>5. Holders' = Holders BY DEF Holders, Holds, memCounts
<1>6. mem_blocked' = Cardinality(Blocked') /\ mem_blocked' \in Nat
  <2>1. Blocked' = Blocked \ cs BY <1>4 DEF Blocked, Holds, memCounts
  <2>2. Blocked \cap cs = {c \in cs : Holds(c)} BY WaitingElems DEF Blocked
  <2>3. /\ IsFiniteSet(Blocked \ cs)
        /\ Cardinality(Blocked \ cs) = Cardinality(Blocked) - Cardinality(Blocked \cap cs)
    BY SetsFinite, FS_Difference
  <2>4. Cardinality(Blocked \ cs) \in Nat BY <2>3, FS_CardinalityType
  <2> QED BY <1>1, <1>2, <2>1, <2>2, <2>3, <2>4 DEF CountInv
<1>7. CountInv' BY <1>1, <1>5, <1>6 DEF CountInv, memCounts
<1>8. ExemptInv' BY <1>1, <1>4 DEF ExemptInv
<1>9. LimitInv' BY <1>1 DEF LimitInv, Unexempt, memCounts
<1> QED BY <1>3, <1>4, <1>6, <1>7, <1>8, <1>9

LEMMA ExpireStep ==
  ASSUME IInv, NEW cs \in SUBSET Conns, NEW t \in Callers, ExpireWaiters(t, cs)
  PROVE  IInv'
<1>1. TypeOK /\ LoopInv /\ NoLostAdmission BY DEF IInv
<1>2. /\ \A c \in cs : Waiting(c)
      /\ Unlink(cs)
      /\ calls' = IF cs # {} THEN calls \cup {t} ELSE calls
      /\ UNCHANGED <<memCounts, mem_exempt_active, mem_exempt>>
      /\ UNCHANGED <<mem_admission_closed, memLoop, mem_need>>
  BY DEF ExpireWaiters
<1>3. /\ mem_list' \in Seq(Conns) /\ mem_blocked' \in Nat
      /\ Distinct(mem_list)' /\ CountInv' /\ ExemptInv' /\ LimitInv'
  BY <1>2, UnlinkBooks
<1>4. TypeOK' BY <1>1, <1>2, <1>3 DEF TypeOK, memLoop, memCounts
<1>5. LoopInv' BY <1>1, <1>2 DEF LoopInv, memLoop
<1>6. NoLostAdmission'
  <2>1. CASE cs # {} BY <1>2, <2>1 DEF NoLostAdmission
  <2>2. CASE cs = {}
    <3>1. mem_list' = mem_list BY <1>1, <1>2, <2>2, UnlinkedNone DEF Unlink, TypeOK
    <3>2. {c \in cs : Holds(c)} = {} BY <2>2
    <3>5. Cardinality({c \in cs : Holds(c)}) = 0 BY <3>2, FS_EmptySet
    <3>3. mem_blocked' = mem_blocked BY <1>1, <1>2, <3>5 DEF Unlink, TypeOK
    <3>4. Admissible' <=> Admissible
      BY <1>2, <3>1, <3>3 DEF Admissible, Fits, Ahead, memCounts
    <3> QED BY <1>1, <1>2, <2>2, <3>4 DEF NoLostAdmission, memLoop
  <2> QED BY <2>1, <2>2
<1> QED BY <1>3, <1>4, <1>5, <1>6 DEF IInv

LEMMA FlushStep ==
  ASSUME IInv, mem_admission_closed, FlushWaiters
  PROVE  IInv'
<1>1. TypeOK /\ LoopInv BY DEF IInv
<1> DEFINE cs == {c \in Conns : Waiting(c)}
<1>2. /\ cs \in SUBSET Conns /\ \A c \in cs : Waiting(c)
      /\ Unlink(cs)
      /\ UNCHANGED <<memCounts, mem_exempt_active, mem_exempt>>
      /\ UNCHANGED <<mem_admission_closed, memLoop, mem_need, calls>>
  BY DEF FlushWaiters
<1> HIDE DEF cs
<1>3. /\ mem_list' \in Seq(Conns) /\ mem_blocked' \in Nat
      /\ Distinct(mem_list)' /\ CountInv' /\ ExemptInv' /\ LimitInv'
  BY <1>2, UnlinkBooks
<1>4. TypeOK' BY <1>1, <1>2, <1>3 DEF TypeOK, memLoop, memCounts
<1>5. LoopInv' /\ NoLostAdmission'
  BY <1>1, <1>2 DEF LoopInv, memLoop, NoLostAdmission, Admissible
<1> QED BY <1>3, <1>4, <1>5 DEF IInv

LEMMA AdmitHeadStep ==
  ASSUME IInv, AdmitHead
  PROVE  IInv'
<1> DEFINE c == Head(mem_list)
<1>1. TypeOK /\ Distinct(mem_list) /\ CountInv /\ ExemptInv /\ LimitInv /\ LoopInv BY DEF IInv
<1>2. /\ locked /\ mem_list # <<>> /\ (Fits(mem_need[c]) \/ Ahead(c))
      /\ mem_list' = Tail(mem_list)
      /\ mem_blocked' = IF Holds(c) THEN mem_blocked - 1 ELSE mem_blocked
      /\ Grant(c, mem_need[c])
      /\ mem_exempt' = [mem_exempt EXCEPT ![c] = @ \/ Ahead(c)]
      /\ mem_exempt_active' = (mem_exempt_active \/ Ahead(c))
      /\ batch' = Append(batch, c)
      /\ UNCHANGED <<mem_admission_closed, mem_admitting, mem_admit_again, locked, mem_need, calls>>
  BY DEF AdmitHead, Admissible
<1>3. /\ c \in Conns /\ c \in Elems(mem_list)
      /\ mem_list' \in Seq(Conns) /\ Distinct(mem_list') /\ Elems(mem_list') = Elems(mem_list) \ {c}
  BY <1>1, <1>2, TailElems DEF TypeOK
<1>4. mem_need[c] \in Nat BY <1>1, <1>3 DEF TypeOK
<1> HIDE DEF c
<1>5. /\ mem_charged' \in [Conns -> Nat] /\ mem_in_use' \in Nat /\ mem_holders' \in Nat
      /\ \A d \in Conns \ {c} : mem_charged'[d] = mem_charged[d]
      /\ mem_in_use' = Cardinality(HeldBy(mem_charged', Conns))
      /\ mem_holders' = Cardinality(Holders')
      /\ mem_need[c] <= MemCap => mem_in_use' = mem_in_use + mem_need[c]
      /\ \A cs \in SUBSET (Conns \ {c}) :
           Cardinality(HeldBy(mem_charged', cs)) = Cardinality(HeldBy(mem_charged, cs))
  BY <1>1, <1>2, <1>3, <1>4, GrantBooks
<1>6. Elems(mem_list)' = Elems(mem_list) \ {c} /\ Distinct(mem_list)' BY <1>3 DEF Elems, Distinct
<1>7. mem_blocked' = Cardinality(Blocked') /\ mem_blocked' \in Nat
  <2>1. Blocked' = Blocked \ {c} BY <1>5, <1>6 DEF Blocked, Holds
  <2>2. c \in Blocked <=> Holds(c) BY <1>3 DEF Blocked
  <2>3. /\ IsFiniteSet(Blocked \ {c})
        /\ Cardinality(Blocked \ {c}) = IF c \in Blocked THEN Cardinality(Blocked) - 1 ELSE Cardinality(Blocked)
    BY SetsFinite, FS_RemoveElement
  <2>4. Cardinality(Blocked \ {c}) \in Nat BY <2>3, FS_CardinalityType
  <2> QED BY <1>1, <1>2, <2>1, <2>2, <2>3, <2>4 DEF CountInv
<1>8. /\ mem_exempt' \in [Conns -> BOOLEAN] /\ mem_exempt'[c] = (mem_exempt[c] \/ Ahead(c))
      /\ \A d \in Conns \ {c} : mem_exempt'[d] = mem_exempt[d]
  BY <1>1, <1>2, <1>3 DEF TypeOK, Ahead
<1>9. TypeOK'
  <2>1. batch' \in Seq(Conns) BY <1>1, <1>2, <1>3, AppendProperties DEF TypeOK
  <2>2. mem_exempt_active' \in BOOLEAN BY <1>2 DEF Ahead
  <2> QED BY <1>1, <1>2, <1>3, <1>5, <1>7, <1>8, <2>1, <2>2 DEF TypeOK
<1>10. CountInv' BY <1>5, <1>7 DEF CountInv
<1>11. ExemptInv'
  <2>1. Ahead(c) => \A d \in Conns : ~mem_exempt[d] BY <1>1 DEF ExemptInv, Ahead
  <2>2. ~mem_exempt[c] BY <1>1, <1>3 DEF ExemptInv
  <2> QED BY <1>1, <1>2, <1>3, <1>6, <1>8, <2>1, <2>2 DEF ExemptInv
<1>12. LimitInv'
  <2>1. Unexempt \subseteq Conns /\ Unexempt' \subseteq Conns BY DEF Unexempt
  <2>2. CASE Ahead(c)
    <3>1. Unexempt' \in SUBSET (Conns \ {c}) /\ Unexempt' \subseteq Unexempt
      BY <1>8, <2>2 DEF Unexempt
    <3>2. Cardinality(HeldBy(mem_charged', Unexempt')) = Cardinality(HeldBy(mem_charged, Unexempt'))
      BY <1>5, <3>1
    <3>3. Cardinality(HeldBy(mem_charged, Unexempt')) <= Cardinality(HeldBy(mem_charged, Unexempt))
      BY <1>1, <2>1, <3>1, HeldLess DEF TypeOK
    <3>4. /\ Cardinality(HeldBy(mem_charged, Unexempt')) \in Nat
          /\ Cardinality(HeldBy(mem_charged, Unexempt)) \in Nat
      BY <1>1, <2>1, HeldFinite DEF TypeOK
    <3> QED BY <1>1, <3>2, <3>3, <3>4, BodyMemoryAssumption DEF LimitInv
  <2>3. CASE Fits(mem_need[c])
    <3>1. mem_in_use' <= MemCap
      BY <1>1, <1>4, <1>5, <2>3, BodyMemoryAssumption DEF Fits, TypeOK
    <3>2. Cardinality(HeldBy(mem_charged', Unexempt')) <= Cardinality(HeldBy(mem_charged', Conns))
      BY <1>5, <2>1, HeldLess
    <3>3. /\ Cardinality(HeldBy(mem_charged', Unexempt')) \in Nat
          /\ Cardinality(HeldBy(mem_charged', Conns)) \in Nat
      BY <1>5, <2>1, HeldFinite
    <3> QED BY <1>5, <3>1, <3>2, <3>3, BodyMemoryAssumption DEF LimitInv
  <2> QED BY <1>2, <2>2, <2>3
<1>13. LoopInv' /\ NoLostAdmission' BY <1>1, <1>2 DEF LoopInv, NoLostAdmission
<1> QED BY <1>6, <1>9, <1>10, <1>11, <1>12, <1>13 DEF IInv

\* The rest of _mem_admit changes no books, and ends only when it found nobody.
LEMMA LoopStep ==
  ASSUME IInv, NEW t, Admit(t) \/ AdmitLooked \/ AdmitAgain \/ TakeBatch \/ CloseAdmission
  PROVE  IInv'
<1>1. TypeOK /\ LoopInv /\ NoLostAdmission BY DEF IInv
<1>2. /\ UNCHANGED <<memCounts, mem_blocked, mem_list, mem_exempt_active, mem_exempt>>
      /\ UNCHANGED mem_need
  BY DEF Admit, AdmitLooked, AdmitAgain, TakeBatch, CloseAdmission
<1>3. Distinct(mem_list)' /\ CountInv' /\ ExemptInv' /\ LimitInv' BY <1>2, SameBooks
<1>5. CASE Admit(t)
  <2>1. t \in Callers /\ t # Null BY <1>1, <1>5, BodyMemoryAssumption DEF Admit, TypeOK
  <2>2. TypeOK' BY <1>1, <1>2, <1>5, <2>1 DEF Admit, TypeOK, memCounts
  <2>3. LoopInv' /\ NoLostAdmission' BY <1>1, <1>5, <2>1 DEF Admit, LoopInv, NoLostAdmission
  <2> QED BY <1>3, <2>2, <2>3 DEF IInv
<1>6. CASE AdmitLooked
  <2>1. TypeOK' BY <1>1, <1>2, <1>6 DEF AdmitLooked, TypeOK, memCounts
  <2>2. ~Admissible' BY <1>2, <1>6 DEF AdmitLooked, Admissible, Fits, Ahead, memCounts
  <2>3. LoopInv' /\ NoLostAdmission' BY <1>6, <2>2 DEF AdmitLooked, LoopInv, NoLostAdmission
  <2> QED BY <1>3, <2>1, <2>3 DEF IInv
<1>7. CASE AdmitAgain
  <2>1. TypeOK' BY <1>1, <1>2, <1>7 DEF AdmitAgain, TypeOK, memCounts
  <2>2. LoopInv' /\ NoLostAdmission' BY <1>7 DEF AdmitAgain, LoopInv, NoLostAdmission
  <2> QED BY <1>3, <2>1, <2>2 DEF IInv
<1>8. CASE TakeBatch
  <2>1. batch' \in Seq(Conns) BY <1>1, <1>8, HeadTailProperties DEF TakeBatch, TypeOK
  <2>2. TypeOK' BY <1>1, <1>2, <1>8, <2>1 DEF TakeBatch, TypeOK, memCounts
  <2>3. LoopInv' /\ NoLostAdmission' BY <1>8 DEF TakeBatch, LoopInv, NoLostAdmission
  <2> QED BY <1>3, <2>2, <2>3 DEF IInv
<1>9. CASE CloseAdmission
  <2>1. TypeOK' BY <1>1, <1>2, <1>9 DEF CloseAdmission, TypeOK, memCounts, memLoop
  <2>2. LoopInv' /\ NoLostAdmission'
    BY <1>1, <1>9 DEF CloseAdmission, LoopInv, NoLostAdmission, Admissible, memLoop
  <2> QED BY <1>3, <2>1, <2>2 DEF IInv
<1> QED BY <1>5, <1>6, <1>7, <1>8, <1>9

LEMMA InvInit == MemInit => IInv
<1> SUFFICES ASSUME MemInit PROVE IInv
  BY DEF MemInit
<1>1. <<>> \in Seq(Conns) /\ Len(<<>>) = 0 BY EmptySeq
<1>2. TypeOK /\ LoopInv /\ NoLostAdmission
  BY <1>1 DEF MemInit, TypeOK, LoopInv, NoLostAdmission, Admissible
<1>3. Elems(mem_list) = {} /\ Distinct(mem_list) BY <1>1 DEF MemInit, Elems, Distinct
<1>4. ExemptInv BY <1>3 DEF MemInit, ExemptInv
<1>5. Holders = {} /\ Blocked = {} BY DEF MemInit, Holders, Blocked, Holds
<1>6. \A cs \in SUBSET Conns : HeldBy(mem_charged, cs) = {}
  <2>1. \A c \in Conns : 1 .. mem_charged[c] = {} BY DEF MemInit
  <2> QED BY <2>1 DEF HeldBy
<1>7. HeldBy(mem_charged, Conns) = {} /\ HeldBy(mem_charged, Unexempt) = {}
  <2>1. Conns \in SUBSET Conns /\ Unexempt \in SUBSET Conns BY DEF Unexempt
  <2> QED BY <1>6, <2>1, Zenon
<1>8. Cardinality({}) = 0 BY FS_EmptySet
<1>9. /\ Cardinality(Holders) = 0 /\ Cardinality(Blocked) = 0
      /\ Cardinality(HeldBy(mem_charged, Conns)) = 0 /\ Cardinality(HeldBy(mem_charged, Unexempt)) = 0
  BY <1>5, <1>7, <1>8, Zenon
<1>10. CountInv /\ LimitInv BY <1>9, BodyMemoryAssumption DEF MemInit, CountInv, LimitInv
<1> QED BY <1>2, <1>3, <1>4, <1>10 DEF IInv

LEMMA InvNext == IInv /\ [MemNext]_memVars => IInv'
<1>1. SUFFICES ASSUME IInv, [MemNext]_memVars PROVE IInv'
  OBVIOUS
<1>2. ASSUME NEW c \in Conns, NEW t \in Callers, NEW n \in 0 .. MaxNeed, ~Waiting(c),
             Reserve(c, n) \/ (~mem_exempt[c] /\ Enqueue(t, c, n)) \/ Release(t, c) \/ Trim(t, c, n)
      PROVE  IInv'
  <2>1. n \in Nat BY BodyMemoryAssumption
  <2> QED BY <1>1, <1>2, <2>1, ReserveStep, EnqueueStep, ReleaseStep, TrimStep
<1>3. ASSUME NEW t \in Callers, Admit(t) \/ \E cs \in SUBSET Conns : ExpireWaiters(t, cs)
      PROVE  IInv'
  BY <1>1, <1>3, LoopStep, ExpireStep
<1>4. CASE mem_admission_closed /\ FlushWaiters BY <1>1, <1>4, FlushStep
<1>5. CASE AdmitHead BY <1>1, <1>5, AdmitHeadStep
<1>6. CASE CloseAdmission \/ AdmitLooked \/ AdmitAgain \/ TakeBatch BY <1>1, <1>6, LoopStep
<1>7. CASE UNCHANGED memVars
  <2>1. Distinct(mem_list)' /\ CountInv' /\ ExemptInv' /\ LimitInv'
    BY <1>1, <1>7, SameBooks DEF memVars
  <2>2. TypeOK' /\ LoopInv' BY <1>1, <1>7 DEF IInv, TypeOK, LoopInv, memVars, memCounts, memLoop
  <2>3. NoLostAdmission'
    BY <1>1, <1>7 DEF IInv, NoLostAdmission, Admissible, Fits, Ahead, memVars, memCounts, memLoop
  <2> QED BY <2>1, <2>2, <2>3 DEF IInv
<1> QED BY <1>1, <1>2, <1>3, <1>4, <1>5, <1>6, <1>7 DEF MemNext

LEMMA InvAlways == MemSpec => []IInv
<1> QED BY InvInit, InvNext, PTL DEF MemSpec

-----------------------------------------------------------------------------
\* The counters of the body memory are what the connections hold, and what is
\* held under the limit, the one exempt connection's bytes aside, is never above
\* it: for every limit, every number of connections and every interleaving of
\* reservations, releases and admissions.
THEOREM MemoryIsBounded == MemSpec => []MemoryBounded
<1> QED BY InvAlways, InvImplies, PTL

\* Nobody who could be admitted is left behind: when no admission loop runs and
\* nobody is about to start one, the head of the list neither fits nor may go
\* ahead.
THEOREM NoAdmissionIsLost == MemSpec => []NoLostAdmission
<1>1. IInv => NoLostAdmission BY DEF IInv
<1> QED BY <1>1, InvAlways, PTL
-----------------------------------------------------------------------------
(* The server.                                                             *)

\* Where a thread has a connection, and where it has none.
ConnPcs == {"close", "drop", "deref", "arm", "list", "linger_step", "pump", "pause", "count", "gate", "enqueue",
            "submit", "reject_pool", "reject_submit", "reject", "linger", "worker", "resume", "body", "read",
            "handler", "answer", "tail"}
AfterPcs == {"ends", "queued"}
ReactorPcs == {"rest", "returned", "listener", "accept", "unpin"}
SweepPcs == {"rest", "scan", "sweeping", "waits_over"}
DestroyPcs == {"rest", "stop", "stopping", "drain", "close_idle", "wait", "wait_again", "close_all", "flush", "poll",
               "pools", "join_workers", "join_rejecters", "pins", "done"}
Pcs == ConnPcs \cup AfterPcs \cup ReactorPcs \cup SweepPcs \cup DestroyPcs \cup {"claim"}

Parks == {"none", "body", "write", "linger", "memstart", "membody"}
Thens == Parks \cup {"deref", "answer", "close", "idle", "start", "reject", "resume", "carry", "admitted", "pump"}
AfterDrop == {"deref", "write", "linger", "answer", "close"}

RegNos == 0 .. MaxRegs
Sizes == 0 .. MaxBody
ThRec == [pc : Pcs, c : Conns \cup {Null}, ev : (Conns \cup {Null, "listener"}) \X Nat,
          rel : Int, then : Thens, home : Pcs, pool : BOOLEAN]
ConnRec == [life : {"none", "open", "closed", "freed"}, refs : Int, list : {"none", "idle", "parked"},
            div : BOOLEAN, park : Parks, reg : RegNos, size : Sizes, declared : BOOLEAN, len : Int, cap : Sizes,
            wp : {"none", "response", "interim", "reject"}, keep : BOOLEAN, shut : BOOLEAN, reqs : Int]
SrvRec == [life : {"up", "freed"}, refs : Int, listening : BOOLEAN, lreg : {"on", "removed", "gone"},
           lpins : Int, spins : Int, swept : BOOLEAN, in_flight : Int, draining : BOOLEAN, mutex : BOOLEAN,
           worker_pool : {"up", "detached", "shut"}, reject_pool : {"up", "detached", "shut"}]
RegStates == {"none", "on", "paused", "removed", "gone"}
Kinds == {"query", "close", "pause"}

SrvTypeOK ==
  /\ scenario \in Scenarios /\ srv \in SrvRec
  /\ conn \in [Conns -> ConnRec] /\ th \in [Threads -> ThRec]
  /\ regs \in [Conns -> [1 .. MaxRegs -> RegStates]]
  /\ tasks \in Seq({"worker", "resume"} \X Conns) /\ rejects \in Seq(Conns)
  /\ todo \in [{"sweep", "destroyer"} -> (SUBSET Conns) \cup SUBSET (Conns \X Kinds)]
  /\ todo["sweep"] \subseteq Conns \X Kinds /\ todo["destroyer"] \subseteq Conns

\* Where a thread is, and where it goes back to.
IdlePcs(t) == IF t \in Reactors THEN ReactorPcs
              ELSE IF t = "sweep" THEN SweepPcs
              ELSE IF t = "destroyer" THEN DestroyPcs ELSE {"rest"}
Homes(t) == IF t \in Reactors THEN {"returned", "accept"}
            ELSE IF t = "sweep" THEN {"sweeping", "waits_over"}
            ELSE IF t = "destroyer" THEN {"close_idle", "close_all", "flush"} ELSE {"rest"}

\* What then says at pc.
ThenOK(pc, then) ==
  /\ pc = "drop" => then \in AfterDrop
  /\ pc = "arm" => then \in Parks \cup {"idle"}
  /\ pc = "enqueue" => then \in {"memstart", "membody"}

PcInv ==
  \A t \in Threads :
    /\ \/ th[t].pc \in ConnPcs /\ th[t].c \in Conns
       \/ th[t].pc = "claim" /\ th[t].c \in Conns /\ t \in Reactors
       \/ th[t].pc \in IdlePcs(t) \cup AfterPcs /\ th[t].c = Null
    /\ th[t].pc \notin IdlePcs(t) => th[t].home \in Homes(t)
    /\ ThenOK(th[t].pc, th[t].then)
    /\ th[t].pc = "claim" => th[t].then \in {"pump", "close"}

-----------------------------------------------------------------------------
(* The places a connection can be in: in a thread's hands, or in a spot.   *)

InHand == [t \in Threads |-> IF th[t].pc \in ConnPcs THEN {th[t].c} ELSE {}]
SpotNames == {"list", "memory", "batch", "tasks", "rejects", "sweep", "destroyer"}
TaskConns == {tasks[i][2] : i \in 1 .. Len(tasks)}
SweepConns == {late[1] : late \in todo["sweep"]}
Spots == [s \in SpotNames |->
            IF s = "list" THEN {c \in Conns : conn[c].list # "none"}
            ELSE IF s = "memory" THEN Elems(mem_list)
            ELSE IF s = "batch" THEN Elems(batch)
            ELSE IF s = "tasks" THEN TaskConns
            ELSE IF s = "rejects" THEN Elems(rejects)
            ELSE IF s = "sweep" THEN SweepConns ELSE todo["destroyer"]]
Open == {c \in Conns : conn[c].life = "open"}

\* No two places share a connection, and together they have the open ones.
Apart(H, P, O) ==
  /\ \A t, u \in Threads : t # u => H[t] \cap H[u] = {}
  /\ \A t \in Threads, s \in SpotNames : H[t] \cap P[s] = {}
  /\ \A r, s \in SpotNames : r # s => P[r] \cap P[s] = {}
  /\ \A c : c \in O <=> ((\E t \in Threads : c \in H[t]) \/ (\E s \in SpotNames : c \in P[s]))

\* Nor does a place have one twice.
OnceInv ==
  /\ Distinct(batch) /\ Distinct(rejects)
  /\ \A i, j \in 1 .. Len(tasks) : tasks[i][2] = tasks[j][2] => i = j
  /\ \A k, l \in todo["sweep"] : k[1] = l[1] => k = l

HoldInv == Apart(InHand, Spots, Open)

-----------------------------------------------------------------------------
(* References: the registrations that are not gone, and the holder.        *)

Live == {"on", "paused", "removed"}
LiveAt(c) == {n \in 1 .. MaxRegs : regs[c][n] \in Live}
AllLive == {p \in Conns \X (1 .. MaxRegs) : regs[p[1]][p[2]] \in Live}

RefInv ==
  \A c \in Conns :
    /\ conn[c].refs = Cardinality(LiveAt(c)) + (IF conn[c].life = "open" THEN 1 ELSE 0)
    /\ conn[c].life \in {"none", "freed"} => conn[c].refs = 0
    /\ conn[c].reg > 0 => regs[c][conn[c].reg] \in {"on", "paused"}

SrvRefInv ==
  /\ srv.refs = Cardinality(AllLive) + (IF th["destroyer"].pc = "done" THEN 0 ELSE 1)
                                     + (IF srv.lreg = "gone" THEN 0 ELSE 1)
  /\ srv.life = "freed" => srv.refs = 0

\* A callback runs for a registration that is not gone.
EvInv ==
  \A r \in Reactors :
    /\ th[r].pc # "rest" =>
         \/ th[r].ev = <<"listener", 0>> /\ srv.lreg # "gone"
         \/ th[r].ev \in AllLive
    /\ th[r].pc = "claim" => th[r].ev \in AllLive /\ th[r].ev[1] = th[r].c

-----------------------------------------------------------------------------
\* Who is about to wait for memory may, and asks for some.
NeedInv ==
  \A t \in Threads : th[t].pc = "enqueue" =>
    /\ ~mem_exempt[th[t].c]
    /\ th[t].then # "memstart" => Step(th[t].c) > 0

\* How far the destroyer has come.
StageInv ==
  LET pc == th["destroyer"].pc
  IN  /\ pc \notin {"rest", "stop", "stopping", "drain"} => mem_admission_closed
      /\ pc \in {"rest", "stop"} => srv.lreg = "on"
      /\ pc \in {"join_workers", "join_rejecters", "pins", "done"} => srv.worker_pool = "shut"
      /\ pc \in {"join_rejecters", "pins", "done"} =>
           /\ srv.reject_pool = "shut" /\ tasks = <<>>
           /\ \A w \in Workers : th[w].pc = "rest" /\ w \notin calls /\ mem_admitting # w
      /\ pc \in {"pins", "done"} =>
           /\ ~srv.swept /\ rejects = <<>>
           /\ \A j \in Rejecters : th[j].pc = "rest" /\ j \notin calls /\ mem_admitting # j
      /\ pc = "done" => th["sweep"].pc = "rest"
      /\ srv.spins = IF th["sweep"].pc = "rest" THEN 0 ELSE 1

\* Who is done with everything is not about to call _mem_admit.
RestInv ==
  /\ \A t \in Reactors \cup {"sweep", "destroyer"} :
       th[t].pc \in {"rest", "done"} => t \notin calls /\ mem_admitting # t
  /\ th["sweep"].pc = "rest" => "expired" \notin calls /\ mem_admitting # "expired"

\* What the admission loop does with a connection, while it runs.
AdmitterPcs == {"rest", "ends", "count", "submit", "reject_pool", "reject_submit", "reject", "drop", "close", "deref",
                "arm", "list", "linger"}
AdmitterInv ==
  LET x == th["admitter"]
  IN  /\ x.pc \in AdmitterPcs
      /\ x.pc # "rest" => mem_admitting # Null /\ ~locked
      /\ x.pc = "count" => x.then = "admitted"
      /\ x.pc = "drop" => x.then \in {"deref", "write", "linger"}
      /\ "admitter" \in calls => x.pc # "rest"
      /\ mem_admitting # "admitter"

SInv == /\ SrvTypeOK /\ PcInv /\ HoldInv /\ OnceInv /\ RefInv /\ SrvRefInv /\ EvInv
        /\ NeedInv /\ StageInv /\ RestInv /\ AdmitterInv

-----------------------------------------------------------------------------
(* Threads, program counters and records.                                  *)

LEMMA Roles ==
  /\ {"sweep", "destroyer", "admitter"} \subseteq Threads
  /\ Reactors \subseteq Threads /\ Workers \subseteq Threads /\ Rejecters \subseteq Threads
  /\ \A t \in {"sweep", "destroyer", "admitter"} : t \notin Reactors /\ t \notin Workers /\ t \notin Rejecters
  /\ \A t \in Reactors : t \notin Workers /\ t \notin Rejecters
  /\ \A t \in Workers : t \notin Rejecters
  /\ \A t \in Threads : t \in Callers /\ t # Null /\ t # "expired"
  /\ "expired" \in Callers /\ Null \notin Callers /\ Null \notin Conns /\ "listener" \notin Conns
BY HttpServerAssumption, BodyMemoryAssumption DEF Threads

LEMMA Bounds ==
  /\ MaxBody \in Nat /\ MaxRegs \in Nat /\ MaxRegs >= 1 /\ MaxNeed \in Nat /\ 1 <= MaxNeed /\ 2 * MaxBody <= MaxNeed
  /\ 0 \in RegNos /\ 1 \in RegNos /\ 0 \in Sizes /\ 0 \in Int
BY HttpServerAssumption, BodyMemoryAssumption DEF RegNos, Sizes

LEMMA PcSets ==
  /\ \A t : Homes(t) \subseteq IdlePcs(t) /\ IdlePcs(t) \subseteq Pcs /\ "rest" \in IdlePcs(t) /\ "rest" \in Pcs
  /\ \A t, p : p \in ConnPcs => p \notin AfterPcs /\ p \notin IdlePcs(t) /\ p # "claim" /\ p \in Pcs
  /\ \A t, p : p \in AfterPcs => p \notin IdlePcs(t) /\ p # "claim" /\ p \in Pcs
  /\ \A t : "claim" \notin IdlePcs(t)
  /\ \A t \in Reactors \cup {"sweep", "destroyer"} : "rest" \notin Homes(t) /\ "done" \notin Homes(t)
<1>1. \A t \in {"sweep", "destroyer", "admitter"} : t \notin Reactors BY Roles
<1> QED BY <1>1 DEF Homes, IdlePcs, Pcs, ConnPcs, AfterPcs, ReactorPcs, SweepPcs, DestroyPcs

\* t's record after a step: where it is, its connection and what comes next.
ThIs(t, p, c, q) ==
  /\ th' \in [Threads -> ThRec]
  /\ \A u \in Threads : u # t => th'[u] = th[u]
  /\ th'[t].pc = p /\ th'[t].c = c /\ th'[t].then = q
  /\ th'[t].ev = th[t].ev /\ th'[t].home = th[t].home

LEMMA ThReplaced ==
  ASSUME th \in [Threads -> ThRec], NEW t \in Threads, NEW x \in ThRec, th' = [th EXCEPT ![t] = x]
  PROVE  th' \in [Threads -> ThRec] /\ th'[t] = x /\ \A u \in Threads : u # t => th'[u] = th[u]
OBVIOUS

LEMMA GotoIs ==
  ASSUME th \in [Threads -> ThRec], NEW t \in Threads, NEW p \in Pcs, Goto(t, p)
  PROVE  ThIs(t, p, th[t].c, th[t].then)
<1> DEFINE x == [th[t] EXCEPT !.pc = p]
<1>1. th[t] \in ThRec OBVIOUS
<1>2. /\ x \in ThRec /\ x.pc = p /\ x.c = th[t].c /\ x.then = th[t].then /\ x.ev = th[t].ev
      /\ x.home = th[t].home
  BY <1>1, Zenon DEF ThRec
<1>3. th' = [th EXCEPT ![t] = x] BY Zenon DEF Goto
<1> HIDE DEF x
<1> QED BY <1>2, <1>3, ThReplaced DEF ThIs

LEMMA GotoThenIs ==
  ASSUME th \in [Threads -> ThRec], NEW t \in Threads, NEW p \in Pcs, NEW q \in Thens, GotoThen(t, p, q)
  PROVE  ThIs(t, p, th[t].c, q)
<1> DEFINE x == [th[t] EXCEPT !.pc = p, !.then = q]
<1>1. th[t] \in ThRec OBVIOUS
<1>2. /\ x \in ThRec /\ x.pc = p /\ x.c = th[t].c /\ x.then = q /\ x.ev = th[t].ev /\ x.home = th[t].home
  BY <1>1, Zenon DEF ThRec
<1>3. th' = [th EXCEPT ![t] = x] BY Zenon DEF GotoThen
<1> HIDE DEF x
<1> QED BY <1>2, <1>3, ThReplaced DEF ThIs

LEMMA LeaveIs ==
  ASSUME th \in [Threads -> ThRec], NEW t \in Threads, Leave(t) \/ HandOver(t)
  PROVE  \E p \in {th[t].home, "ends"} : ThIs(t, p, Null, th[t].then)
<1>1. th[t] \in ThRec OBVIOUS
<1>2. th[t].rel - 1 \in Int BY <1>1 DEF ThRec
<1>3. th[t].home \in Pcs /\ "ends" \in Pcs BY <1>1 DEF ThRec, Pcs, AfterPcs
<1>4. CASE Leave(t)
  <2> DEFINE p == IF th[t].rel = 0 THEN th[t].home ELSE "ends"
             x == [th[t] EXCEPT !.c = Null, !.pc = p]
  <2>1. p \in Pcs /\ p \in {th[t].home, "ends"} BY <1>3
  <2> HIDE DEF p
  <2>2. /\ x \in ThRec /\ x.pc = p /\ x.c = Null /\ x.then = th[t].then /\ x.ev = th[t].ev
        /\ x.home = th[t].home
    BY <1>1, <2>1, Zenon DEF ThRec
  <2>3. th' = [th EXCEPT ![t] = x] BY <1>1, <1>4, Zenon DEF Leave, p, ThRec
  <2> HIDE DEF x
  <2> QED BY <2>1, <2>2, <2>3, ThReplaced DEF ThIs
<1>5. CASE HandOver(t)
  <2> DEFINE p == IF th[t].rel = 1 THEN th[t].home ELSE "ends"
             x == [th[t] EXCEPT !.c = Null, !.rel = th[t].rel - 1, !.pc = p]
  <2>1. p \in Pcs /\ p \in {th[t].home, "ends"} BY <1>3
  <2> HIDE DEF p
  <2>2. /\ x \in ThRec /\ x.pc = p /\ x.c = Null /\ x.then = th[t].then /\ x.ev = th[t].ev
        /\ x.home = th[t].home
    BY <1>1, <1>2, <2>1, Zenon DEF ThRec
  <2>3. th' = [th EXCEPT ![t] = x] BY <1>1, <1>5, Zenon DEF HandOver, p, ThRec
  <2> HIDE DEF x
  <2> QED BY <2>1, <2>2, <2>3, ThReplaced DEF ThIs
<1> QED BY <1>4, <1>5

\* c's record after a step; the others keep theirs.
ConnIs(c, y) ==
  /\ conn' \in [Conns -> ConnRec] /\ conn'[c] = y
  /\ \A d \in Conns : d # c => conn'[d] = conn[d]

LEMMA SetIs ==
  ASSUME conn \in [Conns -> ConnRec], NEW c \in Conns, NEW y \in ConnRec, Set(c, y)
  PROVE  ConnIs(c, y)
BY DEF Set, ConnIs

-----------------------------------------------------------------------------
(* How a connection may change its place.                                  *)

LEMMA ApartSame ==
  ASSUME NEW H, NEW P, NEW O, Apart(H, P, O), NEW H2, NEW P2, NEW O2, O2 = O,
         \A u \in Threads : H2[u] = H[u], \A s \in SpotNames : P2[s] = P[s]
  PROVE  Apart(H2, P2, O2)
BY DEF Apart

LEMMA SpotValues ==
  /\ Spots["list"] = {c \in Conns : conn[c].list # "none"}
  /\ Spots["memory"] = Elems(mem_list) /\ Spots["batch"] = Elems(batch)
  /\ Spots["tasks"] = TaskConns /\ Spots["rejects"] = Elems(rejects)
  /\ Spots["sweep"] = SweepConns /\ Spots["destroyer"] = todo["destroyer"]
BY DEF Spots, SpotNames

\* Spots that are made of variables a step does not change.
LEMMA SpotsSame ==
  /\ (UNCHANGED conn => Spots'["list"] = Spots["list"])
  /\ ((\A d \in Conns : conn'[d].list = conn[d].list) => Spots'["list"] = Spots["list"])
  /\ (UNCHANGED mem_list => Spots'["memory"] = Spots["memory"])
  /\ (UNCHANGED batch => Spots'["batch"] = Spots["batch"])
  /\ (UNCHANGED tasks => Spots'["tasks"] = Spots["tasks"])
  /\ (UNCHANGED rejects => Spots'["rejects"] = Spots["rejects"])
  /\ (UNCHANGED todo => Spots'["sweep"] = Spots["sweep"] /\ Spots'["destroyer"] = Spots["destroyer"])
BY DEF Spots, SpotNames, TaskConns, SweepConns

LEMMA HandSame ==
  ASSUME \A u \in Threads : th'[u].pc \in ConnPcs <=> th[u].pc \in ConnPcs,
         \A u \in Threads : th[u].pc \in ConnPcs => th'[u].c = th[u].c
  PROVE  \A u \in Threads : InHand'[u] = InHand[u]
BY DEF InHand

LEMMA OpenSame == (\A d \in Conns : conn'[d].life = conn[d].life) => Open' = Open
BY DEF Open

\* Whoever has a connection in hand has it alone.
LEMMA HandAlone ==
  ASSUME HoldInv, PcInv, NEW t \in Threads, th[t].pc \in ConnPcs
  PROVE  /\ th[t].c \in Conns /\ conn[th[t].c].life = "open" /\ conn[th[t].c].list = "none"
         /\ ~Waiting(th[t].c) /\ InHand[t] = {th[t].c}
         /\ \A s \in SpotNames : th[t].c \notin Spots[s]
         /\ \A u \in Threads : u # t /\ th[u].pc \in ConnPcs => th[u].c # th[t].c
<1>1. th[t].c \in Conns BY PcSets DEF PcInv
<1>2. InHand[t] = {th[t].c} /\ \A u \in Threads : th[u].pc \in ConnPcs => InHand[u] = {th[u].c} BY DEF InHand
<1>3. \A s \in SpotNames : th[t].c \notin Spots[s] BY <1>2 DEF HoldInv, Apart
<1>4. th[t].c \notin Spots["list"] /\ th[t].c \notin Spots["memory"] BY <1>3 DEF SpotNames
<1>5. th[t].c \in Open BY <1>2 DEF HoldInv, Apart
<1>6. \A u \in Threads : u # t /\ th[u].pc \in ConnPcs => th[u].c # th[t].c BY <1>2 DEF HoldInv, Apart
<1> QED BY <1>1, <1>2, <1>3, <1>4, <1>5, <1>6, SpotValues, WaitingElems DEF Open

-----------------------------------------------------------------------------
(* The step of a thread that has, claims or has just given away a          *)
(* connection, seen from the program counters.                             *)

\* What c asks for next, after the step.
NextStep(c) == Want(conn'[c]) - mem_charged'[c]

\* What it leaves alone of the others' state.
Leaves(t) ==
  /\ calls' \subseteq calls \cup {t} /\ UNCHANGED <<mem_admitting, locked, mem_admission_closed>>
  /\ \A u \in Threads : u # t /\ th[u].pc = "enqueue" =>
       mem_exempt'[th[u].c] = mem_exempt[th[u].c] /\ NextStep(th[u].c) = Step(th[u].c)
  /\ AllLive \subseteq AllLive'
  /\ srv'.lreg = srv.lreg /\ srv'.spins = srv.spins /\ srv'.swept = srv.swept
  /\ srv'.worker_pool = srv.worker_pool /\ srv'.reject_pool = srv.reject_pool
  /\ srv.worker_pool = "shut" => UNCHANGED tasks
  /\ srv.reject_pool = "shut" => UNCHANGED rejects

\* Where it may go.
MayGo(t, p, c, q) ==
  /\ th[t].pc \in ConnPcs \cup AfterPcs \cup {"claim"}
  /\ \/ p \in ConnPcs /\ c \in Conns
     \/ p \in {th[t].home} \cup AfterPcs /\ c = Null
  /\ ThenOK(p, q)
  /\ p = "enqueue" => ~mem_exempt'[c] /\ (q # "memstart" => NextStep(c) > 0)
  /\ t = "admitter" => /\ p \in AdmitterPcs \ {"count"}
                       /\ p = "drop" => q \in {"deref", "write", "linger"}
                       /\ p = "rest" => t \notin calls'

Goes(t, p, c, q) == ThIs(t, p, c, q) /\ MayGo(t, p, c, q) /\ Leaves(t)

LEMMA GoesKeeps ==
  ASSUME SInv, NEW t \in Threads, NEW p, NEW c, NEW q, Goes(t, p, c, q)
  PROVE  PcInv' /\ EvInv' /\ NeedInv' /\ StageInv' /\ RestInv' /\ AdmitterInv'
<1>1. SrvTypeOK /\ PcInv /\ EvInv /\ NeedInv /\ StageInv /\ RestInv /\ AdmitterInv BY DEF SInv
<1>2. /\ \A u \in Threads : u # t => th'[u] = th[u]
      /\ th'[t].pc = p /\ th'[t].c = c /\ th'[t].then = q /\ th'[t].ev = th[t].ev /\ th'[t].home = th[t].home
  BY DEF Goes, ThIs
<1>3. th[t].pc \notin IdlePcs(t) /\ th[t].home \in Homes(t) /\ th[t].pc # "rest"
  BY <1>1, PcSets DEF Goes, MayGo, PcInv
<1>4. p # "claim" /\ (p \in ConnPcs \cup AfterPcs \/ p \in Homes(t))
  BY <1>3, PcSets DEF Goes, MayGo
<1>5. PcInv'
  <2> SUFFICES ASSUME NEW u \in Threads
               PROVE  /\ \/ th'[u].pc \in ConnPcs /\ th'[u].c \in Conns
                         \/ th'[u].pc = "claim" /\ th'[u].c \in Conns /\ u \in Reactors
                         \/ th'[u].pc \in IdlePcs(u) \cup AfterPcs /\ th'[u].c = Null
                      /\ th'[u].pc \notin IdlePcs(u) => th'[u].home \in Homes(u)
                      /\ ThenOK(th'[u].pc, th'[u].then)
                      /\ th'[u].pc = "claim" => th'[u].then \in {"pump", "close"}
    BY DEF PcInv, IdlePcs, Homes
  <2>1. CASE u = t BY <1>2, <1>3, <1>4, <2>1, PcSets DEF Goes, MayGo
  <2>2. CASE u # t BY <1>1, <1>2, <2>2 DEF PcInv
  <2> QED BY <2>1, <2>2
<1>6. EvInv'
  <2> SUFFICES ASSUME NEW r \in Reactors
               PROVE  /\ th'[r].pc # "rest" => (th'[r].ev = <<"listener", 0>> /\ srv'.lreg # "gone") \/ th'[r].ev \in AllLive'
                      /\ th'[r].pc = "claim" => th'[r].ev \in AllLive' /\ th'[r].ev[1] = th'[r].c
    BY DEF EvInv
  <2>1. r \in Threads BY Roles
  <2>2. AllLive \subseteq AllLive' /\ srv'.lreg = srv.lreg BY DEF Goes, Leaves
  <2>3. CASE r = t BY <1>1, <1>2, <1>3, <1>4, <2>2, <2>3 DEF EvInv
  <2>4. CASE r # t BY <1>1, <1>2, <2>1, <2>2, <2>4 DEF EvInv
  <2> QED BY <2>3, <2>4
<1>7. NeedInv'
  <2> SUFFICES ASSUME NEW u \in Threads, th'[u].pc = "enqueue"
               PROVE  /\ ~mem_exempt'[th'[u].c]
                      /\ th'[u].then # "memstart" => NextStep(th'[u].c) > 0
    BY DEF NeedInv, Step, NextStep
  <2>0. "enqueue" \notin AfterPcs /\ \A v : "enqueue" \notin Homes(v)
    BY PcSets DEF ConnPcs
  <2>1. CASE u = t BY <1>2, <1>3, <2>0, <2>1 DEF Goes, MayGo
  <2>2. CASE u # t
    <3>1. th[u].pc = "enqueue" /\ th'[u] = th[u] BY <1>2, <2>2
    <3>2. mem_exempt'[th[u].c] = mem_exempt[th[u].c] /\ NextStep(th[u].c) = Step(th[u].c) BY <2>2, <3>1 DEF Goes, Leaves
    <3>3. ~mem_exempt[th[u].c] /\ (th[u].then # "memstart" => Step(th[u].c) > 0) BY <1>1, <3>1 DEF NeedInv
    <3> QED BY <3>1, <3>2, <3>3
  <2> QED BY <2>1, <2>2
<1>8. ConnPcs \cap DestroyPcs = {} /\ AfterPcs \cap DestroyPcs = {} /\ "rest" \notin ConnPcs \cup AfterPcs
      /\ "done" \notin ConnPcs \cup AfterPcs
  BY DEF ConnPcs, AfterPcs, DestroyPcs
<1>9. t \in Reactors \cup {"sweep", "destroyer"} => p # "rest" /\ p # "done"
  BY <1>4, <1>8, PcSets
<1>10. StageInv'
  <2>1. th'["sweep"].pc = "rest" <=> th["sweep"].pc = "rest"
    BY <1>2, <1>3, <1>9, Roles
  <2>2. \A u \in Workers \cup Rejecters : th[u].pc = "rest" /\ u \notin calls /\ mem_admitting # u =>
          th'[u].pc = "rest" /\ u \notin calls' /\ mem_admitting' # u
    BY <1>2, <1>3, Roles DEF Goes, Leaves
  <2>3. Leaves(t) BY DEF Goes
  <2>4. CASE t # "destroyer"
    <3>1. th'["destroyer"].pc = th["destroyer"].pc BY <1>2, <2>4, Roles
    <3> QED BY <1>1, <2>1, <2>2, <2>3, <3>1, Roles DEF StageInv, Leaves
  <2>5. CASE t = "destroyer"
    <3>1. th["destroyer"].pc \notin DestroyPcs BY <1>3, <2>5, Roles DEF IdlePcs
    <3>2. mem_admission_closed' BY <1>1, <2>3, <3>1 DEF StageInv, Leaves, DestroyPcs
    <3>3. p \notin {"rest", "stop", "join_workers", "join_rejecters", "pins", "done"}
      BY <1>4, <2>5, Roles DEF Homes, ConnPcs, AfterPcs
    <3> QED BY <1>1, <1>2, <2>1, <2>3, <2>5, <3>2, <3>3 DEF StageInv, Leaves
  <2> QED BY <2>4, <2>5
<1>11. RestInv'
  <2>1. ASSUME NEW u \in Reactors \cup {"sweep", "destroyer"}, th'[u].pc \in {"rest", "done"}
        PROVE  u \notin calls' /\ mem_admitting' # u /\ (u = "sweep" => "expired" \notin calls' /\ mem_admitting' # "expired")
    <3>1. u # t /\ u \in Threads BY <1>2, <1>9, <2>1, Roles
    <3>2. th[u].pc \in {"rest", "done"} BY <1>2, <2>1, <3>1
    <3>3. u = "sweep" => th[u].pc = "rest"
      BY <1>1, <3>1, <3>2, Roles DEF PcInv, IdlePcs, SweepPcs, ConnPcs, AfterPcs
    <3> QED BY <1>1, <3>1, <3>2, <3>3, Roles DEF RestInv, Goes, Leaves
  <2> QED BY <2>1 DEF RestInv
<1>12. AdmitterInv'
  <2>1. "admitter" \in Threads BY Roles
  <2>2. CASE t = "admitter"
    BY <1>1, <1>2, <1>3, <2>1, <2>2 DEF AdmitterInv, Goes, MayGo, Leaves
  <2>3. CASE t # "admitter"
    BY <1>1, <1>2, <2>1, <2>3 DEF AdmitterInv, Goes, Leaves
  <2> QED BY <2>2, <2>3
<1> QED BY <1>5, <1>6, <1>7, <1>10, <1>11, <1>12

\* A step of t touches the memory of its own connection only.
MemQuiet(t, c) ==
  /\ UNCHANGED <<mem_list, batch, mem_admitting, locked, mem_admission_closed>>
  /\ calls' \subseteq calls \cup {t}
  /\ \A d \in Conns : d # c => mem_exempt'[d] = mem_exempt[d] /\ mem_charged'[d] = mem_charged[d]

LEMMA MemQuietSteps ==
  ASSUME TypeOK, NEW t, NEW c \in Conns, NEW n
  PROVE  /\ UNCHANGED memVars => MemQuiet(t, c)
         /\ Reserve(c, n) => MemQuiet(t, c) /\ calls' = calls
         /\ ReserveFails(c, n) => MemQuiet(t, c) /\ calls' = calls /\ UNCHANGED memVars /\ ~mem_exempt[c]
         /\ Release(t, c) => MemQuiet(t, c)
         /\ Trim(t, c, n) => MemQuiet(t, c)
         /\ TrimTo(t, c, n) => MemQuiet(t, c)
<1>1. UNCHANGED memVars => MemQuiet(t, c) BY DEF memVars, memLoop, memCounts, MemQuiet
<1>2. Reserve(c, n) => MemQuiet(t, c) /\ calls' = calls BY DEF TypeOK, Reserve, Grant, memLoop, MemQuiet
<1>3. ReserveFails(c, n) => calls' = calls /\ UNCHANGED memVars /\ ~mem_exempt[c]
  BY DEF ReserveFails, MayReserve, memVars
<1>4. Release(t, c) => MemQuiet(t, c) BY DEF TypeOK, Release, memLoop, MemQuiet
<1>5. Trim(t, c, n) => MemQuiet(t, c) BY DEF TypeOK, Trim, memLoop, MemQuiet
<1> QED BY <1>1, <1>2, <1>3, <1>4, <1>5 DEF TrimTo

SrvSame ==
  /\ srv' \in SrvRec /\ srv'.life = srv.life /\ srv'.refs = srv.refs /\ srv'.lreg = srv.lreg /\ srv'.spins = srv.spins
  /\ srv'.swept = srv.swept /\ srv'.worker_pool = srv.worker_pool /\ srv'.reject_pool = srv.reject_pool

LEMMA RefsSame ==
  ASSUME RefInv, UNCHANGED regs,
         \A d \in Conns : conn'[d].life = conn[d].life /\ conn'[d].refs = conn[d].refs /\ conn'[d].reg = conn[d].reg
  PROVE  RefInv'
BY DEF RefInv, LiveAt

LEMMA SrvRefsSame ==
  ASSUME SrvRefInv, UNCHANGED regs, srv'.life = srv.life, srv'.refs = srv.refs, srv'.lreg = srv.lreg,
         th'["destroyer"].pc = "done" <=> th["destroyer"].pc = "done"
  PROVE  SrvRefInv'
BY DEF SrvRefInv, AllLive

\* t goes on with its connection; y is what it makes of it.
Works(t, p, q, y) ==
  /\ th[t].pc \in ConnPcs /\ p \in ConnPcs
  /\ ThIs(t, p, th[t].c, q) /\ ConnIs(th[t].c, y)
  /\ y.life = conn[th[t].c].life /\ y.list \in {"none", conn[th[t].c].list}
  /\ MemQuiet(t, th[t].c) /\ UNCHANGED <<scenario, tasks, rejects, todo>>
  /\ ThenOK(p, q)
  /\ p = "enqueue" => ~mem_exempt'[th[t].c] /\ (q # "memstart" => Want(y) - mem_charged'[th[t].c] > 0)
  /\ t = "admitter" => /\ p \in AdmitterPcs \ {"count"}
                       /\ p = "drop" => q \in {"deref", "write", "linger"}

LEMMA WorksKeeps ==
  ASSUME SInv, NEW t \in Threads, NEW p, NEW q, NEW y, Works(t, p, q, y),
         regs' \in [Conns -> [1 .. MaxRegs -> RegStates]], AllLive \subseteq AllLive', srv' \in SrvRec,
         srv'.lreg = srv.lreg, srv'.spins = srv.spins, srv'.swept = srv.swept,
         srv'.worker_pool = srv.worker_pool, srv'.reject_pool = srv.reject_pool
  PROVE  /\ SrvTypeOK' /\ PcInv' /\ HoldInv' /\ OnceInv' /\ EvInv' /\ NeedInv' /\ StageInv' /\ RestInv' /\ AdmitterInv'
         /\ th'["destroyer"].pc = "done" <=> th["destroyer"].pc = "done"
<1> DEFINE c == th[t].c
<1>1. SrvTypeOK /\ PcInv /\ HoldInv /\ OnceInv BY DEF SInv
<1>2. /\ c \in Conns /\ conn[c].life = "open" /\ conn[c].list = "none"
      /\ \A u \in Threads : u # t /\ th[u].pc \in ConnPcs => th[u].c # c
  BY <1>1, HandAlone DEF Works
<1>3. /\ conn' \in [Conns -> ConnRec] /\ conn'[c] = y /\ \A d \in Conns : d # c => conn'[d] = conn[d]
  BY DEF Works, ConnIs
<1>4. /\ th' \in [Threads -> ThRec] /\ \A u \in Threads : u # t => th'[u] = th[u]
      /\ th'[t].pc = p /\ th'[t].c = c
  BY DEF Works, ThIs
<1>5. SrvTypeOK' BY <1>1, <1>3, <1>4 DEF SrvTypeOK, Works
<1>6. HoldInv'
  <2>1. \A u \in Threads : InHand'[u] = InHand[u] BY <1>4, HandSame DEF Works
  <2>2. \A d \in Conns : conn'[d].list = conn[d].list /\ conn'[d].life = conn[d].life BY <1>2, <1>3 DEF Works
  <2>3. \A s \in SpotNames : Spots'[s] = Spots[s] BY <2>2, SpotsSame DEF Works, MemQuiet, SpotNames
  <2> QED BY <1>1, <2>1, <2>2, <2>3, OpenSame, ApartSame DEF HoldInv
<1>7. OnceInv' BY <1>1 DEF OnceInv, Works, MemQuiet
<1>8. \A u \in Threads : u # t /\ th[u].pc = "enqueue" =>
        mem_exempt'[th[u].c] = mem_exempt[th[u].c] /\ NextStep(th[u].c) = Step(th[u].c)
  <2> SUFFICES ASSUME NEW u \in Threads, u # t, th[u].pc = "enqueue"
               PROVE  mem_exempt'[th[u].c] = mem_exempt[th[u].c] /\ NextStep(th[u].c) = Step(th[u].c)
    OBVIOUS
  <2>1. th[u].pc \in ConnPcs BY DEF ConnPcs
  <2>2. th[u].c \in Conns /\ th[u].c # c BY <1>1, <1>2, <2>1, HandAlone
  <2> QED BY <1>3, <2>2 DEF Works, MemQuiet, NextStep, Step
<1>9. Leaves(t) BY <1>8 DEF Leaves, Works, MemQuiet
<1>10. MayGo(t, p, c, q)
  <2>1. "rest" \notin ConnPcs BY DEF ConnPcs
  <2> QED BY <1>2, <1>3, <2>1 DEF MayGo, Works, NextStep
<1>11. Goes(t, p, c, q) BY <1>9, <1>10 DEF Goes, Works
<1>12. th'["destroyer"].pc = "done" <=> th["destroyer"].pc = "done"
  <2>1. "done" \notin ConnPcs BY DEF ConnPcs
  <2> QED BY <1>4, <2>1, Roles DEF Works
<1> QED BY <1>5, <1>6, <1>7, <1>11, <1>12, GoesKeeps

LEMMA WorksAlone ==
  ASSUME SInv, NEW t \in Threads, NEW p, NEW q, NEW y, Works(t, p, q, y), UNCHANGED regs, SrvSame,
         y.refs = conn[th[t].c].refs, y.reg = conn[th[t].c].reg
  PROVE  SInv'
<1>1. SrvTypeOK /\ RefInv /\ SrvRefInv /\ PcInv /\ HoldInv BY DEF SInv
<1>2. AllLive' = AllLive /\ regs' \in [Conns -> [1 .. MaxRegs -> RegStates]] BY <1>1 DEF AllLive, SrvTypeOK
<1>3. /\ SrvTypeOK' /\ PcInv' /\ HoldInv' /\ OnceInv' /\ EvInv' /\ NeedInv' /\ StageInv' /\ RestInv' /\ AdmitterInv'
      /\ th'["destroyer"].pc = "done" <=> th["destroyer"].pc = "done"
  BY <1>2, WorksKeeps DEF SrvSame
<1>4. RefInv'
  <2>1. \A d \in Conns : conn'[d].life = conn[d].life /\ conn'[d].refs = conn[d].refs /\ conn'[d].reg = conn[d].reg
    BY DEF Works, ConnIs
  <2> QED BY <1>1, <2>1, RefsSame
<1>5. SrvRefInv' BY <1>1, <1>3, SrvRefsSame DEF SrvSame
<1> QED BY <1>3, <1>4, <1>5 DEF SInv

-----------------------------------------------------------------------------
(* The steps of a thread with its connection, one lemma per action.        *)

Moves(t, p, q) == (Goto(t, p) /\ q = th[t].then) \/ GotoThen(t, p, q)

\* As a member of the lists and a counter of references y is still x.
Alike(y, x) == y \in ConnRec /\ y.life = x.life /\ y.list = x.list /\ y.refs = x.refs /\ y.reg = x.reg

Becomes(c, y) == Set(c, y) \/ (UNCHANGED conn /\ y = conn[c])

LEMMA InHandOf ==
  ASSUME SInv, NEW t \in Threads
  PROVE  /\ th[t] \in ThRec /\ th[t].then \in Thens
         /\ th[t].pc \in ConnPcs => th[t].c \in Conns /\ conn[th[t].c] \in ConnRec /\ Alike(conn[th[t].c], conn[th[t].c])
         /\ th[t].pc \notin AdmitterPcs => t # "admitter"
<1>1. SrvTypeOK /\ PcInv /\ AdmitterInv BY DEF SInv
<1>2. th[t] \in ThRec BY <1>1 DEF SrvTypeOK
<1>3. th[t].then \in Thens BY <1>2 DEF ThRec
<1>4. th[t].pc \in ConnPcs => th[t].c \in Conns BY <1>1, PcSets DEF PcInv
<1>5. \A c \in Conns : conn[c] \in ConnRec BY <1>1 DEF SrvTypeOK
<1> QED BY <1>1, <1>2, <1>3, <1>4, <1>5 DEF AdmitterInv, Alike

LEMMA WorkStep ==
  ASSUME SInv, NEW t \in Threads, th[t].pc \in ConnPcs, NEW p \in ConnPcs, NEW q \in Thens, Moves(t, p, q),
         NEW y, Alike(y, conn[th[t].c]), Becomes(th[t].c, y), MemQuiet(t, th[t].c),
         UNCHANGED <<scenario, regs, srv, tasks, rejects, todo>>,
         ThenOK(p, q),
         p = "enqueue" => ~mem_exempt'[th[t].c] /\ (q # "memstart" => Want(y) - mem_charged'[th[t].c] > 0),
         t = "admitter" => p \in AdmitterPcs \ {"count"} /\ (p = "drop" => q \in {"deref", "write", "linger"})
  PROVE  SInv'
<1>1. SrvTypeOK BY DEF SInv
<1>2. th \in [Threads -> ThRec] /\ conn \in [Conns -> ConnRec] /\ srv \in SrvRec BY <1>1 DEF SrvTypeOK
<1>3. ThIs(t, p, th[t].c, q) BY <1>2, PcSets, GotoIs, GotoThenIs DEF Moves
<1>4. ConnIs(th[t].c, y)
  <2>1. th[t].c \in Conns /\ y \in ConnRec BY InHandOf DEF Alike
  <2>2. CASE Set(th[t].c, y) BY <1>2, <2>1, <2>2, SetIs
  <2>3. CASE UNCHANGED conn /\ y = conn[th[t].c] BY <1>2, <2>3 DEF ConnIs
  <2> QED BY <2>2, <2>3 DEF Becomes
<1>5. Works(t, p, q, y) BY <1>3, <1>4 DEF Works, Alike
<1> QED BY <1>2, <1>5, WorksAlone DEF SrvSame, Alike

LEMMA DropStep ==
  ASSUME SInv, TypeOK, NEW t \in Threads, Drop(t)
  PROVE  SInv'
<1> DEFINE c == th[t].c
           y == [conn[c] EXCEPT !.cap = 0, !.len = 0]
           p == IF th[t].then = "write" THEN "arm" ELSE th[t].then
<1>1. th[t].pc = "drop" /\ th[t].pc \in ConnPcs BY DEF Drop, Runs, ConnPcs
<1>2. c \in Conns /\ conn[c] \in ConnRec /\ th[t].then \in Thens BY <1>1, InHandOf
<1>3. Alike(y, conn[c]) BY <1>2, Bounds, Zenon DEF Alike, ConnRec
<1>4. th[t].then \in AfterDrop /\ (t = "admitter" => th[t].then \in {"deref", "write", "linger"})
  BY <1>1 DEF SInv, PcInv, AdmitterInv, ThenOK
<1>5. p \in ConnPcs /\ ThenOK(p, th[t].then) /\ p # "enqueue" /\ p # "drop" BY <1>4 DEF AfterDrop, ConnPcs, ThenOK, Parks
<1>6. t = "admitter" => p \in AdmitterPcs \ {"count"} BY <1>4 DEF AdmitterPcs
<1>7. MemQuiet(t, c) BY <1>2, MemQuietSteps DEF Drop
<1>8. Moves(t, p, th[t].then) /\ Becomes(c, y) BY DEF Drop, Moves, Becomes
<1>9. UNCHANGED <<scenario, regs, srv, tasks, rejects, todo>> BY DEF Drop, others
<1> HIDE DEF c, p, y
<1> QED BY <1>1, <1>2, <1>3, <1>5, <1>6, <1>7, <1>8, <1>9, WorkStep DEF c

LEMMA LingerStepStep ==
  ASSUME SInv, TypeOK, NEW t \in Threads, LingerStep(t)
  PROVE  SInv'
<1>1. th[t].pc = "linger_step" /\ th[t].pc \in ConnPcs /\ th[t].pc \notin AdmitterPcs
  BY DEF LingerStep, Runs, ConnPcs, AdmitterPcs
<1>2. th[t].c \in Conns /\ Alike(conn[th[t].c], conn[th[t].c]) /\ th[t].then \in Thens /\ t # "admitter"
  BY <1>1, InHandOf
<1>3. MemQuiet(t, th[t].c) BY <1>2, MemQuietSteps DEF LingerStep
<1>4. UNCHANGED <<scenario, regs, srv, tasks, rejects, todo>> BY DEF LingerStep, others
<1>5. Becomes(th[t].c, conn[th[t].c]) BY DEF LingerStep, Becomes
<1>6. "list" \in ConnPcs /\ "close" \in ConnPcs /\ "linger" \in Thens BY DEF ConnPcs, Thens, Parks
<1>7. Moves(t, "list", "linger") \/ Moves(t, "close", th[t].then) BY DEF LingerStep, Moves
<1> QED BY <1>1, <1>2, <1>3, <1>4, <1>5, <1>6, <1>7, WorkStep DEF ThenOK, Parks

\* _conn_feed_bytes, of a connection that is x by then.
LEMMA FeedsStep ==
  ASSUME SInv, NEW t \in Threads, th[t].pc \in ConnPcs, t # "admitter", NEW x, Alike(x, conn[th[t].c]),
         Feeds(t, x), MemQuiet(t, th[t].c), UNCHANGED <<scenario, regs, srv, tasks, rejects, todo>>
  PROVE  SInv'
<1>0. x \in ConnRec BY DEF Alike
<1>1. /\ {"arm", "pause"} \subseteq ConnPcs /\ {"idle", "start", "reject"} \subseteq Thens
  BY DEF ConnPcs, Thens
<1>2. CASE GotoThen(t, "arm", "idle") /\ Set(th[t].c, x)
  <2>1. Moves(t, "arm", "idle") /\ Becomes(th[t].c, x) BY <1>2 DEF Moves, Becomes
  <2> QED BY <1>1, <2>1, WorkStep DEF ThenOK, Parks
<1>3. ASSUME NEW size \in scenario.sizes, NEW declared \in scenario.declared,
             Set(th[t].c, [x EXCEPT !.size = size, !.declared = declared /\ size > 0, !.reqs = @ - 1]),
             GotoThen(t, "pause", "start")
      PROVE  SInv'
  <2> DEFINE v == declared /\ size > 0
             k == x.reqs - 1
             y == [x EXCEPT !.size = size, !.declared = v, !.reqs = k]
  <2>1. v \in BOOLEAN OBVIOUS
  <2>2. k \in Int BY <1>0 DEF ConnRec
  <2>3. size \in Sizes BY HttpServerAssumption DEF SInv, SrvTypeOK, Sizes
  <2> HIDE DEF v, k
  <2>4. y \in ConnRec /\ y.life = x.life /\ y.list = x.list /\ y.refs = x.refs /\ y.reg = x.reg
    BY <1>0, <2>1, <2>2, <2>3, Zenon DEF ConnRec
  <2>5. Becomes(th[t].c, y) BY <1>3, Zenon DEF Becomes, v, k
  <2> HIDE DEF y
  <2>6. Alike(y, conn[th[t].c]) BY <2>4 DEF Alike
  <2>7. Moves(t, "pause", "start") BY <1>3 DEF Moves
  <2> QED BY <1>1, <2>5, <2>6, <2>7, WorkStep DEF ThenOK, Parks
<1>4. ASSUME Set(th[t].c, [x EXCEPT !.reqs = @ - 1]), GotoThen(t, "pause", "reject")
      PROVE  SInv'
  <2> DEFINE k == x.reqs - 1
             y == [x EXCEPT !.reqs = k]
  <2>2. k \in Int BY <1>0 DEF ConnRec
  <2> HIDE DEF k
  <2>4. y \in ConnRec /\ y.life = x.life /\ y.list = x.list /\ y.refs = x.refs /\ y.reg = x.reg
    BY <1>0, <2>2, Zenon DEF ConnRec
  <2>5. Becomes(th[t].c, y) BY <1>4, Zenon DEF Becomes, k
  <2> HIDE DEF y
  <2>6. Alike(y, conn[th[t].c]) BY <2>4 DEF Alike
  <2>7. Moves(t, "pause", "reject") BY <1>4 DEF Moves
  <2> QED BY <1>1, <2>5, <2>6, <2>7, WorkStep DEF ThenOK, Parks
<1> QED BY <1>2, <1>3, <1>4 DEF Feeds

LEMMA PumpStep ==
  ASSUME SInv, TypeOK, NEW t \in Threads, Pump(t)
  PROVE  SInv'
<1>1. th[t].pc = "pump" /\ th[t].pc \in ConnPcs /\ th[t].pc \notin AdmitterPcs
  BY DEF Pump, Runs, ConnPcs, AdmitterPcs
<1>2. th[t].c \in Conns /\ Alike(conn[th[t].c], conn[th[t].c]) /\ th[t].then \in Thens /\ t # "admitter"
  BY <1>1, InHandOf
<1>3. MemQuiet(t, th[t].c) BY <1>2, MemQuietSteps DEF Pump
<1>4. UNCHANGED <<scenario, regs, srv, tasks, rejects, todo>> BY DEF Pump, others
<1>5. CASE Feeds(t, Has(t)) BY <1>1, <1>2, <1>3, <1>4, <1>5, FeedsStep DEF Has
<1>6. CASE Goto(t, "close") /\ UNCHANGED conn
  <2>1. Becomes(th[t].c, conn[th[t].c]) /\ Moves(t, "close", th[t].then) BY <1>6 DEF Becomes, Moves
  <2>2. "close" \in ConnPcs BY DEF ConnPcs
  <2> QED BY <1>1, <1>2, <1>3, <1>4, <2>1, <2>2, WorkStep DEF ThenOK, Parks
<1> QED BY <1>5, <1>6 DEF Pump

LEMMA OverStep ==
  ASSUME SInv, NEW t \in Threads, th[t].pc \in ConnPcs, NEW x, Alike(x, conn[th[t].c]),
         Over(t, x), MemQuiet(t, th[t].c), UNCHANGED <<scenario, regs, srv, tasks, rejects, todo>>
  PROVE  SInv'
<1>1. /\ {"drop", "close"} \subseteq ConnPcs /\ "linger" \in Thens /\ "linger" \in AfterDrop
      /\ {"drop", "close"} \subseteq AdmitterPcs
  BY DEF ConnPcs, Thens, Parks, AfterDrop, AdmitterPcs
<1>2. Becomes(th[t].c, x) BY DEF Over, Becomes
<1>3. Moves(t, "drop", "linger") \/ Moves(t, "close", th[t].then) BY DEF Over, Moves
<1>4. th[t].then \in Thens BY InHandOf
<1> QED BY <1>1, <1>2, <1>3, <1>4, WorkStep DEF ThenOK, Parks

LEMMA CountStep ==
  ASSUME SInv, TypeOK, NEW t \in Threads, Count(t)
  PROVE  SInv'
<1> DEFINE c == th[t].c
           k == th[t].rel + 1
           b == srv.worker_pool = "up"
           n == srv.in_flight + 1
<1>1. th[t].pc = "count" /\ th[t].pc \in ConnPcs BY DEF Count, Runs, ConnPcs
<1>2. /\ c \in Conns /\ conn[c] \in ConnRec /\ th[t].then \in Thens /\ th[t] \in ThRec
      /\ Alike(conn[c], conn[c]) /\ srv \in SrvRec /\ th \in [Threads -> ThRec] /\ conn \in [Conns -> ConnRec]
  BY <1>1, InHandOf DEF SInv, SrvTypeOK
<1>3. k \in Int /\ b \in BOOLEAN BY <1>2 DEF ThRec
<1>4. n \in Int BY <1>2 DEF SrvRec
<1>5. PICK p \in {"gate", "submit", "reject_pool"} :
        /\ th' = [th EXCEPT ![t].rel = @ + 1, ![t].pool = (srv.worker_pool = "up"), ![t].pc = p]
        /\ t = "admitter" => p = "submit"
  <2>1. t = "admitter" => th[t].then = "admitted" BY <1>1 DEF SInv, AdmitterInv
  <2> QED BY <2>1 DEF Count
<1>6. /\ p \in ConnPcs /\ p \in Pcs /\ p # "drop" /\ p # "enqueue" /\ ThenOK(p, th[t].then)
      /\ t = "admitter" => p \in AdmitterPcs \ {"count"}
  BY <1>5, PcSets DEF ConnPcs, AdmitterPcs, ThenOK
<1> HIDE DEF k, b, n
<1> DEFINE x == [th[t] EXCEPT !.rel = k, !.pool = b, !.pc = p]
           s == [srv EXCEPT !.in_flight = n]
<1>7. /\ x \in ThRec /\ x.pc = p /\ x.c = c /\ x.then = th[t].then /\ x.ev = th[t].ev /\ x.home = th[t].home
  BY <1>2, <1>3, <1>6, Zenon DEF ThRec
<1>8. th' = [th EXCEPT ![t] = x] BY <1>2, <1>5, Zenon DEF k, b, ThRec
<1>9. srv' = s BY DEF Count, n
<1>10. /\ s \in SrvRec /\ s.life = srv.life /\ s.refs = srv.refs /\ s.lreg = srv.lreg /\ s.spins = srv.spins
       /\ s.swept = srv.swept /\ s.worker_pool = srv.worker_pool /\ s.reject_pool = srv.reject_pool
  BY <1>2, <1>4, Zenon DEF SrvRec
<1>11. SrvSame BY <1>9, <1>10, Zenon DEF SrvSame
<1> HIDE DEF x, s
<1>12. ThIs(t, p, c, th[t].then) BY <1>2, <1>7, <1>8, ThReplaced DEF ThIs
<1>13. MemQuiet(t, c) /\ UNCHANGED <<conn, scenario, regs, tasks, rejects, todo>> BY <1>2, MemQuietSteps DEF Count
<1>14. ConnIs(c, conn[c]) BY <1>2, <1>13 DEF ConnIs
<1>15. Works(t, p, th[t].then, conn[c]) BY <1>1, <1>6, <1>12, <1>13, <1>14 DEF Works
<1> QED BY <1>11, <1>13, <1>15, WorksAlone

LEMMA GateStep ==
  ASSUME SInv, TypeOK, NEW t \in Threads, Gate(t)
  PROVE  SInv'
<1>1. th[t].pc = "gate" /\ th[t].pc \in ConnPcs /\ th[t].pc \notin AdmitterPcs
  BY DEF Gate, Runs, ConnPcs, AdmitterPcs
<1>2. th[t].c \in Conns /\ Alike(conn[th[t].c], conn[th[t].c]) /\ th[t].then \in Thens /\ t # "admitter"
  BY <1>1, InHandOf
<1>3. UNCHANGED <<scenario, regs, srv, tasks, rejects, todo>> /\ Becomes(th[t].c, conn[th[t].c])
  BY DEF Gate, others, Becomes
<1>4. {"submit", "enqueue"} \subseteq ConnPcs /\ "memstart" \in Thens BY DEF ConnPcs, Thens, Parks
<1>5. CASE Reserve(th[t].c, 1) /\ Goto(t, "submit")
  <2>1. MemQuiet(t, th[t].c) /\ Moves(t, "submit", th[t].then) BY <1>2, <1>5, MemQuietSteps DEF Moves
  <2> QED BY <1>1, <1>2, <1>3, <1>4, <2>1, WorkStep DEF ThenOK, Parks
<1>6. CASE ReserveFails(th[t].c, 1) /\ GotoThen(t, "enqueue", "memstart")
  <2>1. MemQuiet(t, th[t].c) /\ Moves(t, "enqueue", "memstart") BY <1>2, <1>6, MemQuietSteps DEF Moves
  <2>2. ~mem_exempt'[th[t].c] BY <1>2, <1>6, MemQuietSteps DEF memVars
  <2> QED BY <1>1, <1>2, <1>3, <1>4, <2>1, <2>2, WorkStep DEF ThenOK, Parks
<1> QED BY <1>5, <1>6 DEF Gate

LEMMA RejectPoolStep ==
  ASSUME SInv, TypeOK, NEW t \in Threads, RejectPool(t)
  PROVE  SInv'
<1>1. th[t].pc = "reject_pool" /\ th[t].pc \in ConnPcs BY DEF RejectPool, Runs, ConnPcs
<1>2. th[t].c \in Conns /\ Alike(conn[th[t].c], conn[th[t].c]) /\ th[t].then \in Thens BY <1>1, InHandOf
<1>3. UNCHANGED <<scenario, regs, srv, tasks, rejects, todo>> /\ Becomes(th[t].c, conn[th[t].c])
  BY DEF RejectPool, others, Becomes
<1>4. {"reject_submit", "reject"} \subseteq ConnPcs /\ {"reject_submit", "reject"} \subseteq AdmitterPcs
  BY DEF ConnPcs, AdmitterPcs
<1>5. MemQuiet(t, th[t].c) BY <1>2, MemQuietSteps DEF RejectPool
<1>6. Moves(t, "reject_submit", th[t].then) \/ Moves(t, "reject", th[t].then) BY DEF RejectPool, Moves
<1> QED BY <1>1, <1>2, <1>3, <1>4, <1>5, <1>6, WorkStep DEF ThenOK, Parks

LEMMA RejectStep ==
  ASSUME SInv, TypeOK, NEW t \in Threads, Reject(t)
  PROVE  SInv'
<1> DEFINE x == conn[th[t].c]
           y == [x EXCEPT !.wp = "reject"]
<1>1. th[t].pc = "reject" /\ th[t].pc \in ConnPcs BY DEF Reject, Runs, ConnPcs
<1>2. th[t].c \in Conns /\ Alike(x, x) /\ x \in ConnRec /\ th[t].then \in Thens BY <1>1, InHandOf
<1>3. UNCHANGED <<scenario, regs, srv, tasks, rejects, todo>> BY DEF Reject, others
<1>4. {"drop", "close"} \subseteq ConnPcs /\ {"drop", "close"} \subseteq AdmitterPcs /\ "write" \in Thens \cap AfterDrop
  BY DEF ConnPcs, AdmitterPcs, Thens, Parks, AfterDrop
<1>5. MemQuiet(t, th[t].c) BY <1>2, MemQuietSteps DEF Reject
<1>6. Alike(y, x) BY <1>2, Zenon DEF Alike, ConnRec
<1> HIDE DEF y
<1>7. CASE Over(t, Has(t)) BY <1>1, <1>2, <1>3, <1>5, <1>7, OverStep DEF Has
<1>8. CASE Set(th[t].c, [Has(t) EXCEPT !.wp = "reject"]) /\ GotoThen(t, "drop", "write")
  <2>1. Becomes(th[t].c, y) /\ Moves(t, "drop", "write") BY <1>8 DEF Becomes, Moves, Has, y
  <2> QED BY <1>1, <1>2, <1>3, <1>4, <1>5, <1>6, <2>1, WorkStep DEF ThenOK, Parks
<1>9. CASE Goto(t, "close") /\ UNCHANGED conn
  <2>1. Becomes(th[t].c, x) /\ Moves(t, "close", th[t].then) BY <1>9 DEF Becomes, Moves
  <2> QED BY <1>1, <1>2, <1>3, <1>4, <1>5, <2>1, WorkStep DEF ThenOK, Parks
<1> QED BY <1>7, <1>8, <1>9 DEF Reject

LEMMA LingerOfStep ==
  ASSUME SInv, TypeOK, NEW t \in Threads, Linger(t)
  PROVE  SInv'
<1>1. th[t].pc = "linger" /\ th[t].pc \in ConnPcs BY DEF Linger, Runs, ConnPcs
<1>2. th[t].c \in Conns /\ Alike(conn[th[t].c], conn[th[t].c]) /\ th[t].then \in Thens BY <1>1, InHandOf
<1>3. UNCHANGED <<scenario, regs, srv, tasks, rejects, todo>> /\ Becomes(th[t].c, conn[th[t].c])
  BY DEF Linger, others, Becomes
<1>4. {"arm", "close"} \subseteq ConnPcs /\ {"arm", "close"} \subseteq AdmitterPcs /\ "linger" \in Thens
  BY DEF ConnPcs, AdmitterPcs, Thens, Parks
<1>5. MemQuiet(t, th[t].c) BY <1>2, MemQuietSteps DEF Linger
<1>6. Moves(t, "arm", "linger") \/ Moves(t, "close", th[t].then) BY DEF Linger, Moves
<1> QED BY <1>1, <1>2, <1>3, <1>4, <1>5, <1>6, WorkStep DEF ThenOK, Parks

LEMMA TaskWorkerStep ==
  ASSUME SInv, TypeOK, NEW t \in Threads, TaskWorker(t)
  PROVE  SInv'
<1> DEFINE c == th[t].c
           x == conn[c]
<1>1. th[t].pc = "worker" /\ th[t].pc \in ConnPcs /\ th[t].pc \notin AdmitterPcs
  BY DEF TaskWorker, Runs, ConnPcs, AdmitterPcs
<1>2. c \in Conns /\ x \in ConnRec /\ Alike(x, x) /\ th[t].then \in Thens /\ t # "admitter" BY <1>1, InHandOf
<1>3. UNCHANGED <<scenario, regs, srv, tasks, rejects, todo>> BY DEF TaskWorker, others
<1>4. {"reject_pool", "body", "drop", "arm"} \subseteq ConnPcs /\ {"answer", "close", "write"} \subseteq Thens /\ "answer" \in AfterDrop
      /\ "close" \in AfterDrop
  BY DEF ConnPcs, Thens, Parks, AfterDrop
<1>5. MemQuiet(t, c) BY <1>2, MemQuietSteps DEF TaskWorker
<1> DEFINE nk == [x EXCEPT !.keep = FALSE]
           int == [x EXCEPT !.wp = "interim"]
<1>6. Alike(nk, x) /\ Alike(int, x) BY <1>2, Zenon DEF Alike, ConnRec
<1> HIDE DEF nk, int
<1>7. CASE Goto(t, "reject_pool") /\ UNCHANGED conn
  <2>1. Becomes(c, x) /\ Moves(t, "reject_pool", th[t].then) BY <1>7 DEF Becomes, Moves, Has
  <2> QED BY <1>1, <1>2, <1>3, <1>4, <1>5, <1>6, <2>1, WorkStep DEF ThenOK, Parks
<1>8. CASE Goto(t, "body") /\ UNCHANGED conn
  <2>1. Becomes(c, x) /\ Moves(t, "body", th[t].then) BY <1>8 DEF Becomes, Moves, Has
  <2> QED BY <1>1, <1>2, <1>3, <1>4, <1>5, <1>6, <2>1, WorkStep DEF ThenOK, Parks
<1>9. CASE Set(c, [Has(t) EXCEPT !.keep = FALSE]) /\ GotoThen(t, "drop", "answer")
  <2>1. Becomes(c, nk) /\ Moves(t, "drop", "answer") BY <1>9 DEF Becomes, Moves, Has, nk
  <2> QED BY <1>1, <1>2, <1>3, <1>4, <1>5, <1>6, <2>1, WorkStep DEF ThenOK, Parks
<1>10. CASE GotoThen(t, "drop", "close") /\ UNCHANGED conn
  <2>1. Becomes(c, x) /\ Moves(t, "drop", "close") BY <1>10 DEF Becomes, Moves, Has
  <2> QED BY <1>1, <1>2, <1>3, <1>4, <1>5, <1>6, <2>1, WorkStep DEF ThenOK, Parks
<1>11. CASE Set(c, [Has(t) EXCEPT !.wp = "interim"]) /\ GotoThen(t, "arm", "write")
  <2>1. Becomes(c, int) /\ Moves(t, "arm", "write") BY <1>11 DEF Becomes, Moves, Has, int
  <2> QED BY <1>1, <1>2, <1>3, <1>4, <1>5, <1>6, <2>1, WorkStep DEF ThenOK, Parks
<1> QED BY <1>7, <1>8, <1>9, <1>10, <1>11 DEF TaskWorker

LEMMA ResumeBodyStep ==
  ASSUME SInv, TypeOK, NEW t \in Threads, ResumeBody(t)
  PROVE  SInv'
<1> DEFINE c == th[t].c
           x == conn[c]
<1>1. th[t].pc = "resume" /\ th[t].pc \in ConnPcs /\ th[t].pc \notin AdmitterPcs
  BY DEF ResumeBody, Runs, ConnPcs, AdmitterPcs
<1>2. c \in Conns /\ x \in ConnRec /\ Alike(x, x) /\ th[t].then \in Thens /\ t # "admitter" BY <1>1, InHandOf
<1>3. UNCHANGED <<scenario, regs, srv, tasks, rejects, todo>> BY DEF ResumeBody, others
<1>4. {"body", "drop"} \subseteq ConnPcs /\ {"answer"} \subseteq Thens /\ "answer" \in AfterDrop
      /\ "close" \in AfterDrop
  BY DEF ConnPcs, Thens, Parks, AfterDrop
<1> DEFINE np == [x EXCEPT !.park = "none"]
           nk == [np EXCEPT !.keep = FALSE]
<1>6. Alike(np, x) /\ Alike(nk, x)
  <2>1. "none" \in Parks BY DEF Parks
  <2> QED BY <1>2, <2>1, Zenon DEF Alike, ConnRec
<1> HIDE DEF nk
<1>7. CASE Goto(t, "body") /\ Set(c, [Has(t) EXCEPT !.park = "none"]) /\ UNCHANGED memVars
  <2>1. Becomes(c, np) /\ Moves(t, "body", th[t].then) BY <1>7 DEF Becomes, Moves, Has, np
  <2>2. MemQuiet(t, c) BY <1>2, <1>7, MemQuietSteps
  <2> QED BY <1>1, <1>2, <1>3, <1>4, <2>2, <1>6, <2>1, WorkStep DEF ThenOK, Parks
<1>8. CASE Set(c, [[Has(t) EXCEPT !.park = "none"] EXCEPT !.keep = FALSE]) /\ GotoThen(t, "drop", "answer") /\ TrimTo(t, c, np.cap)
  <2>1. Becomes(c, nk) /\ Moves(t, "drop", "answer") BY <1>8 DEF Becomes, Moves, Has, nk
  <2>2. MemQuiet(t, c) BY <1>2, <1>8, MemQuietSteps
  <2> QED BY <1>1, <1>2, <1>3, <1>4, <2>2, <1>6, <2>1, WorkStep DEF ThenOK, Parks
<1> QED BY <1>7, <1>8 DEF ResumeBody, Has

LEMMA ResumeWriteStep ==
  ASSUME SInv, TypeOK, NEW t \in Threads, ResumeWrite(t)
  PROVE  SInv'
<1> DEFINE c == th[t].c
           x == conn[c]
<1>1. th[t].pc = "resume" /\ th[t].pc \in ConnPcs /\ th[t].pc \notin AdmitterPcs
  BY DEF ResumeWrite, Runs, ConnPcs, AdmitterPcs
<1>2. c \in Conns /\ x \in ConnRec /\ Alike(x, x) /\ th[t].then \in Thens /\ t # "admitter" BY <1>1, InHandOf
<1>3. UNCHANGED <<scenario, regs, srv, tasks, rejects, todo>> BY DEF ResumeWrite, others
<1>4. {"arm", "close", "body", "tail"} \subseteq ConnPcs /\ {"write"} \subseteq Thens /\ "answer" \in AfterDrop
      /\ "close" \in AfterDrop
  BY DEF ConnPcs, Thens, Parks, AfterDrop
<1>5. MemQuiet(t, c) BY <1>2, MemQuietSteps DEF ResumeWrite
<1> DEFINE np == [x EXCEPT !.park = "none"]
           nw == [np EXCEPT !.wp = "none"]
<1>6. Alike(np, x) /\ Alike(nw, x)
  <2>1. "none" \in Parks BY DEF Parks
  <2> QED BY <1>2, <2>1, Zenon DEF Alike, ConnRec
<1>7. CASE GotoThen(t, "arm", "write") /\ Set(c, np)
  <2>1. Becomes(c, np) /\ Moves(t, "arm", "write") BY <1>7 DEF Becomes, Moves, Has, np
  <2> QED BY <1>1, <1>2, <1>3, <1>4, <1>5, <1>6, <2>1, WorkStep DEF ThenOK, Parks
<1>8. CASE Goto(t, "close") /\ Set(c, nw)
  <2>1. Becomes(c, nw) /\ Moves(t, "close", th[t].then) BY <1>8 DEF Becomes, Moves, Has, nw
  <2> QED BY <1>1, <1>2, <1>3, <1>4, <1>5, <1>6, <2>1, WorkStep DEF ThenOK, Parks
<1>9. CASE Goto(t, "body") /\ Set(c, nw)
  <2>1. Becomes(c, nw) /\ Moves(t, "body", th[t].then) BY <1>9 DEF Becomes, Moves, Has, nw
  <2> QED BY <1>1, <1>2, <1>3, <1>4, <1>5, <1>6, <2>1, WorkStep DEF ThenOK, Parks
<1>10. CASE Goto(t, "tail") /\ Set(c, nw)
  <2>1. Becomes(c, nw) /\ Moves(t, "tail", th[t].then) BY <1>10 DEF Becomes, Moves, Has, nw
  <2> QED BY <1>1, <1>2, <1>3, <1>4, <1>5, <1>6, <2>1, WorkStep DEF ThenOK, Parks
<1>11. CASE Over(t, nw) BY <1>1, <1>2, <1>3, <1>5, <1>6, <1>11, OverStep
<1> QED BY <1>7, <1>8, <1>9, <1>10, <1>11 DEF ResumeWrite, Has

LEMMA HandlerStep ==
  ASSUME SInv, TypeOK, NEW t \in Threads, Handler(t)
  PROVE  SInv'
<1> DEFINE c == th[t].c
           x == conn[c]
<1>1. th[t].pc = "handler" /\ th[t].pc \in ConnPcs /\ th[t].pc \notin AdmitterPcs
  BY DEF Handler, Runs, ConnPcs, AdmitterPcs
<1>2. c \in Conns /\ x \in ConnRec /\ Alike(x, x) /\ th[t].then \in Thens /\ t # "admitter" BY <1>1, InHandOf
<1>3. UNCHANGED <<scenario, regs, srv, tasks, rejects, todo>> BY DEF Handler, others
<1>4. {"drop"} \subseteq ConnPcs /\ {"answer"} \subseteq Thens /\ "answer" \in AfterDrop
      /\ "close" \in AfterDrop
  BY DEF ConnPcs, Thens, Parks, AfterDrop
<1>5. MemQuiet(t, c) BY <1>2, MemQuietSteps DEF Handler
<1>6. PICK k \in BOOLEAN : Set(c, [x EXCEPT !.keep = k]) BY DEF Handler, Has
<1> DEFINE y == [x EXCEPT !.keep = k]
<1>7. Alike(y, x) BY <1>2, Zenon DEF Alike, ConnRec
<1> HIDE DEF y
<1>8. Becomes(c, y) /\ Moves(t, "drop", "answer") BY <1>6 DEF Handler, Becomes, Moves, y
<1> QED BY <1>1, <1>2, <1>3, <1>4, <1>5, <1>7, <1>8, WorkStep DEF ThenOK, Parks

LEMMA AnswerStep ==
  ASSUME SInv, TypeOK, NEW t \in Threads, Answer(t)
  PROVE  SInv'
<1> DEFINE c == th[t].c
           x == conn[c]
<1>1. th[t].pc = "answer" /\ th[t].pc \in ConnPcs /\ th[t].pc \notin AdmitterPcs
  BY DEF Answer, Runs, ConnPcs, AdmitterPcs
<1>2. c \in Conns /\ x \in ConnRec /\ Alike(x, x) /\ th[t].then \in Thens /\ t # "admitter" BY <1>1, InHandOf
<1>3. UNCHANGED <<scenario, regs, srv, tasks, rejects, todo>> BY DEF Answer, others
<1>4. {"tail", "arm", "close"} \subseteq ConnPcs /\ {"write"} \subseteq Thens /\ "answer" \in AfterDrop
      /\ "close" \in AfterDrop
  BY DEF ConnPcs, Thens, Parks, AfterDrop
<1>5. MemQuiet(t, c) BY <1>2, MemQuietSteps DEF Answer
<1> DEFINE y == [x EXCEPT !.wp = "response"]
<1>6. Alike(y, x) BY <1>2, Zenon DEF Alike, ConnRec
<1> HIDE DEF y
<1>7. CASE Goto(t, "tail") /\ UNCHANGED conn
  <2>1. Becomes(c, x) /\ Moves(t, "tail", th[t].then) BY <1>7 DEF Becomes, Moves, Has
  <2> QED BY <1>1, <1>2, <1>3, <1>4, <1>5, <1>6, <2>1, WorkStep DEF ThenOK, Parks
<1>8. CASE Over(t, x) BY <1>1, <1>2, <1>3, <1>5, <1>8, OverStep
<1>9. CASE GotoThen(t, "arm", "write") /\ Set(c, [x EXCEPT !.wp = "response"])
  <2>1. Becomes(c, y) /\ Moves(t, "arm", "write") BY <1>9 DEF Becomes, Moves, Has, y
  <2> QED BY <1>1, <1>2, <1>3, <1>4, <1>5, <1>6, <2>1, WorkStep DEF ThenOK, Parks
<1>10. CASE Goto(t, "close") /\ UNCHANGED conn
  <2>1. Becomes(c, x) /\ Moves(t, "close", th[t].then) BY <1>10 DEF Becomes, Moves, Has
  <2> QED BY <1>1, <1>2, <1>3, <1>4, <1>5, <1>6, <2>1, WorkStep DEF ThenOK, Parks
<1> QED BY <1>7, <1>8, <1>9, <1>10 DEF Answer, Has

LEMMA TaskTailStep ==
  ASSUME SInv, TypeOK, NEW t \in Threads, TaskTail(t)
  PROVE  SInv'
<1> DEFINE c == th[t].c
           x == conn[c]
<1>1. th[t].pc = "tail" /\ th[t].pc \in ConnPcs /\ th[t].pc \notin AdmitterPcs
  BY DEF TaskTail, Runs, ConnPcs, AdmitterPcs
<1>2. c \in Conns /\ x \in ConnRec /\ Alike(x, x) /\ th[t].then \in Thens /\ t # "admitter" BY <1>1, InHandOf
<1>3. UNCHANGED <<scenario, regs, srv, tasks, rejects, todo>> BY DEF TaskTail, others
<1>4. {"arm", "close"} \subseteq ConnPcs /\ {"idle"} \subseteq Thens /\ "answer" \in AfterDrop
      /\ "close" \in AfterDrop
  BY DEF ConnPcs, Thens, Parks, AfterDrop
<1>5. MemQuiet(t, c) BY <1>2, MemQuietSteps DEF TaskTail
<1> DEFINE y == [x EXCEPT !.div = FALSE, !.size = 0, !.len = 0, !.cap = 0, !.keep = FALSE]
<1>6. Alike(y, x) BY <1>2, Bounds, Zenon DEF Alike, ConnRec
<1>7. CASE GotoThen(t, "arm", "idle") /\ Set(c, y)
  <2>1. Becomes(c, y) /\ Moves(t, "arm", "idle") BY <1>7 DEF Becomes, Moves, Has, y
  <2> QED BY <1>1, <1>2, <1>3, <1>4, <1>5, <1>6, <2>1, WorkStep DEF ThenOK, Parks
<1>8. CASE Feeds(t, y) BY <1>1, <1>2, <1>3, <1>5, <1>6, <1>8, FeedsStep
<1>9. CASE Goto(t, "close") /\ Set(c, y)
  <2>1. Becomes(c, y) /\ Moves(t, "close", th[t].then) BY <1>9 DEF Becomes, Moves, Has, y
  <2> QED BY <1>1, <1>2, <1>3, <1>4, <1>5, <1>6, <2>1, WorkStep DEF ThenOK, Parks
<1> QED BY <1>7, <1>8, <1>9 DEF TaskTail, Has

\* What a body asks for is within the bound.
LEMMA TargetBound ==
  ASSUME NEW x \in ConnRec
  PROVE  Target(x) \in Sizes /\ Want(x) \in 0 .. MaxNeed
<1>1. x.cap \in 0 .. MaxBody /\ x.size \in 0 .. MaxBody /\ x.len \in Int BY DEF ConnRec, Sizes
<1>2. Ceiling(x) \in 0 .. MaxBody BY <1>1, Bounds DEF Ceiling
<1>3. Target(x) \in 0 .. MaxBody BY <1>1, <1>2, Bounds DEF Target
<1> QED BY <1>1, <1>3, Bounds DEF Sizes, Want

LEMMA GrowBound ==
  ASSUME NEW c \in Conns, conn[c] \in ConnRec
  PROVE  GrowTarget(c) \in Sizes
BY TargetBound DEF GrowTarget, ConnRec

LEMMA BodyStep ==
  ASSUME SInv, TypeOK, NEW t \in Threads, Body(t)
  PROVE  SInv'
<1> DEFINE c == th[t].c
           x == conn[c]
<1>1. th[t].pc = "body" /\ th[t].pc \in ConnPcs /\ th[t].pc \notin AdmitterPcs
  BY DEF Body, Runs, ConnPcs, AdmitterPcs
<1>2. c \in Conns /\ x \in ConnRec /\ Alike(x, x) /\ th[t].then \in Thens /\ t # "admitter" BY <1>1, InHandOf
<1>3. UNCHANGED <<scenario, regs, srv, tasks, rejects, todo>> BY DEF Body, others
<1>4. {"handler", "read", "enqueue"} \subseteq ConnPcs /\ {"carry", "membody"} \subseteq Thens /\ "answer" \in AfterDrop
      /\ "close" \in AfterDrop
  BY DEF ConnPcs, Thens, Parks, AfterDrop
<1>6. Becomes(c, x) BY DEF Body, Becomes
<1>7. CASE Goto(t, "handler") /\ UNCHANGED memVars
  <2>1. MemQuiet(t, c) /\ Moves(t, "handler", th[t].then) BY <1>2, <1>7, MemQuietSteps DEF Moves
  <2> QED BY <1>1, <1>2, <1>3, <1>4, <1>6, <2>1, WorkStep DEF ThenOK, Parks
<1>8. CASE GotoThen(t, "read", "carry") /\ UNCHANGED memVars
  <2>1. MemQuiet(t, c) /\ Moves(t, "read", "carry") BY <1>2, <1>8, MemQuietSteps DEF Moves
  <2> QED BY <1>1, <1>2, <1>3, <1>4, <1>6, <2>1, WorkStep DEF ThenOK, Parks
<1>9. CASE Goto(t, "read") /\ UNCHANGED memVars
  <2>1. MemQuiet(t, c) /\ Moves(t, "read", th[t].then) BY <1>2, <1>9, MemQuietSteps DEF Moves
  <2> QED BY <1>1, <1>2, <1>3, <1>4, <1>6, <2>1, WorkStep DEF ThenOK, Parks
<1>10. CASE Reserve(c, Step(c)) /\ Goto(t, "read")
  <2>1. MemQuiet(t, c) /\ Moves(t, "read", th[t].then) BY <1>2, <1>10, MemQuietSteps DEF Moves
  <2> QED BY <1>1, <1>2, <1>3, <1>4, <1>6, <2>1, WorkStep DEF ThenOK, Parks
<1>11. CASE Step(c) > 0 /\ ReserveFails(c, Step(c)) /\ GotoThen(t, "enqueue", "membody")
  <2>1. MemQuiet(t, c) /\ Moves(t, "enqueue", "membody") BY <1>2, <1>11, MemQuietSteps DEF Moves
  <2>2. ~mem_exempt'[c] /\ Want(x) - mem_charged'[c] > 0
    <3>1. UNCHANGED memVars /\ ~mem_exempt[c] BY <1>2, <1>11, MemQuietSteps
    <3> QED BY <1>11, <3>1 DEF memVars, memCounts, Step
  <2> QED BY <1>1, <1>2, <1>3, <1>4, <1>6, <2>1, <2>2, WorkStep DEF ThenOK, Parks
<1> QED BY <1>7, <1>8, <1>9, <1>10, <1>11 DEF Body

LEMMA ReadBodyStep ==
  ASSUME SInv, TypeOK, NEW t \in Threads, ReadBody(t)
  PROVE  SInv'
<1> DEFINE c == th[t].c
           x == conn[c]
<1>1. th[t].pc = "read" /\ th[t].pc \in ConnPcs /\ th[t].pc \notin AdmitterPcs
  BY DEF ReadBody, Runs, ConnPcs, AdmitterPcs
<1>2. c \in Conns /\ x \in ConnRec /\ Alike(x, x) /\ th[t].then \in Thens /\ t # "admitter" BY <1>1, InHandOf
<1>3. UNCHANGED <<scenario, regs, srv, tasks, rejects, todo>> BY DEF ReadBody, others
<1>4. {"body", "handler", "arm", "drop"} \subseteq ConnPcs /\ {"none", "body", "answer"} \subseteq Thens /\ "answer" \in AfterDrop
      /\ "close" \in AfterDrop
  BY DEF ConnPcs, Thens, Parks, AfterDrop
<1> DEFINE k == IF ArrivedWhole(c) THEN x.size ELSE x.len + 1
           g == GrowTarget(c)
           y == [x EXCEPT !.len = k, !.cap = g]
           nk == [x EXCEPT !.keep = FALSE]
<1>5. k \in Int /\ g \in Sizes BY <1>2, GrowBound DEF ConnRec, Sizes
<1> HIDE DEF k, g
<1>6. Alike(y, x) /\ Alike(nk, x) BY <1>2, <1>5, Zenon DEF Alike, ConnRec
<1> HIDE DEF nk, y
<1>7. ASSUME Set(c, [x EXCEPT !.len = IF ArrivedWhole(c) THEN x.size ELSE @ + 1, !.cap = GrowTarget(c)]),
             IF GrowTarget(c) > x.cap THEN TrimTo(t, c, GrowTarget(c)) ELSE UNCHANGED memVars,
             GotoThen(t, "body", "none") \/ GotoThen(t, "handler", "none")
      PROVE  SInv'
  <2>1. MemQuiet(t, c) BY <1>2, <1>7, MemQuietSteps
  <2>2. Becomes(c, y) BY <1>7, Zenon DEF Becomes, y, k, g
  <2>3. Moves(t, "body", "none") \/ Moves(t, "handler", "none") BY <1>7 DEF Moves
  <2> QED BY <1>1, <1>2, <1>3, <1>4, <1>6, <2>1, <2>2, <2>3, WorkStep DEF ThenOK, Parks
<1>8. CASE TrimTo(t, c, x.cap) /\ Goto(t, "handler") /\ UNCHANGED conn
  <2>1. Becomes(c, x) /\ Moves(t, "handler", th[t].then) BY <1>8 DEF Becomes, Moves, Has
  <2>2. MemQuiet(t, c) BY <1>2, <1>8, MemQuietSteps
  <2> QED BY <1>1, <1>2, <1>3, <1>4, <2>2, <1>6, <2>1, WorkStep DEF ThenOK, Parks
<1>9. CASE /\ IF x.cap > 0 THEN TrimTo(t, c, x.cap) ELSE UNCHANGED memVars
           /\ GotoThen(t, "arm", "body") /\ UNCHANGED conn
  <2>1. Becomes(c, x) /\ Moves(t, "arm", "body") BY <1>9 DEF Becomes, Moves, Has
  <2>2. MemQuiet(t, c) BY <1>2, <1>9, MemQuietSteps
  <2> QED BY <1>1, <1>2, <1>3, <1>4, <2>2, <1>6, <2>1, WorkStep DEF ThenOK, Parks
<1>10. CASE /\ Set(c, [x EXCEPT !.keep = FALSE])
            /\ GotoThen(t, "drop", "answer") /\ TrimTo(t, c, x.cap)
  <2>1. Becomes(c, nk) /\ Moves(t, "drop", "answer") BY <1>10 DEF Becomes, Moves, Has, nk
  <2>2. MemQuiet(t, c) BY <1>2, <1>10, MemQuietSteps
  <2> QED BY <1>1, <1>2, <1>3, <1>4, <2>2, <1>6, <2>1, WorkStep DEF ThenOK, Parks
<1> QED BY <1>7, <1>8, <1>9, <1>10 DEF ReadBody

-----------------------------------------------------------------------------
(* Steps that change the registration of the connection.                   *)

LEMMA WorksWhen ==
  ASSUME SInv, NEW t \in Threads, th[t].pc \in ConnPcs, NEW p \in ConnPcs, NEW q \in Thens, Moves(t, p, q),
         NEW y \in ConnRec, Becomes(th[t].c, y), MemQuiet(t, th[t].c),
         y.life = conn[th[t].c].life, y.list \in {"none", conn[th[t].c].list},
         UNCHANGED <<scenario, tasks, rejects, todo>>,
         ThenOK(p, q), p # "enqueue",
         t = "admitter" => p \in AdmitterPcs \ {"count"} /\ (p = "drop" => q \in {"deref", "write", "linger"})
  PROVE  Works(t, p, q, y)
<1>1. th \in [Threads -> ThRec] /\ conn \in [Conns -> ConnRec] BY DEF SInv, SrvTypeOK
<1>2. ThIs(t, p, th[t].c, q) BY <1>1, PcSets, GotoIs, GotoThenIs DEF Moves
<1>3. ConnIs(th[t].c, y)
  <2>1. th[t].c \in Conns BY InHandOf
  <2>2. CASE Set(th[t].c, y) BY <1>1, <2>1, <2>2, SetIs
  <2>3. CASE UNCHANGED conn /\ y = conn[th[t].c] BY <1>1, <2>3 DEF ConnIs
  <2> QED BY <2>2, <2>3 DEF Becomes
<1> QED BY <1>2, <1>3 DEF Works

RegIs(c, n, v) ==
  /\ regs' \in [Conns -> [1 .. MaxRegs -> RegStates]] /\ regs'[c][n] = v
  /\ \A d \in Conns, m \in 1 .. MaxRegs : d # c \/ m # n => regs'[d][m] = regs[d][m]

LEMMA RegSet ==
  ASSUME SrvTypeOK, NEW c \in Conns, NEW n \in 1 .. MaxRegs, NEW v \in RegStates, regs' = [regs EXCEPT ![c][n] = v]
  PROVE  RegIs(c, n, v)
BY DEF SrvTypeOK, RegIs

\* A registration that was watched and is not gone yet.
LEMMA RegWork ==
  ASSUME SInv, NEW t \in Threads, NEW p, NEW q, NEW y, Works(t, p, q, y), SrvSame,
         NEW v \in Live, conn[th[t].c].reg > 0, RegIs(th[t].c, conn[th[t].c].reg, v),
         y.refs = conn[th[t].c].refs,
         y.reg = 0 \/ (y.reg = conn[th[t].c].reg /\ v \in {"on", "paused"})
  PROVE  SInv'
<1> DEFINE c == th[t].c
           n == conn[c].reg
<1>1. SrvTypeOK /\ RefInv /\ SrvRefInv BY DEF SInv
<1>2. c \in Conns /\ conn[c] \in ConnRec BY InHandOf DEF Works
<1>3. n \in 1 .. MaxRegs BY <1>2, Bounds DEF ConnRec, RegNos
<1>4. v \in RegStates BY DEF Live, RegStates
<1>5. /\ regs' \in [Conns -> [1 .. MaxRegs -> RegStates]] /\ regs'[c][n] = v
      /\ \A d \in Conns, m \in 1 .. MaxRegs : d # c \/ m # n => regs'[d][m] = regs[d][m]
  BY DEF RegIs
<1>6. regs[c][n] \in Live BY <1>1, <1>2 DEF RefInv, Live
<1>7. \A d \in Conns, m \in 1 .. MaxRegs : regs'[d][m] \in Live <=> regs[d][m] \in Live BY <1>5, <1>6
<1>8. AllLive' = AllLive /\ \A d \in Conns : LiveAt(d)' = LiveAt(d)
  <2>1. \A z \in Conns \X (1 .. MaxRegs) : regs'[z[1]][z[2]] \in Live <=> regs[z[1]][z[2]] \in Live BY <1>7
  <2> QED BY <1>7, <2>1 DEF AllLive, LiveAt
<1>9. /\ SrvTypeOK' /\ PcInv' /\ HoldInv' /\ OnceInv' /\ EvInv' /\ NeedInv' /\ StageInv' /\ RestInv' /\ AdmitterInv'
      /\ th'["destroyer"].pc = "done" <=> th["destroyer"].pc = "done"
  BY <1>5, <1>8, WorksKeeps DEF SrvSame
<1>10. RefInv'
  <2> SUFFICES ASSUME NEW d \in Conns
               PROVE  /\ conn'[d].refs = Cardinality(LiveAt(d)') + (IF conn'[d].life = "open" THEN 1 ELSE 0)
                      /\ conn'[d].life \in {"none", "freed"} => conn'[d].refs = 0
                      /\ conn'[d].reg > 0 => regs'[d][conn'[d].reg] \in {"on", "paused"}
    BY DEF RefInv
  <2>1. /\ conn[d].refs = Cardinality(LiveAt(d)) + (IF conn[d].life = "open" THEN 1 ELSE 0)
        /\ conn[d].life \in {"none", "freed"} => conn[d].refs = 0
        /\ conn[d].reg > 0 => regs[d][conn[d].reg] \in {"on", "paused"}
    BY <1>1 DEF RefInv
  <2>2. conn'[c] = y /\ (d # c => conn'[d] = conn[d]) BY DEF Works, ConnIs
  <2>3. CASE d = c BY <1>5, <1>8, <2>1, <2>2, <2>3 DEF Works
  <2>4. CASE d # c
    <3>1. conn[d].reg \in RegNos BY <1>1 DEF SrvTypeOK, ConnRec
    <3>2. conn[d].reg > 0 => conn[d].reg \in 1 .. MaxRegs BY <3>1 DEF RegNos
    <3> QED BY <1>5, <1>8, <2>1, <2>2, <2>4, <3>2
  <2> QED BY <2>3, <2>4
<1>11. SrvRefInv' BY <1>1, <1>8, <1>9 DEF SrvRefInv, SrvSame
<1> QED BY <1>9, <1>10, <1>11 DEF SInv

LEMMA RegNoOf ==
  ASSUME SInv, NEW c \in Conns, conn[c].reg > 0
  PROVE  conn[c].reg \in 1 .. MaxRegs /\ SrvTypeOK /\ {"on", "paused", "removed"} \subseteq RegStates \cap Live
<1>1. SrvTypeOK BY DEF SInv
<1>2. conn[c] \in ConnRec BY <1>1 DEF SrvTypeOK
<1>3. conn[c].reg \in RegNos BY <1>2 DEF ConnRec
<1> QED BY <1>1, <1>3 DEF RegNos, RegStates, Live

LEMMA CloseStep ==
  ASSUME SInv, TypeOK, NEW t \in Threads, Close(t)
  PROVE  SInv'
<1> DEFINE c == th[t].c
           x == conn[c]
           y == [x EXCEPT !.list = "none", !.div = FALSE, !.park = "none", !.reg = 0, !.wp = "none"]
<1>1. th[t].pc = "close" /\ th[t].pc \in ConnPcs BY DEF Close, Runs, ConnPcs
<1>2. c \in Conns /\ x \in ConnRec BY <1>1, InHandOf
<1>3. y \in ConnRec /\ y.life = x.life /\ y.list = "none" /\ y.refs = x.refs /\ y.reg = 0
  <2>1. "none" \in Parks BY DEF Parks
  <2> QED BY <1>2, <2>1, Bounds, Zenon DEF ConnRec
<1>4. UNCHANGED <<scenario, srv, tasks, rejects, todo>> BY DEF Close, others
<1>5. "drop" \in ConnPcs /\ "drop" \in AdmitterPcs /\ "deref" \in Thens \cap AfterDrop
  BY DEF ConnPcs, AdmitterPcs, Thens, AfterDrop
<1>6. MemQuiet(t, c) BY <1>2, MemQuietSteps DEF Close
<1>7. Becomes(c, y) /\ Moves(t, "drop", "deref") BY DEF Close, Becomes, Moves
<1>8. regs' = IF x.reg > 0 THEN [regs EXCEPT ![c][x.reg] = "removed"] ELSE regs BY DEF Close
<1> HIDE DEF y
<1>9. Works(t, "drop", "deref", y) BY <1>1, <1>3, <1>4, <1>5, <1>6, <1>7, WorksWhen DEF ThenOK, Parks
<1>10. SrvSame BY <1>4 DEF SInv, SrvTypeOK, SrvSame
<1>11. CASE x.reg > 0
  <2>1. RegIs(c, x.reg, "removed") /\ "removed" \in Live BY <1>2, <1>8, <1>11, RegNoOf, RegSet
  <2> QED BY <1>3, <1>9, <1>10, <1>11, <2>1, RegWork
<1>12. CASE ~(x.reg > 0)
  <2>1. x.reg = 0 BY <1>2, <1>12 DEF ConnRec, RegNos
  <2> QED BY <1>3, <1>8, <1>9, <1>10, <1>12, <2>1, WorksAlone
<1> QED BY <1>11, <1>12

LEMMA PauseStep ==
  ASSUME SInv, TypeOK, NEW t \in Threads, Pause(t)
  PROVE  SInv'
<1> DEFINE c == th[t].c
           x == [conn[c] EXCEPT !.list = "none", !.div = TRUE]
           y == [x EXCEPT !.reg = 0]
<1>1. th[t].pc = "pause" /\ th[t].pc \in ConnPcs /\ th[t].pc \notin AdmitterPcs
  BY DEF Pause, Runs, ConnPcs, AdmitterPcs
<1>2. c \in Conns /\ conn[c] \in ConnRec /\ t # "admitter" /\ th[t].then \in Thens BY <1>1, InHandOf
<1>3. x \in ConnRec /\ x.life = conn[c].life /\ x.list = "none" /\ x.refs = conn[c].refs /\ x.reg = conn[c].reg
  BY <1>2, Zenon DEF ConnRec
<1>3a. y \in ConnRec /\ y.life = x.life /\ y.list = x.list /\ y.refs = x.refs /\ y.reg = 0
  BY <1>3, Bounds, Zenon DEF ConnRec
<1>4. UNCHANGED <<scenario, srv, tasks, rejects, todo>> BY DEF Pause, others
<1>5. "count" \in ConnPcs BY DEF ConnPcs
<1>6. MemQuiet(t, c) BY <1>2, MemQuietSteps DEF Pause
<1>7. Moves(t, "count", th[t].then) BY DEF Pause, Moves
<1>8. \/ Set(c, x) /\ regs' = IF x.reg > 0 THEN [regs EXCEPT ![c][x.reg] = "paused"] ELSE regs
      \/ x.reg > 0 /\ regs' = [regs EXCEPT ![c][x.reg] = "removed"] /\ Set(c, y)
  BY DEF Pause
<1> HIDE DEF x, y
<1>10. SrvSame BY <1>4 DEF SInv, SrvTypeOK, SrvSame
<1>11. CASE Set(c, x) /\ x.reg > 0 /\ regs' = [regs EXCEPT ![c][x.reg] = "paused"]
  <2>1. Works(t, "count", th[t].then, x) BY <1>1, <1>2, <1>3, <1>4, <1>5, <1>6, <1>7, <1>11, WorksWhen DEF Becomes, ThenOK, Parks
  <2>2. conn[c].reg > 0 /\ regs' = [regs EXCEPT ![c][conn[c].reg] = "paused"] BY <1>3, <1>11, Zenon
  <2>3. RegIs(c, conn[c].reg, "paused") /\ "paused" \in Live BY <1>2, <2>2, RegNoOf, RegSet
  <2> QED BY <1>3, <1>10, <2>1, <2>2, <2>3, RegWork
<1>12. CASE Set(c, x) /\ regs' = regs
  <2>1. Works(t, "count", th[t].then, x) BY <1>1, <1>2, <1>3, <1>4, <1>5, <1>6, <1>7, <1>12, WorksWhen DEF Becomes, ThenOK, Parks
  <2> QED BY <1>3, <1>10, <1>12, <2>1, WorksAlone
<1>13. CASE x.reg > 0 /\ regs' = [regs EXCEPT ![c][x.reg] = "removed"] /\ Set(c, y)
  <2>1. Works(t, "count", th[t].then, y)
    BY <1>1, <1>2, <1>3, <1>3a, <1>4, <1>5, <1>6, <1>7, <1>13, WorksWhen DEF Becomes, ThenOK, Parks
  <2>2. conn[c].reg > 0 /\ regs' = [regs EXCEPT ![c][conn[c].reg] = "removed"] BY <1>3, <1>13, Zenon
  <2>3. RegIs(c, conn[c].reg, "removed") /\ "removed" \in Live BY <1>2, <2>2, RegNoOf, RegSet
  <2>4. y.refs = conn[c].refs /\ y.reg = 0 BY <1>3, <1>3a
  <2> QED BY <1>10, <2>1, <2>2, <2>3, <2>4, RegWork
<1> QED BY <1>8, <1>11, <1>12, <1>13

-----------------------------------------------------------------------------
(* Who refers to the server keeps it.                                      *)

LEMMA LiveFinite ==
  /\ IsFiniteSet(AllLive) /\ Cardinality(AllLive) \in Nat
  /\ \A c \in Conns : IsFiniteSet(LiveAt(c)) /\ Cardinality(LiveAt(c)) \in Nat
<1>1. IsFiniteSet(1 .. MaxRegs) BY Bounds, FS_Interval
<1>2. IsFiniteSet(Conns \X (1 .. MaxRegs)) BY <1>1, BodyMemoryAssumption, FS_Product
<1>3. IsFiniteSet(AllLive) BY <1>2, FS_Subset DEF AllLive
<1>4. \A c \in Conns : IsFiniteSet(LiveAt(c)) BY <1>1, FS_Subset DEF LiveAt
<1> QED BY <1>3, <1>4, FS_CardinalityType

LEMMA Lives ==
  ASSUME SInv, TypeOK
  PROVE  ServerLives
<1> SUFFICES ASSUME srv.life = "freed"
             PROVE  /\ \A t \in Threads : th[t].pc \in {"rest", "done"} /\ t \notin calls /\ mem_admitting # t
                    /\ \A c \in Conns, n \in 1 .. MaxRegs : regs[c][n] \in {"none", "gone"}
  BY DEF ServerLives
<1>1. SrvTypeOK /\ SrvRefInv /\ EvInv /\ StageInv /\ RestInv /\ AdmitterInv BY DEF SInv
<1>2. Cardinality(AllLive) = 0 /\ th["destroyer"].pc = "done" /\ srv.lreg = "gone"
  BY <1>1, LiveFinite DEF SrvRefInv
<1>3. AllLive = {} BY <1>2, LiveFinite, FS_EmptySet
<1>4. \A r \in Reactors : th[r].pc = "rest" /\ r \notin calls /\ mem_admitting # r
  BY <1>1, <1>2, <1>3 DEF EvInv, RestInv
<1>5. /\ \A u \in Workers \cup Rejecters : th[u].pc = "rest" /\ u \notin calls /\ mem_admitting # u
      /\ th["sweep"].pc = "rest"
  BY <1>1, <1>2 DEF StageInv
<1>6. /\ \A u \in {"sweep", "destroyer"} : th[u].pc \in {"rest", "done"} /\ u \notin calls /\ mem_admitting # u
      /\ mem_admitting # "expired"
  BY <1>1, <1>2, <1>5 DEF RestInv
<1>7. mem_admitting = Null
  BY <1>1, <1>4, <1>5, <1>6, HttpServerAssumption DEF TypeOK, AdmitterInv, Threads
<1>8. th["admitter"].pc = "rest" /\ "admitter" \notin calls /\ mem_admitting # "admitter"
  BY <1>1, <1>7 DEF AdmitterInv
<1>9. \A t \in Threads : th[t].pc \in {"rest", "done"} /\ t \notin calls /\ mem_admitting # t
  BY <1>4, <1>5, <1>6, <1>8 DEF Threads
<1>10. ASSUME NEW c \in Conns, NEW n \in 1 .. MaxRegs
       PROVE  regs[c][n] \in {"none", "gone"}
  <2>1. <<c, n>> \notin AllLive BY <1>3
  <2>2. regs[c][n] \notin Live BY <2>1 DEF AllLive
  <2>3. regs \in [Conns -> [1 .. MaxRegs -> RegStates]] BY <1>1 DEF SrvTypeOK
  <2>4. regs[c][n] \in RegStates BY <2>3
  <2> QED BY <2>2, <2>4 DEF Live, RegStates
<1> QED BY <1>9, <1>10

LEMMA StillUp ==
  ASSUME SInv, TypeOK, NEW t \in Threads, th[t].pc \notin {"rest", "done"}
  PROVE  srv.life = "up"
BY Lives DEF ServerLives, SInv, SrvTypeOK, SrvRec

\* A registration is added, or one is gone.
LEMMA LiveChange ==
  ASSUME NEW c \in Conns, NEW n \in 1 .. MaxRegs, NEW v, RegIs(c, n, v)
  PROVE  /\ regs[c][n] \notin Live /\ v \in Live =>
              /\ AllLive' = AllLive \cup {<<c, n>>} /\ Cardinality(AllLive') = Cardinality(AllLive) + 1
              /\ LiveAt(c)' = LiveAt(c) \cup {n} /\ Cardinality(LiveAt(c)') = Cardinality(LiveAt(c)) + 1
         /\ regs[c][n] \in Live /\ v \notin Live =>
              /\ AllLive' = AllLive \ {<<c, n>>} /\ Cardinality(AllLive') = Cardinality(AllLive) - 1
              /\ LiveAt(c)' = LiveAt(c) \ {n} /\ Cardinality(LiveAt(c)') = Cardinality(LiveAt(c)) - 1
         /\ \A d \in Conns : d # c => LiveAt(d)' = LiveAt(d)
<1>1. /\ regs'[c][n] = v
      /\ \A d \in Conns, m \in 1 .. MaxRegs : d # c \/ m # n => regs'[d][m] = regs[d][m]
  BY DEF RegIs
<1>2. \A z \in Conns \X (1 .. MaxRegs) : z # <<c, n>> => (regs'[z[1]][z[2]] \in Live <=> regs[z[1]][z[2]] \in Live)
  BY <1>1
<1>3. <<c, n>> \in Conns \X (1 .. MaxRegs) /\ <<c, n>>[1] = c /\ <<c, n>>[2] = n OBVIOUS
<1>4. \A d \in Conns : d # c => LiveAt(d)' = LiveAt(d) BY <1>1 DEF LiveAt
<1>5. ASSUME regs[c][n] \notin Live, v \in Live
      PROVE  /\ AllLive' = AllLive \cup {<<c, n>>} /\ Cardinality(AllLive') = Cardinality(AllLive) + 1
             /\ LiveAt(c)' = LiveAt(c) \cup {n} /\ Cardinality(LiveAt(c)') = Cardinality(LiveAt(c)) + 1
  <2>1. AllLive' = AllLive \cup {<<c, n>>} /\ <<c, n>> \notin AllLive BY <1>1, <1>2, <1>3, <1>5 DEF AllLive
  <2>2. LiveAt(c)' = LiveAt(c) \cup {n} /\ n \notin LiveAt(c) BY <1>1, <1>5 DEF LiveAt
  <2> QED BY <2>1, <2>2, LiveFinite, FS_AddElement
<1>6. ASSUME regs[c][n] \in Live, v \notin Live
      PROVE  /\ AllLive' = AllLive \ {<<c, n>>} /\ Cardinality(AllLive') = Cardinality(AllLive) - 1
             /\ LiveAt(c)' = LiveAt(c) \ {n} /\ Cardinality(LiveAt(c)') = Cardinality(LiveAt(c)) - 1
  <2>1. AllLive' = AllLive \ {<<c, n>>} /\ <<c, n>> \in AllLive BY <1>1, <1>2, <1>3, <1>6 DEF AllLive
  <2>2. LiveAt(c)' = LiveAt(c) \ {n} /\ n \in LiveAt(c) BY <1>1, <1>6 DEF LiveAt
  <2> QED BY <2>1, <2>2, LiveFinite, FS_RemoveElement
<1> QED BY <1>4, <1>5, <1>6

LEMMA FreshReg ==
  ASSUME NEW f, \E n \in 1 .. MaxRegs : f[n] = "none"
  PROVE  LET n == CHOOSE n \in 1 .. MaxRegs : f[n] = "none" /\ \A m \in 1 .. n - 1 : f[m] # "none"
         IN  n \in 1 .. MaxRegs /\ f[n] = "none"
<1> DEFINE S == {n \in 1 .. MaxRegs : f[n] = "none"}
           R == {p \in Nat \X Nat : p[1] < p[2]}
<1>1. IsWellFoundedOn(R, Nat) BY NatLessThanWellFounded DEF OpToRel
<1>2. S \subseteq Nat /\ S # {} BY Bounds
<1>3. PICK n \in S : \A m \in S : <<m, n>> \notin R BY <1>1, <1>2, WFMin
<1>4. \A m \in 1 .. n - 1 : f[m] # "none"
  <2> SUFFICES ASSUME NEW m \in 1 .. n - 1, f[m] = "none" PROVE FALSE OBVIOUS
  <2>1. m \in S /\ m < n /\ n \in Nat /\ m \in Nat BY Bounds
  <2>2. <<m, n>> \in R BY <2>1
  <2> QED BY <1>3, <2>1, <2>2
<1> QED BY <1>4

LEMMA ArmStep ==
  ASSUME SInv, TypeOK, NEW t \in Threads, Arm(t)
  PROVE  SInv'
<1> DEFINE c == th[t].c
           q == IF th[t].then = "idle" THEN "none" ELSE th[t].then
           x == [conn[c] EXCEPT !.div = FALSE, !.park = q]
<1>1. th[t].pc = "arm" /\ th[t].pc \in ConnPcs BY DEF Arm, Runs, ConnPcs
<1>2. /\ c \in Conns /\ conn[c] \in ConnRec /\ th[t].then \in Thens /\ SrvTypeOK /\ RefInv /\ SrvRefInv
      /\ regs \in [Conns -> [1 .. MaxRegs -> RegStates]] /\ srv \in SrvRec
  BY <1>1, InHandOf DEF SInv, SrvTypeOK
<1>3. q \in Parks BY <1>1 DEF SInv, PcInv, ThenOK, Parks
<1> HIDE DEF q
<1>4. x \in ConnRec /\ x.life = conn[c].life /\ x.list = conn[c].list /\ x.refs = conn[c].refs /\ x.reg = conn[c].reg
  BY <1>2, <1>3, Zenon DEF ConnRec
<1>5. UNCHANGED <<scenario, tasks, rejects, todo>> /\ MemQuiet(t, c) BY <1>2, MemQuietSteps DEF Arm
<1>6. {"list", "close"} \subseteq ConnPcs /\ {"list", "close"} \subseteq AdmitterPcs \ {"count"} /\ {"on"} \subseteq Live \cap RegStates
  BY DEF ConnPcs, AdmitterPcs, Live, RegStates
<1> DEFINE fresh == CHOOSE n \in 1 .. MaxRegs : regs[c][n] = "none" /\ \A m \in 1 .. n - 1 : regs[c][m] # "none"
<1>7. \/ /\ x.reg > 0 /\ Set(c, x) /\ regs' = [regs EXCEPT ![c][x.reg] = "on"]
         /\ Goto(t, "list") /\ UNCHANGED srv
      \/ /\ x.reg = 0 /\ \E n \in 1 .. MaxRegs : regs[c][n] = "none"
         /\ Set(c, [x EXCEPT !.reg = fresh, !.refs = @ + 1]) /\ regs' = [regs EXCEPT ![c][fresh] = "on"]
         /\ srv' = [srv EXCEPT !.refs = @ + 1] /\ Goto(t, "list")
      \/ Set(c, [x EXCEPT !.park = "none", !.wp = "none"]) /\ Goto(t, "close") /\ UNCHANGED <<regs, srv>>
  BY Zenon DEF Arm, q
<1> HIDE DEF fresh, x
<1>8. CASE /\ x.reg > 0 /\ Set(c, x) /\ regs' = [regs EXCEPT ![c][x.reg] = "on"]
           /\ Goto(t, "list") /\ UNCHANGED srv
  <2>1. Becomes(c, x) /\ Moves(t, "list", th[t].then) BY <1>8 DEF Becomes, Moves
  <2>2. Works(t, "list", th[t].then, x)
    BY <1>1, <1>2, <1>4, <1>5, <1>6, <2>1, WorksWhen DEF ThenOK
  <2>3. conn[c].reg > 0 /\ regs' = [regs EXCEPT ![c][conn[c].reg] = "on"] BY <1>4, <1>8, Zenon
  <2>4. RegIs(c, conn[c].reg, "on") BY <1>2, <2>3, RegNoOf, RegSet
  <2>5. SrvSame BY <1>2, <1>8 DEF SrvSame
  <2> QED BY <1>4, <1>6, <2>2, <2>3, <2>4, <2>5, RegWork
<1>9. CASE /\ x.reg = 0 /\ \E n \in 1 .. MaxRegs : regs[c][n] = "none"
           /\ Set(c, [x EXCEPT !.reg = fresh, !.refs = @ + 1]) /\ regs' = [regs EXCEPT ![c][fresh] = "on"]
           /\ srv' = [srv EXCEPT !.refs = @ + 1] /\ Goto(t, "list")
  <2> DEFINE k == x.refs + 1
             y == [x EXCEPT !.reg = fresh, !.refs = k]
             m == srv.refs + 1
             s == [srv EXCEPT !.refs = m]
  <2>1. fresh \in 1 .. MaxRegs /\ regs[c][fresh] = "none" BY <1>9, FreshReg DEF fresh
  <2>2. fresh \in RegNos BY <2>1, Bounds DEF RegNos
  <2>3. k \in Int /\ m \in Int BY <1>2, <1>4 DEF ConnRec, SrvRec
  <2> HIDE DEF k, m
  <2>4. y \in ConnRec /\ y.life = x.life /\ y.list = x.list /\ y.refs = k /\ y.reg = fresh
    BY <1>4, <2>2, <2>3, Zenon DEF ConnRec
  <2>5. /\ s \in SrvRec /\ s.life = srv.life /\ s.refs = m /\ s.lreg = srv.lreg /\ s.spins = srv.spins
        /\ s.swept = srv.swept /\ s.worker_pool = srv.worker_pool /\ s.reject_pool = srv.reject_pool
    BY <1>2, <2>3, Zenon DEF SrvRec
  <2>6. Set(c, y) /\ srv' = s BY <1>9, Zenon DEF k, m
  <2> HIDE DEF y, s
  <2>7. Works(t, "list", th[t].then, y)
    <3>1. Becomes(c, y) /\ Moves(t, "list", th[t].then) BY <1>9, <2>6 DEF Becomes, Moves
    <3> QED BY <1>1, <1>2, <1>4, <1>5, <1>6, <2>4, <3>1, WorksWhen DEF ThenOK
  <2>8. RegIs(c, fresh, "on") BY <1>2, <1>6, <1>9, <2>1, RegSet
  <2>9. "none" \notin Live /\ "on" \in Live BY DEF Live
  <2>10. /\ AllLive' = AllLive \cup {<<c, fresh>>} /\ Cardinality(AllLive') = Cardinality(AllLive) + 1
         /\ \A d \in Conns : d = c => Cardinality(LiveAt(d)') = Cardinality(LiveAt(d)) + 1
         /\ \A d \in Conns : d # c => LiveAt(d)' = LiveAt(d)
    BY <1>2, <2>1, <2>8, <2>9, LiveChange
  <2>11. /\ SrvTypeOK' /\ PcInv' /\ HoldInv' /\ OnceInv' /\ EvInv' /\ NeedInv' /\ StageInv' /\ RestInv' /\ AdmitterInv'
         /\ th'["destroyer"].pc = "done" <=> th["destroyer"].pc = "done"
    BY <2>5, <2>6, <2>7, <2>8, <2>10, WorksKeeps DEF RegIs
  <2>12. RefInv'
    <3> SUFFICES ASSUME NEW d \in Conns
                 PROVE  /\ conn'[d].refs = Cardinality(LiveAt(d)') + (IF conn'[d].life = "open" THEN 1 ELSE 0)
                        /\ conn'[d].life \in {"none", "freed"} => conn'[d].refs = 0
                        /\ conn'[d].reg > 0 => regs'[d][conn'[d].reg] \in {"on", "paused"}
      BY DEF RefInv
    <3>1. /\ conn[d].refs = Cardinality(LiveAt(d)) + (IF conn[d].life = "open" THEN 1 ELSE 0)
          /\ conn[d].life \in {"none", "freed"} => conn[d].refs = 0
          /\ conn[d].reg > 0 => regs[d][conn[d].reg] \in {"on", "paused"}
      BY <1>2 DEF RefInv
    <3>2. conn'[c] = y /\ (d # c => conn'[d] = conn[d]) BY <2>7 DEF Works, ConnIs
    <3>3. CASE d = c
      <4>1. conn[c].life = "open" BY <1>1, HandAlone DEF SInv
      <4>2. Cardinality(LiveAt(d)) \in Nat /\ regs'[c][fresh] = "on" BY <1>2, <2>8, LiveFinite DEF RegIs
      <4> QED BY <1>4, <2>4, <2>10, <3>1, <3>2, <3>3, <4>1, <4>2 DEF k
    <3>4. CASE d # c
      <4>1. conn[d] \in ConnRec BY <1>2 DEF SrvTypeOK
      <4>2. conn[d].reg > 0 => conn[d].reg \in 1 .. MaxRegs BY <4>1 DEF ConnRec, RegNos
      <4>3. conn[d].reg > 0 => regs'[d][conn[d].reg] = regs[d][conn[d].reg] BY <2>8, <3>4, <4>2 DEF RegIs
      <4> QED BY <2>10, <3>1, <3>2, <3>4, <4>3
    <3> QED BY <3>3, <3>4
  <2>13. SrvRefInv'
    <3>1. srv.life = "up" BY <1>1, StillUp
    <3>2. Cardinality(AllLive) \in Nat BY LiveFinite
    <3>3. srv.refs = Cardinality(AllLive) + (IF th["destroyer"].pc = "done" THEN 0 ELSE 1)
                                     + (IF srv.lreg = "gone" THEN 0 ELSE 1)
      BY <1>2 DEF SrvRefInv
    <3>4. srv'.refs = Cardinality(AllLive') + (IF th'["destroyer"].pc = "done" THEN 0 ELSE 1)
                                     + (IF srv'.lreg = "gone" THEN 0 ELSE 1)
      BY <2>5, <2>6, <2>10, <2>11, <3>2, <3>3 DEF m
    <3>5. srv'.life # "freed" BY <2>5, <2>6, <3>1
    <3> QED BY <3>4, <3>5 DEF SrvRefInv
  <2> QED BY <2>11, <2>12, <2>13 DEF SInv
<1>10. CASE Set(c, [x EXCEPT !.park = "none", !.wp = "none"]) /\ Goto(t, "close") /\ UNCHANGED <<regs, srv>>
  <2> DEFINE y == [x EXCEPT !.park = "none", !.wp = "none"]
  <2>1. y \in ConnRec /\ y.life = x.life /\ y.list = x.list /\ y.refs = x.refs /\ y.reg = x.reg
    <3>1. "none" \in Parks BY DEF Parks
    <3> QED BY <1>4, <3>1, Zenon DEF ConnRec
  <2>2. Becomes(c, y) /\ Moves(t, "close", th[t].then) BY <1>10 DEF Becomes, Moves
  <2> HIDE DEF y
  <2>3. Alike(y, conn[c]) BY <1>4, <2>1 DEF Alike
  <2> QED BY <1>1, <1>2, <1>5, <1>6, <1>10, <2>2, <2>3, WorkStep DEF ThenOK
<1> QED BY <1>7, <1>8, <1>9, <1>10

-----------------------------------------------------------------------------
(* Giving the connection away.                                             *)

\* c is nobody else's, and the only connection a step of t changes.
Only(t, c) ==
  /\ \A u \in Threads : u # t /\ th[u].pc \in ConnPcs => th[u].c # c
  /\ \A d \in Conns : d # c => /\ conn'[d] = conn[d] /\ mem_exempt'[d] = mem_exempt[d]
                               /\ mem_charged'[d] = mem_charged[d]

LEMMA LeavesWhen ==
  ASSUME SInv, NEW t \in Threads, NEW c, Only(t, c),
         calls' \subseteq calls \cup {t}, UNCHANGED <<mem_admitting, locked, mem_admission_closed>>,
         AllLive \subseteq AllLive', srv'.lreg = srv.lreg, srv'.spins = srv.spins, srv'.swept = srv.swept,
         srv'.worker_pool = srv.worker_pool, srv'.reject_pool = srv.reject_pool,
         srv.worker_pool = "shut" => UNCHANGED tasks, srv.reject_pool = "shut" => UNCHANGED rejects
  PROVE  Leaves(t)
<1>1. ASSUME NEW u \in Threads, u # t, th[u].pc = "enqueue"
      PROVE  mem_exempt'[th[u].c] = mem_exempt[th[u].c] /\ NextStep(th[u].c) = Step(th[u].c)
  <2>1. th[u].pc \in ConnPcs BY <1>1 DEF ConnPcs
  <2>2. th[u].c \in Conns /\ th[u].c # c BY <1>1, <2>1, InHandOf DEF Only
  <2> QED BY <2>2 DEF NextStep, Step, Only
<1> QED BY <1>1 DEF Leaves

LEMMA LeaveGoes ==
  ASSUME SInv, NEW t \in Threads, th[t].pc \in ConnPcs \cup AfterPcs \cup {"claim"},
         NEW p \in {th[t].home, "ends", "queued"}, NEW q, ThIs(t, p, Null, q), Leaves(t),
         t = "admitter" => p # "queued" /\ t \notin calls'
  PROVE  /\ PcInv' /\ EvInv' /\ NeedInv' /\ StageInv' /\ RestInv' /\ AdmitterInv'
         /\ InHand'[t] = {} /\ \A u \in Threads : u # t => InHand'[u] = InHand[u]
         /\ th'["destroyer"].pc = "done" <=> th["destroyer"].pc = "done"
<1>1. PcInv BY DEF SInv
<1>2. th[t].pc \notin IdlePcs(t) /\ th[t].home \in Homes(t) BY <1>1, PcSets DEF PcInv
<1>3. p \notin ConnPcs /\ p # "done"
  <2>1. p \in Homes(t) => p \in IdlePcs(t) BY PcSets
  <2>2. {"ends", "queued"} = AfterPcs /\ "done" \notin AfterPcs BY DEF AfterPcs
  <2>3. \A r : "done" \notin Homes(r) BY DEF Homes
  <2> QED BY <1>2, <2>1, <2>2, <2>3, PcSets
<1>4. p \in AfterPcs \cup {th[t].home} BY DEF AfterPcs
<1>5. {"drop", "arm", "enqueue"} \subseteq ConnPcs BY DEF ConnPcs
<1>6. t = "admitter" => p \in AdmitterPcs \ {"count"}
  <2>1. t = "admitter" => th[t].home = "rest" BY <1>2, Roles DEF Homes
  <2> QED BY <2>1 DEF AdmitterPcs
<1>7. MayGo(t, p, Null, q) BY <1>3, <1>4, <1>5, <1>6 DEF MayGo, ThenOK
<1>8. Goes(t, p, Null, q) BY <1>7 DEF Goes
<1>9. InHand'[t] = {} /\ \A u \in Threads : u # t => InHand'[u] = InHand[u] BY <1>3 DEF ThIs, InHand
<1>10. th'["destroyer"].pc = "done" <=> th["destroyer"].pc = "done"
  <2>1. th[t].pc # "done" BY DEF ConnPcs, AfterPcs
  <2> QED BY <1>3, <2>1, Roles DEF ThIs
<1> QED BY <1>8, <1>9, <1>10, GoesKeeps

LEMMA AdmitterQuiet ==
  ASSUME SInv, NEW t \in Threads, NEW pc, Runs(t, pc)
  PROVE  t \notin calls /\ th[t].pc = pc
BY DEF Runs

LEMMA NoChange ==
  ASSUME UNCHANGED memVars
  PROVE  /\ calls' = calls /\ UNCHANGED <<mem_admitting, locked, mem_admission_closed, mem_exempt, mem_charged, mem_list, batch>>
BY DEF memVars, memCounts, memLoop

\* c goes from t's hands to the spot s, from there to t's hands, from t's hands
\* to nowhere, or is new in t's hands.
OthersHold(t) == \A u \in Threads : u # t => InHand'[u] = InHand[u]
PutsDown(t, s, c) ==
  /\ InHand[t] = {c} /\ InHand'[t] = {} /\ OthersHold(t) /\ Open' = Open
  /\ Spots'[s] = Spots[s] \cup {c} /\ \A r \in SpotNames : r # s => Spots'[r] = Spots[r]
TakesUp(t, s, c) ==
  /\ InHand[t] = {} /\ InHand'[t] = {c} /\ OthersHold(t) /\ Open' = Open
  /\ c \in Spots[s] /\ Spots'[s] = Spots[s] \ {c} /\ \A r \in SpotNames : r # s => Spots'[r] = Spots[r]
Destroys(t, c) ==
  /\ InHand[t] = {c} /\ InHand'[t] = {} /\ OthersHold(t) /\ Open' = Open \ {c}
  /\ \A r \in SpotNames : Spots'[r] = Spots[r]
Creates(t, c) ==
  /\ InHand[t] = {} /\ InHand'[t] = {c} /\ OthersHold(t) /\ c \notin Open /\ Open' = Open \cup {c}
  /\ \A r \in SpotNames : Spots'[r] = Spots[r]

LEMMA HoldsOn ==
  ASSUME HoldInv, NEW t \in Threads, NEW c
  PROVE  /\ \A s \in SpotNames : PutsDown(t, s, c) => HoldInv'
         /\ \A s \in SpotNames : TakesUp(t, s, c) => HoldInv'
         /\ Destroys(t, c) => HoldInv'
         /\ Creates(t, c) => HoldInv'
<1>1. ASSUME NEW s \in SpotNames, PutsDown(t, s, c) PROVE HoldInv'
  BY <1>1 DEF PutsDown, OthersHold, HoldInv, Apart
<1>2. ASSUME NEW s \in SpotNames, TakesUp(t, s, c) PROVE HoldInv'
  BY <1>2 DEF TakesUp, OthersHold, HoldInv, Apart
<1>3. ASSUME Destroys(t, c) PROVE HoldInv'
  BY <1>3 DEF Destroys, OthersHold, HoldInv, Apart
<1>4. ASSUME Creates(t, c) PROVE HoldInv'
  BY <1>4 DEF Creates, OthersHold, HoldInv, Apart
<1> QED BY <1>1, <1>2, <1>3, <1>4

LEMMA HoldSame ==
  ASSUME HoldInv, \A u \in Threads : InHand'[u] = InHand[u],
         \A r \in SpotNames : Spots'[r] = Spots[r], Open' = Open
  PROVE  HoldInv'
BY DEF HoldInv, Apart

\* The connections in K go from the spot a to the spot b.
Moved(a, b, K) ==
  /\ K \subseteq Spots[a] /\ Spots'[a] = Spots[a] \ K /\ Spots'[b] = Spots[b] \cup K
  /\ \A r \in SpotNames : r # a /\ r # b => Spots'[r] = Spots[r]

LEMMA HoldMove ==
  ASSUME HoldInv, NEW a \in SpotNames, NEW b \in SpotNames, a # b, NEW K, Moved(a, b, K),
         \A u \in Threads : InHand'[u] = InHand[u], Open' = Open
  PROVE  HoldInv'
<1> USE DEF Moved
<1>1. Apart(InHand, Spots, Open) BY DEF HoldInv
<1>2. \A u \in Threads, r \in SpotNames : InHand'[u] \cap Spots'[r] = {} BY <1>1 DEF Apart
<1>3. \A r, s \in SpotNames : r # s => Spots'[r] \cap Spots'[s] = {} BY <1>1 DEF Apart
<1>4. \A c : (\E r \in SpotNames : c \in Spots'[r]) <=> (\E r \in SpotNames : c \in Spots[r]) OBVIOUS
<1>5. \A t, u \in Threads : t # u => InHand'[t] \cap InHand'[u] = {} BY <1>1 DEF Apart
<1>6. \A c : c \in Open' <=> ((\E t \in Threads : c \in InHand'[t]) \/ (\E r \in SpotNames : c \in Spots'[r]))
  BY <1>1, <1>4 DEF Apart
<1> QED BY <1>2, <1>3, <1>5, <1>6 DEF HoldInv, Apart

Receives(s, c) == Spots'[s] = Spots[s] \cup {c} /\ \A r \in SpotNames : r # s => Spots'[r] = Spots[r]

\* t has put its connection c down at the spot s.
LEMMA GivesDown ==
  ASSUME SInv, NEW t \in Threads, th[t].pc \in ConnPcs, NEW c, c = th[t].c,
         NEW p \in {th[t].home, "ends", "queued"}, NEW q, ThIs(t, p, Null, q), NEW y, ConnIs(c, y),
         y.life = conn[c].life, y.refs = conn[c].refs, y.reg = conn[c].reg,
         \A d \in Conns : d # c => mem_exempt'[d] = mem_exempt[d] /\ mem_charged'[d] = mem_charged[d],
         calls' \subseteq calls \cup {t}, UNCHANGED <<mem_admitting, locked, mem_admission_closed>>,
         t = "admitter" => p # "queued" /\ t \notin calls',
         UNCHANGED <<scenario, regs, srv, todo>>, srv.worker_pool = "shut" => UNCHANGED tasks,
         srv.reject_pool = "shut" => UNCHANGED rejects,
         tasks' \in Seq({"worker", "resume"} \X Conns), rejects' \in Seq(Conns), OnceInv',
         NEW s \in SpotNames, Receives(s, c)
  PROVE  SInv'
<1>1. SrvTypeOK /\ RefInv /\ SrvRefInv /\ HoldInv BY DEF SInv
<1>2. c \in Conns /\ InHand[t] = {c} /\ \A u \in Threads : u # t /\ th[u].pc \in ConnPcs => th[u].c # c
  BY HandAlone DEF SInv
<1>3. conn' \in [Conns -> ConnRec] /\ conn'[c] = y /\ \A d \in Conns : d # c => conn'[d] = conn[d] BY DEF ConnIs
<1>4. Leaves(t)
  <2>1. AllLive' = AllLive BY DEF AllLive
  <2>2. AllLive \subseteq AllLive' /\ srv' = srv BY <2>1
  <2>3. Only(t, c) BY <1>2, <1>3 DEF Only
  <2> QED BY <2>2, <2>3, LeavesWhen
<1>5. /\ PcInv' /\ EvInv' /\ NeedInv' /\ StageInv' /\ RestInv' /\ AdmitterInv'
      /\ InHand'[t] = {} /\ \A u \in Threads : u # t => InHand'[u] = InHand[u]
      /\ th'["destroyer"].pc = "done" <=> th["destroyer"].pc = "done"
  BY <1>4, LeaveGoes
<1>6. HoldInv'
  <2>1. Open' = Open BY <1>3, OpenSame
  <2>2. PutsDown(t, s, c) BY <1>2, <1>5, <2>1 DEF PutsDown, OthersHold, Receives
  <2> QED BY <1>1, <2>2, HoldsOn
<1>7. SrvTypeOK' BY <1>1, <1>3 DEF SrvTypeOK, ThIs
<1>8. RefInv' BY <1>1, <1>3, RefsSame
<1>9. SrvRefInv' BY <1>1, <1>5, SrvRefsSame
<1> QED BY <1>5, <1>6, <1>7, <1>8, <1>9 DEF SInv

\* Where a thread goes that leaves its connection.
LEMMA Leaving ==
  ASSUME SInv, NEW t \in Threads, th[t].pc \in ConnPcs \cup AfterPcs \cup {"claim"}, Leave(t) \/ HandOver(t)
  PROVE  \E p \in {th[t].home, "ends"} : ThIs(t, p, Null, th[t].then) /\ p # "queued"
<1>1. th[t].home \in Homes(t) BY PcSets DEF SInv, PcInv
<1>2. "queued" \notin Homes(t) BY DEF Homes
<1> QED BY <1>1, <1>2, LeaveIs DEF SInv, SrvTypeOK

LEMMA ListStep ==
  ASSUME SInv, TypeOK, NEW t \in Threads, List(t)
  PROVE  SInv'
<1> DEFINE c == th[t].c
           v == IF conn[c].list # "none" THEN conn[c].list ELSE IF th[t].then = "idle" THEN "idle" ELSE "parked"
           y == [conn[c] EXCEPT !.list = v]
<1>1. th[t].pc \in ConnPcs /\ t \notin calls BY DEF List, Runs, ConnPcs
<1>2. c \in Conns /\ conn[c] \in ConnRec /\ SrvTypeOK /\ OnceInv BY <1>1, InHandOf DEF SInv
<1>3. conn[c].list = "none" BY <1>1, HandAlone DEF SInv
<1>4. v \in {"idle", "parked"} BY <1>3
<1>5. Set(c, y) BY DEF List, Has
<1> HIDE DEF v
<1>6. y \in ConnRec /\ y.life = conn[c].life /\ y.list = v /\ y.refs = conn[c].refs /\ y.reg = conn[c].reg
  <2>1. v \in {"none", "idle", "parked"} BY <1>4
  <2> QED BY <1>2, <2>1, Zenon DEF ConnRec
<1> HIDE DEF y
<1>7. ConnIs(c, y) BY <1>2, <1>5, <1>6, SetIs DEF SrvTypeOK
<1>8. UNCHANGED <<scenario, regs, srv, tasks, rejects, todo, memVars>> BY DEF List, others
<1>9. PICK p \in {th[t].home, "ends"} : ThIs(t, p, Null, th[t].then) /\ p # "queued" BY <1>1, Leaving DEF List
<1>10. Spots'["list"] = Spots["list"] \cup {c}
  <2>1. \A d \in Conns : conn'[d].list # "none" <=> (conn[d].list # "none" \/ d = c) BY <1>4, <1>6, <1>7 DEF ConnIs
  <2> QED BY <1>2, <2>1 DEF Spots, SpotNames
<1>11. "list" \in SpotNames /\ Receives("list", c)
  BY <1>8, <1>10, NoChange, SpotsSame DEF SpotNames, Receives
<1>12. OnceInv' BY <1>2, <1>8, NoChange DEF OnceInv
<1>13. tasks' \in Seq({"worker", "resume"} \X Conns) /\ rejects' \in Seq(Conns) BY <1>2, <1>8 DEF SrvTypeOK
<1> HIDE DEF c
<1> QED BY <1>1, <1>6, <1>7, <1>8, <1>9, <1>11, <1>12, <1>13, NoChange, GivesDown DEF c

LEMMA EnqueueWaiterStep ==
  ASSUME SInv, TypeOK, NEW t \in Threads, EnqueueWaiter(t)
  PROVE  SInv'
<1> DEFINE c == th[t].c
           q == th[t].then
           y == [conn[c] EXCEPT !.div = FALSE, !.park = q]
           x == [th[t] EXCEPT !.c = Null, !.pc = "queued"]
<1>1. th[t].pc = "enqueue" /\ th[t].pc \in ConnPcs /\ th[t].pc \notin AdmitterPcs
  BY DEF EnqueueWaiter, Runs, ConnPcs, AdmitterPcs
<1>2. /\ c \in Conns /\ conn[c] \in ConnRec /\ SrvTypeOK /\ OnceInv /\ t # "admitter" /\ th[t] \in ThRec
  BY <1>1, InHandOf DEF SInv
<1>3. q \in Parks BY <1>1 DEF SInv, PcInv, ThenOK, Parks
<1>4. Set(c, y) /\ th' = [th EXCEPT ![t] = x] BY <1>2, Zenon DEF EnqueueWaiter
<1>5. y \in ConnRec /\ y.life = conn[c].life /\ y.list = conn[c].list /\ y.refs = conn[c].refs /\ y.reg = conn[c].reg
  BY <1>2, <1>3, Zenon DEF ConnRec
<1>6. /\ x \in ThRec /\ x.pc = "queued" /\ x.c = Null /\ x.then = th[t].then /\ x.ev = th[t].ev /\ x.home = th[t].home
  <2>1. "queued" \in Pcs BY DEF Pcs, AfterPcs
  <2> QED BY <1>2, <2>1, Zenon DEF ThRec
<1> HIDE DEF y, x
<1>7. ConnIs(c, y) BY <1>2, <1>4, <1>5, SetIs DEF SrvTypeOK
<1>8. ThIs(t, "queued", Null, q) BY <1>2, <1>4, <1>6, ThReplaced DEF ThIs, SrvTypeOK
<1>9. UNCHANGED <<scenario, regs, srv, tasks, rejects, todo>> BY DEF EnqueueWaiter, others
<1>10. /\ mem_list' = Append(mem_list, c) /\ calls' = calls \cup {t}
       /\ UNCHANGED <<batch, mem_admitting, locked, mem_admission_closed, mem_exempt, mem_charged>>
  BY DEF EnqueueWaiter, Enqueue, memCounts, memLoop
<1>11. "memory" \in SpotNames /\ Receives("memory", c)
  <2>1. mem_list \in Seq(Conns) BY DEF TypeOK
  <2>2. Elems(mem_list') = Elems(mem_list) \cup {c} BY <1>2, <1>10, <2>1, AppendElems
  <2>3. Spots'["memory"] = Spots["memory"] \cup {c} BY <2>2 DEF Spots, SpotNames
  <2>4. \A d \in Conns : conn'[d].list = conn[d].list BY <1>5, <1>7 DEF ConnIs
  <2> QED BY <1>9, <1>10, <2>3, <2>4, SpotsSame DEF SpotNames, Receives
<1>12. OnceInv' BY <1>2, <1>9, <1>10 DEF OnceInv
<1>13. tasks' \in Seq({"worker", "resume"} \X Conns) /\ rejects' \in Seq(Conns) BY <1>2, <1>9 DEF SrvTypeOK
<1> HIDE DEF c, q
<1> QED BY <1>1, <1>2, <1>5, <1>7, <1>8, <1>9, <1>10, <1>11, <1>12, <1>13, GivesDown DEF c

TaskSet == {"worker", "resume"} \X Conns

LEMMA TasksAppend ==
  ASSUME tasks \in Seq(TaskSet), NEW k \in TaskSet, tasks' = Append(tasks, k)
  PROVE  /\ tasks' \in Seq(TaskSet) /\ TaskConns' = TaskConns \cup {k[2]}
         /\ (/\ \A i, j \in 1 .. Len(tasks) : tasks[i][2] = tasks[j][2] => i = j
             /\ k[2] \notin TaskConns)
            => \A i, j \in 1 .. Len(tasks') : tasks'[i][2] = tasks'[j][2] => i = j
<1>1. /\ tasks' \in Seq(TaskSet) /\ Len(tasks) \in Nat /\ Len(tasks') = Len(tasks) + 1
      /\ \A i \in 1 .. Len(tasks) : tasks'[i] = tasks[i]
      /\ tasks'[Len(tasks) + 1] = k
  BY AppendProperties, LenProperties
<1>2. TaskConns' = TaskConns \cup {k[2]}
  <2>1. ASSUME NEW i \in 1 .. Len(tasks) + 1 PROVE tasks'[i][2] \in TaskConns \cup {k[2]}
    <3>1. CASE i = Len(tasks) + 1 BY <1>1, <3>1
    <3>2. CASE i \in 1 .. Len(tasks) BY <1>1, <3>2 DEF TaskConns
    <3> QED BY <1>1, <3>1, <3>2
  <2>2. ASSUME NEW d \in TaskConns \cup {k[2]} PROVE \E i \in 1 .. Len(tasks) + 1 : tasks'[i][2] = d
    <3>1. CASE d = k[2]
      <4>1. Len(tasks) + 1 \in 1 .. Len(tasks) + 1 BY <1>1
      <4> QED BY <1>1, <3>1, <4>1
    <3>2. CASE d \in TaskConns
      <4>1. PICK i \in 1 .. Len(tasks) : tasks[i][2] = d BY <3>2 DEF TaskConns
      <4>2. i \in 1 .. Len(tasks) + 1 /\ tasks'[i][2] = d BY <1>1, <4>1
      <4> QED BY <4>2
    <3> QED BY <3>1, <3>2
  <2> QED BY <1>1, <2>1, <2>2 DEF TaskConns
<1>3. ASSUME \A i, j \in 1 .. Len(tasks) : tasks[i][2] = tasks[j][2] => i = j, k[2] \notin TaskConns,
             NEW i \in 1 .. Len(tasks'), NEW j \in 1 .. Len(tasks'), tasks'[i][2] = tasks'[j][2]
      PROVE  i = j
  <2>1. \A m \in 1 .. Len(tasks) : tasks[m][2] # k[2] BY <1>3 DEF TaskConns
  <2>2. CASE i \in 1 .. Len(tasks) /\ j \in 1 .. Len(tasks) BY <1>1, <1>3, <2>2
  <2>3. CASE i = Len(tasks) + 1 /\ j \in 1 .. Len(tasks) BY <1>1, <1>3, <2>1, <2>3
  <2>4. CASE j = Len(tasks) + 1 /\ i \in 1 .. Len(tasks) BY <1>1, <1>3, <2>1, <2>4
  <2> QED BY <1>1, <2>2, <2>3, <2>4
<1> QED BY <1>1, <1>2, <1>3

LEMMA SubmitStep ==
  ASSUME SInv, TypeOK, NEW t \in Threads, Submit(t)
  PROVE  SInv'
<1> DEFINE c == th[t].c
           fn == IF conn[c].park = "none" THEN "worker" ELSE "resume"
           open == th[t].pool /\ srv.worker_pool \in {"up", "detached"}
           y == [conn[c] EXCEPT !.park = "none"]
           pc == IF conn[c].park = "write" THEN "close" ELSE "reject_pool"
<1>1. th[t].pc = "submit" /\ th[t].pc \in ConnPcs /\ t \notin calls
  BY DEF Submit, Runs, ConnPcs
<1>2. /\ c \in Conns /\ conn[c] \in ConnRec /\ SrvTypeOK /\ OnceInv /\ th[t] \in ThRec /\ th[t].then \in Thens
  BY <1>1, InHandOf DEF SInv
<1>3. UNCHANGED <<scenario, regs, srv, rejects, todo, memVars>> BY DEF Submit
<1>4. MemQuiet(t, c) BY <1>2, <1>3, MemQuietSteps
<1>5. \/ open /\ tasks' = Append(tasks, <<fn, c>>) /\ HandOver(t) /\ UNCHANGED conn
      \/ Set(c, y) /\ Goto(t, pc) /\ UNCHANGED tasks
  BY DEF Submit, Has
<1>6. CASE open /\ tasks' = Append(tasks, <<fn, c>>) /\ HandOver(t) /\ UNCHANGED conn
  <2>1. PICK p \in {th[t].home, "ends"} : ThIs(t, p, Null, th[t].then) /\ p # "queued" BY <1>1, <1>6, Leaving
  <2>2. ConnIs(c, conn[c]) BY <1>2, <1>6 DEF ConnIs, SrvTypeOK
  <2>3. <<fn, c>> \in TaskSet /\ <<fn, c>>[2] = c /\ srv.worker_pool # "shut" BY <1>2, <1>6 DEF TaskSet
  <2>4. tasks \in Seq(TaskSet) BY <1>2 DEF SrvTypeOK, TaskSet
  <2>5. c \notin TaskConns
    <3>1. c \notin Spots["tasks"] BY <1>1, HandAlone DEF SInv, SpotNames
    <3> QED BY <3>1, SpotValues
  <2> HIDE DEF c, fn
  <2>6. /\ tasks' \in Seq(TaskSet) /\ TaskConns' = TaskConns \cup {c}
        /\ \A i, j \in 1 .. Len(tasks') : tasks'[i][2] = tasks'[j][2] => i = j
    BY <1>2, <1>6, <2>3, <2>4, <2>5, TasksAppend DEF OnceInv
  <2>7. OnceInv' BY <1>2, <1>3, <2>6, NoChange DEF OnceInv
  <2>8. "tasks" \in SpotNames /\ Receives("tasks", c)
    <3>1. Spots'["tasks"] = Spots["tasks"] \cup {c} BY <2>6, SpotValues DEF Spots, SpotNames
    <3> QED BY <1>3, <1>6, <3>1, NoChange, SpotsSame DEF SpotNames, Receives
  <2>9. tasks' \in Seq({"worker", "resume"} \X Conns) /\ rejects' \in Seq(Conns) BY <1>2, <1>3, <2>6 DEF SrvTypeOK, TaskSet
  <2> QED BY <1>1, <1>3, <2>1, <2>2, <2>3, <2>7, <2>8, <2>9, NoChange, GivesDown DEF c
<1>7. CASE Set(c, y) /\ Goto(t, pc) /\ UNCHANGED tasks
  <2>1. Alike(y, conn[c])
    <3>1. "none" \in Parks BY DEF Parks
    <3> QED BY <1>2, <3>1, Zenon DEF Alike, ConnRec
  <2>2. Becomes(c, y) /\ Moves(t, pc, th[t].then) BY <1>7 DEF Becomes, Moves
  <2>3. pc \in ConnPcs /\ pc \in AdmitterPcs \ {"count"} /\ pc # "drop" /\ pc # "enqueue" /\ pc # "arm"
    BY DEF ConnPcs, AdmitterPcs
  <2> HIDE DEF y, pc
  <2> QED BY <1>1, <1>2, <1>3, <1>4, <1>7, <2>1, <2>2, <2>3, WorkStep DEF ThenOK
<1> QED BY <1>5, <1>6, <1>7

LEMMA RejectSubmitStep ==
  ASSUME SInv, TypeOK, NEW t \in Threads, RejectSubmit(t)
  PROVE  SInv'
<1> DEFINE c == th[t].c
<1>1. th[t].pc = "reject_submit" /\ th[t].pc \in ConnPcs /\ t \notin calls
  BY DEF RejectSubmit, Runs, ConnPcs
<1>2. /\ c \in Conns /\ conn[c] \in ConnRec /\ SrvTypeOK /\ OnceInv /\ th[t] \in ThRec /\ th[t].then \in Thens
      /\ Alike(conn[c], conn[c])
  BY <1>1, InHandOf DEF SInv
<1>3. UNCHANGED <<scenario, regs, srv, tasks, todo, conn, memVars>> BY DEF RejectSubmit
<1>4. MemQuiet(t, c) /\ Becomes(c, conn[c]) BY <1>2, <1>3, MemQuietSteps DEF Becomes
<1>5. \/ srv.reject_pool # "shut" /\ rejects' = Append(rejects, c) /\ HandOver(t)
      \/ Moves(t, "reject", th[t].then) /\ UNCHANGED rejects
  BY DEF RejectSubmit, Moves
<1>6. CASE srv.reject_pool # "shut" /\ rejects' = Append(rejects, c) /\ HandOver(t)
  <2>1. PICK p \in {th[t].home, "ends"} : ThIs(t, p, Null, th[t].then) /\ p # "queued" BY <1>1, <1>6, Leaving
  <2>2. ConnIs(c, conn[c]) BY <1>2, <1>3 DEF ConnIs, SrvTypeOK
  <2>4. rejects \in Seq(Conns) BY <1>2 DEF SrvTypeOK
  <2>5. c \notin Elems(rejects)
    <3>1. c \notin Spots["rejects"] BY <1>1, HandAlone DEF SInv, SpotNames
    <3> QED BY <3>1, SpotValues
  <2>6. rejects' \in Seq(Conns) /\ Elems(rejects') = Elems(rejects) \cup {c} /\ Distinct(rejects')
    BY <1>2, <1>6, <2>4, <2>5, AppendElems DEF OnceInv
  <2>7. OnceInv'
    <3>1. Distinct(rejects)' BY <2>6 DEF Distinct
    <3> QED BY <1>2, <1>3, <3>1, NoChange DEF OnceInv
  <2>8. "rejects" \in SpotNames /\ Receives("rejects", c)
    <3>1. Spots'["rejects"] = Spots["rejects"] \cup {c} BY <2>6 DEF Spots, SpotNames
    <3> QED BY <1>3, <3>1, NoChange, SpotsSame DEF SpotNames, Receives
  <2>9. tasks' \in Seq({"worker", "resume"} \X Conns) BY <1>2, <1>3 DEF SrvTypeOK
  <2> HIDE DEF c
  <2> QED BY <1>1, <1>3, <1>6, <2>1, <2>2, <2>6, <2>7, <2>8, <2>9, NoChange, GivesDown DEF c
<1>7. CASE Moves(t, "reject", th[t].then) /\ UNCHANGED rejects
  <2>3. "reject" \in ConnPcs /\ "reject" \in AdmitterPcs \ {"count"} BY DEF ConnPcs, AdmitterPcs
  <2> QED BY <1>1, <1>2, <1>3, <1>4, <1>7, <2>3, WorkStep DEF ThenOK
<1> QED BY <1>5, <1>6, <1>7

\* c loses a reference, or its registration n does.
LEMMA DerefStep ==
  ASSUME SInv, TypeOK, NEW t \in Threads, Deref(t)
  PROVE  SInv'
<1> DEFINE c == th[t].c
           k == conn[c].refs - 1
           l == IF conn[c].refs = 1 THEN "freed" ELSE "closed"
           y == [conn[c] EXCEPT !.refs = k, !.life = l]
<1>1. th[t].pc = "deref" /\ th[t].pc \in ConnPcs /\ t \notin calls BY DEF Deref, Runs, ConnPcs
<1>2. c \in Conns /\ conn[c] \in ConnRec /\ SrvTypeOK /\ OnceInv /\ RefInv /\ SrvRefInv /\ HoldInv
  BY <1>1, InHandOf DEF SInv
<1>3. conn[c].life = "open" /\ InHand[t] = {c} /\ \A u \in Threads : u # t /\ th[u].pc \in ConnPcs => th[u].c # c
  BY <1>1, HandAlone DEF SInv
<1>4. k \in Int /\ l \in {"none", "open", "closed", "freed"} /\ l # "open" /\ l # "none" BY <1>2 DEF ConnRec
<1>5. Set(c, y)
  <2> DEFINE m == IF conn[c].refs = 1 THEN "freed" ELSE conn[c].life
             x == [conn[c] EXCEPT !.refs = k, !.life = m]
  <2>1. x.life = m /\ [x EXCEPT !.life = l] = y BY <1>2, Zenon DEF ConnRec
  <2>2. l = IF m = "freed" THEN m ELSE "closed" BY <1>3
  <2>3. x = Dropped(conn[c]) BY Zenon DEF Dropped
  <2>4. Set(c, [x EXCEPT !.life = IF @ = "freed" THEN @ ELSE "closed"]) BY <2>3, Zenon DEF Deref, Has
  <2> HIDE DEF x, m, l
  <2> QED BY <2>1, <2>2, <2>4, Zenon
<1> HIDE DEF k, l
<1>6. y \in ConnRec /\ y.life = l /\ y.list = conn[c].list /\ y.refs = k /\ y.reg = conn[c].reg
  BY <1>2, <1>4, Zenon DEF ConnRec
<1> HIDE DEF y
<1>7. ConnIs(c, y) BY <1>2, <1>5, <1>6, SetIs DEF SrvTypeOK
<1>8. UNCHANGED <<scenario, regs, srv, tasks, rejects, todo, memVars>> BY DEF Deref, others
<1>9. PICK p \in {th[t].home, "ends"} : ThIs(t, p, Null, th[t].then) /\ p # "queued" BY <1>1, Leaving DEF Deref
<1>10. Leaves(t)
  <2>1. AllLive \subseteq AllLive' /\ srv' = srv BY <1>8 DEF AllLive
  <2>2. Only(t, c) BY <1>3, <1>7, <1>8, NoChange DEF Only, ConnIs
  <2> HIDE DEF c
  <2> QED BY <1>8, <2>1, <2>2, NoChange, LeavesWhen
<1>11. /\ PcInv' /\ EvInv' /\ NeedInv' /\ StageInv' /\ RestInv' /\ AdmitterInv'
       /\ InHand'[t] = {} /\ \A u \in Threads : u # t => InHand'[u] = InHand[u]
       /\ th'["destroyer"].pc = "done" <=> th["destroyer"].pc = "done"
  BY <1>1, <1>8, <1>9, <1>10, NoChange, LeaveGoes
<1>12. HoldInv'
  <2>1. \A d \in Conns : conn'[d].list = conn[d].list BY <1>6, <1>7 DEF ConnIs
  <2>2. \A s \in SpotNames : Spots'[s] = Spots[s] BY <1>8, <2>1, NoChange, SpotsSame DEF SpotNames
  <2>3. Open' = Open \ {c} BY <1>2, <1>4, <1>6, <1>7 DEF Open, ConnIs
  <2>4. Destroys(t, c) BY <1>3, <1>11, <2>2, <2>3 DEF Destroys, OthersHold
  <2> HIDE DEF c
  <2> QED BY <1>2, <2>4, HoldsOn
<1>13. SrvTypeOK' BY <1>2, <1>7, <1>8, <1>9 DEF SrvTypeOK, ConnIs, ThIs
<1>14. OnceInv' BY <1>2, <1>8, NoChange DEF OnceInv
<1>15. RefInv'
  <2> SUFFICES ASSUME NEW d \in Conns
               PROVE  /\ conn'[d].refs = Cardinality(LiveAt(d)') + (IF conn'[d].life = "open" THEN 1 ELSE 0)
                      /\ conn'[d].life \in {"none", "freed"} => conn'[d].refs = 0
                      /\ conn'[d].reg > 0 => regs'[d][conn'[d].reg] \in {"on", "paused"}
    BY DEF RefInv
  <2>1. /\ conn[d].refs = Cardinality(LiveAt(d)) + (IF conn[d].life = "open" THEN 1 ELSE 0)
        /\ conn[d].life \in {"none", "freed"} => conn[d].refs = 0
        /\ conn[d].reg > 0 => regs[d][conn[d].reg] \in {"on", "paused"}
    BY <1>2 DEF RefInv
  <2>2. conn'[c] = y /\ (d # c => conn'[d] = conn[d]) BY <1>7 DEF ConnIs
  <2>3. LiveAt(d)' = LiveAt(d) /\ Cardinality(LiveAt(d)) \in Nat BY <1>8, LiveFinite DEF LiveAt
  <2>4. CASE d = c BY <1>3, <1>4, <1>6, <1>8, <2>1, <2>2, <2>3, <2>4 DEF k, l
  <2>5. CASE d # c BY <1>8, <2>1, <2>2, <2>3, <2>5
  <2> QED BY <2>4, <2>5
<1>16. SrvRefInv' BY <1>2, <1>8, <1>11, SrvRefsSame
<1> QED BY <1>11, <1>12, <1>13, <1>14, <1>15, <1>16 DEF SInv

\* t has no connection, and does not take one.
LEMMA LeftAlone ==
  ASSUME SInv, NEW t \in Threads, th[t].pc \in AfterPcs \cup {"claim"}, NEW p \in {th[t].home, "ends", "queued"}, NEW q,
         ThIs(t, p, Null, q), SrvSame, UNCHANGED <<scenario, conn, regs, tasks, rejects, todo, memVars>>,
         t = "admitter" => p # "queued" /\ t \notin calls
  PROVE  SInv'
<1>1. SrvTypeOK /\ OnceInv /\ RefInv /\ SrvRefInv /\ HoldInv /\ PcInv BY DEF SInv
<1>2. Leaves(t)
  <2>1. AllLive \subseteq AllLive' BY DEF AllLive
  <2>2. Only(t, Null) BY InHandOf, Roles, NoChange DEF Only
  <2> QED BY <2>1, <2>2, NoChange, LeavesWhen DEF SrvSame
<1>3. /\ PcInv' /\ EvInv' /\ NeedInv' /\ StageInv' /\ RestInv' /\ AdmitterInv'
      /\ InHand'[t] = {} /\ \A u \in Threads : u # t => InHand'[u] = InHand[u]
      /\ th'["destroyer"].pc = "done" <=> th["destroyer"].pc = "done"
  BY <1>2, NoChange, LeaveGoes
<1>4. HoldInv'
  <2>1. InHand[t] = {} BY PcSets DEF InHand
  <2>2. \A s \in SpotNames : Spots'[s] = Spots[s] BY NoChange, SpotsSame DEF SpotNames
  <2> QED BY <1>1, <1>3, <2>1, <2>2, OpenSame, HoldSame
<1>5. SrvTypeOK' BY <1>1 DEF SrvTypeOK, ThIs, SrvSame
<1>6. OnceInv' BY <1>1, NoChange DEF OnceInv
<1>7. RefInv' BY <1>1, RefsSame
<1>8. SrvRefInv' BY <1>1, <1>3, SrvRefsSame DEF SrvSame
<1> QED BY <1>3, <1>4, <1>5, <1>6, <1>7, <1>8 DEF SInv

LEMMA InFlightOnly ==
  ASSUME SrvTypeOK, NEW n \in Int, srv' = [srv EXCEPT !.in_flight = n]
  PROVE  SrvSame
<1> DEFINE s == [srv EXCEPT !.in_flight = n]
<1>1. srv \in SrvRec BY DEF SrvTypeOK
<1>2. /\ s \in SrvRec /\ s.life = srv.life /\ s.refs = srv.refs /\ s.lreg = srv.lreg /\ s.spins = srv.spins
      /\ s.swept = srv.swept /\ s.worker_pool = srv.worker_pool /\ s.reject_pool = srv.reject_pool
  BY <1>1, Zenon DEF SrvRec
<1> QED BY <1>2, Zenon DEF SrvSame

LEMMA EndsStep ==
  ASSUME SInv, TypeOK, NEW t \in Threads, Ends(t) \/ Queued(t)
  PROVE  SInv'
<1>1. th[t].pc \in AfterPcs BY DEF Ends, Queued, Runs, AfterPcs
<1>2. SrvSame
  <2>1. SrvTypeOK /\ srv.in_flight - 1 \in Int BY DEF SInv, SrvTypeOK, SrvRec
  <2>2. srv' = [srv EXCEPT !.in_flight = srv.in_flight - 1] BY DEF Ends, Queued
  <2> QED BY <2>1, <2>2, InFlightOnly
<1>3. PICK p \in {th[t].home, "ends"} : ThIs(t, p, Null, th[t].then) /\ p # "queued"
  BY <1>1, Leaving DEF Ends, Queued
<1>4. t = "admitter" => t \notin calls
  <2>1. CASE Ends(t) BY <2>1 DEF Ends, Runs
  <2>2. CASE Queued(t)
    <3>1. "queued" \notin AdmitterPcs BY DEF AdmitterPcs
    <3> QED BY <2>2, <3>1, InHandOf DEF Queued
  <2> QED BY <2>1, <2>2
<1>5. UNCHANGED <<scenario, conn, regs, tasks, rejects, todo, memVars>> BY DEF Ends, Queued
<1> QED BY <1>1, <1>2, <1>3, <1>4, <1>5, LeftAlone

LEMMA ClaimStep ==
  ASSUME SInv, TypeOK, NEW r \in Reactors, Claim(r)
  PROVE  SInv'
<1> DEFINE c == th[r].c
           y == [conn[c] EXCEPT !.list = "none"]
<1>1. th[r].pc = "claim" /\ r \in Threads /\ r # "admitter" BY Roles DEF Claim, Runs
<1>2. c \in Conns /\ th[r].then \in Thens
  BY <1>1, PcSets, InHandOf, Roles DEF SInv, PcInv
<1>3. /\ conn[c] \in ConnRec /\ SrvTypeOK /\ OnceInv /\ RefInv /\ SrvRefInv /\ HoldInv
  BY <1>2 DEF SInv, SrvTypeOK
<1>4. UNCHANGED <<scenario, regs, srv, tasks, rejects, todo, memVars>> BY DEF Claim, others
<1>5. CASE Leave(r) /\ UNCHANGED conn
  <2>1. PICK p \in {th[r].home, "ends"} : ThIs(r, p, Null, th[r].then) /\ p # "queued" BY <1>1, <1>5, Leaving
  <2>2. SrvSame BY <1>3, <1>4 DEF SrvSame, SrvTypeOK
  <2> QED BY <1>1, <1>4, <1>5, <2>1, <2>2, LeftAlone
<1>6. ASSUME conn[c].list # "none", Set(c, y),
             NEW p \in {"close", "pump", "linger_step", "pause"}, NEW q \in Thens, Moves(r, p, q)
      PROVE  SInv'
  <2>1. y \in ConnRec /\ y.life = conn[c].life /\ y.list = "none" /\ y.refs = conn[c].refs /\ y.reg = conn[c].reg
    BY <1>3, Zenon DEF ConnRec
  <2>2. Set(c, y) BY <1>6
  <2> HIDE DEF y
  <2>3. ConnIs(c, y) BY <1>2, <1>3, <2>1, <2>2, SetIs DEF SrvTypeOK
  <2>4. p \in ConnPcs /\ p \in Pcs /\ p \notin {"drop", "arm", "enqueue"} BY DEF ConnPcs, Pcs
  <2>5. ThIs(r, p, c, q) BY <1>1, <1>3, <1>6, <2>4, GotoIs, GotoThenIs DEF Moves, SrvTypeOK
  <2>6. c \in Spots["list"] BY <1>2, <1>6, SpotValues
  <2>7. \A u \in Threads : u # r /\ th[u].pc \in ConnPcs => th[u].c # c
    <3>1. \A u \in Threads : th[u].pc \in ConnPcs => InHand[u] = {th[u].c} BY DEF InHand
    <3>2. "list" \in SpotNames BY DEF SpotNames
    <3> QED BY <1>3, <2>6, <3>1, <3>2 DEF HoldInv, Apart
  <2>8. Leaves(r)
    <3>1. AllLive \subseteq AllLive' /\ srv' = srv BY <1>4 DEF AllLive
    <3>2. Only(r, c) BY <1>4, <2>3, <2>7, NoChange DEF Only, ConnIs
    <3> HIDE DEF c
    <3> QED BY <1>1, <1>4, <3>1, <3>2, NoChange, LeavesWhen
  <2>9. MayGo(r, p, c, q) BY <1>1, <1>2, <2>4 DEF MayGo, ThenOK
  <2>10. PcInv' /\ EvInv' /\ NeedInv' /\ StageInv' /\ RestInv' /\ AdmitterInv'
    <3>1. Goes(r, p, c, q) BY <2>5, <2>8, <2>9 DEF Goes
    <3> QED BY <1>1, <3>1, GoesKeeps
  <2>11. HoldInv'
    <3>1. InHand[r] = {} /\ InHand'[r] = {c} /\ \A u \in Threads : u # r => InHand'[u] = InHand[u]
      BY <1>1, <2>4, <2>5, PcSets DEF InHand, ThIs
    <3>2. Spots'["list"] = Spots["list"] \ {c}
      <4>1. \A d \in Conns : conn'[d].list # "none" <=> (conn[d].list # "none" /\ d # c) BY <2>1, <2>3 DEF ConnIs
      <4> QED BY <4>1 DEF Spots, SpotNames
    <3>3. \A s \in SpotNames : s # "list" => Spots'[s] = Spots[s] BY <1>4, NoChange, SpotsSame DEF SpotNames
    <3>4. Open' = Open BY <2>1, <2>3, OpenSame DEF ConnIs
    <3>5. TakesUp(r, "list", c) /\ "list" \in SpotNames
      BY <2>6, <3>1, <3>2, <3>3, <3>4 DEF TakesUp, OthersHold, SpotNames
    <3> HIDE DEF c
    <3> QED BY <1>1, <1>3, <3>5, HoldsOn
  <2>12. SrvTypeOK' BY <1>3, <1>4, <2>3, <2>5 DEF SrvTypeOK, ConnIs, ThIs
  <2>13. OnceInv' BY <1>3, <1>4, NoChange DEF OnceInv
  <2>14. RefInv' BY <1>3, <1>4, <2>1, <2>3, RefsSame DEF ConnIs
  <2>15. SrvRefInv'
    <3>1. r # "destroyer" BY Roles
    <3> QED BY <1>3, <1>4, <2>5, <3>1, Roles, SrvRefsSame DEF ThIs
  <2> QED BY <2>10, <2>11, <2>12, <2>13, <2>14, <2>15 DEF SInv
<1>7. \/ Leave(r) /\ UNCHANGED conn
      \/ /\ conn[c].list # "none" /\ Set(c, y)
         /\ \E p \in {"close", "pump", "linger_step", "pause"}, q \in Thens : Moves(r, p, q)
  <2>1. "resume" \in Thens BY DEF Thens
  <2> QED BY <1>2, <2>1, Zenon DEF Claim, Has, Moves
<1> QED BY <1>5, <1>6, <1>7

-----------------------------------------------------------------------------
(* Steps of a thread that begins or ends something: its whole record is    *)
(* replaced.                                                               *)

Turns(t, x) == x \in ThRec /\ th' \in [Threads -> ThRec] /\ th'[t] = x /\ \A u \in Threads : u # t => th'[u] = th[u]

LEMMA TurnsWhen ==
  ASSUME SrvTypeOK, NEW t \in Threads, NEW x \in ThRec, th' = [th EXCEPT ![t] = x]
  PROVE  Turns(t, x)
BY ThReplaced DEF SrvTypeOK, Turns

LEMMA GotoTurns ==
  ASSUME SrvTypeOK, NEW t \in Threads, NEW p \in Pcs, Goto(t, p)
  PROVE  \E x : /\ Turns(t, x) /\ x.pc = p /\ x.c = th[t].c /\ x.ev = th[t].ev /\ x.then = th[t].then
                /\ x.home = th[t].home
<1>1. ThIs(t, p, th[t].c, th[t].then) BY GotoIs DEF SrvTypeOK
<1>2. th'[t] \in ThRec BY <1>1 DEF ThIs
<1>3. Turns(t, th'[t]) BY <1>1, <1>2 DEF Turns, ThIs
<1> QED BY <1>1, <1>3 DEF ThIs

\* A record made of Resting.
Starts(x, p, c, e, q, h) ==
  /\ x \in ThRec /\ x.pc = p /\ x.c = c /\ x.ev = e /\ x.then = q /\ x.home = h

LEMMA RestingStarts ==
  ASSUME NEW p \in Pcs, NEW c \in Conns \cup {Null}, NEW e \in (Conns \cup {Null, "listener"}) \X Nat,
         NEW q \in Thens, NEW h \in Pcs, NEW n \in Int
  PROVE  /\ Starts(Resting, "rest", Null, <<Null, 0>>, "none", "rest")
         /\ Starts([Resting EXCEPT !.pc = p, !.c = c, !.ev = e, !.then = q, !.home = h], p, c, e, q, h)
         /\ Starts([Resting EXCEPT !.pc = p, !.ev = e], p, Null, e, "none", "rest")
         /\ Starts([Resting EXCEPT !.pc = p, !.c = c, !.rel = n], p, c, <<Null, 0>>, "none", "rest")
         /\ Starts([Resting EXCEPT !.pc = p, !.c = c, !.then = q], p, c, <<Null, 0>>, q, "rest")
         /\ Starts([Resting EXCEPT !.pc = p, !.c = c, !.home = h, !.then = q], p, c, <<Null, 0>>, q, h)
         /\ Starts([Resting EXCEPT !.pc = p, !.c = c, !.home = h], p, c, <<Null, 0>>, "none", h)
<1>1. "rest" \in Pcs /\ "none" \in Thens BY DEF Pcs, ReactorPcs, Thens, Parks
<1> DEFINE E == (Conns \cup {Null, "listener"}) \X Nat
           C == Conns \cup {Null}
           z == <<Null, 0>>
<1>2. z \in E /\ Null \in C BY Bounds
<1>3. ThRec = [pc : Pcs, c : C, ev : E, rel : Int, then : Thens, home : Pcs, pool : BOOLEAN] BY DEF ThRec
<1>4. Resting = [pc |-> "rest", c |-> Null, ev |-> z, rel |-> 0, then |-> "none", home |-> "rest", pool |-> FALSE]
  BY DEF Resting
<1>5. e \in E /\ c \in C OBVIOUS
<1> HIDE DEF E, C, z
<1>6. Starts(Resting, "rest", Null, z, "none", "rest") BY <1>1, <1>2, <1>3, <1>4, Bounds, Zenon DEF Starts
<1>7. Resting \in ThRec BY <1>6 DEF Starts
<1>8. Starts([Resting EXCEPT !.pc = p, !.c = c, !.ev = e, !.then = q, !.home = h], p, c, e, q, h)
  BY <1>3, <1>5, <1>7, Zenon DEF Starts
<1>9. Starts([Resting EXCEPT !.pc = p, !.ev = e], p, Null, e, "none", "rest")
  BY <1>3, <1>5, <1>6, <1>7, Zenon DEF Starts
<1>10. Starts([Resting EXCEPT !.pc = p, !.c = c, !.rel = n], p, c, z, "none", "rest")
  BY <1>3, <1>5, <1>6, <1>7, Zenon DEF Starts
<1>11. Starts([Resting EXCEPT !.pc = p, !.c = c, !.then = q], p, c, z, q, "rest")
  BY <1>3, <1>5, <1>6, <1>7, Zenon DEF Starts
<1>12. Starts([Resting EXCEPT !.pc = p, !.c = c, !.home = h, !.then = q], p, c, z, q, h)
  BY <1>3, <1>5, <1>6, <1>7, Zenon DEF Starts
<1>13. Starts([Resting EXCEPT !.pc = p, !.c = c, !.home = h], p, c, z, "none", h)
  BY <1>3, <1>5, <1>6, <1>7, Zenon DEF Starts
<1> QED BY <1>6, <1>8, <1>9, <1>10, <1>11, <1>12, <1>13, Zenon DEF z

PcAt(t, x) ==
  /\ \/ x.pc \in ConnPcs /\ x.c \in Conns
     \/ x.pc = "claim" /\ x.c \in Conns /\ t \in Reactors
     \/ x.pc \in IdlePcs(t) \cup AfterPcs /\ x.c = Null
  /\ x.pc \notin IdlePcs(t) => x.home \in Homes(t)
  /\ ThenOK(x.pc, x.then)
  /\ x.pc = "claim" => x.then \in {"pump", "close"}

\* What the open connections ask for stays.
WantsSame == UNCHANGED <<mem_exempt, mem_charged>> /\ \A d \in Open : Want(conn'[d]) = Want(conn[d])

LEMMA TurnPc ==
  ASSUME SInv, NEW t \in Threads, NEW x, Turns(t, x), PcAt(t, x), x.pc # "enqueue", WantsSame
  PROVE  PcInv' /\ NeedInv'
<1>1. PcInv /\ NeedInv /\ HoldInv BY DEF SInv
<1>2. th'[t] = x /\ \A u \in Threads : u # t => th'[u] = th[u] BY DEF Turns
<1>3. PcInv'
  <2> SUFFICES ASSUME NEW u \in Threads
               PROVE  /\ \/ th'[u].pc \in ConnPcs /\ th'[u].c \in Conns
                         \/ th'[u].pc = "claim" /\ th'[u].c \in Conns /\ u \in Reactors
                         \/ th'[u].pc \in IdlePcs(u) \cup AfterPcs /\ th'[u].c = Null
                      /\ th'[u].pc \notin IdlePcs(u) => th'[u].home \in Homes(u)
                      /\ ThenOK(th'[u].pc, th'[u].then)
                      /\ th'[u].pc = "claim" => th'[u].then \in {"pump", "close"}
    BY DEF PcInv, IdlePcs, Homes
  <2>1. CASE u = t BY <1>2, <2>1 DEF PcAt
  <2>2. CASE u # t BY <1>1, <1>2, <2>2 DEF PcInv
  <2> QED BY <2>1, <2>2
<1>4. NeedInv'
  <2> SUFFICES ASSUME NEW u \in Threads, th'[u].pc = "enqueue"
               PROVE  /\ ~mem_exempt'[th'[u].c]
                      /\ th'[u].then # "memstart" => NextStep(th'[u].c) > 0
    BY DEF NeedInv, Step, NextStep
  <2>1. u # t /\ th'[u] = th[u] BY <1>2
  <2>2. th[u].pc \in ConnPcs BY <2>1 DEF ConnPcs
  <2>3. th[u].c \in Open BY <1>1, <2>2, HandAlone DEF SInv, Open
  <2>4. NextStep(th[u].c) = Step(th[u].c) BY <2>3 DEF WantsSame, NextStep, Step
  <2> QED BY <1>1, <2>1, <2>4 DEF NeedInv, WantsSame
<1> QED BY <1>3, <1>4

LEMMA TurnRest ==
  ASSUME SInv, NEW t \in Threads, NEW x, Turns(t, x), UNCHANGED <<calls, mem_admitting>>,
         x.pc \in {"rest", "done"} /\ t \in Reactors \cup {"sweep", "destroyer"} =>
           /\ t \notin calls /\ mem_admitting # t
           /\ t = "sweep" => "expired" \notin calls /\ mem_admitting # "expired"
  PROVE  RestInv'
<1>1. RestInv BY DEF SInv
<1>2. th'[t] = x /\ \A u \in Threads : u # t => th'[u] = th[u] BY DEF Turns
<1>3. ASSUME NEW u \in Reactors \cup {"sweep", "destroyer"}, th'[u].pc \in {"rest", "done"}
      PROVE  u \notin calls' /\ mem_admitting' # u
  <2>1. u \in Threads BY Roles
  <2> QED BY <1>1, <1>2, <1>3, <2>1 DEF RestInv
<1>4. ASSUME th'["sweep"].pc = "rest" PROVE "expired" \notin calls' /\ mem_admitting' # "expired"
  BY <1>1, <1>2, <1>4, Roles DEF RestInv
<1> QED BY <1>3, <1>4 DEF RestInv

LEMMA TurnAdmitter ==
  ASSUME SInv, NEW t \in Threads, NEW x, Turns(t, x), t # "admitter", UNCHANGED <<calls, mem_admitting, locked>>
  PROVE  AdmitterInv'
<1>1. AdmitterInv BY DEF SInv
<1>2. th'["admitter"] = th["admitter"] BY Roles DEF Turns
<1> QED BY <1>1, <1>2 DEF AdmitterInv

EvAt(x) ==
  /\ x.pc # "rest" => (x.ev = <<"listener", 0>> /\ srv.lreg # "gone") \/ x.ev \in AllLive
  /\ x.pc = "claim" => x.ev \in AllLive /\ x.ev[1] = x.c

LEMMA TurnEv ==
  ASSUME SInv, NEW t \in Threads, NEW x, Turns(t, x), t \in Reactors => EvAt(x),
         AllLive \subseteq AllLive', srv'.lreg = srv.lreg
  PROVE  EvInv'
<1>1. EvInv BY DEF SInv
<1>2. th'[t] = x /\ \A u \in Threads : u # t => th'[u] = th[u] BY DEF Turns
<1> SUFFICES ASSUME NEW r \in Reactors
             PROVE  /\ th'[r].pc # "rest" => (th'[r].ev = <<"listener", 0>> /\ srv'.lreg # "gone") \/ th'[r].ev \in AllLive'
                    /\ th'[r].pc = "claim" => th'[r].ev \in AllLive' /\ th'[r].ev[1] = th'[r].c
  BY DEF EvInv
<1>3. CASE r = t BY <1>2, <1>3 DEF EvAt
<1>4. CASE r # t BY <1>1, <1>2, <1>4, Roles DEF EvInv
<1> QED BY <1>3, <1>4

StageSame ==
  /\ UNCHANGED <<calls, mem_admitting, mem_admission_closed>>
  /\ srv'.lreg = srv.lreg /\ srv'.spins = srv.spins /\ srv'.swept = srv.swept
  /\ srv'.worker_pool = srv.worker_pool /\ srv'.reject_pool = srv.reject_pool

LEMMA TurnStage ==
  ASSUME SInv, NEW t \in Threads \ {"sweep", "destroyer"}, NEW x, Turns(t, x), StageSame,
         tasks = <<>> => tasks' = <<>> /\ t \notin Workers, rejects = <<>> => rejects' = <<>> /\ t \notin Rejecters
  PROVE  StageInv'
<1>1. StageInv BY DEF SInv
<1>2. \A u \in Threads : u # t => th'[u] = th[u] BY DEF Turns
<1>3. th'["sweep"] = th["sweep"] /\ th'["destroyer"] = th["destroyer"] BY <1>2, Roles
<1>4. tasks = <<>> => \A w \in Workers : th'[w] = th[w] BY <1>2, Roles
<1>5. rejects = <<>> => \A j \in Rejecters : th'[j] = th[j] BY <1>2, Roles
<1> QED BY <1>1, <1>3, <1>4, <1>5 DEF StageInv, StageSame

-----------------------------------------------------------------------------
(* Callbacks.                                                              *)

\* A reactor's step on its own record, without a connection.
LEMMA ReactorTurns ==
  ASSUME SInv, NEW r \in Reactors, NEW x, Turns(r, x), PcAt(r, x), EvAt(x), x.pc # "enqueue",
         x.pc = "rest" => r \notin calls /\ mem_admitting # r, x.pc # "done",
         SrvSame, UNCHANGED <<scenario, regs, tasks, rejects, todo, memVars>>, WantsSame
  PROVE  /\ PcInv' /\ EvInv' /\ NeedInv' /\ StageInv' /\ RestInv' /\ AdmitterInv' /\ OnceInv' /\ SrvRefInv'
         /\ r \in Threads /\ \A u \in Threads : u # r => InHand'[u] = InHand[u]
<1>1. r \in Threads /\ r # "admitter" /\ r # "sweep" /\ r # "destroyer" /\ r \notin Workers /\ r \notin Rejecters BY Roles
<1>2. PcInv' /\ NeedInv' BY <1>1, TurnPc
<1>3. AllLive' = AllLive BY DEF AllLive
<1>4. EvInv' BY <1>1, <1>3, TurnEv DEF SrvSame
<1>5. StageInv' BY <1>1, NoChange, TurnStage DEF SrvSame, StageSame
<1>6. RestInv' BY <1>1, NoChange, TurnRest
<1>7. AdmitterInv' BY <1>1, NoChange, TurnAdmitter
<1>8. OnceInv' BY NoChange DEF SInv, OnceInv
<1>9. SrvRefInv'
  <2>1. th'["destroyer"] = th["destroyer"] BY <1>1, Roles DEF Turns
  <2> QED BY <2>1, SrvRefsSame DEF SInv, SrvSame
<1>10. \A u \in Threads : u # r => InHand'[u] = InHand[u] BY DEF InHand, Turns
<1> QED BY <1>1, <1>2, <1>4, <1>5, <1>6, <1>7, <1>8, <1>9, <1>10

LEMMA ReactorIdle ==
  ASSUME SInv, NEW r \in Reactors, NEW x, Turns(r, x), PcAt(r, x), EvAt(x),
         th[r].pc \notin ConnPcs, x.pc \notin ConnPcs, x.pc = "rest" => r \notin calls /\ mem_admitting # r, x.pc # "done",
         SrvSame, UNCHANGED <<scenario, conn, regs, tasks, rejects, todo, memVars>>
  PROVE  SInv'
<1>1. SrvTypeOK /\ HoldInv /\ RefInv BY DEF SInv
<1>2. WantsSame BY NoChange DEF WantsSame
<1>3. x.pc # "enqueue" BY DEF ConnPcs
<1>4. /\ PcInv' /\ EvInv' /\ NeedInv' /\ StageInv' /\ RestInv' /\ AdmitterInv' /\ OnceInv' /\ SrvRefInv'
      /\ r \in Threads /\ \A u \in Threads : u # r => InHand'[u] = InHand[u]
  BY <1>2, <1>3, ReactorTurns
<1>5. HoldInv'
  <2>1. InHand'[r] = {} /\ InHand[r] = {} BY <1>4 DEF Turns, InHand
  <2>2. \A s \in SpotNames : Spots'[s] = Spots[s] BY NoChange, SpotsSame DEF SpotNames
  <2> QED BY <1>1, <1>4, <2>1, <2>2, OpenSame, HoldSame
<1>6. SrvTypeOK' BY <1>1 DEF SrvTypeOK, Turns, SrvSame
<1>7. RefInv' BY <1>1, RefsSame
<1> QED BY <1>4, <1>5, <1>6, <1>7 DEF SInv

LEMMA DispatchStep ==
  ASSUME SInv, TypeOK, NEW r \in Reactors, NEW c \in Conns, NEW n \in 1 .. MaxRegs, Dispatch(r, c, n)
  PROVE  SInv'
<1>1. SrvTypeOK /\ r \in Threads BY Roles DEF SInv
<1>2. PICK kind \in {"pump", "close"} :
        th' = [th EXCEPT ![r] = [Resting EXCEPT !.pc = "claim", !.c = c, !.ev = <<c, n>>, !.then = kind, !.home = "returned"]]
  BY DEF Dispatch
<1> DEFINE x == [Resting EXCEPT !.pc = "claim", !.c = c, !.ev = <<c, n>>, !.then = kind, !.home = "returned"]
<1>3. Starts(x, "claim", c, <<c, n>>, kind, "returned")
  <2>1. "claim" \in Pcs /\ "returned" \in Pcs /\ kind \in Thens BY DEF Pcs, ReactorPcs, Thens
  <2>2. <<c, n>> \in (Conns \cup {Null, "listener"}) \X Nat /\ 0 \in Int BY Bounds
  <2> HIDE DEF x
  <2>3. \A e \in (Conns \cup {Null, "listener"}) \X Nat :
          Starts([Resting EXCEPT !.pc = "claim", !.c = c, !.ev = e, !.then = kind, !.home = "returned"],
                 "claim", c, e, kind, "returned")
    BY <2>1, <2>2, RestingStarts
  <2> QED BY <2>2, <2>3, Zenon DEF x
<1>4. th' = [th EXCEPT ![r] = x] BY <1>2
<1> HIDE DEF x
<1>5. Turns(r, x) BY <1>1, <1>3, <1>4, TurnsWhen DEF Starts
<1>6. PcAt(r, x)
  <2>1. "returned" \in Homes(r) BY DEF Homes
  <2> QED BY <1>3, <2>1 DEF PcAt, Starts, ThenOK
<1>7. EvAt(x)
  <2>1. regs[c][n] = "on" BY DEF Dispatch
  <2>2. <<c, n>> \in AllLive /\ <<c, n>>[1] = c BY <2>1 DEF AllLive, Live
  <2>3. x.ev = <<c, n>> /\ x.c = c /\ x.pc = "claim" BY <1>3 DEF Starts
  <2> QED BY <2>2, <2>3 DEF EvAt
<1>8. UNCHANGED <<scenario, conn, regs, srv, tasks, rejects, todo, memVars>> BY DEF Dispatch, others
<1>9. SrvSame BY <1>1, <1>8 DEF SrvSame, SrvTypeOK
<1>10. th[r].pc \notin ConnPcs /\ x.pc = "claim" /\ x.pc \notin ConnPcs BY <1>3 DEF Dispatch, ConnPcs, Starts
<1> QED BY <1>5, <1>6, <1>7, <1>8, <1>9, <1>10, ReactorIdle

LEMMA RestsTurn ==
  ASSUME SrvTypeOK, NEW r \in Threads, th' = [th EXCEPT ![r] = Resting]
  PROVE  Turns(r, Resting) /\ PcAt(r, Resting) /\ EvAt(Resting) /\ Resting.pc = "rest" /\ Resting.c = Null
<1>1. Starts(Resting, "rest", Null, <<Null, 0>>, "none", "rest")
  <2>1. "rest" \in Pcs /\ "none" \in Thens /\ <<Null, 0>> \in (Conns \cup {Null, "listener"}) \X Nat
    BY DEF Pcs, ReactorPcs, Thens, Parks
  <2> QED BY <2>1, Bounds, RestingStarts
<1>2. Turns(r, Resting) BY <1>1, TurnsWhen DEF Starts
<1>3. PcAt(r, Resting) BY <1>1, PcSets DEF PcAt, Starts, ThenOK
<1>4. EvAt(Resting) BY <1>1 DEF EvAt, Starts
<1> QED BY <1>1, <1>2, <1>3, <1>4 DEF Starts

LEMMA ReturnedStep ==
  ASSUME SInv, TypeOK, NEW r \in Reactors, Returned(r)
  PROVE  SInv'
<1>1. SrvTypeOK /\ r \in Threads BY Roles DEF SInv
<1>2. UNCHANGED <<scenario, conn, regs, srv, tasks, rejects, todo, memVars>> BY DEF Returned, others
<1>3. SrvSame BY <1>1, <1>2 DEF SrvSame, SrvTypeOK
<1>4. th[r].pc \notin ConnPcs /\ r \notin calls /\ mem_admitting # r /\ "rest" \notin ConnPcs BY DEF Returned, Runs, ConnPcs
<1>5. Turns(r, Resting) /\ PcAt(r, Resting) /\ EvAt(Resting) /\ Resting.pc = "rest" BY <1>1, RestsTurn DEF Returned
<1> QED BY <1>2, <1>3, <1>4, <1>5, ReactorIdle

LEMMA LpinsOnly ==
  ASSUME SrvTypeOK, NEW n \in Int, srv' = [srv EXCEPT !.lpins = n]
  PROVE  SrvSame
<1> DEFINE s == [srv EXCEPT !.lpins = n]
<1>1. srv \in SrvRec BY DEF SrvTypeOK
<1>2. /\ s \in SrvRec /\ s.life = srv.life /\ s.refs = srv.refs /\ s.lreg = srv.lreg /\ s.spins = srv.spins
      /\ s.swept = srv.swept /\ s.worker_pool = srv.worker_pool /\ s.reject_pool = srv.reject_pool
  BY <1>1, Zenon DEF SrvRec
<1> QED BY <1>2, Zenon DEF SrvSame

LEMMA ListenerCalledStep ==
  ASSUME SInv, TypeOK, NEW r \in Reactors, ListenerCalled(r)
  PROVE  SInv'
<1> DEFINE e == <<"listener", 0>>
           x == [Resting EXCEPT !.pc = "listener", !.ev = e]
<1>1. SrvTypeOK /\ r \in Threads BY Roles DEF SInv
<1>2. th' = [th EXCEPT ![r] = x] BY DEF ListenerCalled
<1>3. e \in (Conns \cup {Null, "listener"}) \X Nat /\ "listener" \in Pcs /\ "rest" \in Pcs /\ "none" \in Thens
  BY DEF Pcs, ReactorPcs, Thens, Parks
<1> HIDE DEF e
<1>4. Starts(x, "listener", Null, e, "none", "rest") BY <1>3, Bounds, RestingStarts
<1> HIDE DEF x
<1>5. Turns(r, x) BY <1>1, <1>2, <1>4, TurnsWhen DEF Starts
<1>6. PcAt(r, x) /\ x.pc = "listener" /\ "listener" \notin ConnPcs /\ "rest" \notin ConnPcs
  <2>1. "listener" \in IdlePcs(r) BY DEF IdlePcs, ReactorPcs
  <2> QED BY <1>4, <2>1 DEF PcAt, Starts, ThenOK, ConnPcs
<1>7. EvAt(x) BY <1>4 DEF EvAt, Starts, ListenerCalled, e
<1>8. UNCHANGED <<scenario, conn, regs, srv, tasks, rejects, todo, memVars>> BY DEF ListenerCalled, others
<1>9. SrvSame BY <1>1, <1>8 DEF SrvSame, SrvTypeOK
<1>10. th[r].pc = "rest" BY DEF ListenerCalled
<1> QED BY <1>5, <1>6, <1>7, <1>8, <1>9, <1>10, ReactorIdle

\* The steps of the listener's callback that take no connection.
LEMMA ListenerGoes ==
  ASSUME SInv, NEW r \in Reactors, th[r].pc \in {"listener", "accept"}, NEW p \in {"accept", "unpin"}, Goto(r, p),
         SrvSame, UNCHANGED <<scenario, conn, regs, tasks, rejects, todo, memVars>>
  PROVE  SInv'
<1>1. SrvTypeOK /\ r \in Threads /\ PcInv /\ EvInv BY Roles DEF SInv
<1>2. p \in Pcs /\ p \in IdlePcs(r) /\ p \notin ConnPcs BY DEF Pcs, ReactorPcs, IdlePcs, ConnPcs
<1>3. PICK x : /\ Turns(r, x) /\ x.pc = p /\ x.c = th[r].c /\ x.ev = th[r].ev /\ x.then = th[r].then
               /\ x.home = th[r].home
  BY <1>1, <1>2, GotoTurns
<1>4. th[r].pc \in IdlePcs(r) BY DEF IdlePcs, ReactorPcs
<1>5. th[r].pc \notin ConnPcs /\ th[r].pc # "claim" /\ th[r].c = Null BY <1>1, <1>4, PcSets DEF PcInv
<1>6. PcAt(r, x) BY <1>2, <1>3, <1>5 DEF PcAt, ThenOK
<1>7. EvAt(x) BY <1>1, <1>3 DEF EvAt, EvInv
<1> QED BY <1>2, <1>3, <1>5, <1>6, <1>7, ReactorIdle

LEMMA ListenerPinsStep ==
  ASSUME SInv, TypeOK, NEW r \in Reactors, ListenerPins(r)
  PROVE  SInv'
<1>1. SrvTypeOK /\ th[r].pc = "listener" BY DEF SInv, ListenerPins, Runs
<1>2. SrvSame
  <2>1. srv.lpins + 1 \in Int BY <1>1 DEF SrvTypeOK, SrvRec
  <2>2. srv' = [srv EXCEPT !.lpins = srv.lpins + 1] BY DEF ListenerPins
  <2> QED BY <1>1, <2>1, <2>2, LpinsOnly
<1>3. UNCHANGED <<scenario, conn, regs, tasks, rejects, todo, memVars>> BY DEF ListenerPins
<1>4. Goto(r, "accept") \/ Goto(r, "unpin") BY DEF ListenerPins
<1> QED BY <1>1, <1>2, <1>3, <1>4, ListenerGoes

LEMMA ListenerUnpinsStep ==
  ASSUME SInv, TypeOK, NEW r \in Reactors, ListenerUnpins(r)
  PROVE  SInv'
<1>1. SrvTypeOK /\ r \in Threads BY Roles DEF SInv
<1>2. SrvSame
  <2>1. srv.lpins - 1 \in Int BY <1>1 DEF SrvTypeOK, SrvRec
  <2>2. srv' = [srv EXCEPT !.lpins = srv.lpins - 1] BY DEF ListenerUnpins
  <2> QED BY <1>1, <2>1, <2>2, LpinsOnly
<1>3. UNCHANGED <<scenario, conn, regs, tasks, rejects, todo, memVars>> BY DEF ListenerUnpins
<1>4. th[r].pc \notin ConnPcs /\ r \notin calls /\ mem_admitting # r /\ "rest" \notin ConnPcs
  BY DEF ListenerUnpins, Runs, ConnPcs
<1>5. Turns(r, Resting) /\ PcAt(r, Resting) /\ EvAt(Resting) /\ Resting.pc = "rest" BY <1>1, RestsTurn DEF ListenerUnpins
<1> QED BY <1>2, <1>3, <1>4, <1>5, ReactorIdle

LEMMA AcceptStep ==
  ASSUME SInv, TypeOK, NEW r \in Reactors, Accept(r)
  PROVE  SInv'
<1>1. SrvTypeOK /\ r \in Threads /\ HoldInv /\ RefInv /\ EvInv /\ th[r].pc = "accept" /\ th[r] \in ThRec
  BY Roles DEF SInv, SrvTypeOK, Accept, Runs
<1>2. UNCHANGED <<scenario, regs, srv, tasks, rejects, todo, memVars>> BY DEF Accept, others
<1>3. SrvSame BY <1>1, <1>2 DEF SrvSame, SrvTypeOK
<1>4. CASE Goto(r, "unpin") /\ UNCHANGED conn BY <1>1, <1>2, <1>3, <1>4, ListenerGoes
<1>5. ASSUME NEW c \in scenario.fresh, conn[c].life = "none",
             Set(c, [NoConn EXCEPT !.life = "open", !.refs = 1, !.reqs = scenario.reqs]),
             th' = [th EXCEPT ![r].pc = "pump", ![r].c = c, ![r].home = "accept"]
      PROVE  SInv'
  <2> DEFINE y == [NoConn EXCEPT !.life = "open", !.refs = 1, !.reqs = scenario.reqs]
             x == [th[r] EXCEPT !.pc = "pump", !.c = c, !.home = "accept"]
  <2>1. c \in Conns /\ scenario.reqs \in Int BY <1>1, HttpServerAssumption DEF SrvTypeOK
  <2>2. y \in ConnRec /\ y.life = "open" /\ y.list = "none" /\ y.refs = 1 /\ y.reg = 0
    <3>1. "none" \in Parks /\ 1 \in Int /\ 0 \in Int BY DEF Parks
    <3>2. NoConn \in ConnRec /\ NoConn.list = "none" /\ NoConn.reg = 0
      BY <3>1, Bounds, Zenon DEF NoConn, ConnRec
    <3> QED BY <2>1, <3>1, <3>2, Zenon DEF ConnRec
  <2>3. Set(c, y) BY <1>5
  <2>4. x \in ThRec /\ x.pc = "pump" /\ x.c = c /\ x.ev = th[r].ev /\ x.then = th[r].then /\ x.home = "accept"
    <3>1. "pump" \in Pcs /\ "accept" \in Pcs BY DEF Pcs, ConnPcs, ReactorPcs
    <3> QED BY <1>1, <2>1, <3>1, Zenon DEF ThRec
  <2>5. th' = [th EXCEPT ![r] = x] BY <1>1, <1>5, Zenon DEF ThRec
  <2> HIDE DEF x, y
  <2>6. Turns(r, x) BY <1>1, <2>4, <2>5, TurnsWhen
  <2>7. ConnIs(c, y) BY <1>1, <2>1, <2>2, <2>3, SetIs DEF SrvTypeOK
  <2>8. PcAt(r, x) /\ x.pc # "enqueue" /\ x.pc # "rest" /\ x.pc # "done" /\ x.pc \in ConnPcs
    <3>1. "pump" \in ConnPcs /\ "accept" \in Homes(r) BY DEF ConnPcs, Homes
    <3> QED BY <2>1, <2>4, <3>1 DEF PcAt, ThenOK
  <2>9. EvAt(x) BY <1>1, <2>4 DEF EvAt, EvInv
  <2>10. c \notin Open BY <1>5 DEF Open
  <2>11. WantsSame
    <3>1. \A d \in Open : conn'[d] = conn[d] BY <2>7, <2>10 DEF ConnIs, Open
    <3> QED BY <1>2, <3>1, NoChange DEF WantsSame
  <2>12. /\ PcInv' /\ EvInv' /\ NeedInv' /\ StageInv' /\ RestInv' /\ AdmitterInv' /\ OnceInv' /\ SrvRefInv'
         /\ \A u \in Threads : u # r => InHand'[u] = InHand[u]
    BY <1>2, <1>3, <2>6, <2>8, <2>9, <2>11, ReactorTurns
  <2>13. HoldInv'
    <3>1. InHand[r] = {} /\ InHand'[r] = {c} BY <1>1, <2>4, <2>6, <2>8 DEF InHand, Turns, ConnPcs
    <3>2. conn[c].list = "none"
      <4>1. "list" \in SpotNames BY DEF SpotNames
      <4>2. c \notin Spots["list"] BY <1>1, <2>10, <4>1 DEF HoldInv, Apart
      <4> QED BY <2>1, <4>2, SpotValues
    <3>3. \A d \in Conns : conn'[d].list = conn[d].list BY <2>2, <2>7, <3>2 DEF ConnIs
    <3>4. \A s \in SpotNames : Spots'[s] = Spots[s] BY <1>2, <3>3, NoChange, SpotsSame DEF SpotNames
    <3>5. Open' = Open \cup {c} BY <2>1, <2>2, <2>7 DEF Open, ConnIs
    <3>6. Creates(r, c) BY <2>10, <2>12, <3>1, <3>4, <3>5 DEF Creates, OthersHold
    <3> QED BY <1>1, <3>6, HoldsOn
  <2>14. SrvTypeOK' BY <1>1, <1>2, <2>6, <2>7 DEF SrvTypeOK, Turns, ConnIs
  <2>15. RefInv'
    <3> SUFFICES ASSUME NEW d \in Conns
                 PROVE  /\ conn'[d].refs = Cardinality(LiveAt(d)') + (IF conn'[d].life = "open" THEN 1 ELSE 0)
                        /\ conn'[d].life \in {"none", "freed"} => conn'[d].refs = 0
                        /\ conn'[d].reg > 0 => regs'[d][conn'[d].reg] \in {"on", "paused"}
      BY DEF RefInv
    <3>1. /\ conn[d].refs = Cardinality(LiveAt(d)) + (IF conn[d].life = "open" THEN 1 ELSE 0)
          /\ conn[d].life \in {"none", "freed"} => conn[d].refs = 0
          /\ conn[d].reg > 0 => regs[d][conn[d].reg] \in {"on", "paused"}
      BY <1>1 DEF RefInv
    <3>2. conn'[c] = y /\ (d # c => conn'[d] = conn[d]) BY <2>7 DEF ConnIs
    <3>3. LiveAt(d)' = LiveAt(d) /\ Cardinality(LiveAt(d)) \in Nat BY <1>2, LiveFinite DEF LiveAt
    <3>4. CASE d = c BY <1>5, <2>2, <3>1, <3>2, <3>3, <3>4
    <3>5. CASE d # c BY <1>2, <3>1, <3>2, <3>3, <3>5
    <3> QED BY <3>4, <3>5
  <2> QED BY <2>12, <2>13, <2>14, <2>15 DEF SInv
<1> QED BY <1>4, <1>5 DEF Accept

-----------------------------------------------------------------------------
(* Taking a connection out of a queue.                                     *)

LEMMA TasksTail ==
  ASSUME tasks \in Seq(TaskSet), tasks # <<>>, tasks' = Tail(tasks),
         \A i, j \in 1 .. Len(tasks) : tasks[i][2] = tasks[j][2] => i = j
  PROVE  /\ Head(tasks) \in TaskSet /\ Head(tasks)[2] \in TaskConns
         /\ tasks' \in Seq(TaskSet) /\ TaskConns' = TaskConns \ {Head(tasks)[2]}
         /\ \A i, j \in 1 .. Len(tasks') : tasks'[i][2] = tasks'[j][2] => i = j
<1>1. /\ Len(tasks) \in Nat /\ Len(tasks) # 0 /\ \A i \in 1 .. Len(tasks) : tasks[i] \in TaskSet
      /\ Head(tasks) = tasks[1] /\ tasks' \in Seq(TaskSet) /\ Len(tasks') = Len(tasks) - 1
      /\ \A i \in 1 .. Len(tasks') : tasks'[i] = tasks[i + 1]
  BY HeadTailProperties, LenProperties, ElementOfSeq, EmptySeq
<1>2. 1 \in 1 .. Len(tasks) /\ \A i \in 1 .. Len(tasks) - 1 : i + 1 \in 1 .. Len(tasks) /\ i + 1 # 1 BY <1>1
<1>3. TaskConns' = TaskConns \ {Head(tasks)[2]}
  <2>1. ASSUME NEW i \in 1 .. Len(tasks) - 1 PROVE tasks'[i][2] \in TaskConns \ {Head(tasks)[2]}
    <3>1. tasks'[i] = tasks[i + 1] /\ i + 1 \in 1 .. Len(tasks) /\ i + 1 # 1 BY <1>1, <1>2
    <3>2. tasks[i + 1][2] # tasks[1][2] BY <1>2, <3>1
    <3> QED BY <1>1, <3>1, <3>2 DEF TaskConns
  <2>2. ASSUME NEW d \in TaskConns \ {Head(tasks)[2]} PROVE \E i \in 1 .. Len(tasks) - 1 : tasks'[i][2] = d
    <3>1. PICK m \in 1 .. Len(tasks) : tasks[m][2] = d BY <2>2 DEF TaskConns
    <3>2. m # 1 BY <1>1, <2>2, <3>1
    <3>3. m - 1 \in 1 .. Len(tasks) - 1 /\ (m - 1) + 1 = m BY <1>1, <3>2
    <3>4. tasks'[m - 1] = tasks[m] BY <1>1, <3>3
    <3> QED BY <3>1, <3>3, <3>4
  <2> QED BY <1>1, <2>1, <2>2 DEF TaskConns
<1>4. ASSUME NEW i \in 1 .. Len(tasks'), NEW j \in 1 .. Len(tasks'), tasks'[i][2] = tasks'[j][2]
      PROVE  i = j
  <2>1. tasks[i + 1][2] = tasks[j + 1][2] /\ i + 1 \in 1 .. Len(tasks) /\ j + 1 \in 1 .. Len(tasks) BY <1>1, <1>4
  <2>2. i + 1 = j + 1 BY <2>1
  <2> QED BY <1>1, <2>2
<1>5. Head(tasks)[2] \in TaskConns BY <1>1, <1>2 DEF TaskConns
<1> QED BY <1>1, <1>2, <1>3, <1>4, <1>5

\* t, which had none, has c from the spot s.
Hands(s, c) ==
  c \in Spots[s] /\ Spots'[s] = Spots[s] \ {c} /\ \A r \in SpotNames : r # s => Spots'[r] = Spots[r]

LEMMA TurnsUp ==
  ASSUME SInv, NEW t \in Threads, NEW x, Turns(t, x), PcAt(t, x), NEW p, NEW c \in Conns,
         p \in ConnPcs \ {"enqueue"}, x.pc = p, x.c = c, th[t].pc \notin ConnPcs, t \notin Reactors,
         NEW y, ConnIs(c, y), y.life = conn[c].life, y.refs = conn[c].refs, y.reg = conn[c].reg, Want(y) = Want(conn[c]),
         UNCHANGED <<scenario, regs, srv, mem_exempt, mem_charged>>, NEW s \in SpotNames, Hands(s, c)
  PROVE  /\ PcInv' /\ EvInv' /\ NeedInv' /\ HoldInv' /\ RefInv' /\ conn' \in [Conns -> ConnRec] /\ AllLive' = AllLive
         /\ th' \in [Threads -> ThRec] /\ (t # "destroyer" \/ th[t].pc # "done" => SrvRefInv')
<1>1. SrvTypeOK /\ HoldInv /\ RefInv /\ SrvRefInv BY DEF SInv
<1>2. conn' \in [Conns -> ConnRec] /\ conn'[c] = y /\ \A d \in Conns : d # c => conn'[d] = conn[d] BY DEF ConnIs
<1>3. WantsSame BY <1>2 DEF WantsSame, Open
<1>4. PcInv' /\ NeedInv' BY <1>3, TurnPc
<1>5. AllLive' = AllLive BY DEF AllLive
<1>6. EvInv' BY <1>5, TurnEv
<1>7. HoldInv'
  <2>1. InHand[t] = {} /\ InHand'[t] = {c} /\ \A u \in Threads : u # t => InHand'[u] = InHand[u]
    BY DEF InHand, Turns
  <2>2. Open' = Open BY <1>2, OpenSame
  <2>3. TakesUp(t, s, c) BY <2>1, <2>2 DEF TakesUp, OthersHold, Hands
  <2> QED BY <1>1, <2>3, HoldsOn
<1>8. RefInv' BY <1>1, <1>2, RefsSame
<1>9. ASSUME t # "destroyer" \/ th[t].pc # "done" PROVE SrvRefInv'
  <2>1. "done" \notin ConnPcs BY DEF ConnPcs
  <2>2. th'["destroyer"].pc = "done" <=> th["destroyer"].pc = "done" BY <1>9, <2>1, Roles DEF Turns
  <2> QED BY <1>1, <2>2, SrvRefsSame
<1> QED BY <1>2, <1>4, <1>5, <1>6, <1>7, <1>8, <1>9 DEF Turns

\* A task of a pool begins.
LEMMA PoolTurns ==
  ASSUME SInv, NEW t \in Workers \cup Rejecters, NEW p \in {"worker", "resume", "reject"}, NEW c \in Conns,
         th[t].pc = "rest", th' = [th EXCEPT ![t] = [Resting EXCEPT !.pc = p, !.c = c, !.rel = 1]],
         UNCHANGED <<scenario, conn, regs, srv, todo, memVars>>, NEW s \in SpotNames, Hands(s, c), OnceInv',
         tasks' \in Seq(TaskSet), rejects' \in Seq(Conns),
         tasks = <<>> => tasks' = <<>> /\ t \notin Workers, rejects = <<>> => rejects' = <<>> /\ t \notin Rejecters
  PROVE  SInv'
<1> DEFINE x == [Resting EXCEPT !.pc = p, !.c = c, !.rel = 1]
<1>1. SrvTypeOK /\ t \in Threads /\ t \notin Reactors /\ t # "sweep" /\ t # "destroyer" /\ t # "admitter"
  BY Roles DEF SInv
<1>2. Starts(x, p, c, <<Null, 0>>, "none", "rest")
  <2>1. p \in Pcs /\ "rest" \in Pcs /\ "none" \in Thens /\ <<Null, 0>> \in (Conns \cup {Null, "listener"}) \X Nat /\ 1 \in Int
    BY DEF Pcs, ConnPcs, ReactorPcs, Thens, Parks
  <2> QED BY <2>1, RestingStarts
<1>3. th' = [th EXCEPT ![t] = x] OBVIOUS
<1> HIDE DEF x
<1>4. Turns(t, x) /\ x.pc = p /\ x.c = c BY <1>1, <1>2, <1>3, TurnsWhen DEF Starts
<1>5. PcAt(t, x)
  <2>1. Homes(t) = {"rest"} BY <1>1 DEF Homes
  <2> QED BY <1>2, <2>1 DEF PcAt, Starts, ConnPcs, ThenOK
<1>6. ConnIs(c, conn[c]) BY <1>1 DEF ConnIs, SrvTypeOK
<1>7. p \in ConnPcs \ {"enqueue"} /\ "rest" \notin ConnPcs BY DEF ConnPcs
<1>8. /\ PcInv' /\ EvInv' /\ NeedInv' /\ HoldInv' /\ RefInv' /\ conn' \in [Conns -> ConnRec]
      /\ th' \in [Threads -> ThRec] /\ SrvRefInv'
  BY <1>1, <1>4, <1>5, <1>6, <1>7, NoChange, TurnsUp
<1>9. StageInv' BY <1>1, <1>4, NoChange, TurnStage DEF StageSame
<1>10. RestInv' BY <1>1, <1>4, NoChange, TurnRest
<1>11. AdmitterInv' BY <1>1, <1>4, NoChange, TurnAdmitter
<1>12. SrvTypeOK' BY <1>1, <1>8 DEF SrvTypeOK, TaskSet
<1> QED BY <1>8, <1>9, <1>10, <1>11, <1>12 DEF SInv

LEMMA TakeTaskStep ==
  ASSUME SInv, TypeOK, NEW w \in Workers, TakeTask(w)
  PROVE  SInv'
<1> DEFINE p == Head(tasks)[1]
           c == Head(tasks)[2]
<1>1. SrvTypeOK /\ OnceInv BY DEF SInv
<1>2. tasks \in Seq(TaskSet) /\ rejects \in Seq(Conns) BY <1>1 DEF SrvTypeOK, TaskSet
<1>3. /\ th[w].pc = "rest" /\ tasks # <<>> /\ tasks' = Tail(tasks)
      /\ th' = [th EXCEPT ![w] = [Resting EXCEPT !.pc = p, !.c = c, !.rel = 1]]
      /\ UNCHANGED <<scenario, conn, regs, srv, rejects, todo, memVars>>
  BY DEF TakeTask
<1>4. /\ Head(tasks) \in TaskSet /\ c \in TaskConns
      /\ tasks' \in Seq(TaskSet) /\ TaskConns' = TaskConns \ {Head(tasks)[2]}
      /\ \A i, j \in 1 .. Len(tasks') : tasks'[i][2] = tasks'[j][2] => i = j
  BY <1>1, <1>2, <1>3, TasksTail DEF OnceInv
<1>5. p \in {"worker", "resume", "reject"} /\ c \in Conns BY <1>4 DEF TaskSet
<1>6. OnceInv' BY <1>1, <1>3, <1>4, NoChange DEF OnceInv
<1>7. "tasks" \in SpotNames /\ Hands("tasks", c)
  <2>1. c \in Spots["tasks"] /\ Spots'["tasks"] = Spots["tasks"] \ {c} BY <1>4 DEF Spots, SpotNames
  <2> QED BY <1>3, <2>1, NoChange, SpotsSame DEF Hands, SpotNames
<1>8. w \notin Rejecters BY Roles
<1> HIDE DEF p, c
<1> QED BY <1>2, <1>3, <1>4, <1>5, <1>6, <1>7, <1>8, PoolTurns

LEMMA RejectTaskStep ==
  ASSUME SInv, TypeOK, NEW j \in Rejecters, RejectTask(j)
  PROVE  SInv'
<1> DEFINE c == Head(rejects)
<1>1. SrvTypeOK /\ OnceInv BY DEF SInv
<1>2. tasks \in Seq(TaskSet) /\ rejects \in Seq(Conns) BY <1>1 DEF SrvTypeOK, TaskSet
<1>3. /\ th[j].pc = "rest" /\ rejects # <<>> /\ rejects' = Tail(rejects)
      /\ th' = [th EXCEPT ![j] = [Resting EXCEPT !.pc = "reject", !.c = c, !.rel = 1]]
      /\ UNCHANGED <<scenario, conn, regs, srv, tasks, todo, memVars>>
  BY DEF RejectTask
<1>4. /\ c \in Conns /\ c \in Elems(rejects) /\ rejects' \in Seq(Conns) /\ Distinct(rejects')
      /\ Elems(rejects') = Elems(rejects) \ {c}
  BY <1>1, <1>2, <1>3, TailElems DEF OnceInv
<1>6. OnceInv'
  <2>1. Distinct(rejects)' BY <1>4 DEF Distinct
  <2> QED BY <1>1, <1>3, <2>1, NoChange DEF OnceInv
<1>7. "rejects" \in SpotNames /\ Hands("rejects", c)
  <2>1. c \in Spots["rejects"] /\ Spots'["rejects"] = Spots["rejects"] \ {c} BY <1>4 DEF Spots, SpotNames
  <2> QED BY <1>3, <2>1, NoChange, SpotsSame DEF Hands, SpotNames
<1>8. j \notin Workers BY Roles
<1> HIDE DEF c
<1> QED BY <1>2, <1>3, <1>4, <1>6, <1>7, <1>8, PoolTurns

LEMMA MemDispatchStep ==
  ASSUME SInv, TypeOK, MemDispatch
  PROVE  SInv'
<1> DEFINE t == "admitter"
           c == Head(batch)
           q == IF conn[c].park = "membody" THEN "body" ELSE "none"
           y == [conn[c] EXCEPT !.park = q, !.div = TRUE]
           x == [Resting EXCEPT !.pc = "count", !.c = c, !.then = "admitted"]
<1>1. /\ SrvTypeOK /\ OnceInv /\ AdmitterInv /\ batch \in Seq(Conns) /\ Distinct(batch) /\ t \in Threads /\ t \notin Reactors
      /\ t # "sweep" /\ t # "destroyer" /\ t \notin Workers /\ t \notin Rejecters
  BY Roles DEF SInv, OnceInv, TypeOK
<1>2. /\ th[t].pc = "rest" /\ batch # <<>> /\ batch' = Tail(batch) /\ mem_admitting # Null /\ ~locked
      /\ UNCHANGED <<mem_list, mem_admitting, locked, mem_admission_closed, mem_exempt, mem_charged, calls>>
      /\ UNCHANGED <<scenario, regs, srv, tasks, rejects, todo>>
  BY DEF MemDispatch, TakeBatch, memCounts, others
<1>3. /\ c \in Conns /\ c \in Elems(batch) /\ Distinct(batch') /\ Elems(batch') = Elems(batch) \ {c}
  BY <1>1, <1>2, TailElems
<1>4. conn[c] \in ConnRec BY <1>1, <1>3 DEF SrvTypeOK
<1>5. q \in Parks BY DEF Parks
<1>6. Set(c, y) BY Zenon DEF MemDispatch
<1>7. th' = [th EXCEPT ![t] = x] BY DEF MemDispatch
<1> HIDE DEF q, t, c
<1>8. Starts(x, "count", c, <<Null, 0>>, "admitted", "rest")
  <2>1. "count" \in Pcs /\ "admitted" \in Thens /\ "rest" \in Pcs /\ 0 \in Int
        /\ <<Null, 0>> \in (Conns \cup {Null, "listener"}) \X Nat
    BY DEF Pcs, ConnPcs, Thens, ReactorPcs
  <2> QED BY <1>3, <2>1, RestingStarts
<1> HIDE DEF x
<1>9. /\ y \in ConnRec /\ y.life = conn[c].life /\ y.list = conn[c].list /\ y.refs = conn[c].refs /\ y.reg = conn[c].reg
      /\ y.len = conn[c].len /\ y.cap = conn[c].cap /\ y.size = conn[c].size /\ y.declared = conn[c].declared
  BY <1>4, <1>5, Zenon DEF ConnRec
<1> HIDE DEF y
<1>10. ConnIs(c, y) BY <1>1, <1>3, <1>6, <1>9, SetIs DEF SrvTypeOK
<1>11. Want(y) = Want(conn[c]) BY <1>9 DEF Want, Target, Ceiling
<1>12. Turns(t, x) /\ x.pc = "count" /\ x.c = c BY <1>1, <1>7, <1>8, TurnsWhen DEF Starts
<1>13. PcAt(t, x)
  <2>1. Homes(t) = {"rest"} BY <1>1 DEF Homes
  <2> QED BY <1>3, <1>8, <2>1 DEF PcAt, Starts, ConnPcs, ThenOK
<1>14. "batch" \in SpotNames /\ Hands("batch", c)
  <2>1. c \in Spots["batch"] /\ Spots'["batch"] = Spots["batch"] \ {c} BY <1>3 DEF Spots, SpotNames
  <2>2. \A d \in Conns : conn'[d].list = conn[d].list BY <1>9, <1>10 DEF ConnIs
  <2> QED BY <1>2, <2>1, <2>2, SpotsSame DEF Hands, SpotNames
<1>15. "count" \in ConnPcs \ {"enqueue"} /\ "rest" \notin ConnPcs BY DEF ConnPcs
<1>16. /\ PcInv' /\ EvInv' /\ NeedInv' /\ HoldInv' /\ RefInv' /\ conn' \in [Conns -> ConnRec]
       /\ th' \in [Threads -> ThRec] /\ SrvRefInv'
  BY <1>1, <1>2, <1>3, <1>9, <1>10, <1>11, <1>12, <1>13, <1>14, <1>15, TurnsUp
<1>17. StageInv' BY <1>1, <1>2, <1>12, TurnStage DEF StageSame
<1>18. RestInv' BY <1>1, <1>2, <1>12, TurnRest
<1>19. AdmitterInv'
  <2>1. th'["admitter"].pc = "count" /\ th'["admitter"].then = "admitted" BY <1>1, <1>8, <1>12 DEF Turns, Starts, t
  <2> QED BY <1>1, <1>2, <2>1 DEF AdmitterInv, AdmitterPcs
<1>20. OnceInv'
  <2>1. Distinct(batch)' BY <1>3 DEF Distinct
  <2> QED BY <1>1, <1>2, <2>1 DEF OnceInv
<1>21. SrvTypeOK' BY <1>1, <1>2, <1>16 DEF SrvTypeOK
<1> QED BY <1>16, <1>17, <1>18, <1>19, <1>20, <1>21 DEF SInv

-----------------------------------------------------------------------------
(* Steps that no thread's record shows: the end of a registration, and the *)
(* admission loop.                                                         *)

LEMMA ThStays ==
  ASSUME SInv, UNCHANGED th,
         \A t \in Threads : th[t].pc = "enqueue" =>
           mem_exempt'[th[t].c] = mem_exempt[th[t].c] /\ NextStep(th[t].c) = Step(th[t].c)
  PROVE  PcInv' /\ NeedInv' /\ \A u \in Threads : InHand'[u] = InHand[u]
<1>1. PcInv /\ NeedInv BY DEF SInv
<1>2. PcInv' BY <1>1 DEF PcInv, IdlePcs, Homes
<1>3. NeedInv'
  <2> SUFFICES ASSUME NEW t \in Threads, th'[t].pc = "enqueue"
               PROVE  ~mem_exempt'[th'[t].c] /\ (th'[t].then # "memstart" => NextStep(th'[t].c) > 0)
    BY DEF NeedInv, Step, NextStep
  <2>1. th'[t] = th[t] OBVIOUS
  <2> QED BY <1>1, <2>1 DEF NeedInv
<1>4. \A u \in Threads : InHand'[u] = InHand[u] BY DEF InHand
<1> QED BY <1>2, <1>3, <1>4

\* The server loses a reference; g is what the listener's registration is then.
SrvDrops(g) ==
  /\ srv' \in SrvRec /\ srv'.refs = srv.refs - 1 /\ srv'.life = (IF srv.refs = 1 THEN "freed" ELSE srv.life)
  /\ srv'.lreg = g /\ srv'.spins = srv.spins /\ srv'.swept = srv.swept
  /\ srv'.worker_pool = srv.worker_pool /\ srv'.reject_pool = srv.reject_pool

LEMMA SrvDroppedIs ==
  ASSUME SrvTypeOK
  PROVE  /\ srv' = SrvDropped(srv) => SrvDrops(srv.lreg)
         /\ srv' = [SrvDropped(srv) EXCEPT !.lreg = "gone"] => SrvDrops("gone")
<1> DEFINE k == srv.refs - 1
           l == IF srv.refs = 1 THEN "freed" ELSE srv.life
           s == [srv EXCEPT !.refs = k, !.life = l]
           z == [s EXCEPT !.lreg = "gone"]
<1>1. srv \in SrvRec BY DEF SrvTypeOK
<1>2. k \in Int /\ l \in {"up", "freed"} BY <1>1 DEF SrvRec
<1>3. SrvDropped(srv) = s BY Zenon DEF SrvDropped
<1> HIDE DEF k, l
<1>4. /\ s \in SrvRec /\ s.refs = k /\ s.life = l /\ s.lreg = srv.lreg /\ s.spins = srv.spins
      /\ s.swept = srv.swept /\ s.worker_pool = srv.worker_pool /\ s.reject_pool = srv.reject_pool
  BY <1>1, <1>2, Zenon DEF SrvRec
<1> HIDE DEF s
<1>5. /\ z \in SrvRec /\ z.refs = k /\ z.life = l /\ z.lreg = "gone" /\ z.spins = srv.spins
      /\ z.swept = srv.swept /\ z.worker_pool = srv.worker_pool /\ z.reject_pool = srv.reject_pool
  BY <1>4, Zenon DEF SrvRec
<1> HIDE DEF z
<1>6. srv' = SrvDropped(srv) => srv' = s BY <1>3
<1>7. srv' = [SrvDropped(srv) EXCEPT !.lreg = "gone"] => srv' = z BY <1>3, Zenon DEF z
<1> QED BY <1>4, <1>5, <1>6, <1>7, Zenon DEF SrvDrops, k, l

\* Nothing of this a step changes.
LEMMA QuietKeeps ==
  ASSUME SInv, UNCHANGED <<th, calls, mem_admitting, locked, mem_admission_closed, tasks, rejects>>,
         srv'.spins = srv.spins, srv'.swept = srv.swept,
         srv'.worker_pool = srv.worker_pool, srv'.reject_pool = srv.reject_pool,
         th["destroyer"].pc \in {"rest", "stop"} => srv'.lreg = srv.lreg
  PROVE  StageInv' /\ RestInv' /\ AdmitterInv'
<1>1. StageInv /\ RestInv /\ AdmitterInv BY DEF SInv
<1>2. StageInv' BY <1>1 DEF StageInv
<1>3. RestInv' BY <1>1 DEF RestInv
<1>4. AdmitterInv' BY <1>1 DEF AdmitterInv
<1> QED BY <1>2, <1>3, <1>4

LEMMA ListenerRemovedStep ==
  ASSUME SInv, TypeOK, ListenerRemoved
  PROVE  SInv'
<1>1. SrvTypeOK /\ HoldInv /\ OnceInv /\ RefInv /\ SrvRefInv /\ EvInv /\ StageInv BY DEF SInv
<1>2. /\ UNCHANGED <<scenario, conn, regs, th, tasks, rejects, todo, memVars>>
      /\ srv.lreg = "removed" /\ SrvDrops("gone")
  BY <1>1, SrvDroppedIs DEF ListenerRemoved
<1>3. PcInv' /\ NeedInv' /\ \A u \in Threads : InHand'[u] = InHand[u]
  BY <1>2, NoChange, ThStays DEF NextStep, Step
<1>4. StageInv' /\ RestInv' /\ AdmitterInv'
  <2>1. th["destroyer"].pc \notin {"rest", "stop"} BY <1>1, <1>2 DEF StageInv
  <2> QED BY <1>2, <2>1, NoChange, QuietKeeps DEF SrvDrops
<1>5. HoldInv'
  <2>1. \A s \in SpotNames : Spots'[s] = Spots[s] BY <1>2, NoChange, SpotsSame DEF SpotNames
  <2> QED BY <1>1, <1>2, <1>3, <2>1, OpenSame, HoldSame
<1>6. SrvTypeOK' BY <1>1, <1>2 DEF SrvTypeOK, SrvDrops
<1>7. OnceInv' BY <1>1, <1>2, NoChange DEF OnceInv
<1>8. RefInv' BY <1>1, <1>2, RefsSame
<1>9. AllLive' = AllLive BY <1>2 DEF AllLive
<1>10. SrvRefInv'
  <2>1. Cardinality(AllLive) \in Nat BY LiveFinite
  <2> QED BY <1>1, <1>2, <1>9, <2>1 DEF SrvRefInv, SrvDrops
<1>11. EvInv'
  <2>1. \A r \in Reactors : th[r].ev # <<"listener", 0>> BY DEF ListenerRemoved, Listening
  <2> QED BY <1>1, <1>2, <1>9, <2>1 DEF EvInv
<1> QED BY <1>3, <1>4, <1>5, <1>6, <1>7, <1>8, <1>10, <1>11 DEF SInv

LEMMA OnRemovedStep ==
  ASSUME SInv, TypeOK, NEW c \in Conns, NEW n \in 1 .. MaxRegs, OnRemoved(c, n)
  PROVE  SInv'
<1> DEFINE k == conn[c].refs - 1
           l == IF conn[c].refs = 1 THEN "freed" ELSE conn[c].life
           y == [conn[c] EXCEPT !.refs = k, !.life = l]
<1>1. SrvTypeOK /\ HoldInv /\ OnceInv /\ RefInv /\ SrvRefInv /\ EvInv /\ StageInv BY DEF SInv
<1>2. /\ UNCHANGED <<scenario, th, tasks, rejects, todo, memVars>>
      /\ regs[c][n] = "removed" /\ SrvDrops(srv.lreg)
  BY <1>1, SrvDroppedIs DEF OnRemoved
<1>3. conn[c] \in ConnRec BY <1>1 DEF SrvTypeOK
<1>4. RegIs(c, n, "gone")
  <2>1. "gone" \in RegStates BY DEF RegStates
  <2> QED BY <1>1, <2>1, RegSet DEF OnRemoved
<1>5. /\ AllLive' = AllLive \ {<<c, n>>} /\ Cardinality(AllLive') = Cardinality(AllLive) - 1
      /\ LiveAt(c)' = LiveAt(c) \ {n} /\ Cardinality(LiveAt(c)') = Cardinality(LiveAt(c)) - 1
      /\ \A d \in Conns : d # c => LiveAt(d)' = LiveAt(d)
  <2>1. regs[c][n] \in Live /\ "gone" \notin Live BY <1>2 DEF Live
  <2> QED BY <1>4, <2>1, LiveChange
<1>6. /\ Cardinality(AllLive) \in Nat /\ Cardinality(AllLive) # 0
      /\ Cardinality(LiveAt(c)) \in Nat /\ Cardinality(LiveAt(c)) # 0
  <2>1. n \in LiveAt(c) /\ <<c, n>> \in AllLive BY <1>2 DEF LiveAt, AllLive, Live
  <2> QED BY <2>1, LiveFinite, FS_EmptySet
<1>7. k \in Int /\ l \in {"none", "open", "closed", "freed"} /\ (l = "open" <=> conn[c].life = "open")
  BY <1>1, <1>3, <1>6 DEF RefInv, ConnRec
<1>8. Set(c, y)
  <2>1. y = Dropped(conn[c]) BY Zenon DEF Dropped
  <2> QED BY <2>1, Zenon DEF OnRemoved
<1>9. (l \in {"none", "freed"} => k = 0) /\ k = Cardinality(LiveAt(c)) - 1 + (IF l = "open" THEN 1 ELSE 0)
  BY <1>1, <1>3, <1>6 DEF RefInv, ConnRec
<1> HIDE DEF k, l
<1>10. /\ y \in ConnRec /\ y.life = l /\ y.list = conn[c].list /\ y.refs = k /\ y.reg = conn[c].reg
       /\ y.len = conn[c].len /\ y.cap = conn[c].cap /\ y.size = conn[c].size /\ y.declared = conn[c].declared
  BY <1>3, <1>7, Zenon DEF ConnRec
<1> HIDE DEF y
<1>11. /\ conn' \in [Conns -> ConnRec] /\ conn'[c] = y /\ \A d \in Conns : d # c => conn'[d] = conn[d]
  BY <1>1, <1>8, <1>10, SetIs DEF SrvTypeOK, ConnIs
<1>12. \A d \in Conns : Want(conn'[d]) = Want(conn[d]) BY <1>10, <1>11 DEF Want, Target, Ceiling
<1>13. PcInv' /\ NeedInv' /\ \A u \in Threads : InHand'[u] = InHand[u]
  <2>1. ASSUME NEW t \in Threads, th[t].pc = "enqueue" PROVE th[t].c \in Conns
    <3>1. th[t].pc \in ConnPcs BY <2>1 DEF ConnPcs
    <3> QED BY <3>1, InHandOf
  <2> QED BY <1>2, <1>12, <2>1, NoChange, ThStays DEF NextStep, Step
<1>14. StageInv' /\ RestInv' /\ AdmitterInv' BY <1>2, NoChange, QuietKeeps DEF SrvDrops
<1>15. HoldInv'
  <2>1. \A d \in Conns : conn'[d].list = conn[d].list BY <1>10, <1>11
  <2>2. \A s \in SpotNames : Spots'[s] = Spots[s] BY <1>2, <2>1, NoChange, SpotsSame DEF SpotNames
  <2>3. Open' = Open BY <1>7, <1>10, <1>11 DEF Open
  <2> QED BY <1>1, <1>13, <2>2, <2>3, HoldSame
<1>16. SrvTypeOK' BY <1>1, <1>2, <1>4, <1>11 DEF SrvTypeOK, SrvDrops, RegIs
<1>17. OnceInv' BY <1>1, <1>2, NoChange DEF OnceInv
<1>18. RefInv'
  <2> SUFFICES ASSUME NEW d \in Conns
               PROVE  /\ conn'[d].refs = Cardinality(LiveAt(d)') + (IF conn'[d].life = "open" THEN 1 ELSE 0)
                      /\ conn'[d].life \in {"none", "freed"} => conn'[d].refs = 0
                      /\ conn'[d].reg > 0 => regs'[d][conn'[d].reg] \in {"on", "paused"}
    BY DEF RefInv
  <2>1. /\ conn[d].refs = Cardinality(LiveAt(d)) + (IF conn[d].life = "open" THEN 1 ELSE 0)
        /\ conn[d].life \in {"none", "freed"} => conn[d].refs = 0
        /\ conn[d].reg > 0 => regs[d][conn[d].reg] \in {"on", "paused"}
    BY <1>1 DEF RefInv
  <2>2. conn'[d].reg = conn[d].reg BY <1>10, <1>11
  <2>3. conn[d].reg > 0 => regs'[d][conn[d].reg] \in {"on", "paused"}
    <3>1. conn[d].reg > 0 => conn[d].reg \in 1 .. MaxRegs BY RegNoOf
    <3>2. conn[d].reg > 0 => d # c \/ conn[d].reg # n BY <1>2, <2>1
    <3> QED BY <1>4, <2>1, <3>1, <3>2 DEF RegIs
  <2>4. CASE d = c BY <1>5, <1>9, <1>10, <1>11, <2>2, <2>3, <2>4
  <2>5. CASE d # c BY <1>5, <1>11, <2>1, <2>3, <2>5
  <2> QED BY <2>4, <2>5
<1>19. SrvRefInv' BY <1>1, <1>2, <1>5, <1>6 DEF SrvRefInv, SrvDrops
<1>20. EvInv'
  <2>1. \A r \in Reactors : th[r].ev # <<c, n>> BY DEF OnRemoved
  <2>2. \A r \in Reactors : th[r].ev \in AllLive => th[r].ev \in AllLive' BY <1>5, <2>1
  <2> QED BY <1>1, <1>2, <2>2 DEF EvInv, SrvDrops
<1> QED BY <1>13, <1>14, <1>15, <1>16, <1>17, <1>18, <1>19, <1>20 DEF SInv

LEMMA LoopKeeps ==
  ASSUME SInv, UNCHANGED <<srvVars, mem_list, batch, mem_exempt, mem_charged>>, StageInv', RestInv', AdmitterInv'
  PROVE  SInv'
<1>1. SrvTypeOK /\ HoldInv /\ OnceInv /\ RefInv /\ SrvRefInv /\ EvInv BY DEF SInv
<1>2. UNCHANGED <<scenario, conn, regs, srv, th, tasks, rejects, todo>> BY DEF srvVars
<1>3. PcInv' /\ NeedInv' /\ \A u \in Threads : InHand'[u] = InHand[u] BY <1>2, ThStays DEF NextStep, Step
<1>4. HoldInv'
  <2>1. \A s \in SpotNames : Spots'[s] = Spots[s] BY <1>2, SpotsSame DEF SpotNames
  <2> QED BY <1>1, <1>2, <1>3, <2>1, OpenSame, HoldSame
<1>5. SrvTypeOK' BY <1>1, <1>2 DEF SrvTypeOK
<1>6. OnceInv' BY <1>1, <1>2 DEF OnceInv
<1>7. RefInv' BY <1>1, <1>2, RefsSame
<1>8. SrvRefInv' BY <1>1, <1>2, SrvRefsSame
<1>9. EvInv' BY <1>1, <1>2 DEF EvInv, AllLive
<1> QED BY <1>3, <1>4, <1>5, <1>6, <1>7, <1>8, <1>9 DEF SInv

LEMMA AdmitCallStep ==
  ASSUME SInv, TypeOK, NEW t \in Callers, AdmitCall(t)
  PROVE  SInv'
<1>1. StageInv /\ RestInv /\ AdmitterInv BY DEF SInv
<1>2. /\ UNCHANGED <<srvVars, mem_list, batch, mem_exempt, mem_charged, mem_admission_closed>>
      /\ t \in calls /\ calls' = calls \ {t} /\ ~locked
      /\ \/ mem_admitting # Null /\ UNCHANGED <<mem_admitting, locked>>
         \/ mem_admitting = Null /\ mem_admitting' = t
  BY DEF AdmitCall, Admit, memCounts
<1>3. UNCHANGED <<srv, th, tasks, rejects>> BY <1>2 DEF srvVars
<1>4. StageInv'
  <2>1. \A u : u \notin calls /\ mem_admitting # u => u \notin calls' /\ mem_admitting' # u BY <1>2
  <2> QED BY <1>1, <1>2, <1>3, <2>1 DEF StageInv
<1>5. RestInv' BY <1>1, <1>2, <1>3 DEF RestInv
<1>6. AdmitterInv' BY <1>1, <1>2, <1>3, Roles DEF AdmitterInv
<1> QED BY <1>2, <1>4, <1>5, <1>6, LoopKeeps

LEMMA AdmitLoopStep ==
  ASSUME SInv, TypeOK, Distinct(mem_list), AdmitLoop
  PROVE  SInv'
<1>1. SrvTypeOK /\ HoldInv /\ OnceInv /\ RefInv /\ SrvRefInv /\ EvInv /\ StageInv /\ RestInv /\ AdmitterInv BY DEF SInv
<1>2. UNCHANGED srvVars /\ UNCHANGED <<scenario, conn, regs, srv, th, tasks, rejects, todo>> BY DEF AdmitLoop, srvVars
<1>3. CASE AdmitLooked \/ (th["admitter"].pc = "rest" /\ AdmitAgain)
  <2>1. /\ UNCHANGED <<mem_list, batch, mem_exempt, mem_charged, mem_admission_closed, calls>>
        /\ mem_admitting' \in {Null, mem_admitting} /\ th["admitter"].pc = "rest"
    BY <1>1, <1>3 DEF AdmitLooked, AdmitAgain, memCounts, AdmitterInv
  <2>2. \A u \in Callers : mem_admitting # u => mem_admitting' # u BY <2>1, Roles
  <2>3. StageInv' BY <1>1, <1>2, <2>1, <2>2, Roles DEF StageInv
  <2>4. RestInv' BY <1>1, <1>2, <2>1, <2>2, Roles DEF RestInv
  <2>5. AdmitterInv' BY <1>1, <1>2, <2>1, <2>2, Roles DEF AdmitterInv
  <2> QED BY <1>2, <2>1, <2>3, <2>4, <2>5, LoopKeeps
<1>4. CASE AdmitHead
  <2> DEFINE c == Head(mem_list)
  <2>1. /\ mem_list # <<>> /\ mem_list' = Tail(mem_list) /\ batch' = Append(batch, c)
        /\ UNCHANGED <<mem_admission_closed, mem_admitting, locked, calls>>
    BY <1>4 DEF AdmitHead, Admissible
  <2>2. c \in Conns /\ c \in Elems(mem_list) /\ Elems(mem_list') = Elems(mem_list) \ {c}
    BY <2>1, TailElems DEF TypeOK
  <2>3. \A d \in Conns : d # c => mem_exempt'[d] = mem_exempt[d] /\ mem_charged'[d] = mem_charged[d]
    <3>1. /\ mem_exempt' = [mem_exempt EXCEPT ![c] = @ \/ Ahead(c)]
          /\ \E g : mem_charged' = [mem_charged EXCEPT ![c] = @ + g]
      BY <1>4 DEF AdmitHead, Grant
    <3> HIDE DEF c
    <3> QED BY <3>1 DEF TypeOK
  <2> HIDE DEF c
  <2>4. c \in Spots["memory"] /\ Spots'["memory"] = Spots["memory"] \ {c} BY <2>2 DEF Spots, SpotNames
  <2>5. {"memory", "batch"} \subseteq SpotNames BY DEF SpotNames
  <2>6. /\ c \notin Elems(batch) /\ \A u \in Threads : th[u].pc \in ConnPcs => th[u].c # c
    <3>1. c \notin Spots["batch"] BY <1>1, <2>4, <2>5 DEF HoldInv, Apart
    <3>2. \A u \in Threads : c \notin InHand[u] BY <1>1, <2>4, <2>5 DEF HoldInv, Apart
    <3> QED BY <3>1, <3>2 DEF Spots, SpotNames, InHand
  <2>7. Distinct(batch') /\ Elems(batch') = Elems(batch) \cup {c}
    <3>1. batch \in Seq(Conns) /\ Distinct(batch) BY <1>1 DEF TypeOK, OnceInv
    <3> QED BY <2>1, <2>2, <2>6, <3>1, AppendElems
  <2>8. PcInv' /\ NeedInv' /\ \A u \in Threads : InHand'[u] = InHand[u]
    <3>1. ASSUME NEW u \in Threads, th[u].pc = "enqueue" PROVE th[u].c \in Conns /\ th[u].c # c
      <4>1. th[u].pc \in ConnPcs BY <3>1 DEF ConnPcs
      <4> QED BY <2>6, <4>1, InHandOf
    <3> QED BY <1>2, <2>3, <3>1, ThStays DEF NextStep, Step
  <2>9. HoldInv'
    <3>1. Spots'["batch"] = Spots["batch"] \cup {c} BY <2>7 DEF Spots, SpotNames
    <3>2. \A s \in SpotNames : s # "memory" /\ s # "batch" => Spots'[s] = Spots[s] BY <1>2, SpotsSame DEF SpotNames
    <3>3. Moved("memory", "batch", {c}) BY <2>4, <3>1, <3>2 DEF Moved
    <3> QED BY <1>1, <1>2, <2>5, <2>8, <3>3, OpenSame, HoldMove
  <2>10. OnceInv'
    <3>1. Distinct(batch)' BY <2>7 DEF Distinct
    <3> QED BY <1>1, <1>2, <3>1 DEF OnceInv
  <2>11. StageInv' /\ RestInv' /\ AdmitterInv' BY <1>2, <2>1, QuietKeeps
  <2>12. SrvTypeOK' BY <1>1, <1>2 DEF SrvTypeOK
  <2>13. RefInv' BY <1>1, <1>2, RefsSame
  <2>14. SrvRefInv' BY <1>1, <1>2, SrvRefsSame
  <2>15. EvInv' BY <1>1, <1>2 DEF EvInv, AllLive
  <2> QED BY <2>8, <2>9, <2>10, <2>11, <2>12, <2>13, <2>14, <2>15 DEF SInv
<1> QED BY <1>3, <1>4 DEF AdmitLoop

LEMMA ToSetElems ==
  ASSUME NEW S, NEW s \in Seq(S)
  PROVE  ToSet(s) = Elems(s) /\ ToSet(s) \subseteq S
<1>1. DOMAIN s = 1 .. Len(s) /\ \A i \in 1 .. Len(s) : s[i] \in S BY LenProperties, ElementOfSeq
<1> QED BY <1>1 DEF ToSet, Elems

LEMMA FlushStepOf ==
  ASSUME SInv, TypeOK, Distinct(mem_list), Flush
  PROVE  SInv'
<1>1. SrvTypeOK /\ HoldInv /\ OnceInv /\ RefInv /\ SrvRefInv /\ EvInv /\ StageInv /\ RestInv /\ AdmitterInv BY DEF SInv
<1>2. /\ UNCHANGED <<scenario, conn, regs, srv, th, tasks, rejects, mem_exempt, mem_charged, calls>>
      /\ UNCHANGED <<mem_admitting, locked, mem_admission_closed, batch>>
      /\ todo["destroyer"] = {} /\ todo' = [todo EXCEPT !["destroyer"] = ToSet(mem_list)]
      /\ mem_list' = Unlinked(mem_list, {c \in Conns : Waiting(c)})
  BY DEF Flush, FlushWaiters, Unlink, memCounts, memLoop
<1>3. mem_list \in Seq(Conns) BY DEF TypeOK
<1>4. ToSet(mem_list) = Elems(mem_list) /\ Elems(mem_list) \subseteq Conns BY <1>3, ToSetElems
<1>5. Elems(mem_list') = {}
  <2>1. Elems(mem_list') = Elems(mem_list) \ {c \in Conns : Waiting(c)} BY <1>2, <1>3, UnlinkedProperties
  <2> QED BY <1>4, <2>1, WaitingElems
<1>6. /\ todo'["destroyer"] = Elems(mem_list) /\ todo'["sweep"] = todo["sweep"]
      /\ todo' \in [{"sweep", "destroyer"} -> (SUBSET Conns) \cup SUBSET (Conns \X Kinds)]
  <2>1. todo \in [{"sweep", "destroyer"} -> (SUBSET Conns) \cup SUBSET (Conns \X Kinds)] BY <1>1 DEF SrvTypeOK
  <2>2. todo' = [todo EXCEPT !["destroyer"] = Elems(mem_list)] BY <1>2, <1>4
  <2> QED BY <1>4, <2>1, <2>2
<1>7. PcInv' /\ NeedInv' /\ \A u \in Threads : InHand'[u] = InHand[u] BY <1>2, ThStays DEF NextStep, Step
<1>8. HoldInv'
  <2>1. {"memory", "destroyer"} \subseteq SpotNames BY DEF SpotNames
  <2>2. /\ Elems(mem_list) \subseteq Spots["memory"] /\ Spots'["memory"] = Spots["memory"] \ Elems(mem_list)
        /\ Spots'["destroyer"] = Spots["destroyer"] \cup Elems(mem_list)
    BY <1>2, <1>5, <1>6 DEF Spots, SpotNames
  <2>3. Spots'["sweep"] = Spots["sweep"] BY <1>6 DEF Spots, SpotNames, SweepConns
  <2>4. \A s \in SpotNames : s # "memory" /\ s # "destroyer" => Spots'[s] = Spots[s]
    BY <1>2, <2>3, SpotsSame DEF SpotNames
  <2>5. Moved("memory", "destroyer", Elems(mem_list)) BY <2>2, <2>4 DEF Moved
  <2> QED BY <1>1, <1>2, <1>7, <2>1, <2>5, OpenSame, HoldMove
<1>9. OnceInv' BY <1>1, <1>2, <1>6 DEF OnceInv
<1>10. StageInv' /\ RestInv' /\ AdmitterInv' BY <1>2, QuietKeeps
<1>11. SrvTypeOK' BY <1>1, <1>2, <1>4, <1>6 DEF SrvTypeOK
<1>12. RefInv' BY <1>1, <1>2, RefsSame
<1>13. SrvRefInv' BY <1>1, <1>2, SrvRefsSame
<1>14. EvInv' BY <1>1, <1>2 DEF EvInv, AllLive
<1> QED BY <1>7, <1>8, <1>9, <1>10, <1>11, <1>12, <1>13, <1>14 DEF SInv

-----------------------------------------------------------------------------
(* The sweep and the destroyer, where they have no connection.             *)

SoloMem ==
  /\ calls' \subseteq calls \cup {"expired"}
  /\ UNCHANGED <<scenario, regs, tasks, rejects, mem_admitting, locked, mem_exempt, mem_charged>>

ConnsKept ==
  /\ conn' \in [Conns -> ConnRec]
  /\ \A d \in Conns : /\ conn'[d].life = conn[d].life /\ conn'[d].refs = conn[d].refs /\ conn'[d].reg = conn[d].reg
                      /\ Want(conn'[d]) = Want(conn[d])

\* Where t goes, and what it leaves of its calls when it rests.
Soloes(t, x) ==
  /\ Turns(t, x) /\ PcAt(t, x) /\ th[t].pc \notin ConnPcs /\ x.pc \notin ConnPcs
  /\ x.pc \in {"rest", "done"} => t \notin calls /\ mem_admitting # t
  /\ t = "sweep" /\ x.pc = "rest" => "expired" \notin calls' /\ mem_admitting # "expired"
  /\ t = "destroyer" => calls' = calls

LEMMA SoloTurns ==
  ASSUME SInv, NEW t \in {"sweep", "destroyer"}, NEW x, Soloes(t, x), SoloMem, ConnsKept,
         srv.lreg # "gone" => srv'.lreg # "gone"
  PROVE  /\ PcInv' /\ NeedInv' /\ EvInv' /\ RefInv' /\ RestInv' /\ AdmitterInv'
         /\ Open' = Open /\ AllLive' = AllLive /\ \A u \in Threads : InHand'[u] = InHand[u]
<1>1. RefInv /\ EvInv /\ RestInv /\ AdmitterInv BY DEF SInv
<1>2. t \in Threads /\ t \notin Reactors /\ t # "admitter" BY Roles
<1>3. Turns(t, x) /\ PcAt(t, x) /\ x.pc # "enqueue" BY DEF Soloes, ConnPcs
<1>4. WantsSame BY DEF WantsSame, SoloMem, ConnsKept, Open
<1>5. PcInv' /\ NeedInv' BY <1>2, <1>3, <1>4, TurnPc
<1>6. th'[t] = x /\ \A u \in Threads : u # t => th'[u] = th[u] BY <1>3 DEF Turns
<1>7. AllLive' = AllLive BY DEF AllLive, SoloMem
<1>8. EvInv'
  <2>1. \A r \in Reactors : th'[r] = th[r] BY <1>2, <1>6, Roles
  <2> QED BY <1>1, <1>7, <2>1 DEF EvInv
<1>9. RefInv' BY <1>1, RefsSame DEF SoloMem, ConnsKept
<1>10. RestInv'
  <2>1. \A u \in Threads : u \notin calls => u \notin calls' BY Roles DEF SoloMem
  <2>2. ASSUME NEW u \in Reactors \cup {"sweep", "destroyer"}, th'[u].pc \in {"rest", "done"}
        PROVE  u \notin calls' /\ mem_admitting' # u
    <3>1. u \in Threads BY Roles
    <3> QED BY <1>1, <1>6, <2>1, <2>2, <3>1 DEF RestInv, Soloes, SoloMem
  <2>3. ASSUME th'["sweep"].pc = "rest" PROVE "expired" \notin calls' /\ mem_admitting' # "expired"
    <3>1. CASE t = "sweep" BY <1>6, <2>3, <3>1 DEF Soloes, SoloMem
    <3>2. CASE t = "destroyer" BY <1>1, <1>6, <2>3, <3>2, Roles DEF Soloes, SoloMem, RestInv
    <3> QED BY <3>1, <3>2
  <2> QED BY <2>2, <2>3 DEF RestInv
<1>11. AdmitterInv'
  <2>1. th'["admitter"] = th["admitter"] /\ ("admitter" \in calls' => "admitter" \in calls)
    BY <1>2, <1>6, Roles DEF SoloMem
  <2> QED BY <1>1, <2>1 DEF AdmitterInv, SoloMem
<1>12. Open' = Open BY OpenSame DEF ConnsKept
<1>13. \A u \in Threads : InHand'[u] = InHand[u] BY <1>6 DEF InHand, Soloes
<1> QED BY <1>5, <1>7, <1>8, <1>9, <1>10, <1>11, <1>12, <1>13

LEMMA SweepStage ==
  ASSUME SInv, NEW x, Turns("sweep", x), calls' \subseteq calls \cup {"expired"},
         UNCHANGED <<tasks, rejects, mem_admitting, mem_admission_closed>>,
         srv'.lreg = srv.lreg, srv'.swept = srv.swept,
         srv'.worker_pool = srv.worker_pool, srv'.reject_pool = srv.reject_pool,
         srv'.spins = IF x.pc = "rest" THEN 0 ELSE 1,
         x.pc # "rest" => th["sweep"].pc # "rest" \/ srv.swept
  PROVE  StageInv' /\ th'["destroyer"] = th["destroyer"]
<1>1. StageInv BY DEF SInv
<1>2. \A u \in Threads : u # "sweep" => th'[u] = th[u] BY DEF Turns
<1>3. th'["sweep"] = x /\ th'["destroyer"] = th["destroyer"] /\ \A u \in Workers \cup Rejecters : th'[u] = th[u]
  BY <1>2, Roles DEF Turns
<1>4. \A u \in Workers \cup Rejecters : u \notin calls => u \notin calls' BY Roles
<1> QED BY <1>1, <1>3, <1>4 DEF StageInv

LEMMA SpinsOnly ==
  ASSUME SrvTypeOK, NEW n \in Int, srv' = [srv EXCEPT !.spins = n]
  PROVE  /\ srv' \in SrvRec /\ srv'.spins = n /\ srv'.life = srv.life /\ srv'.refs = srv.refs /\ srv'.lreg = srv.lreg
         /\ srv'.swept = srv.swept /\ srv'.worker_pool = srv.worker_pool /\ srv'.reject_pool = srv.reject_pool
<1> DEFINE s == [srv EXCEPT !.spins = n]
<1>1. srv \in SrvRec BY DEF SrvTypeOK
<1>2. /\ s \in SrvRec /\ s.spins = n /\ s.life = srv.life /\ s.refs = srv.refs /\ s.lreg = srv.lreg
      /\ s.swept = srv.swept /\ s.worker_pool = srv.worker_pool /\ s.reject_pool = srv.reject_pool
  BY <1>1, Zenon DEF SrvRec
<1> QED BY <1>2, Zenon

\* The sweep comes to the server, or leaves it.
LEMMA SweepPins ==
  ASSUME SInv, TypeOK, SweepBegins \/ SweepEnds
  PROVE  SInv'
<1> DEFINE t == "sweep"
<1>1. SrvTypeOK /\ PcInv /\ HoldInv /\ OnceInv /\ SrvRefInv /\ StageInv /\ RestInv /\ t \in Threads BY Roles DEF SInv
<1>2. UNCHANGED <<scenario, conn, regs, tasks, rejects, todo, memVars>> BY DEF SweepBegins, SweepEnds
<1>3. SoloMem /\ ConnsKept BY <1>1, <1>2, NoChange DEF SoloMem, ConnsKept, SrvTypeOK
<1>4. \E x : Soloes(t, x) /\ IF SweepBegins THEN x.pc = "scan" ELSE x.pc = "rest"
  <2>1. CASE SweepBegins
    <3>1. "scan" \in Pcs /\ "scan" \in IdlePcs(t) /\ "scan" \notin ConnPcs /\ "rest" \notin ConnPcs
      BY Roles DEF Pcs, SweepPcs, IdlePcs, ConnPcs
    <3>2. th[t].pc = "rest" /\ Goto(t, "scan") BY <2>1 DEF SweepBegins
    <3>3. PICK x : /\ Turns(t, x) /\ x.pc = "scan" /\ x.c = th[t].c /\ x.ev = th[t].ev /\ x.then = th[t].then
                   /\ x.home = th[t].home
      BY <1>1, <3>1, <3>2, GotoTurns
    <3>4. th[t].c = Null BY <1>1, <3>1, <3>2, PcSets DEF PcInv
    <3>5. PcAt(t, x) BY <3>1, <3>3, <3>4 DEF PcAt, ThenOK
    <3> QED BY <2>1, <3>1, <3>2, <3>3, <3>5 DEF Soloes
  <2>2. CASE ~SweepBegins /\ SweepEnds
    <3>1. Turns(t, Resting) /\ PcAt(t, Resting) /\ Resting.pc = "rest" BY <1>1, <2>2, RestsTurn DEF SweepEnds
    <3>2. /\ th[t].pc = "waits_over" /\ t \notin calls /\ mem_admitting # t /\ "expired" \notin calls
          /\ mem_admitting # "expired"
      BY <2>2 DEF SweepEnds, Runs
    <3>3. "waits_over" \notin ConnPcs /\ "rest" \notin ConnPcs BY DEF ConnPcs
    <3>4. Soloes(t, Resting) BY <1>2, <3>1, <3>2, <3>3, NoChange DEF Soloes
    <3> QED BY <2>2, <3>1, <3>4
  <2> QED BY <2>1, <2>2
<1>5. PICK x : Soloes(t, x) /\ IF SweepBegins THEN x.pc = "scan" ELSE x.pc = "rest" BY <1>4
<1>6. /\ srv' \in SrvRec /\ srv'.life = srv.life /\ srv'.refs = srv.refs /\ srv'.lreg = srv.lreg
      /\ srv'.swept = srv.swept /\ srv'.worker_pool = srv.worker_pool /\ srv'.reject_pool = srv.reject_pool
      /\ srv'.spins = (IF x.pc = "rest" THEN 0 ELSE 1) /\ (x.pc # "rest" => srv.swept)
  <2>1. srv.spins + 1 \in Int /\ srv.spins - 1 \in Int /\ srv.spins = IF th[t].pc = "rest" THEN 0 ELSE 1
    BY <1>1 DEF SrvTypeOK, SrvRec, StageInv
  <2>2. CASE SweepBegins
    <3>1. srv' = [srv EXCEPT !.spins = srv.spins + 1] /\ th[t].pc = "rest" /\ srv.swept BY <2>2 DEF SweepBegins
    <3>2. /\ srv' \in SrvRec /\ srv'.spins = srv.spins + 1 /\ srv'.life = srv.life /\ srv'.refs = srv.refs
          /\ srv'.lreg = srv.lreg /\ srv'.swept = srv.swept /\ srv'.worker_pool = srv.worker_pool
          /\ srv'.reject_pool = srv.reject_pool
      BY <1>1, <2>1, <3>1, SpinsOnly
    <3>3. x.pc = "scan" BY <1>5, <2>2
    <3>4. srv.spins = 0 BY <2>1, <3>1
    <3>5. srv'.spins = 1 BY <3>2, <3>4
    <3> QED BY <3>1, <3>2, <3>3, <3>5
  <2>3. CASE ~SweepBegins /\ SweepEnds
    <3>1. srv' = [srv EXCEPT !.spins = srv.spins - 1] /\ th[t].pc = "waits_over" BY <2>3 DEF SweepEnds, Runs
    <3> QED BY <1>1, <1>5, <2>1, <2>3, <3>1, SpinsOnly
  <2> QED BY <2>2, <2>3
<1>7. /\ PcInv' /\ NeedInv' /\ EvInv' /\ RefInv' /\ RestInv' /\ AdmitterInv'
      /\ Open' = Open /\ \A u \in Threads : InHand'[u] = InHand[u]
  BY <1>3, <1>5, <1>6, SoloTurns
<1>8. StageInv' /\ th'["destroyer"] = th["destroyer"]
  <2>1. Turns("sweep", x) BY <1>5 DEF Soloes
  <2> QED BY <1>2, <1>6, <2>1, NoChange, SweepStage
<1>9. HoldInv'
  <2>1. \A s \in SpotNames : Spots'[s] = Spots[s] BY <1>2, NoChange, SpotsSame DEF SpotNames
  <2> QED BY <1>1, <1>7, <2>1, HoldSame
<1>10. SrvTypeOK' BY <1>1, <1>2, <1>5, <1>6 DEF SrvTypeOK, Soloes, Turns
<1>11. OnceInv' BY <1>1, <1>2, NoChange DEF OnceInv
<1>12. SrvRefInv' BY <1>1, <1>2, <1>6, <1>8, SrvRefsSame
<1> QED BY <1>7, <1>8, <1>9, <1>10, <1>11, <1>12 DEF SInv

\* Unlisting changes nothing else of a connection.
LEMMA UnlistedKeeps ==
  ASSUME SrvTypeOK, NEW cs \in SUBSET Conns, Unlisted(cs)
  PROVE  ConnsKept /\ Spots'["list"] = Spots["list"] \ cs
<1> DEFINE y(d) == [conn[d] EXCEPT !.list = "none"]
<1>1. \A d \in Conns : conn[d] \in ConnRec BY DEF SrvTypeOK
<1>2. \A d \in Conns : conn'[d] = IF d \in cs THEN y(d) ELSE conn[d] BY DEF Unlisted
<1>3. ASSUME NEW d \in Conns
      PROVE  /\ y(d) \in ConnRec /\ y(d).life = conn[d].life /\ y(d).refs = conn[d].refs /\ y(d).reg = conn[d].reg
             /\ y(d).len = conn[d].len /\ y(d).cap = conn[d].cap /\ y(d).size = conn[d].size
             /\ y(d).declared = conn[d].declared /\ y(d).list = "none"
  <2>1. conn[d] \in ConnRec BY <1>1
  <2> QED BY <2>1, Zenon DEF ConnRec
<1>4. conn' = [d \in Conns |-> IF d \in cs THEN y(d) ELSE conn[d]] BY DEF Unlisted
<1> HIDE DEF y
<1>5. conn' \in [Conns -> ConnRec] BY <1>1, <1>3, <1>4
<1>6. ASSUME NEW d \in Conns
      PROVE  /\ conn'[d].life = conn[d].life /\ conn'[d].refs = conn[d].refs /\ conn'[d].reg = conn[d].reg
             /\ Want(conn'[d]) = Want(conn[d]) /\ conn'[d].list = IF d \in cs THEN "none" ELSE conn[d].list
  BY <1>2, <1>3 DEF Want, Target, Ceiling
<1>7. Spots'["list"] = Spots["list"] \ cs BY <1>6 DEF Spots, SpotNames
<1> QED BY <1>5, <1>6, <1>7 DEF ConnsKept

LEMMA SoloGoto ==
  ASSUME SInv, NEW t \in {"sweep", "destroyer"}, th[t].pc \in IdlePcs(t), NEW p \in IdlePcs(t), p # "rest",
         p = "done" => t \notin calls /\ mem_admitting # t, Goto(t, p), t = "destroyer" => calls' = calls
  PROVE  \E x : Soloes(t, x) /\ Turns(t, x) /\ x.pc = p
<1>1. SrvTypeOK /\ PcInv /\ t \in Threads BY Roles DEF SInv
<1>2. p \in Pcs /\ p \notin ConnPcs /\ th[t].pc \notin ConnPcs /\ th[t].pc # "claim" /\ p \notin {"drop", "arm", "enqueue", "claim"}
  BY PcSets DEF ConnPcs
<1>3. PICK x : /\ Turns(t, x) /\ x.pc = p /\ x.c = th[t].c /\ x.ev = th[t].ev /\ x.then = th[t].then
               /\ x.home = th[t].home
  BY <1>1, <1>2, GotoTurns
<1>4. th[t].c = Null BY <1>1, <1>2 DEF PcInv
<1>5. PcAt(t, x) BY <1>2, <1>3, <1>4 DEF PcAt, ThenOK
<1> QED BY <1>2, <1>3, <1>5 DEF Soloes

\* The sweep at work, without a connection.
LEMMA SweepWorks ==
  ASSUME SInv, th["sweep"].pc \in SweepPcs \ {"rest"}, NEW p \in SweepPcs \ {"rest"}, Goto("sweep", p), SoloMem, ConnsKept,
         UNCHANGED <<srv, mem_admission_closed>>, HoldInv' \/ \E a \in SpotNames : a # "sweep" /\ \E K : Moved(a, "sweep", K),
         OnceInv', todo' \in [{"sweep", "destroyer"} -> (SUBSET Conns) \cup SUBSET (Conns \X Kinds)],
         todo'["sweep"] \subseteq Conns \X Kinds, todo'["destroyer"] \subseteq Conns
  PROVE  SInv'
<1>1. SrvTypeOK /\ HoldInv /\ SrvRefInv /\ StageInv BY DEF SInv
<1>2. IdlePcs("sweep") = SweepPcs /\ p \notin {"rest", "done"} BY Roles DEF IdlePcs, SweepPcs
<1>3. PICK x : Soloes("sweep", x) /\ Turns("sweep", x) /\ x.pc = p BY <1>2, SoloGoto
<1>4. /\ PcInv' /\ NeedInv' /\ EvInv' /\ RefInv' /\ RestInv' /\ AdmitterInv'
      /\ Open' = Open /\ \A u \in Threads : InHand'[u] = InHand[u]
  BY <1>3, SoloTurns
<1>5. StageInv' /\ th'["destroyer"] = th["destroyer"]
  <2>1. srv.spins = 1 BY <1>1 DEF StageInv
  <2> QED BY <1>2, <1>3, <2>1, SweepStage DEF SoloMem
<1>6. HoldInv'
  <2>1. "sweep" \in SpotNames BY DEF SpotNames
  <2> QED BY <1>1, <1>4, <2>1, HoldMove
<1>7. SrvTypeOK' BY <1>1, <1>3 DEF SrvTypeOK, SoloMem, ConnsKept, Turns
<1>8. SrvRefInv' BY <1>1, <1>5, SrvRefsSame DEF SoloMem
<1> QED BY <1>4, <1>5, <1>6, <1>7, <1>8 DEF SInv

LEMMA SweepScanStep ==
  ASSUME SInv, TypeOK, SweepScan
  PROVE  SInv'
<1>1. SrvTypeOK /\ HoldInv /\ OnceInv BY DEF SInv
<1>2. /\ th["sweep"].pc = "scan" /\ Goto("sweep", "sweeping")
      /\ UNCHANGED <<scenario, regs, srv, tasks, rejects, memVars>>
  BY DEF SweepScan, Runs
<1>3a. PICK late \in SUBSET (Listed("idle") \cup Listed("parked")) :
         \E asked \in SUBSET {c \in late : conn[c].park = "write"} :
           /\ Unlisted(late)
           /\ LET kind(c) == IF c \in asked THEN "query" ELSE IF conn[c].park = "body" THEN "pause" ELSE "close"
              IN  todo' = [todo EXCEPT !["sweep"] = @ \cup {<<c, kind(c)>> : c \in late}]
  BY DEF SweepScan
<1>3. PICK asked : /\ Unlisted(late)
                   /\ LET kind(c) == IF c \in asked THEN "query" ELSE IF conn[c].park = "body" THEN "pause" ELSE "close"
                      IN  todo' = [todo EXCEPT !["sweep"] = @ \cup {<<c, kind(c)>> : c \in late}]
  BY <1>3a
<1> DEFINE kind(c) == IF c \in asked THEN "query" ELSE IF conn[c].park = "body" THEN "pause" ELSE "close"
           new == {<<c, kind(c)>> : c \in late}
<1>4. late \subseteq Conns /\ late \subseteq Spots["list"] BY SpotValues DEF Listed
<1>5. todo' = [todo EXCEPT !["sweep"] = todo["sweep"] \cup new] BY <1>3
<1>6. \A c : kind(c) \in Kinds BY DEF Kinds
<1> HIDE DEF kind
<1>7. new \subseteq Conns \X Kinds BY <1>4, <1>6
<1>8. /\ todo' \in [{"sweep", "destroyer"} -> (SUBSET Conns) \cup SUBSET (Conns \X Kinds)]
      /\ todo'["sweep"] = todo["sweep"] \cup new /\ todo'["destroyer"] = todo["destroyer"]
      /\ todo'["sweep"] \subseteq Conns \X Kinds /\ todo'["destroyer"] \subseteq Conns
  <2>1. /\ todo \in [{"sweep", "destroyer"} -> (SUBSET Conns) \cup SUBSET (Conns \X Kinds)]
        /\ todo["sweep"] \subseteq Conns \X Kinds /\ todo["destroyer"] \subseteq Conns
    BY <1>1 DEF SrvTypeOK
  <2> DEFINE m == todo["sweep"] \cup new
  <2>2. m \subseteq Conns \X Kinds BY <1>7, <2>1
  <2>4. todo' = [todo EXCEPT !["sweep"] = m] BY <1>5
  <2> HIDE DEF m
  <2>3. m \in (SUBSET Conns) \cup SUBSET (Conns \X Kinds) BY <2>2, Zenon
  <2>5. todo'["sweep"] = m /\ todo'["destroyer"] = todo["destroyer"] BY <2>1, <2>4
  <2>6. todo' \in [{"sweep", "destroyer"} -> (SUBSET Conns) \cup SUBSET (Conns \X Kinds)] BY <2>1, <2>3, <2>4, Zenon
  <2> QED BY <2>1, <2>2, <2>5, <2>6 DEF m
<1>9. ConnsKept /\ Spots'["list"] = Spots["list"] \ late BY <1>1, <1>3, <1>4, UnlistedKeeps
<1>10. {"list", "sweep"} \subseteq SpotNames BY DEF SpotNames
<1>11. SweepConns' = SweepConns \cup late
  <2>1. \A z \in new : z[1] \in late OBVIOUS
  <2>2. \A d \in late : <<d, kind(d)>> \in new /\ <<d, kind(d)>>[1] = d OBVIOUS
  <2> HIDE DEF new
  <2>3. ASSUME NEW d \in SweepConns' PROVE d \in SweepConns \cup late BY <1>8, <2>1 DEF SweepConns
  <2>4. ASSUME NEW d \in SweepConns PROVE d \in SweepConns' BY <1>8 DEF SweepConns
  <2>5. ASSUME NEW d \in late PROVE d \in SweepConns' BY <1>8, <2>2 DEF SweepConns
  <2> QED BY <2>3, <2>4, <2>5
<1>12. Moved("list", "sweep", late)
  <2>1. Spots'["sweep"] = Spots["sweep"] \cup late BY <1>11 DEF Spots, SpotNames
  <2>2. Spots'["destroyer"] = Spots["destroyer"] BY <1>8 DEF Spots, SpotNames
  <2>3. \A s \in SpotNames : s # "list" /\ s # "sweep" => Spots'[s] = Spots[s]
    BY <1>2, <2>2, NoChange, SpotsSame DEF SpotNames
  <2> QED BY <1>4, <1>9, <2>1, <2>3 DEF Moved
<1>13. OnceInv'
  <2>1. late \cap SweepConns = {} BY <1>1, <1>4, <1>10, SpotValues DEF HoldInv, Apart
  <2>2. ASSUME NEW k \in todo'["sweep"], NEW l \in todo'["sweep"], k[1] = l[1] PROVE k = l
    <3>1. \A z \in todo["sweep"] : z[1] \notin late BY <2>1 DEF SweepConns
    <3>2. \A z \in new : z[1] \in late /\ z = <<z[1], kind(z[1])>> OBVIOUS
    <3>3. CASE k \in todo["sweep"] /\ l \in todo["sweep"] BY <1>1, <2>2, <3>3 DEF OnceInv
    <3>4. CASE k \in new /\ l \in new BY <2>2, <3>2, <3>4
    <3> QED BY <1>8, <2>2, <3>1, <3>2, <3>3, <3>4
  <2> QED BY <1>1, <1>2, <2>2, NoChange DEF OnceInv
<1>14. SoloMem BY <1>2, NoChange DEF SoloMem
<1>15. "scan" \in SweepPcs \ {"rest"} /\ "sweeping" \in SweepPcs \ {"rest"} BY DEF SweepPcs
<1> QED BY <1>2, <1>8, <1>9, <1>10, <1>12, <1>13, <1>14, <1>15, NoChange, SweepWorks

LEMMA SweepWaitsStep ==
  ASSUME SInv, TypeOK, Distinct(mem_list), SweepWaits
  PROVE  SInv'
<1>1. SrvTypeOK /\ HoldInv /\ OnceInv BY DEF SInv
<1>2. PICK late \in SUBSET ToSet(mem_list) :
        ExpireWaiters("expired", late) /\ todo' = [todo EXCEPT !["sweep"] = {<<c, "pause">> : c \in late}]
  BY DEF SweepWaits
<1>3. /\ th["sweep"].pc = "sweeping" /\ Goto("sweep", "waits_over") /\ todo["sweep"] = {}
      /\ UNCHANGED <<scenario, conn, regs, srv, tasks, rejects>>
  BY DEF SweepWaits, Runs
<1>4. /\ mem_list' = Unlinked(mem_list, late) /\ calls' \subseteq calls \cup {"expired"}
      /\ UNCHANGED <<mem_exempt, mem_charged, mem_admitting, locked, mem_admission_closed, batch>>
  BY <1>2 DEF ExpireWaiters, Unlink, memCounts, memLoop
<1>5. mem_list \in Seq(Conns) /\ late \subseteq Elems(mem_list) /\ late \subseteq Conns
  <2>1. mem_list \in Seq(Conns) BY DEF TypeOK
  <2>2. ToSet(mem_list) = Elems(mem_list) /\ ToSet(mem_list) \subseteq Conns BY <2>1, ToSetElems
  <2> QED BY <2>1, <2>2
<1>6. Elems(mem_list') = Elems(mem_list) \ late BY <1>4, <1>5, UnlinkedProperties
<1> DEFINE new == {<<c, "pause">> : c \in late}
<1>7. new \subseteq Conns \X Kinds BY <1>5 DEF Kinds
<1>8. /\ todo' \in [{"sweep", "destroyer"} -> (SUBSET Conns) \cup SUBSET (Conns \X Kinds)]
      /\ todo'["sweep"] = new /\ todo'["destroyer"] = todo["destroyer"]
      /\ todo'["sweep"] \subseteq Conns \X Kinds /\ todo'["destroyer"] \subseteq Conns
  <2>1. /\ todo \in [{"sweep", "destroyer"} -> (SUBSET Conns) \cup SUBSET (Conns \X Kinds)] /\ todo["destroyer"] \subseteq Conns
    BY <1>1 DEF SrvTypeOK
  <2>2. todo' = [todo EXCEPT !["sweep"] = new] BY <1>2
  <2> HIDE DEF new
  <2>3. new \in (SUBSET Conns) \cup SUBSET (Conns \X Kinds) BY <1>7, Zenon
  <2>4. todo'["sweep"] = new /\ todo'["destroyer"] = todo["destroyer"] BY <2>1, <2>2
  <2>5. todo' \in [{"sweep", "destroyer"} -> (SUBSET Conns) \cup SUBSET (Conns \X Kinds)] BY <2>1, <2>2, <2>3, Zenon
  <2> QED BY <1>7, <2>1, <2>4, <2>5
<1>9. ConnsKept BY <1>1, <1>3 DEF ConnsKept, SrvTypeOK
<1>10. {"memory", "sweep"} \subseteq SpotNames BY DEF SpotNames
<1>11. SweepConns' = late /\ SweepConns = {}
  <2>1. \A z \in new : z[1] \in late OBVIOUS
  <2>2. \A d \in late : <<d, "pause">> \in new /\ <<d, "pause">>[1] = d OBVIOUS
  <2> HIDE DEF new
  <2>3. ASSUME NEW d \in SweepConns' PROVE d \in late BY <1>8, <2>1 DEF SweepConns
  <2>4. ASSUME NEW d \in late PROVE d \in SweepConns' BY <1>8, <2>2 DEF SweepConns
  <2>5. SweepConns = {} BY <1>3 DEF SweepConns
  <2> QED BY <2>3, <2>4, <2>5
<1>12. Moved("memory", "sweep", late)
  <2>1. Spots'["sweep"] = Spots["sweep"] \cup late BY <1>11 DEF Spots, SpotNames
  <2>2. Spots'["destroyer"] = Spots["destroyer"] BY <1>8 DEF Spots, SpotNames
  <2>3. late \subseteq Spots["memory"] /\ Spots'["memory"] = Spots["memory"] \ late BY <1>5, <1>6 DEF Spots, SpotNames
  <2>4. \A s \in SpotNames : s # "memory" /\ s # "sweep" => Spots'[s] = Spots[s]
    BY <1>3, <1>4, <2>2, SpotsSame DEF SpotNames
  <2> QED BY <2>1, <2>3, <2>4 DEF Moved
<1>13. OnceInv' BY <1>1, <1>3, <1>4, <1>8 DEF OnceInv
<1>14. SoloMem BY <1>3, <1>4 DEF SoloMem
<1>15. "sweeping" \in SweepPcs \ {"rest"} /\ "waits_over" \in SweepPcs \ {"rest"} BY DEF SweepPcs
<1> QED BY <1>3, <1>4, <1>8, <1>9, <1>10, <1>12, <1>13, <1>14, <1>15, SweepWorks

LEMMA SweepNextStep ==
  ASSUME SInv, TypeOK, SweepNext
  PROVE  SInv'
<1> DEFINE t == "sweep"
<1>1. SrvTypeOK /\ HoldInv /\ OnceInv /\ StageInv /\ t \in Threads /\ t \notin Reactors BY Roles DEF SInv
<1>2. /\ th[t].pc \in {"sweeping", "waits_over"} /\ UNCHANGED <<scenario, regs, srv, tasks, rejects, memVars>>
  BY DEF SweepNext
<1>3. PICK c \in Conns, k \in {"query", "close", "pause"}, p \in {"close", "pause", "list"} :
        /\ <<c, k>> \in todo[t]
        /\ th' = [th EXCEPT ![t] = [Resting EXCEPT !.pc = p, !.c = c, !.home = th[t].pc,
                               !.then = IF p = "pause" THEN "reject" ELSE conn[c].park]]
        /\ IF p = "list" THEN UNCHANGED conn ELSE Set(c, [conn[c] EXCEPT !.park = "none"])
        /\ todo' = [todo EXCEPT ![t] = @ \ {<<c, k>>}]
  BY DEF SweepNext
<1> DEFINE h == th[t].pc
           q == IF p = "pause" THEN "reject" ELSE conn[c].park
           z == IF p = "list" THEN conn[c].park ELSE "none"
           y == [conn[c] EXCEPT !.park = z]
           x == [Resting EXCEPT !.pc = p, !.c = c, !.home = h, !.then = q]
<1>4. conn[c] \in ConnRec BY <1>1 DEF SrvTypeOK
<1>5. q \in Thens /\ z \in Parks /\ h \in Pcs /\ p \in Pcs /\ p \in ConnPcs \ {"enqueue"} /\ h \notin ConnPcs
  <2>1. conn[c].park \in Parks BY <1>4 DEF ConnRec
  <2> QED BY <1>2, <2>1 DEF Thens, Parks, Pcs, ConnPcs, SweepPcs
<1>6. h \in Homes(t) BY <1>2, Roles DEF Homes
<1>7. th' = [th EXCEPT ![t] = x] BY <1>3
<1>8. ConnIs(c, y) /\ y.life = conn[c].life /\ y.refs = conn[c].refs /\ y.reg = conn[c].reg /\ Want(y) = Want(conn[c])
      /\ y.list = conn[c].list
  <2>1. CASE p = "list"
    <3>1. y = conn[c] BY <1>4, <2>1, Zenon DEF ConnRec
    <3> QED BY <1>1, <1>3, <2>1, <3>1 DEF ConnIs, SrvTypeOK
  <2>2. CASE p # "list"
    <3>1. Set(c, y) BY <1>3, <2>2
    <3> HIDE DEF z
    <3>2. /\ y \in ConnRec /\ y.life = conn[c].life /\ y.list = conn[c].list /\ y.refs = conn[c].refs /\ y.reg = conn[c].reg
          /\ y.len = conn[c].len /\ y.cap = conn[c].cap /\ y.size = conn[c].size /\ y.declared = conn[c].declared
      BY <1>4, <1>5, Zenon DEF ConnRec
    <3> HIDE DEF y
    <3>3. ConnIs(c, y) BY <1>1, <3>1, <3>2, SetIs DEF SrvTypeOK
    <3> QED BY <3>2, <3>3 DEF Want, Target, Ceiling
  <2> QED BY <2>1, <2>2
<1> HIDE DEF y, z
<1>9. Starts(x, p, c, <<Null, 0>>, q, h)
  <2>1. <<Null, 0>> \in (Conns \cup {Null, "listener"}) \X Nat /\ 0 \in Int OBVIOUS
  <2> HIDE DEF q, h
  <2> QED BY <1>5, <2>1, RestingStarts
<1> HIDE DEF x, q, h
<1>10. Turns(t, x) /\ x.pc = p /\ x.c = c BY <1>1, <1>7, <1>9, TurnsWhen DEF Starts
<1>11. PcAt(t, x) BY <1>5, <1>6, <1>9 DEF PcAt, Starts, ThenOK
<1>12. /\ todo' \in [{"sweep", "destroyer"} -> (SUBSET Conns) \cup SUBSET (Conns \X Kinds)]
       /\ todo'[t] = todo[t] \ {<<c, k>>} /\ todo'["destroyer"] = todo["destroyer"]
       /\ todo'["sweep"] \subseteq Conns \X Kinds /\ todo'["destroyer"] \subseteq Conns
  <2>1. /\ todo \in [{"sweep", "destroyer"} -> (SUBSET Conns) \cup SUBSET (Conns \X Kinds)]
        /\ todo["sweep"] \subseteq Conns \X Kinds /\ todo["destroyer"] \subseteq Conns
    BY <1>1 DEF SrvTypeOK
  <2>2. todo["sweep"] \ {<<c, k>>} \subseteq Conns \X Kinds BY <2>1
  <2> QED BY <1>3, <2>1, <2>2
<1>13. "sweep" \in SpotNames /\ Hands("sweep", c)
  <2>1. SweepConns' = SweepConns \ {c} /\ c \in SweepConns
    <3>1. \A l \in todo["sweep"] : l[1] = c => l = <<c, k>> BY <1>1, <1>3 DEF OnceInv
    <3>2. c \in SweepConns BY <1>3 DEF SweepConns
    <3>3. \A d : d \in SweepConns' <=> d \in SweepConns /\ d # c BY <1>12, <3>1 DEF SweepConns
    <3> QED BY <3>2, <3>3
  <2>2. \A d \in Conns : conn'[d].list = conn[d].list BY <1>8 DEF ConnIs
  <2>3. Spots'["sweep"] = Spots["sweep"] \ {c} /\ c \in Spots["sweep"] BY <2>1 DEF Spots, SpotNames
  <2>4. Spots'["destroyer"] = Spots["destroyer"] BY <1>12 DEF Spots, SpotNames
  <2> QED BY <1>2, <2>2, <2>3, <2>4, NoChange, SpotsSame DEF Hands, SpotNames
<1>14. /\ PcInv' /\ EvInv' /\ NeedInv' /\ HoldInv' /\ RefInv' /\ conn' \in [Conns -> ConnRec]
       /\ th' \in [Threads -> ThRec] /\ SrvRefInv'
  <2>1. th[t].pc \notin ConnPcs /\ t # "destroyer" BY <1>2 DEF ConnPcs
  <2> HIDE DEF t
  <2> QED BY <1>1, <1>2, <1>5, <1>8, <1>10, <1>11, <1>13, <2>1, NoChange, TurnsUp
<1>15. StageInv'
  <2>1. srv.spins = 1 /\ x.pc # "rest" BY <1>1, <1>2, <1>10 DEF StageInv
  <2> QED BY <1>2, <1>10, <2>1, NoChange, SweepStage
<1>16. RestInv' /\ AdmitterInv'
  <2>1. x.pc \notin {"rest", "done"} /\ t # "admitter" BY <1>10
  <2> HIDE DEF t
  <2> QED BY <1>1, <1>2, <1>10, <2>1, NoChange, TurnRest, TurnAdmitter
<1>17. OnceInv' BY <1>1, <1>2, <1>12, NoChange DEF OnceInv
<1>18. SrvTypeOK' BY <1>1, <1>2, <1>12, <1>14 DEF SrvTypeOK
<1> QED BY <1>14, <1>15, <1>16, <1>17, <1>18 DEF SInv

-----------------------------------------------------------------------------
(* The destroyer.                                                          *)

\* What StageInv says with the destroyer at p, admission closed or not, and the
\* listener's registration, swept and the pools as given.
StageAt(p, m, l, s, w, r) ==
  /\ p \notin {"rest", "stop", "stopping", "drain"} => m
  /\ p \in {"rest", "stop"} => l = "on"
  /\ p \in {"join_workers", "join_rejecters", "pins", "done"} => w = "shut"
  /\ p \in {"join_rejecters", "pins", "done"} =>
       /\ r = "shut" /\ tasks = <<>>
       /\ \A u \in Workers : th[u].pc = "rest" /\ u \notin calls /\ mem_admitting # u
  /\ p \in {"pins", "done"} =>
       /\ ~s /\ rejects = <<>>
       /\ \A u \in Rejecters : th[u].pc = "rest" /\ u \notin calls /\ mem_admitting # u
  /\ p = "done" => th["sweep"].pc = "rest"

SrvGets(m, l, s, w, r) ==
  /\ mem_admission_closed' = m /\ srv' \in SrvRec /\ srv'.spins = srv.spins
  /\ srv'.lreg = l /\ srv'.swept = s /\ srv'.worker_pool = w /\ srv'.reject_pool = r

LEMMA StageNow ==
  ASSUME SInv
  PROVE  StageAt(th["destroyer"].pc, mem_admission_closed, srv.lreg, srv.swept, srv.worker_pool, srv.reject_pool)
BY DEF SInv, StageInv, StageAt

LEMMA DestroyerStage ==
  ASSUME SInv, NEW x, Turns("destroyer", x), UNCHANGED <<tasks, rejects, calls, mem_admitting>>,
         NEW m, NEW l, NEW s, NEW w, NEW r, StageAt(x.pc, m, l, s, w, r), SrvGets(m, l, s, w, r)
  PROVE  StageInv'
<1>1. StageInv BY DEF SInv
<1>2. th'["destroyer"] = x /\ th'["sweep"] = th["sweep"] /\ \A u \in Workers \cup Rejecters : th'[u] = th[u]
  BY Roles DEF Turns
<1> QED BY <1>1, <1>2 DEF StageInv, StageAt, SrvGets

TodoOK(f) ==
  /\ f \in [{"sweep", "destroyer"} -> (SUBSET Conns) \cup SUBSET (Conns \X Kinds)]
  /\ f["sweep"] \subseteq Conns \X Kinds /\ f["destroyer"] \subseteq Conns

LEMMA DestroyerWorks ==
  ASSUME SInv, th["destroyer"].pc \in DestroyPcs, NEW p \in DestroyPcs \ {"rest"}, Goto("destroyer", p),
         p = "done" => "destroyer" \notin calls /\ mem_admitting # "destroyer",
         SoloMem, calls' = calls, ConnsKept, TodoOK(todo'), OnceInv',
         HoldInv' \/ \E a \in SpotNames : a # "destroyer" /\ \E K : Moved(a, "destroyer", K),
         NEW m, NEW l, NEW s, NEW w, NEW r, StageAt(p, m, l, s, w, r), SrvGets(m, l, s, w, r),
         srv.lreg # "gone" => l # "gone", SrvRefInv'
  PROVE  SInv'
<1>1. SrvTypeOK /\ HoldInv BY DEF SInv
<1>2. IdlePcs("destroyer") = DestroyPcs BY Roles DEF IdlePcs
<1>3. PICK x : Soloes("destroyer", x) /\ Turns("destroyer", x) /\ x.pc = p BY <1>2, SoloGoto
<1>4. /\ PcInv' /\ NeedInv' /\ EvInv' /\ RefInv' /\ RestInv' /\ AdmitterInv'
      /\ Open' = Open /\ \A u \in Threads : InHand'[u] = InHand[u]
  BY <1>3, SoloTurns DEF SrvGets
<1>5. StageInv' BY <1>3, DestroyerStage DEF SoloMem
<1>6. HoldInv'
  <2>1. "destroyer" \in SpotNames BY DEF SpotNames
  <2> QED BY <1>1, <1>4, <2>1, HoldMove
<1>7. SrvTypeOK' BY <1>1, <1>3 DEF SrvTypeOK, SoloMem, ConnsKept, Turns, SrvGets, TodoOK
<1> QED BY <1>4, <1>5, <1>6, <1>7 DEF SInv

LEMMA RefsGoto ==
  ASSUME SInv, NEW p, Goto("destroyer", p), th["destroyer"].pc # "done", p # "done", UNCHANGED regs,
         srv'.life = srv.life, srv'.refs = srv.refs, srv'.lreg = "gone" <=> srv.lreg = "gone"
  PROVE  SrvRefInv'
<1>1. SrvRefInv /\ th \in [Threads -> ThRec] /\ "destroyer" \in Threads BY Roles DEF SInv, SrvTypeOK
<1>2. th["destroyer"] \in ThRec BY <1>1
<1>3. [th["destroyer"] EXCEPT !.pc = p].pc = p BY <1>2, Zenon DEF ThRec
<1>4. th'["destroyer"] = [th["destroyer"] EXCEPT !.pc = p] BY <1>1, Zenon DEF Goto
<1>5. th'["destroyer"].pc = p BY <1>3, <1>4
<1>6. AllLive' = AllLive BY DEF AllLive
<1> QED BY <1>1, <1>5, <1>6 DEF SrvRefInv

\* Steps of the destroyer on the server alone.
LEMMA DestroyerIdles ==
  ASSUME SInv, th["destroyer"].pc \in DestroyPcs \ {"done"}, NEW p \in DestroyPcs \ {"rest", "done"}, Goto("destroyer", p),
         UNCHANGED <<untouched, mem_list, batch, calls, mem_admitting, locked, mem_exempt, mem_charged>>,
         NEW m, NEW l, NEW s, NEW w, NEW r, StageAt(p, m, l, s, w, r), SrvGets(m, l, s, w, r),
         srv'.life = srv.life, srv'.refs = srv.refs, l = "gone" <=> srv.lreg = "gone"
  PROVE  SInv'
<1>1. SrvTypeOK /\ HoldInv /\ OnceInv BY DEF SInv
<1>2. UNCHANGED <<scenario, conn, regs, tasks, rejects, todo>> BY DEF untouched
<1>3. SoloMem /\ ConnsKept BY <1>1, <1>2 DEF SoloMem, ConnsKept, SrvTypeOK
<1>4. TodoOK(todo') BY <1>1, <1>2 DEF TodoOK, SrvTypeOK
<1>5. OnceInv' BY <1>1, <1>2 DEF OnceInv
<1>6. SrvRefInv' BY <1>2, RefsGoto DEF SrvGets
<1>7. HoldInv'
  <2>1. \A u \in Threads : InHand'[u] = InHand[u]
    <3>1. IdlePcs("destroyer") = DestroyPcs BY Roles DEF IdlePcs
    <3>2. PICK x : Soloes("destroyer", x) /\ Turns("destroyer", x) /\ x.pc = p BY <3>1, SoloGoto
    <3> QED BY <1>3, <3>2, SoloTurns DEF SrvGets
  <2>2. \A k \in SpotNames : Spots'[k] = Spots[k] BY <1>2, SpotsSame DEF SpotNames
  <2> QED BY <1>1, <1>2, <2>1, <2>2, OpenSame, HoldSame
<1> QED BY <1>3, <1>4, <1>5, <1>6, <1>7, DestroyerWorks

SrvKeeps(l, s, w, r) == SrvGets(mem_admission_closed', l, s, w, r) /\ srv'.life = srv.life /\ srv'.refs = srv.refs

\* What the destroyer does to the server's record.
LEMMA DestroyerSets ==
  ASSUME SrvTypeOK
  PROVE  /\ UNCHANGED srv => SrvKeeps(srv.lreg, srv.swept, srv.worker_pool, srv.reject_pool)
         /\ srv' = [srv EXCEPT !.draining = TRUE] => SrvKeeps(srv.lreg, srv.swept, srv.worker_pool, srv.reject_pool)
         /\ srv' = [srv EXCEPT !.listening = FALSE, !.lreg = "removed"] =>
              SrvKeeps("removed", srv.swept, srv.worker_pool, srv.reject_pool)
         /\ srv' = [srv EXCEPT !.mutex = TRUE, !.worker_pool = "detached", !.reject_pool = "detached"] =>
              SrvKeeps(srv.lreg, srv.swept, "detached", "detached")
         /\ srv' = [srv EXCEPT !.mutex = FALSE] => SrvKeeps(srv.lreg, srv.swept, srv.worker_pool, srv.reject_pool)
         /\ srv' = [srv EXCEPT !.worker_pool = "shut"] => SrvKeeps(srv.lreg, srv.swept, "shut", srv.reject_pool)
         /\ srv' = [srv EXCEPT !.reject_pool = "shut"] => SrvKeeps(srv.lreg, srv.swept, srv.worker_pool, "shut")
         /\ srv' = [srv EXCEPT !.swept = FALSE] => SrvKeeps(srv.lreg, FALSE, srv.worker_pool, srv.reject_pool)
<1> DEFINE Is(z, l, s, w, r) ==
             /\ z \in SrvRec /\ z.spins = srv.spins /\ z.life = srv.life /\ z.refs = srv.refs
             /\ z.lreg = l /\ z.swept = s /\ z.worker_pool = w /\ z.reject_pool = r
<1>1. srv \in SrvRec BY DEF SrvTypeOK
<1>2. Is(srv, srv.lreg, srv.swept, srv.worker_pool, srv.reject_pool) BY <1>1
<1>3. Is([srv EXCEPT !.draining = TRUE], srv.lreg, srv.swept, srv.worker_pool, srv.reject_pool)
  BY <1>1, Zenon DEF SrvRec
<1>4. Is([srv EXCEPT !.listening = FALSE, !.lreg = "removed"], "removed", srv.swept, srv.worker_pool, srv.reject_pool)
  BY <1>1, Zenon DEF SrvRec
<1>5. Is([srv EXCEPT !.mutex = TRUE, !.worker_pool = "detached", !.reject_pool = "detached"],
         srv.lreg, srv.swept, "detached", "detached")
  BY <1>1, Zenon DEF SrvRec
<1>6. Is([srv EXCEPT !.mutex = FALSE], srv.lreg, srv.swept, srv.worker_pool, srv.reject_pool) BY <1>1, Zenon DEF SrvRec
<1>7. Is([srv EXCEPT !.worker_pool = "shut"], srv.lreg, srv.swept, "shut", srv.reject_pool) BY <1>1, Zenon DEF SrvRec
<1>8. Is([srv EXCEPT !.reject_pool = "shut"], srv.lreg, srv.swept, srv.worker_pool, "shut") BY <1>1, Zenon DEF SrvRec
<1>9. Is([srv EXCEPT !.swept = FALSE], srv.lreg, FALSE, srv.worker_pool, srv.reject_pool) BY <1>1, Zenon DEF SrvRec
<1>10. \A l, s, w, r : Is(srv', l, s, w, r) => SrvKeeps(l, s, w, r) BY DEF SrvKeeps, SrvGets
<1> HIDE DEF Is
<1> QED BY <1>2, <1>3, <1>4, <1>5, <1>6, <1>7, <1>8, <1>9, <1>10, Zenon

LEMMA DestroyPcsAre ==
  {"stop", "stopping", "drain", "close_idle", "wait", "wait_again", "close_all", "flush", "poll", "pools", "join_workers",
   "join_rejecters", "pins"} = DestroyPcs \ {"rest", "done"}
BY DEF DestroyPcs

LEMMA DestroyBeginsStep ==
  ASSUME SInv, TypeOK, Destroy \/ Stop \/ Stopped \/ Drain
  PROVE  SInv'
<1>1. SrvTypeOK BY DEF SInv
<1> DEFINE m == mem_admission_closed
           l == srv.lreg
           s == srv.swept
           w == srv.worker_pool
           r == srv.reject_pool
           pc == th["destroyer"].pc
<1>2. StageAt(pc, m, l, s, w, r) BY StageNow
<1>3. UNCHANGED untouched BY DEF Destroy, Stop, Stopped, Drain
<1>4. UNCHANGED <<mem_list, batch, calls, mem_admitting, locked, mem_exempt, mem_charged>>
  BY NoChange DEF Destroy, Stop, Stopped, Drain, CloseAdmission, memCounts, memLoop
<1>5. CASE Destroy
  <2>1. /\ pc = "rest" /\ Goto("destroyer", "stop") /\ srv' = [srv EXCEPT !.draining = TRUE] /\ mem_admission_closed' = m
    BY <1>5, NoChange DEF Destroy, DestroyerGoes, Runs
  <2>2. SrvGets(m, l, s, w, r) /\ srv'.life = srv.life /\ srv'.refs = srv.refs BY <1>1, <2>1, DestroyerSets DEF SrvKeeps
  <2>3. StageAt("stop", m, l, s, w, r) BY <1>2, <2>1 DEF StageAt
  <2>4. "rest" \in DestroyPcs \ {"done"} BY DEF DestroyPcs
  <2> HIDE DEF m, l, s, w, r
  <2> QED BY <1>3, <1>4, <2>1, <2>2, <2>3, <2>4, DestroyPcsAre, DestroyerIdles DEF l
<1>6. CASE Stop
  <2>1. /\ pc = "stop" /\ Goto("destroyer", "stopping") /\ srv' = [srv EXCEPT !.listening = FALSE, !.lreg = "removed"]
        /\ mem_admission_closed' = m
    BY <1>6, NoChange DEF Stop, DestroyerGoes, Runs
  <2>2. SrvGets(m, "removed", s, w, r) /\ srv'.life = srv.life /\ srv'.refs = srv.refs BY <1>1, <2>1, DestroyerSets DEF SrvKeeps
  <2>3. StageAt("stopping", m, "removed", s, w, r) /\ srv.lreg = "on" BY <1>2, <2>1 DEF StageAt
  <2> HIDE DEF m, l, s, w, r
  <2> QED BY <1>3, <1>4, <2>1, <2>2, <2>3, DestroyPcsAre, DestroyerIdles
<1>7. CASE Stopped
  <2>1. pc = "stopping" /\ Goto("destroyer", "drain") /\ UNCHANGED srv /\ mem_admission_closed' = m
    BY <1>7, NoChange DEF Stopped, DestroyerGoes, Runs
  <2>2. SrvGets(m, l, s, w, r) /\ srv'.life = srv.life /\ srv'.refs = srv.refs BY <1>1, <2>1, DestroyerSets DEF SrvKeeps
  <2>3. StageAt("drain", m, l, s, w, r) BY <1>2, <2>1 DEF StageAt
  <2> HIDE DEF m, l, s, w, r
  <2> QED BY <1>3, <1>4, <2>1, <2>2, <2>3, DestroyPcsAre, DestroyerIdles DEF l
<1>8. CASE Drain
  <2>1. pc = "drain" /\ Goto("destroyer", "close_idle") /\ UNCHANGED srv /\ mem_admission_closed' = TRUE
    BY <1>8 DEF Drain, DestroyerGoes, Runs, CloseAdmission
  <2>2. SrvGets(TRUE, l, s, w, r) /\ srv'.life = srv.life /\ srv'.refs = srv.refs BY <1>1, <2>1, DestroyerSets DEF SrvKeeps
  <2>3. StageAt("close_idle", TRUE, l, s, w, r) BY <1>2, <2>1 DEF StageAt
  <2> HIDE DEF m, l, s, w, r
  <2> QED BY <1>3, <1>4, <2>1, <2>2, <2>3, DestroyPcsAre, DestroyerIdles DEF l
<1> QED BY <1>5, <1>6, <1>7, <1>8

LEMMA DestroyEndsWith ==
  ASSUME SInv, TypeOK, Detach \/ FlushEnds \/ Poll \/ PoolShuts \/ WorkersJoin \/ RejectersJoin
  PROVE  SInv'
<1>1. SrvTypeOK BY DEF SInv
<1> DEFINE m == mem_admission_closed
           l == srv.lreg
           s == srv.swept
           w == srv.worker_pool
           r == srv.reject_pool
           pc == th["destroyer"].pc
<1>2. StageAt(pc, m, l, s, w, r) BY StageNow
<1>3. UNCHANGED untouched BY DEF Detach, FlushEnds, Poll, PoolShuts, WorkersJoin, RejectersJoin
<1>4. UNCHANGED <<mem_list, batch, calls, mem_admitting, locked, mem_exempt, mem_charged>> /\ mem_admission_closed' = m
  BY NoChange DEF Detach, FlushEnds, Poll, PoolShuts, WorkersJoin, RejectersJoin
<1>5. CASE Detach
  <2>1. /\ pc \in {"wait", "wait_again"} /\ Goto("destroyer", "close_all")
        /\ srv' = [srv EXCEPT !.mutex = TRUE, !.worker_pool = "detached", !.reject_pool = "detached"]
    BY <1>5 DEF Detach, DestroyerGoes, Runs
  <2>2. SrvGets(m, l, s, "detached", "detached") /\ srv'.life = srv.life /\ srv'.refs = srv.refs
    BY <1>1, <1>4, <2>1, DestroyerSets DEF SrvKeeps
  <2>3. StageAt("close_all", m, l, s, "detached", "detached") BY <1>2, <2>1 DEF StageAt
  <2> HIDE DEF m, l, s, w, r
  <2> QED BY <1>3, <1>4, <2>1, <2>2, <2>3, DestroyPcsAre, DestroyerIdles DEF l
<1>6. CASE FlushEnds
  <2>1. pc = "flush" /\ Goto("destroyer", "poll") /\ srv' = [srv EXCEPT !.mutex = FALSE]
    BY <1>6 DEF FlushEnds, DestroyerGoes, Runs
  <2>2. SrvGets(m, l, s, w, r) /\ srv'.life = srv.life /\ srv'.refs = srv.refs
    BY <1>1, <1>4, <2>1, DestroyerSets DEF SrvKeeps
  <2>3. StageAt("poll", m, l, s, w, r) BY <1>2, <2>1 DEF StageAt
  <2> HIDE DEF m, l, s, w, r
  <2> QED BY <1>3, <1>4, <2>1, <2>2, <2>3, DestroyPcsAre, DestroyerIdles DEF l
<1>7. CASE Poll
  <2>1. pc = "poll" /\ \E p \in {"pools", "close_all"} : Goto("destroyer", p) BY <1>7 DEF Poll, Runs
  <2>2. PICK p \in {"pools", "close_all"} : Goto("destroyer", p) BY <2>1
  <2>3. SrvGets(m, l, s, w, r) /\ srv'.life = srv.life /\ srv'.refs = srv.refs
    BY <1>1, <1>4, <1>7, DestroyerSets DEF SrvKeeps, Poll
  <2>4. StageAt(p, m, l, s, w, r) BY <1>2, <2>1 DEF StageAt
  <2> HIDE DEF m, l, s, w, r
  <2> QED BY <1>3, <1>4, <2>1, <2>2, <2>3, <2>4, DestroyPcsAre, DestroyerIdles DEF l
<1>8. CASE PoolShuts
  <2>1. pc = "pools" /\ Goto("destroyer", "join_workers") /\ srv' = [srv EXCEPT !.worker_pool = "shut"]
    BY <1>8 DEF PoolShuts, DestroyerGoes, Runs
  <2>2. SrvGets(m, l, s, "shut", r) /\ srv'.life = srv.life /\ srv'.refs = srv.refs
    BY <1>1, <1>4, <2>1, DestroyerSets DEF SrvKeeps
  <2>3. StageAt("join_workers", m, l, s, "shut", r) BY <1>2, <2>1 DEF StageAt
  <2> HIDE DEF m, l, s, w, r
  <2> QED BY <1>3, <1>4, <2>1, <2>2, <2>3, DestroyPcsAre, DestroyerIdles DEF l
<1>9. CASE WorkersJoin
  <2>1. /\ pc = "join_workers" /\ Goto("destroyer", "join_rejecters") /\ srv' = [srv EXCEPT !.reject_pool = "shut"]
        /\ tasks = <<>> /\ \A u \in Workers : th[u].pc = "rest" /\ u \notin calls /\ mem_admitting # u
    BY <1>9 DEF WorkersJoin, DestroyerGoes, Runs
  <2>2. SrvGets(m, l, s, w, "shut") /\ srv'.life = srv.life /\ srv'.refs = srv.refs
    BY <1>1, <1>4, <2>1, DestroyerSets DEF SrvKeeps
  <2>3. StageAt("join_rejecters", m, l, s, w, "shut") BY <1>2, <2>1 DEF StageAt
  <2> HIDE DEF m, l, s, w, r
  <2> QED BY <1>3, <1>4, <2>1, <2>2, <2>3, DestroyPcsAre, DestroyerIdles DEF l
<1>10. CASE RejectersJoin
  <2>1. /\ pc = "join_rejecters" /\ Goto("destroyer", "pins") /\ srv' = [srv EXCEPT !.swept = FALSE]
        /\ rejects = <<>> /\ \A u \in Rejecters : th[u].pc = "rest" /\ u \notin calls /\ mem_admitting # u
    BY <1>10 DEF RejectersJoin, DestroyerGoes, Runs
  <2>2. SrvGets(m, l, FALSE, w, r) /\ srv'.life = srv.life /\ srv'.refs = srv.refs
    BY <1>1, <1>4, <2>1, DestroyerSets DEF SrvKeeps
  <2>3. StageAt("pins", m, l, FALSE, w, r) BY <1>2, <2>1 DEF StageAt
  <2> HIDE DEF m, l, s, w, r
  <2> QED BY <1>3, <1>4, <2>1, <2>2, <2>3, DestroyPcsAre, DestroyerIdles DEF l
<1> QED BY <1>5, <1>6, <1>7, <1>8, <1>9, <1>10

\* The destroyer's own reference, the last step of all.
LEMMA DestroyEndsStep ==
  ASSUME SInv, TypeOK, DestroyEnds
  PROVE  SInv'
<1>1. SrvTypeOK /\ HoldInv /\ OnceInv /\ SrvRefInv /\ StageInv /\ "destroyer" \in Threads BY Roles DEF SInv
<1>2. /\ th["destroyer"].pc = "pins" /\ Goto("destroyer", "done") /\ "destroyer" \notin calls /\ mem_admitting # "destroyer"
      /\ srv.spins = 0 /\ srv' = SrvDropped(srv) /\ UNCHANGED <<scenario, conn, regs, tasks, rejects, todo, memVars>>
  BY DEF DestroyEnds, DestroyerGoes, Runs, untouched
<1>3. SrvDrops(srv.lreg) BY <1>1, <1>2, SrvDroppedIs
<1> DEFINE m == mem_admission_closed
           l == srv.lreg
           s == srv.swept
           w == srv.worker_pool
           r == srv.reject_pool
<1>4. SrvGets(m, l, s, w, r) BY <1>2, <1>3, NoChange DEF SrvGets, SrvDrops
<1>5. StageAt("done", m, l, s, w, r)
  <2>1. th["sweep"].pc = "rest" BY <1>1, <1>2 DEF StageInv
  <2>2. StageAt("pins", m, l, s, w, r) BY <1>2, StageNow
  <2> QED BY <2>1, <2>2 DEF StageAt
<1>6. SoloMem /\ ConnsKept /\ calls' = calls BY <1>1, <1>2, NoChange DEF SoloMem, ConnsKept, SrvTypeOK
<1>7. TodoOK(todo') BY <1>1, <1>2 DEF TodoOK, SrvTypeOK
<1>8. OnceInv' BY <1>1, <1>2, NoChange DEF OnceInv
<1>9. "pins" \in DestroyPcs /\ "done" \in DestroyPcs \ {"rest"} /\ IdlePcs("destroyer") = DestroyPcs
  BY Roles DEF DestroyPcs, IdlePcs
<1>10. PICK x : Soloes("destroyer", x) /\ Turns("destroyer", x) /\ x.pc = "done" BY <1>2, <1>6, <1>9, SoloGoto
<1>11. HoldInv'
  <2>1. \A u \in Threads : InHand'[u] = InHand[u] BY <1>4, <1>6, <1>10, SoloTurns DEF SrvGets
  <2>2. \A k \in SpotNames : Spots'[k] = Spots[k] BY <1>2, NoChange, SpotsSame DEF SpotNames
  <2> QED BY <1>1, <1>2, <2>1, <2>2, OpenSame, HoldSame
<1>12. SrvRefInv'
  <2>1. th'["destroyer"].pc = "done" BY <1>1, <1>10 DEF Turns
  <2>2. AllLive' = AllLive /\ Cardinality(AllLive) \in Nat BY <1>2, LiveFinite DEF AllLive
  <2> QED BY <1>1, <1>2, <1>3, <2>1, <2>2 DEF SrvRefInv, SrvDrops
<1> HIDE DEF m, l, s, w, r
<1> QED BY <1>2, <1>4, <1>5, <1>6, <1>7, <1>8, <1>9, <1>11, <1>12, DestroyerWorks DEF l

LEMMA CloseListedStep ==
  ASSUME SInv, TypeOK, CloseIdle \/ CloseAll
  PROVE  SInv'
<1>1. SrvTypeOK /\ HoldInv /\ OnceInv BY DEF SInv
<1>2. PICK from \in {"close_idle", "close_all"}, ls \in SUBSET {"idle", "parked"}, to \in {"wait", "flush"} : CloseListed(from, ls, to)
  BY DEF CloseIdle, CloseAll
<1> DEFINE cs == UNION {Listed(k) : k \in ls}
           p == IF cs = {} THEN to ELSE from
           pc == th["destroyer"].pc
           m == mem_admission_closed
           l == srv.lreg
           s == srv.swept
           w == srv.worker_pool
           r == srv.reject_pool
<1>3. /\ pc = from /\ todo["destroyer"] = {} /\ Unlisted(cs) /\ todo' = [todo EXCEPT !["destroyer"] = cs]
      /\ Goto("destroyer", p) /\ UNCHANGED <<scenario, regs, srv, tasks, rejects, memVars>>
  BY <1>2 DEF CloseListed, Runs
<1>4. cs \subseteq Conns /\ cs \subseteq Spots["list"] BY SpotValues DEF Listed
<1>5. p \in DestroyPcs \ {"rest", "done"} /\ p \notin {"rest", "stop", "stopping", "drain", "join_workers", "join_rejecters", "pins"}
  BY DEF DestroyPcs
<1> HIDE DEF cs, p
<1>6. ConnsKept /\ Spots'["list"] = Spots["list"] \ cs BY <1>1, <1>3, <1>4, UnlistedKeeps
<1>7. TodoOK(todo') /\ todo'["sweep"] = todo["sweep"] /\ todo'["destroyer"] = cs
  <2>1. TodoOK(todo) BY <1>1 DEF SrvTypeOK, TodoOK
  <2> QED BY <1>3, <1>4, <2>1 DEF TodoOK
<1>8. OnceInv' BY <1>1, <1>3, <1>7, NoChange DEF OnceInv
<1>9. SoloMem /\ calls' = calls BY <1>3, NoChange DEF SoloMem
<1>10. Moved("list", "destroyer", cs) /\ "list" \in SpotNames
  <2>1. Spots'["destroyer"] = Spots["destroyer"] \cup cs BY <1>3, <1>7 DEF Spots, SpotNames
  <2>2. Spots'["sweep"] = Spots["sweep"] BY <1>7 DEF Spots, SpotNames, SweepConns
  <2>3. \A k \in SpotNames : k # "list" /\ k # "destroyer" => Spots'[k] = Spots[k]
    BY <1>3, <2>2, NoChange, SpotsSame DEF SpotNames
  <2> QED BY <1>4, <1>6, <2>1, <2>3 DEF Moved, SpotNames
<1>11. StageAt(pc, m, l, s, w, r) BY StageNow
<1>12. StageAt(p, m, l, s, w, r) BY <1>2, <1>3, <1>5, <1>11 DEF StageAt
<1>13. SrvGets(m, l, s, w, r) BY <1>1, <1>3, NoChange DEF SrvGets, SrvTypeOK
<1>14. SrvRefInv' BY <1>3, <1>5, RefsGoto
<1>15. pc \in DestroyPcs BY <1>3 DEF DestroyPcs
<1> HIDE DEF m, l, s, w, r
<1> QED BY <1>3, <1>5, <1>6, <1>7, <1>8, <1>9, <1>10, <1>12, <1>13, <1>14, <1>15, DestroyerWorks DEF l

LEMMA ForceUnblockStep ==
  ASSUME SInv, TypeOK, ForceUnblock
  PROVE  SInv'
<1>1. SrvTypeOK /\ HoldInv /\ OnceInv BY DEF SInv
<1> DEFINE pc == th["destroyer"].pc
           m == mem_admission_closed
           l == srv.lreg
           s == srv.swept
           w == srv.worker_pool
           r == srv.reject_pool
           y(d) == [conn[d] EXCEPT !.shut = TRUE]
<1>2. /\ pc = "wait" /\ Goto("destroyer", "wait_again") /\ UNCHANGED <<scenario, regs, srv, tasks, rejects, todo, memVars>>
      /\ conn' = [d \in Conns |-> IF conn[d].div THEN y(d) ELSE conn[d]]
  BY DEF ForceUnblock, DestroyerGoes, Runs
<1>3. \A d \in Conns : conn[d] \in ConnRec BY <1>1 DEF SrvTypeOK
<1>4. ASSUME NEW d \in Conns
      PROVE  /\ y(d) \in ConnRec /\ y(d).life = conn[d].life /\ y(d).refs = conn[d].refs /\ y(d).reg = conn[d].reg
             /\ y(d).len = conn[d].len /\ y(d).cap = conn[d].cap /\ y(d).size = conn[d].size
             /\ y(d).declared = conn[d].declared /\ y(d).list = conn[d].list
  <2>1. conn[d] \in ConnRec BY <1>3
  <2> QED BY <2>1, Zenon DEF ConnRec
<1> HIDE DEF y
<1>5. conn' \in [Conns -> ConnRec] BY <1>2, <1>3, <1>4
<1>6. ASSUME NEW d \in Conns
      PROVE  /\ conn'[d].life = conn[d].life /\ conn'[d].refs = conn[d].refs /\ conn'[d].reg = conn[d].reg
             /\ Want(conn'[d]) = Want(conn[d]) /\ conn'[d].list = conn[d].list
  <2>1. conn'[d] = IF conn[d].div THEN y(d) ELSE conn[d] BY <1>2
  <2> QED BY <1>4, <2>1 DEF Want, Target, Ceiling
<1>7. ConnsKept BY <1>5, <1>6 DEF ConnsKept
<1>8. TodoOK(todo') BY <1>1, <1>2 DEF SrvTypeOK, TodoOK
<1>9. OnceInv' BY <1>1, <1>2, NoChange DEF OnceInv
<1>10. SoloMem /\ calls' = calls BY <1>2, NoChange DEF SoloMem
<1>11. StageAt("wait_again", m, l, s, w, r)
  <2>1. StageAt("wait", m, l, s, w, r) BY <1>2, StageNow
  <2> QED BY <2>1 DEF StageAt
<1>12. SrvGets(m, l, s, w, r) BY <1>1, <1>2, NoChange DEF SrvGets, SrvTypeOK
<1>13. SrvRefInv' BY <1>2, RefsGoto
<1>14. pc \in DestroyPcs /\ "wait_again" \in DestroyPcs \ {"rest"} /\ IdlePcs("destroyer") = DestroyPcs
  BY <1>2, Roles DEF DestroyPcs, IdlePcs
<1>15. HoldInv'
  <2>1. PICK x : Soloes("destroyer", x) /\ Turns("destroyer", x) /\ x.pc = "wait_again" BY <1>2, <1>10, <1>14, SoloGoto
  <2>2. \A u \in Threads : InHand'[u] = InHand[u] BY <1>2, <1>7, <1>10, <2>1, SoloTurns
  <2>3. \A k \in SpotNames : Spots'[k] = Spots[k] BY <1>2, <1>6, NoChange, SpotsSame DEF SpotNames
  <2>4. Open' = Open BY <1>6, OpenSame
  <2> QED BY <1>1, <2>2, <2>3, <2>4, HoldSame
<1> HIDE DEF m, l, s, w, r
<1> QED BY <1>2, <1>7, <1>8, <1>9, <1>10, <1>11, <1>12, <1>13, <1>14, <1>15, DestroyerWorks DEF l

LEMMA CloseNextStep ==
  ASSUME SInv, TypeOK, CloseNext
  PROVE  SInv'
<1> DEFINE t == "destroyer"
           h == th[t].pc
<1>1. SrvTypeOK /\ HoldInv /\ OnceInv /\ t \in Threads /\ t \notin Reactors BY Roles DEF SInv
<1>2. /\ h \in {"close_idle", "close_all", "flush"} /\ UNCHANGED <<scenario, regs, srv, tasks, rejects, memVars>>
  BY DEF CloseNext
<1>3. PICK c \in todo["destroyer"] :
        /\ Set(c, [conn[c] EXCEPT !.park = "none"])
        /\ th' = [th EXCEPT ![t] = [Resting EXCEPT !.pc = "close", !.c = c, !.home = h]]
        /\ todo' = [todo EXCEPT !["destroyer"] = @ \ {c}]
  BY DEF CloseNext
<1> DEFINE y == [conn[c] EXCEPT !.park = "none"]
           x == [Resting EXCEPT !.pc = "close", !.c = c, !.home = h]
           m == mem_admission_closed
           l == srv.lreg
           s == srv.swept
           w == srv.worker_pool
           r == srv.reject_pool
<1>4. c \in Conns /\ conn[c] \in ConnRec BY <1>1 DEF SrvTypeOK
<1>5. /\ h \in Pcs /\ h \in Homes(t) /\ h \notin ConnPcs /\ "close" \in Pcs /\ "close" \in ConnPcs \ {"enqueue"}
      /\ "none" \in Parks /\ "none" \in Thens
  BY <1>2, Roles DEF Pcs, DestroyPcs, ConnPcs, Homes, Thens, Parks
<1>6. StageAt("close", m, l, s, w, r)
  <2>1. StageAt(h, m, l, s, w, r) BY StageNow
  <2> QED BY <1>2, <2>1 DEF StageAt
<1>7. h # "done" BY <1>2
<1> HIDE DEF h
<1>8. Set(c, y) /\ th' = [th EXCEPT ![t] = x] BY <1>3
<1>9. Starts(x, "close", c, <<Null, 0>>, "none", h)
  <2>1. <<Null, 0>> \in (Conns \cup {Null, "listener"}) \X Nat /\ 0 \in Int OBVIOUS
  <2> QED BY <1>4, <1>5, <2>1, RestingStarts
<1> HIDE DEF x
<1>10. /\ y \in ConnRec /\ y.life = conn[c].life /\ y.list = conn[c].list /\ y.refs = conn[c].refs /\ y.reg = conn[c].reg
       /\ y.len = conn[c].len /\ y.cap = conn[c].cap /\ y.size = conn[c].size /\ y.declared = conn[c].declared
  BY <1>4, <1>5, Zenon DEF ConnRec
<1> HIDE DEF y
<1>11. ConnIs(c, y) BY <1>1, <1>4, <1>8, <1>10, SetIs DEF SrvTypeOK
<1>12. Want(y) = Want(conn[c]) BY <1>10 DEF Want, Target, Ceiling
<1>13. Turns(t, x) /\ x.pc = "close" /\ x.c = c BY <1>1, <1>8, <1>9, TurnsWhen DEF Starts
<1>14. PcAt(t, x) BY <1>4, <1>5, <1>9 DEF PcAt, Starts, ThenOK
<1>15. TodoOK(todo') /\ todo'["sweep"] = todo["sweep"] /\ todo'["destroyer"] = todo["destroyer"] \ {c}
  <2>1. TodoOK(todo) BY <1>1 DEF SrvTypeOK, TodoOK
  <2> QED BY <1>3, <2>1 DEF TodoOK
<1>16. "destroyer" \in SpotNames /\ Hands("destroyer", c)
  <2>1. \A d \in Conns : conn'[d].list = conn[d].list BY <1>10, <1>11 DEF ConnIs
  <2>2. Spots'["destroyer"] = Spots["destroyer"] \ {c} /\ c \in Spots["destroyer"] BY <1>15 DEF Spots, SpotNames
  <2>3. Spots'["sweep"] = Spots["sweep"] BY <1>15 DEF Spots, SpotNames, SweepConns
  <2> QED BY <1>2, <2>1, <2>2, <2>3, NoChange, SpotsSame DEF Hands, SpotNames
<1>17. SrvGets(m, l, s, w, r) BY <1>1, <1>2, NoChange DEF SrvGets, SrvTypeOK
<1>18. /\ PcInv' /\ EvInv' /\ NeedInv' /\ HoldInv' /\ RefInv' /\ conn' \in [Conns -> ConnRec]
       /\ th' \in [Threads -> ThRec] /\ SrvRefInv'
  <2>1. th[t].pc \notin ConnPcs /\ th[t].pc # "done" BY <1>5, <1>7 DEF h
  <2> HIDE DEF t
  <2> QED BY <1>1, <1>2, <1>4, <1>5, <1>10, <1>11, <1>12, <1>13, <1>14, <1>16, <2>1, NoChange, TurnsUp
<1>19. StageInv'
  <2> HIDE DEF m, l, s, w, r
  <2> QED BY <1>2, <1>6, <1>13, <1>17, NoChange, DestroyerStage
<1>20. RestInv' /\ AdmitterInv'
  <2>1. x.pc \notin {"rest", "done"} /\ t # "admitter" BY <1>13
  <2> HIDE DEF t
  <2> QED BY <1>1, <1>2, <1>13, <2>1, NoChange, TurnRest, TurnAdmitter
<1>21. OnceInv' BY <1>1, <1>2, <1>15, NoChange DEF OnceInv
<1>22. SrvTypeOK' BY <1>1, <1>2, <1>15, <1>18 DEF SrvTypeOK, TodoOK
<1> QED BY <1>18, <1>19, <1>20, <1>21, <1>22 DEF SInv

-----------------------------------------------------------------------------
(* Every step keeps the invariant.                                         *)

LEMMA StutterStep ==
  ASSUME SInv, UNCHANGED vars
  PROVE  SInv'
<1>1. UNCHANGED <<srvVars, memVars>> BY DEF vars
<1>2. UNCHANGED <<srv, th, tasks, rejects>> BY <1>1 DEF srvVars
<1>3. StageInv' /\ RestInv' /\ AdmitterInv' BY <1>1, <1>2, NoChange, QuietKeeps
<1> QED BY <1>1, <1>3, NoChange, LoopKeeps

LEMMA ConnStepKeeps ==
  ASSUME SInv, TypeOK, NEW t \in Threads, ConnStep(t)
  PROVE  SInv'
<1>1. CASE Ends(t) \/ Close(t) \/ Drop(t) \/ Deref(t) \/ Arm(t) \/ List(t) \/ LingerStep(t) \/ Pump(t) \/ Pause(t)
  BY <1>1, EndsStep, CloseStep, DropStep, DerefStep, ArmStep, ListStep, LingerStepStep, PumpStep, PauseStep
<1>2. CASE \/ Count(t) \/ Gate(t) \/ EnqueueWaiter(t) \/ Queued(t) \/ Submit(t)
           \/ RejectPool(t) \/ RejectSubmit(t) \/ Reject(t) \/ Linger(t)
  BY <1>2, CountStep, GateStep, EnqueueWaiterStep, EndsStep, SubmitStep, RejectPoolStep, RejectSubmitStep, RejectStep,
     LingerOfStep
<1>3. CASE \/ TaskWorker(t) \/ ResumeBody(t) \/ ResumeWrite(t) \/ Body(t) \/ ReadBody(t) \/ Handler(t)
           \/ Answer(t) \/ TaskTail(t)
  BY <1>3, TaskWorkerStep, ResumeBodyStep, ResumeWriteStep, BodyStep, ReadBodyStep, HandlerStep, AnswerStep,
     TaskTailStep
<1> QED BY <1>1, <1>2, <1>3 DEF ConnStep

LEMMA SInvNext ==
  ASSUME SInv, IInv, [Next]_vars
  PROVE  SInv'
<1>1. TypeOK /\ Distinct(mem_list) BY DEF IInv
<1>2. ASSUME NEW t \in Threads, ConnStep(t) PROVE SInv' BY <1>1, <1>2, ConnStepKeeps
<1>3. ASSUME NEW t \in Callers, AdmitCall(t) PROVE SInv' BY <1>1, <1>3, AdmitCallStep
<1>4. ASSUME NEW r \in Reactors, ReactorStep(r) PROVE SInv'
  BY <1>1, <1>4, ClaimStep, ReturnedStep, ListenerPinsStep, AcceptStep, ListenerUnpinsStep DEF ReactorStep
<1>5. ASSUME NEW r \in Reactors, ListenerCalled(r) PROVE SInv' BY <1>1, <1>5, ListenerCalledStep
<1>6. ASSUME NEW r \in Reactors, NEW c \in Conns, NEW n \in 1 .. MaxRegs, Dispatch(r, c, n) PROVE SInv'
  BY <1>1, <1>6, DispatchStep
<1>7. ASSUME NEW w \in Workers, TakeTask(w) PROVE SInv' BY <1>1, <1>7, TakeTaskStep
<1>8. ASSUME NEW j \in Rejecters, RejectTask(j) PROVE SInv' BY <1>1, <1>8, RejectTaskStep
<1>9. ASSUME NEW c \in Conns, NEW n \in 1 .. MaxRegs, OnRemoved(c, n) PROVE SInv' BY <1>1, <1>9, OnRemovedStep
<1>10. CASE AdmitLoop \/ MemDispatch \/ ListenerRemoved BY <1>1, <1>10, AdmitLoopStep, MemDispatchStep, ListenerRemovedStep
<1>11. CASE SweepStep
  BY <1>1, <1>11, SweepPins, SweepScanStep, SweepNextStep, SweepWaitsStep DEF SweepStep
<1>12. CASE Destroy \/ DestroyStep
  BY <1>1, <1>12, DestroyBeginsStep, DestroyEndsWith, DestroyEndsStep, CloseListedStep, CloseNextStep, ForceUnblockStep,
     FlushStepOf DEF DestroyStep
<1>13. CASE Finished \/ UNCHANGED vars BY <1>13, StutterStep DEF Finished
<1> QED BY <1>2, <1>3, <1>4, <1>5, <1>6, <1>7, <1>8, <1>9, <1>10, <1>11, <1>12, <1>13 DEF Next, Removals

-----------------------------------------------------------------------------
(* Seen from the body memory, every step is one of its own, or none.       *)

\* What a thread does for the connection it has.
MemWork(t, c) ==
  \E n \in 0 .. MaxNeed : Reserve(c, n) \/ (~mem_exempt[c] /\ Enqueue(t, c, n)) \/ Release(t, c) \/ Trim(t, c, n)

LEMMA MemWorks ==
  ASSUME SInv, NEW t \in Threads, th[t].pc \in ConnPcs, MemWork(t, th[t].c)
  PROVE  MemNext
<1> DEFINE c == th[t].c
<1>1. c \in Conns /\ ~Waiting(c) BY HandAlone DEF SInv
<1>2. t \in Callers BY Roles
<1>3. MemWork(t, c) OBVIOUS
<1> HIDE DEF c
<1> QED BY <1>1, <1>2, <1>3 DEF MemWork, MemNext

LEMMA TrimWorks ==
  ASSUME NEW t, NEW c, NEW k \in Sizes, TrimTo(t, c, k)
  PROVE  MemWork(t, c) \/ UNCHANGED memVars
<1>1. k \in 0 .. MaxNeed BY Bounds DEF Sizes
<1> QED BY <1>1 DEF TrimTo, MemWork

\* What the threads do with connections.
LEMMA ConnMem ==
  ASSUME SInv, TypeOK, NEW t \in Threads, ConnStep(t)
  PROVE  MemNext \/ UNCHANGED memVars
<1> DEFINE c == th[t].c
           x == conn[c]
<1>1. CASE Ends(t) \/ Close(t) \/ Deref(t) \/ Arm(t) \/ List(t) \/ LingerStep(t) \/ Pump(t) \/ Pause(t) \/ Count(t)
  BY <1>1 DEF Ends, Close, Deref, Arm, List, LingerStep, Pump, Pause, Count
<1>2. CASE \/ Queued(t) \/ Submit(t) \/ RejectPool(t) \/ RejectSubmit(t) \/ Reject(t) \/ Linger(t)
           \/ TaskWorker(t) \/ ResumeWrite(t) \/ Handler(t) \/ Answer(t) \/ TaskTail(t)
  BY <1>2 DEF Queued, Submit, RejectPool, RejectSubmit, Reject, Linger, TaskWorker, ResumeWrite, Handler, Answer, TaskTail
<1>3. CASE Drop(t)
  <2>1. th[t].pc \in ConnPcs BY <1>3 DEF Drop, Runs, ConnPcs
  <2>2. Release(t, c) \/ UNCHANGED memVars BY <1>3 DEF Drop
  <2>3. 0 \in 0 .. MaxNeed BY Bounds
  <2>4. Release(t, c) => MemWork(t, c) BY <2>3 DEF MemWork
  <2> QED BY <2>1, <2>2, <2>4, MemWorks
<1>4. CASE Gate(t)
  <2>1. th[t].pc \in ConnPcs BY <1>4 DEF Gate, Runs, ConnPcs
  <2>2. Reserve(c, 1) \/ UNCHANGED memVars BY <1>4 DEF Gate, ReserveFails
  <2>3. 1 \in 0 .. MaxNeed BY Bounds
  <2>4. Reserve(c, 1) => MemWork(t, c) BY <2>3 DEF MemWork
  <2> QED BY <2>1, <2>2, <2>4, MemWorks
<1>5. CASE EnqueueWaiter(t)
  <2> DEFINE n == IF th[t].then = "memstart" THEN 1 ELSE Step(c)
  <2>1. th[t].pc = "enqueue" /\ th[t].pc \in ConnPcs BY <1>5 DEF EnqueueWaiter, Runs, ConnPcs
  <2>2. c \in Conns /\ x \in ConnRec BY <2>1, InHandOf
  <2>3. ~mem_exempt[c] /\ (th[t].then # "memstart" => Step(c) > 0) BY <2>1 DEF SInv, NeedInv
  <2>4. Want(x) \in 0 .. MaxNeed /\ mem_charged[c] \in Nat BY <2>2, TargetBound DEF TypeOK
  <2>5. n \in 0 .. MaxNeed
    <3>1. CASE th[t].then = "memstart" BY <3>1, Bounds
    <3>2. CASE th[t].then # "memstart"
      <4>1. n = Want(x) - mem_charged[c] /\ n > 0 BY <2>3, <3>2 DEF Step
      <4> QED BY <2>4, <4>1, Bounds
    <3> QED BY <3>1, <3>2
  <2>6. Enqueue(t, c, n) BY <1>5 DEF EnqueueWaiter
  <2> HIDE DEF n
  <2>7. MemWork(t, c) BY <2>3, <2>5, <2>6 DEF MemWork
  <2> QED BY <2>1, <2>7, MemWorks
<1>6. CASE Body(t)
  <2>1. th[t].pc \in ConnPcs BY <1>6 DEF Body, Runs, ConnPcs
  <2>2. c \in Conns /\ x \in ConnRec BY <2>1, InHandOf
  <2>3. UNCHANGED memVars \/ (Step(c) > 0 /\ Reserve(c, Step(c))) BY <1>6 DEF Body, ReserveFails
  <2>4. Want(x) \in 0 .. MaxNeed /\ mem_charged[c] \in Nat BY <2>2, TargetBound DEF TypeOK
  <2>5. Step(c) > 0 => Step(c) \in 0 .. MaxNeed BY <2>4, Bounds DEF Step
  <2>6. Step(c) > 0 /\ Reserve(c, Step(c)) => MemWork(t, c) BY <2>5 DEF MemWork
  <2> QED BY <2>1, <2>3, <2>6, MemWorks
<1>7. CASE ResumeBody(t)
  <2>1. th[t].pc \in ConnPcs BY <1>7 DEF ResumeBody, Runs, ConnPcs
  <2>2. c \in Conns /\ x \in ConnRec BY <2>1, InHandOf
  <2>3. [x EXCEPT !.park = "none"].cap = x.cap /\ x.cap \in Sizes BY <2>2, Zenon DEF ConnRec
  <2>4. UNCHANGED memVars \/ TrimTo(t, c, x.cap) BY <1>7, <2>3 DEF ResumeBody, Has
  <2> QED BY <2>1, <2>3, <2>4, TrimWorks, MemWorks
<1>8. CASE ReadBody(t)
  <2>1. th[t].pc \in ConnPcs BY <1>8 DEF ReadBody, Runs, ConnPcs
  <2>2. c \in Conns /\ x \in ConnRec BY <2>1, InHandOf
  <2>3. x.cap \in Sizes /\ GrowTarget(c) \in Sizes BY <2>2, GrowBound DEF ConnRec
  <2>4. UNCHANGED memVars \/ TrimTo(t, c, x.cap) \/ TrimTo(t, c, GrowTarget(c)) BY <1>8 DEF ReadBody
  <2> QED BY <2>1, <2>3, <2>4, TrimWorks, MemWorks
<1> QED BY <1>1, <1>2, <1>3, <1>4, <1>5, <1>6, <1>7, <1>8 DEF ConnStep

\* What the reactor, the sweep and the destroyer do.
LEMMA OtherMem ==
  ASSUME SInv, TypeOK
  PROVE  /\ \A r \in Reactors : ReactorStep(r) \/ ListenerCalled(r) => UNCHANGED memVars
         /\ \A r \in Reactors, c \in Conns, n \in 1 .. MaxRegs : Dispatch(r, c, n) => UNCHANGED memVars
         /\ \A w : TakeTask(w) \/ RejectTask(w) => UNCHANGED memVars
         /\ Removals => UNCHANGED memVars
         /\ SweepStep => UNCHANGED memVars \/ MemNext
         /\ Destroy \/ DestroyStep => UNCHANGED memVars \/ MemNext
<1>1. ASSUME NEW r \in Reactors, ReactorStep(r) \/ ListenerCalled(r) PROVE UNCHANGED memVars
  BY <1>1 DEF ReactorStep, Claim, Returned, ListenerPins, Accept, ListenerUnpins, ListenerCalled
<1>2. ASSUME NEW r \in Reactors, NEW c \in Conns, NEW n \in 1 .. MaxRegs, Dispatch(r, c, n) PROVE UNCHANGED memVars
  BY <1>2 DEF Dispatch
<1>3. ASSUME NEW w, TakeTask(w) \/ RejectTask(w) PROVE UNCHANGED memVars BY <1>3 DEF TakeTask, RejectTask
<1>4. ASSUME Removals PROVE UNCHANGED memVars BY <1>4 DEF Removals, ListenerRemoved, OnRemoved
<1>5. ASSUME SweepStep PROVE UNCHANGED memVars \/ MemNext
  <2>1. CASE SweepBegins \/ SweepScan \/ SweepNext \/ SweepEnds
    BY <2>1 DEF SweepBegins, SweepScan, SweepNext, SweepEnds
  <2>2. CASE SweepWaits
    <3>1. PICK late \in SUBSET ToSet(mem_list) : ExpireWaiters("expired", late) BY <2>2 DEF SweepWaits
    <3>2. ToSet(mem_list) \subseteq Conns BY ToSetElems DEF TypeOK
    <3>3. late \in SUBSET Conns /\ "expired" \in Callers BY <3>1, <3>2, Roles
    <3> QED BY <3>1, <3>3 DEF MemNext
  <2> QED BY <1>5, <2>1, <2>2 DEF SweepStep
<1>6. ASSUME Destroy \/ DestroyStep PROVE UNCHANGED memVars \/ MemNext
  <2>1. CASE Destroy \/ Stop \/ Stopped \/ CloseIdle \/ CloseAll \/ CloseNext \/ ForceUnblock \/ Detach
    BY <2>1 DEF Destroy, Stop, Stopped, CloseIdle, CloseAll, CloseListed, CloseNext, ForceUnblock, Detach
  <2>2. CASE FlushEnds \/ Poll \/ PoolShuts \/ WorkersJoin \/ RejectersJoin \/ DestroyEnds
    BY <2>2 DEF FlushEnds, Poll, PoolShuts, WorkersJoin, RejectersJoin, DestroyEnds
  <2>3. CASE Drain BY <2>3 DEF Drain, MemNext
  <2>4. CASE Flush
    <3>1. FlushWaiters /\ th["destroyer"].pc = "flush" BY <2>4 DEF Flush, Runs
    <3>2. mem_admission_closed BY <3>1 DEF SInv, StageInv
    <3> QED BY <3>1, <3>2 DEF MemNext
  <2> QED BY <1>6, <2>1, <2>2, <2>3, <2>4 DEF DestroyStep
<1> QED BY <1>1, <1>2, <1>3, <1>4, <1>5, <1>6

LEMMA MemStep ==
  ASSUME SInv, IInv, [Next]_vars
  PROVE  [MemNext]_memVars
<1>1. TypeOK BY DEF IInv
<1>2. ASSUME NEW t \in Threads, ConnStep(t) PROVE MemNext \/ UNCHANGED memVars BY <1>1, <1>2, ConnMem
<1>3. ASSUME NEW t \in Callers, AdmitCall(t) PROVE MemNext BY <1>3 DEF AdmitCall, MemNext
<1>4. CASE AdmitLoop \/ MemDispatch BY <1>4 DEF AdmitLoop, MemDispatch, MemNext
<1>5. CASE Finished \/ UNCHANGED vars BY <1>5 DEF Finished, vars
<1> QED BY <1>1, <1>2, <1>3, <1>4, <1>5, OtherMem DEF Next

-----------------------------------------------------------------------------
(* A connection is in one place.                                           *)

\* The parts of Places.
InThreads(c) == {<<"thread", t>> : t \in {u \in Threads : th[u].c = c /\ th[u].pc # "claim"}}
At == [c \in Conns |-> [s \in SpotNames |->
  IF s = "list" THEN {<<"list", l>> : l \in {conn[c].list} \ {"none"}}
  ELSE IF s = "memory" THEN {<<"memory", i>> : i \in In(mem_list, c)}
  ELSE IF s = "batch" THEN {<<"batch", i>> : i \in In(batch, c)}
  ELSE IF s = "tasks" THEN {<<"task", i>> : i \in {k \in DOMAIN tasks : tasks[k][2] = c}}
  ELSE IF s = "rejects" THEN {<<"reject", i>> : i \in In(rejects, c)}
  ELSE IF s = "sweep" THEN {<<"sweep", late>> : late \in {l \in todo["sweep"] : l[1] = c}}
  ELSE {<<"destroyer", d>> : d \in todo["destroyer"] \cap {c}}]]

Alone(S, b) == (\A p, q \in S : p = q) /\ (b <=> S # {})

LEMMA PlaceParts ==
  ASSUME NEW c \in Conns
  PROVE  \A p : p \in Places(c) <=> p \in InThreads(c) \/ \E s \in SpotNames : p \in At[c][s]
<1>1. /\ At[c]["list"] = {<<"list", l>> : l \in {conn[c].list} \ {"none"}}
      /\ At[c]["memory"] = {<<"memory", i>> : i \in In(mem_list, c)}
      /\ At[c]["batch"] = {<<"batch", i>> : i \in In(batch, c)}
      /\ At[c]["tasks"] = {<<"task", i>> : i \in {k \in DOMAIN tasks : tasks[k][2] = c}}
      /\ At[c]["rejects"] = {<<"reject", i>> : i \in In(rejects, c)}
      /\ At[c]["sweep"] = {<<"sweep", late>> : late \in {l \in todo["sweep"] : l[1] = c}}
      /\ At[c]["destroyer"] = {<<"destroyer", d>> : d \in todo["destroyer"] \cap {c}}
  BY DEF At, SpotNames
<1>2. Places(c) = InThreads(c) \cup At[c]["list"] \cup At[c]["memory"] \cup At[c]["batch"] \cup At[c]["tasks"]
                    \cup At[c]["rejects"] \cup At[c]["sweep"] \cup At[c]["destroyer"]
  BY <1>1, Zenon DEF Places, InThreads
<1> QED BY <1>2 DEF SpotNames

LEMMA InOnce ==
  ASSUME NEW q \in Seq(Conns), Distinct(q), NEW c, NEW k
  PROVE  Alone({<<k, i>> : i \in In(q, c)}, c \in Elems(q))
<1>1. DOMAIN q = 1 .. Len(q) BY LenProperties
<1>2. \A i, j \in In(q, c) : i = j BY <1>1 DEF In, Distinct
<1>3. c \in Elems(q) <=> \E i : i \in In(q, c) BY <1>1 DEF In, Elems
<1> QED BY <1>2, <1>3 DEF Alone

LEMMA AtSpots ==
  ASSUME SInv, TypeOK, Distinct(mem_list), NEW c \in Conns, NEW s \in SpotNames
  PROVE  Alone(At[c][s], c \in Spots[s])
<1>1. SrvTypeOK /\ OnceInv BY DEF SInv
<1>2. mem_list \in Seq(Conns) /\ batch \in Seq(Conns) /\ rejects \in Seq(Conns) BY <1>1 DEF SrvTypeOK, TypeOK
<1>3. Distinct(batch) /\ Distinct(rejects) BY <1>1 DEF OnceInv
<1>4. CASE s = "list"
  <2>1. At[c][s] = {<<"list", l>> : l \in {conn[c].list} \ {"none"}} BY <1>4 DEF At
  <2>2. c \in Spots[s] <=> conn[c].list # "none" BY <1>4, SpotValues
  <2> QED BY <2>1, <2>2 DEF Alone
<1>5. CASE s = "memory"
  <2>1. At[c][s] = {<<"memory", i>> : i \in In(mem_list, c)} /\ Spots[s] = Elems(mem_list) BY <1>5, SpotValues DEF At
  <2> QED BY <1>2, <2>1, InOnce
<1>6. CASE s = "batch"
  <2>1. At[c][s] = {<<"batch", i>> : i \in In(batch, c)} /\ Spots[s] = Elems(batch) BY <1>6, SpotValues DEF At
  <2> QED BY <1>2, <1>3, <2>1, InOnce
<1>7. CASE s = "rejects"
  <2>1. At[c][s] = {<<"reject", i>> : i \in In(rejects, c)} /\ Spots[s] = Elems(rejects) BY <1>7, SpotValues DEF At
  <2> QED BY <1>2, <1>3, <2>1, InOnce
<1>8. CASE s = "tasks"
  <2> DEFINE K == {k \in DOMAIN tasks : tasks[k][2] = c}
  <2>1. At[c][s] = {<<"task", i>> : i \in K} /\ Spots[s] = TaskConns BY <1>8, SpotValues DEF At
  <2>2. DOMAIN tasks = 1 .. Len(tasks) BY <1>1, LenProperties DEF SrvTypeOK
  <2>3. \A i, j \in K : i = j BY <1>1, <2>2 DEF OnceInv
  <2>4. c \in TaskConns <=> \E i : i \in K BY <2>2 DEF TaskConns
  <2> HIDE DEF K
  <2> QED BY <2>1, <2>3, <2>4 DEF Alone
<1>9. CASE s = "sweep"
  <2> DEFINE K == {l \in todo["sweep"] : l[1] = c}
  <2>1. At[c][s] = {<<"sweep", late>> : late \in K} /\ Spots[s] = SweepConns BY <1>9, SpotValues DEF At
  <2>2. \A k, l \in K : k = l BY <1>1 DEF OnceInv
  <2>3. c \in SweepConns <=> \E l : l \in K BY DEF SweepConns
  <2> HIDE DEF K
  <2> QED BY <2>1, <2>2, <2>3 DEF Alone
<1>10. CASE s = "destroyer"
  <2>1. At[c][s] = {<<"destroyer", d>> : d \in todo["destroyer"] \cap {c}} /\ Spots[s] = todo["destroyer"]
    BY <1>10, SpotValues DEF At
  <2> QED BY <2>1 DEF Alone
<1> QED BY <1>4, <1>5, <1>6, <1>7, <1>8, <1>9, <1>10 DEF SpotNames

\* Who has a connection that is not in its hands is about to claim it.
LEMMA HandOrClaim ==
  ASSUME SInv, NEW c \in Conns, NEW t \in Threads
  PROVE  /\ th[t].c = c /\ th[t].pc # "claim" <=> c \in InHand[t]
         /\ th[t].pc = "claim" => t \in Reactors
<1>1. PcInv BY DEF SInv
<1>2. c # Null BY Roles
<1> QED BY <1>1, <1>2, PcSets DEF PcInv, InHand

LEMMA OnePlace ==
  ASSUME SInv, TypeOK, Distinct(mem_list), NEW c \in Conns
  PROVE  Cardinality(Places(c)) = IF conn[c].life = "open" THEN 1 ELSE 0
<1>1. Apart(InHand, Spots, Open) /\ (c \in Open <=> conn[c].life = "open") BY DEF SInv, HoldInv, Open
<1>2. \A s \in SpotNames : Alone(At[c][s], c \in Spots[s]) BY AtSpots
<1>3. \A p : p \in InThreads(c) <=> \E t \in Threads : c \in InHand[t] /\ p = <<"thread", t>>
  BY HandOrClaim DEF InThreads
<1>4. \A p : p \in Places(c) <=> p \in InThreads(c) \/ \E s \in SpotNames : p \in At[c][s] BY PlaceParts
<1>5. \A p, q \in Places(c) : p = q
  <2> SUFFICES ASSUME NEW p \in Places(c), NEW q \in Places(c) PROVE p = q OBVIOUS
  <2>1. CASE p \in InThreads(c) /\ q \in InThreads(c) BY <1>1, <1>3, <2>1 DEF Apart
  <2>2. ASSUME NEW s \in SpotNames, p \in At[c][s], q \in InThreads(c) PROVE FALSE
    BY <1>1, <1>2, <1>3, <2>2 DEF Apart, Alone
  <2>3. ASSUME NEW s \in SpotNames, q \in At[c][s], p \in InThreads(c) PROVE FALSE
    BY <1>1, <1>2, <1>3, <2>3 DEF Apart, Alone
  <2>4. ASSUME NEW r \in SpotNames, NEW s \in SpotNames, p \in At[c][r], q \in At[c][s] PROVE p = q
    <3>1. c \in Spots[r] /\ c \in Spots[s] BY <1>2, <2>4 DEF Alone
    <3>2. r = s BY <1>1, <3>1 DEF Apart
    <3> QED BY <1>2, <2>4, <3>2 DEF Alone
  <2> QED BY <1>4, <2>1, <2>2, <2>3, <2>4
<1>6. c \in Open <=> \E p : p \in Places(c)
  <2>1. (\E t \in Threads : c \in InHand[t]) <=> \E p : p \in InThreads(c) BY <1>3
  <2>2. \A s \in SpotNames : c \in Spots[s] <=> \E p : p \in At[c][s] BY <1>2 DEF Alone
  <2> QED BY <1>1, <1>4, <2>1, <2>2 DEF Apart
<1>7. CASE c \in Open
  <2>1. PICK p : p \in Places(c) BY <1>6, <1>7
  <2>2. Places(c) = {p} BY <1>5, <2>1
  <2> QED BY <1>1, <1>7, <2>2, FS_Singleton
<1>8. CASE c \notin Open
  <2>1. Places(c) = {} BY <1>6, <1>8
  <2> QED BY <1>1, <1>8, <2>1, FS_EmptySet
<1> QED BY <1>7, <1>8

LEMMA FreedUnused ==
  ASSUME SInv, NEW c \in Conns, conn[c].life = "freed", NEW t \in Threads
  PROVE  th[t].c # c
<1> SUFFICES ASSUME th[t].c = c PROVE FALSE OBVIOUS
<1>1. c \notin InHand[t] BY DEF SInv, HoldInv, Apart, Open
<1>2. th[t].pc = "claim" /\ t \in Reactors BY <1>1, HandOrClaim
<1>3. th[t].ev \in AllLive /\ th[t].ev[1] = c BY <1>2 DEF SInv, EvInv
<1>4. th[t].ev[2] \in LiveAt(c) BY <1>3 DEF AllLive, LiveAt
<1>5. conn[c].refs = Cardinality(LiveAt(c)) + 0 /\ conn[c].refs = 0 BY DEF SInv, RefInv
<1>6. Cardinality(LiveAt(c)) # 0 BY <1>4, LiveFinite, FS_EmptySet
<1> QED BY <1>5, <1>6, LiveFinite

LEMMA HoldersAre ==
  ASSUME SInv, IInv
  PROVE  OneHolder
<1>1. TypeOK /\ Distinct(mem_list) BY DEF IInv
<1> QED BY <1>1, OnePlace, FreedUnused DEF OneHolder

-----------------------------------------------------------------------------
(* The first state.                                                        *)

\* A connection that waits for its first request.
LEMMA FirstConn ==
  ASSUME NEW n \in Nat
  PROVE  LET x == [NoConn EXCEPT !.life = "open", !.refs = 2, !.reg = 1, !.list = "idle", !.reqs = n]
         IN  x \in ConnRec /\ x.life = "open" /\ x.refs = 2 /\ x.reg = 1 /\ x.list = "idle"
<1>1. n \in Int OBVIOUS
<1>2. 1 \in RegNos /\ 0 \in RegNos /\ 0 \in Sizes /\ 0 \in Int /\ 2 \in Int BY Bounds
<1> QED BY <1>1, <1>2, Zenon DEF NoConn, ConnRec, Parks

LEMMA NoConnIs ==
  NoConn \in ConnRec /\ NoConn.life = "none" /\ NoConn.refs = 0 /\ NoConn.reg = 0 /\ NoConn.list = "none"
BY Bounds DEF NoConn, ConnRec, Parks

LEMMA RestingIs ==
  /\ Resting \in ThRec /\ Resting.pc = "rest" /\ Resting.c = Null /\ Resting.then = "none" /\ Resting.home = "rest"
BY PcSets DEF Resting, ThRec, Thens, Parks

LEMMA SInvInit == Init => SInv
<1> SUFFICES ASSUME Init PROVE SInv OBVIOUS
<1> DEFINE I == scenario.idle
           m == scenario.reqs
           x == [NoConn EXCEPT !.life = "open", !.refs = 2, !.reg = 1, !.list = "idle", !.reqs = m]
<1>1. scenario \in Scenarios /\ I \subseteq Conns /\ m \in Nat BY HttpServerAssumption DEF Init
<1>2. x \in ConnRec /\ x.life = "open" /\ x.refs = 2 /\ x.reg = 1 /\ x.list = "idle" BY <1>1, FirstConn
<1>3. conn = [c \in Conns |-> IF c \in I THEN x ELSE NoConn] BY DEF Init
<1> HIDE DEF I, m, x
<1>4. /\ conn \in [Conns -> ConnRec]
      /\ \A c \in Conns : IF c \in I THEN conn[c] = x ELSE conn[c] = NoConn
  BY <1>2, <1>3, NoConnIs
<1>5. /\ regs = [c \in Conns |-> [n \in 1 .. MaxRegs |-> IF n = conn[c].reg THEN "on" ELSE "none"]]
  BY DEF Init
<1>6. /\ regs \in [Conns -> [1 .. MaxRegs -> RegStates]]
      /\ \A c \in Conns, n \in 1 .. MaxRegs : regs[c][n] = IF n = conn[c].reg THEN "on" ELSE "none"
  BY <1>5 DEF RegStates
<1>7. 1 \in 1 .. MaxRegs /\ 0 \notin 1 .. MaxRegs BY Bounds
<1>8. \A c \in Conns, n \in 1 .. MaxRegs : regs[c][n] \in Live <=> c \in I /\ n = 1
  BY <1>2, <1>4, <1>6, <1>7, NoConnIs DEF Live
<1>9. IsFiniteSet(I) /\ Cardinality(I) \in Nat BY <1>1, BodyMemoryAssumption, FS_Subset, FS_CardinalityType
<1>10. Cardinality(AllLive) = Cardinality(I)
  <2>1. \A p : p \in AllLive <=> p \in I \X {1}
    <3>1. ASSUME NEW p \in AllLive PROVE p \in I \X {1}
      <4>1. p \in Conns \X (1 .. MaxRegs) /\ regs[p[1]][p[2]] \in Live BY <3>1 DEF AllLive
      <4>2. p = <<p[1], p[2]>> /\ p[1] \in Conns /\ p[2] \in 1 .. MaxRegs BY <4>1
      <4>3. p[1] \in I /\ p[2] = 1 BY <1>8, <4>1, <4>2
      <4> QED BY <4>2, <4>3
    <3>2. ASSUME NEW p \in I \X {1} PROVE p \in AllLive
      <4>1. p = <<p[1], p[2]>> /\ p[1] \in I /\ p[2] = 1 BY <3>2
      <4>2. regs[p[1]][p[2]] \in Live BY <1>1, <1>7, <1>8, <4>1
      <4>3. p \in Conns \X (1 .. MaxRegs) BY <1>1, <1>7, <3>2
      <4> QED BY <4>2, <4>3 DEF AllLive
    <3> QED BY <3>1, <3>2
  <2>2. AllLive = I \X {1} BY <2>1
  <2>3. IsFiniteSet({1}) /\ Cardinality({1}) = 1 BY FS_Singleton
  <2>4. Cardinality(I \X {1}) = Cardinality(I) * Cardinality({1}) BY <1>9, <2>3, FS_Product
  <2> QED BY <1>9, <2>2, <2>3, <2>4
<1>11. \A c \in Conns : Cardinality(LiveAt(c)) = IF c \in I THEN 1 ELSE 0
  <2> SUFFICES ASSUME NEW c \in Conns PROVE Cardinality(LiveAt(c)) = IF c \in I THEN 1 ELSE 0 OBVIOUS
  <2>1. CASE c \in I
    <3>1. LiveAt(c) = {1} BY <1>7, <1>8, <2>1 DEF LiveAt
    <3> QED BY <2>1, <3>1, FS_Singleton
  <2>2. CASE c \notin I
    <3>1. LiveAt(c) = {} BY <1>8, <2>2 DEF LiveAt
    <3> QED BY <2>2, <3>1, FS_EmptySet
  <2> QED BY <2>1, <2>2
<1>12. /\ srv.life = "up" /\ srv.refs = 2 + Cardinality(I) /\ srv.lreg = "on" /\ srv.spins = 0
       /\ srv \in SrvRec
  <2> DEFINE k == 2 + Cardinality(I)
  <2>1. k \in Int /\ 0 \in Int BY <1>9
  <2>2. srv = [life |-> "up", refs |-> k, listening |-> TRUE, lreg |-> "on", lpins |-> 0, spins |-> 0,
               swept |-> TRUE, in_flight |-> 0, draining |-> FALSE, mutex |-> FALSE,
               worker_pool |-> "up", reject_pool |-> "up"]
    BY DEF Init, I
  <2> HIDE DEF k
  <2>3. srv.life = "up" /\ srv.refs = k /\ srv.lreg = "on" /\ srv.spins = 0 /\ srv \in SrvRec BY <2>1, <2>2 DEF SrvRec
  <2> QED BY <2>3 DEF k
<1>13. /\ th \in [Threads -> ThRec]
       /\ \A t \in Threads : th[t].pc = "rest" /\ th[t].c = Null /\ th[t].then = "none"
  BY RestingIs DEF Init
<1>14. /\ tasks = <<>> /\ rejects = <<>> /\ todo \in [{"sweep", "destroyer"} -> {{}}]
       /\ todo["sweep"] = {} /\ todo["destroyer"] = {}
       /\ mem_list = <<>> /\ batch = <<>> /\ calls = {} /\ mem_admitting = Null /\ ~locked
  BY DEF Init, MemInit
<1>15. SrvTypeOK
  <2>1. todo \in [{"sweep", "destroyer"} -> (SUBSET Conns) \cup SUBSET (Conns \X Kinds)] BY <1>14
  <2>2. tasks \in Seq({"worker", "resume"} \X Conns) /\ rejects \in Seq(Conns) BY <1>14
  <2> QED BY <1>1, <1>4, <1>6, <1>12, <1>13, <1>14, <2>1, <2>2 DEF SrvTypeOK
<1>16. "sweep" \in Threads /\ "destroyer" \in Threads /\ "admitter" \in Threads /\ Reactors \subseteq Threads
       /\ Workers \subseteq Threads /\ Rejecters \subseteq Threads /\ \A t \in Threads : t # Null
  BY Roles
<1>17. PcInv BY <1>13, PcSets DEF PcInv, ThenOK
<1>18. HoldInv
  <2>1. \A t \in Threads : InHand[t] = {} BY <1>13 DEF InHand, ConnPcs
  <2>2. \A c : c \in Spots["list"] <=> c \in I BY <1>1, <1>2, <1>4, SpotValues, NoConnIs
  <2>3. \A s \in SpotNames : s # "list" => Spots[s] = {}
    <3>1. Elems(mem_list) = {} /\ Elems(batch) = {} /\ Elems(rejects) = {} /\ TaskConns = {} BY <1>14 DEF Elems, TaskConns
    <3>2. SweepConns = {} BY <1>14 DEF SweepConns
    <3> QED BY <1>14, <3>1, <3>2, SpotValues DEF SpotNames
  <2>4. \A c : c \in Open <=> c \in I BY <1>1, <1>2, <1>4, NoConnIs DEF Open
  <2>5. "list" \in SpotNames BY DEF SpotNames
  <2> QED BY <2>1, <2>2, <2>3, <2>4, <2>5 DEF HoldInv, Apart
<1>19. OnceInv BY <1>14 DEF OnceInv, Distinct
<1>20. RefInv
  <2> SUFFICES ASSUME NEW c \in Conns
               PROVE  /\ conn[c].refs = Cardinality(LiveAt(c)) + (IF conn[c].life = "open" THEN 1 ELSE 0)
                      /\ conn[c].life \in {"none", "freed"} => conn[c].refs = 0
                      /\ conn[c].reg > 0 => regs[c][conn[c].reg] \in {"on", "paused"}
    BY DEF RefInv
  <2>1. CASE c \in I BY <1>2, <1>4, <1>6, <1>7, <1>11, <2>1
  <2>2. CASE c \notin I BY <1>4, <1>11, <2>2, NoConnIs
  <2> QED BY <2>1, <2>2
<1>21. SrvRefInv BY <1>9, <1>10, <1>12, <1>13, <1>16 DEF SrvRefInv
<1>22. EvInv BY <1>13, <1>16 DEF EvInv
<1>23. NeedInv BY <1>13 DEF NeedInv
<1>24. StageInv BY <1>12, <1>13, <1>14, <1>16 DEF StageInv
<1>25. RestInv /\ AdmitterInv
  <2>1. "expired" # Null /\ \A t \in Threads : t \notin calls /\ mem_admitting # t BY <1>14, <1>16, Roles
  <2> QED BY <1>13, <1>14, <1>16, <2>1 DEF RestInv, AdmitterInv, AdmitterPcs
<1> QED BY <1>15, <1>17, <1>18, <1>19, <1>20, <1>21, <1>22, <1>23, <1>24, <1>25 DEF SInv

-----------------------------------------------------------------------------
\* The server's invariant and that of the body memory hold together: the
\* server's steps are steps of the body memory because of the first, and keep
\* the first because of the second.
LEMMA SrvAlways == Spec => [](SInv /\ IInv)
<1>1. Init => SInv /\ IInv BY SInvInit, InvInit DEF Init
<1>2. (SInv /\ IInv) /\ [Next]_vars => (SInv /\ IInv)' BY SInvNext, MemStep, InvNext
<1> QED BY <1>1, <1>2, PTL DEF Spec

\* However reactors, pool threads, the sweep, the admission loop and the
\* destroyer interleave, and whatever fails, a connection of chttpserver.c that
\* is open has exactly one holder, one that is closed has none, and it is not
\* freed while a callback is yet to look at it.
THEOREM ServerOneHolder == Spec => []OneHolder
<1>1. SInv /\ IInv => OneHolder BY HoldersAre
<1> QED BY <1>1, SrvAlways, PTL

\* The last reference to the server goes only when no callback, task, sweep or
\* call of _mem_admit can touch it any more and every registration has had its
\* on_removed: _chttpsvr_finish_destroy never frees it under anybody.
THEOREM ServerOutlivesUsers == Spec => []ServerLives
<1>1. SInv /\ IInv => ServerLives BY Lives DEF IInv
<1> QED BY <1>1, SrvAlways, PTL

\* The server keeps to the protocol of the body memory: only the holder of a
\* connection reserves, trims or releases for it, never while it waits, nobody
\* exempt waits, and the list is flushed after admission has been closed.
THEOREM ServerImplementsBodyMemory == Spec => ImplementsBodyMemory
<1>1. Init => MemInit BY DEF Init
<1>2. (SInv /\ IInv) /\ [Next]_vars => [MemNext]_memVars BY MemStep
<1> QED BY <1>1, <1>2, SrvAlways, PTL DEF Spec, ImplementsBodyMemory, MemSpec

\* So the limit on request bodies holds for the whole server: its counters are
\* what its connections hold, and only one that went ahead exceeds it.
THEOREM ServerMemoryBounded == Spec => []MemoryBounded
<1>1. SInv /\ IInv => MemoryBounded BY InvImplies
<1> QED BY <1>1, SrvAlways, PTL

\* And no connection of the server that could be admitted is left waiting once
\* everyone who freed memory has called _mem_admit.
THEOREM ServerAdmitsAll == Spec => []NoLostAdmission
<1>1. SInv /\ IInv => NoLostAdmission BY DEF IInv
<1> QED BY <1>1, SrvAlways, PTL
=============================================================================
