--------------------------- MODULE SequenceLemmas ---------------------------
(***************************************************************************)
(* Lemmas the proofs of several components rest on: sequences without      *)
(* duplicates, which model the queues and lists of the library, and        *)
(* induction over a set of naturals.                                       *)
(***************************************************************************)
EXTENDS Integers, SequencesExt, FiniteSetTheorems, SequenceTheorems, TLAPS

LEMMA NatSetInduction ==
  ASSUME NEW T \in SUBSET Nat, 0 \in T, \A n \in T : n + 1 \in T
  PROVE  T = Nat
<1> DEFINE R == {p \in Nat \X Nat : p[1] < p[2]}
<1>1. IsWellFoundedOn(R, Nat)
  BY NatLessThanWellFounded DEF OpToRel
<1>2. SUFFICES ASSUME Nat \ T # {} PROVE FALSE
  OBVIOUS
<1>3. PICK n \in Nat \ T : \A m \in Nat \ T : <<m, n>> \notin R
  BY <1>1, <1>2, WFMin
<1>4. n # 0 /\ n - 1 \in Nat /\ n - 1 < n
  OBVIOUS
<1>5. <<n - 1, n>> \in R BY <1>4
<1>6. n - 1 \in T BY <1>3, <1>4, <1>5
<1>7. (n - 1) + 1 \in T BY <1>6
<1> QED BY <1>7

\* What a sequence holds, and that it holds nothing twice.
Elems(s) == {s[i] : i \in 1 .. Len(s)}
Distinct(s) == \A i, j \in 1 .. Len(s) : s[i] = s[j] => i = j

LEMMA AppendElems ==
  ASSUME NEW S, NEW s \in Seq(S), NEW x \in S
  PROVE  /\ Append(s, x) \in Seq(S) /\ Append(s, x) # <<>>
         /\ Elems(Append(s, x)) = Elems(s) \cup {x}
         /\ Distinct(s) /\ x \notin Elems(s) => Distinct(Append(s, x))
<1>1. /\ Append(s, x) \in Seq(S) /\ Append(s, x) # <<>>
      /\ Len(Append(s, x)) = Len(s) + 1 /\ Len(s) \in Nat
      /\ \A i \in 1 .. Len(s) : Append(s, x)[i] = s[i]
      /\ Append(s, x)[Len(s) + 1] = x
  BY AppendProperties, LenProperties
<1>2. Elems(Append(s, x)) = Elems(s) \cup {x}
  <2>1. ASSUME NEW i \in 1 .. Len(s) + 1 PROVE Append(s, x)[i] \in Elems(s) \cup {x}
    <3>1. CASE i = Len(s) + 1 BY <1>1, <3>1
    <3>2. CASE i \in 1 .. Len(s) BY <1>1, <3>2 DEF Elems
    <3> QED BY <1>1, <3>1, <3>2
  <2>2. ASSUME NEW y \in Elems(s) \cup {x} PROVE \E i \in 1 .. Len(s) + 1 : Append(s, x)[i] = y
    <3>1. CASE y = x BY <1>1, <3>1
    <3>2. CASE y \in Elems(s)
      <4>1. PICK i \in 1 .. Len(s) : s[i] = y BY <3>2 DEF Elems
      <4>2. i \in 1 .. Len(s) + 1 /\ Append(s, x)[i] = y BY <1>1, <4>1
      <4> QED BY <4>2
    <3> QED BY <3>1, <3>2
  <2> QED BY <1>1, <2>1, <2>2 DEF Elems
<1>3. ASSUME Distinct(s), x \notin Elems(s) PROVE Distinct(Append(s, x))
  <2>1. SUFFICES ASSUME NEW i \in 1 .. Len(s) + 1, NEW j \in 1 .. Len(s) + 1,
                        Append(s, x)[i] = Append(s, x)[j]
                 PROVE  i = j
    BY <1>1 DEF Distinct
  <2>2. \A k \in 1 .. Len(s) : s[k] # x BY <1>3 DEF Elems
  <2>3. CASE i \in 1 .. Len(s) /\ j \in 1 .. Len(s) BY <1>1, <1>3, <2>1, <2>3 DEF Distinct
  <2>4. CASE i = Len(s) + 1 /\ j \in 1 .. Len(s) BY <1>1, <2>1, <2>2, <2>4
  <2>5. CASE j = Len(s) + 1 /\ i \in 1 .. Len(s) BY <1>1, <2>1, <2>2, <2>5
  <2> QED BY <1>1, <2>3, <2>4, <2>5
<1> QED BY <1>1, <1>2, <1>3

LEMMA TailElems ==
  ASSUME NEW S, NEW s \in Seq(S), s # <<>>, Distinct(s)
  PROVE  /\ Head(s) \in S /\ Head(s) \in Elems(s)
         /\ Tail(s) \in Seq(S) /\ Distinct(Tail(s)) /\ Elems(Tail(s)) = Elems(s) \ {Head(s)}
<1>1. /\ Len(s) \in Nat /\ Len(s) # 0 /\ \A i \in 1 .. Len(s) : s[i] \in S
      /\ Head(s) = s[1] /\ Tail(s) \in Seq(S) /\ Len(Tail(s)) = Len(s) - 1
      /\ \A i \in 1 .. Len(Tail(s)) : Tail(s)[i] = s[i + 1]
  BY HeadTailProperties, LenProperties, ElementOfSeq, EmptySeq
<1>2. \A i \in 1 .. Len(s) - 1 : i + 1 \in 1 .. Len(s) /\ i + 1 # 1 BY <1>1
<1>3. Distinct(Tail(s))
  <2>1. SUFFICES ASSUME NEW i \in 1 .. Len(s) - 1, NEW j \in 1 .. Len(s) - 1, s[i + 1] = s[j + 1]
                 PROVE  i = j
    BY <1>1 DEF Distinct
  <2>2. i + 1 = j + 1 BY <1>2, <2>1 DEF Distinct
  <2> QED BY <2>2
<1>4. Elems(Tail(s)) = Elems(s) \ {s[1]}
  <2>1. ASSUME NEW x \in Elems(Tail(s)) PROVE x \in Elems(s) \ {s[1]}
    <3>1. PICK i \in 1 .. Len(s) - 1 : x = s[i + 1] BY <1>1 DEF Elems
    <3>2. i + 1 \in 1 .. Len(s) /\ 1 \in 1 .. Len(s) /\ i + 1 # 1 BY <1>1, <1>2
    <3>3. s[i + 1] # s[1] BY <3>2 DEF Distinct
    <3> QED BY <3>1, <3>2, <3>3 DEF Elems
  <2>2. ASSUME NEW x \in Elems(s) \ {s[1]} PROVE x \in Elems(Tail(s))
    <3>1. PICK i \in 1 .. Len(s) : x = s[i] /\ i # 1 BY DEF Elems
    <3>2. i - 1 \in 1 .. Len(s) - 1 /\ (i - 1) + 1 = i BY <1>1, <3>1
    <3>3. Tail(s)[i - 1] = x BY <1>1, <3>1, <3>2
    <3> QED BY <1>1, <3>2, <3>3 DEF Elems
  <2> QED BY <2>1, <2>2
<1>5. s[1] \in S /\ s[1] \in Elems(s) BY <1>1 DEF Elems
<1> QED BY <1>1, <1>3, <1>4, <1>5

LEMMA DistinctCard ==
  ASSUME NEW S, NEW s \in Seq(S), Distinct(s)
  PROVE  IsFiniteSet(Elems(s)) /\ Cardinality(Elems(s)) = Len(s)
<1>1. Len(s) \in Nat /\ s \in [1 .. Len(s) -> Elems(s)] BY LenProperties DEF Elems
<1>2. \A x \in Elems(s) : \E i \in 1 .. Len(s) : s[i] = x BY DEF Elems
<1>3. s \in Bijection(1 .. Len(s), Elems(s))
  <2>1. \A i, j \in 1 .. Len(s) : s[i] = s[j] => i = j BY DEF Distinct
  <2> QED BY <1>1, <1>2, <2>1 DEF Bijection, Injection, IsInjective, Surjection
<1>4. ExistsBijection(1 .. Len(s), Elems(s)) BY <1>3 DEF ExistsBijection
<1>5. IsFiniteSet(1 .. Len(s)) BY <1>1, FS_Interval
<1> QED BY <1>1, <1>4, <1>5, FS_CountingElements, FS_Bijection

LEMMA FrontElems ==
  ASSUME NEW S, NEW s \in Seq(S), s # <<>>, Distinct(s)
  PROVE  /\ Last(s) \in S /\ Last(s) \in Elems(s)
         /\ Front(s) \in Seq(S) /\ Len(Front(s)) = Len(s) - 1 /\ Distinct(Front(s))
         /\ Elems(Front(s)) = Elems(s) \ {Last(s)}
<1>1. Len(s) \in Nat /\ Len(s) # 0 /\ \A i \in 1 .. Len(s) : s[i] \in S
  BY LenProperties, ElementOfSeq, EmptySeq
<1>2. /\ Front(s) \in Seq(S) /\ Len(Front(s)) = Len(s) - 1
      /\ \A i \in 1 .. Len(s) - 1 : Front(s)[i] = s[i]
  <2> DEFINE n == Len(s) - 1
  <2>1. n \in Nat /\ n <= Len(s) BY <1>1
  <2> HIDE DEF n
  <2>2. SubSeq(s, 1, n) \in Seq(S) /\ Len(SubSeq(s, 1, n)) = n /\ \A i \in 1 .. n : SubSeq(s, 1, n)[i] = s[i]
    BY <1>1, <2>1
  <2> QED BY <2>2 DEF Front, n
<1>3. Last(s) = s[Len(s)] /\ Len(s) \in 1 .. Len(s) BY <1>1 DEF Last
<1>4. Distinct(Front(s)) BY <1>1, <1>2 DEF Distinct
<1>5. ASSUME NEW x \in Elems(Front(s)) PROVE x \in Elems(s) \ {Last(s)}
  <2>1. PICK i \in 1 .. Len(s) - 1 : x = s[i] BY <1>2 DEF Elems
  <2>2. i \in 1 .. Len(s) /\ i # Len(s) BY <1>1
  <2> QED BY <1>3, <2>1, <2>2 DEF Elems, Distinct
<1>6. ASSUME NEW x \in Elems(s) \ {Last(s)} PROVE x \in Elems(Front(s))
  <2>1. PICK i \in 1 .. Len(s) : x = s[i] BY DEF Elems
  <2>2. i \in 1 .. Len(s) - 1 BY <1>1, <1>3, <2>1
  <2> QED BY <1>2, <2>1, <2>2 DEF Elems
<1> QED BY <1>1, <1>2, <1>3, <1>4, <1>5, <1>6 DEF Elems

LEMMA PushElems ==
  ASSUME NEW S, NEW s \in Seq(S), NEW x \in S
  PROVE  /\ <<x>> \o s \in Seq(S) /\ Len(<<x>> \o s) = Len(s) + 1
         /\ Elems(<<x>> \o s) = Elems(s) \cup {x}
         /\ Distinct(s) /\ x \notin Elems(s) => Distinct(<<x>> \o s)
<1> DEFINE q == <<x>> \o s
<1>1. /\ Len(s) \in Nat /\ q \in Seq(S) /\ Len(q) = Len(s) + 1 /\ q[1] = x
      /\ \A i \in 2 .. Len(s) + 1 : q[i] = s[i - 1]
  BY LenProperties
<1> HIDE DEF q
<1>2. ASSUME NEW y \in Elems(q) PROVE y \in Elems(s) \cup {x}
  <2>1. PICK i \in 1 .. Len(s) + 1 : y = q[i] BY <1>1 DEF Elems
  <2>2. CASE i # 1
    <3>1. i \in 2 .. Len(s) + 1 /\ i - 1 \in 1 .. Len(s) BY <1>1, <2>2
    <3> QED BY <1>1, <2>1, <3>1 DEF Elems
  <2> QED BY <1>1, <2>1, <2>2
<1>3. ASSUME NEW y \in Elems(s) \cup {x} PROVE y \in Elems(q)
  <2>1. CASE y = x BY <1>1, <2>1 DEF Elems
  <2>2. CASE y \in Elems(s)
    <3>1. PICK i \in 1 .. Len(s) : y = s[i] BY <2>2 DEF Elems
    <3>2. i + 1 \in 2 .. Len(s) + 1 /\ (i + 1) - 1 = i /\ i + 1 \in 1 .. Len(q) BY <1>1
    <3>3. q[i + 1] = y BY <1>1, <3>1, <3>2
    <3> QED BY <3>2, <3>3 DEF Elems
  <2> QED BY <2>1, <2>2
<1>4. ASSUME Distinct(s), x \notin Elems(s) PROVE Distinct(q)
  <2>1. \A i \in 2 .. Len(s) + 1 : i - 1 \in 1 .. Len(s) BY <1>1
  <2>2. \A i \in 2 .. Len(s) + 1 : q[i] # x BY <1>1, <1>4, <2>1 DEF Elems
  <2>3. \A i, j \in 2 .. Len(s) + 1 : q[i] = q[j] => i = j
    <3>1. SUFFICES ASSUME NEW i \in 2 .. Len(s) + 1, NEW j \in 2 .. Len(s) + 1, q[i] = q[j] PROVE i = j
      OBVIOUS
    <3>2. i - 1 = j - 1 BY <1>1, <1>4, <2>1, <3>1 DEF Distinct
    <3> QED BY <3>2
  <2>4. \A i \in 1 .. Len(q) : i = 1 \/ i \in 2 .. Len(s) + 1 BY <1>1
  <2> QED BY <1>1, <2>2, <2>3, <2>4 DEF Distinct
<1>5. Elems(q) = Elems(s) \cup {x} BY <1>2, <1>3
<1> QED BY <1>1, <1>4, <1>5 DEF q

LEMMA RemoveFirstElems ==
  ASSUME NEW S, NEW s \in Seq(S), NEW x \in Elems(s), Distinct(s)
  PROVE  /\ RemoveFirst(s, x) \in Seq(S) /\ Len(RemoveFirst(s, x)) = Len(s) - 1
         /\ Distinct(RemoveFirst(s, x)) /\ Elems(RemoveFirst(s, x)) = Elems(s) \ {x}
<1>1. PICK p \in 1 .. Len(s) : s[p] = x BY DEF Elems
<1> DEFINE I == {i \in 1 .. Len(s) : s[i] = x}
           q == SubSeq(s, 1, p - 1) \o SubSeq(s, p + 1, Len(s))
<1>2. Len(s) \in Nat /\ p \in Nat /\ 1 <= p /\ p <= Len(s) BY LenProperties, <1>1
<1>3. I = {p} BY <1>1 DEF Distinct
<1>4. Min(I) = p BY <1>2, <1>3 DEF Min
<1>5. RemoveFirst(s, x) = q
  <2>1. SelectInSeq(s, LAMBDA v : v = x) = p BY <1>3, <1>4 DEF SelectInSeq
  <2> QED BY <1>1, <2>1 DEF RemoveFirst, RemoveAt
<1>6. /\ q \in Seq(S) /\ Len(q) = Len(s) - 1
      /\ \A i \in 1 .. p - 1 : q[i] = s[i]
      /\ \A i \in p .. Len(s) - 1 : q[i] = s[i + 1]
  <2> DEFINE a == SubSeq(s, 1, p - 1) 
             b == SubSeq(s, p + 1, Len(s))
  <2>1. a \in Seq(S) /\ Len(a) = p - 1 /\ \A i \in 1 .. p - 1 : a[i] = s[i] BY <1>2
  <2>2. b \in Seq(S) /\ Len(b) = Len(s) - p /\ \A i \in 1 .. Len(s) - p : b[i] = s[p + i] BY <1>2
  <2> HIDE DEF a, b
  <2>3. /\ a \o b \in Seq(S) /\ Len(a \o b) = Len(s) - 1
        /\ \A i \in 1 .. Len(s) - 1 : (a \o b)[i] = IF i <= Len(a) THEN a[i] ELSE b[i - Len(a)]
    <3>1. Len(a) + Len(b) = Len(s) - 1 BY <1>2, <2>1, <2>2
    <3>2. a \in Seq(S) /\ b \in Seq(S) BY <2>1, <2>2
    <3>3. /\ a \o b \in Seq(S) /\ Len(a \o b) = Len(a) + Len(b)
          /\ \A i \in 1 .. Len(a) + Len(b) : (a \o b)[i] = IF i <= Len(a) THEN a[i] ELSE b[i - Len(a)]
      BY <3>2, ConcatProperties, Zenon
    <3> QED BY <3>1, <3>3, Zenon
  <2>4. ASSUME NEW i \in 1 .. p - 1 PROVE (a \o b)[i] = s[i] BY <1>2, <2>1, <2>3
  <2>5. ASSUME NEW i \in p .. Len(s) - 1 PROVE (a \o b)[i] = s[i + 1]
    <3>1. i - (p - 1) \in 1 .. Len(s) - p /\ p + (i - (p - 1)) = i + 1 /\ i \in 1 .. Len(s) - 1 /\ ~(i <= p - 1) BY <1>2
    <3> QED BY <2>1, <2>2, <2>3, <3>1
  <2> QED BY <2>3, <2>4, <2>5 DEF a, b
<1> HIDE DEF I, q
<1>7. \A i \in 1 .. Len(s) - 1 : \E j \in 1 .. Len(s) : j # p /\ q[i] = s[j] /\ ((j = i /\ i < p) \/ (j = i + 1 /\ i >= p))
  <2> TAKE i \in 1 .. Len(s) - 1
  <2>1. CASE i < p BY <1>2, <1>6, <2>1
  <2>2. CASE i >= p
    <3>1. i + 1 \in 1 .. Len(s) /\ i + 1 # p /\ i \in p .. Len(s) - 1 BY <1>2, <2>2
    <3> QED BY <1>6, <2>2, <3>1
  <2> QED BY <1>2, <2>1, <2>2
<1>8. Distinct(q)
  <2>1. SUFFICES ASSUME NEW i \in 1 .. Len(s) - 1, NEW j \in 1 .. Len(s) - 1, q[i] = q[j] PROVE i = j
    BY <1>6 DEF Distinct
  <2>2. PICK a \in 1 .. Len(s) : q[i] = s[a] /\ ((a = i /\ i < p) \/ (a = i + 1 /\ i >= p)) BY <1>7
  <2>3. PICK b \in 1 .. Len(s) : q[j] = s[b] /\ ((b = j /\ j < p) \/ (b = j + 1 /\ j >= p)) BY <1>7
  <2>4. a = b BY <2>1, <2>2, <2>3 DEF Distinct
  <2> QED BY <1>2, <2>2, <2>3, <2>4
<1>9. ASSUME NEW y \in Elems(q) PROVE y \in Elems(s) \ {x}
  <2>1. PICK i \in 1 .. Len(s) - 1 : y = q[i] BY <1>6 DEF Elems
  <2>2. PICK j \in 1 .. Len(s) : j # p /\ q[i] = s[j] BY <1>7
  <2>3. s[j] # x BY <1>1, <2>2 DEF Distinct
  <2> QED BY <2>1, <2>2, <2>3 DEF Elems
<1>10. ASSUME NEW y \in Elems(s) \ {x} PROVE y \in Elems(q)
  <2>1. PICK j \in 1 .. Len(s) : y = s[j] BY DEF Elems
  <2>2. j # p BY <1>1, <2>1
  <2>3. CASE j < p
    <3>1. j \in 1 .. p - 1 /\ j \in 1 .. Len(s) - 1 BY <1>2, <2>3
    <3> QED BY <1>6, <2>1, <3>1 DEF Elems
  <2>4. CASE j > p
    <3>1. j - 1 \in p .. Len(s) - 1 /\ j - 1 \in 1 .. Len(s) - 1 /\ (j - 1) + 1 = j BY <1>2, <2>4
    <3> QED BY <1>6, <2>1, <3>1 DEF Elems
  <2> QED BY <1>2, <2>2, <2>3, <2>4
<1>11. Elems(q) = Elems(s) \ {x} BY <1>9, <1>10
<1> QED BY <1>5, <1>6, <1>8, <1>11

\* Range and IsInjective of the community modules, of a sequence.
LEMMA RangeElems ==
  ASSUME NEW S, NEW s \in Seq(S)
  PROVE  Range(s) = Elems(s) /\ (IsInjective(s) <=> Distinct(s)) /\ DOMAIN s = 1 .. Len(s)
<1>1. DOMAIN s = 1 .. Len(s) OBVIOUS
<1> QED BY <1>1, Zenon DEF Range, Elems, IsInjective, Distinct

LEMMA ConcatElems ==
  ASSUME NEW S, NEW a \in Seq(S), NEW b \in Seq(S)
  PROVE  /\ a \o b \in Seq(S) /\ Len(a \o b) = Len(a) + Len(b)
         /\ Elems(a \o b) = Elems(a) \cup Elems(b)
         /\ Distinct(a) /\ Distinct(b) /\ Elems(a) \cap Elems(b) = {} => Distinct(a \o b)
<1> DEFINE q == a \o b
           n == Len(a)
           k == Len(b)
<1>1. /\ n \in Nat /\ k \in Nat /\ q \in Seq(S) /\ Len(q) = n + k
      /\ \A i \in 1 .. n + k : q[i] = IF i <= n THEN a[i] ELSE b[i - n]
  BY LenProperties, ConcatProperties
<1> HIDE DEF q
<1>2. \A i \in 1 .. n : q[i] = a[i] /\ i \in 1 .. n + k BY <1>1
<1>3. \A i \in 1 .. k : q[n + i] = b[i] /\ n + i \in 1 .. n + k
  <2> TAKE i \in 1 .. k
  <2>1. n + i \in 1 .. n + k /\ ~(n + i <= n) /\ (n + i) - n = i BY <1>1
  <2> QED BY <1>1, <2>1
<1>4. \A i \in 1 .. n + k : (i \in 1 .. n) \/ (i - n \in 1 .. k /\ q[i] = b[i - n] /\ ~(i <= n)) BY <1>1
<1>5. Elems(q) = Elems(a) \cup Elems(b)
  <2>1. ASSUME NEW x \in Elems(q) PROVE x \in Elems(a) \cup Elems(b)
    <3>1. PICK i \in 1 .. n + k : x = q[i] BY <1>1 DEF Elems
    <3> QED BY <1>2, <1>4, <3>1 DEF Elems
  <2>2. ASSUME NEW x \in Elems(a) PROVE x \in Elems(q) BY <1>1, <1>2, <2>2 DEF Elems
  <2>3. ASSUME NEW x \in Elems(b) PROVE x \in Elems(q)
    <3>1. PICK i \in 1 .. k : x = b[i] BY <2>3 DEF Elems
    <3>2. x = q[n + i] /\ n + i \in 1 .. Len(q) BY <1>1, <1>3, <3>1
    <3> QED BY <3>2 DEF Elems
  <2> QED BY <2>1, <2>2, <2>3
<1>6. ASSUME Distinct(a), Distinct(b), Elems(a) \cap Elems(b) = {} PROVE Distinct(q)
  <2>1. SUFFICES ASSUME NEW i \in 1 .. n + k, NEW j \in 1 .. n + k, q[i] = q[j] PROVE i = j
    BY <1>1 DEF Distinct
  <2>2. CASE i \in 1 .. n /\ j \in 1 .. n BY <1>2, <1>6, <2>1, <2>2 DEF Distinct
  <2>3. CASE i \notin 1 .. n /\ j \notin 1 .. n
    <3>1. i - n \in 1 .. k /\ j - n \in 1 .. k /\ b[i - n] = b[j - n] BY <1>4, <2>1, <2>3
    <3>2. i - n = j - n BY <1>6, <3>1 DEF Distinct
    <3> QED BY <1>1, <3>2
  <2>4. CASE i \in 1 .. n /\ j \notin 1 .. n
    <3>1. a[i] = b[j - n] /\ j - n \in 1 .. k BY <1>2, <1>4, <2>1, <2>4
    <3>2. a[i] \in Elems(a) /\ b[j - n] \in Elems(b) BY <2>4, <3>1 DEF Elems
    <3> QED BY <1>6, <3>1, <3>2
  <2>5. CASE i \notin 1 .. n /\ j \in 1 .. n
    <3>1. a[j] = b[i - n] /\ i - n \in 1 .. k BY <1>2, <1>4, <2>1, <2>5
    <3>2. a[j] \in Elems(a) /\ b[i - n] \in Elems(b) BY <2>5, <3>1 DEF Elems
    <3> QED BY <1>6, <3>1, <3>2
  <2> QED BY <2>2, <2>3, <2>4, <2>5
<1> QED BY <1>1, <1>5, <1>6 DEF q

LEMMA SplitElems ==
  ASSUME NEW S, NEW s \in Seq(S), NEW n \in 0 .. Len(s)
  PROVE  LET a == SubSeq(s, 1, n)
             b == SubSeq(s, n + 1, Len(s))
         IN  /\ a \in Seq(S) /\ b \in Seq(S) /\ Len(a) = n /\ Len(b) = Len(s) - n
             /\ Elems(a) \cup Elems(b) = Elems(s)
             /\ Distinct(s) => Distinct(a) /\ Distinct(b) /\ Elems(a) \cap Elems(b) = {}
<1> DEFINE a == SubSeq(s, 1, n)
           b == SubSeq(s, n + 1, Len(s))
           k == Len(s)
<1>1. k \in Nat /\ n \in Nat /\ n <= k /\ \A i \in 1 .. k : s[i] \in S BY LenProperties, ElementOfSeq
<1>2. a \in Seq(S) /\ Len(a) = n /\ \A i \in 1 .. n : a[i] = s[i] BY <1>1
<1>3. b \in Seq(S) /\ Len(b) = k - n /\ \A i \in 1 .. k - n : b[i] = s[n + i] BY <1>1
<1> HIDE DEF a, b
<1>4. \A i \in 1 .. n : i \in 1 .. k BY <1>1
<1>5. \A i \in 1 .. k - n : n + i \in 1 .. k /\ n + i \notin 1 .. n BY <1>1
<1>6. \A i \in 1 .. k : i \in 1 .. n \/ (i - n \in 1 .. k - n /\ n + (i - n) = i) BY <1>1
<1>7. Elems(a) \cup Elems(b) = Elems(s)
  <2>1. ASSUME NEW x \in Elems(s) PROVE x \in Elems(a) \cup Elems(b)
    <3>1. PICK i \in 1 .. k : x = s[i] BY DEF Elems
    <3>2. CASE i \in 1 .. n BY <1>2, <3>1, <3>2 DEF Elems
    <3>3. CASE i - n \in 1 .. k - n /\ n + (i - n) = i
      <4>1. b[i - n] = x BY <1>3, <3>1, <3>3
      <4> QED BY <1>3, <3>3, <4>1 DEF Elems
    <3> QED BY <1>6, <3>2, <3>3
  <2>2. ASSUME NEW x \in Elems(a) PROVE x \in Elems(s) BY <1>2, <1>4, <2>2 DEF Elems
  <2>3. ASSUME NEW x \in Elems(b) PROVE x \in Elems(s) BY <1>3, <1>5, <2>3 DEF Elems
  <2> QED BY <2>1, <2>2, <2>3
<1>8. ASSUME Distinct(s) PROVE Distinct(a) /\ Distinct(b) /\ Elems(a) \cap Elems(b) = {}
  <2>1. Distinct(a) BY <1>2, <1>4, <1>8 DEF Distinct
  <2>2. Distinct(b)
    <3>1. SUFFICES ASSUME NEW i \in 1 .. k - n, NEW j \in 1 .. k - n, b[i] = b[j] PROVE i = j
      BY <1>3 DEF Distinct
    <3>2. n + i = n + j BY <1>3, <1>5, <1>8, <3>1 DEF Distinct
    <3> QED BY <1>1, <3>2
  <2>3. ASSUME NEW x \in Elems(a) \cap Elems(b) PROVE FALSE
    <3>1. PICK i \in 1 .. n : x = s[i] BY <1>2 DEF Elems
    <3>2. PICK j \in 1 .. k - n : x = s[n + j] BY <1>3 DEF Elems
    <3>3. i = n + j BY <1>4, <1>5, <1>8, <3>1, <3>2 DEF Distinct
    <3> QED BY <1>5, <3>3
  <2> QED BY <2>1, <2>2, <2>3
<1> QED BY <1>2, <1>3, <1>7, <1>8 DEF a, b

LEMMA ReverseElems ==
  ASSUME NEW S, NEW s \in Seq(S)
  PROVE  /\ Reverse(s) \in Seq(S) /\ Len(Reverse(s)) = Len(s)
         /\ Elems(Reverse(s)) = Elems(s) /\ (Distinct(s) => Distinct(Reverse(s)))
<1> DEFINE q == Reverse(s)
           n == Len(s)
<1>1. n \in Nat /\ \A i \in 1 .. n : s[i] \in S BY LenProperties, ElementOfSeq
<1>2. q = [i \in 1 .. n |-> s[(n - i) + 1]] BY DEF Reverse
<1>3. \A i \in 1 .. n : (n - i) + 1 \in 1 .. n /\ (n - ((n - i) + 1)) + 1 = i BY <1>1
<1> HIDE DEF q
<1>4. q \in Seq(S) /\ Len(q) = n /\ \A i \in 1 .. n : q[i] = s[(n - i) + 1] BY <1>1, <1>2, <1>3
<1>5. Elems(q) = Elems(s)
  <2>1. ASSUME NEW x \in Elems(s) PROVE x \in Elems(q)
    <3>1. PICK i \in 1 .. n : x = s[i] BY DEF Elems
    <3>2. q[(n - i) + 1] = x BY <1>3, <1>4, <3>1
    <3> QED BY <1>3, <1>4, <3>2 DEF Elems
  <2>2. ASSUME NEW x \in Elems(q) PROVE x \in Elems(s) BY <1>3, <1>4, <2>2 DEF Elems
  <2> QED BY <2>1, <2>2
<1>6. ASSUME Distinct(s) PROVE Distinct(q)
  <2>1. SUFFICES ASSUME NEW i \in 1 .. n, NEW j \in 1 .. n, q[i] = q[j] PROVE i = j
    BY <1>4 DEF Distinct
  <2>2. (n - i) + 1 = (n - j) + 1 BY <1>3, <1>4, <1>6, <2>1 DEF Distinct
  <2> QED BY <1>1, <2>2
<1> QED BY <1>4, <1>5, <1>6 DEF q
=============================================================================
