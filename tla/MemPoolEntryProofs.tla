------------------------- MODULE MemPoolEntryProofs -------------------------
(***************************************************************************)
(* Proofs about the entries of MemPool, on top of the invariant of the     *)
(* magazines: no entry of a pool in use is lost or in two places, and a    *)
(* class turns a caller away only when callers hold what it advertises.    *)
(***************************************************************************)
EXTENDS MemPoolProofs

-----------------------------------------------------------------------------
(* Where the entries of a pool are.                                        *)

\* n entries lie on the free list f, in the magazines c with slots s of
\* capacity cap, or are taken (k), each in one place.
Stored(f, k, c, s, n, cap) ==
  /\ Distinct(f) /\ \A e \in Elems(f) : e \notin k
  /\ \A m \in c : /\ Distinct(s[m]) /\ Len(s[m]) <= cap
                  /\ \A e \in Elems(s[m]) : e \notin Elems(f) /\ e \notin k
  /\ \A m, x \in c : m # x => \A e \in Elems(s[m]) : e \notin Elems(s[x])
  /\ \A e : e \in 1 .. n <=> e \in Elems(f) \/ e \in k \/ \E m \in c : e \in Elems(s[m])

Slots == [m \in Mags |-> mag[m].slots]
StoreAt(p) == Stored(pool[p].free, pool[p].taken, Caching(p), Slots, Total(p), Capacity(Count(p)))

\* The taken ones have been handed out or are on their way back.
HoldAt(p) ==
  \A e \in Nat :
    /\ e \in pool[p].taken <=> Block(p, e) \in held \/ \E u \in Threads : th[u].old = Block(p, e)
    /\ Block(p, e) \in held => \A u \in Threads : th[u].old # Block(p, e)
    /\ \A u, v \in Threads : th[u].old = Block(p, e) /\ th[v].old = Block(p, e) => u = v

Shaped(x) == x.kind = "block" => x = Block(x.p, x.id)
ShapeInv ==
  /\ \A x \in held : Shaped(x)
  /\ \A t \in Threads : (th[t].old # Null => Shaped(th[t].old)) /\ (th[t].step = "ask" => th[t].old.kind = "dynamic")

EntryInv == ShapeInv /\ \A p \in Classes : Serving(p) => StoreAt(p) /\ HoldAt(p)

\* Entries move between the list, magazine m and callers.
Moved(f, k, c, s, g, j, r, m, cap) ==
  /\ m \in c /\ \A x \in c \ {m} : r[x] = s[x]
  /\ Distinct(g) /\ Distinct(r[m]) /\ Len(r[m]) <= cap
  /\ Elems(g) \cup j \cup Elems(r[m]) = Elems(f) \cup k \cup Elems(s[m])
  /\ Elems(g) \cap j = {} /\ Elems(r[m]) \cap (Elems(g) \cup j) = {}

LEMMA StoreMoves ==
  ASSUME NEW f, NEW k, NEW c, NEW s, NEW n, NEW cap, Stored(f, k, c, s, n, cap),
         NEW g, NEW j, NEW r, NEW m, Moved(f, k, c, s, g, j, r, m, cap)
  PROVE  Stored(g, j, c, r, n, cap)
<1>0. /\ m \in c /\ \A x \in c \ {m} : r[x] = s[x]
      /\ Distinct(g) /\ Distinct(r[m]) /\ Len(r[m]) <= cap
      /\ Elems(g) \cup j \cup Elems(r[m]) = Elems(f) \cup k \cup Elems(s[m])
      /\ Elems(g) \cap j = {} /\ Elems(r[m]) \cap (Elems(g) \cup j) = {}
  BY DEF Moved
<1>1. \A e \in Elems(g) : e \notin j BY <1>0
<1>2. ASSUME NEW x \in c
      PROVE  /\ Distinct(r[x]) /\ Len(r[x]) <= cap
             /\ \A e \in Elems(r[x]) : e \notin Elems(g) /\ e \notin j
  <2>1. CASE x = m BY <1>0, <2>1
  <2>2. CASE x # m
    <3>1. r[x] = s[x] BY <1>0, <2>2
    <3>2. \A e \in Elems(s[x]) : e \notin Elems(f) /\ e \notin k /\ e \notin Elems(s[m]) BY <1>0, <2>2 DEF Stored
    <3>3. Distinct(s[x]) /\ Len(s[x]) <= cap BY DEF Stored
    <3> QED BY <1>0, <3>1, <3>2, <3>3
  <2> QED BY <2>1, <2>2
<1>3. ASSUME NEW x \in c, NEW y \in c, x # y PROVE \A e \in Elems(r[x]) : e \notin Elems(r[y])
  <2>1. \A e \in Elems(s[x]) : e \notin Elems(s[y]) BY <1>3 DEF Stored
  <2>2. \A z \in c \ {m} : \A e \in Elems(s[z]) : e \notin Elems(f) /\ e \notin k /\ e \notin Elems(s[m]) BY <1>0 DEF Stored
  <2>3. CASE x # m /\ y # m
    <3>1. r[x] = s[x] /\ r[y] = s[y] BY <1>0, <2>3
    <3> QED BY <2>1, <3>1
  <2>4. CASE x = m
    <3>1. r[y] = s[y] /\ y \in c \ {m} BY <1>0, <1>3, <2>4
    <3> QED BY <1>0, <2>2, <2>4, <3>1
  <2>5. CASE y = m
    <3>1. r[x] = s[x] /\ x \in c \ {m} BY <1>0, <1>3, <2>5
    <3> QED BY <1>0, <2>2, <2>5, <3>1
  <2> QED BY <2>3, <2>4, <2>5
<1>4. ASSUME NEW e PROVE e \in 1 .. n <=> e \in Elems(g) \/ e \in j \/ \E x \in c : e \in Elems(r[x])
  <2>1. e \in 1 .. n <=> e \in Elems(f) \/ e \in k \/ \E x \in c : e \in Elems(s[x]) BY DEF Stored
  <2>2. (\E x \in c : e \in Elems(s[x])) <=> e \in Elems(s[m]) \/ \E x \in c \ {m} : e \in Elems(s[x]) BY <1>0
  <2>3. (\E x \in c : e \in Elems(r[x])) <=> e \in Elems(r[m]) \/ \E x \in c \ {m} : e \in Elems(r[x]) BY <1>0
  <2>4. (\E x \in c \ {m} : e \in Elems(r[x])) <=> \E x \in c \ {m} : e \in Elems(s[x]) BY <1>0
  <2>5. e \in Elems(g) \/ e \in j \/ e \in Elems(r[m]) <=> e \in Elems(f) \/ e \in k \/ e \in Elems(s[m]) BY <1>0
  <2> QED BY <2>5, <2>1, <2>2, <2>3, <2>4
<1> QED BY <1>0, <1>1, <1>2, <1>3, <1>4 DEF Stored

\* And between the list and callers alone.
LEMMA StoreShifts ==
  ASSUME NEW f, NEW k, NEW c, NEW s, NEW n, NEW cap, Stored(f, k, c, s, n, cap),
         NEW g, NEW j, NEW r, \A x \in c : r[x] = s[x],
         Distinct(g), Elems(g) \cup j = Elems(f) \cup k, Elems(g) \cap j = {}
  PROVE  Stored(g, j, c, r, n, cap)
<1>1. \A e \in Elems(g) : e \notin j OBVIOUS
<1>2. ASSUME NEW x \in c
      PROVE  /\ Distinct(r[x]) /\ Len(r[x]) <= cap
             /\ \A e \in Elems(r[x]) : e \notin Elems(g) /\ e \notin j
  <2>1. Distinct(s[x]) /\ Len(s[x]) <= cap /\ \A e \in Elems(s[x]) : e \notin Elems(f) /\ e \notin k BY DEF Stored
  <2> QED BY <2>1
<1>3. ASSUME NEW x \in c, NEW y \in c, x # y PROVE \A e \in Elems(r[x]) : e \notin Elems(r[y])
  <2>1. \A e \in Elems(s[x]) : e \notin Elems(s[y]) BY <1>3 DEF Stored
  <2> QED BY <2>1
<1>4. ASSUME NEW e PROVE e \in 1 .. n <=> e \in Elems(g) \/ e \in j \/ \E x \in c : e \in Elems(r[x])
  <2>1. e \in 1 .. n <=> e \in Elems(f) \/ e \in k \/ \E x \in c : e \in Elems(s[x]) BY DEF Stored
  <2> QED BY <2>1
<1> QED BY <1>1, <1>2, <1>3, <1>4 DEF Stored

\* A magazine goes, its entries to the list.
LEMMA StoreFlushes ==
  ASSUME NEW f, NEW k, NEW c, NEW s, NEW n, NEW cap, Stored(f, k, c, s, n, cap),
         NEW g, NEW m \in c, Distinct(g), Elems(g) = Elems(f) \cup Elems(s[m]),
         NEW r, \A x \in c \ {m} : r[x] = s[x]
  PROVE  Stored(g, k, c \ {m}, r, n, cap)
<1>1. \A e \in Elems(g) : e \notin k BY DEF Stored
<1>2. ASSUME NEW x \in c \ {m}
      PROVE  /\ Distinct(r[x]) /\ Len(r[x]) <= cap
             /\ \A e \in Elems(r[x]) : e \notin Elems(g) /\ e \notin k
  <2>1. /\ Distinct(s[x]) /\ Len(s[x]) <= cap
        /\ \A e \in Elems(s[x]) : e \notin Elems(f) /\ e \notin k /\ e \notin Elems(s[m]) BY DEF Stored
  <2> QED BY <2>1
<1>3. ASSUME NEW x \in c \ {m}, NEW y \in c \ {m}, x # y PROVE \A e \in Elems(r[x]) : e \notin Elems(r[y])
  <2>1. \A e \in Elems(s[x]) : e \notin Elems(s[y]) BY <1>3 DEF Stored
  <2> QED BY <2>1
<1>4. ASSUME NEW e PROVE e \in 1 .. n <=> e \in Elems(g) \/ e \in k \/ \E x \in c \ {m} : e \in Elems(r[x])
  <2>1. e \in 1 .. n <=> e \in Elems(f) \/ e \in k \/ \E x \in c : e \in Elems(s[x]) BY DEF Stored
  <2>2. (\E x \in c : e \in Elems(s[x])) <=> e \in Elems(s[m]) \/ \E x \in c \ {m} : e \in Elems(s[x]) OBVIOUS
  <2> QED BY <2>1, <2>2
<1> QED BY <1>1, <1>2, <1>3, <1>4 DEF Stored

\* An empty one comes.
LEMMA StoreGrows ==
  ASSUME NEW f, NEW k, NEW c, NEW s, NEW n, NEW cap \in Nat, Stored(f, k, c, s, n, cap),
         NEW m, m \notin c, NEW r, r[m] = <<>>, \A x \in c : r[x] = s[x]
  PROVE  Stored(f, k, c \cup {m}, r, n, cap)
<1>1. \A e \in Elems(f) : e \notin k BY DEF Stored
<1>0. Elems(r[m]) = {} /\ Distinct(r[m]) /\ Len(r[m]) <= cap BY DEF Elems, Distinct
<1>2. ASSUME NEW x \in c \cup {m}
      PROVE  /\ Distinct(r[x]) /\ Len(r[x]) <= cap
             /\ \A e \in Elems(r[x]) : e \notin Elems(f) /\ e \notin k
  <2>1. CASE x = m BY <1>0, <2>1
  <2>2. CASE x \in c BY <2>2 DEF Stored
  <2> QED BY <2>1, <2>2
<1>3. ASSUME NEW x \in c \cup {m}, NEW y \in c \cup {m}, x # y PROVE \A e \in Elems(r[x]) : e \notin Elems(r[y])
  <2>1. CASE x \in c /\ y \in c
    <3>1. \A e \in Elems(s[x]) : e \notin Elems(s[y]) BY <1>3, <2>1 DEF Stored
    <3> QED BY <2>1, <3>1
  <2>2. CASE x = m \/ y = m BY <1>0, <2>2
  <2> QED BY <2>1, <2>2
<1>4. ASSUME NEW e PROVE e \in 1 .. n <=> e \in Elems(f) \/ e \in k \/ \E x \in c \cup {m} : e \in Elems(r[x])
  <2>1. e \in 1 .. n <=> e \in Elems(f) \/ e \in k \/ \E x \in c : e \in Elems(s[x]) BY DEF Stored
  <2>2. (\E x \in c \cup {m} : e \in Elems(r[x])) <=> \E x \in c : e \in Elems(r[x]) BY <1>0
  <2> QED BY <2>1, <2>2
<1>5. Distinct(f) BY DEF Stored
<1> QED BY <1>1, <1>2, <1>3, <1>4, <1>5 DEF Stored

LEMMA BlockEq ==
  ASSUME NEW p \in Nat, NEW e \in Nat
  PROVE  /\ Block(p, e) # Null /\ Block(p, e) \in EntryRec
         /\ \A q, f : Block(q, f) = Block(p, e) => q = p /\ f = e
         /\ \A q, f : Block(q, f).kind = "block" /\ Block(q, f).p = q /\ Block(q, f).id = f
<1>1. Block(p, e) \in EntryRec BY BlockIs
<1>2. Block(p, e) # Null BY <1>1, NullFacts
<1>3. \A q, f : Block(q, f).kind = "block" /\ Block(q, f).p = q /\ Block(q, f).id = f BY DEF Block
<1>4. \A q, f : Block(q, f) = Block(p, e) => q = p /\ f = e BY <1>3
<1> QED BY <1>1, <1>2, <1>3, <1>4

LEMMA SlotsOf ==
  ASSUME TypeOK
  PROVE  /\ \A m \in Mags : Slots[m] = mag[m].slots /\ mag[m].slots \in Seq(Nat)
         /\ \A p : Caching(p) \subseteq Mags
         /\ \A p : \A m \in Caching(p) : Slots[m] = mag[m].slots /\ m \in Mags /\ mag[m].mem = "live" /\ mag[m].pool = p
<1>1. \A m \in Mags : Slots[m] = mag[m].slots BY DEF Slots
<1>2. \A m \in Mags : mag[m].slots \in Seq(Nat) BY DEF TypeOK, MagRec
<1> QED BY <1>1, <1>2 DEF Caching

LEMMA PoolEntriesType ==
  ASSUME TypeOK, NEW p \in Pools
  PROVE  pool[p].free \in Seq(Nat) /\ pool[p].taken \subseteq Nat
<1>1. PoolType(pool[p]) BY DEF TypeOK
<1> QED BY <1>1 DEF PoolType

\* The invariant says where every entry is.
LEMMA EntriesReach ==
  ASSUME SInv, EntryInv
  PROVE  EntryPlacedOnce
<1>0. TypeOK BY DEF SInv
<1> SUFFICES ASSUME NEW p \in Classes, Serving(p)
             PROVE  /\ pool[p].taken = Handed(p) \cup Leaving(p) /\ Handed(p) \cap Leaving(p) = {}
                    /\ 1 .. Total(p) = Range(pool[p].free) \cup pool[p].taken \cup Cached(Caching(p))
                    /\ IsInjective(pool[p].free) /\ \A m \in Caching(p) : IsInjective(mag[m].slots)
                    /\ Range(pool[p].free) \cap pool[p].taken = {}
                    /\ (Range(pool[p].free) \cup pool[p].taken) \cap Cached(Caching(p)) = {}
                    /\ \A m, n \in Caching(p) : m # n => Cached({m}) \cap Cached({n}) = {}
  BY DEF EntryPlacedOnce
<1>1. StoreAt(p) /\ HoldAt(p) /\ ShapeInv BY DEF EntryInv
<1>2. p \in Pools /\ p \in Nat BY <1>0, ScenarioFacts
<1>3. pool[p].free \in Seq(Nat) /\ pool[p].taken \subseteq Nat BY <1>0, <1>2, PoolEntriesType
<1>4. Range(pool[p].free) = Elems(pool[p].free) /\ (IsInjective(pool[p].free) <=> Distinct(pool[p].free)) BY <1>3, RangeElems
<1>5. \A m \in Caching(p) : /\ Slots[m] = mag[m].slots
                            /\ Range(mag[m].slots) = Elems(Slots[m])
                            /\ IsInjective(mag[m].slots) <=> Distinct(Slots[m])
  BY <1>0, SlotsOf, RangeElems
<1>6. ASSUME NEW e PROVE e \in Cached(Caching(p)) <=> \E m \in Caching(p) : e \in Elems(Slots[m])
  BY <1>5 DEF Cached
<1>7. /\ Distinct(pool[p].free) /\ \A e \in Elems(pool[p].free) : e \notin pool[p].taken
      /\ \A m \in Caching(p) : /\ Distinct(Slots[m])
                               /\ \A e \in Elems(Slots[m]) : e \notin Elems(pool[p].free) /\ e \notin pool[p].taken
      /\ \A m, x \in Caching(p) : m # x => \A e \in Elems(Slots[m]) : e \notin Elems(Slots[x])
      /\ \A e : e \in 1 .. Total(p) <=> e \in Elems(pool[p].free) \/ e \in pool[p].taken \/ \E m \in Caching(p) : e \in Elems(Slots[m])
  BY <1>1 DEF StoreAt, Stored
<1>8. 1 .. Total(p) = Range(pool[p].free) \cup pool[p].taken \cup Cached(Caching(p)) BY <1>4, <1>6, <1>7
<1>9. Range(pool[p].free) \cap pool[p].taken = {} BY <1>4, <1>7
<1>10. (Range(pool[p].free) \cup pool[p].taken) \cap Cached(Caching(p)) = {} BY <1>4, <1>6, <1>7
<1>11. \A m, n \in Caching(p) : m # n => Cached({m}) \cap Cached({n}) = {} BY <1>5, <1>7 DEF Cached
<1>12. ASSUME NEW e PROVE e \in Handed(p) <=> e \in Nat /\ Block(p, e) \in held
  <2>1. held \subseteq EntryRec BY <1>0 DEF TypeOK
  <2>2. ASSUME e \in Handed(p) PROVE e \in Nat /\ Block(p, e) \in held
    <3>1. PICK x \in held : x.kind = "block" /\ x.p = p /\ x.id = e BY <2>2 DEF Handed
    <3>2. x = Block(p, e) BY <1>1, <3>1 DEF ShapeInv, Shaped
    <3>3. x \in EntryRec BY <2>1
    <3>4. x.id \in Nat BY <3>1, <3>3 DEF EntryRec
    <3> QED BY <3>1, <3>2, <3>4
  <2>3. ASSUME e \in Nat, Block(p, e) \in held PROVE e \in Handed(p)
    <3>1. Block(p, e).kind = "block" /\ Block(p, e).p = p /\ Block(p, e).id = e BY DEF Block
    <3> QED BY <2>3, <3>1 DEF Handed
  <2> QED BY <2>2, <2>3
<1>13. ASSUME NEW e PROVE e \in Leaving(p) <=> e \in Nat /\ \E u \in Threads : th[u].old = Block(p, e)
  <2>2. ASSUME e \in Leaving(p) PROVE e \in Nat /\ \E u \in Threads : th[u].old = Block(p, e)
    <3>1. PICK u \in Threads : th[u].old # Null /\ th[u].old.kind = "block" /\ th[u].old.p = p /\ th[u].old.id = e
      BY <2>2 DEF Leaving
    <3>2. th[u].old = Block(p, e) BY <1>1, <3>1 DEF ShapeInv, Shaped
    <3>3. th[u].old \in EntryRec BY <1>0, <3>1 DEF TypeOK, ThreadRec
    <3>4. th[u].old.id \in Nat BY <3>1, <3>3 DEF EntryRec
    <3> QED BY <3>1, <3>2, <3>4
  <2>3. ASSUME e \in Nat, NEW u \in Threads, th[u].old = Block(p, e) PROVE e \in Leaving(p)
    <3>1. th[u].old # Null /\ th[u].old.kind = "block" /\ th[u].old.p = p /\ th[u].old.id = e BY <1>2, <2>3, BlockEq
    <3> QED BY <3>1 DEF Leaving
  <2> QED BY <2>2, <2>3
<1>14. \A e \in Nat : e \in pool[p].taken <=> Block(p, e) \in held \/ \E u \in Threads : th[u].old = Block(p, e)
  BY <1>1 DEF HoldAt
<1>15. \A e \in Nat : Block(p, e) \in held => \A u \in Threads : th[u].old # Block(p, e)
  BY <1>1 DEF HoldAt
<1>16. pool[p].taken = Handed(p) \cup Leaving(p) BY <1>3, <1>12, <1>13, <1>14
<1>17. Handed(p) \cap Leaving(p) = {} BY <1>12, <1>13, <1>15
<1>18. IsInjective(pool[p].free) /\ \A m \in Caching(p) : IsInjective(mag[m].slots) BY <1>4, <1>5, <1>7
<1> HIDE DEF Handed, Leaving, Cached, Caching
<1> QED BY <1>8, <1>9, <1>10, <1>11, <1>16, <1>17, <1>18

-----------------------------------------------------------------------------
(* Steps that move no entry.                                               *)

\* What a step leaves alone.
LEMMA StorePrimed ==
  ASSUME scenario' = scenario, NEW p
  PROVE  StoreAt(p)' <=> Stored(pool'[p].free, pool'[p].taken, Caching(p)', Slots', Total(p), Capacity(Count(p)))
<1>1. Total(p)' = Total(p) BY ScenarioSame
<1>2. Capacity(Count(p))' = Capacity(Count(p)) BY DEF Capacity, Magazines, Count
<1> QED BY <1>1, <1>2 DEF StoreAt, Stored

LEMMA SlotsPrimed ==
  /\ \A m \in Mags : Slots'[m] = mag'[m].slots
  /\ \A p : Caching(p)' = {m \in Mags : mag'[m].mem = "live" /\ mag'[m].pool = p}
BY DEF Slots, Caching

LEMMA StoreFrame ==
  ASSUME TypeOK, scenario' = scenario, NEW p, StoreAt(p),
         pool'[p].free = pool[p].free, pool'[p].taken = pool[p].taken,
         Caching(p)' = Caching(p), \A m \in Caching(p) : mag'[m].slots = mag[m].slots
  PROVE  StoreAt(p)'
<1>1. \A m \in Caching(p) : Slots'[m] = Slots[m] BY SlotsOf, SlotsPrimed
<1>2. Stored(pool[p].free, pool[p].taken, Caching(p), Slots, Total(p), Capacity(Count(p))) BY DEF StoreAt
<1>3. Distinct(pool[p].free) /\ Elems(pool[p].free) \cap pool[p].taken = {} BY <1>2 DEF Stored
<1>4. Stored(pool[p].free, pool[p].taken, Caching(p), Slots', Total(p), Capacity(Count(p)))
  BY <1>1, <1>2, <1>3, StoreShifts
<1> QED BY <1>4, StorePrimed

LEMMA CachingSame ==
  ASSUME \A m \in Mags : mag'[m].mem = mag[m].mem /\ mag'[m].pool = mag[m].pool
  PROVE  \A p : Caching(p)' = Caching(p)
BY DEF Caching

LEMMA HoldFrame ==
  ASSUME NEW p, HoldAt(p), pool'[p].taken = pool[p].taken,
         \A e \in Nat : Block(p, e) \in held' <=> Block(p, e) \in held,
         \A e \in Nat : \A u \in Threads : th'[u].old = Block(p, e) <=> th[u].old = Block(p, e)
  PROVE  HoldAt(p)'
<1>1. \A e : Block(p, e)' = Block(p, e) BY DEF Block
<1> QED BY <1>1 DEF HoldAt

\* A pool that serves after a step served before.
LEMMA ServedBefore ==
  ASSUME SInv, NEW t \in Threads, scenario' = scenario, \A u \in Threads \ {t} : Like(u), NEW p \in Pools, Serving(p)',
         pool[p].mem = "live",
         th[t].op = "destroy" => \/ th'[t].op = "destroy" /\ th'[t].group = th[t].group
                                 \/ \A q \in th[t].group : pool'[q].mem # "live"
  PROVE  Serving(p)
<1>1. TypeOK BY DEF SInv
<1>2. \A u \in Threads \ {t} : th'[u].op = th[u].op /\ th'[u].group = th[u].group BY <1>1, LikeFields
<1>3. Group(p)' = Group(p) /\ p \in Group(p) BY ScenarioSame, GroupFacts
<1>4. pool'[p].mem = "live" /\ \A u \in Threads : th'[u].op \in {"alloc", "free", "destroy"} /\ th'[u].group = Group(p) => th'[u].op # "destroy"
  BY <1>3 DEF Serving, Calling
<1>5. ASSUME NEW u \in Threads, th[u].op = "destroy", th[u].group = Group(p) PROVE FALSE
  BY <1>2, <1>3, <1>4, <1>5
<1> QED BY <1>5 DEF Serving, Calling

LEMMA ShapeKeeps ==
  ASSUME TypeOK, ShapeInv, NEW t \in Threads, \A u \in Threads \ {t} : Like(u),
         th'[t].old # Null => Shaped(th'[t].old), th'[t].step = "ask" => th'[t].old.kind = "dynamic",
         \A x \in held' : x \in held \/ Shaped(x)
  PROVE  ShapeInv'
<1>1. \A x : Shaped(x)' <=> Shaped(x) BY DEF Shaped, Block
<1>2. \A u \in Threads \ {t} : th'[u].old = th[u].old /\ th'[u].step = th[u].step BY LikeFields
<1>3. \A x \in held' : Shaped(x) BY DEF ShapeInv
<1>4. \A u \in Threads : (th'[u].old # Null => Shaped(th'[u].old)) /\ (th'[u].step = "ask" => th'[u].old.kind = "dynamic")
  BY <1>2 DEF ShapeInv
<1> QED BY <1>1, <1>3, <1>4 DEF ShapeInv, Shaped, Block

\* A step that moves no entry of the block.
LEMMA EntriesStay ==
  ASSUME SInv, EntryInv, ShapeInv', NEW t \in Threads, scenario' = scenario, \A u \in Threads \ {t} : Like(u),
         th[t].op = "destroy" => \/ th'[t].op = "destroy" /\ th'[t].group = th[t].group
                                 \/ \A q \in th[t].group : pool'[q].mem # "live",
         \A p \in Classes : /\ pool'[p].mem = "live" => pool[p].mem = "live"
                            /\ pool'[p].free = pool[p].free /\ pool'[p].taken = pool[p].taken,
         \A p \in Classes : Serving(p) => Caching(p)' = Caching(p) /\ \A m \in Caching(p) : mag'[m].slots = mag[m].slots,
         \A p \in Classes : Serving(p)' => \A e \in Nat : /\ Block(p, e) \in held' <=> Block(p, e) \in held
                                                          /\ th'[t].old = Block(p, e) <=> th[t].old = Block(p, e)
  PROVE  EntryInv'
<1>1. TypeOK BY DEF SInv
<1>2. Classes' = Classes /\ Classes \subseteq Pools BY <1>1, ScenarioSame, ScenarioFacts
<1>3. ASSUME NEW p \in Classes, Serving(p)' PROVE StoreAt(p)' /\ HoldAt(p)'
  <2>1. pool'[p].mem = "live" BY <1>3 DEF Serving
  <2>2. p \in Pools BY <1>2
  <2>3. pool[p].mem = "live" BY <2>1
  <2>4. Serving(p) BY <1>3, <2>2, <2>3, ServedBefore
  <2>5. StoreAt(p) /\ HoldAt(p) BY <2>4 DEF EntryInv
  <2>6. StoreAt(p)' BY <1>1, <2>4, <2>5, StoreFrame
  <2>7. \A u \in Threads \ {t} : th'[u].old = th[u].old BY <1>1, LikeFields
  <2>8. \A e \in Nat : \A u \in Threads : th'[u].old = Block(p, e) <=> th[u].old = Block(p, e) BY <1>3, <2>7
  <2>9. \A e \in Nat : Block(p, e) \in held' <=> Block(p, e) \in held BY <1>3
  <2>10. HoldAt(p)' BY <2>5, <2>8, <2>9, HoldFrame
  <2> QED BY <2>6, <2>10
<1> QED BY <1>2, <1>3 DEF EntryInv

\* The call goes on with the entry it had.
Same(t) == th'[t].old = th[t].old /\ th'[t].op = th[t].op /\ th'[t].group = th[t].group

LEMMA SameStep ==
  ASSUME TypeOK, NEW t \in Threads, NEW s, Goto(t, s)
  PROVE  Same(t) /\ th'[t].step = s /\ th'[t].p = th[t].p /\ \A u \in Threads \ {t} : th'[u] = th[u]
<1>1. th \in [Threads -> ThreadRec] /\ th[t] \in ThreadRec BY DEF TypeOK
<1>2. th'[t] = [th[t] EXCEPT !.step = s] /\ \A u \in Threads \ {t} : th'[u] = th[u] BY <1>1 DEF Goto
<1> QED BY <1>1, <1>2 DEF Same, ThreadRec

LEMMA SameStepMag ==
  ASSUME TypeOK, NEW t \in Threads, NEW s, NEW m, th' = [th EXCEPT ![t].step = s, ![t].mag = m]
  PROVE  Same(t) /\ th'[t].step = s /\ \A u \in Threads \ {t} : th'[u] = th[u]
<1>1. th \in [Threads -> ThreadRec] /\ th[t] \in ThreadRec BY DEF TypeOK
<1>2. th'[t] = [[th[t] EXCEPT !.step = s] EXCEPT !.mag = m] /\ \A u \in Threads \ {t} : th'[u] = th[u] BY <1>1
<1> QED BY <1>1, <1>2 DEF Same, ThreadRec

LEMMA SameStepPool ==
  ASSUME TypeOK, NEW t \in Threads, NEW s, NEW n, th' = [th EXCEPT ![t].step = s, ![t].p = n]
  PROVE  Same(t) /\ th'[t].step = s /\ \A u \in Threads \ {t} : th'[u] = th[u]
<1>1. th \in [Threads -> ThreadRec] /\ th[t] \in ThreadRec BY DEF TypeOK
<1>2. th'[t] = [[th[t] EXCEPT !.step = s] EXCEPT !.p = n] /\ \A u \in Threads \ {t} : th'[u] = th[u] BY <1>1
<1> QED BY <1>1, <1>2 DEF Same, ThreadRec

LEMMA SamePool ==
  ASSUME TypeOK, NEW t \in Threads, NEW n, th' = [th EXCEPT ![t].p = n]
  PROVE  Same(t) /\ th'[t].step = th[t].step /\ \A u \in Threads \ {t} : th'[u] = th[u]
<1>1. th \in [Threads -> ThreadRec] /\ th[t] \in ThreadRec BY DEF TypeOK
<1>2. th'[t] = [th[t] EXCEPT !.p = n] /\ \A u \in Threads \ {t} : th'[u] = th[u] BY <1>1
<1> QED BY <1>1, <1>2 DEF Same, ThreadRec

LEMMA SameCounts ==
  ASSUME SInv, NEW t \in Threads, th[t].step \in {"pop", "serve"}, Counts(t)
  PROVE  /\ Same(t) /\ th'[t].step = "count" /\ th'[t].p = th[t].p /\ th'[t].todo = pool[th[t].p].mags /\ th'[t].pushes = 0
         /\ th'[t].live = Total(th[t].p) - Len(pool[th[t].p].free) /\ \A u \in Threads \ {t} : th'[u] = th[u]
<1> DEFINE p == th[t].p
           n == Total(p) - Len(pool[p].free)
           s == pool[p].mags
<1>1. th \in [Threads -> ThreadRec] /\ th[t] \in ThreadRec BY DEF SInv, TypeOK
<1> HIDE DEF n, s
<1>2. th'[t] = [[[[th[t] EXCEPT !.step = "count"] EXCEPT !.todo = s] EXCEPT !.pushes = 0] EXCEPT !.live = n]
      /\ \A u \in Threads \ {t} : th'[u] = th[u]
  BY <1>1 DEF Counts, n, s
<1>3. PICK a : a = [th[t] EXCEPT !.step = "count"] OBVIOUS
<1>4. PICK b : b = [a EXCEPT !.todo = s] OBVIOUS
<1>5. PICK c : c = [b EXCEPT !.pushes = 0] OBVIOUS
<1>6. /\ a.old = th[t].old /\ a.op = th[t].op /\ a.group = th[t].group /\ a.p = th[t].p /\ a.step = "count"
      /\ DOMAIN a = DOMAIN th[t]
      /\ DOMAIN th[t] = {"op", "step", "p", "size", "mag", "old", "todo", "live", "pushes", "group"}
  BY <1>1, <1>3 DEF ThreadRec
<1>7. /\ b.old = th[t].old /\ b.op = th[t].op /\ b.group = th[t].group /\ b.p = th[t].p /\ b.step = "count" /\ b.todo = s
      /\ DOMAIN b = DOMAIN th[t]
  BY <1>4, <1>6
<1>8. /\ c.old = th[t].old /\ c.op = th[t].op /\ c.group = th[t].group /\ c.p = th[t].p /\ c.step = "count" /\ c.todo = s
      /\ c.pushes = 0 /\ DOMAIN c = DOMAIN th[t]
  BY <1>5, <1>6, <1>7
<1>9. th'[t] = [c EXCEPT !.live = n] BY <1>2, <1>3, <1>4, <1>5
<1>10. /\ th'[t].old = th[t].old /\ th'[t].op = th[t].op /\ th'[t].group = th[t].group /\ th'[t].p = th[t].p
       /\ th'[t].step = "count" /\ th'[t].todo = s /\ th'[t].pushes = 0 /\ th'[t].live = n
  BY <1>6, <1>8, <1>9
<1> QED BY <1>2, <1>10 DEF Same, n, s

\* A step that only takes the call on.
LEMMA SameStays ==
  ASSUME SInv, EntryInv, NEW t \in Threads, scenario' = scenario, \A u \in Threads \ {t} : Like(u), held' = held,
         \A p \in Classes : /\ pool'[p].mem = pool[p].mem
                            /\ pool'[p].free = pool[p].free /\ pool'[p].taken = pool[p].taken,
         mag' = mag, th'[t].old = th[t].old, Same(t) \/ th[t].op # "destroy",
         th'[t].step = "ask" => th[t].old.kind = "dynamic"
  PROVE  EntryInv'
<1>1. TypeOK /\ ShapeInv BY DEF SInv, EntryInv
<1>2. th'[t].old # Null => Shaped(th'[t].old) BY <1>1 DEF ShapeInv
<1>3. ShapeInv' BY <1>1, <1>2, ShapeKeeps
<1>4. \A p : Caching(p)' = Caching(p) BY CachingSame
<1>5. th[t].op = "destroy" => th'[t].op = "destroy" /\ th'[t].group = th[t].group BY DEF Same
<1> QED BY <1>3, <1>4, <1>5, EntriesStay

LEMMA BeginsEntries ==
  ASSUME SInv, EntryInv, NEW t \in Threads, AllocBegins(t) \/ FreeBegins(t)
  PROVE  EntryInv'
<1>1. TypeOK BY DEF SInv
<1>2. PICK s, m : /\ th' = [th EXCEPT ![t].step = s, ![t].mag = m]
                  /\ s \in {"serve", "pop", "find", "lockedFree", "push", "freeFind"}
  BY DEF AllocBegins, FreeBegins
<1>3. /\ scenario' = scenario /\ pool' = pool /\ mag' = mag /\ held' = held
  BY DEF AllocBegins, FreeBegins, poolVars
<1>4. Same(t) /\ th'[t].step = s /\ \A u \in Threads \ {t} : Like(u) BY <1>1, <1>2, SameStepMag DEF Like
<1> QED BY <1>2, <1>3, <1>4, SameStays DEF Same

LEMMA FindsEntries ==
  ASSUME SInv, EntryInv, NEW t \in Threads, AllocFinds(t) \/ FreeFinds(t)
  PROVE  EntryInv'
<1>1. TypeOK BY DEF SInv
<1>2. PICK s, m : /\ th' = [th EXCEPT ![t].step = s, ![t].mag = m]
                  /\ s \in {"pop", "budget", "push", "freeBudget"}
  BY DEF AllocFinds, FreeFinds, Find
<1>3. /\ scenario' = scenario /\ pool' = pool /\ mag' = mag /\ held' = held
  BY DEF AllocFinds, FreeFinds, poolVars
<1>4. Same(t) /\ th'[t].step = s /\ \A u \in Threads \ {t} : Like(u) BY <1>1, <1>2, SameStepMag DEF Like
<1> QED BY <1>2, <1>3, <1>4, SameStays DEF Same

LEMMA GotoEntries ==
  ASSUME SInv, EntryInv, NEW t \in Threads, NEW s, s # "ask", Goto(t, s),
         scenario' = scenario, pool' = pool, mag' = mag, held' = held
  PROVE  EntryInv'
<1>1. TypeOK BY DEF SInv
<1>4. Same(t) /\ th'[t].step = s /\ \A u \in Threads \ {t} : Like(u) BY <1>1, SameStep DEF Like
<1> QED BY <1>4, SameStays DEF Same

LEMMA BudgetsEntries ==
  ASSUME SInv, EntryInv, NEW t \in Threads, AllocBudget(t) \/ FreeBudget(t) \/ DestroyLocks(t)
  PROVE  EntryInv'
<1>1. /\ scenario' = scenario /\ pool' = pool /\ mag' = mag /\ held' = held
  BY DEF AllocBudget, FreeBudget, DestroyLocks, poolVars
<1>2. PICK s : Goto(t, s) /\ s \in {"create", "serve", "freeCreate", "lockedFree", "unlink"}
  BY DEF AllocBudget, FreeBudget, DestroyLocks
<1>3. s # "ask" BY <1>2
<1> QED BY <1>1, <1>2, <1>3, GotoEntries

LEMMA ServeLocksEntries ==
  ASSUME SInv, EntryInv, NEW t \in Threads, ServeLocks(t)
  PROVE  EntryInv'
<1>1. /\ th[t].step = "serve" /\ Counts(t) /\ scenario' = scenario /\ pool' = pool /\ mag' = mag /\ held' = held
  BY DEF ServeLocks, Counts
<1>2. Same(t) /\ th'[t].step = "count" /\ \A u \in Threads \ {t} : Like(u) BY <1>1, SameCounts DEF Like
<1> QED BY <1>1, <1>2, SameStays DEF Same

LEMMA CountStepEntries ==
  ASSUME SInv, EntryInv, NEW t \in Threads, CountStep(t)
  PROVE  EntryInv'
<1>1. /\ th'[t].old = th[t].old /\ th'[t].op = th[t].op /\ th'[t].group = th[t].group /\ th'[t].step = "count"
      /\ StoreStep /\ held' = held /\ pool' = pool /\ mag' = mag /\ \A u \in Threads \ {t} : th'[u] = th[u]
  BY CountDoes
<1>2. scenario' = scenario BY <1>1 DEF StoreStep
<1> QED BY <1>1, <1>2, SameStays DEF Same, Like

LEMMA RefusedEntries ==
  ASSUME SInv, EntryInv, NEW t \in Threads, Refused(t)
  PROVE  EntryInv'
<1> DEFINE q == IF scenario.ranged THEN th[t].p + 1 ELSE Pseudo
<1>1. /\ th[t].step = "count" /\ scenario' = scenario /\ mag' = mag /\ pool' = pool /\ held' = held
      /\ th' = [th EXCEPT ![t] = [Idle EXCEPT !.op = th[t].op, !.step = "alloc", !.size = th[t].size, !.old = th[t].old,
                                              !.group = th[t].group, !.p = q]]
  BY DEF Refused, Counted
<1>2. th \in [Threads -> ThreadRec] BY DEF SInv, TypeOK
<1> HIDE DEF q
<1>3. /\ th'[t] = [Idle EXCEPT !.op = th[t].op, !.step = "alloc", !.size = th[t].size, !.old = th[t].old,
                               !.group = th[t].group, !.p = q]
      /\ \A u \in Threads \ {t} : th'[u] = th[u]
  BY <1>1, <1>2
<1>4. th'[t].old = th[t].old /\ th'[t].step = "alloc" /\ th'[t].op = th[t].op /\ th'[t].group = th[t].group BY <1>3 DEF Idle
<1> QED BY <1>1, <1>3, <1>4, SameStays DEF Like, Same

LEMMA AskEntries ==
  ASSUME SInv, EntryInv, NEW t \in Threads, FreeDynamic(t) \/ AskNext(t)
  PROVE  EntryInv'
<1>1. TypeOK BY DEF SInv
<1>2. /\ scenario' = scenario /\ pool' = pool /\ mag' = mag /\ held' = held
  BY DEF FreeDynamic, AskNext, poolVars
<1>3. Same(t) /\ th[t].old.kind = "dynamic" /\ \A u \in Threads \ {t} : Like(u)
  <2>1. CASE FreeDynamic(t)
    <3>1. th' = [th EXCEPT ![t].step = "ask", ![t].p = 1] /\ th[t].old.kind = "dynamic" BY <2>1 DEF FreeDynamic
    <3> QED BY <1>1, <3>1, SameStepPool DEF Like
  <2>2. CASE AskNext(t)
    <3>1. th[t].step = "ask" /\ \E n : th' = [th EXCEPT ![t].p = n] BY <2>2 DEF AskNext
    <3>2. th[t].old.kind = "dynamic" BY <3>1 DEF EntryInv, ShapeInv
    <3> QED BY <1>1, <3>1, <3>2, SamePool DEF Like
  <2> QED BY <2>1, <2>2
<1> QED BY <1>2, <1>3, SameStays DEF Same

LEMMA DrainLooksEntries ==
  ASSUME SInv, EntryInv, NEW t \in Threads, DrainLooks(t)
  PROVE  EntryInv'
<1>1. TypeOK BY DEF SInv
<1>2. /\ scenario' = scenario /\ pool' = pool /\ mag' = mag /\ held' = held
      /\ \E n : th' = [th EXCEPT ![t].step = "flush", ![t].p = n]
  BY DEF DrainLooks
<1>3. Same(t) /\ th'[t].step = "flush" /\ \A u \in Threads \ {t} : Like(u) BY <1>1, <1>2, SameStepPool DEF Like
<1> QED BY <1>2, <1>3, SameStays DEF Same

LEMMA ExitEntries ==
  ASSUME SInv, EntryInv, NEW t \in Threads, Exit(t) \/ DrainEnds(t)
  PROVE  EntryInv'
<1>1. TypeOK /\ CallOK(t) /\ th \in [Threads -> ThreadRec] BY DEF SInv, TypeOK
<1>2. /\ scenario' = scenario /\ pool' = pool /\ mag' = mag /\ held' = held
  BY DEF Exit, DrainEnds, poolVars
<1>3. /\ th[t].old = Null /\ th[t].op # "destroy" /\ th'[t].old = Null /\ th'[t].step # "ask"
      /\ \A u \in Threads \ {t} : Like(u)
  <2>1. CASE Exit(t)
    <3>1. /\ th[t] = Idle
          /\ th' = [th EXCEPT ![t] = [Idle EXCEPT !.op = "exit", !.step = "drain", !.todo = tls[t].mags]]
      BY <2>1 DEF Exit
    <3>2. /\ th'[t] = [Idle EXCEPT !.op = "exit", !.step = "drain", !.todo = tls[t].mags]
          /\ \A u \in Threads \ {t} : th'[u] = th[u]
      BY <1>1, <3>1
    <3>3. th'[t].old = Null /\ th'[t].step = "drain" BY <3>2 DEF Idle
    <3> QED BY <3>1, <3>2, <3>3, IdleFields DEF Like
  <2>2. CASE DrainEnds(t)
    <3>1. th[t].step = "drain" /\ th' = [th EXCEPT ![t] = Idle] BY <2>2 DEF DrainEnds
    <3>2. th[t].op = "exit" BY <1>1, <3>1, StepOp
    <3>3. th[t].old = Null BY <1>1, <3>2 DEF CallOK
    <3>4. th'[t] = Idle /\ \A u \in Threads \ {t} : th'[u] = th[u] BY <1>1, <3>1
    <3> QED BY <3>2, <3>3, <3>4, IdleFields DEF Like
  <2> QED BY <2>1, <2>2
<1> QED BY <1>2, <1>3, SameStays

\* A call begins with an entry to give back, or with none.
LEMMA StartEntries ==
  ASSUME SInv, EntryInv, NEW t \in Threads, NEW op \in {"alloc", "free"}, NEW p, NEW size,
         NEW x \in held, Start(t, op, p, size, x), held' = held \ {x}
  PROVE  EntryInv'
<1>1. TypeOK /\ th \in [Threads -> ThreadRec] /\ held \subseteq EntryRec /\ ShapeInv BY DEF SInv, TypeOK, EntryInv
<1>2. /\ th[t] = Idle /\ scenario' = scenario /\ pool' = pool /\ mag' = mag
      /\ th' = [th EXCEPT ![t] = [Idle EXCEPT !.op = op, !.step = op, !.p = p, !.size = size, !.old = x, !.group = Group(p)]]
  BY DEF Start, poolVars
<1>3. /\ th'[t] = [Idle EXCEPT !.op = op, !.step = op, !.p = p, !.size = size, !.old = x, !.group = Group(p)]
      /\ \A u \in Threads \ {t} : th'[u] = th[u]
  BY <1>1, <1>2
<1>4. th'[t].old = x /\ th'[t].step = op /\ th[t].old = Null /\ th[t].op = "none"
  <2>1. th[t].old = Null /\ th[t].op = "none" BY <1>2, IdleFields
  <2>2. PICK r \in ThreadRec : r = Idle BY IdleFields
  <2>3. th'[t] = [r EXCEPT !.op = op, !.step = op, !.p = p, !.size = size, !.old = x, !.group = Group(p)] BY <1>3, <2>2
  <2>4. th'[t].old = x /\ th'[t].step = op BY <2>3 DEF ThreadRec
  <2> QED BY <2>1, <2>4
<1>5. Shaped(x) /\ x # Null BY <1>1, NullFacts DEF ShapeInv
<1>6. ShapeInv' BY <1>1, <1>3, <1>4, <1>5, ShapeKeeps DEF Like
<1>7. Classes' = Classes /\ Classes \subseteq Pools /\ Pools \subseteq Nat BY <1>1, <1>2, ScenarioSame, ScenarioFacts
<1>8. ASSUME NEW q \in Classes, Serving(q)' PROVE StoreAt(q)' /\ HoldAt(q)'
  <2>1. q \in Pools /\ q \in Nat BY <1>7
  <2>2. pool[q].mem = "live" BY <1>2, <1>8 DEF Serving
  <2>3. Serving(q) BY <1>2, <1>3, <1>4, <1>8, <2>1, <2>2, ServedBefore DEF Like
  <2>4. StoreAt(q) /\ HoldAt(q) BY <2>3 DEF EntryInv
  <2>5. Caching(q)' = Caching(q) BY <1>2, CachingSame
  <2>6. StoreAt(q)' BY <1>1, <1>2, <2>4, <2>5, StoreFrame
  <2>7. \A e : Block(q, e)' = Block(q, e) BY DEF Block
  <2>8. ASSUME NEW e \in Nat
        PROVE  /\ e \in pool'[q].taken <=> Block(q, e) \in held' \/ \E u \in Threads : th'[u].old = Block(q, e)
               /\ Block(q, e) \in held' => \A u \in Threads : th'[u].old # Block(q, e)
               /\ \A u, v \in Threads : th'[u].old = Block(q, e) /\ th'[v].old = Block(q, e) => u = v
    <3> DEFINE b == Block(q, e)
    <3>1. b # Null BY <2>1, BlockEq
    <3>2. /\ e \in pool[q].taken <=> b \in held \/ \E u \in Threads : th[u].old = b
          /\ b \in held => \A u \in Threads : th[u].old # b
          /\ \A u, v \in Threads : th[u].old = b /\ th[v].old = b => u = v
      BY <2>4 DEF HoldAt
    <3> HIDE DEF b
    <3>3. CASE x = b
      <4>1. \A u \in Threads \ {t} : th'[u].old # b BY <1>3, <3>2, <3>3
      <4>2. th'[t].old = b /\ b \notin held' BY <1>4, <3>3
      <4>3. e \in pool'[q].taken BY <1>2, <3>2, <3>3
      <4> QED BY <4>1, <4>2, <4>3 DEF b
    <3>4. CASE x # b
      <4>1. \A u \in Threads : th'[u].old = b <=> th[u].old = b BY <1>3, <1>4, <3>1, <3>4
      <4>2. b \in held' <=> b \in held BY <3>4
      <4>3. pool'[q].taken = pool[q].taken BY <1>2
      <4> QED BY <3>2, <4>1, <4>2, <4>3 DEF b
    <3> QED BY <3>3, <3>4
  <2>9. HoldAt(q)' BY <2>7, <2>8 DEF HoldAt
  <2> QED BY <2>6, <2>9
<1> QED BY <1>6, <1>7, <1>8 DEF EntryInv

LEMMA CallsEntries ==
  ASSUME SInv, EntryInv, NEW t \in Threads,
         \/ \E n \in Classes : AllocCall(t, n) \/ \E x \in held : ReallocCall(t, x, n)
         \/ \E x \in held : FreeCall(t, x)
  PROVE  EntryInv'
<1>1. TypeOK /\ th \in [Threads -> ThreadRec] BY DEF SInv, TypeOK
<1>2. ASSUME NEW n \in Classes, AllocCall(t, n) PROVE EntryInv'
  <2>1. /\ th[t] = Idle /\ scenario' = scenario /\ pool' = pool /\ mag' = mag /\ held' = held
        /\ th' = [th EXCEPT ![t] = [Idle EXCEPT !.op = "alloc", !.step = "alloc", !.p = n, !.size = n, !.old = Null,
                                                !.group = Group(n)]]
    BY <1>2 DEF AllocCall, Start, poolVars
  <2>2. /\ th'[t] = [Idle EXCEPT !.op = "alloc", !.step = "alloc", !.p = n, !.size = n, !.old = Null, !.group = Group(n)]
        /\ \A u \in Threads \ {t} : th'[u] = th[u]
    BY <1>1, <2>1
  <2>3. th'[t].old = Null /\ th'[t].step = "alloc" /\ th[t].old = Null /\ th[t].op = "none"
    <3>1. th[t].old = Null /\ th[t].op = "none" BY <2>1, IdleFields
    <3>2. PICK r \in ThreadRec : r = Idle BY IdleFields
    <3>3. th'[t] = [r EXCEPT !.op = "alloc", !.step = "alloc", !.p = n, !.size = n, !.old = Null, !.group = Group(n)]
      BY <2>2, <3>2
    <3>4. th'[t].old = Null /\ th'[t].step = "alloc" BY <3>3 DEF ThreadRec
    <3> QED BY <3>1, <3>4
  <2> QED BY <2>1, <2>2, <2>3, SameStays DEF Like
<1>3. ASSUME NEW n \in Classes, NEW x \in held, ReallocCall(t, x, n) PROVE EntryInv'
  <2>1. Start(t, "alloc", n, n, x) /\ held' = held \ {x} BY <1>3 DEF ReallocCall
  <2> QED BY <2>1, StartEntries
<1>4. ASSUME NEW x \in held, FreeCall(t, x) PROVE EntryInv'
  <2>1. Start(t, "free", x.p, 0, x) /\ held' = held \ {x} BY <1>4 DEF FreeCall
  <2> QED BY <2>1, StartEntries
<1> QED BY <1>2, <1>3, <1>4

\* An allocation that returns an entry of the block, or another.
LEMMA ReturnBlock ==
  ASSUME SInv, EntryInv, NEW t \in Threads, StoreStep, th[t].op = "alloc",
         NEW p \in Classes, NEW e \in Nat, p \in th[t].group, Return(t, Block(p, e)), tls' = tls,
         pool'[p].taken = pool[p].taken \cup {e}, e \notin pool[p].taken,
         \A q \in Classes \ {p} : pool'[q].taken = pool[q].taken
  PROVE  /\ ShapeInv' /\ \A u \in Threads \ {t} : Like(u)
         /\ \A q \in Classes : Serving(q) => HoldAt(q)'
<1>1. TypeOK /\ ShapeInv BY DEF SInv, EntryInv
<1>2. p \in Nat /\ p \in Pools /\ Classes \subseteq Pools /\ Pools \subseteq Nat BY <1>1, ScenarioFacts
<1>3. Block(p, e) \in EntryRec /\ Block(p, e).p = p BY <1>2, BlockIs
<1>4. Still BY DEF StoreStep, Still
<1>5. /\ \A u \in Threads \ {t} : Like(u)
      /\ th'[t].old = th[t].old
  BY <1>3, <1>4, Returns
<1>6. held' = held \cup {Block(p, e)} BY DEF Return
<1>7. th'[t].step = "ask" => th'[t].old.kind = "dynamic"
  <2>1. th \in [Threads -> ThreadRec] BY <1>1 DEF TypeOK
  <2>2. CASE th[t].old = Null
    <3>1. th' = [th EXCEPT ![t] = Idle] BY <2>2 DEF Return
    <3> QED BY <2>1, <3>1, IdleFields
  <2>3. CASE th[t].old # Null
    <3> DEFINE old == th[t].old
               s == IF old.kind = "dynamic" THEN "ask" ELSE "free"
    <3>1. th' = [th EXCEPT ![t] = [Idle EXCEPT !.op = "free", !.p = old.p, !.old = old, !.group = Group(old.p), !.step = s]]
      BY <2>3 DEF Return
    <3>2. th'[t] = [Idle EXCEPT !.op = "free", !.p = old.p, !.old = old, !.group = Group(old.p), !.step = s] BY <2>1, <3>1
    <3>3. th'[t].step = s BY <3>2 DEF Idle
    <3> QED BY <1>5, <3>3
  <2> QED BY <2>2, <2>3
<1>8. Shaped(Block(p, e)) BY DEF Shaped, Block
<1>9. th'[t].old # Null => Shaped(th'[t].old) BY <1>1, <1>5 DEF ShapeInv
<1>10. ShapeInv' BY <1>1, <1>5, <1>6, <1>7, <1>8, <1>9, ShapeKeeps
<1>11. \A u \in Threads : th'[u].old = th[u].old BY <1>1, <1>5, LikeFields
<1>12. ASSUME NEW q \in Classes, Serving(q) PROVE HoldAt(q)'
  <2>1. HoldAt(q) /\ q \in Nat BY <1>2, <1>12 DEF EntryInv
  <2>2. \A f : Block(q, f)' = Block(q, f) BY DEF Block
  <2>3. ASSUME NEW f \in Nat
        PROVE  /\ f \in pool'[q].taken <=> Block(q, f) \in held' \/ \E u \in Threads : th'[u].old = Block(q, f)
               /\ Block(q, f) \in held' => \A u \in Threads : th'[u].old # Block(q, f)
               /\ \A u, v \in Threads : th'[u].old = Block(q, f) /\ th'[v].old = Block(q, f) => u = v
    <3> DEFINE b == Block(q, f)
    <3>1. b = Block(p, e) <=> q = p /\ f = e BY <1>2, BlockEq
    <3>2. /\ f \in pool[q].taken <=> b \in held \/ \E u \in Threads : th[u].old = b
          /\ b \in held => \A u \in Threads : th[u].old # b
          /\ \A u, v \in Threads : th[u].old = b /\ th[v].old = b => u = v
      BY <2>1 DEF HoldAt
    <3> HIDE DEF b
    <3>3. CASE b = Block(p, e)
      <4>1. b \in held' /\ f \in pool'[q].taken /\ f \notin pool[q].taken BY <1>6, <3>1, <3>3
      <4>2. \A u \in Threads : th'[u].old # b BY <1>11, <3>2, <4>1
      <4> QED BY <4>1, <4>2 DEF b
    <3>4. CASE b # Block(p, e)
      <4>1. b \in held' <=> b \in held BY <1>6, <3>4
      <4>2. f \in pool'[q].taken <=> f \in pool[q].taken BY <3>1, <3>4
      <4> QED BY <1>11, <3>2, <4>1, <4>2 DEF b
    <3> QED BY <3>3, <3>4
  <2> QED BY <2>2, <2>3 DEF HoldAt
<1> QED BY <1>5, <1>10, <1>12

-----------------------------------------------------------------------------
(* Entries that move.                                                      *)

\* A call gives its entry of the block back.
LEMMA GivesBlock ==
  ASSUME SInv, EntryInv, NEW t \in Threads, th[t].op \in {"alloc", "free"}, th[t].old # Null, th[t].old.kind = "block",
         NEW p \in Classes, th[t].old.p = p, th'[t] = Idle, \A u \in Threads \ {t} : Like(u), held' = held,
         pool'[p].taken = pool[p].taken \ {th[t].old.id}, \A q \in Classes \ {p} : pool'[q].taken = pool[q].taken
  PROVE  /\ ShapeInv' /\ th[t].old.id \in Nat /\ th[t].old.id \in pool[p].taken
         /\ \A q \in Classes : Serving(q) => HoldAt(q)'
<1> DEFINE e == th[t].old.id
<1>1. TypeOK /\ ShapeInv /\ CallOK(t) BY DEF SInv, EntryInv
<1>2. p \in Nat /\ p \in Pools /\ Classes \subseteq Pools /\ Pools \subseteq Nat BY <1>1, ScenarioFacts
<1>3. th[t].old = Block(p, e) BY <1>1 DEF ShapeInv, Shaped
<1>4. e \in Nat
  <2>1. th[t].old \in EntryRec BY <1>1 DEF TypeOK, ThreadRec
  <2> QED BY <2>1 DEF EntryRec
<1>5. th'[t].old = Null /\ th'[t].step = "none" BY IdleFields
<1>6. ShapeInv' BY <1>1, <1>5, ShapeKeeps
<1>7. \A u \in Threads \ {t} : th'[u].old = th[u].old BY <1>1, LikeFields
<1>8. p \in th[t].group BY <1>1 DEF CallOK
<1>9. Serving(p) BY <1>8, CallServes
<1>10. e \in pool[p].taken BY <1>3, <1>4, <1>9 DEF EntryInv, HoldAt
<1> HIDE DEF e
<1>12. ASSUME NEW q \in Classes, Serving(q) PROVE HoldAt(q)'
  <2>1. HoldAt(q) /\ q \in Nat BY <1>2, <1>12 DEF EntryInv
  <2>2. \A f : Block(q, f)' = Block(q, f) BY DEF Block
  <2>3. ASSUME NEW f \in Nat
        PROVE  /\ f \in pool'[q].taken <=> Block(q, f) \in held' \/ \E u \in Threads : th'[u].old = Block(q, f)
               /\ Block(q, f) \in held' => \A u \in Threads : th'[u].old # Block(q, f)
               /\ \A u, v \in Threads : th'[u].old = Block(q, f) /\ th'[v].old = Block(q, f) => u = v
    <3> DEFINE b == Block(q, f)
    <3>1. (b = Block(p, e) <=> q = p /\ f = e) /\ b # Null BY <1>2, <1>4, <2>1, BlockEq
    <3>2. /\ f \in pool[q].taken <=> b \in held \/ \E u \in Threads : th[u].old = b
          /\ b \in held => \A u \in Threads : th[u].old # b
          /\ \A u, v \in Threads : th[u].old = b /\ th[v].old = b => u = v
      BY <2>1 DEF HoldAt
    <3> HIDE DEF b
    <3>3. CASE b = Block(p, e)
      <4>1. f \notin pool'[q].taken BY <3>1, <3>3 DEF e
      <4>2. b \notin held /\ \A u \in Threads \ {t} : th[u].old # b BY <1>3, <3>2, <3>3
      <4>3. \A u \in Threads : th'[u].old # b BY <1>5, <1>7, <3>1, <4>2
      <4> QED BY <4>1, <4>2, <4>3 DEF b
    <3>4. CASE b # Block(p, e)
      <4>1. \A u \in Threads : th'[u].old = b <=> th[u].old = b BY <1>3, <1>5, <1>7, <3>1, <3>4
      <4>2. f \in pool'[q].taken <=> f \in pool[q].taken BY <3>1, <3>4 DEF e
      <4> QED BY <3>2, <4>1, <4>2 DEF b
    <3> QED BY <3>3, <3>4
  <2> QED BY <2>2, <2>3 DEF HoldAt
<1> QED BY <1>4, <1>6, <1>10, <1>12 DEF e

\* The entries of pool p alone move.
LEMMA EntriesMove ==
  ASSUME SInv, EntryInv, NEW t \in Threads, StoreStep, \A u \in Threads \ {t} : Like(u), th[t].op # "destroy",
         ShapeInv', \A q \in Classes : Serving(q) => HoldAt(q)',
         NEW p \in Classes, StoreAt(p)', \A q \in Classes \ {p} : pool'[q] = pool[q],
         \A m \in Mags : mag[m].pool # p => mag'[m].slots = mag[m].slots
  PROVE  EntryInv'
<1>1. TypeOK /\ scenario' = scenario BY DEF SInv, StoreStep
<1>2. Classes' = Classes /\ Classes \subseteq Pools BY <1>1, ScenarioSame, ScenarioFacts
<1>3. \A q : Caching(q)' = Caching(q) BY CachingSame DEF StoreStep
<1>4. ASSUME NEW q \in Classes, Serving(q)' PROVE StoreAt(q)' /\ HoldAt(q)'
  <2>1. pool'[q].mem = "live" BY <1>4 DEF Serving
  <2>2. q \in Pools BY <1>2
  <2>3. pool[q].mem = "live" BY <2>1, <2>2 DEF StoreStep
  <2>4. Serving(q) BY <1>1, <1>4, <2>2, <2>3, ServedBefore
  <2>5. CASE q = p BY <2>4, <2>5
  <2>6. CASE q # p
    <3>1. StoreAt(q) BY <2>4 DEF EntryInv
    <3>2. \A m \in Caching(q) : mag'[m].slots = mag[m].slots BY <1>1, <2>6, SlotsOf
    <3>3. pool'[q] = pool[q] BY <2>6
    <3> QED BY <1>1, <1>3, <2>4, <3>1, <3>2, <3>3, StoreFrame
  <2> QED BY <2>5, <2>6
<1> QED BY <1>2, <1>4 DEF EntryInv

\* Between the free list, a magazine and the callers,
LEMMA MagazineMoves ==
  ASSUME SInv, StoreStep, NEW p \in Classes, NEW m \in Caching(p), StoreAt(p),
         \A x \in Mags \ {m} : mag'[x].slots = mag[x].slots,
         Distinct(pool'[p].free), Distinct(mag'[m].slots), Len(mag'[m].slots) <= Capacity(Count(p)),
         Elems(pool'[p].free) \cup pool'[p].taken \cup Elems(mag'[m].slots)
           = Elems(pool[p].free) \cup pool[p].taken \cup Elems(mag[m].slots),
         Elems(pool'[p].free) \cap pool'[p].taken = {},
         Elems(mag'[m].slots) \cap (Elems(pool'[p].free) \cup pool'[p].taken) = {}
  PROVE  StoreAt(p)'
<1>1. TypeOK /\ scenario' = scenario BY DEF SInv, StoreStep
<1>2. Caching(p)' = Caching(p) BY CachingSame DEF StoreStep
<1>3. m \in Mags /\ Caching(p) \subseteq Mags BY <1>1, SlotsOf
<1>4. Slots[m] = mag[m].slots /\ Slots'[m] = mag'[m].slots BY <1>1, <1>3, SlotsOf, SlotsPrimed
<1>5. \A x \in Caching(p) \ {m} : Slots'[x] = Slots[x] BY <1>1, <1>3, SlotsOf, SlotsPrimed
<1>6. Stored(pool[p].free, pool[p].taken, Caching(p), Slots, Total(p), Capacity(Count(p))) BY DEF StoreAt
<1>7. Stored(pool'[p].free, pool'[p].taken, Caching(p), Slots', Total(p), Capacity(Count(p)))
  <2> DEFINE c == Caching(p)
             n == Total(p)
             cap == Capacity(Count(p))
             f == pool[p].free
             k == pool[p].taken
             g == pool'[p].free
             j == pool'[p].taken
             s == Slots
             r == Slots'
  <2>1. Stored(f, k, c, s, n, cap) BY <1>6
  <2>2. m \in c /\ \A x \in c \ {m} : r[x] = s[x] BY <1>5
  <2>3. Distinct(g) /\ Distinct(r[m]) /\ Len(r[m]) <= cap BY <1>4
  <2>4. Elems(g) \cup j \cup Elems(r[m]) = Elems(f) \cup k \cup Elems(s[m]) BY <1>4
  <2>5. Elems(g) \cap j = {} /\ Elems(r[m]) \cap (Elems(g) \cup j) = {} BY <1>4
  <2>6. Moved(f, k, c, s, g, j, r, m, cap) BY <2>2, <2>3, <2>4, <2>5 DEF Moved
  <2> HIDE DEF c, n, cap, f, k, g, j, s, r
  <2>7. Stored(g, j, c, r, n, cap) BY <2>1, <2>6, StoreMoves
  <2> QED BY <2>7 DEF c, n, cap, g, j, r
<1> QED BY <1>1, <1>2, <1>7, StorePrimed

\* and without a magazine.
LEMMA ListMoves ==
  ASSUME SInv, StoreStep, NEW p \in Classes, StoreAt(p), mag' = mag,
         Distinct(pool'[p].free),
         Elems(pool'[p].free) \cup pool'[p].taken = Elems(pool[p].free) \cup pool[p].taken,
         Elems(pool'[p].free) \cap pool'[p].taken = {}
  PROVE  StoreAt(p)'
<1>1. TypeOK /\ scenario' = scenario BY DEF SInv, StoreStep
<1>2. Caching(p)' = Caching(p) BY CachingSame DEF StoreStep
<1>3. \A x \in Caching(p) : Slots'[x] = Slots[x] BY <1>1, SlotsOf, SlotsPrimed
<1>6. Stored(pool[p].free, pool[p].taken, Caching(p), Slots, Total(p), Capacity(Count(p))) BY DEF StoreAt
<1>7. Stored(pool'[p].free, pool'[p].taken, Caching(p), Slots', Total(p), Capacity(Count(p)))
  BY <1>3, <1>6, StoreShifts
<1> QED BY <1>1, <1>2, <1>7, StorePrimed

\* What lies in a magazine of a pool, and on its list.
LEMMA StoreFacts ==
  ASSUME SInv, NEW p \in Classes, StoreAt(p)
  PROVE  /\ p \in Pools /\ pool[p].free \in Seq(Nat) /\ pool[p].taken \subseteq Nat /\ Distinct(pool[p].free)
         /\ Elems(pool[p].free) \cap pool[p].taken = {} /\ Capacity(Count(p)) \in Nat
         /\ \A m \in Caching(p) :
              /\ m \in Mags /\ mag[m].slots \in Seq(Nat) /\ Distinct(mag[m].slots) /\ Len(mag[m].slots) <= Capacity(Count(p))
              /\ Elems(mag[m].slots) \cap (Elems(pool[p].free) \cup pool[p].taken) = {}
<1>1. TypeOK BY DEF SInv
<1>2. p \in Pools /\ Count(p) \in Nat BY <1>1, ScenarioFacts
<1>3. pool[p].free \in Seq(Nat) /\ pool[p].taken \subseteq Nat BY <1>1, <1>2, PoolEntriesType
<1>4. Capacity(Count(p)) \in Nat BY <1>2, Geometry
<1>5. Stored(pool[p].free, pool[p].taken, Caching(p), Slots, Total(p), Capacity(Count(p))) BY DEF StoreAt
<1>6. ASSUME NEW m \in Caching(p)
      PROVE  /\ m \in Mags /\ mag[m].slots \in Seq(Nat) /\ Distinct(mag[m].slots) /\ Len(mag[m].slots) <= Capacity(Count(p))
             /\ Elems(mag[m].slots) \cap (Elems(pool[p].free) \cup pool[p].taken) = {}
  <2>1. m \in Mags /\ Slots[m] = mag[m].slots /\ mag[m].slots \in Seq(Nat) BY <1>1, SlotsOf
  <2>2. /\ Distinct(Slots[m]) /\ Len(Slots[m]) <= Capacity(Count(p))
        /\ \A e \in Elems(Slots[m]) : e \notin Elems(pool[p].free) /\ e \notin pool[p].taken
    BY <1>5 DEF Stored
  <2> QED BY <2>1, <2>2
<1>7. Distinct(pool[p].free) /\ Elems(pool[p].free) \cap pool[p].taken = {} BY <1>5 DEF Stored
<1> QED BY <1>2, <1>3, <1>4, <1>6, <1>7

\* The magazine in hand is one of its pool.
LEMMA HandCaching ==
  ASSUME SInv, EntryInv, NEW t \in Threads, th[t].step \in {"pop", "push"}
  PROVE  /\ th[t].p \in Classes /\ th[t].mag \in Caching(th[t].p) /\ Serving(th[t].p)
         /\ StoreAt(th[t].p) /\ HoldAt(th[t].p) /\ th[t].op \in {"alloc", "free"}
<1>1. /\ th[t].p \in Classes /\ th[t].p \in th[t].group /\ th[t].mag \in Mags /\ mag[th[t].mag].mem = "live"
      /\ mag[th[t].mag].pool = th[t].p /\ th[t].op \in {"alloc", "free"}
  BY InHand
<1>2. th[t].mag \in Caching(th[t].p) BY <1>1 DEF Caching
<1>3. Serving(th[t].p) BY <1>1, CallServes
<1> QED BY <1>1, <1>2, <1>3 DEF EntryInv

LEMMA PopEntries ==
  ASSUME SInv, EntryInv, NEW t \in Threads, Pop(t)
  PROVE  EntryInv'
<1>1. PICK p, m, e, s : p = th[t].p /\ m = th[t].mag /\ s = mag[m].slots /\ e = Last(s) OBVIOUS
<1>2. /\ th[t].step = "pop" /\ s # <<>> /\ e \in Nat
      /\ StoreStep /\ Return(t, Block(p, e))
      /\ tls' = tls
      /\ \A x \in Mags \ {m} : mag'[x] = mag[x]
      /\ mag'[m].slots = Front(s)
      /\ \A q \in Pools \ {p} : pool'[q] = pool[q]
      /\ pool'[p].free = pool[p].free /\ pool'[p].taken = pool[p].taken \cup {e}
  BY <1>1, PopDoes
<1>3. /\ p \in Classes /\ m \in Caching(p) /\ StoreAt(p) /\ p \in th[t].group /\ th[t].op = "alloc"
  BY <1>1, <1>2, HandCaching, InHand
<1>4. /\ s \in Seq(Nat) /\ Distinct(s) /\ Len(s) <= Capacity(Count(p)) /\ Capacity(Count(p)) \in Nat
      /\ Elems(s) \cap (Elems(pool[p].free) \cup pool[p].taken) = {}
      /\ Distinct(pool[p].free) /\ Elems(pool[p].free) \cap pool[p].taken = {} /\ m \in Mags
  BY <1>1, <1>3, StoreFacts
<1>5. /\ e \in Elems(s) /\ Front(s) \in Seq(Nat) /\ Len(Front(s)) = Len(s) - 1 /\ Distinct(Front(s))
      /\ Elems(Front(s)) = Elems(s) \ {e}
  BY <1>1, <1>2, <1>4, FrontElems
<1>6. Classes \subseteq Pools BY ScenarioFacts DEF SInv
<1>7. /\ ShapeInv' /\ \A u \in Threads \ {t} : Like(u)
      /\ \A q \in Classes : Serving(q) => HoldAt(q)'
  <2>1. e \notin pool[p].taken BY <1>4, <1>5
  <2>2. \A q \in Classes \ {p} : pool'[q].taken = pool[q].taken BY <1>2, <1>6
  <2> QED BY <1>2, <1>3, <2>1, <2>2, ReturnBlock
<1>8. StoreAt(p)'
  <2>1. Len(s) \in Nat BY <1>4
  <2>2. Len(mag'[m].slots) <= Capacity(Count(p)) BY <1>2, <1>4, <1>5, <2>1
  <2>3. \A x \in Mags \ {m} : mag'[x].slots = mag[x].slots BY <1>2
  <2>4. Distinct(pool'[p].free) /\ Distinct(mag'[m].slots) BY <1>2, <1>4, <1>5
  <2>5. Elems(pool'[p].free) \cup pool'[p].taken \cup Elems(mag'[m].slots)
           = Elems(pool[p].free) \cup pool[p].taken \cup Elems(mag[m].slots)
    BY <1>1, <1>2, <1>5
  <2>6. Elems(pool'[p].free) \cap pool'[p].taken = {} BY <1>2, <1>4, <1>5
  <2>7. Elems(mag'[m].slots) \cap (Elems(pool'[p].free) \cup pool'[p].taken) = {} BY <1>2, <1>4, <1>5
  <2> QED BY <1>2, <1>3, <2>2, <2>3, <2>4, <2>5, <2>6, <2>7, MagazineMoves
<1>9. \A x \in Mags : mag[x].pool # p => mag'[x].slots = mag[x].slots BY <1>2, <1>3 DEF Caching
<1> QED BY <1>2, <1>3, <1>6, <1>7, <1>8, <1>9, EntriesMove

LEMMA ServeEntries ==
  ASSUME SInv, EntryInv, NEW t \in Threads, ServeEntry(t)
  PROVE  EntryInv'
<1>1. PICK p, f, e : p = th[t].p /\ f = pool[p].free /\ e = Head(f) OBVIOUS
<1>2. /\ th[t].step = "count" /\ f # <<>> /\ e \in Nat
      /\ StoreStep /\ Return(t, Block(p, e)) /\ tls' = tls /\ mag' = mag
      /\ \A q \in Pools \ {p} : pool'[q] = pool[q]
      /\ pool'[p].free = Tail(f) /\ pool'[p].taken = pool[p].taken \cup {e}
  BY <1>1, ServeDoes
<1>3. p \in Classes /\ p \in th[t].group /\ th[t].op = "alloc" BY <1>1, <1>2, Counting
<1>4. StoreAt(p)
  <2>1. Serving(p) BY <1>3, CallServes
  <2> QED BY <1>3, <2>1 DEF EntryInv
<1>5. /\ f \in Seq(Nat) /\ Distinct(f) /\ Elems(f) \cap pool[p].taken = {}
  BY <1>1, <1>3, <1>4, StoreFacts
<1>6. /\ e \in Elems(f) /\ Distinct(Tail(f)) /\ Elems(Tail(f)) = Elems(f) \ {e} BY <1>1, <1>2, <1>5, TailElems
<1>7. Classes \subseteq Pools BY ScenarioFacts DEF SInv
<1>8. /\ ShapeInv' /\ \A u \in Threads \ {t} : Like(u)
      /\ \A q \in Classes : Serving(q) => HoldAt(q)'
  <2>1. e \notin pool[p].taken BY <1>5, <1>6
  <2>2. \A q \in Classes \ {p} : pool'[q].taken = pool[q].taken BY <1>2, <1>7
  <2> QED BY <1>2, <1>3, <2>1, <2>2, ReturnBlock
<1>9. StoreAt(p)'
  <2>1. Distinct(pool'[p].free) BY <1>2, <1>6
  <2>2. Elems(pool'[p].free) \cup pool'[p].taken = Elems(pool[p].free) \cup pool[p].taken BY <1>1, <1>2, <1>6
  <2>3. Elems(pool'[p].free) \cap pool'[p].taken = {} BY <1>2, <1>5, <1>6
  <2> QED BY <1>2, <1>3, <1>4, <2>1, <2>2, <2>3, ListMoves
<1> QED BY <1>2, <1>3, <1>7, <1>8, <1>9, EntriesMove

LEMMA PushEntries ==
  ASSUME SInv, EntryInv, NEW t \in Threads, Push(t)
  PROVE  EntryInv'
<1>1. PICK p, m, e, s : p = th[t].p /\ m = th[t].mag /\ s = mag[m].slots /\ e = th[t].old.id OBVIOUS
<1>2. /\ th[t].step = "push" /\ e \in Nat /\ th[t].old # Null /\ th[t].old.kind = "block" /\ th[t].old.p = p
      /\ Len(s) < Capacity(Count(p))
      /\ StoreStep /\ held' = held
      /\ mag'[m].slots = Append(s, e)
      /\ \A x \in Mags \ {m} : mag'[x] = mag[x]
      /\ \A q \in Pools \ {p} : pool'[q] = pool[q]
      /\ pool'[p].free = pool[p].free /\ pool'[p].taken = pool[p].taken \ {e}
      /\ th'[t] = Idle
      /\ \A u \in Threads \ {t} : Like(u)
  BY <1>1, PushDoes
<1>3. /\ p \in Classes /\ m \in Caching(p) /\ StoreAt(p) /\ th[t].op \in {"alloc", "free"}
  BY <1>1, <1>2, HandCaching
<1>4. /\ s \in Seq(Nat) /\ Distinct(s) /\ Len(s) <= Capacity(Count(p)) /\ Capacity(Count(p)) \in Nat
      /\ Elems(s) \cap (Elems(pool[p].free) \cup pool[p].taken) = {}
      /\ Distinct(pool[p].free) /\ Elems(pool[p].free) \cap pool[p].taken = {} /\ m \in Mags
  BY <1>1, <1>3, StoreFacts
<1>5. Classes \subseteq Pools BY ScenarioFacts DEF SInv
<1>6. /\ ShapeInv' /\ e \in pool[p].taken
      /\ \A q \in Classes : Serving(q) => HoldAt(q)'
  <2>1. \A q \in Classes \ {p} : pool'[q].taken = pool[q].taken BY <1>2, <1>5
  <2>2. pool'[p].taken = pool[p].taken \ {th[t].old.id} BY <1>1, <1>2
  <2> QED BY <1>1, <1>2, <1>3, <2>1, <2>2, GivesBlock
<1>7. /\ Elems(Append(s, e)) = Elems(s) \cup {e} /\ Distinct(Append(s, e)) /\ Len(Append(s, e)) = Len(s) + 1
  <2>1. e \notin Elems(s) BY <1>4, <1>6
  <2> QED BY <1>2, <1>4, <2>1, AppendElems
<1>8. StoreAt(p)'
  <2>1. Len(s) \in Nat BY <1>4
  <2>2. Len(mag'[m].slots) <= Capacity(Count(p)) BY <1>2, <1>4, <1>7, <2>1
  <2>3. \A x \in Mags \ {m} : mag'[x].slots = mag[x].slots BY <1>2
  <2>4. Distinct(pool'[p].free) /\ Distinct(mag'[m].slots) BY <1>2, <1>4, <1>7
  <2>5. Elems(pool'[p].free) \cup pool'[p].taken \cup Elems(mag'[m].slots)
           = Elems(pool[p].free) \cup pool[p].taken \cup Elems(mag[m].slots)
    <3>1. /\ pool'[p].free = pool[p].free /\ pool'[p].taken = pool[p].taken \ {e}
          /\ Elems(mag'[m].slots) = Elems(mag[m].slots) \cup {e} /\ e \in pool[p].taken
      BY <1>1, <1>2, <1>6, <1>7
    <3> QED BY <3>1
  <2>6. Elems(pool'[p].free) \cap pool'[p].taken = {} BY <1>2, <1>4
  <2>7. Elems(mag'[m].slots) \cap (Elems(pool'[p].free) \cup pool'[p].taken) = {} BY <1>2, <1>4, <1>6, <1>7
  <2> QED BY <1>2, <1>3, <2>2, <2>3, <2>4, <2>5, <2>6, <2>7, MagazineMoves
<1>9. \A x \in Mags : mag[x].pool # p => mag'[x].slots = mag[x].slots BY <1>2, <1>3 DEF Caching
<1> QED BY <1>2, <1>3, <1>5, <1>6, <1>8, <1>9, EntriesMove

LEMMA LockedFreeEntries ==
  ASSUME SInv, EntryInv, NEW t \in Threads, LockedFree(t)
  PROVE  EntryInv'
<1>1. PICK p, f, e : p = th[t].p /\ f = pool[p].free /\ e = th[t].old.id OBVIOUS
<1>2. /\ th[t].op = "free" /\ p \in Classes /\ p \in Pools
      /\ e \in Nat /\ th[t].old # Null /\ th[t].old.kind = "block" /\ th[t].old.p = p
      /\ StoreStep /\ held' = held /\ mag' = mag
      /\ \A q \in Pools \ {p} : pool'[q] = pool[q]
      /\ pool'[p].free = <<e>> \o f /\ pool'[p].taken = pool[p].taken \ {e}
      /\ th'[t] = Idle /\ \A u \in Threads \ {t} : th'[u] = th[u]
  BY <1>1, LockedFreeDoes
<1>3. p \in th[t].group /\ Classes \subseteq Pools
  <2>1. CallOK(t) /\ TypeOK BY DEF SInv
  <2> QED BY <1>2, <2>1, ScenarioFacts DEF CallOK
<1>4. StoreAt(p)
  <2>1. Serving(p) BY <1>2, <1>3, CallServes
  <2> QED BY <1>2, <2>1 DEF EntryInv
<1>5. /\ f \in Seq(Nat) /\ Distinct(f) /\ Elems(f) \cap pool[p].taken = {}
  BY <1>1, <1>2, <1>4, StoreFacts
<1>6. \A u \in Threads \ {t} : Like(u) BY <1>2 DEF Like
<1>7. /\ ShapeInv' /\ e \in pool[p].taken
      /\ \A q \in Classes : Serving(q) => HoldAt(q)'
  <2>1. \A q \in Classes \ {p} : pool'[q].taken = pool[q].taken BY <1>2, <1>3
  <2>2. pool'[p].taken = pool[p].taken \ {th[t].old.id} BY <1>1, <1>2
  <2> QED BY <1>1, <1>2, <1>6, <2>1, <2>2, GivesBlock
<1>8. Elems(<<e>> \o f) = Elems(f) \cup {e} /\ Distinct(<<e>> \o f)
  <2>1. e \notin Elems(f) BY <1>5, <1>7
  <2> QED BY <1>2, <1>5, <2>1, PushElems
<1>9. StoreAt(p)'
  <2>1. Distinct(pool'[p].free) BY <1>2, <1>8
  <2>2. Elems(pool'[p].free) \cup pool'[p].taken = Elems(pool[p].free) \cup pool[p].taken BY <1>1, <1>2, <1>7, <1>8
  <2>3. Elems(pool'[p].free) \cap pool'[p].taken = {} BY <1>2, <1>5, <1>8
  <2> QED BY <1>2, <1>4, <2>1, <2>2, <2>3, ListMoves
<1> QED BY <1>2, <1>3, <1>6, <1>7, <1>9, EntriesMove

\* The magazine is filled from the list, or flushed to it.
LEMMA StockMoves ==
  ASSUME SInv, EntryInv, NEW t \in Threads, StoreStep, held' = held, \A u \in Threads \ {t} : Like(u),
         Same(t), th'[t].step # "ask", th[t].step \in {"pop", "push"},
         \A q \in Pools \ {th[t].p} : pool'[q] = pool[q], pool'[th[t].p].taken = pool[th[t].p].taken,
         \A x \in Mags \ {th[t].mag} : mag'[x] = mag[x],
         Distinct(pool'[th[t].p].free), Distinct(mag'[th[t].mag].slots), Len(mag'[th[t].mag].slots) <= Capacity(Count(th[t].p)),
         Elems(pool'[th[t].p].free) \cup Elems(mag'[th[t].mag].slots) = Elems(pool[th[t].p].free) \cup Elems(mag[th[t].mag].slots),
         Elems(mag'[th[t].mag].slots) \cap Elems(pool'[th[t].p].free) = {}
  PROVE  EntryInv'
<1>1. PICK p, m : p = th[t].p /\ m = th[t].mag OBVIOUS
<1>2. TypeOK /\ ShapeInv BY DEF SInv, EntryInv
<1>3. /\ p \in Classes /\ m \in Caching(p) /\ StoreAt(p) /\ th[t].op \in {"alloc", "free"}
  BY <1>1, HandCaching
<1>4. /\ Elems(mag[m].slots) \cap (Elems(pool[p].free) \cup pool[p].taken) = {}
      /\ Elems(pool[p].free) \cap pool[p].taken = {}
  BY <1>3, StoreFacts
<1>5. Classes \subseteq Pools BY <1>2, ScenarioFacts
<1>6. th'[t].old # Null => Shaped(th'[t].old) BY <1>2 DEF Same, ShapeInv
<1>7. ShapeInv' BY <1>2, <1>6, ShapeKeeps
<1>8. \A u \in Threads : th'[u].old = th[u].old BY <1>2, LikeFields DEF Same
<1>9. ASSUME NEW q \in Classes, Serving(q) PROVE HoldAt(q)'
  <2>1. HoldAt(q) BY <1>9 DEF EntryInv
  <2>2. pool'[q].taken = pool[q].taken BY <1>5
  <2> QED BY <1>8, <2>1, <2>2, HoldFrame
<1>10. StoreAt(p)'
  <2>1. \A x \in Mags \ {m} : mag'[x].slots = mag[x].slots BY <1>1
  <2>2. Distinct(pool'[p].free) /\ Distinct(mag'[m].slots) /\ Len(mag'[m].slots) <= Capacity(Count(p)) BY <1>1
  <2>3. Elems(pool'[p].free) \cup Elems(mag'[m].slots) = Elems(pool[p].free) \cup Elems(mag[m].slots)
        /\ Elems(mag'[m].slots) \cap Elems(pool'[p].free) = {} /\ pool'[p].taken = pool[p].taken
    BY <1>1
  <2>4. Elems(pool'[p].free) \cup pool'[p].taken \cup Elems(mag'[m].slots)
           = Elems(pool[p].free) \cup pool[p].taken \cup Elems(mag[m].slots)
    BY <2>3
  <2>5. Elems(pool'[p].free) \cap pool'[p].taken = {} BY <1>4, <2>3
  <2>6. Elems(mag'[m].slots) \cap (Elems(pool'[p].free) \cup pool'[p].taken) = {} BY <1>4, <2>3
  <2> QED BY <1>3, <2>1, <2>2, <2>4, <2>5, <2>6, MagazineMoves
<1>11. \A x \in Mags : mag[x].pool # p => mag'[x].slots = mag[x].slots BY <1>1, <1>3 DEF Caching
<1>12. \A q \in Classes \ {p} : pool'[q] = pool[q] BY <1>1, <1>5
<1> QED BY <1>3, <1>7, <1>9, <1>10, <1>11, <1>12, EntriesMove

LEMMA RefillEntries ==
  ASSUME SInv, EntryInv, NEW t \in Threads, RefillStep(t)
  PROVE  EntryInv'
<1>1. PICK p, m, f : p = th[t].p /\ m = th[t].mag /\ f = pool[p].free OBVIOUS
<1>2. /\ th[t].step = "pop" /\ mag[m].slots = <<>> /\ StoreStep
      /\ \A x \in Mags \ {m} : mag'[x] = mag[x]
      /\ \A q \in Pools \ {p} : pool'[q] = pool[q]
      /\ pool'[p].taken = pool[p].taken
  BY <1>1, RefillDoes
<1>3. PICK n \in 0 .. Len(f) : /\ mag'[m].slots = SubSeq(f, 1, n) /\ n <= Capacity(Count(p))
                               /\ pool'[p].free = SubSeq(f, n + 1, Len(f))
  BY <1>1, RefillDoes
<1>4. held' = held BY DEF RefillStep
<1>5. Same(t) /\ th'[t].step # "ask" /\ \A u \in Threads \ {t} : Like(u)
  <2>1. TypeOK BY DEF SInv
  <2>2. Goto(t, "pop") \/ Counts(t) BY DEF RefillStep, Counts
  <2>3. CASE Goto(t, "pop") BY <2>1, <2>3, SameStep DEF Like
  <2>4. CASE Counts(t) BY <1>2, <2>4, SameCounts DEF Like
  <2> QED BY <2>2, <2>3, <2>4
<1>6. p \in Classes /\ StoreAt(p) BY <1>1, <1>2, HandCaching
<1>7. f \in Seq(Nat) /\ Distinct(f) BY <1>1, <1>6, StoreFacts
<1>8. /\ Len(SubSeq(f, 1, n)) = n
      /\ Elems(SubSeq(f, 1, n)) \cup Elems(SubSeq(f, n + 1, Len(f))) = Elems(f)
      /\ Distinct(SubSeq(f, 1, n)) /\ Distinct(SubSeq(f, n + 1, Len(f)))
      /\ Elems(SubSeq(f, 1, n)) \cap Elems(SubSeq(f, n + 1, Len(f))) = {}
  BY <1>7, SplitElems
<1>9. Elems(mag[m].slots) = {} BY <1>2 DEF Elems
<1>10. /\ Distinct(pool'[p].free) /\ Distinct(mag'[m].slots) /\ Len(mag'[m].slots) <= Capacity(Count(p))
       /\ Elems(pool'[p].free) \cup Elems(mag'[m].slots) = Elems(pool[p].free) \cup Elems(mag[m].slots)
       /\ Elems(mag'[m].slots) \cap Elems(pool'[p].free) = {}
  BY <1>1, <1>3, <1>8, <1>9
<1> QED BY <1>1, <1>2, <1>4, <1>5, <1>10, StockMoves

LEMMA FlushHalfEntries ==
  ASSUME SInv, EntryInv, NEW t \in Threads, FlushHalf(t)
  PROVE  EntryInv'
<1>1. PICK p, m, f, s : p = th[t].p /\ m = th[t].mag /\ f = pool[p].free /\ s = mag[m].slots OBVIOUS
<1>2. /\ th[t].step = "push" /\ StoreStep /\ th' = th /\ held' = held
      /\ \A x \in Mags \ {m} : mag'[x] = mag[x]
      /\ \A q \in Pools \ {p} : pool'[q] = pool[q]
      /\ pool'[p].taken = pool[p].taken
  BY <1>1, FlushHalfDoes
<1>3. PICK n \in 0 .. Len(s) : /\ mag'[m].slots = SubSeq(s, 1, n)
                               /\ pool'[p].free = Reverse(SubSeq(s, n + 1, Len(s))) \o f
  BY <1>1, FlushHalfDoes
<1>5. Same(t) /\ th'[t].step # "ask" /\ \A u \in Threads \ {t} : Like(u) BY <1>2 DEF Same, Like
<1>6. p \in Classes /\ m \in Caching(p) /\ StoreAt(p) BY <1>1, <1>2, HandCaching
<1>7. /\ f \in Seq(Nat) /\ Distinct(f) /\ s \in Seq(Nat) /\ Distinct(s) /\ Len(s) <= Capacity(Count(p))
      /\ Elems(s) \cap Elems(f) = {} /\ Capacity(Count(p)) \in Nat
  BY <1>1, <1>6, StoreFacts
<1> DEFINE c == SubSeq(s, 1, n)
           d == SubSeq(s, n + 1, Len(s))
<1>4. /\ c \in Seq(Nat) /\ d \in Seq(Nat) /\ Len(c) = n
      /\ Elems(c) \cup Elems(d) = Elems(s) /\ Distinct(c) /\ Distinct(d) /\ Elems(c) \cap Elems(d) = {}
  BY <1>7, SplitElems
<1>8. PICK a, b : a = c /\ b = d OBVIOUS
<1> HIDE DEF c, d
<1>9. /\ a \in Seq(Nat) /\ b \in Seq(Nat) /\ Len(a) = n
      /\ Elems(a) \cup Elems(b) = Elems(s) /\ Distinct(a) /\ Distinct(b) /\ Elems(a) \cap Elems(b) = {}
  BY <1>4, <1>8
<1>10. Reverse(b) \in Seq(Nat) /\ Elems(Reverse(b)) = Elems(b) /\ Distinct(Reverse(b)) BY <1>9, ReverseElems
<1>11. Elems(Reverse(b)) \cap Elems(f) = {} BY <1>7, <1>9, <1>10
<1>12. /\ Elems(Reverse(b) \o f) = Elems(Reverse(b)) \cup Elems(f) /\ Distinct(Reverse(b) \o f)
  BY <1>7, <1>10, <1>11, ConcatElems
<1>13. mag'[m].slots = a /\ pool'[p].free = Reverse(b) \o f BY <1>3, <1>8 DEF c, d
<1>14. Len(s) \in Nat /\ n \in Nat BY <1>7
<1>15. Len(mag'[m].slots) <= Capacity(Count(p)) BY <1>7, <1>9, <1>13, <1>14
<1>16. /\ Distinct(pool'[p].free) /\ Distinct(mag'[m].slots)
       /\ Elems(pool'[p].free) \cup Elems(mag'[m].slots) = Elems(pool[p].free) \cup Elems(mag[m].slots)
       /\ Elems(mag'[m].slots) \cap Elems(pool'[p].free) = {}
  BY <1>1, <1>7, <1>9, <1>10, <1>12, <1>13
<1> QED BY <1>1, <1>2, <1>5, <1>15, <1>16, StockMoves

\* A dynamic entry goes out.
LEMMA ReturnDynamic ==
  ASSUME SInv, EntryInv, NEW t \in Threads, th[t].op = "alloc", NEW p \in Pools, NEW n \in Nat, p \in th[t].group,
         AllocDynamic(t, p, n), scenario' = scenario, mag' = mag, tls' = tls
  PROVE  EntryInv'
<1>1. /\ StoreStep
      /\ \A q \in Pools : pool'[q].free = pool[q].free /\ pool'[q].taken = pool[q].taken
  BY DynamicDoes
<1>2. PICK a \in Addresses : Return(t, Dynamic(p, a, n)) /\ Dynamic(p, a, n) \in EntryRec
                             /\ Dynamic(p, a, n).p = p /\ Dynamic(p, a, n).kind = "dynamic"
  BY DynamicDoes
<1>3. PICK x : x = Dynamic(p, a, n) OBVIOUS
<1>4. Still /\ TypeOK /\ ShapeInv BY <1>1 DEF StoreStep, Still, SInv, EntryInv
<1>5. /\ Return(t, x) /\ x \in EntryRec /\ x.p = p /\ x.kind = "dynamic" BY <1>2, <1>3
<1>6. /\ \A u \in Threads \ {t} : Like(u)
      /\ th'[t].old = th[t].old
  BY <1>4, <1>5, Returns
<1>7. held' = held \cup {x} BY <1>5 DEF Return
<1>8. th'[t].step = "ask" => th'[t].old.kind = "dynamic"
  <2>1. th \in [Threads -> ThreadRec] BY <1>4 DEF TypeOK
  <2>2. CASE th[t].old = Null
    <3>1. th' = [th EXCEPT ![t] = Idle] BY <1>5, <2>2 DEF Return
    <3> QED BY <2>1, <3>1, IdleFields
  <2>3. CASE th[t].old # Null
    <3> DEFINE old == th[t].old
               s == IF old.kind = "dynamic" THEN "ask" ELSE "free"
    <3>1. th' = [th EXCEPT ![t] = [Idle EXCEPT !.op = "free", !.p = old.p, !.old = old, !.group = Group(old.p), !.step = s]]
      BY <1>5, <2>3 DEF Return
    <3>2. th'[t] = [Idle EXCEPT !.op = "free", !.p = old.p, !.old = old, !.group = Group(old.p), !.step = s] BY <2>1, <3>1
    <3>3. th'[t].step = s BY <3>2 DEF Idle
    <3> QED BY <1>6, <3>3
  <2> QED BY <2>2, <2>3
<1>9. Shaped(x) BY <1>5 DEF Shaped
<1>10. th'[t].old # Null => Shaped(th'[t].old) BY <1>4, <1>6 DEF ShapeInv
<1>11. ShapeInv' BY <1>4, <1>6, <1>7, <1>8, <1>9, <1>10, ShapeKeeps
<1>12. \A q, e : Block(q, e) # x
  <2>1. \A q, e : Block(q, e).kind = "block" BY DEF Block
  <2> QED BY <1>5, <2>1
<1>13. \A q, e : Block(q, e) \in held' <=> Block(q, e) \in held BY <1>7, <1>12
<1>14. \A q : Caching(q)' = Caching(q) BY CachingSame
<1>15. Classes \subseteq Pools BY <1>4, ScenarioFacts
<1>16. \A q \in Pools : pool'[q].mem = pool[q].mem BY <1>1 DEF StoreStep
<1> QED BY <1>1, <1>6, <1>11, <1>13, <1>14, <1>15, <1>16, EntriesStay

LEMMA ServeDynamicEntries ==
  ASSUME SInv, EntryInv, NEW t \in Threads, ServeDynamic(t)
  PROVE  EntryInv'
<1>1. /\ th[t].step = "count" /\ AllocDynamic(t, th[t].p, th[t].p) /\ scenario' = scenario /\ mag' = mag /\ tls' = tls
  BY DEF ServeDynamic, Counted
<1>2. th[t].op = "alloc" /\ th[t].p \in Pools /\ th[t].p \in Nat /\ th[t].p \in th[t].group BY <1>1, Counting
<1>3. PICK p \in Pools : p = th[t].p /\ p \in Nat BY <1>2
<1>4. AllocDynamic(t, p, p) BY <1>1, <1>3
<1> QED BY <1>1, <1>2, <1>3, <1>4, ReturnDynamic

\* An allocation ends with nothing, the entry to give back back in its caller's hands.
LEMMA AllocEndsEntries ==
  ASSUME SInv, EntryInv, NEW t \in Threads, AllocEnds(t)
  PROVE  EntryInv'
<1>1. /\ th[t].step = "alloc" /\ th[t].p = Pseudo
      /\ scenario' = scenario /\ mag' = mag /\ tls' = tls
  BY DEF AllocEnds
<1>2. TypeOK /\ CallOK(t) /\ ShapeInv BY DEF SInv, EntryInv
<1>3. th[t].op = "alloc" BY <1>1, <1>2, StepOp DEF AllocSteps
<1>4. th \in [Threads -> ThreadRec] /\ th[t] \in ThreadRec BY <1>2 DEF TypeOK
<1>5. PICK c \in Classes : th[t].group = Group(c) BY <1>2, <1>3 DEF CallOK, Called
<1>6. ASSUME Fallback(Pseudo), AllocDynamic(t, Pseudo, th[t].size) PROVE EntryInv'
  <2>1. Pseudo \in Pools /\ th[t].size \in Nat BY <1>2, <1>4, ScenarioFacts DEF ThreadRec
  <2>2. Pseudo \in th[t].group
    <3>1. scenario.ranged BY <1>2, <1>6, ScenarioFacts DEF Fallback
    <3> QED BY <1>5, <2>1, <3>1 DEF Group
  <2>3. PICK p \in Pools : p = Pseudo BY <2>1
  <2>4. PICK n \in Nat : n = th[t].size BY <2>1
  <2>5. AllocDynamic(t, p, n) /\ p \in th[t].group BY <1>6, <2>2, <2>3, <2>4
  <2> QED BY <1>1, <1>3, <2>5, ReturnDynamic
<1>7. ASSUME held' = (IF th[t].old = Null THEN held ELSE held \cup {th[t].old}), th' = [th EXCEPT ![t] = Idle], pool' = pool
      PROVE  EntryInv'
  <2>1. th'[t] = Idle /\ \A u \in Threads \ {t} : th'[u] = th[u] BY <1>4, <1>7
  <2>2. th'[t].old = Null /\ th'[t].step = "none" BY <2>1, IdleFields
  <2>3. \A u \in Threads \ {t} : Like(u) BY <2>1 DEF Like
  <2>4. PICK x : x = th[t].old OBVIOUS
  <2>5. \A y \in held' : y \in held \/ Shaped(y) BY <1>2, <1>7 DEF ShapeInv
  <2>6. ShapeInv' BY <1>2, <2>2, <2>3, <2>5, ShapeKeeps
  <2>7. Classes' = Classes /\ Classes \subseteq Pools /\ Pools \subseteq Nat BY <1>1, <1>2, ScenarioSame, ScenarioFacts
  <2>8. ASSUME NEW q \in Classes, Serving(q)' PROVE StoreAt(q)' /\ HoldAt(q)'
    <3>1. q \in Pools /\ q \in Nat BY <2>7
    <3>2. pool[q].mem = "live" BY <1>7, <2>8 DEF Serving
    <3>3. Serving(q) BY <1>1, <1>3, <2>3, <2>8, <3>1, <3>2, ServedBefore
    <3>4. StoreAt(q) /\ HoldAt(q) BY <3>3 DEF EntryInv
    <3>5. Caching(q)' = Caching(q) BY <1>1, CachingSame
    <3>6. StoreAt(q)' BY <1>1, <1>2, <1>7, <3>4, <3>5, StoreFrame
    <3>7. \A e : Block(q, e)' = Block(q, e) BY DEF Block
    <3>8. ASSUME NEW e \in Nat
          PROVE  /\ e \in pool'[q].taken <=> Block(q, e) \in held' \/ \E u \in Threads : th'[u].old = Block(q, e)
                 /\ Block(q, e) \in held' => \A u \in Threads : th'[u].old # Block(q, e)
                 /\ \A u, v \in Threads : th'[u].old = Block(q, e) /\ th'[v].old = Block(q, e) => u = v
      <4> DEFINE b == Block(q, e)
      <4>1. b # Null BY <3>1, BlockEq
      <4>2. /\ e \in pool[q].taken <=> b \in held \/ \E u \in Threads : th[u].old = b
            /\ b \in held => \A u \in Threads : th[u].old # b
            /\ \A u, v \in Threads : th[u].old = b /\ th[v].old = b => u = v
        BY <3>4 DEF HoldAt
      <4> HIDE DEF b
      <4>3. e \in pool'[q].taken <=> e \in pool[q].taken BY <1>7
      <4>4. CASE x = b
        <5>1. \A u \in Threads : th'[u].old # b BY <2>1, <2>2, <2>4, <4>1, <4>2, <4>4
        <5>2. b \in held' BY <1>7, <2>4, <4>1, <4>4
        <5>3. e \in pool[q].taken BY <2>4, <4>2, <4>4
        <5> QED BY <4>3, <5>1, <5>2, <5>3 DEF b
      <4>5. CASE x # b
        <5>1. \A u \in Threads : th'[u].old = b <=> th[u].old = b BY <2>1, <2>2, <2>4, <4>1, <4>5
        <5>2. b \in held' <=> b \in held BY <1>7, <2>4, <4>5
        <5> QED BY <4>2, <4>3, <5>1, <5>2 DEF b
      <4> QED BY <4>4, <4>5
    <3>9. HoldAt(q)' BY <3>7, <3>8 DEF HoldAt
    <3> QED BY <3>6, <3>9
  <2> QED BY <2>6, <2>7, <2>8 DEF EntryInv
<1> QED BY <1>6, <1>7 DEF AllocEnds

LEMMA AskFoundEntries ==
  ASSUME SInv, EntryInv, NEW t \in Threads, AskFound(t)
  PROVE  EntryInv'
<1>1. /\ th[t].step = "ask" /\ th[t].op = "free" /\ StoreStep /\ held' = held /\ mag' = mag
      /\ \A q \in Pools : pool'[q].free = pool[q].free /\ pool'[q].taken = pool[q].taken
      /\ th'[t] = Idle /\ \A u \in Threads \ {t} : th'[u] = th[u]
  BY AskFoundDoes
<1>2. TypeOK /\ ShapeInv BY DEF SInv, EntryInv
<1>3. \A u \in Threads \ {t} : Like(u) BY <1>1 DEF Like
<1>4. th'[t].old = Null /\ th'[t].step = "none" BY <1>1, IdleFields
<1>5. ShapeInv' BY <1>1, <1>2, <1>3, <1>4, ShapeKeeps
<1>6. Classes \subseteq Pools /\ Pools \subseteq Nat BY <1>2, ScenarioFacts
<1>7. ASSUME NEW p \in Classes, NEW e \in Nat PROVE th'[t].old # Block(p, e) /\ th[t].old # Block(p, e)
  <2>1. Block(p, e) # Null /\ Block(p, e).kind = "block" BY <1>6, BlockEq
  <2>2. th[t].old.kind = "dynamic" BY <1>1, <1>2 DEF ShapeInv
  <2> QED BY <1>4, <2>1, <2>2
<1>8. \A q : Caching(q)' = Caching(q) BY <1>1, CachingSame
<1>9. scenario' = scenario /\ \A q \in Pools : pool'[q].mem = pool[q].mem BY <1>1 DEF StoreStep
<1> QED BY <1>1, <1>3, <1>5, <1>6, <1>7, <1>8, <1>9, EntriesStay

-----------------------------------------------------------------------------
(* Magazines and pools that come and go.                                   *)

\* What the callers hold stays as it is, but for the pools that go.
LEMMA EntriesHeld ==
  ASSUME SInv, EntryInv, NEW t \in Threads, scenario' = scenario, \A u \in Threads \ {t} : Like(u),
         th[t].op = "destroy" => \/ th'[t].op = "destroy" /\ th'[t].group = th[t].group
                                 \/ \A q \in th[t].group : pool'[q].mem # "live",
         th'[t].old = th[t].old, th'[t].step # "ask", held' \subseteq held,
         \A q \in Classes : Serving(q)' => /\ pool[q].mem = "live" /\ pool'[q].taken = pool[q].taken
                                           /\ \A e \in Nat : Block(q, e) \in held => Block(q, e) \in held',
         \A q \in Classes : Serving(q) /\ Serving(q)' /\ StoreAt(q) => StoreAt(q)'
  PROVE  EntryInv'
<1>1. TypeOK /\ ShapeInv BY DEF SInv, EntryInv
<1>2. Classes' = Classes /\ Classes \subseteq Pools BY <1>1, ScenarioSame, ScenarioFacts
<1>3. ShapeInv'
  <2>1. th'[t].old # Null => Shaped(th'[t].old) BY <1>1 DEF ShapeInv
  <2> QED BY <1>1, <2>1, ShapeKeeps
<1>4. ASSUME NEW q \in Classes, Serving(q)' PROVE StoreAt(q)' /\ HoldAt(q)'
  <2>1. q \in Pools /\ pool[q].mem = "live" BY <1>2, <1>4
  <2>2. Serving(q) BY <1>4, <2>1, ServedBefore
  <2>3. StoreAt(q) /\ HoldAt(q) BY <2>2 DEF EntryInv
  <2>4. StoreAt(q)' BY <1>4, <2>2, <2>3
  <2>5. \A u \in Threads \ {t} : th'[u].old = th[u].old BY <1>1, LikeFields
  <2>6. \A e \in Nat : \A u \in Threads : th'[u].old = Block(q, e) <=> th[u].old = Block(q, e) BY <2>5
  <2>7. \A e \in Nat : Block(q, e) \in held' <=> Block(q, e) \in held BY <1>4
  <2>8. pool'[q].taken = pool[q].taken BY <1>4
  <2>9. HoldAt(q)' BY <2>3, <2>6, <2>7, <2>8, HoldFrame
  <2> QED BY <2>4, <2>9
<1> QED BY <1>2, <1>3, <1>4 DEF EntryInv

\* A new magazine is empty.
LEMMA NewMagazineEntries ==
  ASSUME SInv, EntryInv, NEW t \in Threads, NEW m \in Mags, th[t].step \in {"create", "freeCreate"},
         NEW s, s = (IF th[t].step = "create" THEN "pop" ELSE "push"), NewMagazine(t, th[t].p, m, s)
  PROVE  EntryInv'
<1>1. PICK p \in Pools : p = th[t].p
  <2>1. TypeOK /\ CallOK(t) BY DEF SInv
  <2> QED BY <2>1, AtClass DEF AllocSteps, FreeSteps
<1>2. /\ p \in Classes /\ p \in Pools /\ mag[m].mem = "none"
      /\ \A u \in Threads \ {t} : Like(u)
      /\ mag'[m] = [mem |-> "live", pool |-> p, slots |-> <<>>] /\ \A n \in Mags \ {m} : mag'[n] = mag[n]
      /\ \A q \in Pools : pool'[q].mem = pool[q].mem /\ pool'[q].free = pool[q].free /\ pool'[q].taken = pool[q].taken
      /\ th'[t].op = th[t].op /\ th'[t].step = s /\ th'[t].old = th[t].old /\ th'[t].group = th[t].group
  <2>1. p \in Classes /\ p \in Pools /\ mag[m].mem = "none" BY <1>1, NewMagazineDoes
  <2>2. \A u \in Threads \ {t} : Like(u) BY <1>1, NewMagazineDoes
  <2>3. mag'[m] = [mem |-> "live", pool |-> p, slots |-> <<>>] /\ \A n \in Mags \ {m} : mag'[n] = mag[n] BY <1>1, NewMagazineDoes
  <2>4. \A q \in Pools : pool'[q].mem = pool[q].mem /\ pool'[q].free = pool[q].free /\ pool'[q].taken = pool[q].taken
    BY <1>1, NewMagazineDoes
  <2>5. th'[t].op = th[t].op /\ th'[t].step = s /\ th'[t].old = th[t].old /\ th'[t].group = th[t].group
    <3>1. TypeOK BY DEF SInv
    <3>2. th' = [th EXCEPT ![t].step = s, ![t].mag = m] BY DEF NewMagazine
    <3> QED BY <3>1, <3>2, SameStepMag DEF Same
  <2> QED BY <2>1, <2>2, <2>3, <2>4, <2>5
<1>3. scenario' = scenario /\ held' = held BY DEF NewMagazine
<1>4. TypeOK BY DEF SInv
<1>5. Classes \subseteq Pools BY <1>4, ScenarioFacts
<1>6. mag'[m].mem = "live" /\ mag'[m].pool = p /\ mag'[m].slots = <<>> BY <1>2
<1>7. ASSUME NEW q \in Classes, Serving(q), StoreAt(q) PROVE StoreAt(q)'
  <2>1. pool'[q].free = pool[q].free /\ pool'[q].taken = pool[q].taken BY <1>2, <1>5
  <2>2. m \notin Caching(q) BY <1>2 DEF Caching
  <2>3. \A n \in Caching(q) : mag'[n] = mag[n] BY <1>2, <1>4, <2>2, SlotsOf
  <2>4. CASE q # p
    <3>1. Caching(q)' = Caching(q) BY <1>2, <1>6, <2>4 DEF Caching
    <3> QED BY <1>3, <1>4, <1>7, <2>1, <2>3, <3>1, StoreFrame
  <2>5. CASE q = p
    <3>1. Caching(q)' = Caching(q) \cup {m} BY <1>2, <1>6, <2>5 DEF Caching
    <3>2. Slots'[m] = <<>> /\ \A n \in Caching(q) : Slots'[n] = Slots[n] BY <1>4, <1>6, <2>3, SlotsOf, SlotsPrimed
    <3>3. Capacity(Count(q)) \in Nat BY <1>7, StoreFacts
    <3>4. Stored(pool[q].free, pool[q].taken, Caching(q), Slots, Total(q), Capacity(Count(q))) BY <1>7 DEF StoreAt
    <3>5. Stored(pool[q].free, pool[q].taken, Caching(q) \cup {m}, Slots', Total(q), Capacity(Count(q)))
      BY <2>2, <3>2, <3>3, <3>4, StoreGrows
    <3> QED BY <1>3, <2>1, <3>1, <3>5, StorePrimed
  <2> QED BY <2>4, <2>5
<1>8. th'[t].step # "ask" BY <1>2
<1>9. \A q \in Classes : Serving(q)' => /\ pool[q].mem = "live" /\ pool'[q].taken = pool[q].taken
                                        /\ \A e \in Nat : Block(q, e) \in held => Block(q, e) \in held'
  BY <1>2, <1>3, <1>5 DEF Serving
<1>10. th[t].op # "destroy"
  <2>1. CallOK(t) BY DEF SInv
  <2> QED BY <1>4, <2>1, StepOp
<1> QED BY <1>2, <1>3, <1>7, <1>8, <1>9, <1>10, EntriesHeld

LEMMA CreatesEntries ==
  ASSUME SInv, EntryInv, NEW t \in Threads, AllocCreates(t) \/ FreeCreates(t)
  PROVE  EntryInv'
<1>1. th[t].step \in {"create", "freeCreate"} BY CreateCases
<1>2. ASSUME Goto(t, IF th[t].step = "create" THEN "serve" ELSE "lockedFree"),
             scenario' = scenario, pool' = pool, mag' = mag, held' = held
      PROVE  EntryInv'
  <2>1. PICK r \in {"serve", "lockedFree"} : Goto(t, r) BY <1>2
  <2>2. r # "ask" OBVIOUS
  <2> QED BY <1>2, <2>1, <2>2, GotoEntries
<1>3. CASE \E m \in Mags : NewMagazine(t, th[t].p, m, IF th[t].step = "create" THEN "pop" ELSE "push")
  BY <1>1, <1>3, NewMagazineEntries
<1> QED BY <1>2, <1>3, CreateCases

\* An orphan that is freed, or made, is none of a pool that serves.
LEMMA ReapEntries ==
  ASSUME SInv, EntryInv, NEW t \in Threads, Reap(t)
  PROVE  EntryInv'
<1>1. TypeOK BY DEF SInv
<1>2. tls[t].mags \in Seq(Mags) BY <1>1, OwnType
<1>3. PICK j \in DOMAIN tls[t].mags : \E m \in {tls[t].mags[j]} :
        /\ th[t].step \in {"find", "freeFind"} /\ mag[m].pool = Null /\ Frees(m)
        /\ scenario' = scenario /\ pool' = pool /\ held' = held /\ th' = th
  BY DEF Reap, Frees, poolVars
<1>4. PICK m \in {tls[t].mags[j]} :
        /\ th[t].step \in {"find", "freeFind"} /\ mag[m].pool = Null /\ Frees(m)
        /\ scenario' = scenario /\ pool' = pool /\ held' = held /\ th' = th
  BY <1>3
<1>5. m \in Mags BY <1>2, ElementOfSeq
<1>6. /\ mag'[m].mem = "freed" /\ mag'[m].pool = Null
      /\ \A n \in Mags \ {m} : mag'[n] = mag[n]
  BY <1>1, <1>4, <1>5, FreesDoes
<1>7. Classes \subseteq Pools /\ Pools \subseteq Nat BY <1>1, ScenarioFacts
<1>8. ASSUME NEW q \in Classes, StoreAt(q) PROVE StoreAt(q)'
  <2>1. q # Null BY <1>7, NullFacts
  <2>2. Caching(q)' = Caching(q) BY <1>4, <1>6, <2>1 DEF Caching
  <2>3. \A n \in Caching(q) : mag'[n] = mag[n] BY <1>4, <1>6, <2>1 DEF Caching
  <2> QED BY <1>1, <1>4, <1>8, <2>2, <2>3, StoreFrame
<1>9. th'[t].step # "ask" /\ \A u \in Threads \ {t} : Like(u) BY <1>4 DEF Like
<1>10. \A q \in Classes : Serving(q)' => /\ pool[q].mem = "live" /\ pool'[q].taken = pool[q].taken
                                         /\ \A e \in Nat : Block(q, e) \in held => Block(q, e) \in held'
  BY <1>4 DEF Serving
<1> QED BY <1>4, <1>8, <1>9, <1>10, EntriesHeld

LEMMA DestroyUnlinksEntries ==
  ASSUME SInv, EntryInv, NEW t \in Threads, DestroyUnlinks(t)
  PROVE  EntryInv'
<1>1. th[t].step = "unlink" BY DEF DestroyUnlinks
<1>2. PICK p \in Pools : p = th[t].p BY <1>1, Destroying
<1>3. TypeOK /\ th[t].op = "destroy" BY <1>1, Destroying
<1>4. PICK m : th' = [th EXCEPT ![t].step = "orphan", ![t].mag = m] BY DEF DestroyUnlinks
<1>5. /\ scenario' = scenario /\ mag' = mag /\ held' = held /\ pool' = [pool EXCEPT ![p].mags = Tail(@)]
  BY <1>2 DEF DestroyUnlinks
<1>6. Same(t) /\ th'[t].step = "orphan" /\ \A u \in Threads \ {t} : Like(u) BY <1>3, <1>4, SameStepMag DEF Like
<1>7. \A q \in Pools : pool'[q].mem = pool[q].mem /\ pool'[q].free = pool[q].free /\ pool'[q].taken = pool[q].taken
  <2>1. DOMAIN pool = Pools /\ PoolType(pool[p]) BY <1>3 DEF TypeOK
  <2>2. pool'[p] = [pool[p] EXCEPT !.mags = Tail(pool[p].mags)] /\ \A q \in Pools \ {p} : pool'[q] = pool[q] BY <1>5, <2>1
  <2>3. PICK r : r = pool[p] OBVIOUS
  <2>4. pool'[p].mem = r.mem /\ pool'[p].free = r.free /\ pool'[p].taken = r.taken BY <2>1, <2>2, <2>3 DEF PoolType
  <2> QED BY <2>2, <2>3, <2>4
<1>8. Classes \subseteq Pools BY <1>3, ScenarioFacts
<1>9. th'[t].step # "ask" BY <1>6
<1> QED BY <1>5, <1>6, <1>7, <1>8, <1>9, SameStays DEF Same

LEMMA DestroyOrphansEntries ==
  ASSUME SInv, EntryInv, NEW t \in Threads, DestroyOrphans(t)
  PROVE  EntryInv'
<1>1. th[t].step = "orphan" BY DEF DestroyOrphans
<1>2. PICK p \in Pools : p = th[t].p BY <1>1, Destroying
<1>3. TypeOK /\ HandOK(t) /\ th[t].op = "destroy" /\ th[t].group = Group(p) BY <1>1, <1>2, Destroying
<1>4. PICK m \in Mags : m = th[t].mag /\ mag[m].pool = p
  <2>1. th[t].mag \in Mags \cup {Null} BY <1>3, SameRec
  <2> QED BY <1>1, <1>2, <1>3, <2>1 DEF HandOK
<1>5. /\ mag' = [mag EXCEPT ![m].pool = Null]
      /\ th' = [th EXCEPT ![t].step = "unlink", ![t].mag = Null]
      /\ scenario' = scenario /\ pool' = pool /\ held' = held
  BY <1>4 DEF DestroyOrphans, poolVars
<1>6. Same(t) /\ th'[t].step = "unlink" /\ \A u \in Threads \ {t} : Like(u) BY <1>3, <1>5, SameStepMag DEF Like
<1>7. mag'[m].pool = Null /\ \A n \in Mags \ {m} : mag'[n] = mag[n]
  <2>1. mag \in [Mags -> MagRec] /\ mag[m] \in MagRec BY <1>3 DEF TypeOK
  <2>2. mag' = [mag EXCEPT ![m] = [mag[m] EXCEPT !.pool = Null]] BY <1>5
  <2> QED BY <2>1, <2>2 DEF MagRec
<1>8. Classes \subseteq Pools /\ Pools \subseteq Nat BY <1>3, ScenarioFacts
<1>9. ASSUME NEW q \in Classes, Serving(q), StoreAt(q) PROVE StoreAt(q)'
  <2>1. q # p BY <1>3, <1>9 DEF Serving, Calling
  <2>2. q # Null BY <1>8, NullFacts
  <2>3. Caching(q)' = Caching(q) BY <1>4, <1>7, <2>1, <2>2 DEF Caching
  <2>4. \A n \in Caching(q) : mag'[n] = mag[n] BY <1>4, <1>7, <2>1 DEF Caching
  <2> QED BY <1>3, <1>5, <1>9, <2>3, <2>4, StoreFrame
<1>10. \A q \in Classes : Serving(q)' => /\ pool[q].mem = "live" /\ pool'[q].taken = pool[q].taken
                                         /\ \A e \in Nat : Block(q, e) \in held => Block(q, e) \in held'
  BY <1>5 DEF Serving
<1>11. th'[t].step # "ask" BY <1>6
<1> QED BY <1>5, <1>6, <1>9, <1>10, <1>11, EntriesHeld DEF Same

\* An exit gives a magazine's entries to its pool, if it still has one.
LEMMA DrainFlushesEntries ==
  ASSUME SInv, EntryInv, NEW t \in Threads, DrainFlushes(t)
  PROVE  EntryInv'
<1>1. th[t].step = "flush" BY DEF DrainFlushes
<1>2. PICK m \in Mags : m = Head(th[t].todo) BY <1>1, Flushing
<1>3. PICK p : p = th[t].p OBVIOUS
<1>4. /\ TypeOK /\ CallOK(t) /\ th[t].op = "exit" /\ mag[m].mem = "live" /\ mag[m].slots \in Seq(Nat)
      /\ \/ p = 0 /\ mag[m].pool = Null
         \/ p # 0 /\ mag[m].pool = p /\ p \in Classes
  BY <1>1, <1>2, <1>3, Flushing
<1>5. /\ Frees(m) /\ scenario' = scenario /\ held' = held
      /\ th'[t].step = "drain" /\ th'[t].old = th[t].old /\ \A u \in Threads \ {t} : th'[u] = th[u]
      /\ \/ p = 0 /\ pool' = pool
         \/ /\ p # 0
            /\ \A q \in Pools \ {p} : pool'[q] = pool[q]
            /\ \A q \in Pools : pool'[q].mem = pool[q].mem /\ pool'[q].taken = pool[q].taken
            /\ pool'[p].free = Flushed(pool[p].free, mag[m].slots, Len(mag[m].slots))
  BY <1>2, <1>3, DrainFlushesDoes
<1>6. mag'[m].mem = "freed" /\ \A n \in Mags \ {m} : mag'[n] = mag[n] BY <1>4, <1>5, FreesDoes
<1>7. Classes \subseteq Pools /\ Pools \subseteq Nat BY <1>4, ScenarioFacts
<1>8. ASSUME NEW q \in Classes, StoreAt(q) PROVE StoreAt(q)'
  <2>1. q # Null BY <1>7, NullFacts
  <2>2. CASE mag[m].pool # q
    <3>1. Caching(q)' = Caching(q) BY <1>6, <2>2 DEF Caching
    <3>2. \A n \in Caching(q) : mag'[n] = mag[n] BY <1>6, <2>2 DEF Caching
    <3>3. pool'[q].free = pool[q].free /\ pool'[q].taken = pool[q].taken BY <1>4, <1>5, <1>7, <2>2
    <3> QED BY <1>4, <1>5, <1>8, <3>1, <3>2, <3>3, StoreFrame
  <2>3. CASE mag[m].pool = q
    <3>1. p = q /\ p # 0 BY <1>4, <2>1, <2>3
    <3>2. PICK f, s : f = pool[q].free /\ s = mag[m].slots OBVIOUS
    <3>3. m \in Caching(q) BY <1>4, <2>3 DEF Caching
    <3>4. /\ f \in Seq(Nat) /\ Distinct(f) /\ s \in Seq(Nat) /\ Distinct(s) /\ Elems(s) \cap Elems(f) = {}
      BY <1>8, <3>2, <3>3, StoreFacts
    <3>5. Flushed(f, s, Len(s)) = Reverse(s) \o f
      <4>1. Len(s) - Len(s) + 1 = 1 BY <3>4
      <4>2. SubSeq(s, 1, Len(s)) = s BY <3>4
      <4> QED BY <4>1, <4>2 DEF Flushed
    <3>6. Reverse(s) \in Seq(Nat) /\ Elems(Reverse(s)) = Elems(s) /\ Distinct(Reverse(s)) BY <3>4, ReverseElems
    <3>7. Elems(Reverse(s) \o f) = Elems(f) \cup Elems(s) /\ Distinct(Reverse(s) \o f) BY <3>4, <3>6, ConcatElems
    <3>8. pool'[q].free = Reverse(s) \o f /\ pool'[q].taken = pool[q].taken BY <1>5, <1>7, <3>1, <3>2, <3>5
    <3>9. Caching(q)' = Caching(q) \ {m} BY <1>6, <2>3 DEF Caching
    <3>10. Slots[m] = s /\ \A n \in Caching(q) \ {m} : Slots'[n] = Slots[n] BY <1>4, <1>6, <3>2, SlotsOf, SlotsPrimed
    <3>11. Stored(f, pool[q].taken, Caching(q), Slots, Total(q), Capacity(Count(q))) BY <1>8, <3>2 DEF StoreAt
    <3>12. PICK g : g = Reverse(s) \o f OBVIOUS
    <3>13. Distinct(g) /\ Elems(g) = Elems(f) \cup Elems(Slots[m]) BY <3>7, <3>10, <3>12
    <3>14. Stored(g, pool[q].taken, Caching(q) \ {m}, Slots', Total(q), Capacity(Count(q)))
      BY <3>3, <3>10, <3>11, <3>13, StoreFlushes
    <3> QED BY <1>5, <3>8, <3>9, <3>12, <3>14, StorePrimed
  <2> QED BY <2>2, <2>3
<1>9. th'[t].step # "ask" /\ \A u \in Threads \ {t} : Like(u) BY <1>5 DEF Like
<1>10. \A q \in Classes : Serving(q)' => /\ pool[q].mem = "live" /\ pool'[q].taken = pool[q].taken
                                         /\ \A e \in Nat : Block(q, e) \in held => Block(q, e) \in held'
  BY <1>5, <1>7 DEF Serving
<1> QED BY <1>4, <1>5, <1>8, <1>9, <1>10, EntriesHeld

\* The last pool of a group is its largest.
LEMMA LastOfGroup ==
  ASSUME TypeOK, NEW q \in Classes
  PROVE  \A x \in Group(q) : x \in Nat /\ x <= Max(Group(q))
<1>1. Pools \subseteq Nat /\ q \in Pools /\ Pseudo \in Pools BY ScenarioFacts
<1>2. CASE ~scenario.ranged
  <2>1. Group(q) = {q} /\ q \in Nat BY <1>1, <1>2 DEF Group
  <2>2. Max({q}) = q
    <3>1. Max({q}) = CHOOSE x \in {q} : \A y \in {q} : x >= y BY DEF Max
    <3> QED BY <2>1, <3>1
  <2> QED BY <2>1, <2>2
<1>3. CASE scenario.ranged
  <2>1. PICK n \in Nat : n = Pseudo BY <1>1
  <2>2. Group(q) = 1 .. n /\ q \in 1 .. n BY <1>1, <1>3, <2>1 DEF Group, Pools
  <2>3. n \in 1 .. n /\ \A y \in 1 .. n : n >= y BY <2>2
  <2>4. \A x \in 1 .. n : (\A y \in 1 .. n : x >= y) => x = n BY <2>3
  <2>5. Max(1 .. n) = n
    <3>1. Max(1 .. n) = CHOOSE x \in 1 .. n : \A y \in 1 .. n : x >= y BY DEF Max
    <3> QED BY <2>3, <2>4, <3>1
  <2> QED BY <2>2, <2>5
<1> QED BY <1>2, <1>3

LEMMA DestroyFreesEntries ==
  ASSUME SInv, EntryInv, NEW t \in Threads, DestroyFrees(t)
  PROVE  EntryInv'
<1>1. th[t].step = "unlink" BY DEF DestroyFrees
<1>2. PICK p \in Pools : p = th[t].p BY <1>1, Destroying
<1>3. /\ TypeOK /\ th[t].op = "destroy" /\ p \in Nat
      /\ \A x \in th[t].group : x \in Pools /\ pool[x].mem = IF x < p THEN "freed" ELSE "live"
      /\ th[t].old = Null
  BY <1>1, <1>2, Destroying
<1>4. /\ scenario' = scenario /\ mag' = mag /\ held' = held
      /\ pool'[p].mem = "freed" /\ \A q \in Pools \ {p} : pool'[q] = pool[q]
      /\ \A u \in Threads \ {t} : th'[u] = th[u]
      /\ \/ th'[t] = Idle /\ p = Max(th[t].group)
         \/ /\ th'[t].op = "destroy" /\ th'[t].step = "destroy" /\ th'[t].group = th[t].group /\ th'[t].old = th[t].old
  BY <1>2, DestroyFreesDoes
<1>5. PICK q \in Classes : th[t].group = Group(q) BY <1>1, Destroying
<1>6. th'[t].old = Null /\ th'[t].step # "ask" BY <1>3, <1>4, IdleFields
<1>7. (th'[t].op = "destroy" /\ th'[t].group = th[t].group) \/ \A x \in th[t].group : pool'[x].mem # "live"
  <2>1. ASSUME p = Max(th[t].group), NEW x \in th[t].group PROVE pool'[x].mem # "live"
    <3>1. x \in Nat /\ x <= p BY <1>3, <1>5, <2>1, LastOfGroup
    <3>2. CASE x = p BY <1>4, <3>2
    <3>3. CASE x # p
      <4>1. x < p BY <1>3, <3>1, <3>3
      <4> QED BY <1>3, <1>4, <2>1, <3>3, <4>1
    <3> QED BY <3>2, <3>3
  <2> QED BY <1>4, <2>1
<1>8. Classes \subseteq Pools BY <1>3, ScenarioFacts
<1>9. \A x \in Classes : Serving(x)' => x # p /\ pool'[x] = pool[x] BY <1>4, <1>8 DEF Serving
<1>10. \A x \in Classes : Serving(x)' => /\ pool[x].mem = "live" /\ pool'[x].taken = pool[x].taken
                                         /\ \A e \in Nat : Block(x, e) \in held => Block(x, e) \in held'
  BY <1>4, <1>9 DEF Serving
<1>11. ASSUME NEW x \in Classes, Serving(x)', StoreAt(x) PROVE StoreAt(x)'
  <2>1. pool'[x] = pool[x] /\ Caching(x)' = Caching(x) BY <1>4, <1>9, <1>11, CachingSame
  <2> QED BY <1>3, <1>4, <1>11, <2>1, StoreFrame
<1>12. \A u \in Threads \ {t} : Like(u) BY <1>4 DEF Like
<1> QED BY <1>3, <1>4, <1>6, <1>7, <1>10, <1>11, <1>12, EntriesHeld

LEMMA DestroyEntries ==
  ASSUME SInv, EntryInv, NEW t \in Threads, NEW p \in Classes, Destroy(t, p)
  PROVE  EntryInv'
<1>1. /\ th[t] = Idle /\ held' = {x \in held : x.p \notin Group(p)}
      /\ th' = [th EXCEPT ![t] = [Idle EXCEPT !.op = "destroy", !.step = "destroy", !.p = p, !.group = Group(p)]]
      /\ scenario' = scenario /\ pool' = pool /\ mag' = mag
  BY DEF Destroy, poolVars
<1>2. TypeOK /\ th \in [Threads -> ThreadRec] BY DEF SInv, TypeOK
<1>3. /\ th'[t] = [Idle EXCEPT !.op = "destroy", !.step = "destroy", !.p = p, !.group = Group(p)]
      /\ \A u \in Threads \ {t} : th'[u] = th[u]
  BY <1>1, <1>2
<1>4. th'[t].op = "destroy" /\ th'[t].step = "destroy" /\ th'[t].group = Group(p) /\ th'[t].old = Null
  <2>1. PICK r \in ThreadRec : r = Idle BY IdleFields
  <2>2. th'[t] = [r EXCEPT !.op = "destroy", !.step = "destroy", !.p = p, !.group = Group(p)] BY <1>3, <2>1
  <2>3. r.old = Null BY <2>1, IdleFields
  <2> QED BY <2>2, <2>3 DEF ThreadRec
<1>5. th[t].old = Null /\ th[t].op = "none" BY <1>1, IdleFields
<1>6. Classes \subseteq Pools /\ p \in Pools /\ Pools \subseteq Nat BY <1>2, ScenarioFacts
<1>7. ASSUME NEW q \in Classes, Serving(q)'
      PROVE  /\ pool[q].mem = "live" /\ pool'[q].taken = pool[q].taken
             /\ \A e \in Nat : Block(q, e) \in held => Block(q, e) \in held'
  <2>1. Group(q)' = Group(q) BY <1>1, ScenarioSame
  <2>2. Group(q) # Group(p) BY <1>4, <1>7, <2>1 DEF Serving, Calling
  <2>3. q \notin Group(p) BY <1>6, <2>2, GroupFacts
  <2>4. \A e \in Nat : Block(q, e).p = q BY DEF Block
  <2>5. pool[q].mem = "live" BY <1>1, <1>7 DEF Serving
  <2> QED BY <1>1, <2>3, <2>4, <2>5
<1>8. ASSUME NEW q \in Classes, StoreAt(q) PROVE StoreAt(q)'
  <2>1. Caching(q)' = Caching(q) BY <1>1, CachingSame
  <2> QED BY <1>1, <1>2, <1>8, <2>1, StoreFrame
<1>9. \A u \in Threads \ {t} : Like(u) BY <1>3 DEF Like
<1>10. held' \subseteq held BY <1>1
<1>11. th'[t].old = th[t].old /\ th'[t].step # "ask" /\ th[t].op # "destroy" BY <1>4, <1>5
<1> QED BY <1>1, <1>7, <1>8, <1>9, <1>10, <1>11, EntriesHeld

\* All entries of a new pool lie on its list.
LEMMA StoreNew ==
  ASSUME NEW n \in Nat, NEW s, NEW cap
  PROVE  Stored([i \in 1 .. n |-> i], {}, {}, s, n, cap)
<1>1. PICK f : f = [i \in 1 .. n |-> i] OBVIOUS
<1>2. \A i \in 1 .. n : i \in Nat OBVIOUS
<1>3. f \in Seq(Nat) BY <1>1, <1>2, IsASeq
<1>4. Len(f) = n /\ \A i \in 1 .. n : f[i] = i BY <1>1, <1>3
<1>5. Distinct(f) BY <1>4 DEF Distinct
<1>6. \A e : e \in 1 .. n <=> e \in Elems(f) BY <1>4 DEF Elems
<1> QED BY <1>1, <1>5, <1>6 DEF Stored

\* Nothing of a pool that is gone is held.
LEMMA FreshHolds ==
  ASSUME SInv, NEW q \in Classes, ~Serving(q), held' = held, th' = th, pool'[q].taken = {}
  PROVE  HoldAt(q)'
<1>1. TypeOK BY DEF SInv
<1>2. q \in Pools /\ q \in Nat BY <1>1, ScenarioFacts
<1>3. \A e : Block(q, e)' = Block(q, e) BY DEF Block
<1>4. ASSUME NEW e \in Nat PROVE Block(q, e) \notin held /\ \A u \in Threads : th[u].old # Block(q, e)
  <2>1. Block(q, e) # Null /\ Block(q, e).p = q BY <1>2, BlockEq
  <2>2. PICK b : b = Block(q, e) OBVIOUS
  <2>3. b \notin held
    <3>1. \A x \in held : Serving(x.p) BY DEF SInv
    <3> QED BY <2>1, <2>2, <3>1
  <2>4. ASSUME NEW u \in Threads, th[u].old = b PROVE FALSE
    <3>1. CallOK(u) BY DEF SInv
    <3>2. q \in th[u].group /\ th[u].op \in {"alloc", "free"} BY <2>1, <2>2, <2>4, <3>1 DEF CallOK
    <3> QED BY <3>2, CallServes
  <2> QED BY <2>2, <2>3, <2>4
<1> QED BY <1>3, <1>4 DEF HoldAt

LEMMA CreatePoolsEntries ==
  ASSUME SInv, EntryInv, NEW t \in Threads, NEW p \in Classes, CreatePools(t, p)
  PROVE  EntryInv'
<1>1. /\ scenario' = scenario /\ mag' = mag /\ held' = held /\ th' = th
      /\ \A q \in Pools : pool'[q] = IF q \in Group(p) THEN NewPool(q) ELSE pool[q]
      /\ \A q \in Group(p) : q \in Pools /\ pool[q].mem = "freed" /\ ~Serving(q)
  BY CreatePoolsDoes
<1>2. TypeOK /\ PoolInv BY DEF SInv
<1>3. Classes' = Classes /\ Classes \subseteq Pools /\ Pools \subseteq Nat BY <1>1, <1>2, ScenarioSame, ScenarioFacts
<1>4. ShapeInv'
  <2>1. \A x : Shaped(x)' <=> Shaped(x) BY DEF Shaped, Block
  <2> QED BY <1>1, <2>1 DEF EntryInv, ShapeInv
<1>5. \A q : Caching(q)' = Caching(q) BY <1>1, CachingSame
<1>6. ASSUME NEW q \in Classes, Serving(q)' PROVE StoreAt(q)' /\ HoldAt(q)'
  <2>1. q \in Pools BY <1>3
  <2>2. CASE q \notin Group(p)
    <3>1. pool'[q] = pool[q] BY <1>1, <2>1, <2>2
    <3>2. \A x : Group(x)' = Group(x) BY <1>1, ScenarioSame
    <3>3. Serving(q) BY <1>1, <1>6, <3>1, <3>2 DEF Serving, Calling
    <3>4. StoreAt(q) /\ HoldAt(q) BY <3>3 DEF EntryInv
    <3>5. StoreAt(q)' BY <1>1, <1>2, <1>5, <3>1, <3>4, StoreFrame
    <3>6. HoldAt(q)' BY <1>1, <3>1, <3>4, HoldFrame
    <3> QED BY <3>5, <3>6
  <2>3. CASE q \in Group(p)
    <3>1. /\ Total(q) \in Nat /\ pool'[q].free = [i \in 1 .. Total(q) |-> i] /\ pool'[q].taken = {}
      BY <1>1, <1>2, <2>1, <2>3, NewPoolFacts
    <3>2. PoolAt(q) /\ pool[q].mem = "freed" /\ pool[q].mags = <<>> BY <1>1, <1>2, <2>3 DEF PoolInv, PoolAt
    <3>3. \A x : x \notin Elems(<<>>) BY DEF Elems
    <3>4. Caching(q) = {}
      <4> SUFFICES ASSUME NEW n \in Mags, mag[n].mem = "live", mag[n].pool = q PROVE FALSE BY DEF Caching
      <4>1. PICK u \in Threads : th[u].step = "orphan" /\ th[u].mag = n BY <3>2, <3>3 DEF PoolAt
      <4>2. HandOK(u) /\ pool[th[u].p].mem = "live" BY <4>1, Destroying
      <4>3. th[u].p = q BY <4>1, <4>2 DEF HandOK
      <4> QED BY <3>2, <4>2, <4>3
    <3>5. Caching(q)' = {} BY <1>5, <3>4
    <3>6. Stored([i \in 1 .. Total(q) |-> i], {}, {}, Slots', Total(q), Capacity(Count(q)))
      <4>1. PICK n \in Nat : n = Total(q) BY <3>1
      <4>2. PICK s, c : s = Slots' /\ c = Capacity(Count(q)) OBVIOUS
      <4>3. Stored([i \in 1 .. n |-> i], {}, {}, s, n, c) BY StoreNew
      <4> QED BY <4>1, <4>2, <4>3
    <3>7. StoreAt(q)' BY <1>1, <3>1, <3>5, <3>6, StorePrimed
    <3>8. HoldAt(q)' BY <1>1, <2>3, <3>1, FreshHolds
    <3> QED BY <3>7, <3>8
  <2> QED BY <2>2, <2>3
<1> QED BY <1>3, <1>4, <1>6 DEF EntryInv

LEMMA InitEntries ==
  ASSUME Init
  PROVE  EntryInv
<1>1. TypeOK BY InitInv DEF SInv
<1>2. /\ pool = [p \in Pools |-> NewPool(p)] /\ mag = [m \in Mags |-> NoMag]
      /\ held = {} /\ th = [t \in Threads |-> Idle]
  BY DEF Init
<1>3. \A t \in Threads : th[t].old = Null /\ th[t].step = "none" BY <1>2, IdleFields
<1>4. ShapeInv BY <1>2, <1>3 DEF ShapeInv
<1>5. Classes \subseteq Pools /\ Pools \subseteq Nat BY <1>1, ScenarioFacts
<1>6. ASSUME NEW q \in Classes PROVE StoreAt(q) /\ HoldAt(q)
  <2>1. q \in Pools /\ q \in Nat BY <1>5
  <2>2. Total(q) \in Nat /\ pool[q].free = [i \in 1 .. Total(q) |-> i] /\ pool[q].taken = {}
    BY <1>1, <1>2, <2>1, NewPoolFacts
  <2>3. Caching(q) = {} BY <1>2 DEF Caching, NoMag
  <2>4. Stored([i \in 1 .. Total(q) |-> i], {}, {}, Slots, Total(q), Capacity(Count(q))) BY <2>2, StoreNew
  <2>5. StoreAt(q) BY <2>2, <2>3, <2>4 DEF StoreAt
  <2>6. \A e \in Nat : Block(q, e) # Null BY <2>1, BlockEq
  <2>7. HoldAt(q) BY <1>2, <1>3, <2>2, <2>6 DEF HoldAt
  <2> QED BY <2>5, <2>7
<1> QED BY <1>4, <1>6 DEF EntryInv

LEMMA NothingEntries ==
  ASSUME SInv, EntryInv, UNCHANGED vars
  PROVE  EntryInv'
<1>1. scenario' = scenario /\ pool' = pool /\ mag' = mag /\ held' = held /\ th' = th BY DEF vars, poolVars
<1>2. TypeOK BY DEF SInv
<1>3. Classes' = Classes /\ \A x : Group(x)' = Group(x) BY <1>1, ScenarioSame
<1>4. ShapeInv'
  <2>1. \A x : Shaped(x)' <=> Shaped(x) BY DEF Shaped, Block
  <2> QED BY <1>1, <2>1 DEF EntryInv, ShapeInv
<1>5. ASSUME NEW q \in Classes, Serving(q)' PROVE StoreAt(q)' /\ HoldAt(q)'
  <2>1. Serving(q) BY <1>1, <1>3, <1>5 DEF Serving, Calling
  <2>2. StoreAt(q) /\ HoldAt(q) BY <2>1 DEF EntryInv
  <2>3. Caching(q)' = Caching(q) BY <1>1, CachingSame
  <2>4. StoreAt(q)' BY <1>1, <1>2, <2>2, <2>3, StoreFrame
  <2>5. HoldAt(q)' BY <1>1, <2>2, HoldFrame
  <2> QED BY <2>4, <2>5
<1> QED BY <1>3, <1>4, <1>5 DEF EntryInv

LEMMA NextEntries ==
  ASSUME SInv, EntryInv, [Next]_vars
  PROVE  EntryInv'
<1>1. CASE UNCHANGED vars BY <1>1, NothingEntries
<1>2. CASE Next
  <2>1. PICK t \in Threads :
          \/ \E n \in Classes : AllocCall(t, n) \/ \E x \in held : ReallocCall(t, x, n)
          \/ \E x \in held : FreeCall(t, x)
          \/ Reap(t) \/ Alloc(t) \/ GiveBack(t) \/ End(t)
    BY <1>2 DEF Next
  <2>2. CASE \/ \E n \in Classes : AllocCall(t, n) \/ \E x \in held : ReallocCall(t, x, n)
             \/ \E x \in held : FreeCall(t, x)
    BY <2>2, CallsEntries
  <2>3. CASE Reap(t) BY <2>3, ReapEntries
  <2>4. CASE Alloc(t)
    BY <2>4, BeginsEntries, FindsEntries, BudgetsEntries, CreatesEntries, PopEntries, RefillEntries, ServeLocksEntries,
       CountStepEntries, ServeEntries, ServeDynamicEntries, RefusedEntries, AllocEndsEntries
    DEF Alloc
  <2>5. CASE GiveBack(t)
    BY <2>5, BeginsEntries, FindsEntries, BudgetsEntries, CreatesEntries, FlushHalfEntries, PushEntries, LockedFreeEntries,
       AskEntries, AskFoundEntries
    DEF GiveBack
  <2>6. CASE End(t)
    BY <2>6, ExitEntries, DrainLooksEntries, DrainFlushesEntries, DestroyEntries, BudgetsEntries,
       DestroyUnlinksEntries, DestroyOrphansEntries, DestroyFreesEntries, CreatePoolsEntries
    DEF End
  <2> QED BY <2>1, <2>2, <2>3, <2>4, <2>5, <2>6
<1> QED BY <1>1, <1>2

THEOREM EntriesInvariant == Spec => [](SInv /\ EntryInv)
<1>1. Init => SInv /\ EntryInv BY InitInv, InitEntries
<1>2. SInv /\ EntryInv /\ [Next]_vars => SInv' /\ EntryInv' BY NextKeeps, NextEntries
<1> QED BY <1>1, <1>2, PTL DEF Spec

\* However magazines are filled, flushed, drained and orphaned by
\* mempool_magazine_refill_locked, mempool_magazine_flush_locked, _mp_tls_drain
\* and _cmempool_destroy, an entry of a pool in use lies in exactly one place.
THEOREM EntriesStayPlaced == Spec => []EntryPlacedOnce
<1>1. SInv /\ EntryInv => EntryPlacedOnce BY EntriesReach
<1> QED BY <1>1, EntriesInvariant, PTL

-----------------------------------------------------------------------------
(* The count before a refusal.                                             *)

\* What two finite sets cover.
LEMMA CoveredCard ==
  ASSUME NEW A, NEW B, NEW C, IsFiniteSet(B), IsFiniteSet(C), A \subseteq B \cup C
  PROVE  /\ IsFiniteSet(A) /\ Cardinality(A) \in Nat /\ Cardinality(B) \in Nat /\ Cardinality(C) \in Nat
         /\ Cardinality(A) <= Cardinality(B) + Cardinality(C)
<1>1. /\ IsFiniteSet(B \cup C)
      /\ Cardinality(B \cup C) = Cardinality(B) + Cardinality(C) - Cardinality(B \cap C)
  BY FS_Union
<1>2. IsFiniteSet(B \cap C) BY FS_Subset
<1>3. Cardinality(B \cap C) \in Nat /\ Cardinality(B) \in Nat /\ Cardinality(C) \in Nat BY <1>2, FS_CardinalityType
<1>4. IsFiniteSet(A) /\ Cardinality(A) <= Cardinality(B \cup C) BY <1>1, FS_Subset
<1>5. Cardinality(A) \in Nat BY <1>4, FS_CardinalityType
<1> QED BY <1>1, <1>3, <1>4, <1>5

\* n sets of at most c members.
LEMMA UnionCard ==
  ASSUME NEW n \in Nat, NEW c \in Nat, NEW f, \A i \in 1 .. n : IsFiniteSet(f[i]) /\ Cardinality(f[i]) <= c
  PROVE  LET U == UNION {f[i] : i \in 1 .. n} IN IsFiniteSet(U) /\ Cardinality(U) \in Nat /\ Cardinality(U) <= n * c
<1> DEFINE U(k) == UNION {f[i] : i \in 1 .. k}
           P(k) == IsFiniteSet(U(k)) /\ Cardinality(U(k)) \in Nat /\ Cardinality(U(k)) <= k * c
           T == {k \in Nat : k <= n => P(k)}
<1>1. 0 \in T
  <2>1. U(0) = {} OBVIOUS
  <2>2. IsFiniteSet(U(0)) /\ Cardinality(U(0)) = 0 BY <2>1, FS_EmptySet
  <2>3. 0 * c = 0 OBVIOUS
  <2> QED BY <2>2, <2>3
<1>2. ASSUME NEW k \in T PROVE k + 1 \in T
  <2> SUFFICES ASSUME k + 1 <= n PROVE P(k + 1) OBVIOUS
  <2>1. k \in Nat /\ P(k) /\ k + 1 \in 1 .. n OBVIOUS
  <2>2. U(k + 1) = U(k) \cup f[k + 1]
    <3>1. 1 .. k + 1 = (1 .. k) \cup {k + 1} BY <2>1
    <3> QED BY <3>1
  <2>3. IsFiniteSet(f[k + 1]) /\ Cardinality(f[k + 1]) <= c BY <2>1
  <2>4. PICK S, F : S = U(k) /\ F = f[k + 1] OBVIOUS
  <2>5. U(k + 1) \subseteq S \cup F BY <2>2, <2>4
  <2>6. IsFiniteSet(S) /\ IsFiniteSet(F) /\ Cardinality(S) <= k * c /\ Cardinality(F) <= c BY <2>1, <2>3, <2>4
  <2>7. PICK W : W = U(k + 1) OBVIOUS
  <2>8. /\ IsFiniteSet(W) /\ Cardinality(W) \in Nat /\ Cardinality(S) \in Nat /\ Cardinality(F) \in Nat
        /\ Cardinality(W) <= Cardinality(S) + Cardinality(F)
    BY <2>5, <2>6, <2>7, CoveredCard
  <2>9. k * c + c = (k + 1) * c /\ k * c \in Nat BY <2>1
  <2>10. PICK x, y, z : x = Cardinality(W) /\ y = Cardinality(S) /\ z = Cardinality(F) OBVIOUS
  <2>11. PICK a, b : a = k * c /\ b = (k + 1) * c OBVIOUS
  <2>12. x <= b BY <2>6, <2>8, <2>9, <2>10, <2>11
  <2> QED BY <2>7, <2>8, <2>10, <2>11, <2>12
<1>3. T = Nat
  <2> HIDE DEF T
  <2>1. T \in SUBSET Nat BY DEF T
  <2> QED BY <1>1, <1>2, <2>1, NatSetInduction
<1>4. P(n) BY <1>3
<1> QED BY <1>4

\* What thread u has not counted off: the entries callers hold, and those of
\* the magazines it has yet to look at.
Pending(u) == pool[th[u].p].taken \cup UNION {Elems(mag[m].slots) : m \in Elems(th[u].todo)}
CountAt(u) == th[u].pushes \in Nat /\ th[u].live <= Cardinality(Pending(u)) + th[u].pushes
CountInv == \A u \in Threads : th[u].step = "count" => CountAt(u)

\* While a thread counts, a pool's magazines are all on its list.
LEMMA CountingStore ==
  ASSUME SInv, EntryInv, NEW u \in Threads, th[u].step = "count"
  PROVE  LET p == th[u].p
         IN  /\ p \in Classes /\ p \in Pools /\ lock[p] = u /\ Serving(p) /\ StoreAt(p) /\ Total(p) \in Nat
             /\ Elems(pool[p].mags) = Caching(p) /\ Elems(th[u].todo) \subseteq Caching(p)
             /\ \A m \in Caching(p) : m \in Mags /\ Slots[m] = mag[m].slots /\ mag[m].mem = "live" /\ mag[m].pool = p
             /\ Pending(u) \subseteq 1 .. Total(p)
             /\ IsFiniteSet(Pending(u)) /\ Cardinality(Pending(u)) \in Nat
<1> DEFINE p == th[u].p
<1>1. /\ TypeOK /\ HandOK(u) /\ th[u].op = "alloc" /\ p \in Classes /\ p \in Pools /\ p \in th[u].group
      /\ lock[p] = u /\ Total(p) \in Nat
  BY Counting
<1>2. Serving(p) BY <1>1, CallServes
<1>3. StoreAt(p) BY <1>1, <1>2 DEF EntryInv
<1>4. PoolAt(p) /\ LockInv /\ PoolType(pool[p]) BY <1>1 DEF SInv, PoolInv, TypeOK
<1>5. \A m \in Elems(pool[p].mags) : m \in Mags
  <2>1. pool[p].mags \in Seq(Mags) BY <1>4 DEF PoolType
  <2> QED BY <2>1, ElementOfSeq DEF Elems
<1>6. ASSUME NEW m \in Mags, mag[m].mem = "live", mag[m].pool = p PROVE m \in Elems(pool[p].mags)
  <2> SUFFICES ASSUME NEW v \in Threads, th[v].step = "orphan", th[v].mag = m PROVE FALSE BY <1>4, <1>6 DEF PoolAt
  <2>1. HandOK(v) BY DEF SInv
  <2>2. th[v].p = p BY <1>6, <2>1 DEF HandOK
  <2>3. lock[p] = v BY <1>1, <1>4, <2>2 DEF LockInv, Holding
  <2> QED BY <1>1, <2>3
<1>7. Elems(pool[p].mags) = Caching(p) BY <1>4, <1>5, <1>6 DEF PoolAt, Caching
<1>8. Elems(th[u].todo) \subseteq Caching(p) BY <1>1, <1>7 DEF HandOK
<1>9. \A m \in Caching(p) : m \in Mags /\ Slots[m] = mag[m].slots /\ mag[m].mem = "live" /\ mag[m].pool = p
  BY <1>1, SlotsOf
<1>10. Pending(u) \subseteq 1 .. Total(p)
  <2>1. \A e : e \in pool[p].taken \/ (\E m \in Caching(p) : e \in Elems(Slots[m])) => e \in 1 .. Total(p)
    BY <1>3 DEF StoreAt, Stored
  <2> QED BY <1>8, <1>9, <2>1 DEF Pending
<1>11. IsFiniteSet(1 .. Total(p)) BY <1>1, FS_Interval
<1>12. IsFiniteSet(Pending(u)) BY <1>10, <1>11, FS_Subset
<1>13. Cardinality(Pending(u)) \in Nat BY <1>12, FS_CardinalityType
<1> QED BY <1>1, <1>2, <1>3, <1>7, <1>8, <1>9, <1>10, <1>12, <1>13

\* A step that leaves alone the pools that others count leaves their counts.
Spares(t) ==
  \A q \in Pools : lock[q] \in Threads \ {t} =>
    pool'[q].taken = pool[q].taken /\ \A m \in Mags : mag[m].mem = "live" /\ mag[m].pool = q => mag'[m].slots = mag[m].slots

LEMMA CountsStay ==
  ASSUME SInv, EntryInv, CountInv, NEW t \in Threads, \A u \in Threads \ {t} : th'[u] = th[u],
         th'[t].step # "count" \/ CountAt(t)', Spares(t)
  PROVE  CountInv'
<1>1. ASSUME NEW u \in Threads \ {t}, th'[u].step = "count" PROVE CountAt(u)'
  <2>1. th'[u] = th[u] /\ th[u].step = "count" BY <1>1
  <2>2. CountAt(u) BY <2>1 DEF CountInv
  <2>3. PICK p \in Pools : p = th[u].p /\ lock[p] = u /\ Elems(th[u].todo) \subseteq Caching(p)
                           /\ \A m \in Caching(p) : m \in Mags /\ mag[m].mem = "live" /\ mag[m].pool = p
    BY <2>1, CountingStore
  <2>4. pool'[p].taken = pool[p].taken /\ \A m \in Caching(p) : mag'[m].slots = mag[m].slots BY <2>3 DEF Spares
  <2>5. Pending(u)' = Pending(u)
    <3>1. \A m \in Elems(th[u].todo) : Elems(mag[m].slots)' = Elems(mag[m].slots)
      BY <2>3, <2>4 DEF Elems
    <3>2. Elems(th[u].todo)' = Elems(th[u].todo) BY <2>1 DEF Elems
    <3> QED BY <2>1, <2>3, <2>4, <3>1, <3>2 DEF Pending
  <2> QED BY <2>1, <2>2, <2>5 DEF CountAt
<1> QED BY <1>1 DEF CountInv

\* Most steps change no magazine's entries.
LEMMA CountsRest ==
  ASSUME SInv, EntryInv, CountInv, NEW t \in Threads, \A u \in Threads \ {t} : th'[u] = th[u], th'[t].step # "count",
         \A q \in Pools : lock[q] \in Threads \ {t} => pool'[q].taken = pool[q].taken,
         \A m \in Mags : mag'[m].slots = mag[m].slots
  PROVE  CountInv'
BY CountsStay DEF Spares

LEMMA GoesCounts ==
  ASSUME SInv, EntryInv, CountInv, NEW t \in Threads,
         \/ AllocBegins(t) \/ FreeBegins(t) \/ AllocFinds(t) \/ FreeFinds(t) \/ AllocBudget(t) \/ FreeBudget(t)
         \/ DestroyLocks(t) \/ DestroyUnlinks(t) \/ DrainLooks(t) \/ FreeDynamic(t)
  PROVE  CountInv'
<1>1. TypeOK BY DEF SInv
<1>2. mag' = mag /\ \A q \in Pools : pool'[q].taken = pool[q].taken
  <2>1. CASE DestroyUnlinks(t)
    <3>1. PICK p \in Pools : p = th[t].p BY <2>1, Destroying DEF DestroyUnlinks
    <3>2. DOMAIN pool = Pools /\ PoolType(pool[p]) BY <1>1 DEF TypeOK
    <3>3. mag' = mag /\ pool' = [pool EXCEPT ![p].mags = Tail(@)] BY <2>1, <3>1 DEF DestroyUnlinks
    <3>4. pool'[p] = [pool[p] EXCEPT !.mags = Tail(pool[p].mags)] /\ \A q \in Pools \ {p} : pool'[q] = pool[q] BY <3>2, <3>3
    <3>5. PICK r : r = pool[p] OBVIOUS
    <3>6. pool'[p].taken = r.taken BY <3>2, <3>4, <3>5 DEF PoolType
    <3> QED BY <3>3, <3>4, <3>5, <3>6
  <2>2. CASE ~DestroyUnlinks(t)
    BY <2>2 DEF AllocBegins, FreeBegins, AllocFinds, FreeFinds, AllocBudget, FreeBudget, DestroyLocks, DrainLooks, FreeDynamic,
       poolVars
  <2> QED BY <2>1, <2>2
<1>3. \E s \in Steps \ {"count"} : \/ Goto(t, s)
                                   \/ \E m : th' = [th EXCEPT ![t].step = s, ![t].mag = m]
                                   \/ \E n : th' = [th EXCEPT ![t].step = s, ![t].p = n]
  <2>1. {"serve", "pop", "find", "lockedFree", "push", "freeFind", "budget", "freeBudget", "create", "freeCreate", "unlink",
         "orphan", "flush", "ask"} \subseteq Steps \ {"count"}
    BY DEF Steps
  <2>2. CASE AllocBegins(t) \/ FreeBegins(t)
    <3>1. PICK s, m : /\ th' = [th EXCEPT ![t].step = s, ![t].mag = m]
                      /\ s \in {"serve", "pop", "find", "lockedFree", "push", "freeFind"}
      BY <2>2 DEF AllocBegins, FreeBegins
    <3> QED BY <2>1, <3>1
  <2>3. CASE AllocFinds(t) \/ FreeFinds(t)
    <3>1. PICK s, m : /\ th' = [th EXCEPT ![t].step = s, ![t].mag = m]
                      /\ s \in {"pop", "budget", "push", "freeBudget"}
      BY <2>3 DEF AllocFinds, FreeFinds, Find
    <3> QED BY <2>1, <3>1
  <2>4. CASE AllocBudget(t) \/ FreeBudget(t) \/ DestroyLocks(t)
    <3>1. PICK s : Goto(t, s) /\ s \in {"create", "serve", "freeCreate", "lockedFree", "unlink"}
      BY <2>4 DEF AllocBudget, FreeBudget, DestroyLocks
    <3> QED BY <2>1, <3>1
  <2>5. CASE DestroyUnlinks(t)
    <3>1. PICK m : th' = [th EXCEPT ![t].step = "orphan", ![t].mag = m] BY <2>5 DEF DestroyUnlinks
    <3> QED BY <2>1, <3>1
  <2>6. CASE DrainLooks(t)
    <3>1. PICK n : th' = [th EXCEPT ![t].step = "flush", ![t].p = n] BY <2>6 DEF DrainLooks
    <3> QED BY <2>1, <3>1
  <2>7. CASE FreeDynamic(t)
    <3>1. PICK n : th' = [th EXCEPT ![t].step = "ask", ![t].p = n] BY <2>7 DEF FreeDynamic
    <3> QED BY <2>1, <3>1
  <2> QED BY <2>2, <2>3, <2>4, <2>5, <2>6, <2>7
<1>4. th'[t].step # "count" /\ \A u \in Threads \ {t} : th'[u] = th[u]
  BY <1>1, <1>3, SameStep, SameStepMag, SameStepPool
<1> QED BY <1>2, <1>4, CountsRest

\* Steps after which the thread's record is another one.
LEMMA TurnsCounts ==
  ASSUME SInv, EntryInv, CountInv, NEW t \in Threads, NEW r, r.step # "count", th' = [th EXCEPT ![t] = r],
         \A q \in Pools : pool'[q].taken = pool[q].taken, mag' = mag
  PROVE  CountInv'
<1>1. th \in [Threads -> ThreadRec] BY DEF SInv, TypeOK
<1>2. th'[t] = r /\ \A u \in Threads \ {t} : th'[u] = th[u] BY <1>1
<1> QED BY <1>2, CountsRest

LEMMA StartCounts ==
  ASSUME SInv, EntryInv, CountInv, NEW t \in Threads, NEW op \in {"alloc", "free"}, NEW p, NEW size, NEW old,
         Start(t, op, p, size, old)
  PROVE  CountInv'
<1>1. PICK r : r = [Idle EXCEPT !.op = op, !.step = op, !.p = p, !.size = size, !.old = old, !.group = Group(p)] OBVIOUS
<1>2. th' = [th EXCEPT ![t] = r] /\ pool' = pool /\ mag' = mag BY <1>1 DEF Start, poolVars
<1>3. r.step # "count"
  <2>1. PICK i \in ThreadRec : i = Idle BY IdleFields
  <2>2. r = [i EXCEPT !.op = op, !.step = op, !.p = p, !.size = size, !.old = old, !.group = Group(p)] BY <1>1, <2>1
  <2> QED BY <2>2 DEF ThreadRec
<1> QED BY <1>2, <1>3, TurnsCounts

LEMMA CallsCounts ==
  ASSUME SInv, EntryInv, CountInv, NEW t \in Threads,
         \/ \E n \in Classes : AllocCall(t, n) \/ \E x \in held : ReallocCall(t, x, n)
         \/ \E x \in held : FreeCall(t, x)
  PROVE  CountInv'
<1>1. ASSUME NEW n \in Classes, AllocCall(t, n) PROVE CountInv'
  <2>1. Start(t, "alloc", n, n, Null) BY <1>1 DEF AllocCall
  <2> QED BY <2>1, StartCounts
<1>2. ASSUME NEW n \in Classes, NEW x \in held, ReallocCall(t, x, n) PROVE CountInv'
  <2>1. Start(t, "alloc", n, n, x) BY <1>2 DEF ReallocCall
  <2> QED BY <2>1, StartCounts
<1>3. ASSUME NEW x \in held, FreeCall(t, x) PROVE CountInv'
  <2>1. Start(t, "free", x.p, 0, x) BY <1>3 DEF FreeCall
  <2> QED BY <2>1, StartCounts
<1> QED BY <1>1, <1>2, <1>3

LEMMA EndsCounts ==
  ASSUME SInv, EntryInv, CountInv, NEW t \in Threads, Exit(t) \/ DrainEnds(t) \/ Refused(t) \/ \E p \in Classes : Destroy(t, p)
  PROVE  CountInv'
<1>1. Idle.step = "none" BY IdleFields
<1>2. CASE Exit(t)
  <2>1. PICK r : r = [Idle EXCEPT !.op = "exit", !.step = "drain", !.todo = tls[t].mags] OBVIOUS
  <2>2. r.step = "drain" BY <2>1 DEF Idle
  <2>3. th' = [th EXCEPT ![t] = r] /\ pool' = pool /\ mag' = mag BY <1>2, <2>1 DEF Exit, poolVars
  <2> QED BY <2>2, <2>3, TurnsCounts
<1>3. CASE DrainEnds(t)
  <2>1. th' = [th EXCEPT ![t] = Idle] /\ pool' = pool /\ mag' = mag BY <1>3 DEF DrainEnds, poolVars
  <2> QED BY <1>1, <2>1, TurnsCounts
<1>4. CASE Refused(t)
  <2>1. PICK q : q = (IF scenario.ranged THEN th[t].p + 1 ELSE Pseudo) OBVIOUS
  <2>2. PICK r : r = [Idle EXCEPT !.op = th[t].op, !.step = "alloc", !.size = th[t].size, !.old = th[t].old,
                                  !.group = th[t].group, !.p = q]
    OBVIOUS
  <2>3. r.step = "alloc" BY <2>2 DEF Idle
  <2>4. th' = [th EXCEPT ![t] = r] /\ pool' = pool /\ mag' = mag BY <1>4, <2>1, <2>2 DEF Refused
  <2> QED BY <2>3, <2>4, TurnsCounts
<1>5. ASSUME NEW p \in Classes, Destroy(t, p) PROVE CountInv'
  <2>1. PICK r : r = [Idle EXCEPT !.op = "destroy", !.step = "destroy", !.p = p, !.group = Group(p)] OBVIOUS
  <2>2. r.step = "destroy" BY <2>1 DEF Idle
  <2>3. th' = [th EXCEPT ![t] = r] /\ pool' = pool /\ mag' = mag BY <1>5, <2>1 DEF Destroy, poolVars
  <2> QED BY <2>2, <2>3, TurnsCounts
<1> QED BY <1>2, <1>3, <1>4, <1>5

LEMMA AskNextCounts ==
  ASSUME SInv, EntryInv, CountInv, NEW t \in Threads, AskNext(t)
  PROVE  CountInv'
<1>1. TypeOK BY DEF SInv
<1>2. pool' = pool /\ mag' = mag /\ th[t].step = "ask" /\ \E n : th' = [th EXCEPT ![t].p = n] BY DEF AskNext, poolVars
<1>3. th'[t].step # "count" /\ \A u \in Threads \ {t} : th'[u] = th[u] BY <1>1, <1>2, SamePool
<1> QED BY <1>2, <1>3, CountsRest

LEMMA AskFoundCounts ==
  ASSUME SInv, EntryInv, CountInv, NEW t \in Threads, AskFound(t)
  PROVE  CountInv'
<1>1. /\ mag' = mag /\ \A q \in Pools : pool'[q].taken = pool[q].taken
      /\ th'[t] = Idle /\ \A u \in Threads \ {t} : th'[u] = th[u]
  BY AskFoundDoes
<1> QED BY <1>1, IdleFields, CountsRest

LEMMA ReturnedStep ==
  ASSUME TypeOK, NEW t \in Threads, NEW x, Return(t, x)
  PROVE  th'[t].step # "count" /\ \A u \in Threads \ {t} : th'[u] = th[u]
<1>1. th \in [Threads -> ThreadRec] BY DEF TypeOK
<1>2. CASE th[t].old = Null
  <2>1. th' = [th EXCEPT ![t] = Idle] BY <1>2 DEF Return
  <2> QED BY <1>1, <2>1, IdleFields
<1>3. CASE th[t].old # Null
  <2>1. PICK old, s : old = th[t].old /\ s = (IF old.kind = "dynamic" THEN "ask" ELSE "free") OBVIOUS
  <2>2. PICK r : r = [Idle EXCEPT !.op = "free", !.p = old.p, !.old = old, !.group = Group(old.p), !.step = s] OBVIOUS
  <2>3. r.step = s BY <2>2 DEF Idle
  <2>4. th' = [th EXCEPT ![t] = r] BY <1>3, <2>1, <2>2 DEF Return
  <2> QED BY <1>1, <2>1, <2>3, <2>4
<1> QED BY <1>2, <1>3

LEMMA DynamicCounts ==
  ASSUME SInv, EntryInv, CountInv, NEW t \in Threads, NEW p \in Pools, NEW n \in Nat, AllocDynamic(t, p, n),
         scenario' = scenario, mag' = mag
  PROVE  CountInv'
<1>1. TypeOK BY DEF SInv
<1>2. \A q \in Pools : pool'[q].taken = pool[q].taken BY DynamicDoes
<1>3. \E x : Return(t, x) BY DynamicDoes
<1>4. th'[t].step # "count" /\ \A u \in Threads \ {t} : th'[u] = th[u] BY <1>1, <1>3, ReturnedStep
<1> QED BY <1>2, <1>4, CountsRest

LEMMA ServeDynamicCounts ==
  ASSUME SInv, EntryInv, CountInv, NEW t \in Threads, ServeDynamic(t)
  PROVE  CountInv'
<1>1. /\ th[t].step = "count" /\ AllocDynamic(t, th[t].p, th[t].p) /\ scenario' = scenario /\ mag' = mag
  BY DEF ServeDynamic, Counted
<1>2. PICK p \in Pools : p = th[t].p /\ p \in Nat BY <1>1, Counting
<1>3. AllocDynamic(t, p, p) BY <1>1, <1>2
<1> QED BY <1>1, <1>2, <1>3, DynamicCounts

LEMMA AllocEndsCounts ==
  ASSUME SInv, EntryInv, CountInv, NEW t \in Threads, AllocEnds(t)
  PROVE  CountInv'
<1>1. scenario' = scenario /\ mag' = mag /\ TypeOK BY DEF AllocEnds, SInv
<1>2. ASSUME AllocDynamic(t, Pseudo, th[t].size) PROVE CountInv'
  <2>1. Pseudo \in Pools /\ th[t].size \in Nat BY <1>1, ScenarioFacts DEF TypeOK, ThreadRec
  <2>2. PICK p \in Pools : p = Pseudo BY <2>1
  <2>3. PICK n \in Nat : n = th[t].size BY <2>1
  <2>4. AllocDynamic(t, p, n) BY <1>2, <2>2, <2>3
  <2> QED BY <1>1, <2>4, DynamicCounts
<1>3. ASSUME th' = [th EXCEPT ![t] = Idle], pool' = pool PROVE CountInv'
  BY <1>1, <1>3, IdleFields, TurnsCounts
<1> QED BY <1>2, <1>3 DEF AllocEnds

LEMMA ServeEntryCounts ==
  ASSUME SInv, EntryInv, CountInv, NEW t \in Threads, ServeEntry(t)
  PROVE  CountInv'
<1>1. PICK p : p = th[t].p OBVIOUS
<1>2. /\ th[t].step = "count" /\ mag' = mag /\ \A q \in Pools \ {p} : pool'[q] = pool[q]
      /\ \E x : Return(t, x)
  BY <1>1, ServeDoes
<1>3. lock[p] = t /\ TypeOK BY <1>1, <1>2, Counting
<1>4. th'[t].step # "count" /\ \A u \in Threads \ {t} : th'[u] = th[u] BY <1>2, <1>3, ReturnedStep
<1>5. Spares(t) BY <1>2, <1>3 DEF Spares
<1> QED BY <1>4, <1>5, CountsStay

LEMMA LockedFreeCounts ==
  ASSUME SInv, EntryInv, CountInv, NEW t \in Threads, LockedFree(t)
  PROVE  CountInv'
<1>1. PICK p : p = th[t].p OBVIOUS
<1>2. /\ lock[p] = Null /\ mag' = mag /\ \A q \in Pools \ {p} : pool'[q] = pool[q]
      /\ th'[t] = Idle /\ \A u \in Threads \ {t} : th'[u] = th[u]
  BY <1>1, LockedFreeDoes
<1>3. th'[t].step # "count" BY <1>2, IdleFields
<1>4. Spares(t) BY <1>2, NullFacts DEF Spares
<1> QED BY <1>2, <1>3, <1>4, CountsStay

LEMMA FlushHalfCounts ==
  ASSUME SInv, EntryInv, CountInv, NEW t \in Threads, FlushHalf(t)
  PROVE  CountInv'
<1>1. PICK p, m : p = th[t].p /\ m = th[t].mag OBVIOUS
<1>2. /\ th[t].step = "push" /\ lock[p] = Null /\ th' = th
      /\ \A x \in Mags \ {m} : mag'[x] = mag[x]
      /\ \A q \in Pools \ {p} : pool'[q] = pool[q]
  BY <1>1, FlushHalfDoes
<1>3. mag[m].pool = p BY <1>1, <1>2, InHand
<1>4. Spares(t) BY <1>2, <1>3, NullFacts DEF Spares
<1> QED BY <1>2, <1>4, CountsStay

LEMMA OrphansCounts ==
  ASSUME SInv, EntryInv, CountInv, NEW t \in Threads, DestroyOrphans(t)
  PROVE  CountInv'
<1>1. TypeOK BY DEF SInv
<1>2. th[t].step = "orphan" /\ HandOK(t) BY DEF DestroyOrphans, SInv
<1>3. PICK m \in Mags : m = th[t].mag
  <2>1. th[t].mag \in Mags \cup {Null} BY <1>1, SameRec
  <2> QED BY <1>2, <2>1 DEF HandOK
<1>4. pool' = pool BY DEF DestroyOrphans, poolVars
<1>5. mag' = [mag EXCEPT ![m].pool = Null] BY <1>3 DEF DestroyOrphans
<1>6. th' = [th EXCEPT ![t].step = "unlink", ![t].mag = Null] BY DEF DestroyOrphans
<1>7. th'[t].step # "count" /\ \A u \in Threads \ {t} : th'[u] = th[u]
  <2>1. PICK s, n : s = "unlink" /\ n = Null OBVIOUS
  <2>2. th' = [th EXCEPT ![t].step = s, ![t].mag = n] BY <1>6, <2>1
  <2>3. th'[t].step = s /\ \A u \in Threads \ {t} : th'[u] = th[u] BY <1>1, <2>2, SameStepMag
  <2> QED BY <2>1, <2>3
<1>8. mag \in [Mags -> MagRec] /\ mag[m] \in MagRec BY <1>1 DEF TypeOK
<1>9. mag'[m] = [mag[m] EXCEPT !.pool = Null] /\ \A n \in Mags \ {m} : mag'[n] = mag[n] BY <1>5, <1>8
<1>10. mag'[m].slots = mag[m].slots BY <1>8, <1>9 DEF MagRec
<1> QED BY <1>4, <1>7, <1>9, <1>10, CountsRest

LEMMA MagazinesCounts ==
  ASSUME SInv, EntryInv, CountInv, NEW t \in Threads, Reap(t) \/ DestroyOrphans(t) \/ DestroyFrees(t) \/ DrainFlushes(t)
  PROVE  CountInv'
<1>1. TypeOK BY DEF SInv
<1>2. CASE Reap(t)
  <2>1. PICK j \in DOMAIN tls[t].mags : \E m \in {tls[t].mags[j]} :
          th[t].step \in {"find", "freeFind"} /\ Frees(m) /\ pool' = pool /\ th' = th
    BY <1>2 DEF Reap, Frees, poolVars
  <2>2. PICK m \in {tls[t].mags[j]} :
          th[t].step \in {"find", "freeFind"} /\ Frees(m) /\ pool' = pool /\ th' = th
    BY <2>1
  <2>3. tls[t].mags \in Seq(Mags) BY <1>1, OwnType
  <2>4. m \in Mags BY <2>3, ElementOfSeq
  <2>5. \A n \in Mags : mag'[n].slots = mag[n].slots BY <1>1, <2>2, <2>4, FreesDoes
  <2> QED BY <2>2, <2>5, CountsRest
<1>3. CASE DestroyOrphans(t) BY <1>3, OrphansCounts
<1>4. CASE DestroyFrees(t)
  <2>1. PICK p : p = th[t].p OBVIOUS
  <2>2. /\ mag' = mag /\ \A u \in Threads \ {t} : th'[u] = th[u]
        /\ th'[t] = Idle \/ th'[t].step = "destroy"
    BY <1>4, DestroyFreesDoes
  <2>3. \A q \in Pools : pool'[q].taken = pool[q].taken
    <3>1. PICK x \in Pools : x = th[t].p BY <1>4, Destroying DEF DestroyFrees
    <3>2. pool' = [pool EXCEPT ![x].mem = "freed"] BY <1>4, <3>1 DEF DestroyFrees
    <3>3. DOMAIN pool = Pools /\ PoolType(pool[x]) BY <1>1 DEF TypeOK
    <3>4. pool'[x] = [pool[x] EXCEPT !.mem = "freed"] /\ \A q \in Pools \ {x} : pool'[q] = pool[q] BY <3>2, <3>3
    <3>5. PICK r : r = pool[x] OBVIOUS
    <3>6. pool'[x].taken = r.taken BY <3>3, <3>4, <3>5 DEF PoolType
    <3> QED BY <3>4, <3>5, <3>6
  <2>4. th'[t].step # "count" BY <2>2, IdleFields
  <2> QED BY <2>2, <2>3, <2>4, CountsRest
<1>5. CASE DrainFlushes(t)
  <2>1. PICK m \in Mags : m = Head(th[t].todo)
    <3>1. th[t].step = "flush" BY <1>5 DEF DrainFlushes
    <3> QED BY <3>1, Flushing
  <2>2. /\ Frees(m) /\ th'[t].step = "drain" /\ \A u \in Threads \ {t} : th'[u] = th[u]
        /\ \A q \in Pools : pool'[q].taken = pool[q].taken
    BY <1>5, <2>1, DrainFlushesDoes
  <2>3. \A n \in Mags : mag'[n].slots = mag[n].slots BY <1>1, <2>2, FreesDoes
  <2> QED BY <2>2, <2>3, CountsRest
<1> QED BY <1>2, <1>3, <1>4, <1>5

LEMMA CreatesCounts ==
  ASSUME SInv, EntryInv, CountInv, NEW t \in Threads, AllocCreates(t) \/ FreeCreates(t)
  PROVE  CountInv'
<1>1. TypeOK /\ th[t].step \in {"create", "freeCreate"} BY CreateCases DEF SInv
<1>2. ASSUME Goto(t, IF th[t].step = "create" THEN "serve" ELSE "lockedFree"), pool' = pool, mag' = mag
      PROVE  CountInv'
  <2>1. PICK r \in {"serve", "lockedFree"} : Goto(t, r) BY <1>2
  <2>2. th'[t].step = r /\ \A u \in Threads \ {t} : th'[u] = th[u] BY <1>1, <2>1, SameStep
  <2>3. th'[t].step # "count" BY <2>2
  <2> QED BY <1>2, <2>2, <2>3, CountsRest
<1>3. ASSUME NEW m \in Mags, NewMagazine(t, th[t].p, m, IF th[t].step = "create" THEN "pop" ELSE "push") PROVE CountInv'
  <2>1. PICK s \in {"pop", "push"} : s = (IF th[t].step = "create" THEN "pop" ELSE "push") OBVIOUS
  <2>2. th' = [th EXCEPT ![t].step = s, ![t].mag = m] /\ mag[m].mem = "none"
        /\ mag' = [mag EXCEPT ![m] = [mem |-> "live", pool |-> th[t].p, slots |-> <<>>]]
    BY <1>3, <2>1 DEF NewMagazine
  <2>3. th'[t].step = s /\ \A u \in Threads \ {t} : th'[u] = th[u] BY <1>1, <2>2, SameStepMag
  <2>4. \A n \in Mags \ {m} : mag'[n] = mag[n] BY <1>1, <2>2 DEF TypeOK
  <2>5. \A q \in Pools : pool'[q].taken = pool[q].taken BY <1>1, <1>3, NewMagazineDoes
  <2>6. Spares(t) BY <2>2, <2>4, <2>5 DEF Spares
  <2>7. th'[t].step # "count" BY <2>3
  <2> QED BY <2>3, <2>6, <2>7, CountsStay
<1> QED BY <1>2, <1>3, CreateCases

LEMMA CreatePoolsCounts ==
  ASSUME SInv, EntryInv, CountInv, NEW t \in Threads, NEW p \in Classes, CreatePools(t, p)
  PROVE  CountInv'
<1>1. /\ mag' = mag /\ th' = th
      /\ \A q \in Pools : pool'[q] = IF q \in Group(p) THEN NewPool(q) ELSE pool[q]
      /\ \A q \in Group(p) : pool[q].mem = "freed"
  BY CreatePoolsDoes
<1>2. th[t].step # "count"
  <2>1. th[t] = Idle BY DEF CreatePools
  <2> QED BY <2>1, IdleFields
<1>3. ASSUME NEW q \in Pools, lock[q] \in Threads \ {t} PROVE pool'[q] = pool[q]
  <2>1. PICK u \in Threads : u = lock[q] BY <1>3
  <2>2. Holding(u, q) BY <1>3, <2>1, NullFacts DEF SInv, LockInv
  <2>3. th[u].step \in {"count", "unlink", "orphan"} /\ th[u].p = q BY <2>2 DEF Holding
  <2>4. pool[q].mem = "live"
    <3>1. CASE th[u].step = "count" BY <2>3, <3>1, CountingStore DEF Serving
    <3>2. CASE th[u].step \in {"unlink", "orphan"} BY <2>3, <3>2, Destroying
    <3> QED BY <2>3, <3>1, <3>2
  <2> QED BY <1>1, <2>4
<1>4. Spares(t) BY <1>1, <1>3 DEF Spares
<1> QED BY <1>1, <1>2, <1>4, CountsStay

\* The count of a thread that others pop and push beside.
LEMMA CountGrows ==
  ASSUME NEW u, CountAt(u), th'[u].live = th[u].live, th[u].live \in Int, NEW x,
         IsFiniteSet(Pending(u)), Pending(u)' \subseteq Pending(u) \cup {x},
         \/ Pending(u) \subseteq Pending(u)' /\ th'[u].pushes = th[u].pushes
         \/ Pending(u) \subseteq Pending(u)' \cup {x} /\ th'[u].pushes = th[u].pushes + 1
  PROVE  CountAt(u)'
<1>1. IsFiniteSet({x}) /\ Cardinality({x}) = 1 BY FS_Singleton
<1>2. PICK A, B : A = Pending(u) /\ B = Pending(u)' OBVIOUS
<1>3. IsFiniteSet(A) /\ IsFiniteSet(B) /\ Cardinality(B) \in Nat BY <1>1, <1>2, CoveredCard
<1>4. Cardinality(A) \in Nat BY <1>3, FS_CardinalityType
<1>5. \/ Cardinality(A) <= Cardinality(B) /\ th'[u].pushes = th[u].pushes
      \/ Cardinality(A) <= Cardinality(B) + 1 /\ th'[u].pushes = th[u].pushes + 1
  <2>1. CASE A \subseteq B /\ th'[u].pushes = th[u].pushes BY <1>3, <2>1, FS_Subset
  <2>2. CASE A \subseteq B \cup {x} /\ th'[u].pushes = th[u].pushes + 1 BY <1>1, <1>3, <2>2, CoveredCard
  <2> QED BY <1>2, <2>1, <2>2
<1>6. th[u].pushes \in Nat /\ th[u].live <= Cardinality(A) + th[u].pushes BY <1>2 DEF CountAt
<1>7. th'[u].pushes \in Nat /\ th'[u].live <= Cardinality(B) + th'[u].pushes BY <1>3, <1>4, <1>5, <1>6
<1>8. Cardinality(Pending(u)') = Cardinality(B) BY <1>2
<1> QED BY <1>7, <1>8 DEF CountAt

Within(S, T, e) == S \subseteq T \cup {e} /\ T \subseteq S \cup {e}

\* What is pending when entry e goes from magazine m to a caller, or comes back.
LEMMA PendingMoves ==
  ASSUME SInv, EntryInv, NEW u \in Threads, th[u].step = "count", th'[u].p = th[u].p, th'[u].todo = th[u].todo,
         NEW p \in Pools, NEW m \in Mags, mag[m].pool = p, NEW e,
         \A q \in Pools \ {p} : pool'[q] = pool[q], \A x \in Mags \ {m} : mag'[x] = mag[x],
         Within(pool[p].taken, pool'[p].taken, e), Within(Elems(mag[m].slots), Elems(mag'[m].slots), e)
  PROVE  /\ th[u].p # p => Pending(u)' = Pending(u)
         /\ th[u].p = p => Within(Pending(u), Pending(u)', e) /\ pool'[p].taken \subseteq Pending(u)'
<1>1. PICK q \in Pools : q = th[u].p /\ Elems(th[u].todo) \subseteq Caching(q)
                         /\ \A x \in Caching(q) : x \in Mags /\ mag[x].mem = "live" /\ mag[x].pool = q
  BY CountingStore
<1>2. PICK todo : todo = Elems(th[u].todo) OBVIOUS
<1>3. Elems(th[u].todo)' = todo BY <1>2 DEF Elems
<1>4. /\ Pending(u) = pool[q].taken \cup UNION {Elems(mag[x].slots) : x \in todo}
      /\ Pending(u)' = pool'[q].taken \cup UNION {Elems(mag'[x].slots) : x \in todo}
  <2>1. \A x : Elems(mag[x].slots)' = Elems(mag'[x].slots) OBVIOUS
  <2> QED BY <1>1, <1>2, <1>3, <2>1 DEF Pending
<1>5. \A x \in todo : x \in Mags /\ mag[x].pool = q BY <1>1, <1>2
<1>6. \A x \in todo : x # m => Elems(mag'[x].slots) = Elems(mag[x].slots) BY <1>5
<1>7. CASE q # p
  <2>1. \A x \in todo : Elems(mag'[x].slots) = Elems(mag[x].slots) BY <1>5, <1>6, <1>7
  <2>2. pool'[q] = pool[q] BY <1>7
  <2> QED BY <1>1, <1>4, <1>7, <2>1, <2>2
<1>8. ASSUME q = p PROVE Within(Pending(u), Pending(u)', e) /\ pool'[p].taken \subseteq Pending(u)'
  <2>1. \A x \in todo : Within(Elems(mag[x].slots), Elems(mag'[x].slots), e) BY <1>6 DEF Within
  <2>2. ASSUME NEW z \in Pending(u), z # e PROVE z \in Pending(u)'
    <3>1. CASE z \in pool[p].taken BY <1>4, <1>8, <2>2, <3>1 DEF Within
    <3>2. ASSUME NEW x \in todo, z \in Elems(mag[x].slots) PROVE z \in Pending(u)'
      <4>1. z \in Elems(mag'[x].slots) BY <2>1, <2>2, <3>2 DEF Within
      <4> QED BY <1>4, <4>1
    <3> QED BY <1>4, <1>8, <3>1, <3>2
  <2>3. ASSUME NEW z \in Pending(u)', z # e PROVE z \in Pending(u)
    <3>1. CASE z \in pool'[p].taken BY <1>4, <1>8, <2>3, <3>1 DEF Within
    <3>2. ASSUME NEW x \in todo, z \in Elems(mag'[x].slots) PROVE z \in Pending(u)
      <4>1. z \in Elems(mag[x].slots) BY <2>1, <2>3, <3>2 DEF Within
      <4> QED BY <1>4, <4>1
    <3> QED BY <1>4, <1>8, <3>1, <3>2
  <2>4. pool'[p].taken \subseteq Pending(u)' BY <1>4, <1>8
  <2> QED BY <2>2, <2>3, <2>4 DEF Within
<1> QED BY <1>1, <1>7, <1>8

LEMMA PopCounts ==
  ASSUME SInv, EntryInv, CountInv, NEW t \in Threads, Pop(t)
  PROVE  CountInv'
<1>1. PICK p, m : p = th[t].p /\ m = th[t].mag OBVIOUS
<1>2. PICK e : e = Last(mag[m].slots) OBVIOUS
<1>3. /\ th[t].step = "pop" /\ mag[m].slots # <<>> /\ Return(t, Block(p, e))
      /\ \A x \in Mags \ {m} : mag'[x] = mag[x]
      /\ mag'[m].slots = Front(mag[m].slots)
      /\ \A q \in Pools \ {p} : pool'[q] = pool[q]
      /\ pool'[p].taken = pool[p].taken \cup {e}
  BY <1>1, <1>2, PopDoes
<1>4. TypeOK /\ m \in Mags /\ p \in Pools /\ mag[m].pool = p BY <1>1, <1>3, InHand
<1>5. PICK x : x = Block(p, e) OBVIOUS
<1>6. th'[t].step # "count" /\ \A u \in Threads \ {t} : th'[u] = th[u] BY <1>3, <1>4, <1>5, ReturnedStep
<1>7. p \in Classes /\ m \in Caching(p) /\ StoreAt(p) BY <1>1, <1>3, HandCaching
<1>8. mag[m].slots \in Seq(Nat) /\ Distinct(mag[m].slots) BY <1>7, StoreFacts
<1>9. Elems(mag'[m].slots) = Elems(mag[m].slots) \ {e} BY <1>2, <1>3, <1>8, FrontElems
<1>10. Within(pool[p].taken, pool'[p].taken, e) /\ Within(Elems(mag[m].slots), Elems(mag'[m].slots), e)
  BY <1>3, <1>9 DEF Within
<1>11. ASSUME NEW u \in Threads \ {t}, th'[u].step = "count" PROVE CountAt(u)'
  <2>1. th'[u] = th[u] /\ th[u].step = "count" BY <1>6, <1>11
  <2>2. CountAt(u) BY <2>1 DEF CountInv
  <2>3. th[u].live \in Int BY <2>1, Counting
  <2>4. IsFiniteSet(Pending(u)) BY <2>1, CountingStore
  <2>5. /\ th[u].p # p => Pending(u)' = Pending(u)
        /\ th[u].p = p => Within(Pending(u), Pending(u)', e) /\ pool'[p].taken \subseteq Pending(u)'
    BY <1>3, <1>4, <1>10, <2>1, PendingMoves
  <2>6. Pending(u)' \subseteq Pending(u) \cup {e} /\ Pending(u) \subseteq Pending(u)' BY <1>3, <2>5 DEF Within
  <2> QED BY <2>1, <2>2, <2>3, <2>4, <2>6, CountGrows
<1> QED BY <1>6, <1>11 DEF CountInv

\* Who counts while an entry is pushed counts it too.
LEMMA PushCounts ==
  ASSUME SInv, EntryInv, CountInv, NEW t \in Threads, Push(t)
  PROVE  CountInv'
<1>1. PICK p, m, e : p = th[t].p /\ m = th[t].mag /\ e = th[t].old.id OBVIOUS
<1>2. /\ th[t].step = "push" /\ e \in Nat /\ th'[t] = Idle
      /\ mag'[m].slots = Append(mag[m].slots, e)
      /\ \A x \in Mags \ {m} : mag'[x] = mag[x]
      /\ \A q \in Pools \ {p} : pool'[q] = pool[q]
      /\ pool'[p].taken = pool[p].taken \ {e}
      /\ \A u \in Threads \ {t} :
           /\ Like(u)
           /\ th'[u].pushes = IF th[u].step = "count" /\ th[u].p = p THEN th[u].pushes + 1 ELSE th[u].pushes
  BY <1>1, PushDoes
<1>3. TypeOK /\ m \in Mags /\ p \in Pools /\ mag[m].pool = p /\ mag[m].slots \in Seq(Nat) BY <1>1, <1>2, InHand
<1>4. th'[t].step # "count" BY <1>2, IdleFields
<1>5. Elems(mag'[m].slots) = Elems(mag[m].slots) \cup {e} BY <1>2, <1>3, AppendElems
<1>6. Within(pool[p].taken, pool'[p].taken, e) /\ Within(Elems(mag[m].slots), Elems(mag'[m].slots), e)
  BY <1>2, <1>5 DEF Within
<1>7. ASSUME NEW u \in Threads \ {t}, th'[u].step = "count" PROVE CountAt(u)'
  <2>1. /\ th[u].step = "count" /\ th'[u].p = th[u].p /\ th'[u].todo = th[u].todo /\ th'[u].live = th[u].live
    BY <1>2, <1>3, <1>7, LikeFields
  <2>2. CountAt(u) BY <2>1 DEF CountInv
  <2>3. th[u].live \in Int BY <2>1, Counting
  <2>4. IsFiniteSet(Pending(u)) BY <2>1, CountingStore
  <2>5. /\ th[u].p # p => Pending(u)' = Pending(u)
        /\ th[u].p = p => Within(Pending(u), Pending(u)', e) /\ pool'[p].taken \subseteq Pending(u)'
    BY <1>2, <1>3, <1>6, <2>1, PendingMoves
  <2>6. th'[u].pushes = IF th[u].p = p THEN th[u].pushes + 1 ELSE th[u].pushes BY <1>2, <2>1
  <2>7. CASE th[u].p = p
    <3>1. /\ Pending(u)' \subseteq Pending(u) \cup {e} /\ Pending(u) \subseteq Pending(u)' \cup {e}
          /\ th'[u].pushes = th[u].pushes + 1
      BY <2>5, <2>6, <2>7 DEF Within
    <3> QED BY <2>1, <2>2, <2>3, <2>4, <3>1, CountGrows
  <2>8. CASE th[u].p # p
    <3>1. /\ Pending(u)' \subseteq Pending(u) \cup {e} /\ Pending(u) \subseteq Pending(u)'
          /\ th'[u].pushes = th[u].pushes
      BY <2>5, <2>6, <2>8
    <3> QED BY <2>1, <2>2, <2>3, <2>4, <3>1, CountGrows
  <2> QED BY <2>7, <2>8
<1> QED BY <1>4, <1>7 DEF CountInv

\* What a count begins with: what is not on the list is in a magazine or taken.
Whole(p) == pool[p].taken \cup UNION {Elems(mag[m].slots) : m \in Elems(pool[p].mags)}

LEMMA WholeStore ==
  ASSUME SInv, NEW p \in Classes, StoreAt(p), lock[p] = Null \/ \E u \in Threads : th[u].step = "count" /\ lock[p] = u
  PROVE  /\ Elems(pool[p].mags) = Caching(p) /\ Whole(p) \subseteq 1 .. Total(p)
         /\ 1 .. Total(p) \subseteq Elems(pool[p].free) \cup Whole(p) /\ p \in Pools /\ Total(p) \in Nat
         /\ \A m \in Elems(pool[p].mags) : m \in Mags /\ Slots[m] = mag[m].slots
<1>1. TypeOK /\ p \in Pools BY ScenarioFacts DEF SInv
<1>2. PoolAt(p) /\ LockInv /\ PoolType(pool[p]) BY <1>1 DEF SInv, PoolInv, TypeOK
<1>3. \A m \in Elems(pool[p].mags) : m \in Mags
  <2>1. pool[p].mags \in Seq(Mags) BY <1>2 DEF PoolType
  <2> QED BY <2>1, ElementOfSeq DEF Elems
<1>4. ASSUME NEW m \in Mags, mag[m].mem = "live", mag[m].pool = p PROVE m \in Elems(pool[p].mags)
  <2> SUFFICES ASSUME NEW v \in Threads, th[v].step = "orphan", th[v].mag = m PROVE FALSE BY <1>2, <1>4 DEF PoolAt
  <2>1. HandOK(v) BY DEF SInv
  <2>2. th[v].p = p BY <1>4, <2>1 DEF HandOK
  <2>3. lock[p] = v BY <1>1, <1>2, <2>2 DEF LockInv, Holding
  <2> QED BY <2>3, NullFacts
<1>5. Elems(pool[p].mags) = Caching(p) BY <1>2, <1>3, <1>4 DEF PoolAt, Caching
<1>6. \A m \in Caching(p) : m \in Mags /\ Slots[m] = mag[m].slots BY <1>1, SlotsOf
<1>7. \A e : e \in 1 .. Total(p) <=> \/ e \in Elems(pool[p].free) \/ e \in pool[p].taken
                                     \/ \E m \in Caching(p) : e \in Elems(Slots[m])
  BY DEF StoreAt, Stored
<1>8. \A e : e \in Whole(p) <=> e \in pool[p].taken \/ \E m \in Caching(p) : e \in Elems(Slots[m])
  BY <1>5, <1>6 DEF Whole
<1>9. Total(p) \in Nat
  <2>1. Count(p) \in Nat /\ Pseudo \notin Classes BY <1>1, ScenarioFacts
  <2>2. Reserve(Count(p)) \in Nat BY <2>1, Geometry
  <2> QED BY <2>1, <2>2 DEF Total
<1> QED BY <1>1, <1>5, <1>6, <1>7, <1>8, <1>9

LEMMA BeginsToCount ==
  ASSUME SInv, EntryInv, CountInv, NEW t \in Threads, th[t].step \in {"pop", "serve"}, Counts(t), Unlocked(th[t].p),
         NEW p \in Classes, p = th[t].p, StoreAt(p), \A q \in Pools : pool'[q].taken = pool[q].taken,
         \A x \in Mags : mag'[x].slots = mag[x].slots
  PROVE  CountInv'
<1>1. /\ th'[t].p = p /\ th'[t].todo = pool[p].mags /\ th'[t].pushes = 0
      /\ th'[t].live = Total(p) - Len(pool[p].free) /\ \A u \in Threads \ {t} : th'[u] = th[u]
  BY SameCounts
<1>2. /\ Whole(p) \subseteq 1 .. Total(p) /\ p \in Pools /\ Total(p) \in Nat
      /\ 1 .. Total(p) \subseteq Elems(pool[p].free) \cup Whole(p)
      /\ \A m \in Elems(pool[p].mags) : m \in Mags
  BY WholeStore DEF Unlocked
<1>3. Pending(t)' = Whole(p)
  <2>1. Elems(th[t].todo)' = Elems(pool[p].mags) BY <1>1 DEF Elems
  <2>2. \A m \in Elems(pool[p].mags) : Elems(mag[m].slots)' = Elems(mag[m].slots) BY <1>2 DEF Elems
  <2>3. pool'[p].taken = pool[p].taken BY <1>2
  <2> QED BY <1>1, <2>1, <2>2, <2>3 DEF Pending, Whole
<1>4. pool[p].free \in Seq(Nat) /\ Distinct(pool[p].free) BY StoreFacts
<1>5. IsFiniteSet(Elems(pool[p].free)) /\ Cardinality(Elems(pool[p].free)) = Len(pool[p].free) BY <1>4, DistinctCard
<1>6. PICK n : n = Total(p) OBVIOUS
<1>7. IsFiniteSet(1 .. n) /\ Cardinality(1 .. n) = n BY <1>2, <1>6, FS_Interval
<1>8. IsFiniteSet(Whole(p)) /\ Cardinality(Whole(p)) \in Nat BY <1>2, <1>6, <1>7, FS_Subset, FS_CardinalityType
<1>9. n <= Len(pool[p].free) + Cardinality(Whole(p))
  <2>1. PICK I, F, W : I = 1 .. n /\ F = Elems(pool[p].free) /\ W = Whole(p) OBVIOUS
  <2>2. IsFiniteSet(F) /\ IsFiniteSet(W) /\ I \subseteq F \cup W BY <1>2, <1>5, <1>6, <1>8, <2>1
  <2>3. Cardinality(I) <= Cardinality(F) + Cardinality(W) BY <2>2, CoveredCard
  <2> QED BY <1>5, <1>7, <2>1, <2>3
<1>10. PICK k, w : k = Len(pool[p].free) /\ w = Cardinality(Whole(p)) OBVIOUS
<1>11. k \in Nat BY <1>4, <1>10
<1>12. th'[t].live <= w + th'[t].pushes /\ th'[t].pushes \in Nat BY <1>1, <1>2, <1>6, <1>8, <1>9, <1>10, <1>11
<1>13. CountAt(t)' BY <1>3, <1>10, <1>12 DEF CountAt
<1>14. Spares(t) BY DEF Spares
<1> QED BY <1>1, <1>13, <1>14, CountsStay

LEMMA ServeLocksCounts ==
  ASSUME SInv, EntryInv, CountInv, NEW t \in Threads, ServeLocks(t)
  PROVE  CountInv'
<1>1. th[t].step = "serve" /\ Unlocked(th[t].p) /\ Counts(t) /\ pool' = pool /\ mag' = mag
  BY DEF ServeLocks, Counts
<1>2. TypeOK /\ CallOK(t) BY DEF SInv
<1>3. th[t].op = "alloc" BY <1>1, <1>2, StepOp DEF AllocSteps
<1>4. th[t].p \in Classes /\ th[t].p \in th[t].group BY <1>1, <1>2, <1>3 DEF CallOK
<1>5. PICK p \in Classes : p = th[t].p BY <1>4
<1>6. Serving(p) BY <1>3, <1>4, <1>5, CallServes
<1>7. StoreAt(p) BY <1>6 DEF EntryInv
<1> QED BY <1>1, <1>5, <1>7, BeginsToCount

LEMMA RefillCounts ==
  ASSUME SInv, EntryInv, CountInv, NEW t \in Threads, RefillStep(t)
  PROVE  CountInv'
<1>1. PICK p, m : p = th[t].p /\ m = th[t].mag OBVIOUS
<1>2. /\ th[t].step = "pop" /\ mag[m].slots = <<>> /\ lock[p] = Null
      /\ \A x \in Mags \ {m} : mag'[x] = mag[x]
      /\ \A q \in Pools \ {p} : pool'[q] = pool[q]
      /\ pool'[p].taken = pool[p].taken
  BY <1>1, RefillDoes
<1>3. TypeOK /\ mag[m].pool = p BY <1>1, <1>2, InHand
<1>4. \A q \in Pools : pool'[q].taken = pool[q].taken BY <1>2
<1>5. CASE Goto(t, "pop")
  <2>1. th'[t].step # "count" /\ \A u \in Threads \ {t} : th'[u] = th[u]
    <3>1. PICK s : s = "pop" OBVIOUS
    <3>2. Goto(t, s) BY <1>5, <3>1
    <3> QED BY <1>3, <3>1, <3>2, SameStep
  <2>2. Spares(t) BY <1>2, <1>3, <1>4, NullFacts DEF Spares
  <2> QED BY <2>1, <2>2, CountsStay
<1>6. CASE mag'[m].slots = <<>> /\ Counts(t)
  <2>1. \A x \in Mags : mag'[x].slots = mag[x].slots BY <1>2, <1>6
  <2>2. p \in Classes /\ StoreAt(p) BY <1>1, <1>2, HandCaching
  <2> QED BY <1>1, <1>2, <1>4, <1>6, <2>1, <2>2, BeginsToCount DEF Unlocked
<1> QED BY <1>1, <1>5, <1>6 DEF RefillStep, Counts

LEMMA CountStepCounts ==
  ASSUME SInv, EntryInv, CountInv, NEW t \in Threads, CountStep(t)
  PROVE  CountInv'
<1>1. PICK h : h = Head(th[t].todo) OBVIOUS
<1>2. /\ th[t].step = "count" /\ h \in Mags /\ h \in Elems(th[t].todo)
      /\ th'[t].p = th[t].p /\ th'[t].pushes = th[t].pushes /\ th'[t].todo = Tail(th[t].todo)
      /\ Elems(Tail(th[t].todo)) = Elems(th[t].todo) \ {h}
      /\ th'[t].live = Greater(0, th[t].live - Len(mag[h].slots)) /\ Len(mag[h].slots) \in Nat
      /\ \A u \in Threads \ {t} : th'[u] = th[u]
      /\ pool' = pool /\ mag' = mag
  BY <1>1, CountDoes
<1>3. Spares(t) BY <1>2 DEF Spares
<1>4. CountAt(t) /\ th[t].live \in Int BY <1>2, Counting DEF CountInv
<1>5. PICK p \in Classes : /\ p = th[t].p /\ StoreAt(p) /\ Elems(th[t].todo) \subseteq Caching(p)
                           /\ IsFiniteSet(Pending(t))
  BY <1>2, CountingStore
<1>6. mag[h].slots \in Seq(Nat) /\ Distinct(mag[h].slots) BY <1>2, <1>5, StoreFacts
<1>7. PICK A, B, C : A = Pending(t) /\ B = Pending(t)' /\ C = Elems(mag[h].slots) OBVIOUS
<1>8. IsFiniteSet(C) /\ Cardinality(C) = Len(mag[h].slots) BY <1>6, <1>7, DistinctCard
<1>9. B \subseteq A /\ A \subseteq B \cup C
  <2>1. Elems(th[t].todo)' = Elems(th[t].todo) \ {h} BY <1>2 DEF Elems
  <2>2. B = pool[p].taken \cup UNION {Elems(mag[m].slots) : m \in Elems(th[t].todo) \ {h}}
    BY <1>2, <1>5, <1>7, <2>1 DEF Pending
  <2>3. A = pool[p].taken \cup UNION {Elems(mag[m].slots) : m \in Elems(th[t].todo)} BY <1>5, <1>7 DEF Pending
  <2> QED BY <1>7, <2>2, <2>3
<1>10. IsFiniteSet(B) /\ Cardinality(B) \in Nat BY <1>5, <1>7, <1>9, FS_Subset, FS_CardinalityType
<1>11. Cardinality(A) \in Nat /\ Cardinality(A) <= Cardinality(B) + Cardinality(C) BY <1>8, <1>9, <1>10, CoveredCard
<1>12. th[t].pushes \in Nat /\ th[t].live <= Cardinality(A) + th[t].pushes BY <1>4, <1>7 DEF CountAt
<1>13. PICK a, b, k, l, s : /\ a = Cardinality(A) /\ b = Cardinality(B) /\ k = Len(mag[h].slots)
                            /\ l = th[t].live /\ s = th[t].pushes
  OBVIOUS
<1>14. Greater(0, l - k) <= b + s
  <2>1. l \in Int /\ a \in Nat /\ b \in Nat /\ k \in Nat /\ s \in Nat BY <1>2, <1>4, <1>10, <1>11, <1>12, <1>13
  <2>2. l <= a + s /\ a <= b + k BY <1>8, <1>11, <1>12, <1>13
  <2> QED BY <2>1, <2>2 DEF Greater
<1>15. th'[t].live <= Cardinality(B) + th'[t].pushes /\ th'[t].pushes \in Nat BY <1>2, <1>12, <1>13, <1>14
<1>16. CountAt(t)' BY <1>7, <1>15 DEF CountAt
<1> QED BY <1>2, <1>3, <1>16, CountsStay

LEMMA InitCounts ==
  ASSUME Init
  PROVE  CountInv
<1>1. \A t \in Threads : th[t].step = "none" BY DEF Init, Idle
<1> QED BY <1>1 DEF CountInv

LEMMA NothingCounts ==
  ASSUME SInv, EntryInv, CountInv, UNCHANGED vars
  PROVE  CountInv'
<1>1. pool' = pool /\ mag' = mag /\ th' = th BY DEF vars, poolVars
<1>2. ASSUME NEW u \in Threads, th'[u].step = "count" PROVE CountAt(u)'
  <2>1. CountAt(u) BY <1>1, <1>2 DEF CountInv
  <2>2. Pending(u)' = Pending(u) BY <1>1 DEF Pending, Elems
  <2> QED BY <1>1, <2>1, <2>2 DEF CountAt
<1> QED BY <1>2 DEF CountInv

LEMMA NextCounts ==
  ASSUME SInv, EntryInv, CountInv, [Next]_vars
  PROVE  CountInv'
<1>1. CASE UNCHANGED vars BY <1>1, NothingCounts
<1>2. CASE Next
  <2>1. PICK t \in Threads :
          \/ \E n \in Classes : AllocCall(t, n) \/ \E x \in held : ReallocCall(t, x, n)
          \/ \E x \in held : FreeCall(t, x)
          \/ Reap(t) \/ Alloc(t) \/ GiveBack(t) \/ End(t)
    BY <1>2 DEF Next
  <2>2. CASE \/ \E n \in Classes : AllocCall(t, n) \/ \E x \in held : ReallocCall(t, x, n)
             \/ \E x \in held : FreeCall(t, x)
    BY <2>2, CallsCounts
  <2>3. CASE Reap(t) BY <2>3, MagazinesCounts
  <2>4. CASE Alloc(t)
    BY <2>4, GoesCounts, CreatesCounts, PopCounts, RefillCounts, ServeLocksCounts, CountStepCounts, ServeEntryCounts,
       ServeDynamicCounts, EndsCounts, AllocEndsCounts
    DEF Alloc
  <2>5. CASE GiveBack(t)
    BY <2>5, GoesCounts, CreatesCounts, FlushHalfCounts, PushCounts, LockedFreeCounts, AskNextCounts, AskFoundCounts
    DEF GiveBack
  <2>6. CASE End(t)
    BY <2>6, EndsCounts, GoesCounts, MagazinesCounts, CreatePoolsCounts DEF End
  <2> QED BY <2>1, <2>2, <2>3, <2>4, <2>5, <2>6
<1> QED BY <1>1, <1>2

\* An empty free list leaves no more to the magazines than the reserve.
LEMMA EmptyListTaken ==
  ASSUME SInv, EntryInv, NEW t \in Threads, th[t].step = "count", NEW p, p = th[t].p, pool[p].free = <<>>
  PROVE  IsFiniteSet(pool[p].taken) /\ Cardinality(pool[p].taken) \in Nat /\ Count(p) <= Cardinality(pool[p].taken)
<1>1. p \in Classes /\ p \in Pools /\ lock[p] = t /\ StoreAt(p) /\ TypeOK BY Counting, CountingStore
<1>2. PICK n, r, cap, k : n = Count(p) /\ r = Reserve(n) /\ cap = Capacity(n) /\ k = Magazines(n) OBVIOUS
<1>3. n \in Nat /\ p # Pseudo BY <1>1, <1>2, ScenarioFacts
<1>4. r \in Nat /\ cap \in Nat /\ k \in Nat BY <1>2, <1>3, Geometry
<1>5. r = k * cap BY <1>2 DEF Reserve
<1>6. Total(p) = n + r BY <1>2, <1>3 DEF Total
<1>7. /\ Elems(pool[p].mags) = Caching(p) /\ 1 .. Total(p) \subseteq Elems(pool[p].free) \cup Whole(p)
      /\ Whole(p) \subseteq 1 .. Total(p)
  BY <1>1, WholeStore
<1>8. Elems(pool[p].free) = {} BY DEF Elems
<1>9. PICK s : s = pool[p].mags OBVIOUS
<1>10. s \in Seq(Mags) /\ Len(s) <= k BY <1>1, <1>2, <1>9 DEF SInv, PoolInv, PoolAt, TypeOK, PoolType
<1>11. PICK l \in Nat : l = Len(s) BY <1>10
<1>12. PICK f : f = [i \in 1 .. l |-> Elems(mag[s[i]].slots)] OBVIOUS
<1>13. \A i \in 1 .. l : IsFiniteSet(f[i]) /\ Cardinality(f[i]) <= cap
  <2> SUFFICES ASSUME NEW i \in 1 .. l PROVE IsFiniteSet(f[i]) /\ Cardinality(f[i]) <= cap OBVIOUS
  <2>1. s[i] \in Elems(pool[p].mags) BY <1>9, <1>11 DEF Elems
  <2>2. PICK m \in Caching(p) : m = s[i] BY <1>7, <2>1
  <2>3. mag[m].slots \in Seq(Nat) /\ Distinct(mag[m].slots) /\ Len(mag[m].slots) <= cap BY <1>1, <1>2, StoreFacts
  <2>4. IsFiniteSet(Elems(mag[m].slots)) /\ Cardinality(Elems(mag[m].slots)) = Len(mag[m].slots) BY <2>3, DistinctCard
  <2>5. f[i] = Elems(mag[m].slots) BY <1>12, <2>2
  <2> QED BY <2>3, <2>4, <2>5
<1>14. PICK U : U = UNION {f[i] : i \in 1 .. l} OBVIOUS
<1>15. IsFiniteSet(U) /\ Cardinality(U) \in Nat /\ Cardinality(U) <= l * cap 
  <2>1. PICK c \in Nat : c = cap BY <1>4
  <2>2. \A i \in 1 .. l : IsFiniteSet(f[i]) /\ Cardinality(f[i]) <= c BY <1>13, <2>1
  <2>3. /\ IsFiniteSet(UNION {f[i] : i \in 1 .. l}) /\ Cardinality(UNION {f[i] : i \in 1 .. l}) \in Nat
        /\ Cardinality(UNION {f[i] : i \in 1 .. l}) <= l * c
    BY <2>2, UnionCard
  <2> QED BY <1>14, <2>1, <2>3
<1>16. l * cap <= r
  <2>1. PICK d \in Nat : k = l + d
    <3>1. k - l \in Nat BY <1>4, <1>10, <1>11
    <3> QED BY <1>4, <3>1
  <2>2. k * cap = l * cap + d * cap BY <1>4, <2>1
  <2>3. d * cap \in Nat /\ l * cap \in Nat BY <1>4, <2>1
  <2> QED BY <1>5, <2>2, <2>3
<1>17. U = UNION {Elems(mag[m].slots) : m \in Elems(pool[p].mags)}
  <2>1. \A i \in 1 .. l : f[i] = Elems(mag[s[i]].slots) BY <1>12
  <2>2. Elems(pool[p].mags) = {s[i] : i \in 1 .. l} BY <1>9, <1>11 DEF Elems
  <2>3. ASSUME NEW e \in U PROVE \E m \in Elems(pool[p].mags) : e \in Elems(mag[m].slots)
    <3>1. PICK i \in 1 .. l : e \in f[i] BY <1>14
    <3> QED BY <2>1, <2>2, <3>1
  <2>4. ASSUME NEW m \in Elems(pool[p].mags), NEW e \in Elems(mag[m].slots) PROVE e \in U
    <3>1. PICK i \in 1 .. l : m = s[i] BY <2>2
    <3>2. e \in f[i] BY <2>1, <3>1
    <3> QED BY <1>14, <3>2
  <2> QED BY <2>3, <2>4
<1>18. PICK K : K = pool[p].taken OBVIOUS
<1>19. Whole(p) = K \cup U BY <1>17, <1>18 DEF Whole
<1>20. PICK I : I = 1 .. (n + r) OBVIOUS
<1>21. IsFiniteSet(I) /\ Cardinality(I) = n + r 
  <2>1. PICK j \in Int : j = n + r BY <1>3, <1>4
  <2>2. j \in Nat /\ 1 \in Int BY <1>3, <1>4, <2>1
  <2>3. IsFiniteSet(1 .. j) /\ Cardinality(1 .. j) = IF 1 > j THEN 0 ELSE j - 1 + 1 BY <2>2, FS_Interval
  <2>4. I = 1 .. j BY <1>20, <2>1
  <2> QED BY <2>1, <2>2, <2>3, <2>4
<1>22. I \subseteq K \cup U /\ K \subseteq I BY <1>6, <1>7, <1>8, <1>19, <1>20
<1>23. IsFiniteSet(K) BY <1>21, <1>22, FS_Subset
<1>24. Cardinality(I) <= Cardinality(K) + Cardinality(U) /\ Cardinality(K) \in Nat BY <1>15, <1>22, <1>23, CoveredCard
<1>25. PICK x, y, z : x = Cardinality(K) /\ y = Cardinality(U) /\ z = l * cap OBVIOUS
<1>26. n <= x
  <2>1. n + r <= x + y /\ y \in Nat /\ y <= z /\ z <= r /\ x \in Nat BY <1>15, <1>16, <1>21, <1>24, <1>25
  <2>2. z \in Nat BY <1>4, <1>25
  <2> QED BY <1>3, <1>4, <2>1, <2>2
<1> QED BY <1>2, <1>18, <1>23, <1>24, <1>25, <1>26

LEMMA CountsReach ==
  ASSUME SInv, EntryInv, CountInv
  PROVE  RefusedOnlyWhenFull
<1> SUFFICES ASSUME NEW t \in Threads, Counted(t), ~CanServe(t)
             PROVE  Cardinality(pool[th[t].p].taken) + th[t].pushes >= Count(th[t].p)
  BY DEF RefusedOnlyWhenFull
<1>1. th[t].step = "count" BY DEF Counted
<1>2. PICK p : p = th[t].p OBVIOUS
<1>3. CountAt(t) BY <1>1 DEF CountInv
<1>4. Count(p) \in Nat /\ th[t].live \in Int BY <1>1, <1>2, Counting
<1>5. CASE pool[p].free # <<>>
  <2>1. th[t].todo = <<>> BY <1>2, <1>5 DEF Counted
  <2>2. ~(th[t].live < Count(p)) BY <1>2, <1>5 DEF CanServe
  <2>3. Elems(th[t].todo) = {} BY <2>1 DEF Elems
  <2>4. Pending(t) = pool[p].taken BY <1>2, <2>3 DEF Pending
  <2>5. Cardinality(Pending(t)) \in Nat BY <1>1, CountingStore
  <2> QED BY <1>2, <1>3, <1>4, <2>2, <2>4, <2>5 DEF CountAt
<1>6. CASE pool[p].free = <<>>
  <2>1. Cardinality(pool[p].taken) \in Nat /\ Count(p) <= Cardinality(pool[p].taken) BY <1>1, <1>2, <1>6, EmptyListTaken
  <2> QED BY <1>2, <1>3, <1>4, <2>1 DEF CountAt
<1> QED BY <1>5, <1>6

\* mempool_live_count_locked walks the magazines while other threads pop and
\* push: whatever they do meanwhile, mempool_serve refuses an entry only when
\* callers have as many as were advertised.
THEOREM RefusalsAreRight == Spec => []RefusedOnlyWhenFull
<1>1. Init => CountInv BY InitCounts
<1>2. SInv /\ EntryInv /\ CountInv /\ [Next]_vars => CountInv' BY NextCounts
<1>3. SInv /\ EntryInv /\ CountInv => RefusedOnlyWhenFull BY CountsReach
<1> QED BY <1>1, <1>2, <1>3, EntriesInvariant, PTL DEF Spec
=============================================================================
