----------------------------- MODULE AddressSet -----------------------------
(***************************************************************************)
(* The set of the addresses of its dynamic entries a memory pool keeps     *)
(* (mp_dynamic_set_* in src/src/cmempool.c): open addressing with linear   *)
(* probing over a power-of-two table, addressed by the high bits of a      *)
(* hash, growing at half load and without tombstones.                      *)
(*                                                                         *)
(* A table is a function from 0 .. cap-1 to addresses and Empty; the null  *)
(* pointer is the table <<>> of capacity 0.                                *)
(***************************************************************************)
EXTENDS Integers, SequencesExt, FiniteSetsExt

CONSTANTS
  Empty,
  Hash,               \* address -> the HashSize values its product may have
  HashSize,           \* a power of two
  MinCapacity         \* MP_DYNAMIC_SET_MIN_CAPACITY

Cap(table) == Cardinality(DOMAIN table)
Blank(cap) == [i \in 0 .. cap - 1 |-> Empty]

\* mp_dynamic_set_home: the high bits of the product.
Home(table, key) == Hash[key] \div (HashSize \div Cap(table))

\* The first index at or after i, going round, whose content is in found.
Probe(table, i, found) ==
  (i + Min({d \in 0 .. Cap(table) - 1 : table[(i + d) % Cap(table)] \in found})) % Cap(table)

\* mp_dynamic_set_place.
Place(table, key) == [table EXCEPT ![Probe(table, Home(table, key), {Empty})] = key]

\* mp_dynamic_set_contains_locked.
SetHas(table, key) ==
  table # <<>> /\ table[Probe(table, Home(table, key), {key, Empty})] = key

\* mp_dynamic_set_insert_locked, once live addresses are in the table.
Grown(table) ==
  FoldLeft(LAMBDA new, i : IF table[i] = Empty THEN new ELSE Place(new, table[i]),
           Blank(IF table = <<>> THEN MinCapacity ELSE 2 * Cap(table)),
           [i \in 1 .. Cap(table) |-> i - 1])
Full(table, live) == (live + 1) * 2 > Cap(table)
SetInsert(table, key, live) == Place(IF Full(table, live) THEN Grown(table) ELSE table, key)

\* Mutant: what is past the gap stays where it is.
SetRemove_Gap(table, key) == [table EXCEPT ![Probe(table, Home(table, key), {key})] = Empty]

\* mp_dynamic_set_remove_locked: the entries of the run behind the gap that
\* would no longer be found move into it, each leaving a gap of its own.
SetRemove(table, key) ==
  LET cap  == Cap(table)
      at   == Probe(table, Home(table, key), {key})
      run  == Min({d \in 1 .. cap - 1 : table[(at + d) % cap] = Empty}) - 1
      Fill(s, j) ==
        IF (j - Home(table, table[j])) % cap >= (j - s.gap) % cap
        THEN [gap |-> j, table |-> [s.table EXCEPT ![s.gap] = table[j]]] ELSE s
      last == FoldLeft(Fill, [gap |-> at, table |-> table], [d \in 1 .. run |-> (at + d) % cap])
  IN [last.table EXCEPT ![last.gap] = Empty]
=============================================================================
