----------------------------- MODULE MCLRUCache -----------------------------
(* Small instances of LRUCache: values of size one.                        *)
EXTENDS LRUCache

AllOrNone == {{}, {"getter", "setter"}}
SizeOne == [v \in Values |-> 1]
Symmetric == Permutations(Callers) \cup Permutations(Keys) \cup Permutations(Values)
=============================================================================
