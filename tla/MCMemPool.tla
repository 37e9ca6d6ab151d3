------------------------------ MODULE MCMemPool ------------------------------
(* Small instances of MemPool.                                             *)
EXTENDS MemPool, TLC

\* Threads are interchangeable.
ThreadSymmetry == Permutations(Threads)

Scenario(count, ranged, cached, policy, c, n) ==
  [classes |-> Len(count), count |-> count, ranged |-> ranged, cached |-> cached, policy |-> policy,
   maxCalls |-> c, maxCreations |-> n]

\* The addresses collide, and wrap round the end of the table.
Hashes == [a \in Addresses |-> IF a = 3 THEN 0 ELSE HashSize - 1]

\* Two caching threads and a third that finds no magazine left.
Capacities == Scenario(<<2>>, TRUE, TRUE, "disabled", 6, 0)

\* Threads exit while the pools go and come again.
Lives == Scenario(<<1, 1>>, FALSE, TRUE, "disabled", 3, 2)

\* Two classes without caches that fall back, at once or at the end.
Fallbacks(policy) == Scenario(<<1, 1>>, TRUE, FALSE, policy, 5, 0)

Instances == {Capacities, Lives, Fallbacks("first"), Fallbacks("last")}
=============================================================================
