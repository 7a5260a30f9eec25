--------------------------- MODULE MCFastHashtab ---------------------------
(* FastHashtab for TLC: all keys in one bucket, or numbered keys in two. *)
EXTENDS FastHashtab, TLC

OneBucket == [k \in Keys |-> 0]
TwoBuckets == [k \in Keys |-> k % 2]

AllMatch == {Keys}
AnyMatch == SUBSET Keys \ {{}}

ThreadSymmetry == Permutations(Threads)
Symmetry == Permutations(Threads) \cup Permutations(Keys)
=============================================================================
