---------------------------- MODULE MCCreateWait ----------------------------
(* CreateWait for TLC: the reuse keys of the threads under the policies
   NEVER and ALWAYS, where created threads share a key and orphans another. *)
EXTENDS CreateWait, TLC

CONSTANT Reuse
MCReuseKey ==
    [t \in Others |-> IF ~Reuse THEN None ELSE IF t \in Created THEN "1" ELSE "2"]

Symmetry == Permutations(Created \ Detached) \cup Permutations(Foreign)
=============================================================================
