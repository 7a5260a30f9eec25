------------------------------ MODULE MCRWLock ------------------------------
(* RWLock for TLC: interchangeable threads. *)
EXTENDS RWLock, TLC

Symmetry == Permutations(Threads)
=============================================================================
