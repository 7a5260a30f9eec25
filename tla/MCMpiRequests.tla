--------------------------- MODULE MCMpiRequests ---------------------------
(* MpiRequests for TLC: threads are interchangeable where no run checks
   liveness, and so are handles that are no dummies. *)
EXTENDS MpiRequests, TLC

Symmetry == Permutations(Threads) \cup Permutations(Handles \ Dummies)
=============================================================================
