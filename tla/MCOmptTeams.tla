---------------------------- MODULE MCOmptTeams ----------------------------
(* OmptTeams for TLC: the runtime's worker threads are interchangeable. *)
EXTENDS OmptTeams, TLC

Symmetry == Permutations(Workers)
=============================================================================
