------------------------------ MODULE FirstFit ------------------------------
(***************************************************************************)
(* The search that the bitset promises (module BitsetSpec) and on which    *)
(* the page allocator (module Allocator) relies.                           *)
(***************************************************************************)
EXTENDS Integers

(* `length' positions from p on, all below `members' and none in `used' *)
Fit(used, members, length, p) ==
    p + length <= members /\ p..p + length - 1 \cap used = {}

IsFirstFit(used, members, length, p) ==
    /\ Fit(used, members, length, p)
    /\ \A q \in 0..p - 1 : ~Fit(used, members, length, q)

(* The lowest such position; `members' when there is none. *)
FirstFit(used, members, length) ==
    IF \E p \in 0..members - 1 : IsFirstFit(used, members, length, p)
    THEN CHOOSE p \in 0..members - 1 : IsFirstFit(used, members, length, p)
    ELSE members
=============================================================================
