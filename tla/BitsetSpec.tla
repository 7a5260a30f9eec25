----------------------------- MODULE BitsetSpec -----------------------------
(***************************************************************************)
(* What src/src/utils/memory/scorep_bitset.h promises the allocator: a set *)
(* of positions, and searches that return the lowest position that will do *)
(* (or the number of members when there is none).                          *)
(***************************************************************************)
EXTENDS Integers, FirstFit

VARIABLES numberOfMembers, used, result

Span(offset, length) == offset..offset + length - 1

Init == used = {} /\ result = 0

SetRange(offset, length) ==
    /\ Span(offset, length) \subseteq 0..numberOfMembers - 1 \ used
    /\ used' = used \cup Span(offset, length)
    /\ UNCHANGED result

ClearRange(offset, length) ==
    /\ Span(offset, length) \subseteq used
    /\ used' = used \ Span(offset, length)
    /\ UNCHANGED result

FindAndSetRange(length) ==
    /\ result' = FirstFit(used, numberOfMembers, length)
    /\ used' = IF result' < numberOfMembers
               THEN used \cup Span(result', length)
               ELSE used

Next ==
    /\ UNCHANGED numberOfMembers
    /\ \E length \in 1..numberOfMembers :
          \/ FindAndSetRange(length)
          \/ \E offset \in 0..numberOfMembers - 1 :
                SetRange(offset, length) \/ ClearRange(offset, length)

Spec == Init /\ [][Next]_<<numberOfMembers, used, result>>
=============================================================================
