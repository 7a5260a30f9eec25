--------------------------- MODULE AllocatorSpec ----------------------------
(***************************************************************************)
(* What the paged allocator of src/src/utils/memory promises its clients:  *)
(* a page manager is a bag of memory regions.  A region handed out shares  *)
(* no byte with any region still in use by any manager; regions disappear  *)
(* together (Free, Delete) or, the last movable one, alone (Rollback).     *)
(***************************************************************************)
EXTENDS Integers

CONSTANTS Managers,
          Regions     \* regions <<first byte, last byte + 1>> of the memory

VARIABLE inUse        \* the regions each manager handed out

Apart(r, s) == r[2] <= s[1] \/ s[2] <= r[1]

Init == inUse = [m \in Managers |-> {}]

Allocate(m) ==
    \E r \in Regions :
        /\ \A n \in Managers : \A s \in inUse[n] : Apart(r, s)
        /\ inUse' = [inUse EXCEPT ![m] = @ \cup {r}]

Discard(m) ==
    \E r \in inUse[m] : inUse' = [inUse EXCEPT ![m] = @ \ {r}]

Free(m) == inUse' = [inUse EXCEPT ![m] = {}]

Next == \E m \in Managers : Allocate(m) \/ Discard(m) \/ Free(m)

Spec == Init /\ [][Next]_inUse
=============================================================================
