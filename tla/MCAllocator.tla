---------------------------- MODULE MCAllocator -----------------------------
(* Small allocators for TLC. *)
EXTENDS Allocator, TLC

(* The process that sends its pages used 6 bytes of a two-page run starting
   at its page 1, and 3 bytes of its page 3. *)
TwoRemotePages == 1 :> 6 @@ 3 :> 3
=============================================================================
