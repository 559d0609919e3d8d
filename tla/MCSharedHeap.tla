---------------------------- MODULE MCSharedHeap ----------------------------
(***************************************************************************)
(* SharedHeap for a parent and its child with two small arenas.            *)
(***************************************************************************)
EXTENDS SharedHeap, TLC

CONSTANTS parent, child

Consecutive == parent :> 0 @@ child :> 1
=============================================================================
