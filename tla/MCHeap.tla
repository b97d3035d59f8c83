------------------------------- MODULE MCHeap -------------------------------
(***************************************************************************)
(* A heap with room for four blocks, and sizes that split a block, that    *)
(* leave too little to split, and whose product overflows.                 *)
(***************************************************************************)
EXTENDS HeapProperties
=============================================================================
