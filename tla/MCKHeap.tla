-------------------------------- MODULE MCKHeap --------------------------------
(* Pages of four units, a heap of two pages that can grow once, and        *)
(* requests from the smallest block to more than any run holds.            *)
EXTENDS KHeap
=============================================================================
