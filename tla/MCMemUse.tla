------------------------------ MODULE MCMemUse ------------------------------
(* A finite instance of MemUse for TLC. *)
EXTENDS MemUse

CONSTANTS t1, t2, b1, b2, b3

Symmetry == Permutations(Thread) \union Permutations(Block)
=============================================================================
