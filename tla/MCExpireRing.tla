------------------------------ MODULE MCExpireRing ------------------------------
(***************************************************************************)
(* Instances of ExpireRing for TLC.                                        *)
(***************************************************************************)
EXTENDS ExpireRing

Symmetry == Permutations(Elem)
=============================================================================
