---------------------------- MODULE MCExpireQueue ----------------------------
(* Finite instances of ExpireQueue for TLC. *)
EXTENDS ExpireQueue

Symmetry == Permutations(Elem)
=============================================================================
