------------------------------ MODULE MCCache ------------------------------
(* Finite instances of Cache for TLC. *)
EXTENDS CacheClients

CONSTANTS
  t1, t2, t3,              \* threads
  ka, kb,                  \* keys
  a1, a2, a3, b1           \* elements for ka and kb

\* The two keys share a bucket until the bucket vector grows from 3 to 9.
HashAB == [k \in Keys |-> IF k = ka THEN 3 ELSE 0]
KeyAB == [e \in Elem |-> IF e = b1 THEN kb ELSE ka]

Symmetry == Permutations(Threads) \union Permutations(Elem \ {b1})
=============================================================================
