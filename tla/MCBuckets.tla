------------------------------ MODULE MCBuckets ------------------------------
EXTENDS Buckets, TLC

CONSTANTS a1, a2, a3, k1, k2, k3

\* All keys share a bucket of three; the second moves when there are nine.
HashMC == k1 :> 0 @@ k2 :> 3 @@ k3 :> 9

Symmetry == Permutations(Addr)
=============================================================================
