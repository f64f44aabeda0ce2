------------------------------ MODULE MCReentrant ------------------------------
\* Instances of Reentrant: three caches, one above the other, where the create
\* functions of the middle one call it too; and one cache by itself.
EXTENDS Reentrant, TLC
CONSTANTS ka, kb, kc, kd, t1, t2, t3
CacheMC == ka :> 3 @@ kb :> 2 @@ kc :> 2 @@ kd :> 1
NeedsMC == ka :> {kb, kd} @@ kb :> {kc} @@ kc :> {kd} @@ kd :> {}
OneCache == [k \in Keys |-> 1]
Chain == ka :> {kb, kc} @@ kb :> {kc} @@ kc :> {}
ThreadSymmetry == Permutations(Threads)
=============================================================================
