---------------------------- MODULE MCBucketsBuilt ----------------------------
(***************************************************************************)
(* One specification for the caches that a program can build on Buckets:   *)
(* synchronous, asynchronous, and synchronous with create functions that   *)
(* call back while it is harmless (their keys are in other buckets,        *)
(* nothing is evicted, the map does not grow).                             *)
(***************************************************************************)
EXTENDS Buckets, TLC

CONSTANTS a1, a2, a3, k1, k2, k3, k4,
          MaxBacks     \* how often create functions call back

\* The first three keys share a bucket of three, and the second leaves it when
\* there are nine; the fourth is elsewhere.
HashMC == k1 :> 0 @@ k2 :> 3 @@ k3 :> 9 @@ k4 :> 1

Symmetry == Permutations(Addr)

VARIABLES
  built,   \* how the cache was built
  backs    \* how often create functions will still call back

Sync == INSTANCE Buckets WITH Async <- FALSE, Recursive <- FALSE, Keys <- {k1, k2, k3}
Deferred == INSTANCE Buckets WITH Async <- TRUE, Recursive <- FALSE, Keys <- {k1, k2, k3}
Apart == INSTANCE Buckets WITH Async <- FALSE, Recursive <- FALSE, Queue <- FALSE,
                               Spread <- 1, Keys <- {k1, k4}

BuiltInit ==
  /\ Init
  /\ \/ built \in {"sync", "async"} /\ backs = 0
     \/ built = "calls back" /\ backs = MaxBacks

BuiltNext ==
  \/ built = "sync" /\ Sync!Next /\ UNCHANGED <<built, backs>>
  \/ built = "async" /\ Deferred!Next /\ UNCHANGED <<built, backs>>
  \/ built = "calls back" /\ Apart!Next /\ UNCHANGED <<built, backs>>
  \/ /\ built = "calls back" /\ backs > 0
     /\ \E k \in {k1, k4} : Recurse(k)
     /\ backs' = backs - 1 /\ UNCHANGED built

BuiltSpec == BuiltInit /\ [][BuiltNext]_<<vars, built, backs>>
=============================================================================
