------------------------------ MODULE CacheClients ------------------------------
(***************************************************************************)
(* The cache seen by its clients: its threads, with their walks, pins,     *)
(* futures and evictions, keep the promises of CacheContract.              *)
(***************************************************************************)
EXTENDS CacheQueue

\* The element that a lookup of k would serve.
Served(k) == {e \in Linked : KeyOf[e] = k /\ ~IsExpired(e)}
Current == [k \in Keys |-> IF Served(k) = {} THEN None ELSE CHOOSE e \in Served(k) : TRUE]

\* How far a call is, for those who see only its effects.
Stage(p) ==
  CASE p \in {"lock", "walk", "ptr"} -> "called"
    [] p = "wait" -> "creating"
    [] p = "join" -> "joined"
    [] p \in {"rehash", "sweep"} -> "returning"
    [] p = "unwind" -> "throwing"
    [] OTHER -> p

\* The value a thread waits for or is about to return: one it is only looking at
\* is not in its hand yet.
ViewStage == [t \in Threads |-> Stage(pc[t])]
ViewHand == [t \in Threads |-> IF pc[t] = "ptr" THEN None ELSE cur[t]]

ClientView == INSTANCE CacheContract WITH
  current <- Current, stage <- ViewStage, hand <- ViewHand,
  held <- refs, creating <- async, outcome <- fut

\* KeepsContract: every call has one moment at which it takes effect: the walk
\* through a bucket, during which values die and after which others create,
\* evict, expire and grow the map, is as good as a single step (cache.h).
KeepsContract == ClientView!Spec
=============================================================================
