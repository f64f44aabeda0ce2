--------------------------- MODULE MCShardedCache ---------------------------
(* A finite instance of ShardedCache for TLC. *)
EXTENDS ShardedCache

CONSTANTS ka, kb, kc     \* keys

\* With a multiplier of 9 in four bits the second hash wraps and the third
\* meets the first one with three shards; the second and the third meet with two.
HashABC == [k \in Key |-> IF k = ka THEN 1 ELSE IF k = kb THEN 14 ELSE 8]
=============================================================================
