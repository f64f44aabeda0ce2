---------------------------- MODULE ShardedCache ----------------------------
(***************************************************************************)
(* What builder.build() makes (impl.h): one cache, or an array of shards   *)
(* with a key routed to one of them by its hash.  The shards are built one *)
(* at a time, any of them may fail, and each counts its memory apart.      *)
(*                                                                         *)
(* A shard is reduced to its expire queue of the keys it keeps; each call  *)
(* is one critical section of that shard.  Cache has what happens inside.  *)
(***************************************************************************)
EXTENDS ExpireQueueOps, FiniteSets

CONSTANTS
  Key,
  HashCode,      \* the hash code of a key
  Multiplier,    \* hash_multiplier
  Values,        \* the number of values of size_t, where it wraps
  MaxConc,       \* bound on concurrency() and hardware_concurrency()
  SizeLimit      \* builder.max_size()

ASSUME HashAssumption == HashCode \in [Key -> 0 .. Values - 1]
ASSUME SizesAssumption ==
  /\ Multiplier \in Nat /\ Values \in Nat \ {0} /\ MaxConc \in Nat \ {0} /\ SizeLimit \in Nat

VARIABLES
  phase,     \* "building", "unwinding", "unset", "ready", "dying", "failed", "gone"
  shards,    \* the number of shards build() decided on; 0 and 1 mean no array
  array,     \* the array of shards is allocated
  built,     \* num_shards_
  alive,     \* the shards that are constructed and not destroyed
  bills,     \* per shard the tracker its allocator counts on
  consults,  \* per shard the tracker its max_memory decorator reads, or NoTracker
  counted,   \* the trackers the memory gauge adds up (stats_impl::mem_use_)
  queue      \* per shard its expire queue of keys

shardVars == <<phase, shards, array, built, alive, bills, consults, counted, queue>>

Index == 0 .. MaxConc - 1
NoTracker == MaxConc

ShardsTypeOK ==
  /\ phase \in {"building", "unwinding", "unset", "ready", "dying", "failed", "gone"}
  /\ shards \in 0 .. MaxConc /\ built \in 0 .. MaxConc
  /\ array \in BOOLEAN
  /\ alive \subseteq Index /\ counted \subseteq Index
  /\ bills \in [Index -> Index] /\ consults \in [Index -> Index \union {NoTracker}]
  /\ \A s \in Index : Queued(queue[s]) \subseteq Key

Sharded == shards > 1

\* build(): the number of shards of a builder.
ShardCount(safe, conc, hardware) ==
  IF ~safe THEN 0 ELSE IF conc = 0 THEN hardware ELSE conc

ShardsInit ==
  /\ phase = "building"
  /\ \E safe \in BOOLEAN, conc, hardware \in 0 .. MaxConc :
       shards = ShardCount(safe, conc, hardware)
  /\ array = FALSE /\ built = 0
  /\ alive = {} /\ counted = {}
  /\ bills = [s \in Index |-> 0]
  /\ consults = [s \in Index |-> NoTracker]
  /\ queue = [s \in Index |-> EmptyQueue]

-----------------------------------------------------------------------------
(* Construction.  The tracker that build() makes has index 0 and is billed *)
(* for the object itself and for the first shard.                          *)

\* traits::allocate for the array of shards.
AllocateArray ==
  /\ phase = "building" /\ Sharded /\ ~array
  /\ array' = TRUE
  /\ UNCHANGED <<phase, shards, built, alive, bills, consults, counted, queue>>

\* The first shard of the array, or the only cache of wrapper.
ConstructFirst ==
  /\ phase = "building" /\ built = 0 /\ (Sharded => array)
  /\ built' = 1 /\ alive' = {0}
  /\ phase' = IF Sharded THEN "building" ELSE "unset"
  /\ UNCHANGED <<shards, array, bills, consults, counted, queue>>

\* One round of the loop over the other shards: a tracker of its own, on the
\* gauge, in the allocator copy, and in the max_memory decorator.
Mut_ConstructNext ==
  /\ phase = "building" /\ 0 < built /\ built < shards
  /\ bills' = bills
  /\ consults' = [consults EXCEPT ![built] = built]
  /\ counted' = counted \union {built}
  /\ alive' = alive \union {built} /\ built' = built + 1
  /\ UNCHANGED <<phase, shards, array, queue>>
ConstructNext ==
  /\ phase = "building" /\ 0 < built /\ built < shards
  /\ bills' = [bills EXCEPT ![built] = built]
  /\ consults' = [consults EXCEPT ![built] = built]
  /\ counted' = counted \union {built}
  /\ alive' = alive \union {built} /\ built' = built + 1
  /\ UNCHANGED <<phase, shards, array, queue>>

\* The loop is over: every shard gets the statistics record.
Constructed ==
  /\ phase = "building" /\ Sharded /\ built = shards
  /\ phase' = "unset"
  /\ UNCHANGED <<shards, array, built, alive, bills, consults, counted, queue>>

\* An allocation or a constructor throws.  Inside the try block of the shards
\* the catch handler takes over; elsewhere nothing is left to destroy.  A
\* tracker may already be on the gauge.
ConstructFails ==
  /\ phase = "building" /\ (Sharded => built < shards)
  /\ IF array THEN /\ phase' = "unwinding"
                   /\ counted' \in {counted} \union
                        (IF built > 0 THEN {counted \union {built}} ELSE {})
     ELSE phase' = "failed" /\ counted' = {}
  /\ UNCHANGED <<shards, array, built, alive, bills, consults, queue>>

\* catch (...): one shard less, from the last to the first.
Mut_UnwindShard ==
  /\ phase = "unwinding" /\ built > 0
  /\ alive' = alive \ {built} /\ built' = built - 1
  /\ UNCHANGED <<phase, shards, array, bills, consults, counted, queue>>
UnwindShard ==
  /\ phase = "unwinding" /\ built > 0
  /\ alive' = alive \ {built - 1} /\ built' = built - 1
  /\ UNCHANGED <<phase, shards, array, bills, consults, counted, queue>>

\* catch (...): the array is freed and the exception goes on, which destroys
\* the bases and with them the gauge.
Unwound ==
  /\ phase = "unwinding" /\ built = 0
  /\ array' = FALSE /\ phase' = "failed" /\ counted' = {}
  /\ UNCHANGED <<shards, built, alive, bills, consults, queue>>

\* set_mem_use: build() hands over its tracker, and the cache is ready.
SetMemUse ==
  /\ phase = "unset"
  /\ counted' = counted \union {0}
  /\ consults' = [consults EXCEPT ![0] = 0]
  /\ phase' = "ready"
  /\ UNCHANGED <<shards, array, built, alive, bills, queue>>

-----------------------------------------------------------------------------
(* Calls. *)

\* The shard that each call addresses: hash_multiplier * hash_code % num_shards_
\* in size_t, written out in every override of sharded_wrapper; wrapper has one
\* cache.  The last is that of a query, whose hash code get(args...) computes from
\* arguments that stand for the key.
ExpireShard(k) == IF Sharded THEN ((Multiplier * HashCode[k]) % Values) % built ELSE 0
PeekShard(k) == IF Sharded THEN ((Multiplier * HashCode[k]) % Values) % built ELSE 0
GetShard(k) == IF Sharded THEN ((Multiplier * HashCode[k]) % Values) % built ELSE 0
MoveShard(k) == IF Sharded THEN ((Multiplier * HashCode[k]) % Values) % built ELSE 0
Mut_QueryShard(k) == IF Sharded THEN (Multiplier * HashCode[k]) % built ELSE 0
QueryShard(k) == IF Sharded THEN ((Multiplier * HashCode[k]) % Values) % built ELSE 0

\* The shards that the calls for a key address.
ShardsOf(k) == {ExpireShard(k), PeekShard(k), GetShard(k), MoveShard(k), QueryShard(k)}

\* The limit of a shard.  The constructor computes the share of a shard, but
\* max_size() is const and returns a new builder, which is dropped.
Limit == SizeLimit

\* The shard finds or creates the element, then shrinks its queue.
LookupOrCreate(s, k) ==
  /\ phase = "ready"
  /\ LET q == IF k \in Queued(queue[s]) THEN Promote(queue[s], k)
              ELSE LinkCold(queue[s], k)
     IN queue' = [queue EXCEPT ![s] = ShrinkTo(q, Limit)]
  /\ UNCHANGED <<phase, shards, array, built, alive, bills, consults, counted>>

\* get(const key_type&), get(key_type&&) and get(const extended_query_type&).
\* get_if_present changes nothing here.
Get(k) == LookupOrCreate(GetShard(k), k)
GetMove(k) == LookupOrCreate(MoveShard(k), k)
GetQuery(k) == LookupOrCreate(QueryShard(k), k)

\* expire: the element is dropped where the key is looked up.
ExpireKey(k) ==
  /\ phase = "ready"
  /\ queue' = [queue EXCEPT ![ExpireShard(k)] = Unlink(@, k)]
  /\ UNCHANGED <<phase, shards, array, built, alive, bills, consults, counted>>

-----------------------------------------------------------------------------
(* Destruction, when no call is under way. *)

BeginDestroy ==
  /\ phase = "ready"
  /\ phase' = "dying"
  /\ UNCHANGED <<shards, array, built, alive, bills, consults, counted, queue>>

DestroyShard ==
  /\ phase = "dying" /\ built > 0
  /\ alive' = alive \ {built - 1} /\ built' = built - 1
  /\ queue' = [queue EXCEPT ![built - 1] = EmptyQueue]
  /\ UNCHANGED <<phase, shards, array, bills, consults, counted>>

EndDestroy ==
  /\ phase = "dying" /\ built = 0
  /\ array' = FALSE /\ phase' = "gone" /\ counted' = {}
  /\ UNCHANGED <<shards, built, alive, bills, consults, queue>>

ShardsNext ==
  \/ AllocateArray
  \/ ConstructFirst
  \/ ConstructNext
  \/ Constructed
  \/ ConstructFails
  \/ UnwindShard
  \/ Unwound
  \/ SetMemUse
  \/ \E k \in Key : Get(k)
  \/ \E k \in Key : GetMove(k)
  \/ \E k \in Key : GetQuery(k)
  \/ \E k \in Key : ExpireKey(k)
  \/ BeginDestroy
  \/ DestroyShard
  \/ EndDestroy

ShardsSpec == ShardsInit /\ [][ShardsNext]_shardVars

-----------------------------------------------------------------------------
\* ShardsAccounted: wherever a construction fails, and when the cache goes, each
\* shard that was constructed is destroyed once and before its memory is freed;
\* a call never meets a shard that is not there (the catch handler and the
\* destructor of sharded_wrapper).
ShardsAccounted ==
  /\ alive = 0 .. built - 1
  /\ alive # {} => (array <=> Sharded)
  /\ phase \in {"failed", "gone"} => alive = {} /\ ~array
  /\ phase = "ready" => \A k \in Key : ShardsOf(k) \subseteq alive

\* OwnTracker: in a finished cache no two shards count memory on the same
\* tracker, the limit of a shard looks at the tracker its allocations are
\* counted on, and the gauge adds up each tracker of a shard (the constructor
\* of sharded_wrapper, set_mem_use).
OwnTracker ==
  phase = "ready" =>
    /\ \A s, t \in alive : s # t => bills[s] # bills[t]
    /\ \A s \in alive : consults[s] = bills[s]
    /\ counted = {bills[s] : s \in alive}

\* FoundAgain: whichever overload brought a key into the cache, one shard keeps
\* it, and every later call finds it there: expire and get_if_present do not miss
\* it, and no other get creates it a second time ("The mapped value corresponding
\* to the key", cache.h).  It takes two calls of different overloads to see them
\* disagree, here where the multiplication of the hash wraps.
FoundAgain ==
  phase = "ready" =>
    \A s \in Index : \A k \in Queued(queue[s]) : ShardsOf(k) = {s}

\* TotalBound: "The cache will attempt to keep the number of items below this
\* value" (max_size in builder.h), read for the cache the builder makes and with
\* the value itself allowed.  Every shard has the whole limit to itself.
Kept == {p \in Index \X Key : p[2] \in Queued(queue[p[1]])}
TotalBound == Cardinality(Kept) <= SizeLimit
=============================================================================
