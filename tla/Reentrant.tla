------------------------------- MODULE Reentrant -------------------------------
(***************************************************************************)
(* Create functions that call caches (cache_impl.h, create_handler.h): the *)
(* value of a key is made from the values of the keys it needs, which are  *)
(* got from the same cache or from another one.  What matters is which     *)
(* locks a thread holds while it runs a create function or waits:          *)
(*                                                                         *)
(*   sync      the create function runs in the walk, with the lock;        *)
(*   deferred  an async cache: the walk links a future, the lock is        *)
(*             released, and whichever thread waits first runs the create  *)
(*             function;                                                   *)
(*   future    an async cache whose create function returns a future: the  *)
(*             function runs with the lock, its future completes without.  *)
(*                                                                         *)
(* A cache is one mutex here; a shard of a sharded cache is another.       *)
(* Exceptions, expiry in mid-creation and eviction are treated in Cache.   *)
(***************************************************************************)
EXTENDS Integers, Sequences, FiniteSets

CONSTANTS
  Threads,
  Keys,
  NumCaches,
  CacheOf,   \* the cache of each key
  Needs,     \* the keys that the create function of a key gets
  Kinds,     \* the kinds of cache that occur
  Own,       \* the kinds whose create functions may call their own cache
  None       \* no thread, no key

Caches == 1 .. NumCaches

ASSUME KeysAssumption ==
  /\ NumCaches \in Nat /\ CacheOf \in [Keys -> Caches] /\ Needs \in [Keys -> SUBSET Keys]
  /\ Kinds \union Own \subseteq {"sync", "deferred", "future"}
  /\ None \notin Threads \union Keys

VARIABLES
  kind,    \* the kind of each cache
  lock,    \* the thread that holds the mutex of each cache, or None
  entry,   \* what the bucket holds for a key: nothing, a future, a value
  future,  \* whether the create function of a future has to be run, runs, or
           \* has ended
  frame,   \* the innermost call of each thread
  below    \* the calls whose create functions made that call, innermost first

vars == <<kind, lock, entry, future, frame, below>>

(***************************************************************************)
(* A call is at                                                            *)
(*   lock     about to lock, to look its key up      (lookup_or_create)    *)
(*   walk     in its bucket, with the lock                                 *)
(*   create   in the create function                                       *)
(*   wait     in fut.get() or fut.wait()             (resolve_)            *)
(*   joined   past fut.get()                                               *)
(*   relock   past fut.wait(), about to lock again                         *)
(*   resolve  installing the value, with the lock                          *)
(***************************************************************************)
Frame == [key : Keys, mine : BOOLEAN, todo : SUBSET Keys,
          at : {"lock", "walk", "create", "wait", "joined", "relock", "resolve"}]
Suspended == {f \in Frame : f.at = "create"}
Idle == [key |-> None, mine |-> FALSE, todo |-> {}, at |-> "idle"]
Begin(k) == [key |-> k, mine |-> FALSE, todo |-> {}, at |-> "lock"]

\* Every create function calls caches further down, or its own cache where that
\* is allowed.
Layered ==
  \A k \in Keys : \A j \in Needs[k] :
    CacheOf[j] < CacheOf[k] \/ (CacheOf[j] = CacheOf[k] /\ kind[CacheOf[k]] \in Own)

Init ==
  /\ kind \in [Caches -> Kinds] /\ Layered
  /\ lock = [c \in Caches |-> None]
  /\ entry = [k \in Keys |-> "absent"]
  /\ future = [k \in Keys |-> "done"]
  /\ frame = [t \in Threads |-> Idle]
  /\ below = [t \in Threads |-> <<>>]

TypeOK ==
  /\ kind \in [Caches -> Kinds]
  /\ lock \in [Caches -> Threads \union {None}]
  /\ entry \in [Keys -> {"absent", "future", "value"}]
  /\ future \in [Keys -> {"deferred", "runs", "done"}]
  /\ frame \in [Threads -> Frame \union {Idle}]
  /\ below \in [Threads -> Seq(Suspended)]

-----------------------------------------------------------------------------
At(t, p) == frame[t].at = p
KeyAt(t) == frame[t].key
Cache(t) == CacheOf[frame[t].key]
KindAt(t) == kind[Cache(t)]

GoTo(t, p) == frame' = [frame EXCEPT ![t].at = p]
Unlock(t) == lock' = [lock EXCEPT ![Cache(t)] = None]
Put(t, x) == entry' = [entry EXCEPT ![KeyAt(t)] = x]

\* A call returns, to the create function that made it if there is one.
Return(t) ==
  IF below[t] = <<>>
  THEN frame' = [frame EXCEPT ![t] = Idle] /\ UNCHANGED below
  ELSE /\ frame' = [frame EXCEPT ![t] = Head(below[t])]
       /\ below' = [below EXCEPT ![t] = Tail(@)]

Call(t, k) ==
  /\ At(t, "idle")
  /\ frame' = [frame EXCEPT ![t] = Begin(k)]
  /\ UNCHANGED <<kind, lock, entry, future, below>>

\* std::unique_lock: a thread that owns the mutex blocks on itself.
Lock(t) ==
  /\ frame[t].at \in {"lock", "relock"}
  /\ lock[Cache(t)] = None
  /\ lock' = [lock EXCEPT ![Cache(t)] = t]
  /\ GoTo(t, IF At(t, "lock") THEN "walk" ELSE "resolve")
  /\ UNCHANGED <<kind, entry, future, below>>

Found(t) ==
  /\ At(t, "walk") /\ entry[KeyAt(t)] = "value"
  /\ Return(t) /\ Unlock(t)
  /\ UNCHANGED <<kind, entry, future>>

\* A lookup that finds a future waits for it without the lock.
Join(t) ==
  /\ At(t, "walk") /\ entry[KeyAt(t)] = "future"
  /\ GoTo(t, IF future[KeyAt(t)] = "done" THEN "joined" ELSE "wait") /\ Unlock(t)
  /\ UNCHANGED <<kind, entry, future, below>>

\* Nothing found, and the create function is called under the lock.
Mut_CreateLocked(t) ==
  /\ At(t, "walk") /\ entry[KeyAt(t)] = "absent" /\ KindAt(t) # "deferred"
  /\ frame' = [frame EXCEPT ![t].at = "create", ![t].mine = TRUE, ![t].todo = Needs[KeyAt(t)]]
  /\ Unlock(t)
  /\ UNCHANGED <<kind, entry, future, below>>
CreateLocked(t) ==
  /\ At(t, "walk") /\ entry[KeyAt(t)] = "absent" /\ KindAt(t) # "deferred"
  /\ frame' = [frame EXCEPT ![t].at = "create", ![t].mine = TRUE, ![t].todo = Needs[KeyAt(t)]]
  /\ UNCHANGED <<kind, lock, entry, future, below>>

\* Nothing found, and a deferred future is linked.
Mut_CreateHeld(t) ==
  /\ At(t, "walk") /\ entry[KeyAt(t)] = "absent" /\ KindAt(t) = "deferred"
  /\ future' = [future EXCEPT ![KeyAt(t)] = "deferred"] /\ Put(t, "future")
  /\ frame' = [frame EXCEPT ![t].at = "wait", ![t].mine = TRUE]
  /\ UNCHANGED <<kind, lock, below>>
CreateDeferred(t) ==
  /\ At(t, "walk") /\ entry[KeyAt(t)] = "absent" /\ KindAt(t) = "deferred"
  /\ future' = [future EXCEPT ![KeyAt(t)] = "deferred"] /\ Put(t, "future")
  /\ frame' = [frame EXCEPT ![t].at = "wait", ![t].mine = TRUE]
  /\ Unlock(t)
  /\ UNCHANGED <<kind, below>>

\* The first that waits for a deferred future runs the create function.
Start(t) ==
  /\ At(t, "wait") /\ future[KeyAt(t)] = "deferred"
  /\ future' = [future EXCEPT ![KeyAt(t)] = "runs"]
  /\ frame' = [frame EXCEPT ![t].at = "create", ![t].todo = Needs[KeyAt(t)]]
  /\ UNCHANGED <<kind, lock, entry, below>>

\* The create function gets a value it needs.
Nest(t, k) ==
  /\ At(t, "create") /\ k \in frame[t].todo
  /\ below' = [below EXCEPT ![t] = <<[frame[t] EXCEPT !.todo = @ \ {k}]>> \o @]
  /\ frame' = [frame EXCEPT ![t] = Begin(k)]
  /\ UNCHANGED <<kind, lock, entry, future>>

Created(t) == At(t, "create") /\ frame[t].todo = {}

\* The value is linked, the hash map grown if need be, the lock released.
CreatedLocked(t) ==
  /\ Created(t) /\ KindAt(t) = "sync"
  /\ Put(t, "value")
  /\ Return(t) /\ Unlock(t)
  /\ UNCHANGED <<kind, future>>

\* The future that the create function returned is linked and waited for.
Mut_CreatedFuture(t) ==
  /\ Created(t) /\ KindAt(t) = "future"
  /\ Put(t, "future") /\ future' = [future EXCEPT ![KeyAt(t)] = "runs"]
  /\ GoTo(t, "wait") /\ UNCHANGED lock
  /\ UNCHANGED <<kind, below>>
CreatedFuture(t) ==
  /\ Created(t) /\ KindAt(t) = "future"
  /\ Put(t, "future") /\ future' = [future EXCEPT ![KeyAt(t)] = "runs"]
  /\ GoTo(t, "wait") /\ Unlock(t)
  /\ UNCHANGED <<kind, below>>

\* All that wait for the future of k wake up: who linked it locks again.
Wake(fr, k) ==
  [t \in Threads |->
     IF fr[t].at = "wait" /\ fr[t].key = k
     THEN [fr[t] EXCEPT !.at = IF fr[t].mine THEN "relock" ELSE "joined"]
     ELSE fr[t]]

CreatedDeferred(t) ==
  /\ Created(t) /\ KindAt(t) = "deferred"
  /\ future' = [future EXCEPT ![KeyAt(t)] = "done"]
  /\ frame' = Wake([frame EXCEPT ![t].at = "wait"], KeyAt(t))
  /\ UNCHANGED <<kind, lock, entry, below>>

\* A future that the create function returned completes.
Complete(k) ==
  /\ future[k] = "runs" /\ kind[CacheOf[k]] = "future"
  /\ future' = [future EXCEPT ![k] = "done"]
  /\ frame' = Wake(frame, k)
  /\ UNCHANGED <<kind, lock, entry, below>>

Mut_Joined(t) ==
  /\ At(t, "joined")
  /\ GoTo(t, "lock")
  /\ UNCHANGED <<kind, lock, entry, future, below>>
Joined(t) ==
  /\ At(t, "joined")
  /\ Return(t)
  /\ UNCHANGED <<kind, lock, entry, future>>

Resolve(t) ==
  /\ At(t, "resolve")
  /\ Put(t, "value")
  /\ Return(t) /\ Unlock(t)
  /\ UNCHANGED <<kind, future>>

\* An element expires or is evicted, and a walk cleans it up.
Drop(k) ==
  /\ entry[k] = "value" /\ lock[CacheOf[k]] = None
  /\ entry' = [entry EXCEPT ![k] = "absent"]
  /\ UNCHANGED <<kind, lock, future, frame, below>>

Step(t) ==
  \/ Found(t) \/ Join(t) \/ CreateLocked(t) \/ CreateDeferred(t) \/ Start(t)
  \/ CreatedLocked(t) \/ CreatedFuture(t) \/ CreatedDeferred(t) \/ Joined(t) \/ Resolve(t)
  \/ \E k \in Keys : Nest(t, k)

Next ==
  \/ \E t \in Threads : Lock(t) \/ Step(t) \/ \E k \in Keys : Call(t, k)
  \/ \E k \in Keys : Complete(k) \/ Drop(k)

Spec == Init /\ [][Next]_vars

\* Threads that can run do, futures that create functions return complete, and
\* no mutex is held against one thread for ever.
FairSpec ==
  /\ Spec
  /\ \A t \in Threads : WF_vars(Step(t)) /\ SF_vars(Lock(t))
  /\ \A k \in Keys : WF_vars(Complete(k))

-----------------------------------------------------------------------------
Calls(t) == {frame[t]} \union {below[t][i] : i \in DOMAIN below[t]}
Runs(t, k) == \E f \in Calls(t) : f.key = k /\ f.at = "create"

\* LocksAreShort: in a deferred cache no thread keeps the lock while it runs a
\* create function or waits for one, so that others get at the cache and the
\* create function can call it ("Don't hold the lock during future
\* resolution!", cache_impl.h:654, and the comment after it).
LocksAreShort ==
  \A c \in Caches :
    (kind[c] = "deferred" /\ lock[c] # None) =>
      frame[lock[c]].at \in {"walk", "resolve"} /\ frame[lock[c]].key \in {k \in Keys : CacheOf[k] = c}

\* The thread that t can not go on without.
WaitsFor(t, u) ==
  \/ frame[t].at \in {"lock", "relock"} /\ lock[Cache(t)] = u
  \/ At(t, "wait") /\ future[KeyAt(t)] = "runs" /\ Runs(u, KeyAt(t))

\* NoCircularWait: threads that wait for locks and for futures that other
\* threads compute never wait for each other in a circle, nor one for itself,
\* although create functions call their own cache: the future is resolved
\* without the lock, which "allows: [...] the create function to recurse into the
\* cache" (cache_impl.h:658-662).
NoCircularWait ==
  \A t \in Threads :
    LET reached[i \in 0 .. Cardinality(Threads)] ==
          IF i = 0 THEN {t} ELSE {u \in Threads : \E v \in reached[i - 1] : WaitsFor(v, u)}
    IN reached[Cardinality(Threads)] = {}

\* CreatedOnce: no two threads run the create function of one key at the same
\* time, nor one thread twice: a lookup joins the future that is linked
\* (bucket.h:149-192), and a deferred future is run by one waiter.
CreatedOnce ==
  /\ \A t, u \in Threads : \A k \in Keys : (Runs(t, k) /\ Runs(u, k)) => t = u
  /\ \A t \in Threads : \A i, j \in DOMAIN below[t] :
       below[t][i].key = below[t][j].key => i = j

\* NestedCallsReturn: every call returns, through all the calls that its create
\* function makes (get of cache_impl.h).
NestedCallsReturn == \A t \in Threads : ~At(t, "idle") ~> At(t, "idle")
=============================================================================
