------------------------------- MODULE Cache -------------------------------
(***************************************************************************)
(* cache_impl (cache_impl.h) with its buckets (bucket.h) and elements      *)
(* (element.h), used by several threads at once.                           *)
(*                                                                         *)
(* A thread that looks up, creates or expires a key takes the cache's lock *)
(* and walks the bucket of the key, one element per step: while it walks,  *)
(* other threads can drop the last reference to a value, and elements can  *)
(* grow too old.  When the cache is async, the creating thread releases    *)
(* the lock while the create function runs and takes it again to install   *)
(* the value.                                                              *)
(*                                                                         *)
(* An element of Elem is an element of the cache together with the value   *)
(* it points to; after it has left the cache and nobody holds its value,   *)
(* its identity is free again.  When all identities of a key are taken,    *)
(* the allocation of another element fails, as it may.  The order of a     *)
(* bucket's chain is left open.                                            *)
(***************************************************************************)
EXTENDS ExpireQueueOps, FiniteSets

CONSTANTS
  Threads,
  Keys,
  Elem,
  None,      \* stands for no element and no key
  KeyOf,     \* the key each element is created for
  Hash,      \* the hash code of each key
  Spread,    \* 1 / max_load_factor: the buckets wanted per element
  Async,     \* builder.async()
  Queue,     \* TRUE with an expire queue, FALSE with weaken_decorator
  MaxSize,   \* builder.max_size()
  Pressure,  \* TRUE when access_expire or max_memory shrink the queue as well
  MaxAge,    \* TRUE with builder.max_age()
  Ops,       \* the operations the threads call
  Outcomes   \* what the create function can do

ASSUME ElemAssumption == None \notin Elem /\ KeyOf \in [Elem -> Keys]
ASSUME HashAssumption == Hash \in [Keys -> Nat] /\ Spread \in Nat \ {0}
ASSUME VariantAssumption ==
  /\ {Async, Queue, Pressure, MaxAge} \subseteq BOOLEAN
  /\ MaxSize \in Nat
ASSUME UseAssumption ==
  /\ Ops \subseteq {"get", "peek", "expire"}
  /\ Outcomes \subseteq {"value", "throw"}

VARIABLES
  lock,      \* the set of threads that hold the cache's mutex
  pc,        \* where each thread is
  op, arg,   \* the operation each thread executes, and its key, if any
  todo,      \* what each thread has still to visit of a bucket or of the cache
  cur,       \* the element each thread is about to return, or has created
  ptr,       \* per element: "absent" from the cache, or what it holds: "nil",
             \* or a "weak" or a "strong" pointer (now, or once it is resolved)
  async,     \* elements that hold a future instead of a pointer (async_type)
  fut,       \* the state of each element's future
  doomed,    \* elements whose future is marked expired (async_type::expired)
  aged,      \* elements that are older than max_age
  pinned,    \* elements with a non-zero use_count
  queue,     \* the expire queue
  nbuckets,  \* buckets_.size()
  refs,      \* elements whose value is referenced by a client
  voided     \* history: elements for which expire() has returned true

control == <<lock, pc, op, arg, todo, cur>>
future == <<async, fut, doomed>>
vars == <<control, future, ptr, aged, pinned, queue, nbuckets, refs, voided>>

-----------------------------------------------------------------------------
\* State functions.

Linked == {e \in Elem : ptr[e] # "absent"}
Free == {e \in Elem \ (Linked \union refs) : \A t \in Threads : cur[t] # e}

\* Elements whose value is referenced: by a client, or by a thread on its way
\* out of the cache with the value in hand.
Referenced ==
  refs \union {e \in Elem : \E t \in Threads :
                 /\ cur[t] = e
                 /\ \/ pc[t] \in {"rehash", "sweep"}
                    \/ pc[t] \in {"wait", "join"} /\ fut[e] = "value"}

\* element::is_expired, for pointers p and references r.  It also tells
\* whether element::ptr() yields nil.  A future never counts as expired.
Mut_ExpiredFuture(p, r, e) ==
  e \in aged \/ p[e] = "nil" \/ (p[e] = "weak" /\ e \notin r)
Expired(p, r, e) ==
  \/ e \in aged
  \/ /\ e \notin async
     /\ p[e] = "nil" \/ (p[e] = "weak" /\ e \notin r)
IsExpired(e) == Expired(ptr, Referenced, e)

\* The elements in the bucket of key k.
Mut_Bucket(k) == {e \in Linked : Hash[KeyOf[e]] % nbuckets = Hash[k] % 3}
Bucket(k) == {e \in Linked : Hash[KeyOf[e]] % nbuckets = Hash[k] % nbuckets}

InitBuckets == 3
TargetBuckets == Spread * Cardinality(Linked)
GrownBuckets == (nbuckets \div 7 + 1) * 9

Init ==
  /\ lock = {}
  /\ pc = [t \in Threads |-> "idle"]
  /\ op = [t \in Threads |-> "none"] /\ arg = [t \in Threads |-> None]
  /\ todo = [t \in Threads |-> {}]
  /\ cur = [t \in Threads |-> None]
  /\ ptr = [e \in Elem |-> "absent"]
  /\ async = {} /\ fut = [e \in Elem |-> "value"] /\ doomed = {}
  /\ aged = {} /\ pinned = {}
  /\ queue = EmptyQueue
  /\ nbuckets = InitBuckets
  /\ refs = {} /\ voided = {}

-----------------------------------------------------------------------------
\* The elements and the queue.

Keep == IF Pressure THEN 0 .. MaxSize ELSE {MaxSize}

Weaken(p, D) == [e \in Elem |-> IF e \in D /\ p[e] = "strong" THEN "weak" ELSE p[e]]
Erase(p, D) == [e \in Elem |-> IF e \in D THEN "absent" ELSE p[e]]

\* erase_if_expired: the elements of D that go.
Mut_ErasedLive(p, r, D) == {e \in D : e \notin pinned}
Erased(p, r, D) == {e \in D : Expired(p, r, e) /\ e \notin pinned}

\* The decorators' on_create and on_hit after e was linked or promoted in q,
\* for pointers p: cleanup_ from the cold end, then the shrink.  The caller
\* pins e and holds its value.
Maintain(q, p, e) ==
  LET r == Referenced \union {e}
      q1 == Cleanup(q, Erased(p, r, Linked \ {e}))
      p1 == Erase(p, Queued(q) \ Queued(q1))
  IN \E n \in Keep :
       LET q2 == ShrinkTo(q1, n)
           drop == Queued(q1) \ Queued(q2)
           p2 == Weaken(p1, drop)
       IN queue' = q2 /\ ptr' = Erase(p2, Erased(p2, r, drop \ {e}))

\* on_create: with a queue the element is linked, otherwise it is weakened.
OnCreate(e) ==
  IF Queue THEN Maintain(LinkCold(queue, e), [ptr EXCEPT ![e] = "strong"], e)
           ELSE ptr' = [ptr EXCEPT ![e] = "weak"] /\ UNCHANGED queue

\* on_hit: promoted, or strengthened and linked when it was off the queue.
Mut_OnHit(e) ==
  IF ~Queue THEN UNCHANGED <<ptr, queue>>
  ELSE IF e \in Queued(queue) THEN Maintain(Promote(queue, e), ptr, e)
  ELSE Maintain(LinkCold(queue, e), ptr, e)
OnHit(e) ==
  IF ~Queue THEN UNCHANGED <<ptr, queue>>
  ELSE IF e \in Queued(queue) THEN Maintain(Promote(queue, e), ptr, e)
  ELSE Maintain(LinkCold(queue, e), [ptr EXCEPT ![e] = "strong"], e)

\* Unlink e from its bucket, and on_delete.
Delete(e) == ptr' = [ptr EXCEPT ![e] = "absent"] /\ queue' = Unlink(queue, e)

\* Thread t goes to p, or is done with its call.
Goto(t, p) == pc' = [pc EXCEPT ![t] = p]
Unlock(t) == lock' = lock \ {t}
Exit(t) ==
  /\ Goto(t, "idle") /\ Unlock(t)
  /\ op' = [op EXCEPT ![t] = "none"] /\ arg' = [arg EXCEPT ![t] = None]
  /\ cur' = [cur EXCEPT ![t] = None] /\ todo' = [todo EXCEPT ![t] = {}]

-----------------------------------------------------------------------------
\* A call, and the walk through the bucket of its key.

Call(t) ==
  /\ pc[t] = "idle"
  /\ Goto(t, "lock")
  /\ \E o \in Ops, k \in Keys : op' = [op EXCEPT ![t] = o] /\ arg' = [arg EXCEPT ![t] = k]
  /\ UNCHANGED <<lock, todo, cur, future, ptr, aged, pinned, queue, nbuckets, refs, voided>>

Lock(t) ==
  /\ pc[t] = "lock" /\ lock = {}
  /\ lock' = {t}
  /\ Goto(t, "walk")
  /\ todo' = [todo EXCEPT ![t] = Bucket(arg[t])]
  /\ UNCHANGED <<op, arg, cur, future, ptr, aged, pinned, queue, nbuckets, refs, voided>>

\* lookup_or_create and expire clean up as they walk; a lookup_if_present
\* does not look whether an element is expired.
Visits(t, e) == pc[t] = "walk" /\ e \in todo[t]
Stale(t, e) == op[t] # "peek" /\ IsExpired(e)
Matches(t, e) == KeyOf[e] = arg[t] /\ ~Stale(t, e)

Mut_VisitStale(t, e) ==
  /\ Visits(t, e) /\ Stale(t, e)
  /\ todo' = [todo EXCEPT ![t] = @ \ {e}]
  /\ Delete(e)
  /\ UNCHANGED <<lock, pc, op, arg, cur, future, aged, pinned, nbuckets, refs, voided>>
VisitStale(t, e) ==
  /\ Visits(t, e) /\ Stale(t, e)
  /\ todo' = [todo EXCEPT ![t] = @ \ {e}]
  /\ IF e \in pinned THEN UNCHANGED <<ptr, queue>> ELSE Delete(e)
  /\ UNCHANGED <<lock, pc, op, arg, cur, future, aged, pinned, nbuckets, refs, voided>>

VisitOther(t, e) ==
  /\ Visits(t, e) /\ ~Stale(t, e) /\ ~Matches(t, e)
  /\ todo' = [todo EXCEPT ![t] = @ \ {e}]
  /\ UNCHANGED <<lock, pc, op, arg, cur, future, ptr, aged, pinned, queue, nbuckets, refs, voided>>

\* The element of the key: get its pointer next.
VisitMatch(t, e) ==
  /\ Visits(t, e) /\ Matches(t, e) /\ op[t] # "expire"
  /\ todo' = [todo EXCEPT ![t] = @ \ {e}]
  /\ cur' = [cur EXCEPT ![t] = e]
  /\ Goto(t, "ptr")
  /\ UNCHANGED <<lock, op, arg, future, ptr, aged, pinned, queue, nbuckets, refs, voided>>

\* element::expire, and the erasure of the element unless it is pinned.
Mut_ExpireMatch(t, e) ==
  /\ Visits(t, e) /\ Matches(t, e) /\ op[t] = "expire"
  /\ UNCHANGED <<ptr, queue, doomed>>
  /\ voided' = voided \union {e}
  /\ Exit(t)
  /\ UNCHANGED <<async, fut, aged, pinned, nbuckets, refs>>
ExpireMatch(t, e) ==
  /\ Visits(t, e) /\ Matches(t, e) /\ op[t] = "expire"
  /\ doomed' = IF e \in async THEN doomed \union {e} ELSE doomed
  /\ IF e \notin pinned THEN Delete(e)
     ELSE /\ ptr' = IF e \in async THEN ptr ELSE [ptr EXCEPT ![e] = "nil"]
          /\ UNCHANGED queue
  /\ voided' = voided \union {e}
  /\ Exit(t)
  /\ UNCHANGED <<async, fut, aged, pinned, nbuckets, refs>>

\* The pointer turned out nil: the walk goes on.
PtrNil(t) ==
  /\ pc[t] = "ptr" /\ IsExpired(cur[t])
  /\ cur' = [cur EXCEPT ![t] = None]
  /\ Goto(t, "walk")
  /\ UNCHANGED <<lock, op, arg, todo, future, ptr, aged, pinned, queue, nbuckets, refs, voided>>

\* The element is found: on_hit for a get, then the caller leaves with the
\* value, or unlocked to wait for the future.
Found(t) ==
  /\ pc[t] = "ptr" /\ ~IsExpired(cur[t])
  /\ LET e == cur[t]
     IN /\ IF op[t] = "get" THEN OnHit(e) ELSE UNCHANGED <<ptr, queue>>
        /\ IF e \in async
           THEN /\ Goto(t, "join") /\ Unlock(t)
                /\ todo' = [todo EXCEPT ![t] = {}]
                /\ UNCHANGED <<op, arg, cur, refs>>
           ELSE Exit(t) /\ refs' = refs \union {e}
  /\ UNCHANGED <<future, aged, pinned, nbuckets, voided>>

\* The walk ends without a match: lookup_if_present returns nullptr, expire
\* returns false.
Missed(t) ==
  /\ pc[t] = "walk" /\ todo[t] = {} /\ op[t] # "get"
  /\ Exit(t)
  /\ UNCHANGED <<future, ptr, aged, pinned, queue, nbuckets, refs, voided>>

-----------------------------------------------------------------------------
\* Creating an element.

MustCreate(t) == pc[t] = "walk" /\ todo[t] = {} /\ op[t] = "get"

\* The new element of t: pinned by the creator, and linked.
Insert(t, e) ==
  /\ e \in Free /\ KeyOf[e] = arg[t]
  /\ OnCreate(e)
  /\ pinned' = pinned \union {e}
  /\ cur' = [cur EXCEPT ![t] = e]
  /\ voided' = voided \ {e} /\ doomed' = doomed \ {e}

\* The create function runs under the lock.  With max_age it may take longer
\* than the age it leaves the element: the pointer is nil at once, and the
\* assertion on it fails.
CreateSync(t, e) ==
  /\ ~Async /\ "value" \in Outcomes /\ MustCreate(t)
  /\ Insert(t, e)
  /\ \E late \in {FALSE, MaxAge} :
       /\ aged' = IF late THEN aged \union {e} ELSE aged \ {e}
       /\ Goto(t, IF late THEN "failed" ELSE "rehash")
  /\ UNCHANGED <<lock, op, arg, todo, async, fut, nbuckets, refs>>

\* The element cannot be allocated, or the create function throws under the
\* lock: nothing has changed yet.
CreateFails(t) ==
  /\ MustCreate(t)
  /\ \/ ~ \E e \in Free : KeyOf[e] = arg[t]
     \/ ~Async /\ "throw" \in Outcomes
  /\ Exit(t)
  /\ UNCHANGED <<future, ptr, aged, pinned, queue, nbuckets, refs, voided>>

\* Only the future is created under the lock.
CreateAsync(t, e) ==
  /\ Async /\ MustCreate(t)
  /\ Insert(t, e)
  /\ async' = async \union {e} /\ fut' = [fut EXCEPT ![e] = "pending"]
  /\ aged' = aged \ {e}
  /\ Unlock(t) /\ Goto(t, "wait")
  /\ UNCHANGED <<op, arg, todo, nbuckets, refs>>

\* The create function of e finishes, on the thread that waits for its future.
Settle(e) ==
  /\ fut[e] = "pending"
  /\ \E t \in Threads : cur[t] = e /\ pc[t] \in {"wait", "join"}
  /\ \E o \in Outcomes : fut' = [fut EXCEPT ![e] = o]
  /\ UNCHANGED <<control, async, doomed, ptr, aged, pinned, queue, nbuckets, refs, voided>>

\* A lookup that found a future returns its value or throws its exception.
\* lookup_if_present is noexcept: the exception terminates the program.
Join(t) ==
  /\ pc[t] = "join" /\ fut[cur[t]] # "pending"
  /\ refs' = IF fut[cur[t]] = "value" THEN refs \union {cur[t]} ELSE refs
  /\ IF fut[cur[t]] = "throw" /\ op[t] = "peek"
     THEN Goto(t, "terminated") /\ UNCHANGED <<lock, op, arg, todo, cur>>
     ELSE Exit(t)
  /\ UNCHANGED <<future, ptr, aged, pinned, queue, nbuckets, voided>>

\* The creator takes the lock again and calls element::resolve.
Mut_ResolveKeeps(t) ==
  /\ pc[t] = "wait" /\ fut[cur[t]] # "pending" /\ lock = {}
  /\ lock' = {t}
  /\ LET e == cur[t]
     IN /\ async' = IF fut[e] = "throw" THEN async ELSE async \ {e}
        /\ Goto(t, IF fut[e] = "throw" THEN "unwind" ELSE "rehash")
  /\ UNCHANGED <<op, arg, todo, cur, ptr, fut, doomed, aged, pinned, queue, nbuckets, refs, voided>>
Resolve(t) ==
  /\ pc[t] = "wait" /\ fut[cur[t]] # "pending" /\ lock = {}
  /\ lock' = {t}
  /\ LET e == cur[t]
     IN /\ async' = async \ {e}
        /\ ptr' = IF fut[e] = "throw" \/ e \in doomed THEN [ptr EXCEPT ![e] = "nil"] ELSE ptr
        /\ Goto(t, IF fut[e] = "throw" THEN "unwind" ELSE "rehash")
  /\ UNCHANGED <<op, arg, todo, cur, fut, doomed, aged, pinned, queue, nbuckets, refs, voided>>

-----------------------------------------------------------------------------
\* After a creation: maybe_rehash_, and the way out.

\* The creator lets go of the element: its pin, then the lock.
Leave(t) ==
  /\ pinned' = pinned \ {cur[t]}
  /\ Exit(t)

Mut_Unwind(t) ==
  /\ pc[t] = "unwind"
  /\ pinned' = pinned \ {cur[t]}
  /\ cur' = [cur EXCEPT ![t] = None] /\ Goto(t, "idle")
  /\ UNCHANGED <<lock, op, arg, todo, future, ptr, aged, queue, nbuckets, refs, voided>>
Unwind(t) ==
  /\ pc[t] = "unwind"
  /\ Leave(t)
  /\ UNCHANGED <<future, ptr, aged, queue, nbuckets, refs, voided>>

\* The load is low enough, or every expired element is to be erased first.
StartRehash(t) ==
  /\ pc[t] = "rehash" /\ nbuckets < TargetBuckets
  /\ Goto(t, "sweep")
  /\ todo' = [todo EXCEPT ![t] = Linked]
  /\ UNCHANGED <<lock, op, arg, cur, future, ptr, aged, pinned, queue, nbuckets, refs, voided>>

Sweep(t, e) ==
  /\ pc[t] = "sweep" /\ e \in todo[t]
  /\ todo' = [todo EXCEPT ![t] = @ \ {e}]
  /\ IF IsExpired(e) /\ e \notin pinned THEN Delete(e) ELSE UNCHANGED <<ptr, queue>>
  /\ UNCHANGED <<lock, pc, op, arg, cur, future, aged, pinned, nbuckets, refs, voided>>

\* The bucket vector grows if the load is still too high, and the elements move
\* to their buckets; a failure to allocate it is swallowed.
Return(t) ==
  /\ \/ pc[t] = "rehash" /\ nbuckets >= TargetBuckets
     \/ pc[t] = "sweep" /\ todo[t] = {}
  /\ nbuckets' \in {nbuckets} \union
        {n \in {GrownBuckets} : nbuckets < TargetBuckets /\ nbuckets < n}
  /\ refs' = refs \union {cur[t]}
  /\ Leave(t)
  /\ UNCHANGED <<future, ptr, aged, queue, voided>>

-----------------------------------------------------------------------------
\* The environment: clients drop references, and time passes.

Drop(e) ==
  /\ e \in refs
  /\ refs' = refs \ {e}
  /\ UNCHANGED <<control, future, ptr, aged, pinned, queue, nbuckets, voided>>

Age(e) ==
  /\ MaxAge /\ e \in Linked \ aged
  /\ aged' = aged \union {e}
  /\ UNCHANGED <<control, future, ptr, pinned, queue, nbuckets, refs, voided>>

\* What thread t does while it holds the lock, and when it has joined.
LockedStep(t) ==
  \/ PtrNil(t) \/ Found(t) \/ Missed(t)
  \/ CreateFails(t) \/ Unwind(t)
  \/ StartRehash(t) \/ Return(t)
  \/ \E e \in Elem :
       \/ VisitStale(t, e) \/ VisitOther(t, e) \/ VisitMatch(t, e) \/ ExpireMatch(t, e)
       \/ CreateSync(t, e) \/ CreateAsync(t, e)
       \/ Sweep(t, e)

Step(t) == Call(t) \/ Lock(t) \/ LockedStep(t) \/ Join(t) \/ Resolve(t)

Next ==
  \/ \E t \in Threads : Step(t)
  \/ \E e \in Elem : Settle(e) \/ Drop(e) \/ Age(e)

Spec == Init /\ [][Next]_vars

-----------------------------------------------------------------------------
\* Safety.

\* Where a thread holds the lock, and where it has created an element.
Locked == {"walk", "ptr", "rehash", "sweep", "unwind", "failed"}
Creating == {"wait", "rehash", "sweep", "unwind", "failed"}

TypeOK ==
  /\ lock \in {{}} \union {{t} : t \in Threads}
  /\ pc \in [Threads -> Locked \union Creating \union {"idle", "lock", "join", "terminated"}]
  /\ op \in [Threads -> Ops \union {"none"}]
  /\ arg \in [Threads -> Keys \union {None}]
  /\ todo \in [Threads -> SUBSET Elem]
  /\ cur \in [Threads -> Elem \union {None}]
  /\ ptr \in [Elem -> {"absent", "nil", "weak", "strong"}]
  /\ fut \in [Elem -> {"pending", "value", "throw"}]
  /\ {async, doomed, aged, pinned, refs, voided} \subseteq SUBSET Elem
  /\ queue \in [order : Seq(Elem), hots : Nat]
  /\ nbuckets \in Nat \ {0}

\* PinsProtect: an element is pinned exactly while the thread that creates it
\* is not done with it, it has one creator, and until then it stays in the
\* cache, whatever other threads walk, expire or evict while the creator waits
\* without the lock (resolve_ uses `created` after it).
PinsProtect ==
  /\ pinned = {cur[t] : t \in {u \in Threads : pc[u] \in Creating}}
  /\ pinned \subseteq Linked
  /\ \A t, u \in Threads :
       pc[t] \in Creating /\ pc[u] \in Creating /\ cur[t] = cur[u] => t = u

\* FutureHasCreator: an element that holds a future has a creator that will
\* replace the future.  Without one it would never expire, nor be erased.
FutureHasCreator ==
  \A e \in async : \E t \in Threads : pc[t] = "wait" /\ cur[t] = e

\* HeldIsFound: while a client holds a reference to a value, the cache still
\* has the element of that value, unless it was expired or grew too old
\* (README.md:50-51: "the cache will always return the same shared pointer").
HeldIsFound == \A e \in refs \ (voided \union aged) : ptr[e] \in {"weak", "strong"}

\* UniqueLive: a key never has two elements that can be hit, so that all
\* callers share one value and one creation.
UniqueLive ==
  \A e, f \in Linked :
    KeyOf[e] = KeyOf[f] /\ ~IsExpired(e) /\ ~IsExpired(f) => e = f

\* QueueKeepsAlive: with a queue, it is exactly the queued elements that hold a
\* strong pointer, or nothing any more.
QueueKeepsAlive ==
  Queue => \A e \in Linked :
             /\ ptr[e] = "strong" => e \in Queued(queue)
             /\ e \in Queued(queue) => ptr[e] \in {"strong", "nil"}

\* ExpireTakesEffect: an element for which expire() returned true is nil while
\* it stays in the cache, or becomes nil as soon as its creator resolves it.
ExpireTakesEffect ==
  \A e \in voided \cap Linked : ptr[e] = "nil" \/ e \in async \cap doomed

\* ExpiredNotServed: a lookup never finds an element for which expire() has
\* returned true (cache.h:258-262, test/expire.cc:12 "Reload must be performed").
ExpiredNotServed == [][\A t \in Threads : Found(t) => cur[t] \notin voided]_vars

\* PeekNeverTerminates: lookup_if_present returns to its caller (cache.h:268-275).
PeekNeverTerminates == \A t \in Threads : pc[t] # "terminated"

\* CreatedIsServed: what lookup_or_create has created is a value it can return
\* (the assertions at bucket.h:188 and cache_impl.h:617).
CreatedIsServed == \A t \in Threads : pc[t] # "failed"

-----------------------------------------------------------------------------
\* Liveness.

\* A thread goes on while it holds the lock or returns a joined value, and the
\* create function ends.
Progress ==
  /\ \A t \in Threads : WF_vars(LockedStep(t)) /\ WF_vars(Join(t))
  /\ \A e \in Elem : WF_vars(Settle(e))

\* The mutex is not held against one thread forever.
FairMutex == \A t \in Threads : SF_vars(Lock(t)) /\ SF_vars(Resolve(t))

FairSpec == Spec /\ Progress /\ FairMutex

\* CallsReturn: every call returns: nobody waits for a future that no thread
\* will complete.
CallsReturn == \A t \in Threads : (pc[t] = "lock") ~> (pc[t] = "idle")
=============================================================================
