---------------------------- MODULE Cache_proofs ----------------------------
(***************************************************************************)
(* Proofs about the cache, for any number of threads, keys and elements,   *)
(* any hash function, load factor and limit, and every combination of      *)
(* async, max_age, queue and pressure.                                     *)
(*                                                                         *)
(* The inductive invariant IInv says who holds the lock, what a pin means, *)
(* that the queue and the pointers agree, and that a value somebody can    *)
(* still reach is in the cache.  HeldIsFound alone is not inductive: a     *)
(* value becomes a client's through a thread that found it, joined it or   *)
(* created it, so the invariant speaks of what the threads have in hand.   *)
(*                                                                         *)
(* The last part is about what clients can rely on: a key never has two    *)
(* elements that can be hit, expire() takes effect, and the whole cache    *)
(* keeps the promises of CacheContract.  What makes a lookup that has      *)
(* walked its bucket sure that it may create is that expiry is final.      *)
(* Other threads drop and take references, and resolve and settle futures  *)
(* while it walks, but an element that it found expired stays so: nobody   *)
(* can lay hands on its value any more.                                    *)
(***************************************************************************)
EXTENDS CacheClients, ExpireQueueOps_proofs

\* Queue and pointers agree: the queued elements are the strong ones, and
\* elements that became nil before they left the queue.
Agree(q, p) ==
  /\ q \in Queues(Elem) /\ NoDup(q) /\ IsBalanced(q)
  /\ p \in [Elem -> {"absent", "nil", "weak", "strong"}]
  /\ \A e \in Elem : p[e] = "strong" => e \in Queued(q)
  /\ \A e \in Elem : e \in Queued(q) => p[e] \in {"strong", "nil"}

Types ==
  /\ lock \in {{}} \union {{t} : t \in Threads}
  /\ pc \in [Threads -> Locked \union Creating \union {"idle", "lock", "join", "terminated"}]
  /\ op \in [Threads -> Ops \union {"none"}]
  /\ arg \in [Threads -> Keys \union {None}]
  /\ todo \in [Threads -> SUBSET Elem]
  /\ cur \in [Threads -> Elem \union {None}]
  /\ fut \in [Elem -> {"pending", "value", "throw"}]
  /\ async \subseteq Elem /\ doomed \subseteq Elem /\ aged \subseteq Elem
  /\ pinned \subseteq Elem /\ refs \subseteq Elem /\ voided \subseteq Elem
  /\ nbuckets \in Nat \ {0}

\* The lock, and what its holder has in hand.
Locking ==
  /\ \A t \in Threads : t \in lock <=> pc[t] \in Locked
  /\ \A t \in Threads : pc[t] = "ptr" => cur[t] \in Linked
  /\ \A t \in Threads : pc[t] \in {"walk", "ptr"} => todo[t] \subseteq Linked

Live(p, e) == p[e] \in {"weak", "strong"}

\* A pinned element has exactly one creator, which keeps it in the cache.  It
\* holds a future exactly while its creator waits.
Pinning ==
  /\ \A t \in Threads : pc[t] \in Creating => cur[t] \in pinned
  /\ \A e \in pinned : e \in Linked /\ \E t \in Threads : pc[t] \in Creating /\ cur[t] = e
  /\ \A t, u \in Threads :
       pc[t] \in Creating /\ pc[u] \in Creating /\ cur[t] = cur[u] => t = u
  /\ \A e \in async : Live(ptr, e) /\ \E t \in Threads : pc[t] = "wait" /\ cur[t] = e
  /\ \A t \in Threads : pc[t] = "wait" => cur[t] \in async
  /\ \A e \in Elem : fut[e] = "pending" => e \in async

\* The value in the hands of thread t is referenced.
Carries(t) ==
  \/ pc[t] \in {"rehash", "sweep"}
  \/ pc[t] \in {"wait", "join"} /\ fut[cur[t]] = "value"

\* A value that somebody references is in the cache.
Excused(e) == e \in voided \/ e \in aged
Holding ==
  /\ doomed \subseteq voided
  /\ \A e \in async : e \in refs => fut[e] = "value"
  /\ \A e \in refs : Excused(e) \/ Live(ptr, e)
  /\ \A t \in Threads : Carries(t) => Excused(cur[t]) \/ Live(ptr, cur[t])
  /\ \A t \in Threads : pc[t] \in Creating \union {"ptr", "join"} => cur[t] \in Elem

IInv == Types /\ Agree(queue, ptr) /\ Locking /\ Pinning /\ Holding

-----------------------------------------------------------------------------
\* The invariant is strong enough.

\* Who holds a reference, in terms of what the threads carry.
LEMMA ReferencedIs ==
  ASSUME NEW e \in Elem
  PROVE  e \in Referenced <=> e \in refs \/ \E t \in Threads : cur[t] = e /\ Carries(t)
  BY DEF Referenced, Carries

\* The properties that runs check follow from the invariant.
LEMMA IInvGives ==
  IInv => TypeOK /\ PinsProtect /\ FutureHasCreator /\ HeldIsFound /\ QueueKeepsAlive
<1> SUFFICES ASSUME IInv
             PROVE  TypeOK /\ PinsProtect /\ FutureHasCreator /\ HeldIsFound /\ QueueKeepsAlive
  OBVIOUS
<1>1. TypeOK
  BY DEF IInv, Types, Agree, Queues, TypeOK
<1>2. PinsProtect
  BY DEF IInv, Types, Pinning, PinsProtect
<1>3. FutureHasCreator
  BY DEF IInv, Pinning, FutureHasCreator
<1>4. HeldIsFound
  BY DEF IInv, Types, Holding, Excused, Live, HeldIsFound
<1>5. QueueKeepsAlive
  BY DEF IInv, Agree, QueueKeepsAlive, Linked
<1> QED
  BY <1>1, <1>2, <1>3, <1>4, <1>5

\* The invariant holds of an empty cache.
LEMMA InitIInv == Init => IInv
<1> SUFFICES ASSUME Init PROVE IInv
  OBVIOUS
<1> USE DEF Init
<1>1. << >> \in Seq(Elem) /\ Len(<< >>) = 0
  OBVIOUS
<1>2. queue \in Queues(Elem) /\ IsBalanced(queue)
  BY <1>1 DEF EmptyQueue, Queues, QSize, IsBalanced
<1>3. NoDup(queue) /\ Queued(queue) = {}
  BY <1>1 DEF EmptyQueue, NoDup, Distinct, Queued, ToSet
<1>4. Agree(queue, ptr)
  BY <1>2, <1>3 DEF Agree
<1>5. Types
  BY DEF Types, InitBuckets
<1>6. Locking /\ Pinning /\ Holding
  BY DEF Locking, Pinning, Holding, Locked, Creating, Carries, Excused, Live
<1> QED
  BY <1>4, <1>5, <1>6 DEF IInv

-----------------------------------------------------------------------------
\* What the element and queue operations do to the pointers.

\* What an operation that serves element e may not erase: what is pinned, e
\* itself, and what is alive and referenced.
Kept(e, x) == x = e \/ x \in pinned \/ (x \in Referenced /\ x \notin aged)

\* Elements that leave queue and cache together leave them in agreement.
LEMMA EraseAgrees ==
  ASSUME NEW q, NEW p, NEW r, NEW D, Agree(q, p),
         r \in Queues(Elem), NoDup(r), IsBalanced(r), Queued(r) \subseteq Queued(q),
         Queued(q) \ Queued(r) \subseteq D, D \cap Queued(r) = {}
  PROVE  Agree(r, Erase(p, D))
  BY DEF Agree, Erase

\* So do elements that leave the queue and keep a weak pointer.
LEMMA WeakenAgrees ==
  ASSUME NEW q, NEW p, NEW r, Agree(q, p),
         r \in Queues(Elem), NoDup(r), IsBalanced(r), Queued(r) \subseteq Queued(q)
  PROVE  Agree(r, Weaken(p, Queued(q) \ Queued(r)))
  BY DEF Agree, Weaken

\* What the queue is shrunk to is a number.
LEMMA KeepType == \A n \in Keep : n \in Nat
  BY VariantAssumption DEF Keep

\* erase_if_expired spares what Kept names, if it is alive.
LEMMA ErasedSpares ==
  ASSUME NEW e \in Elem, NEW p, NEW D, async \subseteq pinned
  PROVE  /\ \A x \in Erased(p, Referenced \union {e}, D \ {e}) :
              x \in D /\ x # e /\ x \notin pinned
         /\ \A x \in Erased(p, Referenced \union {e}, D \ {e}) : ~(Kept(e, x) /\ Live(p, x))
  BY DEF Erased, Expired, Kept, Live

\* The maintenance at the end of on_create and on_hit, whatever it evicts.
LEMMA MaintainFacts ==
  ASSUME NEW e \in Elem, NEW q, NEW p, Agree(q, p), async \subseteq pinned,
         Maintain(q, p, e)
  PROVE  /\ Agree(queue', ptr')
         /\ \A x \in Elem : Kept(e, x) /\ Live(p, x) => Live(ptr', x)
         /\ \A x \in Elem : (x = e \/ x \in pinned) /\ p[x] # "absent" => ptr'[x] # "absent"
<1> DEFINE r == Referenced \union {e}
           D1 == Erased(p, r, Linked \ {e})
           q1 == Cleanup(q, D1)
           p1 == Erase(p, Queued(q) \ Queued(q1))
           Q2(n) == ShrinkTo(q1, n)
           Drop2(n) == Queued(q1) \ Queued(Q2(n))
           P2(n) == Weaken(p1, Drop2(n))
           Dead(n) == Erased(P2(n), r, Drop2(n) \ {e})
<1>1. PICK n \in Keep : queue' = Q2(n) /\ ptr' = Erase(P2(n), Dead(n))
  BY DEF Maintain
<1>2. n \in Nat
  BY KeepType
<1>3. q \in Queues(Elem) /\ NoDup(q)
  BY DEF Agree
<1>4. /\ \A x \in D1 : x # e /\ x \notin pinned
      /\ \A x \in D1 : ~(Kept(e, x) /\ Live(p, x))
  BY ErasedSpares
<1> HIDE DEF D1
<1>5. /\ q1 \in Queues(Elem) /\ NoDup(q1) /\ IsBalanced(q1)
      /\ Queued(q1) \subseteq Queued(q)
      /\ Queued(q) \ Queued(q1) \subseteq D1
  BY <1>3, ShrinkWhileFacts DEF Cleanup
<1> HIDE DEF q1
<1>6. Agree(q1, p1)
  BY <1>5, EraseAgrees
<1>7. /\ \A x \in Elem : Kept(e, x) /\ Live(p, x) => Live(p1, x)
      /\ \A x \in Elem : (x = e \/ x \in pinned) /\ p[x] # "absent" => p1[x] # "absent"
  BY <1>4, <1>5 DEF Erase, Live
<1> HIDE DEF p1
<1>8. /\ Q2(n) \in Queues(Elem) /\ NoDup(Q2(n)) /\ IsBalanced(Q2(n))
      /\ Queued(Q2(n)) \subseteq Queued(q1)
  BY <1>2, <1>5, ShrinkToFacts
<1> HIDE DEF Q2
<1>9. Agree(Q2(n), P2(n))
  BY <1>6, <1>8, WeakenAgrees
<1>10. /\ \A x \in Elem : Kept(e, x) /\ Live(p, x) => Live(P2(n), x)
       /\ \A x \in Elem : (x = e \/ x \in pinned) /\ p[x] # "absent" => P2(n)[x] # "absent"
  BY <1>7 DEF Weaken, Live
<1>11. /\ \A x \in Dead(n) : x \in Drop2(n) /\ x # e /\ x \notin pinned
       /\ \A x \in Dead(n) : ~(Kept(e, x) /\ Live(P2(n), x))
  BY ErasedSpares
<1>12. Dead(n) \cap Queued(Q2(n)) = {}
  BY <1>11
<1> HIDE DEF P2, Dead
<1>13. Agree(queue', ptr')
  BY <1>1, <1>8, <1>9, <1>12, EraseAgrees
<1>14. \A x \in Elem : Kept(e, x) /\ Live(p, x) => Live(ptr', x)
  BY <1>1, <1>10, <1>11 DEF Erase, Live
<1>15. \A x \in Elem : (x = e \/ x \in pinned) /\ p[x] # "absent" => ptr'[x] # "absent"
  BY <1>1, <1>10, <1>11 DEF Erase
<1> QED
  BY <1>13, <1>14, <1>15

\* A new element is alive, and nothing is lost that Kept names.
LEMMA OnCreateFacts ==
  ASSUME NEW e \in Elem, Agree(queue, ptr), async \subseteq pinned,
         ptr[e] = "absent", OnCreate(e)
  PROVE  /\ Agree(queue', ptr') /\ Live(ptr', e)
         /\ \A x \in Elem : Kept(e, x) /\ Live(ptr, x) => Live(ptr', x)
         /\ \A x \in pinned : x \in Elem /\ ptr[x] # "absent" => ptr'[x] # "absent"
<1>1. queue \in Queues(Elem) /\ NoDup(queue) /\ e \notin Queued(queue)
  BY DEF Agree
<1>2. CASE Queue
  <2> DEFINE p == [ptr EXCEPT ![e] = "strong"]
             q == LinkCold(queue, e)
  <2>1. q \in Queues(Elem) /\ NoDup(q) /\ IsBalanced(q) /\ Queued(q) = Queued(queue) \union {e}
    BY <1>1, LinkColdFacts
  <2>2. Maintain(q, p, e)
    BY <1>2 DEF OnCreate
  <2> HIDE DEF q
  <2>3. Agree(q, p)
    BY <2>1 DEF Agree
  <2>4. \A x \in Elem : p[x] = IF x = e THEN "strong" ELSE ptr[x]
    BY DEF Agree
  <2> HIDE DEF p
  <2>5. /\ Agree(queue', ptr')
        /\ \A x \in Elem : Kept(e, x) /\ Live(p, x) => Live(ptr', x)
        /\ \A x \in Elem : (x = e \/ x \in pinned) /\ p[x] # "absent" => ptr'[x] # "absent"
    BY <2>2, <2>3, MaintainFacts
  <2> QED
    BY <2>4, <2>5 DEF Live, Kept
<1>3. CASE ~Queue
  BY <1>1, <1>3 DEF OnCreate, Agree, Live
<1> QED
  BY <1>2, <1>3

\* A hit leaves the element alive, and loses nothing that Kept names.
LEMMA OnHitFacts ==
  ASSUME NEW e \in Elem, Agree(queue, ptr), async \subseteq pinned,
         ptr[e] # "absent", ptr[e] # "nil", OnHit(e)
  PROVE  /\ Agree(queue', ptr')
         /\ \A x \in Elem : Kept(e, x) /\ Live(ptr, x) => Live(ptr', x)
         /\ \A x \in pinned : x \in Elem /\ ptr[x] # "absent" => ptr'[x] # "absent"
<1>1. queue \in Queues(Elem) /\ NoDup(queue)
  BY DEF Agree
<1>2. CASE Queue /\ e \notin Queued(queue)
  <2> DEFINE p == [ptr EXCEPT ![e] = "strong"]
             q == LinkCold(queue, e)
  <2>1. q \in Queues(Elem) /\ NoDup(q) /\ IsBalanced(q) /\ Queued(q) = Queued(queue) \union {e}
    BY <1>1, <1>2, LinkColdFacts
  <2>2. Maintain(q, p, e)
    BY <1>2 DEF OnHit
  <2> HIDE DEF q
  <2>3. Agree(q, p)
    BY <2>1 DEF Agree
  <2>4. \A x \in Elem : p[x] = IF x = e THEN "strong" ELSE ptr[x]
    BY DEF Agree
  <2> HIDE DEF p
  <2>5. /\ Agree(queue', ptr')
        /\ \A x \in Elem : Kept(e, x) /\ Live(p, x) => Live(ptr', x)
        /\ \A x \in Elem : (x = e \/ x \in pinned) /\ p[x] # "absent" => ptr'[x] # "absent"
    BY <2>2, <2>3, MaintainFacts
  <2> QED
    BY <2>4, <2>5 DEF Live, Kept
<1>3. CASE Queue /\ e \in Queued(queue)
  <2> DEFINE q == Promote(queue, e)
  <2>1. q \in Queues(Elem) /\ NoDup(q) /\ IsBalanced(q) /\ Queued(q) = Queued(queue)
    BY <1>1, <1>3, PromoteFacts
  <2>2. Maintain(q, ptr, e)
    BY <1>3 DEF OnHit
  <2> HIDE DEF q
  <2>3. Agree(q, ptr)
    BY <2>1 DEF Agree
  <2>4. /\ Agree(queue', ptr')
        /\ \A x \in Elem : Kept(e, x) /\ Live(ptr, x) => Live(ptr', x)
        /\ \A x \in Elem : (x = e \/ x \in pinned) /\ ptr[x] # "absent" => ptr'[x] # "absent"
    BY <2>2, <2>3, MaintainFacts
  <2> QED
    BY <2>4
<1>4. CASE ~Queue
  BY <1>4 DEF OnHit
<1> QED
  BY <1>2, <1>3, <1>4

\* A deleted element is gone from the queue as well.
LEMMA DeleteFacts ==
  ASSUME NEW e \in Elem, Agree(queue, ptr), Delete(e)
  PROVE  /\ Agree(queue', ptr')
         /\ \A x \in Elem : ptr'[x] = IF x = e THEN "absent" ELSE ptr[x]
<1>1. queue \in Queues(Elem) /\ NoDup(queue) /\ IsBalanced(queue)
  BY DEF Agree
<1>2. /\ queue' \in Queues(Elem) /\ NoDup(queue') /\ IsBalanced(queue')
      /\ Queued(queue') = Queued(queue) \ {e}
  BY <1>1, UnlinkFacts DEF Delete
<1> QED
  BY <1>2 DEF Agree, Delete

-----------------------------------------------------------------------------
\* The steps.

data == <<async, fut, doomed, ptr, aged, pinned, queue, nbuckets, refs, voided>>

\* What IInv says apart from the types of the control state.
LEMMA IInvFacts ==
  ASSUME IInv
  PROVE  /\ Types /\ Agree(queue, ptr) /\ Locking /\ Pinning /\ Holding
         /\ async \subseteq pinned
         /\ \A t, u \in Threads : t \in lock /\ u \in lock => t = u
<1>1. async \subseteq pinned
  BY DEF IInv, Pinning, Creating
<1>2. \A t, u \in Threads : t \in lock /\ u \in lock => t = u
  BY DEF IInv, Types
<1> QED
  BY <1>1, <1>2 DEF IInv

\* A thread takes the lock, walks, or leaves without having changed anything.
LEMMA WalkKeeps ==
  ASSUME IInv, NEW t \in Threads,
         \/ Call(t) \/ Lock(t) \/ PtrNil(t) \/ Missed(t) \/ CreateFails(t) \/ StartRehash(t)
         \/ \E e \in Elem : VisitOther(t, e) \/ VisitMatch(t, e)
  PROVE  IInv'
<1> USE DEF Call, Lock, PtrNil, Missed, CreateFails, StartRehash, VisitOther, VisitMatch,
            Goto, Unlock, Exit, future
<1>1. Types /\ Agree(queue, ptr) /\ Locking /\ Pinning /\ Holding
  BY DEF IInv
<1>2. UNCHANGED data
  BY DEF data
<1>3. Types'
  <2> USE <1>1, <1>2 DEF Types, data, MustCreate, Visits, Locked, Creating, Bucket, Linked
  <2>1. CASE Call(t) BY <2>1
  <2>2. CASE Lock(t) BY <2>2
  <2>3. CASE PtrNil(t) BY <2>3
  <2>4. CASE Missed(t) BY <2>4
  <2>5. CASE CreateFails(t) BY <2>5
  <2>6. CASE StartRehash(t) BY <2>6
  <2>7. ASSUME NEW e \in Elem, VisitOther(t, e) PROVE Types' BY <2>7
  <2>8. ASSUME NEW e \in Elem, VisitMatch(t, e) PROVE Types' BY <2>8
  <2> QED
    BY <2>1, <2>2, <2>3, <2>4, <2>5, <2>6, <2>7, <2>8
<1>4. Agree(queue', ptr')
  BY <1>1, <1>2 DEF data
<1>5. Locking'
  <2> USE <1>1, <1>2 DEF Locking, Types, data, MustCreate, Visits, Locked, Linked, Bucket
  <2>1. CASE Call(t) BY <2>1
  <2>2. CASE Lock(t) BY <2>2
  <2>3. CASE PtrNil(t) BY <2>3
  <2>4. CASE Missed(t) BY <2>4
  <2>5. CASE CreateFails(t) BY <2>5
  <2>6. CASE StartRehash(t) BY <2>6
  <2>7. ASSUME NEW e \in Elem, VisitOther(t, e) PROVE Locking' BY <2>7
  <2>8. ASSUME NEW e \in Elem, VisitMatch(t, e) PROVE Locking'
    BY <2>8, <1>3
  <2> QED
    BY <2>1, <2>2, <2>3, <2>4, <2>5, <2>6, <2>7, <2>8
<1> DEFINE Same ==
             /\ \A u \in Threads : pc'[u] \in Creating <=> pc[u] \in Creating
             /\ \A u \in Threads : pc'[u] \in Creating => cur'[u] = cur[u]
             /\ \A u \in Threads : pc'[u] = "wait" <=> pc[u] = "wait"
             /\ \A u \in Threads : pc'[u] \in {"rehash", "sweep"} => pc[u] \in {"rehash", "sweep"}
             /\ \A u \in Threads : pc'[u] = "join" => pc[u] = "join" /\ cur'[u] = cur[u]
             /\ \A u \in Threads : pc'[u] = "ptr" => cur'[u] \in Elem
<1>6. Same
  <2> USE <1>1 DEF Types, MustCreate, Visits, Creating, Holding
  <2>1. CASE Call(t) BY <2>1
  <2>2. CASE Lock(t) BY <2>2
  <2>3. CASE PtrNil(t) BY <2>3
  <2>4. CASE Missed(t) BY <2>4
  <2>5. CASE CreateFails(t) BY <2>5
  <2>6. CASE StartRehash(t) BY <2>6
  <2>7. ASSUME NEW e \in Elem, VisitOther(t, e) PROVE Same BY <2>7
  <2>8. ASSUME NEW e \in Elem, VisitMatch(t, e) PROVE Same BY <2>8
  <2> QED
    BY <2>1, <2>2, <2>3, <2>4, <2>5, <2>6, <2>7, <2>8
<1>7. Pinning'
  BY <1>1, <1>2, <1>6 DEF Pinning, data, Live, Linked, Creating
<1>8. \A u \in Threads : Carries(u)' => Carries(u) /\ cur'[u] = cur[u]
  BY <1>2, <1>6 DEF Carries, Creating, data
<1>9. Holding'
  BY <1>1, <1>2, <1>6, <1>8 DEF Holding, data, Excused, Live
<1> QED
  BY <1>3, <1>4, <1>5, <1>7, <1>9 DEF IInv

\* An element erased on the way, by the walk or by maybe_rehash_, is one that
\* nobody can reach any more.
LEMMA EraseKeeps ==
  ASSUME IInv, NEW t \in Threads, NEW e \in Elem, VisitStale(t, e) \/ Sweep(t, e)
  PROVE  IInv'
<1>1. /\ Types /\ Agree(queue, ptr) /\ Locking /\ Pinning /\ Holding
      /\ async \subseteq pinned
      /\ \A u, v \in Threads : u \in lock /\ v \in lock => u = v
  BY IInvFacts
<1>2. /\ UNCHANGED <<lock, pc, op, arg, cur, async, fut, doomed, aged, pinned, nbuckets, refs, voided>>
      /\ todo' = [todo EXCEPT ![t] = @ \ {e}] /\ t \in lock
  BY <1>1 DEF VisitStale, Sweep, Visits, Locking, Locked, future
<1>3. UNCHANGED <<ptr, queue>> \/ (IsExpired(e) /\ e \notin pinned /\ Delete(e))
  BY DEF VisitStale, Sweep, Stale
<1> DEFINE Gone(x) == x = e /\ IsExpired(e) /\ e \notin pinned
<1>4. Agree(queue', ptr') /\ \A x \in Elem : ptr'[x] = ptr[x] \/ Gone(x)
  <2>1. CASE queue' = queue /\ ptr' = ptr
    <3>1. Agree(queue', ptr')
      BY <1>1, <2>1
    <3> QED
      BY <2>1, <3>1
  <2>2. CASE IsExpired(e) /\ e \notin pinned /\ Delete(e)
    <3>1. Agree(queue', ptr') /\ \A x \in Elem : x # e => ptr'[x] = ptr[x]
      BY <1>1, <2>2, DeleteFacts
    <3> QED
      BY <2>2, <3>1
  <2> QED
    BY <1>3, <2>1, <2>2
<1>5. Types'
  BY <1>1, <1>2 DEF Types
<1>6. Locking'
  <2>1. \A u \in Threads : pc[u] \in {"walk", "ptr"} => u = t
    BY <1>1, <1>2 DEF Locking, Locked
  <2>2. ASSUME pc[t] \in {"walk", "ptr"} PROVE VisitStale(t, e)
    BY <2>2 DEF Sweep
  <2>3. ASSUME VisitStale(t, e) PROVE pc[t] = "walk" /\ todo'[t] = todo[t] \ {e}
    BY <1>1, <1>2, <2>3 DEF VisitStale, Visits, Types
  <2>4. \A x \in Elem : x # e => ptr'[x] = ptr[x]
    BY <1>4
  <2> QED
    BY <1>1, <1>2, <2>1, <2>2, <2>3, <2>4 DEF Locking, Linked
<1>7. Pinning'
  BY <1>1, <1>2, <1>4 DEF Pinning, Live, Linked
<1>8. \A x \in Elem : x \in Referenced /\ ~Excused(x) /\ Live(ptr, x) => Live(ptr', x)
  BY <1>1, <1>4 DEF IsExpired, Expired, Live, Excused
<1>9. Holding'
  BY <1>1, <1>2, <1>8, ReferencedIs DEF Holding, Excused, Carries, Types, Creating
<1> QED
  BY <1>4, <1>5, <1>6, <1>7, <1>9 DEF IInv

\* expire() makes its element nil, or erases it, or leaves that to the creator;
\* the element's value need not be found any more.
LEMMA ExpireKeeps ==
  ASSUME IInv, NEW t \in Threads, NEW e \in Elem, ExpireMatch(t, e)
  PROVE  IInv'
<1>1. /\ Types /\ Agree(queue, ptr) /\ Locking /\ Pinning /\ Holding
      /\ async \subseteq pinned
      /\ \A u, v \in Threads : u \in lock /\ v \in lock => u = v
  BY IInvFacts
<1>2. /\ UNCHANGED <<async, fut, aged, pinned, nbuckets, refs>>
      /\ pc[t] = "walk" /\ t \in lock /\ Exit(t)
      /\ voided' = voided \union {e}
      /\ doomed' \subseteq doomed \union {e}
  BY <1>1 DEF ExpireMatch, Visits, Locking, Locked
<1>3. /\ Agree(queue', ptr')
      /\ \A x \in Elem : (x = e /\ e \notin async) \/ ptr'[x] = ptr[x]
      /\ e \in pinned => ptr'[e] \in {ptr[e], "nil"}
  <2>1. CASE e \notin pinned
    BY <1>1, <2>1, DeleteFacts DEF ExpireMatch
  <2>2. CASE e \in pinned
    BY <1>1, <2>2 DEF ExpireMatch, Agree
  <2> QED
    BY <2>1, <2>2
<1>4. Types'
  BY <1>1, <1>2 DEF Types, Exit, Goto, Unlock
<1>5. /\ \A u \in Threads : u # t => pc'[u] = pc[u] /\ cur'[u] = cur[u] /\ todo'[u] = todo[u]
      /\ pc'[t] = "idle" /\ lock' = {}
  BY <1>1, <1>2 DEF Types, Exit, Goto, Unlock
<1>6. Locking'
  BY <1>1, <1>2, <1>5 DEF Locking, Locked
<1>7. Pinning'
  BY <1>1, <1>2, <1>3, <1>5 DEF Pinning, Live, Linked, Creating
<1>8. Holding'
  <2>1. \A u \in Threads : Carries(u)' => Carries(u) /\ cur'[u] = cur[u]
    BY <1>2, <1>5 DEF Carries
  <2>2. \A x \in Elem : Excused(x) \/ Live(ptr, x) => Excused(x)' \/ Live(ptr', x)
    BY <1>2, <1>3 DEF Excused, Live
  <2>3. \A u \in Threads : pc'[u] \in Creating \union {"ptr", "join"} => cur'[u] \in Elem
    BY <1>1, <1>5 DEF Holding, Creating
  <2>4. doomed' \subseteq voided'
    BY <1>1, <1>2 DEF Holding
  <2> HIDE DEF Carries, Excused, Live
  <2>5. \A x \in refs' : Excused(x)' \/ Live(ptr', x)
    BY <1>1, <1>2, <2>2 DEF Holding, Types
  <2>6. \A u \in Threads : Carries(u) => cur[u] \in Elem
    BY <1>1 DEF Carries, Holding, Creating
  <2>7. \A u \in Threads : Carries(u)' => Excused(cur[u])' \/ Live(ptr', cur'[u])
    BY <1>1, <2>1, <2>2, <2>6 DEF Holding
  <2>8. \A x \in async' : x \in refs' => fut'[x] = "value"
    BY <1>1, <1>2 DEF Holding
  <2> QED
    BY <2>1, <2>3, <2>4, <2>5, <2>7, <2>8 DEF Holding
<1> QED
  BY <1>3, <1>4, <1>6, <1>7, <1>8 DEF IInv

\* A lookup that finds its element leaves the cache with it; the maintenance of
\* its hit evicts nothing that is in somebody's hands.
LEMMA FoundKeeps ==
  ASSUME IInv, NEW t \in Threads, Found(t)
  PROVE  IInv'
<1> DEFINE e == cur[t]
<1>1. /\ Types /\ Agree(queue, ptr) /\ Locking /\ Pinning /\ Holding
      /\ async \subseteq pinned
      /\ \A u, v \in Threads : u \in lock /\ v \in lock => u = v
  BY IInvFacts
<1>2. /\ UNCHANGED <<async, fut, doomed, aged, pinned, nbuckets, voided>>
      /\ pc[t] = "ptr" /\ t \in lock /\ e \in Elem /\ e \in Linked /\ ~IsExpired(e)
      /\ (OnHit(e) \/ (queue' = queue /\ ptr' = ptr))
  BY <1>1 DEF Found, Locking, Locked, Linked, future
<1>3. Live(ptr, e)
  BY <1>1, <1>2 DEF IsExpired, Expired, Live, Pinning, Linked, Agree
<1>4. /\ Agree(queue', ptr')
      /\ \A x \in Elem : Kept(e, x) /\ Live(ptr, x) => Live(ptr', x)
      /\ \A x \in pinned : x \in Elem /\ ptr[x] # "absent" => ptr'[x] # "absent"
  <2>1. CASE queue' = queue /\ ptr' = ptr
    <3>1. Agree(queue', ptr')
      BY <1>1, <2>1
    <3> QED
      BY <2>1, <3>1
  <2>2. CASE OnHit(e)
    BY <1>1, <1>2, <1>3, <2>2, OnHitFacts DEF Live
  <2> QED
    BY <1>2, <2>1, <2>2
<1>5. Live(ptr', e)
  BY <1>2, <1>3, <1>4 DEF Kept
<1>6. /\ \A u \in Threads : u # t => pc'[u] = pc[u] /\ cur'[u] = cur[u] /\ todo'[u] = todo[u]
      /\ lock' = {}
      /\ \/ pc'[t] = "idle" /\ refs' = refs \union {e}
         \/ pc'[t] = "join" /\ cur'[t] = e /\ refs' = refs
  BY <1>1, <1>2 DEF Found, Types, Exit, Goto, Unlock
<1>7. Types'
  BY <1>1, <1>2 DEF Found, Types, Exit, Goto, Unlock
<1>8. Locking'
  BY <1>1, <1>2, <1>6 DEF Locking, Locked
<1>9. \A x \in pinned : x \in Elem
  BY <1>1 DEF Types
<1>10. Pinning'
  <2>1. /\ \A u \in Threads : pc'[u] \in Creating <=> pc[u] \in Creating
        /\ \A u \in Threads : pc'[u] = "wait" <=> pc[u] = "wait"
        /\ \A u \in Threads : pc'[u] \in Creating => cur'[u] = cur[u]
    BY <1>2, <1>6 DEF Creating
  <2>2. \A x \in pinned : x \in Linked'
    BY <1>1, <1>4, <1>9 DEF Pinning, Linked
  <2>3. \A x \in async : Live(ptr', x)
    BY <1>1, <1>4, <1>9 DEF Pinning, Kept
  <2> QED
    BY <1>1, <1>2, <2>1, <2>2, <2>3 DEF Pinning, Creating
<1>11. \A x \in Elem : x \in Referenced /\ (Excused(x) \/ Live(ptr, x)) => Excused(x)' \/ Live(ptr', x)
  BY <1>2, <1>4 DEF Excused, Kept
<1>12. Holding'
  <2>1. \A x \in refs' : Excused(x)' \/ Live(ptr', x)
    BY <1>1, <1>5, <1>6, <1>11, ReferencedIs DEF Holding, Types
  <2>2. \A u \in Threads : u # t /\ Carries(u)' => Carries(u) /\ cur'[u] = cur[u]
    BY <1>2, <1>6 DEF Carries
  <2>3. \A u \in Threads : Carries(u) => cur[u] \in Elem
    BY <1>1 DEF Carries, Holding, Creating
  <2>4. \A u \in Threads : u # t /\ Carries(u)' => Excused(cur[u])' \/ Live(ptr', cur'[u])
    BY <1>1, <1>11, <2>2, <2>3, ReferencedIs DEF Holding
  <2>5. Carries(t)' => cur'[t] = e
    BY <1>6 DEF Carries
  <2>6. \A u \in Threads : Carries(u)' => Excused(cur[u])' \/ Live(ptr', cur'[u])
    BY <1>5, <2>4, <2>5
  <2>7. \A u \in Threads : pc'[u] \in Creating \union {"ptr", "join"} => cur'[u] \in Elem
    BY <1>1, <1>2, <1>6 DEF Holding, Creating
  <2>8. \A x \in async' : x \in refs' => fut'[x] = "value"
    <3>1. e \in async => pc'[t] = "join"
      BY <1>1, <1>2 DEF Found, Types, Goto
    <3> QED
      BY <1>1, <1>2, <1>6, <3>1 DEF Holding
  <2> QED
    BY <1>1, <1>2, <2>1, <2>6, <2>7, <2>8 DEF Holding
<1> QED
  BY <1>4, <1>7, <1>8, <1>10, <1>12 DEF IInv

\* A new element takes an identity nobody refers to, and the maintenance of its
\* creation evicts nothing that is in somebody's hands.
LEMMA CreateKeeps ==
  ASSUME IInv, NEW t \in Threads, NEW e \in Elem, CreateSync(t, e) \/ CreateAsync(t, e)
  PROVE  IInv'
<1>1. /\ Types /\ Agree(queue, ptr) /\ Locking /\ Pinning /\ Holding
      /\ async \subseteq pinned
      /\ \A u, v \in Threads : u \in lock /\ v \in lock => u = v
  BY IInvFacts
<1>2. /\ UNCHANGED <<op, arg, todo, nbuckets, refs>>
      /\ pc[t] = "walk" /\ t \in lock
      /\ OnCreate(e) /\ pinned' = pinned \union {e} /\ cur' = [cur EXCEPT ![t] = e]
      /\ voided' = voided \ {e} /\ doomed' = doomed \ {e}
      /\ aged' \in {aged \union {e}, aged \ {e}}
  BY <1>1 DEF CreateSync, CreateAsync, Insert, MustCreate, Locking, Locked
<1>3. ptr[e] = "absent" /\ e \notin refs /\ \A u \in Threads : cur[u] # e
  BY DEF CreateSync, CreateAsync, Insert, Free, Linked
<1>4. \/ /\ pc' = [pc EXCEPT ![t] = "rehash"] \/ pc' = [pc EXCEPT ![t] = "failed"]
         /\ UNCHANGED <<lock, async, fut>>
      \/ /\ pc' = [pc EXCEPT ![t] = "wait"] /\ lock' = lock \ {t}
         /\ async' = async \union {e} /\ fut' = [fut EXCEPT ![e] = "pending"]
  BY DEF CreateSync, CreateAsync, Goto, Unlock
<1>5. /\ Agree(queue', ptr') /\ Live(ptr', e)
      /\ \A x \in Elem : Kept(e, x) /\ Live(ptr, x) => Live(ptr', x)
      /\ \A x \in pinned : x \in Elem /\ ptr[x] # "absent" => ptr'[x] # "absent"
  BY <1>1, <1>2, <1>3, OnCreateFacts
<1>6. Types'
  BY <1>1, <1>2, <1>4 DEF Types, Locked, Creating
<1>7. /\ \A u \in Threads : u # t => pc'[u] = pc[u] /\ cur'[u] = cur[u]
      /\ cur'[t] = e /\ pc'[t] \in {"rehash", "failed", "wait"}
  BY <1>1, <1>2, <1>4 DEF Types
<1>8. Locking'
  <2>1. \A u \in Threads : u # t => pc[u] \notin Locked
    BY <1>1, <1>2 DEF Locking
  <2>2. t \in lock' <=> pc'[t] \in Locked
    BY <1>1, <1>2, <1>4 DEF Types, Locked
  <2>3. \A u \in Threads : u # t => u \notin lock'
    BY <1>1, <1>2, <1>4
  <2> QED
    BY <1>7, <2>1, <2>2, <2>3 DEF Locking, Locked
<1>9. \A x \in pinned : x \in Elem
  BY <1>1 DEF Types
<1>10. Pinning'
  <2>1. \A u \in Threads : u # t /\ pc[u] \in Creating => cur[u] \in pinned /\ cur[u] # e
    BY <1>1, <1>3 DEF Pinning
  <2>2. \A x \in pinned' : x \in Linked'
    BY <1>1, <1>2, <1>5, <1>9 DEF Pinning, Linked, Live
  <2>3. \A x \in pinned' : \E u \in Threads : pc'[u] \in Creating /\ cur'[u] = x
    BY <1>1, <1>2, <1>7 DEF Pinning, Creating
  <2>4. \A x \in async' : Live(ptr', x) /\ \E u \in Threads : pc'[u] = "wait" /\ cur'[u] = x
    <3>1. \A x \in async : Live(ptr', x) /\ \E u \in Threads : pc'[u] = "wait" /\ cur'[u] = x
      BY <1>1, <1>2, <1>5, <1>7, <1>9 DEF Pinning, Kept
    <3>2. e \in async' => e \in async \/ pc'[t] = "wait"
      BY <1>1, <1>4 DEF Types
    <3> QED
      BY <1>4, <1>5, <1>7, <3>1, <3>2
  <2>5. \A x \in Elem : fut'[x] = "pending" => x \in async'
    BY <1>1, <1>4 DEF Pinning, Types
  <2>6. \A u \in Threads : pc'[u] \in Creating => cur'[u] \in pinned'
    BY <1>2, <1>7, <2>1
  <2>7. \A u, v \in Threads :
          pc'[u] \in Creating /\ pc'[v] \in Creating /\ cur'[u] = cur'[v] => u = v
    BY <1>1, <1>7, <2>1 DEF Pinning
  <2>8. \A u \in Threads : pc'[u] = "wait" => cur'[u] \in async'
    <3>1. pc'[t] = "wait" => e \in async'
      BY <1>1, <1>4 DEF Types
    <3>2. async \subseteq async'
      BY <1>4
    <3> QED
      BY <1>1, <1>7, <3>1, <3>2 DEF Pinning
  <2> QED
    BY <2>2, <2>3, <2>4, <2>5, <2>6, <2>7, <2>8 DEF Pinning
<1>11. \A x \in Elem : x # e /\ x \in Referenced /\ (Excused(x) \/ Live(ptr, x))
                     => Excused(x)' \/ Live(ptr', x)
  BY <1>2, <1>5 DEF Excused, Kept
<1>12. Holding'
  <2>1. \A x \in refs' : Excused(x)' \/ Live(ptr', x)
    <3>1. \A x \in refs : x \in Elem /\ x # e
      BY <1>1, <1>3 DEF Types
    <3>2. \A x \in refs : x \in Referenced
      BY <3>1, ReferencedIs
    <3>3. \A x \in refs : Excused(x) \/ Live(ptr, x)
      BY <1>1 DEF Holding
    <3>4. refs' = refs
      BY <1>2
    <3> HIDE DEF Excused, Live
    <3> QED
      BY <1>11, <3>1, <3>2, <3>3, <3>4
  <2>2. \A u \in Threads : u # t /\ Carries(u)' => Carries(u) /\ cur'[u] = cur[u]
    <3>1. \A u \in Threads : u # t /\ pc[u] \in {"wait", "join"} => fut'[cur[u]] = fut[cur[u]]
      BY <1>1, <1>3, <1>4 DEF Holding, Creating, Types
    <3> QED
      BY <1>7, <3>1 DEF Carries
  <2>3. \A u \in Threads : Carries(u) => cur[u] \in Elem
    BY <1>1 DEF Carries, Holding, Creating
  <2>4. \A u \in Threads : u # t /\ Carries(u)' => Excused(cur[u])' \/ Live(ptr', cur'[u])
    BY <1>1, <1>3, <1>7, <1>11, <2>2, <2>3, ReferencedIs DEF Holding
  <2>5. \A u \in Threads : Carries(u)' => Excused(cur[u])' \/ Live(ptr', cur'[u])
    BY <1>5, <1>7, <2>4
  <2>6. \A u \in Threads : pc'[u] \in Creating \union {"ptr", "join"} => cur'[u] \in Elem
    BY <1>1, <1>7 DEF Holding
  <2>7. doomed' \subseteq voided'
    BY <1>1, <1>2 DEF Holding
  <2>8. \A x \in async' : x \in refs' => fut'[x] = "value"
    BY <1>1, <1>2, <1>3, <1>4 DEF Holding, Types
  <2> QED
    BY <2>1, <2>5, <2>6, <2>7, <2>8 DEF Holding
<1> QED
  BY <1>5, <1>6, <1>8, <1>10, <1>12 DEF IInv

\* The create function ends: what its creator and those that joined it now have
\* in hand is alive, because the element still holds the future.
LEMMA SettleKeeps ==
  ASSUME IInv, NEW e \in Elem, Settle(e)
  PROVE  IInv'
<1>1. Types /\ Agree(queue, ptr) /\ Locking /\ Pinning /\ Holding
  BY DEF IInv
<1>2. /\ UNCHANGED <<lock, pc, op, arg, todo, cur>>
      /\ UNCHANGED <<async, doomed, ptr, aged, pinned, queue, nbuckets, refs, voided>>
      /\ fut[e] = "pending"
      /\ \E o \in Outcomes : fut' = [fut EXCEPT ![e] = o]
  BY DEF Settle, control
<1>3. Types'
  BY <1>1, <1>2, UseAssumption DEF Types
<1>4. Agree(queue', ptr')
  BY <1>1, <1>2
<1>5. Locking'
  BY <1>1, <1>2 DEF Locking, Linked
<1>6. \A x \in Elem : x # e => fut'[x] = fut[x]
  BY <1>1, <1>2 DEF Types
<1>7. Pinning'
  BY <1>1, <1>2, <1>6, UseAssumption DEF Pinning, Linked, Types
<1>8. Live(ptr, e)
  BY <1>1, <1>2 DEF Pinning
<1>9. Holding'
  <2>1. \A u \in Threads : Carries(u)' => Carries(u) \/ cur[u] = e
    BY <1>1, <1>2, <1>6 DEF Carries, Holding, Creating
  <2>2. \A u \in Threads : Carries(u)' => Excused(cur[u])' \/ Live(ptr', cur'[u])
    BY <1>1, <1>2, <1>8, <2>1 DEF Holding, Excused
  <2> QED
    BY <1>1, <1>2, <2>2 DEF Holding, Excused
<1> QED
  BY <1>3, <1>4, <1>5, <1>7, <1>9 DEF IInv

\* A client drops a reference, or time passes.
LEMMA EnvironmentKeeps ==
  ASSUME IInv, NEW e \in Elem, Drop(e) \/ Age(e)
  PROVE  IInv'
<1>1. Types /\ Agree(queue, ptr) /\ Locking /\ Pinning /\ Holding
  BY DEF IInv
<1>2. /\ UNCHANGED <<lock, pc, op, arg, todo, cur>>
      /\ UNCHANGED <<async, fut, doomed, ptr, pinned, queue, nbuckets, voided>>
      /\ refs' \subseteq refs /\ aged \subseteq aged' /\ aged' \subseteq Elem
  BY <1>1 DEF Drop, Age, control, future, Types
<1>3. Types'
  BY <1>1, <1>2 DEF Types
<1>4. Agree(queue', ptr')
  BY <1>1, <1>2
<1>5. Locking' /\ Pinning'
  BY <1>1, <1>2 DEF Locking, Pinning, Linked
<1>6. Holding'
  BY <1>1, <1>2 DEF Holding, Excused, Carries
<1> QED
  BY <1>3, <1>4, <1>5, <1>6 DEF IInv

\* A joined value becomes the client's.
LEMMA JoinKeeps ==
  ASSUME IInv, NEW t \in Threads, Join(t)
  PROVE  IInv'
<1> DEFINE e == cur[t]
<1>1. Types /\ Agree(queue, ptr) /\ Locking /\ Pinning /\ Holding
  BY DEF IInv
<1>2. /\ UNCHANGED <<async, fut, doomed, ptr, aged, pinned, queue, nbuckets, voided>>
      /\ pc[t] = "join" /\ e \in Elem
      /\ refs' = IF fut[e] = "value" THEN refs \union {e} ELSE refs
      /\ \/ Goto(t, "terminated") /\ UNCHANGED <<lock, op, arg, todo, cur>>
         \/ Exit(t)
  BY <1>1 DEF Join, future, Holding
<1>3. Types'
  BY <1>1, <1>2 DEF Types, Exit, Goto, Unlock, Locked, Creating
<1>4. Agree(queue', ptr')
  BY <1>1, <1>2
<1>5. /\ \A u \in Threads : u # t => pc'[u] = pc[u] /\ cur'[u] = cur[u] /\ todo'[u] = todo[u]
      /\ pc'[t] \in {"idle", "terminated"}
  BY <1>1, <1>2 DEF Types, Exit, Goto, Unlock
<1>6. \A u \in Threads : u \in lock' <=> u \in lock
  BY <1>1, <1>2 DEF Exit, Unlock, Locking, Locked
<1>7. Locking'
  BY <1>1, <1>2, <1>5, <1>6 DEF Locking, Locked, Linked
<1>8. Pinning'
  BY <1>1, <1>2, <1>5 DEF Pinning, Linked, Creating
<1>9. Holding'
  <2>1. \A x \in refs' : Excused(x) \/ Live(ptr, x)
    BY <1>1, <1>2 DEF Holding, Carries
  <2>2. \A u \in Threads : Carries(u)' => Carries(u) /\ cur'[u] = cur[u]
    BY <1>2, <1>5 DEF Carries
  <2> QED
    BY <1>1, <1>2, <1>5, <2>1, <2>2 DEF Holding, Excused, Creating
<1> QED
  BY <1>3, <1>4, <1>7, <1>8, <1>9 DEF IInv

\* The creator replaces the future; the element becomes nil only if there is no
\* value, or if it was expired meanwhile.
LEMMA ResolveKeeps ==
  ASSUME IInv, NEW t \in Threads, Resolve(t)
  PROVE  IInv'
<1> DEFINE e == cur[t]
<1>1. Types /\ Agree(queue, ptr) /\ Locking /\ Pinning /\ Holding
  BY DEF IInv
<1>2. /\ UNCHANGED <<op, arg, todo, cur, fut, doomed, aged, pinned, queue, nbuckets, refs, voided>>
      /\ pc[t] = "wait" /\ fut[e] # "pending" /\ e \in Elem /\ e \in pinned
      /\ lock = {} /\ lock' = {t} /\ async' = async \ {e}
  BY <1>1 DEF Resolve, Holding, Pinning, Creating
<1>3. /\ ptr' = IF fut[e] = "throw" \/ e \in doomed THEN [ptr EXCEPT ![e] = "nil"] ELSE ptr
      /\ pc' = [pc EXCEPT ![t] = IF fut[e] = "throw" THEN "unwind" ELSE "rehash"]
  BY DEF Resolve, Goto
<1>4. /\ \A u \in Threads : u # t => pc'[u] = pc[u]
      /\ pc'[t] = IF fut[e] = "throw" THEN "unwind" ELSE "rehash"
      /\ pc' \in [Threads -> Locked \union Creating \union {"idle", "lock", "join", "terminated"}]
  BY <1>1, <1>3 DEF Types, Locked, Creating
<1>5. \A x \in Elem : ptr'[x] = ptr[x] \/ (x = e /\ ptr'[x] = "nil" /\ (fut[e] = "throw" \/ e \in doomed))
  BY <1>1, <1>3 DEF Agree
<1>6. e \in Linked
  BY <1>1, <1>2 DEF Pinning
<1>7. Types'
  BY <1>1, <1>2, <1>4 DEF Types
<1>8. Agree(queue', ptr')
  <2>1. \A x \in Elem : ptr[x] = "strong" \/ ptr'[x] # "strong"
    BY <1>5
  <2> QED
    BY <1>1, <1>2, <1>3, <1>5, <2>1 DEF Agree
<1>9. Locking'
  <2>1. \A u \in Threads : pc[u] \notin Locked
    BY <1>1, <1>2 DEF Locking
  <2> QED
    BY <1>2, <1>4, <2>1 DEF Locking, Locked
<1>10. Pinning'
  <2>1. \A u \in Threads : pc'[u] \in Creating <=> pc[u] \in Creating
    BY <1>2, <1>4 DEF Creating
  <2>2. \A x \in pinned' : x \in Elem /\ x \in Linked'
    BY <1>1, <1>2, <1>5 DEF Pinning, Linked, Types
  <2>3. \A x \in async' : Live(ptr', x) /\ \E u \in Threads : pc'[u] = "wait" /\ cur'[u] = x
    BY <1>1, <1>2, <1>4, <1>5 DEF Pinning, Live, Types
  <2>4. \A x \in Elem : fut'[x] = "pending" => x \in async'
    BY <1>1, <1>2 DEF Pinning
  <2>5. \A u \in Threads : pc'[u] = "wait" => pc[u] = "wait" /\ u # t
    BY <1>4
  <2>6. \A u \in Threads : pc'[u] = "wait" => cur'[u] \in async'
    BY <1>1, <1>2, <2>5 DEF Pinning, Creating
  <2>7. /\ \A u \in Threads : pc'[u] \in Creating => cur'[u] \in pinned'
        /\ \A x \in pinned' : \E u \in Threads : pc'[u] \in Creating /\ cur'[u] = x
        /\ \A u, v \in Threads :
             pc'[u] \in Creating /\ pc'[v] \in Creating /\ cur'[u] = cur'[v] => u = v
    BY <1>1, <1>2, <2>1 DEF Pinning
  <2> QED
    BY <2>2, <2>3, <2>4, <2>6, <2>7 DEF Pinning
<1>11. Holding'
  <2>1. fut[e] \in {"value", "throw"}
    BY <1>1, <1>2 DEF Types
  <2>2. \A u \in Threads : Carries(u)' => Carries(u) /\ (cur[u] = e => fut[e] = "value")
    <3>1. Carries(t)' => fut[e] = "value"
      BY <1>2, <1>4, <2>1 DEF Carries
    <3>2. \A u \in Threads : pc[u] \in Creating /\ cur[u] = e => u = t
      BY <1>1, <1>2 DEF Pinning, Creating
    <3> QED
      BY <1>2, <1>4, <2>1, <3>1, <3>2 DEF Carries, Creating
  <2>3. \A x \in Elem : Live(ptr, x) => Live(ptr', x) \/ (x = e /\ (fut[e] = "throw" \/ e \in voided))
    BY <1>1, <1>5 DEF Live, Holding
  <2>4. e \in refs => fut[e] = "value"
    BY <1>1, <1>2 DEF Holding, Pinning
  <2>5. \A x \in refs' : Excused(x)' \/ Live(ptr', x)
    <3>1. \A x \in refs : x \in Elem /\ (Excused(x) \/ Live(ptr, x))
      BY <1>1 DEF Holding, Types
    <3>2. \A x \in Elem : Excused(x)' <=> Excused(x)
      BY <1>2 DEF Excused
    <3>3. e \in voided => Excused(e)
      BY DEF Excused
    <3> QED
      BY <1>2, <2>1, <2>3, <2>4, <3>1, <3>2, <3>3
  <2>6. \A u \in Threads : Carries(u)' => Excused(cur[u])' \/ Live(ptr', cur'[u])
    <3>1. \A u \in Threads : Carries(u) => cur[u] \in Elem /\ (Excused(cur[u]) \/ Live(ptr, cur[u]))
      BY <1>1 DEF Holding, Carries, Creating
    <3>2. \A x \in Elem : Excused(x)' <=> Excused(x)
      BY <1>2 DEF Excused
    <3>3. e \in voided => Excused(e)
      BY DEF Excused
    <3> QED
      BY <1>2, <2>1, <2>2, <2>3, <3>1, <3>2, <3>3
  <2>7. \A u \in Threads : pc'[u] \in Creating \union {"ptr", "join"} => cur'[u] \in Elem
    BY <1>1, <1>2, <1>4 DEF Holding, Creating
  <2>8. \A x \in async' : x \in refs' => fut'[x] = "value"
    BY <1>1, <1>2 DEF Holding
  <2> QED
    BY <1>1, <1>2, <2>5, <2>6, <2>7, <2>8 DEF Holding
<1> QED
  BY <1>7, <1>8, <1>9, <1>10, <1>11 DEF IInv

\* The creator lets go of its element and leaves, with the value or without.
LEMMA LeaveKeeps ==
  ASSUME IInv, NEW t \in Threads, Unwind(t) \/ Return(t)
  PROVE  IInv'
<1> DEFINE e == cur[t]
<1>1. /\ Types /\ Agree(queue, ptr) /\ Locking /\ Pinning /\ Holding
      /\ async \subseteq pinned
      /\ \A u, v \in Threads : u \in lock /\ v \in lock => u = v
  BY IInvFacts
<1>2. /\ UNCHANGED <<async, fut, doomed, ptr, aged, queue, voided>>
      /\ pinned' = pinned \ {e} /\ Exit(t)
      /\ t \in lock /\ pc[t] \in {"unwind", "rehash", "sweep"}
      /\ refs' = refs \/ (refs' = refs \union {e} /\ Carries(t))
  BY <1>1 DEF Unwind, Return, Leave, future, Locking, Locked, Carries
<1>3. e \in Elem
  BY <1>1, <1>2 DEF Holding, Creating
<1>4. nbuckets' \in Nat \ {0}
  BY <1>1 DEF Unwind, Return, Types, GrownBuckets
<1>5. Types'
  BY <1>1, <1>2, <1>3, <1>4 DEF Types, Exit, Goto, Unlock
<1>6. Agree(queue', ptr')
  BY <1>1, <1>2
<1>7. /\ \A u \in Threads : u # t => pc'[u] = pc[u] /\ cur'[u] = cur[u] /\ todo'[u] = todo[u]
      /\ pc'[t] = "idle" /\ lock' = {}
  BY <1>1, <1>2 DEF Types, Exit, Goto, Unlock
<1>8. Locking'
  BY <1>1, <1>2, <1>7 DEF Locking, Locked, Linked
<1>9. \A u \in Threads : pc[u] \in Creating /\ cur[u] = e => u = t
  BY <1>1, <1>2 DEF Pinning, Creating
<1>10. e \notin async
  BY <1>1, <1>2, <1>9 DEF Pinning, Creating
<1>11. Pinning'
  <2>1. \A u \in Threads : pc'[u] \in Creating => pc[u] \in Creating /\ u # t /\ cur'[u] = cur[u]
    BY <1>7 DEF Creating
  <2>2. \A u \in Threads : pc'[u] \in Creating => cur'[u] \in pinned'
    BY <1>1, <1>2, <1>9, <2>1 DEF Pinning
  <2>3. \A x \in pinned' : x \in Linked' /\ \E u \in Threads : pc'[u] \in Creating /\ cur'[u] = x
    BY <1>1, <1>2, <1>7 DEF Pinning, Linked
  <2>4. \A x \in async' : Live(ptr', x) /\ \E u \in Threads : pc'[u] = "wait" /\ cur'[u] = x
    BY <1>1, <1>2, <1>7, <1>10 DEF Pinning
  <2>5. \A u \in Threads : pc'[u] = "wait" => cur'[u] \in async'
    BY <1>1, <1>2, <1>7 DEF Pinning
  <2>6. \A x \in Elem : fut'[x] = "pending" => x \in async'
    BY <1>1, <1>2 DEF Pinning
  <2>7. \A u, v \in Threads :
          pc'[u] \in Creating /\ pc'[v] \in Creating /\ cur'[u] = cur'[v] => u = v
    BY <1>1, <2>1 DEF Pinning
  <2> QED
    BY <2>2, <2>3, <2>4, <2>5, <2>6, <2>7 DEF Pinning
<1>12. Holding'
  <2>1. \A x \in refs' : Excused(x) \/ Live(ptr, x)
    BY <1>1, <1>2 DEF Holding
  <2>2. \A u \in Threads : Carries(u)' => Carries(u) /\ cur'[u] = cur[u]
    BY <1>2, <1>7 DEF Carries
  <2>3. \A u \in Threads : pc'[u] \in Creating \union {"ptr", "join"} => cur'[u] \in Elem
    BY <1>1, <1>7 DEF Holding, Creating
  <2>4. \A x \in async' : x \in refs' => fut'[x] = "value"
    BY <1>1, <1>2, <1>10 DEF Holding
  <2> QED
    BY <1>1, <1>2, <2>1, <2>2, <2>3, <2>4 DEF Holding, Excused
<1> QED
  BY <1>5, <1>6, <1>8, <1>11, <1>12 DEF IInv

\* Every step keeps the invariant.
LEMMA NextIInv == IInv /\ [Next]_vars => IInv'
<1> SUFFICES ASSUME IInv, [Next]_vars PROVE IInv'
  OBVIOUS
<1>1. ASSUME NEW t \in Threads, Call(t) \/ Lock(t) PROVE IInv'
  BY <1>1, WalkKeeps
<1>2. ASSUME NEW t \in Threads, LockedStep(t) PROVE IInv'
  <2>1. CASE PtrNil(t) \/ Missed(t) \/ CreateFails(t) \/ StartRehash(t)
    BY <2>1, WalkKeeps
  <2>2. CASE Found(t)
    BY <2>2, FoundKeeps
  <2>3. CASE Unwind(t) \/ Return(t)
    BY <2>3, LeaveKeeps
  <2>4. ASSUME NEW e \in Elem, VisitOther(t, e) \/ VisitMatch(t, e) PROVE IInv'
    BY <2>4, WalkKeeps
  <2>5. ASSUME NEW e \in Elem, VisitStale(t, e) \/ Sweep(t, e) PROVE IInv'
    BY <2>5, EraseKeeps
  <2>6. ASSUME NEW e \in Elem, ExpireMatch(t, e) PROVE IInv'
    BY <2>6, ExpireKeeps
  <2>7. ASSUME NEW e \in Elem, CreateSync(t, e) \/ CreateAsync(t, e) PROVE IInv'
    BY <2>7, CreateKeeps
  <2> QED
    BY <1>2, <2>1, <2>2, <2>3, <2>4, <2>5, <2>6, <2>7 DEF LockedStep
<1>3. ASSUME NEW t \in Threads, Join(t) PROVE IInv'
  BY <1>3, JoinKeeps
<1>4. ASSUME NEW t \in Threads, Resolve(t) PROVE IInv'
  BY <1>4, ResolveKeeps
<1>5. ASSUME NEW e \in Elem, Settle(e) PROVE IInv'
  BY <1>5, SettleKeeps
<1>6. ASSUME NEW e \in Elem, Drop(e) \/ Age(e) PROVE IInv'
  BY <1>6, EnvironmentKeeps
<1>7. CASE UNCHANGED vars
  <2>1. /\ UNCHANGED <<lock, pc, op, arg, todo, cur, async, fut, doomed>>
        /\ UNCHANGED <<ptr, aged, pinned, queue, nbuckets, refs, voided>>
    BY <1>7 DEF vars, control, future
  <2>2. Types' /\ Locking' /\ Pinning'
    BY <2>1 DEF IInv, Types, Locking, Pinning, Linked
  <2>3. Agree(queue', ptr')
    BY <2>1 DEF IInv
  <2>4. Holding'
    BY <2>1 DEF IInv, Holding, Excused, Carries
  <2> QED
    BY <2>2, <2>3, <2>4 DEF IInv
<1> QED
  BY <1>1, <1>2, <1>3, <1>4, <1>5, <1>6, <1>7 DEF Next, Step

-----------------------------------------------------------------------------
\* The theorems.

\* The inductive invariant holds in every reachable state.
THEOREM Invariance == Spec => []IInv
  BY InitIInv, NextIInv, PTL DEF Spec

\* The type invariant of the cache's state.
THEOREM CacheTypes == Spec => []TypeOK
  BY Invariance, IInvGives, PTL

\* An element that a thread is creating stays in the cache until that thread is
\* done with it: resolve_ may use `created` after it has released the lock
\* (cache_impl.h:654-671).
THEOREM CreatorsPinsProtect == Spec => []PinsProtect
  BY Invariance, IInvGives, PTL

\* No element holds a future that no thread is going to resolve.
THEOREM FuturesHaveCreators == Spec => []FutureHasCreator
  BY Invariance, IInvGives, PTL

\* A value that a client holds is in the cache, unless it was expired or grew
\* too old (README.md:50-51).
THEOREM HeldValuesAreFound == Spec => []HeldIsFound
  BY Invariance, IInvGives, PTL

\* The queued elements are the ones that the cache itself keeps alive.
THEOREM OnlyTheQueueKeepsAlive == Spec => []QueueKeepsAlive
  BY Invariance, IInvGives, PTL

-----------------------------------------------------------------------------
\* The cache seen from its queue (ImplementsQueue).

\* A step that the queue does not see.
LEMMA Invisible ==
  ASSUME UNCHANGED <<queue, ptr, aged, async, pinned>>, ViewHeld' = ViewHeld
  PROVE  UNCHANGED QueueView!vars
<1>1. ViewPtr' = ViewPtr
  BY DEF ViewPtr
<1>2. ViewVoid' = ViewVoid
  BY DEF ViewVoid, Linked
<1> QED
  BY <1>1, <1>2 DEF QueueView!vars

\* An empty cache has an empty queue.
LEMMA ViewInit == Init => QueueView!Init
  BY DEF Init, QueueView!Init, ViewPtr, ViewVoid, ViewHeld, Referenced, Linked, EmptyQueue, QueueView!EmptyQueue

\* ExpireQueue counts and links as the cache does.
LEMMA SameQueue ==
  ASSUME NEW q, NEW e, NEW D, NEW n
  PROVE  /\ QueueView!Queued(q) = Queued(q) /\ QueueView!LinkCold(q, e) = LinkCold(q, e)
         /\ QueueView!Promote(q, e) = Promote(q, e) /\ QueueView!Unlink(q, e) = Unlink(q, e)
         /\ QueueView!Cleanup(q, D) = Cleanup(q, D) /\ QueueView!ShrinkTo(q, n) = ShrinkTo(q, n)
         /\ QueueView!Keep = Keep
<1> USE DEF QueueView!Rebalance, Rebalance, QueueView!QSize, QSize
<1>1. QueueView!Queued(q) = Queued(q)
  BY DEF QueueView!Queued, Queued, QueueView!ToSet, ToSet
<1>2. QueueView!LinkCold(q, e) = LinkCold(q, e)
  BY DEF QueueView!LinkCold, LinkCold, QueueView!InsertAt, InsertAt
<1>3. QueueView!Promote(q, e) = Promote(q, e)
  BY DEF QueueView!Promote, Promote, QueueView!Position, Position, QueueView!Cons, Cons,
         QueueView!RemoveAt, RemoveAt
<1>4. QueueView!Unlink(q, e) = Unlink(q, e)
  BY <1>1 DEF QueueView!Unlink, Unlink, QueueView!Position, Position, QueueView!RemoveAt, RemoveAt
<1>5. QueueView!ShrinkTo(q, n) = ShrinkTo(q, n)
  BY DEF QueueView!ShrinkTo, ShrinkTo
<1>6. QueueView!Cleanup(q, D) = Cleanup(q, D)
  BY DEF QueueView!Cleanup, Cleanup, QueueView!ShrinkWhile, ShrinkWhile, QueueView!WarmerThan, WarmerThan,
         QueueView!ShrinkTo, ShrinkTo
<1>7. QueueView!Keep = Keep
  BY DEF QueueView!Keep, Keep
<1> QED
  BY <1>1, <1>2, <1>3, <1>4, <1>5, <1>6, <1>7

\* How the queue sees pointers p with the queue q.
Seen(p, q) == [e \in Elem |-> IF p[e] # "nil" THEN p[e]
                              ELSE IF e \in Queued(q) THEN "strong" ELSE "weak"]

\* The maintenance evicts and erases the same elements in both.
LEMMA MaintainSeen ==
  ASSUME NEW e \in Elem, NEW q, NEW p, Agree(q, p), async \subseteq pinned, pinned \subseteq Elem,
         Maintain(q, p, e), Live(p, e), e \notin ViewVoid, e \notin aged',
         \A x \in Elem \ {e} : p[x] = ptr[x] /\ (x \in Queued(q) <=> x \in Queued(queue)),
         \A x \in Elem \ {e} : (x \in aged' <=> x \in aged) /\ (x \in async' <=> x \in async),
         ptr \in [Elem -> {"absent", "nil", "weak", "strong"}]
  PROVE  QueueView!Maintain(q, Seen(p, q), e)
<1> DEFINE r == Referenced \union {e}
           D1 == Erased(p, r, Linked \ {e})
           q1 == Cleanup(q, D1)
           p1 == Erase(p, Queued(q) \ Queued(q1))
           Q2(n) == ShrinkTo(q1, n)
           Drop2(n) == Queued(q1) \ Queued(Q2(n))
           P2(n) == Weaken(p1, Drop2(n))
           Dead(n) == Erased(P2(n), r, Drop2(n) \ {e})
           s == ViewHeld \union {e}
           E1 == {x \in QueueView!Present \ {e} :
                    QueueView!Expired(Seen(p, q), s, x) /\ x \notin pinned}
           S1 == QueueView!Erase(Seen(p, q), Queued(q) \ Queued(q1))
           S2(n) == QueueView!Weaken(S1, Drop2(n))
           Gone(n) == QueueView!Erased(S2(n), s, Drop2(n) \ {e})
<1>1. PICK n \in Keep : queue' = Q2(n) /\ ptr' = Erase(P2(n), Dead(n))
  BY DEF Maintain
<1>2. /\ p \in [Elem -> {"absent", "nil", "weak", "strong"}]
      /\ q \in Queues(Elem) /\ NoDup(q) /\ n \in Nat
      /\ \A x \in Queued(q) : x \in Elem => p[x] \in {"strong", "nil"}
      /\ \A x \in Elem : p[x] = "strong" => x \in Queued(q)
  BY KeepType DEF Agree
<1>3. D1 = E1
  BY <1>2 DEF Erased, Expired, QueueView!Present, QueueView!Expired, Seen, ViewPtr, ViewVoid, ViewHeld, Linked
<1>4. /\ q1 \in Queues(Elem) /\ NoDup(q1) /\ Queued(q1) \subseteq Queued(q)
      /\ Queued(q) \ Queued(q1) \subseteq D1
  BY <1>2, ShrinkWhileFacts DEF Cleanup
<1>5. \A x \in D1 : x \in Elem /\ x # e /\ x \notin pinned
  BY DEF Erased, Linked
<1> HIDE DEF D1, E1, q1
<1>6. Queued(Q2(n)) \subseteq Queued(q1)
  BY <1>2, <1>4, ShrinkToFacts
<1> HIDE DEF Q2
<1>7. /\ \A x \in Elem : x \in Drop2(n) =>
           /\ p1[x] = p[x] /\ p[x] \in {"strong", "nil"}
           /\ P2(n)[x] = IF p[x] = "strong" THEN "weak" ELSE "nil"
           /\ S2(n)[x] = "weak"
      /\ \A x \in Elem : x \notin Drop2(n) => P2(n)[x] = p1[x] /\ S2(n)[x] = S1[x]
  <2>1. ASSUME NEW x \in Elem, x \in Drop2(n)
        PROVE  p1[x] = p[x] /\ p[x] \in {"strong", "nil"}
    BY <1>2, <1>4, <1>6, <2>1 DEF Erase
  <2>2. \A x \in Elem : P2(n)[x] = IF x \in Drop2(n) /\ p1[x] = "strong" THEN "weak" ELSE p1[x]
    BY DEF Weaken
  <2>3. \A x \in Elem : S2(n)[x] = IF x \in Drop2(n) THEN "weak" ELSE S1[x]
    BY DEF QueueView!Weaken
  <2> HIDE DEF Drop2, P2, S2, p1, S1
  <2> QED
    BY <2>1, <2>2, <2>3
<1>8. \A x \in Drop2(n) : x \in Elem
  BY <1>4, QueueType, ToSetFacts
<1>9. Dead(n) = Gone(n)
  <2>1. ASSUME NEW x \in Drop2(n) \ {e}, x \notin pinned
        PROVE  Expired(P2(n), r, x) <=> QueueView!Expired(S2(n), s, x)
    <3>1. x \in Elem /\ x \notin async /\ x \in Queued(q)
      BY <1>4, <1>8, <2>1
    <3>2. x \in ViewVoid <=> x \in aged \/ p[x] = "nil"
      BY <1>2, <3>1 DEF ViewVoid, Linked
    <3>3. x \in r <=> x \in s
      BY <3>1 DEF ViewHeld
    <3> HIDE DEF Drop2, P2, S2, r, s
    <3> QED
      BY <1>7, <2>1, <3>1, <3>2, <3>3 DEF Expired, QueueView!Expired
  <2> HIDE DEF Drop2, P2, S2, r, s
  <2> QED
    BY <2>1 DEF Erased, QueueView!Erased
<1>10. \A x \in Dead(n) : x \in Drop2(n) /\ x # e /\ x \notin pinned
  BY DEF Erased
<1>11. \A x \in Elem : ptr'[x] = IF x \in Dead(n) \/ x \in Queued(q) \ Queued(q1) THEN "absent"
                               ELSE P2(n)[x]
  <2>1. \A x \in Elem : ptr'[x] = IF x \in Dead(n) THEN "absent" ELSE P2(n)[x]
    BY <1>1 DEF Erase
  <2>2. \A x \in Elem : x \in Queued(q) \ Queued(q1) => x \notin Drop2(n) /\ p1[x] = "absent"
    BY DEF Erase
  <2> HIDE DEF Drop2, P2, S2, p1, Dead
  <2> QED
    BY <1>7, <2>1, <2>2
<1>12. \A x \in Elem : p1[x] = IF x \in Queued(q) \ Queued(q1) THEN "absent" ELSE p[x]
  BY DEF Erase
<1>13. \A x \in Elem : S1[x] = IF x \in Queued(q) \ Queued(q1) THEN "absent" ELSE Seen(p, q)[x]
  BY DEF QueueView!Erase
<1> HIDE DEF P2, S2, p1, S1, Dead, Gone
<1>14. ViewPtr' = QueueView!Erase(S2(n), Gone(n))
  <2>1. ASSUME NEW x \in Elem
        PROVE  (IF ptr'[x] # "nil" THEN ptr'[x] ELSE IF x \in Queued(Q2(n)) THEN "strong" ELSE "weak")
                 = IF x \in Gone(n) THEN "absent" ELSE S2(n)[x]
    <3>1. Seen(p, q)[x] = IF p[x] # "nil" THEN p[x] ELSE IF x \in Queued(q) THEN "strong" ELSE "weak"
      BY DEF Seen
    <3>2. CASE x \in Drop2(n)
      BY <1>4, <1>6, <1>7, <1>9, <1>11, <3>2
    <3>3. CASE x \notin Drop2(n)
      <4>1. x \in Queued(q1) <=> x \in Queued(Q2(n))
        BY <1>6, <3>3
      <4>2. x \notin Dead(n)
        BY <1>10, <3>3
      <4>3. P2(n)[x] = p1[x] /\ S2(n)[x] = S1[x]
        BY <1>7, <3>3
      <4> HIDE DEF Drop2
      <4> QED
        BY <1>2, <1>4, <1>9, <1>11, <1>12, <1>13, <3>1, <4>1, <4>2, <4>3
    <3> QED
      BY <3>2, <3>3
  <2> QED
    BY <1>1, <2>1 DEF ViewPtr, QueueView!Erase
<1>15. ViewVoid' = ViewVoid \ {x \in Elem : ViewPtr'[x] = "absent"}
  <2>1. \A x \in Elem : ViewPtr'[x] = "absent" <=> ptr'[x] = "absent"
    BY DEF ViewPtr
  <2>2. Live(ptr', e)
    BY MaintainFacts DEF Kept
  <2>3. e \notin ViewVoid'
    BY <2>2 DEF ViewVoid, Live
  <2>4. ASSUME NEW x \in Elem \ {e}
        PROVE  x \in ViewVoid' <=> x \in ViewVoid /\ ptr'[x] # "absent"
    <3>1. ptr'[x] # "absent" => (ptr[x] # "absent" /\ (ptr'[x] = "nil" <=> ptr[x] = "nil"))
      BY <1>2, <1>7, <1>11, <1>12
    <3> QED
      BY <3>1 DEF ViewVoid, Linked
  <2>5. ViewVoid \subseteq Elem /\ ViewVoid' \subseteq Elem
    BY DEF ViewVoid, Linked
  <2> QED
    BY <2>1, <2>3, <2>4, <2>5
<1> QED
  <2> USE DEF S2, S1, Gone, Drop2, Q2, q1
  <2>1. QueueView!Cleanup(q, E1) = q1
    BY <1>3, SameQueue
  <2>2. /\ \A x : QueueView!Queued(x) = Queued(x)
        /\ \A x : QueueView!ShrinkTo(q1, x) = ShrinkTo(q1, x)
        /\ QueueView!Keep = Keep
    BY SameQueue
  <2>3. QueueView!Queued(q) = Queued(q) /\ QueueView!Queued(q1) = Queued(q1)
        /\ QueueView!Queued(Q2(n)) = Queued(Q2(n)) /\ QueueView!ShrinkTo(q1, n) = Q2(n)
    BY <2>2
  <2> HIDE DEF q1, Q2
  <2> QED
    BY <1>1, <1>14, <1>15, <2>1, <2>2, <2>3 DEF QueueView!Maintain, E1

\* What a hit or a creation does to the queue, in both.
LEMMA CreateSeen ==
  ASSUME NEW e \in Elem, Queue, Agree(queue, ptr), async \subseteq pinned, pinned \subseteq Elem,
         ptr[e] = "absent", OnCreate(e), e \notin aged',
         \A x \in Elem \ {e} : (x \in aged' <=> x \in aged) /\ (x \in async' <=> x \in async)
  PROVE  QueueView!Maintain(QueueView!LinkCold(queue, e), [ViewPtr EXCEPT ![e] = "strong"], e)
<1> DEFINE p == [ptr EXCEPT ![e] = "strong"]
           q == LinkCold(queue, e)
<1>1. /\ ptr \in [Elem -> {"absent", "nil", "weak", "strong"}]
      /\ queue \in Queues(Elem) /\ NoDup(queue) /\ e \notin Queued(queue)
  BY DEF Agree
<1>2. q \in Queues(Elem) /\ NoDup(q) /\ IsBalanced(q) /\ Queued(q) = Queued(queue) \union {e}
  BY <1>1, LinkColdFacts
<1>3. Maintain(q, p, e)
  BY DEF OnCreate
<1> HIDE DEF q
<1>4. Agree(q, p)
  BY <1>1, <1>2 DEF Agree
<1>5. Seen(p, q) = [ViewPtr EXCEPT ![e] = "strong"]
  BY <1>1, <1>2 DEF Seen, ViewPtr
<1>6. Live(p, e) /\ e \notin ViewVoid
  BY <1>1 DEF Live, ViewVoid, Linked
<1>7. \A x \in Elem \ {e} : p[x] = ptr[x] /\ (x \in Queued(q) <=> x \in Queued(queue))
  BY <1>1, <1>2
<1> HIDE DEF p
<1>8. QueueView!Maintain(q, Seen(p, q), e)
  BY <1>1, <1>3, <1>4, <1>6, <1>7, MaintainSeen
<1> QED
  BY <1>5, <1>8, SameQueue DEF q

\* on_hit is that of the queue.
LEMMA HitSeen ==
  ASSUME NEW e \in Elem, Queue, Agree(queue, ptr), async \subseteq pinned, pinned \subseteq Elem,
         Live(ptr, e), e \notin aged, OnHit(e), UNCHANGED <<aged, async>>
  PROVE  IF e \in QueueView!Queued(queue)
         THEN QueueView!Maintain(QueueView!Promote(queue, e), ViewPtr, e)
         ELSE QueueView!Maintain(QueueView!LinkCold(queue, e), [ViewPtr EXCEPT ![e] = "strong"], e)
<1>1. /\ ptr \in [Elem -> {"absent", "nil", "weak", "strong"}]
      /\ queue \in Queues(Elem) /\ NoDup(queue)
  BY DEF Agree
<1>2. e \notin ViewVoid
  BY DEF ViewVoid, Live
<1>3. CASE e \in Queued(queue)
  <2> DEFINE q == Promote(queue, e)
  <2>1. q \in Queues(Elem) /\ NoDup(q) /\ IsBalanced(q) /\ Queued(q) = Queued(queue)
    BY <1>1, <1>3, PromoteFacts
  <2>2. Maintain(q, ptr, e)
    BY <1>3 DEF OnHit
  <2> HIDE DEF q
  <2>3. Agree(q, ptr)
    BY <2>1 DEF Agree
  <2>4. Seen(ptr, q) = ViewPtr
    BY <2>1 DEF Seen, ViewPtr
  <2>5. QueueView!Maintain(q, Seen(ptr, q), e)
    BY <1>1, <1>2, <2>1, <2>2, <2>3, MaintainSeen
  <2> QED
    BY <1>3, <2>4, <2>5, SameQueue DEF q
<1>4. CASE e \notin Queued(queue)
  <2> DEFINE p == [ptr EXCEPT ![e] = "strong"]
             q == LinkCold(queue, e)
  <2>1. q \in Queues(Elem) /\ NoDup(q) /\ IsBalanced(q) /\ Queued(q) = Queued(queue) \union {e}
    BY <1>1, <1>4, LinkColdFacts
  <2>2. Maintain(q, p, e)
    BY <1>4 DEF OnHit
  <2> HIDE DEF q
  <2>3. Agree(q, p)
    BY <1>1, <2>1 DEF Agree
  <2>4. Seen(p, q) = [ViewPtr EXCEPT ![e] = "strong"]
    BY <1>1, <2>1 DEF Seen, ViewPtr
  <2>5. Live(p, e) /\ \A x \in Elem \ {e} : p[x] = ptr[x] /\ (x \in Queued(q) <=> x \in Queued(queue))
    BY <1>1, <2>1 DEF Live
  <2> HIDE DEF p
  <2>6. QueueView!Maintain(q, Seen(p, q), e)
    BY <1>1, <1>2, <2>2, <2>3, <2>5, MaintainSeen
  <2> QED
    BY <1>4, <2>4, <2>6, SameQueue DEF q
<1> QED
  BY <1>3, <1>4

\* An erasure outside the maintenance.
LEMMA DeleteSeen ==
  ASSUME NEW e \in Elem, Agree(queue, ptr), Delete(e), ptr[e] # "absent", e \notin pinned,
         UNCHANGED <<aged, async, pinned>>, ViewHeld' = ViewHeld
  PROVE  QueueView!Delete(e)
<1>1. /\ queue \in Queues(Elem) /\ NoDup(queue) /\ IsBalanced(queue)
      /\ ptr \in [Elem -> {"absent", "nil", "weak", "strong"}]
  BY DEF Agree
<1>2. Queued(queue') = Queued(queue) \ {e}
  BY <1>1, UnlinkFacts DEF Delete
<1>3. \A x \in Elem : ptr'[x] = IF x = e THEN "absent" ELSE ptr[x]
  BY <1>1 DEF Delete
<1>4. ViewPtr' = QueueView!Erase(ViewPtr, {e})
  BY <1>2, <1>3 DEF ViewPtr, QueueView!Erase
<1>5. ViewVoid' = ViewVoid \ {e}
  BY <1>3 DEF ViewVoid, Linked
<1>6. e \in QueueView!Present
  BY DEF QueueView!Present, ViewPtr
<1>7. queue' = QueueView!Unlink(queue, e)
  BY SameQueue DEF Delete
<1> QED
  BY <1>4, <1>5, <1>6, <1>7 DEF QueueView!Delete

-----------------------------------------------------------------------------
\* The steps of Cache, one kind after the other.

ViewStep == QueueView!Next \/ UNCHANGED QueueView!vars

\* Who holds a value.
LEMMA HeldIs ==
  ASSUME async \subseteq Elem, refs \subseteq Elem
  PROVE  \A x : x \in ViewHeld <=>
                  x \in refs \/ x \in async \/ (x \in Elem /\ \E t \in Threads : cur[t] = x /\ Carries(t))
  BY DEF ViewHeld, Referenced, Carries

\* What is held depends on the threads that carry a value.
LEMMA HeldSame ==
  ASSUME async \subseteq Elem, refs \subseteq Elem, UNCHANGED <<async, refs>>,
         \A u \in Threads : Carries(u)' <=> Carries(u),
         \A u \in Threads : Carries(u) => cur'[u] = cur[u]
  PROVE  ViewHeld' = ViewHeld
<1>1. Referenced' = Referenced
  BY DEF Referenced, Carries
<1> QED
  BY <1>1 DEF ViewHeld

\* Looking through the bucket touches no element and hands nothing out.
LEMMA WalkHeld ==
  ASSUME IInv, NEW t \in Threads,
         \/ Call(t) \/ Lock(t) \/ PtrNil(t) \/ Missed(t) \/ CreateFails(t) \/ StartRehash(t)
         \/ \E e \in Elem : VisitOther(t, e) \/ VisitMatch(t, e)
  PROVE  UNCHANGED <<data, ViewHeld>>
<1> USE DEF Call, Lock, PtrNil, Missed, CreateFails, StartRehash, VisitOther, VisitMatch,
            Goto, Unlock, Exit, future
<1>1. Types
  BY DEF IInv
<1>2. UNCHANGED data /\ UNCHANGED <<async, fut, refs>>
  BY DEF data
<1> DEFINE Same == \A u \in Threads : /\ Carries(u)' <=> Carries(u)
                                      /\ Carries(u) => cur'[u] = cur[u]
<1>3. Same
  <2> USE <1>1, <1>2 DEF Types, MustCreate, Visits, Carries
  <2>1. CASE Call(t) BY <2>1
  <2>2. CASE Lock(t) BY <2>2
  <2>3. CASE PtrNil(t) BY <2>3
  <2>4. CASE Missed(t) BY <2>4
  <2>5. CASE CreateFails(t) BY <2>5
  <2>6. CASE StartRehash(t) BY <2>6
  <2>7. ASSUME NEW e \in Elem, VisitOther(t, e) PROVE Same BY <2>7
  <2>8. ASSUME NEW e \in Elem, VisitMatch(t, e) PROVE Same BY <2>8
  <2> QED
    BY <2>1, <2>2, <2>3, <2>4, <2>5, <2>6, <2>7, <2>8
<1>4. ViewHeld' = ViewHeld
  BY <1>1, <1>2, <1>3, HeldSame DEF Types
<1> QED
  BY <1>2, <1>4

\* The queue sees nothing of such a step.
LEMMA WalkSeen ==
  ASSUME UNCHANGED <<data, ViewHeld>>
  PROVE  UNCHANGED QueueView!vars
  BY Invisible DEF data

\* Deleting elements hands nothing out.
LEMMA EraseHeld ==
  ASSUME IInv, NEW t \in Threads, NEW e \in Elem, VisitStale(t, e) \/ Sweep(t, e)
  PROVE  ViewHeld' = ViewHeld
  BY HeldSame DEF VisitStale, Sweep, future, Carries, IInv, Types

\* The queue sees an element deleted, if that was still linked.
LEMMA EraseSeen ==
  ASSUME IInv, NEW t \in Threads, NEW e \in Elem, VisitStale(t, e) \/ Sweep(t, e)
  PROVE  ViewStep
<1>1. Types /\ Agree(queue, ptr)
  BY DEF IInv
<1>2. UNCHANGED <<pc, cur, async, fut, aged, pinned, refs>>
  BY DEF VisitStale, Sweep, future
<1>3. ViewHeld' = ViewHeld
  BY EraseHeld
<1>4. CASE queue' = queue /\ ptr' = ptr
  BY <1>2, <1>3, <1>4, Invisible DEF ViewStep
<1>5. CASE e \notin pinned /\ Delete(e) /\ ptr[e] # "absent"
  <2>1. QueueView!Delete(e)
    BY <1>1, <1>2, <1>3, <1>5, DeleteSeen
  <2> QED
    BY <2>1 DEF ViewStep, QueueView!Next
<1>6. CASE Delete(e) /\ ptr[e] = "absent"
  <2>1. e \notin Queued(queue) /\ ptr' = ptr
    BY <1>1, <1>6 DEF Agree, Delete
  <2>2. queue' = queue
    BY <1>6, <2>1 DEF Delete, Unlink
  <2> QED
    BY <1>4, <2>1, <2>2
<1> QED
  BY <1>4, <1>5, <1>6 DEF VisitStale, Sweep

\* Expiring a key hands nothing out.
LEMMA ExpireHeld ==
  ASSUME IInv, NEW t \in Threads, NEW e \in Elem, ExpireMatch(t, e)
  PROVE  ViewHeld' = ViewHeld
<1>1. Types
  BY IInvFacts
<1>2. UNCHANGED <<async, fut, refs>> /\ pc[t] = "walk" /\ Exit(t)
  BY DEF ExpireMatch, Visits
<1>3. \A u \in Threads : /\ Carries(u)' <=> Carries(u)
                         /\ Carries(u) => cur'[u] = cur[u]
  BY <1>1, <1>2 DEF Exit, Goto, Carries, Types
<1> QED
  BY <1>1, <1>2, <1>3, HeldSame DEF Types

\* The queue sees an expired element deleted, or void while it is pinned.
LEMMA ExpireSeen ==
  ASSUME IInv, NEW t \in Threads, NEW e \in Elem, ExpireMatch(t, e)
  PROVE  ViewStep
<1>1. Types /\ Agree(queue, ptr) /\ Locking /\ Pinning /\ Holding /\ async \subseteq pinned
  BY IInvFacts
<1>2. /\ UNCHANGED <<async, fut, aged, pinned, refs>>
      /\ pc[t] = "walk" /\ Exit(t) /\ ptr[e] # "absent" /\ ~IsExpired(e)
  BY <1>1 DEF ExpireMatch, Visits, Matches, Stale, Locking, Linked
<1>4. ViewHeld' = ViewHeld
  BY ExpireHeld
<1>5. CASE e \notin pinned
  <2>1. QueueView!Delete(e)
    BY <1>1, <1>2, <1>4, <1>5, DeleteSeen DEF ExpireMatch
  <2> QED
    BY <2>1 DEF ViewStep, QueueView!Next
<1>6. CASE e \in async
  BY <1>1, <1>2, <1>4, <1>6, Invisible DEF ExpireMatch, ViewStep
<1>7. CASE e \in pinned /\ e \notin async
  <2>1. ptr' = [ptr EXCEPT ![e] = "nil"] /\ queue' = queue
    BY <1>7 DEF ExpireMatch
  <2>2. ptr[e] # "nil" /\ e \notin aged
    BY <1>2, <1>7 DEF IsExpired, Expired
  <2>3. ViewPtr' = ViewPtr
    BY <1>1, <1>2, <2>1, <2>2 DEF ViewPtr, Agree
  <2>4. ViewVoid' = ViewVoid \union {e} /\ e \notin ViewVoid
    BY <1>1, <1>2, <1>7, <2>1, <2>2 DEF ViewVoid, Linked, Agree
  <2>5. e \in QueueView!Present
    BY <1>2, <2>2 DEF QueueView!Present, ViewPtr
  <2>6. QueueView!Void(e)
    BY <1>2, <1>4, <2>1, <2>3, <2>4, <2>5 DEF QueueView!Void, QueueView!MayRelease
  <2> QED
    BY <2>6 DEF ViewStep, QueueView!Next
<1> QED
  BY <1>5, <1>6, <1>7

\* A hit leaves the element held: by its caller, or by its creation.
LEMMA FoundHeld ==
  ASSUME IInv, NEW t \in Threads, Found(t)
  PROVE  ViewHeld' = ViewHeld \union {cur[t]}
<1> DEFINE e == cur[t]
<1>1. Types /\ Holding
  BY DEF IInv
<1>2. UNCHANGED <<async, fut>> /\ pc[t] = "ptr" /\ e \in Elem
  BY <1>1 DEF Found, future, Holding
<1>3. \A u \in Threads \ {t} : /\ Carries(u)' <=> Carries(u)
                               /\ cur'[u] = cur[u]
  BY <1>1, <1>2 DEF Found, Exit, Goto, Carries, Types
<1>4. ~Carries(t)
  BY <1>2 DEF Carries
<1>5. CASE e \in async
  <2>1. refs' = refs /\ cur' = cur
    BY <1>5 DEF Found
  <2>2. \A x \in Elem : x \in Referenced' \/ x \in async <=> x \in Referenced \/ x \in async
    BY <1>3, <1>4, <1>5, <2>1 DEF Referenced, Carries
  <2> QED
    BY <1>1, <1>2, <1>5, <2>1, <2>2 DEF ViewHeld, Types, Referenced
<1>6. CASE e \notin async
  <2>1. refs' = refs \union {e} /\ Exit(t)
    BY <1>6 DEF Found
  <2>2. ~Carries(t)'
    BY <1>1, <2>1 DEF Carries, Exit, Goto, Types
  <2>3. \A x \in Elem : x \in Referenced' <=> x \in Referenced \/ x = e
    BY <1>3, <1>4, <2>1, <2>2 DEF Referenced, Carries
  <2> QED
    BY <1>1, <1>2, <2>1, <2>3 DEF ViewHeld, Types, Referenced
<1> QED
  BY <1>5, <1>6

\* A get is a hit of the queue; a peek leaves the queue alone.
LEMMA FoundSeen ==
  ASSUME IInv, Queue, NEW t \in Threads, Found(t)
  PROVE  ViewStep
<1> DEFINE e == cur[t]
<1>1. Types /\ Agree(queue, ptr) /\ Locking /\ Pinning /\ Holding /\ async \subseteq pinned
  BY IInvFacts
<1>2. /\ UNCHANGED <<async, fut, aged, pinned>>
      /\ pc[t] = "ptr" /\ e \in Elem /\ ptr[e] # "absent" /\ ~IsExpired(e)
      /\ \/ OnHit(e)
         \/ UNCHANGED <<queue, ptr>>
  BY <1>1 DEF Found, Locking, Linked, future
<1>3. Live(ptr, e)
  BY <1>1, <1>2 DEF IsExpired, Expired, Live, Pinning, Agree
<1>4. e \notin aged /\ ~QueueView!Expired(ViewPtr, ViewHeld, e)
  BY <1>2, <1>3 DEF IsExpired, Expired, QueueView!Expired, ViewVoid, ViewPtr, ViewHeld, Live
<1>5. e \in QueueView!Present
  BY <1>2, <1>3 DEF QueueView!Present, ViewPtr, Live
<1>6. ViewHeld' = ViewHeld \union {e}
  BY FoundHeld
<1>7. CASE OnHit(e)
  <2>1. QueueView!Hit(e)
    BY <1>1, <1>2, <1>3, <1>4, <1>5, <1>6, <1>7, HitSeen DEF QueueView!Hit, Types
  <2> QED
    BY <1>2, <2>1 DEF ViewStep, QueueView!Next
<1>8. CASE UNCHANGED <<queue, ptr>>
  <2>1. ViewPtr' = ViewPtr /\ ViewVoid' = ViewVoid
    BY <1>2, <1>8 DEF ViewPtr, ViewVoid, Linked
  <2>2. QueueView!Peek(e)
    BY <1>2, <1>4, <1>5, <1>6, <1>8, <2>1 DEF QueueView!Peek
  <2> QED
    BY <1>2, <2>2 DEF ViewStep, QueueView!Next
<1> QED
  BY <1>2, <1>7, <1>8

\* A new element is held by its creator.  A synchronous creation must not
\* outlast max_age.
LEMMA NewHeld ==
  ASSUME IInv, Async \/ ~MaxAge, NEW t \in Threads, NEW e \in Elem,
         CreateSync(t, e) \/ CreateAsync(t, e)
  PROVE  e \notin ViewHeld /\ ViewHeld' = ViewHeld \union {e}
<1>1. Types /\ Locking /\ Pinning /\ Holding
  BY IInvFacts
<1>2. UNCHANGED refs /\ pc[t] = "walk" /\ cur' = [cur EXCEPT ![t] = e]
  BY DEF CreateSync, CreateAsync, Insert, MustCreate
<1>3. ptr[e] = "absent" /\ e \notin refs /\ \A u \in Threads : cur[u] # e
  BY DEF CreateSync, CreateAsync, Insert, Free, Linked
<1>4. e \notin async
  BY <1>1, <1>3 DEF Pinning, Live
<1>5. \/ pc' = [pc EXCEPT ![t] = "rehash"] /\ UNCHANGED <<async, fut>>
      \/ /\ pc' = [pc EXCEPT ![t] = "wait"]
         /\ async' = async \union {e} /\ fut' = [fut EXCEPT ![e] = "pending"]
  BY VariantAssumption DEF CreateSync, CreateAsync, Goto
<1>7. e \notin ViewHeld
  BY <1>3, <1>4 DEF ViewHeld, Referenced
<1>8. ViewHeld' = ViewHeld \union {e}
  <2>1. \A u \in Threads \ {t} : cur'[u] = cur[u] /\ pc'[u] = pc[u] /\ cur[u] # e
    BY <1>1, <1>2, <1>3, <1>5 DEF Types
  <2>2. \A u \in Threads \ {t} : Carries(u)' <=> Carries(u)
    <3>1. \A u \in Threads \ {t} : pc[u] \in {"wait", "join"} => fut'[cur[u]] = fut[cur[u]]
      BY <1>1, <1>5, <2>1 DEF Holding, Creating, Types
    <3> QED
      BY <2>1, <3>1 DEF Carries
  <2>3. ~Carries(t) /\ cur'[t] = e
    BY <1>1, <1>2 DEF Carries, Types
  <2>4. async \subseteq Elem /\ refs \subseteq Elem /\ async' \subseteq Elem /\ refs' \subseteq Elem
    BY <1>1, <1>2, <1>5 DEF Types
  <2>5. e \in async' \/ Carries(t)'
    BY <1>1, <1>5 DEF Carries, Types
  <2>6. async' \subseteq async \union {e} /\ async \subseteq async'
    BY <1>5
  <2>7. \A x : x \in ViewHeld' <=>
          x \in refs \/ x \in async' \/ (x \in Elem /\ \E u \in Threads : cur'[u] = x /\ Carries(u)')
    BY <1>2, <2>4 DEF ViewHeld, Referenced, Carries
  <2> HIDE DEF Carries
  <2> QED
    BY <2>1, <2>2, <2>3, <2>4, <2>5, <2>6, <2>7, HeldIs
<1> QED
  BY <1>7, <1>8

\* A new element.  A synchronous creation must not outlast max_age.
LEMMA NewSeen ==
  ASSUME IInv, Queue, Async \/ ~MaxAge, NEW t \in Threads, NEW e \in Elem,
         CreateSync(t, e) \/ CreateAsync(t, e)
  PROVE  ViewStep
<1>1. Types /\ Agree(queue, ptr) /\ Locking /\ Pinning /\ Holding /\ async \subseteq pinned
  BY IInvFacts
<1>2. /\ UNCHANGED refs /\ pc[t] = "walk"
      /\ OnCreate(e) /\ pinned' = pinned \union {e} /\ cur' = [cur EXCEPT ![t] = e]
      /\ aged' = aged \ {e}
  BY VariantAssumption DEF CreateSync, CreateAsync, Insert, MustCreate
<1>3. ptr[e] = "absent" /\ e \notin refs /\ \A u \in Threads : cur[u] # e
  BY DEF CreateSync, CreateAsync, Insert, Free, Linked
<1>5. async' \in {async, async \union {e}}
  BY DEF CreateSync, CreateAsync
<1>6. QueueView!Maintain(QueueView!LinkCold(queue, e), [ViewPtr EXCEPT ![e] = "strong"], e)
  BY <1>1, <1>2, <1>3, <1>5, CreateSeen DEF Types
<1>7. e \notin ViewHeld /\ ViewHeld' = ViewHeld \union {e}
  BY NewHeld
<1>9. ViewPtr[e] = "absent"
  BY <1>3 DEF ViewPtr
<1>10. QueueView!Create(e)
  BY <1>2, <1>6, <1>7, <1>9 DEF QueueView!Create
<1> QED
  BY <1>10 DEF ViewStep, QueueView!Next

\* The outcome of a creation changes nothing that is held: it was already.
LEMMA SettleHeld ==
  ASSUME IInv, NEW e \in Elem, Settle(e)
  PROVE  ViewHeld' = ViewHeld
<1>1. Types /\ Pinning
  BY DEF IInv
<1>2. /\ UNCHANGED <<pc, cur, async, refs>>
      /\ e \in async /\ \A x \in Elem \ {e} : fut'[x] = fut[x]
  BY <1>1 DEF Settle, control, Pinning, Types
<1>3. \A x \in Elem \ {e} : x \in Referenced' <=> x \in Referenced
  BY <1>2 DEF Referenced
<1> QED
  BY <1>1, <1>2, <1>3 DEF ViewHeld, Referenced, Types

\* The queue does not see how a creation ends.
LEMMA SettleSeen ==
  ASSUME IInv, NEW e \in Elem, Settle(e)
  PROVE  ViewStep
<1>1. UNCHANGED <<async, queue, ptr, aged, pinned>>
  BY DEF Settle
<1> QED
  BY <1>1, SettleHeld, Invisible DEF ViewStep

\* The value that is returned was carried by the thread.
LEMMA JoinHeld ==
  ASSUME IInv, NEW t \in Threads, Join(t)
  PROVE  ViewHeld' = ViewHeld
<1>1. Types /\ Holding
  BY DEF IInv
<1>2. /\ UNCHANGED <<async, fut, queue, ptr, aged, pinned>>
      /\ pc[t] = "join" /\ cur[t] \in Elem
      /\ refs' = IF fut[cur[t]] = "value" THEN refs \union {cur[t]} ELSE refs
  BY <1>1 DEF Join, future, Holding
<1>3. /\ \A u \in Threads \ {t} : cur'[u] = cur[u] /\ pc'[u] = pc[u]
      /\ pc'[t] \in {"idle", "terminated"}
  BY <1>1 DEF Join, Exit, Goto, Types
<1>4. Carries(t) <=> fut[cur[t]] = "value"
  BY <1>2 DEF Carries
<1>5. ~Carries(t)' /\ \A u \in Threads \ {t} : Carries(u)' <=> Carries(u)
  BY <1>2, <1>3 DEF Carries
<1>6. Referenced' = Referenced
  BY <1>1, <1>2, <1>3, <1>4, <1>5, ReferencedIs DEF Referenced, Carries, Types
<1> QED
  BY <1>2, <1>6 DEF ViewHeld

\* Nor that its value is returned.
LEMMA JoinSeen ==
  ASSUME IInv, NEW t \in Threads, Join(t)
  PROVE  ViewStep
<1>1. UNCHANGED <<async, queue, ptr, aged, pinned>>
  BY DEF Join, future
<1> QED
  BY <1>1, JoinHeld, Invisible DEF ViewStep

\* The creator still holds a value it has installed, and lets go of the element
\* when the creation has failed.
LEMMA ResolveHeld ==
  ASSUME IInv, NEW t \in Threads, Resolve(t)
  PROVE  /\ \A x : x # cur[t] => (x \in ViewHeld' <=> x \in ViewHeld)
         /\ cur[t] \in ViewHeld
         /\ fut[cur[t]] # "throw" => cur[t] \in ViewHeld'
<1> DEFINE e == cur[t]
<1>1. Types /\ Pinning /\ Holding
  BY DEF IInv
<1>2. /\ UNCHANGED <<cur, fut, refs>> /\ pc[t] = "wait" /\ e \in Elem /\ e \in async
      /\ async' = async \ {e} /\ fut[e] \in {"value", "throw"}
      /\ pc' = [pc EXCEPT ![t] = IF fut[e] = "throw" THEN "unwind" ELSE "rehash"]
  BY <1>1 DEF Resolve, Goto, Holding, Pinning, Creating, Types
<1>3. /\ \A u \in Threads \ {t} : Carries(u)' <=> Carries(u)
      /\ Carries(t) <=> fut[e] = "value"
      /\ Carries(t)' <=> fut[e] = "value"
  BY <1>1, <1>2 DEF Carries, Types
<1>4. Referenced' = Referenced
  BY <1>2, <1>3 DEF Referenced, Carries
<1>5. fut[e] = "value" => e \in Referenced
  BY <1>2, <1>3, ReferencedIs
<1> QED
  BY <1>2, <1>4, <1>5 DEF ViewHeld

\* The creator installs the value, or the element turns nil.
LEMMA ResolveSeen ==
  ASSUME IInv, NEW t \in Threads, Resolve(t)
  PROVE  ViewStep
<1> DEFINE e == cur[t]
<1>1. Types /\ Agree(queue, ptr) /\ Pinning /\ Holding
  BY DEF IInv
<1>2. /\ UNCHANGED <<aged, pinned, queue>>
      /\ e \in Elem /\ Live(ptr, e) /\ async' = async \ {e}
      /\ ptr' = IF fut[e] = "throw" \/ e \in doomed THEN [ptr EXCEPT ![e] = "nil"] ELSE ptr
  BY <1>1 DEF Resolve, Holding, Pinning, Creating
<1>6. ViewHeld' = ViewHeld \/ ViewHeld' = ViewHeld \ {e}
  BY ResolveHeld
<1>7. ViewPtr' = ViewPtr
  BY <1>1, <1>2 DEF ViewPtr, Agree, Live
<1>8. e \in ViewHeld /\ e \in QueueView!Present
  BY <1>2, ResolveHeld DEF QueueView!Present, ViewPtr, Live
<1>9. ViewVoid' = ViewVoid \/ (ViewVoid' = ViewVoid \union {e} /\ e \notin ViewVoid)
  BY <1>1, <1>2 DEF ViewVoid, Linked, Agree, Live
<1>10. CASE ViewVoid' = ViewVoid
  <2>1. UNCHANGED QueueView!vars \/ QueueView!Release(e)
    BY <1>2, <1>6, <1>7, <1>8, <1>10 DEF QueueView!vars, QueueView!Release
  <2> QED
    BY <1>2, <2>1 DEF ViewStep, QueueView!Next
<1>11. CASE ViewVoid' = ViewVoid \union {e} /\ e \notin ViewVoid
  <2>1. QueueView!Void(e)
    BY <1>2, <1>6, <1>7, <1>8, <1>11 DEF QueueView!Void, QueueView!MayRelease
  <2> QED
    BY <1>2, <2>1 DEF ViewStep, QueueView!Next
<1> QED
  BY <1>9, <1>10, <1>11

\* A creator leaves with the value, or with nothing.
LEMMA LeaveHeld ==
  ASSUME IInv, NEW t \in Threads, Unwind(t) \/ Return(t)
  PROVE  ViewHeld' = ViewHeld
<1> DEFINE e == cur[t]
<1>1. Types /\ Holding
  BY DEF IInv
<1>2. /\ UNCHANGED <<async, fut>> /\ Exit(t) /\ pc[t] \in {"unwind", "rehash", "sweep"}
      /\ refs' = IF pc[t] = "unwind" THEN refs ELSE refs \union {e}
  BY DEF Unwind, Return, Leave, future
<1>3. e \in Elem
  BY <1>1, <1>2 DEF Holding, Creating
<1>4. /\ \A u \in Threads \ {t} : cur'[u] = cur[u] /\ pc'[u] = pc[u]
      /\ pc'[t] = "idle"
  BY <1>1, <1>2 DEF Exit, Goto, Types
<1>5. /\ Carries(t) <=> pc[t] # "unwind"
      /\ ~Carries(t)' /\ \A u \in Threads \ {t} : Carries(u)' <=> Carries(u)
  BY <1>2, <1>4 DEF Carries
<1>6. Referenced' = Referenced
  BY <1>1, <1>2, <1>3, <1>4, <1>5 DEF Referenced, Carries, Types
<1> QED
  BY <1>2, <1>6 DEF ViewHeld

\* The queue sees the pin of the creator go.
LEMMA LeaveSeen ==
  ASSUME IInv, NEW t \in Threads, Unwind(t) \/ Return(t)
  PROVE  ViewStep
<1> DEFINE e == cur[t]
<1>1. Pinning /\ Holding
  BY DEF IInv
<1>2. /\ UNCHANGED <<async, ptr, aged, queue>>
      /\ pinned' = pinned \ {e} /\ pc[t] \in {"unwind", "rehash", "sweep"}
  BY DEF Unwind, Return, Leave, future
<1>3. e \in Elem /\ e \in pinned
  BY <1>1, <1>2 DEF Holding, Pinning, Creating
<1>4. ViewHeld' = ViewHeld /\ ViewPtr' = ViewPtr /\ ViewVoid' = ViewVoid
  BY <1>2, LeaveHeld DEF ViewPtr, ViewVoid, Linked
<1>5. QueueView!Unpin(e)
  BY <1>2, <1>3, <1>4 DEF QueueView!Unpin, QueueView!MayRelease
<1> QED
  BY <1>3, <1>5 DEF ViewStep, QueueView!Next

\* A client drops a reference, or time passes.
LEMMA EnvironmentSeen ==
  ASSUME IInv, NEW e \in Elem, Drop(e) \/ Age(e)
  PROVE  ViewStep
<1>1. Types /\ Agree(queue, ptr)
  BY DEF IInv
<1>2. UNCHANGED <<pc, cur, async, fut, ptr, pinned, queue>> /\ ViewPtr' = ViewPtr
  BY DEF Drop, Age, control, future, ViewPtr
<1>3. CASE Drop(e)
  <2>1. aged' = aged /\ refs' = refs \ {e} /\ e \in refs
    BY <1>3 DEF Drop
  <2>2. ViewVoid' = ViewVoid
    BY <1>2, <2>1 DEF ViewVoid, Linked
  <2>3. e \in ViewHeld /\ (ViewHeld' = ViewHeld \/ ViewHeld' = ViewHeld \ {e})
    BY <1>1, <1>2, <2>1 DEF ViewHeld, Referenced, Types
  <2>4. UNCHANGED QueueView!vars \/ QueueView!Release(e)
    BY <1>2, <2>2, <2>3 DEF QueueView!vars, QueueView!Release
  <2> QED
    BY <2>4 DEF ViewStep, QueueView!Next
<1>4. CASE Age(e)
  <2>1. refs' = refs /\ aged' = aged \union {e} /\ e \in Linked
    BY <1>4 DEF Age
  <2>2. ViewHeld' = ViewHeld
    BY <1>2, <2>1 DEF ViewHeld, Referenced
  <2>3. ViewVoid' = ViewVoid \union {e} /\ e \in QueueView!Present
    BY <1>2, <2>1 DEF ViewVoid, Linked, QueueView!Present, ViewPtr
  <2>4. UNCHANGED QueueView!vars \/ QueueView!Void(e)
    BY <1>2, <2>2, <2>3 DEF QueueView!vars, QueueView!Void, QueueView!MayRelease
  <2> QED
    BY <2>4 DEF ViewStep, QueueView!Next
<1> QED
  BY <1>3, <1>4

\* Every step of the cache is one of the queue, or none.
LEMMA NextSeen ==
  ASSUME IInv, Queue, Async \/ ~MaxAge, [Next]_vars
  PROVE  [QueueView!Next]_QueueView!vars
<1>1. ASSUME NEW t \in Threads, LockedStep(t) PROVE ViewStep
  <2>1. CASE PtrNil(t) \/ Missed(t) \/ CreateFails(t) \/ StartRehash(t)
    BY <2>1, WalkHeld, WalkSeen DEF ViewStep
  <2>2. CASE Found(t)
    BY <2>2, FoundSeen
  <2>3. CASE Unwind(t) \/ Return(t)
    BY <2>3, LeaveSeen
  <2>4. ASSUME NEW e \in Elem, VisitOther(t, e) \/ VisitMatch(t, e) PROVE ViewStep
    BY <2>4, WalkHeld, WalkSeen DEF ViewStep
  <2>5. ASSUME NEW e \in Elem, VisitStale(t, e) \/ Sweep(t, e) PROVE ViewStep
    BY <2>5, EraseSeen
  <2>6. ASSUME NEW e \in Elem, ExpireMatch(t, e) PROVE ViewStep
    BY <2>6, ExpireSeen
  <2>7. ASSUME NEW e \in Elem, CreateSync(t, e) \/ CreateAsync(t, e) PROVE ViewStep
    BY <2>7, NewSeen
  <2> QED
    BY <1>1, <2>1, <2>2, <2>3, <2>4, <2>5, <2>6, <2>7 DEF LockedStep
<1>2. ASSUME NEW t \in Threads, Step(t) PROVE ViewStep
  BY <1>1, <1>2, WalkHeld, WalkSeen, JoinSeen, ResolveSeen DEF Step, ViewStep
<1>3. ASSUME NEW e \in Elem, Settle(e) \/ Drop(e) \/ Age(e) PROVE ViewStep
  BY <1>3, SettleSeen, EnvironmentSeen
<1>4. CASE UNCHANGED vars
  <2>1. UNCHANGED <<pc, cur, async, fut, refs, queue, ptr, aged, pinned>>
    BY <1>4 DEF vars, control, future
  <2>2. ViewHeld' = ViewHeld
    BY <2>1 DEF ViewHeld, Referenced
  <2> QED
    BY <2>1, <2>2, Invisible
<1> QED
  BY <1>2, <1>3, <1>4 DEF Next, ViewStep

\* The cache with a queue, whatever its threads do, uses the queue as
\* ExpireQueue describes.
THEOREM CacheUsesQueue ==
  ASSUME Queue, Async \/ ~MaxAge
  PROVE  Spec => ImplementsQueue
<1>1. Init => QueueView!Init
  BY ViewInit
<1>2. IInv /\ [Next]_vars => [QueueView!Next]_QueueView!vars
  BY NextSeen
<1> QED
  BY <1>1, <1>2, Invariance, PTL DEF Spec, ImplementsQueue, QueueView!Spec

-----------------------------------------------------------------------------
\* What the clients of the cache can rely on.

\* What a step leaves of the elements outside H: nobody gets a value but from a
\* future, pointers only fade, and elements become neither young nor futures.
Fading(H) ==
  \A x \in Elem \ H :
    /\ x \in Referenced' => x \in Referenced \/ x \in async
    /\ \/ ptr'[x] = ptr[x]
       \/ ptr[x] # "absent" /\ ptr'[x] \in {"nil", "absent"}
       \/ ptr[x] = "strong" /\ ptr'[x] = "weak"
    /\ x \in aged => x \in aged'
    /\ x \in async' => x \in async

\* Expiry is final.
LEMMA ExpiredStays ==
  ASSUME NEW H, Fading(H), NEW x \in Elem, x \notin H, x \in Linked'
  PROVE  x \in Linked /\ (IsExpired(x) => IsExpired(x)')
<1>1. x \in Linked
  BY DEF Fading, Linked
<1>2. ASSUME IsExpired(x) PROVE IsExpired(x)'
  <2>1. x \in aged \/ (x \notin async /\ (ptr[x] = "nil" \/ (ptr[x] = "weak" /\ x \notin Referenced)))
    BY <1>2 DEF IsExpired, Expired
  <2>2. ptr'[x] # "absent"
    BY DEF Linked
  <2>3. x \in aged' \/ (x \notin async' /\ (ptr'[x] = "nil" \/ (ptr'[x] = "weak" /\ x \notin Referenced')))
    BY <2>1, <2>2 DEF Fading
  <2> QED
    BY <2>3 DEF IsExpired, Expired
<1> QED
  BY <1>1, <1>2

\* Who holds a reference after a step.
LEMMA ReferencedNext ==
  ASSUME NEW e \in Elem
  PROVE  e \in Referenced' <=> e \in refs' \/ \E t \in Threads : cur'[t] = e /\ Carries(t)'
  BY DEF Referenced, Carries

-----------------------------------------------------------------------------
\* The maintenance lets pointers fade, except for the element it serves.
Fades(p, p2) ==
  \A x \in Elem : \/ p2[x] = p[x]
                  \/ p[x] # "absent" /\ p2[x] \in {"nil", "absent"}
                  \/ p[x] = "strong" /\ p2[x] = "weak"

\* What the queue evicts fades.
LEMMA MaintainFades ==
  ASSUME NEW e \in Elem, NEW q, NEW p, Maintain(q, p, e)
  PROVE  Fades(p, ptr')
<1> DEFINE r == Referenced \union {e}
           q1 == Cleanup(q, Erased(p, r, Linked \ {e}))
           p1 == Erase(p, Queued(q) \ Queued(q1))
           Drop2(n) == Queued(q1) \ Queued(ShrinkTo(q1, n))
           P2(n) == Weaken(p1, Drop2(n))
           Dead(n) == Erased(P2(n), r, Drop2(n) \ {e})
<1>1. PICK n \in Keep : ptr' = Erase(P2(n), Dead(n))
  BY DEF Maintain
<1> HIDE DEF q1, Dead
<1>2. \A x \in Elem : p1[x] = p[x] \/ p1[x] = "absent"
  BY DEF Erase
<1> HIDE DEF p1
<1>3. \A x \in Elem : P2(n)[x] = p1[x] \/ (p1[x] = "strong" /\ P2(n)[x] = "weak")
  BY DEF Weaken
<1> HIDE DEF P2
<1>4. \A x \in Elem : ptr'[x] = P2(n)[x] \/ ptr'[x] = "absent"
  BY <1>1 DEF Erase
<1> QED
  BY <1>2, <1>3, <1>4 DEF Fades

\* What on_hit and on_create do to the other elements.
LEMMA OthersFade ==
  ASSUME NEW e \in Elem, OnHit(e) \/ OnCreate(e), ptr \in [Elem -> {"absent", "nil", "weak", "strong"}]
  PROVE  \A x \in Elem \ {e} : \/ ptr'[x] = ptr[x]
                               \/ ptr[x] # "absent" /\ ptr'[x] \in {"nil", "absent"}
                               \/ ptr[x] = "strong" /\ ptr'[x] = "weak"
<1> DEFINE p == [ptr EXCEPT ![e] = "strong"]
<1>1. \A x \in Elem \ {e} : p[x] = ptr[x]
  OBVIOUS
<1>2. \/ UNCHANGED ptr \/ ptr' = [ptr EXCEPT ![e] = "weak"]
      \/ (\E q : Maintain(q, ptr, e)) \/ (\E r : Maintain(r, p, e))
  BY DEF OnHit, OnCreate
<1>3. CASE UNCHANGED ptr \/ ptr' = [ptr EXCEPT ![e] = "weak"]
  BY <1>3
<1> HIDE DEF p
<1>4. ASSUME NEW q, Maintain(q, ptr, e) PROVE Fades(ptr, ptr')
  BY <1>4, MaintainFades
<1>5. ASSUME NEW q, Maintain(q, p, e) PROVE Fades(p, ptr')
  BY <1>5, MaintainFades
<1> QED
  BY <1>1, <1>2, <1>3, <1>4, <1>5 DEF Fades

-----------------------------------------------------------------------------
\* Every step lets the elements fade, except the one that is hit or created.

\* A step that gives no thread a value and changes no element.
LEMMA QuietFades ==
  ASSUME IInv, UNCHANGED <<ptr, async, aged>>,
         \A x \in Elem : x \in Referenced' => x \in Referenced \/ x \in async
  PROVE  Fading({})
BY DEF Fading

\* Looking through the bucket hands nothing out.
LEMMA WalkFades ==
  ASSUME IInv, NEW t \in Threads,
         \/ Call(t) \/ Lock(t) \/ PtrNil(t) \/ Missed(t) \/ CreateFails(t) \/ StartRehash(t)
         \/ \E e \in Elem : VisitOther(t, e) \/ VisitMatch(t, e)
  PROVE  Fading({})
<1>1. Types /\ Holding
  BY DEF IInv
<1>2. UNCHANGED <<ptr, async, aged, fut, refs>>
  BY DEF Call, Lock, PtrNil, Missed, CreateFails, StartRehash, VisitOther, VisitMatch, Exit, Goto, future
<1>3. /\ pc[t] \in {"idle", "lock", "ptr", "walk", "rehash"}
      /\ \A u \in Threads : u # t => pc'[u] = pc[u] /\ cur'[u] = cur[u]
      /\ pc'[t] \in {"lock", "walk", "ptr", "idle"} \/ (pc'[t] = "sweep" /\ pc[t] = "rehash" /\ cur'[t] = cur[t])
  <2> USE <1>1 DEF Types, Goto, Exit, MustCreate, Visits
  <2>1. CASE Call(t) BY <2>1 DEF Call
  <2>2. CASE Lock(t) BY <2>2 DEF Lock
  <2>3. CASE PtrNil(t) BY <2>3 DEF PtrNil
  <2>4. CASE Missed(t) BY <2>4 DEF Missed
  <2>5. CASE CreateFails(t) BY <2>5 DEF CreateFails
  <2>6. CASE StartRehash(t) BY <2>6 DEF StartRehash
  <2>7. ASSUME NEW e \in Elem, VisitOther(t, e)
        PROVE /\ pc[t] = "walk" /\ pc' = pc /\ cur' = cur
    BY <2>7 DEF VisitOther
  <2>8. ASSUME NEW e \in Elem, VisitMatch(t, e)
        PROVE /\ pc[t] = "walk" /\ pc'[t] = "ptr"
              /\ \A u \in Threads : u # t => pc'[u] = pc[u] /\ cur'[u] = cur[u]
    BY <2>8 DEF VisitMatch
  <2> QED BY <2>1, <2>2, <2>3, <2>4, <2>5, <2>6, <2>7, <2>8
<1>4. \A u \in Threads : Carries(u)' => Carries(u) /\ cur'[u] = cur[u]
  BY <1>2, <1>3 DEF Carries
<1>5. \A x \in Elem : x \in Referenced' => x \in Referenced
  BY <1>2, <1>4, ReferencedIs, ReferencedNext
<1> QED
  BY <1>2, <1>5, QuietFades

\* Nor does deleting what has expired.
LEMMA EraseFades ==
  ASSUME IInv, NEW t \in Threads, NEW e \in Elem, VisitStale(t, e) \/ Sweep(t, e)
  PROVE  Fading({})
<1>1. UNCHANGED <<pc, cur, fut, refs, async, aged>>
  BY DEF VisitStale, Sweep, future
<1>2. \A x \in Elem : ptr'[x] = ptr[x] \/ ptr'[x] = "absent"
  BY DEF VisitStale, Sweep, Delete, IInv, Agree
<1>3. \A x \in Elem : x \in Referenced' => x \in Referenced
  BY <1>1, ReferencedIs, ReferencedNext DEF Carries
<1> QED
  BY <1>1, <1>2, <1>3 DEF Fading

\* A call that ends takes nothing along but what the thread carried.
LEMMA ExitFades ==
  ASSUME IInv, NEW t \in Threads, Exit(t), UNCHANGED fut,
         \A x \in refs' : x \in refs \/ (x = cur[t] /\ Carries(t))
  PROVE  \A x \in Elem : x \in Referenced' => x \in Referenced
<1>1. Types
  BY DEF IInv
<1>2. /\ \A u \in Threads : u # t => pc'[u] = pc[u] /\ cur'[u] = cur[u]
      /\ pc'[t] = "idle"
  BY <1>1 DEF Exit, Goto, Types
<1>3. \A u \in Threads : Carries(u)' => Carries(u) /\ cur'[u] = cur[u]
  BY <1>2 DEF Carries
<1> QED
  BY <1>3, ReferencedIs, ReferencedNext

\* Expiring an element lets it fade.
LEMMA ExpireFades ==
  ASSUME IInv, NEW t \in Threads, NEW e \in Elem, ExpireMatch(t, e)
  PROVE  Fading({})
<1>1. UNCHANGED <<fut, refs, async, aged>> /\ Exit(t)
  BY DEF ExpireMatch
<1>2. ptr \in [Elem -> {"absent", "nil", "weak", "strong"}]
  BY DEF IInv, Agree
<1>3. e \in pinned => ptr[e] # "absent"
  BY DEF IInv, Pinning, Linked
<1>4. \A x \in Elem : ptr'[x] = ptr[x] \/ ptr'[x] = "absent" \/ (ptr[x] # "absent" /\ ptr'[x] = "nil")
  BY <1>2, <1>3 DEF ExpireMatch, Delete
<1>5. \A x \in Elem : x \in Referenced' => x \in Referenced
  BY <1>1, ExitFades
<1> QED
  BY <1>1, <1>4, <1>5 DEF Fading

\* A joined value was carried.
LEMMA JoinFades ==
  ASSUME IInv, NEW t \in Threads, Join(t)
  PROVE  Fading({})
<1>1. UNCHANGED <<ptr, async, aged, fut>>
  BY DEF Join, future
<1>2. \A x \in refs' : x \in refs \/ (x = cur[t] /\ Carries(t))
  BY DEF Join, Carries
<1>3. CASE Exit(t)
  BY <1>1, <1>2, <1>3, ExitFades, QuietFades
<1>4. CASE Goto(t, "terminated") /\ UNCHANGED cur
  <2>1. \A u \in Threads : Carries(u)' => Carries(u) /\ cur'[u] = cur[u]
    BY <1>1, <1>4 DEF Carries, Goto, IInv, Types
  <2>2. \A x \in Elem : x \in Referenced' => x \in Referenced
    BY <1>2, <2>1, ReferencedIs, ReferencedNext
  <2> QED
    BY <1>1, <2>2, QuietFades
<1> QED
  BY <1>3, <1>4 DEF Join

\* A creator leaves with what it carried.
LEMMA LeaveFades ==
  ASSUME IInv, NEW t \in Threads, Unwind(t) \/ Return(t)
  PROVE  Fading({})
<1>1. UNCHANGED <<ptr, async, aged, fut>> /\ Exit(t)
  BY DEF Unwind, Return, Leave, future
<1>2. \A x \in refs' : x \in refs \/ (x = cur[t] /\ Carries(t))
  BY DEF Unwind, Return, Carries
<1> QED
  BY <1>1, <1>2, ExitFades, QuietFades

\* A value that is computed is that of a future.
LEMMA SettleFades ==
  ASSUME IInv, NEW e \in Elem, Settle(e)
  PROVE  Fading({})
<1>1. UNCHANGED <<pc, cur, ptr, async, aged, refs>> /\ e \in async
  BY DEF Settle, control, IInv, Pinning
<1>2. \A x \in Elem : x # e => fut'[x] = fut[x]
  BY DEF Settle, IInv, Types
<1>3. \A u \in Threads : Carries(u)' => Carries(u) \/ cur[u] = e
  BY <1>1, <1>2 DEF Carries, IInv, Holding, Creating
<1>4. \A x \in Elem : x \in Referenced' => x \in Referenced \/ x \in async
  BY <1>1, <1>3, ReferencedIs, ReferencedNext
<1> QED
  BY <1>1, <1>4, QuietFades

\* Clients drop references, and elements age.
LEMMA EnvironmentFades ==
  ASSUME IInv, NEW e \in Elem, Drop(e) \/ Age(e)
  PROVE  Fading({})
<1>1. UNCHANGED <<pc, cur, fut, ptr, async>> /\ refs' \subseteq refs /\ aged \subseteq aged'
  BY DEF Drop, Age, control, future
<1>2. \A x \in Elem : x \in Referenced' => x \in Referenced
  BY <1>1, ReferencedIs, ReferencedNext DEF Carries
<1> QED
  BY <1>1, <1>2 DEF Fading

\* The creator carries the value it resolves.
LEMMA ResolveFades ==
  ASSUME IInv, NEW t \in Threads, Resolve(t)
  PROVE  Fading({})
<1>1. /\ UNCHANGED <<cur, fut, aged, refs>> /\ async' \subseteq async
      /\ pc[t] = "wait" /\ fut[cur[t]] # "pending" /\ cur[t] \in Elem /\ cur[t] \in async
  BY DEF Resolve, IInv, Holding, Pinning, Creating
<1>2. ptr[cur[t]] # "absent"
  BY <1>1 DEF IInv, Pinning, Live
<1>3. \A x \in Elem : ptr'[x] = ptr[x] \/ (ptr[x] # "absent" /\ ptr'[x] = "nil")
  BY <1>1, <1>2 DEF Resolve, IInv, Agree
<1>4. fut[cur[t]] \in {"value", "throw"}
  BY <1>1 DEF IInv, Types
<1>5. \A u \in Threads : Carries(u)' => Carries(u)
  BY <1>1, <1>4 DEF Resolve, Goto, Carries, IInv, Types
<1>6. \A x \in Elem : x \in Referenced' => x \in Referenced
  BY <1>1, <1>5, ReferencedIs, ReferencedNext
<1> QED
  BY <1>1, <1>3, <1>6 DEF Fading

\* Only the element that is hit gets a reference.
LEMMA FoundFades ==
  ASSUME IInv, NEW t \in Threads, Found(t)
  PROVE  Fading({cur[t]})
<1> DEFINE e == cur[t]
<1>1. /\ UNCHANGED <<async, fut, aged>>
      /\ pc[t] = "ptr" /\ e \in Elem
      /\ OnHit(e) \/ ptr' = ptr
  BY DEF Found, future, IInv, Holding
<1>2. ptr \in [Elem -> {"absent", "nil", "weak", "strong"}] /\ Types
  BY DEF IInv, Agree
<1>3. \A x \in Elem \ {e} : \/ ptr'[x] = ptr[x]
                            \/ ptr[x] # "absent" /\ ptr'[x] \in {"nil", "absent"}
                            \/ ptr[x] = "strong" /\ ptr'[x] = "weak"
  BY <1>1, <1>2, OthersFade
<1>4. /\ \A u \in Threads : u # t => pc'[u] = pc[u] /\ cur'[u] = cur[u]
      /\ pc'[t] = "idle" \/ (pc'[t] = "join" /\ cur'[t] = e)
      /\ refs' \subseteq refs \union {e}
  BY <1>1, <1>2 DEF Found, Exit, Goto, Unlock, Types
<1>5. \A u \in Threads : Carries(u)' => (Carries(u) /\ cur'[u] = cur[u]) \/ cur'[u] = e
  BY <1>1, <1>4 DEF Carries
<1>6. \A x \in Elem \ {e} : x \in Referenced' => x \in Referenced
  BY <1>4, <1>5, ReferencedIs, ReferencedNext
<1> QED
  BY <1>1, <1>3, <1>6 DEF Fading

\* Only the element that is created.
LEMMA CreateFades ==
  ASSUME IInv, NEW t \in Threads, NEW e \in Elem, CreateSync(t, e) \/ CreateAsync(t, e)
  PROVE  Fading({e})
<1>1. /\ UNCHANGED refs /\ OnCreate(e) /\ cur' = [cur EXCEPT ![t] = e]
      /\ aged' \in {aged \union {e}, aged \ {e}}
      /\ async' \in {async, async \union {e}} /\ fut' \in {fut, [fut EXCEPT ![e] = "pending"]}
  BY DEF CreateSync, CreateAsync, Insert
<1>2. ptr \in [Elem -> {"absent", "nil", "weak", "strong"}] /\ Types
  BY DEF IInv, Agree
<1>3. \A x \in Elem \ {e} : \/ ptr'[x] = ptr[x]
                            \/ ptr[x] # "absent" /\ ptr'[x] \in {"nil", "absent"}
                            \/ ptr[x] = "strong" /\ ptr'[x] = "weak"
  BY <1>1, <1>2, OthersFade
<1>4. /\ \A u \in Threads : u # t => pc'[u] = pc[u] /\ cur'[u] = cur[u]
      /\ cur'[t] = e
  BY <1>1, <1>2 DEF CreateSync, CreateAsync, Goto, Types
<1>5. \A x \in Elem \ {e} : fut'[x] = fut[x]
  BY <1>1, <1>2 DEF Types
<1>6. \A x \in Elem \ {e} : x \in Referenced' => x \in Referenced
  <2> SUFFICES ASSUME NEW x \in Elem \ {e}, NEW u \in Threads, cur'[u] = x, Carries(u)'
               PROVE  cur[u] = x /\ Carries(u)
    BY <1>1, ReferencedIs, ReferencedNext
  <2> QED
    BY <1>4, <1>5 DEF Carries
<1> QED
  BY <1>1, <1>3, <1>6 DEF Fading

-----------------------------------------------------------------------------
\* A walk has left behind only other keys and what is expired.
Passed(t, x) == x \in todo[t] \/ IsExpired(x) \/ (pc[t] = "ptr" /\ x = cur[t])
Walks(t) == pc[t] \in {"walk", "ptr"}
Searched ==
  \A t \in Threads : Walks(t) => \A x \in Linked : KeyOf[x] = arg[t] => Passed(t, x)

\* Linked' under the steps that create nothing.
LEMMA FadingLinks ==
  ASSUME NEW H, Fading(H), \A x \in Elem : x \in H => x \in Linked
  PROVE  Linked' \subseteq Linked
<1> SUFFICES ASSUME NEW x \in Linked', x \notin H PROVE x \in Linked
  BY DEF Linked
<1> QED
  BY ExpiredStays DEF Linked

\* A thread in its walk is the only one that holds the lock.
LEMMA WalkerAlone ==
  ASSUME IInv, NEW t \in Threads, NEW u \in Threads, pc[t] \in Locked, pc[u] \in Locked
  PROVE  t = u
BY DEF IInv, Locking, Types

\* The walk keeps what it knows, whatever the others do.
LEMMA SearchedNext ==
  ASSUME IInv, Searched, [Next]_vars
  PROVE  Searched'
<1> SUFFICES ASSUME NEW t \in Threads, Walks(t)'
             PROVE  \A x \in Linked' : KeyOf[x] = arg'[t] => Passed(t, x)'
  BY DEF Searched
<1>0. Types
  BY DEF IInv
<1> DEFINE Goal == \A x \in Linked' : KeyOf[x] = arg'[t] => Passed(t, x)'
           Still == /\ op'[t] = op[t] /\ arg'[t] = arg[t] /\ todo'[t] = todo[t]
                    /\ pc'[t] = pc[t] /\ cur'[t] = cur[t]
<1>1. ASSUME NEW H, Fading(H), Still, \A x \in Elem : x \in H => x \in Linked /\ KeyOf[x] # arg[t]
      PROVE  Goal
  <2>1. Linked' \subseteq Linked
    BY <1>1, FadingLinks
  <2> SUFFICES ASSUME NEW x \in Linked', KeyOf[x] = arg[t]
               PROVE  Passed(t, x)'
    BY <1>1
  <2>2. x \in Elem /\ x \in Linked /\ x \notin H /\ Walks(t)
    BY <1>1, <2>1 DEF Linked, Walks
  <2>3. Passed(t, x)
    BY <2>2 DEF Searched
  <2>4. IsExpired(x) => IsExpired(x)'
    BY <1>1, <2>2, ExpiredStays
  <2> QED
    BY <1>1, <2>3, <2>4 DEF Passed
<1>2. ASSUME NEW u \in Threads, u # t, Step(u) PROVE Goal
  <2> USE <1>0, <1>2 DEF Types, Step, LockedStep, Goto, Exit, Unlock
  <2>1. CASE Call(u) \/ Lock(u) \/ Join(u) \/ Resolve(u)
    <3>1. Still
      BY <2>1 DEF Call, Lock, Join, Resolve
    <3> QED BY <1>1, <2>1, <3>1, WalkFades, JoinFades, ResolveFades
  <2>2. CASE LockedStep(u)
    <3>1. pc[u] \in Locked
      BY <2>2 DEF Locked, PtrNil, Found, Missed, CreateFails, Unwind, StartRehash, Return, VisitStale,
                  VisitOther, VisitMatch, ExpireMatch, CreateSync, CreateAsync, Sweep, MustCreate, Visits
    <3>2. pc'[t] = pc[t]
      BY <2>2 DEF PtrNil, Found, Missed, CreateFails, Unwind, StartRehash, Return, Leave, VisitStale,
                  VisitOther, VisitMatch, ExpireMatch, CreateSync, CreateAsync, Sweep
    <3> QED BY <1>2, <3>1, <3>2, WalkerAlone DEF Walks, Locked
  <2> QED BY <2>1, <2>2
<1>3. ASSUME Step(t) PROVE Goal
  <2> USE <1>0 DEF Types, Goto, Exit, Unlock
  <2>1. pc'[t] \in {"walk", "ptr"}
    BY DEF Walks
  <2>2. \/ Lock(t) \/ PtrNil(t)
        \/ \E e \in Elem : VisitStale(t, e) \/ VisitOther(t, e) \/ VisitMatch(t, e)
    <3>1. ~Call(t) /\ ~Join(t) /\ ~Resolve(t)
      BY <2>1 DEF Call, Join, Resolve
    <3>2. ~Found(t) /\ ~Missed(t) /\ ~CreateFails(t) /\ ~Unwind(t) /\ ~StartRehash(t) /\ ~Return(t)
      BY <2>1 DEF Found, Missed, CreateFails, Unwind, StartRehash, Return, Leave
    <3>3. ASSUME NEW e \in Elem
          PROVE ~ExpireMatch(t, e) /\ ~CreateSync(t, e) /\ ~CreateAsync(t, e) /\ ~Sweep(t, e)
      BY <2>1 DEF ExpireMatch, CreateSync, CreateAsync, Sweep
    <3> QED BY <1>3, <3>1, <3>2, <3>3 DEF Step, LockedStep
  <2>3. UNCHANGED arg /\ Fading({})
    BY <2>2, WalkFades, EraseFades DEF Lock, PtrNil, VisitStale, VisitOther, VisitMatch
  <2>4. Linked' \subseteq Linked
    BY <2>3, FadingLinks
  <2> SUFFICES ASSUME NEW x \in Linked', KeyOf[x] = arg[t]
               PROVE  Passed(t, x)'
    BY <2>3
  <2>5. x \in Elem /\ x \in Linked /\ (IsExpired(x) => IsExpired(x)')
    BY <2>3, <2>4, ExpiredStays DEF Linked
  <2>6. CASE Lock(t)
    BY <2>5, <2>6 DEF Lock, Bucket, Passed
  <2>7. CASE PtrNil(t)
    <3>1. Walks(t) /\ IsExpired(cur[t])
      BY <2>1, <2>7 DEF PtrNil, Walks
    <3>2. Passed(t, x)
      BY <2>5, <3>1 DEF Searched
    <3> QED
      BY <2>5, <2>7, <3>1, <3>2 DEF PtrNil, Passed
  <2>8. ASSUME NEW e \in Elem, VisitStale(t, e) \/ VisitOther(t, e) \/ VisitMatch(t, e)
        PROVE  Passed(t, x)'
    <3>1. Walks(t) /\ pc[t] = "walk" /\ todo'[t] = todo[t] \ {e}
      BY <2>1, <2>8 DEF VisitStale, VisitOther, VisitMatch, Visits, Walks
    <3>2. Passed(t, x) /\ (x \in todo[t] \/ IsExpired(x))
      BY <2>5, <3>1 DEF Searched, Passed
    <3>3. CASE x # e \/ IsExpired(x)
      BY <2>5, <3>1, <3>2, <3>3 DEF Passed
    <3>4. CASE x = e /\ ~IsExpired(x)
      <4>1. Matches(t, e)
        BY <3>4 DEF Matches, Stale
      <4>2. pc'[t] = "ptr" /\ cur'[t] = e
        BY <2>8, <4>1 DEF VisitStale, VisitOther, VisitMatch, Matches
      <4> QED BY <3>4, <4>2 DEF Passed
    <3> QED BY <3>3, <3>4
  <2> QED BY <2>2, <2>6, <2>7, <2>8
<1>4. ASSUME NEW e \in Elem, Settle(e) \/ Drop(e) \/ Age(e) PROVE Goal
  <2>1. Still
    BY <1>4 DEF Settle, Drop, Age, control
  <2> QED
    BY <1>1, <1>4, <2>1, SettleFades, EnvironmentFades
<1>5. CASE UNCHANGED vars
  <2>1. Still /\ UNCHANGED <<pc, cur, fut, refs, ptr, async, aged>>
    BY <1>5 DEF vars, control, future
  <2>2. Fading({})
    BY <2>1, QuietFades, ReferencedIs, ReferencedNext DEF Carries
  <2> QED
    BY <1>1, <2>1, <2>2
<1> QED
  BY <1>2, <1>3, <1>4, <1>5 DEF Next

-----------------------------------------------------------------------------
\* A key has one element that can be hit: all others of the key have expired
\* when a new one is created, for good.
LEMMA UniqueByFading ==
  ASSUME UniqueLive, NEW H, Fading(H), \A x \in Elem : x \in H => x \in Linked /\ ~IsExpired(x)
  PROVE  UniqueLive'
<1> SUFFICES ASSUME NEW e \in Linked', NEW f \in Linked', KeyOf[e] = KeyOf[f],
                    ~IsExpired(e)', ~IsExpired(f)'
             PROVE  e = f
  BY DEF UniqueLive
<1>1. \A x \in Linked' : ~IsExpired(x)' => x \in Linked /\ ~IsExpired(x)
  BY ExpiredStays DEF Linked
<1> QED
  BY <1>1 DEF UniqueLive

\* No step gives a key a second element that can be hit.
LEMMA UniqueNext ==
  ASSUME IInv, Searched, UniqueLive, [Next]_vars
  PROVE  UniqueLive'
<1>1. ASSUME NEW t \in Threads, Step(t) PROVE UniqueLive'
  <2>1. CASE Found(t)
    <3>1. Fading({cur[t]}) /\ cur[t] \in Linked /\ ~IsExpired(cur[t])
      BY <2>1, FoundFades DEF Found, IInv, Locking
    <3> QED BY <3>1, UniqueByFading
  <2>2. ASSUME NEW e \in Elem, CreateSync(t, e) \/ CreateAsync(t, e) PROVE UniqueLive'
    <3>1. Fading({e})
      BY <2>2, CreateFades
    <3>2. pc[t] = "walk" /\ op[t] = "get" /\ todo[t] = {} /\ KeyOf[e] = arg[t]
      BY <2>2 DEF CreateSync, CreateAsync, MustCreate, Insert
    <3>3. \A x \in Linked : KeyOf[x] = KeyOf[e] => IsExpired(x)
      BY <3>2 DEF Searched, Walks, Passed
    <3>4. \A x \in Linked' : x # e => x \in Linked /\ (IsExpired(x) => IsExpired(x)')
      BY <3>1, ExpiredStays DEF Linked
    <3>5. \A x \in Linked' : x # e /\ KeyOf[x] = KeyOf[e] => IsExpired(x)'
      BY <3>3, <3>4
    <3> SUFFICES ASSUME NEW x \in Linked', NEW y \in Linked', KeyOf[x] = KeyOf[y],
                        ~IsExpired(x)', ~IsExpired(y)'
                 PROVE  x = y
      BY DEF UniqueLive
    <3>6. CASE x # e /\ y # e
      BY <3>4, <3>6 DEF UniqueLive
    <3>7. CASE x = e \/ y = e
      BY <3>5, <3>7
    <3> QED BY <3>6, <3>7
  <2>3. CASE \/ Call(t) \/ Lock(t) \/ PtrNil(t) \/ Missed(t) \/ CreateFails(t) \/ StartRehash(t)
             \/ \E e \in Elem : VisitOther(t, e) \/ VisitMatch(t, e)
    BY <2>3, WalkFades, UniqueByFading
  <2>4. ASSUME NEW e \in Elem, VisitStale(t, e) \/ Sweep(t, e) \/ ExpireMatch(t, e) PROVE UniqueLive'
    BY <2>4, EraseFades, ExpireFades, UniqueByFading
  <2>5. CASE Join(t) \/ Resolve(t) \/ Unwind(t) \/ Return(t)
    BY <2>5, JoinFades, ResolveFades, LeaveFades, UniqueByFading
  <2> QED
    BY <1>1, <2>1, <2>2, <2>3, <2>4, <2>5 DEF Step, LockedStep
<1>2. ASSUME NEW e \in Elem, Settle(e) \/ Drop(e) \/ Age(e) PROVE UniqueLive'
  BY <1>2, SettleFades, EnvironmentFades, UniqueByFading
<1>3. CASE UNCHANGED vars
  <2>1. UNCHANGED <<pc, cur, fut, refs, ptr, async, aged>>
    BY <1>3 DEF vars, control, future
  <2>2. Fading({})
    BY <2>1, QuietFades, ReferencedIs, ReferencedNext DEF Carries
  <2> QED
    BY <2>2, UniqueByFading
<1> QED
  BY <1>1, <1>2, <1>3 DEF Next

-----------------------------------------------------------------------------
\* expire() takes effect: the element is nil, or its creator makes it so.
Void(e) == ptr[e] = "nil" \/ (e \in async /\ e \in doomed)

\* A step that expires nothing and resolves nothing.
LEMMA EffectByFading ==
  ASSUME IInv, ExpireTakesEffect, NEW H, Fading(H),
         \A x \in voided' : x \in voided /\ (x \in H => x \in async /\ x \in doomed),
         \A x \in voided' : x \in async /\ x \in doomed => x \in async' /\ x \in doomed'
  PROVE  ExpireTakesEffect'
<1> SUFFICES ASSUME NEW x \in voided', x \in Linked' PROVE Void(x)'
  BY DEF ExpireTakesEffect, Void
<1>1. x \in Elem /\ ptr'[x] # "absent" /\ x \in voided
  BY DEF Linked
<1>2. CASE x \in H
  BY <1>1, <1>2 DEF Void
<1>3. CASE x \notin H
  <2>1. x \in Linked
    BY <1>1, <1>3, ExpiredStays
  <2>2. Void(x)
    BY <1>1, <2>1 DEF ExpireTakesEffect, Void
  <2>3. ptr[x] = "nil" => ptr'[x] = "nil"
    BY <1>1, <1>3 DEF Fading
  <2> QED
    BY <1>1, <2>2, <2>3 DEF Void
<1> QED
  BY <1>2, <1>3

\* No step revives an element that was expired.
LEMMA EffectNext ==
  ASSUME IInv, ExpireTakesEffect, [Next]_vars
  PROVE  ExpireTakesEffect'
<1>1. ASSUME Fading({}), UNCHANGED <<voided, async, doomed>> PROVE ExpireTakesEffect'
  BY <1>1, EffectByFading
<1>2. ASSUME NEW t \in Threads, Step(t) PROVE ExpireTakesEffect'
  <2>1. CASE Found(t)
    <3> DEFINE e == cur[t]
    <3>1. /\ Fading({e}) /\ UNCHANGED <<voided, async, doomed>>
          /\ e \in Elem /\ e \in Linked /\ ~IsExpired(e)
      BY <2>1, FoundFades DEF Found, IInv, Locking, Linked, future
    <3>2. e \in voided => e \in async /\ e \in doomed
      BY <3>1 DEF ExpireTakesEffect, IsExpired, Expired, IInv, Pinning, Live
    <3> QED BY <3>1, <3>2, EffectByFading
  <2>2. ASSUME NEW e \in Elem, CreateSync(t, e) \/ CreateAsync(t, e) PROVE ExpireTakesEffect'
    <3>1. /\ Fading({e}) /\ voided' = voided \ {e} /\ doomed' = doomed \ {e}
          /\ async \subseteq async'
      BY <2>2, CreateFades DEF CreateSync, CreateAsync, Insert
    <3> QED BY <3>1, EffectByFading
  <2>3. CASE \/ Call(t) \/ Lock(t) \/ PtrNil(t) \/ Missed(t) \/ CreateFails(t) \/ StartRehash(t)
             \/ \E e \in Elem : VisitOther(t, e) \/ VisitMatch(t, e)
    <3>1. UNCHANGED <<voided, async, doomed>>
      BY <2>3 DEF Call, Lock, PtrNil, Missed, CreateFails, StartRehash, VisitOther, VisitMatch, future
    <3> QED BY <1>1, <2>3, <3>1, WalkFades
  <2>4. ASSUME NEW e \in Elem, VisitStale(t, e) \/ Sweep(t, e) PROVE ExpireTakesEffect'
    BY <1>1, <2>4, EraseFades DEF VisitStale, Sweep, future
  <2>5. ASSUME NEW e \in Elem, ExpireMatch(t, e) PROVE ExpireTakesEffect'
    <3>1. /\ Fading({}) /\ voided' = voided \union {e} /\ UNCHANGED async
          /\ doomed' = IF e \in async THEN doomed \union {e} ELSE doomed
      BY <2>5, ExpireFades DEF ExpireMatch
    <3>2. ptr \in [Elem -> {"absent", "nil", "weak", "strong"}] /\ async \subseteq pinned
      BY IInvFacts DEF Agree
    <3>3. e \in async \/ ptr'[e] \in {"absent", "nil"}
      BY <2>5, <3>2 DEF ExpireMatch, Delete
    <3> SUFFICES ASSUME NEW x \in voided', x \in Linked' PROVE Void(x)'
      BY DEF ExpireTakesEffect, Void
    <3>4. CASE x = e
      BY <3>1, <3>3, <3>4 DEF Void, Linked
    <3>5. CASE x # e
      <4>1. x \in Linked /\ x \in voided /\ x \in Elem /\ ptr'[x] # "absent"
        BY <3>1, <3>5, ExpiredStays DEF Linked
      <4>2. Void(x) /\ (ptr[x] = "nil" => ptr'[x] = "nil")
        BY <3>1, <4>1 DEF ExpireTakesEffect, Void, Fading
      <4> QED BY <3>1, <4>2 DEF Void
    <3> QED BY <3>4, <3>5
  <2>6. CASE Join(t)
    BY <1>1, <2>6, JoinFades DEF Join, future
  <2>7. CASE Unwind(t) \/ Return(t)
    BY <1>1, <2>7, LeaveFades DEF Unwind, Return, future
  <2>8. CASE Resolve(t)
    <3> DEFINE e == cur[t]
    <3>1. Fading({}) /\ UNCHANGED <<voided, doomed>> /\ async' = async \ {e}
      BY <2>8, ResolveFades DEF Resolve
    <3>2. ptr \in [Elem -> {"absent", "nil", "weak", "strong"}]
      BY IInvFacts DEF Agree
    <3>3. e \in Elem /\ e \in doomed => ptr'[e] = "nil"
      BY <2>8, <3>2 DEF Resolve
    <3> SUFFICES ASSUME NEW x \in voided', x \in Linked' PROVE Void(x)'
      BY DEF ExpireTakesEffect, Void
    <3>4. x \in Linked /\ x \in voided /\ x \in Elem /\ ptr'[x] # "absent"
      BY <3>1, ExpiredStays DEF Linked
    <3>5. Void(x) /\ (ptr[x] = "nil" => ptr'[x] = "nil")
      BY <3>1, <3>4 DEF ExpireTakesEffect, Void, Fading
    <3> QED BY <3>1, <3>3, <3>4, <3>5 DEF Void
  <2> QED
    BY <1>2, <2>1, <2>2, <2>3, <2>4, <2>5, <2>6, <2>7, <2>8 DEF Step, LockedStep
<1>3. ASSUME NEW e \in Elem, Settle(e) \/ Drop(e) \/ Age(e) PROVE ExpireTakesEffect'
  BY <1>1, <1>3, SettleFades, EnvironmentFades DEF Settle, Drop, Age, future
<1>4. CASE UNCHANGED vars
  <2>1. UNCHANGED <<pc, cur, fut, refs, ptr, async, aged, voided, doomed>>
    BY <1>4 DEF vars, control, future
  <2>2. Fading({})
    BY <2>1, QuietFades, ReferencedIs, ReferencedNext DEF Carries
  <2> QED
    BY <1>1, <2>1, <2>2
<1> QED
  BY <1>2, <1>3, <1>4 DEF Next

\* All of this holds of an empty cache.
LEMMA InitMore == Init => Searched /\ UniqueLive /\ ExpireTakesEffect
BY DEF Init, Searched, Walks, UniqueLive, ExpireTakesEffect, Linked

-----------------------------------------------------------------------------
\* The theorems.

\* A key never has two elements that can be hit, with any number of threads,
\* whatever is dropped, expires, is evicted or resolved while they walk.
THEOREM KeysAreUnique == Spec => []UniqueLive
<1>1. IInv /\ Searched /\ [Next]_vars => Searched'
  BY SearchedNext
<1>2. IInv /\ Searched /\ UniqueLive /\ [Next]_vars => UniqueLive'
  BY UniqueNext
<1> QED
  BY <1>1, <1>2, InitMore, Invariance, PTL DEF Spec

\* An element for which expire() returned true is nil, or will be when its
\* creator resolves it.
THEOREM ExpiryTakesEffect == Spec => []ExpireTakesEffect
<1>1. IInv /\ ExpireTakesEffect /\ [Next]_vars => ExpireTakesEffect'
  BY EffectNext
<1> QED
  BY <1>1, InitMore, Invariance, PTL DEF Spec

\* In a synchronous cache no lookup finds an element that expire() has voided:
\* there are no futures.
THEOREM ExpiredIsNotFound ==
  ASSUME ~Async PROVE Spec => ExpiredNotServed
<1> DEFINE Futureless == async = {}
           Clean == \A t \in Threads : Found(t) => cur[t] \notin voided
<1>1. Init => Futureless
  BY DEF Init
<1>2. ASSUME Futureless, [Next]_vars PROVE Futureless'
  BY <1>2 DEF Next, Step, LockedStep, Call, Lock, PtrNil, Found, Missed, CreateFails, Unwind, StartRehash,
      Return, VisitStale, VisitOther, VisitMatch, ExpireMatch, CreateSync, CreateAsync, Sweep, Join, Resolve,
      Settle, Drop, Age, vars, future
<1>3. ASSUME Futureless, IInv, ExpireTakesEffect, NEW t \in Threads, Found(t)
      PROVE  cur[t] \notin voided
  <2>1. cur[t] \in Linked /\ ~IsExpired(cur[t]) /\ async = {}
    BY <1>3 DEF Found, IInv, Locking
  <2> QED
    BY <1>3, <2>1 DEF ExpireTakesEffect, IsExpired, Expired
<1>4. Futureless /\ IInv /\ ExpireTakesEffect => Clean
  BY <1>3
<1>7. ExpiredNotServed <=> [][Clean]_vars
  BY DEF ExpiredNotServed
<1> HIDE DEF Futureless, Clean
<1>5. Futureless /\ [Next]_vars => Futureless'
  BY <1>2
<1>6. Spec => []Futureless
  BY <1>1, <1>5, PTL DEF Spec
<1> QED
  BY <1>4, <1>6, <1>7, Invariance, ExpiryTakesEffect, PTL

-----------------------------------------------------------------------------
\* The cache seen by its clients (KeepsContract).
\*
\* Two things end a thread other than by a return: a synchronous creation that
\* outlasts max_age, and an exception that meets a get_if_present.
Sound == /\ Async \/ ~MaxAge
         /\ ~(Async /\ "throw" \in Outcomes /\ "peek" \in Ops)

\* What a thread is at, and what it has in hand.
Engaged(t) ==
  /\ pc[t] \in {"idle", "lock", "walk"} => cur[t] = None
  /\ pc[t] \in {"lock", "walk", "ptr", "join"} => op[t] \in Ops /\ arg[t] \in Keys
  /\ pc[t] = "ptr" => op[t] # "expire" /\ KeyOf[cur[t]] = arg[t]
  /\ pc[t] \in {"wait", "join"} => Async
  /\ pc[t] \notin {"failed", "terminated"}

\* A thread whose creation has failed has nothing in hand: the element that it
\* waits for, or has to let go, will never be found again.
Defeated(t) == pc[t] = "unwind" \/ (pc[t] = "join" /\ fut[cur[t]] = "throw" /\ cur[t] \notin async)

Hands ==
  /\ \A t \in Threads : Engaged(t)
  /\ \A t \in Threads : Defeated(t) => ptr[cur[t]] \in {"nil", "absent"}
  /\ \A e \in Elem : fut[e] = "throw" => "throw" \in Outcomes

\* Nobody has anything in hand at first.
LEMMA InitHands == Init => Hands
BY DEF Init, Hands, Engaged, Defeated

\* An action of thread t does not engage the others.
LEMMA OthersEngaged ==
  ASSUME Types, NEW t \in Threads, Step(t), NEW u \in Threads \ {t}
  PROVE  pc'[u] = pc[u] /\ op'[u] = op[u] /\ arg'[u] = arg[u] /\ cur'[u] = cur[u]
<1> USE DEF Types, Goto, Exit, Unlock
<1>1. CASE Call(t) \/ Lock(t) \/ Join(t) \/ Resolve(t)
  BY <1>1 DEF Call, Lock, Join, Resolve
<1>2. CASE LockedStep(t)
  <2>1. CASE PtrNil(t) \/ Found(t) \/ Missed(t)
    BY <2>1 DEF PtrNil, Found, Missed
  <2>2. CASE CreateFails(t) \/ Unwind(t) \/ StartRehash(t) \/ Return(t)
    BY <2>2 DEF CreateFails, Unwind, StartRehash, Return, Leave
  <2>3. ASSUME NEW e \in Elem, VisitStale(t, e) \/ VisitOther(t, e) \/ VisitMatch(t, e) \/ ExpireMatch(t, e)
        PROVE  pc'[u] = pc[u] /\ op'[u] = op[u] /\ arg'[u] = arg[u] /\ cur'[u] = cur[u]
    BY <2>3 DEF VisitStale, VisitOther, VisitMatch, ExpireMatch
  <2>4. ASSUME NEW e \in Elem, CreateSync(t, e) \/ CreateAsync(t, e) \/ Sweep(t, e)
        PROVE  pc'[u] = pc[u] /\ op'[u] = op[u] /\ arg'[u] = arg[u] /\ cur'[u] = cur[u]
    BY <2>4 DEF CreateSync, CreateAsync, Sweep, Insert
  <2> QED
    BY <1>2, <2>1, <2>2, <2>3, <2>4 DEF LockedStep
<1> QED
  BY <1>1, <1>2 DEF Step

\* Every step keeps what a thread is at in order.
LEMMA EngagedNext ==
  ASSUME IInv, Hands, Sound, [Next]_vars, NEW u \in Threads
  PROVE  Engaged(u)'
<1>1. Types /\ Pinning /\ Engaged(u)
  BY IInvFacts DEF Hands
<1>2. ASSUME pc'[u] = pc[u] /\ op'[u] = op[u] /\ arg'[u] = arg[u] /\ cur'[u] = cur[u]
      PROVE  Engaged(u)'
  BY <1>1, <1>2 DEF Engaged
<1>3. ASSUME NEW t \in Threads \ {u}, Step(t) PROVE Engaged(u)'
  BY <1>1, <1>2, <1>3, OthersEngaged
<1>4. ASSUME NEW e \in Elem, Settle(e) \/ Drop(e) \/ Age(e) PROVE Engaged(u)'
  BY <1>2, <1>4 DEF Settle, Drop, Age, control
<1>5. CASE UNCHANGED vars
  BY <1>2, <1>5 DEF vars, control
<1>6. CASE Step(u)
  <2> USE <1>1 DEF Types, Engaged, Goto, Exit, Unlock
  <2>1. CASE Call(u) \/ Lock(u)
    BY <2>1 DEF Call, Lock
  <2>2. CASE Join(u)
    <3>1. fut[cur[u]] = "throw" => "throw" \in Outcomes
      BY <2>2 DEF Hands, Join, IInv, Holding
    <3> QED
      BY <2>2, <3>1 DEF Join, Sound
  <2>3. CASE Resolve(u)
    BY <2>3 DEF Resolve
  <2>4. CASE PtrNil(u) \/ Missed(u)
    BY <2>4 DEF PtrNil, Missed
  <2>5. CASE Found(u)
    <3>1. cur[u] \in async => Async
      BY DEF Hands, Pinning
    <3> QED
      BY <2>5, <3>1 DEF Found
  <2>6. CASE CreateFails(u) \/ Unwind(u) \/ StartRehash(u) \/ Return(u)
    BY <2>6 DEF CreateFails, Unwind, StartRehash, Return, Leave
  <2>7. ASSUME NEW e \in Elem, VisitStale(u, e) \/ VisitOther(u, e) \/ VisitMatch(u, e) \/ ExpireMatch(u, e)
        PROVE  Engaged(u)'
    BY <2>7 DEF VisitStale, VisitOther, VisitMatch, ExpireMatch, Visits, Matches
  <2>8. ASSUME NEW e \in Elem, CreateSync(u, e) \/ CreateAsync(u, e)
        PROVE  Engaged(u)'
    BY <2>8, VariantAssumption DEF CreateSync, CreateAsync, Insert, Sound
  <2>9. ASSUME NEW e \in Elem, Sweep(u, e) PROVE Engaged(u)'
    BY <2>9 DEF Sweep
  <2> QED
    BY <1>6, <2>1, <2>2, <2>3, <2>4, <2>5, <2>6, <2>7, <2>8, <2>9 DEF Step, LockedStep
<1> QED
  BY <1>3, <1>4, <1>5, <1>6 DEF Next

\* Nobody brings back an element that is nil.
LEMMA DefeatedByFading ==
  ASSUME IInv, Hands, NEW H, Fading(H), UNCHANGED <<async, fut>>,
         \A t \in Threads : pc'[t] \in {"unwind", "join"} =>
            \/ pc'[t] = pc[t] /\ cur'[t] = cur[t]
            \/ pc'[t] = "join" /\ cur'[t] \in async,
         \A x \in H : ptr[x] \notin {"nil", "absent"}
  PROVE  \A t \in Threads : Defeated(t)' => ptr'[cur'[t]] \in {"nil", "absent"}
<1> SUFFICES ASSUME NEW t \in Threads, Defeated(t)' PROVE ptr'[cur'[t]] \in {"nil", "absent"}
  OBVIOUS
<1>1. Defeated(t) /\ cur'[t] = cur[t]
  BY DEF Defeated
<1>2. cur[t] \in Elem /\ ptr[cur[t]] \in {"nil", "absent"}
  BY <1>1 DEF Hands, Defeated, IInv, Holding, Creating
<1> QED
  BY <1>1, <1>2 DEF Fading

\* An element whose creation has failed stays lost to those who wait for it.
LEMMA DefeatedNext ==
  ASSUME IInv, Hands, [Next]_vars
  PROVE  \A t \in Threads : Defeated(t)' => ptr'[cur'[t]] \in {"nil", "absent"}
<1> DEFINE Lost == \A t \in Threads : Defeated(t)' => ptr'[cur'[t]] \in {"nil", "absent"}
<1>1. Types /\ Agree(queue, ptr) /\ Pinning /\ Holding /\ Locking
  BY IInvFacts
<1>2. ASSUME NEW t \in Threads, Step(t) PROVE Lost
  <2>1. \A u \in Threads \ {t} : pc'[u] = pc[u] /\ cur'[u] = cur[u]
    BY <1>1, <1>2, OthersEngaged
  <2>2. ASSUME Fading({}), UNCHANGED <<async, fut>>, pc'[t] \notin {"unwind", "join"} PROVE Lost
    BY <2>1, <2>2, DefeatedByFading
  <2> USE <1>1 DEF Types, Goto, Exit
  <2>3. CASE \/ Call(t) \/ Lock(t) \/ PtrNil(t) \/ Missed(t) \/ CreateFails(t) \/ StartRehash(t)
    BY <2>2, <2>3, WalkFades DEF Call, Lock, PtrNil, Missed, CreateFails, StartRehash, future
  <2>4. ASSUME NEW e \in Elem, VisitOther(t, e) \/ VisitMatch(t, e) PROVE Lost
    BY <2>2, <2>4, WalkFades DEF VisitOther, VisitMatch, Visits, future
  <2>5. ASSUME NEW e \in Elem, VisitStale(t, e) \/ Sweep(t, e) PROVE Lost
    BY <2>2, <2>5, EraseFades DEF VisitStale, Sweep, Visits, future
  <2>6. ASSUME NEW e \in Elem, ExpireMatch(t, e) PROVE Lost
    BY <2>2, <2>6, ExpireFades DEF ExpireMatch
  <2>7. CASE Join(t)
    BY <2>2, <2>7, JoinFades DEF Join, future
  <2>8. CASE Unwind(t) \/ Return(t)
    BY <2>2, <2>8, LeaveFades DEF Unwind, Return, Leave, future
  <2>9. CASE Found(t)
    <3>1. /\ UNCHANGED <<async, fut>> /\ ptr[cur[t]] \notin {"nil", "absent"}
          /\ pc'[t] = "idle" \/ (pc'[t] = "join" /\ cur'[t] \in async)
      BY <2>9 DEF Found, future, Locking, Linked, IsExpired, Expired, Pinning, Live
    <3> QED
      BY <2>1, <2>9, <3>1, FoundFades, DefeatedByFading
  <2>10. ASSUME NEW e \in Elem, CreateSync(t, e) \/ CreateAsync(t, e) PROVE Lost
    <3> SUFFICES ASSUME NEW u \in Threads, Defeated(u)' PROVE ptr'[cur'[u]] \in {"nil", "absent"}
      OBVIOUS
    <3>1. /\ pc'[t] \notin {"unwind", "join"} /\ \A v \in Threads : cur[v] # e
          /\ async \subseteq async' /\ \A x \in Elem \ {e} : fut'[x] = fut[x]
      BY <2>10 DEF CreateSync, CreateAsync, Insert, Free
    <3>2. u # t /\ cur[u] \in Elem /\ cur[u] # e /\ cur'[u] = cur[u] /\ pc'[u] = pc[u]
      BY <2>1, <3>1 DEF Defeated, Holding, Creating
    <3>3. Defeated(u)
      BY <3>1, <3>2 DEF Defeated
    <3>4. ptr[cur[u]] \in {"nil", "absent"}
      BY <3>3 DEF Hands
    <3> QED
      BY <2>10, <3>2, <3>4, CreateFades DEF Fading
  <2>11. CASE Resolve(t)
    <3> SUFFICES ASSUME NEW u \in Threads, Defeated(u)' PROVE ptr'[cur'[u]] \in {"nil", "absent"}
      OBVIOUS
    <3>1. /\ UNCHANGED <<cur, fut>> /\ cur[t] \in Elem /\ async' = async \ {cur[t]}
          /\ pc' = [pc EXCEPT ![t] = IF fut[cur[t]] = "throw" THEN "unwind" ELSE "rehash"]
          /\ fut[cur[t]] = "throw" => ptr'[cur[t]] = "nil"
      BY <2>11 DEF Resolve, Holding, Creating, Agree
    <3>2. CASE cur[u] = cur[t] /\ fut[cur[t]] = "throw"
      BY <3>1, <3>2
    <3>3. CASE cur[u] # cur[t] \/ fut[cur[t]] # "throw"
      <4>1. Defeated(u) \/ cur[u] = cur[t]
        BY <3>1, <3>3 DEF Defeated
      <4>2. cur[u] # cur[t]
        <5> SUFFICES ASSUME cur[u] = cur[t] PROVE FALSE
          OBVIOUS
        <5>1. fut[cur[t]] # "throw" /\ pc'[u] = "unwind"
          BY <3>1, <3>3 DEF Defeated
        <5>2. u # t /\ pc[u] = "unwind" /\ pc[t] = "wait"
          BY <2>11, <3>1, <5>1 DEF Resolve
        <5> QED
          BY <5>2 DEF Pinning, Creating
      <4>3. cur[u] \in Elem /\ ptr[cur[u]] \in {"nil", "absent"}
        BY <4>1, <4>2 DEF Hands, Defeated, Holding, Creating
      <4> QED
        BY <2>11, <3>1, <4>3, ResolveFades DEF Fading
    <3> QED
      BY <3>2, <3>3
  <2> QED
    BY <1>2, <2>3, <2>4, <2>5, <2>6, <2>7, <2>8, <2>9, <2>10, <2>11 DEF Step, LockedStep
<1>3. ASSUME NEW e \in Elem, Drop(e) \/ Age(e) PROVE Lost
  BY <1>3, EnvironmentFades, DefeatedByFading DEF Drop, Age, control, future
<1>4. ASSUME NEW e \in Elem, Settle(e) PROVE Lost
  <2>1. /\ UNCHANGED <<pc, cur, ptr, async>> /\ e \in async
        /\ \A x \in Elem \ {e} : fut'[x] = fut[x]
    BY <1>1, <1>4 DEF Settle, control, Pinning, Types
  <2>2. \A t \in Threads : Defeated(t)' => Defeated(t)
    BY <1>1, <2>1 DEF Defeated, Holding, Creating
  <2> QED
    BY <2>1, <2>2 DEF Hands
<1>5. CASE UNCHANGED vars
  BY <1>5 DEF vars, control, future, Hands, Defeated
<1> QED
  BY <1>2, <1>3, <1>4, <1>5 DEF Next

\* Every step keeps Hands.
LEMMA HandsNext ==
  ASSUME IInv, Hands, Sound, [Next]_vars
  PROVE  Hands'
<1>1. \A e \in Elem : fut'[e] = "throw" => "throw" \in Outcomes
  <2>1. Types
    BY DEF IInv
  <2>2. fut' = fut \/ \E e \in Elem, o \in Outcomes \union {"pending"} : fut' = [fut EXCEPT ![e] = o]
    BY DEF Next, Step, LockedStep, Call, Lock, PtrNil, Found, Missed, CreateFails, Unwind, StartRehash,
      Return, VisitStale, VisitOther, VisitMatch, ExpireMatch, CreateSync, CreateAsync, Sweep, Join, Resolve,
      Settle, Drop, Age, vars, future
  <2> QED
    BY <2>1, <2>2 DEF Hands, Types
<1> QED
  BY <1>1, EngagedNext, DefeatedNext DEF Hands

-----------------------------------------------------------------------------
\* What a lookup would serve.
Usable(x) == x \in Linked /\ ~IsExpired(x)
InHand(x) == x \in refs \/ \E t \in Threads : ViewHand[t] = x

\* What a lookup would serve is young, alive, and kept by the queue or held.
LEMMA UsableIs ==
  ASSUME IInv, NEW x \in Elem
  PROVE  Usable(x) <=> x \notin aged /\ Live(ptr, x) /\ (ptr[x] = "strong" \/ x \in ViewHeld)
<1>1. /\ ptr \in [Elem -> {"absent", "nil", "weak", "strong"}]
      /\ x \in async => Live(ptr, x)
  BY DEF IInv, Agree, Pinning
<1> QED
  BY <1>1 DEF Usable, Linked, IsExpired, Expired, Live, ViewHeld

\* The same, after a step.
LEMMA UsableNext ==
  ASSUME IInv', NEW x \in Elem
  PROVE  Usable(x)' <=> x \notin aged' /\ Live(ptr', x) /\ (ptr'[x] = "strong" \/ x \in ViewHeld')
<1>1. /\ ptr' \in [Elem -> {"absent", "nil", "weak", "strong"}]
      /\ x \in async' => Live(ptr', x)
  BY DEF IInv, Agree, Pinning, Live
<1> QED
  BY <1>1 DEF Usable, Linked, IsExpired, Expired, Live, ViewHeld

\* Whoever has a live value in hand holds it.
LEMMA InHandIsHeld ==
  ASSUME IInv, Hands, NEW x \in Elem, InHand(x), Live(ptr, x)
  PROVE  x \in ViewHeld
<1>1. CASE x \in refs
  BY <1>1 DEF ViewHeld, Referenced
<1>2. ASSUME NEW t \in Threads, ViewHand[t] = x PROVE x \in ViewHeld
  <2>1. pc[t] # "ptr" /\ cur[t] = x /\ x # None
    BY <1>2, ElemAssumption DEF ViewHand
  <2>2. pc[t] \in {"wait", "join", "rehash", "sweep", "unwind"}
    BY <2>1 DEF Hands, Engaged, IInv, Types, Locked, Creating
  <2>3. ~Defeated(t)
    BY <2>1 DEF Hands, Live
  <2>4. Carries(t) \/ x \in async
    BY <2>1, <2>2, <2>3 DEF Carries, Defeated, IInv, Types, Pinning
  <2> QED
    BY <2>1, <2>4 DEF ViewHeld, Referenced, Carries
<1> QED
  BY <1>1, <1>2 DEF InHand

\* The same, after a step.
LEMMA InHandIsHeldNext ==
  ASSUME IInv', Hands', NEW x \in Elem, InHand(x)', Live(ptr', x)
  PROVE  x \in ViewHeld'
<1>1. CASE x \in refs'
  BY <1>1 DEF ViewHeld, Referenced
<1>2. ASSUME NEW t \in Threads, ViewHand'[t] = x PROVE x \in ViewHeld'
  <2>1. pc'[t] # "ptr" /\ cur'[t] = x /\ x # None
    BY <1>2, ElemAssumption DEF ViewHand
  <2>2. pc'[t] \in {"wait", "join", "rehash", "sweep", "unwind"}
    BY <2>1 DEF Hands, Engaged, IInv, Types, Locked, Creating
  <2>3. ~Defeated(t)'
    BY <2>1 DEF Hands, Live
  <2>4. Carries(t)' \/ x \in async'
    BY <2>1, <2>2, <2>3 DEF Carries, Defeated, IInv, Types, Pinning
  <2> QED
    BY <2>1, <2>4 DEF ViewHeld, Referenced, Carries
<1> QED
  BY <1>1, <1>2 DEF InHand

\* The current value of a key is the one element that a lookup would serve.
LEMMA CurrentIs ==
  ASSUME UniqueLive, NEW k \in Keys
  PROVE  /\ Current[k] \in Elem \union {None}
         /\ \A x \in Elem : Current[k] = x <=> Usable(x) /\ KeyOf[x] = k
<1>1. Served(k) = {x \in Elem : Usable(x) /\ KeyOf[x] = k}
  BY DEF Served, Usable, Linked
<1>2. \A x, y \in Served(k) : x = y
  BY <1>1 DEF UniqueLive, Usable
<1>3. CASE Served(k) = {}
  BY <1>1, <1>3, ElemAssumption DEF Current
<1>4. CASE Served(k) # {}
  <2>1. Current[k] \in Served(k)
    BY <1>4 DEF Current
  <2> QED
    BY <1>1, <1>2, <2>1
<1> QED
  BY <1>3, <1>4

\* The same, after a step.
LEMMA CurrentNext ==
  ASSUME UniqueLive', NEW k \in Keys
  PROVE  /\ Current'[k] \in Elem \union {None}
         /\ \A x \in Elem : Current'[k] = x <=> Usable(x)' /\ KeyOf[x] = k
<1>1. Served(k)' = {x \in Elem : Usable(x)' /\ KeyOf[x] = k}
  BY DEF Served, Usable, Linked
<1>2. \A x, y \in Served(k)' : x = y
  BY <1>1 DEF UniqueLive, Usable
<1>3. CASE Served(k)' = {}
  BY <1>1, <1>3, ElemAssumption DEF Current
<1>4. CASE Served(k)' # {}
  <2>1. Current'[k] \in Served(k)'
    BY <1>4 DEF Current
  <2> QED
    BY <1>1, <1>2, <2>1
<1> QED
  BY <1>3, <1>4

\* The values that are current depend on what is usable.
LEMMA SameCurrent ==
  ASSUME UniqueLive, UniqueLive', \A x \in Elem : Usable(x)' <=> Usable(x)
  PROVE  Current' = Current
<1>1. \A k \in Keys : Current'[k] = Current[k]
  <2> TAKE k \in Keys
  <2>1. /\ Current[k] \in Elem \union {None} /\ Current'[k] \in Elem \union {None}
        /\ \A x \in Elem : Current[k] = x <=> Usable(x) /\ KeyOf[x] = k
        /\ \A x \in Elem : Current'[k] = x <=> Usable(x)' /\ KeyOf[x] = k
    BY CurrentIs, CurrentNext
  <2> QED
    BY <2>1
<1>2. Current = [k \in Keys |-> Current[k]] /\ Current' = [k \in Keys |-> Current'[k]]
  BY DEF Current
<1> QED
  BY <1>1, <1>2

\* The values become those of c, except for some that nobody has in hand.
LEMMA Becomes ==
  ASSUME UniqueLive', NEW c,
         \A k \in Keys : c[k] = None \/ (c[k] \in Elem /\ KeyOf[c[k]] = k),
         \A x \in Elem : Usable(x)' => c[KeyOf[x]] = x,
         \A x \in Elem : c[KeyOf[x]] = x /\ ~MaxAge /\ InHand(x)' => Usable(x)'
  PROVE  ClientView!Become(c)
<1> SUFFICES ASSUME NEW k \in Keys, Current'[k] # c[k]
             PROVE  /\ Current'[k] = None
                    /\ MaxAge \/ (c[k] \notin refs' /\ \A t \in Threads : ViewHand'[t] # c[k])
  BY DEF ClientView!Become
<1>1. /\ Current'[k] \in Elem \union {None}
      /\ \A x \in Elem : Current'[k] = x <=> Usable(x)' /\ KeyOf[x] = k
  BY CurrentNext
<1>2. Current'[k] = None
  BY <1>1
<1>3. c[k] \in Elem /\ KeyOf[c[k]] = k /\ ~Usable(c[k])'
  BY <1>1, <1>2
<1>4. MaxAge \/ ~InHand(c[k])'
  BY <1>3
<1> QED
  BY <1>2, <1>4 DEF InHand

-----------------------------------------------------------------------------
\* Every step is one of the contract, or shows the clients nothing.
Good == IInv /\ Hands /\ Searched /\ UniqueLive
ClientStep == ClientView!Next \/ UNCHANGED ClientView!vars

\* The stages, spelled out.
LEMMA Stages ==
  /\ Stage("idle") = "idle" /\ Stage("lock") = "called" /\ Stage("walk") = "called"
  /\ Stage("ptr") = "called" /\ Stage("wait") = "creating" /\ Stage("join") = "joined"
  /\ Stage("rehash") = "returning" /\ Stage("sweep") = "returning" /\ Stage("unwind") = "throwing"
BY DEF Stage

\* Thread t moves on, as the clients see it.
LEMMA ViewMoves ==
  ASSUME Types, NEW t \in Threads, \A u \in Threads \ {t} : pc'[u] = pc[u] /\ cur'[u] = cur[u]
  PROVE  /\ ViewStage' = [ViewStage EXCEPT ![t] = Stage(pc'[t])]
         /\ ViewHand' = [ViewHand EXCEPT ![t] = IF pc'[t] = "ptr" THEN None ELSE cur'[t]]
BY DEF ViewStage, ViewHand

\* A step of thread t that the clients do not see.
LEMMA ViewStays ==
  ASSUME Types, NEW t \in Threads, \A u \in Threads \ {t} : pc'[u] = pc[u] /\ cur'[u] = cur[u],
         Stage(pc'[t]) = Stage(pc[t]),
         (IF pc'[t] = "ptr" THEN None ELSE cur'[t]) = (IF pc[t] = "ptr" THEN None ELSE cur[t])
  PROVE  ViewStage' = ViewStage /\ ViewHand' = ViewHand
BY DEF ViewStage, ViewHand

\* A call that ends, ends for the clients.
LEMMA Ends ==
  ASSUME Types, NEW t \in Threads, Exit(t)
  PROVE  ClientView!End(t)
<1>1. /\ \A u \in Threads \ {t} : pc'[u] = pc[u] /\ cur'[u] = cur[u]
      /\ pc'[t] = "idle" /\ cur'[t] = None
  BY DEF Types, Exit, Goto
<1>2. ViewStage' = [ViewStage EXCEPT ![t] = "idle"] /\ ViewHand' = [ViewHand EXCEPT ![t] = None]
  BY <1>1, ViewMoves, Stages
<1> QED
  BY <1>2 DEF ClientView!End, Exit

\* The current values, after a step that touches no element.
LEMMA Still ==
  ASSUME Good, Good', UNCHANGED <<ptr, aged>>, ViewHeld' = ViewHeld
  PROVE  Current' = Current
<1>1. \A x \in Elem : Usable(x)' <=> Usable(x)
  BY UsableIs, UsableNext DEF Good, Live
<1> QED
  BY <1>1, SameCurrent DEF Good

\* A call begins; the walk looks at an element.
LEMMA LookShown ==
  ASSUME Good, Good', NEW t \in Threads,
         \/ Call(t) \/ Lock(t) \/ PtrNil(t) \/ StartRehash(t)
         \/ \E e \in Elem : VisitOther(t, e) \/ VisitMatch(t, e)
  PROVE  ClientStep
<1>1. Types /\ Engaged(t)
  BY DEF Good, IInv, Hands
<1>2. UNCHANGED data /\ Current' = Current
  BY WalkHeld, Still DEF Good, data
<1>3. UNCHANGED <<refs, async, doomed, fut>>
  BY <1>2 DEF data
<1>4. CASE Call(t)
  <2>1. /\ \A u \in Threads \ {t} : pc'[u] = pc[u] /\ cur'[u] = cur[u]
        /\ pc[t] = "idle" /\ pc'[t] = "lock" /\ cur'[t] = cur[t]
    BY <1>1, <1>4 DEF Call, Goto, Types
  <2>2. ViewStage[t] = "idle" /\ ViewHand' = ViewHand
    BY <2>1, Stages DEF ViewStage, ViewHand
  <2>5. ViewStage' = [ViewStage EXCEPT ![t] = "called"]
    BY <1>1, <2>1, ViewMoves, Stages
  <2>3. \E o \in {"get", "peek", "expire"}, k \in Keys :
           op' = [op EXCEPT ![t] = o] /\ arg' = [arg EXCEPT ![t] = k]
    BY <1>4, UseAssumption DEF Call
  <2>4. ClientView!Begin(t)
    BY <1>2, <1>3, <2>2, <2>3, <2>5 DEF ClientView!Begin, ClientView!creation
  <2> QED
    BY <2>4 DEF ClientStep, ClientView!Next
<1>5. CASE \/ Lock(t) \/ PtrNil(t) \/ StartRehash(t)
           \/ \E e \in Elem : VisitOther(t, e) \/ VisitMatch(t, e)
  <2>1. /\ UNCHANGED <<op, arg>>
        /\ \A u \in Threads \ {t} : pc'[u] = pc[u] /\ cur'[u] = cur[u]
    BY <1>1, <1>5 DEF Lock, PtrNil, StartRehash, VisitOther, VisitMatch, Goto, Types
  <2>2. \/ pc[t] = "lock" /\ pc'[t] = "walk" /\ cur'[t] = cur[t]
        \/ pc[t] = "ptr" /\ pc'[t] = "walk" /\ cur'[t] = None
        \/ pc[t] = "rehash" /\ pc'[t] = "sweep" /\ cur'[t] = cur[t]
        \/ pc[t] = "walk" /\ pc'[t] = "walk" /\ cur'[t] = cur[t]
        \/ pc[t] = "walk" /\ pc'[t] = "ptr" /\ cur[t] = None
    BY <1>1, <1>5 DEF Lock, PtrNil, StartRehash, VisitOther, VisitMatch, Visits, Goto, Types, Engaged
  <2>3. ViewStage' = ViewStage /\ ViewHand' = ViewHand
    BY <1>1, <2>1, <2>2, Stages, ViewStays
  <2>4. UNCHANGED ClientView!vars
    BY <1>2, <1>3, <2>1, <2>3 DEF ClientView!vars, ClientView!call, ClientView!creation
  <2> QED
    BY <2>4 DEF ClientStep
<1> QED
  BY <1>4, <1>5

\* Deleting what has expired.
LEMMA EraseShown ==
  ASSUME Good, Good', NEW t \in Threads, NEW e \in Elem, VisitStale(t, e) \/ Sweep(t, e)
  PROVE  ClientStep
<1>1. UNCHANGED <<pc, op, arg, cur, async, doomed, fut, refs, aged>>
  BY DEF VisitStale, Sweep, future
<1>2. ViewHeld' = ViewHeld
  BY EraseHeld DEF Good
<1>3. ptr' = ptr \/ (~Usable(e) /\ ptr' = [ptr EXCEPT ![e] = "absent"])
  BY DEF VisitStale, Sweep, Delete, Stale, Usable
<1>4. \A x \in Elem : Usable(x)' <=> Usable(x)
  <2>1. ptr \in [Elem -> {"absent", "nil", "weak", "strong"}]
    BY DEF Good, IInv, Agree
  <2> QED
    BY <1>1, <1>2, <1>3, <2>1, UsableIs, UsableNext DEF Good, Live
<1>5. Current' = Current
  BY <1>4, SameCurrent DEF Good
<1> QED
  BY <1>1, <1>5 DEF ClientStep, ClientView!vars, ClientView!call, ClientView!creation, ViewStage, ViewHand

\* What has walked the bucket of its key, and passed it all by.
LEMMA NothingFound ==
  ASSUME Good, NEW t \in Threads, pc[t] = "walk", todo[t] = {}
  PROVE  arg[t] \in Keys /\ Current[arg[t]] = None /\ ViewStage[t] = "called"
<1>1. arg[t] \in Keys
  BY DEF Good, Hands, Engaged
<1>2. \A x \in Elem : KeyOf[x] = arg[t] => ~Usable(x)
  BY DEF Good, Searched, Walks, Passed, Usable
<1>3. Current[arg[t]] = None
  BY <1>1, <1>2, CurrentIs DEF Good
<1> QED
  BY <1>1, <1>3, Stages DEF ViewStage

\* A call that finds nothing, or cannot create.
LEMMA MissShown ==
  ASSUME Good, Good', NEW t \in Threads, Missed(t) \/ CreateFails(t)
  PROVE  ClientStep
<1>1. Types /\ Engaged(t)
  BY DEF Good, IInv, Hands
<1>2. UNCHANGED data /\ Current' = Current
  BY WalkHeld, Still DEF Good, data
<1>3. UNCHANGED <<refs, async, doomed, fut>>
  BY <1>2 DEF data
<1>4. pc[t] = "walk" /\ todo[t] = {} /\ Exit(t)
  BY DEF Missed, CreateFails, MustCreate
<1>5. ClientView!End(t)
  BY <1>1, <1>4, Ends
<1>6. op[t] \in {"get", "peek", "expire"}
  BY <1>1, <1>4, UseAssumption DEF Engaged
<1>7. ClientView!Miss(t)
  BY <1>2, <1>3, <1>4, <1>5, <1>6, NothingFound
     DEF ClientView!Miss, ClientView!Asks, ClientView!Value, ClientView!creation
<1> QED
  BY <1>7 DEF ClientStep, ClientView!Next

\* The creation is over for those who joined it.
LEMMA JoinShown ==
  ASSUME Good, Good', NEW t \in Threads, Join(t)
  PROVE  ClientStep
<1>1. Types /\ Engaged(t) /\ cur[t] \in Elem
  BY DEF Good, IInv, Hands, Holding, Join
<1>2. ViewHeld' = ViewHeld /\ UNCHANGED <<ptr, aged, async, doomed, fut>>
  BY JoinHeld DEF Good, Join, future
<1>3. Current' = Current
  BY <1>2, Still
<1>4. pc[t] = "join" /\ fut[cur[t]] \in {"value", "throw"}
  BY <1>1 DEF Join, Types
<1>5. pc'[t] # "terminated"
  BY DEF Good, Hands, Engaged
<1>6. Exit(t)
  BY <1>1, <1>5 DEF Join, Goto, Types
<1>7. ClientView!End(t)
  BY <1>1, <1>6, Ends
<1>8. ViewStage[t] = "joined" /\ ViewHand[t] = cur[t]
  BY <1>4, Stages DEF ViewStage, ViewHand
<1>9. CASE fut[cur[t]] = "value"
  <2>1. ClientView!Return(t)
    BY <1>2, <1>3, <1>7, <1>8, <1>9 DEF ClientView!Return, ClientView!creation, Join
  <2> QED
    BY <2>1 DEF ClientStep, ClientView!Next
<1>10. CASE fut[cur[t]] = "throw"
  <2>1. ClientView!Throw(t)
    BY <1>2, <1>3, <1>7, <1>8, <1>10 DEF ClientView!Throw, ClientView!creation, Join
  <2> QED
    BY <2>1 DEF ClientStep, ClientView!Next
<1> QED
  BY <1>4, <1>9, <1>10

\* The creator leaves.
LEMMA LeaveShown ==
  ASSUME Good, Good', NEW t \in Threads, Unwind(t) \/ Return(t)
  PROVE  ClientStep
<1>1. Types
  BY DEF Good, IInv
<1>2. ViewHeld' = ViewHeld /\ UNCHANGED <<ptr, aged, async, doomed, fut>>
  BY LeaveHeld DEF Good, Unwind, Return, future
<1>3. Current' = Current
  BY <1>2, Still
<1>4. ClientView!End(t)
  BY <1>1, Ends DEF Unwind, Return, Leave
<1>5. CASE Unwind(t)
  <2>1. ViewStage[t] = "throwing" /\ refs' = refs
    BY <1>5, Stages DEF ViewStage, Unwind
  <2>2. ClientView!Throw(t)
    BY <1>2, <1>3, <1>4, <2>1 DEF ClientView!Throw, ClientView!creation
  <2> QED
    BY <2>2 DEF ClientStep, ClientView!Next
<1>6. CASE Return(t)
  <2>1. ViewStage[t] = "returning" /\ ViewHand[t] = cur[t] /\ refs' = refs \union {cur[t]}
    BY <1>6, Stages DEF ViewStage, ViewHand, Return
  <2>2. ClientView!Return(t)
    BY <1>2, <1>3, <1>4, <2>1 DEF ClientView!Return, ClientView!creation
  <2> QED
    BY <2>2 DEF ClientStep, ClientView!Next
<1> QED
  BY <1>5, <1>6

\* An expired key has no value, or loses it when its creation is complete.
LEMMA ExpireShown ==
  ASSUME Good, Good', NEW t \in Threads, NEW e \in Elem, ExpireMatch(t, e)
  PROVE  ClientStep
<1>1. Types /\ Engaged(t) /\ async \subseteq pinned /\ todo[t] \subseteq Linked
  BY IInvFacts DEF Good, Hands, ExpireMatch, Visits, Locking
<1>2. /\ pc[t] = "walk" /\ op[t] = "expire" /\ KeyOf[e] = arg[t] /\ arg[t] \in Keys
      /\ UNCHANGED <<async, fut, aged, refs>>
  BY <1>1 DEF ExpireMatch, Visits, Matches, Engaged
<1>3. Usable(e)
  BY <1>1, <1>2 DEF ExpireMatch, Visits, Matches, Stale, Usable
<1>4. Current[arg[t]] = e /\ e # None
  BY <1>2, <1>3, CurrentIs, ElemAssumption DEF Good
<1>5. ClientView!End(t)
  BY <1>1, Ends DEF ExpireMatch
<1>6. ViewHeld' = ViewHeld
  BY ExpireHeld DEF Good
<1>7. ViewStage[t] = "called"
  BY <1>2, Stages DEF ViewStage
<1>8. CASE e \in async
  <2>1. ptr' = ptr /\ doomed' = doomed \union {e}
    BY <1>1, <1>8 DEF ExpireMatch
  <2>2. Current' = Current
    BY <1>2, <1>6, <2>1, Still
  <2>3. ClientView!Expire(t)
    BY <1>2, <1>4, <1>5, <1>7, <1>8, <2>1, <2>2 DEF ClientView!Expire, ClientView!Asks, ClientView!Value
  <2> QED
    BY <2>3 DEF ClientStep, ClientView!Next
<1>9. CASE e \notin async
  <2>1. ptr \in [Elem -> {"absent", "nil", "weak", "strong"}]
    BY DEF Good, IInv, Agree
  <2>2. /\ doomed' = doomed /\ ~Live(ptr', e)
        /\ \A x \in Elem \ {e} : ptr'[x] = ptr[x]
    BY <1>9, <2>1 DEF ExpireMatch, Delete, Live
  <2>3. ~Usable(e)' /\ \A x \in Elem \ {e} : Usable(x)' <=> Usable(x)
    BY <1>2, <1>6, <2>2, UsableIs, UsableNext DEF Good, Live
  <2>4. \A k \in Keys : Current'[k] = IF k = arg[t] THEN None ELSE Current[k]
    <3> TAKE k \in Keys
    <3>1. /\ Current[k] \in Elem \union {None} /\ Current'[k] \in Elem \union {None}
          /\ \A x \in Elem : Current[k] = x <=> Usable(x) /\ KeyOf[x] = k
          /\ \A x \in Elem : Current'[k] = x <=> Usable(x)' /\ KeyOf[x] = k
      BY CurrentIs, CurrentNext DEF Good
    <3>2. \A x \in Elem : Usable(x) /\ KeyOf[x] = arg[t] => x = e
      BY <1>4, <1>2, CurrentIs DEF Good
    <3> QED
      BY <1>2, <2>3, <3>1, <3>2
  <2>5. Current' = [Current EXCEPT ![arg[t]] = None]
    <3>1. Current = [k \in Keys |-> Current[k]] /\ Current' = [k \in Keys |-> Current'[k]]
      BY DEF Current
    <3> QED
      BY <2>4, <3>1
  <2>6. ClientView!Expire(t)
    BY <1>2, <1>4, <1>5, <1>7, <1>9, <2>2, <2>5 DEF ClientView!Expire, ClientView!Asks, ClientView!Value
  <2> QED
    BY <2>6 DEF ClientStep, ClientView!Next
<1> QED
  BY <1>8, <1>9

\* A step that spares what is in hand, and lets everything else fade.
LEMMA Spares ==
  ASSUME Good, Good', NEW H, Fading(H), \A x \in Elem : x \in H => Usable(x),
         \A x \in Elem : Usable(x) /\ ~MaxAge /\ InHand(x)' => x \notin aged' /\ Live(ptr', x)
  PROVE  ClientView!Become(Current)
<1>1. \A k \in Keys : Current[k] = None \/ (Current[k] \in Elem /\ KeyOf[Current[k]] = k)
  BY CurrentIs DEF Good
<1>2. \A x \in Elem : Current[KeyOf[x]] = x <=> Usable(x)
  BY CurrentIs, ElemAssumption DEF Good
<1>3. \A x \in Elem : Usable(x)' => Usable(x)
  BY ExpiredStays DEF Usable
<1>4. \A x \in Elem : Usable(x) /\ ~MaxAge /\ InHand(x)' => Usable(x)'
  BY InHandIsHeldNext, UsableNext DEF Good
<1> QED
  BY <1>1, <1>2, <1>3, <1>4, Becomes DEF Good

\* A hit.
LEMMA FoundShown ==
  ASSUME Good, Good', NEW t \in Threads, Found(t)
  PROVE  ClientStep
<1> DEFINE e == cur[t]
<1>1. Types /\ Engaged(t) /\ Agree(queue, ptr) /\ async \subseteq pinned /\ e \in Linked
  BY IInvFacts DEF Good, Hands, Locking, Found
<1>2. /\ pc[t] = "ptr" /\ e \in Elem /\ ptr[e] \notin {"absent", "nil"} /\ Usable(e)
      /\ OnHit(e) \/ UNCHANGED ptr
      /\ UNCHANGED <<async, fut, doomed, aged>>
  BY <1>1 DEF Found, future, Usable, Linked, IsExpired, Expired, Good, IInv, Pinning, Live
<1>3. arg[t] \in Keys /\ Current[arg[t]] = e /\ e # None
  BY <1>1, <1>2, CurrentIs, ElemAssumption DEF Good, Engaged
<1>4. op[t] \in {"get", "peek"} /\ ViewStage[t] = "called"
  BY <1>1, <1>2, UseAssumption, Stages DEF Engaged, ViewStage
<1>5. \A u \in Threads \ {t} : pc'[u] = pc[u] /\ cur'[u] = cur[u]
  BY <1>1, OthersEngaged DEF Step, LockedStep
<1>6. refs' \subseteq refs \union {e} /\ \A u \in Threads \ {t} : ViewHand'[u] = ViewHand[u]
  BY <1>5 DEF Found, ViewHand
<1>7. pc'[t] # "ptr" /\ cur'[t] \in {e, None}
  BY <1>1 DEF Found, Exit, Goto, Types
<1>8. ASSUME NEW x \in Elem, Usable(x), InHand(x)' PROVE x \notin aged' /\ Live(ptr', x)
  <2>1. x \notin aged /\ Live(ptr, x)
    BY <1>8, UsableIs DEF Good
  <2>2. x = e \/ InHand(x)
    BY <1>6, <1>7, <1>8, ElemAssumption DEF InHand, ViewHand
  <2>3. x = e \/ x \in ViewHeld
    BY <2>1, <2>2, InHandIsHeld DEF Good
  <2>4. Kept(e, x)
    BY <1>1, <2>1, <2>3 DEF Kept, ViewHeld
  <2> QED
    BY <1>1, <1>2, <2>1, <2>4, OnHitFacts
<1>9. Fading({e})
  BY FoundFades DEF Good
<1>10. ClientView!Become(Current)
  BY <1>2, <1>8, <1>9, Spares
<1>11. CASE e \in async
  <2>1. pc'[t] = "join" /\ cur'[t] = e /\ UNCHANGED <<op, arg, refs>>
    BY <1>1, <1>11 DEF Found, Goto, Types
  <2>2. ClientView!Proceed(t, "joined", e)
    BY <1>1, <1>5, <2>1, ViewMoves, Stages DEF ClientView!Proceed
  <2>3. ClientView!Hit(t)
    BY <1>2, <1>3, <1>4, <1>10, <1>11, <2>1, <2>2
       DEF ClientView!Hit, ClientView!Asks, ClientView!Value, ClientView!creation
  <2> QED
    BY <2>3 DEF ClientStep, ClientView!Next
<1>12. CASE e \notin async
  <2>1. Exit(t) /\ refs' = refs \union {e}
    BY <1>12 DEF Found
  <2>2. ClientView!End(t)
    BY <1>1, <2>1, Ends
  <2>3. ClientView!Hit(t)
    BY <1>2, <1>3, <1>4, <1>10, <1>12, <2>1, <2>2
       DEF ClientView!Hit, ClientView!Asks, ClientView!Value, ClientView!creation
  <2> QED
    BY <2>3 DEF ClientStep, ClientView!Next
<1> QED
  BY <1>11, <1>12

\* A creation.
LEMMA NewShown ==
  ASSUME Good, Good', Sound, NEW t \in Threads, NEW e \in Elem, CreateSync(t, e) \/ CreateAsync(t, e)
  PROVE  ClientStep
<1>1. Types /\ Engaged(t) /\ Agree(queue, ptr) /\ async \subseteq pinned
  BY IInvFacts DEF Good, Hands
<1>2. /\ pc[t] = "walk" /\ todo[t] = {} /\ op[t] = "get" /\ UNCHANGED <<refs, op, arg>>
      /\ OnCreate(e) /\ KeyOf[e] = arg[t] /\ cur' = [cur EXCEPT ![t] = e]
      /\ aged' = aged \ {e} /\ doomed' = doomed \ {e}
  BY VariantAssumption DEF CreateSync, CreateAsync, Insert, MustCreate, Sound
<1>3. ptr[e] = "absent" /\ e \notin refs /\ \A u \in Threads : cur[u] # e
  BY DEF CreateSync, CreateAsync, Insert, Free, Linked
<1>4. \/ pc' = [pc EXCEPT ![t] = "rehash"] /\ UNCHANGED <<async, fut>>
      \/ /\ pc' = [pc EXCEPT ![t] = "wait"]
         /\ async' = async \union {e} /\ fut' = [fut EXCEPT ![e] = "pending"]
  BY VariantAssumption DEF CreateSync, CreateAsync, Goto, Sound
<1>5. arg[t] \in Keys /\ Current[arg[t]] = None /\ ViewStage[t] = "called"
  BY <1>2, NothingFound DEF Good
<1>6. \A u \in Threads \ {t} : pc'[u] = pc[u] /\ cur'[u] = cur[u]
  BY <1>1, OthersEngaged DEF Step, LockedStep
<1>7. ~ClientView!InHand(e)
  BY <1>3, ElemAssumption DEF ClientView!InHand, ViewHand
<1>8. /\ Live(ptr', e)
      /\ \A x \in Elem : Kept(e, x) /\ Live(ptr, x) => Live(ptr', x)
  BY <1>1, <1>2, <1>3, OnCreateFacts
<1>9. Usable(e)'
  BY <1>2, <1>8, NewHeld, UsableNext DEF Good, Sound
<1>10. ASSUME NEW x \in Elem, Usable(x), InHand(x)', x # e PROVE Usable(x)'
  <2>1. x \notin aged /\ Live(ptr, x)
    BY <1>10, UsableIs DEF Good
  <2>2. InHand(x)
    <3>1. cur'[t] = e
      BY <1>1, <1>2 DEF Types
    <3> QED
      BY <1>2, <1>6, <1>10, <3>1, ElemAssumption DEF InHand, ViewHand
  <2>3. x \in ViewHeld
    BY <2>1, <2>2, InHandIsHeld DEF Good
  <2>4. Live(ptr', x)
    BY <1>1, <1>8, <2>1, <2>3 DEF Kept, ViewHeld
  <2>5. x \in ViewHeld'
    BY <1>10, <2>4, InHandIsHeldNext DEF Good
  <2> QED
    BY <1>2, <2>1, <2>4, <2>5, UsableNext DEF Good
<1> DEFINE c == [Current EXCEPT ![arg[t]] = e]
<1>11. \A k \in Keys : c[k] = IF k = arg[t] THEN e ELSE Current[k]
  <2>1. Current = [k \in Keys |-> Current[k]]
    BY DEF Current
  <2> QED
    BY <1>5, <2>1
<1> HIDE DEF c
<1>12. \A k \in Keys : c[k] = None \/ (c[k] \in Elem /\ KeyOf[c[k]] = k)
  BY <1>2, <1>11, CurrentIs DEF Good
<1>13. \A x \in Elem : Usable(x) => Current[KeyOf[x]] = x /\ KeyOf[x] # arg[t]
  BY <1>5, CurrentIs, ElemAssumption DEF Good
<1>14. ASSUME NEW x \in Elem, Usable(x)', x # e PROVE c[KeyOf[x]] = x
  <2>1. Fading({e})
    BY CreateFades DEF Good
  <2>2. x \notin {e} /\ x \in Linked' /\ ~IsExpired(x)'
    BY <1>14 DEF Usable
  <2>3. Usable(x)
    BY <2>1, <2>2, ExpiredStays DEF Usable
  <2> QED
    BY <1>11, <1>13, <2>3, ElemAssumption
<1>15. ASSUME NEW x \in Elem, c[KeyOf[x]] = x, x # e PROVE Usable(x)
  <2>1. KeyOf[x] \in Keys /\ Current[KeyOf[x]] = x
    BY <1>11, <1>15, ElemAssumption
  <2> QED
    BY <2>1, CurrentIs DEF Good
<1>16. c[KeyOf[e]] = e
  BY <1>2, <1>5, <1>11
<1>17. ClientView!Become(c)
  BY <1>9, <1>10, <1>12, <1>14, <1>15, <1>16, Becomes DEF Good
<1>18. ClientView!Asks(t, {"get"}) /\ ClientView!Value(t) = None
  BY <1>2, <1>5 DEF ClientView!Asks, ClientView!Value
<1>19. CASE pc' = [pc EXCEPT ![t] = "rehash"] /\ UNCHANGED <<async, fut>>
  <2>1. pc'[t] = "rehash" /\ cur'[t] = e
    BY <1>1, <1>2, <1>19 DEF Types
  <2>2. ClientView!Proceed(t, "returning", e)
    BY <1>1, <1>2, <1>6, <2>1, ViewMoves, Stages DEF ClientView!Proceed
  <2>3. ClientView!Create(t, e)
    BY <1>2, <1>3, <1>7, <1>17, <1>18, <1>19, <2>2 DEF ClientView!Create, c
  <2> QED
    BY <2>3 DEF ClientStep, ClientView!Next
<1>20. CASE /\ pc' = [pc EXCEPT ![t] = "wait"]
            /\ async' = async \union {e} /\ fut' = [fut EXCEPT ![e] = "pending"]
  <2>1. pc'[t] = "wait" /\ cur'[t] = e
    BY <1>1, <1>2, <1>20 DEF Types
  <2>2. ClientView!Proceed(t, "creating", e)
    BY <1>1, <1>2, <1>6, <2>1, ViewMoves, Stages DEF ClientView!Proceed
  <2>3. ClientView!Create(t, e)
    BY <1>2, <1>3, <1>7, <1>17, <1>18, <1>20, <2>2 DEF ClientView!Create, c
  <2> QED
    BY <2>3 DEF ClientStep, ClientView!Next
<1> QED
  BY <1>4, <1>19, <1>20

\* The create function ends.
LEMMA SettleShown ==
  ASSUME Good, Good', NEW e \in Elem, Settle(e)
  PROVE  ClientStep
<1>1. /\ UNCHANGED <<pc, op, arg, cur, async, doomed, refs, ptr, aged>>
      /\ fut[e] = "pending"
  BY DEF Settle, control
<1>2. Current' = Current
  BY <1>1, SettleHeld, Still DEF Good
<1>3. ViewStage' = ViewStage /\ ViewHand' = ViewHand
  BY <1>1 DEF ViewStage, ViewHand
<1>4. ClientView!InHand(e)
  BY DEF Settle, ClientView!InHand, ViewHand
<1>5. \E o \in {"value", "throw"} : fut' = [fut EXCEPT ![e] = o]
  BY UseAssumption DEF Settle
<1>6. ClientView!Settle(e)
  BY <1>1, <1>2, <1>3, <1>4, <1>5 DEF ClientView!Settle, ClientView!call
<1> QED
  BY <1>6 DEF ClientStep, ClientView!Next

\* The creator completes the creation.
LEMMA ResolveShown ==
  ASSUME Good, Good', NEW t \in Threads, Resolve(t)
  PROVE  ClientStep
<1> DEFINE e == cur[t]
           gone == fut[e] = "throw" \/ e \in doomed
<1>1. Types /\ ptr \in [Elem -> {"absent", "nil", "weak", "strong"}] /\ Live(ptr, e)
  BY DEF Good, IInv, Agree, Resolve, Pinning
<1>2. /\ UNCHANGED <<op, arg, cur, fut, doomed, aged, refs>> /\ pc[t] = "wait" /\ e \in Elem
      /\ async' = async \ {e} /\ fut[e] # "pending"
      /\ ptr' = IF gone THEN [ptr EXCEPT ![e] = "nil"] ELSE ptr
      /\ pc' = [pc EXCEPT ![t] = IF fut[e] = "throw" THEN "unwind" ELSE "rehash"]
  BY DEF Resolve, Goto, Good, IInv, Holding, Creating
<1>3. ViewStage[t] = "creating" /\ ViewHand[t] = e
  BY <1>2, Stages DEF ViewStage, ViewHand
<1>4. /\ \A x : x # e => (x \in ViewHeld' <=> x \in ViewHeld)
      /\ e \in ViewHeld /\ (fut[e] # "throw" => e \in ViewHeld')
  BY ResolveHeld DEF Good
<1>5. \A x \in Elem : Usable(x)' <=> Usable(x) /\ ~(x = e /\ gone)
  <2> TAKE x \in Elem
  <2>1. CASE x # e
    BY <1>1, <1>2, <1>4, <2>1, UsableIs, UsableNext DEF Good, Live
  <2>2. CASE x = e
    BY <1>1, <1>2, <1>4, <2>2, UsableIs, UsableNext DEF Good, Live
  <2> QED
    BY <2>1, <2>2
<1>6. \A k \in Keys : Current'[k] = IF Current[k] = e /\ gone THEN None ELSE Current[k]
  <2> TAKE k \in Keys
  <2>1. /\ Current[k] \in Elem \union {None} /\ Current'[k] \in Elem \union {None}
        /\ \A x \in Elem : Current[k] = x <=> Usable(x) /\ KeyOf[x] = k
        /\ \A x \in Elem : Current'[k] = x <=> Usable(x)' /\ KeyOf[x] = k
    BY CurrentIs, CurrentNext DEF Good
  <2> HIDE DEF gone, e
  <2> QED
    BY <1>2, <1>5, <2>1
<1>7. Current' = [k \in Keys |-> IF Current[k] = e /\ gone THEN None ELSE Current[k]]
  <2>1. Current' = [k \in Keys |-> Current'[k]]
    BY DEF Current
  <2> QED
    BY <1>6, <2>1
<1>8. ClientView!Proceed(t, IF fut[e] = "throw" THEN "throwing" ELSE "returning", e)
  <2>1. \A u \in Threads \ {t} : pc'[u] = pc[u] /\ cur'[u] = cur[u]
    BY <1>2
  <2>2. pc'[t] = IF fut[e] = "throw" THEN "unwind" ELSE "rehash"
    BY <1>1, <1>2 DEF Types
  <2> QED
    BY <1>1, <1>2, <2>1, <2>2, ViewMoves, Stages DEF ClientView!Proceed
<1>9. ClientView!Complete(t)
  BY <1>2, <1>3, <1>7, <1>8 DEF ClientView!Complete
<1> QED
  BY <1>9 DEF ClientStep, ClientView!Next

\* A client drops a value; values grow too old.
LEMMA EnvironmentShown ==
  ASSUME Good, Good', NEW e \in Elem, Drop(e) \/ Age(e)
  PROVE  ClientStep
<1>1. UNCHANGED <<pc, op, arg, cur, async, doomed, fut, ptr>>
  BY DEF Drop, Age, control, future
<1>2. ViewStage' = ViewStage /\ ViewHand' = ViewHand
  BY <1>1 DEF ViewStage, ViewHand
<1>3. Fading({})
  BY EnvironmentFades DEF Good
<1>4. MaxAge \/ aged' = aged
  BY DEF Drop, Age
<1>5. ClientView!Become(Current)
  BY <1>1, <1>3, <1>4, Spares, UsableIs DEF Good
<1>6. CASE Drop(e)
  <2>1. ClientView!Release(e)
    BY <1>1, <1>2, <1>5, <1>6 DEF Drop, ClientView!Release, ClientView!call, ClientView!creation
  <2> QED
    BY <2>1 DEF ClientStep, ClientView!Next
<1>7. CASE Age(e)
  <2>1. ClientView!Forget
    BY <1>1, <1>2, <1>5, <1>7 DEF Age, ClientView!Forget, ClientView!call, ClientView!creation
  <2> QED
    BY <2>1 DEF ClientStep, ClientView!Next
<1> QED
  BY <1>6, <1>7

\* Every step of the cache is one of the contract, or none.
LEMMA NextShown ==
  ASSUME Good, Good', Sound, [Next]_vars
  PROVE  [ClientView!Next]_ClientView!vars
<1>1. ASSUME NEW t \in Threads, LockedStep(t) PROVE ClientStep
  <2>1. CASE PtrNil(t) \/ StartRehash(t)
    BY <2>1, LookShown
  <2>2. CASE Missed(t) \/ CreateFails(t)
    BY <2>2, MissShown
  <2>3. CASE Found(t)
    BY <2>3, FoundShown
  <2>4. CASE Unwind(t) \/ Return(t)
    BY <2>4, LeaveShown
  <2>5. ASSUME NEW e \in Elem, VisitOther(t, e) \/ VisitMatch(t, e) PROVE ClientStep
    BY <2>5, LookShown
  <2>6. ASSUME NEW e \in Elem, VisitStale(t, e) \/ Sweep(t, e) PROVE ClientStep
    BY <2>6, EraseShown
  <2>7. ASSUME NEW e \in Elem, ExpireMatch(t, e) PROVE ClientStep
    BY <2>7, ExpireShown
  <2>8. ASSUME NEW e \in Elem, CreateSync(t, e) \/ CreateAsync(t, e) PROVE ClientStep
    BY <2>8, NewShown
  <2> QED
    BY <1>1, <2>1, <2>2, <2>3, <2>4, <2>5, <2>6, <2>7, <2>8 DEF LockedStep
<1>2. ASSUME NEW t \in Threads, Step(t) PROVE ClientStep
  BY <1>1, <1>2, LookShown, JoinShown, ResolveShown DEF Step
<1>3. ASSUME NEW e \in Elem, Settle(e) \/ Drop(e) \/ Age(e) PROVE ClientStep
  BY <1>3, SettleShown, EnvironmentShown
<1>4. CASE UNCHANGED vars
  <2>1. UNCHANGED <<pc, op, arg, cur, async, doomed, fut, refs, ptr, aged>>
    BY <1>4 DEF vars, control, future
  <2>2. ViewHeld' = ViewHeld
    BY <2>1 DEF ViewHeld, Referenced
  <2>3. Current' = Current
    BY <2>1, <2>2, Still
  <2> QED
    BY <2>1, <2>3 DEF ClientView!vars, ClientView!call, ClientView!creation, ViewStage, ViewHand
<1> QED
  BY <1>2, <1>3, <1>4 DEF Next, ClientStep

\* An empty cache has no current values.
LEMMA InitShown == Init => ClientView!Init
<1> SUFFICES ASSUME Init PROVE ClientView!Init
  OBVIOUS
<1>1. \A k \in Keys : Served(k) = {}
  BY DEF Init, Served, Linked
<1>2. Current = [k \in Keys |-> None]
  BY <1>1 DEF Current
<1>3. ViewStage = [t \in Threads |-> "idle"] /\ ViewHand = [t \in Threads |-> None]
  BY Stages DEF Init, ViewStage, ViewHand
<1> QED
  BY <1>2, <1>3 DEF Init, ClientView!Init

\* Every call of the cache takes effect at one moment, as CacheContract
\* promises: for any number of threads, keys and values, with and without a
\* queue, whatever the threads interleave.
THEOREM CacheKeepsContract ==
  ASSUME Async \/ ~MaxAge, ~(Async /\ "throw" \in Outcomes /\ "peek" \in Ops)
  PROVE  Spec => KeepsContract
<1>1. Sound
  BY DEF Sound
<1>2. Init => Hands /\ ClientView!Init
  BY InitHands, InitShown
<1>3. IInv /\ Hands /\ [Next]_vars => Hands'
  BY <1>1, HandsNext
<1>4. IInv /\ Searched /\ [Next]_vars => Searched'
  BY SearchedNext
<1>5. IInv /\ Hands /\ Searched /\ UniqueLive /\ (IInv /\ Hands /\ Searched /\ UniqueLive)' /\ [Next]_vars
        => [ClientView!Next]_ClientView!vars
  BY <1>1, NextShown DEF Good
<1> QED
  BY <1>2, <1>3, <1>4, <1>5, InitMore, Invariance, KeysAreUnique, PTL DEF Spec, KeepsContract, ClientView!Spec
=============================================================================
