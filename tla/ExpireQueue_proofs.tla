------------------------- MODULE ExpireQueue_proofs -------------------------
(***************************************************************************)
(* Proofs about the expire queue, for every set of elements, every limit   *)
(* and with or without pressure.                                           *)
(*                                                                         *)
(* IInv is inductive: TypeOK and the queue properties of ExpireQueue prop  *)
(* each other up.  That a drop from the queue is weakened is what keeps    *)
(* QueuedIsStrong, QueuedIsStrong is what makes the hit of an element off  *)
(* the queue a weak one, and the links stay distinct because only elements *)
(* off the queue are ever linked.                                          *)
(***************************************************************************)
EXTENDS ExpireQueue, ExpireQueueOps_proofs

\* What holds of a queue, the pointers and the void set between operations.
Consistent(q, p, v) ==
  /\ q \in Queues(Elem) /\ IsBalanced(q) /\ NoDup(q)
  /\ p \in [Elem -> {"absent", "weak", "strong"}]
  /\ v \subseteq {e \in Elem : p[e] # "absent"}
  /\ \A e \in Elem : p[e] = "strong" <=> e \in Queued(q)

Pins == pinned \subseteq Present /\ held \subseteq Elem

IInv ==
  /\ Consistent(queue, ptr, void)
  /\ QSize(queue) <= MaxSize
  /\ Pins

\* The inductive invariant is strong enough for the checked ones.
LEMMA IInvGives == IInv => TypeOK /\ Balanced /\ QueueLinksLive /\ QueuedIsStrong
<1> SUFFICES ASSUME IInv PROVE TypeOK /\ Balanced /\ QueueLinksLive /\ QueuedIsStrong
  OBVIOUS
<1> USE DEF IInv, Consistent, Pins
<1>1. TypeOK
  BY DEF TypeOK, Queues, Present
<1>2. Balanced
  BY DEF Balanced, IsBalanced
<1>3. QueueLinksLive
  <2>1. Queued(queue) \subseteq Elem
    BY QueueType, ToSetFacts
  <2>2. Queued(queue) \subseteq Present
    BY <2>1 DEF Present
  <2>3. QSize(queue) = Len(queue.order) /\ Distinct(queue.order)
    BY QueueType
  <2> QED
    BY <2>2, <2>3 DEF QueueLinksLive, Distinct
<1>4. QueuedIsStrong
  BY DEF QueuedIsStrong, Present
<1> QED
  BY <1>1, <1>2, <1>3, <1>4

\* Pointers p agree with queue q when exactly the queued elements are strong.
Agree(q, p) ==
  /\ q \in Queues(Elem) /\ NoDup(q)
  /\ p \in [Elem -> {"absent", "weak", "strong"}]
  /\ \A x \in Elem : p[x] = "strong" <=> x \in Queued(q)

\* Erasing what left the queue, or what was weakened, keeps the agreement.
LEMMA EraseAgrees ==
  ASSUME NEW q, NEW p, NEW r, NEW D, Agree(q, p),
         r \in Queues(Elem), NoDup(r), Queued(r) \subseteq Queued(q),
         Queued(q) \ Queued(r) \subseteq D, D \cap Queued(r) = {}
  PROVE  Agree(r, Erase(p, D))
  BY DEF Agree, Erase

\* Weakening what left the queue keeps pointers and queue in agreement.
LEMMA WeakenAgrees ==
  ASSUME NEW q, NEW p, NEW r, Agree(q, p),
         r \in Queues(Elem), NoDup(r), Queued(r) \subseteq Queued(q)
  PROVE  Agree(r, Weaken(p, Queued(q) \ Queued(r)))
  BY DEF Agree, Weaken

\* The decorators shrink to a size within the limit.
LEMMA KeepType == \A n \in Keep : n \in Nat /\ n <= MaxSize
  BY MaxSizeAssumption DEF Keep

\* What an operation on element e must leave in the cache.
Kept(e) == pinned \union {e} \union (held \ void)

\* The maintenance at the end of on_create and on_hit: whatever it evicts, the
\* queue and the pointers agree again, no more than max_size elements are left
\* on the queue, and it erases nothing that is pinned, being served, or alive and referenced.
LEMMA MaintainFacts ==
  ASSUME NEW e \in Elem, NEW q, NEW p, Agree(q, p), Maintain(q, p, e)
  PROVE  /\ Agree(queue', ptr') /\ IsBalanced(queue')
         /\ QSize(queue') <= MaxSize
         /\ \A x \in Kept(e) : x \in Elem /\ p[x] # "absent" => ptr'[x] # "absent"
         /\ void' = void \ {x \in Elem : ptr'[x] = "absent"}
<1> DEFINE r == held \union {e}
           D1 == {x \in Present \ {e} : Expired(p, r, x) /\ x \notin pinned}
           q1 == Cleanup(q, D1)
           p1 == Erase(p, Queued(q) \ Queued(q1))
           Q2(n) == ShrinkTo(q1, n)
           Drop(n) == Queued(q1) \ Queued(Q2(n))
           P2(n) == Weaken(p1, Drop(n))
           Dead(n) == Erased(P2(n), r, Drop(n) \ {e})
<1>1. PICK n \in Keep : /\ queue' = Q2(n) /\ ptr' = Erase(P2(n), Dead(n))
                        /\ void' = void \ {x \in Elem : ptr'[x] = "absent"}
  BY DEF Maintain
<1>2. n \in Nat /\ n <= MaxSize
  BY KeepType
<1>3. q \in Queues(Elem) /\ NoDup(q)
  BY DEF Agree
<1>4. \A x \in D1 : x \notin Kept(e)
  BY DEF Expired, Kept
<1> HIDE DEF D1
<1>5. /\ q1 \in Queues(Elem) /\ NoDup(q1)
      /\ Queued(q1) \subseteq Queued(q)
      /\ Queued(q) \ Queued(q1) \subseteq D1
  BY <1>3, ShrinkWhileFacts DEF Cleanup
<1> HIDE DEF q1
<1>6. Agree(q1, p1)
  BY <1>5, EraseAgrees
<1>7. \A x \in Kept(e) : x \in Elem /\ p[x] # "absent" => p1[x] # "absent"
  BY <1>4, <1>5 DEF Erase
<1> HIDE DEF p1
<1>8. /\ Q2(n) \in Queues(Elem) /\ NoDup(Q2(n)) /\ IsBalanced(Q2(n))
      /\ QSize(Q2(n)) = IF n >= QSize(q1) THEN QSize(q1) ELSE n
      /\ Queued(Q2(n)) \subseteq Queued(q1)
  BY <1>2, <1>5, ShrinkToFacts
<1>9. QSize(Q2(n)) <= MaxSize
  BY <1>2, <1>5, <1>8, QueueType, MaxSizeAssumption
<1> HIDE DEF Q2
<1>10. Agree(Q2(n), P2(n))
  BY <1>6, <1>8, WeakenAgrees
<1>11. \A x \in Kept(e) : x \in Elem /\ p[x] # "absent" => P2(n)[x] # "absent"
  BY <1>7 DEF Weaken
<1>12. Dead(n) \cap Queued(Q2(n)) = {} /\ \A x \in Dead(n) : x \notin Kept(e)
  BY DEF Erased, Expired, Kept
<1> HIDE DEF P2, Dead
<1>13. Agree(queue', ptr')
  BY <1>1, <1>8, <1>10, <1>12, EraseAgrees DEF Agree
<1>14. \A x \in Kept(e) : x \in Elem /\ p[x] # "absent" => ptr'[x] # "absent"
  BY <1>1, <1>11, <1>12 DEF Erase
<1> QED
  BY <1>1, <1>8, <1>9, <1>13, <1>14

\* The empty queue satisfies the invariant.
LEMMA InitIInv == Init => IInv
<1> SUFFICES ASSUME Init PROVE IInv
  OBVIOUS
<1>1. << >> \in Seq(Elem) /\ Len(<< >>) = 0
  OBVIOUS
<1>2. queue \in Queues(Elem) /\ QSize(queue) = 0 /\ IsBalanced(queue)
  BY <1>1 DEF Init, EmptyQueue, Queues, QSize, IsBalanced
<1>3. NoDup(queue) /\ Queued(queue) = {}
  BY <1>1 DEF Init, EmptyQueue, NoDup, Distinct, Queued, ToSet
<1> QED
  BY <1>2, <1>3, MaxSizeAssumption DEF Init, IInv, Consistent, Pins, Present

\* A create or a hit first makes the queue and the pointers agree on the new
\* or strengthened element, then maintains them.
LEMMA ServeFacts ==
  ASSUME IInv, NEW e \in Elem, Create(e) \/ Hit(e)
  PROVE  /\ Agree(queue', ptr') /\ IsBalanced(queue') /\ QSize(queue') <= MaxSize
         /\ \A x \in Kept(e) \cap (Present \union {e}) : ptr'[x] # "absent"
         /\ void' = void \ {x \in Elem : ptr'[x] = "absent"}
         /\ held' = held \union {e} /\ pinned' \in {pinned, pinned \union {e}}
<1>1. /\ Agree(queue, ptr) /\ Present \subseteq Elem
      /\ queue \in Queues(Elem) /\ NoDup(queue)
  BY DEF IInv, Consistent, Agree, Present
<1>2. ASSUME NEW q, NEW p, Agree(q, p), Maintain(q, p, e),
             \A x \in Present \union {e} : p[x] # "absent",
             held' = held \union {e}, pinned' \in {pinned, pinned \union {e}}
      PROVE  /\ Agree(queue', ptr') /\ IsBalanced(queue') /\ QSize(queue') <= MaxSize
             /\ \A x \in Kept(e) \cap (Present \union {e}) : ptr'[x] # "absent"
             /\ void' = void \ {x \in Elem : ptr'[x] = "absent"}
             /\ held' = held \union {e} /\ pinned' \in {pinned, pinned \union {e}}
  BY <1>1, <1>2, MaintainFacts
<1> DEFINE P == [ptr EXCEPT ![e] = "strong"]
           C == LinkCold(queue, e)
           R == Promote(queue, e)
<1>3. CASE e \notin Queued(queue)
  <2>1. C \in Queues(Elem) /\ NoDup(C) /\ Queued(C) = Queued(queue) \union {e}
    BY <1>1, <1>3, LinkColdFacts
  <2> HIDE DEF C
  <2>2. Agree(C, P) /\ \A x \in Present \union {e} : P[x] # "absent"
    BY <1>1, <2>1 DEF Agree, Present
  <2>3. /\ Maintain(C, P, e)
        /\ held' = held \union {e} /\ pinned' \in {pinned, pinned \union {e}}
    BY <1>3 DEF Create, Hit, C
  <2> QED
    BY <1>2, <2>2, <2>3
<1>4. CASE e \in Queued(queue)
  <2>1. Hit(e)
    BY <1>1, <1>4 DEF Create, Agree
  <2>2. R \in Queues(Elem) /\ NoDup(R) /\ Queued(R) = Queued(queue)
    BY <1>1, <1>4, PromoteFacts
  <2> HIDE DEF R
  <2>3. Agree(R, ptr) /\ \A x \in Present \union {e} : ptr[x] # "absent"
    BY <1>1, <2>1, <2>2 DEF Agree, Present, Hit
  <2>4. /\ Maintain(R, ptr, e)
        /\ held' = held \union {e} /\ pinned' \in {pinned, pinned \union {e}}
    BY <1>4, <2>1 DEF Hit, R
  <2> QED
    BY <1>2, <2>3, <2>4
<1> QED
  BY <1>3, <1>4

\* Every operation of the cache preserves the inductive invariant.
LEMMA NextIInv == IInv /\ [Next]_vars => IInv'
<1> SUFFICES ASSUME IInv, [Next]_vars PROVE IInv'
  OBVIOUS
<1>1. /\ Agree(queue, ptr) /\ IsBalanced(queue) /\ void \subseteq Present
      /\ pinned \subseteq Present /\ held \subseteq Elem /\ Present \subseteq Elem
      /\ QSize(queue) <= MaxSize
  BY DEF IInv, Consistent, Agree, Pins, Present
<1>2. ASSUME Agree(queue', ptr'), IsBalanced(queue'), (void \subseteq Present)',
             (pinned \subseteq Present)', held' \subseteq Elem, QSize(queue') <= MaxSize
      PROVE  IInv'
  BY <1>2 DEF IInv, Consistent, Agree, Pins, Present
<1>3. ASSUME NEW e \in Elem, Create(e) \/ Hit(e) PROVE IInv'
  <2>1. /\ Agree(queue', ptr') /\ IsBalanced(queue') /\ QSize(queue') <= MaxSize
        /\ \A x \in Kept(e) \cap (Present \union {e}) : ptr'[x] # "absent"
        /\ void' = void \ {x \in Elem : ptr'[x] = "absent"}
        /\ held' = held \union {e} /\ pinned' \in {pinned, pinned \union {e}}
    BY <1>3, ServeFacts
  <2>2. (void \subseteq Present)' /\ (pinned \subseteq Present)' /\ held' \subseteq Elem
    BY <1>1, <2>1 DEF Present, Kept
  <2> QED
    BY <1>2, <2>1, <2>2
<1>4. ASSUME NEW e \in Elem, Delete(e) PROVE IInv'
  <2>1. queue \in Queues(Elem) /\ NoDup(queue) /\ e \notin pinned
    BY <1>1, <1>4 DEF Agree, Delete
  <2>2. /\ queue' \in Queues(Elem) /\ NoDup(queue') /\ IsBalanced(queue')
        /\ QSize(queue') <= QSize(queue) /\ Queued(queue') = Queued(queue) \ {e}
    BY <1>1, <1>4, <2>1, UnlinkFacts DEF Delete
  <2>3. QSize(queue') <= MaxSize
    BY <1>1, <2>1, <2>2, QueueType, MaxSizeAssumption
  <2>4. Agree(queue', ptr')
    BY <1>1, <1>4, <2>2, EraseAgrees DEF Delete
  <2>5. (void \subseteq Present)' /\ (pinned \subseteq Present)' /\ held' \subseteq Elem
    BY <1>1, <1>4, <2>1 DEF Delete, Erase, Present
  <2> QED
    BY <1>2, <2>2, <2>3, <2>4, <2>5
<1>5. ASSUME NEW e \in Elem, Peek(e) \/ Unpin(e) \/ Void(e) \/ Release(e) PROVE IInv'
  BY <1>1, <1>5 DEF Peek, Unpin, Void, Release, MayRelease, IInv, Consistent, Agree, Pins, Present
<1>6. CASE UNCHANGED vars
  BY <1>6 DEF vars, IInv, Consistent, Pins, Present
<1> QED
  BY <1>3, <1>4, <1>5, <1>6 DEF Next

\* Every reachable state satisfies the invariant (expire_queue.h and its decorators).
THEOREM Invariance == Spec => []IInv
  BY InitIInv, NextIInv, PTL DEF Spec

\* The queue invariants hold of every cache, however it is sized and used.
THEOREM QueueTypes == Spec => []TypeOK
  BY Invariance, IInvGives, PTL

\* rebalance_ keeps the two lists balanced through every operation.
THEOREM QueueBalanced == Spec => []Balanced
  BY Invariance, IInvGives, PTL

\* No queue link outlives its element (expire_queue.h, on_delete).
THEOREM LinksLive == Spec => []QueueLinksLive
  BY Invariance, IInvGives, PTL

\* An element is kept alive by the cache exactly while it is on the queue.
THEOREM StrongWhileQueued == Spec => []QueuedIsStrong
  BY Invariance, IInvGives, PTL

\* The strong elements are the queued ones, and so no more than max_size.
LEMMA IInvBounds == IInv => SizeBound
<1> SUFFICES ASSUME IInv PROVE SizeBound
  OBVIOUS
<1>1. queue \in Queues(Elem) /\ QSize(queue) <= MaxSize
  BY DEF IInv, Consistent
<1>2. {e \in Elem : ptr[e] = "strong"} = Queued(queue)
  <2>1. Queued(queue) \subseteq Elem
    BY <1>1, QueueType, ToSetFacts
  <2> QED
    BY <2>1 DEF IInv, Consistent
<1>3. QSize(queue) \in Nat
  BY <1>1, QueueType
<1>4. Cardinality(Queued(queue)) \in Nat /\ Cardinality(Queued(queue)) <= QSize(queue)
  BY <1>1, QueuedCardinality
<1>5. Cardinality(Queued(queue)) <= MaxSize
  BY <1>1, <1>3, <1>4, MaxSizeAssumption
<1> QED
  BY <1>1, <1>2, <1>5 DEF SizeBound

\* The limit of max_size_decorator bounds what the cache keeps alive.
THEOREM KeepsAtMostMaxSize == Spec => []SizeBound
  BY Invariance, IInvBounds, PTL

\* A step forgets no element that is alive and referenced, unless it deletes
\* that very element.
LEMMA StepRevives ==
  ASSUME IInv, [Next]_vars,
         NEW x \in Present, x \in held, x \notin void, ~Delete(x)
  PROVE  ptr'[x] # "absent"
<1>1. x \in Elem /\ ptr[x] # "absent"
  BY DEF Present
<1>2. ASSUME NEW e \in Elem, Create(e) \/ Hit(e) PROVE ptr'[x] # "absent"
  <2>1. \A y \in Kept(e) \cap (Present \union {e}) : ptr'[y] # "absent"
    BY <1>2, ServeFacts
  <2> QED
    BY <2>1 DEF Kept
<1>3. ASSUME NEW e \in Elem, Delete(e) PROVE ptr'[x] # "absent"
  BY <1>1, <1>3 DEF Delete, Erase
<1>4. ASSUME NEW e \in Elem, Peek(e) \/ Unpin(e) \/ Void(e) \/ Release(e) PROVE ptr'[x] # "absent"
  BY <1>1, <1>4 DEF Peek, Unpin, Void, Release, MayRelease
<1>5. CASE UNCHANGED vars
  BY <1>1, <1>5 DEF vars
<1> QED
  BY <1>2, <1>3, <1>4, <1>5 DEF Next

\* An element a caller still holds survives its eviction from the queue, so
\* that a later hit finds the same value (erase_if_expired, strengthen).
THEOREM EvictionKeepsReferenced == Spec => EvictedIsRevived
<1>1. IInv /\ [Next]_vars => [KeepsReferenced]_vars
  BY StepRevives DEF KeepsReferenced
<1> QED
  BY <1>1, Invariance, PTL DEF Spec, EvictedIsRevived

-----------------------------------------------------------------------------
\* What is in front of an inserted element stays where it is.
LEMMA InsertAtBelow ==
  ASSUME NEW S, NEW s \in Seq(S), NEW e \in S, NEW k \in 1 .. Len(s) + 1,
         NEW j \in 1 .. Len(s) + 1, j < k
  PROVE  /\ InsertAt(s, k, e) \in Seq(S) /\ Len(InsertAt(s, k, e)) = Len(s) + 1
         /\ InsertAt(s, k, e)[j] = s[j]
  BY InsertAtFacts

\* A new element goes below the hot zone, which keeps its order.
LEMMA LinkColdOrder ==
  ASSUME NEW S, NEW q \in Queues(S), NEW e \in S, NEW i \in 1 .. q.hots
  PROVE  LinkCold(q, e).order[i] = q.order[i]
<1> DEFINE o == InsertAt(q.order, q.hots + 1, e)
<1>1. q.order \in Seq(S) /\ Len(q.order) \in Nat /\ q.hots \in 0 .. Len(q.order)
  BY QueueType
<1>2. /\ q.hots + 1 \in 1 .. Len(q.order) + 1
      /\ i \in 1 .. Len(q.order) + 1 /\ i < q.hots + 1
  BY <1>1
<1>3. o \in Seq(S) /\ Len(o) = Len(q.order) + 1 /\ o[i] = q.order[i]
  BY <1>1, <1>2, InsertAtBelow
<1>4. LinkCold(q, e) = Rebalance([order |-> o, hots |-> q.hots])
  BY DEF LinkCold
<1> HIDE DEF o
<1>5. q.hots \in 0 .. Len(o)
  BY <1>1, <1>3
<1> QED
  BY <1>3, <1>4, <1>5, RebalanceFacts

\* A promotion moves every other element down by one place at most.
LEMMA PromoteOrder ==
  ASSUME NEW S, NEW q \in Queues(S), NEW e \in Queued(q), NEW i \in 1 .. QSize(q)
  PROVE  \E j \in 1 .. i + 1 : j <= QSize(q) /\ Promote(q, e).order[j] = q.order[i]
<1> DEFINE s == q.order
           k == Position(q, e)
           t == RemoveAt(s, k)
           o == Cons(e, t)
           g == IF k <= q.hots THEN q.hots ELSE q.hots + 1
<1>1. /\ s \in Seq(S) /\ Len(s) \in Nat /\ q.hots \in 0 .. Len(s) /\ QSize(q) = Len(s)
      /\ Queued(q) \subseteq S
  BY QueueType, ToSetFacts
<1>2. k \in 1 .. Len(s) /\ s[k] = e
  BY PositionFacts
<1>3. Promote(q, e) = Rebalance([order |-> o, hots |-> g])
  BY DEF Promote
<1> HIDE DEF s, k
<1>4. /\ t \in Seq(S) /\ Len(t) = Len(s) - 1
      /\ \A j \in 1 .. Len(s) - 1 : t[j] = IF j < k THEN s[j] ELSE s[j + 1]
  BY <1>1, <1>2, RemoveAtFacts
<1> HIDE DEF t
<1>5. /\ o \in Seq(S) /\ Len(o) = Len(s)
      /\ \A j \in 1 .. Len(s) : o[j] = IF j = 1 THEN e ELSE t[j - 1]
  <2>1. /\ o \in Seq(S) /\ Len(o) = Len(t) + 1
        /\ \A j \in 1 .. Len(t) + 1 : o[j] = IF j = 1 THEN e ELSE t[j - 1]
    BY <1>1, <1>4, ConsFacts
  <2>2. Len(t) + 1 = Len(s)
    BY <1>1, <1>4
  <2> QED
    BY <2>1, <2>2
<1> HIDE DEF o
<1>6. g \in 0 .. Len(o)
  BY <1>1, <1>2, <1>5
<1> HIDE DEF g
<1>7. Promote(q, e).order = o
  BY <1>3, <1>5, <1>6, RebalanceFacts
<1>8. CASE i = k
  BY <1>1, <1>2, <1>5, <1>7, <1>8 DEF s
<1>9. CASE i < k
  <2>1. t[i] = s[i] /\ i + 1 \in 2 .. Len(s)
    BY <1>1, <1>2, <1>4, <1>9
  <2> QED
    BY <1>1, <1>5, <1>7, <2>1 DEF s
<1>10. CASE i > k
  <2>1. t[i - 1] = s[i] /\ i \in 2 .. Len(s)
    BY <1>1, <1>2, <1>4, <1>10
  <2> QED
    BY <1>1, <1>5, <1>7, <2>1 DEF s
<1> QED
  BY <1>1, <1>2, <1>8, <1>9, <1>10

\* A shrink leaves what it keeps in its place.
LEMMA ShrinkToOrder ==
  ASSUME NEW S, NEW q \in Queues(S), NEW n \in Nat, NEW j \in 1 .. QSize(q), j <= n
  PROVE  ShrinkTo(q, n).order[j] = q.order[j]
<1> DEFINE s == q.order
           h == q.hots
           o == SubSeq(s, 1, n)
           g == IF h <= n THEN h ELSE n
<1>1. /\ s \in Seq(S) /\ Len(s) \in Nat /\ h \in 0 .. Len(s) /\ QSize(q) = Len(s)
      /\ q = [order |-> s, hots |-> h]
  BY QueueType
<1>2. ShrinkTo(q, n) = IF n >= QSize(q) THEN Rebalance(q)
                       ELSE Rebalance([order |-> o, hots |-> g])
  BY DEF ShrinkTo
<1> HIDE DEF s, h
<1>3. CASE n >= QSize(q)
  BY <1>1, <1>2, <1>3, RebalanceFacts DEF s
<1>4. CASE ~(n >= QSize(q))
  <2>1. n \in 0 .. Len(s)
    BY <1>1, <1>4
  <2>2. o \in Seq(S) /\ Len(o) = n
    BY <1>1, <2>1, PrefixFacts
  <2>3. o[j] = s[j]
    BY <1>1, <2>1, SubSeqFacts
  <2> HIDE DEF o
  <2>4. g \in 0 .. Len(o)
    BY <1>1, <2>1, <2>2
  <2> HIDE DEF g
  <2> QED
    BY <1>2, <1>4, <2>2, <2>3, <2>4, RebalanceFacts DEF s
<1> QED
  BY <1>3, <1>4

\* The cleanup does not reach a live element: the maintenance keeps it, and all
\* that is warmer, in place, unless a decorator shrinks the queue further.
LEMMA MaintainOrder ==
  ASSUME NEW e \in Elem, NEW q, NEW p, Agree(q, p), Maintain(q, p, e),
         NEW i \in 1 .. QSize(q), q.order[i] \notin void
  PROVE  \E n \in Keep : /\ QSize(queue') >= i \/ QSize(queue') = n
                         /\ i <= QSize(queue') => queue'.order[i] = q.order[i]
<1> DEFINE D == {x \in Present \ {e} : Expired(p, held \union {e}, x) /\ x \notin pinned}
           w == WarmerThan(q, D)
           q1 == Cleanup(q, D)
<1>1. PICK n \in Keep : queue' = ShrinkTo(q1, n)
  BY DEF Maintain
<1>2. q \in Queues(Elem) /\ NoDup(q) /\ q.order[i] \in Queued(q) /\ QSize(q) \in Nat /\ n \in Nat
  BY QueueType, ToSetFacts, KeepType DEF Agree
<1>3. q.order[i] \notin D
  BY <1>2 DEF Agree, Expired, Present
<1> HIDE DEF D
<1>4. w \in 0 .. QSize(q) /\ \A j \in w + 1 .. QSize(q) : q.order[j] \in D
  BY <1>2, WarmerThanFacts
<1>5. q1 = ShrinkTo(q, w)
  BY DEF Cleanup, ShrinkWhile
<1> HIDE DEF w, q1
<1>6. i <= w
  BY <1>2, <1>3, <1>4
<1>7. q1 \in Queues(Elem) /\ NoDup(q1) /\ QSize(q1) = w
  BY <1>2, <1>4, <1>5, ShrinkToFacts
<1>8. q1.order[i] = q.order[i]
  BY <1>2, <1>4, <1>5, <1>6, ShrinkToOrder
<1>9. QSize(queue') = IF n >= w THEN w ELSE n
  BY <1>1, <1>2, <1>7, ShrinkToFacts
<1>10. i <= n => queue'.order[i] = q.order[i]
  BY <1>1, <1>2, <1>4, <1>6, <1>7, <1>8, ShrinkToOrder
<1> QED
  BY <1>2, <1>4, <1>6, <1>9, <1>10

\* A new element leaves the live elements of the hot zone where they are, and
\* a hit moves them down by one place at most.
LEMMA StepResists ==
  ASSUME IInv, NEW i \in 1 .. queue.hots, queue.order[i] \notin void,
         NEW e \in Elem, Create(e) \/ Hit(e)
  PROVE  LET x == queue.order[i]
         IN \/ Pressure /\ QSize(queue') < i
            \/ i <= QSize(queue') /\ queue'.order[i] = x
            \/ Hit(e) /\ (x \in Queued(queue') \/ (Pressure /\ QSize(queue') <= i))
<1> DEFINE x == queue.order[i]
           P == [ptr EXCEPT ![e] = "strong"]
           C == LinkCold(queue, e)
           R == Promote(queue, e)
<1>1. /\ Agree(queue, ptr) /\ queue \in Queues(Elem) /\ NoDup(queue)
      /\ QSize(queue) \in Nat /\ queue.hots \in 0 .. QSize(queue) /\ QSize(queue) <= MaxSize
      /\ MaxSize \in Nat
  BY QueueType, MaxSizeAssumption DEF IInv, Consistent, Agree
<1>2. i \in 1 .. QSize(queue) /\ i <= MaxSize
  BY <1>1
<1>3. ~Pressure => \A n \in Keep : n = MaxSize
  BY DEF Keep
<1>4. queue' \in Queues(Elem) /\ QSize(queue') \in Nat
  BY ServeFacts, QueueType DEF Agree
<1>5. CASE e \notin Queued(queue)
  <2>1. /\ C \in Queues(Elem) /\ NoDup(C) /\ Queued(C) = Queued(queue) \union {e}
        /\ QSize(C) = QSize(queue) + 1
    BY <1>1, <1>5, LinkColdFacts
  <2>2. C.order[i] = x
    BY <1>1, LinkColdOrder
  <2> HIDE DEF C
  <2>3. Agree(C, P)
    BY <1>1, <2>1 DEF Agree
  <2>4. Maintain(C, P, e)
    BY <1>5 DEF Create, Hit, C
  <2>5. i \in 1 .. QSize(C)
    BY <1>1, <1>2, <2>1
  <2>6. PICK n \in Keep : /\ QSize(queue') >= i \/ QSize(queue') = n
                          /\ i <= QSize(queue') => queue'.order[i] = x
    BY <2>2, <2>3, <2>4, <2>5, MaintainOrder
  <2> QED
    BY <1>2, <1>3, <1>4, <2>6
<1>6. CASE e \in Queued(queue)
  <2>1. Hit(e)
    BY <1>1, <1>6 DEF Create, Agree
  <2>2. /\ R \in Queues(Elem) /\ NoDup(R) /\ Queued(R) = Queued(queue)
        /\ QSize(R) = QSize(queue)
    BY <1>1, <1>6, PromoteFacts
  <2>3. PICK j \in 1 .. i + 1 : j <= QSize(queue) /\ R.order[j] = x
    BY <1>1, <1>2, <1>6, PromoteOrder
  <2> HIDE DEF R
  <2>4. Agree(R, ptr) /\ Maintain(R, ptr, e)
    BY <1>1, <1>6, <2>1, <2>2 DEF Agree, Hit, R
  <2>5. j \in 1 .. QSize(R)
    BY <1>1, <2>2, <2>3
  <2>6. PICK n \in Keep : /\ QSize(queue') >= j \/ QSize(queue') = n
                          /\ j <= QSize(queue') => queue'.order[j] = x
    BY <2>3, <2>4, <2>5, MaintainOrder
  <2>7. j <= QSize(queue') => x \in Queued(queue')
    BY <1>4, <2>6, QueueType, ToSetFacts
  <2>8. ~Pressure => j <= QSize(queue')
    BY <1>1, <1>3, <1>4, <2>3, <2>6
  <2>9. CASE j <= QSize(queue')
    BY <2>1, <2>7, <2>9
  <2>10. CASE ~(j <= QSize(queue'))
    <3>1. QSize(queue') <= i
      BY <1>1, <1>4, <2>3, <2>10
    <3>2. Pressure
      BY <2>8, <2>10
    <3> QED
      BY <2>1, <3>1, <3>2
  <2> QED
    BY <2>9, <2>10
<1> QED
  BY <1>5, <1>6

\* No scan of new elements, however long, pushes out what is requested often:
\* only the decorators of time and memory do, and from the cold end (the comment
\* on base_expire_queue::on_create).
THEOREM ScansAreResisted == Spec => ScanResistance
<1> DEFINE Resists ==
      \A i \in 1 .. queue.hots :
        LET x == queue.order[i]
            Pressed == Pressure /\ QSize(queue') < i
        IN x \notin void =>
             /\ (\E e \in Elem : Create(e)) =>
                  Pressed \/ (i <= QSize(queue') /\ queue'.order[i] = x)
             /\ (\E e \in Elem : Hit(e)) =>
                  (Pressure /\ QSize(queue') <= i) \/ x \in Queued(queue')
<1>1. IInv /\ [Next]_vars => [Resists]_vars
  <2> SUFFICES ASSUME IInv, [Next]_vars PROVE Resists
    OBVIOUS
  <2> SUFFICES ASSUME NEW i \in 1 .. queue.hots, queue.order[i] \notin void
               PROVE  LET x == queue.order[i]
                          Pressed == Pressure /\ QSize(queue') < i
                      IN /\ (\E e \in Elem : Create(e)) =>
                              Pressed \/ (i <= QSize(queue') /\ queue'.order[i] = x)
                         /\ (\E e \in Elem : Hit(e)) =>
                              (Pressure /\ QSize(queue') <= i) \/ x \in Queued(queue')
    OBVIOUS
  <2>1. queue.hots \in Nat /\ i \in Nat
    BY QueueType DEF IInv, Consistent
  <2>2. ASSUME NEW e \in Elem, Create(e)
        PROVE  \/ Pressure /\ QSize(queue') < i
               \/ i <= QSize(queue') /\ queue'.order[i] = queue.order[i]
    <3>1. ~Hit(e)
      BY <2>2 DEF Create, Hit, Present
    <3> QED
      BY <2>2, <3>1, StepResists
  <2>3. ASSUME NEW e \in Elem, Hit(e)
        PROVE  (Pressure /\ QSize(queue') <= i) \/ queue.order[i] \in Queued(queue')
    <3>1. queue' \in Queues(Elem) /\ QSize(queue') \in Nat
      BY <2>3, ServeFacts, QueueType DEF Agree
    <3>2. i <= QSize(queue') => queue'.order[i] \in Queued(queue')
      BY <2>1, <3>1, QueueType, ToSetFacts
    <3> QED
      BY <2>1, <2>3, <3>1, <3>2, StepResists
  <2> QED
    BY <2>2, <2>3
<1> QED
  BY <1>1, Invariance, PTL DEF Spec, ScanResistance
=============================================================================
