---------------------------- MODULE MemUse_proofs ----------------------------
(***************************************************************************)
(* Proofs about the memory accounting, for any number of threads and       *)
(* blocks and any sizes that fit the counter.                              *)
(*                                                                         *)
(* That the counter is right is inductive only together with who is about  *)
(* to change it: each thread between a deallocation and its subtraction    *)
(* has a dead block of its own, and what the cache still has to deallocate *)
(* is in use and out of reach.  The latter needs that the queue links only *)
(* elements of the cache.                                                  *)
(***************************************************************************)
EXTENDS MemUse, ExpireQueueOps_proofs

Counted == {b \in Block : place[b] \in {"used", "dead"}}

Types ==
  /\ cache \in {"open", "closing", "gone"}
  /\ lock \in Thread \union {None} /\ refs \subseteq Thread
  /\ pc \in [Thread -> {"idle", "new", "dead", "subtract"}]
  /\ blk \in [Thread -> Block \union {None}]
  /\ place \in [Block -> {"free", "raw", "used", "dead"}]
  /\ elem \subseteq Block /\ held \subseteq Block /\ todo \subseteq Block

Links ==
  /\ queue \in Queues(Block) /\ NoDup(queue) /\ IsBalanced(queue)
  /\ Queued(queue) \subseteq elem

\* What is within reach, or still to be deallocated, is in use.
InUse ==
  /\ \A b \in elem \union held \union todo : place[b] = "used"
  /\ todo \intersect (elem \union held) = {}
  /\ lock = None => todo = {}

\* The block of a thread that allocates or deallocates.
Mine ==
  /\ \A t \in Thread : pc[t] = "new" =>
       lock = t /\ todo = {} /\ cache = "open" /\ blk[t] \in Block /\ place[blk[t]] = "raw"
  /\ \A t \in Thread : pc[t] \in {"dead", "subtract"} =>
       blk[t] \in Block /\ place[blk[t]] = "dead"
  /\ \A t, u \in Thread :
       pc[t] \in {"dead", "subtract"} /\ pc[u] \in {"dead", "subtract"}
         /\ blk[t] = blk[u] => t = u

HasRef == \A t \in Thread : pc[t] = "subtract" => t \in refs

Balance == TrackerAlive => mem = Overhead + Size * Cardinality(Counted)

IInv == Types /\ Links /\ InUse /\ Mine /\ HasRef /\ Balance

\* Only finitely many blocks are counted.
LEMMA CountedFacts ==
  ASSUME Types
  PROVE  /\ IsFiniteSet(Counted) /\ Cardinality(Counted) \in Nat
         /\ Cardinality(Counted) <= Cardinality(Block) /\ Cardinality(Block) \in Nat
<1>1. IsFiniteSet(Block) /\ Counted \in SUBSET Block
  BY SizeAssumption DEF Counted
<1> QED
  BY <1>1, FS_Subset, FS_CardinalityType

\* What fits the counter does not wrap.
LEMMA Wraps == ASSUME NEW v \in Nat \ {0}, NEW x \in Nat, x < v PROVE x % v = x
OBVIOUS

\* More blocks take more bytes.
LEMMA Times ==
  ASSUME NEW s \in Nat, NEW m \in Nat, NEW n \in Nat, m <= n
  PROVE  s * m \in Nat /\ s * m <= s * n /\ s * (m + 1) = s * m + s
<1>1. s * m \in Nat /\ s * n \in Nat /\ s * (n - m) \in Nat
  OBVIOUS
<1>2. s * n = s * m + s * (n - m)
  OBVIOUS
<1> QED
  BY <1>1, <1>2

\* The shrink leaves a number of elements, the exact proportion among others.
LEMMA KeepsFacts ==
  ASSUME NEW n \in Nat, NEW cur \in Nat \ {0}
  PROVE  Keeps(n, cur) \subseteq 0 .. n /\ Keeps(n, cur) # {}
<1>1. CASE cur < MaxMem
  BY <1>1 DEF Keeps
<1>2. CASE ~(cur < MaxMem)
  <2> DEFINE x == n * MaxMem
             m == x \div cur
             A == Accuracy
  <2>1. x \in Nat /\ MaxMem \in Nat /\ A \in Nat \ {0} /\ MaxMem <= cur
    BY <1>2, SizeAssumption, AccuracyAssumption
  <2>2. x <= n * cur
    BY <2>1, Times
  <2> HIDE DEF x, A
  <2>3. m \in Nat /\ m * cur <= x /\ x < (m + 1) * cur
    BY <2>1
  <2> HIDE DEF m
  <2>4. m <= n
    <3> SUFFICES ASSUME n + 1 <= m PROVE FALSE
      BY <2>3
    <3>1. cur * (n + 1) <= cur * m
      BY <2>3, Times
    <3>2. cur * (n + 1) = n * cur + cur /\ cur * m = m * cur /\ n * cur \in Nat /\ m * cur \in Nat
      BY <2>3
    <3> QED
      BY <3>1, <3>2, <2>1, <2>2, <2>3
  <2>5. m * cur * A <= x * (A + 1)
    <3> DEFINE y == m * cur
    <3>1. y \in Nat
      BY <2>3
    <3> HIDE DEF y
    <3>2. A * y <= A * x /\ A * y \in Nat
      BY <3>1, <2>1, <2>3, Times DEF y
    <3>3. y * A = A * y /\ x * (A + 1) = A * x + x /\ A * x \in Nat
      BY <3>1, <2>1
    <3>4. y * A <= x * (A + 1)
      BY <3>2, <3>3, <2>1
    <3> QED
      BY <3>4 DEF y
  <2>6. (m + 1) * cur * A > x * (A - 1)
    <3> DEFINE z == (m + 1) * cur
    <3>1. z \in Nat
      BY <2>3
    <3>2. x + 1 <= z
      BY <2>3, <2>1, <3>1
    <3> HIDE DEF z
    <3>3. A * (x + 1) <= A * z
      BY <3>1, <3>2, <2>1, Times
    <3>4. A * (x + 1) = A * x + A /\ x * (A - 1) = A * x - x /\ A * x \in Nat /\ z * A = A * z
      BY <3>1, <2>1
    <3>5. z * A > x * (A - 1)
      BY <3>1, <3>3, <3>4, <2>1
    <3> QED
      BY <3>5 DEF z
  <2>7. m \in 0 .. n
    BY <2>3, <2>4
  <2>8. m * cur * Accuracy <= n * MaxMem * (Accuracy + 1)
    BY <2>5 DEF x, A
  <2>9. (m + 1) * cur * Accuracy > n * MaxMem * (Accuracy - 1)
    BY <2>6 DEF x, A
  <2> QED
    BY <1>2, <2>7, <2>8, <2>9 DEF Keeps
<1> QED
  BY <1>1, <1>2

\* The maintenance of a hit or a creation leaves the queue in order, and to
\* deallocate only what nobody reaches.
LEMMA MaintainFacts ==
  ASSUME NEW q \in Queues(Block), NoDup(q), NEW b \in Block, b \in Queued(q),
         Queued(q) \subseteq elem \union {b}, elem \subseteq Block,
         NEW cur \in Nat \ {0}, Maintain(q, b, cur)
  PROVE  /\ Links'
         /\ elem' \subseteq elem \union {b} /\ todo' \subseteq elem \union {b}
         /\ held' = held \union {b}
         /\ todo' \intersect (elem' \union held') = {}
<1>2. QSize(q) \in Nat
  BY QueueType
<1>0. PICK m \in Keeps(QSize(q), cur) :
        LET r == ShrinkTo(q, m)
            gone == Freed(Queued(q) \ Queued(r), held \union {b})
        IN /\ queue' = r
           /\ elem' = (elem \union {b}) \ gone
           /\ held' = held \union {b}
           /\ todo' = gone
  BY DEF Maintain
<1> DEFINE q1 == ShrinkTo(q, m)
           dead == (Queued(q) \ Queued(q1)) \ (held \union {b})
<1>1. /\ queue' = q1 /\ elem' = (elem \union {b}) \ dead
      /\ held' = held \union {b} /\ todo' = dead
  BY <1>0 DEF Freed
<1>3. m \in Nat
  BY <1>0, <1>2, KeepsFacts
<1>4. q1 \in Queues(Block) /\ NoDup(q1) /\ IsBalanced(q1) /\ Queued(q1) \subseteq Queued(q)
  BY <1>3, ShrinkToFacts
<1> HIDE DEF q1
<1>5. Queued(q1) \subseteq elem'
  BY <1>1, <1>4
<1>6. Links'
  BY <1>1, <1>4, <1>5 DEF Links
<1> QED
  BY <1>1, <1>6

\* An empty cache satisfies the invariant.
LEMMA InitIInv == Init => IInv
<1> SUFFICES ASSUME Init PROVE IInv
  OBVIOUS
<1>1. Types
  BY DEF Init, Types
<1>2. Links
  <2>1. EmptyQueue \in Queues(Block)
    BY DEF EmptyQueue, Queues, QSize
  <2>2. EmptyQueue.order = << >> /\ EmptyQueue.hots = 0 /\ QSize(EmptyQueue) = 0
    BY DEF EmptyQueue, QSize
  <2>3. Queued(EmptyQueue) = {}
    BY <2>2 DEF Queued, ToSet
  <2> QED
    BY <2>1, <2>2, <2>3 DEF Init, Links, NoDup, Distinct, IsBalanced
<1>3. InUse /\ Mine /\ HasRef
  BY DEF Init, InUse, Mine, HasRef
<1>4. Balance
  <2>1. Counted = {}
    BY DEF Init, Counted
  <2> QED
    BY <2>1, FS_EmptySet, SizeAssumption DEF Init, Balance
<1> QED
  BY <1>1, <1>2, <1>3, <1>4 DEF IInv

\* While the tracker lives the counter is positive, and counting one more block
\* does not wrap.
LEMMA CounterFacts ==
  ASSUME IInv, TrackerAlive
  PROVE  /\ mem \in Nat \ {0}
         /\ \A b \in Block \ Counted : (mem + Size) % Values = mem + Size
         /\ \A b \in Counted : mem - Size \in Nat /\ (mem - Size) % Values = mem - Size
<1> DEFINE N == Cardinality(Counted)
           B == Cardinality(Block)
<1>1. mem = Overhead + Size * N
  BY DEF IInv, Balance
<1>2. N \in Nat /\ B \in Nat /\ N <= B /\ IsFiniteSet(Counted) /\ IsFiniteSet(Block)
  BY CountedFacts, SizeAssumption DEF IInv
<1>3. /\ Size \in Nat \ {0} /\ Overhead \in Nat \ {0} /\ Values \in Nat \ {0}
      /\ Overhead + Size * B < Values
  BY SizeAssumption
<1> HIDE DEF N, B
<1>4. Size * N \in Nat /\ Size * B \in Nat
  BY <1>2, <1>3
<1>5. ASSUME NEW b \in Block \ Counted
      PROVE  (mem + Size) % Values = mem + Size
  <2>1. N + 1 <= B
    <3>1. Counted \union {b} \in SUBSET Block
      BY DEF Counted
    <3>2. Cardinality(Counted \union {b}) = N + 1
      BY <1>2, FS_AddElement DEF N
    <3> QED
      BY <3>1, <3>2, <1>2, FS_Subset DEF B
  <2>2. Size * (N + 1) <= Size * B
    BY <2>1, <1>2, <1>3, Times
  <2>3. Size * (N + 1) = Size * N + Size
    BY <1>2, <1>3
  <2> HIDE DEF N, B
  <2>4. mem + Size < Values /\ mem + Size \in Nat
    BY <1>1, <1>3, <1>4, <2>2, <2>3
  <2> QED
    BY <2>4, <1>3, Wraps
<1>6. ASSUME NEW b \in Counted
      PROVE  mem - Size \in Nat /\ (mem - Size) % Values = mem - Size
  <2>1. N # 0
    BY <1>2, <1>6, FS_EmptySet DEF N
  <2>2. N - 1 \in Nat /\ N = (N - 1) + 1
    BY <2>1, <1>2
  <2>3. Size * (N - 1) \in Nat /\ Size * N = Size * (N - 1) + Size
    BY <2>2, <1>3
  <2>4. Size * N <= Size * B
    BY <1>2, <1>3, Times
  <2>5. mem - Size \in Nat /\ mem - Size < Values
    BY <1>1, <1>3, <1>4, <2>3, <2>4
  <2> QED
    BY <2>5, <1>3, Wraps
<1>7. mem \in Nat \ {0}
  BY <1>1, <1>3, <1>4
<1> QED
  BY <1>5, <1>6, <1>7

\* How the counter follows when one block more, one less or none is counted.
LEMMA BalanceStep ==
  ASSUME IInv, NEW b \in Block,
         \/ Counted' = Counted /\ mem' = mem
         \/ b \notin Counted /\ Counted' = Counted \union {b} /\ mem' = (mem + Size) % Values
         \/ b \in Counted /\ Counted' = Counted \ {b} /\ mem' = (mem - Size) % Values,
         TrackerAlive
  PROVE  Balance'
<1> DEFINE N == Cardinality(Counted)
<1>1. N \in Nat /\ IsFiniteSet(Counted) /\ Size \in Nat /\ Overhead \in Nat
  BY CountedFacts, SizeAssumption DEF IInv
<1>2. mem = Overhead + Size * N /\ mem \in Nat
  BY CounterFacts DEF IInv, Balance
<1>3. CASE Counted' = Counted /\ mem' = mem
  BY <1>2, <1>3 DEF Balance
<1>4. CASE b \notin Counted /\ Counted' = Counted \union {b} /\ mem' = (mem + Size) % Values
  <2>1. Cardinality(Counted') = N + 1
    BY <1>1, <1>4, FS_AddElement
  <2>2. mem' = mem + Size
    BY <1>4, CounterFacts
  <2>3. Size * (N + 1) = Size * N + Size /\ Size * N \in Nat
    BY <1>1
  <2> HIDE DEF N
  <2>4. mem' = Overhead + Size * (N + 1)
    BY <1>1, <1>2, <2>2, <2>3
  <2> QED
    BY <2>1, <2>4 DEF Balance
<1>5. CASE b \in Counted /\ Counted' = Counted \ {b} /\ mem' = (mem - Size) % Values
  <2>1. Cardinality(Counted') = N - 1
    BY <1>1, <1>5, FS_RemoveElement
  <2>2. mem' = mem - Size
    BY <1>5, CounterFacts
  <2>3. Size * N = Size * (N - 1) + Size /\ Size * N \in Nat /\ Size * (N - 1) \in Int
    BY <1>1
  <2> HIDE DEF N
  <2>4. mem' = Overhead + Size * (N - 1)
    BY <1>1, <1>2, <2>2, <2>3
  <2> QED
    BY <2>1, <2>4 DEF Balance
<1> QED
  BY <1>3, <1>4, <1>5

\* One lemma for each kind of step.  The creation and the hit of an element:
LEMMA CreateStep ==
  ASSUME IInv, NEW t \in Thread, Create(t)
  PROVE  IInv'
<1> DEFINE b == blk[t]
           q == LinkCold(queue, b)
           added == (mem + Size) % Values
<1>1. /\ lock = t /\ todo = {} /\ cache = "open" /\ b \in Block /\ place[b] = "raw"
      /\ t # None /\ TrackerAlive
  BY NoneAssumption DEF IInv, Mine, Create, TrackerAlive
<1>2. b \notin elem \union held /\ b \notin Counted
  BY <1>1 DEF IInv, InUse, Counted
<1>3. elem \subseteq Block /\ queue \in Queues(Block) /\ NoDup(queue) /\ Queued(queue) \subseteq elem
  BY DEF IInv, Types, Links
<1>4. q \in Queues(Block) /\ NoDup(q) /\ Queued(q) = Queued(queue) \union {b}
  BY <1>1, <1>2, <1>3, LinkColdFacts
<1>5. added \in Nat \ {0} /\ mem' = added
  BY <1>1, <1>2, CounterFacts, SizeAssumption DEF Create
<1>6. Maintain(q, b, added)
  BY DEF Create
<1> HIDE DEF q, added
<1>7. /\ Links'
      /\ elem' \subseteq elem \union {b} /\ todo' \subseteq elem \union {b}
      /\ held' = held \union {b}
      /\ todo' \intersect (elem' \union held') = {}
  BY <1>1, <1>3, <1>4, <1>5, <1>6, MaintainFacts
<1>8. /\ place' = [place EXCEPT ![b] = "used"]
      /\ pc' = [pc EXCEPT ![t] = "idle"] /\ blk' = [blk EXCEPT ![t] = None]
      /\ UNCHANGED <<cache, lock, refs>> /\ pc[t] = "new"
  BY DEF Create
<1> HIDE DEF b
<1>9. Types'
  BY <1>1, <1>7, <1>8 DEF IInv, Types
<1>10. InUse'
  BY <1>1, <1>2, <1>7, <1>8 DEF IInv, Types, InUse
<1>11. Mine'
  <2>1. \A u \in Thread \ {t} : pc[u] # "new"
    BY <1>1 DEF IInv, Mine
  <2>2. \A u \in Thread : pc[u] \in {"dead", "subtract"} => blk[u] # b
    BY <1>1 DEF IInv, Mine
  <2> QED
    BY <2>1, <2>2, <1>1, <1>8 DEF IInv, Types, Mine
<1>12. HasRef'
  BY <1>8 DEF IInv, Types, HasRef
<1>13. Balance'
  <2>1. Counted' = Counted \union {b}
    BY <1>1, <1>8 DEF IInv, Types, Counted
  <2> QED
    BY <2>1, <1>1, <1>2, <1>5, BalanceStep DEF added
<1> QED
  BY <1>7, <1>9, <1>10, <1>11, <1>12, <1>13 DEF IInv

\* A hit, whose maintenance may drop others.
LEMMA HitStep ==
  ASSUME IInv, NEW t \in Thread, NEW b \in Block, Hit(t, b)
  PROVE  IInv'
<1> DEFINE q == IF b \in Queued(queue) THEN Promote(queue, b) ELSE LinkCold(queue, b)
<1>1. /\ cache = "open" /\ lock = None /\ todo = {} /\ b \in elem /\ TrackerAlive
      /\ pc[t] = "idle"
  BY DEF IInv, InUse, Hit, TrackerAlive
<1>2. elem \subseteq Block /\ queue \in Queues(Block) /\ NoDup(queue) /\ Queued(queue) \subseteq elem
  BY DEF IInv, Types, Links
<1>3. q \in Queues(Block) /\ NoDup(q) /\ Queued(q) = Queued(queue) \union {b}
  <2>1. CASE b \in Queued(queue)
    BY <2>1, <1>2, PromoteFacts
  <2>2. CASE b \notin Queued(queue)
    BY <2>2, <1>2, LinkColdFacts
  <2> QED
    BY <2>1, <2>2
<1>4. mem \in Nat \ {0}
  BY <1>1, CounterFacts
<1>5. Maintain(q, b, mem)
  BY DEF Hit
<1> HIDE DEF q
<1>6. /\ Links'
      /\ elem' \subseteq elem \union {b} /\ todo' \subseteq elem \union {b}
      /\ held' = held \union {b}
      /\ todo' \intersect (elem' \union held') = {}
  BY <1>1, <1>2, <1>3, <1>4, <1>5, MaintainFacts
<1>7. lock' = t /\ UNCHANGED <<mem, cache, refs, pc, blk, place>>
  BY DEF Hit
<1>8. Types'
  BY <1>6, <1>7 DEF IInv, Types
<1>9. InUse'
  BY <1>1, <1>6, <1>7, NoneAssumption DEF IInv, InUse
<1>10. Mine'
  <2>1. \A u \in Thread : pc[u] # "new"
    BY <1>1, NoneAssumption DEF IInv, Mine
  <2> QED
    BY <2>1, <1>7 DEF IInv, Mine
<1>11. HasRef'
  BY <1>7 DEF IInv, HasRef
<1>12. Balance'
  BY <1>7, <1>1 DEF IInv, Balance, Counted, TrackerAlive
<1> QED
  BY <1>6, <1>8, <1>9, <1>10, <1>11, <1>12 DEF IInv

\* The erasure of an element.
LEMMA EraseStep ==
  ASSUME IInv, NEW t \in Thread, NEW b \in Block, Erase(t, b)
  PROVE  IInv'
<1>1. /\ todo = {} /\ b \in elem /\ pc[t] = "idle" /\ cache # "gone"
      /\ lock = None \/ lock = t
  BY DEF IInv, InUse, Erase
<1>2. /\ queue' = Unlink(queue, b) /\ elem' = elem \ {b} /\ todo' = {b} \ held
      /\ lock' = t /\ UNCHANGED <<mem, cache, refs, pc, blk, place, held>>
  BY DEF Erase
<1>3. Types'
  BY <1>2 DEF IInv, Types
<1>4. Links'
  <2>1. /\ Unlink(queue, b) \in Queues(Block) /\ NoDup(Unlink(queue, b))
        /\ IsBalanced(Unlink(queue, b)) /\ Queued(Unlink(queue, b)) = Queued(queue) \ {b}
    BY UnlinkFacts DEF IInv, Links
  <2> QED
    BY <2>1, <1>2 DEF IInv, Links
<1>5. InUse'
  BY <1>1, <1>2, NoneAssumption DEF IInv, InUse
<1>6. Mine'
  <2>1. \A u \in Thread : pc[u] # "new"
    BY <1>1, NoneAssumption DEF IInv, Mine
  <2> QED
    BY <2>1, <1>2 DEF IInv, Mine
<1>7. HasRef' /\ Balance'
  BY <1>1, <1>2 DEF IInv, HasRef, Balance, Counted, TrackerAlive
<1> QED
  BY <1>3, <1>4, <1>5, <1>6, <1>7 DEF IInv

\* The steps of an allocation and of a deallocation, and those of the lock and
\* of the destruction.
LEMMA BlockStep ==
  ASSUME IInv, NEW t \in Thread, NEW b \in Block,
         Allocate(t, b) \/ DropErased(t, b) \/ Release(t, b)
  PROVE  IInv'
<1>1. CASE Allocate(t, b)
  <2> USE <1>1 DEF Allocate
  <2>1. b \notin elem \union held \union todo /\ todo = {} /\ t # None
    BY NoneAssumption DEF IInv, InUse
  <2>2. Types' /\ Links' /\ HasRef'
    BY DEF IInv, Types, Links, HasRef
  <2>3. InUse'
    BY <2>1 DEF IInv, Types, InUse
  <2>4. Mine'
    <3>1. \A u \in Thread : pc[u] # "new"
      BY NoneAssumption DEF IInv, Mine
    <3>2. \A u \in Thread : pc[u] \in {"dead", "subtract"} => blk[u] # b
      BY DEF IInv, Mine
    <3> QED
      BY <3>1, <3>2, <2>1 DEF IInv, Types, Mine
  <2>5. Balance'
    <3>1. Counted' = Counted
      BY DEF IInv, Types, Counted
    <3> QED
      BY <3>1 DEF IInv, Balance, TrackerAlive
  <2> QED
    BY <2>2, <2>3, <2>4, <2>5 DEF IInv
<1>2. CASE DropErased(t, b)
  <2> USE <1>2 DEF DropErased
  <2>1. place[b] = "used" /\ b \notin elem \union held /\ t # None
    BY NoneAssumption DEF IInv, InUse
  <2>2. Types' /\ Links' /\ HasRef'
    BY DEF IInv, Types, Links, HasRef
  <2>3. InUse'
    BY <2>1 DEF IInv, Types, InUse
  <2>4. Mine'
    <3>1. \A u \in Thread : pc[u] # "new"
      BY DEF IInv, Mine
    <3>2. \A u \in Thread : pc[u] \in {"dead", "subtract"} => blk[u] # b
      BY <2>1 DEF IInv, Mine
    <3> QED
      BY <3>1, <3>2 DEF IInv, Types, Mine
  <2>5. Balance'
    <3>1. Counted' = Counted
      BY <2>1 DEF IInv, Types, Counted
    <3> QED
      BY <3>1 DEF IInv, Balance, TrackerAlive
  <2> QED
    BY <2>2, <2>3, <2>4, <2>5 DEF IInv
<1>3. CASE Release(t, b) /\ b \in elem
  <2>1. /\ held' = held \ {b}
        /\ UNCHANGED <<mem, cache, lock, refs, pc, blk, todo, place, queue, elem>>
    BY <1>3 DEF Release
  <2>2. Types' /\ Links' /\ InUse' /\ Mine' /\ HasRef'
    BY <2>1 DEF IInv, Types, Links, InUse, Mine, HasRef
  <2>3. Balance'
    BY <2>1 DEF IInv, Balance, Counted, TrackerAlive
  <2> QED
    BY <2>2, <2>3 DEF IInv
<1>4. CASE Release(t, b) /\ b \notin elem
  <2>1. /\ held' = held \ {b} /\ b \in held /\ pc[t] = "idle"
        /\ place' = [place EXCEPT ![b] = "dead"]
        /\ pc' = [pc EXCEPT ![t] = "dead"] /\ blk' = [blk EXCEPT ![t] = b]
        /\ UNCHANGED <<mem, cache, lock, refs, todo, queue, elem>>
    BY <1>4 DEF Release
  <2>2. place[b] = "used" /\ b \notin elem \union todo
    BY <2>1, <1>4 DEF IInv, InUse
  <2>3. Types' /\ Links' /\ HasRef'
    BY <2>1 DEF IInv, Types, Links, HasRef
  <2>4. InUse'
    BY <2>1, <2>2 DEF IInv, Types, InUse
  <2>5. Mine'
    <3>1. \A u \in Thread : pc[u] \in {"new", "dead", "subtract"} => blk[u] # b
      BY <2>2 DEF IInv, Mine
    <3> QED
      BY <3>1, <2>1 DEF IInv, Types, Mine
  <2>6. Balance'
    <3>1. Counted' = Counted
      BY <2>1, <2>2 DEF IInv, Types, Counted
    <3> QED
      BY <3>1, <2>1 DEF IInv, Balance, TrackerAlive
  <2> QED
    BY <2>3, <2>4, <2>5, <2>6 DEF IInv
<1> QED
  BY <1>1, <1>2, <1>3, <1>4

\* An allocation is given up, or one half of a subtraction is made.
LEMMA CountStep ==
  ASSUME IInv, NEW t \in Thread, CreateFails(t) \/ LockTracker(t) \/ Subtract(t)
  PROVE  IInv'
<1> DEFINE b == blk[t]
<1>1. CASE CreateFails(t)
  <2> USE <1>1 DEF CreateFails
  <2>1. b \in Block /\ place[b] = "raw" /\ lock = t /\ todo = {} /\ TrackerAlive
    BY DEF IInv, Mine, TrackerAlive
  <2>2. b \notin elem \union held \union todo /\ b \notin Counted
    BY <2>1 DEF IInv, InUse, Counted
  <2>3. Types' /\ Links' /\ HasRef'
    BY DEF IInv, Types, Links, HasRef
  <2>4. InUse'
    BY <2>1, <2>2 DEF IInv, Types, InUse
  <2>5. Mine'
    <3>1. \A u \in Thread \ {t} : pc[u] # "new"
      BY <2>1 DEF IInv, Mine
    <3>2. \A u \in Thread : pc[u] \in {"dead", "subtract"} => blk[u] # b
      BY <2>1 DEF IInv, Mine
    <3> QED
      BY <3>1, <3>2, <2>1 DEF IInv, Types, Mine
  <2>6. Balance'
    <3>1. Counted' = Counted \union {b}
      BY <2>1 DEF IInv, Types, Counted
    <3> QED
      BY <3>1, <2>1, <2>2, BalanceStep
  <2> QED
    BY <2>3, <2>4, <2>5, <2>6 DEF IInv
<1>2. CASE LockTracker(t) /\ TrackerAlive
  <2>1. /\ refs' = refs \union {t} /\ pc' = [pc EXCEPT ![t] = "subtract"] /\ pc[t] = "dead"
        /\ UNCHANGED <<mem, cache, lock, todo, queue, elem, held, blk, place>>
    BY <1>2 DEF LockTracker
  <2>2. Types' /\ Links' /\ InUse' /\ Mine' /\ HasRef'
    BY <2>1 DEF IInv, Types, Links, InUse, Mine, HasRef
  <2>3. Balance'
    BY <2>1, <1>2 DEF IInv, Balance, Counted
  <2> QED
    BY <2>2, <2>3 DEF IInv
<1>3. ASSUME pc[t] \in {"dead", "subtract"}, pc' = [pc EXCEPT ![t] = "idle"],
             blk' = [blk EXCEPT ![t] = None], place' = [place EXCEPT ![b] = "free"],
             UNCHANGED <<cache, lock, todo, queue, elem, held>>, refs' \subseteq refs,
             refs \subseteq refs' \union {t}
      PROVE  /\ Types' /\ Links' /\ InUse' /\ Mine' /\ HasRef'
             /\ b \in Counted /\ Counted' = Counted \ {b} /\ b \in Block
  <2> USE <1>3
  <2>1. b \in Block /\ place[b] = "dead"
    BY DEF IInv, Mine
  <2>2. Types' /\ Links' /\ HasRef'
    BY DEF IInv, Types, Links, HasRef
  <2>3. InUse'
    BY <2>1 DEF IInv, Types, InUse
  <2>4. Mine'
    <3>1. \A u \in Thread \ {t} : pc[u] \in {"new", "dead", "subtract"} => blk[u] # b
      BY <2>1 DEF IInv, Mine
    <3> QED
      BY <3>1 DEF IInv, Types, Mine
  <2>5. b \in Counted /\ Counted' = Counted \ {b}
    BY <2>1 DEF IInv, Types, Counted
  <2> QED
    BY <2>1, <2>2, <2>3, <2>4, <2>5
<1>4. CASE LockTracker(t) /\ ~TrackerAlive
  <2>1. /\ pc[t] = "dead" /\ pc' = [pc EXCEPT ![t] = "idle"] /\ blk' = [blk EXCEPT ![t] = None]
        /\ place' = [place EXCEPT ![b] = "free"]
        /\ UNCHANGED <<refs, mem, cache, lock, todo, queue, elem, held>>
    BY <1>4 DEF LockTracker
  <2>2. Balance'
    BY <2>1, <1>4 DEF Balance, TrackerAlive
  <2> QED
    BY <2>1, <2>2, <1>3 DEF IInv
<1>5. CASE Subtract(t)
  <2>1. /\ pc[t] = "subtract" /\ pc' = [pc EXCEPT ![t] = "idle"]
        /\ blk' = [blk EXCEPT ![t] = None] /\ place' = [place EXCEPT ![b] = "free"]
        /\ refs' = refs \ {t} /\ mem' = (mem - Size) % Values
        /\ UNCHANGED <<cache, lock, todo, queue, elem, held>>
    BY <1>5 DEF Subtract, Subtracted
  <2>2. TrackerAlive
    BY <2>1 DEF IInv, HasRef, TrackerAlive
  <2>3. /\ Types' /\ Links' /\ InUse' /\ Mine' /\ HasRef'
        /\ b \in Counted /\ Counted' = Counted \ {b} /\ b \in Block
    BY <2>1, <1>3
  <2>4. Balance'
    BY <2>1, <2>2, <2>3, BalanceStep
  <2> QED
    BY <2>3, <2>4 DEF IInv
<1> QED
  BY <1>1, <1>2, <1>4, <1>5

\* The cache is unlocked, closed or at its end.
LEMMA LockStep ==
  ASSUME IInv, NEW t \in Thread, Unlock(t) \/ Close(t) \/ Gone(t)
  PROVE  IInv'
<1>1. /\ UNCHANGED <<mem, refs, pc, blk, todo, place, queue, elem, held>>
      /\ pc[t] = "idle" /\ lock \in {None, t} /\ todo = {} /\ lock' \in {None, t}
      /\ cache' \in {"open", "closing", "gone"} /\ TrackerAlive
  BY DEF Unlock, Close, Gone, IInv, Types, InUse, TrackerAlive
<1>2. Types' /\ Links' /\ InUse' /\ HasRef'
  BY <1>1 DEF IInv, Types, Links, InUse, HasRef
<1>3. Mine'
  <2>1. \A u \in Thread : pc[u] # "new"
    BY <1>1, NoneAssumption DEF IInv, Mine
  <2> QED
    BY <2>1, <1>1 DEF IInv, Mine
<1>4. Balance'
  BY <1>1 DEF IInv, Balance, Counted
<1> QED
  BY <1>2, <1>3, <1>4 DEF IInv

\* Every step keeps the invariant.
LEMMA NextIInv == IInv /\ [Next]_vars => IInv'
<1> SUFFICES ASSUME IInv, [Next]_vars PROVE IInv'
  OBVIOUS
<1>1. CASE UNCHANGED vars
  <2>1. UNCHANGED <<mem, cache, lock, refs, pc, blk, todo, place, queue, elem, held>>
    BY <1>1 DEF vars
  <2>2. Types' /\ Links' /\ InUse' /\ Mine' /\ HasRef'
    BY <2>1 DEF IInv, Types, Links, InUse, Mine, HasRef
  <2>3. Balance'
    BY <2>1 DEF IInv, Balance, Counted, TrackerAlive
  <2> QED
    BY <2>2, <2>3 DEF IInv
<1>2. CASE Next
  BY <1>2, CreateStep, HitStep, EraseStep, BlockStep, CountStep, LockStep DEF Next
<1> QED
  BY <1>1, <1>2

\* Every reachable state satisfies the inductive invariant (cache_allocator and
\* mem_use).
THEOREM Invariance == Spec => []IInv
BY InitIInv, NextIInv, PTL DEF Spec

\* The counter is exact whatever the threads deallocate behind the back of the
\* cache; it neither wraps nor reaches zero (mem_use).
THEOREM CounterExact == Spec => []Accounted
<1>1. IInv => Accounted
  BY DEF IInv, Balance, Accounted, Counted
<1> QED
  BY <1>1, Invariance, PTL

\* A thread that subtracts finds the tracker, also after the cache is gone (the
\* weak pointer of cache_allocator).
THEOREM TrackerIsThere == Spec => []TrackerOutlivesUse
<1>1. IInv => TrackerOutlivesUse
  BY DEF IInv, HasRef, TrackerOutlivesUse, TrackerAlive
<1> QED
  BY <1>1, Invariance, PTL

\* A list of distinct members of a finite set is no longer than the set.
LEMMA DistinctIsShort ==
  ASSUME NEW S, IsFiniteSet(S), NEW s \in Seq(S), Distinct(s)
  PROVE  Len(s) \in Nat /\ Cardinality(S) \in Nat /\ Len(s) <= Cardinality(S)
<1>1. Len(s) \in Nat /\ s \in [1 .. Len(s) -> S]
  BY LenProperties
<1>2. s \in Injection(1 .. Len(s), S)
  BY <1>1 DEF Distinct, Injection, IsInjective
<1>3. Cardinality(1 .. Len(s)) = Len(s)
  BY <1>1, FS_Interval
<1>4. Cardinality(1 .. Len(s)) <= Cardinality(S) /\ Cardinality(S) \in Nat
  BY <1>2, FS_Injection, FS_CardinalityType
<1> QED
  BY <1>1, <1>3, <1>4

\* Shrunk in proportion, n blocks that are part of cur bytes fit in the limit, up
\* to the rounding.
LEMMA KeepFits ==
  ASSUME NEW n \in Nat, NEW cur \in Nat \ {0}, Size * n <= cur, NEW k \in Keeps(n, cur)
  PROVE  Size * k * Accuracy <= MaxMem * (Accuracy + 1)
<1> DEFINE A == Accuracy
           limit == MaxMem * (A + 1)
<1>1. /\ Size \in Nat /\ MaxMem \in Nat /\ Size * n \in Nat /\ A \in Nat \ {0}
      /\ limit \in Nat /\ k \in Nat /\ k <= n
  BY SizeAssumption, AccuracyAssumption, KeepsFacts
<1>2. CASE cur < MaxMem
  <2>1. k = n
    BY <1>2 DEF Keeps
  <2> HIDE DEF A
  <2>2. A * (Size * n) <= A * MaxMem /\ A * (Size * n) \in Nat
    BY <1>1, <1>2, Times
  <2>3. limit = A * MaxMem + MaxMem /\ A * MaxMem \in Nat
    BY <1>1
  <2>4. Size * k * A = A * (Size * n)
    BY <1>1, <2>1
  <2>5. Size * k * A <= limit
    BY <1>1, <2>2, <2>3, <2>4
  <2> QED
    BY <2>5 DEF A
<1>3. CASE ~(cur < MaxMem)
  <2> DEFINE y == k * cur * A
             x == Size * k * A
  <2>1. y <= n * MaxMem * (A + 1)
    BY <1>3 DEF Keeps
  <2> HIDE DEF A
  <2>2. n * MaxMem * (A + 1) = n * limit /\ n * limit \in Nat
    BY <1>1
  <2> HIDE DEF limit
  <2>3. y \in Nat /\ x \in Nat
    BY <1>1
  <2>4. x * cur = Size * y
    BY <1>1
  <2> HIDE DEF x, y
  <2>5. Size * y <= Size * (n * limit) /\ Size * y \in Nat
    BY <1>1, <2>1, <2>2, <2>3, Times
  <2>6. Size * (n * limit) = limit * (Size * n)
    BY <1>1
  <2>7. limit * (Size * n) <= limit * cur /\ limit * (Size * n) \in Nat /\ limit * cur \in Nat
    BY <1>1, Times
  <2>8. x * cur <= limit * cur
    BY <2>4, <2>5, <2>6, <2>7
  <2>9. x <= limit
    <3> SUFFICES ASSUME limit + 1 <= x PROVE FALSE
      BY <2>3, <1>1
    <3>1. cur * (limit + 1) <= cur * x
      BY <2>3, <1>1, Times
    <3>2. cur * (limit + 1) = cur * limit + cur /\ cur * limit \in Nat
      BY <1>1
    <3>3. cur * x = x * cur /\ cur * limit = limit * cur /\ cur * x \in Nat
      BY <2>3, <1>1
    <3> QED
      BY <3>1, <3>2, <3>3, <2>8
  <2> QED
    BY <2>9 DEF x, limit, A
<1> QED
  BY <1>2, <1>3

\* The maintenance with the counter in cur, of a queue of counted blocks.
LEMMA MaintainFits ==
  ASSUME NEW q \in Queues(Block), NoDup(q), NEW b, NEW C \in SUBSET Block,
         Queued(q) \subseteq C, NEW cur \in Nat \ {0}, Size * Cardinality(C) <= cur,
         Maintain(q, b, cur)
  PROVE  Size * QSize(queue') * Accuracy <= MaxMem * (Accuracy + 1)
<1> DEFINE n == QSize(q)
<1>6. PICK k \in Keeps(n, cur) : queue' = ShrinkTo(q, k)
  BY DEF Maintain
<1>1. IsFiniteSet(C) /\ Cardinality(C) \in Nat /\ Size \in Nat /\ MaxMem \in Nat
  BY SizeAssumption, FS_Subset, FS_CardinalityType
<1>2. q.order \in Seq(C) /\ Distinct(q.order) /\ n = Len(q.order)
  <2>1. q.order \in Seq(Block) /\ n = Len(q.order) /\ Distinct(q.order) /\ Queued(q) = ToSet(q.order)
    BY QueueType
  <2>2. \A i \in 1 .. Len(q.order) : q.order[i] \in C
    BY <2>1, ToSetFacts
  <2>3. q.order \in Seq(C)
    BY <2>1, <2>2, LenProperties, SeqDef
  <2> QED
    BY <2>1, <2>3
<1>3. n \in Nat /\ n <= Cardinality(C)
  BY <1>1, <1>2, DistinctIsShort
<1> HIDE DEF n
<1>4. Size * n <= cur
  <2>1. Size * n <= Size * Cardinality(C) /\ Size * n \in Nat /\ Size * Cardinality(C) \in Nat
    BY <1>1, <1>3, Times
  <2> QED
    BY <2>1
<1>5. k \in Nat /\ Size * k * Accuracy <= MaxMem * (Accuracy + 1)
  BY <1>3, <1>4, <1>6, KeepsFacts, KeepFits
<1>7. QSize(queue') \in Nat /\ QSize(queue') <= k
  <2>1. QSize(ShrinkTo(q, k)) = IF k >= n THEN n ELSE k
    BY <1>5, ShrinkToFacts DEF n
  <2> QED
    BY <2>1, <1>3, <1>5, <1>6
<1>8. Size * QSize(queue') <= Size * k /\ Size * QSize(queue') \in Nat /\ Size * k \in Nat
  BY <1>1, <1>5, <1>7, Times
<1> DEFINE A == Accuracy
           x == Size * QSize(queue')
           y == Size * k
<1>9. A \in Nat /\ A * x <= A * y
  BY <1>8, AccuracyAssumption, Times
<1>10. x * A = A * x /\ y * A = A * y /\ y * A \in Nat /\ A * x \in Nat
       /\ MaxMem * (A + 1) \in Nat
  BY <1>1, <1>8, <1>9
<1>11. y * A <= MaxMem * (A + 1)
  BY <1>5
<1> HIDE DEF x, y, A
<1>12. x * A <= MaxMem * (A + 1)
  BY <1>9, <1>10, <1>11
<1> QED
  BY <1>12 DEF x, A

\* A creation and a hit leave a queue that fits.
LEMMA FitStep == IInv => MaintenanceFits
<1> SUFFICES ASSUME IInv, NEW t \in Thread, Create(t) \/ \E b \in Block : Hit(t, b)
             PROVE  Size * QSize(queue') * Accuracy <= MaxMem * (Accuracy + 1)
  BY DEF MaintenanceFits
<1> DEFINE N == Cardinality(Counted)
<1>1. TrackerAlive
  BY DEF IInv, Mine, Create, Hit, TrackerAlive
<1>2. mem = Overhead + Size * N /\ mem \in Nat \ {0}
  BY <1>1, CounterFacts DEF IInv, Balance
<1>3. /\ Size \in Nat /\ Overhead \in Nat /\ N \in Nat /\ IsFiniteSet(Counted)
      /\ Counted \in SUBSET Block
  BY CountedFacts, SizeAssumption DEF IInv, Counted
<1>4. /\ queue \in Queues(Block) /\ NoDup(queue) /\ Queued(queue) \subseteq elem
      /\ elem \subseteq Counted /\ elem \subseteq Block
  BY DEF IInv, Types, Links, InUse, Counted
<1>5. CASE Create(t)
  <2> DEFINE b == blk[t]
             q == LinkCold(queue, b)
             C == Counted \union {b}
             cur == (mem + Size) % Values
  <2>1. b \in Block /\ b \notin Counted /\ b \notin Queued(queue)
    BY <1>4, <1>5 DEF IInv, Mine, Create, Counted
  <2>2. q \in Queues(Block) /\ NoDup(q) /\ Queued(q) = Queued(queue) \union {b}
    BY <1>4, <2>1, LinkColdFacts
  <2>3. Cardinality(C) = N + 1 /\ C \in SUBSET Block /\ Queued(q) \subseteq C
    BY <1>3, <1>4, <2>1, <2>2, FS_AddElement
  <2>4. cur = mem + Size
    BY <1>1, <2>1, CounterFacts
  <2>5. Maintain(q, b, cur)
    BY <1>5 DEF Create
  <2> HIDE DEF q, C, N, cur
  <2>6. Size * (N + 1) = Size * N + Size /\ Size * N \in Nat
    BY <1>3
  <2>7. cur \in Nat \ {0} /\ Size * (N + 1) <= cur
    BY <1>2, <1>3, <2>4, <2>6
  <2> QED
    BY <2>2, <2>3, <2>5, <2>7, MaintainFits
<1>6. CASE \E b \in Block : Hit(t, b)
  <2>1. PICK b \in Block : Hit(t, b)
    BY <1>6
  <2> DEFINE q == IF b \in Queued(queue) THEN Promote(queue, b) ELSE LinkCold(queue, b)
  <2>2. b \in elem /\ Maintain(q, b, mem)
    BY <2>1 DEF Hit
  <2>3. q \in Queues(Block) /\ NoDup(q) /\ Queued(q) = Queued(queue) \union {b}
    <3>1. CASE b \in Queued(queue)
      BY <3>1, <1>4, PromoteFacts
    <3>2. CASE b \notin Queued(queue)
      BY <3>2, <1>4, LinkColdFacts
    <3> QED
      BY <3>1, <3>2
  <2> HIDE DEF q, N
  <2>4. Queued(q) \subseteq Counted
    BY <1>4, <2>2, <2>3
  <2>5. Size * N <= mem
    <3>1. Size * N \in Nat
      BY <1>3
    <3> QED
      BY <3>1, <1>2, <1>3
  <2> QED
    BY <1>2, <1>3, <2>2, <2>3, <2>4, <2>5, MaintainFits DEF N
<1> QED
  BY <1>5, <1>6

\* What a synchronous cache keeps alive by itself fits in max_memory after each
\* maintenance, up to the error of the floats, with any accuracy and any rounding
\* (maintenance_ of cache_max_mem_decorator).
THEOREM MaintainedQueueFits == Spec => QueueFits
BY Invariance, FitStep, PTL DEF QueueFits, Spec

\* The counter stays within uintptr_t, also after its tracker is gone.
InRange == mem \in 0 .. Values - 1

\* A remainder is less than the divisor.
LEMMA ModRange == ASSUME NEW v \in Nat \ {0}, NEW x \in Int PROVE x % v \in 0 .. v - 1
OBVIOUS

\* Every step leaves the counter within its width.
LEMMA InRangeNext == InRange /\ [Next]_vars => InRange'
<1> SUFFICES ASSUME InRange, [Next]_vars PROVE InRange'
  OBVIOUS
<1>1. mem \in Int /\ mem + Size \in Int /\ mem - Size \in Int /\ Values \in Nat \ {0}
  BY SizeAssumption DEF InRange
<1>2. mem' \in {mem, (mem + Size) % Values, (mem - Size) % Values}
  BY DEF Next, Allocate, Create, CreateFails, Hit, Erase, DropErased, Unlock, Release, LockTracker,
         Subtract, Subtracted, Close, Gone, vars
<1> QED
  BY <1>1, <1>2, ModRange DEF InRange

\* The state of the memory accounting keeps its types.
THEOREM MemUseTypes == Spec => []TypeOK
<1>1. Init => InRange
  <2>1. Overhead < Values /\ Overhead \in Nat /\ Values \in Nat
    <3>1. Size * Cardinality(Block) \in Nat
      BY SizeAssumption, FS_CardinalityType
    <3> QED BY <3>1, SizeAssumption
  <2> QED BY <2>1 DEF Init, InRange
<1>2. IInv /\ InRange => TypeOK
  BY DEF IInv, Types, Links, InRange, TypeOK
<1> QED
  BY <1>1, <1>2, InRangeNext, Invariance, PTL DEF Spec
-----------------------------------------------------------------------------
\* The cache seen from its queue (ImplementsQueue).

\* ExpireQueue counts and links as the cache does.
LEMMA SameQueue ==
  ASSUME NEW q, NEW b, NEW D, NEW n
  PROVE  /\ EQ!Queued(q) = Queued(q) /\ EQ!LinkCold(q, b) = LinkCold(q, b)
         /\ EQ!Promote(q, b) = Promote(q, b) /\ EQ!Unlink(q, b) = Unlink(q, b)
         /\ EQ!Cleanup(q, D) = ShrinkTo(q, WarmerThan(q, D)) /\ EQ!ShrinkTo(q, n) = ShrinkTo(q, n)
<1> USE DEF EQ!Rebalance, Rebalance, EQ!QSize, QSize
<1>1. EQ!Queued(q) = Queued(q)
  BY DEF EQ!Queued, Queued, EQ!ToSet, ToSet
<1>2. EQ!LinkCold(q, b) = LinkCold(q, b)
  BY DEF EQ!LinkCold, LinkCold, EQ!InsertAt, InsertAt
<1>3. EQ!Promote(q, b) = Promote(q, b)
  BY DEF EQ!Promote, Promote, EQ!Position, Position, EQ!Cons, Cons, EQ!RemoveAt, RemoveAt
<1>4. EQ!Unlink(q, b) = Unlink(q, b)
  BY <1>1 DEF EQ!Unlink, Unlink, EQ!Position, Position, EQ!RemoveAt, RemoveAt
<1>5. EQ!ShrinkTo(q, n) = ShrinkTo(q, n)
  BY DEF EQ!ShrinkTo, ShrinkTo
<1>6. EQ!Cleanup(q, D) = ShrinkTo(q, WarmerThan(q, D))
  BY DEF EQ!Cleanup, EQ!ShrinkWhile, EQ!WarmerThan, WarmerThan, EQ!ShrinkTo, ShrinkTo
<1> QED
  BY <1>1, <1>2, <1>3, <1>4, <1>5, <1>6

\* A cleanup that finds nothing to erase leaves the queue as it is.
LEMMA NothingToErase ==
  ASSUME NEW q \in Queues(Block), IsBalanced(q), NEW D, Queued(q) \intersect D = {}
  PROVE  ShrinkTo(q, WarmerThan(q, D)) = q
<1> DEFINE n == WarmerThan(q, D)
<1>1. n \in 0 .. QSize(q) /\ \A i \in n + 1 .. QSize(q) : q.order[i] \in D
  BY WarmerThanFacts
<1>2. /\ q.order \in Seq(Block) /\ Len(q.order) \in Nat /\ q.hots \in 0 .. Len(q.order)
      /\ q = [order |-> q.order, hots |-> q.hots]
      /\ QSize(q) = Len(q.order) /\ Queued(q) = ToSet(q.order)
  BY QueueType
<1>3. \A i \in 1 .. QSize(q) : q.order[i] \notin D
  BY <1>2, ToSetFacts
<1> HIDE DEF n
<1>4. n >= QSize(q)
  <2>1. SUFFICES ASSUME n < QSize(q) PROVE FALSE
    BY <1>1, <1>2
  <2>2. QSize(q) \in n + 1 .. QSize(q) /\ QSize(q) \in 1 .. QSize(q)
    BY <1>1, <1>2, <2>1
  <2> QED
    BY <1>1, <1>3, <2>2
<1>5. ShrinkTo(q, n) = Rebalance(q)
  BY <1>4 DEF ShrinkTo
<1>6. ~(2 * q.hots > Len(q.order) + 1) /\ ~(2 * q.hots < Len(q.order) - 1)
  BY <1>2 DEF IsBalanced, QSize
<1>7. Rebalance(q) = [q EXCEPT !.hots = q.hots]
  BY <1>6 DEF Rebalance
<1> QED
  BY <1>2, <1>5, <1>7 DEF n

\* The pointers that the queue sees when the elements are es and the queue is q.
Seen(es, q) == [x \in Block |->
  IF x \notin es THEN "absent" ELSE IF x \in Queued(q) THEN "strong" ELSE "weak"]

\* The maintenance drops and frees the same elements in both.
LEMMA MaintainSeen ==
  ASSUME NEW q \in Queues(Block), NoDup(q), IsBalanced(q), NEW b \in Block, b \in Queued(q),
         Queued(q) \subseteq elem \union {b}, elem \subseteq Block, Queued(queue) \subseteq elem,
         \A x \in Block \ {b} : x \in Queued(q) <=> x \in Queued(queue),
         NEW cur \in Nat \ {0}, Maintain(q, b, cur)
  PROVE  EQ!Maintain(q, Seen(elem \union {b}, q), b)
<1>0. PICK k \in Keeps(QSize(q), cur) :
        LET r == ShrinkTo(q, k)
            gone == Freed(Queued(q) \ Queued(r), held \union {b})
        IN /\ queue' = r
           /\ elem' = (elem \union {b}) \ gone
           /\ held' = held \union {b}
           /\ todo' = gone
  BY DEF Maintain
<1> DEFINE p == Seen(elem \union {b}, q)
           s == held \union {b}
           D == {x \in EQ!Present \ {b} : EQ!Expired(p, s, x) /\ x \notin {}}
           n == IF k >= QSize(q) THEN QSize(q) ELSE k
           q2 == ShrinkTo(q, n)
           drop == Queued(q) \ Queued(q2)
           p2 == EQ!Weaken(p, drop)
           dead == EQ!Erased(p2, s, drop \ {b})
<1>1. QSize(q) \in Nat /\ k \in Nat
  BY <1>0, QueueType, KeepsFacts
<1>2. n \in 0 .. Cardinality(Block)
  <2>1. q.order \in Seq(Block) /\ Distinct(q.order) /\ QSize(q) = Len(q.order)
    BY QueueType
  <2>2. QSize(q) <= Cardinality(Block) /\ Cardinality(Block) \in Nat
    BY <2>1, SizeAssumption, DistinctIsShort
  <2> QED
    BY <1>1, <2>2
<1>3. q2 = ShrinkTo(q, k)
  <2>1. CASE k >= QSize(q)
    <3>1. n = QSize(q) /\ n >= QSize(q)
      BY <1>1, <2>1
    <3> HIDE DEF n
    <3> QED
      BY <2>1, <3>1 DEF ShrinkTo
  <2>2. CASE ~(k >= QSize(q))
    BY <2>2
  <2> QED
    BY <2>1, <2>2
<1>4. Queued(q2) \subseteq Queued(q)
  BY <1>2, ShrinkToFacts
<1>5. /\ queue' = q2 /\ elem' = (elem \union {b}) \ Freed(drop, s) /\ held' = s
  BY <1>0, <1>3
<1> HIDE DEF n, q2
<1>6. \A x \in Block : p[x] = IF x \notin elem \union {b} THEN "absent"
                              ELSE IF x \in Queued(q) THEN "strong" ELSE "weak"
  BY DEF Seen
<1>7. Queued(q) \intersect D = {}
  <2>1. \A x \in D : x \in Block /\ p[x] = "weak"
    BY DEF EQ!Present, EQ!Expired
  <2> HIDE DEF p, D
  <2> QED
    BY <1>6, <2>1
<1>8. EQ!Cleanup(q, D) = q
  <2> HIDE DEF D
  <2> QED
    BY <1>7, SameQueue, NothingToErase
<1>9. EQ!Erase(p, {}) = p
  BY DEF EQ!Erase, Seen
<1>10. \A x \in Block : p2[x] = IF x \in drop THEN "weak" ELSE p[x]
  BY DEF EQ!Weaken
<1>11. dead = Freed(drop, s)
  <2>1. \A x \in drop : x \in Block /\ p2[x] = "weak"
    <3>1. Queued(q) \subseteq Block
      OBVIOUS
    <3> HIDE DEF p2
    <3> QED
      BY <1>10, <3>1
  <2> HIDE DEF p2, drop
  <2> QED
    BY <2>1 DEF EQ!Erased, EQ!Expired, Freed
<1>12. Pointer' = EQ!Erase(p2, dead)
  <2>1. \A x \in Block : Pointer'[x] = IF x \notin elem' THEN "absent"
                                       ELSE IF x \in Queued(q2) THEN "strong" ELSE "weak"
    BY <1>5 DEF Pointer
  <2>2. \A x \in Block : EQ!Erase(p2, dead)[x] = IF x \in dead THEN "absent" ELSE p2[x]
    BY DEF EQ!Erase
  <2>3. dead \subseteq drop
    BY DEF EQ!Erased
  <2>4. ASSUME NEW x \in Block PROVE Pointer'[x] = EQ!Erase(p2, dead)[x]
    <3>1. x \in elem' <=> x \in elem \union {b} /\ x \notin dead
      BY <1>5, <1>11
    <3> HIDE DEF p, p2, dead
    <3> QED
      BY <1>4, <1>6, <1>10, <2>1, <2>2, <2>3, <3>1
  <2>5. Pointer' = [x \in Block |-> Pointer'[x]]
    BY DEF Pointer
  <2>6. EQ!Erase(p2, dead) = [x \in Block |-> EQ!Erase(p2, dead)[x]]
    BY DEF EQ!Erase
  <2> HIDE DEF p2, dead
  <2> QED
    BY <2>4, <2>5, <2>6
<1>13. EQ!Queued(q) \ EQ!Queued(q) = {} /\ EQ!Queued(q) \ EQ!Queued(q2) = drop
  BY SameQueue
<1>14. n \in EQ!Keep
  BY <1>2 DEF EQ!Keep
<1>15. q2 = EQ!ShrinkTo(q, n)
  BY SameQueue DEF q2
<1> QED
  BY <1>5, <1>8, <1>9, <1>12, <1>13, <1>14, <1>15 DEF EQ!Maintain
\* A miss: the element is new, and only its creator holds its value.
LEMMA CreateSeen ==
  ASSUME IInv, NEW t \in Thread, Create(t)
  PROVE  EQ!Create(blk[t])
<1> DEFINE b == blk[t]
           q == LinkCold(queue, b)
           added == (mem + Size) % Values
<1>1. b \in Block /\ place[b] = "raw" /\ TrackerAlive
  BY DEF IInv, Mine, Create, TrackerAlive
<1>2. b \notin elem \union held /\ b \notin Counted
  BY <1>1 DEF IInv, InUse, Counted
<1>3. /\ elem \subseteq Block /\ queue \in Queues(Block) /\ NoDup(queue)
      /\ Queued(queue) \subseteq elem /\ b \notin Queued(queue)
  BY <1>2 DEF IInv, Types, Links
<1>4. q \in Queues(Block) /\ NoDup(q) /\ IsBalanced(q) /\ Queued(q) = Queued(queue) \union {b}
  BY <1>1, <1>3, LinkColdFacts
<1>5. added \in Nat \ {0}
  BY <1>1, <1>2, CounterFacts, SizeAssumption
<1>6. Maintain(q, b, added)
  BY DEF Create
<1>7. held' = held \union {b}
  BY <1>6 DEF Maintain
<1>8. Seen(elem \union {b}, q) = [Pointer EXCEPT ![b] = "strong"]
  <2> HIDE DEF q, b
  <2> QED
    BY <1>1, <1>2, <1>3, <1>4 DEF Seen, Pointer
<1>9. Pointer[b] = "absent"
  BY <1>1, <1>2 DEF Pointer
<1>10. EQ!LinkCold(queue, b) = q
  BY SameQueue
<1> HIDE DEF q, added, b
<1>11. EQ!Maintain(q, Seen(elem \union {b}, q), b)
  BY <1>1, <1>3, <1>4, <1>5, <1>6, MaintainSeen
<1> QED
  BY <1>2, <1>7, <1>8, <1>9, <1>10, <1>11 DEF EQ!Create, b

\* A hit: the element is linked or promoted.
LEMMA HitSeen ==
  ASSUME IInv, NEW t \in Thread, NEW b \in Block, Hit(t, b)
  PROVE  EQ!Hit(b)
<1> DEFINE q == IF b \in Queued(queue) THEN Promote(queue, b) ELSE LinkCold(queue, b)
<1>1. b \in elem /\ b \in Queued(queue) \union held /\ TrackerAlive
  BY DEF Hit, TrackerAlive
<1>2. /\ elem \subseteq Block /\ queue \in Queues(Block) /\ NoDup(queue)
      /\ Queued(queue) \subseteq elem
  BY DEF IInv, Types, Links
<1>3. q \in Queues(Block) /\ NoDup(q) /\ IsBalanced(q) /\ Queued(q) = Queued(queue) \union {b}
  <2>1. CASE b \in Queued(queue)
    BY <2>1, <1>2, PromoteFacts
  <2>2. CASE b \notin Queued(queue)
    BY <2>2, <1>2, LinkColdFacts
  <2> QED
    BY <2>1, <2>2
<1>4. mem \in Nat \ {0}
  BY <1>1, CounterFacts
<1>5. Maintain(q, b, mem)
  BY DEF Hit
<1>6. held' = held \union {b}
  BY <1>5 DEF Maintain
<1>7. Seen(elem \union {b}, q) =
        IF b \in Queued(queue) THEN Pointer ELSE [Pointer EXCEPT ![b] = "strong"]
  <2> HIDE DEF q
  <2> QED
    BY <1>1, <1>2, <1>3 DEF Seen, Pointer
<1>8. b \in EQ!Present /\ ~EQ!Expired(Pointer, held, b)
  BY <1>1 DEF EQ!Present, EQ!Expired, Pointer
<1>9. q = IF b \in Queued(queue) THEN EQ!Promote(queue, b) ELSE EQ!LinkCold(queue, b)
  BY SameQueue
<1> HIDE DEF q
<1>10. EQ!Maintain(q, Seen(elem \union {b}, q), b)
  BY <1>1, <1>2, <1>3, <1>4, <1>5, MaintainSeen
<1>11. b \in EQ!Queued(queue) <=> b \in Queued(queue)
  BY SameQueue
<1> QED
  BY <1>6, <1>7, <1>8, <1>9, <1>10, <1>11 DEF EQ!Hit

\* An erasure: the element leaves the queue and the cache.
LEMMA EraseSeen ==
  ASSUME IInv, NEW t \in Thread, NEW b \in Block, Erase(t, b)
  PROVE  EQ!Delete(b)
<1>1. b \in elem /\ queue' = Unlink(queue, b) /\ elem' = elem \ {b} /\ held' = held
  BY DEF Erase
<1>2. Queued(queue') = Queued(queue) \ {b}
  BY <1>1, UnlinkFacts DEF IInv, Links
<1>3. Pointer' = EQ!Erase(Pointer, {b})
  <2>1. Pointer' = [x \in Block |-> IF x \notin elem' THEN "absent"
                                    ELSE IF x \in Queued(queue') THEN "strong" ELSE "weak"]
    BY DEF Pointer
  <2> QED
    BY <1>1, <1>2, <2>1 DEF EQ!Erase, Pointer
<1>4. b \in EQ!Present
  BY <1>1 DEF EQ!Present, Pointer
<1>5. queue' = EQ!Unlink(queue, b)
  BY <1>1, SameQueue
<1> QED
  BY <1>1, <1>3, <1>4, <1>5 DEF EQ!Delete

\* Every step is one of ExpireQueue or leaves its variables alone, as allocation,
\* deallocation, the counter and the end of the cache do.
LEMMA NextSeen == IInv /\ [Next]_vars => [EQ!Next]_EQ!vars
<1> SUFFICES ASSUME IInv, [Next]_vars PROVE [EQ!Next]_EQ!vars
  OBVIOUS
<1>1. CASE UNCHANGED <<queue, elem, held>>
  <2>1. Pointer' = Pointer
    BY <1>1 DEF Pointer
  <2> QED
    BY <1>1, <2>1 DEF EQ!vars
<1>2. CASE \E t \in Thread : Create(t)
  <2>1. PICK t \in Thread : Create(t)
    BY <1>2
  <2>2. blk[t] \in Block
    BY <2>1 DEF IInv, Mine, Create
  <2> QED
    BY <2>1, <2>2, CreateSeen DEF EQ!Next
<1>3. CASE \E t \in Thread, b \in Block : Hit(t, b)
  BY <1>3, HitSeen DEF EQ!Next
<1>4. CASE \E t \in Thread, b \in Block : Erase(t, b)
  BY <1>4, EraseSeen DEF EQ!Next
<1>5. CASE \E t \in Thread, b \in Block : Release(t, b)
  <2>1. PICK t \in Thread, b \in Block : Release(t, b)
    BY <1>5
  <2>2. b \in held /\ held' = held \ {b} /\ UNCHANGED <<queue, elem>>
    BY <2>1 DEF Release
  <2>3. Pointer' = Pointer
    BY <2>2 DEF Pointer
  <2>4. EQ!Release(b)
    BY <2>2, <2>3 DEF EQ!Release
  <2> QED
    BY <2>4 DEF EQ!Next
<1> QED
  BY <1>1, <1>2, <1>3, <1>4, <1>5
     DEF Next, vars, Allocate, CreateFails, DropErased, Unlock, LockTracker, Subtract, Close, Gone

\* An empty cache has an empty queue.
LEMMA InitSeen == Init => EQ!Init
  BY DEF Init, EQ!Init, Pointer, EmptyQueue, EQ!EmptyQueue

\* The cache with max_memory uses its queue as ExpireQueue allows, whatever the
\* counter reads (maintenance_ of cache_max_mem_decorator).
THEOREM MemUseUsesQueue == Spec => ImplementsQueue
  BY InitSeen, NextSeen, Invariance, PTL DEF Spec, ImplementsQueue, EQ!Spec
=============================================================================
