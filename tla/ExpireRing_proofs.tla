-------------------------- MODULE ExpireRing_proofs --------------------------
(***************************************************************************)
(* The two rings of expire_queue.h compute what ExpireQueueOps says, for   *)
(* any number of elements.                                                 *)
(*                                                                         *)
(* A ring stands for a segment of the order of the queue: the elements at  *)
(* lo + 1 .. hi, closed by the head of the ring.  The hot ring is the      *)
(* segment before the boundary, the cold ring the one behind it, so that   *)
(* moving an element from the back of one to the front of the other moves  *)
(* the boundary and leaves the order alone.                                *)
(***************************************************************************)
EXTENDS ExpireRing, ExpireQueueOps_proofs

\* The i-th node of the ring of head k, which is before the first and after the
\* last element.
NodeOf(o, k, lo, hi, i) == IF i \in lo + 1 .. hi THEN o[i] ELSE k

Chain(r, k, o, lo, hi) ==
  \A i \in lo .. hi :
    /\ r.succ[NodeOf(o, k, lo, hi, i)] = Link(NodeOf(o, k, lo, hi, i + 1), k)
    /\ r.pred[NodeOf(o, k, lo, hi, i + 1)] = Link(NodeOf(o, k, lo, hi, i), k)

RingType == [succ : [Node -> LinkType], pred : [Node -> LinkType]]

Stands(r, o, h) ==
  /\ r \in RingType /\ o \in Seq(Elem) /\ h \in 0 .. Len(o) /\ Distinct(o)
  /\ Chain(r, "hot", o, 0, h) /\ Chain(r, "cold", o, h, Len(o))
  /\ \A x \in Elem \ ToSet(o) : r.succ[x] = Null /\ r.pred[x] = Null

\* A ring with e between two neighbours in the ring of head k.
Between(r, e, before, after, k) ==
  [succ |-> [r.succ EXCEPT ![e] = r.succ[before], ![before] = Link(e, k)],
   pred |-> [r.pred EXCEPT ![e] = r.pred[after], ![after] = Link(e, k)]]

\* The nodes of a ring are all different.
LEMMA NodesDiffer ==
  ASSUME NEW o \in Seq(Elem), Distinct(o), NEW k \in Ids,
         NEW lo \in 0 .. Len(o), NEW hi \in lo .. Len(o)
  PROVE  /\ \A i \in lo .. hi + 1 : NodeOf(o, k, lo, hi, i) \in Node
         /\ \A i \in lo + 1 .. hi : NodeOf(o, k, lo, hi, i) = o[i] /\ o[i] \in Elem
         /\ NodeOf(o, k, lo, hi, lo) = k /\ NodeOf(o, k, lo, hi, hi + 1) = k
         /\ \A i, j \in lo .. hi :
              NodeOf(o, k, lo, hi, i) = NodeOf(o, k, lo, hi, j) => i = j
         /\ \A i, j \in lo + 1 .. hi + 1 :
              NodeOf(o, k, lo, hi, i) = NodeOf(o, k, lo, hi, j) => i = j
<1>1. Len(o) \in Nat /\ \A i \in 1 .. Len(o) : o[i] \in Elem /\ o[i] # k
  BY ElemAssumption, LenProperties
<1>2. \A i, j \in 1 .. Len(o) : o[i] = o[j] => i = j
  BY DEF Distinct
<1> QED
  BY <1>1, <1>2 DEF NodeOf, Node

\* A ring is not touched by what happens to other nodes; its place in the order
\* shifts by d.
LEMMA ChainShifts ==
  ASSUME NEW r, NEW q, NEW o \in Seq(Elem), NEW u, NEW k, NEW d \in Int,
         NEW lo \in 0 .. Len(o), NEW hi \in lo .. Len(o), Chain(r, k, o, lo, hi),
         \A i \in lo + 1 .. hi : u[i + d] = o[i],
         \A i \in lo .. hi :
           /\ q.succ[NodeOf(o, k, lo, hi, i)] = r.succ[NodeOf(o, k, lo, hi, i)]
           /\ q.pred[NodeOf(o, k, lo, hi, i)] = r.pred[NodeOf(o, k, lo, hi, i)]
  PROVE  Chain(q, k, u, lo + d, hi + d)
<1> SUFFICES ASSUME NEW i \in lo + d .. hi + d
             PROVE  /\ q.succ[NodeOf(u, k, lo + d, hi + d, i)] = Link(NodeOf(u, k, lo + d, hi + d, i + 1), k)
                    /\ q.pred[NodeOf(u, k, lo + d, hi + d, i + 1)] = Link(NodeOf(u, k, lo + d, hi + d, i), k)
  BY DEF Chain
<1>1. Len(o) \in Nat /\ lo \in Int /\ hi \in Int
  BY LenProperties
<1>2. PICK j \in lo .. hi : i = j + d
  <2>1. i - d \in lo .. hi /\ i = (i - d) + d
    BY <1>1
  <2> QED
    BY <2>1
<1>3. \A m \in lo .. hi + 1 : NodeOf(u, k, lo + d, hi + d, m + d) = NodeOf(o, k, lo, hi, m)
  <2> SUFFICES ASSUME NEW m \in lo .. hi + 1
               PROVE  NodeOf(u, k, lo + d, hi + d, m + d) = NodeOf(o, k, lo, hi, m)
    OBVIOUS
  <2>1. m + d \in (lo + d) + 1 .. hi + d <=> m \in lo + 1 .. hi
    BY <1>1
  <2> QED
    BY <2>1 DEF NodeOf
<1>4. i + 1 = (j + 1) + d /\ j + 1 \in lo .. hi + 1 /\ j \in lo .. hi + 1
  BY <1>1, <1>2
<1>5. /\ NodeOf(u, k, lo + d, hi + d, i) = NodeOf(o, k, lo, hi, j)
      /\ NodeOf(u, k, lo + d, hi + d, i + 1) = NodeOf(o, k, lo, hi, j + 1)
  BY <1>2, <1>3, <1>4
<1>6. \A m \in lo + 1 .. hi + 1 : \E l \in lo .. hi : NodeOf(o, k, lo, hi, m) = NodeOf(o, k, lo, hi, l)
  <2> SUFFICES ASSUME NEW m \in lo + 1 .. hi + 1
               PROVE  \E l \in lo .. hi : NodeOf(o, k, lo, hi, m) = NodeOf(o, k, lo, hi, l)
    OBVIOUS
  <2>1. CASE m = hi + 1
    <3>1. NodeOf(o, k, lo, hi, m) = k /\ NodeOf(o, k, lo, hi, lo) = k /\ lo \in lo .. hi
      BY <1>1, <2>1 DEF NodeOf
    <3> QED
      BY <3>1
  <2>2. CASE m # hi + 1
    <3>1. m \in lo .. hi
      BY <1>1, <2>2
    <3> QED
      BY <3>1
  <2> QED
    BY <2>1, <2>2
<1>7. q.pred[NodeOf(o, k, lo, hi, j + 1)] = r.pred[NodeOf(o, k, lo, hi, j + 1)]
  <2>1. j + 1 \in lo + 1 .. hi + 1
    BY <1>1, <1>2
  <2> QED
    BY <1>6, <2>1
<1> QED
  BY <1>2, <1>5, <1>7 DEF Chain

\* Placing an element in a ring (link_after, link_before).
LEMMA ChainInsert ==
  ASSUME NEW r \in RingType, NEW o \in Seq(Elem), Distinct(o), NEW k \in Ids,
         NEW lo \in 0 .. Len(o), NEW hi \in lo .. Len(o), Chain(r, k, o, lo, hi),
         NEW e \in Elem \ ToSet(o), NEW p \in lo + 1 .. hi + 1, NEW u,
         \A j \in 1 .. Len(o) + 1 : u[j] = IF j < p THEN o[j] ELSE IF j = p THEN e ELSE o[j - 1]
  PROVE  Chain(Between(r, e, NodeOf(o, k, lo, hi, p - 1), NodeOf(o, k, lo, hi, p), k),
               k, u, lo, hi + 1)
<1> DEFINE b == NodeOf(o, k, lo, hi, p - 1)
           a == NodeOf(o, k, lo, hi, p)
           q == Between(r, e, b, a, k)
           N(i) == NodeOf(o, k, lo, hi, i)
           M(i) == NodeOf(u, k, lo, hi + 1, i)
<1>1. Len(o) \in Nat /\ lo \in Int /\ hi \in Int /\ p \in Int
  BY LenProperties
<1>2. /\ \A i \in lo .. hi + 1 : N(i) \in Node /\ N(i) # e
      /\ \A i, j \in lo .. hi : N(i) = N(j) => i = j
      /\ \A i, j \in lo + 1 .. hi + 1 : N(i) = N(j) => i = j
  <2>1. \A i \in 1 .. Len(o) : o[i] # e
    BY ToSetFacts
  <2>2. k # e
    BY ElemAssumption
  <2> QED
    BY <1>1, <2>1, <2>2, NodesDiffer DEF NodeOf
<1>3. \A i \in lo .. hi + 2 : M(i) = IF i < p THEN N(i) ELSE IF i = p THEN e ELSE N(i - 1)
  BY <1>1, SMTT(30) DEF NodeOf
<1>4. \A i \in lo .. hi : r.succ[N(i)] = Link(N(i + 1), k) /\ r.pred[N(i + 1)] = Link(N(i), k)
  BY DEF Chain
<1>5. p - 1 \in lo .. hi /\ p \in lo + 1 .. hi + 1 /\ (p - 1) + 1 = p /\ e \in Node
      /\ p - 1 \in lo .. hi + 1 /\ p \in lo .. hi + 1
  BY <1>1 DEF Node
<1>6. b = N(p - 1) /\ a = N(p) /\ b \in Node /\ a \in Node /\ b # e /\ a # e
  BY <1>2, <1>5
<1> HIDE DEF b, a, N, M
<1>7. /\ q.succ[e] = Link(a, k) /\ q.succ[b] = Link(e, k)
      /\ q.pred[e] = Link(b, k) /\ q.pred[a] = Link(e, k)
      /\ \A x \in Node : /\ x # e /\ x # b => q.succ[x] = r.succ[x]
                         /\ x # e /\ x # a => q.pred[x] = r.pred[x]
  BY <1>4, <1>5, <1>6 DEF Between, RingType
<1> HIDE DEF q
<1>8. ASSUME NEW i \in lo .. hi + 1
      PROVE  q.succ[M(i)] = Link(M(i + 1), k) /\ q.pred[M(i + 1)] = Link(M(i), k)
  <2>1. CASE i < p - 1
    <3>1. i \in lo .. hi /\ i + 1 \in lo + 1 .. hi + 1 /\ i \in lo .. hi + 1 /\ i + 1 \in lo .. hi + 1
          /\ i # p - 1 /\ i + 1 # p /\ i < p /\ i + 1 < p
      BY <1>1, <2>1
    <3>2. M(i) = N(i) /\ M(i + 1) = N(i + 1)
      BY <1>1, <1>3, <3>1
    <3>3. N(i) # b /\ N(i + 1) # a /\ N(i) # e /\ N(i + 1) # e /\ N(i) \in Node /\ N(i + 1) \in Node
      BY <1>2, <1>5, <1>6, <3>1
    <3> QED
      BY <1>4, <1>7, <3>1, <3>2, <3>3
  <2>2. CASE i = p - 1
    <3>1. M(i) = b /\ M(i + 1) = e
      BY <1>1, <1>3, <1>6, <2>2
    <3> QED
      BY <1>7, <3>1
  <2>3. CASE i = p
    <3>1. M(i) = e /\ M(i + 1) = a
      BY <1>1, <1>3, <1>6, <2>3
    <3> QED
      BY <1>7, <3>1
  <2>4. CASE i > p
    <3>1. i - 1 \in lo .. hi /\ i \in lo + 1 .. hi + 1 /\ i - 1 \in lo .. hi + 1 /\ i \in lo .. hi + 1
          /\ i - 1 # p - 1 /\ i # p /\ (i - 1) + 1 = i /\ (i + 1) - 1 = i /\ i + 1 \in lo .. hi + 2
      BY <1>1, <2>4
    <3>2. M(i) = N(i - 1) /\ M(i + 1) = N(i)
      BY <1>1, <1>3, <2>4, <3>1
    <3>3. N(i - 1) # b /\ N(i) # a /\ N(i) # e /\ N(i - 1) # e /\ N(i) \in Node /\ N(i - 1) \in Node
      BY <1>2, <1>5, <1>6, <3>1
    <3>4. r.succ[N(i - 1)] = Link(N(i), k) /\ r.pred[N(i)] = Link(N(i - 1), k)
      BY <1>4, <3>1
    <3> QED
      BY <1>7, <3>2, <3>3, <3>4
  <2> QED
    BY <1>1, <2>1, <2>2, <2>3, <2>4
<1> QED
  BY <1>8 DEF Chain, q, b, a, M

\* Taking an element out of a ring (the destructor of expire_link, unlink).
LEMMA ChainDetach ==
  ASSUME NEW r \in RingType, NEW o \in Seq(Elem), Distinct(o), NEW k \in Ids,
         NEW lo \in 0 .. Len(o), NEW hi \in lo .. Len(o), Chain(r, k, o, lo, hi),
         NEW p \in lo + 1 .. hi, NEW u,
         \A j \in 1 .. Len(o) - 1 : u[j] = IF j < p THEN o[j] ELSE o[j + 1]
  PROVE  Chain(Detach(r, o[p]), k, u, lo, hi - 1)
<1> DEFINE N(i) == NodeOf(o, k, lo, hi, i)
           M(i) == NodeOf(u, k, lo, hi - 1, i)
           q == Detach(r, o[p])
           b == N(p - 1)
           a == N(p + 1)
<1>1. Len(o) \in Nat /\ lo \in Int /\ hi \in Int /\ p \in Int
  BY LenProperties
<1>2. /\ \A i \in lo .. hi + 1 : N(i) \in Node
      /\ \A i, j \in lo .. hi : N(i) = N(j) => i = j
      /\ \A i, j \in lo + 1 .. hi + 1 : N(i) = N(j) => i = j
      /\ N(p) = o[p]
  BY NodesDiffer
<1>3. \A i \in lo .. hi : M(i) = IF i < p THEN N(i) ELSE N(i + 1)
  BY <1>1 DEF NodeOf
<1>4. \A i \in lo .. hi : r.succ[N(i)] = Link(N(i + 1), k) /\ r.pred[N(i + 1)] = Link(N(i), k)
  BY DEF Chain
<1>5. p - 1 \in lo .. hi /\ p \in lo .. hi /\ p \in lo + 1 .. hi + 1 /\ p + 1 \in lo + 1 .. hi + 1
      /\ p - 1 \in lo .. hi + 1 /\ p + 1 \in lo .. hi + 1 /\ (p - 1) + 1 = p /\ p - 1 # p /\ p + 1 # p
      /\ p \in lo .. hi + 1
  BY <1>1
<1>6. b \in Node /\ a \in Node /\ b # o[p] /\ a # o[p] /\ o[p] \in Node
  BY <1>2, <1>5
<1> HIDE DEF N, M
<1>7. Pred(r, o[p]) = b /\ Succ(r, o[p]) = a /\ r.succ[o[p]] = Link(a, k) /\ r.pred[o[p]] = Link(b, k)
  <2>1. r.succ[N(p)] = Link(N(p + 1), k) /\ r.pred[N((p - 1) + 1)] = Link(N(p - 1), k)
    BY <1>4, <1>5
  <2>2. N((p - 1) + 1) = o[p] /\ N(p) = o[p]
    BY <1>2, <1>5
  <2> QED
    BY <2>1, <2>2 DEF Pred, Succ, Link
<1> HIDE DEF b, a
<1>8. /\ q.succ[b] = Link(a, k) /\ q.pred[a] = Link(b, k)
      /\ \A x \in Node : /\ x # o[p] /\ x # b => q.succ[x] = r.succ[x]
                         /\ x # o[p] /\ x # a => q.pred[x] = r.pred[x]
  BY <1>6, <1>7 DEF Detach, RingType
<1> HIDE DEF q
<1>9. ASSUME NEW i \in lo .. hi - 1
      PROVE  q.succ[M(i)] = Link(M(i + 1), k) /\ q.pred[M(i + 1)] = Link(M(i), k)
  <2>1. CASE i < p - 1
    <3>1. i \in lo .. hi /\ i + 1 \in lo + 1 .. hi + 1 /\ i + 1 \in lo .. hi /\ i \in lo .. hi + 1
          /\ i # p - 1 /\ i # p /\ i + 1 # p /\ i + 1 # p + 1 /\ i < p /\ i + 1 < p
          /\ i + 1 \in lo .. hi + 1
      BY <1>1, <2>1
    <3>2. M(i) = N(i) /\ M(i + 1) = N(i + 1)
      BY <1>3, <3>1
    <3>3. N(i) # b /\ N(i + 1) # a /\ N(i) # o[p] /\ N(i + 1) # o[p] /\ N(i) \in Node /\ N(i + 1) \in Node
      BY <1>2, <1>5, <3>1 DEF b, a
    <3> QED
      BY <1>4, <1>8, <3>1, <3>2, <3>3
  <2>2. CASE i = p - 1
    <3>1. i \in lo .. hi /\ i + 1 \in lo .. hi /\ i < p /\ i + 1 = p
      BY <1>1, <2>2
    <3>2. M(i) = b /\ M(i + 1) = a
      BY <1>1, <1>3, <2>2, <3>1 DEF b, a
    <3> QED
      BY <1>8, <3>2
  <2>3. CASE i >= p
    <3>1. i \in lo .. hi /\ i + 1 \in lo .. hi /\ i + 2 \in lo + 1 .. hi + 1 /\ (i + 1) + 1 = i + 2
          /\ i + 1 \in lo .. hi + 1 /\ i + 2 \in lo .. hi + 1 /\ i + 1 \in lo + 1 .. hi + 1
          /\ i + 1 # p /\ i + 1 # p - 1 /\ i + 2 # p /\ i + 2 # p + 1 /\ ~(i < p) /\ ~(i + 1 < p)
      BY <1>1, <2>3
    <3>2. M(i) = N(i + 1) /\ M(i + 1) = N(i + 2)
      BY <1>3, <3>1
    <3>3. N(i + 1) # b /\ N(i + 2) # a /\ N(i + 1) # o[p] /\ N(i + 2) # o[p]
          /\ N(i + 1) \in Node /\ N(i + 2) \in Node
      BY <1>2, <1>5, <3>1 DEF b, a
    <3>4. r.succ[N(i + 1)] = Link(N(i + 2), k) /\ r.pred[N(i + 2)] = Link(N(i + 1), k)
      BY <1>4, <3>1
    <3> QED
      BY <1>8, <3>2, <3>3, <3>4
  <2> QED
    BY <1>1, <2>1, <2>2, <2>3
<1> QED
  BY <1>9 DEF Chain, q, M

\* The neighbours of an element in its ring, and the id in its pointers.
LEMMA Neighbours ==
  ASSUME NEW r \in RingType, NEW o, NEW k \in Ids, NEW lo \in Nat, NEW hi \in Nat,
         Chain(r, k, o, lo, hi), NEW p \in lo + 1 .. hi
  PROVE  /\ r.succ[o[p]] = Link(NodeOf(o, k, lo, hi, p + 1), k)
         /\ r.pred[o[p]] = Link(NodeOf(o, k, lo, hi, p - 1), k)
         /\ Succ(r, o[p]) = NodeOf(o, k, lo, hi, p + 1)
         /\ Pred(r, o[p]) = NodeOf(o, k, lo, hi, p - 1)
         /\ r.pred[o[p]].id = k
<1>1. p - 1 \in lo .. hi /\ p \in lo .. hi /\ (p - 1) + 1 = p /\ NodeOf(o, k, lo, hi, p) = o[p]
  BY DEF NodeOf
<1>2. /\ r.succ[o[p]] = Link(NodeOf(o, k, lo, hi, p + 1), k)
      /\ r.pred[NodeOf(o, k, lo, hi, (p - 1) + 1)] = Link(NodeOf(o, k, lo, hi, p - 1), k)
  BY <1>1 DEF Chain
<1> QED
  BY <1>1, <1>2 DEF Succ, Pred, Link

\* The head of a ring is behind the last element and before the first.
LEMMA HeadLinks ==
  ASSUME NEW r \in RingType, NEW o, NEW k \in Ids, NEW lo \in Nat, NEW hi \in Nat, lo <= hi,
         Chain(r, k, o, lo, hi)
  PROVE  /\ r.succ[k] = Link(NodeOf(o, k, lo, hi, lo + 1), k)
         /\ r.pred[k] = Link(NodeOf(o, k, lo, hi, hi), k)
         /\ Succ(r, k) = NodeOf(o, k, lo, hi, lo + 1)
         /\ Pred(r, k) = NodeOf(o, k, lo, hi, hi)
         /\ r.pred[k].id = k /\ r.succ[k].id = k
<1>1. /\ lo \in lo .. hi /\ hi \in lo .. hi
      /\ NodeOf(o, k, lo, hi, lo) = k /\ NodeOf(o, k, lo, hi, hi + 1) = k
  BY DEF NodeOf
<1>2. /\ r.succ[NodeOf(o, k, lo, hi, lo)] = Link(NodeOf(o, k, lo, hi, lo + 1), k)
      /\ r.pred[NodeOf(o, k, lo, hi, hi + 1)] = Link(NodeOf(o, k, lo, hi, hi), k)
  BY <1>1 DEF Chain
<1> QED
  BY <1>1, <1>2 DEF Succ, Pred, Link

\* No node is on two rings.
LEMMA RingsApart ==
  ASSUME NEW o \in Seq(Elem), Distinct(o), NEW h \in 0 .. Len(o),
         NEW i \in 0 .. h + 1, NEW j \in h .. Len(o) + 1
  PROVE  NodeOf(o, "hot", 0, h, i) # NodeOf(o, "cold", h, Len(o), j)
<1>1. Len(o) \in Nat /\ \A m \in 1 .. Len(o) : o[m] \in Elem /\ o[m] # "hot" /\ o[m] # "cold"
  BY ElemAssumption, LenProperties DEF Ids
<1>2. \A m, l \in 1 .. Len(o) : o[m] = o[l] => m = l
  BY DEF Distinct
<1>3. CASE i \in 1 .. h /\ j \in h + 1 .. Len(o)
  <2>1. i \in 1 .. Len(o) /\ j \in 1 .. Len(o) /\ i # j
    BY <1>1, <1>3
  <2> QED
    BY <1>2, <1>3, <2>1 DEF NodeOf
<1> QED
  BY <1>1, <1>3 DEF NodeOf

\* Detach changes the pointers of the element and of its neighbours only.
LEMMA DetachFrame ==
  ASSUME NEW r \in RingType, NEW x \in Node, Pred(r, x) \in Node, Succ(r, x) \in Node
  PROVE  LET q == Detach(r, x)
         IN /\ q \in RingType
            /\ q.succ[x] = Null
            /\ q.pred[x] = Null
            /\ \A y \in Node : /\ y # x /\ y # Pred(r, x) => q.succ[y] = r.succ[y]
                               /\ y # x /\ y # Succ(r, x) => q.pred[y] = r.pred[y]
  BY DEF Detach, RingType, LinkType

\* Taking an element out of the rings (the destructor of expire_link, unlink).
LEMMA StandsDetach ==
  ASSUME NEW r, NEW o, NEW h, Stands(r, o, h), NEW p \in 1 .. Len(o)
  PROVE  /\ Stands(Detach(r, o[p]), RemoveAt(o, p), IF p <= h THEN h - 1 ELSE h)
         /\ r.pred[o[p]].id = IF p <= h THEN "hot" ELSE "cold"
<1> DEFINE n == Len(o)
           x == o[p]
           q == Detach(r, x)
           u == RemoveAt(o, p)
           H(i) == NodeOf(o, "hot", 0, h, i)
           C(i) == NodeOf(o, "cold", h, n, i)
<1>1. /\ r \in RingType /\ o \in Seq(Elem) /\ h \in 0 .. n /\ Distinct(o)
      /\ Chain(r, "hot", o, 0, h) /\ Chain(r, "cold", o, h, n)
      /\ \A y \in Elem \ ToSet(o) : r.succ[y] = Null /\ r.pred[y] = Null
  BY DEF Stands
<1>2. n \in Nat /\ x \in Elem /\ x \in Node /\ h \in Nat /\ "hot" \in Ids /\ "cold" \in Ids /\ 0 \in 0 .. n
      /\ h \in 0 .. n /\ h \in h .. n /\ n \in h .. n /\ p \in Nat
  BY <1>1, LenProperties DEF Node, Ids
<1>3. /\ u \in Seq(Elem) /\ Len(u) = n - 1
      /\ \A j \in 1 .. n - 1 : u[j] = IF j < p THEN o[j] ELSE o[j + 1]
  BY <1>1, RemoveAtFacts
<1>4. ToSet(u) = ToSet(o) \ {x} /\ Distinct(u)
  BY <1>1, RemoveAtSet
<1>5. /\ \A i \in 0 .. h + 1 : H(i) \in Node
      /\ \A i \in h .. n + 1 : C(i) \in Node
      /\ \A i \in 1 .. h : H(i) = o[i]
      /\ \A i \in h + 1 .. n : C(i) = o[i]
  BY <1>1, <1>2, NodesDiffer, SMTT(30)
<1>6. \A i \in 0 .. h + 1, j \in h .. n + 1 : H(i) # C(j)
  BY <1>1, RingsApart
<1>7. CASE p <= h
  <2>1. p \in 0 + 1 .. h /\ p \in 0 .. h + 1 /\ p - 1 \in 0 .. h + 1 /\ p + 1 \in 0 .. h + 1
    BY <1>2, <1>7
  <2>2. Pred(r, x) = H(p - 1) /\ Succ(r, x) = H(p + 1) /\ r.pred[x].id = "hot" /\ x = H(p)
    BY <1>1, <1>2, <1>5, <2>1, Neighbours
  <2>3. Chain(q, "hot", u, 0, h - 1)
    BY <1>1, <1>2, <1>3, <2>1, ChainDetach
  <2>4. q \in RingType /\ q.succ[x] = Null /\ q.pred[x] = Null
        /\ \A y \in Node : /\ y # x /\ y # Pred(r, x) => q.succ[y] = r.succ[y]
                           /\ y # x /\ y # Succ(r, x) => q.pred[y] = r.pred[y]
    BY <1>1, <1>2, <1>5, <2>1, <2>2, DetachFrame
  <2>5. \A j \in h .. n + 1 : q.succ[C(j)] = r.succ[C(j)] /\ q.pred[C(j)] = r.pred[C(j)]
    BY <1>5, <1>6, <2>1, <2>2, <2>4
  <2>6. Chain(q, "cold", u, h + -1, n + -1)
    <3>1. \A i \in h + 1 .. n : u[i + -1] = o[i]
      BY <1>2, <1>3, <1>7, SMTT(30)
    <3>2. \A i \in h .. n : q.succ[C(i)] = r.succ[C(i)] /\ q.pred[C(i)] = r.pred[C(i)]
      BY <1>2, <2>5
    <3>3. -1 \in Int
      OBVIOUS
    <3> HIDE DEF q, u
    <3> QED
      BY <1>1, <1>2, <3>1, <3>2, <3>3, ChainShifts, ZenonT(60)
  <2>7. \A y \in Elem \ ToSet(u) : q.succ[y] = Null /\ q.pred[y] = Null
    <3> SUFFICES ASSUME NEW y \in Elem \ ToSet(u) PROVE q.succ[y] = Null /\ q.pred[y] = Null
      OBVIOUS
    <3>1. CASE y = x
      BY <2>4, <3>1
    <3>2. CASE y # x
      <4>1. y \in Elem \ ToSet(o) /\ y \in Node
        BY <1>4, <3>2 DEF Node
      <4>2. \A i \in 0 .. h + 1 : y # H(i)
        <5>1. \A i \in 1 .. n : y # o[i]
          BY <1>1, <4>1, ToSetFacts
        <5>2. y # "hot"
          BY ElemAssumption DEF Ids
        <5> QED
          BY <1>2, <5>1, <5>2 DEF NodeOf
      <4> QED
        BY <1>1, <2>1, <2>2, <2>4, <3>2, <4>1, <4>2
    <3> QED
      BY <3>1, <3>2
  <2> HIDE DEF q, u, x
  <2>8. h - 1 \in 0 .. Len(u) /\ h + -1 = h - 1 /\ n + -1 = Len(u)
    BY <1>2, <1>3, <1>7
  <2>9. Stands(q, u, h - 1)
    BY <1>3, <1>4, <2>3, <2>4, <2>6, <2>7, <2>8 DEF Stands
  <2> QED
    BY <1>7, <2>2, <2>9 DEF q, u, x
<1>8. CASE ~(p <= h)
  <2>1. p \in h + 1 .. n /\ p \in h .. n + 1 /\ p - 1 \in h .. n + 1 /\ p + 1 \in h .. n + 1
    BY <1>2, <1>8
  <2>2. Pred(r, x) = C(p - 1) /\ Succ(r, x) = C(p + 1) /\ r.pred[x].id = "cold" /\ x = C(p)
    <3>1. x = C(p) /\ p \in h + 1 .. n
      BY <1>5, <2>1
    <3> QED
      BY <1>1, <1>2, <3>1, Neighbours
  <2>3. Chain(q, "cold", u, h, n - 1)
    BY <1>1, <1>2, <1>3, <2>1, ChainDetach
  <2>4. q \in RingType /\ q.succ[x] = Null /\ q.pred[x] = Null
        /\ \A y \in Node : /\ y # x /\ y # Pred(r, x) => q.succ[y] = r.succ[y]
                           /\ y # x /\ y # Succ(r, x) => q.pred[y] = r.pred[y]
    BY <1>1, <1>2, <1>5, <2>1, <2>2, DetachFrame
  <2>5. \A j \in 0 .. h + 1 : q.succ[H(j)] = r.succ[H(j)] /\ q.pred[H(j)] = r.pred[H(j)]
    BY <1>5, <1>6, <2>1, <2>2, <2>4
  <2>6. Chain(q, "hot", u, 0 + 0, h + 0)
    <3>1. \A i \in 0 + 1 .. h : u[i + 0] = o[i]
      BY <1>2, <1>3, <1>8
    <3>2. \A i \in 0 .. h : q.succ[H(i)] = r.succ[H(i)] /\ q.pred[H(i)] = r.pred[H(i)]
      BY <1>2, <2>5
    <3>3. h \in 0 .. h /\ h \in 0 .. Len(o) /\ 0 \in Int /\ 0 \in 0 .. Len(o)
      BY <1>1, <1>2
    <3> HIDE DEF q, u
    <3> QED
      BY <1>1, <1>2, <3>1, <3>2, <3>3, ChainShifts
  <2>7. \A y \in Elem \ ToSet(u) : q.succ[y] = Null /\ q.pred[y] = Null
    <3> SUFFICES ASSUME NEW y \in Elem \ ToSet(u) PROVE q.succ[y] = Null /\ q.pred[y] = Null
      OBVIOUS
    <3>1. CASE y = x
      BY <2>4, <3>1
    <3>2. CASE y # x
      <4>1. y \in Elem \ ToSet(o) /\ y \in Node
        BY <1>4, <3>2 DEF Node
      <4>2. \A i \in h .. n + 1 : y # C(i)
        <5>1. \A i \in 1 .. n : y # o[i]
          BY <1>1, <4>1, ToSetFacts
        <5>2. y # "cold"
          BY ElemAssumption DEF Ids
        <5> QED
          BY <1>2, <5>1, <5>2 DEF NodeOf
      <4> QED
        BY <1>1, <2>1, <2>2, <2>4, <3>2, <4>1, <4>2
    <3> QED
      BY <3>1, <3>2
  <2> HIDE DEF q, u, x
  <2>8. h \in 0 .. Len(u) /\ h + 0 = h /\ 0 + 0 = 0 /\ n - 1 = Len(u)
    BY <1>2, <1>3, <1>8
  <2>9. Stands(q, u, h)
    BY <1>3, <1>4, <2>3, <2>4, <2>6, <2>7, <2>8 DEF Stands
  <2> QED
    BY <1>8, <2>2, <2>9 DEF q, u, x
<1> QED
  BY <1>7, <1>8

\* Between changes the pointers of the element and of its neighbours only.
LEMMA BetweenFrame ==
  ASSUME NEW r \in RingType, NEW e \in Elem, NEW b \in Node, NEW a \in Node, NEW k \in Ids
  PROVE  LET q == Between(r, e, b, a, k)
         IN /\ q \in RingType
            /\ \A y \in Node : /\ y # e /\ y # b => q.succ[y] = r.succ[y]
                               /\ y # e /\ y # a => q.pred[y] = r.pred[y]
<1>1. e \in Node /\ Link(e, k) \in LinkType /\ r.succ[b] \in LinkType /\ r.pred[a] \in LinkType
  BY DEF RingType, LinkType, Link, Node
<1> QED
  BY <1>1 DEF Between, RingType

\* Placing an element in the hot ring.
LEMMA StandsInsertHot ==
  ASSUME NEW r, NEW o, NEW h, Stands(r, o, h), NEW e \in Elem \ ToSet(o), NEW p \in 1 .. h + 1
  PROVE  Stands(Between(r, e, NodeOf(o, "hot", 0, h, p - 1), NodeOf(o, "hot", 0, h, p), "hot"),
                InsertAt(o, p, e), h + 1)
<1> DEFINE n == Len(o)
           H(i) == NodeOf(o, "hot", 0, h, i)
           C(i) == NodeOf(o, "cold", h, n, i)
           q == Between(r, e, H(p - 1), H(p), "hot")
           u == InsertAt(o, p, e)
<1>1. /\ r \in RingType /\ o \in Seq(Elem) /\ h \in 0 .. n /\ Distinct(o)
      /\ Chain(r, "hot", o, 0, h) /\ Chain(r, "cold", o, h, n)
      /\ \A y \in Elem \ ToSet(o) : r.succ[y] = Null /\ r.pred[y] = Null
  BY DEF Stands
<1>2. n \in Nat /\ h \in Nat /\ "hot" \in Ids /\ "cold" \in Ids /\ 0 \in 0 .. n
      /\ h \in 0 .. h /\ h \in h .. n /\ n \in h .. n /\ p \in Nat /\ e \in Node
      /\ p \in 1 .. n + 1 /\ p \in 0 + 1 .. h + 1 /\ p - 1 \in 0 .. h + 1 /\ p \in 0 .. h + 1
  BY <1>1, LenProperties DEF Node, Ids
<1>3. /\ u \in Seq(Elem) /\ Len(u) = n + 1
      /\ \A j \in 1 .. n + 1 : u[j] = IF j < p THEN o[j] ELSE IF j = p THEN e ELSE o[j - 1]
  BY <1>1, <1>2, InsertAtFacts
<1>4. ToSet(u) = ToSet(o) \union {e} /\ Distinct(u)
  BY <1>1, <1>2, InsertAtSet
<1>5. /\ \A i \in 0 .. h + 1 : H(i) \in Node
      /\ \A i \in h .. n + 1 : C(i) \in Node
  BY <1>1, <1>2, NodesDiffer
<1>6. \A i \in 0 .. h + 1, j \in h .. n + 1 : H(i) # C(j)
  BY <1>1, RingsApart
<1>7. \A y \in Elem \ ToSet(o) :
        /\ \A i \in 0 .. h + 1 : y # H(i)
        /\ \A j \in h .. n + 1 : y # C(j)
  <2> SUFFICES ASSUME NEW y \in Elem \ ToSet(o)
               PROVE  /\ \A i \in 0 .. h + 1 : y # H(i)
                      /\ \A j \in h .. n + 1 : y # C(j)
    OBVIOUS
  <2>1. \A i \in 1 .. n : y # o[i]
    BY <1>1, ToSetFacts
  <2>2. y # "hot" /\ y # "cold"
    BY ElemAssumption DEF Ids
  <2> QED
    BY <1>2, <2>1, <2>2 DEF NodeOf
<1>8. q \in RingType
      /\ \A y \in Node : /\ y # e /\ y # H(p - 1) => q.succ[y] = r.succ[y]
                         /\ y # e /\ y # H(p) => q.pred[y] = r.pred[y]
  BY <1>1, <1>2, <1>5, BetweenFrame
<1>9. Chain(q, "hot", u, 0, h + 1)
  BY <1>1, <1>2, <1>3, ChainInsert
<1>10. Chain(q, "cold", u, h + 1, n + 1)
  <2>1. \A i \in h + 1 .. n : u[i + 1] = o[i]
    BY <1>2, <1>3, SMTT(30)
  <2>2. \A i \in h .. n : q.succ[C(i)] = r.succ[C(i)] /\ q.pred[C(i)] = r.pred[C(i)]
    BY <1>2, <1>5, <1>6, <1>7, <1>8
  <2>3. 1 \in Int
    OBVIOUS
  <2> HIDE DEF q, u
  <2> QED
    BY <1>1, <1>2, <2>1, <2>2, <2>3, ChainShifts, ZenonT(60)
<1>11. \A y \in Elem \ ToSet(u) : q.succ[y] = Null /\ q.pred[y] = Null
  <2> SUFFICES ASSUME NEW y \in Elem \ ToSet(u) PROVE q.succ[y] = Null /\ q.pred[y] = Null
    OBVIOUS
  <2>1. y \in Elem \ ToSet(o) /\ y # e /\ y \in Node
    BY <1>4 DEF Node
  <2>2. y # H(p - 1) /\ y # H(p)
    BY <1>2, <1>7, <2>1
  <2> QED
    BY <1>1, <1>8, <2>1, <2>2
<1> HIDE DEF q, u
<1>12. h + 1 \in 0 .. Len(u) /\ n + 1 = Len(u)
  BY <1>2, <1>3
<1>13. Stands(q, u, h + 1)
  BY <1>3, <1>4, <1>8, <1>9, <1>10, <1>11, <1>12 DEF Stands
<1> QED
  BY <1>13 DEF q, u

\* Placing an element in the cold ring.
LEMMA StandsInsertCold ==
  ASSUME NEW r, NEW o, NEW h, Stands(r, o, h), NEW e \in Elem \ ToSet(o),
         NEW p \in h + 1 .. Len(o) + 1
  PROVE  Stands(Between(r, e, NodeOf(o, "cold", h, Len(o), p - 1), NodeOf(o, "cold", h, Len(o), p), "cold"),
                InsertAt(o, p, e), h)
<1> DEFINE n == Len(o)
           H(i) == NodeOf(o, "hot", 0, h, i)
           C(i) == NodeOf(o, "cold", h, n, i)
           q == Between(r, e, C(p - 1), C(p), "cold")
           u == InsertAt(o, p, e)
<1>1. /\ r \in RingType /\ o \in Seq(Elem) /\ h \in 0 .. n /\ Distinct(o)
      /\ Chain(r, "hot", o, 0, h) /\ Chain(r, "cold", o, h, n)
      /\ \A y \in Elem \ ToSet(o) : r.succ[y] = Null /\ r.pred[y] = Null
  BY DEF Stands
<1>2. n \in Nat /\ h \in Nat /\ "hot" \in Ids /\ "cold" \in Ids /\ 0 \in 0 .. n
      /\ h \in 0 .. h /\ h \in h .. n /\ n \in h .. n /\ p \in Nat /\ e \in Node
      /\ p \in 1 .. n + 1 /\ p - 1 \in h .. n + 1 /\ p \in h .. n + 1
  BY <1>1, LenProperties DEF Node, Ids
<1>3. /\ u \in Seq(Elem) /\ Len(u) = n + 1
      /\ \A j \in 1 .. n + 1 : u[j] = IF j < p THEN o[j] ELSE IF j = p THEN e ELSE o[j - 1]
  BY <1>1, <1>2, InsertAtFacts
<1>4. ToSet(u) = ToSet(o) \union {e} /\ Distinct(u)
  BY <1>1, <1>2, InsertAtSet
<1>5. /\ \A i \in 0 .. h + 1 : H(i) \in Node
      /\ \A i \in h .. n + 1 : C(i) \in Node
  BY <1>1, <1>2, NodesDiffer
<1>6. \A i \in 0 .. h + 1, j \in h .. n + 1 : H(i) # C(j)
  BY <1>1, RingsApart
<1>7. \A y \in Elem \ ToSet(o) :
        /\ \A i \in 0 .. h + 1 : y # H(i)
        /\ \A j \in h .. n + 1 : y # C(j)
  <2> SUFFICES ASSUME NEW y \in Elem \ ToSet(o)
               PROVE  /\ \A i \in 0 .. h + 1 : y # H(i)
                      /\ \A j \in h .. n + 1 : y # C(j)
    OBVIOUS
  <2>1. \A i \in 1 .. n : y # o[i]
    BY <1>1, ToSetFacts
  <2>2. y # "hot" /\ y # "cold"
    BY ElemAssumption DEF Ids
  <2> QED
    BY <1>2, <2>1, <2>2 DEF NodeOf
<1>8. q \in RingType
      /\ \A y \in Node : /\ y # e /\ y # C(p - 1) => q.succ[y] = r.succ[y]
                         /\ y # e /\ y # C(p) => q.pred[y] = r.pred[y]
  <2>1. C(p - 1) \in Node /\ C(p) \in Node
    BY <1>2, <1>5
  <2> QED
    BY <1>1, <1>2, <2>1, BetweenFrame
<1>9. Chain(q, "cold", u, h, n + 1)
  BY <1>1, <1>2, <1>3, ChainInsert
<1>10. Chain(q, "hot", u, 0 + 0, h + 0)
  <2>1. \A i \in 0 + 1 .. h : u[i + 0] = o[i]
    BY <1>2, <1>3
  <2>2. \A i \in 0 .. h : q.succ[H(i)] = r.succ[H(i)] /\ q.pred[H(i)] = r.pred[H(i)]
    BY <1>2, <1>5, <1>6, <1>7, <1>8
  <2>3. h \in 0 .. h /\ h \in 0 .. Len(o) /\ 0 \in Int /\ 0 \in 0 .. Len(o)
    BY <1>1, <1>2
  <2> HIDE DEF q, u
  <2> QED
    BY <1>1, <1>2, <2>1, <2>2, <2>3, ChainShifts
<1>11. \A y \in Elem \ ToSet(u) : q.succ[y] = Null /\ q.pred[y] = Null
  <2> SUFFICES ASSUME NEW y \in Elem \ ToSet(u) PROVE q.succ[y] = Null /\ q.pred[y] = Null
    OBVIOUS
  <2>1. y \in Elem \ ToSet(o) /\ y # e /\ y \in Node
    BY <1>4 DEF Node
  <2>2. y # C(p - 1) /\ y # C(p)
    BY <1>2, <1>7, <2>1
  <2> QED
    BY <1>1, <1>8, <2>1, <2>2
<1> HIDE DEF q, u
<1>12. h \in 0 .. Len(u) /\ n + 1 = Len(u) /\ 0 + 0 = 0 /\ h + 0 = h
  BY <1>2, <1>3
<1>13. Stands(q, u, h)
  BY <1>3, <1>4, <1>8, <1>9, <1>10, <1>11, <1>12 DEF Stands
<1> QED
  BY <1>13 DEF q, u

\* link_after(cold_head_): on top of the cold zone.
LEMMA ColdFront ==
  ASSUME NEW r, NEW o, NEW h, Stands(r, o, h), NEW e \in Elem \ ToSet(o)
  PROVE  Stands(LinkAfter(r, e, "cold"), InsertAt(o, h + 1, e), h)
<1> DEFINE n == Len(o)
           C(i) == NodeOf(o, "cold", h, n, i)
<1>1. r \in RingType /\ h \in Nat /\ n \in Nat /\ h <= n /\ Chain(r, "cold", o, h, n) /\ "cold" \in Ids
  BY LenProperties DEF Stands, Ids
<1>2. C(h) = "cold" /\ (h + 1) - 1 = h /\ h + 1 \in h + 1 .. n + 1
  BY <1>1 DEF NodeOf
<1>3. Succ(r, "cold") = C(h + 1) /\ r.succ["cold"].id = "cold"
  BY <1>1, HeadLinks
<1>4. LinkAfter(r, e, "cold") = Between(r, e, C((h + 1) - 1), C(h + 1), "cold")
  BY <1>2, <1>3 DEF LinkAfter, Between
<1> QED
  BY <1>2, <1>4, StandsInsertCold

\* What is put in front of a list is its first element.
LEMMA ConsIsInsertAt ==
  ASSUME NEW o \in Seq(Elem), NEW e \in Elem
  PROVE  /\ Cons(e, o) = InsertAt(o, 1, e)
         /\ Cons(e, o) \in Seq(Elem) /\ Len(Cons(e, o)) = Len(o) + 1
<1>1. Len(o) \in Nat /\ 1 \in 1 .. Len(o) + 1
  BY LenProperties
<1>2. Cons(e, o) \in Seq(Elem) /\ Len(Cons(e, o)) = Len(o) + 1
  BY ConsFacts
<1>5. \A j \in 1 .. Len(o) + 1 : Cons(e, o)[j] = IF j = 1 THEN e ELSE o[j - 1]
  BY ConsFacts
<1>3. /\ InsertAt(o, 1, e) \in Seq(Elem) /\ Len(InsertAt(o, 1, e)) = Len(o) + 1
      /\ \A j \in 1 .. Len(o) + 1 :
           InsertAt(o, 1, e)[j] = IF j < 1 THEN o[j] ELSE IF j = 1 THEN e ELSE o[j - 1]
  BY <1>1, InsertAtFacts
<1>4. ASSUME NEW j \in 1 .. Len(o) + 1
      PROVE  Cons(e, o)[j] = InsertAt(o, 1, e)[j]
  <2>1. ~(j < 1)
    BY <1>1
  <2> QED
    BY <1>3, <1>5, <2>1
<1> QED
  BY <1>2, <1>3, <1>4, SeqEqual

\* link_after(hot_head_): in front of the hot zone.
LEMMA HotFront ==
  ASSUME NEW r, NEW o, NEW h, Stands(r, o, h), NEW e \in Elem \ ToSet(o)
  PROVE  Stands(LinkAfter(r, e, "hot"), Cons(e, o), h + 1)
<1> DEFINE n == Len(o)
           H(i) == NodeOf(o, "hot", 0, h, i)
<1>1. r \in RingType /\ h \in Nat /\ o \in Seq(Elem) /\ n \in Nat /\ Chain(r, "hot", o, 0, h) /\ "hot" \in Ids
  BY LenProperties DEF Stands, Ids
<1>2. H(0) = "hot" /\ 1 - 1 = 0 /\ 1 \in 1 .. h + 1 /\ 1 \in 1 .. n + 1
  BY <1>1 DEF NodeOf
<1>3. Succ(r, "hot") = H(1) /\ r.succ["hot"].id = "hot"
  BY <1>1, HeadLinks
<1>4. LinkAfter(r, e, "hot") = Between(r, e, H(1 - 1), H(1), "hot")
  BY <1>2, <1>3 DEF LinkAfter, Between
<1>5. Cons(e, o) = InsertAt(o, 1, e)
  BY <1>1, ConsIsInsertAt
<1> QED
  BY <1>2, <1>4, <1>5, StandsInsertHot

\* link_before(hot_head_): at the back of the hot zone.
LEMMA HotBack ==
  ASSUME NEW r, NEW o, NEW h, Stands(r, o, h), NEW e \in Elem \ ToSet(o)
  PROVE  Stands(LinkBefore(r, e, "hot"), InsertAt(o, h + 1, e), h + 1)
<1> DEFINE H(i) == NodeOf(o, "hot", 0, h, i)
<1>1. r \in RingType /\ h \in Nat /\ Chain(r, "hot", o, 0, h) /\ "hot" \in Ids
  BY LenProperties DEF Stands, Ids
<1>2. H(h + 1) = "hot" /\ (h + 1) - 1 = h /\ h + 1 \in 1 .. h + 1 /\ h \in 0 .. h
  BY <1>1 DEF NodeOf
<1>3. Pred(r, "hot") = H(h) /\ r.succ["hot"].id = "hot"
  BY <1>1, HeadLinks
<1>5. LinkBefore(r, e, "hot") = Between(r, e, H((h + 1) - 1), H(h + 1), "hot")
  BY <1>2, <1>3 DEF LinkBefore, Between
<1> QED
  BY <1>2, <1>5, StandsInsertHot

\* Putting back what was taken away.
LEMMA PutBackAt ==
  ASSUME NEW o \in Seq(Elem), NEW p \in 1 .. Len(o), NEW s \in Seq(Elem), Len(s) = Len(o) - 1,
         \A j \in 1 .. Len(o) - 1 : s[j] = IF j < p THEN o[j] ELSE o[j + 1]
  PROVE  InsertAt(s, p, o[p]) = o
<1>1. Len(o) \in Nat /\ Len(s) \in Nat /\ o[p] \in Elem /\ p \in 1 .. Len(s) + 1
  BY LenProperties
<1>2. PICK e \in Elem : e = o[p]
  BY <1>1
<1> DEFINE t == InsertAt(s, p, e)
<1>3. /\ t \in Seq(Elem) /\ Len(t) = Len(s) + 1
      /\ \A j \in 1 .. Len(s) + 1 : t[j] = IF j < p THEN s[j] ELSE IF j = p THEN e ELSE s[j - 1]
  BY <1>1, InsertAtFacts
<1> HIDE DEF t
<1>4. ASSUME NEW j \in 1 .. Len(o) PROVE t[j] = o[j]
  <2>1. j \in 1 .. Len(s) + 1
    BY <1>1
  <2>2. CASE j < p
    <3>1. j \in 1 .. Len(o) - 1
      BY <1>1, <2>2
    <3> QED
      BY <1>3, <2>1, <2>2, <3>1
  <2>3. CASE j = p
    BY <1>2, <1>3, <2>1, <2>3
  <2>4. CASE j > p
    <3>1. j - 1 \in 1 .. Len(o) - 1 /\ ~(j - 1 < p) /\ (j - 1) + 1 = j /\ ~(j < p) /\ j # p
      BY <1>1, <2>4
    <3> QED
      BY <1>3, <2>1, <3>1
  <2> QED
    BY <1>1, <2>2, <2>3, <2>4
<1>5. t = o
  <2>1. Len(t) = Len(o)
    BY <1>1, <1>3
  <2> QED
    BY <1>3, <1>4, <2>1, SeqEqual
<1> QED
  BY <1>2, <1>5 DEF t

\* The same with the operators of SequencesExt.
LEMMA PutBack ==
  ASSUME NEW o \in Seq(Elem), NEW p \in 1 .. Len(o)
  PROVE  InsertAt(RemoveAt(o, p), p, o[p]) = o
  BY RemoveAtFacts, PutBackAt

\* The loops of rebalance_ move the boundary and leave the order alone.
LEMMA BoundaryMoves ==
  ASSUME NEW r, NEW o, NEW h, Stands(r, o, h)
  PROVE  /\ h > 0 => LET s == Pred(r, "hot")
                     IN Stands(LinkAfter(Detach(r, s), s, "cold"), o, h - 1)
         /\ h < Len(o) => LET s == Succ(r, "cold")
                          IN Stands(LinkBefore(Detach(r, s), s, "hot"), o, h + 1)
<1>1. /\ r \in RingType /\ o \in Seq(Elem) /\ h \in 0 .. Len(o) /\ Distinct(o) /\ h \in Nat /\ Len(o) \in Nat
      /\ Chain(r, "hot", o, 0, h) /\ Chain(r, "cold", o, h, Len(o))
      /\ "hot" \in Ids /\ "cold" \in Ids
  BY LenProperties DEF Stands, Ids
<1>2. \A p \in 1 .. Len(o) : o[p] \in Elem \ ToSet(RemoveAt(o, p))
  BY <1>1, RemoveAtSet, LenProperties
<1>3. ASSUME h > 0
      PROVE  LET s == Pred(r, "hot")
             IN Stands(LinkAfter(Detach(r, s), s, "cold"), o, h - 1)
  <2>1. h \in 1 .. Len(o) /\ (h - 1) + 1 = h
    BY <1>1, <1>3
  <2>2. Pred(r, "hot") = o[h]
    BY <1>1, <2>1, HeadLinks DEF NodeOf
  <2>3. Stands(Detach(r, o[h]), RemoveAt(o, h), h - 1)
    BY <2>1, StandsDetach
  <2>4. Stands(LinkAfter(Detach(r, o[h]), o[h], "cold"), InsertAt(RemoveAt(o, h), (h - 1) + 1, o[h]), h - 1)
    BY <1>2, <2>1, <2>3, ColdFront
  <2> QED
    BY <1>1, <2>1, <2>2, <2>4, PutBack
<1>4. ASSUME h < Len(o)
      PROVE  LET s == Succ(r, "cold")
             IN Stands(LinkBefore(Detach(r, s), s, "hot"), o, h + 1)
  <2>1. h + 1 \in 1 .. Len(o) /\ ~(h + 1 <= h)
    BY <1>1, <1>4
  <2>2. Succ(r, "cold") = o[h + 1]
    <3>1. Succ(r, "cold") = NodeOf(o, "cold", h, Len(o), h + 1)
      BY <1>1, HeadLinks
    <3>2. h + 1 \in h + 1 .. Len(o)
      BY <1>1, <1>4
    <3> QED
      BY <3>1, <3>2 DEF NodeOf
  <2>3. Stands(Detach(r, o[h + 1]), RemoveAt(o, h + 1), h)
    BY <2>1, StandsDetach
  <2>4. Stands(LinkBefore(Detach(r, o[h + 1]), o[h + 1], "hot"), InsertAt(RemoveAt(o, h + 1), h + 1, o[h + 1]), h + 1)
    BY <1>2, <2>1, <2>3, HotBack
  <2> QED
    BY <1>1, <2>1, <2>2, <2>4, PutBack
<1> QED
  BY <1>3, <1>4

-----------------------------------------------------------------------------
\* The closed forms of ExpireQueueOps, one turn of a loop at a time.

\* Where rebalance_ puts the boundary in a queue of n elements.
Split(n, h) ==
  IF 2 * h > n + 1 THEN (n + 1) \div 2 ELSE IF 2 * h < n - 1 THEN n \div 2 ELSE h

\* The part of a list that survives when n elements are left.
Cut(h, n) == IF h <= n THEN h ELSE n

Pair(o, h) == [order |-> o, hots |-> h]

\* The operators in these terms.
LEMMA PairForms ==
  ASSUME NEW o, NEW h, NEW n
  PROVE  /\ Rebalance(Pair(o, h)) = Pair(o, Split(Len(o), h))
         /\ ShrinkTo(Pair(o, h), n) =
              IF n >= Len(o) THEN Pair(o, Split(Len(o), h))
              ELSE Pair(SubSeq(o, 1, n), Split(Len(SubSeq(o, 1, n)), Cut(h, n)))
<1>1. \A s, g : Rebalance(Pair(s, g)) = Pair(s, Split(Len(s), g))
  BY DEF Pair, Rebalance, Split
<1>2. Pair(o, h).order = o /\ Pair(o, h).hots = h /\ QSize(Pair(o, h)) = Len(o)
  BY DEF Pair, QSize
<1>3. ShrinkTo(Pair(o, h), n) =
        IF n >= Len(o) THEN Rebalance(Pair(o, h)) ELSE Rebalance(Pair(SubSeq(o, 1, n), Cut(h, n)))
  BY <1>2 DEF ShrinkTo, Pair, Cut
<1> QED
  BY <1>1, <1>3

\* A turn of rebalance_ does not change where it ends; it ends where it stops.
LEMMA SplitTurns ==
  ASSUME NEW n \in Nat, NEW h \in 0 .. n
  PROVE  /\ 2 * h > n + 1 => Split(n, h - 1) = Split(n, h)
         /\ 2 * h < n - 1 => Split(n, h + 1) = Split(n, h)
         /\ 2 * h <= n + 1 /\ 2 * h >= n - 1 => Split(n, h) = h
         /\ Split(n, h) \in 0 .. n
         /\ 2 * Split(n, h) <= n + 1 /\ 2 * Split(n, h) >= n - 1
  BY DEF Split

\* Rebalancing between two drops does not change the outcome.
LEMMA SplitBetween ==
  ASSUME NEW n \in Nat, n > 0, NEW h \in 0 .. n, 2 * h <= n + 1, 2 * h >= n - 1,
         NEW m \in Nat, m < n - 1
  PROVE  LET g == IF n <= h THEN h - 1 ELSE h
         IN Split(m, Cut(Split(n - 1, g), m)) = Split(m, Cut(h, m))
<1> DEFINE g == IF n <= h THEN h - 1 ELSE h
           f == Split(n - 1, g)
<1>1. g = h
  OBVIOUS
<1>2. f = h \/ (f = h - 1 /\ 2 * h = n + 1)
  BY <1>1 DEF Split
<1> HIDE DEF f, g
<1>3. CASE f = h - 1 /\ 2 * h = n + 1
  <2>1. CASE m <= h - 1
    BY <1>3, <2>1 DEF Cut, Split
  <2>2. CASE ~(m <= h - 1)
    BY <1>3, <2>2 DEF Cut, Split
  <2> QED
    BY <2>1, <2>2
<1> QED
  BY <1>2, <1>3 DEF f, g

\* Taking the last element off a sequence.
LEMMA DropLast ==
  ASSUME NEW S, NEW o \in Seq(S), NEW n \in Nat, n = Len(o), n > 0
  PROVE  LET u == RemoveAt(o, n)
         IN /\ u \in Seq(S) /\ Len(u) = n - 1
            /\ \A j \in 1 .. n - 1 : u[j] = o[j]
            /\ \A m \in 0 .. n - 1 : SubSeq(u, 1, m) = SubSeq(o, 1, m)
            /\ u = SubSeq(o, 1, n - 1)
<1> DEFINE u == RemoveAt(o, n)
<1>1. n \in 1 .. Len(o) /\ n - 1 \in 0 .. Len(o) /\ n - 1 \in Nat
  OBVIOUS
<1>2. /\ u \in Seq(S) /\ Len(u) = n - 1
      /\ \A j \in 1 .. n - 1 : u[j] = o[j]
  <2>1. /\ u \in Seq(S) /\ Len(u) = Len(o) - 1
        /\ \A j \in 1 .. Len(o) - 1 : u[j] = IF j < n THEN o[j] ELSE o[j + 1]
    BY <1>1, RemoveAtFacts
  <2> QED
    BY <1>1, <2>1
<1> HIDE DEF u
<1>3. ASSUME NEW m \in 0 .. n - 1
      PROVE  SubSeq(u, 1, m) = SubSeq(o, 1, m)
  <2>0. m \in Nat /\ m <= Len(o) /\ m <= Len(u) /\ 1 \in Nat \ {0}
    BY <1>1, <1>2
  <2>1. /\ SubSeq(u, 1, m) \in Seq(S) /\ Len(SubSeq(u, 1, m)) = IF 1 <= m THEN m - 1 + 1 ELSE 0
        /\ \A i \in 1 .. m - 1 + 1 : SubSeq(u, 1, m)[i] = u[1 + i - 1]
    BY <1>2, <2>0, SubSeqFacts
  <2>2. /\ SubSeq(o, 1, m) \in Seq(S) /\ Len(SubSeq(o, 1, m)) = IF 1 <= m THEN m - 1 + 1 ELSE 0
        /\ \A i \in 1 .. m - 1 + 1 : SubSeq(o, 1, m)[i] = o[1 + i - 1]
    BY <2>0, SubSeqFacts
  <2> DEFINE v == SubSeq(u, 1, m)
             w == SubSeq(o, 1, m)
  <2>3. \A i \in 1 .. m : 1 + i - 1 = i /\ i \in 1 .. n - 1 /\ i \in 1 .. m - 1 + 1
    BY <1>1
  <2>4. \A i \in 1 .. m : v[i] = w[i]
    BY <1>2, <2>1, <2>2, <2>3
  <2>5. Len(v) = m /\ Len(w) = m /\ v \in Seq(S) /\ w \in Seq(S)
    BY <2>0, <2>1, <2>2
  <2> HIDE DEF v, w
  <2>6. v = w
    BY <2>4, <2>5, SeqEqual
  <2> QED
    BY <2>6 DEF v, w
<1>4. u = SubSeq(o, 1, n - 1)
  <2>1. SubSeq(u, 1, n - 1) = SubSeq(o, 1, n - 1)
    BY <1>1, <1>3
  <2>2. SubSeq(u, 1, Len(u)) = u
    <3>1. Len(u) \in Nat /\ Len(u) <= Len(u) /\ 1 \in Nat \ {0}
      BY <1>1, <1>2
    <3>2. /\ SubSeq(u, 1, Len(u)) \in Seq(S)
          /\ Len(SubSeq(u, 1, Len(u))) = IF 1 <= Len(u) THEN Len(u) - 1 + 1 ELSE 0
          /\ \A i \in 1 .. Len(u) - 1 + 1 : SubSeq(u, 1, Len(u))[i] = u[1 + i - 1]
      BY <1>2, <3>1, SubSeqFacts
    <3> DEFINE v == SubSeq(u, 1, Len(u))
    <3>3. \A i \in 1 .. Len(u) : 1 + i - 1 = i /\ i \in 1 .. Len(u) - 1 + 1
      BY <3>1
    <3>4. \A i \in 1 .. Len(u) : v[i] = u[i]
      BY <3>2, <3>3
    <3>5. Len(v) = Len(u) /\ v \in Seq(S)
      BY <3>1, <3>2
    <3> HIDE DEF v
    <3>6. v = u
      BY <1>2, <3>4, <3>5, SeqEqual
    <3> QED
      BY <3>6 DEF v
  <2> QED
    BY <1>2, <2>1, <2>2
<1> QED
  BY <1>2, <1>3, <1>4 DEF u

\* Dropping the last element first, and rebalancing in between when the queue was
\* balanced, leads to the same queue.
LEMMA ShrinkDrop ==
  ASSUME NEW S, NEW o \in Seq(S), NEW n \in Nat, n = Len(o), n > 0,
         NEW h \in 0 .. n, NEW m \in 0 .. n - 1
  PROVE  LET u == RemoveAt(o, n)
             g == IF n <= h THEN h - 1 ELSE h
         IN /\ ShrinkTo(Pair(u, g), m) = ShrinkTo(Pair(o, h), m)
            /\ 2 * h <= n + 1 /\ 2 * h >= n - 1 =>
                 ShrinkTo(Rebalance(Pair(u, g)), m) = ShrinkTo(Pair(o, h), m)
<1> DEFINE u == RemoveAt(o, n)
           g == IF n <= h THEN h - 1 ELSE h
           w == SubSeq(o, 1, m)
<1>1. /\ u \in Seq(S) /\ Len(u) = n - 1
      /\ SubSeq(u, 1, m) = w /\ u = SubSeq(o, 1, n - 1)
  BY DropLast
<1>2. g \in 0 .. n - 1 /\ n - 1 \in Nat /\ m \in Nat /\ m <= Len(o) /\ 1 \in Nat \ {0}
  OBVIOUS
<1>3. Len(w) = m
  <2>1. Len(w) = IF 1 <= m THEN m - 1 + 1 ELSE 0
    BY <1>2, SubSeqFacts
  <2> QED
    BY <1>2, <2>1
<1>4. ShrinkTo(Pair(o, h), m) = Pair(w, Split(m, Cut(h, m)))
  <2>1. ~(m >= Len(o))
    BY <1>2
  <2> QED
    BY <1>3, <2>1, PairForms
<1> HIDE DEF w, g
<1>5. \A k : ShrinkTo(Pair(u, k), m) = IF m >= n - 1 THEN Pair(u, Split(n - 1, k))
                                       ELSE Pair(w, Split(m, Cut(k, m)))
  <2> SUFFICES ASSUME NEW k
               PROVE  ShrinkTo(Pair(u, k), m) = IF m >= n - 1 THEN Pair(u, Split(n - 1, k))
                                                ELSE Pair(w, Split(m, Cut(k, m)))
    OBVIOUS
  <2>1. ShrinkTo(Pair(u, k), m) =
          IF m >= Len(u) THEN Pair(u, Split(Len(u), k))
          ELSE Pair(SubSeq(u, 1, m), Split(Len(SubSeq(u, 1, m)), Cut(k, m)))
    BY PairForms
  <2> HIDE DEF u
  <2> QED
    BY <1>1, <1>3, <2>1
<1>6. Rebalance(Pair(u, g)) = Pair(u, Split(n - 1, g))
  BY <1>1, PairForms, ZenonT(60)
<1> HIDE DEF u
<1>7. CASE m = n - 1
  <2>1. w = u /\ Cut(h, m) = g
    BY <1>1, <1>7 DEF w, g, Cut
  <2>2. Split(n - 1, Split(n - 1, g)) = Split(n - 1, g)
    <3>1. Split(n - 1, g) \in 0 .. n - 1
          /\ 2 * Split(n - 1, g) <= (n - 1) + 1 /\ 2 * Split(n - 1, g) >= (n - 1) - 1
      BY <1>2, SplitTurns
    <3> QED
      BY <1>2, <3>1, SplitTurns
  <2>3. m >= n - 1
    BY <1>7
  <2> QED
    BY <1>4, <1>5, <1>6, <1>7, <2>1, <2>2, <2>3 DEF u, g
<1>8. CASE m < n - 1
  <2>1. ~(m >= n - 1)
    BY <1>8
  <2>2. Cut(g, m) = Cut(h, m)
    BY <1>8 DEF g, Cut
  <2>3. 2 * h <= n + 1 /\ 2 * h >= n - 1 => Split(m, Cut(Split(n - 1, g), m)) = Split(m, Cut(h, m))
    BY <1>2, <1>8, SplitBetween DEF g
  <2> QED
    BY <1>4, <1>5, <1>6, <2>1, <2>2, <2>3 DEF u, g
<1> QED
  BY <1>7, <1>8

\* There is only one cut.
LEMMA WarmerIs ==
  ASSUME NEW S, NEW q \in Queues(S), NEW D, NEW m \in 0 .. QSize(q),
         \A i \in m + 1 .. QSize(q) : q.order[i] \in D,
         m = 0 \/ q.order[m] \notin D
  PROVE  WarmerThan(q, D) = m
<1> DEFINE c == WarmerThan(q, D)
<1>1. QSize(q) \in Nat
  BY QueueType
<1>2. /\ c \in 0 .. QSize(q)
      /\ \A i \in c + 1 .. QSize(q) : q.order[i] \in D
      /\ c = 0 \/ q.order[c] \notin D
  BY WarmerThanFacts
<1> HIDE DEF c
<1>3. ~(c < m)
  <2> SUFFICES ASSUME c < m PROVE FALSE
    OBVIOUS
  <2>1. m \in c + 1 .. QSize(q) /\ m # 0
    BY <1>1, <1>2
  <2> QED
    BY <1>2, <2>1
<1>4. ~(m < c)
  <2> SUFFICES ASSUME m < c PROVE FALSE
    OBVIOUS
  <2>1. c \in m + 1 .. QSize(q) /\ c # 0
    BY <1>1, <1>2
  <2> QED
    BY <1>2, <2>1
<1> QED
  BY <1>1, <1>2, <1>3, <1>4 DEF c

\* The cut of a queue without its last element, when that is to be dropped.  Only
\* what D says of the remaining elements matters.
LEMMA WarmerDrop ==
  ASSUME NEW S, NEW o \in Seq(S), NEW n \in Nat, n = Len(o), n > 0, NEW D, o[n] \in D,
         NEW E, \A i \in 1 .. n - 1 : o[i] \in D <=> o[i] \in E,
         NEW h \in 0 .. n, NEW g \in 0 .. n - 1
  PROVE  /\ WarmerThan(Pair(o, h), D) \in 0 .. n - 1
         /\ WarmerThan(Pair(RemoveAt(o, n), g), E) = WarmerThan(Pair(o, h), D)
<1> DEFINE u == RemoveAt(o, n)
           p == Pair(o, h)
           q == Pair(u, g)
           m == WarmerThan(p, D)
<1>1. /\ u \in Seq(S) /\ Len(u) = n - 1
      /\ \A j \in 1 .. n - 1 : u[j] = o[j]
  BY DropLast
<1>2. /\ p.order = o /\ QSize(p) = n /\ p \in Queues(S)
      /\ q.order = u /\ QSize(q) = n - 1 /\ q \in Queues(S)
  BY <1>1 DEF Pair, QSize, Queues
<1>3. /\ m \in 0 .. n
      /\ \A i \in m + 1 .. n : o[i] \in D
      /\ m = 0 \/ o[m] \notin D
  BY <1>2, WarmerThanFacts
<1> HIDE DEF u, p, q, m
<1>4. m \in 0 .. n - 1
  BY <1>3
<1>5. \A i \in m + 1 .. n - 1 : u[i] \in E
  BY <1>1, <1>3, <1>4
<1>6. m = 0 \/ u[m] \notin E
  BY <1>1, <1>3, <1>4
<1>7. WarmerThan(q, E) = m
  BY <1>2, <1>4, <1>5, <1>6, WarmerIs
<1> QED
  BY <1>4, <1>7 DEF u, p, q, m

\* Nothing is dropped when the last element is to stay.
LEMMA WarmerKeeps ==
  ASSUME NEW S, NEW o \in Seq(S), NEW D, Len(o) = 0 \/ o[Len(o)] \notin D,
         NEW h \in 0 .. Len(o)
  PROVE  ShrinkWhile(Pair(o, h), D) = Rebalance(Pair(o, h))
<1> DEFINE p == Pair(o, h)
<1>1. p.order = o /\ QSize(p) = Len(o) /\ p \in Queues(S) /\ Len(o) \in Nat
  BY LenProperties DEF Pair, QSize, Queues
<1> HIDE DEF p
<1>2. Len(o) \in 0 .. QSize(p) /\ \A i \in Len(o) + 1 .. QSize(p) : FALSE
  BY <1>1
<1>3. WarmerThan(p, D) = Len(o)
  BY <1>1, <1>2, WarmerIs
<1> QED
  BY <1>1, <1>3 DEF ShrinkWhile, ShrinkTo, p

-----------------------------------------------------------------------------
\* The invariant.

Even(q) == 2 * q.hots <= QSize(q) + 1 /\ 2 * q.hots >= QSize(q) - 1

\* The queue that the rings stand for.
Mirrors(q) ==
  /\ q \in Queues(Elem) /\ Stands(ring, q.order, q.hots)
  /\ qlen = [i \in Ids |-> IF i = "hot" THEN q.hots ELSE QSize(q) - q.hots]
  /\ Queued(q) \subseteq present

\* What is left to do once rebalance_ is done.  On the queue, an element is expired
\* only when it is void.
Rest(q) == IF then = "cleanup" THEN Cleanup(q, void \ pinned) ELSE q

\* The rest of the loops leads from q to the goal.
OnTheWay(q) ==
  /\ phase \in {"idle", "linked", "tidy"} => q = goal /\ Even(q)
  /\ phase \in {"fill", "promote"} => Rest(Rebalance(q)) = goal
  /\ phase = "promote" => 2 * q.hots <= QSize(q) + 1
  /\ phase = "cleanup" => Even(q) /\ Cleanup(q, void \ pinned) = goal
  /\ phase = "drop" =>
       goal = IF shrink.kind = "size" THEN ShrinkTo(q, shrink.n) ELSE ShrinkWhile(q, shrink.old)

Types ==
  /\ present \subseteq Elem /\ held \subseteq present /\ void \subseteq present
  /\ pinned \subseteq present /\ cur \in Elem \union {None}
  /\ phase \in {"idle", "fill", "promote", "linked", "cleanup", "tidy", "drop"}
  /\ then \in {"idle", "linked", "cleanup", "tidy"}
  /\ phase = "drop" /\ shrink.kind = "size" => shrink.n \in Nat

RingInv == Types /\ \E q : Mirrors(q) /\ OnTheWay(q)

\* What the rings say of the queue that they stand for.
LEMMA MirrorFacts ==
  ASSUME NEW q, Mirrors(q)
  PROVE  /\ q.order \in Seq(Elem) /\ QSize(q) = Len(q.order) /\ QSize(q) \in Nat
         /\ q.hots \in 0 .. QSize(q) /\ q = Pair(q.order, q.hots)
         /\ Distinct(q.order) /\ Queued(q) = ToSet(q.order)
         /\ qlen["hot"] = q.hots /\ qlen["cold"] = QSize(q) - q.hots /\ Total = QSize(q)
         /\ \A e \in Elem : Linked(e) <=> e \in Queued(q)
         /\ \A p \in 1 .. QSize(q) : IdOf(q.order[p]) = IF p <= q.hots THEN "hot" ELSE "cold"
         /\ QSize(q) = 0 => Coldest = None
         /\ QSize(q) > 0 => Coldest = q.order[QSize(q)] /\ Coldest # None
<1> DEFINE o == q.order
           h == q.hots
           n == QSize(q)
<1>1. /\ o \in Seq(Elem) /\ n = Len(o) /\ n \in Nat /\ h \in 0 .. n /\ q = Pair(o, h)
      /\ Queued(q) = ToSet(o)
  BY QueueType DEF Mirrors, Pair
<1>2. Stands(ring, o, h) /\ Distinct(o)
      /\ ring \in RingType /\ Chain(ring, "hot", o, 0, h) /\ Chain(ring, "cold", o, h, n)
      /\ \A y \in Elem \ ToSet(o) : ring.pred[y] = Null
  BY <1>1 DEF Mirrors, Stands
<1>3. qlen = [i \in Ids |-> IF i = "hot" THEN h ELSE n - h]
  BY DEF Mirrors
<1> HIDE DEF o, h, n
<1>4. qlen["hot"] = h /\ qlen["cold"] = n - h /\ Total = n
  BY <1>1, <1>3 DEF Ids, Total
<1>5. \A p \in 1 .. n : IdOf(o[p]) = IF p <= h THEN "hot" ELSE "cold"
  BY <1>1, <1>2, StandsDetach DEF IdOf
<1>6. ASSUME NEW e \in Elem
      PROVE  Linked(e) <=> e \in ToSet(o)
  <2>1. CASE e \in ToSet(o)
    <3>1. PICK p \in 1 .. Len(o) : e = o[p]
      BY <1>1, <2>1, ToSetFacts
    <3> QED
      BY <1>1, <1>5, <2>1, <3>1 DEF Linked
  <2>2. CASE e \notin ToSet(o)
    BY <1>2, <2>2 DEF Linked, IdOf, Null
  <2> QED
    BY <2>1, <2>2
<1>7. n = 0 => Coldest = None
  BY <1>1, <1>4 DEF Coldest
<1>8. ASSUME n > 0
      PROVE  Coldest = o[n] /\ Coldest # None
  <2>1. o[n] \in Elem
    BY <1>1, <1>8
  <2>2. o[n] # None
    BY <2>1, ElemAssumption DEF Node
  <2>3. "hot" \in Ids /\ "cold" \in Ids /\ h \in Nat /\ h <= n
    BY <1>1 DEF Ids
  <2>4. CASE h < n
    <3>1. Pred(ring, "cold") = NodeOf(o, "cold", h, n, n)
      BY <1>1, <1>2, <2>3, HeadLinks
    <3>2. n \in h + 1 .. n /\ n - h > 0
      BY <1>1, <2>3, <2>4
    <3> QED
      BY <1>4, <2>2, <3>1, <3>2 DEF Coldest, NodeOf
  <2>5. CASE h = n
    <3>1. Pred(ring, "hot") = NodeOf(o, "hot", 0, h, h)
      BY <1>2, <2>3, HeadLinks
    <3>2. h \in 0 + 1 .. h /\ ~(n - h > 0) /\ h > 0
      BY <1>1, <1>8, <2>5
    <3> QED
      BY <1>4, <2>2, <2>5, <3>1, <3>2 DEF Coldest, NodeOf
  <2> QED
    BY <2>3, <2>4, <2>5, <1>1
<1> QED
  BY <1>1, <1>2, <1>4, <1>5, <1>6, <1>7, <1>8 DEF o, h, n

\* A queue with the boundary in the middle stays as it is.
LEMMA EvenStays ==
  ASSUME NEW q \in Queues(Elem), Even(q)
  PROVE  Rebalance(q) = q
<1>1. q = Pair(q.order, q.hots) /\ QSize(q) = Len(q.order) /\ Len(q.order) \in Nat /\ q.hots \in 0 .. Len(q.order)
  BY QueueType DEF Pair
<1>2. Split(Len(q.order), q.hots) = q.hots
  BY <1>1, SplitTurns DEF Even
<1>3. Rebalance(Pair(q.order, q.hots)) = Pair(q.order, Split(Len(q.order), q.hots))
  BY PairForms
<1> QED
  BY <1>1, <1>2, <1>3

\* The initial rings are two heads.
LEMMA RingInvInit ==
  ASSUME Init
  PROVE  RingInv
<1> DEFINE o == << >>
<1>1. o \in Seq(Elem) /\ Len(o) = 0 /\ Distinct(o) /\ ToSet(o) = {}
  BY DEF Distinct, ToSet
<1>2. /\ \A x \in Ids : ring.succ[x] = Link(x, x) /\ ring.pred[x] = Link(x, x)
      /\ \A x \in Elem : ring.succ[x] = Null /\ ring.pred[x] = Null
  BY ElemAssumption DEF Init, Node
<1>3. ring \in RingType
  BY ElemAssumption DEF Init, RingType, LinkType, Link, Null, Node
<1>4. Chain(ring, "hot", o, 0, 0) /\ Chain(ring, "cold", o, 0, 0)
  BY <1>2 DEF Chain, NodeOf, Ids
<1>5. Stands(ring, o, 0)
  BY <1>1, <1>2, <1>3, <1>4 DEF Stands
<1>6. EmptyQueue.order = o /\ EmptyQueue.hots = 0 /\ QSize(EmptyQueue) = 0 /\ EmptyQueue \in Queues(Elem)
      /\ Queued(EmptyQueue) = {}
  BY <1>1 DEF EmptyQueue, QSize, Queues, Queued
<1> HIDE DEF o
<1>7. Mirrors(EmptyQueue)
  BY <1>5, <1>6 DEF Mirrors, Init
<1>8. OnTheWay(EmptyQueue)
  BY <1>6 DEF OnTheWay, Init, Even
<1>9. Types
  BY DEF Types, Init
<1> QED
  BY <1>7, <1>8, <1>9 DEF RingInv

\* The types are kept by every step.
LEMMA TypesStep ==
  ASSUME RingInv, Next
  PROVE  Types'
<1>1. Types
  BY DEF RingInv
<1>2. PICK q : Mirrors(q)
  BY DEF RingInv
<1>3. Coldest # None => Coldest \in Elem /\ QSize(q) > 0
  BY <1>2, MirrorFacts, LenProperties
<1>4. CASE \E e \in Elem : OnCreate(e) \/ OnHit(e) \/ OnDelete(e)
  BY <1>1, <1>4 DEF Types, OnCreate, OnHit, OnDelete, Deleted, Erasable
<1>5. CASE HotToCold \/ Filled \/ ColdToHot \/ Rebalanced \/ StartCleanup
  BY <1>1, <1>5 DEF Types, HotToCold, Filled, ColdToHot, Rebalanced, StartCleanup, cache, queue
<1>6. CASE CleanupErase
  BY <1>1, <1>6 DEF Types, CleanupErase, Deleted, Erasable
<1>7. CASE CleanupDone \/ Dropped
  BY <1>1, <1>7 DEF Types, CleanupDone, Dropped, cache, queue
<1>8. CASE Drop
  BY <1>1, <1>8 DEF Types, Drop
<1>9. CASE \E n \in 0 .. Cardinality(Elem) : ShrinkToSize(n)
  <2>1. Cardinality(Elem) \in Nat
    BY ElemAssumption, FS_CardinalityType
  <2> QED
    BY <1>1, <1>9, <2>1 DEF Types, ShrinkToSize, cache, queue
<1>10. CASE \E old \in SUBSET present : ShrinkWhile_(old)
  BY <1>1, <1>10 DEF Types, ShrinkWhile_, cache, queue
<1>11. CASE Done
  BY <1>1, <1>11 DEF Types, Done, queue
<1>12. CASE \E e \in Elem : Release(e) \/ Void(e) \/ Unpin(e)
  BY <1>1, <1>12 DEF Types, Release, Void, Unpin, queue
<1> QED
  BY <1>4, <1>5, <1>6, <1>7, <1>8, <1>9, <1>10, <1>11, <1>12 DEF Next, Work

\* A step that leaves the rings alone and drops no queued element.
LEMMA MirrorsKept ==
  ASSUME NEW q, Mirrors(q), UNCHANGED queue, Queued(q) \subseteq present'
  PROVE  Mirrors(q)'
  BY DEF Mirrors, queue

\* A new element, or one that comes back, on top of the cold zone.
LEMMA MirrorsLinkCold ==
  ASSUME NEW q, Mirrors(q), NEW e \in Elem, e \notin Queued(q),
         ring' = LinkAfter(ring, e, "cold"), qlen' = [qlen EXCEPT !["cold"] = @ + 1],
         e \in present', present \subseteq present'
  PROVE  Mirrors(Pair(InsertAt(q.order, q.hots + 1, e), q.hots))'
<1> DEFINE o == q.order
           h == q.hots
           n == QSize(q)
           u == InsertAt(o, h + 1, e)
<1>0. PICK z : z = Pair(u, h)
  OBVIOUS
<1>1. /\ o \in Seq(Elem) /\ n = Len(o) /\ n \in Nat /\ h \in 0 .. n
      /\ Distinct(o) /\ Queued(q) = ToSet(o) /\ Stands(ring, o, h)
      /\ Queued(q) \subseteq present
      /\ qlen = [i \in Ids |-> IF i = "hot" THEN h ELSE n - h]
  BY MirrorFacts DEF Mirrors
<1> HIDE DEF o, h, n
<1>2. h + 1 \in 1 .. Len(o) + 1 /\ e \in Elem \ ToSet(o)
  BY <1>1
<1>3. u \in Seq(Elem) /\ Len(u) = n + 1 /\ ToSet(u) = ToSet(o) \union {e}
  BY <1>1, <1>2, InsertAtFacts, InsertAtSet
<1>4. Stands(ring', u, h)
  BY <1>1, <1>2, ColdFront
<1> HIDE DEF u
<1>5. z.order = u /\ z.hots = h /\ QSize(z) = n + 1 /\ Queued(z) = ToSet(u) /\ z \in Queues(Elem)
  BY <1>0, <1>1, <1>3 DEF Pair, QSize, Queued, Queues
<1>6. qlen' = [i \in Ids |-> IF i = "hot" THEN h ELSE QSize(z) - h]
  <2>1. (n - h) + 1 = QSize(z) - h
    BY <1>1, <1>5
  <2> QED
    BY <1>1, <2>1 DEF Ids
<1>7. Queued(z) \subseteq present'
  BY <1>1, <1>3, <1>5
<1>8. Mirrors(z)'
  BY <1>4, <1>5, <1>6, <1>7 DEF Mirrors
<1> QED
  BY <1>0, <1>8 DEF u, o, h

\* An element leaves the queue.
LEMMA MirrorsDetach ==
  ASSUME NEW q, Mirrors(q), NEW p \in 1 .. QSize(q),
         ring' = Detach(ring, q.order[p]), qlen' = [qlen EXCEPT ![IdOf(q.order[p])] = @ - 1],
         Queued(q) \ {q.order[p]} \subseteq present'
  PROVE  Mirrors(Pair(RemoveAt(q.order, p), IF p <= q.hots THEN q.hots - 1 ELSE q.hots))'
<1> DEFINE o == q.order
           h == q.hots
           n == QSize(q)
           u == RemoveAt(o, p)
           g == IF p <= h THEN h - 1 ELSE h
<1>1. PICK z : z = Pair(u, g)
  OBVIOUS
<1>2. /\ o \in Seq(Elem) /\ n = Len(o) /\ n \in Nat /\ h \in 0 .. n
      /\ Distinct(o) /\ Queued(q) = ToSet(o) /\ Stands(ring, o, h)
      /\ qlen = [i \in Ids |-> IF i = "hot" THEN h ELSE n - h]
      /\ IdOf(o[p]) = IF p <= h THEN "hot" ELSE "cold"
  BY MirrorFacts DEF Mirrors
<1> HIDE DEF o, h, n
<1>3. u \in Seq(Elem) /\ Len(u) = n - 1 /\ ToSet(u) = ToSet(o) \ {o[p]}
  BY <1>2, RemoveAtFacts, RemoveAtSet DEF n
<1>4. Stands(ring', u, g)
  BY <1>2, StandsDetach DEF o, n
<1> HIDE DEF u
<1>5. g \in 0 .. n - 1
  BY <1>2 DEF n
<1>6. z.order = u /\ z.hots = g /\ QSize(z) = n - 1 /\ Queued(z) = ToSet(u) /\ z \in Queues(Elem)
  BY <1>1, <1>2, <1>3, <1>5 DEF Pair, QSize, Queued, Queues
<1>7. qlen' = [i \in Ids |-> IF i = "hot" THEN g ELSE QSize(z) - g]
  <2>1. CASE p <= h
    <3>1. qlen' = [qlen EXCEPT !["hot"] = @ - 1] /\ g = h - 1 /\ QSize(z) - g = n - h
      BY <1>2, <1>6, <2>1 DEF o
    <3> HIDE DEF g
    <3> QED
      BY <1>2, <3>1 DEF Ids
  <2>2. CASE ~(p <= h)
    <3>1. qlen' = [qlen EXCEPT !["cold"] = @ - 1] /\ g = h /\ QSize(z) - g = (n - h) - 1
      BY <1>2, <1>6, <2>2 DEF o
    <3> HIDE DEF g
    <3> QED
      BY <1>2, <3>1 DEF Ids
  <2> QED
    BY <2>1, <2>2
<1>8. Queued(z) \subseteq present'
  BY <1>2, <1>3, <1>6 DEF o
<1> HIDE DEF g
<1>9. Mirrors(z)'
  BY <1>4, <1>6, <1>7, <1>8 DEF Mirrors
<1> QED
  BY <1>1, <1>9 DEF u, o, h, g

\* An element moves to the front of the hot zone.
LEMMA MirrorsPromote ==
  ASSUME NEW q, Mirrors(q), NEW p \in 1 .. QSize(q), NEW e, e = q.order[p],
         ring' = LinkAfter(Detach(ring, e), e, "hot"),
         qlen' = [qlen EXCEPT ![IdOf(e)] = @ - 1, !["hot"] = @ + 1],
         Queued(q) \subseteq present'
  PROVE  Mirrors(Pair(Cons(e, RemoveAt(q.order, p)), IF p <= q.hots THEN q.hots ELSE q.hots + 1))'
<1> DEFINE o == q.order
           h == q.hots
           n == QSize(q)
           v == RemoveAt(o, p)
           u == Cons(e, v)
           g == IF p <= h THEN h ELSE h + 1
<1>1. PICK z : z = Pair(u, g)
  OBVIOUS
<1>2. /\ o \in Seq(Elem) /\ n = Len(o) /\ n \in Nat /\ h \in 0 .. n
      /\ Distinct(o) /\ Queued(q) = ToSet(o) /\ Stands(ring, o, h) /\ e \in Elem /\ e \in ToSet(o)
      /\ qlen = [i \in Ids |-> IF i = "hot" THEN h ELSE n - h]
      /\ IdOf(e) = IF p <= h THEN "hot" ELSE "cold"
  BY MirrorFacts, ToSetFacts, LenProperties DEF Mirrors
<1>3. p \in 1 .. n /\ e = o[p]
  OBVIOUS
<1> HIDE DEF o, h, n
<1>4. v \in Seq(Elem) /\ Len(v) = n - 1 /\ ToSet(v) = ToSet(o) \ {e}
  BY <1>2, <1>3, RemoveAtFacts, RemoveAtSet
<1>5. Stands(Detach(ring, e), v, IF p <= h THEN h - 1 ELSE h)
  BY <1>2, <1>3, StandsDetach
<1> HIDE DEF v
<1>6. u \in Seq(Elem) /\ Len(u) = (n - 1) + 1 /\ ToSet(u) = ToSet(v) \union {e}
  <2>1. v \in Seq(Elem) /\ e \in Elem
    BY <1>2, <1>4
  <2> HIDE DEF u
  <2>0. Cons(e, v) \in Seq(Elem) /\ Len(Cons(e, v)) = Len(v) + 1
    BY <2>1, ConsIsInsertAt
  <2>2. u \in Seq(Elem) /\ Len(u) = Len(v) + 1
    BY <2>0 DEF u
  <2> USE DEF u
  <2>3. ToSet(u) = ToSet(v) \union {e}
    BY <2>1, ConsSet
  <2> QED
    BY <1>4, <2>2, <2>3
<1>7. Stands(ring', u, (IF p <= h THEN h - 1 ELSE h) + 1)
  BY <1>2, <1>4, <1>5, HotFront
<1> HIDE DEF u
<1>8. g \in 0 .. n /\ g = (IF p <= h THEN h - 1 ELSE h) + 1 /\ (n - 1) + 1 = n
  BY <1>2, <1>3
<1>9. z.order = u /\ z.hots = g /\ QSize(z) = n /\ Queued(z) = ToSet(u) /\ z \in Queues(Elem)
  BY <1>1, <1>2, <1>6, <1>8 DEF Pair, QSize, Queued, Queues
<1>10. qlen' = [i \in Ids |-> IF i = "hot" THEN g ELSE QSize(z) - g]
  <2>1. CASE p <= h
    <3>1. qlen' = [qlen EXCEPT !["hot"] = @ - 1, !["hot"] = @ + 1] /\ g = h /\ QSize(z) - g = n - h
      BY <1>2, <1>9, <2>1
    <3> HIDE DEF g
    <3> QED
      BY <1>2, <3>1 DEF Ids
  <2>2. CASE ~(p <= h)
    <3>1. qlen' = [qlen EXCEPT !["cold"] = @ - 1, !["hot"] = @ + 1] /\ g = h + 1 /\ QSize(z) - g = (n - h) - 1
      BY <1>2, <1>9, <2>2
    <3> HIDE DEF g
    <3> QED
      BY <1>2, <3>1 DEF Ids
  <2> QED
    BY <2>1, <2>2
<1>11. Queued(z) \subseteq present'
  BY <1>2, <1>4, <1>6, <1>9
<1> HIDE DEF g
<1>12. Mirrors(z)'
  BY <1>7, <1>8, <1>9, <1>10, <1>11 DEF Mirrors
<1> QED
  BY <1>1, <1>12 DEF u, v, o, h, g

\* The boundary moves by one.
LEMMA MirrorsShift ==
  ASSUME NEW q, Mirrors(q), NEW g \in 0 .. QSize(q), Stands(ring', q.order, g),
         qlen' = [i \in Ids |-> IF i = "hot" THEN g ELSE QSize(q) - g], present' = present
  PROVE  Mirrors(Pair(q.order, g))'
<1>1. PICK z : z = Pair(q.order, g)
  OBVIOUS
<1>2. z.order = q.order /\ z.hots = g /\ QSize(z) = QSize(q) /\ Queued(z) = Queued(q) /\ z \in Queues(Elem)
  BY <1>1, MirrorFacts DEF Pair, QSize, Queued, Queues
<1>3. Mirrors(z)'
  BY <1>2 DEF Mirrors
<1> QED
  BY <1>1, <1>3

\* Only what D says of the queued elements matters.
LEMMA WarmerSame ==
  ASSUME NEW q \in Queues(Elem), NEW D, NEW E, \A e \in Queued(q) : e \in D <=> e \in E
  PROVE  ShrinkWhile(q, D) = ShrinkWhile(q, E)
<1> DEFINE m == WarmerThan(q, D)
<1>1. QSize(q) \in Nat /\ \A i \in 1 .. QSize(q) : q.order[i] \in Queued(q)
  BY QueueType, ToSetFacts
<1>2. /\ m \in 0 .. QSize(q)
      /\ \A i \in m + 1 .. QSize(q) : q.order[i] \in D
      /\ m = 0 \/ q.order[m] \notin D
  BY WarmerThanFacts
<1> HIDE DEF m
<1>3. \A i \in m + 1 .. QSize(q) : i \in 1 .. QSize(q)
  BY <1>1, <1>2
<1>4. m # 0 => m \in 1 .. QSize(q)
  BY <1>1, <1>2
<1>5. WarmerThan(q, E) = m
  BY <1>1, <1>2, <1>3, <1>4, WarmerIs
<1> QED
  BY <1>5 DEF m, ShrinkWhile

\* An element is created or comes back (on_create, on_hit).
LEMMA LinkColdStep ==
  ASSUME Types, NEW q, Mirrors(q), OnTheWay(q), NEW e \in Elem,
         OnCreate(e) \/ (OnHit(e) /\ ~Linked(e))
  PROVE  \E z : Mirrors(z)' /\ OnTheWay(z)'
<1>1. q = goal
  BY DEF OnTheWay, OnCreate, OnHit
<1>2. e \notin Queued(q) /\ e \in present' /\ present \subseteq present'
  BY MirrorFacts DEF OnCreate, OnHit, Mirrors
<1>3. PICK z : z = Pair(InsertAt(q.order, q.hots + 1, e), q.hots)
  OBVIOUS
<1>4. Mirrors(z)'
  BY <1>2, <1>3, MirrorsLinkCold DEF OnCreate, OnHit
<1>5. goal' = Rebalance(z)
  BY <1>1, <1>3 DEF OnCreate, OnHit, LinkCold, Pair
<1>6. phase' = "fill" /\ then' = "linked"
  BY DEF OnCreate, OnHit
<1>7. OnTheWay(z)'
  BY <1>5, <1>6 DEF OnTheWay, Rest
<1> QED
  BY <1>4, <1>7

\* A queued element is hit (on_hit).
LEMMA PromoteStep ==
  ASSUME Types, NEW q, Mirrors(q), OnTheWay(q), NEW e \in Elem, OnHit(e), Linked(e)
  PROVE  \E z : Mirrors(z)' /\ OnTheWay(z)'
<1>1. q = goal
  BY DEF OnTheWay, OnHit
<1>2. e \in Queued(q) /\ QSize(q) = Len(q.order) /\ q \in Queues(Elem)
  BY MirrorFacts DEF Mirrors
<1> DEFINE p == Position(q, e)
<1>3. p \in 1 .. QSize(q) /\ e = q.order[p]
  BY <1>2, PositionFacts
<1>4. PICK z : z = Pair(Cons(e, RemoveAt(q.order, p)), IF p <= q.hots THEN q.hots ELSE q.hots + 1)
  OBVIOUS
<1>5. goal' = Rebalance(z)
  BY <1>1, <1>4 DEF OnHit, Promote, Pair
<1> HIDE DEF p
<1>6. /\ ring' = LinkAfter(Detach(ring, e), e, "hot")
      /\ qlen' = [qlen EXCEPT ![IdOf(e)] = @ - 1, !["hot"] = @ + 1]
      /\ Queued(q) \subseteq present' /\ phase' = "fill" /\ then' = "linked"
  BY DEF OnHit, Mirrors
<1>7. Mirrors(z)'
  BY <1>3, <1>4, <1>6, MirrorsPromote
<1>8. OnTheWay(z)'
  BY <1>5, <1>6 DEF OnTheWay, Rest
<1> QED
  BY <1>7, <1>8

\* An element is deleted (on_delete).
LEMMA DeleteStep ==
  ASSUME Types, NEW q, Mirrors(q), OnTheWay(q), NEW e \in Elem, OnDelete(e)
  PROVE  \E z : Mirrors(z)' /\ OnTheWay(z)'
<1>1. q = goal /\ Even(q) /\ q \in Queues(Elem)
  BY DEF OnTheWay, OnDelete, Mirrors
<1>2. phase' = "fill" /\ then' = "idle" /\ goal' = Unlink(q, e)
  BY <1>1 DEF OnDelete
<1>3. CASE ~Linked(e)
  <2>1. e \notin Queued(q)
    BY <1>3, MirrorFacts
  <2>2. UNCHANGED queue /\ Queued(q) \subseteq present'
    BY <1>3, <2>1 DEF OnDelete, Deleted, Mirrors
  <2>3. Mirrors(q)'
    BY <2>2, MirrorsKept
  <2>4. goal' = Rebalance(q)
    BY <1>1, <1>2, <2>1, EvenStays DEF Unlink
  <2>5. OnTheWay(q)'
    BY <1>2, <2>4 DEF OnTheWay, Rest
  <2> QED
    BY <2>3, <2>5
<1>4. CASE Linked(e)
  <2>1. e \in Queued(q) /\ QSize(q) = Len(q.order)
    BY <1>4, MirrorFacts
  <2> DEFINE p == Position(q, e)
  <2>2. p \in 1 .. QSize(q) /\ e = q.order[p]
    BY <1>1, <2>1, PositionFacts
  <2>3. PICK z : z = Pair(RemoveAt(q.order, p), IF p <= q.hots THEN q.hots - 1 ELSE q.hots)
    OBVIOUS
  <2>4. goal' = Rebalance(z)
    BY <1>2, <2>1, <2>3 DEF Unlink, Pair
  <2> HIDE DEF p
  <2>5. ring' = Detach(ring, e) /\ qlen' = [qlen EXCEPT ![IdOf(e)] = @ - 1]
        /\ Queued(q) \ {e} \subseteq present'
    BY <1>4 DEF OnDelete, Deleted, Mirrors
  <2>6. Mirrors(z)'
    BY <2>2, <2>3, <2>5, MirrorsDetach
  <2>7. OnTheWay(z)'
    BY <1>2, <2>4 DEF OnTheWay, Rest
  <2> QED
    BY <2>6, <2>7
<1> QED
  BY <1>3, <1>4

\* A turn of one of the loops of rebalance_.
LEMMA RebalanceTurn ==
  ASSUME Types, NEW q, Mirrors(q), OnTheWay(q), HotToCold \/ ColdToHot
  PROVE  \E z : Mirrors(z)' /\ OnTheWay(z)'
<1> DEFINE o == q.order
           h == q.hots
           n == QSize(q)
<1>1. /\ o \in Seq(Elem) /\ n = Len(o) /\ n \in Nat /\ h \in 0 .. n /\ q = Pair(o, h)
      /\ Stands(ring, o, h) /\ qlen["hot"] = h /\ qlen["cold"] = n - h
      /\ qlen = [i \in Ids |-> IF i = "hot" THEN h ELSE n - h]
  BY MirrorFacts DEF Mirrors
<1>2. Rest(Rebalance(q)) = goal
  BY DEF OnTheWay, HotToCold, ColdToHot
<1>3. /\ phase' = phase /\ present' = present /\ goal' = goal /\ phase \in {"fill", "promote"}
      /\ \A z : Rest(z)' = Rest(z)
  BY DEF HotToCold, ColdToHot, cache, Rest
<1>4. CASE HotToCold
  <2>1. 2 * h > n + 1 /\ h > 0 /\ h - 1 \in 0 .. n
    <3>1. (n - h) + 1 < h
      BY <1>1, <1>4 DEF HotToCold
    <3> QED
      BY <1>1, <3>1
  <2>2. PICK z : z = Pair(o, h - 1)
    OBVIOUS
  <2>3. Stands(ring', o, h - 1)
    BY <1>1, <1>4, <2>1, BoundaryMoves DEF HotToCold
  <2>4. qlen' = [i \in Ids |-> IF i = "hot" THEN h - 1 ELSE n - (h - 1)]
    <3>1. qlen' = [qlen EXCEPT !["hot"] = @ - 1, !["cold"] = @ + 1]
      BY <1>4 DEF HotToCold
    <3>2. (n - h) + 1 = n - (h - 1)
      BY <1>1
    <3> HIDE DEF h, n
    <3> QED
      BY <1>1, <3>1, <3>2 DEF Ids
  <2>5. Mirrors(z)'
    BY <1>3, <2>1, <2>2, <2>3, <2>4, MirrorsShift
  <2>6. Rebalance(z) = Rebalance(q)
    <3>1. Split(n, h - 1) = Split(n, h)
      BY <1>1, <2>1, SplitTurns, ZenonT(60)
    <3>2. Rebalance(Pair(o, h - 1)) = Pair(o, Split(Len(o), h - 1)) /\ Rebalance(Pair(o, h)) = Pair(o, Split(Len(o), h))
      BY PairForms
    <3> QED
      BY <1>1, <2>2, <3>1, <3>2
  <2>7. phase = "fill"
    BY <1>4 DEF HotToCold
  <2>8. OnTheWay(z)'
    BY <1>2, <1>3, <2>6, <2>7 DEF OnTheWay
  <2> QED
    BY <2>5, <2>8
<1>5. CASE ColdToHot
  <2>1. 2 * h < n - 1 /\ h < n /\ h + 1 \in 0 .. n /\ 2 * (h + 1) <= n + 1
    <3>1. h + 1 < n - h
      BY <1>1, <1>5 DEF ColdToHot
    <3> QED
      BY <1>1, <3>1
  <2>2. PICK z : z = Pair(o, h + 1)
    OBVIOUS
  <2>3. Stands(ring', o, h + 1)
    BY <1>1, <1>5, <2>1, BoundaryMoves DEF ColdToHot
  <2>4. qlen' = [i \in Ids |-> IF i = "hot" THEN h + 1 ELSE n - (h + 1)]
    <3>1. qlen' = [qlen EXCEPT !["hot"] = @ + 1, !["cold"] = @ - 1]
      BY <1>5 DEF ColdToHot
    <3>2. (n - h) - 1 = n - (h + 1)
      BY <1>1
    <3> HIDE DEF h, n
    <3> QED
      BY <1>1, <3>1, <3>2 DEF Ids
  <2>5. Mirrors(z)'
    BY <1>3, <2>1, <2>2, <2>3, <2>4, MirrorsShift
  <2>6. Rebalance(z) = Rebalance(q)
    <3>1. Split(n, h + 1) = Split(n, h)
      BY <1>1, <2>1, SplitTurns
    <3>2. Rebalance(Pair(o, h + 1)) = Pair(o, Split(Len(o), h + 1)) /\ Rebalance(Pair(o, h)) = Pair(o, Split(Len(o), h))
      BY PairForms
    <3> QED
      BY <1>1, <2>2, <3>1, <3>2
  <2>7. z.hots = h + 1 /\ QSize(z) = n
    BY <1>1, <2>2 DEF Pair, QSize
  <2>8. phase = "promote"
    BY <1>5 DEF ColdToHot
  <2>9. OnTheWay(z)'
    BY <1>2, <1>3, <2>1, <2>6, <2>7, <2>8 DEF OnTheWay
  <2> QED
    BY <2>5, <2>9
<1> QED
  BY <1>4, <1>5

\* The loops of rebalance_ end.
LEMMA RebalanceEnds ==
  ASSUME Types, NEW q, Mirrors(q), OnTheWay(q), Filled \/ Rebalanced
  PROVE  Mirrors(q)' /\ OnTheWay(q)'
<1>1. /\ QSize(q) \in Nat /\ q.hots \in 0 .. QSize(q) /\ q \in Queues(Elem)
      /\ qlen["hot"] = q.hots /\ qlen["cold"] = QSize(q) - q.hots
  BY MirrorFacts DEF Mirrors
<1>2. UNCHANGED queue /\ present' = present /\ goal' = goal /\ then' = then /\ void' = void /\ pinned' = pinned
  BY DEF Filled, Rebalanced, cache
<1>3. Mirrors(q)'
  BY <1>2, MirrorsKept DEF Mirrors
<1>4. Rest(Rebalance(q)) = goal /\ \A z : Rest(z)' = Rest(z)
  BY <1>2 DEF OnTheWay, Filled, Rebalanced, Rest
<1>5. CASE Filled
  <2>1. 2 * q.hots <= QSize(q) + 1
    BY <1>1, <1>5 DEF Filled
  <2>2. OnTheWay(q)'
    BY <1>2, <1>4, <1>5, <2>1 DEF OnTheWay, Filled
  <2> QED
    BY <1>3, <2>2
<1>6. CASE Rebalanced
  <2>1. Even(q)
    BY <1>1, <1>6 DEF Rebalanced, OnTheWay, Even
  <2>2. Rest(q) = goal
    BY <1>1, <1>4, <2>1, EvenStays
  <2>3. OnTheWay(q)'
    BY <1>2, <1>6, <2>1, <2>2 DEF OnTheWay, Rebalanced, Rest, Types
  <2> QED
    BY <1>3, <2>3
<1> QED
  BY <1>5, <1>6

\* cleanup_ starts.
LEMMA CleanupStarts ==
  ASSUME Types, NEW q, Mirrors(q), OnTheWay(q), StartCleanup
  PROVE  Mirrors(q)' /\ OnTheWay(q)'
<1> DEFINE D == {e \in present : Erasable(e)}
<1>1. UNCHANGED queue /\ present' = present /\ void' = void /\ pinned' = pinned /\ phase' = "cleanup"
  BY DEF StartCleanup, cache
<1>2. Mirrors(q)'
  BY <1>1, MirrorsKept DEF Mirrors
<1>3. q = goal /\ Even(q) /\ q \in Queues(Elem)
  BY DEF OnTheWay, StartCleanup, Mirrors
<1>4. \A e \in Queued(q) : e \in D <=> e \in void \ pinned
  <2>1. \A e \in Queued(q) : e \in present /\ Linked(e)
    BY MirrorFacts DEF Mirrors, Types
  <2> QED
    BY <2>1 DEF Erasable, Expired
<1>5. goal' = Cleanup(q, void \ pinned)
  BY <1>3, <1>4, WarmerSame DEF StartCleanup, Cleanup
<1>6. OnTheWay(q)'
  BY <1>1, <1>3, <1>5 DEF OnTheWay
<1> QED
  BY <1>2, <1>6

\* cleanup_ ends at an element that it cannot erase.
LEMMA CleanupEnds ==
  ASSUME Types, NEW q, Mirrors(q), OnTheWay(q), CleanupDone
  PROVE  Mirrors(q)' /\ OnTheWay(q)'
<1>1. UNCHANGED queue /\ present' = present /\ goal' = goal /\ phase' = "tidy"
  BY DEF CleanupDone, cache
<1>2. Mirrors(q)'
  BY <1>1, MirrorsKept DEF Mirrors
<1>3. Cleanup(q, void \ pinned) = goal /\ Even(q) /\ q \in Queues(Elem)
  BY DEF OnTheWay, CleanupDone, Mirrors
<1>4. Len(q.order) = 0 \/ q.order[Len(q.order)] \notin void \ pinned
  <2> SUFFICES ASSUME Len(q.order) # 0 PROVE q.order[Len(q.order)] \notin void \ pinned
    OBVIOUS
  <2>1. Coldest = q.order[Len(q.order)] /\ Coldest # None
    BY MirrorFacts
  <2> QED
    BY <2>1 DEF CleanupDone, Erasable, Expired
<1>5. q.order \in Seq(Elem) /\ q.hots \in 0 .. Len(q.order) /\ q = Pair(q.order, q.hots)
  BY MirrorFacts
<1>6. Cleanup(q, void \ pinned) = Rebalance(q)
  <2>1. ShrinkWhile(Pair(q.order, q.hots), void \ pinned) = Rebalance(Pair(q.order, q.hots))
    BY <1>4, <1>5, WarmerKeeps
  <2> QED
    BY <1>5, <2>1 DEF Cleanup
<1>7. goal = q
  BY <1>3, <1>6, EvenStays
<1>8. OnTheWay(q)'
  BY <1>1, <1>3, <1>7 DEF OnTheWay
<1> QED
  BY <1>2, <1>8

\* What the queue looks like when its coldest element leaves it.
LEMMA ColdestLeaves ==
  ASSUME NEW q, Mirrors(q), Coldest # None, NEW n, n = QSize(q),
         ring' = Detach(ring, Coldest), qlen' = [qlen EXCEPT ![IdOf(Coldest)] = @ - 1],
         present \ {Coldest} \subseteq present'
  PROVE  LET u == RemoveAt(q.order, n)
             g == IF n <= q.hots THEN q.hots - 1 ELSE q.hots
         IN /\ n \in Nat /\ n > 0 /\ n = Len(q.order) /\ q.hots \in 0 .. n /\ q.order \in Seq(Elem)
            /\ q = Pair(q.order, q.hots) /\ Coldest = q.order[n] /\ Coldest \in Queued(q)
            /\ g \in 0 .. n - 1 /\ u \in Seq(Elem) /\ Len(u) = n - 1
            /\ \A i \in 1 .. n - 1 : q.order[i] # Coldest
            /\ Mirrors(Pair(u, g))'
<1>1. /\ n \in Nat /\ n > 0 /\ n = Len(q.order) /\ q.hots \in 0 .. n /\ q.order \in Seq(Elem)
      /\ q = Pair(q.order, q.hots) /\ Coldest = q.order[n] /\ Distinct(q.order)
      /\ Queued(q) = ToSet(q.order)
  BY MirrorFacts
<1>2. n \in 1 .. n /\ n \in 1 .. QSize(q) /\ \A i \in 1 .. n - 1 : i \in 1 .. n /\ i # n
  BY <1>1
<1>3. Coldest \in Queued(q) /\ \A i \in 1 .. n - 1 : q.order[i] # Coldest
  BY <1>1, <1>2, ToSetFacts DEF Distinct
<1>4. RemoveAt(q.order, n) \in Seq(Elem) /\ Len(RemoveAt(q.order, n)) = n - 1
  BY <1>1, DropLast
<1>5. Queued(q) \ {q.order[n]} \subseteq present'
  BY <1>1 DEF Mirrors
<1>6. ring' = Detach(ring, q.order[n]) /\ qlen' = [qlen EXCEPT ![IdOf(q.order[n])] = @ - 1]
  BY <1>1
<1>7. Mirrors(Pair(RemoveAt(q.order, n), IF n <= q.hots THEN q.hots - 1 ELSE q.hots))'
  BY <1>2, <1>5, <1>6, MirrorsDetach
<1>8. (IF n <= q.hots THEN q.hots - 1 ELSE q.hots) \in 0 .. n - 1
  BY <1>1
<1> QED
  BY <1>1, <1>3, <1>4, <1>7, <1>8

\* cleanup_ erases the coldest element.
LEMMA CleanupTurn ==
  ASSUME Types, NEW q, Mirrors(q), OnTheWay(q), CleanupErase
  PROVE  \E z : Mirrors(z)' /\ OnTheWay(z)'
<1> DEFINE o == q.order
           h == q.hots
           n == QSize(q)
           u == RemoveAt(o, n)
           g == IF n <= h THEN h - 1 ELSE h
           D == void \ pinned
<1>1. Coldest # None /\ Erasable(Coldest) /\ Deleted(Coldest)
      /\ phase' = "fill" /\ then' = "cleanup" /\ pinned' = pinned /\ goal' = goal
  BY DEF CleanupErase
<1>2. Linked(Coldest)
  <2>1. QSize(q) > 0 /\ QSize(q) \in Nat /\ QSize(q) = Len(q.order) /\ q.order \in Seq(Elem)
        /\ Queued(q) = ToSet(q.order) /\ Coldest = q.order[QSize(q)]
    BY <1>1, MirrorFacts
  <2>2. QSize(q) \in 1 .. Len(q.order)
    BY <2>1
  <2>3. Coldest \in Queued(q) /\ Coldest \in Elem
    BY <2>1, <2>2, ToSetFacts
  <2> QED
    BY <2>3, MirrorFacts
<1>3. ring' = Detach(ring, Coldest) /\ qlen' = [qlen EXCEPT ![IdOf(Coldest)] = @ - 1]
      /\ present' = present \ {Coldest} /\ void' = void \ {Coldest}
  BY <1>1, <1>2 DEF Deleted
<1>4. /\ n \in Nat /\ n > 0 /\ n = Len(o) /\ h \in 0 .. n /\ o \in Seq(Elem)
      /\ q = Pair(o, h) /\ Coldest = o[n]
      /\ g \in 0 .. n - 1 /\ u \in Seq(Elem) /\ Len(u) = n - 1
      /\ \A i \in 1 .. n - 1 : o[i] # Coldest
      /\ Mirrors(Pair(u, g))'
  BY <1>1, <1>3, ColdestLeaves
<1>5. PICK z : z = Pair(u, g)
  OBVIOUS
<1>6. Mirrors(z)'
  BY <1>4, <1>5
<1>7. Even(q) /\ Cleanup(q, D) = goal
  BY DEF OnTheWay, CleanupErase
<1>8. o[n] \in D
  BY <1>1, <1>2, <1>4 DEF Erasable, Expired
<1>9. \A i \in 1 .. n - 1 : o[i] \in D <=> o[i] \in (void' \ pinned')
  BY <1>1, <1>3, <1>4
<1> HIDE DEF o, h, n, u, g, D
<1>10. PICK f : f = Split(n - 1, g)
  OBVIOUS
<1>11. Rebalance(z) = Pair(u, f)
  <2>1. Rebalance(Pair(u, g)) = Pair(u, Split(Len(u), g))
    BY PairForms
  <2> QED
    BY <1>4, <1>5, <1>10, <2>1
<1>12. f \in 0 .. n - 1
  <2>1. n - 1 \in Nat
    BY <1>4
  <2> QED
    BY <1>4, <1>10, <2>1, SplitTurns
<1>13. /\ WarmerThan(Pair(o, h), D) \in 0 .. n - 1
       /\ WarmerThan(Pair(u, f), void' \ pinned') = WarmerThan(Pair(o, h), D)
  <2>1. PICK E : E = void' \ pinned'
    OBVIOUS
  <2>2. \A i \in 1 .. n - 1 : o[i] \in D <=> o[i] \in E
    BY <1>9, <2>1
  <2>3. /\ WarmerThan(Pair(o, h), D) \in 0 .. n - 1
        /\ WarmerThan(Pair(RemoveAt(o, n), f), E) = WarmerThan(Pair(o, h), D)
    <3>1. o \in Seq(Elem) /\ n \in Nat /\ n = Len(o) /\ n > 0 /\ h \in 0 .. n
      BY <1>4
    <3> QED
      BY <1>8, <1>12, <2>2, <3>1, WarmerDrop
  <2> QED
    BY <2>1, <2>3 DEF u
<1>14. PICK m : m = WarmerThan(Pair(o, h), D)
  OBVIOUS
<1>15. ShrinkTo(Rebalance(z), m) = ShrinkTo(Pair(o, h), m)
  <2>1. 2 * h <= n + 1 /\ 2 * h >= n - 1
    BY <1>7 DEF Even, n, h
  <2> QED
    BY <1>4, <1>5, <1>13, <1>14, <2>1, ShrinkDrop DEF u, g
<1>16. Cleanup(Rebalance(z), void' \ pinned') = goal
  BY <1>4, <1>7, <1>11, <1>13, <1>14, <1>15 DEF Cleanup, ShrinkWhile
<1>17. OnTheWay(z)'
  BY <1>1, <1>16 DEF OnTheWay, Rest
<1> QED
  BY <1>6, <1>17

\* A decorator drops the coldest element.
LEMMA DropTurn ==
  ASSUME Types, NEW q, Mirrors(q), OnTheWay(q), Drop
  PROVE  \E z : Mirrors(z)' /\ OnTheWay(z)'
<1> DEFINE o == q.order
           h == q.hots
           n == QSize(q)
           u == RemoveAt(o, n)
           g == IF n <= h THEN h - 1 ELSE h
<1>1. /\ Coldest # None /\ phase = "drop" /\ MustDrop
      /\ ring' = Detach(ring, Coldest) /\ qlen' = [qlen EXCEPT ![IdOf(Coldest)] = @ - 1]
      /\ present \ {Coldest} \subseteq present'
      /\ phase' = phase /\ shrink' = shrink /\ goal' = goal
  BY DEF Drop, MustDrop
<1>2. /\ n \in Nat /\ n > 0 /\ n = Len(o) /\ h \in 0 .. n /\ o \in Seq(Elem)
      /\ q = Pair(o, h) /\ Coldest = o[n]
      /\ g \in 0 .. n - 1 /\ u \in Seq(Elem) /\ Len(u) = n - 1
      /\ Mirrors(Pair(u, g))'
  BY <1>1, ColdestLeaves
<1>3. PICK z : z = Pair(u, g)
  OBVIOUS
<1>4. Mirrors(z)'
  BY <1>2, <1>3
<1>5. Total = n
  BY MirrorFacts
<1>6. goal = IF shrink.kind = "size" THEN ShrinkTo(q, shrink.n) ELSE ShrinkWhile(q, shrink.old)
  BY <1>1 DEF OnTheWay
<1> HIDE DEF o, h, n, u, g
<1>7. CASE shrink.kind = "size"
  <2>1. PICK m : m = shrink.n
    OBVIOUS
  <2>2. m \in 0 .. n - 1
    <3>1. n > m /\ m \in Nat
      BY <1>1, <1>5, <1>7, <2>1 DEF MustDrop, Types
    <3> QED
      BY <1>2, <3>1
  <2>3. ShrinkTo(Pair(u, g), m) = ShrinkTo(Pair(o, h), m)
    BY <1>2, <2>2, ShrinkDrop DEF u, g
  <2>4. goal = ShrinkTo(z, shrink.n)
    BY <1>2, <1>3, <1>6, <1>7, <2>1, <2>3
  <2>5. OnTheWay(z)'
    BY <1>1, <1>7, <2>4 DEF OnTheWay
  <2> QED
    BY <1>4, <2>5
<1>8. CASE shrink.kind # "size"
  <2>1. PICK D : D = shrink.old
    OBVIOUS
  <2>2. o[n] \in D
    BY <1>1, <1>2, <1>8, <2>1 DEF MustDrop
  <2>3. PICK m : m = WarmerThan(Pair(o, h), D)
    OBVIOUS
  <2>4. m \in 0 .. n - 1 /\ WarmerThan(Pair(u, g), D) = m
    BY <1>2, <2>2, <2>3, WarmerDrop, SMTT(30) DEF u
  <2>5. ShrinkTo(Pair(u, g), m) = ShrinkTo(Pair(o, h), m)
    BY <1>2, <2>4, ShrinkDrop DEF u, g
  <2>6. goal = ShrinkWhile(z, shrink.old)
    BY <1>2, <1>3, <1>6, <1>8, <2>1, <2>3, <2>4, <2>5 DEF ShrinkWhile
  <2>7. OnTheWay(z)'
    BY <1>1, <1>8, <2>6 DEF OnTheWay
  <2> QED
    BY <1>4, <2>7
<1> QED
  BY <1>7, <1>8

\* The decorator is done.
LEMMA DropEnds ==
  ASSUME Types, NEW q, Mirrors(q), OnTheWay(q), Dropped
  PROVE  Mirrors(q)' /\ OnTheWay(q)'
<1>1. UNCHANGED queue /\ present' = present /\ goal' = goal /\ phase' = "fill" /\ then' = "tidy"
      /\ phase = "drop" /\ ~MustDrop
  BY DEF Dropped, cache
<1>2. Mirrors(q)'
  BY <1>1, MirrorsKept DEF Mirrors
<1>3. /\ q.order \in Seq(Elem) /\ QSize(q) = Len(q.order) /\ QSize(q) \in Nat
      /\ q.hots \in 0 .. Len(q.order) /\ q = Pair(q.order, q.hots) /\ Total = QSize(q)
      /\ QSize(q) > 0 => Coldest = q.order[QSize(q)] /\ Coldest # None
  BY MirrorFacts
<1>4. goal = IF shrink.kind = "size" THEN ShrinkTo(q, shrink.n) ELSE ShrinkWhile(q, shrink.old)
  BY <1>1 DEF OnTheWay
<1>5. CASE shrink.kind = "size"
  <2>1. shrink.n >= QSize(q)
    BY <1>1, <1>3, <1>5 DEF MustDrop, Types
  <2> QED
    BY <1>1, <1>2, <1>4, <1>5, <2>1 DEF ShrinkTo, OnTheWay, Rest
<1>6. CASE shrink.kind # "size"
  <2>1. Len(q.order) = 0 \/ q.order[Len(q.order)] \notin shrink.old
    BY <1>1, <1>3, <1>6 DEF MustDrop
  <2>2. ShrinkWhile(Pair(q.order, q.hots), shrink.old) = Rebalance(Pair(q.order, q.hots))
    BY <1>3, <2>1, WarmerKeeps
  <2>3. goal = Rebalance(q)
    BY <1>3, <1>4, <1>6, <2>2
  <2> QED
    BY <1>1, <1>2, <2>3 DEF OnTheWay, Rest
<1> QED
  BY <1>5, <1>6

\* The steps that move no element.
LEMMA QuietStep ==
  ASSUME Types, NEW q, Mirrors(q), OnTheWay(q),
         \/ \E n \in 0 .. Cardinality(Elem) : ShrinkToSize(n)
         \/ \E old \in SUBSET present : ShrinkWhile_(old)
         \/ Done \/ \E e \in Elem : Release(e) \/ Void(e) \/ Unpin(e)
  PROVE  Mirrors(q)' /\ OnTheWay(q)'
<1>1. UNCHANGED queue /\ present' = present
  BY DEF ShrinkToSize, ShrinkWhile_, Done, Release, Void, Unpin, cache
<1>2. Mirrors(q)'
  BY <1>1, MirrorsKept DEF Mirrors
<1>3. q = goal /\ Even(q)
  BY DEF OnTheWay, ShrinkToSize, ShrinkWhile_, Done, Release, Void, Unpin
<1>4. CASE \E n \in 0 .. Cardinality(Elem) : ShrinkToSize(n)
  BY <1>2, <1>3, <1>4 DEF ShrinkToSize, OnTheWay
<1>5. CASE \E old \in SUBSET present : ShrinkWhile_(old)
  BY <1>2, <1>3, <1>5 DEF ShrinkWhile_, OnTheWay
<1>6. CASE Done \/ \E e \in Elem : Release(e) \/ Void(e) \/ Unpin(e)
  <2>1. phase' = "idle" /\ goal' = goal
    BY <1>6 DEF Done, Release, Void, Unpin
  <2> QED
    BY <1>2, <1>3, <2>1 DEF OnTheWay
<1> QED
  BY <1>4, <1>5, <1>6

\* Every step keeps the invariant.
LEMMA RingInvStep ==
  ASSUME RingInv, [Next]_vars
  PROVE  RingInv'
<1>1. Types /\ \E q : Mirrors(q) /\ OnTheWay(q)
  BY DEF RingInv
<1>2. PICK q : Mirrors(q) /\ OnTheWay(q)
  BY <1>1
<1>3. CASE Next
  <2>1. Types'
    BY <1>3, TypesStep
  <2>2. ASSUME \E e \in Elem : OnCreate(e)
        PROVE  \E z : Mirrors(z)' /\ OnTheWay(z)'
    BY <1>1, <1>2, <2>2, LinkColdStep
  <2>3. ASSUME \E e \in Elem : OnHit(e)
        PROVE  \E z : Mirrors(z)' /\ OnTheWay(z)'
    BY <1>1, <1>2, <2>3, LinkColdStep, PromoteStep
  <2>4. ASSUME \E e \in Elem : OnDelete(e)
        PROVE  \E z : Mirrors(z)' /\ OnTheWay(z)'
    BY <1>1, <1>2, <2>4, DeleteStep
  <2>5. ASSUME Work
        PROVE  \E z : Mirrors(z)' /\ OnTheWay(z)'
    BY <1>1, <1>2, <2>5, RebalanceTurn, RebalanceEnds, CleanupStarts, CleanupTurn, CleanupEnds,
       DropTurn, DropEnds DEF Work
  <2>6. \E z : Mirrors(z)' /\ OnTheWay(z)'
    BY <1>1, <1>2, <1>3, <2>2, <2>3, <2>4, <2>5, QuietStep DEF Next
  <2> QED
    BY <2>1, <2>6 DEF RingInv
<1>4. CASE UNCHANGED vars
  <2>1. Mirrors(q)' /\ OnTheWay(q)' /\ Types'
    BY <1>1, <1>2, <1>4 DEF vars, queue, cache, Mirrors, OnTheWay, Types, Rest
  <2> QED
    BY <2>1 DEF RingInv
<1> QED
  BY <1>3, <1>4

\* RingInvariant: the rings always stand for a queue from which the rest of the
\* loops leads to the goal.
THEOREM RingInvariant == Spec => []RingInv
<1>1. Init => RingInv
  BY RingInvInit
<1>2. RingInv /\ [Next]_vars => RingInv'
  BY RingInvStep
<1> QED
  BY <1>1, <1>2, PTL DEF Spec

-----------------------------------------------------------------------------
\* What the invariant says of the walk along a ring.

\* An order has as many elements as it is long, and no more than there are.
LEMMA OrderCardinality ==
  ASSUME NEW o \in Seq(Elem), Distinct(o)
  PROVE  /\ Cardinality(ToSet(o)) = Len(o) /\ Len(o) \in Nat
         /\ Cardinality(Elem) \in Nat /\ Len(o) <= Cardinality(Elem)
<1> DEFINE f == [i \in 1 .. Len(o) |-> o[i]]
<1>1. /\ Len(o) \in Nat /\ ToSet(o) \subseteq Elem
      /\ \A i \in 1 .. Len(o) : o[i] \in ToSet(o)
      /\ \A x \in ToSet(o) : \E i \in 1 .. Len(o) : x = o[i]
  BY ToSetFacts
<1>2. f \in Bijection(1 .. Len(o), ToSet(o))
  <2>1. f \in Injection(1 .. Len(o), ToSet(o))
    BY <1>1 DEF Injection, IsInjective, Distinct
  <2>2. f \in Surjection(1 .. Len(o), ToSet(o))
    BY <1>1 DEF Surjection
  <2> HIDE DEF f
  <2> QED
    BY <2>1, <2>2 DEF Bijection
<1> HIDE DEF f
<1>3. Cardinality(ToSet(o)) = Len(o)
  <2>1. ExistsBijection(1 .. Len(o), ToSet(o))
    BY <1>2 DEF ExistsBijection
  <2> QED
    BY <1>1, <2>1, FS_CountingElements
<1>4. Cardinality(Elem) \in Nat /\ Cardinality(ToSet(o)) <= Cardinality(Elem)
  BY <1>1, ElemAssumption, FS_Subset, FS_CardinalityType
<1> QED
  BY <1>1, <1>3, <1>4

\* Walking along a ring meets its nodes in their order (NodeAt).
LEMMA WalkMeetsNodes ==
  ASSUME ring \in RingType, NEW o \in Seq(Elem), Distinct(o), NEW k \in Ids,
         NEW lo \in 0 .. Len(o), NEW hi \in lo .. Len(o), Chain(ring, k, o, lo, hi)
  PROVE  \A i \in 0 .. (hi - lo) + 1 : NodeAt(i, k) = NodeOf(o, k, lo, hi, lo + i)
<1> DEFINE N == Cardinality(Elem) + 1
           M(i) == NodeOf(o, k, lo, hi, i)
           X == {M(i) : i \in lo .. hi}
           F == [j \in 1 .. N |-> [x \in X |-> Succ(ring, x)]]
           Walks(f) == f = [j \in 0 .. N |-> IF j = 0 THEN k ELSE Succ(ring, f[j - 1])]
           at == CHOOSE f : Walks(f)
<1>1. /\ lo \in Nat /\ hi \in Nat /\ lo <= hi /\ Cardinality(Elem) \in Nat /\ N \in Nat
      /\ (hi - lo) + 1 <= N /\ \A i \in 0 .. (hi - lo) + 1 : i \in 0 .. N
  BY OrderCardinality
<1>2. M(lo) = k /\ M(hi + 1) = k /\ lo \in lo .. hi
  BY <1>1 DEF NodeOf
<1>3. \A i \in lo .. hi : Succ(ring, M(i)) = M(i + 1)
  <2>1. \A i \in lo .. hi : ring.succ[M(i)] = Link(M(i + 1), k)
    BY DEF Chain
  <2>2. \A x : Link(x, k).to = x
    BY DEF Link
  <2> HIDE DEF M
  <2> QED
    BY <2>1, <2>2 DEF Succ
<1> HIDE DEF N, M
<1>4. k \in X /\ \A i \in lo .. hi : M(i + 1) \in X
  <2>1. \A i \in lo .. hi : i + 1 \in lo .. hi \/ i + 1 = hi + 1
    BY <1>1
  <2> QED
    BY <1>2, <2>1
<1>5. \A x \in X : Succ(ring, x) \in X
  BY <1>3, <1>4
<1> HIDE DEF X
<1>6. F \in [1 .. N -> [X -> X]]
  BY <1>5
<1>7. PICK g \in [0 .. N -> X] : g[0] = k /\ \A i \in 1 .. N : g[i] = F[i][g[i - 1]]
  <2> HIDE DEF F
  <2>1. \E g : Recursion(g, X, k, N, F)
    BY <1>1, <1>4, <1>6, RecursionExists
  <2> QED
    BY <2>1 DEF Recursion
<1>8. Walks(g)
  <2>1. ASSUME NEW i \in 0 .. N
        PROVE  g[i] = IF i = 0 THEN k ELSE Succ(ring, g[i - 1])
    <3>1. CASE i = 0
      BY <1>7, <3>1
    <3>2. CASE i # 0
      <4>1. i \in 1 .. N /\ i - 1 \in 0 .. N
        BY <1>1, <3>2
      <4>2. g[i - 1] \in X /\ g[i] = F[i][g[i - 1]]
        BY <1>7, <4>1
      <4> QED
        BY <3>2, <4>1, <4>2
    <3> QED
      BY <3>1, <3>2
  <2>2. g = [i \in 0 .. N |-> g[i]]
    OBVIOUS
  <2> QED
    BY <2>1, <2>2
<1>9. Walks(at)
  <2> HIDE DEF Walks
  <2> QED
    BY <1>8
<1>10. \A i : NodeAt(i, k) = at[i]
  BY DEF NodeAt, N
<1> HIDE DEF at
<1>11. \A i \in 0 .. N : at[i] = IF i = 0 THEN k ELSE Succ(ring, at[i - 1])
  BY <1>9
<1>12. \A i \in 0 .. (hi - lo) + 1 : at[i] = M(lo + i)
  <2> DEFINE Bad == {i \in 0 .. (hi - lo) + 1 : at[i] # M(lo + i)}
  <2>1. SUFFICES ASSUME Bad # {} PROVE FALSE
    OBVIOUS
  <2>2. PICK i \in Bad : \A j \in Bad : i <= j
    <3>1. Bad \subseteq Nat
      BY <1>1
    <3> HIDE DEF Bad
    <3> QED
      BY <2>1, <3>1, LeastNatural
  <2>3. i \in 0 .. (hi - lo) + 1 /\ at[i] # M(lo + i) /\ i \in 0 .. N
    BY <1>1, <2>2
  <2>4. CASE i = 0
    <3>1. at[0] = k /\ lo + 0 = lo
      BY <1>1, <1>11, <2>3, <2>4
    <3> QED
      BY <1>2, <2>3, <2>4, <3>1
  <2>5. CASE i # 0
    <3>1. i - 1 \in 0 .. (hi - lo) + 1 /\ i - 1 < i /\ lo + (i - 1) \in lo .. hi /\ (lo + (i - 1)) + 1 = lo + i
      BY <1>1, <2>3, <2>5
    <3>2. at[i - 1] = M(lo + (i - 1))
      BY <2>2, <3>1
    <3>3. at[i] = Succ(ring, at[i - 1])
      BY <1>11, <2>3, <2>5
    <3>4. Succ(ring, M(lo + (i - 1))) = M((lo + (i - 1)) + 1)
      BY <1>3, <3>1
    <3> QED
      BY <2>3, <3>1, <3>2, <3>3, <3>4
  <2> QED
    BY <2>4, <2>5
<1> QED
  BY <1>10, <1>12 DEF M

\* The two walks meet the elements of the queue, in order, and come back to
\* their heads.
LEMMA WalksMirror ==
  ASSUME NEW q, Mirrors(q)
  PROVE  /\ \A i \in 1 .. qlen["hot"] : NodeAt(i, "hot") = q.order[i]
         /\ \A i \in 1 .. qlen["cold"] : NodeAt(i, "cold") = q.order[q.hots + i]
         /\ \A k \in Ids : NodeAt(qlen[k] + 1, k) = k
<1>1. PICK o : o = q.order
  OBVIOUS
<1>2. PICK h : h = q.hots
  OBVIOUS
<1>3. PICK n : n = Len(o)
  OBVIOUS
<1>4. o \in Seq(Elem) /\ n \in Nat /\ h \in 0 .. n /\ Distinct(o)
      /\ qlen["hot"] = h /\ qlen["cold"] = n - h
  BY <1>1, <1>2, <1>3, MirrorFacts
<1>5. ring \in RingType /\ Chain(ring, "hot", o, 0, h) /\ Chain(ring, "cold", o, h, n)
  BY <1>1, <1>2, <1>3 DEF Mirrors, Stands
<1>6. /\ 0 \in 0 .. Len(o) /\ h \in 0 .. Len(o) /\ n \in h .. Len(o)
      /\ "hot" \in Ids /\ "cold" \in Ids
  BY <1>3, <1>4 DEF Ids
<1>7. \A i \in 0 .. (h - 0) + 1 : NodeAt(i, "hot") = NodeOf(o, "hot", 0, h, 0 + i)
  BY <1>4, <1>5, <1>6, WalkMeetsNodes
<1>8. \A i \in 0 .. (n - h) + 1 : NodeAt(i, "cold") = NodeOf(o, "cold", h, n, h + i)
  BY <1>4, <1>5, <1>6, WalkMeetsNodes
<1>9. ASSUME NEW i \in 1 .. h
      PROVE  NodeAt(i, "hot") = o[i]
  <2>1. i \in 0 .. (h - 0) + 1 /\ 0 + i = i /\ i \in 0 + 1 .. h
    BY <1>4
  <2> QED
    BY <1>7, <2>1 DEF NodeOf
<1>10. ASSUME NEW i \in 1 .. n - h
       PROVE  NodeAt(i, "cold") = o[h + i]
  <2>1. i \in 0 .. (n - h) + 1 /\ h + i \in h + 1 .. n
    BY <1>4
  <2> QED
    BY <1>8, <2>1 DEF NodeOf
<1>11. NodeAt(h + 1, "hot") = "hot"
  <2>1. h + 1 \in 0 .. (h - 0) + 1 /\ 0 + (h + 1) = h + 1 /\ h + 1 \notin 0 + 1 .. h
    BY <1>4
  <2> QED
    BY <1>7, <2>1 DEF NodeOf
<1>12. NodeAt((n - h) + 1, "cold") = "cold"
  <2>1. (n - h) + 1 \in 0 .. (n - h) + 1 /\ h + ((n - h) + 1) = n + 1 /\ n + 1 \notin h + 1 .. n
    BY <1>4
  <2> QED
    BY <1>8, <2>1 DEF NodeOf
<1> QED
  BY <1>1, <1>2, <1>4, <1>9, <1>10, <1>11, <1>12 DEF Ids

\* The queue that is read off the rings is the one that they stand for.
LEMMA ReadsMirror ==
  ASSUME NEW q, Mirrors(q)
  PROVE  AsQueue = q
<1>1. PICK o : o = q.order
  OBVIOUS
<1>2. PICK h : h = q.hots
  OBVIOUS
<1>3. PICK n : n = Len(o)
  OBVIOUS
<1>4. o \in Seq(Elem) /\ n \in Nat /\ h \in 0 .. n /\ q = Pair(o, h)
      /\ qlen["hot"] = h /\ qlen["cold"] = n - h
  BY <1>1, <1>2, <1>3, MirrorFacts
<1>5. /\ \A i \in 1 .. h : NodeAt(i, "hot") = o[i]
      /\ \A i \in 1 .. n - h : NodeAt(i, "cold") = o[h + i]
  BY <1>1, <1>2, <1>4, WalksMirror, ZenonT(60)
<1>6. PICK a : a = List("hot")
  OBVIOUS
<1>7. PICK b : b = List("cold")
  OBVIOUS
<1>8. \A i \in 1 .. n : o[i] \in Elem
  BY <1>3, <1>4
<1>9. a \in Seq(Elem) /\ Len(a) = h /\ \A i \in 1 .. h : a[i] = o[i]
  <2>1. a = [i \in 1 .. h |-> NodeAt(i, "hot")]
    BY <1>4, <1>6 DEF List
  <2>2. a = [i \in 1 .. h |-> o[i]]
    BY <1>5, <2>1
  <2>3. \A i \in 1 .. h : o[i] \in Elem
    BY <1>4, <1>8
  <2> QED
    BY <1>4, <2>2, <2>3, IsASeq
<1>10. b \in Seq(Elem) /\ Len(b) = n - h /\ \A i \in 1 .. n - h : b[i] = o[h + i]
  <2>1. b = [i \in 1 .. n - h |-> NodeAt(i, "cold")]
    BY <1>4, <1>7 DEF List
  <2>2. b = [i \in 1 .. n - h |-> o[h + i]]
    BY <1>5, <2>1
  <2>3. n - h \in Nat /\ \A i \in 1 .. n - h : o[h + i] \in Elem
    BY <1>4, <1>8
  <2> QED
    BY <2>2, <2>3, IsASeq
<1>11. a \o b = o
  <2>0. Len(a) + Len(b) = n /\ Len(a) = h /\ h \in Int
    BY <1>4, <1>9, <1>10
  <2>1. a \o b \in Seq(Elem) /\ Len(a \o b) = Len(a) + Len(b)
    BY <1>9, <1>10, ConcatProperties
  <2>2. ASSUME NEW i \in 1 .. n
        PROVE  (a \o b)[i] = o[i]
    <3>0. \A j \in 1 .. Len(a) + Len(b) : (a \o b)[j] = IF j <= Len(a) THEN a[j] ELSE b[j - Len(a)]
      BY <1>9, <1>10, ConcatProperties
    <3>1. (a \o b)[i] = IF i <= h THEN a[i] ELSE b[i - h]
      BY <2>0, <3>0
    <3>2. CASE i <= h
      <4>1. i \in 1 .. h
        BY <1>4, <3>2
      <4> QED
        BY <1>9, <3>1, <3>2, <4>1
    <3>3. CASE i > h
      <4>1. i - h \in 1 .. n - h /\ h + (i - h) = i
        BY <1>4, <3>3
      <4>2. (a \o b)[i] = b[i - h]
        BY <2>0, <3>1, <3>3
      <4> QED
        BY <1>10, <4>1, <4>2
    <3> QED
      BY <2>0, <3>2, <3>3
  <2> QED
    BY <1>3, <1>4, <2>0, <2>1, <2>2, SeqEqual
<1> QED
  BY <1>4, <1>6, <1>7, <1>11 DEF AsQueue, Pair

\* The pointers of a node of a ring carry the id of the ring, and its neighbours
\* point back at it.
LEMMA NodeLinks ==
  ASSUME NEW r \in RingType, NEW o, NEW k \in Ids, NEW lo \in Nat, NEW hi \in Nat, lo <= hi,
         Chain(r, k, o, lo, hi), NEW p \in lo .. hi, NEW x, x = NodeOf(o, k, lo, hi, p)
  PROVE  /\ r.pred[x].id = k /\ r.succ[x].id = k
         /\ r.pred[Succ(r, x)] = Link(x, k) /\ r.succ[Pred(r, x)] = Link(x, k)
<1> DEFINE M(i) == NodeOf(o, k, lo, hi, i)
<1>1. \A i \in lo .. hi : r.succ[M(i)] = Link(M(i + 1), k) /\ r.pred[M(i + 1)] = Link(M(i), k)
  BY DEF Chain
<1>2. M(lo) = k /\ M(hi + 1) = k
  BY DEF NodeOf
<1>3. PICK j \in lo .. hi : M(j + 1) = x
  <2>1. CASE p = lo
    BY <1>2, <2>1
  <2>2. CASE p # lo
    <3>1. p - 1 \in lo .. hi /\ (p - 1) + 1 = p
      BY <2>2
    <3> QED
      BY <3>1
  <2> QED
    BY <2>1, <2>2
<1>4. x = M(p)
  OBVIOUS
<1> HIDE DEF M
<1>5. \A y : Link(y, k).to = y /\ Link(y, k).id = k
  BY DEF Link
<1>6. r.succ[x] = Link(M(p + 1), k) /\ r.pred[M(p + 1)] = Link(x, k)
  BY <1>1, <1>4
<1>7. r.pred[x] = Link(M(j), k) /\ r.succ[M(j)] = Link(x, k)
  BY <1>1, <1>3
<1> QED
  BY <1>5, <1>6, <1>7 DEF Succ, Pred

\* The elements on the rings are those of the order, and the nodes on the rings
\* are these and the heads.
LEMMA LinkedNodes ==
  ASSUME NEW q, Mirrors(q), NEW x \in Node, Linked(x)
  PROVE  /\ ring.succ[x].id = IdOf(x)
         /\ ring.pred[Succ(ring, x)] = Link(x, IdOf(x))
         /\ ring.succ[Pred(ring, x)] = Link(x, IdOf(x))
<1>1. PICK o : o = q.order
  OBVIOUS
<1>2. PICK h : h = q.hots
  OBVIOUS
<1>3. PICK n : n = Len(o)
  OBVIOUS
<1>4. o \in Seq(Elem) /\ n \in Nat /\ h \in 0 .. n /\ Queued(q) = ToSet(o)
      /\ \A e \in Elem : Linked(e) <=> e \in Queued(q)
  BY <1>1, <1>2, <1>3, MirrorFacts
<1>5. ring \in RingType /\ Chain(ring, "hot", o, 0, h) /\ Chain(ring, "cold", o, h, n)
  BY <1>1, <1>2, <1>3 DEF Mirrors, Stands
<1>6. "hot" \in Ids /\ "cold" \in Ids /\ 0 \in Nat /\ h \in Nat /\ 0 <= h /\ h <= n
  BY <1>4 DEF Ids
<1>7. \/ \E p \in 0 .. h : x = NodeOf(o, "hot", 0, h, p)
      \/ \E p \in h .. n : x = NodeOf(o, "cold", h, n, p)
  <2>1. CASE x = "hot"
    <3>1. 0 \in 0 .. h /\ NodeOf(o, "hot", 0, h, 0) = "hot"
      BY <1>6 DEF NodeOf
    <3> QED
      BY <2>1, <3>1
  <2>2. CASE x = "cold"
    <3>1. h \in h .. n /\ NodeOf(o, "cold", h, n, h) = "cold"
      BY <1>4, <1>6 DEF NodeOf
    <3> QED
      BY <2>2, <3>1
  <2>3. CASE x \in Elem
    <3>1. PICK p \in 1 .. Len(o) : x = o[p]
      BY <1>4, <2>3, ToSetFacts
    <3>2. CASE p <= h
      <4>1. p \in 0 .. h /\ NodeOf(o, "hot", 0, h, p) = o[p]
        BY <1>6, <3>2 DEF NodeOf
      <4> QED
        BY <3>1, <4>1
    <3>3. CASE p > h
      <4>1. p \in h .. n /\ NodeOf(o, "cold", h, n, p) = o[p]
        BY <1>3, <1>4, <1>6, <3>3 DEF NodeOf
      <4> QED
        BY <3>1, <4>1
    <3> QED
      BY <1>6, <3>2, <3>3
  <2> QED
    BY <2>1, <2>2, <2>3 DEF Node, Ids
<1>8. \E k \in Ids : /\ ring.pred[x].id = k /\ ring.succ[x].id = k
                     /\ ring.pred[Succ(ring, x)] = Link(x, k) /\ ring.succ[Pred(ring, x)] = Link(x, k)
  <2>1. CASE \E p \in 0 .. h : x = NodeOf(o, "hot", 0, h, p)
    <3>1. PICK p \in 0 .. h : x = NodeOf(o, "hot", 0, h, p)
      BY <2>1
    <3>2. /\ ring.pred[x].id = "hot" /\ ring.succ[x].id = "hot"
          /\ ring.pred[Succ(ring, x)] = Link(x, "hot") /\ ring.succ[Pred(ring, x)] = Link(x, "hot")
      BY <1>5, <1>6, <3>1, NodeLinks
    <3> QED
      BY <1>6, <3>2
  <2>2. CASE \E p \in h .. n : x = NodeOf(o, "cold", h, n, p)
    <3>1. PICK p \in h .. n : x = NodeOf(o, "cold", h, n, p)
      BY <2>2
    <3>2. /\ ring.pred[x].id = "cold" /\ ring.succ[x].id = "cold"
          /\ ring.pred[Succ(ring, x)] = Link(x, "cold") /\ ring.succ[Pred(ring, x)] = Link(x, "cold")
      BY <1>4, <1>5, <1>6, <3>1, NodeLinks
    <3> QED
      BY <1>6, <3>2
  <2> QED
    BY <1>7, <2>1, <2>2
<1> QED
  BY <1>8 DEF IdOf

\* Every function leaves the queue that it has to.
LEMMA RingInvComputes ==
  ASSUME RingInv
  PROVE  ComputesQueue
<1>1. PICK q : Mirrors(q) /\ OnTheWay(q)
  BY DEF RingInv
<1>2. AsQueue = q
  BY <1>1, ReadsMirror
<1> QED
  BY <1>1, <1>2 DEF ComputesQueue, OnTheWay

\* The rings are closed and counted, and the queued elements are in the cache.
LEMMA RingInvRings ==
  ASSUME RingInv
  PROVE  Rings
<1>1. PICK q : Mirrors(q) /\ OnTheWay(q)
  BY DEF RingInv
<1>2. /\ q.order \in Seq(Elem) /\ QSize(q) = Len(q.order) /\ QSize(q) \in Nat
      /\ q.hots \in 0 .. QSize(q) /\ Distinct(q.order) /\ Queued(q) = ToSet(q.order)
      /\ qlen["hot"] = q.hots /\ qlen["cold"] = QSize(q) - q.hots /\ Total = QSize(q)
      /\ \A e \in Elem : Linked(e) <=> e \in Queued(q)
  BY <1>1, MirrorFacts
<1>3. Stands(ring, q.order, q.hots) /\ Queued(q) \subseteq present
      /\ qlen = [i \in Ids |-> IF i = "hot" THEN q.hots ELSE QSize(q) - q.hots]
  BY <1>1 DEF Mirrors
<1>4. TypeOK
  <2>1. qlen \in [Ids -> Nat]
    BY <1>2, <1>3
  <2>2. ring \in [succ : [Node -> LinkType], pred : [Node -> LinkType]]
    BY <1>3 DEF Stands, RingType
  <2> QED
    BY <2>1, <2>2 DEF RingInv, Types, TypeOK
<1>5. ASSUME NEW k \in Ids, NEW i \in 1 .. qlen[k]
      PROVE  NodeAt(i, k) \in present
  <2>1. \A p \in 1 .. Len(q.order) : q.order[p] \in present
    BY <1>2, <1>3, ToSetFacts
  <2>2. CASE k = "hot"
    <3>1. NodeAt(i, "hot") = q.order[i]
      BY <1>1, <1>5, <2>2, WalksMirror
    <3>2. i \in 1 .. Len(q.order)
      BY <1>2, <1>5, <2>2
    <3> QED
      BY <2>1, <2>2, <3>1, <3>2
  <2>3. CASE k = "cold"
    <3>1. NodeAt(i, "cold") = q.order[q.hots + i]
      BY <1>1, <1>5, <2>3, WalksMirror
    <3>2. q.hots + i \in 1 .. Len(q.order)
      BY <1>2, <1>5, <2>3
    <3> QED
      BY <2>1, <2>3, <3>1, <3>2
  <2> QED
    BY <2>2, <2>3 DEF Ids
<1>6. \A k \in Ids : NodeAt(qlen[k] + 1, k) = k
  BY <1>1, WalksMirror
<1>7. \A x \in Node : Linked(x) =>
        /\ ring.succ[x].id = IdOf(x)
        /\ ring.pred[Succ(ring, x)] = Link(x, IdOf(x))
        /\ ring.succ[Pred(ring, x)] = Link(x, IdOf(x))
  BY <1>1, LinkedNodes
<1>8. \A x \in Elem : ~Linked(x) => ring.succ[x] = Null
  BY <1>2, <1>3 DEF Stands
<1>9. Cardinality({x \in Elem : Linked(x)}) = Total
  <2>1. {x \in Elem : Linked(x)} = ToSet(q.order)
    BY <1>2, ToSetFacts
  <2> QED
    BY <1>2, <2>1, OrderCardinality
<1> QED
  BY <1>4, <1>5, <1>6, <1>7, <1>8, <1>9 DEF Rings

\* RingsAreClosed: after every single move of every loop, and whatever happens
\* between the calls, both rings are closed in both directions, as long as is
\* counted and marked with their queue, and hold elements of the cache only.
THEOREM RingsAreClosed == Spec => []Rings
<1>1. RingInv => Rings
  BY RingInvRings
<1> QED
  BY <1>1, RingInvariant, PTL

\* RingsComputeQueue: the loops of expire_queue.h leave the queue that the closed
\* forms of ExpireQueueOps give, for any number of elements.
THEOREM RingsComputeQueue == Spec => []ComputesQueue
<1>1. RingInv => ComputesQueue
  BY RingInvComputes
<1> QED
  BY <1>1, RingInvariant, PTL

=============================================================================
