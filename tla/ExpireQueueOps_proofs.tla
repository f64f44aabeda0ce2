------------------------ MODULE ExpireQueueOps_proofs ------------------------
(***************************************************************************)
(* What the queue operators of ExpireQueueOps preserve, for queues over    *)
(* any set of elements.  Each lemma describes one operator completely      *)
(* enough for the proofs of the specifications that use it: the type of    *)
(* the result, which elements are on it, that none is on it twice, and     *)
(* that it is balanced.                                                    *)
(***************************************************************************)
EXTENDS ExpireQueueOps, SequenceTheorems, FiniteSetTheorems,
        WellFoundedInduction, TLAPS

\* The queues over S, and the two facts every operator keeps.
Queues(S) == {q \in [order : Seq(S), hots : Nat] : q.hots <= QSize(q)}
Distinct(s) == \A i, j \in 1 .. Len(s) : s[i] = s[j] => i = j
NoDup(q) == Distinct(q.order)
IsBalanced(q) == q.hots - (QSize(q) - q.hots) \in -1 .. 1

\* Rebalancing only moves the boundary, and balances the two lists
\* (rebalance_, expire_queue.h).
LEMMA RebalanceFacts ==
  ASSUME NEW S, NEW o \in Seq(S), NEW h \in 0 .. Len(o)
  PROVE  LET q == Rebalance([order |-> o, hots |-> h])
         IN q \in Queues(S) /\ q.order = o /\ IsBalanced(q)
<1> DEFINE q == Rebalance([order |-> o, hots |-> h])
           n == Len(o)
<1>1. n \in Nat
  BY LenProperties
<1>2. q = [order |-> o,
           hots  |-> IF 2 * h > n + 1 THEN (n + 1) \div 2
                     ELSE IF 2 * h < n - 1 THEN n \div 2 ELSE h]
  BY DEF Rebalance
<1>3. q.order = o /\ QSize(q) = n
  BY <1>2 DEF QSize
<1>4. q.hots \in 0 .. n /\ q.hots - (n - q.hots) \in -1 .. 1
  BY <1>1, <1>2
<1> QED
  BY <1>2, <1>3, <1>4 DEF Queues, IsBalanced

\* SubSeq within the bounds of a sequence.
LEMMA SubSeqFacts ==
  ASSUME NEW S, NEW s \in Seq(S), NEW m \in Nat \ {0}, NEW n \in Nat, n <= Len(s)
  PROVE  /\ SubSeq(s, m, n) \in Seq(S)
         /\ Len(SubSeq(s, m, n)) = IF m <= n THEN n - m + 1 ELSE 0
         /\ \A i \in 1 .. n - m + 1 : SubSeq(s, m, n)[i] = s[m + i - 1]
<1>1. \A i \in m .. n : s[i] \in S
  BY LenProperties
<1>2. m \in Int /\ n \in Int
  OBVIOUS
<1> QED
  BY <1>1, <1>2, SubSeqProperties

\* Inserting e as the i-th element of a sequence.
LEMMA InsertAtFacts ==
  ASSUME NEW S, NEW s \in Seq(S), NEW e \in S, NEW i \in 1 .. Len(s) + 1
  PROVE  LET t == InsertAt(s, i, e)
         IN /\ t \in Seq(S) /\ Len(t) = Len(s) + 1
            /\ \A j \in 1 .. Len(s) + 1 :
                 t[j] = IF j < i THEN s[j] ELSE IF j = i THEN e ELSE s[j - 1]
<1> DEFINE n == Len(s)
           a == SubSeq(s, 1, i - 1)
           b == SubSeq(s, i, n)
           ae == a \o <<e>>
<1>1. n \in Nat
  BY LenProperties
<1>2. /\ a \in Seq(S) /\ Len(a) = i - 1
      /\ \A j \in 1 .. i - 1 : a[j] = s[j]
  BY <1>1, SubSeqFacts
<1>3. /\ b \in Seq(S) /\ Len(b) = n - i + 1
      /\ \A j \in 1 .. n - i + 1 : b[j] = s[i + j - 1]
  BY <1>1, SubSeqFacts
<1>4. <<e>> \in Seq(S) /\ Len(<<e>>) = 1 /\ <<e>>[1] = e
  OBVIOUS
<1> HIDE DEF a, b
<1>5. /\ ae \in Seq(S) /\ Len(ae) = i
      /\ \A j \in 1 .. i : ae[j] = IF j < i THEN s[j] ELSE e
  BY <1>1, <1>2, <1>4, ConcatProperties
<1> HIDE DEF ae
<1>6. /\ ae \o b \in Seq(S) /\ Len(ae \o b) = n + 1
      /\ \A j \in 1 .. n + 1 : (ae \o b)[j] = IF j <= i THEN ae[j] ELSE b[j - i]
  <2>1. Len(ae) + Len(b) = n + 1
    BY <1>1, <1>3, <1>5
  <2>2. /\ ae \o b \in Seq(S) /\ Len(ae \o b) = Len(ae) + Len(b)
        /\ \A j \in 1 .. Len(ae) + Len(b) :
             (ae \o b)[j] = IF j <= Len(ae) THEN ae[j] ELSE b[j - Len(ae)]
    BY <1>3, <1>5, ConcatProperties
  <2> QED
    BY <1>5, <2>1, <2>2
<1>7. InsertAt(s, i, e) = ae \o b
  BY DEF InsertAt, ae, a, b
<1>8. ASSUME NEW j \in 1 .. n + 1
      PROVE  (ae \o b)[j] = IF j < i THEN s[j] ELSE IF j = i THEN e ELSE s[j - 1]
  <2>1. (ae \o b)[j] = IF j <= i THEN ae[j] ELSE b[j - i]
    BY <1>6
  <2>2. CASE j <= i
    <3>1. j \in 1 .. i
      BY <2>2
    <3> QED
      BY <1>5, <2>1, <2>2, <3>1
  <2>3. CASE j > i
    <3> DEFINE k == j - i
    <3>1. k \in 1 .. n - i + 1 /\ i + k - 1 = j - 1
      BY <1>1, <2>3
    <3>2. (ae \o b)[j] = b[k]
      BY <2>1, <2>3
    <3> HIDE DEF k
    <3>3. b[k] = s[i + k - 1]
      BY <1>3, <3>1
    <3>4. b[k] = s[j - 1]
      BY <3>1, <3>3
    <3>5. ~(j < i) /\ j # i
      BY <1>1, <2>3
    <3> QED
      BY <3>2, <3>4, <3>5
  <2>4. j <= i \/ j > i
    BY <1>1
  <2> QED
    BY <2>2, <2>3, <2>4
<1> QED
  BY <1>6, <1>7, <1>8

\* Removing the i-th element of a sequence.
LEMMA RemoveAtFacts ==
  ASSUME NEW S, NEW s \in Seq(S), NEW i \in 1 .. Len(s)
  PROVE  LET t == RemoveAt(s, i)
         IN /\ t \in Seq(S) /\ Len(t) = Len(s) - 1
            /\ \A j \in 1 .. Len(s) - 1 : t[j] = IF j < i THEN s[j] ELSE s[j + 1]
<1> DEFINE n == Len(s)
           a == SubSeq(s, 1, i - 1)
           b == SubSeq(s, i + 1, n)
<1>1. n \in Nat
  BY LenProperties
<1>2. /\ a \in Seq(S) /\ Len(a) = i - 1
      /\ \A j \in 1 .. i - 1 : a[j] = s[j]
  BY <1>1, SubSeqFacts
<1>3. /\ b \in Seq(S) /\ Len(b) = n - i
      /\ \A j \in 1 .. n - i : b[j] = s[i + j]
  BY <1>1, SubSeqFacts
<1> HIDE DEF a, b
<1>4. /\ a \o b \in Seq(S) /\ Len(a \o b) = n - 1
      /\ \A j \in 1 .. n - 1 : (a \o b)[j] = IF j <= i - 1 THEN a[j] ELSE b[j - (i - 1)]
  <2>1. Len(a) + Len(b) = n - 1
    BY <1>1, <1>2, <1>3
  <2>2. /\ a \o b \in Seq(S) /\ Len(a \o b) = Len(a) + Len(b)
        /\ \A j \in 1 .. Len(a) + Len(b) :
             (a \o b)[j] = IF j <= Len(a) THEN a[j] ELSE b[j - Len(a)]
    BY <1>2, <1>3, ConcatProperties
  <2> QED
    BY <1>2, <2>1, <2>2
<1>5. ASSUME NEW j \in 1 .. n - 1
      PROVE  (a \o b)[j] = IF j < i THEN s[j] ELSE s[j + 1]
  BY <1>1, <1>2, <1>3, <1>4
<1>6. RemoveAt(s, i) = a \o b
  BY DEF RemoveAt, a, b
<1> QED
  BY <1>4, <1>5, <1>6

\* Putting e in front of a sequence.
LEMMA ConsFacts ==
  ASSUME NEW S, NEW s \in Seq(S), NEW e \in S
  PROVE  LET t == Cons(e, s)
         IN /\ t \in Seq(S) /\ Len(t) = Len(s) + 1
            /\ \A j \in 1 .. Len(s) + 1 : t[j] = IF j = 1 THEN e ELSE s[j - 1]
<1>1. Len(s) \in Nat
  BY LenProperties
<1>2. <<e>> \in Seq(S) /\ Len(<<e>>) = 1 /\ <<e>>[1] = e
  OBVIOUS
<1>3. /\ <<e>> \o s \in Seq(S) /\ Len(<<e>> \o s) = Len(s) + 1
      /\ \A j \in 1 .. Len(s) + 1 :
           (<<e>> \o s)[j] = IF j <= 1 THEN <<e>>[j] ELSE s[j - 1]
  BY <1>1, <1>2, ConcatProperties
<1> QED
  BY <1>1, <1>2, <1>3 DEF Cons

-----------------------------------------------------------------------------
\* The elements of a sequence, by position.
LEMMA ToSetFacts ==
  ASSUME NEW S, NEW s \in Seq(S)
  PROVE  /\ Len(s) \in Nat
         /\ ToSet(s) \subseteq S
         /\ \A i \in 1 .. Len(s) : s[i] \in ToSet(s)
         /\ \A x \in ToSet(s) : \E i \in 1 .. Len(s) : x = s[i]
  BY LenProperties DEF ToSet

\* Insertion adds exactly the new element, and keeps elements distinct.
LEMMA InsertAtSet ==
  ASSUME NEW S, NEW s \in Seq(S), NEW e \in S, NEW k \in 1 .. Len(s) + 1
  PROVE  LET t == InsertAt(s, k, e)
         IN /\ ToSet(t) = ToSet(s) \union {e}
            /\ Distinct(s) /\ e \notin ToSet(s) => Distinct(t)
<1> DEFINE n == Len(s)
           t == InsertAt(s, k, e)
<1>1. n \in Nat
  BY LenProperties
<1>2. /\ t \in Seq(S) /\ Len(t) = n + 1
      /\ \A j \in 1 .. n + 1 : t[j] = IF j < k THEN s[j] ELSE IF j = k THEN e ELSE s[j - 1]
  BY InsertAtFacts
<1> HIDE DEF t
<1> DEFINE d(x) == IF x < k THEN x ELSE x - 1
<1>3. t[k] = e /\ k \in 1 .. n + 1
  BY <1>1, <1>2
<1>4. \A j \in 1 .. n + 1 : j # k => d(j) \in 1 .. n /\ t[j] = s[d(j)]
  BY <1>1, <1>2
<1>5. \A i \in 1 .. n : \E j \in 1 .. n + 1 : s[i] = t[j]
  <2> TAKE i \in 1 .. n
  <2>1. CASE i < k
    <3>1. i \in 1 .. n + 1 /\ t[i] = s[i]
      BY <1>1, <1>2, <2>1
    <3> QED
      BY <3>1
  <2>2. CASE i >= k
    <3>1. i + 1 \in 1 .. n + 1 /\ t[i + 1] = s[i]
      BY <1>1, <1>2, <2>2
    <3> QED
      BY <3>1
  <2> QED
    BY <1>1, <2>1, <2>2
<1>6. ToSet(t) = ToSet(s) \union {e}
  <2>1. \A x \in ToSet(t) : x \in ToSet(s) \union {e}
    <3> TAKE x \in ToSet(t)
    <3>1. PICK j \in 1 .. n + 1 : x = t[j]
      BY <1>2, ToSetFacts
    <3>2. j # k => d(j) \in 1 .. n /\ x = s[d(j)]
      BY <1>4, <3>1
    <3> HIDE DEF d
    <3> QED
      BY <1>3, <3>1, <3>2, ToSetFacts
  <2>2. \A x \in ToSet(s) : x \in ToSet(t)
    BY <1>2, <1>5, ToSetFacts
  <2>3. e \in ToSet(t)
    BY <1>2, <1>3, ToSetFacts
  <2> QED
    BY <2>1, <2>2, <2>3
<1>7. ASSUME Distinct(s), e \notin ToSet(s)
      PROVE  Distinct(t)
  <2>1. \A j \in 1 .. n + 1 : j # k => t[j] # e
    BY <1>4, <1>7, ToSetFacts
  <2>2. ASSUME NEW i \in 1 .. n + 1, NEW j \in 1 .. n + 1, t[i] = t[j]
        PROVE  i = j
    <3>1. CASE i = k \/ j = k
      BY <1>3, <2>1, <2>2, <3>1
    <3>2. CASE i # k /\ j # k
      <4>1. d(i) = d(j)
        BY <1>4, <1>7, <2>2, <3>2 DEF Distinct
      <4> QED
        BY <1>1, <3>2, <4>1
    <3> QED
      BY <3>1, <3>2
  <2> QED
    BY <1>2, <2>2 DEF Distinct
<1> QED
  BY <1>6, <1>7 DEF t

\* Removal takes exactly that element out of a sequence of distinct elements.
LEMMA RemoveAtSet ==
  ASSUME NEW S, NEW s \in Seq(S), NEW k \in 1 .. Len(s), Distinct(s)
  PROVE  LET t == RemoveAt(s, k)
         IN ToSet(t) = ToSet(s) \ {s[k]} /\ Distinct(t)
<1> DEFINE n == Len(s)
           t == RemoveAt(s, k)
           d(x) == IF x < k THEN x ELSE x + 1
<1>1. n \in Nat
  BY LenProperties
<1>2. /\ t \in Seq(S) /\ Len(t) = n - 1
      /\ \A j \in 1 .. n - 1 : t[j] = IF j < k THEN s[j] ELSE s[j + 1]
  BY RemoveAtFacts
<1> HIDE DEF t
<1>3. \A j \in 1 .. n - 1 : d(j) \in 1 .. n /\ d(j) # k /\ t[j] = s[d(j)]
  BY <1>1, <1>2
<1>4. \A i \in 1 .. n : i # k => \E j \in 1 .. n - 1 : s[i] = t[j]
  <2> SUFFICES ASSUME NEW i \in 1 .. n, i # k
               PROVE  \E j \in 1 .. n - 1 : s[i] = t[j]
    OBVIOUS
  <2>1. CASE i < k
    <3>1. i \in 1 .. n - 1 /\ t[i] = s[i]
      BY <1>1, <1>2, <2>1
    <3> QED
      BY <3>1
  <2>2. CASE i > k
    <3>1. i - 1 \in 1 .. n - 1 /\ t[i - 1] = s[i]
      BY <1>1, <1>2, <2>2
    <3> QED
      BY <3>1
  <2> QED
    BY <1>1, <2>1, <2>2
<1>5. ToSet(t) = ToSet(s) \ {s[k]}
  <2>1. \A x \in ToSet(t) : x \in ToSet(s) /\ x # s[k]
    <3> TAKE x \in ToSet(t)
    <3>1. PICK j \in 1 .. n - 1 : x = t[j]
      BY <1>2, ToSetFacts
    <3>2. d(j) \in 1 .. n /\ d(j) # k /\ x = s[d(j)]
      BY <1>3, <3>1
    <3> HIDE DEF d
    <3> QED
      BY <3>2, ToSetFacts DEF Distinct
  <2>2. \A x \in ToSet(s) : x # s[k] => x \in ToSet(t)
    BY <1>2, <1>4, ToSetFacts
  <2> QED
    BY <2>1, <2>2
<1>6. ASSUME NEW i \in 1 .. n - 1, NEW j \in 1 .. n - 1, t[i] = t[j]
      PROVE  i = j
  <2>1. d(i) = d(j)
    BY <1>3, <1>6 DEF Distinct
  <2> QED
    BY <1>1, <2>1
<1> QED
  BY <1>2, <1>5, <1>6 DEF t, Distinct

\* Putting an element in front adds exactly that element.
LEMMA ConsSet ==
  ASSUME NEW S, NEW s \in Seq(S), NEW e \in S
  PROVE  LET t == Cons(e, s)
         IN /\ ToSet(t) = ToSet(s) \union {e}
            /\ Distinct(s) /\ e \notin ToSet(s) => Distinct(t)
<1> DEFINE t == Cons(e, s)
           n == Len(s)
<1>1. n \in Nat
  BY LenProperties
<1>2. /\ t \in Seq(S) /\ Len(t) = n + 1
      /\ \A j \in 1 .. n + 1 : t[j] = IF j = 1 THEN e ELSE s[j - 1]
  BY ConsFacts
<1> HIDE DEF t
<1>3. t[1] = e /\ 1 \in 1 .. n + 1
  BY <1>1, <1>2
<1>4. \A j \in 1 .. n + 1 : j # 1 => j - 1 \in 1 .. n /\ t[j] = s[j - 1]
  BY <1>1, <1>2
<1>5. \A i \in 1 .. n : i + 1 \in 1 .. n + 1 /\ t[i + 1] = s[i]
  BY <1>1, <1>2
<1>6. ToSet(t) = ToSet(s) \union {e}
  <2>1. \A x \in ToSet(t) : x \in ToSet(s) \union {e}
    BY <1>2, <1>3, <1>4, ToSetFacts
  <2>2. \A x \in ToSet(s) : x \in ToSet(t)
    BY <1>2, <1>5, ToSetFacts
  <2>3. e \in ToSet(t)
    BY <1>2, <1>3, ToSetFacts
  <2> QED
    BY <2>1, <2>2, <2>3
<1>7. ASSUME Distinct(s), e \notin ToSet(s)
      PROVE  Distinct(t)
  <2>1. \A j \in 1 .. n + 1 : j # 1 => t[j] # e
    BY <1>4, <1>7, ToSetFacts
  <2>2. ASSUME NEW i \in 1 .. n + 1, NEW j \in 1 .. n + 1, t[i] = t[j]
        PROVE  i = j
    <3>1. CASE i = 1 \/ j = 1
      BY <1>3, <2>1, <2>2, <3>1
    <3>2. CASE i # 1 /\ j # 1
      <4>1. i - 1 = j - 1
        BY <1>4, <1>7, <2>2, <3>2 DEF Distinct
      <4> QED
        BY <1>1, <4>1
    <3> QED
      BY <3>1, <3>2
  <2> QED
    BY <1>2, <2>2 DEF Distinct
<1> QED
  BY <1>6, <1>7 DEF t

\* Keeping a prefix keeps some of the elements.
LEMMA PrefixFacts ==
  ASSUME NEW S, NEW s \in Seq(S), NEW n \in 0 .. Len(s)
  PROVE  LET t == SubSeq(s, 1, n)
         IN /\ t \in Seq(S) /\ Len(t) = n
            /\ ToSet(t) \subseteq ToSet(s)
            /\ Distinct(s) => Distinct(t)
<1> DEFINE t == SubSeq(s, 1, n)
<1>1. Len(s) \in Nat
  BY LenProperties
<1>2. t \in Seq(S) /\ Len(t) = n /\ \A i \in 1 .. n : t[i] = s[i]
  BY <1>1, SubSeqFacts
<1> HIDE DEF t
<1>3. ToSet(t) \subseteq ToSet(s)
  BY <1>1, <1>2, ToSetFacts
<1>4. Distinct(s) => Distinct(t)
  BY <1>1, <1>2 DEF Distinct
<1> QED
  BY <1>2, <1>3, <1>4 DEF t
-----------------------------------------------------------------------------
\* What every operator that ends in rebalance_ returns.
LEMMA RebalancedQueue ==
  ASSUME NEW S, NEW o \in Seq(S), NEW h \in 0 .. Len(o)
  PROVE  LET q == Rebalance([order |-> o, hots |-> h])
         IN /\ q \in Queues(S) /\ IsBalanced(q)
            /\ QSize(q) = Len(o) /\ Queued(q) = ToSet(o)
            /\ NoDup(q) <=> Distinct(o)
  BY RebalanceFacts DEF QSize, Queued, NoDup

\* A queue is what its two fields make it.
LEMMA QueueType ==
  ASSUME NEW S, NEW q \in Queues(S)
  PROVE  /\ q.order \in Seq(S) /\ Len(q.order) \in Nat /\ q.hots \in 0 .. Len(q.order)
         /\ q = [order |-> q.order, hots |-> q.hots]
         /\ QSize(q) = Len(q.order) /\ Queued(q) = ToSet(q.order)
         /\ NoDup(q) <=> Distinct(q.order)
  BY LenProperties DEF Queues, QSize, Queued, NoDup

\* Inserting below the hot zone adds exactly the new element (on_create).
LEMMA LinkColdFacts ==
  ASSUME NEW S, NEW q \in Queues(S), NEW e \in S, NoDup(q), e \notin Queued(q)
  PROVE  LET r == LinkCold(q, e)
         IN /\ r \in Queues(S) /\ IsBalanced(r) /\ NoDup(r)
            /\ QSize(r) = QSize(q) + 1
            /\ Queued(r) = Queued(q) \union {e}
<1> DEFINE s == q.order
           h == q.hots
           k == h + 1
           o == InsertAt(s, k, e)
<1>1. /\ s \in Seq(S) /\ Len(s) \in Nat /\ h \in 0 .. Len(s) /\ k \in 1 .. Len(s) + 1
      /\ QSize(q) = Len(s) /\ Queued(q) = ToSet(s) /\ Distinct(s) /\ e \notin ToSet(s)
  BY QueueType
<1>2. LinkCold(q, e) = Rebalance([order |-> o, hots |-> h])
  BY DEF LinkCold
<1> HIDE DEF s, h, k
<1>3. /\ o \in Seq(S) /\ Len(o) = Len(s) + 1
      /\ ToSet(o) = ToSet(s) \union {e} /\ Distinct(o)
  BY <1>1, InsertAtFacts, InsertAtSet
<1> HIDE DEF o
<1>4. h \in 0 .. Len(o)
  BY <1>1, <1>3
<1> QED
  BY <1>1, <1>2, <1>3, <1>4, RebalancedQueue

\* The position of a queued element.
LEMMA PositionFacts ==
  ASSUME NEW S, NEW q \in Queues(S), NEW e \in Queued(q)
  PROVE  Position(q, e) \in 1 .. Len(q.order) /\ q.order[Position(q, e)] = e
<1>1. q.order \in Seq(S) /\ DOMAIN q.order = 1 .. Len(q.order)
  BY QueueType, LenProperties
<1>2. \E i \in DOMAIN q.order : q.order[i] = e
  BY DEF Queued, ToSet
<1> QED
  BY <1>1, <1>2 DEF Position

\* A hit on a queued element changes where it is, not what is queued (on_hit).
LEMMA PromoteFacts ==
  ASSUME NEW S, NEW q \in Queues(S), NEW e \in Queued(q), NoDup(q)
  PROVE  LET r == Promote(q, e)
         IN /\ r \in Queues(S) /\ IsBalanced(r) /\ NoDup(r)
            /\ QSize(r) = QSize(q)
            /\ Queued(r) = Queued(q)
<1> DEFINE s == q.order
           h == q.hots
           k == Position(q, e)
           t == RemoveAt(s, k)
           o == Cons(e, t)
           g == IF k <= h THEN h ELSE h + 1
<1>1. /\ s \in Seq(S) /\ Len(s) \in Nat /\ h \in 0 .. Len(s)
      /\ QSize(q) = Len(s) /\ Queued(q) = ToSet(s) /\ Distinct(s) /\ ToSet(s) \subseteq S
  BY QueueType, ToSetFacts
<1>2. k \in 1 .. Len(s) /\ s[k] = e
  BY PositionFacts
<1>3. Promote(q, e) = Rebalance([order |-> o, hots |-> g])
  BY DEF Promote
<1> HIDE DEF s, h, k
<1>4. /\ t \in Seq(S) /\ Len(t) = Len(s) - 1
      /\ ToSet(t) = ToSet(s) \ {e} /\ Distinct(t)
  BY <1>1, <1>2, RemoveAtFacts, RemoveAtSet
<1>5. e \in S /\ e \in ToSet(s) /\ e \notin ToSet(t)
  BY <1>1, <1>4
<1> HIDE DEF t
<1>t. t \in Seq(S)
  BY <1>4
<1>d. Distinct(t) /\ e \notin ToSet(t)
  BY <1>4, <1>5
<1>s. e \in S
  BY <1>5
<1>6. /\ o \in Seq(S) /\ Len(o) = Len(t) + 1
      /\ ToSet(o) = ToSet(t) \union {e} /\ Distinct(o)
  <2>1. o \in Seq(S) /\ Len(o) = Len(t) + 1
    BY <1>t, <1>s, ConsFacts
  <2>2. ToSet(o) = ToSet(t) \union {e}
    BY <1>t, <1>s, ConsSet
  <2>3. Distinct(o)
    BY <1>t, <1>s, <1>d, ConsFacts, ConsSet
  <2> QED
    BY <2>1, <2>2, <2>3
<1> HIDE DEF o
<1>7. Len(o) = Len(s) /\ ToSet(o) = ToSet(s)
  BY <1>1, <1>4, <1>5, <1>6
<1>8. g \in 0 .. Len(o)
  BY <1>1, <1>2, <1>7
<1> HIDE DEF g
<1> QED
  BY <1>1, <1>3, <1>6, <1>7, <1>8, RebalancedQueue

\* Unlinking takes exactly that element off the queue (on_delete).
LEMMA UnlinkFacts ==
  ASSUME NEW S, NEW q \in Queues(S), NEW e, NoDup(q), IsBalanced(q)
  PROVE  LET r == Unlink(q, e)
         IN /\ r \in Queues(S) /\ IsBalanced(r) /\ NoDup(r)
            /\ QSize(r) <= QSize(q)
            /\ Queued(r) = Queued(q) \ {e}
<1>1. CASE e \notin Queued(q)
  BY <1>1, QueueType DEF Unlink
<1>2. CASE e \in Queued(q)
  <2> DEFINE s == q.order
             h == q.hots
             k == Position(q, e)
             o == RemoveAt(s, k)
             g == IF k <= h THEN h - 1 ELSE h
  <2>1. /\ s \in Seq(S) /\ Len(s) \in Nat /\ h \in 0 .. Len(s)
        /\ QSize(q) = Len(s) /\ Queued(q) = ToSet(s) /\ Distinct(s)
    BY QueueType
  <2>2. k \in 1 .. Len(s) /\ s[k] = e
    BY <1>2, PositionFacts
  <2>3. Unlink(q, e) = Rebalance([order |-> o, hots |-> g])
    BY <1>2 DEF Unlink
  <2> HIDE DEF s, h, k
  <2>4. /\ o \in Seq(S) /\ Len(o) = Len(s) - 1
        /\ ToSet(o) = ToSet(s) \ {e} /\ Distinct(o)
    BY <2>1, <2>2, RemoveAtFacts, RemoveAtSet
  <2> HIDE DEF o
  <2>5. g \in 0 .. Len(o)
    BY <2>1, <2>2, <2>4
  <2> HIDE DEF g
  <2>6. /\ Unlink(q, e) \in Queues(S) /\ IsBalanced(Unlink(q, e)) /\ NoDup(Unlink(q, e))
        /\ QSize(Unlink(q, e)) = Len(o) /\ Queued(Unlink(q, e)) = ToSet(o)
    BY <2>3, <2>4, <2>5, RebalancedQueue
  <2> QED
    BY <2>1, <2>4, <2>6
<1> QED
  BY <1>1, <1>2

\* Shrinking leaves at most n elements and adds none (shrink_to_size_).
LEMMA ShrinkToFacts ==
  ASSUME NEW S, NEW q \in Queues(S), NEW n \in Nat, NoDup(q)
  PROVE  LET r == ShrinkTo(q, n)
         IN /\ r \in Queues(S) /\ IsBalanced(r) /\ NoDup(r)
            /\ QSize(r) = IF n >= QSize(q) THEN QSize(q) ELSE n
            /\ Queued(r) \subseteq Queued(q)
<1> DEFINE s == q.order
           h == q.hots
           o == SubSeq(s, 1, n)
           g == IF h <= n THEN h ELSE n
<1>1. /\ s \in Seq(S) /\ Len(s) \in Nat /\ h \in 0 .. Len(s)
      /\ QSize(q) = Len(s) /\ Queued(q) = ToSet(s) /\ Distinct(s)
      /\ q = [order |-> s, hots |-> h]
  BY QueueType
<1>2. ShrinkTo(q, n) = IF n >= QSize(q) THEN Rebalance(q)
                       ELSE Rebalance([order |-> o, hots |-> g])
  BY DEF ShrinkTo
<1> HIDE DEF s, h
<1>3. CASE n >= QSize(q)
  <2>1. ShrinkTo(q, n) = Rebalance([order |-> s, hots |-> h])
    BY <1>1, <1>2, <1>3
  <2> QED
    BY <1>1, <1>3, <2>1, RebalancedQueue
<1>4. CASE ~(n >= QSize(q))
  <2>1. n \in 0 .. Len(s)
    BY <1>1, <1>4
  <2>2. /\ o \in Seq(S) /\ Len(o) = n /\ ToSet(o) \subseteq ToSet(s) /\ Distinct(o)
    BY <1>1, <2>1, PrefixFacts
  <2> HIDE DEF o
  <2>3. g \in 0 .. Len(o)
    BY <1>1, <2>1, <2>2
  <2> HIDE DEF g
  <2> QED
    BY <1>1, <1>2, <1>4, <2>2, <2>3, RebalancedQueue
<1> QED
  BY <1>3, <1>4

-----------------------------------------------------------------------------
\* Every non-empty set of naturals has a least element.
LEMMA LeastNatural ==
  ASSUME NEW T, T \subseteq Nat, T # {}
  PROVE  \E m \in T : \A n \in T : m <= n
<1> DEFINE R == StrictSubsetOrdering(Nat)
           U == {1 .. n : n \in T}
<1>1. IsWellFoundedOn(R, FiniteSubsetsOf(Nat))
  BY FS_StrictSubsetOrderingWellFounded
<1>2. \A n \in T : 1 .. n \in FiniteSubsetsOf(Nat)
  BY FS_Interval DEF FiniteSubsetsOf
<1>3. U \subseteq FiniteSubsetsOf(Nat) /\ U # {}
  BY <1>2
<1> HIDE DEF R
<1>4. PICK x \in U : \A y \in U : ~(<<y, x>> \in R)
  BY <1>1, <1>3, WFMin
<1>5. PICK m \in T : x = 1 .. m
  BY <1>4
<1>6. ASSUME NEW n \in T, n < m
      PROVE  FALSE
  <2>1. 1 .. n \subseteq 1 .. m /\ 1 .. n # 1 .. m
    <3>1. m \in 1 .. m /\ m \notin 1 .. n
      BY <1>6
    <3> QED
      BY <1>6, <3>1
  <2>2. <<1 .. n, 1 .. m>> \in R
    BY <2>1 DEF R, StrictSubsetOrdering
  <2> QED
    BY <1>4, <1>5, <2>2
<1> QED
  BY <1>6

\* The cut that shrink_while_ and cleanup_ look for exists: everything colder
\* is in D, the element at the cut is not.
LEMMA WarmerThanFacts ==
  ASSUME NEW S, NEW q \in Queues(S), NEW D
  PROVE  LET n == WarmerThan(q, D)
         IN /\ n \in 0 .. QSize(q)
            /\ \A i \in n + 1 .. QSize(q) : q.order[i] \in D
            /\ n = 0 \/ q.order[n] \notin D
<1> DEFINE z == QSize(q)
           s == q.order
           T == {n \in 0 .. z : \A i \in n + 1 .. z : s[i] \in D}
<1>1. z \in Nat
  BY QueueType
<1> HIDE DEF z, s
<1>2. T \subseteq Nat /\ z \in T
  BY <1>1
<1>3. PICK m \in T : \A n \in T : m <= n
  BY <1>2, LeastNatural
<1>4. m = 0 \/ s[m] \notin D
  <2>1. SUFFICES ASSUME m # 0, s[m] \in D
                 PROVE  FALSE
    OBVIOUS
  <2>2. m - 1 \in 0 .. z
    BY <1>1, <1>3, <2>1
  <2>3. \A i \in (m - 1) + 1 .. z : i = m \/ i \in m + 1 .. z
    BY <1>1, <1>3
  <2>4. m - 1 \in T
    BY <1>3, <2>1, <2>2, <2>3
  <2> QED
    BY <1>1, <1>3, <2>4
<1>5. \E n \in 0 .. z : (\A i \in n + 1 .. z : s[i] \in D) /\ (n = 0 \/ s[n] \notin D)
  BY <1>3, <1>4
<1> QED
  BY <1>5 DEF WarmerThan, z, s

\* shrink_while_ and cleanup_ drop only elements of D.
LEMMA ShrinkWhileFacts ==
  ASSUME NEW S, NEW q \in Queues(S), NEW D, NoDup(q)
  PROVE  LET r == ShrinkWhile(q, D)
         IN /\ r \in Queues(S) /\ IsBalanced(r) /\ NoDup(r)
            /\ QSize(r) <= QSize(q)
            /\ Queued(r) \subseteq Queued(q)
            /\ Queued(q) \ Queued(r) \subseteq D
<1> DEFINE n == WarmerThan(q, D)
           r == ShrinkWhile(q, D)
           s == q.order
<1>1. n \in 0 .. QSize(q) /\ \A i \in n + 1 .. QSize(q) : s[i] \in D
  BY WarmerThanFacts
<1>2. s \in Seq(S) /\ QSize(q) = Len(s) /\ Len(s) \in Nat /\ Queued(q) = ToSet(s)
  BY QueueType
<1>3. r = ShrinkTo(q, n)
  BY DEF ShrinkWhile
<1> HIDE DEF n, r
<1>4. /\ r \in Queues(S) /\ IsBalanced(r) /\ NoDup(r)
      /\ QSize(r) = IF n >= QSize(q) THEN QSize(q) ELSE n
      /\ Queued(r) \subseteq Queued(q)
  BY <1>1, <1>2, <1>3, ShrinkToFacts
<1>5. \A i \in 1 .. n : s[i] \in Queued(r)
  <2> DEFINE o == SubSeq(s, 1, n)
             h == q.hots
  <2>1. CASE n >= QSize(q)
    <3>1. r = Rebalance([order |-> s, hots |-> h])
      BY <1>3, <2>1, QueueType DEF ShrinkTo
    <3>2. h \in 0 .. Len(s)
      BY QueueType
    <3> HIDE DEF s, h
    <3>3. Queued(r) = ToSet(s)
      BY <1>2, <3>1, <3>2, RebalancedQueue
    <3> QED
      BY <1>1, <1>2, <3>3, ToSetFacts
  <2>2. CASE ~(n >= QSize(q))
    <3> DEFINE g == IF h <= n THEN h ELSE n
    <3>1. r = Rebalance([order |-> o, hots |-> g])
      BY <1>3, <2>2 DEF ShrinkTo
    <3>2. h \in 0 .. Len(s)
      BY QueueType
    <3> HIDE DEF s, h
    <3>3. o \in Seq(S) /\ Len(o) = n
      BY <1>1, <1>2, PrefixFacts
    <3>4. \A i \in 1 .. n : o[i] = s[i]
      BY <1>1, <1>2, SubSeqFacts
    <3> HIDE DEF o
    <3>5. g \in 0 .. Len(o)
      BY <1>1, <1>2, <3>2, <3>3
    <3> HIDE DEF g
    <3>6. Queued(r) = ToSet(o)
      BY <3>1, <3>3, <3>5, RebalancedQueue
    <3> QED
      BY <3>3, <3>4, <3>6, ToSetFacts
  <2> QED
    BY <2>1, <2>2
<1>6. ASSUME NEW x \in Queued(q), x \notin Queued(r)
      PROVE  x \in D
  <2>1. PICK i \in 1 .. Len(s) : x = s[i]
    BY <1>2, <1>6, ToSetFacts
  <2>2. i \in n + 1 .. QSize(q)
    BY <1>1, <1>2, <1>5, <1>6, <2>1
  <2> QED
    BY <1>1, <2>1, <2>2
<1>7. QSize(r) <= QSize(q)
  BY <1>1, <1>2, <1>4
<1> QED
  BY <1>4, <1>6, <1>7 DEF r

\* A queue is finite and has no more elements than it is long.
LEMMA QueuedCardinality ==
  ASSUME NEW S, NEW q \in Queues(S)
  PROVE  /\ IsFiniteSet(Queued(q))
         /\ Cardinality(Queued(q)) \in Nat /\ Cardinality(Queued(q)) <= QSize(q)
<1> DEFINE s == q.order
           f == [i \in 1 .. Len(s) |-> s[i]]
<1>1. /\ s \in Seq(S) /\ Len(s) \in Nat
      /\ QSize(q) = Len(s) /\ Queued(q) = ToSet(s)
  BY QueueType
<1> HIDE DEF s
<1>2. /\ \A i \in 1 .. Len(s) : s[i] \in ToSet(s)
      /\ \A x \in ToSet(s) : \E i \in 1 .. Len(s) : x = s[i]
  BY <1>1, ToSetFacts
<1>3. f \in Surjection(1 .. Len(s), ToSet(s))
  BY <1>2 DEF Surjection
<1> HIDE DEF f
<1>4. ExistsSurjection(1 .. Len(s), ToSet(s))
  BY <1>3 DEF ExistsSurjection
<1>5. IsFiniteSet(ToSet(s))
  BY <1>1, <1>3, FS_Surjection, FS_Interval
<1>6. Cardinality(ToSet(s)) \in Nat
  BY <1>5, FS_CardinalityType
<1> QED
  BY <1>1, <1>4, <1>5, <1>6, FS_SurjCardinalityBound

\* f is the sequence that starts with b and applies F[1], F[2], ... in turn.
Recursion(f, X, b, n, F) ==
  f \in [0 .. n -> X] /\ f[0] = b /\ \A i \in 1 .. n : f[i] = F[i][f[i - 1]]

\* A function on 0 .. n that is given by its first value and by each next one
\* exists: what is meant by a recursive definition over a sequence.
LEMMA RecursionExists ==
  ASSUME NEW X, NEW b \in X, NEW n \in Nat, NEW F \in [1 .. n -> [X -> X]]
  PROVE  \E f : Recursion(f, X, b, n, F)
<1> DEFINE Is(f, m) == f = [i \in 0 .. m |-> IF i = 0 THEN b ELSE F[i][f[i - 1]]]
           Good(m) == \E f \in [0 .. m -> X] : Is(f, m)
           Bad == {m \in 0 .. n : ~Good(m)}
<1>1. SUFFICES ASSUME Bad # {} PROVE FALSE
  <2>1. n \in 0 .. n /\ 0 \in 0 .. n /\ \A i \in 1 .. n : i \in 0 .. n /\ i # 0
    OBVIOUS
  <2>2. SUFFICES ASSUME Good(n)
                 PROVE  \E f : Recursion(f, X, b, n, F)
    BY <2>1
  <2>3. PICK f \in [0 .. n -> X] : Is(f, n)
    BY <2>2
  <2>4. \A i \in 0 .. n : f[i] = IF i = 0 THEN b ELSE F[i][f[i - 1]]
    BY <2>3
  <2>5. Recursion(f, X, b, n, F)
    BY <2>1, <2>4 DEF Recursion
  <2> QED
    BY <2>5
<1>2. PICK m \in Bad : \A k \in Bad : m <= k
  <2>1. Bad \subseteq Nat
    OBVIOUS
  <2> HIDE DEF Bad
  <2> QED
    BY <1>1, <2>1, LeastNatural
<1>3. m \in 0 .. n /\ ~Good(m)
  BY <1>2
<1>4. CASE m = 0
  <2> DEFINE f == [i \in 0 .. 0 |-> b]
  <2>1. f \in [0 .. 0 -> X] /\ Is(f, 0)
    OBVIOUS
  <2> QED
    BY <1>3, <1>4, <2>1
<1>5. CASE m # 0
  <2>1. m - 1 \in 0 .. n /\ m - 1 < m /\ m \in 1 .. n /\ m \in Nat
    BY <1>3, <1>5
  <2>2. Good(m - 1)
    <3> HIDE DEF Good
    <3> QED
      BY <1>2, <2>1
  <2>3. PICK g \in [0 .. m - 1 -> X] : Is(g, m - 1)
    BY <2>2
  <2> DEFINE f == [i \in 0 .. m |-> IF i = m THEN F[m][g[m - 1]] ELSE g[i]]
  <2>4. F[m][g[m - 1]] \in X
    BY <2>1, <2>3
  <2>5. f \in [0 .. m -> X]
    BY <2>1, <2>3, <2>4
  <2>6. ASSUME NEW i \in 0 .. m PROVE f[i] = IF i = 0 THEN b ELSE F[i][f[i - 1]]
    <3>1. CASE i = m
      <4>1. f[m - 1] = g[m - 1] /\ f[m] = F[m][g[m - 1]]
        BY <2>1
      <4> HIDE DEF f
      <4> QED
        BY <1>5, <3>1, <4>1
    <3>2. CASE i # m
      <4>1. i \in 0 .. m - 1 /\ f[i] = g[i] /\ (i # 0 => f[i - 1] = g[i - 1])
        BY <2>1, <3>2
      <4>2. g[i] = IF i = 0 THEN b ELSE F[i][g[i - 1]]
        BY <2>3, <4>1
      <4> HIDE DEF f
      <4> QED
        BY <4>1, <4>2
    <3> QED
      BY <3>1, <3>2
  <2>7. Is(f, m)
    <3>1. f = [i \in 0 .. m |-> f[i]]
      BY <2>5
    <3> HIDE DEF f
    <3> QED
      BY <2>6, <3>1
  <2> HIDE DEF f, Is
  <2>8. Good(m)
    BY <2>5, <2>7
  <2> QED
    BY <1>3, <2>8
<1> QED
  BY <1>4, <1>5
=============================================================================
