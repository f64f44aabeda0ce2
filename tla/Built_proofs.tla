---------------------------- MODULE Built_proofs ----------------------------
(***************************************************************************)
(* Proofs about what build() makes of a builder: the list of decorators    *)
(* (DecoratorSet), a cache that runs them (Decorated), the chain of        *)
(* setters that leads to it (Builder) and the shards (ShardedCache).       *)
(*                                                                         *)
(* DecoratorFacts says which decorators a list has and that the queue is   *)
(* before what shrinks it.  For a cache, Ran(event, c0, c, e, k) is the    *)
(* invariant of the loop over the decorators: what holds of the cache c    *)
(* after the first k callbacks for the element e, when it was c0 before.   *)
(* It depends on which decorators have run (Did), and that is where their  *)
(* order matters: before the queue has linked a new element, the element   *)
(* is strong and not queued.  Each callback takes Ran(.., k - 1) to        *)
(* Ran(.., k); after the last one (DispatchFacts) the queued elements are  *)
(* the strong ones again, which with the other parts of Whole makes the    *)
(* invariant Inv of the cache inductive.                                   *)
(*                                                                         *)
(* The variables and actions of Builder, ShardedCache and Decorated have   *)
(* different names, so that this module can extend all three.              *)
(***************************************************************************)
EXTENDS Decorated, Builder, ShardedCache, ExpireQueueOps_proofs

\* The names of the decorators.  void is the type of a key that is left out.
Names ==
  {"weaken", "stats", "async", "max_age", "access_expire", "key", "mutex", "no_mutex",
   "max_size", "max_memory", "storage", "expire_queue", "void"}

\* What shrinks the queue.
Shrinkers == {"access_expire", "max_size", "max_memory"}

\* A decorator that shrinks the queue comes after the queue.
Served(D) ==
  \A i \in 1 .. Len(D) : D[i] \in Shrinkers => \E j \in 1 .. i - 1 : D[j] = "expire_queue"

Good(D) == D \in Seq(Names) /\ Distinct(D) /\ Served(D)

\* RemoveFirst takes out one element.
LEMMA RemoveFirstIs ==
  ASSUME NEW S, NEW s \in Seq(S), NEW e
  PROVE  /\ e \notin ToSet(s) => RemoveFirst(s, e) = s
         /\ e \in ToSet(s) => \E i \in 1 .. Len(s) : s[i] = e /\ RemoveFirst(s, e) = RemoveAt(s, i)
<1> DEFINE I == {i \in 1 .. Len(s) : s[i] = e}
<1>1. /\ Len(s) \in Nat /\ \A i \in 1 .. Len(s) : s[i] \in ToSet(s)
      /\ \A x \in ToSet(s) : \E i \in 1 .. Len(s) : x = s[i]
  BY ToSetFacts
<1>2. RemoveFirst(s, e) = IF I # {} THEN RemoveAt(s, Min(I)) ELSE s
  BY DEF RemoveFirst, SelectInSeq
<1>3. I # {} => Min(I) \in I
  <2>1. I \subseteq Nat
    BY <1>1
  <2> HIDE DEF I
  <2>2. ASSUME I # {} PROVE \E x \in I : \A y \in I : x <= y
    BY <2>1, <2>2, LeastNatural
  <2> QED
    BY <2>2 DEF Min
<1>4. e \notin ToSet(s) => I = {}
  BY <1>1
<1>5. e \in ToSet(s) => I # {}
  BY <1>1
<1> QED
  BY <1>2, <1>3, <1>4, <1>5

\* On a list without duplicates it takes out the element.
LEMMA RemoveFirstFacts ==
  ASSUME NEW S, NEW s \in Seq(S), NEW e, Distinct(s)
  PROVE  /\ RemoveFirst(s, e) \in Seq(S) /\ Distinct(RemoveFirst(s, e))
         /\ ToSet(RemoveFirst(s, e)) = ToSet(s) \ {e}
         /\ Len(RemoveFirst(s, e)) = IF e \in ToSet(s) THEN Len(s) - 1 ELSE Len(s)
<1>1. CASE e \notin ToSet(s)
  <2>1. RemoveFirst(s, e) = s
    BY <1>1, RemoveFirstIs
  <2> QED
    BY <1>1, <2>1
<1>2. CASE e \in ToSet(s)
  <2>1. PICK i \in 1 .. Len(s) : s[i] = e /\ RemoveFirst(s, e) = RemoveAt(s, i)
    BY <1>2, RemoveFirstIs
  <2>2. RemoveAt(s, i) \in Seq(S) /\ Len(RemoveAt(s, i)) = Len(s) - 1
    BY RemoveAtFacts
  <2>3. ToSet(RemoveAt(s, i)) = ToSet(s) \ {s[i]} /\ Distinct(RemoveAt(s, i))
    BY RemoveAtSet
  <2> QED
    BY <1>2, <2>1, <2>2, <2>3
<1> QED
  BY <1>1, <1>2

-----------------------------------------------------------------------------
\* The list of decorators (DecoratorSet).

\* The recursion of AddAll, of which the witness shows that it is well defined.
LEMMA AddAllIs ==
  ASSUME NEW D, NEW L, NEW w,
         w = [i \in 0 .. Len(L) |-> IF i = 0 THEN D ELSE Add(w[i - 1], L[i])]
  PROVE  \E f : /\ AddAll(D, L) = f[Len(L)]
                /\ \A i \in 0 .. Len(L) : f[i] = IF i = 0 THEN D ELSE Add(f[i - 1], L[i])
<1> DEFINE Is(f) == f = [i \in 0 .. Len(L) |-> IF i = 0 THEN D ELSE Add(f[i - 1], L[i])]
           at == CHOOSE f : Is(f)
<1>1. AddAll(D, L) = at[Len(L)]
  BY DEF AddAll
<1>2. Is(at)
  <2>1. Is(w)
    OBVIOUS
  <2> HIDE DEF Is
  <2> QED
    BY <2>1
<1> HIDE DEF at
<1>3. \A i \in 0 .. Len(L) : at[i] = IF i = 0 THEN D ELSE Add(at[i - 1], L[i])
  BY <1>2
<1> QED
  BY <1>1, <1>3

\* Likewise for RemoveAll.
LEMMA RemoveAllIs ==
  ASSUME NEW D, NEW L, NEW w,
         w = [i \in 0 .. Len(L) |-> IF i = 0 THEN D ELSE RemoveFirst(w[i - 1], L[i])]
  PROVE  \E f : /\ RemoveAll(D, L) = f[Len(L)]
                /\ \A i \in 0 .. Len(L) : f[i] = IF i = 0 THEN D ELSE RemoveFirst(f[i - 1], L[i])
<1> DEFINE Is(f) == f = [i \in 0 .. Len(L) |-> IF i = 0 THEN D ELSE RemoveFirst(f[i - 1], L[i])]
           at == CHOOSE f : Is(f)
<1>1. RemoveAll(D, L) = at[Len(L)]
  BY DEF RemoveAll
<1>2. Is(at)
  <2>1. Is(w)
    OBVIOUS
  <2> HIDE DEF Is
  <2> QED
    BY <2>1
<1> HIDE DEF at
<1>3. \A i \in 0 .. Len(L) : at[i] = IF i = 0 THEN D ELSE RemoveFirst(at[i - 1], L[i])
  BY <1>2
<1> QED
  BY <1>1, <1>3

\* What they do with the lists that the appliers have: nothing with none.
LEMMA NoneApplied ==
  ASSUME NEW D
  PROVE  AddAll(D, <<>>) = D /\ RemoveAll(D, <<>>) = D
<1> DEFINE w == [i \in 0 .. 0 |-> D]
           L == <<>>
<1>1. Len(L) = 0
  OBVIOUS
<1> HIDE DEF L
<1>2. w = [i \in 0 .. Len(L) |-> IF i = 0 THEN D ELSE Add(w[i - 1], L[i])]
  BY <1>1
<1>3. w = [i \in 0 .. Len(L) |-> IF i = 0 THEN D ELSE RemoveFirst(w[i - 1], L[i])]
  BY <1>1
<1> HIDE DEF w
<1>4. PICK f : /\ AddAll(D, L) = f[Len(L)]
               /\ \A i \in 0 .. Len(L) : f[i] = IF i = 0 THEN D ELSE Add(f[i - 1], L[i])
  BY <1>2, AddAllIs
<1>5. PICK g : /\ RemoveAll(D, L) = g[Len(L)]
               /\ \A i \in 0 .. Len(L) : g[i] = IF i = 0 THEN D ELSE RemoveFirst(g[i - 1], L[i])
  BY <1>3, RemoveAllIs
<1>6. f[0] = D /\ g[0] = D
  BY <1>1, <1>4, <1>5
<1> QED
  BY <1>1, <1>4, <1>5, <1>6 DEF L

\* One decorator is added,
LEMMA OneAdded ==
  ASSUME NEW D, NEW x
  PROVE  AddAll(D, <<x>>) = Add(D, x)
<1> DEFINE w == [i \in 0 .. 1 |-> IF i = 0 THEN D ELSE Add(D, x)]
           L == <<x>>
<1>1. Len(L) = 1 /\ L[1] = x
  OBVIOUS
<1> HIDE DEF L
<1>2. w = [i \in 0 .. Len(L) |-> IF i = 0 THEN D ELSE Add(w[i - 1], L[i])]
  BY <1>1
<1> HIDE DEF w
<1>3. PICK f : /\ AddAll(D, L) = f[Len(L)]
               /\ \A i \in 0 .. Len(L) : f[i] = IF i = 0 THEN D ELSE Add(f[i - 1], L[i])
  BY <1>2, AddAllIs
<1>4. f[0] = D /\ f[1] = Add(f[0], L[1])
  BY <1>1, <1>3
<1> QED
  BY <1>1, <1>3, <1>4 DEF L

\* or two,
LEMMA TwoAdded ==
  ASSUME NEW D, NEW x, NEW y
  PROVE  AddAll(D, <<x, y>>) = Add(Add(D, x), y)
<1> DEFINE w == [i \in 0 .. 2 |-> IF i = 0 THEN D ELSE IF i = 1 THEN Add(D, x) ELSE Add(Add(D, x), y)]
           L == <<x, y>>
<1>1. Len(L) = 2 /\ L[1] = x /\ L[2] = y
  OBVIOUS
<1> HIDE DEF L
<1>2. w = [i \in 0 .. Len(L) |-> IF i = 0 THEN D ELSE Add(w[i - 1], L[i])]
  BY <1>1
<1> HIDE DEF w
<1>3. PICK f : /\ AddAll(D, L) = f[Len(L)]
               /\ \A i \in 0 .. Len(L) : f[i] = IF i = 0 THEN D ELSE Add(f[i - 1], L[i])
  BY <1>2, AddAllIs
<1>4. f[0] = D /\ f[1] = Add(f[0], L[1]) /\ f[2] = Add(f[1], L[2])
  BY <1>1, <1>3
<1> QED
  BY <1>1, <1>3, <1>4 DEF L

\* and one is taken out.
LEMMA OneRemoved ==
  ASSUME NEW D, NEW x
  PROVE  RemoveAll(D, <<x>>) = RemoveFirst(D, x)
<1> DEFINE w == [i \in 0 .. 1 |-> IF i = 0 THEN D ELSE RemoveFirst(D, x)]
           L == <<x>>
<1>1. Len(L) = 1 /\ L[1] = x
  OBVIOUS
<1> HIDE DEF L
<1>2. w = [i \in 0 .. Len(L) |-> IF i = 0 THEN D ELSE RemoveFirst(w[i - 1], L[i])]
  BY <1>1
<1> HIDE DEF w
<1>3. PICK f : /\ RemoveAll(D, L) = f[Len(L)]
               /\ \A i \in 0 .. Len(L) : f[i] = IF i = 0 THEN D ELSE RemoveFirst(f[i - 1], L[i])
  BY <1>2, RemoveAllIs
<1>4. f[0] = D /\ f[1] = RemoveFirst(f[0], L[1])
  BY <1>1, <1>3
<1> QED
  BY <1>1, <1>3, <1>4 DEF L

\* A decorator is added at the end, so that the queue stays before those that
\* shrink it.
LEMMA AddFacts ==
  ASSUME NEW D, Good(D), NEW T \in Names, T \in Shrinkers => "expire_queue" \in ToSet(D)
  PROVE  /\ Good(Add(D, T))
         /\ ToSet(Add(D, T)) = ToSet(D) \union (IF T = "void" THEN {} ELSE {T})
<1> DEFINE n == Len(D)
<1>1. /\ D \in Seq(Names) /\ n \in Nat /\ \A i \in 1 .. n : D[i] \in ToSet(D)
      /\ \A x \in ToSet(D) : \E i \in 1 .. n : x = D[i]
  BY ToSetFacts DEF Good
<1>2. CASE T = "void" \/ T \in ToSet(D)
  BY <1>2 DEF Add
<1>3. CASE ~(T = "void" \/ T \in ToSet(D))
  <2>1. PICK t : t = Append(D, T)
    OBVIOUS
  <2>2. /\ t \in Seq(Names) /\ Len(t) = n + 1 /\ t[n + 1] = T
        /\ \A i \in 1 .. n : t[i] = D[i]
    BY <1>1, <2>1, AppendProperties
  <2>3. Add(D, T) = t
    BY <1>3, <2>1 DEF Add
  <2>4. ToSet(t) = ToSet(D) \union {T}
    <3>1. /\ \A i \in 1 .. n + 1 : t[i] \in ToSet(t)
          /\ \A x \in ToSet(t) : \E i \in 1 .. n + 1 : x = t[i]
      BY <2>2, ToSetFacts
    <3>2. \A i \in 1 .. n + 1 : i = n + 1 \/ i \in 1 .. n
      BY <1>1
    <3>3. \A i \in 1 .. n : i \in 1 .. n + 1
      BY <1>1
    <3>4. n + 1 \in 1 .. n + 1
      BY <1>1
    <3> HIDE DEF n
    <3>5. ToSet(t) \subseteq ToSet(D) \union {T}
      BY <1>1, <2>2, <3>1, <3>2
    <3>6. ToSet(D) \union {T} \subseteq ToSet(t)
      BY <1>1, <2>2, <3>1, <3>3, <3>4
    <3> QED
      BY <3>5, <3>6
  <2>5. Distinct(t)
    <3>1. SUFFICES ASSUME NEW i \in 1 .. n + 1, NEW j \in 1 .. n + 1, t[i] = t[j] PROVE i = j
      BY <2>2 DEF Distinct
    <3>2. \A a \in 1 .. n : t[a] # T
      BY <1>1, <1>3, <2>2
    <3>3. \A a \in 1 .. n, b \in 1 .. n : D[a] = D[b] => a = b
      BY DEF Good, Distinct
    <3>4. i = n + 1 \/ i \in 1 .. n
      BY <1>1
    <3>5. j = n + 1 \/ j \in 1 .. n
      BY <1>1
    <3> HIDE DEF n
    <3> QED
      BY <2>2, <3>1, <3>2, <3>3, <3>4, <3>5
  <2>6. Served(t)
    <3>1. SUFFICES ASSUME NEW i \in 1 .. n + 1, t[i] \in Shrinkers
                   PROVE  \E j \in 1 .. i - 1 : t[j] = "expire_queue"
      BY <2>2 DEF Served
    <3>2. CASE i = n + 1
      <4>1. PICK j \in 1 .. n : D[j] = "expire_queue"
        BY <1>1, <2>2, <3>1, <3>2
      <4>2. j \in 1 .. i - 1 /\ t[j] = D[j]
        BY <1>1, <2>2, <3>2
      <4> QED
        BY <4>1, <4>2
    <3>3. CASE i # n + 1
      <4>1. i \in 1 .. n /\ t[i] = D[i]
        BY <1>1, <2>2, <3>3
      <4>2. PICK j \in 1 .. i - 1 : D[j] = "expire_queue"
        BY <3>1, <4>1 DEF Good, Served
      <4>3. j \in 1 .. n
        BY <1>1, <4>1
      <4> QED
        BY <2>2, <4>2, <4>3
    <3> QED
      BY <3>2, <3>3
  <2> QED
    BY <1>3, <2>2, <2>3, <2>4, <2>5, <2>6 DEF Good
<1> QED
  BY <1>2, <1>3

\* Taking out weaken leaves the order of the others.
LEMMA RemoveFacts ==
  ASSUME NEW D, Good(D)
  PROVE  /\ Good(RemoveFirst(D, "weaken"))
         /\ ToSet(RemoveFirst(D, "weaken")) = ToSet(D) \ {"weaken"}
<1> DEFINE n == Len(D)
<1>1. D \in Seq(Names) /\ n \in Nat /\ Distinct(D)
  BY LenProperties DEF Good
<1>2. PICK t : t = RemoveFirst(D, "weaken")
  OBVIOUS
<1>3. t \in Seq(Names) /\ Distinct(t) /\ ToSet(t) = ToSet(D) \ {"weaken"}
  BY <1>1, <1>2, RemoveFirstFacts
<1>4. Served(t)
  <2>1. CASE "weaken" \notin ToSet(D)
    <3>1. t = D
      BY <1>1, <1>2, <2>1, RemoveFirstIs
    <3> QED
      BY <3>1 DEF Good
  <2>2. CASE "weaken" \in ToSet(D)
    <3>1. PICK p \in 1 .. n : D[p] = "weaken" /\ t = RemoveAt(D, p)
      BY <1>1, <1>2, <2>2, RemoveFirstIs
    <3>2. Len(t) = n - 1 /\ \A j \in 1 .. n - 1 : t[j] = IF j < p THEN D[j] ELSE D[j + 1]
      BY <1>1, <3>1, RemoveAtFacts
    <3>3. SUFFICES ASSUME NEW i \in 1 .. n - 1, t[i] \in Shrinkers
                   PROVE  \E j \in 1 .. i - 1 : t[j] = "expire_queue"
      BY <3>2 DEF Served
    <3>4. PICK m \in 1 .. n : t[i] = D[m] /\ m = IF i < p THEN i ELSE i + 1
      <4>1. (IF i < p THEN i ELSE i + 1) \in 1 .. n
        BY <1>1
      <4> QED
        BY <3>2, <4>1
    <3>5. PICK l \in 1 .. m - 1 : D[l] = "expire_queue"
      BY <3>3, <3>4 DEF Good, Served
    <3>6. l # p
      BY <3>1, <3>5
    <3>7. CASE l < p
      <4>1. l \in 1 .. i - 1 /\ l \in 1 .. n - 1
        BY <1>1, <3>4, <3>7
      <4> QED
        BY <3>2, <3>5, <3>7, <4>1
    <3>8. CASE l > p
      <4>1. l - 1 \in 1 .. i - 1 /\ l - 1 \in 1 .. n - 1 /\ ~(l - 1 < p) /\ (l - 1) + 1 = l
        BY <1>1, <3>4, <3>8
      <4>2. t[l - 1] = D[(l - 1) + 1]
        BY <3>2, <4>1
      <4> QED
        BY <3>5, <4>1, <4>2
    <3> QED
      BY <1>1, <3>6, <3>7, <3>8
  <2> QED
    BY <2>1, <2>2
<1> QED
  BY <1>2, <1>3, <1>4 DEF Good

\* An applier that adds one decorator, if at all.
LEMMA AppliedWhen ==
  ASSUME NEW D, Good(D), NEW cond \in BOOLEAN, NEW T \in Names \ Shrinkers
  PROVE  LET E == Applied(D, When(cond, <<T>>, <<>>))
         IN /\ Good(E)
            /\ ToSet(E) = ToSet(D) \union (IF cond /\ T # "void" THEN {T} ELSE {})
<1>1. Applied(D, When(cond, <<T>>, <<>>)) = IF cond THEN Add(D, T) ELSE D
  <2>1. When(cond, <<T>>, <<>>).remove = <<>>
    BY DEF When
  <2>2. When(cond, <<T>>, <<>>).add = IF cond THEN <<T>> ELSE <<>>
    BY DEF When
  <2>3. RemoveAll(D, <<>>) = D /\ AddAll(D, <<>>) = D
    BY NoneApplied
  <2>4. AddAll(D, <<T>>) = Add(D, T)
    BY OneAdded
  <2> QED
    BY <2>1, <2>2, <2>3, <2>4 DEF Applied
<1>2. Good(Add(D, T)) /\ ToSet(Add(D, T)) = ToSet(D) \union (IF T = "void" THEN {} ELSE {T})
  BY AddFacts
<1> QED
  BY <1>1, <1>2

\* An applier of a limit brings the queue and takes weaken away.
LEMMA AppliedShrinker ==
  ASSUME NEW D, Good(D), NEW limit, NEW T \in Shrinkers
  PROVE  LET E == Applied(D, Shrinker(limit, T))
         IN /\ Good(E)
            /\ ToSet(E) = IF limit = {} THEN ToSet(D)
                          ELSE (ToSet(D) \ {"weaken"}) \union {"expire_queue", T}
<1> DEFINE R == RemoveFirst(D, "weaken")
<1>1. Applied(D, Shrinker(limit, T)) = IF limit # {} THEN Add(Add(R, "expire_queue"), T) ELSE D
  <2>1. CASE limit = {}
    <3>1. Shrinker(limit, T).remove = <<>> /\ Shrinker(limit, T).add = <<>>
      BY <2>1 DEF Shrinker, When
    <3>2. RemoveAll(D, <<>>) = D /\ AddAll(D, <<>>) = D
      BY NoneApplied
    <3> QED
      BY <2>1, <3>1, <3>2 DEF Applied
  <2>2. CASE limit # {}
    <3>1. /\ Shrinker(limit, T).remove = <<"weaken">>
          /\ Shrinker(limit, T).add = <<"expire_queue", T>>
      BY <2>2 DEF Shrinker, When
    <3>2. RemoveAll(D, <<"weaken">>) = R
      BY OneRemoved
    <3> HIDE DEF R
    <3>3. AddAll(R, <<"expire_queue", T>>) = Add(Add(R, "expire_queue"), T)
      BY TwoAdded
    <3> QED
      BY <2>2, <3>1, <3>2, <3>3 DEF Applied
  <2> QED
    BY <2>1, <2>2
<1>2. Good(R) /\ ToSet(R) = ToSet(D) \ {"weaken"}
  BY RemoveFacts
<1> HIDE DEF R
<1>3. "expire_queue" \in Names /\ "expire_queue" \notin Shrinkers /\ T \in Names /\ T # "void"
  BY DEF Names, Shrinkers
<1>4. /\ Good(Add(R, "expire_queue"))
      /\ ToSet(Add(R, "expire_queue")) = ToSet(R) \union {"expire_queue"}
  BY <1>2, <1>3, AddFacts
<1>5. /\ Good(Add(Add(R, "expire_queue"), T))
      /\ ToSet(Add(Add(R, "expire_queue"), T)) = ToSet(Add(R, "expire_queue")) \union {T}
  BY <1>3, <1>4, AddFacts
<1> QED
  BY <1>1, <1>2, <1>4, <1>5

\* async is a flag.
Flagged(b) == b.async \in BOOLEAN

\* The key decorator and the decorator of the lock.
KeyOfCache(b) == IF b.key = "void" THEN "void" ELSE "key"
LockOf(b) == IF b.thread_safe THEN "mutex" ELSE "no_mutex"

\* The appliers one by one.
LEMMA ApplierList ==
  ASSUME NEW b
  PROVE  /\ Len(Appliers(b)) = 10
         /\ Appliers(b)[1] = When(TRUE, <<"weaken">>, <<>>)
         /\ Appliers(b)[2] = When(b.stats # {}, <<"stats">>, <<>>)
         /\ Appliers(b)[3] = When(b.async, <<"async">>, <<>>)
         /\ Appliers(b)[4] = When(b.max_age # {}, <<"max_age">>, <<>>)
         /\ Appliers(b)[5] = Shrinker(b.access_expire, "access_expire")
         /\ Appliers(b)[6] = When(TRUE, <<KeyOfCache(b)>>, <<>>)
         /\ Appliers(b)[7] = When(TRUE, <<LockOf(b)>>, <<>>)
         /\ Appliers(b)[8] = Shrinker(b.max_size, "max_size")
         /\ Appliers(b)[9] = Shrinker(b.max_memory, "max_memory")
         /\ Appliers(b)[10] = When(TRUE, <<"storage">>, <<>>)
BY DEF Appliers, KeyOfCache, LockOf

\* The decorators in the list after the i-th applier, with those of S before.
With(b, i, S) ==
  LET limited(limit, d) ==
        IF limit = {} THEN S ELSE (S \ {"weaken"}) \union {"expire_queue", d}
  IN CASE i = 1 -> S \union {"weaken"}
       [] i = 2 -> IF b.stats # {} THEN S \union {"stats"} ELSE S
       [] i = 3 -> IF b.async THEN S \union {"async"} ELSE S
       [] i = 4 -> IF b.max_age # {} THEN S \union {"max_age"} ELSE S
       [] i = 5 -> limited(b.access_expire, "access_expire")
       [] i = 6 -> IF KeyOfCache(b) # "void" THEN S \union {KeyOfCache(b)} ELSE S
       [] i = 7 -> S \union {LockOf(b)}
       [] i = 8 -> limited(b.max_size, "max_size")
       [] i = 9 -> limited(b.max_memory, "max_memory")
       [] i = 10 -> S \union {"storage"}

\* Every applier keeps the list good, and adds what its setting asks for.
LEMMA EveryApplier ==
  ASSUME NEW b, Flagged(b), NEW D, Good(D), NEW k \in 1 .. 10
  PROVE  /\ Good(Applied(D, Appliers(b)[k]))
         /\ ToSet(Applied(D, Appliers(b)[k])) = With(b, k, ToSet(D))
<1>1. {"access_expire", "max_size", "max_memory"} \subseteq Shrinkers
  BY DEF Shrinkers
<1>2. {"weaken", "stats", "async", "max_age", "key", "void", "mutex", "no_mutex", "storage"}
        \subseteq Names \ Shrinkers
  BY DEF Names, Shrinkers
<1>3. KeyOfCache(b) \in Names \ Shrinkers /\ LockOf(b) \in Names \ Shrinkers /\ LockOf(b) # "void"
  BY <1>2 DEF KeyOfCache, LockOf
<1>4. /\ TRUE \in BOOLEAN /\ (b.stats # {}) \in BOOLEAN /\ (b.max_age # {}) \in BOOLEAN
      /\ b.async \in BOOLEAN
  BY DEF Flagged
<1>5. ASSUME NEW cond \in BOOLEAN, NEW T \in Names \ Shrinkers
      PROVE  /\ Good(Applied(D, When(cond, <<T>>, <<>>)))
             /\ ToSet(Applied(D, When(cond, <<T>>, <<>>))) =
                  ToSet(D) \union (IF cond /\ T # "void" THEN {T} ELSE {})
  BY AppliedWhen
<1>6. ASSUME NEW limit, NEW T \in Shrinkers
      PROVE  /\ Good(Applied(D, Shrinker(limit, T)))
             /\ ToSet(Applied(D, Shrinker(limit, T))) =
                  IF limit = {} THEN ToSet(D)
                  ELSE (ToSet(D) \ {"weaken"}) \union {"expire_queue", T}
  BY AppliedShrinker
<1> DEFINE E(i) == Applied(D, Appliers(b)[i])
           S == ToSet(D)
<1>7. Good(E(1)) /\ ToSet(E(1)) = S \union {"weaken"}
  BY <1>2, <1>4, <1>5, ApplierList
<1>8. Good(E(2)) /\ ToSet(E(2)) = S \union (IF b.stats # {} THEN {"stats"} ELSE {})
  <2>1. E(2) = Applied(D, When(b.stats # {}, <<"stats">>, <<>>))
    BY ApplierList
  <2> QED
    BY <1>2, <1>4, <1>5, <2>1
<1>9. Good(E(3)) /\ ToSet(E(3)) = S \union (IF b.async THEN {"async"} ELSE {})
  <2>1. E(3) = Applied(D, When(b.async, <<"async">>, <<>>))
    BY ApplierList
  <2> QED
    BY <1>2, <1>4, <1>5, <2>1
<1>10. Good(E(4)) /\ ToSet(E(4)) = S \union (IF b.max_age # {} THEN {"max_age"} ELSE {})
  <2>1. E(4) = Applied(D, When(b.max_age # {}, <<"max_age">>, <<>>))
    BY ApplierList
  <2> QED
    BY <1>2, <1>4, <1>5, <2>1
<1>11. /\ Good(E(5))
       /\ ToSet(E(5)) = IF b.access_expire = {} THEN S
                        ELSE (S \ {"weaken"}) \union {"expire_queue", "access_expire"}
  <2>1. E(5) = Applied(D, Shrinker(b.access_expire, "access_expire"))
    BY ApplierList
  <2>2. PICK limit : limit = b.access_expire
    OBVIOUS
  <2>3. PICK F : F = Applied(D, Shrinker(limit, "access_expire"))
    OBVIOUS
  <2>4. /\ Good(F)
        /\ ToSet(F) = IF limit = {} THEN ToSet(D)
                      ELSE (ToSet(D) \ {"weaken"}) \union {"expire_queue", "access_expire"}
    BY <1>1, <1>6, <2>3
  <2> QED
    BY <2>1, <2>2, <2>3, <2>4
<1>12. /\ Good(E(6))
       /\ ToSet(E(6)) = S \union (IF KeyOfCache(b) # "void" THEN {KeyOfCache(b)} ELSE {})
  <2>1. E(6) = Applied(D, When(TRUE, <<KeyOfCache(b)>>, <<>>))
    BY ApplierList
  <2> QED
    BY <1>3, <1>4, <1>5, <2>1
<1>13. Good(E(7)) /\ ToSet(E(7)) = S \union {LockOf(b)}
  <2>1. E(7) = Applied(D, When(TRUE, <<LockOf(b)>>, <<>>))
    BY ApplierList
  <2> QED
    BY <1>3, <1>4, <1>5, <2>1
<1>14. /\ Good(E(8))
       /\ ToSet(E(8)) = IF b.max_size = {} THEN S
                        ELSE (S \ {"weaken"}) \union {"expire_queue", "max_size"}
  <2>1. E(8) = Applied(D, Shrinker(b.max_size, "max_size"))
    BY ApplierList
  <2>2. PICK limit : limit = b.max_size
    OBVIOUS
  <2>3. PICK F : F = Applied(D, Shrinker(limit, "max_size"))
    OBVIOUS
  <2>4. /\ Good(F)
        /\ ToSet(F) = IF limit = {} THEN ToSet(D)
                      ELSE (ToSet(D) \ {"weaken"}) \union {"expire_queue", "max_size"}
    BY <1>1, <1>6, <2>3
  <2> QED
    BY <2>1, <2>2, <2>3, <2>4
<1>15. /\ Good(E(9))
       /\ ToSet(E(9)) = IF b.max_memory = {} THEN S
                        ELSE (S \ {"weaken"}) \union {"expire_queue", "max_memory"}
  <2>1. E(9) = Applied(D, Shrinker(b.max_memory, "max_memory"))
    BY ApplierList
  <2>2. PICK limit : limit = b.max_memory
    OBVIOUS
  <2>3. PICK F : F = Applied(D, Shrinker(limit, "max_memory"))
    OBVIOUS
  <2>4. /\ Good(F)
        /\ ToSet(F) = IF limit = {} THEN ToSet(D)
                      ELSE (ToSet(D) \ {"weaken"}) \union {"expire_queue", "max_memory"}
    BY <1>1, <1>6, <2>3
  <2> QED
    BY <2>1, <2>2, <2>3, <2>4
<1>16. Good(E(10)) /\ ToSet(E(10)) = S \union {"storage"}
  BY <1>2, <1>4, <1>5, ApplierList
<1> HIDE DEF E, S
<1>17. /\ Good(E(1)) /\ Good(E(2)) /\ Good(E(3)) /\ Good(E(4)) /\ Good(E(5)) /\ Good(E(6))
       /\ Good(E(7)) /\ Good(E(8)) /\ Good(E(9)) /\ Good(E(10))
  BY <1>7, <1>8, <1>9, <1>10, <1>11, <1>12, <1>13, <1>14, <1>15, <1>16
<1>18. /\ ToSet(E(1)) = With(b, 1, S) /\ ToSet(E(2)) = With(b, 2, S)
       /\ ToSet(E(3)) = With(b, 3, S) /\ ToSet(E(4)) = With(b, 4, S)
       /\ ToSet(E(5)) = With(b, 5, S) /\ ToSet(E(6)) = With(b, 6, S)
       /\ ToSet(E(7)) = With(b, 7, S) /\ ToSet(E(8)) = With(b, 8, S)
       /\ ToSet(E(9)) = With(b, 9, S) /\ ToSet(E(10)) = With(b, 10, S)
  <2>1. ToSet(E(1)) = With(b, 1, S)
    BY <1>7 DEF With
  <2>2. ToSet(E(2)) = With(b, 2, S)
    BY <1>8 DEF With
  <2>3. ToSet(E(3)) = With(b, 3, S)
    BY <1>9 DEF With
  <2>4. ToSet(E(4)) = With(b, 4, S)
    BY <1>10 DEF With
  <2>5. ToSet(E(5)) = With(b, 5, S)
    BY <1>11 DEF With
  <2>6. ToSet(E(6)) = With(b, 6, S)
    BY <1>12 DEF With
  <2>7. ToSet(E(7)) = With(b, 7, S)
    BY <1>13 DEF With
  <2>8. ToSet(E(8)) = With(b, 8, S)
    BY <1>14 DEF With
  <2>9. ToSet(E(9)) = With(b, 9, S)
    BY <1>15 DEF With
  <2>10. ToSet(E(10)) = With(b, 10, S)
    BY <1>16 DEF With
  <2> QED
    BY <2>1, <2>2, <2>3, <2>4, <2>5, <2>6, <2>7, <2>8, <2>9, <2>10
<1>19. k \in {1, 2, 3, 4, 5, 6, 7, 8, 9, 10}
  OBVIOUS
<1>20. Good(E(k)) /\ ToSet(E(k)) = With(b, k, S)
  BY <1>17, <1>18, <1>19
<1> QED
  BY <1>20 DEF E, S

\* What build() makes of the settings b: each decorator once, the queue before
\* those that shrink it, a decorator for each limit and for the statistics, and
\* either the queue, if there is a limit, or the decorator that weakens.
LEMMA DecoratorFacts ==
  ASSUME NEW b, Flagged(b)
  PROVE  LET D == Decorators(b)
             S == ToSet(D)
         IN /\ Good(D)
            /\ "stats" \in S <=> b.stats # {}
            /\ "access_expire" \in S <=> b.access_expire # {}
            /\ "max_size" \in S <=> b.max_size # {}
            /\ "max_memory" \in S <=> b.max_memory # {}
            /\ "expire_queue" \in S <=>
                 b.access_expire # {} \/ b.max_size # {} \/ b.max_memory # {}
            /\ "weaken" \in S <=> "expire_queue" \notin S
<1> DEFINE A == Appliers(b)
           X == {D \in Seq(Names) : Good(D)}
           F == [i \in 1 .. 10 |-> [D \in X |-> Applied(D, A[i])]]
           Makes(f) == f = [i \in 0 .. Len(A) |-> IF i = 0 THEN <<>> ELSE Applied(f[i - 1], A[i])]
           at == CHOOSE f : Makes(f)
<1>1. Len(A) = 10
  BY ApplierList
<1>2. \A D \in X, i \in 1 .. 10 : Applied(D, A[i]) \in X
  <2>1. SUFFICES ASSUME NEW D \in X, NEW i \in 1 .. 10 PROVE Good(Applied(D, A[i]))
    BY DEF Good
  <2>2. Good(D)
    OBVIOUS
  <2> HIDE DEF X, A, at
  <2>3. Good(Applied(D, Appliers(b)[i]))
    BY <2>2, EveryApplier
  <2> QED
    BY <2>3 DEF A
<1>3. <<>> \in X /\ ToSet(<<>>) = {}
  <2>1. ToSet(<<>>) = {}
    BY DEF ToSet
  <2> QED
    BY <2>1 DEF Good, Distinct, Served
<1> HIDE DEF A, X
<1>4. F \in [1 .. 10 -> [X -> X]] /\ 10 \in Nat
  BY <1>2
<1>5. PICK g \in [0 .. 10 -> X] : g[0] = <<>> /\ \A i \in 1 .. 10 : g[i] = F[i][g[i - 1]]
  <2> HIDE DEF F
  <2>1. \E g : Recursion(g, X, <<>>, 10, F)
    BY <1>3, <1>4, RecursionExists
  <2> QED
    BY <2>1 DEF Recursion
<1>6. Makes(g)
  <2>1. ASSUME NEW i \in 0 .. 10
        PROVE  g[i] = IF i = 0 THEN <<>> ELSE Applied(g[i - 1], A[i])
    <3>1. CASE i = 0
      BY <1>5, <3>1
    <3>2. CASE i # 0
      <4>1. i \in 1 .. 10 /\ i - 1 \in 0 .. 10
        BY <3>2
      <4>2. g[i - 1] \in X /\ g[i] = F[i][g[i - 1]]
        BY <1>5, <4>1
      <4> QED
        BY <3>2, <4>1, <4>2
    <3> QED
      BY <3>1, <3>2
  <2>2. g = [i \in 0 .. 10 |-> g[i]]
    OBVIOUS
  <2> QED
    BY <1>1, <2>1, <2>2
<1>7. Makes(at)
  <2> HIDE DEF Makes
  <2> QED
    BY <1>6
<1>8. Decorators(b) = at[10]
  BY <1>1 DEF Decorators, A
<1> HIDE DEF at
<1>9. \A i \in 0 .. 10 : at[i] = IF i = 0 THEN <<>> ELSE Applied(at[i - 1], A[i])
  BY <1>1, <1>7
<1> DEFINE S(i) == ToSet(at[i])
<1>10. at[0] = <<>> /\ \A i \in 1 .. 10 : i - 1 \in 0 .. 10 /\ at[i] = Applied(at[i - 1], A[i])
  BY <1>9
<1>11. \A i \in 0 .. 10 : Good(at[i])
  <2>1. \A i \in 0 .. 10 : at[i] = g[i]
    <3> DEFINE Bad == {i \in 0 .. 10 : at[i] # g[i]}
    <3>1. SUFFICES ASSUME Bad # {} PROVE FALSE
      OBVIOUS
    <3>2. PICK i \in Bad : \A j \in Bad : i <= j
      <4>1. Bad \subseteq Nat
        OBVIOUS
      <4> HIDE DEF Bad
      <4> QED
        BY <3>1, <4>1, LeastNatural
    <3>3. i \in 0 .. 10 /\ at[i] # g[i] /\ i # 0
      BY <1>5, <1>10, <3>2
    <3>4. i \in 1 .. 10 /\ i - 1 \in 0 .. 10 /\ ~(i <= i - 1)
      BY <3>3
    <3>5. at[i - 1] = g[i - 1]
      BY <3>2, <3>4
    <3>6. g[i] = Applied(g[i - 1], A[i])
      BY <1>5, <3>4
    <3> QED
      BY <1>10, <3>3, <3>4, <3>5, <3>6
  <2> QED
    BY <1>5, <2>1 DEF X
<1>12. S(0) = {}
  BY <1>3, <1>10
<1>13. ASSUME NEW i \in 1 .. 10
       PROVE  S(i) = With(b, i, S(i - 1))
  <2>1. PICK D : D = at[i - 1]
    OBVIOUS
  <2>2. Good(D) /\ at[i] = Applied(D, A[i])
    BY <1>10, <1>11, <2>1
  <2>3. ToSet(Applied(D, Appliers(b)[i])) = With(b, i, ToSet(D))
    BY <2>2, EveryApplier
  <2> QED
    BY <2>1, <2>2, <2>3 DEF A
<1> HIDE DEF S
<1>14. /\ S(1) = With(b, 1, S(0)) /\ S(2) = With(b, 2, S(1)) /\ S(3) = With(b, 3, S(2))
       /\ S(4) = With(b, 4, S(3)) /\ S(5) = With(b, 5, S(4)) /\ S(6) = With(b, 6, S(5))
       /\ S(7) = With(b, 7, S(6)) /\ S(8) = With(b, 8, S(7)) /\ S(9) = With(b, 9, S(8))
       /\ S(10) = With(b, 10, S(9))
  BY <1>13
<1>15. KeyOfCache(b) \in {"key", "void"} /\ LockOf(b) \in {"mutex", "no_mutex"}
  BY DEF KeyOfCache, LockOf
<1>16. /\ S(1) = {"weaken"}
       /\ S(2) = IF b.stats # {} THEN S(1) \union {"stats"} ELSE S(1)
       /\ S(3) = IF b.async THEN S(2) \union {"async"} ELSE S(2)
       /\ S(4) = IF b.max_age # {} THEN S(3) \union {"max_age"} ELSE S(3)
       /\ S(5) = IF b.access_expire = {} THEN S(4)
                 ELSE (S(4) \ {"weaken"}) \union {"expire_queue", "access_expire"}
  BY <1>12, <1>14 DEF With
<1>17. /\ S(6) = IF KeyOfCache(b) # "void" THEN S(5) \union {KeyOfCache(b)} ELSE S(5)
       /\ S(7) = S(6) \union {LockOf(b)}
       /\ S(8) = IF b.max_size = {} THEN S(7)
                 ELSE (S(7) \ {"weaken"}) \union {"expire_queue", "max_size"}
       /\ S(9) = IF b.max_memory = {} THEN S(8)
                 ELSE (S(8) \ {"weaken"}) \union {"expire_queue", "max_memory"}
       /\ S(10) = S(9) \union {"storage"}
  BY <1>14 DEF With
<1>18. "stats" \in S(10) <=> b.stats # {}
  BY <1>15, <1>16, <1>17
<1>19. /\ "access_expire" \in S(10) <=> b.access_expire # {}
       /\ "max_size" \in S(10) <=> b.max_size # {}
       /\ "max_memory" \in S(10) <=> b.max_memory # {}
  BY <1>15, <1>16, <1>17
<1>20. "expire_queue" \in S(10) <=> b.access_expire # {} \/ b.max_size # {} \/ b.max_memory # {}
  BY <1>15, <1>16, <1>17
<1>21. "weaken" \in S(10) <=> "expire_queue" \notin S(10)
  BY <1>15, <1>16, <1>17
<1>22. Good(at[10])
  BY <1>11
<1> QED
  BY <1>8, <1>18, <1>19, <1>20, <1>21, <1>22 DEF S

-----------------------------------------------------------------------------
\* The state of a cache (Decorated).

TimePoints == -Horizon .. Horizon - 1

CacheType ==
  [ chain : Seq(Addr), queue : Queues(Addr), strong : SUBSET Addr,
    key : [Addr -> Keys \union {None}],
    age : [Addr -> TimePoints], access : [Addr -> TimePoints],
    hits : Nat, misses : Nat, deletes : Nat ]

\* No element is in the bucket or on the queue twice, and the queue is balanced.
Sound(c) == c \in CacheType /\ Distinct(c.chain) /\ NoDup(c.queue) /\ IsBalanced(c.queue)

\* d is c without the elements of E, which were erased.
Erased(c, d, E) ==
  /\ Sound(d)
  /\ ToSet(d.chain) = ToSet(c.chain) \ E
  /\ Queued(d.queue) = Queued(c.queue) \ E
  /\ d.strong = c.strong \ E
  /\ \A x \in Addr \ E :
       d.key[x] = c.key[x] /\ d.age[x] = c.age[x] /\ d.access[x] = c.access[x]
  /\ d.hits = c.hits /\ d.misses = c.misses
  /\ Has("stats") => d.deletes + Len(d.chain) = c.deletes + Len(c.chain)

\* A time point that is computed is one that can be represented.
LEMMA UntilFacts ==
  ASSUME NEW t \in Nat, NEW S, S \subseteq Nat
  PROVE  Until(t, S) \in TimePoints
<1>1. Horizon \in Nat /\ Horizon > 0 /\ 2 * Horizon \in Nat \ {0}
  BY TimeAssumption
<1>2. ASSUME NEW x \in Nat, NEW m \in Nat \ {0} PROVE x % m \in 0 .. m - 1
  BY <1>2
<1>3. CASE S = {}
  BY <1>1, <1>3 DEF Until, TimePoints
<1>4. CASE S # {}
  <2>1. PICK d \in Nat : Until(t, S) = ((t + d + Horizon) % (2 * Horizon)) - Horizon
    BY <1>4 DEF Until
  <2>2. t + d + Horizon \in Nat
    BY <1>1, <2>1
  <2>3. (t + d + Horizon) % (2 * Horizon) \in 0 .. (2 * Horizon) - 1
    BY <1>1, <1>2, <2>2
  <2> QED
    BY <1>1, <2>1, <2>3 DEF TimePoints
<1> QED
  BY <1>3, <1>4

\* d is c with these fields.
Updated(c, d, ch, q, st, k, ag, ac, n) ==
  d = [c EXCEPT !.chain = ch, !.queue = q, !.strong = st, !.key = k,
                !.age = ag, !.access = ac, !.deletes = n]

\* A cache whose fields are replaced by others of their types.
LEMMA UpdatedCache ==
  ASSUME NEW c \in CacheType, NEW ch \in Seq(Addr), NEW q \in Queues(Addr),
         NEW st \in SUBSET Addr, NEW k \in [Addr -> Keys \union {None}],
         NEW ag \in [Addr -> TimePoints], NEW ac \in [Addr -> TimePoints], NEW n \in Nat,
         NEW d, Updated(c, d, ch, q, st, k, ag, ac, n)
  PROVE  /\ d \in CacheType
         /\ d.chain = ch /\ d.queue = q /\ d.strong = st /\ d.key = k /\ d.age = ag
         /\ d.access = ac /\ d.deletes = n /\ d.hits = c.hits /\ d.misses = c.misses
BY DEF CacheType, Updated

\* Erasing one element, of the bucket.
LEMMA EraseFacts ==
  ASSUME NEW c, Sound(c), NEW e \in Addr
  PROVE  /\ Sound(Erase(c, e))
         /\ e \in ToSet(c.chain) => Erased(c, Erase(c, e), {e})
<1> DEFINE d == Erase(c, e)
<1>1. /\ c.chain \in Seq(Addr) /\ c.queue \in Queues(Addr) /\ c.strong \subseteq Addr
      /\ c.key \in [Addr -> Keys \union {None}]
      /\ c.age \in [Addr -> TimePoints] /\ c.access \in [Addr -> TimePoints]
      /\ c.hits \in Nat /\ c.misses \in Nat /\ c.deletes \in Nat
  BY DEF Sound, CacheType
<1>2. Len(c.chain) \in Nat
  BY <1>1, ToSetFacts
<1>3. PICK ch, q, st, k, ag, ac, n :
        /\ ch = RemoveFirst(c.chain, e) /\ q = Unlink(c.queue, e) /\ st = c.strong \ {e}
        /\ k = [c.key EXCEPT ![e] = None]
        /\ ag = [c.age EXCEPT ![e] = 0] /\ ac = [c.access EXCEPT ![e] = 0]
        /\ n = IF Has("stats") THEN c.deletes + 1 ELSE c.deletes
  OBVIOUS
<1>4. Updated(c, d, ch, q, st, k, ag, ac, n)
  BY <1>3 DEF Erase, Updated
<1> HIDE DEF d
<1>5. /\ ch \in Seq(Addr) /\ Distinct(ch) /\ ToSet(ch) = ToSet(c.chain) \ {e}
      /\ e \in ToSet(c.chain) => Len(ch) = Len(c.chain) - 1
  <2>1. Distinct(c.chain)
    BY DEF Sound
  <2> QED
    BY <1>1, <1>3, <2>1, RemoveFirstFacts
<1>6. /\ q \in Queues(Addr) /\ NoDup(q) /\ IsBalanced(q)
      /\ Queued(q) = Queued(c.queue) \ {e}
  <2>1. NoDup(c.queue) /\ IsBalanced(c.queue)
    BY DEF Sound
  <2> QED
    BY <1>1, <1>3, <2>1, UnlinkFacts
<1>7. /\ st \in SUBSET Addr /\ k \in [Addr -> Keys \union {None}] /\ n \in Nat
      /\ ag \in [Addr -> TimePoints] /\ ac \in [Addr -> TimePoints]
  <2>1. 0 \in TimePoints
    BY TimeAssumption DEF TimePoints
  <2>2. k \in [Addr -> Keys \union {None}]
    BY <1>1, <1>3
  <2>3. ag \in [Addr -> TimePoints] /\ ac \in [Addr -> TimePoints]
    BY <1>1, <1>3, <2>1
  <2>4. n \in Nat
    BY <1>1, <1>3
  <2> QED
    BY <1>1, <1>3, <2>2, <2>3, <2>4
<1>8. c \in CacheType
  BY DEF Sound
<1>9. d \in CacheType
  BY <1>4, <1>5, <1>6, <1>7, <1>8, UpdatedCache
<1>10. /\ d.chain = ch /\ d.queue = q /\ d.strong = st /\ d.key = k /\ d.age = ag
       /\ d.access = ac /\ d.deletes = n /\ d.hits = c.hits /\ d.misses = c.misses
  BY <1>4, <1>5, <1>6, <1>7, <1>8, UpdatedCache
<1>11. \A x \in Addr \ {e} :
         d.key[x] = c.key[x] /\ d.age[x] = c.age[x] /\ d.access[x] = c.access[x]
  BY <1>1, <1>3, <1>10
<1>12. Has("stats") /\ e \in ToSet(c.chain) => d.deletes + Len(d.chain) = c.deletes + Len(c.chain)
  <2>1. SUFFICES ASSUME Has("stats"), e \in ToSet(c.chain) PROVE n + Len(ch) = c.deletes + Len(c.chain)
    BY <1>10
  <2>2. n = c.deletes + 1
    BY <1>3, <2>1
  <2>3. Len(ch) \in Nat
    BY <1>5, ToSetFacts
  <2>4. Len(ch) = Len(c.chain) - 1
    BY <1>5, <2>1
  <2>5. c.deletes \in Nat
    BY <1>1
  <2> QED
    BY <1>2, <2>2, <2>3, <2>4, <2>5
<1> QED
  BY <1>3, <1>5, <1>6, <1>9, <1>10, <1>11, <1>12 DEF Erased, Sound, d

\* Erasing one more element.
LEMMA EraseMore ==
  ASSUME NEW c, Sound(c), NEW d, NEW E, Erased(c, d, E), NEW x \in ToSet(c.chain), x \notin E
  PROVE  Erased(c, Erase(d, x), E \union {x})
<1>1. c.chain \in Seq(Addr) /\ ToSet(c.chain) \subseteq Addr
  BY ToSetFacts DEF Sound, CacheType
<1>2. Sound(d) /\ ToSet(d.chain) = ToSet(c.chain) \ E /\ x \in ToSet(d.chain)
  BY DEF Erased
<1>3. PICK f : f = Erase(d, x)
  OBVIOUS
<1>4. Erased(d, f, {x})
  BY <1>1, <1>2, <1>3, EraseFacts
<1>5. /\ Sound(f)
      /\ ToSet(f.chain) = ToSet(c.chain) \ (E \union {x})
      /\ Queued(f.queue) = Queued(c.queue) \ (E \union {x})
      /\ f.strong = c.strong \ (E \union {x})
  BY <1>4 DEF Erased
<1>6. \A y \in Addr \ (E \union {x}) :
        f.key[y] = c.key[y] /\ f.age[y] = c.age[y] /\ f.access[y] = c.access[y]
  BY <1>4 DEF Erased
<1>7. f.hits = c.hits /\ f.misses = c.misses
  BY <1>4 DEF Erased
<1>8. Has("stats") => f.deletes + Len(f.chain) = c.deletes + Len(c.chain)
  BY <1>4 DEF Erased
<1> QED
  BY <1>3, <1>5, <1>6, <1>7, <1>8 DEF Erased

\* Erasing nothing.
LEMMA EraseNone ==
  ASSUME NEW c, Sound(c)
  PROVE  Erased(c, c, {})
BY DEF Erased

\* Erasing elements in the order of the bucket erases each of them once.
LEMMA EraseAllFacts ==
  ASSUME NEW c, Sound(c), NEW D, D \subseteq ToSet(c.chain)
  PROVE  Erased(c, EraseAll(c, D), D)
<1> DEFINE s == c.chain
           n == Len(s)
           X == {d \in CacheType : Sound(d)}
           F == [i \in 1 .. n |-> [d \in X |-> IF s[i] \in D THEN Erase(d, s[i]) ELSE d]]
           Goes(f) == f = [i \in 0 .. n |->
                             IF i = 0 THEN c
                             ELSE IF s[i] \in D THEN Erase(f[i - 1], s[i]) ELSE f[i - 1]]
           at == CHOOSE f : Goes(f)
<1>1. /\ s \in Seq(Addr) /\ n \in Nat /\ Distinct(s) /\ ToSet(s) \subseteq Addr
      /\ \A i \in 1 .. n : s[i] \in ToSet(s) /\ s[i] \in Addr
      /\ \A x \in ToSet(s) : \E i \in 1 .. n : x = s[i]
  <2>1. s \in Seq(Addr) /\ Distinct(s)
    BY DEF Sound, CacheType
  <2> HIDE DEF s
  <2> QED
    BY <2>1, ToSetFacts
<1>2. c \in X
  BY DEF Sound
<1>3. EraseAll(c, D) = at[n]
  BY DEF EraseAll
<1> HIDE DEF s, n
<1>4. F \in [1 .. n -> [X -> X]]
  <2>1. ASSUME NEW d \in X, NEW i \in 1 .. n PROVE Erase(d, s[i]) \in X
    <3>1. s[i] \in Addr /\ Sound(d)
      BY <1>1
    <3>2. Sound(Erase(d, s[i]))
      BY <3>1, EraseFacts
    <3> QED
      BY <3>2 DEF Sound
  <2> HIDE DEF X
  <2> QED
    BY <2>1
<1> HIDE DEF X
<1>5. PICK g \in [0 .. n -> X] : g[0] = c /\ \A i \in 1 .. n : g[i] = F[i][g[i - 1]]
  <2> HIDE DEF F
  <2>1. \E g : Recursion(g, X, c, n, F)
    BY <1>1, <1>2, <1>4, RecursionExists
  <2> QED
    BY <2>1 DEF Recursion
<1>6. Goes(g)
  <2>1. ASSUME NEW i \in 0 .. n
        PROVE  g[i] = IF i = 0 THEN c
                      ELSE IF s[i] \in D THEN Erase(g[i - 1], s[i]) ELSE g[i - 1]
    <3>1. CASE i = 0
      BY <1>5, <3>1
    <3>2. CASE i # 0
      <4>1. i \in 1 .. n /\ i - 1 \in 0 .. n
        BY <1>1, <3>2
      <4>2. g[i - 1] \in X /\ g[i] = F[i][g[i - 1]]
        BY <1>5, <4>1
      <4> QED
        BY <3>2, <4>1, <4>2
    <3> QED
      BY <3>1, <3>2
  <2>2. g = [i \in 0 .. n |-> g[i]]
    OBVIOUS
  <2> QED
    BY <2>1, <2>2
<1>7. Goes(at)
  <2> HIDE DEF Goes
  <2> QED
    BY <1>6
<1> HIDE DEF at
<1>8. \A i \in 0 .. n : at[i] = IF i = 0 THEN c
                                ELSE IF s[i] \in D THEN Erase(at[i - 1], s[i]) ELSE at[i - 1]
  BY <1>7
<1> DEFINE G(i) == {x \in D : \E j \in 1 .. i : x = s[j]}
<1>9. \A i \in 0 .. n : Erased(c, at[i], G(i))
  <2> DEFINE Bad == {i \in 0 .. n : ~Erased(c, at[i], G(i))}
  <2>1. SUFFICES ASSUME Bad # {} PROVE FALSE
    OBVIOUS
  <2>2. PICK i \in Bad : \A j \in Bad : i <= j
    <3>1. Bad \subseteq Nat
      BY <1>1
    <3> HIDE DEF Bad
    <3> QED
      BY <2>1, <3>1, LeastNatural
  <2>3. i \in 0 .. n /\ ~Erased(c, at[i], G(i))
    BY <2>2
  <2>4. CASE i = 0
    <3>1. at[0] = c /\ G(0) = {}
      BY <1>1, <1>8, <2>3, <2>4
    <3> HIDE DEF G
    <3> QED
      BY <2>3, <2>4, <3>1, EraseNone
  <2>5. CASE i # 0
    <3>1. i - 1 \in 0 .. n /\ ~(i <= i - 1) /\ i \in 1 .. n
      BY <1>1, <2>3, <2>5
    <3>2. Erased(c, at[i - 1], G(i - 1))
      BY <2>2, <3>1
    <3>3. \A j \in 1 .. i : j = i \/ j \in 1 .. i - 1
      BY <3>1
    <3>4. \A j \in 1 .. i - 1 : j \in 1 .. i /\ j # i /\ j \in 1 .. n
      BY <1>1, <3>1
    <3>5. i \in 1 .. i
      BY <1>1, <3>1
    <3>6. CASE s[i] \notin D
      <4>1. at[i] = at[i - 1]
        BY <1>8, <2>3, <2>5, <3>6
      <4>2. G(i) = G(i - 1)
        BY <3>3, <3>4, <3>6
      <4> HIDE DEF G
      <4> QED
        BY <2>3, <3>2, <4>1, <4>2
    <3>7. CASE s[i] \in D
      <4>1. at[i] = Erase(at[i - 1], s[i])
        BY <1>8, <2>3, <2>5, <3>7
      <4>2. G(i) = G(i - 1) \union {s[i]}
        BY <3>3, <3>4, <3>5, <3>7
      <4>3. s[i] \notin G(i - 1)
        <5>1. \A j \in 1 .. i - 1 : s[j] # s[i]
          BY <1>1, <3>1, <3>4 DEF Distinct, n
        <5> QED
          BY <5>1
      <4>4. s[i] \in ToSet(c.chain)
        BY <1>1, <3>1 DEF s
      <4> HIDE DEF G
      <4>5. PICK E : E = G(i - 1)
        OBVIOUS
      <4>6. Erased(c, Erase(at[i - 1], s[i]), E \union {s[i]})
        BY <3>2, <4>3, <4>4, <4>5, EraseMore
      <4> QED
        BY <2>3, <4>1, <4>2, <4>5, <4>6
    <3> QED
      BY <3>6, <3>7
  <2> QED
    BY <2>4, <2>5
<1>10. G(n) = D
  BY <1>1 DEF s
<1>11. n \in 0 .. n
  BY <1>1
<1> HIDE DEF G
<1> QED
  BY <1>3, <1>9, <1>10, <1>11

-----------------------------------------------------------------------------
\* The callbacks.

\* d is c with another queue and other strong pointers.
Requeued(c, d, q, s) ==
  /\ d \in CacheType /\ d.queue = q /\ d.strong = s
  /\ d.chain = c.chain /\ d.key = c.key /\ d.age = c.age /\ d.access = c.access
  /\ d.hits = c.hits /\ d.misses = c.misses /\ d.deletes = c.deletes

\* How the callbacks make such a cache.
LEMMA RequeuedForms ==
  ASSUME NEW c \in CacheType, NEW q \in Queues(Addr), NEW s \in SUBSET Addr
  PROVE  /\ Requeued(c, [c EXCEPT !.queue = q, !.strong = s], q, s)
         /\ Requeued(c, [c EXCEPT !.queue = q], q, c.strong)
         /\ Requeued(c, [c EXCEPT !.strong = s], c.queue, s)
<1>1. /\ [c EXCEPT !.queue = q, !.strong = s] \in CacheType
      /\ [c EXCEPT !.queue = q] \in CacheType
      /\ [c EXCEPT !.strong = s] \in CacheType
  BY DEF CacheType
<1> QED
  BY <1>1 DEF CacheType, Requeued

\* d is c after a callback dropped elements other than e: those left are as they
\* were, those on the queue are the strong ones, and the erased ones are counted.
Trimmed(c, d, e) ==
  /\ Sound(d) /\ e \in ToSet(d.chain) /\ ToSet(d.chain) \subseteq ToSet(c.chain)
  /\ Queued(d.queue) \subseteq ToSet(d.chain) /\ d.strong = Queued(d.queue)
  /\ \A x \in ToSet(d.chain) : d.age[x] = c.age[x] /\ d.access[x] = c.access[x]
  /\ d.hits = c.hits /\ d.misses = c.misses
  /\ Has("stats") => d.deletes + Len(d.chain) = c.deletes + Len(c.chain)

\* The elements of D may be erased from a cache with queue q and strong elements s.
Leaving(c, q, s, D, e) ==
  /\ NoDup(q) /\ IsBalanced(q) /\ Queued(q) \subseteq ToSet(c.chain)
  /\ D \subseteq ToSet(c.chain) /\ e \in ToSet(c.chain) \ D /\ s \ D = Queued(q) \ D

\* Erasing them trims the cache.
LEMMA EraseTrims ==
  ASSUME NEW c, Sound(c), NEW f, NEW q, NEW s, Requeued(c, f, q, s),
         NEW D, NEW e, Leaving(c, q, s, D, e)
  PROVE  /\ Trimmed(c, EraseAll(f, D), e)
         /\ Queued(EraseAll(f, D).queue) = Queued(q) \ D
<1>1. Sound(f) /\ f.queue = q /\ f.strong = s /\ f.chain = c.chain
  BY DEF Sound, Requeued, Leaving
<1>2. PICK d : d = EraseAll(f, D)
  OBVIOUS
<1>3. Erased(f, d, D)
  BY <1>1, <1>2, EraseAllFacts DEF Leaving
<1>4. /\ Sound(d) /\ ToSet(d.chain) = ToSet(c.chain) \ D
      /\ Queued(d.queue) = Queued(q) \ D /\ d.strong = s \ D
  BY <1>1, <1>3 DEF Erased
<1>5. ToSet(c.chain) \subseteq Addr
  BY ToSetFacts DEF Sound, CacheType
<1>6. \A x \in ToSet(d.chain) : d.age[x] = c.age[x] /\ d.access[x] = c.access[x]
  <2>1. f.age = c.age /\ f.access = c.access
    BY DEF Requeued
  <2> QED
    BY <1>3, <1>4, <1>5, <2>1 DEF Erased
<1>7. d.hits = c.hits /\ d.misses = c.misses
  BY <1>3 DEF Erased, Requeued
<1>8. Has("stats") => d.deletes + Len(d.chain) = c.deletes + Len(c.chain)
  BY <1>3 DEF Erased, Requeued
<1>9. Trimmed(c, d, e)
  BY <1>4, <1>6, <1>7, <1>8 DEF Trimmed, Leaving
<1> QED
  BY <1>2, <1>4, <1>9

\* e is in the bucket, and the elements on the queue are,
InBucket(c, e) == Sound(c) /\ e \in ToSet(c.chain) /\ Queued(c.queue) \subseteq ToSet(c.chain)

\* and those on the queue are the strong ones.
Agreed(c, e) == InBucket(c, e) /\ c.strong = Queued(c.queue)

\* q is what is left of the queue of c.
Shrunk(c, q) ==
  q \in Queues(Addr) /\ NoDup(q) /\ IsBalanced(q) /\ Queued(q) \subseteq Queued(c.queue)

\* shrink_to_size and shrink_while.
LEMMA DropFacts ==
  ASSUME NEW c, NEW e, Agreed(c, e), NEW R, NEW q, Shrunk(c, q)
  PROVE  /\ Trimmed(c, DropTo(c, q, R, e), e)
         /\ Queued(DropTo(c, q, R, e).queue) = Queued(q)
<1> DEFINE dropped == Queued(c.queue) \ Queued(q)
           s == c.strong \ dropped
           weak == [c EXCEPT !.queue = q, !.strong = @ \ dropped]
           D == {x \in dropped \ {e} : Expired(weak, R, x)}
<1>1. c \in CacheType /\ s \in SUBSET Addr /\ Sound(c)
  BY DEF Agreed, InBucket, Sound, CacheType
<1>2. weak = [c EXCEPT !.queue = q, !.strong = s]
  OBVIOUS
<1>3. Requeued(c, weak, q, s)
  <2> HIDE DEF weak, s
  <2> QED
    BY <1>1, <1>2, RequeuedForms DEF Shrunk
<1>4. DropTo(c, q, R, e) = EraseAll(weak, D)
  BY DEF DropTo
<1>5. s = Queued(q)
  BY DEF Agreed, Shrunk
<1>6. D \subseteq dropped /\ e \notin D
  OBVIOUS
<1> HIDE DEF weak, s, D
<1>7. /\ D \subseteq ToSet(c.chain) /\ s \ D = Queued(q) \ D
      /\ Queued(q) \ D = Queued(q) /\ Queued(q) \subseteq ToSet(c.chain)
  BY <1>5, <1>6 DEF Agreed, InBucket, Shrunk
<1>8. Leaving(c, q, s, D, e)
  BY <1>6, <1>7 DEF Leaving, Agreed, InBucket, Shrunk
<1>9. /\ Trimmed(c, EraseAll(weak, D), e)
      /\ Queued(EraseAll(weak, D).queue) = Queued(q) \ D
  BY <1>1, <1>3, <1>8, EraseTrims
<1> QED
  BY <1>4, <1>7, <1>9

\* What a callback finds: before the queue has linked a new element, it is strong
\* and not on the queue.
Meets(event, c, e) ==
  /\ InBucket(c, e)
  /\ event = "create" => e \notin Queued(c.queue) /\ c.strong = Queued(c.queue) \union {e}
  /\ event = "hit" => c.strong = Queued(c.queue)

\* The queue links or promotes e.
LEMMA LinkedFacts ==
  ASSUME NEW event \in {"create", "hit"}, NEW c, NEW e, Meets(event, c, e)
  PROVE  LET f == IF event = "create" THEN [c EXCEPT !.queue = LinkCold(@, e)]
                  ELSE IF e \in Queued(c.queue) THEN [c EXCEPT !.queue = Promote(@, e)]
                  ELSE [c EXCEPT !.queue = LinkCold(@, e), !.strong = @ \union {e}]
         IN \E q \in Queues(Addr) :
              /\ NoDup(q) /\ IsBalanced(q) /\ Queued(q) = Queued(c.queue) \union {e}
              /\ Requeued(c, f, q, Queued(q))
<1>1. /\ c \in CacheType /\ c.queue \in Queues(Addr) /\ NoDup(c.queue) /\ e \in Addr
      /\ Queued(c.queue) \subseteq Addr
  <2>1. c.chain \in Seq(Addr)
    BY DEF Meets, InBucket, Sound, CacheType
  <2>2. ToSet(c.chain) \subseteq Addr
    BY <2>1, ToSetFacts
  <2> QED
    BY <2>2 DEF Meets, InBucket, Sound, CacheType
<1>2. PICK k : k = c.queue
  OBVIOUS
<1>3. CASE event = "create"
  <2>1. PICK q : q = LinkCold(k, e)
    OBVIOUS
  <2>2. q \in Queues(Addr) /\ NoDup(q) /\ IsBalanced(q) /\ Queued(q) = Queued(k) \union {e}
    BY <1>1, <1>2, <1>3, <2>1, LinkColdFacts DEF Meets
  <2>3. Requeued(c, [c EXCEPT !.queue = q], q, c.strong)
    BY <1>1, <2>2, RequeuedForms
  <2> QED
    BY <1>2, <1>3, <2>1, <2>2, <2>3 DEF Meets
<1>4. CASE event = "hit" /\ e \in Queued(c.queue)
  <2>1. PICK q : q = Promote(k, e)
    OBVIOUS
  <2>2. q \in Queues(Addr) /\ NoDup(q) /\ IsBalanced(q) /\ Queued(q) = Queued(k)
    BY <1>1, <1>2, <1>4, <2>1, PromoteFacts
  <2>3. Requeued(c, [c EXCEPT !.queue = q], q, c.strong)
    BY <1>1, <2>2, RequeuedForms
  <2>4. Queued(q) = Queued(c.queue) \union {e} /\ c.strong = Queued(q)
    BY <1>2, <1>4, <2>2 DEF Meets
  <2> QED
    BY <1>2, <1>4, <2>1, <2>2, <2>3, <2>4
<1>5. CASE event = "hit" /\ e \notin Queued(c.queue)
  <2>1. PICK q, s : q = LinkCold(k, e) /\ s = c.strong \union {e}
    OBVIOUS
  <2>2. q \in Queues(Addr) /\ NoDup(q) /\ IsBalanced(q) /\ Queued(q) = Queued(k) \union {e}
    BY <1>1, <1>2, <1>5, <2>1, LinkColdFacts
  <2>3. s = Queued(q) /\ s \in SUBSET Addr
    BY <1>1, <1>2, <1>5, <2>1, <2>2 DEF Meets
  <2>4. Requeued(c, [c EXCEPT !.queue = q, !.strong = s], q, s)
    BY <1>1, <2>2, <2>3, RequeuedForms
  <2> QED
    BY <1>2, <1>5, <2>1, <2>2, <2>3, <2>4
<1> QED
  BY <1>3, <1>4, <1>5

\* expire_queue: e is on the queue afterwards, and what cleanup_ erases is aged.
LEMMA QueueFacts ==
  ASSUME NEW event \in {"create", "hit"}, NEW c, NEW e, Meets(event, c, e), NEW R
  PROVE  LET d == Queue(event, c, R, e)
         IN /\ Trimmed(c, d, e)
            /\ e \in Queued(d.queue) /\ Queued(d.queue) \subseteq Queued(c.queue) \union {e}
            /\ \A x \in Queued(c.queue) \ Queued(d.queue) : Aged(c, x)
<1> DEFINE f == IF event = "create" THEN [c EXCEPT !.queue = LinkCold(@, e)]
                ELSE IF e \in Queued(c.queue) THEN [c EXCEPT !.queue = Promote(@, e)]
                ELSE [c EXCEPT !.queue = LinkCold(@, e), !.strong = @ \union {e}]
           W == {x \in Queued(f.queue) \ {e} : Expired(f, R, x)}
           r == Cleanup(f.queue, W)
           D == Queued(f.queue) \ Queued(r)
<1>1. PICK q \in Queues(Addr) : /\ NoDup(q) /\ IsBalanced(q)
                                /\ Queued(q) = Queued(c.queue) \union {e}
                                /\ Requeued(c, f, q, Queued(q))
  BY LinkedFacts
<1>2. Queue(event, c, R, e) = EraseAll(f, D)
  BY DEF Queue
<1> HIDE DEF f
<1>3. f.queue = q /\ f.strong = Queued(q) /\ f.age = c.age
  BY <1>1 DEF Requeued
<1>4. \A x \in W : x # e /\ Aged(c, x)
  BY <1>3 DEF Expired, Aged
<1>5. r = ShrinkWhile(q, W)
  BY <1>3 DEF Cleanup
<1> HIDE DEF W
<1>6. Queued(r) \subseteq Queued(q) /\ Queued(q) \ Queued(r) \subseteq W
  <2> HIDE DEF r
  <2> QED
    BY <1>1, <1>5, ShrinkWhileFacts
<1> HIDE DEF r
<1>7. D \subseteq W /\ D \subseteq Queued(q) /\ e \notin D
  BY <1>3, <1>4, <1>6
<1> HIDE DEF D
<1>8. Leaving(c, q, Queued(q), D, e)
  BY <1>1, <1>7 DEF Leaving, Meets, InBucket
<1>9. Sound(c)
  BY DEF Meets, InBucket
<1>10. Trimmed(c, EraseAll(f, D), e) /\ Queued(EraseAll(f, D).queue) = Queued(q) \ D
  BY <1>1, <1>8, <1>9, EraseTrims
<1>11. ASSUME NEW x \in Queued(c.queue), x \notin Queued(q) \ D
       PROVE  Aged(c, x)
  BY <1>1, <1>4, <1>7, <1>11
<1> QED
  BY <1>1, <1>2, <1>7, <1>10, <1>11

\* access_expire_decorator: a hit renews e, and what is dropped is over.
Renewed(event, c, e) ==
  IF event = "hit" THEN [c EXCEPT !.access[e] = Until(now, settings.access_expire)] ELSE c

\* Renewing changes one access time.
LEMMA RenewedFacts ==
  ASSUME NEW event, NEW c, NEW e, Agreed(c, e), Until(now, settings.access_expire) \in TimePoints
  PROVE  LET r == Renewed(event, c, e)
         IN /\ Agreed(r, e)
            /\ r.chain = c.chain /\ r.queue = c.queue /\ r.strong = c.strong /\ r.age = c.age
            /\ r.hits = c.hits /\ r.misses = c.misses /\ r.deletes = c.deletes
            /\ \A x \in Addr : x # e => r.access[x] = c.access[x]
            /\ r.access[e] = IF event = "hit" THEN Until(now, settings.access_expire) ELSE c.access[e]
<1>1. c \in CacheType /\ e \in Addr
  <2>1. c.chain \in Seq(Addr)
    BY DEF Agreed, InBucket, Sound, CacheType
  <2>2. ToSet(c.chain) \subseteq Addr
    BY <2>1, ToSetFacts
  <2> QED
    BY <2>2 DEF Agreed, InBucket, Sound
<1>2. PICK v \in TimePoints : v = Until(now, settings.access_expire)
  OBVIOUS
<1>3. PICK r : r = Renewed(event, c, e)
  OBVIOUS
<1>4. CASE event = "hit"
  <2>1. r = [c EXCEPT !.access[e] = v]
    BY <1>2, <1>3, <1>4 DEF Renewed
  <2>2. r \in CacheType
    BY <1>1, <2>1 DEF CacheType
  <2>3. /\ r.chain = c.chain /\ r.queue = c.queue /\ r.strong = c.strong /\ r.age = c.age
        /\ r.hits = c.hits /\ r.misses = c.misses /\ r.deletes = c.deletes
        /\ \A x \in Addr : x # e => r.access[x] = c.access[x]
        /\ r.access[e] = v
    BY <1>1, <2>1 DEF CacheType
  <2>4. Agreed(r, e)
    BY <2>2, <2>3 DEF Agreed, InBucket, Sound
  <2> QED
    BY <1>2, <1>3, <1>4, <2>3, <2>4
<1>5. CASE event # "hit"
  BY <1>3, <1>5 DEF Renewed
<1> QED
  BY <1>4, <1>5

\* access_expire_decorator drops only elements whose time is over.
LEMMA AccessFacts ==
  ASSUME NEW event, NEW c, NEW e, Agreed(c, e), NEW R,
         Until(now, settings.access_expire) \in TimePoints
  PROVE  LET r == Renewed(event, c, e)
             d == Access(event, c, R, e)
         IN /\ Trimmed(r, d, e) /\ Queued(d.queue) \subseteq Queued(c.queue)
            /\ \A x \in Queued(c.queue) \ Queued(d.queue) : r.access[x] < now
<1> DEFINE r == Renewed(event, c, e)
           W == {x \in Queued(c.queue) : r.access[x] < now}
           q == ShrinkWhile(r.queue, W)
<1>1. Agreed(r, e) /\ r.queue = c.queue
  BY RenewedFacts
<1>2. Access(event, c, R, e) = DropTo(r, q, R, e)
  BY DEF Access, Renewed
<1> HIDE DEF r
<1>3. r.queue \in Queues(Addr) /\ NoDup(r.queue)
  BY <1>1 DEF Agreed, InBucket, Sound, CacheType
<1>4. PICK k : k = r.queue
  OBVIOUS
<1>5. /\ q \in Queues(Addr) /\ NoDup(q) /\ IsBalanced(q) /\ Queued(q) \subseteq Queued(k)
      /\ Queued(k) \ Queued(q) \subseteq W
  <2> HIDE DEF W
  <2> QED
    BY <1>3, <1>4, ShrinkWhileFacts
<1> HIDE DEF q
<1>6. Shrunk(r, q)
  BY <1>4, <1>5 DEF Shrunk
<1>7. Trimmed(r, DropTo(r, q, R, e), e) /\ Queued(DropTo(r, q, R, e).queue) = Queued(q)
  BY <1>1, <1>6, DropFacts
<1>8. \A x \in Queued(c.queue) \ Queued(q) : r.access[x] < now
  BY <1>1, <1>4, <1>5
<1>9. Queued(q) \subseteq Queued(c.queue)
  BY <1>1, <1>4, <1>5
<1> HIDE DEF W
<1> QED
  BY <1>2, <1>7, <1>8, <1>9 DEF r

-----------------------------------------------------------------------------
\* Dispatching the callbacks.

\* The cache is the one that build() made of its settings.
Assembled == settings \in Configs /\ decorators = Decorators(settings) /\ now \in Nat

\* One of the decorators of S is among the first k.
Did(S, k) == \E j \in 1 .. k : decorators[j] \in S

\* No size limit, and the time that e gets by a hit or has as a new element is not
\* over.
Unlimited(event, c, e) ==
  /\ settings.max_size = {}
  /\ settings.access_expire # {} =>
       now <= IF event = "hit" THEN Until(now, settings.access_expire) ELSE c.access[e]

\* What holds after k callbacks have made c of c0, for the element e.
RanQueue(event, c, e, k) ==
  IF Did({"expire_queue", "weaken"}, k) THEN Agreed(c, e) ELSE Meets(event, c, e)

RanStats(event, c, k) ==
  Has("stats") =>
    c.misses - c.deletes =
      IF event = "create" /\ ~Did({"stats"}, k) THEN Len(c.chain) - 1 ELSE Len(c.chain)

RanSize(c, k) ==
  Did({"max_size"}, k) => \A n \in settings.max_size : Cardinality(Queued(c.queue)) <= n

RanTimes(event, c0, c, e) ==
  /\ ToSet(c.chain) \subseteq ToSet(c0.chain)
  /\ \A x \in ToSet(c.chain) : c.age[x] = c0.age[x] /\ (x # e => c.access[x] = c0.access[x])
  /\ event = "create" => c.access[e] = c0.access[e]

RanKept(event, c0, c, e, k) ==
  /\ Unlimited(event, c0, e) /\ Did({"expire_queue"}, k) => e \in Queued(c.queue)
  /\ settings.max_size = {} =>
       \A x \in Queued(c0.queue) \ Queued(c.queue) : x = e \/ c0.access[x] < now \/ Aged(c0, x)

Ran(event, c0, c, e, k) ==
  /\ RanQueue(event, c, e, k) /\ RanStats(event, c, k) /\ RanSize(c, k)
  /\ RanTimes(event, c0, c, e) /\ RanKept(event, c0, c, e, k)

\* What build() chose, said of the decorators of this cache.
LEMMA AssembledFacts ==
  ASSUME Assembled
  PROVE  /\ decorators \in Seq(Names) /\ Len(decorators) \in Nat
         /\ Distinct(decorators) /\ Served(decorators)
         /\ \A j \in 1 .. Len(decorators) : Has(decorators[j])
         /\ Has("stats") <=> settings.stats # {}
         /\ Has("access_expire") <=> settings.access_expire # {}
         /\ Has("max_size") <=> settings.max_size # {}
         /\ Has("weaken") <=> ~Has("expire_queue")
         /\ settings.access_expire # {} \/ settings.max_size # {} => Has("expire_queue")
         /\ \A t \in Nat : /\ Until(t, settings.access_expire) \in TimePoints
                           /\ Until(t, settings.max_age) \in TimePoints
         /\ settings.max_size \subseteq Nat /\ \A m, n \in settings.max_size : m = n
<1>1. /\ settings.async \in BOOLEAN
      /\ settings.max_age \union settings.access_expire \union settings.max_size \subseteq Nat
      /\ \A m, n \in settings.max_size : m = n
  BY ConfigAssumption DEF Assembled
<1>2. PICK b : b = settings
  OBVIOUS
<1>3. Flagged(b)
  BY <1>1, <1>2 DEF Flagged
<1>4. PICK D : D = Decorators(b)
  OBVIOUS
<1>5. /\ Good(D)
      /\ "stats" \in ToSet(D) <=> b.stats # {}
      /\ "access_expire" \in ToSet(D) <=> b.access_expire # {}
      /\ "max_size" \in ToSet(D) <=> b.max_size # {}
      /\ "expire_queue" \in ToSet(D) <=>
           b.access_expire # {} \/ b.max_size # {} \/ b.max_memory # {}
      /\ "weaken" \in ToSet(D) <=> "expire_queue" \notin ToSet(D)
  BY <1>3, <1>4, DecoratorFacts
<1>6. D = decorators
  BY <1>2, <1>4 DEF Assembled
<1>7. /\ decorators \in Seq(Names) /\ Len(decorators) \in Nat
      /\ Distinct(decorators) /\ Served(decorators)
  BY <1>5, <1>6, LenProperties DEF Good
<1>8. \A j \in 1 .. Len(decorators) : Has(decorators[j])
  BY <1>7, ToSetFacts DEF Has
<1>9. \A t \in Nat : /\ Until(t, settings.access_expire) \in TimePoints
                    /\ Until(t, settings.max_age) \in TimePoints
  <2>1. PICK S, T : S = settings.access_expire /\ T = settings.max_age
    OBVIOUS
  <2>2. S \subseteq Nat /\ T \subseteq Nat
    BY <1>1, <2>1
  <2>3. \A t \in Nat : Until(t, S) \in TimePoints /\ Until(t, T) \in TimePoints
    BY <2>2, UntilFacts
  <2> QED
    BY <2>1, <2>3
<1>10. /\ Has("stats") <=> settings.stats # {}
       /\ Has("access_expire") <=> settings.access_expire # {}
       /\ Has("max_size") <=> settings.max_size # {}
       /\ Has("weaken") <=> ~Has("expire_queue")
       /\ settings.access_expire # {} \/ settings.max_size # {} => Has("expire_queue")
  BY <1>2, <1>5, <1>6 DEF Has
<1> QED
  BY <1>1, <1>7, <1>8, <1>9, <1>10

\* Which decorators are among the first k.
LEMMA DidNext ==
  ASSUME Assembled, NEW k \in 1 .. Len(decorators), NEW S
  PROVE  Did(S, k) <=> Did(S, k - 1) \/ decorators[k] \in S
<1>1. \A j \in 1 .. k : j = k \/ j \in 1 .. k - 1
  OBVIOUS
<1>2. \A j \in 1 .. k - 1 : j \in 1 .. k
  OBVIOUS
<1>3. k \in 1 .. k
  OBVIOUS
<1> QED
  BY <1>1, <1>2, <1>3 DEF Did

\* Nothing but the queue or weaken comes in their place, both only once, and what
\* shrinks the queue comes after it.
LEMMA DidOnce ==
  ASSUME Assembled, NEW k \in 1 .. Len(decorators)
  PROVE  /\ ~Did({decorators[k]}, k - 1)
         /\ decorators[k] \in {"expire_queue", "weaken"} => ~Did({"expire_queue", "weaken"}, k - 1)
         /\ decorators[k] = "expire_queue" => ~Did({"max_size"}, k - 1)
         /\ decorators[k] \in {"access_expire", "max_size"} =>
              /\ Did({"expire_queue"}, k - 1)
              /\ Did({"expire_queue", "weaken"}, k - 1)
<1>1. /\ \A j \in 1 .. Len(decorators) : Has(decorators[j])
      /\ Has("weaken") <=> ~Has("expire_queue")
  BY AssembledFacts
<1>2. /\ Len(decorators) \in Nat /\ Distinct(decorators) /\ Served(decorators)
  BY AssembledFacts
<1>3. \A j \in 1 .. k - 1 : j \in 1 .. Len(decorators) /\ j # k
  BY <1>2
<1>4. \A j \in 1 .. k - 1 : decorators[j] # decorators[k]
  BY <1>2, <1>3 DEF Distinct
<1>5. ~Did({decorators[k]}, k - 1)
  BY <1>4 DEF Did
<1>6. decorators[k] \in {"expire_queue", "weaken"} => ~Did({"expire_queue", "weaken"}, k - 1)
  BY <1>1, <1>3, <1>4 DEF Did
<1>7. decorators[k] = "expire_queue" => ~Did({"max_size"}, k - 1)
  <2>1. SUFFICES ASSUME decorators[k] = "expire_queue", NEW j \in 1 .. k - 1,
                        decorators[j] = "max_size"
                 PROVE  FALSE
    BY DEF Did
  <2>2. PICK i \in 1 .. j - 1 : decorators[i] = "expire_queue"
    BY <1>2, <1>3, <2>1 DEF Served, Shrinkers
  <2>3. i \in 1 .. k - 1
    BY <1>3
  <2> QED
    BY <1>4, <2>1, <2>2, <2>3
<1>8. decorators[k] \in {"access_expire", "max_size"} => Did({"expire_queue"}, k - 1)
  BY <1>2 DEF Served, Shrinkers, Did
<1>9. Did({"expire_queue"}, k - 1) => Did({"expire_queue", "weaken"}, k - 1)
  BY DEF Did
<1> QED
  BY <1>5, <1>6, <1>7, <1>8, <1>9

\* r is c, but for the access time that a hit may have renewed.
Touched(event, c, r, e) ==
  /\ r.chain = c.chain /\ r.age = c.age
  /\ r.hits = c.hits /\ r.misses = c.misses /\ r.deletes = c.deletes
  /\ \A x \in Addr : x # e => r.access[x] = c.access[x]
  /\ event = "create" => r.access[e] = c.access[e]

\* Trimming the cache balances the counters and leaves the times of the others.
LEMMA TrimmedRan ==
  ASSUME Assembled, NEW k \in 1 .. Len(decorators), decorators[k] # "stats",
         NEW event \in {"create", "hit"}, NEW c0, NEW c, NEW r, NEW d, NEW e,
         InBucket(c, e), RanStats(event, c, k - 1), RanTimes(event, c0, c, e),
         Touched(event, c, r, e), Trimmed(r, d, e)
  PROVE  Agreed(d, e) /\ RanStats(event, d, k) /\ RanTimes(event, c0, d, e)
<1>1. c \in CacheType /\ ToSet(c.chain) \subseteq Addr /\ e \in ToSet(c.chain)
  <2>1. c \in CacheType /\ c.chain \in Seq(Addr) /\ e \in ToSet(c.chain)
    BY DEF InBucket, Sound, CacheType
  <2>2. ToSet(c.chain) \subseteq Addr
    BY <2>1, ToSetFacts
  <2> QED
    BY <2>1, <2>2
<1>2. Agreed(d, e)
  BY DEF Trimmed, Agreed, InBucket
<1>3. RanStats(event, d, k)
  <2>1. SUFFICES ASSUME Has("stats")
                 PROVE  d.misses - d.deletes =
                          IF event = "create" /\ ~Did({"stats"}, k) THEN Len(d.chain) - 1 ELSE Len(d.chain)
    BY DEF RanStats
  <2>2. Did({"stats"}, k) <=> Did({"stats"}, k - 1)
    BY DidNext
  <2>3. c.misses - c.deletes =
          IF event = "create" /\ ~Did({"stats"}, k) THEN Len(c.chain) - 1 ELSE Len(c.chain)
    BY <2>1, <2>2 DEF RanStats
  <2>4. d.misses = c.misses /\ d.deletes + Len(d.chain) = c.deletes + Len(c.chain)
    BY <2>1 DEF Trimmed, Touched
  <2>5. c.misses \in Nat /\ c.deletes \in Nat /\ Len(c.chain) \in Nat
    <3>1. c.chain \in Seq(Addr)
      BY <1>1 DEF CacheType
    <3> QED
      BY <1>1, <3>1, LenProperties DEF CacheType
  <2>6. d.deletes \in Nat /\ Len(d.chain) \in Nat
    <3>1. d.chain \in Seq(Addr) /\ d.deletes \in Nat
      BY <1>2 DEF Agreed, InBucket, Sound, CacheType
    <3> QED
      BY <3>1, LenProperties
  <2>7. PICK m \in Nat, x \in Nat, y \in Nat, l \in Nat, n \in Nat :
          /\ m = c.misses /\ m = d.misses /\ x = c.deletes /\ y = d.deletes
          /\ l = Len(c.chain) /\ n = Len(d.chain)
    BY <2>4, <2>5, <2>6
  <2>8. y + n = x + l
    BY <2>4, <2>7
  <2>9. CASE event = "create" /\ ~Did({"stats"}, k)
    <3>1. m - x = l - 1
      BY <2>3, <2>7, <2>9
    <3>2. m - y = n - 1
      BY <2>8, <3>1
    <3> QED
      BY <2>7, <2>9, <3>2
  <2>10. CASE ~(event = "create" /\ ~Did({"stats"}, k))
    <3>1. m - x = l
      BY <2>3, <2>7, <2>10
    <3>2. m - y = n
      BY <2>8, <3>1
    <3> QED
      BY <2>7, <2>10, <3>2
  <2> QED
    BY <2>9, <2>10
<1>4. RanTimes(event, c0, d, e)
  <2>1. /\ e \in ToSet(d.chain) /\ ToSet(d.chain) \subseteq ToSet(c.chain)
        /\ \A x \in ToSet(d.chain) : d.age[x] = c.age[x] /\ d.access[x] = r.access[x]
    BY DEF Trimmed, Touched
  <2>2. ToSet(d.chain) \subseteq ToSet(c0.chain)
    BY <2>1 DEF RanTimes
  <2>3. \A x \in ToSet(d.chain) : d.age[x] = c0.age[x] /\ (x # e => d.access[x] = c0.access[x])
    <3>1. ASSUME NEW x \in ToSet(d.chain)
          PROVE  d.age[x] = c0.age[x] /\ (x # e => d.access[x] = c0.access[x])
      <4>1. c.age[x] = c0.age[x] /\ (x # e => c.access[x] = c0.access[x])
        BY <2>1, <3>1 DEF RanTimes
      <4>2. x # e => r.access[x] = c.access[x]
        BY <1>1, <2>1, <3>1 DEF Touched
      <4> QED
        BY <2>1, <3>1, <4>1, <4>2
    <3> QED
      BY <3>1
  <2>4. event = "create" => d.access[e] = c0.access[e]
    BY <2>1 DEF RanTimes, Touched
  <2> QED
    BY <2>2, <2>3, <2>4 DEF RanTimes
<1> QED
  BY <1>2, <1>3, <1>4

\* Besides e, the queue lost only what was aged or over.
LostFairly(c, d, e) ==
  settings.max_size = {} =>
    \A x \in Queued(c.queue) \ Queued(d.queue) : x = e \/ Aged(c, x) \/ c.access[x] < now

\* What a callback drops is what the callbacks drop.
LEMMA RanKeptNext ==
  ASSUME NEW k, NEW event, NEW c0, NEW c, NEW d, NEW e, InBucket(c, e),
         RanTimes(event, c0, c, e), RanKept(event, c0, c, e, k - 1), LostFairly(c, d, e),
         Unlimited(event, c0, e) /\ Did({"expire_queue"}, k) => e \in Queued(d.queue)
  PROVE  RanKept(event, c0, d, e, k)
<1>1. SUFFICES ASSUME settings.max_size = {}, NEW x \in Queued(c0.queue), x \notin Queued(d.queue)
               PROVE  x = e \/ c0.access[x] < now \/ Aged(c0, x)
  BY DEF RanKept
<1>2. CASE x \notin Queued(c.queue)
  BY <1>1, <1>2 DEF RanKept
<1>3. CASE x \in Queued(c.queue)
  <2>1. x \in ToSet(c.chain)
    BY <1>3 DEF InBucket
  <2>2. c.age[x] = c0.age[x] /\ (x # e => c.access[x] = c0.access[x])
    BY <2>1 DEF RanTimes
  <2>3. x = e \/ Aged(c, x) \/ c.access[x] < now
    BY <1>1, <1>3 DEF LostFairly
  <2>4. Aged(c, x) => Aged(c0, x)
    BY <2>2 DEF Aged
  <2> QED
    BY <2>2, <2>3, <2>4
<1> QED
  BY <1>2, <1>3

\* A callback that leaves the cache as it is.
LEMMA RanSame ==
  ASSUME Assembled, NEW k \in 1 .. Len(decorators), NEW event \in {"create", "hit"},
         NEW c0, NEW c, NEW e, Ran(event, c0, c, e, k - 1),
         decorators[k] \notin {"stats", "expire_queue", "max_size"},
         decorators[k] = "weaken" => event = "hit"
  PROVE  Ran(event, c0, c, e, k)
<1>1. /\ Did({"stats"}, k) <=> Did({"stats"}, k - 1)
      /\ Did({"expire_queue"}, k) <=> Did({"expire_queue"}, k - 1)
      /\ Did({"max_size"}, k) <=> Did({"max_size"}, k - 1)
  BY DidNext
<1>2. Did({"expire_queue", "weaken"}, k) <=>
        Did({"expire_queue", "weaken"}, k - 1) \/ decorators[k] = "weaken"
  <2>1. Did({"expire_queue", "weaken"}, k) <=>
          Did({"expire_queue", "weaken"}, k - 1) \/ decorators[k] \in {"expire_queue", "weaken"}
    BY DidNext
  <2> QED
    BY <2>1
<1>3. RanQueue(event, c, e, k)
  <2>1. RanQueue(event, c, e, k - 1)
    BY DEF Ran
  <2>2. CASE decorators[k] # "weaken" \/ Did({"expire_queue", "weaken"}, k - 1)
    BY <1>2, <2>1, <2>2 DEF RanQueue
  <2>3. CASE decorators[k] = "weaken" /\ ~Did({"expire_queue", "weaken"}, k - 1)
    <3>1. Meets(event, c, e) /\ event = "hit"
      BY <2>1, <2>3 DEF RanQueue
    <3>2. Agreed(c, e)
      BY <3>1 DEF Meets, Agreed
    <3> QED
      BY <1>2, <2>3, <3>2 DEF RanQueue
  <2> QED
    BY <2>2, <2>3
<1>4. RanStats(event, c, k) /\ RanSize(c, k) /\ RanKept(event, c0, c, e, k) /\ RanTimes(event, c0, c, e)
  BY <1>1 DEF Ran, RanStats, RanSize, RanKept
<1> QED
  BY <1>3, <1>4 DEF Ran

\* stats counts the call.
LEMMA RanCounted ==
  ASSUME Assembled, NEW k \in 1 .. Len(decorators), NEW event \in {"create", "hit"},
         NEW c0, NEW c, NEW e, Ran(event, c0, c, e, k - 1), decorators[k] = "stats"
  PROVE  Ran(event, c0, IF event = "hit" THEN [c EXCEPT !.hits = @ + 1]
                                         ELSE [c EXCEPT !.misses = @ + 1], e, k)
<1>1. /\ Did({"stats"}, k) /\ ~Did({"stats"}, k - 1)
      /\ Did({"expire_queue"}, k) <=> Did({"expire_queue"}, k - 1)
      /\ Did({"max_size"}, k) <=> Did({"max_size"}, k - 1)
      /\ Did({"expire_queue", "weaken"}, k) <=> Did({"expire_queue", "weaken"}, k - 1)
  <2>1. ~Did({decorators[k]}, k - 1)
    BY DidOnce
  <2>2. Did({"stats"}, k) <=> Did({"stats"}, k - 1) \/ decorators[k] \in {"stats"}
    BY DidNext
  <2>3. Did({"expire_queue"}, k) <=> Did({"expire_queue"}, k - 1) \/ decorators[k] \in {"expire_queue"}
    BY DidNext
  <2>4. Did({"max_size"}, k) <=> Did({"max_size"}, k - 1) \/ decorators[k] \in {"max_size"}
    BY DidNext
  <2>5. Did({"expire_queue", "weaken"}, k) <=>
          Did({"expire_queue", "weaken"}, k - 1) \/ decorators[k] \in {"expire_queue", "weaken"}
    BY DidNext
  <2> QED
    BY <2>1, <2>2, <2>3, <2>4, <2>5
<1>2. InBucket(c, e) /\ c \in CacheType
  BY DEF Ran, RanQueue, Agreed, Meets, InBucket, Sound
<1>3. PICK d : d = IF event = "hit" THEN [c EXCEPT !.hits = @ + 1] ELSE [c EXCEPT !.misses = @ + 1]
  OBVIOUS
<1>4. /\ d \in CacheType
      /\ d.chain = c.chain /\ d.queue = c.queue /\ d.strong = c.strong
      /\ d.age = c.age /\ d.access = c.access /\ d.deletes = c.deletes
      /\ d.misses = IF event = "create" THEN c.misses + 1 ELSE c.misses
  <2>1. CASE event = "hit"
    <3>1. PICK v \in Nat : v = c.hits + 1
      BY <1>2 DEF CacheType
    <3>2. d = [c EXCEPT !.hits = v]
      BY <1>3, <2>1, <3>1
    <3>3. d \in CacheType
      BY <1>2, <3>2 DEF CacheType
    <3> QED
      BY <1>2, <2>1, <3>1, <3>2, <3>3 DEF CacheType
  <2>2. CASE event = "create"
    <3>1. PICK v \in Nat : v = c.misses + 1
      BY <1>2 DEF CacheType
    <3>2. d = [c EXCEPT !.misses = v]
      BY <1>3, <2>2, <3>1
    <3>3. d \in CacheType
      BY <1>2, <3>2 DEF CacheType
    <3> QED
      BY <1>2, <2>2, <3>1, <3>2, <3>3 DEF CacheType
  <2> QED
    BY <2>1, <2>2
<1>5. RanQueue(event, d, e, k)
  <2>1. RanQueue(event, c, e, k - 1)
    BY DEF Ran
  <2>2. InBucket(d, e)
    BY <1>2, <1>4 DEF InBucket, Sound
  <2> QED
    BY <1>1, <1>4, <2>1, <2>2 DEF RanQueue, Agreed, Meets
<1>6. RanStats(event, d, k)
  <2>1. SUFFICES ASSUME Has("stats") PROVE d.misses - d.deletes = Len(d.chain)
    BY <1>1 DEF RanStats
  <2>2. c.misses - c.deletes = IF event = "create" THEN Len(c.chain) - 1 ELSE Len(c.chain)
    BY <1>1, <2>1 DEF Ran, RanStats
  <2>3. PICK m \in Nat, x \in Nat, l \in Nat : m = c.misses /\ x = c.deletes /\ l = Len(c.chain)
    <3>1. c.chain \in Seq(Addr) /\ c.misses \in Nat /\ c.deletes \in Nat
      BY <1>2 DEF CacheType
    <3>2. Len(c.chain) \in Nat
      BY <3>1, LenProperties
    <3> QED
      BY <3>1, <3>2
  <2>4. CASE event = "create"
    <3>1. m - x = l - 1
      BY <2>2, <2>3, <2>4
    <3>2. (m + 1) - x = l
      BY <3>1
    <3> QED
      BY <1>4, <2>3, <2>4, <3>2
  <2>5. CASE event = "hit"
    BY <1>4, <2>2, <2>3, <2>5
  <2> QED
    BY <2>4, <2>5
<1>7. RanSize(d, k) /\ RanTimes(event, c0, d, e) /\ RanKept(event, c0, d, e, k)
  BY <1>1, <1>4 DEF Ran, RanSize, RanTimes, RanKept
<1> QED
  BY <1>3, <1>5, <1>6, <1>7 DEF Ran

\* weaken makes the new element weak: without a queue nothing else is strong.
LEMMA RanWeakened ==
  ASSUME Assembled, NEW k \in 1 .. Len(decorators), NEW c0, NEW c, NEW e,
         Ran("create", c0, c, e, k - 1), decorators[k] = "weaken"
  PROVE  Ran("create", c0, [c EXCEPT !.strong = @ \ {e}], e, k)
<1>1. /\ Did({"expire_queue", "weaken"}, k) /\ ~Did({"expire_queue", "weaken"}, k - 1)
      /\ Did({"stats"}, k) <=> Did({"stats"}, k - 1)
      /\ Did({"expire_queue"}, k) <=> Did({"expire_queue"}, k - 1)
      /\ Did({"max_size"}, k) <=> Did({"max_size"}, k - 1)
  <2>1. ~Did({"expire_queue", "weaken"}, k - 1)
    BY DidOnce
  <2>2. Did({"stats"}, k) <=> Did({"stats"}, k - 1) \/ decorators[k] \in {"stats"}
    BY DidNext
  <2>3. Did({"expire_queue"}, k) <=> Did({"expire_queue"}, k - 1) \/ decorators[k] \in {"expire_queue"}
    BY DidNext
  <2>4. Did({"max_size"}, k) <=> Did({"max_size"}, k - 1) \/ decorators[k] \in {"max_size"}
    BY DidNext
  <2>5. Did({"expire_queue", "weaken"}, k) <=>
          Did({"expire_queue", "weaken"}, k - 1) \/ decorators[k] \in {"expire_queue", "weaken"}
    BY DidNext
  <2> QED
    BY <2>1, <2>2, <2>3, <2>4, <2>5
<1>2. Meets("create", c, e)
  BY <1>1 DEF Ran, RanQueue
<1>3. c \in CacheType
  BY <1>2 DEF Meets, InBucket, Sound
<1>4. PICK s : s = c.strong \ {e}
  OBVIOUS
<1>5. PICK d : d = [c EXCEPT !.strong = s]
  OBVIOUS
<1>6. s \in SUBSET Addr /\ s = Queued(c.queue)
  BY <1>2, <1>3, <1>4 DEF Meets, CacheType
<1>7. d \in CacheType
  BY <1>3, <1>5, <1>6 DEF CacheType
<1>8. /\ d.chain = c.chain /\ d.queue = c.queue /\ d.strong = s /\ d.age = c.age
      /\ d.access = c.access /\ d.misses = c.misses /\ d.deletes = c.deletes
  BY <1>3, <1>5 DEF CacheType
<1>9. RanQueue("create", d, e, k)
  BY <1>1, <1>2, <1>6, <1>7, <1>8 DEF RanQueue, Agreed, Meets, InBucket, Sound
<1>10. RanStats("create", d, k)
  BY <1>1, <1>8 DEF Ran, RanStats
<1>11. RanSize(d, k) /\ RanTimes("create", c0, d, e) /\ RanKept("create", c0, d, e, k)
  BY <1>1, <1>8 DEF Ran, RanSize, RanTimes, RanKept
<1> QED
  BY <1>4, <1>5, <1>9, <1>10, <1>11 DEF Ran

\* expire_queue: e is on the queue.
LEMMA RanQueued ==
  ASSUME Assembled, NEW k \in 1 .. Len(decorators), NEW event \in {"create", "hit"},
         NEW c0, NEW c, NEW R, NEW e, Ran(event, c0, c, e, k - 1), decorators[k] = "expire_queue"
  PROVE  Ran(event, c0, Queue(event, c, R, e), e, k)
<1>1. /\ Did({"expire_queue", "weaken"}, k) /\ ~Did({"expire_queue", "weaken"}, k - 1)
      /\ ~Did({"max_size"}, k)
  <2>1. ~Did({"expire_queue", "weaken"}, k - 1) /\ ~Did({"max_size"}, k - 1)
    BY DidOnce
  <2>2. Did({"max_size"}, k) <=> Did({"max_size"}, k - 1) \/ decorators[k] \in {"max_size"}
    BY DidNext
  <2>3. Did({"expire_queue", "weaken"}, k) <=>
          Did({"expire_queue", "weaken"}, k - 1) \/ decorators[k] \in {"expire_queue", "weaken"}
    BY DidNext
  <2> QED
    BY <2>1, <2>2, <2>3
<1>2. Meets(event, c, e)
  BY <1>1 DEF Ran, RanQueue
<1>3. PICK d : d = Queue(event, c, R, e)
  OBVIOUS
<1>4. /\ Trimmed(c, d, e) /\ e \in Queued(d.queue)
      /\ \A x \in Queued(c.queue) \ Queued(d.queue) : Aged(c, x)
  BY <1>2, <1>3, QueueFacts
<1>5. Touched(event, c, c, e)
  BY DEF Touched
<1>6. InBucket(c, e) /\ RanStats(event, c, k - 1) /\ RanTimes(event, c0, c, e)
      /\ RanKept(event, c0, c, e, k - 1)
  BY <1>2 DEF Ran, Meets
<1>7. Agreed(d, e) /\ RanStats(event, d, k) /\ RanTimes(event, c0, d, e)
  <2>1. decorators[k] # "stats"
    OBVIOUS
  <2> QED
    BY <1>4, <1>5, <1>6, <2>1, TrimmedRan
<1>8. LostFairly(c, d, e)
  BY <1>4 DEF LostFairly
<1>9. RanKept(event, c0, d, e, k)
  BY <1>4, <1>6, <1>8, RanKeptNext
<1> QED
  BY <1>1, <1>3, <1>7, <1>9 DEF Ran, RanQueue, RanSize

\* access_expire keeps the element that was hit or made.
LEMMA RanAccessed ==
  ASSUME Assembled, NEW k \in 1 .. Len(decorators), NEW event \in {"create", "hit"},
         NEW c0, NEW c, NEW R, NEW e, Ran(event, c0, c, e, k - 1), decorators[k] = "access_expire"
  PROVE  Ran(event, c0, Access(event, c, R, e), e, k)
<1>1. /\ Did({"expire_queue"}, k - 1) /\ Did({"expire_queue", "weaken"}, k - 1)
      /\ Did({"expire_queue", "weaken"}, k)
      /\ Did({"max_size"}, k) <=> Did({"max_size"}, k - 1)
  <2>1. Did({"expire_queue"}, k - 1) /\ Did({"expire_queue", "weaken"}, k - 1)
    BY DidOnce
  <2>2. Did({"max_size"}, k) <=> Did({"max_size"}, k - 1) \/ decorators[k] \in {"max_size"}
    BY DidNext
  <2>3. Did({"expire_queue", "weaken"}, k) <=>
          Did({"expire_queue", "weaken"}, k - 1) \/ decorators[k] \in {"expire_queue", "weaken"}
    BY DidNext
  <2> QED
    BY <2>1, <2>2, <2>3
<1>2. Agreed(c, e)
  BY <1>1 DEF Ran, RanQueue
<1>3. PICK d, r : d = Access(event, c, R, e) /\ r = Renewed(event, c, e)
  OBVIOUS
<1>4. Until(now, settings.access_expire) \in TimePoints /\ settings.access_expire # {}
  <2>1. Has(decorators[k])
    BY AssembledFacts
  <2> QED
    BY <2>1, AssembledFacts DEF Assembled
<1>5. /\ Trimmed(r, d, e) /\ Queued(d.queue) \subseteq Queued(c.queue)
      /\ \A x \in Queued(c.queue) \ Queued(d.queue) : r.access[x] < now
  BY <1>2, <1>3, <1>4, AccessFacts
<1>6. /\ r.chain = c.chain /\ r.age = c.age
      /\ r.hits = c.hits /\ r.misses = c.misses /\ r.deletes = c.deletes
      /\ \A x \in Addr : x # e => r.access[x] = c.access[x]
      /\ r.access[e] = IF event = "hit" THEN Until(now, settings.access_expire) ELSE c.access[e]
  BY <1>2, <1>3, <1>4, RenewedFacts
<1>7. Touched(event, c, r, e)
  BY <1>6 DEF Touched
<1>8. InBucket(c, e) /\ RanStats(event, c, k - 1) /\ RanTimes(event, c0, c, e)
      /\ RanKept(event, c0, c, e, k - 1)
  BY <1>2 DEF Ran, Agreed
<1>9. Agreed(d, e) /\ RanStats(event, d, k) /\ RanTimes(event, c0, d, e)
  <2>1. decorators[k] # "stats"
    OBVIOUS
  <2> QED
    BY <1>5, <1>7, <1>8, <2>1, TrimmedRan
<1>10. r.access[e] = IF event = "hit" THEN Until(now, settings.access_expire) ELSE c0.access[e]
  BY <1>6, <1>8 DEF RanTimes
<1>11. Queued(c.queue) \subseteq Addr
  <2>1. c.queue \in Queues(Addr)
    BY <1>8 DEF InBucket, Sound, CacheType
  <2> QED
    BY <2>1, QueueType, ToSetFacts
<1>12. \A x \in Queued(c.queue) \ Queued(d.queue) : x = e \/ c.access[x] < now
  BY <1>5, <1>6, <1>11
<1>13. LostFairly(c, d, e)
  BY <1>12 DEF LostFairly
<1>14. ASSUME Unlimited(event, c0, e) PROVE e \in Queued(d.queue)
  <2>1. e \in Queued(c.queue)
    BY <1>1, <1>8, <1>14 DEF RanKept
  <2>2. now <= r.access[e]
    BY <1>4, <1>10, <1>14 DEF Unlimited
  <2>3. r.access[e] \in Int /\ now \in Int
    <3>1. Horizon \in Nat /\ now \in Nat
      BY TimeAssumption DEF Assembled
    <3>2. r.access[e] \in TimePoints
      <4>1. c.access \in [Addr -> TimePoints] /\ e \in Addr
        BY <1>8, <1>11, <2>1 DEF InBucket, Sound, CacheType
      <4> QED
        BY <1>4, <1>6, <4>1
    <3> QED
      BY <3>1, <3>2 DEF TimePoints
  <2>4. ~(r.access[e] < now)
    BY <2>2, <2>3
  <2> QED
    BY <1>5, <2>1, <2>4
<1>15. RanKept(event, c0, d, e, k)
  BY <1>8, <1>13, <1>14, RanKeptNext
<1>16. RanSize(d, k)
  <2>1. SUFFICES ASSUME Did({"max_size"}, k), NEW n \in settings.max_size
                 PROVE  Cardinality(Queued(d.queue)) <= n
    BY DEF RanSize
  <2>2. Cardinality(Queued(c.queue)) <= n
    BY <1>1, <2>1 DEF Ran, RanSize
  <2>3. IsFiniteSet(Queued(c.queue))
    <3>1. c.queue \in Queues(Addr)
      BY <1>8 DEF InBucket, Sound, CacheType
    <3> QED
      BY <3>1, QueuedCardinality
  <2>4. /\ Cardinality(Queued(d.queue)) \in Nat /\ Cardinality(Queued(c.queue)) \in Nat
        /\ Cardinality(Queued(d.queue)) <= Cardinality(Queued(c.queue))
    BY <1>5, <2>3, FS_Subset, FS_CardinalityType
  <2>5. n \in Nat
    BY AssembledFacts
  <2> QED
    BY <2>2, <2>4, <2>5
<1> QED
  BY <1>1, <1>3, <1>9, <1>15, <1>16 DEF Ran, RanQueue

\* max_size bounds the queue.
LEMMA RanBounded ==
  ASSUME Assembled, NEW k \in 1 .. Len(decorators), NEW event \in {"create", "hit"},
         NEW c0, NEW c, NEW R, NEW e, Ran(event, c0, c, e, k - 1), decorators[k] = "max_size"
  PROVE  Ran(event, c0,
             DropTo(c, ShrinkTo(c.queue, CHOOSE v \in settings.max_size : TRUE), R, e), e, k)
<1>1. Did({"expire_queue", "weaken"}, k - 1) /\ Did({"expire_queue", "weaken"}, k)
  <2>1. Did({"expire_queue", "weaken"}, k - 1)
    BY DidOnce
  <2>2. Did({"expire_queue", "weaken"}, k) <=>
          Did({"expire_queue", "weaken"}, k - 1) \/ decorators[k] \in {"expire_queue", "weaken"}
    BY DidNext
  <2> QED
    BY <2>1, <2>2
<1>2. Agreed(c, e)
  BY <1>1 DEF Ran, RanQueue
<1>3. settings.max_size # {} /\ settings.max_size \subseteq Nat
  <2>1. Has(decorators[k])
    BY AssembledFacts
  <2> QED
    BY <2>1, AssembledFacts
<1>4. PICK n \in settings.max_size : n = CHOOSE v \in settings.max_size : TRUE
  BY <1>3
<1>5. PICK q, d : q = ShrinkTo(c.queue, n) /\ d = DropTo(c, q, R, e)
  OBVIOUS
<1>6. n \in Nat /\ \A m \in settings.max_size : m = n
  BY <1>3, AssembledFacts
<1>7. PICK b : b = c.queue
  OBVIOUS
<1>8. b \in Queues(Addr) /\ NoDup(b) /\ q = ShrinkTo(b, n)
  BY <1>2, <1>5, <1>7 DEF Agreed, InBucket, Sound, CacheType
<1>9. /\ q \in Queues(Addr) /\ IsBalanced(q) /\ NoDup(q)
      /\ QSize(q) = IF n >= QSize(b) THEN QSize(b) ELSE n
      /\ Queued(q) \subseteq Queued(b)
  BY <1>6, <1>8, ShrinkToFacts
<1>10. Shrunk(c, q)
  BY <1>7, <1>9 DEF Shrunk
<1>11. Trimmed(c, d, e) /\ Queued(d.queue) = Queued(q)
  BY <1>2, <1>5, <1>10, DropFacts
<1>12. Touched(event, c, c, e)
  BY DEF Touched
<1>13. InBucket(c, e) /\ RanStats(event, c, k - 1) /\ RanTimes(event, c0, c, e)
  BY <1>2 DEF Ran, Agreed
<1>14. Agreed(d, e) /\ RanStats(event, d, k) /\ RanTimes(event, c0, d, e)
  <2>1. decorators[k] # "stats"
    OBVIOUS
  <2> QED
    BY <1>11, <1>12, <1>13, <2>1, TrimmedRan
<1>15. RanSize(d, k)
  <2>1. Cardinality(Queued(q)) \in Nat /\ Cardinality(Queued(q)) <= QSize(q)
    BY <1>9, QueuedCardinality
  <2>2. QSize(b) \in Nat
    BY <1>8, QueueType
  <2>3. QSize(q) <= n /\ QSize(q) \in Nat
    BY <1>6, <1>9, <2>2
  <2>4. Cardinality(Queued(q)) <= n
    BY <1>6, <2>1, <2>3
  <2> QED
    BY <1>6, <1>11, <2>4 DEF RanSize
<1>16. RanKept(event, c0, d, e, k)
  BY <1>3 DEF RanKept, Unlimited
<1> QED
  BY <1>1, <1>4, <1>5, <1>14, <1>15, <1>16 DEF Ran, RanQueue

\* Every callback.
LEMMA RanNext ==
  ASSUME Assembled, NEW k \in 1 .. Len(decorators), NEW event \in {"create", "hit"},
         NEW c0, NEW c, NEW R, NEW e, Ran(event, c0, c, e, k - 1)
  PROVE  Ran(event, c0, Callback(decorators[k], event, c, R, e), e, k)
<1>1. CASE decorators[k] = "stats"
  <2>1. Callback(decorators[k], event, c, R, e) =
          IF event = "hit" THEN [c EXCEPT !.hits = @ + 1] ELSE [c EXCEPT !.misses = @ + 1]
    BY <1>1 DEF Callback
  <2>2. Ran(event, c0, IF event = "hit" THEN [c EXCEPT !.hits = @ + 1]
                                        ELSE [c EXCEPT !.misses = @ + 1], e, k)
    BY <1>1, RanCounted
  <2> QED
    BY <2>1, <2>2
<1>2. CASE decorators[k] = "weaken" /\ event = "create"
  <2>1. Callback(decorators[k], event, c, R, e) = [c EXCEPT !.strong = @ \ {e}]
    BY <1>2 DEF Callback
  <2>2. Ran(event, c0, [c EXCEPT !.strong = @ \ {e}], e, k)
    BY <1>2, RanWeakened
  <2> QED
    BY <2>1, <2>2
<1>3. CASE decorators[k] = "expire_queue"
  <2>1. Callback(decorators[k], event, c, R, e) = Queue(event, c, R, e)
    BY <1>3 DEF Callback
  <2>2. Ran(event, c0, Queue(event, c, R, e), e, k)
    BY <1>3, RanQueued
  <2> QED
    BY <2>1, <2>2
<1>4. CASE decorators[k] = "access_expire"
  <2>1. Callback(decorators[k], event, c, R, e) = Access(event, c, R, e)
    BY <1>4 DEF Callback
  <2>2. Ran(event, c0, Access(event, c, R, e), e, k)
    BY <1>4, RanAccessed
  <2> QED
    BY <2>1, <2>2
<1>5. CASE decorators[k] = "max_size"
  <2>1. Callback(decorators[k], event, c, R, e) =
          DropTo(c, ShrinkTo(c.queue, CHOOSE v \in settings.max_size : TRUE), R, e)
    BY <1>5 DEF Callback
  <2>2. Ran(event, c0, DropTo(c, ShrinkTo(c.queue, CHOOSE v \in settings.max_size : TRUE), R, e), e, k)
    BY <1>5, RanBounded
  <2> QED
    BY <2>1, <2>2
<1>6. CASE decorators[k] = "weaken" /\ event = "hit"
  <2>1. Callback(decorators[k], event, c, R, e) = c
    BY <1>6 DEF Callback
  <2>2. Ran(event, c0, c, e, k)
    BY <1>6, RanSame
  <2> QED
    BY <2>1, <2>2
<1>7. CASE decorators[k] \notin {"stats", "weaken", "expire_queue", "access_expire", "max_size"}
  <2>1. Callback(decorators[k], event, c, R, e) = c
    BY <1>7 DEF Callback
  <2>2. Ran(event, c0, c, e, k)
    BY <1>7, RanSame
  <2> QED
    BY <2>1, <2>2
<1> QED
  BY <1>1, <1>2, <1>3, <1>4, <1>5, <1>6, <1>7

\* All of them, in the order of the decorators.
LEMMA RanAll ==
  ASSUME Assembled, NEW event \in {"create", "hit"}, NEW c0, NEW R, NEW e, Ran(event, c0, c0, e, 0)
  PROVE  Ran(event, c0, Dispatch(event, c0, R, e), e, Len(decorators))
<1> DEFINE n == Len(decorators)
           Call(i, c) == Callback(decorators[i], event, c, R, e)
           X == CacheType
           F == [i \in 1 .. n |-> [c \in X |-> IF Call(i, c) \in X THEN Call(i, c) ELSE c]]
           Goes(f) == f = [i \in 0 .. n |-> IF i = 0 THEN c0 ELSE Call(i, f[i - 1])]
           at == CHOOSE f : Goes(f)
<1>1. n \in Nat
  BY AssembledFacts
<1>2. \A c, i : Ran(event, c0, c, e, i) => c \in X
  BY DEF Ran, RanQueue, Agreed, Meets, InBucket, Sound
<1>3. c0 \in X
  BY <1>2
<1>4. Dispatch(event, c0, R, e) = at[n]
  BY DEF Dispatch
<1>5. ASSUME NEW i \in 1 .. n, NEW c, Ran(event, c0, c, e, i - 1)
      PROVE  Ran(event, c0, Call(i, c), e, i)
  BY <1>5, RanNext
<1> HIDE DEF n, Call, X
<1>6. F \in [1 .. n -> [X -> X]]
  OBVIOUS
<1>7. PICK g \in [0 .. n -> X] : g[0] = c0 /\ \A i \in 1 .. n : g[i] = F[i][g[i - 1]]
  <2> HIDE DEF F
  <2>1. \E g : Recursion(g, X, c0, n, F)
    BY <1>1, <1>3, <1>6, RecursionExists
  <2> QED
    BY <2>1 DEF Recursion
<1>8. \A i \in 1 .. n : i - 1 \in 0 .. n /\ ~(i <= i - 1) /\ i \in 0 .. n
  BY <1>1
<1>9. \A i \in 0 .. n : i = 0 \/ i \in 1 .. n
  BY <1>1
<1>10. ASSUME NEW i \in 1 .. n, Ran(event, c0, g[i - 1], e, i - 1)
       PROVE  g[i] = Call(i, g[i - 1]) /\ Ran(event, c0, g[i], e, i)
  <2>1. Ran(event, c0, Call(i, g[i - 1]), e, i)
    BY <1>5, <1>10
  <2>2. Call(i, g[i - 1]) \in X
    BY <1>2, <2>1
  <2>3. g[i] = Call(i, g[i - 1])
    BY <1>7, <1>8, <2>2
  <2> QED
    BY <2>1, <2>3
<1>11. \A i \in 0 .. n : Ran(event, c0, g[i], e, i)
  <2> DEFINE Bad == {i \in 0 .. n : ~Ran(event, c0, g[i], e, i)}
  <2>1. SUFFICES ASSUME Bad # {} PROVE FALSE
    OBVIOUS
  <2>2. PICK i \in Bad : \A j \in Bad : i <= j
    <3>1. Bad \subseteq Nat
      BY <1>1
    <3> HIDE DEF Bad
    <3> QED
      BY <2>1, <3>1, LeastNatural
  <2>3. i \in 1 .. n
    BY <1>7, <1>9, <2>2
  <2>4. Ran(event, c0, g[i - 1], e, i - 1)
    BY <1>8, <2>2, <2>3
  <2> QED
    BY <1>10, <2>2, <2>3, <2>4
<1>12. \A i \in 1 .. n : g[i] = Call(i, g[i - 1])
  BY <1>8, <1>10, <1>11
<1>13. Goes(g)
  <2>1. \A i \in 0 .. n : g[i] = IF i = 0 THEN c0 ELSE Call(i, g[i - 1])
    BY <1>7, <1>9, <1>12
  <2>2. g = [i \in 0 .. n |-> g[i]]
    OBVIOUS
  <2> QED
    BY <2>1, <2>2
<1>14. Goes(at)
  <2> HIDE DEF Goes
  <2> QED
    BY <1>13
<1> HIDE DEF at
<1>15. at[0] = c0 /\ \A i \in 1 .. n : at[i] = Call(i, at[i - 1])
  <2>1. \A i \in 0 .. n : at[i] = IF i = 0 THEN c0 ELSE Call(i, at[i - 1])
    BY <1>14
  <2> QED
    BY <1>1, <1>8, <2>1
<1>16. \A i \in 0 .. n : at[i] = g[i]
  <2> DEFINE Bad == {i \in 0 .. n : at[i] # g[i]}
  <2>1. SUFFICES ASSUME Bad # {} PROVE FALSE
    OBVIOUS
  <2>2. PICK i \in Bad : \A j \in Bad : i <= j
    <3>1. Bad \subseteq Nat
      BY <1>1
    <3> HIDE DEF Bad
    <3> QED
      BY <2>1, <3>1, LeastNatural
  <2>3. i \in 1 .. n
    BY <1>7, <1>9, <1>15, <2>2
  <2>4. at[i - 1] = g[i - 1]
    BY <1>8, <2>2, <2>3
  <2> QED
    BY <1>12, <1>15, <2>2, <2>3, <2>4
<1>17. n \in 0 .. n
  BY <1>1
<1> QED
  BY <1>4, <1>11, <1>16, <1>17 DEF n

\* What a call leaves: the queued elements are the strong ones, no more than the
\* limit, the counters balance, and without a limit e is on the queue and nothing
\* was lost that was neither aged nor over.
LEMMA DispatchFacts ==
  ASSUME Assembled, NEW event \in {"create", "hit"}, NEW c, NEW R, NEW e, Meets(event, c, e),
         Has("stats") =>
           c.misses - c.deletes = IF event = "create" THEN Len(c.chain) - 1 ELSE Len(c.chain)
  PROVE  LET d == Dispatch(event, c, R, e)
         IN /\ Agreed(d, e)
            /\ Has("stats") => d.misses - d.deletes = Len(d.chain)
            /\ \A n \in settings.max_size : Cardinality(Queued(d.queue)) <= n
            /\ RanTimes(event, c, d, e)
            /\ Unlimited(event, c, e) /\ settings.access_expire # {} => e \in Queued(d.queue)
            /\ settings.max_size = {} =>
                 \A x \in Queued(c.queue) \ Queued(d.queue) : x = e \/ c.access[x] < now \/ Aged(c, x)
<1> DEFINE n == Len(decorators)
<1>1. \A S : ~Did(S, 0)
  BY DEF Did
<1>2. RanQueue(event, c, e, 0) /\ RanSize(c, 0) /\ RanKept(event, c, c, e, 0)
  BY <1>1 DEF RanQueue, RanSize, RanKept
<1>3. RanStats(event, c, 0)
  BY <1>1 DEF RanStats
<1>4. RanTimes(event, c, c, e)
  BY DEF RanTimes
<1>5. PICK d : d = Dispatch(event, c, R, e)
  OBVIOUS
<1>6. Ran(event, c, d, e, n)
  BY <1>2, <1>3, <1>4, <1>5, RanAll DEF Ran
<1>7. \A x : Has(x) => \E j \in 1 .. n : decorators[j] = x
  BY AssembledFacts, ToSetFacts DEF Has
<1>8. /\ Did({"expire_queue", "weaken"}, n)
      /\ Has("stats") => Did({"stats"}, n)
      /\ settings.max_size # {} => Did({"max_size"}, n)
      /\ settings.access_expire # {} => Did({"expire_queue"}, n)
  BY <1>7, AssembledFacts DEF Did
<1>9. Agreed(d, e)
  BY <1>6, <1>8 DEF Ran, RanQueue
<1>10. Has("stats") => d.misses - d.deletes = Len(d.chain)
  BY <1>6, <1>8 DEF Ran, RanStats
<1>11. \A m \in settings.max_size : Cardinality(Queued(d.queue)) <= m
  BY <1>6, <1>8 DEF Ran, RanSize
<1>12. RanTimes(event, c, d, e)
  BY <1>6 DEF Ran
<1>13. /\ Unlimited(event, c, e) /\ settings.access_expire # {} => e \in Queued(d.queue)
       /\ settings.max_size = {} =>
            \A x \in Queued(c.queue) \ Queued(d.queue) : x = e \/ c.access[x] < now \/ Aged(c, x)
  BY <1>6, <1>8 DEF Ran, RanKept
<1> QED
  BY <1>5, <1>9, <1>10, <1>11, <1>12, <1>13

-----------------------------------------------------------------------------
\* The steps of the cache.

\* What holds of a cache between two calls.
Whole(c) ==
  /\ Sound(c) /\ Queued(c.queue) \subseteq ToSet(c.chain) /\ c.strong = Queued(c.queue)
  /\ \A n \in settings.max_size : Cardinality(Queued(c.queue)) <= n
  /\ Has("stats") => c.misses - c.deletes = Len(c.chain)

\* The inductive invariant.
Inv ==
  /\ settings \in Configs /\ decorators = Decorators(settings) /\ now \in 0 .. MaxTime
  /\ creating \subseteq [key : Keys, start : 0 .. now] /\ (\A m, n \in creating : m = n)
  /\ Whole(cache) /\ held \subseteq Addr /\ life \in {"open", "closing", "gone", "failed"}

\* The invariant says that build() made the cache.
LEMMA InvAssembled ==
  ASSUME Inv
  PROVE  Assembled
BY TimeAssumption DEF Inv, Assembled

\* Erasing elements leaves the cache whole.
LEMMA WholeErased ==
  ASSUME Assembled, NEW c, Whole(c), NEW d, NEW E, Erased(c, d, E)
  PROVE  Whole(d)
<1>1. /\ Sound(d) /\ Queued(d.queue) \subseteq ToSet(d.chain) /\ d.strong = Queued(d.queue)
  BY DEF Whole, Erased
<1>2. ASSUME NEW n \in settings.max_size PROVE Cardinality(Queued(d.queue)) <= n
  <2>1. PICK p, q : p = c.queue /\ q = d.queue
    OBVIOUS
  <2>2. p \in Queues(Addr) /\ q \in Queues(Addr) /\ Queued(q) \subseteq Queued(p)
    BY <2>1 DEF Whole, Erased, Sound, CacheType
  <2>3. /\ IsFiniteSet(Queued(p)) /\ Cardinality(Queued(p)) \in Nat
        /\ Cardinality(Queued(q)) \in Nat
    BY <2>2, QueuedCardinality
  <2>4. Cardinality(Queued(q)) <= Cardinality(Queued(p))
    BY <2>2, <2>3, FS_Subset
  <2>5. n \in Nat /\ Cardinality(Queued(p)) <= n
    BY <2>1, AssembledFacts DEF Whole
  <2> QED
    BY <2>1, <2>3, <2>4, <2>5
<1>3. ASSUME Has("stats") PROVE d.misses - d.deletes = Len(d.chain)
  <2>1. PICK m \in Nat, a \in Nat, b \in Nat, i \in Nat, j \in Nat :
          m = c.misses /\ a = c.deletes /\ b = d.deletes /\ i = Len(c.chain) /\ j = Len(d.chain)
    <3>1. c \in CacheType /\ d \in CacheType
      BY DEF Whole, Erased, Sound
    <3>2. c.chain \in Seq(Addr) /\ d.chain \in Seq(Addr)
      BY <3>1 DEF CacheType
    <3>3. Len(c.chain) \in Nat /\ Len(d.chain) \in Nat
      BY <3>2, LenProperties
    <3> QED
      BY <3>1, <3>3 DEF CacheType
  <2>2. d.misses = c.misses /\ d.deletes + Len(d.chain) = c.deletes + Len(c.chain)
    BY <1>3 DEF Erased
  <2>3. c.misses - c.deletes = Len(c.chain)
    BY <1>3 DEF Whole
  <2>4. m - a = i /\ b + j = a + i
    BY <2>1, <2>2, <2>3
  <2>5. m - b = j
    BY <2>4
  <2> QED
    BY <2>1, <2>2, <2>5
<1> QED
  BY <1>1, <1>2, <1>3 DEF Whole

\* A new element of the bucket, as the creation m makes it.
Created(c, e, m) ==
  [c EXCEPT !.chain = Append(@, e), !.strong = @ \union {e},
            !.key[e] = m.key,
            !.age[e] = Until(m.start, settings.max_age),
            !.access[e] = Until(m.start, settings.access_expire)]

\* The callbacks meet it, and the others are as they were.
LEMMA CreatedFacts ==
  ASSUME Assembled, NEW c, Whole(c), NEW e \in Addr, e \notin ToSet(c.chain),
         NEW m, m.key \in Keys, m.start \in Nat
  PROVE  LET f == Created(c, e, m)
         IN /\ Meets("create", f, e) /\ f.queue = c.queue
            /\ f.access[e] = Until(m.start, settings.access_expire)
            /\ Has("stats") => f.misses - f.deletes = Len(f.chain) - 1
            /\ \A x \in Addr : x # e => f.age[x] = c.age[x] /\ f.access[x] = c.access[x]
<1>1. /\ c \in CacheType /\ c.chain \in Seq(Addr) /\ c.queue \in Queues(Addr)
      /\ c.strong \subseteq Addr /\ c.key \in [Addr -> Keys \union {None}]
      /\ c.age \in [Addr -> TimePoints] /\ c.access \in [Addr -> TimePoints]
      /\ c.misses \in Nat /\ c.deletes \in Nat
  BY DEF Whole, Sound, CacheType
<1>2. PICK u \in TimePoints, v \in TimePoints :
        u = Until(m.start, settings.max_age) /\ v = Until(m.start, settings.access_expire)
  BY AssembledFacts
<1>3. PICK s, ch, q, st, ky, ag, ac, n :
        /\ s = c.chain /\ ch = Append(s, e) /\ q = c.queue /\ st = c.strong \union {e}
        /\ ky = [c.key EXCEPT ![e] = m.key] /\ ag = [c.age EXCEPT ![e] = u]
        /\ ac = [c.access EXCEPT ![e] = v] /\ n = c.deletes
  OBVIOUS
<1>4. PICK f : f = Created(c, e, m)
  OBVIOUS
<1>5. Updated(c, f, ch, q, st, ky, ag, ac, n)
  <2>1. f = [c EXCEPT !.chain = ch, !.strong = st, !.key = ky, !.age = ag, !.access = ac]
    BY <1>2, <1>3, <1>4 DEF Created
  <2> QED
    BY <1>1, <1>3, <2>1 DEF Updated, CacheType
<1>6. /\ ch \in Seq(Addr) /\ Len(ch) = Len(s) + 1 /\ Len(s) \in Nat
      /\ \A i \in 1 .. Len(s) : ch[i] = s[i] /\ s[i] \in ToSet(s)
      /\ ch[Len(s) + 1] = e
  <2>1. s \in Seq(Addr) /\ ch = Append(s, e)
    BY <1>1, <1>3
  <2>2. Len(s) \in Nat /\ \A i \in 1 .. Len(s) : s[i] \in ToSet(s)
    BY <2>1, LenProperties, ToSetFacts
  <2>3. /\ ch \in Seq(Addr) /\ Len(ch) = Len(s) + 1 /\ ch[Len(s) + 1] = e
        /\ \A i \in 1 .. Len(s) : ch[i] = s[i]
    BY <2>1, AppendProperties
  <2> QED
    BY <2>2, <2>3
<1>7. ToSet(ch) = ToSet(s) \union {e} /\ Distinct(ch)
  <2>1. \A x \in ToSet(s) : \E i \in 1 .. Len(s) : x = s[i]
    <3>1. s \in Seq(Addr)
      BY <1>1, <1>3
    <3> QED
      BY <3>1, ToSetFacts
  <2>2. /\ \A i \in 1 .. Len(ch) : ch[i] \in ToSet(ch)
        /\ \A x \in ToSet(ch) : \E i \in 1 .. Len(ch) : x = ch[i]
    BY <1>6, ToSetFacts
  <2>3. \A i \in 1 .. Len(ch) : i \in 1 .. Len(s) \/ i = Len(s) + 1
    BY <1>6
  <2>4. Len(s) + 1 \in 1 .. Len(ch) /\ \A i \in 1 .. Len(s) : i \in 1 .. Len(ch)
    BY <1>6
  <2>5. ToSet(ch) = ToSet(s) \union {e}
    BY <1>6, <2>1, <2>2, <2>3, <2>4
  <2>6. \A i \in 1 .. Len(s) : s[i] # e
    BY <1>3, <1>6
  <2>7. \A i, j \in 1 .. Len(s) : s[i] = s[j] => i = j
    BY <1>3 DEF Whole, Sound, Distinct
  <2>8. ASSUME NEW i \in 1 .. Len(ch), NEW j \in 1 .. Len(ch), ch[i] = ch[j] PROVE i = j
    BY <1>6, <2>3, <2>6, <2>7, <2>8
  <2> QED
    BY <2>5, <2>8 DEF Distinct
<1>8. /\ ky \in [Addr -> Keys \union {None}] /\ st \in SUBSET Addr /\ n \in Nat
      /\ q \in Queues(Addr)
      /\ ag \in [Addr -> TimePoints] /\ ac \in [Addr -> TimePoints]
  BY <1>1, <1>2, <1>3
<1>9. f \in CacheType
  BY <1>1, <1>5, <1>6, <1>8, UpdatedCache
<1>10. /\ f.chain = ch /\ f.queue = q /\ f.strong = st /\ f.age = ag /\ f.access = ac
       /\ f.deletes = n /\ f.misses = c.misses
  BY <1>1, <1>5, <1>6, <1>8, UpdatedCache
<1>11. /\ NoDup(q) /\ IsBalanced(q) /\ Queued(q) \subseteq ToSet(s) /\ c.strong = Queued(q)
  BY <1>3 DEF Whole, Sound
<1>12. Meets("create", f, e)
  <2>1. Sound(f) /\ e \in ToSet(f.chain) /\ Queued(f.queue) \subseteq ToSet(f.chain)
    BY <1>7, <1>9, <1>10, <1>11 DEF Sound
  <2>2. e \notin Queued(f.queue) /\ f.strong = Queued(f.queue) \union {e}
    BY <1>3, <1>10, <1>11
  <2> QED
    BY <2>1, <2>2 DEF Meets, InBucket
<1>13. f.access[e] = v /\ \A x \in Addr : x # e => f.age[x] = c.age[x] /\ f.access[x] = c.access[x]
  BY <1>1, <1>3, <1>10
<1>14. Has("stats") => f.misses - f.deletes = Len(f.chain) - 1
  <2>1. Has("stats") => c.misses - c.deletes = Len(s)
    BY <1>3 DEF Whole
  <2> QED
    BY <1>3, <1>6, <1>10, <2>1
<1> QED
  BY <1>2, <1>3, <1>4, <1>10, <1>12, <1>13, <1>14

\* The callbacks leave a whole cache.
LEMMA WholeDispatched ==
  ASSUME Assembled, NEW event \in {"create", "hit"}, NEW c, NEW R, NEW e, Meets(event, c, e),
         Has("stats") =>
           c.misses - c.deletes = IF event = "create" THEN Len(c.chain) - 1 ELSE Len(c.chain)
  PROVE  Whole(Dispatch(event, c, R, e))
<1>1. PICK d : d = Dispatch(event, c, R, e)
  OBVIOUS
<1>2. /\ Agreed(d, e)
      /\ Has("stats") => d.misses - d.deletes = Len(d.chain)
      /\ \A n \in settings.max_size : Cardinality(Queued(d.queue)) <= n
  BY <1>1, DispatchFacts
<1>3. Whole(d)
  BY <1>2 DEF Whole, Agreed, InBucket
<1> QED
  BY <1>1, <1>3

\* The walk erases elements of the bucket that are expired.
LEMMA WalkedFacts ==
  ASSUME Inv, NEW i \in 0 .. Len(cache.chain)
  PROVE  \E D : /\ Erased(cache, Walked(i), D) /\ Whole(Walked(i))
                /\ D \subseteq ToSet(cache.chain)
                /\ \A x \in D : Expired(cache, held, x)
<1> DEFINE D == {x \in ToSet(SubSeq(cache.chain, 1, i)) : Expired(cache, held, x)}
<1>1. Whole(cache) /\ Assembled
  BY InvAssembled DEF Inv
<1>2. Sound(cache)
  BY <1>1 DEF Whole
<1>3. PICK s \in Seq(Addr) : s = cache.chain
  BY <1>2 DEF Sound, CacheType
<1>4. ToSet(SubSeq(s, 1, i)) \subseteq ToSet(s)
  <2>1. PICK t : t = SubSeq(s, 1, i)
    OBVIOUS
  <2>2. Len(s) \in Nat
    BY <1>3, LenProperties
  <2>3. i \in Nat /\ i <= Len(s)
    BY <1>3, <2>2
  <2>4. t \in Seq(Addr) /\ Len(t) = i /\ \A j \in 1 .. i : t[j] = s[j]
    BY <1>3, <2>1, <2>2, <2>3, SubSeqProperties
  <2>5. \A x \in ToSet(t) : \E j \in 1 .. Len(t) : x = t[j]
    BY <2>4, ToSetFacts
  <2>6. \A j \in 1 .. Len(s) : s[j] \in ToSet(s)
    BY <1>3, ToSetFacts
  <2>7. \A j \in 1 .. i : j \in 1 .. Len(s)
    BY <2>2, <2>3
  <2> QED
    BY <2>1, <2>4, <2>5, <2>6, <2>7
<1>5. D \subseteq ToSet(cache.chain) /\ \A x \in D : Expired(cache, held, x)
  BY <1>3, <1>4
<1>6. Walked(i) = EraseAll(cache, D)
  BY DEF Walked
<1> HIDE DEF D
<1>7. Erased(cache, Walked(i), D)
  BY <1>2, <1>5, <1>6, EraseAllFacts
<1>8. Whole(Walked(i))
  BY <1>1, <1>7, WholeErased
<1> QED
  BY <1>5, <1>7, <1>8

\* Without a size limit, a get takes only what is over or aged from the queue,
\* besides its element e.
Spares(e) ==
  settings.max_size = {} =>
    \A x \in Queued(cache.queue) \ Queued(cache'.queue) :
      x = e \/ cache.access[x] < now \/ Aged(cache, x)

\* What is walked over on the queue is aged, since it is strong.
LEMMA WalkedAged ==
  ASSUME Inv, NEW x \in Queued(cache.queue), Expired(cache, held, x)
  PROVE  Aged(cache, x)
BY DEF Inv, Whole, Expired

\* A hit.
LEMMA GetHitStep ==
  ASSUME Inv, NEW k, NEW e, GetHit(k, e)
  PROVE  /\ e \in Addr /\ Spares(e)
         /\ settings.access_expire # {} /\ Unlimited("hit", cache, e) => e \in Queued(cache'.queue)
         /\ \E c : cache' = c /\ Whole(c)
<1>1. PICK i \in Usable(k) : /\ e = cache.chain[i]
                             /\ cache' = Dispatch("hit", Walked(i), held \union {e}, e)
  BY DEF GetHit
<1>2. Assembled /\ Whole(cache)
  BY InvAssembled DEF Inv
<1>3. cache.chain \in Seq(Addr) /\ Queued(cache.queue) \subseteq ToSet(cache.chain)
  BY <1>2 DEF Whole, Sound, CacheType
<1>4. /\ i \in 1 .. Len(cache.chain) /\ i \in 0 .. Len(cache.chain) /\ e \in ToSet(cache.chain)
      /\ ~Expired(cache, held, e) /\ ToSet(cache.chain) \subseteq Addr
  <2>1. i \in 1 .. Len(cache.chain) /\ ~Expired(cache, held, e)
    BY <1>1, <1>3 DEF Usable
  <2>2. Len(cache.chain) \in Nat
    BY <1>3, LenProperties
  <2>3. cache.chain[i] \in ToSet(cache.chain) /\ ToSet(cache.chain) \subseteq Addr
    BY <1>3, <2>1, ToSetFacts
  <2> QED
    BY <1>1, <2>1, <2>2, <2>3
<1>5. PICK D : /\ Erased(cache, Walked(i), D) /\ Whole(Walked(i))
               /\ D \subseteq ToSet(cache.chain) /\ \A x \in D : Expired(cache, held, x)
  BY <1>4, WalkedFacts
<1>6. PICK c : c = Walked(i)
  OBVIOUS
<1>7. Whole(c) /\ Erased(cache, c, D) /\ e \in ToSet(c.chain)
  BY <1>4, <1>5, <1>6 DEF Erased
<1>8. Meets("hit", c, e)
  BY <1>7 DEF Meets, InBucket, Whole
<1>9. PICK R : R = held \union {e}
  OBVIOUS
<1>10. PICK d : d = Dispatch("hit", c, R, e)
  OBVIOUS
<1>11. cache' = d
  BY <1>1, <1>6, <1>9, <1>10
<1>12. Has("stats") => c.misses - c.deletes = Len(c.chain)
  BY <1>7 DEF Whole
<1>13. Whole(d)
  BY <1>2, <1>8, <1>10, <1>12, WholeDispatched
<1>14. /\ Unlimited("hit", c, e) /\ settings.access_expire # {} => e \in Queued(d.queue)
       /\ settings.max_size = {} =>
            \A x \in Queued(c.queue) \ Queued(d.queue) : x = e \/ c.access[x] < now \/ Aged(c, x)
  BY <1>2, <1>8, <1>10, <1>12, DispatchFacts
<1>15. ASSUME settings.max_size = {}, NEW x \in Queued(cache.queue), x \notin Queued(d.queue)
       PROVE  x = e \/ cache.access[x] < now \/ Aged(cache, x)
  <2>1. CASE x \in D
    BY <1>5, <2>1, WalkedAged
  <2>2. CASE x \notin D
    <3>1. x \in Addr \ D /\ x \in Queued(c.queue)
      BY <1>3, <1>4, <1>7, <2>2 DEF Erased
    <3>2. c.age[x] = cache.age[x] /\ c.access[x] = cache.access[x]
      BY <1>7, <3>1 DEF Erased
    <3>3. x = e \/ c.access[x] < now \/ Aged(c, x)
      BY <1>14, <1>15, <3>1
    <3> QED
      BY <3>2, <3>3 DEF Aged
  <2> QED
    BY <2>1, <2>2
<1>16. Spares(e)
  BY <1>11, <1>15 DEF Spares
<1>17. Unlimited("hit", cache, e) => Unlimited("hit", c, e)
  BY DEF Unlimited
<1> QED
  BY <1>4, <1>11, <1>13, <1>14, <1>16, <1>17

\* A miss.
LEMMA MissStep ==
  ASSUME Inv, NEW k \in Keys, Miss(k)
  PROVE  /\ \A x \in Queued(cache.queue) \ Queued(cache'.queue) : Aged(cache, x)
         /\ \E c : cache' = c /\ Whole(c)
<1>1. Len(cache.chain) \in 0 .. Len(cache.chain) /\ cache' = Walked(Len(cache.chain))
  <2>1. cache.chain \in Seq(Addr)
    BY DEF Inv, Whole, Sound, CacheType
  <2> QED
    BY <2>1, LenProperties DEF Miss
<1>2. PICK D : /\ Erased(cache, Walked(Len(cache.chain)), D) /\ Whole(Walked(Len(cache.chain)))
               /\ D \subseteq ToSet(cache.chain) /\ \A x \in D : Expired(cache, held, x)
  BY <1>1, WalkedFacts
<1>3. PICK c : c = Walked(Len(cache.chain))
  OBVIOUS
<1>4. \A x \in Queued(cache.queue) \ Queued(c.queue) : x \in D
  BY <1>2, <1>3 DEF Erased
<1>5. \A x \in Queued(cache.queue) \ Queued(c.queue) : Aged(cache, x)
  BY <1>2, <1>4, WalkedAged
<1> QED
  BY <1>1, <1>2, <1>3, <1>5

\* The element of the creation under way is linked.
LEMMA CreateStep ==
  ASSUME Inv, NEW e \in Addr, Create(e)
  PROVE  /\ Spares(e) /\ e \notin Queued(cache.queue)
         /\ \E m \in creating :
              /\ settings.max_size = {} /\ settings.access_expire # {}
              /\ now <= Until(m.start, settings.access_expire)
              => e \in Queued(cache'.queue)
         /\ \E c : cache' = c /\ Whole(c)
<1>1. PICK m \in creating :
        /\ e \notin ToSet(cache.chain)
        /\ cache' = Dispatch("create", Created(cache, e, m), held \union {e}, e)
  BY DEF Create, Created
<1>2. Assembled /\ Whole(cache)
  BY InvAssembled DEF Inv
<1>3. m.key \in Keys /\ m.start \in Nat
  BY DEF Inv
<1>4. Queued(cache.queue) \subseteq ToSet(cache.chain) /\ Queued(cache.queue) \subseteq Addr
  <2>1. cache.queue \in Queues(Addr) /\ Queued(cache.queue) \subseteq ToSet(cache.chain)
    BY <1>2 DEF Whole, Sound, CacheType
  <2> QED
    BY <2>1, QueueType, ToSetFacts
<1>5. PICK c : c = Created(cache, e, m)
  OBVIOUS
<1>6. /\ Meets("create", c, e) /\ c.queue = cache.queue
      /\ c.access[e] = Until(m.start, settings.access_expire)
      /\ Has("stats") => c.misses - c.deletes = Len(c.chain) - 1
      /\ \A x \in Addr : x # e => c.age[x] = cache.age[x] /\ c.access[x] = cache.access[x]
  BY <1>1, <1>2, <1>3, <1>5, CreatedFacts
<1>7. PICK R, d : R = held \union {e} /\ d = Dispatch("create", c, R, e)
  OBVIOUS
<1>8. cache' = d
  BY <1>1, <1>5, <1>7
<1>9. Whole(d)
  BY <1>2, <1>6, <1>7, WholeDispatched
<1>10. /\ Unlimited("create", c, e) /\ settings.access_expire # {} => e \in Queued(d.queue)
       /\ settings.max_size = {} =>
            \A x \in Queued(c.queue) \ Queued(d.queue) : x = e \/ c.access[x] < now \/ Aged(c, x)
  BY <1>2, <1>6, <1>7, DispatchFacts
<1>11. Spares(e)
  <2>1. SUFFICES ASSUME settings.max_size = {}, NEW x \in Queued(cache.queue), x \notin Queued(d.queue)
                 PROVE  x = e \/ cache.access[x] < now \/ Aged(cache, x)
    BY <1>8 DEF Spares
  <2>2. x \in Addr /\ x # e /\ (c.access[x] < now \/ Aged(c, x))
    BY <1>1, <1>4, <1>6, <1>10, <2>1
  <2> QED
    BY <1>6, <2>2 DEF Aged
<1>12. settings.max_size = {} /\ now <= Until(m.start, settings.access_expire)
         => Unlimited("create", c, e)
  BY <1>6 DEF Unlimited
<1> QED
  BY <1>1, <1>4, <1>8, <1>9, <1>10, <1>11, <1>12

\* Expiring a key erases what the walk finds expired, and one element of the key.
LEMMA ExpireStep ==
  ASSUME Inv, NEW k, Expire(k)
  PROVE  /\ \E c : cache' = c /\ Whole(c)
         /\ \A x \in Queued(cache.queue) \ Queued(cache'.queue) :
              Aged(cache, x) \/ cache.key[x] = k
<1>1. Assembled /\ Whole(cache)
  BY InvAssembled DEF Inv
<1>2. cache.chain \in Seq(Addr) /\ Len(cache.chain) \in Nat
  BY <1>1, LenProperties DEF Whole, Sound, CacheType
<1>3. CASE Usable(k) = {}
  <2>1. Len(cache.chain) \in 0 .. Len(cache.chain) /\ cache' = Walked(Len(cache.chain))
    BY <1>2, <1>3 DEF Expire
  <2>2. PICK D : /\ Erased(cache, Walked(Len(cache.chain)), D) /\ Whole(Walked(Len(cache.chain)))
                 /\ D \subseteq ToSet(cache.chain) /\ \A x \in D : Expired(cache, held, x)
    BY <2>1, WalkedFacts
  <2>3. PICK c : c = Walked(Len(cache.chain))
    OBVIOUS
  <2>4. \A x \in Queued(cache.queue) \ Queued(c.queue) : x \in D
    BY <2>2, <2>3 DEF Erased
  <2>5. \A x \in Queued(cache.queue) \ Queued(c.queue) : Aged(cache, x)
    BY <2>2, <2>4, WalkedAged
  <2> QED
    BY <2>1, <2>2, <2>3, <2>5
<1>4. CASE Usable(k) # {}
  <2>1. PICK i \in Usable(k) : cache' = Erase(Walked(i), cache.chain[i])
    BY <1>4 DEF Expire
  <2>2. PICK e : e = cache.chain[i]
    OBVIOUS
  <2>3. /\ i \in 1 .. Len(cache.chain) /\ i \in 0 .. Len(cache.chain)
        /\ ~Expired(cache, held, e) /\ cache.key[e] = k
    BY <1>2, <2>2 DEF Usable
  <2>4. e \in ToSet(cache.chain) /\ ToSet(cache.chain) \subseteq Addr
    BY <1>2, <2>2, <2>3, ToSetFacts
  <2>5. PICK D : /\ Erased(cache, Walked(i), D) /\ Whole(Walked(i))
                 /\ D \subseteq ToSet(cache.chain) /\ \A x \in D : Expired(cache, held, x)
    BY <2>3, WalkedFacts
  <2>6. PICK w, c : w = Walked(i) /\ c = Erase(w, e)
    OBVIOUS
  <2>7. Whole(w) /\ Erased(cache, w, D) /\ e \in ToSet(w.chain) /\ Sound(w) /\ e \in Addr
    BY <2>3, <2>4, <2>5, <2>6 DEF Erased, Whole
  <2>8. Erased(w, c, {e})
    BY <2>6, <2>7, EraseFacts
  <2>9. Whole(c)
    BY <1>1, <2>7, <2>8, WholeErased
  <2>10. \A x \in Queued(cache.queue) \ Queued(c.queue) : x \in D \/ x = e
    BY <2>7, <2>8 DEF Erased
  <2>11. \A x \in Queued(cache.queue) \ Queued(c.queue) : Aged(cache, x) \/ cache.key[x] = k
    BY <2>3, <2>5, <2>10, WalkedAged
  <2>12. cache' = c
    BY <2>1, <2>2, <2>6
  <2> QED
    BY <2>9, <2>11, <2>12
<1> QED
  BY <1>3, <1>4

\* ~bucket erases the elements one by one.
LEMMA DestroyStep ==
  ASSUME Inv, Destroy
  PROVE  \E c : cache' = c /\ Whole(c)
<1>1. Assembled /\ Whole(cache)
  BY InvAssembled DEF Inv
<1>2. CASE cache.chain = <<>>
  BY <1>1, <1>2 DEF Destroy
<1>3. CASE cache.chain # <<>>
  <2>1. PICK s \in Seq(Addr) : s = cache.chain
    BY <1>1 DEF Whole, Sound, CacheType
  <2>2. Len(s) \in Nat /\ Len(s) # 0 /\ Head(s) = s[1]
    BY <1>3, <2>1, EmptySeq, LenProperties, HeadTailProperties
  <2>3. 1 \in 1 .. Len(s)
    BY <2>2
  <2>4. Head(s) \in ToSet(s) /\ ToSet(s) \subseteq Addr
    BY <2>1, <2>2, <2>3, ToSetFacts
  <2>5. PICK e, c : e = Head(s) /\ c = Erase(cache, e)
    OBVIOUS
  <2>6. cache' = c
    BY <1>3, <2>1, <2>5 DEF Destroy
  <2>7. Erased(cache, c, {e})
    BY <1>1, <2>1, <2>4, <2>5, EraseFacts DEF Whole
  <2>8. Whole(c)
    BY <1>1, <2>7, WholeErased
  <2> QED
    BY <2>6, <2>8
<1> QED
  BY <1>2, <1>3

-----------------------------------------------------------------------------
\* Every step keeps the invariant.

\* A new cache is empty.
LEMMA InitInv ==
  ASSUME Init
  PROVE  Inv
<1>1. cache.chain = <<>> /\ cache.queue = EmptyQueue /\ cache.strong = {}
      /\ cache.misses = 0 /\ cache.deletes = 0
  BY DEF Init
<1>2. EmptyQueue \in Queues(Addr) /\ NoDup(EmptyQueue) /\ IsBalanced(EmptyQueue)
  BY DEF EmptyQueue, Queues, NoDup, IsBalanced, Distinct, QSize
<1>3. Queued(EmptyQueue) = {} /\ ToSet(<<>>) = {}
  BY DEF Queued, EmptyQueue, ToSet
<1>4. Cardinality({}) = 0
  BY FS_EmptySet
<1>5. Sound(cache)
  <2>1. 0 \in TimePoints
    BY TimeAssumption DEF TimePoints
  <2>2. cache \in CacheType
    BY <1>2, <2>1 DEF Init, CacheType
  <2>3. Distinct(<<>>)
    BY DEF Distinct
  <2> QED
    BY <1>1, <1>2, <2>2, <2>3 DEF Sound
<1>6. settings \in Configs /\ decorators = Decorators(settings) /\ now \in 0 .. MaxTime
      /\ creating = {}
  BY TimeAssumption DEF Init
<1>7. \A n \in settings.max_size : n \in Nat
  BY <1>6, ConfigAssumption
<1>8. \A n \in settings.max_size : Cardinality(Queued(cache.queue)) <= n
  BY <1>1, <1>3, <1>4, <1>7
<1>9. Len(cache.chain) = 0
  BY <1>1
<1>10. Whole(cache)
  BY <1>1, <1>3, <1>5, <1>8, <1>9 DEF Whole
<1> QED
  BY <1>6, <1>10 DEF Inv, Init

\* A step that changes the cache to a whole one and leaves the settings.
LEMMA InvKept ==
  ASSUME Inv, UNCHANGED config, now' \in 0 .. MaxTime, held' \subseteq Addr,
         creating' \subseteq [key : Keys, start : 0 .. now'], \A m, n \in creating' : m = n,
         life' \in {"open", "closing", "gone", "failed"}, NEW c, cache' = c, Whole(c)
  PROVE  Inv'
<1>1. settings' = settings /\ decorators' = decorators
  BY DEF config
<1>2. Whole(cache)'
  BY <1>1 DEF Whole, Has
<1> QED
  BY <1>1, <1>2 DEF Inv

\* The invariant is inductive.
LEMMA StepInv ==
  ASSUME Inv, [Next]_vars
  PROVE  Inv'
<1>1. /\ Whole(cache) /\ now \in 0 .. MaxTime /\ held \subseteq Addr
      /\ life \in {"open", "closing", "gone", "failed"}
      /\ creating \subseteq [key : Keys, start : 0 .. now] /\ \A m, n \in creating : m = n
  BY DEF Inv
<1>2. ASSUME NEW k \in Keys, NEW e \in Addr, GetHit(k, e) PROVE Inv'
  <2>1. PICK c : cache' = c /\ Whole(c)
    BY <1>2, GetHitStep
  <2>2. UNCHANGED <<config, now, creating, life>> /\ held' \subseteq Addr
    BY <1>1, <1>2 DEF GetHit
  <2> QED
    BY <1>1, <2>1, <2>2, InvKept
<1>3. ASSUME NEW k \in Keys, Miss(k) PROVE Inv'
  <2>1. PICK c : cache' = c /\ Whole(c)
    BY <1>3, MissStep
  <2>2. UNCHANGED <<config, now, held, life>> /\ creating' = {[key |-> k, start |-> now]}
    BY <1>3 DEF Miss
  <2>3. [key |-> k, start |-> now] \in [key : Keys, start : 0 .. now']
    BY <1>1, <2>2
  <2>4. creating' \subseteq [key : Keys, start : 0 .. now'] /\ \A m, n \in creating' : m = n
    BY <2>2, <2>3
  <2> QED
    BY <1>1, <2>1, <2>2, <2>4, InvKept
<1>4. ASSUME NEW k \in Keys, Peek(k) PROVE Inv'
  <2>1. UNCHANGED <<config, now, cache, creating, life>>
    BY <1>4 DEF Peek
  <2>2. held' \subseteq Addr
    <3>1. PICK i \in Usable(k) : held' = held \union {cache.chain[i]}
      BY <1>4 DEF Peek
    <3>2. cache.chain \in Seq(Addr) /\ i \in 1 .. Len(cache.chain)
      BY <1>1, <3>1 DEF Whole, Sound, CacheType, Usable
    <3> QED
      BY <1>1, <3>1, <3>2
  <2> QED
    BY <1>1, <2>1, <2>2, InvKept
<1>5. ASSUME NEW k \in Keys, Expire(k) PROVE Inv'
  <2>1. PICK c : cache' = c /\ Whole(c)
    BY <1>5, ExpireStep
  <2>2. UNCHANGED <<config, now, creating, held, life>>
    BY <1>5 DEF Expire
  <2> QED
    BY <1>1, <2>1, <2>2, InvKept
<1>6. ASSUME NEW e \in Addr, Release(e) PROVE Inv'
  <2>1. UNCHANGED <<config, now, cache, creating, life>> /\ held' \subseteq Addr
    BY <1>1, <1>6 DEF Release
  <2> QED
    BY <1>1, <2>1, InvKept
<1>7. ASSUME Tick PROVE Inv'
  <2>1. UNCHANGED <<config, cache, creating, held, life>> /\ now' \in 0 .. MaxTime
        /\ 0 .. now \subseteq 0 .. now'
    BY <1>1, <1>7, TimeAssumption DEF Tick
  <2> QED
    BY <1>1, <2>1, InvKept
<1>8. ASSUME Close PROVE Inv'
  <2>1. UNCHANGED <<config, now, cache, creating, held>> /\ life' = "closing"
    BY <1>8 DEF Close
  <2> QED
    BY <1>1, <2>1, InvKept
<1>9. ASSUME Destroy PROVE Inv'
  <2>1. PICK c : cache' = c /\ Whole(c)
    BY <1>9, DestroyStep
  <2>2. UNCHANGED <<config, now, creating, held>> /\ life' \in {"open", "closing", "gone", "failed"}
    BY <1>1, <1>9 DEF Destroy
  <2> QED
    BY <1>1, <2>1, <2>2, InvKept
<1>10. ASSUME UNCHANGED vars PROVE Inv'
  <2>1. UNCHANGED <<config, now, cache, creating, held, life>>
    BY <1>10 DEF vars
  <2> QED
    BY <1>1, <2>1, InvKept
<1>11. ASSUME NEW e \in Addr, Create(e) PROVE Inv'
  <2>1. PICK c : cache' = c /\ Whole(c)
    BY <1>11, CreateStep
  <2>2. /\ UNCHANGED <<config, now>> /\ creating' = {} /\ held' \subseteq Addr
        /\ life' \in {"open", "closing", "gone", "failed"}
    BY <1>1, <1>11 DEF Create
  <2> QED
    BY <1>1, <2>1, <2>2, InvKept
<1>12. ASSUME CreateThrows PROVE Inv'
  <2>1. UNCHANGED <<config, now, cache, held, life>> /\ creating' = {}
    BY <1>12 DEF CreateThrows
  <2> QED
    BY <1>1, <2>1, InvKept
<1> QED
  BY <1>2, <1>3, <1>4, <1>5, <1>6, <1>7, <1>8, <1>9, <1>10, <1>11, <1>12 DEF Next

\* DecoratedInvariant: at any time the decorators are those that build() makes of
\* the settings, the cache is sound, its queued elements are in the bucket and are
\* the strong ones, no more than max_size, and the counters balance.
THEOREM DecoratedInvariant == Spec => []Inv
<1>1. Init => Inv
  BY InitInv
<1>2. Inv /\ [Next]_vars => Inv'
  BY StepInv
<1> QED
  BY <1>1, <1>2, PTL DEF Spec

\* DecoratedTypes: the state of a decorated cache has its types at any time: no time
\* point leaves the width of the clock, and no counter becomes negative.
THEOREM DecoratedTypes == Spec => []TypeOK
<1>1. Inv => TypeOK
  <2>1. SUFFICES ASSUME Inv PROVE TypeOK
    OBVIOUS
  <2>2. cache \in CacheType /\ cache.strong \subseteq ToSet(cache.chain)
    BY <2>1 DEF Inv, Whole, Sound
  <2>3. PICK q : q = cache.queue
    OBVIOUS
  <2>4. q \in Queues(Addr) /\ q.order \in Seq(Addr) /\ q.hots \in 0 .. QSize(q)
    <3>1. q \in Queues(Addr)
      BY <2>2, <2>3 DEF CacheType
    <3>2. QSize(q) \in Nat
      BY <3>1, QueueType
    <3> QED
      BY <3>1, <3>2 DEF Queues
  <2>5. /\ cache.chain \in Seq(Addr) /\ cache.key \in [Addr -> Keys \union {None}]
        /\ {cache.age, cache.access} \subseteq [Addr -> -Horizon .. Horizon - 1]
        /\ {cache.hits, cache.misses, cache.deletes} \subseteq Nat
    BY <2>2 DEF CacheType, TimePoints
  <2> QED
    BY <2>1, <2>2, <2>3, <2>4, <2>5 DEF TypeOK, Inv
<1> QED
  BY <1>1, DecoratedInvariant, PTL

\* TheLimitActs: whatever settings a cache is built from, between calls it keeps at
\* most max_size elements alive, and they are the queued ones.
THEOREM TheLimitActs == Spec => []LimitActs
<1>1. Inv => LimitActs
  BY DEF Inv, Whole, LimitActs
<1> QED
  BY <1>1, DecoratedInvariant, PTL

\* TheStatsBalance: the counters of misses and deletes differ by the number of
\* elements in the cache at any time.
THEOREM TheStatsBalance == Spec => []StatsBalance
<1>1. Inv => StatsBalance
  BY DEF Inv, Whole, StatsBalance
<1> QED
  BY <1>1, DecoratedInvariant, PTL

\* The time points that the access times need can be represented.
Representable == \A s \in Configs : \A d \in s.access_expire : MaxTime + d < Horizon

\* A time point that can be represented is computed without overflow.
LEMMA UntilKept ==
  ASSUME Inv, Representable, settings.access_expire # {}, NEW t \in 0 .. now
  PROVE  \E d \in settings.access_expire : Until(t, settings.access_expire) = t + d
<1>1. PICK d \in settings.access_expire :
        Until(t, settings.access_expire) = ((t + d + Horizon) % (2 * Horizon)) - Horizon
  BY DEF Until
<1>2. d \in Nat /\ MaxTime + d < Horizon /\ now \in 0 .. MaxTime
  BY ConfigAssumption DEF Inv, Representable
<1>3. MaxTime \in Nat /\ Horizon \in Nat
  BY TimeAssumption
<1>4. t + d + Horizon \in 0 .. (2 * Horizon) - 1 /\ 2 * Horizon \in Nat \ {0}
  BY <1>2, <1>3
<1>5. ASSUME NEW m \in Nat \ {0}, NEW x \in 0 .. m - 1 PROVE x % m = x
  BY <1>5
<1>6. (t + d + Horizon) % (2 * Horizon) = t + d + Horizon
  BY <1>4, <1>5
<1> QED
  BY <1>1, <1>2, <1>3, <1>6

\* The element that a get returns is on the queue.
LEMMA GotKept ==
  ASSUME Inv, Representable, settings.max_size = {}, settings.access_expire # {},
         NEW e \in Addr
  PROVE  /\ (\E k \in Keys : GetHit(k, e)) => e \in Queued(cache'.queue)
         /\ Create(e) /\ InTime => e \in Queued(cache'.queue)
<1>1. now \in Nat /\ now \in 0 .. now /\ settings.access_expire \subseteq Nat
  BY TimeAssumption, ConfigAssumption DEF Inv
<1>2. ASSUME NEW k \in Keys, GetHit(k, e) PROVE e \in Queued(cache'.queue)
  <2>1. PICK d \in settings.access_expire : Until(now, settings.access_expire) = now + d
    BY <1>1, UntilKept
  <2>2. now <= Until(now, settings.access_expire)
    BY <1>1, <2>1
  <2>3. Unlimited("hit", cache, e)
    BY <2>2 DEF Unlimited
  <2> QED
    BY <1>2, <2>3, GetHitStep
<1>3. ASSUME Create(e), InTime PROVE e \in Queued(cache'.queue)
  <2>1. PICK m \in creating :
          /\ settings.max_size = {} /\ settings.access_expire # {}
          /\ now <= Until(m.start, settings.access_expire)
          => e \in Queued(cache'.queue)
    BY <1>3, CreateStep
  <2>2. m.start \in 0 .. now
    BY DEF Inv
  <2>3. PICK d \in settings.access_expire : Until(m.start, settings.access_expire) = m.start + d
    BY <2>2, UntilKept
  <2>4. now <= m.start + d
    BY <1>3 DEF InTime
  <2> QED
    BY <2>1, <2>3, <2>4
<1> QED
  BY <1>2, <1>3

\* What AccessKept and GotIsKept say of one step.
LEMMA StepKept ==
  ASSUME Inv, Representable, [Next]_vars, settings.max_size = {}, settings.access_expire # {}
  PROVE  /\ life = "open" =>
              \A e \in Queued(cache.queue) \ Queued(cache'.queue) :
                cache.access[e] < now \/ Aged(cache, e) \/ Expire(cache.key[e])
         /\ \A e \in Addr : Got(e) /\ InTime => e \in Queued(cache'.queue)
<1>1. ASSUME NEW k \in Keys, NEW e \in Addr, GetHit(k, e),
             NEW x \in Queued(cache.queue) \ Queued(cache'.queue)
      PROVE  cache.access[x] < now \/ Aged(cache, x)
  <2>1. Spares(e)
    BY <1>1, GetHitStep
  <2>2. e \in Queued(cache'.queue)
    BY <1>1, GotKept
  <2> QED
    BY <1>1, <2>1, <2>2 DEF Spares
<1>2. ASSUME NEW e \in Addr, Create(e), NEW x \in Queued(cache.queue) \ Queued(cache'.queue)
      PROVE  cache.access[x] < now \/ Aged(cache, x)
  <2>1. Spares(e) /\ e \notin Queued(cache.queue)
    BY <1>2, CreateStep
  <2> QED
    BY <1>2, <2>1 DEF Spares
<1>3. ASSUME NEW k, Expire(k), NEW x \in Queued(cache.queue) \ Queued(cache'.queue)
      PROVE  Aged(cache, x) \/ Expire(cache.key[x])
  <2>1. Aged(cache, x) \/ cache.key[x] = k
    BY <1>3, ExpireStep
  <2> QED
    BY <1>3, <2>1
<1>4. ASSUME cache' = cache, NEW x \in Queued(cache.queue) \ Queued(cache'.queue) PROVE FALSE
  BY <1>4
<1>5. ASSUME life = "open", NEW x \in Queued(cache.queue) \ Queued(cache'.queue)
      PROVE  cache.access[x] < now \/ Aged(cache, x) \/ Expire(cache.key[x])
  <2>1. CASE \E k \in Keys, e \in Addr : GetHit(k, e)
    BY <1>1, <1>5, <2>1
  <2>2. CASE \E k \in Keys : Expire(k)
    BY <1>3, <1>5, <2>2
  <2>3. CASE cache' = cache
    BY <1>4, <1>5, <2>3
  <2>4. CASE \E k \in Keys : Peek(k)
    BY <2>3, <2>4 DEF Peek
  <2>5. CASE \E e \in Addr : Release(e)
    BY <2>3, <2>5 DEF Release
  <2>6. CASE Tick \/ Close \/ CreateThrows \/ UNCHANGED vars
    BY <2>3, <2>6 DEF Tick, Close, CreateThrows, vars
  <2>7. ~Destroy
    BY <1>5 DEF Destroy
  <2>8. CASE \E k \in Keys : Miss(k)
    BY <1>5, <2>8, MissStep
  <2>9. CASE \E e \in Addr : Create(e)
    BY <1>2, <1>5, <2>9
  <2> QED
    BY <2>1, <2>2, <2>4, <2>5, <2>6, <2>7, <2>8, <2>9 DEF Next
<1>6. ASSUME NEW e \in Addr, Got(e), InTime PROVE e \in Queued(cache'.queue)
  BY <1>6, GotKept DEF Got
<1> QED
  BY <1>5, <1>6

\* AccessIsKept: if the access times can be represented, then without a size limit
\* an element leaves the queue only when its access time is over, it is too old, it
\* is expired by a call or the cache is destroyed.
THEOREM AccessIsKept ==
  ASSUME Representable
  PROVE  Spec => AccessKept
<1>1. Inv /\ [Next]_vars =>
        [ settings.access_expire # {} /\ settings.max_size = {} /\ life = "open" =>
            \A e \in Queued(cache.queue) \ Queued(cache'.queue) :
              \/ cache.access[e] < now \/ Aged(cache, e)
              \/ Expire(cache.key[e]) ]_vars
  BY StepKept
<1> QED
  BY <1>1, DecoratedInvariant, PTL DEF Spec, AccessKept

\* WhatWasGotIsKept: if the access times can be represented, then without a size
\* limit the element that a get returns is on the queue afterwards, if its creation
\* took no longer than the access time.
THEOREM WhatWasGotIsKept ==
  ASSUME Representable
  PROVE  Spec => GotIsKept
<1>1. Inv /\ [Next]_vars =>
        [ \A e \in Addr :
            Got(e) /\ InTime /\ settings.access_expire # {} /\ settings.max_size = {}
              => e \in Queued(cache'.queue) ]_vars
  BY StepKept
<1> QED
  BY <1>1, DecoratedInvariant, PTL DEF Spec, GotIsKept

-----------------------------------------------------------------------------
\* The builder (Builder).  made is what build() made.

\* The kind of each variable of the list.
KindAt(i) == InitVars[i].kind

\* A variable that limits the cache is enabled if it has a value.
Fits(u) ==
  /\ u.enabled \in BOOLEAN
  /\ u.kind \in Limiters => (u.enabled <=> u.value # {})

\* The list b has one variable of each kind, in the order of the kinds, and a has
\* the same variables by their kinds.
Listed(b, a) ==
  /\ b = [i \in 1 .. 14 |-> b[i]]
  /\ a = [k \in Kinds |-> a[k]]
  /\ \A i \in 1 .. 14 : b[i].kind = KindAt(i) /\ b[i] = a[KindAt(i)] /\ Fits(b[i])

\* The kinds of the fourteen variables differ.
LEMMA KindFacts ==
  /\ Kinds = {KindAt(i) : i \in 1 .. 14}
  /\ \A i, j \in 1 .. 14 : KindAt(i) = KindAt(j) => i = j
  /\ \A i \in 1 .. 14 : Fits(InitVars[i])
  /\ {"key", "max_memory", "max_size", "max_age", "access_expire", "thread_safe",
      "concurrency", "load_factor", "async", "stats", "storage_override", "hash",
      "equality", "allocator"} \subseteq Kinds
<1> DEFINE K == << "key", "max_memory", "max_size", "max_age", "access_expire", "thread_safe",
                   "concurrency", "load_factor", "async", "stats", "storage_override", "hash",
                   "equality", "allocator" >>
<1> USE DEF InitVars, Plain, Off, Flag, Var
<1>1. DOMAIN InitVars = 1 .. 14
  OBVIOUS
<1>2. \A i \in 1 .. 14 : KindAt(i) = K[i]
  BY DEF KindAt
<1>3. \A i, j \in 1 .. 14 : K[i] = K[j] => i = j
  OBVIOUS
<1>4. \A i \in 1 .. 14 : Fits(InitVars[i])
  <2> DEFINE B == InitVars
  <2> HIDE DEF InitVars
  <2>1. \A k, v : k \notin Limiters => Fits(Plain(k, v))
    BY DEF Fits
  <2>2. \A k : Fits(Off(k))
    BY DEF Fits
  <2>3. \A k : k \notin Limiters => Fits(Flag(k, TRUE)) /\ Fits(Flag(k, FALSE))
    BY DEF Fits
  <2> HIDE DEF Plain, Off, Flag, Var
  <2>4. /\ B[1] = Plain("key", Keyed) /\ B[2] = Off("max_memory")
        /\ B[3] = Off("max_size") /\ B[4] = Off("max_age")
        /\ B[5] = Off("access_expire") /\ B[6] = Flag("thread_safe", TRUE)
        /\ B[7] = Plain("concurrency", 0) /\ B[8] = Plain("load_factor", 1)
        /\ B[9] = Flag("async", FALSE) /\ B[10] = Off("stats")
        /\ B[11] = Off("storage_override") /\ B[12] = Plain("hash", Default)
        /\ B[13] = Plain("equality", Default) /\ B[14] = Plain("allocator", Default)
    BY DEF InitVars
  <2>5. {"key", "concurrency", "load_factor", "hash", "equality", "allocator", "thread_safe", "async"}
          \intersect Limiters = {}
    BY DEF Limiters
  <2> HIDE DEF B
  <2>6. /\ Fits(B[1]) /\ Fits(B[2]) /\ Fits(B[3]) /\ Fits(B[4]) /\ Fits(B[5])
        /\ Fits(B[6]) /\ Fits(B[7]) /\ Fits(B[8]) /\ Fits(B[9]) /\ Fits(B[10])
        /\ Fits(B[11]) /\ Fits(B[12]) /\ Fits(B[13]) /\ Fits(B[14])
    BY <2>1, <2>2, <2>3, <2>4, <2>5
  <2>7. \A i \in 1 .. 14 : Fits(B[i])
    BY <2>6
  <2> QED
    BY <2>7 DEF B
<1> USE DEF KindAt
<1> HIDE DEF InitVars
<1>5. Kinds = {KindAt(i) : i \in 1 .. 14}
  BY <1>1 DEF Kinds
<1> HIDE DEF KindAt
<1>6. /\ K[1] \in Kinds /\ K[2] \in Kinds /\ K[3] \in Kinds
      /\ K[4] \in Kinds /\ K[5] \in Kinds /\ K[6] \in Kinds
      /\ K[7] \in Kinds /\ K[8] \in Kinds /\ K[9] \in Kinds
      /\ K[10] \in Kinds /\ K[11] \in Kinds /\ K[12] \in Kinds
      /\ K[13] \in Kinds /\ K[14] \in Kinds
  <2> HIDE DEF K
  <2>1. \A i \in 1 .. 14 : K[i] \in Kinds
    BY <1>2, <1>5
  <2> QED
    BY <2>1
<1>7. {"key", "max_memory", "max_size", "max_age", "access_expire", "thread_safe",
       "concurrency", "load_factor", "async", "stats", "storage_override", "hash",
       "equality", "allocator"} \subseteq Kinds
  BY <1>6
<1>8. \A i, j \in 1 .. 14 : KindAt(i) = KindAt(j) => i = j
  <2> HIDE DEF K
  <2> QED
    BY <1>2, <1>3
<1> QED
  BY <1>4, <1>5, <1>7, <1>8

\* The variable of a kind is the one at the place of the kind.
Chosen(b, k) == b[CHOOSE i \in DOMAIN b : b[i].kind = k]

\* In a list as the builder has it, that is the place that the kind has from the start.
LEMMA ChosenFacts ==
  ASSUME NEW b, NEW a, Listed(b, a), NEW i \in 1 .. 14
  PROVE  /\ Chosen(b, KindAt(i)) = b[i]
         /\ \A j \in 1 .. 14 : b[j].kind = KindAt(i) <=> j = i
         /\ DOMAIN b = 1 .. 14
<1>1. DOMAIN b = 1 .. 14 /\ \A j \in 1 .. 14 : b[j].kind = KindAt(j)
  BY DEF Listed
<1>2. \A j \in 1 .. 14 : b[j].kind = KindAt(i) <=> j = i
  BY <1>1, KindFacts
<1>3. (CHOOSE j \in DOMAIN b : b[j].kind = KindAt(i)) = i
  BY <1>1, <1>2
<1> QED
  BY <1>1, <1>2, <1>3 DEF Chosen

\* builder_rewrite replaces the variable of its kind, and no other.
LEMMA RewriteFacts ==
  ASSUME NEW b, NEW a, Listed(b, a), NEW u, u.kind \in Kinds, Fits(u)
  PROVE  Listed(Rewrite(b, Chosen(b, u.kind), u), [a EXCEPT ![u.kind] = u])
<1>1. PICK i \in 1 .. 14 : u.kind = KindAt(i)
  BY KindFacts
<1>2. Chosen(b, u.kind) = b[i] /\ DOMAIN b = 1 .. 14
  BY <1>1, ChosenFacts
<1>3. PICK c, d : c = Rewrite(b, b[i], u) /\ d = [a EXCEPT ![u.kind] = u]
  OBVIOUS
<1>4. \A j \in 1 .. 14 : SameType(b[j], b[i]) <=> j = i
  BY KindFacts DEF SameType, Listed
<1>5. c = [j \in 1 .. 14 |-> IF j = i THEN u ELSE b[j]]
  <2>1. c = [j \in 1 .. 14 |-> IF SameType(b[j], b[i]) THEN u ELSE b[j]]
    BY <1>2, <1>3 DEF Rewrite
  <2> QED
    BY <1>4, <2>1
<1>6. d = [k \in Kinds |-> IF k = KindAt(i) THEN u ELSE a[k]]
  BY <1>1, <1>3 DEF Listed
<1>7. ASSUME NEW j \in 1 .. 14
      PROVE  c[j].kind = KindAt(j) /\ c[j] = d[KindAt(j)] /\ Fits(c[j])
  <2>1. KindAt(j) \in Kinds /\ (KindAt(j) = KindAt(i) <=> j = i)
    BY KindFacts
  <2>2. CASE j = i
    BY <1>1, <1>5, <1>6, <2>1, <2>2
  <2>3. CASE j # i
    <3>1. c[j] = b[j] /\ d[KindAt(j)] = a[KindAt(j)]
      BY <1>5, <1>6, <2>1, <2>3
    <3> QED
      BY <3>1 DEF Listed
  <2> QED
    BY <2>2, <2>3
<1>8. c = [j \in 1 .. 14 |-> c[j]] /\ d = [k \in Kinds |-> d[k]]
  BY <1>5, <1>6
<1>9. Listed(c, d)
  BY <1>7, <1>8 DEF Listed
<1> QED
  BY <1>2, <1>3, <1>9

\* The inductive invariant: the list has what was asked for, and a cache that was
\* built has the decorators of the settings.
BuilderInv ==
  /\ Listed(builder, asked)
  /\ made # <<>> => made = <<"refused">> \/ \E n : made = <<"built", Decorators(Settings), n>>

\* A new builder has the default variables.
LEMMA InitBuilder ==
  ASSUME BuilderInit
  PROVE  BuilderInv
<1>1. builder = InitVars /\ made = <<>>
      /\ asked = [k \in Kinds |-> CHOOSE u \in ToSet(builder) : u.kind = k]
  BY DEF BuilderInit
<1>2. builder = [i \in 1 .. 14 |-> builder[i]] /\ DOMAIN builder = 1 .. 14
  BY <1>1 DEF InitVars
<1>3. ToSet(builder) = {builder[i] : i \in 1 .. 14}
  BY <1>2 DEF ToSet
<1>4. ASSUME NEW i \in 1 .. 14
      PROVE  builder[i].kind = KindAt(i) /\ builder[i] = asked[KindAt(i)] /\ Fits(builder[i])
  <2>1. builder[i].kind = KindAt(i) /\ Fits(builder[i]) /\ KindAt(i) \in Kinds
    BY <1>1, KindFacts DEF KindAt
  <2>2. \A j \in 1 .. 14 : builder[j].kind = KindAt(j)
    BY <1>1 DEF KindAt
  <2>3. \A u \in ToSet(builder) : u.kind = KindAt(i) => u = builder[i]
    BY <1>3, <2>2, KindFacts
  <2>4. builder[i] \in ToSet(builder)
    BY <1>3
  <2>5. (CHOOSE u \in ToSet(builder) : u.kind = KindAt(i)) = builder[i]
    BY <2>1, <2>3, <2>4
  <2> QED
    BY <1>1, <2>1, <2>5
<1>5. asked = [k \in Kinds |-> asked[k]]
  BY <1>1
<1> QED
  BY <1>1, <1>2, <1>4, <1>5 DEF BuilderInv, Listed

\* What a setter asks for.
Setter(u) == u.kind \in Kinds /\ Fits(u)

\* A setter, no_expire() or build().
LEMMA BuilderSteps ==
  ASSUME BuilderNext
  PROVE  \/ \E u : Setter(u) /\ Set(u)
         \/ NoExpire
         \/ \E hw \in Hardware : Build(hw)
<1>1. \A k \in Kinds : \A v : Setter(On(k, v)) /\ Setter(Off(k))
  BY DEF Setter, Fits, On, Off, Var
<1>2. \A k \in Kinds \ Limiters : \A v : Setter(Plain(k, v))
  BY DEF Setter, Fits, Plain, Var
<1>3. \A k \in Kinds \ Limiters :
        Setter(Flag(k, TRUE)) /\ Setter(Flag(k, FALSE))
  BY DEF Setter, Fits, Flag, Var
<1>4. {"max_memory", "max_size", "max_age", "access_expire", "stats", "storage_override"}
        \subseteq Kinds
  BY KindFacts
<1>5. {"thread_safe", "concurrency", "load_factor", "async", "hash", "equality", "allocator"}
        \subseteq Kinds \ Limiters
  BY KindFacts DEF Limiters
<1>6. CASE \/ \E v \in Limits : MaxMemory(v) \/ MaxSize(v)
           \/ NoMaxMemory \/ NoMaxSize
           \/ \E v \in Seconds : MaxAge(v) \/ AccessExpire(v)
           \/ NoMaxAge \/ NoAccessExpire
           \/ Stats \/ NoStats
           \/ StorageOverride \/ NoStorageOverride
  BY <1>1, <1>4, <1>6
  DEF MaxMemory, MaxSize, NoMaxMemory, NoMaxSize, MaxAge,
      AccessExpire, NoMaxAge, NoAccessExpire, Stats, NoStats,
      StorageOverride, NoStorageOverride
<1>7. CASE \/ ThreadSafe \/ NotThreadSafe
           \/ EnableAsync \/ DisableAsync
  BY <1>5, <1>7, <1>3
  DEF ThreadSafe, NotThreadSafe, EnableAsync, DisableAsync
<1>8. ASSUME NEW v, ConcurrencyOf(v) \/ LoadFactor(v) \/ Hash(v)
                    \/ Equality(v) \/ Allocator(v)
      PROVE  \E u : Setter(u) /\ Set(u)
  BY <1>2, <1>5, <1>8
  DEF ConcurrencyOf, LoadFactor, Hash, Equality, Allocator
<1>9. NoConcurrency => \E u : Setter(u) /\ Set(u)
  BY <1>8 DEF NoConcurrency
<1> QED
  BY <1>6, <1>7, <1>8, <1>9 DEF BuilderNext

\* The invariant is inductive.
LEMMA StepBuilder ==
  ASSUME BuilderInv, [BuilderNext]_builderVars
  PROVE  BuilderInv'
<1>1. Listed(builder, asked)
  BY DEF BuilderInv
<1>2. ASSUME NEW u, Setter(u), Set(u) PROVE BuilderInv'
  <2>1. /\ made' = <<>>
        /\ builder' = Rewrite(builder, Chosen(builder, u.kind), u)
        /\ asked' = [asked EXCEPT ![u.kind] = u]
    BY <1>2 DEF Set, Current, Chosen
  <2>2. Listed(builder', asked')
    BY <1>1, <1>2, <2>1, RewriteFacts DEF Setter
  <2> QED
    BY <2>1, <2>2 DEF BuilderInv
<1>3. ASSUME NoExpire PROVE BuilderInv'
  <2>1. PICK u, w : u = Off("max_age") /\ w = Off("access_expire")
    OBVIOUS
  <2>2. /\ u.kind = "max_age" /\ w.kind = "access_expire"
        /\ u.kind \in Kinds /\ w.kind \in Kinds /\ Fits(u) /\ Fits(w)
    BY <2>1, KindFacts DEF Off, Var, Fits
  <2>3. PICK b, a : /\ b = Rewrite(builder, Chosen(builder, u.kind), u)
                    /\ a = [asked EXCEPT ![u.kind] = u]
    OBVIOUS
  <2>4. Listed(b, a)
    BY <1>1, <2>2, <2>3, RewriteFacts
  <2>5. Listed(Rewrite(b, Chosen(b, w.kind), w), [a EXCEPT ![w.kind] = w])
    BY <2>2, <2>4, RewriteFacts
  <2>6. /\ made' = <<>>
        /\ builder' = Rewrite(b, Chosen(b, w.kind), w)
        /\ asked' = [a EXCEPT ![w.kind] = w]
    BY <1>3, <2>1, <2>2, <2>3 DEF NoExpire, Current, Chosen
  <2> QED
    BY <2>5, <2>6 DEF BuilderInv
<1>4. ASSUME NEW hw \in Hardware, Build(hw) PROVE BuilderInv'
  <2>1. UNCHANGED <<builder, asked>> /\ Settings' = Settings
    BY <1>4 DEF Build, Settings, Current
  <2>2. made' = <<"refused">> \/ \E n : made' = <<"built", Decorators(Settings), n>>
    BY <1>4 DEF Build
  <2> QED
    BY <1>1, <2>1, <2>2 DEF BuilderInv
<1>5. ASSUME UNCHANGED builderVars PROVE BuilderInv'
  <2>1. UNCHANGED <<builder, asked, made>> /\ Settings' = Settings
    BY <1>5 DEF builderVars, Settings, Current
  <2> QED
    BY <2>1 DEF BuilderInv
<1> QED
  BY <1>2, <1>3, <1>4, <1>5, BuilderSteps

\* BuilderInvariant: through any chain of setters the list keeps one variable of each
\* kind, which is the one that was asked for last, and build() decides on them.
THEOREM BuilderInvariant == BuilderSpec => []BuilderInv
<1>1. BuilderInit => BuilderInv
  BY InitBuilder
<1>2. BuilderInv /\ [BuilderNext]_builderVars => BuilderInv'
  BY StepBuilder
<1> QED
  BY <1>1, <1>2, PTL DEF BuilderSpec

\* The places of a kind in the list.
Places(k) == {j \in DOMAIN builder : builder[j].kind = k}

\* A setting is what was asked for last.
LEMMA CurrentFacts ==
  ASSUME BuilderInv, NEW k \in Kinds
  PROVE  /\ Current(k) = asked[k] /\ Fits(asked[k]) /\ asked[k].kind = k
         /\ \E i : Places(k) = {i}
<1>1. Listed(builder, asked)
  BY DEF BuilderInv
<1>2. PICK i \in 1 .. 14 : k = KindAt(i)
  BY KindFacts
<1>3. Chosen(builder, k) = builder[i]
  BY <1>1, <1>2, ChosenFacts
<1>4. Places(k) = {i}
  BY <1>1, <1>2, ChosenFacts DEF Places
<1> QED
  BY <1>1, <1>2, <1>3, <1>4 DEF Current, Chosen, Listed

\* TheSettingsKept: whatever chain of setters made a builder, each setting is there
\* once and is what was asked for last.
THEOREM TheSettingsKept == BuilderSpec => []SettingsKept
<1>1. ASSUME BuilderInv, NEW k \in Kinds
      PROVE  Cardinality(Places(k)) = 1 /\ Current(k) = asked[k]
  <2>1. PICK i : Places(k) = {i}
    BY <1>1, CurrentFacts
  <2>2. Cardinality({i}) = 1
    BY FS_Singleton
  <2>3. Current(k) = asked[k]
    BY <1>1, CurrentFacts
  <2> QED
    BY <2>1, <2>2, <2>3
<1>2. BuilderInv => SettingsKept
  BY <1>1 DEF SettingsKept, Places
<1> QED
  BY <1>2, BuilderInvariant, PTL

\* A decorator is in the list once or not at all.
LEMMA PlacesOf ==
  ASSUME NEW D, Good(D), NEW d
  PROVE  LET P == {i \in DOMAIN D : D[i] = d}
         IN /\ d \in ToSet(D) <=> P # {}
            /\ P # {} => Cardinality(P) = 1
            /\ P = {} => Cardinality(P) = 0
<1> DEFINE P == {i \in DOMAIN D : D[i] = d}
<1>1. /\ D \in Seq(Names) /\ DOMAIN D = 1 .. Len(D) /\ Distinct(D)
  BY LenProperties DEF Good
<1>2. d \in ToSet(D) <=> P # {}
  BY <1>1 DEF ToSet
<1>3. ASSUME P # {} PROVE Cardinality(P) = 1
  <2>1. PICK i : i \in P
    BY <1>3
  <2>2. P = {i}
    BY <1>1, <2>1 DEF Distinct
  <2>3. Cardinality({i}) = 1
    BY FS_Singleton
  <2> QED
    BY <2>2, <2>3
<1>4. ASSUME P = {} PROVE Cardinality(P) = 0
  BY <1>4, FS_EmptySet
<1> QED
  BY <1>2, <1>3, <1>4

\* TheQueueServesLimits: whatever was asked for, the cache that build() makes has one
\* expire queue if something limits it and none otherwise, the queue runs before each
\* decorator that shrinks it, and elements are weakened only without a queue.
THEOREM TheQueueServesLimits == BuilderSpec => []QueueServesLimits
<1>1. BuilderInv => QueueServesLimits
  <2>1. SUFFICES ASSUME BuilderInv, BuildDone
                 PROVE  /\ \A l \in Limiters : At(l) # {} <=> asked[l].enabled
                        /\ Cardinality(At("expire_queue")) =
                             IF \E l \in Limiters : asked[l].enabled THEN 1 ELSE 0
                        /\ \A l \in Limiters :
                             \A i \in At(l) : \E j \in At("expire_queue") : j < i
                        /\ At("weaken") = {} <=> At("expire_queue") # {}
    BY DEF QueueServesLimits
  <2>2. PICK b, n : b = Settings /\ made = <<"built", Decorators(b), n>>
    <3>1. made # <<>> /\ made # <<"refused">>
      BY <2>1 DEF BuildDone
    <3> QED
      BY <2>1, <3>1 DEF BuilderInv
  <2>3. PICK D : D = Decorators(b)
    OBVIOUS
  <2>4. DecoratorsOf = D
    BY <2>2, <2>3 DEF DecoratorsOf
  <2>5. /\ b.async = Current("async").enabled
        /\ b.access_expire = Current("access_expire").value
        /\ b.max_size = Current("max_size").value
        /\ b.max_memory = Current("max_memory").value
    BY <2>2 DEF Settings
  <2>6. {"async", "access_expire", "max_size", "max_memory"} \subseteq Kinds
    BY KindFacts
  <2>7. /\ Current("async") = asked["async"] /\ Fits(asked["async"])
        /\ Current("access_expire") = asked["access_expire"]
        /\ Fits(asked["access_expire"]) /\ asked["access_expire"].kind = "access_expire"
        /\ Current("max_size") = asked["max_size"]
        /\ Fits(asked["max_size"]) /\ asked["max_size"].kind = "max_size"
        /\ Current("max_memory") = asked["max_memory"]
        /\ Fits(asked["max_memory"]) /\ asked["max_memory"].kind = "max_memory"
    BY <2>1, <2>6, CurrentFacts
  <2>8. Flagged(b)
    BY <2>5, <2>7 DEF Flagged, Fits
  <2>9. /\ b.access_expire # {} <=> asked["access_expire"].enabled
        /\ b.max_size # {} <=> asked["max_size"].enabled
        /\ b.max_memory # {} <=> asked["max_memory"].enabled
    BY <2>5, <2>7 DEF Fits, Limiters
  <2>10. /\ Good(D)
         /\ "access_expire" \in ToSet(D) <=> b.access_expire # {}
         /\ "max_size" \in ToSet(D) <=> b.max_size # {}
         /\ "max_memory" \in ToSet(D) <=> b.max_memory # {}
         /\ "expire_queue" \in ToSet(D) <=>
              b.access_expire # {} \/ b.max_size # {} \/ b.max_memory # {}
         /\ "weaken" \in ToSet(D) <=> "expire_queue" \notin ToSet(D)
    BY <2>3, <2>8, DecoratorFacts
  <2> DEFINE P(d) == {i \in DOMAIN D : D[i] = d}
  <2>11. \A d : At(d) = P(d)
    BY <2>4 DEF At
  <2>12. \A d : /\ d \in ToSet(D) <=> P(d) # {}
                /\ P(d) # {} => Cardinality(P(d)) = 1
                /\ P(d) = {} => Cardinality(P(d)) = 0
    BY <2>10, PlacesOf
  <2>13. \A l \in Limiters : \A i \in P(l) : \E j \in P("expire_queue") : j < i
    <3>1. SUFFICES ASSUME NEW l \in Limiters, NEW i \in P(l)
                   PROVE  \E j \in P("expire_queue") : j < i
      OBVIOUS
    <3>2. D \in Seq(Names) /\ DOMAIN D = 1 .. Len(D) /\ Len(D) \in Nat
      BY <2>10, LenProperties DEF Good
    <3>3. i \in 1 .. Len(D) /\ D[i] \in Shrinkers
      BY <3>1, <3>2 DEF Limiters, Shrinkers
    <3>4. PICK j \in 1 .. i - 1 : D[j] = "expire_queue"
      BY <2>10, <3>3 DEF Good, Served
    <3>5. j \in P("expire_queue") /\ j < i
      BY <3>2, <3>3, <3>4
    <3> QED
      BY <3>5
  <2> HIDE DEF P
  <2>14. \A l \in Limiters : P(l) # {} <=> asked[l].enabled
    BY <2>9, <2>10, <2>12 DEF Limiters
  <2>15. P("expire_queue") # {} <=> \E l \in Limiters : asked[l].enabled
    BY <2>9, <2>10, <2>12 DEF Limiters
  <2>16. P("weaken") = {} <=> P("expire_queue") # {}
    BY <2>10, <2>12
  <2>17. Cardinality(P("expire_queue")) =
           IF \E l \in Limiters : asked[l].enabled THEN 1 ELSE 0
    BY <2>12, <2>15
  <2> QED
    BY <2>11, <2>13, <2>14, <2>16, <2>17
<1> QED
  BY <1>1, BuilderInvariant, PTL

-----------------------------------------------------------------------------
\* The shards (ShardedCache), for any number of shards, any hash function and
\* multiplier.  ShardInv follows num_shards_: the shards below it are the ones alive,
\* and those from the second on already count and read memory on their own tracker.
\* In each phase it says what is still to be done.

ShardTypes ==
  /\ phase \in {"building", "unwinding", "unset", "ready", "dying", "failed", "gone"}
  /\ shards \in 0 .. MaxConc /\ built \in 0 .. MaxConc
  /\ array \in BOOLEAN
  /\ alive \subseteq Index /\ counted \subseteq Index
  /\ bills \in [Index -> Index] /\ consults \in [Index -> Index \union {NoTracker}]

\* The shards the constructor is done with, and those it has yet to build.
ShardTrackers ==
  /\ \A s \in Index : s < built => bills[s] = s
  /\ \A s \in Index : 0 < s /\ s < built => consults[s] = s
  /\ bills[0] = 0
  /\ phase = "building" => counted = 1 .. built - 1
  /\ phase = "unset" => counted = 1 .. built - 1
  /\ phase \in {"ready", "dying"} => consults[0] = 0
  /\ phase = "ready" => counted = 0 .. built - 1

ShardPhases ==
  /\ alive = 0 .. built - 1
  /\ array => Sharded
  /\ phase = "unwinding" => array
  /\ phase \in {"unset", "ready", "dying"} => (array <=> Sharded)
  /\ phase \in {"unset", "ready"} => built = (IF Sharded THEN shards ELSE 1)
  /\ phase = "building" => built <= shards /\ (~Sharded => built = 0)
  /\ phase = "building" /\ built > 0 => array
  /\ phase \in {"failed", "gone"} => built = 0 /\ ~array

ShardInv == ShardTypes /\ ShardTrackers /\ ShardPhases

\* There is a first shard, and NoTracker is not one.
LEMMA IndexFacts ==
  MaxConc \in Nat \ {0} /\ 0 \in Index /\ NoTracker \notin Index
BY SizesAssumption DEF Index, NoTracker

\* Before the construction no shard is alive.
LEMMA InitShards ==
  ASSUME ShardsInit
  PROVE  ShardInv
<1>0. shards \in 0 .. MaxConc
  <2>1. PICK safe \in BOOLEAN, conc \in 0 .. MaxConc, hardware \in 0 .. MaxConc :
          shards = ShardCount(safe, conc, hardware)
    BY DEF ShardsInit
  <2> QED
    BY <2>1, IndexFacts DEF ShardCount
<1>1. ShardTypes
  <2>1. bills \in [Index -> Index] /\ consults \in [Index -> Index \union {NoTracker}]
    BY IndexFacts DEF ShardsInit
  <2>2. phase = "building" /\ built = 0 /\ array = FALSE /\ alive = {} /\ counted = {}
    BY DEF ShardsInit
  <2> QED
    <3>1. array \in BOOLEAN
      BY <2>2
    <3>2. alive \subseteq Index /\ counted \subseteq Index
      BY <2>2
    <3>3. built \in 0 .. MaxConc
      BY <2>2, IndexFacts
    <3> QED
      BY <1>0, <2>1, <2>2, <3>1, <3>2, <3>3 DEF ShardTypes
<1>2. ShardTrackers
  BY IndexFacts, <1>1 DEF ShardsInit, ShardTrackers, Index
<1>3. ShardPhases
  BY <1>1 DEF ShardsInit, ShardPhases, ShardTypes
<1> QED
  BY <1>1, <1>2, <1>3 DEF ShardInv

\* Every step of construction, use and destruction keeps the invariant.
LEMMA NextShards ==
  ASSUME ShardInv, [ShardsNext]_shardVars
  PROVE  ShardInv'
<1>0. MaxConc \in Nat \ {0} /\ 0 \in Index /\ NoTracker \notin Index
  BY IndexFacts
<1> USE <1>0 DEF ShardInv, ShardTypes, ShardTrackers, ShardPhases, Sharded, Index
<1>1. CASE AllocateArray
  BY <1>1 DEF AllocateArray
<1>2. CASE ConstructFirst
  BY <1>2 DEF ConstructFirst
<1>3. CASE ConstructNext
  <2> USE <1>3 DEF ConstructNext
  <2>1. built \in Index /\ built' = built + 1 /\ built' <= shards /\ built > 0
    OBVIOUS
  <2>2. /\ bills' \in [Index -> Index]
        /\ bills'[built] = built
        /\ \A s \in Index \ {built} : bills'[s] = bills[s]
    <3> HIDE DEF Index
    <3> QED
      BY <2>1
  <2>3. /\ consults' \in [Index -> Index \union {NoTracker}]
        /\ consults'[built] = built
        /\ \A s \in Index \ {built} : consults'[s] = consults[s]
    <3> HIDE DEF Index
    <3> QED
      BY <2>1
  <2>4. phase' = "building" /\ shards' = shards /\ array' = array /\ counted' = counted \union {built}
        /\ alive' = alive \union {built}
    OBVIOUS
  <2> HIDE DEF ConstructNext
  <2>5. ShardTypes'
    <3>1. array' \in BOOLEAN
      BY <2>4
    <3>2. alive' \subseteq Index /\ counted' \subseteq Index
      BY <2>1, <2>4
    <3>3. built' \in 0 .. MaxConc
      BY <2>1
    <3> HIDE DEF Index
    <3> QED
      BY <2>2, <2>3, <2>4, <3>1, <3>2, <3>3
  <2>6. ShardTrackers'
    <3>1. \A s \in Index : s < built' => bills'[s] = s
      <4> SUFFICES ASSUME NEW s \in Index, s < built' PROVE bills'[s] = s
        OBVIOUS
      <4>1. s = built \/ s < built
        BY <2>1
      <4>2. bills[s] = s \/ s = built
        BY <4>1
      <4> HIDE DEF Index, ShardTypes, ShardTrackers, ShardPhases
      <4> QED
        BY <4>1, <4>2, <2>2
    <3>2. \A s \in Index : 0 < s /\ s < built' => consults'[s] = s
      <4> SUFFICES ASSUME NEW s \in Index, 0 < s, s < built' PROVE consults'[s] = s
        OBVIOUS
      <4>1. s = built \/ s < built
        BY <2>1
      <4>2. consults[s] = s \/ s = built
        BY <4>1
      <4> HIDE DEF Index, ShardTypes, ShardTrackers, ShardPhases
      <4> QED
        BY <4>1, <4>2, <2>3
    <3>3. bills'[0] = 0
      BY <2>1, <2>2
    <3>4. counted' = 1 .. built' - 1
      <4>1. counted = 1 .. built - 1 /\ built \in Nat /\ built > 0
        BY <2>1 DEF ConstructNext
      <4> HIDE DEF ShardInv, ShardTypes, ShardTrackers, ShardPhases
      <4> QED
        BY <2>1, <2>4, <4>1
    <3> QED
      BY <3>1, <3>2, <3>3, <3>4, <2>4
  <2>7. ShardPhases'
    <3>1. alive' = 0 .. built' - 1
      <4>1. alive = 0 .. built - 1 /\ built \in Nat
        BY <2>1
      <4> HIDE DEF ShardInv, ShardTypes, ShardTrackers, ShardPhases
      <4> QED
        BY <2>1, <2>4, <4>1
    <3>2. built > 0 /\ (~Sharded => built = 0) /\ (built > 0 => array)
      BY DEF ConstructNext
    <3> QED
      BY <2>1, <2>4, <3>1, <3>2
  <2> QED
    BY <2>5, <2>6, <2>7
<1>4. CASE Constructed
  BY <1>4 DEF Constructed
<1>5. CASE ConstructFails
  <2> USE <1>5 DEF ConstructFails
  <2>1. CASE array
    <3>1. counted' \subseteq Index
      BY <2>1
    <3> QED
      BY <2>1, <3>1
  <2>2. CASE ~array
    <3>1. built = 0
      BY <2>2
    <3> QED
      BY <2>2, <3>1
  <2> QED
    BY <2>1, <2>2
<1>6. CASE UnwindShard
  BY <1>6 DEF UnwindShard
<1>7. CASE Unwound
  BY <1>7 DEF Unwound
<1>8. CASE SetMemUse
  BY <1>8 DEF SetMemUse
<1>9. CASE \E k \in Key : Get(k) \/ GetMove(k) \/ GetQuery(k) \/ ExpireKey(k)
  <2>1. UNCHANGED <<phase, shards, array, built, alive, bills, consults, counted>>
    <3> HIDE DEF ShardInv, ShardTypes, ShardTrackers, ShardPhases, Sharded, Index
    <3> QED
      BY <1>9 DEF Get, GetMove, GetQuery, LookupOrCreate, ExpireKey
  <2> QED
    BY <2>1
<1>10. CASE BeginDestroy
  BY <1>10 DEF BeginDestroy
<1>11. CASE DestroyShard
  BY <1>11 DEF DestroyShard
<1>12. CASE EndDestroy
  BY <1>12 DEF EndDestroy
<1>13. CASE UNCHANGED shardVars
  BY <1>13 DEF shardVars
<1> HIDE DEF ShardInv, ShardTypes, ShardTrackers, ShardPhases, Sharded, Index
<1> QED
  BY <1>1, <1>2, <1>3, <1>4, <1>5, <1>6, <1>7, <1>8, <1>9, <1>10, <1>11, <1>12, <1>13
  DEF ShardsNext

\* Every call for a key addresses the same shard, which is alive.
LEMMA RoutedToAlive ==
  ASSUME ShardInv, phase = "ready", NEW k \in Key
  PROVE  /\ GetShard(k) \in alive /\ ShardsOf(k) = {GetShard(k)}
         /\ ExpireShard(k) = GetShard(k) /\ MoveShard(k) = GetShard(k) /\ QueryShard(k) = GetShard(k)
<1>1. HashCode[k] \in Nat /\ Multiplier \in Nat /\ Values \in Nat \ {0}
  BY HashAssumption, SizesAssumption
<1>2. alive = 0 .. built - 1 /\ built = (IF Sharded THEN shards ELSE 1) /\ shards \in Nat
  BY IndexFacts DEF ShardInv, ShardPhases, ShardTypes
<1>3. ASSUME Sharded PROVE GetShard(k) \in alive
  <2> DEFINE h == (Multiplier * HashCode[k]) % Values
  <2>1. h \in Nat
    <3>1. Multiplier * HashCode[k] \in Nat
      BY <1>1
    <3> QED
      BY <3>1, <1>1
  <2>2. built \in Nat /\ built > 1
    BY <1>2, <1>3 DEF Sharded
  <2> HIDE DEF h
  <2>3. h % built \in 0 .. built - 1
    BY <2>1, <2>2
  <2> QED
    BY <2>3, <1>2, <1>3 DEF GetShard, h
<1>4. ASSUME ~Sharded PROVE GetShard(k) \in alive
  BY <1>2, <1>4 DEF GetShard
<1>5. /\ ExpireShard(k) = GetShard(k) /\ PeekShard(k) = GetShard(k)
      /\ MoveShard(k) = GetShard(k) /\ QueryShard(k) = GetShard(k)
  BY DEF ExpireShard, PeekShard, GetShard, MoveShard, QueryShard
<1>6. ShardsOf(k) = {GetShard(k)}
  BY <1>5 DEF ShardsOf
<1> QED
  BY <1>3, <1>4, <1>5, <1>6

\* The invariant contains the properties of the shards and trackers.
LEMMA ShardInvGives ==
  ASSUME ShardInv
  PROVE  ShardsAccounted /\ OwnTracker
<1>1. ShardsAccounted
  <2>1. phase = "ready" => \A k \in Key : ShardsOf(k) \subseteq alive
    BY RoutedToAlive
  <2> QED
    BY <2>1, IndexFacts DEF ShardsAccounted, ShardInv, ShardTypes, ShardPhases, Sharded
<1>2. OwnTracker
  BY IndexFacts DEF OwnTracker, ShardInv, ShardTypes, ShardTrackers, ShardPhases, Sharded, Index
<1> QED
  BY <1>1, <1>2

\* Every reachable state satisfies the inductive invariant (the constructor and
\* the destructor of sharded_wrapper).
THEOREM ShardInvariance ==
  ShardsSpec => []ShardInv
<1>1. ShardsInit => ShardInv
  BY InitShards
<1>2. ShardInv /\ [ShardsNext]_shardVars => ShardInv'
  BY NextShards
<1> QED
  BY <1>1, <1>2, PTL DEF ShardsSpec

\* No shard is leaked, destroyed twice or called when it is not there, wherever
\* the construction fails (the catch handler and the destructor).
THEOREM NoShardIsLost ==
  ShardsSpec => []ShardsAccounted
<1>1. ShardsSpec => []ShardInv
  BY ShardInvariance
<1>2. ShardInv => ShardsAccounted
  BY ShardInvGives
<1> QED
  BY <1>1, <1>2, PTL

\* Each shard of a finished cache counts and reads memory on its own tracker,
\* and the gauge adds up all of them (the loop of the constructor, set_mem_use).
THEOREM EachOwnTracker ==
  ShardsSpec => []OwnTracker
<1>1. ShardsSpec => []ShardInv
  BY ShardInvariance
<1>2. ShardInv => OwnTracker
  BY ShardInvGives
<1> QED
  BY <1>1, <1>2, PTL

\* Each shard has a queue in order, of keys that are routed to it; before the
\* cache is ready there are none.
RoutedQueues ==
  /\ \A s \in Index : queue[s] \in Queues(Key) /\ NoDup(queue[s]) /\ IsBalanced(queue[s])
  /\ queue \in [Index -> Queues(Key)]
  /\ phase = "ready" => \A s \in Index : \A k \in Queued(queue[s]) : s = GetShard(k)
  /\ phase \in {"building", "unset"} => \A s \in Index : queue[s] = EmptyQueue

\* The empty queue holds nothing.
LEMMA EmptyFacts ==
  /\ EmptyQueue \in Queues(Key) /\ NoDup(EmptyQueue) /\ IsBalanced(EmptyQueue)
  /\ Queued(EmptyQueue) = {}
<1>1. EmptyQueue \in Queues(Key)
  BY DEF EmptyQueue, Queues, QSize
<1>2. EmptyQueue.order = << >> /\ EmptyQueue.hots = 0 /\ QSize(EmptyQueue) = 0
  BY DEF EmptyQueue, QSize
<1>3. Queued(EmptyQueue) = {}
  BY <1>2 DEF Queued, ToSet
<1> QED
  BY <1>1, <1>2, <1>3 DEF NoDup, Distinct, IsBalanced

\* At first nothing is queued.
LEMMA InitRouted == ShardsInit => RoutedQueues
BY EmptyFacts DEF ShardsInit, RoutedQueues

\* A call changes the queue of the shard of its key, and adds at most the key.
LEMMA CallRouted ==
  ASSUME ShardInv, RoutedQueues, phase = "ready", NEW k \in Key, NEW r \in Queues(Key),
         NoDup(r), IsBalanced(r), Queued(r) \subseteq Queued(queue[GetShard(k)]) \union {k},
         queue' = [queue EXCEPT ![GetShard(k)] = r],
         UNCHANGED <<phase, shards, built>>
  PROVE  RoutedQueues'
<1>1. GetShard(k) \in Index
  BY RoutedToAlive DEF ShardInv, ShardTypes
<1>2. \A x : GetShard(x)' = GetShard(x)
  BY DEF GetShard, Sharded
<1>3. queue'[GetShard(k)] = r /\ \A s \in Index \ {GetShard(k)} : queue'[s] = queue[s]
  BY <1>1 DEF RoutedQueues
<1>4. queue' \in [Index -> Queues(Key)]
  BY <1>1 DEF RoutedQueues
<1>5. \A s \in Index : queue'[s] \in Queues(Key) /\ NoDup(queue'[s]) /\ IsBalanced(queue'[s])
  BY <1>3 DEF RoutedQueues
<1>6. \A s \in Index : \A x \in Queued(queue'[s]) : s = GetShard(x)
  BY <1>3 DEF RoutedQueues
<1> QED
  BY <1>2, <1>4, <1>5, <1>6 DEF RoutedQueues

\* A key stays on the queue of its shard, and no other shard gets it.
LEMMA NextRouted ==
  ASSUME ShardInv, RoutedQueues, [ShardsNext]_shardVars
  PROVE  RoutedQueues'
<1>1. ASSUME NEW k \in Key, Get(k) \/ GetMove(k) \/ GetQuery(k) PROVE RoutedQueues'
  <2> DEFINE s == GetShard(k)
             q == IF k \in Queued(queue[s]) THEN Promote(queue[s], k)
                  ELSE LinkCold(queue[s], k)
             r == ShrinkTo(q, Limit)
  <2>1. phase = "ready" /\ UNCHANGED <<phase, shards, built>>
        /\ queue' = [queue EXCEPT ![s] = r]
    <3>1. phase = "ready"
      BY <1>1 DEF Get, GetMove, GetQuery, LookupOrCreate
    <3>2. LookupOrCreate(s, k)
      BY <1>1, <3>1, RoutedToAlive DEF Get, GetMove, GetQuery
    <3> QED
      BY <3>2 DEF LookupOrCreate
  <2>2. queue[s] \in Queues(Key) /\ NoDup(queue[s])
    BY <2>1, RoutedToAlive DEF ShardInv, ShardTypes, RoutedQueues
  <2>3. q \in Queues(Key) /\ NoDup(q) /\ Queued(q) = Queued(queue[s]) \union {k}
    <3>1. CASE k \in Queued(queue[s])
      BY <3>1, <2>2, PromoteFacts
    <3>2. CASE k \notin Queued(queue[s])
      BY <3>2, <2>2, LinkColdFacts
    <3> QED
      BY <3>1, <3>2
  <2> HIDE DEF q
  <2>4. r \in Queues(Key) /\ NoDup(r) /\ IsBalanced(r) /\ Queued(r) \subseteq Queued(q)
    BY <2>3, ShrinkToFacts, SizesAssumption DEF Limit
  <2> HIDE DEF r
  <2> QED
    BY <2>1, <2>3, <2>4, CallRouted
<1>2. ASSUME NEW k \in Key, ExpireKey(k) PROVE RoutedQueues'
  <2> DEFINE s == GetShard(k)
             r == Unlink(queue[s], k)
  <2>1. phase = "ready" /\ UNCHANGED <<phase, shards, built>>
        /\ queue' = [queue EXCEPT ![s] = r]
    <3>1. phase = "ready" /\ ExpireShard(k) = s
      BY <1>2, RoutedToAlive DEF ExpireKey
    <3> QED
      BY <1>2, <3>1 DEF ExpireKey
  <2>2. queue[s] \in Queues(Key) /\ NoDup(queue[s]) /\ IsBalanced(queue[s])
    BY <2>1, RoutedToAlive DEF ShardInv, ShardTypes, RoutedQueues
  <2>3. r \in Queues(Key) /\ NoDup(r) /\ IsBalanced(r) /\ Queued(r) \subseteq Queued(queue[s])
    BY <2>2, UnlinkFacts
  <2> HIDE DEF r
  <2> QED
    BY <2>1, <2>3, CallRouted
<1>3. CASE \/ AllocateArray \/ ConstructFirst \/ ConstructNext \/ Constructed
           \/ ConstructFails \/ UnwindShard \/ Unwound
  <2>1. UNCHANGED queue /\ phase' # "ready" /\ (phase' \in {"building", "unset"} => phase = "building")
    BY <1>3 DEF AllocateArray, ConstructFirst, ConstructNext, Constructed, ConstructFails,
                UnwindShard, Unwound
  <2> QED
    BY <2>1 DEF RoutedQueues
<1>4. CASE SetMemUse
  <2>1. UNCHANGED queue /\ phase = "unset"
    BY <1>4 DEF SetMemUse
  <2>2. phase' = "ready" /\ \A s \in Index : Queued(queue'[s]) = {}
    BY <1>4, <2>1, EmptyFacts DEF RoutedQueues, SetMemUse
  <2> QED
    BY <2>1, <2>2 DEF RoutedQueues
<1>5. CASE BeginDestroy \/ EndDestroy
  <2>1. UNCHANGED queue /\ phase' \in {"dying", "gone"}
    BY <1>5 DEF BeginDestroy, EndDestroy
  <2> QED
    BY <2>1 DEF RoutedQueues
<1>6. CASE DestroyShard
  <2>1. phase' = "dying" /\ queue' = [queue EXCEPT ![built - 1] = EmptyQueue]
    BY <1>6 DEF DestroyShard
  <2>2. queue' \in [Index -> Queues(Key)]
    BY <2>1, EmptyFacts DEF RoutedQueues
  <2>3. \A s \in Index : queue'[s] = EmptyQueue \/ queue'[s] = queue[s]
    BY <2>1 DEF RoutedQueues
  <2> QED
    BY <2>1, <2>2, <2>3, EmptyFacts DEF RoutedQueues
<1>7. CASE UNCHANGED shardVars
  <2>1. UNCHANGED <<phase, shards, built, queue>>
    BY <1>7 DEF shardVars
  <2>2. \A k : GetShard(k)' = GetShard(k)
    BY <2>1 DEF GetShard, Sharded
  <2> QED
    BY <2>1, <2>2 DEF RoutedQueues
<1> QED
  BY <1>1, <1>2, <1>3, <1>4, <1>5, <1>6, <1>7 DEF ShardsNext

\* The keys are where they are routed to at any time.
LEMMA RoutedInvariance ==
  ShardsSpec => []RoutedQueues
<1>1. ShardsSpec => []ShardInv
  BY ShardInvariance
<1>2. ShardsInit => RoutedQueues
  BY InitRouted
<1>3. ShardInv /\ RoutedQueues /\ [ShardsNext]_shardVars => RoutedQueues'
  BY NextRouted
<1> QED
  BY <1>1, <1>2, <1>3, PTL DEF ShardsSpec

\* Whichever overload brought a key into the cache, every later call finds it in the
\* one shard that keeps it, for any hash function, multiplier and width of size_t
\* (the overrides of sharded_wrapper).
THEOREM KeysStayRouted ==
  ShardsSpec => []FoundAgain
<1>1. (ShardsSpec => []RoutedQueues) /\ (ShardsSpec => []ShardInv)
  BY RoutedInvariance, ShardInvariance
<1>2. ShardInv /\ RoutedQueues => FoundAgain
  <2>1. SUFFICES ASSUME ShardInv, RoutedQueues, phase = "ready",
                        NEW s \in Index, NEW k \in Queued(queue[s])
                 PROVE  ShardsOf(k) = {s}
    BY DEF FoundAgain
  <2>2. k \in Key /\ s = GetShard(k)
    BY <2>1, QueueType, ToSetFacts DEF RoutedQueues
  <2> QED
    BY <2>1, <2>2, RoutedToAlive
<1> QED
  BY <1>1, <1>2, PTL

\* The types, with the queues (sharded_wrapper).
THEOREM ShardedTypes ==
  ShardsSpec => []ShardsTypeOK
<1>1. (ShardsSpec => []RoutedQueues) /\ (ShardsSpec => []ShardInv)
  BY RoutedInvariance, ShardInvariance
<1>2. ShardInv /\ RoutedQueues => ShardsTypeOK
  BY QueueType, ToSetFacts DEF ShardInv, ShardTypes, RoutedQueues, ShardsTypeOK
<1> QED
  BY <1>1, <1>2, PTL

=============================================================================
