---------------------------- MODULE Buckets_proofs ----------------------------
(***************************************************************************)
(* The pointers of the hash map, for any number of elements and keys, any  *)
(* hash function and load factor, of a cache whose create function does    *)
(* not call back: each element of the cache has exactly one pointer to it, *)
(* no pointer dangles, no chain is a cycle, and size_ is exact.            *)
(*                                                                         *)
(* Threaded alone is not inductive: that the location a walk stands on is  *)
(* still there after the next element was unlinked, needs that an element  *)
(* never follows itself.  Ranks says so without speaking of reachability:  *)
(* some numbering of the elements grows along every pointer.               *)
(*                                                                         *)
(* That calls find what is there needs more: each location has a place in  *)
(* the chain of a bucket (Placed), an element is in the chain of the       *)
(* bucket its hash selects (Homes), and what a walk, an eviction or a      *)
(* rehash has behind it is done with (Searched).                           *)
(***************************************************************************)
EXTENDS Buckets, FiniteSetTheorems, TLAPS

QueueFacts == INSTANCE ExpireQueueOps_proofs

\* Where a pointer is that counts.
Place == Buckets \union Created

Rising(r) ==
  /\ r \in [Addr -> Int]
  /\ \A a \in Created : link[a] # None => r[a] < r[link[a]]
Ranks == \E r \in [Addr -> Int] : Rising(r)

Pointers ==
  /\ \A l \in Place : link[l] # None => link[l] \in Created
  /\ \A a \in Created : \E l \in Place : link[l] = a
  /\ \A l, m \in Place : l # m /\ link[l] # None => link[l] # link[m]
Counted == size = Cardinality(Created)

\* Where the code is, and that the location it holds is there.
Control ==
  /\ saved = <<>>
  /\ phase \in {"walk", "create", "sweep", "move", "destroy"} => iter \in Place
  /\ target # None => phase \in {"hit", "made"} /\ iter \in Place
  /\ phase = "create" => cur \in Allocated /\ link[iter] = None
  /\ phase = "made" => cur \in Addr
  /\ phase = "walk" => arg \in Keys
  /\ phase = "move" => orig <= n /\ bkt < orig /\ (iter \in Nat => iter = bkt)

IInv == TypeOK /\ Pointers /\ Ranks /\ Counted /\ Control

-----------------------------------------------------------------------------
\* Without suspended calls only the element under creation is not of the cache yet.
LEMMA CreatedIs ==
  ASSUME saved = <<>>
  PROVE  Created = IF phase = "create" THEN Allocated \ {cur} ELSE Allocated
<1>1. {saved[i].cur : i \in DOMAIN saved} = {}
  OBVIOUS
<1> QED
  BY <1>1 DEF Created, Fresh

\* The hash of a key selects one of the buckets.
LEMMA HomeIs ==
  ASSUME n \in Nat \ {0}, NEW k \in Keys
  PROVE  Home(k) \in Buckets
<1>1. Hash[k] \in Nat
  BY HashAssumption
<1>2. \A x \in Nat : x % n \in 0 .. n - 1
  OBVIOUS
<1> QED
  BY <1>1, <1>2 DEF Home, Buckets

\* Elements, buckets and None are different things.
LEMMA Apart ==
  ASSUME TypeOK
  PROVE  /\ Created \subseteq Addr /\ Place \subseteq Loc /\ Buckets \subseteq Nat
         /\ \A a \in Addr : a \notin Nat /\ a # None
         /\ \A b \in Buckets : b \notin Created /\ b # None
         /\ \A a \in Created : key[a] \in Keys
         /\ IsFiniteSet(Created) /\ Cardinality(Created) \in Nat
<1>1. Created \subseteq Addr /\ Buckets \subseteq Nat
  BY DEF Created, Allocated, Buckets, TypeOK
<1>2. IsFiniteSet(Created)
  BY <1>1, AddrAssumption, FS_Subset
<1> QED
  BY <1>1, <1>2, AddrAssumption, FS_CardinalityType
     DEF Created, Allocated, Place, Loc, TypeOK

\* The empty map satisfies the invariant.
LEMMA InitIInv == ~Recursive /\ Init => IInv
<1> SUFFICES ASSUME Init PROVE IInv
  OBVIOUS
<1>1. /\ n = 3 /\ link = [l \in Addr \union 0 .. 2 |-> None] /\ key = [a \in Addr |-> None]
      /\ size = 0 /\ saved = <<>> /\ phase = "idle" /\ target = None
  BY DEF Init, InitBuckets
<1>2. TypeOK
  <2>1. Buckets = 0 .. 2 /\ Loc = Addr \union 0 .. 2 /\ 0 \in Loc
    BY <1>1 DEF Buckets, Loc
  <2>2. link \in [Loc -> Addr \union {None}] /\ key \in [Addr -> Keys \union {None}]
    BY <1>1, <2>1
  <2>3. n \in Nat \ {0} /\ size \in Int /\ expired \subseteq Addr /\ pinned \subseteq Addr
    BY <1>1 DEF Init
  <2>4. /\ phase = "idle" /\ op \in {"none", "get", "peek", "expire"}
        /\ arg \in Keys \union {None} /\ cur \in Addr \union {None}
        /\ target \in Addr \union {None} /\ iter \in Loc \union {Dangling}
        /\ bkt \in Nat /\ orig \in Nat /\ failed \in BOOLEAN
    BY <1>1, <2>1 DEF Init
  <2> QED BY <2>2, <2>3, <2>4 DEF TypeOK
<1>3. Created = {} /\ Place \subseteq Addr \union 0 .. 2
  BY <1>1, CreatedIs DEF Allocated, Place, Buckets
<1>4. Pointers
  BY <1>1, <1>3 DEF Pointers
<1>5. Ranks
  <2>1. Rising([a \in Addr |-> 0])
    BY <1>3 DEF Rising
  <2> QED BY <2>1 DEF Ranks, Rising
<1>6. Counted
  BY <1>1, <1>3, FS_EmptySet DEF Counted
<1>7. Control
  BY <1>1 DEF Control
<1> QED
  BY <1>2, <1>4, <1>5, <1>6, <1>7 DEF IInv

\* Nothing follows itself.
LEMMA NoLoop ==
  ASSUME TypeOK, Ranks, NEW l \in Place, link[l] # None
  PROVE  link[l] # l
<1>1. PICK r \in [Addr -> Int] : Rising(r)
  BY DEF Ranks
<1>2. CASE l \in Created
  <2>1. r[l] < r[link[l]] /\ r[l] \in Int
    BY <1>1, <1>2, Apart DEF Rising
  <2> QED BY <2>1
<1>3. CASE l \in Buckets
  BY <1>3, Apart DEF TypeOK, Place, Loc
<1> QED
  BY <1>2, <1>3 DEF Place

-----------------------------------------------------------------------------
\* Unlinking the element after l, as every erasure does.

LEMMA UnlinkKeeps ==
  ASSUME IInv, Unlink, UNCHANGED n, iter \in Place, link[iter] # None,
         Created' = Created \ {link[iter]}
  PROVE  /\ Pointers' /\ Ranks' /\ Counted' /\ iter \in Place'
         /\ link' \in [Loc -> Addr \union {None}] /\ key' \in [Addr -> Keys \union {None}]
         /\ size' \in Int
<1> DEFINE s == link[iter]
<1>0. TypeOK /\ Pointers /\ Ranks /\ Counted
  BY DEF IInv
<1>1. s \in Created /\ s # iter /\ s \in Place /\ iter \in Loc /\ s \in Addr
  BY <1>0, Apart, NoLoop DEF Pointers, Place
<1>2. \A l \in Loc : link'[l] = IF l = iter THEN link[s] ELSE link[l]
  BY <1>0, <1>1 DEF Unlink, TypeOK
<1>3. link' \in [Loc -> Addr \union {None}] /\ key' \in [Addr -> Keys \union {None}]
  BY <1>0, <1>1, Apart DEF Unlink, TypeOK, Place
<1>4. Place' = Place \ {s} /\ Place \subseteq Loc /\ s \notin Buckets
  BY <1>0, <1>1, Apart DEF Place, Buckets
<1>5. \A l \in Place : l # iter => link[l] # s
  BY <1>0, <1>1 DEF Pointers
<1>6. link[s] # s
  BY <1>0, <1>1, NoLoop
<1>7. Pointers'
  <2>1. ASSUME NEW l \in Place', link'[l] # None PROVE link'[l] \in Created'
    <3>1. CASE l = iter
      BY <1>0, <1>1, <1>2, <1>4, <1>6, <2>1, <3>1 DEF Pointers
    <3>2. CASE l # iter
      BY <1>0, <1>2, <1>4, <1>5, <2>1, <3>2 DEF Pointers
    <3> QED BY <3>1, <3>2
  <2>2. ASSUME NEW a \in Created' PROVE \E l \in Place' : link'[l] = a
    <3>1. PICK l \in Place : link[l] = a
      BY <1>0, <2>2 DEF Pointers
    <3>2. CASE l = s
      BY <1>1, <1>2, <1>4, <3>1, <3>2
    <3>3. CASE l # s
      <4>1. l # iter
        BY <2>2, <3>1
      <4> QED BY <1>2, <1>4, <3>1, <3>3, <4>1
    <3> QED BY <3>2, <3>3
  <2>3. ASSUME NEW l \in Place', NEW m \in Place', l # m, link'[l] # None PROVE link'[l] # link'[m]
    BY <1>0, <1>1, <1>2, <1>4, <2>3 DEF Pointers
  <2> QED BY <2>1, <2>2, <2>3 DEF Pointers
<1>8. Ranks'
  <2>1. PICK r \in [Addr -> Int] : Rising(r)
    BY <1>0 DEF Ranks
  <2>2. ASSUME NEW a \in Created', link'[a] # None PROVE r[a] < r[link'[a]]
    <3>1. a \in Created /\ a \in Loc /\ a \in Addr /\ a \in Place
      BY <1>0, <2>2, Apart DEF Place
    <3>2. CASE a # iter
      BY <1>2, <2>1, <2>2, <3>1, <3>2 DEF Rising
    <3>3. CASE a = iter
      <4>1. link'[a] = link[s] /\ r[a] < r[s] /\ r[s] < r[link[s]]
        BY <1>1, <1>2, <2>1, <2>2, <3>1, <3>3 DEF Rising
      <4>2. link[s] \in Addr
        BY <1>0, <1>1, <2>2, <4>1, Apart DEF Pointers
      <4> QED BY <1>1, <3>1, <4>1, <4>2
    <3> QED BY <3>2, <3>3
  <2>3. Rising(r)'
    BY <2>2 DEF Rising
  <2> QED BY <2>3 DEF Ranks
<1>9. Counted' /\ size' \in Int
  <2>1. Cardinality(Created') = Cardinality(Created) - 1
    BY <1>0, <1>1, Apart, FS_RemoveElement
  <2>2. size' = size - 1
    BY DEF Unlink
  <2>3. size = Cardinality(Created) /\ Cardinality(Created) \in Nat
    BY <1>0, Apart DEF Counted
  <2> QED BY <2>1, <2>2, <2>3 DEF Counted
<1> QED
  BY <1>1, <1>3, <1>4, <1>7, <1>8, <1>9

\* Steps that write no pointer.
LEMMA QuietKeeps ==
  ASSUME IInv, UNCHANGED <<n, link, key, size>>, Created' = Created
  PROVE  /\ Pointers' /\ Ranks' /\ Counted' /\ Place' = Place
         /\ Loc' = Loc /\ Buckets' = Buckets /\ Allocated' = Allocated
<1>1. Buckets' = Buckets /\ Loc' = Loc /\ Place' = Place /\ Allocated' = Allocated
  BY DEF Buckets, Loc, Place, Allocated
<1>2. Pointers'
  BY <1>1 DEF IInv, Pointers
<1>3. Ranks'
  BY DEF IInv, Ranks, Rising
<1>4. Counted'
  BY DEF IInv, Counted
<1> QED
  BY <1>1, <1>2, <1>3, <1>4

\* Where the code can be: the first bucket, and what a pointer leads to.
LEMMA Reach ==
  ASSUME IInv
  PROVE  /\ 0 \in Place /\ 0 \in Loc
         /\ \A b \in Nat : b < n => b \in Place /\ b \in Loc
         /\ \A k \in Keys : Home(k) \in Place /\ Home(k) \in Loc
         /\ iter \in Place /\ link[iter] # None
              => link[iter] \in Created /\ link[iter] \in Place /\ link[iter] \in Addr
<1>1. TypeOK /\ Pointers
  BY DEF IInv
<1>2. \A b \in Nat : b < n => b \in Buckets
  BY <1>1 DEF TypeOK, Buckets
<1>3. 0 \in Buckets
  BY <1>1 DEF TypeOK, Buckets
<1>4. \A k \in Keys : Home(k) \in Buckets
  BY <1>1, HomeIs DEF TypeOK
<1>5. iter \in Place /\ link[iter] # None => link[iter] \in Created /\ link[iter] \in Addr
  BY <1>1, Apart DEF Pointers
<1> QED
  BY <1>2, <1>3, <1>4, <1>5 DEF Place, Loc

\* A return, when no create function waits for the call.
LEMMA ReturnIs ==
  ASSUME saved = <<>>, Return
  PROVE  /\ phase' = "idle" /\ op' = "none" /\ arg' = None /\ cur' = None /\ iter' = 0
         /\ saved' = <<>>
BY DEF Return

-----------------------------------------------------------------------------
\* The steps that write no pointer, one group after the other.

\* The walk of a call (lookup_or_create, lookup_if_present, expire).
LEMMA SearchStep ==
  ASSUME ~Recursive, IInv, WalkPast \/ WalkHit \/ WalkFound \/ WalkMiss
  PROVE  IInv'
<1>1. TypeOK /\ Control /\ phase = "walk" /\ iter \in Place /\ target = None /\ saved = <<>>
  BY DEF IInv, Control, WalkPast, WalkHit, WalkFound, WalkMiss, Walking, Match
<1>2. /\ UNCHANGED <<n, link, key, size, expired, pinned, failed, target, bkt, orig>>
      /\ phase' \in {"walk", "hit", "idle"} /\ saved' = <<>>
  BY <1>1, ReturnIs DEF WalkPast, WalkHit, WalkFound, WalkMiss, map, call, walk
<1>3. Created' = Created
  <2>1. Allocated' = Allocated
    BY <1>2 DEF Allocated
  <2> QED BY <1>1, <1>2, <2>1, CreatedIs DEF Created, Fresh
<1>4. /\ op' \in {"none", "get", "peek", "expire"} /\ arg' \in Keys \union {None}
      /\ cur' \in Addr \union {None} /\ iter' \in Place /\ iter' \in Loc
      /\ (phase' = "walk" => arg' \in Keys)
  <2>1. CASE WalkPast
    BY <1>1, <2>1, Reach, Apart DEF WalkPast, Walking, Next_, Advance, call, TypeOK, Control
  <2>2. CASE WalkHit
    BY <1>1, <2>2, Reach, Apart DEF WalkHit, Match, Walking, Next_, walk, TypeOK
  <2>3. CASE WalkFound
    BY <1>1, <2>3, Reach, ReturnIs, Apart DEF WalkFound, TypeOK
  <2>4. CASE WalkMiss
    BY <1>1, <2>4, Reach, ReturnIs, Apart DEF WalkMiss, TypeOK
  <2> QED BY <2>1, <2>2, <2>3, <2>4
<1>5. /\ Pointers' /\ Ranks' /\ Counted' /\ Place' = Place /\ Loc' = Loc
  BY <1>2, <1>3, QuietKeeps
<1>6. TypeOK'
  BY <1>1, <1>2, <1>4, <1>5 DEF TypeOK
<1>7. Control'
  BY <1>1, <1>2, <1>4, <1>5 DEF Control
<1> QED
  BY <1>5, <1>6, <1>7 DEF IInv

\* The end of a call.
LEMMA ServeStep ==
  ASSUME ~Recursive, IInv,
         HitReturns \/ WaitUnlocked \/ CreatedSync \/ Enough \/ ResizeFails \/ Moved
  PROVE  IInv'
<1>1. TypeOK /\ Control /\ target = None /\ saved = <<>> /\ phase \notin {"create", "walk"}
  BY DEF IInv, Control, HitReturns, WaitUnlocked, CreatedSync, Enough, ResizeFails, Moved
<1>2. /\ UNCHANGED <<n, link, key, size, expired, target, bkt, orig>>
      /\ phase' \in {"grow", "idle"} /\ saved' = <<>>
  BY <1>1, ReturnIs
     DEF HitReturns, WaitUnlocked, CreatedSync, Enough, ResizeFails, Moved, map, call, walk
<1>3. Created' = Created
  <2>1. Allocated' = Allocated
    BY <1>2 DEF Allocated
  <2> QED BY <1>1, <1>2, <2>1, CreatedIs DEF Created, Fresh
<1>4. /\ op' \in {"none", "get", "peek", "expire"} /\ arg' \in Keys \union {None}
      /\ cur' \in Addr \union {None} /\ iter' \in Loc \union {Dangling}
  BY <1>1, ReturnIs, Reach
     DEF HitReturns, WaitUnlocked, CreatedSync, Enough, ResizeFails, Moved, call, walk, TypeOK
<1>5. failed' \in BOOLEAN
  BY <1>1 DEF HitReturns, WaitUnlocked, CreatedSync, Enough, ResizeFails, Moved, TypeOK
<1>6. pinned' \subseteq Addr
  <2>1. CASE WaitUnlocked
    <3>1. pinned' = pinned \union {cur} /\ cur \in Addr
      BY <1>1, <2>1 DEF WaitUnlocked, Control
    <3> QED BY <1>1, <3>1 DEF TypeOK
  <2>2. CASE ~WaitUnlocked
    BY <1>1, <2>2 DEF HitReturns, CreatedSync, Enough, ResizeFails, Moved, map, TypeOK
  <2> QED BY <2>1, <2>2
<1>7. /\ Pointers' /\ Ranks' /\ Counted' /\ Place' = Place /\ Loc' = Loc
  BY <1>2, <1>3, QuietKeeps
<1>8. TypeOK'
  BY <1>1, <1>2, <1>4, <1>5, <1>6, <1>7 DEF TypeOK
<1>9. Control'
  BY <1>1, <1>2, <1>7 DEF Control
<1> QED
  BY <1>7, <1>8, <1>9 DEF IInv

\* The search of an eviction for its element (erase).
LEMMA EvictStep ==
  ASSUME ~Recursive, IInv, EraseStep \/ \E a \in Addr : Evict(a)
  PROVE  IInv'
<1>1. TypeOK /\ Control /\ saved = <<>> /\ phase \in {"hit", "made"}
  BY DEF IInv, Control, EraseStep, Evict
<1>2. /\ UNCHANGED <<n, link, key, size, pinned, failed, phase, op, arg, cur, saved, bkt, orig>>
      /\ expired' \subseteq Addr
  BY <1>1 DEF EraseStep, Evict, map, call, TypeOK
<1>3. Created' = Created
  BY <1>2 DEF Created, Fresh, Allocated
<1>4. target' \in Addr /\ iter' \in Place /\ iter' \in Loc
  <2>1. CASE EraseStep
    BY <1>1, <2>1, Reach, Apart DEF EraseStep, Next_, Advance, TypeOK, Control
  <2>2. ASSUME NEW a \in Addr, Evict(a) PROVE target' = a /\ iter' \in Place /\ iter' \in Loc
    <3>1. a \in Created /\ iter' = Home(key[a]) /\ target' = a
      BY <2>2 DEF Evict
    <3> QED BY <1>1, <3>1, Apart, Reach
  <2> QED BY <2>1, <2>2
<1>5. /\ Pointers' /\ Ranks' /\ Counted' /\ Place' = Place /\ Loc' = Loc
  BY <1>2, <1>3, QuietKeeps
<1>6. TypeOK'
  BY <1>1, <1>2, <1>4, <1>5 DEF TypeOK
<1>7. Control'
  BY <1>1, <1>2, <1>4, <1>5 DEF Control
<1> QED
  BY <1>5, <1>6, <1>7 DEF IInv

\* The sweep, the rehash and the destructor as they go from bucket to bucket.
LEMMA BucketStep ==
  ASSUME ~Recursive, IInv,
         Sweep \/ SweepPast \/ SweepNext \/ MovePast \/ MoveNext \/ Destroy \/ DestroyNext
  PROVE  IInv'
<1>1. /\ TypeOK /\ Control /\ target = None /\ saved = <<>>
      /\ phase \in {"idle", "grow", "sweep", "move", "destroy"}
  BY DEF IInv, Control, Sweep, SweepPast, SweepNext, MovePast, MoveNext, Destroy, DestroyNext
<1>2. /\ UNCHANGED <<n, link, key, size, pinned, expired, failed, op, arg, cur, saved, target, orig>>
      /\ phase' \in {"sweep", "resize", "move", "destroy", "gone"}
  BY <1>1 DEF Sweep, SweepPast, SweepNext, MovePast, MoveNext, Destroy, DestroyNext, map, call
<1>3. Created' = Created
  <2>1. Allocated' = Allocated
    BY <1>2 DEF Allocated
  <2> QED BY <1>1, <1>2, <2>1, CreatedIs DEF Created, Fresh
<1>4. /\ bkt' \in Nat /\ iter' \in Loc \union {Dangling}
      /\ (phase' \in {"sweep", "move", "destroy"} => iter' \in Place)
      /\ (phase' = "move" => orig <= n /\ bkt' < orig /\ (iter' \in Nat => iter' = bkt'))
  <2>1. CASE Sweep
    BY <1>1, <2>1, Reach DEF Sweep
  <2>2. CASE SweepPast
    BY <1>1, <2>2, Reach, Apart DEF SweepPast, Advance, Next_, TypeOK, Control, Loc
  <2>3. CASE SweepNext
    BY <1>1, <2>3, Reach, Apart DEF SweepNext, TypeOK, Control
  <2>4. CASE MovePast
    <3>1. /\ link[iter] \in Addr /\ link[iter] \in Place /\ iter' = link[iter]
          /\ bkt' = bkt /\ phase = "move" /\ link[iter] \notin Nat
      BY <1>1, <2>4, Reach, Apart DEF MovePast, Advance, Next_, Control
    <3> QED BY <1>1, <3>1 DEF TypeOK, Control, Loc
  <2>5. CASE MoveNext
    <3>1. bkt' = bkt + 1 /\ iter' = bkt + 1 /\ bkt + 1 < orig /\ orig <= n
      BY <1>1, <2>5 DEF MoveNext, Control
    <3> QED BY <1>1, <3>1, Reach DEF TypeOK
  <2>6. CASE Destroy
    BY <1>1, <2>6, Reach DEF Destroy
  <2>7. CASE DestroyNext
    BY <1>1, <2>7, Reach, Apart DEF DestroyNext, TypeOK, Control
  <2> QED BY <2>1, <2>2, <2>3, <2>4, <2>5, <2>6, <2>7
<1>5. /\ Pointers' /\ Ranks' /\ Counted' /\ Place' = Place /\ Loc' = Loc
  BY <1>2, <1>3, QuietKeeps
<1>6. TypeOK'
  BY <1>1, <1>2, <1>4, <1>5 DEF TypeOK
<1>7. Control'
  BY <1>1, <1>2, <1>4, <1>5 DEF Control
<1> QED
  BY <1>5, <1>6, <1>7 DEF IInv

\* An element expires or is resolved, or a call begins.
LEMMA OutsideStep ==
  ASSUME ~Recursive, IInv,
         \/ \E a \in Addr : Expires(a) \/ Resolve(a) \/ ResolveThrows(a)
         \/ \E o \in {"get", "peek", "expire"}, k \in Keys : Call(o, k)
  PROVE  IInv'
<1>1. TypeOK /\ Control /\ saved = <<>>
  BY DEF IInv, Control
<1>2. /\ UNCHANGED <<n, link, key, size, failed, saved, target, bkt, orig>>
      /\ expired' \subseteq Addr /\ pinned' \subseteq Addr
  BY <1>1 DEF Expires, Resolve, ResolveThrows, Call, map, call, walk, TypeOK
<1>3. CASE \E a \in Addr : Expires(a) \/ ResolveThrows(a)
  <2>1. UNCHANGED <<phase, op, arg, cur, iter>>
    BY <1>3 DEF Expires, ResolveThrows, call, walk
  <2>2. Created' = Created
    BY <1>2, <2>1 DEF Created, Fresh, Allocated
  <2>3. /\ Pointers' /\ Ranks' /\ Counted' /\ Place' = Place /\ Loc' = Loc /\ Allocated' = Allocated
    BY <1>2, <2>2, QuietKeeps
  <2>4. TypeOK' /\ Control'
    BY <1>1, <1>2, <2>1, <2>3 DEF TypeOK, Control
  <2> QED BY <2>3, <2>4 DEF IInv
<1>4. CASE \/ \E a \in Addr : Resolve(a)
           \/ \E o \in {"get", "peek", "expire"}, k \in Keys : Call(o, k)
  <2>1. phase = "idle" /\ target = None
    BY <1>1, <1>4 DEF Resolve, Call, Control
  <2>2. /\ phase' \in {"grow", "walk"} /\ op' \in {"none", "get", "peek", "expire"}
        /\ arg' \in Keys \union {None} /\ cur' \in Addr \union {None}
        /\ iter' \in Loc \union {Dangling}
        /\ (phase' = "walk" => iter' \in Place /\ arg' \in Keys)
    <3>1. CASE \E a \in Addr : Resolve(a)
      BY <1>1, <3>1 DEF Resolve, walk, TypeOK
    <3>2. CASE \E o \in {"get", "peek", "expire"}, k \in Keys : Call(o, k)
      BY <1>1, <3>2, Reach DEF Call, TypeOK
    <3> QED BY <1>4, <3>1, <3>2
  <2>3. Created' = Created
    <3>1. Allocated' = Allocated
      BY <1>2 DEF Allocated
    <3> QED BY <1>1, <1>2, <2>1, <2>2, <3>1, CreatedIs DEF Created, Fresh
  <2>4. /\ Pointers' /\ Ranks' /\ Counted' /\ Place' = Place /\ Loc' = Loc
    BY <1>2, <2>3, QuietKeeps
  <2>5. TypeOK'
    BY <1>1, <1>2, <2>2, <2>4 DEF TypeOK
  <2>6. Control'
    BY <1>1, <1>2, <2>1, <2>2, <2>4 DEF Control
  <2> QED BY <2>4, <2>5, <2>6 DEF IInv
<1> QED
  BY <1>3, <1>4

-----------------------------------------------------------------------------
\* The steps that unlink an element.

\* A walk erases the element before it.
LEMMA WalkErases ==
  ASSUME ~Recursive, IInv, WalkErase \/ WalkExpire
  PROVE  IInv'
<1>1. /\ TypeOK /\ Control /\ phase = "walk" /\ target = None /\ saved = <<>> /\ iter \in Place
      /\ link[iter] # None
  BY DEF IInv, Control, WalkErase, WalkExpire, Walking, Match, Next_
<1>2. link[iter] \in Addr /\ link[iter] \in Created /\ Created = Allocated
  BY <1>1, Reach, CreatedIs
<1>3. /\ UNCHANGED <<n, pinned, failed, target, bkt, orig>>
      /\ phase' \in {"walk", "idle"} /\ saved' = <<>>
  BY <1>1, ReturnIs DEF WalkErase, WalkExpire, call, walk
<1>4. expired' \subseteq Addr
  BY <1>1, <1>2 DEF WalkErase, WalkExpire, TypeOK, Next_
<1>5. /\ op' \in {"none", "get", "peek", "expire"} /\ arg' \in Keys \union {None}
      /\ cur' \in Addr \union {None} /\ (iter' = iter \/ iter' = 0)
      /\ (phase' = "walk" => arg' \in Keys /\ iter' = iter)
  BY <1>1, ReturnIs DEF WalkErase, WalkExpire, call, walk, TypeOK, Control
<1>6. CASE UNCHANGED <<link, key, size>>
  <2>1. Created' = Created
    <3>1. Allocated' = Allocated
      BY <1>6 DEF Allocated
    <3> QED BY <1>1, <1>3, <3>1, CreatedIs DEF Created, Fresh
  <2>2. /\ Pointers' /\ Ranks' /\ Counted' /\ Place' = Place /\ Loc' = Loc
    BY <1>3, <1>6, <2>1, QuietKeeps
  <2>3. TypeOK'
    BY <1>1, <1>3, <1>4, <1>5, <1>6, <2>2, Reach DEF TypeOK
  <2>4. Control'
    BY <1>1, <1>3, <1>5, <2>2 DEF Control
  <2> QED BY <2>2, <2>3, <2>4 DEF IInv
<1>7. CASE Unlink
  <2>1. Created' = Created \ {link[iter]}
    <3>1. key' = [key EXCEPT ![link[iter]] = None]
      BY <1>7 DEF Unlink
    <3>2. Allocated' = Allocated \ {link[iter]}
      BY <1>1, <1>2, <3>1 DEF Allocated, TypeOK
    <3>3. Created' = Allocated'
      BY <1>3 DEF Created, Fresh
    <3> QED BY <1>2, <3>2, <3>3
  <2>2. /\ Pointers' /\ Ranks' /\ Counted' /\ iter \in Place'
        /\ link' \in [Loc -> Addr \union {None}] /\ key' \in [Addr -> Keys \union {None}]
        /\ size' \in Int
    BY <1>1, <1>3, <1>7, <2>1, UnlinkKeeps
  <2>3. Loc' = Loc /\ 0 \in Loc
    BY <1>3, Reach DEF Loc, Buckets
  <2>4. TypeOK'
    BY <1>1, <1>3, <1>4, <1>5, <2>2, <2>3 DEF TypeOK
  <2>5. Control'
    BY <1>1, <1>3, <1>5, <2>2 DEF Control
  <2> QED BY <2>2, <2>4, <2>5 DEF IInv
<1> QED
  BY <1>6, <1>7 DEF WalkErase, WalkExpire

\* So do an eviction, the sweep and the destructor.
LEMMA OthersErase ==
  ASSUME ~Recursive, IInv, EraseFound \/ SweepErase \/ DestroyElement
  PROVE  IInv'
<1>1. /\ TypeOK /\ Control /\ phase \in {"hit", "made", "sweep", "destroy"}
      /\ saved = <<>> /\ iter \in Place /\ link[iter] # None /\ Unlink
  BY AddrAssumption DEF IInv, Control, EraseFound, SweepErase, DestroyElement, Next_, Locked, TypeOK
<1>2. link[iter] \in Addr /\ link[iter] \in Created /\ Created = Allocated
  BY <1>1, Reach, CreatedIs
<1>3. UNCHANGED <<n, expired, pinned, failed, bkt, orig, phase, op, arg, cur, saved, iter>>
  BY DEF EraseFound, SweepErase, DestroyElement, call, walk
<1>4. target' = None
  BY <1>1 DEF EraseFound, SweepErase, DestroyElement, walk, Control
<1>5. Created' = Created \ {link[iter]}
  <2>1. key' = [key EXCEPT ![link[iter]] = None]
    BY <1>1 DEF Unlink
  <2>2. Allocated' = Allocated \ {link[iter]}
    BY <1>1, <1>2, <2>1 DEF Allocated, TypeOK
  <2>3. Created' = Allocated'
    BY <1>1, <1>3 DEF Created, Fresh
  <2> QED BY <1>2, <2>2, <2>3
<1>6. /\ Pointers' /\ Ranks' /\ Counted' /\ iter \in Place'
      /\ link' \in [Loc -> Addr \union {None}] /\ key' \in [Addr -> Keys \union {None}]
      /\ size' \in Int
  BY <1>1, <1>3, <1>5, UnlinkKeeps
<1>7. Loc' = Loc
  BY <1>3 DEF Loc, Buckets
<1>8. TypeOK'
  BY <1>1, <1>3, <1>4, <1>6, <1>7 DEF TypeOK
<1>9. Control'
  BY <1>1, <1>3, <1>4, <1>6 DEF Control
<1> QED
  BY <1>6, <1>8, <1>9 DEF IInv

-----------------------------------------------------------------------------
\* Creating an element: it is allocated, and then linked at the end of the
\* chain or given back.

\* A creation begins or is given up.
LEMMA AllocateStep ==
  ASSUME ~Recursive, IInv, CreateThrows \/ \E a \in Addr : BeginCreate(a)
  PROVE  IInv'
<1>1. /\ TypeOK /\ Control /\ target = None /\ saved = <<>> /\ phase \in {"walk", "create"}
  BY DEF IInv, Control, CreateThrows, BeginCreate
<1>2. CASE \E a \in Addr : BeginCreate(a)
  <2>1. PICK a \in Addr : BeginCreate(a)
    BY <1>2
  <2>2. /\ UNCHANGED <<n, link, pinned, size, op, arg, saved, target, bkt, orig, failed, iter>>
        /\ phase = "walk" /\ phase' = "create" /\ cur' = a /\ link[iter] = None
        /\ key' = [key EXCEPT ![a] = arg] /\ key[a] = None /\ arg \in Keys
        /\ expired' = expired \ {a}
    BY <1>1, <2>1 DEF BeginCreate, walk, Next_, Control
  <2>3. arg # None
    BY <2>2, AddrAssumption
  <2>4. key' \in [Addr -> Keys \union {None}] /\ Allocated' = Allocated \union {a} /\ a \notin Allocated
    BY <1>1, <2>2, <2>3 DEF TypeOK, Allocated
  <2>5. Created' = Created
    <3>1. Created = Allocated
      BY <1>1, <2>2, CreatedIs
    <3>2. Created' = Allocated' \ {a}
      BY <1>1, <2>2 DEF Created, Fresh
    <3> QED BY <2>4, <3>1, <3>2
  <2>6. Buckets' = Buckets /\ Loc' = Loc /\ Place' = Place
    BY <2>2, <2>5 DEF Buckets, Loc, Place
  <2>7. Pointers' /\ Ranks' /\ Counted'
    BY <2>2, <2>5, <2>6 DEF IInv, Pointers, Ranks, Rising, Counted
  <2>8. TypeOK'
    BY <1>1, <2>2, <2>4, <2>6 DEF TypeOK
  <2>9. Control'
    BY <1>1, <2>2, <2>4, <2>6 DEF Control
  <2> QED BY <2>7, <2>8, <2>9 DEF IInv
<1>3. CASE CreateThrows
  <2>1. /\ UNCHANGED <<n, link, expired, pinned, size, target, bkt, orig, failed>>
        /\ phase = "create" /\ key' = [key EXCEPT ![cur] = None] /\ cur \in Allocated
        /\ phase' = "idle" /\ op' = "none" /\ arg' = None /\ cur' = None /\ iter' = 0
        /\ saved' = <<>>
    BY <1>1, <1>3, ReturnIs DEF CreateThrows, Control
  <2>2. key' \in [Addr -> Keys \union {None}] /\ Allocated' = Allocated \ {cur}
    BY <1>1, <2>1 DEF TypeOK, Allocated
  <2>3. Created' = Created
    <3>1. Created = Allocated \ {cur}
      BY <1>1, <2>1, CreatedIs
    <3>2. Created' = Allocated'
      BY <2>1 DEF Created, Fresh
    <3> QED BY <2>2, <3>1, <3>2
  <2>4. Buckets' = Buckets /\ Loc' = Loc /\ Place' = Place
    BY <2>1, <2>3 DEF Buckets, Loc, Place
  <2>5. Pointers' /\ Ranks' /\ Counted'
    BY <2>1, <2>3, <2>4 DEF IInv, Pointers, Ranks, Rising, Counted
  <2>6. TypeOK'
    BY <1>1, <2>1, <2>2, <2>4, Reach DEF TypeOK
  <2>7. Control'
    BY <1>1, <2>1 DEF Control
  <2> QED BY <2>5, <2>6, <2>7 DEF IInv
<1> QED
  BY <1>2, <1>3

\* A new element is linked at the end of its chain.
LEMMA CreateStep ==
  ASSUME ~Recursive, IInv, Create
  PROVE  IInv'
<1>1. /\ TypeOK /\ Control /\ Pointers /\ Ranks /\ Counted /\ phase = "create" /\ target = None
      /\ saved = <<>> /\ iter \in Place /\ link[iter] = None /\ cur \in Allocated
  BY DEF IInv, Control, Create
<1>2. /\ UNCHANGED <<n, key, expired, pinned, op, arg, cur, saved, iter, target, bkt, orig, failed>>
      /\ size' = size + 1 /\ phase' = "made"
      /\ link' = [l \in Loc |-> IF l = iter THEN cur ELSE IF l = cur THEN None ELSE link[l]]
  BY DEF Create, call, walk
<1>3. /\ cur \in Addr /\ cur \notin Created /\ cur \in Loc /\ iter \in Loc /\ cur # None
      /\ cur \notin Buckets /\ Place \subseteq Loc /\ Created' = Created \union {cur}
  <2>1. Created = Allocated \ {cur}
    BY <1>1, CreatedIs
  <2>2. Created' = Allocated' /\ Allocated' = Allocated
    BY <1>1, <1>2 DEF Created, Fresh, Allocated
  <2> QED BY <1>1, <2>1, <2>2, Apart DEF Allocated, Loc, Buckets
<1>4. Buckets' = Buckets /\ Loc' = Loc /\ Place' = Place \union {cur} /\ cur \notin Place
  BY <1>2, <1>3 DEF Buckets, Loc, Place
<1>5. /\ link'[iter] = cur /\ link'[cur] = None
      /\ \A l \in Place \ {iter} : link'[l] = link[l] /\ link[l] # cur
  BY <1>1, <1>2, <1>3, <1>4 DEF Pointers
<1>6. Pointers'
  <2>1. ASSUME NEW l \in Place', link'[l] # None PROVE link'[l] \in Created'
    BY <1>1, <1>3, <1>4, <1>5, <2>1 DEF Pointers
  <2>2. ASSUME NEW a \in Created' PROVE \E l \in Place' : link'[l] = a
    <3>1. CASE a = cur
      BY <1>1, <1>4, <1>5, <3>1
    <3>2. CASE a # cur
      <4>1. a \in Created
        BY <1>3, <2>2, <3>2
      <4>2. PICK l \in Place : link[l] = a
        BY <1>1, <4>1 DEF Pointers
      <4>3. l # iter
        BY <1>1, <4>1, <4>2, Apart
      <4> QED BY <1>4, <1>5, <4>2, <4>3
    <3> QED BY <3>1, <3>2
  <2>3. ASSUME NEW l \in Place', NEW m \in Place', l # m, link'[l] # None
        PROVE  link'[l] # link'[m]
    BY <1>1, <1>4, <1>5, <2>3 DEF Pointers
  <2> QED BY <2>1, <2>2, <2>3 DEF Pointers
<1>7. Ranks'
  <2>1. PICK r \in [Addr -> Int] : Rising(r)
    BY <1>1 DEF Ranks
  <2>2. PICK q \in [Addr -> Int] :
          q = [a \in Addr |-> IF a # cur THEN r[a] ELSE IF iter \in Addr THEN r[iter] + 1 ELSE 0]
    <3>1. [a \in Addr |-> IF a # cur THEN r[a] ELSE IF iter \in Addr THEN r[iter] + 1 ELSE 0] \in [Addr -> Int]
      BY <2>1
    <3> QED BY <3>1
  <2>3. ASSUME NEW a \in Created', link'[a] # None PROVE q[a] < q[link'[a]]
    <3>1. a \in Created /\ a \in Place /\ a \in Addr /\ a # cur
      BY <1>1, <1>3, <1>5, <2>3, Apart DEF Place
    <3>2. CASE a = iter
      <4>1. q[a] = r[iter] /\ q[cur] = r[iter] + 1 /\ link'[a] = cur /\ r[iter] \in Int
        BY <1>3, <1>5, <2>1, <2>2, <3>1, <3>2
      <4> QED BY <4>1
    <3>3. CASE a # iter
      <4>1. link'[a] = link[a] /\ link[a] # cur
        BY <1>5, <3>1, <3>3
      <4>2. link[a] \in Addr
        BY <1>1, <2>3, <3>1, <4>1, Apart DEF Pointers
      <4>3. r[a] < r[link[a]]
        BY <2>1, <2>3, <3>1, <4>1 DEF Rising
      <4> QED BY <2>2, <3>1, <4>1, <4>2, <4>3
    <3> QED BY <3>2, <3>3
  <2>4. Rising(q)'
    BY <2>3 DEF Rising
  <2> QED BY <2>4 DEF Ranks
<1>8. Counted'
  <2>1. Cardinality(Created \union {cur}) = Cardinality(Created) + 1
    BY <1>1, <1>3, Apart, FS_AddElement
  <2> QED BY <1>1, <1>2, <1>3, <2>1 DEF Counted
<1>9. TypeOK'
  <2>1. link' \in [Loc -> Addr \union {None}]
    BY <1>1, <1>2, <1>3 DEF TypeOK
  <2>2. size' \in Int
    BY <1>1, <1>2 DEF TypeOK
  <2> QED BY <1>1, <1>2, <1>4, <2>1, <2>2 DEF TypeOK
<1>10. Control'
  BY <1>1, <1>2, <1>3, <1>4 DEF Control
<1> QED
  BY <1>6, <1>7, <1>8, <1>9, <1>10 DEF IInv

-----------------------------------------------------------------------------
\* Growing the vector, and moving an element to the head of another chain.

\* The vector of buckets grows.
LEMMA ResizeStep ==
  ASSUME ~Recursive, IInv, Resize
  PROVE  IInv'
<1>1. /\ TypeOK /\ Control /\ Pointers /\ Ranks /\ Counted /\ phase = "resize" /\ target = None
      /\ saved = <<>>
  BY DEF IInv, Control, Resize
<1>2. /\ UNCHANGED <<key, expired, pinned, size, op, arg, cur, target, failed>>
      /\ n' = GrownBuckets /\ orig' = n /\ phase' = "move" /\ bkt' = 0 /\ iter' = 0
      /\ link' = [l \in Addr \union 0 .. GrownBuckets - 1 |-> IF l \in Loc THEN link[l] ELSE None]
  BY DEF Resize
<1>3. saved' = <<>>
  <2>1. DOMAIN saved = {}
    BY <1>1
  <2> QED BY <2>1 DEF Resize
<1>4. n \in Nat /\ n > 0 /\ n' \in Nat /\ n' > n
  <2>1. n \in Nat /\ n > 0
    BY <1>1 DEF TypeOK
  <2>2. n \div 7 \in Nat /\ n < (n \div 7 + 1) * 9 /\ (n \div 7 + 1) * 9 \in Nat
    BY <2>1
  <2> QED BY <1>2, <2>1, <2>2 DEF GrownBuckets
<1>5. Created' = Created
  BY <1>1, <1>2, <1>3 DEF Created, Fresh, Allocated
<1>6. /\ Buckets \subseteq Buckets' /\ Loc' = Addr \union 0 .. GrownBuckets - 1
      /\ Loc \subseteq Loc' /\ Place' = Place \union Buckets' /\ Place' \subseteq Loc'
      /\ Place \subseteq Loc
  <2>1. Buckets \subseteq Buckets' /\ Loc' = Addr \union 0 .. GrownBuckets - 1
    BY <1>2, <1>4 DEF Buckets, Loc
  <2>2. Created \subseteq Addr
    BY <1>1, Apart
  <2> QED BY <1>5, <2>1, <2>2 DEF Place, Loc
<1>7. \A l \in Place' : link'[l] = IF l \in Place THEN link[l] ELSE None
  <2>1. ASSUME NEW l \in Place', l \notin Place PROVE l \notin Loc
    <3>1. l \in Buckets' /\ l \notin Buckets
      BY <1>6, <2>1 DEF Place
    <3>2. l \in Nat
      BY <1>4, <3>1 DEF Buckets
    <3> QED BY <1>1, <3>1, <3>2, Apart DEF Loc
  <2> QED BY <1>2, <1>6, <2>1
<1>8. Pointers'
  <2>1. ASSUME NEW l \in Place', link'[l] # None PROVE link'[l] \in Created'
    BY <1>1, <1>5, <1>7, <2>1 DEF Pointers
  <2>2. ASSUME NEW a \in Created' PROVE \E l \in Place' : link'[l] = a
    BY <1>1, <1>5, <1>6, <1>7, <2>2 DEF Pointers
  <2>3. ASSUME NEW l \in Place', NEW m \in Place', l # m, link'[l] # None
        PROVE  link'[l] # link'[m]
    BY <1>1, <1>7, <2>3 DEF Pointers
  <2> QED BY <2>1, <2>2, <2>3 DEF Pointers
<1>9. Ranks'
  <2>1. PICK r \in [Addr -> Int] : Rising(r)
    BY <1>1 DEF Ranks
  <2>2. \A a \in Created : link'[a] = link[a]
    BY <1>6, <1>7 DEF Place
  <2> QED BY <1>5, <2>1, <2>2 DEF Ranks, Rising
<1>10. Counted'
  BY <1>1, <1>2, <1>5 DEF Counted
<1>11. TypeOK'
  <2>1. link' \in [Loc' -> Addr \union {None}]
    BY <1>1, <1>2, <1>6 DEF TypeOK
  <2>2. iter' \in Loc'
    BY <1>2, <1>4 DEF Loc, Buckets
  <2> QED BY <1>1, <1>2, <1>4, <2>1, <2>2 DEF TypeOK
<1>12. Control'
  <2>1. 0 \in Buckets'
    <3>1. \A x \in Nat : x > 0 => 0 \in 0 .. x - 1
      OBVIOUS
    <3>2. n' \in Nat /\ n' > 0
      BY <1>4
    <3> QED BY <3>1, <3>2 DEF Buckets
  <2>2. 0 \in Place'
    BY <1>6, <2>1
  <2> QED BY <1>1, <1>2, <1>3, <1>4, <2>2 DEF Control
<1> QED
  BY <1>8, <1>9, <1>10, <1>11, <1>12 DEF IInv

\* An element moves to the head of another chain.
LEMMA MoveStep ==
  ASSUME ~Recursive, IInv, Move
  PROVE  IInv'
<1> DEFINE s == link[iter]
           dst == Home(key[s])
<1>1. /\ TypeOK /\ Control /\ Pointers /\ Ranks /\ Counted /\ phase = "move" /\ target = None
      /\ saved = <<>> /\ iter \in Place /\ s # None /\ dst # bkt /\ (iter \in Nat => iter = bkt)
  BY DEF IInv, Control, Move, Next_
<1>2. /\ UNCHANGED <<n, key, expired, pinned, size, phase, op, arg, cur, saved, iter, target,
                     bkt, orig, failed>>
      /\ link' = [link EXCEPT ![iter] = link[s], ![s] = link[dst], ![dst] = s]
  BY DEF Move, call, walk, Next_
<1>3. /\ s \in Created /\ s \in Addr /\ s \in Place /\ s # iter
  BY <1>1, Reach, NoLoop
<1>4. dst \in Buckets /\ dst \in Place /\ dst \in Nat /\ dst # iter /\ dst # s /\ dst \notin Created
  <2>1. key[s] \in Keys
    BY <1>1, <1>3, Apart
  <2>2. dst \in Buckets
    BY <1>1, <2>1, HomeIs DEF TypeOK
  <2> QED BY <1>1, <1>3, <2>2, Apart DEF Place
<1>5. Created' = Created /\ Buckets' = Buckets /\ Loc' = Loc /\ Place' = Place /\ Place \subseteq Loc
  BY <1>1, <1>2, Apart DEF Created, Fresh, Allocated, Buckets, Loc, Place
<1> HIDE DEF s, dst
<1>6. /\ link'[iter] = link[s] /\ link'[s] = link[dst] /\ link'[dst] = s
      /\ \A l \in Place \ {iter, s, dst} : link'[l] = link[l]
  BY <1>1, <1>2, <1>3, <1>4, <1>5 DEF TypeOK
<1>7. link[iter] = s
  BY DEF s
<1>8. Pointers'
  <2>1. ASSUME NEW l \in Place, link'[l] # None PROVE link'[l] \in Created
    BY <1>1, <1>3, <1>4, <1>6, <2>1 DEF Pointers
  <2>2. ASSUME NEW a \in Created PROVE \E l \in Place : link'[l] = a
    <3>1. PICK l \in Place : link[l] = a
      BY <1>1 DEF Pointers
    <3>2. CASE l = iter
      BY <1>4, <1>6, <1>7, <3>1, <3>2
    <3>3. CASE l = s
      BY <1>1, <1>6, <3>1, <3>3
    <3>4. CASE l = dst
      BY <1>3, <1>6, <3>1, <3>4
    <3>5. CASE l \notin {iter, s, dst}
      BY <1>6, <3>1, <3>5
    <3> QED BY <3>2, <3>3, <3>4, <3>5
  <2>3. ASSUME NEW l \in Place, NEW m \in Place, l # m, link'[l] # None
        PROVE  link'[l] # link'[m]
    <3>1. \A x, y \in Place : x # y /\ link[x] # None => link[x] # link[y]
      BY <1>1 DEF Pointers
    <3> QED BY <1>1, <1>3, <1>4, <1>6, <1>7, <2>3, <3>1
  <2> QED BY <1>5, <2>1, <2>2, <2>3 DEF Pointers
<1>9. Ranks'
  <2>1. PICK r \in [Addr -> Int] : Rising(r)
    BY <1>1 DEF Ranks
  <2> DEFINE h == link[dst]
  <2>2. PICK q \in [Addr -> Int] :
          q = [a \in Addr |-> IF a # s THEN r[a] ELSE IF h \in Addr THEN r[h] - 1 ELSE 0]
    <3>1. [a \in Addr |-> IF a # s THEN r[a] ELSE IF h \in Addr THEN r[h] - 1 ELSE 0] \in [Addr -> Int]
      BY <2>1
    <3> QED BY <3>1
  <2>3. ASSUME NEW a \in Created, link'[a] # None PROVE q[a] < q[link'[a]]
    <3>1. a \in Place /\ a \in Addr /\ a # dst
      BY <1>1, <1>4, Apart DEF Place
    <3>2. CASE a = s
      <4>1. h # None /\ h \in Addr /\ h # s /\ link'[a] = h
        BY <1>1, <1>4, <1>6, <1>7, <2>3, <3>2, Apart DEF Pointers
      <4>2. q[a] = r[h] - 1 /\ q[h] = r[h] /\ r[h] \in Int
        BY <1>3, <2>1, <2>2, <3>2, <4>1
      <4> QED BY <4>1, <4>2
    <3>3. CASE a = iter
      <4>1. link'[a] = link[s] /\ link[s] # None /\ link[s] \in Created /\ link[s] # s
        BY <1>1, <1>3, <1>6, <2>3, <3>3, NoLoop DEF Pointers
      <4>2. r[a] < r[s] /\ r[s] < r[link[s]]
        BY <1>1, <1>3, <1>7, <2>1, <3>3, <4>1 DEF Rising
      <4>3. link[s] \in Addr
        BY <1>1, <4>1, Apart
      <4>4. q[a] = r[a] /\ q[link[s]] = r[link[s]]
        BY <1>3, <2>2, <3>1, <3>3, <4>1, <4>3
      <4>5. r[a] \in Int /\ r[s] \in Int /\ r[link[s]] \in Int
        BY <1>3, <2>1, <3>1, <4>3
      <4> QED BY <4>1, <4>2, <4>4, <4>5
    <3>4. CASE a \notin {iter, s}
      <4>1. link'[a] = link[a] /\ link[a] # s
        BY <1>1, <1>6, <1>7, <3>1, <3>4 DEF Pointers
      <4>2. link[a] \in Addr
        BY <1>1, <2>3, <3>1, <4>1, Apart DEF Pointers
      <4>3. r[a] < r[link[a]]
        BY <2>1, <2>3, <4>1 DEF Rising
      <4> QED BY <2>2, <3>1, <3>4, <4>1, <4>2, <4>3
    <3> QED BY <3>2, <3>3, <3>4
  <2>4. Rising(q)'
    BY <1>5, <2>3 DEF Rising
  <2> QED BY <2>4 DEF Ranks
<1>10. Counted'
  BY <1>1, <1>2, <1>5 DEF Counted
<1>11. TypeOK'
  <2>1. link' \in [Loc -> Addr \union {None}]
    <3>1. link[s] \in Addr \union {None} /\ link[dst] \in Addr \union {None}
      BY <1>1, <1>3, <1>4, <1>5 DEF TypeOK
    <3> QED BY <1>1, <1>2, <1>3, <3>1 DEF TypeOK
  <2> QED BY <1>1, <1>2, <1>5, <2>1 DEF TypeOK
<1>12. Control'
  BY <1>1, <1>2, <1>5 DEF Control
<1> QED
  BY <1>8, <1>9, <1>10, <1>11, <1>12 DEF IInv

-----------------------------------------------------------------------------
\* Every step keeps the invariant.
LEMMA NextIInv == ~Recursive /\ IInv /\ [Next]_vars => IInv'
<1> SUFFICES ASSUME ~Recursive, IInv, [Next]_vars PROVE IInv'
  OBVIOUS
<1>1. CASE UNCHANGED vars
  <2>1. /\ UNCHANGED <<n, link, key, size, expired, pinned, failed, phase, op, arg, cur, saved,
                       iter, target, bkt, orig>>
    BY <1>1 DEF vars, map, call, walk
  <2>2. Created' = Created
    BY <2>1 DEF Created, Fresh, Allocated
  <2>3. /\ Pointers' /\ Ranks' /\ Counted' /\ Place' = Place /\ Loc' = Loc /\ Allocated' = Allocated
    BY <2>1, <2>2, QuietKeeps
  <2>4. TypeOK' /\ Control'
    BY <2>1, <2>3 DEF IInv, TypeOK, Control
  <2> QED BY <2>3, <2>4 DEF IInv
<1>2. CASE Work
  <2>1. CASE WalkPast \/ WalkHit \/ WalkFound \/ WalkMiss
    BY <2>1, SearchStep
  <2>2. CASE HitReturns \/ WaitUnlocked \/ CreatedSync \/ Enough \/ ResizeFails \/ Moved
    BY <2>2, ServeStep
  <2>3. CASE EraseStep \/ \E a \in Addr : Evict(a)
    BY <2>3, EvictStep
  <2>4. CASE Sweep \/ SweepPast \/ SweepNext \/ MovePast \/ MoveNext \/ DestroyNext
    BY <2>4, BucketStep
  <2>5. CASE WalkErase \/ WalkExpire
    BY <2>5, WalkErases
  <2>6. CASE EraseFound \/ SweepErase \/ DestroyElement
    BY <2>6, OthersErase
  <2>7. CASE CreateThrows \/ \E a \in Addr : BeginCreate(a)
    BY <2>7, AllocateStep
  <2>8. CASE Create
    BY <2>8, CreateStep
  <2>9. CASE Resize
    BY <2>9, ResizeStep
  <2>10. CASE Move
    BY <2>10, MoveStep
  <2>11. CASE \E k \in Keys : Recurse(k)
    BY <2>11 DEF Recurse
  <2> QED
    BY <1>2, <2>1, <2>2, <2>3, <2>4, <2>5, <2>6, <2>7, <2>8, <2>9, <2>10, <2>11 DEF Work
<1>3. CASE Destroy
  BY <1>3, BucketStep
<1>4. CASE \/ \E a \in Addr : Expires(a) \/ Resolve(a) \/ ResolveThrows(a)
           \/ \E o \in {"get", "peek", "expire"}, k \in Keys : Call(o, k)
  BY <1>4, OutsideStep
<1> QED
  BY <1>1, <1>2, <1>3, <1>4 DEF Next

\* The invariant contains Threaded and the types.
LEMMA IInvIs == ~Recursive => (IInv => TypeOK /\ Threaded)
BY DEF IInv, Pointers, Counted, Threaded, Place

\* The chains are well formed at every step, without recursion (Threaded).
THEOREM ChainsAreWellFormed == ASSUME ~Recursive PROVE Spec => []Threaded
<1>1. Init => IInv
  BY InitIInv
<1>2. IInv /\ [Next]_vars => IInv'
  BY NextIInv
<1>3. IInv => Threaded
  BY IInvIs
<1> QED BY <1>1, <1>2, <1>3, PTL DEF Spec

\* The variables have the types of the code, without recursion (TypeOK): each
\* iterator is a location of the map as it is now.
THEOREM BucketsTypes == ASSUME ~Recursive PROVE Spec => []TypeOK
<1>1. Init => IInv
  BY InitIInv
<1>2. IInv /\ [Next]_vars => IInv'
  BY NextIInv
<1>3. IInv => TypeOK
  BY IInvIs
<1> QED BY <1>1, <1>2, <1>3, PTL DEF Spec

-----------------------------------------------------------------------------
\* The load factor.  Between a creation and its rehash one bucket per Spread
\* may be missing; one growth step makes up for up to six, because the number
\* of buckets is three or a multiple of nine.

Loading == phase \in {"made", "grow", "sweep", "resize"}
Sizes == n \in Nat /\ size \in Int /\ (n = 3 \/ (n > 0 /\ n % 9 = 0))
Load == ~Async /\ ~failed => IF Loading THEN n >= Spread * size - Spread ELSE n >= Spread * size
LInv == Sizes /\ Load

LEMMA GrowthIsEnough ==
  ASSUME NEW b \in Nat, b = 3 \/ (b > 0 /\ b % 9 = 0)
  PROVE  LET c == (b \div 7 + 1) * 9 IN c \in Nat /\ c >= b + 6 /\ c > 0 /\ c % 9 = 0
<1>1. CASE b = 3
  BY <1>1
<1>2. CASE b > 0 /\ b % 9 = 0
  <2>1. PICK m \in Nat : b = 9 * m /\ m > 0
    <3>1. b = 9 * (b \div 9) /\ b \div 9 \in Nat /\ b \div 9 > 0
      BY <1>2
    <3> QED BY <3>1
  <2>2. PICK q \in Nat : q = b \div 7
    OBVIOUS
  <2>3. 7 * q <= b /\ b < 7 * q + 7
    BY <2>2
  <2>4. (q + 1) * 9 >= b + 6
    BY <2>1, <2>3
  <2>5. (q + 1) * 9 \in Nat /\ ((q + 1) * 9) % 9 = 0 /\ (q + 1) * 9 > 0
    OBVIOUS
  <2> QED BY <2>2, <2>4, <2>5
<1> QED
  BY <1>1, <1>2

\* One element more or less makes a difference of Spread buckets.
LEMMA SpreadTimes ==
  ASSUME NEW x \in Int
  PROVE  /\ Spread * x \in Int /\ Spread * (x - 1) = Spread * x - Spread
         /\ Spread * (x + 1) = Spread * x + Spread /\ Spread \in Nat /\ Spread > 0
BY HashAssumption

\* Fewer elements need no more buckets.
LEMMA Lower ==
  ASSUME NEW x \in Int, NEW y \in Int, NEW b \in Int, NEW c \in Int, y = x - c, c > 0
  PROVE  (b >= x => b >= y) /\ (b >= x - c => b >= y - c)
OBVIOUS

\* Every step keeps what LoadKept rests on.
LEMMA LoadStep ==
  ASSUME Spread <= 6, LInv, [Next]_vars
  PROVE  LInv'
<1>1. n \in Nat /\ size \in Int /\ Sizes /\ Load
  BY DEF LInv, Sizes
<1> USE SpreadTimes
<1>2. CASE Resize
  <2>1. /\ n < Spread * size /\ phase = "resize" /\ n' = (n \div 7 + 1) * 9
        /\ UNCHANGED <<size, failed>> /\ phase' = "move"
    BY <1>2 DEF Resize, GrownBuckets, TargetBuckets
  <2>2. n' \in Nat /\ n' >= n + 6 /\ n' > 0 /\ n' % 9 = 0
    BY <1>1, <2>1, GrowthIsEnough DEF Sizes
  <2>3. Load'
    BY <1>1, <2>1, <2>2 DEF Load, Loading
  <2> QED BY <1>1, <2>1, <2>2, <2>3 DEF LInv, Sizes
<1>3. CASE Create
  <2>1. n' = n /\ size' = size + 1 /\ failed' = failed /\ phase = "create" /\ phase' = "made"
    BY <1>3 DEF Create
  <2> QED BY <1>1, <2>1 DEF LInv, Sizes, Load, Loading
<1>4. CASE ResizeFails
  <2>1. n' = n /\ size' = size /\ failed'
    BY <1>4 DEF ResizeFails, map
  <2> QED BY <1>1, <2>1 DEF LInv, Sizes, Load
<1>5. CASE Enough
  <2>1. n' = n /\ size' = size /\ failed' = failed /\ n >= Spread * size
    BY <1>5 DEF Enough, map, TargetBuckets
  <2> QED BY <1>1, <2>1 DEF LInv, Sizes, Load
<1>6. CASE \/ WalkErase \/ WalkExpire \/ EraseFound \/ SweepErase \/ DestroyElement
  <2>1. /\ n' = n /\ (size' = size - 1 \/ size' = size) /\ failed' = failed
        /\ phase' = phase \/ (phase = "walk" /\ phase' \in {"idle", "create"})
    BY <1>6 DEF WalkErase, WalkExpire, EraseFound, SweepErase, DestroyElement, Unlink, Return,
                Match, Walking
  <2>2. Loading' <=> Loading
    BY <2>1 DEF Loading
  <2>3. CASE size' = size - 1
    <3>1. Spread * size' = Spread * size - Spread /\ Spread * size \in Int
      BY <1>1, <2>3
    <3>2. Sizes'
      BY <1>1, <2>1, <2>3 DEF Sizes
    <3>3. Load'
      <4>1. size' \in Int /\ Spread * size' \in Int
        BY <1>1, <2>3, <3>1
      <4>2. Spread * size \in Int /\ Spread \in Int /\ Spread > 0 /\ n \in Int
        BY <1>1
      <4>3. /\ n >= Spread * size => n >= Spread * size'
            /\ n >= Spread * size - Spread => n >= Spread * size' - Spread
        BY <3>1, <4>1, <4>2, Lower
      <4> QED BY <1>1, <2>1, <2>2, <4>3, Zenon DEF Load
    <3> QED BY <3>2, <3>3 DEF LInv
  <2>4. CASE size' = size
    BY <1>1, <2>1, <2>2, <2>4 DEF LInv, Sizes, Load
  <2> QED BY <2>1, <2>3, <2>4
<1>7. CASE \/ WalkPast \/ WalkHit \/ WalkFound \/ WalkMiss \/ CreateThrows
           \/ HitReturns \/ Moved \/ MovePast \/ Move \/ MoveNext \/ Destroy \/ DestroyNext
  <2>1. /\ n' = n /\ size' = size /\ failed' = failed
        /\ ~Loading /\ ~Loading'
    BY <1>7 DEF WalkPast, WalkHit, WalkFound, WalkMiss, CreateThrows, HitReturns, Moved, MovePast,
                Move, MoveNext, Destroy, DestroyNext, map, Return, Match, Walking, Loading
  <2> QED BY <1>1, <2>1 DEF LInv, Sizes, Load
<1>8. CASE \/ EraseStep \/ CreatedSync \/ Sweep \/ SweepPast \/ SweepNext
           \/ \E a \in Addr : Evict(a) \/ Expires(a) \/ ResolveThrows(a)
  <2>1. n' = n /\ size' = size /\ failed' = failed /\ (Loading' <=> Loading)
    BY <1>8 DEF EraseStep, CreatedSync, Sweep, SweepPast, SweepNext, Evict, Expires,
                ResolveThrows, map, Loading
  <2> QED BY <1>1, <2>1 DEF LInv, Sizes, Load
<1>9. CASE \/ \E a \in Addr : BeginCreate(a)
           \/ \E k \in Keys : Recurse(k)
           \/ \E o \in {"get", "peek", "expire"}, k \in Keys : Call(o, k)
  <2>1. n' = n /\ size' = size /\ failed' = failed /\ ~Loading /\ ~Loading'
    BY <1>9 DEF BeginCreate, Recurse, Call, map, Loading
  <2> QED BY <1>1, <2>1 DEF LInv, Sizes, Load
<1>10. CASE WaitUnlocked \/ \E a \in Addr : Resolve(a)
  <2>1. n' = n /\ size' = size /\ Async
    BY <1>10 DEF WaitUnlocked, Resolve, map
  <2> QED BY <1>1, <2>1 DEF LInv, Sizes, Load
<1>11. CASE UNCHANGED vars
  <2>1. UNCHANGED <<n, size, failed, phase>>
    BY <1>11 DEF vars, map
  <2> QED BY <1>1, <2>1 DEF LInv, Sizes, Load, Loading
<1> QED
  BY <1>2, <1>3, <1>4, <1>5, <1>6, <1>7, <1>8, <1>9, <1>10, <1>11 DEF Next, Work

\* One growth step per creation keeps the load factor, if it is at least 1/6
\* (LoadKept), also for a create function that calls back.
THEOREM LoadFactorKept == ASSUME Spread <= 6 PROVE Spec => []LoadKept
<1>1. Init => LInv
  BY HashAssumption DEF Init, InitBuckets, LInv, Sizes, Load, Loading
<1>2. LInv /\ [Next]_vars => LInv'
  BY LoadStep
<1>3. LInv => LoadKept
  BY DEF LInv, Load, Loading, LoadKept, TargetBuckets
<1> QED BY <1>1, <1>2, <1>3, PTL DEF Spec
-----------------------------------------------------------------------------
\* Where elements are found.  Each location has a chain and a position in it:
\* that of a bucket is its own, at position 0, and along a pointer the position
\* is the next one of the same chain.

Numbers == [Addr \union Nat -> Nat]

Placed(c, p) ==
  /\ c \in Numbers /\ p \in Numbers
  /\ \A b \in Nat : c[b] = b /\ p[b] = 0
  /\ \A a \in Created : c[a] \in Buckets /\ p[a] > 0
  /\ \A l \in Place : link[l] # None => c[link[l]] = c[l] /\ p[link[l]] = p[l] + 1

\* Elements are in the chain of their bucket; while the map grows, those that
\* the code has passed.
Homes(c, p) ==
  \A a \in Created :
    (phase = "move" => c[a] < bkt \/ c[a] >= orig \/ (c[a] = bkt /\ p[a] <= p[iter]))
      => c[a] = Home(key[a])

\* What a walk has passed, what a creation may rely on, and where an eviction is
\* and the destructor.
Searched(c, p) ==
  /\ phase = "walk" =>
       /\ c[iter] = Home(arg)
       /\ \A a \in Created : c[a] = c[iter] /\ p[a] <= p[iter] => a \in expired \/ key[a] # arg
  /\ phase = "create" =>
       /\ key[cur] = arg /\ c[iter] = Home(arg)
       /\ \A a \in Created : key[a] = arg => a \in expired
  /\ phase = "move" => c[iter] = bkt
  /\ target # None =>
       /\ target \in Created /\ target \in expired /\ target \notin pinned
       /\ c[iter] = c[target] /\ p[iter] < p[target]
  /\ phase \in {"destroy", "gone"} => pinned = {}
  /\ phase = "destroy" => iter = bkt /\ \A a \in Created : c[a] >= bkt
  /\ phase = "gone" => Created = {}

Found(c, p) == Placed(c, p) /\ Homes(c, p) /\ Searched(c, p)
FInv == IInv /\ \E c, p \in Numbers : Found(c, p)

\* Locations have numbers.
LEMMA PlacedTypes ==
  ASSUME TypeOK, NEW c, NEW p, Placed(c, p)
  PROVE  /\ \A l \in Place : l \in Addr \union Nat /\ c[l] \in Nat /\ p[l] \in Nat
         /\ \A l \in Buckets : c[l] = l /\ p[l] = 0
         /\ \A b \in Nat : b \notin Created
<1>1. Place \subseteq Addr \union Nat
  BY Apart DEF Place
<1>2. \A l \in Addr \union Nat : c[l] \in Nat /\ p[l] \in Nat
  BY DEF Placed, Numbers
<1> QED
  BY <1>1, <1>2, Apart DEF Placed

\* Two locations of a chain have different positions.
LEMMA Unique ==
  ASSUME IInv, NEW c, NEW p, Placed(c, p), NEW l \in Place, NEW m \in Place,
         c[l] = c[m], p[l] = p[m]
  PROVE  l = m
<1> DEFINE Bad == {k \in Nat : \E x, y \in Place : x # y /\ c[x] = c[y] /\ p[x] = k /\ p[y] = k}
<1>1. TypeOK /\ Pointers
  BY DEF IInv
<1>2. SUFFICES ASSUME l # m PROVE FALSE
  OBVIOUS
<1>3. p[l] \in Bad
  BY <1>1, <1>2, PlacedTypes
<1>4. PICK k \in Bad : \A i \in Bad : k <= i
  <2> HIDE DEF Bad
  <2>1. Bad \subseteq Nat
    BY DEF Bad
  <2> QED
    BY <1>3, <2>1, QueueFacts!LeastNatural
<1>5. PICK x, y \in Place : x # y /\ c[x] = c[y] /\ p[x] = k /\ p[y] = k
  BY <1>4
<1>6. CASE k = 0
  <2>1. x \in Buckets /\ y \in Buckets
    BY <1>5, <1>6 DEF Placed, Place
  <2> QED
    BY <1>1, <1>5, <2>1, PlacedTypes
<1>7. CASE k # 0
  <2>1. x \in Created /\ y \in Created
    BY <1>1, <1>5, <1>7, PlacedTypes DEF Place
  <2>2. PICK v \in Place : link[v] = x
    BY <1>1, <2>1 DEF Pointers
  <2>3. PICK w \in Place : link[w] = y
    BY <1>1, <2>1 DEF Pointers
  <2>4. x # None /\ y # None
    BY <1>1, <2>1, Apart
  <2>5. c[v] = c[x] /\ p[x] = p[v] + 1 /\ c[w] = c[y] /\ p[y] = p[w] + 1
    BY <2>2, <2>3, <2>4 DEF Placed
  <2>6. p[v] \in Nat /\ p[w] \in Nat /\ v # w
    BY <1>1, <1>5, <2>2, <2>3, PlacedTypes
  <2>7. p[v] \in Bad /\ p[v] < k
    BY <1>5, <2>2, <2>3, <2>5, <2>6
  <2> QED
    BY <1>4, <2>6, <2>7
<1> QED
  BY <1>6, <1>7

\* After the last element of a chain there is none.
LEMMA EndIsLast ==
  ASSUME IInv, NEW c, NEW p, Placed(c, p), NEW l \in Place, link[l] = None,
         NEW a \in Created, c[a] = c[l]
  PROVE  p[a] <= p[l]
<1> DEFINE Beyond == {k \in Nat : \E x \in Created : c[x] = c[l] /\ p[x] = k /\ k > p[l]}
<1>1. TypeOK /\ Pointers /\ a \in Place
  BY DEF IInv, Place
<1>2. SUFFICES ASSUME ~(p[a] <= p[l]) PROVE FALSE
  OBVIOUS
<1>3. p[a] \in Nat /\ p[l] \in Nat
  BY <1>1, PlacedTypes
<1>4. p[a] \in Beyond
  BY <1>2, <1>3
<1>5. PICK k \in Beyond : \A i \in Beyond : k <= i
  <2> HIDE DEF Beyond
  <2>1. Beyond \subseteq Nat
    BY DEF Beyond
  <2> QED
    BY <1>4, <2>1, QueueFacts!LeastNatural
<1>6. PICK x \in Created : c[x] = c[l] /\ p[x] = k /\ k > p[l]
  BY <1>5
<1>7. PICK v \in Place : link[v] = x
  BY <1>1, <1>6 DEF Pointers
<1>8. c[v] = c[l] /\ k = p[v] + 1 /\ p[v] \in Nat
  BY <1>1, <1>6, <1>7, Apart, PlacedTypes DEF Placed
<1>9. p[v] # p[l]
  BY <1>1, <1>6, <1>7, <1>8, Apart, Unique
<1>10. p[v] > p[l] /\ p[v] < k
  BY <1>3, <1>6, <1>8, <1>9
<1>11. v \in Created
  BY <1>1, <1>3, <1>8, <1>10, PlacedTypes DEF Place
<1>12. p[v] \in Beyond
  BY <1>8, <1>10, <1>11
<1> QED
  BY <1>5, <1>8, <1>10, <1>12

\* What is not beyond the next location is that location, or not beyond this one.
LEMMA NextIsNext ==
  ASSUME IInv, NEW c, NEW p, Placed(c, p), NEW l \in Place, link[l] # None,
         NEW a \in Created, c[a] = c[l]
  PROVE  /\ link[l] \in Created /\ c[link[l]] = c[l] /\ p[link[l]] = p[l] + 1
         /\ a # link[l] => (p[a] <= p[link[l]] <=> p[a] <= p[l]) /\ p[a] # p[l] + 1
<1>1. TypeOK /\ Pointers
  BY DEF IInv
<1>2. link[l] \in Created /\ c[link[l]] = c[l] /\ p[link[l]] = p[l] + 1
  BY <1>1 DEF Pointers, Placed
<1>3. p[a] \in Nat /\ p[l] \in Nat
  BY <1>1, PlacedTypes DEF Place
<1>4. a # link[l] => p[a] # p[l] + 1
  BY <1>2, Unique DEF Place
<1> QED
  BY <1>2, <1>3, <1>4

-----------------------------------------------------------------------------
\* The elements of the cache before and after a step.
LEMMA CreatedThen ==
  ASSUME IInv, IInv'
  PROVE  /\ Created = IF phase = "create" THEN Allocated \ {cur} ELSE Allocated
         /\ Created' = IF phase' = "create" THEN Allocated' \ {cur'} ELSE Allocated'
<1>1. saved = <<>> /\ saved' = <<>>
  BY DEF IInv, Control
<1>2. {saved'[i].cur : i \in DOMAIN saved'} = {}
  BY <1>1
<1> QED
  BY <1>1, <1>2, CreatedIs DEF Created, Fresh

\* Steps that write no pointer leave the elements where they are.
LEMMA QuietPlaced ==
  ASSUME IInv, IInv', UNCHANGED <<n, link, key>>,
         (phase # "create" /\ phase' # "create") \/ UNCHANGED <<phase, cur>>,
         NEW c, NEW p, Placed(c, p)
  PROVE  /\ Created' = Created /\ Place' = Place /\ Placed(c, p)'
         /\ \A a \in Created : Home(key[a])' = Home(key[a])
<1>1. Created' = Created
  BY CreatedThen DEF Allocated
<1>2. Place' = Place /\ Buckets' = Buckets
  BY <1>1 DEF Place, Buckets
<1> QED
  BY <1>1, <1>2 DEF Placed, Home

\* The walk of a call: what it passes is of no use to it.
LEMMA SearchFound ==
  ASSUME IInv, IInv', NEW c, NEW p, Found(c, p),
         WalkPast \/ WalkHit \/ WalkFound \/ WalkMiss
  PROVE  Found(c, p)'
<1>1. /\ TypeOK /\ Control /\ phase = "walk" /\ iter \in Place /\ target = None /\ saved = <<>>
      /\ Placed(c, p) /\ Homes(c, p) /\ Searched(c, p)
  BY DEF IInv, Control, Found, WalkPast, WalkHit, WalkFound, WalkMiss, Walking, Match
<1>2. /\ UNCHANGED <<n, link, key, expired, pinned, target>> /\ phase' \in {"walk", "hit", "idle"}
  BY <1>1, ReturnIs DEF WalkPast, WalkHit, WalkFound, WalkMiss, map, call, walk
<1>3. /\ Created' = Created /\ Placed(c, p)'
      /\ \A a \in Created : Home(key[a])' = Home(key[a])
  BY <1>1, <1>2, QuietPlaced
<1>4. Homes(c, p)'
  BY <1>1, <1>2, <1>3 DEF Homes
<1>5. CASE WalkPast
  <2>1. /\ link[iter] # None /\ iter' = link[iter] /\ phase' = "walk" /\ arg' = arg
        /\ link[iter] \in expired \/ key[link[iter]] # arg
    BY <1>1, <1>5 DEF WalkPast, Walking, Next_, Advance, call
  <2>2. c[iter'] = c[iter] /\ c[iter] = Home(arg) /\ Home(arg)' = Home(arg)
    BY <1>1, <1>2, <2>1 DEF Searched, Placed, Home
  <2>3. ASSUME NEW a \in Created, c[a] = c[iter'], p[a] <= p[iter']
        PROVE  a \in expired \/ key[a] # arg
    BY <1>1, <2>1, <2>2, <2>3, NextIsNext DEF Searched
  <2>4. Searched(c, p)'
    BY <1>1, <1>2, <1>3, <2>1, <2>2, <2>3 DEF Searched
  <2> QED
    BY <1>3, <1>4, <2>4 DEF Found
<1>6. CASE ~WalkPast
  <2>1. phase' \in {"hit", "idle"}
    BY <1>1, <1>6, ReturnIs DEF WalkHit, WalkFound, WalkMiss
  <2>2. Searched(c, p)'
    BY <1>1, <1>2, <2>1 DEF Searched
  <2> QED
    BY <1>3, <1>4, <2>2 DEF Found
<1> QED
  BY <1>5, <1>6

\* The end of a call, and of a rehash: the elements are all at home.
LEMMA ServeFound ==
  ASSUME IInv, IInv', NEW c, NEW p, Found(c, p),
         HitReturns \/ WaitUnlocked \/ CreatedSync \/ Enough \/ ResizeFails \/ Moved
  PROVE  Found(c, p)'
<1>1. /\ TypeOK /\ Control /\ target = None /\ saved = <<>> /\ phase \notin {"create", "walk"}
      /\ Placed(c, p) /\ Homes(c, p) /\ Searched(c, p)
  BY DEF IInv, Control, Found, HitReturns, WaitUnlocked, CreatedSync, Enough, ResizeFails, Moved
<1>2. UNCHANGED <<n, link, key, target>> /\ phase' \in {"grow", "idle"}
  BY <1>1, ReturnIs
     DEF HitReturns, WaitUnlocked, CreatedSync, Enough, ResizeFails, Moved, map, call, walk
<1>3. /\ Created' = Created /\ Placed(c, p)'
      /\ \A a \in Created : Home(key[a])' = Home(key[a])
  BY <1>1, <1>2, QuietPlaced
<1>4. \A a \in Created : c[a] = Home(key[a])
  <2>1. CASE Moved
    <3>1. /\ phase = "move" /\ link[iter] = None /\ bkt + 1 = orig /\ iter \in Place
          /\ c[iter] = bkt /\ bkt \in Nat /\ orig \in Nat
      BY <1>1, <2>1 DEF Moved, Next_, Control, Searched, TypeOK
    <3>2. ASSUME NEW a \in Created
          PROVE  c[a] < bkt \/ c[a] >= orig \/ (c[a] = bkt /\ p[a] <= p[iter])
      <4>1. c[a] \in Nat
        BY <1>1, PlacedTypes DEF Place
      <4>2. CASE c[a] = bkt
        BY <1>1, <3>1, <4>2, EndIsLast
      <4> QED
        BY <3>1, <4>1, <4>2
    <3> QED
      BY <1>1, <3>1, <3>2 DEF Homes
  <2>2. CASE ~Moved
    BY <1>1, <2>2 DEF Homes, HitReturns, WaitUnlocked, CreatedSync, Enough, ResizeFails
  <2> QED
    BY <2>1, <2>2
<1>5. Homes(c, p)' /\ Searched(c, p)'
  BY <1>1, <1>2, <1>3, <1>4 DEF Homes, Searched
<1> QED
  BY <1>3, <1>5 DEF Found

\* An eviction stands before the element that it is to erase.
LEMMA EvictFound ==
  ASSUME IInv, IInv', NEW c, NEW p, Found(c, p), EraseStep \/ \E a \in Addr : Evict(a)
  PROVE  Found(c, p)'
<1>1. /\ TypeOK /\ Control /\ phase \in {"hit", "made"} /\ Placed(c, p)
      /\ Homes(c, p) /\ Searched(c, p)
  BY DEF IInv, Control, Found, EraseStep, Evict
<1>2. UNCHANGED <<n, link, key, pinned, phase, cur>>
  BY <1>1 DEF EraseStep, Evict, map, call
<1>3. /\ Created' = Created /\ Placed(c, p)'
      /\ \A a \in Created : Home(key[a])' = Home(key[a])
  BY <1>1, <1>2, QuietPlaced
<1>4. Homes(c, p)'
  BY <1>1, <1>2, <1>3 DEF Homes
<1>5. CASE EraseStep
  <2>1. /\ target # None /\ link[iter] \notin {target, None} /\ iter' = link[iter]
        /\ iter \in Place /\ UNCHANGED <<expired, target>>
    BY <1>1, <1>5 DEF EraseStep, Next_, Advance, Control, map
  <2>2. /\ target \in Created /\ target \in expired /\ target \notin pinned
        /\ c[iter] = c[target] /\ p[iter] < p[target]
    BY <1>1, <2>1 DEF Searched
  <2>3. c[iter'] = c[target] /\ p[iter'] < p[target]
    <3>1. /\ link[iter] \in Created /\ c[link[iter]] = c[iter] /\ p[link[iter]] = p[iter] + 1
          /\ p[target] # p[iter] + 1
      BY <1>1, <2>1, <2>2, NextIsNext
    <3>2. p[iter] \in Nat /\ p[target] \in Nat
      BY <1>1, <2>1, <2>2, PlacedTypes DEF Place
    <3> QED
      BY <2>1, <2>2, <3>1, <3>2
  <2>4. Searched(c, p)'
    BY <1>1, <1>2, <1>3, <2>1, <2>2, <2>3 DEF Searched
  <2> QED
    BY <1>3, <1>4, <2>4 DEF Found
<1>6. ASSUME NEW a \in Addr, Evict(a)
      PROVE  Found(c, p)'
  <2>1. /\ a \in Created /\ a \notin pinned /\ expired' = expired \union {a} /\ target' = a
        /\ iter' = Home(key[a])
    BY <1>6 DEF Evict, Locked
  <2>2. Home(key[a]) \in Buckets
    BY <1>1, <2>1, Apart, HomeIs DEF TypeOK
  <2>3. c[iter'] = iter' /\ p[iter'] = 0 /\ c[a] = Home(key[a]) /\ p[a] > 0
    BY <1>1, <2>1, <2>2, PlacedTypes DEF Placed, Homes
  <2>4. Searched(c, p)'
    BY <1>1, <1>2, <1>3, <2>1, <2>3 DEF Searched
  <2> QED
    BY <1>3, <1>4, <2>4 DEF Found
<1> QED
  BY <1>5, <1>6

\* The sweep, the rehash and the destructor come to the end of a chain with all of
\* it behind them.
LEMMA BucketFound ==
  ASSUME IInv, IInv', NEW c, NEW p, Found(c, p),
         Sweep \/ SweepPast \/ SweepNext \/ MovePast \/ MoveNext \/ Destroy \/ DestroyNext
  PROVE  Found(c, p)'
<1>1. /\ TypeOK /\ Control /\ target = None
      /\ phase \in {"idle", "grow", "sweep", "move", "destroy"}
      /\ Placed(c, p) /\ Homes(c, p) /\ Searched(c, p)
      /\ \A a \in Created : c[a] \in Buckets /\ c[a] \in Nat /\ p[a] \in Nat
  <2>1. TypeOK /\ Control /\ Placed(c, p)
    BY DEF IInv, Found
  <2>2. \A a \in Created : c[a] \in Buckets /\ c[a] \in Nat /\ p[a] \in Nat
    BY <2>1, PlacedTypes DEF Placed, Place
  <2> QED
    BY <2>1, <2>2
       DEF Control, Found, Sweep, SweepPast, SweepNext, MovePast, MoveNext, Destroy, DestroyNext
<1>2. /\ UNCHANGED <<n, link, key, pinned, expired, cur, arg, target, orig>>
      /\ phase' \in {"sweep", "resize", "move", "destroy", "gone"}
  BY <1>1 DEF Sweep, SweepPast, SweepNext, MovePast, MoveNext, Destroy, DestroyNext, map, call
<1>3. /\ Created' = Created /\ Placed(c, p)'
      /\ \A a \in Created : Home(key[a])' = Home(key[a])
  BY <1>1, <1>2, QuietPlaced
<1>4. CASE Sweep \/ SweepPast \/ SweepNext
  <2>1. phase # "move" /\ phase' \in {"sweep", "resize"}
    BY <1>1, <1>4 DEF Sweep, SweepPast, SweepNext, call
  <2>2. Homes(c, p)' /\ Searched(c, p)'
    BY <1>1, <1>2, <1>3, <2>1 DEF Homes, Searched
  <2> QED
    BY <1>3, <2>2 DEF Found
<1>5. CASE MovePast
  <2>1. /\ phase = "move" /\ phase' = "move" /\ iter \in Place /\ link[iter] # None
        /\ Home(key[link[iter]]) = bkt /\ iter' = link[iter] /\ bkt' = bkt /\ c[iter] = bkt
    BY <1>1, <1>5 DEF MovePast, Next_, Advance, call, Control, Searched
  <2>2. c[iter'] = bkt
    BY <1>1, <2>1 DEF Placed
  <2>3. ASSUME NEW a \in Created, c[a] = bkt, p[a] <= p[iter'] PROVE c[a] = Home(key[a])
    BY <1>1, <2>1, <2>3, NextIsNext DEF Homes
  <2>4. Homes(c, p)'
    BY <1>1, <1>2, <1>3, <2>1, <2>3 DEF Homes
  <2>5. Searched(c, p)'
    BY <1>1, <1>2, <1>3, <2>1, <2>2 DEF Searched
  <2> QED
    BY <1>3, <2>4, <2>5 DEF Found
<1>6. CASE MoveNext
  <2>1. /\ phase = "move" /\ phase' = "move" /\ iter \in Place /\ link[iter] = None
        /\ bkt' = bkt + 1 /\ iter' = bkt + 1 /\ c[iter] = bkt /\ bkt \in Nat /\ orig \in Nat
    BY <1>1, <1>6 DEF MoveNext, Next_, call, Control, Searched, TypeOK
  <2>2. c[iter'] = bkt' /\ p[iter'] = 0
    BY <1>1, <2>1 DEF Placed
  <2>3. ASSUME NEW a \in Created,
               c[a] < bkt' \/ c[a] >= orig \/ (c[a] = bkt' /\ p[a] <= p[iter'])
        PROVE  c[a] = Home(key[a])
    <3>1. CASE c[a] = bkt
      BY <1>1, <2>1, <3>1, EndIsLast DEF Homes
    <3>2. CASE c[a] < bkt \/ c[a] >= orig
      BY <1>1, <3>2 DEF Homes
    <3>3. CASE c[a] = bkt' /\ p[a] <= p[iter']
      BY <1>1, <2>2, <3>3 DEF Placed
    <3> QED
      BY <1>1, <2>1, <2>3, <3>1, <3>2, <3>3
  <2>4. Homes(c, p)'
    BY <1>1, <1>2, <1>3, <2>1, <2>3 DEF Homes
  <2>5. Searched(c, p)'
    BY <1>1, <1>2, <1>3, <2>1, <2>2 DEF Searched
  <2> QED
    BY <1>3, <2>4, <2>5 DEF Found
<1>7. CASE Destroy
  <2>1. phase = "idle" /\ phase' = "destroy" /\ bkt' = 0 /\ iter' = 0 /\ pinned = {}
    BY <1>7 DEF Destroy
  <2>2. Homes(c, p)' /\ Searched(c, p)'
    BY <1>1, <1>2, <1>3, <2>1 DEF Homes, Searched
  <2> QED
    BY <1>3, <2>2 DEF Found
<1>8. CASE DestroyNext
  <2>1. /\ phase = "destroy" /\ link[iter] = None /\ iter \in Place /\ iter = bkt
        /\ pinned = {} /\ bkt \in Nat /\ n \in Nat
        /\ \A a \in Created : c[a] >= bkt
    BY <1>1, <1>8 DEF DestroyNext, Next_, Control, Searched, TypeOK
  <2>2. \A a \in Created : c[a] >= bkt + 1
    <3>1. c[iter] = bkt /\ p[iter] = 0
      BY <1>1, <2>1 DEF Placed
    <3>2. ASSUME NEW a \in Created, c[a] = bkt PROVE FALSE
      BY <1>1, <2>1, <3>1, <3>2, EndIsLast DEF Placed
    <3> QED
      BY <1>1, <2>1, <3>2
  <2>3. CASE bkt + 1 < n
    <3>1. phase' = "destroy" /\ bkt' = bkt + 1 /\ iter' = bkt + 1
      BY <1>8, <2>1, <2>3 DEF DestroyNext
    <3>2. Homes(c, p)' /\ Searched(c, p)'
      BY <1>1, <1>2, <1>3, <2>1, <2>2, <3>1 DEF Homes, Searched
    <3> QED
      BY <1>3, <3>2 DEF Found
  <2>4. CASE ~(bkt + 1 < n)
    <3>1. phase' = "gone"
      BY <1>8, <2>4 DEF DestroyNext
    <3>2. Created = {}
      <4>1. \A a \in Created : c[a] < n
        BY <1>1, <2>1 DEF Buckets
      <4> QED
        BY <1>1, <2>1, <2>2, <2>4, <4>1
    <3>3. Homes(c, p)' /\ Searched(c, p)'
      BY <1>1, <1>2, <1>3, <2>1, <3>1, <3>2 DEF Homes, Searched
    <3> QED
      BY <1>3, <3>3 DEF Found
  <2> QED
    BY <2>3, <2>4
<1> QED
  BY <1>4, <1>5, <1>6, <1>7, <1>8

\* An element expires or is resolved, or a call begins.
LEMMA OutsideFound ==
  ASSUME IInv, IInv', NEW c, NEW p, Found(c, p),
         \/ \E a \in Addr : Expires(a) \/ Resolve(a) \/ ResolveThrows(a)
         \/ \E o \in {"get", "peek", "expire"}, k \in Keys : Call(o, k)
  PROVE  Found(c, p)'
<1>1. /\ TypeOK /\ Control /\ Placed(c, p) /\ Homes(c, p) /\ Searched(c, p)
  BY DEF IInv, Found
<1>2. UNCHANGED <<n, link, key, target, bkt, orig>>
  BY DEF Expires, Resolve, ResolveThrows, Call, map, call, walk
<1>3. CASE \E a \in Addr : Expires(a) \/ ResolveThrows(a)
  <2>1. /\ UNCHANGED <<phase, op, arg, cur, iter>>
        /\ expired \subseteq expired' /\ pinned' \subseteq pinned
    BY <1>3 DEF Expires, ResolveThrows, call, walk
  <2>2. /\ Created' = Created /\ Placed(c, p)'
        /\ \A a \in Created : Home(key[a])' = Home(key[a])
    BY <1>1, <1>2, <2>1, QuietPlaced
  <2>3. Homes(c, p)'
    BY <1>1, <1>2, <2>1, <2>2 DEF Homes
  <2>4. Home(arg)' = Home(arg)
    BY <1>2, <2>1 DEF Home
  <2>5. Searched(c, p)'
    BY <1>1, <1>2, <2>1, <2>2, <2>4 DEF Searched
  <2> QED
    BY <2>2, <2>3, <2>5 DEF Found
<1>4. CASE \E a \in Addr : Resolve(a)
  <2>1. phase = "idle" /\ target = None /\ phase' = "grow"
    BY <1>1, <1>4 DEF Resolve, Control
  <2>2. /\ Created' = Created /\ Placed(c, p)'
        /\ \A a \in Created : Home(key[a])' = Home(key[a])
    BY <1>1, <1>2, <2>1, QuietPlaced
  <2>3. Homes(c, p)' /\ Searched(c, p)'
    BY <1>1, <1>2, <2>1, <2>2 DEF Homes, Searched
  <2> QED
    BY <2>2, <2>3 DEF Found
<1>5. ASSUME NEW o \in {"get", "peek", "expire"}, NEW k \in Keys, Call(o, k)
      PROVE  Found(c, p)'
  <2>1. /\ phase = "idle" /\ target = None /\ phase' = "walk" /\ arg' = k /\ iter' = Home(k)
        /\ UNCHANGED expired
    BY <1>1, <1>5 DEF Call, Control, map
  <2>2. /\ Created' = Created /\ Placed(c, p)'
        /\ \A a \in Created : Home(key[a])' = Home(key[a])
    BY <1>1, <1>2, <2>1, QuietPlaced
  <2>3. c[iter'] = Home(k) /\ p[iter'] = 0 /\ Home(arg)' = Home(k)
    <3>1. Home(k) \in Buckets
      BY <1>1, HomeIs DEF TypeOK
    <3> QED
      BY <1>1, <1>2, <2>1, <3>1, PlacedTypes DEF Home
  <2>4. \A a \in Created : ~(p[a] <= p[iter'])
    BY <1>1, <2>3, PlacedTypes DEF Placed, Place
  <2>5. Homes(c, p)'
    BY <1>1, <1>2, <2>1, <2>2 DEF Homes
  <2>6. Searched(c, p)'
    BY <1>1, <1>2, <2>1, <2>2, <2>3, <2>4 DEF Searched
  <2> QED
    BY <2>2, <2>5, <2>6 DEF Found
<1> QED
  BY <1>3, <1>4, <1>5

\* Unlinking an element moves those behind it one position forward, and no other.
LEMMA UnlinkPlaced ==
  ASSUME IInv, IInv', NEW c, NEW p, Placed(c, p), Unlink, UNCHANGED n, iter \in Place,
         link[iter] # None, Created' = Created \ {link[iter]}
  PROVE  \E q \in Numbers :
           /\ Placed(c, q)' /\ q[iter] = p[iter]
           /\ \A a \in Created' : c[a] = c[iter] => (q[a] <= p[iter] <=> p[a] <= p[iter])
<1> DEFINE s == link[iter]
           new == [l \in Addr \union Nat |->
                     IF c[l] = c[iter] /\ p[l] > p[iter] + 1 THEN p[l] - 1 ELSE p[l]]
<1>1. /\ TypeOK /\ Pointers /\ s \in Created /\ s \in Place /\ iter \in Loc
      /\ c[s] = c[iter] /\ p[s] = p[iter] + 1 /\ s # iter
  <2>1. TypeOK /\ Pointers /\ Ranks
    BY DEF IInv
  <2>2. s \in Created /\ iter \in Loc /\ c[s] = c[iter] /\ p[s] = p[iter] + 1
    BY <2>1, Apart DEF Pointers, Placed
  <2> QED
    BY <2>1, <2>2, NoLoop DEF Place
<1>2. \A l \in Loc : link'[l] = IF l = iter THEN link[s] ELSE link[l]
  BY <1>1 DEF Unlink, TypeOK
<1>3. Place' = Place \ {s} /\ Buckets' = Buckets /\ Place \subseteq Loc
  BY <1>1, Apart DEF Place, Buckets
<1>4. p[iter] \in Nat /\ \A l \in Addr \union Nat : c[l] \in Nat /\ p[l] \in Nat
  <2>1. \A l \in Addr \union Nat : c[l] \in Nat /\ p[l] \in Nat
    BY DEF Placed, Numbers
  <2> QED
    BY <1>1, <2>1, PlacedTypes
<1>5. \A l \in Addr \union Nat :
        new[l] = IF c[l] = c[iter] /\ p[l] > p[iter] + 1 THEN p[l] - 1 ELSE p[l]
  OBVIOUS
<1>6. new \in Numbers
  BY <1>4, <1>5 DEF Numbers
<1>7. \E q \in Numbers : q = new
  BY <1>6
<1> HIDE DEF new
<1>8. PICK q \in Numbers : q = new
  BY <1>7
<1>9. \A l \in Addr \union Nat :
        q[l] = IF c[l] = c[iter] /\ p[l] > p[iter] + 1 THEN p[l] - 1 ELSE p[l]
  BY <1>5, <1>8
<1>10. q[iter] = p[iter]
  BY <1>1, <1>4, <1>9, PlacedTypes
<1>11. \A b \in Nat : c[b] = b /\ q[b] = 0
  BY <1>4, <1>9 DEF Placed
<1>12. \A a \in Created' : c[a] \in Buckets /\ q[a] > 0
  <2>1. ASSUME NEW a \in Created
        PROVE  c[a] \in Buckets /\ q[a] > 0
    <3>1. a \in Addr \union Nat /\ c[a] \in Buckets /\ p[a] > 0 /\ p[a] \in Nat
      BY <1>1, <1>4, PlacedTypes DEF Placed, Place
    <3> QED
      BY <1>4, <1>9, <3>1
  <2> QED
    BY <2>1
<1>13. ASSUME NEW l \in Place', link'[l] # None
       PROVE  c[link'[l]] = c[l] /\ q[link'[l]] = q[l] + 1
  <2>1. l \in Place /\ l # s /\ l \in Addr \union Nat /\ p[l] \in Nat
    BY <1>1, <1>3, <1>4, PlacedTypes
  <2>2. CASE l = iter
    <3>1. link'[l] = link[s] /\ link[s] \in Created
      BY <1>1, <1>2, <1>13, <2>2 DEF Pointers
    <3>2. c[link[s]] = c[iter] /\ p[link[s]] = p[iter] + 2 /\ link[s] \in Addr \union Nat
      BY <1>1, <1>4, <1>13, <3>1, PlacedTypes DEF Placed, Place
    <3> QED
      BY <1>4, <1>9, <1>10, <2>2, <3>1, <3>2
  <2>3. CASE l # iter
    <3>1. link'[l] = link[l] /\ link[l] \in Created
      BY <1>1, <1>2, <1>3, <1>13, <2>1, <2>3 DEF Pointers
    <3>2. c[link[l]] = c[l] /\ p[link[l]] = p[l] + 1 /\ link[l] \in Addr \union Nat
      BY <1>1, <1>13, <2>1, <3>1, PlacedTypes DEF Placed, Place
    <3>3. c[l] = c[iter] => p[l] # p[iter] /\ p[l] # p[s]
      BY <1>1, <2>1, <2>3, Unique
    <3> QED
      BY <1>1, <1>4, <1>9, <2>1, <3>1, <3>2, <3>3
  <2> QED
    BY <2>2, <2>3
<1>14. Placed(c, q)'
  <2>1. c \in Numbers
    BY DEF Placed
  <2> QED
    BY <1>3, <1>11, <1>12, <1>13, <2>1 DEF Placed, Numbers
<1>15. ASSUME NEW a \in Created', c[a] = c[iter]
       PROVE  q[a] <= p[iter] <=> p[a] <= p[iter]
  <2>1. a \in Addr \union Nat /\ p[a] \in Nat
    BY <1>1, <1>4, PlacedTypes DEF Place
  <2> QED
    BY <1>4, <1>9, <1>15, <2>1
<1> QED
  BY <1>10, <1>14, <1>15

\* What is unlinked is erased, and nothing else.
LEMMA UnlinkErases ==
  ASSUME IInv, IInv', Unlink, iter \in Place, link[iter] # None,
         phase # "create", phase' # "create"
  PROVE  /\ link[iter] \in Created /\ Created' = Created \ {link[iter]}
         /\ \A a \in Created' : key'[a] = key[a]
<1>1. link[iter] \in Addr /\ link[iter] \in Created /\ TypeOK
  BY Reach DEF IInv
<1>2. key' = [key EXCEPT ![link[iter]] = None]
  BY DEF Unlink
<1>3. Allocated' = Allocated \ {link[iter]}
  BY <1>1, <1>2 DEF Allocated, TypeOK
<1>4. Created' = Created \ {link[iter]}
  BY <1>3, CreatedThen
<1> QED
  BY <1>1, <1>2, <1>4, Apart DEF TypeOK

\* The steps that erase an element.
LEMMA EraseFoundKeeps ==
  ASSUME IInv, IInv', NEW c, NEW p, Found(c, p),
         WalkErase \/ WalkExpire \/ EraseFound \/ SweepErase \/ DestroyElement
  PROVE  \E d, q \in Numbers : Found(d, q)'
<1>1. /\ TypeOK /\ Control /\ Placed(c, p) /\ Homes(c, p) /\ Searched(c, p) /\ c \in Numbers
      /\ p \in Numbers
  BY DEF IInv, Found, Placed
<1>2. /\ phase \in {"walk", "hit", "made", "sweep", "destroy"} /\ iter \in Place
      /\ link[iter] # None /\ saved = <<>>
  BY <1>1, AddrAssumption
     DEF Control, WalkErase, WalkExpire, EraseFound, SweepErase, DestroyElement, Walking, Match, Next_,
         Locked, TypeOK
<1>3. CASE WalkExpire /\ Next_ \in pinned
  <2>1. /\ UNCHANGED <<n, link, key, pinned, target>> /\ phase = "walk" /\ phase' = "idle"
        /\ target = None
    BY <1>1, <1>2, <1>3, ReturnIs DEF WalkExpire, Match, Walking, Control
  <2>2. /\ Created' = Created /\ Placed(c, p)'
        /\ \A a \in Created : Home(key[a])' = Home(key[a])
    BY <1>1, <2>1, QuietPlaced
  <2>3. Homes(c, p)' /\ Searched(c, p)'
    BY <1>1, <2>1, <2>2 DEF Homes, Searched
  <2> QED
    BY <1>1, <2>2, <2>3 DEF Found
<1>4. CASE ~(WalkExpire /\ Next_ \in pinned)
  <2>1. /\ Unlink /\ UNCHANGED <<n, pinned, bkt>> /\ expired \subseteq expired' /\ target' = None
        /\ phase' \in {"walk", "idle", "hit", "made", "sweep", "destroy"}
        /\ phase' = "walk" => phase = "walk" /\ UNCHANGED <<iter, arg>>
        /\ phase' = "destroy" => phase = "destroy" /\ UNCHANGED iter
    BY <1>1, <1>2, <1>4, ReturnIs
       DEF WalkErase, WalkExpire, EraseFound, SweepErase, DestroyElement, Walking, Match, Control, call,
           walk
  <2>2. Created' = Created \ {link[iter]} /\ \A a \in Created' : key'[a] = key[a]
    BY <1>2, <2>1, UnlinkErases
  <2>3. \A a \in Created' : Home(key[a])' = Home(key[a])
    BY <2>1, <2>2 DEF Home
  <2>4. PICK q \in Numbers :
          /\ Placed(c, q)' /\ q[iter] = p[iter]
          /\ \A a \in Created' : c[a] = c[iter] => (q[a] <= p[iter] <=> p[a] <= p[iter])
    BY <1>1, <1>2, <2>1, <2>2, UnlinkPlaced
  <2>5. Homes(c, q)'
    BY <1>1, <1>2, <2>1, <2>2, <2>3 DEF Homes
  <2>6. Searched(c, q)'
    <3>1. Home(arg)' = Home(arg) \/ phase' # "walk"
      BY <2>1 DEF Home
    <3> QED
      BY <1>1, <2>1, <2>2, <2>4, <3>1 DEF Searched
  <2> QED
    BY <1>1, <2>4, <2>5, <2>6 DEF Found
<1> QED
  BY <1>3, <1>4

\* A creation begins when the whole chain was walked: no usable element has the
\* key.  It may be given up.
LEMMA AllocateFound ==
  ASSUME IInv, IInv', NEW c, NEW p, Found(c, p), CreateThrows \/ \E a \in Addr : BeginCreate(a)
  PROVE  Found(c, p)'
<1>1. /\ TypeOK /\ Control /\ Placed(c, p) /\ Homes(c, p) /\ Searched(c, p)
      /\ iter \in Place /\ target = None /\ saved = <<>> /\ phase \in {"walk", "create"}
  BY DEF IInv, Control, Found, CreateThrows, BeginCreate
<1>2. UNCHANGED <<n, link, pinned, target>>
  BY DEF CreateThrows, BeginCreate, walk
<1>3. CASE CreateThrows
  <2>1. phase = "create" /\ phase' = "idle" /\ key' = [key EXCEPT ![cur] = None] /\ cur \in Addr
    BY <1>1, <1>3, ReturnIs DEF CreateThrows, Control, Allocated
  <2>2. Created = Allocated \ {cur} /\ Created' = Allocated'
    BY <2>1, CreatedThen
  <2>3. Created' = Created /\ \A a \in Created : key'[a] = key[a]
    BY <1>1, <2>1, <2>2 DEF Allocated, TypeOK
  <2>4. Place' = Place /\ Placed(c, p)' /\ \A a \in Created : Home(key[a])' = Home(key[a])
    BY <1>1, <1>2, <2>3 DEF Place, Buckets, Placed, Home
  <2>5. Homes(c, p)' /\ Searched(c, p)'
    BY <1>1, <1>2, <2>1, <2>3, <2>4 DEF Homes, Searched
  <2> QED
    BY <2>4, <2>5 DEF Found
<1>4. ASSUME NEW a \in Addr, BeginCreate(a)
      PROVE  Found(c, p)'
  <2>1. /\ phase = "walk" /\ link[iter] = None /\ key[a] = None /\ key' = [key EXCEPT ![a] = arg]
        /\ expired' = expired \ {a} /\ cur' = a /\ phase' = "create" /\ UNCHANGED <<arg, iter>>
        /\ arg \in Keys
    BY <1>1, <1>4 DEF BeginCreate, Next_, walk, Control
  <2>2. Created = Allocated /\ Created' = Allocated' \ {a}
    BY <2>1, CreatedThen
  <2>3. Created' = Created /\ a \notin Created /\ key'[a] = arg
        /\ \A x \in Created : key'[x] = key[x]
    BY <1>1, <2>1, <2>2, AddrAssumption DEF Allocated, TypeOK
  <2>4. /\ Place' = Place /\ Placed(c, p)' /\ Home(arg)' = Home(arg)
        /\ \A x \in Created : Home(key[x])' = Home(key[x])
    BY <1>1, <1>2, <2>1, <2>3 DEF Place, Buckets, Placed, Home
  <2>5. ASSUME NEW x \in Created, key[x] = arg PROVE x \in expired
    <3>1. c[x] = c[iter]
      BY <1>1, <2>1, <2>5 DEF Homes, Searched
    <3> QED
      BY <1>1, <2>1, <2>5, <3>1, EndIsLast DEF Searched
  <2>6. Homes(c, p)'
    BY <1>1, <2>1, <2>3, <2>4 DEF Homes
  <2>7. Searched(c, p)'
    BY <1>1, <1>2, <2>1, <2>3, <2>4, <2>5 DEF Searched
  <2> QED
    BY <2>4, <2>6, <2>7 DEF Found
<1> QED
  BY <1>3, <1>4

\* A new element stands at the end of the chain of its key.
LEMMA CreateFound ==
  ASSUME IInv, IInv', NEW c, NEW p, Found(c, p), Create
  PROVE  \E d, q \in Numbers : Found(d, q)'
<1>1. /\ TypeOK /\ Control /\ Placed(c, p) /\ Homes(c, p) /\ Searched(c, p) /\ c \in Numbers
      /\ p \in Numbers /\ Pointers
      /\ iter \in Place /\ target = None /\ phase = "create" /\ link[iter] = None
      /\ cur \in Addr /\ cur \in Allocated
  BY DEF IInv, Control, Found, Create, Placed, Allocated
<1>2. /\ UNCHANGED <<n, key, expired, pinned, arg, cur, iter, target>> /\ phase' = "made"
      /\ link' = [l \in Loc |-> IF l = iter THEN cur ELSE IF l = cur THEN None ELSE link[l]]
  BY DEF Create, call, walk
<1>3. Created = Allocated \ {cur} /\ Created' = Created \union {cur} /\ Place' = Place \union {cur}
  <2>1. Allocated' = Allocated
    BY <1>2 DEF Allocated
  <2>2. Created = Allocated \ {cur} /\ Created' = Allocated
    BY <1>1, <1>2, <2>1, CreatedThen
  <2> QED
    BY <1>1, <1>2, <2>2 DEF Place, Buckets
<1>4. cur \notin Place /\ Place \subseteq Loc /\ cur \in Loc /\ iter # cur
  BY <1>1, <1>3, Apart, AddrAssumption DEF Place, Loc, Buckets
<1>5. \A l \in Loc : link'[l] = IF l = iter THEN cur ELSE IF l = cur THEN None ELSE link[l]
  BY <1>2
<1> DEFINE d0 == [c EXCEPT ![cur] = c[iter]]
           q0 == [p EXCEPT ![cur] = p[iter] + 1]
<1>6. /\ c[iter] \in Nat /\ p[iter] \in Nat /\ iter \in Addr \union Nat
      /\ \A l \in Place : l \in Addr \union Nat
  BY <1>1, PlacedTypes
<1>7. d0 \in Numbers /\ q0 \in Numbers
  BY <1>1, <1>6 DEF Numbers
<1>8. /\ \A l \in Addr \union Nat : l # cur => d0[l] = c[l] /\ q0[l] = p[l]
      /\ d0[cur] = c[iter] /\ q0[cur] = p[iter] + 1
  BY <1>1 DEF Numbers
<1> HIDE DEF d0, q0
<1>9. PICK d \in Numbers, q \in Numbers : d = d0 /\ q = q0
  BY <1>7
<1>10. c[iter] = Home(key[cur]) /\ Home(key[cur]) \in Buckets /\ \A k \in Keys : Home(k)' = Home(k)
  BY <1>1, <1>2, HomeIs, Apart, AddrAssumption DEF Searched, Home, TypeOK, Allocated
<1>11. Placed(d, q)'
  <2>1. \A b \in Nat : d[b] = b /\ q[b] = 0
    BY <1>1, <1>8, <1>9, AddrAssumption DEF Placed
  <2>2. \A a \in Created' : d[a] \in Buckets' /\ q[a] > 0
    <3>1. Buckets' = Buckets
      BY <1>2 DEF Buckets
    <3>2. d[cur] \in Buckets /\ q[cur] > 0
      BY <1>6, <1>8, <1>9, <1>10
    <3>3. \A a \in Created : d[a] = c[a] /\ q[a] = p[a]
      BY <1>3, <1>4, <1>6, <1>8, <1>9 DEF Place
    <3> QED
      BY <1>1, <1>3, <3>1, <3>2, <3>3 DEF Placed
  <2>3. ASSUME NEW l \in Place', link'[l] # None
        PROVE  d[link'[l]] = d[l] /\ q[link'[l]] = q[l] + 1
    <3>1. CASE l = iter
      BY <1>1, <1>4, <1>5, <1>6, <1>8, <1>9, <3>1
    <3>2. CASE l # iter
      <4>1. l # cur /\ l \in Place /\ link'[l] = link[l] /\ l \in Addr \union Nat
        BY <1>3, <1>4, <1>5, <1>6, <2>3, <3>2
      <4>2. link[l] \in Created
        BY <1>1, <2>3, <4>1 DEF Pointers
      <4>3. link[l] # cur /\ link[l] \in Addr \union Nat
        BY <1>3, <1>6, <4>2 DEF Place
      <4> QED
        BY <1>1, <1>8, <1>9, <2>3, <4>1, <4>3 DEF Placed
    <3> QED
      BY <3>1, <3>2
  <2> QED
    BY <2>1, <2>2, <2>3 DEF Placed, Numbers
<1>12. Homes(d, q)'
  <2>1. \A a \in Created : d[a] = c[a]
    BY <1>3, <1>4, <1>6, <1>8, <1>9 DEF Place
  <2>2. \A a \in Created : c[a] = Home(key[a])
    BY <1>1 DEF Homes
  <2>3. \A a \in Created' : d[a] = Home(key[a])
    BY <1>3, <1>8, <1>9, <1>10, <2>1, <2>2
  <2> QED
    BY <1>2, <2>3 DEF Homes, Home
<1>13. Searched(d, q)'
  BY <1>1, <1>2 DEF Searched
<1> QED
  BY <1>9, <1>11, <1>12, <1>13 DEF Found

\* Growing makes the map larger.
LEMMA Grows == ASSUME NEW b \in Nat PROVE (b \div 7 + 1) * 9 \in Nat /\ (b \div 7 + 1) * 9 >= b
<1>1. b \div 7 \in Nat /\ 7 * (b \div 7) + 7 > b
  OBVIOUS
<1> QED
  BY <1>1

\* New buckets are empty; the elements are where they were, which need not be the
\* bucket that their hash selects now.
LEMMA ResizeFound ==
  ASSUME IInv, IInv', NEW c, NEW p, Found(c, p), Resize
  PROVE  Found(c, p)'
<1>1. /\ TypeOK /\ Control /\ Placed(c, p) /\ Homes(c, p) /\ Searched(c, p) /\ Pointers
      /\ phase = "resize" /\ target = None /\ n \in Nat \ {0}
  BY DEF IInv, Control, Found, Resize, TypeOK
<1>2. /\ UNCHANGED <<key, expired, pinned, cur, target>>
      /\ n' = GrownBuckets /\ orig' = n /\ phase' = "move" /\ bkt' = 0 /\ iter' = 0
      /\ link' = [l \in Addr \union 0 .. GrownBuckets - 1 |-> IF l \in Loc THEN link[l] ELSE None]
  BY DEF Resize
<1>3. Created' = Created
  BY <1>1, <1>2, CreatedThen DEF Allocated
<1>4. GrownBuckets \in Nat /\ GrownBuckets >= n
  BY <1>1, Grows DEF GrownBuckets
<1>5. Buckets' = 0 .. GrownBuckets - 1 /\ Buckets \subseteq Buckets' /\ Buckets = 0 .. n - 1
  BY <1>1, <1>2, <1>4 DEF Buckets
<1>6. Placed(c, p)'
  <2>1. \A a \in Created' : c[a] \in Buckets' /\ p[a] > 0
    BY <1>1, <1>3, <1>5 DEF Placed
  <2>2. ASSUME NEW l \in Place', link'[l] # None
        PROVE  c[link'[l]] = c[l] /\ p[link'[l]] = p[l] + 1
    <3>1. Place' = Buckets' \union Created /\ Created \subseteq Addr
      BY <1>1, <1>3, Apart DEF Place
    <3>2. l \in Addr \union 0 .. GrownBuckets - 1
      BY <1>5, <3>1
    <3>3. l \in Loc /\ link'[l] = link[l]
      BY <1>2, <2>2, <3>2
    <3>4. l \in Place
      BY <1>1, <1>5, <3>1, <3>3, Apart DEF Place, Loc
    <3> QED
      BY <1>1, <2>2, <3>3, <3>4 DEF Placed
  <2> QED
    BY <1>1, <2>1, <2>2 DEF Placed, Numbers
<1>7. Homes(c, p)'
  <2>1. ASSUME NEW a \in Created
        PROVE  ~(c[a] < 0 \/ c[a] >= n \/ (c[a] = 0 /\ p[a] <= p[0]))
    <3>1. c[a] \in 0 .. n - 1 /\ p[a] > 0 /\ p[0] = 0 /\ p[a] \in Nat
      BY <1>1, <1>5, PlacedTypes DEF Placed, Place
    <3> QED
      BY <1>1, <3>1
  <2> QED
    BY <1>2, <1>3, <2>1 DEF Homes
<1>8. Searched(c, p)'
  BY <1>1, <1>2, <1>3 DEF Searched, Placed
<1> QED
  BY <1>6, <1>7, <1>8 DEF Found

\* The rehash takes the element from its chain and puts it first in another.
LEMMA MoveFound ==
  ASSUME IInv, IInv', NEW c, NEW p, Found(c, p), Move
  PROVE  \E d, q \in Numbers : Found(d, q)'
<1> DEFINE s == link[iter]
           dst == Home(key[s])
<1>1. /\ TypeOK /\ Control /\ Placed(c, p) /\ Homes(c, p) /\ Searched(c, p) /\ c \in Numbers
      /\ p \in Numbers /\ Pointers /\ Ranks
      /\ phase = "move" /\ target = None /\ iter \in Place /\ s # None /\ dst # bkt
      /\ c[iter] = bkt
  BY DEF IInv, Control, Found, Move, Placed, Next_, Searched
<1>2. /\ UNCHANGED <<n, key, expired, pinned, phase, cur, arg, iter, target, bkt, orig>>
      /\ link' = [link EXCEPT ![iter] = link[s], ![s] = link[dst], ![dst] = s]
  BY DEF Move, Next_, call, walk
<1>3. Created' = Created /\ Place' = Place /\ Buckets' = Buckets
  <2>1. Created' = Created
    BY <1>1, <1>2, CreatedThen DEF Allocated
  <2> QED
    BY <1>2, <2>1 DEF Place, Buckets
<1>4. /\ s \in Created /\ s \in Place /\ s # iter /\ dst \in Buckets /\ dst \in Place /\ dst # s
      /\ dst \in Nat /\ c[s] = bkt /\ p[s] = p[iter] + 1 /\ c[dst] = dst /\ p[dst] = 0 /\ dst # iter
  <2>1. s \in Created /\ s \in Place /\ s # iter
    BY <1>1, NoLoop DEF Pointers, Place
  <2>2. dst \in Buckets
    BY <1>1, <2>1, Apart, HomeIs DEF TypeOK
  <2>3. dst \in Nat /\ dst # s /\ c[dst] = dst /\ p[dst] = 0
    BY <1>1, <2>1, <2>2, Apart, PlacedTypes
  <2>4. c[s] = bkt /\ p[s] = p[iter] + 1
    BY <1>1 DEF Placed
  <2> QED
    BY <1>1, <2>1, <2>2, <2>3, <2>4 DEF Place
<1>5. Place \subseteq Loc /\ \A l \in Place : l \in Addr \union Nat
  BY <1>1, Apart, PlacedTypes
<1> HIDE DEF s, dst
<1>6. \A l \in Place : link'[l] = IF l = dst THEN s ELSE IF l = s THEN link[dst]
                                  ELSE IF l = iter THEN link[s] ELSE link[l]
  BY <1>1, <1>2, <1>4, <1>5 DEF TypeOK
<1> DEFINE d0 == [c EXCEPT ![s] = dst]
           q0 == [l \in Addr \union Nat |->
                    IF l = s THEN 1
                    ELSE IF c[l] = dst /\ p[l] > 0 THEN p[l] + 1
                    ELSE IF c[l] = bkt /\ p[l] > p[iter] + 1 THEN p[l] - 1
                    ELSE p[l]]
<1>7. /\ p[iter] \in Nat /\ bkt \in Nat
      /\ \A l \in Addr \union Nat : c[l] \in Nat /\ p[l] \in Nat
  <2>1. \A l \in Addr \union Nat : c[l] \in Nat /\ p[l] \in Nat
    BY <1>1 DEF Numbers
  <2> QED
    BY <1>1, <1>5, <2>1 DEF TypeOK
<1>8. /\ d0 \in Numbers /\ d0[s] = dst
      /\ \A l \in Addr \union Nat : l # s => d0[l] = c[l]
  BY <1>1, <1>4, <1>5 DEF Numbers
<1>9. q0 \in Numbers /\ q0[s] = 1
  <2>1. \A l \in Addr \union Nat : q0[l] \in Nat
    BY <1>7
  <2>2. q0[s] = 1
    BY <1>4, <1>5
  <2> HIDE DEF q0
  <2>3. q0 \in Numbers
    BY <2>1 DEF q0, Numbers
  <2> QED
    BY <2>2, <2>3
<1>10. /\ \A l \in Addr \union Nat : l # s => q0[l] =
           IF c[l] = dst /\ p[l] > 0 THEN p[l] + 1
           ELSE IF c[l] = bkt /\ p[l] > p[iter] + 1 THEN p[l] - 1
           ELSE p[l]
  OBVIOUS
<1> HIDE DEF d0, q0
<1>11. PICK d \in Numbers, q \in Numbers : d = d0 /\ q = q0
  BY <1>8, <1>9
<1>12. /\ d[s] = dst /\ q[s] = 1
       /\ \A l \in Addr \union Nat : l # s =>
            /\ d[l] = c[l]
            /\ q[l] = IF c[l] = dst /\ p[l] > 0 THEN p[l] + 1
                      ELSE IF c[l] = bkt /\ p[l] > p[iter] + 1 THEN p[l] - 1
                      ELSE p[l]
  BY <1>8, <1>9, <1>10, <1>11
<1>13. q[iter] = p[iter] /\ d[iter] = bkt /\ d[dst] = dst /\ q[dst] = 0
  BY <1>1, <1>4, <1>5, <1>7, <1>12
<1>14. Placed(d, q)'
  <2>1. \A b \in Nat : d[b] = b /\ q[b] = 0
    <3>1. \A b \in Nat : b # s
      BY <1>1, <1>4, PlacedTypes
    <3> QED
      BY <1>1, <1>7, <1>12, <3>1 DEF Placed
  <2>2. ASSUME NEW a \in Created PROVE d[a] \in Buckets /\ q[a] > 0
    <3>1. CASE a = s
      BY <1>4, <1>12, <3>1
    <3>2. CASE a # s
      <4>1. a \in Addr \union Nat /\ c[a] \in Buckets /\ p[a] > 0 /\ p[a] \in Nat
        BY <1>1, <1>5, <1>7 DEF Placed, Place
      <4> QED
        BY <1>7, <1>12, <3>2, <4>1
    <3> QED
      BY <3>1, <3>2
  <2>3. ASSUME NEW l \in Place, link'[l] # None
        PROVE  d[link'[l]] = d[l] /\ q[link'[l]] = q[l] + 1
    <3>1. CASE l = dst
      BY <1>4, <1>6, <1>12, <1>13, <3>1
    <3>2. ASSUME NEW m \in Place, link'[l] = link[m], link[m] # None, m # iter
          PROVE  /\ c[link[m]] = c[m] /\ p[link[m]] = p[m] + 1 /\ link[m] # s
                 /\ link[m] \in Addr \union Nat /\ p[m] \in Nat /\ c[m] \in Nat
      <4>1. link[m] # s
        BY <1>1, <3>2 DEF Pointers, s
      <4>2. link[m] \in Created
        BY <1>1, <3>2 DEF Pointers
      <4> QED
        BY <1>1, <1>5, <1>7, <3>2, <4>1, <4>2 DEF Placed, Place
    <3>3. CASE l = s
      <4>1. link'[l] = link[dst] /\ link[dst] # None
        BY <1>4, <1>6, <2>3, <3>3
      <4>2. c[link[dst]] = dst /\ p[link[dst]] = 1 /\ link[dst] # s /\ link[dst] \in Addr \union Nat
        BY <1>4, <3>2, <4>1
      <4> QED
        BY <1>12, <3>3, <4>1, <4>2
    <3>4. CASE l = iter
      <4>1. link'[l] = link[s] /\ link[s] # None
        BY <1>4, <1>6, <2>3, <3>4
      <4>2. /\ c[link[s]] = bkt /\ p[link[s]] = p[iter] + 2 /\ link[s] # s
            /\ link[s] \in Addr \union Nat
        BY <1>4, <1>7, <3>2, <4>1
      <4> QED
        BY <1>1, <1>7, <1>12, <1>13, <3>4, <4>1, <4>2 DEF dst, s
    <3>5. CASE l \notin {dst, s, iter}
      <4>1. link'[l] = link[l]
        BY <1>6, <3>5
      <4>2. /\ c[link[l]] = c[l] /\ p[link[l]] = p[l] + 1 /\ link[l] # s
            /\ link[l] \in Addr \union Nat /\ p[l] \in Nat /\ c[l] \in Nat
        BY <2>3, <3>2, <3>5, <4>1
      <4>3. c[l] = dst => p[l] > 0
        BY <1>1, <1>4, <3>5, <4>2, Unique
      <4>4. c[l] = bkt => p[l] # p[iter] /\ p[l] # p[iter] + 1
        BY <1>1, <1>4, <3>5, <4>2, Unique
      <4>5. l \in Addr \union Nat /\ l # s /\ dst # bkt
        BY <1>1, <1>5, <3>5 DEF dst, s
      <4> QED
        BY <1>7, <1>12, <4>1, <4>2, <4>3, <4>4, <4>5
    <3> QED
      BY <3>1, <3>3, <3>4, <3>5
  <2> QED
    BY <1>3, <2>1, <2>2, <2>3 DEF Placed, Numbers
<1>15. Homes(d, q)'
  <2>1. \A a \in Created : Home(key[a])' = Home(key[a])
    BY <1>2 DEF Home
  <2>2. ASSUME NEW a \in Created, d[a] < bkt \/ d[a] >= orig \/ (d[a] = bkt /\ q[a] <= q[iter])
        PROVE  d[a] = Home(key[a])
    <3>1. CASE a = s
      BY <1>12, <3>1 DEF dst
    <3>2. CASE a # s
      <4>1. a \in Addr \union Nat /\ d[a] = c[a] /\ p[a] \in Nat
        BY <1>5, <1>7, <1>12, <3>2 DEF Place
      <4>2. d[a] = bkt /\ q[a] <= q[iter] => p[a] <= p[iter]
        BY <1>1, <1>7, <1>12, <1>13, <3>2, <4>1 DEF dst, s
      <4> QED
        BY <1>1, <2>2, <4>1, <4>2 DEF Homes
    <3> QED
      BY <3>1, <3>2
  <2>3. /\ phase' = "move" /\ bkt' = bkt /\ orig' = orig /\ q[iter'] = q[iter]
    BY <1>1, <1>2
  <2>4. \A a \in Created :
          \/ d[a] = Home(key[a])'
          \/ ~(d[a] < bkt' \/ d[a] >= orig' \/ (d[a] = bkt' /\ q[a] <= q[iter']))
    BY <2>1, <2>2, <2>3
  <2> QED
    BY <1>3, <2>3, <2>4 DEF Homes
<1>16. Searched(d, q)'
  BY <1>1, <1>2, <1>13 DEF Searched
<1> QED
  BY <1>11, <1>14, <1>15, <1>16 DEF Found

\* At first no element is anywhere.
LEMMA InitFound == ~Recursive /\ Init => FInv
<1> SUFFICES ASSUME ~Recursive, Init PROVE FInv
  OBVIOUS
<1>1. IInv
  BY InitIInv
<1>2. /\ n = 3 /\ link = [l \in Addr \union 0 .. 2 |-> None] /\ key = [a \in Addr |-> None]
      /\ saved = <<>> /\ phase = "idle" /\ target = None
  BY DEF Init, InitBuckets
<1>3. Created = {} /\ Place \subseteq Addr \union 0 .. 2
  BY <1>2, CreatedIs DEF Allocated, Place, Buckets
<1> DEFINE c == [l \in Addr \union Nat |-> IF l \in Nat THEN l ELSE 0]
           p == [l \in Addr \union Nat |-> 0]
<1>4. c \in Numbers /\ p \in Numbers
  BY DEF Numbers
<1>5. Placed(c, p)
  <2>1. \A b \in Nat : c[b] = b /\ p[b] = 0
    OBVIOUS
  <2>2. \A l \in Place : link[l] = None
    BY <1>2, <1>3
  <2> QED
    BY <1>3, <1>4, <2>1, <2>2 DEF Placed
<1>6. Homes(c, p) /\ Searched(c, p)
  BY <1>2, <1>3 DEF Homes, Searched
<1> QED
  BY <1>1, <1>4, <1>5, <1>6 DEF FInv, Found

\* Whatever happens next, the elements are where they are looked for.
LEMMA NextFound == ~Recursive /\ FInv /\ [Next]_vars => FInv'
<1> SUFFICES ASSUME ~Recursive, FInv, [Next]_vars PROVE FInv'
  OBVIOUS
<1>1. IInv /\ IInv'
  BY NextIInv DEF FInv
<1>2. PICK c \in Numbers, p \in Numbers : Found(c, p)
  BY DEF FInv
<1>3. CASE UNCHANGED vars
  <2>1. /\ UNCHANGED <<n, link, key, expired, pinned, phase, arg, cur, iter, target, bkt, orig>>
    BY <1>3 DEF vars, map, call, walk
  <2>2. /\ Created' = Created /\ Placed(c, p)'
        /\ \A a \in Created : Home(key[a])' = Home(key[a])
    BY <1>1, <1>2, <2>1, QuietPlaced DEF Found
  <2>3. Homes(c, p)' /\ Searched(c, p)'
    <3>1. Home(arg)' = Home(arg)
      BY <2>1 DEF Home
    <3> QED
      BY <1>2, <2>1, <2>2, <3>1 DEF Found, Homes, Searched
  <2> QED
    BY <1>1, <2>2, <2>3 DEF FInv, Found
<1>4. CASE WalkPast \/ WalkHit \/ WalkFound \/ WalkMiss
  BY <1>1, <1>2, <1>4, SearchFound DEF FInv
<1>5. CASE HitReturns \/ WaitUnlocked \/ CreatedSync \/ Enough \/ ResizeFails \/ Moved
  BY <1>1, <1>2, <1>5, ServeFound DEF FInv
<1>6. CASE EraseStep \/ \E a \in Addr : Evict(a)
  BY <1>1, <1>2, <1>6, EvictFound DEF FInv
<1>7. CASE Sweep \/ SweepPast \/ SweepNext \/ MovePast \/ MoveNext \/ Destroy \/ DestroyNext
  BY <1>1, <1>2, <1>7, BucketFound DEF FInv
<1>8. CASE \/ \E a \in Addr : Expires(a) \/ Resolve(a) \/ ResolveThrows(a)
           \/ \E o \in {"get", "peek", "expire"}, k \in Keys : Call(o, k)
  BY <1>1, <1>2, <1>8, OutsideFound DEF FInv
<1>9. CASE WalkErase \/ WalkExpire \/ EraseFound \/ SweepErase \/ DestroyElement
  BY <1>1, <1>2, <1>9, EraseFoundKeeps DEF FInv
<1>10. CASE CreateThrows \/ \E a \in Addr : BeginCreate(a)
  BY <1>1, <1>2, <1>10, AllocateFound DEF FInv
<1>11. CASE Create
  BY <1>1, <1>2, <1>11, CreateFound DEF FInv
<1>12. CASE Resize
  BY <1>1, <1>2, <1>12, ResizeFound DEF FInv
<1>13. CASE Move
  BY <1>1, <1>2, <1>13, MoveFound DEF FInv
<1>14. CASE \E k \in Keys : Recurse(k)
  BY <1>14 DEF Recurse
<1> QED
  BY <1>3, <1>4, <1>5, <1>6, <1>7, <1>8, <1>9, <1>10, <1>11, <1>12, <1>13, <1>14 DEF Next, Work

\* Without callbacks every reachable state satisfies the invariant (bucket.h).
THEOREM FInvariance == ASSUME ~Recursive PROVE Spec => []FInv
  BY InitFound, NextFound, PTL DEF Spec

-----------------------------------------------------------------------------
\* What is reached from a bucket is its chain.

\* The positions before one that is taken are taken.
LEMMA NoGap ==
  ASSUME IInv, NEW c, NEW p, Placed(c, p), NEW a \in Created, NEW k \in 1 .. p[a]
  PROVE  \E x \in Created : c[x] = c[a] /\ p[x] = k
<1> DEFINE Taken(j) == \E x \in Created : c[x] = c[a] /\ p[x] = j
           Gaps == {d \in Nat : d < p[a] /\ ~Taken(p[a] - d)}
<1>1. TypeOK /\ Pointers /\ p[a] \in Nat
  <2>1. TypeOK /\ Pointers
    BY DEF IInv
  <2> QED
    BY <2>1, PlacedTypes DEF Place
<1>2. SUFFICES ASSUME ~Taken(k) PROVE FALSE
  OBVIOUS
<1>3. p[a] - k \in Gaps
  <2>1. p[a] - k \in Nat /\ p[a] - k < p[a] /\ p[a] - (p[a] - k) = k
    BY <1>1
  <2> QED
    BY <1>2, <2>1
<1>4. PICK d \in Gaps : \A e \in Gaps : d <= e
  <2> HIDE DEF Gaps
  <2>1. Gaps \subseteq Nat
    BY DEF Gaps
  <2> QED
    BY <1>3, <2>1, QueueFacts!LeastNatural
<1>5. d \in Nat /\ d < p[a] /\ ~Taken(p[a] - d)
  BY <1>4
<1>6. d # 0
  BY <1>1, <1>5
<1>7. d - 1 \in Nat /\ d - 1 < p[a] /\ p[a] - (d - 1) = (p[a] - d) + 1 /\ p[a] - d > 0
  BY <1>1, <1>5, <1>6
<1>8. Taken(p[a] - (d - 1))
  <2>1. d - 1 \notin Gaps
    BY <1>4, <1>5
  <2> QED
    BY <1>7, <2>1
<1>9. PICK x \in Created : c[x] = c[a] /\ p[x] = p[a] - (d - 1)
  BY <1>8
<1>10. PICK l \in Place : link[l] = x
  BY <1>1 DEF Pointers
<1>11. c[l] = c[a] /\ p[l] = p[a] - d
  <2>1. c[x] = c[l] /\ p[x] = p[l] + 1 /\ p[l] \in Nat
    BY <1>1, <1>10, Apart, PlacedTypes DEF Placed
  <2> QED
    BY <1>1, <1>5, <1>7, <1>9, <2>1
<1>12. l \in Created
  BY <1>1, <1>7, <1>11, PlacedTypes DEF Place
<1> QED
  BY <1>5, <1>11, <1>12

\* No position is larger than the number of addresses.
LEMMA PositionBound ==
  ASSUME IInv, NEW c, NEW p, Placed(c, p), NEW a \in Created
  PROVE  /\ Cardinality(Addr) \in Nat /\ p[a] \in Nat /\ p[a] <= Cardinality(Addr)
<1>1. TypeOK /\ a \in Place /\ p[a] \in Nat
  <2>1. TypeOK
    BY DEF IInv
  <2> QED
    BY <2>1, PlacedTypes DEF Place
<1> DEFINE At(k) == CHOOSE x \in Created : c[x] = c[a] /\ p[x] = k
           f == [k \in 1 .. p[a] |-> At(k)]
<1>2. \A k \in 1 .. p[a] : At(k) \in Created /\ p[At(k)] = k
  BY NoGap
<1>3. Created \subseteq Addr
  BY <1>1, Apart
<1>4. f \in Injection(1 .. p[a], Addr)
  <2> HIDE DEF At
  <2>1. \A k \in 1 .. p[a] : f[k] \in Addr /\ p[f[k]] = k
    BY <1>2, <1>3
  <2>2. f \in [1 .. p[a] -> Addr]
    BY <2>1
  <2> HIDE DEF f
  <2> QED
    BY <2>1, <2>2 DEF Injection, IsInjective
<1>5. Cardinality(1 .. p[a]) = p[a]
  BY <1>1, FS_Interval
<1> QED
  BY <1>1, <1>4, <1>5, AddrAssumption, FS_Injection, FS_CardinalityType

\* The elements that are reached from a bucket are those of its chain (After
\* computes them in as many rounds as there are addresses).
LEMMA AfterIsChain ==
  ASSUME IInv, NEW c, NEW p, Placed(c, p), NEW b \in Buckets
  PROVE  After(b) = {a \in Created : c[a] = b}
<1> DEFINE N == Cardinality(Addr)
           Round(from) == (from \ {b}) \union ({link[x] : x \in from} \ {None})
           First(i) == {a \in Created : c[a] = b /\ p[a] <= i + 1}
           Reaches(f) == f = [i \in 0 .. N |-> Round(IF i = 0 THEN {b} ELSE f[i - 1])]
           reach == CHOOSE f : Reaches(f)
<1>1. /\ TypeOK /\ Pointers /\ N \in Nat /\ b \in Place /\ b \notin Created /\ c[b] = b /\ p[b] = 0
      /\ \A a \in Created : a \in Place /\ p[a] \in Nat /\ p[a] > 0 /\ a # None
      /\ \A l \in Buckets : p[l] = 0
  <2>1. TypeOK /\ Pointers
    BY DEF IInv
  <2> QED
    BY <2>1, Apart, PlacedTypes, AddrAssumption, FS_CardinalityType DEF Place, Placed
<1>2. \A l \in Place : link[l] # None =>
        link[l] \in Created /\ c[link[l]] = c[l] /\ p[link[l]] = p[l] + 1
  BY <1>1 DEF Pointers, Placed
<1>3. \A a \in Created : \E l \in Place : link[l] = a /\ c[l] = c[a] /\ p[a] = p[l] + 1
  BY <1>1, <1>2 DEF Pointers
<1> HIDE DEF N
<1>4. Round({b}) = First(0)
  <2>1. Round({b}) = {link[b]} \ {None}
    OBVIOUS
  <2>2. ASSUME NEW a \in First(0) PROVE a = link[b]
    <3>1. PICK l \in Place : link[l] = a /\ c[l] = c[a] /\ p[a] = p[l] + 1
      BY <1>3
    <3>2. p[l] = 0 /\ c[l] = b
      BY <1>1, <3>1, PlacedTypes
    <3>3. l = b
      BY <1>1, <3>2, Unique
    <3> QED
      BY <3>1, <3>3
  <2>3. link[b] # None => link[b] \in First(0)
    BY <1>1, <1>2
  <2> QED
    BY <1>1, <2>1, <2>2, <2>3
<1>5. ASSUME NEW i \in Nat PROVE Round(First(i)) = First(i + 1)
  <2>1. ASSUME NEW x \in Round(First(i)) PROVE x \in First(i + 1)
    <3>1. CASE x \in First(i)
      BY <1>1, <3>1
    <3>2. CASE x \notin First(i)
      <4>1. PICK y \in First(i) : x = link[y] /\ link[y] # None
        BY <2>1, <3>2
      <4>2. link[y] \in Created /\ c[link[y]] = b /\ p[link[y]] = p[y] + 1
        BY <1>1, <1>2, <4>1
      <4> QED
        BY <1>1, <4>1, <4>2
    <3> QED
      BY <3>1, <3>2
  <2>2. ASSUME NEW x \in First(i + 1) PROVE x \in Round(First(i))
    <3>1. CASE p[x] <= i + 1
      BY <1>1, <3>1
    <3>2. CASE ~(p[x] <= i + 1)
      <4>1. PICK l \in Place : link[l] = x /\ c[l] = c[x] /\ p[x] = p[l] + 1
        BY <1>3
      <4>2. p[l] \in Nat /\ p[l] = i + 1
        BY <1>1, <3>2, <4>1, PlacedTypes
      <4>3. l \in First(i)
        BY <1>1, <4>1, <4>2 DEF Place
      <4> QED
        BY <1>1, <4>1, <4>3
    <3> QED
      BY <3>1, <3>2
  <2> QED
    BY <2>1, <2>2
<1> HIDE DEF Round, First
<1>6. \E f : Reaches(f)
  <2> DEFINE g == [i \in 0 .. N |-> First(i)]
  <2>1. ASSUME NEW i \in 0 .. N
        PROVE  First(i) = Round(IF i = 0 THEN {b} ELSE g[i - 1])
    <3>1. CASE i = 0
      BY <1>4, <3>1
    <3>2. CASE i # 0
      <4>1. i - 1 \in 0 .. N /\ i - 1 \in Nat /\ (i - 1) + 1 = i
        BY <1>1, <3>2
      <4>2. g[i - 1] = First(i - 1)
        BY <4>1
      <4>3. Round(First(i - 1)) = First(i)
        BY <1>5, <4>1
      <4> HIDE DEF g
      <4> QED
        BY <3>2, <4>2, <4>3
    <3> QED
      BY <3>1, <3>2
  <2>2. Reaches(g)
    BY <2>1
  <2> HIDE DEF g, Reaches
  <2> QED
    BY <2>2
<1>7. Reaches(reach)
  <2> HIDE DEF Reaches
  <2> QED
    BY <1>6
<1> HIDE DEF reach
<1>8. \A i \in 0 .. N : reach[i] = Round(IF i = 0 THEN {b} ELSE reach[i - 1])
  BY <1>7
<1>9. \A i \in 0 .. N : reach[i] = First(i)
  <2> DEFINE Bad == {i \in 0 .. N : reach[i] # First(i)}
  <2>1. SUFFICES ASSUME Bad # {} PROVE FALSE
    OBVIOUS
  <2>2. PICK i \in Bad : \A j \in Bad : i <= j
    <3>1. Bad \subseteq Nat
      OBVIOUS
    <3> HIDE DEF Bad
    <3> QED
      BY <2>1, <3>1, QueueFacts!LeastNatural
  <2>3. i \in 0 .. N /\ reach[i] # First(i)
    BY <2>2
  <2>4. CASE i = 0
    BY <1>4, <1>8, <2>3, <2>4
  <2>5. CASE i # 0
    <3>1. i - 1 \in 0 .. N /\ i - 1 \in Nat /\ (i - 1) + 1 = i /\ i - 1 < i
      BY <1>1, <2>3, <2>5
    <3>2. reach[i - 1] = First(i - 1)
      BY <2>2, <3>1
    <3>3. reach[i] = Round(First(i - 1))
      BY <1>8, <2>3, <2>5, <3>2
    <3> QED
      BY <1>5, <2>3, <3>1, <3>3
  <2> QED
    BY <2>4, <2>5
<1>10. First(N) = {a \in Created : c[a] = b}
  <2>1. \A a \in Created : p[a] <= N + 1
    <3>1. \A a \in Created : p[a] <= N
      BY PositionBound DEF N
    <3> QED
      BY <1>1, <3>1
  <2> QED
    BY <2>1 DEF First
<1>11. After(b) = reach[N]
  BY DEF After, reach, Reaches, Round, N
<1> QED
  BY <1>1, <1>9, <1>10, <1>11

\* What is reached from all buckets is the elements of the cache; unless the map
\* is growing, each is reached from the bucket that its hash selects.
LEMMA ChainsHoldAll ==
  ASSUME FInv
  PROVE  /\ Linked = Created
         /\ phase # "move" => \A b \in Buckets : After(b) = {a \in Created : Home(key[a]) = b}
<1>1. PICK c \in Numbers, p \in Numbers : Found(c, p)
  BY DEF FInv
<1>2. /\ IInv /\ Placed(c, p) /\ \A b \in Buckets : After(b) = {a \in Created : c[a] = b}
  BY <1>1, AfterIsChain DEF FInv, Found
<1>3. Linked = Created
  <2>1. \A a \in Created : c[a] \in Buckets
    BY <1>2 DEF Placed
  <2> QED
    BY <1>2, <2>1 DEF Linked
<1>4. phase # "move" => \A a \in Created : c[a] = Home(key[a])
  BY <1>1 DEF Found, Homes
<1> QED
  BY <1>2, <1>3, <1>4

\* Every element can be found, where a call would look for it (Findable).
THEOREM EveryElementIsFound == ASSUME ~Recursive PROVE Spec => []Findable
<1>1. FInv => Findable
  BY ChainsHoldAll DEF Findable
<1> QED
  BY <1>1, FInvariance, PTL

\* erase() never runs past the end of a chain (EraseFinds).
THEOREM EraseNeverMisses == ASSUME ~Recursive PROVE Spec => []EraseFinds
<1>1. ASSUME FInv, target # None
      PROVE  Next_ # None
  <2>1. PICK c \in Numbers, p \in Numbers : Found(c, p)
    BY <1>1 DEF FInv
  <2>2. IInv /\ TypeOK /\ Control /\ Placed(c, p) /\ Searched(c, p)
    BY <1>1, <2>1 DEF FInv, IInv, Found
  <2>3. iter \in Place /\ target \in Created /\ c[target] = c[iter] /\ p[iter] < p[target]
    BY <1>1, <2>2 DEF Control, Searched
  <2>4. p[iter] \in Nat /\ p[target] \in Nat
    BY <2>2, <2>3, PlacedTypes DEF Place
  <2>5. SUFFICES ASSUME link[iter] = None PROVE FALSE
    BY DEF Next_
  <2>6. p[target] <= p[iter]
    BY <2>2, <2>3, <2>5, EndIsLast
  <2> QED
    BY <2>3, <2>4, <2>6
<1>2. FInv => EraseFinds
  BY <1>1 DEF EraseFinds
<1> QED
  BY <1>2, FInvariance, PTL

\* The destructor leaves no element behind (AllDestroyed).
THEOREM DestructorErasesAll == ASSUME ~Recursive PROVE Spec => []AllDestroyed
<1>1. ASSUME FInv, phase = "gone"
      PROVE  Allocated = {} /\ size = 0
  <2>1. Created = {}
    BY <1>1 DEF FInv, Found, Searched
  <2>2. Created = Allocated
    BY <1>1, CreatedIs DEF FInv, IInv, Control
  <2> QED
    BY <1>1, <2>1, <2>2, FS_EmptySet DEF FInv, IInv, Counted
<1>2. FInv => AllDestroyed
  BY <1>1 DEF AllDestroyed
<1> QED
  BY <1>2, FInvariance, PTL

\* The steps by which no element comes or goes.
LEMMA SameElements ==
  ASSUME ~Recursive, IInv, IInv', [Next]_vars, ~Create, ~Destroy,
         ~(WalkErase \/ EraseFound \/ SweepErase \/ DestroyElement),
         ~(WalkExpire /\ Next_ \notin pinned)
  PROVE  /\ Created' = Created
         /\ phase' \in {"destroy", "gone"} <=> phase \in {"destroy", "gone"}
<1>1. TypeOK /\ Control /\ saved = <<>>
  BY DEF IInv, Control
<1>2. CASE UNCHANGED vars
  BY <1>2, CreatedThen DEF vars, map, call, Allocated
<1>3. CASE WalkPast \/ WalkHit \/ WalkFound \/ WalkMiss \/ WalkExpire
  <2>1. UNCHANGED key /\ phase = "walk" /\ phase' \in {"walk", "hit", "idle"}
    BY <1>1, <1>3, ReturnIs
       DEF WalkPast, WalkHit, WalkFound, WalkMiss, WalkExpire, Walking, Match, map, call
  <2> QED
    BY <2>1, CreatedThen DEF Allocated
<1>4. CASE HitReturns \/ WaitUnlocked \/ CreatedSync \/ Enough \/ ResizeFails \/ Moved
  <2>1. /\ UNCHANGED key /\ phase \in {"hit", "made", "grow", "resize", "move"}
        /\ phase' \in {"grow", "idle"}
    BY <1>1, <1>4, ReturnIs
       DEF HitReturns, WaitUnlocked, CreatedSync, Enough, ResizeFails, Moved, map
  <2> QED
    BY <2>1, CreatedThen DEF Allocated
<1>5. CASE \/ EraseStep \/ \E a \in Addr : Evict(a) \/ Expires(a) \/ ResolveThrows(a)
  <2>1. UNCHANGED <<key, phase, cur>>
    BY <1>5 DEF EraseStep, Evict, Expires, ResolveThrows, map, call
  <2> QED
    BY <2>1, CreatedThen DEF Allocated
<1>6. CASE \/ Sweep \/ SweepPast \/ SweepNext \/ MovePast \/ MoveNext \/ DestroyNext \/ Resize \/ Move
           \/ \E a \in Addr : Resolve(a)
           \/ \E o \in {"get", "peek", "expire"}, k \in Keys : Call(o, k)
  <2>1. /\ UNCHANGED key
        /\ \/ phase \in {"grow", "sweep", "move", "resize", "idle"}
              /\ phase' \in {"sweep", "resize", "move", "grow", "walk"}
           \/ phase = "destroy" /\ phase' \in {"destroy", "gone"}
    BY <1>6 DEF Sweep, SweepPast, SweepNext, MovePast, MoveNext, DestroyNext, Resize, Move, Resolve,
                Call, map
  <2> QED
    BY <2>1, CreatedThen DEF Allocated
<1>7. CASE CreateThrows
  <2>1. phase = "create" /\ phase' = "idle" /\ key' = [key EXCEPT ![cur] = None] /\ cur \in Addr
    BY <1>1, <1>7, ReturnIs DEF CreateThrows, Control, Allocated
  <2> QED
    BY <1>1, <2>1, CreatedThen DEF Allocated, TypeOK
<1>8. CASE \E a \in Addr : BeginCreate(a)
  <2>1. PICK a \in Addr : BeginCreate(a)
    BY <1>8
  <2>2. /\ phase = "walk" /\ phase' = "create" /\ cur' = a /\ key[a] = None
        /\ key' = [key EXCEPT ![a] = arg] /\ arg \in Keys
    BY <1>1, <2>1 DEF BeginCreate, Control
  <2>3. Created = Allocated /\ Created' = Allocated' \ {a}
    BY <2>2, CreatedThen
  <2> QED
    BY <1>1, <2>2, <2>3, AddrAssumption DEF Allocated, TypeOK
<1> QED
  BY <1>2, <1>3, <1>4, <1>5, <1>6, <1>7, <1>8 DEF Next, Work, Recurse

\* Every step of the pointers is a step of the table.
LEMMA TableStep ==
  ASSUME ~Recursive, FInv, IInv', Linked' = Created', [Next]_vars
  PROVE  [T!Next]_<<Linked, phase \notin {"destroy", "gone"}>>
<1>1. IInv /\ Linked = Created /\ TypeOK /\ Control /\ saved = <<>>
  BY ChainsHoldAll DEF FInv, IInv, Control
<1>2. IInv' /\ Linked' = Created'
  OBVIOUS
<1>3. PICK c \in Numbers, p \in Numbers : Found(c, p)
  BY DEF FInv
<1>4. Searched(c, p)
  BY <1>3 DEF Found
<1>5. CASE Create
  <2>1. /\ phase = "create" /\ phase' = "made" /\ UNCHANGED key /\ key[cur] = arg
        /\ \A a \in Created : key[a] = arg => a \in expired
        /\ cur \in Allocated /\ cur \in Addr
    BY <1>1, <1>4, <1>5 DEF Create, Searched, Control, Allocated
  <2>2. Created = Allocated \ {cur} /\ Created' = Created \union {cur}
    BY <1>1, <2>1, CreatedThen DEF Allocated
  <2>3. T!Add(cur)
    BY <1>1, <1>2, <2>1, <2>2 DEF T!Add
  <2> QED
    BY <2>1, <2>3 DEF T!Next
<1>6. CASE \/ WalkErase \/ EraseFound \/ SweepErase \/ DestroyElement
           \/ WalkExpire /\ Next_ \notin pinned
  <2>1. /\ Unlink /\ iter \in Place /\ link[iter] # None /\ link[iter] \notin pinned
        /\ phase \in {"walk", "hit", "made", "sweep", "destroy"}
        /\ phase' \in {"walk", "idle", "hit", "made", "sweep", "destroy"}
        /\ phase = "destroy" <=> phase' = "destroy"
        /\ phase # "destroy" => link[iter] \in expired'
    BY <1>1, <1>4, <1>6, ReturnIs, AddrAssumption
       DEF WalkErase, EraseFound, SweepErase, DestroyElement, WalkExpire, Walking, Match, Next_, Locked,
           Control, Searched, TypeOK
  <2>2. link[iter] \in Created /\ link[iter] \in Addr /\ Created' = Created \ {link[iter]}
    BY <1>1, <2>1, UnlinkErases, Apart
  <2>3. T!Remove(link[iter])
    BY <1>1, <1>2, <2>1, <2>2 DEF T!Remove
  <2> QED
    BY <2>1, <2>2, <2>3 DEF T!Next
<1>7. CASE Destroy
  <2>1. phase = "idle" /\ phase' = "destroy" /\ UNCHANGED key
    BY <1>7 DEF Destroy, map
  <2>2. Created' = Created
    BY <1>1, <2>1, CreatedThen DEF Allocated
  <2>3. T!Close
    BY <1>1, <1>2, <2>1, <2>2 DEF T!Close
  <2> QED
    BY <2>3 DEF T!Next
<1>8. CASE ~Create /\ ~Destroy /\ ~(WalkErase \/ EraseFound \/ SweepErase \/ DestroyElement)
           /\ ~(WalkExpire /\ Next_ \notin pinned)
  <2>1. /\ Created' = Created
        /\ phase' \in {"destroy", "gone"} <=> phase \in {"destroy", "gone"}
    BY <1>1, <1>8, SameElements
  <2> QED
    BY <1>1, <1>2, <2>1
<1> QED
  BY <1>5, <1>6, <1>7, <1>8

\* The chains behave as the set of elements that a cache takes them for
\* (ImplementsTable).
THEOREM ChainsAreATable == ASSUME ~Recursive PROVE Spec => ImplementsTable
<1>1. Init => T!Init
  <2> SUFFICES ASSUME Init PROVE T!Init
    OBVIOUS
  <2>1. FInv
    BY InitFound
  <2>2. Linked = {}
    BY <2>1, ChainsHoldAll, CreatedIs DEF Init, Allocated
  <2> QED
    BY <2>2 DEF T!Init, Init
<1>2. FInv => IInv /\ Linked = Created
  BY ChainsHoldAll DEF FInv
<1>3. FInv /\ (IInv /\ Linked = Created)' /\ [Next]_vars
        => [T!Next]_<<Linked, phase \notin {"destroy", "gone"}>>
  BY TableStep
<1> QED
  BY <1>1, <1>2, <1>3, FInvariance, PTL DEF Spec, ImplementsTable, T!Spec
=============================================================================
