-------------------------------- MODULE Buckets --------------------------------
(***************************************************************************)
(* The hash map of cache_impl (cache_impl.h) down to the pointers: buckets *)
(* that hold singly linked chains of elements (bucket.h), walked with an   *)
(* iterator that is the address of the pointer to the next element, as in  *)
(* a std::forward_list.  Cache treats a bucket as a set; here each step    *)
(* writes the pointers that the code writes.                               *)
(*                                                                         *)
(* The walk, an eviction, the sweep and the rehash take one step for each  *)
(* element they visit, under the lock of the cache or on its only thread.  *)
(* Meanwhile an element may expire.  An async cache releases the lock      *)
(* between linking an element and resolving it.  A synchronous cache that  *)
(* is not thread safe can be called back from its create function.         *)
(***************************************************************************)
EXTENDS Integers, Sequences, FiniteSets

CONSTANTS
  Addr,      \* the addresses an element can have
  Keys,
  None,      \* stands for nullptr and for no key
  Dangling,  \* stands for the address of a bucket of a vector that is gone
  Hash,      \* the hash code of each key
  Spread,    \* 1 / max_load_factor: the buckets wanted per element
  Async,     \* builder.async()
  Queue,     \* TRUE with an expire queue, whose shrinking erases elements
  Recursive  \* TRUE when the create function calls back into the cache

ASSUME AddrAssumption ==
  /\ Addr \intersect Nat = {} /\ {None, Dangling} \intersect (Addr \union Nat) = {}
  /\ None # Dangling /\ None \notin Keys /\ IsFiniteSet(Addr)
ASSUME HashAssumption == Hash \in [Keys -> Nat] /\ Spread \in Nat \ {0}
ASSUME VariantAssumption == {Async, Queue, Recursive} \subseteq BOOLEAN

VARIABLES
  n,        \* buckets_.size()
  link,     \* head_ of each bucket and successor of each element: a location
            \* is a bucket or an element, and iter is a location
  key,      \* the key of each element, None where no element is allocated
  expired,  \* the elements for which is_expired() is true
  pinned,   \* the elements whose creator waits with the lock released
  size,     \* size_
  phase,    \* what the code is doing
  op, arg,  \* the call, and its key
  iter,     \* the location the code looks at
  cur,      \* the element the call has found or is creating
  target,   \* the element that erase() looks for
  bkt,      \* the bucket being swept, rehashed or destroyed
  orig,     \* orig_size in maybe_rehash_
  saved,    \* the calls whose create function is calling back
  failed    \* history: the vector of buckets could not grow

call == <<op, arg, cur, saved>>
walk == <<iter, target, bkt, orig>>
map == <<n, link, key, expired, pinned, size>>
vars == <<map, phase, call, walk, failed>>

-----------------------------------------------------------------------------
\* State functions.

Buckets == 0 .. n - 1
Loc == Addr \union Buckets

\* hash() % buckets_.size()
Home(k) == Hash[k] % n

Allocated == {a \in Addr : key[a] # None}
\* Elements whose create function runs in the call that allocated them.
Fresh ==
  (IF phase = "create" THEN {cur} ELSE {}) \union {saved[i].cur : i \in DOMAIN saved}
\* Elements that on_create was called for and on_delete was not: size_ counts
\* them, and the decorators know them.
Created == Allocated \ Fresh
Locked == pinned \union {cur}

\* The elements that are reached from location l.
After(l) ==
  LET reach[i \in 0 .. Cardinality(Addr)] ==
        LET from == IF i = 0 THEN {l} ELSE reach[i - 1]
        IN (from \ {l}) \union ({link[x] : x \in from} \ {None})
  IN reach[Cardinality(Addr)]
Linked == UNION {After(b) : b \in Buckets}

\* compute_target_buckets_, and the size that maybe_rehash_ grows to.
TargetBuckets == Spread * size
GrownBuckets == (n \div 7 + 1) * 9
InitBuckets == 3

Init ==
  /\ n = InitBuckets
  /\ link = [l \in Addr \union 0 .. InitBuckets - 1 |-> None]
  /\ key = [a \in Addr |-> None]
  /\ expired = {} /\ pinned = {} /\ size = 0
  /\ phase = "idle" /\ op = "none" /\ arg = None /\ cur = None /\ saved = <<>>
  /\ iter = 0 /\ target = None /\ bkt = 0 /\ orig = 0
  /\ failed = FALSE

\* An element grows too old, or the last reference to its value goes.
Expires(a) ==
  /\ a \in Created \ expired
  /\ expired' = expired \union {a}
  /\ UNCHANGED <<n, link, key, pinned, size, phase, call, walk, failed>>

-----------------------------------------------------------------------------
\* Pointer operations at iter.

\* The next element is unlinked and deleted; iter stays.
Unlink ==
  /\ link' = [link EXCEPT ![iter] = link[link[iter]]]
  /\ key' = [key EXCEPT ![link[iter]] = None]
  /\ size' = size - 1

Advance == iter' = link[iter]

\* A call returns: to its caller, or to the create function that called back.
Return ==
  IF saved = <<>>
  THEN /\ phase' = "idle" /\ op' = "none" /\ arg' = None /\ cur' = None /\ iter' = 0
       /\ UNCHANGED saved
  ELSE LET f == Head(saved)
       IN /\ phase' = "create" /\ op' = "get"
          /\ arg' = f.arg /\ cur' = f.cur /\ iter' = f.iter
          /\ saved' = Tail(saved)

-----------------------------------------------------------------------------
\* A call walks the bucket of its key: lookup_or_create, lookup_if_present and
\* expire of bucket.h.

Call(o, k) ==
  /\ phase = "idle"
  /\ phase' = "walk" /\ op' = o /\ arg' = k /\ iter' = Home(k)
  /\ UNCHANGED <<map, cur, saved, target, bkt, orig, failed>>

Next_ == link[iter]
Walking == phase = "walk" /\ Next_ # None

\* An expired element that nobody locks is cleaned up.
Mut_WalkErase ==
  /\ Walking /\ op # "peek" /\ Next_ \in expired
  /\ Unlink
  /\ UNCHANGED <<n, expired, pinned, phase, call, walk, failed>>
WalkErase ==
  /\ Walking /\ op # "peek" /\ Next_ \in expired \ pinned
  /\ Unlink
  /\ UNCHANGED <<n, expired, pinned, phase, call, walk, failed>>

\* Another key, or an element that can not be used: one of the key may also
\* expire between is_expired() and ptr().
WalkPast ==
  /\ Walking
  /\ \/ Next_ \in expired /\ (op = "peek" \/ Next_ \in pinned)
     \/ Next_ \notin expired /\ key[Next_] # arg
     \/ Next_ \in expired /\ key[Next_] = arg
  /\ Advance
  /\ UNCHANGED <<map, phase, call, target, bkt, orig, failed>>

Match == Walking /\ key[Next_] = arg /\ Next_ \notin expired

\* get: the element is locked against deletion while on_hit runs.
WalkHit ==
  /\ Match /\ op = "get"
  /\ cur' = Next_ /\ phase' = "hit"
  /\ UNCHANGED <<map, op, arg, saved, walk, failed>>

WalkFound ==
  /\ Match /\ op = "peek"
  /\ Return
  /\ UNCHANGED <<map, target, bkt, orig, failed>>

Mut_WalkExpire ==
  /\ Match /\ op = "expire"
  /\ expired' = expired \union {Next_}
  /\ key' = [key EXCEPT ![Next_] = None] /\ size' = size - 1 /\ UNCHANGED link
  /\ Return
  /\ UNCHANGED <<n, pinned, target, bkt, orig, failed>>
WalkExpire ==
  /\ Match /\ op = "expire"
  /\ expired' = expired \union {Next_}
  /\ IF Next_ \in pinned THEN UNCHANGED <<link, key, size>> ELSE Unlink
  /\ Return
  /\ UNCHANGED <<n, pinned, target, bkt, orig, failed>>

\* The end of the chain: nothing found, or an element can not be allocated.
WalkMiss ==
  /\ phase = "walk" /\ Next_ = None
  /\ Return
  /\ UNCHANGED <<map, target, bkt, orig, failed>>

-----------------------------------------------------------------------------
\* Creating an element at the end of the chain.

BeginCreate(a) ==
  /\ phase = "walk" /\ Next_ = None /\ op = "get" /\ key[a] = None
  /\ key' = [key EXCEPT ![a] = arg]
  /\ expired' = expired \ {a}
  /\ cur' = a /\ phase' = "create"
  /\ UNCHANGED <<n, link, pinned, size, op, arg, saved, walk, failed>>

\* The create function of a synchronous cache calls back for another key: the
\* outer call keeps its location.
Recurse(k) ==
  /\ Recursive /\ ~Async /\ phase = "create"
  /\ k # arg /\ \A i \in DOMAIN saved : saved[i].arg # k
  /\ saved' = <<[arg |-> arg, cur |-> cur, iter |-> iter]>> \o saved
  /\ phase' = "walk" /\ arg' = k /\ cur' = None /\ iter' = Home(k)
  /\ UNCHANGED <<map, op, target, bkt, orig, failed>>

\* The create function throws under the lock: undo_allocation_.
CreateThrows ==
  /\ phase = "create"
  /\ key' = [key EXCEPT ![cur] = None]
  /\ Return
  /\ UNCHANGED <<n, link, expired, pinned, size, target, bkt, orig, failed>>

\* *iter = new_store, on_create.  What is written through a dangling location
\* reaches no bucket.
Create ==
  /\ phase = "create"
  /\ link' = [l \in Loc |-> IF l = iter THEN cur ELSE IF l = cur THEN None ELSE link[l]]
  /\ size' = size + 1
  /\ phase' = "made"
  /\ UNCHANGED <<n, key, expired, pinned, call, walk, failed>>

-----------------------------------------------------------------------------
\* on_create and on_hit: a decorator shrinks the expire queue, which drops
\* elements that nobody references, one after the other (erase_if_expired).

Evict(a) ==
  /\ Queue /\ phase \in {"hit", "made"} /\ target = None
  /\ a \in Created \ Locked
  /\ expired' = expired \union {a}
  /\ target' = a /\ iter' = Home(key[a])
  /\ UNCHANGED <<n, link, key, pinned, size, phase, call, bkt, orig, failed>>

EraseStep ==
  /\ target # None /\ Next_ \notin {target, None}
  /\ Advance
  /\ UNCHANGED <<map, phase, call, target, bkt, orig, failed>>

EraseFound ==
  /\ target # None /\ Next_ = target
  /\ Unlink /\ target' = None
  /\ UNCHANGED <<n, expired, pinned, phase, call, iter, bkt, orig, failed>>

\* A hit returns; so does a creation that leaves a future to be resolved.
HitReturns ==
  /\ phase = "hit" /\ target = None
  /\ Return
  /\ UNCHANGED <<map, target, bkt, orig, failed>>

WaitUnlocked ==
  /\ Async /\ phase = "made" /\ target = None
  /\ pinned' = pinned \union {cur}
  /\ Return
  /\ UNCHANGED <<n, link, key, expired, size, target, bkt, orig, failed>>

\* The creator has the lock again: the value is installed, or the exception of
\* the create function leaves the element without one.
Resolve(a) ==
  /\ Async /\ phase = "idle" /\ a \in pinned
  /\ cur' = a /\ phase' = "grow"
  /\ pinned' = pinned \ {a}
  /\ UNCHANGED <<n, link, key, expired, size, op, arg, saved, walk, failed>>

ResolveThrows(a) ==
  /\ Async /\ phase = "idle" /\ a \in pinned
  /\ expired' = expired \union {a} /\ pinned' = pinned \ {a}
  /\ UNCHANGED <<n, link, key, size, phase, call, walk, failed>>

CreatedSync ==
  /\ ~Async /\ phase = "made" /\ target = None
  /\ phase' = "grow"
  /\ UNCHANGED <<map, call, walk, failed>>

-----------------------------------------------------------------------------
\* maybe_rehash_: sweep, grow the vector, and move every element that belongs
\* elsewhere to the head of its bucket.

Enough ==
  /\ phase \in {"grow", "resize"} /\ n >= TargetBuckets
  /\ Return
  /\ UNCHANGED <<map, target, bkt, orig, failed>>

Sweep ==
  /\ phase = "grow" /\ n < TargetBuckets
  /\ phase' = "sweep" /\ bkt' = 0 /\ iter' = 0
  /\ UNCHANGED <<map, call, target, orig, failed>>

SweepErase ==
  /\ phase = "sweep" /\ Next_ \in expired \ Locked
  /\ Unlink
  /\ UNCHANGED <<n, expired, pinned, phase, call, walk, failed>>

SweepPast ==
  /\ phase = "sweep" /\ Next_ # None /\ Next_ \notin expired \ Locked
  /\ Advance
  /\ UNCHANGED <<map, phase, call, target, bkt, orig, failed>>

SweepNext ==
  /\ phase = "sweep" /\ Next_ = None
  /\ IF bkt + 1 < n THEN bkt' = bkt + 1 /\ iter' = bkt + 1 /\ UNCHANGED phase
                    ELSE phase' = "resize" /\ UNCHANGED <<bkt, iter>>
  /\ UNCHANGED <<map, call, target, orig, failed>>

\* The vector moves its buckets: a saved location that is a bucket dangles.
Resize ==
  /\ phase = "resize" /\ n < TargetBuckets
  /\ n' = GrownBuckets /\ orig' = n
  /\ link' = [l \in Addr \union 0 .. GrownBuckets - 1 |->
                IF l \in Loc THEN link[l] ELSE None]
  /\ saved' = [i \in DOMAIN saved |->
                 [saved[i] EXCEPT !.iter = IF @ \in Addr THEN @ ELSE Dangling]]
  /\ phase' = "move" /\ bkt' = 0 /\ iter' = 0
  /\ UNCHANGED <<key, expired, pinned, size, op, arg, cur, target, failed>>

\* The exception is swallowed.
ResizeFails ==
  /\ phase = "resize" /\ n < TargetBuckets
  /\ failed' = TRUE
  /\ Return
  /\ UNCHANGED <<map, target, bkt, orig>>

MovePast ==
  /\ phase = "move" /\ Next_ # None /\ Home(key[Next_]) = bkt
  /\ Advance
  /\ UNCHANGED <<map, phase, call, target, bkt, orig, failed>>

Mut_Move ==
  /\ phase = "move" /\ Next_ # None /\ Home(key[Next_]) # bkt
  /\ LET s == Next_
         dst == Home(key[s])
     IN link' = [link EXCEPT ![iter] = link[s], ![s] = None, ![dst] = s]
  /\ UNCHANGED <<n, key, expired, pinned, size, phase, call, walk, failed>>
Move ==
  /\ phase = "move" /\ Next_ # None /\ Home(key[Next_]) # bkt
  /\ LET s == Next_
         dst == Home(key[s])
     IN link' = [link EXCEPT ![iter] = link[s], ![s] = link[dst], ![dst] = s]
  /\ UNCHANGED <<n, key, expired, pinned, size, phase, call, walk, failed>>

MoveNext ==
  /\ phase = "move" /\ Next_ = None /\ bkt + 1 < orig
  /\ bkt' = bkt + 1 /\ iter' = bkt + 1
  /\ UNCHANGED <<map, phase, call, target, orig, failed>>

Moved ==
  /\ phase = "move" /\ Next_ = None /\ bkt + 1 = orig
  /\ Return
  /\ UNCHANGED <<map, target, bkt, orig, failed>>

-----------------------------------------------------------------------------
\* ~cache_impl: erase_all for each bucket, when no call is under way.

Destroy ==
  /\ phase = "idle" /\ pinned = {}
  /\ phase' = "destroy" /\ bkt' = 0 /\ iter' = 0
  /\ UNCHANGED <<map, call, target, orig, failed>>

DestroyElement ==
  /\ phase = "destroy" /\ Next_ # None
  /\ Unlink
  /\ UNCHANGED <<n, expired, pinned, phase, call, walk, failed>>

DestroyNext ==
  /\ phase = "destroy" /\ Next_ = None
  /\ IF bkt + 1 < n THEN bkt' = bkt + 1 /\ iter' = bkt + 1 /\ UNCHANGED phase
                    ELSE phase' = "gone" /\ UNCHANGED <<bkt, iter>>
  /\ UNCHANGED <<map, call, target, orig, failed>>

\* What the thread inside the cache does next.
Work ==
  \/ WalkErase
  \/ WalkPast
  \/ WalkHit
  \/ WalkFound
  \/ WalkExpire
  \/ WalkMiss
  \/ \E a \in Addr : BeginCreate(a)
  \/ \E k \in Keys : Recurse(k)
  \/ CreateThrows
  \/ Create
  \/ \E a \in Addr : Evict(a)
  \/ EraseStep
  \/ EraseFound
  \/ HitReturns
  \/ WaitUnlocked
  \/ CreatedSync
  \/ Enough
  \/ Sweep
  \/ SweepErase
  \/ SweepPast
  \/ SweepNext
  \/ Resize
  \/ ResizeFails
  \/ MovePast
  \/ Move
  \/ MoveNext
  \/ Moved
  \/ DestroyElement
  \/ DestroyNext

Next ==
  \/ Work
  \/ \E a \in Addr : Expires(a)
  \/ \E o \in {"get", "peek", "expire"}, k \in Keys : Call(o, k)
  \/ \E a \in Addr : Resolve(a)
  \/ \E a \in Addr : ResolveThrows(a)
  \/ Destroy

Spec == Init /\ [][Next]_vars

\* The thread inside the cache holds the lock and never waits for another.
FairSpec == Spec /\ WF_vars(Work)

-----------------------------------------------------------------------------
TypeOK ==
  /\ n \in Nat \ {0} /\ size \in Int
  /\ link \in [Loc -> Addr \union {None}]
  /\ key \in [Addr -> Keys \union {None}]
  /\ expired \subseteq Addr /\ pinned \subseteq Addr
  /\ phase \in {"idle", "walk", "create", "hit", "made", "grow", "sweep",
                "resize", "move", "destroy", "gone"}
  /\ op \in {"none", "get", "peek", "expire"} /\ arg \in Keys \union {None}
  /\ cur \in Addr \union {None} /\ target \in Addr \union {None}
  /\ iter \in Loc \union {Dangling} /\ bkt \in Nat /\ orig \in Nat
  /\ failed \in BOOLEAN

\* Threaded: exactly one pointer leads to each element of the cache, no pointer
\* leads to an element that is deleted or not yet constructed, and size_ counts
\* the elements: through unlinking in the middle of a walk, erase(), rehash and
\* ~cache_impl (bucket.h, on_create and on_delete in cache_impl.h).
Threaded ==
  /\ \A l \in Buckets \union Created : link[l] # None => link[l] \in Created
  /\ \A a \in Created : \E l \in Buckets \union Created : link[l] = a
  /\ \A l, m \in Buckets \union Created : l # m /\ link[l] # None => link[l] # link[m]
  /\ size = Cardinality(Created)

\* Findable: between calls every element is in the chain of the bucket that its
\* hash selects, where each later call looks for it, and in no other; during
\* a call and a rehash it is in some chain (bucket::rehash, maybe_rehash_).
Findable ==
  /\ Linked = Created
  /\ phase = "idle" => \A b \in Buckets : After(b) = {a \in Created : Home(key[a]) = b}

\* EraseFinds: erase() meets the element it was given before the end of the
\* chain ("Only valid sptr may be supplied, so we'll never reach past the end
\* of the bucket", bucket.h).
EraseFinds == target # None => Next_ # None

\* LoadKept: a synchronous call leaves enough buckets for the load factor,
\* although maybe_rehash_ grows only once and by a fixed ratio, unless the
\* vector could not grow ("If the cache exceeds this load factor, it will
\* rehash", cache_impl.h).
LoadKept == phase = "idle" /\ ~Async /\ ~failed => n >= TargetBuckets

\* AllDestroyed: the destructor leaves no element behind (erase_all).
AllDestroyed == phase = "gone" => Allocated = {} /\ size = 0

\* WalksEnd: a walk, an erasure, a sweep and a rehash come to the end of
\* their chains whatever expires meanwhile: no chain is a cycle and no step
\* stays at the element it looks at (the while loops of bucket.h).
WalksEnd == phase \notin {"idle", "gone"} ~> phase \in {"idle", "gone"}

\* ImplementsTable: the chains are a set of elements as Table promises: what
\* is found and what is kept does not depend on where elements are linked, on
\* clean-up during a walk or on a rehash.
T == INSTANCE Table WITH table <- Linked, open <- phase \notin {"destroy", "gone"}
ImplementsTable == T!Spec
=============================================================================
