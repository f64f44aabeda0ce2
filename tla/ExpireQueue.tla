----------------------------- MODULE ExpireQueue -----------------------------
(***************************************************************************)
(* The expire queue (expire_queue.h) with the decorators that shrink it    *)
(* and the part of an element it relies on: whether the element holds its  *)
(* value by a strong or a weak pointer, whether it is pinned               *)
(* (store_delete_lock.h) and whether a caller still holds the value.       *)
(*                                                                         *)
(* Every action is one critical section of the cache, so it is atomic.     *)
(***************************************************************************)
EXTENDS ExpireQueueOps, FiniteSets

CONSTANTS
  Elem,      \* the elements a cache may create
  MaxSize,   \* builder.max_size(): the limit of max_size_decorator
  Pressure   \* TRUE when access_expire or max_memory shrink the queue as well

ASSUME MaxSizeAssumption == MaxSize \in Nat
ASSUME PressureAssumption == Pressure \in BOOLEAN

VARIABLES
  queue,    \* the queue of ExpireQueueOps
  ptr,      \* per element: "absent" from the cache, or its pointer "strong" or "weak"
  void,     \* elements that are expired whatever their pointer (nil, or too old)
  pinned,   \* elements with a non-zero use_count: an async creator holds them
  held      \* elements whose value is referenced from outside the cache

vars == <<queue, ptr, void, pinned, held>>

Present == {e \in Elem : ptr[e] # "absent"}

\* element::is_expired, for pointers p and outside references r.
Expired(p, r, e) == e \in void \/ (p[e] = "weak" /\ e \notin r)

TypeOK ==
  /\ queue \in [order : Seq(Elem), hots : Nat]
  /\ queue.hots <= QSize(queue)
  /\ ptr \in [Elem -> {"absent", "weak", "strong"}]
  /\ void \subseteq Present
  /\ pinned \subseteq Present
  /\ held \subseteq Elem

Init ==
  /\ queue = EmptyQueue
  /\ ptr = [e \in Elem |-> "absent"]
  /\ void = {} /\ pinned = {} /\ held = {}

-----------------------------------------------------------------------------
\* The size a queue is shrunk to at the end of on_create and on_hit.
\* max_size_decorator always shrinks to MaxSize.  What access_expire_decorator
\* and cache_max_mem_decorator leave depends on the clock and on the memory in
\* use, which are not modelled: any size is possible.
Mut_Keep == {MaxSize + 1}
Keep == IF Pressure THEN 0 .. MaxSize ELSE {MaxSize}

\* element::weaken on the elements of D.
Mut_Weaken(p, D) == p
Weaken(p, D) == [e \in Elem |-> IF e \in D THEN "weak" ELSE p[e]]

\* erase_if_expired, on each element of D.
Mut_ErasedAll(p, r, D) == {e \in D : e \notin pinned}
Erased(p, r, D) == {e \in D : Expired(p, r, e) /\ e \notin pinned}
Erase(p, D) == [e \in Elem |-> IF e \in D THEN "absent" ELSE p[e]]

\* What expire_queue::on_create and on_hit do once element e is linked or
\* promoted in q and has pointers p: cleanup_ erases expired elements from the
\* cold end, then the decorators drop the coldest elements, weakening each one
\* and erasing it if that made it expire.  The caller holds e's value and pins e.
Maintain(q, p, e) ==
  LET r == held \union {e}
      q1 == Cleanup(q, {x \in Present \ {e} : Expired(p, r, x) /\ x \notin pinned})
      p1 == Erase(p, Queued(q) \ Queued(q1))
  IN \E n \in Keep :
       LET q2 == ShrinkTo(q1, n)
           drop == Queued(q1) \ Queued(q2)
           p2 == Weaken(p1, drop)
           dead == Erased(p2, r, drop \ {e})
       IN /\ queue' = q2
          /\ ptr' = Erase(p2, dead)
          /\ void' = void \ {x \in Elem : ptr'[x] = "absent"}

\* A miss: the element is created with a strong pointer, linked and maintained.
\* An async creator keeps it pinned after the critical section.
Create(e) ==
  /\ ptr[e] = "absent" /\ e \notin held
  /\ Maintain(LinkCold(queue, e), [ptr EXCEPT ![e] = "strong"], e)
  /\ held' = held \union {e}
  /\ pinned' \in {pinned, pinned \union {e}}

\* A hit on a live element.  It is promoted, or strengthened and linked when an
\* earlier shrink dropped it from the queue.
Hit(e) ==
  /\ e \in Present /\ ~Expired(ptr, held, e)
  /\ IF e \in Queued(queue)
     THEN Maintain(Promote(queue, e), ptr, e)
     ELSE Maintain(LinkCold(queue, e), [ptr EXCEPT ![e] = "strong"], e)
  /\ held' = held \union {e}
  /\ UNCHANGED pinned

\* The bucket erases the element: a walk found it expired, or expire(key) hit it.
Delete(e) ==
  /\ e \in Present /\ e \notin pinned
  /\ queue' = Unlink(queue, e)
  /\ ptr' = Erase(ptr, {e})
  /\ void' = void \ {e}
  /\ UNCHANGED <<pinned, held>>

\* A lookup_if_present of a live element leaves the queue alone.
Peek(e) ==
  /\ e \in Present /\ ~Expired(ptr, held, e)
  /\ held' = held \union {e}
  /\ UNCHANGED <<queue, ptr, void, pinned>>

\* The reference of a creator, or of its future, may go with what happens to e.
MayRelease(e) == held' \in {held, held \ {e}}

\* The creator of e is done and drops its pin.
Unpin(e) ==
  /\ e \in pinned
  /\ pinned' = pinned \ {e}
  /\ MayRelease(e)
  /\ UNCHANGED <<queue, ptr, void>>

\* The element expires where it stands: max_age passed, or its creation failed.
Void(e) ==
  /\ e \in Present \ void
  /\ void' = void \union {e}
  /\ MayRelease(e)
  /\ UNCHANGED <<queue, ptr, pinned>>

\* The last reference from outside the cache goes away.
Release(e) ==
  /\ e \in held
  /\ held' = held \ {e}
  /\ UNCHANGED <<queue, ptr, void, pinned>>

Next ==
  \E e \in Elem :
    \/ Create(e)
    \/ Hit(e)
    \/ Peek(e)
    \/ Delete(e)
    \/ Unpin(e)
    \/ Void(e)
    \/ Release(e)

Spec == Init /\ [][Next]_vars

-----------------------------------------------------------------------------
\* Balanced: after every operation the hot and the cold list have the same
\* length, give or take one (rebalance_).
Balanced ==
  LET hot == queue.hots
      cold == QSize(queue) - queue.hots
  IN hot - cold \in -1 .. 1

\* QueueLinksLive: the queue links only elements that are in the cache, each
\* one once.  A link to an erased element is a pointer into freed memory, and
\* linking an element twice breaks the list.
QueueLinksLive ==
  /\ Queued(queue) \subseteq Present
  /\ \A i, j \in 1 .. QSize(queue) : queue.order[i] = queue.order[j] => i = j

\* QueuedIsStrong: an element that can still be hit holds its value by a strong
\* pointer exactly while it is on the queue.  Were one strong off the queue,
\* nothing would ever weaken it and its value would never be released; were one
\* weak on the queue, the queue would not keep its value alive.
QueuedIsStrong ==
  \A e \in Present : ptr[e] = "strong" <=> e \in Queued(queue)

\* SizeBound: between operations no more than max_size elements are kept alive
\* by the cache itself (max_size_decorator.h).
SizeBound ==
  /\ QSize(queue) <= MaxSize
  /\ Cardinality({e \in Elem : ptr[e] = "strong"}) <= MaxSize

\* ScanResistance: a new element displaces no live element of the hot zone, so
\* that no scan of new keys, however long, pushes out what is requested often;
\* a hit evicts none either (the comment on base_expire_queue::on_create).  Only
\* the decorators of time and memory can, and then only from the cold end: what
\* they leave of the hot zone keeps its place.
ScanResistance ==
  [][ \A i \in 1 .. queue.hots :
        LET x == queue.order[i]
            Pressed == Pressure /\ QSize(queue') < i
        IN x \notin void =>
             /\ (\E e \in Elem : Create(e)) =>
                  Pressed \/ (i <= QSize(queue') /\ queue'.order[i] = x)
             /\ (\E e \in Elem : Hit(e)) =>
                  (Pressure /\ QSize(queue') <= i) \/ x \in Queued(queue') ]_vars

\* EvictedIsRevived: an element that was evicted while a caller still holds its
\* value is never lost to the cache: it stays present until it is deleted, so a
\* later hit can strengthen it again.
KeepsReferenced ==
  \A e \in Present :
    (e \in held /\ e \notin void /\ ~Delete(e)) => ptr'[e] # "absent"
EvictedIsRevived == [][KeepsReferenced]_vars
=============================================================================
