--------------------------- MODULE ExpireQueueOps ---------------------------
(***************************************************************************)
(* The expire queue of expire_queue.h as a value.  A queue is a record     *)
(*                                                                         *)
(*   order  the concatenation of the hot list and the cold list, from the  *)
(*          most recently promoted element to the coldest one;             *)
(*   hots   hot_qlen, so that the cold list is what follows position hots. *)
(*                                                                         *)
(* Each operator is one member function of base_expire_queue with its      *)
(* trailing rebalance_().  The loops are given in closed form.             *)
(*                                                                         *)
(* Here and in the other modules a definition whose name starts with Mut_  *)
(* is a deliberately wrong variant of the one that follows it.  No         *)
(* specification uses it; the mutation runs put it in place of the right   *)
(* one to show that a property notices.                                    *)
(***************************************************************************)
EXTENDS Integers, Sequences, SequencesExt

EmptyQueue == [order |-> << >>, hots |-> 0]

QSize(q) == Len(q.order)
Queued(q) == ToSet(q.order)

\* rebalance_ moves elements over the boundary between the two lists until
\* their lengths differ by at most one; it never reorders them.
Mut_RebalanceNever(q) == q
Rebalance(q) ==
  LET n == Len(q.order)
      h == IF 2 * q.hots > n + 1 THEN (n + 1) \div 2
           ELSE IF 2 * q.hots < n - 1 THEN n \div 2
           ELSE q.hots
  IN [q EXCEPT !.hots = h]

Position(q, e) == CHOOSE i \in DOMAIN q.order : q.order[i] = e

\* on_create, and on_hit of an element that is on neither list: the element
\* goes to the top of the cold zone.
Mut_LinkHot(q, e) ==
  Rebalance([order |-> Cons(e, q.order), hots |-> q.hots + 1])
LinkCold(q, e) ==
  Rebalance([order |-> InsertAt(q.order, q.hots + 1, e), hots |-> q.hots])

\* on_hit of a linked element: it moves to the front of the hot zone.
Promote(q, e) ==
  LET i == Position(q, e)
  IN Rebalance([order |-> Cons(e, RemoveAt(q.order, i)),
                hots  |-> IF i <= q.hots THEN q.hots ELSE q.hots + 1])

\* on_delete: the element leaves the list it is on, if it is on one.
Mut_UnlinkNever(q, e) == q
Unlink(q, e) ==
  IF e \notin Queued(q) THEN q
  ELSE LET i == Position(q, e)
       IN Rebalance([order |-> RemoveAt(q.order, i),
                     hots  |-> IF i <= q.hots THEN q.hots - 1 ELSE q.hots])

\* shrink_to_size_: drop the coldest elements until at most n are left.
ShrinkTo(q, n) ==
  IF n >= QSize(q) THEN Rebalance(q)
  ELSE Rebalance([order |-> SubSeq(q.order, 1, n),
                  hots  |-> IF q.hots <= n THEN q.hots ELSE n])

\* The number of elements left when the coldest ones are dropped as long as
\* they are in D.
WarmerThan(q, D) ==
  CHOOSE n \in 0 .. QSize(q) :
    /\ \A i \in n + 1 .. QSize(q) : q.order[i] \in D
    /\ n = 0 \/ q.order[n] \notin D

\* shrink_while_ with a predicate that holds for the elements of D.
ShrinkWhile(q, D) == ShrinkTo(q, WarmerThan(q, D))

\* cleanup_: erase the coldest element as long as it is one of D, the elements
\* that are expired and not pinned.
Cleanup(q, D) == ShrinkWhile(q, D)
=============================================================================
