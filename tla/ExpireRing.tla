------------------------------- MODULE ExpireRing -------------------------------
(***************************************************************************)
(* The expire queue down to its pointers (expire_queue.h): two rings of    *)
(* doubly linked elements, each with a head, where every pointer carries   *)
(* in its lowest bit the queue it belongs to.  ExpireQueueOps gives the    *)
(* result of each member function; here the loops of these functions take  *)
(* one step for each element they move or drop, and the history variable   *)
(* goal is what ExpireQueueOps says the outcome will be.                   *)
(*                                                                         *)
(* All of it runs under the lock of the cache.  Other threads release      *)
(* values, and time passes, between calls: a loop looks at an element only *)
(* once, so that doing so before or after the loop comes to the same.      *)
(***************************************************************************)
EXTENDS Integers, FiniteSets, ExpireQueueOps

CONSTANTS Elem, None

\* The nodes of the rings; a head is named after the id of its queue.
Ids == {"hot", "cold"}
Node == Elem \union Ids
ASSUME ElemAssumption == IsFiniteSet(Elem) /\ Elem \intersect Ids = {} /\ None \notin Node

VARIABLES
  ring,     \* link_succ_ and link_pred_ of each node: the node, and the bit
  qlen,     \* hot_qlen and cold_qlen
  present,  \* the elements in the cache
  held,     \* the elements whose value a client refers to
  void,     \* the elements that are expired although their value lives
  pinned,   \* the elements that are locked against deletion
  phase,    \* what the code is doing
  then,     \* what it does when rebalance_ is done
  cur,      \* the element of the callback
  shrink,   \* what a decorator shrinks the queue to
  goal      \* history: the queue that the function at work has to produce

queue == <<ring, qlen>>
cache == <<present, held, void, pinned>>
vars == <<queue, cache, phase, then, cur, shrink, goal>>

-----------------------------------------------------------------------------
\* expire_link.

Null == [to |-> None, id |-> "none"]
Link(x, i) == [to |-> x, id |-> i]

Succ(r, x) == r.succ[x].to
Pred(r, x) == r.pred[x].to
IdOf(x) == ring.pred[x].id
Linked(x) == IdOf(x) # "none"

LinkAfter(r, x, before) ==
  LET self == Link(x, r.succ[before].id)
      after == Succ(r, before)
  IN [succ |-> [r.succ EXCEPT ![x] = r.succ[before], ![before] = self],
      pred |-> [r.pred EXCEPT ![x] = r.pred[after], ![after] = self]]

Mut_LinkBefore(r, x, after) ==
  LET self == Link(x, r.succ[after].id)
      before == Pred(r, after)
  IN [succ |-> [r.succ EXCEPT ![x] = self, ![before] = self],
      pred |-> [r.pred EXCEPT ![x] = r.pred[after], ![after] = self]]
LinkBefore(r, x, after) ==
  LET self == Link(x, r.succ[after].id)
      before == Pred(r, after)
  IN [succ |-> [r.succ EXCEPT ![x] = r.succ[before], ![before] = self],
      pred |-> [r.pred EXCEPT ![x] = r.pred[after], ![after] = self]]

Detach(r, x) ==
  [succ |-> [r.succ EXCEPT ![Pred(r, x)] = r.succ[x], ![x] = Null],
   pred |-> [r.pred EXCEPT ![Succ(r, x)] = r.pred[x], ![x] = Null]]

-----------------------------------------------------------------------------
\* The queue that the rings stand for.

Total == qlen["hot"] + qlen["cold"]

\* The i-th node after the head of a queue.
NodeAt(i, h) ==
  LET at[j \in 0 .. Cardinality(Elem) + 1] == IF j = 0 THEN h ELSE Succ(ring, at[j - 1])
  IN at[i]
List(h) == [i \in 1 .. qlen[h] |-> NodeAt(i, h)]
AsQueue == [order |-> List("hot") \o List("cold"), hots |-> qlen["hot"]]

\* A queued element is strong: both change in the same steps.
Expired(e) == e \in void \/ (~Linked(e) /\ e \notin held)

\* cache_impl::erase_if_expired can erase e.
Erasable(e) == Expired(e) /\ e \notin pinned

\* coldest()
Coldest ==
  IF qlen["cold"] > 0 THEN Pred(ring, "cold")
  ELSE IF qlen["hot"] > 0 THEN Pred(ring, "hot") ELSE None

Init ==
  /\ ring = LET own == [x \in Node |-> IF x \in Ids THEN Link(x, x) ELSE Null]
            IN [succ |-> own, pred |-> own]
  /\ qlen = [h \in Ids |-> 0]
  /\ present = {} /\ held = {} /\ void = {} /\ pinned = {}
  /\ phase = "idle" /\ then = "idle" /\ cur = None /\ shrink = [kind |-> "none"]
  /\ goal = EmptyQueue

-----------------------------------------------------------------------------
\* The callbacks of the cache, up to the loops that follow.

\* An element is created; its creator holds its value.
OnCreate(e) ==
  /\ phase = "idle" /\ e \notin present
  /\ ring' = LinkAfter(ring, e, "cold")
  /\ qlen' = [qlen EXCEPT !["cold"] = @ + 1]
  /\ present' = present \union {e} /\ held' = held \union {e} /\ pinned' = pinned \union {e}
  /\ phase' = "fill" /\ then' = "linked" /\ cur' = e
  /\ goal' = LinkCold(goal, e)
  /\ UNCHANGED <<void, shrink>>

\* An element is hit: a value that is in the queue, or that a client holds.
OnHit(e) ==
  /\ phase = "idle" /\ e \in present /\ ~Expired(e)
  /\ IF ~Linked(e)
     THEN /\ ring' = LinkAfter(ring, e, "cold")
          /\ qlen' = [qlen EXCEPT !["cold"] = @ + 1]
          /\ goal' = LinkCold(goal, e)
     ELSE /\ ring' = LinkAfter(Detach(ring, e), e, "hot")
          /\ qlen' = [qlen EXCEPT ![IdOf(e)] = @ - 1, !["hot"] = @ + 1]
          /\ goal' = Promote(goal, e)
  /\ held' = held \union {e} /\ pinned' = pinned \union {e}
  /\ phase' = "fill" /\ then' = "linked" /\ cur' = e
  /\ UNCHANGED <<present, void, shrink>>

\* on_delete takes e off the queue, and e is deleted.
Deleted(e) ==
  /\ present' = present \ {e} /\ held' = held \ {e} /\ void' = void \ {e}
  /\ IF Linked(e)
     THEN ring' = Detach(ring, e) /\ qlen' = [qlen EXCEPT ![IdOf(e)] = @ - 1]
     ELSE UNCHANGED queue

\* A walk, expire() or a sweep erases an element.
OnDelete(e) ==
  /\ phase = "idle" /\ e \in present /\ Erasable(e)
  /\ Deleted(e)
  /\ phase' = "fill" /\ then' = "idle"
  /\ goal' = Unlink(goal, e)
  /\ UNCHANGED <<pinned, cur, shrink>>

-----------------------------------------------------------------------------
\* rebalance_: two loops.

\* From the back of the hot queue to the front of the cold one.
Mut_HotToCold ==
  /\ phase = "fill" /\ qlen["cold"] + 1 < qlen["hot"]
  /\ LET s == Succ(ring, "hot") IN ring' = LinkAfter(Detach(ring, s), s, "cold")
  /\ qlen' = [qlen EXCEPT !["hot"] = @ - 1, !["cold"] = @ + 1]
  /\ UNCHANGED <<cache, phase, then, cur, shrink, goal>>
HotToCold ==
  /\ phase = "fill" /\ qlen["cold"] + 1 < qlen["hot"]
  /\ LET s == Pred(ring, "hot") IN ring' = LinkAfter(Detach(ring, s), s, "cold")
  /\ qlen' = [qlen EXCEPT !["hot"] = @ - 1, !["cold"] = @ + 1]
  /\ UNCHANGED <<cache, phase, then, cur, shrink, goal>>

Filled ==
  /\ phase = "fill" /\ qlen["cold"] + 1 >= qlen["hot"]
  /\ phase' = "promote"
  /\ UNCHANGED <<queue, cache, then, cur, shrink, goal>>

\* From the front of the cold queue to the back of the hot one.
ColdToHot ==
  /\ phase = "promote" /\ qlen["hot"] + 1 < qlen["cold"]
  /\ LET s == Succ(ring, "cold") IN ring' = LinkBefore(Detach(ring, s), s, "hot")
  /\ qlen' = [qlen EXCEPT !["hot"] = @ + 1, !["cold"] = @ - 1]
  /\ UNCHANGED <<cache, phase, then, cur, shrink, goal>>

Rebalanced ==
  /\ phase = "promote" /\ qlen["hot"] + 1 >= qlen["cold"]
  /\ phase' = then
  /\ UNCHANGED <<queue, cache, then, cur, shrink, goal>>

-----------------------------------------------------------------------------
\* cleanup_

StartCleanup ==
  /\ phase = "linked"
  /\ phase' = "cleanup"
  /\ goal' = Cleanup(goal, {e \in present : Erasable(e)})
  /\ UNCHANGED <<queue, cache, then, cur, shrink>>

Mut_CleanupErase ==
  /\ phase = "cleanup" /\ Coldest # None
  /\ Expired(Coldest)
  /\ phase' = "fill" /\ then' = "cleanup"
  /\ IF Erasable(Coldest) THEN Deleted(Coldest) ELSE UNCHANGED <<queue, present, held, void>>
  /\ UNCHANGED <<pinned, cur, shrink, goal>>
CleanupErase ==
  /\ phase = "cleanup" /\ Coldest # None
  /\ Erasable(Coldest) /\ Deleted(Coldest)
  /\ phase' = "fill" /\ then' = "cleanup"
  /\ UNCHANGED <<pinned, cur, shrink, goal>>

CleanupDone ==
  /\ phase = "cleanup"
  /\ Coldest = None \/ (Coldest # None /\ ~Erasable(Coldest))
  /\ phase' = "tidy"
  /\ UNCHANGED <<queue, cache, then, cur, shrink, goal>>

-----------------------------------------------------------------------------
\* The decorators shrink the queue, to a size or while a predicate holds.

ShrinkToSize(n) ==
  /\ phase = "tidy"
  /\ phase' = "drop" /\ shrink' = [kind |-> "size", n |-> n]
  /\ goal' = ShrinkTo(goal, n)
  /\ UNCHANGED <<queue, cache, then, cur>>

ShrinkWhile_(old) ==
  /\ phase = "tidy"
  /\ phase' = "drop" /\ shrink' = [kind |-> "while", old |-> old]
  /\ goal' = ShrinkWhile(goal, old)
  /\ UNCHANGED <<queue, cache, then, cur>>

\* The loops go on with the coldest element.
MustDrop ==
  /\ Coldest # None
  /\ IF shrink.kind = "size" THEN Total > shrink.n ELSE Coldest \in shrink.old

\* weaken(), unlink(), and erase_if_expired(), whose on_delete finds the element
\* on no queue.
Drop ==
  /\ phase = "drop" /\ MustDrop
  /\ LET r == Coldest
         stays == r \in pinned \/ (r \in held /\ r \notin void)
     IN /\ ring' = Detach(ring, r)
        /\ qlen' = [qlen EXCEPT ![IdOf(r)] = @ - 1]
        /\ present' = (IF stays THEN present ELSE present \ {r})
        /\ held' = (IF stays THEN held ELSE held \ {r})
        /\ void' = (IF stays THEN void ELSE void \ {r})
  /\ UNCHANGED <<pinned, phase, then, cur, shrink, goal>>

Dropped ==
  /\ phase = "drop" /\ ~MustDrop
  /\ phase' = "fill" /\ then' = "tidy" /\ shrink' = [kind |-> "none"]
  /\ UNCHANGED <<queue, cache, cur, goal>>

\* The callback returns.  An async creation keeps its element locked.
Done ==
  /\ phase = "tidy"
  /\ phase' = "idle" /\ cur' = None
  /\ pinned' \in {pinned, pinned \ {cur}}
  /\ UNCHANGED <<queue, present, held, void, then, shrink, goal>>

-----------------------------------------------------------------------------
\* Between calls: a client drops its value, an element is expired or grows too
\* old, an async creation ends.

Release(e) ==
  /\ phase = "idle" /\ e \in held \ pinned /\ held' = held \ {e}
  /\ UNCHANGED <<queue, present, void, pinned, phase, then, cur, shrink, goal>>

Void(e) ==
  /\ phase = "idle" /\ e \in present \ void /\ void' = void \union {e}
  /\ UNCHANGED <<queue, present, held, pinned, phase, then, cur, shrink, goal>>

Unpin(e) ==
  /\ phase = "idle" /\ e \in pinned /\ pinned' = pinned \ {e}
  /\ UNCHANGED <<queue, present, held, void, phase, then, cur, shrink, goal>>

Work ==
  \/ HotToCold
  \/ Filled
  \/ ColdToHot
  \/ Rebalanced
  \/ StartCleanup
  \/ CleanupErase
  \/ CleanupDone
  \/ Drop
  \/ Dropped

Next ==
  \/ Work
  \/ \E e \in Elem : OnCreate(e)
  \/ \E e \in Elem : OnHit(e)
  \/ \E e \in Elem : OnDelete(e)
  \/ \E n \in 0 .. Cardinality(Elem) : ShrinkToSize(n)
  \/ \E old \in SUBSET present : ShrinkWhile_(old)
  \/ Done
  \/ \E e \in Elem : Release(e)
  \/ \E e \in Elem : Void(e)
  \/ \E e \in Elem : Unpin(e)

Spec == Init /\ [][Next]_vars

\* The loops run in the thread that holds the lock.
FairSpec == Spec /\ WF_vars(Work)

-----------------------------------------------------------------------------
LinkType == [to : Node, id : Ids] \union {Null}
TypeOK ==
  /\ ring \in [succ : [Node -> LinkType], pred : [Node -> LinkType]]
  /\ qlen \in [Ids -> Nat]
  /\ present \subseteq Elem /\ held \subseteq present /\ void \subseteq present
  /\ pinned \subseteq present /\ cur \in Elem \union {None}
  /\ phase \in {"idle", "fill", "promote", "linked", "cleanup", "tidy", "drop"}
  /\ then \in {"idle", "linked", "cleanup", "tidy"}

\* Rings: after every single move the two rings are closed in both directions,
\* have the length that is counted, and carry the id of their queue in every
\* pointer; an element on no queue has no pointer left, as the assertions of
\* expire_link demand, and an element on one is in the cache.
Rings ==
  /\ TypeOK
  /\ \A h \in Ids :
       /\ \A i \in 1 .. qlen[h] : NodeAt(i, h) \in present
       /\ NodeAt(qlen[h] + 1, h) = h
  /\ \A x \in Node : Linked(x) =>
       /\ ring.succ[x].id = IdOf(x)
       /\ ring.pred[Succ(ring, x)] = Link(x, IdOf(x))
       /\ ring.succ[Pred(ring, x)] = Link(x, IdOf(x))
  /\ \A x \in Elem : ~Linked(x) => ring.succ[x] = Null
  /\ Cardinality({x \in Elem : Linked(x)}) = Total

\* ComputesQueue: each function leaves the queue that ExpireQueueOps says it
\* does: the loops of rebalance_, cleanup_, shrink_to_size_ and shrink_while_,
\* which count with two lengths and work on two rings, are its closed forms.
ComputesQueue == phase \in {"idle", "linked", "tidy"} => AsQueue = goal

\* LoopsEnd: the loops end; cleanup_ does not meet an element again that
\* erase_if_expired said it erased.
LoopsEnd == phase \in {"fill", "promote", "linked", "cleanup", "drop"} ~> phase \in {"tidy", "idle"}
=============================================================================
