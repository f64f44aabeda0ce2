------------------------------- MODULE MemUse -------------------------------
(***************************************************************************)
(* Memory accounting (mem_use.h, allocator.h) and the shrink of            *)
(* max_memory.  A block is the value of one element, allocated with its    *)
(* control block by a cache_allocator: it is freed when the element is     *)
(* erased and no caller holds the value.  The counter is atomic but is not *)
(* under the lock of the cache: a block is first deallocated and then      *)
(* subtracted, and callers do so at any time, also after the cache is gone.*)
(*                                                                         *)
(* Adding to the counter, linking the element and reading the counter for  *)
(* the shrink are one step: what other threads subtract in between could   *)
(* as well have been subtracted before.                                    *)
(*                                                                         *)
(* The cache is a synchronous one.  In an asynchronous one an element is   *)
(* linked, and its maintenance reads the counter, before its value is      *)
(* allocated, which then happens without the lock: the counter of a        *)
(* maintenance does not hold what it makes room for.                       *)
(***************************************************************************)
EXTENDS ExpireQueueOps, FiniteSets

CONSTANTS
  Thread, Block, None,
  Size,       \* bytes of a block
  Overhead,   \* bytes of the tracker and of the cache object, never subtracted
  Values,     \* the number of values of uintptr_t, where it wraps
  MaxMem,     \* builder.max_memory()
  Accuracy    \* floats are right to one part in this many

ASSUME NoneAssumption == None \notin Thread \union Block
ASSUME SizeAssumption ==
  /\ Size \in Nat \ {0} /\ Overhead \in Nat \ {0} /\ MaxMem \in Nat /\ Values \in Nat \ {0}
  /\ IsFiniteSet(Block)
  /\ Overhead + Size * Cardinality(Block) < Values
ASSUME AccuracyAssumption == Accuracy \in Nat \ {0}

VARIABLES
  mem,     \* mem_used_ of the tracker
  cache,   \* "open", "closing" (its destructor runs) or "gone"
  lock,    \* the thread inside the cache, or None
  refs,    \* the threads that locked the weak pointer to the tracker
  pc,      \* per thread: "idle", "new", "dead", "subtract"
  blk,     \* per thread the block it allocated or deallocated
  todo,    \* blocks the thread inside the cache has still to deallocate
  place,   \* per block: "free", "raw" (not counted yet), "used", "dead"
  queue,   \* the expire queue, of blocks
  elem,    \* the blocks of elements in the cache
  held     \* the blocks of values that are referenced from outside the cache

vars == <<mem, cache, lock, refs, pc, blk, todo, place, queue, elem, held>>

TypeOK ==
  /\ mem \in 0 .. Values - 1
  /\ cache \in {"open", "closing", "gone"}
  /\ lock \in Thread \union {None} /\ refs \subseteq Thread
  /\ pc \in [Thread -> {"idle", "new", "dead", "subtract"}]
  /\ blk \in [Thread -> Block \union {None}]
  /\ place \in [Block -> {"free", "raw", "used", "dead"}]
  /\ Queued(queue) \subseteq elem
  /\ elem \subseteq Block /\ held \subseteq Block /\ todo \subseteq Block

\* The cache and every locked weak pointer own the tracker.
TrackerAlive == cache # "gone" \/ refs # {}

\* create_mem_tracking: what the tracker itself took is moved onto it.
Init ==
  /\ mem = Overhead
  /\ cache = "open" /\ lock = None /\ refs = {}
  /\ pc = [t \in Thread |-> "idle"] /\ blk = [t \in Thread |-> None]
  /\ todo = {}
  /\ place = [b \in Block |-> "free"]
  /\ queue = EmptyQueue /\ elem = {} /\ held = {}

-----------------------------------------------------------------------------
\* The sizes that maintenance_ of cache_max_mem_decorator may shrink n elements to
\* when cur bytes are in use: in proportion, and cut off to an integer.  Limit and
\* counter become floats, their ratio and its product with n are floats again: five
\* roundings, none off by more than 2^-24 of its value, so that an Accuracy of 2^21
\* covers what the build computes.
Mut_Keeps(n, cur) ==
  IF cur < MaxMem THEN {n}
  ELSE {m \in 0 .. n : /\ (m - 1) * cur * Accuracy <= n * MaxMem * (Accuracy + 1)
                       /\ m * cur * Accuracy > n * MaxMem * (Accuracy - 1)}
Keeps(n, cur) ==
  IF cur < MaxMem THEN {n}
  ELSE {m \in 0 .. n : /\ m * cur * Accuracy <= n * MaxMem * (Accuracy + 1)
                       /\ (m + 1) * cur * Accuracy > n * MaxMem * (Accuracy - 1)}

\* The elements of drop that go, because weakening them expired them.
Mut_Freed(drop, h) == drop
Freed(drop, h) == drop \ h

\* on_create and on_hit with b on the queue q and cur bytes in use.
Maintain(q, b, cur) ==
  \E m \in Keeps(QSize(q), cur) :
    LET q1 == ShrinkTo(q, m)
        dead == Freed(Queued(q) \ Queued(q1), held \union {b})
    IN /\ queue' = q1
       /\ elem' = (elem \union {b}) \ dead
       /\ held' = held \union {b}
       /\ todo' = dead

\* allocate: the parent allocator provides a block for a new element.
Allocate(t, b) ==
  /\ cache = "open" /\ lock = None /\ pc[t] = "idle"
  /\ place[b] = "free"
  /\ lock' = t
  /\ pc' = [pc EXCEPT ![t] = "new"] /\ blk' = [blk EXCEPT ![t] = b]
  /\ place' = [place EXCEPT ![b] = "raw"]
  /\ UNCHANGED <<mem, cache, refs, todo, queue, elem, held>>

\* allocate goes on: add_mem_use; then the element is linked.
Create(t) ==
  /\ pc[t] = "new"
  /\ LET added == (mem + Size) % Values
     IN /\ mem' = added
        /\ Maintain(LinkCold(queue, blk[t]), blk[t], added)
  /\ place' = [place EXCEPT ![blk[t]] = "used"]
  /\ pc' = [pc EXCEPT ![t] = "idle"] /\ blk' = [blk EXCEPT ![t] = None]
  /\ UNCHANGED <<cache, lock, refs>>

\* The create function throws: undo_allocation_ gives the block back.
CreateFails(t) ==
  /\ pc[t] = "new"
  /\ mem' = (mem + Size) % Values
  /\ place' = [place EXCEPT ![blk[t]] = "dead"]
  /\ pc' = [pc EXCEPT ![t] = "dead"]
  /\ UNCHANGED <<cache, lock, refs, blk, todo, queue, elem, held>>

\* A hit on a live element.
Hit(t, b) ==
  /\ cache = "open" /\ lock = None /\ pc[t] = "idle"
  /\ b \in elem /\ b \in Queued(queue) \union held
  /\ lock' = t
  /\ Maintain(IF b \in Queued(queue) THEN Promote(queue, b) ELSE LinkCold(queue, b),
              b, mem)
  /\ UNCHANGED <<mem, cache, refs, pc, blk, place>>

\* A walk erases an expired element, or expire() the element of its key, or the
\* destructor of the cache any element.  A caller may still hold its value.
Erase(t, b) ==
  /\ \/ cache = "open" /\ lock = None
     \/ cache = "closing" /\ lock = t /\ todo = {}
  /\ pc[t] = "idle" /\ b \in elem
  /\ lock' = t
  /\ queue' = Unlink(queue, b)
  /\ elem' = elem \ {b}
  /\ todo' = {b} \ held
  /\ UNCHANGED <<mem, cache, refs, pc, blk, place, held>>

\* deallocate: the parent allocator takes back a block of an erased element.
DropErased(t, b) ==
  /\ lock = t /\ pc[t] = "idle" /\ b \in todo
  /\ todo' = todo \ {b}
  /\ place' = [place EXCEPT ![b] = "dead"]
  /\ pc' = [pc EXCEPT ![t] = "dead"] /\ blk' = [blk EXCEPT ![t] = b]
  /\ UNCHANGED <<mem, cache, lock, refs, queue, elem, held>>

Unlock(t) ==
  /\ lock = t /\ cache = "open" /\ pc[t] = "idle" /\ todo = {}
  /\ lock' = None
  /\ UNCHANGED <<mem, cache, refs, pc, blk, todo, place, queue, elem, held>>

\* The last reference of callers to a value goes; with no element left that is
\* the deallocation of its block.  No lock is involved.
Release(t, b) ==
  /\ pc[t] = "idle" /\ lock # t /\ b \in held
  /\ held' = held \ {b}
  /\ IF b \in elem THEN UNCHANGED <<pc, blk, place>>
     ELSE /\ place' = [place EXCEPT ![b] = "dead"]
          /\ pc' = [pc EXCEPT ![t] = "dead"] /\ blk' = [blk EXCEPT ![t] = b]
  /\ UNCHANGED <<mem, cache, lock, refs, todo, queue, elem>>

\* stats_.lock() of subtract_mem_use: without a tracker nothing is counted.
Mut_LockTracker(t) ==
  /\ pc[t] = "dead"
  /\ pc' = [pc EXCEPT ![t] = "subtract"]
  /\ UNCHANGED <<mem, cache, lock, refs, blk, todo, place, queue, elem, held>>
LockTracker(t) ==
  /\ pc[t] = "dead"
  /\ IF TrackerAlive
     THEN /\ refs' = refs \union {t} /\ pc' = [pc EXCEPT ![t] = "subtract"]
          /\ UNCHANGED <<blk, place>>
     ELSE /\ pc' = [pc EXCEPT ![t] = "idle"] /\ blk' = [blk EXCEPT ![t] = None]
          /\ place' = [place EXCEPT ![blk[t]] = "free"]
          /\ UNCHANGED refs
  /\ UNCHANGED <<mem, cache, lock, todo, queue, elem, held>>

\* fetch_sub, and the reference to the tracker goes.
Mut_Subtracted == (mem - 1) % Values
Subtracted == (mem - Size) % Values
Subtract(t) ==
  /\ pc[t] = "subtract"
  /\ mem' = Subtracted
  /\ refs' = refs \ {t}
  /\ pc' = [pc EXCEPT ![t] = "idle"] /\ blk' = [blk EXCEPT ![t] = None]
  /\ place' = [place EXCEPT ![blk[t]] = "free"]
  /\ UNCHANGED <<cache, lock, todo, queue, elem, held>>

\* The cache is destroyed, by a thread no other one shares it with: its elements
\* first, by Erase, then the owners of the tracker.
Close(t) ==
  /\ cache = "open" /\ lock = None /\ pc[t] = "idle"
  /\ cache' = "closing" /\ lock' = t
  /\ UNCHANGED <<mem, refs, pc, blk, todo, place, queue, elem, held>>

Gone(t) ==
  /\ cache = "closing" /\ lock = t /\ pc[t] = "idle" /\ todo = {} /\ elem = {}
  /\ cache' = "gone" /\ lock' = None
  /\ UNCHANGED <<mem, refs, pc, blk, todo, place, queue, elem, held>>

Next ==
  \E t \in Thread :
    \/ \E b \in Block : Allocate(t, b)
    \/ Create(t)
    \/ CreateFails(t)
    \/ \E b \in Block : Hit(t, b)
    \/ \E b \in Block : Erase(t, b)
    \/ \E b \in Block : DropErased(t, b)
    \/ Unlock(t)
    \/ \E b \in Block : Release(t, b)
    \/ LockTracker(t)
    \/ Subtract(t)
    \/ Close(t)
    \/ Gone(t)

Spec == Init /\ [][Next]_vars

-----------------------------------------------------------------------------
\* Accounted: as long as the tracker lives the counter is exactly the overhead
\* and the blocks that are allocated or whose subtraction is under way, so it
\* never wraps below zero, and never gets to the zero by which the shrink of
\* max_memory would divide (mem_use, cache_allocator).
Accounted ==
  TrackerAlive =>
    mem = Overhead + Size * Cardinality({b \in Block : place[b] \in {"used", "dead"}})

\* TrackerOutlivesUse: a thread that is about to subtract finds the tracker,
\* whenever the cache was destroyed since it freed its block (the weak pointer of
\* cache_allocator).
TrackerOutlivesUse ==
  \A t \in Thread : pc[t] = "subtract" => TrackerAlive

\* QueueFits: after the maintenance of a new element or of a hit, the elements
\* that a synchronous cache keeps alive by itself fit in max_memory, up to the
\* error of the floats and no more, whatever else the counter holds: a shrink that
\* rounds to nothing at all does not add up over creations (maintenance_ of
\* cache_max_mem_decorator).
MaintenanceFits ==
  \A t \in Thread : (Create(t) \/ \E b \in Block : Hit(t, b)) =>
    Size * QSize(queue') * Accuracy <= MaxMem * (Accuracy + 1)
QueueFits == [][MaintenanceFits]_vars

\* ImplementsQueue: the cache with max_memory and its racing counter behaves as
\* ExpireQueue does when any size may be left.
Pointer == [b \in Block |->
  IF b \notin elem THEN "absent"
  ELSE IF b \in Queued(queue) THEN "strong" ELSE "weak"]
EQ == INSTANCE ExpireQueue WITH
  Elem <- Block, MaxSize <- Cardinality(Block), Pressure <- TRUE,
  ptr <- Pointer, void <- {}, pinned <- {}
ImplementsQueue == EQ!Spec
=============================================================================
