---------------------------- MODULE Reentrant_proofs ----------------------------
(***************************************************************************)
(* For any number of threads, keys and caches, and create functions nested *)
(* to any depth, the state of Reentrant keeps its types, no thread keeps   *)
(* the lock of a deferred cache while it waits or creates, and no create   *)
(* function runs twice at a time for one key.  When create functions call  *)
(* down, nobody waits in a circle.                                         *)
(***************************************************************************)
EXTENDS Reentrant, FiniteSetTheorems, TLAPS

\* For the least of a set of numbers.
QueueFacts == INSTANCE ExpireQueueOps_proofs

\* What a suspended call is, and that it is back in its create function.
LEMMA SuspendedStack ==
  ASSUME NEW s \in Seq(Suspended)
  PROVE  /\ s # <<>> => Head(s) \in Suspended /\ Tail(s) \in Seq(Suspended)
         /\ \A f \in Suspended : <<f>> \o s \in Seq(Suspended)
OBVIOUS

\* A call that returns leaves a frame of the right type, which is idle or in a
\* create function.
LEMMA ReturnTypes ==
  ASSUME TypeOK, NEW t \in Threads, Return(t)
  PROVE  /\ frame' \in [Threads -> Frame \union {Idle}]
         /\ below' \in [Threads -> Seq(Suspended)]
         /\ frame'[t].at \in {"idle", "create"}
         /\ \A u \in Threads \ {t} : frame'[u] = frame[u]
<1>1. below[t] \in Seq(Suspended) /\ frame \in [Threads -> Frame \union {Idle}]
  BY DEF TypeOK
<1>2. CASE below[t] = <<>>
  <2>1. frame' = [frame EXCEPT ![t] = Idle] /\ below' = below /\ Idle.at = "idle"
    BY <1>2 DEF Return, Idle
  <2> QED
    BY <1>1, <2>1 DEF TypeOK
<1>3. CASE below[t] # <<>>
  <2> DEFINE h == Head(below[t]) r == Tail(below[t])
  <2>1. h \in Suspended /\ r \in Seq(Suspended)
    BY <1>1, <1>3, SuspendedStack
  <2>2. frame' = [frame EXCEPT ![t] = h] /\ below' = [below EXCEPT ![t] = r]
    BY <1>3 DEF Return
  <2> HIDE DEF h, r
  <2>3. h \in Frame /\ h.at = "create"
    BY <2>1 DEF Suspended
  <2> QED
    BY <1>1, <2>1, <2>2, <2>3 DEF TypeOK
<1> QED
  BY <1>2, <1>3

\* Waking the waiting threads keeps their types.
LEMMA WakeTypes ==
  ASSUME NEW fr \in [Threads -> Frame \union {Idle}], NEW k \in Keys
  PROVE  /\ Wake(fr, k) \in [Threads -> Frame \union {Idle}]
         /\ \A t \in Threads : fr[t].at # "wait" => Wake(fr, k)[t] = fr[t]
<1> SUFFICES ASSUME NEW t \in Threads
             PROVE  /\ Wake(fr, k)[t] \in Frame \union {Idle}
                    /\ fr[t].at # "wait" => Wake(fr, k)[t] = fr[t]
  BY DEF Wake
<1>1. fr[t] = Idle => fr[t].at = "idle"
  BY DEF Idle
<1> QED
  BY <1>1 DEF Wake, Frame

\* The initial state has the right types.
LEMMA InitTypes == Init => TypeOK
BY DEF Init, TypeOK

\* A frame in use has a key.
LEMMA Busy ==
  ASSUME TypeOK, NEW t \in Threads, frame[t].at # "idle"
  PROVE  /\ frame[t] \in Frame /\ KeyAt(t) \in Keys /\ Cache(t) \in Caches
         /\ kind[Cache(t)] \in Kinds
BY KeysAssumption DEF TypeOK, Idle, Frame, KeyAt, Cache

\* Every step keeps the types.
LEMMA StepTypes == ASSUME TypeOK, [Next]_vars PROVE TypeOK'
<1> USE DEF At
<1>1. ASSUME NEW t \in Threads, NEW k \in Keys, Call(t, k) PROVE TypeOK'
  <2>1. Begin(k) \in Frame
    BY DEF Begin, Frame
  <2> QED BY <1>1, <2>1 DEF Call, TypeOK
<1>2. ASSUME NEW t \in Threads, Lock(t) PROVE TypeOK'
  <2>1. frame[t] \in Frame /\ Cache(t) \in Caches
    BY <1>2, Busy DEF Lock
  <2>2. frame' \in [Threads -> Frame \union {Idle}]
    BY <1>2, <2>1 DEF Lock, GoTo, TypeOK, Frame
  <2> QED BY <1>2, <2>1, <2>2 DEF Lock, TypeOK
<1>3. ASSUME NEW t \in Threads, Found(t) PROVE TypeOK'
  BY <1>3, ReturnTypes, Busy DEF Found, Unlock, TypeOK
<1>4. ASSUME NEW t \in Threads, Join(t) PROVE TypeOK'
  <2>1. frame[t] \in Frame
    BY <1>4, Busy DEF Join
  <2>2. frame' \in [Threads -> Frame \union {Idle}]
    BY <1>4, <2>1 DEF Join, GoTo, TypeOK, Frame
  <2> QED BY <1>4, <2>2, Busy DEF Join, Unlock, TypeOK
<1>5. ASSUME NEW t \in Threads, CreateLocked(t) PROVE TypeOK'
  <2>1. frame[t] \in Frame /\ Needs[KeyAt(t)] \in SUBSET Keys
    BY <1>5, Busy, KeysAssumption DEF CreateLocked
  <2>2. frame' \in [Threads -> Frame \union {Idle}]
    BY <1>5, <2>1 DEF CreateLocked, TypeOK, Frame
  <2> QED BY <1>5, <2>2 DEF CreateLocked, TypeOK
<1>6. ASSUME NEW t \in Threads, CreateDeferred(t) PROVE TypeOK'
  <2>1. frame[t] \in Frame /\ KeyAt(t) \in Keys /\ Cache(t) \in Caches
    BY <1>6, Busy DEF CreateDeferred
  <2>2. frame' \in [Threads -> Frame \union {Idle}]
    BY <1>6, <2>1 DEF CreateDeferred, TypeOK, Frame
  <2> QED BY <1>6, <2>1, <2>2 DEF CreateDeferred, Unlock, Put, TypeOK
<1>7. ASSUME NEW t \in Threads, Start(t) PROVE TypeOK'
  <2>1. frame[t] \in Frame /\ KeyAt(t) \in Keys /\ Needs[KeyAt(t)] \in SUBSET Keys
    BY <1>7, Busy, KeysAssumption DEF Start
  <2>2. frame' \in [Threads -> Frame \union {Idle}]
    BY <1>7, <2>1 DEF Start, TypeOK, Frame
  <2> QED BY <1>7, <2>1, <2>2 DEF Start, TypeOK
<1>8. ASSUME NEW t \in Threads, NEW k \in Keys, Nest(t, k) PROVE TypeOK'
  <2> DEFINE f == [frame[t] EXCEPT !.todo = @ \ {k}]
  <2>1. frame[t] \in Frame /\ Begin(k) \in Frame
    BY <1>8, Busy DEF Nest, Begin, Frame
  <2>2. f \in Suspended
    BY <1>8, <2>1 DEF Nest, Suspended, Frame
  <2>3. below' = [below EXCEPT ![t] = <<f>> \o below[t]]
    BY <1>8 DEF Nest
  <2> HIDE DEF f
  <2>4. <<f>> \o below[t] \in Seq(Suspended)
    BY <2>2, SuspendedStack DEF TypeOK
  <2>5. below' \in [Threads -> Seq(Suspended)]
    BY <2>3, <2>4 DEF TypeOK
  <2> QED BY <1>8, <2>1, <2>5 DEF Nest, TypeOK
<1>9. ASSUME NEW t \in Threads, CreatedLocked(t) PROVE TypeOK'
  BY <1>9, ReturnTypes, Busy DEF CreatedLocked, Created, Unlock, Put, TypeOK
<1>10. ASSUME NEW t \in Threads, CreatedFuture(t) PROVE TypeOK'
  <2>1. frame[t] \in Frame /\ KeyAt(t) \in Keys /\ Cache(t) \in Caches
    BY <1>10, Busy DEF CreatedFuture, Created
  <2>2. frame' \in [Threads -> Frame \union {Idle}]
    BY <1>10, <2>1 DEF CreatedFuture, GoTo, TypeOK, Frame
  <2> QED BY <1>10, <2>1, <2>2 DEF CreatedFuture, Unlock, Put, TypeOK
<1>11. ASSUME NEW t \in Threads, CreatedDeferred(t) PROVE TypeOK'
  <2> DEFINE fr == [frame EXCEPT ![t].at = "wait"]
  <2>1. frame[t] \in Frame /\ KeyAt(t) \in Keys
    BY <1>11, Busy DEF CreatedDeferred, Created
  <2>2. fr \in [Threads -> Frame \union {Idle}]
    BY <2>1 DEF TypeOK, Frame
  <2>3. frame' = Wake(fr, KeyAt(t))
    BY <1>11 DEF CreatedDeferred
  <2> HIDE DEF fr
  <2>4. frame' \in [Threads -> Frame \union {Idle}]
    BY <2>1, <2>2, <2>3, WakeTypes
  <2> QED BY <1>11, <2>1, <2>4 DEF CreatedDeferred, TypeOK
<1>12. ASSUME NEW k \in Keys, Complete(k) PROVE TypeOK'
  <2>1. frame' \in [Threads -> Frame \union {Idle}]
    BY <1>12, WakeTypes DEF Complete, TypeOK
  <2> QED BY <1>12, <2>1 DEF Complete, TypeOK
<1>13. ASSUME NEW t \in Threads, Joined(t) PROVE TypeOK'
  BY <1>13, ReturnTypes DEF Joined, TypeOK
<1>14. ASSUME NEW t \in Threads, Resolve(t) PROVE TypeOK'
  BY <1>14, ReturnTypes, Busy DEF Resolve, Unlock, Put, TypeOK
<1>15. ASSUME NEW k \in Keys, Drop(k) PROVE TypeOK'
  BY <1>15 DEF Drop, TypeOK
<1>16. CASE UNCHANGED vars
  BY <1>16 DEF vars, TypeOK
<1> QED
  BY <1>1, <1>2, <1>3, <1>4, <1>5, <1>6, <1>7, <1>8, <1>9, <1>10, <1>11, <1>12, <1>13,
     <1>14, <1>15, <1>16 DEF Next, Step

-----------------------------------------------------------------------------
\* Who holds the lock of a deferred cache is in the middle of a critical
\* section of that cache.
Section(t, c) == frame[t].at \in {"walk", "resolve"} /\ frame[t].key \in Keys /\ Cache(t) = c
Short ==
  \A c \in Caches, t \in Threads : (kind[c] = "deferred" /\ lock[c] = t) => Section(t, c)

\* A step that takes no lock and moves no thread that keeps one.
LEMMA StaysShort ==
  ASSUME Short, kind' = kind,
         \A c \in Caches : lock'[c] = lock[c] \/ lock'[c] = None,
         \A c \in Caches, t \in Threads :
           (kind[c] = "deferred" /\ Section(t, c) /\ lock'[c] = t) => frame'[t] = frame[t]
  PROVE  Short'
<1> SUFFICES ASSUME NEW c \in Caches, NEW t \in Threads, kind[c] = "deferred", lock'[c] = t
             PROVE  Section(t, c)'
  BY DEF Short
<1>1. t # None
  BY KeysAssumption
<1>2. lock[c] = t /\ Section(t, c)
  BY <1>1 DEF Short
<1>3. frame'[t] = frame[t]
  BY <1>2
<1> QED
  BY <1>2, <1>3 DEF Section, Cache

\* A thread outside all sections may do as it likes.
LEMMA OutsideShort ==
  ASSUME Short, NEW t \in Threads, frame[t].at \notin {"walk", "resolve"}, kind' = kind,
         \A c \in Caches : lock'[c] = lock[c] \/ lock'[c] = None,
         \A u \in Threads \ {t} : frame[u].at \in {"walk", "resolve"} => frame'[u] = frame[u]
  PROVE  Short'
<1>1. \A c \in Caches, u \in Threads :
        (kind[c] = "deferred" /\ Section(u, c) /\ lock'[c] = u) => frame'[u] = frame[u]
  BY DEF Section
<1> QED
  BY <1>1, StaysShort

\* So may one that unlocks the cache it is in.
LEMMA UnlockShort ==
  ASSUME TypeOK, Short, NEW t \in Threads, Unlock(t), kind' = kind,
         \A u \in Threads \ {t} : frame'[u] = frame[u]
  PROVE  Short'
<1>1. \A c \in Caches : lock'[c] = lock[c] \/ lock'[c] = None
  BY DEF Unlock, TypeOK
<1>2. \A c \in Caches, u \in Threads :
        (kind[c] = "deferred" /\ Section(u, c) /\ lock'[c] = u) => frame'[u] = frame[u]
  BY KeysAssumption DEF Unlock, TypeOK, Section
<1> QED
  BY <1>1, <1>2, StaysShort

\* Every step keeps what LocksAreShort rests on.
LEMMA StepShort == ASSUME TypeOK, Short, [Next]_vars PROVE Short'
<1> USE DEF At
<1>0. frame \in [Threads -> Frame \union {Idle}]
  BY DEF TypeOK
<1>1. ASSUME NEW t \in Threads, NEW k \in Keys, Call(t, k) PROVE Short'
  BY <1>0, <1>1, OutsideShort DEF Call
<1>2. ASSUME NEW t \in Threads, Lock(t) PROVE Short'
  <2>1. frame[t] \in Frame /\ KeyAt(t) \in Keys /\ Cache(t) \in Caches
    BY <1>2, Busy DEF Lock
  <2>2. /\ frame'[t].at \in {"walk", "resolve"} /\ frame'[t].key = frame[t].key
        /\ \A u \in Threads \ {t} : frame'[u] = frame[u]
    BY <1>0, <1>2, <2>1 DEF Lock, GoTo, Frame
  <2>3. \A c \in Caches : lock'[c] = IF c = Cache(t) THEN t ELSE lock[c]
    BY <1>2, <2>1 DEF Lock, TypeOK
  <2> SUFFICES ASSUME NEW c \in Caches, NEW u \in Threads, kind[c] = "deferred", lock'[c] = u
               PROVE  Section(u, c)'
    BY <1>2 DEF Short, Lock
  <2>4. CASE c = Cache(t)
    BY <2>1, <2>2, <2>3, <2>4 DEF Section, Cache, KeyAt
  <2>5. CASE c # Cache(t)
    <3>1. Section(u, c) /\ u # t
      BY <1>2, <2>3, <2>5 DEF Short, Section, Lock
    <3> QED BY <2>2, <3>1 DEF Section, Cache
  <2> QED BY <2>4, <2>5
<1>3. ASSUME NEW t \in Threads, Found(t) PROVE Short'
  BY <1>3, ReturnTypes, UnlockShort DEF Found
<1>4. ASSUME NEW t \in Threads, Join(t) PROVE Short'
  BY <1>0, <1>4, UnlockShort DEF Join, GoTo
<1>5. ASSUME NEW t \in Threads, CreateLocked(t) PROVE Short'
  <2>1. \A c \in Caches : ~(kind[c] = "deferred" /\ Section(t, c))
    BY <1>5 DEF CreateLocked, Section, KindAt
  <2>2. \A u \in Threads \ {t} : frame'[u] = frame[u]
    BY <1>0, <1>5 DEF CreateLocked
  <2> QED BY <1>5, <2>1, <2>2, StaysShort DEF CreateLocked
<1>6. ASSUME NEW t \in Threads, CreateDeferred(t) PROVE Short'
  BY <1>0, <1>6, UnlockShort DEF CreateDeferred
<1>7. ASSUME NEW t \in Threads, Start(t) PROVE Short'
  BY <1>0, <1>7, OutsideShort DEF Start
<1>8. ASSUME NEW t \in Threads, NEW k \in Keys, Nest(t, k) PROVE Short'
  BY <1>0, <1>8, OutsideShort DEF Nest
<1>9. ASSUME NEW t \in Threads, CreatedLocked(t) PROVE Short'
  BY <1>9, ReturnTypes, UnlockShort DEF CreatedLocked
<1>10. ASSUME NEW t \in Threads, CreatedFuture(t) PROVE Short'
  BY <1>0, <1>10, UnlockShort DEF CreatedFuture, GoTo
<1>11. ASSUME NEW t \in Threads, CreatedDeferred(t) PROVE Short'
  <2> DEFINE fr == [frame EXCEPT ![t].at = "wait"]
  <2>1. frame[t] \in Frame /\ KeyAt(t) \in Keys
    BY <1>11, Busy DEF CreatedDeferred, Created
  <2>2. fr \in [Threads -> Frame \union {Idle}] /\ \A u \in Threads \ {t} : fr[u] = frame[u]
    BY <2>1 DEF TypeOK, Frame
  <2>3. frame' = Wake(fr, KeyAt(t))
    BY <1>11 DEF CreatedDeferred
  <2> HIDE DEF fr
  <2>4. \A u \in Threads \ {t} : frame[u].at \in {"walk", "resolve"} => frame'[u] = frame[u]
    BY <2>1, <2>2, <2>3, WakeTypes
  <2> QED BY <1>11, <2>4, OutsideShort DEF CreatedDeferred, Created
<1>12. ASSUME NEW k \in Keys, Complete(k) PROVE Short'
  <2>1. \A u \in Threads : frame[u].at \in {"walk", "resolve"} => frame'[u] = frame[u]
    BY <1>0, <1>12, WakeTypes DEF Complete
  <2> QED BY <1>12, <2>1, StaysShort DEF Complete, Section
<1>13. ASSUME NEW t \in Threads, Joined(t) PROVE Short'
  BY <1>13, ReturnTypes, OutsideShort DEF Joined
<1>14. ASSUME NEW t \in Threads, Resolve(t) PROVE Short'
  <2>1. kind' = kind /\ Unlock(t) /\ Return(t)
    BY <1>14 DEF Resolve
  <2> QED BY <2>1, ReturnTypes, UnlockShort
<1>15. ASSUME NEW k \in Keys, Drop(k) PROVE Short'
  BY <1>15, StaysShort DEF Drop
<1>16. CASE UNCHANGED vars
  BY <1>16, StaysShort DEF vars
<1> QED
  BY <1>1, <1>2, <1>3, <1>4, <1>5, <1>6, <1>7, <1>8, <1>9, <1>10, <1>11, <1>12, <1>13,
     <1>14, <1>15, <1>16 DEF Next, Step

\* At first no lock is taken.
LEMMA InitShort == Init => Short
BY KeysAssumption DEF Init, Short

\* It implies LocksAreShort.
LEMMA ShortLocks == ASSUME TypeOK, Short PROVE LocksAreShort
BY DEF TypeOK, Short, LocksAreShort, Section, Cache

-----------------------------------------------------------------------------
\* The state of the calls keeps its types: in particular, what a call returns
\* to is a create function.
THEOREM ReentrantTypes == Spec => []TypeOK
<1>1. TypeOK /\ [Next]_vars => TypeOK'
  BY StepTypes
<1> QED
  BY InitTypes, <1>1, PTL DEF Spec

\* No thread keeps the lock of a deferred cache while it waits for a future or
\* runs a create function, however deep the create functions nest.
THEOREM NoLockInCreation == Spec => []LocksAreShort
<1>1. TypeOK /\ Short /\ [Next]_vars => Short'
  BY StepShort
<1>2. TypeOK /\ Short => LocksAreShort
  BY ShortLocks
<1> QED
  BY InitShort, ReentrantTypes, <1>1, <1>2, PTL DEF Spec

-----------------------------------------------------------------------------
\* The calls of a thread, counted from the outermost: those below the innermost
\* stay where they are when a call is made or returns.
Height(t) == Len(below[t])
Depths(t) == 0 .. Height(t)
Level(t, d) == IF d = Height(t) THEN frame[t] ELSE below[t][Height(t) - d]

\* A call holds the lock of cache c, runs the deferred future of k, or is the one
\* that linked it.
Holds(f, c) ==
  /\ f.at \in {"walk", "resolve", "create"} /\ CacheOf[f.key] = c
  /\ f.at = "create" => kind[c] # "deferred"
RunsFuture(f, k) == f.at = "create" /\ f.key = k /\ kind[CacheOf[k]] = "deferred"
Linked(f, k) ==
  /\ f.at \in {"wait", "create", "relock", "resolve"} /\ f.mine = TRUE
  /\ f.key = k /\ kind[CacheOf[k]] = "deferred"

Holder(t, d, c) == d \in Depths(t) /\ Holds(Level(t, d), c)
Runner(t, d, k) == d \in Depths(t) /\ RunsFuture(Level(t, d), k)
Linker(t, d, k) == d \in Depths(t) /\ Linked(Level(t, d), k)

\* A lock is held by one call, a deferred future is run by one call and has been
\* linked by one; whoever linked it finds it in its place when it locks again.
Locked ==
  /\ \A t \in Threads, d \in Nat, c \in Caches : Holder(t, d, c) => lock[c] = t
  /\ \A t \in Threads, d, e \in Nat, c \in Caches : Holder(t, d, c) /\ Holder(t, e, c) => d = e
Running ==
  /\ \A t \in Threads, d \in Nat, k \in Keys : Runner(t, d, k) => future[k] = "runs"
  /\ \A t, u \in Threads, d, e \in Nat, k \in Keys :
       Runner(t, d, k) /\ Runner(u, e, k) => t = u /\ d = e
Linking ==
  /\ \A t \in Threads, d \in Nat, k \in Keys :
       Linker(t, d, k) =>
         /\ entry[k] = "future"
         /\ Level(t, d).at \in {"relock", "resolve"} => future[k] = "done"
  /\ \A t, u \in Threads, d, e \in Nat, k \in Keys :
       Linker(t, d, k) /\ Linker(u, e, k) => t = u /\ d = e
Ended ==
  \A k \in Keys :
    /\ kind[CacheOf[k]] = "deferred" /\ entry[k] # "future" => future[k] = "done"
    /\ future[k] = "deferred" => kind[CacheOf[k]] = "deferred"
Roles ==
  \A t \in Threads :
    /\ frame[t].at \in {"lock", "walk"} => frame[t].mine = FALSE
    /\ frame[t].at \in {"relock", "resolve"} => frame[t].mine = TRUE

CInv == TypeOK /\ Locked /\ Running /\ Linking /\ Ended /\ Roles

\* The levels of a thread: the innermost is its frame, the others are in their
\* create functions.
LEMMA LevelTypes ==
  ASSUME TypeOK, NEW t \in Threads
  PROVE  /\ Height(t) \in Nat /\ Height(t) \in Depths(t) /\ Level(t, Height(t)) = frame[t]
         /\ \A d \in Depths(t) : /\ d \in Nat /\ d <= Height(t)
                                 /\ Level(t, d) \in Frame \union {Idle}
                                 /\ d # Height(t) => Level(t, d) \in Suspended
<1>1. below[t] \in Seq(Suspended) /\ frame[t] \in Frame \union {Idle} /\ Height(t) \in Nat
  BY DEF TypeOK, Height
<1>2. \A d \in Depths(t) : d # Height(t) => Level(t, d) \in Suspended
  <2> SUFFICES ASSUME NEW d \in Depths(t), d # Height(t) PROVE Level(t, d) \in Suspended
    OBVIOUS
  <2>1. Height(t) - d \in 1 .. Len(below[t])
    BY <1>1 DEF Depths, Height
  <2> QED
    BY <1>1, <2>1 DEF Level
<1>3. Suspended \subseteq Frame
  BY DEF Suspended
<1> QED
  BY <1>1, <1>2, <1>3 DEF Depths, Level

\* A step that neither makes a call nor returns changes the innermost level.
LEMMA TopMoves ==
  ASSUME TypeOK, UNCHANGED below
  PROVE  \A u \in Threads :
           /\ Depths(u)' = Depths(u) /\ Height(u)' = Height(u)
           /\ \A d \in Depths(u) : Level(u, d)' = IF d = Height(u) THEN frame'[u] ELSE Level(u, d)
BY DEF Depths, Height, Level

\* A call that returns takes the innermost level away.
LEMMA Returns ==
  ASSUME TypeOK, NEW t \in Threads, Return(t)
  PROVE  \A u \in Threads : \A d \in Depths(u)' :
           \/ u = t /\ Level(u, d)' = Idle /\ Height(u)' = 0
           \/ d \in Depths(u) /\ Level(u, d)' = Level(u, d) /\ (u = t => d # Height(t))
<1> SUFFICES ASSUME NEW u \in Threads, NEW d \in Depths(u)'
             PROVE \/ u = t /\ Level(u, d)' = Idle /\ Height(u)' = 0
                   \/ d \in Depths(u) /\ Level(u, d)' = Level(u, d) /\ (u = t => d # Height(t))
  OBVIOUS
<1>1. /\ below \in [Threads -> Seq(Suspended)] /\ frame \in [Threads -> Frame \union {Idle}]
      /\ Height(u) \in Nat
  BY DEF TypeOK, Height
<1>2. CASE u # t
  <2>1. below'[u] = below[u] /\ frame'[u] = frame[u]
    BY <1>1, <1>2 DEF Return
  <2> QED
    BY <1>2, <2>1 DEF Depths, Height, Level
<1>3. CASE u = t /\ below[t] = <<>>
  <2>1. below' = below /\ frame'[t] = Idle /\ Height(t) = 0
    BY <1>1, <1>3 DEF Return, Height
  <2> QED
    BY <1>3, <2>1 DEF Depths, Height, Level
<1>4. CASE u = t /\ below[t] # <<>>
  <2> DEFINE s == below[t]
  <2>1. s \in Seq(Suspended) /\ s # <<>> /\ Len(s) \in Nat \ {0}
    BY <1>1, <1>4
  <2>2. below'[t] = Tail(s) /\ frame'[t] = Head(s)
    BY <1>1, <1>4 DEF Return
  <2>3. Len(Tail(s)) = Len(s) - 1 /\ \A i \in 1 .. Len(s) - 1 : Tail(s)[i] = s[i + 1]
    BY <2>1
  <2>4. Head(s) = s[1]
    BY <2>1
  <2>5. Height(t) = Len(s) /\ Height(t)' = Len(s) - 1 /\ d \in 0 .. Len(s) - 1
    BY <1>4, <2>2, <2>3 DEF Height, Depths
  <2>6. Level(t, d) = s[Len(s) - d]
    BY <2>1, <2>5 DEF Level
  <2>7. CASE d = Len(s) - 1
    <3>1. Level(t, d)' = Head(s) /\ Len(s) - d = 1
      BY <2>1, <2>2, <2>5, <2>7 DEF Level
    <3> QED
      BY <1>4, <2>1, <2>4, <2>5, <2>6, <3>1 DEF Depths
  <2>8. CASE d # Len(s) - 1
    <3>1. Level(t, d)' = Tail(s)[Len(s) - 1 - d] /\ Len(s) - 1 - d \in 1 .. Len(s) - 1
      BY <2>1, <2>2, <2>5, <2>8 DEF Level
    <3>2. Tail(s)[Len(s) - 1 - d] = s[Len(s) - d]
      <4> DEFINE i == Len(s) - 1 - d
      <4>1. i \in 1 .. Len(s) - 1
        BY <3>1
      <4>2. i + 1 = Len(s) - d
        BY <2>1, <2>5
      <4>3. Tail(s)[i] = s[i + 1]
        BY <2>3, <4>1
      <4> QED
        BY <4>2, <4>3
    <3> QED
      BY <1>4, <2>1, <2>5, <2>6, <3>1, <3>2 DEF Depths
  <2> QED
    BY <2>7, <2>8
<1> QED
  BY <1>2, <1>3, <1>4

\* The levels below it stay.
LEMMA ReturnStays ==
  ASSUME TypeOK, NEW t \in Threads, Return(t)
  PROVE  \A u \in Threads : \A d \in Depths(u) :
           ~(u = t /\ d = Height(t)) => d \in Depths(u)' /\ Level(u, d)' = Level(u, d)
<1> SUFFICES ASSUME NEW u \in Threads, NEW d \in Depths(u), ~(u = t /\ d = Height(t))
             PROVE  d \in Depths(u)' /\ Level(u, d)' = Level(u, d)
  OBVIOUS
<1>1. /\ below \in [Threads -> Seq(Suspended)] /\ frame \in [Threads -> Frame \union {Idle}]
      /\ Height(u) \in Nat /\ Height(t) = Len(below[t]) /\ d \in 0 .. Height(u)
  BY DEF TypeOK, Height, Depths
<1>2. CASE u # t
  <2>1. below'[u] = below[u] /\ frame'[u] = frame[u]
    BY <1>1, <1>2 DEF Return
  <2> QED
    BY <1>2, <2>1 DEF Depths, Height, Level
<1>3. CASE u = t
  <2>1. below[t] # <<>>
    BY <1>1, <1>3
  <2>2. below'[t] = Tail(below[t])
    BY <1>1, <2>1 DEF Return
  <2>3. Height(t)' = Height(t) - 1
    BY <1>1, <2>1, <2>2 DEF Height
  <2>4. d \in Depths(t)'
    BY <1>1, <1>3, <2>1, <2>3 DEF Depths
  <2>5. Level(t, d)' # Idle
    <3>1. frame'[t] = Head(below[t]) /\ Head(below[t]) \in Suspended
      BY <1>1, <2>1, SuspendedStack DEF Return
    <3>2. Tail(below[t]) \in Seq(Suspended) /\ Len(Tail(below[t])) = Height(t) - 1
      BY <1>1, <2>1, SuspendedStack
    <3>3. CASE d = Height(t) - 1
      BY <2>3, <3>1, <3>3 DEF Level, Suspended, Idle
    <3>4. CASE d # Height(t) - 1
      <4> DEFINE i == Height(t) - 1 - d
      <4>1. i \in 1 .. Len(Tail(below[t]))
        BY <1>1, <1>3, <3>2, <3>4
      <4>2. Level(t, d)' = Tail(below[t])[i]
        BY <2>2, <2>3, <3>4 DEF Level
      <4>3. Tail(below[t])[i] \in Suspended
        BY <3>2, <4>1
      <4>4. Idle \notin Suspended
        BY DEF Suspended, Idle
      <4> QED
        BY <4>2, <4>3, <4>4
    <3> QED
      BY <3>3, <3>4
  <2> QED
    BY <1>3, <2>4, <2>5, Returns
<1> QED
  BY <1>2, <1>3

\* A call that is made adds a level.
LEMMA Nests ==
  ASSUME TypeOK, NEW t \in Threads, NEW k \in Keys, Nest(t, k)
  PROVE  /\ Height(t)' = Height(t) + 1
         /\ \A u \in Threads : \A d \in Depths(u)' :
              \/ u = t /\ d = Height(t) + 1 /\ Level(u, d)' = Begin(k)
              \/ /\ d \in Depths(u)
                 /\ Level(u, d)'.at = Level(u, d).at /\ Level(u, d)'.key = Level(u, d).key
                 /\ Level(u, d)'.mine = Level(u, d).mine
                 /\ Level(u, d)'.todo \subseteq Level(u, d).todo
         /\ \A u \in Threads : Depths(u) \subseteq Depths(u)'
<1> DEFINE s == below[t]
           f == [frame[t] EXCEPT !.todo = @ \ {k}]
<1>1. /\ below \in [Threads -> Seq(Suspended)] /\ frame \in [Threads -> Frame \union {Idle}]
      /\ s \in Seq(Suspended) /\ Len(s) \in Nat
  BY DEF TypeOK
<1>2. frame[t] \in Frame /\ frame[t].at = "create"
  BY Busy DEF Nest, At
<1>3. /\ f \in Suspended /\ f.at = frame[t].at /\ f.key = frame[t].key /\ f.mine = frame[t].mine
      /\ f.todo \subseteq frame[t].todo
  BY <1>2 DEF Frame, Suspended
<1>4. below' = [below EXCEPT ![t] = <<f>> \o s] /\ frame' = [frame EXCEPT ![t] = Begin(k)]
  BY DEF Nest
<1> HIDE DEF f
<1>5. /\ Len(<<f>> \o s) = Len(s) + 1 /\ (<<f>> \o s)[1] = f
      /\ \A i \in 2 .. Len(s) + 1 : (<<f>> \o s)[i] = s[i - 1]
  BY <1>1, <1>3
<1>6. Height(t)' = Height(t) + 1 /\ Height(t) = Len(s)
  BY <1>1, <1>4, <1>5 DEF Height
<1>7. ASSUME NEW u \in Threads, NEW d \in Depths(u)', u # t
      PROVE  d \in Depths(u) /\ Level(u, d)' = Level(u, d)
  <2>1. below'[u] = below[u] /\ frame'[u] = frame[u]
    BY <1>1, <1>4, <1>7
  <2> QED
    BY <1>7, <2>1 DEF Depths, Height, Level
<1>8. ASSUME NEW d \in Depths(t)', d # Height(t) + 1
      PROVE  /\ d \in Depths(t)
             /\ Level(t, d)'.at = Level(t, d).at /\ Level(t, d)'.key = Level(t, d).key
             /\ Level(t, d)'.mine = Level(t, d).mine
             /\ Level(t, d)'.todo \subseteq Level(t, d).todo
  <2>1. d \in 0 .. Len(s) /\ d \in Depths(t)
    BY <1>1, <1>6, <1>8 DEF Depths
  <2>2. Level(t, d)' = (<<f>> \o s)[Len(s) + 1 - d]
    BY <1>1, <1>4, <1>6, <2>1 DEF Level
  <2>3. CASE d = Len(s)
    <3>1. Level(t, d)' = f /\ Level(t, d) = frame[t]
      BY <1>1, <1>5, <1>6, <2>2, <2>3 DEF Level
    <3> QED
      BY <1>3, <2>1, <3>1
  <2>4. CASE d # Len(s)
    <3> DEFINE i == Len(s) + 1 - d
    <3>1. i \in 2 .. Len(s) + 1 /\ i - 1 = Len(s) - d
      BY <1>1, <2>1, <2>4
    <3>2. (<<f>> \o s)[i] = s[i - 1]
      BY <1>5, <3>1
    <3>3. Level(t, d) = s[Len(s) - d]
      BY <1>6, <2>4 DEF Level
    <3>4. Level(t, d)' = Level(t, d)
      BY <2>2, <3>1, <3>2, <3>3
    <3> QED
      BY <2>1, <3>4
  <2> QED
    BY <2>3, <2>4
<1>9. ASSUME NEW d \in Depths(t)', d = Height(t) + 1
      PROVE  Level(t, d)' = Begin(k)
  BY <1>1, <1>4, <1>6, <1>9 DEF Level
<1>10. ASSUME NEW u \in Threads PROVE Depths(u) \subseteq Depths(u)'
  <2>1. CASE u = t
    BY <1>1, <1>6, <2>1 DEF Depths
  <2>2. CASE u # t
    BY <1>1, <1>4, <2>2 DEF Depths, Height
  <2> QED
    BY <2>1, <2>2
<1> QED
  BY <1>6, <1>7, <1>8, <1>9, <1>10

\* What the innermost call of a thread is to caches and keys.
LEMMA TopLevel ==
  ASSUME TypeOK, NEW t \in Threads
  PROVE  /\ Height(t) \in Nat
         /\ \A c \in Caches : Holder(t, Height(t), c) <=> Holds(frame[t], c)
         /\ \A k \in Keys : /\ Runner(t, Height(t), k) <=> RunsFuture(frame[t], k)
                            /\ Linker(t, Height(t), k) <=> Linked(frame[t], k)
  BY LevelTypes DEF Holder, Runner, Linker

\* What the other calls are does not change in a step of one innermost call.
LEMMA TopMarks ==
  ASSUME TypeOK, NEW t \in Threads, UNCHANGED <<below, kind>>,
         \A u \in Threads \ {t} : frame'[u] = frame[u]
  PROVE  \A u \in Threads, d \in Nat :
           /\ \A c \in Caches : Holder(u, d, c)' =>
                IF u = t /\ d = Height(t) THEN Holds(frame'[t], c) ELSE Holder(u, d, c)
           /\ \A k \in Keys : Runner(u, d, k)' =>
                IF u = t /\ d = Height(t) THEN RunsFuture(frame'[t], k) ELSE Runner(u, d, k)
           /\ \A k \in Keys : Linker(u, d, k)' =>
                IF u = t /\ d = Height(t) THEN Linked(frame'[t], k)
                ELSE Linker(u, d, k) /\ Level(u, d)'.at = Level(u, d).at
<1> SUFFICES ASSUME NEW u \in Threads, NEW d \in Nat
             PROVE  /\ \A c \in Caches : Holder(u, d, c)' =>
                         IF u = t /\ d = Height(t) THEN Holds(frame'[t], c) ELSE Holder(u, d, c)
                    /\ \A k \in Keys : Runner(u, d, k)' =>
                         IF u = t /\ d = Height(t) THEN RunsFuture(frame'[t], k) ELSE Runner(u, d, k)
                    /\ \A k \in Keys : Linker(u, d, k)' =>
                         IF u = t /\ d = Height(t) THEN Linked(frame'[t], k)
                         ELSE Linker(u, d, k) /\ Level(u, d)'.at = Level(u, d).at
  OBVIOUS
<1>1. /\ Depths(u)' = Depths(u)
      /\ d \in Depths(u) => Level(u, d)' = IF d = Height(u) THEN frame'[u] ELSE Level(u, d)
  BY TopMoves
<1>2. CASE u = t /\ d = Height(t)
  BY <1>1, <1>2 DEF Holder, Runner, Linker, Holds, RunsFuture, Linked
<1>3. CASE ~(u = t /\ d = Height(t))
  <2>1. d \in Depths(u) => Level(u, d)' = Level(u, d)
    BY <1>1, <1>3, LevelTypes
  <2> QED
    BY <1>1, <1>3, <2>1 DEF Holder, Runner, Linker, Holds, RunsFuture, Linked
<1> QED
  BY <1>2, <1>3

\* A call that returns has no part in anything any more.
LEMMA ReturnMarks ==
  ASSUME TypeOK, NEW t \in Threads, Return(t), UNCHANGED kind
  PROVE  \A u \in Threads, d \in Nat :
           /\ \A c \in Caches : Holder(u, d, c)' => Holder(u, d, c) /\ ~(u = t /\ d = Height(t))
           /\ \A k \in Keys : Runner(u, d, k)' => Runner(u, d, k) /\ ~(u = t /\ d = Height(t))
           /\ \A k \in Keys : Linker(u, d, k)' =>
                Linker(u, d, k) /\ ~(u = t /\ d = Height(t)) /\ Level(u, d)'.at = Level(u, d).at
<1> SUFFICES ASSUME NEW u \in Threads, NEW d \in Nat, d \in Depths(u)'
             PROVE  /\ \A c \in Caches : Holder(u, d, c)' => Holder(u, d, c) /\ ~(u = t /\ d = Height(t))
                    /\ \A k \in Keys : Runner(u, d, k)' => Runner(u, d, k) /\ ~(u = t /\ d = Height(t))
                    /\ \A k \in Keys : Linker(u, d, k)' =>
                         Linker(u, d, k) /\ ~(u = t /\ d = Height(t)) /\ Level(u, d)'.at = Level(u, d).at
  BY DEF Holder, Runner, Linker
<1>1. CASE u = t /\ Level(u, d)' = Idle
  <2>1. Level(u, d)'.at = "idle"
    BY <1>1 DEF Idle
  <2> QED
    BY <2>1 DEF Holder, Runner, Linker, Holds, RunsFuture, Linked
<1>2. CASE d \in Depths(u) /\ Level(u, d)' = Level(u, d) /\ (u = t => d # Height(t))
  BY <1>2 DEF Holder, Runner, Linker, Holds, RunsFuture, Linked
<1> QED
  BY <1>1, <1>2, Returns

\* A call that makes another one keeps its part.
LEMMA NestMarks ==
  ASSUME TypeOK, NEW t \in Threads, NEW j \in Keys, Nest(t, j)
  PROVE  \A u \in Threads, d \in Nat :
           /\ \A c \in Caches : Holder(u, d, c)' => Holder(u, d, c)
           /\ \A k \in Keys : Runner(u, d, k)' => Runner(u, d, k)
           /\ \A k \in Keys : Linker(u, d, k)' =>
                Linker(u, d, k) /\ Level(u, d)'.at = Level(u, d).at
<1> SUFFICES ASSUME NEW u \in Threads, NEW d \in Nat, d \in Depths(u)'
             PROVE  /\ \A c \in Caches : Holder(u, d, c)' => Holder(u, d, c)
                    /\ \A k \in Keys : Runner(u, d, k)' => Runner(u, d, k)
                    /\ \A k \in Keys : Linker(u, d, k)' =>
                         Linker(u, d, k) /\ Level(u, d)'.at = Level(u, d).at
  BY DEF Holder, Runner, Linker
<1>0. kind' = kind
  BY DEF Nest
<1>1. CASE Level(u, d)' = Begin(j)
  <2>1. Level(u, d)'.at = "lock"
    BY <1>1 DEF Begin
  <2> QED
    BY <2>1 DEF Holder, Runner, Linker, Holds, RunsFuture, Linked
<1>2. CASE /\ d \in Depths(u)
           /\ Level(u, d)'.at = Level(u, d).at /\ Level(u, d)'.key = Level(u, d).key
           /\ Level(u, d)'.mine = Level(u, d).mine
  BY <1>0, <1>2 DEF Holder, Runner, Linker, Holds, RunsFuture, Linked
<1> QED
  BY <1>1, <1>2, Nests

\* Waking the threads that wait for k gives them no part: those that linked the
\* future lock again.
LEMMA WakeMarks ==
  ASSUME TypeOK, UNCHANGED <<below, kind>>, NEW k \in Keys, frame' = Wake(frame, k)
  PROVE  \A u \in Threads, d \in Nat :
           /\ \A c \in Caches : Holder(u, d, c)' => Holder(u, d, c)
           /\ \A j \in Keys : Runner(u, d, j)' => Runner(u, d, j)
           /\ \A j \in Keys : Linker(u, d, j)' =>
                Linker(u, d, j) /\ (Level(u, d)'.at = Level(u, d).at \/ j = k)
<1> SUFFICES ASSUME NEW u \in Threads, NEW d \in Nat, d \in Depths(u)'
             PROVE  /\ \A c \in Caches : Holder(u, d, c)' => Holder(u, d, c)
                    /\ \A j \in Keys : Runner(u, d, j)' => Runner(u, d, j)
                    /\ \A j \in Keys : Linker(u, d, j)' =>
                         Linker(u, d, j) /\ (Level(u, d)'.at = Level(u, d).at \/ j = k)
  BY DEF Holder, Runner, Linker
<1>1. d \in Depths(u) /\ Level(u, d)' = IF d = Height(u) THEN frame'[u] ELSE Level(u, d)
  BY TopMoves
<1>2. CASE Level(u, d)' = Level(u, d)
  BY <1>1, <1>2 DEF Holder, Runner, Linker, Holds, RunsFuture, Linked
<1>3. CASE Level(u, d)' # Level(u, d)
  <2>1. d = Height(u) /\ Level(u, d)' = frame'[u] /\ Level(u, d) = frame[u]
    BY <1>1, <1>3, LevelTypes
  <2>2. /\ frame[u].at = "wait" /\ frame[u].key = k
        /\ frame'[u] = [frame[u] EXCEPT !.at = IF frame[u].mine THEN "relock" ELSE "joined"]
    BY <1>3, <2>1 DEF Wake
  <2>3. frame[u] \in Frame
    BY <2>2, Busy
  <2>4. frame'[u].at \in {"relock", "joined"} /\ frame'[u].key = k /\ frame'[u].mine = frame[u].mine
    BY <2>2, <2>3 DEF Frame
  <2> QED
    BY <1>1, <2>1, <2>2, <2>4 DEF Holder, Runner, Linker, Holds, RunsFuture, Linked
<1> QED
  BY <1>2, <1>3

-----------------------------------------------------------------------------
\* A lock goes on being held by one call when no other call comes to hold it.
LEMMA LockedKept ==
  ASSUME Locked,
         \A u \in Threads, d \in Nat, c \in Caches :
           Holder(u, d, c)' => Holder(u, d, c) /\ lock'[c] = lock[c]
  PROVE  Locked'
  BY DEF Locked

\* A future goes on being run by one call when no call starts to run it.
LEMMA RunningKept ==
  ASSUME Running,
         \A u \in Threads, d \in Nat, k \in Keys :
           Runner(u, d, k)' => Runner(u, d, k) /\ future'[k] = future[k]
  PROVE  Running'
  BY DEF Running

\* A future goes on being linked by one call, which finds it where it put it.
LEMMA LinkingKept ==
  ASSUME Linking,
         \A u \in Threads, d \in Nat, k \in Keys :
           Linker(u, d, k)' =>
             /\ Linker(u, d, k) /\ entry'[k] = entry[k]
             /\ \/ future'[k] = "done"
                \/ Level(u, d)'.at \notin {"relock", "resolve"}
                \/ Level(u, d)'.at = Level(u, d).at /\ future'[k] = future[k]
  PROVE  Linking'
  BY DEF Linking

\* A call that gives its lock back was the only one that held it.
LEMMA UnlockKept ==
  ASSUME TypeOK, Locked, NEW t \in Threads, Unlock(t),
         Cache(t) \in Caches, Holds(frame[t], Cache(t)),
         \A u \in Threads, d \in Nat, c \in Caches :
           Holder(u, d, c)' => Holder(u, d, c) /\ ~(u = t /\ d = Height(t))
  PROVE  Locked'
<1>1. Holder(t, Height(t), Cache(t)) /\ Height(t) \in Nat
  BY TopLevel
<1>2. ASSUME NEW u \in Threads, NEW d \in Nat, NEW c \in Caches, Holder(u, d, c)'
      PROVE  Holder(u, d, c) /\ lock'[c] = lock[c]
  <2>1. Holder(u, d, c) /\ ~(u = t /\ d = Height(t))
    BY <1>2
  <2>2. c # Cache(t)
    BY <1>1, <2>1 DEF Locked
  <2> QED
    BY <2>1, <2>2 DEF Unlock, TypeOK
<1> QED
  BY <1>2, LockedKept

\* A step that changes neither locks, entries nor futures, and gives no call a
\* part that it did not have.
LEMMA QuietKept ==
  ASSUME CInv, UNCHANGED <<kind, lock, entry, future>>,
         \A u \in Threads, d \in Nat :
           /\ \A c \in Caches : Holder(u, d, c)' => Holder(u, d, c)
           /\ \A k \in Keys : Runner(u, d, k)' => Runner(u, d, k)
           /\ \A k \in Keys : Linker(u, d, k)' =>
                Linker(u, d, k) /\ Level(u, d)'.at = Level(u, d).at
  PROVE  Locked' /\ Running' /\ Linking' /\ Ended'
<1>1. Locked'
  BY LockedKept DEF CInv
<1>2. Running'
  BY RunningKept DEF CInv
<1>3. Linking'
  BY LinkingKept DEF CInv
<1>4. Ended'
  BY DEF CInv, Ended
<1> QED
  BY <1>1, <1>2, <1>3, <1>4

\* Only the role of the thread that takes the step matters.
LEMMA RolesKept ==
  ASSUME CInv, NEW t \in Threads, \A u \in Threads \ {t} : frame'[u] = frame[u],
         frame'[t].at \in {"lock", "walk"} => frame'[t].mine = FALSE,
         frame'[t].at \in {"relock", "resolve"} => frame'[t].mine = TRUE
  PROVE  Roles'
  BY DEF CInv, Roles

\* A call begins, calls another one, or returns without a lock.
LEMMA QuietStep ==
  ASSUME CInv, NEW t \in Threads,
         \/ \E k \in Keys : Call(t, k) \/ Nest(t, k)
         \/ Joined(t)
  PROVE  Locked' /\ Running' /\ Linking' /\ Ended' /\ Roles'
<1>0. TypeOK /\ frame \in [Threads -> Frame \union {Idle}]
  BY DEF CInv, TypeOK
<1>1. ASSUME NEW k \in Keys, Call(t, k)
      PROVE  Locked' /\ Running' /\ Linking' /\ Ended' /\ Roles'
  <2>1. /\ UNCHANGED <<below, kind, lock, entry, future>> /\ frame'[t] = Begin(k)
        /\ \A u \in Threads \ {t} : frame'[u] = frame[u]
    BY <1>0, <1>1 DEF Call
  <2>2. frame'[t].at = "lock" /\ frame'[t].mine = FALSE
    BY <2>1 DEF Begin
  <2>3. \A u \in Threads, d \in Nat :
           /\ \A c \in Caches : Holder(u, d, c)' => Holder(u, d, c)
           /\ \A j \in Keys : Runner(u, d, j)' => Runner(u, d, j)
           /\ \A j \in Keys : Linker(u, d, j)' =>
                Linker(u, d, j) /\ Level(u, d)'.at = Level(u, d).at
    <3>1. /\ \A c \in Caches : ~Holds(frame'[t], c)
          /\ \A j \in Keys : ~RunsFuture(frame'[t], j) /\ ~Linked(frame'[t], j)
      BY <2>2 DEF Holds, RunsFuture, Linked
    <3> QED
      BY <1>0, <2>1, <3>1, TopMarks
  <2> QED
    BY <2>1, <2>2, <2>3, QuietKept, RolesKept
<1>2. ASSUME NEW k \in Keys, Nest(t, k)
      PROVE  Locked' /\ Running' /\ Linking' /\ Ended' /\ Roles'
  <2>1. /\ UNCHANGED <<kind, lock, entry, future>> /\ frame'[t] = Begin(k)
        /\ \A u \in Threads \ {t} : frame'[u] = frame[u]
    BY <1>0, <1>2 DEF Nest
  <2>2. frame'[t].at = "lock" /\ frame'[t].mine = FALSE
    BY <2>1 DEF Begin
  <2>3. \A u \in Threads, d \in Nat :
           /\ \A c \in Caches : Holder(u, d, c)' => Holder(u, d, c)
           /\ \A j \in Keys : Runner(u, d, j)' => Runner(u, d, j)
           /\ \A j \in Keys : Linker(u, d, j)' =>
                Linker(u, d, j) /\ Level(u, d)'.at = Level(u, d).at
    BY <1>0, <1>2, NestMarks
  <2> QED
    BY <2>1, <2>2, <2>3, QuietKept, RolesKept
<1>3. CASE Joined(t)
  <2>1. UNCHANGED <<kind, lock, entry, future>> /\ Return(t)
    BY <1>3 DEF Joined
  <2>2. frame'[t].at \in {"idle", "create"} /\ \A u \in Threads \ {t} : frame'[u] = frame[u]
    BY <1>0, <2>1, ReturnTypes
  <2>3. \A u \in Threads, d \in Nat :
           /\ \A c \in Caches : Holder(u, d, c)' => Holder(u, d, c)
           /\ \A j \in Keys : Runner(u, d, j)' => Runner(u, d, j)
           /\ \A j \in Keys : Linker(u, d, j)' =>
                Linker(u, d, j) /\ Level(u, d)'.at = Level(u, d).at
    BY <1>0, <2>1, ReturnMarks
  <2> QED
    BY <2>1, <2>2, <2>3, QuietKept, RolesKept
<1> QED
  BY <1>1, <1>2, <1>3

\* A call locks its cache, which nobody holds.
LEMMA LockKept ==
  ASSUME CInv, NEW t \in Threads, Lock(t)
  PROVE  Locked' /\ Running' /\ Linking' /\ Ended' /\ Roles'
<1> DEFINE h == Height(t)
<1>0. /\ TypeOK /\ frame \in [Threads -> Frame \union {Idle}] /\ lock \in [Caches -> Threads \union {None}]
      /\ frame[t] \in Frame /\ Cache(t) \in Caches /\ h \in Nat /\ t # None
  BY Busy, LevelTypes, KeysAssumption DEF CInv, TypeOK, Lock
<1>1. /\ UNCHANGED <<below, kind, entry, future>>
      /\ lock[Cache(t)] = None /\ lock' = [lock EXCEPT ![Cache(t)] = t]
      /\ frame' = [frame EXCEPT ![t].at = IF frame[t].at = "lock" THEN "walk" ELSE "resolve"]
      /\ frame[t].at \in {"lock", "relock"}
  BY DEF Lock, GoTo, At
<1>2. /\ \A u \in Threads \ {t} : frame'[u] = frame[u]
      /\ frame'[t].key = frame[t].key /\ frame'[t].mine = frame[t].mine
      /\ frame'[t].at = IF frame[t].at = "lock" THEN "walk" ELSE "resolve"
  BY <1>0, <1>1 DEF Frame
<1>3. \A u \in Threads, d \in Nat :
        /\ \A c \in Caches : Holder(u, d, c)' =>
             IF u = t /\ d = h THEN Holds(frame'[t], c) ELSE Holder(u, d, c)
        /\ \A k \in Keys : Runner(u, d, k)' =>
             IF u = t /\ d = h THEN RunsFuture(frame'[t], k) ELSE Runner(u, d, k)
        /\ \A k \in Keys : Linker(u, d, k)' =>
             IF u = t /\ d = h THEN Linked(frame'[t], k)
             ELSE Linker(u, d, k) /\ Level(u, d)'.at = Level(u, d).at
  BY <1>0, <1>1, <1>2, TopMarks
<1> HIDE DEF h
<1>4. /\ \A c \in Caches : Holds(frame'[t], c) => c = Cache(t)
      /\ \A k \in Keys : ~RunsFuture(frame'[t], k)
      /\ \A k \in Keys : Linked(frame'[t], k) => Linked(frame[t], k) /\ frame[t].at = "relock"
  BY <1>1, <1>2 DEF Holds, RunsFuture, Linked, Cache
<1>5. Locked'
  <2>1. \A u \in Threads, d \in Nat : ~Holder(u, d, Cache(t))
    BY <1>0, <1>1, KeysAssumption DEF CInv, Locked
  <2>2. \A u \in Threads, d \in Nat, c \in Caches :
          Holder(u, d, c)' => IF c = Cache(t) THEN u = t /\ d = h
                              ELSE Holder(u, d, c) /\ lock'[c] = lock[c]
    BY <1>0, <1>1, <1>3, <1>4, <2>1
  <2>3. lock'[Cache(t)] = t
    BY <1>0, <1>1
  <2> QED
    BY <2>2, <2>3 DEF CInv, Locked
<1>6. Running'
  BY <1>1, <1>3, <1>4, RunningKept DEF CInv
<1>7. Linking'
  <2>1. \A k \in Keys : Linked(frame[t], k) /\ frame[t].at = "relock" =>
          Linker(t, h, k) /\ future[k] = "done"
    <3>1. /\ Level(t, h) = frame[t]
          /\ \A k \in Keys : Linker(t, h, k) <=> Linked(frame[t], k)
      BY <1>0, TopLevel, LevelTypes DEF h
    <3> QED
      BY <1>0, <3>1 DEF CInv, Linking
  <2> QED
    BY <1>1, <1>3, <1>4, <2>1, LinkingKept DEF CInv
<1>8. Ended'
  BY <1>1 DEF CInv, Ended
<1>9. Roles'
  BY <1>1, <1>2, RolesKept DEF CInv, Roles
<1> QED
  BY <1>5, <1>6, <1>7, <1>8, <1>9

\* A call gives its lock back and returns: its key was found, made or resolved.
LEMMA ReturnKept ==
  ASSUME CInv, NEW t \in Threads, Found(t) \/ CreatedLocked(t) \/ Resolve(t)
  PROVE  Locked' /\ Running' /\ Linking' /\ Ended' /\ Roles'
<1> DEFINE h == Height(t)
<1>0. /\ TypeOK /\ entry \in [Keys -> {"absent", "future", "value"}]
      /\ frame[t] \in Frame /\ Cache(t) \in Caches /\ KeyAt(t) \in Keys /\ h \in Nat
  BY Busy, LevelTypes DEF CInv, TypeOK, Found, CreatedLocked, Resolve, Created, At
<1>1. UNCHANGED <<kind, future>> /\ Return(t) /\ Unlock(t)
  BY DEF Found, CreatedLocked, Resolve
<1>2. \A u \in Threads, d \in Nat :
        /\ \A c \in Caches : Holder(u, d, c)' => Holder(u, d, c) /\ ~(u = t /\ d = h)
        /\ \A k \in Keys : Runner(u, d, k)' => Runner(u, d, k)
        /\ \A k \in Keys : Linker(u, d, k)' =>
             Linker(u, d, k) /\ ~(u = t /\ d = h) /\ Level(u, d)'.at = Level(u, d).at
  BY <1>0, <1>1, ReturnMarks
<1>3. Locked'
  <2>1. Holds(frame[t], Cache(t))
    BY DEF Found, CreatedLocked, Created, Resolve, At, KindAt, Holds, Cache
  <2> QED
    BY <1>0, <1>1, <1>2, <2>1, UnlockKept DEF CInv
<1>4. Running'
  BY <1>1, <1>2, RunningKept DEF CInv
<1>5. Roles'
  <2>1. frame'[t].at \in {"idle", "create"} /\ \A u \in Threads \ {t} : frame'[u] = frame[u]
    BY <1>0, <1>1, ReturnTypes
  <2> QED
    BY <2>1, RolesKept
<1>6. CASE Found(t)
  <2>1. entry' = entry
    BY <1>6 DEF Found
  <2>2. Linking'
    BY <1>1, <1>2, <2>1, LinkingKept DEF CInv
  <2>3. Ended'
    BY <1>1, <2>1 DEF CInv, Ended
  <2> QED
    BY <1>3, <1>4, <1>5, <2>2, <2>3
<1>7. CASE CreatedLocked(t)
  <2>1. kind[CacheOf[KeyAt(t)]] = "sync" /\ \A k \in Keys \ {KeyAt(t)} : entry'[k] = entry[k]
    BY <1>0, <1>7 DEF CreatedLocked, Put, KindAt, Cache, KeyAt
  <2>2. \A u \in Threads, d \in Nat : ~Linker(u, d, KeyAt(t))
    BY <2>1 DEF Linker, Linked
  <2>3. Linking'
    BY <1>0, <1>1, <1>2, <2>1, <2>2, LinkingKept DEF CInv
  <2>4. Ended'
    BY <1>1, <2>1 DEF CInv, Ended
  <2> QED
    BY <1>3, <1>4, <1>5, <2>3, <2>4
<1>8. CASE Resolve(t)
  <2>0. PICK j \in Keys : j = KeyAt(t)
    BY <1>0
  <2>1. entry' = [entry EXCEPT ![j] = "value"] /\ frame[t].at = "resolve" /\ frame[t].key = j
    BY <1>8, <2>0 DEF Resolve, Put, At, KeyAt
  <2>2. frame[t].mine = TRUE
    BY <2>1 DEF CInv, Roles
  <2>3. kind[CacheOf[j]] = "deferred" => Linker(t, h, j) /\ Level(t, h).at = "resolve"
    <3>1. kind[CacheOf[j]] = "deferred" => Linked(frame[t], j)
      BY <2>1, <2>2 DEF Linked
    <3> QED
      BY <1>0, <2>1, <3>1, TopLevel, LevelTypes
  <2> HIDE DEF h
  <2>4. kind[CacheOf[j]] = "deferred" => future[j] = "done"
    BY <1>0, <2>3 DEF CInv, Linking
  <2>5. \A u \in Threads, d \in Nat : Linker(u, d, j)' => FALSE
    <3> SUFFICES ASSUME NEW u \in Threads, NEW d \in Nat, Linker(u, d, j)' PROVE FALSE
      OBVIOUS
    <3>1. Linker(u, d, j) /\ ~(u = t /\ d = h)
      BY <1>2
    <3>2. kind[CacheOf[j]] = "deferred"
      BY <3>1 DEF Linker, Linked
    <3> QED
      BY <1>0, <2>3, <3>1, <3>2 DEF CInv, Linking
  <2>6. Linking'
    <3>1. \A k \in Keys : k # j => entry'[k] = entry[k]
      BY <1>0, <2>1
    <3> QED
      BY <1>1, <1>2, <2>5, <3>1, LinkingKept DEF CInv
  <2>7. Ended'
    BY <1>0, <1>1, <2>1, <2>4 DEF CInv, Ended
  <2> QED
    BY <1>3, <1>4, <1>5, <2>6, <2>7
<1> QED
  BY <1>6, <1>7, <1>8

\* A lookup that finds a future, or an asynchronous creation of either kind,
\* gives the lock back and goes on to wait.
LEMMA WaitKept ==
  ASSUME CInv, NEW t \in Threads, Join(t) \/ CreateDeferred(t) \/ CreatedFuture(t)
  PROVE  Locked' /\ Running' /\ Linking' /\ Ended' /\ Roles'
<1> DEFINE h == Height(t)
<1>0. /\ TypeOK /\ frame \in [Threads -> Frame \union {Idle}]
      /\ entry \in [Keys -> {"absent", "future", "value"}] /\ future \in [Keys -> {"deferred", "runs", "done"}]
      /\ frame[t] \in Frame /\ Cache(t) \in Caches /\ h \in Nat
  BY Busy, LevelTypes DEF CInv, TypeOK, Join, CreateDeferred, CreatedFuture, Created, At
<1>k. PICK j \in Keys : j = KeyAt(t) /\ j = frame[t].key /\ Cache(t) = CacheOf[j]
  BY Busy DEF CInv, TypeOK, Join, CreateDeferred, CreatedFuture, Created, At, KeyAt, Cache
<1>1. /\ UNCHANGED <<kind, below>> /\ Unlock(t)
      /\ \A u \in Threads \ {t} : frame'[u] = frame[u]
      /\ frame'[t].at \in {"joined", "wait"} /\ frame'[t].key = j
  BY <1>0, <1>k DEF Join, CreateDeferred, CreatedFuture, GoTo, Frame
<1>2. \A u \in Threads, d \in Nat :
        /\ \A c \in Caches : Holder(u, d, c)' =>
             IF u = t /\ d = h THEN Holds(frame'[t], c) ELSE Holder(u, d, c)
        /\ \A k \in Keys : Runner(u, d, k)' =>
             IF u = t /\ d = h THEN RunsFuture(frame'[t], k) ELSE Runner(u, d, k)
        /\ \A k \in Keys : Linker(u, d, k)' =>
             IF u = t /\ d = h THEN Linked(frame'[t], k)
             ELSE Linker(u, d, k) /\ Level(u, d)'.at = Level(u, d).at
  BY <1>0, <1>1, TopMarks
<1> HIDE DEF h
<1>3. /\ \A c \in Caches : ~Holds(frame'[t], c)
      /\ \A k \in Keys : ~RunsFuture(frame'[t], k) /\ (Linked(frame'[t], k) => k = j)
  BY <1>1 DEF Holds, RunsFuture, Linked
<1>4. Locked'
  <2>1. Holds(frame[t], Cache(t))
    BY DEF Join, CreateDeferred, CreatedFuture, Created, At, KindAt, Holds, Cache
  <2>2. \A u \in Threads, d \in Nat, c \in Caches :
          Holder(u, d, c)' => Holder(u, d, c) /\ ~(u = t /\ d = h)
    BY <1>2, <1>3
  <2> QED
    BY <1>0, <1>1, <2>1, <2>2, UnlockKept DEF CInv, h
<1>5. Roles'
  BY <1>1, RolesKept
<1>6. CASE Join(t)
  <2>1. UNCHANGED <<entry, future>> /\ frame'[t].mine = FALSE
    BY <1>0, <1>6 DEF Join, GoTo, At, CInv, Roles, Frame
  <2>2. \A k \in Keys : ~Linked(frame'[t], k)
    BY <2>1 DEF Linked
  <2>3. Running'
    BY <1>2, <1>3, <2>1, RunningKept DEF CInv
  <2>4. Linking'
    BY <1>2, <2>1, <2>2, LinkingKept DEF CInv
  <2>5. Ended'
    BY <1>1, <2>1 DEF CInv, Ended
  <2> QED
    BY <1>4, <1>5, <2>3, <2>4, <2>5
<1>7. CASE CreateDeferred(t)
  <2>1. /\ kind[CacheOf[j]] = "deferred" /\ entry[j] = "absent"
        /\ entry' = [entry EXCEPT ![j] = "future"] /\ future' = [future EXCEPT ![j] = "deferred"]
    BY <1>k, <1>7 DEF CreateDeferred, KindAt, Put
  <2>2. future[j] = "done"
    BY <2>1 DEF CInv, Ended
  <2>3. \A u \in Threads, d \in Nat : ~Runner(u, d, j) /\ ~Linker(u, d, j)
    BY <2>1, <2>2 DEF CInv, Running, Linking
  <2>4. /\ \A k \in Keys \ {j} : future'[k] = future[k] /\ entry'[k] = entry[k]
        /\ entry'[j] = "future"
    BY <1>0, <2>1
  <2>5. Running'
    BY <1>2, <1>3, <2>3, <2>4, RunningKept DEF CInv
  <2>6. \A u \in Threads, d \in Nat, k \in Keys :
          Linker(u, d, k)' => IF k = j THEN u = t /\ d = h
                              ELSE Linker(u, d, k) /\ Level(u, d)'.at = Level(u, d).at
    BY <1>2, <1>3, <2>3
  <2>8. Linking'
    <3>1. ASSUME NEW u \in Threads, NEW d \in Nat, NEW k \in Keys, Linker(u, d, k)'
          PROVE  /\ entry'[k] = "future"
                 /\ Level(u, d)'.at \in {"relock", "resolve"} => future'[k] = "done"
      <4>1. CASE k = j
        <5>1. u = t /\ d = h
          BY <2>6, <3>1, <4>1
        <5>2. Level(u, d)'.at \in {"joined", "wait"}
          <6>1. PICK g \in Nat : g = h
            BY <1>0
          <6>2. Level(t, g)'.at \in {"joined", "wait"}
            <7>1. g = Height(t) /\ Height(t)' = Height(t)
              BY <1>0, <1>1, <6>1, TopMoves DEF h
            <7> QED
              BY <1>1, <7>1 DEF Level
          <6> QED
            BY <5>1, <6>1, <6>2
        <5> QED
          BY <2>4, <4>1, <5>2
      <4>2. CASE k # j
        <5>1. Linker(u, d, k) /\ Level(u, d)'.at = Level(u, d).at
          BY <2>6, <3>1, <4>2
        <5> QED
          BY <2>4, <4>2, <5>1 DEF CInv, Linking
      <4> QED
        BY <4>1, <4>2
    <3>2. ASSUME NEW u \in Threads, NEW v \in Threads, NEW d \in Nat, NEW e \in Nat, NEW k \in Keys,
                 Linker(u, d, k)', Linker(v, e, k)'
          PROVE  u = v /\ d = e
      BY <2>6, <3>2 DEF CInv, Linking
    <3> QED
      BY <3>1, <3>2 DEF Linking
  <2>9. Ended'
    BY <1>1, <2>1, <2>4 DEF CInv, Ended
  <2> QED
    BY <1>4, <1>5, <2>5, <2>8, <2>9
<1>8. CASE CreatedFuture(t)
  <2>1. /\ kind[CacheOf[j]] = "future"
        /\ entry' = [entry EXCEPT ![j] = "future"] /\ future' = [future EXCEPT ![j] = "runs"]
    BY <1>k, <1>8 DEF CreatedFuture, KindAt, Put
  <2>2. \A k \in Keys \ {j} : future'[k] = future[k] /\ entry'[k] = entry[k]
    BY <1>0, <2>1
  <2>3. \A k \in Keys : ~Linked(frame'[t], k)
    BY <1>1, <1>3, <2>1 DEF Linked
  <2>4. \A u \in Threads, d \in Nat : ~Runner(u, d, j) /\ ~Linker(u, d, j)
    BY <2>1 DEF Runner, Linker, RunsFuture, Linked
  <2>5. Running'
    BY <1>2, <1>3, <2>2, <2>4, RunningKept DEF CInv
  <2>6. Linking'
    BY <1>2, <2>2, <2>3, <2>4, LinkingKept DEF CInv
  <2>7. Ended'
    BY <1>0, <1>1, <2>1, <2>2 DEF CInv, Ended
  <2> QED
    BY <1>4, <1>5, <2>5, <2>6, <2>7
<1> QED
  BY <1>6, <1>7, <1>8

\* A create function starts: under the lock, or as the first that waits for a
\* deferred future.
LEMMA StartKept ==
  ASSUME CInv, NEW t \in Threads, CreateLocked(t) \/ Start(t)
  PROVE  Locked' /\ Running' /\ Linking' /\ Ended' /\ Roles'
<1> DEFINE h == Height(t)
<1>0. /\ TypeOK /\ frame \in [Threads -> Frame \union {Idle}]
      /\ future \in [Keys -> {"deferred", "runs", "done"}]
      /\ frame[t] \in Frame /\ Cache(t) \in Caches /\ h \in Nat
  BY Busy, LevelTypes DEF CInv, TypeOK, CreateLocked, Start, At
<1>k. PICK j \in Keys : j = KeyAt(t) /\ j = frame[t].key /\ Cache(t) = CacheOf[j]
  BY Busy DEF CInv, TypeOK, CreateLocked, Start, At, KeyAt, Cache
<1>1. /\ UNCHANGED <<kind, below, lock, entry>>
      /\ \A u \in Threads \ {t} : frame'[u] = frame[u]
      /\ frame'[t].at = "create" /\ frame'[t].key = j
  BY <1>0, <1>k DEF CreateLocked, Start, Frame
<1>2. \A u \in Threads, d \in Nat :
        /\ \A c \in Caches : Holder(u, d, c)' =>
             IF u = t /\ d = h THEN Holds(frame'[t], c) ELSE Holder(u, d, c)
        /\ \A k \in Keys : Runner(u, d, k)' =>
             IF u = t /\ d = h THEN RunsFuture(frame'[t], k) ELSE Runner(u, d, k)
        /\ \A k \in Keys : Linker(u, d, k)' =>
             IF u = t /\ d = h THEN Linked(frame'[t], k)
             ELSE Linker(u, d, k) /\ Level(u, d)'.at = Level(u, d).at
  BY <1>0, <1>1, TopMarks
<1>t. \A c \in Caches : Holder(t, h, c) <=> Holds(frame[t], c)
  BY <1>0, TopLevel
<1>s. \A k \in Keys : Linker(t, h, k) <=> Linked(frame[t], k)
  BY <1>0, TopLevel
<1>5. Roles'
  BY <1>1, RolesKept
<1> HIDE DEF h
<1>6. CASE CreateLocked(t)
  <2>1. kind[CacheOf[j]] # "deferred" /\ future' = future /\ frame[t].at = "walk"
    BY <1>k, <1>6 DEF CreateLocked, KindAt, At
  <2>2. /\ \A c \in Caches : Holds(frame'[t], c) => Holds(frame[t], c)
        /\ \A k \in Keys : ~RunsFuture(frame'[t], k) /\ ~Linked(frame'[t], k)
    BY <1>k, <1>1, <2>1 DEF Holds, RunsFuture, Linked
  <2>3. Locked'
    BY <1>1, <1>2, <1>t, <2>2, LockedKept DEF CInv
  <2>4. Running'
    BY <1>2, <2>1, <2>2, RunningKept DEF CInv
  <2>5. Linking'
    BY <1>1, <1>2, <2>1, <2>2, LinkingKept DEF CInv
  <2>6. Ended'
    BY <1>1, <2>1 DEF CInv, Ended
  <2> QED
    BY <1>5, <2>3, <2>4, <2>5, <2>6
<1>7. CASE Start(t)
  <2>1. /\ future[j] = "deferred" /\ future' = [future EXCEPT ![j] = "runs"]
        /\ frame[t].at = "wait" /\ frame'[t].mine = frame[t].mine
    BY <1>0, <1>k, <1>7 DEF Start, At, Frame
  <2>2. kind[CacheOf[j]] = "deferred" /\ entry[j] = "future"
    BY <2>1 DEF CInv, Ended
  <2>3. /\ \A c \in Caches : ~Holds(frame'[t], c)
        /\ \A k \in Keys : RunsFuture(frame'[t], k) => k = j
        /\ \A k \in Keys : Linked(frame'[t], k) => Linked(frame[t], k)
    BY <1>k, <1>1, <2>1, <2>2 DEF Holds, RunsFuture, Linked
  <2>4. /\ \A k \in Keys \ {j} : future'[k] = future[k]
        /\ future'[j] = "runs"
    BY <1>0, <2>1
  <2>5. Locked'
    BY <1>1, <1>2, <2>3, LockedKept DEF CInv
  <2>6. Running'
    <3>1. \A u \in Threads, d \in Nat : ~Runner(u, d, j)
      BY <2>1 DEF CInv, Running
    <3>2. \A u \in Threads, d \in Nat, k \in Keys :
            Runner(u, d, k)' => IF k = j THEN u = t /\ d = h ELSE Runner(u, d, k)
      BY <1>2, <2>3, <3>1
    <3> QED
      BY <2>4, <3>2 DEF CInv, Running
  <2>7. Linking'
    <3>1. \A u \in Threads, d \in Nat, k \in Keys : Linker(u, d, k)' => Linker(u, d, k)
      BY <1>2, <1>s, <2>3
    <3>2. ASSUME NEW u \in Threads, NEW d \in Nat, NEW k \in Keys, Linker(u, d, k)'
          PROVE  Level(u, d)'.at \in {"relock", "resolve"} => future'[k] = "done"
      <4>1. CASE u = t /\ d = h
        <5>1. PICK g \in Nat : g = h
          BY <1>0
        <5>2. g = Height(t) /\ Height(t)' = Height(t)
          BY <1>0, <1>1, <5>1, TopMoves DEF h
        <5>3. Level(t, g)'.at = "create"
          BY <1>1, <5>2 DEF Level
        <5> QED
          BY <4>1, <5>1, <5>3
      <4>2. CASE ~(u = t /\ d = h)
        <5>1. Linker(u, d, k) /\ Level(u, d)'.at = Level(u, d).at
          BY <1>2, <3>2, <4>2
        <5>2. Level(u, d).at \in {"relock", "resolve"} => future[k] = "done" /\ k # j
          BY <2>1, <5>1 DEF CInv, Linking
        <5> QED
          BY <2>4, <5>1, <5>2
      <4> QED
        BY <4>1, <4>2
    <3> QED
      BY <1>1, <3>1, <3>2 DEF CInv, Linking
  <2>8. Ended'
    BY <1>1, <2>2, <2>4 DEF CInv, Ended
  <2> QED
    BY <1>5, <2>5, <2>6, <2>7, <2>8
<1> QED
  BY <1>6, <1>7

\* Only the thread that linked a future locks again.
LEMMA WakeRoles ==
  ASSUME Roles, NEW fr \in [Threads -> Frame \union {Idle}], NEW k \in Keys, frame' = Wake(fr, k),
         \A t \in Threads : fr[t] = frame[t] \/ fr[t].at = "wait"
  PROVE  Roles'
<1> SUFFICES ASSUME NEW t \in Threads
             PROVE  /\ frame'[t].at \in {"lock", "walk"} => frame'[t].mine = FALSE
                    /\ frame'[t].at \in {"relock", "resolve"} => frame'[t].mine = TRUE
  BY DEF Roles
<1>1. CASE fr[t].at = "wait" /\ fr[t].key = k
  <2>1. fr[t] \in Frame
    BY <1>1 DEF Idle
  <2>2. frame'[t] = [fr[t] EXCEPT !.at = IF fr[t].mine THEN "relock" ELSE "joined"]
    BY <1>1 DEF Wake
  <2>3. CASE fr[t].mine = TRUE
    <3>1. frame'[t].at = "relock" /\ frame'[t].mine = TRUE
      BY <2>1, <2>2, <2>3 DEF Frame
    <3> QED
      BY <3>1
  <2>4. CASE fr[t].mine = FALSE
    <3>1. frame'[t].at = "joined"
      BY <2>1, <2>2, <2>4 DEF Frame
    <3> QED
      BY <3>1
  <2> QED
    BY <2>1, <2>3, <2>4 DEF Frame
<1>2. CASE ~(fr[t].at = "wait" /\ fr[t].key = k)
  <2>1. frame'[t] = fr[t]
    BY <1>2 DEF Wake
  <2> QED
    BY <2>1 DEF Roles
<1> QED
  BY <1>1, <1>2

\* A future completes: all that wait for it wake up, and whoever linked it finds
\* it when it locks again.
LEMMA CompleteKept ==
  ASSUME CInv, NEW k \in Keys, Complete(k)
  PROVE  Locked' /\ Running' /\ Linking' /\ Ended' /\ Roles'
<1>0. /\ TypeOK /\ future \in [Keys -> {"deferred", "runs", "done"}]
      /\ frame \in [Threads -> Frame \union {Idle}]
  BY DEF CInv, TypeOK
<1>1. /\ UNCHANGED <<kind, below, lock, entry>> /\ frame' = Wake(frame, k)
      /\ kind[CacheOf[k]] = "future" /\ future' = [future EXCEPT ![k] = "done"]
  BY DEF Complete
<1>2. \A u \in Threads, d \in Nat :
           /\ \A c \in Caches : Holder(u, d, c)' => Holder(u, d, c)
           /\ \A j \in Keys : Runner(u, d, j)' => Runner(u, d, j)
           /\ \A j \in Keys : Linker(u, d, j)' =>
                Linker(u, d, j) /\ (Level(u, d)'.at = Level(u, d).at \/ j = k)
  BY <1>0, <1>1, WakeMarks
<1>3. (\A j \in Keys \ {k} : future'[j] = future[j]) /\ future'[k] = "done"
  BY <1>0, <1>1
<1>4. Locked'
  BY <1>1, <1>2, LockedKept DEF CInv
<1>5. Running'
  <2>1. \A u \in Threads, d \in Nat : ~Runner(u, d, k)
    BY <1>1 DEF Runner, RunsFuture
  <2> QED
    BY <1>2, <1>3, <2>1, RunningKept DEF CInv
<1>6. Linking'
  BY <1>1, <1>2, <1>3, LinkingKept DEF CInv
<1>7. Ended'
  BY <1>1, <1>3 DEF CInv, Ended
<1>8. Roles'
  BY <1>0, <1>1, WakeRoles DEF CInv
<1> QED
  BY <1>4, <1>5, <1>6, <1>7, <1>8

\* The thread that ran a deferred future ends it and wakes all that wait for it;
\* nobody else runs it.
LEMMA DeferredKept ==
  ASSUME CInv, NEW t \in Threads, CreatedDeferred(t)
  PROVE  Locked' /\ Running' /\ Linking' /\ Ended' /\ Roles'
<1> DEFINE fr == [frame EXCEPT ![t].at = "wait"]
           h == Height(t)
<1>0. /\ TypeOK /\ future \in [Keys -> {"deferred", "runs", "done"}]
      /\ frame \in [Threads -> Frame \union {Idle}] /\ frame[t] \in Frame /\ h \in Nat
      /\ \A u \in Threads : Height(u) \in Nat /\ Level(u, Height(u)) = frame[u]
  BY Busy, LevelTypes DEF CInv, TypeOK, CreatedDeferred, Created, At
<1>k. PICK k \in Keys : k = KeyAt(t) /\ k = frame[t].key /\ Cache(t) = CacheOf[k]
  BY Busy DEF CInv, TypeOK, CreatedDeferred, Created, At, KeyAt, Cache
<1>1. /\ UNCHANGED <<kind, below, lock, entry>> /\ frame' = Wake(fr, k)
      /\ frame[t].at = "create" /\ kind[CacheOf[k]] = "deferred"
      /\ future' = [future EXCEPT ![k] = "done"]
  BY <1>k DEF CreatedDeferred, Created, At, KindAt
<1>2. (\A j \in Keys \ {k} : future'[j] = future[j]) /\ future'[k] = "done"
  BY <1>0, <1>1
<1>3. /\ fr \in [Threads -> Frame \union {Idle}] /\ \A u \in Threads \ {t} : fr[u] = frame[u]
      /\ fr[t].at = "wait" /\ fr[t].key = k /\ fr[t].mine = frame[t].mine /\ fr[t] \in Frame
  BY <1>0, <1>k DEF Frame
<1>r. Runner(t, h, k)
  BY <1>0, <1>k, <1>1, TopLevel DEF RunsFuture
<1> HIDE DEF fr, h
<1>4. ASSUME NEW u \in Threads, NEW d \in Nat, d \in Depths(u)'
      PROVE  /\ d \in Depths(u)
             /\ \/ Level(u, d)' = Level(u, d) /\ (u = t => d # h)
                \/ /\ d = Height(u) /\ Level(u, d)'.at \in {"relock", "joined"}
                   /\ Level(u, d).at \in {"create", "wait"}
                   /\ Level(u, d)'.key = k /\ Level(u, d).key = k
                   /\ Level(u, d)'.mine = Level(u, d).mine
  <2>1. /\ d \in Depths(u)
        /\ Level(u, d)' = IF d = Height(u) THEN frame'[u] ELSE Level(u, d)
    BY <1>0, <1>1, <1>4, TopMoves
  <2>2. CASE d # Height(u)
    BY <2>1, <2>2 DEF h
  <2>3. CASE d = Height(u) /\ ~(fr[u].at = "wait" /\ fr[u].key = k)
    <3>1. u # t /\ frame'[u] = frame[u]
      BY <1>1, <1>3, <2>3 DEF Wake
    <3> QED
      BY <1>0, <2>1, <2>3, <3>1
  <2>4. CASE d = Height(u) /\ fr[u].at = "wait" /\ fr[u].key = k
    <3>1. frame'[u] = [fr[u] EXCEPT !.at = IF fr[u].mine THEN "relock" ELSE "joined"]
      BY <1>1, <2>4 DEF Wake
    <3>2. fr[u] \in Frame /\ fr[u].mine = frame[u].mine /\ frame[u].key = k
          /\ frame[u].at \in {"create", "wait"}
      BY <1>k, <1>1, <1>3, <2>4 DEF Idle
    <3>3. frame'[u].at \in {"relock", "joined"} /\ frame'[u].key = k /\ frame'[u].mine = frame[u].mine
      BY <2>4, <3>1, <3>2 DEF Frame
    <3>4. Level(u, d)' = frame'[u] /\ Level(u, d) = frame[u]
      BY <1>0, <2>1, <2>4
    <3> QED
      BY <2>1, <2>4, <3>2, <3>3, <3>4
  <2> QED
    BY <2>2, <2>3, <2>4
<1>5. \A u \in Threads, d \in Nat :
        /\ \A c \in Caches : Holder(u, d, c)' => Holder(u, d, c)
        /\ \A j \in Keys : Runner(u, d, j)' => Runner(u, d, j) /\ ~(u = t /\ d = h)
        /\ \A j \in Keys : Linker(u, d, j)' =>
             Linker(u, d, j) /\ (Level(u, d)'.at = Level(u, d).at \/ j = k)
  <2> SUFFICES ASSUME NEW u \in Threads, NEW d \in Nat, d \in Depths(u)'
               PROVE  /\ \A c \in Caches : Holder(u, d, c)' => Holder(u, d, c)
                      /\ \A j \in Keys : Runner(u, d, j)' => Runner(u, d, j) /\ ~(u = t /\ d = h)
                      /\ \A j \in Keys : Linker(u, d, j)' =>
                           Linker(u, d, j) /\ (Level(u, d)'.at = Level(u, d).at \/ j = k)
    BY DEF Holder, Runner, Linker
  <2>0. d \in Depths(u) /\ kind' = kind
    BY <1>1, <1>4
  <2>1. CASE Level(u, d)' = Level(u, d) /\ (u = t => d # h)
    BY <2>0, <2>1 DEF Holder, Runner, Linker, Holds, RunsFuture, Linked
  <2>2. CASE /\ Level(u, d)'.at \in {"relock", "joined"} /\ Level(u, d).at \in {"create", "wait"}
             /\ Level(u, d)'.key = k /\ Level(u, d).key = k
             /\ Level(u, d)'.mine = Level(u, d).mine
    BY <2>0, <2>2 DEF Holder, Runner, Linker, Holds, RunsFuture, Linked
  <2> QED
    BY <1>4, <2>1, <2>2
<1>6. Locked'
  BY <1>1, <1>5, LockedKept DEF CInv
<1>7. Running'
  <2>1. \A u \in Threads, d \in Nat : ~Runner(u, d, k)'
    BY <1>0, <1>r, <1>5 DEF CInv, Running
  <2> QED
    BY <1>2, <1>5, <2>1, RunningKept DEF CInv
<1>8. Linking'
  BY <1>1, <1>2, <1>5, LinkingKept DEF CInv
<1>9. Ended'
  BY <1>1, <1>2 DEF CInv, Ended
<1>10. Roles'
  <2>1. \A u \in Threads : fr[u] = frame[u] \/ fr[u].at = "wait"
    BY <1>3
  <2> QED
    BY <1>1, <1>3, <2>1, WakeRoles DEF CInv
<1> QED
  BY <1>6, <1>7, <1>8, <1>9, <1>10

\* A value leaves the cache: no call linked it.
LEMMA DropKept ==
  ASSUME CInv, NEW k \in Keys, Drop(k)
  PROVE  Locked' /\ Running' /\ Linking' /\ Ended' /\ Roles'
<1>1. /\ UNCHANGED <<kind, below, lock, future, frame>> /\ entry[k] = "value"
      /\ entry' = [entry EXCEPT ![k] = "absent"] /\ entry \in [Keys -> {"absent", "future", "value"}]
  BY DEF Drop, CInv, TypeOK
<1>2. \A u \in Threads, d \in Nat :
        /\ Level(u, d)' = Level(u, d)
        /\ \A c \in Caches : Holder(u, d, c)' => Holder(u, d, c)
        /\ \A j \in Keys : Runner(u, d, j)' => Runner(u, d, j)
        /\ \A j \in Keys : Linker(u, d, j)' => Linker(u, d, j)
  BY <1>1 DEF Level, Depths, Height, Holder, Runner, Linker, Holds, RunsFuture, Linked
<1>3. \A u \in Threads, d \in Nat : ~Linker(u, d, k)
  BY <1>1 DEF CInv, Linking
<1>4. \A j \in Keys \ {k} : entry'[j] = entry[j]
  BY <1>1
<1>5. Locked'
  BY <1>1, <1>2, LockedKept DEF CInv
<1>6. Running'
  BY <1>1, <1>2, RunningKept DEF CInv
<1>7. Linking'
  BY <1>1, <1>2, <1>3, <1>4, LinkingKept DEF CInv
<1>8. Ended'
  BY <1>1, <1>4 DEF CInv, Ended
<1>9. Roles'
  BY <1>1 DEF CInv, Roles
<1> QED
  BY <1>5, <1>6, <1>7, <1>8, <1>9

\* Every step keeps the invariant of the creations.
LEMMA StepCreations == CInv /\ [Next]_vars => CInv'
<1> SUFFICES ASSUME CInv, [Next]_vars PROVE CInv'
  OBVIOUS
<1>1. TypeOK'
  BY StepTypes DEF CInv
<1>2. ASSUME NEW t \in Threads, Lock(t) \/ Step(t) \/ \E k \in Keys : Call(t, k)
      PROVE  Locked' /\ Running' /\ Linking' /\ Ended' /\ Roles'
  BY <1>2, QuietStep, LockKept, ReturnKept, WaitKept, StartKept, DeferredKept DEF Step
<1>3. ASSUME NEW k \in Keys, Complete(k) \/ Drop(k)
      PROVE  Locked' /\ Running' /\ Linking' /\ Ended' /\ Roles'
  BY <1>3, CompleteKept, DropKept
<1>4. CASE UNCHANGED vars
  <2>1. UNCHANGED <<kind, below, lock, entry, future, frame>>
    BY <1>4 DEF vars
  <2>2. \A u \in Threads, d \in Nat :
          /\ Level(u, d)' = Level(u, d)
          /\ \A c \in Caches : Holder(u, d, c)' => Holder(u, d, c)
          /\ \A j \in Keys : Runner(u, d, j)' => Runner(u, d, j)
          /\ \A j \in Keys : Linker(u, d, j)' => Linker(u, d, j)
    BY <2>1 DEF Level, Depths, Height, Holder, Runner, Linker, Holds, RunsFuture, Linked
  <2>3. Locked' /\ Running' /\ Linking' /\ Ended'
    BY <2>1, <2>2, QuietKept
  <2>4. Roles'
    BY <2>1 DEF CInv, Roles
  <2> QED
    BY <1>1, <2>3, <2>4 DEF CInv
<1> QED
  BY <1>1, <1>2, <1>3, <1>4 DEF Next, CInv

\* At first there are no calls.
LEMMA InitCreations == Init => CInv
<1> SUFFICES ASSUME Init PROVE CInv
  OBVIOUS
<1>1. TypeOK
  BY InitTypes
<1>2. \A t \in Threads : Depths(t) = {0} /\ Level(t, 0) = Idle /\ frame[t] = Idle
  <2>1. \A t \in Threads : Height(t) = 0
    BY DEF Init, Height
  <2> QED
    BY <2>1 DEF Init, Depths, Level
<1>3. \A t \in Threads, d \in Nat : /\ \A c \in Caches : ~Holder(t, d, c)
                                    /\ \A k \in Keys : ~Runner(t, d, k) /\ ~Linker(t, d, k)
  BY <1>2 DEF Holder, Runner, Linker, Holds, RunsFuture, Linked, Idle
<1>4. Locked /\ Running /\ Linking
  BY <1>3 DEF Locked, Running, Linking
<1>5. Ended /\ Roles
  BY <1>2 DEF Init, Ended, Roles, Idle
<1> QED
  BY <1>1, <1>4, <1>5 DEF CInv

\* The calls of a thread are its levels.
LEMMA CallsAreLevels ==
  ASSUME TypeOK, NEW t \in Threads
  PROVE  /\ \A f \in Calls(t) : \E d \in Depths(t) : f = Level(t, d)
         /\ \A i \in DOMAIN below[t] : /\ Height(t) - i \in Depths(t)
                                       /\ Level(t, Height(t) - i) = below[t][i]
                                       /\ below[t][i] \in Suspended
<1>1. below[t] \in Seq(Suspended) /\ Height(t) \in Nat /\ DOMAIN below[t] = 1 .. Height(t)
  BY DEF TypeOK, Height
<1>2. ASSUME NEW i \in DOMAIN below[t]
      PROVE  /\ Height(t) - i \in Depths(t)
             /\ Level(t, Height(t) - i) = below[t][i]
             /\ below[t][i] \in Suspended
  <2>1. i \in Int /\ Height(t) - i # Height(t) /\ Height(t) - (Height(t) - i) = i
        /\ Height(t) - i \in 0 .. Height(t)
    BY <1>1
  <2> QED
    BY <1>1, <2>1 DEF Depths, Level
<1>3. ASSUME NEW f \in Calls(t) PROVE \E d \in Depths(t) : f = Level(t, d)
  <2>1. CASE f = frame[t]
    BY <2>1, LevelTypes
  <2>2. CASE f # frame[t]
    <3>1. PICK i \in DOMAIN below[t] : f = below[t][i]
      BY <2>2 DEF Calls
    <3> QED
      BY <1>2, <3>1
  <2> QED
    BY <2>1, <2>2
<1> QED
  BY <1>2, <1>3

\* A thread that runs a create function has its lock, or runs its future.
LEMMA RunsHolds ==
  ASSUME CInv, NEW t \in Threads, NEW d \in Depths(t), NEW k \in Keys,
         Level(t, d).key = k, Level(t, d).at = "create"
  PROVE  /\ d \in Nat /\ CacheOf[k] \in Caches
         /\ IF kind[CacheOf[k]] = "deferred" THEN Runner(t, d, k) ELSE Holder(t, d, CacheOf[k])
BY LevelTypes, KeysAssumption DEF CInv, Runner, Holder, RunsFuture, Holds

\* The invariant implies CreatedOnce.
LEMMA CreationsOnce == CInv => CreatedOnce
<1> SUFFICES ASSUME CInv PROVE CreatedOnce
  OBVIOUS
<1>0. TypeOK
  BY DEF CInv
<1>1. ASSUME NEW t \in Threads, NEW u \in Threads, NEW d \in Depths(t), NEW e \in Depths(u), NEW k \in Keys,
             Level(t, d).key = k, Level(t, d).at = "create",
             Level(u, e).key = k, Level(u, e).at = "create"
      PROVE  t = u /\ d = e
  <2>1. CASE kind[CacheOf[k]] = "deferred"
    <3>1. Runner(t, d, k) /\ Runner(u, e, k) /\ d \in Nat /\ e \in Nat
      BY <1>1, <2>1, RunsHolds
    <3> QED
      BY <3>1 DEF CInv, Running
  <2>2. CASE kind[CacheOf[k]] # "deferred"
    <3>1. /\ Holder(t, d, CacheOf[k]) /\ Holder(u, e, CacheOf[k])
          /\ d \in Nat /\ e \in Nat /\ CacheOf[k] \in Caches
      BY <1>1, <2>2, RunsHolds
    <3>2. t = u
      BY <3>1 DEF CInv, Locked
    <3> QED
      BY <3>1, <3>2 DEF CInv, Locked
  <2> QED
    BY <2>1, <2>2
<1>2. ASSUME NEW t \in Threads, NEW u \in Threads, NEW k \in Keys, Runs(t, k), Runs(u, k)
      PROVE  t = u
  <2>1. PICK f \in Calls(t) : f.key = k /\ f.at = "create"
    BY <1>2 DEF Runs
  <2>2. PICK g \in Calls(u) : g.key = k /\ g.at = "create"
    BY <1>2 DEF Runs
  <2>3. PICK d \in Depths(t) : f = Level(t, d)
    BY <1>0, CallsAreLevels
  <2>4. PICK e \in Depths(u) : g = Level(u, e)
    BY <1>0, CallsAreLevels
  <2> QED
    BY <1>1, <2>1, <2>2, <2>3, <2>4
<1>3. ASSUME NEW t \in Threads, NEW i \in DOMAIN below[t], NEW j \in DOMAIN below[t],
             below[t][i].key = below[t][j].key
      PROVE  i = j
  <2> DEFINE d == Height(t) - i  e == Height(t) - j
  <2>1. /\ d \in Depths(t) /\ Level(t, d) = below[t][i] /\ below[t][i] \in Suspended
        /\ e \in Depths(t) /\ Level(t, e) = below[t][j] /\ below[t][j] \in Suspended
    BY <1>0, CallsAreLevels
  <2>2. below[t][i].key \in Keys /\ below[t][i].at = "create" /\ below[t][j].at = "create"
    BY <2>1 DEF Suspended, Frame
  <2> HIDE DEF d, e
  <2>3. d = e
    BY <1>1, <1>3, <2>1, <2>2
  <2>4. i \in Int /\ j \in Int /\ Height(t) \in Int
    BY <1>0 DEF TypeOK, Height
  <2> QED
    BY <2>3, <2>4 DEF d, e
<1> QED
  BY <1>2, <1>3 DEF CreatedOnce

\* For any number of threads and any nesting, the create function of a key is run
\* by one thread at a time, and by that thread once.
THEOREM CreationsAreUnique == Spec => []CreatedOnce
  BY InitCreations, StepCreations, CreationsOnce, PTL DEF Spec
-----------------------------------------------------------------------------
\* What NoCircularWait needs: create functions of a cache may call that cache only
\* when it is deferred, and then the keys of the cache can be ranked so that each
\* is made from those of lower rank.
Ranks == {r \in [Keys -> Nat] :
            \A k \in Keys : \A j \in Needs[k] : CacheOf[j] = CacheOf[k] => r[j] < r[k]}
Ranked == Own \subseteq {"deferred"} /\ Ranks # {}

Rank == CHOOSE r \in Ranks : TRUE

\* Key j is made for key k, perhaps through others.
Below(j, k) ==
  \/ CacheOf[j] < CacheOf[k]
  \/ CacheOf[j] = CacheOf[k] /\ kind[CacheOf[k]] = "deferred" /\ Rank[j] < Rank[k]

\* A lock that is taken is held by a call; each call of a thread is for a key
\* below those of the calls that it was made in; a create function gets only what
\* it needs; an idle thread has no calls.
Has == \A t \in Threads, c \in Caches : lock[c] = t => \E d \in Depths(t) : Holder(t, d, c)
Descends ==
  \A t \in Threads : \A d, e \in Depths(t) : d < e => Below(Level(t, e).key, Level(t, d).key)
Todo ==
  \A t \in Threads : \A d \in Depths(t) :
    Level(t, d).at = "create" => Level(t, d).todo \subseteq Needs[Level(t, d).key]
Resting == \A t \in Threads : frame[t].at = "idle" => Height(t) = 0

WInv == TypeOK /\ Layered /\ Has /\ Descends /\ Todo /\ Resting

\* Below is a strict order.
LEMMA BelowIsOrder ==
  ASSUME Ranked
  PROVE  /\ \A k \in Keys : ~Below(k, k)
         /\ \A i, j, k \in Keys : Below(i, j) /\ Below(j, k) => Below(i, k)
<1>1. Rank \in [Keys -> Nat]
  BY DEF Ranked, Ranks, Rank
<1>2. \A k \in Keys : CacheOf[k] \in Int
  BY KeysAssumption DEF Caches
<1> QED
  BY <1>1, <1>2 DEF Below

\* What a create function needs is below its own key.
LEMMA NeedsBelow ==
  ASSUME Ranked, Layered, NEW k \in Keys, NEW j \in Needs[k]
  PROVE  Below(j, k)
<1>1. Rank \in Ranks
  BY DEF Ranked, Rank
<1> QED
  BY <1>1 DEF Ranked, Ranks, Layered, Below

\* A step in which no call is made or returns: calls that hold a lock go on
\* holding it, those that start a create function take what they need.
LEMMA InPlace ==
  ASSUME WInv, UNCHANGED <<below, kind>>,
         \A u \in Threads, c \in Caches : lock'[c] = u =>
           \/ lock[c] = u /\ (Holds(frame[u], c) => Holds(frame'[u], c))
           \/ Holds(frame'[u], c),
         \A u \in Threads : frame'[u].key = frame[u].key \/ Height(u) = 0,
         \A u \in Threads : frame'[u].at = "create" =>
           \/ frame'[u] = frame[u]
           \/ frame'[u].todo \subseteq Needs[frame'[u].key],
         \A u \in Threads : frame'[u].at = "idle" => Height(u) = 0
  PROVE  Layered' /\ Has' /\ Descends' /\ Todo' /\ Resting'
<1>0. TypeOK
  BY DEF WInv
<1>1. \A u \in Threads :
        /\ Depths(u)' = Depths(u) /\ Height(u)' = Height(u) /\ Height(u) \in Nat
        /\ Height(u) \in Depths(u) /\ Level(u, Height(u)) = frame[u]
        /\ \A d \in Depths(u) : Level(u, d)' = IF d = Height(u) THEN frame'[u] ELSE Level(u, d)
  BY <1>0, TopMoves, LevelTypes
<1>2. Layered'
  BY DEF WInv, Layered
<1>3. Has'
  <2> SUFFICES ASSUME NEW u \in Threads, NEW c \in Caches, lock'[c] = u
               PROVE  \E d \in Depths(u)' : Holder(u, d, c)'
    BY DEF Has
  <2>1. CASE Holds(frame'[u], c)
    <3>1. Holder(u, Height(u), c)'
      BY <1>1, <2>1 DEF Holder, Holds
    <3> QED
      BY <1>1, <3>1
  <2>2. CASE lock[c] = u /\ (Holds(frame[u], c) => Holds(frame'[u], c))
    <3>1. PICK d \in Depths(u) : Holder(u, d, c)
      BY <2>2 DEF WInv, Has
    <3>2. CASE d = Height(u)
      BY <1>1, <2>1, <2>2, <3>1, <3>2 DEF Holder
    <3>3. CASE d # Height(u)
      BY <1>1, <3>1, <3>3 DEF Holder, Holds
    <3> QED
      BY <3>2, <3>3
  <2> QED
    BY <2>1, <2>2
<1>4. Descends'
  <2> SUFFICES ASSUME NEW u \in Threads, NEW d \in Depths(u)', NEW e \in Depths(u)', d < e
               PROVE  Below(Level(u, e).key, Level(u, d).key)'
    BY DEF Descends
  <2>1. d \in Depths(u) /\ e \in Depths(u) /\ Height(u) # 0
    BY <1>1 DEF Depths
  <2>2. Level(u, d)'.key = Level(u, d).key /\ Level(u, e)'.key = Level(u, e).key
    BY <1>1, <2>1
  <2> QED
    BY <2>1, <2>2 DEF WInv, Descends, Below
<1>5. Todo'
  <2> SUFFICES ASSUME NEW u \in Threads, NEW d \in Depths(u)', Level(u, d)'.at = "create"
               PROVE  Level(u, d)'.todo \subseteq Needs[Level(u, d)'.key]
    BY DEF Todo
  <2>1. d \in Depths(u)
    BY <1>1
  <2> QED
    BY <1>1, <2>1 DEF WInv, Todo
<1>6. Resting'
  BY <1>1 DEF Resting
<1> QED
  BY <1>2, <1>3, <1>4, <1>5, <1>6

\* A call returns to the create function that made it, and gives back the lock
\* that it held.
LEMMA ReturnWaits ==
  ASSUME WInv, NEW t \in Threads, Return(t), kind' = kind,
         \A u \in Threads, c \in Caches :
           lock'[c] = u => lock[c] = u /\ ~(u = t /\ Holds(frame[t], c))
  PROVE  Layered' /\ Has' /\ Descends' /\ Todo' /\ Resting'
<1>0. TypeOK
  BY DEF WInv
<1>1. \A u \in Threads : \A d \in Depths(u)' :
        \/ u = t /\ Level(u, d)' = Idle /\ Height(u)' = 0
        \/ d \in Depths(u) /\ Level(u, d)' = Level(u, d)
  BY <1>0, Returns
<1>2. Layered'
  BY DEF WInv, Layered
<1>3. Has'
  <2> SUFFICES ASSUME NEW u \in Threads, NEW c \in Caches, lock'[c] = u
               PROVE  \E d \in Depths(u)' : Holder(u, d, c)'
    BY DEF Has
  <2>1. PICK d \in Depths(u) : Holder(u, d, c)
    BY DEF WInv, Has
  <2>2. ~(u = t /\ d = Height(t))
    BY <1>0, <2>1, LevelTypes DEF Holder
  <2>3. d \in Depths(u)' /\ Level(u, d)' = Level(u, d)
    BY <1>0, <2>2, ReturnStays
  <2> QED
    BY <2>1, <2>3 DEF Holder, Holds
<1>4. Descends'
  <2> SUFFICES ASSUME NEW u \in Threads, NEW d \in Depths(u)', NEW e \in Depths(u)', d < e
               PROVE  Below(Level(u, e).key, Level(u, d).key)'
    BY DEF Descends
  <2>1. CASE Height(u)' = 0
    BY <2>1 DEF Depths
  <2>2. CASE Height(u)' # 0
    <3>1. /\ d \in Depths(u) /\ Level(u, d)' = Level(u, d)
          /\ e \in Depths(u) /\ Level(u, e)' = Level(u, e)
      BY <1>1, <2>2
    <3> QED
      BY <3>1 DEF WInv, Descends, Below
  <2> QED
    BY <2>1, <2>2
<1>5. Todo'
  BY <1>1 DEF WInv, Todo, Idle
<1>6. Resting'
  <2> SUFFICES ASSUME NEW u \in Threads, frame'[u].at = "idle" PROVE Height(u)' = 0
    BY DEF Resting
  <2>1. /\ frame \in [Threads -> Frame \union {Idle}] /\ below \in [Threads -> Seq(Suspended)]
    BY <1>0 DEF TypeOK
  <2>2. CASE u # t
    BY <2>1, <2>2 DEF Return, WInv, Resting, Height
  <2>3. CASE u = t /\ below[t] = <<>>
    BY <2>3 DEF Return, Height
  <2>4. CASE u = t /\ below[t] # <<>>
    BY <2>1, <2>4, SuspendedStack DEF Return, Suspended
  <2> QED
    BY <2>2, <2>3, <2>4
<1> QED
  BY <1>2, <1>3, <1>4, <1>5, <1>6

\* A create function calls a cache for something it needs.
LEMMA NestWaits ==
  ASSUME Ranked, WInv, NEW t \in Threads, NEW k \in Keys, Nest(t, k)
  PROVE  Layered' /\ Has' /\ Descends' /\ Todo' /\ Resting'
<1>0. /\ TypeOK /\ UNCHANGED <<kind, lock>> /\ frame[t].at = "create" /\ k \in frame[t].todo
      /\ frame[t] \in Frame
  BY Busy DEF WInv, Nest, At
<1>1. /\ Height(t)' = Height(t) + 1
      /\ \A u \in Threads : \A d \in Depths(u)' :
           \/ u = t /\ d = Height(t) + 1 /\ Level(u, d)' = Begin(k)
           \/ /\ d \in Depths(u)
              /\ Level(u, d)'.at = Level(u, d).at /\ Level(u, d)'.key = Level(u, d).key
              /\ Level(u, d)'.mine = Level(u, d).mine
              /\ Level(u, d)'.todo \subseteq Level(u, d).todo
      /\ \A u \in Threads : Depths(u) \subseteq Depths(u)'
  BY <1>0, Nests
<1>2. \A u \in Threads :
        /\ Height(u) \in Nat /\ Height(u) \in Depths(u) /\ Level(u, Height(u)) = frame[u]
        /\ \A d \in Depths(u) : /\ d \in Nat /\ d <= Height(u)
                                /\ Level(u, d) \in Frame \union {Idle}
                                /\ d # Height(u) => Level(u, d) \in Suspended
  BY <1>0, LevelTypes
<1>3. Layered'
  BY <1>0 DEF WInv, Layered
<1>4. \A u \in Threads : \A d \in Depths(u) :
        ~(u = t /\ d = Height(t) + 1) /\ d \in Depths(u)'
  BY <1>1, <1>2
<1>5. Has'
  <2> SUFFICES ASSUME NEW u \in Threads, NEW c \in Caches, lock[c] = u
               PROVE  \E d \in Depths(u)' : Holder(u, d, c)'
    BY <1>0 DEF Has
  <2>1. PICK d \in Depths(u) : Holder(u, d, c)
    BY DEF WInv, Has
  <2>2. d \in Depths(u)' /\ Level(u, d)'.at = Level(u, d).at /\ Level(u, d)'.key = Level(u, d).key
    BY <1>1, <1>4
  <2> QED
    BY <1>0, <2>1, <2>2 DEF Holder, Holds
<1>6. Below(k, frame[t].key)
  <2>1. frame[t].todo \subseteq Needs[frame[t].key] /\ frame[t].key \in Keys
    BY <1>0, <1>2 DEF WInv, Todo, Frame
  <2> QED
    BY <1>0, <2>1, NeedsBelow DEF WInv
<1>7. Descends'
  <2> SUFFICES ASSUME NEW u \in Threads, NEW d \in Depths(u)', NEW e \in Depths(u)', d < e
               PROVE  Below(Level(u, e)'.key, Level(u, d)'.key)
    BY <1>0 DEF Descends, Below
  <2>1. CASE u = t /\ e = Height(t) + 1
    <3>1. Level(u, e)'.key = k
      BY <1>1, <1>4, <2>1 DEF Begin
    <3>5. e \in Int /\ d # Height(t) + 1
      BY <1>2, <2>1
    <3>2. d \in Depths(t) /\ Level(u, d)'.key = Level(t, d).key /\ d # Height(t) + 1
      BY <1>1, <2>1, <3>5
    <3>3. CASE d = Height(t)
      BY <1>2, <1>6, <2>1, <3>1, <3>2, <3>3
    <3>4. CASE d # Height(t)
      <4>1. d < Height(t) /\ Level(t, d) \in Suspended
        BY <1>2, <3>2, <3>4
      <4>2. Below(frame[t].key, Level(t, d).key)
        BY <1>2, <3>2, <4>1 DEF WInv, Descends
      <4>3. Level(t, d).key \in Keys /\ frame[t].key \in Keys
        BY <1>0, <4>1 DEF Suspended, Frame
      <4> QED
        BY <1>6, <2>1, <3>1, <3>2, <4>2, <4>3, BelowIsOrder
    <3> QED
      BY <3>3, <3>4
  <2>2. CASE ~(u = t /\ e = Height(t) + 1)
    <3>1. e \in Depths(u) /\ Level(u, e)'.key = Level(u, e).key
      BY <1>1, <2>2
    <3>2. ~(u = t /\ d = Height(t) + 1)
      BY <1>2, <3>1
    <3>3. d \in Depths(u) /\ Level(u, d)'.key = Level(u, d).key
      BY <1>1, <3>2
    <3> QED
      BY <3>1, <3>3 DEF WInv, Descends
  <2> QED
    BY <2>1, <2>2
<1>8. Todo'
  <2> SUFFICES ASSUME NEW u \in Threads, NEW d \in Depths(u)', Level(u, d)'.at = "create"
               PROVE  Level(u, d)'.todo \subseteq Needs[Level(u, d)'.key]
    BY DEF Todo
  <2> QED
    BY <1>1 DEF WInv, Todo, Begin
<1>9. Resting'
  <2> SUFFICES ASSUME NEW u \in Threads, frame'[u].at = "idle" PROVE Height(u)' = 0
    BY DEF Resting
  <2>1. /\ frame \in [Threads -> Frame \union {Idle}] /\ below \in [Threads -> Seq(Suspended)]
        /\ frame' = [frame EXCEPT ![t] = Begin(k)]
        /\ \A v \in Threads \ {t} : below'[v] = below[v]
    BY <1>0 DEF TypeOK, Nest
  <2>2. u # t
    BY <2>1 DEF Begin
  <2> QED
    BY <2>1, <2>2 DEF WInv, Resting, Height
<1> QED
  BY <1>3, <1>5, <1>7, <1>8, <1>9

\* Nothing holds at first.
LEMMA InitWaits == Init => WInv
<1> SUFFICES ASSUME Init PROVE WInv
  OBVIOUS
<1>1. TypeOK /\ Layered
  BY InitTypes DEF Init
<1>2. \A t \in Threads : frame[t] = Idle /\ Height(t) = 0 /\ Depths(t) = {0} /\ Level(t, 0) = Idle
  BY DEF Init, Height, Depths, Level
<1>3. Has
  BY KeysAssumption DEF Init, Has
<1> QED
  BY <1>1, <1>2, <1>3 DEF WInv, Descends, Todo, Resting, Idle

\* Waking the threads that wait changes where they are, nothing else.
LEMMA WakeMoves ==
  ASSUME NEW fr \in [Threads -> Frame \union {Idle}], NEW k \in Keys, NEW u \in Threads
  PROVE  \/ Wake(fr, k)[u] = fr[u]
         \/ /\ fr[u].at = "wait" /\ Wake(fr, k)[u].at \in {"relock", "joined"}
            /\ Wake(fr, k)[u].key = fr[u].key
<1>1. fr[u] = Idle => fr[u].at = "idle"
  BY DEF Idle
<1> QED
  BY <1>1 DEF Wake, Frame

\* One call moves, its key the same: it holds what it held of the locks that are
\* still taken, and whatever it takes.
LEMMA OneMoves ==
  ASSUME WInv, NEW t \in Threads, UNCHANGED <<below, kind>>,
         \A u \in Threads \ {t} : frame'[u] = frame[u],
         frame'[t].key = frame[t].key, frame'[t].at # "idle",
         frame'[t].at = "create" => frame'[t].todo \subseteq Needs[frame'[t].key],
         \A u \in Threads, c \in Caches : lock'[c] = u =>
           lock[c] = u \/ (u = t /\ Holds(frame'[t], c)),
         \A c \in Caches : lock'[c] = t /\ Holds(frame[t], c) => Holds(frame'[t], c)
  PROVE  Layered' /\ Has' /\ Descends' /\ Todo' /\ Resting'
<1>1. \A u \in Threads, c \in Caches : lock'[c] = u =>
        \/ lock[c] = u /\ (Holds(frame[u], c) => Holds(frame'[u], c))
        \/ Holds(frame'[u], c)
  OBVIOUS
<1>2. \A u \in Threads : frame'[u].key = frame[u].key \/ Height(u) = 0
  OBVIOUS
<1>3. \A u \in Threads : frame'[u].at = "create" =>
        frame'[u] = frame[u] \/ frame'[u].todo \subseteq Needs[frame'[u].key]
  OBVIOUS
<1>4. \A u \in Threads : frame'[u].at = "idle" => Height(u) = 0
  BY DEF WInv, Resting
<1> QED
  BY <1>1, <1>2, <1>3, <1>4, InPlace

\* Threads are woken and at most one more call moves, to wait: none takes or
\* holds a lock.
LEMMA WakeWaits ==
  ASSUME WInv, UNCHANGED <<below, kind, lock>>,
         \A u \in Threads :
           \/ frame'[u] = frame[u]
           \/ /\ frame'[u].key = frame[u].key /\ frame'[u].at \in {"wait", "relock", "joined"}
              /\ \A c \in Caches : ~Holds(frame[u], c)
  PROVE  Layered' /\ Has' /\ Descends' /\ Todo' /\ Resting'
<1>1. \A u \in Threads, c \in Caches : lock'[c] = u =>
        \/ lock[c] = u /\ (Holds(frame[u], c) => Holds(frame'[u], c))
        \/ Holds(frame'[u], c)
  OBVIOUS
<1>2. \A u \in Threads : frame'[u].key = frame[u].key \/ Height(u) = 0
  OBVIOUS
<1>3. \A u \in Threads : frame'[u].at = "create" =>
        frame'[u] = frame[u] \/ frame'[u].todo \subseteq Needs[frame'[u].key]
  OBVIOUS
<1>4. \A u \in Threads : frame'[u].at = "idle" => Height(u) = 0
  BY DEF WInv, Resting
<1> QED
  BY <1>1, <1>2, <1>3, <1>4, InPlace

\* A call that goes on to wait gives its lock back.
LEMMA UnlockMoves ==
  ASSUME WInv, NEW t \in Threads, UNCHANGED <<below, kind>>, Unlock(t),
         \A u \in Threads \ {t} : frame'[u] = frame[u],
         frame'[t].key = frame[t].key, frame'[t].at \in {"wait", "joined"}
  PROVE  Layered' /\ Has' /\ Descends' /\ Todo' /\ Resting'
<1>1. /\ lock \in [Caches -> Threads \union {None}] /\ None \notin Threads
  BY KeysAssumption DEF WInv, TypeOK
<1>2. \A u \in Threads, c \in Caches : lock'[c] = u => lock[c] = u /\ c # Cache(t)
  BY <1>1 DEF Unlock
<1>3. \A c \in Caches : Holds(frame[t], c) => c = Cache(t)
  BY DEF Holds, Cache
<1>4. /\ \A u \in Threads, c \in Caches : lock'[c] = u => lock[c] = u \/ (u = t /\ Holds(frame'[t], c))
      /\ \A c \in Caches : lock'[c] = t /\ Holds(frame[t], c) => Holds(frame'[t], c)
  BY <1>2, <1>3
<1>5. frame'[t].at # "idle" /\ frame'[t].at # "create"
  OBVIOUS
<1> QED
  BY <1>4, <1>5, OneMoves

\* A call that returns gives its lock back, if it had one.
LEMMA UnlockReturns ==
  ASSUME WInv, NEW t \in Threads, Found(t) \/ CreatedLocked(t) \/ Resolve(t) \/ Joined(t)
  PROVE  Layered' /\ Has' /\ Descends' /\ Todo' /\ Resting'
<1>1. lock \in [Caches -> Threads \union {None}] /\ None \notin Threads
  BY KeysAssumption DEF WInv, TypeOK
<1>2. Return(t) /\ kind' = kind
  BY DEF Found, CreatedLocked, Resolve, Joined
<1>3. \A c \in Caches : Holds(frame[t], c) => c = Cache(t) /\ frame[t].at # "joined"
  BY DEF Holds, Cache
<1>4. \A u \in Threads, c \in Caches :
        lock'[c] = u => lock[c] = u /\ ~(u = t /\ Holds(frame[t], c))
  <2>1. CASE Unlock(t)
    BY <1>1, <1>3, <2>1 DEF Unlock
  <2>2. CASE Joined(t)
    BY <1>3, <2>2 DEF Joined, At
  <2> QED
    BY <2>1, <2>2 DEF Found, CreatedLocked, Resolve
<1> QED
  BY <1>2, <1>4, ReturnWaits

\* Every step keeps the invariant of the waits.
LEMMA StepWaits == ASSUME Ranked, WInv, [Next]_vars PROVE WInv'
<1> DEFINE Q == Layered' /\ Has' /\ Descends' /\ Todo' /\ Resting'
<1>0. /\ TypeOK /\ frame \in [Threads -> Frame \union {Idle}]
      /\ lock \in [Caches -> Threads \union {None}]
  BY DEF WInv, TypeOK
<1>1. ASSUME NEW t \in Threads, NEW k \in Keys, Call(t, k) PROVE Q
  <2>1. /\ UNCHANGED <<below, kind, lock>> /\ frame'[t] = Begin(k)
        /\ frame[t].at = "idle" /\ Height(t) = 0
        /\ \A u \in Threads \ {t} : frame'[u] = frame[u]
    BY <1>0, <1>1 DEF Call, At, WInv, Resting
  <2>2. frame'[t].at = "lock" /\ \A c \in Caches : ~Holds(frame[t], c)
    BY <2>1 DEF Begin, Holds
  <2>3. \A u \in Threads, c \in Caches : lock'[c] = u =>
          \/ lock[c] = u /\ (Holds(frame[u], c) => Holds(frame'[u], c))
          \/ Holds(frame'[u], c)
    BY <2>1, <2>2
  <2>4. \A u \in Threads : frame'[u].at = "idle" => Height(u) = 0
    BY <2>1 DEF WInv, Resting
  <2> QED
    BY <2>1, <2>2, <2>3, <2>4, InPlace
<1>2. ASSUME NEW t \in Threads, Lock(t) PROVE Q
  <2>1. frame[t] \in Frame /\ Cache(t) \in Caches
    BY <1>0, <1>2, Busy DEF Lock
  <2>2. /\ UNCHANGED <<below, kind>> /\ lock' = [lock EXCEPT ![Cache(t)] = t]
        /\ frame[t].at \in {"lock", "relock"} /\ frame'[t].at \in {"walk", "resolve"}
        /\ frame'[t].key = frame[t].key /\ \A u \in Threads \ {t} : frame'[u] = frame[u]
    BY <1>0, <1>2, <2>1 DEF Lock, GoTo, Frame
  <2>3. Holds(frame'[t], Cache(t)) /\ \A c \in Caches : ~Holds(frame[t], c)
    BY <2>2 DEF Holds, Cache
  <2>4. \A u \in Threads, c \in Caches : lock'[c] = u =>
          lock[c] = u \/ (u = t /\ Holds(frame'[t], c))
    BY <1>0, <2>1, <2>2, <2>3
  <2>5. frame'[t].at # "idle" /\ frame'[t].at # "create"
    BY <2>2
  <2> QED
    BY <2>2, <2>3, <2>4, <2>5, OneMoves
<1>3. ASSUME NEW t \in Threads, Join(t) \/ CreateDeferred(t) \/ CreatedFuture(t) PROVE Q
  <2>1. frame[t] \in Frame
    BY <1>0, <1>3, Busy DEF Join, CreateDeferred, CreatedFuture, Created, At
  <2>2. /\ UNCHANGED <<below, kind>> /\ Unlock(t)
        /\ frame'[t].at \in {"wait", "joined"} /\ frame'[t].key = frame[t].key
        /\ \A u \in Threads \ {t} : frame'[u] = frame[u]
    BY <1>0, <1>3, <2>1 DEF Join, CreateDeferred, CreatedFuture, GoTo, Frame
  <2> QED
    BY <2>2, UnlockMoves
<1>4. ASSUME NEW t \in Threads, CreateLocked(t) \/ Start(t) PROVE Q
  <2>1. frame[t] \in Frame
    BY <1>0, <1>4, Busy DEF CreateLocked, Start, At
  <2>2. /\ UNCHANGED <<below, kind, lock>> /\ frame'[t].at = "create"
        /\ frame'[t].key = frame[t].key /\ frame'[t].todo = Needs[frame[t].key]
        /\ \A u \in Threads \ {t} : frame'[u] = frame[u]
    BY <1>0, <1>4, <2>1 DEF CreateLocked, Start, KeyAt, Frame
  <2>3. \A c \in Caches : Holds(frame[t], c) => Holds(frame'[t], c)
    BY <1>4, <2>2 DEF CreateLocked, Start, At, Holds, KindAt, Cache
  <2> QED
    BY <2>2, <2>3, OneMoves
<1>5. ASSUME NEW t \in Threads, CreatedDeferred(t) PROVE Q
  <2> DEFINE fr == [frame EXCEPT ![t].at = "wait"]
  <2>1. frame[t] \in Frame /\ KeyAt(t) \in Keys
    BY <1>0, <1>5, Busy DEF CreatedDeferred, Created, At
  <2>2. /\ fr \in [Threads -> Frame \union {Idle}] /\ \A u \in Threads \ {t} : fr[u] = frame[u]
        /\ fr[t].key = frame[t].key /\ fr[t].at = "wait"
    BY <1>0, <2>1 DEF Frame
  <2>3. frame' = Wake(fr, KeyAt(t)) /\ UNCHANGED <<below, kind, lock>>
    BY <1>5 DEF CreatedDeferred
  <2>4. \A c \in Caches : ~Holds(frame[t], c)
    BY <1>5 DEF CreatedDeferred, Created, At, KindAt, Cache, Holds
  <2> HIDE DEF fr
  <2>5. \A u \in Threads : \/ frame'[u] = fr[u]
                           \/ /\ fr[u].at = "wait" /\ frame'[u].at \in {"relock", "joined"}
                              /\ frame'[u].key = fr[u].key
    BY <2>1, <2>2, <2>3, WakeMoves
  <2>6. \A u \in Threads \ {t} : frame[u].at = "wait" => \A c \in Caches : ~Holds(frame[u], c)
    BY DEF Holds
  <2>7. \A u \in Threads :
          \/ frame'[u] = frame[u]
          \/ /\ frame'[u].key = frame[u].key /\ frame'[u].at \in {"wait", "relock", "joined"}
             /\ \A c \in Caches : ~Holds(frame[u], c)
    BY <2>2, <2>4, <2>5, <2>6
  <2> QED
    BY <2>3, <2>7, WakeWaits
<1>6. ASSUME NEW k \in Keys, Complete(k) PROVE Q
  <2>1. frame' = Wake(frame, k) /\ UNCHANGED <<below, kind, lock>>
    BY <1>6 DEF Complete
  <2>2. \A u \in Threads : frame[u].at = "wait" => \A c \in Caches : ~Holds(frame[u], c)
    BY DEF Holds
  <2>3. \A u \in Threads : \/ frame'[u] = frame[u]
                           \/ /\ frame[u].at = "wait" /\ frame'[u].at \in {"relock", "joined"}
                              /\ frame'[u].key = frame[u].key
    BY <1>0, <2>1, WakeMoves
  <2> QED
    BY <2>1, <2>2, <2>3, WakeWaits
<1>7. ASSUME NEW t \in Threads, Found(t) \/ CreatedLocked(t) \/ Resolve(t) \/ Joined(t) PROVE Q
  BY <1>7, UnlockReturns
<1>8. ASSUME NEW t \in Threads, NEW k \in Keys, Nest(t, k) PROVE Q
  BY <1>8, NestWaits
<1>9. ASSUME UNCHANGED <<frame, below, kind, lock>> PROVE Q
  <2>1. UNCHANGED <<below, kind, lock>> /\ \A u \in Threads : frame'[u] = frame[u]
    BY <1>9
  <2> QED
    BY <2>1, WakeWaits
<1>10. TypeOK'
  BY <1>0, StepTypes
<1> HIDE DEF Q
<1>11. Q
  BY <1>1, <1>2, <1>3, <1>4, <1>5, <1>6, <1>7, <1>8, <1>9 DEF Next, Step, Drop, vars
<1> QED
  BY <1>10, <1>11 DEF WInv, Q

\* A thread that waits for another is in a call of a key; if the other waits too,
\* it is for a key below that one: it took the lock, or started the create
\* function, in a call that it has since made others from.
LEMMA WaitersDescend ==
  ASSUME Ranked, WInv, NEW t \in Threads, NEW u \in Threads, WaitsFor(t, u)
  PROVE  /\ frame[t].key \in Keys /\ frame[t].at \in {"lock", "relock", "wait"}
         /\ frame[u].at \in {"lock", "relock", "wait"} => Below(frame[u].key, frame[t].key)
<1>0. TypeOK
  BY DEF WInv
<1>1. frame[t].at \in {"lock", "relock", "wait"}
  BY DEF WaitsFor, At
<1>2. frame[t].key \in Keys /\ Cache(t) = CacheOf[frame[t].key] /\ Cache(t) \in Caches
  BY <1>0, <1>1, Busy DEF KeyAt, Cache
<1>3. ASSUME frame[u].at \in {"lock", "relock", "wait"}
      PROVE  Below(frame[u].key, frame[t].key)
  <2>1. /\ Height(u) \in Depths(u) /\ Level(u, Height(u)) = frame[u]
        /\ \A d \in Depths(u) : d # Height(u) => d < Height(u) /\ Level(u, d).at = "create"
    BY <1>0, LevelTypes DEF Suspended
  <2>2. \A d \in Depths(u) : d # Height(u) => Below(frame[u].key, Level(u, d).key)
    BY <2>1 DEF WInv, Descends
  <2>3. CASE frame[t].at \in {"lock", "relock"} /\ lock[Cache(t)] = u
    <3>1. PICK d \in Depths(u) : Holder(u, d, Cache(t))
      BY <1>2, <2>3 DEF WInv, Has
    <3>2. Holds(Level(u, d), Cache(t))
      BY <3>1 DEF Holder
    <3>3. d # Height(u)
      BY <1>3, <2>1, <3>2 DEF Holds
    <3>4. kind[Cache(t)] # "deferred" /\ CacheOf[Level(u, d).key] = Cache(t)
      BY <2>1, <3>1, <3>2, <3>3 DEF Holds
    <3> QED
      BY <1>2, <2>2, <3>1, <3>3, <3>4 DEF Below
  <2>4. CASE At(t, "wait") /\ Runs(u, KeyAt(t))
    <3>1. PICK f \in Calls(u) : f.key = KeyAt(t) /\ f.at = "create"
      BY <2>4 DEF Runs
    <3>2. PICK d \in Depths(u) : f = Level(u, d)
      BY <1>0, CallsAreLevels
    <3>3. d # Height(u)
      BY <1>3, <2>1, <3>1, <3>2
    <3> QED
      BY <2>2, <3>1, <3>2, <3>3 DEF KeyAt
  <2> QED
    BY <2>3, <2>4 DEF WaitsFor
<1> QED
  BY <1>1, <1>2, <1>3

\* So no thread is reached by as many waits as there are threads: those passed on
\* the way are all different.
LEMMA WaitsEnd == ASSUME Ranked, IsFiniteSet(Threads), WInv PROVE NoCircularWait
<1> SUFFICES ASSUME NEW t \in Threads
             PROVE  LET reached[i \in 0 .. Cardinality(Threads)] ==
                          IF i = 0 THEN {t}
                          ELSE {u \in Threads : \E v \in reached[i - 1] : WaitsFor(v, u)}
                    IN reached[Cardinality(Threads)] = {}
  BY DEF NoCircularWait
<1> DEFINE N == Cardinality(Threads)
           Round(S) == {u \in Threads : \E v \in S : WaitsFor(v, u)}
           Reaches(f) == f = [i \in 0 .. N |-> IF i = 0 THEN {t} ELSE Round(f[i - 1])]
           reach == CHOOSE f : Reaches(f)
           Path(i, p) == p[0] = t /\ \A j \in 0 .. i - 1 : WaitsFor(p[j], p[j + 1])
           Ends(i) == {u \in Threads : \E p \in [0 .. i -> Threads] : Path(i, p) /\ p[i] = u}
<1>1. N \in Nat
  BY FS_CardinalityType
<1> HIDE DEF N
<1>2. Ends(0) = {t}
  <2> DEFINE p == [j \in 0 .. 0 |-> t]
  <2>1. p \in [0 .. 0 -> Threads] /\ Path(0, p) /\ p[0] = t
    OBVIOUS
  <2> QED
    BY <2>1
<1>3. ASSUME NEW i \in Nat PROVE Ends(i + 1) = Round(Ends(i))
  <2>1. ASSUME NEW u \in Ends(i + 1) PROVE u \in Round(Ends(i))
    <3>1. PICK p \in [0 .. i + 1 -> Threads] : Path(i + 1, p) /\ p[i + 1] = u
      OBVIOUS
    <3> DEFINE q == [j \in 0 .. i |-> p[j]]
    <3>2. q \in [0 .. i -> Threads] /\ q[i] = p[i] /\ q[0] = t
      BY <3>1
    <3>3. \A j \in 0 .. i - 1 : q[j] = p[j] /\ q[j + 1] = p[j + 1] /\ WaitsFor(p[j], p[j + 1])
      BY <3>1
    <3>4. WaitsFor(p[i], u)
      BY <3>1
    <3> HIDE DEF q
    <3>5. p[i] \in Ends(i)
      BY <3>2, <3>3
    <3> QED
      BY <3>4, <3>5
  <2>2. ASSUME NEW u \in Round(Ends(i)) PROVE u \in Ends(i + 1)
    <3>1. PICK v \in Ends(i) : WaitsFor(v, u)
      OBVIOUS
    <3>2. PICK p \in [0 .. i -> Threads] : Path(i, p) /\ p[i] = v
      BY <3>1
    <3> DEFINE q == [j \in 0 .. i + 1 |-> IF j = i + 1 THEN u ELSE p[j]]
    <3>3. q \in [0 .. i + 1 -> Threads] /\ q[i + 1] = u /\ q[0] = t
      BY <3>2
    <3>4. ASSUME NEW j \in 0 .. i PROVE WaitsFor(q[j], q[j + 1])
      <4>1. q[j] = p[j]
        OBVIOUS
      <4>2. CASE j = i
        BY <3>1, <3>2, <3>3, <4>1, <4>2
      <4>3. CASE j # i
        <5>1. j \in 0 .. i - 1 /\ q[j + 1] = p[j + 1]
          BY <4>3
        <5>2. WaitsFor(p[j], p[j + 1])
          BY <3>2, <5>1
        <5> HIDE DEF q
        <5> QED
          BY <4>1, <5>1, <5>2
      <4> QED
        BY <4>2, <4>3
    <3>5. (i + 1) - 1 = i
      OBVIOUS
    <3> HIDE DEF q
    <3> QED
      BY <3>3, <3>4, <3>5
  <2> QED
    BY <2>1, <2>2
<1> HIDE DEF Round, Ends
<1>4. \E f : Reaches(f)
  <2> DEFINE g == [i \in 0 .. N |-> Ends(i)]
  <2>1. ASSUME NEW i \in 0 .. N PROVE Ends(i) = IF i = 0 THEN {t} ELSE Round(g[i - 1])
    <3>1. CASE i # 0
      <4>1. i - 1 \in 0 .. N /\ i - 1 \in Nat /\ (i - 1) + 1 = i
        BY <1>1, <3>1
      <4>2. g[i - 1] = Ends(i - 1)
        BY <4>1
      <4>3. Ends(i) = Round(Ends(i - 1))
        BY <1>3, <4>1
      <4> HIDE DEF g
      <4> QED
        BY <3>1, <4>2, <4>3
    <3> QED
      BY <1>2, <3>1
  <2>2. Reaches(g)
    BY <2>1
  <2> HIDE DEF g, Reaches
  <2> QED
    BY <2>2
<1>5. Reaches(reach)
  <2> HIDE DEF Reaches
  <2> QED
    BY <1>4
<1> HIDE DEF reach
<1>6. \A i \in 0 .. N : reach[i] = IF i = 0 THEN {t} ELSE Round(reach[i - 1])
  BY <1>5
<1> DEFINE Waits(v) == frame[v].key \in Keys /\ frame[v].at \in {"lock", "relock", "wait"}
           Passed(S, i, u) ==
             /\ S \subseteq Threads /\ Cardinality(S) = i
             /\ \A v \in S : Waits(v) /\ (Waits(u) => Below(frame[u].key, frame[v].key))
           Good(i) == \A u \in reach[i] : u \in Threads /\ \E S : Passed(S, i, u)
<1>7. Good(0)
  <2>1. reach[0] = {t} /\ Passed({}, 0, t)
    BY <1>1, <1>6, FS_EmptySet
  <2> QED
    BY <2>1
<1>8. ASSUME NEW i \in 0 .. N, i # 0, Good(i - 1) PROVE Good(i)
  <2> SUFFICES ASSUME NEW u \in reach[i] PROVE u \in Threads /\ \E S : Passed(S, i, u)
    OBVIOUS
  <2>1. i \in Nat /\ i - 1 \in Nat
    BY <1>1, <1>8
  <2>2. PICK v \in reach[i - 1] : u \in Threads /\ WaitsFor(v, u)
    BY <1>6, <1>8 DEF Round
  <2>3. v \in Threads /\ \E S : Passed(S, i - 1, v)
    BY <1>8, <2>2
  <2>4. PICK S : Passed(S, i - 1, v)
    BY <2>3
  <2>5. Waits(v) /\ (Waits(u) => Below(frame[u].key, frame[v].key))
    BY <2>2, <2>3, WaitersDescend
  <2>6. v \notin S
    BY <2>4, <2>5, BelowIsOrder
  <2>7. S \union {v} \subseteq Threads /\ Cardinality(S \union {v}) = i
    <3>1. S \in SUBSET Threads /\ Cardinality(S) = i - 1
      BY <2>4
    <3>2. IsFiniteSet(S)
      BY <3>1, FS_Subset
    <3>3. Cardinality(S \union {v}) = Cardinality(S) + 1
      BY <2>6, <3>2, FS_AddElement
    <3> QED
      BY <2>1, <2>3, <3>1, <3>3
  <2>8. ASSUME NEW x \in S \union {v}
        PROVE  Waits(x) /\ (Waits(u) => Below(frame[u].key, frame[x].key))
    <3>1. CASE x = v
      BY <2>5, <3>1
    <3>2. CASE x \in S
      <4>1. Waits(x) /\ Below(frame[v].key, frame[x].key)
        BY <2>4, <2>5, <3>2
      <4> QED
        BY <2>5, <4>1, BelowIsOrder
    <3> QED
      BY <3>1, <3>2
  <2>9. Passed(S \union {v}, i, u)
    BY <2>7, <2>8
  <2> QED
    BY <2>2, <2>9
<1> HIDE DEF Good
<1>9. Good(N)
  <2> DEFINE Bad == {i \in 0 .. N : ~Good(i)}
  <2>1. SUFFICES ASSUME Bad # {} PROVE FALSE
    BY <1>1
  <2>2. PICK i \in Bad : \A j \in Bad : i <= j
    <3>1. Bad \subseteq Nat
      OBVIOUS
    <3> HIDE DEF Bad
    <3> QED
      BY <2>1, <3>1, QueueFacts!LeastNatural
  <2>3. i \in 0 .. N /\ ~Good(i) /\ i # 0
    BY <1>7, <2>2
  <2>4. i - 1 \in 0 .. N /\ i - 1 < i
    BY <1>1, <2>3
  <2>5. Good(i - 1)
    BY <2>2, <2>3, <2>4
  <2> QED
    BY <1>8, <2>3, <2>5
<1>10. reach[N] = {}
  <2> SUFFICES ASSUME NEW u \in reach[N] PROVE FALSE
    OBVIOUS
  <2>1. PICK S : u \in Threads /\ Passed(S, N, u)
    BY <1>9 DEF Good
  <2>2. S = Threads
    BY <2>1, FS_Subset DEF N
  <2>3. Waits(u) /\ Below(frame[u].key, frame[u].key)
    BY <2>1, <2>2
  <2> QED
    BY <2>3, BelowIsOrder
<1> QED
  BY <1>10 DEF reach, Reaches, Round, N

\* Threads never wait for each other in a circle, nor one for itself, for any
\* number of threads and caches of every kind and any nesting, as long as create
\* functions call caches that are further down, and their own cache only when it
\* is deferred and for keys that do not need each other.
THEOREM NobodyWaitsInACircle ==
  ASSUME Ranked, IsFiniteSet(Threads) PROVE Spec => []NoCircularWait
<1>1. WInv /\ [Next]_vars => WInv'
  BY StepWaits
<1>2. WInv => NoCircularWait
  BY WaitsEnd
<1> QED
  BY InitWaits, <1>1, <1>2, PTL DEF Spec
=============================================================================
