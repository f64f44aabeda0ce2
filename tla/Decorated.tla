------------------------------ MODULE Decorated ------------------------------
(***************************************************************************)
(* One synchronous shard with the decorators that build() gives it: the    *)
(* callbacks run in the order of DecoratorSet on the expire queue, the     *)
(* access times (access_expire_decorator.h), the age (max_age_decorator.h) *)
(* and the counters (stats.h).  Time passes between calls and while a      *)
(* value is made, which is done under the lock; the rest of a call takes   *)
(* no time.  All keys are in one bucket and the load factor is large       *)
(* enough that the map does not grow.  max_memory is MemUse's subject.     *)
(***************************************************************************)
EXTENDS DecoratorSet, ExpireQueueOps, FiniteSets

CONSTANTS
  Addr,     \* the elements a cache may create
  Keys,
  None,     \* no key
  Configs,  \* the settings a cache may be built from
  MaxTime,  \* bound on the clock
  MaxGets,  \* bound on the calls of get when they are counted
  Horizon   \* the time points that can be represented are -Horizon .. Horizon - 1

ASSUME TimeAssumption == {MaxTime, MaxGets, Horizon} \subseteq Nat /\ Horizon > MaxTime

\* A setting is not negative, max_size is set to one value at most, and async is a
\* flag (builder.h).
ASSUME ConfigAssumption ==
  \A s \in Configs :
    /\ s.async \in BOOLEAN
    /\ s.max_age \union s.access_expire \union s.max_size \subseteq Nat
    /\ \A m, n \in s.max_size : m = n

VARIABLES
  settings,    \* what the cache was built from
  decorators,  \* the decorators that build() chose for it
  now,         \* clock_type::now()
  cache,       \* the state of the cache, a record:
               \*   chain   the elements of the bucket
               \*   queue   the expire queue
               \*   strong  the elements that hold their value by a strong pointer
               \*   key     the key of each element
               \*   age     max_age_expire_ of each element
               \*   access  access_expire_ of each element
               \*   hits, misses, deletes  the counters of stats_record
  creating,    \* the creation under way, if any: its key, and when it began
  held,        \* the elements whose value is referenced from outside
  life         \* "open", "closing" in the destructor, then "gone"; "failed"
               \* if an assertion ended the program

config == <<settings, decorators>>
vars == <<config, now, cache, creating, held, life>>

Has(d) == d \in ToSet(decorators)
Timed == settings.max_age # {} \/ settings.access_expire # {}

\* t + duration, in the width of a time_point.
Until(t, duration) ==
  LET d == CHOOSE v \in duration : TRUE
  IN IF duration = {} THEN 0 ELSE ((t + d + Horizon) % (2 * Horizon)) - Horizon

\* element::is_expired, of an element whose value is referenced outside if it
\* is in R.
Aged(c, e) == settings.max_age # {} /\ now > c.age[e]
Expired(c, R, e) == Aged(c, e) \/ (e \notin c.strong /\ e \notin R)

-----------------------------------------------------------------------------
\* Erasing elements: on_delete of the queue and of the counters.
Mut_Erase(c, e) ==
  [c EXCEPT !.chain = RemoveFirst(@, e), !.queue = Unlink(@, e),
            !.deletes = IF Has("stats") THEN @ + 1 ELSE @]
Erase(c, e) ==
  [c EXCEPT !.chain = RemoveFirst(@, e),
            !.queue = Unlink(@, e),
            !.strong = @ \ {e},
            !.key[e] = None, !.age[e] = 0, !.access[e] = 0,
            !.deletes = IF Has("stats") THEN @ + 1 ELSE @]

\* The elements of D, in the order of the chain.
EraseAll(c, D) ==
  LET after[i \in 0 .. Len(c.chain)] ==
        IF i = 0 THEN c
        ELSE IF c.chain[i] \in D THEN Erase(after[i - 1], c.chain[i]) ELSE after[i - 1]
  IN after[Len(c.chain)]

\* shrink_to_size and shrink_while leave the queue q: what they drop is
\* weakened, and erased if that made it expire.  e is locked.
DropTo(c, q, R, e) ==
  LET dropped == Queued(c.queue) \ Queued(q)
      weak == [c EXCEPT !.queue = q, !.strong = @ \ dropped]
  IN EraseAll(weak, {x \in dropped \ {e} : Expired(weak, R, x)})

\* expire_queue: link or promote e, then cleanup_.
Queue(event, c, R, e) ==
  LET linked ==
        IF event = "create" THEN [c EXCEPT !.queue = LinkCold(@, e)]
        ELSE IF e \in Queued(c.queue) THEN [c EXCEPT !.queue = Promote(@, e)]
        ELSE [c EXCEPT !.queue = LinkCold(@, e), !.strong = @ \union {e}]
      q == Cleanup(linked.queue, {x \in Queued(linked.queue) \ {e} : Expired(linked, R, x)})
  IN EraseAll(linked, Queued(linked.queue) \ Queued(q))

\* access_expire_decorator: a hit renews the time, then the coldest elements
\* go as long as their time is over.
Mut_AccessStale(event, c, R, e) ==
  LET over == {x \in Queued(c.queue) : c.access[x] < now}
      d == DropTo(c, ShrinkWhile(c.queue, over), R, e)
  IN [d EXCEPT !.access[e] = Until(now, settings.access_expire)]
Mut_AccessEarly(event, c, R, e) ==
  LET renewed == IF event = "hit"
                 THEN [c EXCEPT !.access[e] = Until(now, settings.access_expire)] ELSE c
      over == {x \in Queued(c.queue) : renewed.access[x] <= now}
  IN DropTo(renewed, ShrinkWhile(renewed.queue, over), R, e)
Access(event, c, R, e) ==
  LET renewed == IF event = "hit"
                 THEN [c EXCEPT !.access[e] = Until(now, settings.access_expire)] ELSE c
      over == {x \in Queued(c.queue) : renewed.access[x] < now}
  IN DropTo(renewed, ShrinkWhile(renewed.queue, over), R, e)

Callback(d, event, c, R, e) ==
  CASE d = "stats" -> IF event = "hit" THEN [c EXCEPT !.hits = @ + 1]
                                       ELSE [c EXCEPT !.misses = @ + 1]
    [] d = "weaken" /\ event = "create" -> [c EXCEPT !.strong = @ \ {e}]
    [] d = "expire_queue" -> Queue(event, c, R, e)
    [] d = "access_expire" -> Access(event, c, R, e)
    [] d = "max_size" ->
         LET n == CHOOSE v \in settings.max_size : TRUE
         IN DropTo(c, ShrinkTo(c.queue, n), R, e)
    [] OTHER -> c

\* decorators_on_create_ and decorators_on_hit_.
Dispatch(event, c, R, e) ==
  LET after[i \in 0 .. Len(decorators)] ==
        IF i = 0 THEN c ELSE Callback(decorators[i], event, after[i - 1], R, e)
  IN after[Len(decorators)]

-----------------------------------------------------------------------------
Init ==
  /\ settings \in Configs /\ decorators = Decorators(settings)
  /\ now = 0
  /\ cache = [ chain |-> <<>>, queue |-> EmptyQueue, strong |-> {},
               key |-> [e \in Addr |-> None],
               age |-> [e \in Addr |-> 0], access |-> [e \in Addr |-> 0],
               hits |-> 0, misses |-> 0, deletes |-> 0 ]
  /\ creating = {} /\ held = {}
  /\ life = "open"

\* The walk of a bucket for key k: the first usable element of the key, if
\* there is one, and the cache without the expired elements before it.
Usable(k) == {i \in DOMAIN cache.chain :
                /\ cache.key[cache.chain[i]] = k
                /\ ~Expired(cache, held, cache.chain[i])}
Walked(upto) ==
  EraseAll(cache, {x \in ToSet(SubSeq(cache.chain, 1, upto)) : Expired(cache, held, x)})

\* No call is under way.
Idle == life = "open" /\ creating = {}
MayGet == Idle /\ (Has("stats") => cache.hits + cache.misses < MaxGets)

GetHit(k, e) ==
  /\ MayGet
  /\ held' = held \union {e}
  /\ \E i \in Usable(k) :
       /\ \A j \in Usable(k) : i <= j
       /\ e = cache.chain[i]
       /\ cache' = Dispatch("hit", Walked(i), held \union {e}, e)
  /\ UNCHANGED <<config, now, creating, life>>

\* A miss: the walk ends, and create_fn takes the times of the element and
\* starts the create function.
Miss(k) ==
  /\ MayGet
  /\ Usable(k) = {}
  /\ cache' = Walked(Len(cache.chain))
  /\ creating' = {[key |-> k, start |-> now]}
  /\ UNCHANGED <<config, now, held, life>>

\* The value is there: e is linked and meets the decorators.  It is returned,
\* unless it is too old by now: then its pointer is nil, and the assertion of
\* lookup_or_create fails.
Create(e) ==
  /\ \E m \in creating :
       LET created == [cache EXCEPT !.chain = Append(@, e), !.strong = @ \union {e},
                                    !.key[e] = m.key,
                                    !.age[e] = Until(m.start, settings.max_age),
                                    !.access[e] = Until(m.start, settings.access_expire)]
       IN /\ e \notin ToSet(cache.chain) \union held
          /\ cache' = Dispatch("create", created, held \union {e}, e)
          /\ IF Aged(created, e) THEN life' = "failed" /\ UNCHANGED held
                                 ELSE held' = held \union {e} /\ UNCHANGED life
  /\ creating' = {}
  /\ UNCHANGED <<config, now>>

\* The create function throws: undo_allocation_.
CreateThrows ==
  /\ creating # {}
  /\ creating' = {}
  /\ UNCHANGED <<config, now, cache, held, life>>

\* get_if_present neither cleans up nor calls the decorators.
Peek(k) ==
  /\ Idle
  /\ \E i \in Usable(k) :
       /\ \A j \in Usable(k) : i <= j
       /\ held' = held \union {cache.chain[i]}
  /\ UNCHANGED <<config, now, cache, creating, life>>

Expire(k) ==
  /\ Idle
  /\ IF Usable(k) = {} THEN cache' = Walked(Len(cache.chain))
     ELSE \E i \in Usable(k) :
            /\ \A j \in Usable(k) : i <= j
            /\ cache' = Erase(Walked(i), cache.chain[i])
  /\ UNCHANGED <<config, now, creating, held, life>>

\* The last reference from outside goes away.
Release(e) ==
  /\ e \in held
  /\ held' = held \ {e}
  /\ UNCHANGED <<config, now, cache, creating, life>>

Tick ==
  /\ Timed /\ life = "open" /\ now < MaxTime
  /\ now' = now + 1
  /\ UNCHANGED <<config, cache, creating, held, life>>

\* ~wrapper destroys the cache first: erase_all calls on_delete, and the record
\* of the statistics is still there.
Close ==
  /\ Idle
  /\ life' = "closing"
  /\ UNCHANGED <<config, now, cache, creating, held>>

Mut_Destroy ==
  /\ life = "closing"
  /\ cache' = [cache EXCEPT !.chain = <<>>] /\ life' = "gone"
  /\ UNCHANGED <<config, now, creating, held>>
Destroy ==
  /\ life = "closing"
  /\ IF cache.chain = <<>> THEN life' = "gone" /\ UNCHANGED cache
                           ELSE cache' = Erase(cache, Head(cache.chain)) /\ UNCHANGED life
  /\ UNCHANGED <<config, now, creating, held>>

Next ==
  \/ \E k \in Keys, e \in Addr : GetHit(k, e)
  \/ \E k \in Keys : Miss(k)
  \/ \E e \in Addr : Create(e)
  \/ CreateThrows
  \/ \E k \in Keys : Peek(k)
  \/ \E k \in Keys : Expire(k)
  \/ \E e \in Addr : Release(e)
  \/ Tick
  \/ Close
  \/ Destroy

Spec == Init /\ [][Next]_vars

-----------------------------------------------------------------------------
TypeOK ==
  /\ settings \in Configs /\ now \in 0 .. MaxTime
  /\ cache.chain \in Seq(Addr) /\ cache.strong \subseteq ToSet(cache.chain)
  /\ cache.queue.order \in Seq(Addr) /\ cache.queue.hots \in 0 .. QSize(cache.queue)
  /\ cache.key \in [Addr -> Keys \union {None}]
  /\ {cache.age, cache.access} \subseteq [Addr -> -Horizon .. Horizon - 1]
  /\ {cache.hits, cache.misses, cache.deletes} \subseteq Nat
  /\ creating \subseteq [key : Keys, start : 0 .. now] /\ (\A m, n \in creating : m = n)
  /\ held \subseteq Addr /\ life \in {"open", "closing", "gone", "failed"}

\* The creation under way has not taken longer than the access time.
InTime == \A m \in creating : \A d \in settings.access_expire : now <= m.start + d

Got(e) == (\E k \in Keys : GetHit(k, e)) \/ Create(e)

\* LimitActs: whatever the other settings, between calls at most max_size
\* elements are kept alive by the cache, and they are the queued ones: no
\* decorator links or strengthens after max_size_decorator has shrunk the queue
\* (the order of the decorators, impl.h and cache_impl.h).
LimitActs ==
  /\ cache.strong = Queued(cache.queue)
  /\ \A n \in settings.max_size : Cardinality(cache.strong) <= n

\* AccessKept: without a size limit, nothing takes an element from the queue
\* before its access time is over, unless it is too old, expired by a call or
\* the cache is destroyed ("Try to keep items in the cache for the given
\* duration after access", builder.h).
AccessKept ==
  [][ settings.access_expire # {} /\ settings.max_size = {} /\ life = "open" =>
        \A e \in Queued(cache.queue) \ Queued(cache'.queue) :
          \/ cache.access[e] < now \/ Aged(cache, e)
          \/ Expire(cache.key[e]) ]_vars

\* GotIsKept: the element that a get returns is on the queue afterwards, for the
\* duration that counts from the hit or from the start of its creation: neither an
\* access time that was over when it was hit nor the maintenance of the call takes
\* it away, unless a size limit does or its creation took longer than the duration
\* ("The cache will keep the accessed item around for this duration",
\* access_expire_var in builder.h).
GotIsKept ==
  [][ \A e \in Addr :
        Got(e) /\ InTime /\ settings.access_expire # {} /\ settings.max_size = {}
          => e \in Queued(cache'.queue) ]_vars

\* SlowIsKept: the same, however long the creation took.
SlowIsKept ==
  [][ \A e \in Addr :
        Create(e) /\ settings.access_expire # {} /\ settings.max_size = {}
          => e \in Queued(cache'.queue) ]_vars

\* StatsBalance: the counters of misses and deletes differ by the number of
\* elements in the cache, at any time and until the cache is gone (stats.h).
StatsBalance ==
  Has("stats") => cache.misses - cache.deletes = Len(cache.chain)

\* ExceededRemoved: after a get no element is on the queue whose access time is
\* over ("Removes items from the expire_queue, which exceed their access_expire
\* timer", access_expire_decorator.h).
ExceededRemoved ==
  [][ (\E e \in Addr : Got(e)) /\ settings.access_expire # {}
        => \A e \in Queued(cache'.queue) : cache'.access[e] >= now ]_vars
=============================================================================
