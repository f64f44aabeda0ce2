# Verification of monsoon_cache

TLA+ models of the in-memory cache of this repository (`include/monsoon/cache`,
a header-only C++17 library), TLC runs on small instances, and TLAPS proofs for
every size. Paths below are relative to `include/monsoon/cache` unless they
name another directory.

## The system

A cache maps keys to shared pointers. A `builder` selects decorators, and
`cache_impl` inherits from all of them; every callback (`on_create`, `on_hit`,
`on_delete`) is dispatched to each decorator that has it.

| part | state | operations | what makes it correct |
|---|---|---|---|
| `cache_impl` (cache_impl.h) | bucket vector, `size_`, the lock of `thread_safe_decorator` | `get`, `get_if_present`, `expire`, `resolve_`, `maybe_rehash_` | one live element per key; a held value is found; the lock is released; growth loses nothing |
| `bucket` (bucket.h) | a chain of elements | walks that erase expired elements, insert, erase, rehash | never erases what is alive or pinned |
| `element` (element.h) | nil, weak pointer, strong pointer or future, with flags `strong` and `expired`; `use_count` | `ptr`, `is_expired`, `resolve`, `weaken`, `strengthen`, `expire` | an expired element is never served again; a future is always resolved |
| `store_delete_lock` (store_delete_lock.h) | a pin on an element | constructor, destructor | a pinned element is not erased |
| `expire_queue` (expire_queue.h) | hot list, cold list, their lengths | `on_create`, `on_hit`, `on_delete`, `shrink_to_size`, `shrink_while`, `cleanup_` | balanced, bounded, links only living elements; hot elements survive a scan |
| `max_size`, `access_expire`, `max_memory` decorators | limits, access times, memory in use | shrink the queue on `on_create` and `on_hit` | the limit holds after every operation |
| `max_age` decorator | a time per element | `is_expired` | too old elements are not served |
| `create_handler` (create_handler.h) | a deferred future | runs the create function under the lock, or later without it | creation runs once, and its exception reaches every caller |
| `wrapper`, `sharded_wrapper` (impl.h) | one cache, or an array of them | forward each call | a key always goes to the same shard; limits hold for all shards together |
| `cache_allocator`, `mem_use` (allocator.h, mem_use.h) | bytes in use | add, subtract | nothing is counted twice, or left when it is freed |
| `stats` (stats.h) | counters of hits, misses and deletes | increments from the callbacks | every element is counted once when it comes and once when it goes |
| `builder` (builder.h, `build()` in impl.h) | a list of settings | setters, `build` | a setting is what was asked for last; the decorators come in an order that works |

Clients interact with the cache through calls and through the references they
hold: an element with a weak pointer expires when the last client drops its
value, on any thread, at any moment, without the lock. Time does the same to an
element with `max_age`.

The hard parts are therefore: what other threads do to an element while its
creator waits for the create function without the lock; pointers that die
between a check and a use; the maintenance of the queue, which runs inside hits
and creations and erases elements; exceptions of the create function, which
arise under the lock (synchronous) or outside it (asynchronous) and reach
several threads; and the growth of the bucket vector between two lookups.
`PROJECT.json` lists the hazards line by line with the properties that cover
them.

## Modules

| module | models | about |
|---|---|---|
| `ExpireQueueOps` | expire_queue.h | the queue as a value: one operator per member function, loops in closed form |
| `ExpireQueue` | expire_queue.h, max_size_decorator.h and the part of an element they use | the queue in use by a cache; each action is one critical section |
| `ExpireRing` | `expire_link`, `base_expire_queue`, `expire_queue` | the same down to the pointers, loops one element per step |
| `Cache` | cache_impl.h, bucket.h, element.h, create_handler.h, max_age_decorator.h, weaken_decorator.h | the cache with its threads |
| `CacheQueue` | the composition of `Cache` and `ExpireQueue` | every step of `Cache` is a step of `ExpireQueue` |
| `CacheContract` | cache.h | what clients are promised: calls that take effect at one moment on one value per key |
| `CacheClients` | the composition of `Cache` and `CacheContract` | every step of `Cache` is a step of `CacheContract`, or invisible |
| `Table` | what the buckets promise | a set of elements |
| `Buckets` | bucket.h, and `maybe_rehash_` and the destructor of cache_impl.h | the hash map down to the pointers; implements `Table` |
| `Reentrant` | create_handler.h, `resolve_` | create functions that call caches: locks, futures, and who runs what |
| `DecoratorSet` | the appliers of impl.h | which decorators a cache gets, in which order |
| `Builder` | builder.h, `build()` of impl.h | setters and the decisions of `build()` |
| `Decorated` | max_age, access_expire and max_size decorators, stats.h | one shard with the decorators of `DecoratorSet`, on a clock |
| `ShardedCache` | the builders and wrappers of impl.h | construction and destruction of the shards, routing, limits, memory trackers |
| `MemUse` | allocator.h, mem_use.h | the memory counter, and the shrink of max_memory |
| `MCBucketsBuilt` | - | one specification for the caches that can be built on `Buckets`: synchronous, asynchronous, and one whose create functions call back |
| `MCExpireQueue`, `MCExpireRing`, `MCCache`, `MCBuckets`, `MCReentrant`, `MCDecorated`, `MCShardedCache`, `MCMemUse` | - | instances for TLC |
| `ExpireQueueOps_proofs`, `ExpireQueue_proofs`, `ExpireRing_proofs`, `Cache_proofs`, `Buckets_proofs`, `Reentrant_proofs`, `MemUse_proofs`, `Built_proofs` | - | lemmas and theorems |

How they fit together. `ExpireQueueOps` is at the bottom: `ExpireQueue`, `Cache`,
`Decorated`, `ShardedCache` and `MemUse` use its operators, and `ExpireRing` shows
that the code computes them. `Cache` is in the middle, with a bucket as a set;
`Buckets` shows below it that chains of pointers are such sets, and
`CacheContract` says above it what is left for a client to see. `Reentrant`
looks at several caches at once, each only a lock and what it holds for a key.
`Builder` and `Decorated` share `DecoratorSet`: the first shows that the list of
decorators has the right order, the second what goes on inside.

A definition named `Mut_...` is a deliberately wrong variant of the definition
after it, used by no specification. The mutation runs of `PROJECT.json` put it
in the place of the right one, and the property named there must then fail.

### ExpireQueue

The queue is a record: `order` is the hot list followed by the cold list, and
`hots` is `hot_qlen`. `rebalance_` only moves the border between the two lists.
`Create`, `Hit` and `Delete` are the callbacks with the whole maintenance that
ends them (`cleanup_`, then the decorators' shrink): the model has no separate
maintenance step. `Keep` is the size the decorators shrink to. `max_size`
always shrinks to its limit; what `access_expire` and `max_memory` leave depends
on the clock and on the allocator, so with `Pressure` any size up to the limit
is possible. Elements are pinned, held and dropped by the environment actions
`Unpin`, `Peek`, `Release` and `Void`.

### ExpireRing

Every pointer carries in its lowest bit the id of the queue it belongs to, and the
two lengths are counted apart. `ring` and `qlen` are these; each exchange of
links is one operator (`LinkAfter`, `LinkBefore`, `Detach`). The loops of
`rebalance_`, `cleanup_`, `shrink_to_size` and `shrink_while` take one step for each
element. `goal` is the queue that `ExpireQueueOps` computes when a member
function is entered, and `ComputesQueue` compares when it is left. `present`,
`held`, `void` and `pinned` are the cache around the queue. A shrink asked for by
`shrink_while` takes any number of elements.

### Cache

`pc[t]` says where thread t is:

| `pc` | the thread is |
|---|---|
| `idle`, `lock` | outside; about to lock the mutex (`Call`, `Lock`) |
| `walk` | walking the bucket of its key, with the lock (`VisitStale`, `VisitOther`, `VisitMatch`, `ExpireMatch`, `Missed`) |
| `ptr` | between `is_expired()` and `ptr()` of the element it matched (`PtrNil`, `Found`) |
| `wait` | the creator, waiting for the future without the lock (`Settle`, `Resolve`) |
| `join` | another thread, waiting for the same future (`Settle`, `Join`) |
| `rehash`, `sweep` | in `maybe_rehash_` with the lock (`StartRehash`, `Sweep`, `Return`) |
| `unwind` | leaving `lookup_or_create` with the exception (`Unwind`) |
| `failed`, `terminated` | past a failed assertion; past `std::terminate` |

One step of a walk is one element, because the environment steps `Drop` and
`Age` happen between them. Within such a step the model is atomic: the lock
excludes other threads, and reading whether a weak pointer is dead is a single
read. The pin of a hit (`slck` in bucket.h) begins and ends inside `Found`, so
only creators' pins are seen in `pinned`.

`ptr[e]` is the variant of element.h without the future. `async` is the set of
elements that hold a future; for these `ptr[e]` is the flag `strong`, and
`doomed` the flag `expired`. `voided` is a history variable: the elements for
which `expire()` has returned true.

An element of `Elem` stands for an element and its value. It may be used again
only when it has left the cache and nobody refers to the value. When all
elements of a key are in use, the allocation fails (`CreateFails`), which the
code allows at any time.

### CacheQueue

`ImplementsQueue` states that `Cache`, with any number of threads, implements
`ExpireQueue`: a value is `held` when a client, a thread or a future holds it,
and an element is `void` when it is nil or too old. So what is shown of
`ExpireQueue` holds inside the cache. `CacheUsesQueue` proves it for a cache with a
queue, provided it is asynchronous or has no `max_age`.

### CacheContract and CacheClients

`CacheContract` has one `current` value per key and, for each thread, how far its
call is. `Hit`, `Miss`, `Expire` and `Create` are the moments at which a call takes
effect. What is not promised is as explicit: `Become` lets any current value be
forgotten that nobody holds or has in hand, and with `MaxAge` any value at all. A
value is current while it is created (`creating`): others join it, and `Expire`
only marks it (`doomed`), which is what disagreement 1 is about.

`CacheClients` maps `Cache` to it. The current value of a key is the element that a
lookup would serve; a thread has taken effect when it has an element in `cur`,
except between `is_expired()` and `ptr()`, where it may still fail to. So
`KeepsContract` says that neither the walk, during which values die, nor the
maintenance, the sweep or the growth of the map can be seen from outside.
`CacheKeepsContract` proves it, under the two conditions named there.

### Buckets and Table

A location is the number of a bucket or the address of an element; `link` says
what the pointer at a location points to. The iterator of the code is the
address of such a pointer, here `iter`. A walk, the `erase` of an eviction, the
sweep, the rehash and the destructor take one step per element. The order of a
chain is that of the code: new elements at the end of the walk, rehashed ones at
the head. An element may expire at any step. In an async cache other calls come
between linking and resolving an element (`pinned`). In a cache without locks, and
with `Recursive`, the create function may call back: `saved` is the stack of the
suspended calls, `Dangling` the address of a bucket of a vector that was freed.

`Table` is what `Cache` takes for granted of it: a set to which elements are added
when no usable one of their key is there, and which they leave only when they
are expired and not pinned. `ImplementsTable` maps the chains to it, and is proved
for create functions that do not call back.

### Reentrant

A thread has a stack of calls: the innermost in `frame`, the ones whose create
functions it runs in `below`. A key needs other keys (`Needs`), whose caches can
be of three kinds (see the module). With `deferred` and `sync`, whoever waits
first runs the create function; with `future`, it runs in the walk, and its future
completes elsewhere. A create function calls caches below its own, and its own
where the kind is in `Own`. The comment on `resolve_` promises the latter for async
caches; it holds for `deferred` ones, and disagreement 9 is about the others. Without
the layers two sync caches whose create functions call each other deadlock, which
no document claims to be safe.

### Builder and DecoratorSet

A builder is the list of its variables. A setter rebuilds the list with one type
replaced, and each variable of the new list copies from the old one if it is of
the same type; `builder_rewrite` and the constructors are modelled so, and
`asked` is the history of what the caller asked for. `Build` validates as the code
does, chooses the number of shards and the mutex, and applies the appliers of
`DecoratorSet` in order. Sizes and durations are one of two values each.

### Decorated

One synchronous shard, a call being one step, since what happens inside a call is
the matter of `Cache`. Only a miss is two steps, as time passes while the create
function runs under the lock: `Miss` ends the walk and takes the times of the
element, in `creating`; `Create` links it and runs the decorators, which read the
clock again. The callbacks run over the cache in the order of the list
that `DecoratorSet` computes. The loops over that list and over the chain are
recursive functions, so that they can be proved about. The clock moves between calls
and during a creation, and a time point wraps
at `Horizon`. `LimitActs` says what each limit means after a call, `AccessKept` and
`GotIsKept` that nothing leaves before its time or in the call that served it, and
`StatsBalance` that every element was counted once for each way in and out.
`GotIsKept` is about creations that take no longer than the access time (`InTime`),
because a slower one loses its element in the call itself (disagreement 10).

### ShardedCache

`phase` follows the object: `building`, then `unset` until `build()` hands over
its memory tracker with `set_mem_use`, `ready` for calls, `dying` and `gone`;
or `unwinding` and `failed` when a constructor throws. `built` is
`num_shards_`, which the catch handler and the destructor count down. Tracker
s is the one made for shard s; `bills[s]` is the tracker its allocator adds to,
`consults[s]` the one its max_memory decorator reads. `wrapper`, the cache
without shards, is the case of `shards` 0 or 1. A shard is reduced to the queue
of the keys it keeps, and a call to one critical section of its shard: what
happens inside is the matter of `Cache`. The shard of a key is computed in
`size_t`, which wraps at `Values`. The code writes this computation out in each of
five overrides, and so does the model (`ExpireShard` to `QueryShard`): `FoundAgain`
says that what one override brings in all the others find.

### MemUse

A block is the value of one element with its control block. The counter is an
atomic beside the cache, so the model has what the lock does not order:
`DropErased` and `Release` give a block back, `LockTracker` locks the weak
pointer to the tracker, `Subtract` subtracts, each a step of its own and on any
thread, also after `Gone`. `Create` is one step although it adds to the counter,
links the element and reads the counter again: what others subtract in between
could as well have been subtracted before. All blocks have one size. The share
that remains after a shrink is a ratio of floats. `Keeps` is the set of sizes it can
come out as when the result of all roundings is right to one part in `Accuracy`: each
of the five (limit, counter, quotient, queue length, product) is off by at most 2^-24
of its value, so that 2^21 is safe for the floats of the build. So a shrink may
take off nothing although the limit is exceeded; `QueueFits` says that this does not
add up, the queued values staying within (1 + 1/`Accuracy`) times the limit.

The cache of `MemUse` is a synchronous one. An asynchronous cache links an element and
runs its maintenance before the value is allocated, so that `max_memory` bounds
only what is already there: with blocks of 2 bytes, 1 byte overhead and a limit of 5, three
creations one after the other see 1, 3 and 5 bytes, none shrinks, and 6 bytes
are kept. The documents promise no more than "a size that probably is fine" (mem_use.h).
`ImplementsQueue`, checked and proved, shows `MemUse` to be an
instance of `ExpireQueue` with `Pressure`.

## Runs

| run | instance | shows |
|---|---|---|
| `ExpireQueue` | 4 elements, limit 3, any eviction up to it, symmetric | Balanced, SizeBound, QueueLinksLive, QueuedIsStrong, ScanResistance, EvictedIsRevived |
| `ExpireRing` | 3 elements | Rings, ComputesQueue, LoopsEnd |
| `Cache_sync` | 2 threads, 2 keys, 3 elements, limit 1, all operations | ExpiredNotServed, KeepsContract |
| `Cache_async` | the same, asynchronous, with exceptions | FutureHasCreator, HeldIsFound, UniqueLive, ExpireTakesEffect, ImplementsQueue |
| `Cache_live` | 2 threads, 1 key with 2 elements, asynchronous, `max_age`, no queue | PinsProtect, KeepsContract, CallsReturn |
| `Buckets` | 3 addresses; three keys in one bucket of which one later parts, synchronous and asynchronous, with a queue, `Spread` 2; and two keys in buckets of their own, whose create functions call back up to 3 times | Threaded, Findable, ImplementsTable |
| `Reentrant` | 2 threads, 4 keys in 3 caches one above the other, every kind of cache, `deferred` ones also calling themselves | LocksAreShort, CreatedOnce, NoCircularWait, NestedCallsReturn |
| `Builder` | every chain of setters over two values per setting | SettingsKept, QueueServesLimits |
| `Decorated` | 3 elements, 2 keys; every combination of max_age, access_expire and max_size with a clock from 0 to 4 that also runs during creations, and statistics with up to 5 counted calls | TypeOK, LimitActs, AccessKept, GotIsKept, StatsBalance |
| `ShardedCache_build` | 3 keys, up to 3 shards, limit 2, every builder configuration, 16 values of `size_t` | ShardsAccounted, OwnTracker, FoundAgain |
| `MemUse` | 2 threads, 3 blocks of 2 bytes, 1 byte overhead, `max_memory` 4, floats right to one part in 4, 8 values of the counter | Accounted, TrackerOutlivesUse, QueueFits, ImplementsQueue |
| `Cache_peek_throw` | 2 threads, 1 key, 1 element, asynchronous | PeekNeverTerminates is violated: the finding below |

Every run lives in the configuration of its name. The other configurations
answer questions of their own and are run by hand, with
`tlc -config X.cfg M.tla`, where M is the `MC` module of the component (for
`Builder`, the module itself). The first three pass, the others end in a violation, as the
section on disagreements explains.

| configuration | instance | shows |
|---|---|---|
| `Buckets_sync` | as the synchronous part of `Buckets`, `Spread` 9 | LoadKept; EraseFinds; AllDestroyed: the destructor deletes every element |
| `Buckets_live` | 2 addresses, with fairness | WalksEnd: the loops over the chains end |
| `Reentrant_three` | 3 threads, 3 keys in a chain of needs, one async cache | TypeOK, LocksAreShort, CreatedOnce, NoCircularWait |
| `Cache_expire_async` | 2 threads, 1 key, 1 element | ExpiredNotServed is violated in an async cache |
| `Cache_slow_create` | the same, synchronous, `max_age` | CreatedIsServed is violated |
| `ShardedCache_size` | as `ShardedCache_build` | TotalBound is violated |
| `Buckets_nested` | as the synchronous part of `Buckets`, recursive | EraseFinds is violated |
| `Buckets_lowload` | the same, not recursive, `Spread` 10 | LoadKept is violated |
| `Builder_identity` | as `Builder`, without key type | AsyncIsIgnored is violated |
| `Decorated_stale`, `Decorated_overflow` | access_expire alone; a duration near the end of the clock | ExceededRemoved and GotIsKept are violated |
| `Decorated_slow` | access_expire alone, creations of any length | SlowIsKept is violated |
| `Reentrant_future` | 3 threads, one cache of kind `future`, `Own` = `future` | NoCircularWait is violated |

Why the bounds are enough for what they ask. A limit of 1 makes every second
creation evict, and makes the maintenance reach the element in hand. Two
elements for one key are the case of a dying element beside its successor. The
keys have hash codes 3 and 0: they share a bucket of three, and part when the
vector grows to nine, which `Spread` 2 causes at the second element and
`Spread` 4 at the first. Two threads are a creator and one
other; a third would be another reader of the same future. Symmetry permutes
threads and elements of one key, or elements or addresses where keys do not
matter; the runs that check liveness use none. In `Buckets` three elements make a
chain with a first, a middle and a last; `MaxBacks` bounds how often create
functions call back, and three is one call from within another and one more. `Spread` 9
causes three rehashes in a row. In `ExpireRing` three elements are enough for a
ring of two, from which a rebalance takes one with a neighbour that stays. In
`Reentrant` a chain through three caches, with two keys in the middle one, lets
each thread wait for what the other creates while it owes it something itself;
`Reentrant_three` has the circle through two others. In `Decorated` the clock
passes the longest duration twice, also within one creation. In `ShardedCache_build` the product of one key's hash
and the multiplier exceeds `Values`, so that key goes to another shard than without the
wrap; three shards let the construction fail after none, one and two. In `MemUse` the counter
is at most 7, and one byte more would wrap. An `Accuracy` of 4 is coarse enough that rounding shows:
two queued blocks (5 bytes with the overhead, over the limit of 4) are shrunk to one or not at all,
three to one or two, but three never stay.

Deadlock is checked in the runs of `ExpireQueue`, `ExpireRing`, `Cache` and
`Reentrant`: a thread can always call again. It is not in those of `Buckets`,
`Decorated`, `ShardedCache` and `MemUse`, where the cache object itself ends by
destruction or by a failed construction, nor in `Builder`, which ends with
`build()`.

### Fairness

`Progress` is weak fairness for a thread inside the lock, for the return of a
joined value, and for the end of the create function: this code runs without
waiting. `FairMutex` is strong fairness for taking the lock (`Lock`, `Resolve`).
`std::mutex` does not promise it. It is an assumption about the scheduler:
without it one thread could take the lock before a waiting one forever, which no
code of the cache could prevent. Nothing is assumed about clients: they need
not call, drop references, or expire.

`FairSpec` of `ExpireRing`, and of `Buckets` in `Buckets_live`, is weak fairness of `Work`, the steps of
the one thread inside: it holds the lock and waits for nothing there. `FairSpec` of
`Reentrant` is weak fairness of each thread's steps and of the completion of
futures that a create function returned, and strong fairness of `Lock`, for the
reason given above.

## Disagreements between the code and its documents

The run `Cache_peek_throw` / `PeekNeverTerminates` is the finding of `PROJECT.json`:
`lookup_if_present` is `noexcept`, yet rethrows the exception of the creation
it joined (cache_impl.h:589), so that `get_if_present` terminates the program where its
documentation promises a value or a null pointer.

The further ones, each reproduced by the configuration it names:

1. `Cache_expire_async` / `ExpiredNotServed`: `expire()` during an asynchronous
   creation returns true, but a later `get()` still joins the creation and
   returns the expired value (element.h:501).
2. `Cache_slow_create` / `CreatedIsServed`: a synchronous creation slower than
   `max_age` fails the assertion at bucket.h:188.
3. `ShardedCache_size` / `TotalBound`: `max_size` of a sharded cache bounds each
   shard, not the cache. The constructor computes the share of a shard, but
   drops it: `max_size()` is const and returns a new builder (impl.h:593).
4. `Buckets_nested` / `EraseFinds`: in a cache that is neither async nor thread
   safe, a create function that calls the cache makes the suspended lookup write
   through a stale iterator: an element is lost from its chain, and its eviction
   runs past the end (bucket.h:180, :209).
5. `Buckets_lowload` / `LoadKept`: the map grows by one step per creation, which
   for a `max_load_factor` below 1/6 is not always enough (cache_impl.h:706). TLC
   finds it at 1/10; from 1/6 upward it is proved enough.
6. `Builder_identity` / `AsyncIsIgnored`: the doc says that `async` is ignored for an
   identity cache; `build()` does not compile (impl.h:298).
7. `Decorated_stale` / `ExceededRemoved`: access_expire leaves elements whose time is
   over behind colder ones that are younger (access_expire_decorator.h:80).
8. `Decorated_overflow` / `GotIsKept`: a long duration overflows the clock, and what
   was just accessed is dropped (access_expire_decorator.h:56).
9. `Reentrant_future` / `NoCircularWait`: a create function that returns a future is
   called with the lock held; if it calls its own async cache, as the comment on
   `resolve_` allows, its thread waits for itself (create_handler.h:193).
10. `Decorated_slow` / `SlowIsKept`: the access time of a new element counts from before
   its create function runs (cache_impl.h:792), and the maintenance that ends the creation
   reads the clock again (access_expire_decorator.h:62). A synchronous creation
   slower than `access_expire` so drops its own element from the queue, where
   builder.h:501 says that it is kept for the duration.

`ExpireTakesEffect` and the synchronous run show what does hold of `expire()`:
the element never becomes a value of the cache again.

## Proofs

The proofs hold for any finite or infinite sets of threads, keys and elements,
any hash function, load factor and limit, and every combination of decorators.
They rest on the named assumptions of the modules, which only give the types of
the constants; TLC evaluates them in the runs. Some theorems assume more, each time
to leave out a disagreement of the section above:

| theorem | assumes | because of |
|---|---|---|
| `ChainsAreWellFormed`, `BucketsTypes`, `EveryElementIsFound`, `EraseNeverMisses`, `DestructorErasesAll`, `ChainsAreATable` | create functions do not call back (`~Recursive`) | disagreement 4 |
| `LoadFactorKept` | `Spread` is at most 6 | disagreement 5 |
| `ExpiredIsNotFound` | a synchronous cache | disagreement 1 |
| `NobodyWaitsInACircle` | finitely many threads; create functions call their own cache only if it is `deferred`, and for keys that do not need each other in a circle (`Ranked`) | disagreement 9, and keys whose values are made from each other |
| `CacheUsesQueue` | a queue; and `Async`, or no `max_age` | disagreement 2: the value of a slow synchronous creation is too old at once |
| `AccessIsKept`, `WhatWasGotIsKept` | the longest access time, counted from the end of the run's clock, can be represented (`Representable`); the second also, within `GotIsKept`, that a creation takes no longer than the access time | disagreements 8 and 10 |
| `MaintainedQueueFits` | a synchronous cache, as all of `MemUse` | see the section on it |
| `CacheKeepsContract` | `Async`, or no `max_age`; and not asynchronous creations that throw together with `get_if_present` | disagreement 2, and the finding: the program terminates within a call |

`ExpireQueueOps_proofs` proves, for each operator of the queue, that it returns
a balanced queue of the right type without duplicates, with exactly the
elements it should have.

`ExpireQueue_proofs` proves every safety property of `ExpireQueue`. The invariant
says that the queue is balanced, has no duplicates and is no longer than the limit,
that its elements are the strong ones, and that pinned and void elements are
present. `ScanResistance` needs to know in addition where elements are: a new one
goes in below the hot zone, a promotion moves the others down by one place at most,
the cleanup stops at the first live element, and a shrink takes the end.

`ExpireRing_proofs` proves `Rings` and `ComputesQueue`: the loops of expire_queue.h,
which move one element at a time between two rings of tagged pointers, leave the
queue that `ExpireQueueOps` gives in closed form, for any number of elements. A
ring stands for a segment of the order, closed by its head (`Chain`); the hot
ring is the segment before the boundary, the cold ring the one behind it
(`Stands`). So a detach or a link changes the order at one place, and a turn of
`rebalance_` changes only the boundary. The invariant `RingInv` says that the rings always
stand for a queue q (`Mirrors`), and that what the loops have still to do leads
from q to `goal` (`OnTheWay`): `ComputesQueue` is silent while a loop runs, so the
invariant says how far each one is. One lemma per step shows that a turn takes off q
what the closed form has still to take off. That `Rings` and `ComputesQueue` follow
needs `WalkMeetsNodes`: the recursive function that walks along a ring meets the
elements of the segment in their order. A recursive function is a CHOOSE, so one must
know that there is such a function (`RecursionExists`).

`Cache_proofs` proves `TypeOK`, `PinsProtect`, `FutureHasCreator`,
`HeldIsFound` (the promise of README.md:50-51) and `QueueKeepsAlive`. None of
them is inductive. `HeldIsFound` needs to know that a thread that has a value in
hand, found, joined or created, has it from an element that is still alive; that
needs the pins, which need to know that each has one creator; and the
maintenance of the queue spares a referenced element only because the strong
elements are the queued ones. `IInv` is the conjunction of these facts: `Types`,
`Agree` (queue and pointers), `Locking`, `Pinning`, `Holding`. The proof has one
lemma per kind of step; `MaintainFacts` is the common part of a creation and a
hit.

`CacheUsesQueue`, in the same module, is the refinement of `CacheQueue`. The view is a
function of the state: an element is held when it is referenced or a future, and
it is void when it is nil or too old, the pointer shown then being the one the queue
last gave it. The step that needs an argument is the maintenance (`MaintainSeen`):
both sides clean up and shrink the same queue, so they drop the same elements,
and those nobody holds are the ones that become void.

The last part of the module proves `UniqueLive`, `ExpireTakesEffect` and `ExpiredNotServed`.
A walk creates when it has looked at every element of its bucket, but it looked
at the first ones some steps ago. `Searched` says that whatever it has passed is
expired or of another key; that this is stable rests on `Fading`: while a thread
holds the lock, what the other threads and the clients do can only make an
expired element stay expired, because nobody can get at its value any more.
`ExpiredNotServed` is a theorem about synchronous caches, as disagreement 1 requires.

`CacheKeepsContract` builds on it. An element is usable when it is young, alive and
either strong or held; by `UniqueLive` a key has at most one, and that is its
`current` value. `Hands` says what a thread may have in hand at each point of its call,
and that the element of a creation that failed is lost: it is nil or gone. A walk
that ends has found nothing by `Searched`, so that `Miss` may happen there. One
lemma per kind of step names the moment at which the call takes effect; all other
steps leave `current` alone or forget values that nobody holds.

`Buckets_proofs` proves `Threaded` and `TypeOK`. `Threaded` says that exactly one
pointer leads to every element; to show that unlinking keeps it, one must know
that no chain runs into itself, which is about any number of pointers at once.
`Ranks` avoids reachability: there is a numbering of the elements that rises along
every pointer. Unlinking keeps the numbering, insertion at the end takes a larger
number, the head of a bucket a smaller one. `Control` says for each phase where
`iter` stands. `LoadFactorKept` shows that one growth step suffices for
`Spread` up to 6, also when create functions call back: growing from n to
9 * (n / 7 + 1), from 3 and from the multiples of 9 that follow, adds at least 6
buckets, and the load was right before the last creation.

That lookups find what is there needs to know where things are, not only that
they are somewhere. `Found(c, p)` says that c and p give each location the number
of its chain and its position in it (`Placed`), that every element is in the chain of
its hash code, except those a rehash has not come to (`Homes`), and for each other loop
what lies behind it (`Searched`): the element to evict is after `iter` in its chain, a
walk has passed no usable element of its key, the destructor has emptied the buckets
it passed. `FInvariance` proves `IInv` with such c and p. The positions make reachability
arithmetic: an element in the chain with a position after `iter` is still to come
(`EndIsLast`, `NextIsNext`). `AfterIsChain` then shows that the recursive function
`After`, in which `Findable` and the table are stated, computes the chain, by
taking the least position at which it would not. From this follow `Findable`,
`EraseFinds`, `AllDestroyed` and, step by step, `ImplementsTable`.

`Reentrant_proofs` proves `TypeOK`, `LocksAreShort` and `CreatedOnce` for any number of
threads, caches, kinds and any nesting. Its invariant `CInv` counts the calls of a
thread from the outermost (`Level`), so that a call keeps its number while
others are made inside it and return. Then each lock is held by one call
(`Locked`), each deferred future is run by one (`Running`) and was linked by one
(`Linking`), which still finds it in its place when it locks again. That last
part is why a second lookup can not link a second future while the first runs:
the entry stays a future until the one that linked it puts the value there.
`NoCircularWait` rests on another invariant, `WInv`: a taken lock is held by some call
(`Has`), and the key of each call is below those of the calls it was made in
(`Descends`), in the order of caches and, within a deferred cache, of ranks. A
thread that has what another one waits for, and waits itself, has it in an outer call,
so its innermost key is below the key of the other (`WaitersDescend`). Along a
path of waits the keys descend, the threads on it are all different, and a path
as long as there are threads can not end in one of them (`WaitsEnd`).

`Built_proofs` proves the properties of what `build()` makes: `Decorated`, `Builder` and
`ShardedCache`. It extends all three, which is why the specifications of the last two
have names of their own (`BuilderSpec`, `ShardsSpec`).

- The list of decorators. The appliers run for any settings; `DecoratorFacts` says
  which decorators the list has at the end, that none is there twice, and that the
  queue comes before what shrinks it (`Served`).
- The callbacks of `Decorated`. A call runs them one after the other, so the proof has
  a loop invariant: `Ran(event, c0, c, e, k)` is what k callbacks have made of the cache c0
  for the element e. It depends on which decorators are among the first k (`Did`), and
  this is where the order matters: until the queue has linked a new element, that
  element is strong and not queued, which a decorator that shrinks or erases must not
  meet. One lemma per callback leads from k - 1 to k. After the last one the
  queued elements are the strong ones (`DispatchFacts`), and the inductive invariant
  `Inv` follows: the queue is balanced, has elements of the chain only and each once,
  is within `max_size`, and the counters of `stats` differ by the length of the chain
  (`Whole`). `AccessKept` and `GotIsKept` also need that what a walk erases from the
  queue is aged, as it is strong, and that a time which was just set, or set when a
  creation began that is in time, is not over.
- The setters of `Builder`. `BuilderInv` says that the list has one variable of each of
  the fourteen kinds, in the place where it began, and that it is the one asked for last
  (`Listed`). From it follow `SettingsKept` and, with `DecoratorFacts`, `QueueServesLimits`.
- The shards. `ShardInv` ties the phases to `num_shards_`: the shards alive are exactly
  those below it, those above the first have their own tracker, and `ready` means that
  all are there. `RoutedQueues`, that a key is queued only where every override looks for
  it, holds because they agree, wherever the product wraps, and `num_shards_` does not
  change while calls are possible.

`MemUse_proofs` proves `TypeOK`, `Accounted`, `TrackerOutlivesUse` and `QueueFits`, with any
number of threads and blocks, from the assumption that all blocks together do
not wrap the counter. Its invariant says which thread owns each block between
deallocation and subtraction, and that the counter is the overhead plus the
blocks in use or owned (`Balance`). `KeepFits` is the arithmetic of the
shrink: n elements that are part of the cur bytes counted, cut to n * max / cur with an
error of one part in `Accuracy`, fit in max with the same error; `KeepsFacts` shows that
the exact ratio is among the sizes allowed. `MemUseUsesQueue` is the refinement `ImplementsQueue`: the cleanup of
`ExpireQueue` finds nothing to erase there, because every queued element is strong,
and what the shrink drops and nobody holds is what it frees.

`TypeOK` of most modules, `QueueKeepsAlive`, `LoadKept`, `EraseFinds` and `AllDestroyed`
are proved and left out of the runs; TLC checks `LoadKept`, `EraseFinds` and
`AllDestroyed` in `Buckets_sync`.

Only model-checked: liveness (`CallsReturn`, `NestedCallsReturn`, `LoopsEnd`, `WalksEnd`), because fairness and ENABLED are beyond
the prover. All other properties of the passing runs are theorems.

## Not modelled

- The registration of the metrics, and the gauge of memory (impl.h:400-444): it reads
  a vector of counters on a thread of the metrics engine, a library that is not
  part of the repository. `PROJECT.json` lists the unsynchronised vector as a hazard.
- Destructors of values: they may run under the lock when an element is weakened or
  erased. No document says whether they may call the cache.
- How a key is compared: a key is equal to itself only. The overloads of `get` differ
  in how they make hash, predicate, key and create function of a query, which is
  one parameter here. In an identity cache the predicate reads the value; when it
  dies just before, the walk goes on as it does after `PtrNil`.
- Conversions between kinds of pointers (storage_pointer_decorator.h), which keep no state.
- Floating-point rounding of the load factor; asynchronous creation in a cache with
  `max_memory`, see `MemUse`; blocks of different
  sizes; the memory of elements as opposed to values. The bucket vector takes an
  allocator that is not decorated (cache_impl.h:451), so its memory is not counted;
  no comment promises otherwise.
- Allocation failures other than those of elements, shards and the bucket vector.
- Changing `max_load_factor` after construction, which no wrapper exposes.
- Move semantics and compile-time selection of decorators, except as `DecoratorSet`
  has the latter.

## What is left

`MemUse` with asynchronous creation: an element that is queued before its block is counted,
with a bound that adds the blocks under creation to the limit.

The gauge and destructors of values would need a statement of what they are promised
before they can be checked.
