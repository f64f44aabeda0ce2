--------------------------------- MODULE Table ---------------------------------
(***************************************************************************)
(* What the buckets of a cache promise (bucket.h, cache_impl.h): a set of  *)
(* elements, each for a key.  An element is added when no usable element   *)
(* of its key is there, and as long as the cache lives it leaves only when *)
(* it has expired and nobody locks it against deletion.  Growing the hash  *)
(* map is not visible.                                                     *)
(***************************************************************************)
CONSTANTS Addr, None

VARIABLES
  table,    \* the elements in the map
  key,      \* the key of each element, None for an address without element
  expired,  \* the elements that can not be used any more
  pinned,   \* the elements that are locked against deletion
  open      \* FALSE once the destructor runs

Init == table = {} /\ open = TRUE

\* A new element is linked: for the key that was looked up, which no usable
\* element had.
Add(a) ==
  /\ open /\ a \notin table
  /\ \A x \in table : key[x] = key[a] => x \in expired
  /\ table' = table \union {a}

Remove(a) ==
  /\ a \in table \ pinned
  /\ open => a \in expired'
  /\ table' = table \ {a}

\* No call comes after the destructor.
Close == open /\ ~open' /\ UNCHANGED table

Next ==
  \/ \E a \in Addr : (Add(a) \/ Remove(a)) /\ UNCHANGED open
  \/ Close

Spec == Init /\ [][Next]_<<table, open>>
=============================================================================
