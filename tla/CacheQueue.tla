----------------------------- MODULE CacheQueue -----------------------------
(***************************************************************************)
(* The cache, with all its threads, seen from its expire queue: every step *)
(* of Cache is one operation of ExpireQueue or leaves it alone.  What is   *)
(* checked and proved of ExpireQueue therefore holds of the queue inside   *)
(* the cache, and its assumptions about when it is called are met.         *)
(***************************************************************************)
EXTENDS Cache

\* A nil element is as good as one that expired with the pointer the queue last
\* gave it, and a future keeps the value it will produce.
ViewPtr == [e \in Elem |-> IF ptr[e] # "nil" THEN ptr[e]
                           ELSE IF e \in Queued(queue) THEN "strong" ELSE "weak"]
ViewVoid == {e \in Linked : e \in aged \/ (e \notin async /\ ptr[e] = "nil")}
ViewHeld == Referenced \union async

QueueView == INSTANCE ExpireQueue WITH ptr <- ViewPtr, void <- ViewVoid, held <- ViewHeld

\* ImplementsQueue: the threads of the cache together use the expire queue as
\* ExpireQueue describes.
ImplementsQueue == QueueView!Spec
=============================================================================
