----------------------------- MODULE DecoratorSet -----------------------------
(***************************************************************************)
(* How build() chooses the decorators of a cache (impl.h): a list of       *)
(* appliers, one per setting, each of which takes decorators out of the    *)
(* list and puts others in at the end.  The order of the list is the order *)
(* in which their callbacks run (cache_impl.h).                            *)
(*                                                                         *)
(* A setting that is a std::optional is a set of at most one value.        *)
(***************************************************************************)
EXTENDS Integers, Sequences, SequencesExt

\* cache_decorator_set: decorators are added once, so that removing takes out one,
\* and void is never added.
Add(D, T) == IF T = "void" \/ T \in ToSet(D) THEN D ELSE Append(D, T)
AddAll(D, L) ==
  LET added[i \in 0 .. Len(L)] == IF i = 0 THEN D ELSE Add(added[i - 1], L[i])
  IN added[Len(L)]
RemoveAll(D, L) ==
  LET left[i \in 0 .. Len(L)] == IF i = 0 THEN D ELSE RemoveFirst(left[i - 1], L[i])
  IN left[Len(L)]
Applied(D, A) == AddAll(RemoveAll(D, A.remove), A.add)

When(cond, add, remove) ==
  IF cond THEN [add |-> add, remove |-> remove] ELSE [add |-> <<>>, remove |-> <<>>]

\* A decorator that shrinks the expire queue brings the queue, and takes the
\* weaken decorator away.
Mut_Shrinker(limit, decorator) ==
  When(limit # {}, <<decorator, "expire_queue">>, <<"weaken">>)
Shrinker(limit, decorator) ==
  When(limit # {}, <<"expire_queue", decorator>>, <<"weaken">>)

Mut_Appliers(b) ==
  << Shrinker(b.access_expire, "access_expire"),
     Shrinker(b.max_size, "max_size"),
     Shrinker(b.max_memory, "max_memory"),
     When(TRUE, <<"weaken">>, <<>>) >>
Appliers(b) ==
  << When(TRUE, <<"weaken">>, <<>>),
     When(b.stats # {}, <<"stats">>, <<>>),
     When(b.async, <<"async">>, <<>>),
     When(b.max_age # {}, <<"max_age">>, <<>>),
     Shrinker(b.access_expire, "access_expire"),
     When(TRUE, <<IF b.key = "void" THEN "void" ELSE "key">>, <<>>),
     When(TRUE, <<IF b.thread_safe THEN "mutex" ELSE "no_mutex">>, <<>>),
     Shrinker(b.max_size, "max_size"),
     Shrinker(b.max_memory, "max_memory"),
     When(TRUE, <<"storage">>, <<>>) >>

\* make_cache_decorator_set
Decorators(b) ==
  LET A == Appliers(b)
      made[i \in 0 .. Len(A)] == IF i = 0 THEN <<>> ELSE Applied(made[i - 1], A[i])
  IN made[Len(A)]
=============================================================================
