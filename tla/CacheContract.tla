------------------------------ MODULE CacheContract ------------------------------
(***************************************************************************)
(* What a cache promises its clients (cache.h, README.md): every call      *)
(* takes effect at one moment between its begin and its end, on one        *)
(* current value per key.  A value that a client holds, or a thread is     *)
(* about to return, stays the current one until it is expired or, with     *)
(* max_age, grows too old; any other value may be forgotten at any time.   *)
(* What is created without the lock is current while it is created:        *)
(* everybody who asks for it gets the one result, and expiring it takes    *)
(* effect when it is there.                                                *)
(***************************************************************************)
CONSTANTS Threads, Keys, Elem, None, KeyOf, MaxAge

VARIABLES
  current,   \* the value of each key that calls find, None without one
  stage,     \* how far the call of each thread is
  op, arg,   \* the call, and its key
  hand,      \* the value a thread waits for or is about to return
  held,      \* the values that clients refer to
  creating,  \* the values whose creation is not complete
  doomed,    \* those that were expired meanwhile
  outcome    \* what creating a value has come to

call == <<stage, op, arg, hand>>
creation == <<creating, doomed, outcome>>
vars == <<current, call, held, creation>>

InHand(e) == \E t \in Threads : hand[t] = e

Init ==
  /\ current = [k \in Keys |-> None]
  /\ stage = [t \in Threads |-> "idle"] /\ op = [t \in Threads |-> "none"]
  /\ arg = [t \in Threads |-> None] /\ hand = [t \in Threads |-> None]
  /\ held = {} /\ creating = {} /\ doomed = {} /\ outcome = [e \in Elem |-> "value"]

\* The current values become those of c, except for some that are forgotten.
Become(c) ==
  \A k \in Keys :
    \/ current'[k] = c[k]
    \/ /\ current'[k] = None
       /\ MaxAge \/ (c[k] \notin held' /\ \A t \in Threads : hand'[t] # c[k])

\* Thread t goes to stage s with value e in hand; its call ends.
Proceed(t, s, e) ==
  /\ stage' = [stage EXCEPT ![t] = s] /\ hand' = [hand EXCEPT ![t] = e]
  /\ UNCHANGED <<op, arg>>
End(t) ==
  /\ stage' = [stage EXCEPT ![t] = "idle"] /\ hand' = [hand EXCEPT ![t] = None]
  /\ op' = [op EXCEPT ![t] = "none"] /\ arg' = [arg EXCEPT ![t] = None]

Begin(t) ==
  /\ stage[t] = "idle" /\ stage' = [stage EXCEPT ![t] = "called"]
  /\ \E o \in {"get", "peek", "expire"}, k \in Keys :
       op' = [op EXCEPT ![t] = o] /\ arg' = [arg EXCEPT ![t] = k]
  /\ UNCHANGED <<current, hand, held, creation>>

Asks(t, ops) == stage[t] = "called" /\ op[t] \in ops
Value(t) == current[arg[t]]

\* The call finds the current value, or waits for it.
Hit(t) ==
  /\ Asks(t, {"get", "peek"}) /\ Value(t) # None
  /\ IF Value(t) \in creating THEN Proceed(t, "joined", Value(t)) /\ UNCHANGED held
                              ELSE End(t) /\ held' = held \union {Value(t)}
  /\ Become(current) /\ UNCHANGED creation

\* There is none: null, false or an exception.
Miss(t) ==
  /\ Asks(t, {"get", "peek", "expire"}) /\ Value(t) = None
  /\ End(t) /\ UNCHANGED <<current, held, creation>>

Expire(t) ==
  /\ Asks(t, {"expire"}) /\ Value(t) # None
  /\ IF Value(t) \in creating
     THEN doomed' = doomed \union {Value(t)} /\ UNCHANGED current
     ELSE current' = [current EXCEPT ![arg[t]] = None] /\ UNCHANGED doomed
  /\ End(t) /\ UNCHANGED <<held, creating, outcome>>

\* There is none, and get creates one: at once, or while others may call.
Create(t, e) ==
  /\ Asks(t, {"get"}) /\ Value(t) = None
  /\ e \notin held /\ ~InHand(e) /\ KeyOf[e] = arg[t]
  /\ \/ Proceed(t, "returning", e) /\ UNCHANGED <<creating, outcome>>
     \/ /\ Proceed(t, "creating", e)
        /\ creating' = creating \union {e} /\ outcome' = [outcome EXCEPT ![e] = "pending"]
  /\ Become([current EXCEPT ![arg[t]] = e])
  /\ doomed' = doomed \ {e}
  /\ UNCHANGED held

Settle(e) ==
  /\ InHand(e) /\ outcome[e] = "pending"
  /\ \E o \in {"value", "throw"} : outcome' = [outcome EXCEPT ![e] = o]
  /\ UNCHANGED <<current, call, held, creating, doomed>>

\* The creator completes the creation.
Complete(t) ==
  /\ stage[t] = "creating" /\ outcome[hand[t]] # "pending"
  /\ LET e == hand[t]
         fails == outcome[e] = "throw"
     IN /\ creating' = creating \ {e}
        /\ current' = [k \in Keys |-> IF current[k] = e /\ (fails \/ e \in doomed) THEN None
                                      ELSE current[k]]
        /\ Proceed(t, IF fails THEN "throwing" ELSE "returning", e)
  /\ UNCHANGED <<held, doomed, outcome>>

\* A call that has or had a value in hand returns it, or throws.
Return(t) ==
  /\ \/ stage[t] = "returning" \/ (stage[t] = "joined" /\ outcome[hand[t]] = "value")
  /\ held' = held \union {hand[t]}
  /\ End(t) /\ UNCHANGED <<current, creation>>

Throw(t) ==
  /\ \/ stage[t] = "throwing" \/ (stage[t] = "joined" /\ outcome[hand[t]] = "throw")
  /\ End(t) /\ UNCHANGED <<current, held, creation>>

\* Clients drop values; values grow too old.
Release(e) ==
  /\ e \in held /\ held' = held \ {e}
  /\ Become(current) /\ UNCHANGED <<call, creation>>

Forget == MaxAge /\ Become(current) /\ UNCHANGED <<call, held, creation>>

Next ==
  \/ \E t \in Threads :
       \/ Begin(t) \/ Hit(t) \/ Miss(t) \/ Expire(t) \/ Complete(t) \/ Return(t) \/ Throw(t)
       \/ \E e \in Elem : Create(t, e)
  \/ \E e \in Elem : Settle(e) \/ Release(e)
  \/ Forget

Spec == Init /\ [][Next]_vars
=============================================================================
