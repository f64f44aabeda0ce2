------------------------------- MODULE Builder -------------------------------
(***************************************************************************)
(* cache_builder (builder.h) and the decisions of build() (impl.h).  A     *)
(* builder is a list of variables, one for each setting; the type of a     *)
(* variable is its class template with, where there is one, the template   *)
(* argument that says whether it is enabled.  A setter makes a builder in  *)
(* which the variable of one type is replaced by another variable, while   *)
(* all others are copied (builder_rewrite, and the two constructors of     *)
(* each variable).                                                         *)
(***************************************************************************)
EXTENDS DecoratorSet, FiniteSets

CONSTANTS
  Keyed,        \* FALSE for an identity cache: its key type is void
  Limits,       \* arguments of max_memory and max_size
  Seconds,      \* arguments of max_age and access_expire
  Concurrency,  \* arguments of concurrency
  LoadFactors,  \* arguments of load_factor
  Types,        \* types of hash, equality and allocator, the default among them
  Default,
  Hardware      \* what std::thread::hardware_concurrency() may return

ASSUME BuilderAssumption ==
  /\ Keyed \in BOOLEAN /\ Default \in Types
  /\ Limits \subseteq Nat /\ Seconds \subseteq Int /\ LoadFactors \subseteq Int
  /\ Concurrency \subseteq Nat /\ Hardware \subseteq Nat

VARIABLES
  builder,  \* the list of variables
  asked,    \* history: for each setting what was asked for last, or the default
  made      \* <<>>, or what build() made

builderVars == <<builder, asked, made>>

-----------------------------------------------------------------------------
\* Variables.  A setting that is not enabled has no value.

Var(kind, enabled, value) == [kind |-> kind, enabled |-> enabled, value |-> value]
Off(kind) == Var(kind, FALSE, {})
On(kind, v) == Var(kind, TRUE, {v})
Flag(kind, on) == Var(kind, on, {})
Plain(kind, v) == Var(kind, TRUE, {v})

\* cache_builder: the variables of a new builder.
InitVars ==
  << Plain("key", Keyed), Off("max_memory"), Off("max_size"), Off("max_age"),
     Off("access_expire"), Flag("thread_safe", TRUE), Plain("concurrency", 0),
     Plain("load_factor", 1), Flag("async", FALSE), Off("stats"),
     Off("storage_override"), Plain("hash", Default), Plain("equality", Default),
     Plain("allocator", Default) >>
Kinds == {InitVars[i].kind : i \in DOMAIN InitVars}

\* is_bool_var and is_type_var: the same class template, with the same argument.
Mut_SameType(x, y) == x.enabled = y.enabled
SameType(x, y) == x.kind = y.kind /\ x.enabled = y.enabled

Current(kind) == builder[CHOOSE i \in DOMAIN builder : builder[i].kind = kind]

\* builder_rewrite: the current variable of its kind makes place for u.
Rewrite(b, old, u) == [i \in DOMAIN b |-> IF SameType(b[i], old) THEN u ELSE b[i]]

\* The model stops at the first cache that is built.
Set(u) ==
  /\ made = <<>>
  /\ builder' = Rewrite(builder, Current(u.kind), u)
  /\ asked' = [asked EXCEPT ![u.kind] = u]
  /\ UNCHANGED made

BuilderInit ==
  /\ builder = InitVars
  /\ asked = [k \in Kinds |-> CHOOSE u \in ToSet(InitVars) : u.kind = k]
  /\ made = <<>>

-----------------------------------------------------------------------------
\* The setters.

MaxMemory(v) == Set(On("max_memory", v))
NoMaxMemory == Set(Off("max_memory"))

MaxSize(v) == Set(On("max_size", v))
NoMaxSize == Set(Off("max_size"))

\* A duration that is not positive throws, and there is no new builder.
MaxAge(v) == v > 0 /\ Set(On("max_age", v))
NoMaxAge == Set(Off("max_age"))

AccessExpire(v) == v > 0 /\ Set(On("access_expire", v))
NoAccessExpire == Set(Off("access_expire"))

\* no_max_age() and then no_access_expire() of the builder it returns.
NoExpire ==
  LET b == Rewrite(builder, Current("max_age"), Off("max_age"))
      old == b[CHOOSE i \in DOMAIN b : b[i].kind = "access_expire"]
  IN /\ made = <<>>
     /\ builder' = Rewrite(b, old, Off("access_expire"))
     /\ asked' = [asked EXCEPT !["max_age"] = Off("max_age"),
                               !["access_expire"] = Off("access_expire")]
     /\ UNCHANGED made

\* thread_safe takes a number that it ignores.
ThreadSafe == Set(Flag("thread_safe", TRUE))
NotThreadSafe == Set(Flag("thread_safe", FALSE))

ConcurrencyOf(v) == Set(Plain("concurrency", v))
NoConcurrency == ConcurrencyOf(1)

LoadFactor(v) == v > 0 /\ Set(Plain("load_factor", v))

EnableAsync == Set(Flag("async", TRUE))
DisableAsync == Set(Flag("async", FALSE))

Stats == Set(On("stats", "name"))
NoStats == Set(Off("stats"))

StorageOverride == Set(On("storage_override", "functors"))
NoStorageOverride == Set(Off("storage_override"))

Hash(T) == Set(Plain("hash", T))
Equality(T) == Set(Plain("equality", T))
Allocator(T) == Set(Plain("allocator", T))

-----------------------------------------------------------------------------
\* build()

Settings ==
  [ key |-> IF Keyed THEN "key" ELSE "void",
    stats |-> Current("stats").value, async |-> Current("async").enabled,
    max_age |-> Current("max_age").value,
    access_expire |-> Current("access_expire").value,
    thread_safe |-> Current("thread_safe").enabled,
    max_size |-> Current("max_size").value,
    max_memory |-> Current("max_memory").value ]

Shards(hw) ==
  LET c == CHOOSE v \in Current("concurrency").value : TRUE
  IN IF ~Current("thread_safe").enabled THEN 0 ELSE IF c = 0 THEN hw ELSE c

\* apply_async_ does not compile for an identity cache.
Build(hw) ==
  /\ made = <<>>
  /\ made' = IF Current("async").enabled /\ ~Keyed THEN <<"refused">>
              ELSE <<"built", Decorators(Settings), Shards(hw)>>
  /\ UNCHANGED <<builder, asked>>

BuilderNext ==
  \/ \E v \in Limits : MaxMemory(v)
  \/ NoMaxMemory
  \/ \E v \in Limits : MaxSize(v)
  \/ NoMaxSize
  \/ \E v \in Seconds : MaxAge(v)
  \/ NoMaxAge
  \/ \E v \in Seconds : AccessExpire(v)
  \/ NoAccessExpire
  \/ NoExpire
  \/ ThreadSafe
  \/ NotThreadSafe
  \/ \E v \in Concurrency : ConcurrencyOf(v)
  \/ NoConcurrency
  \/ \E v \in LoadFactors : LoadFactor(v)
  \/ EnableAsync
  \/ DisableAsync
  \/ Stats
  \/ NoStats
  \/ StorageOverride
  \/ NoStorageOverride
  \/ \E T \in Types : Hash(T)
  \/ \E T \in Types : Equality(T)
  \/ \E T \in Types : Allocator(T)
  \/ \E hw \in Hardware : Build(hw)

BuilderSpec == BuilderInit /\ [][BuilderNext]_builderVars

-----------------------------------------------------------------------------
BuildDone == Len(made) = 3
DecoratorsOf == made[2]
At(d) == {i \in DOMAIN DecoratorsOf : DecoratorsOf[i] = d}

\* SettingsKept: through any chain of setters, each setting is what was asked
\* for last, whatever was set in between: no rewrite replaces, resets or loses
\* the variable of another setting, although each makes a builder of a new type
\* from the list of types (builder_rewrite, builder_impl in builder.h).
SettingsKept ==
  /\ \A k \in Kinds : Cardinality({i \in DOMAIN builder : builder[i].kind = k}) = 1
  /\ \A k \in Kinds : Current(k) = asked[k]

\* QueueServesLimits: a cache has one expire queue if something limits it and
\* none otherwise, the queue runs its callback before each decorator that
\* shrinks it, and without a queue, but only then, elements are weakened
\* (apply_..._ in impl.h, and "Requires cache_expire_queue_decorator to be
\* present", max_size_decorator.h).
Limiters == {"access_expire", "max_size", "max_memory"}
QueueServesLimits ==
  BuildDone =>
    /\ \A l \in Limiters : At(l) # {} <=> asked[l].enabled
    /\ Cardinality(At("expire_queue")) = IF \E l \in Limiters : asked[l].enabled THEN 1 ELSE 0
    /\ \A l \in Limiters : \A i \in At(l) : \E j \in At("expire_queue") : j < i
    /\ At("weaken") = {} <=> At("expire_queue") # {}

\* AsyncIsIgnored: "Identity caches (with a key type of void) can never be
\* async, and this property will be ignored" (async_var::async, builder.h).
AsyncIsIgnored == made # <<"refused">>
=============================================================================
