----------------------------- MODULE MCDecorated -----------------------------
EXTENDS Decorated, TLC

CONSTANTS e1, e2, e3, k1, k2, k3

Plain == [ key |-> "key", stats |-> {}, async |-> FALSE, max_age |-> {},
           access_expire |-> {}, thread_safe |-> TRUE, max_size |-> {},
           max_memory |-> {} ]

\* Every combination of the limits with an access time of one or two ticks.
TimedConfigs ==
  {[Plain EXCEPT !.max_age = a, !.access_expire = x, !.max_size = s] :
     a \in {{}, {2}}, x \in {{}, {1}, {2}}, s \in {{}, {0}, {2}}}

CountedConfigs ==
  {[Plain EXCEPT !.stats = {"name"}, !.max_size = s, !.max_age = a] : s \in {{}, {1}}, a \in {{}, {1}}}

AllConfigs == TimedConfigs \union CountedConfigs
AccessConfig == {[Plain EXCEPT !.access_expire = {1}]}
LongConfig == {[Plain EXCEPT !.access_expire = {4}]}

Symmetry == Permutations(Addr) \union Permutations(Keys)
=============================================================================
