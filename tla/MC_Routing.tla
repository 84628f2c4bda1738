---- MODULE MC_Routing ----
EXTENDS Routing, TLC

\* Acceptors with and without a list of conditions, rejectors, and an acceptor
\* that is switched off.
MCSettings ==
  {s \in [enabled    : BOOLEAN,
          blackhole  : BOOLEAN,
          strategy   : Strategies,
          conditions : {Nil, {"critical"}},
          hours      : {Hours}] :
     s.enabled \/ (~s.blackhole /\ s.strategy = "global" /\ s.conditions = Nil)}

Symmetry == Permutations(RuleIds) \cup Permutations(Media) \cup Permutations(Tags)
====
