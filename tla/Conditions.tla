----------------------------- MODULE Conditions -----------------------------
(***************************************************************************)
(* The conditions a check can be in, and how bad each is                    *)
(* (lib/flapjack/data/condition.rb).                                        *)
(***************************************************************************)
EXTENDS Integers

Healthy == {"ok"}
Unhealthy == {"critical", "warning", "unknown"}
Condition == Healthy \cup Unhealthy

\* A smaller priority is a worse condition.
Priority ==
  [c \in Condition |->
     CASE c = "critical" -> -3
       [] c = "warning"  -> -2
       [] c = "unknown"  -> -1
       [] c = "ok"       -> 1]

Worse(c, d) == Priority[c] < Priority[d]

MostUnhealthy == CHOOSE c \in Unhealthy : \A d \in Unhealthy \ {c} : Worse(c, d)

\* The worst condition of a non-empty set.
WorstOf(S) == CHOOSE c \in S : \A d \in S \ {c} : Worse(c, d)

=============================================================================
