---- MODULE MC_Processor ----
(* Time in units of the default initial failure delay (30 seconds). *)
EXTENDS Processor

NoDelays == [k \in DelayKinds |-> Nil]

\* Events that leave the delays alone, and events that set all of them.
MCEventDelays ==
  {NoDelays, [failure |-> 0, repeat |-> 1, recovery |-> 1]}

NoEventDelays == {NoDelays}

\* The configuration sets the repeat delay; the check sets nothing.
MCConfigDelays == [NoDelays EXCEPT !["repeat"] = 2]
====
