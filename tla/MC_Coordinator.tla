--------------------------- MODULE MC_Coordinator ---------------------------
(* Instances of Coordinator for TLC: one pikelet of each kind.             *)
EXTENDS Coordinator, TLC

CONSTANTS processor, bot, web

MCKind == (processor :> "exception") @@ (bot :> "signal") @@ (web :> "server")
MCMaxRuns == (processor :> 2) @@ (bot :> 0) @@ (web :> 2)
OneRun == [p \in Pikelets |-> 1]
=============================================================================
