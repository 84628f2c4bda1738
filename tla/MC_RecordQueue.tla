---- MODULE MC_RecordQueue ----
(* Two producers and two consumers (two Flapjack processes on one Redis)   *)
(* over a handful of records.                                              *)
EXTENDS RecordQueue
====
