---- MODULE MC_EventQueue ----
(* Two processors on one queue; a Ruby sender and a sender of the Go       *)
(* library; one event that does not validate.                              *)
EXTENDS EventQueue
====
