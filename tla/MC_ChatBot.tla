----------------------------- MODULE MC_ChatBot -----------------------------
(* Instances of ChatBot for TLC: a private command, and a command and      *)
(* an alert in the first of two rooms.                                     *)
EXTENDS ChatBot, TLC

CONSTANTS r1, r2, private, public, alert

MCRoomList == <<r1, r2>>
MCRoomOf == (private :> Nil) @@ (public :> r1) @@ (alert :> r1)
Nowhere == [t \in {} |-> Nil]
=============================================================================
