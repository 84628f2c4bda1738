------------------------------ MODULE Handover ------------------------------
(***************************************************************************)
(* What a Flapjack queue promises its two ends, whatever is in it: every    *)
(* object is handed over at most once, in the order it was sent, and once   *)
(* handed over it is settled (handled, skipped or lost with its holder) and *)
(* never comes back.  RecordQueue and EventQueue implement it.              *)
(***************************************************************************)
EXTENDS Naturals, Sequences, FiniteSets, Functions

CONSTANT Objects

VARIABLES
  sent,     \* every object ever sent, in order
  taken,    \* every object ever handed over, in order
  settled   \* the objects whose receiver is through with them

vars == <<sent, taken, settled>>

Init ==
  /\ sent = <<>>
  /\ taken = <<>>
  /\ settled = {}

Send(o) ==
  /\ o \notin Range(sent)
  /\ sent' = Append(sent, o)
  /\ UNCHANGED <<taken, settled>>

Take ==
  /\ Len(taken) < Len(sent)
  /\ taken' = Append(taken, sent[Len(taken) + 1])
  /\ UNCHANGED <<sent, settled>>

Settle(o) ==
  /\ o \in Range(taken) \ settled
  /\ settled' = settled \cup {o}
  /\ UNCHANGED <<sent, taken>>

Next ==
  \/ \E o \in Objects : Send(o) \/ Settle(o)
  \/ Take

Spec == Init /\ [][Next]_vars

=============================================================================
