---------------------------- MODULE Announcements ----------------------------
(***************************************************************************)
(* What the processor promises the notifier about one check: in which order *)
(* notifications of which type come, and how severe each is.  Test          *)
(* notifications come at any time and change nothing.  Processor implements *)
(* this; Notifier relies on it.                                             *)
(***************************************************************************)
EXTENDS Conditions

CONSTANT Nil

VARIABLES
  announced,  \* the type of the last notification, and the worst problem
              \* notified since the last acknowledgement
  at          \* when the last notification was made

vars == <<announced, at>>

Nothing == [last |-> Nil, worst |-> Nil]

WorstWith(condition) ==
  IF announced.worst = Nil \/ Worse(condition, announced.worst)
  THEN condition ELSE announced.worst

AfterProblem(condition) == [last |-> "problem", worst |-> WorstWith(condition)]

\* The failure was announced, or acknowledged before it was.
RecoveryDue == announced.last \in {"problem", "acknowledgement"}

AfterRecovery == [announced EXCEPT !.last = "recovery"]

AfterAcknowledgement == [last |-> "acknowledgement", worst |-> Nil]

\* Faulty: an end without a severity if no problem was notified.
WorstOnly == announced.worst

\* The severity of a recovery or an acknowledgement.
SeverityOfEnd == IF announced.worst = Nil THEN "ok" ELSE announced.worst

Init == announced = Nothing /\ at = Nil

Problem(condition) == announced' = AfterProblem(condition)

Recovery == RecoveryDue /\ announced' = AfterRecovery

Acknowledgement == announced' = AfterAcknowledgement

\* The check is deleted.
Forget == announced' = Nothing /\ at' = Nil

Next ==
  \/ /\ at' # at
     /\ \/ \E condition \in Unhealthy : Problem(condition)
        \/ Recovery \/ Acknowledgement
  \/ Forget

Spec == Init /\ [][Next]_vars

=============================================================================
