------------------------------- MODULE Notifier -------------------------------
(***************************************************************************)
(* The notifier: it takes notifications from its queue and, for each,       *)
(* decides under the class locks which media are alerted and whether as a   *)
(* summary of several checks (Notifier#alerts_for), then queues the alerts  *)
(* one by one, then destroys the notification.  The processor, people and   *)
(* a crash may come between any two of these.                               *)
(*                                                                          *)
(* One notifier; the queue keeps its order (RecordQueue); what comes in     *)
(* follows Announcements, which Processor implements; rules and tags are    *)
(* fixed (Routing changes them).  The clock moves on with every             *)
(* notification, as no two have the same sub-second creation time.          *)
(***************************************************************************)
EXTENDS Rules, Sequences, FiniteSets

CONSTANTS
  RuleSet,
  TagsOf,
  Interval,      \* of each medium
  Threshold,     \* rollup_threshold of each medium, 0 for none
  Problems,      \* the conditions in which checks fail
  MaxAnnounced,  \* bound on notifications
  MaxQueue,      \* bound on those waiting
  MaxTime,       \* bound on the clock
  MaxChanges,    \* bound on the maintenances people start
  MaxCrashes     \* bound on crashes

\* What a medium knows of the last state it was alerted of.
LastState == [ok : BOOLEAN, condition : Condition, at : Nat]

ASSUME NotifierAssumption ==
  /\ RuleSet \subseteq Rule
  /\ TagsOf \in [Checks -> SUBSET Tags]
  /\ Interval \in [Media -> Nat]
  /\ Threshold \in [Media -> Nat]
  /\ Problems \subseteq Unhealthy
  /\ {MaxAnnounced, MaxQueue, MaxTime, MaxChanges, MaxCrashes} \subseteq Nat
  /\ Cardinality(Hours) \in Nat \ {0} /\ Hours = 0 .. (Cardinality(Hours) - 1)
  /\ Nil # "problem" /\ Nil \notin LastState

VARIABLES
  now,
  announced,    \* what the processor announced of each check
  sched,        \* the checks in scheduled maintenance
  unsched,      \* the checks in unscheduled maintenance
  queue,        \* notifications queued for the notifier
  phase,        \* "idle", "loaded" before alerts_for, "decided" after it
  hand,         \* the notification it is working on, unless it is idle
  outbox,       \* alerts saved and not yet queued
  alertable,    \* check.alertable: the checks for which it is set
  lastState,    \* medium.last_state
  lastRollup,   \* medium.last_rollup_type
  announcements, \* how many notifications there have been
  changes,      \* how often people changed a maintenance
  crashes,
  lost,         \* history: checks with a notification lost in a crash, and none
                \* handled since
  cut,          \* history: media with an alert lost in a crash, after alerts_for
                \* saved it, and none queued since
  moved,        \* history: checks whose maintenance people changed since their
                \* last problem was announced
  outdated,     \* history: media not looked at since any such change
  lastWord      \* history: the last alert each medium was sent, tests excepted

processorVars == <<announced, sched, unsched>>
notifierVars == <<queue, phase, hand, outbox, alertable, lastState, lastRollup>>
peopleVars == <<moved, outdated>>
historyVars == <<lost, cut, peopleVars, lastWord>>

vars == <<now, processorVars, notifierVars, announcements, changes, crashes,
          historyVars>>

Of(c) == INSTANCE Announcements WITH announced <- announced[c], at <- now

-----------------------------------------------------------------------------
(* The processor *)

\* generate_notification: a notification is saved and queued.
Queue(c, type, condition, severity) ==
  /\ now < MaxTime /\ announcements < MaxAnnounced /\ Len(queue) < MaxQueue
  /\ now' = now + 1
  /\ announcements' = announcements + 1
  /\ queue' = Append(queue, [check |-> c, type |-> type,
                             condition |-> condition, severity |-> severity,
                             at |-> now])
  /\ UNCHANGED <<phase, hand, outbox, lastState, lastRollup, changes, crashes,
                 lost, cut, lastWord>>

AnnounceProblem(c, condition) ==
  /\ c \notin sched \cup unsched
  /\ announced' = [announced EXCEPT ![c] = Of(c)!AfterProblem(condition)]
  /\ Queue(c, "problem", condition, announced'[c].worst)
  /\ moved' = moved \ {c}
  /\ UNCHANGED <<sched, unsched, alertable, outdated>>

\* The Ok filter ends unscheduled maintenance.
AnnounceRecovery(c) ==
  /\ c \notin sched
  /\ Of(c)!RecoveryDue
  /\ announced' = [announced EXCEPT ![c] = Of(c)!AfterRecovery]
  /\ Queue(c, "recovery", "ok", Of(c)!SeverityOfEnd)
  /\ unsched' = unsched \ {c}
  /\ UNCHANGED <<sched, alertable, peopleVars>>

\* The Acknowledgement filter calls set_unscheduled_maintenance; the condition
\* is still that of the failure.
AnnounceAcknowledgement(c, condition) ==
  /\ c \notin sched
  /\ announced' = [announced EXCEPT ![c] = Of(c)!AfterAcknowledgement]
  /\ Queue(c, "acknowledgement", condition, Of(c)!SeverityOfEnd)
  /\ unsched' = unsched \cup {c}
  /\ alertable' = alertable \ {c}
  /\ UNCHANGED <<sched, peopleVars>>

\* Nothing here looks at the condition a test notification carries.
AnnounceTest(c) ==
  /\ c \notin sched \cup unsched
  /\ Queue(c, "test", "ok", MostUnhealthy)
  /\ UNCHANGED <<processorVars, alertable, peopleVars>>

-----------------------------------------------------------------------------
(* People and time *)

Aside ==
  UNCHANGED <<announced, queue, phase, hand, outbox, lastState, lastRollup,
              announcements, crashes, lost, cut, lastWord>>

Moved(c) ==
  /\ moved' = moved \cup {c}
  /\ outdated' = Media

\* Only what is started counts towards the bound.
Started(c) ==
  /\ changes < MaxChanges
  /\ changes' = changes + 1
  /\ Moved(c)

Tick ==
  /\ now < MaxTime
  /\ now' = now + 1
  /\ Aside
  /\ UNCHANGED <<sched, unsched, alertable, changes, peopleVars>>

\* A scheduled maintenance begins.
StartScheduled(c) ==
  /\ c \notin sched
  /\ sched' = sched \cup {c}
  /\ Started(c)
  /\ Aside /\ UNCHANGED <<now, unsched, alertable>>

EndScheduled(c) ==
  /\ c \in sched
  /\ sched' = sched \ {c}
  /\ Moved(c)
  /\ Aside /\ UNCHANGED <<now, unsched, alertable, changes>>

\* set_unscheduled_maintenance, from the command line or the JSON API
StartUnscheduled(c) ==
  /\ c \notin unsched
  /\ unsched' = unsched \cup {c}
  /\ alertable' = alertable \ {c}
  /\ Started(c)
  /\ Aside /\ UNCHANGED <<now, sched>>

\* It is over, is ended by someone, or the check recovers unannounced.
EndUnscheduled(c) ==
  /\ c \in unsched
  /\ unsched' = unsched \ {c}
  /\ Moved(c)
  /\ Aside /\ UNCHANGED <<now, sched, alertable, changes>>

-----------------------------------------------------------------------------
(* alerts_for *)

HourAt(t) == t % Cardinality(Hours)

IsTest(n) == n.type = "test"

\* this_notification_ok: a test's condition is not looked at.
IsEnd(n) == n.type \in {"acknowledgement", "recovery"}

\* Faulty: an acknowledged check stays in the summaries.
AlertableByHealth(n, seen) ==
  CASE n.type = "problem"  -> alertable \cup ({n.check} \ seen)
    [] n.type = "recovery" -> alertable \ ({n.check} \cap seen)
    [] OTHER -> alertable

\* The check was loaded (seen) before the locks were taken, and save writes an
\* attribute only if it was changed from what was loaded.
AlertableAfter(n, seen) ==
  IF IsTest(n) THEN alertable
  ELSE IF IsEnd(n) THEN alertable \ ({n.check} \cap seen)
  ELSE alertable \cup ({n.check} \ seen)

\* Medium#alerting_checks
AlertingChecks(m, marked) ==
  (marked \cap ChecksOf(RuleSet, TagsOf, m, HourAt(now)))
    \ (sched \cup unsched)

\* Faulty: the summary starts one check too late.
RollupLate(m, marked) ==
  IF Threshold[m] > 0 /\ Cardinality(AlertingChecks(m, marked)) > Threshold[m]
  THEN "problem"
  ELSE IF lastRollup[m] = "problem" THEN "recovery" ELSE Nil

\* alert_rollup
Rollup(m, marked) ==
  IF Threshold[m] > 0 /\ Cardinality(AlertingChecks(m, marked)) >= Threshold[m]
  THEN "problem"
  ELSE IF lastRollup[m] = "problem" THEN "recovery" ELSE Nil

\* Faulty: an end is told only if the interval allows.
SendsEvenly(m, n, rollup) ==
  LET last == lastState[m]
  IN  \/ last = Nil
      \/ rollup # lastRollup[m]
      \/ last.ok /\ ~IsEnd(n)
      \/ ~last.ok /\ ~IsEnd(n) /\ n.condition # last.condition
      \/ last.at + Interval[m] < n.at

\* Faulty: the interval is over one unit early.
SendsSooner(m, n, rollup) ==
  LET last == lastState[m]
  IN  \/ last = Nil
      \/ ~last.ok /\ IsEnd(n)
      \/ rollup # lastRollup[m]
      \/ last.ok /\ ~IsEnd(n)
      \/ n.condition # last.condition
      \/ last.at + Interval[m] <= n.at

\* The medium is not skipped: "next memo unless ..."
Sends(m, n, rollup) ==
  LET last == lastState[m]
  IN  \/ last = Nil
      \/ ~last.ok /\ IsEnd(n)
      \/ rollup # lastRollup[m]
      \/ last.ok /\ ~IsEnd(n)
      \/ n.condition # last.condition
      \/ last.at + Interval[m] < n.at

\* alerting_severity
MediaFor(n) ==
  AlertingMedia(RuleSet, TagsOf[n.check],
                IF IsTest(n) THEN "critical" ELSE n.severity, HourAt(now))

Alert(m, n, rollup) ==
  [medium |-> m, check |-> n.check, type |-> n.type,
   condition |-> n.condition, rollup |-> rollup, at |-> n.at]

-----------------------------------------------------------------------------
(* process_notification *)

\* foreach pops an id and loads its record; process_notification loads the
\* check.
Take ==
  /\ phase = "idle" /\ queue # <<>>
  /\ phase' = "loaded"
  /\ hand' = [notification |-> Head(queue), seen |-> alertable]
  /\ queue' = Tail(queue)
  /\ UNCHANGED <<now, processorVars, outbox, alertable, lastState, lastRollup,
                 announcements, changes, crashes, historyVars>>

AlertsFor ==
  LET n      == hand.notification
      marked == AlertableAfter(n, hand.seen)
      rollup == [m \in Media |-> IF IsTest(n) THEN Nil ELSE Rollup(m, marked)]
      sent   == {m \in MediaFor(n) : IsTest(n) \/ Sends(m, n, rollup[m])}
  IN  /\ phase = "loaded"
      /\ phase' = "decided"
      /\ alertable' = marked
      /\ outbox' = {Alert(m, n, rollup[m]) : m \in sent}
      /\ IF IsTest(n) THEN UNCHANGED <<lastState, lastRollup, lost, outdated>>
         ELSE /\ lastState' =
                   [m \in Media |->
                      IF m \in sent
                      THEN [ok |-> IsEnd(n), condition |-> n.condition,
                            at |-> n.at]
                      ELSE lastState[m]]
              /\ lastRollup' =
                   [m \in Media |-> IF m \in sent THEN rollup[m]
                                    ELSE lastRollup[m]]
              /\ lost' = lost \ {n.check}
              /\ outdated' = outdated \ MediaFor(n)
      /\ UNCHANGED <<now, processorVars, queue, hand, announcements, changes,
                     crashes, cut, moved, lastWord>>

\* @queues[medium.transport].push
PushAlert(a) ==
  /\ outbox' = outbox \ {a}
  /\ IF a.type = "test" THEN UNCHANGED <<cut, lastWord>>
     ELSE /\ cut' = cut \ {a.medium}
          /\ lastWord' = [lastWord EXCEPT ![a.medium] = a]
  /\ UNCHANGED <<now, processorVars, queue, phase, hand, alertable, lastState,
                 lastRollup, announcements, changes, crashes, lost, peopleVars>>

\* notification.destroy
Destroy ==
  /\ phase = "decided" /\ outbox = {}
  /\ phase' = "idle" /\ hand' = Nil
  /\ UNCHANGED <<now, processorVars, queue, outbox, alertable, lastState,
                 lastRollup, announcements, changes, crashes, historyVars>>

\* The process dies, and is started again.
Crash ==
  /\ phase # "idle"
  /\ crashes < MaxCrashes
  /\ crashes' = crashes + 1
  /\ lost' = IF phase = "decided" THEN lost ELSE lost \cup {hand.notification.check}
  /\ cut' = cut \cup {a.medium : a \in {b \in outbox : b.type # "test"}}
  /\ phase' = "idle" /\ hand' = Nil /\ outbox' = {}
  /\ UNCHANGED <<now, processorVars, queue, alertable, lastState, lastRollup,
                 announcements, changes, peopleVars, lastWord>>

-----------------------------------------------------------------------------
Init ==
  /\ now = 0
  /\ announced = [c \in Checks |-> [last |-> Nil, worst |-> Nil]]
  /\ sched = {} /\ unsched = {}
  /\ queue = <<>> /\ phase = "idle" /\ hand = Nil /\ outbox = {}
  /\ alertable = {}
  /\ lastState = [m \in Media |-> Nil]
  /\ lastRollup = [m \in Media |-> Nil]
  /\ announcements = 0 /\ changes = 0 /\ crashes = 0
  /\ lost = {} /\ cut = {} /\ moved = {} /\ outdated = {}
  /\ lastWord = [m \in Media |-> Nil]

Next ==
  \/ \E c \in Checks :
       \/ \E condition \in Problems :
            AnnounceProblem(c, condition) \/ AnnounceAcknowledgement(c, condition)
       \/ AnnounceRecovery(c) \/ AnnounceTest(c)
       \/ StartScheduled(c) \/ EndScheduled(c)
       \/ StartUnscheduled(c) \/ EndUnscheduled(c)
  \/ Tick \/ Take \/ AlertsFor \/ Destroy \/ Crash
  \/ \E a \in outbox : PushAlert(a)

Spec == Init /\ [][Next]_vars

-----------------------------------------------------------------------------
(* Properties *)

Types == {"problem", "recovery", "acknowledgement", "test"}
Rollups == {Nil, "problem", "recovery"}

Notification ==
  [check : Checks, type : Types, condition : Condition,
   severity : Condition, at : Nat]

Alerts ==
  [medium : Media, check : Checks, type : Types, condition : Condition,
   rollup : Rollups, at : Nat]

TypeOK ==
  /\ now \in Nat
  /\ announced \in [Checks -> [last : (Types \ {"test"}) \cup {Nil},
                               worst : Unhealthy \cup {Nil}]]
  /\ sched \subseteq Checks /\ unsched \subseteq Checks
  /\ queue \in Seq(Notification)
  /\ phase \in {"idle", "loaded", "decided"}
  /\ IF phase = "idle" THEN hand = Nil
     ELSE hand \in [notification : Notification, seen : SUBSET Checks]
  /\ outbox \subseteq Alerts
  /\ alertable \subseteq Checks
  /\ lastState \in [Media -> LastState \cup {Nil}]
  /\ lastRollup \in [Media -> Rollups]
  /\ lost \subseteq Checks /\ moved \subseteq Checks
  /\ cut \subseteq Media /\ outdated \subseteq Media
  /\ lastWord \in [Media -> Alerts \cup {Nil}]

Idle == queue = <<>> /\ phase = "idle"

\* No summary counts a check that is not failing, or misses one that is: with
\* nothing left to handle, alertable is set for the checks whose last
\* notification was a problem, unless it was lost in a crash or people have
\* put the check in maintenance since.
AlertableIsCurrent ==
  Idle =>
    \A c \in Checks \ lost :
      /\ c \in alertable => announced[c].last = "problem"
      /\ announced[c].last = "problem" /\ c \notin moved => c \in alertable

\* A medium whose rules restrict neither conditions nor hours.
Plain(m) ==
  \A r \in RuleSet :
    m \in r.media => Settled(r) /\ r.conditions = Nil /\ r.hours = Hours

\* A medium's last word is never of a problem when everything it hears of is
\* over, neither plainly nor as a summary, whatever the intervals suppressed
\* (unless a crash lost what would have told it).
EndIsTold ==
  Idle /\ lost = {} =>
    \A m \in Media :
      /\ Plain(m) /\ m \notin cut
      /\ lastWord[m] # Nil
      /\ \A c \in ChecksOf(RuleSet, TagsOf, m, HourAt(now)) :
           announced[c].last # "problem"
      => lastWord[m].type # "problem" /\ lastWord[m].rollup # "problem"

\* A medium is in its summaries exactly while enough of its checks are
\* alerting, whatever the intervals suppressed.
SummariesAreCurrent ==
  Idle /\ lost = {} =>
    \A m \in Media :
      Plain(m) /\ m \notin outdated /\ Threshold[m] > 0 =>
        (lastRollup[m] = "problem")
          = (Cardinality(AlertingChecks(m, alertable)) >= Threshold[m])

\* Problems of one condition that follow each other on a medium outside its
\* summaries are further apart than its interval (unless what was told between
\* them was lost in a crash).
RepeatsKeepInterval ==
  [][\A m \in Media :
       /\ m \notin cut
       /\ lastWord'[m] # lastWord[m] /\ lastWord[m] # Nil
       /\ lastWord[m].type = "problem" /\ lastWord'[m].type = "problem"
       /\ lastWord[m].condition = lastWord'[m].condition
       /\ lastWord[m].rollup = Nil /\ lastWord'[m].rollup = Nil
       => lastWord'[m].at - lastWord[m].at > Interval[m]]_vars

=============================================================================
