------------------------------ MODULE Processor ------------------------------
(***************************************************************************)
(* How the processor turns events about one check into notifications        *)
(* (Processor#process_event, its filters, and the parts of Check they       *)
(* change).  process_event runs under the lock of every class it touches    *)
(* and reads nothing of other checks, so an event is one step on one        *)
(* check; the API's changes to the check are steps between events.          *)
(*                                                                          *)
(* An event's timestamp is the value of the clock, which moves on with      *)
(* every event: the code's timestamps have a sub-second part, and no two    *)
(* events share one.  A Time.now evaluated inside process_event lies just   *)
(* after the timestamp.                                                     *)
(***************************************************************************)
EXTENDS Conditions, FiniteSets

CONSTANTS
  EventDelays,     \* the delay settings an event may carry
  CheckDelays,     \* those stored with the check
  ConfigDelays,    \* those of the processor's section of the configuration
  NcsmDuration,    \* new_check_scheduled_maintenance_duration, 0 for none
  AckDurations,    \* durations an acknowledgement may carry
  DefaultAckDuration,
  ScheduledDurations, \* durations of maintenance scheduled by people
  MaxTime,         \* bound on the clock
  MaxScheduled,    \* bound on the number of scheduled maintenances
  Nil

DelayKinds == {"failure", "recovery", "repeat"}

\* DEFAULT_INITIAL_FAILURE_DELAY and its two siblings, in units of 30 seconds.
DefaultDelays == [failure |-> 1, repeat |-> 2, recovery |-> 0]

DelaySettings == [DelayKinds -> Nat \cup {Nil}]

ASSUME ProcessorAssumption ==
  /\ EventDelays \subseteq DelaySettings
  /\ CheckDelays \in DelaySettings
  /\ ConfigDelays \in DelaySettings
  /\ NcsmDuration \in Nat
  /\ AckDurations \subseteq Nat
  /\ DefaultAckDuration \in Nat
  /\ ScheduledDurations \subseteq Nat \ {0}
  /\ MaxTime \in Nat /\ MaxScheduled \in Nat
  /\ Nil \notin Nat \cup Condition

VARIABLES
  now,
  known,        \* the check has a record
  condition,    \* check.condition
  current,      \* check.states.first: the newest entry of the history
  latest,       \* check.latest_notifications
  mostSevere,   \* the condition of check.most_severe
  scheduled,    \* check.scheduled_maintenances
  unscheduled,  \* check.unscheduled_maintenances
  emitted,      \* the notification the last step pushed to the notifier
  stoppedBy,    \* the event that ended the processor's thread
  lastNotified, \* history: the state of the last notification (tests excepted)
  turnedAt,     \* history: when the check last turned failing or healthy
  sinceAck      \* history: problem conditions notified since the last ack

checkVars == <<known, condition, current, latest, mostSevere>>
maintenanceVars == <<scheduled, unscheduled>>
historyVars == <<lastNotified, turnedAt, sinceAck>>

vars == <<now, checkVars, maintenanceVars, emitted, stoppedBy, historyVars>>

-----------------------------------------------------------------------------
(* Events and states *)

ActionStates ==
  {"acknowledgement", "test_notifications", "test_notifications critical"}

Tests == ActionStates \ {"acknowledgement"}

\* What parse_and_validate lets through.
Events ==
  [state : Condition, delays : EventDelays, duration : {Nil}]
    \cup [state : {"acknowledgement"}, delays : EventDelays,
          duration : AckDurations \cup {Nil}]
    \cup [state : Tests, delays : EventDelays, duration : {Nil}]

\* event_condition in process_event.
EventCondition(e) == IF e.state \in Condition THEN e.state ELSE Nil

\* A Flapjack::Data::State, as far as anything looks at it.
State == [at : Nat, condition : Condition \cup {Nil},
          action : ActionStates \cup {Nil}]

ASSUME NilAssumption == Nil \notin ActionStates \cup State

\* new_state: an action event keeps the condition of the previous state.
NewState(e) ==
  [at        |-> now,
   condition |-> IF EventCondition(e) # Nil THEN e.state
                 ELSE IF current = Nil THEN Nil ELSE current.condition,
   action    |-> IF EventCondition(e) # Nil THEN Nil ELSE e.state]

Newest(S) == CHOOSE s \in S : \A t \in S : t.at <= s.at

\* Alert.notification_type
NotificationType(s) ==
  CASE s.action = "acknowledgement" -> "acknowledgement"
    [] s.action \in Tests -> "test"
    [] s.action = Nil /\ s.condition \in Healthy -> "recovery"
    [] s.action = Nil /\ s.condition \in Unhealthy -> "problem"
    [] OTHER -> "unknown"

\* The first of event (service events only), check, configuration and default
\* to set each delay.
Delays(e) ==
  [k \in DelayKinds |->
     CASE EventCondition(e) # Nil /\ e.delays[k] # Nil -> e.delays[k]
       [] CheckDelays[k] # Nil -> CheckDelays[k]
       [] ConfigDelays[k] # Nil -> ConfigDelays[k]
       [] OTHER -> DefaultDelays[k]]

-----------------------------------------------------------------------------
(* Maintenance periods *)

Period == [from : Nat, until : Nat]

\* in_scheduled_maintenance?, in_unscheduled_maintenance?: both ends of the
\* range are inclusive, but Time.now is later than the event's timestamp.
ActiveAt(p, t) == p.from <= t /\ t < p.until
InMaintenance(periods, t) == \E p \in periods : ActiveAt(p, t)

\* clear_unscheduled_maintenance(t)
ClearAt(periods, t) ==
  {IF ActiveAt(p, t) THEN [p EXCEPT !.until = t] ELSE p : p \in periods}

\* set_unscheduled_maintenance(p), p starting at t
SetAt(periods, p, t) ==
  (IF p.until > t THEN ClearAt(periods, t) ELSE periods) \cup {p}

-----------------------------------------------------------------------------
(* Filters; each is asked only if the ones before it pass *)

HealthyService(new) == new.action = Nil /\ new.condition \in Healthy

\* Faulty: a check that was ever notified about announces every recovery.
OkBlocksUnnotified(old, new) ==
  HealthyService(new) /\ (old = Nil \/ latest = {})

OkBlocks(old, new) ==
  /\ HealthyService(new)
  /\ \/ old = Nil
     \/ latest = {}
     \/ Newest(latest).condition \in Healthy

\* Faulty: the acknowledged maintenance outlives the recovery.
UnscheduledStays(new) == unscheduled

\* Before it decides, the Ok filter ends an unscheduled maintenance.
UnscheduledAfterOk(new) ==
  IF HealthyService(new) THEN ClearAt(unscheduled, now) ELSE unscheduled

UnscheduledBlocks(new, periods) ==
  /\ InMaintenance(periods, now)
  /\ new.action # "acknowledgement"
  /\ new.condition \notin Healthy

JustFailed(old, new) ==
  (old = Nil \/ old.condition \in Healthy) /\ new.condition \notin Healthy

JustRecovered(old, new) ==
  old # Nil /\ old.condition \notin Healthy /\ new.condition \in Healthy

\* Faulty: whatever was sent after the last problem.
AnyRepeatTooSoon(new, delays) ==
  LET problems == {s \in latest : s.condition \in Unhealthy}
  IN  problems # {} /\ now - Newest(problems).at <= delays["repeat"]

\* Faulty: the repeat delay is over one unit early.
RepeatSooner(new, delays) ==
  LET problems == {s \in latest : s.condition \in Unhealthy}
      notified == {s \in latest : \/ s.condition \in Condition
                                  \/ s.action = "acknowledgement"}
  IN  /\ problems # {}
      /\ now - Newest(problems).at < delays["repeat"]
      /\ NotificationType(Newest(notified)) = NotificationType(new)

\* The last problem is too recent, and nothing but problems came after it.
RepeatTooSoon(new, delays) ==
  LET problems == {s \in latest : s.condition \in Unhealthy}
      notified == {s \in latest : \/ s.condition \in Condition
                                  \/ s.action = "acknowledgement"}
  IN  /\ problems # {}
      /\ now - Newest(problems).at <= delays["repeat"]
      /\ NotificationType(Newest(notified)) = NotificationType(new)

DelaysBlock(old, new, delays) ==
  /\ new.action = Nil
  /\ \/ JustFailed(old, new) /\ delays["failure"] > 0
     \/ JustRecovered(old, new) /\ delays["recovery"] > 0
     \/ /\ ~JustFailed(old, new) /\ ~JustRecovered(old, new)
        /\ \/ /\ new.condition \in Healthy
              /\ old # Nil /\ now - old.at < delays["recovery"]
           \/ /\ new.condition \notin Healthy
              /\ \/ old # Nil /\ now - old.at < delays["failure"]
                 \/ RepeatTooSoon(new, delays)

AcknowledgementBlocks(old, new) ==
  /\ new.action = "acknowledgement"
  /\ old = Nil \/ old.condition \in Healthy

\* Faulty: the filters do not see the maintenance of a new check yet.
BlockedBeforeNcsm(old, new, delays, sched) ==
  \/ OkBlocks(old, new)
  \/ InMaintenance(scheduled, now)
  \/ UnscheduledBlocks(new, UnscheduledAfterOk(new))
  \/ DelaysBlock(old, new, delays)
  \/ AcknowledgementBlocks(old, new)

Blocked(old, new, delays, sched) ==
  \/ OkBlocks(old, new)
  \/ InMaintenance(sched, now)
  \/ UnscheduledBlocks(new, UnscheduledAfterOk(new))
  \/ DelaysBlock(old, new, delays)
  \/ AcknowledgementBlocks(old, new)

-----------------------------------------------------------------------------
(* generate_notification *)

LatestWith(new) ==
  LET same == IF new.action = Nil
              THEN {s \in latest : s.condition = new.condition}
              ELSE {s \in latest : s.action = new.action}
  IN  (latest \ same) \cup {new}

\* Faulty: any service event is compared, recoveries included.
MostSevereOfAll(new) ==
  IF new.action = Nil /\ (mostSevere = Nil \/ Worse(new.condition, mostSevere))
  THEN new.condition ELSE mostSevere

\* Faulty: the last problem wins.
MostRecent(new) ==
  IF new.action = Nil /\ new.condition \in Unhealthy
  THEN new.condition ELSE mostSevere

\* most_severe_cond once check.most_severe has been updated for a service
\* event: only a worse problem replaces it.
MostSevereWith(new) ==
  IF /\ new.action = Nil
     /\ new.condition \in Unhealthy
     /\ mostSevere = Nil \/ Worse(new.condition, mostSevere)
  THEN new.condition ELSE mostSevere

\* An acknowledgement goes out with the severity it found, and clears it.
SeverityOf(new) ==
  IF new.action \in Tests THEN MostUnhealthy
  ELSE IF MostSevereWith(new) = Nil THEN "ok"
  ELSE MostSevereWith(new)

Notification(new, e) ==
  [state    |-> new,
   severity |-> SeverityOf(new),
   duration |-> e.duration,
   delays   |-> Delays(e)]

\* The captured severity of "test_notifications critical" keeps its leading
\* space, so the notification fails its validation and save! raises.
Unsaveable(new) == new.action = "test_notifications critical"

GenerateNotification(new, e) ==
  /\ ~Unsaveable(new)
  /\ emitted' = Notification(new, e)
  /\ IF new.action \in Tests
     THEN UNCHANGED <<latest, mostSevere, lastNotified, sinceAck>>
     ELSE /\ latest' = LatestWith(new)
          /\ lastNotified' = new
          /\ IF new.action = "acknowledgement"
             THEN mostSevere' = Nil /\ sinceAck' = {}
             ELSE /\ mostSevere' = MostSevereWith(new)
                  /\ sinceAck' = sinceAck \cup ({new.condition} \ Healthy)

-----------------------------------------------------------------------------
(* process_event *)

Ready == stoppedBy = Nil /\ now < MaxTime

\* A new check's scheduled maintenance starts with its first event.
ScheduledWithNcsm ==
  IF ~known /\ NcsmDuration > 0
  THEN scheduled \cup {[from |-> now, until |-> now + NcsmDuration]}
  ELSE scheduled

Turned(new) ==
  IF (condition \in Unhealthy) = (new.condition \in Unhealthy)
     /\ condition # Nil
  THEN turnedAt ELSE now

\* update_check, save! of the check, and the history.
RecordState(e, new) ==
  /\ known' = TRUE
  /\ scheduled' = ScheduledWithNcsm
  /\ IF EventCondition(e) = Nil
     THEN UNCHANGED <<condition, current, turnedAt>>
     ELSE /\ condition' = e.state
          /\ turnedAt' = Turned(new)
          /\ current' = IF current = Nil \/ current.condition # e.state
                        THEN new ELSE current

\* The check is new and an action event does not say whether it is enabled:
\* check.save! raises.
UnknownCheck(e) ==
  /\ ~known
  /\ EventCondition(e) = Nil
  /\ stoppedBy' = e.state
  /\ emitted' = Nil
  /\ UNCHANGED <<checkVars, maintenanceVars, historyVars>>

\* A healthy event and no previous condition: the filters are not asked.
FirstHealthy(e) ==
  /\ current = Nil
  /\ EventCondition(e) \in Healthy
  /\ RecordState(e, NewState(e))
  /\ emitted' = Nil
  /\ UNCHANGED <<latest, mostSevere, unscheduled, stoppedBy, lastNotified,
                 sinceAck>>

\* The Acknowledgement filter starts the acknowledged maintenance.
UnscheduledAfterPass(e, new) ==
  IF new.action = "acknowledgement"
  THEN LET d == IF e.duration = Nil THEN DefaultAckDuration ELSE e.duration
       IN  SetAt(unscheduled, [from |-> now, until |-> now + d], now)
  ELSE UnscheduledAfterOk(new)

Pass(e, new) ==
  /\ unscheduled' = UnscheduledAfterPass(e, new)
  /\ GenerateNotification(new, e)
  /\ UNCHANGED stoppedBy

Fail(e, new) ==
  /\ Unsaveable(new)
  /\ stoppedBy' = e.state
  /\ emitted' = Nil
  /\ UNCHANGED <<latest, mostSevere, unscheduled, lastNotified, sinceAck>>

Block(new) ==
  /\ emitted' = Nil
  /\ unscheduled' = UnscheduledAfterOk(new)
  /\ UNCHANGED <<latest, mostSevere, stoppedBy, lastNotified, sinceAck>>

Filtered(e) ==
  LET new == NewState(e)
  IN  /\ known \/ EventCondition(e) # Nil
      /\ ~(current = Nil /\ EventCondition(e) \in Healthy)
      /\ RecordState(e, new)
      /\ IF Blocked(current, new, Delays(e), ScheduledWithNcsm)
         THEN Block(new)
         ELSE Pass(e, new) \/ Fail(e, new)

ProcessEvent(e) ==
  /\ Ready
  /\ now' = now + 1
  /\ UnknownCheck(e) \/ FirstHealthy(e) \/ Filtered(e)

-----------------------------------------------------------------------------
(* Around the processor *)

Quiet == emitted' = Nil /\ UNCHANGED <<stoppedBy, historyVars>>

Tick ==
  /\ now < MaxTime
  /\ now' = now + 1
  /\ Quiet
  /\ UNCHANGED <<checkVars, maintenanceVars>>

\* The pikelet is run again, or the process is started again.
Restart ==
  /\ stoppedBy # Nil
  /\ stoppedBy' = Nil
  /\ emitted' = Nil
  /\ UNCHANGED <<now, checkVars, maintenanceVars, historyVars>>

\* POST /checks
CreateCheck ==
  /\ ~known
  /\ known' = TRUE
  /\ Quiet
  /\ UNCHANGED <<now, condition, current, latest, mostSevere, maintenanceVars>>

\* DELETE /checks/:id
DeleteCheck ==
  /\ known
  /\ known' = FALSE
  /\ condition' = Nil /\ current' = Nil /\ latest' = {} /\ mostSevere' = Nil
  /\ scheduled' = {} /\ unscheduled' = {}
  /\ emitted' = Nil
  /\ lastNotified' = Nil /\ turnedAt' = now /\ sinceAck' = {}
  /\ UNCHANGED <<now, stoppedBy>>

\* A scheduled maintenance, present or future, from the web interface.
Schedule(p) ==
  /\ known
  /\ Cardinality(scheduled) < MaxScheduled
  /\ scheduled' = scheduled \cup {p}
  /\ Quiet
  /\ UNCHANGED <<now, checkVars, unscheduled>>

\* End it now; the page it is ended from may be old, and the period over.
EndScheduled(p) ==
  /\ p.from < now
  /\ scheduled' = (scheduled \ {p}) \cup {[p EXCEPT !.until = now]}
  /\ Quiet
  /\ UNCHANGED <<now, checkVars, unscheduled>>

DeleteScheduled(p) ==
  /\ scheduled' = scheduled \ {p}
  /\ Quiet
  /\ UNCHANGED <<now, checkVars, unscheduled>>

\* End an unscheduled maintenance now, from a page that may be old as well.
EndUnscheduled(p) ==
  /\ unscheduled' = (unscheduled \ {p}) \cup {[p EXCEPT !.until = now]}
  /\ Quiet
  /\ UNCHANGED <<now, checkVars, scheduled>>

-----------------------------------------------------------------------------
Init ==
  /\ now = 0
  /\ known = FALSE
  /\ condition = Nil
  /\ current = Nil
  /\ latest = {}
  /\ mostSevere = Nil
  /\ scheduled = {}
  /\ unscheduled = {}
  /\ emitted = Nil
  /\ stoppedBy = Nil
  /\ lastNotified = Nil
  /\ turnedAt = 0
  /\ sinceAck = {}

Next ==
  \/ \E e \in Events : ProcessEvent(e)
  \/ Tick \/ Restart \/ CreateCheck \/ DeleteCheck
  \/ \E from \in now..MaxTime, d \in ScheduledDurations :
       Schedule([from |-> from, until |-> from + d])
  \/ \E p \in scheduled : EndScheduled(p) \/ DeleteScheduled(p)
  \/ \E p \in unscheduled : EndUnscheduled(p)

Spec == Init /\ [][Next]_vars

-----------------------------------------------------------------------------
(* Properties *)

\* Every variable has its type.
TypeOK ==
  /\ now \in Nat
  /\ known \in BOOLEAN
  /\ condition \in Condition \cup {Nil}
  /\ current \in State \cup {Nil}
  /\ latest \subseteq State
  /\ mostSevere \in Unhealthy \cup {Nil}
  /\ scheduled \subseteq Period
  /\ unscheduled \subseteq Period
  /\ emitted # Nil => emitted.state \in State /\ emitted.severity \in Condition
  /\ stoppedBy \in ActionStates \cup {Nil}
  /\ lastNotified \in State \cup {Nil}
  /\ turnedAt \in Nat
  /\ sinceAck \subseteq Unhealthy

Emits(type) == emitted' # Nil /\ NotificationType(emitted'.state) = type

\* latest_notifications stays true to what was sent (generate_notification):
\* its first entry, which the Ok and Delays filters decide by, is the state
\* of the last notification, and no problem condition has two entries.
LatestIsLastNotified ==
  /\ (latest = {}) = (lastNotified = Nil)
  /\ latest # {} => Newest(latest) = lastNotified
  /\ \A s, t \in latest :
       s.action = Nil /\ t.action = Nil /\ s.condition = t.condition => s = t

\* The condition the API shows and the history agree: the newest history
\* state has the check's condition, however events were filtered.
ConditionIsCurrent ==
  /\ (condition = Nil) = (current = Nil)
  /\ current # Nil => current.condition = condition

\* An acknowledgement's maintenance never outlives the failure it is about,
\* so that the next failure is not silenced by it (Ok filter).
AcknowledgedOnlyWhileFailing ==
  InMaintenance(unscheduled, now) => condition \in Unhealthy

\* At most one unscheduled maintenance is in effect, whatever acknowledgements
\* overlap (set_unscheduled_maintenance ends the earlier one).
OneAcknowledgement ==
  \A p, q \in unscheduled : ActiveAt(p, now) /\ ActiveAt(q, now) => p = q

\* check.most_severe is the worst problem notified since the last
\* acknowledgement: not since the last recovery.
MostSevereSinceAck ==
  mostSevere = IF sinceAck = {} THEN Nil ELSE WorstOf(sinceAck)

\* What the filters read is true, whatever came before: the announcements they
\* compare an event with, the condition it departs from and the severity it
\* goes out with (latest_notifications, condition, most_severe).
RecordsAreTrue ==
  LatestIsLastNotified /\ ConditionIsCurrent /\ MostSevereSinceAck

\* An acknowledgement silences one failure and no more, however periods overlap
\* and people end them (Ok filter, set_unscheduled_maintenance).
AcknowledgementsEnd == AcknowledgedOnlyWhileFailing /\ OneAcknowledgement

\* What the notifier relies on: a recovery is only announced after the problem
\* was, or was acknowledged before it could be, and only once (Ok filter), and
\* severities build up and start again as Announcements says.
Announced ==
  INSTANCE Announcements WITH
    announced <- [last  |-> IF lastNotified = Nil THEN Nil
                            ELSE NotificationType(lastNotified),
                  worst |-> mostSevere],
    at <- IF lastNotified = Nil THEN Nil ELSE lastNotified.at

AnnouncesInOrder == Announced!Spec

\* A problem is announced only when the check has been failing, in whatever
\* conditions, for the initial failure delay; a recovery likewise.
InitialDelaysKept ==
  [][/\ Emits("problem") => now - turnedAt' >= emitted'.delays["failure"]
     /\ Emits("recovery") => now - turnedAt' >= emitted'.delays["recovery"]
    ]_vars

\* Two problem announcements with none of another kind between them are more
\* than the repeat delay apart, unless the initial failure delay is switched
\* off (then a check that recovers unannounced and fails again is announced
\* at once).
RepeatDelayKept ==
  [][Emits("problem") /\ emitted'.delays["failure"] > 0
       => \/ lastNotified = Nil
          \/ NotificationType(lastNotified) # "problem"
          \/ now - lastNotified.at > emitted'.delays["repeat"]]_vars

\* Nobody hears of a problem or a recovery before the delays that go with the
\* event are over (Delays filter).
DelaysKept == InitialDelaysKept /\ RepeatDelayKept

\* Maintenance is silent: nothing at all during scheduled maintenance (that of
\* a new check included), no problem after an acknowledgement that is still
\* in force.
MaintenanceIsSilent ==
  [][emitted' # Nil =>
       /\ ~InMaintenance(scheduled', now)
       /\ Emits("problem") => ~InMaintenance(unscheduled, now)]_vars

RecoveryDue(d) ==
  /\ condition \in Healthy
  /\ now - turnedAt >= d["recovery"]
  /\ lastNotified # Nil /\ lastNotified.condition \in Unhealthy

ProblemDue(d) ==
  /\ condition \in Unhealthy
  /\ now - current.at >= d["failure"]
  /\ \/ lastNotified = Nil
     \/ NotificationType(lastNotified) # "problem"
     \/ now - lastNotified.at > d["repeat"]

\* No notification that is due is swallowed: once the delays have passed, and
\* outside maintenance, an event that repeats the current condition is let
\* through if it is a recovery nobody was told of, or a problem whose
\* predecessor was of another kind or is older than the repeat delay.
DueIsNotified ==
  ~InMaintenance(scheduled \cup unscheduled, now) =>
    \A e \in Events :
      e.state = condition /\ (RecoveryDue(Delays(e)) \/ ProblemDue(Delays(e)))
        => ~Blocked(current, NewState(e), Delays(e), scheduled)

\* "accepts test_notifications without condition, for backwards
\* compatibility" (generate_notification): the form with a condition, which
\* Event.test_notifications sends, is therefore accepted too.
TestNotificationsAccepted ==
  [][known /\ stoppedBy' # stoppedBy
       => stoppedBy' # "test_notifications critical"]_vars

=============================================================================
