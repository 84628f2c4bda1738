--------------------------- MODULE ProcessorProofs ---------------------------
(***************************************************************************)
(* What holds of Processor for any delays, durations and bounds.  The       *)
(* filters decide by the check's own records, so the invariant says what    *)
(* those are worth: where the newest history entry stands to the moment the *)
(* check turned (HistoryInv), that the latest notifications end with the    *)
(* last one (LatestInv), that most_severe is the worst since the last       *)
(* acknowledgement (SevereInv), and which unscheduled maintenance is open   *)
(* (PeriodInv).                                                             *)
(***************************************************************************)
EXTENDS Processor, TLAPS

HistoryInv ==
  /\ (condition = Nil) = (current = Nil)
  /\ current # Nil =>
       /\ current.condition = condition
       /\ current.action = Nil
       /\ turnedAt <= current.at
       /\ current.at < now
       /\ condition \in Healthy => current.at = turnedAt
  /\ turnedAt <= now

LatestInv ==
  /\ (latest = {}) = (lastNotified = Nil)
  /\ lastNotified # Nil => lastNotified \in latest
  /\ \A s \in latest :
       /\ s.at < now
       /\ s.at <= lastNotified.at
       /\ s.action \in {Nil, "acknowledgement"}
       /\ s.action = Nil => s.condition \in Condition
  /\ \A s, t \in latest : s.at = t.at => s = t
  /\ \A s, t \in latest :
       s.action = Nil /\ t.action = Nil /\ s.condition = t.condition => s = t

SevereInv == MostSevereSinceAck

PeriodInv ==
  /\ \A p \in unscheduled :
       p.from <= now /\ (p.until > now => condition \in Unhealthy)
  /\ \A p, q \in unscheduled : p.until > now /\ q.until > now => p = q

IInv == TypeOK /\ HistoryInv /\ LatestInv /\ SevereInv /\ PeriodInv

-----------------------------------------------------------------------------
(* Operators.                                                              *)

\* Conditions are ordered by how bad they are.
LEMMA WorseOrder ==
  /\ Worse("critical", "warning") /\ Worse("critical", "unknown")
  /\ Worse("warning", "unknown")
  /\ \A c, d \in Unhealthy : Worse(c, d) => c # d /\ ~Worse(d, c)
  /\ \A c, d \in Unhealthy : c = d \/ Worse(c, d) \/ Worse(d, c)
  /\ \A c, d, f \in Unhealthy : Worse(c, d) /\ Worse(d, f) => Worse(c, f)
<1>1. /\ Priority["critical"] = -3 /\ Priority["warning"] = -2
      /\ Priority["unknown"] = -1
  BY DEF Priority, Condition, Healthy, Unhealthy
<1> QED BY <1>1 DEF Worse, Unhealthy

\* The worst of a set is the one that is worse than the others.
LEMMA WorstIs ==
  ASSUME NEW S \in SUBSET Unhealthy, NEW w \in S,
         \A d \in S \ {w} : Worse(w, d)
  PROVE  WorstOf(S) = w
<1>1. \A v \in S : (\A d \in S \ {v} : Worse(v, d)) => v = w
  <2> SUFFICES ASSUME NEW v \in S, \A d \in S \ {v} : Worse(v, d), v # w
               PROVE  FALSE
    OBVIOUS
  <2>1. Worse(v, w) /\ Worse(w, v)
    OBVIOUS
  <2> QED BY <2>1, WorseOrder
<1> QED BY <1>1 DEF WorstOf

\* A set of problem conditions has a worst.
LEMMA WorstExists ==
  ASSUME NEW S \in SUBSET Unhealthy, S # {}
  PROVE  WorstOf(S) \in S /\ \A d \in S \ {WorstOf(S)} : Worse(WorstOf(S), d)
<1>1. \E w \in S : \A d \in S \ {w} : Worse(w, d)
  <2>1. CASE "critical" \in S
    BY <2>1, WorseOrder DEF Unhealthy
  <2>2. CASE "critical" \notin S /\ "warning" \in S
    BY <2>2, WorseOrder DEF Unhealthy
  <2>3. CASE "critical" \notin S /\ "warning" \notin S
    BY <2>3 DEF Unhealthy
  <2> QED BY <2>1, <2>2, <2>3
<1> QED BY <1>1 DEF WorstOf

\* One more condition makes the worst of the set worse, or does not.
LEMMA WorstWithOneMore ==
  ASSUME NEW S \in SUBSET Unhealthy, NEW c \in Unhealthy
  PROVE  WorstOf(S \cup {c}) =
           IF S = {} \/ Worse(c, WorstOf(S)) THEN c ELSE WorstOf(S)
<1> DEFINE T == S \cup {c}
<1>1. T \in SUBSET Unhealthy
  OBVIOUS
<1>2. CASE S = {}
  <2>1. c \in T /\ \A d \in T \ {c} : Worse(c, d)
    BY <1>2
  <2> QED BY <1>1, <1>2, <2>1, WorstIs
<1>3. CASE S # {} /\ Worse(c, WorstOf(S))
  <2>1. WorstOf(S) \in S /\ \A d \in S \ {WorstOf(S)} : Worse(WorstOf(S), d)
    BY <1>3, WorstExists
  <2>2. \A d \in T \ {c} : Worse(c, d)
    BY <1>3, <2>1, WorseOrder
  <2> QED BY <1>1, <1>3, <2>2, WorstIs
<1>4. CASE S # {} /\ ~Worse(c, WorstOf(S))
  <2>1. WorstOf(S) \in S /\ \A d \in S \ {WorstOf(S)} : Worse(WorstOf(S), d)
    BY <1>4, WorstExists
  <2>2. \A d \in T \ {WorstOf(S)} : Worse(WorstOf(S), d)
    BY <1>4, <2>1, WorseOrder
  <2> QED BY <1>1, <1>4, <2>1, <2>2, WorstIs
<1> QED BY <1>2, <1>3, <1>4

\* Action states are no conditions, and none of them is Nil.
LEMMA NilIsApart ==
  /\ Nil \notin Condition /\ Nil \notin ActionStates /\ Nil \notin State
  /\ Condition \cap ActionStates = {}
BY ProcessorAssumption, NilAssumption
   DEF Condition, Healthy, Unhealthy, ActionStates

\* What an event is made of.
LEMMA EventType ==
  ASSUME NEW e \in Events
  PROVE  /\ e.state \in Condition \cup ActionStates
         /\ e.delays \in DelaySettings
         /\ e.duration \in Nat \cup {Nil}
         /\ (EventCondition(e) = Nil) = (e.state \in ActionStates)
         /\ e.state \in Condition => EventCondition(e) = e.state
<1>1. e.state \in Condition \cup ActionStates
  BY DEF Events, ActionStates, Tests
<1>2. e.delays \in DelaySettings
  BY ProcessorAssumption DEF Events
<1>3. e.duration \in Nat \cup {Nil}
  BY ProcessorAssumption DEF Events
<1> QED BY <1>1, <1>2, <1>3, NilIsApart DEF EventCondition

\* Delays are numbers, wherever they come from.
LEMMA DelaysType ==
  ASSUME NEW e \in Events
  PROVE  Delays(e) \in [DelayKinds -> Nat]
<1>1. \A k \in DelayKinds : DefaultDelays[k] \in Nat
  BY DEF DefaultDelays, DelayKinds
<1>2. e.delays \in DelaySettings /\ CheckDelays \in DelaySettings
        /\ ConfigDelays \in DelaySettings
  BY EventType, ProcessorAssumption
<1>3. ASSUME NEW k \in DelayKinds
      PROVE  /\ e.delays[k] \in Nat \cup {Nil} /\ CheckDelays[k] \in Nat \cup {Nil}
             /\ ConfigDelays[k] \in Nat \cup {Nil}
  BY <1>2 DEF DelaySettings
<1> QED BY <1>1, <1>3 DEF Delays

\* The state an event makes: that of a condition, or of an action on the check
\* as it is.
LEMMA NewStateType ==
  ASSUME TypeOK, NEW e \in Events
  PROVE  /\ NewState(e) \in State
         /\ NewState(e).at = now
         /\ e.state \in Condition =>
              NewState(e).condition = e.state /\ NewState(e).action = Nil
         /\ e.state \in ActionStates =>
              /\ NewState(e).action = e.state
              /\ NewState(e).condition =
                   IF current = Nil THEN Nil ELSE current.condition
<1>1. e.state \in Condition \cup ActionStates
        /\ (EventCondition(e) = Nil) = (e.state \in ActionStates)
  BY EventType
<1>2. current # Nil => current.condition \in Condition \cup {Nil}
  BY DEF TypeOK, State
<1>3. now \in Nat
  BY DEF TypeOK
<1>4. CASE e.state \in Condition
  BY <1>1, <1>3, <1>4, NilIsApart DEF NewState, State
<1>5. CASE e.state \in ActionStates
  BY <1>1, <1>2, <1>3, <1>5, NilIsApart DEF NewState, State
<1> QED BY <1>1, <1>4, <1>5

\* The newest of some states that include the one all others precede.
LEMMA NewestIs ==
  ASSUME NEW S, NEW s \in S,
         \A t \in S : t.at <= s.at /\ t.at \in Nat,
         \A t, u \in S : t.at = u.at => t = u
  PROVE  Newest(S) = s
<1>1. \A u \in S : (\A t \in S : t.at <= u.at) => u = s
  <2> SUFFICES ASSUME NEW u \in S, \A t \in S : t.at <= u.at
               PROVE  u = s
    OBVIOUS
  <2>1. s.at <= u.at /\ u.at <= s.at /\ s.at \in Nat /\ u.at \in Nat
    OBVIOUS
  <2> QED BY <2>1
<1> QED BY <1>1 DEF Newest

\* So it is of the latest notifications, and of any part of them with the last.
LEMMA LastIsNewest ==
  ASSUME TypeOK, LatestInv, NEW S \in SUBSET latest, lastNotified \in S
  PROVE  Newest(S) = lastNotified
<1>1. \A t \in S : t.at <= lastNotified.at /\ t.at \in Nat
  BY DEF LatestInv, TypeOK, State
<1>2. \A t, u \in S : t.at = u.at => t = u
  BY DEF LatestInv
<1> QED BY <1>1, <1>2, NewestIs

\* A period that is cleared ends at the time, and no sooner begins.
LEMMA Cleared ==
  ASSUME NEW P \in SUBSET Period, NEW t \in Nat, \A p \in P : p.from <= t
  PROVE  /\ ClearAt(P, t) \in SUBSET Period
         /\ \A q \in ClearAt(P, t) : q.from <= t /\ q.until <= t
<1> SUFFICES ASSUME NEW q \in ClearAt(P, t)
             PROVE  q \in Period /\ q.from <= t /\ q.until <= t
  OBVIOUS
<1>1. PICK p \in P : q = IF ActiveAt(p, t) THEN [p EXCEPT !.until = t] ELSE p
  BY DEF ClearAt
<1>2. p.from \in Nat /\ p.until \in Nat /\ p \in Period /\ p.from <= t
  BY DEF Period
<1>3. CASE ActiveAt(p, t)
  BY <1>1, <1>2, <1>3 DEF Period
<1>4. CASE ~ActiveAt(p, t)
  BY <1>1, <1>2, <1>4 DEF ActiveAt
<1> QED BY <1>3, <1>4

-----------------------------------------------------------------------------
(* The parts of process_event.                                             *)

\* update_check and the history: the newest entry has the check's condition,
\* and is at least as young as its last turn.
LEMMA RecordKeepsHistory ==
  ASSUME TypeOK, HistoryInv, NEW e \in Events,
         RecordState(e, NewState(e)), now' = now + 1
  PROVE  /\ HistoryInv'
         /\ turnedAt' <= now
         /\ known' \in BOOLEAN
         /\ condition' \in Condition \cup {Nil}
         /\ current' \in State \cup {Nil}
         /\ scheduled' \subseteq Period
         /\ turnedAt' \in Nat
<1> DEFINE new == NewState(e)
<1>1. now \in Nat /\ turnedAt \in Nat /\ turnedAt <= now
  BY DEF TypeOK, HistoryInv
<1>2. current # Nil => current.at \in Nat /\ current \in State
  BY DEF TypeOK, State
<1>3. scheduled' \subseteq Period
  BY <1>1, ProcessorAssumption DEF RecordState, ScheduledWithNcsm, TypeOK, Period
<1>4. CASE EventCondition(e) = Nil
  <2>1. UNCHANGED <<condition, current, turnedAt>> /\ known' = TRUE
    BY <1>4 DEF RecordState
  <2> QED BY <2>1, <1>1, <1>2, <1>3 DEF HistoryInv, TypeOK
<1>5. CASE EventCondition(e) # Nil
  <2>1. e.state \in Condition /\ new \in State /\ new.at = now /\ new # Nil
          /\ new.condition = e.state /\ new.action = Nil /\ e.state # Nil
    BY <1>5, EventType, NewStateType, NilIsApart
  <2>2. /\ condition' = e.state /\ turnedAt' = Turned(new) /\ known' = TRUE
        /\ current' = IF current = Nil \/ current.condition # e.state
                      THEN new ELSE current
    BY <1>5 DEF RecordState
  <2>3. turnedAt' \in {turnedAt, now}
    BY <2>2 DEF Turned
  <2>4. CASE current = Nil \/ current.condition # e.state
    <3>1. e.state \in Healthy => turnedAt' = now
      BY <2>1, <2>2, <2>4 DEF Turned, HistoryInv, TypeOK, Condition, Healthy,
                              Unhealthy
    <3> QED BY <1>1, <1>3, <2>1, <2>2, <2>3, <2>4, <3>1 DEF HistoryInv
  <2>5. CASE current # Nil /\ current.condition = e.state
    <3>1. turnedAt' = turnedAt /\ current' = current
      BY <2>1, <2>2, <2>5 DEF Turned, HistoryInv
    <3> QED BY <1>1, <1>2, <1>3, <2>1, <2>2, <2>5, <3>1 DEF HistoryInv
  <2> QED BY <2>4, <2>5
<1> QED BY <1>4, <1>5

\* A notification takes its place at the head of the latest ones.
LEMMA LatestWithKeeps ==
  ASSUME TypeOK, LatestInv, NEW new \in State,
         new.at = now, new.action \in {Nil, "acknowledgement"},
         new.action = Nil => new.condition \in Condition,
         latest' = LatestWith(new), lastNotified' = new, now' = now + 1
  PROVE  LatestInv' /\ latest' \subseteq State
<1>1. PICK same \in SUBSET latest :
        /\ latest' = (latest \ same) \cup {new}
        /\ new.action = Nil =>
             \A s \in latest : s.condition = new.condition => s \in same
  BY DEF LatestWith
<1>2. \A s \in latest : s.at \in Nat /\ s \in State
  BY DEF TypeOK, State
<1>3. now \in Nat /\ new # Nil
  BY NilIsApart DEF TypeOK
<1>4. \A s \in latest : s.at < now
  BY DEF LatestInv
<1>5. \A s \in latest' : s = new \/ (s \in latest /\ s \notin same)
  BY <1>1
<1>6. \A s \in latest' : /\ s.at < now' /\ s.at <= lastNotified'.at
                         /\ s.action \in {Nil, "acknowledgement"}
                         /\ s.action = Nil => s.condition \in Condition
  BY <1>2, <1>3, <1>4, <1>5 DEF LatestInv
<1>7. \A s, t \in latest' : s.at = t.at => s = t
  BY <1>2, <1>3, <1>4, <1>5 DEF LatestInv
<1>8. \A s, t \in latest' :
        s.action = Nil /\ t.action = Nil /\ s.condition = t.condition => s = t
  BY <1>1, <1>5 DEF LatestInv
<1>9. latest' # {} /\ new \in latest'
  BY <1>1
<1> QED BY <1>1, <1>2, <1>3, <1>6, <1>7, <1>8, <1>9 DEF LatestInv

\* Without one, time passes and no more.
LEMMA LatestUnchanged ==
  ASSUME TypeOK, LatestInv, UNCHANGED <<latest, lastNotified>>,
         now' \in {now, now + 1}
  PROVE  LatestInv'
<1>1. \A s \in latest : s.at \in Nat
  BY DEF TypeOK, State
<1>2. now \in Nat
  BY DEF TypeOK
<1> QED BY <1>1, <1>2 DEF LatestInv

\* most_severe follows what was announced since the last acknowledgement.
LEMMA SeverityKeeps ==
  ASSUME TypeOK, SevereInv, NEW new \in State, new.action = Nil,
         new.condition \in Condition, mostSevere' = MostSevereWith(new),
         sinceAck' = sinceAck \cup ({new.condition} \ Healthy)
  PROVE  /\ SevereInv'
         /\ mostSevere' \in Unhealthy \cup {Nil}
         /\ sinceAck' \subseteq Unhealthy
<1>1. sinceAck \in SUBSET Unhealthy
  BY DEF TypeOK
<1>2. sinceAck # {} => WorstOf(sinceAck) \in Unhealthy
  BY <1>1, WorstExists
<1>3. Nil \notin Unhealthy
  BY NilIsApart DEF Condition
<1>4. mostSevere = IF sinceAck = {} THEN Nil ELSE WorstOf(sinceAck)
  BY DEF SevereInv, MostSevereSinceAck
<1>5. CASE new.condition \in Unhealthy
  <2>1. sinceAck' = sinceAck \cup {new.condition}
    BY <1>5 DEF Healthy, Unhealthy
  <2>2. WorstOf(sinceAck') =
          IF sinceAck = {} \/ Worse(new.condition, WorstOf(sinceAck))
          THEN new.condition ELSE WorstOf(sinceAck)
    BY <1>1, <1>5, <2>1, WorstWithOneMore
  <2>3. mostSevere' = WorstOf(sinceAck')
    BY <1>2, <1>3, <1>4, <1>5, <2>2 DEF MostSevereWith
  <2> QED BY <1>1, <1>2, <1>5, <2>1, <2>2, <2>3 DEF SevereInv, MostSevereSinceAck
<1>6. CASE new.condition \notin Unhealthy
  <2>1. sinceAck' = sinceAck /\ mostSevere' = mostSevere
    BY <1>6 DEF MostSevereWith, Condition
  <2> QED BY <1>1, <1>2, <1>4, <2>1 DEF SevereInv, MostSevereSinceAck
<1> QED BY <1>5, <1>6

\* Periods that stay, or end now, keep what was said of them.
LEMMA PeriodsStay ==
  ASSUME TypeOK, PeriodInv, now' \in {now, now + 1},
         \A q \in unscheduled' :
           \/ q \in unscheduled
           \/ q \in Period /\ q.from <= now /\ q.until <= now,
         \/ condition' \in {condition} \cup Unhealthy
         \/ \A q \in unscheduled' : q.until <= now
  PROVE  PeriodInv' /\ unscheduled' \subseteq Period
<1>1. now \in Nat /\ unscheduled \subseteq Period
  BY DEF TypeOK
<1>2. unscheduled' \subseteq Period
  BY <1>1
<1>3. \A q \in unscheduled' : q.from \in Nat /\ q.until \in Nat
  BY <1>2 DEF Period
<1>4. \A q \in unscheduled' : q.until > now' => q \in unscheduled /\ q.until > now
  BY <1>1, <1>3
<1>5. \A q \in unscheduled' : q.from <= now'
  BY <1>1, <1>3 DEF PeriodInv
<1>6. \A q \in unscheduled' : q.until > now' => condition' \in Unhealthy
  BY <1>1, <1>3, <1>4 DEF PeriodInv
<1>7. \A p, q \in unscheduled' : p.until > now' /\ q.until > now' => p = q
  BY <1>4 DEF PeriodInv
<1> QED BY <1>2, <1>5, <1>6, <1>7 DEF PeriodInv

\* The Ok filter leaves no period open after a healthy event.
LEMMA PeriodsAfterOk ==
  ASSUME TypeOK, PeriodInv, NEW e \in Events, now' = now + 1,
         unscheduled' = UnscheduledAfterOk(NewState(e)),
         condition' = IF e.state \in Condition THEN e.state ELSE condition
  PROVE  PeriodInv' /\ unscheduled' \subseteq Period
<1> DEFINE new == NewState(e)
<1>1. now \in Nat /\ unscheduled \in SUBSET Period
  BY DEF TypeOK
<1>2. \A p \in unscheduled : p.from <= now
  BY DEF PeriodInv
<1>3. CASE HealthyService(new)
  <2>1. unscheduled' = ClearAt(unscheduled, now)
    BY <1>3 DEF UnscheduledAfterOk
  <2>2. \A q \in unscheduled' : q \in Period /\ q.from <= now /\ q.until <= now
    BY <1>1, <1>2, <2>1, Cleared
  <2> QED BY <2>2, PeriodsStay
<1>4. CASE ~HealthyService(new)
  <2>1. unscheduled' = unscheduled
    BY <1>4 DEF UnscheduledAfterOk
  <2>2. condition' \in {condition} \cup Unhealthy
    BY <1>4, NewStateType DEF HealthyService, Condition
  <2> QED BY <2>1, <2>2, PeriodsStay
<1> QED BY <1>3, <1>4

\* An acknowledgement of a failure opens one period and closes the others.
LEMMA PeriodsAfterAck ==
  ASSUME TypeOK, PeriodInv, now' = now + 1, NEW d \in Nat,
         unscheduled' = SetAt(unscheduled, [from |-> now, until |-> now + d], now),
         condition \in Unhealthy, condition' = condition
  PROVE  PeriodInv' /\ unscheduled' \subseteq Period
<1> DEFINE p == [from |-> now, until |-> now + d]
<1>1. now \in Nat /\ unscheduled \in SUBSET Period
  BY DEF TypeOK
<1>2. \A q \in unscheduled : q.from <= now
  BY DEF PeriodInv
<1>3. p \in Period /\ p.from = now /\ p.until = now + d
  BY <1>1 DEF Period
<1>4. CASE d = 0
  <2>1. unscheduled' = unscheduled \cup {p} /\ p.until <= now
    BY <1>1, <1>3, <1>4 DEF SetAt
  <2> QED BY <1>1, <1>3, <2>1, PeriodsStay
<1>5. CASE d # 0
  <2>1. unscheduled' = ClearAt(unscheduled, now) \cup {p}
    BY <1>1, <1>3, <1>5 DEF SetAt
  <2>2. \A q \in ClearAt(unscheduled, now) :
          q \in Period /\ q.from <= now /\ q.until <= now
    BY <1>1, <1>2, Cleared
  <2>3. \A q \in unscheduled' :
          /\ q \in Period /\ q.from <= now /\ q.from \in Nat /\ q.until \in Nat
          /\ q = p \/ q.until <= now
    BY <1>1, <1>3, <2>1, <2>2 DEF Period
  <2>4. \A q \in unscheduled' : q.from <= now' /\ (q.until > now' => q = p)
    BY <1>1, <2>3
  <2> QED BY <2>3, <2>4 DEF PeriodInv
<1> QED BY <1>4, <1>5

\* Severities are conditions.
LEMMA SeverityType ==
  ASSUME mostSevere \in Unhealthy \cup {Nil}, NEW new \in State
  PROVE  SeverityOf(new) \in Condition
<1>1. MostUnhealthy \in Condition
  <2>1. Unhealthy \in SUBSET Unhealthy /\ Unhealthy # {}
    BY DEF Unhealthy
  <2>2. WorstOf(Unhealthy) \in Unhealthy
    BY <2>1, WorstExists
  <2> QED BY <2>2 DEF MostUnhealthy, WorstOf, Condition
<1>2. MostSevereWith(new) \in Unhealthy \cup {Nil}
  BY DEF MostSevereWith
<1> QED BY <1>1, <1>2 DEF SeverityOf, Condition, Healthy

\* What an announcement does to the check's records.
LEMMA AnnounceKeeps ==
  ASSUME IInv, NEW e \in Events, now' = now + 1,
         GenerateNotification(NewState(e), e),
         e.state \in ActionStates \/ e.state \in Condition
  PROVE  /\ LatestInv' /\ latest' \subseteq State
         /\ lastNotified' \in State \cup {Nil}
         /\ SevereInv' /\ mostSevere' \in Unhealthy \cup {Nil}
         /\ sinceAck' \subseteq Unhealthy
         /\ emitted'.state \in State /\ emitted'.severity \in Condition
<1> DEFINE new == NewState(e)
<1>1. /\ new \in State /\ new.at = now
      /\ e.state \in Condition => new.condition = e.state /\ new.action = Nil
      /\ e.state \in ActionStates => new.action = e.state
  BY NewStateType DEF IInv
<1>2. emitted'.state \in State /\ emitted'.severity \in Condition
  <2>1. emitted' = Notification(new, e)
    BY DEF GenerateNotification
  <2>2. emitted'.state = new /\ emitted'.severity = SeverityOf(new)
    BY <2>1 DEF Notification
  <2> QED BY <1>1, <2>2, SeverityType DEF IInv, TypeOK
<1>3. CASE new.action \in Tests
  <2>1. UNCHANGED <<latest, mostSevere, lastNotified, sinceAck>>
    BY <1>3 DEF GenerateNotification
  <2>2. LatestInv'
    BY <2>1, LatestUnchanged DEF IInv
  <2> QED BY <1>2, <2>1, <2>2 DEF IInv, TypeOK, SevereInv, MostSevereSinceAck
<1>4. CASE new.action \notin Tests
  <2>1. latest' = LatestWith(new) /\ lastNotified' = new
    BY <1>4 DEF GenerateNotification
  <2>2. new.action \in {Nil, "acknowledgement"}
    BY <1>1, <1>4 DEF Tests, ActionStates
  <2>3. new.action = Nil => e.state \in Condition
    BY <1>1, NilIsApart
  <2>4. LatestInv' /\ latest' \subseteq State
    BY <1>1, <2>1, <2>2, <2>3, LatestWithKeeps DEF IInv
  <2>5. CASE new.action = "acknowledgement"
    <3>1. mostSevere' = Nil /\ sinceAck' = {}
      BY <1>4, <2>5 DEF GenerateNotification
    <3> QED BY <1>1, <1>2, <2>1, <2>4, <3>1 DEF SevereInv, MostSevereSinceAck
  <2>6. CASE new.action = Nil
    <3>1. /\ mostSevere' = MostSevereWith(new)
          /\ sinceAck' = sinceAck \cup ({new.condition} \ Healthy)
      BY <1>4, <2>6, NilIsApart DEF GenerateNotification, ActionStates
    <3>2. /\ SevereInv' /\ mostSevere' \in Unhealthy \cup {Nil}
          /\ sinceAck' \subseteq Unhealthy
      BY <1>1, <2>3, <2>6, <3>1, SeverityKeeps DEF IInv
    <3> QED BY <1>1, <1>2, <2>1, <2>4, <3>2
  <2> QED BY <2>2, <2>5, <2>6
<1> QED BY <1>3, <1>4

\* An event that passes the filters ends or opens a period as its kind asks.
LEMMA PassKeepsPeriods ==
  ASSUME IInv, NEW e \in Events, now' = now + 1,
         ~AcknowledgementBlocks(current, NewState(e)),
         unscheduled' = UnscheduledAfterPass(e, NewState(e)),
         condition' = IF e.state \in Condition THEN e.state ELSE condition
  PROVE  PeriodInv' /\ unscheduled' \subseteq Period
<1> DEFINE new == NewState(e)
<1>1. CASE new.action = "acknowledgement"
  <2>1. e.state \notin Condition
    BY <1>1, NewStateType, NilIsApart DEF IInv, ActionStates
  <2>2. current # Nil /\ current.condition \notin Healthy
    BY <1>1 DEF AcknowledgementBlocks
  <2>3. condition \in Unhealthy /\ condition' = condition
    BY <2>1, <2>2 DEF IInv, HistoryInv, TypeOK, Condition
  <2>4. PICK d \in Nat :
          unscheduled' = SetAt(unscheduled, [from |-> now, until |-> now + d], now)
    BY <1>1, EventType, ProcessorAssumption DEF UnscheduledAfterPass
  <2> QED BY <2>3, <2>4, PeriodsAfterAck DEF IInv
<1>2. CASE new.action # "acknowledgement"
  <2>1. unscheduled' = UnscheduledAfterOk(new)
    BY <1>2 DEF UnscheduledAfterPass
  <2> QED BY <2>1, PeriodsAfterOk DEF IInv
<1> QED BY <1>1, <1>2

\* A whole event keeps the invariant.
LEMMA ProcessEventKeeps ==
  ASSUME IInv, NEW e \in Events, ProcessEvent(e)
  PROVE  IInv'
<1> DEFINE new == NewState(e)
<1>1. now' = now + 1 /\ now \in Nat /\ now' \in Nat
  BY DEF ProcessEvent, IInv, TypeOK
<1>2. e.state \in Condition \cup ActionStates
        /\ (EventCondition(e) = Nil) = (e.state \in ActionStates)
        /\ (e.state \in Condition => EventCondition(e) = e.state)
        /\ Condition \cap ActionStates = {} /\ Nil \notin Condition
  BY EventType, NilIsApart
<1>3. CASE UnknownCheck(e)
  <2>1. e.state \in ActionStates
    BY <1>2, <1>3 DEF UnknownCheck
  <2>2. /\ UNCHANGED <<checkVars, maintenanceVars, historyVars>>
        /\ stoppedBy' = e.state /\ emitted' = Nil
    BY <1>3 DEF UnknownCheck
  <2>3. HistoryInv'
    <3>1. current # Nil => current.at \in Nat
      BY DEF IInv, TypeOK, State
    <3> QED BY <1>1, <2>2, <3>1
            DEF IInv, TypeOK, HistoryInv, checkVars, historyVars
  <2>4. LatestInv'
    BY <1>1, <2>2, LatestUnchanged DEF IInv, checkVars, historyVars
  <2>5. PeriodInv'
    BY <1>1, <2>2, PeriodsStay DEF IInv, checkVars, maintenanceVars
  <2>6. TypeOK' /\ SevereInv'
    BY <1>1, <2>1, <2>2 DEF IInv, TypeOK, SevereInv, MostSevereSinceAck,
                            checkVars, maintenanceVars, historyVars
  <2> QED BY <2>3, <2>4, <2>5, <2>6 DEF IInv
<1>4. ASSUME RecordState(e, new)
      PROVE  /\ HistoryInv' /\ turnedAt' \in Nat /\ known' \in BOOLEAN
             /\ condition' \in Condition \cup {Nil}
             /\ current' \in State \cup {Nil} /\ scheduled' \subseteq Period
             /\ condition' = IF e.state \in Condition THEN e.state ELSE condition
  <2>1. /\ HistoryInv' /\ turnedAt' \in Nat /\ known' \in BOOLEAN
        /\ condition' \in Condition \cup {Nil}
        /\ current' \in State \cup {Nil} /\ scheduled' \subseteq Period
    BY <1>1, <1>4, RecordKeepsHistory DEF IInv
  <2>2. condition' = IF e.state \in Condition THEN e.state ELSE condition
    BY <1>2, <1>4 DEF RecordState
  <2> QED BY <2>1, <2>2
<1>5. CASE FirstHealthy(e)
  <2>1. /\ RecordState(e, new) /\ emitted' = Nil /\ current = Nil
        /\ UNCHANGED <<latest, mostSevere, unscheduled, stoppedBy, lastNotified,
                       sinceAck>>
    BY <1>5 DEF FirstHealthy
  <2>2. LatestInv'
    BY <1>1, <2>1, LatestUnchanged DEF IInv
  <2>3. PeriodInv'
    <3>1. condition \notin Unhealthy
      BY <1>2, <2>1 DEF IInv, HistoryInv, Condition
    <3>2. \A q \in unscheduled : q.until <= now
      BY <1>1, <3>1 DEF IInv, PeriodInv, TypeOK, Period
    <3> QED BY <1>1, <2>1, <3>2, PeriodsStay DEF IInv
  <2>4. TypeOK' /\ SevereInv'
    BY <1>1, <1>4, <2>1 DEF IInv, TypeOK, SevereInv, MostSevereSinceAck
  <2> QED BY <1>4, <2>1, <2>2, <2>3, <2>4 DEF IInv
<1>6. CASE Filtered(e)
  <2>1. RecordState(e, new)
    BY <1>6 DEF Filtered
  <2>2. CASE Block(new)
    <3>1. /\ emitted' = Nil /\ unscheduled' = UnscheduledAfterOk(new)
          /\ UNCHANGED <<latest, mostSevere, stoppedBy, lastNotified, sinceAck>>
      BY <2>2 DEF Block
    <3>2. LatestInv'
      BY <1>1, <3>1, LatestUnchanged DEF IInv
    <3>3. PeriodInv' /\ unscheduled' \subseteq Period
      BY <1>1, <1>4, <2>1, <3>1, PeriodsAfterOk DEF IInv
    <3>4. TypeOK' /\ SevereInv'
      BY <1>1, <1>4, <2>1, <3>1, <3>3
         DEF IInv, TypeOK, SevereInv, MostSevereSinceAck
    <3> QED BY <1>4, <2>1, <3>2, <3>3, <3>4 DEF IInv
  <2>3. CASE Pass(e, new) /\ ~Blocked(current, new, Delays(e), ScheduledWithNcsm)
    <3>1. /\ unscheduled' = UnscheduledAfterPass(e, new)
          /\ GenerateNotification(new, e) /\ UNCHANGED stoppedBy
          /\ ~AcknowledgementBlocks(current, new)
      BY <2>3 DEF Pass, Blocked
    <3>2. /\ LatestInv' /\ latest' \subseteq State
          /\ lastNotified' \in State \cup {Nil}
          /\ SevereInv' /\ mostSevere' \in Unhealthy \cup {Nil}
          /\ sinceAck' \subseteq Unhealthy
          /\ emitted'.state \in State /\ emitted'.severity \in Condition
      BY <1>1, <1>2, <3>1, AnnounceKeeps
    <3>3. PeriodInv' /\ unscheduled' \subseteq Period
      BY <1>1, <1>4, <2>1, <3>1, PassKeepsPeriods
    <3>4. TypeOK'
      BY <1>1, <1>4, <2>1, <3>1, <3>2, <3>3 DEF IInv, TypeOK
    <3> QED BY <1>4, <2>1, <3>2, <3>3, <3>4 DEF IInv
  <2>4. CASE Fail(e, new)
    <3>1. /\ stoppedBy' = e.state /\ emitted' = Nil
          /\ new.action = "test_notifications critical"
          /\ UNCHANGED <<latest, mostSevere, unscheduled, lastNotified, sinceAck>>
      BY <2>4 DEF Fail, Unsaveable
    <3>2. e.state \in ActionStates
      BY <1>2, <3>1, NewStateType, NilIsApart DEF IInv, ActionStates
    <3>3. LatestInv'
      BY <1>1, <3>1, LatestUnchanged DEF IInv
    <3>4. PeriodInv'
      BY <1>1, <1>2, <1>4, <2>1, <3>1, <3>2, PeriodsStay DEF IInv
    <3>5. TypeOK' /\ SevereInv'
      BY <1>1, <1>4, <2>1, <3>1, <3>2
         DEF IInv, TypeOK, SevereInv, MostSevereSinceAck
    <3> QED BY <1>4, <2>1, <3>3, <3>4, <3>5 DEF IInv
  <2> QED BY <1>6, <2>2, <2>3, <2>4 DEF Filtered
<1> QED BY <1>3, <1>5, <1>6 DEF ProcessEvent

-----------------------------------------------------------------------------
(* The invariant, and what follows from it.                                *)

\* A step that leaves the check's records alone keeps what is said of them.
LEMMA AsideKeeps ==
  ASSUME IInv, UNCHANGED <<condition, current, latest, mostSevere, historyVars>>,
         now' \in {now, now + 1}
  PROVE  HistoryInv' /\ LatestInv' /\ SevereInv'
<1>1. HistoryInv'
  <2>1. now \in Nat /\ turnedAt \in Nat /\ (current # Nil => current.at \in Nat)
    BY DEF IInv, TypeOK, State
  <2> QED BY <2>1 DEF IInv, HistoryInv, historyVars
<1>2. LatestInv'
  BY LatestUnchanged DEF IInv, historyVars
<1> QED BY <1>1, <1>2 DEF IInv, SevereInv, MostSevereSinceAck, historyVars

\* A period that is ended is a period.
LEMMA EndedPeriod ==
  ASSUME NEW p \in Period, NEW t \in Nat
  PROVE  /\ [p EXCEPT !.until = t] \in Period
         /\ [p EXCEPT !.until = t].from = p.from
         /\ [p EXCEPT !.until = t].until = t
BY DEF Period

LEMMA Initially == Init => IInv
<1> SUFFICES ASSUME Init
             PROVE  IInv
  OBVIOUS
<1>1. TypeOK
  BY DEF Init, TypeOK
<1>2. HistoryInv /\ LatestInv
  BY DEF Init, HistoryInv, LatestInv
<1>3. SevereInv /\ PeriodInv
  BY DEF Init, SevereInv, MostSevereSinceAck, PeriodInv
<1> QED BY <1>1, <1>2, <1>3 DEF IInv

LEMMA Step == IInv /\ [Next]_vars => IInv'
<1> SUFFICES ASSUME IInv, [Next]_vars
             PROVE  IInv'
  OBVIOUS
<1>1. now \in Nat /\ unscheduled \subseteq Period /\ scheduled \subseteq Period
  BY DEF IInv, TypeOK
<1>2. ASSUME NEW e \in Events, ProcessEvent(e)
      PROVE  IInv'
  BY <1>2, ProcessEventKeeps
<1>3. CASE Tick
  <2>1. /\ now' = now + 1 /\ emitted' = Nil
        /\ UNCHANGED <<stoppedBy, historyVars, checkVars, maintenanceVars>>
    BY <1>3 DEF Tick, Quiet
  <2>2. PeriodInv'
    BY <1>1, <2>1, PeriodsStay DEF IInv, checkVars, maintenanceVars
  <2> QED BY <1>1, <2>1, <2>2, AsideKeeps
          DEF IInv, TypeOK, checkVars, maintenanceVars, historyVars
<1>4. CASE Restart
  <2>1. /\ stoppedBy' = Nil /\ emitted' = Nil
        /\ UNCHANGED <<now, checkVars, maintenanceVars, historyVars>>
    BY <1>4 DEF Restart
  <2>2. PeriodInv'
    BY <1>1, <2>1, PeriodsStay DEF IInv, checkVars, maintenanceVars
  <2> QED BY <1>1, <2>1, <2>2, AsideKeeps
          DEF IInv, TypeOK, checkVars, maintenanceVars, historyVars
<1>5. CASE CreateCheck
  <2>1. /\ known' = TRUE /\ emitted' = Nil
        /\ UNCHANGED <<stoppedBy, historyVars, now, condition, current, latest,
                       mostSevere, maintenanceVars>>
    BY <1>5 DEF CreateCheck, Quiet
  <2>2. PeriodInv'
    BY <1>1, <2>1, PeriodsStay DEF IInv, maintenanceVars
  <2> QED BY <1>1, <2>1, <2>2, AsideKeeps
          DEF IInv, TypeOK, maintenanceVars, historyVars
<1>6. CASE DeleteCheck
  <2>1. TypeOK'
    BY <1>1, <1>6 DEF DeleteCheck, IInv, TypeOK
  <2>2. HistoryInv' /\ LatestInv'
    BY <1>1, <1>6 DEF DeleteCheck, HistoryInv, LatestInv
  <2>3. SevereInv' /\ PeriodInv'
    BY <1>6 DEF DeleteCheck, SevereInv, MostSevereSinceAck, PeriodInv
  <2> QED BY <2>1, <2>2, <2>3 DEF IInv
<1>7. ASSUME NEW p \in Period, Schedule(p)
      PROVE  IInv'
  <2>1. /\ scheduled' = scheduled \cup {p} /\ emitted' = Nil
        /\ UNCHANGED <<stoppedBy, historyVars, now, checkVars, unscheduled>>
    BY <1>7 DEF Schedule, Quiet
  <2>2. PeriodInv'
    BY <1>1, <2>1, PeriodsStay DEF IInv, checkVars
  <2> QED BY <1>1, <2>1, <2>2, AsideKeeps DEF IInv, TypeOK, checkVars, historyVars
<1>8. ASSUME NEW p \in scheduled, EndScheduled(p) \/ DeleteScheduled(p)
      PROVE  IInv'
  <2>1. /\ emitted' = Nil
        /\ UNCHANGED <<stoppedBy, historyVars, now, checkVars, unscheduled>>
    BY <1>8 DEF EndScheduled, DeleteScheduled, Quiet
  <2>2. [p EXCEPT !.until = now] \in Period
    BY <1>1, EndedPeriod
  <2>3. scheduled' \subseteq Period
    BY <1>1, <1>8, <2>2 DEF EndScheduled, DeleteScheduled
  <2>4. PeriodInv'
    BY <1>1, <2>1, PeriodsStay DEF IInv, checkVars
  <2> QED BY <1>1, <2>1, <2>3, <2>4, AsideKeeps
          DEF IInv, TypeOK, checkVars, historyVars
<1>9. ASSUME NEW p \in unscheduled, EndUnscheduled(p)
      PROVE  IInv'
  <2> DEFINE q == [p EXCEPT !.until = now]
  <2>1. /\ unscheduled' = (unscheduled \ {p}) \cup {q} /\ emitted' = Nil
        /\ UNCHANGED <<stoppedBy, historyVars, now, checkVars, scheduled>>
    BY <1>9 DEF EndUnscheduled, Quiet
  <2>2. q \in Period /\ q.from <= now /\ q.until <= now
    BY <1>1, EndedPeriod DEF IInv, PeriodInv
  <2>3. PeriodInv' /\ unscheduled' \subseteq Period
    BY <1>1, <2>1, <2>2, PeriodsStay DEF IInv, checkVars
  <2> QED BY <1>1, <2>1, <2>3, AsideKeeps DEF IInv, TypeOK, checkVars, historyVars
<1>10. CASE UNCHANGED vars
  BY <1>10 DEF vars, checkVars, maintenanceVars, historyVars, IInv, TypeOK,
               HistoryInv, LatestInv, SevereInv, MostSevereSinceAck, PeriodInv
<1>11. \A from \in now .. MaxTime, d \in ScheduledDurations :
         [from |-> from, until |-> from + d] \in Period
  BY <1>1, ProcessorAssumption DEF Period
<1> QED BY <1>2, <1>3, <1>4, <1>5, <1>6, <1>7, <1>8, <1>9, <1>10, <1>11 DEF Next

\* What the check's records say of the past is true, in every state that any
\* sequence of events and requests leads to.
THEOREM Inductive == Spec => []IInv
BY Initially, Step, PTL DEF Spec

\* The variables of the processor, its check and its periods keep their types.
THEOREM TypeCorrect == Spec => []TypeOK
<1>1. IInv => TypeOK
  BY DEF IInv
<1> QED BY <1>1, Inductive, PTL

\* latest_notifications ends with what was announced last, condition and
\* history agree, and most_severe is the worst announced since the last
\* acknowledgement.
THEOREM RecordsHold == Spec => []RecordsAreTrue
<1>1. IInv => RecordsAreTrue
  <2> SUFFICES ASSUME IInv
               PROVE  RecordsAreTrue
    OBVIOUS
  <2>1. latest # {} => Newest(latest) = lastNotified
    <3>1. latest # {} => lastNotified \in latest
      BY DEF IInv, LatestInv
    <3> QED BY <3>1, LastIsNewest DEF IInv
  <2> QED BY <2>1 DEF IInv, LatestInv, LatestIsLastNotified, HistoryInv,
                      ConditionIsCurrent, SevereInv, RecordsAreTrue
<1> QED BY <1>1, Inductive, PTL

\* An acknowledgement silences the failure it is about and no other.
THEOREM AcknowledgementsDoEnd == Spec => []AcknowledgementsEnd
<1>1. IInv => AcknowledgementsEnd
  <2> SUFFICES ASSUME IInv
               PROVE  AcknowledgementsEnd
    OBVIOUS
  <2>1. \A p \in unscheduled : ActiveAt(p, now) => p.until > now
    BY DEF IInv, TypeOK, Period, ActiveAt
  <2> QED BY <2>1 DEF IInv, PeriodInv, AcknowledgementsEnd, InMaintenance,
                      AcknowledgedOnlyWhileFailing, OneAcknowledgement
<1> QED BY <1>1, Inductive, PTL

-----------------------------------------------------------------------------
(* What is announced, and when.                                            *)

\* The type of a notification, by the action and the condition of its state.
LEMMA TypeOf ==
  ASSUME NEW s \in State
  PROVE  /\ s.action = "acknowledgement" => NotificationType(s) = "acknowledgement"
         /\ s.action \in Tests => NotificationType(s) = "test"
         /\ s.action = Nil /\ s.condition \in Healthy =>
              NotificationType(s) = "recovery"
         /\ s.action = Nil /\ s.condition \in Unhealthy =>
              NotificationType(s) = "problem"
         /\ s.action = Nil /\ s.condition \notin Condition =>
              NotificationType(s) = "unknown"
<1>1. Nil \notin ActionStates /\ Nil \notin Condition
  BY NilIsApart
<1>2. "acknowledgement" \in ActionStates /\ "acknowledgement" \notin Tests
        /\ Tests \subseteq ActionStates
  BY DEF ActionStates, Tests
<1>3. Healthy \cap Unhealthy = {} /\ Condition = Healthy \cup Unhealthy
  BY DEF Healthy, Unhealthy, Condition
<1> QED BY <1>1, <1>2, <1>3 DEF NotificationType

\* Only a state without an action and with a problem condition is a problem,
\* and likewise for recoveries.
LEMMA TypeSays ==
  ASSUME NEW s \in State
  PROVE  /\ NotificationType(s) = "problem" =>
              s.action = Nil /\ s.condition \in Unhealthy
         /\ NotificationType(s) = "recovery" =>
              s.action = Nil /\ s.condition \in Healthy
<1>1. s.action \in Tests \cup {"acknowledgement", Nil}
  BY DEF State, Tests
<1> QED BY <1>1, TypeOf DEF Condition

\* A state's type tells, but for tests, what the last notification was.
LEMMA LastType ==
  ASSUME IInv, lastNotified # Nil
  PROVE  /\ lastNotified \in State /\ lastNotified \in latest
         /\ \/ /\ lastNotified.action = Nil /\ lastNotified.condition \in Condition
            \/ lastNotified.action = "acknowledgement"
         /\ lastNotified.at < now
BY DEF IInv, LatestInv, TypeOK

\* With the same condition again, and the delays over, nothing stops an event
\* that says what people were not told yet.
THEOREM DueIsLetThrough == Spec => []DueIsNotified
<1>1. IInv => DueIsNotified
  <2> SUFFICES ASSUME IInv, ~InMaintenance(scheduled \cup unscheduled, now),
                      NEW e \in Events, e.state = condition,
                      RecoveryDue(Delays(e)) \/ ProblemDue(Delays(e))
               PROVE  ~Blocked(current, NewState(e), Delays(e), scheduled)
    BY DEF DueIsNotified
  <2> DEFINE new == NewState(e)
             d == Delays(e)
  <2>1. condition \in Condition /\ e.state \in Condition
    BY EventType, NilIsApart DEF IInv, TypeOK, RecoveryDue, ProblemDue, Condition
  <2>2. /\ current # Nil /\ current.condition = condition /\ current.at \in Nat
        /\ turnedAt <= current.at
        /\ condition \in Healthy => current.at = turnedAt
        /\ now \in Nat
    BY <2>1, NilIsApart DEF IInv, HistoryInv, TypeOK, State
  <2>3. new \in State /\ new.action = Nil /\ new.condition = condition
          /\ Nil # "acknowledgement"
    BY <2>1, NewStateType, NilIsApart DEF IInv, ActionStates
  <2>4. d["failure"] \in Nat /\ d["recovery"] \in Nat /\ d["repeat"] \in Nat
    BY DelaysType DEF DelayKinds
  <2>5. Healthy \cap Unhealthy = {} /\ Condition = Healthy \cup Unhealthy
    BY DEF Healthy, Unhealthy, Condition
  <2>6. ~OkBlocks(current, new)
    <3>1. CASE RecoveryDue(d)
      <4>1. lastNotified # Nil /\ lastNotified.condition \in Unhealthy
        BY <3>1 DEF RecoveryDue
      <4>2. latest # {} /\ Newest(latest) = lastNotified
        BY <4>1, LastType, LastIsNewest DEF IInv
      <4> QED BY <2>2, <2>5, <4>1, <4>2 DEF OkBlocks
    <3>2. CASE ProblemDue(d)
      BY <2>3, <2>5, <3>2 DEF ProblemDue, OkBlocks, HealthyService
    <3> QED BY <3>1, <3>2
  <2>7. ~InMaintenance(scheduled, now) /\ ~InMaintenance(unscheduled, now)
    BY DEF InMaintenance
  <2>8. ~UnscheduledBlocks(new, UnscheduledAfterOk(new))
    BY <2>3, <2>5, <2>7
       DEF UnscheduledBlocks, UnscheduledAfterOk, HealthyService
  <2>9. ~AcknowledgementBlocks(current, new)
    BY <2>3 DEF AcknowledgementBlocks
  <2>10. ~JustFailed(current, new) /\ ~JustRecovered(current, new)
    BY <2>2, <2>3 DEF JustFailed, JustRecovered
  <2>11. ~DelaysBlock(current, new, d)
    <3>1. CASE RecoveryDue(d)
      BY <2>1, <2>2, <2>3, <2>4, <2>5, <2>10, <3>1 DEF DelaysBlock, RecoveryDue
    <3>2. CASE ProblemDue(d)
      <4>1. ~RepeatTooSoon(new, d)
        <5> DEFINE problems == {s \in latest : s.condition \in Unhealthy}
                   notified == {s \in latest : \/ s.condition \in Condition
                                               \/ s.action = "acknowledgement"}
        <5>1. CASE lastNotified = Nil
          <6>1. latest = {}
            BY <5>1 DEF IInv, LatestInv
          <6> QED BY <6>1 DEF RepeatTooSoon
        <5>2. CASE lastNotified # Nil /\ NotificationType(lastNotified) # "problem"
          <6>1. lastNotified \in notified
            BY <5>2, LastType
          <6>2. Newest(notified) = lastNotified
            BY <6>1, LastIsNewest DEF IInv
          <6>3. NotificationType(new) = "problem"
            BY <2>3, <3>2, TypeOf DEF ProblemDue
          <6> QED BY <5>2, <6>2, <6>3 DEF RepeatTooSoon
        <5>3. CASE /\ lastNotified # Nil /\ now - lastNotified.at > d["repeat"]
                   /\ NotificationType(lastNotified) = "problem"
          <6>1. lastNotified \in problems /\ lastNotified.at \in Nat
            BY <5>3, LastType, TypeSays DEF State
          <6>2. Newest(problems) = lastNotified
            BY <6>1, LastIsNewest DEF IInv
          <6> QED BY <2>2, <2>4, <5>3, <6>1, <6>2 DEF RepeatTooSoon
        <5> QED BY <3>2, <5>1, <5>2, <5>3 DEF ProblemDue
      <4>2. now - current.at >= d["failure"] /\ new.condition \notin Healthy
        BY <2>3, <2>5, <3>2 DEF ProblemDue
      <4> QED BY <2>2, <2>4, <2>10, <4>1, <4>2 DEF DelaysBlock
    <3> QED BY <3>1, <3>2
  <2> QED BY <2>6, <2>7, <2>8, <2>9, <2>11 DEF Blocked
<1> QED BY <1>1, Inductive, PTL

\* Whatever is announced is announced by an event that passed every filter.
LEMMA Emission ==
  ASSUME IInv, Next, emitted' # Nil
  PROVE  \E e \in Events :
           /\ now' = now + 1
           /\ RecordState(e, NewState(e))
           /\ ~(current = Nil /\ EventCondition(e) \in Healthy)
           /\ ~Blocked(current, NewState(e), Delays(e), ScheduledWithNcsm)
           /\ Pass(e, NewState(e))
<1>1. \E e \in Events : ProcessEvent(e)
  BY DEF Next, Tick, Restart, CreateCheck, DeleteCheck, Schedule, EndScheduled,
         DeleteScheduled, EndUnscheduled, Quiet
<1>2. PICK e \in Events : ProcessEvent(e)
  BY <1>1
<1>3. now' = now + 1 /\ Filtered(e)
  BY <1>2 DEF ProcessEvent, UnknownCheck, FirstHealthy
<1>4. /\ RecordState(e, NewState(e))
      /\ ~(current = Nil /\ EventCondition(e) \in Healthy)
      /\ IF Blocked(current, NewState(e), Delays(e), ScheduledWithNcsm)
         THEN Block(NewState(e))
         ELSE Pass(e, NewState(e)) \/ Fail(e, NewState(e))
  BY <1>3 DEF Filtered
<1>5. ~Block(NewState(e)) /\ ~Fail(e, NewState(e))
  BY DEF Block, Fail
<1> QED BY <1>3, <1>4, <1>5

\* What the notification of an event that passed carries.
LEMMA Emitted ==
  ASSUME TypeOK, NEW e \in Events, Pass(e, NewState(e))
  PROVE  emitted'.state = NewState(e) /\ emitted'.delays = Delays(e)
<1>1. emitted' = Notification(NewState(e), e)
  BY DEF Pass, GenerateNotification
<1> QED BY <1>1 DEF Notification

\* Nothing is announced in scheduled maintenance, that of a new check
\* included, and no problem in a maintenance that an acknowledgement began.
THEOREM MaintenanceSilences == Spec => MaintenanceIsSilent
<1>1. IInv /\ [Next]_vars =>
        [emitted' # Nil =>
           /\ ~InMaintenance(scheduled', now)
           /\ Emits("problem") => ~InMaintenance(unscheduled, now)]_vars
  <2> SUFFICES ASSUME IInv, Next, emitted' # Nil
               PROVE  /\ ~InMaintenance(scheduled', now)
                      /\ Emits("problem") => ~InMaintenance(unscheduled, now)
    OBVIOUS
  <2>1. PICK e \in Events :
           /\ RecordState(e, NewState(e))
           /\ ~Blocked(current, NewState(e), Delays(e), ScheduledWithNcsm)
           /\ Pass(e, NewState(e))
    BY Emission
  <2> DEFINE new == NewState(e)
  <2>2. new \in State /\ emitted'.state = new
    BY <2>1, NewStateType, Emitted DEF IInv
  <2>3. ~InMaintenance(scheduled', now)
    BY <2>1 DEF RecordState, Blocked
  <2>4. ASSUME Emits("problem")
        PROVE  ~InMaintenance(unscheduled, now)
    <3>1. new.action = Nil /\ new.condition \in Unhealthy
      BY <2>2, <2>4, TypeSays DEF Emits
    <3>2. new.action # "acknowledgement" /\ new.condition \notin Healthy
      BY <3>1, NilIsApart DEF ActionStates, Healthy, Unhealthy
    <3>3. ~UnscheduledBlocks(new, unscheduled)
      BY <2>1, <3>2 DEF Blocked, UnscheduledAfterOk, HealthyService
    <3> QED BY <3>2, <3>3 DEF UnscheduledBlocks
  <2> QED BY <2>3, <2>4
<1> QED BY <1>1, Inductive, PTL DEF Spec, MaintenanceIsSilent

\* A problem or a recovery that is announced has lasted for its delay.
LEMMA InitialDelays ==
  ASSUME IInv, Next
  PROVE  /\ Emits("problem") => now - turnedAt' >= emitted'.delays["failure"]
         /\ Emits("recovery") => now - turnedAt' >= emitted'.delays["recovery"]
<1> SUFFICES ASSUME Emits("problem") \/ Emits("recovery")
             PROVE  /\ Emits("problem") =>
                         now - turnedAt' >= emitted'.delays["failure"]
                    /\ Emits("recovery") =>
                         now - turnedAt' >= emitted'.delays["recovery"]
  OBVIOUS
<1>1. PICK e \in Events :
         /\ now' = now + 1
         /\ RecordState(e, NewState(e))
         /\ ~(current = Nil /\ EventCondition(e) \in Healthy)
         /\ ~Blocked(current, NewState(e), Delays(e), ScheduledWithNcsm)
         /\ Pass(e, NewState(e))
  BY Emission DEF Emits
<1> DEFINE new == NewState(e)
           d == Delays(e)
<1>2. new \in State /\ emitted'.state = new /\ emitted'.delays = d
  BY <1>1, NewStateType, Emitted DEF IInv
<1>3. new.action = Nil /\ new.condition \in Condition
  BY <1>2, TypeSays DEF Emits, Condition
<1>4. e.state \in Condition /\ new.condition = e.state /\ EventCondition(e) = e.state
        /\ e.state # Nil
  BY <1>3, EventType, NewStateType, NilIsApart DEF IInv
<1>5. /\ d["failure"] \in Nat /\ d["recovery"] \in Nat /\ now \in Nat
      /\ turnedAt' \in Nat /\ turnedAt' <= now
  BY <1>1, DelaysType, RecordKeepsHistory DEF DelayKinds, IInv, TypeOK
<1>6. ~DelaysBlock(current, new, d)
  BY <1>1 DEF Blocked
<1>7. Healthy \cap Unhealthy = {} /\ Condition = Healthy \cup Unhealthy
  BY DEF Healthy, Unhealthy, Condition
<1>8. ASSUME ~JustFailed(current, new), ~JustRecovered(current, new)
      PROVE  /\ current # Nil /\ current.at \in Nat
             /\ now - turnedAt' >= now - current.at
  <2>1. current # Nil
    BY <1>1, <1>4, <1>7, <1>8 DEF JustFailed
  <2>2. /\ condition = current.condition /\ condition # Nil
        /\ turnedAt <= current.at /\ turnedAt \in Nat /\ current.at \in Nat
        /\ condition \in Condition
    BY <2>1 DEF IInv, HistoryInv, TypeOK, State
  <2>3. (condition \in Unhealthy) = (new.condition \in Unhealthy)
    BY <1>3, <1>7, <1>8, <2>1, <2>2 DEF JustFailed, JustRecovered
  <2>4. turnedAt' = turnedAt
    BY <1>1, <1>4, <2>2, <2>3 DEF RecordState, Turned
  <2> QED BY <1>5, <2>1, <2>2, <2>4
<1>9. CASE Emits("problem")
  <2>1. new.condition \in Unhealthy /\ ~Emits("recovery")
    BY <1>2, <1>9, TypeSays DEF Emits
  <2>2. CASE JustFailed(current, new)
    BY <1>2, <1>3, <1>5, <1>6, <2>1, <2>2 DEF DelaysBlock
  <2>3. CASE ~JustFailed(current, new)
    <3>1. ~JustRecovered(current, new)
      BY <1>7, <2>1 DEF JustRecovered
    <3>2. ~(now - current.at < d["failure"])
      BY <1>3, <1>6, <1>7, <1>8, <2>1, <2>3, <3>1 DEF DelaysBlock
    <3> QED BY <1>2, <1>5, <1>8, <2>1, <2>3, <3>1, <3>2
  <2> QED BY <2>2, <2>3
<1>10. CASE Emits("recovery")
  <2>1. new.condition \in Healthy /\ ~Emits("problem")
    BY <1>2, <1>10, TypeSays DEF Emits
  <2>2. CASE JustRecovered(current, new)
    BY <1>2, <1>3, <1>5, <1>6, <2>1, <2>2 DEF DelaysBlock
  <2>3. CASE ~JustRecovered(current, new)
    <3>1. ~JustFailed(current, new)
      BY <2>1 DEF JustFailed
    <3>2. ~(now - current.at < d["recovery"])
      BY <1>3, <1>6, <1>8, <2>1, <2>3, <3>1 DEF DelaysBlock
    <3> QED BY <1>2, <1>5, <1>8, <2>1, <2>3, <3>1, <3>2
  <2> QED BY <2>2, <2>3
<1> QED BY <1>9, <1>10

\* With the initial delay switched on, a problem that follows a problem comes
\* later than the repeat delay.
LEMMA RepeatDelay ==
  ASSUME IInv, Next, Emits("problem"), emitted'.delays["failure"] > 0,
         lastNotified # Nil, NotificationType(lastNotified) = "problem"
  PROVE  now - lastNotified.at > emitted'.delays["repeat"]
<1>1. PICK e \in Events :
         /\ ~Blocked(current, NewState(e), Delays(e), ScheduledWithNcsm)
         /\ Pass(e, NewState(e))
  BY Emission DEF Emits
<1> DEFINE new == NewState(e)
           d == Delays(e)
           problems == {s \in latest : s.condition \in Unhealthy}
           notified == {s \in latest : \/ s.condition \in Condition
                                       \/ s.action = "acknowledgement"}
<1>2. new \in State /\ emitted'.state = new /\ emitted'.delays = d
  BY <1>1, NewStateType, Emitted DEF IInv
<1>3. new.action = Nil /\ new.condition \in Unhealthy
        /\ NotificationType(new) = "problem"
  BY <1>2, TypeSays DEF Emits
<1>4. d["repeat"] \in Nat /\ now \in Nat /\ d["failure"] > 0
  BY <1>2, DelaysType DEF DelayKinds, IInv, TypeOK
<1>5. new.condition \notin Healthy
  BY <1>3 DEF Healthy, Unhealthy
<1>6. ~RepeatTooSoon(new, d)
  BY <1>1, <1>3, <1>4, <1>5 DEF Blocked, DelaysBlock, JustRecovered
<1>7. /\ lastNotified \in problems /\ lastNotified \in notified
      /\ lastNotified.at \in Nat
  BY LastType, TypeSays DEF State, Condition
<1>8. Newest(problems) = lastNotified /\ Newest(notified) = lastNotified
  BY <1>7, LastIsNewest DEF IInv
<1> QED BY <1>2, <1>3, <1>4, <1>6, <1>7, <1>8 DEF RepeatTooSoon

\* Problems and recoveries are announced after their delays, for any delays
\* of events, checks and configuration.
THEOREM DelaysAreKept == Spec => DelaysKept
<1>1. IInv /\ [Next]_vars =>
        [/\ Emits("problem") => now - turnedAt' >= emitted'.delays["failure"]
         /\ Emits("recovery") => now - turnedAt' >= emitted'.delays["recovery"]
        ]_vars
  BY InitialDelays
<1>2. IInv /\ [Next]_vars =>
        [Emits("problem") /\ emitted'.delays["failure"] > 0
           => \/ lastNotified = Nil
              \/ NotificationType(lastNotified) # "problem"
              \/ now - lastNotified.at > emitted'.delays["repeat"]]_vars
  BY RepeatDelay
<1> QED BY <1>1, <1>2, Inductive, PTL
        DEF Spec, DelaysKept, InitialDelaysKept, RepeatDelayKept

\* Each step makes the announcement it is said to make, or none.
LEMMA AnnouncesStep ==
  ASSUME IInv, [Next]_vars
  PROVE  [Announced!Next]_(Announced!vars)
<1> DEFINE last == IF lastNotified = Nil THEN Nil
                   ELSE NotificationType(lastNotified)
           time == IF lastNotified = Nil THEN Nil ELSE lastNotified.at
<1>1. CASE UNCHANGED <<lastNotified, mostSevere>>
  BY <1>1 DEF Announced!vars
<1>2. CASE DeleteCheck
  <2>1. last' = Nil /\ mostSevere' = Nil /\ time' = Nil
    BY <1>2 DEF DeleteCheck
  <2>2. Announced!Forget
    BY <2>1 DEF Announced!Forget, Announced!Nothing
  <2> QED BY <2>2 DEF Announced!Next
<1>3. ASSUME NEW e \in Events, now' = now + 1, Pass(e, NewState(e)),
             ~Blocked(current, NewState(e), Delays(e), ScheduledWithNcsm),
             NewState(e).action \notin Tests
      PROVE  Announced!Next
  <2> DEFINE new == NewState(e)
  <2>1. /\ new \in State /\ new.at = now /\ new # Nil
        /\ e.state \in Condition => new.condition = e.state /\ new.action = Nil
        /\ e.state \in ActionStates => new.action = e.state
    BY NewStateType, NilIsApart DEF IInv
  <2>2. /\ lastNotified' = new
        /\ IF new.action = "acknowledgement" THEN mostSevere' = Nil
           ELSE mostSevere' = MostSevereWith(new)
    BY <1>3 DEF Pass, GenerateNotification
  <2>3. /\ last' = NotificationType(new) /\ time' = now
        /\ time' # time
    <3>1. lastNotified # Nil => lastNotified.at < now /\ lastNotified.at \in Nat
      BY LastType DEF State
    <3>2. now \in Nat /\ now # Nil
      BY ProcessorAssumption DEF IInv, TypeOK
    <3> QED BY <2>1, <2>2, <3>1, <3>2
  <2>4. CASE new.action = "acknowledgement"
    <3>1. NotificationType(new) = "acknowledgement" /\ mostSevere' = Nil
      BY <2>1, <2>2, <2>4, TypeOf
    <3> QED BY <2>3, <3>1
            DEF Announced!Next, Announced!Acknowledgement,
                Announced!AfterAcknowledgement
  <2>5. CASE new.action # "acknowledgement"
    <3>1. new.action = Nil /\ new.condition \in Condition
      BY <1>3, <2>1, <2>5, EventType DEF Tests, ActionStates
    <3>2. mostSevere' = MostSevereWith(new)
      BY <2>2, <2>5
    <3>3. CASE new.condition \in Unhealthy
      <4>1. NotificationType(new) = "problem"
        BY <2>1, <3>1, <3>3, TypeOf
      <4>2. mostSevere' = IF mostSevere = Nil \/ Worse(new.condition, mostSevere)
                          THEN new.condition ELSE mostSevere
        BY <3>1, <3>2, <3>3 DEF MostSevereWith
      <4>3. Announced!Problem(new.condition)
        BY <2>3, <4>1, <4>2
           DEF Announced!Problem, Announced!AfterProblem, Announced!WorstWith,
               Announced!Worse, Announced!Priority, Worse, Priority,
               Announced!Condition, Announced!Healthy, Announced!Unhealthy,
               Condition, Healthy, Unhealthy
      <4> QED BY <2>3, <3>3, <4>3
              DEF Announced!Next, Announced!Unhealthy, Unhealthy
    <3>4. CASE new.condition \in Healthy
      <4>1. NotificationType(new) = "recovery" /\ mostSevere' = mostSevere
        BY <2>1, <3>1, <3>2, <3>4, TypeOf DEF MostSevereWith, Healthy, Unhealthy
      <4>2. latest # {} /\ Newest(latest).condition \notin Healthy
        BY <1>3, <3>1, <3>4 DEF Blocked, OkBlocks, HealthyService
      <4>3. lastNotified # Nil /\ lastNotified \in latest
        BY <4>2 DEF IInv, LatestInv
      <4>4. lastNotified.condition \notin Healthy
        BY <4>2, <4>3, LastIsNewest DEF IInv
      <4>5. last \in {"problem", "acknowledgement"}
        BY <4>3, <4>4, LastType, TypeOf DEF Condition
      <4>6. Announced!Recovery
        BY <2>3, <4>1, <4>5
           DEF Announced!Recovery, Announced!RecoveryDue, Announced!AfterRecovery
      <4> QED BY <2>3, <4>6 DEF Announced!Next
    <3> QED BY <3>1, <3>3, <3>4 DEF Condition
  <2> QED BY <2>4, <2>5
<1>4. ASSUME NEW e \in Events, ProcessEvent(e)
      PROVE  [Announced!Next]_(Announced!vars)
  <2> DEFINE new == NewState(e)
             blocked == Blocked(current, new, Delays(e), ScheduledWithNcsm)
  <2>1. CASE UNCHANGED <<lastNotified, mostSevere>>
    BY <1>1, <2>1
  <2>2. CASE ~blocked /\ Pass(e, new) /\ new.action \notin Tests
    <3>1. now' = now + 1
      BY <1>4 DEF ProcessEvent
    <3> QED BY <1>3, <2>2, <3>1
  <2>3. CASE ~blocked /\ Pass(e, new) /\ new.action \in Tests
    <3>1. UNCHANGED <<lastNotified, mostSevere>>
      BY <2>3 DEF Pass, GenerateNotification
    <3> QED BY <1>1, <3>1
  <2>4. CASE UnknownCheck(e)
    <3>1. UNCHANGED <<lastNotified, mostSevere>>
      BY <2>4 DEF UnknownCheck, checkVars, historyVars
    <3> QED BY <1>1, <3>1
  <2>5. CASE FirstHealthy(e)
    <3>1. UNCHANGED <<lastNotified, mostSevere>>
      BY <2>5 DEF FirstHealthy
    <3> QED BY <1>1, <3>1
  <2>6. CASE Filtered(e)
    <3>1. \/ blocked /\ Block(new)
          \/ ~blocked /\ (Pass(e, new) \/ Fail(e, new))
      BY <2>6 DEF Filtered
    <3>2. Block(new) \/ Fail(e, new) => UNCHANGED <<lastNotified, mostSevere>>
      BY DEF Block, Fail
    <3> QED BY <2>1, <2>2, <2>3, <3>1, <3>2
  <2> QED BY <1>4, <2>4, <2>5, <2>6 DEF ProcessEvent
<1>5. ASSUME [Next]_vars, ~DeleteCheck, \A e \in Events : ~ProcessEvent(e)
      PROVE  UNCHANGED <<lastNotified, mostSevere>>
  BY <1>5 DEF Next, Tick, Restart, CreateCheck, Schedule, EndScheduled,
              DeleteScheduled, EndUnscheduled, Quiet, vars, checkVars, historyVars
<1> QED BY <1>1, <1>2, <1>4, <1>5

\* Before any event, nothing has been announced.
LEMMA AnnouncesInit == Init => Announced!Init
BY DEF Init, Announced!Init, Announced!Nothing

\* Whatever the delays, durations and maintenance periods, a check's
\* notifications come in the order and with the severities that the notifier
\* relies on (the Ok filter, latest_notifications, most_severe).
THEOREM AnnouncesAsPromised == Spec => AnnouncesInOrder
BY AnnouncesInit, AnnouncesStep, Inductive, PTL
   DEF Spec, AnnouncesInOrder, Announced!Spec

=============================================================================
