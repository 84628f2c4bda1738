--------------------------- MODULE NotifierProofs ---------------------------
(***************************************************************************)
(* For any rules, media, intervals and thresholds, and any number of        *)
(* checks: the notifier's mark on a check (alertable) follows what the      *)
(* processor announced of it, and what a medium was told follows the marks. *)
(***************************************************************************)
EXTENDS Notifier, TLAPS, FiniteSetTheorems

LEMMA MediaForType ==
  ASSUME NEW n
  PROVE  MediaFor(n) \subseteq Media
BY NotifierAssumption
   DEF MediaFor, AlertingMedia, MatchingMedia, MatchingRules, OccurringAt, Rule

LEMMA ConditionType ==
  /\ MostUnhealthy \in Condition
  /\ Unhealthy \subseteq Condition
  /\ "ok" \in Condition
  /\ Problems \subseteq Unhealthy
<1>1. \E x \in Unhealthy : \A d \in Unhealthy \ {x} : Worse(x, d)
  <2>1. "critical" \in Unhealthy
    BY DEF Unhealthy
  <2>2. \A d \in Unhealthy \ {"critical"} : Worse("critical", d)
    BY DEF Unhealthy, Worse, Priority, Condition, Healthy
  <2> QED BY <2>1, <2>2
<1>2. MostUnhealthy \in Unhealthy
  BY <1>1 DEF MostUnhealthy
<1> QED BY <1>2, NotifierAssumption DEF Condition, Healthy

(* A notification is well formed, and nothing else of the queue changes.       *)
LEMMA QueueType ==
  ASSUME TypeOK, NEW c \in Checks, NEW type \in Types,
         NEW condition \in Condition, NEW severity \in Condition,
         Queue(c, type, condition, severity)
  PROVE  now' \in Nat /\ queue' \in Seq(Notification)
BY DEF TypeOK, Queue, Notification

(* Every step leaves every variable in its type.                               *)
LEMMA TypeStep ==
  ASSUME TypeOK, [Next]_vars
  PROVE  TypeOK'
<1> USE ConditionType
<1>1. ASSUME NEW c \in Checks, NEW condition \in Problems,
             AnnounceProblem(c, condition)
      PROVE  TypeOK'
  <2>1. Of(c)!AfterProblem(condition)
          \in [last : (Types \ {"test"}) \cup {Nil},
               worst : Unhealthy]
    BY DEF Of!AfterProblem, Of!WorstWith, TypeOK, Types
  <2>2. /\ announced' = [announced EXCEPT ![c] = Of(c)!AfterProblem(condition)]
        /\ Queue(c, "problem", condition, announced'[c].worst)
    BY <1>1 DEF AnnounceProblem
  <2>3. announced'[c].worst \in Condition
    BY <2>1, <2>2 DEF TypeOK
  <2>4. now' \in Nat /\ queue' \in Seq(Notification)
    BY <2>2, <2>3, QueueType DEF Types
  <2> QED BY <1>1, <2>1, <2>2, <2>4 DEF TypeOK, AnnounceProblem, Queue
<1>2. ASSUME NEW c \in Checks, AnnounceRecovery(c)
      PROVE  TypeOK'
  <2>1. Of(c)!SeverityOfEnd \in Condition
    BY DEF Of!SeverityOfEnd, TypeOK
  <2>2. Of(c)!AfterRecovery
          \in [last : (Types \ {"test"}) \cup {Nil},
               worst : Unhealthy \cup {Nil}]
    BY DEF Of!AfterRecovery, TypeOK, Types
  <2>3. now' \in Nat /\ queue' \in Seq(Notification)
    BY <1>2, <2>1, QueueType DEF AnnounceRecovery, Types
  <2> QED BY <1>2, <2>2, <2>3 DEF TypeOK, AnnounceRecovery, Queue, peopleVars
<1>3. ASSUME NEW c \in Checks, NEW condition \in Problems,
             AnnounceAcknowledgement(c, condition)
      PROVE  TypeOK'
  <2>1. Of(c)!SeverityOfEnd \in Condition
    BY DEF Of!SeverityOfEnd, TypeOK
  <2>2. Of(c)!AfterAcknowledgement
          \in [last : (Types \ {"test"}) \cup {Nil},
               worst : Unhealthy \cup {Nil}]
    BY DEF Of!AfterAcknowledgement, TypeOK, Types
  <2>3. now' \in Nat /\ queue' \in Seq(Notification)
    BY <1>3, <2>1, QueueType DEF AnnounceAcknowledgement, Types
  <2> QED BY <1>3, <2>2, <2>3
          DEF TypeOK, AnnounceAcknowledgement, Queue, peopleVars
<1>4. ASSUME NEW c \in Checks, AnnounceTest(c)
      PROVE  TypeOK'
  <2>1. now' \in Nat /\ queue' \in Seq(Notification)
    BY <1>4, QueueType DEF AnnounceTest, Types
  <2> QED BY <1>4, <2>1
          DEF TypeOK, AnnounceTest, Queue, processorVars, peopleVars
<1>5. ASSUME NEW c \in Checks,
             \/ StartScheduled(c) \/ EndScheduled(c)
             \/ StartUnscheduled(c) \/ EndUnscheduled(c)
      PROVE  TypeOK'
  BY <1>5 DEF TypeOK, Started, StartScheduled, EndScheduled, StartUnscheduled,
              EndUnscheduled, Moved, Aside
<1>6. CASE Tick
  BY <1>6 DEF TypeOK, Tick, Aside, peopleVars
<1>7. CASE Take
  <2>1. Head(queue) \in Notification /\ Tail(queue) \in Seq(Notification)
    BY <1>7 DEF TypeOK, Take
  <2> QED BY <1>7, <2>1
          DEF TypeOK, Take, processorVars, historyVars, peopleVars
<1>8. CASE AlertsFor
  <2> DEFINE n      == hand.notification
             marked == AlertableAfter(n, hand.seen)
             rollup == [m \in Media |-> IF IsTest(n) THEN Nil ELSE Rollup(m, marked)]
             sent   == {m \in MediaFor(n) : IsTest(n) \/ Sends(m, n, rollup[m])}
  <2>1. /\ n \in Notification
        /\ hand' \in [notification : Notification, seen : SUBSET Checks]
        /\ phase' = "decided"
    BY <1>8 DEF TypeOK, AlertsFor
  <2>2. marked \subseteq Checks
    BY <2>1 DEF AlertableAfter, TypeOK, Notification
  <2>3. rollup \in [Media -> Rollups]
    BY DEF Rollup, Rollups
  <2>4. sent \subseteq Media
    BY MediaForType
  <2>5. \A m \in sent : Alert(m, n, rollup[m]) \in Alerts
    BY <2>1, <2>3, <2>4 DEF Alert, Alerts, Notification
  <2>6. [ok |-> IsEnd(n), condition |-> n.condition, at |-> n.at]
          \in [ok : BOOLEAN, condition : Condition, at : Nat]
    BY <2>1 DEF IsEnd, Notification
  <2>7. /\ alertable' = marked
        /\ outbox' = {Alert(m, n, rollup[m]) : m \in sent}
        /\ \/ UNCHANGED <<lastState, lastRollup, lost, outdated>>
           \/ /\ lastState' =
                   [m \in Media |->
                      IF m \in sent
                      THEN [ok |-> IsEnd(n), condition |-> n.condition,
                            at |-> n.at]
                      ELSE lastState[m]]
              /\ lastRollup' =
                   [m \in Media |-> IF m \in sent THEN rollup[m]
                                    ELSE lastRollup[m]]
              /\ lost' = lost \ {n.check}
              /\ outdated' = outdated \ MediaFor(n)
        /\ UNCHANGED <<now, processorVars, queue, cut, moved, lastWord>>
    BY <1>8 DEF AlertsFor
  <2> HIDE DEF n, marked, rollup, sent
  <2>8. outbox' \subseteq Alerts
    BY <2>5, <2>7
  <2>9. /\ lastState' \in [Media -> [ok : BOOLEAN, condition : Condition,
                                     at : Nat] \cup {Nil}]
        /\ lastRollup' \in [Media -> Rollups]
        /\ lost' \subseteq Checks /\ outdated' \subseteq Media
    BY <2>3, <2>6, <2>7 DEF TypeOK, LastState
  <2> QED BY <2>1, <2>2, <2>7, <2>8, <2>9 DEF TypeOK, LastState, processorVars
<1>9. ASSUME NEW a \in outbox, PushAlert(a)
      PROVE  TypeOK'
  <2>1. a \in Alerts /\ a.medium \in Media /\ a.check \in Checks
    BY DEF TypeOK, Alerts
  <2>2. /\ cut' \subseteq Media
        /\ lastWord' \in [Media -> Alerts \cup {Nil}]
    <3>1. CASE a.type = "test"
      BY <1>9, <3>1 DEF TypeOK, PushAlert
    <3>2. CASE a.type # "test"
      <4>1. /\ cut' = cut \ {a.medium}
            /\ lastWord' = [lastWord EXCEPT ![a.medium] = a]
        BY <1>9, <3>2 DEF PushAlert
      <4> QED BY <2>1, <4>1 DEF TypeOK
    <3> QED BY <3>1, <3>2
  <2>3. outbox' \subseteq Alerts
    BY <1>9 DEF TypeOK, PushAlert
  <2>4. UNCHANGED <<now, processorVars, queue, phase, hand, alertable,
                    lastState, lastRollup, lost, peopleVars>>
    BY <1>9 DEF PushAlert
  <2> QED BY <2>2, <2>3, <2>4 DEF TypeOK, processorVars, peopleVars
<1>10. CASE Destroy
  BY <1>10 DEF TypeOK, Destroy, processorVars, historyVars, peopleVars
<1>11. CASE Crash
  <2>1. hand.notification.check \in Checks
    BY <1>11 DEF TypeOK, Crash, Notification
  <2>2. {a.medium : a \in {b \in outbox : b.type # "test"}} \subseteq Media
    BY DEF TypeOK, Alerts
  <2> QED BY <1>11, <2>1, <2>2 DEF TypeOK, Crash, processorVars, peopleVars
<1>12. CASE UNCHANGED vars
  BY <1>12 DEF TypeOK, vars, processorVars, notifierVars, historyVars,
               peopleVars
<1> QED BY <1>1, <1>2, <1>3, <1>4, <1>5, <1>6, <1>7, <1>8, <1>9, <1>10,
           <1>11, <1>12 DEF Next

LEMMA TypeInit == Init => TypeOK
BY DEF Init, TypeOK, Rollups

THEOREM TypeCorrect == Spec => []TypeOK
BY TypeInit, TypeStep, PTL DEF Spec

-----------------------------------------------------------------------------
(* Why the marks are right.  A notification of the check is pending while it   *)
(* is queued, or in hand and not decided on.  The last one pending is what was *)
(* announced last (QueueInv, HandInv); with none pending, the mark says what   *)
(* was announced (MarkInv).  The check in hand was loaded before the locks     *)
(* were taken: a mark gone since then was taken by people, or by an            *)
(* acknowledgement that is pending (SeenInv).                                  *)

Pends(n, c) == n.check = c /\ n.type # "test"

InQueue(c) == \E i \in 1 .. Len(queue) : Pends(queue[i], c)

LastInQueue(i, c) ==
  /\ Pends(queue[i], c)
  /\ \A j \in 1 .. Len(queue) : j > i => ~Pends(queue[j], c)

Deciding == phase = "loaded"

InHand(c) == Deciding /\ Pends(hand.notification, c)

QueueInv ==
  \A c \in Checks : \A i \in 1 .. Len(queue) :
    LastInQueue(i, c) => queue[i].type = announced[c].last

HandInv ==
  \A c \in Checks :
    InHand(c) /\ ~InQueue(c) => hand.notification.type = announced[c].last

SeenInv ==
  Deciding =>
    /\ alertable \subseteq hand.seen
    /\ \A c \in hand.seen \ alertable : c \in moved \/ InQueue(c)

Marked(c) ==
  /\ c \in alertable => announced[c].last = "problem"
  /\ announced[c].last = "problem" /\ c \notin moved => c \in alertable

MarkInv ==
  \A c \in Checks \ lost : ~InQueue(c) /\ ~InHand(c) => Marked(c)

IInv == TypeOK /\ QueueInv /\ HandInv /\ SeenInv /\ MarkInv

(* Appending a notification of a check to the queue.                           *)
LEMMA Appended ==
  ASSUME NEW q \in Seq(Notification), NEW n \in Notification
  PROVE  /\ Len(Append(q, n)) = Len(q) + 1
         /\ Append(q, n)[Len(q) + 1] = n
         /\ \A i \in 1 .. Len(q) : Append(q, n)[i] = q[i]
OBVIOUS

(* Announcing something about c other than a test: c is pending then, and the  *)
(* other checks are as they were.                                              *)
LEMMA AnnouncePreserves ==
  ASSUME IInv, NEW c \in Checks, NEW n \in Notification, n.check = c,
         n.type # "test", queue' = Append(queue, n), hand' = hand, phase' = phase,
         n.type = announced'[c].last, TypeOK',
         \A d \in Checks \ {c} : announced'[d] = announced[d],
         lost' = lost,
         alertable' \subseteq alertable, alertable \subseteq alertable' \cup {c},
         moved \subseteq moved' \cup {c}, moved' \subseteq moved
  PROVE  IInv'
<1> DEFINE N == Len(queue)
<1>1. /\ Len(queue') = N + 1 /\ N \in Nat
      /\ queue'[N + 1] = n
      /\ \A i \in 1 .. N : queue'[i] = queue[i]
  BY Appended DEF IInv, TypeOK
<1>2. InQueue(c)'
  <2>1. N + 1 \in 1 .. Len(queue') /\ Pends(queue'[N + 1], c)
    BY <1>1 DEF Pends
  <2> HIDE DEF N
  <2> QED BY <2>1 DEF InQueue, Pends
<1>3. \A d \in Checks \ {c} : InQueue(d)' <=> InQueue(d)
  <2> SUFFICES ASSUME NEW d \in Checks \ {c} PROVE InQueue(d)' <=> InQueue(d)
    OBVIOUS
  <2>1. ~Pends(queue'[N + 1], d)
    BY <1>1 DEF Pends
  <2> HIDE DEF N
  <2> QED BY <1>1, <2>1 DEF InQueue, Pends, N
<1>4. \A d \in Checks : InHand(d)' <=> InHand(d)
  BY DEF InHand, Deciding, Pends
<1>5. QueueInv'
  <2> SUFFICES ASSUME NEW d \in Checks, NEW i \in 1 .. Len(queue'),
                      LastInQueue(i, d)'
               PROVE  queue'[i].type = announced'[d].last
    BY DEF QueueInv
  <2>1. CASE i = N + 1
    BY <1>1, <2>1 DEF LastInQueue, Pends
  <2>2. CASE i # N + 1
    <3>1. i \in 1 .. N /\ N + 1 > i /\ N + 1 \in 1 .. Len(queue')
      BY <1>1, <2>2
    <3>2. d # c
      <4>1. ~Pends(queue'[N + 1], d)
        BY <3>1 DEF LastInQueue, Pends
      <4> QED BY <4>1, <1>1 DEF Pends
    <3>3. LastInQueue(i, d)
      BY <1>1, <3>1 DEF LastInQueue, Pends
    <3> QED BY <1>1, <3>1, <3>2, <3>3 DEF IInv, QueueInv
  <2> QED BY <2>1, <2>2
<1>6. HandInv'
  BY <1>2, <1>3, <1>4 DEF IInv, HandInv
<1>7. SeenInv'
  <2> SUFFICES ASSUME Deciding
               PROVE  /\ alertable' \subseteq hand.seen
                      /\ \A d \in hand.seen \ alertable' :
                           d \in moved' \/ InQueue(d)'
    BY DEF SeenInv, Deciding
  <2>1. hand.seen \subseteq Checks
    BY DEF Deciding, IInv, TypeOK
  <2> QED BY <1>2, <1>3, <2>1 DEF IInv, SeenInv
<1>8. MarkInv'
  BY <1>2, <1>3, <1>4 DEF IInv, MarkInv, Marked
<1> QED BY <1>5, <1>6, <1>7, <1>8 DEF IInv

(* A test notification is pending for nobody.                                  *)
LEMMA TestPreserves ==
  ASSUME IInv, TypeOK', NEW n \in Notification, n.type = "test",
         queue' = Append(queue, n), hand' = hand, phase' = phase, announced' = announced,
         lost' = lost, moved' = moved, alertable' = alertable
  PROVE  IInv'
<1> DEFINE N == Len(queue)
<1>1. /\ Len(queue') = N + 1 /\ N \in Nat
      /\ queue'[N + 1] = n
      /\ \A i \in 1 .. N : queue'[i] = queue[i]
  BY Appended DEF IInv, TypeOK
<1>2. \A d \in Checks : InQueue(d)' <=> InQueue(d)
  <2> SUFFICES ASSUME NEW d \in Checks PROVE InQueue(d)' <=> InQueue(d)
    OBVIOUS
  <2>1. ~Pends(queue'[N + 1], d)
    BY <1>1 DEF Pends
  <2> HIDE DEF N
  <2> QED BY <1>1, <2>1 DEF InQueue, Pends, N
<1>3. \A d \in Checks : InHand(d)' <=> InHand(d)
  BY DEF InHand, Deciding, Pends
<1>4. QueueInv'
  <2> SUFFICES ASSUME NEW d \in Checks, NEW i \in 1 .. Len(queue'),
                      LastInQueue(i, d)'
               PROVE  queue'[i].type = announced'[d].last
    BY DEF QueueInv
  <2>1. i # N + 1
    BY <1>1 DEF LastInQueue, Pends
  <2>2. i \in 1 .. N
    BY <1>1, <2>1
  <2>3. LastInQueue(i, d)
    BY <1>1, <2>2 DEF LastInQueue, Pends
  <2> QED BY <1>1, <2>2, <2>3 DEF IInv, QueueInv
<1>5. HandInv' /\ SeenInv' /\ MarkInv'
  <2>1. Deciding => hand.seen \subseteq Checks
    BY DEF Deciding, IInv, TypeOK
  <2> QED BY <1>2, <1>3, <2>1
          DEF IInv, HandInv, SeenInv, MarkInv, Marked, Deciding
<1> QED BY <1>4, <1>5 DEF IInv

(* Steps that touch neither the queue, nor what is in hand while it is         *)
(* undecided, nor what was announced, and take marks only of moved checks.     *)
LEMMA AsidePreserves ==
  ASSUME IInv, TypeOK', queue' = queue, announced' = announced,
         \/ hand' = hand /\ phase' = phase
         \/ phase # "loaded" /\ phase' # "loaded",
         lost \subseteq lost', moved \subseteq moved', alertable' \subseteq alertable,
         alertable \subseteq alertable' \cup moved'
  PROVE  IInv'
<1>1. Deciding' => Deciding /\ hand' = hand
  BY DEF Deciding
<1>2. \A c : InQueue(c)' <=> InQueue(c)
  BY DEF InQueue, Pends
<1>3. \A c : InHand(c)' <=> InHand(c)
  BY DEF InHand, Deciding, Pends
<1>4. QueueInv'
  BY DEF IInv, QueueInv, LastInQueue, Pends
<1>5. HandInv'
  BY <1>1, <1>2, <1>3 DEF IInv, HandInv, InHand
<1>6. SeenInv'
  BY <1>1, <1>2 DEF IInv, SeenInv
<1>7. MarkInv'
  BY <1>2, <1>3 DEF IInv, MarkInv, Marked
<1> QED BY <1>4, <1>5, <1>6, <1>7 DEF IInv

(* The notifier takes the next notification: pending moves from the queue to   *)
(* the hand.                                                                   *)
LEMMA TakeMoves ==
  ASSUME TypeOK, Take
  PROVE  /\ \A c \in Checks : InHand(c)' <=> Pends(queue[1], c)
         /\ \A c \in Checks : InQueue(c) <=> InHand(c)' \/ InQueue(c)'
<1> DEFINE N == Len(queue)
<1>1. /\ N \in Nat /\ N > 0 /\ Len(queue') = N - 1
      /\ \A i \in 1 .. N - 1 : queue'[i] = queue[i + 1]
      /\ hand'.notification = queue[1]
      /\ hand'.seen = alertable
      /\ ~Deciding /\ Deciding'
  <2>1. queue \in Seq(Notification) /\ queue # <<>> /\ queue' = Tail(queue)
    BY DEF Take, TypeOK
  <2> QED BY <2>1 DEF Take, Deciding
<1>2. \A c \in Checks : InHand(c)' <=> Pends(queue[1], c)
  BY <1>1 DEF InHand, Deciding, Pends
<1>3. \A c \in Checks : InQueue(c) <=> InHand(c)' \/ InQueue(c)'
  <2> SUFFICES ASSUME NEW c \in Checks
               PROVE  InQueue(c) <=> Pends(queue[1], c) \/ InQueue(c)'
    BY <1>2
  <2>1. ASSUME NEW i \in 1 .. N, Pends(queue[i], c)
        PROVE  Pends(queue[1], c) \/ InQueue(c)'
    <3>1. CASE i = 1
      BY <2>1, <3>1
    <3>2. CASE i # 1
      <4>1. i - 1 \in 1 .. N - 1 /\ queue'[i - 1] = queue[i]
        BY <1>1, <3>2
      <4> QED BY <1>1, <2>1, <4>1 DEF InQueue, Pends
    <3> QED BY <3>1, <3>2
  <2>2. ASSUME NEW i \in 1 .. N - 1, Pends(queue'[i], c)
        PROVE  InQueue(c)
    <3>1. i + 1 \in 1 .. N /\ queue'[i] = queue[i + 1]
      BY <1>1
    <3> QED BY <2>2, <3>1 DEF InQueue, Pends
  <2>3. 1 \in 1 .. N
    BY <1>1
  <2> QED BY <1>1, <2>1, <2>2, <2>3 DEF InQueue, Pends
<1> QED BY <1>2, <1>3

LEMMA TakePreserves ==
  ASSUME IInv, TypeOK', Take
  PROVE  IInv'
<1> DEFINE N == Len(queue)
<1>1. /\ N \in Nat /\ N > 0 /\ Len(queue') = N - 1
      /\ \A i \in 1 .. N - 1 : queue'[i] = queue[i + 1]
      /\ hand'.notification = queue[1]
      /\ hand'.seen = alertable
      /\ ~Deciding /\ Deciding'
  <2>1. queue \in Seq(Notification) /\ queue # <<>> /\ queue' = Tail(queue)
    BY DEF Take, IInv, TypeOK
  <2> QED BY <2>1 DEF Take, Deciding
<1>2. /\ announced' = announced /\ alertable' = alertable
      /\ lost' = lost /\ moved' = moved
  BY DEF Take, processorVars, historyVars, peopleVars
<1>3. \A c \in Checks : InHand(c)' <=> Pends(queue[1], c)
  BY TakeMoves DEF IInv
<1>4. \A c \in Checks : InQueue(c) <=> InHand(c)' \/ InQueue(c)'
  BY TakeMoves DEF IInv
<1>5. QueueInv'
  <2> SUFFICES ASSUME NEW c \in Checks, NEW i \in 1 .. Len(queue'),
                      LastInQueue(i, c)'
               PROVE  queue'[i].type = announced'[c].last
    BY DEF QueueInv
  <2>1. i + 1 \in 1 .. N /\ queue'[i] = queue[i + 1]
    BY <1>1
  <2>2. ASSUME NEW j \in 1 .. N, j > i + 1
        PROVE  ~Pends(queue[j], c)
    <3>1. j - 1 \in 1 .. N - 1 /\ j - 1 > i /\ queue'[j - 1] = queue[j]
      BY <1>1, <2>2, <2>1
    <3> QED BY <1>1, <3>1 DEF LastInQueue, Pends
  <2>3. LastInQueue(i + 1, c)
    BY <2>1, <2>2 DEF LastInQueue, Pends
  <2> QED BY <1>2, <2>1, <2>3 DEF IInv, QueueInv
<1>6. HandInv'
  <2> SUFFICES ASSUME NEW c \in Checks, Pends(queue[1], c), ~InQueue(c)'
               PROVE  queue[1].type = announced[c].last
    BY <1>1, <1>2, <1>3 DEF HandInv
  <2>1. ASSUME NEW j \in 1 .. N, j > 1
        PROVE  ~Pends(queue[j], c)
    <3>1. j - 1 \in 1 .. N - 1 /\ queue'[j - 1] = queue[j]
      BY <1>1, <2>1
    <3> QED BY <1>1, <3>1 DEF InQueue, Pends
  <2>2. 1 \in 1 .. N
    BY <1>1
  <2> QED BY <2>1, <2>2 DEF IInv, QueueInv, LastInQueue
<1>7. SeenInv'
  BY <1>1, <1>2 DEF SeenInv
<1>8. MarkInv'
  <2>1. \A c \in Checks : ~InHand(c)
    BY <1>1 DEF InHand, Deciding
  <2> QED BY <1>2, <1>4, <2>1 DEF IInv, MarkInv, Marked
<1> QED BY <1>5, <1>6, <1>7, <1>8 DEF IInv

(* The decision: what was pending in hand is pending no longer, and the mark   *)
(* of its check is set to what it says.                                        *)
LEMMA AlertsForPreserves ==
  ASSUME IInv, TypeOK', AlertsFor
  PROVE  IInv'
<1> DEFINE n == hand.notification
<1>1. /\ Deciding /\ ~Deciding'
      /\ n \in Notification
      /\ queue' = queue /\ announced' = announced /\ moved' = moved
      /\ alertable' = AlertableAfter(n, hand.seen)
      /\ lost' = IF IsTest(n) THEN lost ELSE lost \ {n.check}
  BY DEF AlertsFor, IInv, TypeOK, Deciding, processorVars
<1> HIDE DEF n
<1>2. \A c : InQueue(c)' <=> InQueue(c)
  BY <1>1 DEF InQueue, Pends
<1>3. \A c : ~InHand(c)'
  BY <1>1 DEF InHand
<1>4. QueueInv'
  BY <1>1 DEF IInv, QueueInv, LastInQueue, Pends
<1>5. HandInv' /\ SeenInv'
  BY <1>1, <1>3 DEF HandInv, SeenInv
<1>6. MarkInv'
  <2> SUFFICES ASSUME NEW c \in Checks \ lost', ~InQueue(c)
               PROVE  Marked(c)'
    BY <1>2 DEF MarkInv
  <2>1. CASE InHand(c)
    <3>1. n.check = c /\ ~IsTest(n) /\ n.type = announced[c].last
      BY <2>1 DEF IInv, HandInv, InHand, Pends, IsTest, n
    <3>2. /\ alertable \subseteq hand.seen
          /\ c \in hand.seen \ alertable => c \in moved
      BY <1>1 DEF IInv, SeenInv
    <3>3. CASE IsEnd(n)
      <4>1. c \notin alertable' /\ announced[c].last # "problem"
        BY <1>1, <3>1, <3>2, <3>3 DEF AlertableAfter, IsEnd
      <4> QED BY <1>1, <4>1 DEF Marked
    <3>4. CASE ~IsEnd(n)
      <4>1. announced[c].last = "problem"
        BY <1>1, <3>1, <3>4 DEF IsEnd, IsTest, Notification, Types
      <4>2. c \in alertable' \/ c \in moved
        BY <1>1, <3>1, <3>2, <3>4 DEF AlertableAfter
      <4> QED BY <1>1, <4>1, <4>2 DEF Marked
    <3> QED BY <3>3, <3>4
  <2>2. CASE ~InHand(c)
    <3>1. IsTest(n) \/ n.check # c
      BY <1>1, <2>2 DEF InHand, Pends, IsTest, n
    <3>2. c \in alertable' <=> c \in alertable
      BY <1>1, <3>1 DEF AlertableAfter
    <3>3. c \notin lost
      BY <1>1, <3>1
    <3>4. Marked(c)
      BY <2>2, <3>3 DEF IInv, MarkInv
    <3> QED BY <1>1, <3>2, <3>4 DEF Marked
  <2> QED BY <2>1, <2>2
<1> QED BY <1>4, <1>5, <1>6 DEF IInv

(* A crash with a notification undecided loses it.                             *)
LEMMA CrashPreserves ==
  ASSUME IInv, TypeOK', Crash
  PROVE  IInv'
<1>1. /\ queue' = queue /\ announced' = announced /\ moved' = moved
      /\ alertable' = alertable /\ phase' = "idle"
      /\ lost' = IF phase = "decided" THEN lost
                 ELSE lost \cup {hand.notification.check}
  BY DEF Crash, processorVars, peopleVars
<1>2. CASE ~Deciding
  BY <1>1, <1>2, AsidePreserves DEF Deciding
<1>3. CASE Deciding
  <2>1. \A c : InQueue(c)' <=> InQueue(c)
    BY <1>1 DEF InQueue, Pends
  <2>2. ~Deciding' /\ \A c : ~InHand(c)'
    BY <1>1 DEF InHand, Deciding
  <2>3. \A c \in Checks \ lost' : c \notin lost /\ ~InHand(c)
    BY <1>1, <1>3 DEF InHand, Deciding, Pends
  <2>4. QueueInv'
    BY <1>1 DEF IInv, QueueInv, LastInQueue, Pends
  <2>5. MarkInv'
    BY <1>1, <2>1, <2>3 DEF IInv, MarkInv, Marked
  <2> QED BY <2>2, <2>4, <2>5 DEF IInv, HandInv, SeenInv
<1> QED BY <1>2, <1>3

-----------------------------------------------------------------------------

LEMMA IInvInit == Init => IInv
<1> SUFFICES ASSUME Init PROVE IInv
  OBVIOUS
<1>1. TypeOK
  BY TypeInit
<1>2. 1 .. Len(queue) = {}
  BY DEF Init
<1>3. ~Deciding
  BY DEF Init, Deciding
<1>4. \A c \in Checks : Marked(c)
  <2>1. \A c \in Checks : announced[c].last = Nil
    BY DEF Init
  <2> QED BY <2>1, NotifierAssumption DEF Init, Marked
<1> QED BY <1>1, <1>2, <1>3, <1>4
        DEF IInv, QueueInv, HandInv, SeenInv, MarkInv, InHand

LEMMA IInvStep ==
  ASSUME IInv, [Next]_vars
  PROVE  IInv'
<1>1. TypeOK /\ TypeOK'
  BY TypeStep DEF IInv
<1>2. ASSUME NEW c \in Checks, NEW condition \in Problems,
             AnnounceProblem(c, condition)
      PROVE  IInv'
  <2> DEFINE n == [check |-> c, type |-> "problem", condition |-> condition,
                   severity |-> announced'[c].worst, at |-> now]
  <2>1. /\ queue' = Append(queue, n) /\ hand' = hand /\ phase' = phase /\ lost' = lost
        /\ announced' = [announced EXCEPT ![c] = Of(c)!AfterProblem(condition)]
        /\ alertable' = alertable /\ moved' = moved \ {c}
    BY <1>2 DEF AnnounceProblem, Queue
  <2>2. n \in Notification
    BY <1>1, <2>1, ConditionType
       DEF TypeOK, Notification, Types, Of!AfterProblem, Of!WorstWith
  <2>3. announced'[c].last = "problem"
    BY <1>1, <2>1 DEF TypeOK, Of!AfterProblem
  <2>4. \A d \in Checks \ {c} : announced'[d] = announced[d]
    BY <1>1, <2>1 DEF TypeOK
  <2>5. n.check = c /\ n.type = "problem"
    OBVIOUS
  <2> HIDE DEF n
  <2> QED BY <1>1, <2>1, <2>2, <2>3, <2>4, <2>5, AnnouncePreserves
<1>3. ASSUME NEW c \in Checks, AnnounceRecovery(c)
      PROVE  IInv'
  <2> DEFINE n == [check |-> c, type |-> "recovery", condition |-> "ok",
                   severity |-> Of(c)!SeverityOfEnd, at |-> now]
  <2>1. /\ queue' = Append(queue, n) /\ hand' = hand /\ phase' = phase /\ lost' = lost
        /\ announced' = [announced EXCEPT ![c] = Of(c)!AfterRecovery]
        /\ alertable' = alertable /\ moved' = moved
    BY <1>3 DEF AnnounceRecovery, Queue, peopleVars
  <2>2. n \in Notification
    BY <1>1, ConditionType
       DEF TypeOK, Notification, Types, Of!SeverityOfEnd
  <2>3. announced'[c].last = "recovery"
    BY <1>1, <2>1 DEF TypeOK, Of!AfterRecovery
  <2>4. \A d \in Checks \ {c} : announced'[d] = announced[d]
    BY <1>1, <2>1 DEF TypeOK
  <2>5. n.check = c /\ n.type = "recovery"
    OBVIOUS
  <2> HIDE DEF n
  <2> QED BY <1>1, <2>1, <2>2, <2>3, <2>4, <2>5, AnnouncePreserves
<1>4. ASSUME NEW c \in Checks, NEW condition \in Problems,
             AnnounceAcknowledgement(c, condition)
      PROVE  IInv'
  <2> DEFINE n == [check |-> c, type |-> "acknowledgement",
                   condition |-> condition,
                   severity |-> Of(c)!SeverityOfEnd, at |-> now]
  <2>1. /\ queue' = Append(queue, n) /\ hand' = hand /\ phase' = phase /\ lost' = lost
        /\ announced' = [announced EXCEPT ![c] = Of(c)!AfterAcknowledgement]
        /\ alertable' = alertable \ {c} /\ moved' = moved
    BY <1>4 DEF AnnounceAcknowledgement, Queue, peopleVars
  <2>2. n \in Notification
    BY <1>1, ConditionType
       DEF TypeOK, Notification, Types, Of!SeverityOfEnd
  <2>3. announced'[c].last = "acknowledgement"
    BY <1>1, <2>1 DEF TypeOK, Of!AfterAcknowledgement
  <2>4. \A d \in Checks \ {c} : announced'[d] = announced[d]
    BY <1>1, <2>1 DEF TypeOK
  <2>5. n.check = c /\ n.type = "acknowledgement"
    OBVIOUS
  <2> HIDE DEF n
  <2> QED BY <1>1, <2>1, <2>2, <2>3, <2>4, <2>5, AnnouncePreserves
<1>5. ASSUME NEW c \in Checks, AnnounceTest(c)
      PROVE  IInv'
  <2> DEFINE n == [check |-> c, type |-> "test", condition |-> "ok",
                   severity |-> MostUnhealthy, at |-> now]
  <2>1. /\ queue' = Append(queue, n) /\ hand' = hand /\ phase' = phase /\ lost' = lost
        /\ announced' = announced /\ alertable' = alertable /\ moved' = moved
    BY <1>5 DEF AnnounceTest, Queue, processorVars, peopleVars
  <2>2. n \in Notification /\ n.type = "test"
    BY <1>1, ConditionType DEF TypeOK, Notification, Types
  <2> HIDE DEF n
  <2> QED BY <1>1, <2>1, <2>2, TestPreserves
<1>6. ASSUME NEW c \in Checks,
             \/ StartScheduled(c) \/ EndScheduled(c)
             \/ StartUnscheduled(c) \/ EndUnscheduled(c)
      PROVE  IInv'
  <2>1. /\ queue' = queue /\ announced' = announced /\ hand' = hand
        /\ phase' = phase /\ lost' = lost /\ moved' = moved \cup {c}
        /\ alertable' = alertable \/ alertable' = alertable \ {c}
    BY <1>6 DEF Started, StartScheduled, EndScheduled, StartUnscheduled,
                EndUnscheduled, Moved, Aside
  <2> QED BY <1>1, <2>1, AsidePreserves
<1>7. ASSUME \/ Tick \/ Destroy \/ UNCHANGED vars
             \/ \E a \in outbox : PushAlert(a)
      PROVE  IInv'
  <2>1. /\ queue' = queue /\ announced' = announced
        /\ \/ hand' = hand /\ phase' = phase
           \/ phase # "loaded" /\ phase' # "loaded"
        /\ lost' = lost /\ moved' = moved /\ alertable' = alertable
    BY <1>7 DEF Tick, Destroy, PushAlert, Aside, Deciding, vars,
                processorVars, notifierVars, historyVars, peopleVars
  <2> QED BY <1>1, <2>1, AsidePreserves
<1> QED BY <1>1, <1>2, <1>3, <1>4, <1>5, <1>6, <1>7, TakePreserves,
           AlertsForPreserves, CrashPreserves DEF Next

THEOREM Inductive == Spec => []IInv
BY IInvInit, IInvStep, PTL DEF Spec

(* However far the notifier lags behind, whoever changes maintenance in        *)
(* between, wherever it crashes: once it has caught up, a check is marked      *)
(* alertable if, and unless people intervened only if, its failure was the     *)
(* last thing announced of it (Notifier#alerts_for,                            *)
(* Check#set_unscheduled_maintenance).                                         *)
THEOREM MarksAreCurrent == Spec => []AlertableIsCurrent
<1>1. IInv => AlertableIsCurrent
  <2> SUFFICES ASSUME IInv, Idle, NEW c \in Checks \ lost PROVE Marked(c)
    BY DEF AlertableIsCurrent, Marked
  <2>1. ~InQueue(c) /\ ~InHand(c)
    BY DEF Idle, InQueue, InHand, Deciding
  <2> QED BY <2>1 DEF IInv, MarkInv
<1> QED BY <1>1, Inductive, PTL

-----------------------------------------------------------------------------
(* What a medium was told.  Its last word is what its last state and its last  *)
(* summary say, unless an alert for it is on its way (WordInv), and that alert *)
(* keeps the interval.  While a medium takes something for failing or is in a  *)
(* summary, one of the checks it counts is failing, or the end of it is        *)
(* pending or was lost (EndInv); and its summary is current, unless one of     *)
(* those checks is pending or lost, or people intervened (SummaryInv).         *)

Told(m, a) ==
  /\ lastState[m] = [ok |-> IsEnd(a), condition |-> a.condition, at |-> a.at]
  /\ lastRollup[m] = a.rollup

For(m, a) == a.medium = m /\ a.type # "test"

Apart(m, w, a) ==
  /\ w # Nil /\ w.type = "problem" /\ a.type = "problem"
  /\ w.condition = a.condition /\ w.rollup = Nil /\ a.rollup = Nil
  => a.at - w.at > Interval[m]

OutboxInv ==
  /\ phase # "decided" => outbox = {}
  /\ \A a \in outbox : a.type # "test" => Told(a.medium, a)
  /\ \A a, b \in outbox : a.medium = b.medium => a = b

WordInv ==
  \A m \in Media \ cut :
    /\ lastWord[m] # Nil /\ (\A a \in outbox : ~For(m, a))
         => Told(m, lastWord[m])
    /\ \A a \in outbox : For(m, a) => Apart(m, lastWord[m], a)

Pending(c) == c \in lost \/ InQueue(c) \/ InHand(c)

Failing(c) == announced[c].last = "problem" \/ Pending(c)

(* The checks of a plain medium, at whatever hour.                             *)
Counted(m) == ChecksOf(RuleSet, TagsOf, m, 0)

InTrouble(m) ==
  \/ lastState[m] # Nil /\ ~lastState[m].ok
  \/ lastRollup[m] = "problem"

EndInv ==
  \A m \in Media : Plain(m) /\ InTrouble(m) => \E c \in Counted(m) : Failing(c)

Counts(m) == (alertable \cap Counted(m)) \ (sched \cup unsched)

Current(m) ==
  (lastRollup[m] = "problem") = (Cardinality(Counts(m)) >= Threshold[m])

SummaryInv ==
  \A m \in Media :
    Plain(m) /\ Threshold[m] > 0 =>
      m \in outdated \/ Current(m) \/ \E c \in Counted(m) : Pending(c)

AlertInv == OutboxInv /\ WordInv /\ EndInv /\ SummaryInv

LEMMA HourType == ASSUME NEW t \in Nat PROVE HourAt(t) \in Hours /\ 0 \in Hours
BY NotifierAssumption DEF HourAt

(* Some rule of the medium, an acceptor or a rejector, falls to the tags.      *)
Falling(m, black, tags) ==
  \E r \in RuleSet :
    r.enabled /\ r.blackhole = black /\ m \in r.media /\ TagsMatch(r, tags)

(* For a plain medium, conditions and hours play no part at either end of the  *)
(* routing (Check#alerting_media, Medium#checks).                              *)
LEMMA PlainRules ==
  ASSUME NEW m \in Media, Plain(m), NEW hour \in Hours, NEW black \in BOOLEAN
  PROVE  /\ \A tags, severity :
              m \in MatchingMedia(MatchingRules(RuleSet, tags, black, severity),
                                 hour)
                <=> Falling(m, black, tags)
         /\ \A c \in Checks :
              LET own == RulesOf(RuleSet, m, black, hour)
              IN  HasGlobal(own) \/ c \in MatchingChecks(own, TagsOf)
                    <=> Falling(m, black, TagsOf[c])
<1>1. ASSUME NEW r \in RuleSet, m \in r.media
      PROVE  /\ r.hasMedia /\ r.conditions = Nil /\ hour \in r.hours
             /\ r.strategy = "global" \/ r.tags # {}
  BY <1>1 DEF Plain, Settled
<1>2. ASSUME NEW tags, NEW severity
      PROVE  m \in MatchingMedia(MatchingRules(RuleSet, tags, black, severity),
                                hour)
               <=> Falling(m, black, tags)
  BY <1>1 DEF MatchingMedia, MatchingRules, OccurringAt, Falling
<1>3. ASSUME NEW c \in Checks
      PROVE  LET own == RulesOf(RuleSet, m, black, hour)
             IN  HasGlobal(own) \/ c \in MatchingChecks(own, TagsOf)
                   <=> Falling(m, black, TagsOf[c])
  BY <1>1 DEF RulesOf, OccurringAt, HasGlobal, MatchingChecks, TagsMatch, Falling
<1> QED BY <1>2, <1>3

(* A plain medium is alerted of exactly the checks it counts.                  *)
LEMMA PlainCounts ==
  ASSUME now \in Nat, NEW m \in Media, Plain(m)
  PROVE  /\ \A n \in Notification : m \in MediaFor(n) <=> n.check \in Counted(m)
         /\ \A t \in Nat : ChecksOf(RuleSet, TagsOf, m, HourAt(t)) = Counted(m)
         /\ Counted(m) \subseteq Checks
<1> DEFINE Falls(c) == /\ Falling(m, FALSE, TagsOf[c])
                       /\ ~Falling(m, TRUE, TagsOf[c])
<1>1. ASSUME NEW hour \in Hours
      PROVE  ChecksOf(RuleSet, TagsOf, m, hour) = {c \in Checks : Falls(c)}
  <2> DEFINE acceptors == RulesOf(RuleSet, m, FALSE, hour)
             rejectors == RulesOf(RuleSet, m, TRUE, hour)
  <2>1. \A c \in Checks :
          /\ HasGlobal(acceptors) \/ c \in MatchingChecks(acceptors, TagsOf)
               <=> Falling(m, FALSE, TagsOf[c])
          /\ HasGlobal(rejectors) \/ c \in MatchingChecks(rejectors, TagsOf)
               <=> Falling(m, TRUE, TagsOf[c])
    BY PlainRules
  <2>2. MatchingChecks(acceptors, TagsOf) \subseteq Checks
    BY DEF MatchingChecks
  <2> HIDE DEF acceptors, rejectors
  <2>3. ChecksOf(RuleSet, TagsOf, m, hour)
          = IF HasGlobal(rejectors) THEN {}
            ELSE (IF HasGlobal(acceptors) THEN Checks
                  ELSE MatchingChecks(acceptors, TagsOf))
                   \ MatchingChecks(rejectors, TagsOf)
    BY DEF ChecksOf, acceptors, rejectors
  <2> QED BY <2>1, <2>2, <2>3
<1>2. 0 \in Hours /\ \A t \in Nat : HourAt(t) \in Hours
  BY HourType
<1>3. ASSUME NEW n \in Notification
      PROVE  m \in MediaFor(n) <=> n.check \in Counted(m)
  <2>1. n.check \in Checks /\ HourAt(now) \in Hours
    BY <1>2 DEF Notification
  <2>2. m \in MediaFor(n) <=> Falls(n.check)
    BY <2>1, PlainRules DEF MediaFor, AlertingMedia
  <2> QED BY <1>1, <1>2, <2>1, <2>2 DEF Counted
<1> QED
  <2> HIDE DEF Falls
  <2> QED BY <1>1, <1>2, <1>3 DEF Counted

(* What is appended to the queue is pending there, with what was.              *)
LEMMA AppendKeeps ==
  ASSUME queue \in Seq(Notification), NEW n \in Notification,
         queue' = Append(queue, n)
  PROVE  /\ \A c \in Checks : InQueue(c) => InQueue(c)'
         /\ \A c \in Checks : Pends(n, c) => InQueue(c)'
<1> DEFINE N == Len(queue)
<1>1. /\ Len(queue') = N + 1 /\ N \in Nat /\ queue'[N + 1] = n
      /\ \A i \in 1 .. N : queue'[i] = queue[i] /\ i \in 1 .. N + 1
      /\ N + 1 \in 1 .. N + 1
  BY Appended
<1> QED BY <1>1 DEF InQueue, Pends

(* A notification that the processor queues.                                   *)
LEMMA Queued ==
  ASSUME TypeOK, TypeOK', NEW c \in Checks, NEW type, NEW condition, NEW severity,
         Queue(c, type, condition, severity)
  PROVE  /\ \A d \in Checks : InQueue(d) => InQueue(d)'
         /\ type # "test" => InQueue(c)'
         /\ \A d \in Checks : InHand(d)' <=> InHand(d)
<1> DEFINE n == [check |-> c, type |-> type, condition |-> condition,
                 severity |-> severity, at |-> now]
<1>1. queue' = Append(queue, n) /\ phase' = phase /\ hand' = hand
  BY DEF Queue
<1>2. n \in Notification
  <2>1. queue' \in Seq(Notification) /\ queue \in Seq(Notification)
    BY DEF TypeOK
  <2>2. Len(queue) + 1 \in 1 .. Len(queue') /\ queue'[Len(queue) + 1] = n
    <3> HIDE DEF n
    <3> QED BY <1>1, <2>1
  <2> HIDE DEF n
  <2> QED BY <2>1, <2>2
<1>3. type # "test" => Pends(n, c)
  BY DEF Pends
<1> HIDE DEF n
<1>4. \A d \in Checks : InHand(d)' <=> InHand(d)
  BY <1>1 DEF InHand, Deciding, Pends
<1> QED BY <1>1, <1>2, <1>3, <1>4, AppendKeeps DEF TypeOK

(* Only the decision settles what is pending or failing.                       *)
LEMMA PendingStays ==
  ASSUME TypeOK, TypeOK', Next, ~AlertsFor, NEW c \in Checks
  PROVE  /\ Pending(c) => Pending(c)'
         /\ Failing(c) => Failing(c)'
<1>1. ASSUME NEW d \in Checks,
             \/ \E condition \in Problems : \/ AnnounceProblem(d, condition)
                                           \/ AnnounceAcknowledgement(d, condition)
             \/ AnnounceRecovery(d)
      PROVE  /\ Pending(c) => Pending(c)'
             /\ Failing(c) => Failing(c)'
  <2>1. /\ \A e \in Checks : InQueue(e) => InQueue(e)'
        /\ InQueue(d)'
        /\ \A e \in Checks : InHand(e)' <=> InHand(e)
        /\ lost' = lost
    <3>1. CASE \E condition \in Problems : AnnounceProblem(d, condition)
      BY <3>1, Queued DEF AnnounceProblem, Queue
    <3>2. CASE \E condition \in Problems : AnnounceAcknowledgement(d, condition)
      BY <3>2, Queued DEF AnnounceAcknowledgement, Queue
    <3>3. CASE AnnounceRecovery(d)
      BY <3>3, Queued DEF AnnounceRecovery, Queue
    <3> QED BY <1>1, <3>1, <3>2, <3>3
  <2>2. \A e \in Checks \ {d} : announced'[e] = announced[e]
    BY <1>1 DEF TypeOK, AnnounceProblem, AnnounceAcknowledgement, AnnounceRecovery
  <2> QED BY <2>1, <2>2 DEF Pending, Failing
<1>2. ASSUME NEW d \in Checks, AnnounceTest(d)
      PROVE  /\ Pending(c) => Pending(c)'
             /\ Failing(c) => Failing(c)'
  <2>1. /\ \A e \in Checks : InQueue(e) => InQueue(e)'
        /\ \A e \in Checks : InHand(e)' <=> InHand(e)
        /\ lost' = lost /\ announced' = announced
    BY <1>2, Queued DEF AnnounceTest, Queue, processorVars
  <2> QED BY <2>1 DEF Pending, Failing
<1>3. CASE Take
  <2>1. \A e \in Checks : InQueue(e) \/ InHand(e) => InQueue(e)' \/ InHand(e)'
    <3>1. \A e \in Checks : ~InHand(e)
      BY <1>3 DEF Take, InHand, Deciding
    <3> QED BY <1>3, <3>1, TakeMoves
  <2>2. lost' = lost /\ announced' = announced
    BY <1>3 DEF Take, processorVars, historyVars
  <2> QED BY <2>1, <2>2 DEF Pending, Failing
<1>4. CASE Crash
  <2>1. queue' = queue /\ announced' = announced /\ lost \subseteq lost'
    BY <1>4 DEF Crash, processorVars
  <2>2. InQueue(c) => InQueue(c)'
    BY <2>1 DEF InQueue, Pends
  <2>3. InHand(c) => c \in lost'
    BY <1>4 DEF Crash, InHand, Deciding, Pends
  <2> QED BY <2>1, <2>2, <2>3 DEF Pending, Failing
<1>5. ASSUME \/ Tick \/ Destroy \/ \E a \in outbox : PushAlert(a)
             \/ \E d \in Checks : \/ StartScheduled(d) \/ EndScheduled(d)
                                  \/ StartUnscheduled(d) \/ EndUnscheduled(d)
      PROVE  /\ Pending(c) => Pending(c)'
             /\ Failing(c) => Failing(c)'
  <2>1. /\ queue' = queue /\ announced' = announced /\ lost' = lost
        /\ \/ phase' = phase /\ hand' = hand
           \/ phase = "decided"
    BY <1>5 DEF Tick, Destroy, PushAlert, Aside, StartScheduled, EndScheduled,
                StartUnscheduled, EndUnscheduled, processorVars, historyVars
  <2>2. InQueue(c) => InQueue(c)'
    BY <2>1 DEF InQueue, Pends
  <2>3. InHand(c) => InHand(c)'
    BY <2>1 DEF InHand, Deciding, Pends
  <2> QED BY <2>1, <2>2, <2>3 DEF Pending, Failing
<1> QED BY <1>1, <1>2, <1>3, <1>4, <1>5 DEF Next

(* The decision on the notification in hand.                                   *)
Hand == hand.notification

HandRollup ==
  [m \in Media |-> IF IsTest(Hand) THEN Nil
                   ELSE Rollup(m, AlertableAfter(Hand, hand.seen))]

HandSent ==
  {m \in MediaFor(Hand) : IsTest(Hand) \/ Sends(m, Hand, HandRollup[m])}

LEMMA Decision ==
  ASSUME TypeOK, AlertsFor
  PROVE  /\ Hand \in Notification /\ HandSent \subseteq Media
         /\ phase = "loaded" /\ phase' = "decided"
         /\ outbox' = {Alert(m, Hand, HandRollup[m]) : m \in HandSent}
         /\ alertable' = AlertableAfter(Hand, hand.seen)
         /\ IsTest(Hand) => UNCHANGED <<alertable, lastState, lastRollup, lost, outdated>>
         /\ ~IsTest(Hand) =>
              /\ lost' = lost \ {Hand.check}
              /\ outdated' = outdated \ MediaFor(Hand)
              /\ \A m \in HandSent :
                   /\ lastState'[m] = [ok |-> IsEnd(Hand), condition |-> Hand.condition,
                                       at |-> Hand.at]
                   /\ lastRollup'[m] = HandRollup[m]
         /\ \A m \in Media \ HandSent :
              lastState'[m] = lastState[m] /\ lastRollup'[m] = lastRollup[m]
         /\ UNCHANGED <<now, announced, sched, unsched, queue, cut, moved, lastWord>>
<1>1. /\ phase = "loaded" /\ phase' = "decided"
      /\ outbox' = {Alert(m, Hand, HandRollup[m]) : m \in HandSent}
      /\ alertable' = AlertableAfter(Hand, hand.seen)
      /\ IF IsTest(Hand) THEN UNCHANGED <<lastState, lastRollup, lost, outdated>>
         ELSE /\ lastState' =
                   [m \in Media |->
                      IF m \in HandSent
                      THEN [ok |-> IsEnd(Hand), condition |-> Hand.condition,
                            at |-> Hand.at]
                      ELSE lastState[m]]
              /\ lastRollup' =
                   [m \in Media |-> IF m \in HandSent THEN HandRollup[m]
                                    ELSE lastRollup[m]]
              /\ lost' = lost \ {Hand.check}
              /\ outdated' = outdated \ MediaFor(Hand)
      /\ UNCHANGED <<now, announced, sched, unsched, queue, cut, moved, lastWord>>
  BY Zenon DEF AlertsFor, Hand, HandRollup, HandSent, processorVars
<1>2. Hand \in Notification
  BY <1>1 DEF TypeOK, Hand
<1>3. HandSent \subseteq Media
  BY MediaForType DEF HandSent
<1>4. IsTest(Hand) => alertable' = alertable
  BY <1>1 DEF AlertableAfter
<1> HIDE DEF Hand, HandRollup, HandSent
<1> QED BY <1>1, <1>2, <1>3, <1>4

(* What a medium was told, and the intervals between.                          *)
LEMMA WordsStep ==
  ASSUME TypeOK, OutboxInv, WordInv, [Next]_vars
  PROVE  OutboxInv' /\ WordInv'
<1>1. CASE AlertsFor
  <2> DEFINE alert(m) == Alert(m, Hand, HandRollup[m])
  <2>1. /\ outbox = {} /\ phase' = "decided" /\ cut' = cut /\ lastWord' = lastWord
        /\ \A a \in outbox' : \E m \in HandSent : a = alert(m)
        /\ HandSent \subseteq Media
    BY <1>1, Decision DEF OutboxInv
  <2>2. \A m : /\ alert(m).medium = m /\ alert(m).type = Hand.type
               /\ alert(m).condition = Hand.condition /\ alert(m).at = Hand.at
               /\ alert(m).rollup = HandRollup[m]
    BY DEF Alert
  <2> HIDE DEF alert
  <2>3. ASSUME NEW m \in HandSent, NEW a \in outbox', a = alert(m), ~IsTest(Hand)
        PROVE  Told(m, a)'
    <3>1. IsEnd(a) = IsEnd(Hand)
      BY <2>2, <2>3 DEF IsEnd
    <3> QED BY <1>1, <2>2, <2>3, <3>1, Decision DEF Told, IsEnd
  <2>4. OutboxInv'
    <3>1. \A a \in outbox' : a.type # "test" => Told(a.medium, a)'
      BY <2>1, <2>2, <2>3 DEF IsTest
    <3>2. \A a, b \in outbox' : a.medium = b.medium => a = b
      BY <2>1, <2>2
    <3> QED BY <2>1, <3>1, <3>2 DEF OutboxInv
  <2>5. ASSUME NEW m \in Media \ cut, lastWord[m] # Nil,
               \A a \in outbox' : ~For(m, a)
        PROVE  Told(m, lastWord[m])'
    <3>1. Told(m, lastWord[m])
      BY <2>1, <2>5 DEF WordInv
    <3>2. IsTest(Hand) \/ m \notin HandSent
      <4>1. m \in HandSent => alert(m) \in outbox'
        BY <1>1, Decision, Zenon DEF alert
      <4> QED BY <2>2, <2>5, <4>1 DEF For, IsTest
    <3>3. lastState'[m] = lastState[m] /\ lastRollup'[m] = lastRollup[m]
      BY <1>1, <3>2, Decision
    <3> QED BY <2>1, <3>1, <3>3 DEF Told
  <2>6. ASSUME NEW m \in Media \ cut, NEW a \in outbox', For(m, a),
               lastWord[m] # Nil, lastWord[m].type = "problem", a.type = "problem",
               lastWord[m].condition = a.condition, lastWord[m].rollup = Nil,
               a.rollup = Nil
        PROVE  a.at - lastWord[m].at > Interval[m]
    <3>1. Told(m, lastWord[m])
      BY <2>1, <2>6 DEF WordInv
    <3>2. /\ lastState[m] # Nil /\ ~lastState[m].ok
          /\ lastState[m].condition = a.condition /\ lastState[m].at = lastWord[m].at
          /\ lastRollup[m] = Nil
      <4>1. lastWord[m] \in Alerts
        BY <2>6 DEF TypeOK
      <4>2. lastState[m] \in LastState
        BY <2>6, <3>1, <4>1 DEF Told, LastState, Alerts, IsEnd
      <4>3. ~IsEnd(lastWord[m])
        BY <2>6 DEF IsEnd
      <4>4. lastState[m] # Nil
        BY <4>2, NotifierAssumption
      <4>5. ~lastState[m].ok
        <5>1. lastState[m].ok = (lastWord[m].type \in {"acknowledgement", "recovery"})
          BY <3>1 DEF Told, IsEnd
        <5> QED BY <2>6, <5>1
      <4> QED BY <2>6, <3>1, <4>4, <4>5 DEF Told
    <3>3. /\ m \in HandSent /\ Hand.type = "problem" /\ Hand.condition = a.condition
          /\ HandRollup[m] = Nil /\ a.at = Hand.at
      BY <2>1, <2>2, <2>6 DEF For
    <3>4. Sends(m, Hand, HandRollup[m])
      BY <3>3 DEF HandSent, IsTest
    <3>5. lastState[m].at + Interval[m] < Hand.at
      BY <3>2, <3>3, <3>4 DEF Sends, IsEnd
    <3>6. lastState[m].at \in Nat /\ Interval[m] \in Nat /\ Hand.at \in Nat
      BY <1>1, <2>6, <3>2, Decision, NotifierAssumption
         DEF TypeOK, LastState, Notification
    <3> QED BY <3>2, <3>3, <3>5, <3>6
  <2> QED BY <2>1, <2>4, <2>5, <2>6 DEF WordInv, Apart
<1>2. ASSUME NEW a \in outbox, PushAlert(a)
      PROVE  OutboxInv' /\ WordInv'
  <2>1. /\ outbox' = outbox \ {a} /\ phase' = phase
        /\ lastState' = lastState /\ lastRollup' = lastRollup
    BY <1>2 DEF PushAlert
  <2>2. OutboxInv'
    BY <2>1 DEF OutboxInv, Told, IsEnd
  <2>3. CASE a.type = "test"
    <3>1. cut' = cut /\ lastWord' = lastWord
      BY <1>2, <2>3 DEF PushAlert
    <3>2. \A m : ~For(m, a)
      BY <2>3 DEF For
    <3> QED BY <2>1, <2>2, <3>1, <3>2 DEF WordInv, Told, Apart, IsEnd
  <2>4. CASE a.type # "test"
    <3>1. /\ cut' = cut \ {a.medium}
          /\ lastWord' = [lastWord EXCEPT ![a.medium] = a]
          /\ a.medium \in Media
      BY <1>2, <2>4 DEF PushAlert, TypeOK, Alerts
    <3>2. \A b \in outbox' : ~For(a.medium, b)
      BY <2>1 DEF OutboxInv, For
    <3>3. Told(a.medium, a)
      BY <2>4 DEF OutboxInv
    <3>4. ASSUME NEW m \in Media \ cut'
          PROVE  /\ lastWord'[m] # Nil /\ (\A b \in outbox' : ~For(m, b))
                      => Told(m, lastWord'[m])
                 /\ \A b \in outbox' : For(m, b) => Apart(m, lastWord'[m], b)
      <4>1. CASE m = a.medium
        <5>1. lastWord'[m] = a
          BY <3>1, <4>1 DEF TypeOK
        <5> QED BY <3>2, <3>3, <4>1, <5>1
      <4>2. CASE m # a.medium
        <5>1. lastWord'[m] = lastWord[m] /\ m \in Media \ cut
          BY <3>1, <3>4, <4>2 DEF TypeOK
        <5>2. ~For(m, a)
          BY <4>2 DEF For
        <5> QED BY <2>1, <5>1, <5>2 DEF WordInv
      <4> QED BY <4>1, <4>2
    <3> QED BY <2>1, <2>2, <3>4 DEF WordInv, Told, IsEnd, Apart
  <2> QED BY <2>3, <2>4
<1>3. CASE Crash
  <2>1. /\ outbox' = {} /\ lastState' = lastState /\ lastRollup' = lastRollup
        /\ lastWord' = lastWord
        /\ cut' = cut \cup {b.medium : b \in {d \in outbox : d.type # "test"}}
    BY <1>3 DEF Crash
  <2>2. ASSUME NEW m \in Media \ cut', lastWord[m] # Nil
        PROVE  Told(m, lastWord[m])
    <3>1. m \notin cut /\ \A b \in outbox : ~For(m, b)
      BY <2>1, <2>2 DEF For
    <3> QED BY <2>2, <3>1 DEF WordInv
  <2> QED BY <2>1, <2>2 DEF OutboxInv, WordInv, Told, IsEnd
<1>4. CASE /\ ~AlertsFor /\ ~Crash /\ \A a \in outbox : ~PushAlert(a)
  <2>1. /\ outbox' = outbox /\ lastState' = lastState /\ lastRollup' = lastRollup
        /\ lastWord' = lastWord /\ cut' = cut
        /\ phase' = phase \/ outbox = {}
    BY <1>4 DEF OutboxInv, Next, Tick, Take, Destroy, Aside, StartScheduled, EndScheduled,
                StartUnscheduled, EndUnscheduled, AnnounceProblem,
                AnnounceRecovery, AnnounceAcknowledgement, AnnounceTest, Queue,
                vars, processorVars, notifierVars, historyVars
  <2> QED BY <2>1 DEF OutboxInv, WordInv, Told, IsEnd, Apart
<1> QED BY <1>1, <1>2, <1>3, <1>4 DEF Next

(* The decision settles the check in hand only.                                *)
LEMMA DecisionSettles ==
  ASSUME TypeOK, AlertsFor, NEW c \in Checks, IsTest(Hand) \/ Hand.check # c
  PROVE  /\ Pending(c) => Pending(c)'
         /\ Failing(c) => Failing(c)'
<1>1. queue' = queue /\ announced' = announced
  BY Decision
<1>2. InQueue(c) => InQueue(c)'
  BY <1>1 DEF InQueue, Pends
<1>3. ~InHand(c)
  BY DEF InHand, Pends, IsTest, Hand
<1>4. c \in lost => c \in lost'
  BY Decision
<1> QED BY <1>1, <1>2, <1>3, <1>4 DEF Pending, Failing

(* For a medium that hears of the check in hand, the summary is settled.       *)
LEMMA DecisionRollup ==
  ASSUME TypeOK, AlertsFor, NEW m \in MediaFor(Hand), ~IsTest(Hand), Plain(m)
  PROVE  /\ lastRollup'[m] = "problem" <=>
              /\ Threshold[m] > 0
              /\ Cardinality(Counts(m)') >= Threshold[m]
         /\ IsEnd(Hand) => lastState'[m] = Nil \/ lastState'[m].ok
<1>1. m \in Media /\ now \in Nat
  BY MediaForType DEF TypeOK
<1>2. Counts(m)' = AlertingChecks(m, AlertableAfter(Hand, hand.seen))
  BY <1>1, Decision, PlainCounts DEF Counts, AlertingChecks, Counted
<1>3. HandRollup[m] = Rollup(m, AlertableAfter(Hand, hand.seen))
  BY <1>1 DEF HandRollup
<1>4. HandRollup[m] = "problem" <=> /\ Threshold[m] > 0
                                   /\ Cardinality(Counts(m)') >= Threshold[m]
  BY <1>2, <1>3, NotifierAssumption DEF Rollup
<1>5. CASE m \in HandSent
  <2>1. /\ lastRollup'[m] = HandRollup[m]
        /\ lastState'[m] = [ok |-> IsEnd(Hand), condition |-> Hand.condition,
                            at |-> Hand.at]
    BY <1>5, Decision
  <2>2. IsEnd(Hand) => lastState'[m].ok
    BY <2>1
  <2> QED BY <1>4, <2>1, <2>2
<1>6. CASE m \notin HandSent
  <2>1. lastRollup'[m] = lastRollup[m] /\ lastState'[m] = lastState[m]
    BY <1>1, <1>6, Decision
  <2>2. ~Sends(m, Hand, HandRollup[m])
    BY <1>6 DEF HandSent
  <2>3. /\ HandRollup[m] = lastRollup[m]
        /\ IsEnd(Hand) => lastState[m] = Nil \/ lastState[m].ok
    BY <2>2 DEF Sends
  <2> QED BY <1>4, <2>1, <2>3
<1> QED BY <1>5, <1>6

(* A medium in trouble counts a check that is failing.                         *)
LEMMA EndStep ==
  ASSUME IInv, IInv', EndInv, [Next]_vars
  PROVE  EndInv'
<1> SUFFICES ASSUME NEW m \in Media, Plain(m), InTrouble(m)'
             PROVE  \E c \in Counted(m) : Failing(c)'
  BY DEF EndInv, Plain, Counted
<1>1. /\ TypeOK /\ TypeOK' /\ now \in Nat
      /\ Counted(m) \subseteq Checks
  BY PlainCounts DEF IInv, TypeOK
<1>2. CASE ~AlertsFor
  <2>1. lastState' = lastState /\ lastRollup' = lastRollup
    BY <1>2 DEF Next, Tick, Take, Destroy, Crash, PushAlert, Aside, StartScheduled,
                EndScheduled, StartUnscheduled, EndUnscheduled, AnnounceProblem,
                AnnounceRecovery, AnnounceAcknowledgement, AnnounceTest, Queue,
                vars, notifierVars
  <2>2. PICK c \in Counted(m) : Failing(c)
    BY <2>1 DEF EndInv, InTrouble
  <2>3. CASE Next
    BY <1>1, <1>2, <2>2, <2>3, PendingStays
  <2>4. CASE UNCHANGED vars
    BY <2>2, <2>4 DEF vars, processorVars, notifierVars, historyVars, Failing,
                      Pending, InQueue, InHand, Deciding, Pends
  <2> QED BY <2>3, <2>4
<1>3. CASE AlertsFor /\ (IsTest(Hand) \/ m \notin MediaFor(Hand))
  <2>1. lastState'[m] = lastState[m] /\ lastRollup'[m] = lastRollup[m]
    BY <1>1, <1>3, Decision DEF HandSent
  <2>2. PICK c \in Counted(m) : Failing(c)
    BY <2>1 DEF EndInv, InTrouble
  <2>3. IsTest(Hand) \/ Hand.check # c
    BY <1>1, <1>3, PlainCounts, Decision
  <2> QED BY <1>1, <1>3, <2>2, <2>3, DecisionSettles
<1>4. CASE AlertsFor /\ ~IsTest(Hand) /\ m \in MediaFor(Hand)
  <2>1. Hand \in Notification /\ Hand.check \in Counted(m)
    BY <1>1, <1>4, PlainCounts, Decision
  <2>2. CASE IsEnd(Hand)
    <3>1. lastRollup'[m] = "problem"
      BY <1>1, <1>4, <2>2, DecisionRollup DEF InTrouble
    <3>2. Threshold[m] \in Nat /\ Threshold[m] > 0
            /\ Cardinality(Counts(m)') >= Threshold[m]
      BY <1>1, <1>4, <3>1, DecisionRollup, NotifierAssumption
    <3>3. Counts(m)' # {}
      BY <3>2, FS_EmptySet
    <3>4. PICK c \in Counted(m) : c \in alertable'
      BY <3>3 DEF Counts, Counted
    <3>5. ~InHand(c)'
      BY <1>1, <1>4, Decision DEF InHand, Deciding
    <3>6. Failing(c)'
      BY <1>1, <3>4, <3>5 DEF IInv, MarkInv, Marked, Failing, Pending
    <3> QED BY <3>6
  <2>3. CASE ~IsEnd(Hand)
    <3>1. PICK c \in Counted(m) : c = Hand.check
      BY <2>1
    <3>2. /\ InHand(c) /\ Hand.type = "problem"
          /\ announced' = announced /\ queue' = queue
      BY <1>1, <1>4, <2>1, <2>3, <3>1, Decision
         DEF InHand, Deciding, Pends, IsTest, IsEnd, Notification, Types, Hand
    <3>3. InQueue(c) \/ announced[c].last = "problem"
      BY <1>1, <3>2 DEF IInv, HandInv, Hand
    <3>4. InQueue(c) => InQueue(c)'
      BY <3>2 DEF InQueue, Pends
    <3> QED BY <3>2, <3>3, <3>4 DEF Failing, Pending
  <2> QED BY <2>2, <2>3
<1> QED BY <1>2, <1>3, <1>4

(* A summary is current, or somebody is about to make it so.                   *)
LEMMA SummaryStep ==
  ASSUME IInv, TypeOK', SummaryInv, [Next]_vars
  PROVE  SummaryInv'
<1> SUFFICES ASSUME NEW m \in Media, Plain(m), Threshold[m] > 0
             PROVE  \/ m \in outdated' \/ Current(m)'
                    \/ \E c \in Counted(m) : Pending(c)'
  BY DEF SummaryInv, Plain, Counted
<1>1. /\ TypeOK /\ now \in Nat /\ Counted(m) \subseteq Checks
      /\ m \in outdated \/ Current(m) \/ \E c \in Counted(m) : Pending(c)
  BY PlainCounts DEF IInv, TypeOK, SummaryInv
<1>2. ASSUME lastRollup'[m] = lastRollup[m], Counts(m)' = Counts(m), Current(m)
      PROVE  Current(m)'
  BY <1>2 DEF Current
<1>3. CASE ~AlertsFor /\ Next
  <2>1. \A c \in Counted(m) : Pending(c) => Pending(c)'
    BY <1>1, <1>3, PendingStays
  <2>2. ASSUME NEW c \in Checks,
               \/ \E condition \in Problems : AnnounceAcknowledgement(c, condition)
               \/ AnnounceRecovery(c)
        PROVE  Counts(m)' = Counts(m) \/ \E d \in Counted(m) : Pending(d)'
    <3>1. InQueue(c)'
      BY <1>1, <2>2, Queued DEF AnnounceAcknowledgement, AnnounceRecovery
    <3>2. /\ sched' = sched
          /\ alertable \ {c} = alertable' \ {c} /\ unsched \ {c} = unsched' \ {c}
      BY <2>2 DEF AnnounceAcknowledgement, AnnounceRecovery, Queue
    <3>3. c \notin Counted(m) => Counts(m)' = Counts(m)
      BY <3>2 DEF Counts, Counted
    <3> QED BY <3>1, <3>3 DEF Pending
  <2>3. CASE \E c \in Checks : \/ StartScheduled(c) \/ EndScheduled(c)
                              \/ StartUnscheduled(c) \/ EndUnscheduled(c)
    BY <2>3 DEF StartScheduled, EndScheduled, StartUnscheduled, EndUnscheduled,
                Started, Moved
  <2>4. CASE \/ Tick \/ Take \/ Destroy \/ Crash \/ \E a \in outbox : PushAlert(a)
             \/ \E c \in Checks : AnnounceTest(c)
             \/ \E c \in Checks, condition \in Problems : AnnounceProblem(c, condition)
    <3>1. /\ sched' = sched /\ unsched' = unsched /\ alertable' = alertable
          /\ lastRollup' = lastRollup /\ outdated' = outdated
      BY <2>4 DEF Tick, Take, Destroy, Crash, PushAlert, Aside, AnnounceProblem,
                  AnnounceTest, Queue, processorVars, historyVars, peopleVars
    <3>2. Counts(m)' = Counts(m)
      BY <3>1 DEF Counts, Counted
    <3> QED BY <1>1, <1>2, <2>1, <3>1, <3>2
  <2>5. CASE \E c \in Checks :
               \/ \E condition \in Problems : AnnounceAcknowledgement(c, condition)
               \/ AnnounceRecovery(c)
    <3>1. lastRollup' = lastRollup /\ outdated' = outdated
      BY <2>5 DEF AnnounceAcknowledgement, AnnounceRecovery, Queue, peopleVars
    <3> QED BY <1>1, <1>2, <2>1, <2>2, <2>5, <3>1
  <2> QED BY <1>3, <2>3, <2>4, <2>5 DEF Next
<1>4. CASE UNCHANGED vars
  <2>1. Counts(m)' = Counts(m) /\ lastRollup' = lastRollup /\ outdated' = outdated
    BY <1>4 DEF vars, processorVars, notifierVars, historyVars, peopleVars, Counts,
                Counted
  <2>2. \A c \in Counted(m) : Pending(c) => Pending(c)'
    BY <1>4 DEF vars, processorVars, notifierVars, historyVars, Pending, InQueue,
                InHand, Deciding, Pends
  <2> QED BY <1>1, <1>2, <2>1, <2>2
<1>5. CASE AlertsFor /\ (IsTest(Hand) \/ m \notin MediaFor(Hand))
  <2>1. /\ lastRollup'[m] = lastRollup[m]
        /\ sched' = sched /\ unsched' = unsched
        /\ m \in outdated => m \in outdated'
    BY <1>1, <1>5, Decision DEF HandSent
  <2>2. \A c \in Counted(m) : IsTest(Hand) \/ Hand.check # c
    BY <1>1, <1>5, PlainCounts, Decision
  <2>3. Counts(m)' = Counts(m)
    BY <1>1, <1>5, <2>1, <2>2, Decision DEF Counts, Counted, AlertableAfter
  <2> QED BY <1>1, <1>2, <1>5, <2>1, <2>2, <2>3, DecisionSettles
<1>6. CASE AlertsFor /\ ~IsTest(Hand) /\ m \in MediaFor(Hand)
  BY <1>1, <1>6, DecisionRollup DEF Current
<1> QED BY <1>3, <1>4, <1>5, <1>6

LEMMA AlertInit == Init => AlertInv
<1> SUFFICES ASSUME Init PROVE AlertInv
  OBVIOUS
<1>1. \A m \in Media : /\ lastState[m] = Nil /\ lastRollup[m] = Nil
                       /\ lastWord[m] = Nil
  BY DEF Init
<1>2. OutboxInv /\ WordInv
  BY <1>1 DEF Init, OutboxInv, WordInv
<1>3. EndInv
  BY <1>1, NotifierAssumption DEF EndInv, InTrouble
<1>4. SummaryInv
  <2> SUFFICES ASSUME NEW m \in Media, Threshold[m] > 0 PROVE Current(m)
    BY DEF SummaryInv
  <2>1. Counts(m) = {} /\ Threshold[m] \in Nat
    BY NotifierAssumption DEF Init, Counts
  <2>2. Cardinality(Counts(m)) = 0
    BY <2>1, FS_EmptySet
  <2> QED BY <1>1, <2>1, <2>2, NotifierAssumption DEF Current
<1> QED BY <1>2, <1>3, <1>4 DEF AlertInv

THEOREM AlertsInductive == Spec => [](IInv /\ AlertInv)
<1>1. Init => IInv /\ AlertInv
  BY IInvInit, AlertInit
<1>2. IInv /\ AlertInv /\ [Next]_vars => (IInv /\ AlertInv)'
  <2> SUFFICES ASSUME IInv, AlertInv, [Next]_vars PROVE (IInv /\ AlertInv)'
    OBVIOUS
  <2>1. IInv' /\ TypeOK /\ TypeOK'
    BY IInvStep DEF IInv
  <2> QED BY <2>1, WordsStep, EndStep, SummaryStep DEF AlertInv
<1> QED BY <1>1, <1>2, PTL DEF Spec

(* A medium is not left with a problem as its last word, plainly or in a       *)
(* summary, when all it counts is over, whatever the intervals suppressed      *)
(* (Notifier#alerts_for).                                                      *)
THEOREM EndsAreTold == Spec => []EndIsTold
<1>1. IInv /\ AlertInv => EndIsTold
  <2> SUFFICES ASSUME IInv, AlertInv, Idle, lost = {}, NEW m \in Media, Plain(m),
                      m \notin cut, lastWord[m] # Nil,
                      \A c \in ChecksOf(RuleSet, TagsOf, m, HourAt(now)) :
                        announced[c].last # "problem"
               PROVE  lastWord[m].type # "problem" /\ lastWord[m].rollup # "problem"
    BY DEF EndIsTold
  <2>1. \A c \in Counted(m) : announced[c].last # "problem"
    BY PlainCounts DEF IInv, TypeOK
  <2>2. \A c : ~InQueue(c) /\ ~InHand(c)
    BY DEF Idle, InQueue, InHand, Deciding
  <2>3. ~InTrouble(m)
    BY <2>1, <2>2 DEF AlertInv, EndInv, Failing, Pending
  <2>4. Told(m, lastWord[m])
    BY DEF Idle, AlertInv, OutboxInv, WordInv
  <2>5. lastWord[m].rollup # "problem"
    BY <2>3, <2>4 DEF InTrouble, Told
  <2>6. lastWord[m].type # "problem"
    <3>1. lastState[m] \in LastState
      <4>1. lastWord[m] \in Alerts
        BY DEF IInv, TypeOK
      <4> QED BY <2>4, <4>1 DEF Told, LastState, Alerts, IsEnd
    <3>2. lastState[m].ok
      BY <2>3, <3>1, NotifierAssumption DEF InTrouble
    <3>3. lastState[m].ok
            = (lastWord[m].type \in {"acknowledgement", "recovery"})
      BY <2>4 DEF Told, IsEnd
    <3> QED BY <3>2, <3>3
  <2> QED BY <2>5, <2>6
<1> QED BY <1>1, AlertsInductive, PTL

(* A medium is in its summaries exactly while as many of its checks as the     *)
(* threshold are alerting (Notifier#alert_rollup, Medium#alerting_checks).     *)
THEOREM SummariesHold == Spec => []SummariesAreCurrent
<1>1. IInv /\ AlertInv => SummariesAreCurrent
  <2> SUFFICES ASSUME IInv, AlertInv, Idle, lost = {}, NEW m \in Media, Plain(m),
                      m \notin outdated, Threshold[m] > 0
               PROVE  (lastRollup[m] = "problem")
                        = (Cardinality(AlertingChecks(m, alertable)) >= Threshold[m])
    BY DEF SummariesAreCurrent
  <2>1. AlertingChecks(m, alertable) = Counts(m)
    BY PlainCounts DEF IInv, TypeOK, AlertingChecks, Counts
  <2>2. \A c : ~Pending(c)
    BY DEF Idle, InQueue, InHand, Deciding, Pending
  <2> QED BY <2>1, <2>2 DEF AlertInv, SummaryInv, Current
<1> QED BY <1>1, AlertsInductive, PTL

(* Between two problems of one condition that a medium is told of, outside     *)
(* its summaries, lies its interval.                                           *)
THEOREM IntervalsAreKept == Spec => RepeatsKeepInterval
<1>1. IInv /\ AlertInv /\ [Next]_vars =>
        [\A m \in Media :
           /\ m \notin cut
           /\ lastWord'[m] # lastWord[m] /\ lastWord[m] # Nil
           /\ lastWord[m].type = "problem" /\ lastWord'[m].type = "problem"
           /\ lastWord[m].condition = lastWord'[m].condition
           /\ lastWord[m].rollup = Nil /\ lastWord'[m].rollup = Nil
           => lastWord'[m].at - lastWord[m].at > Interval[m]]_vars
  <2> SUFFICES ASSUME IInv, AlertInv, [Next]_vars, NEW m \in Media \ cut,
                      lastWord'[m] # lastWord[m], lastWord[m] # Nil,
                      lastWord[m].type = "problem", lastWord'[m].type = "problem",
                      lastWord[m].condition = lastWord'[m].condition,
                      lastWord[m].rollup = Nil, lastWord'[m].rollup = Nil
               PROVE  lastWord'[m].at - lastWord[m].at > Interval[m]
    OBVIOUS
  <2>1. PICK a \in outbox : PushAlert(a) /\ a.type # "test"
    BY DEF Next, Tick, Take, AlertsFor, Destroy, Crash, PushAlert, Aside,
           StartScheduled, EndScheduled, StartUnscheduled, EndUnscheduled,
           AnnounceProblem, AnnounceRecovery, AnnounceAcknowledgement,
           AnnounceTest, Queue, vars, historyVars
  <2>2. a.medium = m /\ lastWord'[m] = a
    BY <2>1 DEF PushAlert, IInv, TypeOK, Alerts
  <2>3. Apart(m, lastWord[m], a)
    BY <2>1, <2>2 DEF AlertInv, WordInv, For
  <2> QED BY <2>2, <2>3 DEF Apart
<1> QED BY <1>1, AlertsInductive, PTL DEF Spec, RepeatsKeepInterval

=============================================================================
