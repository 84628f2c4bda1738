-------------------------- MODULE EventQueueProofs --------------------------
(***************************************************************************)
(* What EventQueue promises for any number of senders, processors, events   *)
(* and failures.  The argument is the one of RecordQueueProofs, with the    *)
(* archive and the rejects beside it: every event that was taken is in a    *)
(* hand or done with, and with archive_events it is in one of the lists.    *)
(***************************************************************************)
EXTENDS EventQueue, SequenceFacts, TLAPS

USE EventQueueAssumption

\* A processor holds an event from taking it until it is done with it.
HandInv ==
  \A c \in Processors :
    (hand[c] # Nothing) <=> (phase[c] \in {"parsing", "processing"})

\* taken and queue make up sent, and no event was sent twice.
OrderInv == Split(sent, taken, queue)

\* What is in a hand was taken, and no two hands hold the same event.
HoldInv ==
  \A c \in Processors : hand[c] # Nothing =>
    /\ hand[c] \in Range(taken)
    /\ \A d \in Processors : hand[d] = hand[c] => d = c

\* Nothing in a hand is done with; only valid events are processed, only
\* invalid ones rejected.
DoneInv ==
  /\ processed \subseteq Range(taken) \ Invalid
  /\ rejects \subseteq Invalid
  /\ \A c \in Processors : hand[c] \notin processed \cup rejects
  /\ \A c \in Processors : phase[c] = "processing" => hand[c] \notin Invalid

\* The lists beside the queue hold taken events only, and with archive_events
\* all of them.
ArchiveInv ==
  /\ archive \cup rejects \cup expired \subseteq Range(taken)
  /\ archive \cap rejects = {} /\ archive \cap expired = {}
  /\ ArchiveEvents => Range(taken) = archive \cup rejects \cup expired

IInv == /\ TypeOK /\ HandInv /\ OrderInv /\ HoldInv /\ DoneInv /\ ArchiveInv

-----------------------------------------------------------------------------
(* Type correctness *)

LEMMA InitTypeOK == Init => TypeOK
  BY DEF Init, TypeOK, Phases

LEMMA NextTypeOK == TypeOK /\ HandInv /\ [Next]_vars => TypeOK'
<1> SUFFICES ASSUME TypeOK, HandInv, [Next]_vars
             PROVE  TypeOK'
  OBVIOUS
<1> USE DEF TypeOK, Phases, stores, senderVars
<1>1. ASSUME NEW e \in Events, Enqueue(e)
      PROVE  queue' \in Seq(Events) /\ sent' \in Seq(Events)
  BY <1>1, AppendFacts DEF Enqueue
<1>2. ASSUME NEW e \in Events, Push(e)
      PROVE  TypeOK'
  BY <1>1, <1>2 DEF Push
<1>3. ASSUME NEW g \in GoSenders, NEW e \in Events, SendEvent(g, e)
      PROVE  TypeOK'
  BY <1>1, <1>3 DEF SendEvent
<1>4. ASSUME NEW g \in GoSenders, SendToken(g) \/ SendFails(g)
      PROVE  TypeOK'
  <2>1. CASE SendToken(g)
    BY <2>1 DEF SendToken
  <2>2. CASE SendFails(g)
    BY <2>2 DEF SendFails
  <2> QED
    BY <1>4, <2>1, <2>2
<1>5. ASSUME NEW c \in Processors, Take(c)
      PROVE  TypeOK'
  <2>1. Head(queue) \in Events /\ Tail(queue) \in Seq(Events)
    BY <1>5, PopFacts DEF Take
  <2>2. taken' \in Seq(Events)
    BY <1>5, <2>1, AppendFacts DEF Take
  <2> QED
    BY <1>5, <2>1, <2>2 DEF Take
<1>6. ASSUME NEW c \in Processors, Reject(c) \/ Processed(c)
      PROVE  TypeOK'
  <2>1. CASE Reject(c)
    BY <2>1 DEF Reject
  <2>2. CASE Processed(c)
    <3>1. hand[c] \in Events
      BY <2>2 DEF Processed, HandInv
    <3> QED
      BY <2>2, <3>1 DEF Processed
  <2> QED
    BY <1>6, <2>1, <2>2
<1>7. ASSUME NEW c \in Processors, Accept(c) \/ Drained(c)
      PROVE  TypeOK'
  BY <1>7 DEF Accept, Drained
<1>8. ASSUME NEW c \in Processors, Wake(c) \/ Stop(c) \/ Crash(c) \/ Start(c)
      PROVE  TypeOK'
  <2>1. actions' \in Nat /\ failures' \in Nat
    BY <1>8 DEF Wake, Stop, Crash, Start
  <2> QED
    BY <1>8, <2>1 DEF Wake, Stop, Crash, Start
<1>9. CASE Expire
  BY <1>9 DEF Expire
<1>10. CASE UNCHANGED vars
  BY <1>10 DEF vars
<1> QED
  BY <1>2, <1>3, <1>4, <1>5, <1>6, <1>7, <1>8, <1>9, <1>10 DEF Next, Run

-----------------------------------------------------------------------------
(* The inductive invariant *)

LEMMA InitIInv == Init => IInv
<1> SUFFICES ASSUME Init PROVE IInv
  OBVIOUS
<1>1. Range(taken) = {}
  BY DEF Init, Range
<1>2. OrderInv
  BY DEF Init, OrderInv, Split
<1>3. HandInv /\ HoldInv /\ DoneInv /\ ArchiveInv
  BY <1>1 DEF Init, HandInv, HoldInv, DoneInv, ArchiveInv
<1> QED
  BY <1>2, <1>3, InitTypeOK DEF IInv

\* The steps of the senders.
LEMMA SendStep ==
  ASSUME IInv, TypeOK', NEW e \in Events, Enqueue(e),
         UNCHANGED <<stores, phase, hand, taken>>
  PROVE  IInv'
<1> USE DEF IInv, stores
<1>1. OrderInv'
  BY SplitSend DEF Enqueue, OrderInv, TypeOK
<1>2. Range(taken') = Range(taken)
  BY DEF Range
<1>3. HandInv' /\ HoldInv' /\ DoneInv' /\ ArchiveInv'
  BY <1>2 DEF HandInv, HoldInv, DoneInv, ArchiveInv
<1> QED
  BY <1>1, <1>3

\* The steps that leave the events where they are.
LEMMA QuietStep ==
  ASSUME IInv, TypeOK', HandInv',
         UNCHANGED <<queue, sent, taken, hand, stores>>,
         \A c \in Processors : phase'[c] = "processing" =>
           phase[c] = "processing" \/ hand[c] \notin Invalid
  PROVE  IInv'
<1> USE DEF IInv, stores
<1>1. Range(taken') = Range(taken)
  BY DEF Range
<1>2. OrderInv'
  BY DEF OrderInv
<1>3. HoldInv' /\ DoneInv' /\ ArchiveInv'
  BY <1>1 DEF HoldInv, DoneInv, ArchiveInv
<1> QED
  BY <1>2, <1>3

\* A processor lets go of what it holds.
LEMMA ReleaseStep ==
  ASSUME IInv, TypeOK', NEW c \in Processors,
         UNCHANGED <<queue, sent, taken>>,
         hand' = [hand EXCEPT ![c] = Nothing],
         NEW ph \in {"draining", "stopped"},
         phase' = [phase EXCEPT ![c] = ph],
         processed' \subseteq processed \cup ({hand[c]} \ Invalid),
         rejects' \subseteq rejects \cup ({hand[c]} \cap Invalid),
         processed' = processed \/ hand[c] # Nothing,
         ArchiveInv'
  PROVE  IInv'
<1> USE DEF IInv, TypeOK
<1>1. Range(taken') = Range(taken)
  BY DEF Range
<1>2. OrderInv'
  BY DEF OrderInv
<1>3. HandInv'
  BY DEF HandInv
<1>4. HoldInv'
  BY <1>1 DEF HoldInv
<1>5. DoneInv'
  <2>1. processed' \subseteq Range(taken') \ Invalid
    BY <1>1 DEF DoneInv, HoldInv
  <2>2. rejects' \subseteq Invalid
    BY DEF DoneInv
  <2>3. Nothing \notin processed' /\ Nothing \notin rejects'
    BY <1>1
  <2>4. ASSUME NEW d \in Processors
        PROVE  hand'[d] \notin processed' \cup rejects'
    <3>1. CASE hand'[d] = Nothing
      BY <2>3, <3>1
    <3>2. CASE hand'[d] # Nothing
      <4>1. d # c /\ hand'[d] = hand[d]
        BY <3>2
      <4>2. hand[d] # hand[c]
        BY <3>2, <4>1 DEF HoldInv
      <4> QED
        BY <4>1, <4>2 DEF DoneInv
    <3> QED
      BY <3>1, <3>2
  <2>5. \A d \in Processors : phase'[d] = "processing" => hand'[d] \notin Invalid
    BY DEF DoneInv
  <2> QED
    BY <2>1, <2>2, <2>4, <2>5 DEF DoneInv
<1> QED
  BY <1>2, <1>3, <1>4, <1>5

LEMMA NextIInv == IInv /\ [Next]_vars => IInv'
<1> SUFFICES ASSUME IInv, [Next]_vars
             PROVE  IInv'
  OBVIOUS
<1> USE DEF IInv, stores, senderVars
<1>0. TypeOK'
  BY NextTypeOK
<1>1. ASSUME NEW e \in Events, Push(e)
      PROVE  IInv'
  BY <1>0, <1>1, SendStep DEF Push
<1>2. ASSUME NEW g \in GoSenders, NEW e \in Events, SendEvent(g, e)
      PROVE  IInv'
  BY <1>0, <1>2, SendStep DEF SendEvent
<1>3. ASSUME NEW g \in GoSenders, SendToken(g) \/ SendFails(g)
      PROVE  IInv'
  BY <1>0, <1>3, QuietStep DEF SendToken, SendFails, HandInv
<1>4. ASSUME NEW c \in Processors, Take(c)
      PROVE  IInv'
  <2> DEFINE e == Head(queue)
  <2> USE <1>4 DEF Take
  <2>1. e \in Events /\ e # Nothing
    BY PopFacts DEF TypeOK
  <2>2. Range(taken') = Range(taken) \cup {e}
    BY <2>1, AppendFacts DEF TypeOK
  <2>3. OrderInv'
    BY SplitTake DEF OrderInv, TypeOK
  <2>4. e \notin Range(taken)
    BY SplitTake DEF OrderInv, TypeOK
  <2>5. HandInv'
    BY <2>1 DEF HandInv, TypeOK
  <2>6. HoldInv'
    BY <2>2, <2>4 DEF HoldInv, TypeOK
  <2>7. DoneInv'
    BY <2>2, <2>4 DEF DoneInv, ArchiveInv, TypeOK
  <2>8. ArchiveInv'
    BY <2>2, <2>4 DEF ArchiveInv
  <2> QED
    BY <1>0, <2>3, <2>5, <2>6, <2>7, <2>8
<1>5. ASSUME NEW c \in Processors, Reject(c)
      PROVE  IInv'
  <2>1. hand[c] \in Range(taken)
    BY <1>5 DEF Reject, HandInv, HoldInv
  <2>2. Range(taken') = Range(taken)
    BY <1>5 DEF Reject, Range
  <2>3. ArchiveInv'
    BY <1>5, <2>1, <2>2 DEF Reject, ArchiveInv
  <2> QED
    BY <1>0, <1>5, <2>3, ReleaseStep DEF Reject
<1>6. ASSUME NEW c \in Processors, Processed(c)
      PROVE  IInv'
  <2>1. hand[c] # Nothing /\ hand[c] \notin Invalid
    BY <1>6 DEF Processed, HandInv, DoneInv
  <2>2. ArchiveInv'
    BY <1>6 DEF Processed, ArchiveInv, Range
  <2> QED
    BY <1>0, <1>6, <2>1, <2>2, ReleaseStep DEF Processed
<1>7. ASSUME NEW c \in Processors, Crash(c)
      PROVE  IInv'
  <2>1. ArchiveInv'
    BY <1>7 DEF Crash, ArchiveInv, Range
  <2> QED
    BY <1>0, <1>7, <2>1, ReleaseStep DEF Crash
<1>8. ASSUME NEW c \in Processors,
             Accept(c) \/ Drained(c) \/ Wake(c) \/ Stop(c) \/ Start(c)
      PROVE  IInv'
  <2>1. HandInv'
    BY <1>8 DEF Accept, Drained, Wake, Stop, Start, HandInv, TypeOK
  <2>2. \A d \in Processors : phase'[d] = "processing" =>
          phase[d] = "processing" \/ hand[d] \notin Invalid
    BY <1>8 DEF Accept, Drained, Wake, Stop, Start, TypeOK
  <2>3. UNCHANGED <<queue, sent, taken, hand, stores>>
    BY <1>8 DEF Accept, Drained, Wake, Stop, Start
  <2> QED
    BY <1>0, <2>1, <2>2, <2>3, QuietStep
<1>9. CASE Expire
  <2>1. Range(taken') = Range(taken)
    BY <1>9 DEF Expire, Range
  <2>2. OrderInv' /\ HandInv' /\ HoldInv' /\ DoneInv' /\ ArchiveInv'
    BY <1>9, <2>1
    DEF Expire, OrderInv, HandInv, HoldInv, DoneInv, ArchiveInv
  <2> QED
    BY <1>0, <2>2
<1>10. CASE UNCHANGED vars
  BY <1>0, <1>10, QuietStep DEF vars, HandInv
<1> QED
  BY <1>1, <1>2, <1>3, <1>4, <1>5, <1>6, <1>7, <1>8, <1>9, <1>10
  DEF Next, Run

THEOREM Inductive == Spec => []IInv
  BY InitIInv, NextIInv, PTL DEF Spec

\* Every reachable state is well typed.
THEOREM TypeCorrect == Spec => []TypeOK
<1>1. IInv => TypeOK
  BY DEF IInv
<1> QED
  BY <1>1, Inductive, PTL

-----------------------------------------------------------------------------
(* What the invariant gives *)

LEMMA IInvArchive == IInv => ArchiveLosesNothing
<1> SUFFICES ASSUME IInv, ArchiveEvents
             PROVE  ArchiveLosesNothing
  BY DEF ArchiveLosesNothing
<1> USE DEF IInv
<1>1. /\ Range(sent) = Range(taken) \cup Range(queue)
      /\ Range(taken) \cap Range(queue) = {}
  BY SplitRanges DEF OrderInv, TypeOK
<1>2. Range(taken) = archive \cup rejects \cup expired
  BY DEF ArchiveInv
<1>3. processed \cap rejects = {}
  BY DEF DoneInv
<1> QED
  BY <1>1, <1>2, <1>3 DEF ArchiveLosesNothing, ArchiveInv

\* With archive_events every event ever sent can be found in one of the
\* lists, whatever crashes at whatever moment.
THEOREM ArchiveComplete == Spec => []ArchiveLosesNothing
  BY Inductive, IInvArchive, PTL

LEMMA StepProcessedOnce ==
  ASSUME IInv, NEW c \in Processors, phase[c] = "processing"
  PROVE  /\ hand[c] \notin processed
         /\ \A d \in Processors \ {c} : hand[d] # hand[c]
  BY DEF IInv, HandInv, HoldInv, DoneInv

\* However many processors share the queue, no event is processed twice.
THEOREM EventsProcessedOnce == Spec => ProcessedOnce
<1>1. IInv => (\A c \in Processors :
                 phase[c] = "processing" /\ phase'[c] = "draining"
                   => /\ hand[c] \notin processed
                      /\ \A d \in Processors \ {c} : hand[d] # hand[c])
  BY StepProcessedOnce
<1> QED
  BY <1>1, Inductive, PTL DEF ProcessedOnce

LEMMA StepExits ==
  ASSUME IInv, [Next]_vars, NEW c \in Processors,
         phase[c] # "finished", phase'[c] = "finished"
  PROVE  Range(sent) = Range(taken)
<1> USE DEF IInv
<1>1. Drained(c)
  BY DEF Next, Run, Push, SendEvent, SendToken, SendFails, Take, Reject,
         Accept, Processed, Drained, Wake, Stop, Crash, Start, Expire, vars,
         TypeOK
<1>2. Range(queue) = {}
  BY <1>1 DEF Drained, Range
<1>3. Range(sent) = Range(taken) \cup Range(queue)
  BY SplitRanges DEF OrderInv, TypeOK
<1> QED
  BY <1>2, <1>3

\* exit_on_queue_empty never ends a processor while events are queued.
THEOREM ExitsComplete == Spec => ExitsWhenAllTaken
<1>1. IInv /\ [Next]_vars =>
        (\A c \in Processors :
           phase[c] # "finished" /\ phase'[c] = "finished"
             => Range(sent) = Range(taken))
  BY StepExits
<1> QED
  BY <1>1, Inductive, PTL DEF ExitsWhenAllTaken, Spec

-----------------------------------------------------------------------------
(* No lost wakeup *)

LEMMA NextNoLostWakeup ==
  TypeOK /\ NoLostWakeup /\ [Next]_vars => NoLostWakeup'
<1> SUFFICES ASSUME TypeOK, NoLostWakeup, [Next]_vars
             PROVE  NoLostWakeup'
  OBVIOUS
<1> USE DEF TypeOK, NoLostWakeup, stores, senderVars
<1>1. ASSUME NEW e \in Events, Push(e)
      PROVE  NoLostWakeup'
  BY <1>1 DEF Push
<1>2. ASSUME NEW g \in GoSenders, NEW e \in Events, SendEvent(g, e)
      PROVE  NoLostWakeup'
  <2>1. sending'[g] # Nothing
    BY <1>2 DEF SendEvent
  <2> QED
    BY <2>1
<1>3. ASSUME NEW g \in GoSenders, SendToken(g) \/ SendFails(g)
      PROVE  NoLostWakeup'
  <2>1. actions' > 0 \/ unannounced' > 0
    BY <1>3 DEF SendToken, SendFails
  <2> QED
    BY <2>1
<1>4. ASSUME NEW c \in Processors, Drained(c)
      PROVE  NoLostWakeup'
  BY <1>4 DEF Drained
<1>5. ASSUME NEW c \in Processors,
             Take(c) \/ Reject(c) \/ Accept(c) \/ Processed(c) \/ Wake(c)
               \/ Stop(c) \/ Crash(c) \/ Start(c)
      PROVE  NoLostWakeup'
  <2>1. phase'[c] # "waiting"
    BY <1>5 DEF Take, Reject, Accept, Processed, Wake, Stop, Crash, Start
  <2> QED
    BY <2>1
<1>6. CASE Expire \/ UNCHANGED vars
  BY <1>6 DEF Expire, vars
<1> QED
  BY <1>1, <1>2, <1>3, <1>4, <1>5, <1>6 DEF Next, Run

\* Whatever the number of senders and processors: events are never queued
\* with every processor blocked and no token there or to come, but for those
\* of a Go sender that failed between its two pushes.
THEOREM WakeupsKept == Spec => []NoLostWakeup
<1>1. Init => NoLostWakeup
  BY DEF Init, NoLostWakeup
<1> QED
  BY <1>1, TypeCorrect, NextNoLostWakeup, PTL DEF Spec

-----------------------------------------------------------------------------
(* Without failures nothing is lost *)

LEMMA NextLostByFailureOnly ==
  IInv /\ LostByFailureOnly /\ [Next]_vars => LostByFailureOnly'
<1> DEFINE Held == {hand[c] : c \in Processors} \ {Nothing}
           Places == Range(queue) \cup processed \cup rejects \cup Held
<1> SUFFICES ASSUME IInv, LostByFailureOnly, [Next]_vars, failures' = 0
             PROVE  Range(sent') = Places'
  BY DEF LostByFailureOnly
<1> USE DEF IInv, TypeOK, stores, senderVars
<1>0. failures = 0 => Range(sent) = Places
  BY DEF LostByFailureOnly
<1> HIDE DEF Places
<1>1. ASSUME NEW e \in Events, Enqueue(e), UNCHANGED <<stores, hand, failures>>
      PROVE  Range(sent') = Places'
  <2>1. /\ Range(sent') = Range(sent) \cup {e}
        /\ Range(queue') = Range(queue) \cup {e}
    BY <1>1, AppendFacts DEF Enqueue
  <2> QED
    BY <1>0, <1>1, <2>1 DEF Places
<1>2. ASSUME NEW e \in Events, Push(e)
      PROVE  Range(sent') = Places'
  BY <1>1, <1>2 DEF Push
<1>3. ASSUME NEW g \in GoSenders, NEW e \in Events, SendEvent(g, e)
      PROVE  Range(sent') = Places'
  BY <1>1, <1>3 DEF SendEvent
<1>4. ASSUME NEW c \in Processors, Take(c)
      PROVE  Range(sent') = Places'
  <2>1. Range(queue) = {Head(queue)} \cup Range(queue')
    BY <1>4, TailAddsNothing DEF Take
  <2>2. hand[c] = Nothing
    BY <1>4 DEF Take, HandInv
  <2>3. Head(queue) \in Events /\ Head(queue) # Nothing
    BY <1>4, PopFacts DEF Take
  <2>4. Held' = Held \cup {Head(queue)}
    BY <1>4, <2>2, <2>3 DEF Take
  <2>5. /\ UNCHANGED <<processed, rejects, failures>>
        /\ Range(sent') = Range(sent)
    BY <1>4 DEF Take, Range
  <2> HIDE DEF Held
  <2>6. Places' = Places
    BY <2>1, <2>4, <2>5 DEF Places
  <2> QED
    BY <1>0, <2>5, <2>6
<1>5. ASSUME NEW c \in Processors, Reject(c) \/ Processed(c)
      PROVE  Range(sent') = Places'
  <2>1. /\ hand[c] # Nothing
        /\ \A d \in Processors : hand[d] = hand[c] => d = c
    BY <1>5 DEF Reject, Processed, HandInv, HoldInv
  <2>2. hand' = [hand EXCEPT ![c] = Nothing]
    BY <1>5 DEF Reject, Processed
  <2>3. Held' = Held \ {hand[c]}
    BY <2>1, <2>2
  <2>4. hand[c] \in Held
    BY <2>1
  <2>5. /\ failures' = failures
        /\ Range(sent') = Range(sent) /\ Range(queue') = Range(queue)
    BY <1>5 DEF Reject, Processed, Range
  <2>6. processed' \cup rejects' = processed \cup rejects \cup {hand[c]}
    BY <1>5 DEF Reject, Processed
  <2> HIDE DEF Held
  <2>7. Places' = Places
    BY <2>3, <2>4, <2>5, <2>6 DEF Places
  <2> QED
    BY <1>0, <2>5, <2>7
<1>6. ASSUME UNCHANGED <<sent, queue, processed, rejects, hand, failures>>
      PROVE  Range(sent') = Places'
  <2>1. Range(sent') = Range(sent) /\ Range(queue') = Range(queue)
    BY <1>6 DEF Range
  <2>2. Places' = Places
    BY <1>6, <2>1 DEF Places
  <2> QED
    BY <1>0, <1>6, <2>1, <2>2
<1>7. ASSUME NEW c \in Processors,
             Accept(c) \/ Drained(c) \/ Wake(c) \/ Start(c)
      PROVE  UNCHANGED <<sent, queue, processed, rejects, hand, failures>>
  BY <1>7 DEF Accept, Drained, Wake, Start
<1>8. ASSUME NEW c \in Processors, Stop(c) \/ Crash(c)
      PROVE  FALSE
  BY <1>8 DEF Stop, Crash
<1>9. ASSUME NEW g \in GoSenders, SendToken(g) \/ SendFails(g)
      PROVE  Range(sent') = Places'
  BY <1>6, <1>9 DEF SendToken, SendFails
<1>10. CASE Expire \/ UNCHANGED vars
  BY <1>6, <1>10 DEF Expire, vars
<1> QED
  BY <1>2, <1>3, <1>4, <1>5, <1>6, <1>7, <1>8, <1>9, <1>10 DEF Next, Run

\* Archive or not, an event that is neither queued, in hand, processed nor
\* rejected was lost by a crash.
THEOREM OnlyFailuresLose == Spec => []LostByFailureOnly
<1>1. Init => LostByFailureOnly
  BY DEF Init, LostByFailureOnly, Range
<1> QED
  BY <1>1, Inductive, NextLostByFailureOnly, PTL DEF Spec

-----------------------------------------------------------------------------
(* The queue implements Handover *)

LEMMA InitAbstract == Init => Abstract!Init
  BY DEF Init, Abstract!Init, Range

LEMMA NextAbstract == IInv /\ [Next]_vars => [Abstract!Next]_(Abstract!vars)
<1> SUFFICES ASSUME IInv, [Next]_vars
             PROVE  [Abstract!Next]_(Abstract!vars)
  OBVIOUS
<1> DEFINE settled == Range(taken) \ {hand[c] : c \in Processors}
<1> USE DEF IInv, stores, senderVars
<1>0. Nothing \notin Range(taken)
  BY RangeFacts DEF TypeOK
<1>1. ASSUME NEW e \in Events, Enqueue(e), UNCHANGED <<taken, hand>>
      PROVE  [Abstract!Next]_(Abstract!vars)
  <2>1. settled' = settled /\ taken' = taken
    BY <1>1 DEF Range
  <2>2. Abstract!Send(e)
    BY <1>1, <2>1 DEF Enqueue, Abstract!Send, Abstract!Range, Range
  <2> QED
    BY <2>2 DEF Abstract!Next
<1>2. ASSUME NEW e \in Events, Push(e) \/ \E g \in GoSenders : SendEvent(g, e)
      PROVE  [Abstract!Next]_(Abstract!vars)
  BY <1>1, <1>2 DEF Push, SendEvent
<1>3. ASSUME NEW c \in Processors, Take(c)
      PROVE  [Abstract!Next]_(Abstract!vars)
  <2>1. Head(queue) \in Events
    BY <1>3, PopFacts DEF Take, TypeOK
  <2>2. /\ Head(queue) = sent[Len(taken) + 1]
        /\ Len(taken) < Len(sent)
        /\ Head(queue) \notin Range(taken)
    BY <1>3, SplitTake DEF Take, OrderInv, TypeOK
  <2>3. Range(taken') = Range(taken) \cup {Head(queue)}
    BY <1>3, <2>1, AppendFacts DEF Take, TypeOK
  <2>4. hand[c] = Nothing /\ hand' = [hand EXCEPT ![c] = Head(queue)]
    BY <1>3 DEF Take, HandInv
  <2>5. settled' = settled
    BY <1>0, <2>2, <2>3, <2>4 DEF TypeOK
  <2>6. Abstract!Take
    BY <1>3, <2>2, <2>5 DEF Take, Abstract!Take
  <2> QED
    BY <2>6 DEF Abstract!Next
<1>4. ASSUME NEW c \in Processors, UNCHANGED <<sent, taken>>,
             hand' = [hand EXCEPT ![c] = Nothing]
      PROVE  [Abstract!Next]_(Abstract!vars)
  <2>1. Range(taken') = Range(taken)
    BY <1>4 DEF Range
  <2>2. CASE hand[c] = Nothing
    <3>1. hand' = hand
      BY <1>4, <2>2 DEF TypeOK
    <3> QED
      BY <1>4, <2>1, <3>1 DEF Abstract!vars
  <2>3. CASE hand[c] # Nothing
    <3>1. /\ hand[c] \in Events
          /\ hand[c] \in Range(taken)
          /\ \A d \in Processors : hand[d] = hand[c] => d = c
      BY <2>3 DEF TypeOK, HoldInv
    <3>2. settled' = settled \cup {hand[c]}
      BY <1>0, <1>4, <2>1, <3>1 DEF TypeOK
    <3>3. Abstract!Range(taken) = Range(taken)
      BY DEF Abstract!Range, Range
    <3>4. hand[c] \in Events /\ hand[c] \in Range(taken) \ settled
      BY <3>1
    <3>5. \E e \in Events : Abstract!Settle(e)
      BY <1>4, <3>2, <3>3, <3>4 DEF Abstract!Settle
    <3> QED
      BY <3>5 DEF Abstract!Next
  <2> QED
    BY <2>2, <2>3
<1>5. ASSUME NEW c \in Processors, Reject(c) \/ Processed(c) \/ Crash(c)
      PROVE  [Abstract!Next]_(Abstract!vars)
  BY <1>4, <1>5 DEF Reject, Processed, Crash
<1>6. ASSUME UNCHANGED <<sent, taken, hand>>
      PROVE  [Abstract!Next]_(Abstract!vars)
  BY <1>6 DEF Abstract!vars, Range
<1>7. ASSUME NEW c \in Processors,
             Accept(c) \/ Drained(c) \/ Wake(c) \/ Stop(c) \/ Start(c)
      PROVE  UNCHANGED <<sent, taken, hand>>
  BY <1>7 DEF Accept, Drained, Wake, Stop, Start
<1>8. ASSUME NEW g \in GoSenders, SendToken(g) \/ SendFails(g)
      PROVE  UNCHANGED <<sent, taken, hand>>
  BY <1>8 DEF SendToken, SendFails
<1>9. CASE Expire \/ UNCHANGED vars
  BY <1>6, <1>9 DEF Expire, vars
<1> QED
  BY <1>2, <1>3, <1>5, <1>6, <1>7, <1>8, <1>9 DEF Next, Run

\* Every behaviour of the event queue is one of Handover: events are taken at
\* most once and in the order sent, whoever takes them.
THEOREM ImplementsHandover == Spec => TakenInOrder
  BY InitAbstract, NextAbstract, Inductive, PTL
  DEF Spec, TakenInOrder, Abstract!Spec

=============================================================================
