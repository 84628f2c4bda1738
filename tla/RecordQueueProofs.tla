-------------------------- MODULE RecordQueueProofs --------------------------
(***************************************************************************)
(* What RecordQueue promises for any number of producers, consumers,        *)
(* records and failures.  The inductive invariant says how the Redis list,  *)
(* the two histories and the consumers' hands fit together: what was popped *)
(* and what is queued are, end to end, what was pushed.                     *)
(***************************************************************************)
EXTENDS RecordQueue, SequenceFacts, TLAPS

USE RecordQueueAssumption

\* A consumer holds an id exactly while it works on one.
HandInv ==
  \A c \in Consumers : (hand[c] # Nothing) <=> (phase[c] \in Busy)

\* popped and queue make up pushed, and no id was pushed twice.
OrderInv == Split(pushed, popped, queue)

\* A record being produced was not pushed before, and by nobody else.
ProducingInv ==
  \A p \in Producers : producing[p] # Nothing =>
    /\ producing[p] \notin Range(pushed)
    /\ \A q \in Producers : producing[q] = producing[p] => q = p

\* What is in a hand was popped, and no two hands hold the same id.
HoldInv ==
  \A c \in Consumers : hand[c] # Nothing =>
    /\ hand[c] \in Range(popped)
    /\ \A d \in Consumers : hand[d] = hand[c] => d = c

\* Only popped ids were yielded; an id just found was not.
YieldInv ==
  /\ yielded \subseteq Range(popped)
  /\ \A c \in Consumers : phase[c] = "found" => hand[c] \notin yielded

IInv ==
  /\ TypeOK /\ HandInv /\ OrderInv /\ ProducingInv /\ HoldInv /\ YieldInv

-----------------------------------------------------------------------------
(* Type correctness *)

LEMMA InitTypeOK == Init => TypeOK
  BY DEF Init, TypeOK, Phases

LEMMA NextTypeOK == TypeOK /\ [Next]_vars => TypeOK'
<1> SUFFICES ASSUME TypeOK, [Next]_vars
             PROVE  TypeOK'
  OBVIOUS
<1> USE DEF TypeOK, Phases, Busy, consumerVars, history
<1>1. ASSUME NEW p \in Producers, NEW o \in Objects, Save(p, o)
      PROVE  TypeOK'
  BY <1>1 DEF Save
<1>2. ASSUME NEW p \in Producers, Push(p)
      PROVE  TypeOK'
  <2>1. producing[p] \in Objects
    BY <1>2 DEF Push
  <2>2. queue' \in Seq(Objects) /\ pushed' \in Seq(Objects)
    BY <1>2, <2>1, AppendFacts DEF Push
  <2> QED
    BY <1>2, <2>2 DEF Push
<1>3. ASSUME NEW p \in Producers, ProducerCrash(p)
      PROVE  TypeOK'
  BY <1>3 DEF ProducerCrash
<1>4. ASSUME NEW c \in Consumers, Pop(c)
      PROVE  TypeOK'
  <2>1. Head(queue) \in Objects /\ Tail(queue) \in Seq(Objects)
    BY <1>4, PopFacts DEF Pop
  <2>2. popped' \in Seq(Objects)
    BY <1>4, <2>1, AppendFacts DEF Pop
  <2> QED
    BY <1>4, <2>1, <2>2 DEF Pop
<1>5. ASSUME NEW c \in Consumers,
             Drained(c) \/ Skip(c) \/ Handle(c) \/ Destroy(c)
      PROVE  TypeOK'
  BY <1>5 DEF Drained, Skip, Handle, Destroy
<1>6. ASSUME NEW c \in Consumers, Yield(c)
      PROVE  TypeOK'
  <2>1. hand[c] \in Objects
    BY <1>6 DEF Yield
  <2> QED
    BY <1>6, <2>1 DEF Yield
<1>7. ASSUME NEW c \in Consumers, Wake(c) \/ Stop(c) \/ Crash(c) \/ Start(c)
      PROVE  TypeOK'
  <2>1. actions' \in Nat
    BY <1>7 DEF Wake, Stop, Crash, Start
  <2>2. failures' \in Nat
    BY <1>7 DEF Wake, Stop, Crash, Start
  <2> QED
    BY <1>7, <2>1, <2>2 DEF Wake, Stop, Crash, Start
<1>8. ASSUME NEW o \in Objects, Vanish(o)
      PROVE  TypeOK'
  BY <1>8 DEF Vanish
<1>9. CASE UNCHANGED vars
  BY <1>9 DEF vars
<1> QED
  BY <1>1, <1>2, <1>3, <1>4, <1>5, <1>6, <1>7, <1>8, <1>9 DEF Next, Consume

\* Every reachable state is well typed, for all parameters.
THEOREM TypeCorrect == Spec => []TypeOK
  BY InitTypeOK, NextTypeOK, PTL DEF Spec

-----------------------------------------------------------------------------
(* No lost wakeup *)

LEMMA NextNoLostWakeup ==
  TypeOK /\ NoLostWakeup /\ [Next]_vars => NoLostWakeup'
<1> SUFFICES ASSUME TypeOK, NoLostWakeup, [Next]_vars
             PROVE  NoLostWakeup'
  OBVIOUS
<1> USE DEF TypeOK, NoLostWakeup, consumerVars, history
<1>1. ASSUME NEW p \in Producers, Push(p)
      PROVE  NoLostWakeup'
  BY <1>1 DEF Push
<1>2. ASSUME NEW c \in Consumers, Drained(c)
      PROVE  NoLostWakeup'
  BY <1>2 DEF Drained
<1>3. ASSUME NEW c \in Consumers,
             Pop(c) \/ Yield(c) \/ Skip(c) \/ Handle(c) \/ Destroy(c)
               \/ Wake(c) \/ Stop(c) \/ Crash(c) \/ Start(c)
      PROVE  NoLostWakeup'
  <2>1. phase'[c] # "waiting"
    BY <1>3
    DEF Pop, Yield, Skip, Handle, Destroy, Wake, Stop, Crash, Start
  <2> QED
    BY <2>1
<1>4. ASSUME UNCHANGED <<queue, actions, phase>>
      PROVE  NoLostWakeup'
  BY <1>4
<1>5. ASSUME NEW p \in Producers, NEW o \in Objects, Save(p, o)
      PROVE  UNCHANGED <<queue, actions, phase>>
  BY <1>5 DEF Save
<1>6. ASSUME NEW o \in Objects, Vanish(o)
      PROVE  UNCHANGED <<queue, actions, phase>>
  BY <1>6 DEF Vanish
<1>7. ASSUME NEW p \in Producers, ProducerCrash(p)
      PROVE  UNCHANGED <<queue, actions, phase>>
  BY <1>7 DEF ProducerCrash
<1>8. CASE UNCHANGED vars
  BY <1>8 DEF vars
<1> QED
  BY <1>1, <1>2, <1>3, <1>4, <1>5, <1>6, <1>7, <1>8 DEF Next, Consume

\* Whatever the number of consumers and the order of their steps, ids are
\* never queued with everybody blocked in brpop and no token left.
THEOREM WakeupsKept == Spec => []NoLostWakeup
<1>1. Init => NoLostWakeup
  BY DEF Init, NoLostWakeup
<1> QED
  BY <1>1, InitTypeOK, NextTypeOK, NextNoLostWakeup, PTL DEF Spec

-----------------------------------------------------------------------------
(* One holder, one handling *)

LEMMA InitIInv == Init => IInv
<1> SUFFICES ASSUME Init PROVE IInv
  OBVIOUS
<1>1. TypeOK
  BY InitTypeOK
<1>2. HandInv
  BY DEF Init, HandInv, Busy
<1>3. OrderInv
  BY DEF Init, OrderInv, Split
<1>4. ProducingInv /\ HoldInv /\ YieldInv
  BY DEF Init, ProducingInv, HoldInv, YieldInv
<1> QED
  BY <1>1, <1>2, <1>3, <1>4 DEF IInv

\* The steps that leave the queue, the histories and the hands as they were.
LEMMA QuietStep ==
  ASSUME IInv, TypeOK',
         UNCHANGED <<queue, pushed, popped, yielded, hand, producing>>,
         HandInv',
         \A c \in Consumers : phase'[c] = "found" => phase[c] = "found"
  PROVE  IInv'
<1> USE DEF IInv
<1>1. OrderInv'
  BY DEF OrderInv
<1>2. ProducingInv'
  BY DEF ProducingInv, Range
<1>3. HoldInv'
  BY DEF HoldInv, Range
<1>4. YieldInv'
  BY DEF YieldInv, Range
<1> QED
  BY <1>1, <1>2, <1>3, <1>4

\* A consumer that lets go of what it holds.
LEMMA ReleaseStep ==
  ASSUME IInv, TypeOK', NEW c \in Consumers,
         UNCHANGED <<queue, pushed, popped, yielded, producing>>,
         hand' = [hand EXCEPT ![c] = Nothing],
         NEW ph \in {"draining", "stopped"},
         phase' = [phase EXCEPT ![c] = ph]
  PROVE  IInv'
<1> USE DEF IInv, TypeOK
<1>1. OrderInv'
  BY DEF OrderInv
<1>2. ProducingInv'
  BY DEF ProducingInv, Range
<1>3. HoldInv'
  BY DEF HoldInv, Range
<1>4. YieldInv'
  BY DEF YieldInv, Range
<1>5. HandInv'
  BY DEF HandInv, Busy
<1> QED
  BY <1>1, <1>2, <1>3, <1>4, <1>5

LEMMA NextIInv == IInv /\ [Next]_vars => IInv'
<1> SUFFICES ASSUME IInv, [Next]_vars
             PROVE  IInv'
  OBVIOUS
<1> USE DEF IInv, consumerVars, history
<1>0. TypeOK'
  BY NextTypeOK
<1>1. ASSUME NEW p \in Producers, NEW o \in Objects, Save(p, o)
      PROVE  IInv'
  <2>1. OrderInv'
    BY <1>1 DEF Save, OrderInv
  <2>2. ProducingInv'
    BY <1>1 DEF Save, ProducingInv, Fresh, TypeOK, Range
  <2>3. HoldInv' /\ YieldInv' /\ HandInv'
    BY <1>1 DEF Save, HoldInv, YieldInv, HandInv, Range
  <2> QED
    BY <1>0, <2>1, <2>2, <2>3
<1>2. ASSUME NEW p \in Producers, Push(p)
      PROVE  IInv'
  <2> DEFINE o == producing[p]
  <2> USE <1>2 DEF Push
  <2>1. o \in Objects /\ o \notin Range(pushed)
    BY DEF TypeOK, ProducingInv
  <2>2. Range(pushed') = Range(pushed) \cup {o}
    BY <2>1, AppendFacts DEF TypeOK
  <2>6. OrderInv'
    BY <2>1, SplitSend DEF OrderInv, TypeOK
  <2>7. ProducingInv'
    BY <2>2 DEF ProducingInv, TypeOK
  <2>8. HoldInv' /\ YieldInv' /\ HandInv'
    BY DEF HoldInv, YieldInv, HandInv, Range
  <2> QED
    BY <1>0, <2>6, <2>7, <2>8
<1>3. ASSUME NEW p \in Producers, ProducerCrash(p)
      PROVE  IInv'
  <2>1. OrderInv'
    BY <1>3 DEF ProducerCrash, OrderInv
  <2>2. ProducingInv'
    BY <1>3 DEF ProducerCrash, ProducingInv, TypeOK, Range
  <2>3. HoldInv' /\ YieldInv' /\ HandInv'
    BY <1>3 DEF ProducerCrash, HoldInv, YieldInv, HandInv, Range
  <2> QED
    BY <1>0, <2>1, <2>2, <2>3
<1>4. ASSUME NEW c \in Consumers, Pop(c)
      PROVE  IInv'
  <2> DEFINE o == Head(queue)
  <2> USE <1>4 DEF Pop
  <2>1. o \in Objects
    BY PopFacts DEF TypeOK
  <2>2. Range(popped') = Range(popped) \cup {o}
    BY <2>1, AppendFacts DEF TypeOK
  <2>5. OrderInv'
    BY SplitTake DEF OrderInv, TypeOK
  <2>6. o \notin Range(popped)
    BY SplitTake DEF OrderInv, TypeOK
  <2>7. ProducingInv'
    BY DEF ProducingInv, Range
  <2>8. HoldInv'
    BY <2>2, <2>6 DEF HoldInv, TypeOK
  <2>9. YieldInv'
    BY <2>2, <2>6 DEF YieldInv, TypeOK
  <2>10. HandInv'
    BY <2>1 DEF HandInv, TypeOK, Busy
  <2> QED
    BY <1>0, <2>5, <2>7, <2>8, <2>9, <2>10
<1>5. ASSUME NEW c \in Consumers,
             Drained(c) \/ Handle(c) \/ Wake(c) \/ Stop(c) \/ Start(c)
      PROVE  IInv'
  <2>1. HandInv'
    BY <1>5 DEF Drained, Handle, Wake, Stop, Start, HandInv, Busy, TypeOK
  <2>2. /\ UNCHANGED <<queue, pushed, popped, yielded, hand, producing>>
        /\ \A d \in Consumers : phase'[d] = "found" => phase[d] = "found"
    BY <1>5 DEF Drained, Handle, Wake, Stop, Start, TypeOK
  <2> QED
    BY <1>0, <2>1, <2>2, QuietStep
<1>6. ASSUME NEW c \in Consumers, Yield(c)
      PROVE  IInv'
  <2> USE <1>6 DEF Yield
  <2>1. OrderInv' /\ ProducingInv'
    BY DEF OrderInv, ProducingInv, Range
  <2>2. HandInv'
    BY DEF HandInv, Busy, TypeOK
  <2>3. HoldInv'
    BY DEF HoldInv, Range
  <2>4. hand[c] # Nothing
    BY DEF HandInv, Busy
  <2>5. YieldInv'
    BY <2>4 DEF YieldInv, HoldInv, HandInv, Busy, TypeOK, Range
  <2> QED
    BY <1>0, <2>1, <2>2, <2>3, <2>5
<1>7. ASSUME NEW c \in Consumers, Skip(c) \/ Destroy(c)
      PROVE  IInv'
  BY <1>7, <1>0, ReleaseStep DEF Skip, Destroy
<1>8. ASSUME NEW c \in Consumers, Crash(c)
      PROVE  IInv'
  BY <1>8, <1>0, ReleaseStep DEF Crash
<1>9. ASSUME NEW o \in Objects, Vanish(o)
      PROVE  IInv'
  BY <1>9, <1>0, QuietStep DEF Vanish, HandInv
<1>10. CASE UNCHANGED vars
  BY <1>10, <1>0, QuietStep DEF vars, HandInv
<1> QED
  BY <1>1, <1>2, <1>3, <1>4, <1>5, <1>6, <1>7, <1>8, <1>9, <1>10
  DEF Next, Consume

THEOREM Inductive == Spec => []IInv
  BY InitIInv, NextIInv, PTL DEF Spec

LEMMA IInvSoleHolder == IInv => SoleHolder
<1> SUFFICES ASSUME IInv, NEW c \in Consumers, hand[c] # Nothing
             PROVE  /\ hand[c] \notin Range(queue)
                    /\ \A d \in Consumers \ {c} : hand[d] # hand[c]
  BY DEF SoleHolder
<1> USE DEF IInv
<1>1. \A d \in Consumers \ {c} : hand[d] # hand[c]
  BY DEF HoldInv
<1>2. hand[c] \notin Range(queue)
  <2>1. Range(popped) \cap Range(queue) = {}
    BY SplitRanges DEF OrderInv, TypeOK
  <2> QED
    BY <2>1 DEF HoldInv
<1> QED
  BY <1>1, <1>2

\* Two consumers never work on one id, and an id in hand is no longer queued.
THEOREM SoleHolderHolds == Spec => []SoleHolder
  BY Inductive, IInvSoleHolder, PTL

LEMMA StepNeverHandledTwice ==
  ASSUME IInv, NEW c \in Consumers, phase[c] = "found"
  PROVE  hand[c] \notin yielded
  BY DEF IInv, YieldInv

\* No record is handled twice, whatever crashes and however many consumers.
THEOREM HandledOnce == Spec => NeverHandledTwice
<1>1. IInv => (\A c \in Consumers :
                 phase[c] = "found" /\ phase'[c] = "handling"
                   => hand[c] \notin yielded)
  BY StepNeverHandledTwice
<1> QED
  BY <1>1, Inductive, PTL DEF NeverHandledTwice

-----------------------------------------------------------------------------
(* No leak without a failure *)

LEMMA NextNoLeak ==
  IInv /\ NoLeakWithoutFailure /\ [Next]_vars => NoLeakWithoutFailure'
<1> SUFFICES ASSUME IInv, NoLeakWithoutFailure, [Next]_vars, failures' = 0
             PROVE  (\A o \in records :
                       \/ \E p \in Producers : producing[p] = o
                       \/ o \in Range(queue)
                       \/ \E c \in Consumers : hand[c] = o)'
  BY DEF NoLeakWithoutFailure
<1> DEFINE Kept(o) == \/ \E p \in Producers : producing[p] = o
                      \/ o \in Range(queue)
                      \/ \E c \in Consumers : hand[c] = o
<1> SUFFICES \A o \in records' : Kept(o)'
  OBVIOUS
<1>0. failures = 0 => \A o \in records : Kept(o)
  BY DEF NoLeakWithoutFailure
<1> USE DEF IInv, TypeOK, consumerVars, history
<1> HIDE DEF Kept
<1>1. ASSUME NEW p \in Producers, NEW x \in Objects, Save(p, x)
      PROVE  \A o \in records' : Kept(o)'
  BY <1>0, <1>1 DEF Save, Kept, Range
<1>2. ASSUME NEW p \in Producers, Push(p)
      PROVE  \A o \in records' : Kept(o)'
  <2>1. producing[p] \in Objects
    BY <1>2 DEF Push
  <2>2. Range(queue') = Range(queue) \cup {producing[p]}
    BY <1>2, <2>1, AppendFacts DEF Push
  <2> QED
    BY <1>0, <1>2, <2>2 DEF Push, Kept
<1>3. ASSUME NEW c \in Consumers, Pop(c)
      PROVE  \A o \in records' : Kept(o)'
  <2>1. ASSUME NEW o \in Range(queue), o # Head(queue)
        PROVE  o \in Range(queue')
    BY <1>3, <2>1, TailKeeps DEF Pop
  <2>2. hand[c] = Nothing
    BY <1>3 DEF Pop, HandInv, Busy
  <2> QED
    BY <1>0, <1>3, <2>1, <2>2, RecordQueueAssumption DEF Pop, Kept
<1>4. ASSUME NEW c \in Consumers, Skip(c)
      PROVE  \A o \in records' : Kept(o)'
  BY <1>0, <1>4 DEF Skip, Kept
<1>5. ASSUME NEW c \in Consumers, Destroy(c)
      PROVE  \A o \in records' : Kept(o)'
  BY <1>0, <1>5 DEF Destroy, Kept
<1>6. ASSUME UNCHANGED <<queue, records, producing, hand, failures>>
      PROVE  \A o \in records' : Kept(o)'
  BY <1>0, <1>6 DEF Kept, Range
<1>7. ASSUME NEW c \in Consumers,
             Drained(c) \/ Yield(c) \/ Handle(c) \/ Wake(c) \/ Start(c)
      PROVE  UNCHANGED <<queue, records, producing, hand, failures>>
  BY <1>7 DEF Drained, Yield, Handle, Wake, Start
<1>8. ASSUME NEW c \in Consumers, Stop(c) \/ Crash(c)
      PROVE  FALSE
  BY <1>8 DEF Stop, Crash
<1>9. ASSUME NEW p \in Producers, ProducerCrash(p)
      PROVE  FALSE
  BY <1>9 DEF ProducerCrash
<1>10. ASSUME NEW o \in Objects, Vanish(o)
       PROVE  FALSE
  BY <1>10 DEF Vanish
<1>11. CASE UNCHANGED vars
  BY <1>6, <1>11 DEF vars
<1> QED
  BY <1>1, <1>2, <1>3, <1>4, <1>5, <1>6, <1>7, <1>8, <1>9, <1>10, <1>11
  DEF Next, Consume

\* Records only pile up in Redis because of crashes, never by themselves.
THEOREM NoLeak == Spec => []NoLeakWithoutFailure
<1>1. Init => NoLeakWithoutFailure
  BY DEF Init, NoLeakWithoutFailure
<1> QED
  BY <1>1, Inductive, NextNoLeak, PTL DEF Spec

-----------------------------------------------------------------------------
(* The queue implements Handover *)

LEMMA InitAbstract == Init => Abstract!Init
  BY DEF Init, Abstract!Init, Range

LEMMA NextAbstract == IInv /\ [Next]_vars => [Abstract!Next]_(Abstract!vars)
<1> SUFFICES ASSUME IInv, [Next]_vars
             PROVE  [Abstract!Next]_(Abstract!vars)
  OBVIOUS
<1> DEFINE settled == Range(popped) \ {hand[c] : c \in Consumers}
<1> USE DEF IInv, consumerVars, history
<1>1. ASSUME NEW p \in Producers, Push(p)
      PROVE  [Abstract!Next]_(Abstract!vars)
  <2>1. producing[p] \in Objects /\ producing[p] \notin Range(pushed)
    BY <1>1 DEF Push, TypeOK, ProducingInv
  <2>2. settled' = settled /\ popped' = popped
    BY <1>1 DEF Push, Range
  <2>3. Abstract!Send(producing[p])
    BY <1>1, <2>1, <2>2 DEF Push, Abstract!Send, Abstract!Range, Range
  <2> QED
    BY <2>1, <2>3 DEF Abstract!Next
<1>2. ASSUME NEW c \in Consumers, Pop(c)
      PROVE  [Abstract!Next]_(Abstract!vars)
  <2>1. Head(queue) \in Objects
    BY <1>2, PopFacts DEF Pop, TypeOK
  <2>2. /\ Head(queue) = pushed[Len(popped) + 1]
        /\ Len(popped) < Len(pushed)
        /\ Head(queue) \notin Range(popped)
    BY <1>2, SplitTake DEF Pop, OrderInv, TypeOK
  <2>4. Range(popped') = Range(popped) \cup {Head(queue)}
    BY <1>2, <2>1, AppendFacts DEF Pop, TypeOK
  <2>5. hand[c] = Nothing /\ Nothing \notin Range(popped)
    BY <1>2, RangeFacts, RecordQueueAssumption
    DEF Pop, HandInv, Busy, TypeOK
  <2>7. hand' = [hand EXCEPT ![c] = Head(queue)]
    BY <1>2 DEF Pop
  <2>8. settled' = settled
    BY <2>2, <2>4, <2>5, <2>7 DEF TypeOK
  <2>9. Abstract!Take
    BY <1>2, <2>2, <2>8 DEF Pop, Abstract!Take
  <2> QED
    BY <2>9 DEF Abstract!Next
<1>3. ASSUME NEW c \in Consumers, UNCHANGED <<pushed, popped>>,
             hand' = [hand EXCEPT ![c] = Nothing]
      PROVE  [Abstract!Next]_(Abstract!vars)
  <2>1. Nothing \notin Range(popped)
    BY RangeFacts, RecordQueueAssumption DEF TypeOK
  <2>2. Range(popped') = Range(popped)
    BY <1>3 DEF Range
  <2>3. CASE hand[c] = Nothing
    <3>1. hand' = hand
      BY <1>3, <2>3 DEF TypeOK
    <3> QED
      BY <1>3, <2>2, <3>1 DEF Abstract!vars
  <2>4. CASE hand[c] # Nothing
    <3>1. /\ hand[c] \in Objects
          /\ hand[c] \in Range(popped)
          /\ \A d \in Consumers : hand[d] = hand[c] => d = c
      BY <2>4 DEF TypeOK, HoldInv
    <3>2. settled' = settled \cup {hand[c]}
      BY <1>3, <2>1, <2>2, <3>1 DEF TypeOK
    <3>3. Abstract!Range(popped) = Range(popped)
      BY DEF Abstract!Range, Range
    <3>4. hand[c] \in Range(popped) \ settled
      BY <3>1
    <3>5. hand[c] \in Objects
      BY <3>1
    <3>6. \E o \in Objects : Abstract!Settle(o)
      BY <1>3, <3>2, <3>3, <3>4, <3>5 DEF Abstract!Settle
    <3> QED
      BY <3>6 DEF Abstract!Next
  <2> QED
    BY <2>3, <2>4
<1>4. ASSUME NEW c \in Consumers, Skip(c) \/ Destroy(c) \/ Crash(c)
      PROVE  [Abstract!Next]_(Abstract!vars)
  BY <1>3, <1>4 DEF Skip, Destroy, Crash
<1>5. ASSUME UNCHANGED <<pushed, popped, hand>>
      PROVE  [Abstract!Next]_(Abstract!vars)
  BY <1>5 DEF Abstract!vars, Range
<1>6. ASSUME NEW c \in Consumers,
             Drained(c) \/ Yield(c) \/ Handle(c) \/ Wake(c) \/ Stop(c)
               \/ Start(c)
      PROVE  UNCHANGED <<pushed, popped, hand>>
  BY <1>6 DEF Drained, Yield, Handle, Wake, Stop, Start
<1>7. ASSUME NEW p \in Producers, NEW o \in Objects, Save(p, o)
      PROVE  UNCHANGED <<pushed, popped, hand>>
  BY <1>7 DEF Save
<1>8. ASSUME NEW p \in Producers, ProducerCrash(p)
      PROVE  UNCHANGED <<pushed, popped, hand>>
  BY <1>8 DEF ProducerCrash
<1>9. ASSUME NEW o \in Objects, Vanish(o)
      PROVE  UNCHANGED <<pushed, popped, hand>>
  BY <1>9 DEF Vanish
<1>10. CASE UNCHANGED vars
  BY <1>5, <1>10 DEF vars
<1> QED
  BY <1>1, <1>2, <1>4, <1>5, <1>6, <1>7, <1>8, <1>9, <1>10
  DEF Next, Consume

\* Every behaviour of the queue is one of Handover: each id is handed over at
\* most once, in the order pushed, and never comes back.
THEOREM ImplementsHandover == Spec => HandsOverInOrder
  BY InitAbstract, NextAbstract, Inductive, PTL
  DEF Spec, HandsOverInOrder, Abstract!Spec

=============================================================================
