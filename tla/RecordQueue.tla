----------------------------- MODULE RecordQueue -----------------------------
(***************************************************************************)
(* The queue between two pikelets (lib/flapjack/record_queue.rb): ids of    *)
(* saved records on a Redis list, and beside it a list of "+" tokens that   *)
(* an idle consumer blocks on.  The producers are the processor (it pushes  *)
(* notifications) and the notifier (alerts); the consumers are the main     *)
(* loops of the notifier and of the gateways, which all have this shape:    *)
(*                                                                          *)
(*   loop do @lock.synchronize { @queue.foreach {...} }; @queue.wait end    *)
(*                                                                          *)
(* Redis executes one command at a time, so an action is one command (or    *)
(* one MULTI) and the Ruby code up to the next one.                         *)
(***************************************************************************)
EXTENDS Naturals, Sequences, FiniteSets, Functions

CONSTANTS
  Producers,
  Consumers,
  Objects,      \* record ids; a fresh one for every record saved
  MaxFailures,  \* bound on crashes, stops and records removed by others
  Nothing       \* no record

ASSUME RecordQueueAssumption ==
  /\ Nothing \notin Objects
  /\ MaxFailures \in Nat

VARIABLES
  queue,      \* the Redis list @queue; its head is the next id rpop returns
  actions,    \* the length of the Redis list "#{@queue}_actions"
  records,    \* ids of the records that are persisted
  producing,  \* producing[p]: the record p has saved and not pushed yet
  phase,      \* phase[c]: where consumer c is in its main loop
  hand,       \* hand[c]: the id consumer c has popped and not finished with
  pushed,     \* history: every id pushed, in order
  popped,     \* history: every id popped, in order
  yielded,    \* history: the ids whose record was passed to a handler
  failures

vars == <<queue, actions, records, producing, phase, hand, pushed, popped,
          yielded, failures>>

consumerVars == <<phase, hand>>
history == <<pushed, popped, yielded>>

Phases == {"draining", "found", "handling", "handled", "waiting", "stopped"}

Busy == {"found", "handling", "handled"}

Fresh(o) ==
  /\ o \notin records \cup Range(pushed)
  /\ \A p \in Producers : producing[p] # o

-----------------------------------------------------------------------------
Init ==
  /\ queue = <<>>
  /\ actions = 0
  /\ records = {}
  /\ producing = [p \in Producers |-> Nothing]
  /\ phase = [c \in Consumers |-> "draining"]
  /\ hand = [c \in Consumers |-> Nothing]
  /\ pushed = <<>>
  /\ popped = <<>>
  /\ yielded = {}
  /\ failures = 0

-----------------------------------------------------------------------------
(* Faulty variants of the actions below: what each property is there to     *)
(* exclude.  No specification uses them.                                    *)

\* The token is forgotten.
PushSilently(p) ==
  /\ producing[p] # Nothing
  /\ queue' = Append(queue, producing[p])
  /\ pushed' = Append(pushed, producing[p])
  /\ producing' = [producing EXCEPT ![p] = Nothing]
  /\ UNCHANGED <<actions, records, consumerVars, popped, yielded, failures>>

\* rpush instead of lpush.
PushInFront(p) ==
  /\ producing[p] # Nothing
  /\ queue' = <<producing[p]>> \o queue
  /\ actions' = actions + 1
  /\ pushed' = Append(pushed, producing[p])
  /\ producing' = [producing EXCEPT ![p] = Nothing]
  /\ UNCHANGED <<records, consumerVars, popped, yielded, failures>>

\* lindex instead of rpop: the id stays queued while it is handled.
Peek(c) ==
  /\ phase[c] = "draining"
  /\ queue # <<>>
  /\ hand' = [hand EXCEPT ![c] = Head(queue)]
  /\ popped' = Append(popped, Head(queue))
  /\ phase' = [phase EXCEPT ![c] = "found"]
  /\ UNCHANGED <<queue, actions, records, producing, pushed, yielded, failures>>

\* The handled record is kept.
Keep(c) ==
  /\ phase[c] = "handled"
  /\ hand' = [hand EXCEPT ![c] = Nothing]
  /\ phase' = [phase EXCEPT ![c] = "draining"]
  /\ UNCHANGED <<queue, actions, records, producing, history, failures>>

\* brpop gives up after a while, and the caller does not notice.
WakeAnyway(c) ==
  /\ phase[c] = "waiting"
  /\ actions' = actions - 1
  /\ phase' = [phase EXCEPT ![c] = "draining"]
  /\ UNCHANGED <<queue, records, producing, hand, history, failures>>

\* A consumer that dies puts what it holds back into the queue.
Requeue(c) ==
  /\ failures < MaxFailures
  /\ phase[c] \in Busy \cup {"draining"}
  /\ queue' = IF hand[c] = Nothing THEN queue ELSE Append(queue, hand[c])
  /\ phase' = [phase EXCEPT ![c] = "stopped"]
  /\ hand' = [hand EXCEPT ![c] = Nothing]
  /\ failures' = failures + 1
  /\ UNCHANGED <<actions, records, producing, history>>

\* The main loop waits before it looks at the queue.
StartWaiting(c) ==
  /\ phase[c] = "stopped"
  /\ phase' = [phase EXCEPT ![c] = "waiting"]
  /\ UNCHANGED <<queue, actions, records, producing, hand, history, failures>>

-----------------------------------------------------------------------------
(* Producers *)

\* notification.save!, alert.save: the record exists before its id is queued.
Save(p, o) ==
  /\ producing[p] = Nothing
  /\ Fresh(o)
  /\ records' = records \cup {o}
  /\ producing' = [producing EXCEPT ![p] = o]
  /\ UNCHANGED <<queue, actions, consumerVars, history, failures>>

\* The MULTI of push: the id and its token arrive together.
Push(p) ==
  /\ producing[p] # Nothing
  /\ queue' = Append(queue, producing[p])
  /\ actions' = actions + 1
  /\ pushed' = Append(pushed, producing[p])
  /\ producing' = [producing EXCEPT ![p] = Nothing]
  /\ UNCHANGED <<records, consumerVars, popped, yielded, failures>>

\* The producer dies between the save and the push: the record stays behind.
ProducerCrash(p) ==
  /\ failures < MaxFailures
  /\ producing[p] # Nothing
  /\ producing' = [producing EXCEPT ![p] = Nothing]
  /\ failures' = failures + 1
  /\ UNCHANGED <<queue, actions, records, consumerVars, history>>

-----------------------------------------------------------------------------
(* Consumers: foreach *)

Pop(c) ==
  /\ phase[c] = "draining"
  /\ queue # <<>>
  /\ hand' = [hand EXCEPT ![c] = Head(queue)]
  /\ queue' = Tail(queue)
  /\ popped' = Append(popped, Head(queue))
  /\ phase' = [phase EXCEPT ![c] = "found"]
  /\ UNCHANGED <<actions, records, producing, pushed, yielded, failures>>

\* rpop returns nil: foreach ends, the lock is released, wait is called.
Drained(c) ==
  /\ phase[c] = "draining"
  /\ queue = <<>>
  /\ phase' = [phase EXCEPT ![c] = "waiting"]
  /\ UNCHANGED <<queue, actions, records, producing, hand, history, failures>>

\* find_by_id succeeds and the block is entered.
Yield(c) ==
  /\ phase[c] = "found"
  /\ hand[c] \in records
  /\ yielded' = yielded \cup {hand[c]}
  /\ phase' = [phase EXCEPT ![c] = "handling"]
  /\ UNCHANGED <<queue, actions, records, producing, hand, pushed, popped,
                 failures>>

\* find_by_id returns nil: next.
Skip(c) ==
  /\ phase[c] = "found"
  /\ hand[c] \notin records
  /\ hand' = [hand EXCEPT ![c] = Nothing]
  /\ phase' = [phase EXCEPT ![c] = "draining"]
  /\ UNCHANGED <<queue, actions, records, producing, history, failures>>

\* The block returns.
Handle(c) ==
  /\ phase[c] = "handling"
  /\ phase' = [phase EXCEPT ![c] = "handled"]
  /\ UNCHANGED <<queue, actions, records, producing, hand, history, failures>>

\* object.destroy (no caller passes :keep).
Destroy(c) ==
  /\ phase[c] = "handled"
  /\ records' = records \ {hand[c]}
  /\ hand' = [hand EXCEPT ![c] = Nothing]
  /\ phase' = [phase EXCEPT ![c] = "draining"]
  /\ UNCHANGED <<queue, actions, producing, history, failures>>

-----------------------------------------------------------------------------
(* Consumers: wait, stop, crash, start *)

\* brpop returns: a single token wakes a single consumer.
Wake(c) ==
  /\ phase[c] = "waiting"
  /\ actions > 0
  /\ actions' = actions - 1
  /\ phase' = [phase EXCEPT ![c] = "draining"]
  /\ UNCHANGED <<queue, records, producing, hand, history, failures>>

\* Pikelet#stop raises PikeletStop while it holds the lock, so never inside
\* foreach; Redis may already have popped the token of the interrupted brpop.
Stop(c) ==
  /\ failures < MaxFailures
  /\ phase[c] = "waiting"
  /\ actions' \in {actions} \cup (IF actions > 0 THEN {actions - 1} ELSE {})
  /\ phase' = [phase EXCEPT ![c] = "stopped"]
  /\ failures' = failures + 1
  /\ UNCHANGED <<queue, records, producing, hand, history>>

\* The handler raises, Redis is unreachable, or the process is killed: what
\* was popped is not put back.
Crash(c) ==
  /\ failures < MaxFailures
  /\ phase[c] \in Busy \cup {"draining"}
  /\ phase' = [phase EXCEPT ![c] = "stopped"]
  /\ hand' = [hand EXCEPT ![c] = Nothing]
  /\ failures' = failures + 1
  /\ UNCHANGED <<queue, actions, records, producing, history>>

\* The loop of Pikelet::Base#start runs the pikelet again, or the process is
\* started again; either way the main loop begins with foreach.
Start(c) ==
  /\ phase[c] = "stopped"
  /\ phase' = [phase EXCEPT ![c] = "draining"]
  /\ UNCHANGED <<queue, actions, records, producing, hand, history, failures>>

\* Somebody else removes a queued record (an operator cleaning Redis).
Vanish(o) ==
  /\ failures < MaxFailures
  /\ o \in records
  /\ \A p \in Producers : producing[p] # o
  /\ \A c \in Consumers : hand[c] # o
  /\ records' = records \ {o}
  /\ failures' = failures + 1
  /\ UNCHANGED <<queue, actions, producing, consumerVars, history>>

-----------------------------------------------------------------------------
Consume(c) ==
  Pop(c) \/ Drained(c) \/ Yield(c) \/ Skip(c) \/ Handle(c) \/ Destroy(c)
    \/ Wake(c)

Next ==
  \/ \E p \in Producers : Push(p) \/ ProducerCrash(p)
  \/ \E p \in Producers, o \in Objects : Save(p, o)
  \/ \E c \in Consumers : Consume(c)
  \/ \E c \in Consumers : Stop(c) \/ Crash(c) \/ Start(c)
  \/ \E o \in Objects : Vanish(o)

Spec == Init /\ [][Next]_vars

\* A live consumer keeps running: its loop has no other exit, and brpop
\* answers as soon as there is a token.  Nothing obliges a stopped consumer
\* to be started again, nor a producer to produce.
FairSpec == Spec /\ \A c \in Consumers : WF_vars(Consume(c))

-----------------------------------------------------------------------------
(* Properties *)

\* Every variable has its type: ids are record ids or Nothing, counters are
\* naturals and every consumer is at a known place of its loop.
TypeOK ==
  /\ queue \in Seq(Objects)
  /\ actions \in Nat
  /\ records \subseteq Objects
  /\ producing \in [Producers -> Objects \cup {Nothing}]
  /\ phase \in [Consumers -> Phases]
  /\ hand \in [Consumers -> Objects \cup {Nothing}]
  /\ pushed \in Seq(Objects)
  /\ popped \in Seq(Objects)
  /\ yielded \subseteq Objects
  /\ failures \in Nat

\* No lost wakeup (push, foreach, wait): when ids are queued and every
\* consumer is blocked in brpop, there is a token left to wake one of them.
NoLostWakeup ==
  queue # <<>> /\ (\A c \in Consumers : phase[c] = "waiting") => actions > 0

\* An id that is being handled is in nobody else's hands and not in the queue:
\* rpop removes it before the handler runs, so no two consumers work on it.
SoleHolder ==
  \A c \in Consumers : hand[c] # Nothing =>
    /\ hand[c] \notin Range(queue)
    /\ \A d \in Consumers \ {c} : hand[d] # hand[c]

\* No record is handled twice (at most once, whatever crashes): the handler
\* is only ever entered for a record it was not entered for before.
NeverHandledTwice ==
  [][\A c \in Consumers :
       phase[c] = "found" /\ phase'[c] = "handling"
         => hand[c] \notin yielded]_vars

\* A record is only left behind in Redis by a failure: without one, every
\* persisted record is on its way into the queue, queued or being handled.
NoLeakWithoutFailure ==
  failures = 0 =>
    \A o \in records :
      \/ \E p \in Producers : producing[p] = o
      \/ o \in Range(queue)
      \/ \E c \in Consumers : hand[c] = o

\* A queued id is taken, provided that from some point on every consumer
\* stays up: one that dies with the last token strands its peers, but drains
\* the queue first when it is started again.
QueueDrained ==
  <>[](\A c \in Consumers : phase[c] # "stopped")
    => \A o \in Objects : o \in Range(queue) ~> o \notin Range(queue)

\* The queue hands over each id at most once and in the order pushed.
Abstract ==
  INSTANCE Handover WITH
    sent <- pushed,
    taken <- popped,
    settled <- Range(popped) \ {hand[c] : c \in Consumers}

HandsOverInOrder == Abstract!Spec

=============================================================================
