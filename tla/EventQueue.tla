----------------------------- MODULE EventQueue -----------------------------
(***************************************************************************)
(* The queue of events from monitoring systems to the processors: a Redis   *)
(* list of JSON strings, and beside it a list of "+" tokens that an idle    *)
(* processor blocks on.  Ruby senders (Event.push: the receivers, the API,  *)
(* the gateways) push both in one MULTI; the Go library sends one after the *)
(* other.  Processor#start drains the list, optionally moving each event to *)
(* an archive list in the same command that takes it, moves what does not   *)
(* validate to a list of rejects, and then waits for a token or, with       *)
(* exit_on_queue_empty, ends.                                               *)
(*                                                                          *)
(* An action is one Redis command or MULTI, and the code up to the next     *)
(* one.  What process_event does with an event is in module Processor.      *)
(***************************************************************************)
EXTENDS Naturals, Sequences, Functions

CONSTANTS
  RubySenders,
  GoSenders,
  Processors,
  Events,             \* event strings, all different
  Invalid,            \* those parse_and_validate finds an error in
  ArchiveEvents,      \* archive_events
  ExitOnQueueEmpty,   \* exit_on_queue_empty
  MaxFailures,        \* bound on crashes, stops and broken connections
  Nothing             \* no event

ASSUME EventQueueAssumption ==
  /\ Invalid \subseteq Events
  /\ Nothing \notin Events
  /\ ArchiveEvents \in BOOLEAN /\ ExitOnQueueEmpty \in BOOLEAN
  /\ MaxFailures \in Nat

VARIABLES
  queue,      \* the Redis list; its head is the next event rpop returns
  actions,    \* the length of the list "#{queue}_actions"
  archive,    \* the events in the events_archive lists
  rejects,    \* the events in the events_rejected lists
  sending,    \* sending[g]: the event whose token sender g still has to push
  phase,      \* phase[c]: where processor c is in its main loop
  hand,       \* hand[c]: the event processor c has taken and not finished
  sent,       \* history: every event sent, in order
  taken,      \* history: every event taken, in order
  processed,  \* history: the events process_event returned from
  expired,    \* history: the archived events that outlived the archive
  unannounced,\* history: how often a sender failed before its token
  failures

vars == <<queue, actions, archive, rejects, sending, phase, hand, sent, taken,
          processed, expired, unannounced, failures>>

stores == <<archive, rejects, processed, expired>>
senderVars == <<sending, sent, unannounced>>

Phases == {"draining", "parsing", "processing", "waiting", "finished", "stopped"}

-----------------------------------------------------------------------------
Init ==
  /\ queue = <<>>
  /\ actions = 0
  /\ archive = {} /\ rejects = {}
  /\ sending = [g \in GoSenders |-> Nothing]
  /\ phase = [c \in Processors |-> "draining"]
  /\ hand = [c \in Processors |-> Nothing]
  /\ sent = <<>> /\ taken = <<>>
  /\ processed = {} /\ expired = {}
  /\ unannounced = 0
  /\ failures = 0

-----------------------------------------------------------------------------
(* Faulty variants of the actions below: what each property is there to     *)
(* exclude.  No specification uses them.                                    *)

\* rpush instead of lpush.
EnqueueInFront(e) ==
  /\ e \notin Range(sent)
  /\ queue' = <<e>> \o queue
  /\ sent' = Append(sent, e)

\* The token is forgotten.
PushQuietly(e) ==
  /\ RubySenders # {}
  /\ e \notin Range(sent)
  /\ queue' = Append(queue, e)
  /\ sent' = Append(sent, e)
  /\ UNCHANGED <<actions, stores, sending, phase, hand, taken, unannounced,
                 failures>>

\* rpop, and the archive later.
TakeFirst(c) ==
  /\ phase[c] = "draining"
  /\ queue # <<>>
  /\ queue' = Tail(queue)
  /\ hand' = [hand EXCEPT ![c] = Head(queue)]
  /\ phase' = [phase EXCEPT ![c] = "parsing"]
  /\ taken' = Append(taken, Head(queue))
  /\ UNCHANGED <<actions, stores, senderVars, failures>>

\* lindex instead of rpop: two processors can see the same event.
TakeShared(c) ==
  /\ phase[c] = "draining"
  /\ queue # <<>>
  /\ archive' = IF ArchiveEvents THEN archive \cup {Head(queue)} ELSE archive
  /\ hand' = [hand EXCEPT ![c] = Head(queue)]
  /\ phase' = [phase EXCEPT ![c] = "parsing"]
  /\ taken' = Append(taken, Head(queue))
  /\ UNCHANGED <<queue, actions, rejects, processed, expired, senderVars,
                 failures>>

\* Invalid events are dropped.
Drop(c) ==
  /\ phase[c] = "parsing"
  /\ hand[c] \in Invalid
  /\ archive' = archive \ {hand[c]}
  /\ hand' = [hand EXCEPT ![c] = Nothing]
  /\ phase' = [phase EXCEPT ![c] = "draining"]
  /\ UNCHANGED <<queue, actions, rejects, processed, expired, taken, senderVars,
                 failures>>

\* One event for every token.
ProcessedOneOnly(c) ==
  /\ phase[c] = "processing"
  /\ processed' = processed \cup {hand[c]}
  /\ hand' = [hand EXCEPT ![c] = Nothing]
  /\ phase' = [phase EXCEPT ![c] = "waiting"]
  /\ UNCHANGED <<queue, actions, archive, rejects, expired, taken, senderVars,
                 failures>>

\* exit_on_queue_empty is looked at after every foreach, full queue or not.
DrainedOrNot(c) ==
  /\ phase[c] = "draining"
  /\ phase' = [phase EXCEPT ![c] = IF ExitOnQueueEmpty THEN "finished" ELSE "waiting"]
  /\ UNCHANGED <<queue, actions, stores, hand, taken, senderVars, failures>>

\* brpop gives up after a while, and the caller does not notice.
WakeAnyway(c) ==
  /\ phase[c] = "waiting"
  /\ actions' = actions - 1
  /\ phase' = [phase EXCEPT ![c] = "draining"]
  /\ UNCHANGED <<queue, stores, hand, taken, senderVars, failures>>

-----------------------------------------------------------------------------
(* Senders *)

Enqueue(e) ==
  /\ e \notin Range(sent)
  /\ queue' = Append(queue, e)
  /\ sent' = Append(sent, e)

\* Event.push: the MULTI brings event and token together.
Push(e) ==
  /\ RubySenders # {}
  /\ Enqueue(e)
  /\ actions' = actions + 1
  /\ UNCHANGED <<stores, sending, phase, hand, taken, unannounced, failures>>

\* The first LPUSH of Transport.send.
SendEvent(g, e) ==
  /\ sending[g] = Nothing
  /\ Enqueue(e)
  /\ sending' = [sending EXCEPT ![g] = e]
  /\ UNCHANGED <<actions, stores, phase, hand, taken, unannounced, failures>>

\* The second.
SendToken(g) ==
  /\ sending[g] # Nothing
  /\ actions' = actions + 1
  /\ sending' = [sending EXCEPT ![g] = Nothing]
  /\ UNCHANGED <<queue, stores, phase, hand, sent, taken, unannounced, failures>>

\* The connection breaks, or the sender ends, between the two.
SendFails(g) ==
  /\ failures < MaxFailures
  /\ sending[g] # Nothing
  /\ sending' = [sending EXCEPT ![g] = Nothing]
  /\ unannounced' = unannounced + 1
  /\ failures' = failures + 1
  /\ UNCHANGED <<queue, actions, stores, phase, hand, sent, taken>>

-----------------------------------------------------------------------------
(* Processors: foreach_on_queue *)

\* rpoplpush to the archive, or rpop.
Take(c) ==
  /\ phase[c] = "draining"
  /\ queue # <<>>
  /\ queue' = Tail(queue)
  /\ archive' = IF ArchiveEvents THEN archive \cup {Head(queue)} ELSE archive
  /\ hand' = [hand EXCEPT ![c] = Head(queue)]
  /\ phase' = [phase EXCEPT ![c] = "parsing"]
  /\ taken' = Append(taken, Head(queue))
  /\ UNCHANGED <<actions, rejects, processed, expired, senderVars, failures>>

\* The MULTI that moves an invalid event from the archive to the rejects.
Reject(c) ==
  /\ phase[c] = "parsing"
  /\ hand[c] \in Invalid
  /\ archive' = archive \ {hand[c]}
  /\ rejects' = rejects \cup {hand[c]}
  /\ hand' = [hand EXCEPT ![c] = Nothing]
  /\ phase' = [phase EXCEPT ![c] = "draining"]
  /\ UNCHANGED <<queue, actions, processed, expired, taken, senderVars, failures>>

\* A valid event is passed to process_event.
Accept(c) ==
  /\ phase[c] = "parsing"
  /\ hand[c] \notin Invalid
  /\ phase' = [phase EXCEPT ![c] = "processing"]
  /\ UNCHANGED <<queue, actions, stores, hand, taken, senderVars, failures>>

\* process_event returns.
Processed(c) ==
  /\ phase[c] = "processing"
  /\ processed' = processed \cup {hand[c]}
  /\ hand' = [hand EXCEPT ![c] = Nothing]
  /\ phase' = [phase EXCEPT ![c] = "draining"]
  /\ UNCHANGED <<queue, actions, archive, rejects, expired, taken, senderVars,
                 failures>>

\* The list is empty: GlobalStop, or on to wait_for_queue.
Drained(c) ==
  /\ phase[c] = "draining"
  /\ queue = <<>>
  /\ phase' = [phase EXCEPT ![c] = IF ExitOnQueueEmpty THEN "finished" ELSE "waiting"]
  /\ UNCHANGED <<queue, actions, stores, hand, taken, senderVars, failures>>

-----------------------------------------------------------------------------
(* Processors: waiting, stopping, starting *)

\* brpop returns: one token wakes one processor.
Wake(c) ==
  /\ phase[c] = "waiting"
  /\ actions > 0
  /\ actions' = actions - 1
  /\ phase' = [phase EXCEPT ![c] = "draining"]
  /\ UNCHANGED <<queue, stores, hand, taken, senderVars, failures>>

\* Pikelet#stop, which takes the lock first, interrupts the wait; Redis may
\* have popped the token of the interrupted brpop.
Stop(c) ==
  /\ failures < MaxFailures
  /\ phase[c] = "waiting"
  /\ actions' \in {actions} \cup (IF actions > 0 THEN {actions - 1} ELSE {})
  /\ phase' = [phase EXCEPT ![c] = "stopped"]
  /\ failures' = failures + 1
  /\ UNCHANGED <<queue, stores, hand, taken, senderVars>>

\* process_event raises, Redis is unreachable, or the process is killed.
Crash(c) ==
  /\ failures < MaxFailures
  /\ phase[c] \in {"draining", "parsing", "processing"}
  /\ phase' = [phase EXCEPT ![c] = "stopped"]
  /\ hand' = [hand EXCEPT ![c] = Nothing]
  /\ failures' = failures + 1
  /\ UNCHANGED <<queue, actions, stores, taken, senderVars>>

\* The pikelet is run again, or the process is started again.
Start(c) ==
  /\ phase[c] = "stopped"
  /\ phase' = [phase EXCEPT ![c] = "draining"]
  /\ UNCHANGED <<queue, actions, stores, hand, taken, senderVars, failures>>

\* events_archive_maxage seconds have passed since the last expire.
Expire ==
  /\ archive # {}
  /\ expired' = expired \cup archive
  /\ archive' = {}
  /\ UNCHANGED <<queue, actions, rejects, processed, phase, hand, taken,
                 senderVars, failures>>

-----------------------------------------------------------------------------
Run(c) ==
  Take(c) \/ Reject(c) \/ Accept(c) \/ Processed(c) \/ Drained(c) \/ Wake(c)

Next ==
  \/ \E e \in Events : Push(e)
  \/ \E g \in GoSenders, e \in Events : SendEvent(g, e)
  \/ \E g \in GoSenders : SendToken(g) \/ SendFails(g)
  \/ \E c \in Processors : Run(c) \/ Stop(c) \/ Crash(c) \/ Start(c)
  \/ Expire

Spec == Init /\ [][Next]_vars

\* A processor that is up keeps running, and a sender that has pushed an
\* event goes on to its token or fails.
FairSpec ==
  /\ Spec
  /\ \A c \in Processors : WF_vars(Run(c))
  /\ \A g \in GoSenders : WF_vars(SendToken(g) \/ SendFails(g))

-----------------------------------------------------------------------------
(* Properties *)

\* Every variable has its type.
TypeOK ==
  /\ queue \in Seq(Events)
  /\ actions \in Nat
  /\ archive \subseteq Events /\ rejects \subseteq Events
  /\ sending \in [GoSenders -> Events \cup {Nothing}]
  /\ phase \in [Processors -> Phases]
  /\ hand \in [Processors -> Events \cup {Nothing}]
  /\ sent \in Seq(Events) /\ taken \in Seq(Events)
  /\ processed \subseteq Events /\ expired \subseteq Events
  /\ unannounced \in Nat
  /\ failures \in Nat

\* No lost wakeup: while every processor is blocked in brpop, a queued event
\* has a token, or a Go sender is about to push one, or one failed between
\* its two pushes; the Ruby senders' MULTI has no such gap.
NoLostWakeup ==
  /\ queue # <<>>
  /\ \A c \in Processors : phase[c] = "waiting"
  => \/ actions > 0
     \/ \E g \in GoSenders : sending[g] # Nothing
     \/ unannounced > 0

\* With archive_events nothing is lost, whatever crashes and however many
\* processors share the queue: every event ever sent is in exactly one of
\* the queue, the archive (until it expires) and the rejects, and one that
\* was processed is not among the rejects.
ArchiveLosesNothing ==
  ArchiveEvents =>
    /\ Range(sent) = Range(queue) \cup archive \cup rejects \cup expired
    /\ Range(queue) \cap (archive \cup rejects \cup expired) = {}
    /\ archive \cap rejects = {} /\ archive \cap expired = {}
    /\ processed \cap rejects = {}

\* Without failures nothing is lost either way.
LostByFailureOnly ==
  failures = 0 =>
    Range(sent) = Range(queue) \cup processed \cup rejects
                    \cup ({hand[c] : c \in Processors} \ {Nothing})

\* exit_on_queue_empty ends a processor only when every event sent so far has
\* been taken.
ExitsWhenAllTaken ==
  [][\A c \in Processors :
       phase[c] # "finished" /\ phase'[c] = "finished"
         => Range(sent) = Range(taken)]_vars

\* process_event gets each event at most once, from one processor only.
ProcessedOnce ==
  [][\A c \in Processors :
       phase[c] = "processing" /\ phase'[c] = "draining"
         => /\ hand[c] \notin processed
            /\ \A d \in Processors \ {c} : hand[d] # hand[c]]_vars

\* While no processor dies, a token is enough to get the whole queue drained,
\* events without a token of their own included.
TokenDrainsQueue ==
  <>[](\A c \in Processors : phase[c] \notin {"stopped", "finished"})
    => \A e \in Events :
         e \in Range(queue) /\ actions > 0 ~> e \notin Range(queue)

\* Events are taken at most once and in the order they were sent.
Abstract ==
  INSTANCE Handover WITH
    Objects <- Events,
    settled <- Range(taken) \ {hand[c] : c \in Processors}

TakenInOrder == Abstract!Spec

=============================================================================
