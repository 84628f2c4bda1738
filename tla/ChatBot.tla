------------------------------- MODULE ChatBot -------------------------------
(***************************************************************************)
(* The chat bot of the Jabber gateway (jabber.rb).  Four threads meet: the *)
(* bot, which joins the rooms and says what is in its buffers; the         *)
(* interpreter, which answers commands; the chat library's, which hands    *)
(* over what the server sends, one stanza after the other; and whoever     *)
(* announces an alert.  The bot and the interpreter have a lock each, and  *)
(* hold it except while they wait on its condition.  To join a room or to  *)
(* leave it waits for the server's answer, which comes through the         *)
(* library's thread.                                                       *)
(*                                                                         *)
(* A section of another thread under one of the locks is one action.  Both *)
(* conditions are signalled in every section that changes what is waited   *)
(* for, and a wait with a timeout may end at any time.                     *)
(***************************************************************************)
EXTENDS Integers, Sequences, SequencesExt

CONSTANTS
  RoomList,     \* the rooms of the configuration, in the order of joining
  Commands,     \* commands people give to the bot
  Actions,      \* those that have something done, as acknowledgements do
  Alerts,       \* alerts the notifier announces
  RoomOf,       \* where a command or an alert belongs; Nil: a private chat
  Nil,          \* no room, or no command
  Attempts,     \* attempts_allowed, to connect and for each room
  MaxDrops,     \* bound on the failures of the connection
  MaxRefusals   \* bound on the connections and joins that are refused

Rooms == Range(RoomList)
Texts == Commands \cup Alerts

(* the server's answers to a join, and to a leave *)
Answers == {"yes", "no", "left"}

ASSUME ChatAssumption ==
  /\ RoomList \in Seq(Rooms) \ {<<>>}
  /\ IsInjective(RoomList)
  /\ Nil \notin Rooms \cup Texts
  /\ Commands \cap (Alerts \cup Answers) = {}
  /\ Actions \subseteq Commands
  /\ RoomOf \in [Texts -> Rooms \cup {Nil}]
  /\ \A a \in Alerts : RoomOf[a] # Nil
  /\ Attempts \in Nat \ {0}
  /\ MaxDrops \in Nat /\ MaxRefusals \in Nat

VARIABLES
  pc,          \* where the bot's thread is
  room,        \* index of the room it is joining
  tries,       \* attempts left for that room
  again,       \* whether the join is that of a rejoin
  seen,        \* connected, as read by handle_state_change
  attempts,    \* attempts_remaining, to connect
  joined, quit,            \* @joined, @should_quit of the bot
  states,                  \* @state_buffer
  announces, says,         \* @announce_buffer, @say_buffer
  connected, active,       \* the connection, the rooms that are active
  incoming,                \* what the server sent and the library still has
  named,       \* the library's thread has the bot's identifiers for the first
  leaving, rejoining,      \* handlers of an exception: at its beginning,
                           \* asleep for 3 seconds
  messages, answering,     \* @messages, and the one being interpreted
  iquit, iended,           \* @should_quit of the interpreter; its end or failure
  given,       \* commands given so far
  made, sent,  \* history: announcements made, and said
  mixed,       \* history: a leave or rejoin came before an earlier one was
               \* dealt with
  drops, refusals          \* counted towards the bounds

botVars == <<pc, room, tries, again, seen, attempts, joined>>
buffers == <<states, announces, says, made, mixed>>
chatVars == <<connected, active, incoming, named>>
interpreterVars == <<messages, answering, iquit, iended>>
otherVars == <<leaving, rejoining, given, drops>>
vars == <<botVars, quit, buffers, chatVars, interpreterVars, otherVars, sent,
          refusals>>

(* The bot's thread is at the top of its loop, about to connect, about to  *)
(* join a room, waiting for the answer to that, past the middle of the     *)
(* loop, in handle_state_change or, from there, in _announce or _leave, in *)
(* the _leave at its end, all with its lock; asleep, without it, on any    *)
(* change, before the next attempt to connect or to join; or gone.         *)
Leaving == {"leaving", "closing"}
Working == {"top", "connecting", "asking", "joining", "turning", "handling",
            "announcing"} \cup Leaving
Asleep == {"waiting", "resting", "retrying"}
Gone == {"ended", "failed"}

TypeOK ==
  /\ pc \in Working \cup Asleep \cup Gone
  /\ room \in 1..Len(RoomList)
  /\ tries \in 0..Attempts
  /\ attempts \in 0..Attempts
  /\ {again, seen, joined, quit, connected, named, iquit, iended, mixed}
       \subseteq BOOLEAN
  /\ states \in Seq({"announce", "say", "leave", "rejoin"})
  /\ announces \in Seq(Texts)
  /\ says \in Seq(Texts)
  /\ active \in SUBSET Rooms
  /\ incoming \in Seq(Commands \cup Answers)
  /\ leaving \in Nat /\ rejoining \in Nat
  /\ messages \in Seq(Commands)
  /\ answering \in Commands \cup {Nil}
  /\ given \in SUBSET Commands
  /\ made \in Seq(Texts)
  /\ sent \in Seq(Texts)
  /\ drops \in 0..MaxDrops
  /\ refusals \in 0..MaxRefusals

Init ==
  /\ pc = "top"
  /\ room = 1
  /\ tries = Attempts
  /\ attempts = Attempts
  /\ again = FALSE /\ seen = FALSE /\ joined = FALSE /\ quit = FALSE
  /\ states = <<>> /\ announces = <<>> /\ says = <<>>
  /\ connected = FALSE /\ active = {}
  /\ incoming = <<>> /\ named = FALSE
  /\ leaving = 0 /\ rejoining = 0
  /\ messages = <<>> /\ answering = Nil
  /\ iquit = FALSE /\ iended = FALSE
  /\ given = {} /\ made = <<>> /\ sent = <<>> /\ mixed = FALSE
  /\ drops = 0 /\ refusals = 0

BotLockFree == pc \in Asleep \cup Gone
InterpreterLockFree == answering = Nil

-----------------------------------------------------------------------------
(* The bot's loop.                                                         *)

BotOnly == UNCHANGED <<interpreterVars, otherVars>>

Top ==
  /\ pc = "top"
  /\ \/ /\ joined
        /\ pc' = IF quit \/ states # <<>> THEN "turning" ELSE "waiting"
        /\ UNCHANGED quit
     \/ /\ ~joined /\ attempts > 0
        /\ pc' = IF quit \/ attempts = Attempts THEN "connecting" ELSE "resting"
        /\ UNCHANGED quit
     \/ /\ ~joined /\ attempts = 0
        /\ quit' = TRUE
        /\ pc' = "turning"
  /\ UNCHANGED <<room, tries, again, seen, attempts, joined, buffers, chatVars,
                 sent, refusals>>
  /\ BotOnly

(* Faulty: the bot is not woken to stop.                                   *)
WakeUpOnChange ==
  /\ \/ pc = "waiting" /\ states # <<>> /\ pc' = "turning"
     \/ pc = "resting" /\ pc' = "connecting"
     \/ pc = "retrying" /\ pc' = "asking"
  /\ UNCHANGED <<room, tries, again, seen, attempts, joined, quit, buffers,
                 chatVars, sent, refusals>>
  /\ BotOnly

WakeUp ==
  /\ \/ pc = "waiting" /\ (quit \/ states # <<>>) /\ pc' = "turning"
     \/ pc = "resting" /\ pc' = "connecting"
     \/ pc = "retrying" /\ pc' = "asking"
  /\ UNCHANGED <<room, tries, again, seen, attempts, joined, quit, buffers,
                 chatVars, sent, refusals>>
  /\ BotOnly

(* client.connect, auth and the bot's presence; a new thread of the        *)
(* library's reads from the new connection                                 *)
ConnectAndAsk ==
  /\ connected' = TRUE
  /\ incoming' = <<>> /\ named' = FALSE
  /\ room' = 1 /\ tries' = Attempts
  /\ pc' = "asking"
  /\ UNCHANGED <<active, refusals>>

Refused(next) ==
  /\ refusals < MaxRefusals
  /\ refusals' = refusals + 1
  /\ pc' = next
  /\ UNCHANGED <<chatVars, room, tries>>

Connect ==
  /\ pc = "connecting"
  /\ IF quit
     THEN /\ pc' = "turning"
          /\ UNCHANGED <<attempts, again, chatVars, room, tries, refusals>>
     ELSE /\ attempts' = attempts - 1
          /\ again' = FALSE
          /\ ConnectAndAsk \/ Refused("turning")
  /\ UNCHANGED <<seen, joined, quit, buffers, sent>>
  /\ BotOnly

(* The next room of _join, or the next attempt at it.  Once it is told to  *)
(* stop, the inner loop has nothing to do and no end.                      *)
Ask ==
  /\ pc = "asking"
  /\ ~quit
  /\ tries' = tries - 1
  /\ pc' = "joining"
  /\ UNCHANGED <<room, again, seen, attempts, joined, quit, buffers, chatVars,
                 sent, refusals>>
  /\ BotOnly

Spinning == pc = "asking" /\ quit

(* A room that is still active is joined: the library may refuse this with *)
(* an error that nothing rescues.                                          *)
AlreadyActive ==
  /\ pc = "asking"
  /\ ~quit
  /\ RoomList[room] \in active
  /\ pc' = "failed"
  /\ UNCHANGED <<room, tries, again, seen, attempts, joined, quit, buffers,
                 chatVars, sent, refusals>>
  /\ BotOnly

(* _join is left, and its variables with it *)
JoinEnds(next) == pc' = next /\ room' = 1 /\ again' = FALSE

(* the answer of the server is yes; @joined is set after the first join    *)
(* only, not after that of a rejoin                                        *)
Join ==
  /\ pc = "joining"
  /\ incoming # <<>> /\ Head(incoming) = "yes"
  /\ incoming' = Tail(incoming)
  /\ active' = active \cup {RoomList[room]}
  /\ tries' = Attempts
  /\ IF room < Len(RoomList)
     THEN /\ pc' = "asking"
          /\ room' = room + 1
          /\ UNCHANGED <<joined, again>>
     ELSE /\ joined' = (joined \/ ~again)
          /\ JoinEnds(IF again THEN "handling" ELSE "turning")
  /\ UNCHANGED <<seen, attempts, quit, buffers, connected, named, sent,
                 refusals>>
  /\ BotOnly

(* Faulty: one attempt too many.                                           *)
JoinTriedOnceMore ==
  /\ pc = "joining"
  /\ \/ ~connected /\ UNCHANGED <<incoming, active>>
     \/ /\ incoming # <<>> /\ Head(incoming) = "no"
        /\ incoming' = Tail(incoming)
        /\ active' = active \ {RoomList[room]}
  /\ IF tries >= 0
     THEN /\ pc' = IF quit THEN "asking" ELSE "retrying"
          /\ UNCHANGED <<room, tries, again>>
     ELSE /\ JoinEnds(IF again THEN "failed" ELSE "turning")
          /\ tries' = Attempts
  /\ UNCHANGED <<seen, attempts, joined, quit, buffers, connected, named, sent,
                 refusals>>
  /\ BotOnly

(* ... or no, or the connection is gone.  After the last attempt the error *)
(* is caught on the first join only.                                       *)
JoinRefused ==
  /\ pc = "joining"
  /\ \/ ~connected /\ UNCHANGED <<incoming, active>>
     \/ /\ incoming # <<>> /\ Head(incoming) = "no"
        /\ incoming' = Tail(incoming)
        /\ active' = active \ {RoomList[room]}
  /\ IF tries > 0
     THEN /\ pc' = IF quit THEN "asking" ELSE "retrying"
          /\ UNCHANGED <<room, tries, again>>
     ELSE /\ JoinEnds(IF again THEN "failed" ELSE "turning")
          /\ tries' = Attempts
  /\ UNCHANGED <<seen, attempts, joined, quit, buffers, connected, named, sent,
                 refusals>>
  /\ BotOnly

(* _leave: the rooms that are active are left, in their order; each time   *)
(* the bot waits for the server's answer ...                               *)
LeaveRoom ==
  /\ pc \in Leaving
  /\ incoming # <<>> /\ Head(incoming) = "left"
  /\ incoming' = Tail(incoming)
  /\ \E k \in DOMAIN RoomList :
       /\ RoomList[k] \in active
       /\ \A l \in 1..(k - 1) : RoomList[l] \notin active
       /\ active' = active \ {RoomList[k]}
  /\ UNCHANGED <<botVars, quit, buffers, connected, named, sent, refusals>>
  /\ BotOnly

(* ... or the connection is gone, an error that nothing rescues.           *)
LeaveFails ==
  /\ pc \in Leaving
  /\ active # {} /\ ~connected
  /\ pc' = "failed"
  /\ UNCHANGED <<room, tries, again, seen, attempts, joined, quit, buffers,
                 chatVars, sent, refusals>>
  /\ BotOnly

LeaveEnds == pc' = IF pc = "leaving" THEN "handling" ELSE "ended"

(* Faulty: the rooms are left, but the connection is kept.                 *)
CloseRooms ==
  /\ pc \in Leaving
  /\ active = {}
  /\ LeaveEnds
  /\ UNCHANGED <<room, tries, again, seen, attempts, joined, quit, buffers,
                 chatVars, sent, refusals>>
  /\ BotOnly

(* client.close *)
Close ==
  /\ pc \in Leaving
  /\ active = {}
  /\ LeaveEnds
  /\ connected' = FALSE /\ incoming' = <<>> /\ named' = FALSE
  /\ joined' = FALSE
  /\ UNCHANGED <<room, tries, again, seen, attempts, quit, buffers, active,
                 sent, refusals>>
  /\ BotOnly

Turn ==
  /\ pc = "turning"
  /\ IF quit
     THEN /\ pc' = IF connected /\ joined THEN "closing" ELSE "ended"
          /\ UNCHANGED seen
     ELSE /\ pc' = IF states = <<>> THEN "top" ELSE "handling"
          /\ seen' = (states # <<>> /\ connected)
  /\ UNCHANGED <<room, tries, again, attempts, joined, quit, buffers, chatVars,
                 sent, refusals>>
  /\ BotOnly

(* the announcements whose room is active *)
Ready == {i \in DOMAIN announces : RoomOf[announces[i]] \in active}

(* Faulty: the latest announcement first, as in _say.                      *)
AnnounceLatestFirst ==
  /\ pc = "announcing"
  /\ \E i \in Ready :
       /\ \A k \in Ready : i >= k
       /\ sent' = Append(sent, announces[i])
       /\ announces' = RemoveAt(announces, i)
  /\ UNCHANGED <<botVars, quit, states, says, made, mixed, chatVars, refusals>>
  /\ BotOnly

(* _announce, one announcement after the other: one whose room is not      *)
(* active stays in the buffer.                                             *)
Announce ==
  /\ pc = "announcing"
  /\ \E i \in Ready :
       /\ \A k \in Ready : i <= k
       /\ sent' = Append(sent, announces[i])
       /\ announces' = RemoveAt(announces, i)
  /\ UNCHANGED <<botVars, quit, states, says, made, mixed, chatVars, refusals>>
  /\ BotOnly

Announced ==
  /\ pc = "announcing"
  /\ Ready = {}
  /\ pc' = "handling"
  /\ UNCHANGED <<room, tries, again, seen, attempts, joined, quit, buffers,
                 chatVars, sent, refusals>>
  /\ BotOnly

(* handle_state_change: the latest change first *)
Say ==
  /\ sent' = sent \o Reverse(says)
  /\ says' = <<>>

HandleState ==
  /\ pc = "handling"
  /\ states # <<>>
  /\ states' = Front(states)
  /\ LET change == Last(states) IN
     \/ /\ change = "announce" /\ seen
        /\ pc' = "announcing"
        /\ UNCHANGED <<announces, says, sent, chatVars, again, room, tries,
                       refusals>>
     \/ /\ change = "say" /\ seen
        /\ Say
        /\ UNCHANGED <<announces, chatVars, pc, again, room, tries, refusals>>
     \/ /\ change = "leave" /\ seen /\ joined
        /\ pc' = "leaving"
        /\ UNCHANGED <<announces, says, sent, chatVars, again, room, tries,
                       refusals>>
     \/ /\ change = "leave" /\ ~seen
        /\ active' = {}
        /\ UNCHANGED <<announces, says, sent, connected, incoming, named, pc,
                       again, room, tries, refusals>>
     \/ /\ change = "rejoin" /\ ~seen
        /\ again' = TRUE
        /\ ConnectAndAsk \/ Refused("failed")
        /\ UNCHANGED <<announces, says, sent>>
     \/ /\ \/ change \in {"announce", "say"} /\ ~seen
           \/ change = "leave" /\ seen /\ ~joined
           \/ change = "rejoin" /\ seen
        /\ UNCHANGED <<announces, says, sent, chatVars, pc, again, room, tries,
                       refusals>>
  /\ UNCHANGED <<seen, attempts, joined, quit, made, mixed>>
  /\ BotOnly

Handled ==
  /\ pc = "handling"
  /\ states = <<>>
  /\ pc' = "top"
  /\ seen' = FALSE
  /\ UNCHANGED <<room, tries, again, attempts, joined, quit, buffers, chatVars,
                 sent, refusals>>
  /\ BotOnly

-----------------------------------------------------------------------------
(* What others put into the bot's buffers, under its lock.                 *)

(* Faulty: the bot is not told.                                            *)
AddQuietly(t) ==
  /\ announces' = Append(announces, t)
  /\ made' = Append(made, t)
  /\ UNCHANGED <<says, states>>

AddAnnouncement(t) ==
  /\ announces' = Append(announces, t)
  /\ states' = Append(states, "announce")
  /\ made' = Append(made, t)
  /\ UNCHANGED says

AddSaying(t) ==
  /\ says' = Append(says, t)
  /\ states' = Append(states, "say")
  /\ made' = Append(made, t)
  /\ UNCHANGED announces

AnnounceAlert(a) ==
  /\ BotLockFree
  /\ ~Contains(made, a)
  /\ AddAnnouncement(a)
  /\ UNCHANGED <<botVars, quit, chatVars, interpreterVars, otherVars, mixed,
                 sent, refusals>>

Mixes == pc = "retrying" \/ Contains(states, "leave") \/ Contains(states, "rejoin")

(* on_exception, before and after its sleep                                *)
BufferLeave ==
  /\ leaving > 0
  /\ BotLockFree
  /\ leaving' = leaving - 1
  /\ IF joined /\ ~quit
     THEN /\ states' = Append(states, "leave")
          /\ rejoining' = rejoining + 1
          /\ mixed' = (mixed \/ Mixes)
     ELSE UNCHANGED <<states, rejoining, mixed>>
  /\ UNCHANGED <<botVars, quit, announces, says, made, chatVars,
                 interpreterVars, given, drops, sent, refusals>>

BufferRejoin ==
  /\ rejoining > 0
  /\ BotLockFree
  /\ rejoining' = rejoining - 1
  /\ IF quit
     THEN UNCHANGED <<states, mixed>>
     ELSE /\ states' = Append(states, "rejoin")
          /\ mixed' = (mixed \/ Mixes)
  /\ UNCHANGED <<botVars, quit, announces, says, made, chatVars,
                 interpreterVars, leaving, given, drops, sent, refusals>>

-----------------------------------------------------------------------------
(* The server, and the library's thread.                                   *)

ServerSays(c) ==
  /\ connected
  /\ c \in Commands \ given
  /\ RoomOf[c] \in active \cup {Nil}
  /\ given' = given \cup {c}
  /\ incoming' = Append(incoming, c)
  /\ UNCHANGED <<botVars, quit, buffers, connected, active, named,
                 interpreterVars, leaving, rejoining, drops, sent, refusals>>

(* the bot waits for an answer *)
Waits == pc = "joining" \/ (pc \in Leaving /\ active # {})

ServerAnswers ==
  /\ connected
  /\ Waits
  /\ ~\E a \in Answers : Contains(incoming, a)
  /\ \/ /\ incoming' = Append(incoming, IF pc = "joining" THEN "yes" ELSE "left")
        /\ UNCHANGED refusals
     \/ /\ pc = "joining"
        /\ refusals < MaxRefusals
        /\ incoming' = Append(incoming, "no")
        /\ refusals' = refusals + 1
  /\ UNCHANGED <<botVars, quit, buffers, connected, active, named,
                 interpreterVars, otherVars, sent>>

(* The library calls on_exception in a thread of its own.  The connection  *)
(* is gone, or is not.                                                     *)
Drop ==
  /\ connected
  /\ drops < MaxDrops
  /\ drops' = drops + 1
  /\ leaving' = leaving + 1
  /\ \/ UNCHANGED <<connected, incoming, named>>
     \/ connected' = FALSE /\ incoming' = <<>> /\ named' = FALSE
  /\ UNCHANGED <<botVars, quit, buffers, active, interpreterVars, rejoining,
                 given, sent, refusals>>

NextIsCommand == incoming # <<>> /\ Head(incoming) \in Commands

(* on_message of a room asks the bot for its identifiers *)
Identify ==
  /\ NextIsCommand
  /\ RoomOf[Head(incoming)] # Nil
  /\ ~named
  /\ BotLockFree
  /\ named' = TRUE
  /\ UNCHANGED <<botVars, quit, buffers, connected, active, incoming,
                 interpreterVars, otherVars, sent, refusals>>

ReceiveMessage ==
  /\ NextIsCommand
  /\ named \/ RoomOf[Head(incoming)] = Nil
  /\ InterpreterLockFree
  /\ messages' = Append(messages, Head(incoming))
  /\ incoming' = Tail(incoming)
  /\ named' = FALSE
  /\ UNCHANGED <<botVars, quit, buffers, connected, active, answering, iquit,
                 iended, otherVars, sent, refusals>>

-----------------------------------------------------------------------------
(* The interpreter: it takes the latest message, and keeps its lock until  *)
(* there are none.                                                         *)

Interpret ==
  /\ ~iended
  /\ answering = Nil
  /\ messages # <<>>
  /\ answering' = Last(messages)
  /\ messages' = Front(messages)
  /\ UNCHANGED <<botVars, quit, buffers, chatVars, iquit, iended, otherVars,
                 sent, refusals>>

(* announce or say, which take the bot's lock; then what the command has   *)
(* done, whose failure nothing rescues                                     *)
Answer ==
  /\ answering # Nil
  /\ BotLockFree
  /\ IF RoomOf[answering] # Nil THEN AddAnnouncement(answering)
                                ELSE AddSaying(answering)
  /\ \/ /\ IF messages = <<>>
           THEN answering' = Nil /\ UNCHANGED messages
           ELSE answering' = Last(messages) /\ messages' = Front(messages)
        /\ UNCHANGED iended
     \/ /\ answering \in Actions
        /\ answering' = Nil /\ iended' = TRUE /\ UNCHANGED messages
  /\ UNCHANGED <<botVars, quit, mixed, chatVars, iquit, otherVars, sent,
                 refusals>>

EndInterpreter ==
  /\ iquit /\ ~iended
  /\ answering = Nil /\ messages = <<>>
  /\ iended' = TRUE
  /\ UNCHANGED <<botVars, quit, buffers, chatVars, messages, answering, iquit,
                 otherVars, sent, refusals>>

(* Pikelet#stop, under the lock of the pikelet that is stopped.  The       *)
(* coordinator stops the bot first and waits for its end.                  *)
StopBot ==
  /\ BotLockFree /\ pc \notin Gone
  /\ ~quit
  /\ quit' = TRUE
  /\ UNCHANGED <<botVars, buffers, chatVars, interpreterVars, otherVars, sent,
                 refusals>>

StopInterpreter ==
  /\ pc \in Gone
  /\ InterpreterLockFree
  /\ ~iquit
  /\ iquit' = TRUE
  /\ UNCHANGED <<botVars, quit, buffers, chatVars, messages, answering, iended,
                 otherVars, sent, refusals>>

-----------------------------------------------------------------------------

BotStep ==
  \/ Top \/ WakeUp \/ Connect \/ Ask \/ AlreadyActive \/ Join \/ JoinRefused
  \/ Turn \/ HandleState \/ Announce \/ Announced \/ Handled
  \/ LeaveRoom \/ LeaveFails \/ Close

LibraryStep == Identify \/ ReceiveMessage

InterpreterStep == Interpret \/ Answer \/ EndInterpreter

HandlerStep == BufferLeave \/ BufferRejoin

Next ==
  \/ BotStep \/ LibraryStep \/ InterpreterStep
  \/ HandlerStep
  \/ ServerAnswers \/ Drop \/ StopBot \/ StopInterpreter
  \/ \E c \in Commands : ServerSays(c)
  \/ \E a \in Alerts : AnnounceAlert(a)

(* The threads run, the handlers of exceptions get the lock, and the       *)
(* server answers while there is a connection.                             *)
Fairness ==
  /\ WF_vars(BotStep)
  /\ WF_vars(LibraryStep)
  /\ WF_vars(InterpreterStep)
  /\ WF_vars(HandlerStep)
  /\ WF_vars(ServerAnswers)

Spec == Init /\ [][Next]_vars

FairSpec == Spec /\ Fairness

-----------------------------------------------------------------------------

Before(s, a, b) == \E i, j \in DOMAIN s : i < j /\ s[i] = a /\ s[j] = b

(* What is announced in a room is said there once, and after all that was  *)
(* announced there before it, whatever joins and leaves come between       *)
(* (announce appends, _announce goes through the buffer from the front).   *)
(* Private answers are said once, but have no such order.                  *)
SaidInOrder ==
  /\ IsInjective(sent)
  /\ Range(sent) \subseteq Range(made)
  /\ \A t \in Range(sent), e \in Range(made) :
       RoomOf[t] # Nil /\ RoomOf[e] = RoomOf[t] /\ Before(made, e, t)
         => Before(sent, e, t)

(* A bot that sleeps with a connection is in all its rooms, as nothing     *)
(* else would make it join them again, unless an exception came before it  *)
(* had dealt with an earlier one: then the changes are taken in the wrong  *)
(* order, or the leave by a connection that was read before the rejoin.    *)
IdleInItsRooms ==
  pc = "waiting" /\ states = <<>> /\ connected => active = Rooms \/ mixed

(* The library's thread waits for a lock that is held by a thread that     *)
(* waits for it: by the bot, which needs the answer behind the command, or *)
(* by the interpreter, which needs the bot's.                              *)
Stuck ==
  /\ Waits
  /\ NextIsCommand
  /\ \/ RoomOf[Head(incoming)] # Nil /\ ~named
     \/ answering # Nil

(* An announcement that found no connection, or not its room, stays until  *)
(* there is another: that takes a failure of the connection.               *)
LeftOver(t) ==
  /\ drops > 0
  /\ pc = "waiting"
  /\ states = <<>>
  /\ Contains(announces, t) \/ Contains(says, t)

(* An action that failed ended the interpreter before it came to c.        *)
LeftBehind(c) == iended /\ Contains(messages, c)

HeldUp(c) ==
  \/ pc \in Gone
  \/ LeftBehind(c)
  \/ Spinning
  \/ Stuck
  \/ LeftOver(c)

(* A command that the interpreter has received is answered, but for these. *)
CommandsAnswered ==
  \A c \in Commands :
    (answering = c \/ Contains(messages, c)) ~> Contains(sent, c) \/ []HeldUp(c)

(* A bot that is told to stop comes to an end, unless it was told while it *)
(* waited to try a room again, or has to leave rooms while the library's   *)
(* thread waits for it.                                                    *)
StopsWhenTold == quit ~> pc \in Gone \/ [](Spinning \/ Stuck)

(* What is said of the wait in _join: "The only thing that should be       *)
(* interrupting this wait is a pikelet.stop", and "may have changed during *)
(* previous wait" (jabber.rb 762-770): such a stop is obeyed.              *)
StopIsObeyed == quit ~> pc \in Gone
=============================================================================
