# Flapjack in TLA+

Flapjack routes the results of monitoring systems: *events* about *checks*
come in over a queue, a *processor* decides which of them are worth a
*notification*, a *notifier* turns a notification into *alerts* for the media
of the people concerned, and *gateways* deliver the alerts. Everything these
parts share is in Redis. This directory holds TLA+ models of those parts,
written from the source (`src/lib/flapjack`, `src/src/flapjack`), the TLC runs
that check them, and proofs for the TLA+ proof system.

## 1. Inventory

| Part | Source | State it keeps | Operations | Talks to |
|---|---|---|---|---|
| Event queue | `data/event.rb`, `processor.rb` 99-171, `src/src/flapjack/transport.go` | Redis lists `events`, `events_actions`, `events_archive:*`, `events_rejected:*` | `Event.push`, `Transport.send`, `foreach_on_queue`, `wait_for_queue` | senders -> processors |
| Processor | `processor.rb`, `filters/*.rb`, `data/check.rb`, `data/state.rb` | the check's condition, history of states, `latest_notifications`, `most_severe`, maintenance periods, statistics | `process_event`, five filters, `update_check`, `generate_notification` | event queue -> notification queue |
| Record queues | `record_queue.rb` | a Redis list of record ids, a list of tokens, the records | `push`, `foreach`, `wait` | processor -> notifier -> gateways |
| Notifier | `notifier.rb`, `data/alert.rb` | per medium: last state, last rollup type; per check: `alertable` | `process_notification`, `alerts_for` | notification queue -> alert queues |
| Routing | `data/rule.rb`, `data/check.rb` 91-191, `data/medium.rb` 63-135, `data/tag.rb`, `data/contact.rb` | rules, tags, contacts, media and their links | `alerting_media`, `checks`, `matching_*`, `media_added/removed` | notifier, JSON API |
| Coordinator, pikelets | `coordinator.rb`, `pikelet.rb` | one thread per pikelet, a queue of signals, configuration | `start`, `stop`, `reload`, `setup_signals`, retry up to `max_runs` | every other part |
| Alert gateways | `gateways/email.rb`, `sms_*.rb`, `slack.rb`, `aws_sns.rb`, `threema.rb` | none | take an alert, deliver it, destroy it | alert queues -> outside |
| PagerDuty | `gateways/pager_duty.rb` | a semaphore key in Redis | send; look for acknowledgements | alert queue, events |
| Jabber | `gateways/jabber.rb` | three threads, arrays guarded by mutexes | notifier, interpreter, bot | alert queue, chat, events |
| Oobetet | `gateways/oobetet.rb` | times of the last events seen in a chat | notifier, bot, time checker | chat, PagerDuty |
| Web, JSON API | `gateways/web.rb`, `gateways/jsonapi*` | none of their own | change checks, maintenance, rules, contacts; push action events | every record |
| Command line | `cli/*.rb` | none, the mirror receiver a cursor | maintenance, receivers, migration, purge | records, event queue |
| Go programs | `libexec/*.go`, `src/src/flapjack/*.go` | the HTTP broker a map of states | receive over HTTP, send again at intervals | event queue |
| Configuration, logger, Redis proxy, utilities | `configuration.rb`, `logger.rb`, `redis_proxy.rb`, `utility.rb` | none of interest | | |

Concurrency comes from several processes and threads that share Redis
(pikelets are threads of one process, and there may be several processes, each
with some of the pikelets) and from people and monitoring systems that act at
any time. A single Redis command, a `MULTI`, and a block under zermelo's class
locks are atomic; nothing else is. There is no delivery guarantee beyond that:
an id or an event leaves its list before it is handled.

What makes each part correct, in short: the queues lose, duplicate and reorder
nothing unless something fails, and never sleep on work; the processor
announces what is due and nothing else; the records it decides by stay true to
what it announced; the notifier tells every medium of a failure and of its end
once, and its summaries open and close; both ends of the routing rules agree;
pikelets stop when asked, restart as configured, and end the process when one
of them is beyond help.

The list of what is hard to test in this code, line by line, is under
"hazards" in `PROJECT.json`, each with the properties that would catch it.

## 2. Modules

| Module | Models |
|---|---|
| `Handover` | nothing in the code: the promise of a queue |
| `RecordQueue` | a record queue, its producers and its consumers' main loops |
| `EventQueue` | the event queue, its senders, and the processors' main loops |
| `Conditions` | `data/condition.rb` |
| `Announcements` | nothing in the code: what the processor promises the notifier about one check |
| `Processor` | `process_event` on one check, and what people do to the check |
| `Rules` | which media hear of which checks, asked from both ends |
| `Routing` | rules, their links and tags under the JSON API's requests |
| `Notifier` | `process_notification`, with the processor, people and crashes around it |
| `Coordinator` | the coordinator, the pikelets' threads and the system signals: start, retry, stop, shutdown |
| `ChatBot` | the threads of the Jabber gateway around its two locks and the chat server |
| `SequenceFacts` | lemmas about sequences, and about queues with a history |
| `RecordQueueProofs`, `EventQueueProofs`, `ProcessorProofs`, `RoutingProofs`, `NotifierProofs`, `CoordinatorProofs`, `ChatBotProofs` | theorems about the modules they are named after |
| `MC_*` | instances for TLC |

`Notifier` composes `Rules` (which media), `Announcements` (what comes in) and
the order a `RecordQueue` keeps; `Processor` implements `Announcements`, and
both queues implement `Handover`. `Conditions` is below everything.
`Coordinator` is about the threads the other modules' loops run in: its
`Fail`, `RaiseStop` and `Enter` are what `RecordQueue` and `EventQueue` know as
`Crash`, `Stop` and `Start`. It leaves open what a pikelet does while it works;
`ChatBot` looks at the one pikelet whose end depends on that.

### 2.1 The two queues

Both queues have the same idea: a list of work, and beside it a list of `+`
tokens on which an idle consumer blocks (`brpop`). A consumer drains the list,
ignoring the tokens, and then waits for one token, which wakes one consumer.
Tokens therefore pile up, and a wakeup may find nothing to do; what must never
happen is work in the list, everybody asleep, and no token (`NoLostWakeup`).

An action is one Redis command or `MULTI` together with the Ruby or Go code up
to the next one, so that every interleaving of processes is there. In
`RecordQueue`, `Save`/`Push` are the producer's two commands
(`notification.save!`, then `queue.push`); `Pop`, `Yield`, `Handle`, `Destroy`
are `foreach` with the handler between; `Drained`, `Wake` are the end of the
loop and `wait`; `Stop` is the `PikeletStop` exception in the blocked wait,
which may come after Redis has already popped the token; `Crash`, `Start`,
`ProducerCrash` are what their names say. `Vanish` is another process that
destroys a record whose id is still queued (then `find_by_id` finds nothing:
`Skip`).

In `EventQueue`, `Push` is Ruby's `MULTI`, `SendEvent`/`SendToken` the two
commands of the Go library, with `SendFails` between them; `Take` is
`rpoplpush` or `rpop`, `Reject` the `MULTI` that moves an invalid event to the
rejects, `Accept`/`Processed` the call of `process_event`, `Drained` the end of
the drain with `exit_on_queue_empty`.

`Handover` is the abstract queue: sent, taken in the same order and at most
once, settled for good. Both queues implement it (`HandsOverInOrder`,
`TakenInOrder`), with their histories as the refinement mapping and "taken and
in nobody's hand" as settled.

### 2.2 The processor

`process_event` runs under the locks of every class it touches and looks at one
check, so one event is one action of `Processor`, and people's changes to the
check are actions between events. The operators follow the code in its order:
`NewState`, `ScheduledWithNcsm`, `RecordState` (update_check and the history of
states), the filters (`OkBlocks`, `InMaintenance`, `UnscheduledBlocks`,
`DelaysBlock`, `AcknowledgementBlocks`; a filter is asked only if those before
it pass, and two of them change maintenance: `UnscheduledAfterOk`,
`UnscheduledAfterPass`), then `GenerateNotification` with `LatestWith` and
`MostSevereWith`. Two of the ways an event ends the processor's thread are in
the model: `UnknownCheck` and `Fail`.

The clock counts half minutes, the default initial failure delay; it moves on
with every event, as no two events have the same sub-second timestamp. Of a
state the model keeps when it was made, its condition and its action; texts,
performance data and statistics are left out. An event carries its own delays
or none.

The history variables `lastNotified`, `turnedAt` and `sinceAck` record what was
announced and when the check turned; the properties compare the check's own
records (`RecordsAreTrue`: the condition, the newest entry of the history, the
first of the latest notifications, the worst severity since the last
acknowledgement), and the decisions made by them, with these. `DueIsNotified`
is the other half of the filters: each of them may only hold back what it is
there for. What a decision is allowed to be is `DelaysKept`,
`MaintenanceIsSilent` and `AnnouncesInOrder`, the refinement.

### 2.3 Routing

`Rules` has no state. It holds the two answers the code gives to one question:
`AlertingMedia` (`Check#alerting_media`: the rules whose conditions, strategy
and tags fit the check, acceptors less rejectors) decides who is alerted, and
`ChecksOf` (`Medium#checks`) which checks a medium counts in its summaries.
They are written apart, as in the code, and differ where the code does: only
the first looks at conditions and at `has_media`; a rule that goes by tags and
has none fits no check for the second, and for the first all or none,
depending on its strategy.

`Routing` changes the rules by requests, one action each, since a request runs
under its class locks. A request that sets attributes and links at once is one
of `CreateRule` or `PatchRule` followed by the action of the association; what
holds after every action holds after both. `MediaAdded` and `MediaRemoved` are
the callbacks of the rule's end; `AddRules`, `RemoveRules` come from the
medium's, where the record store (outside the repository) runs no callback of
the rule. `EndsAgree` and `AlertedIsCounted` say how far the two answers fit
each other.

A time restriction is the set of hours in which it occurs; contacts and time
zones are left out (a contact's rules and media only meet each other, and both
ends use the contact's zone).

### 2.4 The notifier

`Take` is `foreach` up to the call of `alerts_for`, with the check loaded
(`seen`); `AlertsFor` is all of `alerts_for`, which runs under class locks;
`PushAlert` queues one of the alerts it saved, `Destroy` ends the handler. The
processor, people and the clock may act between any two of them, and `Crash`
may come at any of them. Because the check is loaded before the locks are
taken, and `save` writes only attributes that were changed (the record store's
behaviour, taken from the code's remark "no-op if not new and not changed",
`processor.rb` 238), a stale mark could stand; `AlertableAfter` models that, and
`AlertableIsCurrent` says how far it does not.

What the processor does is here only as far as the notifier sees it: its
notifications, under `Announcements`, and maintenance. There is one notifier,
so that its queue's order (proved of `RecordQueue`) is the order of handling.
With several, `alerts_for` of two notifications of one check may come in either
order. Rules and tags are fixed in a run, disabling and deleting checks left out.

History variables say what the properties excuse: `lost` (a notification died
with its notifier, and none of the check came since), `cut` (an alert did),
`moved` and `outdated` (people started or ended a maintenance, and no
notification has made the notifier look again). `lastWord` is what a medium was
last sent, as opposed to what its records say. Without those excuses the properties would be
false, and the code promises nothing else: a notification is popped before it
is handled, and ending a maintenance calls nobody.

### 2.5 The coordinator

`start` makes the pikelets' threads (`StartPikelet`), then sets up the signals
(`SetupSignals`) and enters the monitor: `Await` is `@state = :running` and the
wait. `CallShutdown` and `Handle` are `@shutdown`, called by a pikelet that is
out of runs or by the thread that a signal's handler makes; each is granted if
the state is `:running`, and sleeps on the same condition otherwise (`Granted`,
`Grant`, `Refuse`). A condition variable wakes the thread that has waited
longest, so `waiting` is a sequence; a woken thread must get the monitor again,
and sleeps again if the state is not the one it waits for.

A section under the monitor is one action. The exception is the shutdown
itself, during which the coordinator keeps the monitor (`MonitorFree`) and
takes many steps, one pikelet at a time: `LookAt` is the test of `@finished`
under the pikelet's lock; `RaiseStop`, `SignalStop` and `StopServer` are the
three kinds of stop (an exception raised in the thread, `@should_quit` with a
signal, `@server.stop(true)`); `SeeFinished` is the wait for `@finished`, `Join`
that for the thread. A pikelet's thread is outside the rescued block, in it
(`idle`, or `busy` with its lock), past it, in `@shutdown`, or dead. `Fail` is
any exception, with the count of runs; `EndAll` is `GlobalStop`; `RunAgain` is
the loop on `keep_running`.

HUP is modelled to the point where `reload` asks a pikelet for its `type`. No
pikelet has one, the thread dies of it and `abort_on_exception` ends the process
(`Reload`); what `reload` would do after that no execution reaches.

A shutdown can be held up for good in five situations, and `HeldUp` names them
one by one, so that `ShutdownCompletes` says there is no sixth: a request that
went to sleep before the coordinator did took its wakeup; a pikelet that once
failed and was retried is run again when it ends, as `keep_running` stays true;
a pikelet that fails while it is being stopped waits for the monitor, which the
coordinator holds while it waits for the pikelet; the handler of a second signal
waits for `:running`, which does not come again, on the main thread; a web
server that does not exist yet is not told. That a stop is raised outside
the rescued block and ends the process at once (`over = "aborted"`) counts as an
end, of the process and not of the shutdown.

### 2.6 The chat bot

Four threads of `gateways/jabber.rb` meet in `ChatBot`: the bot (`Top` to
`Handled`), which joins the rooms and speaks; the interpreter (`Interpret`,
`Answer`), which answers commands; the chat library's (`Identify`,
`ReceiveMessage`), which hands over what the server sent; and the notifier's
(`AnnounceAlert`). `BufferLeave` and `BufferRejoin` are the two halves of
`on_exception`, with its sleep between. The bot and the interpreter hold their
lock at all times but while they wait on its condition; other threads' sections
under one of these locks are one action each.

Of the bot's loop the model has what is done under its lock and what is read
once and used later: `seen` is the connection as `handle_state_change` read it,
and changes are taken from the end at which they are put. `Connect` is the first
join, with its own attempts; `Ask`, `Join`, `JoinRefused` and `AlreadyActive`
are `_join`, with its attempts per room; `HandleState` leaves and joins again.
Only the first join sets `@joined` (line 681), a leave clears it and a rejoin
leaves it as it is: a bot that left, was refused by the server and then rejoined
is in its rooms without knowing it, so it does not wait but connects again, on a
live client, or gives up.

`_leave` goes from one active room to the next and waits for the server's answer
each time, with the lock held (`LeaveRoom`); `Close` is its end, of a leave
(`leaving`) or of the bot (`closing`). It does nothing unless `@joined` is set,
so a bot that lost that ends without leaving its rooms.

`_announce` goes through the buffer from the front and says what belongs in an
active room, one after the other (`Announce`, `Announced`), so that other
threads' steps come between two of them; the rest stays, in its order.
`SaidInOrder` compares what was said with what was put into the buffer, room by
room. Of a text the model keeps whether it is an answer or an alert, and its
room; a command in a room needs the bot's identifiers first (`Identify`), a
private one does not. Of what a command has done after its answer (`action.call`,
line 511, outside the rescue) the model keeps that it may fail, which ends the
interpreter.

What is outside the repository, the library (`xmpp4r`), is taken to behave as
the code expects: it hands over one stanza after the other on a thread of its
own, `join` and `exit` wait for the server's answer, which comes through that
thread, and `on_exception` is called in a new thread. A refusal or the loss of
the connection is an error of the two kinds `_join` rescues (`_leave` rescues
none, `LeaveFails`); joining a room that still is active may or may not be an
error of another kind (`AlreadyActive`). An error that ends the bot's thread
(`failed`) is the end here, since running it again is the coordinator's doing.

`IdleInItsRooms`, `CommandsAnswered` and `StopsWhenTold` say what the bot is for
and name what stands against it: `mixed` (an exception came before an earlier
one was dealt with), `Stuck` (the library's thread waits for a lock whose owner
waits for the library, at a join, a leave or a stop), `LeftBehind` (what another
command had done failed, and ended the interpreter), `LeftOver` (an answer found
no connection and stays in its buffer until there is one), and `Spinning`
(finding 4).

## 3. Runs

| Run | Result | What it shows |
|---|---|---|
| `record_queue` | holds | wakeups kept, one holder, order kept, nothing handled twice, nothing left over without a failure, queue drained while the consumers stay up |
| `event_queue` | holds | the same for events; with an archive nothing is lost; one token gets the queue drained |
| `event_queue_exit` | holds | without an archive only failures lose events; `exit_on_queue_empty` leaves nothing behind |
| `processor` | holds | delays, maintenance, recoveries and severities over every sequence of events about a check; the records the filters use stay true; `Announcements` is implemented |
| `processor_tests` | violated | finding 1 |
| `routing` | holds | the two ends of the rules fit each other after any requests |
| `routing_media` | violated | finding 2 |
| `notifier` | holds | marks, summaries, intervals and the last word to each medium are right once the notifier has caught up |
| `coordinator` | holds | the first request decides and wakes the coordinator, no pikelet is cut off, and a shutdown ends but for the five situations |
| `coordinator_failure` | violated | finding 3 |
| `chat_bot` | holds | rooms hear announcements in order, a resting bot is in its rooms, commands are answered, a stop ends the bot, but for the situations named |
| `chat_bot_stop` | violated | finding 4 |

Bounds. Two producers or senders and two consumers are enough for every race in
the queues (each race is between one step of one process and one of another;
a third repeats them), three objects allow one in hand, one queued and one on
its way; two failures allow a second during the recovery from a first. In
`Processor`, six instants are enough for: a failure, its delay, an
announcement, an acknowledgement, a recovery and a new failure; one scheduled
maintenance at a time besides that of a new check; two settings of an event's
delays, one with the failure delay off. In `Routing`, two rules (an acceptor
and a rejector, or two that overlap), two media, two tags and one check; the
rules' settings are those in `MC_Routing`, and rules are interchangeable. In
`Notifier`, four notifications about two checks (two failures and their ends),
two waiting, five instants; one maintenance started by people and one crash. Its
medium `m1` hears of everything and sends summaries from two checks on, with an
interval; `m2` hears of one tag, at critical, in every other hour, less a
rejector. In `Coordinator`, one pikelet of each kind of stop, retried once, not
at all and once; two signals and two failures, so that a second one can meet the
handling of the first. `ChatBot` has two rooms, so that a join or a leave can be
half done, a private command that has something done, a command and an alert in a
room, one exception and one refusal; it has the three attempts of the code, so
that a bot that lost `@joined` can be refused once and still join a live client
again.
Deadlock is not checked where the bounds, or all events sent and taken, stop
the system, or where it ends (`Coordinator`) or is held up as described
(`ChatBot`); `Routing` never stops.

Fairness. A consumer of a queue that is up takes its next step (a thread that is
not blocked runs, Redis answers), and a Go sender goes on to its second command
or fails. No fairness is assumed of senders, people, crashes, restarts or
signals. `QueueDrained` and `TokenDrainsQueue` say that a queued id, or an event
with a token in the list, is taken if from some point on no consumer is stopped.
In `Coordinator`, threads run and a pikelet's handler returns; strong fairness is
assumed of the coordinator's steps at a pikelet, because a busy pikelet takes
and frees its lock over and over; a mutex that is freed wakes the thread that
has waited for it longest, and a pikelet blocks or sleeps without it between two
turns. In `ChatBot`, threads run, the handlers of exceptions get the bot's lock,
and the server answers a join or a leave while there is a connection; a wait
with a timeout ends. Nobody is bound to send commands, refuse, fail or stop.
`Processor`, `Routing` and `Notifier` have safety properties only: that what is
queued is taken is what the queues' runs show.

Each property of a passing run has a mutant in `PROJECT.json`: a faulty variant
of a definition, kept right before it and marked "Faulty". Replacing the
definition by its variant violates the property.

## 4. Findings

1. `processor_tests`: a test notification that names its condition, as
   `Event.test_notifications` sends it by default, ends the processor's thread.
   The severity taken from `test_notifications critical` keeps its leading
   space, and the notification does not validate.
2. `routing_media`: after one of a rule's two media is removed, `has_media` is
   false and the rule alerts nobody; after the last is removed it is true.
3. `coordinator_failure`: a pikelet that is out of runs before the coordinator
   waits for the first time asks for a shutdown that never comes, and the next
   signal wakes that pikelet's thread instead of the coordinator.
4. `chat_bot_stop`: a bot that is told to stop while it waits to try a room
   again runs in a circle in `_join`, and the shutdown waits for it.

Seen on the way, and in no run, as each is a sentence that says more than the
code does, or a line that other models pass through:

- The comment on the `Delays` filter promises a delay after every change of
  state; the code, and `features/events.feature`, apply it to the step from
  healthy to failing only.
- `features/notification_rules.feature` has alerts go to the media of the
  "highest severity reached since last ok"; the code keeps that severity until
  the next acknowledgement, past any number of recoveries.
- "Recoveries are not affected by intervals" holds for one check; the last state
  is kept per medium, so that with two a recovery shortly after another one's is
  skipped. (`EndIsTold` still holds.)
- The API describes `alerting_checks` as the checks that have alerted through a
  medium; it holds all failing checks its rules match by tags.
- `reload` calls `type` on pikelets, which have none (`coordinator.rb` 189).
- `pager_duty.rb` 195 compares what `setnx` returns with 0.
- The bot's attempts to connect are counted over its life, not since it was last
  connected, so that it may stop with "couldn't connect in 3 attempts"
  (`jabber.rb` 688) while it is connected and in its rooms.
- A bot that is told to stop leaves its rooms one by one under its lock
  (`jabber.rb` 797); a room message that is ahead of the server's answer waits
  for that lock (645), and neither thread goes on: `Stuck` in `StopsWhenTold`.
- `slack` and `sms_nexmo` are gateways, but in no wrapper's `TYPES`
  (`pikelet.rb` 146).

## 5. Proofs

TLC checks instances; the theorems hold for any sets of processes, records,
rules, media, checks and pikelets, and any bounds. Listed in `PROJECT.json`,
they rest on the named assumptions of the modules (types of the constants, and
that `Nil` is none of the values it stands beside, and that the chat bot's rooms
are listed once each) and on nothing else.

*Queues* (`RecordQueueProofs`, `EventQueueProofs`; facts about sequences in
`SequenceFacts`). That an id is in one hand only, or that the taken are a prefix
of the sent, is not inductive: the step that takes an id needs that the queue
and the history are two halves of one sequence without repetitions. The
inductive invariant says that, and where an id is on its way (being saved,
queued, in hand, done). From it follow the safety properties of the two runs
and, with the step lemmas, that each queue implements `Handover`.
`NoLostWakeup` has an invariant of its own: it needs only the types, and that
every step which blocks a consumer finds the queue empty or leaves a token.

*Processor* (`ProcessorProofs`). The invariant adds four parts to the types.
`HistoryInv` places the newest history entry at or after the moment the check
turned, and in the past; `LatestInv` says that the latest notifications are what was announced,
one per condition, no two at one time, none of a test; `SevereInv` is about
`most_severe`; `PeriodInv` says that an open unscheduled maintenance belongs to a
failing check and is the only one. An event is one action, but a long one; its proof goes
along the code, one lemma per part of `process_event`, so that the lemmas are
about filters and records, and the theorems (`RecordsHold`,
`AcknowledgementsDoEnd`, `DueIsLetThrough`, `MaintenanceSilences`,
`DelaysAreKept`) cite them. `AnnouncesAsPromised` is the refinement of
`Announcements`.

*Routing* (`RoutingProofs`). `EndsAgree` and `AlertedIsCounted`
hold of any rules, whatever led to them, so the proof is about `Rules`: first
one rule (`TagsMatch` against `MatchingChecks`), then acceptors and rejectors,
then the difference (`EndsMeet`). The invariant of `Routing` is the type.

*Notifier* (`NotifierProofs`). The properties speak of a notifier that has caught
up; two invariants say what holds before. `IInv`: for each check the last
notification pending (in the queue, or in hand and undecided) is of the type
that was announced last (`QueueInv`, `HandInv`); a mark that was there when the
check was loaded, and is gone, was taken by people, or by an acknowledgement that
is itself pending (`SeenInv`); and with nothing pending the mark is right
(`MarkInv`). `AlertInv` is about media: an alert decided and not queued is what
the medium's records say it was told (`OutboxInv`), so is its last word unless
that was cut off (`WordInv`, from which the interval); a medium in trouble counts
a check that is failing or whose end is pending (`EndInv`); and a medium's summary
is right for the marks, or a notification that will set it right is pending, or
people changed something (`SummaryInv`). Which checks a plain medium counts does
not depend on the hour, and it is alerted of exactly those (`PlainRules`,
`PlainCounts`, about the two ends of `Rules`), so these survive the clock. Each
announcement, `Take`, `AlertsFor` and `Crash` has its lemma; the other steps
share one.

*Coordinator* (`CoordinatorProofs`). The invariant says, besides the types,
where the coordinator is for each state (`PlaceInv`), that, unless somebody was
early, it sleeps alone while it runs and the first request wakes it (`WakeInv`),
which threads exist during the start (`StartInv`), how the count of
runs fits the place of a thread (`RunsInv`), and that a pikelet off the list of
those to stop has finished, and stays so (`StopInv`). From it: `EndsWhenAllHave`,
`RequestsWake`, `FirstDecides`, and `RunsAreKept` (no pikelet works, once
`max_runs` of its runs have failed, and none asks for a shutdown before).
`ShutdownCompletes` excuses a shutdown that is held up; `HungIsHung` says that
none of the five situations is a delay: each is one of `Hangs`, no step of any
thread leads out of that, and the process does not end. That needs, besides the
invariant, `HoldInv`: an HTTP server that was not told to stop comes past its
loop by a failure only, so it runs again or asks for a shutdown, and either way
does not end while the coordinator joins it.

*Chat bot* (`ChatBotProofs`). `PlaceInv` says what holds where in the bot's loop
(attempts are left before one is made; it waits only once it has joined, and
announces only with a connection), and `TextInv` that a command is in one place
of its way, and there once, which is why its answer is made once. For
`RoomsHearInOrder`, what is said and what waits must be known to be all that was
made, each once (`SplitInv`), and the buffer must keep the order in which it was
filled (`OrderInv`). The step that says an announcement then needs one fact: all
announcements of its room are ready when it is, so the first that is ready has
nothing of its room before it in the buffer (`FirstReady`), and what was made in
its room before it has been said. For `RestsInItsRooms`, `RoomInv` holds while
the bot joins its rooms (those behind it are active) and, unless exceptions were
mixed, says that a bot with `@joined` and a connection is in all of them when it
is not joining or leaving, that at most one leave or rejoin waits, that none is
left when it joins again, and that a leave is not taken by a connection read
before the rejoin. That a rejoin does not set `@joined` costs nothing here: a bot
that waits on its condition has it, and `RoomInv` follows it through leaves.
`NothingIsLost` is what safety can say for `CommandsAnswered`: a command the
interpreter has stays in a buffer or a hand until the bot says its answer.
`HangsForGood` does for `Spinning` and `Stuck` (at a join, a leave or a stop)
what `HungIsHung` does for the coordinator: the first does not pass, the second
only with the connection.

Only model-checked: the liveness properties (`QueueDrained`, `TokenDrainsQueue`,
`ShutdownCompletes`, `CommandsAnswered`, `StopsWhenTold`), which are out of the
prover's reach. Every other property of a passing run is a theorem.

## 6. Not modelled

- Texts, templates, HTTP and chat protocols, option parsing, log output,
  configuration files, migration of old data: sequential, and without state that
  a decision is made by.
- The record store zermelo, a gem outside the repository; its class locks are
  taken to do what they say. Redis is assumed to keep what it has acknowledged.
- The PagerDuty gateway's semaphore: whether it excludes anybody depends on the
  type that the Redis client returns from `setnx`. The gateway's alert loop is
  the consumer of `RecordQueue`, and what it finds an event of `Processor`.
- The Oobetet gateway, which watches another Flapjack through a chat room by
  wall clock and by patterns over texts. Its threads and locks are those of
  `ChatBot`, with a join that is not tried again.
- The maintenance commands. Each changes a check's periods as `Schedule`,
  `EndScheduled` and `DeleteScheduled` of `Processor` do, over many checks one
  after the other; periods that start in the future are only made here.
- The HTTP broker's cache: its map is written by one goroutine and iterated by
  another without a lock, for which Go defines no outcome. Its sender is that of
  `EventQueue`.
- The mirror receiver, which walks another instance's archive in a second Redis
  by index and wall clock.
- Statistics: counters that nothing decides by.
- The web gateway's JavaScript. `public/js` holds vendored libraries (jQuery,
  Bootstrap, d3, nvd3, Moment) and `self_stats.js`, which draws a chart; the
  program is the Ruby and Go code, and that is what the map covers.
- The JSON API's PATCH of an unscheduled maintenance's times and its DELETE
  (`unscheduled_maintenance.rb` 119-133), and its PATCH of a scheduled one. In
  `Processor` an unscheduled period begins with an acknowledgement and is ended;
  a scheduled one is made, ended or deleted.
- Within what is modelled: what the bot's commands look up and change, several
  notifiers, disabled and deleted checks at the notifier, changes of rules while
  it works, an alert that cannot be saved, contacts and their time zones.
