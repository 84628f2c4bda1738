---------------------------- MODULE Coordinator ----------------------------
(***************************************************************************)
(* The coordinator (coordinator.rb) starts one thread per pikelet          *)
(* (pikelet.rb), waits on a monitor until a signal or a pikelet asks for a *)
(* shutdown, stops the pikelets one after the other and lets the process   *)
(* end.  The threads meet in two places: the coordinator's monitor with    *)
(* its condition variable, whose signal wakes the one thread that has      *)
(* waited longest, and each pikelet's own lock, which the pikelet holds    *)
(* while it works and without which the coordinator cannot tell it to      *)
(* stop.                                                                   *)
(*                                                                         *)
(* A section under the coordinator's monitor is one action, except that    *)
(* the coordinator keeps the monitor while it stops the pikelets.          *)
(***************************************************************************)
EXTENDS Naturals, Sequences

CONSTANTS
  Pikelets,     \* the pikelets of the configuration
  Boss,         \* the coordinator's thread
  Handler,      \* the thread made by the handler of a system signal
  Nil,          \* no pikelet
  Kind,         \* how each pikelet is stopped: by an exception, a signal
                \* of its condition variable, or as an HTTP server
  MaxRuns,      \* max_runs of each pikelet's configuration
  Exiting,      \* the pikelets that end the process themselves (GlobalStop)
  MaxSignals,   \* bound on the system signals sent
  MaxFailures   \* bound on the failures of pikelets

Threads == Pikelets \cup {Boss, Handler}

ASSUME PikeletsAssumption ==
  /\ {Boss, Handler, Nil} \cap Pikelets = {}
  /\ Boss # Handler
  /\ Kind \in [Pikelets -> {"exception", "signal", "server"}]
  /\ MaxRuns \in [Pikelets -> Nat]
  /\ Exiting \in SUBSET {p \in Pikelets : Kind[p] = "exception"}

ASSUME BoundsAssumption == MaxSignals \in Nat /\ MaxFailures \in Nat

VARIABLES
  state,      \* the coordinator's state
  exitValue,  \* the signal to end with, "none" if a pikelet asked
  boss,       \* where the coordinator's thread is, and the pikelet it is at
  todo,       \* pikelets it has not started, or not stopped yet
  waiting,    \* threads asleep on the monitor's condition, longest first
  woken,      \* threads signalled that are not back in the monitor yet
  handling,   \* the system signal being handled
  pik,        \* the pikelets' threads
  over,       \* whether the process has ended, and how
  early,      \* history: somebody fell asleep before the coordinator did
  signals, failures  \* counted towards the bounds

vars == <<state, exitValue, boss, todo, waiting, woken, handling, pik, over,
          early, signals, failures>>

Stopping == {"stopping", "telling", "awaiting", "joining"}

(* A pikelet's thread is not started yet, outside the rescued block on its *)
(* way in, idle or busy (with its lock) inside it, past the block, calling *)
(* @shutdown, or dead.                                                     *)
Pcs == {"unborn", "outside", "idle", "busy", "after", "calling", "dead"}

(* keep and fatal: keep_running and shutdown_all; finished and told:       *)
(* @finished, and @should_quit or a server that was told to stop           *)
Thread == [pc : Pcs, runs : Nat, keep : BOOLEAN, fatal : BOOLEAN,
           finished : BOOLEAN, told : BOOLEAN]

TypeOK ==
  /\ state \in {"starting", "running", "reloading", "stopping", "stopped"}
  /\ exitValue \in {"none", "INT"}
  /\ boss \in [pc : {"starting", "entering", "waiting", "ended"} \cup Stopping,
               at : Pikelets \cup {Nil}]
  /\ todo \in SUBSET Pikelets
  /\ waiting \in Seq(Threads)
  /\ woken \in SUBSET Threads
  /\ handling \in {"none", "INT", "HUP"}
  /\ pik \in [Pikelets -> Thread]
  /\ over \in {"no", "exited", "aborted"}
  /\ early \in BOOLEAN
  /\ signals \in Nat
  /\ failures \in Nat

Init ==
  /\ state = "starting"
  /\ exitValue = "none"
  /\ boss = [pc |-> "starting", at |-> Nil]
  /\ todo = Pikelets
  /\ waiting = <<>>
  /\ woken = {}
  /\ handling = "none"
  /\ pik = [p \in Pikelets |->
              [pc |-> "unborn", runs |-> 0, keep |-> FALSE, fatal |-> FALSE,
               finished |-> FALSE, told |-> FALSE]]
  /\ over = "no"
  /\ early = FALSE
  /\ signals = 0
  /\ failures = 0

-----------------------------------------------------------------------------
(* The monitor.                                                            *)

MonitorFree == boss.pc \notin Stopping

Asleep(t) == \E i \in DOMAIN waiting : waiting[i] = t

(* @monitor_cond.signal *)
Signal ==
  IF waiting = <<>>
  THEN UNCHANGED <<waiting, woken>>
  ELSE /\ waiting' = Tail(waiting)
       /\ woken' = woken \cup {Head(waiting)}

(* wait_until: t, on entering or after it was woken, goes to sleep *)
Sleep(t) ==
  /\ waiting' = Append(waiting, t)
  /\ woken' = woken \ {t}

(* Faulty: the request does not wait until the coordinator runs.           *)
GrantedAnyhow(t) == MonitorFree /\ ~Asleep(t)

(* Faulty: the state is set without a signal.                              *)
GrantQuietly(t, new) ==
  /\ state' = new
  /\ woken' = woken \ {t}
  /\ UNCHANGED <<waiting, early>>

(* What @shutdown and @reload do alike: if the coordinator is running, set *)
(* its state and signal; otherwise sleep until it is.                      *)
Granted(t) == MonitorFree /\ ~Asleep(t) /\ state = "running"

Grant(t, new) ==
  /\ state' = new
  /\ IF waiting = <<>>
     THEN waiting' = waiting /\ woken' = woken \ {t}
     ELSE /\ waiting' = Tail(waiting)
          /\ woken' = (woken \ {t}) \cup {Head(waiting)}
  /\ UNCHANGED early

Refuse(t) ==
  /\ MonitorFree
  /\ ~Asleep(t)
  /\ state # "running"
  /\ Sleep(t)
  /\ early' = (early \/ state = "starting")
  /\ UNCHANGED state

-----------------------------------------------------------------------------
(* A pikelet's thread.                                                     *)

At(p, pc) == pik[p].pc = pc

Goes(p, pc) == pik' = [pik EXCEPT ![p].pc = pc]

PikeletOnly ==
  UNCHANGED <<state, exitValue, boss, todo, waiting, woken, handling, over,
              early, signals>>

Enter(p) ==
  /\ At(p, "outside")
  /\ Goes(p, "idle")
  /\ PikeletOnly
  /\ UNCHANGED failures

(* takes its lock to work; an HTTP server works without it *)
Work(p) ==
  /\ At(p, "idle")
  /\ Kind[p] # "server"
  /\ ~pik[p].told
  /\ Goes(p, "busy")
  /\ PikeletOnly
  /\ UNCHANGED failures

Rest(p) ==
  /\ At(p, "busy")
  /\ Goes(p, "idle")
  /\ PikeletOnly
  /\ UNCHANGED failures

(* sees @should_quit, or the server was stopped *)
EndAsTold(p) ==
  /\ At(p, "idle")
  /\ Kind[p] # "exception"
  /\ pik[p].told
  /\ Goes(p, "after")
  /\ PikeletOnly
  /\ UNCHANGED failures

(* the chat bot sets @should_quit itself when it cannot connect *)
GiveUp(p) ==
  /\ At(p, "busy")
  /\ Kind[p] = "signal"
  /\ pik' = [pik EXCEPT ![p].pc = "after", ![p].told = TRUE]
  /\ PikeletOnly
  /\ UNCHANGED failures

(* GlobalStop *)
EndAll(p) ==
  /\ At(p, "idle")
  /\ p \in Exiting
  /\ pik' = [pik EXCEPT ![p].pc = "after", ![p].fatal = TRUE]
  /\ PikeletOnly
  /\ UNCHANGED failures

(* Any other exception: the pikelet is run again if it has runs left.      *)
MayRunAgain(p, runs) == MaxRuns[p] > 0 /\ runs < MaxRuns[p]

Fail(p) ==
  /\ failures < MaxFailures
  /\ At(p, "idle") \/ At(p, "busy")
  /\ LET runs == pik[p].runs + 1 IN
     pik' = [pik EXCEPT ![p].pc = "after",
                        ![p].runs = runs,
                        ![p].keep = MayRunAgain(p, runs),
                        ![p].fatal = ~MayRunAgain(p, runs)]
  /\ failures' = failures + 1
  /\ PikeletOnly

(* keep_running is looked at after every run, however that ended *)
RunAgain(p) ==
  /\ At(p, "after")
  /\ pik[p].keep
  /\ Goes(p, "idle")
  /\ PikeletOnly
  /\ UNCHANGED failures

Finish(p) ==
  /\ At(p, "after")
  /\ ~pik[p].keep
  /\ pik' = [pik EXCEPT ![p].finished = TRUE,
                        ![p].pc = IF pik[p].fatal THEN "calling" ELSE "dead"]
  /\ PikeletOnly
  /\ UNCHANGED failures

(* @shutdown.call: the exit value is nil *)
CallShutdown(p) ==
  /\ At(p, "calling")
  /\ \/ /\ Granted(p)
        /\ Grant(p, "stopping")
        /\ exitValue' = "none"
        /\ Goes(p, "dead")
     \/ /\ Refuse(p)
        /\ UNCHANGED <<exitValue, pik>>
  /\ UNCHANGED <<boss, todo, handling, over, signals, failures>>

-----------------------------------------------------------------------------
(* System signals.  Ruby handles one at a time, on the main thread, which  *)
(* waits in the handler for the thread that it makes there.                *)

SignalArrives(s) ==
  /\ boss.pc # "starting"
  /\ handling = "none"
  /\ signals < MaxSignals
  /\ handling' = s
  /\ signals' = signals + 1
  /\ UNCHANGED <<state, exitValue, boss, todo, waiting, woken, pik, over,
                 early, failures>>

(* Faulty: a reload leaves an exit value as well.                          *)
HandleAlike ==
  /\ handling # "none"
  /\ \/ /\ Granted(Handler)
        /\ Grant(Handler, IF handling = "HUP" THEN "reloading" ELSE "stopping")
        /\ exitValue' = handling
        /\ handling' = "none"
     \/ /\ Refuse(Handler)
        /\ UNCHANGED <<exitValue, handling>>
  /\ UNCHANGED <<boss, todo, pik, over, signals, failures>>

Handle ==
  /\ handling # "none"
  /\ \/ /\ Granted(Handler)
        /\ Grant(Handler, IF handling = "HUP" THEN "reloading" ELSE "stopping")
        /\ exitValue' = IF handling = "HUP" THEN exitValue ELSE handling
        /\ handling' = "none"
     \/ /\ Refuse(Handler)
        /\ UNCHANGED <<exitValue, handling>>
  /\ UNCHANGED <<boss, todo, pik, over, signals, failures>>

-----------------------------------------------------------------------------
(* The coordinator's thread.                                               *)

StartPikelet(p) ==
  /\ boss.pc = "starting"
  /\ p \in todo
  /\ todo' = todo \ {p}
  /\ Goes(p, "outside")
  /\ UNCHANGED <<state, exitValue, boss, waiting, woken, handling, over,
                 early, signals, failures>>

SetupSignals ==
  /\ boss.pc = "starting"
  /\ todo = {}
  /\ boss' = [boss EXCEPT !.pc = "entering"]
  /\ UNCHANGED <<state, exitValue, todo, waiting, woken, handling, pik, over,
                 early, signals, failures>>

(* @state = :running, which is not signalled, and to sleep *)
Await ==
  /\ boss.pc = "entering"
  /\ state' = "running"
  /\ boss' = [boss EXCEPT !.pc = "waiting"]
  /\ Sleep(Boss)
  /\ UNCHANGED <<exitValue, todo, handling, pik, over, early, signals,
                 failures>>

WakeToStop ==
  /\ boss.pc = "waiting"
  /\ Boss \in woken
  /\ state = "stopping"
  /\ woken' = woken \ {Boss}
  /\ boss' = [boss EXCEPT !.pc = "stopping"]
  /\ todo' = Pikelets
  /\ UNCHANGED <<state, exitValue, waiting, handling, pik, over, early,
                 signals, failures>>

(* reload asks every pikelet for its type, which none has: NoMethodError,  *)
(* and abort_on_exception ends the process                                 *)
Reload ==
  /\ boss.pc = "waiting"
  /\ Boss \in woken
  /\ state = "reloading"
  /\ over' = "aborted"
  /\ UNCHANGED <<state, exitValue, boss, todo, waiting, woken, handling, pik,
                 early, signals, failures>>

BossOnly == UNCHANGED <<state, exitValue, waiting, woken, handling, early,
                        signals, failures>>

(* the beginning of stop: is it finished already?  (under its lock)        *)
LookAt(p) ==
  /\ boss.pc = "stopping"
  /\ p \in todo
  /\ ~At(p, "busy")
  /\ IF pik[p].finished
     THEN /\ todo' = todo \ {p}
          /\ UNCHANGED boss
     ELSE /\ boss' = [pc |-> "telling", at |-> p]
          /\ UNCHANGED todo
  /\ BossOnly
  /\ UNCHANGED <<pik, over>>

(* PikeletStop is raised in the pikelet's thread.  Outside the rescued     *)
(* block nothing catches it, and it ends the process.                      *)
RaiseStop(p) ==
  /\ boss.pc = "telling" /\ boss.at = p
  /\ Kind[p] = "exception"
  /\ ~At(p, "busy")
  /\ boss' = [boss EXCEPT !.pc = "awaiting"]
  /\ \/ /\ At(p, "idle")
        /\ Goes(p, "after")
        /\ UNCHANGED over
     \/ /\ At(p, "dead")
        /\ UNCHANGED <<pik, over>>
     \/ /\ At(p, "outside") \/ At(p, "after") \/ At(p, "calling")
        /\ over' = "aborted"
        /\ UNCHANGED pik
  /\ BossOnly
  /\ UNCHANGED todo

(* Faulty: the condition is signalled, but @should_quit is not set.        *)
SignalOnly(p) ==
  /\ boss.pc = "telling" /\ boss.at = p
  /\ Kind[p] = "signal"
  /\ ~At(p, "busy")
  /\ boss' = [boss EXCEPT !.pc = "awaiting"]
  /\ BossOnly
  /\ UNCHANGED <<todo, pik, over>>

SignalStop(p) ==
  /\ boss.pc = "telling" /\ boss.at = p
  /\ Kind[p] = "signal"
  /\ ~At(p, "busy")
  /\ boss' = [boss EXCEPT !.pc = "awaiting"]
  /\ pik' = [pik EXCEPT ![p].told = TRUE]
  /\ BossOnly
  /\ UNCHANGED <<todo, over>>

(* @server is nil before the first run, and that of the last run between   *)
(* two: then nobody is told                                                *)
StopServer(p) ==
  /\ boss.pc = "telling" /\ boss.at = p
  /\ Kind[p] = "server"
  /\ boss' = [boss EXCEPT !.pc = "joining"]
  /\ pik' = [pik EXCEPT ![p].told = At(p, "idle")]
  /\ BossOnly
  /\ UNCHANGED <<todo, over>>

SeeFinished(p) ==
  /\ boss.pc = "awaiting" /\ boss.at = p
  /\ pik[p].finished
  /\ boss' = [boss EXCEPT !.pc = "joining"]
  /\ BossOnly
  /\ UNCHANGED <<todo, pik, over>>

(* Faulty: the thread is not joined.                                       *)
NoJoin(p) ==
  /\ boss.pc = "joining" /\ boss.at = p
  /\ boss' = [pc |-> "stopping", at |-> Nil]
  /\ todo' = todo \ {p}
  /\ BossOnly
  /\ UNCHANGED <<pik, over>>

Join(p) ==
  /\ boss.pc = "joining" /\ boss.at = p
  /\ At(p, "dead")
  /\ boss' = [pc |-> "stopping", at |-> Nil]
  /\ todo' = todo \ {p}
  /\ BossOnly
  /\ UNCHANGED <<pik, over>>

AllStopped ==
  /\ boss.pc = "stopping"
  /\ todo = {}
  /\ state' = "stopped"
  /\ boss' = [boss EXCEPT !.pc = "ended"]
  /\ Signal
  /\ UNCHANGED <<exitValue, todo, handling, pik, over, early, signals,
                 failures>>

(* the main thread returns, if no handler keeps it *)
Exit ==
  /\ boss.pc = "ended"
  /\ handling = "none"
  /\ over' = "exited"
  /\ UNCHANGED <<state, exitValue, boss, todo, waiting, woken, handling, pik,
                 early, signals, failures>>

-----------------------------------------------------------------------------

StopStep(p) ==
  \/ LookAt(p) \/ RaiseStop(p) \/ SignalStop(p) \/ StopServer(p)
  \/ SeeFinished(p) \/ Join(p)

BossStep ==
  \/ SetupSignals \/ Await \/ WakeToStop \/ Reload \/ AllStopped \/ Exit
  \/ \E p \in Pikelets : StartPikelet(p)

(* the steps a pikelet's thread takes on its own, but for work and failure *)
ThreadStep(p) ==
  \/ Enter(p) \/ Rest(p) \/ EndAsTold(p) \/ RunAgain(p) \/ Finish(p)
  \/ CallShutdown(p)

PikeletStep(p) ==
  ThreadStep(p) \/ Work(p) \/ GiveUp(p) \/ EndAll(p) \/ Fail(p)

Next ==
  /\ over = "no"
  /\ \/ BossStep
     \/ Handle
     \/ \E s \in {"INT", "HUP"} : SignalArrives(s)
     \/ \E p \in Pikelets : PikeletStep(p) \/ StopStep(p)

(* Threads run; a handler of the pikelet's returns; and the coordinator    *)
(* gets a pikelet's lock that is free again and again.                     *)
Fairness ==
  /\ WF_vars(over = "no" /\ BossStep)
  /\ WF_vars(over = "no" /\ Handle)
  /\ \A p \in Pikelets : /\ WF_vars(over = "no" /\ ThreadStep(p))
                         /\ SF_vars(over = "no" /\ StopStep(p))

Spec == Init /\ [][Next]_vars

FairSpec == Spec /\ Fairness

-----------------------------------------------------------------------------

(* When the process ends in order, no pikelet is cut off: each has left    *)
(* its loop for good, whoever asked for the shutdown and however many      *)
(* failed, were told or ended by themselves meanwhile (stop, which waits   *)
(* for @finished).                                                         *)
AllFinished ==
  state = "stopped" => \A p \in Pikelets : pik[p].finished

(* A pikelet has at most max_runs runs that fail, and one in any case; the *)
(* last failure, and only that or GlobalStop, makes it ask for a shutdown. *)
OutOfRuns(p) == pik[p].runs >= MaxRuns[p] /\ pik[p].runs > 0

RunsKept ==
  \A p \in Pikelets :
    /\ At(p, "idle") \/ At(p, "busy") => ~OutOfRuns(p)
    /\ At(p, "calling") => OutOfRuns(p) \/ p \in Exiting

(* The first request decides: once one is granted, no other signal or      *)
(* pikelet changes the state or the exit value it asked for.               *)
KeepsRequest ==
  /\ exitValue' = exitValue
  /\ state' = state \/ (state = "stopping" /\ state' = "stopped")

FirstRequestDecides ==
  [][(state \in {"reloading", "stopping", "stopped"}) => KeepsRequest]_vars

(* No granted request is lost: when the state has left "running", the      *)
(* coordinator has been woken, unless somebody asked before it had gone to *)
(* sleep itself: signal then wakes that thread instead.                    *)
RequestWakes ==
  boss.pc = "waiting" /\ state # "running" => Boss \in woken \/ early

(* A shutdown comes to its end, unless it is held up for good: somebody    *)
(* asked too early (above); a pikelet was run again after a failure, as    *)
(* keep_running then stays TRUE and it is run again when it stops; a       *)
(* pikelet fails meanwhile, as its call of @shutdown waits for the monitor *)
(* and stop for its thread; a second signal comes, whose handler never     *)
(* returns; or an HTTP server is not there yet when it is stopped.         *)
HeldUp ==
  \/ early /\ boss.pc = "waiting"
  \/ boss.pc \in {"awaiting", "joining"} /\ pik[boss.at].keep
  \/ boss.pc = "joining" /\ At(boss.at, "calling")
  \/ boss.pc = "joining" /\ Kind[boss.at] = "server" /\ ~pik[boss.at].told
  \/ boss.pc = "ended" /\ handling # "none"

ShutdownCompletes == state = "stopping" ~> over # "no" \/ []HeldUp

(* A pikelet that is out of runs shuts the process down (pikelet_spec.rb:  *)
(* "handles an exception from a processor pikelet, and restarts it, then   *)
(* shuts down").                                                           *)
FailureShutsDown ==
  \A p \in Pikelets : (At(p, "calling") /\ OutOfRuns(p)) ~> over # "no"
=============================================================================
