------------------------- MODULE CoordinatorProofs --------------------------
(***************************************************************************)
(* Theorems about Coordinator, for any pikelets, kinds and max_runs.       *)
(***************************************************************************)
EXTENDS Coordinator, TLAPS

(* Where the coordinator's thread is says what its state can be.           *)
PlaceInv ==
  /\ boss.pc \in {"starting", "entering"} <=> state = "starting"
  /\ state = "running" => boss.pc = "waiting"
  /\ boss.pc \in Stopping => state = "stopping"
  /\ boss.pc = "ended" <=> state = "stopped"

(* Unless somebody was too early, nobody sleeps before the coordinator     *)
(* does, it sleeps alone while it runs, and is woken by the first request. *)
WakeInv ==
  ~early =>
    /\ state = "starting" => waiting = <<>>
    /\ state = "running" => waiting = <<Boss>>
    /\ boss.pc = "waiting" /\ state # "running" => Boss \in woken

(* Until all are started, those left to start are not born.                *)
StartInv ==
  boss.pc = "starting" => \A p \in todo : pik[p].pc = "unborn"

(* What is left of a pikelet's runs, wherever its thread is; a thread that *)
(* is past its loop has said so.                                           *)
Spent(p, t) == t.runs >= MaxRuns[p] /\ t.runs > 0

Good(p, t) ==
  /\ t.keep => ~Spent(p, t)
  /\ t.pc \in {"unborn", "outside", "idle", "busy"} => ~Spent(p, t)
  /\ t.fatal => Spent(p, t) \/ p \in Exiting
  /\ t.pc = "calling" => t.fatal
  /\ t.pc \in {"calling", "dead"} => t.finished /\ ~t.keep

RunsInv == \A p \in Pikelets : Good(p, pik[p])

(* Whoever the coordinator is done with has finished.                      *)
StopInv ==
  /\ boss.pc \in Stopping \cup {"ended"} =>
       \A p \in Pikelets \ todo : pik[p].finished
  /\ boss.pc = "ended" => todo = {}

IInv == TypeOK /\ PlaceInv /\ WakeInv /\ StartInv /\ RunsInv /\ StopInv

-----------------------------------------------------------------------------

LEMMA InitIInv == Init => IInv
<1> SUFFICES ASSUME Init PROVE IInv
  OBVIOUS
<1>1. \A p \in Pikelets :
        pik[p] = [pc |-> "unborn", runs |-> 0, keep |-> FALSE,
                  fatal |-> FALSE, finished |-> FALSE, told |-> FALSE]
  BY DEF Init
<1>2. RunsInv
  <2> SUFFICES ASSUME NEW p \in Pikelets PROVE Good(p, pik[p])
    BY DEF RunsInv
  <2>1. /\ pik[p].pc = "unborn" /\ pik[p].runs = 0
        /\ ~pik[p].keep /\ ~pik[p].fatal
    BY <1>1
  <2> QED
    BY <2>1 DEF Good, Spent
<1>3. pik \in [Pikelets -> Thread]
  BY DEF Init, Thread, Pcs
<1>4. waiting \in Seq(Threads) /\ woken \in SUBSET Threads
  BY DEF Init
<1>5. TypeOK
  <2>1. boss \in [pc : {"starting", "entering", "waiting", "ended"}
                         \cup Stopping,
                   at : Pikelets \cup {Nil}]
    BY DEF Init
  <2> QED
    BY <1>3, <1>4, <2>1 DEF Init, TypeOK
<1>6. PlaceInv /\ WakeInv /\ StartInv /\ StopInv
  BY <1>1 DEF Init, PlaceInv, WakeInv, StartInv, StopInv, Stopping
<1> QED
  BY <1>2, <1>5, <1>6 DEF IInv

(* A pikelet's thread is replaced by one of which the invariant holds.     *)
Becomes(p, t) ==
  /\ t \in Thread
  /\ pik' = [pik EXCEPT ![p] = t]
  /\ Good(p, t)
  /\ pik[p].finished => t.finished

LEMMA BecomesKeeps ==
  ASSUME TypeOK, RunsInv, NEW p \in Pikelets, NEW t, Becomes(p, t)
  PROVE  /\ pik' \in [Pikelets -> Thread]
         /\ pik'[p] = t
         /\ \A q \in Pikelets \ {p} : pik'[q] = pik[q]
         /\ \A q \in Pikelets : pik[q].finished => pik'[q].finished
         /\ RunsInv'
<1>1. /\ pik \in [Pikelets -> Thread]
      /\ t \in Thread
      /\ pik' = [pik EXCEPT ![p] = t]
      /\ Good(p, t)
      /\ pik[p].finished => t.finished
  BY DEF Becomes, TypeOK
<1>2. /\ pik' \in [Pikelets -> Thread]
      /\ pik'[p] = t
      /\ \A q \in Pikelets \ {p} : pik'[q] = pik[q]
  BY <1>1
<1>3. \A q \in Pikelets : pik[q].finished => pik'[q].finished
  BY <1>1, <1>2
<1>4. \A q \in Pikelets : Good(q, pik'[q])
  BY <1>1, <1>2 DEF RunsInv
<1> QED
  BY <1>2, <1>3, <1>4 DEF RunsInv, Good, Spent

(* The pikelet's own steps, but for the call of @shutdown: the coordinator *)
(* and its monitor are left alone.                                         *)
PikeletAlone(p) ==
  \/ Enter(p) \/ Work(p) \/ Rest(p) \/ EndAsTold(p) \/ GiveUp(p)
  \/ EndAll(p) \/ Fail(p) \/ RunAgain(p) \/ Finish(p)

LEMMA PikeletAloneBecomes ==
  ASSUME TypeOK, RunsInv, NEW p \in Pikelets, PikeletAlone(p)
  PROVE  \E t : Becomes(p, t)
<1>1. /\ pik \in [Pikelets -> Thread]
      /\ pik[p] \in Thread
      /\ Good(p, pik[p])
      /\ MaxRuns[p] \in Nat
  BY PikeletsAssumption DEF TypeOK, RunsInv
<1>2. CASE Enter(p) \/ Work(p) \/ Rest(p) \/ EndAsTold(p) \/ RunAgain(p)
  <2>1. PICK pc \in {"idle", "busy", "after"} :
          /\ pik' = [pik EXCEPT ![p].pc = pc]
          /\ \/ pik[p].pc \in {"outside", "idle", "busy"}
             \/ pik[p].keep
    BY <1>2 DEF Enter, Work, Rest, EndAsTold, RunAgain, Goes, At
  <2> DEFINE t == [pik[p] EXCEPT !.pc = pc]
  <2>2. pik' = [pik EXCEPT ![p] = t]
    BY <2>1, <1>1
  <2>3. t \in Thread /\ Good(p, t) /\ (pik[p].finished => t.finished)
    BY <2>1, <1>1 DEF Thread, Pcs, Good, Spent
  <2> QED
    BY <2>2, <2>3 DEF Becomes
<1>3. CASE GiveUp(p)
  <2> DEFINE t == [pik[p] EXCEPT !.pc = "after", !.told = TRUE]
  <2>1. pik' = [pik EXCEPT ![p] = t]
    BY <1>3, <1>1 DEF GiveUp
  <2>2. t \in Thread /\ Good(p, t) /\ (pik[p].finished => t.finished)
    BY <1>1 DEF Thread, Pcs, Good, Spent
  <2> QED
    BY <2>1, <2>2 DEF Becomes
<1>4. CASE EndAll(p)
  <2> DEFINE t == [pik[p] EXCEPT !.pc = "after", !.fatal = TRUE]
  <2>1. pik' = [pik EXCEPT ![p] = t] /\ p \in Exiting
    BY <1>4, <1>1 DEF EndAll
  <2>2. t \in Thread /\ Good(p, t) /\ (pik[p].finished => t.finished)
    BY <2>1, <1>1 DEF Thread, Pcs, Good, Spent
  <2> QED
    BY <2>1, <2>2 DEF Becomes
<1>5. CASE Fail(p)
  <2> DEFINE runs == pik[p].runs + 1
             again == MayRunAgain(p, runs)
             t == [pik[p] EXCEPT !.pc = "after", !.runs = runs,
                                 !.keep = again, !.fatal = ~again]
  <2>1. pik' = [pik EXCEPT ![p] = t]
    BY <1>5, <1>1 DEF Fail
  <2>2. runs \in Nat /\ runs > 0
    BY <1>1 DEF Thread
  <2>3. again \in BOOLEAN /\ (~again) \in BOOLEAN
    BY DEF MayRunAgain
  <2>4. /\ t \in Thread
        /\ t.pc = "after"
        /\ t.runs = runs
        /\ t.keep = again
        /\ t.fatal = ~again
        /\ t.finished = pik[p].finished
    <3> HIDE DEF again, runs
    <3> QED
      BY <1>1, <2>2, <2>3 DEF Thread, Pcs
  <2>5. again => ~(runs >= MaxRuns[p])
    BY <1>1, <2>2 DEF MayRunAgain
  <2>6. ~again => runs >= MaxRuns[p]
    BY <1>1, <2>2 DEF MayRunAgain
  <2>7. Good(p, t) /\ (pik[p].finished => t.finished)
    <3> HIDE DEF t, again, runs
    <3> QED
      BY <2>2, <2>4, <2>5, <2>6 DEF Good, Spent
  <2> QED
    BY <2>1, <2>4, <2>7 DEF Becomes
<1>6. CASE Finish(p)
  <2> DEFINE pc == IF pik[p].fatal THEN "calling" ELSE "dead"
             t == [pik[p] EXCEPT !.finished = TRUE, !.pc = pc]
  <2>1. pik' = [pik EXCEPT ![p] = t]
    BY <1>6, <1>1 DEF Finish
  <2>2. ~pik[p].keep
    BY <1>6 DEF Finish
  <2>3. t \in Thread /\ Good(p, t) /\ (pik[p].finished => t.finished)
    BY <1>1, <2>2 DEF Thread, Pcs, Good, Spent
  <2> QED
    BY <2>1, <2>3 DEF Becomes
<1> QED
  BY <1>2, <1>3, <1>4, <1>5, <1>6 DEF PikeletAlone

LEMMA PikeletAloneKeeps ==
  ASSUME IInv, NEW p \in Pikelets, PikeletAlone(p)
  PROVE  IInv'
<1>0. TypeOK /\ StartInv /\ RunsInv /\ StopInv /\ PlaceInv /\ WakeInv
  BY DEF IInv
<1>1. PikeletOnly
  BY DEF PikeletAlone, Enter, Work, Rest, EndAsTold, GiveUp, EndAll, Fail,
         RunAgain, Finish
<1>2. failures' \in Nat
  BY <1>0 DEF PikeletAlone, Enter, Work, Rest, EndAsTold, GiveUp, EndAll,
              Fail, RunAgain, Finish, TypeOK
<1>3. PICK t : Becomes(p, t)
  BY <1>0, PikeletAloneBecomes
<1>4. /\ pik' \in [Pikelets -> Thread]
      /\ \A q \in Pikelets \ {p} : pik'[q] = pik[q]
      /\ \A q \in Pikelets : pik[q].finished => pik'[q].finished
      /\ RunsInv'
  BY <1>0, <1>3, BecomesKeeps
<1>5. TypeOK'
  BY <1>0, <1>1, <1>2, <1>4 DEF TypeOK, PikeletOnly
<1>6. PlaceInv' /\ WakeInv'
  BY <1>0, <1>1 DEF PlaceInv, WakeInv, PikeletOnly
<1>7. StartInv'
  <2>1. pik[p].pc # "unborn"
    BY DEF PikeletAlone, Enter, Work, Rest, EndAsTold, GiveUp, EndAll, Fail,
           RunAgain, Finish, At
  <2> QED
    BY <1>0, <1>1, <1>4, <2>1 DEF StartInv, PikeletOnly, TypeOK
<1>8. StopInv'
  BY <1>0, <1>1, <1>4 DEF StopInv, PikeletOnly
<1> QED
  BY <1>4, <1>5, <1>6, <1>7, <1>8 DEF IInv

(* A request, by a pikelet or by the handler of a signal.                  *)
LEMMA RequestKeeps ==
  ASSUME IInv, NEW t \in Pikelets \cup {Handler}, UNCHANGED <<boss, todo>>,
         \/ Granted(t) /\ \E new \in {"stopping", "reloading"} : Grant(t, new)
         \/ Refuse(t)
  PROVE  /\ PlaceInv' /\ WakeInv'
         /\ state' \in {"starting", "reloading", "stopping", "stopped"}
         /\ waiting' \in Seq(Threads)
         /\ woken' \in SUBSET Threads
         /\ early' \in BOOLEAN
<1>0. TypeOK /\ PlaceInv /\ WakeInv
  BY DEF IInv
<1>1. t \in Threads /\ t # Boss /\ Boss \in Threads
  BY PikeletsAssumption DEF Threads
<1>2. CASE Granted(t) /\ \E new \in {"stopping", "reloading"} : Grant(t, new)
  <2>1. state = "running" /\ state' \in {"stopping", "reloading"}
    BY <1>2 DEF Granted, Grant
  <2>2. PICK new \in {"stopping", "reloading"} : Grant(t, new)
    BY <1>2
  <2>3. /\ waiting' \in Seq(Threads)
        /\ woken' \in SUBSET Threads
        /\ early' = early
    <3>1. CASE waiting = <<>>
      BY <3>1, <2>2, <1>0 DEF Grant, TypeOK
    <3>2. CASE waiting # <<>>
      <4>1. Head(waiting) \in Threads /\ Tail(waiting) \in Seq(Threads)
        BY <3>2, <1>0 DEF TypeOK
      <4> QED
        BY <4>1, <3>2, <2>2, <1>0 DEF Grant, TypeOK
    <3> QED
      BY <3>1, <3>2
  <2>4. PlaceInv'
    BY <2>1, <1>0 DEF PlaceInv, Stopping
  <2>5. ~early => Boss \in woken'
    <3> SUFFICES ASSUME ~early PROVE Boss \in woken'
      OBVIOUS
    <3>1. waiting = <<Boss>>
      BY <1>0, <2>1 DEF WakeInv
    <3>2. Head(waiting) = Boss /\ waiting # <<>>
      BY <3>1
    <3> QED
      BY <3>2, <2>2 DEF Grant
  <2>6. WakeInv'
    BY <2>1, <2>3, <2>5 DEF WakeInv
  <2> QED
    BY <2>1, <2>3, <2>4, <2>6, <1>0 DEF TypeOK
<1>3. CASE Refuse(t)
  <2>1. /\ waiting' = Append(waiting, t) /\ woken' = woken \ {t}
        /\ early' = (early \/ state = "starting")
        /\ state' = state /\ state # "running"
    BY <1>3 DEF Refuse, Sleep
  <2>2. waiting' \in Seq(Threads) /\ woken' \in SUBSET Threads
    BY <2>1, <1>0, <1>1 DEF TypeOK
  <2>3. PlaceInv'
    BY <2>1, <1>0 DEF PlaceInv
  <2>4. WakeInv'
    BY <2>1, <1>0, <1>1 DEF WakeInv
  <2> QED
    BY <2>1, <2>2, <2>3, <2>4, <1>0 DEF TypeOK
<1> QED
  BY <1>2, <1>3

LEMMA CallShutdownKeeps ==
  ASSUME IInv, NEW p \in Pikelets, CallShutdown(p)
  PROVE  IInv'
<1>0. TypeOK /\ StartInv /\ RunsInv /\ StopInv
  BY DEF IInv
<1>1. /\ PlaceInv' /\ WakeInv'
      /\ state' \in {"starting", "reloading", "stopping", "stopped"}
      /\ waiting' \in Seq(Threads)
      /\ woken' \in SUBSET Threads
      /\ early' \in BOOLEAN
  BY RequestKeeps DEF CallShutdown
<1>2. /\ exitValue' \in {"none", "INT"}
      /\ UNCHANGED <<boss, todo, handling, over, signals, failures>>
  BY <1>0 DEF CallShutdown, TypeOK
<1>3. /\ pik \in [Pikelets -> Thread]
      /\ pik[p] \in Thread
      /\ Good(p, pik[p])
      /\ pik[p].pc = "calling"
  BY <1>0 DEF CallShutdown, At, TypeOK, RunsInv
<1>4. CASE pik' = pik
  BY <1>0, <1>1, <1>2, <1>4
  DEF IInv, TypeOK, StartInv, RunsInv, StopInv, Good, Spent
<1>5. CASE Goes(p, "dead")
  <2> DEFINE t == [pik[p] EXCEPT !.pc = "dead"]
  <2>1. pik' = [pik EXCEPT ![p] = t]
    BY <1>3, <1>5 DEF Goes
  <2>2. t \in Thread /\ Good(p, t) /\ (pik[p].finished => t.finished)
    BY <1>3 DEF Thread, Pcs, Good, Spent
  <2>3. Becomes(p, t)
    BY <2>1, <2>2 DEF Becomes
  <2> HIDE DEF t
  <2>4. /\ pik' \in [Pikelets -> Thread]
        /\ \A q \in Pikelets \ {p} : pik'[q] = pik[q]
        /\ \A q \in Pikelets : pik[q].finished => pik'[q].finished
        /\ RunsInv'
    BY <1>0, <2>3, BecomesKeeps
  <2>5. TypeOK'
    BY <1>0, <1>1, <1>2, <2>4 DEF TypeOK
  <2>6. StartInv' /\ StopInv'
    BY <1>0, <1>2, <1>3, <2>4 DEF StartInv, StopInv, TypeOK
  <2> QED
    BY <1>1, <2>4, <2>5, <2>6 DEF IInv
<1> QED
  BY <1>4, <1>5 DEF CallShutdown

LEMMA SignalsKeep ==
  ASSUME IInv, Handle \/ \E s \in {"INT", "HUP"} : SignalArrives(s)
  PROVE  IInv'
<1>0. TypeOK /\ StartInv /\ RunsInv /\ StopInv /\ PlaceInv /\ WakeInv
  BY DEF IInv
<1>1. CASE Handle
  <2>1. /\ PlaceInv' /\ WakeInv'
        /\ state' \in {"starting", "reloading", "stopping", "stopped"}
        /\ waiting' \in Seq(Threads)
        /\ woken' \in SUBSET Threads
        /\ early' \in BOOLEAN
    BY <1>1, RequestKeeps DEF Handle
  <2>2. /\ exitValue' \in {"none", "INT"}
        /\ handling' \in {"none", "INT", "HUP"}
        /\ UNCHANGED <<boss, todo, pik, over, signals, failures>>
    BY <1>0, <1>1 DEF Handle, TypeOK
  <2> QED
    BY <2>1, <2>2, <1>0
    DEF IInv, TypeOK, StartInv, RunsInv, StopInv, Good, Spent
<1>2. CASE \E s \in {"INT", "HUP"} : SignalArrives(s)
  BY <1>2, <1>0, BoundsAssumption
  DEF SignalArrives, IInv, TypeOK, StartInv, RunsInv, StopInv, PlaceInv, WakeInv,
      Good, Spent
<1> QED
  BY <1>1, <1>2

(* The coordinator's steps up to its sleep, and when it is woken.          *)
LEMMA StartPikeletKeeps ==
  ASSUME IInv, NEW p \in Pikelets, StartPikelet(p)
  PROVE  IInv'
<1>0. TypeOK /\ StartInv /\ RunsInv /\ StopInv /\ PlaceInv /\ WakeInv
  BY DEF IInv
<1>1. /\ pik[p].pc = "unborn"
      /\ boss.pc = "starting" /\ boss' = boss
      /\ todo' = todo \ {p}
  BY <1>0 DEF StartPikelet, StartInv
<1>2. /\ pik \in [Pikelets -> Thread]
      /\ pik[p] \in Thread
      /\ Good(p, pik[p])
  BY <1>0 DEF TypeOK, RunsInv
<1> DEFINE t == [pik[p] EXCEPT !.pc = "outside"]
<1>3. pik' = [pik EXCEPT ![p] = t]
  BY <1>2 DEF StartPikelet, Goes
<1>4. t \in Thread /\ Good(p, t) /\ (pik[p].finished => t.finished)
  BY <1>1, <1>2 DEF Thread, Pcs, Good, Spent
<1>5. Becomes(p, t)
  BY <1>3, <1>4 DEF Becomes
<1> HIDE DEF t
<1>6. /\ pik' \in [Pikelets -> Thread]
      /\ \A q \in Pikelets \ {p} : pik'[q] = pik[q]
      /\ RunsInv'
  BY <1>0, <1>5, BecomesKeeps
<1>7. TypeOK'
  BY <1>0, <1>6 DEF StartPikelet, TypeOK
<1>8. PlaceInv' /\ WakeInv'
  BY <1>0 DEF StartPikelet, PlaceInv, WakeInv
<1>9. StartInv'
  BY <1>0, <1>1, <1>6 DEF StartInv, TypeOK
<1>10. StopInv'
  BY <1>0, <1>1 DEF StopInv, Stopping
<1> QED
  BY <1>6, <1>7, <1>8, <1>9, <1>10 DEF IInv

LEMMA BossKeeps ==
  ASSUME IInv,
         \/ SetupSignals \/ Await \/ WakeToStop \/ Reload
         \/ AllStopped \/ Exit
  PROVE  IInv'
<1>0. TypeOK /\ StartInv /\ RunsInv /\ StopInv /\ PlaceInv /\ WakeInv
  BY DEF IInv
<1>1. pik' = pik
  BY DEF SetupSignals, Await, WakeToStop, Reload, AllStopped, Exit
<1>2. RunsInv'
  BY <1>0, <1>1 DEF RunsInv, Good, Spent
<1>3. CASE SetupSignals
  BY <1>0, <1>1, <1>2, <1>3
  DEF SetupSignals, IInv, TypeOK, PlaceInv, WakeInv, StartInv, StopInv,
      Stopping
<1>4. CASE Await
  <2>1. Boss \in Threads
    BY DEF Threads
  <2>2. TypeOK'
    BY <1>0, <1>1, <1>4, <2>1 DEF Await, Sleep, TypeOK
  <2>3. WakeInv'
    <3>1. state = "starting"
      BY <1>0, <1>4 DEF Await, PlaceInv
    <3>2. ~early => waiting' = <<Boss>>
      BY <1>0, <1>4, <3>1 DEF Await, Sleep, WakeInv
    <3> QED
      BY <3>2, <1>4 DEF Await, WakeInv
  <2>4. /\ boss'.pc = "waiting"
        /\ state' = "running"
    BY <1>0, <1>4 DEF Await, TypeOK
  <2>5. PlaceInv' /\ StartInv' /\ StopInv'
    BY <1>0, <1>1, <2>4 DEF PlaceInv, StartInv, StopInv, Stopping
  <2> QED
    BY <1>2, <2>2, <2>3, <2>5 DEF IInv
<1>5. CASE WakeToStop
  BY <1>0, <1>1, <1>2, <1>5
  DEF WakeToStop, IInv, TypeOK, PlaceInv, WakeInv, StartInv, StopInv,
      Stopping
<1>6. CASE Reload \/ Exit
  BY <1>0, <1>1, <1>2, <1>6
  DEF Reload, Exit, IInv, TypeOK, PlaceInv, WakeInv, StartInv, StopInv
<1>7. CASE AllStopped
  <2>1. waiting' \in Seq(Threads) /\ woken' \in SUBSET Threads
    <3>1. CASE waiting = <<>>
      BY <3>1, <1>0, <1>7 DEF AllStopped, Signal, TypeOK
    <3>2. CASE waiting # <<>>
      <4>1. Head(waiting) \in Threads /\ Tail(waiting) \in Seq(Threads)
        BY <3>2, <1>0 DEF TypeOK
      <4> QED
        BY <4>1, <3>2, <1>0, <1>7 DEF AllStopped, Signal, TypeOK
    <3> QED
      BY <3>1, <3>2
  <2>2. TypeOK'
    BY <1>0, <1>1, <1>7, <2>1 DEF AllStopped, TypeOK
  <2>3. boss'.pc = "ended" /\ state' = "stopped" /\ todo' = {}
    BY <1>0, <1>7 DEF AllStopped, TypeOK
  <2>4. \A p \in Pikelets : pik[p].finished
    BY <1>0, <1>7 DEF AllStopped, StopInv, Stopping
  <2>5. PlaceInv' /\ WakeInv' /\ StartInv' /\ StopInv'
    BY <1>0, <1>1, <2>3, <2>4
    DEF PlaceInv, WakeInv, StartInv, StopInv, Stopping
  <2> QED
    BY <1>2, <2>2, <2>5 DEF IInv
<1> QED
  BY <1>3, <1>4, <1>5, <1>6, <1>7

(* The coordinator stops a pikelet, step by step.                          *)
LEMMA StopKeeps ==
  ASSUME IInv, NEW p \in Pikelets, StopStep(p)
  PROVE  IInv'
<1>0. TypeOK /\ StartInv /\ RunsInv /\ StopInv /\ PlaceInv /\ WakeInv
  BY DEF IInv
<1>1. /\ BossOnly
      /\ boss.pc \in Stopping
      /\ boss'.pc \in Stopping
  BY <1>0 DEF StopStep, LookAt, RaiseStop, SignalStop, StopServer,
              SeeFinished, Join, Stopping, TypeOK
<1>2. PlaceInv' /\ WakeInv' /\ StartInv'
  BY <1>0, <1>1 DEF BossOnly, PlaceInv, WakeInv, StartInv, Stopping
<1>3. /\ pik \in [Pikelets -> Thread]
      /\ pik[p] \in Thread
      /\ Good(p, pik[p])
  BY <1>0 DEF TypeOK, RunsInv
<1>4. pik' = pik \/ \E t : Becomes(p, t)
  <2>1. CASE RaiseStop(p) /\ Goes(p, "after") /\ pik[p].pc = "idle"
    <3> DEFINE t == [pik[p] EXCEPT !.pc = "after"]
    <3>1. pik' = [pik EXCEPT ![p] = t]
      BY <2>1, <1>3 DEF Goes
    <3>2. t \in Thread /\ Good(p, t) /\ (pik[p].finished => t.finished)
      BY <1>3, <2>1 DEF Thread, Pcs, Good, Spent
    <3> QED
      BY <3>1, <3>2 DEF Becomes
  <2>2. CASE SignalStop(p) \/ StopServer(p)
    <3>1. PICK b \in BOOLEAN : pik' = [pik EXCEPT ![p].told = b]
      BY <2>2 DEF SignalStop, StopServer, At
    <3> DEFINE t == [pik[p] EXCEPT !.told = b]
    <3>2. pik' = [pik EXCEPT ![p] = t]
      BY <3>1, <1>3
    <3>3. t \in Thread /\ Good(p, t) /\ (pik[p].finished => t.finished)
      BY <1>3 DEF Thread, Good, Spent
    <3> QED
      BY <3>2, <3>3 DEF Becomes
  <2> QED
    BY <2>1, <2>2
    DEF StopStep, LookAt, RaiseStop, SeeFinished, Join, At
<1>5. /\ pik' \in [Pikelets -> Thread]
      /\ \A q \in Pikelets : pik[q].finished => pik'[q].finished
      /\ RunsInv'
  <2>1. CASE pik' = pik
    BY <2>1, <1>0, <1>3 DEF RunsInv, Good, Spent
  <2> QED
    BY <2>1, <1>0, <1>4, BecomesKeeps
<1>6. /\ todo' = todo \/ (todo' = todo \ {p} /\ pik[p].finished)
      /\ boss' \in [pc : Stopping, at : Pikelets \cup {Nil}]
      /\ over' \in {"no", "exited", "aborted"}
  <2>0. /\ boss.at \in Pikelets \cup {Nil}
        /\ over \in {"no", "exited", "aborted"}
        /\ boss = [pc |-> boss.pc, at |-> boss.at]
    BY <1>0 DEF TypeOK
  <2>1. CASE LookAt(p)
    BY <2>1, <1>0 DEF LookAt, TypeOK, Stopping
  <2>2. CASE RaiseStop(p)
    <3>1. boss' = [boss EXCEPT !.pc = "awaiting"] /\ todo' = todo
      BY <2>2 DEF RaiseStop
    <3>2. over' = over \/ over' = "aborted"
      BY <2>2 DEF RaiseStop
    <3> QED
      BY <2>0, <3>1, <3>2 DEF Stopping
  <2>3. CASE SignalStop(p)
    <3>1. boss' = [boss EXCEPT !.pc = "awaiting"] /\ todo' = todo
      BY <2>3 DEF SignalStop
    <3>2. over' = over
      BY <2>3 DEF SignalStop
    <3> QED
      BY <2>0, <3>1, <3>2 DEF Stopping
  <2>4. CASE StopServer(p)
    <3>1. boss' = [boss EXCEPT !.pc = "joining"] /\ todo' = todo
      BY <2>4 DEF StopServer
    <3>2. over' = over
      BY <2>4 DEF StopServer
    <3> QED
      BY <2>0, <3>1, <3>2 DEF Stopping
  <2>5. CASE SeeFinished(p)
    <3>1. boss' = [boss EXCEPT !.pc = "joining"] /\ todo' = todo
      BY <2>5 DEF SeeFinished
    <3>2. over' = over
      BY <2>5 DEF SeeFinished
    <3> QED
      BY <2>0, <3>1, <3>2 DEF Stopping
  <2>6. CASE Join(p)
    BY <2>6, <1>0, <1>3 DEF Join, TypeOK, Stopping, At, Good
  <2> QED
    BY <2>1, <2>2, <2>3, <2>4, <2>5, <2>6 DEF StopStep
<1>7. TypeOK'
  BY <1>0, <1>1, <1>5, <1>6 DEF BossOnly, TypeOK
<1>8. StopInv'
  BY <1>0, <1>1, <1>5, <1>6 DEF StopInv, Stopping, TypeOK
<1> QED
  BY <1>2, <1>5, <1>7, <1>8 DEF IInv

LEMMA NextKeepsIInv == IInv /\ [Next]_vars => IInv'
<1> SUFFICES ASSUME IInv, [Next]_vars PROVE IInv'
  OBVIOUS
<1>1. CASE BossStep
  BY <1>1, BossKeeps, StartPikeletKeeps DEF BossStep
<1>2. CASE Handle \/ \E s \in {"INT", "HUP"} : SignalArrives(s)
  BY <1>2, SignalsKeep
<1>3. CASE \E p \in Pikelets : PikeletStep(p)
  BY <1>3, PikeletAloneKeeps, CallShutdownKeeps
  DEF PikeletStep, ThreadStep, PikeletAlone
<1>4. CASE \E p \in Pikelets : StopStep(p)
  BY <1>4, StopKeeps
<1>5. CASE UNCHANGED vars
  BY <1>5 DEF vars, IInv, TypeOK, PlaceInv, WakeInv, StartInv, RunsInv,
              StopInv, Good, Spent
<1> QED
  BY <1>1, <1>2, <1>3, <1>4, <1>5 DEF Next

LEMMA IInvHolds == Spec => []IInv
  BY InitIInv, NextKeepsIInv, PTL DEF Spec

-----------------------------------------------------------------------------

(* Every variable keeps its type: in particular keep_running stays a truth *)
(* value, which the counting of the runs left would not make it.           *)
THEOREM TypeCorrect == Spec => []TypeOK
<1>1. IInv => TypeOK
  BY DEF IInv
<1> QED
  BY <1>1, IInvHolds, PTL

(* An orderly end cuts no pikelet off, however many there are.             *)
THEOREM EndsWhenAllHave == Spec => []AllFinished
<1>1. IInv => AllFinished
  BY DEF IInv, PlaceInv, StopInv, AllFinished
<1> QED
  BY <1>1, IInvHolds, PTL

(* No pikelet exceeds its max_runs, and none asks for a shutdown early.    *)
THEOREM RunsAreKept == Spec => []RunsKept
<1>1. IInv => RunsKept
  BY DEF IInv, RunsInv, RunsKept, OutOfRuns, Good, Spent, At
<1> QED
  BY <1>1, IInvHolds, PTL

(* A granted request wakes the coordinator, but for requests that came     *)
(* before it slept.                                                        *)
THEOREM RequestsWake == Spec => []RequestWakes
<1>1. IInv => RequestWakes
  BY DEF IInv, WakeInv, RequestWakes
<1> QED
  BY <1>1, IInvHolds, PTL

(* The first granted request decides how the process ends.                 *)
THEOREM FirstDecides == Spec => FirstRequestDecides
<1>1. ASSUME IInv, [Next]_vars,
             state \in {"reloading", "stopping", "stopped"}
      PROVE  KeepsRequest
  <2>1. TypeOK /\ PlaceInv
    BY <1>1 DEF IInv
  <2>2. CASE UNCHANGED vars
    BY <2>2 DEF vars, KeepsRequest
  <2>3. CASE BossStep
    BY <1>1, <2>1, <2>3
    DEF BossStep, StartPikelet, SetupSignals, Await, WakeToStop, Reload,
        AllStopped, Exit, PlaceInv, Stopping, KeepsRequest
  <2>4. CASE Handle \/ \E s \in {"INT", "HUP"} : SignalArrives(s)
    BY <1>1, <2>4
    DEF Handle, Granted, Refuse, SignalArrives, KeepsRequest
  <2>5. ASSUME NEW p \in Pikelets, PikeletAlone(p)
        PROVE  KeepsRequest
    BY <2>5
    DEF PikeletAlone, Enter, Work, Rest, EndAsTold, GiveUp, EndAll, Fail,
        RunAgain, Finish, PikeletOnly, KeepsRequest
  <2>6. ASSUME NEW p \in Pikelets, CallShutdown(p)
        PROVE  KeepsRequest
    BY <1>1, <2>6 DEF CallShutdown, Granted, Refuse, KeepsRequest
  <2>7. ASSUME NEW p \in Pikelets, StopStep(p)
        PROVE  KeepsRequest
    BY <2>7
    DEF StopStep, LookAt, RaiseStop, SignalStop, StopServer, SeeFinished,
        Join, BossOnly, KeepsRequest
  <2> QED
    BY <1>1, <2>2, <2>3, <2>4, <2>5, <2>6, <2>7
    DEF Next, PikeletStep, ThreadStep, PikeletAlone
<1>2. IInv /\ [Next]_vars =>
        [(state \in {"reloading", "stopping", "stopped"}) => KeepsRequest]_vars
  BY <1>1
<1> QED
  BY <1>2, IInvHolds, PTL DEF Spec, FirstRequestDecides

-----------------------------------------------------------------------------
(* A shutdown that hangs.                                                  *)

(* an HTTP server that was not told to stop                                *)
Untold(p) == Kind[p] = "server" /\ ~pik[p].told

(* a pikelet that failed, and runs again or is to ask for a shutdown       *)
Lives(p) == ~At(p, "dead") /\ (pik[p].keep \/ pik[p].fatal)

(* The coordinator is at a pikelet that it is not done with; a server is   *)
(* told once, by the coordinator, and comes past its loop by that or by a  *)
(* failure; and one that was not told is not dead when it is joined.       *)
HoldInv ==
  /\ boss.pc \in {"telling", "awaiting", "joining"} => boss.at \in todo
  /\ boss.pc = "awaiting" => Kind[boss.at] # "server"
  /\ \A p \in Pikelets :
       Kind[p] = "server" /\ pik[p].told =>
         \/ boss.pc \in Stopping \cup {"ended"} /\ p \notin todo
         \/ boss.pc = "joining" /\ boss.at = p
  /\ \A p \in Pikelets :
       Untold(p) /\ At(p, "after") => pik[p].keep \/ pik[p].fatal
  /\ boss.pc \in {"telling", "joining"} /\ Untold(boss.at) => ~At(boss.at, "dead")

LEMMA InitHold == Init => HoldInv
  BY DEF Init, HoldInv, At, Stopping

(* A pikelet's own step: only a failure takes a server that was not told   *)
(* past its loop, and only a server that was told dies of it at once.      *)
LEMMA AloneUntold ==
  ASSUME TypeOK, NEW p \in Pikelets, PikeletAlone(p)
  PROVE  /\ UNCHANGED <<boss, todo, handling, state, woken, over>>
         /\ \A q \in Pikelets \ {p} : pik'[q] = pik[q]
         /\ Lives(p) => Lives(p)'
         /\ Kind[p] = "server" => pik'[p].told = pik[p].told
         /\ Untold(p) /\ pik'[p].pc = "after" => pik'[p].keep \/ pik'[p].fatal
         /\ pik'[p].pc = "dead" => pik[p].pc = "after" /\ ~pik[p].keep /\ ~pik[p].fatal
         /\ pik[p].pc # "calling"
<1>1. pik \in [Pikelets -> Thread] /\ pik[p] \in Thread
  BY DEF TypeOK
<1>2. UNCHANGED <<boss, todo, handling, state, woken, over>>
  BY DEF PikeletAlone, Enter, Work, Rest, EndAsTold, GiveUp, EndAll, Fail,
         RunAgain, Finish, PikeletOnly
<1>3. CASE Enter(p) \/ Work(p) \/ Rest(p) \/ RunAgain(p)
  BY <1>1, <1>2, <1>3 DEF Enter, Work, Rest, RunAgain, Goes, At, Thread, Lives
<1>4. CASE EndAsTold(p)
  BY <1>1, <1>2, <1>4 DEF EndAsTold, Goes, At, Thread, Lives, Untold
<1>5. CASE GiveUp(p)
  BY <1>1, <1>2, <1>5 DEF GiveUp, At, Thread, Lives, Untold
<1>6. CASE EndAll(p)
  BY <1>1, <1>2, <1>6, PikeletsAssumption DEF EndAll, At, Thread, Lives, Untold
<1>7. CASE Fail(p)
  BY <1>1, <1>2, <1>7 DEF Fail, At, Thread, Lives, MayRunAgain
<1>8. CASE Finish(p)
  BY <1>1, <1>2, <1>8 DEF Finish, At, Thread, Lives
<1> QED
  BY <1>3, <1>4, <1>5, <1>6, <1>7, <1>8 DEF PikeletAlone

LEMMA HoldStep ==
  ASSUME IInv, HoldInv, [Next]_vars
  PROVE  HoldInv'
<1>0. TypeOK /\ RunsInv /\ todo \subseteq Pikelets /\ pik \in [Pikelets -> Thread]
  BY DEF IInv, TypeOK
<1>1. CASE Handle \/ (\E s \in {"INT", "HUP"} : SignalArrives(s)) \/ UNCHANGED vars
  BY <1>1 DEF Handle, SignalArrives, vars, HoldInv, At, Untold
<1>2. CASE BossStep
  <2>1. CASE \E p \in Pikelets : StartPikelet(p)
    <3>1. PICK p \in Pikelets : StartPikelet(p)
      BY <2>1
    <3>2. /\ boss.pc = "starting" /\ UNCHANGED boss
          /\ \A q \in Pikelets : /\ pik'[q].told = pik[q].told
                                 /\ q = p \/ pik'[q] = pik[q]
          /\ pik'[p].pc = "outside"
      BY <1>0, <3>1 DEF StartPikelet, Goes, Thread
    <3> QED
      BY <3>2 DEF HoldInv, At, Untold, Stopping
  <2>2. CASE SetupSignals \/ Await \/ WakeToStop \/ Reload \/ AllStopped \/ Exit
    BY <1>0, <2>2 DEF SetupSignals, Await, WakeToStop, Reload, AllStopped, Exit,
       HoldInv, At, Untold, Stopping, TypeOK
  <2> QED
    BY <1>2, <2>1, <2>2 DEF BossStep
<1>3. ASSUME NEW p \in Pikelets, PikeletAlone(p)
      PROVE  HoldInv'
  <2>1. /\ UNCHANGED <<boss, todo>>
        /\ \A q \in Pikelets \ {p} : pik'[q] = pik[q]
        /\ Kind[p] = "server" => pik'[p].told = pik[p].told
        /\ Untold(p) /\ pik'[p].pc = "after" => pik'[p].keep \/ pik'[p].fatal
        /\ pik'[p].pc = "dead" => pik[p].pc = "after" /\ ~pik[p].keep /\ ~pik[p].fatal
    BY <1>0, <1>3, AloneUntold
  <2> QED
    BY <1>0, <2>1 DEF HoldInv, At, Untold
<1>4. ASSUME NEW p \in Pikelets, CallShutdown(p)
      PROVE  HoldInv'
  <2>1. UNCHANGED <<boss, todo>>
    BY <1>4 DEF CallShutdown
  <2>2. CASE pik' = pik
    BY <2>1, <2>2 DEF HoldInv, At, Untold
  <2>3. CASE MonitorFree /\ Goes(p, "dead")
    <3>1. /\ \A q \in Pikelets : /\ pik'[q].told = pik[q].told
                                 /\ q = p \/ pik'[q] = pik[q]
          /\ pik'[p].pc = "dead"
      BY <1>0, <2>3 DEF Goes, Thread
    <3> QED
      BY <2>1, <2>3, <3>1 DEF HoldInv, At, Untold, MonitorFree, Stopping
  <2> QED
    BY <1>4, <2>2, <2>3 DEF CallShutdown, Granted
<1>5. ASSUME NEW p \in Pikelets, StopStep(p)
      PROVE  HoldInv'
  <2>1. CASE LookAt(p)
    <3>1. pik[p].pc = "dead" => pik[p].finished
      BY <1>0 DEF RunsInv, Good
    <3> QED
      BY <1>0, <2>1, <3>1 DEF LookAt, HoldInv, At, Untold, Stopping, TypeOK
  <2>2. CASE RaiseStop(p)
    <3>1. /\ boss.pc = "telling" /\ boss.at = p /\ Kind[p] = "exception"
          /\ boss'.pc = "awaiting" /\ boss'.at = p /\ todo' = todo
      BY <1>0, <2>2 DEF RaiseStop, TypeOK
    <3>2. \A q \in Pikelets : pik'[q].told = pik[q].told /\ (q = p \/ pik'[q] = pik[q])
      BY <1>0, <2>2 DEF RaiseStop, Goes, Thread
    <3> QED
      BY <3>1, <3>2 DEF HoldInv, At, Untold, Stopping
  <2>3. CASE SignalStop(p)
    <3>1. /\ boss.pc = "telling" /\ boss.at = p /\ Kind[p] = "signal"
          /\ boss'.pc = "awaiting" /\ boss'.at = p /\ todo' = todo
      BY <1>0, <2>3 DEF SignalStop, TypeOK
    <3>2. \A q \in Pikelets : q = p \/ pik'[q] = pik[q]
      BY <1>0, <2>3 DEF SignalStop, Thread
    <3> QED
      BY <3>1, <3>2 DEF HoldInv, At, Untold, Stopping
  <2>4. CASE StopServer(p)
    <3>1. /\ boss.pc = "telling" /\ boss.at = p /\ Kind[p] = "server"
          /\ boss'.pc = "joining" /\ boss'.at = p /\ todo' = todo
      BY <1>0, <2>4 DEF StopServer, TypeOK
    <3>2. /\ \A q \in Pikelets : q = p \/ pik'[q] = pik[q]
          /\ pik'[p].pc = pik[p].pc /\ pik'[p].keep = pik[p].keep
          /\ pik'[p].fatal = pik[p].fatal
      BY <1>0, <2>4 DEF StopServer, Thread
    <3>3. Untold(p)
      BY <3>1 DEF HoldInv, Untold
    <3>4. ~At(p, "dead") /\ (At(p, "after") => pik[p].keep \/ pik[p].fatal)
      BY <3>1, <3>3 DEF HoldInv
    <3> QED
      BY <3>1, <3>2, <3>4 DEF HoldInv, At, Untold, Stopping
  <2>5. CASE SeeFinished(p)
    <3>1. /\ boss.pc = "awaiting" /\ boss.at = p /\ pik' = pik
          /\ boss'.pc = "joining" /\ boss'.at = p /\ todo' = todo
      BY <1>0, <2>5 DEF SeeFinished, TypeOK
    <3> QED
      BY <3>1 DEF HoldInv, At, Untold, Stopping
  <2>6. CASE Join(p)
    <3>1. /\ boss.pc = "joining" /\ boss.at = p /\ pik' = pik
          /\ boss'.pc = "stopping" /\ todo' = todo \ {p}
      BY <1>0, <2>6 DEF Join, TypeOK
    <3> QED
      BY <3>1 DEF HoldInv, At, Untold, Stopping
  <2> QED
    BY <1>5, <2>1, <2>2, <2>3, <2>4, <2>5, <2>6 DEF StopStep
<1> QED
  BY <1>1, <1>2, <1>3, <1>4, <1>5 DEF Next, PikeletStep, ThreadStep, PikeletAlone

LEMMA HoldHolds == Spec => [](IInv /\ HoldInv)
<1>1. Init => IInv /\ HoldInv
  BY InitIInv, InitHold
<1>2. (IInv /\ HoldInv) /\ [Next]_vars => (IInv /\ HoldInv)'
  BY NextKeepsIInv, HoldStep
<1> QED
  BY <1>1, <1>2, PTL DEF Spec

(* The coordinator sleeps although it was asked to stop or reload, and no   *)
(* signal of its condition is on its way to it; or it waits for a pikelet   *)
(* that runs again or wants the coordinator's monitor to call @shutdown, or *)
(* for an HTTP server that it has not told to stop; or it has ended while   *)
(* the handler of a signal keeps the process.                               *)
Unwoken == boss.pc = "waiting" /\ state # "running" /\ Boss \notin woken

Hangs ==
  \/ Unwoken
  \/ boss.pc \in {"awaiting", "joining"} /\ Lives(boss.at)
  \/ boss.pc = "joining" /\ Untold(boss.at)
  \/ boss.pc = "ended" /\ handling # "none"

HangsForGood == [](Hangs /\ over = "no" => [](Hangs /\ over = "no"))

(* Each case of HeldUp is one of these, once the coordinator was asked and  *)
(* is not just being woken.                                                 *)
HeldUpHangs == HeldUp => Hangs \/ state = "running" \/ Boss \in woken

(* The five cases in which ShutdownCompletes lets a shutdown be held up are *)
(* no delays: no step of any thread, no failure and no further signal gets  *)
(* the coordinator out of them, and the process does not end.               *)
THEOREM HungIsHung == Spec => []HeldUpHangs /\ HangsForGood
<1>1. ASSUME IInv, HoldInv, [Next]_vars, Hangs
      PROVE  Hangs' /\ over' = over
  <2>0. TypeOK /\ PlaceInv /\ todo \subseteq Pikelets /\ pik \in [Pikelets -> Thread]
    BY <1>1 DEF IInv, TypeOK
  <2>1. CASE UNCHANGED vars
    BY <1>1, <2>1 DEF vars, Hangs, Unwoken, Lives, At, Untold
  <2>2. /\ boss.pc \in {"waiting", "awaiting", "joining", "ended"}
        /\ boss.pc \in {"awaiting", "joining"} => boss.at \in Pikelets
        /\ boss.pc = "joining" => ~At(boss.at, "dead")
        /\ state # "running"
    BY <1>1, <2>0 DEF Hangs, Unwoken, Lives, HoldInv, PlaceInv, Stopping
  <2>3. CASE BossStep
    BY <1>1, <2>2, <2>3 DEF BossStep, StartPikelet, SetupSignals, Await,
       WakeToStop, Reload, AllStopped, Exit, Hangs, Unwoken
  <2>4. CASE Handle \/ \E s \in {"INT", "HUP"} : SignalArrives(s)
    BY <1>1, <2>2, <2>4 DEF Handle, SignalArrives, Granted, Refuse, Sleep,
       Hangs, Unwoken, Lives, At, Untold
  <2>5. ASSUME NEW p \in Pikelets, PikeletAlone(p)
        PROVE  Hangs' /\ over' = over
    <3>1. /\ UNCHANGED <<boss, todo, handling, state, woken, over>>
          /\ \A q \in Pikelets \ {p} : pik'[q] = pik[q]
          /\ Lives(p) => Lives(p)'
          /\ Kind[p] = "server" => pik'[p].told = pik[p].told
      BY <2>0, <2>5, AloneUntold
    <3>2. \A q \in Pikelets : Lives(q) => Lives(q)'
      BY <3>1 DEF Lives, At
    <3>3. \A q \in Pikelets : Untold(q) => Untold(q)'
      BY <3>1 DEF Untold
    <3> QED
      BY <1>1, <2>2, <3>1, <3>2, <3>3 DEF Hangs, Unwoken, Lives, At, Untold
  <2>6. ASSUME NEW p \in Pikelets, CallShutdown(p)
        PROVE  Hangs' /\ over' = over
    BY <1>1, <2>2, <2>6 DEF CallShutdown, Granted, Refuse, Sleep, Hangs, Unwoken,
       Lives, At, Untold
  <2>7. ASSUME NEW p \in Pikelets, StopStep(p)
        PROVE  Hangs' /\ over' = over
    <3>1. SeeFinished(p)
      BY <2>2, <2>7 DEF StopStep, LookAt, RaiseStop, SignalStop, StopServer, Join
    <3> QED
      BY <1>1, <2>0, <3>1 DEF SeeFinished, BossOnly, TypeOK, Hangs, Unwoken,
         Lives, At, Untold
  <2> QED
    BY <1>1, <2>1, <2>3, <2>4, <2>5, <2>6, <2>7
    DEF Next, PikeletStep, ThreadStep, PikeletAlone
<1>2. ASSUME IInv, HoldInv
      PROVE  HeldUpHangs
  <2>1. boss.pc \in {"awaiting", "joining"} => boss.at \in Pikelets
    BY <1>2 DEF HoldInv, IInv, TypeOK
  <2>2. \A p \in Pikelets :
          /\ pik[p].keep => ~At(p, "dead")
          /\ At(p, "calling") => pik[p].fatal /\ ~At(p, "dead")
    BY <1>2 DEF IInv, RunsInv, Good, At
  <2> QED
    BY <2>1, <2>2 DEF HeldUpHangs, HeldUp, Hangs, Unwoken, Lives, Untold
<1>3. (IInv /\ HoldInv) /\ [Next]_vars =>
        (Hangs /\ over = "no" => (Hangs /\ over = "no")')
  BY <1>1
<1>4. IInv /\ HoldInv => HeldUpHangs
  BY <1>2
<1> QED
  BY <1>3, <1>4, HoldHolds, PTL DEF Spec, HangsForGood
=============================================================================
