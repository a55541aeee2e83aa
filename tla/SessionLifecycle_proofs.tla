------------------------ MODULE SessionLifecycle_proofs ------------------------
(***************************************************************************)
(* Proofs about the life of executions in the bridge.  Four invariants,    *)
(* each for a wider promise and a calmer environment: BaseInv holds        *)
(* whatever crashes, fails or races; RecoveryInv, without an operator who  *)
(* recovers beside the bridge, gives RecordedRunIsTrue; SteadyInv, without *)
(* a crash, gives the clean world, the worker's hold of it and the         *)
(* acknowledged stop, whatever fails to be written; CalmInv, without a     *)
(* failed write either, gives the abstract journal and, with one more,     *)
(* that a worker is interrupted once.                                      *)
(*                                                                         *)
(* A step is first told by what it does to the journal (JournalSteps), to  *)
(* a worker (WorkerSteps) and to the handlers and threads (Frame,          *)
(* FinishSteps, StartSteps); the invariants are proved from those.         *)
(***************************************************************************)
EXTENDS SessionLifecycle, TLAPS

\* The states of the journal.
States == {"idle"} \cup ACTIVE \cup Ended

\* What becomes of a write of the journal.
Written(s, outcome) ==
  /\ outcome = "raised" =>
       /\ UNCHANGED <<saved, record, dying>>
       /\ badWrites < MaxBadWrites /\ badWrites' = badWrites + 1
  /\ outcome # "raised" =>
       /\ saved' = s /\ badWrites' = badWrites
       /\ \/ record' = [record EXCEPT ![s.run] = s] /\ dying' = dying
          \/ record' = record /\ dying' = TRUE /\ restarts < MaxRestarts

\* The session is moved to target.
MovesTo(target, outcome) ==
  /\ session'.state = target
  /\ session'.run = session.run /\ session'.process = session.process
  /\ Written(session', outcome) /\ JournalTypeOK'

\* A write leaves the journal well formed, and does what it says (_save).
LEMMA SaveWrites ==
  ASSUME JournalTypeOK, NEW s \in Session, NEW outcome \in Outcomes, Save(s, outcome)
  PROVE  session' = s /\ Written(s, outcome) /\ JournalTypeOK'
<1>1. CASE outcome = "done"
  BY <1>1 DEF Save, Written, JournalTypeOK
<1>2. CASE outcome = "raised"
  BY <1>2, LifecycleAssumption DEF Save, Written, JournalTypeOK
<1>3. CASE outcome = "torn"
  BY <1>3 DEF Save, Written, JournalTypeOK
<1> QED
  BY <1>1, <1>2, <1>3 DEF Outcomes

\* A transition changes the state of the session and nothing else of it
\* (transition).
LEMMA ToWrites ==
  ASSUME JournalTypeOK, NEW target \in States, NEW outcome \in Outcomes, To(target, outcome)
  PROVE  MovesTo(target, outcome)
<1>1. [session EXCEPT !.state = target] \in Session
  BY DEF JournalTypeOK, Session, States
<1>2. /\ [session EXCEPT !.state = target].state = target
      /\ [session EXCEPT !.state = target].run = session.run
      /\ [session EXCEPT !.state = target].process = session.process
  BY DEF JournalTypeOK, Session
<1> QED
  BY <1>1, <1>2, SaveWrites DEF To, MovesTo

\* Beginning a run replaces the session (begin).
LEMMA BeginWrites ==
  ASSUME JournalTypeOK, NEW r \in Runs, NEW outcome \in Outcomes,
         Save([state |-> "preparing", run |-> r, process |-> 0], outcome)
  PROVE  /\ session'.state = "preparing" /\ session'.run = r /\ session'.process = 0
         /\ Written(session', outcome) /\ JournalTypeOK'
<1>1. [state |-> "preparing", run |-> r, process |-> 0] \in Session
  BY LifecycleAssumption DEF Session, ACTIVE, Runs
<1> QED
  BY <1>1, SaveWrites

\* Attaching a worker names its process too (attach).
LEMMA AttachWrites ==
  ASSUME SessionTypeOK, NEW outcome \in Outcomes,
         Save([session EXCEPT !.state = "running",
                              !.process = IF Live(handle) THEN handle ELSE 0], outcome)
  PROVE  /\ session'.state = "running" /\ session'.run = session.run
         /\ session'.process = IF Live(handle) THEN handle ELSE 0
         /\ Written(session', outcome) /\ JournalTypeOK'
<1> DEFINE p == IF Live(handle) THEN handle ELSE 0
           s == [session EXCEPT !.state = "running", !.process = p]
<1>1. p \in 0..MaxRuns /\ session \in Session
  BY LifecycleAssumption DEF SessionTypeOK, HandlerTypeOK, JournalTypeOK
<1>2. s \in Session /\ s.state = "running" /\ s.run = session.run /\ s.process = p
  BY <1>1 DEF Session, ACTIVE
<1> QED
  BY <1>2, SaveWrites DEF SessionTypeOK

\* A step that does not write the journal leaves it well formed.
LEMMA NoSaveTypes ==
  ASSUME JournalTypeOK, UNCHANGED <<session, saved, record, dying, badWrites>>
  PROVE  JournalTypeOK'
BY DEF JournalTypeOK

\* The jobs the bridge makes are jobs (_e2e_job).
LEMMA JobValues ==
  \A b \in BOOLEAN :
    /\ [state |-> "running", startupError |-> b] \in Job
    /\ [state |-> "idle", startupError |-> b] \in Job
    /\ [state |-> "ended", startupError |-> b] \in Job
BY Zenon DEF Job

\* A job that is moved on is a job.
LEMMA JobMoves ==
  ASSUME job \in Job
  PROVE  [job EXCEPT !.state = "ended"] \in Job /\ [job EXCEPT !.state = "stopping"] \in Job
BY DEF Job

\* Which actions can change which part of the state.
LEMMA Frame ==
  ASSUME [Next]_vars
  PROVE  /\ (\E r \in Runs, kind \in Kinds : StartBegin(r, kind)) \/ StartLaunch \/ StartLaunchFails
            \/ StartAttach \/ StartPublish \/ RestartBridge \/ UNCHANGED start
         /\ StartLaunch \/ StartAttach \/ StartPublish \/ StopSignal
            \/ (\E r \in Runs : WorkerVerify(r)) \/ (\E r \in Runs : WorkerEnter(r))
            \/ (\E r \in Runs : WorkerGivesUp(r)) \/ (\E r \in Runs : WorkerExit(r))
            \/ UNCHANGED worker
         /\ StartAttach \/ StartPublish \/ (\E r \in Runs : FinishExited(r))
            \/ (\E r \in Runs : FinishRestore(r)) \/ (\E r \in Runs : FinishSettle(r))
            \/ RestartBridge \/ UNCHANGED finish
         /\ StartLaunch \/ RestartBridge \/ UNCHANGED handle
         /\ StartPublish \/ (\E r \in Runs : FinishRestore(r)) \/ ResumeOwner \/ UNCHANGED pidfile
         /\ (\E r \in Runs, kind \in Kinds : StartBegin(r, kind)) \/ StartLaunchFails \/ StartAttach
            \/ StartPublish \/ (\E r \in Runs : FinishSettle(r)) \/ StopMark
            \/ ResumeJob \/ RestartBridge \/ UNCHANGED job
         /\ StopSignal \/ StopMark \/ RestartBridge \/ UNCHANGED stop
         /\ StopMark \/ UNCHANGED acked
         /\ RecoverRestore \/ RecoverClose \/ RestartBridge \/ UNCHANGED recover
         /\ ResumeOwner \/ ResumeRestore \/ ResumeClose \/ ResumeKeep \/ ResumeJob \/ RestartBridge
            \/ UNCHANGED resume
         /\ StartLaunch \/ StartLaunchFails \/ (\E r \in Runs : FinishRestore(r)) \/ RecoverRestore
            \/ ResumeRestore \/ (\E r \in Runs : WorkerEnter(r))
            \/ (\E r \in Runs : WorkerExit(r)) \/ UNCHANGED world
         /\ (\E r \in Runs, kind \in Kinds : StartBegin(r, kind)) \/ UNCHANGED kindOf
         /\ (\E r \in Runs, kind \in Kinds : StartBegin(r, kind)) \/ StartLaunchFails \/ StartAttach
            \/ (\E r \in Runs : FinishExited(r)) \/ (\E r \in Runs : FinishSettle(r))
            \/ StopMark \/ RecoverClose \/ ResumeOwner \/ ResumeClose \/ ResumeKeep
            \/ RestartBridge \/ UNCHANGED <<session, saved, record, dying, badWrites>>
         /\ RestartBridge \/ UNCHANGED restarts
<1>1. CASE \E r \in Runs, kind \in Kinds : StartBegin(r, kind)
  BY <1>1 DEF StartBegin
<1>2. CASE StartLaunch
  BY <1>2 DEF StartLaunch, NoSave
<1>3. CASE StartLaunchFails
  BY <1>3 DEF StartLaunchFails, NoSave
<1>4. CASE StartAttach
  BY <1>4 DEF StartAttach, Abort, NoSave
<1>5. CASE StartPublish
  BY <1>5 DEF StartPublish, Abort, NoSave
<1>6. CASE \E r \in Runs : FinishExited(r)
  BY <1>6 DEF FinishExited, FinishUnchanged, NoSave
<1>7. CASE \E r \in Runs : FinishRestore(r)
  BY <1>7
     DEF FinishRestore, FinishUnchanged, RestoreSucceeds, RestoreFails, NoSave
<1>8. CASE \E r \in Runs : FinishSettle(r)
  BY <1>8 DEF FinishSettle, FinishUnchanged, RunOutcomes, NoSave
<1>9. CASE StopSignal
  BY <1>9 DEF StopSignal, StopTarget, NoSave
<1>10. CASE StopMark
  BY <1>10 DEF StopMark, NoSave
<1>11. CASE RecoverRestore
  BY <1>11 DEF RecoverRestore, RestoreSucceeds, RestoreFails, NoSave
<1>12. CASE RecoverClose
  BY <1>12 DEF RecoverClose, NoSave
<1>13. CASE ResumeOwner
  BY <1>13 DEF ResumeOwner, ResumeUnchanged, NoSave
<1>14. CASE ResumeRestore
  BY <1>14
     DEF ResumeRestore, ResumeUnchanged, RestoreSucceeds, RestoreFails, NoSave
<1>15. CASE ResumeClose
  BY <1>15 DEF ResumeClose, ResumeUnchanged, NoSave
<1>16. CASE ResumeKeep
  BY <1>16 DEF ResumeKeep, ResumeUnchanged, NoSave
<1>17. CASE ResumeJob
  BY <1>17 DEF ResumeJob, ResumeUnchanged, NoSave
<1>18. CASE \E r \in Runs : WorkerVerify(r)
  BY <1>18 DEF WorkerVerify, BridgeUnchanged
<1>19. CASE \E r \in Runs : WorkerEnter(r)
  BY <1>19 DEF WorkerEnter, BridgeUnchanged
<1>20. CASE \E r \in Runs : WorkerGivesUp(r)
  BY <1>20 DEF WorkerGivesUp, BridgeUnchanged
<1>21. CASE \E r \in Runs : WorkerExit(r)
  BY <1>21 DEF WorkerExit, BridgeUnchanged
<1>22. CASE RestartBridge
  BY <1>22 DEF RestartBridge
<1>23. CASE UNCHANGED vars
  BY <1>23 DEF vars
<1> QED
  BY <1>1, <1>2, <1>3, <1>4, <1>5, <1>6, <1>7, <1>8, <1>9, <1>10, <1>11, <1>12, <1>13,
     <1>14, <1>15, <1>16, <1>17, <1>18, <1>19, <1>20, <1>21, <1>22, <1>23
     DEF Next, BridgeStep, StartStep, StartContinue, FinishStep, ResumeStep, WorkerStep

\* Who moves the session on, and to what.
Mover(target) ==
  \/ /\ StartLaunchFails /\ start = "launch" /\ start' = "idle"
     /\ target \in {"failed", "recovering"}
  \/ \E r \in Runs :
       /\ finish[r] = "wait" /\ worker[r].phase = "exited" /\ handle = r
       /\ target = "recovering" /\ FinishExited(r)
  \/ \E r \in Runs :
       /\ finish[r] \in {"settle", "settle_err"} /\ handle = r
       /\ (finish[r] = "settle_err" /\ target = "recovering") \/ target \in RunOutcomes(r)
       /\ FinishSettle(r)
  \/ stop # 0 /\ target = "stopping" /\ StopMark
  \/ recover = "close" /\ target = "failed" /\ RecoverClose
  \/ resume.pc = "wait" /\ target = "recovering" /\ OwnedPid = 0 /\ ResumeOwner
  \/ resume.pc = "close" /\ target = "failed" /\ ResumeClose
  \/ resume.pc = "keep" /\ target = "recovering" /\ ResumeKeep

\* Where a mover takes it.
Targets == {"stopping", "recovering"} \cup Ended

\* A step leaves the journal as it is, reads it back, begins a run, attaches
\* its worker, or moves the session on.
Rests == UNCHANGED <<session, saved, record, dying, badWrites>>

\* A run is begun (begin): only a failed write stops the start there.
Begins ==
  \E r \in Runs, kind \in Kinds, outcome \in Outcomes :
    /\ StartBegin(r, kind) /\ Written(session', outcome)
    /\ session'.state = "preparing" /\ session'.run = r /\ session'.process = 0
    /\ outcome # "raised" => start' = "launch"
    /\ outcome = "raised" => start' = "idle"

\* Its worker's identity is written (attach).
Attaches ==
  \E outcome \in Outcomes :
    /\ StartAttach /\ Allowed("running") /\ Written(session', outcome)
    /\ session'.state = "running" /\ session'.run = session.run
    /\ session'.process = IF Live(handle) THEN handle ELSE 0

\* A transition, which the journal allows.
Moves ==
  \E target \in Targets, outcome \in Outcomes :
    MovesTo(target, outcome) /\ Mover(target) /\ Allowed(target)

\* What a step may do to the journal, in the terms of the definitions above.
LEMMA JournalSteps ==
  ASSUME SessionTypeOK, [Next]_vars
  PROVE  \/ Rests
         \/ RestartBridge
         \/ Begins
         \/ Attaches
         \/ Moves
<1> DEFINE JournalStep == Rests \/ RestartBridge \/ Begins \/ Attaches \/ Moves
<1> SUFFICES JournalStep
  OBVIOUS
<1>0. JournalTypeOK /\ Targets \subseteq States
  BY DEF SessionTypeOK, Targets, States, ACTIVE, Ended
<1>1. ASSUME NEW q \in Runs, NEW kind \in Kinds, StartBegin(q, kind) PROVE JournalStep
  BY <1>0, <1>1, BeginWrites DEF StartBegin, SimFree, Begins
<1>2. CASE StartLaunchFails
  <2>1. Allowed("recovering") => Allowed("failed")
    BY DEF Allowed
  <2> QED
    BY <1>0, <1>2, <2>1, ToWrites
       DEF StartLaunchFails, FirstTarget, Moves, Mover, Targets, Ended, Rests, NoSave
<1>3. CASE StartAttach
  BY <1>3, AttachWrites DEF StartAttach, Attaches, Rests, NoSave
<1>4. ASSUME NEW q \in Runs, FinishExited(q) PROVE JournalStep
  BY <1>0, <1>4, ToWrites DEF FinishExited, Moves, Mover, Targets, Ended, Rests, NoSave
<1>5. ASSUME NEW q \in Runs, FinishSettle(q) PROVE JournalStep
  BY <1>0, <1>5, ToWrites
     DEF FinishSettle, Moves, Mover, Targets, Ended, RunOutcomes, Rests, NoSave
<1>6. CASE StopMark
  BY <1>0, <1>6, ToWrites DEF StopMark, Moves, Mover, Targets, Ended, Rests, NoSave
<1>7. CASE RecoverClose
  BY <1>0, <1>7, ToWrites DEF RecoverClose, Moves, Mover, Targets, Ended, Rests, NoSave
<1>8. CASE ResumeOwner
  <2>1. CASE NoSave
    BY <2>1 DEF NoSave, Rests
  <2>2. CASE ~NoSave
    <3>1. PICK outcome \in Outcomes : To("recovering", outcome)
      BY <1>8, <2>2 DEF ResumeOwner
    <3>2. MovesTo("recovering", outcome)
      BY <1>0, <3>1, ToWrites DEF Targets
    <3>3. Mover("recovering")
      BY <1>8 DEF Mover, ResumeOwner
    <3>4. Allowed("recovering")
      BY <1>8, <2>2 DEF ResumeOwner, Allowed, ACTIVE
    <3> QED
      BY <3>2, <3>3, <3>4 DEF Moves, Targets
  <2> QED
    BY <2>1, <2>2
<1>9. CASE ResumeClose
  BY <1>0, <1>9, ToWrites DEF ResumeClose, Moves, Mover, Targets, Ended, Rests, NoSave
<1>10. CASE ResumeKeep
  BY <1>0, <1>10, ToWrites DEF ResumeKeep, Moves, Mover, Targets, Ended, Rests, NoSave
<1> QED
  BY <1>1, <1>2, <1>3, <1>4, <1>5, <1>6, <1>7, <1>8, <1>9, <1>10, Frame DEF Rests

\* An interrupt changes one live worker, and of it the count of interrupts only.
LEMMA Signalled ==
  ASSUME worker \in [Runs -> Worker], NEW p, Live(p), NEW r \in Runs,
         worker' = [worker EXCEPT ![p].signals = @ + 1]
  PROVE  \/ worker'[r] = worker[r]
         \/ /\ r = p /\ Live(r)
            /\ worker'[r].phase = worker[r].phase /\ worker'[r].exit = worker[r].exit
            /\ worker'[r].entered = worker[r].entered
            /\ worker'[r].signals = worker[r].signals + 1
<1>1. p \in Runs /\ worker[p] \in Worker
  BY DEF Live
<1> QED
  BY <1>1 DEF Worker

\* A start that fails late interrupts its worker at most (_abort_e2e_start).
LEMMA Aborts ==
  ASSUME StartAttach \/ StartPublish
  PROVE  \/ worker' = worker
         \/ Live(handle) /\ worker' = [worker EXCEPT ![handle].signals = @ + 1]
<1>1. worker' = worker \/ Abort(handle)
  <2>1. CASE StartAttach
    BY <2>1 DEF StartAttach
  <2>2. CASE StartPublish
    BY <2>2 DEF StartPublish
  <2> QED
    BY <2>1, <2>2
<1> QED
  BY <1>1 DEF Abort

\* What a step may do to a worker.
WorkerMoves(r) ==
  \/ worker'[r] = worker[r]
  \/ /\ StartLaunch /\ r = session.run
     /\ worker'[r].phase = "starting" /\ worker'[r].exit = "none"
     /\ worker'[r].signals = 0 /\ worker'[r].entered = FALSE
  \/ /\ StopSignal \/ StartAttach \/ StartPublish
     /\ Live(r) /\ worker'[r].phase = worker[r].phase /\ worker'[r].exit = worker[r].exit
     /\ worker'[r].entered = worker[r].entered
     /\ worker'[r].signals = worker[r].signals + 1
     /\ \/ StopSignal /\ r = StopTarget
        \/ StartAttach \/ StartPublish
  \/ /\ WorkerVerify(r) /\ Live(r) /\ worker'[r].phase \in {"verified", "unverified"}
     /\ worker'[r].exit = worker[r].exit
     /\ worker'[r].entered = worker[r].entered /\ worker'[r].signals = worker[r].signals
  \/ /\ WorkerEnter(r) /\ Live(r) /\ worker'[r].phase = "owning" /\ worker'[r].entered = TRUE
     /\ worker'[r].exit = worker[r].exit /\ worker'[r].signals = worker[r].signals
  \/ /\ WorkerGivesUp(r) /\ Live(r) /\ worker'[r].phase = "exited"
     /\ worker'[r].exit = "gave_up"
     /\ worker'[r].entered = worker[r].entered /\ worker'[r].signals = worker[r].signals
  \/ /\ WorkerExit(r) /\ Live(r) /\ worker'[r].phase = "exited"
     /\ worker'[r].exit \in {"ok", "interrupted", "error"}
     /\ worker'[r].entered = worker[r].entered /\ worker'[r].signals = worker[r].signals

\* Nothing but what WorkerMoves says happens to a worker.
LEMMA WorkerSteps ==
  ASSUME SessionTypeOK, StartOwnsRun, NEW r \in Runs, [Next]_vars
  PROVE  WorkerMoves(r)
<1>1. CASE StartLaunch
  BY <1>1
     DEF StartLaunch, StartOwnsRun, NoWorker, SessionTypeOK, WorkerTypeOK, WorkerMoves
<1>2. CASE StartAttach
  BY <1>2, Aborts, Signalled DEF WorkerMoves, WorkerTypeOK, SessionTypeOK
<1>3. CASE StartPublish
  BY <1>3, Aborts, Signalled DEF WorkerMoves, WorkerTypeOK, SessionTypeOK
<1>4. CASE StopSignal
  <2>1. Live(StopTarget) /\ worker' = [worker EXCEPT ![StopTarget].signals = @ + 1]
    BY <1>4 DEF StopSignal
  <2> QED
    BY <1>4, <2>1, Signalled DEF WorkerMoves, WorkerTypeOK, SessionTypeOK
<1> USE DEF SessionTypeOK, WorkerTypeOK, Worker, WorkerMoves, Live, Runs
<1>5. ASSUME NEW q \in Runs, WorkerVerify(q) PROVE WorkerMoves(r)
  <2>1. PICK phase \in {"verified", "unverified"} :
          worker' = [worker EXCEPT ![q] = [worker[q] EXCEPT !.phase = phase]]
    BY <1>5 DEF WorkerVerify
  <2>2. Live(q) /\ worker[q] \in Worker
    BY <1>5 DEF WorkerVerify
  <2>3. CASE r = q
    BY <1>5, <2>1, <2>2, <2>3
  <2>4. CASE r # q
    BY <2>1, <2>4
  <2> QED
    BY <2>3, <2>4
<1>6. ASSUME NEW q \in Runs, WorkerEnter(q) PROVE WorkerMoves(r)
  BY <1>6 DEF WorkerEnter, BridgeUnchanged
<1>7. ASSUME NEW q \in Runs, WorkerGivesUp(q) PROVE WorkerMoves(r)
  BY <1>7 DEF WorkerGivesUp, BridgeUnchanged
<1>8. ASSUME NEW q \in Runs, WorkerExit(q) PROVE WorkerMoves(r)
  <2>1. PICK exit \in {"ok", "interrupted", "error"} :
          worker' = [worker EXCEPT ![q] = [worker[q] EXCEPT !.phase = "exited", !.exit = exit]]
    BY <1>8 DEF WorkerExit
  <2>2. Live(q) /\ worker[q] \in Worker
    BY <1>8 DEF WorkerExit
  <2>3. CASE r = q
    BY <1>8, <2>1, <2>2, <2>3
  <2>4. CASE r # q
    BY <2>1, <2>4
  <2> QED
    BY <2>3, <2>4
<1> QED
  BY <1>1, <1>2, <1>3, <1>4, <1>5, <1>6, <1>7, <1>8, Frame

\* A run begins once and stays begun.
LEMMA BegunStays ==
  ASSUME SessionTypeOK, [Next]_vars
  PROVE  /\ \A r \in Runs : kindOf'[r] = "none" => kindOf[r] = "none"
         /\ \A r \in Runs : kindOf[r] # "none" => kindOf'[r] = kindOf[r]
         /\ \A r \in Runs, kind \in Kinds : StartBegin(r, kind) =>
              kindOf[r] = "none" /\ kindOf'[r] # "none" /\ r \notin {0}
<1>1. \A r \in Runs, kind \in Kinds : StartBegin(r, kind) =>
        /\ kindOf[r] = "none" /\ kindOf' = [kindOf EXCEPT ![r] = kind] /\ kind # "none" /\ r # 0
  BY LifecycleAssumption DEF StartBegin, NotBegun, WorldKinds, Runs
<1> QED
  BY <1>1, Frame DEF SessionTypeOK, WorkerTypeOK

\* The type of the workers is kept: an interrupt is one below its bound.
LEMMA WorkersTyped ==
  ASSUME SessionTypeOK, FreshRunsAreNowhere, StartOwnsRun, [Next]_vars
  PROVE  (worker \in [Runs -> Worker])'
<1> DEFINE Kept == (worker \in [Runs -> Worker])'
<1> SUFFICES Kept
  OBVIOUS
<1> USE DEF SessionTypeOK, WorkerTypeOK, HandlerTypeOK, Worker
<1>1. CASE StartLaunch
  BY <1>1 DEF StartLaunch, NoSave
<1>2. CASE StartAttach
  <2>1. /\ handle \in Runs /\ worker[handle] \in Worker
        /\ worker[handle].signals + 1 \in 0 .. MaxStops + 1
    BY <1>2, LifecycleAssumption DEF StartAttach, StartOwnsRun, Runs, JournalTypeOK, Session
  <2>2. [worker[handle] EXCEPT !.signals = @ + 1] \in Worker
    BY <2>1
  <2> QED
    BY <1>2, <2>1, <2>2 DEF StartAttach, Abort
<1>3. CASE StartPublish
  <2>1. /\ handle \in Runs /\ worker[handle] \in Worker
        /\ worker[handle].signals + 1 \in 0 .. MaxStops + 1
    BY <1>3, LifecycleAssumption
       DEF StartPublish, StartOwnsRun, Runs, JournalTypeOK, Session
  <2>2. [worker[handle] EXCEPT !.signals = @ + 1] \in Worker
    BY <2>1
  <2> QED
    BY <1>3, <2>1, <2>2 DEF StartPublish, Abort
<1>4. CASE StopSignal
  <2>1. /\ StopTarget \in Runs /\ worker[StopTarget] \in Worker
        /\ worker[StopTarget].signals + 1 \in 0 .. MaxStops + 1
    BY <1>4, LifecycleAssumption DEF StopSignal, Live
  <2>2. [worker[StopTarget] EXCEPT !.signals = @ + 1] \in Worker
    BY <2>1
  <2> QED
    BY <1>4, <2>1, <2>2 DEF StopSignal
<1>5. ASSUME NEW r \in Runs, WorkerVerify(r) PROVE Kept
  BY <1>5 DEF WorkerVerify, BridgeUnchanged
<1>6. ASSUME NEW r \in Runs, WorkerEnter(r) PROVE Kept
  BY <1>6 DEF WorkerEnter, BridgeUnchanged
<1>7. ASSUME NEW r \in Runs, WorkerGivesUp(r) PROVE Kept
  <2>1. [worker[r] EXCEPT !.phase = "exited", !.exit = "gave_up"] \in Worker
    OBVIOUS
  <2>2. worker' = [worker EXCEPT ![r] = [worker[r] EXCEPT !.phase = "exited", !.exit = "gave_up"]]
    BY <1>7 DEF WorkerGivesUp
  <2> QED
    BY <2>1, <2>2
<1>8. ASSUME NEW r \in Runs, WorkerExit(r) PROVE Kept
  <2> PICK exit \in {"ok", "interrupted", "error"} :
            worker' = [worker EXCEPT ![r].phase = "exited", ![r].exit = exit]
    BY <1>8 DEF WorkerExit
  <2>1. [worker[r] EXCEPT !.phase = "exited", !.exit = exit] \in Worker
    OBVIOUS
  <2>2. worker' = [worker EXCEPT ![r] = [worker[r] EXCEPT !.phase = "exited", !.exit = exit]]
    OBVIOUS
  <2> QED
    BY <2>1, <2>2
<1> QED
  BY <1>1, <1>2, <1>3, <1>4, <1>5, <1>6, <1>7, <1>8, Frame

\* The type of the job is kept.
LEMMA JobTyped ==
  ASSUME SessionTypeOK, [Next]_vars
  PROVE  (job \in Job)'
<1> USE DEF SessionTypeOK, HandlerTypeOK
<1>1. ASSUME NEW q \in Runs, NEW kind \in Kinds, StartBegin(q, kind) PROVE (job \in Job)'
  BY <1>1, JobValues, JobMoves DEF StartBegin, Abort
<1>2. CASE StartLaunchFails
  BY <1>2, JobValues, JobMoves DEF StartLaunchFails, Abort
<1>3. CASE StartAttach
  BY <1>3, JobValues, JobMoves DEF StartAttach, Abort, NoSave
<1>4. CASE StartPublish
  BY <1>4, JobValues, JobMoves DEF StartPublish, Abort, NoSave
<1>5. ASSUME NEW q \in Runs, FinishSettle(q) PROVE (job \in Job)'
  BY <1>5, JobValues, JobMoves DEF FinishSettle, FinishUnchanged, RunOutcomes, NoSave
<1>6. CASE StopMark
  BY <1>6, JobValues, JobMoves DEF StopMark, NoSave
<1>7. CASE ResumeJob
  BY <1>7, JobValues, JobMoves DEF ResumeJob, ResumeUnchanged, NoSave
<1>8. CASE RestartBridge
  BY <1>8, JobValues, JobMoves DEF RestartBridge, Abort
<1> QED
  BY <1>1, <1>2, <1>3, <1>4, <1>5, <1>6, <1>7, <1>8, Frame

\* The types of the handle, the pid file and the stop request are kept.
LEMMA HandlesTyped ==
  ASSUME SessionTypeOK, FreshRunsAreNowhere, [Next]_vars
  PROVE  ({handle, pidfile, stop} \subseteq 0..MaxRuns)'
<1> DEFINE Kept == ({handle, pidfile, stop} \subseteq 0..MaxRuns)'
<1> SUFFICES Kept
  OBVIOUS
<1> USE DEF SessionTypeOK, HandlerTypeOK, JournalTypeOK, Session, Live, Runs
<1>1. CASE StartLaunch
  BY <1>1, LifecycleAssumption DEF StartLaunch, NoSave
<1>2. CASE StartPublish
  BY <1>2, LifecycleAssumption DEF StartPublish, Abort, NoSave
<1>3. ASSUME NEW q \in Runs, FinishRestore(q) PROVE Kept
  BY <1>3, LifecycleAssumption
     DEF FinishRestore, FinishUnchanged, RestoreSucceeds, RestoreFails, NoSave
<1>4. CASE StopSignal
  BY <1>4, LifecycleAssumption DEF StopSignal, StopTarget, NoSave
<1>5. CASE StopMark
  BY <1>5, LifecycleAssumption DEF StopMark, NoSave
<1>6. CASE ResumeOwner
  BY <1>6, LifecycleAssumption DEF ResumeOwner, ResumeUnchanged, NoSave
<1>7. CASE RestartBridge
  BY <1>7, LifecycleAssumption DEF RestartBridge
<1> QED
  BY <1>1, <1>2, <1>3, <1>4, <1>5, <1>6, <1>7, Frame

\* The types of the start and recover handlers are kept.
LEMMA HandlersTyped ==
  ASSUME SessionTypeOK, [Next]_vars
  PROVE  (start \in {"idle", "launch", "attach", "publish"} /\ recover \in {"idle", "close"})'
<1> DEFINE Kept == (/\ start \in {"idle", "launch", "attach", "publish"}
                    /\ recover \in {"idle", "close"})'
<1> SUFFICES Kept
  OBVIOUS
<1> USE DEF SessionTypeOK, HandlerTypeOK
<1>1. ASSUME NEW q \in Runs, NEW kind \in Kinds, StartBegin(q, kind) PROVE Kept
  BY <1>1 DEF StartBegin
<1>2. CASE StartLaunch
  BY <1>2 DEF StartLaunch, NoSave
<1>3. CASE StartLaunchFails
  BY <1>3 DEF StartLaunchFails, NoSave
<1>4. CASE StartAttach
  BY <1>4 DEF StartAttach, Abort, NoSave
<1>5. CASE StartPublish
  BY <1>5 DEF StartPublish, Abort, NoSave
<1>6. CASE RecoverRestore
  BY <1>6 DEF RecoverRestore, RestoreSucceeds, RestoreFails, NoSave
<1>7. CASE RecoverClose
  BY <1>7 DEF RecoverClose, NoSave
<1>8. CASE RestartBridge
  BY <1>8 DEF RestartBridge
<1> QED
  BY <1>1, <1>2, <1>3, <1>4, <1>5, <1>6, <1>7, <1>8, Frame

\* The type of the resuming thread is kept.
LEMMA ResumeTyped ==
  ASSUME SessionTypeOK, [Next]_vars
  PROVE  (resume \in [pc : {"idle", "wait", "restore", "close", "keep", "job"},
                      run : 0..MaxRuns, process : 0..MaxRuns])'
<1> USE DEF SessionTypeOK, HandlerTypeOK, JournalTypeOK, Session
<1>1. CASE ResumeOwner
  BY <1>1 DEF ResumeOwner, ResumeUnchanged, NoSave
<1>2. CASE ResumeRestore
  BY <1>2
     DEF ResumeRestore, ResumeUnchanged, RestoreSucceeds, RestoreFails, NoSave
<1>3. CASE ResumeClose
  BY <1>3 DEF ResumeClose, ResumeUnchanged, NoSave
<1>4. CASE ResumeKeep
  BY <1>4 DEF ResumeKeep, ResumeUnchanged, NoSave
<1>5. CASE ResumeJob
  BY <1>5 DEF ResumeJob, ResumeUnchanged, NoSave
<1>6. CASE RestartBridge
  BY <1>6 DEF RestartBridge
<1> QED
  BY <1>1, <1>2, <1>3, <1>4, <1>5, <1>6, Frame

\* The type of the finishers is kept.
LEMMA FinishTyped ==
  ASSUME SessionTypeOK, [Next]_vars
  PROVE  (finish \in [Runs ->
             {"none", "wait", "restore", "restore_err", "settle", "settle_err"}])'
<1> DEFINE Kept == (finish \in [Runs ->
             {"none", "wait", "restore", "restore_err", "settle", "settle_err"}])'
<1> SUFFICES Kept
  OBVIOUS
<1> USE DEF SessionTypeOK, HandlerTypeOK
<1>1. CASE StartAttach
  BY <1>1 DEF StartAttach, Abort, NoSave
<1>2. CASE StartPublish
  BY <1>2 DEF StartPublish, Abort, NoSave
<1>3. ASSUME NEW q \in Runs, FinishExited(q) PROVE Kept
  BY <1>3 DEF FinishExited, FinishUnchanged, NoSave
<1>4. ASSUME NEW q \in Runs, FinishRestore(q) PROVE Kept
  BY <1>4
     DEF FinishRestore, FinishUnchanged, RestoreSucceeds, RestoreFails, NoSave
<1>5. ASSUME NEW q \in Runs, FinishSettle(q) PROVE Kept
  BY <1>5 DEF FinishSettle, FinishUnchanged, RunOutcomes, NoSave
<1>6. CASE RestartBridge
  BY <1>6 DEF RestartBridge
<1> QED
  BY <1>1, <1>2, <1>3, <1>4, <1>5, <1>6, Frame

\* A recovery only takes from the world.
LEMMA RestoresRemove ==
  ASSUME RestoreSucceeds \/ RestoreFails
  PROVE  world' \subseteq world
BY DEF RestoreSucceeds, RestoreFails, Restored, Asynchronous, Destroyed

\* The type of the world is kept.
LEMMA WorldTyped ==
  ASSUME SessionTypeOK, StartOwnsRun, [Next]_vars
  PROVE  (world \subseteq {"sync", "actors", "texture"} \X Runs)'
<1> DEFINE Kept == (world \subseteq {"sync", "actors", "texture"} \X Runs)'
<1> SUFFICES Kept
  OBVIOUS
<1> USE DEF SessionTypeOK, WorkerTypeOK, JournalTypeOK, Session, Sync, Actors, Texture, Runs
<1>1. CASE StartLaunch
  BY <1>1 DEF StartLaunch, NoSave, StartOwnsRun
<1>2. CASE StartLaunchFails
  BY <1>2 DEF StartLaunchFails, StartOwnsRun, FirstTarget, NoSave
<1>3. ASSUME NEW q \in Runs, FinishRestore(q) PROVE Kept
  BY <1>3, RestoresRemove DEF FinishRestore
<1>4. CASE RecoverRestore
  BY <1>4, RestoresRemove DEF RecoverRestore
<1>5. CASE ResumeRestore
  BY <1>5, RestoresRemove DEF ResumeRestore
<1>6. ASSUME NEW q \in Runs, WorkerEnter(q) PROVE Kept
  BY <1>6 DEF WorkerEnter, BridgeUnchanged, StartOwnsRun
<1>7. ASSUME NEW q \in Runs, WorkerExit(q) PROVE Kept
  BY <1>7 DEF WorkerExit, BridgeUnchanged, StartOwnsRun
<1> QED
  BY <1>1, <1>2, <1>3, <1>4, <1>5, <1>6, <1>7, Frame

\* Only a worker that enters brings the world into synchronous mode, or actors.
LEMMA WorldSteps ==
  ASSUME SessionTypeOK, [Next]_vars, NEW r \in Runs, NEW d \in {Sync(r), Actors(r)},
         d \in world', d \notin world
  PROVE  WorkerEnter(r)
<1> USE DEF Sync, Actors, Texture
<1>1. CASE StartLaunch
  BY <1>1 DEF StartLaunch
<1>2. CASE StartLaunchFails
  BY <1>2 DEF StartLaunchFails
<1>3. ASSUME NEW q \in Runs, FinishRestore(q) PROVE WorkerEnter(r)
  BY <1>3, RestoresRemove DEF FinishRestore
<1>4. CASE RecoverRestore
  BY <1>4, RestoresRemove DEF RecoverRestore
<1>5. CASE ResumeRestore
  BY <1>5, RestoresRemove DEF ResumeRestore
<1>6. ASSUME NEW q \in Runs, WorkerEnter(q) PROVE WorkerEnter(r)
  <2>1. q = r
    BY <1>6 DEF WorkerEnter
  <2> QED
    BY <1>6, <2>1
<1>7. ASSUME NEW q \in Runs, WorkerExit(q) PROVE WorkerEnter(r)
  BY <1>7 DEF WorkerExit
<1> QED
  BY <1>1, <1>2, <1>3, <1>4, <1>5, <1>6, <1>7, Frame

\* The types of the kinds, the acknowledged stops and the restarts are kept.
LEMMA RestTyped ==
  ASSUME SessionTypeOK, [Next]_vars
  PROVE  (/\ kindOf \in [Runs -> Kinds \cup {"none"}] /\ acked \subseteq Runs
          /\ restarts \in 0..MaxRestarts)'
<1> DEFINE Kept == (/\ kindOf \in [Runs -> Kinds \cup {"none"}] /\ acked \subseteq Runs
                    /\ restarts \in 0..MaxRestarts)'
<1> SUFFICES Kept
  OBVIOUS
<1> USE DEF SessionTypeOK, WorkerTypeOK, HandlerTypeOK, Runs
<1>1. ASSUME NEW q \in Runs, NEW kind \in Kinds, StartBegin(q, kind) PROVE Kept
  BY <1>1, LifecycleAssumption DEF StartBegin
<1>2. CASE StopMark
  BY <1>2, LifecycleAssumption DEF StopMark, NoSave
<1>3. CASE RestartBridge
  BY <1>3, LifecycleAssumption DEF RestartBridge
<1> QED
  BY <1>1, <1>2, <1>3, Frame

\* The type of the journal is kept.
LEMMA JournalTyped ==
  ASSUME SessionTypeOK, [Next]_vars
  PROVE  JournalTypeOK'
<1> USE DEF SessionTypeOK
<1>1. ASSUME NEW q \in Runs, NEW kind \in Kinds, StartBegin(q, kind) PROVE JournalTypeOK'
  BY <1>1, BeginWrites, NoSaveTypes DEF StartBegin, Written
<1>2. CASE StartLaunchFails
  BY <1>2, ToWrites, NoSaveTypes
     DEF StartLaunchFails, Written, MovesTo, States, ACTIVE, Ended, NoSave
<1>3. CASE StartAttach
  BY <1>3, AttachWrites, NoSaveTypes DEF StartAttach, Abort, Written, NoSave
<1>4. ASSUME NEW q \in Runs, FinishExited(q) PROVE JournalTypeOK'
  BY <1>4, ToWrites, NoSaveTypes
     DEF FinishExited, FinishUnchanged, Written, MovesTo, States, ACTIVE, Ended, NoSave
<1>5. ASSUME NEW q \in Runs, FinishSettle(q) PROVE JournalTypeOK'
  BY <1>5, ToWrites, NoSaveTypes
     DEF FinishSettle, FinishUnchanged, RunOutcomes, Written, MovesTo, States, ACTIVE,
         Ended, NoSave
<1>6. CASE StopMark
  BY <1>6, ToWrites, NoSaveTypes
     DEF StopMark, Written, MovesTo, States, ACTIVE, Ended, NoSave
<1>7. CASE RecoverClose
  BY <1>7, ToWrites, NoSaveTypes
     DEF RecoverClose, Written, MovesTo, States, ACTIVE, Ended, NoSave
<1>8. CASE ResumeOwner
  BY <1>8, ToWrites, NoSaveTypes
     DEF ResumeOwner, ResumeUnchanged, Written, MovesTo, States, ACTIVE, Ended, NoSave
<1>9. CASE ResumeClose
  BY <1>9, ToWrites, NoSaveTypes
     DEF ResumeClose, ResumeUnchanged, Written, MovesTo, States, ACTIVE, Ended, NoSave
<1>10. CASE ResumeKeep
  BY <1>10, ToWrites, NoSaveTypes
     DEF ResumeKeep, ResumeUnchanged, Written, MovesTo, States, ACTIVE, Ended, NoSave
<1>11. CASE RestartBridge
  BY <1>11 DEF RestartBridge, JournalTypeOK
<1> QED
  BY <1>1, <1>2, <1>3, <1>4, <1>5, <1>6, <1>7, <1>8, <1>9, <1>10, <1>11, Frame,
     NoSaveTypes

\* A run that has not begun has no record,
LEMMA FreshRecords ==
  ASSUME SessionTypeOK, FreshRunsAreNowhere, IdentitiesAgree, StartOwnsRun,
         OrderlyExitLeavesNothing, [Next]_vars
  PROVE  (\A r \in Runs : kindOf[r] = "none" => record[r] = Idle)'
<1> USE DEF SessionTypeOK, JournalTypeOK, WorkerTypeOK, HandlerTypeOK, FreshRunsAreNowhere
<1>1. CASE Rests
  BY BegunStays, <1>1 DEF Rests
<1>2. CASE RestartBridge
  BY BegunStays, <1>2 DEF RestartBridge
<1>3. CASE Begins
  BY BegunStays, <1>3 DEF Written, Begins
<1>4. CASE Attaches
  BY BegunStays, <1>4 DEF StartAttach, Written, Attaches
<1>5. CASE Moves
  BY BegunStays, <1>5 DEF MovesTo, Written, Moves, Targets
<1> QED
  BY <1>1, <1>2, <1>3, <1>4, <1>5, JournalSteps

\* no worker,
LEMMA FreshWorkers ==
  ASSUME SessionTypeOK, FreshRunsAreNowhere, IdentitiesAgree, StartOwnsRun,
         OrderlyExitLeavesNothing, [Next]_vars
  PROVE  (\A r \in Runs : kindOf[r] = "none" => worker[r] = NoWorker)'
<1> SUFFICES ASSUME NEW r \in Runs, kindOf'[r] = "none" PROVE worker'[r] = NoWorker
  OBVIOUS
<1>1. kindOf[r] = "none" /\ worker[r] = NoWorker /\ session.run # r
  BY BegunStays DEF FreshRunsAreNowhere
<1>2. ~Live(r)
  BY <1>1 DEF Live, NoWorker
<1>3. WorkerMoves(r)
  BY WorkerSteps
<1> QED
  BY <1>1, <1>2, <1>3 DEF WorkerMoves

\* no finisher,
LEMMA FreshFinish ==
  ASSUME SessionTypeOK, FreshRunsAreNowhere, IdentitiesAgree, StartOwnsRun,
         OrderlyExitLeavesNothing, [Next]_vars
  PROVE  (\A r \in Runs : kindOf[r] = "none" => finish[r] = "none")'
<1> DEFINE Kept == (\A r \in Runs : kindOf[r] = "none" => finish[r] = "none")'
<1> SUFFICES Kept
  OBVIOUS
<1> USE DEF SessionTypeOK, JournalTypeOK, WorkerTypeOK, HandlerTypeOK,
            FreshRunsAreNowhere, StartOwnsRun
<1>1. CASE StartAttach
  BY <1>1, BegunStays DEF StartAttach, Abort, NoSave
<1>2. CASE StartPublish
  BY <1>2, BegunStays DEF StartPublish, Abort, NoSave
<1>3. ASSUME NEW q \in Runs, FinishExited(q) PROVE Kept
  BY <1>3, BegunStays DEF FinishExited, FinishUnchanged, NoSave
<1>4. ASSUME NEW q \in Runs, FinishRestore(q) PROVE Kept
  BY <1>4, BegunStays
     DEF FinishRestore, FinishUnchanged, RestoreSucceeds, RestoreFails, NoSave,
         Abort
<1>5. ASSUME NEW q \in Runs, FinishSettle(q) PROVE Kept
  BY <1>5, BegunStays DEF FinishSettle, FinishUnchanged, RunOutcomes, NoSave
<1>6. CASE RestartBridge
  BY <1>6, BegunStays DEF RestartBridge, Abort
<1> QED
  BY <1>1, <1>2, <1>3, <1>4, <1>5, <1>6, Frame, BegunStays

\* no world,
LEMMA FreshWorld ==
  ASSUME SessionTypeOK, FreshRunsAreNowhere, IdentitiesAgree, StartOwnsRun,
         OrderlyExitLeavesNothing, [Next]_vars
  PROVE  (\A r \in Runs : kindOf[r] = "none" => {Sync(r), Actors(r)} \cap world = {})'
<1> SUFFICES ASSUME NEW r \in Runs, kindOf'[r] = "none", NEW d \in {Sync(r), Actors(r)},
                    d \in world'
             PROVE  FALSE
  OBVIOUS
<1>1. kindOf[r] = "none"
  BY BegunStays
<1>2. worker[r] = NoWorker /\ d \notin world
  BY <1>1 DEF FreshRunsAreNowhere
<1>3. WorkerEnter(r)
  BY <1>2, WorldSteps
<1> QED
  BY <1>2, <1>3 DEF WorkerEnter, NoWorker

\* no session,
LEMMA FreshSessions ==
  ASSUME SessionTypeOK, FreshRunsAreNowhere, IdentitiesAgree, StartOwnsRun,
         OrderlyExitLeavesNothing, [Next]_vars
  PROVE  (\A r \in Runs : kindOf[r] = "none" => session.run # r /\ saved.run # r)'
<1> USE DEF SessionTypeOK, JournalTypeOK, WorkerTypeOK, HandlerTypeOK, FreshRunsAreNowhere
<1>1. CASE Rests
  BY BegunStays, <1>1 DEF Rests
<1>2. CASE RestartBridge
  BY BegunStays, <1>2 DEF RestartBridge
<1>3. CASE Begins
  BY BegunStays, <1>3 DEF Written, Begins
<1>4. CASE Attaches
  BY BegunStays, <1>4 DEF StartAttach, Written, Attaches
<1>5. CASE Moves
  BY BegunStays, <1>5 DEF MovesTo, Written, Moves, Targets
<1> QED
  BY <1>1, <1>2, <1>3, <1>4, <1>5, JournalSteps

\* and no handle.
LEMMA FreshHandle ==
  ASSUME SessionTypeOK, FreshRunsAreNowhere, IdentitiesAgree, StartOwnsRun,
         OrderlyExitLeavesNothing, [Next]_vars
  PROVE  (\A r \in Runs : kindOf[r] = "none" => handle # r)'
<1> USE DEF SessionTypeOK, JournalTypeOK, WorkerTypeOK, HandlerTypeOK,
            FreshRunsAreNowhere, StartOwnsRun
<1>1. CASE StartLaunch
  BY <1>1, BegunStays DEF StartLaunch, NoSave
<1>2. CASE RestartBridge
  BY <1>2, BegunStays DEF RestartBridge, Runs
<1> QED
  BY <1>1, <1>2, Frame, BegunStays

\* A run that has had a worker has had one ever after.
LEMMA PhasesGrow ==
  ASSUME SessionTypeOK, StartOwnsRun, NEW r \in Runs, [Next]_vars
  PROVE  worker[r].phase # "none" => worker'[r].phase # "none"
BY WorkerSteps DEF WorkerMoves

\* A session names its run, and that run's process or none,
LEMMA SessionIdentities ==
  ASSUME SessionTypeOK, FreshRunsAreNowhere, IdentitiesAgree, StartOwnsRun, [Next]_vars
  PROVE  (\A s \in {session, saved} :
            /\ s.run = 0 <=> s.state = "idle"
            /\ s.process \in {0, s.run})'
<1> USE DEF SessionTypeOK, JournalTypeOK, IdentitiesAgree
<1>1. CASE Rests
  BY <1>1 DEF Rests
<1>2. CASE RestartBridge
  BY <1>2 DEF RestartBridge
<1>3. CASE Begins
  BY <1>3, BegunStays DEF Written, Begins
<1>4. CASE Attaches
  BY <1>4 DEF StartAttach, Written, StartOwnsRun, Attaches
<1>5. CASE Moves
  BY <1>5
     DEF MovesTo, Written, Allowed, StartLaunchFails, StartOwnsRun, Moves, Targets, Ended
<1> QED
  BY <1>1, <1>2, <1>3, <1>4, <1>5, JournalSteps

\* the process it names has been spawned,
LEMMA SessionWorkers ==
  ASSUME SessionTypeOK, FreshRunsAreNowhere, IdentitiesAgree, StartOwnsRun, [Next]_vars
  PROVE  (\A s \in {session, saved} : s.process # 0 => worker[s.process].phase # "none")'
<1>0. \A p \in 0..MaxRuns : p # 0 /\ worker[p].phase # "none" => worker'[p].phase # "none"
  BY PhasesGrow, LifecycleAssumption DEF Runs
<1> USE DEF SessionTypeOK, JournalTypeOK, IdentitiesAgree, Session
<1>1. CASE Rests
  BY <1>0, <1>1 DEF Rests
<1>2. CASE RestartBridge
  BY <1>0, <1>2 DEF RestartBridge
<1>3. CASE Begins
  BY <1>0, <1>3 DEF Written, Begins
<1>4. CASE Attaches
  BY <1>0, <1>4 DEF StartAttach, Written, StartOwnsRun, Attaches
<1>5. CASE Moves
  BY <1>0, <1>5 DEF MovesTo, Written, Moves, Targets
<1> QED
  BY <1>1, <1>2, <1>3, <1>4, <1>5, JournalSteps

\* and record, session and file agree on it (attach, reconcile).
LEMMA RecordIdentities ==
  ASSUME SessionTypeOK, FreshRunsAreNowhere, IdentitiesAgree, StartOwnsRun, [Next]_vars,
         NEW r \in Runs
  PROVE  (/\ record[r].process = r => worker[r].phase # "none"
          /\ record[r].process \in {0, r}
          /\ record[r].process = r /\ session.run = r => session.process = r
          /\ record[r].process = r /\ saved.run = r => saved.process = r)'
<1>0. worker[r].phase # "none" => worker'[r].phase # "none"
  BY PhasesGrow
<1>a. r # 0
  BY DEF Runs
<1>b. \A s \in {session', saved'} : s.process # 0 => worker'[s.process].phase # "none"
  BY SessionWorkers
<1>c. \A s \in {session', saved'} : s.process \in {0, s.run}
  BY SessionIdentities
<1> USE <1>0, <1>a DEF SessionTypeOK, JournalTypeOK, IdentitiesAgree
<1>1. CASE Rests
  BY <1>1 DEF Rests
<1>2. CASE RestartBridge
  BY <1>2 DEF RestartBridge
<1>3. CASE Begins
  BY <1>3, BegunStays DEF Written, FreshRunsAreNowhere, Idle, Begins
<1>4. CASE Attaches
  BY <1>b, <1>c, <1>4 DEF StartAttach, Written, StartOwnsRun, Attaches
<1>5. CASE Moves
  BY <1>b, <1>c, <1>5 DEF MovesTo, Written, Moves, Targets
<1> QED
  BY <1>1, <1>2, <1>3, <1>4, <1>5, JournalSteps

\* A worker that has exited changes no more.
LEMMA ExitedStays ==
  ASSUME SessionTypeOK, StartOwnsRun, [Next]_vars, NEW r \in Runs,
         worker[r].phase = "exited"
  PROVE  worker'[r] = worker[r]
<1>1. ~Live(r)
  BY DEF Live
<1>2. ~(StartLaunch /\ r = session.run)
  BY DEF StartLaunch, StartOwnsRun, NoWorker
<1>3. WorkerMoves(r)
  BY WorkerSteps
<1> QED
  BY <1>1, <1>2, <1>3 DEF WorkerMoves

\* Who ended in order has given the world back, and no recovery undoes that.
LEMMA OrderlyExits ==
  ASSUME SessionTypeOK, StartOwnsRun, OrderlyExitLeavesNothing, [Next]_vars
  PROVE  OrderlyExitLeavesNothing'
<1> SUFFICES ASSUME NEW r \in Runs
             PROVE  /\ worker'[r].exit # "none" => worker'[r].phase = "exited"
                    /\ worker'[r].exit = "ok" \/ worker'[r].phase = "none" =>
                         {Sync(r), Actors(r)} \cap world' = {}
  BY DEF OrderlyExitLeavesNothing
<1> USE DEF OrderlyExitLeavesNothing
<1>1. worker'[r].exit # "none" => worker'[r].phase = "exited"
  BY WorkerSteps, ExitedStays DEF WorkerMoves
<1>2. ASSUME NEW d \in {Sync(r), Actors(r)}, d \in world'
      PROVE  worker'[r].exit # "ok" /\ worker'[r].phase # "none"
  <2>1. CASE d \in world
    <3>1. worker[r].exit # "ok" /\ worker[r].phase # "none"
      BY <2>1
    <3>2. worker'[r].phase # "none"
      BY <3>1, WorkerSteps DEF WorkerMoves
    <3>3. ASSUME worker'[r].exit = "ok" PROVE FALSE
      <4>1. WorkerExit(r)
        BY <3>1, <3>3, WorkerSteps DEF WorkerMoves
      <4>2. world' = world \ {Sync(r), Actors(r)} \/ worker'[r].exit # "ok"
        BY <4>1 DEF WorkerExit, SessionTypeOK, WorkerTypeOK, Worker
      <4> QED
        BY <1>2, <3>3, <4>2
    <3> QED
      BY <3>2, <3>3
  <2>2. CASE d \notin world
    <3>1. WorkerEnter(r)
      BY <1>2, <2>2, WorldSteps
    <3>2. worker'[r].phase = "owning"
      BY <3>1 DEF WorkerEnter, SessionTypeOK, WorkerTypeOK, Worker
    <3> QED
      BY <1>1, <3>2
  <2> QED
    BY <2>1, <2>2
<1> QED
  BY <1>1, <1>2

\* What a preset left behind stays that.
LEMMA LeftStays ==
  ASSUME SessionTypeOK, StartOwnsRun, [Next]_vars
  PROVE  LeftBehind \subseteq LeftBehind'
<1> SUFFICES ASSUME NEW r \in Runs, kindOf[r] = "preset", worker[r].phase = "exited",
                    worker[r].exit # "ok"
             PROVE  kindOf'[r] = "preset" /\ worker'[r].phase = "exited" /\ worker'[r].exit # "ok"
  BY DEF LeftBehind, Actors
<1>1. worker'[r] = worker[r]
  BY ExitedStays
<1>2. kindOf'[r] = kindOf[r]
  BY BegunStays
<1> QED
  BY <1>1, <1>2

\* While the start handler runs, the session stays its run.
LEMMA StartKeepsSession ==
  ASSUME SessionTypeOK, FreshRunsAreNowhere, StartOwnsRun, [Next]_vars, start # "idle",
         start' # "idle"
  PROVE  /\ session'.run = session.run /\ saved'.run = session.run
         /\ ~RestartBridge /\ ~StopSignal
<1>1. ~RestartBridge /\ ~StopSignal
  BY DEF RestartBridge, StopSignal, TaskFree
<1>2. \A r \in Runs, kind \in Kinds : ~StartBegin(r, kind)
  BY DEF StartBegin, SimFree
<1> QED
  BY <1>1, <1>2, JournalSteps
     DEF Rests, Begins, Attaches, Moves, MovesTo, Written, StartOwnsRun

\* The start handler keeps its run to itself (the simulation and task locks).
LEMMA StartStepsOwn ==
  ASSUME SessionTypeOK, FreshRunsAreNowhere, IdentitiesAgree, StartOwnsRun, [Next]_vars
  PROVE  StartOwnsRun'
<1>1. CASE start' = "idle"
  <2>1. CASE UNCHANGED recover
    BY <1>1 DEF StartOwnsRun
  <2> QED
    BY <1>1 DEF StartOwnsRun
<1>2. CASE start = "idle" /\ start' # "idle"
  <2>1. PICK r \in Runs, kind \in Kinds : StartBegin(r, kind)
    BY <1>2, Frame
       DEF StartLaunch, StartLaunchFails, StartAttach, StartPublish, RestartBridge
  <2>2. PICK outcome \in Outcomes :
          /\ Save([state |-> "preparing", run |-> r, process |-> 0], outcome)
          /\ outcome # "raised" /\ start' = "launch" /\ UNCHANGED <<stop, recover, worker>>
    BY <1>2, <2>1 DEF StartBegin
  <2>3. session'.run = r /\ saved'.run = r /\ session'.process = 0
    BY <2>2, BeginWrites DEF Written, SessionTypeOK
  <2>4. worker[r] = NoWorker /\ r # 0 /\ stop = 0 /\ recover = "idle"
    BY <2>1, BegunStays DEF FreshRunsAreNowhere, StartBegin, TaskFree, SimFree
  <2> QED
    BY <2>2, <2>3, <2>4 DEF StartOwnsRun, NoWorker
<1>3. CASE start # "idle" /\ start' # "idle"
  <2>1. session'.run = session.run /\ saved'.run = session.run /\ ~RestartBridge /\ ~StopSignal
    BY <1>3, StartKeepsSession
  <2>2. stop' = 0 /\ recover' = "idle"
    BY <1>3, <2>1, Frame DEF StartOwnsRun, StopMark, RecoverRestore, RecoverClose, SimFree
  <2>3. session.run \in Runs
    BY <1>3, LifecycleAssumption
       DEF StartOwnsRun, SessionTypeOK, JournalTypeOK, Session, Runs
  <2>4. worker'[session.run].signals = 0
    <3>1. CASE StartAttach \/ StartPublish
      BY <1>3, <3>1 DEF StartAttach, StartPublish, Abort, StartOwnsRun
    <3>2. CASE ~(StartAttach \/ StartPublish)
      <4>1. WorkerMoves(session.run)
        BY <2>3, WorkerSteps
      <4>2. worker[session.run].signals = 0
        BY <1>3 DEF StartOwnsRun
      <4> QED
        BY <2>1, <3>2, <4>1, <4>2 DEF WorkerMoves
    <3> QED
      BY <3>1, <3>2
  <2>5. CASE start = "launch"
    <3>1. CASE StartLaunch
      <4>1. start' = "attach" /\ handle' = session.run /\ session' = session
        BY <3>1 DEF StartLaunch, NoSave
      <4>2. worker'[session.run].phase # "none"
        BY <2>3, <3>1 DEF StartLaunch, SessionTypeOK, WorkerTypeOK, Worker
      <4> QED
        BY <1>3, <2>1, <2>2, <2>4, <2>5, <4>1, <4>2 DEF StartOwnsRun
    <3>2. CASE ~StartLaunch
      <4>1. start' = "launch"
        BY <1>3, <2>1, <2>5, <3>2, Frame
           DEF StartLaunchFails, StartAttach, StartPublish, StartBegin, SimFree
      <4>2. worker'[session.run] = NoWorker
        <5>1. worker[session.run] = NoWorker /\ ~Live(session.run)
          BY <2>5 DEF StartOwnsRun, Live, NoWorker
        <5>2. WorkerMoves(session.run)
          BY <2>3, WorkerSteps
        <5> QED
          BY <3>2, <5>1, <5>2 DEF WorkerMoves
      <4>3. session'.process = session.process
        BY <2>1, <2>5, <1>3, JournalSteps
           DEF Rests, Begins, Attaches, Moves, MovesTo, StartAttach, StartBegin, SimFree
      <4> QED
        BY <1>3, <2>1, <2>2, <2>4, <2>5, <4>1, <4>2, <4>3 DEF StartOwnsRun
    <3> QED
      BY <3>1, <3>2
  <2>6. CASE start # "launch"
    <3>1. start' # "launch"
      BY <1>3, <2>6, Frame
         DEF StartLaunch, StartLaunchFails, StartAttach, StartPublish, RestartBridge,
             StartBegin, SimFree, Abort
    <3>2. handle' = handle
      BY <2>1, <2>6, Frame DEF StartLaunch
    <3>3. handle = session.run /\ worker'[session.run].phase # "none"
      BY <1>3, <2>6, <2>3, PhasesGrow DEF StartOwnsRun, SessionTypeOK, HandlerTypeOK
    <3>4. start' = "attach" => start = "attach" /\ ~StartAttach
      BY <1>3, <2>6, <2>1, Frame
         DEF StartLaunch, StartLaunchFails, StartAttach, StartPublish, RestartBridge,
             StartBegin, SimFree, Abort
    <3>5. start' = "attach" => session'.process = session.process
      BY <3>4, <2>1, <1>3, JournalSteps
         DEF Rests, Begins, Attaches, Moves, MovesTo, StartBegin, SimFree
    <3> QED
      BY <1>3, <2>1, <2>2, <2>4, <3>1, <3>2, <3>3, <3>4, <3>5 DEF StartOwnsRun
  <2> QED
    BY <2>5, <2>6
<1> QED
  BY <1>1, <1>2, <1>3

\* The type invariant is kept.
LEMMA BaseTypes ==
  ASSUME BaseInv, [Next]_vars
  PROVE  SessionTypeOK'
<1> USE DEF BaseInv
<1>1. JournalTypeOK'
  BY JournalTyped
<1>2. HandlerTypeOK'
  BY JobTyped, HandlesTyped, HandlersTyped, ResumeTyped, FinishTyped DEF HandlerTypeOK
<1>3. WorkerTypeOK'
  BY WorkersTyped, WorldTyped, RestTyped DEF WorkerTypeOK
<1> QED
  BY <1>1, <1>2, <1>3 DEF SessionTypeOK

\* Runs that have not begun are kept out of everything.
LEMMA BaseFresh ==
  ASSUME BaseInv, [Next]_vars
  PROVE  FreshRunsAreNowhere'
BY FreshRecords, FreshWorkers, FreshFinish, FreshWorld, FreshSessions, FreshHandle
   DEF BaseInv, FreshRunsAreNowhere

\* What holds whatever crashes, fails or races is inductive.
LEMMA BaseStep ==
  ASSUME BaseInv, [Next]_vars
  PROVE  BaseInv'
<1>1. SessionTypeOK'
  BY BaseTypes
<1>2. FreshRunsAreNowhere'
  BY BaseFresh
<1>3. IdentitiesAgree'
  <2>1. \A s \in {session', saved'} :
          (s.run = 0 <=> s.state = "idle") /\ s.process \in {0, s.run}
    BY SessionIdentities DEF BaseInv
  <2>2. \A s \in {session', saved'} : s.process # 0 => worker'[s.process].phase # "none"
    BY SessionWorkers DEF BaseInv
  <2>3. ASSUME NEW r \in Runs
        PROVE  (/\ record[r].process = r => worker[r].phase # "none"
                /\ record[r].process \in {0, r}
                /\ record[r].process = r /\ session.run = r => session.process = r
                /\ record[r].process = r /\ saved.run = r => saved.process = r)'
    BY RecordIdentities DEF BaseInv
  <2> QED
    BY <2>1, <2>2, <2>3 DEF IdentitiesAgree
<1>4. StartOwnsRun' /\ OrderlyExitLeavesNothing'
  BY StartStepsOwn, OrderlyExits DEF BaseInv
<1> QED
  BY <1>1, <1>2, <1>3, <1>4 DEF BaseInv

\* It holds of a bridge started for the first time.
LEMMA BaseInit == Init => BaseInv
<1> SUFFICES ASSUME Init PROVE BaseInv
  OBVIOUS
<1>1. SessionTypeOK
  <2>1. Idle \in Session /\ NoWorker \in Worker
    BY LifecycleAssumption DEF Idle, Session, NoWorker, Worker
  <2>2. JournalTypeOK
    <3>1. session \in Session /\ saved \in Session /\ record \in [Runs -> Session]
      BY <2>1 DEF Init
    <3>2. badWrites \in 0..MaxBadWrites
      BY LifecycleAssumption DEF Init
    <3>3. dying \in BOOLEAN
      BY Zenon DEF Init
    <3> QED
      BY <3>1, <3>2, <3>3 DEF JournalTypeOK
  <2>3. HandlerTypeOK
    <3>1. job \in Job
      BY JobValues DEF Init
    <3>2. /\ {handle, pidfile, stop} \subseteq 0..MaxRuns
          /\ resume \in [pc : {"idle", "wait", "restore", "close", "keep", "job"},
                         run : 0..MaxRuns, process : 0..MaxRuns]
      BY LifecycleAssumption DEF Init
    <3>3. finish \in [Runs -> {"none", "wait", "restore", "restore_err", "settle", "settle_err"}]
      BY DEF Init
    <3> QED
      BY <3>1, <3>2, <3>3 DEF Init, HandlerTypeOK
  <2>4. WorkerTypeOK
    BY <2>1, LifecycleAssumption DEF Init, WorkerTypeOK
  <2> QED
    BY <2>2, <2>3, <2>4 DEF SessionTypeOK
<1>2. FreshRunsAreNowhere
  BY DEF Init, FreshRunsAreNowhere, Idle, Runs
<1>3. IdentitiesAgree
  BY DEF Init, IdentitiesAgree, Idle, Runs
<1>4. StartOwnsRun /\ OrderlyExitLeavesNothing
  BY DEF Init, StartOwnsRun, OrderlyExitLeavesNothing, NoWorker
<1> QED
  BY <1>1, <1>2, <1>3, <1>4 DEF BaseInv

\* Type correctness, for any number of executions, interrupts, restarts and
\* failed writes, whatever the environment does.
THEOREM SessionTypeCorrect == Spec => []SessionTypeOK
<1>1. Spec => []BaseInv
  BY BaseInit, BaseStep, PTL DEF Spec
<1> QED
  BY <1>1, PTL DEF BaseInv

\* How a finisher gets where it is (_finish_e2e).
LEMMA FinishSteps ==
  ASSUME SessionTypeOK, [Next]_vars, NEW r \in Runs, finish'[r] # "none"
  PROVE  \/ finish'[r] = finish[r] /\ ~RestartBridge
         \/ (StartAttach \/ StartPublish) /\ r = handle /\ finish'[r] = "wait" /\ start' = "idle"
         \/ FinishExited(r) /\ finish'[r] \in {"restore", "restore_err"}
         \/ FinishRestore(r) /\ finish'[r] \in {"settle", "settle_err"}
<1>0. DOMAIN finish = Runs /\ finish = [p \in Runs |-> finish[p]]
  BY DEF SessionTypeOK, HandlerTypeOK
<1>1. CASE StartAttach
  BY <1>0, <1>1 DEF StartAttach, Abort, RestartBridge
<1>2. CASE StartPublish
  BY <1>0, <1>2 DEF StartPublish, Abort, RestartBridge
<1>3. ASSUME NEW q \in Runs, FinishExited(q)
      PROVE  finish'[r] = finish[r] \/ (r = q /\ finish'[r] \in {"restore", "restore_err"})
  <2>1. PICK v \in {"restore", "restore_err", "none"} : finish' = [finish EXCEPT ![q] = v]
    BY <1>3 DEF FinishExited
  <2> QED
    BY <1>0, <2>1
<1>4. ASSUME NEW q \in Runs, FinishRestore(q)
      PROVE  finish'[r] = finish[r] \/ (r = q /\ finish'[r] \in {"settle", "settle_err"})
  <2>1. PICK v \in {"settle", "settle_err"} : finish' = [finish EXCEPT ![q] = v]
    BY <1>4 DEF FinishRestore
  <2> QED
    BY <1>0, <2>1
<1>5. ASSUME NEW q \in Runs, FinishSettle(q)
      PROVE  finish'[r] = finish[r]
  BY <1>5 DEF FinishSettle
<1>6. RestartBridge => finish'[r] = "none"
  BY DEF RestartBridge
<1> QED
  BY <1>1, <1>2, <1>3, <1>4, <1>5, <1>6, Frame

\* How the start handler gets where it is (start_e2e).
LEMMA StartSteps ==
  ASSUME SessionTypeOK, [Next]_vars, start' # "idle"
  PROVE  \/ start = "idle" /\ Begins
         \/ start # "idle" /\ ~RestartBridge /\ ~Begins
<1>1. start # "idle" => ~RestartBridge /\ ~Begins
  BY DEF RestartBridge, Begins, StartBegin, SimFree
<1>2. start = "idle" => \E r \in Runs, kind \in Kinds : StartBegin(r, kind)
  BY Frame DEF StartLaunch, StartLaunchFails, StartAttach, StartPublish, RestartBridge
<1>3. ASSUME start = "idle" PROVE Begins
  <2>1. PICK r \in Runs, kind \in Kinds : StartBegin(r, kind)
    BY <1>2, <1>3
  <2> QED
    BY <2>1, BeginWrites DEF StartBegin, Begins, SessionTypeOK, SimFree
<1> QED
  BY <1>1, <1>3

\* How the recover handler gets where it is (recover_session).
LEMMA RecoverSteps ==
  ASSUME [Next]_vars, recover' = "close"
  PROVE  ~RestartBridge /\ (recover = "close" \/ RecoverRestore)
BY Frame DEF RecoverClose, RestartBridge

\* The session before a write is the one saved, or already given up for it.
LEMMA SavedStaysBehind ==
  ASSUME RecoveryInv, [Next]_vars
  PROVE  SavedIsBehind'
<1> USE DEF RecoveryInv, BaseInv
<1>0. \A r \in Runs : worker[r].phase = "none" /\ worker'[r].phase # "none" =>
        StartLaunch /\ r = session.run
  BY WorkerSteps DEF WorkerMoves, Live
<1>a. session.run # 0 => session.run \in Runs
  BY LifecycleAssumption DEF SessionTypeOK, JournalTypeOK, Session, Runs
<1>1. CASE Rests
  <2>1. StartLaunch => saved.run = session.run
    BY DEF StartLaunch, StartOwnsRun
  <2> QED
    BY <1>0, <1>a, <1>1, <2>1 DEF Rests, SavedIsBehind
<1>2. CASE RestartBridge
  BY <1>2 DEF RestartBridge, SavedIsBehind
<1>3. CASE Begins
  <2>1. PICK r \in Runs, kind \in Kinds, outcome \in Outcomes :
               /\ StartBegin(r, kind) /\ Written(session', outcome) /\ session'.run = r
    BY <1>3 DEF Begins
  <2>2. worker[r].phase = "none" /\ worker' = worker /\ saved.run # r /\ r # 0
    <3>1. kindOf[r] = "none" /\ r # 0 /\ worker' = worker
      BY <2>1, BegunStays DEF StartBegin
    <3>2. worker[r] = NoWorker /\ saved.run # r
      BY <3>1 DEF FreshRunsAreNowhere
    <3> QED
      BY <3>1, <3>2 DEF NoWorker
  <2> QED
    BY <2>1, <2>2 DEF Written, SavedIsBehind
<1>4. CASE Attaches
  <2>1. session.state \notin Ended
    BY <1>4 DEF Attaches, Allowed, Ended
  <2>2. saved.run = session.run
    BY <1>4 DEF Attaches, StartAttach, StartOwnsRun
  <2> QED
    BY <1>4, <2>1, <2>2 DEF Attaches, Written, SavedIsBehind
<1>5. CASE Moves
  <2>1. PICK target \in Targets, outcome \in Outcomes :
            MovesTo(target, outcome) /\ Mover(target) /\ Allowed(target)
    BY <1>5 DEF Moves
  <2>2. session.state \in Ended => target = session.state
    BY <2>1 DEF Allowed, Ended, StartLaunchFails, StartIsAlone, ACTIVE
  <2>3. ~StartLaunch
    BY <2>1 DEF Mover, StartLaunch, StartLaunchFails, FinishExited, FinishUnchanged,
           FinishSettle, StopMark,
         RecoverClose, ResumeOwner, ResumeClose, ResumeKeep, ResumeUnchanged
  <2>4. session'.run = session.run /\ session'.state = target
    BY <2>1 DEF MovesTo
  <2>5. CASE saved' = session'
    BY <2>5 DEF SavedIsBehind
  <2>6. CASE saved' = saved
    <3>1. saved.run = session.run /\ saved.state \in Ended => session'.state = saved.state
      BY <2>2, <2>4 DEF SavedIsBehind
    <3>2. saved.run # session.run => session.run # 0 /\ worker'[session.run].phase = "none"
      BY <1>0, <1>a, <2>3 DEF SavedIsBehind
    <3> QED
      BY <2>4, <2>6, <3>1, <3>2 DEF SavedIsBehind
  <2> QED
    BY <2>1, <2>5, <2>6 DEF MovesTo, Written
<1> QED
  BY <1>1, <1>2, <1>3, <1>4, <1>5, JournalSteps

\* What may move the session while a handler or a thread has it.
LEMMA MoversApart ==
  ASSUME RecoveryInv, NEW target, Mover(target)
  PROVE  /\ start # "idle" => StartLaunchFails \/ ResumeKeep
         /\ recover = "close" => StopMark \/ RecoverClose
         /\ resume.pc \in {"wait", "restore", "close"} => StopMark \/ ResumeOwner \/ ResumeClose
BY DEF Mover, RecoveryInv, BaseInv, StartOwnsRun, StartIsAlone, FinisherIsAlone,
       RecoverIsAlone,
       ResumeIsAlone, NoFinisher

\* A run begins only when none is active, in the session, the job or a process
\* (evaluation_active).
LEMMA NotActiveWhenBegun ==
  ASSUME Begins
  PROVE  /\ session.state \notin ACTIVE /\ start = "idle" /\ stop = 0 /\ recover = "idle"
         /\ ~Live(handle) /\ ~Live(pidfile) /\ job.state \notin {"running", "stopping"}
         /\ UNCHANGED <<finish, resume, recover, stop, handle, worker, world>> /\ ~dying
BY DEF Begins, StartBegin, EvaluationActive, SimFree, TaskFree, Up

\* No other handler or thread moves the session of a start under way.
LEMMA StartStaysAlone ==
  ASSUME RecoveryInv, [Next]_vars
  PROVE  StartIsAlone'
<1> USE DEF RecoveryInv, BaseInv
<1> SUFFICES ASSUME start' # "idle"
             PROVE  /\ \A r \in Runs : finish'[r] = "none"
                    /\ resume'.pc \notin {"wait", "restore", "close"}
                    /\ session'.state \in ACTIVE
                    /\ record'[session'.run].state # "idle" \/ dying'
  BY DEF StartIsAlone, NoFinisher
<1>1. CASE start = "idle" /\ Begins
  <2>1. NoFinisher /\ resume.pc \notin {"wait", "restore", "close"}
    BY <1>1, NotActiveWhenBegun DEF FinisherIsAlone, ResumeIsAlone, NoFinisher
  <2>2. finish' = finish /\ resume' = resume
    BY <1>1, NotActiveWhenBegun
  <2>3. session'.state = "preparing" /\ (record'[session'.run].state # "idle" \/ dying')
    BY <1>1 DEF Begins, Written, SessionTypeOK, JournalTypeOK
  <2> QED
    BY <2>1, <2>2, <2>3 DEF NoFinisher, ACTIVE
<1>2. CASE start # "idle" /\ ~RestartBridge /\ ~Begins
  <2>1. \A r \in Runs : finish'[r] = "none"
    BY <1>2, FinishSteps DEF StartIsAlone, NoFinisher, FinishExited, FinishRestore
  <2>2. resume'.pc \notin {"wait", "restore", "close"}
    BY <1>2, Frame
       DEF StartIsAlone, ResumeOwner, ResumeRestore, ResumeClose, ResumeKeep, ResumeJob,
           SessionTypeOK, HandlerTypeOK
  <2>3. CASE Rests
    BY <1>2, <2>1, <2>2, <2>3 DEF Rests, StartIsAlone
  <2>4. CASE Attaches
    BY <1>2, <2>1, <2>2, <2>4
       DEF Attaches, Written, StartIsAlone, ACTIVE, SessionTypeOK, JournalTypeOK
  <2>5. CASE Moves
    <3>1. PICK target \in Targets, outcome \in Outcomes : MovesTo(target, outcome) /\ Mover(target)
      BY <2>5 DEF Moves
    <3>2. target = "recovering"
      BY <1>2, <3>1, MoversApart
         DEF Mover, StartIsAlone, FinisherIsAlone, NoFinisher, StartOwnsRun
    <3> QED
      BY <1>2, <2>1, <2>2, <3>1, <3>2
         DEF MovesTo, Written, StartIsAlone, ACTIVE, SessionTypeOK, JournalTypeOK
  <2> QED
    BY <1>2, <2>3, <2>4, <2>5, JournalSteps
<1> QED
  BY <1>1, <1>2, StartSteps

\* A finisher finds its own session, active, whatever has restarted meanwhile.
LEMMA FinisherStaysAlone ==
  ASSUME RecoveryInv, [Next]_vars
  PROVE  FinisherIsAlone'
<1> USE DEF RecoveryInv, BaseInv
<1> SUFFICES ASSUME NEW r \in Runs, finish'[r] # "none"
             PROVE  /\ handle' = r /\ session'.run = r /\ session'.state \in ACTIVE
                    /\ worker'[r].phase # "none"
                    /\ finish'[r] # "wait" =>
                         worker'[r].phase = "exited" /\ session'.state = "recovering"
  BY DEF FinisherIsAlone
<1>1. CASE (StartAttach \/ StartPublish) /\ r = handle /\ finish'[r] = "wait"
  <2>1. session.run = r /\ worker[r].phase # "none" /\ session.state \in ACTIVE
    BY <1>1 DEF StartAttach, StartPublish, StartOwnsRun, StartIsAlone
  <2>2. handle' = r /\ session'.run = r /\ session'.state \in ACTIVE
    <3>1. CASE StartPublish
      BY <1>1, <2>1, <3>1 DEF StartPublish, NoSave
    <3>2. CASE StartAttach /\ NoSave
      BY <1>1, <2>1, <3>2 DEF StartAttach, NoSave
    <3>3. CASE StartAttach /\ ~NoSave
      BY <1>1, <2>1, <3>3, AttachWrites DEF StartAttach, ACTIVE
    <3> QED
      BY <1>1, <3>1, <3>2, <3>3
  <2> QED
    BY <1>1, <2>1, <2>2, PhasesGrow
<1>2. CASE finish[r] # "none" /\ ~StartAttach /\ ~StartPublish
  <2>1. handle = r /\ session.run = r /\ session.state \in ACTIVE /\ worker[r].phase # "none"
    BY <1>2 DEF FinisherIsAlone
  <2>2. start = "idle" /\ recover = "idle" /\ resume.pc \notin {"wait", "restore", "close"}
    BY <1>2 DEF StartIsAlone, RecoverIsAlone, ResumeIsAlone, NoFinisher, SessionTypeOK,
           HandlerTypeOK
  <2>3. ~RestartBridge
    BY DEF RestartBridge
  <2>4. handle' = r /\ worker'[r].phase # "none"
    BY <2>1, <2>2, <2>3, Frame, PhasesGrow DEF StartLaunch
  <2>5. finish'[r] # "wait" =>
           \/ finish[r] # "wait" /\ session.state = "recovering" /\ worker[r].phase = "exited"
           \/ FinishExited(r) /\ worker[r].phase = "exited"
    BY <1>2, FinishSteps DEF FinisherIsAlone, FinishExited, FinishRestore
  <2>6. worker[r].phase = "exited" => worker'[r].phase = "exited"
    BY ExitedStays
  <2>7. /\ session'.run = r /\ session'.state \in ACTIVE
        /\ (session.state = "recovering" => session'.state = "recovering")
    <3>1. CASE Rests
      BY <2>1, <3>1 DEF Rests
    <3>2. CASE Moves
      <4>1. PICK target \in Targets, outcome \in Outcomes :
               MovesTo(target, outcome) /\ Mover(target) /\ Allowed(target)
        BY <3>2 DEF Moves
      <4>2. \/ target \in {"stopping", "recovering"}
            \/ \E q \in Runs : FinishSettle(q) /\ finish[q] # "none"
        BY <2>2, <4>1 DEF Mover
      <4>3. ASSUME NEW q \in Runs, FinishSettle(q), finish[q] # "none" PROVE FALSE
        <5>1. q = r
          BY <4>3, <2>1 DEF FinisherIsAlone
        <5>2. finish'[q] = "none"
          BY <4>3 DEF FinishSettle, SessionTypeOK, HandlerTypeOK
        <5> QED
          BY <5>1, <5>2
      <4>4. session.state = "recovering" => target = "recovering"
        BY <4>1, <4>2, <4>3, <2>2 DEF Allowed, StartLaunchFails
      <4> QED
        BY <2>1, <4>1, <4>2, <4>3, <4>4 DEF MovesTo, ACTIVE
    <3> QED
      BY <2>1, <2>2, <2>3, <3>1, <3>2, <1>2, JournalSteps, NotActiveWhenBegun DEF Attaches
  <2>8. FinishExited(r) /\ finish'[r] # "wait" => session'.state = "recovering"
    <3>1. SUFFICES ASSUME FinishExited(r) PROVE session'.state = "recovering"
      OBVIOUS
    <3>2. Allowed("recovering")
      BY <2>1 DEF Allowed, ACTIVE
    <3>3. \E outcome \in Outcomes : To("recovering", outcome)
      BY <2>1, <3>1, <3>2 DEF FinishExited
    <3> QED
      BY <3>3, ToWrites DEF MovesTo, States, ACTIVE, SessionTypeOK
  <2> QED
    BY <2>4, <2>5, <2>6, <2>7, <2>8
<1>3. finish[r] # "none" => ~StartAttach /\ ~StartPublish
  BY DEF StartIsAlone, NoFinisher, StartAttach, StartPublish
<1> QED
  BY <1>1, <1>2, <1>3, FinishSteps DEF FinishExited, FinishRestore

\* Without operator races, a recovery closes the session it has recovered.
LEMMA RecoverStaysAlone ==
  ASSUME RecoveryInv, "operator_races" \notin Environment, [Next]_vars
  PROVE  RecoverIsAlone'
<1> USE DEF RecoveryInv, BaseInv
<1> SUFFICES ASSUME recover' = "close"
             PROVE  /\ \A r \in Runs : finish'[r] = "none"
                    /\ resume'.pc = "idle" /\ session'.state = "recovering" /\ ~Live(session.process)'
  BY DEF RecoverIsAlone, NoFinisher
<1>1. /\ start = "idle" /\ NoFinisher /\ resume.pc = "idle"
      /\ session.state = "recovering" /\ ~Live(session.process)
  <2>1. CASE RecoverRestore
    <3>1. ~RecoveryPending /\ start = "idle" /\ session.state = "recovering" /\ OwnedPid = 0
      BY <2>1 DEF RecoverRestore, SimFree
    <3>2. ~Live(session.process)
      BY <3>1 DEF OwnedPid, Live, Runs
    <3> QED
      BY <3>1, <3>2 DEF RecoveryPending, NoFinisher
  <2>2. CASE recover = "close"
    BY <2>2 DEF RecoverIsAlone, StartOwnsRun
  <2> QED
    BY <2>1, <2>2, RecoverSteps
<1>2. ~RestartBridge /\ ~Begins
  BY <1>1, RecoverSteps, NotActiveWhenBegun DEF ACTIVE
<1>3. \A r \in Runs : finish'[r] = "none"
  BY <1>1, FinishSteps
     DEF NoFinisher, StartAttach, StartPublish, FinishExited, FinishRestore
<1>4. resume' = resume
  BY <1>1, <1>2, Frame DEF ResumeOwner, ResumeRestore, ResumeClose, ResumeKeep, ResumeJob
<1>5. session'.state = "recovering" /\ session'.process = session.process
  <2>1. CASE Rests
    BY <1>1, <2>1 DEF Rests
  <2>2. CASE Moves
    <3>1. PICK target \in Targets, outcome \in Outcomes :
               MovesTo(target, outcome) /\ Mover(target) /\ Allowed(target)
      BY <2>2 DEF Moves
    <3>2. ~RecoverClose
      BY DEF RecoverClose
    <3>3. target = "stopping" /\ Allowed(target)
      BY <1>1, <3>1, <3>2 DEF Mover, NoFinisher, StartLaunchFails
    <3> QED
      BY <1>1, <3>3 DEF Allowed
  <2> QED
    BY <1>1, <1>2, <2>1, <2>2, JournalSteps DEF Attaches, StartAttach
<1>6. ~Live(session.process)'
  <2>1. CASE session.process \in Runs
    <3>1. worker[session.process].phase = "exited"
      BY <1>1, <2>1 DEF Live, IdentitiesAgree, Runs
    <3> QED
      BY <1>5, <2>1, <3>1, ExitedStays DEF Live
  <2>2. CASE session.process \notin Runs
    BY <1>5, <2>2 DEF Live
  <2> QED
    BY <2>1, <2>2
<1> QED
  BY <1>1, <1>3, <1>4, <1>5, <1>6

\* The process of a session that has gone stays gone.
LEMMA DeadStays ==
  ASSUME RecoveryInv, [Next]_vars, ~Live(session.process),
         session'.process = session.process
  PROVE  ~Live(session.process)'
<1> USE DEF RecoveryInv, BaseInv
<1>1. CASE session.process \in Runs
  <2>1. worker[session.process].phase = "exited"
    BY <1>1 DEF Live, IdentitiesAgree, Runs
  <2> QED
    BY <1>1, <2>1, ExitedStays DEF Live
<1>2. CASE session.process \notin Runs
  BY <1>2 DEF Live
<1> QED
  BY <1>1, <1>2

\* The thread of a restarted bridge is alone with the session it found.
LEMMA ResumeStaysAlone ==
  ASSUME RecoveryInv, "operator_races" \notin Environment, [Next]_vars
  PROVE  ResumeIsAlone'
<1> USE DEF RecoveryInv, BaseInv
<1> SUFFICES ASSUME resume'.pc \in {"wait", "restore", "close"}
             PROVE  /\ \A r \in Runs : finish'[r] = "none"
                    /\ recover' = "idle" /\ session'.state \in ACTIVE
                    /\ resume'.pc # "wait" => session'.state = "recovering" /\ ~Live(session.process)'
  BY DEF ResumeIsAlone, NoFinisher
<1>1. CASE RestartBridge
  BY <1>1 DEF RestartBridge, SessionTypeOK, HandlerTypeOK
<1>2. CASE ~RestartBridge
  <2>1. /\ resume.pc \in {"wait", "restore", "close"}
        /\ resume'.pc = "wait" => resume.pc = "wait"
        /\ resume'.pc # "wait" => ResumeOwner \/ (resume.pc # "wait" /\ ~Live(session.process))
    BY <1>2, Frame
       DEF ResumeOwner, ResumeRestore, ResumeClose, ResumeKeep, ResumeJob, SessionTypeOK,
           HandlerTypeOK,
         ResumeIsAlone
  <2>2. NoFinisher /\ recover = "idle" /\ session.state \in ACTIVE /\ start = "idle"
    BY <2>1 DEF ResumeIsAlone, StartIsAlone, SessionTypeOK, HandlerTypeOK
  <2>3. \A r \in Runs : finish'[r] = "none"
    BY <2>2, FinishSteps
       DEF NoFinisher, StartAttach, StartPublish, FinishExited, FinishRestore
  <2>4. recover' = "idle"
    BY <2>1, <2>2, <1>2, Frame DEF RecoverRestore, RecoveryPending, RecoverClose
  <2>5. CASE Rests
    <3>1. ResumeOwner => session'.state = "recovering" /\ ~Live(session.process)
      <4>1. SUFFICES ASSUME ResumeOwner PROVE session'.state = "recovering" /\ ~Live(session.process)
        OBVIOUS
      <4>2. PICK outcome \in Outcomes : To("recovering", outcome)
        BY <2>2, <4>1 DEF ResumeOwner
      <4>3. ~Live(session.process)
        BY <4>1 DEF ResumeOwner, OwnedPid, Live, Runs
      <4> QED
        BY <4>2, <4>3, ToWrites DEF MovesTo, States, ACTIVE, SessionTypeOK
    <3> QED
      BY <2>1, <2>2, <2>3, <2>4, <2>5, <3>1, DeadStays DEF Rests, ResumeIsAlone
  <2>6. CASE Moves
    <3>1. PICK target \in Targets, outcome \in Outcomes :
               MovesTo(target, outcome) /\ Mover(target) /\ Allowed(target)
      BY <2>6 DEF Moves
    <3>2. ~ResumeClose /\ ~ResumeKeep
      BY <2>1 DEF ResumeClose, ResumeKeep, SessionTypeOK, HandlerTypeOK
    <3>3. target \in {"stopping", "recovering"} /\ Allowed(target)
      BY <2>2, <3>1, <3>2 DEF Mover, NoFinisher, StartLaunchFails
    <3>4. resume'.pc # "wait" => target = "recovering" /\ ~Live(session.process)
      <4>1. CASE ResumeOwner
        <5>1. ~StopMark
          BY <4>1 DEF ResumeOwner, StopMark, ResumeUnchanged
        <5>2. ~Live(session.process)
          BY <4>1 DEF ResumeOwner, OwnedPid, Live, Runs
        <5> QED
          BY <2>2, <3>1, <3>2, <5>1, <5>2 DEF Mover, NoFinisher, StartLaunchFails
      <4>2. CASE ~ResumeOwner
        BY <2>1, <3>3, <4>2 DEF ResumeIsAlone, Allowed
      <4> QED
        BY <4>1, <4>2
    <3> QED
      BY <2>3, <2>4, <3>1, <3>3, <3>4, DeadStays DEF MovesTo, ACTIVE
  <2> QED
    BY <1>2, <2>2, <2>5, <2>6, JournalSteps, NotActiveWhenBegun DEF Attaches, StartAttach
<1> QED
  BY <1>1, <1>2

\* A record is what it was, or what the session is now.
LEMMA RecordSteps ==
  ASSUME SessionTypeOK, [Next]_vars, NEW r \in Runs, record'[r] # record[r]
  PROVE  session'.run = r /\ record'[r] = session' /\ (Begins \/ Attaches \/ Moves)
BY JournalSteps
   DEF Rests, RestartBridge, Begins, Attaches, Moves, MovesTo, Written, SessionTypeOK,
       JournalTypeOK

\* A recorded run stays recorded.
LEMMA BegunIsRecorded ==
  ASSUME SessionTypeOK, FreshRunsAreNowhere, IdentitiesAgree, StartOwnsRun, [Next]_vars,
         NEW r \in Runs, record[r].state # "idle"
  PROVE  record'[r].state # "idle"
<1>1. session'.run = r => session'.state # "idle"
  BY SessionIdentities DEF Runs
<1> QED
  BY <1>1, RecordSteps

\* An active recorded session does not lose its holder.
LEMMA SessionStaysHeld ==
  ASSUME RecoveryInv, [Next]_vars
  PROVE  (session.state \in ACTIVE /\ record[session.run].state # "idle" =>
            \/ start # "idle" \/ finish[session.run] # "none" \/ resume.pc = "wait"
            \/ session.state = "recovering" \/ dying)'
<1> USE DEF RecoveryInv, BaseInv
<1> SUFFICES ASSUME session'.state \in ACTIVE, record'[session'.run].state # "idle",
                    session'.state # "recovering", ~dying', start' = "idle", resume'.pc # "wait"
             PROVE  finish'[session'.run] # "none"
  OBVIOUS
<1>1. ~RestartBridge
  BY DEF RestartBridge
<1>2. CASE Begins
  <2>1. PICK r \in Runs, kind \in Kinds, outcome \in Outcomes :
          /\ StartBegin(r, kind) /\ Written(session', outcome)
          /\ session'.run = r
          /\ outcome # "raised" => start' = "launch"
    BY <1>2 DEF Begins
  <2>2. record[r].state = "idle"
    BY <2>1, BegunStays DEF FreshRunsAreNowhere, Idle
  <2> QED
    BY <2>1, <2>2 DEF Written
<1>3. session'.run # 0
  BY SessionIdentities DEF ACTIVE
<1>4. CASE StartAttach \/ StartPublish
  <2>1. handle \in Runs /\ session'.run = handle
    <3>1. handle = session.run /\ session.run # 0
      BY <1>4 DEF StartAttach, StartPublish, StartOwnsRun
    <3>2. session'.run = session.run
      <4>1. CASE StartPublish
        BY <4>1 DEF StartPublish, NoSave
      <4>2. CASE StartAttach /\ NoSave
        BY <4>2 DEF NoSave
      <4>3. CASE StartAttach /\ ~NoSave
        BY <4>3, AttachWrites DEF StartAttach
      <4> QED
        BY <1>4, <4>1, <4>2, <4>3
    <3> QED
      BY <3>1, <3>2, LifecycleAssumption DEF SessionTypeOK, HandlerTypeOK, Runs
  <2>2. finish' = [finish EXCEPT ![handle] = "wait"]
    BY <1>4 DEF StartAttach, StartPublish, Abort
  <2> QED
    BY <2>1, <2>2 DEF SessionTypeOK, HandlerTypeOK
<1>5. CASE ~Begins /\ ~StartAttach /\ ~StartPublish
  <2>1. session'.run = session.run
    BY <1>1, <1>5, JournalSteps DEF Rests, Attaches, Moves, MovesTo
  <2>2. Rests \/ (StopMark /\ session.state \in {"running", "stopping"})
    <3>1. CASE Moves
      <4>1. PICK target \in Targets, outcome \in Outcomes :
                 MovesTo(target, outcome) /\ Mover(target) /\ Allowed(target)
        BY <3>1 DEF Moves
      <4>2. session'.state = target /\ target = "stopping"
        BY <4>1 DEF MovesTo, Targets, ACTIVE, Ended
      <4>3. StopMark /\ ~StartLaunchFails
        <5>1. ~StartLaunchFails
          BY <4>1, <4>2
             DEF Mover, StartLaunchFails, RunOutcomes, StopMark, FinishExited,
                 FinishSettle, FinishUnchanged, 
             RecoverClose, ResumeOwner, ResumeClose, ResumeKeep, ResumeUnchanged,
             StartOwnsRun
        <5> QED
          BY <4>1, <4>2, <5>1 DEF Mover, RunOutcomes
      <4> QED
        BY <4>1, <4>2, <4>3 DEF Allowed
    <3> QED
      BY <1>1, <1>5, <3>1, JournalSteps DEF Attaches
  <2>3. session.state \in ACTIVE /\ session.state # "recovering" /\ ~dying
    <3>1. CASE Rests
      BY <3>1 DEF Rests
    <3>2. CASE StopMark /\ session.state \in {"running", "stopping"}
      BY <3>2 DEF StopMark, Up, ACTIVE
    <3> QED
      BY <2>2, <3>1, <3>2
  <2>4. record[session.run].state # "idle"
    BY <2>1, <2>2 DEF Rests, SessionIsHeld
  <2>5. start = "idle"
    <3>1. ASSUME start # "idle" PROVE StartLaunchFails
      BY <3>1, <1>1, <1>5, Frame DEF StartLaunch, StartBegin, SimFree
    <3>2. ASSUME StartLaunchFails PROVE FALSE
      <4>0. Allowed(FirstTarget)
        BY <3>2 DEF StartLaunchFails, StartIsAlone, Allowed, FirstTarget, ACTIVE
      <4>1. PICK target \in {"failed", "recovering"}, outcome \in Outcomes : To(target, outcome)
        BY <3>2, <4>0 DEF StartLaunchFails
      <4> QED
        BY <4>1, ToWrites DEF MovesTo, States, ACTIVE, Ended, SessionTypeOK
    <3> QED
      BY <3>1, <3>2
  <2>6. resume.pc # "wait"
    <3>1. ASSUME resume.pc = "wait" PROVE ResumeOwner
      BY <3>1, <1>1, Frame DEF ResumeRestore, ResumeClose, ResumeKeep, ResumeJob
    <3>2. ASSUME ResumeOwner PROVE FALSE
      <4>1. PICK outcome \in Outcomes : To("recovering", outcome)
        BY <2>3, <3>2 DEF ResumeOwner
      <4> QED
        BY <4>1, ToWrites DEF MovesTo, States, ACTIVE, Ended, SessionTypeOK
    <3> QED
      BY <3>1, <3>2
  <2>7. finish[session.run] # "none"
    BY <2>3, <2>4, <2>5, <2>6 DEF SessionIsHeld
  <2>8. session.run \in Runs
    BY <1>3, <2>1, LifecycleAssumption DEF SessionTypeOK, JournalTypeOK, Session, Runs
  <2>9. finish[session.run] = "wait"
    BY <2>3, <2>7, <2>8 DEF FinisherIsAlone
  <2>10. ASSUME FinishExited(session.run) PROVE FALSE
    <3>1. handle = session.run /\ Allowed("recovering")
      BY <2>3, <2>7, <2>8 DEF FinisherIsAlone, Allowed, ACTIVE
    <3>2. PICK outcome \in Outcomes : To("recovering", outcome)
      BY <2>10, <3>1 DEF FinishExited
    <3> QED
      BY <3>2, ToWrites DEF MovesTo, States, ACTIVE, Ended, SessionTypeOK
  <2>11. finish'[session.run] = finish[session.run]
    <3>1. ASSUME NEW q \in Runs, FinishExited(q)
          PROVE  q # session.run /\ finish'[session.run] = finish[session.run]
      <4>1. q # session.run
        BY <3>1, <2>10
      <4> QED
        BY <4>1, <2>8, <3>1 DEF FinishExited, SessionTypeOK, HandlerTypeOK
    <3>2. ASSUME NEW q \in Runs, FinishRestore(q) PROVE finish'[session.run] = finish[session.run]
      BY <3>2, <2>8, <2>9 DEF FinishRestore, SessionTypeOK, HandlerTypeOK
    <3>3. ASSUME NEW q \in Runs, FinishSettle(q) PROVE finish'[session.run] = finish[session.run]
      BY <3>3, <2>8, <2>9 DEF FinishSettle, SessionTypeOK, HandlerTypeOK
    <3> QED
      BY <1>1, <1>5, <3>1, <3>2, <3>3, Frame
  <2> QED
    BY <2>1, <2>7, <2>11
<1> QED
  BY <1>2, <1>4, <1>5

\* A session that runs has been recorded, in memory and on disk.
LEMMA RunningIsRecorded ==
  ASSUME RecoveryInv, [Next]_vars
  PROVE  (\A s \in {session, saved} :
            s.state \in {"running", "stopping"} => record[s.run].state # "idle")'
<1> USE DEF RecoveryInv, BaseInv
<1>0. \A s \in {session, saved} : s.state \in {"running", "stopping"} =>
        s.run \in Runs /\ record[s.run].state # "idle"
  BY LifecycleAssumption
     DEF SessionIsHeld, IdentitiesAgree, SessionTypeOK, JournalTypeOK, Session, Runs
<1>1. CASE Rests
  BY <1>0, <1>1 DEF Rests
<1>2. CASE RestartBridge
  BY <1>0, <1>2 DEF RestartBridge
<1>3. CASE Begins
  <2>1. session'.state = "preparing" /\ (saved' = saved \/ saved' = session')
    BY <1>3 DEF Begins, Written
  <2> QED
    BY <1>0, <2>1, BegunIsRecorded
<1>4. CASE Attaches
  <2>1. session'.run = session.run /\ (saved' = saved \/ saved' = session')
    BY <1>4 DEF Attaches, Written
  <2>2. session.run \in Runs /\ record[session.run].state # "idle"
    BY <1>4, LifecycleAssumption
       DEF Attaches, StartAttach, StartOwnsRun, StartIsAlone, Up, SessionTypeOK,
           JournalTypeOK, Session, Runs
  <2> QED
    BY <1>0, <2>1, <2>2, BegunIsRecorded
<1>5. CASE Moves
  <2>1. PICK target \in Targets, outcome \in Outcomes :
          MovesTo(target, outcome) /\ Allowed(target) /\ Mover(target)
    BY <1>5 DEF Moves
  <2>2. session'.run = session.run /\ (saved' = saved \/ saved' = session') /\ session'.state = target
    BY <2>1 DEF MovesTo, Written
  <2>3. target \in {"running", "stopping"} => session.state \in {"running", "stopping"}
    <3>1. StartLaunchFails => target # "stopping"
      BY <2>1 DEF Mover, StartLaunchFails, RunOutcomes, StopMark, StartOwnsRun
    <3> QED
      BY <2>1, <3>1 DEF Allowed, Targets, Ended
  <2> QED
    BY <1>0, <2>2, <2>3, BegunIsRecorded
<1> QED
  BY <1>1, <1>2, <1>3, <1>4, <1>5, JournalSteps

\* Who takes the session out of the active states has no live recorded worker.
LEMMA EndedHaveNoWorker ==
  ASSUME RecoveryInv, [Next]_vars, Moves, session'.state \in Ended,
         NEW r \in Runs, session.run = r, session.state \in ACTIVE, session.process = r
  PROVE  ~Live(r)
<1> USE DEF RecoveryInv, BaseInv
<1>1. PICK target \in Targets, outcome \in Outcomes : MovesTo(target, outcome) /\ Mover(target)
  BY DEF Moves
<1>2. session'.state = target /\ target \in Ended
  BY <1>1 DEF MovesTo
<1>3. ASSUME start = "launch" PROVE ~Live(r)
  BY <1>3 DEF StartOwnsRun, Live, NoWorker
<1>4. ASSUME NEW q \in Runs, finish[q] \in {"settle", "settle_err"} PROVE ~Live(r)
  BY <1>4 DEF FinisherIsAlone, Live
<1>5. ASSUME recover = "close" \/ resume.pc = "close" PROVE ~Live(r)
  BY <1>5 DEF RecoverIsAlone, ResumeIsAlone
<1> QED
  BY <1>1, <1>2, <1>3, <1>4, <1>5 DEF Mover, Ended

\* A live worker was live before, or has just been spawned.
LEMMA LiveSteps ==
  ASSUME SessionTypeOK, StartOwnsRun, [Next]_vars, NEW r \in Runs, Live(r)'
  PROVE  Live(r) \/ (StartLaunch /\ r = session.run /\ worker[r].phase = "none")
<1>1. WorkerMoves(r)
  BY WorkerSteps
<1>2. StartLaunch /\ r = session.run => worker[r].phase = "none"
  BY DEF StartLaunch, StartOwnsRun, NoWorker
<1> QED
  BY <1>1, <1>2 DEF WorkerMoves, Live

\* The process of an ended session has gone.
LEMMA EndedStaysOver ==
  ASSUME RecoveryInv, [Next]_vars
  PROVE  EndedIsOver'
<1> USE DEF RecoveryInv, BaseInv
<1> DEFINE Lives(p) == p \in Runs /\ worker'[p].phase \notin {"none", "exited"}
<1>1. \A p : Lives(p) => Live(p) \/ (p \in Runs /\ worker[p].phase = "none")
  BY LiveSteps DEF Live
<1> HIDE DEF Lives
<1>2. \A s \in {session, saved} : s.state \in Ended => ~Lives(s.process)
  <2>1. \A s \in {session, saved} : s.process \in Runs => worker[s.process].phase # "none"
    BY DEF IdentitiesAgree, Runs
  <2>2. ~Lives(0)
    BY DEF Lives, Runs
  <2> QED
    BY <1>1, <2>1, <2>2 DEF EndedIsOver
<1>3. session'.state \in Ended => ~Lives(session'.process)
  <2>1. CASE Rests
    BY <1>2, <2>1 DEF Rests
  <2>2. CASE RestartBridge
    BY <1>2, <2>2 DEF RestartBridge
  <2>3. CASE Begins
    BY <2>3 DEF Begins, Ended
  <2>4. CASE Attaches
    BY <2>4 DEF Attaches, Ended
  <2>5. CASE Moves
    <3>1. SUFFICES ASSUME session'.state \in Ended PROVE ~Lives(session.process)
      BY <2>5 DEF Moves, MovesTo
    <3>2. CASE session.state \in Ended
      BY <1>2, <3>2
    <3>3. CASE session.state \in ACTIVE
      <4>1. CASE session.process # 0
        <5>1. session.process \in Runs /\ session.run = session.process
          BY <4>1, LifecycleAssumption
             DEF IdentitiesAgree, SessionTypeOK, JournalTypeOK, Session, Runs
        <5>2. ~Live(session.process)
          BY <2>5, <3>1, <3>3, <5>1, EndedHaveNoWorker
        <5>3. worker[session.process].phase # "none"
          BY <4>1 DEF IdentitiesAgree
        <5> QED
          BY <1>1, <4>1, <5>2, <5>3
      <4>2. CASE session.process = 0
        BY <4>2 DEF Lives, Runs
      <4> QED
        BY <4>1, <4>2
    <3>4. CASE session.state = "idle"
      BY <2>5, <3>4
         DEF Moves, Allowed, Targets, Ended, StartLaunchFails, StartIsAlone, ACTIVE
    <3> QED
      BY <3>2, <3>3, <3>4 DEF SessionTypeOK, JournalTypeOK, Session
  <2> QED
    BY <2>1, <2>2, <2>3, <2>4, <2>5, JournalSteps
<1>4. saved' = saved \/ saved' = session'
  BY JournalSteps DEF Rests, RestartBridge, Begins, Attaches, Moves, MovesTo, Written
<1> QED
  BY <1>2, <1>3, <1>4 DEF EndedIsOver, Live, Lives

\* A recorded live worker is the one of the active session, across restarts.
LEMMA RecordedWorkerStaysHeld ==
  ASSUME RecoveryInv, [Next]_vars
  PROVE  RecordedWorkerIsHeld'
<1> USE DEF RecoveryInv, BaseInv
<1> SUFFICES ASSUME NEW r \in Runs, Live(r)', record'[r].process = r
             PROVE  session'.run = r /\ session'.state \in ACTIVE
  BY DEF RecordedWorkerIsHeld
<1>0. r # 0
  BY DEF Runs
<1>1. CASE record[r].process = r
  <2>1. Live(r)
    BY <1>1, LiveSteps DEF IdentitiesAgree
  <2>2. session.run = r /\ session.state \in ACTIVE /\ session.process = r
    BY <1>1, <2>1 DEF RecordedWorkerIsHeld, IdentitiesAgree
  <2>3. CASE Rests
    BY <2>2, <2>3 DEF Rests
  <2>4. CASE RestartBridge
    <3>1. saved.run = r
      BY <2>1, <2>2 DEF SavedIsBehind, Live
    <3>2. saved.state \in ACTIVE
      BY <1>0, <2>2, <3>1
         DEF SavedIsBehind, IdentitiesAgree, SessionTypeOK, JournalTypeOK, Session,
             ACTIVE, Ended
    <3> QED
      BY <2>4, <3>1, <3>2 DEF RestartBridge
  <2>5. CASE Begins
    BY <2>2, <2>5, NotActiveWhenBegun
  <2>6. CASE Attaches
    BY <2>2, <2>6 DEF Attaches, ACTIVE
  <2>7. CASE Moves
    <3>1. session'.run = r /\ session'.state \in Targets
      BY <2>2, <2>7 DEF Moves, MovesTo
    <3>2. session'.state \notin Ended
      BY <2>1, <2>2, <2>7, EndedHaveNoWorker
    <3> QED
      BY <3>1, <3>2 DEF Targets, ACTIVE
  <2> QED
    BY <2>3, <2>4, <2>5, <2>6, <2>7, JournalSteps
<1>2. CASE record[r].process # r
  <2>1. session'.run = r /\ session'.process = r /\ (Begins \/ Attaches \/ Moves)
    BY <1>2, RecordSteps
  <2>2. CASE Begins
    BY <1>0, <2>1, <2>2 DEF Begins
  <2>3. CASE Attaches
    BY <2>1, <2>3 DEF Attaches, ACTIVE
  <2>4. CASE Moves
    <3>1. session.run = r /\ session.process = r /\ session'.state \in Targets
      BY <2>1, <2>4 DEF Moves, MovesTo
    <3>2. Live(r)
      BY <3>1, <1>0, LiveSteps DEF IdentitiesAgree
    <3>3. session.state \in ACTIVE
      BY <1>0, <3>1, <3>2
         DEF IdentitiesAgree, EndedIsOver, SessionTypeOK, JournalTypeOK, Session, ACTIVE,
             Ended
    <3> QED
      BY <2>1, <3>1, <3>2, <3>3, <2>4, EndedHaveNoWorker DEF Targets, ACTIVE
  <2> QED
    BY <2>1, <2>2, <2>3, <2>4
<1> QED
  BY <1>1, <1>2

\* Only a run whose worker ended in order is recorded as completed.
LEMMA CompletedStaysOrderly ==
  ASSUME RecoveryInv, [Next]_vars
  PROVE  CompletedRunEndedInOrder'
<1> USE DEF RecoveryInv, BaseInv
<1> SUFFICES ASSUME NEW r \in Runs, record'[r].state = "completed"
             PROVE  worker'[r].exit = "ok" /\ {Sync(r), Actors(r)} \cap world' = {}
  BY DEF CompletedRunEndedInOrder
<1>1. worker[r].exit = "ok" /\ {Sync(r), Actors(r)} \cap world = {}
  <2>1. CASE record[r].state = "completed"
    BY <2>1 DEF CompletedRunEndedInOrder
  <2>2. CASE record[r].state # "completed"
    <3>1. session'.run = r /\ session'.state = "completed" /\ (Begins \/ Attaches \/ Moves)
      BY <2>2, RecordSteps
    <3>2. PICK target \in Targets, outcome \in Outcomes : MovesTo(target, outcome) /\ Mover(target)
      BY <3>1 DEF Begins, Attaches, Moves
    <3>3. session.run = r /\ target = "completed"
      BY <3>1, <3>2 DEF MovesTo
    <3>4. PICK q \in Runs :
            finish[q] \in {"settle", "settle_err"} /\ handle = q /\ target \in RunOutcomes(q)
      BY <3>2, <3>3 DEF Mover
    <3>5. q = r
      BY <3>3, <3>4 DEF FinisherIsAlone
    <3>6. worker[r].exit = "ok"
      BY <3>3, <3>4, <3>5 DEF RunOutcomes
    <3> QED
      BY <3>6 DEF OrderlyExitLeavesNothing
  <2> QED
    BY <2>1, <2>2
<1>2. worker[r].phase = "exited"
  BY <1>1 DEF OrderlyExitLeavesNothing
<1>3. worker'[r].exit = "ok"
  BY <1>1, <1>2, ExitedStays
<1>4. ASSUME NEW d \in {Sync(r), Actors(r)}, d \in world' PROVE FALSE
  BY <1>1, <1>2, <1>4, WorldSteps DEF WorkerEnter
<1> QED
  BY <1>3, <1>4

\* Without operator races, what a recovery relies on is inductive.
LEMMA RecoveryStep ==
  ASSUME RecoveryInv, "operator_races" \notin Environment, [Next]_vars
  PROVE  RecoveryInv'
<1>1. BaseInv'
  BY BaseStep DEF RecoveryInv
<1>2. SavedIsBehind' /\ StartIsAlone' /\ FinisherIsAlone' /\ RecoverIsAlone' /\ ResumeIsAlone'
  BY SavedStaysBehind, StartStaysAlone, FinisherStaysAlone, RecoverStaysAlone,
     ResumeStaysAlone
<1>3. SessionIsHeld'
  BY SessionStaysHeld, RunningIsRecorded DEF SessionIsHeld
<1>4. EndedIsOver' /\ RecordedWorkerIsHeld' /\ CompletedRunEndedInOrder'
  BY EndedStaysOver, RecordedWorkerStaysHeld, CompletedStaysOrderly
<1> QED
  BY <1>1, <1>2, <1>3, <1>4 DEF RecoveryInv

\* It holds of a bridge started for the first time.
LEMMA RecoveryInit == Init => RecoveryInv
<1> SUFFICES ASSUME Init PROVE RecoveryInv
  OBVIOUS
<1>1. BaseInv
  BY BaseInit
<1> QED
  BY <1>1
     DEF Init, RecoveryInv, SavedIsBehind, StartIsAlone, FinisherIsAlone, RecoverIsAlone,
         ResumeIsAlone,
     NoFinisher, SessionIsHeld, EndedIsOver, RecordedWorkerIsHeld,
     CompletedRunEndedInOrder, Idle, ACTIVE, Ended,
     Live, NoWorker

\* No recovery takes the world from a live recorded worker.
LEMMA RestoresSpareWorkers ==
  ASSUME RecoveryInv, [Next]_vars, NEW r \in Runs, Sync(r) \in world,
         Sync(r) \notin world', record[r].process = r
  PROVE  ~Live(r)'
<1> USE DEF RecoveryInv, BaseInv
<1>1. SUFFICES ASSUME Live(r) PROVE ~Live(r)'
  BY LiveSteps DEF IdentitiesAgree
<1>2. session.run = r /\ session.state \in ACTIVE /\ session.process = r
  BY <1>1 DEF RecordedWorkerIsHeld, IdentitiesAgree
<1>3. ~StartLaunch /\ ~StartLaunchFails
  BY DEF StartLaunch, StartLaunchFails
<1>4. ~RecoverRestore
  BY <1>1, <1>2 DEF RecoverRestore, OwnedPid, Live, Runs
<1>5. ~ResumeRestore
  BY <1>1, <1>2 DEF ResumeRestore, ResumeIsAlone
<1>6. \A q \in Runs : ~FinishRestore(q)
  BY <1>1, <1>2 DEF FinishRestore, FinisherIsAlone, Live
<1>7. \A q \in Runs : ~WorkerEnter(q)
  BY DEF WorkerEnter, Sync
<1>8. ASSUME NEW q \in Runs, WorkerExit(q) PROVE ~Live(r)'
  <2>1. q = r
    BY <1>8 DEF WorkerExit, Sync, Actors
  <2>2. worker'[r].phase = "exited"
    BY <1>8, <2>1 DEF WorkerExit, SessionTypeOK, WorkerTypeOK, Worker
  <2> QED
    BY <2>2 DEF Live
<1> QED
  BY <1>3, <1>4, <1>5, <1>6, <1>7, <1>8, Frame

\* No recorded run is lost or embellished and no recorded worker is left beside
\* the session or loses its world, for any number of executions, interrupts,
\* restarts, torn saves and failed writes, unless an operator's recovery races the
\* bridge's own.
THEOREM RecordedRunsAreTrue ==
  "operator_races" \notin Environment /\ Spec => RecordedRunIsTrue
<1> SUFFICES ASSUME "operator_races" \notin Environment PROVE Spec => RecordedRunIsTrue
  OBVIOUS
<1>1. Spec => []RecoveryInv
  BY RecoveryInit, RecoveryStep, PTL DEF Spec
<1>2. RecoveryInv => /\ SessionTypeOK /\ ActiveSessionIsHeld
                     /\ CompletedRunEndedInOrder /\ RecordedWorkerIsHeld
  BY DEF RecoveryInv, BaseInv, SessionIsHeld, ActiveSessionIsHeld
<1>3. RecoveryInv /\ [Next]_vars => [\A r \in Runs :
          Sync(r) \in world \ world' /\ record[r].process = r => ~Live(r)']_vars
  BY RestoresSpareWorkers
<1> QED
  BY <1>1, <1>2, <1>3, PTL DEF Spec, RecordedRunIsTrue, RecordedWorkerKeepsWorld

\* What a session is to the rest of the bridge, whatever crashes, fails or races:
\* begun while none is active, moved, ended, found again; _save is all of it.
LEMMA GateSteps ==
  ASSUME BaseInv, [Next]_vars
  PROVE  [Gate!GateNext]_GateVars
<1> USE DEF Gate!Noted
<1>0. /\ badWrites \in Nat /\ session.state \in States
      /\ "preparing" \in ACTIVE /\ "running" \in ACTIVE /\ States \cap Ended = Ended
  BY DEF BaseInv, SessionTypeOK, JournalTypeOK, Session, States, ACTIVE, Ended
<1>1. ASSUME NEW outcome, Written(session', outcome)
      PROVE  Gate!Noted(session'.state \in ACTIVE)
  BY <1>0, <1>1 DEF Written
<1>2. CASE Rests
  BY <1>2 DEF Rests, GateVars
<1>3. CASE RestartBridge
  BY <1>3 DEF RestartBridge, Gate!GateNext, Gate!SessionRestarts
<1>4. CASE Begins
  <2>1. session.state \notin ACTIVE /\ session'.state \in ACTIVE
    BY <1>0, <1>4 DEF Begins, StartBegin, EvaluationActive
  <2> QED
    BY <1>1, <1>4, <2>1 DEF Begins, Gate!GateNext, Gate!SessionBegins
<1>5. CASE Attaches
  <2>1. session.state \in ACTIVE /\ session'.state \in ACTIVE
    BY <1>0, <1>5 DEF Attaches, Allowed, ACTIVE
  <2> QED
    BY <1>1, <1>5, <2>1 DEF Attaches, Gate!GateNext, Gate!SessionMoves
<1>6. CASE Moves
  <2>1. session'.state \in ACTIVE => session.state \in ACTIVE
    BY <1>6 DEF Moves, MovesTo, Allowed, ACTIVE, Targets, Ended, Mover
  <2>2. Gate!Noted(session'.state \in ACTIVE)
    BY <1>1, <1>6 DEF Moves, MovesTo
  <2> QED
    BY <2>1, <2>2 DEF Gate!GateNext, Gate!SessionMoves, Gate!SessionEnds
<1> QED
  BY <1>2, <1>3, <1>4, <1>5, <1>6, JournalSteps DEF BaseInv

\* An execution is to the rest of the bridge what SessionGate says.
THEOREM SessionIsAGate == Spec => ImplementsGate
<1>1. Init => Gate!GateInit
  BY DEF Init, Idle, ACTIVE, Gate!GateInit
<1>2. BaseInv /\ [Next]_vars => [Gate!GateNext]_GateVars
  BY GateSteps
<1> QED
  BY <1>1, <1>2, BaseInit, BaseStep, PTL DEF Spec, ImplementsGate, Gate!GateSpec, GateVars,
     Gate!sessionVars

\* The bridge does not crash; it may fail to write its journal.
Steady == MaxRestarts = 0

\* In a steady bridge a write is made, to both files, or to none.
LEMMA SteadyWrites ==
  ASSUME Steady, SessionTypeOK, NEW s, NEW outcome, Written(s, outcome)
  PROVE  /\ dying' = dying
         /\ outcome # "raised" => saved' = s /\ record' = [record EXCEPT ![s.run] = s]
         /\ outcome = "raised" => UNCHANGED <<saved, record>>
<1>1. restarts = 0
  BY DEF Steady, SessionTypeOK, WorkerTypeOK
<1> QED
  BY <1>1 DEF Steady, Written

\* What the bridge does when it neither crashes nor resumes.
LEMMA SteadySteps ==
  ASSUME Steady, SteadyInv, [Next]_vars
  PROVE  /\ ~RestartBridge /\ resume' = resume
         /\ ~ResumeOwner /\ ~ResumeRestore /\ ~ResumeClose /\ ~ResumeKeep /\ ~ResumeJob
<1>1. restarts = 0
  BY DEF Steady, SteadyInv, BaseInv, SessionTypeOK, WorkerTypeOK
<1>2. ~RestartBridge
  BY <1>1 DEF Steady, RestartBridge
<1>3. ~ResumeOwner /\ ~ResumeRestore /\ ~ResumeClose /\ ~ResumeKeep /\ ~ResumeJob
  BY DEF SteadyInv, NothingIsResumed, ResumeOwner, ResumeRestore, ResumeClose, ResumeKeep,
         ResumeJob
<1> QED
  BY <1>2, <1>3, Frame

\* Nobody has a session to resume.
LEMMA SteadyNothingIsResumed ==
  ASSUME Steady, SteadyInv, [Next]_vars
  PROVE  NothingIsResumed'
<1> USE DEF SteadyInv, BaseInv
<1>1. dying' = dying
  <2>1. CASE Rests
    BY <2>1 DEF Rests
  <2>2. CASE ~Rests
    <3>1. PICK outcome : Written(session', outcome)
      BY <2>2, SteadySteps, JournalSteps DEF Begins, Attaches, Moves, MovesTo
    <3> QED
      BY <3>1, SteadyWrites
  <2> QED
    BY <2>1, <2>2
<1> QED
  BY <1>1, SteadySteps DEF NothingIsResumed

\* A run begins when all are over.
LEMMA SteadyBegins ==
  ASSUME Steady, SteadyInv, [Next]_vars, Begins
  PROVE  /\ NoFinisher /\ world \subseteq LeftBehind /\ session.state \notin ACTIVE
         /\ UNCHANGED <<world, worker, finish, handle, recover, stop>>
         /\ \A r \in Runs : ~Live(r)
         /\ start = "idle" /\ start' \in {"idle", "launch"}
         /\ start' = "launch" => job'.state = "running"
         /\ recover = "idle" /\ stop = 0
         /\ session'.run \in Runs /\ kindOf[session'.run] = "none"
         /\ worker[session'.run] = NoWorker
         /\ session'.state = "preparing"
<1> USE DEF SteadyInv, BaseInv
<1>1. PICK r \in Runs, kind \in Kinds, outcome \in Outcomes :
        /\ StartBegin(r, kind) /\ Written(session', outcome)
        /\ session'.state = "preparing" /\ session'.run = r
        /\ outcome # "raised" => start' = "launch"
        /\ outcome = "raised" => start' = "idle"
  BY DEF Begins
<1>2. start' = "launch" => job'.state = "running"
  BY <1>1 DEF StartBegin, SimFree
<1>3. kindOf[r] = "none" /\ worker[r] = NoWorker
  BY <1>1, BegunStays DEF FreshRunsAreNowhere
<1>4. NoFinisher
  BY NotActiveWhenBegun DEF NoFinisher, WorkerIsHandled
<1>5. \A q \in Runs : ~Live(q)
  BY NotActiveWhenBegun DEF WorkerIsHandled
<1>6. world \subseteq LeftBehind
  BY NotActiveWhenBegun DEF WorldIsTheRuns, CleanWorldWhenIdle
<1> QED
  BY <1>1, <1>2, <1>3, <1>4, <1>5, <1>6, NotActiveWhenBegun

\* Every run but the last has gone, whoever ended it.
LEMMA SteadyPastHasGone ==
  ASSUME Steady, SteadyInv, [Next]_vars
  PROVE  PastHasGone'
<1> USE DEF SteadyInv, BaseInv
<1> SUFFICES ASSUME NEW r \in Runs, r # session'.run
             PROVE  ~Live(r)' /\ finish'[r] = "none"
  BY DEF PastHasGone
<1>1. CASE Begins
  BY <1>1, SteadyBegins DEF NoFinisher, Live
<1>2. CASE ~Begins
  <2>1. session'.run = session.run
    BY <1>2, SteadySteps, JournalSteps DEF Rests, Attaches, Moves, MovesTo
  <2>2. ~Live(r) /\ finish[r] = "none"
    BY <2>1 DEF PastHasGone
  <2>3. ~Live(r)'
    BY <2>1, <2>2, LiveSteps
  <2>4. StartAttach \/ StartPublish => r # handle
    BY <2>1 DEF StartAttach, StartPublish, StartOwnsRun
  <2>5. finish'[r] = "none"
    BY <2>2, <2>4, FinishSteps DEF FinishExited, FinishRestore
  <2> QED
    BY <2>3, <2>5
<1> QED
  BY <1>1, <1>2

\* Attaching succeeds, or the worker is interrupted and left to its finisher.
LEMMA SteadyAttaches ==
  ASSUME Steady, SteadyInv, [Next]_vars, StartAttach
  PROVE  /\ Attaches /\ UNCHANGED <<world, handle, recover, stop>>
         /\ start' \in {"idle", "publish"}
         /\ start' = "publish" => UNCHANGED <<job, worker, finish>>
         /\ start' = "idle" => Abort(handle)
         /\ \E outcome : Written(session', outcome) /\ (outcome # "raised" => start' = "publish")
<1> USE DEF SteadyInv, BaseInv
<1>1. session.state = "preparing"
  BY DEF StartAttach, StartIsFirst
<1>2. Allowed("running")
  BY <1>1 DEF Allowed
<1>3. PICK outcome \in Outcomes :
        /\ Save([session EXCEPT !.state = "running",
                                !.process = IF Live(handle) THEN handle ELSE 0], outcome)
        /\ IF outcome = "raised" THEN Abort(handle)
           ELSE start' = "publish" /\ UNCHANGED <<job, worker, finish>>
  BY <1>2 DEF StartAttach
<1>4. /\ session'.state = "running" /\ session'.run = session.run
      /\ session'.process = IF Live(handle) THEN handle ELSE 0
      /\ Written(session', outcome)
  BY <1>3, AttachWrites
<1>5. Attaches
  BY <1>2, <1>4 DEF Attaches
<1>6. outcome = "raised" => start' = "idle" /\ Abort(handle)
  BY <1>3 DEF Abort
<1> QED
  BY <1>3, <1>4, <1>5, <1>6 DEF StartAttach

\* A start is through before a finisher of its run begins.
LEMMA SteadyStartIsFirst ==
  ASSUME Steady, SteadyInv, [Next]_vars
  PROVE  StartIsFirst'
<1> USE DEF SteadyInv, BaseInv
<1>1. CASE Begins
  BY <1>1, SteadyBegins, LeftStays DEF StartIsFirst, NoFinisher
<1>2. CASE start # "idle" /\ start' # "idle"
  <2>1. ~Begins /\ ~RestartBridge /\ ~StopSignal /\ stop = 0 /\ recover = "idle"
    BY <1>2, StartSteps DEF StartOwnsRun, StopSignal, TaskFree
  <2>2. NoFinisher /\ job.state = "running"
    BY <1>2 DEF StartIsFirst
  <2>3. \A r \in Runs : finish'[r] = "none"
    BY <1>2, <2>2, FinishSteps DEF NoFinisher, FinishExited, FinishRestore
  <2>4. job' = job
    BY <1>2, <2>1, <2>2, SteadySteps, SteadyAttaches, Frame
       DEF NoFinisher, StartBegin, SimFree, StartLaunchFails, StartPublish, Abort,
           FinishSettle, StopMark
  <2>5. StartAttach \/ Rests
    BY <1>2, <2>1, <2>2, SteadySteps, JournalSteps
       DEF Attaches, Moves, Mover, NoFinisher, NothingIsResumed
  <2>6. session'.state = IF start' = "publish" THEN "running" ELSE "preparing"
    <3>1. CASE StartAttach
      BY <1>2, <3>1, SteadyAttaches DEF Attaches
    <3>2. CASE ~StartAttach
      <4>1. start' = "publish" <=> start = "publish"
        BY <1>2, <2>1, <3>2, Frame
           DEF StartBegin, SimFree, StartLaunch, StartLaunchFails, StartPublish, Abort
      <4> QED
        BY <1>2, <2>5, <3>2, <4>1 DEF Rests, StartIsFirst
    <3> QED
      BY <3>1, <3>2
  <2>7. start' = "launch" => world' \subseteq LeftBehind'
    <3>1. SUFFICES ASSUME start' = "launch" PROVE world' \subseteq LeftBehind'
      OBVIOUS
    <3>2. start = "launch" /\ ~StartLaunch
      BY <1>2, <2>1, <3>1, Frame, SteadyAttaches
         DEF StartBegin, SimFree, StartLaunch, StartLaunchFails, StartPublish, Abort
    <3>3. \A r \in Runs : ~Live(r)
      BY <3>2, <2>2 DEF WorkerIsHandled, NoFinisher
    <3>4. world \subseteq LeftBehind
      BY <3>2 DEF StartIsFirst
    <3>5. world' \subseteq world
      BY <1>2, <2>2, <3>2, <3>3, SteadySteps, Frame
         DEF StartLaunchFails, FinishRestore, NoFinisher, RecoverRestore, SimFree,
             WorkerEnter, Live, WorkerExit
    <3> QED
      BY <3>4, <3>5, LeftStays
  <2> QED
    BY <1>2, <2>3, <2>4, <2>6, <2>7 DEF StartIsFirst, NoFinisher
<1>3. CASE start' = "idle"
  BY <1>3 DEF StartIsFirst
<1> QED
  BY <1>1, <1>2, <1>3, StartSteps

\* Who lives or is finished is the run of the session, by its handle.
LEMMA SteadyRun ==
  ASSUME SteadyInv, NEW r \in Runs, Live(r) \/ finish[r] # "none"
  PROVE  session.run = r /\ handle = r
BY DEF SteadyInv, PastHasGone, WorkerIsHandled

\* Who moves the session on when nothing is resumed.
LEMMA SteadyMoves ==
  ASSUME Steady, SteadyInv, [Next]_vars, Moves
  PROVE  /\ session'.run = session.run /\ session'.state \in Targets
         /\ \/ StartLaunchFails /\ start = "launch" /\ session'.state \in {"failed", "recovering"}
            \/ \E r \in Runs :
                 finish[r] = "wait" /\ FinishExited(r) /\ session'.state = "recovering"
            \/ \E r \in Runs :
                 /\ finish[r] \in {"settle", "settle_err"} /\ FinishSettle(r)
                 /\ Allowed(session'.state)
                 /\ (finish[r] = "settle_err" /\ session'.state = "recovering")
                    \/ session'.state \in RunOutcomes(r)
            \/ stop # 0 /\ session'.state = "stopping" /\ StopMark /\ Allowed("stopping")
            \/ recover = "close" /\ session'.state = "failed" /\ RecoverClose
<1>1. PICK target \in Targets, outcome \in Outcomes :
        MovesTo(target, outcome) /\ Mover(target) /\ Allowed(target)
  BY DEF Moves
<1>2. session'.run = session.run /\ session'.state = target
  BY <1>1 DEF MovesTo
<1>3. start = "idle" => ~StartLaunchFails
  BY DEF StartLaunchFails
<1>4. start # "idle" => NoFinisher /\ stop = 0
  BY DEF SteadyInv, BaseInv, StartIsFirst, StartOwnsRun
<1> QED
  BY <1>1, <1>2, <1>3, <1>4, SteadySteps DEF Mover, NoFinisher, SteadyInv

\* A live worker always has somebody to wait for it, and its session stays open
\* until it has gone.
LEMMA SteadyWorkerIsHandled ==
  ASSUME Steady, SteadyInv, [Next]_vars
  PROVE  WorkerIsHandled'
<1> USE DEF SteadyInv, BaseInv
<1>1. CASE Begins
  BY <1>1, SteadyBegins DEF WorkerIsHandled, NoFinisher, Live
<1>2. CASE ~Begins
  <2>0. session'.run = session.run
    BY <1>2, SteadySteps, JournalSteps DEF Rests, Attaches, Moves, MovesTo
  <2>1. ASSUME NEW r \in Runs, Live(r)'
        PROVE  handle' = r /\ (start' \in {"attach", "publish"} \/ finish'[r] = "wait")
    <3>1. CASE StartLaunch
      BY <3>1, <2>1, LiveSteps DEF StartLaunch, WorkerIsHandled, StartIsFirst, NoFinisher
    <3>2. CASE StartPublish
      <4>1. Live(r) /\ handle = r
        BY <3>2, <2>1, LiveSteps DEF StartLaunch, StartPublish, WorkerIsHandled
      <4>2. handle' = handle /\ finish' = [finish EXCEPT ![handle] = "wait"]
        BY <3>2 DEF StartPublish, Abort
      <4> QED
        BY <4>1, <4>2 DEF SessionTypeOK, HandlerTypeOK
    <3>3. CASE StartAttach /\ start' = "idle"
      <4>1. Live(r) /\ handle = r
        BY <3>3, <2>1, LiveSteps DEF StartLaunch, StartAttach, WorkerIsHandled
      <4>2. handle' = handle /\ finish' = [finish EXCEPT ![handle] = "wait"]
        BY <3>3, SteadyAttaches DEF Abort
      <4> QED
        BY <4>1, <4>2 DEF SessionTypeOK, HandlerTypeOK
    <3>4. CASE ~StartLaunch /\ ~StartPublish /\ ~(StartAttach /\ start' = "idle")
      <4>1. Live(r) /\ handle = r /\ handle' = handle
        BY <3>4, <2>1, LiveSteps, SteadySteps, Frame DEF WorkerIsHandled
      <4>2. CASE start \in {"attach", "publish"}
        <5>1. start' \in {"attach", "publish"}
          BY <3>4, <4>2, SteadySteps, SteadyAttaches, Frame
             DEF StartBegin, SimFree, StartLaunchFails
        <5> QED
          BY <4>1, <5>1
      <4>3. CASE start \notin {"attach", "publish"}
        <5>1. finish[r] = "wait" /\ worker[r].phase # "exited"
          BY <4>1, <4>3 DEF WorkerIsHandled, Live
        <5>2. \A q \in Runs : FinishExited(q) => q # r
          BY <5>1 DEF FinishExited
        <5>3. finish'[r] = "wait"
          BY <5>1, <5>2, <4>3, SteadySteps, Frame
             DEF StartAttach, StartPublish, FinishExited, FinishRestore,
             FinishSettle, SessionTypeOK, HandlerTypeOK
        <5> QED
          BY <4>1, <5>3
      <4> QED
        BY <4>2, <4>3
    <3> QED
      BY <3>1, <3>2, <3>3, <3>4
  <2>2. ASSUME NEW r \in Runs, finish'[r] # "none"
        PROVE  /\ handle' = r /\ worker'[r].phase # "none" /\ job'.state \in {"running", "stopping"}
               /\ finish'[r] = "wait" => session'.state \in {"running", "stopping"}
               /\ finish'[r] # "wait" => ~Live(r)' /\ session'.state \in {"recovering"} \cup Ended
    <3>1. CASE StartPublish
      <4>1. r = handle /\ finish'[r] = "wait"
        BY <3>1, <2>2, FinishSteps
           DEF StartPublish, StartIsFirst, NoFinisher, FinishExited, FinishRestore
      <4>2. /\ handle' = handle /\ session' = session /\ job'.state = "running"
            /\ worker[r].phase # "none"
        BY <3>1, <4>1 DEF StartPublish, NoSave, Abort, StartIsFirst, StartOwnsRun
      <4> QED
        BY <3>1, <4>1, <4>2, PhasesGrow DEF StartPublish, StartIsFirst
    <3>2. CASE StartAttach /\ start' = "idle"
      <4>1. /\ r = handle /\ finish'[r] = "wait" /\ handle' = handle /\ worker[r].phase # "none"
            /\ job'.state = "running" /\ session'.state = "running"
        BY <3>2, <2>2, FinishSteps, SteadyAttaches
           DEF StartAttach, StartIsFirst, NoFinisher, FinishExited, FinishRestore, Abort,
               StartOwnsRun, Attaches, SessionTypeOK, HandlerTypeOK
      <4> QED
        BY <3>2, <4>1, PhasesGrow DEF StartAttach
    <3>3. CASE ~StartPublish /\ ~(StartAttach /\ start' = "idle")
      <4>1. finish[r] # "none"
        BY <3>3, <2>2, FinishSteps, SteadyAttaches DEF FinishExited, FinishRestore
      <4>2. /\ start = "idle" /\ handle = r /\ session.run = r /\ worker[r].phase # "none"
            /\ job.state \in {"running", "stopping"}
        BY <4>1, SteadyRun DEF StartIsFirst, NoFinisher, WorkerIsHandled
      <4>3. handle' = r /\ worker'[r].phase # "none"
        BY <4>2, SteadySteps, Frame, PhasesGrow DEF StartLaunch
      <4>4. job'.state \in {"running", "stopping"}
        <5>1. ASSUME NEW q \in Runs, FinishSettle(q) PROVE FALSE
          <6>1. q = r
            BY <5>1, <4>2, SteadyRun DEF FinishSettle
          <6> QED
            BY <5>1, <6>1, <2>2 DEF FinishSettle, SessionTypeOK, HandlerTypeOK
        <5>2. \A q \in Runs, kind \in Kinds :
                StartBegin(q, kind) => job'.state = "running" \/ job' = job
          BY DEF StartBegin
        <5> QED
          BY <5>1, <5>2, <4>2, SteadySteps, Frame
             DEF StartLaunchFails, StartAttach, StartPublish, StopMark,
             SessionTypeOK, HandlerTypeOK, Job
      <4>5. ASSUME finish'[r] = "wait" PROVE session'.state \in {"running", "stopping"}
        <5>1. finish[r] = "wait"
          BY <3>3, <4>1, <4>5, <2>2, FinishSteps, SteadyAttaches
        <5>2. session.state \in {"running", "stopping"} /\ recover # "close"
          BY <5>1, <4>2 DEF WorkerIsHandled, Ended
        <5>3. \A q \in Runs : finish[q] # "none" => q = r
          BY <4>2 DEF WorkerIsHandled
        <5>4. ~FinishExited(r)
          <6>1. Allowed("recovering")
            BY <5>2 DEF Allowed
          <6> QED
            BY <4>5, <6>1, <4>2 DEF FinishExited, SessionTypeOK, HandlerTypeOK
        <5>5. CASE Moves
          BY <5>5, <5>1, <5>2, <5>3, <5>4, <4>2, SteadyMoves DEF FinishExited
        <5> QED
          BY <1>2, <5>2, <5>5, <4>2, SteadySteps, JournalSteps
             DEF Rests, Attaches, StartAttach
      <4>6. ASSUME finish'[r] # "wait" PROVE ~Live(r)' /\ session'.state \in {"recovering"} \cup Ended
        <5>1. CASE finish[r] = "wait"
          <6>1. FinishExited(r) /\ worker[r].phase = "exited"
            BY <3>3, <5>1, <4>6, <2>2, FinishSteps, SteadyAttaches
               DEF FinishExited, FinishRestore
          <6>2. Allowed("recovering")
            BY <5>1 DEF Allowed, WorkerIsHandled
          <6>3. PICK outcome \in Outcomes : To("recovering", outcome)
            BY <6>1, <6>2, <4>2 DEF FinishExited
          <6>4. session'.state = "recovering"
            BY <6>3, ToWrites DEF MovesTo, States, ACTIVE, SessionTypeOK
          <6> QED
            BY <6>1, <6>4, ExitedStays DEF Live
        <5>2. CASE finish[r] # "wait"
          <6>1. ~Live(r) /\ session.state \in {"recovering"} \cup Ended
            BY <4>1, <5>2 DEF WorkerIsHandled
          <6>2. ~Live(r)'
            BY <4>2, <6>1, LiveSteps
          <6>3. CASE Moves
            <7>1. session'.state # "stopping"
              <8>1. ASSUME Allowed("stopping") PROVE FALSE
                BY <6>1, <8>1 DEF Allowed, Ended
              <8>2. \A q \in Runs : "stopping" \notin RunOutcomes(q)
                BY DEF RunOutcomes
              <8> QED
                BY <6>3, <8>1, <8>2, SteadyMoves
            <7> QED
              BY <6>2, <6>3, <7>1, SteadyMoves DEF Targets
          <6> QED
            BY <1>2, <4>2, <6>1, <6>2, <6>3, SteadySteps, JournalSteps
               DEF Rests, Attaches, StartAttach
        <5> QED
          BY <5>1, <5>2
      <4> QED
        BY <4>3, <4>4, <4>5, <4>6
    <3> QED
      BY <3>1, <3>2, <3>3
  <2>3. ASSUME recover' = "close"
        PROVE  ~Live(session.run)' /\ session'.state \in {"recovering"} \cup Ended
    <3>1. ~Live(session.run) /\ session.state \in {"recovering"} \cup Ended /\ start = "idle"
      <4>1. CASE RecoverRestore
        BY <4>1 DEF RecoverRestore, SimFree, WorkerIsHandled, Live
      <4> QED
        BY <2>3, <4>1, RecoverSteps DEF WorkerIsHandled, StartOwnsRun
    <3>2. ~Live(session.run)'
      BY <2>0, <3>1, LiveSteps DEF StartLaunch, Live
    <3>3. CASE Moves
      <4>1. session'.state # "stopping"
        <5>1. ASSUME Allowed("stopping") PROVE FALSE
          BY <3>1, <5>1 DEF Allowed, Ended
        <5>2. \A q \in Runs : "stopping" \notin RunOutcomes(q)
          BY DEF RunOutcomes
        <5> QED
          BY <3>3, <5>1, <5>2, SteadyMoves
      <4> QED
        BY <3>2, <3>3, <4>1, SteadyMoves DEF Targets
    <3> QED
      BY <1>2, <3>1, <3>2, <3>3, SteadySteps, JournalSteps DEF Rests, Attaches, StartAttach
  <2> QED
    BY <2>1, <2>2, <2>3 DEF WorkerIsHandled
<1> QED
  BY <1>1, <1>2

\* What a step adds to the world is of the run of the session.
LEMMA SteadyAdds ==
  ASSUME Steady, SteadyInv, [Next]_vars, NEW d \in world', d \notin world
  PROVE  /\ d[2] = session.run /\ kindOf[session.run] \in WorldKinds
         /\ \/ StartLaunch
            \/ StartLaunchFails /\ session'.state = "recovering"
            \/ WorkerEnter(session.run) /\ Live(session.run)
<1> USE DEF SteadyInv, BaseInv, Sync, Actors, Texture
<1>1. CASE StartLaunch
  BY <1>1 DEF StartLaunch, WorldKinds
<1>2. CASE StartLaunchFails
  <2>1. /\ kindOf[session.run] = "textured" /\ world' = world \cup {Texture(session.run)}
        /\ \E outcome \in Outcomes : To("recovering", outcome)
    <3>1. Allowed(FirstTarget)
      BY <1>2 DEF StartLaunchFails, StartIsFirst, Allowed, FirstTarget
    <3> QED
      BY <1>2, <3>1 DEF StartLaunchFails, FirstTarget
  <2>2. session'.state = "recovering"
    BY <2>1, ToWrites DEF MovesTo, States, ACTIVE, SessionTypeOK
  <2> QED
    BY <1>2, <2>1, <2>2 DEF WorldKinds
<1>3. ASSUME NEW q \in Runs, WorkerEnter(q)
      PROVE  d[2] = session.run /\ kindOf[session.run] \in WorldKinds
             /\ WorkerEnter(session.run) /\ Live(session.run)
  <2>1. Live(q) /\ kindOf[q] \in WorldKinds /\ d \in {Sync(q), Actors(q)}
    BY <1>3 DEF WorkerEnter, Live
  <2>2. q = session.run
    BY <2>1, SteadyRun
  <2> QED
    BY <1>3, <2>1, <2>2
<1>4. ASSUME NEW q \in Runs, FinishRestore(q) PROVE FALSE
  BY <1>4, RestoresRemove DEF FinishRestore
<1>5. ~RecoverRestore /\ ~ResumeRestore
  BY RestoresRemove DEF RecoverRestore, ResumeRestore
<1>6. ASSUME NEW q \in Runs, WorkerExit(q) PROVE FALSE
  BY <1>6 DEF WorkerExit
<1> QED
  BY <1>1, <1>2, <1>3, <1>4, <1>5, <1>6, Frame

\* Restoring leaves nothing of the run of the session but the actors of a preset.
LEMMA SteadyRestores ==
  ASSUME SteadyInv, RestoreSucceeds, ~Live(session.run)
  PROVE  world' \subseteq LeftBehind
<1> USE DEF SteadyInv, BaseInv
<1> SUFFICES ASSUME NEW d \in world', d \notin LeftBehind PROVE FALSE
  OBVIOUS
<1>1. d \in world /\ d[1] # "sync" /\ d # Texture(session.run)
  BY DEF RestoreSucceeds, Restored, Asynchronous, Destroyed
<1>2. d[2] = session.run /\ kindOf[session.run] \in WorldKinds
  BY <1>1 DEF WorldIsTheRuns
<1>3. d \in {"sync", "actors", "texture"} \X Runs
  BY <1>1 DEF SessionTypeOK, WorkerTypeOK
<1>4. d = Actors(session.run) /\ session.run \in Runs
  BY <1>1, <1>2, <1>3 DEF Actors, Texture
<1>5. kindOf[session.run] = "preset"
  BY <1>2, <1>4 DEF RestoreSucceeds, Restored, Asynchronous, Destroyed, JournaledKinds
<1>6. worker[session.run].phase # "none" /\ worker[session.run].exit # "ok"
  BY <1>1, <1>4 DEF OrderlyExitLeavesNothing
<1>7. worker[session.run].phase = "exited"
  BY <1>4, <1>6 DEF Live
<1> QED
  BY <1>4, <1>5, <1>6, <1>7 DEF LeftBehind

\* A session is closed only on a world that was restored.
LEMMA SteadyCleanWorld ==
  ASSUME Steady, SteadyInv, [Next]_vars
  PROVE  CleanWorldWhenIdle'
<1> USE DEF SteadyInv, BaseInv
<1> SUFFICES ASSUME session'.state \notin ACTIVE PROVE world' \subseteq LeftBehind'
  BY DEF CleanWorldWhenIdle
<1>1. ~Begins /\ ~Attaches
  BY DEF Begins, Attaches, ACTIVE
<1>2. SUFFICES world \subseteq LeftBehind
  <2>1. SUFFICES ASSUME NEW d \in world', d \notin world PROVE FALSE
    BY <1>2, LeftStays
  <2>2. StartLaunch \/ Live(session.run)
    BY <1>2, <2>1, SteadyAdds DEF ACTIVE
  <2>3. session.run \in Runs
    BY <2>2, LifecycleAssumption
       DEF StartLaunch, StartOwnsRun, Live, SessionTypeOK, JournalTypeOK, Session, Runs
  <2>4. session.state \in ACTIVE
    BY <2>2, <2>3 DEF StartLaunch, StartIsFirst, WorkerIsHandled, ACTIVE
  <2>5. Rests
    BY <2>1, <1>1, <1>2, SteadyAdds, SteadySteps, JournalSteps, SteadyMoves
       DEF StartLaunch, NoSave, Rests, WorkerEnter, BridgeUnchanged, ACTIVE
  <2> QED
    BY <2>4, <2>5 DEF Rests
<1>3. CASE Rests
  BY <1>3 DEF Rests, WorldIsTheRuns, CleanWorldWhenIdle
<1>4. CASE Moves
  <2>1. session'.state \in Ended
    BY <1>4, SteadyMoves DEF Targets, ACTIVE
  <2>2. CASE StartLaunchFails
    BY <2>2 DEF StartLaunchFails, StartIsFirst
  <2>3. ASSUME NEW r \in Runs, finish[r] \in {"settle", "settle_err"}, FinishSettle(r)
        PROVE  world \subseteq LeftBehind
    <3>1. CASE finish[r] = "settle" \/ session.state \in Ended
      BY <3>1 DEF WorldIsTheRuns, CleanWorldWhenIdle, Ended, ACTIVE
    <3>2. CASE finish[r] = "settle_err" /\ session.state \notin Ended
      <4>1. session.state = "recovering" /\ handle = r
        BY <2>3, <3>2 DEF WorkerIsHandled
      <4>2. Allowed("recovering")
        BY <4>1 DEF Allowed
      <4>3. PICK outcome \in Outcomes : To("recovering", outcome)
        BY <2>3, <3>2, <4>1, <4>2 DEF FinishSettle
      <4>4. session'.state = "recovering"
        BY <4>3, ToWrites DEF MovesTo, States, ACTIVE, SessionTypeOK
      <4> QED
        BY <2>1, <4>4 DEF Ended
    <3> QED
      BY <2>3, <3>1, <3>2
  <2>4. CASE recover = "close"
    BY <2>4 DEF WorldIsTheRuns
  <2> QED
    BY <1>4, <2>1, <2>2, <2>3, <2>4, SteadyMoves DEF Ended
<1> QED
  BY <1>1, <1>3, <1>4, SteadySteps, JournalSteps

\* The world holds only what the run of the session has left in it, and presets.
LEMMA SteadyWorldIsTheRuns ==
  ASSUME Steady, SteadyInv, [Next]_vars
  PROVE  WorldIsTheRuns'
<1> USE DEF SteadyInv, BaseInv
<1>1. \A d \in world' \ LeftBehind' :
         d[2] = session'.run /\ kindOf'[session'.run] \in WorldKinds
  <2>1. CASE Begins
    BY <2>1, SteadyBegins, LeftStays
  <2>2. CASE ~Begins
    <3>1. session'.run = session.run
      BY <2>2, SteadySteps, JournalSteps DEF Rests, Attaches, Moves, MovesTo
    <3>2. kindOf' = kindOf
      <4>1. ASSUME NEW r \in Runs, NEW kind \in Kinds, StartBegin(r, kind) PROVE FALSE
        BY <2>2, <4>1, BeginWrites DEF StartBegin, Begins, SessionTypeOK, SimFree
      <4> QED
        BY <4>1, Frame
    <3>3. \A d \in world \ LeftBehind :
             d[2] = session.run /\ kindOf[session.run] \in WorldKinds
      BY DEF WorldIsTheRuns
    <3> QED
      BY <3>1, <3>2, <3>3, SteadyAdds, LeftStays
  <2> QED
    BY <2>1, <2>2
<1>2. CleanWorldWhenIdle'
  BY SteadyCleanWorld
<1>3. ASSUME NEW r \in Runs, finish'[r] = "settle" PROVE world' \subseteq LeftBehind'
  <2>1. CASE FinishRestore(r)
    <3>1. handle = r
      BY <2>1, SteadyRun DEF FinishRestore
    <3>2. CASE kindOf[session.run] \in WorldKinds
      <4>1. RestoreSucceeds
        BY <1>3, <2>1, <3>1, <3>2 DEF FinishRestore, SessionTypeOK, HandlerTypeOK
      <4> QED
        BY <2>1, <3>1, <4>1, SteadyRestores, SteadyRun, LeftStays
           DEF FinishRestore, WorkerIsHandled
    <3>3. CASE kindOf[session.run] \notin WorldKinds
      BY <2>1, <3>1, <3>3, LeftStays DEF FinishRestore, WorldIsTheRuns
    <3> QED
      BY <3>2, <3>3
  <2>2. CASE ~FinishRestore(r)
    <3>1. finish[r] = "settle"
      BY <1>3, <2>2, FinishSteps
    <3>2. world \subseteq LeftBehind /\ session.run = r /\ ~Live(r) /\ start = "idle"
      BY <3>1, SteadyRun DEF WorldIsTheRuns, WorkerIsHandled, StartIsFirst, NoFinisher
    <3> QED
      BY <3>2, SteadyAdds, LeftStays DEF StartLaunch, StartLaunchFails
  <2> QED
    BY <2>1, <2>2
<1>4. ASSUME recover' = "close" PROVE world' \subseteq LeftBehind'
  <2>1. CASE RecoverRestore
    <3>1. RestoreSucceeds /\ ~Live(handle)
      BY <1>4, <2>1 DEF RecoverRestore, SimFree
    <3>2. ~Live(session.run)
      <4>1. Live(session.run) => session.run \in Runs
        BY DEF Live
      <4> QED
        BY <3>1, <4>1, SteadyRun
    <3> QED
      BY <3>1, <3>2, SteadyRestores, LeftStays
  <2>2. CASE ~RecoverRestore
    <3>1. recover = "close"
      BY <1>4, <2>2, RecoverSteps
    <3>2. world \subseteq LeftBehind /\ ~Live(session.run) /\ start = "idle"
      BY <3>1 DEF WorldIsTheRuns, WorkerIsHandled, StartOwnsRun
    <3> QED
      BY <3>2, SteadyAdds, LeftStays DEF StartLaunch, StartLaunchFails
  <2> QED
    BY <2>1, <2>2
<1> QED
  BY <1>1, <1>2, <1>3, <1>4 DEF WorldIsTheRuns

\* The record of the last run ends no sooner than its session.
LEMMA SteadyRecordEndsLast ==
  ASSUME Steady, SteadyInv, [Next]_vars
  PROVE  RecordEndsLast'
<1> USE DEF SteadyInv, BaseInv
<1> SUFFICES ASSUME NEW r \in Runs, r = session'.run, record'[r].state \in Ended
             PROVE  session'.state \in Ended
  BY DEF RecordEndsLast
<1>1. CASE Rests
  BY <1>1 DEF Rests, RecordEndsLast
<1>2. CASE Begins
  <2>1. record[r] = Idle
    BY <1>2, SteadyBegins DEF FreshRunsAreNowhere
  <2>2. record'[r] = record[r] \/ record'[r] = session'
    BY RecordSteps
  <2> QED
    BY <1>2, <2>1, <2>2, SteadyBegins DEF Idle, Ended
<1>3. CASE Attaches \/ Moves
  <2>1. session'.run = session.run
    BY <1>3 DEF Attaches, Moves, MovesTo
  <2>2. record'[r] = record[r] \/ record'[r] = session'
    BY RecordSteps
  <2>3. CASE session.state \notin Ended
    BY <2>1, <2>2, <2>3 DEF RecordEndsLast
  <2>4. CASE session.state \in Ended
    <3>1. ~Attaches /\ ~StartLaunchFails
      BY <2>4 DEF Attaches, StartAttach, StartLaunchFails, StartIsFirst, Ended
    <3>2. PICK target : session'.state = target /\ Allowed(target)
      BY <1>3, <3>1 DEF Moves, MovesTo
    <3> QED
      BY <2>4, <3>2 DEF Allowed, Ended
  <2> QED
    BY <2>3, <2>4
<1> QED
  BY <1>1, <1>2, <1>3, SteadySteps, JournalSteps

\* The invariant of a steady bridge is inductive.
LEMMA SteadyStep ==
  ASSUME Steady, SteadyInv, [Next]_vars
  PROVE  SteadyInv'
<1>1. BaseInv'
  BY BaseStep DEF SteadyInv
<1> QED
  BY <1>1, SteadyNothingIsResumed, SteadyPastHasGone, SteadyStartIsFirst,
     SteadyWorkerIsHandled, SteadyWorldIsTheRuns, SteadyRecordEndsLast
     DEF SteadyInv

\* It holds of a bridge started for the first time.
LEMMA SteadyInit == Init => SteadyInv
<1> SUFFICES ASSUME Init PROVE SteadyInv
  OBVIOUS
<1>1. BaseInv
  BY BaseInit
<1> QED
  BY <1>1 DEF Init, SteadyInv, NothingIsResumed, PastHasGone, StartIsFirst, WorkerIsHandled,
     WorldIsTheRuns, RecordEndsLast,
     CleanWorldWhenIdle, NoFinisher, Idle, ACTIVE, Ended, Live, NoWorker

\* When no session is active nothing of any run is left in the world but the
\* actors of presets that did not end in order, for any number of executions and
\* interrupts, even when an operator's recovery races the finisher's
\* (_finish_e2e, recover_session, _abort_e2e_start, owned_resources.py:149-150).
THEOREM CleanWorld == Steady /\ Spec => []CleanWorldWhenIdle
<1> SUFFICES ASSUME Steady PROVE Spec => []CleanWorldWhenIdle
  OBVIOUS
<1>1. SteadyInv => CleanWorldWhenIdle
  BY DEF SteadyInv, WorldIsTheRuns
<1> QED
  BY <1>1, SteadyInit, SteadyStep, PTL DEF Spec

\* A run that has ended has no live worker.
LEMMA SteadyEndIsOver ==
  ASSUME SteadyInv
  PROVE  \A r \in Runs : record[r].state \in Ended => ~Live(r)
<1> SUFFICES ASSUME NEW r \in Runs, record[r].state \in Ended, Live(r) PROVE FALSE
  OBVIOUS
<1>1. session.run = r /\ r # 0
  BY SteadyRun DEF Runs
<1>2. session.state \in Ended
  BY <1>1 DEF SteadyInv, RecordEndsLast
<1>3. session.state \in {"preparing", "running", "stopping"}
  BY DEF SteadyInv, WorkerIsHandled, StartIsFirst
<1> QED
  BY <1>2, <1>3 DEF Ended

\* The world leaves synchronous mode under no live worker.
LEMMA SteadySparesWorkers ==
  ASSUME Steady, SteadyInv, [Next]_vars, NEW r \in Runs, Sync(r) \in world, Sync(r) \notin world'
  PROVE  ~Live(r)'
<1> USE DEF SteadyInv, BaseInv
<1>1. ~StartLaunch /\ ~StartLaunchFails /\ \A q \in Runs : ~WorkerEnter(q)
  BY DEF StartLaunch, StartLaunchFails, WorkerEnter, Sync
<1>2. SUFFICES ASSUME Live(r) PROVE ~Live(r)'
  BY <1>1, LiveSteps
<1>3. session.run = r /\ handle = r
  BY <1>2, SteadyRun
<1>4. \A q \in Runs : ~FinishRestore(q)
  BY <1>2, <1>3, SteadyRun DEF FinishRestore, WorkerIsHandled
<1>5. ~RecoverRestore
  BY <1>2, <1>3 DEF RecoverRestore
<1>6. ASSUME NEW q \in Runs, WorkerExit(q) PROVE ~Live(r)'
  <2>1. q = r
    BY <1>6 DEF WorkerExit, Sync, Actors
  <2>2. worker'[r].phase = "exited"
    BY <1>6, <2>1 DEF WorkerExit, SessionTypeOK, WorkerTypeOK, Worker
  <2> QED
    BY <2>2 DEF Live
<1> QED
  BY <1>1, <1>4, <1>5, <1>6, SteadySteps, Frame

\* The world is never taken from a live worker, and its run never declared ended,
\* under the same interleavings.
THEOREM WorkerHasItsWorld == Steady /\ Spec => WorkerKeepsWorld
<1> SUFFICES ASSUME Steady PROVE Spec => WorkerKeepsWorld
  OBVIOUS
<1>1. Spec => []SteadyInv
  BY SteadyInit, SteadyStep, PTL DEF Spec
<1>2. SteadyInv => \A r \in Runs : record[r].state \in Ended => ~Live(r)
  BY SteadyEndIsOver
<1>3. SteadyInv /\ [Next]_vars => [\A r \in Runs : Sync(r) \in world \ world' => ~Live(r)']_vars
  BY SteadySparesWorkers
<1> QED
  BY <1>1, <1>2, <1>3, PTL DEF Spec, WorkerKeepsWorld, RestoreOnlyAfterExit

\* Both: the world is lent to a worker as long as that lives, and given back, clean
\* but for what presets left behind.
THEOREM WorldReturns == Steady /\ Spec => WorldIsLentAndReturned
  BY CleanWorld, WorkerHasItsWorld DEF WorldIsLentAndReturned

\* It does not fail to write either.
Calm == Steady /\ MaxBadWrites = 0

\* In a calm bridge every write is made, to both files.
LEMMA CalmWrites ==
  ASSUME Calm, SessionTypeOK, NEW s, NEW outcome, Written(s, outcome)
  PROVE  outcome # "raised" /\ saved' = s /\ record' = [record EXCEPT ![s.run] = s]
<1>1. badWrites = 0
  BY DEF Calm, SessionTypeOK, JournalTypeOK
<1>2. outcome # "raised"
  BY <1>1 DEF Calm, Written
<1> QED
  BY <1>2, SteadyWrites DEF Calm

\* In a calm bridge attaching succeeds.
LEMMA CalmAttaches ==
  ASSUME Calm, CalmInv, [Next]_vars, StartAttach
  PROVE  Attaches /\ start' = "publish" /\ UNCHANGED <<job, worker, finish>>
<1>1. PICK outcome : /\ Written(session', outcome)
                     /\ outcome # "raised" => start' = "publish"
  BY SteadyAttaches DEF Calm, CalmInv
<1>2. outcome # "raised"
  BY <1>1, CalmWrites DEF CalmInv, SteadyInv, BaseInv
<1> QED
  BY <1>1, <1>2, SteadyAttaches DEF Calm, CalmInv

\* In a calm bridge the files say what the bridge knows.
LEMMA CalmLosesNothing ==
  ASSUME Calm, CalmInv, [Next]_vars
  PROVE  NothingIsLost'
<1>s. Steady /\ SteadyInv
  BY DEF Calm, CalmInv
<1> USE <1>s DEF CalmInv, SteadyInv, BaseInv
<1>1. CASE Rests
  BY <1>1, SteadySteps DEF Rests, NothingIsLost
<1>2. CASE ~Rests
  <2>1. PICK outcome : Written(session', outcome)
    BY <1>2, SteadySteps, JournalSteps DEF Begins, Attaches, Moves, MovesTo
  <2>2. /\ saved' = session'
        /\ record' = [record EXCEPT ![session'.run] = session']
    BY <2>1, CalmWrites
  <2>3. session'.run # 0 => session'.run \in Runs
    BY JournalTyped, LifecycleAssumption DEF JournalTypeOK, Session, Runs
  <2> QED
    BY <2>2, <2>3, SteadySteps DEF NothingIsLost, SessionTypeOK, JournalTypeOK
<1> QED
  BY <1>1, <1>2

\* A run begins when all are recorded as ended.
LEMMA CalmBegins ==
  ASSUME Calm, CalmInv, [Next]_vars, Begins
  PROVE  /\ \A r \in Runs : ~Live(r) /\ record[r].state \in {"idle"} \cup Ended
         /\ session'.run \in Runs /\ kindOf[session'.run] = "none"
         /\ worker[session'.run] = NoWorker /\ worker' = worker
         /\ session'.state = "preparing"
<1>s. Steady /\ SteadyInv
  BY DEF Calm, CalmInv
<1>1. \A q \in Runs : record[q].state \in {"idle"} \cup Ended
  <2>1. session.run # 0 => session.state \in {"idle"} \cup Ended
    BY <1>s, SteadyBegins DEF SteadyInv, BaseInv, SessionTypeOK, JournalTypeOK, Session
  <2> QED
    BY <2>1 DEF CalmInv, PastIsOver, NothingIsLost, Runs
<1> QED
  BY <1>s, <1>1, SteadyBegins

\* Every run but the last is recorded as ended.
LEMMA CalmPastIsOver ==
  ASSUME Calm, CalmInv, [Next]_vars
  PROVE  PastIsOver'
<1>s. Steady /\ SteadyInv
  BY DEF Calm, CalmInv
<1> USE <1>s DEF CalmInv, SteadyInv, BaseInv
<1> SUFFICES ASSUME NEW r \in Runs, r # session'.run
             PROVE  record'[r].state \in {"idle"} \cup Ended
  BY DEF PastIsOver
<1>1. record'[r] = record[r]
  BY SteadySteps, RecordSteps
<1>2. CASE Begins
  BY <1>1, <1>2, CalmBegins
<1>3. CASE ~Begins
  <2>1. session'.run = session.run
    BY <1>3, SteadySteps, JournalSteps DEF Rests, Attaches, Moves, MovesTo
  <2> QED
    BY <1>1, <2>1 DEF PastIsOver
<1> QED
  BY <1>2, <1>3

\* The invariant of a calm bridge is inductive.
LEMMA CalmStep ==
  ASSUME Calm, CalmInv, [Next]_vars
  PROVE  CalmInv'
<1>1. SteadyInv'
  BY SteadyStep DEF Calm, CalmInv
<1> QED
  BY <1>1, CalmLosesNothing, CalmPastIsOver DEF CalmInv

\* It holds of a bridge started for the first time.
LEMMA CalmInit == Init => CalmInv
BY SteadyInit DEF Init, CalmInv, NothingIsLost, PastIsOver, Idle

\* What a reader of the records sees of a run.
View(state, phase) ==
  [phase  |-> CASE state = "idle" -> "absent"
                [] state \in ACTIVE -> "open"
                [] OTHER -> state,
   tag    |-> 0,
   worker |-> CASE phase = "none" -> "none"
                [] phase = "exited" -> "gone"
                [] OTHER -> "live"]

\* What is seen of run r now.
Seen(r) == View(record[r].state, worker[r].phase)

\* What is seen of a run depends on where its state and its worker stand.
LEMMA Views ==
  ASSUME NEW state \in States, NEW phase
  PROVE  /\ View(state, phase) = [phase |-> View(state, phase).phase, tag |-> 0,
                                  worker |-> View(state, phase).worker]
         /\ state = "idle" => View(state, phase).phase = "absent"
         /\ state \in ACTIVE => View(state, phase).phase = "open"
         /\ state \in Ended => View(state, phase).phase = state
         /\ phase = "none" => View(state, phase).worker = "none"
         /\ phase = "exited" => View(state, phase).worker = "gone"
         /\ phase \notin {"none", "exited"} => View(state, phase).worker = "live"
<1>1. state \in Ended => state \notin ACTIVE \cup {"idle"}
  BY DEF ACTIVE, Ended
<1>2. state \in ACTIVE => state # "idle"
  BY DEF ACTIVE
<1> QED
  BY <1>1, <1>2 DEF View

\* The records a reader sees, run by run, before and after a step.
LEMMA RecordsAreSeen ==
  /\ JournalRecords = [r \in Runs |-> Seen(r)]
  /\ JournalRecords' = [r \in Runs |-> Seen(r)']
BY DEF JournalRecords, Seen, View

\* A record holds a state of the journal.
LEMMA RecordStates ==
  ASSUME SessionTypeOK, NEW r \in Runs
  PROVE  record[r].state \in States
BY DEF SessionTypeOK, JournalTypeOK, Session, States

\* A step that changes what is seen of one run only changes its record.
LEMMA OneRecord ==
  ASSUME NEW r \in Runs, \A q \in Runs \ {r} : Seen(q)' = Seen(q)
  PROVE  JournalRecords' = [JournalRecords EXCEPT ![r] = Seen(r)']
BY RecordsAreSeen

\* A begun session begins a record.
LEMMA JournalBegins ==
  ASSUME Calm, CalmInv, [Next]_vars, Begins
  PROVE  Records!JournalNext
<1>s. Steady /\ SteadyInv
  BY DEF Calm, CalmInv
<1> USE <1>s DEF CalmInv, SteadyInv, BaseInv
<1>r. PICK r \in Runs : r = session'.run
  BY CalmBegins
<1>0. r = session'.run /\ worker[r] = NoWorker /\ record[r] = Idle /\ worker' = worker
  BY <1>r, CalmBegins DEF FreshRunsAreNowhere
<1>1. Seen(r) = [phase |-> "absent", tag |-> 0, worker |-> "none"]
  BY <1>0, Views DEF Seen, Idle, NoWorker, States
<1>2. Seen(r)' = [phase |-> "open", tag |-> 0, worker |-> "none"]
  <2>1. record'[r].state = "preparing"
    <3>1. record'[r] = session'
      BY <1>0, CalmLosesNothing DEF NothingIsLost, Runs
    <3> QED
      BY <3>1, CalmBegins
  <2>2. worker'[r].phase = "none"
    BY <1>0 DEF NoWorker
  <2> QED
    BY <2>1, <2>2, Views DEF Seen, States, ACTIVE
<1>3. \A q \in Runs \ {r} : Seen(q)' = Seen(q)
  BY <1>0, RecordSteps DEF Seen
<1>4. \A q \in Runs : Seen(q).phase # "open" /\ Seen(q).worker # "live"
  <2> TAKE q \in Runs
  <2>1. record[q].state \in {"idle"} \cup Ended /\ worker[q].phase \in {"none", "exited"}
    BY CalmBegins DEF Live
  <2>2. record[q].state \in States
    BY RecordStates
  <2>3. "open" \notin {"absent"} \cup Ended
    BY DEF Ended
  <2> QED
    BY <2>1, <2>2, <2>3, Views DEF Seen
<1>5. JournalRecords' = [JournalRecords EXCEPT
                           ![r] = [phase |-> "open", tag |-> 0, worker |-> "none"]]
  BY <1>0, <1>2, <1>3, OneRecord
<1>6. Records!Begin(r, 0)
  BY <1>0, <1>1, <1>4, <1>5, RecordsAreSeen DEF Records!Begin, Records!Absent
<1> QED
  BY <1>0, <1>6 DEF Records!JournalNext

\* A move to an end closes the record of a run whose worker has gone; every other
\* move is a stutter.
LEMMA JournalCloses ==
  ASSUME Calm, CalmInv, [Next]_vars, Moves
  PROVE  [Records!JournalNext]_JournalRecords
<1>s. Steady /\ SteadyInv
  BY DEF Calm, CalmInv
<1> USE <1>s DEF CalmInv, SteadyInv, BaseInv
<1>0. session.run \in Runs /\ session'.run = session.run
  <2>1. session.state # "idle"
    BY SteadyMoves DEF StartIsFirst, Moves, Allowed, Targets, Ended, StartLaunchFails
  <2> QED
    BY <2>1, SteadyMoves, LifecycleAssumption
       DEF IdentitiesAgree, SessionTypeOK, JournalTypeOK, Session, Runs
<1>r. PICK r \in Runs : r = session.run
  BY <1>0
<1> USE <1>r
<1>1. record[r] = session /\ record'[r] = session' /\ worker' = worker
  <2>1. record[r] = session /\ record'[r] = session'
    BY <1>0, CalmLosesNothing DEF NothingIsLost, Runs
  <2>2. worker' = worker
    BY SteadyMoves
       DEF StartLaunchFails, FinishExited, FinishSettle, FinishUnchanged, StopMark,
           RecoverClose
  <2> QED
    BY <2>1, <2>2
<1>2. \A q \in Runs \ {r} : Seen(q)' = Seen(q)
  BY <1>0, <1>1, RecordSteps DEF Seen
<1>3. CASE session'.state \in Ended /\ session.state \in ACTIVE
  <2>1. Seen(r).phase = "open"
    BY <1>0, <1>1, <1>3, RecordStates, Views DEF Seen
  <2>2. Seen(r)' = [phase |-> session'.state, tag |-> 0, worker |-> Seen(r).worker]
    BY <1>0, <1>1, <1>3, RecordStates, Views DEF Seen, States
  <2>3. ~Live(r)
    <3>1. ~Live(r)'
      BY <1>3, CalmStep DEF WorkerIsHandled, StartIsFirst, Ended
    <3> QED
      BY <1>1, <3>1 DEF Live
  <2>4. Seen(r).worker # "live"
    BY <1>0, <1>1, <2>3, RecordStates, Views DEF Seen, Live
  <2>5. session'.state = "completed" => Seen(r).worker = "gone"
    <3>1. SUFFICES ASSUME session'.state = "completed" PROVE worker[r].phase = "exited"
      BY <1>0, RecordStates, Views DEF Seen
    <3>2. PICK q \in Runs : finish[q] # "none"
      BY <3>1, SteadyMoves
    <3>3. worker[r].phase # "none"
      BY <3>2, SteadyRun DEF WorkerIsHandled
    <3> QED
      BY <1>0, <2>3, <3>3 DEF Live
  <2>6. JournalRecords' = [JournalRecords EXCEPT ![r].phase = session'.state]
    <3>1. Seen(r) = [phase |-> Seen(r).phase, tag |-> 0, worker |-> Seen(r).worker]
      BY <1>0, RecordStates, Views DEF Seen
    <3>2. [Seen(r) EXCEPT !.phase = session'.state] = Seen(r)'
      BY <2>2, <3>1
    <3> QED
      BY <1>0, <1>2, <3>2, OneRecord, RecordsAreSeen
  <2>7. Records!Close(r, session'.state)
    BY <1>0, <2>1, <2>4, <2>5, <2>6, RecordsAreSeen DEF Records!Close
  <2> QED
    BY <1>0, <1>3, <2>7 DEF Records!JournalNext, Records!Settled, Ended
<1>4. CASE ~(session'.state \in Ended /\ session.state \in ACTIVE)
  <2>1. Seen(r)' = Seen(r)
    <3>1. session'.state = session.state \/ (session'.state \in ACTIVE /\ session.state \in ACTIVE)
      <4>1. CASE StartLaunchFails
        BY <1>4, <4>1, SteadyMoves DEF StartLaunchFails, StartIsFirst, Targets, ACTIVE
      <4>2. CASE ~StartLaunchFails
        <5>1. Allowed(session'.state)
          BY <4>2 DEF Moves, MovesTo
        <5> QED
          BY <1>4, <5>1, SteadyMoves DEF Allowed, Targets, ACTIVE, Ended
      <4> QED
        BY <4>1, <4>2
    <3>2. session.state \in States /\ session'.state \in States
      BY JournalTyped DEF SessionTypeOK, JournalTypeOK, Session, States
    <3>3. CASE session'.state = session.state
      BY <1>1, <3>3 DEF Seen
    <3>4. CASE session'.state \in ACTIVE /\ session.state \in ACTIVE
      BY <1>1, <3>2, <3>4, Views DEF Seen, View
    <3> QED
      BY <3>1, <3>3, <3>4
  <2>2. \A q \in Runs : Seen(q)' = Seen(q)
    BY <1>2, <2>1
  <2> QED
    BY <2>2, RecordsAreSeen
<1> QED
  BY <1>3, <1>4

\* Where the journal is not written, a worker is launched or exits, or nothing is
\* seen.
LEMMA JournalRests ==
  ASSUME Calm, CalmInv, [Next]_vars, Rests
  PROVE  [Records!JournalNext]_JournalRecords
<1>s. Steady /\ SteadyInv
  BY DEF Calm, CalmInv
<1> USE <1>s DEF CalmInv, SteadyInv, BaseInv
<1>1. CASE StartLaunch
  <2>r. PICK r \in Runs : r = session.run
    BY <1>1, LifecycleAssumption
       DEF StartLaunch, StartOwnsRun, SessionTypeOK, JournalTypeOK, Session, Runs
  <2>1. record[r].state = "preparing" /\ worker[r].phase = "none"
    <3>1. worker[r] = NoWorker
      BY <1>1, <2>r DEF StartLaunch, StartOwnsRun
    <3> QED
      BY <1>1, <2>r, <3>1 DEF StartLaunch, StartIsFirst, NothingIsLost, Runs, NoWorker
  <2>2. record' = record /\ worker' = [worker EXCEPT ![r].phase = "starting"]
    BY <1>1, <2>r DEF StartLaunch, NoSave
  <2>3. worker'[r].phase = "starting" /\ \A q \in Runs \ {r} : worker'[q] = worker[q]
    BY <2>1, <2>2 DEF SessionTypeOK, WorkerTypeOK, Worker
  <2>4. Seen(r) = [phase |-> "open", tag |-> 0, worker |-> "none"]
        /\ Seen(r)' = [phase |-> "open", tag |-> 0, worker |-> "live"]
    BY <2>1, <2>2, <2>3, RecordStates, Views DEF Seen, ACTIVE
  <2>5. [Seen(r) EXCEPT !.worker = "live"] = Seen(r)'
    BY <2>4
  <2>6. \A q \in Runs \ {r} : Seen(q)' = Seen(q)
    BY <2>2, <2>3 DEF Seen
  <2>7. JournalRecords' = [JournalRecords EXCEPT ![r].worker = "live"]
    BY <2>1, <2>5, <2>6, OneRecord, RecordsAreSeen
  <2>8. Records!Launch(r)
    BY <2>1, <2>4, <2>7, RecordsAreSeen DEF Records!Launch
  <2> QED
    BY <2>1, <2>8 DEF Records!JournalNext
<1>2. ASSUME NEW r \in Runs, WorkerGivesUp(r) \/ WorkerExit(r)
      PROVE  [Records!JournalNext]_JournalRecords
  <2>1. Live(r) /\ record' = record
    BY <1>2 DEF WorkerGivesUp, WorkerExit, BridgeUnchanged, Live
  <2>2. PICK exit \in {"gave_up", "ok", "interrupted", "error"} :
          worker' = [worker EXCEPT ![r].phase = "exited", ![r].exit = exit]
    BY <1>2 DEF WorkerGivesUp, WorkerExit
  <2>3. worker'[r].phase = "exited" /\ \A q \in Runs \ {r} : worker'[q] = worker[q]
    BY <2>2 DEF SessionTypeOK, WorkerTypeOK, Worker
  <2>4. /\ Seen(r) = [phase |-> Seen(r).phase, tag |-> 0, worker |-> "live"]
        /\ Seen(r)' = [phase |-> Seen(r).phase, tag |-> 0, worker |-> "gone"]
    <3>1. Seen(r).worker = "live" /\ Seen(r)'.worker = "gone"
      BY <2>1, <2>3, RecordStates, Views DEF Seen, Live
    <3>2. Seen(r)'.phase = Seen(r).phase
      BY <2>1 DEF Seen, View
    <3> QED
      BY <2>1, <3>1, <3>2, RecordStates, Views DEF Seen
  <2>5. [Seen(r) EXCEPT !.worker = "gone"] = Seen(r)'
    BY <2>4
  <2>6. \A q \in Runs \ {r} : Seen(q)' = Seen(q)
    BY <2>1, <2>3 DEF Seen
  <2>7. JournalRecords' = [JournalRecords EXCEPT ![r].worker = "gone"]
    BY <2>5, <2>6, OneRecord, RecordsAreSeen
  <2>8. Records!Exit(r)
    BY <2>4, <2>7, RecordsAreSeen DEF Records!Exit
  <2> QED
    BY <2>8 DEF Records!JournalNext
<1>3. CASE ~StartLaunch /\ \A r \in Runs : ~WorkerGivesUp(r) /\ ~WorkerExit(r)
  <2>1. ASSUME NEW q \in Runs PROVE Seen(q)' = Seen(q)
    <3>1. record'[q] = record[q]
      BY DEF Rests
    <3>2. \/ worker'[q].phase = worker[q].phase
          \/ Live(q) /\ worker'[q].phase \in {"verified", "unverified", "owning"}
      BY <1>3, WorkerSteps DEF WorkerMoves
    <3> QED
      BY <3>1, <3>2 DEF Seen, View, Live
  <2> QED
    BY <2>1, RecordsAreSeen
<1> QED
  BY <1>1, <1>2, <1>3

\* Every step of the bridge is a step of the abstract journal, or none.
LEMMA JournalSimulates ==
  ASSUME Calm, CalmInv, [Next]_vars
  PROVE  [Records!JournalNext]_JournalRecords
<1>s. Steady /\ SteadyInv
  BY DEF Calm, CalmInv
<1> USE <1>s DEF CalmInv, SteadyInv, BaseInv
<1>1. ASSUME Attaches PROVE JournalRecords' = JournalRecords
  <2>r. PICK r \in Runs : r = session.run
    BY <1>1, LifecycleAssumption
       DEF Attaches, StartAttach, StartOwnsRun, SessionTypeOK, JournalTypeOK,
       Session, Runs
  <2>1. session.state = "preparing" /\ worker' = worker
    BY <1>1, CalmAttaches DEF Attaches, StartAttach, StartIsFirst
  <2>2. session'.run = r /\ session'.state = "running"
    BY <1>1, <2>r DEF Attaches
  <2>3. record[r] = session /\ record'[r] = session'
    BY <2>r, <2>2, CalmLosesNothing DEF NothingIsLost, Runs
  <2>4. Seen(r)' = Seen(r)
    BY <2>1, <2>2, <2>3 DEF Seen, View, ACTIVE
  <2>5. \A q \in Runs \ {r} : Seen(q)' = Seen(q)
    BY <2>1, <2>2, RecordSteps DEF Seen
  <2> QED
    BY <2>4, <2>5, RecordsAreSeen
<1> QED
  BY <1>1, JournalBegins, JournalCloses, JournalRests, SteadySteps, JournalSteps

\* The bridge implements the abstract journal that the batch ledger and the
\* dispatcher rely on, for any number of executions and interrupts.
THEOREM BridgeKeepsTheJournal == Calm /\ Spec => ImplementsJournal
<1> SUFFICES ASSUME Calm PROVE Spec => ImplementsJournal
  OBVIOUS
<1>1. Spec => []CalmInv
  BY CalmInit, CalmStep, PTL DEF Spec
<1>2. Init => Records!JournalInit
  BY DEF Init, Records!JournalInit, Records!Absent, JournalRecords, Idle, NoWorker, ACTIVE
<1>3. CalmInv /\ [Next]_vars => [Records!JournalNext]_JournalRecords
  BY JournalSimulates
<1> QED
  BY <1>1, <1>2, <1>3, PTL DEF Spec, ImplementsJournal, Records!JournalSpec

\* A job that is stopping stays so while the worker or its finisher is there.
LEMMA StoppingStays ==
  ASSUME Steady, SteadyInv, [Next]_vars, job.state = "stopping",
         NEW r \in Runs, Live(r) \/ (finish[r] # "none" /\ finish'[r] # "none")
  PROVE  job'.state = "stopping"
<1> USE DEF SteadyInv, BaseInv
<1>0. start = "idle" /\ session.run = r
  BY SteadyRun DEF StartIsFirst
<1>1. ASSUME NEW q \in Runs, NEW kind \in Kinds, StartBegin(q, kind) PROVE FALSE
  BY <1>1 DEF StartBegin, EvaluationActive
<1>2. ASSUME NEW q \in Runs, FinishSettle(q) PROVE FALSE
  <2>1. q = r /\ ~Live(q)
    BY <1>0, <1>2, SteadyRun DEF FinishSettle, WorkerIsHandled
  <2> QED
    BY <1>2, <2>1 DEF FinishSettle, SessionTypeOK, HandlerTypeOK
<1>3. ASSUME StopMark PROVE job' = job \/ job'.state = "stopping"
  BY <1>3 DEF StopMark, SessionTypeOK, HandlerTypeOK, Job
<1> QED
  BY <1>0, <1>1, <1>2, <1>3, SteadySteps, Frame
     DEF StartLaunchFails, StartAttach, StartPublish

\* The stop handler is at the run of the session.
LEMMA StopStaysWithRun ==
  ASSUME Steady, SteadyInv, [Next]_vars, stop # 0 => stop = session.run
  PROVE  stop' # 0 => stop' = session'.run
<1> USE DEF SteadyInv, BaseInv
<1>1. CASE Begins
  BY <1>1, SteadyBegins
<1>2. CASE ~Begins
  <2>1. session'.run = session.run
    BY <1>2, SteadySteps, JournalSteps DEF Rests, Attaches, Moves, MovesTo
  <2>2. ASSUME StopSignal PROVE stop' = session.run
    BY <2>2, SteadyRun DEF StopSignal, Live
  <2>3. StopMark => stop' = 0
    BY DEF StopMark
  <2> QED
    BY <2>1, <2>2, <2>3, SteadySteps, Frame
<1> QED
  BY <1>1, <1>2

\* A stop that was signalled to a live worker is recorded.
LEMMA LiveStopIsMarked ==
  ASSUME Calm, CalmInv, [Next]_vars, StopMark, stop = session.run, Live(stop)
  PROVE  job'.state = "stopping"
<1>s. Steady /\ SteadyInv
  BY DEF Calm, CalmInv
<1> USE <1>s DEF CalmInv, SteadyInv, BaseInv
<1>1. stop \in Runs /\ stop # 0 /\ start = "idle"
  BY DEF Live, StopMark, StartOwnsRun
<1>2. session.state \in {"running", "stopping"}
  BY <1>1 DEF WorkerIsHandled
<1>3. Allowed("stopping")
  BY <1>2 DEF Allowed
<1>4. PICK outcome \in Outcomes :
        /\ To("stopping", outcome)
        /\ outcome # "raised" => job' = [job EXCEPT !.state = "stopping"]
  BY <1>3 DEF StopMark
<1>5. outcome # "raised"
  BY <1>4, ToWrites, CalmWrites DEF MovesTo, States, ACTIVE, SessionTypeOK
<1> QED
  BY <1>4, <1>5 DEF SessionTypeOK, HandlerTypeOK, Job

\* A second interrupt would need a stop handler or a job that has forgotten the
\* first.
LEMMA InterruptStaysKnown ==
  ASSUME Calm, "publish_fails" \notin Environment, CalmInv, InterruptIsKnown, [Next]_vars
  PROVE  InterruptIsKnown'
<1>s. Steady /\ SteadyInv
  BY DEF Calm, CalmInv
<1> USE <1>s DEF CalmInv, SteadyInv, BaseInv
<1>1. stop' # 0 => stop' = session'.run
  BY StopStaysWithRun DEF InterruptIsKnown
<1>2. ASSUME NEW r \in Runs
      PROVE  /\ worker'[r].signals <= 1
             /\ worker'[r].signals > 0 /\ Live(r)' => stop' = r \/ job'.state = "stopping"
  <2>0. worker[r].signals \in Nat /\ worker[r].signals <= 1
    BY DEF InterruptIsKnown, SessionTypeOK, WorkerTypeOK, Worker
  <2>1. CASE StopSignal /\ r = StopTarget
    <3>1. stop = 0 /\ job.state # "stopping" /\ Live(r) /\ stop' = r
      BY <2>1 DEF StopSignal, TaskFree
    <3>2. worker[r].signals = 0
      BY <2>0, <3>1 DEF InterruptIsKnown, Runs
    <3>3. worker'[r].signals <= 1
      <4>1. worker'[r].signals \in {0, worker[r].signals, worker[r].signals + 1}
        BY WorkerSteps DEF WorkerMoves
      <4> QED
        BY <3>2, <4>1
    <3> QED
      BY <3>1, <3>3
  <2>2. CASE ~(StopSignal /\ r = StopTarget)
    <3>1. ~StartPublish \/ worker' = worker
      BY DEF StartPublish
    <3>2. worker'[r].signals = worker[r].signals \/ worker'[r].signals = 0
      BY <2>2, <3>1, CalmAttaches, WorkerSteps DEF WorkerMoves
    <3>3. ASSUME worker'[r].signals > 0, Live(r)' PROVE stop' = r \/ job'.state = "stopping"
      <4>1. worker[r].signals > 0 /\ Live(r)
        <5>1. StartLaunch /\ r = session.run => worker'[r].signals = 0
          <6>1. worker[session.run].signals = 0 /\ start = "launch" => start # "idle"
            OBVIOUS
          <6> QED
            BY <2>0, <3>2 DEF StartLaunch, StartOwnsRun
        <5> QED
          BY <2>0, <3>2, <3>3, <5>1, LiveSteps
      <4>2. CASE job.state = "stopping"
        BY <4>1, <4>2, StoppingStays
      <4>3. CASE stop = r
        <5>1. StopMark => job'.state = "stopping"
          BY <4>1, <4>3, LiveStopIsMarked, SteadyRun
        <5>2. ~StopSignal
          BY <4>3 DEF StopSignal, TaskFree, Runs
        <5> QED
          BY <4>3, <5>1, <5>2, SteadySteps, Frame
      <4> QED
        BY <4>1, <4>2, <4>3 DEF InterruptIsKnown
    <3> QED
      BY <2>0, <3>2, <3>3
  <2> QED
    BY <2>1, <2>2
<1> QED
  BY <1>1, <1>2 DEF InterruptIsKnown

\* An acknowledged stop is in the job until its finisher has looked.
LEMMA StopStaysRemembered ==
  ASSUME Steady, SteadyInv, StopIsRemembered, [Next]_vars
  PROVE  StopIsRemembered'
<1> USE DEF SteadyInv, BaseInv
<1>1. stop' # 0 => stop' = session'.run
  BY StopStaysWithRun DEF StopIsRemembered
<1>2. \/ acked' = acked
      \/ /\ StopMark /\ stop = session.run /\ stop # 0 /\ session'.state = "stopping"
         /\ acked' = acked \cup {stop} /\ job'.state = "stopping"
         /\ record' = [record EXCEPT ![session'.run] = session']
  <2>1. SUFFICES ASSUME StopMark, acked' # acked
                 PROVE  /\ stop = session.run /\ stop # 0 /\ session'.state = "stopping"
                        /\ acked' = acked \cup {stop} /\ job'.state = "stopping"
                        /\ record' = [record EXCEPT ![session'.run] = session']
    BY Frame
  <2>2. PICK outcome \in Outcomes :
          /\ To("stopping", outcome) /\ acked' = acked \cup {stop}
          /\ job' = [job EXCEPT !.state = "stopping"] /\ outcome # "raised"
    BY <2>1 DEF StopMark
  <2>3. session'.state = "stopping" /\ Written(session', outcome)
    BY <2>2, ToWrites DEF MovesTo, States, ACTIVE, SessionTypeOK
  <2>5. record' = [record EXCEPT ![session'.run] = session']
    BY <2>2, <2>3, SteadyWrites
  <2>4. stop = session.run /\ stop # 0
    BY <2>1 DEF StopMark, StopIsRemembered
  <2> QED
    BY <2>2, <2>3, <2>4, <2>5 DEF SessionTypeOK, HandlerTypeOK, Job
<1>3. ASSUME start' # "idle" PROVE session'.run \notin acked'
  <2>1. CASE Begins
    <3>1. acked' = acked /\ kindOf[session'.run] = "none"
      BY <2>1, SteadyBegins DEF Begins, StartBegin
    <3> QED
      BY <3>1 DEF StopIsRemembered
  <2>2. CASE start # "idle"
    <3>1. session'.run = session.run /\ stop = 0
      BY <1>3, <2>2, StartKeepsSession DEF StartOwnsRun
    <3> QED
      BY <1>2, <2>2, <3>1 DEF StopIsRemembered
  <2> QED
    BY <1>3, <2>1, <2>2, StartSteps
<1>4. ASSUME NEW r \in acked'
      PROVE  /\ kindOf'[r] # "none" /\ record'[r].state # "completed"
             /\ finish'[r] # "none" => job'.state = "stopping"
  <2>0. r \in Runs
    BY RestTyped
  <2>1. CASE r \in acked
    <3>1. kindOf'[r] # "none"
      BY <2>0, <2>1, BegunStays DEF StopIsRemembered
    <3>2. record'[r].state # "completed"
      <4>1. SUFFICES ASSUME record'[r] # record[r], record'[r].state = "completed" PROVE FALSE
        BY <2>1 DEF StopIsRemembered
      <4>2. session'.run = r /\ session'.state = "completed" /\ Moves
        BY <2>0, <4>1, RecordSteps DEF Begins, Attaches
      <4>3. PICK q \in Runs : finish[q] # "none" /\ "completed" \in RunOutcomes(q)
        BY <4>2, SteadyMoves
      <4>4. q = r
        BY <4>2, <4>3, SteadyMoves, SteadyRun
      <4>5. job.state = "stopping"
        BY <2>1, <4>3, <4>4 DEF StopIsRemembered
      <4> QED
        BY <4>3, <4>5 DEF RunOutcomes
    <3>3. ASSUME finish'[r] # "none" PROVE job'.state = "stopping"
      <4>1. CASE finish[r] # "none"
        BY <2>0, <2>1, <3>3, <4>1, StoppingStays DEF StopIsRemembered
      <4>2. CASE finish[r] = "none"
        <5>1. (StartAttach \/ StartPublish) /\ r = handle
          BY <2>0, <3>3, <4>2, FinishSteps DEF FinishExited, FinishRestore
        <5> QED
          BY <2>1, <5>1 DEF StartAttach, StartPublish, StartOwnsRun, StopIsRemembered
      <4> QED
        BY <4>1, <4>2
    <3> QED
      BY <3>1, <3>2, <3>3
  <2>2. CASE r \notin acked
    <3>1. StopMark /\ r = session.run /\ session'.state = "stopping" /\ job'.state = "stopping"
      BY <1>2, <2>2
    <3>2. kindOf'[r] # "none"
      BY <2>0, <3>1, BegunStays DEF FreshRunsAreNowhere
    <3>3. session'.run = session.run
      BY <3>1, SteadySteps, JournalSteps
         DEF Rests, Begins, StartBegin, TaskFree, StopMark, Attaches, Moves, MovesTo
    <3>4. record'[r].state = "stopping"
      BY <1>2, <2>0, <2>2, <3>1, <3>3 DEF SessionTypeOK, JournalTypeOK
    <3> QED
      BY <3>1, <3>2, <3>4
  <2> QED
    BY <2>1, <2>2
<1> QED
  BY <1>1, <1>3, <1>4 DEF StopIsRemembered

\* A run whose stop was acknowledged is never recorded as completed (stop_e2e,
\* _finish_e2e).
THEOREM AcknowledgedStopIsKept == Steady /\ Spec => []AcknowledgedStopNeverCompletes
<1> SUFFICES ASSUME Steady PROVE Spec => []AcknowledgedStopNeverCompletes
  OBVIOUS
<1>1. Init => StopIsRemembered
  BY DEF Init, StopIsRemembered
<1>2. StopIsRemembered => AcknowledgedStopNeverCompletes
  BY DEF StopIsRemembered, AcknowledgedStopNeverCompletes
<1> QED
  BY <1>1, <1>2, SteadyInit, SteadyStep, StopStaysRemembered, PTL DEF Spec

\* A stop interrupts once and is kept, unless publishing the worker fails, where
\* _abort_e2e_start interrupts a worker that the page may stop as well.
THEOREM StopsAreHonoured ==
  Calm /\ "publish_fails" \notin Environment /\ Spec => []StopIsHonoured
<1> SUFFICES ASSUME Calm, "publish_fails" \notin Environment PROVE Spec => []StopIsHonoured
  OBVIOUS
<1>1. Init => InterruptIsKnown
  BY DEF Init, InterruptIsKnown, NoWorker
<1>2. InterruptIsKnown => AtMostOneInterrupt
  BY DEF InterruptIsKnown, AtMostOneInterrupt
<1>3. Spec => []AtMostOneInterrupt
  BY <1>1, <1>2, CalmInit, CalmStep, InterruptStaysKnown, PTL DEF Spec
<1>4. Spec => []AcknowledgedStopNeverCompletes
  BY AcknowledgedStopIsKept DEF Calm
<1> QED
  BY <1>3, <1>4, PTL DEF StopIsHonoured
=================================================================================
