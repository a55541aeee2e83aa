---------------------------- MODULE SessionLifecycle ----------------------------
(***************************************************************************)
(* The life of one execution in the bridge (tools/livery_bridge.py over    *)
(* carla_safety_agent/session.py): HTTP handlers start, stop and recover,  *)
(* one finisher thread per spawned worker, the recovery thread of a        *)
(* restarted bridge, and the worker processes themselves, which outlive    *)
(* the bridge.                                                             *)
(*                                                                         *)
(* Runs are numbered in the order begin() issues them; a worker's process  *)
(* identity (pid and start ticks) is the number of its run, 0 is None.     *)
(* The two re-entrant locks are held exactly while the pc of a handler is  *)
(* not idle: the simulation lock by start and recover, the task lock by    *)
(* start and stop.                                                         *)
(***************************************************************************)
EXTENDS Naturals, FiniteSets

CONSTANTS MaxRuns,      \* bound: executions ever begun
          MaxStops,     \* bound: interrupts per worker
          MaxRestarts,   \* bound: bridge restarts
          MaxBadWrites,    \* bound: journal writes that raise OSError
          Kinds,        \* the kinds of task that are started
          Environment   \* what else may go wrong

\* "model" is action run, "textured" a run whose scenario replaces textures,
\* "preset" preset-run, "rule" rule-run, "rig" sensor-rig, "diagnostic"
\* doctor and model-smoke.
WorldKinds == {"model", "textured", "preset", "rule", "rig"}
JournaledKinds == WorldKinds \ {"preset"}
AssessedKinds == WorldKinds \ {"rig"}

ASSUME LifecycleAssumption ==
  /\ {MaxRuns, MaxStops, MaxRestarts, MaxBadWrites} \subseteq Nat
  /\ Kinds \subseteq WorldKinds \cup {"diagnostic"}
  /\ Environment \subseteq {"launch_fails", "publish_fails", "restore_fails",
                            "operator_races"}

VARIABLES
  session,  \* SESSION.state: what the bridge holds in memory
  saved,    \* data/session.json
  record,   \* data/experiments/<run>/execution.json
  job,      \* _e2e_job
  handle,   \* _e2e_process: the worker whose Popen object the bridge holds
  pidfile,  \* the run whose pid the pid file holds
  start,    \* pc of the start handler; its run is session.run
  stop,     \* worker the stop handler has signalled and not yet recorded
  recover,  \* pc of the session/recover handler
  resume,   \* thread of a restarted bridge: pc, and the session it found
  finish,   \* finish[r]: pc of _finish_e2e for r; "_err" carries cleanup_error
  worker,   \* worker[r]: the worker process
  world,    \* what runs have left changed in the CARLA world
  kindOf,   \* kindOf[r]: the kind of task
  acked,    \* history: stop requests answered "stopping"
  dying,    \* the bridge crashed between the two writes of one save
  restarts, badWrites

vars == <<session, saved, record, job, handle, pidfile, start, stop, recover,
          resume, finish, worker, world, kindOf, acked, dying, restarts, badWrites>>

Runs == 1..MaxRuns

ACTIVE == {"preparing", "running", "stopping", "recovering"}
Ended == {"completed", "stopped", "failed"}

Session == [state : {"idle"} \cup ACTIVE \cup Ended, run : 0..MaxRuns, process : 0..MaxRuns]

Idle == [state |-> "idle", run |-> 0, process |-> 0]

Job == [state : {"idle", "running", "stopping", "ended"}, startupError : BOOLEAN]

Worker == [phase   : {"none", "starting", "verified", "unverified", "owning", "exited"},
           exit    : {"none", "ok", "interrupted", "error", "gave_up"},
           entered : BOOLEAN,
           signals : 0..(MaxStops + 1)]

NoWorker == [phase |-> "none", exit |-> "none", entered |-> FALSE, signals |-> 0]

\* poll() is None; a pid file is alive while its worker is.
Live(r) == r \in Runs /\ worker[r].phase \notin {"none", "exited"}

SimFree == start = "idle" /\ recover = "idle"
TaskFree == start = "idle" /\ stop = 0

\* owned_pid: the recorded process, if it still is the one recorded.
OwnedPid == IF Live(session.process) THEN session.process ELSE 0

EvaluationActive ==
  \/ job.state \in {"running", "stopping"}
  \/ session.state \in ACTIVE
  \/ Live(pidfile)

\* Between a torn save and the crash that tore it the bridge does nothing.
Up == ~dying

NotBegun == {r \in Runs : kindOf[r] = "none"}

\* What a run does to the world: synchronous mode, its actors, textures.
Sync(r) == <<"sync", r>>
Actors(r) == <<"actors", r>>
Texture(r) == <<"texture", r>>
Synchronous == \E r \in Runs : Sync(r) \in world
---------------------------------------------------------------------------------
(* SessionJournal *)

Allowed(target) ==
  \/ target = session.state
  \/ target \in CASE session.state = "preparing"  -> {"running", "failed", "recovering"}
                  [] session.state = "running"    -> {"stopping", "recovering", "failed"}
                  [] session.state = "stopping"   -> {"recovering", "failed"}
                  [] session.state = "recovering" -> {"completed", "stopped", "failed"}
                  [] OTHER -> {}

\* _save writes session.json, then the execution record.  It is done; or it
\* raises before either write; or the bridge dies between the two.
Outcomes == {"done", "raised", "torn"}

Save(s, outcome) ==
  /\ session' = s
  /\ CASE outcome = "done"   -> /\ saved' = s
                                /\ record' = [record EXCEPT ![s.run] = s]
                                /\ UNCHANGED <<dying, badWrites>>
       [] outcome = "raised" -> /\ badWrites < MaxBadWrites /\ badWrites' = badWrites + 1
                                /\ UNCHANGED <<saved, record, dying>>
       [] outcome = "torn"   -> /\ restarts < MaxRestarts
                                /\ saved' = s /\ dying' = TRUE
                                /\ UNCHANGED <<record, badWrites>>

To(target, outcome) == Save([session EXCEPT !.state = target], outcome)

NoSave == UNCHANGED <<session, saved, record, dying, badWrites>>

\* restore_editor_world, with recover_owned_resources and the textures: it
\* refuses a session that is not recovering, and a resource journal whose
\* owner is not the session's process or still lives.
ResourcesOk ==
  LET r == session.run IN
  kindOf[r] \in JournaledKinds /\ worker[r].entered
    => session.process = r /\ ~Live(r)

MayRestore == session.state = "recovering" /\ ResourcesOk

\* Mutant of Destroyed: the resource journal is not looked at.
DestroyedNever == world

\* It destroys the actors in the run's resource journal, which a preset's
\* worker does not keep; then the world leaves synchronous mode, whoever
\* brought it there; and the run's textures are taken back.
Destroyed ==
  IF kindOf[session.run] \in JournaledKinds THEN world \ {Actors(session.run)} ELSE world
Asynchronous == {d \in Destroyed : d[1] # "sync"}
Restored == Asynchronous \ {Texture(session.run)}

\* The sensors among the actors that a preset left; observe_idle refuses them.
Littered == \E r \in Runs : kindOf[r] = "preset" /\ Actors(r) \in world

RestoreSucceeds == MayRestore /\ world' = Restored

\* It is refused; or an RPC raises, at any step; or sensors are left.
RestoreFails ==
  \/ ~MayRestore /\ world' = world
  \/ /\ MayRestore /\ "restore_fails" \in Environment
     /\ world' \in {world, Destroyed, Asynchronous, Restored}
  \/ MayRestore /\ Littered /\ world' = Restored
---------------------------------------------------------------------------------
Init ==
  /\ session = Idle /\ saved = Idle
  /\ record = [r \in Runs |-> Idle]
  /\ job = [state |-> "idle", startupError |-> FALSE]
  /\ handle = 0 /\ pidfile = 0
  /\ start = "idle" /\ stop = 0 /\ recover = "idle"
  /\ resume = [pc |-> "idle", run |-> 0, process |-> 0]
  /\ finish = [r \in Runs |-> "none"]
  /\ worker = [r \in Runs |-> NoWorker]
  /\ world = {}
  /\ kindOf = [r \in Runs |-> "none"]
  /\ acked = {}
  /\ dying = FALSE /\ restarts = 0 /\ badWrites = 0
---------------------------------------------------------------------------------
(* start_e2e *)

\* Mutant of StartBegin: an active session does not stop the next start.
BeginBeside(r, kind) ==
  /\ Up /\ SimFree /\ TaskFree
  /\ ~Live(handle)
  /\ kind \in WorldKinds => ~Synchronous
  /\ r \in NotBegun /\ \A q \in NotBegun : r <= q
  /\ kindOf' = [kindOf EXCEPT ![r] = kind]
  /\ \E outcome \in Outcomes :
       /\ Save([state |-> "preparing", run |-> r, process |-> 0], outcome)
       /\ IF outcome = "raised"
          THEN UNCHANGED <<start, job>>
          ELSE /\ start' = "launch"
               /\ job' = [state |-> "running", startupError |-> FALSE]
  /\ UNCHANGED <<handle, pidfile, stop, recover, resume, finish, worker, world,
                 acked, restarts>>

\* The request is admitted and the session begun, under both locks.
StartBegin(r, kind) ==
  /\ Up /\ SimFree /\ TaskFree
  /\ ~EvaluationActive /\ ~Live(handle)
  /\ kind \in WorldKinds => ~Synchronous
  /\ r \in NotBegun /\ \A q \in NotBegun : r <= q
  /\ kindOf' = [kindOf EXCEPT ![r] = kind]
  /\ \E outcome \in Outcomes :
       /\ Save([state |-> "preparing", run |-> r, process |-> 0], outcome)
       /\ IF outcome = "raised"
          THEN UNCHANGED <<start, job>>
          ELSE /\ start' = "launch"
               /\ job' = [state |-> "running", startupError |-> FALSE]
  /\ UNCHANGED <<handle, pidfile, stop, recover, resume, finish, worker, world,
                 acked, restarts>>

\* Textures are applied and the worker is spawned in a session of its own.
StartLaunch ==
  LET r == session.run IN
  /\ Up /\ start = "launch"
  /\ start' = "attach" /\ handle' = r
  /\ worker' = [worker EXCEPT ![r].phase = "starting"]
  /\ world' = IF kindOf[r] = "textured" THEN world \cup {Texture(r)} ELSE world
  /\ NoSave
  /\ UNCHANGED <<job, pidfile, stop, recover, resume, finish, kindOf, acked, restarts>>

\* What a failed launch asks of the journal first, which another may have ended.
FirstTarget == IF kindOf[session.run] = "textured" THEN "recovering" ELSE "failed"

\* Applying or spawning failed.  Textures are taken back first, and if that
\* fails too the session stays recovering.
StartLaunchFails ==
  /\ Up /\ start = "launch" /\ "launch_fails" \in Environment
  /\ start' = "idle"
  /\ job' = [state |-> "ended", startupError |-> TRUE]
  /\ \/ /\ Allowed(FirstTarget)
        /\ \E outcome \in Outcomes : To("failed", outcome)
        /\ UNCHANGED world
     \/ /\ Allowed(FirstTarget) /\ FirstTarget = "recovering"
        /\ \E outcome \in Outcomes :
             /\ "restore_fails" \in Environment \/ outcome = "raised"
             /\ To("recovering", outcome)
        /\ world' = world \cup {Texture(session.run)}
     \/ /\ ~Allowed(FirstTarget) /\ NoSave
        /\ \/ UNCHANGED world
           \/ FirstTarget = "recovering" /\ world' = world \cup {Texture(session.run)}
  /\ UNCHANGED <<handle, pidfile, stop, recover, resume, finish, worker, kindOf,
                 acked, restarts>>

\* _abort_e2e_start: interrupt the child just spawned and wait for its exit.
Abort(r) ==
  /\ start' = "idle"
  /\ job' = [state |-> "running", startupError |-> TRUE]
  /\ worker' = IF Live(r) THEN [worker EXCEPT ![r].signals = @ + 1] ELSE worker
  /\ finish' = [finish EXCEPT ![r] = "wait"]

\* attach: the worker's identity, or None if it is gone already.
StartAttach ==
  /\ Up /\ start = "attach"
  /\ \/ /\ Allowed("running")
        /\ \E outcome \in Outcomes :
             /\ Save([session EXCEPT !.state = "running",
                                     !.process = IF Live(handle) THEN handle ELSE 0],
                     outcome)
             /\ IF outcome = "raised"
                THEN Abort(handle)
                ELSE start' = "publish" /\ UNCHANGED <<job, worker, finish>>
     \/ ~Allowed("running") /\ NoSave /\ Abort(handle)
  /\ UNCHANGED <<handle, pidfile, stop, recover, resume, world, kindOf, acked, restarts>>

\* The recorder is armed and the pid file written; then the finisher waits.
StartPublish ==
  /\ Up /\ start = "publish"
  /\ \/ /\ pidfile' = handle
        /\ start' = "idle" /\ finish' = [finish EXCEPT ![handle] = "wait"]
        /\ UNCHANGED <<job, worker>>
     \/ "publish_fails" \in Environment /\ Abort(handle) /\ UNCHANGED pidfile
  /\ NoSave
  /\ UNCHANGED <<handle, stop, recover, resume, world, kindOf, acked, restarts>>
---------------------------------------------------------------------------------
(* _finish_e2e(process), a thread per worker *)

FinishUnchanged == UNCHANGED <<handle, start, stop, recover, resume, worker, kindOf,
                               acked, restarts>>

\* Mutant of FinishExited: wait() returns before the worker has gone.
FinishEarly(r) ==
  /\ Up /\ finish[r] = "wait" /\ Allowed("recovering")
  /\ \E outcome \in Outcomes :
       /\ To("recovering", outcome)
       /\ finish' = [finish EXCEPT ![r] = IF outcome = "raised" THEN "restore_err"
                                                                ELSE "restore"]
  /\ UNCHANGED <<job, pidfile, world>> /\ FinishUnchanged

\* wait() returned.  A journal that cannot be written must not keep the
\* simulator from being restored; a refused transition ends the thread.
FinishExited(r) ==
  /\ Up /\ finish[r] = "wait" /\ worker[r].phase = "exited"
  /\ \/ /\ handle = r /\ Allowed("recovering")
        /\ \E outcome \in Outcomes :
             /\ To("recovering", outcome)
             /\ finish' = [finish EXCEPT ![r] = IF outcome = "raised" THEN "restore_err"
                                                                      ELSE "restore"]
     \/ /\ handle = r /\ ~Allowed("recovering")
        /\ finish' = [finish EXCEPT ![r] = "none"] /\ NoSave
     \/ /\ handle # r
        /\ finish' = [finish EXCEPT ![r] = "restore"] /\ NoSave
  /\ UNCHANGED <<job, pidfile, world>> /\ FinishUnchanged

\* The world is restored under the simulation lock, the pid file removed.
FinishRestore(r) ==
  /\ Up /\ finish[r] \in {"restore", "restore_err"}
  /\ \/ /\ handle = r /\ kindOf[session.run] \in WorldKinds /\ SimFree
        /\ \/ RestoreSucceeds /\ finish' = [finish EXCEPT ![r] =
                IF @ = "restore" THEN "settle" ELSE "settle_err"]
           \/ RestoreFails /\ finish' = [finish EXCEPT ![r] = "settle_err"]
     \/ /\ handle # r \/ kindOf[session.run] \notin WorldKinds
        /\ finish' = [finish EXCEPT ![r] = IF @ = "restore" THEN "settle" ELSE "settle_err"]
        /\ UNCHANGED world
  /\ pidfile' = IF pidfile = r THEN 0 ELSE pidfile
  /\ NoSave /\ UNCHANGED job /\ FinishUnchanged

\* Mutant of RunOutcomes: the exit status is not looked at.
OutcomesUnchecked(r) ==
  IF job.startupError THEN {"failed"}
  ELSE IF job.state = "stopping" THEN {"stopped"}
  ELSE {"completed"}

\* What the run comes to; the result file of an assessed run that exits
\* normally may still report a failed benchmark.
RunOutcomes(r) ==
  IF job.startupError THEN {"failed"}
  ELSE IF job.state = "stopping" /\ worker[r].exit \in {"ok", "interrupted"} THEN {"stopped"}
  ELSE IF worker[r].exit # "ok" THEN {"failed"}
  ELSE IF kindOf[r] \in AssessedKinds THEN {"completed", "failed"}
  ELSE {"completed"}

\* Mutant of FinishSettle: a failed cleanup does not keep the session open.
SettleAnyway(r) ==
  /\ Up /\ finish[r] \in {"settle", "settle_err"} /\ TaskFree
  /\ finish' = [finish EXCEPT ![r] = "none"]
  /\ \/ handle # r /\ NoSave /\ UNCHANGED job
     \/ /\ handle = r
        /\ job' = [job EXCEPT !.state = "ended"]
        /\ \E target \in RunOutcomes(r) :
             \/ Allowed(target) /\ \E outcome \in Outcomes : To(target, outcome)
             \/ ~Allowed(target) /\ NoSave
  /\ UNCHANGED <<pidfile, world>> /\ FinishUnchanged

\* Under the task lock: the job and, if the state still allows it, the journal.
FinishSettle(r) ==
  /\ Up /\ finish[r] \in {"settle", "settle_err"} /\ TaskFree
  /\ finish' = [finish EXCEPT ![r] = "none"]
  /\ \/ handle # r /\ NoSave /\ UNCHANGED job
     \/ /\ handle = r
        /\ job' = [job EXCEPT !.state = "ended"]
        /\ \E target \in IF finish[r] = "settle_err" THEN {"recovering"} ELSE RunOutcomes(r) :
             \/ Allowed(target) /\ \E outcome \in Outcomes : To(target, outcome)
             \/ ~Allowed(target) /\ NoSave
  /\ UNCHANGED <<pidfile, world>> /\ FinishUnchanged
---------------------------------------------------------------------------------
(* stop_model_run, stop_rule_run, stop_sensor_rig, and the stop_e2e they call *)

StopStates(kind) ==
  CASE kind = "rule" -> ACTIVE
    [] kind = "rig"  -> ACTIVE \cup Ended
    [] OTHER         -> {"running", "stopping"}

\* The worker of the current session, by its handle or by the pid file, and
\* only if it is the process the journal names.
StopTarget == IF Live(handle) THEN handle ELSE pidfile

\* Mutant of StopSignal: a second request interrupts again.
StopSignalAgain ==
  /\ Up /\ TaskFree
  /\ session.run # 0 /\ session.state \in StopStates(kindOf[session.run])
  /\ Live(StopTarget) /\ OwnedPid = StopTarget
  /\ worker[StopTarget].signals < MaxStops
  /\ worker' = [worker EXCEPT ![StopTarget].signals = @ + 1]
  /\ stop' = StopTarget
  /\ NoSave
  /\ UNCHANGED <<job, handle, pidfile, start, recover, resume, finish, world, kindOf,
                 acked, restarts>>

StopSignal ==
  /\ Up /\ TaskFree
  /\ session.run # 0 /\ session.state \in StopStates(kindOf[session.run])
  /\ job.state # "stopping"
  /\ Live(StopTarget) /\ OwnedPid = StopTarget
  /\ worker[StopTarget].signals < MaxStops
  /\ worker' = [worker EXCEPT ![StopTarget].signals = @ + 1]
  /\ stop' = StopTarget
  /\ NoSave
  /\ UNCHANGED <<job, handle, pidfile, start, recover, resume, finish, world, kindOf,
                 acked, restarts>>

\* The transition to stopping; if it is refused or fails, the request does.
StopMark ==
  /\ Up /\ stop # 0
  /\ stop' = 0
  /\ \/ /\ Allowed("stopping")
        /\ \E outcome \in Outcomes :
             /\ To("stopping", outcome)
             /\ IF outcome = "raised"
                THEN UNCHANGED <<job, acked>>
                ELSE job' = [job EXCEPT !.state = "stopping"] /\ acked' = acked \cup {stop}
     \/ ~Allowed("stopping") /\ NoSave /\ UNCHANGED <<job, acked>>
  /\ UNCHANGED <<handle, pidfile, start, recover, resume, finish, worker, world,
                 kindOf, restarts>>
---------------------------------------------------------------------------------
(* recover_session: the operator asks for the world of a recovering session *)

RecoveryPending == resume.pc # "idle" \/ \E r \in Runs : finish[r] # "none"

RecoverRestore ==
  /\ Up /\ SimFree
  /\ OwnedPid = 0 /\ ~Live(handle)
  /\ session.state = "recovering"
  /\ RecoveryPending => "operator_races" \in Environment
  /\ \/ RestoreSucceeds /\ recover' = "close"
     \/ RestoreFails /\ UNCHANGED recover
  /\ NoSave
  /\ UNCHANGED <<job, handle, pidfile, start, stop, resume, finish, worker, kindOf,
                 acked, restarts>>

RecoverClose ==
  /\ Up /\ recover = "close"
  /\ recover' = "idle"
  /\ \/ Allowed("failed") /\ \E outcome \in Outcomes : To("failed", outcome)
     \/ ~Allowed("failed") /\ NoSave
  /\ UNCHANGED <<job, handle, pidfile, start, stop, resume, finish, worker, world,
                 kindOf, acked, restarts>>
---------------------------------------------------------------------------------
(* resume_session: the thread a restarted bridge starts with *)

ResumeUnchanged == UNCHANGED <<handle, start, stop, recover, finish, worker, kindOf,
                               acked, restarts>>

\* The recorded worker is gone: reconcile, and forget its pid file.
ResumeOwner ==
  /\ Up /\ resume.pc = "wait" /\ OwnedPid = 0
  /\ \/ /\ session.state \in ACTIVE
        /\ \E outcome \in Outcomes :
             /\ To("recovering", outcome)
             /\ IF outcome = "raised"
                THEN resume' = [resume EXCEPT !.pc = "idle"] /\ UNCHANGED pidfile
                ELSE /\ resume' = [resume EXCEPT !.pc = "restore"]
                     /\ pidfile' = IF pidfile = resume.process THEN 0 ELSE pidfile
     \/ /\ session.state \notin ACTIVE /\ NoSave
        /\ resume' = [resume EXCEPT !.pc = "restore"]
        /\ pidfile' = IF pidfile = resume.process THEN 0 ELSE pidfile
  /\ UNCHANGED <<job, world>> /\ ResumeUnchanged

ResumeRestore ==
  /\ Up /\ resume.pc = "restore"
  /\ IF kindOf[resume.run] \in WorldKinds
     THEN /\ SimFree
          /\ \/ RestoreSucceeds /\ resume' = [resume EXCEPT !.pc = "close"]
             \/ RestoreFails /\ resume' = [resume EXCEPT !.pc = "keep"]
     ELSE resume' = [resume EXCEPT !.pc = "close"] /\ UNCHANGED world
  /\ NoSave /\ UNCHANGED <<job, pidfile>> /\ ResumeUnchanged

\* The session ends failed; whatever that raises, it is kept recovering.
ResumeClose ==
  /\ Up /\ resume.pc = "close"
  /\ \/ /\ Allowed("failed")
        /\ \E outcome \in Outcomes :
             /\ To("failed", outcome)
             /\ resume' = [resume EXCEPT !.pc = IF outcome = "raised" THEN "keep" ELSE "job"]
     \/ ~Allowed("failed") /\ NoSave /\ resume' = [resume EXCEPT !.pc = "keep"]
  /\ UNCHANGED <<job, pidfile, world>> /\ ResumeUnchanged

\* Raising once more ends the thread.
ResumeKeep ==
  /\ Up /\ resume.pc = "keep"
  /\ \/ /\ Allowed("recovering")
        /\ \E outcome \in Outcomes :
             /\ To("recovering", outcome)
             /\ resume' = [resume EXCEPT !.pc = IF outcome = "raised" THEN "idle" ELSE "job"]
     \/ ~Allowed("recovering") /\ NoSave /\ resume' = [resume EXCEPT !.pc = "idle"]
  /\ UNCHANGED <<job, pidfile, world>> /\ ResumeUnchanged

ResumeJob ==
  /\ Up /\ resume.pc = "job" /\ TaskFree
  /\ resume' = [resume EXCEPT !.pc = "idle"]
  /\ job' = [job EXCEPT !.state = "ended"]
  /\ NoSave /\ UNCHANGED <<pidfile, world>> /\ ResumeUnchanged
---------------------------------------------------------------------------------
(* The worker processes; they read session.json, and outlive the bridge. *)

Verified(r) == saved.run = r /\ saved.process = r

BridgeUnchanged == UNCHANGED <<session, saved, record, job, handle, pidfile, start, stop,
                               recover, resume, finish, kindOf, acked, dying, restarts,
                               badWrites>>

\* run_sensor_rig reads the session again at every poll, run_rule_scenario
\* only once, before its first; the model workers do not look at it.
WorkerVerify(r) ==
  /\ worker[r].phase = "starting"
  /\ \/ /\ kindOf[r] \notin {"rule", "rig"} \/ Verified(r)
        /\ worker' = [worker EXCEPT ![r].phase = "verified"]
     \/ /\ kindOf[r] = "rule" /\ ~Verified(r)
        /\ worker' = [worker EXCEPT ![r].phase = "unverified"]
  /\ UNCHANGED world /\ BridgeUnchanged

\* The worker takes the world, which must not be another's, and journals
\* that it did.  A map that it loads first is without anybody's actors.
WorkerEnter(r) ==
  /\ worker[r].phase = "verified" /\ kindOf[r] \in WorldKinds
  /\ ~Synchronous
  /\ worker' = [worker EXCEPT ![r].phase = "owning", ![r].entered = TRUE]
  /\ \E found \in {world, {d \in world : d[1] # "actors"}} :
       /\ kindOf[r] \in {"rig", "textured"} => found = world
       /\ world' = found \cup {Sync(r), Actors(r)}
  /\ BridgeUnchanged

\* After ten seconds of polling without finding its session it raises.
WorkerGivesUp(r) ==
  /\ \/ worker[r].phase = "unverified"
     \/ worker[r].phase = "starting" /\ kindOf[r] = "rig" /\ ~Verified(r)
  /\ worker' = [worker EXCEPT ![r].phase = "exited", ![r].exit = "gave_up"]
  /\ UNCHANGED world /\ BridgeUnchanged

\* A worker that ends in order gives the world back; one that fails or is
\* interrupted may have been cut short before or after any part of that.
WorkerExit(r) ==
  /\ Live(r)
  /\ \E exit \in {"ok", "interrupted", "error"} :
       /\ exit = "ok" => IF kindOf[r] \in WorldKinds THEN worker[r].entered
                                                     ELSE worker[r].phase = "verified"
       /\ exit = "interrupted" => worker[r].signals > 0
       /\ worker' = [worker EXCEPT ![r].phase = "exited", ![r].exit = exit]
       /\ \E gone \in SUBSET {Sync(r), Actors(r)} :
            /\ exit = "ok" => gone = {Sync(r), Actors(r)}
            /\ world' = world \ gone
  /\ BridgeUnchanged

WorkerStep(r) ==
  WorkerVerify(r) \/ WorkerEnter(r) \/ WorkerGivesUp(r) \/ WorkerExit(r)
---------------------------------------------------------------------------------
\* Mutant of RestartBridge: only a running session is taken up again.
RestartRunningOnly ==
  /\ restarts < MaxRestarts /\ restarts' = restarts + 1
  /\ session' = saved
  /\ job' = [state |-> "idle", startupError |-> FALSE]
  /\ handle' = 0
  /\ start' = "idle" /\ stop' = 0 /\ recover' = "idle"
  /\ finish' = [r \in Runs |-> "none"]
  /\ resume' = [pc |-> IF saved.state = "running" THEN "wait" ELSE "idle",
                run |-> saved.run, process |-> saved.process]
  /\ dying' = FALSE
  /\ UNCHANGED <<saved, record, pidfile, worker, world, kindOf, acked, badWrites>>

\* Mutant of RestartBridge: session.json is not read, the new session is idle.
RestartForgetting ==
  /\ restarts < MaxRestarts /\ restarts' = restarts + 1
  /\ session' = Idle
  /\ job' = [state |-> "idle", startupError |-> FALSE]
  /\ handle' = 0 /\ dying' = FALSE
  /\ start' = "idle" /\ stop' = 0 /\ recover' = "idle"
  /\ finish' = [r \in Runs |-> "none"]
  /\ resume' = [pc |-> "idle", run |-> 0, process |-> 0]
  /\ UNCHANGED <<saved, record, pidfile, worker, world, kindOf, acked, badWrites>>

\* The bridge dies with its threads and handlers, and is started again.
RestartBridge ==
  /\ restarts < MaxRestarts /\ restarts' = restarts + 1
  /\ session' = saved
  /\ job' = [state |-> "idle", startupError |-> FALSE]
  /\ handle' = 0
  /\ start' = "idle" /\ stop' = 0 /\ recover' = "idle"
  /\ finish' = [r \in Runs |-> "none"]
  /\ resume' = [pc |-> IF saved.state \in ACTIVE THEN "wait" ELSE "idle",
                run |-> saved.run, process |-> saved.process]
  /\ dying' = FALSE
  /\ UNCHANGED <<saved, record, pidfile, worker, world, kindOf, acked, badWrites>>

StartContinue == StartLaunch \/ StartLaunchFails \/ StartAttach \/ StartPublish

StartStep ==
  \/ \E r \in Runs, kind \in Kinds : StartBegin(r, kind)
  \/ StartContinue

FinishStep(r) == FinishExited(r) \/ FinishRestore(r) \/ FinishSettle(r)

ResumeStep ==
  ResumeOwner \/ ResumeRestore \/ ResumeClose \/ ResumeKeep \/ ResumeJob

BridgeStep ==
  \/ StartStep
  \/ \E r \in Runs : FinishStep(r)
  \/ StopSignal \/ StopMark
  \/ RecoverRestore \/ RecoverClose
  \/ ResumeStep

Next ==
  \/ BridgeStep
  \/ \E r \in Runs : WorkerStep(r)
  \/ RestartBridge

Spec == Init /\ [][Next]_vars

\* Threads that hold no lock forever and wait only for each other's are
\* scheduled; workers, requests and restarts owe nothing.
Fairness ==
  /\ WF_vars(StartContinue)
  /\ WF_vars(StopMark)
  /\ WF_vars(RecoverClose)
  /\ WF_vars(ResumeStep)
  /\ \A r \in Runs : WF_vars(FinishStep(r))
  /\ WF_vars(dying /\ RestartBridge)

FairSpec == Spec /\ Fairness
---------------------------------------------------------------------------------
(* Properties *)

\* The type of the journal, in memory and on disk,
JournalTypeOK ==
  /\ session \in Session /\ saved \in Session
  /\ record \in [Runs -> Session]
  /\ dying \in BOOLEAN /\ badWrites \in 0..MaxBadWrites

\* of the bridge's job, its handlers and its threads,
HandlerTypeOK ==
  /\ job \in Job
  /\ {handle, pidfile, stop} \subseteq 0..MaxRuns
  /\ start \in {"idle", "launch", "attach", "publish"}
  /\ recover \in {"idle", "close"}
  /\ resume \in [pc : {"idle", "wait", "restore", "close", "keep", "job"},
                run : 0..MaxRuns, process : 0..MaxRuns]
  /\ finish \in [Runs -> {"none", "wait", "restore", "restore_err", "settle", "settle_err"}]

\* of the workers and of what they leave,
WorkerTypeOK ==
  /\ worker \in [Runs -> Worker]
  /\ world \subseteq {"sync", "actors", "texture"} \X Runs
  /\ kindOf \in [Runs -> Kinds \cup {"none"}]
  /\ acked \subseteq Runs
  /\ restarts \in 0..MaxRestarts

\* and of them all.
SessionTypeOK == JournalTypeOK /\ HandlerTypeOK /\ WorkerTypeOK

\* The actors of a preset whose worker did not end in order: no journal lists
\* them (owned_resources.py:149-150), so nothing in the studio destroys them.
LeftBehind ==
  {Actors(r) : r \in {q \in Runs : /\ kindOf[q] = "preset"
                                  /\ worker[q].phase = "exited" /\ worker[q].exit # "ok"}}

\* The editor gets the world back as the run found it: when no session is
\* active nothing of any run is left in it, neither synchronous mode nor actors
\* nor textures, whichever thread recovered it and however it was interleaved
\* with stop, recover and the next start; but for what a preset left behind.
CleanWorldWhenIdle == session.state \notin ACTIVE => world \subseteq LeftBehind

\* The world is never taken out of synchronous mode under a worker that owns
\* it: only the worker itself, in exiting, or a recovery after its exit does.
RestoreOnlyAfterExit ==
  [][\A r \in Runs : Sync(r) \in world \ world' => ~Live(r)']_vars

\* A worker has its world until it has gone, and its run is not declared ended
\* before.
WorkerKeepsWorld ==
  /\ [](\A r \in Runs : record[r].state \in Ended => ~Live(r))
  /\ RestoreOnlyAfterExit

\* The world is a run's until its worker has gone, and the editor's after, clean
\* but for what a preset left behind.
WorldIsLentAndReturned == []CleanWorldWhenIdle /\ WorkerKeepsWorld

\* The same through bridge restarts, for every worker whose identity reached
\* the execution record before the crash.
RecordedWorkerKeepsWorld ==
  [][\A r \in Runs :
       Sync(r) \in world \ world' /\ record[r].process = r => ~Live(r)']_vars

\* Stop requests are idempotent: a worker is interrupted at most once, so its
\* clean-up is not interrupted.
AtMostOneInterrupt == \A r \in Runs : worker[r].signals <= 1

\* A run whose stop was acknowledged is never recorded as completed.
AcknowledgedStopNeverCompletes ==
  \A r \in acked : record[r].state # "completed"

\* A stop interrupts once, and what it acknowledged it keeps.
StopIsHonoured == AtMostOneInterrupt /\ AcknowledgedStopNeverCompletes

\* A run recorded as completed had a worker that ended in order and gave the
\* world back, whatever crash or failed write came between.
CompletedRunEndedInOrder ==
  \A r \in Runs : record[r].state = "completed" =>
    worker[r].exit = "ok" /\ {Sync(r), Actors(r)} \cap world = {}

\* An active session whose beginning was recorded is never abandoned: a
\* handler or thread is at work on it, or it is recovering, where the operator
\* can recover it.
ActiveSessionIsHeld ==
  session.state \in ACTIVE /\ record[session.run].state # "idle" =>
    \/ start # "idle" \/ finish[session.run] # "none" \/ resume.pc # "idle"
    \/ session.state = "recovering" \/ dying

\* A live worker whose identity was recorded belongs to the current session,
\* and that session is active: no second run can be started beside it.
RecordedWorkerIsHeld ==
  \A r \in Runs : Live(r) /\ record[r].process = r =>
    session.run = r /\ session.state \in ACTIVE

\* No run whose beginning was recorded is lost or embellished, and no recorded
\* worker is left beside the session or loses its world, whatever is crashed.
RecordedRunIsTrue ==
  /\ [](SessionTypeOK /\ ActiveSessionIsHeld /\ CompletedRunEndedInOrder
        /\ RecordedWorkerIsHeld)
  /\ RecordedWorkerKeepsWorld

\* Once the worker of a session has exited, the session ends, unless its
\* recovery failed and it waits for the operator.
ExitedRunSettles ==
  \A r \in Runs :
    session.run = r /\ session.state \in ACTIVE /\ worker[r].phase = "exited"
      ~> \/ session.run # r \/ session.state \notin ACTIVE
         \/ session.state = "recovering" /\ ~RecoveryPending
---------------------------------------------------------------------------------
(* Claims of the repository that the code does not keep; see the findings. *)

\* The world is handed back as the run found it, whatever the run was.  Not a
\* preset's, whose actors docs/OWNED_RESOURCE_RECOVERY.md:9 knows to be in no list.
WorldIsEmptyWhenIdle == session.state \notin ACTIVE => world = {}

\* A run the user stopped, whose worker went down by that interrupt, is
\* recorded as stopped (docs/e2e-crash-regression-20260907.md).
StoppedRunIsMarkedStopped ==
  \A r \in Runs :
    record[r].state \in Ended /\ worker[r].exit = "interrupted"
      => record[r].state = "stopped"

\* A worker that gives up because no verified studio session owns it is not
\* owned by one (tools/run_rule_scenario.py).
OwnedWorkerNeverGivesUp ==
  [][\A r \in Runs :
       worker'[r].exit = "gave_up" /\ worker[r].exit = "none"
         => ~(Verified(r) /\ saved.state = "running")]_vars
---------------------------------------------------------------------------------
\* What a reader of the execution records sees implements ExecutionJournal.
JournalRecords ==
  [r \in Runs |->
     [phase  |-> CASE record[r].state = "idle" -> "absent"
                   [] record[r].state \in ACTIVE -> "open"
                   [] OTHER -> record[r].state,
      tag    |-> 0,
      worker |-> CASE worker[r].phase = "none" -> "none"
                   [] worker[r].phase = "exited" -> "gone"
                   [] OTHER -> "live"]]

Records == INSTANCE ExecutionJournal WITH Tags <- {}, NoTag <- 0, records <- JournalRecords

\* The bridge keeps the promises of the abstract journal.
ImplementsJournal == Records!JournalSpec
------
\* What the rest of the bridge sees of it implements SessionGate: to edits and
\* the map handoff an execution is one bit, in memory and in session.json.
GateVars == <<session.state \in ACTIVE, saved.state \in ACTIVE, badWrites = 0>>

Gate == INSTANCE SessionGate WITH running <- session.state \in ACTIVE,
          recorded <- saved.state \in ACTIVE, written <- badWrites = 0

ImplementsGate == Gate!GateSpec
---------------------------------------------------------------------------
(* The invariants the proofs of the properties need *)

\* A run that has not begun is nowhere.
FreshRunsAreNowhere ==
  \A r \in Runs : kindOf[r] = "none" =>
    /\ record[r] = Idle /\ worker[r] = NoWorker /\ finish[r] = "none"
    /\ {Sync(r), Actors(r)} \cap world = {}
    /\ session.run # r /\ saved.run # r /\ handle # r

\* One execution has one identity, wherever it is written.
IdentitiesAgree ==
  /\ \A s \in {session, saved} :
       /\ s.run = 0 <=> s.state = "idle"
       /\ s.process \in {0, s.run}
       /\ s.process # 0 => worker[s.process].phase # "none"
  /\ \A r \in Runs :
       /\ record[r].process = r => worker[r].phase # "none"
       /\ record[r].process \in {0, r}
       /\ record[r].process = r /\ session.run = r => session.process = r
       /\ record[r].process = r /\ saved.run = r => saved.process = r

\* What is in session.json is the session, or an earlier state of it, or the
\* one before a session whose beginning could not be written.
SavedIsBehind ==
  /\ saved.run = session.run /\ saved.state \in Ended => session.state = saved.state
  /\ saved.run # session.run => session.run # 0 /\ worker[session.run].phase = "none"

\* The start handler has its run to itself.
StartOwnsRun ==
  /\ start # "idle" => /\ stop = 0 /\ recover = "idle"
                       /\ session.run # 0 /\ saved.run = session.run
                       /\ worker[session.run].signals = 0
  /\ start = "launch" => worker[session.run] = NoWorker
  /\ start \in {"launch", "attach"} => session.process = 0
  /\ start \in {"attach", "publish"} =>
       handle = session.run /\ worker[session.run].phase # "none"
  /\ recover = "close" => start = "idle"

\* A worker that ended in order, or never began, has nothing in the world.
OrderlyExitLeavesNothing ==
  \A r \in Runs :
    /\ worker[r].exit # "none" => worker[r].phase = "exited"
    /\ worker[r].exit = "ok" \/ worker[r].phase = "none" =>
         {Sync(r), Actors(r)} \cap world = {}

\* What holds whatever crashes, fails or races.
BaseInv ==
  /\ SessionTypeOK /\ FreshRunsAreNowhere /\ IdentitiesAgree
  /\ StartOwnsRun /\ OrderlyExitLeavesNothing

---------------------------------------------------------------------------
\* No worker is waited for or cleaned up after.
NoFinisher == \A r \in Runs : finish[r] = "none"

\* Whoever starts, finishes, resumes or recovers a session is alone with it.  The
\* start handler has an active session nobody recovers;
StartIsAlone ==
  start # "idle" =>
    /\ NoFinisher /\ resume.pc \notin {"wait", "restore", "close"}
    /\ session.state \in ACTIVE
    /\ record[session.run].state # "idle" \/ dying

\* A finisher has the session of its worker, which is recovering once the worker
\* has gone;
FinisherIsAlone ==
  \A r \in Runs : finish[r] # "none" =>
    /\ handle = r /\ session.run = r /\ session.state \in ACTIVE /\ worker[r].phase # "none"
    /\ finish[r] # "wait" => worker[r].phase = "exited" /\ session.state = "recovering"

\* the recover handler, having restored the world, still has what it restored;
RecoverIsAlone ==
  recover = "close" =>
    /\ NoFinisher /\ resume.pc = "idle"
    /\ session.state = "recovering" /\ ~Live(session.process)

\* and the thread of a restarted bridge has the session it found, until it
\* closes it.
ResumeIsAlone ==
  /\ resume.pc \in {"wait", "restore", "close"} =>
       NoFinisher /\ recover = "idle" /\ session.state \in ACTIVE
  /\ resume.pc \in {"restore", "close"} =>
       session.state = "recovering" /\ ~Live(session.process)

\* ActiveSessionIsHeld, with who holds it before the world is recovered.
SessionIsHeld ==
  /\ session.state \in ACTIVE /\ record[session.run].state # "idle" =>
       \/ start # "idle" \/ finish[session.run] # "none" \/ resume.pc = "wait"
       \/ session.state = "recovering" \/ dying
  /\ \A s \in {session, saved} :
       s.state \in {"running", "stopping"} => record[s.run].state # "idle"

\* The worker a session names has gone before the session has ended.
EndedIsOver ==
  \A s \in {session, saved} : s.state \in Ended => ~Live(s.process)

\* What a recovery relies on, when no operator recovers beside the bridge.
RecoveryInv ==
  /\ BaseInv /\ SavedIsBehind
  /\ StartIsAlone /\ FinisherIsAlone /\ RecoverIsAlone /\ ResumeIsAlone
  /\ SessionIsHeld /\ EndedIsOver /\ RecordedWorkerIsHeld /\ CompletedRunEndedInOrder

---------------------------------------------------------------------------
\* Without a crash nobody resumes a session;
NothingIsResumed == ~dying /\ resume.pc = "idle"

\* every run but the last has gone;
PastHasGone == \A r \in Runs : r # session.run => ~Live(r) /\ finish[r] = "none"

\* the start handler comes before the finisher;
StartIsFirst ==
  /\ start # "idle" =>
       /\ NoFinisher /\ job.state = "running"
       /\ session.state = IF start = "publish" THEN "running" ELSE "preparing"
  /\ start = "launch" => world \subseteq LeftBehind

\* a live worker has the start handler or its finisher, whose job is open until
\* it has settled;
WorkerIsHandled ==
  /\ \A r \in Runs : Live(r) =>
       /\ handle = r
       /\ start \in {"attach", "publish"} \/ finish[r] = "wait"
  /\ \A r \in Runs : finish[r] # "none" =>
       /\ handle = r /\ worker[r].phase # "none" /\ job.state \in {"running", "stopping"}
       /\ finish[r] = "wait" => session.state \in {"running", "stopping"}
       /\ finish[r] # "wait" => ~Live(r) /\ session.state \in {"recovering"} \cup Ended
  /\ recover = "close" => ~Live(session.run) /\ session.state \in {"recovering"} \cup Ended

\* the world holds only what the run of the session has left in it, and what
\* presets left behind;
WorldIsTheRuns ==
  /\ \A d \in world \ LeftBehind : d[2] = session.run /\ kindOf[session.run] \in WorldKinds
  /\ CleanWorldWhenIdle
  /\ (\E r \in Runs : finish[r] = "settle") \/ recover = "close" => world \subseteq LeftBehind

\* and a record says no sooner than the session that its run has ended.
RecordEndsLast ==
  \A r \in Runs : r = session.run /\ record[r].state \in Ended => session.state \in Ended

\* What holds of a bridge that does not crash, whatever it fails to write.
SteadyInv ==
  /\ BaseInv /\ NothingIsResumed /\ PastHasGone /\ StartIsFirst
  /\ WorkerIsHandled /\ WorldIsTheRuns /\ RecordEndsLast

\* If it does not fail to write either, what is known is what is written,
NothingIsLost ==
  /\ saved = session
  /\ session.run # 0 => record[session.run] = session

\* and every run but the last is recorded as ended.
PastIsOver ==
  \A r \in Runs : r # session.run => record[r].state \in {"idle"} \cup Ended

\* What holds of a bridge that neither crashes nor fails to write.
CalmInv == SteadyInv /\ NothingIsLost /\ PastIsOver

\* An interrupted worker is the one the stop handler is at, or the job says so.
InterruptIsKnown ==
  /\ stop # 0 => stop = session.run
  /\ \A r \in Runs :
       /\ worker[r].signals <= 1
       /\ worker[r].signals > 0 /\ Live(r) => stop = r \/ job.state = "stopping"

\* The finisher of a run whose stop was acknowledged will find it in the job.
StopIsRemembered ==
  /\ stop # 0 => stop = session.run
  /\ start # "idle" => session.run \notin acked
  /\ \A r \in acked :
       /\ kindOf[r] # "none" /\ record[r].state # "completed"
       /\ finish[r] # "none" => job.state = "stopping"
=================================================================================
