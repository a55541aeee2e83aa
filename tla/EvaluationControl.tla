--------------------------- MODULE EvaluationControl ---------------------------
(***************************************************************************)
(* Edits of a world that a worker owns (evaluation_control): the bridge    *)
(* puts a command in a directory and waits for its result with the         *)
(* simulation lock held (evaluation_command), the worker takes commands    *)
(* between two frames.  A rule worker keeps an audit of them, from which   *)
(* the events of its recordings are made (editor_events).                  *)
(***************************************************************************)
EXTENDS OwnedWorld

CONSTANT MaxRequests    \* commands in a run of the checker

ASSUME ControlAssumption == MaxRequests \in Nat

VARIABLES
    request,    \* the command the bridge waits for
    answers,    \* what became of each, for its caller
    files,      \* the directory "commands"
    results,    \* the directory "results"
    audit,      \* the audit of the current run
    doing,      \* the command the worker is at, and how far
    snapshot,   \* is there a state.json that looks fresh
    effects     \* what each command did: the run, and how many times

controlVars == <<request, answers, files, results, audit, doing, snapshot, effects>>
vars == <<ownedVars, controlVars>>

NoRequest == 0
Requests == 1 .. MaxRequests
Nothing == [id |-> 0, at |-> "idle", ok |-> FALSE]
Unanswered == [run |-> 0, answer |-> "none"]
NoEffect == [run |-> 0, times |-> 0]

ControlInit ==
    /\ OwnedInit
    /\ request = NoRequest /\ answers = [q \in Requests |-> Unanswered]
    /\ files = {} /\ results = [q \in Requests |-> "none"]
    /\ audit = [q \in Requests |-> "none"]
    /\ doing = Nothing /\ snapshot = FALSE
    /\ effects = [q \in Requests |-> NoEffect]

Audited == worker.kind = "rule"
LockFree == request = NoRequest

(* Mutant of Cleared: what an earlier run left is still there.             *)
ClearedNothing == UNCHANGED <<files, results>>

(* start_e2e empties both directories.                                     *)
Cleared == files' = {} /\ results' = [q \in Requests |-> "none"]

(* A new run: a directory for its audit of its own, no state.json.         *)
StartRun ==
    /\ StartWorker /\ LockFree /\ Cleared
    /\ audit' = [q \in Requests |-> "none"] /\ snapshot' = FALSE
    /\ UNCHANGED <<request, answers, doing, effects>>

(* The worker goes its way.  A signal interrupts a native worker within a  *)
(* command, the others end their loop after it; an audited command that is *)
(* withdrawn between the listing and the audit ends the worker as well.    *)
RunWorker ==
    /\ \/ WorkerStep /\ (doing = Nothing \/ worker.kind = "native")
       \/ KillWorker
    /\ doing' = IF worker'.pc = 0 THEN Nothing ELSE doing
    /\ UNCHANGED <<request, answers, files, results, audit, snapshot, effects>>

(* on_frame writes state.json every 0.35 s; it is fresh for 3 s.           *)
WriteSnapshot ==
    /\ At("loop") /\ ~snapshot /\ snapshot' = TRUE
    /\ UNCHANGED <<ownedVars, request, answers, files, results, audit, doing, effects>>
SnapshotAges ==
    /\ ~At("loop") /\ snapshot /\ snapshot' = FALSE
    /\ UNCHANGED <<ownedVars, request, answers, files, results, audit, doing, effects>>

(* Recovery wants the simulation lock, except for the change of state.     *)
RecoverWorld ==
    /\ BeginRecovery \/ (LockFree /\ RecoveryStep)
    /\ UNCHANGED controlVars

OthersAct == (RestartSimulator \/ OutsideActs \/ OutsideLeaves) /\ UNCHANGED controlVars

-----------------------------------------------------------------------------
(* evaluation_command: an execution is active and its state.json is fresh. *)
PostCommand ==
    /\ LockFree /\ session.state # "settled" /\ snapshot
    /\ \E q \in Requests :
          /\ answers[q] = Unanswered /\ \A p \in 1 .. q - 1 : answers[p] # Unanswered
          /\ request' = q /\ files' = files \cup {q}
          /\ answers' = [answers EXCEPT ![q] = [run |-> session.run, answer |-> "waiting"]]
    /\ UNCHANGED <<ownedVars, results, audit, doing, snapshot, effects>>

Answered(answer) ==
    /\ answers' = [answers EXCEPT ![request].answer = answer] /\ request' = NoRequest

TakeResult ==
    /\ request # NoRequest /\ results[request] # "none"
    /\ Answered(results[request]) /\ results' = [results EXCEPT ![request] = "none"]
    /\ UNCHANGED <<ownedVars, files, audit, doing, snapshot, effects>>

(* After 30 s the command is withdrawn, whatever the worker is doing.      *)
GiveUp ==
    /\ request # NoRequest /\ Answered("timeout") /\ files' = files \ {request}
    /\ UNCHANGED <<ownedVars, results, audit, doing, snapshot, effects>>

CrashBridge ==
    /\ request # NoRequest /\ Answered("lost")
    /\ UNCHANGED <<ownedVars, files, results, audit, doing, snapshot, effects>>

-----------------------------------------------------------------------------
(* The worker's loop ends with an exception: of the audit, or of a result  *)
(* that cannot be written.                                                 *)
Fail == Raise(worker.handles) /\ doing' = Nothing
FaultHere == Mishap /\ Fail

(* A command is taken up.  With an audit, an earlier attempt at it refuses *)
(* to go on, and the intent comes before the deed.                         *)
Intend ==
    /\ At("loop") /\ doing = Nothing
    /\ \E q \in files :
          \/ /\ ~Audited /\ doing' = [Nothing EXCEPT !.id = q, !.at = "intended"]
             /\ UNCHANGED <<worker, listener, audit, mishaps>>
          \/ /\ Audited /\ audit[q] # "none" /\ Fail /\ UNCHANGED <<audit, mishaps>>
          \/ /\ Audited /\ audit[q] = "none"
             /\ \/ /\ doing' = [Nothing EXCEPT !.id = q, !.at = "intended"]
                   /\ audit' = [audit EXCEPT ![q] = "attempting"]
                   /\ UNCHANGED <<worker, listener, mishaps>>
                \/ FaultHere /\ UNCHANGED audit
    /\ UNCHANGED <<world, journal, session, request, answers, files, results,
                   snapshot, effects>>

Perform(q, ok, done) ==
    /\ doing' = [doing EXCEPT !.at = "performed", !.ok = ok]
    /\ effects' = IF done THEN [effects EXCEPT ![q] = [run |-> session.run, times |-> @.times + 1]]
                  ELSE effects

(* _execute: done; refused; or, as when the provenance of a new actor      *)
(* cannot be recorded, done and answered with an error.  A command may     *)
(* leave an actor in the world.                                            *)
Execute ==
    /\ doing.at = "intended"
    /\ \/ /\ doing.id \in files /\ Connected
          /\ \E ok \in BOOLEAN : Perform(doing.id, ok, TRUE)
          /\ \/ UNCHANGED world
             \/ world' = [world EXCEPT !.actors = @ \cup {Actor(world.next, FALSE, "user")},
                                       !.next = @ + 1]
       \/ Perform(doing.id, FALSE, FALSE) /\ UNCHANGED world
    /\ UNCHANGED <<listener, worker, journal, session, mishaps,
                   request, answers, files, results, audit, snapshot>>

(* The outcome, in the audit.                                              *)
Record ==
    /\ doing.at = "performed"
    /\ \/ /\ doing' = [doing EXCEPT !.at = "recorded"]
          /\ audit' = IF Audited THEN [audit EXCEPT ![doing.id] = IF doing.ok THEN "ok" ELSE "error"]
                      ELSE audit
          /\ UNCHANGED <<worker, listener, mishaps>>
       \/ Audited /\ FaultHere /\ UNCHANGED audit
    /\ UNCHANGED <<world, journal, session, request, answers, files, results,
                   snapshot, effects>>

(* The result, then the command is removed.                                *)
Respond ==
    /\ doing.at = "recorded"
    /\ \/ /\ doing' = [doing EXCEPT !.at = "answered"]
          /\ results' = [results EXCEPT ![doing.id] = IF doing.ok THEN "ok" ELSE "error"]
          /\ UNCHANGED <<worker, listener, mishaps>>
       \/ FaultHere /\ UNCHANGED results
    /\ UNCHANGED <<world, journal, session, request, answers, files,
                   audit, snapshot, effects>>

Remove ==
    /\ doing.at = "answered" /\ files' = files \ {doing.id} /\ doing' = Nothing
    /\ UNCHANGED <<ownedVars, request, answers, results, audit, snapshot, effects>>

CommandStep == Intend \/ Execute \/ Record \/ Respond \/ Remove

ControlNext ==
    \/ StartRun \/ RunWorker \/ RecoverWorld \/ OthersAct
    \/ WriteSnapshot \/ SnapshotAges \/ PostCommand \/ TakeResult \/ GiveUp \/ CrashBridge
    \/ CommandStep

ControlSpec == ControlInit /\ [][ControlNext]_vars

(* The worker's program ends, the bridge waits for it and recovers, and an *)
(* operator asks again for a recovery that failed.                         *)
FairControl ==
    /\ ControlSpec
    /\ WF_vars(RunWorker) /\ WF_vars(RecoverWorld) /\ WF_vars(GiveUp)
    /\ WF_vars(CommandStep)

-----------------------------------------------------------------------------
(* A command is carried out at most once, and only by the worker of the    *)
(* run it was sent to, although the bridge may die or give up on it and    *)
(* the worker may be killed between the deed and the answer.               *)
CommandMeetsItsRun ==
    \A q \in Requests : effects[q].times > 0 =>
        effects[q].times = 1 /\ effects[q].run = answers[q].run

(* An edit of an audited run is in its audit, whenever the worker was      *)
(* killed; a row that claims success tells the truth (editor_events.py).   *)
EffectIsAudited ==
    Alive /\ Audited => \A q \in Requests :
        /\ effects[q].times > 0 /\ effects[q].run = session.run => audit[q] # "none"
        /\ audit[q] = "ok" => effects[q].times = 1

(* The edits of a run are its own, done once and on record.                *)
EditsAreAccounted == CommandMeetsItsRun /\ EffectIsAudited

(* A run settles, unless something in the world is not the worker's: an    *)
(* actor of another client or of an edit, one created without an answer,   *)
(* or a server on the Traffic Manager's port; or unless its journal was    *)
(* torn in its first write (owned_resources.py:23-29), which no recovery   *)
(* can read and nothing in the studio removes.                             *)
Blocked ==
    \/ listener = "outside" /\ journal.manager
    \/ \E a \in world.actors : a.by \in {"outside", "user"}
    \/ SameWorld /\ ~Attributable
RunSettles ==
    (session.state = "running") ~>
        (session.state = "settled" \/ Blocked \/ journal.state = "torn")

(* Nothing but the world keeps a run from being recovered                  *)
(* (docs/OWNED_RESOURCE_RECOVERY.md).  Does not hold: README section 5.    *)
TornRunSettles == (session.state = "running") ~> (session.state = "settled" \/ Blocked)

(* "The evaluator did not apply the edit within 30 seconds"                *)
(* (livery_bridge.py:262).  Does not hold: README section 5.               *)
TimedOutIsNotApplied ==
    \A q \in Requests : answers[q].answer = "timeout" => effects[q].times = 0

-----------------------------------------------------------------------------
(* The type of the state.                                                  *)
ControlTypeOK ==
    /\ OwnedTypeOK
    /\ request \in Requests \cup {NoRequest}
    /\ answers \in [Requests -> [run : 0 .. MaxRuns,
          answer : {"none", "waiting", "ok", "error", "timeout", "lost"}]]
    /\ files \subseteq Requests
    /\ results \in [Requests -> {"none", "ok", "error"}]
    /\ audit \in [Requests -> {"none", "attempting", "ok", "error"}]
    /\ doing \in [id : Requests \cup {0}, ok : BOOLEAN,
                  at : {"idle", "intended", "performed", "recorded", "answered"}]
    /\ snapshot \in BOOLEAN
    /\ effects \in [Requests -> [run : 0 .. MaxRuns, times : 0 .. 1]]

(* The invariants the proofs of the properties need.                       *)

Posted(q) == answers[q].answer # "none"
Performed == doing.at \in {"performed", "recorded", "answered"}

(* A command was sent to one run, and its file, if it is there, is of the  *)
(* current one.                                                            *)
CommandsAreOfTheirRun ==
    /\ session.state # "settled" => session.run > 0
    /\ request # NoRequest => Posted(request)
    /\ \A q \in Requests :
          /\ answers[q].run <= session.run
          /\ Posted(q) <=> answers[q] # Unanswered
          /\ q \in files => Posted(q) /\ answers[q].run = session.run
          /\ effects[q].times > 0 => Posted(q) /\ effects[q].run = answers[q].run

(* The worker is at one command, in its loop, and has not done it before.  *)
CommandIsDoneOnce ==
    /\ doing.at = "idle" <=> doing = Nothing
    /\ doing # Nothing => At("loop") /\ doing.id \in Requests /\ Posted(doing.id)
    /\ doing.at = "intended" => effects[doing.id].times = 0
    /\ \A q \in files : effects[q].times > 0 => worker.pc = 0 \/ (Performed /\ doing.id = q)

(* What the worker is at is in its audit, and what it will say is true.    *)
DeedIsKnown ==
    /\ Audited /\ doing # Nothing => audit[doing.id] # "none"
    /\ Performed /\ doing.ok => effects[doing.id].times = 1

ControlInv ==
    /\ ControlTypeOK /\ OwnedInv /\ CommandsAreOfTheirRun /\ CommandIsDoneOnce
    /\ DeedIsKnown /\ EditsAreAccounted
=============================================================================
