# TLA+ verification of carla-safety-agent

This directory models the parts of the repository that decide *when* something
may happen to the simulator, to the studio's files and to the records of what
happened: executions and their worker processes, batches, the reviewed change of
map, the editor with its histories, edits sent into a running worker, recordings
and what is concluded from them, packages of assets, projects and source, and
what is shown while a run is under way. The modules are written in TLA+,
model-checked with TLC on small instances, and the main safety properties of
executions, batches, map handoffs, edits into a running worker, packages, recordings,
replays, datasets and the editor are proved with TLAPS for every size. Paths are relative to the repository root,
in which the Python package lives in `src/carla_safety_agent/` (`src/src/...` in
`PROJECT.json`), the bridge in `tools/livery_bridge.py`, and worker entry points
in `tools/run_*.py`.

Contents: [inventory](#1-inventory), [modules](#2-modules),
[runs](#3-runs-bounds-and-fairness), [proofs](#4-proofs),
[findings](#5-findings), [limits](#6-what-is-left-out), [plan](#7-plan).

## 1. Inventory

The program is a bridge process (an HTTP server with a thread per request) in
front of a CARLA simulator. It holds the editor's world, spawns one worker
process at a time to run a scenario in that world, and keeps everything it must
remember in files that are written aside and renamed. Beside it run dispatchers
of batches, validators of recordings, Blender and Unreal processes, one-off
tools that clean the capture root, and a ROS relay; each is a process that may
outlive the bridge.

| Component | State | Operations | Talks to |
|---|---|---|---|
| Execution session journal (`session.py`) | `state` of the current session; `data/session.json`; one `execution.json` per run | `begin`, `attach`, `transition`, `reconcile`, `owned_pid`, `find_batch_attempt`, two-file `_save` | bridge, workers, batch ledger read its files |
| Execution lifecycle in the bridge (`livery_bridge.py`) | `_e2e_job`, `_e2e_process`, pid file, the simulation and task locks, a finisher thread per worker, a recovery thread after a restart | `start_e2e`, `_abort_e2e_start`, `_finish_e2e`, `stop_*`, `recover_session`, `resume_session` | journal, workers (spawn, SIGINT, wait), world |
| Worker start-up and ownership of the world (`run_rule_scenario.py`, `run_sensor_rig.py`, `owned_resources.py`, `traffic_manager_ownership.py`, `runtime_cleanup.py`) | the worker process; its resource journal; synchronous mode, actors and the Traffic Manager's port | verify the session, load, spawn, register, clean up; recover owned resources | session.json, CARLA |
| Batch ledger (`experiment_queue.py`, `queue_integrity.py`) | `queue.json`: jobs, attempts, bindings, pause flag | `claim`, `update_attempt`, `recover_binding`, `reconcile`, `retry`, `set_paused`, validated `write` | journal records |
| Batch dispatch and scheduler (`experiment_dispatch.py`, `batch_runner.py`, `batch_service.py`, `batch_control.py`) | `dispatch.lock`, the step in progress, the loop's verdict | `advance_queue`, `run_batch`, `BatchService.start/cancel`, operator controls | ledger, start request of the bridge |
| Batch plans and reports (`experiment_matrix.py`, `experiment_scenario.py`, `experiment_report.py`, `batch_catalog.py`) | archived scenarios, result files | compile, archive, report, compare pairs | ledger, results |
| Map handoff (`scene_handoff.py`, handlers in the bridge) | `current.json`, reviews with their tokens, the thread's flag; `_world_episode` | `preview`, `confirm`, `perform_scene_handoff`, `acknowledge`; its gate is asked before every editor request | session gate, simulation lock, CARLA |
| Evaluation control (`evaluation_control.py`, `manual_control.py`, `editor_events.py`, `replay.py`) | a mailbox of edits, its audit; the driving command and its lease; the timeline of a recording | post, take, answer, time out; hold, release; replay, cut | bridge, worker, page |
| Scene store and editor histories (`scene_store.py`, `transform_history.py`, `material_history.py`, `actor_material_history.py`, `copy_history.py`) | versions with a head; write-ahead journals of moves, textures, deletions, copies | save with expected version, step, restore; undo, redo, acknowledge, recover | page, CARLA |
| Actor provenance | which actors are the studio's, under which identity | bind, find, forget | histories, recovery |
| Capture recording and storage (`sensor_capture.py`, `capture_quota.py`, `recovery_service.py`, `excerpt_service.py`, `archive_service.py`) | directories of samples, manifest, index, quota, jobs | record, finish, recover, cut, archive | worker, bridge |
| Dataset jobs, splits and quality services (`split_registry.py`, `dataset_split.py`, `quality_service.py`, `storage_review.py`, `tools/cleanup_*.py`) | registry of splits, marks, references, reports, leases | register, keep, review, remove, audit | captures |
| Project bundles and asset registration (`project_bundle.py`, `bundle_restore_review.py`, `bundle_registration*.py`, `material_catalog_merge.py`) | archives, reviews, reports, catalog | export, stage, review, restore, merge, register | scenes, imports, session gate |
| Blender and material tools (`blender_pipeline.py`, `asset_registry.py`, `restart_guard.py`) | attempts, generations, `import.lock`, `bridge-restart.lock` | generate, import, register | Blender, Unreal |
| Rule and model execution (`carla_adapter.py`, `native_executor.py`, `collision_events.py`, `metrics.py`) | frames, poses, trace, samples, rows, verdict | place, tick, capture, measure, evaluate, clean up | CARLA, capture |
| Scenario generation (`scenario_archive.py`, plan pages of the studio) | archived plans, what each page shows and has confirmed | compile, revise, confirm, run | bridge, worker |
| Live previews (`live_preview_cache.py`, `live_telemetry.py`, `capture_relay`, the page's media) | frame directories, `latest.json`, telemetry images | publish, roll the window, sweep, relay, show | worker, ROS, page |
| Source archive and model references (`source_bundle.py`, `runtime_reference.py`) | archives of the committed source; fingerprints | export, verify, restore; fingerprint | Git, files |
| Studio scripts, studio page, ROS 2 visualisation | none of their own beside the above | start, stop, guarded restart; user interface; drawing | bridge |

What is hard here, and where it bites (the full list, line by line, is
"hazards" in `PROJECT.json`):

* **Interleaving.** Five kinds of bridge thread (start, stop, recover,
  finisher, restart recovery) move one journal under two locks that none of
  them holds all the time. Mergers of one catalog, exports of one source and
  cleaners of one capture root run beside each other.
* **Crash recovery.** Workers, validators, importers and Blender are processes
  of their own and survive the bridge. A restarted bridge knows them only by
  what a journal had on disk, or by a lock they inherited; most journals are
  two files or a file and the simulator, written one after the other.
* **Partial failure.** A start that fails after textures were applied, a
  restore that fails half way and puts back what it had attempted, a sample of
  which only some files are written.
* **Unreliable delivery and timeouts.** A start request can be served late or
  twice; an edit can be applied after its caller was told it was not; a driving
  command can be answered after the hand has left the wheel.
* **Stale state.** The ledger, the world, a recording or a package is read,
  reviewed by somebody, and then acted upon. Actors are known by numbers the
  simulator issues again after a restart; frames likewise.
* **Limits.** The quota of the capture root, the window of live frames, the
  buffer of collisions, the length of a history, the bound of attempts.
* **Liveness.** A run whose worker has exited must end, or wait visibly for
  the operator; an ended execution must reach the ledger; a handoff must come
  to rest; a run must settle.

What makes each part correct:

* journal and bridge: a record is opened before its worker is spawned, closed
  only after the worker has gone, never two open; when no session is active the
  world is as the run found it, but for the actors of a preset that did not end in
  order, and it is never taken from a live worker; one
  stop is one interrupt; a stopped run is never reported as completed;
* world ownership: what a settled run made is gone, whoever cleaned it up, and
  nothing else is, whatever numbers the journal holds; the Traffic Manager a
  worker uses is its own;
* ledger, dispatcher, report: what the ledger calls ended has ended with that
  outcome; history is never rewritten; an attempt runs at most once;
  `completed` means every job completed; a report credits a job only with what
  its own run left, and compares only runs under the same conditions;
* map handoff: only the reviewed world is destroyed; until the new one is
  verified or accepted nothing else touches it, across crashes;
* evaluation control: an edit acts once and in the run it was meant for, and
  the audit knows; a command to drive holds for half a second;
* editor: a history is a line with a cursor, and what it shows is where the
  actor is; an identity is one actor's; what is deleted is kept; no recovery
  turns an uncertain outcome into a success;
* recordings: a finished one says exactly which samples it holds, but for the one
  whose commit a stop interrupts; a recovered
  one lost nothing complete; the quota holds; a sample is of one moment; a
  verdict is about all that was driven;
* datasets: recordings of a registered split are there as verified; what is
  removed has been reviewed; a passed audit is of what is there;
* packages: a written package can be read back; a reviewed restore touches only
  the world that was seen; a registered asset is in the project; an import of the
  bridge and an execution exclude each other; an archive of the source that is to
  be current is of what the last look at the tree saw;
* plans: what runs and what is credited is what was confirmed;
* previews: what is shown is of the frame and the run it is said to be of.

## 2. Modules

| Module | Models | Kind |
|---|---|---|
| `ExecutionJournal` | what readers rely on in the execution records | abstract specification |
| `SessionGate` | what the rest of the bridge sees of a session | abstract specification |
| `SessionLifecycle` | bridge handlers, threads, workers, files, crashes | detailed; implements `ExecutionJournal` and `SessionGate` |
| `ExperimentQueue` | the batch ledger beside the abstract journal (EXTENDS it) | abstract for the dispatcher, detailed for the ledger |
| `BatchDispatch` | the dispatcher, its loop, its requests, the operator | detailed; implements `ExperimentQueue` |
| `ExperimentReports` | the plan, result files and report of a batch (EXTENDS `ExperimentQueue`) | detailed |
| `SceneHandoff` | the gate of a map change, its thread, waiting edits (EXTENDS `SessionGate`) | detailed, composed with the abstract session |
| `OwnedWorld` | what a worker creates in the simulator, its journal, its recovery | detailed |
| `EvaluationControl` | the mailbox of edits (EXTENDS `OwnedWorld`) | detailed |
| `LinearHistory` | what a page shows behind undo and redo | abstract specification |
| `PositionHistory` | moves of one actor | detailed; implements `LinearHistory` |
| `MaterialHistory` | texture edits with their journals | detailed |
| `EditHistories` | both, and the restore of a scene that passes them by | composition |
| `SceneEditor` | objects, identities, deletions, copies, versions of scenes | detailed; implements `LinearHistory` |
| `ManualDriving` | driving by hand over lossy calls | detailed |
| `RecordedTimeline` | what a replay says of a recording and of its excerpts | algorithm against its definition |
| `PlanReview` | from a compiled plan to the run of it | detailed |
| `DrivingRun` | the frames of a rule or model run, with its callbacks | detailed |
| `CaptureStore` | recordings on disk and the jobs over them | detailed |
| `DatasetRegistry` | splits, marks, references, and the cleaners | detailed |
| `QualityReports` | audits by a validator process | detailed |
| `AssetImports` | generation, import, registration of assets; restarts | detailed |
| `ProjectBundles` | export, staging, review, restore, merge of packages | detailed |
| `SourceArchive` | exports of the source, restores, fingerprints | detailed |
| `LivePreviews` | live frames and telemetry, relay, page | detailed |
| `SessionLifecycle_proofs`, `Batch_proofs`, `SceneHandoff_proofs`, `EvaluationControl_proofs`, `Recording_proofs`, `Packages_proofs`, `Datasets_proofs`, `Studio_proofs` | theorems | proofs |
| `MC...` | bounds, symmetry, sums of parts | model checking |

The pieces meet at the execution record: `SessionLifecycle` shows that the
bridge keeps the promises of `ExecutionJournal`, and the batch modules are
built on those promises, not on the bridge's threads. In the same way the map
handoff is composed with `SessionGate`, which `SessionLifecycle` implements: an
execution is active or not, in memory and in `session.json`. Where another module needs only
that "an execution is active" or "has ended", it has an action for that
(`RunBegins`, `StartExecution`, `StudioWorks`) and takes the rest from there.

### ExecutionJournal

One variable, `records[r]`: phase, batch attempt, and the state of the worker
process. `Begin` is `start_e2e` up to `begin` with the checks of
`existing_batch_request`; `Launch` is the spawn; `Exit` the end of the
process; `Close` the closing transition.

### SessionGate

`running` and `recorded` say whether a session is active in memory and in
`session.json`, `written` that no write of that file has failed so far. `begin`
is `SessionBegins`, `transition` and `attach` are `SessionMoves` or
`SessionEnds`, and a new bridge reads the file (`SessionRestarts`). A write that
raises leaves the memory changed (`Noted`), any number of times.

### SessionLifecycle

| Variable | Code |
|---|---|
| `session` | `SessionJournal.state` in the bridge's memory |
| `saved`, `record` | `data/session.json`, `execution.json` of each run |
| `job`, `handle`, `pidfile` | `_e2e_job`, `_e2e_process`, the pid file |
| `start`, `stop`, `recover` | how far the handler in progress has come; the locks are held exactly while these are not idle |
| `finish[r]`, `resume` | the finisher thread of a worker, the recovery thread of a restarted bridge |
| `worker[r]`, `world` | the process, and of each run whether its synchronous mode (`Sync`), its actors (`Actors`) and its textures (`Texture`) are in the world |
| `acked`, `dying`, `restarts`, `badWrites` | history and bounds |

Each handler is cut into actions exactly where another thread can see it:
between two journal writes, at a lock released, at a signal sent, at a wait.
Actions are named handler and step (`StartBegin`, `StartLaunch`,
`StartAttach`, `StartPublish`; `FinishExited`, `FinishRestore`,
`FinishSettle`; `StopSignal`, `StopMark`; ...). Every journal write goes
through `Save`, which is done, raises before either file is replaced, or is
torn: `session.json` is written, the execution record is not, and the bridge
dies.

`start_e2e` applies textures and spawns in one action because both locks are
held; for the same reason the failing launch writes `recovering` and then
`failed` in one action; if a recovery the operator asked for has closed the
session by then, the journal refuses the transition (`FirstTarget`). A process
identity (pid and start ticks) is the number
of the run, so identities are never reused; the code compares start ticks for
that purpose. `preset` runs are separate from `model` runs because no resource
journal protects them (`JournaledKinds`): a restore of a preset run does not
check that the owner has gone, and destroys none of its actors.

A restore is told by what it does in order: `Destroyed` (the actors in the
resource journal), `Asynchronous` (the world leaves synchronous mode, whichever
run brought it there), `Restored` (the run's textures). An RPC may raise
after any of these, and `observe_idle` refuses a world with sensors in it
(`Littered`). A worker that ends in order takes out what it brought; one that
fails, is interrupted or is killed has taken out any part of it. What then stays of a
preset (`LeftBehind`) is the only thing the studio does not clean up; a worker
that loads a map may come into a world without it.

### ExperimentQueue

The ledger is `job`, `tries`, `attempt`, `paused`. An attempt id is a fresh
uuid in the code and `<<job, number>>` here. Every operation reads, checks and
replaces `queue.json` under one exclusive file lock, so each is one action,
and each ends in `Write`, which evaluates the same conditions as
`validate_ledger` and raises (`refused`) when one fails. The guard
`Find(Latest(j)) = {}` of `PrepareFailed` is not a check of `update_attempt`;
it is what its only caller guarantees, and `LauncherHoldsReservation` of
`BatchDispatch` is the theorem that it does: the dispatcher's step calls it
only before it posts a request.

### BatchDispatch

`client[c]` is the place of one dispatcher in `_advance`: `Look` (the ledger is
read), `RecoverBinding` or `ReconcileStep` (an active attempt), or `Preflight`,
`ClaimStep`, `Prepare`, waiting for the answer, `Confirm`. `dispatch.lock` is
held while some `client[c].pc` is not idle and is tried without blocking.
`requests` is the set of posted start requests and never shrinks: a request may
be served late, after its client died, and any number of times. `Serve` is the
bridge's side (`Replay` for an attempt that has an execution, `Admit`,
`Refuse`). `sched[c]` is the result of the `run_batch` loop. A client in
`InBridge` makes its request by a call while it holds the simulation lock, so
it can neither time out nor be overtaken (`SimBusyFor`).

### SceneHandoff

| Variable | Code |
|---|---|
| `journal`, `workerActive` | `data/scene-handoffs/current.json`, `HANDOFF.worker_active`; `Status` is `status()`, which reads a journal left running by a dead bridge as `needs_attention` |
| `perform` | where `perform_scene_handoff` is, its `switched`, the world the token was issued for and the one captured at the confirmation |
| `reviews` | `HANDOFF.reviews`; the digests of baseline and inventory and the episode are one record, the world they describe |
| `episode`, `content` | the world in the simulator |
| `known` | `_world_episode`, set wherever `connect_world` gets through |
| `request[q]` | an editor request in `simulation_operation`: the episode it noted, and (for a property) the true one then |
| `running`, `recorded`, `written` | the session, as `SessionGate` has it |
| `uncertain` | history: the world was replaced and nobody vouches for it |

Whatever runs wholly under the simulation lock is one action. The thread is cut
at its journal writes, because a crash can fall between them; it holds the lock
from its second comparison to its end (`LockFree`). The session takes the steps
of `SessionGate`: `RunBegins` is a `SessionBegins` that has asked the gate;
`RunMoves` is any other move or end of it, which asks nothing, since a diagnostic
and a run that was never launched end without touching the world; `RunActs` is
what a worker and, after it, `restore_editor_world` do to the world, and that is
behind the gate. A worker that outlives a bridge which could not record its run
is not in this module (section 5 has it in `SessionLifecycle`). A journal write
may raise, and in `PerformFail` that means that the failure itself is not
recorded.

### ExperimentReports

`left[r]` is the result file of a run, or why there is none; `archive[j]` the
scenario file of a job. `reader` is one request for a report, which reads the
ledger first (`ReadLedger`) and the results afterwards (`Summarize`), while the
batch goes on. `BenchmarkResultFailed` and `Outcome` are the bridge's assessment.
Jobs are the product of the axes in the order of `experiment_matrix.AXES`: the
variants of a job are the digits of its number, the last axis fastest
(`Rounds`, `Variant`). Pairs of jobs that differ in one axis are compared.

### OwnedWorld and EvaluationControl

A worker's start is a `Program`, the sequence of its simulator calls per kind
(rig, rule, native), and `pc` is the place in it: it may fail, be stopped or be
killed between any two calls, and between the creation of an actor and its row
in the journal. Its `finally` begins at the place the code has its `try`. The
recovery of the bridge (`BeginRecovery` ... `Settle`) goes row by row and
destroys an actor only if type and world agree with the row. Actors are numbers
that a restarted simulator issues again; another client may create actors or
take the port of the Traffic Manager. The journal is begun with an exclusive
open and written in place; every later write goes to a temporary file and is
renamed. So the first write alone may be torn (`BeginJournal`), by a kill or a
full disk, and a torn journal is not `Readable`: every recovery raises, and the
session is not settled.

`EvaluationControl` adds the directory of commands and results. The bridge
waits with the simulation lock held, so there is one `request` at a time; when
it gives up it removes the file, which the worker may already have read. `audit`
is the record of a rule worker, which the events of a recording are made from.

### PositionHistory, MaterialHistory, EditHistories

A handler runs from its first to its last line under the simulation lock, so it
is one action with how far it got as a parameter: carried through, refused,
raised by the simulator, raised by a write, or cut by the death of the bridge.
Poses are numbers and `same_pose` a tolerance; the simulator puts an actor
within the tolerance of where it was told to. A texture lives in the simulator,
where it cannot be read back (`native`), and in a registry, which is what every
later request looks at. `EditHistories` adds the restore of a scene, which moves
and repaints without an entry in any history.

### SceneEditor

Handlers call each other (a duplicate spawns and binds; the undo of a deletion
spawns; a restore deletes and spawns), so each is an operator from a state to the
ways it can come out: "ok", "failed" after its compensation, "cut" by a crash.
A restore places any subset of the objects before it fails, since the order of
the file may be any; the state after the first k is given in closed form
(`Placed`, and `PutBack` for the deletions of the compensation), which is what
makes it open to proof.
Actors are `<<episode, number>>`. `ed` holds the world, the provenance, version
files and deletion journals; `head` is the history and cursor of the scene being
worked on, and `copies` the copy journals.

### ManualDriving, RecordedTimeline, PlanReview

`ManualDriving` counts time in quarters of a second. A page holds, releases or
closes; its calls to the bridge can be lost before or after they were handled,
or handled after the page gave up. `wheel` is what the worker applied before a
frame.

`RecordedTimeline` grows a recording frame by frame and compares the functions
of `replay.py` (braking segments, the sample of a collision, the first sample
after an edit) with what they are meant to say, for the recording and for every
excerpt of it.

`PlanReview` has two pages that compile, revise and confirm plans. A digest is
modelled by the content it is of, so the file of a plan can hold what its name
says, something else, or a part of it. `planRun` is what start and worker read
of the archive.

### DrivingRun and CaptureStore

`DrivingRun` follows the order of a frame in the two executors: poll edits, tick,
sensor callbacks, sample, row, measurement, verdict, cleanup; collisions are
reported by the simulator at any moment and received by callbacks. A moment is a
number, so that a sample can be seen to join two.

`CaptureStore` is the disk: a directory has committed samples, maybe an
uncommitted one, a manifest and an index. The worker holds the lock of the root
from the quota check to the last file of a sample, a job only while it
publishes. Either may be killed between any two files. A stop is an interrupt
that may come at any line: inside a frame it ends in a `close` with what the
memory holds at that line (`InterruptFrame`), which between the `frame.json` of
a sample and the counts is one sample less than the disk, and between the making
of a recording's directory and the reset of the counts still those of the one
before. `cut` is history, which of these a directory has met.

### DatasetRegistry and QualityReports

`proc[p]` is one process: a registration, a change of a mark, one of four
cleaners, or the studio's review of the storage. `registry` and `capture` are
the two file locks. What each cleaner removes in favour of what is written in
its source, hence the constant `Reviewed`. A process may die at each step;
the locks go with it, the files stay.

`QualityReports` is the audit of one recording. The validator inherits the lease
of the service and may outlive the bridge that waits for it.

### AssetImports, ProjectBundles, SourceArchive

`AssetImports` has two files that are only locked: `import.lock`, inherited by
the Unreal process, and `bridge-restart.lock`, shared by generations and imports
and taken exclusively by the restart script. An importer can time out, die, or
go on after its bridge has gone. A registration is the bridge's (`active`, which
bars executions and is barred by them) or that of
`tools/register_bundle_assets.py` (`consoles`), a process of its own that looks at
the locks and at nothing else, so it may begin beside an execution and go on
without a bridge.

`ProjectBundles`: an export reads scene after scene while others save; a merger
holds `merge.lock` between mesh and catalog and may die there; a restore needs a
token made for that package and that world, saves a baseline and then restores.

`SourceArchive`: exports read Git, compare the work tree, write a partial file,
verify it, look at both again and link it into place; developers edit, add files
to the index and commit, and another program may put a file where the archive is
to go or is. A look at the work tree is two commands, `git diff` for the tracked
files and `git ls-files --others` for the rest, hence two actions each time
(`CompareTree`, `ListOthers`; `RecheckTree`, `RecheckOthers`). What one command
reads is taken at one moment.

### LivePreviews

A frame directory, `latest.json` and the telemetry images stand for the worker
they were written by. The capture writes images, names the frame, rolls its
window of `KeepNewest` generations and sweeps what earlier workers left; the
relay reads the name and then the images without the lock; the page learns of a
frame and then asks for its images. The model assumes what the delays give: the
start of a worker takes longer than one callback of the relay, and than the five
seconds for which a frame counts as fresh. Clocks do not appear otherwise: what
a sweep compares are modification times, and `order` is the pairs of generations
of which the second was written later.

### Mutant operators

Operators commented "Mutant of X" stand before X and are used by no
specification. Each is X with one plausible mistake (a guard dropped, a lock
not taken, a check made too early). Substituted for X they must break the
property listed with them in `PROJECT.json`; they show that the property
depends on the line of code that X translates.

## 3. Runs, bounds and fairness

Distinct states and times are for two TLC workers.

| Run | Configuration | What it shows |
|---|---|---|
| `queue` | `MCLedger.cfg`, 64 s | The ledger in every order of operations: no refused write, agreement with the journal, history kept. The report of a batch that goes on: rows are their jobs' own, pairs are fair, `all` is true |
| `dispatch` | `MCBatchDispatch.cfg`, 46 s | Two dispatchers, requests late or twice, crashes, operator: one run per attempt, honest completion, refinement of the queue |
| `dispatch_live` | `MCBatchLive.cfg`, 10 s | A loop that keeps running takes an ended execution into the ledger |
| `lifecycle` | `MCLifecycle.cfg`, 54 s | One life of the bridge with runs of five kinds and every failure of launch and restore: the world lent and returned, stops honoured, refinement of the journal. The map handoff with a crash and failing writes of both journals: the gates, the reviewed world, rest |
| `session_crash` | `MCSessionCrash.cfg`, 206 s | The session with a crash at any point and a failing write: recorded runs are held and true, refinement of the gate's session, a session ends |
| `studio` | `MCStudio.cfg`, 1.8 M states | Histories, objects and scenes, driving by hand, timelines, plans |
| `recording` | `MCRecording.cfg`, 155 s | A driven run: verdict, samples, collisions. Recordings: quota, index, recovery, names |
| `worker` | `MCWorker.cfg`, 50 s | Ownership of the world with edits: the world is given back, the scene kept, edits accounted, a run settles |
| `packages` | `MCPackages.cfg`, 62 s | Imports and restarts; bundles; the source archive |
| `datasets` | `MCDatasets.cfg`, 2.9 M states | Splits against cleaners; audits; live previews |
| `capture_saved`, `critical_result` | violation runs of `MCCaptureStore`, `MCLedger` | The first two findings below |

**Parts of a run.** `MCLedger`, `MCLifecycle`, `MCStudio`, `MCRecording`,
`MCPackages` and `MCDatasets` put several specifications side by side. They share
no variable, `part` is chosen in the initial state, and the actions of the others
are disabled: the state space is the sum of the parts, not their product, and
each property is checked over its own part in full. `dispatch`, `worker` and
`session_crash` are compositions of components that do interact.

**Bounds.** Counters of operations, crashes and faults occur only in guards.

* *queue:* two jobs with two attempts reach every combination of history and
  current attempt; four executions let each attempt run, or a page-started run
  take a place. The report has three runs (`MaxBatchRuns`), so that a job is
  retried while another is read, and one axis with two variants, one pair.
* *dispatch:* the lock admits one step at a time, so two clients (one inside
  the bridge, one outside) show every handover; two executions cover a duplicate
  request for one attempt and a run beside it. *dispatch_live:* one attempt per
  job, because a retry starts the same story again.
* *lifecycle:* two runs, so that a late thread of the first meets the second;
  `MaxStops = 2` is one more interrupt than the property allows, so the bound is
  not what makes it true. Three worlds (`MaxEpisodes`), so that a review or an
  edit can outlive two handoffs; two reviews, so that one goes stale while the
  first is used; one crash and one failure of the handoff's journal may fall
  anywhere, and any number of the session's.
* *session_crash:* one crash and one failing write may fall anywhere, also
  during the recovery from the crash; one stop. It assumes that the operator
  does not press "recover" while a recovery is already pending; `lifecycle`
  makes no such assumption.
* *studio:* poses 0 to 2 with tolerance 1, so that nearness is not transitive;
  histories of two entries and three moves, so that the limit is passed; two
  slots, one of the environment and one of an actor, and two textures.
  `OperationBudget` bounds mixtures: either journal to its full length, or
  `MaxMixed` operations of both, since they meet only in a restore. Objects: two
  places, two worlds whose actors have the same numbers, four operations.
  Driving: one page, a lease of one quarter second and two executions, so that a
  command outlives one. Replays: eight frames of which every second is sampled,
  one edit, and one collision on any frame. Plans: two pages, two settings, lineages
  of two, three requests, two runs, one file touched from outside.
* *recording:* two frames, one adversary, one obstacle, one piece of scenery, a
  buffer of one collision and two collisions, so that one is dropped.
  `OneMatter`: either the measurements vary, or the recording and the edits do,
  which do not read each other. Recordings: two samples each, a quota of three
  blocks, two executions, two requests, two jobs; `FewDirectories` is the number
  of directories on disk.
* *worker:* a rig, a rule and a native worker, two runs, two worlds, one mishap
  (a failed call, another client or a restart), one edit.
* *packages:* packages of two assets, three attempts, one generation, two starts
  of the bridge, and one registration, which is the bridge's or a command line's: a
  second meets it only at the locks, as the attempts beside it do. Two exports of the source and one restore over three trees.
  `OneConcern` lets merges meet exports, and reviews meet saves and changes of
  the world, which are the pairs that read each other's files; `OneArchive` does
  the same for the model's file, for sources and for two exports at once.
* *datasets:* two recordings of one scene, of which three cleaners remove one in
  favour of the other and the fourth the other, and two processes. Three scans
  over three versions, two bridges lost. Two workers with up to three frames, two
  cameras and a window of two, so that frames of both have the same numbers and
  the window is passed; each reader (relay, telemetry, page) looks alone, because
  readers change nothing.

`SYMMETRY` is used where runs or processes are interchangeable and no liveness
property is checked (`queue`, `dispatch`, `datasets`).

`CHECK_DEADLOCK FALSE` everywhere: all operations used and nothing at work is
where these bounded systems stop.

`StopIsHonoured` and `WorldIsLentAndReturned` are checked only
without a bridge crash, and fail with one (section 5); the crash run checks the
weaker statements that survive, about workers whose identity had reached the
execution record. The results that are proved but no longer among the properties
of a run (types, bindings, held runs, the honoured pause, the
waiting edit) are left to their theorems.

**Fairness.** `FairSpec` gives weak fairness to the continuation of a handler
or thread that has begun (`StartContinue`, `StopMark`, `RecoverClose`,
`ResumeStep`, `FinishStep`). These are operating system threads that run until
they wait, and they wait only for a lock whose holders are themselves in this
list, or for a worker's exit, which is their guard. Workers, page requests and
the operator owe nothing. `dying /\ CrashRestart` is fair because a torn save
*is* the crash: the bridge does not go on from there. `DispatchLive` makes the
steps of a running loop fair, and the serving of the request an in-bridge
client is calling, which is the same thread; deliveries to other processes and
the operator are not fair. The thread of a handoff is fair in `lifecycle`
(`PerformStep`): it waits only for the simulation lock, which every other
operation gives back. `FairControl` makes fair what a worker that was told to
stop does, and the recovery by the bridge after it; nobody has to answer an edit,
stop a run, restart the simulator or remove what is in the way. Accordingly the
conclusion of `ExitedRunSettles` admits a session that stays `recovering` with no
recovery pending, and that of `RunSettles` a world with something in it that the
run cannot account for, and a journal that was torn when it was begun: all of
these are left to the operator, who need not come.

## 4. Proofs

`tlapm` checks the eight proof modules. Assumptions are `JournalAssumption`,
`LifecycleAssumption`, `QueueAssumption`, `DispatchAssumption`,
`HandoffAssumption`, `OwnedAssumption`, `ControlAssumption`, `ManualAssumption`,
`AssetAssumption`, `DatasetAssumption`, `PlanAssumption`, `SourceAssumption`,
`DrivingAssumption`, `PositionAssumption`, `MaterialAssumption`,
`EditorAssumption`, `PreviewAssumption`, `ReportAssumption`, `CaptureAssumption`
and `TimelineAssumption`:
attempts are the pairs of job and number, the null values are no members, the
clients inside the bridge are clients; the kinds of a run are kinds the bridge
knows; what the studio finds on disk, and what a cleaner removes and keeps, are
recordings; an export of the source is no restore; an actor of a scenario is an
adversary, an obstacle or scenery; the bounds of executions, of
the handoff, of workers and their edits, of imports, of driving, of plans, of
source trees and of frames, and the lease of a command, are natural numbers; the
lease and the capacity of the collision buffer are positive; the bounds and the
tolerance of the histories are natural numbers, a slot belongs to the environment
or to an actor, and what an actor wore first is a texture; the cameras of a
preview are finitely many and at least one generation of images is kept; the bounds
of worlds and requests of the editor are natural numbers and 0 is a place; each of
the five axes of a plan has a variant, and the jobs are as many as their product
(`len(jobs)` of `compile_matrix`); quota and bounds of the recordings are natural
numbers, and the sampling interval of a replay is one of the frames of the recording.
No other set is assumed finite or non-empty.

**Executions (`SessionLifecycle_proofs`).** What holds depends on what may go
wrong, so there are four invariants. `BaseInv` holds whatever crashes, fails or
races: types (`SessionTypeCorrect`), a run that has not begun is nowhere, one
execution has one identity wherever it is written, and the start handler has its
run to itself. It is also all that `SessionIsAGate` needs: every step of bridge,
worker and crash is a step of `SessionGate` or a stutter, with no hypothesis, so
what is proved of the map handoff holds beside the real session (`GateSteps`).
`RecoveryInv` adds that whoever starts, finishes, resumes or
recovers a session is alone with it, that `session.json` is the session or an
earlier state of it (`SavedIsBehind`), and that an ended session has no live
worker. It gives `RecordedRunsAreTrue` with crashes, torn saves and failed
writes, and needs `"operator_races" \notin Environment`: the recovery an operator
asks for closes whatever session is current when the world has been restored,
and without that hypothesis `RecoverIsAlone` is false.

`SteadyInv` is what is left when operators may race, writes may fail and the bridge
does not crash (`Steady`: `MaxRestarts` is 0). A start is through before a finisher
begins (`StartIsFirst`), a live worker has somebody to wait for it and its job stays
open until then (`WorkerIsHandled`), a past run has gone (`PastHasGone`), no record
ends before its session (`RecordEndsLast`), and the world holds only what the
session's run left in it and what no restore takes out (`WorldIsTheRuns`, `LeftBehind`).
That the second does not grow otherwise is `OrderlyExitLeavesNothing` and
`FreshRunsAreNowhere`. It is inductive for any number of runs,
interrupts and failed writes, and gives `CleanWorld` and `WorkerHasItsWorld`,
together `WorldReturns`. `AcknowledgedStopIsKept` adds `StopIsRemembered` (the
finisher of a stopped run finds the stop in its job).

`CalmInv` is `SteadyInv` when no write fails either (`Calm`, as in `lifecycle`).
What is known is then what is written (`NothingIsLost`) and every record but the
last is closed (`PastIsOver`). It gives `BridgeKeepsTheJournal`: every step of the
bridge is a step of `ExecutionJournal` or a stutter. `StopsAreHonoured` adds
`InterruptIsKnown` (an interrupted worker is the one the stop handler is at, or the
job says so).

The hypotheses are needed. With one restart `CleanWorldWhenIdle`,
`WorkerKeepsWorld`, `ImplementsJournal` and `AcknowledgedStopNeverCompletes` are
violated: a crash between the spawn and `attach` leaves a worker nobody knows of,
and a resumed job may end the session of a newer one. A failed write alone
breaks `ImplementsJournal` (the record lags behind) and
`AtMostOneInterrupt`. `StopsAreHonoured` also excludes `publish_fails`, because
`_abort_e2e_start` interrupts a worker the page may stop as well.

A step is told three times before any invariant is looked at: by what it does to
the journal (`JournalSteps`), to a worker (`WorkerSteps`), and to handlers and
threads (`Frame`, `FinishSteps`, `StartSteps`). The lemmas about the invariants
split on those summaries and not on the actions.

**Ledger (`Batch_proofs`).** `QueueInv` is inductive. The checked
properties alone are not: that `Claim` never exceeds the attempt limit needs
`RoomForClaim` (only `Retry` makes a job pending again, and it checks the limit); that a
new attempt overwrites nothing needs `UnissuedBlank`; that a binding stays
unambiguous needs `TagsUnique`; and that no write is refused is
`ValidLedger` being kept by each operation, which is also what lets each
`Write` in the proof be replaced by its first branch. One lemma per operation,
then `QueueCorrect`; `QueueTypeCorrect`, `WriteNeverRefuses`, `BindingIsOwn`,
`LedgerAgreesWithJournal` and `OpenRunsAreHeld` are its parts, and
`HistoryIsKept` and `PauseIsHonoured` are action properties from the same
invariant.

**Dispatcher (`Batch_proofs`).** `DispatchInv` is `QueueInv` with
`OneHolder` (one step holds the lock), `StepHasAttempt`, `RequestsReserved` (a
posted request that has not led to an execution still has its reservation,
and no execution exists without a request) and `LauncherHoldsReservation`. The
invariant and the step simulation need each other: that a dispatcher's step is
a step of the queue, `DispatchStep`, is proved from `DispatchInv`, and that the
queue part of `DispatchInv` survives is then the ledger's own lemma. The
results are `DispatchCorrect`, `DispatchImplementsQueue` (hence
`DispatchKeepsLedger`: the ledger's theorems hold of the dispatcher),
`AttemptRunsOnce`, `LauncherIsHolder` and `CompletionIsTrue`. The last one
needs that a completed job stays completed (`CompletedStays`), since the
verdict is taken from an earlier reading.

**Reports (`Batch_proofs`).** `ReportInv` is `QueueInv` with what a report has
read, or shows, still being so (`ReadStillHolds`, `ShownStillHolds`). It stays so
although the batch goes on, since a completed job keeps its attempts and its
execution (`CompletedStands`), a record its attempt and its outcome
(`RecordsStand`), and what a run left is no longer touched once the run is
recorded as completed (`LeftStands`). That its scenario was whole is
`StartedFromWhole`. `ReportsAreTrue` holds for any plan, any executions and a
reading at any moment. That no two jobs are of one condition (`JobsAreDistinct`)
is a fact of arithmetic, proved digit by digit: as `AXES` are five, it needs no
induction.

**Map handoff (`SceneHandoff_proofs`).** `HandoffInv` is inductive. That the gate
covers an uncertain world needs `ThreadBehindJournal` (the thread is at work
only behind a journal that says running, so a crash at any of its steps leaves
one that needs attention) and `IntentRemembered` (`switched` is set before
anything is destroyed, so that a failure opens the gate only over an unchanged
world). That the gates exclude each other across a restart needs
`SessionWritten`: what a restart finds is what the memory had, which is exactly
what a failed session write breaks (`GatesExclusive` in section 5). Both together are
`GatesAreKept`, for a session that takes any steps of `SessionGate` and fails to
write any number of times. `ReviewedIsHere` follows the
reviewed world from token to destruction and gives `OnlyReviewedIsLost`;
`EpisodeKnown` says that what bridge and requests know of the episode is never
ahead of it, and right or nothing while the gate is open, and gives
`WaitingEditMisses`. One lemma per action, with `BesideThread` for those that
touch neither the thread nor its journal.

**A worker's world and its edits (`EvaluationControl_proofs`).** `OwnedInv` and
`ControlInv` are inductive with no hypothesis beyond the assumptions: any number
of runs, worlds, mishaps and requests. The programs of the three kinds of worker
enter by `ProgramShape` alone (where the journal is begun, that actors are made
after it and inside the `try`, that the loop comes last), so a reordered start
would fail in one lemma. That a settled run leaves nothing behind
(`WorldComesBack`) needs `WorkerIsTraced`: an actor of a worker exists only while
its journal is active, of this world, and not yet recovered; an actor without a
row is covered because the session cannot settle while one cannot be attributed.
The begin of the journal has two lemmas, `WholeJournalKeeps` and
`TornJournalKeeps`: no actor of the worker is in the world yet when it is torn.
That recovery takes nothing of the scene (`SceneStays`) needs `NumbersAreOwn`:
the numbers a worker holds, and those in a journal of this world, were issued to
the worker, and those of the baseline were not. It is inductive only together
with `NumbersAreSpent` and `JournalIsOfItsWorld`, since a restarted simulator
issues the same numbers again, and the check of the episode is all that tells
them apart. For the mailbox, `CommandsAreOfTheirRun` ties each file to the current run,
`CommandIsDoneOnce` says that a command that is still in the directory has not
been done by this worker unless it is the one at hand, and `DeedIsKnown` that
what the worker is at is already in its audit. `EditsAccounted` follows although
the bridge may give up or die, and the worker be killed, between the deed, the
audit, the answer and the removal.

**Imports (`Packages_proofs`).** `AssetInv` is inductive. That a registered
asset is its own importer's needs `AssetsAreWrittenOnce` (the destination stays
empty while its importer is at work, and is not written again afterwards), and
that in turn `ImportersAreAlone`: at most one Unreal process is alive, be it
that of the attempt at hand or one a dead bridge has left behind, none
beside a restart, and beside an execution only one that a command line began
after that had been admitted (`after` counts the attempts there were). These hold because the lock
is inherited: with a lock that ends with the bridge's thread
(`ImportLockedByThread`) the lemma of `ImportersAreAlone` fails. `AttemptIsTrue` ties the
attempt to its process and to the asset its registration has come to,
`RegistryIsTrue` and `DoneIsRegistered` what is reported to what was written.
`ImportsTold` is `ImportsAreTrue` for any number of names, imports,
registrations, command lines and bridges, `RestartIsClear` is `RestartFindsNoProcess`.

**Registered splits and cleaners (`Datasets_proofs`).** `DatasetInv` is
inductive; it says of each process what it may rely on, and one lemma
(`OthersKeep`) says that a step of another leaves it that. That a
registered split stays backed (`SplitsAreBacked`) needs the lock of the registry
from both sides: `RegistryIsHeld`, which a registration keeps from its verification to
its publication (`DocumentIsVerified`) and a cleaner from its final look to
the end of its removal (`RemovalIsUnnamed`). The cleaners differ in when they
take it; the one of superseded recordings looks twice, and only the second look
counts. That a removal was reviewed (`RecordsWereReviewed`) needs
`CleanerIsReviewed` (what is left to remove is of the list it was started with,
unmarked then, and put aside before the first removal) and `CopyIsWhole`; that a
complete storage review is of the marks there are needs `ReviewIsBehind`.
The theorems hold for any number of processes, recordings and splits, and a
death of any process at any step.

**Audits (`Datasets_proofs`).** `QualityInv` is inductive. `LeaseIsHeld`
follows the lease from the scan to its validator and to whichever of the two
survives; `OldIsArchived` says that what a scan overwrites has been put aside;
`ResultIsOfBefore` that a result is of the recording as it was before the
validator ran, if it is still that. `AuditsAreEvidence` is `AuditIsEvidence`
for any number of scans, changes and lost bridges.

**Live previews (`Datasets_proofs`).** `PreviewInv` is inductive. That no
sweep takes what the recorder is still to remove needs `WindowIsNewest` (the window of the capture is
in the order of writing, and nothing in it is older than what is not) and
`WindowIsSpared`: what is newer than an element of the window is the rest of the
window, fewer than the sweep keeps. What a fresh `latest.json` names is there
(`NothingIsAhead`, `FrameIsInHand`), and the images the relay goes on to read are
gone or of the run whose name it has read (`RelayReadsOn`). The telemetry writes
its image before its numbers (`ImagesAreAhead`). `PreviewsStayTrue` holds for any
cameras, any number of generations kept, and any number of workers one after the
other.

**Driving by hand (`Studio_proofs`).** `ManualInv` is inductive.
`DeadManHolds` speaks of the frame; what carries it is `CommandWasWanted`: the
command on disk, whoever sent it and however late it was handled, was still
wanted when the bridge stamped it, and `HeldIsPast`. `DeadManBrakes` holds for
any set of pages, any lease and any loss, delay or abandonment of calls.

**Plans under review (`Studio_proofs`).** `PlanInv` is inductive. That what runs
is what was seen (`ReviewedPlansAreRun`) needs `ConfirmedIsShown` on the page
and, of the requests, `AskedWasConfirmed` and `RunIsOfAsked`: start and worker
each read the file under its digest (`IsThe`), so whatever was done to the file
in between, they have the plan that was asked for or nothing. That an offer is a
revision of what is shown needs `AwaitedIsAsked`: a page waits for one answer at
most, and a request that was cancelled goes on without it.

**Editor histories (`Studio_proofs`).** `PositionInv` and `MaterialInv` are
inductive (`HistoriesCorrect`). A chain of moves that has been written can be
read back (`OpenedIsSound`, `FinishedIsSound`): every entry begins where the one
before it ended, up to the tolerance of the simulator, and two tolerances add up
(`TwiceNear`). The moves are a line (`MovesAreALine`): recording one is a `Push`
or, after what cannot be undone, a `Restart` of `LinearHistory`, an unfinished
record a `Prune` or `Clear`, undo and redo are `Back` and `Forward`, and an
acknowledged failure a `Clear`. Of textures, one row at a time is added or
rewritten (`RowsKeep`), and a row that says recovered was uncertain before
(`RecoveredWasUncertain`), so a transition that was cut cannot hide behind an
older recovery. `MovesAreKept`, `FailuresAreKept` and `RecordsAreKept` hold for
any actors, poses and textures, and for handlers that fail or die at any line.

**Objects and scenes (`Studio_proofs`).** `EditorInv` is inductive. Its part
about one world, `EditorIsSound`, holds of every state a handler can leave, so
each handler has one lemma (`SpawnKeeps`, `DeleteKeeps`, `RestoreKeeps`) that the
handlers calling it use. That an identity has one living actor
(`OneActorPerIdentity`) needs `Counted`: an identity, live or in any file, is
named after a number that was issued before, so the one a spawn makes up is new,
also in an episode whose numbers start again. A confirmed deletion stays true
for the same reason. A restore makes only identities that are missing
(`PlacedKeeps`) and its compensation deletes each actor it made once, behind a
backup that still has it (`PutBackKeeps`, with `InOrderIs`). `DeletionIsKept`
says that the version a record names has what was deleted, which is what the
redo of a copy restores (`CopiesAreKept`). `ObjectsStayTrue` follows for any
number of worlds, requests and versions, and `SceneHistoryIsKept`: a save is a
`Push` of `LinearHistory`, or a version no history names, undo and redo are
`Back` and `Forward`, and when the cursor has moved without a cut every object of
its version is where that says.

**Packages (`Packages_proofs`).** `BundleInv` is inductive. A staged package is
readable (`BundlesStayWhole`) since what is in the making has been checked once
all scenes were read (`MadeIsChecked`) and what is added later depends on the
snapshot alone (`ExtendedIsValid`, `SameVersions`); an extension that reads the
scenes again (`ExtendedAnew`) has no such lemma. The catalog names meshes that
are there since a merger agrees with all that is there until it is through
(`MergerAgrees`), which another merger beside it would break. For
`ReviewedRestoresAreSafe`, `RestoreIsAlone` says that a restore under way has
used up its review and that the world is still the one that was seen; it
stays so because whatever else touches the world or the scenes asks for the
simulation lock. `SavedIsThere` is the lemma on `SceneStore.save`: the head it
writes names the version it has just written.

**The source archive (`Packages_proofs`).** `SourceInv` is inductive.
`PublishedIsCurrent` says what the two commands of the last look have seen, each
at its own moment (`SeenCurrent`), and that the whole tree was the commit's if
nobody touched it between them. It needs `CurrentIsComplete` (the same of an export
that is still under way, as far as it has come) and `PublisherIsThrough` (an
export whose archive is there compares nothing more, so the trees counted for it
no longer change). `RestoreIsOfVerified` ties a receipt to the bytes that were
verified, `PartsAreOfOne` a fingerprint to one version unless the file's time
has changed. `SourcesAreFaithful` holds for any number of exports and restores,
and of edits between any two of their steps.

**Driving (`Recording_proofs`).** `DrivingInv` is inductive. The program of a run
enters by the order of its steps alone (`StepsInOrder`, and `Goes`: a step leads
to the next of its kind of run, to the cleanup, or fails). That a verdict is
about every actor needs `PlacedSoFar`, since a failed spawn goes to the cleanup
and not on; that it is about every frame and collision needs `LeastIsOfTrace`,
`RowsAreOfFrames` and `FlaggedWasHit`, and `VerdictComesLast`: while frames are
driven nothing has been told, and once it has, rows and trace stay as they are.
A collision may still be reported after the verdict; what the verdict answers for
is those that have a row. A sample is of one moment (`RecordedEvidence`) since the images
of the frame at hand are of the poses there are (`ImagesAreOfNow`), which an edit
between tick and sample would break. A recording reports its losses since the buffer
has the last of what was delivered (`BufferIsLast`) whatever its capacity; a
callback may be as late as it likes. The proof needs a capacity of one at least.

**Recordings on disk (`Recording_proofs`).** `CaptureInv` is inductive. Frame,
failed frame, end and kill of a worker write a prefix of the same files, and one
lemma (`WorkerKeepsRecordings`) covers them. A finished recording is what it says
since the open one says what it holds between any two frames (`OpenIsIndexed`).
A frame that a stop interrupts has lemmas of its own (`InterruptWrites`,
`InterruptFits`): counts and index are then one sample short at most (`OneShort`),
or the recording holds nothing (`Nothing`). A
recovered one has every committed sample of its source because a job copies only
where the worker has gone, and nothing of that execution is written again:
`CopiesAreSettled`, with `ExecutionsInOrder` for "again". That a request begins one
recording at most needs `RequestsInOrder`, with a worker that may take a request
up late or be killed over it. `RecordingsStayTrue` holds for any number of
executions, requests, jobs and samples.

**The quota (`Recording_proofs`).** What is allocated is the number of blocks of
all directories. That the quota holds (`QuotaIsKept`) needs `LockedFits`: a
publisher that has checked the quota still has room for its copy when it writes
that, because the lock it holds keeps every sample out. A sample checks and
allocates in one step. As cardinalities, the bounds follow from the blocks a step
adds being no more than it asked for (`AllocatedGrows`, `AddedBlocks`), for any
quota and sizes.

**Replays (`Recording_proofs`).** `TimelineInv` says that samples are of rising
frames and that an edit whose outcome is certain shows from the next frame on. What
`replay_events` computes is proved of the pass over any index: after `i` samples
the segments are the longest runs of braking among those `i`, each once, the last
one still open if the last sample brakes (`TimelineCorrect` has the invariant,
`ReplayIsTrue` the property, also of every excerpt). The pass is a function by
recursion, which is shown to exist from a least counterexample, as the prover has
no induction over an operator; the same argument carries the pass from sample to
sample. Where a collision or an edit is put is a count of the samples before it,
which in an index of rising frames is a place in it.

Only model-checked: liveness (`EndedRunIsReconciled`, `ExitedRunSettles`,
`HandoffComesToRest`, `RunSettles`), which is outside the prover's reach.
The inductive invariants named here were checked by TLC over the
instances of section 3 before they were proved.

## 5. Findings

Two disagreements between the code and what the repository says of it have a run
of their own.

1. **A recording with a torn sample is saved as complete** (`capture_saved`).
   Only an `OSError` inside a sample marks the recording as failed. An error of
   the simulator reaches the owner, whose `close()` writes status `saved` with
   the uncommitted sample on disk, and the recovery that would drop it refuses a
   saved recording.
2. **A critical run is a failed execution** (`critical_result`).
   `metrics.evaluate` calls a run `passed` or `critical`; the bridge accepts only
   `passed` and `failed`, so a run that ended in order with a critical result is
   recorded failed, and its result is not reported.

The following were met while modelling. Each definition is stated in its module
and checked by no run; given as a property to the configuration named, TLC finds
a counterexample.

| Definition | With | What happens |
|---|---|---|
| `SessionLifecycle.StoppedRunIsMarkedStopped` | `MCLifecycle` | `stop_e2e` sends the interrupt before it records `stopping`; the finisher moves the journal to `recovering` in between, the transition is refused and the run ends `failed`, where the crash regression report says that a run the user stops is marked stopped |
| `SessionLifecycle.OwnedWorkerNeverGivesUp` | `MCLifecycle` | A rule worker reads `session.json` once and polls that copy, so it gives up on its own session; the sensor-rig worker makes the same wait with a fresh read |
| `SessionLifecycle.AtMostOneInterrupt` | `MCSessionCrash`, two stops | Repeated stop requests are recognised by the job in memory only, so a run gets a second interrupt after a restart |
| `SessionLifecycle.WorkerKeepsWorld` | `MCSessionCrash` | A crash between the spawn and `attach` leaves a live worker whose run the restarted bridge declares failed |
| `SessionLifecycle.WorldIsEmptyWhenIdle` | `MCLifecycle` | A preset's worker keeps no resource journal. If it does not end in order its vehicles and walkers stay, since recovery returns early (`owned_resources.py:149-150`) and the rest of the restore touches settings and textures only; `docs/OWNED_RESOURCE_RECOVERY.md:9` knows that such a task has no list |
| `SceneHandoff.GatesExclusive` | `MCLifecycle` | If `session.json` cannot be written at the end of a run, memory says idle and the file recovering. A handoff is confirmed, the bridge dies, and its successor has both gates closed: accepting the world is refused because of the session, recovering the session because of the handoff |
| `MaterialHistory.ConfirmedRecoveryWrites` | `MCStudio` | `material_history.py` promises an explicit new write after inspection; the recovery of an actor's slot can be confirmed without one |
| `EvaluationControl.TimedOutIsNotApplied` | `MCWorker` | The caller is told that the evaluator did not apply an edit which it is applying |
| `EvaluationControl.TornRunSettles` | `MCWorker` | `docs/OWNED_RESOURCE_RECOVERY.md:3` has the journal synced and replaced atomically; its first write is in place (`owned_resources.py:23-29`), and a kill or a full disk there leaves a file that every recovery refuses, so the session never ends |
| `CaptureStore.FinishedCountsAll` | `MCRecording` | A stop between `frame.json` and the counts (`sensor_capture.py:444-446`) closes the recording as saved with one sample more than it counts or lists |
| `AssetImports.RunMeetsNoImporter` | `MCPackages` | The bridge starts no execution beside an import (`livery_bridge.py:404-407`); `register_bundle_assets.py` starts an import beside an execution |
| `SourceArchive.CurrentIsWhole` | `MCPackages` | A file added to the index between the two Git commands of `uncommitted_source` (`source_bundle.py:39-44`) is in the answer of neither, so an archive is published as current although at no moment was the tree the commit's |
| `AssetImports.RestartSparesRegistration` | `MCPackages` | `restart_guard.py` says that asset work is inspected before a restart; a registration between two imports holds no lock and is not looked at |
| `ManualDriving.ReleaseAsksForBrake` | `MCStudio` | "松开即请求制动" (`ManualDriving.tsx:20`): after a lost answer no brake is sent; only the lease of half a second stops the vehicle, which is `DeadManHolds` |
| `PlanReview.CanCompileAgain` | `MCStudio` | A bridge that dies inside `archive_scenario` leaves a torn file, and that description is refused ever after |
| `LivePreviews.LiveIsOfThisRun` | `MCDatasets` | Between `SESSION.begin` and `started_at`, or after a restart of the bridge, which forgets `started_at`, frames of an earlier run pass as live |
| `LivePreviews.EvidenceIsOneFrame` | `MCDatasets` | Telemetry images are replaced one by one before `latest.json`, and the camera endpoint compares nothing: the page can show cameras of different frames as the inputs of one output |

## 6. What is left out

* Timestamps, digests, `fsync` and the atomicity of `os.replace` (a file is the
  old or the new one, except where the code writes in place), HTTP,
  authorisation, paths, sizes and formats.
* The numerical code: projection, visibility, geometry of scenarios and assets,
  physics, statistics of reports. `DrivingRun` lets a measurement be on either
  side of its threshold, `RecordedTimeline` has the frame arithmetic of replays.
* What a description compiles to: generator and natural-language rules are data
  transformation without state.
* The advisory progress reports of an execution (`execution_progress.py`), the
  first schema of the resource journal, the comparison of an actor's type in
  recovery (a number of another world stands for it), the recommendation of a
  batch size from the host, `asset_restart_review.py`, the calibration file of
  the relay, the stand-alone ROS bridge and the sensor wall, collision messages
  that are invalid, and changes of a recording's data that do not show in its
  manifest.
* In `SessionLifecycle`: the content of a restore (the model keeps per run
  whether synchronous mode, actors and textures are still there), a worker's map
  that differs from the journal's (`OwnedWorld` has it), signals
  other than the interrupt, and the fact that a native worker does not wait for
  its ownership.
* In `SceneHandoff`: changes of the world by programs other than the bridge and
  its workers, the clock of a review (it may expire at any moment), the batch
  scheduler's own check against a pending handoff, a handoff journal that cannot
  be read. A request that arrives at a restarted bridge before its first look
  at the world has no episode to compare (`SameEpisode`).
* Hazards that no model here reaches, beside those in the list: a wall clock set
  back makes every later write of a ledger raise (`queue_integrity.py:51`);
  attaching to an owned world may fail after it was loaded; a scene restore has no
  journal of its own (`livery_bridge.py:1737`; `EditHistories` shows what the
  others do then); the lock of a publication ends a recording that meets it
  (`capture_quota.py:24`, modelled as an end of the recording); a start whose
  bare pid has been reused is refused (`livery_bridge.py:209`).
* In `SourceArchive`: changes of the work tree while one Git command reads it. In
  `CaptureStore`: an interrupt inside the write of one file, which is renamed into
  place.
* The studio page, apart from the order of requests it sends in `ManualDriving`,
  `PlanReview` and `LivePreviews`.

## 7. Plan

1. *done* - `ExecutionJournal`, `SessionLifecycle`, `ExperimentQueue`,
   `BatchDispatch`, `SceneHandoff`; proofs for all of them, and for
   `AssetImports`, `ProjectBundles`, `SourceArchive`, `DatasetRegistry`,
   `QualityReports`, `ManualDriving`, `PlanReview`, `DrivingRun`,
   `CaptureStore`, `ExperimentReports`, `LivePreviews`, `PositionHistory`
   (against `LinearHistory`), `MaterialHistory` and `SceneEditor` (against
   `LinearHistory` too).
2. *done* - the components of section 1 that keep state: world ownership and
   evaluation control, the editor, driving and recordings, datasets, packages,
   plans, previews, reports.
3. *done* - proofs for `SessionLifecycle` (four invariants, the refinements of
   `ExecutionJournal` and `SessionGate`, what survives failed writes without a
   restart), for `OwnedWorld` with `EvaluationControl`, for the quota and for
   `RecordedTimeline`.
4. *done* - `SceneHandoff` composed with the abstract session that
   `SessionLifecycle` implements.
5. `OwnedWorld` as the world of `SessionLifecycle`, which keeps only whether a run
   has left something in it.
