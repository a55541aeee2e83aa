------------------------------ MODULE OwnedWorld ------------------------------
(***************************************************************************)
(* A worker that owns the simulator: what it creates there (run_sensor_rig,*)
(* the rule driver in carla_adapter, native_executor), the resource journal*)
(* it keeps (owned_resources), its Traffic Manager                         *)
(* (traffic_manager_ownership), its cleanup (runtime_cleanup), and the     *)
(* recovery by the bridge once it is gone (restore_editor_world).          *)
(* The simulator may restart, and numbers its actors from 1 again; another *)
(* client may create actors in it or take the Traffic Manager's port.      *)
(***************************************************************************)
EXTENDS Naturals, Sequences, FiniteSets

CONSTANTS
    Kinds,          \* of workers, out of "rig", "rule" and "native"
    MaxRuns, MaxEpisodes, MaxMishaps        \* bounds of a run

ASSUME OwnedAssumption ==
    /\ Kinds \subseteq {"rig", "rule", "native"}
    /\ {MaxRuns, MaxEpisodes, MaxMishaps} \subseteq Nat

VARIABLES
    world,      \* the simulator: episode, settings, actors, the next number
    listener,   \* who listens on the port of the studio's Traffic Manager
    worker,     \* the process
    journal,    \* owned-resources.json of the current run
    session,    \* what the session journal says
    mishaps     \* calls that failed and deeds of other clients so far

ownedVars == <<world, listener, worker, journal, session, mishaps>>

Actor(id, sensor, by) == [id |-> id, sensor |-> sensor, by |-> by]
Ids(actors) == {a.id : a \in actors}

(* A world with n actors of its own, numbered from first.                  *)
NewWorld(episode, first, n) ==
    [episode |-> episode, sync |-> FALSE, next |-> first + n,
     actors |-> {Actor(id, FALSE, "scene") : id \in first .. first + n - 1}]

NoWorker == [kind |-> "rig", pc |-> 0, fresh |-> 0, handles |-> {}, manager |-> FALSE,
             cleaning |-> 0, lost |-> FALSE]
NoJournal == [episode |-> 0, baseline |-> {}, rows |-> {}, manager |-> FALSE, state |-> "absent"]

(* The calls of a worker up to its loop, and the first one inside the try  *)
(* whose finally cleans up.  Rows: "spawn" a vehicle, "sense" a sensor.    *)
Program(kind) ==
    CASE kind = "rig" -> <<"admit", "journal", "port", "settings", "spawn", "manager", "sense", "loop">>
      [] kind = "rule" -> <<"admit", "port", "load", "admit", "journal", "manager", "settings",
                            "spawn", "sense", "loop">>
      [] kind = "native" -> <<"admit", "load", "journal", "settings", "spawn", "sense", "loop">>
Guarded(kind) == IF kind = "rule" THEN 6 ELSE 4

(* The finally: every step is attempted, whatever became of the others.    *)
Cleanup == <<"sensors", "actors", "manager", "settings">>

Mishap == mishaps < MaxMishaps /\ mishaps' = mishaps + 1

Alive == worker.pc # 0 \/ worker.cleaning # 0
At(step) == worker.pc # 0 /\ Program(worker.kind)[worker.pc] = step /\ worker.fresh = 0
Connected == ~worker.lost
Onward == [worker EXCEPT !.pc = @ + 1]

(* The process is gone, and its listener with it.                          *)
Exit ==
    /\ worker' = NoWorker
    /\ listener' = IF listener = "worker" THEN "none" ELSE listener

(* An exception: out of the try it ends the process, inside it cleans up.  *)
Raise(handles) ==
    IF worker.pc < Guarded(worker.kind) THEN Exit
    ELSE /\ worker' = [worker EXCEPT !.pc = 0, !.fresh = 0, !.cleaning = 1, !.handles = handles]
         /\ UNCHANGED listener

-----------------------------------------------------------------------------
OwnedInit ==
    /\ world = NewWorld(1, 1, 1) /\ listener = "none"
    /\ worker = NoWorker /\ journal = NoJournal
    /\ session = [run |-> 0, state |-> "settled", task |-> "none"]
    /\ mishaps = 0

StartWorker ==
    /\ session.state = "settled" /\ session.run < MaxRuns
    /\ \E kind \in Kinds : worker' = [NoWorker EXCEPT !.kind = kind, !.pc = 1]
    /\ session' = [run |-> session.run + 1, state |-> "running", task |-> "none"]
    /\ journal' = NoJournal
    /\ UNCHANGED <<world, listener, mishaps>>

(* require_idle_native_world; the rig looks at the settings only.          *)
Admit ==
    /\ At("admit") /\ Connected /\ ~world.sync
    /\ worker.kind # "rig" => \A a \in world.actors : ~a.sensor
    /\ worker' = Onward
    /\ UNCHANGED <<world, listener, journal, session, mishaps>>

(* require_unused_port.                                                    *)
CheckPort ==
    /\ At("port") /\ listener = "none"
    /\ worker' = Onward
    /\ UNCHANGED <<world, listener, journal, session, mishaps>>

(* A map that is not the scenario's, or a generated one, is loaded.        *)
LoadWorld ==
    /\ At("load") /\ Connected /\ worker' = Onward
    /\ \/ UNCHANGED world
       \/ /\ world.episode < MaxEpisodes
          /\ world' = NewWorld(world.episode + 1, world.next, 1)
    /\ UNCHANGED <<listener, journal, session, mishaps>>

(* OwnedResourceJournal: the world as it is becomes the baseline.  The     *)
(* first write is the only one in place (exclusive): a kill or a full disk *)
(* in the middle of it leaves a file that is torn.                         *)
BeginJournal ==
    /\ At("journal") /\ Connected
    /\ \/ /\ journal' = [NoJournal EXCEPT !.state = "active", !.episode = world.episode,
                                          !.baseline = Ids(world.actors)]
          /\ worker' = Onward /\ UNCHANGED <<listener, mishaps>>
       \/ /\ Mishap /\ Exit /\ journal' = [NoJournal EXCEPT !.state = "torn"]
    /\ UNCHANGED <<world, session>>

Synchronize ==
    /\ At("settings") /\ Connected
    /\ world' = [world EXCEPT !.sync = TRUE] /\ worker' = Onward
    /\ UNCHANGED <<listener, journal, session, mishaps>>

(* acquire_local_manager: get_trafficmanager starts a server, or attaches  *)
(* to the one that took the port meanwhile; only a listener of this very   *)
(* process is registered and used.  A rig may do without.                  *)
AcquireManager ==
    /\ At("manager") /\ Connected
    /\ \/ /\ worker.kind = "rig" /\ worker' = Onward
          /\ UNCHANGED <<listener, journal>>
       \/ /\ listener = "none" /\ listener' = "worker"
          /\ worker' = [Onward EXCEPT !.manager = TRUE]
          /\ journal' = [journal EXCEPT !.manager = TRUE]
       \/ /\ listener # "none" /\ Raise(worker.handles) /\ UNCHANGED journal
    /\ UNCHANGED <<world, session, mishaps>>

Creates == At("spawn") \/ At("sense")

(* The simulator creates an actor; the answer may not come back.           *)
SpawnActor ==
    /\ Creates /\ Connected
    /\ world' = [world EXCEPT !.actors = @ \cup {Actor(world.next, At("sense"), "worker")},
                              !.next = @ + 1]
    /\ \/ /\ worker' = [worker EXCEPT !.fresh = world.next]
          /\ UNCHANGED <<listener, mishaps>>
       \/ /\ Mishap
          /\ Raise(worker.handles)
    /\ UNCHANGED <<journal, session>>

(* OwnedActors.append: the handle, then the durable row.                   *)
Register ==
    /\ worker.fresh # 0
    /\ \/ /\ worker' = [Onward EXCEPT !.handles = @ \cup {worker.fresh}, !.fresh = 0]
          /\ journal' = [journal EXCEPT !.rows = @ \cup {worker.fresh}]
          /\ UNCHANGED <<listener, mishaps>>
       \/ /\ Mishap
          /\ Raise(worker.handles \cup {worker.fresh}) /\ UNCHANGED journal
    /\ UNCHANGED <<world, session>>

(* Any call fails: refused admission, port in use, full disk, time-out, a  *)
(* simulator that is gone, a stop, or just the end of the loop.            *)
StopOrFail ==
    /\ worker.pc # 0 /\ worker.fresh = 0 /\ Raise(worker.handles)
    /\ UNCHANGED <<world, journal, session, mishaps>>

Kept(step) ==
    CASE step = "sensors" -> {a \in world.actors : ~(a.sensor /\ a.id \in worker.handles)}
      [] step = "actors" -> {a \in world.actors : a.id \notin worker.handles}
      [] OTHER -> world.actors

(* One step of the cleanup, done or failed, and the exit after the last.   *)
CleanUp ==
    /\ worker.cleaning # 0
    /\ LET step == Cleanup[worker.cleaning]
       IN  \/ /\ Connected /\ UNCHANGED mishaps
              /\ world' = [world EXCEPT !.actors = Kept(step),
                                        !.sync = @ /\ step # "settings"]
           \/ /\ IF Connected THEN Mishap ELSE UNCHANGED mishaps
              /\ UNCHANGED world
    /\ IF worker.cleaning = Len(Cleanup) THEN Exit
       ELSE worker' = [worker EXCEPT !.cleaning = @ + 1] /\ UNCHANGED listener
    /\ UNCHANGED <<journal, session>>

KillWorker ==
    /\ Alive /\ Mishap /\ Exit
    /\ UNCHANGED <<world, journal, session>>

-----------------------------------------------------------------------------
(* The simulator is restarted: its clients are cut off.                    *)
RestartSimulator ==
    /\ world.episode < MaxEpisodes
    /\ \E n \in 1 .. 2 : world' = NewWorld(world.episode + 1, 1, n)
    /\ worker' = [worker EXCEPT !.lost = Alive]
    /\ session' = [session EXCEPT !.task = "none"]
    /\ UNCHANGED <<listener, journal, mishaps>>

(* Another client creates an actor, or takes the port, or leaves again.    *)
OutsideActs ==
    /\ Mishap
    /\ \/ \E sensor \in BOOLEAN :
             /\ world' = [world EXCEPT !.actors = @ \cup {Actor(world.next, sensor, "outside")},
                                       !.next = @ + 1]
             /\ UNCHANGED listener
       \/ listener = "none" /\ listener' = "outside" /\ UNCHANGED world
    /\ UNCHANGED <<worker, journal, session>>

OutsideLeaves ==
    /\ \/ /\ \E a \in world.actors : a.by = "outside"
          /\ world' = [world EXCEPT !.actors = {a \in @ : a.by # "outside"}] /\ UNCHANGED listener
       \/ listener = "outside" /\ listener' = "none" /\ UNCHANGED world
    /\ UNCHANGED <<worker, journal, session, mishaps>>

-----------------------------------------------------------------------------
(* read_resources: there is a journal, and it is not torn.                 *)
Readable == journal.state \in {"active", "recovered"}

(* Mutant of SameWorld: any world will do.                                 *)
AnyWorld == Readable

(* The journal is of the world that is there.                              *)
SameWorld == Readable /\ world.episode = journal.episode

(* Mutant of Attributable: a journalled actor is all that is looked for.   *)
AttributableRows == \A a \in world.actors : a.sensor => a.id \in journal.rows

(* Every actor is the worker's or was there before; sensors are all the    *)
(* worker's, whatever was there before.                                    *)
Attributable ==
    /\ \A a \in world.actors : a.sensor => a.id \in journal.rows
    /\ Ids(world.actors) \subseteq journal.rows \cup journal.baseline

BeginRecovery ==
    /\ session.state = "running" /\ ~Alive
    /\ session' = [session EXCEPT !.state = "recovering"]
    /\ UNCHANGED <<world, listener, worker, journal, mishaps>>

(* Mutant of Stopped: the record stands for the listener.                  *)
StoppedNever == ~journal.manager

(* require_stopped_manager: no listener on the port, not even another's.   *)
Stopped == journal.manager => listener = "none"

Recovering == session.state = "recovering" /\ session.task = "none" /\ ~Alive
Then(task) == session' = [session EXCEPT !.task = task]

(* recover_owned_resources in the world of the journal: the rows are       *)
(* destroyed, the sensors first, and only then is that recorded.  A batch  *)
(* with an error, or a record that cannot be written, is tried again.      *)
DestroyOwned ==
    /\ Recovering /\ SameWorld /\ journal.state = "active" /\ Attributable /\ Stopped
    /\ \/ /\ world' = [world EXCEPT !.actors = {a \in @ : a.id \notin journal.rows}]
          /\ journal' = [journal EXCEPT !.state = "recovered"]
          /\ Then("restore") /\ UNCHANGED mishaps
       \/ /\ Mishap /\ UNCHANGED <<journal, session>>
          /\ \E failed \in SUBSET journal.rows :
                world' = [world EXCEPT !.actors = {a \in @ : a.id \notin journal.rows \ failed}]
    /\ UNCHANGED <<listener, worker>>

(* No journal, one that has been dealt with, or one of another world.  One *)
(* that is torn raises, in every recovery.                                 *)
SkipOwned ==
    /\ Recovering
    /\ \/ journal.state = "absent" /\ Then("restore")
       \/ SameWorld /\ journal.state = "recovered" /\ Attributable /\ Then("restore")
       \/ Readable /\ ~SameWorld /\ Then("observe")
    /\ UNCHANGED <<world, listener, worker, journal, mishaps>>

(* The settings are restored, unless the world is another one.             *)
RestoreSettings ==
    /\ session.task = "restore" /\ Then("observe")
    /\ world' = [world EXCEPT !.sync = FALSE]
    /\ UNCHANGED <<listener, worker, journal, mishaps>>

(* observe_idle: an asynchronous world without sensors, or all over again. *)
Settle ==
    /\ session.task = "observe"
    /\ session' = [session EXCEPT !.task = "none",
           !.state = IF ~world.sync /\ \A a \in world.actors : ~a.sensor THEN "settled" ELSE @]
    /\ UNCHANGED <<world, listener, worker, journal, mishaps>>

WorkerStep ==
    \/ Admit \/ CheckPort \/ LoadWorld \/ BeginJournal \/ Synchronize \/ AcquireManager
    \/ SpawnActor \/ Register \/ StopOrFail \/ CleanUp
RecoveryStep == BeginRecovery \/ DestroyOwned \/ SkipOwned \/ RestoreSettings \/ Settle
OwnedNext ==
    \/ StartWorker \/ WorkerStep \/ KillWorker \/ RecoveryStep
    \/ RestartSimulator \/ OutsideActs \/ OutsideLeaves

-----------------------------------------------------------------------------
(* Nobody but its owner removes an actor of the scene, whatever numbers    *)
(* the journal of a run holds when the simulator has been restarted        *)
(* (owned_resources.py:1, "recovery never deletes by category").           *)
SceneIsKept ==
    [][world'.episode = world.episode =>
          \A a \in world.actors : a.by = "scene" => a \in world'.actors]_ownedVars

(* A run that has settled leaves no actor of its worker and no synchronous *)
(* world, also if the worker was killed between the creation of an actor   *)
(* and its row in the journal.                                             *)
SettledIsClean ==
    session.state = "settled" =>
        ~world.sync /\ \A a \in world.actors : a.by # "worker"

(* The Traffic Manager a worker uses and journals is served by itself.     *)
ManagerIsOwn == worker.manager => listener = "worker"

(* A run uses and leaves a world as if it had been alone in it.            *)
WorldIsGivenBack == SettledIsClean /\ ManagerIsOwn

-----------------------------------------------------------------------------
(* The type of the state.                                                  *)
WorldTypeOK ==
    world \in [episode : Nat, sync : BOOLEAN, next : Nat,
               actors : SUBSET [id : Nat, sensor : BOOLEAN,
                                by : {"scene", "worker", "outside", "user"}]]
ProcessTypeOK ==
    /\ worker \in [kind : {"rig", "rule", "native"}, pc : Nat, fresh : Nat,
                   handles : SUBSET Nat, manager : BOOLEAN, cleaning : 0 .. Len(Cleanup),
                   lost : BOOLEAN]
    /\ worker.pc <= Len(Program(worker.kind))
BridgeTypeOK ==
    /\ journal \in [episode : Nat, baseline : SUBSET Nat, rows : SUBSET Nat,
                    manager : BOOLEAN, state : {"absent", "torn", "active", "recovered"}]
    /\ session \in [run : 0 .. MaxRuns, state : {"settled", "running", "recovering"},
                    task : {"none", "restore", "observe"}]
OwnedTypeOK ==
    /\ WorldTypeOK /\ ProcessTypeOK /\ BridgeTypeOK
    /\ listener \in {"none", "worker", "outside"} /\ mishaps \in 0 .. MaxMishaps

(* The invariants the proofs of the properties need.                       *)

(* Where a program begins its journal.                                     *)
JournalAt(kind) ==
    CASE kind = "rig" -> 2 [] kind = "rule" -> 5 [] kind = "native" -> 3

(* A process has a running session, and creates actors or cleans up only   *)
(* after it has begun its journal.                                         *)
WorkerFollowsProgram ==
    /\ Alive => session.state = "running"
    /\ ~Alive => worker = NoWorker
    /\ worker.pc # 0 => worker.cleaning = 0
    /\ worker.fresh # 0 => /\ worker.pc > JournalAt(worker.kind)
                           /\ worker.pc < Len(Program(worker.kind))
    /\ worker.pc # 0 /\ worker.pc <= JournalAt(worker.kind) =>
          journal = NoJournal /\ worker.handles = {}
    /\ worker.pc > JournalAt(worker.kind) \/ worker.cleaning # 0 => journal.state = "active"

(* Numbers are not issued twice while the simulator lives.                 *)
NumbersAreSpent ==
    /\ world.next > 0
    /\ \A a \in world.actors : a.id \in 1 .. world.next - 1

(* The numbers a worker holds, and those in a journal of this world, are   *)
(* of the worker's actors; those of the baseline are not.                  *)
NumbersAreOwn ==
    /\ Alive /\ Connected => \A h \in worker.handles \cup {worker.fresh} :
          h < world.next /\ \A a \in world.actors : a.id = h => a.by = "worker"
    /\ SameWorld =>
          /\ \A h \in journal.rows \cup journal.baseline : h < world.next
          /\ \A a \in world.actors :
                /\ a.id \in journal.rows => a.by = "worker"
                /\ a.id \in journal.baseline => a.by # "worker"

(* A process that began its journal in this world is still connected to it.*)
JournalIsOfItsWorld ==
    /\ journal.episode <= world.episode
    /\ Alive /\ journal.state # "absent" => (Connected <=> SameWorld)

(* What a worker made is there only while its journal is active and of this*)
(* world, and the recovery has not gone past it.                           *)
WorkerIsTraced ==
    /\ session.task # "none" => session.state = "recovering"
    /\ \/ journal.state # "active" \/ ~SameWorld
       \/ session.task # "none" \/ session.state = "settled"
       => \A a \in world.actors : a.by # "worker"

OwnedInv ==
    /\ OwnedTypeOK /\ WorkerFollowsProgram /\ NumbersAreSpent /\ NumbersAreOwn
    /\ JournalIsOfItsWorld /\ WorkerIsTraced /\ WorldIsGivenBack
=============================================================================
