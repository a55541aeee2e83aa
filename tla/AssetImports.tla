----------------------------- MODULE AssetImports -----------------------------
(***************************************************************************)
(* Assets on their way from Blender into the simulator's project: the      *)
(* generation and import attempts of blender_pipeline with the processes   *)
(* they start, the registration of a package's assets (bundle_registration)*)
(* by the bridge (bundle_registration_service) or from the command line    *)
(* (tools/register_bundle_assets.py), which asks for no execution, and what*)
(* must not happen meanwhile: an execution (livery_bridge), or a restart of*)
(* the bridge (restart_studio_bridge.sh, restart_guard).                   *)
(* Two files are only there to be locked.  import.lock: exclusive, held by *)
(* the importing thread and, inherited, by its Unreal process.             *)
(* bridge-restart.lock: shared by every generation and import, inherited   *)
(* by the Blender process; the restart script takes both exclusively.      *)
(***************************************************************************)
EXTENDS Naturals, Sequences, FiniteSets

CONSTANTS
    MaxNames,           \* names an operator chooses for imported assets
    BundleAssets,       \* assets of a package that is registered
    MaxAttempts, MaxGenerations, MaxRegistrations, MaxStarts     \* bounds of a run

ASSUME AssetAssumption ==
    {MaxNames, BundleAssets, MaxAttempts, MaxGenerations, MaxRegistrations, MaxStarts}
        \subseteq Nat

VARIABLES
    bridge,         \* how many bridges have been started, and is the last one up
    attempts,       \* import-attempt-*.json, in the order they were made
    importing,      \* the attempt the bridge or a command line is at, 0: none
    importer,       \* per attempt, its Unreal process
    generations,    \* generation.json files
    generating,     \* the generations the bridge waits for
    blenders,       \* the generations whose Blender is alive
    assets,         \* the simulator's project: name -> attempt that made it
    registry,       \* registry.json: name -> attempt
    registrations,  \* reports of registrations
    active,         \* the one in this bridge's memory
    consoles,       \* those a command line is at, each a process of its own
    restart,        \* restart_studio_bridge.sh
    execution       \* is an execution active, how many attempts were there before

assetVars == <<bridge, attempts, importing, importer, generations, generating, blenders,
               assets, registry, registrations, active, consoles, restart, execution>>
importVars == <<attempts, importing, importer, assets, registry>>
blenderVars == <<generations, generating, blenders>>
registerVars == <<registrations, active, consoles>>
otherVars == <<bridge, restart, execution>>

(* Migrated_<operation>_<index>, or what the operator typed.               *)
Names == {<<0, k>> : k \in 1 .. MaxNames}
         \cup (1 .. MaxRegistrations) \X (1 .. BundleAssets)

Up == bridge.up
ImporterAlive(n) == importer[n] \in {"checking", "writing"}
Importers == {n \in DOMAIN importer : ImporterAlive(n)}

(* The registration an attempt is of, 0: none; one of a command line.      *)
Registration(n) == attempts[n].name[1]
ByConsole(n) == Registration(n) # 0 /\ registrations[Registration(n)].console

(* Mutant of ImportLocked: the lock is not inherited by the process.       *)
ImportLockedByThread == importing # 0 \/ restart # "none"
ImportLocked == importing # 0 \/ Importers # {} \/ restart # "none"

(* Mutant of Admitted: as if Blender did not inherit the shared lock.      *)
AdmittedByThread == importing # 0 \/ generating # {}
Admitted == importing # 0 \/ generating # {} \/ blenders # {}

-----------------------------------------------------------------------------
AssetInit ==
    /\ bridge = [starts |-> 1, up |-> TRUE]
    /\ attempts = <<>> /\ importing = 0 /\ importer = <<>>
    /\ generations = <<>> /\ generating = {} /\ blenders = {}
    /\ assets = [n \in Names |-> 0] /\ registry = [n \in Names |-> 0]
    /\ registrations = <<>> /\ active = 0 /\ consoles = {} /\ restart = "none"
    /\ execution = [on |-> FALSE, after |-> 0]

(* operation_admission, the import lock, and the durable record.           *)
Prepare(name) ==
    /\ Len(attempts) < MaxAttempts /\ ~ImportLocked
    /\ attempts' = Append(attempts, [name |-> name, state |-> "preparing",
                                     worker |-> "not_started", code |-> "none"])
    /\ importer' = Append(importer, "none")
    /\ importing' = Len(attempts')
    /\ UNCHANGED <<blenderVars, assets, registry, registerVars, otherVars>>

(* import_blender_asset.                                                   *)
ImportByHand ==
    /\ Up /\ ~execution.on /\ active = 0
    /\ \E k \in 1 .. MaxNames : Prepare(<<0, k>>)

(* The registrations that a process is at.                                 *)
Registering == consoles \cup ({active} \ {0})

(* The next asset of the package (register_bundle), in the bridge, where no*)
(* execution starts meanwhile, or in the process of a command line, which  *)
(* looks at the locks only.                                                *)
ImportNext(r) ==
    /\ importing = 0 /\ registrations[r].done < BundleAssets
    /\ Prepare(<<r, registrations[r].done + 1>>)

Attempt == attempts[importing]
Become(attempt) == attempts' = [attempts EXCEPT ![importing] = attempt]
Uncertain == [Attempt EXCEPT !.state = "needs_attention"]

(* A registration is over.                                                 *)
Leave(r) ==
    /\ active' = (IF r = active THEN 0 ELSE active)
    /\ consoles' = consoles \ {r}

(* The outcome is recorded, if it can be, and the locks are released; a    *)
(* registration whose import failed is over.                               *)
GiveUpImport(attempt) ==
    /\ importing' = 0
    /\ \/ Become(attempt)
       \/ UNCHANGED attempts
    /\ IF Registration(importing) = 0 THEN UNCHANGED registerVars
       ELSE /\ Leave(Registration(importing))
            /\ \/ registrations' = [registrations EXCEPT
                                      ![Registration(importing)].state = "needs_attention"]
               \/ UNCHANGED registrations

(* A name that is registered is refused; other failures before the launch. *)
RefuseImport ==
    /\ importing # 0 /\ Attempt.state = "preparing"
    /\ GiveUpImport(Uncertain)
    /\ UNCHANGED <<importer, blenderVars, assets, registry, otherVars>>

Launch ==
    /\ importing # 0 /\ Attempt.state = "preparing" /\ registry[Attempt.name] = 0
    /\ Become([Attempt EXCEPT !.state = "importing", !.worker = "launching"])
    /\ importer' = [importer EXCEPT ![importing] = "checking"]
    /\ UNCHANGED <<importing, blenderVars, assets, registry, registerVars, otherVars>>

(* import_generated_asset.py: an existing destination is refused.          *)
CheckDestination(n) ==
    /\ importer[n] = "checking"
    /\ importer' = [importer EXCEPT ![n] = IF assets[attempts[n].name] # 0 THEN "failed"
                                           ELSE "writing"]
    /\ UNCHANGED <<attempts, importing, assets, registry, blenderVars, registerVars, otherVars>>

(* It writes the asset, or some of it, and exits.                          *)
WriteAsset(n) ==
    /\ importer[n] = "writing"
    /\ importer' \in {[importer EXCEPT ![n] = end] : end \in {"succeeded", "failed"}}
    /\ assets' = [assets EXCEPT ![attempts[n].name] = n]
    /\ UNCHANGED <<attempts, importing, registry, blenderVars, registerVars, otherVars>>

(* After 600 s the process is killed; its exit is never recorded.          *)
ImportTimesOut ==
    /\ importing # 0 /\ ImporterAlive(importing)
    /\ importer' = [importer EXCEPT ![importing] = "failed"]
    /\ GiveUpImport(Uncertain)
    /\ UNCHANGED <<blenderVars, assets, registry, otherVars>>

(* The exit code, and the result that goes with it.                        *)
TakeExit ==
    /\ importing # 0 /\ Attempt.worker = "launching" /\ ~ImporterAlive(importing)
    /\ \/ /\ importer[importing] = "succeeded"
          /\ Become([Attempt EXCEPT !.worker = "exited", !.code = "ok"])
          /\ UNCHANGED <<importing, registerVars>>
       \/ GiveUpImport([Uncertain EXCEPT !.worker = "exited", !.code = "error"])
    /\ UNCHANGED <<importer, blenderVars, assets, registry, otherVars>>

RegisterAsset ==
    /\ importing # 0 /\ Attempt.code = "ok" /\ registry[Attempt.name] = 0
    /\ \/ /\ registry' = [registry EXCEPT ![Attempt.name] = importing]
          /\ UNCHANGED <<importing, attempts, registerVars>>
       \/ GiveUpImport(Uncertain) /\ UNCHANGED registry
    /\ UNCHANGED <<importer, blenderVars, assets, otherVars>>

FinishImport ==
    /\ importing # 0 /\ registry[Attempt.name] = importing
    /\ \/ /\ Become([Attempt EXCEPT !.state = "registered"]) /\ importing' = 0
          /\ registrations' = IF Registration(importing) = 0 THEN registrations
                              ELSE [registrations EXCEPT ![Registration(importing)].done = @ + 1]
          /\ UNCHANGED <<active, consoles>>
       \/ GiveUpImport(Uncertain)
    /\ UNCHANGED <<importer, blenderVars, assets, registry, otherVars>>

-----------------------------------------------------------------------------
(* run and _run: Blender is started, waited for, and its exit recorded.    *)
Generate ==
    /\ Up /\ restart = "none" /\ Len(generations) < MaxGenerations
    /\ generations' = Append(generations, "generating")
    /\ generating' = generating \cup {Len(generations')}
    /\ blenders' = blenders \cup {Len(generations')}
    /\ UNCHANGED <<importVars, registerVars, otherVars>>

BlenderExits ==
    /\ \E g \in blenders : blenders' = blenders \ {g}
    /\ UNCHANGED <<importVars, generations, generating, registerVars, otherVars>>

(* exported; failed with a return code; or without one, after 180 s or     *)
(* when the report cannot be written.                                      *)
EndGeneration ==
    /\ \E g \in generating :
          /\ generating' = generating \ {g} /\ blenders' = blenders \ {g}
          /\ \/ /\ g \notin blenders
                /\ \E end \in {"exported", "failed"} :
                      generations' = [generations EXCEPT ![g] = end]
             \/ generations' = [generations EXCEPT ![g] = "uncertain"]
    /\ UNCHANGED <<importVars, registerVars, otherVars>>

-----------------------------------------------------------------------------
(* Mutant of ImportBusy: only what this bridge remembers.                  *)
ImportBusyHere == active # 0 \/ importing # 0

(* require_asset_import_idle: native_import_busy probes the lock.          *)
ImportBusy == active # 0 \/ ImportLocked

StartExecution ==
    /\ Up /\ ~execution.on /\ ~ImportBusy
    /\ execution' = [on |-> TRUE, after |-> Len(attempts)]
    /\ UNCHANGED <<bridge, importVars, blenderVars, registerVars, restart>>
EndExecution ==
    /\ execution.on /\ execution' = [execution EXCEPT !.on = FALSE]
    /\ UNCHANGED <<bridge, importVars, blenderVars, registerVars, restart>>

(* BundleRegistrationService.start: the report, then the thread.           *)
StartRegistration ==
    /\ Up /\ ~execution.on /\ ~ImportBusy
    /\ Len(registrations) < MaxRegistrations
    /\ registrations' = Append(registrations, [state |-> "running", done |-> 0, output |-> FALSE,
                                               console |-> FALSE])
    /\ active' = Len(registrations')
    /\ UNCHANGED <<importVars, blenderVars, consoles, otherVars>>

(* register_bundle_assets.py: at any time, also beside an execution.       *)
RegisterFromConsole ==
    /\ Len(registrations) < MaxRegistrations
    /\ registrations' = Append(registrations, [state |-> "running", done |-> 0, output |-> FALSE,
                                               console |-> TRUE])
    /\ consoles' = consoles \cup {Len(registrations')}
    /\ UNCHANGED <<importVars, blenderVars, active, otherVars>>

Importing(r) == importing # 0 /\ Registration(importing) = r

(* The remapped package is written, then the outcome; either may fail, and *)
(* so does a registration whose next import finds a lock taken.            *)
FinishRegistration(r) ==
    /\ ~Importing(r)
    /\ \/ /\ registrations[r].done = BundleAssets
          /\ registrations' = [registrations EXCEPT ![r].state = "registered", ![r].output = TRUE]
       \/ \E written \in {FALSE, registrations[r].done = BundleAssets},
             state \in {"running", "needs_attention"} :
             registrations' = [registrations EXCEPT ![r].state = state, ![r].output = written]
    /\ Leave(r)
    /\ UNCHANGED <<importVars, blenderVars, otherVars>>

(* The command line is killed; its importer may live on, with the lock.    *)
KillConsole(r) ==
    /\ r \in consoles /\ consoles' = consoles \ {r}
    /\ importing' = (IF Importing(r) THEN 0 ELSE importing)
    /\ UNCHANGED <<attempts, importer, assets, registry, blenderVars, registrations, active,
                   otherVars>>

-----------------------------------------------------------------------------
(* The bridge is gone, its threads and its memory with it; a command line  *)
(* goes on.                                                                *)
AtBridge == importing # 0 /\ Registration(importing) \notin consoles
Gone ==
    /\ importing' = (IF AtBridge THEN 0 ELSE importing)
    /\ generating' = {} /\ active' = 0 /\ UNCHANGED consoles
Started == bridge' = [starts |-> bridge.starts + 1, up |-> TRUE]

CrashBridge ==
    /\ Up /\ bridge' = [bridge EXCEPT !.up = FALSE] /\ Gone
    /\ UNCHANGED <<attempts, importer, assets, registry, generations, blenders, registrations,
                   restart, execution>>

(* stop_surface_studio.sh signals the bridge's process group, which is     *)
(* also its children's, but not that of a command line or of what an       *)
(* earlier bridge has left.                                                *)
StopStudio ==
    /\ Up /\ bridge' = [bridge EXCEPT !.up = FALSE] /\ Gone
    /\ importer' = [n \in DOMAIN importer |->
                      IF AtBridge /\ n = importing /\ ImporterAlive(n) THEN "failed"
                      ELSE importer[n]]
    /\ blenders' = blenders \ generating
    /\ UNCHANGED <<attempts, assets, registry, generations, registrations, restart, execution>>

(* start_surface_studio.sh, or by hand.                                    *)
StartStudio ==
    /\ ~Up /\ bridge.starts < MaxStarts /\ restart = "none" /\ Started
    /\ UNCHANGED <<importVars, blenderVars, registerVars, restart, execution>>

LockForRestart ==
    /\ restart = "none" /\ bridge.starts < MaxStarts /\ ~Admitted /\ ~ImportLocked
    /\ restart' = "locked"
    /\ UNCHANGED <<bridge, importVars, blenderVars, registerVars, execution>>

(* restart_status: a failure is settled if its process had not started or  *)
(* has been seen to exit; everything else that is not done stands in the   *)
(* way.                                                                    *)
SettledImport(a) == a.state = "needs_attention" /\ a.worker \in {"not_started", "exited"}
Unresolved ==
    \/ \E n \in DOMAIN attempts : ~SettledImport(attempts[n]) /\ attempts[n].state # "registered"
    \/ \E g \in DOMAIN generations : generations[g] \notin {"exported", "failed"}

(* check_bridge_restart asks a bridge that is up.                          *)
CheckRestart ==
    /\ restart = "locked"
    /\ restart' = IF Up /\ (Unresolved \/ execution.on) THEN "none" ELSE "checked"
    /\ UNCHANGED <<bridge, importVars, blenderVars, registerVars, execution>>

(* The old bridge is ended, the locks are released, a new one is started.  *)
RestartBridge ==
    /\ restart = "checked" /\ restart' = "none" /\ Started /\ Gone
    /\ UNCHANGED <<attempts, importer, assets, registry, generations, blenders, registrations,
                   execution>>

AssetNext ==
    \/ ImportByHand \/ (\E r \in Registering : ImportNext(r)) \/ RefuseImport \/ Launch
    \/ ImportTimesOut \/ TakeExit \/ RegisterAsset \/ FinishImport
    \/ \E n \in DOMAIN importer : CheckDestination(n) \/ WriteAsset(n)
    \/ Generate \/ BlenderExits \/ EndGeneration
    \/ StartExecution \/ EndExecution \/ StartRegistration \/ RegisterFromConsole
    \/ \E r \in Registering : FinishRegistration(r) \/ KillConsole(r)
    \/ CrashBridge \/ StopStudio \/ StartStudio
    \/ LockForRestart \/ CheckRestart \/ RestartBridge

AssetSpec == AssetInit /\ [][AssetNext]_assetVars

-----------------------------------------------------------------------------
(* A registered asset is the one its own importer made and exited cleanly  *)
(* after (docs/ASSET_IMPORT_ATTEMPTS.md, "Existing destination folders are *)
(* never overwritten"), although an importer may outlive its bridge and    *)
(* the next bridge may import under the same name.                         *)
RegisteredIsOwn ==
    \A name \in Names : registry[name] # 0 =>
        /\ assets[name] = registry[name]
        /\ importer[registry[name]] = "succeeded"

(* The bridge lets no execution start beside an importer, whoever has      *)
(* started that, and starts none beside an execution: what an execution    *)
(* shares the simulator's project with, a command line began after it      *)
(* (livery_bridge.py:404).                                                 *)
NoRunBesideImport ==
    execution.on => \A n \in Importers : ByConsole(n) /\ n > execution.after

(* The restart script never replaces the bridge while a Blender or Unreal  *)
(* process of any bridge is alive (restart_studio_bridge.sh:9-16).         *)
RestartFindsNoProcess ==
    [][restart = "checked" /\ restart' = "none" => Importers = {} /\ blenders = {}]_assetVars

(* A package is reported as registered only with all its assets.           *)
RegistrationIsWhole ==
    \A r \in DOMAIN registrations : registrations[r].state = "registered" =>
        registrations[r].output /\ \A i \in 1 .. BundleAssets : registry[<<r, i>>] # 0

(* What the registry and the reports of registrations say of the assets,   *)
(* and the bridge has no execution meet an importer (asset_registry.py).   *)
ImportsAreTrue == RegisteredIsOwn /\ RegistrationIsWhole /\ NoRunBesideImport

(* No execution ever meets an importer (livery_bridge.py:404-407).  Does   *)
(* not hold: README section 5.                                             *)
RunMeetsNoImporter == execution.on => Importers = {}

(* "Asset generation/import unresolved; inspect before bridge restart"     *)
(* (restart_guard.py:10): a registration in progress is not interrupted.   *)
(* Does not hold: README section 5.                                        *)
RestartSparesRegistration ==
    [][restart = "checked" /\ restart' = "none" => active = 0]_assetVars

(* The inductive invariant behind them (Packages_proofs).                  *)
Attempts == [name : Names,
             state : {"preparing", "importing", "registered", "needs_attention"},
             worker : {"not_started", "launching", "exited"}, code : {"none", "ok", "error"}]
Registrations == [state : {"running", "registered", "needs_attention"},
                  done : 0 .. BundleAssets, output : BOOLEAN, console : BOOLEAN]

AssetTypeOK ==
    /\ bridge \in [starts : Nat, up : BOOLEAN] /\ attempts \in Seq(Attempts)
    /\ importer \in Seq({"none", "checking", "writing", "succeeded", "failed"})
    /\ Len(importer) = Len(attempts) /\ importing \in 0 .. Len(attempts)
    /\ assets \in [Names -> 0 .. Len(attempts)] /\ registry \in [Names -> 0 .. Len(attempts)]
    /\ registrations \in Seq(Registrations)
    /\ Len(registrations) <= MaxRegistrations /\ active \in 0 .. Len(registrations)
    /\ consoles \subseteq DOMAIN registrations
    /\ restart \in {"none", "locked", "checked"} /\ execution \in [on : BOOLEAN, after : Nat]

(* A registration is the bridge's or a command line's.                     *)
RegistrationsApart ==
    /\ \A r \in consoles : registrations[r].console
    /\ active # 0 => ~registrations[active].console
    /\ \A n \in DOMAIN attempts : Registration(n) \in 0 .. Len(registrations)

(* One importer at a time, somebody's or left behind; none beside a restart*)
(* and beside an execution only a command line's.                          *)
ImportersAreAlone ==
    /\ \A m, n \in Importers : m = n
    /\ importing # 0 => Importers \subseteq {importing}
    /\ execution.on =>
          /\ \A n \in Importers \cup ({importing} \ {0}) : ByConsole(n) /\ n > execution.after
          /\ active = 0
    /\ execution.after <= Len(attempts)
    /\ restart # "none" =>
          Importers = {} /\ importing = 0 /\ blenders = {} /\ generating = {}

(* What an importer is about to write is not there, what it has written is *)
(* never written again.                                                    *)
AssetsAreWrittenOnce ==
    \A n \in DOMAIN importer :
        /\ importer[n] = "writing" => assets[attempts[n].name] = 0
        /\ importer[n] = "succeeded" => assets[attempts[n].name] = n

(* The attempt the bridge is at says what its importer has done.           *)
AttemptIsTrue ==
    importing # 0 =>
        /\ Attempt.state = "preparing" => importer[importing] = "none" /\ Attempt.code = "none"
        /\ Attempt.code = "ok" => importer[importing] = "succeeded"
        /\ Registration(importing) # 0 =>
              /\ Registration(importing) \in Registering
              /\ Attempt.name[2] = registrations[Registration(importing)].done + 1

RegistryIsTrue ==
    \A name \in Names : registry[name] # 0 =>
        importer[registry[name]] = "succeeded" /\ attempts[registry[name]].name = name

DoneIsRegistered ==
    \A r \in DOMAIN registrations :
        /\ \A i \in 1 .. registrations[r].done : registry[<<r, i>>] # 0
        /\ registrations[r].state = "registered" =>
              registrations[r].output /\ registrations[r].done = BundleAssets

AssetInv ==
    /\ AssetTypeOK /\ RegistrationsApart /\ ImportersAreAlone /\ AssetsAreWrittenOnce
    /\ AttemptIsTrue /\ RegistryIsTrue /\ DoneIsRegistered
=============================================================================
