---------------------------- MODULE QualityReports ----------------------------
(***************************************************************************)
(* The audit of one recording (quality_service.py): a thread of the bridge *)
(* runs a validator process on it and publishes a report; an older report  *)
(* goes to the history first.  The validator inherits the lease of the     *)
(* service, so it keeps other bridges from a second scan when its own is   *)
(* gone.  What the recording holds is a number: odd is damaged.  The       *)
(* freshness of a report is that of the manifest, so a change here is one  *)
(* that shows in the manifest.                                             *)
(***************************************************************************)
EXTENDS Naturals, FiniteSets

CONSTANTS MaxScans, MaxVersions, MaxLost         \* bounds of a run

VARIABLES content,      \* what the recording holds
          onDisk,       \* the report of the recording, "none" if there is none
          history,      \* the reports before it
          scan,         \* the scan of this bridge: [step, id, before, result]
          failure,      \* a report of this bridge it could not write
          validators,   \* validator processes that are alive
          lease,        \* the processes that hold the lease's file
          scans, dead   \* scans begun, bridges lost

qualityVars == <<content, onDisk, history, scan, failure, validators, lease, scans, dead>>

Rest == [step |-> "none", id |-> 0, before |-> 0, result |-> "none"]
Report(id, state, of) == [id |-> id, state |-> state, of |-> of]
None == Report(0, "none", 0)
Bridge == 0      \* among the holders of the lease; a validator is its scan

(* validate_capture_dataset.py: index, samples and their sensors agree.    *)
Sound(version) == version % 2 = 0

QualityInit ==
    /\ content \in {0, 1} /\ onDisk = None /\ history = {} /\ scan = Rest /\ failure = None
    /\ validators = {} /\ lease = {} /\ scans = 0 /\ dead = 0

(* start: the lease, then _start_admitted, step by step.                   *)
StartScan ==
    /\ scan = Rest /\ lease = {} /\ scans < MaxScans
    /\ lease' = {Bridge} /\ scans' = scans + 1
    /\ scan' = [Rest EXCEPT !.step = "admitted", !.id = scans + 1]
    /\ UNCHANGED <<content, onDisk, history, failure, validators, dead>>

ArchiveOld ==
    /\ scan.step = "admitted" /\ scan' = [scan EXCEPT !.step = "archived"]
    /\ history' = IF onDisk = None THEN history ELSE history \cup {onDisk}
    /\ UNCHANGED <<content, onDisk, failure, validators, lease, scans, dead>>

WritePending ==
    /\ scan.step = "archived" /\ scan' = [scan EXCEPT !.step = "pending"]
    /\ onDisk' = Report(scan.id, "running", content) /\ failure' = None
    /\ UNCHANGED <<content, history, validators, lease, scans, dead>>

(* One of these writes, or the start of the thread, fails.                 *)
StartFails ==
    /\ scan.step \in {"admitted", "archived", "pending"} /\ scan' = Rest /\ lease' = {}
    /\ UNCHANGED <<content, onDisk, history, failure, validators, scans, dead>>

(* Mutant of Spawn: the lease is not handed on.                            *)
SpawnAlone ==
    /\ scan.step = "pending" /\ scan' = [scan EXCEPT !.step = "scanning", !.before = content]
    /\ validators' = validators \cup {scan.id}
    /\ UNCHANGED <<content, onDisk, history, failure, lease, scans, dead>>

(* audit_capture, with the lease among the validator's files.              *)
Spawn ==
    /\ scan.step = "pending" /\ scan' = [scan EXCEPT !.step = "scanning", !.before = content]
    /\ validators' = validators \cup {scan.id} /\ lease' = lease \cup {scan.id}
    /\ UNCHANGED <<content, onDisk, history, failure, scans, dead>>

(* The validator has read what is there by now, or was stopped after 300   *)
(* seconds.                                                                *)
ValidatorEnds ==
    /\ \E v \in validators :
          /\ validators' = validators \ {v} /\ lease' = lease \ {v}
          /\ IF v = scan.id
             THEN \E result \in {IF Sound(content) THEN "passed" ELSE "failed", "incomplete"} :
                     scan' = [scan EXCEPT !.step = "scanned", !.result = result]
             ELSE UNCHANGED scan
    /\ UNCHANGED <<content, onDisk, history, failure, scans, dead>>

Result == IF content = scan.before THEN scan.result ELSE "incomplete"

(* The report is written, or kept in memory; the lease is given back.      *)
Publish ==
    /\ scan.step = "scanned"
    /\ \/ onDisk' = Report(scan.id, Result, scan.before) /\ failure' = None
       \/ failure' = Report(scan.id, "incomplete", 0) /\ UNCHANGED onDisk
    /\ scan' = Rest /\ lease' = {}
    /\ UNCHANGED <<content, history, validators, scans, dead>>

CrashBridge ==
    /\ dead < MaxLost /\ dead' = dead + 1
    /\ scan' = Rest /\ failure' = None /\ lease' = lease \ {Bridge}
    /\ UNCHANGED <<content, onDisk, history, validators, scans>>

(* Somebody changes the recording by hand.                                 *)
ChangeContent ==
    /\ content < MaxVersions /\ content' = content + 1
    /\ UNCHANGED <<onDisk, history, scan, failure, validators, lease, scans, dead>>

QualityNext ==
    \/ StartScan \/ ArchiveOld \/ WritePending \/ StartFails \/ Spawn \/ ValidatorEnds
    \/ Publish \/ CrashBridge \/ ChangeContent

QualitySpec == QualityInit /\ [][QualityNext]_qualityVars

(* status: what the studio shows.  A scan of another life of the bridge    *)
(* is shown as incomplete.                                                 *)
Shown ==
    CASE scan.step \in {"pending", "scanning", "scanned"} -> Report(scan.id, "running", 0)
      [] failure # None -> failure
      [] onDisk.state = "running" -> [onDisk EXCEPT !.state = "incomplete"]
      [] OTHER -> onDisk

-----------------------------------------------------------------------------
(* One scan at a time, also when a bridge dies and its validator does not  *)
(* (quality_service.py:1, "One background dataset scan at a time").        *)
OneValidator == Cardinality(validators) <= 1

(* A recording shown as passed and unchanged holds what a validator found  *)
(* sound, however scans, crashes and changes by hand meet.                 *)
PassedIsSound == Shown.state = "passed" /\ Shown.of = content => Sound(content)

(* A report that says how a scan ended is never lost.                      *)
OutcomesAreKept ==
    [][ onDisk.state \in {"passed", "failed", "incomplete"} /\ onDisk' # onDisk =>
          onDisk \in history' ]_qualityVars

(* The audit is evidence (quality_service.py:1, "explicitly dated          *)
(* evidence"): of one scan at a time, true of what it names, and kept.     *)
AuditIsEvidence == [](OneValidator /\ PassedIsSound) /\ OutcomesAreKept

(* The inductive invariant behind them (QualityReports_proofs).  A scan    *)
(* has the lease from its admission on, its validator has it as well, and  *)
(* who is left of the two keeps it; a report is replaced only by a scan    *)
(* that has put it aside; and a result is of what was there before the     *)
(* validator ran, if that is still there.                                  *)
Steps == {"none", "admitted", "archived", "pending", "scanning", "scanned"}
States == {"none", "running", "passed", "failed", "incomplete"}
Reports == [id : Nat, state : States, of : Nat]

QualityTypeOK ==
    /\ content \in Nat /\ scans \in Nat /\ dead \in Nat
    /\ scan \in [step : Steps, id : Nat, before : Nat, result : States]
    /\ scan.step # "none" => scan.id # 0
    /\ onDisk \in Reports /\ failure \in Reports
    /\ validators \subseteq Nat \ {0}

LeaseIsHeld ==
    /\ scan.step = "none" =>
          scan = Rest /\ lease = validators /\ \A v, w \in validators : v = w
    /\ scan.step \in {"admitted", "archived", "pending", "scanned"} =>
          lease = {Bridge} /\ validators = {}
    /\ scan.step = "scanning" => lease = {Bridge, scan.id} /\ validators = {scan.id}

OldIsArchived ==
    /\ scan.step = "archived" => onDisk = None \/ onDisk \in history
    /\ scan.step \in {"pending", "scanning", "scanned"} => onDisk.state = "running"

ResultIsOfBefore ==
    /\ scan.before <= content /\ failure.state \in {"none", "incomplete"}
    /\ scan.step = "scanned" /\ scan.result = "passed" /\ scan.before = content =>
          Sound(content)
    /\ onDisk.state = "passed" => Sound(onDisk.of)

QualityInv == QualityTypeOK /\ LeaseIsHeld /\ OldIsArchived /\ ResultIsOfBefore
=============================================================================
