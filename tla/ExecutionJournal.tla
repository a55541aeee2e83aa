---------------------------- MODULE ExecutionJournal ----------------------------
(***************************************************************************)
(* What the bridge's execution journal promises the code that reads it:    *)
(* one record per run (data/experiments/<run_id>/execution.json), opened   *)
(* before its worker is launched, closed only after that worker has gone,  *)
(* never two open at once, never two for one batch attempt, and never      *)
(* changed once closed.  This is the abstract specification: the module    *)
(* SessionLifecycle shows what the bridge's threads do to keep it, and     *)
(* the batch modules (ExperimentQueue, BatchDispatch) rely on it.          *)
(***************************************************************************)
EXTENDS Naturals

CONSTANTS Runs,   \* execution identities (run_id)
          Tags,   \* batch attempts a run can belong to (batch_attempt_id)
          NoTag   \* a run started from the page, outside any batch

ASSUME JournalAssumption == NoTag \notin Tags

VARIABLE records  \* records[r]: what a reader sees of execution r

Settled == {"completed", "failed", "stopped"}

Record == [phase  : {"absent", "open"} \cup Settled,
           tag    : Tags \cup {NoTag},
           worker : {"none", "live", "gone"}]

Absent == [phase |-> "absent", tag |-> NoTag, worker |-> "none"]

JournalType == records \in [Runs -> Record]

JournalInit == records = [r \in Runs |-> Absent]

\* A start request is admitted: nothing is open, nothing is alive, and the
\* attempt it names has no earlier run.
Begin(r, t) ==
  /\ records[r] = Absent
  /\ \A q \in Runs : records[q].phase # "open" /\ records[q].worker # "live"
  /\ t # NoTag => \A q \in Runs : records[q].tag # t
  /\ records' = [records EXCEPT
                   ![r] = [phase |-> "open", tag |-> t, worker |-> "none"]]

\* The worker process of an open run is spawned.
Launch(r) ==
  /\ records[r].phase = "open" /\ records[r].worker = "none"
  /\ records' = [records EXCEPT ![r].worker = "live"]

\* The worker process exits, or is killed.
Exit(r) ==
  /\ records[r].worker = "live"
  /\ records' = [records EXCEPT ![r].worker = "gone"]

\* The run gets its outcome; a run that never had a worker cannot complete.
Close(r, outcome) ==
  /\ records[r].phase = "open" /\ records[r].worker # "live"
  /\ outcome = "completed" => records[r].worker = "gone"
  /\ records' = [records EXCEPT ![r].phase = outcome]

JournalNext ==
  \E r \in Runs :
    \/ \E t \in Tags \cup {NoTag} : Begin(r, t)
    \/ Launch(r)
    \/ Exit(r)
    \/ \E outcome \in Settled : Close(r, outcome)

JournalSpec == JournalInit /\ [][JournalNext]_records
=================================================================================
