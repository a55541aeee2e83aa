--------------------------- MODULE ExperimentReports ---------------------------
(***************************************************************************)
(* What a batch is compiled from and what is concluded from it: the plan   *)
(* (experiment_matrix), the archived scenario of each job                  *)
(* (experiment_scenario, scenario_archive), the result file a worker       *)
(* leaves, its assessment by the bridge (_benchmark_result_failed in       *)
(* _finish_e2e), and the report on the ledger (experiment_report,          *)
(* batch_catalog).  A report reads the ledger first and the result files   *)
(* of its completed executions afterwards, while the batch goes on.        *)
(***************************************************************************)
EXTENDS ExperimentQueue, Integers, FiniteSets

CONSTANTS
    Sizes,          \* the number of variants of each axis, in the order of AXES
    MAX_JOBS,
    Durations,      \* elapsed_s of a run
    MaxBatchRuns    \* runs of the batch, a bound of the checker

Axes == 1 .. 5      \* scenes, models, weather, textures, seeds

ASSUME ReportAssumption ==
    /\ Sizes \in [Axes -> Nat \ {0}]
    /\ NumJobs = Sizes[1] * Sizes[2] * Sizes[3] * Sizes[4] * Sizes[5]
    /\ NumJobs <= MAX_JOBS
    /\ MaxBatchRuns \in Nat

VARIABLES
    left,       \* what the worker of a run left: the result file, or why none
    archive,    \* the archived scenario of each job
    reader      \* the last report asked for

reportVars == <<queueVars, left, archive, reader>>

(* itertools.product: the last axis varies fastest, and the one before it  *)
(* moves on when all of its variants have been through.                    *)
Rounds(j) ==
    LET seeds == j - 1
        textures == seeds \div Sizes[5]
        weather == textures \div Sizes[4]
        models == weather \div Sizes[3]
        scenes == models \div Sizes[2]
    IN  <<scenes, models, weather, textures, seeds>>

Variant(j, axis) == (Rounds(j)[axis] % Sizes[axis]) + 1

(* A result file: what metrics.evaluate says, or "none", which stands for  *)
(* a missing or torn file and for an exit code, a start or a cleanup that  *)
(* failed.                                                                 *)
Nothing == [status |-> "none", elapsed |-> 0]
Left(status, elapsed) == [status |-> status, elapsed |-> elapsed]
Driven == {"passed", "critical"}

(* A run stopped by the operator writes "stopped", or is interrupted after *)
(* its result was written; its exit is 0 or 130 in either case.            *)
Leavings ==
    {Nothing, Left("stopped", 0)}
        \cup {Left(status, t) : status \in Driven, t \in Durations}

(* The statuses that are accepted as those of a driving outcome.           *)
Accepted == {"passed", "failed"}
BenchmarkResultFailed(result) == result.status \notin Accepted

Outcome(result) ==
    IF result.status = "stopped" THEN "stopped"
    ELSE IF BenchmarkResultFailed(result) THEN "failed" ELSE "completed"

-----------------------------------------------------------------------------
(* The report.  A row of a job: its state, its attempts, the execution,    *)
(* and the driving metrics of a completed one, or the error that was met.  *)

NoReport == [at |-> "idle", job |-> <<>>, tries |-> <<>>, attempt |-> <<>>,
             rows |-> <<>>, all |-> FALSE]

(* Mutant of Credited: a retried job keeps the outcome it had.             *)
CreditedAnyway(ledger, j) == ledger.tries[j] > 0

(* A pending job inherits nothing of the attempt before.                   *)
Credited(ledger, j) == ledger.tries[j] > 0 /\ ledger.job[j] # "pending"

Execution(ledger, j) ==
    IF Credited(ledger, j) THEN ledger.attempt[<<j, ledger.tries[j]>>].execution ELSE NoRun

(* verified_rule_metrics: an error stands in the row for a result that is  *)
(* not accepted.                                                           *)
Metrics(ledger, j) ==
    LET r == Execution(ledger, j)
    IN  IF ledger.job[j] # "completed" THEN Nothing
        ELSE IF r = NoRun \/ left[r].status \notin Accepted THEN Left("unverified", 0)
        ELSE left[r]

Row(ledger, j) ==
    [state |-> ledger.job[j], attempts |-> ledger.tries[j],
     execution |-> Execution(ledger, j), metrics |-> Metrics(ledger, j)]

(* compare_variants: two jobs that differ in the axis, and only there, are *)
(* comparable if both are completed with metrics over the same time.       *)
SameCondition(j, k, axis) ==
    /\ Variant(j, axis) # Variant(k, axis)
    /\ \A other \in Axes \ {axis} : Variant(j, other) = Variant(k, other)

Measured(row) == row.state = "completed" /\ row.metrics.status \in Accepted

Comparable(rows, j, k) ==
    /\ Measured(rows[j]) /\ Measured(rows[k])
    /\ rows[j].metrics.elapsed = rows[k].metrics.elapsed

-----------------------------------------------------------------------------
ReportInit ==
    /\ QueueInit
    /\ left = [r \in Runs |-> Nothing]
    /\ archive = [j \in Jobs |-> "absent"]
    /\ reader = NoReport

LedgerMoves ==
    /\ \E j \in Jobs : Claim(j) \/ Reconcile(j) \/ Retry(j) \/ \E r \in Runs : Bind(j, r)
    /\ UNCHANGED <<left, archive, reader>>

(* archive_scenario creates plan-<digest>.json and writes it; a process    *)
(* that dies in between leaves the part it wrote under the name of the     *)
(* whole.  Nobody else writes it meanwhile: the dispatcher holds its lock. *)
ArchiveScenario(j) ==
    /\ job[j] = "reserved" /\ archive[j] = "absent" /\ Find(Latest(j)) = {}
    /\ \E file \in {"partial", "whole"} : archive' = [archive EXCEPT ![j] = file]
    /\ UNCHANGED <<queueVars, left, reader>>

(* The preparation fails: an unsupported configuration, a scenario that is *)
(* not valid, or an archive that differs from its content identity.        *)
PreparationFails(j) ==
    /\ PrepareFailed(j)
    /\ UNCHANGED <<left, archive, reader>>

(* read_verified_scenario: the worker runs the document of that digest.    *)
StartsFrom(j) == archive[j] = "whole"

(* Runs of the page and the pause are in ExperimentQueue; they change      *)
(* nothing that a report reads.                                            *)
BatchRunBegins ==
    /\ Cardinality({r \in Runs : records[r] # Absent}) < MaxBatchRuns
    /\ \E r \in Runs, t \in Tags :
          attempt[t].state = "reserved" /\ StartsFrom(t[1]) /\ Begin(r, t)
    /\ UNCHANGED <<job, tries, attempt, paused, refused, left, archive, reader>>

RunLaunches ==
    /\ \E r \in Runs : Launch(r)
    /\ UNCHANGED <<job, tries, attempt, paused, refused, left, archive, reader>>

(* The worker writes its result, if it comes to that, and is gone.         *)
RunExits ==
    /\ \E r \in Runs : Exit(r) /\ \E result \in Leavings : left' = [left EXCEPT ![r] = result]
    /\ UNCHANGED <<job, tries, attempt, paused, refused, archive, reader>>

(* _finish_e2e: the result of a run that ended in order is assessed.  A    *)
(* run that got no worker fails.                                           *)
RunCloses ==
    /\ \E r \in Runs :
          Close(r, IF records[r].worker = "none" THEN "failed" ELSE Outcome(left[r]))
    /\ UNCHANGED <<job, tries, attempt, paused, refused, left, archive, reader>>

(* BatchCatalog.read: one reading of the ledger.                           *)
ReadLedger ==
    /\ reader.at # "read"
    /\ reader' = [NoReport EXCEPT !.at = "read", !.job = job, !.tries = tries,
                                  !.attempt = attempt]
    /\ UNCHANGED <<queueVars, left, archive>>

(* summarize_queue: the rows, with the result files as they are now.       *)
Summarize ==
    /\ reader.at = "read"
    /\ reader' = [NoReport EXCEPT !.at = "shown",
          !.rows = [j \in Jobs |-> Row(reader, j)],
          !.all = \A j \in Jobs : reader.job[j] = "completed"]
    /\ UNCHANGED <<queueVars, left, archive>>

ReportNext ==
    \/ LedgerMoves
    \/ \E j \in Jobs : ArchiveScenario(j)
    \/ \E j \in Jobs : PreparationFails(j)
    \/ BatchRunBegins \/ RunLaunches \/ RunExits \/ RunCloses
    \/ ReadLedger \/ Summarize

ReportSpec == ReportInit /\ [][ReportNext]_reportVars

-----------------------------------------------------------------------------
(* The jobs of a plan are the combinations of its variants, each once, so  *)
(* that no two rows of a report stand for one condition ("Ambiguous        *)
(* duplicate comparison condition").                                       *)
ConditionsAreDistinct ==
    \A j, k \in Jobs : j # k => \E axis \in Axes : Variant(j, axis) # Variant(k, axis)

(* A row that credits an execution names the one launched for its latest   *)
(* attempt, and its metrics are what that very run left behind; a job that *)
(* waits for another attempt shows nothing of the one before               *)
(* (experiment_report.py:139).  The run had the archived scenario of its   *)
(* job, whole, in front of it, although a crash may leave a part of it     *)
(* under that name.                                                        *)
RowIsOwn(j) ==
    LET row == reader.rows[j]
    IN  /\ row.execution # NoRun => records[row.execution].tag = <<j, row.attempts>>
        /\ row.state = "pending" => row.execution = NoRun
        /\ row.state = "completed" =>
              /\ row.metrics = left[row.execution] /\ Measured(row)
              /\ archive[j] = "whole"

(* Whatever the batch does after the reading: what was completed stays     *)
(* completed, by that execution, so a report of a finished batch and the   *)
(* differences it supports are never out of date.                          *)
RowStaysTrue(j) ==
    reader.rows[j].state = "completed" =>
        /\ job[j] = "completed"
        /\ attempt[Latest(j)].execution = reader.rows[j].execution

PairsAreFair ==
    \A j, k \in Jobs : \A axis \in Axes :
        SameCondition(j, k, axis) /\ Comparable(reader.rows, j, k) =>
            /\ reader.rows[j].execution # reader.rows[k].execution
            /\ \A i \in {j, k} : left[reader.rows[i].execution].status \in Accepted

ReportIsTrue ==
    /\ ConditionsAreDistinct
    /\ reader.at = "shown" =>
          /\ \A j \in Jobs : RowIsOwn(j) /\ RowStaysTrue(j)
          /\ PairsAreFair
          /\ reader.all => \A j \in Jobs : job[j] = "completed"

-----------------------------------------------------------------------------
(* The inductive invariant of the report: what a run left is assessed when *)
(* it is closed and stays, an archive a run has started from is whole, and *)
(* what was read of the ledger, or is shown of it, still holds.            *)
ReportTypeOK ==
    /\ left \in [Runs -> Leavings]
    /\ archive \in [Jobs -> {"absent", "partial", "whole"}]
    /\ reader.at \in {"idle", "read", "shown"}
    /\ reader.at = "read" =>
          /\ reader.job \in [Jobs -> {"pending"} \cup Active \cup Settled]
          /\ reader.tries \in [Jobs -> 0 .. MaxAttempts]
          /\ reader.attempt \in [AttemptIds -> Attempt]

OutcomeIsLeft ==
    \A r \in Runs : records[r].phase = "completed" =>
        records[r].worker = "gone" /\ left[r].status \in Accepted

StartedFromWhole == \A r \in Runs : records[r].tag # NoTag => StartsFrom(records[r].tag[1])

(* What is said of a job's n-th attempt, and its execution r.              *)
StillHolds(j, state, n, r) ==
    /\ r \in Runs \cup {NoRun} /\ n \in 0 .. MaxAttempts
    /\ r # NoRun => <<j, n>> \in AttemptIds /\ records[r].tag = <<j, n>>
    /\ state = "pending" => r = NoRun
    /\ state = "completed" =>
          /\ job[j] = "completed" /\ tries[j] = n /\ r # NoRun
          /\ attempt[<<j, n>>].execution = r /\ records[r].phase = "completed"

ReadStillHolds ==
    reader.at = "read" =>
        \A j \in Jobs : StillHolds(j, reader.job[j], reader.tries[j], Execution(reader, j))

ShownStillHolds ==
    reader.at = "shown" =>
        /\ \A j \in Jobs :
              LET row == reader.rows[j]
              IN  /\ StillHolds(j, row.state, row.attempts, row.execution)
                  /\ row.state = "completed" => row.metrics = left[row.execution]
        /\ reader.all => \A j \in Jobs : reader.rows[j].state = "completed"

ReportInv ==
    /\ QueueInv /\ ReportTypeOK /\ OutcomeIsLeft /\ StartedFromWhole
    /\ ReadStillHolds /\ ShownStillHolds

-----------------------------------------------------------------------------
(* "A valid driving failure is still a completed execution"                *)
(* (livery_bridge.py:316; tests/test_studio_bridge.py:1289).  It does not  *)
(* hold: README, section 5.                                                *)
CriticalRunCompletes ==
    \A r \in Runs :
        left[r].status \in Driven /\ records[r].phase \in Settled =>
            records[r].phase = "completed"
=============================================================================
