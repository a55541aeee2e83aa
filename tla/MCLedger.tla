-------------------------------- MODULE MCLedger --------------------------------
(***************************************************************************)
(* The ledger of a batch and what is concluded from it: two parts of one   *)
(* run, chosen in the initial state.  The ledger: two jobs with two        *)
(* attempts each beside a journal of four executions, enough for every job *)
(* to fail, be retried to the limit, and for a run of the page to take the *)
(* world in between.  The reports: the same jobs, two variants of the      *)
(* weather and one of the rest, with three runs.                           *)
(* Runs are uuids, so they are interchangeable.                            *)
(***************************************************************************)
EXTENDS ExperimentReports, TLC

CONSTANTS r1, r2, r3, r4

VARIABLE part   \* "ledger" or "reports"

MCRuns == {r1, r2, r3, r4}
MCTags == (1..2) \X (1..2)
MCSizes == <<1, 1, 2, 1, 1>>
MCSymmetry == Permutations(MCRuns)

Ledger(A) == part = "ledger" /\ A /\ UNCHANGED <<left, archive, reader, part>>
Reports(A) == part = "reports" /\ A /\ UNCHANGED part

MCInit ==
  \/ part = "reports" /\ ReportInit
  \/ /\ part = "ledger" /\ QueueInit
     /\ left = [r \in Runs |-> Nothing]
     /\ archive = [j \in Jobs |-> "whole"] /\ reader = NoReport

MCNext ==
  \/ Ledger(\E j \in Jobs : LedgerStep(j))
  \/ Ledger(\E b \in BOOLEAN : SetPaused(b))
  \/ Ledger(JournalStep)
  \/ Reports(LedgerMoves)
  \/ Reports(\E j \in Jobs : ArchiveScenario(j))
  \/ Reports(\E j \in Jobs : PreparationFails(j))
  \/ Reports(BatchRunBegins)
  \/ Reports(RunLaunches)
  \/ Reports(RunExits)
  \/ Reports(RunCloses)
  \/ Reports(ReadLedger)
  \/ Reports(Summarize)

MCSpec == MCInit /\ [][MCNext]_<<reportVars, part>>
=================================================================================
