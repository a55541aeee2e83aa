---------------------------- MODULE MCBatchDispatch -----------------------------
(***************************************************************************)
(* One loop inside the bridge and one client outside, on a batch of two    *)
(* jobs.  Runs are uuids, so they are interchangeable.                     *)
(***************************************************************************)
EXTENDS BatchDispatch, TLC

CONSTANTS r1, r2, bridge, cli

MCRuns == {r1, r2}
MCTags == (1..NumJobs) \X (1..MaxAttempts)
MCSymmetry == Permutations(MCRuns)
=================================================================================
