----------------------------- MODULE MCLifecycle ------------------------------
(***************************************************************************)
(* The bridge without a crash, and the map handoff: two parts of one run,  *)
(* which share no state and are each run while the other rests.  The       *)
(* session: two runs, so that a late thread of the first meets the second. *)
(* The handoff: two worlds after the first, so that a review or a request  *)
(* can outlive one that replaced it; two reviews, so that one goes stale   *)
(* while the other is used, and a request that edits before, between or    *)
(* after; two contents, so that an edit shows.  The thread that resumes a  *)
(* session begins only after a crash: see MCSession.                       *)
(***************************************************************************)
EXTENDS SessionLifecycle, SceneHandoff

VARIABLE part   \* "session" or "handoff"

InSession(A) == part = "session" /\ A /\ UNCHANGED <<handoffVars, part>>
InHandoff(A) == part = "handoff" /\ A /\ UNCHANGED <<vars, part>>

MCInit == Init /\ HandoffInit /\ part \in {"session", "handoff"}

MCNext ==
    \/ \E r \in Runs, kind \in Kinds : InSession(StartBegin(r, kind))
    \/ InSession(StartContinue)
    \/ \E r \in Runs : InSession(FinishStep(r)) \/ InSession(WorkerStep(r))
    \/ InSession(StopSignal) \/ InSession(StopMark)
    \/ InSession(RecoverRestore) \/ InSession(RecoverClose)
    \/ \E t \in Reviews :
          InHandoff(Preview(t)) \/ InHandoff(ReviewExpires(t)) \/ InHandoff(Confirm(t))
    \/ InHandoff(PerformStep) \/ InHandoff(Acknowledge)
    \/ \E q \in Requests : InHandoff(Arrive(q)) \/ InHandoff(Admit(q)) \/ InHandoff(Act(q))
    \/ InHandoff(RunBegins) \/ InHandoff(RunActs) \/ InHandoff(RunMoves)
    \/ InHandoff(CrashRestart)

MCSpec == MCInit /\ [][MCNext]_<<vars, handoffVars, part>> /\ WF_handoffVars(PerformStep)
=============================================================================
