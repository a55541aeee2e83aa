------------------------------- MODULE MCStudio -------------------------------
(* Bounds of what the operator does on the studio's pages: the histories   *)
(* of one actor and of its textures, the objects and scenes, driving by    *)
(* hand, the replay of a recording, and the review of a plan.  These share *)
(* no state, so each is run while the others rest.                         *)
EXTENDS EditHistories, SceneEditor, ManualDriving, RecordedTimeline, PlanReview

CONSTANT MaxMixed

VARIABLE part

MCPlaces == {0, 1}

(* Either kind of journal to its full length, or a few operations of both. *)
OperationBudget == moves = 0 \/ edits = 0 \/ moves + edits <= MaxMixed

MCInit ==
    /\ EditInit /\ EditorInit /\ ManualInit /\ TimelineInit /\ PlanInit
    /\ part \in {"histories", "objects", "driving", "replay", "review"}

Histories(A) ==
    /\ part = "histories" /\ A
    /\ UNCHANGED <<editorVars, manualVars, timelineVars, planVars, part>>
Objects(A) ==
    /\ part = "objects" /\ A
    /\ UNCHANGED <<editVars, manualVars, timelineVars, planVars, part>>
Driving(A) ==
    /\ part = "driving" /\ A
    /\ UNCHANGED <<editVars, editorVars, timelineVars, planVars, part>>
Replay(A) ==
    /\ part = "replay" /\ A
    /\ UNCHANGED <<editVars, editorVars, manualVars, planVars, part>>
Review(A) ==
    /\ part = "review" /\ A
    /\ UNCHANGED <<editVars, editorVars, manualVars, timelineVars, part>>

MCNext ==
    \/ Histories(PositionNext /\ UNCHANGED <<materialVars, restores>>)
    \/ Histories(MaterialNext /\ UNCHANGED <<positionVars, restores>>)
    \/ Histories(SceneRestore)
    \/ Objects(Spawn) \/ Objects(MoveActor) \/ Objects(Delete) \/ Objects(Save)
    \/ Objects(Restore) \/ Objects(Duplicate) \/ Objects(LoadWorld)
    \/ \E direction \in {"undo", "redo"} : Objects(SceneHistory(direction))
    \/ \E i \in DOMAIN copies : Objects(UndoCopy(i)) \/ Objects(RedoCopy(i))
    \/ Driving(TimePasses) \/ Driving(StartDrive) \/ Driving(StopDrive) \/ Driving(DriveFrame)
    \/ \E p \in Pages : \/ Driving(OpenPanel(p)) \/ Driving(HoldDown(p)) \/ Driving(Release(p))
                        \/ Driving(SendWish(p)) \/ Driving(ClosePanel(p))
                        \/ Driving(ReadAnswer(p)) \/ Driving(CallFails(p))
    \/ \E c \in calls : Driving(Handle(c)) \/ Driving(LoseCall(c))
    \/ Replay(AdvanceFrame) \/ Replay(Contact) \/ Replay(AuditEdit)
    \/ \E r \in Reviewers : \/ Review(Invalidate(r)) \/ Review(AskCompile(r))
                            \/ Review(AskRevision(r)) \/ Review(CancelRevision(r))
                            \/ Review(Adopt(r)) \/ Review(Tick(r)) \/ Review(AskRun(r))
    \/ \E h \in handlers : Review(CreateFile(h)) \/ Review(WriteFile(h)) \/ Review(AnswerPlan(h))
    \/ \E s \in starts : Review(HandleStart(s))
    \/ Review(ReadPlan) \/ Review(Finish) \/ Review(EndRun) \/ Review(CrashStudioBridge)
    \/ \E plan \in DOMAIN plans : Review(Touch(plan))

MCSpec == MCInit /\ [][MCNext]_<<editVars, editorVars, manualVars, timelineVars, planVars, part>>
=============================================================================
