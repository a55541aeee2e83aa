------------------------------ MODULE MCRecording ------------------------------
(* Bounds of a run that is driven and of its recordings, which share no    *)
(* state here: each is run while the other rests.                          *)
EXTENDS DrivingRun, CaptureStore

CONSTANT MaxDirectories

VARIABLE part

FewDirectories == Len(disk) <= MaxDirectories

(* Either the measurements vary, or the recording and the edits.           *)
OneMatter ==
    IF drive.capture = "off" THEN Len(bumps.sent) <= 1 /\ scene.pose = 0
    ELSE Cardinality(evidence.trace) <= Cardinality(Measured) /\ ~spec.collisionFails

MCInit ==
    /\ DrivingInit /\ CaptureInit /\ part \in {"driving", "recording"}
    /\ part # "driving" => /\ drive.kind = "rule" /\ drive.capture = "off"
                           /\ spec = [trigger |-> [a \in Adversaries |-> 0], collisionFails |-> TRUE]

Driving(A) == part = "driving" /\ A /\ UNCHANGED <<captureVars, part>>
Recording(A) == part = "recording" /\ A /\ UNCHANGED <<drivingVars, part>>

MCNext ==
    \/ Driving(Stop) \/ Driving(StartUp) \/ Driving(PlaceActors) \/ Driving(PlaceScenery)
    \/ Driving(PlaceObstacles) \/ Driving(Prepare) \/ Driving(Poll) \/ Driving(Edit)
    \/ Driving(Tick) \/ Driving(Collide) \/ Driving(Receive) \/ Driving(Capture)
    \/ Driving(Row) \/ Driving(Measure) \/ Driving(Evaluate) \/ Driving(Hold)
    \/ Driving(CleanUpRun)
    \/ Recording(StartExecution) \/ Recording(EndSession) \/ Recording(AskRecording)
    \/ Recording(Frame) \/ Recording(FrameFails) \/ Recording(InterruptFrame)
    \/ Recording(EndWorker) \/ Recording(KillWorker)
    \/ \E kind \in {"recovery", "excerpt", "archive", "quality"}, name \in DOMAIN disk :
          Recording(StartJob(kind, name))
    \/ Recording(CopySource) \/ Recording(VerifyCopy) \/ Recording(LockRoot)
    \/ Recording(PublishCopy) \/ Recording(EndJob) \/ Recording(CrashStudio)
    \/ Recording(EndValidator)

MCSpec == MCInit /\ [][MCNext]_<<drivingVars, captureVars, part>>
=============================================================================
