------------------------------ MODULE DrivingRun -------------------------------
(***************************************************************************)
(* One scenario driven by the rule worker (carla_adapter.run) or by a      *)
(* model (native_executor.run): the scenario is placed, the frames are     *)
(* driven, measured and recorded, a verdict is reached (metrics.evaluate)  *)
(* and told.  Beside the loop the sensors call back, the simulator collides*)
(* the ego with something, and the operator stops the run.                 *)
(***************************************************************************)
EXTENDS Naturals, Sequences, FiniteSets

CONSTANTS
    Adversaries,    \* actors with a trigger
    Obstacles,      \* parts of the generated assets, every one of them needed
    Scenery,        \* roadside actors, placed as far as there is room
    MaxFrames,      \* steps of the oracle's max_duration_s
    MaxStamps,      \* collisions the simulator reports, a bound of a run
    Capacity        \* of the buffer of collision events

ASSUME DrivingAssumption ==
    /\ {MaxFrames, MaxStamps} \subseteq Nat /\ Capacity \in Nat \ {0}
    /\ Adversaries \cap (Obstacles \cup Scenery) = {} /\ Obstacles \cap Scenery = {}

VARIABLES
    spec,       \* the scenario: who triggers when, does a collision fail it
    drive,      \* the run: its kind, the step it is at, the frame, the recording
    scene,      \* who is placed, the poses as they are and as they were imaged
    bumps,      \* collisions: the flag of the run, the buffer of the recording
    evidence,   \* what is written of the frames: trace, samples, rows
    least,      \* min_distance and min_ttc so far
    triggers,   \* how often each adversary was triggered
    outcome     \* the verdict, who was told, what the dataset says

drivingVars == <<spec, drive, scene, bumps, evidence, least, triggers, outcome>>

(* A distance or a time is below the limit of the oracle or not; a trigger *)
(* reaches as far as that limit or farther.  No closing is a long time.    *)
Levels == 0 .. 1
MinDistance == 1
MinTTC == 1
Measured == Adversaries \cup Obstacles
Required == {"ego"} \cup Measured

Setup == <<"startup", "ego", "adversaries", "scenery", "obstacles", "prepare">>
Ending == <<"evaluate", "hold", "clean", "ended">>

(* Mutant of Round: edits come between the frame and its recording.        *)
RoundEditsLate(kind) ==
    IF kind = "rule" THEN <<"poll", "tick", "edit", "capture", "row", "measure">>
    ELSE <<"tick", "edit", "capture", "measure">>

(* The steps of a frame.                                                   *)
Round(kind) ==
    IF kind = "rule" THEN <<"poll", "edit", "tick", "capture", "row", "measure">>
    ELSE <<"tick", "capture", "edit", "measure">>
Steps(kind) == Setup \o Round(kind) \o Ending

Doing(step) == drive.step = step
After(step) ==
    LET all == Steps(drive.kind)
        n == CHOOSE n \in DOMAIN all : all[n] = step
    IN  all[n + 1]
Following == After(drive.step)
Advance == drive' = [drive EXCEPT !.step = Following]
GoTo(step) == drive' = [drive EXCEPT !.step = step]

(* An exception leaves the try: only the cleanup is still done.            *)
Abort == drive' = [drive EXCEPT !.step = "clean", !.failed = TRUE]

-----------------------------------------------------------------------------
DrivingInit ==
    /\ spec \in [trigger : [Adversaries -> 0 .. 1], collisionFails : BOOLEAN]
    /\ \E kind \in {"rule", "native"}, capture \in {"off", "ready"} :
          drive = [kind |-> kind, step |-> "startup", frame |-> 0, stop |-> FALSE,
                   stopped |-> FALSE, capture |-> capture, failed |-> FALSE]
    /\ scene = [placed |-> {}, pose |-> 0, imaged |-> 0]
    /\ bumps = [sent |-> <<>>, hit |-> FALSE, seen |-> 0, buffer |-> <<>>, dropped |-> 0,
                from |-> 0, saved |-> {}, savedDropped |-> 0]
    /\ evidence = [trace |-> {}, frames |-> 0, samples |-> {}, rows |-> 0, flagged |-> FALSE]
    /\ least = [distance |-> 2, ttc |-> 2]
    /\ triggers = [a \in Adversaries |-> 0]
    /\ outcome = [status |-> "none", collision |-> FALSE, told |-> "none", dataset |-> "none",
                clean |-> FALSE]

(* The operator's stop: a flag that a rule worker looks at, an exception   *)
(* in a native one, wherever it is.                                        *)
Stop ==
    /\ ~drive.stop /\ drive.step \notin {"clean", "ended"}
    /\ drive' = IF drive.kind = "rule" THEN [drive EXCEPT !.stop = TRUE]
                ELSE [drive EXCEPT !.stop = TRUE, !.failed = TRUE,
                                   !.step = IF Doing("startup") THEN "ended" ELSE "clean"]
    /\ UNCHANGED <<spec, scene, bumps, evidence, least, triggers, outcome>>

(* The head of run: RuleRunCancelled, the world loaded, the owner's guards;*)
(* anything here that fails ends the run before it has touched the world.  *)
StartUp ==
    /\ Doing("startup")
    /\ \/ ~drive.stop /\ Advance /\ UNCHANGED outcome
       \/ /\ drive.stop /\ GoTo("ended")
          /\ outcome' = [outcome EXCEPT !.told = "stopped"]
       \/ drive' = [drive EXCEPT !.step = "ended", !.failed = TRUE] /\ UNCHANGED outcome
    /\ UNCHANGED <<spec, scene, bumps, evidence, least, triggers>>

Place(actors) == scene' = [scene EXCEPT !.placed = @ \cup actors]

(* _spawn and _spawn_interaction_actor: the ego and each adversary must    *)
(* find a blueprint, a place on the road, and room.                        *)
PlaceActors ==
    /\ \/ Doing("ego") /\ \/ Place({"ego"}) /\ Advance
                          \/ UNCHANGED scene /\ Abort
       \/ /\ Doing("adversaries")
          /\ \E found \in SUBSET Adversaries :
                Place(found) /\ IF found = Adversaries THEN Advance ELSE Abort
    /\ UNCHANGED <<spec, bumps, evidence, least, triggers, outcome>>

(* _spawn_environment: what finds no room is left out, and the road may    *)
(* end; an error ends the run.                                             *)
PlaceScenery ==
    /\ Doing("scenery")
    /\ \E found \in SUBSET Scenery : Place(found)
    /\ Advance \/ Abort
    /\ UNCHANGED <<spec, bumps, evidence, least, triggers, outcome>>

(* _spawn_generated_asset: a part without room, or a road that ends before *)
(* the last part, is an error; the parts so far are the cleanup's.         *)
PlaceObstacles ==
    /\ Doing("obstacles")
    /\ \E found \in SUBSET Obstacles :
          Place(found) /\ IF found = Obstacles THEN Advance ELSE Abort
    /\ UNCHANGED <<spec, bumps, evidence, least, triggers, outcome>>

(* Sensors, recorder and model; a sensor that does not honour its contract *)
(* is an error.                                                            *)
Prepare ==
    /\ Doing("prepare")
    /\ \/ Advance
       \/ Abort
    /\ UNCHANGED <<spec, scene, bumps, evidence, least, triggers, outcome>>

-----------------------------------------------------------------------------
Poll ==
    /\ Doing("poll")
    /\ IF drive.stop THEN drive' = [drive EXCEPT !.step = "evaluate", !.stopped = TRUE]
       ELSE Advance
    /\ UNCHANGED <<spec, scene, bumps, evidence, least, triggers, outcome>>

(* on_frame: an editor's command moves something.                          *)
Edit ==
    /\ Doing("edit") /\ Advance
    /\ \/ UNCHANGED scene
       \/ scene' = [scene EXCEPT !.pose = drive.frame + 1]
    /\ UNCHANGED <<spec, bumps, evidence, least, triggers, outcome>>

(* world.tick: the frame is imaged, and the ego may collide.               *)
Tick ==
    /\ Doing("tick")
    /\ drive' = [drive EXCEPT !.step = Following, !.frame = @ + 1]
    /\ scene' = [scene EXCEPT !.imaged = scene.pose]
    /\ \/ UNCHANGED bumps
       \/ /\ Len(bumps.sent) < MaxStamps
          /\ bumps' = [bumps EXCEPT !.sent = Append(@, drive.frame + 1)]
    /\ UNCHANGED <<spec, evidence, least, triggers, outcome>>

(* A callback of the run's own collision sensor.                           *)
Collide ==
    /\ ~bumps.hit /\ bumps.sent # <<>> /\ drive.step # "ended"
    /\ bumps' = [bumps EXCEPT !.hit = TRUE]
    /\ UNCHANGED <<spec, drive, scene, evidence, least, triggers, outcome>>

(* The collision sensor of the recording lives as long as the recorder.    *)
Listening == drive.capture \in {"ready", "on"}

(* A callback of the recording's: CollisionEvents.receive, a bounded       *)
(* buffer that counts what it drops.                                       *)
Receive ==
    /\ Listening /\ drive.step # "ended" /\ bumps.seen < Len(bumps.sent)
    /\ LET full == Len(bumps.buffer) >= Capacity
           kept == IF full THEN Tail(bumps.buffer) ELSE bumps.buffer
       IN  bumps' = [bumps EXCEPT !.seen = @ + 1,
                                  !.buffer = Append(kept, bumps.sent[bumps.seen + 1]),
                                  !.dropped = @ + (IF full THEN 1 ELSE 0)]
    /\ UNCHANGED <<spec, drive, scene, evidence, least, triggers, outcome>>

(* collisions.json, with every manifest of the recording: the events in    *)
(* the buffer since the recording began.                                   *)
Snapshot(b) == [b EXCEPT !.saved = {b.buffer[n] : n \in DOMAIN b.buffer} \ 0 .. b.from - 1,
                         !.savedDropped = b.dropped]

(* process: a recording that is asked for begins; a sample of one has the  *)
(* images of this frame and the state read now.  A rule run fails with its *)
(* recording, a model drives on without.                                   *)
Capture ==
    /\ Doing("capture")
    /\ \/ drive.capture # "on" /\ Advance /\ UNCHANGED <<evidence, bumps>>
       \/ /\ Listening
          /\ drive' = [drive EXCEPT !.step = Following, !.capture = "on"]
          /\ evidence' = [evidence EXCEPT !.samples =
                             @ \cup {[images |-> scene.imaged, state |-> scene.pose]}]
          /\ bumps' = Snapshot(IF drive.capture = "on" THEN bumps
                               ELSE [bumps EXCEPT !.from = drive.frame])
       \/ /\ Listening /\ UNCHANGED <<evidence, bumps>>
          /\ IF drive.kind = "rule" THEN Abort
             ELSE drive' = [drive EXCEPT !.step = Following, !.capture = "failed"]
    /\ UNCHANGED <<spec, scene, least, triggers, outcome>>

(* DatasetRecorder.record.                                                 *)
Row ==
    /\ Doing("row") /\ Advance
    /\ evidence' = [evidence EXCEPT !.rows = @ + 1, !.flagged = @ \/ bumps.hit]
    /\ UNCHANGED <<spec, scene, bumps, least, triggers, outcome>>

Lowest(a, values) == CHOOSE m \in values \cup {a} : \A v \in values \cup {a} : m <= v

(* A frame ends the loop if the ego has collided by then, or as the last.  *)
NextFrame ==
    IF bumps.hit \/ drive.frame >= MaxFrames THEN Advance ELSE GoTo(Round(drive.kind)[1])

(* Mutant of Measure: the generated assets are traced, but not counted.    *)
MeasureAdversaries ==
    /\ Doing("measure") /\ NextFrame
    /\ \E d, t \in [Measured -> Levels] :
          /\ evidence' = [evidence EXCEPT !.frames = @ + 1, !.trace = @ \cup
                 {[who |-> a, distance |-> d[a], ttc |-> t[a]] : a \in Measured}]
          /\ least' = [distance |-> Lowest(least.distance, {d[a] : a \in Adversaries}),
                       ttc |-> Lowest(least.ttc, {t[a] : a \in Adversaries})]
          /\ triggers' = [a \in Adversaries |->
                 IF triggers[a] = 0 /\ d[a] <= spec.trigger[a] THEN 1 ELSE triggers[a]]
    /\ UNCHANGED <<spec, scene, bumps, outcome>>

(* Every adversary and generated asset is measured against the ego; an     *)
(* adversary within its distance is triggered, once.                       *)
Measure ==
    /\ Doing("measure") /\ NextFrame
    /\ \E d, t \in [Measured -> Levels] :
          /\ evidence' = [evidence EXCEPT !.frames = @ + 1, !.trace = @ \cup
                 {[who |-> a, distance |-> d[a], ttc |-> t[a]] : a \in Measured}]
          /\ least' = [distance |-> Lowest(least.distance, {d[a] : a \in Measured}),
                       ttc |-> Lowest(least.ttc, {t[a] : a \in Measured})]
          /\ triggers' = [a \in Adversaries |->
                 IF triggers[a] = 0 /\ d[a] <= spec.trigger[a] THEN 1 ELSE triggers[a]]
    /\ UNCHANGED <<spec, scene, bumps, outcome>>

-----------------------------------------------------------------------------
(* evaluate, with what is known of collisions at this moment; a rule run   *)
(* that was stopped in its loop has no verdict.  A native worker writes its*)
(* result at once, if it can, and then shows the scene for a while; a rule *)
(* worker first cleans up.                                                 *)
Evaluate ==
    /\ Doing("evaluate")
    /\ LET critical == \/ bumps.hit /\ spec.collisionFails
                       \/ least.ttc < MinTTC
                       \/ least.distance < MinDistance
           status == IF drive.stopped THEN "stopped" ELSE IF critical THEN "critical" ELSE "passed"
           reached == [outcome EXCEPT !.status = status, !.collision = bumps.hit]
       IN  \/ /\ drive.kind = "rule" /\ GoTo("clean") /\ outcome' = reached
           \/ /\ drive.kind = "native" /\ Advance
              /\ outcome' = [reached EXCEPT !.told = status]
           \/ Abort /\ outcome' = reached
    /\ UNCHANGED <<spec, scene, bumps, evidence, least, triggers>>

Hold ==
    /\ Doing("hold") /\ Advance
    /\ UNCHANGED <<spec, scene, bumps, evidence, least, triggers, outcome>>

(* The cleanup: the recording is closed, the dataset of a rule run is      *)
(* finalized with the verdict or the error, the actors go.  A cleanup that *)
(* is not complete fails the run, whatever its verdict.                    *)
CleanUpRun ==
    /\ Doing("clean") /\ Advance
    /\ scene' = [scene EXCEPT !.placed = {}]
    /\ \E complete, finalized \in BOOLEAN :
          /\ complete => finalized
          /\ bumps' = IF complete /\ drive.capture = "on" THEN Snapshot(bumps) ELSE bumps
          /\ outcome' = [outcome EXCEPT
                !.clean = complete,
                !.dataset = IF drive.kind = "native" \/ ~finalized THEN "none"
                            ELSE IF drive.failed THEN "error" ELSE outcome.status,
                !.told = IF drive.kind = "rule" /\ complete /\ ~drive.failed
                         THEN outcome.status ELSE @]
    /\ UNCHANGED <<spec, evidence, least, triggers>>

DrivingNext ==
    \/ Stop \/ StartUp \/ PlaceActors \/ PlaceScenery \/ PlaceObstacles \/ Prepare
    \/ Poll \/ Edit \/ Tick \/ Collide \/ Receive \/ Capture \/ Row \/ Measure
    \/ Evaluate \/ Hold \/ CleanUpRun

DrivingSpec == DrivingInit /\ [][DrivingNext]_drivingVars

-----------------------------------------------------------------------------
(* A verdict is about all that was driven: about every actor the scenario  *)
(* asks for, every frame in the trace, and every collision the dataset has *)
(* a row of; a run stopped in its loop has none.                           *)
VerdictIsTrue ==
    LET below == \E m \in evidence.trace : m.distance < MinDistance \/ m.ttc < MinTTC
    IN  /\ outcome.status \in {"passed", "critical"} =>
              /\ ~drive.stopped
              /\ (outcome.status = "critical") <=>
                    (below \/ (outcome.collision /\ spec.collisionFails))
              /\ evidence.flagged => outcome.collision
              /\ ~Doing("ended") /\ ~Doing("clean") => Required \subseteq scene.placed
        /\ outcome.told \in {"passed", "critical"} => outcome.told = outcome.status
        /\ outcome.dataset \in {"passed", "critical"} =>
              evidence.rows = evidence.frames

(* An adversary has been triggered, once, if and only if the trace has it  *)
(* within its distance.                                                    *)
TriggeredOnce ==
    \A a \in Adversaries :
        triggers[a] = Cardinality({a : m \in {n \in evidence.trace :
                                      n.who = a /\ n.distance <= spec.trigger[a]}})

DrivingIsTrue == VerdictIsTrue /\ TriggeredOnce

(* No sample joins images of one moment with the state of another (the     *)
(* comment at carla_adapter.py:187).                                       *)
SamplesAreAligned == \A s \in evidence.samples : s.images = s.state

(* A recording's collision file that reports no loss has every collision   *)
(* its sensor delivered since the recording began (collision_events.py).   *)
CollisionsAreAccounted ==
    Doing("ended") /\ outcome.clean /\ drive.capture = "on" /\ bumps.savedDropped = 0 =>
        bumps.saved = {bumps.sent[n] : n \in 1 .. bumps.seen} \ 0 .. bumps.from - 1

EvidenceIsTrue == SamplesAreAligned /\ CollisionsAreAccounted

-----------------------------------------------------------------------------
(* The inductive invariant of the two.                                     *)
RuleSteps == {"poll", "row"}
StepNames == {"startup", "ego", "adversaries", "scenery", "obstacles", "prepare", "edit", "tick",
              "capture", "measure", "evaluate", "hold", "clean", "ended"} \cup RuleSteps
Verdicts == {"none", "stopped", "passed", "critical"}

DrivingTypeOK ==
    /\ spec \in [trigger : [Adversaries -> 0 .. 1], collisionFails : BOOLEAN]
    /\ drive \in [kind : {"rule", "native"}, step : StepNames, frame : Nat, stop : BOOLEAN,
                  stopped : BOOLEAN, capture : {"off", "ready", "on", "failed"}, failed : BOOLEAN]
    /\ drive.kind = "native" => drive.step \notin RuleSteps
    /\ scene \in [placed : SUBSET (Required \cup Scenery), pose : Nat, imaged : Nat]
    /\ bumps \in [sent : Seq(Nat), hit : BOOLEAN, seen : Nat, buffer : Seq(Nat), dropped : Nat,
                  from : Nat, saved : SUBSET Nat, savedDropped : Nat]
    /\ evidence \in [trace : SUBSET [who : Measured, distance : Levels, ttc : Levels],
                     frames : Nat, samples : SUBSET [images : Nat, state : Nat], rows : Nat,
                     flagged : BOOLEAN]
    /\ least \in [distance : 0 .. 2, ttc : 0 .. 2] /\ triggers \in [Adversaries -> 0 .. 1]
    /\ outcome \in [status : Verdicts, collision : BOOLEAN, told : Verdicts,
                    dataset : Verdicts \cup {"error"}, clean : BOOLEAN]

(* Until the cleanup everyone who was to be placed by now is there.        *)
PlacedSoFar ==
    LET past(steps) == drive.step \notin steps \cup {"startup", "ego", "clean", "ended"}
    IN  /\ past({}) => "ego" \in scene.placed
        /\ past({"adversaries"}) => Adversaries \subseteq scene.placed
        /\ past({"adversaries", "scenery", "obstacles"}) => Obstacles \subseteq scene.placed

(* The least distance and time are those of the trace.                     *)
LeastIsOfTrace ==
    /\ least.distance < MinDistance <=> \E m \in evidence.trace : m.distance < MinDistance
    /\ least.ttc < MinTTC <=> \E m \in evidence.trace : m.ttc < MinTTC

(* There is no verdict before the frames are driven, no end before the     *)
(* cleanup, and no dataset of a native run.                                *)
VerdictComesLast ==
    /\ drive.step \notin {"hold", "clean", "ended"} =>
          outcome.status = "none" /\ outcome.told = "none"
    /\ drive.step # "ended" => ~outcome.clean
    /\ drive.step # "ended" \/ drive.kind = "native" => outcome.dataset = "none"

(* A rule run has a row of every frame it has measured.                    *)
RowsAreOfFrames ==
    drive.kind = "rule" =>
        evidence.rows = evidence.frames + (IF Doing("measure") THEN 1 ELSE 0)

(* A row that shows a collision was written after it.                      *)
FlaggedWasHit == evidence.flagged => bumps.hit

(* The images of a frame about to be recorded are of the poses there are.  *)
ImagesAreOfNow == Doing("capture") => scene.imaged = scene.pose

(* The buffer has the last of what the sensor has delivered.               *)
BufferIsLast ==
    /\ bumps.seen <= Len(bumps.sent) /\ bumps.dropped + Len(bumps.buffer) = bumps.seen
    /\ \A n \in DOMAIN bumps.buffer : bumps.buffer[n] = bumps.sent[bumps.dropped + n]

DrivingInv ==
    /\ DrivingTypeOK /\ DrivingIsTrue /\ EvidenceIsTrue
    /\ PlacedSoFar /\ LeastIsOfTrace /\ VerdictComesLast /\ RowsAreOfFrames
    /\ FlaggedWasHit /\ ImagesAreOfNow /\ BufferIsLast
=============================================================================
