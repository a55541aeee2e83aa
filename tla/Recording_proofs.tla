---------------------------- MODULE Recording_proofs ---------------------------
(***************************************************************************)
(* Machine-checked: what MCRecording shows of a driven run and of the      *)
(* recordings on disk, and MCStudio of their replay, for small bounds holds*)
(* for any actors, any number of frames, collisions and executions, and any*)
(* capacity and quota.  The inductive invariants are DrivingInv of         *)
(* DrivingRun, CaptureInv and QuotaInv of CaptureStore, and TimelineInv of *)
(* RecordedTimeline.                                                       *)
(***************************************************************************)
EXTENDS DrivingRun, CaptureStore, RecordedTimeline, FiniteSetTheorems, SequenceTheorems,
        WellFoundedInduction, TLAPS

-----------------------------------------------------------------------------
(* DrivingRun: the steps of a run, and what each of them changes.          *)

(* The steps of a rule run and of a native one, by number.                 *)
LEMMA StepsInOrder ==
  /\ Steps("rule") = <<"startup", "ego", "adversaries", "scenery", "obstacles", "prepare",
                       "poll", "edit", "tick", "capture", "row", "measure",
                       "evaluate", "hold", "clean", "ended">>
  /\ Steps("native") = <<"startup", "ego", "adversaries", "scenery", "obstacles", "prepare",
                         "tick", "capture", "edit", "measure",
                         "evaluate", "hold", "clean", "ended">>
<1>1. /\ Setup \in Seq(StepNames) /\ Len(Setup) = 6
      /\ Setup[1] = "startup" /\ Setup[2] = "ego" /\ Setup[3] = "adversaries"
      /\ Setup[4] = "scenery" /\ Setup[5] = "obstacles" /\ Setup[6] = "prepare"
  BY DEF Setup, StepNames, RuleSteps
<1>2. /\ Round("rule") \in Seq(StepNames) /\ Len(Round("rule")) = 6
      /\ Round("rule")[1] = "poll" /\ Round("rule")[2] = "edit" /\ Round("rule")[3] = "tick"
      /\ Round("rule")[4] = "capture" /\ Round("rule")[5] = "row" /\ Round("rule")[6] = "measure"
  BY DEF Round, StepNames, RuleSteps
<1>3. /\ Round("native") \in Seq(StepNames) /\ Len(Round("native")) = 4
      /\ Round("native")[1] = "tick" /\ Round("native")[2] = "capture"
      /\ Round("native")[3] = "edit" /\ Round("native")[4] = "measure"
  BY DEF Round, StepNames, RuleSteps
<1>4. /\ Ending \in Seq(StepNames) /\ Len(Ending) = 4
      /\ Ending[1] = "evaluate" /\ Ending[2] = "hold" /\ Ending[3] = "clean" /\ Ending[4] = "ended"
  BY DEF Ending, StepNames, RuleSteps
<1>5. ASSUME NEW s \in Seq(StepNames), NEW t \in Seq(StepNames)
      PROVE  /\ s \o t \in Seq(StepNames) /\ Len(s \o t) = Len(s) + Len(t)
             /\ \A i \in 1 .. Len(s) + Len(t) :
                   (s \o t)[i] = IF i <= Len(s) THEN s[i] ELSE t[i - Len(s)]
  BY ConcatProperties
<1>6. /\ Len(Steps("rule")) = 16 /\ Steps("rule") \in Seq(StepNames)
      /\ \A i \in 1 .. 16 :
            Steps("rule")[i] = IF i <= 6 THEN Setup[i]
                               ELSE IF i <= 12 THEN Round("rule")[i - 6] ELSE Ending[i - 12]
  <2> DEFINE s == Setup t == Round("rule") u == Ending
  <2>1. /\ s \in Seq(StepNames) /\ t \in Seq(StepNames) /\ u \in Seq(StepNames)
        /\ Len(s) = 6 /\ Len(t) = 6 /\ Len(u) = 4
    BY <1>1, <1>2, <1>4
  <2>2. Steps("rule") = (s \o t) \o u
    BY DEF Steps
  <2> HIDE DEF s, t, u
  <2> DEFINE st == s \o t
  <2>3. /\ st \in Seq(StepNames) /\ Len(st) = Len(s) + Len(t)
        /\ \A i \in 1 .. Len(s) + Len(t) : st[i] = IF i <= Len(s) THEN s[i] ELSE t[i - Len(s)]
    BY <1>5, <2>1, Zenon
  <2> HIDE DEF st
  <2> DEFINE stu == st \o u
  <2>4. /\ stu \in Seq(StepNames) /\ Len(stu) = Len(st) + Len(u)
        /\ \A i \in 1 .. Len(st) + Len(u) :
              stu[i] = IF i <= Len(st) THEN st[i] ELSE u[i - Len(st)]
    BY <1>5, <2>1, <2>3, Zenon
  <2>5. Steps("rule") = stu
    BY <2>2 DEF st
  <2> HIDE DEF stu
  <2>6. /\ Len(stu) = 16
        /\ \A i \in 1 .. 16 : stu[i] = IF i <= 6 THEN s[i]
                                       ELSE IF i <= 12 THEN t[i - 6] ELSE u[i - 12]
    BY <2>1, <2>3, <2>4
  <2>7. s = Setup /\ t = Round("rule") /\ u = Ending
    BY DEF s, t, u
  <2> QED
    BY <2>4, <2>5, <2>6, <2>7
<1>7. /\ Len(Steps("native")) = 14 /\ Steps("native") \in Seq(StepNames)
      /\ \A i \in 1 .. 14 :
            Steps("native")[i] = IF i <= 6 THEN Setup[i]
                                 ELSE IF i <= 10 THEN Round("native")[i - 6] ELSE Ending[i - 10]
  <2> DEFINE s == Setup t == Round("native") u == Ending
  <2>1. /\ s \in Seq(StepNames) /\ t \in Seq(StepNames) /\ u \in Seq(StepNames)
        /\ Len(s) = 6 /\ Len(t) = 4 /\ Len(u) = 4
    BY <1>1, <1>3, <1>4
  <2>2. Steps("native") = (s \o t) \o u
    BY DEF Steps
  <2> HIDE DEF s, t, u
  <2> DEFINE st == s \o t
  <2>3. /\ st \in Seq(StepNames) /\ Len(st) = Len(s) + Len(t)
        /\ \A i \in 1 .. Len(s) + Len(t) : st[i] = IF i <= Len(s) THEN s[i] ELSE t[i - Len(s)]
    BY <1>5, <2>1, Zenon
  <2> HIDE DEF st
  <2> DEFINE stu == st \o u
  <2>4. /\ stu \in Seq(StepNames) /\ Len(stu) = Len(st) + Len(u)
        /\ \A i \in 1 .. Len(st) + Len(u) :
              stu[i] = IF i <= Len(st) THEN st[i] ELSE u[i - Len(st)]
    BY <1>5, <2>1, <2>3, Zenon
  <2>5. Steps("native") = stu
    BY <2>2 DEF st
  <2> HIDE DEF stu
  <2>6. /\ Len(stu) = 14
        /\ \A i \in 1 .. 14 : stu[i] = IF i <= 6 THEN s[i]
                                       ELSE IF i <= 10 THEN t[i - 6] ELSE u[i - 10]
    BY <2>1, <2>3, <2>4
  <2>7. s = Setup /\ t = Round("native") /\ u = Ending
    BY DEF s, t, u
  <2> QED
    BY <2>4, <2>5, <2>6, <2>7
<1>8. /\ Steps("rule")[1] = "startup" /\ Steps("rule")[2] = "ego"
      /\ Steps("rule")[3] = "adversaries" /\ Steps("rule")[4] = "scenery"
      /\ Steps("rule")[5] = "obstacles" /\ Steps("rule")[6] = "prepare"
      /\ Steps("rule")[7] = "poll" /\ Steps("rule")[8] = "edit" /\ Steps("rule")[9] = "tick"
      /\ Steps("rule")[10] = "capture" /\ Steps("rule")[11] = "row"
      /\ Steps("rule")[12] = "measure" /\ Steps("rule")[13] = "evaluate"
      /\ Steps("rule")[14] = "hold" /\ Steps("rule")[15] = "clean" /\ Steps("rule")[16] = "ended"
  <2> DEFINE a == Steps("rule") s == Setup t == Round("rule") u == Ending
  <2>1. \A i \in 1 .. 16 :
           a[i] = IF i <= 6 THEN s[i] ELSE IF i <= 12 THEN t[i - 6] ELSE u[i - 12]
    BY <1>6
  <2> HIDE DEF a, s, t, u
  <2>2. /\ a[1] = s[1] /\ a[2] = s[2] /\ a[3] = s[3] /\ a[4] = s[4] /\ a[5] = s[5]
        /\ a[6] = s[6] /\ a[7] = t[1] /\ a[8] = t[2] /\ a[9] = t[3] /\ a[10] = t[4]
        /\ a[11] = t[5] /\ a[12] = t[6] /\ a[13] = u[1] /\ a[14] = u[2] /\ a[15] = u[3]
        /\ a[16] = u[4]
    BY <2>1
  <2> QED
    BY <1>1, <1>2, <1>4, <2>2 DEF a, s, t, u
<1>9. /\ Steps("native")[1] = "startup" /\ Steps("native")[2] = "ego"
      /\ Steps("native")[3] = "adversaries" /\ Steps("native")[4] = "scenery"
      /\ Steps("native")[5] = "obstacles" /\ Steps("native")[6] = "prepare"
      /\ Steps("native")[7] = "tick" /\ Steps("native")[8] = "capture"
      /\ Steps("native")[9] = "edit" /\ Steps("native")[10] = "measure"
      /\ Steps("native")[11] = "evaluate" /\ Steps("native")[12] = "hold"
      /\ Steps("native")[13] = "clean" /\ Steps("native")[14] = "ended"
  <2> DEFINE a == Steps("native") s == Setup t == Round("native") u == Ending
  <2>1. \A i \in 1 .. 14 :
           a[i] = IF i <= 6 THEN s[i] ELSE IF i <= 10 THEN t[i - 6] ELSE u[i - 10]
    BY <1>7
  <2> HIDE DEF a, s, t, u
  <2>2. /\ a[1] = s[1] /\ a[2] = s[2] /\ a[3] = s[3] /\ a[4] = s[4] /\ a[5] = s[5]
        /\ a[6] = s[6] /\ a[7] = t[1] /\ a[8] = t[2] /\ a[9] = t[3] /\ a[10] = t[4]
        /\ a[11] = u[1] /\ a[12] = u[2] /\ a[13] = u[3] /\ a[14] = u[4]
    BY <2>1
  <2> QED
    BY <1>1, <1>3, <1>4, <2>2 DEF a, s, t, u
<1> QED
  BY <1>6, <1>7, <1>8, <1>9

(* What follows upon what.                                                 *)
LEMMA Order ==
  ASSUME drive.kind \in {"rule", "native"}
  PROVE  /\ After("startup") = "ego" /\ After("ego") = "adversaries"
         /\ After("adversaries") = "scenery" /\ After("scenery") = "obstacles"
         /\ After("obstacles") = "prepare"
         /\ After("prepare") = IF drive.kind = "rule" THEN "poll" ELSE "tick"
         /\ drive.kind = "rule" => After("poll") = "edit" /\ After("row") = "measure"
         /\ After("edit") = IF drive.kind = "rule" THEN "tick" ELSE "measure"
         /\ After("tick") = "capture"
         /\ After("capture") = IF drive.kind = "rule" THEN "row" ELSE "edit"
         /\ After("measure") = "evaluate" /\ After("evaluate") = "hold"
         /\ After("hold") = "clean" /\ After("clean") = "ended"
         /\ Round(drive.kind)[1] = IF drive.kind = "rule" THEN "poll" ELSE "tick"
<1>1. CASE drive.kind = "rule"
  BY <1>1, StepsInOrder DEF After, Round
<1>2. CASE drive.kind = "native"
  BY <1>2, StepsInOrder DEF After, Round
<1> QED
  BY <1>1, <1>2

(* A run.                                                                  *)
DriveRecords ==
  [kind : {"rule", "native"}, step : StepNames, frame : Nat, stop : BOOLEAN, stopped : BOOLEAN,
   capture : {"off", "ready", "on", "failed"}, failed : BOOLEAN]

(* A run goes on to the next step.                                         *)
LEMMA Follows ==
  ASSUME drive \in DriveRecords
  PROVE  /\ Doing("startup") => Following = "ego"
         /\ Doing("ego") => Following = "adversaries"
         /\ Doing("adversaries") => Following = "scenery"
         /\ Doing("scenery") => Following = "obstacles"
         /\ Doing("obstacles") => Following = "prepare"
         /\ Doing("prepare") => Following = IF drive.kind = "rule" THEN "poll" ELSE "tick"
         /\ Doing("poll") /\ drive.kind = "rule" => Following = "edit"
         /\ Doing("row") /\ drive.kind = "rule" => Following = "measure"
         /\ Doing("edit") => Following = IF drive.kind = "rule" THEN "tick" ELSE "measure"
         /\ Doing("tick") => Following = "capture"
         /\ Doing("capture") => Following = IF drive.kind = "rule" THEN "row" ELSE "edit"
         /\ Doing("measure") => Following = "evaluate"
         /\ Doing("evaluate") => Following = "hold"
         /\ Doing("hold") => Following = "clean"
         /\ Doing("clean") => Following = "ended"
<1>1. drive.kind \in {"rule", "native"}
  BY DEF DriveRecords
<1> QED
  BY <1>1, Order DEF Doing, Following

(* A step to another, and whether it fails.                                *)
LEMMA Going ==
  ASSUME drive \in DriveRecords, NEW s \in StepNames
  PROVE  /\ [drive EXCEPT !.step = s] \in DriveRecords
         /\ [drive EXCEPT !.step = s].kind = drive.kind
         /\ [drive EXCEPT !.step = s].step = s
         /\ [drive EXCEPT !.step = s].stop = drive.stop
         /\ [drive EXCEPT !.step = s].stopped = drive.stopped
         /\ [drive EXCEPT !.step = s].capture = drive.capture
         /\ [drive EXCEPT !.step = s, !.failed = TRUE] \in DriveRecords
         /\ [drive EXCEPT !.step = s, !.failed = TRUE].kind = drive.kind
         /\ [drive EXCEPT !.step = s, !.failed = TRUE].step = s
         /\ [drive EXCEPT !.step = s, !.failed = TRUE].stopped = drive.stopped
         /\ [drive EXCEPT !.step = s, !.failed = TRUE].capture = drive.capture
  BY DEF DriveRecords

(* The run stays of its kind, and a native one out of the steps of rules.  *)
Keeps ==
  /\ drive' \in DriveRecords /\ drive'.kind = drive.kind
  /\ drive.kind = "native" => drive'.step \notin RuleSteps
Onward(step, next) ==
  /\ Keeps /\ drive'.stopped = drive.stopped /\ drive'.capture = drive.capture
  /\ Doing(step) /\ drive'.step \in next

(* An operation goes on, fails, or goes somewhere.                         *)
LEMMA Advances ==
  ASSUME drive \in DriveRecords, NEW step, NEW next, Doing(step),
         Following \in next \cap StepNames, drive.kind = "native" => Following \notin RuleSteps,
         Advance
  PROVE  Onward(step, next)
<1> DEFINE f == Following
<1>1. f \in StepNames /\ drive' = [drive EXCEPT !.step = f]
  BY DEF Advance
<1> HIDE DEF f
<1>2. /\ drive' \in DriveRecords /\ drive'.kind = drive.kind /\ drive'.step = f
      /\ drive'.stopped = drive.stopped /\ drive'.capture = drive.capture
  BY <1>1, Going
<1> QED
  BY <1>2 DEF Onward, Keeps, f

(* An operation fails.                                                     *)
LEMMA Fails ==
  ASSUME drive \in DriveRecords, NEW step, NEW next, Doing(step), "clean" \in next, Abort
  PROVE  Onward(step, next)
<1>1. /\ drive' \in DriveRecords /\ drive'.kind = drive.kind /\ drive'.step = "clean"
      /\ drive'.stopped = drive.stopped /\ drive'.capture = drive.capture
  BY Going DEF Abort, StepNames
<1> QED
  BY <1>1 DEF Onward, Keeps, RuleSteps

(* An operation goes somewhere else.                                       *)
LEMMA GoesTo ==
  ASSUME drive \in DriveRecords, NEW step, NEW next, Doing(step), NEW to \in next \cap StepNames,
         drive.kind = "native" => to \notin RuleSteps, GoTo(to)
  PROVE  Onward(step, next)
<1>1. /\ drive' \in DriveRecords /\ drive'.kind = drive.kind /\ drive'.step = to
      /\ drive'.stopped = drive.stopped /\ drive'.capture = drive.capture
  BY Going DEF GoTo
<1> QED
  BY <1>1 DEF Onward, Keeps

(* From where to where each operation of the run goes.                     *)
LEMMA Goes ==
  ASSUME drive \in DriveRecords, drive.kind = "native" => drive.step \notin RuleSteps
  PROVE  /\ Stop => /\ Keeps /\ drive'.stopped = drive.stopped /\ drive'.capture = drive.capture
                    /\ drive.step \notin {"clean", "ended"}
                    /\ drive'.step \in {drive.step,
                                        IF Doing("startup") THEN "ended" ELSE "clean"}
         /\ StartUp => Onward("startup", {"ego", "ended"})
         /\ PlaceActors => \/ Onward("ego", {"adversaries", "clean"})
                           \/ Onward("adversaries", {"scenery", "clean"})
         /\ PlaceScenery => Onward("scenery", {"obstacles", "clean"})
         /\ PlaceObstacles => Onward("obstacles", {"prepare", "clean"})
         /\ Prepare => Onward("prepare", {"poll", "tick", "clean"})
         /\ Poll => /\ Keeps /\ drive'.capture = drive.capture /\ Doing("poll")
                    /\ drive'.step \in {"edit", "evaluate"}
         /\ Edit => Onward("edit", {"tick", "measure"})
         /\ Tick => Onward("tick", {"capture"})
         /\ Capture => /\ Keeps /\ drive'.stopped = drive.stopped /\ Doing("capture")
                       /\ drive'.step \in {"row", "edit", "clean"}
         /\ Row => Onward("row", {"measure"})
         /\ Measure => Onward("measure", {"poll", "tick", "evaluate"})
         /\ Evaluate => Onward("evaluate", {"hold", "clean"})
         /\ Hold => Onward("hold", {"clean"})
         /\ CleanUpRun => Onward("clean", {"ended"})
<1> USE DEF StepNames, RuleSteps
<1>1. Stop => /\ Keeps /\ drive'.stopped = drive.stopped /\ drive'.capture = drive.capture
              /\ drive.step \notin {"clean", "ended"}
              /\ drive'.step \in {drive.step, IF Doing("startup") THEN "ended" ELSE "clean"}
  <2>1. ASSUME Stop, drive.kind = "rule"
        PROVE  drive' = [drive EXCEPT !.stop = TRUE]
    BY <2>1 DEF Stop
  <2>2. ASSUME Stop, drive.kind # "rule"
        PROVE  drive' = [drive EXCEPT !.stop = TRUE, !.failed = TRUE,
                                      !.step = IF Doing("startup") THEN "ended" ELSE "clean"]
    BY <2>2 DEF Stop
  <2>3. Stop => drive.step \notin {"clean", "ended"}
    BY DEF Stop
  <2>4. (IF Doing("startup") THEN "ended" ELSE "clean") \in {"ended", "clean"}
    OBVIOUS
  <2> DEFINE to == IF Doing("startup") THEN "ended" ELSE "clean"
  <2> HIDE DEF to
  <2> QED
    BY <2>1, <2>2, <2>3, <2>4 DEF DriveRecords, Keeps, to
<1>2. StartUp => Onward("startup", {"ego", "ended"})
  <2>1. StartUp => Doing("startup") /\ (Advance \/ GoTo("ended")
                      \/ drive' = [drive EXCEPT !.step = "ended", !.failed = TRUE])
    BY DEF StartUp
  <2>2. Doing("startup") /\ drive' = [drive EXCEPT !.step = "ended", !.failed = TRUE]
           => Onward("startup", {"ego", "ended"})
    BY Going DEF Onward, Keeps
  <2> QED
    BY <2>1, <2>2, Follows, Advances, GoesTo
<1>3. PlaceActors => \/ Onward("ego", {"adversaries", "clean"})
                     \/ Onward("adversaries", {"scenery", "clean"})
  <2>1. PlaceActors => (Doing("ego") \/ Doing("adversaries")) /\ (Advance \/ Abort)
    BY DEF PlaceActors
  <2> QED
    BY <2>1, Follows, Advances, Fails
<1>4. PlaceScenery => Onward("scenery", {"obstacles", "clean"})
  <2>1. PlaceScenery => Doing("scenery") /\ (Advance \/ Abort)
    BY DEF PlaceScenery
  <2> QED
    BY <2>1, Follows, Advances, Fails
<1>5. PlaceObstacles => Onward("obstacles", {"prepare", "clean"})
  <2>1. PlaceObstacles => Doing("obstacles") /\ (Advance \/ Abort)
    BY DEF PlaceObstacles
  <2> QED
    BY <2>1, Follows, Advances, Fails
<1>6. Prepare => Onward("prepare", {"poll", "tick", "clean"})
  <2>1. Prepare => Doing("prepare") /\ (Advance \/ Abort)
    BY DEF Prepare
  <2> QED
    BY <2>1, Follows, Advances, Fails
<1>7. Poll => /\ Keeps /\ drive'.capture = drive.capture /\ Doing("poll")
              /\ drive'.step \in {"edit", "evaluate"}
  <2>1. Poll => Doing("poll") /\ (Advance
                   \/ drive' = [drive EXCEPT !.step = "evaluate", !.stopped = TRUE])
    BY DEF Poll
  <2>2. Doing("poll") => drive.kind = "rule"
    BY DEF Doing, DriveRecords
  <2>3. Doing("poll") /\ Advance => Onward("poll", {"edit", "evaluate"})
    BY <2>2, Follows, Advances
  <2>4. drive' = [drive EXCEPT !.step = "evaluate", !.stopped = TRUE]
           => Keeps /\ drive'.capture = drive.capture /\ drive'.step = "evaluate"
    BY DEF DriveRecords, Keeps
  <2> QED
    BY <2>1, <2>3, <2>4 DEF Onward
<1>8. Edit => Onward("edit", {"tick", "measure"})
  <2>1. Edit => Doing("edit") /\ Advance
    BY DEF Edit
  <2> QED
    BY <2>1, Follows, Advances
<1>9. Tick => Onward("tick", {"capture"})
  <2>1. Tick => Doing("tick") /\ drive' = [drive EXCEPT !.step = "capture", !.frame = @ + 1]
    BY Follows DEF Tick
  <2>2. ASSUME NEW frame \in Nat, drive' = [drive EXCEPT !.step = "capture", !.frame = frame]
        PROVE  /\ drive' \in DriveRecords /\ drive'.kind = drive.kind /\ drive'.step = "capture"
               /\ drive'.stopped = drive.stopped /\ drive'.capture = drive.capture
    BY <2>2 DEF DriveRecords
  <2>3. drive.frame + 1 \in Nat
    BY DEF DriveRecords
  <2> QED
    BY <2>1, <2>2, <2>3 DEF Onward, Keeps
<1>10. Capture => /\ Keeps /\ drive'.stopped = drive.stopped /\ Doing("capture")
                  /\ drive'.step \in {"row", "edit", "clean"}
  <2>1. Capture => Doing("capture") /\ (Advance \/ Abort
                      \/ \E c \in {"on", "failed"} :
                            drive' = [drive EXCEPT !.step = Following, !.capture = c])
    BY DEF Capture
  <2>2. Doing("capture") => Following \in {"row", "edit"}
                            /\ (drive.kind = "native" => Following = "edit")
    BY Follows DEF DriveRecords
  <2>3. ASSUME NEW f \in {"row", "edit"}, NEW c \in {"on", "failed"},
               drive.kind = "native" => f = "edit",
               drive' = [drive EXCEPT !.step = f, !.capture = c]
        PROVE  Keeps /\ drive'.stopped = drive.stopped /\ drive'.step \in {"row", "edit"}
    BY <2>3 DEF DriveRecords, Keeps
  <2>4. Doing("capture") /\ (Advance \/ Abort) => Onward("capture", {"row", "edit", "clean"})
    BY <2>2, Advances, Fails
  <2> QED
    BY <2>1, <2>2, <2>3, <2>4 DEF Onward
<1>11. Row => Onward("row", {"measure"})
  <2>1. Row => Doing("row") /\ Advance
    BY DEF Row
  <2>2. Doing("row") => drive.kind = "rule"
    BY DEF Doing, DriveRecords
  <2> QED
    BY <2>1, <2>2, Follows, Advances
<1>12. Measure => Onward("measure", {"poll", "tick", "evaluate"})
  <2>1. Measure => Doing("measure") /\ (Advance \/ GoTo(Round(drive.kind)[1]))
    BY DEF Measure, NextFrame
  <2>2. /\ Round(drive.kind)[1] \in {"poll", "tick"}
        /\ drive.kind = "native" => Round(drive.kind)[1] = "tick"
    BY Order DEF DriveRecords
  <2> QED
    BY <2>1, <2>2, Follows, Advances, GoesTo
<1>13. Evaluate => Onward("evaluate", {"hold", "clean"})
  <2>1. Evaluate => Doing("evaluate") /\ (Advance \/ GoTo("clean") \/ Abort)
    BY DEF Evaluate
  <2> QED
    BY <2>1, Follows, Advances, GoesTo, Fails
<1>14. Hold => Onward("hold", {"clean"})
  <2>1. Hold => Doing("hold") /\ Advance
    BY DEF Hold
  <2> QED
    BY <2>1, Follows, Advances
<1>15. CleanUpRun => Onward("clean", {"ended"})
  <2>1. CleanUpRun => Doing("clean") /\ Advance
    BY DEF CleanUpRun
  <2> QED
    BY <2>1, Follows, Advances
<1> QED
  BY <1>1, <1>2, <1>3, <1>4, <1>5, <1>6, <1>7, <1>8, <1>9, <1>10, <1>11, <1>12, <1>13, <1>14, <1>15

(* Who changes what.                                                       *)
LEMMA Untouched ==
  ASSUME [DrivingNext]_drivingVars
  PROVE  /\ spec' = spec
         /\ \/ drive' = drive
            \/ Stop \/ StartUp \/ PlaceActors \/ PlaceScenery \/ PlaceObstacles \/ Prepare \/ Poll
            \/ Edit \/ Tick \/ Capture \/ Row \/ Measure \/ Evaluate \/ Hold \/ CleanUpRun
         /\ \/ scene' = scene
            \/ PlaceActors \/ PlaceScenery \/ PlaceObstacles \/ Edit \/ Tick \/ CleanUpRun
         /\ bumps' = bumps \/ Tick \/ Collide \/ Receive \/ Capture \/ CleanUpRun
         /\ evidence' = evidence \/ Capture \/ Row \/ Measure
         /\ UNCHANGED <<least, triggers>> \/ Measure
         /\ outcome' = outcome \/ StartUp \/ Evaluate \/ CleanUpRun
  BY DEF DrivingNext, drivingVars, Stop, StartUp, PlaceActors, PlaceScenery, PlaceObstacles,
     Prepare, Poll, Edit, Tick, Collide, Receive, Capture, Row, Measure, Evaluate, Hold, CleanUpRun

(* The run goes from step to step.                                         *)
LEMMA DriveTyped ==
  ASSUME drive \in DriveRecords, drive.kind = "native" => drive.step \notin RuleSteps,
         [DrivingNext]_drivingVars
  PROVE  Keeps
<1>1. drive' = drive => Keeps
  BY DEF Keeps
<1> QED
  BY <1>1, Goes, Untouched DEF Onward

(* Who is placed.                                                          *)
SceneRecords == [placed : SUBSET (Required \cup Scenery), pose : Nat, imaged : Nat]

(* What an operation does to the scene.                                    *)
LEMMA SceneChanges ==
  ASSUME drive \in DriveRecords, scene \in SceneRecords, [DrivingNext]_drivingVars
  PROVE  /\ scene' \in SceneRecords
         /\ ~CleanUpRun => scene.placed \subseteq scene'.placed
         /\ scene'.pose # scene.pose => Edit
         /\ scene'.imaged # scene.imaged => Tick
         /\ Tick => scene'.imaged = scene'.pose
<1> DEFINE placedBy(actors) == [scene EXCEPT !.placed = @ \cup actors]
<1>1. \A actors \in SUBSET (Required \cup Scenery) :
         /\ placedBy(actors) \in SceneRecords /\ scene.placed \subseteq placedBy(actors).placed
         /\ placedBy(actors).pose = scene.pose /\ placedBy(actors).imaged = scene.imaged
  BY DEF SceneRecords
<1> HIDE DEF placedBy
<1>2. ASSUME PlaceActors \/ PlaceScenery \/ PlaceObstacles
      PROVE  \/ scene' = scene
             \/ \E actors \in SUBSET (Required \cup Scenery) : scene' = placedBy(actors)
  BY <1>2 DEF PlaceActors, PlaceScenery, PlaceObstacles, Place, Required, Measured, placedBy
<1>3. ASSUME Edit
      PROVE  /\ scene' \in SceneRecords /\ scene'.placed = scene.placed
             /\ scene'.imaged = scene.imaged
  BY <1>3 DEF Edit, SceneRecords, DriveRecords
<1>4. ASSUME Tick
      PROVE  /\ scene' \in SceneRecords /\ scene'.placed = scene.placed /\ scene'.pose = scene.pose
             /\ scene'.imaged = scene.pose
  BY <1>4 DEF Tick, SceneRecords
<1>5. ASSUME CleanUpRun
      PROVE  scene' \in SceneRecords /\ scene'.pose = scene.pose /\ scene'.imaged = scene.imaged
  BY <1>5 DEF CleanUpRun, SceneRecords
<1>6. Tick => ~Edit /\ ~CleanUpRun
  BY DEF Tick, Edit, CleanUpRun, Doing
<1> QED
  BY <1>1, <1>2, <1>3, <1>4, <1>5, <1>6, Untouched

(* The least of some levels and what was least before.                     *)
LEMMA LowestIs ==
  ASSUME NEW a \in 0 .. 2, NEW values \in SUBSET Levels
  PROVE  /\ Lowest(a, values) \in 0 .. 2
         /\ Lowest(a, values) < 1 <=> a < 1 \/ \E v \in values : v < 1
<1> DEFINE all == values \cup {a}
<1>1. all \subseteq 0 .. 2
  BY DEF Levels
<1>2. \E m \in all : \A v \in all : m <= v
  <2>1. CASE 0 \in all
    BY <1>1, <2>1
  <2>2. CASE 0 \notin all /\ 1 \in all
    BY <1>1, <2>2
  <2>3. CASE 0 \notin all /\ 1 \notin all
    BY <1>1, <2>3
  <2> QED
    BY <2>1, <2>2, <2>3
<1>3. Lowest(a, values) \in all /\ \A v \in all : Lowest(a, values) <= v
  BY <1>2 DEF Lowest
<1> QED
  BY <1>1, <1>3

(* The collisions.                                                         *)
BumpRecords ==
  [sent : Seq(Nat), hit : BOOLEAN, seen : Nat, buffer : Seq(Nat), dropped : Nat,
   from : Nat, saved : SUBSET Nat, savedDropped : Nat]

(* What a manifest writes of the collisions.                               *)
LEMMA SnapshotTyped ==
  ASSUME NEW b \in BumpRecords
  PROVE  /\ Snapshot(b) \in BumpRecords
         /\ Snapshot(b).sent = b.sent /\ Snapshot(b).seen = b.seen
         /\ Snapshot(b).buffer = b.buffer /\ Snapshot(b).dropped = b.dropped
         /\ Snapshot(b).from = b.from /\ Snapshot(b).hit = b.hit
         /\ Snapshot(b).savedDropped = b.dropped
         /\ Snapshot(b).saved = {b.buffer[n] : n \in DOMAIN b.buffer} \ 0 .. b.from - 1
<1> DEFINE saved == {b.buffer[n] : n \in DOMAIN b.buffer} \ 0 .. b.from - 1
<1>1. saved \in SUBSET Nat /\ b.dropped \in Nat
  BY DEF BumpRecords
<1>2. Snapshot(b) = [b EXCEPT !.saved = saved, !.savedDropped = b.dropped]
  BY DEF Snapshot
<1> HIDE DEF saved
<1>3. ASSUME NEW d \in Nat
      PROVE  /\ [b EXCEPT !.saved = saved, !.savedDropped = d] \in BumpRecords
             /\ [b EXCEPT !.saved = saved, !.savedDropped = d].sent = b.sent
             /\ [b EXCEPT !.saved = saved, !.savedDropped = d].seen = b.seen
             /\ [b EXCEPT !.saved = saved, !.savedDropped = d].buffer = b.buffer
             /\ [b EXCEPT !.saved = saved, !.savedDropped = d].dropped = b.dropped
             /\ [b EXCEPT !.saved = saved, !.savedDropped = d].from = b.from
             /\ [b EXCEPT !.saved = saved, !.savedDropped = d].hit = b.hit
             /\ [b EXCEPT !.saved = saved, !.savedDropped = d].saved = saved
             /\ [b EXCEPT !.saved = saved, !.savedDropped = d].savedDropped = d
  BY <1>1 DEF BumpRecords
<1>4. /\ Snapshot(b) \in BumpRecords
      /\ Snapshot(b).sent = b.sent /\ Snapshot(b).seen = b.seen
      /\ Snapshot(b).buffer = b.buffer /\ Snapshot(b).dropped = b.dropped
      /\ Snapshot(b).from = b.from /\ Snapshot(b).hit = b.hit
      /\ Snapshot(b).savedDropped = b.dropped /\ Snapshot(b).saved = saved
  <2> DEFINE d == b.dropped
  <2>1. d \in Nat /\ Snapshot(b) = [b EXCEPT !.saved = saved, !.savedDropped = d]
    BY <1>1, <1>2
  <2> HIDE DEF d
  <2>2. /\ Snapshot(b) \in BumpRecords
        /\ Snapshot(b).sent = b.sent /\ Snapshot(b).seen = b.seen
        /\ Snapshot(b).buffer = b.buffer /\ Snapshot(b).dropped = b.dropped
        /\ Snapshot(b).from = b.from /\ Snapshot(b).hit = b.hit
        /\ Snapshot(b).savedDropped = d /\ Snapshot(b).saved = saved
    BY <1>3, <2>1
  <2> QED
    BY <2>2 DEF d
<1> QED
  BY <1>4 DEF saved

(* The collisions, and what a step keeps of them.                          *)
BumpsKept ==
  /\ bumps' \in BumpRecords /\ BufferIsLast'
  /\ bumps.hit => bumps'.hit

(* A step that only writes a manifest.                                     *)
LEMMA ManifestKeeps ==
  ASSUME NEW b \in BumpRecords, bumps \in BumpRecords, BufferIsLast,
         b.sent = bumps.sent, b.seen = bumps.seen, b.buffer = bumps.buffer,
         b.dropped = bumps.dropped, b.hit = bumps.hit, bumps' = Snapshot(b)
  PROVE  BumpsKept
  BY SnapshotTyped DEF BumpsKept, BufferIsLast

(* The buffer of the recording has the last of the collisions delivered.   *)
LEMMA BumpsStay ==
  ASSUME DrivingAssumption, drive \in DriveRecords, bumps \in BumpRecords, BufferIsLast,
         [DrivingNext]_drivingVars
  PROVE  BumpsKept
<1>1. CASE bumps' = bumps
  BY <1>1 DEF BumpsKept, BufferIsLast
<1>2. ASSUME Tick, bumps' # bumps
      PROVE  BumpsKept
  <2> DEFINE e == drive.frame + 1
             sent == Append(bumps.sent, e)
  <2>1. e \in Nat
    BY DEF DriveRecords
  <2>2. bumps' = [bumps EXCEPT !.sent = sent]
    BY <1>2 DEF Tick
  <2> HIDE DEF e
  <2>3. /\ sent \in Seq(Nat) /\ Len(sent) = Len(bumps.sent) + 1
        /\ \A n \in 1 .. Len(bumps.sent) : sent[n] = bumps.sent[n]
    BY <2>1 DEF BumpRecords
  <2> HIDE DEF sent
  <2>4. /\ bumps' \in BumpRecords /\ bumps'.sent = sent /\ bumps'.seen = bumps.seen
        /\ bumps'.buffer = bumps.buffer /\ bumps'.dropped = bumps.dropped /\ bumps'.hit = bumps.hit
    BY <2>2, <2>3 DEF BumpRecords
  <2>5. \A n \in DOMAIN bumps.buffer : bumps.dropped + n \in 1 .. Len(bumps.sent)
    BY DEF BufferIsLast, BumpRecords
  <2>6. Len(bumps.sent) \in Nat /\ bumps.seen \in Nat
    BY DEF BumpRecords
  <2>7. \A n \in DOMAIN bumps.buffer : sent[bumps.dropped + n] = bumps.sent[bumps.dropped + n]
    BY <2>3, <2>5
  <2>8. /\ bumps.seen <= Len(bumps.sent) /\ bumps.dropped + Len(bumps.buffer) = bumps.seen
        /\ \A n \in DOMAIN bumps.buffer : bumps.buffer[n] = bumps.sent[bumps.dropped + n]
    BY DEF BufferIsLast
  <2>9. bumps.seen <= Len(sent)
    BY <2>3, <2>6, <2>8
  <2>10. \A n \in DOMAIN bumps.buffer : bumps.buffer[n] = sent[bumps.dropped + n]
    BY <2>7, <2>8
  <2>11. BufferIsLast'
    BY <2>4, <2>8, <2>9, <2>10 DEF BufferIsLast
  <2> QED
    BY <2>4, <2>11 DEF BumpsKept
<1>3. ASSUME Collide
      PROVE  BumpsKept
  <2>1. bumps' = [bumps EXCEPT !.hit = TRUE]
    BY <1>3 DEF Collide
  <2>2. /\ bumps' \in BumpRecords /\ bumps'.sent = bumps.sent /\ bumps'.seen = bumps.seen
        /\ bumps'.buffer = bumps.buffer /\ bumps'.dropped = bumps.dropped /\ bumps'.hit = TRUE
    BY <2>1 DEF BumpRecords
  <2> QED
    BY <2>2 DEF BumpsKept, BufferIsLast
<1>4. ASSUME Receive
      PROVE  BumpsKept
  <2> DEFINE full == Len(bumps.buffer) >= Capacity
             kept == IF full THEN Tail(bumps.buffer) ELSE bumps.buffer
             e == bumps.sent[bumps.seen + 1]
             buffer == Append(kept, e)
             dropped == bumps.dropped + (IF full THEN 1 ELSE 0)
  <2>1. bumps' = [bumps EXCEPT !.seen = bumps.seen + 1, !.buffer = buffer, !.dropped = dropped]
    BY <1>4 DEF Receive
  <2>2. bumps.seen < Len(bumps.sent) /\ bumps.seen \in Nat /\ e \in Nat /\ bumps.sent \in Seq(Nat)
    BY <1>4 DEF Receive, BumpRecords
  <2>3. /\ kept \in Seq(Nat) /\ dropped \in Nat /\ dropped + Len(kept) = bumps.seen
        /\ \A n \in 1 .. Len(kept) : kept[n] = bumps.sent[dropped + n]
    <3>1. CASE ~full
      <4>1. kept = bumps.buffer /\ dropped = bumps.dropped
        BY <3>1 DEF BumpRecords
      <4> HIDE DEF kept, dropped
      <4>2. /\ bumps.dropped \in Nat /\ bumps.buffer \in Seq(Nat)
            /\ bumps.dropped + Len(bumps.buffer) = bumps.seen
            /\ DOMAIN bumps.buffer = 1 .. Len(bumps.buffer)
        BY DEF BumpRecords, BufferIsLast
      <4>3. \A n \in DOMAIN bumps.buffer : bumps.buffer[n] = bumps.sent[bumps.dropped + n]
        BY DEF BufferIsLast
      <4> QED
        BY <4>1, <4>2, <4>3
    <3>2. CASE full
      <4>1. bumps.buffer \in Seq(Nat) /\ bumps.buffer # <<>>
        BY <3>2 DEF BumpRecords, DrivingAssumption
      <4>2. /\ Tail(bumps.buffer) \in Seq(Nat)
            /\ Len(Tail(bumps.buffer)) = Len(bumps.buffer) - 1
            /\ \A n \in 1 .. Len(bumps.buffer) - 1 : Tail(bumps.buffer)[n] = bumps.buffer[n + 1]
        BY <4>1
      <4>3. /\ bumps.dropped \in Nat /\ bumps.dropped + Len(bumps.buffer) = bumps.seen
            /\ Len(bumps.buffer) \in Nat
            /\ \A n \in 1 .. Len(bumps.buffer) : bumps.buffer[n] = bumps.sent[bumps.dropped + n]
        BY <4>1 DEF BumpRecords, BufferIsLast
      <4>4. kept = Tail(bumps.buffer) /\ dropped = bumps.dropped + 1
        BY <3>2
      <4> HIDE DEF kept, dropped
      <4>5. \A n \in 1 .. Len(kept) : kept[n] = bumps.sent[(bumps.dropped + 1) + n]
        <5> TAKE n \in 1 .. Len(kept)
        <5>1. n + 1 \in 1 .. Len(bumps.buffer) /\ kept[n] = bumps.buffer[n + 1]
          BY <4>2, <4>3, <4>4
        <5>2. n \in Nat
          BY <5>1
        <5>3. bumps.dropped + (n + 1) = (bumps.dropped + 1) + n
          <6>1. \A d, m \in Nat : d + (m + 1) = (d + 1) + m
            OBVIOUS
          <6> QED
            BY <4>3, <5>2, <6>1
        <5> QED
          BY <4>3, <5>1, <5>3
      <4>6. dropped \in Nat /\ kept \in Seq(Nat) /\ dropped + Len(kept) = bumps.seen
        <5>1. kept \in Seq(Nat) /\ Len(kept) = Len(bumps.buffer) - 1
          BY <4>2, <4>4
        <5>2. dropped = bumps.dropped + 1
          BY <4>4
        <5>3. ASSUME NEW d \in Nat, NEW l \in Nat, d + l = bumps.seen
              PROVE  d + 1 \in Nat /\ (d + 1) + (l - 1) = bumps.seen
          BY <5>3
        <5>4. /\ bumps.dropped + 1 \in Nat
              /\ (bumps.dropped + 1) + (Len(bumps.buffer) - 1) = bumps.seen
          BY <4>3, <5>3
        <5> QED
          BY <5>1, <5>2, <5>4
      <4> QED
        BY <4>4, <4>5, <4>6
    <3> QED
      BY <3>1, <3>2
  <2> HIDE DEF full, kept, dropped
  <2>4. /\ buffer \in Seq(Nat) /\ Len(buffer) = Len(kept) + 1
        /\ \A n \in 1 .. Len(buffer) :
              buffer[n] = IF n = Len(kept) + 1 THEN bumps.sent[bumps.seen + 1] ELSE kept[n]
    BY <2>2, <2>3
  <2>5. \A n \in 1 .. Len(buffer) : buffer[n] = bumps.sent[dropped + n]
    <3> HIDE DEF buffer, e
    <3>1. Len(kept) \in Nat
      BY <2>3
    <3>2. dropped + (Len(kept) + 1) = bumps.seen + 1
      BY <2>2, <2>3, <3>1
    <3> TAKE n \in 1 .. Len(buffer)
    <3>3. CASE n = Len(kept) + 1
      BY <2>4, <3>2, <3>3
    <3>4. CASE n # Len(kept) + 1
      <4>1. n \in 1 .. Len(kept) /\ buffer[n] = kept[n]
        BY <2>4, <3>1, <3>4
      <4> QED
        BY <2>3, <4>1
    <3> QED
      BY <3>3, <3>4
  <2> HIDE DEF e, buffer
  <2>6. ASSUME NEW s \in Nat, bumps' = [bumps EXCEPT !.seen = s, !.buffer = buffer,
                                                     !.dropped = dropped]
        PROVE  /\ bumps' \in BumpRecords /\ bumps'.sent = bumps.sent /\ bumps'.seen = s
               /\ bumps'.buffer = buffer /\ bumps'.dropped = dropped /\ bumps'.hit = bumps.hit
    BY <2>3, <2>4, <2>6 DEF BumpRecords
  <2>7. /\ bumps' \in BumpRecords /\ bumps'.sent = bumps.sent /\ bumps'.seen = bumps.seen + 1
        /\ bumps'.buffer = buffer /\ bumps'.dropped = dropped /\ bumps'.hit = bumps.hit
    <3> DEFINE s == bumps.seen + 1
    <3>1. s \in Nat /\ bumps' = [bumps EXCEPT !.seen = s, !.buffer = buffer, !.dropped = dropped]
      BY <2>1, <2>2
    <3> HIDE DEF s
    <3>2. /\ bumps' \in BumpRecords /\ bumps'.sent = bumps.sent /\ bumps'.seen = s
          /\ bumps'.buffer = buffer /\ bumps'.dropped = dropped /\ bumps'.hit = bumps.hit
      BY <2>6, <3>1
    <3> QED
      BY <3>2 DEF s
  <2>8. Len(kept) \in Nat /\ Len(bumps.sent) \in Nat /\ DOMAIN buffer = 1 .. Len(buffer)
    BY <2>2, <2>3, <2>4
  <2>9. BufferIsLast'
    <3>1. bumps.seen + 1 <= Len(bumps.sent) /\ dropped + Len(buffer) = bumps.seen + 1
      BY <2>2, <2>3, <2>4, <2>8
    <3> QED
      BY <2>5, <2>7, <2>8, <3>1 DEF BufferIsLast
  <2> QED
    BY <2>7, <2>9 DEF BumpsKept
<1>5. ASSUME Capture, bumps' # bumps
      PROVE  BumpsKept
  <2> DEFINE b == IF drive.capture = "on" THEN bumps ELSE [bumps EXCEPT !.from = drive.frame]
  <2>1. bumps' = Snapshot(b)
    BY <1>5 DEF Capture
  <2>2. drive.frame \in Nat
    BY DEF DriveRecords
  <2>3. /\ b \in BumpRecords /\ b.sent = bumps.sent /\ b.seen = bumps.seen
        /\ b.buffer = bumps.buffer /\ b.dropped = bumps.dropped /\ b.hit = bumps.hit
    BY <2>2 DEF BumpRecords
  <2> HIDE DEF b
  <2> QED
    BY <2>1, <2>3, ManifestKeeps
<1>6. ASSUME CleanUpRun, bumps' # bumps
      PROVE  BumpsKept
  <2>1. bumps' = Snapshot(bumps)
    BY <1>6 DEF CleanUpRun
  <2> QED
    BY <2>1, ManifestKeeps
<1> QED
  BY <1>1, <1>2, <1>3, <1>4, <1>5, <1>6, Untouched

(* What is written of the frames.                                          *)
Entries == [who : Measured, distance : Levels, ttc : Levels]
EvidenceRecords ==
  [trace : SUBSET Entries, frames : Nat, samples : SUBSET [images : Nat, state : Nat],
   rows : Nat, flagged : BOOLEAN]
Sampled == [images |-> scene.imaged, state |-> scene.pose]

(* A sample adds its images and its state.                                 *)
LEMMA CaptureWrites ==
  ASSUME scene \in SceneRecords, evidence \in EvidenceRecords, Capture
  PROVE  /\ evidence' \in EvidenceRecords /\ evidence'.trace = evidence.trace
         /\ evidence'.frames = evidence.frames /\ evidence'.rows = evidence.rows
         /\ evidence'.flagged = evidence.flagged
         /\ evidence'.samples \subseteq evidence.samples \cup {Sampled}
<1>1. evidence' = evidence
        \/ evidence' = [evidence EXCEPT !.samples = evidence.samples \cup {Sampled}]
  BY DEF Capture, Sampled
<1>2. Sampled \in [images : Nat, state : Nat]
  BY DEF Sampled, SceneRecords
<1> QED
  BY <1>1, <1>2 DEF EvidenceRecords

(* A row has the flag of the run.                                          *)
LEMMA RowWrites ==
  ASSUME bumps \in BumpRecords, evidence \in EvidenceRecords, Row
  PROVE  /\ evidence' \in EvidenceRecords /\ evidence'.trace = evidence.trace
         /\ evidence'.frames = evidence.frames /\ evidence'.rows = evidence.rows + 1
         /\ evidence'.flagged => evidence.flagged \/ bumps.hit
         /\ evidence'.samples = evidence.samples
<1> DEFINE r == evidence.rows + 1
           f == evidence.flagged \/ bumps.hit
<1>1. evidence' = [evidence EXCEPT !.rows = r, !.flagged = f]
  BY DEF Row
<1>2. r \in Nat
  BY DEF EvidenceRecords
<1>3. f \in BOOLEAN
  OBVIOUS
<1>4. ASSUME NEW a \in Nat, NEW b \in BOOLEAN,
             evidence' = [evidence EXCEPT !.rows = a, !.flagged = b]
      PROVE  /\ evidence' \in EvidenceRecords /\ evidence'.trace = evidence.trace
             /\ evidence'.frames = evidence.frames /\ evidence'.rows = a
             /\ evidence'.flagged = b /\ evidence'.samples = evidence.samples
  BY <1>4 DEF EvidenceRecords
<1> HIDE DEF r, f
<1>5. /\ evidence' \in EvidenceRecords /\ evidence'.trace = evidence.trace
      /\ evidence'.frames = evidence.frames /\ evidence'.rows = r
      /\ evidence'.flagged = f /\ evidence'.samples = evidence.samples
  BY <1>1, <1>2, <1>3, <1>4
<1>6. evidence'.flagged => f
  BY <1>5, Zenon
<1> QED
  BY <1>5, <1>6 DEF r, f

(* What a frame measures: in the trace, the least and the triggers.        *)
Measuring(d, t) ==
  /\ evidence'.trace = evidence.trace \cup
        {[who |-> a, distance |-> d[a], ttc |-> t[a]] : a \in Measured}
  /\ least' = [distance |-> Lowest(least.distance, {d[a] : a \in Measured}),
               ttc |-> Lowest(least.ttc, {t[a] : a \in Measured})]
  /\ triggers' = [a \in Adversaries |->
        IF triggers[a] = 0 /\ d[a] <= spec.trigger[a] THEN 1 ELSE triggers[a]]

(* A frame that is measured counts, and its entries are in the trace.      *)
LEMMA MeasureWrites ==
  ASSUME evidence \in EvidenceRecords, Measure
  PROVE  /\ evidence' \in EvidenceRecords
         /\ evidence'.frames = evidence.frames + 1 /\ evidence'.rows = evidence.rows
         /\ evidence'.flagged = evidence.flagged /\ evidence'.samples = evidence.samples
         /\ \E d, t \in [Measured -> Levels] : Measuring(d, t)
<1> DEFINE added(d, t) == {[who |-> a, distance |-> d[a], ttc |-> t[a]] : a \in Measured}
<1>1. PICK d \in [Measured -> Levels], t \in [Measured -> Levels] :
        /\ evidence' = [evidence EXCEPT !.frames = @ + 1, !.trace = @ \cup added(d, t)]
        /\ least' = [distance |-> Lowest(least.distance, {d[a] : a \in Measured}),
                     ttc |-> Lowest(least.ttc, {t[a] : a \in Measured})]
        /\ triggers' = [a \in Adversaries |->
              IF triggers[a] = 0 /\ d[a] <= spec.trigger[a] THEN 1 ELSE triggers[a]]
  BY Zenon DEF Measure
<1>2. added(d, t) \subseteq Entries
  BY DEF Entries
<1> DEFINE n == evidence.frames + 1
           trace == evidence.trace \cup added(d, t)
<1>3. n \in Nat /\ trace \in SUBSET Entries
  BY <1>2 DEF EvidenceRecords
<1>4. evidence' = [evidence EXCEPT !.frames = n, !.trace = trace]
  BY <1>1
<1> HIDE DEF n, trace, added
<1>5. /\ evidence' \in EvidenceRecords /\ evidence'.frames = n /\ evidence'.trace = trace
      /\ evidence'.rows = evidence.rows /\ evidence'.flagged = evidence.flagged
      /\ evidence'.samples = evidence.samples
  BY <1>3, <1>4 DEF EvidenceRecords
<1>6. evidence'.trace = evidence.trace \cup added(d, t)
  BY <1>5 DEF trace
<1>7. Measuring(d, t)
  BY <1>1, <1>6 DEF Measuring, added
<1> QED
  BY <1>5, <1>7 DEF n

(* The evidence is what the three of them write.                           *)
LEMMA EvidenceTyped ==
  ASSUME scene \in SceneRecords, bumps \in BumpRecords, evidence \in EvidenceRecords,
         [DrivingNext]_drivingVars
  PROVE  evidence' \in EvidenceRecords
  BY Untouched, CaptureWrites, RowWrites, MeasureWrites

(* The least distance and time, and the triggers.                          *)
LeastRecords == [distance : 0 .. 2, ttc : 0 .. 2]
SpecRecords == [trigger : [Adversaries -> 0 .. 1], collisionFails : BOOLEAN]

(* The least stays that of the trace.                                      *)
LEMMA LeastStays ==
  ASSUME scene \in SceneRecords, bumps \in BumpRecords, evidence \in EvidenceRecords,
         least \in LeastRecords, LeastIsOfTrace, [DrivingNext]_drivingVars
  PROVE  least' \in LeastRecords /\ LeastIsOfTrace'
<1>1. CASE Measure
  <2>1. PICK d \in [Measured -> Levels], t \in [Measured -> Levels] : Measuring(d, t)
    BY <1>1, MeasureWrites
  <2> DEFINE ds == {d[a] : a \in Measured}
             ts == {t[a] : a \in Measured}
             ld == Lowest(least.distance, ds)
             lt == Lowest(least.ttc, ts)
  <2>2. ds \in SUBSET Levels /\ ts \in SUBSET Levels
    OBVIOUS
  <2>3. least.distance \in 0 .. 2 /\ least.ttc \in 0 .. 2
    BY DEF LeastRecords
  <2>4. least' = [distance |-> ld, ttc |-> lt]
    BY <2>1 DEF Measuring
  <2> HIDE DEF ds, ts
  <2>5. /\ ld \in 0 .. 2 /\ (ld < 1 <=> least.distance < 1 \/ \E v \in ds : v < 1)
        /\ lt \in 0 .. 2 /\ (lt < 1 <=> least.ttc < 1 \/ \E v \in ts : v < 1)
    BY <2>2, <2>3, LowestIs
  <2> HIDE DEF ld, lt
  <2>6. least' \in LeastRecords /\ least'.distance = ld /\ least'.ttc = lt
    BY <2>4, <2>5 DEF LeastRecords
  <2> DEFINE added == {[who |-> a, distance |-> d[a], ttc |-> t[a]] : a \in Measured}
  <2>7. evidence'.trace = evidence.trace \cup added
    BY <2>1 DEF Measuring
  <2>8. /\ (\E v \in ds : v < 1) <=> \E m \in added : m.distance < 1
        /\ (\E v \in ts : v < 1) <=> \E m \in added : m.ttc < 1
    <3>1. \A a \in Measured :
            /\ d[a] \in ds /\ t[a] \in ts
            /\ [who |-> a, distance |-> d[a], ttc |-> t[a]] \in added
      BY DEF ds, ts
    <3>2. /\ \A v \in ds : \E a \in Measured : v = d[a]
          /\ \A v \in ts : \E a \in Measured : v = t[a]
          /\ \A m \in added : \E a \in Measured : m.distance = d[a] /\ m.ttc = t[a]
      BY DEF ds, ts
    <3> HIDE DEF added
    <3>3. ASSUME NEW a \in Measured
          PROVE  \E m \in added : m.distance = d[a] /\ m.ttc = t[a]
      BY <3>1
    <3> QED
      BY <3>1, <3>2, <3>3
  <2> HIDE DEF added
  <2>9. /\ least.distance < 1 <=> \E m \in evidence.trace : m.distance < 1
        /\ least.ttc < 1 <=> \E m \in evidence.trace : m.ttc < 1
    BY DEF LeastIsOfTrace, MinDistance, MinTTC
  <2>10. /\ least'.distance < 1 <=> \E m \in evidence'.trace : m.distance < 1
         /\ least'.ttc < 1 <=> \E m \in evidence'.trace : m.ttc < 1
    BY <2>5, <2>6, <2>7, <2>8, <2>9
  <2> QED
    BY <2>6, <2>10 DEF LeastIsOfTrace, MinDistance, MinTTC
<1>2. CASE ~Measure
  <2>1. least' = least
    BY <1>2, Untouched
  <2>2. evidence'.trace = evidence.trace
    BY <1>2, Untouched, CaptureWrites, RowWrites
  <2> QED
    BY <2>1, <2>2 DEF LeastIsOfTrace
<1> QED
  BY <1>1, <1>2

(* An adversary that the trace has within its distance.                    *)
Reached(T, a, limit) == \E m \in T : m.who = a /\ m.distance <= limit

(* The number of times an adversary is to be triggered is none or one.     *)
LEMMA TriggersCounted ==
  ASSUME NEW T, NEW a, NEW limit
  PROVE  Cardinality({a : m \in {n \in T : n.who = a /\ n.distance <= limit}}) =
            IF Reached(T, a, limit) THEN 1 ELSE 0
<1> DEFINE of == {n \in T : n.who = a /\ n.distance <= limit}
           C == {a : m \in of}
<1>1. CASE Reached(T, a, limit)
  <2>1. C = {a}
    BY <1>1 DEF Reached
  <2>2. Cardinality(C) = 1
    BY <2>1, FS_Singleton, Zenon
  <2> QED
    BY <1>1, <2>2
<1>2. CASE ~Reached(T, a, limit)
  <2>1. C = {}
    BY <1>2 DEF Reached
  <2>2. Cardinality(C) = 0
    BY <2>1, FS_EmptySet, Zenon
  <2> QED
    BY <1>2, <2>2
<1> QED
  BY <1>1, <1>2

(* What it is to be triggered once.                                        *)
LEMMA TriggeredMeans ==
  TriggeredOnce <=> \A a \in Adversaries :
     triggers[a] = IF Reached(evidence.trace, a, spec.trigger[a]) THEN 1 ELSE 0
<1> DEFINE count(a) ==
      Cardinality({a : m \in {n \in evidence.trace : n.who = a /\ n.distance <= spec.trigger[a]}})
<1>1. \A a \in Adversaries :
        count(a) = IF Reached(evidence.trace, a, spec.trigger[a]) THEN 1 ELSE 0
  BY TriggersCounted
<1>2. TriggeredOnce <=> \A a \in Adversaries : triggers[a] = count(a)
  BY Zenon DEF TriggeredOnce
<1> HIDE DEF count
<1> QED
  BY <1>1, <1>2

(* An adversary stays triggered once.                                      *)
LEMMA TriggersStay ==
  ASSUME spec \in SpecRecords, scene \in SceneRecords, bumps \in BumpRecords,
         evidence \in EvidenceRecords, triggers \in [Adversaries -> 0 .. 1], TriggeredOnce,
         [DrivingNext]_drivingVars
  PROVE  triggers' \in [Adversaries -> 0 .. 1] /\ TriggeredOnce'
<1> DEFINE limit(a) == spec.trigger[a]
<1>1. \A a \in Adversaries : triggers[a] = IF Reached(evidence.trace, a, limit(a)) THEN 1 ELSE 0
  BY TriggeredMeans
<1>2. SUFFICES /\ triggers' \in [Adversaries -> 0 .. 1]
               /\ \A a \in Adversaries :
                     triggers'[a] = IF Reached(evidence'.trace, a, limit(a)) THEN 1 ELSE 0
  <2> DEFINE count(a) == Cardinality({a : m \in
               {n \in evidence'.trace : n.who = a /\ n.distance <= limit(a)}})
  <2>1. \A a \in Adversaries : count(a) = IF Reached(evidence'.trace, a, limit(a)) THEN 1 ELSE 0
    BY TriggersCounted
  <2>2. spec' = spec
    BY Untouched
  <2>3. TriggeredOnce' <=> \A a \in Adversaries : triggers'[a] = count(a)
    BY <2>2, Zenon DEF TriggeredOnce
  <2> HIDE DEF count
  <2> QED
    BY <2>1, <2>3
<1>3. CASE Measure
  <2>1. PICK d \in [Measured -> Levels], t \in [Measured -> Levels] : Measuring(d, t)
    BY <1>3, MeasureWrites
  <2>2. triggers' = [a \in Adversaries |->
           IF triggers[a] = 0 /\ d[a] <= limit(a) THEN 1 ELSE triggers[a]]
    BY <2>1 DEF Measuring
  <2>3. triggers' \in [Adversaries -> 0 .. 1]
    BY <2>2
  <2> DEFINE added == {[who |-> a, distance |-> d[a], ttc |-> t[a]] : a \in Measured}
  <2>4. evidence'.trace = evidence.trace \cup added
    BY <2>1 DEF Measuring
  <2>5. ASSUME NEW a \in Adversaries
        PROVE  Reached(added, a, limit(a)) <=> d[a] <= limit(a)
    <3>1. a \in Measured
      BY DEF Measured
    <3>2. [who |-> a, distance |-> d[a], ttc |-> t[a]] \in added
      BY <3>1
    <3>3. \A m \in added : m.who = a => m.distance = d[a]
      OBVIOUS
    <3> DEFINE mine == [who |-> a, distance |-> d[a], ttc |-> t[a]]
    <3>4. mine.who = a /\ mine.distance = d[a] /\ mine \in added
      BY <3>2
    <3> HIDE DEF mine, added
    <3> QED
      BY <3>3, <3>4, Zenon DEF Reached
  <2> HIDE DEF added
  <2>6. ASSUME NEW a \in Adversaries
        PROVE  triggers'[a] = IF Reached(evidence'.trace, a, limit(a)) THEN 1 ELSE 0
    <3>1. Reached(evidence'.trace, a, limit(a))
            <=> Reached(evidence.trace, a, limit(a)) \/ Reached(added, a, limit(a))
      BY <2>4 DEF Reached
    <3>2. triggers'[a] = IF triggers[a] = 0 /\ d[a] <= limit(a) THEN 1 ELSE triggers[a]
      BY <2>2
    <3> QED
      BY <1>1, <2>5, <3>1, <3>2
  <2> QED
    BY <2>3, <2>6
<1>4. CASE ~Measure
  <2>1. triggers' = triggers
    BY <1>4, Untouched
  <2>2. evidence'.trace = evidence.trace
    BY <1>4, Untouched, CaptureWrites, RowWrites
  <2> QED
    BY <1>1, <2>1, <2>2
<1> QED
  BY <1>3, <1>4

(* The outcome.                                                            *)
OutcomeRecords ==
  [status : Verdicts, collision : BOOLEAN, told : Verdicts, dataset : Verdicts \cup {"error"},
   clean : BOOLEAN]
IsCritical ==
  \/ bumps.hit /\ spec.collisionFails
  \/ least.ttc < MinTTC
  \/ least.distance < MinDistance
Verdict == IF drive.stopped THEN "stopped" ELSE IF IsCritical THEN "critical" ELSE "passed"

(* A start tells at most that the run was stopped, and ends it then.       *)
LEMMA StartOutcome ==
  ASSUME drive \in DriveRecords, outcome \in OutcomeRecords, StartUp
  PROVE  /\ outcome' \in OutcomeRecords
         /\ outcome'.status = outcome.status /\ outcome'.collision = outcome.collision
         /\ outcome'.dataset = outcome.dataset /\ outcome'.clean = outcome.clean
         /\ outcome'.told \in {outcome.told, "stopped"}
         /\ outcome' # outcome => drive'.step = "ended"
<1>1. outcome' = outcome
        \/ (GoTo("ended") /\ outcome' = [outcome EXCEPT !.told = "stopped"])
  BY DEF StartUp
<1>2. GoTo("ended") => drive'.step = "ended"
  BY DEF GoTo, DriveRecords
<1>3. outcome' = [outcome EXCEPT !.told = "stopped"] =>
         /\ outcome' \in OutcomeRecords
         /\ outcome'.status = outcome.status /\ outcome'.collision = outcome.collision
         /\ outcome'.dataset = outcome.dataset /\ outcome'.clean = outcome.clean
         /\ outcome'.told = "stopped"
  BY DEF OutcomeRecords, Verdicts
<1> QED
  BY <1>1, <1>2, <1>3

(* A verdict is that of evaluate, told at once or not.                     *)
LEMMA EvaluateOutcome ==
  ASSUME bumps \in BumpRecords, outcome \in OutcomeRecords, Evaluate
  PROVE  /\ outcome' \in OutcomeRecords
         /\ outcome'.status = Verdict /\ outcome'.collision = bumps.hit
         /\ outcome'.dataset = outcome.dataset /\ outcome'.clean = outcome.clean
         /\ outcome'.told \in {outcome.told, Verdict}
<1>1. outcome' = [outcome EXCEPT !.status = Verdict, !.collision = bumps.hit]
        \/ outcome' = [[outcome EXCEPT !.status = Verdict, !.collision = bumps.hit]
                          EXCEPT !.told = Verdict]
  BY Zenon DEF Evaluate, Verdict, IsCritical
<1>2. Verdict \in Verdicts
  BY DEF Verdict, Verdicts
<1>3. bumps.hit \in BOOLEAN
  BY DEF BumpRecords
<1>4. ASSUME NEW v \in Verdicts, NEW hit \in BOOLEAN, NEW told \in {outcome.told, v},
             outcome' = [outcome EXCEPT !.status = v, !.collision = hit, !.told = told]
      PROVE  /\ outcome' \in OutcomeRecords /\ outcome'.status = v /\ outcome'.collision = hit
             /\ outcome'.dataset = outcome.dataset /\ outcome'.clean = outcome.clean
             /\ outcome'.told = told
  BY <1>4 DEF OutcomeRecords
<1>5. ASSUME NEW v \in Verdicts, NEW hit \in BOOLEAN
      PROVE  /\ [outcome EXCEPT !.status = v, !.collision = hit]
                  = [outcome EXCEPT !.status = v, !.collision = hit, !.told = outcome.told]
             /\ [[outcome EXCEPT !.status = v, !.collision = hit] EXCEPT !.told = v]
                  = [outcome EXCEPT !.status = v, !.collision = hit, !.told = v]
  BY DEF OutcomeRecords
<1> DEFINE v == Verdict hit == bumps.hit
<1>6. v \in Verdicts /\ hit \in BOOLEAN
  BY <1>2, <1>3
<1>7. PICK told \in {outcome.told, v} :
        outcome' = [outcome EXCEPT !.status = v, !.collision = hit, !.told = told]
  <2> HIDE DEF v, hit
  <2>1. outcome' = [outcome EXCEPT !.status = v, !.collision = hit]
          \/ outcome' = [[outcome EXCEPT !.status = v, !.collision = hit] EXCEPT !.told = v]
    BY <1>1, Zenon DEF v, hit
  <2> QED
    BY <1>5, <1>6, <2>1
<1> HIDE DEF v, hit
<1>8. /\ outcome' \in OutcomeRecords /\ outcome'.status = v /\ outcome'.collision = hit
      /\ outcome'.dataset = outcome.dataset /\ outcome'.clean = outcome.clean
      /\ outcome'.told = told
  BY <1>4, <1>6, <1>7
<1> QED
  BY <1>8, Zenon DEF v, hit

(* The cleanup tells the verdict or not, and says it of a rule run.        *)
LEMMA CleanUpOutcome ==
  ASSUME drive \in DriveRecords, outcome \in OutcomeRecords, CleanUpRun
  PROVE  /\ outcome' \in OutcomeRecords
         /\ outcome'.status = outcome.status /\ outcome'.collision = outcome.collision
         /\ outcome'.told \in {outcome.told, outcome.status}
         /\ outcome'.dataset \in {"none", "error", outcome.status}
         /\ drive.kind = "native" => outcome'.dataset = "none"
         /\ outcome'.clean /\ drive.capture = "on" => bumps' = Snapshot(bumps)
<1> DEFINE dataset(finalized) ==
             IF drive.kind = "native" \/ ~finalized THEN "none"
             ELSE IF drive.failed THEN "error" ELSE outcome.status
           told(complete) == IF drive.kind = "rule" /\ complete /\ ~drive.failed
                             THEN outcome.status ELSE outcome.told
<1>1. PICK complete \in BOOLEAN, finalized \in BOOLEAN :
        /\ bumps' = IF complete /\ drive.capture = "on" THEN Snapshot(bumps) ELSE bumps
        /\ outcome' = [outcome EXCEPT !.clean = complete, !.dataset = dataset(finalized),
                                      !.told = told(complete)]
  BY Zenon DEF CleanUpRun
<1> DEFINE d == dataset(finalized)
           t == told(complete)
<1>2. /\ d \in {"none", "error", outcome.status} /\ (drive.kind = "native" => d = "none")
      /\ t \in {outcome.told, outcome.status}
  OBVIOUS
<1>3. outcome' = [outcome EXCEPT !.clean = complete, !.dataset = d, !.told = t]
  BY <1>1, Zenon
<1> HIDE DEF d, t
<1>4. d \in Verdicts \cup {"error"} /\ t \in Verdicts
  BY <1>2 DEF OutcomeRecords, Verdicts
<1>5. ASSUME NEW b \in BOOLEAN, outcome' = [outcome EXCEPT !.clean = b, !.dataset = d, !.told = t]
      PROVE  /\ outcome' \in OutcomeRecords /\ outcome'.clean = b /\ outcome'.dataset = d
             /\ outcome'.told = t /\ outcome'.status = outcome.status
             /\ outcome'.collision = outcome.collision
  BY <1>4, <1>5 DEF OutcomeRecords
<1>6. /\ outcome' \in OutcomeRecords /\ outcome'.clean = complete /\ outcome'.dataset = d
      /\ outcome'.told = t /\ outcome'.status = outcome.status
      /\ outcome'.collision = outcome.collision
  BY <1>3, <1>5
<1>7. outcome'.clean /\ drive.capture = "on" => bumps' = Snapshot(bumps)
  BY <1>1, <1>6, Zenon
<1> QED
  BY <1>2, <1>6, <1>7

(* A verdict stays the last.                                               *)
LEMMA VerdictStaysLast ==
  ASSUME drive \in DriveRecords, drive.kind = "native" => drive.step \notin RuleSteps,
         bumps \in BumpRecords, outcome \in OutcomeRecords, VerdictComesLast,
         [DrivingNext]_drivingVars
  PROVE  outcome' \in OutcomeRecords /\ VerdictComesLast'
<1> DEFINE late == {"hold", "clean", "ended"}
<1>1. drive'.kind = drive.kind
  BY DriveTyped DEF Keeps
<1>2. CASE outcome' = outcome
  <2>1. /\ drive'.step \notin late => drive.step \notin late
        /\ drive'.step # "ended" => drive.step # "ended"
    BY Goes, Untouched DEF Onward, Doing
  <2> QED
    BY <1>1, <1>2, <2>1 DEF VerdictComesLast
<1>3. CASE StartUp /\ outcome' # outcome
  <2>1. drive'.step = "ended" /\ drive.step = "startup"
    BY <1>3, StartOutcome DEF StartUp, Doing
  <2> QED
    BY <1>1, <1>3, <2>1, StartOutcome DEF VerdictComesLast
<1>4. CASE Evaluate
  <2>1. drive'.step \in {"hold", "clean"} /\ drive.step = "evaluate"
    BY <1>4, Goes DEF Onward, Doing
  <2> QED
    BY <1>1, <1>4, <2>1, EvaluateOutcome DEF VerdictComesLast
<1>5. CASE CleanUpRun
  <2>1. drive'.step = "ended"
    BY <1>5, Goes DEF Onward
  <2> QED
    BY <1>1, <1>5, <2>1, CleanUpOutcome DEF VerdictComesLast
<1> QED
  BY <1>2, <1>3, <1>4, <1>5, Untouched

(* A place that is found is taken, and a run that does not fail found all. *)
LEMMA PlacesTaken ==
  ASSUME drive \in DriveRecords, scene \in SceneRecords
  PROVE  /\ PlaceActors /\ Doing("ego") /\ drive'.step # "clean" => "ego" \in scene'.placed
         /\ PlaceActors /\ Doing("adversaries") /\ drive'.step # "clean"
               => Adversaries \subseteq scene'.placed
         /\ PlaceObstacles /\ drive'.step # "clean" => Obstacles \subseteq scene'.placed
<1>1. Abort => drive'.step = "clean"
  BY DEF Abort, DriveRecords
<1>2. \A actors : Place(actors) => actors \subseteq scene'.placed
  BY DEF Place, SceneRecords
<1>3. PlaceActors /\ Doing("ego") => Place({"ego"}) \/ Abort
  BY DEF PlaceActors, Doing
<1>4. PlaceActors /\ Doing("adversaries") => Place(Adversaries) \/ Abort
  BY DEF PlaceActors, Doing
<1>5. PlaceObstacles => Place(Obstacles) \/ Abort
  BY DEF PlaceObstacles
<1> QED
  BY <1>1, <1>2, <1>3, <1>4, <1>5

(* Who is placed stays so until the cleanup.                               *)
LEMMA PlacedStay ==
  ASSUME drive \in DriveRecords, drive.kind = "native" => drive.step \notin RuleSteps,
         scene \in SceneRecords, PlacedSoFar, [DrivingNext]_drivingVars
  PROVE  PlacedSoFar'
<1> DEFINE past(steps, s) == s \notin steps \cup {"startup", "ego", "clean", "ended"}
           first == {}
           second == {"adversaries"}
           third == {"adversaries", "scenery", "obstacles"}
<1>1. /\ past(first, drive.step) => "ego" \in scene.placed
      /\ past(second, drive.step) => Adversaries \subseteq scene.placed
      /\ past(third, drive.step) => Obstacles \subseteq scene.placed
  BY DEF PlacedSoFar
<1>2. SUFFICES ASSUME drive'.step \notin {"startup", "ego", "clean", "ended"}
               PROVE  /\ "ego" \in scene'.placed
                      /\ past(second, drive'.step) => Adversaries \subseteq scene'.placed
                      /\ past(third, drive'.step) => Obstacles \subseteq scene'.placed
  BY DEF PlacedSoFar
<1>3. scene.placed \subseteq scene'.placed
  <2>1. ~CleanUpRun
    BY <1>2, Goes DEF Onward
  <2> QED
    BY <2>1, SceneChanges
<1>4. CASE drive'.step = drive.step
  BY <1>1, <1>2, <1>3, <1>4
<1>5. CASE PlaceActors /\ Doing("ego")
  <2>1. drive'.step = "adversaries"
    BY <1>2, <1>5, Goes DEF Onward, Doing
  <2> QED
    BY <1>5, <2>1, PlacesTaken
<1>6. CASE PlaceActors /\ Doing("adversaries")
  <2>1. drive'.step = "scenery" /\ drive.step = "adversaries"
    BY <1>2, <1>6, Goes DEF Onward, Doing
  <2> QED
    BY <1>1, <1>3, <1>6, <2>1, PlacesTaken
<1>7. CASE PlaceObstacles
  <2>1. drive'.step = "prepare" /\ drive.step = "obstacles"
    BY <1>2, <1>7, Goes DEF Onward, Doing
  <2> QED
    BY <1>1, <1>3, <1>7, <2>1, PlacesTaken
<1>8. CASE PlaceScenery
  <2>1. drive'.step = "obstacles" /\ drive.step = "scenery"
    BY <1>2, <1>8, Goes DEF Onward, Doing
  <2> QED
    BY <1>1, <1>3, <2>1
<1>9. CASE Prepare \/ Poll \/ Edit \/ Tick \/ Capture \/ Row \/ Measure \/ Evaluate \/ Hold
  <2>1. drive.step \in {"prepare", "poll", "edit", "tick", "capture", "row", "measure",
                        "evaluate", "hold"}
    BY <1>9, Goes DEF Onward, Doing
  <2> QED
    BY <1>1, <1>3, <2>1
<1>10. ~(drive'.step = drive.step) => ~Stop /\ ~StartUp /\ ~CleanUpRun
  BY <1>2, Goes DEF Onward
<1>11. PlaceActors => Doing("ego") \/ Doing("adversaries")
  BY DEF PlaceActors
<1> QED
  BY <1>4, <1>5, <1>6, <1>7, <1>8, <1>9, <1>10, <1>11, Untouched

(* The rows of a rule run keep up with its frames, one ahead between Row   *)
(* and Measure.                                                            *)
LEMMA RowsKeepUp ==
  ASSUME drive \in DriveRecords, drive.kind = "native" => drive.step \notin RuleSteps,
         scene \in SceneRecords, bumps \in BumpRecords, evidence \in EvidenceRecords,
         RowsAreOfFrames, [DrivingNext]_drivingVars
  PROVE  RowsAreOfFrames'
<1>1. SUFFICES ASSUME drive.kind = "rule"
               PROVE  evidence'.rows = evidence'.frames
                                         + (IF drive'.step = "measure" THEN 1 ELSE 0)
  BY DriveTyped DEF RowsAreOfFrames, Doing, Keeps
<1>2. evidence.rows = evidence.frames + (IF drive.step = "measure" THEN 1 ELSE 0)
  BY <1>1 DEF RowsAreOfFrames, Doing
<1>3. evidence.rows \in Nat /\ evidence.frames \in Nat
  BY DEF EvidenceRecords
<1>4. CASE Row
  <2>1. drive.step = "row" /\ drive'.step = "measure"
    BY <1>4, Goes DEF Onward, Doing
  <2> QED
    BY <1>2, <1>3, <1>4, <2>1, RowWrites
<1>5. CASE Measure
  <2>1. drive.step = "measure" /\ drive'.step # "measure"
    BY <1>5, Goes DEF Onward, Doing
  <2> QED
    BY <1>2, <1>3, <1>5, <2>1, MeasureWrites
<1>6. CASE ~Row /\ ~Measure
  <2>1. evidence'.rows = evidence.rows /\ evidence'.frames = evidence.frames
    BY <1>6, Untouched, CaptureWrites
  <2>2. Edit => drive.step # "measure" /\ drive'.step = "tick"
    <3>1. Edit => drive.step = "edit" /\ drive' = [drive EXCEPT !.step = "tick"]
      BY <1>1, Follows DEF Edit, Advance, Doing
    <3> QED
      BY <3>1 DEF DriveRecords
  <2>3. Stop => drive'.step = drive.step
    <3>1. Stop => drive' = [drive EXCEPT !.stop = TRUE]
      BY <1>1 DEF Stop
    <3> QED
      BY <3>1 DEF DriveRecords
  <2>4. drive'.step = "measure" <=> drive.step = "measure"
    BY <1>6, <2>2, <2>3, Goes, Untouched DEF Onward, Doing
  <2> QED
    BY <1>2, <2>1, <2>4
<1> QED
  BY <1>4, <1>5, <1>6

(* A flagged row stays one of a collision.                                 *)
LEMMA FlagStays ==
  ASSUME DrivingAssumption, drive \in DriveRecords, scene \in SceneRecords, bumps \in BumpRecords,
         BufferIsLast, evidence \in EvidenceRecords, FlaggedWasHit, [DrivingNext]_drivingVars
  PROVE  FlaggedWasHit'
<1>1. bumps.hit => bumps'.hit
  BY BumpsStay DEF BumpsKept
<1>2. evidence'.flagged => evidence.flagged \/ bumps.hit
  <2>1. CASE Row
    BY <2>1, RowWrites
  <2>2. CASE ~Row
    <3>1. evidence'.flagged = evidence.flagged
      BY <2>2, Untouched, CaptureWrites, MeasureWrites
    <3> QED
      BY <3>1, Zenon
  <2> QED
    BY <2>1, <2>2
<1> QED
  BY <1>1, <1>2 DEF FlaggedWasHit

(* A sample is of one moment.                                              *)
LEMMA SamplesStay ==
  ASSUME drive \in DriveRecords, drive.kind = "native" => drive.step \notin RuleSteps,
         scene \in SceneRecords, bumps \in BumpRecords, evidence \in EvidenceRecords,
         ImagesAreOfNow, SamplesAreAligned, [DrivingNext]_drivingVars
  PROVE  ImagesAreOfNow' /\ SamplesAreAligned'
<1>1. ImagesAreOfNow'
  <2>1. SUFFICES ASSUME drive'.step = "capture"
                 PROVE  scene'.imaged = scene'.pose
    BY DEF ImagesAreOfNow, Doing
  <2>2. CASE Tick
    BY <2>2, SceneChanges
  <2>3. CASE ~Tick
    <3>1. drive.step = "capture"
      BY <2>1, <2>3, Goes, Untouched DEF Onward, Doing
    <3>2. ~Edit
      BY <3>1 DEF Edit, Doing
    <3>3. scene'.imaged = scene.imaged /\ scene'.pose = scene.pose
      BY <2>3, <3>2, SceneChanges
    <3> QED
      BY <3>1, <3>3 DEF ImagesAreOfNow, Doing
  <2> QED
    BY <2>2, <2>3
<1>2. SamplesAreAligned'
  <2>1. CASE Capture
    <3>1. Sampled.images = Sampled.state
      BY <2>1 DEF Capture, ImagesAreOfNow, Sampled
    <3> QED
      BY <2>1, <3>1, CaptureWrites DEF SamplesAreAligned
  <2>2. CASE ~Capture
    BY <2>2, Untouched, RowWrites, MeasureWrites DEF SamplesAreAligned
  <2> QED
    BY <2>1, <2>2
<1> QED
  BY <1>1, <1>2

(* The collisions of a complete recording stay accounted for.              *)
LEMMA CollisionsStay ==
  ASSUME drive \in DriveRecords, drive.kind = "native" => drive.step \notin RuleSteps,
         bumps \in BumpRecords, BufferIsLast, outcome \in OutcomeRecords, VerdictComesLast,
         CollisionsAreAccounted, [DrivingNext]_drivingVars
  PROVE  CollisionsAreAccounted'
<1>1. SUFFICES ASSUME drive'.step = "ended", outcome'.clean, drive'.capture = "on",
                      bumps'.savedDropped = 0
               PROVE  bumps'.saved = {bumps'.sent[n] : n \in 1 .. bumps'.seen}
                                        \ 0 .. bumps'.from - 1
  BY DEF CollisionsAreAccounted, Doing
<1>2. CASE drive.step = "ended"
  <2>1. drive' = drive /\ bumps' = bumps /\ outcome' = outcome
    BY <1>2, Goes, Untouched DEF Onward, Doing, Tick, Collide, Receive, Capture, CleanUpRun,
       StartUp, Evaluate
  <2> QED
    BY <1>1, <2>1 DEF CollisionsAreAccounted, Doing
<1>3. CASE CleanUpRun
  <2>1. drive'.capture = drive.capture
    BY <1>3, Goes DEF Onward
  <2>2. bumps' = Snapshot(bumps)
    BY <1>1, <1>3, <2>1, CleanUpOutcome
  <2>3. /\ bumps'.sent = bumps.sent /\ bumps'.seen = bumps.seen /\ bumps'.from = bumps.from
        /\ bumps.dropped = 0
        /\ bumps'.saved = {bumps.buffer[n] : n \in DOMAIN bumps.buffer} \ 0 .. bumps.from - 1
    BY <1>1, <2>2, SnapshotTyped
  <2>4. /\ DOMAIN bumps.buffer = 1 .. bumps.seen
        /\ \A n \in 1 .. bumps.seen : bumps.buffer[n] = bumps.sent[n]
    <3>1. /\ Len(bumps.buffer) \in Nat /\ DOMAIN bumps.buffer = 1 .. Len(bumps.buffer)
          /\ bumps.dropped + Len(bumps.buffer) = bumps.seen
      BY DEF BumpRecords, BufferIsLast
    <3>2. Len(bumps.buffer) = bumps.seen
      BY <2>3, <3>1
    <3>3. ASSUME NEW n \in 1 .. bumps.seen
          PROVE  bumps.buffer[n] = bumps.sent[n]
      <4>1. bumps.buffer[n] = bumps.sent[0 + n]
        BY <2>3, <3>1, <3>2 DEF BufferIsLast
      <4> QED
        BY <4>1
    <3> QED
      BY <3>1, <3>2, <3>3
  <2>5. {bumps.buffer[n] : n \in DOMAIN bumps.buffer} = {bumps.sent[n] : n \in 1 .. bumps.seen}
    BY <2>4
  <2> QED
    BY <2>3, <2>5
<1>4. CASE drive.step # "ended" /\ ~CleanUpRun
  <2>1. ~outcome.clean
    BY <1>4 DEF VerdictComesLast
  <2>2. ~Evaluate
    BY <1>1, Goes DEF Onward
  <2>3. outcome'.clean = outcome.clean
    BY <1>4, <2>2, Untouched, StartOutcome
  <2> QED
    BY <1>1, <2>1, <2>3, Zenon
<1> QED
  BY <1>2, <1>3, <1>4

(* A verdict is about all that was driven.                                 *)
Below == \E m \in evidence.trace : m.distance < MinDistance \/ m.ttc < MinTTC
Judged ==
  outcome.status \in {"passed", "critical"} =>
     /\ ~drive.stopped
     /\ (outcome.status = "critical") <=> (Below \/ (outcome.collision /\ spec.collisionFails))
     /\ evidence.flagged => outcome.collision
     /\ ~Doing("ended") /\ ~Doing("clean") => Required \subseteq scene.placed
Told == outcome.told \in {"passed", "critical"} => outcome.told = outcome.status
Accounted == outcome.dataset \in {"passed", "critical"} => evidence.rows = evidence.frames

(* A verdict is one of three things.                                       *)
LEMMA VerdictParts ==
  VerdictIsTrue <=> Judged /\ Told /\ Accounted
  BY DEF VerdictIsTrue, Judged, Told, Accounted, Below

(* A verdict that evaluate reaches is true.                                *)
LEMMA JudgedNow ==
  ASSUME spec \in SpecRecords, drive \in DriveRecords,
         drive.kind = "native" => drive.step \notin RuleSteps, scene \in SceneRecords,
         bumps \in BumpRecords, evidence \in EvidenceRecords, outcome \in OutcomeRecords,
         PlacedSoFar, LeastIsOfTrace, FlaggedWasHit, [DrivingNext]_drivingVars, Evaluate
  PROVE  Judged'
<1>1. drive.step = "evaluate" /\ drive'.stopped = drive.stopped
  BY Goes DEF Onward, Doing
<1>2. evidence' = evidence /\ spec' = spec /\ scene' = scene /\ bumps' = bumps
  BY DEF Evaluate
<1>3. Required \subseteq scene.placed
  BY <1>1 DEF PlacedSoFar, Required, Measured
<1>4. outcome'.status = Verdict /\ outcome'.collision = bumps.hit
  BY EvaluateOutcome
<1>5. SUFFICES ASSUME outcome'.status \in {"passed", "critical"}
               PROVE  /\ ~drive'.stopped
                      /\ (outcome'.status = "critical")
                            <=> (Below \/ (outcome'.collision /\ spec.collisionFails))
                      /\ evidence.flagged => outcome'.collision
                      /\ Required \subseteq scene.placed
  BY <1>2 DEF Judged, Below
<1>6. ~drive.stopped /\ (outcome'.status = "critical" <=> IsCritical)
  BY <1>4, <1>5 DEF Verdict
<1>7. IsCritical <=> Below \/ (bumps.hit /\ spec.collisionFails)
  BY DEF IsCritical, Below, LeastIsOfTrace, MinTTC, MinDistance
<1>8. (outcome'.status = "critical") <=> (Below \/ (outcome'.collision /\ spec.collisionFails))
  BY <1>4, <1>6, <1>7, Zenon
<1>9. evidence.flagged => outcome'.collision
  BY <1>4, Zenon DEF FlaggedWasHit
<1>10. ~drive'.stopped
  BY <1>1, <1>6, Zenon
<1> QED
  BY <1>3, <1>8, <1>9, <1>10, Zenon

(* A verdict that is reached stays true.                                   *)
LEMMA JudgedBefore ==
  ASSUME drive \in DriveRecords, drive.kind = "native" => drive.step \notin RuleSteps,
         scene \in SceneRecords, bumps \in BumpRecords, outcome \in OutcomeRecords,
         VerdictComesLast, Judged, [DrivingNext]_drivingVars, ~Evaluate
  PROVE  Judged'
<1>1. outcome'.status = outcome.status /\ outcome'.collision = outcome.collision
  BY Untouched, StartOutcome, CleanUpOutcome
<1>2. SUFFICES ASSUME outcome.status \in {"passed", "critical"}
               PROVE  Judged'
  BY <1>1 DEF Judged
<1>3. drive.step \in {"hold", "clean", "ended"}
  BY <1>2 DEF VerdictComesLast
<1>4. ~Capture /\ ~Row /\ ~Measure /\ ~Poll
  BY <1>3 DEF Capture, Row, Measure, Poll, Doing
<1>5. evidence' = evidence /\ spec' = spec /\ drive'.stopped = drive.stopped
  BY <1>3, <1>4, Goes, Untouched DEF Onward
<1>6. drive'.step \notin {"clean", "ended"} =>
         drive.step \notin {"clean", "ended"} /\ scene.placed \subseteq scene'.placed
  <2>1. ASSUME drive'.step \notin {"clean", "ended"}
        PROVE  drive.step = "hold" /\ ~CleanUpRun
    BY <1>3, <2>1, Goes, Untouched DEF Onward, Doing
  <2> QED
    BY <2>1, SceneChanges
<1>7. /\ ~drive.stopped
      /\ (outcome.status = "critical") <=> (Below \/ (outcome.collision /\ spec.collisionFails))
      /\ evidence.flagged => outcome.collision
      /\ drive.step \notin {"clean", "ended"} => Required \subseteq scene.placed
  BY <1>2 DEF Judged, Doing
<1>8. Below' <=> Below
  BY <1>5 DEF Below
<1>9. /\ ~drive'.stopped
      /\ (outcome'.status = "critical") <=> (Below' \/ (outcome'.collision /\ spec'.collisionFails))
      /\ evidence'.flagged => outcome'.collision
  BY <1>1, <1>5, <1>7, <1>8, Zenon
<1>10. drive'.step \notin {"clean", "ended"} => Required \subseteq scene'.placed
  BY <1>6, <1>7
<1> QED
  BY <1>9, <1>10 DEF Judged, Doing

(* Only a verdict that was reached is told.                                *)
LEMMA ToldStays ==
  ASSUME drive \in DriveRecords, drive.kind = "native" => drive.step \notin RuleSteps,
         bumps \in BumpRecords, outcome \in OutcomeRecords,
         VerdictComesLast, Told, [DrivingNext]_drivingVars
  PROVE  Told'
<1>1. CASE outcome' = outcome
  BY <1>1 DEF Told
<1>2. CASE StartUp
  BY <1>2, StartOutcome DEF Told
<1>3. CASE Evaluate
  <2>1. outcome.told = "none"
    BY <1>3 DEF Evaluate, Doing, VerdictComesLast
  <2> QED
    BY <1>3, <2>1, EvaluateOutcome DEF Told
<1>4. CASE CleanUpRun
  BY <1>4, CleanUpOutcome DEF Told
<1> QED
  BY <1>1, <1>2, <1>3, <1>4, Untouched

(* A dataset with a verdict stays one with all its rows.                   *)
LEMMA AccountedStays ==
  ASSUME drive \in DriveRecords, drive.kind = "native" => drive.step \notin RuleSteps,
         scene \in SceneRecords, bumps \in BumpRecords, evidence \in EvidenceRecords,
         outcome \in OutcomeRecords, VerdictComesLast, RowsAreOfFrames, Accounted,
         [DrivingNext]_drivingVars
  PROVE  Accounted'
<1>1. CASE CleanUpRun
  <2>1. evidence' = evidence /\ drive.step = "clean"
    BY <1>1 DEF CleanUpRun, Doing
  <2>2. outcome'.dataset \in {"passed", "critical"} => drive.kind = "rule"
    BY <1>1, CleanUpOutcome DEF DriveRecords
  <2>3. drive.kind = "rule" => evidence.rows = evidence.frames
    BY <2>1 DEF RowsAreOfFrames, Doing, EvidenceRecords
  <2> QED
    BY <2>1, <2>2, <2>3 DEF Accounted
<1>2. CASE ~CleanUpRun
  <2>1. outcome'.dataset = outcome.dataset
    BY <1>2, Untouched, StartOutcome, EvaluateOutcome
  <2>2. CASE drive.step = "ended"
    <3>1. evidence' = evidence
      BY <2>2, Untouched DEF Capture, Row, Measure, Doing
    <3> QED
      BY <2>1, <3>1 DEF Accounted
  <2>3. CASE drive.step # "ended"
    BY <2>1, <2>3 DEF Accounted, VerdictComesLast
  <2> QED
    BY <2>2, <2>3
<1> QED
  BY <1>1, <1>2

(* The types are those of the records.                                     *)
LEMMA Records ==
  ASSUME DrivingTypeOK
  PROVE  /\ spec \in SpecRecords /\ drive \in DriveRecords
         /\ drive.kind = "native" => drive.step \notin RuleSteps
         /\ scene \in SceneRecords /\ bumps \in BumpRecords /\ evidence \in EvidenceRecords
         /\ least \in LeastRecords /\ triggers \in [Adversaries -> 0 .. 1]
         /\ outcome \in OutcomeRecords
  BY DEF DrivingTypeOK, SpecRecords, DriveRecords, SceneRecords, BumpRecords, EvidenceRecords,
     Entries, LeastRecords, OutcomeRecords

(* Every step keeps the types.                                             *)
LEMMA DrivingTyped ==
  ASSUME DrivingAssumption, DrivingInv, [DrivingNext]_drivingVars
  PROVE  DrivingTypeOK'
<1>1. /\ spec \in SpecRecords /\ drive \in DriveRecords
      /\ drive.kind = "native" => drive.step \notin RuleSteps
      /\ scene \in SceneRecords /\ bumps \in BumpRecords /\ evidence \in EvidenceRecords
      /\ least \in LeastRecords /\ triggers \in [Adversaries -> 0 .. 1]
      /\ outcome \in OutcomeRecords
  BY Records DEF DrivingInv
<1>2. spec' \in SpecRecords
  BY <1>1, Untouched
<1>3. drive' \in DriveRecords /\ (drive'.kind = "native" => drive'.step \notin RuleSteps)
  BY <1>1, DriveTyped DEF Keeps
<1>4. scene' \in SceneRecords
  BY <1>1, SceneChanges
<1>5. bumps' \in BumpRecords
  BY <1>1, BumpsStay DEF DrivingInv, BumpsKept
<1>6. evidence' \in EvidenceRecords
  BY <1>1, EvidenceTyped
<1>7. least' \in LeastRecords
  BY <1>1, LeastStays DEF DrivingInv
<1>8. triggers' \in [Adversaries -> 0 .. 1]
  BY <1>1, TriggersStay DEF DrivingInv, DrivingIsTrue
<1>9. outcome' \in OutcomeRecords
  BY <1>1, VerdictStaysLast DEF DrivingInv
<1> QED
  BY <1>2, <1>3, <1>4, <1>5, <1>6, <1>7, <1>8, <1>9 DEF DrivingTypeOK, SpecRecords, DriveRecords,
     SceneRecords, BumpRecords, EvidenceRecords, Entries, LeastRecords, OutcomeRecords

(* Every step keeps the invariant.                                         *)
LEMMA DrivingStep ==
  ASSUME DrivingAssumption, DrivingInv, [DrivingNext]_drivingVars
  PROVE  DrivingInv'
<1>1. /\ spec \in SpecRecords /\ drive \in DriveRecords
      /\ drive.kind = "native" => drive.step \notin RuleSteps
      /\ scene \in SceneRecords /\ bumps \in BumpRecords /\ evidence \in EvidenceRecords
      /\ least \in LeastRecords /\ triggers \in [Adversaries -> 0 .. 1]
      /\ outcome \in OutcomeRecords
  BY Records DEF DrivingInv
<1>2. /\ Judged /\ Told /\ Accounted /\ TriggeredOnce /\ SamplesAreAligned
      /\ CollisionsAreAccounted /\ PlacedSoFar /\ LeastIsOfTrace /\ VerdictComesLast
      /\ RowsAreOfFrames /\ FlaggedWasHit /\ ImagesAreOfNow /\ BufferIsLast
  BY VerdictParts DEF DrivingInv, DrivingIsTrue, EvidenceIsTrue
<1>3. DrivingTypeOK'
  BY DrivingTyped
<1>4. Judged'
  BY <1>1, <1>2, JudgedNow, JudgedBefore
<1>5. Told' /\ Accounted'
  BY <1>1, <1>2, ToldStays, AccountedStays
<1>6. VerdictIsTrue'
  BY <1>4, <1>5 DEF VerdictIsTrue, Judged, Told, Accounted, Below
<1>7. TriggeredOnce'
  BY <1>1, <1>2, TriggersStay
<1>8. ImagesAreOfNow' /\ SamplesAreAligned'
  BY <1>1, <1>2, SamplesStay
<1>9. CollisionsAreAccounted'
  BY <1>1, <1>2, CollisionsStay
<1>10. PlacedSoFar'
  BY <1>1, <1>2, PlacedStay
<1>11. LeastIsOfTrace'
  BY <1>1, <1>2, LeastStays
<1>12. VerdictComesLast'
  BY <1>1, <1>2, VerdictStaysLast
<1>13. RowsAreOfFrames'
  BY <1>1, <1>2, RowsKeepUp
<1>14. FlaggedWasHit'
  BY <1>1, <1>2, FlagStays
<1>15. BufferIsLast'
  BY <1>1, <1>2, BumpsStay DEF BumpsKept
<1> QED
  BY <1>3, <1>6, <1>7, <1>8, <1>9, <1>10, <1>11, <1>12, <1>13, <1>14, <1>15
  DEF DrivingInv, DrivingIsTrue, EvidenceIsTrue

(* A run begins with nothing driven and nothing written.                   *)
LEMMA DrivingBegins ==
  ASSUME DrivingAssumption, DrivingInit
  PROVE  DrivingInv
<1>1. /\ spec \in SpecRecords /\ drive \in DriveRecords /\ drive.step = "startup"
      /\ drive.stopped = FALSE /\ drive.capture # "on"
  BY DEF DrivingInit, SpecRecords, DriveRecords, StepNames
<1>2. /\ scene \in SceneRecords /\ scene.imaged = 0 /\ scene.pose = 0
      /\ bumps \in BumpRecords /\ bumps.sent = <<>> /\ bumps.buffer = <<>>
      /\ bumps.seen = 0 /\ bumps.dropped = 0
  BY DEF DrivingInit, SceneRecords, BumpRecords
<1>3. /\ evidence \in EvidenceRecords /\ evidence.trace = {} /\ evidence.samples = {}
      /\ evidence.frames = 0 /\ evidence.rows = 0 /\ evidence.flagged = FALSE
  BY DEF DrivingInit, EvidenceRecords
<1>4. /\ least \in LeastRecords /\ least.distance = 2 /\ least.ttc = 2
      /\ triggers \in [Adversaries -> 0 .. 1] /\ \A a \in Adversaries : triggers[a] = 0
  BY DEF DrivingInit, LeastRecords
<1>5. /\ outcome \in OutcomeRecords /\ outcome.status = "none" /\ outcome.told = "none"
      /\ outcome.dataset = "none" /\ outcome.clean = FALSE
  BY DEF DrivingInit, OutcomeRecords, Verdicts
<1>6. DrivingTypeOK
  BY <1>1, <1>2, <1>3, <1>4, <1>5 DEF DrivingTypeOK, SpecRecords, DriveRecords, RuleSteps,
     SceneRecords, BumpRecords, EvidenceRecords, Entries, LeastRecords, OutcomeRecords
<1>7. TriggeredOnce
  BY <1>3, <1>4, TriggeredMeans DEF Reached
<1>8. VerdictIsTrue
  BY <1>5 DEF VerdictIsTrue
<1>9. SamplesAreAligned /\ CollisionsAreAccounted
  BY <1>1, <1>3, <1>5 DEF SamplesAreAligned, CollisionsAreAccounted, Doing
<1>10. PlacedSoFar /\ LeastIsOfTrace /\ VerdictComesLast /\ RowsAreOfFrames
  BY <1>1, <1>3, <1>4, <1>5 DEF PlacedSoFar, LeastIsOfTrace, VerdictComesLast, RowsAreOfFrames,
     Doing, MinDistance, MinTTC
<1>11. FlaggedWasHit /\ ImagesAreOfNow /\ BufferIsLast
  BY <1>1, <1>2, <1>3 DEF FlaggedWasHit, ImagesAreOfNow, BufferIsLast, Doing
<1> QED
  BY <1>6, <1>7, <1>8, <1>9, <1>10, <1>11 DEF DrivingInv, DrivingIsTrue, EvidenceIsTrue

(* What is driven is what is measured, recorded and judged.                *)
THEOREM DrivingCorrect == DrivingSpec => []DrivingInv
<1>1. DrivingInit => DrivingInv
  BY DrivingBegins, DrivingAssumption
<1>2. DrivingInv /\ [DrivingNext]_drivingVars => DrivingInv'
  BY DrivingStep, DrivingAssumption
<1> QED
  BY <1>1, <1>2, PTL DEF DrivingSpec

(* DrivingIsTrue: a verdict is about every actor, every frame measured and *)
(* every collision with a row, and an adversary is triggered once, exactly *)
(* when the trace has it within its distance.                              *)
THEOREM VerdictsAreTrue == DrivingSpec => []DrivingIsTrue
<1>1. DrivingInv => DrivingIsTrue
  BY DEF DrivingInv
<1> QED
  BY <1>1, DrivingCorrect, PTL

(* EvidenceIsTrue: no sample joins two moments, and a recording that       *)
(* reports no loss has every collision its sensor delivered.               *)
THEOREM RecordedEvidence == DrivingSpec => []EvidenceIsTrue
<1>1. DrivingInv => EvidenceIsTrue
  BY DEF DrivingInv
<1> QED
  BY <1>1, DrivingCorrect, PTL

-----------------------------------------------------------------------------
(* CaptureStore: the worker that records, and the jobs that copy.          *)

(* What stays of a directory while samples are written into it, and what a *)
(* finished one says of itself.                                            *)
Same(d, e) == d.kind = e.kind /\ d.source = e.source /\ d.exec = e.exec /\ d.by = e.by
Exact(d) == d.cut = "none" /\ d.count = d.whole /\ d.index = d.whole
Sound(d) == d.status \in Finished => Indexed(d) /\ OneShort(d) /\ Nothing(d)
IsOpen(d) ==
  d.kind = "capture" /\ d.exec = recorder.exec /\ d.status = "recording" /\ Exact(d)

(* A finished one that says exactly what it holds is true.                 *)
LEMMA ExactIsSound ==
  ASSUME NEW d, Exact(d)
  PROVE  Sound(d)
  BY DEF Exact, Sound, Indexed, OneShort, Nothing

(* A manifest, whole or torn.                                              *)
LEMMA ManifestIs ==
  ASSUME NEW d \in Directories, NEW s \in Statuses
  PROVE  /\ Manifest(d, s) \in Directories /\ Same(Manifest(d, s), d)
         /\ Manifest(d, s).status = s /\ (d.cut = "none" => Exact(Manifest(d, s)))
         /\ Torn(d, s) \in Directories /\ Same(Torn(d, s), d) /\ Torn(d, s).status = s
         /\ Torn(d, s).index = d.index /\ Torn(d, s).whole = d.whole
         /\ Torn(d, s).count = d.whole /\ Torn(d, s).cut = d.cut
  BY DEF Manifest, Torn, Directories, Same, Exact

(* A sample that has all its files but the last manifest.                  *)
LEMMA WrittenIs ==
  ASSUME NEW d \in Directories, NEW k \in 0 .. 4
  PROVE  /\ Written(d, k) \in Directories /\ Same(Written(d, k), d)
         /\ d.status = "recording" => Written(d, k).status = "recording"
         /\ k \in {0, 1} /\ Exact(d) => Exact(Written(d, k))
         /\ k = 4 /\ d.cut = "none" => Exact(Written(d, k))
<1> DEFINE committed == [d EXCEPT !.whole = @ + 1]
           tailed == [d EXCEPT !.tail = TRUE]
<1>1. /\ committed \in Directories /\ Same(committed, d) /\ committed.status = d.status
      /\ tailed \in Directories /\ Same(tailed, d) /\ tailed.status = d.status
      /\ tailed.whole = d.whole /\ tailed.count = d.count /\ tailed.index = d.index
      /\ tailed.cut = d.cut /\ committed.cut = d.cut
  <2>1. ASSUME NEW b \in BOOLEAN
        PROVE  LET e == [d EXCEPT !.tail = b]
               IN  /\ e \in Directories /\ Same(e, d) /\ e.status = d.status
                   /\ e.whole = d.whole /\ e.count = d.count /\ e.index = d.index
                   /\ e.cut = d.cut
    BY DEF Directories, Same
  <2>2. ASSUME NEW w \in Nat
        PROVE  LET e == [d EXCEPT !.whole = w]
               IN  /\ e \in Directories /\ Same(e, d) /\ e.status = d.status
                   /\ e.cut = d.cut
    BY DEF Directories, Same
  <2>3. d.whole + 1 \in Nat
    BY DEF Directories
  <2> QED
    BY <2>1, <2>2, <2>3
<1>2. /\ k = 0 => Written(d, k) = d
      /\ k = 1 => Written(d, k) = tailed
      /\ k = 2 => Written(d, k) = committed
      /\ k = 3 => Written(d, k) = Torn(committed, "recording")
      /\ k = 4 => Written(d, k) = Manifest(committed, "recording")
  BY DEF Written
<1> HIDE DEF committed, tailed
<1>3. Same(d, d)
  BY DEF Same
<1>4. "recording" \in Statuses
  BY DEF Statuses
<1>5. \A e : Same(e, committed) => Same(e, d)
  BY <1>1 DEF Same
<1> QED
  BY <1>1, <1>2, <1>3, <1>4, <1>5, ManifestIs DEF Exact

(* A recording that is closed is not finished, or says what it holds.      *)
LEMMA ClosedIs ==
  ASSUME NEW d \in Directories, d.status = "recording", NEW error \in BOOLEAN,
         ~error => Exact(d), NEW c \in Closed(d, error)
  PROVE  c \in Directories /\ Same(c, d) /\ Sound(c)
<1>1. PICK s \in {"saved_cleanup_error", IF error THEN "saved_capture_error" ELSE "saved"} :
        c = d \/ c = Manifest(d, s) \/ c = Torn(d, s)
  BY DEF Closed
<1>2. s \in Statuses /\ (error => s \notin Finished)
  BY DEF Statuses, Finished
<1>3. CASE c = d
  BY <1>3 DEF Same, Sound, Finished
<1>4. CASE c = Manifest(d, s)
  <2>1. CASE error
    BY <1>2, <1>4, <2>1, ManifestIs DEF Sound
  <2>2. CASE ~error
    BY <1>2, <1>4, <2>2, ManifestIs, ExactIsSound DEF Exact
  <2> QED
    BY <2>1, <2>2
<1>5. CASE c = Torn(d, s)
  <2>1. CASE error
    BY <1>2, <1>5, <2>1, ManifestIs DEF Sound
  <2>2. CASE ~error
    BY <1>2, <1>5, <2>2, ManifestIs, ExactIsSound DEF Exact
  <2> QED
    BY <2>1, <2>2
<1> QED
  BY <1>1, <1>3, <1>4, <1>5

(* The request a worker goes by.                                           *)
Begins == Asked.recording /\ Asked.id # recorder.last

(* It is one of its own execution, and none that it has gone by before.    *)
LEMMA AskedIs ==
  ASSUME CaptureTypeOK, RequestsInOrder
  PROVE  /\ Asked \in Requests /\ recorder.last <= Asked.id /\ Asked.id <= request.id
         /\ Asked.recording => Asked.exec = recorder.exec
         /\ Begins => recorder.last < Asked.id
<1>1. /\ request \in Requests /\ recorder.accepted \in Requests /\ recorder.last \in Nat
      /\ request.id \in Nat /\ recorder.accepted.id \in Nat
  BY DEF CaptureTypeOK, Requests
<1> QED
  BY <1>1 DEF Asked, RequestsInOrder, Begins

(* What a worker may have made of the capture root: the recording that is  *)
(* open has changed, and one has begun.                                    *)
Grown(new) ==
  /\ new \in Seq(Directories) /\ DOMAIN disk \subseteq DOMAIN new
  /\ \A n \in DOMAIN disk :
        new[n] = disk[n] \/ (n = recorder.run /\ Same(new[n], disk[n]) /\ Sound(new[n]))
  /\ \A n \in DOMAIN new \ DOMAIN disk :
        /\ Begins /\ n = Len(disk) + 1
        /\ new[n].kind = "capture" /\ new[n].exec = recorder.exec /\ new[n].by = Asked
        /\ Sound(new[n])

(* The root after the head of a frame.                                     *)
LEMMA TurnedIs ==
  ASSUME CaptureInv, recorder.open
  PROVE  /\ Turned.last = IF Begins THEN Asked.id ELSE recorder.last
         /\ Turned.began = Begins
         /\ Grown(Turned.root) /\ Turned.run \in Nat
         /\ Turned.run # 0 =>
              /\ Turned.run \in DOMAIN Turned.root /\ IsOpen(Turned.root[Turned.run])
              /\ Begins => Turned.run = Len(disk) + 1
              /\ ~Begins => Turned.run = recorder.run
         /\ Begins => Turned.run # 0
<1> DEFINE ended == recorder.run # 0 /\ (~Asked.recording \/ Asked.id # recorder.last)
           d == disk[recorder.run]
           old == IF ended THEN [disk EXCEPT ![recorder.run] = Manifest(@, "saved")] ELSE disk
           new == Directory("capture", 0, recorder.exec, "recording", 0, Asked)
           root == IF Begins THEN Append(old, new) ELSE old
           run == IF Begins THEN Len(old) + 1 ELSE IF ended THEN 0 ELSE recorder.run
<1>1. /\ Turned.root = root /\ Turned.run = run /\ Turned.began = Begins
      /\ Turned.last = IF Begins THEN Asked.id ELSE recorder.last
  BY DEF Turned, Begins
<1>2. /\ disk \in Seq(Directories) /\ Asked \in Requests /\ recorder.run \in Nat
      /\ recorder.exec \in Nat \ {0}
      /\ recorder.run # 0 =>
            recorder.run \in DOMAIN disk /\ d \in Directories /\ IsOpen(d)
  BY AskedIs DEF CaptureInv, CaptureTypeOK, OpenIsIndexed, IsOpen, Exact
<1>3. /\ old \in Seq(Directories) /\ Len(old) = Len(disk) /\ DOMAIN old = DOMAIN disk
      /\ \A n \in DOMAIN disk :
            old[n] = disk[n] \/ (n = recorder.run /\ Same(old[n], disk[n]) /\ Sound(old[n]))
      /\ ~ended => old = disk
  <2>1. CASE ended
    <3> DEFINE m == Manifest(d, "saved")
    <3>1. m \in Directories /\ Same(m, d) /\ Sound(m)
      <4>1. d \in Directories /\ d.cut = "none" /\ "saved" \in Statuses
        BY <1>2, <2>1 DEF IsOpen, Exact, Statuses, Finished
      <4> QED
        BY <4>1, ManifestIs, ExactIsSound
    <3>2. old = [disk EXCEPT ![recorder.run] = m] /\ recorder.run \in DOMAIN disk
      BY <1>2, <2>1
    <3> HIDE DEF m, old
    <3>3. /\ old \in Seq(Directories) /\ Len(old) = Len(disk) /\ DOMAIN old = DOMAIN disk
          /\ \A n \in DOMAIN disk : old[n] = IF n = recorder.run THEN m ELSE disk[n]
      BY <1>2, <3>1, <3>2
    <3> QED
      BY <2>1, <3>1, <3>3
  <2>2. CASE ~ended
    BY <1>2, <2>2
  <2> QED
    BY <2>1, <2>2
<1>4. new \in Directories /\ IsOpen(new) /\ new.by = Asked /\ Sound(new)
  <2>1. new \in Directories /\ IsOpen(new) /\ new.by = Asked /\ Exact(new)
    BY <1>2 DEF Directory, Directories, Statuses, Finished, IsOpen, Exact
  <2> QED
    BY <2>1, ExactIsSound
<1> HIDE DEF old, new, ended
<1>5. CASE Begins
  <2>1. root = Append(old, new) /\ run = Len(old) + 1
    BY <1>5
  <2>2. /\ root \in Seq(Directories) /\ Len(root) = Len(old) + 1
        /\ \A n \in 1 .. Len(old) : root[n] = old[n]
        /\ root[Len(old) + 1] = new /\ Len(old) \in Nat
    <3> HIDE DEF root, run
    <3>1. old \in Seq(Directories) /\ new \in Directories
      BY <1>3, <1>4
    <3> QED
      BY <2>1, <3>1
  <2> HIDE DEF root, run
  <2>3. DOMAIN disk = 1 .. Len(old) /\ DOMAIN root = 1 .. Len(old) + 1
    BY <1>3, <2>2
  <2>4. DOMAIN disk \subseteq DOMAIN root /\ DOMAIN root \ DOMAIN disk = {Len(old) + 1}
    BY <2>2, <2>3
  <2>5. Grown(root)
    BY <1>3, <1>4, <1>5, <2>2, <2>3, <2>4 DEF Grown, IsOpen
  <2> QED
    BY <1>1, <1>3, <1>4, <1>5, <2>1, <2>2, <2>3, <2>5
<1>6. CASE ~Begins
  <2>1. root = old /\ run = IF ended THEN 0 ELSE recorder.run
    BY <1>6
  <2> HIDE DEF root, run
  <2>2. Grown(root)
    BY <1>3, <2>1 DEF Grown
  <2>3. run \in Nat /\ (run # 0 => run = recorder.run /\ root = disk)
    BY <1>2, <1>3, <2>1
  <2> QED
    BY <1>1, <1>2, <1>6, <2>2, <2>3
<1> QED
  BY <1>5, <1>6

(* The root with the open recording changed.                               *)
LEMMA GrownWith ==
  ASSUME CaptureInv, recorder.open, Turned.run # 0, NEW e \in Directories,
         Same(e, Turned.root[Turned.run]), Sound(e)
  PROVE  /\ Grown([Turned.root EXCEPT ![Turned.run] = e])
         /\ Turned.run \in DOMAIN [Turned.root EXCEPT ![Turned.run] = e]
         /\ [Turned.root EXCEPT ![Turned.run] = e][Turned.run] = e
<1> DEFINE root == Turned.root
           run == Turned.run
           new == [root EXCEPT ![run] = e]
<1>1. /\ Grown(root) /\ run \in DOMAIN root /\ Same(e, root[run])
      /\ Begins => run = Len(disk) + 1
      /\ ~Begins => run = recorder.run
  BY TurnedIs
<1>2. disk \in Seq(Directories) /\ Len(disk) \in Nat
  BY DEF CaptureInv, CaptureTypeOK
<1> HIDE DEF root, run
<1>3. /\ new \in Seq(Directories) /\ DOMAIN new = DOMAIN root
      /\ \A n \in DOMAIN root : new[n] = IF n = run THEN e ELSE root[n]
  BY <1>1 DEF Grown
<1> HIDE DEF new
<1>4. ASSUME NEW n \in DOMAIN disk
      PROVE  new[n] = disk[n] \/ (n = recorder.run /\ Same(new[n], disk[n]) /\ Sound(new[n]))
  <2>1. CASE n = run
    <3>1. n # Len(disk) + 1
      BY <1>2
    <3>2. n = recorder.run
      BY <1>1, <2>1, <3>1
    <3>3. Same(root[n], disk[n])
      BY <1>1 DEF Grown, Same
    <3>4. new[n] = e /\ Same(e, root[n])
      BY <1>1, <1>3, <2>1
    <3> QED
      BY <3>2, <3>3, <3>4 DEF Same
  <2>2. CASE n # run
    BY <1>1, <1>3, <2>2 DEF Grown
  <2> QED
    BY <2>1, <2>2
<1>5. ASSUME NEW n \in DOMAIN new \ DOMAIN disk
      PROVE  /\ Begins /\ n = Len(disk) + 1
             /\ new[n].kind = "capture" /\ new[n].exec = recorder.exec /\ new[n].by = Asked
             /\ Sound(new[n])
  <2>1. /\ Begins /\ n = Len(disk) + 1
        /\ root[n].kind = "capture" /\ root[n].exec = recorder.exec /\ root[n].by = Asked
        /\ Sound(root[n])
    BY <1>1, <1>3 DEF Grown
  <2>2. new[n] = e /\ Same(e, root[n])
    BY <1>1, <1>3, <2>1
  <2> QED
    BY <2>1, <2>2 DEF Same
<1>6. Grown(new)
  BY <1>1, <1>3, <1>4, <1>5 DEF Grown
<1> QED
  BY <1>1, <1>3, <1>6 DEF new, root, run

(* What a worker that goes on keeps, and what one that has gone.           *)
Recorders == [exec : Nat, open : BOOLEAN, run : Nat, last : Nat, accepted : Requests]
WorkerGoesOn ==
  /\ recorder' \in Recorders /\ recorder.open
  /\ recorder'.exec = recorder.exec /\ recorder'.accepted = Asked
  /\ recorder'.last = IF Begins THEN Asked.id ELSE recorder.last
  /\ recorder'.run # 0 =>
        recorder'.open /\ recorder'.run \in DOMAIN disk' /\ IsOpen(disk'[recorder'.run])
WorkerStep ==
  /\ Grown(disk') /\ UNCHANGED <<request, session, jobs, active, publisher, scanning>>
  /\ recorder.exec # 0
  /\ \/ WorkerGoesOn
     \/ recorder' = NoWorker /\ \A n \in DOMAIN disk' \ DOMAIN disk : recorder.open

(* A root that does not grow has grown as it may.                          *)
LEMMA GrownNot ==
  ASSUME CaptureTypeOK
  PROVE  Grown(disk)
  BY DEF Grown, CaptureTypeOK

(* A frame.                                                                *)
LEMMA FrameWrites ==
  ASSUME CaptureInv, Frame
  PROVE  WorkerStep
<1> DEFINE root == Turned.root
           run == Turned.run
           after(r) == [recorder EXCEPT !.run = r, !.last = Turned.last, !.accepted = Asked]
<1>1. /\ recorder.open /\ UNCHANGED <<request, session, jobs, active, publisher, scanning>>
      /\ \/ disk' = root /\ recorder' = after(run)
         \/ /\ run # 0 /\ disk' = [root EXCEPT ![run] = Written(root[run], 4)]
            /\ recorder' = after(run)
         \/ /\ run # 0 /\ disk' = [root EXCEPT ![run] = Manifest(root[run], "saved_limit")]
            /\ recorder' = after(0)
  BY DEF Frame, MayWrite
<1>2. /\ recorder \in Recorders /\ Asked \in Requests /\ recorder.exec # 0
  BY <1>1, AskedIs DEF CaptureInv, CaptureTypeOK, Recorders, OpenIsIndexed
<1>3. /\ Turned.last \in Nat /\ Turned.last = IF Begins THEN Asked.id ELSE recorder.last
      /\ Grown(root) /\ run \in Nat
      /\ run # 0 => run \in DOMAIN root /\ IsOpen(root[run]) /\ root[run] \in Directories
  BY <1>1, <1>2, TurnedIs DEF Recorders, Requests, Grown
<1>4. \A r \in Nat :
        /\ after(r) \in Recorders /\ after(r).exec = recorder.exec /\ after(r).accepted = Asked
        /\ after(r).last = Turned.last /\ after(r).run = r /\ after(r).open = recorder.open
  BY <1>2, <1>3 DEF Recorders
<1> HIDE DEF after
<1>5. ASSUME Grown(disk'), NEW r \in Nat, recorder' = after(r),
             r # 0 => r \in DOMAIN disk' /\ IsOpen(disk'[r])
      PROVE  WorkerStep
  <2>1. recorder'.open
    BY <1>1, <1>4, <1>5, Zenon
  <2> QED
    BY <1>1, <1>2, <1>3, <1>4, <1>5, <2>1 DEF WorkerStep, WorkerGoesOn
<1>6. CASE disk' = root /\ recorder' = after(run)
  BY <1>3, <1>5, <1>6
<1>7. CASE /\ run # 0 /\ disk' = [root EXCEPT ![run] = Written(root[run], 4)]
           /\ recorder' = after(run)
  <2> DEFINE e == Written(root[run], 4)
  <2>1. /\ e \in Directories /\ Same(e, root[run]) /\ Exact(e) /\ e.status = "recording"
    BY <1>3, <1>7, WrittenIs DEF IsOpen, Exact
  <2> HIDE DEF e
  <2>2. disk' = [root EXCEPT ![run] = e]
    BY <1>7 DEF e
  <2>3. Grown(disk') /\ run \in DOMAIN disk' /\ disk'[run] = e
    BY <1>1, <1>7, <2>1, <2>2, GrownWith, ExactIsSound
  <2>4. IsOpen(e)
    BY <1>3, <1>7, <2>1 DEF IsOpen, Same
  <2> QED
    BY <1>3, <1>5, <1>7, <2>3, <2>4
<1>8. CASE /\ run # 0 /\ disk' = [root EXCEPT ![run] = Manifest(root[run], "saved_limit")]
           /\ recorder' = after(0)
  <2> DEFINE e == Manifest(root[run], "saved_limit")
  <2>1. e \in Directories /\ Same(e, root[run]) /\ Exact(e)
    <3>1. root[run] \in Directories /\ root[run].cut = "none" /\ "saved_limit" \in Statuses
      BY <1>3, <1>8 DEF IsOpen, Exact, Statuses, Finished
    <3> QED
      BY <3>1, ManifestIs
  <2> HIDE DEF e
  <2>2. disk' = [root EXCEPT ![run] = e]
    BY <1>8 DEF e
  <2>3. Grown(disk')
    BY <1>1, <1>8, <2>1, <2>2, GrownWith, ExactIsSound
  <2> QED
    BY <1>5, <1>8, <2>3
<1> QED
  BY <1>1, <1>6, <1>7, <1>8

(* A capture that is closed in the middle of a sample.                     *)
LEMMA ClosingGrows ==
  ASSUME CaptureInv, recorder.open, Turned.run # 0, NEW k \in 0 .. 3, NEW error \in BOOLEAN,
         ~error => k \in {0, 1},
         disk' \in Closing([Turned.root EXCEPT ![Turned.run] = Written(@, k)], Turned.run, error)
  PROVE  Grown(disk')
<1> DEFINE root == Turned.root
           run == Turned.run
           e == Written(root[run], k)
           written == [root EXCEPT ![run] = e]
<1>1. run \in DOMAIN root /\ IsOpen(root[run]) /\ root[run] \in Directories
  BY TurnedIs DEF Grown
<1>2. /\ e \in Directories /\ Same(e, root[run]) /\ e.status = "recording"
      /\ ~error => Exact(e)
  <2>1. k \in 0 .. 4 /\ root[run].status = "recording" /\ Exact(root[run])
    BY <1>1 DEF IsOpen
  <2> QED
    BY <1>1, <2>1, WrittenIs
<1>3. disk' \in {[written EXCEPT ![run] = c] : c \in Closed(written[run], error)}
  BY Zenon DEF Closing
<1> HIDE DEF e
<1>4. written[run] = e
  BY <1>1
<1>5. PICK c \in Closed(e, error) : disk' = [written EXCEPT ![run] = c]
  BY <1>3, <1>4
<1>6. c \in Directories /\ Same(c, e) /\ Sound(c)
  BY <1>2, <1>5, ClosedIs
<1>7. disk' = [root EXCEPT ![run] = c]
  BY <1>5
<1>8. Same(c, root[run])
  BY <1>2, <1>6 DEF Same
<1> QED
  BY <1>6, <1>7, <1>8, GrownWith

(* One that has begun, and gets no manifest.                               *)
LEMMA BareGrows ==
  ASSUME CaptureInv, recorder.open, Turned.began,
         disk' = [Turned.root EXCEPT ![Turned.run].status = "bare"]
  PROVE  Grown(disk')
<1> DEFINE root == Turned.root
           run == Turned.run
           c == [root[run] EXCEPT !.status = "bare"]
<1>1. run # 0 /\ run \in DOMAIN root /\ root[run] \in Directories
  <2>1. run # 0 /\ run \in DOMAIN root /\ Grown(root)
    BY TurnedIs
  <2> QED
    BY <2>1 DEF Grown
<1>2. c \in Directories /\ Same(c, root[run]) /\ Sound(c)
  BY <1>1 DEF Directories, Statuses, Same, Sound, Finished
<1>3. disk' = [root EXCEPT ![run] = c]
  OBVIOUS
<1> HIDE DEF c
<1> QED
  BY <1>1, <1>2, <1>3, GrownWith

(* A frame that fails.                                                     *)
LEMMA FailureWrites ==
  ASSUME CaptureInv, FrameFails
  PROVE  WorkerStep
<1>1. /\ recorder.open /\ UNCHANGED <<request, session, jobs, active, publisher, scanning>>
      /\ recorder' = [recorder EXCEPT !.open = FALSE, !.run = 0, !.last = Turned.last,
                                      !.accepted = Asked]
  BY DEF FrameFails
<1>2. recorder \in Recorders /\ Asked \in Requests /\ recorder.exec # 0
  BY <1>1, AskedIs DEF CaptureInv, CaptureTypeOK, Recorders, OpenIsIndexed
<1>3. /\ Turned.last \in Nat /\ Turned.last = IF Begins THEN Asked.id ELSE recorder.last
      /\ Grown(Turned.root)
  BY <1>1, <1>2, TurnedIs DEF Recorders, Requests
<1>4. ASSUME Grown(disk')
      PROVE  WorkerStep
  <2>1. ASSUME NEW l \in Nat, NEW b \in BOOLEAN, NEW z \in Nat,
               recorder' = [recorder EXCEPT !.open = b, !.run = z, !.last = l, !.accepted = Asked]
        PROVE  /\ recorder' \in Recorders /\ recorder'.exec = recorder.exec /\ recorder'.run = z
               /\ recorder'.last = l /\ recorder'.accepted = Asked
    BY <1>2, <2>1 DEF Recorders
  <2>2. /\ recorder' \in Recorders /\ recorder'.exec = recorder.exec /\ recorder'.run = 0
        /\ recorder'.last = Turned.last /\ recorder'.accepted = Asked
    BY <1>1, <1>3, <2>1
  <2> QED
    BY <1>1, <1>2, <1>3, <1>4, <2>2 DEF WorkerStep, WorkerGoesOn
<1>5. CASE Turned.began /\ disk' = [Turned.root EXCEPT ![Turned.run].status = "bare"]
  BY <1>1, <1>4, <1>5, BareGrows
<1>6. ASSUME NEW cause \in {"io", "simulator"}, NEW k \in 0 .. 3,
             cause = "simulator" => k \in {0, 1},
             disk' \in Closing(IF Turned.run = 0 THEN Turned.root
                              ELSE [Turned.root EXCEPT ![Turned.run] = Written(@, k)],
                              Turned.run, cause = "io")
      PROVE  WorkerStep
  <2>1. CASE Turned.run = 0
    <3>1. disk' = Turned.root
      BY <1>6, <2>1 DEF Closing
    <3> QED
      BY <1>3, <1>4, <3>1
  <2>2. CASE Turned.run # 0
    <3>1. /\ (cause = "io") \in BOOLEAN /\ (~(cause = "io") => k \in {0, 1})
          /\ disk' \in Closing([Turned.root EXCEPT ![Turned.run] = Written(@, k)],
                               Turned.run, cause = "io")
      BY <1>6, <2>2
    <3>2. Grown(disk')
      BY <1>1, <2>2, <3>1, ClosingGrows
    <3> QED
      BY <1>4, <3>2
  <2> QED
    BY <2>1, <2>2
<1>7. \/ Turned.began /\ disk' = [Turned.root EXCEPT ![Turned.run].status = "bare"]
      \/ \E cause \in {"io", "simulator"}, k \in 0 .. 3 :
            /\ cause = "simulator" => k \in {0, 1}
            /\ disk' \in Closing(IF Turned.run = 0 THEN Turned.root
                                 ELSE [Turned.root EXCEPT ![Turned.run] = Written(@, k)],
                                 Turned.run, cause = "io")
  <2>1. \/ Turned.began /\ disk' = [Turned.root EXCEPT ![Turned.run].status = "bare"]
        \/ \E cause \in {"io", "simulator"}, k \in IF MayWrite(Turned) THEN 0 .. 3 ELSE {0} :
              /\ cause = "simulator" => k \in {0, 1}
              /\ disk' \in Closing(IF Turned.run = 0 THEN Turned.root
                                   ELSE [Turned.root EXCEPT ![Turned.run] = Written(@, k)],
                                   Turned.run, cause = "io")
    BY Zenon DEF FrameFails
  <2>2. (IF MayWrite(Turned) THEN 0 .. 3 ELSE {0}) \subseteq 0 .. 3
    OBVIOUS
  <2> QED
    BY <2>1, <2>2, Zenon
<1> QED
  BY <1>5, <1>6, <1>7

(* What may be remembered are numbers.                                     *)
LEMMA RememberedIs ==
  ASSUME CaptureTypeOK
  PROVE  Remembered \subseteq Nat
<1>1. \A n \in DOMAIN disk : disk[n].whole \in Nat
  <2>1. \A n \in DOMAIN disk : disk[n] \in Directories
    BY DEF CaptureTypeOK
  <2> QED
    BY <2>1 DEF Directories
<1> QED
  BY <1>1 DEF Remembered

(* A recording that is closed with other counts than its samples are.      *)
LEMMA MiscountedIs ==
  ASSUME NEW d \in Directories, NEW what \in {"begin", "sample"}, NEW status \in Statuses,
         NEW count \in Nat, NEW index \in Nat,
         NEW c, c = Miscounted(d, what, status, count, index)
  PROVE  /\ c \in Directories /\ Same(c, d) /\ c.whole = d.whole /\ c.tail = d.tail
         /\ c.cut = what /\ c.count = count /\ c.index = index
  BY DEF Miscounted, Directories, Same

(* A frame that a stop interrupts.                                         *)
LEMMA InterruptWrites ==
  ASSUME CaptureInv, InterruptFrame
  PROVE  WorkerStep
<1> DEFINE root == Turned.root
           run == Turned.run
           d == root[run]
           final == {"saved", "saved_cleanup_error"}
           begun == {"saved", "saved_cleanup_error", "saved_capture_error"}
<1>1. /\ recorder.open /\ recorder' = NoWorker /\ recorder.exec # 0
      /\ UNCHANGED <<request, session, jobs, active, publisher, scanning>>
  BY DEF InterruptFrame, CaptureInv, OpenIsIndexed
<1>2. ASSUME Grown(disk')
      PROVE  WorkerStep
  BY <1>1, <1>2 DEF WorkerStep
<1>3. run # 0 => /\ run \in DOMAIN root /\ d \in Directories /\ IsOpen(d)
                 /\ d.whole \in Nat /\ d.whole + 1 \in Nat
  <2>1. Grown(root) /\ (run # 0 => run \in DOMAIN root /\ IsOpen(d))
    BY <1>1, TurnedIs
  <2>2. run # 0 => d \in Directories
    BY <2>1 DEF Grown
  <2> QED
    BY <2>1, <2>2 DEF Directories
<1>4. ASSUME NEW k \in 0 .. 1, NEW noted \in BOOLEAN, run # 0,
             disk' \in Closing([root EXCEPT ![run] = Written(@, k)], run, noted)
      PROVE  WorkerStep
  <2>1. k \in 0 .. 3 /\ k \in {0, 1}
    OBVIOUS
  <2> QED
    BY <1>1, <1>2, <1>4, <2>1, ClosingGrows
<1>5. ASSUME run # 0, NEW s \in final, NEW n \in {d.whole, d.whole + 1},
             NEW i \in {d.whole, d.whole + 1},
             disk' = [root EXCEPT ![run] = Miscounted(Written(d, 2), "sample", s, n, i)]
      PROVE  WorkerStep
  <2>1. PICK k \in 0 .. 4 : k = 2
    OBVIOUS
  <2> DEFINE e == Written(d, k)
  <2>2. e \in Directories /\ Same(e, d) /\ e.whole = d.whole + 1
    <3>1. e.whole = d.whole + 1
      BY <1>3, <1>5, <2>1 DEF Written, Directories
    <3> QED
      BY <1>3, <1>5, <3>1, WrittenIs
  <2> DEFINE c == Miscounted(e, "sample", s, n, i)
  <2>3. /\ s \in Statuses /\ n \in Nat /\ i \in Nat
        /\ disk' = [root EXCEPT ![run] = c]
    BY <1>3, <1>5, <2>1 DEF Statuses, Finished
  <2> HIDE DEF e
  <2>4. /\ c \in Directories /\ Same(c, e) /\ c.whole = e.whole /\ c.cut = "sample"
        /\ c.count \in {d.whole, d.whole + 1} /\ c.index \in {d.whole, d.whole + 1}
    <3>1. /\ \A a, b \in Nat : \A x : x = Miscounted(e, "sample", s, a, b) =>
                /\ x \in Directories /\ Same(x, e) /\ x.whole = e.whole /\ x.cut = "sample"
                /\ x.count = a /\ x.index = b
      <4>1. e \in Directories /\ s \in Statuses /\ "sample" \in {"begin", "sample"}
        BY <2>2, <2>3
      <4> HIDE DEF c, d, final
      <4> QED
        BY <4>1 DEF Miscounted, Directories, Same
    <3>2. n \in Nat /\ i \in Nat
      BY <2>3
    <3> QED
      BY <1>5, <3>1, <3>2
  <2> HIDE DEF c
  <2>5. Sound(c)
    BY <1>3, <1>5, <2>2, <2>4 DEF Sound, Indexed, OneShort, Nothing
  <2>6. Same(c, d)
    BY <2>2, <2>4 DEF Same
  <2>7. Grown(disk')
    BY <1>1, <1>5, <2>3, <2>4, <2>5, <2>6, GrownWith
  <2> QED
    BY <1>2, <2>7
<1>6. ASSUME Turned.began, NEW s \in begun, NEW n \in Remembered, NEW i \in Remembered,
             disk' = [root EXCEPT ![run] = Miscounted(d, "begin", s, n, i)]
      PROVE  WorkerStep
  <2>1. run # 0 /\ d.whole = 0 /\ d.tail = FALSE
    <3> DEFINE ended == recorder.run # 0 /\ (~Asked.recording \/ Asked.id # recorder.last)
               old == IF ended THEN [disk EXCEPT ![recorder.run] = Manifest(@, "saved")]
                      ELSE disk
               new == Directory("capture", 0, recorder.exec, "recording", 0, Asked)
    <3>1. Begins /\ root = Append(old, new) /\ run = Len(old) + 1
      BY <1>6 DEF Turned, Begins
    <3>2. old \in Seq(Directories) /\ Len(old) \in Nat
      <4>1. disk \in Seq(Directories)
        BY DEF CaptureInv, CaptureTypeOK
      <4>2. CASE ended
        <5> DEFINE m == Manifest(disk[recorder.run], "saved")
        <5>1. recorder.run \in DOMAIN disk /\ disk[recorder.run] \in Directories
          BY <4>1, <4>2 DEF CaptureInv, OpenIsIndexed
        <5>2. m \in Directories
          BY <5>1, ManifestIs DEF Statuses, Finished
        <5>3. old = [disk EXCEPT ![recorder.run] = m]
          BY <4>2
        <5> HIDE DEF m, old, ended
        <5>4. Len(old) = Len(disk) /\ old \in Seq(Directories)
          BY <4>1, <5>1, <5>2, <5>3
        <5> QED
          BY <4>1, <5>4
      <4> QED
        BY <4>1, <4>2
    <3>3. new.whole = 0 /\ new.tail = FALSE
      BY DEF Directory
    <3> HIDE DEF old, new
    <3>4. root[run] = new
      BY <3>1, <3>2
    <3> QED
      BY <3>1, <3>2, <3>3, <3>4
  <2> DEFINE c == Miscounted(d, "begin", s, n, i)
  <2>2. s \in Statuses /\ n \in Nat /\ i \in Nat /\ disk' = [root EXCEPT ![run] = c]
    BY <1>6, RememberedIs DEF Statuses, Finished, CaptureInv
  <2>3. /\ c \in Directories /\ Same(c, d) /\ c.whole = 0 /\ c.tail = FALSE
        /\ c.cut = "begin"
    <3>1. PICK what \in {"begin", "sample"} : what = "begin"
      OBVIOUS
    <3>2. c = Miscounted(d, what, s, n, i) /\ d \in Directories
      BY <1>3, <2>1, <3>1
    <3> HIDE DEF c
    <3>3. c \in Directories /\ Same(c, d) /\ c.whole = d.whole /\ c.tail = d.tail /\ c.cut = what
      BY <2>2, <3>2, MiscountedIs
    <3> QED
      BY <2>1, <3>1, <3>3
  <2> HIDE DEF c
  <2>4. Sound(c)
    BY <2>3 DEF Sound, Indexed, OneShort, Nothing
  <2>5. Grown(disk')
    BY <1>1, <2>1, <2>2, <2>3, <2>4, GrownWith
  <2> QED
    BY <1>2, <2>5
<1>7. \/ \E k \in 0 .. 1, noted \in BOOLEAN :
            run # 0 /\ disk' \in Closing([root EXCEPT ![run] = Written(@, k)], run, noted)
      \/ /\ run # 0
         /\ \E s \in final, n \in {d.whole, d.whole + 1}, i \in {d.whole, d.whole + 1} :
               disk' = [root EXCEPT ![run] = Miscounted(Written(d, 2), "sample", s, n, i)]
      \/ /\ Turned.began
         /\ \E s \in begun, n \in Remembered, i \in Remembered :
               disk' = [root EXCEPT ![run] = Miscounted(d, "begin", s, n, i)]
  <2>1. \/ \E k \in IF MayWrite(Turned) THEN {0, 1} ELSE {0}, noted \in BOOLEAN :
              /\ run # 0 /\ (noted => k = 0)
              /\ disk' \in Closing([root EXCEPT ![run] = Written(@, k)], run, noted)
        \/ /\ MayWrite(Turned)
           /\ \E s \in final, n \in {d.whole, d.whole + 1}, i \in {d.whole, d.whole + 1} :
                 disk' = [root EXCEPT ![run] = Miscounted(Written(d, 2), "sample", s, n, i)]
        \/ /\ Turned.began
           /\ \E s \in begun, n \in Remembered, i \in Remembered :
                 disk' = [root EXCEPT ![run] = Miscounted(d, "begin", s, n, i)]
    BY Zenon DEF InterruptFrame
  <2>2. /\ (IF MayWrite(Turned) THEN {0, 1} ELSE {0}) \subseteq 0 .. 1
        /\ MayWrite(Turned) => run # 0
    BY DEF MayWrite
  <2> QED
    BY <2>1, <2>2, Zenon
<1> QED
  BY <1>4, <1>5, <1>6, <1>7

(* A worker that ends.                                                     *)
LEMMA EndWrites ==
  ASSUME CaptureInv, EndWorker
  PROVE  WorkerStep
<1> DEFINE run == recorder.run
<1>1. /\ recorder.exec # 0 /\ recorder' = NoWorker
      /\ UNCHANGED <<request, session, jobs, active, publisher, scanning>>
      /\ disk' \in Closing(disk, run, FALSE)
  BY DEF EndWorker
<1>2. ASSUME Grown(disk'), DOMAIN disk' = DOMAIN disk
      PROVE  WorkerStep
  BY <1>1, <1>2 DEF WorkerStep
<1>3. CASE run = 0
  <2>1. disk' = disk
    BY <1>1, <1>3 DEF Closing
  <2> QED
    BY <1>2, <2>1, GrownNot DEF CaptureInv
<1>4. CASE run # 0
  <2>1. /\ run \in DOMAIN disk /\ disk \in Seq(Directories) /\ disk[run] \in Directories
        /\ disk[run].status = "recording" /\ Exact(disk[run])
    BY <1>4 DEF CaptureInv, CaptureTypeOK, OpenIsIndexed, Exact
  <2>2. PICK c \in Closed(disk[run], FALSE) : disk' = [disk EXCEPT ![run] = c]
    BY <1>1, <1>4 DEF Closing
  <2>3. c \in Directories /\ Same(c, disk[run]) /\ Sound(c)
    BY <2>1, <2>2, ClosedIs
  <2>4. /\ disk' \in Seq(Directories) /\ DOMAIN disk' = DOMAIN disk
        /\ \A n \in DOMAIN disk : disk'[n] = IF n = run THEN c ELSE disk[n]
    BY <2>1, <2>2, <2>3
  <2> QED
    BY <1>2, <2>3, <2>4 DEF Grown
<1> QED
  BY <1>3, <1>4

(* A worker that is killed.                                                *)
LEMMA KillWrites ==
  ASSUME CaptureInv, KillWorker
  PROVE  WorkerStep
<1> DEFINE root == Turned.root
           run == Turned.run
<1>1. /\ recorder.exec # 0 /\ recorder' = NoWorker
      /\ UNCHANGED <<request, session, jobs, active, publisher, scanning>>
  BY DEF KillWorker
<1>2. ASSUME Grown(disk'), recorder.open \/ disk' = disk
      PROVE  WorkerStep
  BY <1>1, <1>2 DEF WorkerStep
<1>3. \/ disk' = disk
      \/ recorder.open /\ Turned.began /\ disk' = [root EXCEPT ![run].status = "bare"]
      \/ /\ recorder.open /\ run # 0
         /\ \E k \in 1 .. 4 : disk' = [root EXCEPT ![run] = Written(@, k)]
  BY DEF KillWorker, MayWrite
<1>4. CASE disk' = disk
  BY <1>2, <1>4, GrownNot DEF CaptureInv
<1>5. ASSUME recorder.open
      PROVE  /\ Turned.began => run # 0
             /\ run # 0 => /\ run \in DOMAIN root /\ root[run] \in Directories
                           /\ root[run].status = "recording"  /\ Exact(root[run])
  BY <1>5, TurnedIs DEF Grown, IsOpen
<1>6. CASE recorder.open /\ Turned.began /\ disk' = [root EXCEPT ![run].status = "bare"]
  BY <1>2, <1>6, BareGrows
<1>7. CASE /\ recorder.open /\ run # 0
           /\ \E k \in 1 .. 4 : disk' = [root EXCEPT ![run] = Written(@, k)]
  <2>1. PICK k \in 1 .. 4 : disk' = [root EXCEPT ![run] = Written(@, k)]
    BY <1>7
  <2> DEFINE c == Written(root[run], k)
  <2>2. c \in Directories /\ Same(c, root[run]) /\ c.status = "recording"
    <3>1. k \in 0 .. 4
      OBVIOUS
    <3> QED
      BY <1>5, <1>7, <3>1, WrittenIs
  <2>3. disk' = [root EXCEPT ![run] = c]
    BY <2>1
  <2> HIDE DEF c
  <2>4. Sound(c)
    BY <2>2 DEF Sound, Finished
  <2>5. Grown(disk')
    BY <1>7, <2>2, <2>3, <2>4, GrownWith
  <2> QED
    BY <1>2, <1>7, <2>5
<1> QED
  BY <1>3, <1>4, <1>6, <1>7

(* The claims about what is on disk.                                       *)
LEMMA OnDisk ==
  ASSUME CaptureInv
  PROVE  /\ disk \in Seq(Directories) /\ recorder \in Recorders /\ request \in Requests
         /\ jobs \in Seq(Reports) /\ active \in 0 .. Len(jobs) /\ session.run \in Nat
         /\ \A n \in DOMAIN disk : disk[n] \in Directories /\ Sound(disk[n])
         /\ \A n \in DOMAIN disk : disk[n].kind = "recovered" =>
               /\ Settled(disk[n].source) /\ disk[n].whole = disk[disk[n].source].whole
               /\ disk[n].by.id \in DOMAIN jobs /\ jobs[disk[n].by.id].phase = "published"
               /\ jobs[disk[n].by.id].candidate
         /\ \A n \in DOMAIN disk : disk[n].kind = "capture" =>
               /\ disk[n].by.exec = disk[n].exec
               /\ \A m \in DOMAIN disk : disk[m].by = disk[n].by => m = n
  BY DEF CaptureInv, CaptureTypeOK, Recorders, RecordingsAreTrue, FinishedIsIndexed, Finished,
     RecoveredIsComplete, RecoveredIsNamed, OneRecordingPerRequest, CopiesAreSettled, Sound

(* A directory that was there is what it was, and finished ones are true.  *)
LEMMA OldStay ==
  ASSUME CaptureInv, WorkerStep, NEW n \in DOMAIN disk
  PROVE  /\ n \in DOMAIN disk' /\ Same(disk'[n], disk[n]) /\ Sound(disk'[n])
         /\ disk[n].kind # "capture" \/ Settled(n) => disk'[n] = disk[n]
<1>1. /\ n \in DOMAIN disk'
      /\ disk'[n] = disk[n] \/ (n = recorder.run /\ Same(disk'[n], disk[n]) /\ Sound(disk'[n]))
  BY DEF WorkerStep, Grown
<1>2. Sound(disk[n]) /\ Same(disk[n], disk[n])
  BY OnDisk DEF Same
<1>3. n = recorder.run => disk[n].kind = "capture" /\ disk[n].exec = recorder.exec
  <2>1. n # 0
    BY OnDisk
  <2> QED
    BY <2>1 DEF CaptureInv, OpenIsIndexed
<1> QED
  BY <1>1, <1>2, <1>3 DEF Settled

(* One that begins is of the worker's execution and of a request that has  *)
(* had none.                                                               *)
LEMMA NewIs ==
  ASSUME CaptureInv, WorkerStep, NEW n \in DOMAIN disk' \ DOMAIN disk
  PROVE  /\ n = Len(disk) + 1 /\ recorder.open /\ Begins
         /\ disk'[n].kind = "capture" /\ disk'[n].exec = recorder.exec /\ disk'[n].by = Asked
         /\ Sound(disk'[n]) /\ Asked.recording /\ Asked.exec = recorder.exec
         /\ \A m \in DOMAIN disk : disk[m].by # Asked
<1>1. /\ n = Len(disk) + 1 /\ recorder.open /\ Begins
      /\ disk'[n].kind = "capture" /\ disk'[n].exec = recorder.exec /\ disk'[n].by = Asked
      /\ Sound(disk'[n])
  BY DEF WorkerStep, WorkerGoesOn, Grown
<1>2. /\ Asked \in Requests /\ Asked.exec = recorder.exec /\ recorder.last < Asked.id
      /\ Asked.recording
  BY <1>1, AskedIs DEF CaptureInv, Begins
<1>3. ASSUME NEW m \in DOMAIN disk, disk[m].by = Asked
      PROVE  FALSE
  <2>1. disk[m].kind = "capture"
    BY <1>2, <1>3 DEF CaptureInv, RequestsInOrder
  <2>2. disk[m].exec = recorder.exec
    BY <1>2, <1>3, <2>1, OnDisk
  <2>3. disk[m].by.id <= recorder.last
    BY <2>1, <2>2 DEF CaptureInv, RequestsInOrder
  <2>4. recorder.last \in Nat /\ Asked.id \in Nat
    BY <1>2, OnDisk DEF Recorders, Requests
  <2> QED
    BY <1>2, <1>3, <2>3, <2>4
<1> QED
  BY <1>1, <1>2, <1>3

(* Whatever a worker does, and however it ends, recordings stay true.      *)
LEMMA WorkerKeepsRecordings ==
  ASSUME CaptureInv, WorkerStep
  PROVE  RecordingsAreTrue'
<1>1. FinishedIsIndexed'
  <2>1. \A n \in DOMAIN disk' : Sound(disk'[n])
    BY OldStay, NewIs
  <2> QED
    BY <2>1 DEF FinishedIsIndexed, Sound
<1>2. ASSUME NEW n \in DOMAIN disk', disk'[n].kind = "recovered"
      PROVE  /\ disk'[n].whole = disk'[disk'[n].source].whole
             /\ jobs'[disk'[n].by.id].candidate
  <2>1. n \in DOMAIN disk
    BY <1>2, NewIs
  <2>2. disk[n].kind = "recovered" /\ disk'[n] = disk[n]
    BY <1>2, <2>1, OldStay DEF Same
  <2>3. Settled(disk[n].source)
    BY <2>1, <2>2, OnDisk
  <2>4. disk'[disk[n].source] = disk[disk[n].source]
    BY <2>3, OldStay DEF Settled
  <2>5. jobs' = jobs
    BY DEF WorkerStep
  <2> QED
    BY <2>1, <2>2, <2>4, <2>5, OnDisk
<1>3. ASSUME NEW n \in DOMAIN disk', disk'[n].kind = "capture"
      PROVE  /\ disk'[n].by.exec = disk'[n].exec
             /\ \A m \in DOMAIN disk' : disk'[m].by = disk'[n].by => m = n
  <2>1. CASE n \in DOMAIN disk
    <3>1. /\ disk[n].kind = "capture" /\ disk'[n].by = disk[n].by
          /\ disk'[n].exec = disk[n].exec
      BY <1>3, <2>1, OldStay DEF Same
    <3>2. ASSUME NEW m \in DOMAIN disk', disk'[m].by = disk'[n].by
          PROVE  m = n
      <4>1. m \in DOMAIN disk
        BY <2>1, <3>1, <3>2, NewIs
      <4>2. disk'[m].by = disk[m].by
        BY <4>1, OldStay DEF Same
      <4> QED
        BY <2>1, <3>1, <3>2, <4>1, <4>2, OnDisk
    <3> QED
      BY <2>1, <3>1, <3>2, OnDisk
  <2>2. CASE n \notin DOMAIN disk
    <3>1. ASSUME NEW m \in DOMAIN disk', disk'[m].by = disk'[n].by
          PROVE  m = n
      <4>1. m \notin DOMAIN disk
        BY <2>2, <3>1, NewIs, OldStay DEF Same
      <4> QED
        BY <2>2, <4>1, NewIs
    <3> QED
      BY <2>2, <3>1, NewIs
  <2> QED
    BY <2>1, <2>2
<1>4. RecoveredIsComplete' /\ RecoveredIsNamed'
  BY <1>2 DEF RecoveredIsComplete, RecoveredIsNamed
<1>5. OneRecordingPerRequest'
  BY <1>3 DEF OneRecordingPerRequest
<1> QED
  BY <1>1, <1>4, <1>5 DEF RecordingsAreTrue

(* Settled, after a step.                                                  *)
SettledStill(name) == name \in DOMAIN disk' /\ disk'[name].exec # recorder'.exec

(* And so do the order of the executions and of the requests, and copies.  *)
LEMMA WorkerKeepsOrder ==
  ASSUME CaptureInv, WorkerStep
  PROVE  /\ CaptureTypeOK' /\ ExecutionsInOrder' /\ OpenIsIndexed' /\ RequestsInOrder'
         /\ CopiesAreSettled'
<1>1. NoWorker \in Recorders /\ NoWorker.exec = 0 /\ NoWorker.last = 0 /\ NoWorker.run = 0
      /\ NoWorker.open = FALSE /\ NoWorker.accepted = NoRequest
      /\ NoRequest.id = 0 /\ NoRequest.recording = FALSE
  BY DEF NoWorker, NoRequest, Recorders, Requests
<1>2. CaptureTypeOK'
  <2>1. recorder' \in Recorders
    BY <1>1 DEF WorkerStep, WorkerGoesOn
  <2>2. disk' \in Seq(Directories)
    BY DEF WorkerStep, Grown
  <2> QED
    BY <2>1, <2>2 DEF CaptureInv, CaptureTypeOK, Recorders, WorkerStep
<1>3. recorder'.exec \in {0, recorder.exec}
  BY <1>1 DEF WorkerStep, WorkerGoesOn
<1>4. \A n \in DOMAIN disk : disk[n].exec \in Nat \ {0}
  BY OnDisk DEF Directories
<1>5. ExecutionsInOrder'
  <2>1. \A n \in DOMAIN disk' : disk'[n].exec <= session.run
    BY OldStay, NewIs DEF Same, CaptureInv, ExecutionsInOrder
  <2>2. recorder'.exec <= session.run
    BY <1>3, OnDisk DEF CaptureInv, ExecutionsInOrder, Recorders
  <2> QED
    BY <2>1, <2>2 DEF ExecutionsInOrder, CaptureInv, WorkerStep
<1>6. OpenIsIndexed'
  <2>1. CASE recorder' = NoWorker
    BY <1>1, <2>1 DEF OpenIsIndexed
  <2>2. CASE WorkerGoesOn
    BY <2>2 DEF OpenIsIndexed, WorkerGoesOn, WorkerStep, IsOpen, Exact
  <2> QED
    BY <2>1, <2>2 DEF WorkerStep
<1>7. RequestsInOrder'
  <2>1. /\ Asked \in Requests /\ recorder.last <= Asked.id /\ Asked.id <= request.id
        /\ Asked.recording => Asked.exec = recorder.exec
        /\ Begins => recorder.last < Asked.id
    BY AskedIs DEF CaptureInv
  <2>2. ASSUME NEW n \in DOMAIN disk'
        PROVE  disk'[n].by.recording <=> disk'[n].kind = "capture"
    <3>1. CASE n \in DOMAIN disk
      <4>1. disk'[n].by = disk[n].by /\ disk'[n].kind = disk[n].kind
        BY <3>1, OldStay DEF Same
      <4> QED
        BY <3>1, <4>1 DEF CaptureInv, RequestsInOrder
    <3>2. CASE n \notin DOMAIN disk
      <4>1. disk'[n].by = Asked /\ Asked.recording /\ disk'[n].kind = "capture"
        BY <3>2, NewIs
      <4> QED
        BY <4>1
    <3> QED
      BY <3>1, <3>2
  <2>3. ASSUME NEW n \in DOMAIN disk', disk'[n].kind = "capture", disk'[n].exec = recorder'.exec
        PROVE  disk'[n].by.id <= recorder'.last
    <3>1. disk'[n].exec \in Nat \ {0}
      <4>1. disk'[n] \in Directories
        BY <1>2 DEF CaptureTypeOK
      <4> QED
        BY <4>1 DEF Directories
    <3>2. WorkerGoesOn
      BY <1>1, <2>3, <3>1 DEF WorkerStep
    <3>3. /\ recorder'.exec = recorder.exec
          /\ recorder'.last = IF Begins THEN Asked.id ELSE recorder.last
      BY <3>2 DEF WorkerGoesOn
    <3>4. recorder.last \in Nat /\ Asked.id \in Nat
      BY <2>1, OnDisk DEF Recorders, Requests
    <3>5. CASE n \in DOMAIN disk
      <4>1. disk'[n].by = disk[n].by /\ disk[n].kind = "capture" /\ disk[n].exec = recorder.exec
        BY <2>3, <3>3, <3>5, OldStay DEF Same
      <4>2. disk[n].by.id <= recorder.last /\ disk[n].by.id \in Nat
        BY <3>5, <4>1, OnDisk DEF CaptureInv, RequestsInOrder, Directories, Requests
      <4> QED
        BY <2>1, <3>3, <3>4, <4>1, <4>2
    <3>6. CASE n \notin DOMAIN disk
      <4>1. disk'[n].by = Asked /\ Begins
        BY <3>6, NewIs
      <4> QED
        BY <3>3, <3>4, <4>1
    <3> QED
      BY <3>5, <3>6
  <2>4. /\ recorder'.last <= recorder'.accepted.id /\ recorder'.accepted.id <= request.id
        /\ recorder'.accepted.recording => recorder'.accepted.exec = recorder'.exec
    <3>1. CASE recorder' = NoWorker
      BY <1>1, <3>1, OnDisk DEF Requests
    <3>2. CASE WorkerGoesOn
      <4>1. recorder.last \in Nat /\ Asked.id \in Nat
        BY <2>1, OnDisk DEF Recorders, Requests
      <4> QED
        BY <2>1, <3>2, <4>1 DEF WorkerGoesOn
    <3> QED
      BY <3>1, <3>2 DEF WorkerStep
  <2>5. request' = request
    BY DEF WorkerStep
  <2> QED
    BY <2>2, <2>3, <2>4, <2>5 DEF RequestsInOrder
<1>8. \A n : Settled(n) => SettledStill(n) /\ disk'[n] = disk[n]
  BY <1>3, <1>4, OldStay DEF Settled, SettledStill, Same
<1>9. CopiesAreSettled'
  <2>1. jobs' = jobs /\ active' = active
    BY DEF WorkerStep
  <2>2. ASSUME NEW n \in DOMAIN disk', disk'[n].kind = "recovered"
        PROVE  /\ SettledStill(disk'[n].source)
               /\ disk'[n].by.id \in DOMAIN jobs /\ jobs[disk'[n].by.id].phase = "published"
    <3>1. n \in DOMAIN disk
      BY <2>2, NewIs
    <3>2. disk'[n] = disk[n]
      BY <2>2, <3>1, OldStay DEF Same
    <3>3. /\ Settled(disk[n].source)
          /\ disk[n].by.id \in DOMAIN jobs /\ jobs[disk[n].by.id].phase = "published"
      BY <2>2, <3>1, <3>2, OnDisk
    <3> QED
      BY <1>8, <3>2, <3>3
  <2>3. ASSUME active # 0
        PROVE  /\ Running.source \in DOMAIN disk'
               /\ Running.phase # "started" =>
                     /\ SettledStill(Running.source)
                     /\ Running.kind = "recovery" => Running.copy = disk'[Running.source].whole
               /\ Running.phase \in {"verified", "locked"} /\ Running.kind = "recovery" =>
                     Running.candidate
    <3>1. /\ Running.source \in DOMAIN disk
          /\ Running.phase # "started" =>
                /\ Settled(Running.source)
                /\ Running.kind = "recovery" => Running.copy = disk[Running.source].whole
          /\ Running.phase \in {"verified", "locked"} /\ Running.kind = "recovery" =>
                Running.candidate
      BY <2>3 DEF CaptureInv, CopiesAreSettled
    <3>2. Running' = Running
      BY <2>1 DEF Running
    <3> QED
      BY <1>8, <2>1, <3>1, <3>2, OldStay DEF Settled
  <2>4. Running' = Running
    BY <2>1 DEF Running
  <2> QED
    BY <2>1, <2>2, <2>3, <2>4 DEF CopiesAreSettled, Settled, SettledStill
<1> QED
  BY <1>2, <1>5, <1>6, <1>7, <1>9

(* What the job that runs may rely on.                                     *)
JobSound(report) ==
  /\ report.source \in DOMAIN disk
  /\ report.phase # "started" =>
        /\ Settled(report.source)
        /\ report.kind = "recovery" => report.copy = disk[report.source].whole
  /\ report.phase \in {"verified", "locked"} /\ report.kind = "recovery" => report.candidate

(* A step of a job that leaves the capture root alone.                     *)
LEMMA JobKeeps ==
  ASSUME CaptureInv, UNCHANGED <<disk, recorder, request, session>>,
         jobs' \in Seq(Reports), active' \in 0 .. Len(jobs'),
         publisher' \in BOOLEAN, scanning' \in BOOLEAN,
         \A j \in DOMAIN jobs : jobs[j].phase = "published" =>
            /\ j \in DOMAIN jobs' /\ jobs'[j].phase = "published"
            /\ jobs[j].candidate => jobs'[j].candidate,
         \A j \in DOMAIN jobs' : jobs'[j].seen.exec <= session.run,
         active' # 0 => JobSound(jobs'[active'])
  PROVE  CaptureInv'
<1>1. CaptureTypeOK'
  BY DEF CaptureInv, CaptureTypeOK
<1>2. RecoveredIsNamed'
  BY OnDisk DEF RecoveredIsNamed
<1>3. RecordingsAreTrue'
  BY <1>2 DEF CaptureInv, RecordingsAreTrue, FinishedIsIndexed, RecoveredIsComplete,
     OneRecordingPerRequest
<1>4. ExecutionsInOrder' /\ OpenIsIndexed' /\ RequestsInOrder'
  BY DEF CaptureInv, ExecutionsInOrder, OpenIsIndexed, RequestsInOrder
<1>5. CopiesAreSettled'
  <2>1. \A n \in DOMAIN disk' : disk'[n].kind = "recovered" =>
          /\ SettledStill(disk'[n].source)
          /\ disk'[n].by.id \in DOMAIN jobs' /\ jobs'[disk'[n].by.id].phase = "published"
    BY OnDisk DEF Settled, SettledStill
  <2>2. active' # 0 => JobSound(Running')
    BY DEF Running
  <2> QED
    BY <2>1, <2>2 DEF CopiesAreSettled, Settled, SettledStill, JobSound
<1> QED
  BY <1>1, <1>3, <1>4, <1>5 DEF CaptureInv

(* The report of the job that runs.                                        *)
LEMMA JobRuns ==
  ASSUME CaptureInv, active # 0
  PROVE  Running \in Reports /\ active \in DOMAIN jobs /\ JobSound(Running)
  BY OnDisk DEF CaptureInv, CopiesAreSettled, Running, JobSound

(* What is written into it.                                                *)
LEMMA SetIs ==
  ASSUME CaptureInv, active # 0, NEW state \in {"running", "done", "failed"},
         NEW phase \in {"started", "copied", "verified", "locked", "published"},
         NEW copy \in Nat, NEW candidate \in BOOLEAN, Set(state, phase, copy, candidate)
  PROVE  /\ jobs' \in Seq(Reports) /\ Len(jobs') = Len(jobs) /\ DOMAIN jobs' = DOMAIN jobs
         /\ \A j \in DOMAIN jobs : j # active => jobs'[j] = jobs[j]
         /\ jobs'[active].phase = phase /\ jobs'[active].copy = copy
         /\ jobs'[active].candidate = candidate
         /\ jobs'[active].kind = Running.kind /\ jobs'[active].source = Running.source
         /\ \A j \in DOMAIN jobs' : jobs'[j].seen.exec <= session.run
<1> DEFINE r == [Running EXCEPT !.state = state, !.phase = phase, !.copy = copy,
                                !.candidate = candidate]
<1>1. Running \in Reports /\ active \in DOMAIN jobs /\ jobs \in Seq(Reports)
  BY JobRuns, OnDisk
<1>2. jobs' = [jobs EXCEPT ![active] = r]
  BY <1>1 DEF Set, Running
<1>3. /\ r \in Reports /\ r.phase = phase /\ r.copy = copy /\ r.candidate = candidate
      /\ r.kind = Running.kind /\ r.source = Running.source /\ r.seen = Running.seen
  BY <1>1 DEF Reports
<1> HIDE DEF r
<1>4. /\ jobs' \in Seq(Reports) /\ Len(jobs') = Len(jobs) /\ DOMAIN jobs' = DOMAIN jobs
      /\ jobs'[active] = r /\ \A j \in DOMAIN jobs : j # active => jobs'[j] = jobs[j]
  BY <1>1, <1>2, <1>3
<1>5. jobs'[active].candidate = candidate
  BY <1>3, <1>4, Zenon
<1>6. \A j \in DOMAIN jobs : jobs[j].seen.exec <= session.run
  BY DEF CaptureInv, ExecutionsInOrder
<1>7. \A j \in DOMAIN jobs' : jobs'[j].seen = jobs[j].seen
  BY <1>3, <1>4 DEF Running
<1> QED
  BY <1>3, <1>4, <1>5, <1>6, <1>7

(* A job goes on to a later phase.                                         *)
LEMMA JobMoves ==
  ASSUME CaptureInv, active # 0, Running.phase # "published",
         UNCHANGED <<disk, recorder, request, session, active, scanning>>,
         publisher' \in BOOLEAN,
         NEW phase \in {"copied", "verified", "locked"}, NEW copy \in Nat,
         NEW candidate \in BOOLEAN, Set("running", phase, copy, candidate),
         Settled(Running.source),
         Running.kind = "recovery" => copy = disk[Running.source].whole,
         phase # "copied" /\ Running.kind = "recovery" => candidate
  PROVE  CaptureInv'
<1>1. /\ jobs' \in Seq(Reports) /\ Len(jobs') = Len(jobs) /\ DOMAIN jobs' = DOMAIN jobs
      /\ \A j \in DOMAIN jobs : j # active => jobs'[j] = jobs[j]
      /\ jobs'[active].phase = phase /\ jobs'[active].copy = copy
      /\ jobs'[active].candidate = candidate
      /\ jobs'[active].kind = Running.kind /\ jobs'[active].source = Running.source
      /\ \A j \in DOMAIN jobs' : jobs'[j].seen.exec <= session.run
  BY SetIs
<1>2. jobs[active] = Running /\ active \in 0 .. Len(jobs) /\ scanning \in BOOLEAN
  BY OnDisk DEF Running, CaptureInv, CaptureTypeOK
<1>3. phase \in {"verified", "locked"} /\ Running.kind = "recovery" => jobs'[active].candidate
  BY <1>1, Zenon
<1>4. JobSound(jobs'[active])
  BY <1>1, <1>3 DEF JobSound, Settled
<1>5. \A j \in DOMAIN jobs : jobs[j].phase = "published" =>
         /\ j \in DOMAIN jobs' /\ jobs'[j].phase = "published"
         /\ jobs[j].candidate => jobs'[j].candidate
  BY <1>1, <1>2
<1> QED
  BY <1>1, <1>2, <1>4, <1>5, JobKeeps

(* A job that begins.                                                      *)
LEMMA JobStarts ==
  ASSUME CaptureInv, NEW kind \in {"recovery", "excerpt", "archive", "quality"},
         NEW name \in DOMAIN disk, StartJob(kind, name)
  PROVE  CaptureInv'
<1> DEFINE r == [kind |-> kind, source |-> name, state |-> "running",
                 phase |-> "started", seen |-> disk[name], copy |-> 0, candidate |-> FALSE]
<1>1. /\ jobs' = Append(jobs, r) /\ active' = Len(jobs) + 1
      /\ UNCHANGED <<disk, recorder, request, session, publisher>>
      /\ scanning' = (kind = "quality" \/ scanning)
  BY DEF StartJob
<1>2. /\ jobs \in Seq(Reports) /\ disk \in Seq(Directories) /\ name \in Nat
      /\ disk[name] \in Directories /\ publisher \in BOOLEAN /\ scanning' \in BOOLEAN
  BY <1>1 DEF CaptureInv, CaptureTypeOK
<1>3. r \in Reports /\ r.phase = "started" /\ r.source = name
  BY <1>2 DEF Reports
<1> HIDE DEF r
<1>4. /\ jobs' \in Seq(Reports) /\ Len(jobs') = Len(jobs) + 1 /\ jobs'[Len(jobs) + 1] = r
      /\ \A j \in DOMAIN jobs : j \in DOMAIN jobs' /\ jobs'[j] = jobs[j]
      /\ Len(jobs) \in Nat
  BY <1>1, <1>2, <1>3
<1>5. JobSound(r)
  BY <1>3 DEF JobSound
<1>6. \A j \in DOMAIN jobs' : jobs'[j].seen.exec <= session.run
  <2>1. r.seen = disk[name]
    BY DEF r
  <2>2. DOMAIN jobs' = DOMAIN jobs \cup {Len(jobs) + 1}
    BY <1>2, <1>4
  <2> QED
    BY <1>4, <2>1, <2>2 DEF CaptureInv, ExecutionsInOrder
<1> QED
  BY <1>1, <1>2, <1>4, <1>5, <1>6, JobKeeps

(* A job that ends, with or without the bridge.                            *)
LEMMA JobEnds ==
  ASSUME CaptureInv, EndJob \/ CrashStudio \/ EndValidator
  PROVE  CaptureInv'
<1>1. CASE EndJob
  <2>1. /\ active # 0 /\ active' = 0 /\ publisher' = FALSE
        /\ UNCHANGED <<disk, recorder, request, session>>
        /\ scanning' = (scanning /\ Running.kind # "quality")
        /\ \E state \in {"running", "done", "failed"} :
              Set(state, Running.phase, Running.copy, Running.candidate)
    BY <1>1 DEF EndJob
  <2>2. /\ Running.phase \in {"started", "copied", "verified", "locked", "published"}
        /\ Running.copy \in Nat /\ Running.candidate \in BOOLEAN
    BY <2>1, JobRuns DEF Reports
  <2>3. /\ jobs' \in Seq(Reports) /\ Len(jobs') = Len(jobs) /\ DOMAIN jobs' = DOMAIN jobs
        /\ \A j \in DOMAIN jobs : j # active => jobs'[j] = jobs[j]
        /\ jobs'[active].phase = Running.phase /\ jobs'[active].candidate = Running.candidate
        /\ \A j \in DOMAIN jobs' : jobs'[j].seen.exec <= session.run
    BY <2>1, <2>2, SetIs
  <2>4. jobs[active].candidate => jobs'[active].candidate
    BY <2>3, Zenon DEF Running
  <2>5. \A j \in DOMAIN jobs : jobs[j].phase = "published" =>
           /\ j \in DOMAIN jobs' /\ jobs'[j].phase = "published"
           /\ jobs[j].candidate => jobs'[j].candidate
    BY <2>3, <2>4 DEF Running
  <2>6. scanning' \in BOOLEAN
    BY <2>1, Zenon
  <2>7. Len(jobs) \in Nat
    BY OnDisk
  <2>8. active' \in 0 .. Len(jobs') /\ publisher' \in BOOLEAN
    <3>1. active' = 0 /\ publisher' = FALSE /\ Len(jobs') = Len(jobs)
      BY <2>1, <2>3
    <3>2. active' \in 0 .. Len(jobs')
      BY <2>7, <3>1
    <3>3. publisher' \in BOOLEAN
      BY <3>1, Zenon
    <3> QED
      BY <3>2, <3>3
  <2>9. active' # 0 => JobSound(jobs'[active'])
    BY <2>1
  <2> QED
    BY <2>1, <2>3, <2>5, <2>6, <2>8, <2>9, JobKeeps
<1>2. CASE CrashStudio \/ EndValidator
  <2>1. /\ UNCHANGED <<disk, recorder, request, session, jobs>> /\ active' = 0
        /\ publisher' \in BOOLEAN /\ scanning' \in BOOLEAN
    BY <1>2 DEF CrashStudio, EndValidator, CaptureInv, CaptureTypeOK
  <2>2. /\ jobs' \in Seq(Reports) /\ Len(jobs') \in Nat
        /\ \A j \in DOMAIN jobs' : jobs'[j].seen.exec <= session.run
    BY <2>1, OnDisk DEF CaptureInv, ExecutionsInOrder
  <2> QED
    BY <2>1, <2>2, JobKeeps
<1> QED
  BY <1>1, <1>2

(* Each step of a job that copies.                                         *)
LEMMA JobCopies ==
  ASSUME CaptureInv, CopySource \/ VerifyCopy \/ LockRoot
  PROVE  CaptureInv'
<1>1. active # 0
  BY DEF CopySource, VerifyCopy, LockRoot
<1>2. Running \in Reports /\ JobSound(Running) /\ publisher \in BOOLEAN
  BY <1>1, JobRuns DEF CaptureInv, CaptureTypeOK
<1>3. CASE CopySource
  <2>1. PICK n \in 1 .. disk[Running.source].whole :
          /\ Running.kind = "recovery" => n = disk[Running.source].whole
          /\ Set("running", "copied", n, FALSE)
    BY <1>3 DEF CopySource
  <2>2. n \in Nat
    BY <1>2, <2>1, OnDisk DEF JobSound, Directories
  <2>3. /\ Running.phase = "started" /\ disk[Running.source].exec # recorder.exec
        /\ UNCHANGED <<disk, recorder, request, session, active, publisher, scanning>>
    BY <1>3 DEF CopySource, Inactive
  <2>4. Settled(Running.source)
    BY <1>2, <2>3 DEF JobSound, Settled
  <2> QED
    BY <1>1, <1>2, <2>1, <2>2, <2>3, <2>4, JobMoves
<1>4. CASE VerifyCopy
  <2>1. /\ Running.phase = "copied"
        /\ UNCHANGED <<disk, recorder, request, session, active, publisher, scanning>>
        /\ Set("running", "verified", Running.copy, Running.kind = "recovery")
    BY <1>4 DEF VerifyCopy
  <2>2. Running.copy \in Nat /\ (Running.kind = "recovery") \in BOOLEAN
    BY <1>2 DEF Reports
  <2>3. /\ Settled(Running.source)
        /\ Running.kind = "recovery" => Running.copy = disk[Running.source].whole
    BY <1>2, <2>1 DEF JobSound
  <2> QED
    BY <1>1, <1>2, <2>1, <2>2, <2>3, JobMoves
<1>5. CASE LockRoot
  <2>1. /\ Running.phase = "verified" /\ publisher' = TRUE
        /\ UNCHANGED <<disk, recorder, request, session, active, scanning>>
        /\ Set("running", "locked", Running.copy, Running.candidate)
    BY <1>5 DEF LockRoot
  <2>2. Running.copy \in Nat /\ Running.candidate \in BOOLEAN
    BY <1>2 DEF Reports
  <2>3. /\ Settled(Running.source)
        /\ Running.kind = "recovery" =>
              Running.copy = disk[Running.source].whole /\ Running.candidate
    BY <1>2, <2>1 DEF JobSound
  <2> QED
    BY <1>1, <2>1, <2>2, <2>3, JobMoves
<1> QED
  BY <1>3, <1>4, <1>5

(* A copy that is published joins the root.                                *)
LEMMA CopyJoins ==
  ASSUME CaptureInv, PublishCopy
  PROVE  CaptureInv'
<1> DEFINE c == Copied
           l == Len(disk) + 1
<1>1. /\ active # 0 /\ Running.phase = "locked" /\ disk' = Append(disk, c) /\ publisher' = FALSE
      /\ Set("running", "published", Running.copy, Running.candidate)
      /\ UNCHANGED <<recorder, request, session, active, scanning>>
  BY DEF PublishCopy
<1>2. /\ Running \in Reports /\ JobSound(Running) /\ active \in DOMAIN jobs
      /\ Settled(Running.source)
      /\ Running.kind = "recovery" =>
            Running.copy = disk[Running.source].whole /\ Running.candidate
  BY <1>1, JobRuns DEF JobSound
<1>3. /\ Running.copy \in Nat /\ Running.candidate \in BOOLEAN /\ Running.seen \in Directories
      /\ Running.source \in Nat
  BY <1>2 DEF Reports
<1>4. /\ jobs' \in Seq(Reports) /\ Len(jobs') = Len(jobs) /\ DOMAIN jobs' = DOMAIN jobs
      /\ \A j \in DOMAIN jobs : j # active => jobs'[j] = jobs[j]
      /\ jobs'[active].phase = "published"
      /\ jobs'[active].candidate = Running.candidate
      /\ jobs'[active].kind = Running.kind /\ jobs'[active].source = Running.source
      /\ jobs'[active].copy = Running.copy
      /\ \A j \in DOMAIN jobs' : jobs'[j].seen.exec <= session.run
  BY <1>1, <1>3, SetIs
<1>5. Running.candidate => jobs'[active].candidate
  BY <1>4, Zenon
<1>6. /\ c \in Directories /\ c.source = Running.source /\ c.whole = Running.copy /\ Sound(c)
      /\ c.kind = IF Running.kind = "recovery" THEN "recovered" ELSE "excerpt"
      /\ c.by.recording = FALSE /\ c.by.id = active /\ c.exec = Running.seen.exec
  <2>1. active \in Nat
    BY <1>2, OnDisk
  <2>2. /\ [NoRequest EXCEPT !.id = active] \in Requests
        /\ [NoRequest EXCEPT !.id = active].recording = FALSE
        /\ [NoRequest EXCEPT !.id = active].id = active
    BY <2>1 DEF NoRequest, Requests
  <2>3. Running.seen.exec \in Nat \ {0}
    BY <1>3 DEF Directories
  <2> DEFINE by == [NoRequest EXCEPT !.id = active]
             kind == IF Running.kind = "recovery" THEN "recovered" ELSE "excerpt"
             status == IF Running.kind = "recovery" THEN "saved_recovered" ELSE "saved_excerpt"
  <2>4. kind \in {"recovered", "excerpt"} /\ status \in Statuses
    BY DEF Statuses, Finished
  <2>5. c = [kind |-> kind, source |-> Running.source, exec |-> Running.seen.exec,
             status |-> status, by |-> by, whole |-> Running.copy, tail |-> FALSE,
             count |-> Running.copy, index |-> Running.copy, cut |-> "none"]
    BY DEF Copied, Directory
  <2>6. by \in Requests /\ by.recording = FALSE /\ by.id = active
    BY <2>2
  <2> HIDE DEF by, status, c
  <2> QED
    <3>1. c \in Directories /\ Exact(c)
      BY <1>3, <2>3, <2>4, <2>5, <2>6 DEF Directories, Exact
    <3> QED
      BY <2>5, <2>6, <3>1, ExactIsSound
<1>7. disk \in Seq(Directories) /\ Len(disk) \in Nat
  BY OnDisk
<1> HIDE DEF c
<1>8. /\ disk' \in Seq(Directories) /\ DOMAIN disk' = DOMAIN disk \cup {l} /\ l \notin DOMAIN disk
      /\ disk'[l] = c /\ \A n \in DOMAIN disk : disk'[n] = disk[n]
  BY <1>1, <1>6, <1>7
<1> HIDE DEF l
<1>9. CaptureTypeOK'
  BY <1>1, <1>4, <1>8 DEF CaptureInv, CaptureTypeOK
<1>10. \A n \in DOMAIN disk : disk[n].kind = "recovered" => disk[n].by.id # active
  BY <1>1, OnDisk DEF Running
<1>11. FinishedIsIndexed'
  <2>1. \A n \in DOMAIN disk' : Sound(disk'[n])
    BY <1>6, <1>8, OnDisk
  <2> QED
    BY <2>1 DEF FinishedIsIndexed, Sound
<1>12. ASSUME NEW n \in DOMAIN disk', disk'[n].kind = "recovered"
       PROVE  /\ SettledStill(disk'[n].source) /\ disk'[n].whole = disk'[disk'[n].source].whole
              /\ disk'[n].by.id \in DOMAIN jobs' /\ jobs'[disk'[n].by.id].phase = "published"
              /\ jobs'[disk'[n].by.id].candidate
  <2>1. CASE n = l
    <3>1. Running.kind = "recovery" /\ disk'[n] = c
      BY <1>6, <1>8, <1>12, <2>1
    <3> QED
      BY <1>1, <1>2, <1>4, <1>5, <1>6, <1>8, <3>1 DEF Settled, SettledStill
  <2>2. CASE n # l
    <3>1. n \in DOMAIN disk /\ disk'[n] = disk[n] /\ disk[n].kind = "recovered"
      BY <1>8, <1>12, <2>2
    <3>2. /\ Settled(disk[n].source) /\ disk[n].whole = disk[disk[n].source].whole
          /\ disk[n].by.id \in DOMAIN jobs /\ jobs[disk[n].by.id].phase = "published"
          /\ jobs[disk[n].by.id].candidate
      BY <3>1, OnDisk
    <3>3. jobs'[disk[n].by.id] = jobs[disk[n].by.id]
      BY <1>4, <1>10, <3>1, <3>2
    <3> QED
      BY <1>1, <1>4, <1>8, <3>1, <3>2, <3>3 DEF Settled, SettledStill
  <2> QED
    BY <2>1, <2>2
<1>13. ASSUME NEW n \in DOMAIN disk', disk'[n].kind = "capture"
       PROVE  /\ disk'[n].by.exec = disk'[n].exec
              /\ \A m \in DOMAIN disk' : disk'[m].by = disk'[n].by => m = n
  <2>1. n \in DOMAIN disk /\ disk'[n] = disk[n]
    BY <1>6, <1>8, <1>13
  <2>2. disk[n].by.recording
    BY <1>13, <2>1 DEF CaptureInv, RequestsInOrder
  <2>3. disk'[l].by # disk[n].by
    BY <1>6, <1>8, <2>2
  <2> QED
    BY <1>8, <1>13, <2>1, <2>3, OnDisk
<1>14. RecordingsAreTrue'
  BY <1>11, <1>12, <1>13 DEF RecordingsAreTrue, RecoveredIsComplete, RecoveredIsNamed,
     OneRecordingPerRequest
<1>15. ExecutionsInOrder' /\ OpenIsIndexed' /\ RequestsInOrder'
  <2>1. c.exec <= session.run
    <3>1. Running.seen.exec <= session.run
      BY <1>2 DEF Running, CaptureInv, ExecutionsInOrder
    <3> QED
      BY <1>6, <3>1
  <2>2. ExecutionsInOrder'
    BY <1>1, <1>4, <1>8, <2>1 DEF CaptureInv, ExecutionsInOrder
  <2>3. OpenIsIndexed'
    BY <1>1, <1>8 DEF CaptureInv, OpenIsIndexed
  <2>4. RequestsInOrder'
    BY <1>1, <1>6, <1>8 DEF CaptureInv, RequestsInOrder
  <2> QED
    BY <2>2, <2>3, <2>4
<1>16. CopiesAreSettled'
  <2>1. JobSound(Running')
    BY <1>1, <1>4, <1>2 DEF JobSound, Running
  <2> QED
    BY <1>1, <1>2, <1>8, <1>12, <2>1 DEF CopiesAreSettled, Settled, SettledStill, JobSound
<1> QED
  BY <1>9, <1>14, <1>15, <1>16 DEF CaptureInv

(* An execution begins, its record ends, or a recording is asked for.      *)
LEMMA StudioKeeps ==
  ASSUME CaptureInv, StartExecution \/ EndSession \/ AskRecording
  PROVE  CaptureInv'
<1>1. /\ UNCHANGED <<disk, jobs, active, publisher, scanning>>
      /\ \A n \in DOMAIN disk : disk[n].exec \in Nat \ {0} /\ disk[n].exec <= session.run
      /\ session.run \in Nat
  <2>1. \A n \in DOMAIN disk : disk[n].exec \in Nat \ {0} /\ disk[n].exec <= session.run
    BY OnDisk DEF CaptureInv, ExecutionsInOrder, Directories
  <2> QED
    BY <2>1, OnDisk DEF StartExecution, EndSession, AskRecording
<1>2. RecordingsAreTrue'
  BY <1>1 DEF CaptureInv, RecordingsAreTrue, FinishedIsIndexed, RecoveredIsComplete,
     RecoveredIsNamed, OneRecordingPerRequest
<1>3. CASE StartExecution
  <2> DEFINE run == session.run + 1
  <2>1. /\ recorder' = [NoWorker EXCEPT !.exec = run, !.open = TRUE] /\ request' = request
        /\ session' = [run |-> run, active |-> TRUE] /\ run \in Nat /\ session.run < run
    BY <1>1, <1>3 DEF StartExecution
  <2> HIDE DEF run
  <2>2. /\ recorder' \in Recorders /\ recorder'.exec = run /\ recorder'.run = 0
        /\ recorder'.last = 0 /\ recorder'.accepted = NoRequest
        /\ NoRequest.id = 0 /\ NoRequest.recording = FALSE
    BY <2>1 DEF Recorders, NoWorker, NoRequest, Requests
  <2>3. session'.run = run /\ session' \in [run : Nat, active : BOOLEAN]
    BY <2>1
  <2>4. \A n \in DOMAIN disk : disk[n].exec < run /\ disk[n].exec # recorder'.exec
    BY <1>1, <2>1, <2>2
  <2>5. request \in Requests /\ request.exec <= session.run /\ request.id \in Nat
        /\ request.exec \in Nat
    BY OnDisk DEF CaptureInv, ExecutionsInOrder, Requests
  <2>6. CaptureTypeOK'
    BY <1>1, <2>1, <2>2, <2>3 DEF CaptureInv, CaptureTypeOK, Recorders
  <2>7. ExecutionsInOrder'
    <3>1. \A j \in DOMAIN jobs : jobs[j].seen.exec <= run
      <4>1. \A j \in DOMAIN jobs : jobs[j].seen.exec \in Nat /\ jobs[j].seen.exec <= session.run
        <5>1. \A j \in DOMAIN jobs : jobs[j] \in Reports
          BY OnDisk
        <5>2. \A j \in DOMAIN jobs : jobs[j].seen.exec \in Nat
          BY <5>1 DEF Reports, Directories
        <5> QED
          BY <5>2 DEF CaptureInv, ExecutionsInOrder
      <4> QED
        BY <1>1, <2>1, <4>1
    <3>2. request.exec <= run
      BY <1>1, <2>1, <2>5
    <3>3. \A n \in DOMAIN disk : disk[n].exec <= run
      BY <1>1, <2>1
    <3>4. recorder'.exec <= run
      BY <2>1, <2>2
    <3> QED
      BY <1>1, <2>1, <2>3, <3>1, <3>2, <3>3, <3>4 DEF ExecutionsInOrder
  <2>8. OpenIsIndexed'
    <3>1. recorder'.exec # 0
      BY <1>1, <2>1, <2>2
    <3> QED
      BY <2>2, <3>1 DEF OpenIsIndexed
  <2>9. RequestsInOrder'
    BY <1>1, <2>1, <2>2, <2>4, <2>5 DEF CaptureInv, RequestsInOrder
  <2>10. \A n : Settled(n) => SettledStill(n)
    BY <1>1, <2>4 DEF Settled, SettledStill
  <2>11. CopiesAreSettled'
    <3>1. Running' = Running
      BY <1>1 DEF Running
    <3> QED
      BY <1>1, <2>10, <3>1 DEF CaptureInv, CopiesAreSettled, Settled, SettledStill
  <2> QED
    BY <1>2, <2>6, <2>7, <2>8, <2>9, <2>11 DEF CaptureInv
<1>4. CASE EndSession
  <2>1. /\ session' = [session EXCEPT !.active = FALSE] /\ recorder' = recorder
        /\ request' = request
    BY <1>4 DEF EndSession
  <2>2. session' \in [run : Nat, active : BOOLEAN] /\ session'.run = session.run
    BY <2>1 DEF CaptureInv, CaptureTypeOK
  <2> QED
    BY <1>1, <1>2, <2>1, <2>2 DEF CaptureInv, CaptureTypeOK, ExecutionsInOrder, OpenIsIndexed,
       RequestsInOrder, CopiesAreSettled, Settled, Running
<1>5. CASE AskRecording
  <2>1. /\ session' = session /\ recorder' = recorder
        /\ \E recording \in BOOLEAN :
              request' = [id |-> request.id + 1, recording |-> recording, exec |-> session.run]
    BY <1>5 DEF AskRecording
  <2>2. request.id \in Nat /\ recorder.accepted.id \in Nat
    BY OnDisk DEF Requests, Recorders
  <2>3. request' \in Requests /\ request'.id = request.id + 1 /\ request'.exec = session.run
    BY <1>1, <2>1, <2>2 DEF Requests
  <2>4. CaptureTypeOK' /\ ExecutionsInOrder' /\ OpenIsIndexed' /\ CopiesAreSettled'
    BY <1>1, <2>1, <2>3 DEF CaptureInv, CaptureTypeOK, ExecutionsInOrder, OpenIsIndexed,
       CopiesAreSettled, Settled, Running
  <2>5. RequestsInOrder'
    BY <1>1, <2>1, <2>2, <2>3 DEF CaptureInv, RequestsInOrder
  <2> QED
    BY <1>2, <2>4, <2>5 DEF CaptureInv
<1> QED
  BY <1>3, <1>4, <1>5

(* Every step keeps the invariant.                                         *)
LEMMA CaptureStep ==
  ASSUME CaptureInv, [CaptureNext]_captureVars
  PROVE  CaptureInv'
<1>1. ASSUME WorkerStep
      PROVE  CaptureInv'
  BY <1>1, WorkerKeepsRecordings, WorkerKeepsOrder DEF CaptureInv
<1>2. CASE Frame \/ FrameFails \/ InterruptFrame \/ EndWorker \/ KillWorker
  BY <1>1, <1>2, FrameWrites, FailureWrites, InterruptWrites, EndWrites, KillWrites
<1>3. CASE StartExecution \/ EndSession \/ AskRecording
  BY <1>3, StudioKeeps
<1>4. CASE \E kind \in {"recovery", "excerpt", "archive", "quality"}, name \in DOMAIN disk :
              StartJob(kind, name)
  BY <1>4, JobStarts
<1>5. CASE CopySource \/ VerifyCopy \/ LockRoot \/ PublishCopy
  BY <1>5, JobCopies, CopyJoins
<1>6. CASE EndJob \/ CrashStudio \/ EndValidator
  BY <1>6, JobEnds
<1>7. CASE UNCHANGED captureVars
  BY <1>7 DEF captureVars, CaptureInv, CaptureTypeOK, RecordingsAreTrue, FinishedIsIndexed,
     RecoveredIsComplete, RecoveredIsNamed, OneRecordingPerRequest, ExecutionsInOrder,
     OpenIsIndexed, RequestsInOrder, CopiesAreSettled, Settled, Running
<1> QED
  BY <1>2, <1>3, <1>4, <1>5, <1>6, <1>7 DEF CaptureNext

(* The capture root begins empty.                                          *)
LEMMA CaptureBegins ==
  ASSUME CaptureInit
  PROVE  CaptureInv
<1>1. /\ disk = <<>> /\ jobs = <<>> /\ active = 0 /\ publisher = FALSE /\ scanning = FALSE
      /\ recorder = NoWorker /\ request = NoRequest /\ session = [run |-> 0, active |-> FALSE]
  BY DEF CaptureInit
<1>2. /\ NoRequest \in Requests /\ NoWorker \in Recorders /\ NoWorker.exec = 0
      /\ NoWorker.run = 0 /\ NoWorker.last = 0 /\ NoWorker.accepted = NoRequest
      /\ NoWorker.open = FALSE
      /\ NoRequest.id = 0 /\ NoRequest.exec = 0 /\ NoRequest.recording = FALSE
  BY DEF NoRequest, NoWorker, Requests, Recorders
<1>3. CaptureTypeOK
  <2>1. disk \in Seq(Directories) /\ jobs \in Seq(Reports) /\ active \in 0 .. Len(jobs)
    BY <1>1
  <2>2. publisher \in BOOLEAN /\ scanning \in BOOLEAN
    BY <1>1, Zenon
  <2>3. session \in [run : Nat, active : BOOLEAN]
    BY <1>1
  <2> QED
    BY <1>1, <1>2, <2>1, <2>2, <2>3 DEF CaptureTypeOK, Recorders
<1>4. RecordingsAreTrue
  BY <1>1 DEF RecordingsAreTrue, FinishedIsIndexed, RecoveredIsComplete, RecoveredIsNamed,
     OneRecordingPerRequest
<1>5. ExecutionsInOrder /\ OpenIsIndexed /\ RequestsInOrder /\ CopiesAreSettled
  BY <1>1, <1>2 DEF ExecutionsInOrder, OpenIsIndexed, RequestsInOrder, CopiesAreSettled
<1> QED
  BY <1>3, <1>4, <1>5 DEF CaptureInv

(* The invariant of the capture root, whoever writes into it, fails or is  *)
(* killed.                                                                 *)
THEOREM CaptureCorrect == CaptureSpec => []CaptureInv
<1>1. CaptureInit => CaptureInv
  BY CaptureBegins
<1>2. CaptureInv /\ [CaptureNext]_captureVars => CaptureInv'
  BY CaptureStep
<1> QED
  BY <1>1, <1>2, PTL DEF CaptureSpec

(* RecordingsAreTrue: a finished or recovered recording is what it says it *)
(* is, and a request begins at most one, in the execution it was for.      *)
THEOREM RecordingsStayTrue == CaptureSpec => []RecordingsAreTrue
<1>1. CaptureInv => RecordingsAreTrue
  BY DEF CaptureInv
<1> QED
  BY <1>1, CaptureCorrect, PTL

-----------------------------------------------------------------------------
(* CaptureStore: the quota of the capture root.                            *)

(* The blocks of a root are finite in number, and each is of one directory. *)
LEMMA BlocksOfRoot ==
  ASSUME NEW root \in Seq(Directories)
  PROVE  /\ IsFiniteSet(BlocksOf(root))
         /\ \A b : b \in BlocksOf(root) <=>
               \E n \in DOMAIN root : \E k \in 1 .. Blocks(root[n]) : b = <<n, k>>
         /\ \A n \in DOMAIN root : Blocks(root[n]) \in Nat
<1> DEFINE of == [n \in DOMAIN root |-> {n} \X (1 .. Blocks(root[n]))]
           all == {{n} \X (1 .. Blocks(root[n])) : n \in DOMAIN root}
<1>1. \A n \in DOMAIN root : Blocks(root[n]) \in Nat
  <2>1. \A n \in DOMAIN root : root[n] \in Directories
    OBVIOUS
  <2> QED
    BY <2>1 DEF Blocks, Directories
<1>2. IsFiniteSet(DOMAIN root)
  <2>1. DOMAIN root = 1 .. Len(root) /\ Len(root) \in Nat
    OBVIOUS
  <2> QED
    BY <2>1, FS_Interval
<1>3. of \in Surjection(DOMAIN root, all)
  BY DEF Surjection
<1>4. IsFiniteSet(all)
  BY <1>2, <1>3, FS_Surjection, Zenon
<1>5. \A s \in all : IsFiniteSet(s)
  <2>1. ASSUME NEW n \in DOMAIN root
        PROVE  IsFiniteSet({n} \X (1 .. Blocks(root[n])))
    <3>1. IsFiniteSet({n})
      BY FS_Singleton
    <3>2. IsFiniteSet(1 .. Blocks(root[n]))
      BY <1>1, FS_Interval
    <3> QED
      BY <3>1, <3>2, FS_Product
  <2> QED
    BY <2>1
<1>6. IsFiniteSet(UNION all)
  BY <1>4, <1>5, FS_UNION
<1> QED
  BY <1>1, <1>6 DEF BlocksOf

(* So what is allocated is a number.                                       *)
LEMMA AllocatedType ==
  ASSUME NEW root \in Seq(Directories)
  PROVE  Allocated(root) \in Nat
  BY BlocksOfRoot, FS_CardinalityType DEF Allocated

(* What is allocated grows by no more blocks than come in.                 *)
LEMMA AllocatedGrows ==
  ASSUME NEW root \in Seq(Directories), NEW new \in Seq(Directories),
         NEW more, IsFiniteSet(more), BlocksOf(new) \subseteq BlocksOf(root) \cup more
  PROVE  /\ Allocated(root) \in Nat /\ Allocated(new) \in Nat
         /\ Allocated(new) <= Allocated(root) + Cardinality(more)
<1>1. IsFiniteSet(BlocksOf(root)) /\ IsFiniteSet(BlocksOf(new))
  BY BlocksOfRoot
<1> DEFINE both == BlocksOf(root) \cup more
<1>2. /\ IsFiniteSet(both)
      /\ Cardinality(both) = Allocated(root) + Cardinality(more)
                             - Cardinality(BlocksOf(root) \cap more)
  BY <1>1, FS_Union DEF Allocated
<1>3. Cardinality(BlocksOf(root) \cap more) \in Nat
  BY <1>1, FS_Intersection, FS_CardinalityType
<1>4. Allocated(new) <= Cardinality(both)
  BY <1>2, FS_Subset DEF Allocated
<1>5. /\ Allocated(root) \in Nat /\ Allocated(new) \in Nat /\ Cardinality(both) \in Nat
      /\ Cardinality(more) \in Nat
  BY <1>1, <1>2, FS_CardinalityType DEF Allocated
<1> HIDE DEF both
<1> QED
  BY <1>2, <1>3, <1>4, <1>5

(* A directory that changes by at most one block.                          *)
LEMMA ChangedBlocks ==
  ASSUME NEW root \in Seq(Directories), NEW run \in DOMAIN root, NEW d \in Directories,
         NEW more \in {0, 1}, Blocks(d) <= Blocks(root[run]) + more
  PROVE  /\ Allocated(root) \in Nat
         /\ Allocated([root EXCEPT ![run] = d]) <= Allocated(root) + more
<1> DEFINE new == [root EXCEPT ![run] = d]
           k == Blocks(root[run]) + 1
           last == {<<run, k>>}
<1>1. /\ new \in Seq(Directories) /\ DOMAIN new = DOMAIN root
      /\ \A n \in DOMAIN root : new[n] = IF n = run THEN d ELSE root[n]
  OBVIOUS
<1>2. \A n \in DOMAIN root : Blocks(root[n]) \in Nat /\ Blocks(new[n]) \in Nat
  BY <1>1, BlocksOfRoot
<1>3. IsFiniteSet(last) /\ Cardinality(last) = 1
  BY FS_Singleton
<1>4. IsFiniteSet({}) /\ Cardinality({}) = 0
  BY FS_EmptySet
<1> HIDE DEF new
<1>5. ASSUME NEW b \in BlocksOf(new)
      PROVE  b \in BlocksOf(root) \/ (more = 1 /\ b = <<run, k>>)
  <2>1. PICK n \in DOMAIN new : \E j \in 1 .. Blocks(new[n]) : b = <<n, j>>
    BY <1>1, BlocksOfRoot
  <2>2. PICK j \in 1 .. Blocks(new[n]) : b = <<n, j>>
    BY <2>1
  <2>3. j \in 1 .. Blocks(root[n]) \/ (more = 1 /\ n = run /\ j = k)
    BY <1>1, <1>2, <2>2
  <2> QED
    BY <1>1, <2>2, <2>3, BlocksOfRoot
<1>6. CASE more = 1
  <2>1. BlocksOf(new) \subseteq BlocksOf(root) \cup last
    BY <1>5
  <2> QED
    BY <1>1, <1>3, <1>6, <2>1, AllocatedGrows DEF new
<1>7. CASE more = 0
  <2>1. BlocksOf(new) \subseteq BlocksOf(root) \cup {}
    BY <1>5, <1>7
  <2> QED
    BY <1>1, <1>4, <1>7, <2>1, AllocatedGrows DEF new
<1> QED
  BY <1>6, <1>7

(* A directory that is added.                                              *)
LEMMA AddedBlocks ==
  ASSUME NEW root \in Seq(Directories), NEW d \in Directories
  PROVE  /\ Allocated(root) \in Nat
         /\ Allocated(Append(root, d)) <= Allocated(root) + Blocks(d)
<1> DEFINE new == Append(root, d)
           l == Len(root) + 1
           more == {l} \X (1 .. Blocks(d))
<1>1. /\ new \in Seq(Directories) /\ DOMAIN new = DOMAIN root \cup {l} /\ new[l] = d
      /\ \A n \in DOMAIN root : new[n] = root[n]
  OBVIOUS
<1>2. Blocks(d) \in Nat
  BY DEF Blocks, Directories
<1>3. IsFiniteSet(more) /\ Cardinality(more) = Blocks(d)
  <2>1. IsFiniteSet({l}) /\ Cardinality({l}) = 1
    BY FS_Singleton
  <2>2. IsFiniteSet(1 .. Blocks(d)) /\ Cardinality(1 .. Blocks(d)) = Blocks(d)
    BY <1>2, FS_Interval
  <2> QED
    BY <1>2, <2>1, <2>2, FS_Product
<1> HIDE DEF new, l
<1>4. BlocksOf(new) \subseteq BlocksOf(root) \cup more
  <2> SUFFICES ASSUME NEW b \in BlocksOf(new)
               PROVE  b \in BlocksOf(root) \cup more
    OBVIOUS
  <2>1. PICK n \in DOMAIN new : \E j \in 1 .. Blocks(new[n]) : b = <<n, j>>
    BY <1>1, BlocksOfRoot
  <2>2. PICK j \in 1 .. Blocks(new[n]) : b = <<n, j>>
    BY <2>1
  <2>3. CASE n = l
    BY <1>1, <2>2, <2>3
  <2>4. CASE n # l
    BY <1>1, <2>2, <2>4, BlocksOfRoot
  <2> QED
    BY <2>3, <2>4
<1> HIDE DEF more
<1> QED
  BY <1>1, <1>3, <1>4, AllocatedGrows DEF new

(* A sample takes at most one block more, its files' order aside, and a    *)
(* manifest none.                                                          *)
LEMMA BlocksWritten ==
  ASSUME NEW d \in Directories
  PROVE  /\ Blocks(d) \in Nat
         /\ \A s \in Statuses : /\ Blocks(Manifest(d, s)) = Blocks(d)
                               /\ Blocks(Torn(d, s)) = Blocks(d)
                               /\ Blocks([d EXCEPT !.status = s]) = Blocks(d)
         /\ Blocks(Written(d, 0)) = Blocks(d)
         /\ \A k \in 0 .. 4 : Blocks(Written(d, k)) <= Blocks(d) + 1
         /\ \A error \in BOOLEAN : \A c \in Closed(d, error) : Blocks(c) = Blocks(d)
<1>1. Blocks(d) \in Nat /\ d.whole \in Nat /\ d.tail \in BOOLEAN
  BY DEF Blocks, Directories
<1>2. ASSUME NEW e \in Directories, NEW s \in Statuses
      PROVE  /\ Blocks(Manifest(e, s)) = Blocks(e) /\ Blocks(Torn(e, s)) = Blocks(e)
             /\ Blocks([e EXCEPT !.status = s]) = Blocks(e)
  BY DEF Manifest, Torn, Blocks, Directories
<1> DEFINE committed == [d EXCEPT !.whole = @ + 1]
           tailed == [d EXCEPT !.tail = TRUE]
<1>3. committed \in Directories /\ Blocks(committed) = Blocks(d) + 1
  <2>1. ASSUME NEW w \in Nat
        PROVE  LET e == [d EXCEPT !.whole = w]
               IN  e \in Directories /\ e.whole = w /\ e.tail = d.tail
    BY DEF Directories
  <2>2. d.whole + 1 \in Nat
    BY <1>1
  <2>3. committed \in Directories /\ committed.whole = d.whole + 1 /\ committed.tail = d.tail
    BY <2>1, <2>2
  <2> HIDE DEF committed
  <2> QED
    BY <1>1, <2>3 DEF Blocks
<1>4. Blocks(tailed) <= Blocks(d) + 1
  <2>1. tailed.whole = d.whole /\ tailed.tail = TRUE
    BY DEF Directories
  <2> HIDE DEF tailed
  <2> QED
    BY <1>1, <2>1 DEF Blocks
<1>5. /\ Written(d, 0) = d
      /\ Written(d, 1) = tailed
      /\ Written(d, 2) = committed
      /\ Written(d, 3) = Torn(committed, "recording")
      /\ Written(d, 4) = Manifest(committed, "recording")
  BY DEF Written
<1> HIDE DEF committed, tailed
<1>6. ASSUME NEW k \in 0 .. 4
      PROVE  Blocks(Written(d, k)) <= Blocks(d) + 1
  <2>1. "recording" \in Statuses
    BY DEF Statuses
  <2>2. /\ Blocks(Torn(committed, "recording")) = Blocks(d) + 1
        /\ Blocks(Manifest(committed, "recording")) = Blocks(d) + 1
    BY <1>2, <1>3, <2>1
  <2>3. /\ Blocks(Written(d, 0)) <= Blocks(d) + 1 /\ Blocks(Written(d, 1)) <= Blocks(d) + 1
        /\ Blocks(Written(d, 2)) <= Blocks(d) + 1 /\ Blocks(Written(d, 3)) <= Blocks(d) + 1
        /\ Blocks(Written(d, 4)) <= Blocks(d) + 1
    BY <1>1, <1>3, <1>4, <1>5, <2>2
  <2>4. k = 0 \/ k = 1 \/ k = 2 \/ k = 3 \/ k = 4
    OBVIOUS
  <2> QED
    BY <2>3, <2>4, Zenon
<1>7. ASSUME NEW error \in BOOLEAN, NEW c \in Closed(d, error)
      PROVE  Blocks(c) = Blocks(d)
  <2>1. PICK s \in {"saved_cleanup_error", IF error THEN "saved_capture_error" ELSE "saved"} :
          c = d \/ c = Manifest(d, s) \/ c = Torn(d, s)
    BY DEF Closed
  <2>2. s \in Statuses
    BY DEF Statuses, Finished
  <2> QED
    BY <1>2, <2>1, <2>2
<1> QED
  BY <1>1, <1>2, <1>5, <1>6, <1>7

(* What a close leaves is a directory.                                     *)
LEMMA ClosedTyped ==
  ASSUME NEW d \in Directories, NEW error \in BOOLEAN, NEW c \in Closed(d, error)
  PROVE  c \in Directories
<1>1. PICK s \in {"saved_cleanup_error", IF error THEN "saved_capture_error" ELSE "saved"} :
        c = d \/ c = Manifest(d, s) \/ c = Torn(d, s)
  BY DEF Closed
<1>2. s \in Statuses
  BY DEF Statuses, Finished
<1> QED
  BY <1>1, <1>2, ManifestIs

(* A published copy is as large as its job has said.                       *)
LEMMA CopyIs ==
  ASSUME CaptureInv, PublishCopy
  PROVE  Copied \in Directories /\ Blocks(Copied) = Running.copy
<1>1. /\ Running \in Reports /\ active \in Nat
  BY JobRuns, OnDisk DEF PublishCopy
<1>2. /\ Running.copy \in Nat /\ Running.source \in Nat /\ Running.seen.exec \in Nat \ {0}
  BY <1>1 DEF Reports, Directories
<1> DEFINE by == [NoRequest EXCEPT !.id = active]
           kind == IF Running.kind = "recovery" THEN "recovered" ELSE "excerpt"
           status == IF Running.kind = "recovery" THEN "saved_recovered" ELSE "saved_excerpt"
<1>3. by \in Requests
  BY <1>1 DEF NoRequest, Requests
<1>4. kind \in {"recovered", "excerpt"} /\ status \in Statuses
  BY DEF Statuses, Finished
<1>5. Copied = [kind |-> kind, source |-> Running.source, exec |-> Running.seen.exec,
                status |-> status, by |-> by, whole |-> Running.copy, tail |-> FALSE,
                count |-> Running.copy, index |-> Running.copy, cut |-> "none"]
  BY DEF Copied, Directory
<1> HIDE DEF by, kind, status
<1>6. Copied \in Directories
  BY <1>2, <1>3, <1>4, <1>5 DEF Directories
<1>7. Copied.whole = Running.copy /\ Copied.tail = FALSE
  BY <1>5
<1> QED
  BY <1>2, <1>6, <1>7 DEF Blocks

(* The head of a frame allocates nothing.                                  *)
LEMMA TurnedFits ==
  ASSUME CaptureInv, recorder.open
  PROVE  /\ Allocated(Turned.root) \in Nat /\ Allocated(disk) \in Nat
         /\ Allocated(Turned.root) <= Allocated(disk)
         /\ Turned.root \in Seq(Directories)
         /\ Turned.run # 0 =>
               Turned.run \in DOMAIN Turned.root /\ Turned.root[Turned.run] \in Directories
<1> DEFINE ended == recorder.run # 0 /\ (~Asked.recording \/ Asked.id # recorder.last)
           d == disk[recorder.run]
           old == IF ended THEN [disk EXCEPT ![recorder.run] = Manifest(@, "saved")] ELSE disk
           new == Directory("capture", 0, recorder.exec, "recording", 0, Asked)
           root == IF Begins THEN Append(old, new) ELSE old
<1>1. Turned.root = root
  BY DEF Turned, Begins
<1>2. /\ disk \in Seq(Directories) /\ Asked \in Requests /\ recorder.run \in Nat
      /\ recorder.exec \in Nat \ {0}
      /\ recorder.run # 0 => recorder.run \in DOMAIN disk /\ d \in Directories
  BY AskedIs DEF CaptureInv, CaptureTypeOK, OpenIsIndexed
<1>3. /\ old \in Seq(Directories) /\ Allocated(old) \in Nat /\ Allocated(disk) \in Nat
      /\ Allocated(old) <= Allocated(disk)
  <2>1. CASE ended
    <3> DEFINE m == Manifest(d, "saved")
    <3>1. /\ m \in Directories /\ Blocks(m) = Blocks(d) /\ Blocks(d) \in Nat
      BY <1>2, <2>1, ManifestIs, BlocksWritten DEF Statuses, Finished
    <3>2. old = [disk EXCEPT ![recorder.run] = m] /\ recorder.run \in DOMAIN disk
      BY <1>2, <2>1
    <3> HIDE DEF m, old, d
    <3>3. Blocks(m) <= Blocks(disk[recorder.run]) + 0
      BY <3>1 DEF d
    <3>4. Allocated(disk) \in Nat /\ Allocated(old) <= Allocated(disk) + 0
      BY <1>2, <3>1, <3>2, <3>3, ChangedBlocks
    <3>5. old \in Seq(Directories)
      BY <1>2, <3>1, <3>2
    <3> QED
      BY <3>4, <3>5, AddedBlocks, <3>1
  <2>2. CASE ~ended
    <3>1. old = disk
      BY <2>2
    <3> HIDE DEF old
    <3>2. Allocated(disk) \in Nat
      BY <1>2, AllocatedType
    <3> QED
      BY <1>2, <3>1, <3>2
  <2> QED
    BY <2>1, <2>2
<1>4. new \in Directories /\ Blocks(new) = 0
  BY <1>2 DEF Directory, Directories, Statuses, Finished, Blocks
<1> HIDE DEF old, new
<1>5. /\ root \in Seq(Directories) /\ Allocated(root) <= Allocated(disk)
  <2>1. CASE Begins
    <3>1. root = Append(old, new)
      BY <2>1
    <3> HIDE DEF root
    <3>2. root \in Seq(Directories)
      BY <1>3, <1>4, <3>1
    <3>3. Allocated(root) \in Nat /\ Allocated(root) <= Allocated(old) + 0
      BY <1>3, <1>4, <3>1, <3>2, AddedBlocks, AllocatedType
    <3> QED
      BY <1>3, <3>2, <3>3
  <2>2. CASE ~Begins
    BY <1>3, <2>2
  <2> QED
    BY <2>1, <2>2
<1>6. Turned.run # 0 => Turned.run \in DOMAIN Turned.root
  BY TurnedIs
<1> HIDE DEF root
<1>7. Allocated(root) \in Nat /\ \A n \in DOMAIN root : root[n] \in Directories
  BY <1>5, AllocatedType
<1> QED
  BY <1>1, <1>3, <1>5, <1>6, <1>7

(* What a worker does to the quota: nothing, or one sample that it admits  *)
(* while no publisher holds the lock.                                      *)
WorkerFits ==
  /\ Allocated(disk') \in Nat
  /\ Allocated(disk') <= Allocated(disk) \/ (~publisher /\ Allocated(disk') <= Quota)

(* The open recording of the turned root, changed.                         *)
LEMMA OpenFits ==
  ASSUME CaptureInv, recorder.open, Turned.run # 0, NEW d \in Directories, NEW more \in {0, 1},
         Blocks(d) <= Blocks(Turned.root[Turned.run]) + more,
         more = 1 => ~publisher /\ Admits(Turned.root, 1),
         disk' = [Turned.root EXCEPT ![Turned.run] = d]
  PROVE  WorkerFits
<1> DEFINE root == Turned.root
           run == Turned.run
<1>1. /\ Allocated(root) \in Nat /\ Allocated(disk) \in Nat
      /\ Allocated(root) <= Allocated(disk)
      /\ root \in Seq(Directories) /\ run \in DOMAIN root
  BY TurnedFits
<1>2. more = 1 => ~publisher /\ Allocated(root) + 1 <= Quota
  BY DEF Admits
<1> HIDE DEF root, run
<1>3. /\ disk' = [root EXCEPT ![run] = d] /\ Blocks(d) <= Blocks(root[run]) + more
  BY DEF root, run
<1>4. Allocated(disk') <= Allocated(root) + more
  BY <1>1, <1>3, ChangedBlocks
<1>5. Allocated(disk') \in Nat
  BY <1>1, <1>3, AllocatedType
<1>6. Quota \in Nat
  BY CaptureAssumption
<1> QED
  BY <1>1, <1>2, <1>4, <1>5, <1>6 DEF WorkerFits

(* A frame.                                                                *)
LEMMA FrameFits ==
  ASSUME CaptureInv, Frame
  PROVE  WorkerFits
<1> DEFINE root == Turned.root
           run == Turned.run
<1>1. /\ recorder.open
      /\ \/ disk' = root
         \/ /\ run # 0 /\ ~publisher /\ Admits(root, 1)
            /\ disk' = [root EXCEPT ![run] = Written(root[run], 4)]
         \/ run # 0 /\ disk' = [root EXCEPT ![run] = Manifest(root[run], "saved_limit")]
  BY DEF Frame, MayWrite
<1>2. /\ Allocated(root) \in Nat /\ Allocated(root) <= Allocated(disk)
      /\ run # 0 => root[run] \in Directories
  BY <1>1, TurnedFits
<1>3. CASE disk' = root
  BY <1>2, <1>3 DEF WorkerFits
<1>4. CASE /\ run # 0 /\ ~publisher /\ Admits(root, 1)
           /\ disk' = [root EXCEPT ![run] = Written(root[run], 4)]
  <2>1. PICK k \in 0 .. 4 : k = 4
    OBVIOUS
  <2>2. root[run] \in Directories
    BY <1>2, <1>4
  <2>3. Written(root[run], k) \in Directories
    BY <2>2, WrittenIs
  <2>4. Blocks(Written(root[run], k)) <= Blocks(root[run]) + 1
    BY <2>2, BlocksWritten
  <2> QED
    BY <1>1, <1>4, <2>1, <2>3, <2>4, OpenFits
<1>5. CASE run # 0 /\ disk' = [root EXCEPT ![run] = Manifest(root[run], "saved_limit")]
  <2>1. PICK s \in Statuses : s = "saved_limit"
    BY DEF Statuses, Finished
  <2>2. root[run] \in Directories
    BY <1>2, <1>5
  <2>3. Manifest(root[run], s) \in Directories
    BY <2>2, ManifestIs
  <2>4. Blocks(Manifest(root[run], s)) = Blocks(root[run]) /\ Blocks(root[run]) \in Nat
    BY <2>2, BlocksWritten
  <2>5. Blocks(Manifest(root[run], s)) <= Blocks(root[run]) + 0
    BY <2>4
  <2> QED
    BY <1>1, <1>5, <2>1, <2>3, <2>5, OpenFits
<1> QED
  BY <1>1, <1>3, <1>4, <1>5

(* A capture that is closed in the middle of a sample.                     *)
LEMMA ClosingFits ==
  ASSUME CaptureInv, recorder.open, Turned.run # 0, NEW k \in 0 .. 3, NEW error \in BOOLEAN,
         k # 0 => MayWrite(Turned),
         disk' \in Closing([Turned.root EXCEPT ![Turned.run] = Written(@, k)], Turned.run, error)
  PROVE  WorkerFits
<1> DEFINE root == Turned.root
           run == Turned.run
           e == Written(root[run], k)
           written == [root EXCEPT ![run] = e]
<1>1. /\ root \in Seq(Directories) /\ run \in DOMAIN root /\ root[run] \in Directories
      /\ root[run].status = "recording" /\ k \in 0 .. 4
      /\ k # 0 => ~publisher /\ Admits(root, 1)
  BY TurnedFits, TurnedIs DEF IsOpen, MayWrite
<1>2. /\ e \in Directories /\ Blocks(root[run]) \in Nat
      /\ Blocks(e) <= Blocks(root[run]) + 1 /\ (k = 0 => Blocks(e) = Blocks(root[run]))
  BY <1>1, WrittenIs, BlocksWritten
<1>3. disk' \in {[written EXCEPT ![run] = c] : c \in Closed(written[run], error)}
  BY Zenon DEF Closing
<1> HIDE DEF e
<1>4. written[run] = e
  BY <1>1
<1>5. PICK c \in Closed(e, error) : disk' = [written EXCEPT ![run] = c]
  BY <1>3, <1>4
<1>6. c \in Directories /\ Blocks(c) = Blocks(e)
  BY <1>2, <1>5, BlocksWritten, ClosedTyped
<1>7. disk' = [root EXCEPT ![run] = c]
  BY <1>5
<1>8. CASE k = 0
  <2>1. Blocks(c) <= Blocks(root[run]) + 0
    BY <1>2, <1>6, <1>8
  <2> QED
    BY <1>6, <1>7, <2>1, OpenFits
<1>9. CASE k # 0
  <2>1. Blocks(c) <= Blocks(root[run]) + 1
    BY <1>2, <1>6
  <2> QED
    BY <1>1, <1>6, <1>7, <1>9, <2>1, OpenFits
<1> QED
  BY <1>8, <1>9

(* One that has begun, and gets no manifest.                               *)
LEMMA BareFits ==
  ASSUME CaptureInv, recorder.open, Turned.began,
         disk' = [Turned.root EXCEPT ![Turned.run].status = "bare"]
  PROVE  WorkerFits
<1> DEFINE root == Turned.root
           run == Turned.run
           c == [root[run] EXCEPT !.status = "bare"]
<1>1. run # 0 /\ root[run] \in Directories /\ "bare" \in Statuses /\ Blocks(root[run]) \in Nat
  BY TurnedIs, TurnedFits, BlocksWritten DEF Statuses
<1>2. c \in Directories
  BY <1>1 DEF Directories
<1>3. Blocks(c) = Blocks(root[run]) /\ disk' = [root EXCEPT ![run] = c]
  BY <1>1, BlocksWritten
<1> HIDE DEF c
<1>4. Blocks(c) <= Blocks(root[run]) + 0
  BY <1>1, <1>3
<1> QED
  BY <1>1, <1>2, <1>3, <1>4, OpenFits

(* A frame that fails.                                                     *)
LEMMA FailureFits ==
  ASSUME CaptureInv, FrameFails
  PROVE  WorkerFits
<1>1. recorder.open
  BY DEF FrameFails
<1>2. \/ Turned.began /\ disk' = [Turned.root EXCEPT ![Turned.run].status = "bare"]
      \/ \E cause \in {"io", "simulator"}, k \in IF MayWrite(Turned) THEN 0 .. 3 ELSE {0} :
            disk' \in Closing(IF Turned.run = 0 THEN Turned.root
                             ELSE [Turned.root EXCEPT ![Turned.run] = Written(@, k)],
                             Turned.run, cause = "io")
  BY Zenon DEF FrameFails
<1>3. CASE Turned.began /\ disk' = [Turned.root EXCEPT ![Turned.run].status = "bare"]
  BY <1>1, <1>3, BareFits
<1>4. ASSUME NEW cause \in {"io", "simulator"},
             NEW k \in IF MayWrite(Turned) THEN 0 .. 3 ELSE {0},
             disk' \in Closing(IF Turned.run = 0 THEN Turned.root
                              ELSE [Turned.root EXCEPT ![Turned.run] = Written(@, k)],
                              Turned.run, cause = "io")
      PROVE  WorkerFits
  <2>1. CASE Turned.run = 0
    <3>1. disk' = Turned.root
      BY <1>4, <2>1 DEF Closing
    <3> QED
      BY <1>1, <3>1, TurnedFits DEF WorkerFits
  <2>2. CASE Turned.run # 0
    <3>1. k \in 0 .. 3 /\ (k # 0 => MayWrite(Turned)) /\ (cause = "io") \in BOOLEAN
      OBVIOUS
    <3>2. disk' \in Closing([Turned.root EXCEPT ![Turned.run] = Written(@, k)],
                           Turned.run, cause = "io")
      BY <1>4, <2>2
    <3> QED
      BY <1>1, <2>2, <3>1, <3>2, ClosingFits
  <2> QED
    BY <2>1, <2>2
<1> QED
  BY <1>2, <1>3, <1>4

(* A frame that a stop interrupts.                                         *)
LEMMA InterruptFits ==
  ASSUME CaptureInv, InterruptFrame
  PROVE  WorkerFits
<1> DEFINE root == Turned.root
           run == Turned.run
           d == root[run]
           final == {"saved", "saved_cleanup_error"}
           begun == {"saved", "saved_cleanup_error", "saved_capture_error"}
<1>1. recorder.open
  BY DEF InterruptFrame
<1>2. run # 0 => d \in Directories /\ d.whole \in Nat /\ Blocks(d) \in Nat
  BY <1>1, TurnedFits, BlocksWritten DEF Directories
<1>3. ASSUME NEW k \in IF MayWrite(Turned) THEN {0, 1} ELSE {0}, NEW noted \in BOOLEAN, run # 0,
             disk' \in Closing([root EXCEPT ![run] = Written(@, k)], run, noted)
      PROVE  WorkerFits
  <2>1. k \in 0 .. 3 /\ (k # 0 => MayWrite(Turned))
    OBVIOUS
  <2> QED
    BY <1>1, <1>3, <2>1, ClosingFits
<1>4. ASSUME NEW e \in Directories, NEW what \in {"begin", "sample"}, NEW s \in Statuses,
             NEW n \in Nat, NEW i \in Nat
      PROVE  /\ Miscounted(e, what, s, n, i) \in Directories
             /\ Blocks(Miscounted(e, what, s, n, i)) = Blocks(e)
  <2> DEFINE c == Miscounted(e, what, s, n, i)
  <2>1. c \in Directories /\ c.whole = e.whole /\ c.tail = e.tail
    BY <1>4 DEF Miscounted, Directories
  <2> HIDE DEF c
  <2>2. Blocks(c) = Blocks(e)
    BY <2>1 DEF Blocks
  <2> QED
    BY <2>1, <2>2 DEF c
<1>5. ASSUME MayWrite(Turned), NEW s \in final, NEW n \in {d.whole, d.whole + 1},
             NEW i \in {d.whole, d.whole + 1},
             disk' = [root EXCEPT ![run] = Miscounted(Written(d, 2), "sample", s, n, i)]
      PROVE  WorkerFits
  <2>1. PICK k \in 0 .. 4 : k = 2
    OBVIOUS
  <2> DEFINE e == Written(d, k)
             c == Miscounted(e, "sample", s, n, i)
  <2>2. run # 0 /\ ~publisher /\ Admits(root, 1)
    BY <1>5 DEF MayWrite
  <2>3. e \in Directories /\ Blocks(e) <= Blocks(d) + 1
    BY <1>2, <2>2, WrittenIs, BlocksWritten
  <2>4. s \in Statuses /\ n \in Nat /\ i \in Nat /\ "sample" \in {"begin", "sample"}
    BY <1>2, <1>5, <2>2 DEF Statuses, Finished
  <2>5. disk' = [root EXCEPT ![run] = c]
    BY <1>5, <2>1
  <2> HIDE DEF e
  <2>6. c \in Directories /\ Blocks(c) = Blocks(e)
    BY <1>4, <2>3, <2>4, Zenon
  <2> HIDE DEF c
  <2>7. Blocks(c) <= Blocks(d) + 1
    BY <2>3, <2>6
  <2> QED
    BY <1>1, <2>2, <2>5, <2>6, <2>7, OpenFits
<1>6. ASSUME Turned.began, NEW s \in begun, NEW n \in Remembered, NEW i \in Remembered,
             disk' = [root EXCEPT ![run] = Miscounted(d, "begin", s, n, i)]
      PROVE  WorkerFits
  <2> DEFINE c == Miscounted(d, "begin", s, n, i)
  <2>1. run # 0
    BY <1>1, <1>6, TurnedIs
  <2>2. s \in Statuses /\ n \in Nat /\ i \in Nat /\ "begin" \in {"begin", "sample"}
    BY RememberedIs DEF Statuses, Finished, CaptureInv
  <2>3. d \in Directories /\ Blocks(d) \in Nat
    BY <1>2, <2>1
  <2>4. c \in Directories /\ Blocks(c) = Blocks(d)
    BY <1>4, <2>2, <2>3, Zenon
  <2>5. disk' = [root EXCEPT ![run] = c]
    BY <1>6
  <2> HIDE DEF c
  <2>6. Blocks(c) <= Blocks(d) + 0
    BY <2>3, <2>4
  <2> QED
    BY <1>1, <2>1, <2>4, <2>5, <2>6, OpenFits
<1>7. \/ \E k \in IF MayWrite(Turned) THEN {0, 1} ELSE {0}, noted \in BOOLEAN :
            /\ run # 0 /\ (noted => k = 0)
            /\ disk' \in Closing([root EXCEPT ![run] = Written(@, k)], run, noted)
      \/ /\ MayWrite(Turned)
         /\ \E s \in final, n \in {d.whole, d.whole + 1}, i \in {d.whole, d.whole + 1} :
               disk' = [root EXCEPT ![run] = Miscounted(Written(d, 2), "sample", s, n, i)]
      \/ /\ Turned.began
         /\ \E s \in begun, n \in Remembered, i \in Remembered :
               disk' = [root EXCEPT ![run] = Miscounted(d, "begin", s, n, i)]
  BY Zenon DEF InterruptFrame
<1> QED
  BY <1>3, <1>5, <1>6, <1>7, Zenon

(* A worker that ends.                                                     *)
LEMMA EndFits ==
  ASSUME CaptureInv, EndWorker
  PROVE  WorkerFits
<1> DEFINE run == recorder.run
<1>1. /\ disk' \in Closing(disk, run, FALSE) /\ disk \in Seq(Directories)
      /\ run # 0 => run \in DOMAIN disk /\ disk[run] \in Directories
  <2>1. disk \in Seq(Directories) /\ (run # 0 => run \in DOMAIN disk)
    BY DEF CaptureInv, CaptureTypeOK, OpenIsIndexed
  <2>2. run # 0 => disk[run] \in Directories
    BY <2>1
  <2> QED
    BY <2>1, <2>2 DEF EndWorker
<1>2. Allocated(disk) \in Nat
  BY <1>1, AllocatedType
<1>3. CASE run = 0
  <2>1. disk' = disk
    BY <1>1, <1>3 DEF Closing
  <2> QED
    BY <1>2, <2>1 DEF WorkerFits
<1>4. CASE run # 0
  <2>1. PICK c \in Closed(disk[run], FALSE) : disk' = [disk EXCEPT ![run] = c]
    BY <1>1, <1>4 DEF Closing
  <2>2. c \in Directories /\ Blocks(c) = Blocks(disk[run]) /\ Blocks(disk[run]) \in Nat
    BY <1>1, <1>4, <2>1, BlocksWritten, ClosedTyped
  <2>3. Blocks(c) <= Blocks(disk[run]) + 0
    BY <2>2
  <2>4. Allocated(disk') <= Allocated(disk) + 0
    BY <1>1, <1>4, <2>1, <2>2, <2>3, ChangedBlocks
  <2>5. disk' \in Seq(Directories)
    BY <1>1, <1>4, <2>1, <2>2
  <2>6. Allocated(disk') \in Nat
    BY <2>5, AllocatedType
  <2> QED
    BY <1>2, <2>4, <2>6 DEF WorkerFits
<1> QED
  BY <1>3, <1>4

(* A worker that is killed.                                                *)
LEMMA KillFits ==
  ASSUME CaptureInv, KillWorker
  PROVE  WorkerFits
<1> DEFINE root == Turned.root
           run == Turned.run
<1>1. \/ disk' = disk
      \/ recorder.open /\ Turned.began /\ disk' = [root EXCEPT ![run].status = "bare"]
      \/ /\ recorder.open /\ run # 0 /\ ~publisher /\ Admits(root, 1)
         /\ \E k \in 1 .. 4 : disk' = [root EXCEPT ![run] = Written(@, k)]
  BY DEF KillWorker, MayWrite
<1>2. disk \in Seq(Directories) /\ Allocated(disk) \in Nat
  BY AllocatedType DEF CaptureInv, CaptureTypeOK
<1>3. ASSUME recorder.open
      PROVE  /\ Turned.began => run # 0
             /\ run # 0 => root[run] \in Directories /\ Blocks(root[run]) \in Nat
  BY <1>3, TurnedFits, TurnedIs, BlocksWritten
<1>4. CASE disk' = disk
  BY <1>2, <1>4 DEF WorkerFits
<1>5. CASE recorder.open /\ Turned.began /\ disk' = [root EXCEPT ![run].status = "bare"]
  BY <1>5, BareFits
<1>6. CASE /\ recorder.open /\ run # 0 /\ ~publisher /\ Admits(root, 1)
           /\ \E k \in 1 .. 4 : disk' = [root EXCEPT ![run] = Written(@, k)]
  <2>1. PICK k \in 1 .. 4 : disk' = [root EXCEPT ![run] = Written(@, k)]
    BY <1>6
  <2> DEFINE c == Written(root[run], k)
  <2>2. c \in Directories /\ Blocks(c) <= Blocks(root[run]) + 1
    <3>1. root[run] \in Directories /\ k \in 0 .. 4
      BY <1>3, <1>6
    <3> QED
      BY <3>1, WrittenIs, BlocksWritten
  <2>3. disk' = [root EXCEPT ![run] = c]
    BY <2>1
  <2> HIDE DEF c
  <2> QED
    BY <1>6, <2>2, <2>3, OpenFits
<1> QED
  BY <1>1, <1>4, <1>5, <1>6

(* The lock of a publisher keeps the worker's samples out.                 *)
LEMMA WorkerKeepsQuota ==
  ASSUME CaptureInv, QuotaInv,
         Frame \/ FrameFails \/ InterruptFrame \/ EndWorker \/ KillWorker
  PROVE  QuotaInv'
<1>1. WorkerFits /\ UNCHANGED <<jobs, active, publisher>>
  BY FrameFits, FailureFits, InterruptFits, EndFits, KillFits
     DEF Frame, FrameFails, InterruptFrame, EndWorker, KillWorker
<1>2. Allocated(disk) \in Nat /\ Quota \in Nat
  BY AllocatedType, CaptureAssumption DEF CaptureInv, CaptureTypeOK
<1>3. Allocated(disk) <= Quota /\ Allocated(disk') \in Nat
      /\ (Allocated(disk') <= Allocated(disk) \/ (~publisher /\ Allocated(disk') <= Quota))
  BY <1>1 DEF WorkerFits, QuotaInv, QuotaHolds
<1>4. Allocated(disk)' = Allocated(disk') /\ Running' = Running
  BY <1>1 DEF Running
<1>5. QuotaHolds'
  <2>1. Allocated(disk') <= Quota
    BY <1>2, <1>3
  <2> QED
    BY <2>1 DEF QuotaHolds
<1>6. ASSUME active # 0, Running.phase = "locked"
      PROVE  publisher /\ Allocated(disk') + Running.copy <= Quota
  <2>1. publisher /\ Allocated(disk) + Running.copy <= Quota
    BY <1>6 DEF QuotaInv, LockedFits
  <2>2. Running.copy \in Nat
    BY <1>6, JobRuns DEF Reports
  <2> QED
    BY <1>2, <1>3, <2>1, <2>2
<1>7. LockedFits'
  BY <1>1, <1>4, <1>6 DEF LockedFits
<1> QED
  BY <1>5, <1>7 DEF QuotaInv

(* A job publishes what it has checked under its lock.                     *)
LEMMA JobKeepsQuota ==
  ASSUME CaptureInv, QuotaInv, CopySource \/ VerifyCopy \/ LockRoot \/ PublishCopy
  PROVE  QuotaInv'
<1>1. /\ active # 0 /\ Running \in Reports /\ active' = active /\ Running.copy \in Nat
      /\ Running.candidate \in BOOLEAN
  BY JobRuns DEF CopySource, VerifyCopy, LockRoot, PublishCopy, Reports
<1>2. /\ disk \in Seq(Directories) /\ Allocated(disk) \in Nat /\ Quota \in Nat
      /\ Allocated(disk) <= Quota
  BY AllocatedType, CaptureAssumption
  DEF CaptureInv, CaptureTypeOK, QuotaInv, QuotaHolds
<1>3. CASE CopySource \/ VerifyCopy
  <2>1. disk' = disk /\ \E n \in Nat, b \in BOOLEAN : \E p \in {"copied", "verified"} :
                              Set("running", p, n, b)
    <3>1. CASE CopySource
      <4>1. /\ disk' = disk
            /\ \E n \in 1 .. disk[Running.source].whole : Set("running", "copied", n, FALSE)
        BY <3>1 DEF CopySource
      <4>2. disk[Running.source].whole \in Nat
        BY <1>1, JobRuns, OnDisk DEF JobSound, Directories
      <4>3. PICK n \in 1 .. disk[Running.source].whole, b \in BOOLEAN :
              b = FALSE /\ Set("running", "copied", n, b)
        BY <4>1
      <4>4. n \in Nat
        BY <4>2
      <4> QED
        BY <4>1, <4>3, <4>4
    <3>2. CASE VerifyCopy
      BY <1>1, <3>2 DEF VerifyCopy
    <3> QED
      BY <1>3, <3>1, <3>2
  <2>2. jobs'[active].phase \in {"copied", "verified"}
    BY <1>1, <2>1, SetIs
  <2> QED
    BY <1>1, <1>2, <2>1, <2>2 DEF QuotaInv, QuotaHolds, LockedFits, Running
<1>4. CASE LockRoot
  <2>1. /\ disk' = disk /\ publisher' = TRUE /\ Allocated(disk) + Running.copy <= Quota
        /\ Set("running", "locked", Running.copy, Running.candidate)
    BY <1>4 DEF LockRoot, Admits
  <2>2. jobs'[active].copy = Running.copy
    BY <1>1, <2>1, SetIs
  <2> QED
    BY <1>1, <1>2, <2>1, <2>2 DEF QuotaInv, QuotaHolds, LockedFits, Running
<1>5. CASE PublishCopy
  <2>1. /\ disk' = Append(disk, Copied) /\ Running.phase = "locked"
        /\ Set("running", "published", Running.copy, Running.candidate)
    BY <1>5 DEF PublishCopy
  <2>2. Copied \in Directories /\ Blocks(Copied) = Running.copy
    BY <1>5, CopyIs
  <2>3. Allocated(disk) + Running.copy <= Quota
    BY <1>1, <2>1 DEF QuotaInv, LockedFits
  <2>4. disk' \in Seq(Directories)
    BY <1>2, <2>1, <2>2
  <2>5. Allocated(disk') \in Nat /\ Allocated(disk') <= Allocated(disk) + Running.copy
    BY <1>2, <2>1, <2>2, <2>4, AddedBlocks, AllocatedType
  <2>6. Allocated(disk') <= Quota
    BY <1>1, <1>2, <2>3, <2>5
  <2>7. jobs'[active].phase = "published"
    BY <1>1, <2>1, SetIs
  <2> QED
    BY <1>1, <2>6, <2>7 DEF QuotaInv, QuotaHolds, LockedFits, Running
<1> QED
  BY <1>3, <1>4, <1>5

(* Every step keeps the quota.                                             *)
LEMMA QuotaStep ==
  ASSUME CaptureInv, QuotaInv, [CaptureNext]_captureVars
  PROVE  QuotaInv'
<1>1. CASE Frame \/ FrameFails \/ InterruptFrame \/ EndWorker \/ KillWorker
  BY <1>1, WorkerKeepsQuota
<1>2. CASE CopySource \/ VerifyCopy \/ LockRoot \/ PublishCopy
  BY <1>2, JobKeepsQuota
<1>3. CASE StartExecution \/ EndSession \/ AskRecording \/ UNCHANGED captureVars
  <2>1. UNCHANGED <<disk, jobs, active, publisher>>
    BY <1>3 DEF StartExecution, EndSession, AskRecording, captureVars
  <2> QED
    BY <2>1 DEF QuotaInv, QuotaHolds, LockedFits, Running
<1>4. CASE EndJob \/ CrashStudio \/ EndValidator
  <2>1. disk' = disk /\ active' = 0
    BY <1>4 DEF EndJob, CrashStudio, EndValidator
  <2> QED
    BY <2>1 DEF QuotaInv, QuotaHolds, LockedFits
<1>5. CASE \E kind \in {"recovery", "excerpt", "archive", "quality"}, name \in DOMAIN disk :
              StartJob(kind, name)
  <2>1. PICK kind \in {"recovery", "excerpt", "archive", "quality"}, name \in DOMAIN disk :
          StartJob(kind, name)
    BY <1>5
  <2>2. /\ disk' = disk /\ active' = Len(jobs) + 1
        /\ jobs' = Append(jobs, [kind |-> kind, source |-> name, state |-> "running",
                                 phase |-> "started", seen |-> disk[name], copy |-> 0,
                                 candidate |-> FALSE])
    BY <2>1 DEF StartJob
  <2>3. jobs'[active'].phase = "started"
    BY <2>2, OnDisk
  <2> QED
    BY <2>2, <2>3 DEF QuotaInv, QuotaHolds, LockedFits, Running
<1> QED
  BY <1>1, <1>2, <1>3, <1>4, <1>5 DEF CaptureNext

(* QuotaHolds: the capture root never exceeds its quota, whichever of the  *)
(* worker's samples and the bridge's copies come together.                 *)
THEOREM QuotaIsKept == CaptureSpec => []QuotaHolds
<1>1. CaptureInit => QuotaInv
  <2> SUFFICES ASSUME CaptureInit PROVE QuotaInv
    OBVIOUS
  <2>1. disk = <<>> /\ active = 0
    BY DEF CaptureInit
  <2>2. BlocksOf(disk) = {}
    BY <2>1 DEF BlocksOf
  <2>3. Allocated(disk) = 0
    BY <2>2, FS_EmptySet DEF Allocated
  <2> QED
    BY <2>1, <2>3, CaptureAssumption DEF QuotaInv, QuotaHolds, LockedFits
<1>2. CaptureInv /\ QuotaInv /\ [CaptureNext]_captureVars => QuotaInv'
  BY QuotaStep
<1>3. QuotaInv => QuotaHolds
  BY DEF QuotaInv
<1> QED
  BY <1>1, <1>2, <1>3, CaptureCorrect, PTL DEF CaptureSpec

-----------------------------------------------------------------------------
(* RecordedTimeline: what a replay makes of a recording.                   *)

(* A set of numbers that is not empty has a least one.                     *)
LEMMA LeastOf ==
  ASSUME NEW T, T \subseteq Nat, T # {}
  PROVE  \E m \in T : \A k \in T : m <= k
<1>1. PICK m \in T : \A k \in T : <<k, m>> \notin OpToRel(<, Nat)
  BY NatLessThanWellFounded, WFMin, Zenon
<1>2. \A k \in T : ~(k < m)
  BY <1>1 DEF OpToRel
<1> QED
  BY <1>2

(* The pass over an index is defined, sample by sample.                    *)
LEMMA PassIs ==
  ASSUME NEW index \in Seq(Sample)
  PROVE  /\ Pass(index)[0] = NoSegment
         /\ \A i \in 1 .. Len(index) : Pass(index)[i] = Passed(Pass(index)[i - 1], index[i])
<1> DEFINE upto(n, g) == g = [i \in 0 .. n |-> IF i = 0 THEN NoSegment
                                               ELSE Passed(g[i - 1], index[i])]
           undefined == {n \in 0 .. Len(index) : ~\E g : upto(n, g)}
<1>1. Len(index) \in Nat
  OBVIOUS
<1>2. undefined = {}
  <2> SUFFICES ASSUME undefined # {}
               PROVE  FALSE
    OBVIOUS
  <2>1. PICK m \in undefined : \A k \in undefined : m <= k
    <3>1. undefined \subseteq Nat
      BY <1>1
    <3> HIDE DEF undefined
    <3> QED
      BY <3>1, LeastOf
  <2>2. CASE m = 0
    <3>1. upto(0, [i \in 0 .. 0 |-> NoSegment])
      OBVIOUS
    <3> QED
      BY <2>1, <2>2, <3>1
  <2>3. CASE m # 0
    <3>1. m - 1 \in 0 .. Len(index) /\ m \in Nat /\ m <= Len(index)
      BY <1>1, <2>1, <2>3
    <3>2. \E g : upto(m - 1, g)
      <4>1. m - 1 \notin undefined
        <5> HIDE DEF undefined
        <5>1. m - 1 < m
          BY <3>1
        <5> QED
          BY <2>1, <3>1, <5>1
      <4> HIDE DEF upto
      <4> QED
        BY <3>1, <4>1
    <3>3. PICK g : upto(m - 1, g)
      BY <3>2
    <3> DEFINE h == [i \in 0 .. m |-> IF i < m THEN g[i] ELSE Passed(g[m - 1], index[m])]
    <3>4. \A i \in 0 .. m : i # 0 => h[i - 1] = g[i - 1]
      BY <2>3, <3>1
    <3>5. upto(m, h)
      <4>1. ASSUME NEW i \in 0 .. m
            PROVE  h[i] = IF i = 0 THEN NoSegment ELSE Passed(h[i - 1], index[i])
        <5>1. CASE i < m
          <6>1. i \in 0 .. m - 1 /\ h[i] = g[i]
            BY <3>1, <5>1
          <6>2. g[i] = IF i = 0 THEN NoSegment ELSE Passed(g[i - 1], index[i])
            BY <3>3, <6>1
          <6> QED
            BY <3>4, <6>1, <6>2
        <5>2. CASE i = m
          BY <2>3, <3>1, <3>4, <5>2
        <5> QED
          BY <3>1, <5>1, <5>2
      <4> QED
        BY <4>1
    <3> QED
      BY <2>1, <3>5
  <2> QED
    BY <2>2, <2>3
<1>3. \E g : upto(Len(index), g)
  BY <1>1, <1>2
<1>4. upto(Len(index), Pass(index))
  BY <1>3 DEF Pass
<1> QED
  BY <1>1, <1>4

(* What the pass has found after i samples: m segments, the j-th of them   *)
(* from lo[j] to hi[j], in their order; each is one that could not begin   *)
(* earlier nor, unless it is open, end later, and none is missing.         *)
Begun(index, a) == a = 1 \/ ~index[a - 1].brake \/ Gap(index, a - 1)
Ended(index, b) == ~index[b + 1].brake \/ Gap(index, b)
Found(index, i, m, lo, hi) ==
  /\ m \in Nat /\ lo \in [1 .. m -> 1 .. i] /\ hi \in [1 .. m -> 1 .. i]
  /\ \A j \in 1 .. m :
        /\ lo[j] <= hi[j] /\ Braking(index, lo[j], hi[j]) /\ Begun(index, lo[j])
        /\ hi[j] < i => Ended(index, hi[j])
  /\ \A j, k \in 1 .. m : j < k => hi[j] < lo[k]
  /\ \A k \in 1 .. i : index[k].brake => \E j \in 1 .. m : lo[j] <= k /\ k <= hi[j]
Segments == [start : Nat, end : Nat, count : Nat]
Longer(segment, end, count) == [segment EXCEPT !.end = end, !.count = count]
Tells(index, i, m, lo, hi) ==
  LET pass == Pass(index)[i]
  IN  /\ pass.previous = IF i = 0 THEN Nowhere ELSE index[i].frame
      /\ pass.open = (i # 0 /\ index[i].brake)
      /\ pass.open => m # 0 /\ hi[m] = i
      /\ pass.segments \in Seq(Segments)
      /\ Len(pass.segments) = m
      /\ \A j \in 1 .. m : pass.segments[j] = Segment(index, lo[j], hi[j])

(* A sample that does not brake adds nothing.                              *)
LEMMA NothingFound ==
  ASSUME NEW index \in Seq(Sample), NEW i \in Nat, i + 1 \in DOMAIN index,
         NEW m, NEW lo, NEW hi, Found(index, i, m, lo, hi), ~index[i + 1].brake
  PROVE  Found(index, i + 1, m, lo, hi)
<1>1. /\ m \in Nat /\ lo \in [1 .. m -> 1 .. i] /\ hi \in [1 .. m -> 1 .. i]
  BY DEF Found
<1>2. lo \in [1 .. m -> 1 .. i + 1] /\ hi \in [1 .. m -> 1 .. i + 1]
  BY <1>1
<1>3. ASSUME NEW j \in 1 .. m
      PROVE  /\ lo[j] <= hi[j] /\ Braking(index, lo[j], hi[j]) /\ Begun(index, lo[j])
             /\ hi[j] < i + 1 => Ended(index, hi[j])
  <2>1. hi[j] \in 1 .. i /\ (hi[j] < i \/ hi[j] = i)
    BY <1>1
  <2>2. Ended(index, i)
    BY DEF Ended
  <2> QED
    BY <2>1, <2>2 DEF Found
<1>4. \A k \in 1 .. i + 1 : index[k].brake => \E j \in 1 .. m : lo[j] <= k /\ k <= hi[j]
  <2>1. \A k \in 1 .. i + 1 : k = i + 1 \/ k \in 1 .. i
    OBVIOUS
  <2> QED
    BY <2>1 DEF Found
<1> QED
  BY <1>1, <1>2, <1>3, <1>4 DEF Found

(* One that brakes, and does not go on with an open segment, begins one.   *)
LEMMA SegmentBegun ==
  ASSUME NEW index \in Seq(Sample), NEW i \in Nat, i + 1 \in DOMAIN index,
         NEW m, NEW lo, NEW hi, Found(index, i, m, lo, hi), index[i + 1].brake,
         i # 0 /\ index[i].brake => Gap(index, i)
  PROVE  Found(index, i + 1, m + 1,
               [j \in 1 .. m + 1 |-> IF j = m + 1 THEN i + 1 ELSE lo[j]],
               [j \in 1 .. m + 1 |-> IF j = m + 1 THEN i + 1 ELSE hi[j]])
<1> DEFINE l == [j \in 1 .. m + 1 |-> IF j = m + 1 THEN i + 1 ELSE lo[j]]
           h == [j \in 1 .. m + 1 |-> IF j = m + 1 THEN i + 1 ELSE hi[j]]
<1>1. /\ m \in Nat /\ lo \in [1 .. m -> 1 .. i] /\ hi \in [1 .. m -> 1 .. i]
  BY DEF Found
<1>2. /\ l \in [1 .. m + 1 -> 1 .. i + 1] /\ h \in [1 .. m + 1 -> 1 .. i + 1]
      /\ l[m + 1] = i + 1 /\ h[m + 1] = i + 1
      /\ \A j \in 1 .. m : j \in 1 .. m + 1 /\ l[j] = lo[j] /\ h[j] = hi[j]
  BY <1>1
<1> HIDE DEF l, h
<1>3. \A j \in 1 .. m + 1 : j = m + 1 \/ j \in 1 .. m
  BY <1>1
<1>4. ASSUME NEW j \in 1 .. m + 1
      PROVE  /\ l[j] <= h[j] /\ Braking(index, l[j], h[j]) /\ Begun(index, l[j])
             /\ h[j] < i + 1 => Ended(index, h[j])
  <2>1. CASE j = m + 1
    <3>1. Braking(index, i + 1, i + 1)
      BY DEF Braking
    <3>2. Begun(index, i + 1)
      <4>1. (i + 1) - 1 = i
        OBVIOUS
      <4> QED
        BY <4>1 DEF Begun
    <3> QED
      BY <1>2, <2>1, <3>1, <3>2
  <2>2. CASE j \in 1 .. m
    <3>1. hi[j] \in 1 .. i /\ (hi[j] < i \/ hi[j] = i)
      BY <1>1, <2>2
    <3>2. hi[j] = i => Ended(index, i)
      <4>1. lo[j] \in 1 .. i /\ lo[j] <= hi[j] /\ Braking(index, lo[j], hi[j])
        BY <1>1, <2>2 DEF Found
      <4>2. hi[j] = i => index[i].brake
        BY <3>1, <4>1 DEF Braking
      <4> QED
        BY <3>1, <4>2 DEF Ended
    <3> QED
      BY <1>2, <2>2, <3>1, <3>2 DEF Found
  <2> QED
    BY <1>3, <2>1, <2>2
<1>5. \A j, k \in 1 .. m + 1 : j < k => h[j] < l[k]
  <2> SUFFICES ASSUME NEW j \in 1 .. m + 1, NEW k \in 1 .. m + 1, j < k
               PROVE  h[j] < l[k]
    OBVIOUS
  <2>1. j \in 1 .. m
    BY <1>1
  <2>2. CASE k = m + 1
    BY <1>1, <1>2, <2>1, <2>2
  <2>3. CASE k \in 1 .. m
    BY <1>2, <2>1, <2>3 DEF Found
  <2> QED
    BY <1>3, <2>2, <2>3
<1>6. ASSUME NEW k \in 1 .. i + 1, index[k].brake
      PROVE  \E j \in 1 .. m + 1 : l[j] <= k /\ k <= h[j]
  <2>1. CASE k = i + 1
    <3>1. m + 1 \in 1 .. m + 1
      BY <1>1
    <3> QED
      BY <1>2, <2>1, <3>1
  <2>2. CASE k # i + 1
    <3>1. k \in 1 .. i
      BY <2>2
    <3>2. PICK j \in 1 .. m : lo[j] <= k /\ k <= hi[j]
      BY <1>6, <3>1 DEF Found
    <3> QED
      BY <1>2, <3>2
  <2> QED
    BY <2>1, <2>2
<1>7. m + 1 \in Nat
  BY <1>1
<1>8. Found(index, i + 1, m + 1, l, h)
  BY <1>2, <1>4, <1>5, <1>6, <1>7 DEF Found
<1> QED
  BY <1>8 DEF l, h

(* One that goes on with the open segment lengthens it.                    *)
LEMMA SegmentGoesOn ==
  ASSUME NEW index \in Seq(Sample), NEW i \in Nat, i + 1 \in DOMAIN index,
         NEW m, NEW lo, NEW hi, Found(index, i, m, lo, hi), index[i + 1].brake,
         m # 0, hi[m] = i, ~Gap(index, i)
  PROVE  Found(index, i + 1, m, lo, [hi EXCEPT ![m] = i + 1])
<1> DEFINE h == [hi EXCEPT ![m] = i + 1]
<1>1. /\ m \in Nat \ {0} /\ lo \in [1 .. m -> 1 .. i] /\ hi \in [1 .. m -> 1 .. i]
  BY DEF Found
<1>2. /\ lo \in [1 .. m -> 1 .. i + 1] /\ h \in [1 .. m -> 1 .. i + 1] /\ h[m] = i + 1
      /\ \A j \in 1 .. m : j # m => h[j] = hi[j]
  BY <1>1
<1> HIDE DEF h
<1>3. ASSUME NEW j \in 1 .. m
      PROVE  /\ lo[j] <= h[j] /\ Braking(index, lo[j], h[j]) /\ Begun(index, lo[j])
             /\ h[j] < i + 1 => Ended(index, h[j])
  <2>1. CASE j = m
    <3>1. lo[m] \in 1 .. i /\ lo[m] <= i /\ Braking(index, lo[m], i) /\ Begun(index, lo[m])
      BY <1>1, <2>1 DEF Found
    <3>2. Braking(index, lo[m], i + 1)
      <4>1. \A k \in lo[m] .. i + 1 : k = i + 1 \/ k \in lo[m] .. i
        BY <3>1
      <4>2. \A k \in lo[m] .. (i + 1) - 1 : k = i \/ k \in lo[m] .. i - 1
        BY <3>1
      <4> QED
        BY <3>1, <4>1, <4>2 DEF Braking
    <3> QED
      BY <1>2, <2>1, <3>1, <3>2
  <2>2. CASE j # m
    <3>1. hi[j] < lo[m] /\ m \in 1 .. m /\ j < m
      BY <1>1, <2>2 DEF Found
    <3>2. hi[j] \in 1 .. i /\ lo[m] \in 1 .. i
      BY <1>1, <3>1
    <3>3. hi[j] < i
      BY <3>1, <3>2
    <3> QED
      BY <1>2, <2>2, <3>3 DEF Found
  <2> QED
    BY <2>1, <2>2
<1>4. \A j, k \in 1 .. m : j < k => h[j] < lo[k]
  <2> SUFFICES ASSUME NEW j \in 1 .. m, NEW k \in 1 .. m, j < k
               PROVE  h[j] < lo[k]
    OBVIOUS
  <2>1. h[j] = hi[j]
    BY <1>1, <1>2
  <2> QED
    BY <2>1 DEF Found
<1>5. ASSUME NEW k \in 1 .. i + 1, index[k].brake
      PROVE  \E j \in 1 .. m : lo[j] <= k /\ k <= h[j]
  <2>1. CASE k = i + 1
    <3>1. m \in 1 .. m /\ lo[m] \in 1 .. i
      BY <1>1
    <3>2. lo[m] <= k /\ k <= h[m]
      BY <1>2, <2>1, <3>1
    <3> QED
      BY <3>1, <3>2
  <2>2. CASE k # i + 1
    <3>1. k \in 1 .. i
      BY <2>2
    <3>2. PICK j \in 1 .. m : lo[j] <= k /\ k <= hi[j]
      BY <1>5, <3>1 DEF Found
    <3>3. k <= h[j]
      <4>1. CASE j = m
        BY <1>2, <4>1
      <4>2. CASE j # m
        BY <1>2, <3>2, <4>2
      <4> QED
        BY <4>1, <4>2
    <3> QED
      BY <3>2, <3>3
  <2> QED
    BY <2>1, <2>2
<1>6. Found(index, i + 1, m, lo, h)
  BY <1>1, <1>2, <1>3, <1>4, <1>5 DEF Found
<1> QED
  BY <1>6 DEF h

(* A segment that is lengthened.                                           *)
LEMMA LongerIs ==
  /\ \A s \in Segments : s = [start |-> s.start, end |-> s.end, count |-> s.count]
  /\ \A s \in Segments, e \in Nat, c \in Nat :
        /\ Longer(s, e, c) \in Segments /\ Longer(s, e, c).start = s.start
        /\ Longer(s, e, c).end = e /\ Longer(s, e, c).count = c
<1>1. ASSUME NEW s \in Segments
      PROVE  s = [start |-> s.start, end |-> s.end, count |-> s.count]
  BY DEF Segments
<1>2. ASSUME NEW s \in Segments, NEW e \in Nat, NEW c \in Nat
      PROVE  /\ Longer(s, e, c) \in Segments /\ Longer(s, e, c).start = s.start
             /\ Longer(s, e, c).end = e /\ Longer(s, e, c).count = c
  BY DEF Segments, Longer
<1> QED
  BY <1>1, <1>2

(* What the pass says of the next sample is what it has found.             *)
LEMMA PassTells ==
  ASSUME NEW index \in Seq(Sample), NEW i \in Nat, i + 1 \in DOMAIN index,
         \E m, lo, hi : Found(index, i, m, lo, hi) /\ Tells(index, i, m, lo, hi)
  PROVE  \E m, lo, hi : Found(index, i + 1, m, lo, hi) /\ Tells(index, i + 1, m, lo, hi)
<1>1. PICK m, lo, hi : Found(index, i, m, lo, hi) /\ Tells(index, i, m, lo, hi)
  OBVIOUS
<1> DEFINE pass == Pass(index)[i]
           next == Pass(index)[i + 1]
           sample == index[i + 1]
           open == pass.open /\ Joins(pass.previous, sample)
           done == pass.segments
           one == [start |-> sample.frame, end |-> sample.frame, count |-> 1]
           more == [done EXCEPT ![Len(done)].end = sample.frame, ![Len(done)].count = @ + 1]
           segments == CASE ~sample.brake -> done
                         [] sample.brake /\ ~open -> Append(done, one)
                         [] sample.brake /\ open -> more
<1>2. next = Passed(pass, sample)
  <2>1. Len(index) \in Nat /\ i + 1 \in 1 .. Len(index) /\ (i + 1) - 1 = i
    OBVIOUS
  <2> QED
    BY <2>1, PassIs
<1>3. /\ next.previous = sample.frame /\ next.open = sample.brake
      /\ next.segments = segments
  BY <1>2 DEF Passed
<1>4. /\ sample \in Sample /\ sample.frame \in Nat /\ sample.brake \in BOOLEAN
      /\ i # 0 => index[i] \in Sample /\ index[i].frame \in Nat /\ i \in DOMAIN index
  <2>1. sample \in Sample
    OBVIOUS
  <2>2. i # 0 => i \in DOMAIN index /\ index[i] \in Sample
    OBVIOUS
  <2> QED
    BY <2>1, <2>2 DEF Sample
<1>5. /\ pass.previous = IF i = 0 THEN Nowhere ELSE index[i].frame
      /\ pass.open = (i # 0 /\ index[i].brake) /\ (pass.open => m # 0 /\ hi[m] = i)
      /\ done \in Seq(Segments) /\ Len(done) = m
      /\ \A j \in 1 .. m : done[j] = Segment(index, lo[j], hi[j])
  BY <1>1 DEF Tells
<1>6. open <=> i # 0 /\ index[i].brake /\ ~Gap(index, i)
  <2>1. pass.open <=> (i # 0 /\ index[i].brake)
    BY <1>5, Zenon
  <2>2. i # 0 => (Joins(pass.previous, sample) <=> ~Gap(index, i))
    <3>1. i # 0 => pass.previous = index[i].frame /\ index[i].frame # Nowhere
      BY <1>4, <1>5 DEF Nowhere
    <3> HIDE DEF pass
    <3> QED
      BY <1>4, <3>1 DEF Joins, Gap
  <2> QED
    BY <2>1, <2>2
<1>7. /\ m \in Nat /\ lo \in [1 .. m -> 1 .. i] /\ hi \in [1 .. m -> 1 .. i]
      /\ \A j \in 1 .. m : lo[j] <= hi[j]
  BY <1>1 DEF Found
<1> HIDE DEF segments, open, next, pass
<1>8. ASSUME NEW n, NEW l, NEW h, Found(index, i + 1, n, l, h),
             segments \in Seq(Segments), Len(segments) = n,
             \A j \in 1 .. n : segments[j] = Segment(index, l[j], h[j]),
             sample.brake => n # 0 /\ h[n] = i + 1
      PROVE  \E mm, ll, hh : Found(index, i + 1, mm, ll, hh) /\ Tells(index, i + 1, mm, ll, hh)
  <2>1. Tells(index, i + 1, n, l, h)
    <3>1. i + 1 # 0
      OBVIOUS
    <3>2. Pass(index)[i + 1].previous = IF i + 1 = 0 THEN Nowhere ELSE index[i + 1].frame
      BY <1>3, <3>1 DEF next
    <3>3. Pass(index)[i + 1].open = (i + 1 # 0 /\ index[i + 1].brake)
      BY <1>3, <1>4, <3>1, Zenon DEF next
    <3>4. Pass(index)[i + 1].open => n # 0 /\ h[n] = i + 1
      BY <1>8, <3>3
    <3>5. Pass(index)[i + 1].segments = segments
      BY <1>3 DEF next
    <3> QED
      BY <1>8, <3>2, <3>3, <3>4, <3>5 DEF Tells
  <2> QED
    BY <1>8, <2>1
<1>9. CASE ~sample.brake
  <2>1. segments = done
    BY <1>9 DEF segments
  <2>2. Found(index, i + 1, m, lo, hi)
    BY <1>1, <1>9, NothingFound
  <2> QED
    BY <1>5, <1>8, <1>9, <2>1, <2>2
<1>10. CASE sample.brake /\ ~open
  <2> DEFINE l == [j \in 1 .. m + 1 |-> IF j = m + 1 THEN i + 1 ELSE lo[j]]
             h == [j \in 1 .. m + 1 |-> IF j = m + 1 THEN i + 1 ELSE hi[j]]
  <2>1. segments = Append(done, one)
    BY <1>10 DEF segments
  <2>2. Found(index, i + 1, m + 1, l, h)
    BY <1>1, <1>6, <1>10, SegmentBegun
  <2>3. one \in Segments
    BY <1>4 DEF Segments
  <2>4. /\ segments \in Seq(Segments) /\ Len(segments) = m + 1 /\ segments[m + 1] = one
        /\ \A j \in 1 .. m : segments[j] = done[j]
    <3> HIDE DEF done, one
    <3> QED
      BY <1>5, <2>1, <2>3
  <2>5. l[m + 1] = i + 1 /\ h[m + 1] = i + 1
    BY <1>7
  <2>6. ASSUME NEW j \in 1 .. m + 1
        PROVE  segments[j] = Segment(index, l[j], h[j])
    <3>1. CASE j = m + 1
      <4>1. (i + 1) - (i + 1) + 1 = 1
        OBVIOUS
      <4> QED
        BY <2>4, <2>5, <3>1, <4>1 DEF Segment
    <3>2. CASE j # m + 1
      <4>1. j \in 1 .. m /\ l[j] = lo[j] /\ h[j] = hi[j]
        BY <1>7, <3>2
      <4> QED
        BY <1>5, <2>4, <4>1
    <3> QED
      BY <3>1, <3>2
  <2>7. m + 1 # 0
    BY <1>7
  <2> HIDE DEF l, h
  <2> QED
    BY <1>8, <2>2, <2>4, <2>5, <2>6, <2>7
<1>11. CASE sample.brake /\ open
  <2> DEFINE h == [hi EXCEPT ![m] = i + 1]
  <2>1. segments = more
    BY <1>11 DEF segments
  <2>2. /\ i # 0 /\ ~Gap(index, i) /\ pass.open /\ m # 0 /\ hi[m] = i
    BY <1>5, <1>6, <1>11 DEF open
  <2>3. Found(index, i + 1, m, lo, h)
    BY <1>1, <1>11, <2>2, SegmentGoesOn
  <2>4. /\ m \in 1 .. m /\ lo[m] \in 1 .. i /\ h[m] = i + 1
        /\ \A j \in 1 .. m : j # m => h[j] = hi[j]
    BY <1>7, <2>2
  <2>5. more = [done EXCEPT ![m] = Segment(index, lo[m], i + 1)]
    <3> DEFINE last == [done[m] EXCEPT !.end = sample.frame, !.count = @ + 1]
    <3>1. done[m] = Segment(index, lo[m], i)
      BY <1>5, <2>2, <2>4
    <3>2. last = [start |-> index[lo[m]].frame, end |-> sample.frame,
                  count |-> (i - lo[m] + 1) + 1]
      <4>3. done[m].start = index[lo[m]].frame /\ done[m].count = i - lo[m] + 1
        <5> HIDE DEF done
        <5> QED
          BY <3>1 DEF Segment
      <4>4. done[m] \in Segments
        <5> HIDE DEF done, Segments
        <5> QED
          BY <1>5, <2>4
      <4>5. PICK c \in Nat : c = (i - lo[m] + 1) + 1
        BY <2>4
      <4>6. last = Longer(done[m], sample.frame, c)
        BY <4>3, <4>5 DEF Longer
      <4>7. /\ last \in Segments /\ last.start = index[lo[m]].frame /\ last.end = sample.frame
            /\ last.count = (i - lo[m] + 1) + 1
        <5> HIDE DEF last, done, sample
        <5>1. sample.frame \in Nat
          BY <1>4
        <5>2. /\ last \in Segments /\ last.start = done[m].start
              /\ last.end = sample.frame /\ last.count = c
          BY <4>4, <4>6, <5>1, LongerIs
        <5>3. last.start = index[lo[m]].frame
          BY <4>3, <5>2, Zenon
        <5>4. last.count = (i - lo[m] + 1) + 1
          BY <4>5, <5>2, Zenon
        <5> QED
          BY <5>2, <5>3, <5>4
      <4> HIDE DEF last, done, sample
      <4> QED
        BY <4>7, LongerIs DEF Segment
    <3>3. (i - lo[m] + 1) + 1 = (i + 1) - lo[m] + 1
      BY <2>4
    <3>4. last = Segment(index, lo[m], i + 1)
      BY <3>2, <3>3 DEF Segment
    <3>5. more = [done EXCEPT ![m] = last]
      BY <1>5, <2>4
    <3> QED
      BY <3>4, <3>5
  <2>6. Segment(index, lo[m], i + 1) \in Segments
    <3>1. lo[m] \in DOMAIN index
      BY <2>4
    <3>2. index[lo[m]].frame \in Nat
      <4>1. index[lo[m]] \in Sample
        BY <3>1
      <4> QED
        BY <4>1 DEF Sample
    <3>3. (i + 1) - lo[m] + 1 \in Nat
      BY <2>4
    <3> QED
      BY <1>4, <3>2, <3>3 DEF Segment, Segments
  <2> HIDE DEF h, more, done
  <2>7. /\ segments \in Seq(Segments) /\ Len(segments) = m
        /\ segments[m] = Segment(index, lo[m], i + 1)
        /\ \A j \in 1 .. m : j # m => segments[j] = done[j]
    BY <1>5, <2>1, <2>4, <2>5, <2>6
  <2>8. \A j \in 1 .. m : segments[j] = Segment(index, lo[j], h[j])
    BY <1>5, <2>4, <2>7
  <2> QED
    BY <1>8, <2>2, <2>3, <2>4, <2>7, <2>8
<1> QED
  BY <1>4, <1>9, <1>10, <1>11

(* So after every sample.                                                  *)
LEMMA PassFinds ==
  ASSUME NEW index \in Seq(Sample)
  PROVE  \E m, lo, hi :
            Found(index, Len(index), m, lo, hi) /\ Tells(index, Len(index), m, lo, hi)
<1> DEFINE ok(i) == \E m, lo, hi : Found(index, i, m, lo, hi) /\ Tells(index, i, m, lo, hi)
           wrong == {i \in 0 .. Len(index) : ~ok(i)}
<1>1. Len(index) \in Nat /\ DOMAIN index = 1 .. Len(index)
  OBVIOUS
<1>2. ok(0)
  <2> DEFINE none == [j \in 1 .. 0 |-> 1]
  <2>1. Found(index, 0, 0, none, none)
    <3>1. none \in [1 .. 0 -> 1 .. 0]
      OBVIOUS
    <3> QED
      BY <3>1 DEF Found
  <2>2. Pass(index)[0] = NoSegment
    BY PassIs
  <2>3. Tells(index, 0, 0, none, none)
    <3>1. /\ NoSegment.previous = Nowhere /\ NoSegment.open = FALSE
          /\ NoSegment.segments = <<>>
      BY DEF NoSegment
    <3>2. /\ <<>> \in Seq(Segments)
          /\ Len(<<>>) = 0 /\ \A j \in 1 .. 0 : FALSE
      OBVIOUS
    <3>3. NoSegment.open = (0 # 0 /\ index[0].brake)
      BY <3>1
    <3> HIDE DEF none
    <3> QED
      BY <2>2, <3>1, <3>2, <3>3 DEF Tells
  <2> QED
    BY <2>1, <2>3
<1>3. ASSUME NEW i \in Nat, i + 1 <= Len(index), ok(i)
      PROVE  ok(i + 1)
  <2>1. i + 1 \in DOMAIN index
    BY <1>1, <1>3
  <2> QED
    BY <1>3, <2>1, PassTells
<1> HIDE DEF ok
<1>4. wrong = {}
  <2> SUFFICES ASSUME wrong # {}
               PROVE  FALSE
    OBVIOUS
  <2>1. wrong \subseteq Nat
    BY <1>1
  <2>2. PICK m \in wrong : \A k \in wrong : m <= k
    <3> HIDE DEF wrong
    <3> QED
      BY <2>1, LeastOf
  <2>3. m \in Nat /\ m <= Len(index) /\ ~ok(m) /\ m # 0
    BY <1>1, <1>2, <2>2
  <2>4. m - 1 \in Nat /\ (m - 1) + 1 = m /\ m - 1 \in 0 .. Len(index) /\ m - 1 < m
    BY <1>1, <2>3
  <2>5. m - 1 \notin wrong
    <3> HIDE DEF wrong
    <3> QED
      BY <2>2, <2>3, <2>4
  <2>6. ok(m - 1)
    BY <2>4, <2>5
  <2>7. ok((m - 1) + 1)
    BY <1>3, <2>3, <2>4, <2>6
  <2> QED
    BY <2>3, <2>4, <2>7
<1>5. ok(Len(index))
  <2>1. Len(index) \in 0 .. Len(index)
    BY <1>1
  <2> QED
    BY <1>4, <2>1
<1> QED
  BY <1>5 DEF ok

(* Two longest runs that share a sample are the same.                      *)
LEMMA RunsApart ==
  ASSUME NEW index \in Seq(Sample), NEW n, n = Len(index), NEW k \in 1 .. n,
         NEW a \in 1 .. n, NEW b \in 1 .. n, a <= k, k <= b, Braking(index, a, b),
         Begun(index, a), b < n => Ended(index, b),
         NEW c \in 1 .. n, NEW d \in 1 .. n, c <= k, k <= d, Braking(index, c, d),
         Begun(index, c), d < n => Ended(index, d)
  PROVE  a = c /\ b = d
<1>1. n \in Nat
  OBVIOUS
<1>2. ASSUME NEW e \in 1 .. n, NEW f \in 1 .. n, e <= k, k <= f, Braking(index, e, f),
             NEW g \in 1 .. n, e < g, g <= k, Begun(index, g)
      PROVE  FALSE
  <2>1. g - 1 \in e .. f - 1 /\ g - 1 \in e .. f /\ g # 1
    BY <1>1, <1>2
  <2>2. index[g - 1].brake /\ ~Gap(index, g - 1)
    BY <1>2, <2>1 DEF Braking
  <2> QED
    BY <1>2, <2>1, <2>2 DEF Begun
<1>3. ASSUME NEW e \in 1 .. n, NEW f \in 1 .. n, e <= k, k <= f, Braking(index, e, f),
             NEW g \in 1 .. n, g < f, k <= g, g < n => Ended(index, g)
      PROVE  FALSE
  <2>1. g + 1 \in e .. f /\ g \in e .. f - 1 /\ g < n
    BY <1>1, <1>3
  <2>2. index[g + 1].brake /\ ~Gap(index, g)
    BY <1>3, <2>1 DEF Braking
  <2> QED
    BY <1>3, <2>1, <2>2 DEF Ended
<1>4. ~(a < c) /\ ~(c < a)
  BY <1>2
<1>5. ~(b < d) /\ ~(d < b)
  BY <1>3
<1> QED
  BY <1>4, <1>5

(* What could neither begin earlier nor end later is a longest run, and a  *)
(* longest run is that.                                                    *)
LEMMA LongestAre ==
  ASSUME NEW index \in Seq(Sample), NEW n, n = Len(index),
         NEW a \in 1 .. n, NEW b \in 1 .. n
  PROVE  <<a, b>> \in LongestRuns(index) <=>
            /\ a <= b /\ Braking(index, a, b) /\ Begun(index, a)
            /\ b < n => Ended(index, b)
<1>1. n \in Nat
  OBVIOUS
<1>2. <<a, b>> \in LongestRuns(index) <=>
        /\ a <= b /\ Braking(index, a, b)
        /\ a > 1 => ~Braking(index, a - 1, b)
        /\ b < n => ~Braking(index, a, b + 1)
  BY DEF LongestRuns
<1>3. ASSUME a <= b, Braking(index, a, b), a > 1
      PROVE  ~Braking(index, a - 1, b) <=> Begun(index, a)
  <2>1. \A k \in a - 1 .. b : k = a - 1 \/ k \in a .. b
    BY <1>1
  <2>2. \A k \in a - 1 .. b - 1 : k = a - 1 \/ k \in a .. b - 1
    BY <1>1
  <2>3. a - 1 \in a - 1 .. b /\ a - 1 \in a - 1 .. b - 1
    BY <1>1, <1>3
  <2>4. Braking(index, a - 1, b) <=> index[a - 1].brake /\ ~Gap(index, a - 1)
    BY <1>3, <2>1, <2>2, <2>3 DEF Braking
  <2> QED
    BY <1>3, <2>4 DEF Begun
<1>4. ASSUME a <= b, Braking(index, a, b), b < n
      PROVE  ~Braking(index, a, b + 1) <=> Ended(index, b)
  <2>1. \A k \in a .. b + 1 : k = b + 1 \/ k \in a .. b
    BY <1>1
  <2>2. \A k \in a .. (b + 1) - 1 : k = b \/ k \in a .. b - 1
    BY <1>1
  <2>3. b + 1 \in a .. b + 1 /\ b \in a .. (b + 1) - 1
    BY <1>1, <1>4
  <2>4. Braking(index, a, b + 1) <=> index[b + 1].brake /\ ~Gap(index, b)
    BY <1>4, <2>1, <2>2, <2>3 DEF Braking
  <2> QED
    BY <2>4 DEF Ended
<1>5. ~(a > 1) => Begun(index, a)
  BY <1>1 DEF Begun
<1> QED
  BY <1>2, <1>3, <1>4, <1>5

(* The segments of any index are its longest runs.                         *)
LEMMA SegmentsAre ==
  ASSUME NEW index \in Seq(Sample), Rising(index)
  PROVE  SegmentsAreMaximal(index)
<1> DEFINE n == Len(index)
           found == BrakeSegments(index)
           longest == LongestRuns(index)
<1>1. PICK m, lo, hi : Found(index, n, m, lo, hi) /\ Tells(index, n, m, lo, hi)
  BY PassFinds
<1>2. n \in Nat /\ DOMAIN index = 1 .. n
  OBVIOUS
<1>3. /\ m \in Nat /\ lo \in [1 .. m -> 1 .. n] /\ hi \in [1 .. m -> 1 .. n]
      /\ \A j \in 1 .. m :
            /\ lo[j] <= hi[j] /\ Braking(index, lo[j], hi[j]) /\ Begun(index, lo[j])
            /\ hi[j] < n => Ended(index, hi[j])
      /\ \A j, k \in 1 .. m : j < k => hi[j] < lo[k]
      /\ \A k \in 1 .. n : index[k].brake => \E j \in 1 .. m : lo[j] <= k /\ k <= hi[j]
  BY <1>1 DEF Found
<1>4. /\ found \in Seq(Segments) /\ Len(found) = m
      /\ \A j \in 1 .. m : found[j] = Segment(index, lo[j], hi[j])
  BY <1>1 DEF Tells, BrakeSegments
<1> DEFINE at == [j \in 1 .. m |-> <<lo[j], hi[j]>>]
<1> HIDE DEF found
<1>5. \A ab \in longest : ab = <<ab[1], ab[2]>> /\ ab[1] \in 1 .. n /\ ab[2] \in 1 .. n
  BY DEF LongestRuns
<1> HIDE DEF longest, n
<1>6. ASSUME NEW j \in 1 .. m
      PROVE  at[j] \in longest
  <2>1. lo[j] \in 1 .. n /\ hi[j] \in 1 .. n
    BY <1>3
  <2> QED
    BY <1>3, <2>1, LongestAre DEF longest, n
<1>7. ASSUME NEW ab \in longest
      PROVE  \E j \in 1 .. m : at[j] = ab
  <2>1. PICK a \in 1 .. n, b \in 1 .. n : ab = <<a, b>>
    BY <1>5
  <2>2. /\ a <= b /\ Braking(index, a, b) /\ Begun(index, a)
        /\ b < n => Ended(index, b)
    BY <2>1, LongestAre DEF longest, n
  <2>3. index[a].brake
    BY <1>2, <2>2 DEF Braking
  <2>4. PICK j \in 1 .. m : lo[j] <= a /\ a <= hi[j]
    BY <1>3, <2>3
  <2>5. lo[j] \in 1 .. n /\ hi[j] \in 1 .. n
    BY <1>3
  <2>6. a = lo[j] /\ b = hi[j]
    <3>1. n = Len(index) /\ a <= a
      BY <1>2 DEF n
    <3> QED
      BY <1>3, <2>2, <2>4, <2>5, <3>1, RunsApart
  <2> QED
    BY <2>1, <2>6
<1>8. at \in Bijection(1 .. m, longest)
  <2>1. ASSUME NEW j \in 1 .. m, NEW k \in 1 .. m, at[j] = at[k]
        PROVE  j = k
    <3>1. lo[j] = lo[k] /\ lo[j] <= hi[j] /\ lo[k] <= hi[k] /\ hi[j] = hi[k]
      BY <1>3, <2>1
    <3>2. ASSUME NEW x \in 1 .. m, NEW y \in 1 .. m, x < y, lo[x] = lo[y], lo[x] <= hi[x]
          PROVE  FALSE
      <4>1. hi[x] < lo[y] /\ hi[x] \in 1 .. n /\ lo[y] \in 1 .. n
        BY <1>3, <3>2
      <4> QED
        BY <1>2, <3>2, <4>1
    <3>3. ~(j < k) /\ ~(k < j)
      BY <3>1, <3>2
    <3> QED
      BY <1>3, <3>3
  <2>2. at \in [1 .. m -> longest]
    BY <1>6
  <2>3. IsInjective(at)
    BY <2>1 DEF IsInjective
  <2> QED
    BY <1>7, <2>1, <2>2, <2>3 DEF Bijection, Injection, Surjection
<1>9. Cardinality(longest) = m
  <2>1. IsFiniteSet(1 .. m) /\ Cardinality(1 .. m) = m
    BY <1>3, FS_Interval
  <2>2. ExistsBijection(1 .. m, longest)
    BY <1>8 DEF ExistsBijection
  <2> QED
    BY <2>1, <2>2, FS_Bijection
<1>10. ToSet(found) = {Segment(index, ab[1], ab[2]) : ab \in longest}
  <2>1. ToSet(found) = {found[j] : j \in 1 .. m}
    BY <1>4 DEF ToSet
  <2>2. \A j \in 1 .. m : found[j] = Segment(index, at[j][1], at[j][2])
    BY <1>4
  <2> HIDE DEF at
  <2> QED
    BY <1>6, <1>7, <2>1, <2>2
<1>11. Ordered(index)
  BY <1>2 DEF Ordered, Rising, n
<1> QED
  BY <1>4, <1>9, <1>10, <1>11 DEF SegmentsAreMaximal, found, longest

(* What bisect_left and bisect_right find: the samples before a frame are  *)
(* the first ones.                                                         *)
LEMMA BisectLeft ==
  ASSUME NEW index \in Seq(Sample), Rising(index), NEW frame \in Int
  PROVE  /\ LeftOf(index, frame) \in 0 .. Len(index)
         /\ \A i \in DOMAIN index : i <= LeftOf(index, frame) <=> index[i].frame < frame
<1> DEFINE n == Len(index)
           early == {i \in DOMAIN index : index[i].frame < frame}
           late == {i \in DOMAIN index : ~(index[i].frame < frame)}
<1>1. n \in Nat /\ DOMAIN index = 1 .. n /\ \A i \in 1 .. n : index[i].frame \in Nat
  <2>1. n \in Nat /\ DOMAIN index = 1 .. n /\ \A i \in 1 .. n : index[i] \in Sample
    OBVIOUS
  <2> QED
    BY <2>1 DEF Sample
<1> HIDE DEF n
<1>2. \E k \in 0 .. n : \A i \in 1 .. n : i <= k <=> index[i].frame < frame
  <2>1. CASE late = {}
    <3>1. \A i \in 1 .. n : i <= n /\ index[i].frame < frame
      BY <1>1, <2>1
    <3>2. n \in 0 .. n
      BY <1>1
    <3> QED
      BY <3>1, <3>2
  <2>2. CASE late # {}
    <3>1. late \subseteq Nat
      BY <1>1
    <3>2. PICK m \in late : \A i \in late : m <= i
      <4> HIDE DEF late
      <4> QED
        BY <2>2, <3>1, LeastOf
    <3>3. m \in 1 .. n /\ ~(index[m].frame < frame)
      BY <1>1, <3>2
    <3>4. ASSUME NEW i \in 1 .. n
          PROVE  i <= m - 1 <=> index[i].frame < frame
      <4>1. ~(index[i].frame < frame) => m <= i
        BY <1>1, <3>2
      <4>2. m < i => ~(index[i].frame < frame)
        BY <1>1, <3>3 DEF Rising
      <4> QED
        BY <1>1, <3>3, <4>1, <4>2
    <3>5. m - 1 \in 0 .. n
      BY <1>1, <3>3
    <3> QED
      BY <3>4, <3>5
  <2> QED
    BY <2>1, <2>2
<1>3. PICK k \in 0 .. n : \A i \in 1 .. n : i <= k <=> index[i].frame < frame
  BY <1>2
<1>4. early = 1 .. k
  BY <1>1, <1>3
<1>5. Cardinality(early) = k
  <2>1. Cardinality(1 .. k) = k
    BY <1>1, <1>3, FS_Interval
  <2> QED
    BY <1>4, <2>1
<1> QED
  BY <1>1, <1>3, <1>5 DEF LeftOf, n

(* So are the samples up to a frame.                                       *)
LEMMA BisectRight ==
  ASSUME NEW index \in Seq(Sample), Rising(index), NEW frame \in Int
  PROVE  /\ RightOf(index, frame) \in 0 .. Len(index)
         /\ \A i \in DOMAIN index : i <= RightOf(index, frame) <=> index[i].frame <= frame
<1>1. \A i \in DOMAIN index : index[i].frame \in Int
  <2>1. \A i \in DOMAIN index : index[i] \in Sample
    OBVIOUS
  <2> QED
    BY <2>1 DEF Sample
<1>2. \A i \in DOMAIN index : index[i].frame <= frame <=> index[i].frame < frame + 1
  BY <1>1
<1>3. RightOf(index, frame) = LeftOf(index, frame + 1)
  <2>1. {i \in DOMAIN index : index[i].frame <= frame} =
          {i \in DOMAIN index : index[i].frame < frame + 1}
    BY <1>2
  <2> QED
    BY <2>1 DEF RightOf, LeftOf
<1>4. PICK next \in Int : next = frame + 1
  OBVIOUS
<1>5. /\ LeftOf(index, next) \in 0 .. Len(index)
      /\ \A i \in DOMAIN index : i <= LeftOf(index, next) <=> index[i].frame < next
  BY BisectLeft
<1> QED
  BY <1>2, <1>3, <1>4, <1>5

(* No sample is nearer to a collision than the one it is replayed with.    *)
LEMMA NearestIs ==
  ASSUME NEW index \in Seq(Sample), Rising(index), NEW frame \in Nat
  PROVE  CollisionIsNearest(index, frame)
<1> DEFINE n == Len(index)
           k == LeftOf(index, frame)
           before == index[k].frame
           after == index[k + 1].frame
           found == ReplayFrame(index, frame)
<1> SUFFICES ASSUME index # <<>>
             PROVE  /\ \E i \in DOMAIN index : index[i].frame = found
                    /\ \A i \in DOMAIN index :
                          Distance(found, frame) <= Distance(index[i].frame, frame)
  BY DEF CollisionIsNearest
<1>1. n \in Nat \ {0} /\ DOMAIN index = 1 .. n /\ \A i \in 1 .. n : index[i].frame \in Nat
  <2>1. n \in Nat \ {0} /\ DOMAIN index = 1 .. n /\ \A i \in 1 .. n : index[i] \in Sample
    OBVIOUS
  <2> QED
    BY <2>1 DEF Sample
<1>2. k \in 0 .. n /\ \A i \in 1 .. n : i <= k <=> index[i].frame < frame
  <2>1. frame \in Int
    OBVIOUS
  <2>2. /\ LeftOf(index, frame) \in 0 .. Len(index)
        /\ \A i \in DOMAIN index : i <= LeftOf(index, frame) <=> index[i].frame < frame
    BY <2>1, BisectLeft
  <2> QED
    BY <1>1, <2>2
<1>3. \A i, j \in 1 .. n : i < j => index[i].frame < index[j].frame
  BY <1>1 DEF Rising
<1>4. /\ k = 0 => found = after
      /\ k > 0 /\ k = n => found = before
      /\ k > 0 /\ k < n => found = IF frame - before <= after - frame THEN before ELSE after
  BY <1>1, <1>2 DEF ReplayFrame
<1> HIDE DEF n, k, found
<1>5. k # 0 => /\ k \in 1 .. n /\ before \in Nat /\ before < frame
               /\ \A i \in 1 .. n : i <= k => index[i].frame <= before
  <2>1. k # 0 => k \in 1 .. n
    BY <1>1, <1>2
  <2>2. k # 0 => \A i \in 1 .. n : i <= k => index[i].frame <= before
    <3>1. \A i \in 1 .. n : i <= k => i = k \/ i < k
      BY <1>1, <1>2
    <3> QED
      BY <1>1, <1>3, <2>1, <3>1
  <2> QED
    BY <1>1, <1>2, <2>1, <2>2
<1>6. k # n => /\ k + 1 \in 1 .. n /\ after \in Nat /\ frame <= after
               /\ \A i \in 1 .. n : ~(i <= k) => after <= index[i].frame
  <2>1. k # n => k + 1 \in 1 .. n /\ ~(k + 1 <= k)
    BY <1>1, <1>2
  <2>2. k # n => \A i \in 1 .. n : ~(i <= k) => after <= index[i].frame
    <3>1. \A i \in 1 .. n : ~(i <= k) => i = k + 1 \/ k + 1 < i
      BY <1>1, <1>2
    <3> QED
      BY <1>1, <1>3, <2>1, <3>1
  <2> QED
    BY <1>1, <1>2, <2>1, <2>2
<1>7. \A i \in 1 .. n : i <= k \/ frame <= index[i].frame
  BY <1>1, <1>2
<1> HIDE DEF before, after
<1>8. CASE k = 0
  <2>1. found = after /\ k # n
    BY <1>1, <1>4, <1>8
  <2>2. \A i \in 1 .. n : after <= index[i].frame
    BY <1>6, <1>8, <2>1
  <2>3. \E i \in 1 .. n : index[i].frame = found
    BY <1>6, <2>1 DEF after
  <2> QED
    BY <1>1, <1>6, <2>1, <2>2, <2>3 DEF Distance
<1>9. CASE k # 0 /\ k = n
  <2>1. found = before
    BY <1>1, <1>4, <1>9
  <2>2. \A i \in 1 .. n : index[i].frame <= before
    BY <1>1, <1>5, <1>9
  <2>3. \E i \in 1 .. n : index[i].frame = found
    BY <1>5, <1>9, <2>1 DEF before
  <2> QED
    BY <1>1, <1>5, <1>9, <2>1, <2>2, <2>3 DEF Distance
<1>10. CASE k # 0 /\ k # n
  <2>1. found = IF frame - before <= after - frame THEN before ELSE after
    BY <1>1, <1>2, <1>4, <1>10
  <2>2. \A i \in 1 .. n : index[i].frame <= before \/ after <= index[i].frame
    BY <1>5, <1>6, <1>10
  <2>3. \E i \in 1 .. n : index[i].frame = found
    BY <1>5, <1>6, <1>10, <2>1 DEF before, after
  <2>4. before \in Nat /\ after \in Nat /\ before < frame /\ frame <= after
    BY <1>5, <1>6, <1>10
  <2>5. ASSUME NEW i \in 1 .. n
        PROVE  Distance(found, frame) <= Distance(index[i].frame, frame)
    BY <1>1, <2>1, <2>2, <2>4 DEF Distance
  <2> QED
    BY <1>1, <2>3, <2>5
<1> QED
  BY <1>8, <1>9, <1>10

(* The sample that an edit with a certain outcome is shown with.           *)
LEMMA SeekIs ==
  ASSUME NEW index \in Seq(Sample), Rising(index), NEW command \in Audit
  PROVE  LET k == RightOf(index, command.before)
         IN  /\ command.before \in Nat /\ k \in 0 .. Len(index)
             /\ \A i \in DOMAIN index :
                   /\ index[i].frame \in Nat
                   /\ i <= k <=> index[i].frame <= command.before
             /\ IF Certain(command) /\ k < Len(index)
                THEN /\ SeekFrame(index, command) = index[k + 1].frame
                     /\ k + 1 \in DOMAIN index
                     /\ SeekFrame(index, command) \in Nat
                     /\ SeekFrame(index, command) > command.before
                ELSE SeekFrame(index, command) = Nowhere
<1> DEFINE k == RightOf(index, command.before)
<1>1. command.before \in Nat
  BY DEF Audit
<1>2. k \in 0 .. Len(index) /\ \A i \in DOMAIN index : i <= k <=> index[i].frame <= command.before
  BY <1>1, BisectRight
<1>3. \A i \in DOMAIN index : index[i].frame \in Nat
  <2>1. \A i \in DOMAIN index : index[i] \in Sample
    OBVIOUS
  <2> QED
    BY <2>1 DEF Sample
<1>4. SeekFrame(index, command) =
         IF Certain(command) /\ k < Len(index) THEN index[k + 1].frame ELSE Nowhere
  BY DEF SeekFrame
<1> HIDE DEF k
<1>5. k < Len(index) => k + 1 \in DOMAIN index /\ ~(k + 1 <= k)
  BY <1>2
<1>6. k < Len(index) => index[k + 1].frame > command.before
  BY <1>1, <1>2, <1>3, <1>5
<1> QED
  BY <1>1, <1>2, <1>3, <1>4, <1>5, <1>6 DEF k

(* It shows the edit, and no earlier one does.                             *)
LEMMA ShownIs ==
  ASSUME NEW index \in Seq(Sample), Rising(index), NEW command \in Audit, ShowsNext(command)
  PROVE  EditIsShown(index, command)
<1> DEFINE k == RightOf(index, command.before)
           seek == SeekFrame(index, command)
<1> SUFFICES ASSUME seek # Nowhere
             PROVE  /\ command.shows \in 0 .. seek
                    /\ \A i \in DOMAIN index :
                          index[i].frame < seek => index[i].frame < command.shows
                    /\ Relation(index, command) = "before_recording" <=>
                          command.before < index[1].frame
  BY DEF EditIsShown
<1>1. /\ command.before \in Nat /\ k \in 0 .. Len(index)
      /\ \A i \in DOMAIN index :
            index[i].frame \in Nat /\ (i <= k <=> index[i].frame <= command.before)
      /\ Certain(command) /\ k < Len(index) /\ seek = index[k + 1].frame
      /\ k + 1 \in DOMAIN index /\ seek \in Nat /\ seek > command.before
  BY SeekIs
<1>2. command.shows = command.before + 1
  BY <1>1 DEF ShowsNext
<1>3. Len(index) \in Nat /\ DOMAIN index = 1 .. Len(index)
  OBVIOUS
<1>4. Relation(index, command) = IF k = 0 THEN "before_recording" ELSE "within_recording"
  BY DEF Relation
<1> HIDE DEF k, seek
<1>5. command.shows \in 0 .. seek
  BY <1>1, <1>2
<1>6. ASSUME NEW i \in DOMAIN index, index[i].frame < seek
      PROVE  index[i].frame < command.shows
  <2>1. ~(k + 1 < i)
    BY <1>1, <1>6 DEF Rising
  <2>2. i # k + 1
    BY <1>1, <1>6
  <2>3. i <= k
    BY <1>1, <1>3, <2>1, <2>2
  <2> QED
    BY <1>1, <1>2, <2>3
<1>7. k = 0 <=> command.before < index[1].frame
  <2>1. 1 \in DOMAIN index
    BY <1>1, <1>3
  <2>2. 1 <= k <=> index[1].frame <= command.before
    BY <1>1, <2>1
  <2> QED
    BY <1>1, <2>1, <2>2
<1> QED
  BY <1>4, <1>5, <1>6, <1>7

(* An excerpt is an index of its own, of samples in a row.                 *)
LEMMA ExcerptIs ==
  ASSUME samples \in Seq(Sample), Rising(samples), NEW index \in Excerpts
  PROVE  /\ index \in Seq(Sample) /\ Rising(index) /\ Len(index) > 0
         /\ \E a \in 1 .. Len(samples) :
              /\ a + Len(index) - 1 <= Len(samples)
              /\ \A i \in 1 .. Len(index) : index[i] = samples[a + i - 1]
<1>1. PICK a \in 1 .. Len(samples) : \E b \in 1 .. Len(samples) :
        index = SubSeq(samples, a, b) /\ index # <<>>
  BY DEF Excerpts
<1>2. PICK b \in 1 .. Len(samples) : index = SubSeq(samples, a, b) /\ index # <<>>
  BY <1>1
<1>3. Len(samples) \in Nat /\ DOMAIN samples = 1 .. Len(samples)
  OBVIOUS
<1>4. a <= b
  BY <1>2, <1>3
<1>5. /\ Len(index) = b - a + 1 /\ index \in Seq(Sample) /\ DOMAIN index = 1 .. Len(index)
      /\ \A i \in 1 .. Len(index) : index[i] = samples[a + i - 1]
  BY <1>2, <1>3, <1>4, SubSeqProperties
<1>6. Rising(index)
  <2> SUFFICES ASSUME NEW i \in DOMAIN index, NEW j \in DOMAIN index, i < j
               PROVE  index[i].frame < index[j].frame
    BY DEF Rising
  <2>1. /\ a + i - 1 \in DOMAIN samples /\ a + j - 1 \in DOMAIN samples
        /\ a + i - 1 < a + j - 1
    BY <1>3, <1>4, <1>5
  <2>2. samples[a + i - 1].frame < samples[a + j - 1].frame
    BY <2>1 DEF Rising
  <2> QED
    BY <1>5, <2>2
<1>7. Len(index) > 0 /\ a + Len(index) - 1 <= Len(samples)
  BY <1>3, <1>4, <1>5
<1> QED
  BY <1>5, <1>6, <1>7

(* An edit that an excerpt keeps is shown there as in the recording, or    *)
(* not at all.                                                             *)
LEMMA KeptIs ==
  ASSUME samples \in Seq(Sample), Rising(samples), NEW index \in Excerpts,
         NEW command \in Audit, KeptEdit(index, command)
  PROVE  SeekFrame(index, command) \in {Nowhere, SeekFrame(samples, command)}
<1> DEFINE n == Len(samples)
           l == Len(index)
           k == RightOf(samples, command.before)
           p == RightOf(index, command.before)
           seek == SeekFrame(samples, command)
           here == SeekFrame(index, command)
<1> SUFFICES ASSUME here # Nowhere
             PROVE  here = seek
  OBVIOUS
<1>1. /\ index \in Seq(Sample) /\ Rising(index) /\ l > 0
      /\ n \in Nat /\ l \in Nat /\ DOMAIN samples = 1 .. n /\ DOMAIN index = 1 .. l
  BY ExcerptIs
<1>2. PICK a \in 1 .. n :
        a + l - 1 <= n /\ \A i \in 1 .. l : index[i] = samples[a + i - 1]
  BY ExcerptIs
<1>3. /\ command.before \in Nat /\ p \in 0 .. l
      /\ \A i \in DOMAIN index :
            index[i].frame \in Nat /\ (i <= p <=> index[i].frame <= command.before)
      /\ Certain(command) /\ p < l /\ here = index[p + 1].frame /\ here > command.before
  BY <1>1, SeekIs
<1>4. /\ k \in 0 .. n
      /\ \A i \in DOMAIN samples :
            samples[i].frame \in Nat /\ (i <= k <=> samples[i].frame <= command.before)
      /\ k < n => seek = samples[k + 1].frame
  BY <1>3, SeekIs
<1> HIDE DEF n, l, k, p, seek, here
<1>5. p + 1 \in 1 .. l /\ a + (p + 1) - 1 = a + p /\ a + p \in 1 .. n
  BY <1>1, <1>2, <1>3
<1>6. here = samples[a + p].frame
  BY <1>2, <1>3, <1>5
<1>7. ~(a + p <= k)
  BY <1>1, <1>3, <1>4, <1>5, <1>6
<1>8. k < n /\ k + 1 \in 1 .. n /\ seek = samples[k + 1].frame
  BY <1>1, <1>4, <1>5, <1>7
<1>9. a + p <= k + 1
  <2>1. CASE p # 0
    <3>1. p \in 1 .. l /\ a + p - 1 \in 1 .. n
      BY <1>1, <1>2, <1>3, <1>5, <2>1
    <3>2. index[p].frame <= command.before /\ index[p] = samples[a + p - 1]
      BY <1>1, <1>2, <1>3, <3>1
    <3>3. a + p - 1 <= k
      BY <1>1, <1>4, <3>1, <3>2
    <3> QED
      BY <1>4, <1>3, <3>3
  <2>2. CASE p = 0
    <3>1. index[1] = samples[a] /\ 1 \in 1 .. l /\ a + 1 - 1 = a
      BY <1>1, <1>2
    <3>2. CASE Within(index, command.before)
      <4>1. index[1].frame <= command.before
        BY <3>2 DEF Within
      <4>2. 1 <= p
        BY <1>1, <1>3, <3>1, <4>1
      <4> QED
        BY <2>2, <4>2
    <3>3. CASE \E i \in DOMAIN index : index[i].frame = seek
      <4>1. PICK i \in 1 .. l : index[i].frame = seek
        BY <1>1, <3>3
      <4>2. a + i - 1 \in 1 .. n /\ a + i - 1 >= a
        BY <1>1, <1>2
      <4>3. samples[a + i - 1].frame = samples[k + 1].frame
        BY <1>2, <1>8, <4>1
      <4>4. a + i - 1 = k + 1
        <5>1. /\ ~(a + i - 1 < k + 1) /\ ~(k + 1 < a + i - 1)
          BY <1>1, <1>4, <1>8, <4>2, <4>3 DEF Rising
        <5> QED
          BY <1>4, <4>2, <5>1
      <4> QED
        BY <1>4, <2>2, <4>2, <4>4
    <3> QED
      BY <3>2, <3>3 DEF KeptEdit, seek
  <2> QED
    BY <2>1, <2>2
<1>10. a + p = k + 1
  BY <1>1, <1>3, <1>4, <1>5, <1>7, <1>9
<1> QED
  BY <1>6, <1>8, <1>10

(* So the timeline is true of any recording that the invariant describes.  *)
LEMMA TimelineFollows ==
  ASSUME TimelineInv
  PROVE  TimelineIsTrue
<1>1. /\ samples \in Seq(Sample) /\ Rising(samples) /\ contacts \subseteq Nat
      /\ \A i \in DOMAIN commands : commands[i] \in Audit /\ ShowsNext(commands[i])
  BY DEF TimelineInv, TimelineTypeOK, SamplesInOrder
<1>2. ASSUME NEW index \in Seq(Sample), Rising(index)
      PROVE  /\ SegmentsAreMaximal(index)
             /\ \A frame \in contacts : CollisionIsNearest(index, frame)
             /\ \A i \in DOMAIN commands : EditIsShown(index, commands[i])
  BY <1>1, <1>2, SegmentsAre, NearestIs, ShownIs
<1>3. ASSUME NEW index \in Excerpts
      PROVE  /\ SegmentsAreMaximal(index)
             /\ \A frame \in contacts : CollisionIsNearest(index, frame)
             /\ \A i \in DOMAIN commands : KeptEdit(index, commands[i]) =>
                   /\ EditIsShown(index, commands[i])
                   /\ SeekFrame(index, commands[i]) \in {Nowhere, SeekFrame(samples, commands[i])}
  <2>1. index \in Seq(Sample) /\ Rising(index)
    BY <1>1, ExcerptIs
  <2> QED
    BY <1>1, <1>2, <2>1, KeptIs
<1> QED
  BY <1>1, <1>2, <1>3 DEF TimelineIsTrue

(* A recording grows in the order of its frames.                           *)
LEMMA TimelineStep ==
  ASSUME TimelineInv, [TimelineNext]_timelineVars
  PROVE  TimelineInv'
<1>1. /\ now \in Nat /\ sequence \in Nat /\ samples \in Seq(Sample) /\ commands \in Seq(Audit)
      /\ contacts \subseteq Nat /\ Rising(samples)
      /\ \A i \in DOMAIN samples : samples[i].frame \in 1 .. now
      /\ \A i \in DOMAIN commands : ShowsNext(commands[i])
  BY DEF TimelineInv, TimelineTypeOK, SamplesInOrder
<1>2. CASE AdvanceFrame
  <2> DEFINE grown(brake) == samples' = Append(samples, [frame |-> now + 1, brake |-> brake])
  <2>1. /\ now' = now + 1 /\ sequence' = sequence + 1 /\ UNCHANGED <<commands, contacts>>
        /\ \/ samples' = samples
           \/ \E brake \in BOOLEAN : grown(brake)
    BY <1>2 DEF AdvanceFrame
  <2>2. samples' \in Seq(Sample) /\ SamplesInOrder'
    <3>1. CASE samples' = samples
      BY <1>1, <2>1, <3>1 DEF SamplesInOrder, Rising
    <3>2. CASE \E brake \in BOOLEAN : grown(brake)
      <4>1. PICK brake \in BOOLEAN : grown(brake)
        BY <3>2
      <4> DEFINE s == [frame |-> now + 1, brake |-> brake]
                 l == Len(samples) + 1
      <4>2. s \in Sample /\ s.frame = now + 1
        BY <1>1 DEF Sample
      <4>3. samples' = Append(samples, s)
        BY <4>1
      <4> HIDE DEF s
      <4>4. /\ samples' \in Seq(Sample) /\ DOMAIN samples' = DOMAIN samples \cup {l}
            /\ DOMAIN samples' = 1 .. l /\ l \in Nat
            /\ samples'[l] = s /\ \A i \in DOMAIN samples : i < l /\ samples'[i] = samples[i]
        BY <1>1, <4>2, <4>3
      <4> HIDE DEF l
      <4>5. \A i \in DOMAIN samples' : samples'[i].frame \in 1 .. now'
        BY <1>1, <2>1, <4>2, <4>4
      <4>6. Rising(samples')
        <5> SUFFICES ASSUME NEW i \in DOMAIN samples', NEW j \in DOMAIN samples', i < j
                     PROVE  samples'[i].frame < samples'[j].frame
          BY DEF Rising
        <5>1. i \in DOMAIN samples /\ samples'[i] = samples[i] /\ samples[i].frame \in 1 .. now
          BY <1>1, <4>4
        <5>2. CASE j = l
          BY <1>1, <4>2, <4>4, <5>1, <5>2
        <5>3. CASE j # l
          BY <1>1, <4>4, <5>1, <5>3 DEF Rising
        <5> QED
          BY <5>2, <5>3
      <4> QED
        BY <4>4, <4>5, <4>6 DEF SamplesInOrder, Rising
    <3> QED
      BY <2>1, <3>1, <3>2
  <2>3. TimelineTypeOK'
    BY <1>1, <2>1, <2>2 DEF TimelineTypeOK
  <2> QED
    BY <1>1, <2>1, <2>2, <2>3 DEF TimelineInv
<1>3. CASE Contact
  <2>1. contacts' = contacts \cup {now} /\ UNCHANGED <<now, sequence, samples, commands>>
    BY <1>3 DEF Contact
  <2> QED
    BY <1>1, <2>1 DEF TimelineInv, TimelineTypeOK, SamplesInOrder, Rising
<1>4. CASE AuditEdit
  <2>1. PICK after \in {now, now + 1}, answer \in {"none", "refused", "ok"},
             shows \in {Nowhere, now + 1, now + 2} :
          /\ now' = after /\ UNCHANGED <<sequence, samples, contacts>>
          /\ answer = "ok" => shows # Nowhere
          /\ shows = now + 2 => after = now + 1
          /\ commands' = Append(commands, [before |-> now, after |-> after, answer |-> answer,
                                           shows |-> shows])
    BY <1>4 DEF AuditEdit
  <2> DEFINE c == [before |-> now, after |-> after, answer |-> answer, shows |-> shows]
             l == Len(commands) + 1
  <2>2. c \in Audit
    BY <1>1, <2>1 DEF Audit, Nowhere
  <2>3. ShowsNext(c)
    BY <1>1, <2>1 DEF ShowsNext, Certain
  <2>4. commands' = Append(commands, c)
    BY <2>1
  <2> HIDE DEF c
  <2>5. /\ commands' \in Seq(Audit) /\ DOMAIN commands' = DOMAIN commands \cup {l}
        /\ commands'[l] = c /\ \A i \in DOMAIN commands : commands'[i] = commands[i]
    BY <1>1, <2>2, <2>4
  <2> HIDE DEF l
  <2>6. \A i \in DOMAIN commands' : ShowsNext(commands'[i])
    BY <1>1, <2>3, <2>5
  <2>7. now' \in Nat /\ now <= now'
    BY <1>1, <2>1
  <2>8. TimelineTypeOK'
    BY <1>1, <2>1, <2>5, <2>7 DEF TimelineTypeOK
  <2>9. SamplesInOrder'
    BY <1>1, <2>1, <2>7 DEF SamplesInOrder, Rising
  <2> QED
    BY <2>6, <2>8, <2>9 DEF TimelineInv
<1>5. CASE UNCHANGED timelineVars
  BY <1>1, <1>5 DEF timelineVars, TimelineInv, TimelineTypeOK, SamplesInOrder, Rising
<1> QED
  BY <1>2, <1>3, <1>4, <1>5 DEF TimelineNext

(* The samples, the edits and the collisions of a recording are in order.  *)
THEOREM TimelineCorrect == TimelineSpec => []TimelineInv
<1>1. TimelineInit => TimelineInv
  BY DEF TimelineInit, TimelineInv, TimelineTypeOK, SamplesInOrder, Rising
<1>2. TimelineInv /\ [TimelineNext]_timelineVars => TimelineInv'
  BY TimelineStep
<1> QED
  BY <1>1, <1>2, PTL DEF TimelineSpec

(* TimelineIsTrue: braking segments, collisions and edits are replayed     *)
(* where they were, in a recording and in each excerpt of it, however many *)
(* samples it misses.                                                      *)
THEOREM ReplayIsTrue == TimelineSpec => []TimelineIsTrue
<1>1. TimelineInv => TimelineIsTrue
  BY TimelineFollows
<1> QED
  BY <1>1, TimelineCorrect, PTL
==============================================================================
