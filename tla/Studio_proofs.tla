----------------------------- MODULE Studio_proofs -----------------------------
(***************************************************************************)
(* Machine-checked: what MCStudio shows of driving by hand, of reviewed    *)
(* plans, of the histories of an actor and its textures, and of the        *)
(* editor's objects for a few pages, calls, plans, edits and worlds holds  *)
(* for any number of each.  The inductive invariants are ManualInv         *)
(* (ManualDriving), PlanInv (PlanReview), PositionInv (PositionHistory),   *)
(* MaterialInv (MaterialHistory) and EditorInv (SceneEditor).              *)
(***************************************************************************)
EXTENDS ManualDriving, PlanReview, EditHistories, SceneEditor, FiniteSetTheorems,
        SequenceTheorems, TLAPS

-----------------------------------------------------------------------------
(* ManualDriving: the pages, their calls, and the command on disk.         *)

(* Nobody drives yet.                                                      *)
LEMMA ManualInitInv == ManualInit => ManualInv
  BY ManualAssumption DEF ManualInit, ManualInv, DriveTypeOK, HeldIsPast, CommandWasWanted,
     DeadManHolds, Drives

(* When an execution was last wanted only moves forward, up to now.        *)
LEMMA HeldGrows ==
  ASSUME DriveTypeOK, HeldIsPast, NEW time \in Nat, clock <= time,
         NEW pages, NEW under, Note(time, pages, under)
  PROVE  /\ held' \in [Drives -> Nat]
         /\ \A d \in Drives : held[d] <= held'[d] /\ held'[d] <= time
  BY DEF Note, DriveTypeOK, HeldIsPast

(* What the worker applied, and what is on disk, is left alone, while time *)
(* or what is wanted moves on.                                             *)
LEMMA NothingIsDriven ==
  ASSUME ManualInv, NEW time \in Nat, clock <= time, clock' = time,
         NEW pages, NEW under, Note(time, pages, under), UNCHANGED <<drive, command, wheel>>
  PROVE  ManualInv'
<1>1. /\ held' \in [Drives -> Nat]
      /\ \A d \in Drives : held[d] <= held'[d] /\ held'[d] <= time
  BY HeldGrows DEF ManualInv
<1>2. DriveTypeOK' /\ HeldIsPast'
  BY <1>1 DEF ManualInv, DriveTypeOK, HeldIsPast
<1>3. held[command.drive] <= held'[command.drive] /\ held[wheel.drive] <= held'[wheel.drive]
  BY <1>1 DEF ManualInv, DriveTypeOK
<1>4. /\ held[command.drive] \in Nat /\ held'[command.drive] \in Nat /\ command.at \in Nat
      /\ held[wheel.drive] \in Nat /\ held'[wheel.drive] \in Nat /\ wheel.at \in Nat
  BY <1>1 DEF ManualInv, DriveTypeOK
<1>5. CommandWasWanted'
  BY <1>3, <1>4 DEF ManualInv, CommandWasWanted
<1>6. DeadManHolds'
  BY <1>3, <1>4, ManualAssumption DEF ManualInv, DeadManHolds
<1> QED
  BY <1>2, <1>5, <1>6 DEF ManualInv

(* The same for steps of a page.                                           *)
LEMMA PageStep ==
  ASSUME ManualInv, NEW pages, NEW under, To(pages, under),
         UNCHANGED <<clock, drive, command, wheel>>
  PROVE  ManualInv'
<1>1. clock \in Nat
  BY DEF ManualInv, DriveTypeOK
<1> QED
  BY <1>1, NothingIsDriven DEF To

(* An execution begins with the brake.                                     *)
LEMMA StartStep == ManualInv /\ StartDrive => ManualInv'
<1> SUFFICES ASSUME ManualInv, StartDrive PROVE ManualInv'
  OBVIOUS
<1>1. drive.run + 1 \in Drives
  BY ManualAssumption DEF ManualInv, DriveTypeOK, Drives, StartDrive
<1>2. DriveTypeOK'
  BY <1>1 DEF ManualInv, DriveTypeOK, StartDrive
<1> QED
  BY <1>2 DEF ManualInv, HeldIsPast, CommandWasWanted, DeadManHolds, StartDrive

(* The execution is told to stop, or ends.                                 *)
LEMMA StopStep == ManualInv /\ StopDrive => ManualInv'
  BY DEF ManualInv, DriveTypeOK, HeldIsPast, CommandWasWanted, DeadManHolds, StopDrive

(* A frame applies a command not older than the lease.                     *)
LEMMA FrameStep == ManualInv /\ DriveFrame => ManualInv'
<1> SUFFICES ASSUME ManualInv, DriveFrame PROVE ManualInv'
  OBVIOUS
<1>1. wheel' = [drive |-> drive.run, control |-> Control, at |-> clock]
  BY DEF DriveFrame
<1>2. DriveTypeOK' /\ HeldIsPast' /\ CommandWasWanted'
  BY <1>1 DEF ManualInv, DriveTypeOK, HeldIsPast, CommandWasWanted, DriveFrame
<1>3. ASSUME Control = "go" PROVE clock <= held[drive.run] + Lease
  <2>1. command.drive = drive.run /\ clock - command.at <= Lease /\ command.control = "go"
    BY <1>3 DEF Control
  <2>2. command.at <= held[drive.run]
    BY <2>1 DEF ManualInv, CommandWasWanted
  <2>3. clock \in Nat /\ command.at \in Nat /\ held[drive.run] \in Nat
    BY DEF ManualInv, DriveTypeOK
  <2> QED
    BY <2>1, <2>2, <2>3, ManualAssumption
<1>4. DeadManHolds'
  BY <1>1, <1>3 DEF DeadManHolds, DriveFrame
<1> QED
  BY <1>2, <1>4 DEF ManualInv

(* The bridge stamps a command at a moment when the call is still wanted,  *)
(* because it is under way.                                                *)
LEMMA HandleStep ==
  ASSUME ManualInv, NEW c \in calls, Handle(c)
  PROVE  ManualInv'
<1> DEFINE accepted == drive.state = "running" /\ drive.mode = "manual" /\ drive.run = c.drive
           pages == Answered(c, IF accepted THEN "accepted" ELSE "failed")
<1>1. To(pages, calls \ {c}) /\ UNCHANGED <<clock, drive, wheel>>
  BY DEF Handle
<1>2. CASE ~accepted
  <2>1. UNCHANGED command
    BY <1>2 DEF Handle
  <2> HIDE DEF pages
  <2> QED
    BY <1>1, <2>1, PageStep
<1>3. CASE accepted
  <2>1. command' = [drive |-> c.drive, control |-> c.control, at |-> clock]
    BY <1>3 DEF Handle
  <2>2. c.drive \in Drives /\ clock \in Nat
    BY <1>3 DEF ManualInv, DriveTypeOK
  <2>3. Note(clock, pages, calls \ {c})
    BY <1>1 DEF To
  <2> HIDE DEF pages
  <2>4. /\ held' \in [Drives -> Nat]
        /\ \A d \in Drives : held[d] <= held'[d] /\ held'[d] <= clock
    BY <2>2, <2>3, HeldGrows DEF ManualInv
  <2>5. ASSUME c.control = "go" PROVE held'[c.drive] = clock
    <3>1. Wanted(c.drive, page, calls)
      BY <2>5 DEF Wanted
    <3> QED
      BY <3>1, <2>2, <2>3 DEF Note
  <2>6. DriveTypeOK' /\ HeldIsPast'
    BY <1>1, <2>1, <2>2, <2>4 DEF ManualInv, DriveTypeOK, HeldIsPast
  <2>7. CommandWasWanted'
    BY <2>1, <2>2, <2>5 DEF CommandWasWanted
  <2>8. DeadManHolds'
    <3>1. /\ held[wheel.drive] \in Nat /\ held'[wheel.drive] \in Nat /\ wheel.at \in Nat
          /\ held[wheel.drive] <= held'[wheel.drive]
      BY <2>4 DEF ManualInv, DriveTypeOK
    <3> QED
      BY <1>1, <3>1, ManualAssumption DEF ManualInv, DeadManHolds
  <2> QED
    BY <2>6, <2>7, <2>8 DEF ManualInv
<1> QED
  BY <1>2, <1>3

(* Every behaviour keeps the invariant.                                    *)
LEMMA ManualStep == ManualInv /\ [ManualNext]_manualVars => ManualInv'
<1> SUFFICES ASSUME ManualInv, [ManualNext]_manualVars PROVE ManualInv'
  OBVIOUS
<1>1. CASE TimePasses
  <2>1. clock \in Nat /\ clock' = clock + 1
    BY <1>1 DEF TimePasses, ManualInv, DriveTypeOK
  <2>2. clock + 1 \in Nat /\ clock <= clock + 1
    BY <2>1
  <2> QED
    BY <1>1, <2>1, <2>2, NothingIsDriven DEF TimePasses
<1>2. CASE StartDrive
  BY <1>2, StartStep
<1>3. CASE StopDrive
  BY <1>3, StopStep
<1>4. CASE DriveFrame
  BY <1>4, FrameStep
<1>5. ASSUME NEW p \in Pages,
             \/ OpenPanel(p) \/ HoldDown(p) \/ Release(p) \/ SendWish(p)
             \/ ClosePanel(p) \/ ReadAnswer(p) \/ CallFails(p)
      PROVE  ManualInv'
  <2>1. \E pages, under : To(pages, under) /\ UNCHANGED <<clock, drive, command, wheel>>
    BY <1>5 DEF OpenPanel, HoldDown, Release, SendWish, ClosePanel, ReadAnswer, CallFails
  <2> QED
    BY <2>1, PageStep
<1>6. ASSUME NEW c \in calls, Handle(c) PROVE ManualInv'
  BY <1>6, HandleStep
<1>7. ASSUME NEW c \in calls, LoseCall(c) PROVE ManualInv'
  <2>1. \E pages, under : To(pages, under) /\ UNCHANGED <<clock, drive, command, wheel>>
    BY <1>7 DEF LoseCall
  <2> QED
    BY <2>1, PageStep
<1>8. CASE UNCHANGED manualVars
  BY <1>8 DEF manualVars, ManualInv, DriveTypeOK, HeldIsPast, CommandWasWanted, DeadManHolds
<1> QED
  BY <1>1, <1>2, <1>3, <1>4, <1>5, <1>6, <1>7, <1>8 DEF ManualNext

(* The invariant holds in every behaviour.                                 *)
THEOREM ManualCorrect == ManualSpec => []ManualInv
  BY ManualInitInv, ManualStep, PTL DEF ManualSpec

(* A frame is driven only if somebody wanted it driven within the lease.   *)
THEOREM DeadManBrakes == ManualSpec => []DeadManHolds
<1>1. ManualInv => DeadManHolds
  BY DEF ManualInv
<1> QED
  BY <1>1, ManualCorrect, PTL

-----------------------------------------------------------------------------
(* PlanReview: what is shown, confirmed, asked for and run.                *)

(* A list of one plan is its head.                                         *)
LEMMA OneOf == ASSUME NEW plan PROVE One(<<plan>>) /\ <<plan>> # <<>> /\ Head(<<plan>>) = plan
  BY DEF One

(* What one page does is told by its desk.                                 *)
LEMMA DeskStep ==
  ASSUME PlanTypeOK, NEW r \in Reviewers, NEW d, IsDesk(d), desk' = [desk EXCEPT ![r] = d]
  PROVE  /\ desk'[r] = d /\ \A q \in Reviewers \ {r} : desk'[q] = desk[q]
         /\ desk' = [q \in Reviewers |-> desk'[q]] /\ \A q \in Reviewers : IsDesk(desk'[q])
<1>1. desk = [q \in Reviewers |-> desk[q]]
  BY DEF PlanTypeOK
<1>2. desk' = [q \in Reviewers |-> IF q = r THEN d ELSE desk[q]]
  BY <1>1
<1>3. desk'[r] = d /\ \A q \in Reviewers \ {r} : desk'[q] = desk[q]
  BY <1>2
<1>4. desk' = [q \in Reviewers |-> desk'[q]]
  BY <1>2
<1>5. \A q \in Reviewers : IsDesk(desk'[q])
  BY <1>3 DEF PlanTypeOK
<1> QED
  BY <1>3, <1>4, <1>5

(* A page goes on alone if it waits for its own requests only and has      *)
(* confirmed what it shows.                                                *)
LEMMA DeskKeeps ==
  ASSUME PlanInv, NEW r \in Reviewers, NEW d, IsDesk(d), desk' = [desk EXCEPT ![r] = d],
         d.ticked # <<>> => d.ticked = d.plan,
         d.busy => IsWaiting(d),
         d.offer # <<>> => Head(d.offer).parent = d.plan,
         \A h \in handlers' : IsHandler(h) /\ (h.awaited /\ h.by # r => h \in handlers),
         \A h \in handlers' : h.awaited /\ h.by = r =>
            IF h.kind = "compile" THEN d.busy ELSE d.review = "asked" /\ h.plan.parent = d.plan,
         \A h, g \in handlers' : h.awaited /\ g.awaited /\ h.by = r /\ g.by = r => h = g,
         \A s \in starts' : \/ s \in starts
                            \/ s.seen = s.plan /\ s.plan # <<>> /\ One(s.plan),
         UNCHANGED <<planRun, credited>>
  PROVE  PlanInv'
<1>1. /\ desk'[r] = d /\ \A q \in Reviewers \ {r} : desk'[q] = desk[q]
      /\ desk' = [q \in Reviewers |-> desk'[q]] /\ \A q \in Reviewers : IsDesk(desk'[q])
  BY DeskStep DEF PlanInv
<1>2. PlanTypeOK'
  BY <1>1 DEF PlanInv, PlanTypeOK
<1>3. ReviewedPlanIsRun'
  BY <1>1 DEF PlanInv, ReviewedPlanIsRun
<1>4. ConfirmedIsShown'
  BY <1>1 DEF PlanInv, ConfirmedIsShown
<1>5. AwaitedIsAsked'
  <2>1. ASSUME NEW h \in handlers', h.awaited
        PROVE  IF h.kind = "compile" THEN desk'[h.by].busy
               ELSE desk'[h.by].review = "asked" /\ h.plan.parent = desk'[h.by].plan
    <3>1. CASE h.by = r
      BY <1>1, <2>1, <3>1
    <3>2. CASE h.by # r
      BY <1>1, <2>1, <3>2 DEF PlanInv, AwaitedIsAsked, IsHandler
    <3> QED
      BY <3>1, <3>2
  <2>2. ASSUME NEW h \in handlers', NEW g \in handlers', h.awaited, g.awaited, h.by = g.by
        PROVE  h = g
    <3>1. CASE h.by = r
      BY <2>2, <3>1
    <3>2. CASE h.by # r
      BY <2>2, <3>2 DEF PlanInv, AwaitedIsAsked
    <3> QED
      BY <3>1, <3>2
  <2> QED
    BY <2>1, <2>2 DEF AwaitedIsAsked
<1>6. AskedWasConfirmed'
  BY DEF PlanInv, AskedWasConfirmed
<1>7. RunIsOfAsked'
  BY DEF PlanInv, RunIsOfAsked
<1> QED
  BY <1>2, <1>3, <1>4, <1>5, <1>6, <1>7 DEF PlanInv

(* Requests that go on, or are answered to nobody, change no page.         *)
LEMMA RequestStep ==
  ASSUME PlanInv, UNCHANGED <<desk, starts, planRun, credited>>,
         NEW h \in handlers, NEW step \in {"create", "write", "done", "refused"},
         handlers' \subseteq (handlers \ {h}) \cup {[h EXCEPT !.step = step]}
  PROVE  PlanInv'
<1> DEFINE g == [h EXCEPT !.step = step]
<1>1. g.by = h.by /\ g.kind = h.kind /\ g.plan = h.plan /\ g.awaited = h.awaited /\ IsHandler(g)
  BY DEF PlanInv, PlanTypeOK, IsHandler
<1>2. PlanTypeOK'
  BY <1>1 DEF PlanInv, PlanTypeOK
<1>3. AwaitedIsAsked'
  <2>1. ASSUME NEW f \in handlers', f.awaited
        PROVE  IF f.kind = "compile" THEN desk[f.by].busy
               ELSE desk[f.by].review = "asked" /\ f.plan.parent = desk[f.by].plan
    <3>1. CASE f \in handlers
      BY <2>1, <3>1 DEF PlanInv, AwaitedIsAsked
    <3>2. CASE f = g
      <4>1. h.awaited
        BY <1>1, <2>1, <3>2
      <4> HIDE DEF g
      <4> QED
        BY <1>1, <3>2, <4>1 DEF PlanInv, AwaitedIsAsked
    <3> QED
      BY <3>1, <3>2
  <2>2. ASSUME NEW e \in handlers', NEW f \in handlers', e.awaited, f.awaited, e.by = f.by
        PROVE  e = f
    <3> HIDE DEF g
    <3>1. (e \in handlers \ {h} \/ e = g) /\ (f \in handlers \ {h} \/ f = g)
      BY DEF g
    <3> QED
      BY <1>1, <2>2, <3>1 DEF PlanInv, AwaitedIsAsked
  <2> QED
    BY <2>1, <2>2 DEF AwaitedIsAsked
<1> QED
  BY <1>2, <1>3 DEF PlanInv, ReviewedPlanIsRun, ConfirmedIsShown, AskedWasConfirmed, RunIsOfAsked

(* Editing a description drops what has been compiled from it.             *)
LEMMA InvalidateKeeps ==
  ASSUME PlanInv, NEW r \in Reviewers, Invalidate(r)
  PROVE  PlanInv'
<1>1. /\ desk' = [desk EXCEPT ![r] = BlankDesk] /\ ~desk[r].busy /\ desk[r].review = "none"
      /\ UNCHANGED <<handlers, starts, planRun, credited>>
  BY DEF Invalidate
<1>2. IsDesk(BlankDesk) /\ BlankDesk.ticked = <<>> /\ BlankDesk.offer = <<>> /\ ~BlankDesk.busy
  BY DEF IsDesk, BlankDesk, One
<1>3. ASSUME NEW h \in handlers, h.awaited PROVE h.by # r
  BY <1>1, <1>3 DEF PlanInv, AwaitedIsAsked
<1>4. \A s \in starts' : s \in starts
  BY <1>1
<1>5. \A h \in handlers' : IsHandler(h) /\ h \in handlers
  BY <1>1 DEF PlanInv, PlanTypeOK
<1> QED
  BY <1>1, <1>2, <1>3, <1>4, <1>5, DeskKeeps

(* A page that asks waits for nothing else.                                *)
LEMMA AskStep ==
  ASSUME PlanInv, NEW r \in Reviewers, NEW kind \in {"compile", "revise"}, NEW plan, NEW now,
         ~desk[r].busy, desk[r].review # "asked", IsDesk(now), now.offer = <<>>,
         now.ticked # <<>> => now.ticked = now.plan,
         now.busy => IsWaiting(now),
         IF kind = "compile" THEN now.busy ELSE now.review = "asked" /\ plan.parent = now.plan,
         Ask(r, kind, plan, now)
  PROVE  PlanInv'
<1> DEFINE g == [by |-> r, kind |-> kind, plan |-> plan, step |-> "create", awaited |-> TRUE]
<1>1. /\ desk' = [desk EXCEPT ![r] = now] /\ handlers' = handlers \cup {g}
      /\ UNCHANGED <<starts, planRun, credited>>
  BY DEF Ask
<1>2. IsHandler(g) /\ g.by = r /\ g.kind = kind /\ g.plan = plan /\ g.awaited
  BY DEF IsHandler
<1> HIDE DEF g
<1>3. ASSUME NEW h \in handlers, h.awaited PROVE h.by # r
  BY <1>3 DEF PlanInv, AwaitedIsAsked, PlanTypeOK, IsHandler
<1>4. \A s \in starts' : s \in starts
  BY <1>1
<1>5. \A h \in handlers' : h = g \/ (h \in handlers /\ IsHandler(h))
  BY <1>1 DEF PlanInv, PlanTypeOK
<1>6. \A h \in handlers' : IsHandler(h) /\ (h.awaited /\ h.by # r => h \in handlers)
  BY <1>2, <1>5
<1>7. \A h \in handlers' : h.awaited /\ h.by = r => h = g
  BY <1>3, <1>5
<1>8. \A h \in handlers' : h.awaited /\ h.by = r =>
        IF h.kind = "compile" THEN now.busy ELSE now.review = "asked" /\ h.plan.parent = now.plan
  BY <1>2, <1>7
<1>9. now.offer # <<>> => Head(now.offer).parent = now.plan
  OBVIOUS
<1>10. \A h, f \in handlers' : h.awaited /\ f.awaited /\ h.by = r /\ f.by = r => h = f
  BY <1>7
<1> QED
  BY <1>1, <1>4, <1>6, <1>8, <1>9, <1>10, DeskKeeps

(* A compilation is asked for when nothing is under review.                *)
LEMMA AskCompileKeeps ==
  ASSUME PlanInv, NEW r \in Reviewers, AskCompile(r)
  PROVE  PlanInv'
<1> DEFINE now == [BlankDesk EXCEPT !.busy = TRUE]
<1>1. PICK setting \in Settings : Ask(r, "compile", Compiled(setting), now)
  BY DEF AskCompile
<1>2. /\ IsDesk(now) /\ now.busy /\ IsWaiting(now) /\ now.ticked = <<>> /\ now.offer = <<>>
  BY DEF IsDesk, BlankDesk, One, IsWaiting
<1> HIDE DEF now
<1> QED
  BY <1>1, <1>2, AskStep DEF AskCompile

(* A revision is asked for of the plan that is shown.                      *)
LEMMA AskRevisionKeeps ==
  ASSUME PlanInv, NEW r \in Reviewers, AskRevision(r)
  PROVE  PlanInv'
<1> DEFINE now == [desk[r] EXCEPT !.review = "asked", !.offer = <<>>]
           plan == Head(desk[r].plan)
<1>1. PICK setting \in Settings : Ask(r, "revise", Revised(plan, setting), now)
  BY DEF AskRevision
<1>2. desk[r].plan = <<plan>> /\ ~desk[r].busy /\ desk[r].review # "asked" /\ IsDesk(desk[r])
  BY DEF AskRevision, PlanInv, PlanTypeOK, IsDesk, One
<1>3. /\ IsDesk(now) /\ now.busy = desk[r].busy /\ now.offer = <<>> /\ now.review = "asked"
      /\ now.plan = desk[r].plan /\ now.ticked = desk[r].ticked
  BY <1>2 DEF IsDesk, One
<1>4. Revised(plan, setting).parent = now.plan
  BY <1>2, <1>3 DEF Revised
<1>5. now.ticked # <<>> => now.ticked = now.plan
  BY <1>3 DEF PlanInv, ConfirmedIsShown
<1> HIDE DEF now, plan
<1> QED
  BY <1>1, <1>2, <1>3, <1>4, <1>5, AskStep

(* The file of a plan is created and written without a page.               *)
LEMMA FilesKeep ==
  ASSUME PlanInv, NEW h \in handlers, CreateFile(h) \/ WriteFile(h)
  PROVE  PlanInv'
<1>1. UNCHANGED <<desk, starts, planRun, credited>>
  BY DEF CreateFile, WriteFile
<1>2. CASE CreateFile(h)
  <2>1. PICK step \in {"refused", "write", "done"} :
           handlers' = (handlers \ {h}) \cup {[h EXCEPT !.step = step]}
    BY <1>2 DEF CreateFile
  <2> QED
    BY <1>1, <2>1, RequestStep
<1>3. CASE WriteFile(h)
  BY <1>1, <1>3, RequestStep DEF WriteFile
<1> QED
  BY <1>2, <1>3

(* An answer reaches the page that waits for it, or nobody.                *)
LEMMA AnswerKeeps ==
  ASSUME PlanInv, NEW h \in handlers, AnswerPlan(h)
  PROVE  PlanInv'
<1>1. /\ handlers' = handlers \ {h} /\ UNCHANGED <<starts, planRun, credited>>
  BY DEF AnswerPlan
<1>2. PICK ok \in {h.step = "done", FALSE} :
        desk' = IF h.awaited THEN [desk EXCEPT ![h.by] = Shown(@, h, ok)] ELSE desk
  BY DEF AnswerPlan
<1>3. CASE ~h.awaited
  BY <1>1, <1>2, <1>3, RequestStep
<1>4. CASE h.awaited
  <2> DEFINE r == h.by
             d == Shown(desk[r], h, ok)
  <2>1. IsHandler(h) /\ r \in Reviewers /\ IsDesk(desk[r])
    BY DEF PlanInv, PlanTypeOK, IsHandler
  <2>2. desk' = [desk EXCEPT ![r] = d]
    BY <1>2, <1>4
  <2>3. \A f \in handlers' : IsHandler(f) /\ f \in handlers /\ (f.awaited => f.by # r)
    BY <1>1, <1>4 DEF PlanInv, PlanTypeOK, AwaitedIsAsked
  <2>4. \A s \in starts' : s \in starts
    BY <1>1
  <2>5. IsDesk(d) /\ (d.ticked # <<>> => d.ticked = d.plan)
        /\ (d.busy => IsWaiting(d))
        /\ (d.offer # <<>> => Head(d.offer).parent = d.plan)
    <3>1. CASE h.kind = "compile"
      <4>1. desk[r].busy /\ IsWaiting(desk[r])
        BY <1>4, <2>1, <3>1 DEF PlanInv, AwaitedIsAsked, ConfirmedIsShown
      <4>2. d = [desk[r] EXCEPT !.busy = FALSE, !.plan = IF ok THEN <<h.plan>> ELSE <<>>]
        BY <3>1 DEF Shown
      <4>3. /\ d.busy = FALSE /\ d.review = "none" /\ d.offer = <<>> /\ d.ticked = <<>>
            /\ d.plan = (IF ok THEN <<h.plan>> ELSE <<>>) /\ DOMAIN d = DOMAIN desk[r]
        BY <2>1, <4>1, <4>2 DEF IsDesk, IsWaiting
      <4> HIDE DEF d
      <4>4. One(d.plan) /\ One(d.offer) /\ One(d.ticked)
        BY <4>3, OneOf DEF One
      <4>5. d.busy \in BOOLEAN /\ DOMAIN d = {"plan", "busy", "review", "offer", "ticked"}
        BY <2>1, <4>3 DEF IsDesk
      <4>6. IsDesk(d)
        BY <4>3, <4>4, <4>5 DEF IsDesk
      <4> QED
        BY <4>3, <4>6
    <3>2. CASE h.kind = "revise"
      <4>1. desk[r].review = "asked" /\ h.plan.parent = desk[r].plan
        BY <1>4, <2>1, <3>2 DEF PlanInv, AwaitedIsAsked
      <4>2. ~desk[r].busy
        BY <2>1, <4>1 DEF PlanInv, ConfirmedIsShown, IsWaiting
      <4>3. d = [desk[r] EXCEPT !.review = IF ok THEN "offered" ELSE "failed",
                               !.offer = IF ok THEN <<h.plan>> ELSE <<>>]
        BY <3>2 DEF Shown
      <4>4. /\ d.plan = desk[r].plan /\ d.ticked = desk[r].ticked /\ d.busy = desk[r].busy
            /\ d.offer = (IF ok THEN <<h.plan>> ELSE <<>>)
            /\ d.review \in {"offered", "failed"} /\ DOMAIN d = DOMAIN desk[r]
        BY <2>1, <4>3 DEF IsDesk
      <4> HIDE DEF d
      <4> QED
        BY <2>1, <4>1, <4>2, <4>4, OneOf DEF IsDesk, One, PlanInv, ConfirmedIsShown
    <3> QED
      BY <2>1, <3>1, <3>2 DEF IsHandler
  <2> HIDE DEF d, r
  <2> QED
    BY <1>1, <2>1, <2>2, <2>3, <2>4, <2>5, DeskKeeps
<1> QED
  BY <1>3, <1>4

(* A cancelled request goes on without its page.                           *)
LEMMA CancelRevisionKeeps ==
  ASSUME PlanInv, NEW r \in Reviewers, CancelRevision(r)
  PROVE  PlanInv'
<1> DEFINE d == [desk[r] EXCEPT !.review = "none", !.offer = <<>>]
           Left(h) == [h EXCEPT !.awaited = @ /\ h.by # r]
<1>1. /\ desk' = [desk EXCEPT ![r] = d] /\ handlers' = {Left(h) : h \in handlers}
      /\ UNCHANGED <<starts, planRun, credited>>
  BY DEF CancelRevision
<1>2. /\ IsDesk(desk[r]) /\ desk[r].review # "none" /\ ~desk[r].busy
  BY DEF PlanInv, PlanTypeOK, CancelRevision, ConfirmedIsShown, IsWaiting
<1>3. /\ IsDesk(d) /\ d.offer = <<>> /\ ~d.busy /\ (d.ticked # <<>> => d.ticked = d.plan)
  BY <1>2 DEF IsDesk, One, PlanInv, ConfirmedIsShown
<1>4. ASSUME NEW h \in handlers
      PROVE  IsHandler(Left(h)) /\ (Left(h).awaited => Left(h) = h /\ h.by # r)
  <2>1. IsHandler(h)
    BY DEF PlanInv, PlanTypeOK
  <2>2. CASE h.awaited /\ h.by # r
    <3>1. h.awaited = TRUE
      BY <2>1, <2>2 DEF IsHandler
    <3>2. Left(h) = [h EXCEPT !.awaited = TRUE]
      BY <2>2, <3>1
    <3>3. Left(h) = h
      BY <2>1, <3>1, <3>2 DEF IsHandler
    <3> QED
      BY <2>1, <2>2, <3>3
  <2>3. CASE ~(h.awaited /\ h.by # r)
    <3>1. Left(h) = [h EXCEPT !.awaited = FALSE]
      BY <2>3
    <3> QED
      BY <2>1, <3>1 DEF IsHandler
  <2> QED
    BY <2>2, <2>3
<1> HIDE DEF d, Left
<1>5. \A h \in handlers' : IsHandler(h) /\ (h.awaited => h \in handlers /\ h.by # r)
  BY <1>1, <1>4
<1>6. \A s \in starts' : s \in starts
  BY <1>1
<1> QED
  BY <1>1, <1>3, <1>5, <1>6, DeskKeeps

(* A revision that is adopted has to be confirmed anew.                    *)
LEMMA AdoptKeeps ==
  ASSUME PlanInv, NEW r \in Reviewers, Adopt(r)
  PROVE  PlanInv'
<1> DEFINE d == [BlankDesk EXCEPT !.plan = desk[r].offer]
<1>1. /\ desk' = [desk EXCEPT ![r] = d] /\ desk[r].review = "offered"
      /\ UNCHANGED <<handlers, starts, planRun, credited>>
  BY DEF Adopt
<1>2. IsDesk(desk[r]) /\ ~desk[r].busy
  BY <1>1 DEF PlanInv, PlanTypeOK, ConfirmedIsShown, IsWaiting
<1>3. IsDesk(d) /\ d.offer = <<>> /\ ~d.busy /\ d.ticked = <<>>
  BY <1>2 DEF IsDesk, BlankDesk, One
<1> HIDE DEF d
<1>4. ASSUME NEW h \in handlers, h.awaited PROVE h.by # r
  BY <1>1, <1>2, <1>4 DEF PlanInv, AwaitedIsAsked, PlanTypeOK, IsHandler
<1>5. \A h \in handlers' : IsHandler(h) /\ h \in handlers
  BY <1>1 DEF PlanInv, PlanTypeOK
<1>6. \A s \in starts' : s \in starts
  BY <1>1
<1> QED
  BY <1>1, <1>3, <1>4, <1>5, <1>6, DeskKeeps

(* What is confirmed is the plan that is shown.                            *)
LEMMA TickKeeps ==
  ASSUME PlanInv, NEW r \in Reviewers, Tick(r)
  PROVE  PlanInv'
<1> DEFINE d == [desk[r] EXCEPT !.ticked = desk[r].plan]
<1>1. /\ desk' = [desk EXCEPT ![r] = d] /\ Ready(r)
      /\ UNCHANGED <<handlers, starts, planRun, credited>>
  BY DEF Tick
<1>2. IsDesk(desk[r]) /\ ~desk[r].busy
  BY <1>1 DEF PlanInv, PlanTypeOK, Ready
<1>3. IsDesk(d) /\ d.offer = desk[r].offer /\ ~d.busy /\ d.ticked = d.plan /\ d.plan = desk[r].plan
  BY <1>2 DEF IsDesk, One
<1> HIDE DEF d
<1>4. ASSUME NEW h \in handlers, h.awaited PROVE h.by # r
  BY <1>1, <1>4 DEF PlanInv, AwaitedIsAsked, PlanTypeOK, IsHandler, Ready
<1>5. \A h \in handlers' : IsHandler(h) /\ h \in handlers
  BY <1>1 DEF PlanInv, PlanTypeOK
<1>6. \A s \in starts' : s \in starts
  BY <1>1
<1>7. d.offer # <<>> => Head(d.offer).parent = d.plan
  BY <1>3 DEF PlanInv, ReviewedPlanIsRun
<1> QED
  BY <1>1, <1>3, <1>4, <1>5, <1>6, <1>7, DeskKeeps

(* A request to run is for the plan the page has confirmed.                *)
LEMMA AskRunKeeps ==
  ASSUME PlanInv, NEW r \in Reviewers, AskRun(r)
  PROVE  PlanInv'
<1> DEFINE d == IF desk' = desk THEN desk[r] ELSE [desk[r] EXCEPT !.ticked = <<>>]
           plan == desk[r].plan
<1>1. Ready(r) /\ IsDesk(desk[r]) /\ plan # <<>> /\ One(plan)
      /\ UNCHANGED <<handlers, planRun, credited>>
  BY DEF AskRun, Ready, PlanInv, PlanTypeOK, IsDesk
<1>2. PICK seen : /\ starts' = starts \cup {[plan |-> plan, seen |-> seen]}
                  /\ seen = plan
                  /\ desk' = desk \/ desk' = [desk EXCEPT ![r].ticked = <<>>]
  BY DEF AskRun, PlanInv, ConfirmedIsShown
<1>3. \A s \in starts' : s \in starts \/ (s.seen = s.plan /\ s.plan # <<>> /\ One(s.plan))
  BY <1>1, <1>2
<1>4. ASSUME NEW h \in handlers, h.awaited PROVE h.by # r
  BY <1>1, <1>4 DEF PlanInv, AwaitedIsAsked, PlanTypeOK, IsHandler, Ready
<1>5. \A h \in handlers' : IsHandler(h) /\ h \in handlers
  BY <1>1 DEF PlanInv, PlanTypeOK
<1>6. /\ IsDesk(d) /\ d.offer = desk[r].offer /\ d.busy = desk[r].busy /\ d.plan = plan
      /\ (d.ticked # <<>> => d.ticked = d.plan)
  BY <1>1 DEF IsDesk, One, PlanInv, ConfirmedIsShown
<1>7. desk' = [desk EXCEPT ![r] = d]
  <2>1. CASE desk' = desk
    BY <2>1 DEF PlanInv, PlanTypeOK
  <2>2. CASE desk' # desk
    BY <1>2, <2>2
  <2> QED
    BY <2>1, <2>2
<1>8. d.offer # <<>> => Head(d.offer).parent = d.plan
  BY <1>6 DEF PlanInv, ReviewedPlanIsRun
<1>9. ~d.busy
  BY <1>1, <1>6 DEF Ready
<1> HIDE DEF d, plan
<1> QED
  BY <1>1, <1>3, <1>4, <1>5, <1>6, <1>7, <1>8, <1>9, DeskKeeps

(* The run and its worker read the file under its digest, so it is of the  *)
(* plan that was asked for.                                                *)
LEMMA RunKeeps ==
  ASSUME PlanInv, (\E s \in starts : HandleStart(s)) \/ ReadPlan \/ Finish \/ EndRun
  PROVE  PlanInv'
<1>1. UNCHANGED <<desk, handlers>> /\ starts' \subseteq starts
  BY DEF HandleStart, ReadPlan, Finish, EndRun
<1>2. /\ DOMAIN NoRun = {"expected", "seen", "read"} /\ NoRun.read = <<>>
  BY DEF NoRun
<1>3. /\ DOMAIN planRun' = {"expected", "seen", "read"} /\ RunIsOfAsked'
      /\ \A c \in credited' : c.document = c.seen
  <2>1. CASE \E s \in starts : HandleStart(s)
    <3>1. PICK s \in starts : HandleStart(s)
      BY <2>1
    <3>2. s.plan # <<>> /\ One(s.plan) /\ s.seen = s.plan
      BY DEF PlanInv, AskedWasConfirmed
    <3>3. credited' = credited
      BY <3>1 DEF HandleStart
    <3>4. CASE planRun' = planRun
      BY <3>3, <3>4 DEF PlanInv, PlanTypeOK, RunIsOfAsked, ReviewedPlanIsRun
    <3>5. CASE planRun' = [expected |-> s.plan, seen |-> s.seen, read |-> <<>>]
      BY <3>2, <3>3, <3>5 DEF RunIsOfAsked, PlanInv, ReviewedPlanIsRun
    <3> QED
      BY <3>1, <3>4, <3>5 DEF HandleStart
  <2>2. CASE ReadPlan
    <3>1. planRun # NoRun /\ credited' = credited
      BY <2>2 DEF ReadPlan
    <3>2. /\ planRun.expected = <<Head(planRun.expected)>> /\ planRun.seen = planRun.expected
          /\ planRun.expected # <<>>
      BY <3>1 DEF PlanInv, RunIsOfAsked, One
    <3>3. CASE IsThe(Head(planRun.expected))
      <4>1. plans[Head(planRun.expected)].plan = Head(planRun.expected)
        BY <3>3 DEF IsThe, Whole
      <4>2. planRun' = [planRun EXCEPT !.read = planRun.expected]
        BY <2>2, <3>2, <3>3, <4>1 DEF ReadPlan
      <4>3. /\ planRun'.expected = planRun.expected /\ planRun'.seen = planRun.seen
            /\ planRun'.read = planRun.expected
            /\ DOMAIN planRun' = {"expected", "seen", "read"}
        BY <4>2 DEF PlanInv, PlanTypeOK
      <4> QED
        BY <3>1, <3>2, <4>3 DEF RunIsOfAsked, PlanInv, ReviewedPlanIsRun, One
    <3>4. CASE ~IsThe(Head(planRun.expected))
      <4>1. planRun' = NoRun
        BY <2>2, <3>4 DEF ReadPlan
      <4> QED
        BY <1>2, <3>1, <4>1 DEF RunIsOfAsked, PlanInv, ReviewedPlanIsRun
    <3> QED
      BY <3>3, <3>4
  <2>3. CASE Finish
    <3>1. planRun # NoRun /\ planRun' = NoRun
      BY <2>3 DEF Finish
    <3>2. planRun.read # <<>> => planRun.read = planRun.seen
      BY DEF PlanInv, ReviewedPlanIsRun
    <3>3. \A c \in credited' : c \in credited \/ c.document = c.seen
      BY <2>3, <3>2 DEF Finish
    <3> QED
      BY <1>2, <3>1, <3>3 DEF RunIsOfAsked, PlanInv, ReviewedPlanIsRun
  <2>4. CASE EndRun
    BY <1>2, <2>4 DEF EndRun, RunIsOfAsked, PlanInv, ReviewedPlanIsRun
  <2> QED
    BY <2>1, <2>2, <2>3, <2>4
<1>4. planRun'.read # <<>> => planRun'.read = planRun'.seen
  BY <1>2, <1>3 DEF RunIsOfAsked
<1>5. PlanTypeOK'
  BY <1>1, <1>3 DEF PlanInv, PlanTypeOK
<1>6. ReviewedPlanIsRun'
  BY <1>1, <1>3, <1>4 DEF PlanInv, ReviewedPlanIsRun
<1> QED
  BY <1>1, <1>3, <1>5, <1>6 DEF PlanInv, ConfirmedIsShown, AwaitedIsAsked, AskedWasConfirmed

(* A dead bridge answers nobody; what is shown was compiled before.        *)
LEMMA CrashKeeps ==
  ASSUME PlanInv, CrashStudioBridge
  PROVE  PlanInv'
<1> DEFINE After(d) == [d EXCEPT !.busy = FALSE, !.review = IF @ = "asked" THEN "failed" ELSE @]
<1>1. /\ desk' = [r \in Reviewers |-> After(desk[r])] /\ handlers' = {} /\ starts' = {}
      /\ UNCHANGED <<planRun, credited>>
  BY DEF CrashStudioBridge
<1>2. ASSUME NEW r \in Reviewers
      PROVE  /\ desk'[r].plan = desk[r].plan /\ desk'[r].offer = desk[r].offer
             /\ desk'[r].ticked = desk[r].ticked /\ ~desk'[r].busy /\ IsDesk(desk'[r])
  <2>1. IsDesk(desk[r]) /\ desk'[r] = After(desk[r])
    BY <1>1 DEF PlanInv, PlanTypeOK
  <2> QED
    BY <2>1 DEF IsDesk
<1>3. desk' = [r \in Reviewers |-> desk'[r]]
  BY <1>1
<1> HIDE DEF After
<1>4. PlanTypeOK'
  BY <1>1, <1>2, <1>3 DEF PlanInv, PlanTypeOK
<1>5. ReviewedPlanIsRun' /\ ConfirmedIsShown'
  BY <1>1, <1>2 DEF PlanInv, ReviewedPlanIsRun, ConfirmedIsShown
<1> QED
  BY <1>1, <1>4, <1>5 DEF PlanInv, AwaitedIsAsked, AskedWasConfirmed, RunIsOfAsked

(* At first nothing is shown, asked or run.                                *)
LEMMA PlanInitially == PlanInit => PlanInv
<1> SUFFICES ASSUME PlanInit PROVE PlanInv
  OBVIOUS
<1>1. /\ IsDesk(BlankDesk) /\ ~BlankDesk.busy /\ BlankDesk.ticked = <<>> /\ BlankDesk.offer = <<>>
  BY DEF IsDesk, BlankDesk, One
<1>2. DOMAIN NoRun = {"expected", "seen", "read"} /\ NoRun.read = <<>>
  BY DEF NoRun
<1>3. desk = [r \in Reviewers |-> BlankDesk] /\ handlers = {} /\ starts = {} /\ planRun = NoRun
      /\ credited = {}
  BY DEF PlanInit
<1>4. PlanTypeOK
  BY <1>1, <1>2, <1>3 DEF PlanTypeOK
<1> QED
  BY <1>1, <1>2, <1>3, <1>4 DEF PlanInv, ReviewedPlanIsRun, ConfirmedIsShown, AwaitedIsAsked,
     AskedWasConfirmed, RunIsOfAsked

(* Every step keeps the invariant.                                         *)
LEMMA PlanStep == PlanInv /\ [PlanNext]_planVars => PlanInv'
<1> SUFFICES ASSUME PlanInv, [PlanNext]_planVars PROVE PlanInv'
  OBVIOUS
<1>1. ASSUME NEW r \in Reviewers,
             Invalidate(r) \/ AskCompile(r) \/ AskRevision(r) \/ CancelRevision(r) \/ Adopt(r)
               \/ Tick(r) \/ AskRun(r)
      PROVE  PlanInv'
  BY <1>1, InvalidateKeeps, AskCompileKeeps, AskRevisionKeeps, CancelRevisionKeeps, AdoptKeeps,
     TickKeeps, AskRunKeeps
<1>2. ASSUME NEW h \in handlers, CreateFile(h) \/ WriteFile(h) \/ AnswerPlan(h) PROVE PlanInv'
  BY <1>2, FilesKeep, AnswerKeeps
<1>3. ASSUME (\E plan \in DOMAIN plans : Touch(plan)) \/ UNCHANGED planVars PROVE PlanInv'
  BY <1>3 DEF Touch, planVars, PlanInv, PlanTypeOK, ReviewedPlanIsRun, ConfirmedIsShown,
              AwaitedIsAsked, AskedWasConfirmed, RunIsOfAsked
<1> QED
  BY <1>1, <1>2, <1>3, RunKeeps, CrashKeeps DEF PlanNext

(* The invariant of plans under review, for any number of pages, requests, *)
(* runs, lost answers, deaths of the bridge and edits of the files.        *)
THEOREM PlanCorrect == PlanSpec => []PlanInv
  BY PlanInitially, PlanStep, PTL DEF PlanSpec

(* What runs, and what a result is credited for, is the plan the operator  *)
(* saw when he confirmed it (livery_bridge.py:973).                        *)
THEOREM ReviewedPlansAreRun == PlanSpec => []ReviewedPlanIsRun
<1>1. PlanInv => ReviewedPlanIsRun
  BY DEF PlanInv
<1> QED
  BY <1>1, PlanCorrect, PTL
-----------------------------------------------------------------------------
(* PositionHistory: what is written of an actor's moves.                   *)
Kinds == {"record", "undo", "redo"}
Unsure == {"attempting", "needs_attention"}

(* A chain that may be written.                                            *)
Sound(c) ==
    /\ c.entries \in Seq(Entries) /\ c.cursor \in 0 .. Len(c.entries) /\ Readable(c)
    /\ c.pending = NoIntent
       \/ c.pending \in [kind : Kinds, source : Poses, target : Poses, state : Unsure]

(* The entries a new one follows end where the actor is.                   *)
LEMMA ExtendedIs ==
  ASSUME PositionInv
  PROVE  /\ Extended \in Seq(Entries) /\ Len(Extended) = IF External THEN 0 ELSE chain.cursor
         /\ \A i \in 1 .. Len(Extended) : Extended[i] = chain.entries[i]
         /\ Len(Extended) <= Len(chain.entries)
         /\ Len(Extended) > 0 => Near(Extended[Len(Extended)].after, pose)
<1>1. chain.entries \in Seq(Entries) /\ chain.cursor \in 0 .. Len(chain.entries)
  BY DEF PositionInv, PositionTypeOK
<1>2. /\ SubSeq(chain.entries, 1, chain.cursor) \in Seq(Entries)
      /\ Len(SubSeq(chain.entries, 1, chain.cursor)) = chain.cursor
      /\ \A i \in 1 .. chain.cursor :
            SubSeq(chain.entries, 1, chain.cursor)[i] = chain.entries[i]
  BY <1>1
<1>3. CASE External
  BY <1>1, <1>3 DEF Extended
<1>4. CASE ~External
  <2>1. Extended = SubSeq(chain.entries, 1, chain.cursor)
    BY <1>4 DEF Extended
  <2>2. chain.cursor > 0 => Near(chain.entries[chain.cursor].after, pose)
    BY <1>4 DEF External
  <2> QED
    BY <1>1, <1>2, <1>4, <2>1, <2>2
<1> QED
  BY <1>3, <1>4

(* Every pose an entry names is a pose.                                    *)
LEMMA EntryIs ==
  ASSUME NEW seq \in Seq(Entries), NEW i \in 1 .. Len(seq)
  PROVE  seq[i].before \in Poses /\ seq[i].after \in Poses
<1>1. seq[i] \in Entries
  OBVIOUS
<1> QED
  BY <1>1 DEF Entries

LEMMA NearBothWays ==
  ASSUME NEW p \in Poses, NEW q \in Poses, Near(p, q)
  PROVE  Near(q, p)
  BY PositionAssumption DEF Near, Poses

(* begin writes a chain that can be read.                                  *)
LEMMA OpenedIsSound ==
  ASSUME PositionInv, chain.pending = NoIntent, NEW kind \in Kinds, NEW target \in Poses,
         Intended(kind, target), NEW state \in Unsure
  PROVE  Sound(Opened(kind, target, state))
<1> DEFINE o == Opened(kind, target, state)
<1>1. /\ chain.entries \in Seq(Entries) /\ chain.cursor \in 0 .. Len(chain.entries)
      /\ pose \in Poses /\ Readable(chain)
  BY DEF PositionInv, PositionTypeOK, WrittenIsReadable
<1>2. o.pending = [kind |-> kind, source |-> pose, target |-> target, state |-> state]
  BY DEF Opened
<1>3. o.pending \in [kind : Kinds, source : Poses, target : Poses, state : Unsure]
  BY <1>1, <1>2
<1>4. o.pending.kind = kind /\ o.pending.source = pose /\ o.pending.target = target
  BY <1>2
<1>5. CASE kind = "record"
  <2>1. o.entries = Extended /\ o.cursor = Len(Extended)
    BY <1>5 DEF Opened
  <2>2. Len(Extended) < Limit
    BY <1>5 DEF Intended
  <2>3. \A i \in 1 .. Len(Extended) - 1 : Near(Extended[i].after, Extended[i + 1].before)
    BY <1>1, ExtendedIs DEF Readable
  <2>4. Extended \in Seq(Entries) /\ Len(Extended) \in Nat
    BY ExtendedIs
  <2>5. Readable(o)
    BY <1>4, <1>5, <2>1, <2>2, <2>3, <2>4, ExtendedIs, PositionAssumption DEF Readable
  <2> HIDE DEF o
  <2> QED
    BY <1>3, <2>1, <2>4, <2>5 DEF Sound, o
<1>6. CASE kind # "record"
  <2>1. o.entries = chain.entries /\ o.cursor = chain.cursor
    BY <1>6 DEF Opened
  <2>2. CASE kind = "undo"
    <3>1. /\ chain.cursor > 0 /\ target = chain.entries[chain.cursor].before
          /\ Near(pose, chain.entries[chain.cursor].after)
      BY <2>2 DEF Intended
    <3>2. Near(chain.entries[chain.cursor].after, pose)
      BY <1>1, <3>1, EntryIs, NearBothWays
    <3>3. Readable(o)
      BY <1>1, <1>4, <2>1, <2>2, <3>1, <3>2 DEF Readable
    <3> HIDE DEF o
    <3> QED
      BY <1>1, <1>3, <2>1, <3>3 DEF Sound, o
  <2>3. CASE kind = "redo"
    <3>1. /\ chain.cursor < Len(chain.entries)
          /\ target = chain.entries[chain.cursor + 1].after
          /\ Near(pose, chain.entries[chain.cursor + 1].before)
      BY <2>3 DEF Intended
    <3>2. Near(chain.entries[chain.cursor + 1].before, pose)
      BY <1>1, <3>1, EntryIs, NearBothWays
    <3>3. Readable(o)
      BY <1>1, <1>4, <2>1, <2>3, <3>1, <3>2 DEF Readable
    <3> HIDE DEF o
    <3> QED
      BY <1>1, <1>3, <2>1, <3>3 DEF Sound, o
  <2> QED
    BY <1>6, <2>2, <2>3 DEF Kinds
<1> QED
  BY <1>5, <1>6

(* finish writes a chain that can be read, and that shows where the actor  *)
(* was sent, up to an entry's tolerance.                                   *)
ShownPose(c) == IF c.cursor > 0 THEN c.entries[c.cursor].after ELSE c.entries[1].before

LEMMA FinishedIsSound ==
  ASSUME NEW c, Sound(c), c.pending # NoIntent
  PROVE  /\ Sound(Finished(c)) /\ Finished(c).pending = NoIntent
         /\ ShownPose(Finished(c)) \in Poses /\ Near(ShownPose(Finished(c)), c.pending.target)
<1> DEFINE f == Finished(c)
           p == c.pending
           n == Len(c.entries)
<1>1. /\ c.entries \in Seq(Entries) /\ c.cursor \in 0 .. n /\ Readable(c) /\ n \in Nat
      /\ p \in [kind : Kinds, source : Poses, target : Poses, state : Unsure]
  BY DEF Sound
<1>2. f.pending = NoIntent /\ f.pending.kind = "none"
  BY DEF Finished, NoIntent
<1>3. p.kind \in Kinds /\ p.source \in Poses /\ p.target \in Poses
  BY <1>1
<1>4. Near(p.target, p.target)
  BY <1>3, PositionAssumption DEF Near, Poses
<1>5. \A i \in 1 .. n - 1 : Near(c.entries[i].after, c.entries[i + 1].before)
  BY <1>1 DEF Readable
<1>6. CASE p.kind = "record"
  <2> DEFINE e == [before |-> p.source, after |-> p.target]
  <2>1. e \in Entries /\ e.before = p.source /\ e.after = p.target
    BY <1>3 DEF Entries
  <2>2. c.cursor = n /\ n < Limit /\ (n > 0 => Near(c.entries[n].after, p.source))
    BY <1>1, <1>6 DEF Readable
  <2>3. f.entries = Append(c.entries, e) /\ f.cursor = n + 1
    BY <1>6, <2>2 DEF Finished
  <2> HIDE DEF e
  <2>4. /\ f.entries \in Seq(Entries) /\ Len(f.entries) = n + 1 /\ f.entries[n + 1] = e
        /\ \A i \in 1 .. n : f.entries[i] = c.entries[i]
    BY <1>1, <2>1, <2>3, AppendProperties
  <2> HIDE DEF f
  <2>5. ASSUME NEW i \in 1 .. n PROVE Near(f.entries[i].after, f.entries[i + 1].before)
    <3>1. CASE i = n
      BY <2>1, <2>2, <2>4, <3>1, <1>1
    <3>2. CASE i # n
      <4>1. i \in 1 .. n - 1 /\ i + 1 \in 1 .. n
        BY <3>2, <1>1
      <4> QED
        BY <4>1, <1>5, <2>4
    <3> QED
      BY <3>1, <3>2
  <2>6. Readable(f)
    BY <1>1, <1>2, <2>2, <2>3, <2>4, <2>5, PositionAssumption DEF Readable
  <2>7. ShownPose(f) = p.target
    BY <1>1, <2>1, <2>3, <2>4 DEF ShownPose
  <2> QED
    BY <1>1, <1>2, <1>3, <1>4, <2>3, <2>4, <2>6, <2>7 DEF Sound, f
<1>7. CASE p.kind = "undo"
  <2>1. c.cursor > 0 /\ c.entries[c.cursor].before = p.target
    BY <1>1, <1>7 DEF Readable
  <2>2. f.entries = c.entries /\ f.cursor = c.cursor - 1
    BY <1>7 DEF Finished
  <2> HIDE DEF f
  <2>3. f.cursor \in 0 .. n
    BY <1>1, <2>1, <2>2
  <2>4. Readable(f)
    BY <1>1, <1>2, <2>2, <2>3 DEF Readable
  <2>5. ShownPose(f) \in Poses /\ Near(ShownPose(f), p.target)
    <3>1. CASE f.cursor > 0
      <4>1. f.cursor \in 1 .. n - 1 /\ f.cursor + 1 = c.cursor
        BY <1>1, <2>1, <2>2, <3>1
      <4>2. Near(c.entries[f.cursor].after, c.entries[c.cursor].before)
        BY <1>5, <4>1
      <4>3. c.entries[f.cursor].after \in Poses
        BY <1>1, <4>1, EntryIs
      <4> QED
        BY <2>1, <2>2, <3>1, <4>2, <4>3 DEF ShownPose
    <3>2. CASE ~(f.cursor > 0)
      <4>1. f.cursor = 0 /\ c.cursor = 1
        BY <1>1, <2>1, <2>2, <3>2
      <4>2. ShownPose(f) = p.target
        BY <2>1, <2>2, <4>1 DEF ShownPose
      <4> QED
        BY <1>3, <1>4, <4>2
    <3> QED
      BY <3>1, <3>2
  <2> QED
    BY <1>1, <1>2, <2>2, <2>3, <2>4, <2>5 DEF Sound, f
<1>8. CASE p.kind = "redo"
  <2>1. c.cursor < n /\ c.entries[c.cursor + 1].after = p.target
    BY <1>1, <1>8 DEF Readable
  <2>2. f.entries = c.entries /\ f.cursor = c.cursor + 1
    BY <1>8 DEF Finished
  <2> HIDE DEF f
  <2>3. f.cursor \in 0 .. n /\ f.cursor > 0
    BY <1>1, <2>1, <2>2
  <2>4. Readable(f)
    BY <1>1, <1>2, <2>2, <2>3 DEF Readable
  <2>5. ShownPose(f) = p.target
    BY <2>1, <2>2, <2>3 DEF ShownPose
  <2> QED
    BY <1>1, <1>2, <1>3, <1>4, <2>2, <2>3, <2>4, <2>5 DEF Sound, f
<1> QED
  BY <1>3, <1>6, <1>7, <1>8 DEF Kinds

(* Two tolerances, of the entry and of the actor, are all that adds up.    *)
LEMMA TwiceNear ==
  ASSUME NEW p \in Poses, NEW q \in Poses, NEW r \in Poses, Near(p, q), Near(r, q)
  PROVE  r - p \in -(2 * Tolerance) .. 2 * Tolerance
  BY PositionAssumption DEF Near, Poses

LEMMA MoveKeeps ==
  ASSUME PositionInv, NEW kind \in Kinds, NEW target \in Poses, NEW seen \in Poses, NEW end,
         Move(kind, target, end, seen)
  PROVE  PositionInv'
<1>1. /\ chain.pending = NoIntent /\ Intended(kind, target) /\ pose' = seen
      /\ moves < MaxMoves /\ moves' = moves + 1
  BY DEF Move
<1>2. moves' \in 0 .. MaxMoves
  BY <1>1, PositionAssumption DEF PositionInv, PositionTypeOK
<1>3. CASE /\ Near(seen, target) /\ outside' = FALSE
           /\ chain' = Finished(Opened(kind, target, "attempting"))
  <2> DEFINE o == Opened(kind, target, "attempting")
  <2>1. Sound(o) /\ o.pending # NoIntent /\ o.pending.target = target
    <3>1. o.pending = [kind |-> kind, source |-> pose, target |-> target, state |-> "attempting"]
      BY DEF Opened
    <3>2. o.pending # NoIntent
      BY <3>1 DEF NoIntent, Kinds
    <3> QED
      BY <1>1, <3>1, <3>2, OpenedIsSound DEF Unsure
  <2> HIDE DEF o
  <2>2. /\ Sound(Finished(o)) /\ Finished(o).pending = NoIntent
        /\ ShownPose(Finished(o)) \in Poses /\ Near(ShownPose(Finished(o)), target)
    BY <2>1, FinishedIsSound
  <2>3. chain' = Finished(o)
    BY <1>3 DEF o
  <2>4. PositionTypeOK' /\ WrittenIsReadable'
    BY <1>1, <1>2, <1>3, <2>2, <2>3
       DEF PositionTypeOK, WrittenIsReadable, Sound, Kinds, Unsure, NoIntent
  <2>5. pose' - ShownPose(chain') \in -(2 * Tolerance) .. 2 * Tolerance
    BY <1>1, <1>3, <2>2, <2>3, TwiceNear
  <2> QED
    BY <2>4, <2>5 DEF PositionInv, ShownIsWhereItIs, ShownPose
<1>4. ASSUME NEW state \in Unsure, chain' = Opened(kind, target, state), UNCHANGED outside
      PROVE  PositionInv'
  <2> DEFINE o == Opened(kind, target, state)
  <2>1. Sound(o) /\ o.pending # NoIntent
    <3>1. o.pending = [kind |-> kind, source |-> pose, target |-> target, state |-> state]
      BY DEF Opened
    <3>2. o.pending # NoIntent
      BY <3>1 DEF NoIntent, Kinds
    <3> QED
      BY <1>1, <3>1, <3>2, OpenedIsSound
  <2> HIDE DEF o
  <2>2. chain' = o
    BY <1>4 DEF o
  <2>3. PositionTypeOK' /\ WrittenIsReadable'
    BY <1>1, <1>2, <1>4, <2>1, <2>2
       DEF PositionInv, PositionTypeOK, WrittenIsReadable, Sound, Kinds, Unsure, NoIntent
  <2> QED
    BY <2>1, <2>2, <2>3 DEF PositionInv, ShownIsWhereItIs
<1> QED
  BY <1>3, <1>4 DEF Move, Unsure

LEMMA AcknowledgeKeeps == PositionInv /\ AcknowledgeMove => PositionInv'
<1> SUFFICES ASSUME PositionInv, AcknowledgeMove PROVE PositionInv'
  OBVIOUS
<1>1. /\ chain' = [entries |-> <<>>, cursor |-> 0, pending |-> NoIntent]
      /\ UNCHANGED <<pose, outside>> /\ moves < MaxMoves /\ moves' = moves + 1
  BY DEF AcknowledgeMove
<1>2. /\ chain'.entries = <<>> /\ chain'.cursor = 0 /\ chain'.pending = NoIntent
      /\ chain'.pending.kind = "none" /\ Len(chain'.entries) = 0
  BY <1>1 DEF NoIntent
<1>3. Readable(chain')
  BY <1>2, PositionAssumption DEF Readable
<1>4. PositionTypeOK'
  BY <1>1, <1>2, PositionAssumption DEF PositionInv, PositionTypeOK
<1> QED
  BY <1>2, <1>3, <1>4 DEF PositionInv, WrittenIsReadable, ShownIsWhereItIs

LEMMA OutsideKeeps ==
  ASSUME PositionInv, NEW p \in Poses, pose' = p, outside' = TRUE, UNCHANGED <<chain, moves>>
  PROVE  PositionInv'
  BY DEF PositionInv, PositionTypeOK, WrittenIsReadable, ShownIsWhereItIs, Readable

LEMMA PositionKeeps == PositionInv /\ [PositionNext]_<<pose, chain, outside, moves>> => PositionInv'
<1>1. ASSUME PositionInv, UNCHANGED <<pose, chain, outside, moves>> PROVE PositionInv'
  BY <1>1 DEF PositionInv, PositionTypeOK, WrittenIsReadable, ShownIsWhereItIs
<1> QED
  BY <1>1, MoveKeeps, AcknowledgeKeeps, OutsideKeeps DEF PositionNext, MovedOutside, Kinds

LEMMA PositionBegins == PositionInit => PositionInv
<1> SUFFICES ASSUME PositionInit PROVE PositionInv
  OBVIOUS
<1>1. /\ chain.entries = <<>> /\ chain.cursor = 0 /\ chain.pending = NoIntent
      /\ chain.pending.kind = "none" /\ Len(chain.entries) = 0
      /\ pose = 0 /\ moves = 0 /\ outside = FALSE
  BY DEF PositionInit, NoIntent
<1>2. Readable(chain)
  BY <1>1, PositionAssumption DEF Readable
<1>3. chain.entries \in Seq(Entries) /\ chain.cursor \in 0 .. Len(chain.entries)
  BY <1>1, EmptySeq
<1>4. 0 \in Poses /\ 0 \in 0 .. MaxMoves
  BY PositionAssumption DEF Poses
<1>5. PositionTypeOK
  BY <1>1, <1>3, <1>4 DEF PositionTypeOK
<1> QED
  BY <1>1, <1>2, <1>5 DEF PositionInv, WrittenIsReadable, ShownIsWhereItIs

-----------------------------------------------------------------------------
(* The history is a line of entries: every step of it is a step of         *)
(* LinearHistory, or none, and entries only leave it for an archive.       *)

(* begin leaves the chain as it is, or cuts it to what a new entry follows,*)
(* and then what it cuts has been archived.                                *)
LEMMA OpenedOnLine ==
  ASSUME PositionInv, NEW kind \in Kinds, NEW target, NEW state
  PROVE  LET o == Opened(kind, target, state)
         IN  \/ o.entries = chain.entries /\ o.cursor = chain.cursor
             \/ kind = "record" /\ ~External /\ o.cursor = chain.cursor
                   /\ o.entries = SubSeq(chain.entries, 1, chain.cursor)
             \/ kind = "record" /\ External /\ o.entries = <<>> /\ o.cursor = 0
  BY ExtendedIs DEF Opened, Extended

LEMMA MoveOnLine ==
  ASSUME PositionInv, NEW kind \in Kinds, NEW target \in Poses, NEW seen, NEW end,
         Move(kind, target, end, seen)
  PROVE  [Line!LineNext]_<<chain.entries, chain.cursor>>
<1>1. Intended(kind, target)
  BY DEF Move
<1>2. /\ chain.entries \in Seq(Entries) /\ chain.cursor \in 0 .. Len(chain.entries)
      /\ Len(chain.entries) \in Nat
  BY DEF PositionInv, PositionTypeOK
<1>3. ASSUME NEW state, chain' = Opened(kind, target, state)
      PROVE  [Line!LineNext]_<<chain.entries, chain.cursor>>
  BY <1>3, OpenedOnLine DEF Line!LineNext, Line!Prune, Line!Clear, Line!Kept
<1>4. ASSUME chain' = Finished(Opened(kind, target, "attempting"))
      PROVE  [Line!LineNext]_<<chain.entries, chain.cursor>>
  <2> DEFINE o == Opened(kind, target, "attempting")
             e == [before |-> o.pending.source, after |-> o.pending.target]
  <2>1. o.pending.kind = kind
    BY DEF Opened
  <2>2. CASE kind = "record"
    <3>1. o.entries = Extended /\ o.cursor = Len(Extended)
      BY <2>2 DEF Opened
    <3>2. chain'.entries = Append(o.entries, e) /\ chain'.cursor = o.cursor + 1
      BY <1>4, <2>1, <2>2 DEF Finished
    <3> HIDE DEF e, o
    <3>3. CASE External
      <4>1. Extended = <<>>
        BY <3>3 DEF Extended
      <4>2. chain'.entries = <<e>> /\ chain'.cursor = 1
        BY <3>1, <3>2, <4>1
      <4> QED
        BY <4>2 DEF Line!LineNext, Line!Restart
    <3>4. CASE ~External
      <4>1. Extended = SubSeq(chain.entries, 1, chain.cursor) /\ Len(Extended) = chain.cursor
        BY <3>4, <1>2 DEF Extended
      <4>2. Len(chain'.entries) = chain'.cursor /\ chain'.cursor = chain.cursor + 1
        BY <1>2, <3>1, <3>2, <4>1, ExtendedIs, AppendProperties
      <4>3. SubSeq(chain'.entries, 1, chain.cursor) = Extended
        BY <1>2, <3>1, <3>2, <4>1, ExtendedIs
      <4> QED
        BY <4>1, <4>2, <4>3 DEF Line!LineNext, Line!Push, Line!Kept
    <3> QED
      BY <3>3, <3>4
  <2>3. CASE kind = "undo"
    <3>1. chain.cursor > 0
      BY <1>1, <2>3 DEF Intended
    <3>2. chain'.entries = chain.entries /\ chain'.cursor = chain.cursor - 1
      BY <1>4, <2>1, <2>3 DEF Finished, Opened
    <3> QED
      BY <3>1, <3>2 DEF Line!LineNext, Line!Back
  <2>4. CASE kind = "redo"
    <3>1. chain.cursor < Len(chain.entries)
      BY <1>1, <2>4 DEF Intended
    <3>2. chain'.entries = chain.entries /\ chain'.cursor = chain.cursor + 1
      BY <1>4, <2>1, <2>4 DEF Finished, Opened
    <3> QED
      BY <3>1, <3>2 DEF Line!LineNext, Line!Forward
  <2> QED
    BY <2>2, <2>3, <2>4 DEF Kinds
<1> QED
  BY <1>3, <1>4 DEF Move

LEMMA PositionOnLine ==
  ASSUME PositionInv, [PositionNext]_positionVars
  PROVE  [Line!LineNext]_<<chain.entries, chain.cursor>>
<1>1. CASE AcknowledgeMove
  BY <1>1 DEF AcknowledgeMove, Line!LineNext, Line!Clear
<1>2. CASE UNCHANGED chain
  BY <1>2
<1> QED
  BY <1>1, <1>2, MoveOnLine DEF PositionNext, MovedOutside, positionVars, Kinds

(* NoMoveForgotten, of one step.                                           *)
LeavesForArchive ==
    LET kept == Len(chain.entries)
    IN  \/ chain.entries \in archived'
        \/ kept <= Len(chain'.entries) /\ SubSeq(chain'.entries, 1, kept) = chain.entries

LEMMA MoveForgetsNone ==
  ASSUME PositionInv, NEW kind \in Kinds, NEW target \in Poses, NEW seen, NEW end,
         Move(kind, target, end, seen)
  PROVE  LeavesForArchive
<1> DEFINE kept == Len(chain.entries)
<1>1. chain.entries \in Seq(Entries) /\ kept \in Nat
      /\ SubSeq(chain.entries, 1, kept) = chain.entries
  BY SubSeqFull DEF PositionInv, PositionTypeOK
<1>2. CASE SetAside(kind)
  BY <1>2 DEF Move, LeavesForArchive
<1>3. CASE ~SetAside(kind)
  <2>1. ASSUME NEW state PROVE Opened(kind, target, state).entries = chain.entries
    BY <1>3 DEF SetAside, Opened
  <2>2. \/ chain'.entries = chain.entries
        \/ \E e \in Entries : chain'.entries = Append(chain.entries, e)
    <3>1. CASE \E state : chain' = Opened(kind, target, state)
      BY <2>1, <3>1
    <3>2. CASE chain' = Finished(Opened(kind, target, "attempting"))
      <4> DEFINE o == Opened(kind, target, "attempting")
      <4>1. o.pending.kind = kind /\ o.pending.source = pose /\ o.pending.target = target
        BY DEF Opened
      <4>2. o.entries = chain.entries
        BY <2>1
      <4>3. [before |-> pose, after |-> target] \in Entries
        BY DEF PositionInv, PositionTypeOK, Entries
      <4> HIDE DEF o
      <4>4. chain' = Finished(o)
        BY <3>2 DEF o
      <4>5. chain'.entries = IF kind = "record"
                THEN Append(chain.entries, [before |-> pose, after |-> target])
                ELSE chain.entries
        BY <4>1, <4>2, <4>4 DEF Finished
      <4> QED
        BY <4>3, <4>5
    <3> QED
      BY <3>1, <3>2 DEF Move
  <2>3. CASE chain'.entries = chain.entries
    BY <1>1, <2>3 DEF LeavesForArchive
  <2>4. ASSUME NEW e \in Entries, chain'.entries = Append(chain.entries, e)
        PROVE  LeavesForArchive
    <3>1. Len(chain'.entries) = kept + 1
      BY <1>1, <2>4, AppendProperties
    <3>2. SubSeq(chain'.entries, 1, kept) = chain.entries
      BY <1>1, <2>4
    <3> QED
      BY <1>1, <3>1, <3>2 DEF LeavesForArchive
  <2> QED
    BY <2>2, <2>3, <2>4
<1> QED
  BY <1>2, <1>3

LEMMA PositionForgetsNone ==
  ASSUME PositionInv, [PositionNext]_positionVars
  PROVE  LeavesForArchive
<1>1. CASE AcknowledgeMove
  BY <1>1 DEF AcknowledgeMove, LeavesForArchive
<1>2. CASE UNCHANGED chain
  BY <1>2, SubSeqFull DEF PositionInv, PositionTypeOK, LeavesForArchive
<1> QED
  BY <1>1, <1>2, MoveForgetsNone DEF PositionNext, MovedOutside, positionVars, Kinds

-----------------------------------------------------------------------------
(* MaterialHistory: the journals of texture edits.                         *)
Pendings == {Nothing} \cup [state : Ends, source : Textures, target : Textures]
Recoveries == {Nothing} \cup [state : Ends, choice : {"source", "target"}, desired : Textures]

(* A row as it is made.                                                    *)
LEMMA RowIs ==
  ASSUME MaterialTypeOK, NEW slot \in Slots, NEW texture \in Textures, NEW end \in Ends
  PROVE  /\ Row(slot, texture, end) \in Journals
         /\ Row(slot, texture, end).slot = slot
         /\ Unresolved(Row(slot, texture, end)) <=> end # "confirmed"
<1>1. Nothing.state # "confirmed" /\ Nothing \in Pendings /\ Nothing \in Recoveries
  BY DEF Nothing, Pendings, Recoveries
<1>2. registry[slot] \in Textures /\ 0 \in 0 .. MaxTransitions
  BY MaterialAssumption DEF MaterialTypeOK
<1> QED
  BY <1>1, <1>2 DEF Row, Unresolved, Journals, Pendings, Recoveries

LEMMA JournalIs ==
  ASSUME NEW r \in Journals
  PROVE  /\ r.slot \in Slots /\ r.before \in Textures /\ r.after \in Textures
         /\ r.state \in Ends /\ r.applied \in BOOLEAN /\ r.steps \in 0 .. MaxTransitions
         /\ r.pending \in Pendings /\ r.recovery \in Recoveries
  BY DEF Journals, Pendings, Recoveries

(* How the journals change: one row is added to a slot that has none open, *)
(* or one is rewritten; it is open from then on unless it was confirmed.   *)
RowsChange(slot, end, k, row) ==
    /\ rows' \in Seq(Journals) /\ k \in DOMAIN rows' /\ rows'[k] = row /\ row.slot = slot
    /\ Unresolved(row) <=> end # "confirmed"
    /\ row.recovery # Nothing => row.state # "confirmed" \/ row.pending # Nothing
    /\ \A i \in DOMAIN rows' \ {k} : i \in DOMAIN rows /\ rows'[i] = rows[i]
    /\ \A i \in DOMAIN rows \ {k} : i \in DOMAIN rows'
    /\ k \in DOMAIN rows => rows[k].slot = slot
    /\ \A i \in DOMAIN rows \ {k} : rows[i].slot = slot => ~Unresolved(rows[i])

(* And the textures of that slot alone.                                    *)
TexturesChange(slot, end) ==
    /\ native' \in [Slots -> Textures] /\ registry' \in [Slots -> Textures]
    /\ \A s \in Slots \ {slot} : native'[s] = native[s] /\ registry'[s] = registry[s]
    /\ slot = "environment" /\ end = "confirmed" => native'[slot] = registry'[slot]

(* The textures after an apply.                                            *)
LEMMA WrittenIs ==
  ASSUME MaterialTypeOK, NEW slot \in Slots, NEW wanted \in Textures, NEW n \in 0 .. 2,
         NEW end, Possible(slot, wanted, n, end), Written(slot, wanted, n)
  PROVE  TexturesChange(slot, end)
<1>1. end = "confirmed" /\ slot = "environment" => n = 2
  BY DEF Possible, Writes
<1> QED
  BY <1>1 DEF Written, MaterialTypeOK, TexturesChange

LEMMA RowsKeep ==
  ASSUME MaterialInv, NEW slot \in Slots, NEW end, NEW k, NEW row,
         Journaled, RowsChange(slot, end, k, row), TexturesChange(slot, end)
  PROVE  MaterialInv'
<1> USE DEF RowsChange, TexturesChange
<1>1. MaterialTypeOK'
  BY MaterialAssumption DEF MaterialInv, MaterialTypeOK, Journaled
<1>2. OneOpenOperation'
  BY DEF MaterialInv, OneOpenOperation
<1>3. RecoveredWasUncertain'
  BY DEF MaterialInv, RecoveredWasUncertain
<1>4. ASSUME ("environment" \in Slots \ unjournaled)', Resolved("environment")'
      PROVE  native'["environment"] = registry'["environment"]
  <2>1. "environment" \in Slots \ unjournaled
    BY <1>4 DEF Journaled
  <2>2. CASE slot = "environment"
    BY <1>4, <2>2 DEF Resolved
  <2>3. CASE slot # "environment"
    <3>1. ASSUME NEW i \in DOMAIN rows, rows[i].slot = "environment"
          PROVE  ~Unresolved(rows[i])
      BY <1>4, <2>3, <3>1 DEF Resolved
    <3>2. Resolved("environment")
      BY <3>1 DEF Resolved
    <3>3. native["environment"] = registry["environment"]
      BY <2>1, <3>2 DEF MaterialInv, EnvironmentRegistryIsTrue
    <3> QED
      BY <2>1, <2>3, <3>3
  <2> QED
    BY <2>2, <2>3
<1> QED
  BY <1>1, <1>2, <1>3, <1>4 DEF MaterialInv, EnvironmentRegistryIsTrue

(* FailureStaysOnRecord, of one step.                                      *)
FailuresStay ==
    \A i \in DOMAIN rows :
        /\ rows[i].state # "confirmed" => rows'[i].state = rows[i].state
        /\ rows[i].pending # Nothing => rows'[i].pending = rows[i].pending
        /\ rows[i].recovery # Nothing => rows'[i].recovery = rows[i].recovery

(* A new row.                                                              *)
LEMMA RowAdded ==
  ASSUME MaterialInv, NEW slot \in Slots, NEW texture \in Textures, NEW end \in Ends,
         Resolved(slot), rows' = Append(rows, Row(slot, texture, end)), Journaled,
         TexturesChange(slot, end)
  PROVE  MaterialInv' /\ FailuresStay
<1> DEFINE row == Row(slot, texture, end)
           k == Len(rows) + 1
<1>1. MaterialTypeOK /\ rows \in Seq(Journals) /\ Len(rows) \in Nat
  BY DEF MaterialInv, MaterialTypeOK
<1>2. row \in Journals /\ row.slot = slot /\ (Unresolved(row) <=> end # "confirmed")
  BY <1>1, RowIs
<1>3. row.recovery = Nothing
  BY DEF Row
<1> HIDE DEF row
<1>4. rows' = Append(rows, row)
  BY DEF row
<1>5. /\ rows' \in Seq(Journals) /\ rows'[k] = row /\ DOMAIN rows' = 1 .. k
      /\ DOMAIN rows = 1 .. Len(rows) /\ \A i \in DOMAIN rows : rows'[i] = rows[i]
  BY <1>1, <1>2, <1>4, AppendProperties
<1>6. k \notin DOMAIN rows /\ DOMAIN rows' = DOMAIN rows \cup {k}
  BY <1>1, <1>5
<1> HIDE DEF k
<1>7. RowsChange(slot, end, k, row)
  BY <1>2, <1>3, <1>5, <1>6 DEF RowsChange, Resolved
<1>8. MaterialInv'
  BY <1>7, RowsKeep
<1>9. FailuresStay
  BY <1>5 DEF FailuresStay
<1> QED
  BY <1>8, <1>9

LEMMA EnvironmentKeeps ==
  ASSUME MaterialInv, NEW slot \in Slots, NEW texture \in Textures, NEW n \in 0 .. 2,
         NEW end \in Ends, EditEnvironment(slot, texture, n, end)
  PROVE  MaterialInv' /\ FailuresStay
<1>1. MaterialTypeOK
  BY DEF MaterialInv
<1> QED
  BY <1>1, WrittenIs, RowAdded DEF EditEnvironment

LEMMA ActorKeeps ==
  ASSUME MaterialInv, NEW slot \in Slots, NEW texture \in Textures, NEW n \in 0 .. 2,
         NEW back \in 0 .. 2, NEW end \in Ends, EditActor(slot, texture, n, back, end)
  PROVE  MaterialInv' /\ FailuresStay
<1>1. MaterialTypeOK /\ slot # "environment"
  BY DEF MaterialInv, EditActor
<1>2. TexturesChange(slot, end)
  BY <1>1 DEF EditActor, MaterialTypeOK, TexturesChange
<1> QED
  BY <1>1, <1>2, RowAdded DEF EditActor

(* A row that is rewritten.                                                *)
LEMMA RowChanged ==
  ASSUME MaterialInv, NEW i \in DOMAIN rows, NEW row \in Journals, NEW end \in Ends,
         rows' = [rows EXCEPT ![i] = row], Journaled, row.slot = rows[i].slot,
         Unresolved(row) <=> end # "confirmed",
         row.recovery # Nothing => row.state # "confirmed" \/ row.pending # Nothing,
         TexturesChange(row.slot, end),
         \A j \in DOMAIN rows \ {i} : rows[j].slot = row.slot => ~Unresolved(rows[j])
  PROVE  MaterialInv'
<1>1. /\ rows \in Seq(Journals) /\ row.slot \in Slots
      /\ rows' \in Seq(Journals) /\ rows'[i] = row /\ DOMAIN rows' = DOMAIN rows
      /\ \A j \in DOMAIN rows \ {i} : rows'[j] = rows[j]
  BY JournalIs, ExceptSeq DEF MaterialInv, MaterialTypeOK
<1>2. RowsChange(row.slot, end, i, row)
  BY <1>1 DEF RowsChange
<1> QED
  BY <1>1, <1>2, RowsKeep

LEMMA TransitionKeeps ==
  ASSUME MaterialInv, NEW i \in DOMAIN rows, NEW n \in 0 .. 2, NEW end \in Ends,
         Transition(i, n, end)
  PROVE  MaterialInv' /\ FailuresStay
<1> DEFINE r == rows[i]
           source == IF r.applied THEN r.after ELSE r.before
           target == IF r.applied THEN r.before ELSE r.after
           cut == [state |-> end, source |-> source, target |-> target]
           row == IF end = "confirmed"
                  THEN [r EXCEPT !.applied = ~r.applied, !.steps = r.steps + 1]
                  ELSE [r EXCEPT !.pending = cut]
<1>1. MaterialTypeOK /\ rows \in Seq(Journals) /\ r \in Journals
  BY DEF MaterialInv, MaterialTypeOK
<1>2. /\ Journaled /\ r.state = "confirmed" /\ r.pending = Nothing /\ r.steps < MaxTransitions
      /\ Resolved(r.slot) /\ Possible(r.slot, target, n, end) /\ Written(r.slot, target, n)
  <2>1. CASE r.applied
    BY <2>1 DEF Transition
  <2>2. CASE ~r.applied
    BY <2>2 DEF Transition
  <2> QED
    BY <2>1, <2>2
<1>3. r.slot \in Slots /\ source \in Textures /\ target \in Textures
  BY <1>1, JournalIs
<1>4. r.recovery = Nothing
  BY <1>2 DEF MaterialInv, RecoveredWasUncertain
<1>5. cut \in Pendings /\ cut # Nothing
  BY <1>3 DEF Pendings, Nothing, Ends
<1>16. rows' = [rows EXCEPT ![i] = row]
  <2>1. CASE end = "confirmed"
    BY <2>1 DEF Transition
  <2>2. CASE end # "confirmed" /\ r.applied
    BY <2>2 DEF Transition
  <2>3. CASE end # "confirmed" /\ ~r.applied
    BY <2>3 DEF Transition
  <2> QED
    BY <2>1, <2>2, <2>3
<1> HIDE DEF r, source, target, cut
<1>6. ASSUME NEW b \in BOOLEAN, b = r.applied
      PROVE  end = "confirmed" => row \in Journals
  <2>1. r.steps + 1 \in 0 .. MaxTransitions
    BY <1>1, <1>2, JournalIs, MaterialAssumption
  <2> QED
    BY <1>1, <2>1 DEF Journals
<1>7. end # "confirmed" => row \in Journals
  BY <1>1, <1>5 DEF Journals, Pendings
<1>8. row \in Journals
  BY <1>1, <1>6, <1>7, JournalIs
<1>9. /\ row.slot = r.slot /\ row.recovery = Nothing /\ row.state = "confirmed"
      /\ row.pending = IF end = "confirmed" THEN Nothing ELSE cut
  BY <1>1, <1>2, <1>4 DEF Journals
<1>10. Unresolved(row) <=> end # "confirmed"
  BY <1>5, <1>9 DEF Unresolved, Nothing
<1>11. TexturesChange(r.slot, end)
  BY <1>1, <1>2, <1>3, WrittenIs
<1>12. \A j \in DOMAIN rows \ {i} : rows[j].slot = row.slot => ~Unresolved(rows[j])
  BY <1>2, <1>9 DEF Resolved
<1>13. r = rows[i]
  BY DEF r
<1> HIDE DEF row
<1>14. MaterialInv'
  BY <1>2, <1>16, <1>8, <1>9, <1>10, <1>11, <1>12, <1>13, RowChanged
<1>15. FailuresStay
  BY <1>1, <1>2, <1>4, <1>9, <1>13, <1>16 DEF FailuresStay
<1> QED
  BY <1>14, <1>15

LEMMA RecoverKeeps ==
  ASSUME MaterialInv, NEW i \in DOMAIN rows, NEW n \in 0 .. 2, NEW end \in Ends,
         NEW choice \in {"source", "target"}, Recover(i, choice, n, end)
  PROVE  MaterialInv' /\ FailuresStay
<1> DEFINE r == rows[i]
           side == IF r.pending # Nothing THEN r.pending
                   ELSE [source |-> r.before, target |-> r.after]
           desired == IF choice = "source" THEN side.source ELSE side.target
           verdict == [state |-> end, choice |-> choice, desired |-> desired]
           row == [r EXCEPT !.recovery = verdict]
<1>1. MaterialTypeOK /\ rows \in Seq(Journals) /\ r \in Journals
  BY DEF MaterialInv, MaterialTypeOK
<1>2. /\ Journaled /\ Unresolved(r) /\ r.recovery = Nothing
      /\ Possible(r.slot, desired, n, end) /\ Written(r.slot, desired, n)
      /\ rows' = [rows EXCEPT ![i] = row]
  BY DEF Recover
<1>3. r.slot \in Slots /\ side.source \in Textures /\ side.target \in Textures
  BY <1>1, JournalIs DEF Pendings
<1>4. desired \in Textures
  BY <1>3
<1>5. verdict \in Recoveries /\ verdict # Nothing /\ verdict.state = end
  BY <1>4 DEF Recoveries, Nothing
<1>6. r.state # "confirmed" \/ r.pending # Nothing
  BY <1>2 DEF Unresolved
<1>7. r = rows[i]
  OBVIOUS
<1> HIDE DEF r, side, desired, verdict
<1>8. row \in Journals
  BY <1>1, <1>5 DEF Journals, Recoveries
<1>9. /\ row.slot = r.slot /\ row.state = r.state /\ row.pending = r.pending
      /\ row.recovery = verdict
  BY <1>1 DEF Journals
<1>10. Unresolved(row) <=> end # "confirmed"
  BY <1>5, <1>6, <1>9 DEF Unresolved
<1>11. TexturesChange(r.slot, end)
  BY <1>1, <1>2, <1>3, <1>4, WrittenIs
<1>12. \A j \in DOMAIN rows \ {i} : rows[j].slot = row.slot => ~Unresolved(rows[j])
  BY <1>2, <1>7, <1>9 DEF MaterialInv, OneOpenOperation
<1> HIDE DEF row
<1>13. MaterialInv'
  BY <1>2, <1>6, <1>7, <1>8, <1>9, <1>10, <1>11, <1>12, RowChanged
<1>14. FailuresStay
  BY <1>1, <1>2, <1>7, <1>9 DEF FailuresStay
<1> QED
  BY <1>13, <1>14

LEMMA MaterialKeeps ==
  ASSUME MaterialInv, [MaterialNext]_materialVars
  PROVE  MaterialInv' /\ FailuresStay
<1>1. CASE UNCHANGED materialVars
  BY <1>1 DEF materialVars, MaterialInv, MaterialTypeOK, EnvironmentRegistryIsTrue, Resolved,
     OneOpenOperation, RecoveredWasUncertain, Unresolved, FailuresStay
<1> QED
  BY <1>1, EnvironmentKeeps, ActorKeeps, TransitionKeeps, RecoverKeeps DEF MaterialNext

(* The journals are left alone and a scene is restored.                    *)
LEMMA RestoreKeepsJournals ==
  ASSUME MaterialInv, SceneRestore
  PROVE  MaterialInv' /\ FailuresStay /\ UNCHANGED rows
<1>1. UNCHANGED <<rows, edits>>
  BY DEF SceneRestore, SceneRestored, SceneRolledBack, SceneCut
<1>2. MaterialTypeOK'
  BY <1>1 DEF SceneRestore, SceneRestored, SceneRolledBack, SceneCut, Differs, MaterialInv,
     MaterialTypeOK
<1>3. "environment" \in Slots \ unjournaled' =>
         /\ "environment" \in Slots \ unjournaled
         /\ native["environment"] = registry["environment"] =>
               native'["environment"] = registry'["environment"]
  BY DEF SceneRestore, SceneRestored, SceneRolledBack, SceneCut, Differs, MaterialInv,
     MaterialTypeOK
<1>4. Resolved("environment")' => Resolved("environment")
  BY <1>1 DEF Resolved, Unresolved
<1>5. EnvironmentRegistryIsTrue'
  BY <1>3, <1>4 DEF MaterialInv, EnvironmentRegistryIsTrue
<1> QED
  BY <1>1, <1>2, <1>5 DEF MaterialInv, OneOpenOperation, RecoveredWasUncertain, Unresolved,
     FailuresStay

LEMMA MaterialBegins == MaterialInit => MaterialInv
<1> SUFFICES ASSUME MaterialInit PROVE MaterialInv
  OBVIOUS
<1>1. /\ native = [s \in Slots |-> "original"] /\ registry = native
      /\ rows = <<>> /\ DOMAIN rows = {} /\ unjournaled = {} /\ edits = 0
  BY DEF MaterialInit
<1>2. MaterialTypeOK
  BY <1>1, MaterialAssumption, EmptySeq DEF MaterialTypeOK
<1> QED
  BY <1>1, <1>2 DEF MaterialInv, EnvironmentRegistryIsTrue, OneOpenOperation,
     RecoveredWasUncertain

-----------------------------------------------------------------------------
(* EditHistories: the two beside each other, and the scenes that pass them *)
(* by.                                                                     *)
LEMMA SceneMovesActor ==
  ASSUME PositionInv, SceneRestore
  PROVE  PositionInv' /\ UNCHANGED <<chain, archived>>
<1>1. ASSUME UNCHANGED <<pose, chain, outside, moves>> PROVE PositionInv'
  BY <1>1 DEF PositionInv, PositionTypeOK, WrittenIsReadable, ShownIsWhereItIs
<1> QED
  BY <1>1, OutsideKeeps DEF SceneRestore, SceneRestored, SceneRolledBack, SceneCut, positionVars

LEMMA EditStep ==
  ASSUME PositionInv, MaterialInv, [EditNext]_editVars
  PROVE  /\ PositionInv' /\ MaterialInv' /\ FailuresStay /\ LeavesForArchive
         /\ [Line!LineNext]_<<chain.entries, chain.cursor>>
<1>1. CASE [PositionNext]_positionVars /\ UNCHANGED materialVars
  <2>1. [PositionNext]_<<pose, chain, outside, moves>>
    BY <1>1 DEF positionVars
  <2> QED
    BY <1>1, <2>1, PositionKeeps, PositionOnLine, PositionForgetsNone, MaterialKeeps
<1>2. CASE [MaterialNext]_materialVars /\ UNCHANGED positionVars
  <2>1. UNCHANGED <<pose, chain, outside, moves>>
    BY <1>2 DEF positionVars
  <2> QED
    BY <1>2, <2>1, PositionKeeps, PositionOnLine, PositionForgetsNone, MaterialKeeps
<1>3. CASE SceneRestore
  <2>1. PositionInv' /\ UNCHANGED <<chain, archived>>
    BY <1>3, SceneMovesActor
  <2>2. LeavesForArchive
    BY <2>1, SubSeqFull DEF PositionInv, PositionTypeOK, LeavesForArchive
  <2> QED
    BY <1>3, <2>1, <2>2, RestoreKeepsJournals
<1> QED
  BY <1>1, <1>2, <1>3 DEF EditNext, editVars

(* Both invariants, for any sequence of moves, texture edits, recoveries   *)
(* and restored scenes, each of which may fail or be cut anywhere.         *)
THEOREM HistoriesCorrect == EditSpec => [](PositionInv /\ MaterialInv)
<1>1. EditInit => PositionInv /\ MaterialInv
  BY PositionBegins, MaterialBegins DEF EditInit
<1>2. (PositionInv /\ MaterialInv) /\ [EditNext]_editVars => (PositionInv /\ MaterialInv)'
  BY EditStep
<1> QED
  BY <1>1, <1>2, PTL DEF EditSpec

(* PositionIsLine: the moves of an actor implement LinearHistory.          *)
THEOREM MovesAreALine == EditSpec => PositionIsLine
<1>1. EditInit => Line!LineInit
  BY DEF EditInit, PositionInit, Line!LineInit
<1>2. PositionInv /\ MaterialInv /\ [EditNext]_editVars
        => [Line!LineNext]_<<chain.entries, chain.cursor>>
  BY EditStep
<1> QED
  BY <1>1, <1>2, HistoriesCorrect, PTL DEF EditSpec, PositionIsLine, Line!LineSpec

(* NoMoveForgotten: entries leave the current chain only for an archive.   *)
THEOREM MovesAreKept == EditSpec => NoMoveForgotten
<1>1. PositionInv /\ MaterialInv /\ [EditNext]_editVars =>
        [ LET kept == Len(chain.entries)
          IN  \/ chain.entries \in archived'
              \/ kept <= Len(chain'.entries) /\ SubSeq(chain'.entries, 1, kept) = chain.entries
        ]_positionVars
  BY EditStep DEF LeavesForArchive
<1> QED
  BY <1>1, HistoriesCorrect, PTL DEF EditSpec, NoMoveForgotten

(* FailureStaysOnRecord: an uncertain outcome never becomes a success.     *)
THEOREM FailuresAreKept == EditSpec => FailureStaysOnRecord
<1>1. PositionInv /\ MaterialInv /\ [EditNext]_editVars =>
        [ \A i \in DOMAIN rows :
            /\ rows[i].state # "confirmed" => rows'[i].state = rows[i].state
            /\ rows[i].pending # Nothing => rows'[i].pending = rows[i].pending
            /\ rows[i].recovery # Nothing => rows'[i].recovery = rows[i].recovery ]_materialVars
  BY EditStep DEF FailuresStay
<1> QED
  BY <1>1, HistoriesCorrect, PTL DEF EditSpec, FailureStaysOnRecord

(* RecordIsKept: what the histories show is what is there, as far as they  *)
(* can know, and nothing that was recorded is lost or changed.             *)
THEOREM RecordsAreKept == EditSpec => RecordIsKept
<1>1. PositionInv /\ MaterialInv => HistoriesAreTrue
  BY DEF PositionInv, MaterialInv, HistoriesAreTrue
<1>2. EditSpec => []HistoriesAreTrue
  BY <1>1, HistoriesCorrect, PTL
<1> QED
  BY <1>2, MovesAreALine, MovesAreKept, FailuresAreKept DEF RecordIsKept

-----------------------------------------------------------------------------
(* SceneEditor: the objects of the editor, their scenes and their copies.  *)

(* A sequence is one of its own elements.                                  *)
LEMMA OfItsOwn ==
  ASSUME NEW S, NEW s \in Seq(S)
  PROVE  s \in Seq({s[v] : v \in DOMAIN s})
<1> DEFINE T == {s[v] : v \in DOMAIN s}
<1>1. Len(s) \in Nat /\ DOMAIN s = 1 .. Len(s) /\ s \in [1 .. Len(s) -> S]
  BY SeqDef
<1>2. s \in [1 .. Len(s) -> T]
  BY <1>1
<1> QED BY <1>1, <1>2, SeqDef

(* What is written goes behind what there is, and changes none of it.      *)
LEMMA FiledBehind ==
  ASSUME NEW S, NEW s \in Seq(S), NEW x
  PROVE  LET t == Append(s, x)
         IN  /\ t \in Seq({t[v] : v \in DOMAIN t})
             /\ Len(t) = Len(s) + 1 /\ Len(s) \in Nat
             /\ DOMAIN s = 1 .. Len(s) /\ DOMAIN t = 1 .. Len(s) + 1
             /\ \A i \in DOMAIN s : t[i] = s[i]
             /\ t[Len(s) + 1] = x
<1> DEFINE t == Append(s, x)
           T == S \cup {x}
<1>1. s \in Seq(T) /\ x \in T
  BY SeqMonotonic
<1>2. /\ t \in Seq(T) /\ Len(t) = Len(s) + 1 /\ Len(s) \in Nat
      /\ \A i \in 1 .. Len(s) : t[i] = s[i]
      /\ t[Len(s) + 1] = x
  BY <1>1
<1>3. DOMAIN s = 1 .. Len(s) /\ DOMAIN t = 1 .. Len(s) + 1
  BY <1>2
<1> HIDE DEF t
<1>4. t \in Seq({t[v] : v \in DOMAIN t})
  BY <1>2, OfItsOwn
<1> QED BY <1>2, <1>3, <1>4

(* The same for several entries at once.                                   *)
LEMMA AllFiledBehind ==
  ASSUME NEW S, NEW s \in Seq(S), NEW n \in Nat, NEW f, f = [k \in 1 .. n |-> f[k]]
  PROVE  LET t == s \o f
         IN  /\ t \in Seq({t[v] : v \in DOMAIN t})
             /\ Len(t) = Len(s) + n /\ Len(s) \in Nat
             /\ DOMAIN s = 1 .. Len(s) /\ DOMAIN t = 1 .. Len(s) + n
             /\ \A i \in DOMAIN s : t[i] = s[i]
             /\ \A k \in 1 .. n : t[Len(s) + k] = f[k]
<1> DEFINE t == s \o f
           T == S \cup {f[k] : k \in 1 .. n}
<1>1. f \in [1 .. n -> T]
  OBVIOUS
<1>2. f \in Seq(T) /\ s \in Seq(T)
  BY <1>1, SeqDef, SeqMonotonic
<1>3. Len(f) = n
  BY <1>1, <1>2
<1>4. /\ t \in Seq(T) /\ Len(t) = Len(s) + n /\ Len(s) \in Nat
      /\ \A i \in 1 .. Len(s) + n : t[i] = IF i <= Len(s) THEN s[i] ELSE f[i - Len(s)]
  BY <1>2, <1>3, ConcatProperties
<1>5. DOMAIN s = 1 .. Len(s) /\ DOMAIN t = 1 .. Len(s) + n
  BY <1>2, <1>4
<1>7. ASSUME NEW k \in 1 .. n PROVE t[Len(s) + k] = f[k]
  BY <1>2, <1>3, <1>4
<1> HIDE DEF t
<1>6. t \in Seq({t[v] : v \in DOMAIN t})
  BY <1>4, OfItsOwn
<1> QED BY <1>4, <1>5, <1>6, <1>7 DEF t

(* A sequence of the members of a finite set has each of them once.        *)
LEMMA InOrderIs ==
  ASSUME NEW S, IsFiniteSet(S)
  PROVE  LET n == Cardinality(S)
             f == InOrder(S)
         IN  /\ n \in Nat /\ f \in [1 .. n -> S]
             /\ \A x \in S : \E i \in 1 .. n : f[i] = x
             /\ \A i, j \in 1 .. n : f[i] = f[j] => i = j
<1> DEFINE n == Cardinality(S)
           f == InOrder(S)
<1>1. n \in Nat /\ ExistsBijection(1 .. n, S)
  BY FS_CardinalityType
<1>2. PICK g : g \in Surjection(1 .. n, S)
  BY <1>1 DEF ExistsBijection, Bijection
<1>3. f \in [1 .. n -> S] /\ \A x \in S : \E i \in 1 .. n : f[i] = x
  BY <1>2 DEF Surjection, InOrder
<1>4. f \in Surjection(1 .. n, S)
  BY <1>3 DEF Surjection
<1>5. IsFiniteSet(1 .. n) /\ Cardinality(1 .. n) = n
  BY <1>1, FS_Interval
<1> HIDE DEF f
<1>6. f \in Injection(1 .. n, S)
  BY <1>4, <1>5, FS_SurjSameCardinalityImpliesInj
<1> QED BY <1>1, <1>3, <1>6 DEF Injection, IsInjective, f

-----------------------------------------------------------------------------
(* A world and the files, changed in some of their parts.                  *)
Becomes(e, w, live, next, docs, deletions) ==
    \/ /\ w = [e EXCEPT !.live = live, !.next = next]
       /\ docs = e.docs /\ deletions = e.deletions
    \/ /\ w = [e EXCEPT !.next = next]
       /\ live = e.live /\ docs = e.docs /\ deletions = e.deletions
    \/ /\ w = [e EXCEPT !.live = live]
       /\ next = e.next /\ docs = e.docs /\ deletions = e.deletions
    \/ /\ w = [e EXCEPT !.docs = docs]
       /\ live = e.live /\ next = e.next /\ deletions = e.deletions
    \/ /\ w = [e EXCEPT !.deletions = deletions]
       /\ live = e.live /\ next = e.next /\ docs = e.docs
    \/ /\ w = [e EXCEPT !.live = live, !.docs = docs, !.deletions = deletions]
       /\ next = e.next

(* The rest of it stays.                                                   *)
LEMMA EditorBecomes ==
  ASSUME NEW e, EditorTypeOK(e), NEW w, NEW live, NEW next, NEW docs, NEW deletions,
         Becomes(e, w, live, next, docs, deletions)
  PROVE  w = [live |-> live, next |-> next, docs |-> docs, deletions |-> deletions]
<1>1. PICK l, m, d, x : e = [live |-> l, next |-> m, docs |-> d, deletions |-> x]
  BY DEF EditorTypeOK
<1> QED BY <1>1 DEF Becomes

(* Nothing that was counted or filed is taken back.                        *)
GoesOn(e, w) ==
    /\ e.next <= w.next
    /\ \A v \in DOMAIN e.docs : v \in DOMAIN w.docs /\ w.docs[v] = e.docs[v]
    /\ \A k \in DOMAIN e.deletions : k \in DOMAIN w.deletions /\ w.deletions[k] = e.deletions[k]

(* A world that goes on from one that goes on, goes on.                    *)
LEMMA GoesOnAndOn ==
  ASSUME NEW e, NEW w, NEW u, EditorTypeOK(e), EditorTypeOK(w), EditorTypeOK(u),
         GoesOn(e, w), GoesOn(w, u)
  PROVE  GoesOn(e, u)
BY DEF GoesOn, EditorTypeOK

(* What was counted, and the scenes of it, are counted later too.          *)
LEMMA StaysCounted ==
  ASSUME NEW e, NEW w, EditorTypeOK(e), EditorTypeOK(w), e.next <= w.next
  PROVE  /\ \A id \in Identities : Counted(e, id) => Counted(w, id)
         /\ \A doc : IsScene(e, doc) => IsScene(w, doc)
<1>1. \A id \in Identities : Counted(e, id) => Counted(w, id)
  BY DEF EditorTypeOK, Counted, Identities
<1> QED BY <1>1 DEF IsScene

(* A world with other objects: those that are there were there before, or  *)
(* have a new number.                                                      *)
LEMMA AnotherWorld ==
  ASSUME NEW e, EditorIsSound(e), NEW D \in SUBSET Nat, NEW L \in [D -> ObjectRecords],
         NEW n \in Nat, e.next <= n, IsFiniteSet(D),
         NEW w, Becomes(e, w, L, n, e.docs, e.deletions),
         \A a \in D : a < n /\ (a \in DOMAIN e.live \/ e.next <= a),
         \A a \in D : L[a].stable # Unmanaged =>
            /\ L[a].stable[1] \in 1 .. episode
            /\ L[a].stable[1] = episode => L[a].stable[2] < n,
         \A a, b \in D : L[a].stable # Unmanaged /\ L[a].stable = L[b].stable => a = b
  PROVE  /\ EditorIsSound(w) /\ GoesOn(e, w)
         /\ w.live = L /\ w.next = n /\ w.docs = e.docs /\ w.deletions = e.deletions
<1>1. w = [live |-> L, next |-> n, docs |-> e.docs, deletions |-> e.deletions]
  BY EditorBecomes DEF EditorIsSound
<1>2. w.live = L /\ w.next = n /\ w.docs = e.docs /\ w.deletions = e.deletions /\ DOMAIN L = D
  BY <1>1
<1>3. EditorTypeOK(e) /\ EditorTypeOK(w)
  BY <1>1, <1>2 DEF EditorTypeOK, EditorIsSound
<1>4. WorldIsCounted(w)
  BY <1>2 DEF WorldIsCounted, OneEach, Managed, Counted
<1>5. \A v \in DOMAIN w.docs : IsScene(w, w.docs[v])
  BY <1>2, <1>3, StaysCounted DEF EditorIsSound
<1>6. ASSUME NEW k \in DOMAIN w.deletions PROVE DeletionIsKept(w, w.deletions[k])
  <2> DEFINE d == w.deletions[k]
  <2>1. d \in DeletionRecords /\ DeletionIsKept(e, d)
    BY <1>2, <1>3 DEF EditorIsSound, EditorTypeOK
  <2> HIDE DEF d
  <2>2. Counted(w, d.actor)
    BY <1>2, <1>3, <2>1, StaysCounted DEF DeletionIsKept, DeletionRecords
  <2>3. d.actor[1] = episode => d.actor[2] < e.next /\ d.actor[2] \in Nat
    BY <2>1 DEF DeletionIsKept, Counted, DeletionRecords, Identities
  <2>4. d.state = "confirmed" /\ d.actor[1] = episode => d.actor[2] \notin DOMAIN w.live
    BY <1>2, <1>3, <2>1, <2>3 DEF DeletionIsKept, EditorTypeOK
  <2>5. DeletionIsKept(w, d)
    BY <1>2, <2>1, <2>2, <2>4 DEF DeletionIsKept
  <2> QED BY <2>5 DEF d
<1>7. GoesOn(e, w)
  BY <1>2 DEF GoesOn
<1> QED BY <1>2, <1>3, <1>4, <1>5, <1>6, <1>7 DEF EditorIsSound

(* A new actor, under an identity that is not there.                       *)
LEMMA WithKeeps ==
  ASSUME NEW e, EditorIsSound(e), NEW s \in Identities, NEW at \in Places,
         s # Unmanaged => /\ s[1] \in 1 .. episode /\ (s[1] = episode => s[2] <= e.next)
                          /\ s \notin Stables(e)
  PROVE  LET w == With(e, s, at)
         IN  /\ EditorIsSound(w) /\ GoesOn(e, w)
             /\ e.next \notin DOMAIN e.live /\ DOMAIN w.live = DOMAIN e.live \cup {e.next}
             /\ w.live[e.next] = [stable |-> s, pose |-> at]
             /\ \A a \in DOMAIN e.live : w.live[a] = e.live[a]
<1> DEFINE D == DOMAIN e.live \cup {e.next}
           L == [a \in D |-> IF a = e.next THEN [stable |-> s, pose |-> at] ELSE e.live[a]]
           n == e.next + 1
           w == With(e, s, at)
<1>1. EditorTypeOK(e) /\ WorldIsCounted(e)
  BY DEF EditorIsSound
<1>2. /\ D \in SUBSET Nat /\ n \in Nat /\ e.next <= n
      /\ L \in [D -> ObjectRecords]
  BY <1>1 DEF EditorTypeOK, ObjectRecords
<1>3. IsFiniteSet(D)
  BY <1>1, FS_AddElement DEF WorldIsCounted
<1>4. e.next \notin DOMAIN e.live /\ e.next \in Nat
  BY <1>1 DEF WorldIsCounted, EditorTypeOK
<1>5. \A a \in D : a < n /\ (a \in DOMAIN e.live \/ e.next <= a)
  BY <1>1, <1>2, <1>4 DEF WorldIsCounted, EditorTypeOK
<1>6. /\ L[e.next].stable = s
      /\ \A a \in DOMAIN e.live : L[a] = e.live[a]
      /\ \A a \in D : a = e.next \/ a \in DOMAIN e.live
  BY <1>4
<1>7. \A a \in DOMAIN e.live : e.live[a].stable # Unmanaged =>
         /\ e.live[a].stable[1] \in 1 .. episode
         /\ e.live[a].stable[1] = episode => e.live[a].stable[2] < n
  BY <1>1 DEF WorldIsCounted, Managed, Counted, EditorTypeOK, ObjectRecords, Identities
<1>8. \A a \in D : L[a].stable # Unmanaged =>
         L[a].stable[1] \in 1 .. episode /\ (L[a].stable[1] = episode => L[a].stable[2] < n)
  <2>1. s[2] \in Nat /\ (s[2] <= e.next => s[2] < n)
    BY <1>4 DEF Identities
  <2> HIDE DEF L, n
  <2> QED BY <1>6, <1>7, <2>1
<1>9. \A a, b \in D : L[a].stable # Unmanaged /\ L[a].stable = L[b].stable => a = b
  <2>1. \A a \in DOMAIN e.live : e.live[a].stable # Unmanaged => e.live[a].stable \in Stables(e)
    BY DEF Stables, Managed
  <2>2. \A a, b \in DOMAIN e.live :
           e.live[a].stable # Unmanaged /\ e.live[a].stable = e.live[b].stable => a = b
    BY <1>1 DEF WorldIsCounted, OneEach, Managed
  <2> HIDE DEF L, D
  <2> QED BY <1>6, <2>1, <2>2
<1>10. Becomes(e, w, L, n, e.docs, e.deletions)
  BY DEF Becomes, With
<1>11. DOMAIN L = D /\ L[e.next] = [stable |-> s, pose |-> at]
  OBVIOUS
<1> HIDE DEF L, n, D, w
<1>12. EditorIsSound(w) /\ GoesOn(e, w) /\ w.live = L
  BY <1>2, <1>3, <1>5, <1>8, <1>9, <1>10, AnotherWorld
<1> QED BY <1>4, <1>6, <1>11, <1>12 DEF w, D

(* Fewer actors, or the same elsewhere.                                    *)
LEMMA FewerKeep ==
  ASSUME NEW e, EditorIsSound(e), NEW D \in SUBSET DOMAIN e.live, NEW L \in [D -> ObjectRecords],
         \A a \in D : L[a].stable = e.live[a].stable,
         NEW w, Becomes(e, w, L, e.next, e.docs, e.deletions)
  PROVE  /\ EditorIsSound(w) /\ GoesOn(e, w)
         /\ w.live = L /\ w.next = e.next /\ w.docs = e.docs /\ w.deletions = e.deletions
<1>1. EditorTypeOK(e) /\ WorldIsCounted(e)
  BY DEF EditorIsSound
<1>2. D \in SUBSET Nat /\ e.next \in Nat /\ e.next <= e.next
  BY <1>1 DEF EditorTypeOK
<1>3. IsFiniteSet(D)
  BY <1>1, FS_Subset DEF WorldIsCounted
<1>4. \A a \in D : a < e.next /\ (a \in DOMAIN e.live \/ e.next <= a)
  BY <1>1 DEF WorldIsCounted
<1>5. \A a \in D : L[a].stable # Unmanaged =>
         L[a].stable[1] \in 1 .. episode /\ (L[a].stable[1] = episode => L[a].stable[2] < e.next)
  BY <1>1 DEF WorldIsCounted, Managed, Counted
<1>6. \A a, b \in D : L[a].stable # Unmanaged /\ L[a].stable = L[b].stable => a = b
  BY <1>1 DEF WorldIsCounted, OneEach, Managed
<1> QED BY <1>2, <1>3, <1>4, <1>5, <1>6, AnotherWorld

(* One actor less.                                                         *)
LEMMA WithoutKeeps ==
  ASSUME NEW e, EditorIsSound(e), NEW a
  PROVE  LET w == Without(e, a)
         IN  /\ EditorIsSound(w) /\ GoesOn(e, w) /\ DOMAIN w.live = DOMAIN e.live \ {a}
             /\ \A b \in DOMAIN w.live : w.live[b] = e.live[b]
             /\ w.next = e.next /\ w.docs = e.docs /\ w.deletions = e.deletions
<1> DEFINE D == DOMAIN e.live \ {a}
           L == [b \in D |-> e.live[b]]
           w == Without(e, a)
<1>1. L \in [D -> ObjectRecords] /\ \A b \in D : L[b].stable = e.live[b].stable
  BY DEF EditorIsSound, EditorTypeOK
<1>2. Becomes(e, w, L, e.next, e.docs, e.deletions)
  BY DEF Becomes, Without
<1>3. DOMAIN L = D /\ \A b \in D : L[b] = e.live[b]
  OBVIOUS
<1>4. D \in SUBSET DOMAIN e.live
  OBVIOUS
<1> HIDE DEF L, D, w
<1>5. /\ EditorIsSound(w) /\ GoesOn(e, w)
      /\ w.live = L /\ w.next = e.next /\ w.docs = e.docs /\ w.deletions = e.deletions
  BY <1>1, <1>2, <1>4, FewerKeep
<1> QED BY <1>3, <1>5 DEF w, D

(* A capture has every object of the studio, where it is.                  *)
LEMMA CaptureIs ==
  ASSUME NEW e, EditorTypeOK(e), WorldIsCounted(e)
  PROVE  /\ IsScene(e, Capture(e)) /\ DOMAIN Capture(e) = Stables(e)
         /\ \A a \in Managed(e) : /\ ActorOf(e, e.live[a].stable) = a
                                  /\ e.live[a].stable \in Stables(e)
                                  /\ Capture(e)[e.live[a].stable] = e.live[a].pose
<1> DEFINE f == [a \in Managed(e) |-> e.live[a].stable]
<1>1. Managed(e) \in SUBSET DOMAIN e.live /\ IsFiniteSet(Managed(e))
  <2>1. Managed(e) \in SUBSET DOMAIN e.live BY DEF Managed
  <2> QED BY <2>1, FS_Subset DEF WorldIsCounted
<1>2. f \in Surjection(Managed(e), Stables(e))
  BY DEF Surjection, Stables
<1>3. IsFiniteSet(Stables(e))
  <2> HIDE DEF f
  <2> QED BY <1>1, <1>2, FS_Surjection
<1>4. \A a \in Managed(e) : ActorOf(e, e.live[a].stable) = a /\ e.live[a].stable \in Stables(e)
  BY DEF ActorOf, Stables, WorldIsCounted, OneEach
<1>5. \A s \in Stables(e) : \E a \in Managed(e) : s = e.live[a].stable /\ ActorOf(e, s) = a
  BY <1>4 DEF Stables
<1>6. \A a \in Managed(e) : e.live[a].stable \in Identities /\ e.live[a].pose \in Places
  BY <1>1 DEF EditorTypeOK, ObjectRecords
<1>7. \A s \in Stables(e) :
         s \in Identities /\ e.live[ActorOf(e, s)].pose \in Places /\ Counted(e, s)
  BY <1>5, <1>6 DEF WorldIsCounted
<1> QED BY <1>3, <1>4, <1>7 DEF Capture, IsScene

-----------------------------------------------------------------------------
(* What is filed: backups of what was there, and journals of deletions     *)
(* behind them.                                                            *)
LEMMA FilingKeeps ==
  ASSUME NEW e, EditorIsSound(e), NEW D \in SUBSET DOMAIN e.live, NEW L \in [D -> ObjectRecords],
         \A a \in D : L[a].stable = e.live[a].stable,
         NEW docs, docs \in Seq({docs[v] : v \in DOMAIN docs}),
         NEW deletions \in Seq(DeletionRecords),
         \A v \in DOMAIN e.docs : v \in DOMAIN docs /\ docs[v] = e.docs[v],
         \A v \in DOMAIN docs : v \in DOMAIN e.docs \/ IsScene(e, docs[v]),
         \A k \in DOMAIN e.deletions : k \in DOMAIN deletions /\ deletions[k] = e.deletions[k],
         \A k \in DOMAIN deletions :
            \/ k \in DOMAIN e.deletions
            \/ /\ Counted(e, deletions[k].actor)
               /\ deletions[k].version \in DOMAIN docs
               /\ deletions[k].stable \in DOMAIN docs[deletions[k].version]
               /\ deletions[k].state = "confirmed" => deletions[k].actor[2] \notin D,
         NEW w, w = [live |-> L, next |-> e.next, docs |-> docs, deletions |-> deletions]
  PROVE  EditorIsSound(w) /\ GoesOn(e, w)
<1>1. EditorTypeOK(e) /\ WorldIsCounted(e)
  BY DEF EditorIsSound
<1>2. w.live = L /\ w.next = e.next /\ w.docs = docs /\ w.deletions = deletions /\ DOMAIN L = D
  OBVIOUS
<1> DEFINE u == [e EXCEPT !.live = L]
<1>3. Becomes(e, u, L, e.next, e.docs, e.deletions)
  BY DEF Becomes
<1> HIDE DEF u
<1>4. EditorIsSound(u) /\ u.live = L /\ u.next = e.next /\ u.docs = e.docs
      /\ u.deletions = e.deletions
  BY <1>3, FewerKeep
<1>5. EditorTypeOK(w)
  BY <1>1, <1>2 DEF EditorTypeOK
<1>6. WorldIsCounted(w)
  BY <1>2, <1>4 DEF EditorIsSound, WorldIsCounted, OneEach, Managed, Counted
<1>7. \A doc : IsScene(e, doc) => IsScene(w, doc)
  BY <1>2 DEF IsScene, Counted
<1>8. \A v \in DOMAIN w.docs : IsScene(w, w.docs[v])
  BY <1>2, <1>7 DEF EditorIsSound
<1>9. ASSUME NEW k \in DOMAIN w.deletions PROVE DeletionIsKept(w, w.deletions[k])
  <2>1. CASE k \in DOMAIN e.deletions
    <3>1. w.deletions[k] = u.deletions[k] /\ DeletionIsKept(u, u.deletions[k])
      BY <1>2, <1>4, <2>1 DEF EditorIsSound
    <3> QED BY <1>2, <1>4, <3>1 DEF DeletionIsKept, Counted
  <2>2. CASE k \notin DOMAIN e.deletions
    BY <1>2, <2>2 DEF DeletionIsKept, Counted
  <2> QED BY <2>1, <2>2
<1>10. GoesOn(e, w)
  BY <1>1, <1>2 DEF GoesOn, EditorTypeOK
<1> QED BY <1>5, <1>6, <1>8, <1>9, <1>10 DEF EditorIsSound

(* A backup is one more version, a capture of what is there.               *)
LEMMA BackedUpKeeps ==
  ASSUME NEW e, EditorIsSound(e)
  PROVE  LET w == BackedUp(e)
         IN  /\ EditorIsSound(w) /\ GoesOn(e, w)
             /\ w.live = e.live /\ w.next = e.next /\ w.deletions = e.deletions
             /\ DOMAIN e.docs = 1 .. Len(e.docs) /\ DOMAIN w.docs = 1 .. Len(w.docs)
             /\ Len(e.docs) \in Nat /\ Len(w.docs) = Len(e.docs) + 1
             /\ w.docs[Len(w.docs)] = Capture(e)
<1> DEFINE docs == Append(e.docs, Capture(e))
           w == BackedUp(e)
           S == {e.docs[v] : v \in DOMAIN e.docs}
<1>1. EditorTypeOK(e) /\ WorldIsCounted(e) /\ e.docs \in Seq(S)
  BY DEF EditorIsSound, EditorTypeOK
<1>2. /\ docs \in Seq({docs[v] : v \in DOMAIN docs})
      /\ Len(docs) = Len(e.docs) + 1 /\ Len(e.docs) \in Nat
      /\ DOMAIN e.docs = 1 .. Len(e.docs) /\ DOMAIN docs = 1 .. Len(e.docs) + 1
      /\ \A i \in DOMAIN e.docs : docs[i] = e.docs[i]
      /\ docs[Len(e.docs) + 1] = Capture(e)
  BY <1>1, FiledBehind
<1>3. IsScene(e, Capture(e))
  BY <1>1, CaptureIs
<1>4. Becomes(e, w, e.live, e.next, docs, e.deletions)
  BY DEF Becomes, BackedUp
<1> HIDE DEF docs, w
<1>5. w = [live |-> e.live, next |-> e.next, docs |-> docs, deletions |-> e.deletions]
  BY <1>1, <1>4, EditorBecomes
<1>6. \A v \in DOMAIN docs : v \in DOMAIN e.docs \/ v = Len(e.docs) + 1
  BY <1>2
<1>7. EditorIsSound(w) /\ GoesOn(e, w)
  <2>1. /\ DOMAIN e.live \in SUBSET DOMAIN e.live /\ e.live \in [DOMAIN e.live -> ObjectRecords]
        /\ e.deletions \in Seq(DeletionRecords)
        /\ docs \in Seq({docs[v] : v \in DOMAIN docs})
    BY <1>1, <1>2 DEF EditorTypeOK
  <2>2. /\ \A v \in DOMAIN e.docs : v \in DOMAIN docs /\ docs[v] = e.docs[v]
        /\ \A v \in DOMAIN docs : v \in DOMAIN e.docs \/ IsScene(e, docs[v])
    BY <1>2, <1>3, <1>6
  <2> QED BY <1>5, <2>1, <2>2, FilingKeeps
<1>8. w.live = e.live /\ w.next = e.next /\ w.docs = docs /\ w.deletions = e.deletions
  BY <1>5
<1> QED BY <1>2, <1>7, <1>8 DEF w

(* A deletion that is recorded, before the actor is gone or after: D is    *)
(* who is left.  Its record, the last one, has a backup of what it deletes.*)
Deleted(e, a, state, w, D) ==
    \/ w = DeletionRecorded(e, a, state) /\ state = "open" /\ D = DOMAIN e.live
    \/ w = Without(DeletionRecorded(e, a, state), a) /\ D = DOMAIN e.live \ {a}

HasRecord(e, a, w) ==
    LET k == Len(w.deletions)
        d == w.deletions[k]
    IN  /\ k \in DOMAIN w.deletions
        /\ d.actor = <<episode, a>> /\ d.stable = e.live[a].stable
        /\ d.version \in DOMAIN w.docs /\ d.stable \in DOMAIN w.docs[d.version]
        /\ w.docs[d.version][d.stable] = e.live[a].pose

(* A recorded deletion is sound, and its record has what it deleted.       *)
LEMMA DeletionKeeps ==
  ASSUME NEW e, EditorIsSound(e), episode \in Nat \ {0}, NEW a \in Managed(e),
         NEW state \in {"confirmed", "open"}, NEW w, NEW D, Deleted(e, a, state, w, D)
  PROVE  /\ EditorIsSound(w) /\ GoesOn(e, w) /\ w.next = e.next
         /\ DOMAIN w.live = D /\ \A b \in D : w.live[b] = e.live[b]
         /\ HasRecord(e, a, w)
<1> DEFINE b == BackedUp(e)
           d == [actor |-> <<episode, a>>, stable |-> e.live[a].stable,
                 version |-> Len(b.docs), state |-> state]
           deletions == Append(b.deletions, d)
           r == DeletionRecorded(e, a, state)
           L == [x \in D |-> e.live[x]]
<1>1. EditorTypeOK(e) /\ WorldIsCounted(e)
  BY DEF EditorIsSound
<1>2. /\ EditorIsSound(b) /\ GoesOn(e, b)
      /\ b.live = e.live /\ b.next = e.next /\ b.deletions = e.deletions
      /\ DOMAIN b.docs = 1 .. Len(b.docs) /\ Len(b.docs) \in DOMAIN b.docs /\ Len(b.docs) \in Nat
      /\ b.docs[Len(b.docs)] = Capture(e)
  BY BackedUpKeeps
<1> HIDE DEF b
<1>3. a \in DOMAIN e.live /\ e.live[a] \in ObjectRecords /\ a \in Nat /\ a < e.next
      /\ D \in SUBSET DOMAIN e.live
  BY <1>1 DEF Managed, EditorTypeOK, WorldIsCounted, Deleted
<1>4. d \in DeletionRecords
  BY <1>2, <1>3 DEF DeletionRecords, ObjectRecords, Identities
<1>5. e.deletions \in Seq(DeletionRecords)
  BY <1>1 DEF EditorTypeOK
<1>6. /\ deletions \in Seq(DeletionRecords)
      /\ Len(deletions) = Len(e.deletions) + 1 /\ Len(e.deletions) \in Nat
      /\ DOMAIN e.deletions = 1 .. Len(e.deletions)
      /\ DOMAIN deletions = 1 .. Len(e.deletions) + 1
      /\ \A i \in DOMAIN e.deletions : deletions[i] = e.deletions[i]
      /\ deletions[Len(e.deletions) + 1] = d
  <2> HIDE DEF d
  <2> QED BY <1>2, <1>4, <1>5, FiledBehind
<1>7. r = [live |-> e.live, next |-> e.next, docs |-> b.docs, deletions |-> deletions]
  <2>1. Becomes(b, r, b.live, b.next, b.docs, deletions)
    BY DEF Becomes, DeletionRecorded, b
  <2> HIDE DEF r, deletions
  <2> QED BY <1>2, <2>1, EditorBecomes DEF EditorIsSound
<1>8. w = [live |-> L, next |-> e.next, docs |-> b.docs, deletions |-> deletions]
  <2> HIDE DEF deletions, d
  <2>1. CASE w = r /\ D = DOMAIN e.live
    <3>1. L = e.live BY <1>1, <2>1 DEF EditorTypeOK
    <3> QED BY <1>7, <2>1, <3>1
  <2>2. CASE w = Without(r, a) /\ D = DOMAIN e.live \ {a}
    <3> HIDE DEF r
    <3>1. [x \in DOMAIN r.live \ {a} |-> r.live[x]] = L
      BY <1>7, <2>2
    <3> HIDE DEF L
    <3>2. w = [r EXCEPT !.live = L]
      BY <2>2, <3>1 DEF Without
    <3> QED BY <1>7, <3>2
  <2> QED BY <2>1, <2>2 DEF Deleted
<1>9. /\ L \in [D -> ObjectRecords]
      /\ \A x \in D : L[x] = e.live[x] /\ L[x].stable = b.live[x].stable
  BY <1>1, <1>2, <1>3 DEF EditorTypeOK
<1>10. Counted(b, d.actor) /\ d.stable \in DOMAIN b.docs[Len(b.docs)]
       /\ b.docs[Len(b.docs)][d.stable] = e.live[a].pose
  BY <1>1, <1>2, <1>3, CaptureIs DEF Counted
<1>11. state = "confirmed" => d.actor[2] \notin D
  BY DEF Deleted
<1>12. d.actor = <<episode, a>> /\ d.stable = e.live[a].stable /\ d.version = Len(b.docs)
       /\ d.state = state
  OBVIOUS
<1>13. \A k \in DOMAIN deletions : k \in DOMAIN e.deletions \/ deletions[k] = d
  BY <1>6
<1> HIDE DEF L, deletions, d, r
<1>14. EditorIsSound(w) /\ GoesOn(b, w)
  <2>1. b.docs \in Seq({b.docs[v] : v \in DOMAIN b.docs})
    BY <1>2 DEF EditorIsSound, EditorTypeOK
  <2>2. /\ D \in SUBSET DOMAIN b.live /\ \A x \in D : L[x].stable = b.live[x].stable
        /\ w = [live |-> L, next |-> b.next, docs |-> b.docs, deletions |-> deletions]
    BY <1>2, <1>3, <1>8, <1>9
  <2>3. \A k \in DOMAIN b.deletions : k \in DOMAIN deletions /\ deletions[k] = b.deletions[k]
    BY <1>2, <1>6
  <2>4. \A k \in DOMAIN deletions :
            \/ k \in DOMAIN b.deletions
            \/ /\ Counted(b, deletions[k].actor)
               /\ deletions[k].version \in DOMAIN b.docs
               /\ deletions[k].stable \in DOMAIN b.docs[deletions[k].version]
               /\ deletions[k].state = "confirmed" => deletions[k].actor[2] \notin D
    BY <1>2, <1>10, <1>11, <1>12, <1>13
  <2> QED
    BY <1>2, <1>6, <1>9, <2>1, <2>2, <2>3, <2>4, FilingKeeps
<1>15. GoesOn(e, w)
  BY <1>1, <1>2, <1>14, GoesOnAndOn DEF EditorIsSound
<1>16. w.live = L /\ w.next = e.next /\ w.docs = b.docs /\ w.deletions = deletions
  BY <1>8
<1>17. DOMAIN L = D
  BY DEF L
<1>18. Len(deletions) \in DOMAIN deletions /\ deletions[Len(deletions)] = d
  BY <1>6
<1> QED BY <1>2, <1>9, <1>10, <1>12, <1>14, <1>15, <1>16, <1>17, <1>18 DEF HasRecord

-----------------------------------------------------------------------------
(* The handlers, one after the other, however they come out.               *)
LEMMA NothingGoesOn == \A e : EditorIsSound(e) => GoesOn(e, e)
  BY DEF GoesOn, EditorIsSound, EditorTypeOK

(* spawn_object.                                                           *)
LEMMA SpawnKeeps ==
  ASSUME NEW e, EditorIsSound(e), episode \in Nat \ {0}, NEW at \in Places,
         NEW r \in SpawnResults(e, at)
  PROVE  /\ EditorIsSound(r.ed) /\ GoesOn(e, r.ed)
         /\ \A a \in DOMAIN e.live : a \in DOMAIN r.ed.live /\ r.ed.live[a] = e.live[a]
         /\ r.end = "ok" => /\ e.next \in DOMAIN r.ed.live
                            /\ r.ed.live[e.next].stable = <<episode, e.next>>
                            /\ <<episode, e.next>> # Unmanaged
<1> DEFINE own == <<episode, e.next>>
           gone == [e EXCEPT !.next = @ + 1]
<1>1. EditorTypeOK(e) /\ WorldIsCounted(e) /\ e.next \in Nat
  BY DEF EditorIsSound, EditorTypeOK
<1>2. own \in Identities /\ own # Unmanaged /\ Unmanaged \in Identities /\ own \notin Stables(e)
  <2>1. \A a \in Managed(e) : Counted(e, e.live[a].stable)
    BY <1>1 DEF WorldIsCounted
  <2>2. ~Counted(e, own)
    BY <1>1 DEF Counted
  <2>3. own \notin Stables(e)
    BY <2>1, <2>2 DEF Stables
  <2> QED BY <1>1, <2>3 DEF Identities, Unmanaged
<1>3. ASSUME NEW s \in {own, Unmanaged}
      PROVE  LET w == With(e, s, at)
             IN  /\ EditorIsSound(w) /\ GoesOn(e, w) /\ e.next \in DOMAIN w.live
                 /\ w.live[e.next].stable = s
                 /\ \A a \in DOMAIN e.live : a \in DOMAIN w.live /\ w.live[a] = e.live[a]
  <2>1. s \in Identities /\ (s # Unmanaged => s[1] \in 1 .. episode
                              /\ (s[1] = episode => s[2] <= e.next) /\ s \notin Stables(e))
    <3>1. own[1] = episode /\ own[2] = e.next /\ e.next <= e.next /\ episode \in 1 .. episode
      BY <1>1
    <3> QED BY <1>2, <3>1
  <2> HIDE DEF own
  <2>2. PICK w : w = With(e, s, at)
    OBVIOUS
  <2>3. /\ EditorIsSound(w) /\ GoesOn(e, w) /\ DOMAIN w.live = DOMAIN e.live \cup {e.next}
        /\ w.live[e.next] = [stable |-> s, pose |-> at]
        /\ \A a \in DOMAIN e.live : w.live[a] = e.live[a]
    BY <2>1, <2>2, WithKeeps
  <2> QED BY <2>2, <2>3
<1>4. EditorIsSound(gone) /\ GoesOn(e, gone) /\ gone.live = e.live
  <2>1. Becomes(e, gone, e.live, e.next + 1, e.docs, e.deletions)
    BY DEF Becomes
  <2>2. /\ DOMAIN e.live \in SUBSET Nat /\ e.live \in [DOMAIN e.live -> ObjectRecords]
        /\ IsFiniteSet(DOMAIN e.live) /\ e.next + 1 \in Nat /\ e.next <= e.next + 1
        /\ \A a \in DOMAIN e.live : a < e.next + 1 /\ a \in DOMAIN e.live
    BY <1>1 DEF EditorTypeOK, WorldIsCounted
  <2>3. \A a \in DOMAIN e.live : e.live[a].stable # Unmanaged =>
           /\ e.live[a].stable[1] \in 1 .. episode
           /\ e.live[a].stable[1] = episode => e.live[a].stable[2] < e.next + 1
    BY <1>1 DEF WorldIsCounted, Managed, Counted, EditorTypeOK, ObjectRecords, Identities
  <2>4. \A a, b \in DOMAIN e.live :
           e.live[a].stable # Unmanaged /\ e.live[a].stable = e.live[b].stable => a = b
    BY <1>1 DEF WorldIsCounted, OneEach, Managed
  <2> HIDE DEF gone
  <2> QED BY <2>1, <2>2, <2>3, <2>4, AnotherWorld
<1> HIDE DEF own, gone
<1>5. \/ \E s \in {own, Unmanaged}, end \in {"ok", "failed", "cut"} :
            r = Out(With(e, s, at), end) /\ (end = "ok" => s = own)
      \/ r = Out(e, "failed")
      \/ r = Out(gone, "failed")
  BY DEF SpawnResults, own, gone
<1>6. CASE \E s \in {own, Unmanaged}, end \in {"ok", "failed", "cut"} :
            r = Out(With(e, s, at), end) /\ (end = "ok" => s = own)
  <2>1. PICK s \in {own, Unmanaged}, end \in {"ok", "failed", "cut"} :
            r = Out(With(e, s, at), end) /\ (end = "ok" => s = own)
    BY <1>6
  <2>2. r.ed = With(e, s, at) /\ r.end = end
    BY <2>1 DEF Out
  <2> QED BY <1>2, <1>3, <2>1, <2>2 DEF own
<1>7. CASE r = Out(e, "failed") \/ r = Out(gone, "failed")
  <2>1. r.end = "failed" /\ (r.ed = e \/ r.ed = gone)
    BY <1>7 DEF Out
  <2> QED BY <1>4, <2>1, NothingGoesOn
<1> QED BY <1>5, <1>6, <1>7

(* delete_actor: only that actor goes, and not without a record.           *)
LEMMA DeleteKeeps ==
  ASSUME NEW e, EditorIsSound(e), episode \in Nat \ {0}, NEW a \in DOMAIN e.live,
         NEW r \in DeleteResults(e, a)
  PROVE  /\ EditorIsSound(r.ed) /\ GoesOn(e, r.ed)
         /\ \A b \in DOMAIN e.live \ {a} : b \in DOMAIN r.ed.live /\ r.ed.live[b] = e.live[b]
         /\ a \in Managed(e) /\ (r.end = "ok" \/ a \notin DOMAIN r.ed.live) =>
               HasRecord(e, a, r.ed)
<1>1. CASE r.ed = e /\ r.end = "failed"
  BY <1>1, NothingGoesOn
<1>2. CASE r.ed = Without(e, a) /\ a \notin Managed(e)
  BY <1>2, WithoutKeeps
<1>3. CASE r.ed = BackedUp(e) /\ r.end # "ok"
  BY <1>3, BackedUpKeeps
<1>4. ASSUME NEW state \in {"confirmed", "open"}, a \in Managed(e),
             r.ed = Without(DeletionRecorded(e, a, state), a)
      PROVE  /\ EditorIsSound(r.ed) /\ GoesOn(e, r.ed) /\ HasRecord(e, a, r.ed)
             /\ \A b \in DOMAIN e.live \ {a} : b \in DOMAIN r.ed.live /\ r.ed.live[b] = e.live[b]
  <2>1. Deleted(e, a, state, r.ed, DOMAIN e.live \ {a})
    BY <1>4 DEF Deleted
  <2> QED BY <1>4, <2>1, DeletionKeeps
<1>5. CASE a \in Managed(e) /\ r.ed = DeletionRecorded(e, a, "open") /\ r.end # "ok"
  <2>1. Deleted(e, a, "open", r.ed, DOMAIN e.live) /\ a \in DOMAIN e.live
    BY <1>5 DEF Deleted
  <2>2. /\ EditorIsSound(r.ed) /\ GoesOn(e, r.ed) /\ DOMAIN r.ed.live = DOMAIN e.live
        /\ \A b \in DOMAIN e.live : r.ed.live[b] = e.live[b]
    BY <1>5, <2>1, DeletionKeeps
  <2> QED BY <1>5, <2>1, <2>2
<1>6. \/ r.ed = e /\ r.end = "failed"
      \/ r.ed = Without(e, a) /\ a \notin Managed(e)
      \/ r.ed = BackedUp(e) /\ r.end # "ok"
      \/ /\ a \in Managed(e)
         /\ \E state \in {"confirmed", "open"} : r.ed = Without(DeletionRecorded(e, a, state), a)
      \/ a \in Managed(e) /\ r.ed = DeletionRecorded(e, a, "open") /\ r.end # "ok"
  BY DEF DeleteResults, Out
<1> QED BY <1>1, <1>2, <1>3, <1>4, <1>5, <1>6

(* Objects of a scene placed: an identity that is there is not made again. *)
LEMMA PlacedKeeps ==
  ASSUME NEW e, EditorIsSound(e), NEW doc, IsScene(e, doc), NEW S \in SUBSET DOMAIN doc
  PROVE  LET w == Placed(e, doc, S)
         IN  /\ EditorIsSound(w) /\ GoesOn(e, w)
             /\ \A a \in DOMAIN e.live :
                   a \in DOMAIN w.live /\ w.live[a].stable = e.live[a].stable
             /\ \A a \in DOMAIN w.live \ DOMAIN e.live : a \in Managed(w)
             /\ \A s \in S : \E a \in Managed(w) : w.live[a] = [stable |-> s, pose |-> doc[s]]
<1> DEFINE missing == S \ Stables(e)
           n == Cardinality(missing)
           new == InOrder(missing)
           made == e.next .. e.next + n - 1
           D == DOMAIN e.live \cup made
           L == [a \in D |->
                   IF a \in made
                   THEN [stable |-> new[a - e.next + 1], pose |-> doc[new[a - e.next + 1]]]
                   ELSE [e.live[a] EXCEPT !.pose = IF e.live[a].stable \in S
                                                   THEN doc[e.live[a].stable] ELSE @]]
           w == Placed(e, doc, S)
<1>1. EditorTypeOK(e) /\ WorldIsCounted(e) /\ e.next \in Nat /\ DOMAIN e.live \in SUBSET Nat
  BY DEF EditorIsSound, EditorTypeOK
<1>2. /\ n \in Nat /\ new \in [1 .. n -> missing]
      /\ \A x \in missing : \E i \in 1 .. n : new[i] = x
      /\ \A i, j \in 1 .. n : new[i] = new[j] => i = j
  <2>1. missing \in SUBSET DOMAIN doc
    OBVIOUS
  <2>2. IsFiniteSet(missing)
    BY <2>1, FS_Subset DEF IsScene
  <2> HIDE DEF missing
  <2> QED BY <2>2, InOrderIs
<1>3. Becomes(e, w, L, e.next + n, e.docs, e.deletions)
  BY DEF Becomes, Placed
<1>4. \A s \in S : s \in Identities /\ s # Unmanaged /\ doc[s] \in Places /\ Counted(e, s)
  BY <1>1 DEF IsScene, Counted, Unmanaged
<1>5. \A a \in DOMAIN e.live : a \notin made /\ e.live[a] \in ObjectRecords
  BY <1>1 DEF WorldIsCounted, EditorTypeOK
<1> HIDE DEF n, new
<1>6. \A a \in made : a - e.next + 1 \in 1 .. n /\ a \in Nat /\ a < e.next + n /\ e.next <= a
  BY <1>1, <1>2
<1>7. \A a \in made : \E s : s = new[a - e.next + 1] /\ L[a] = [stable |-> s, pose |-> doc[s]]
  OBVIOUS
<1>8. ASSUME NEW a \in DOMAIN e.live
      PROVE  /\ L[a] \in ObjectRecords /\ L[a].stable = e.live[a].stable
             /\ L[a].stable \in S => L[a] = [stable |-> L[a].stable, pose |-> doc[L[a].stable]]
  <2> DEFINE p == IF e.live[a].stable \in S THEN doc[e.live[a].stable] ELSE e.live[a].pose
  <2>1. L[a] = [e.live[a] EXCEPT !.pose = p]
    BY <1>5
  <2>2. p \in Places
    BY <1>4, <1>5 DEF ObjectRecords
  <2> HIDE DEF L
  <2>3. L[a] = [stable |-> e.live[a].stable, pose |-> p]
    <3> HIDE DEF p
    <3> QED BY <1>5, <2>1 DEF ObjectRecords
  <2> QED BY <1>5, <2>2, <2>3 DEF ObjectRecords
<1>9. \A a \in made : /\ L[a].stable \in missing /\ L[a] \in ObjectRecords
                      /\ L[a] = [stable |-> L[a].stable, pose |-> doc[L[a].stable]]
  <2> SUFFICES ASSUME NEW a \in made
               PROVE  /\ L[a].stable \in missing /\ L[a] \in ObjectRecords
                      /\ L[a] = [stable |-> L[a].stable, pose |-> doc[L[a].stable]]
    OBVIOUS
  <2> HIDE DEF L, made
  <2>1. PICK s : s = new[a - e.next + 1] /\ L[a] = [stable |-> s, pose |-> doc[s]]
    BY <1>7
  <2>2. s \in missing
    BY <1>2, <1>6, <2>1
  <2> QED BY <1>4, <2>1, <2>2 DEF ObjectRecords
<1>10. DOMAIN L = D /\ L \in [D -> ObjectRecords]
  <2>1. L = [a \in D |-> L[a]] OBVIOUS
  <2> HIDE DEF L
  <2> QED BY <1>8, <1>9, <2>1
<1>11. D \in SUBSET Nat /\ \A a \in D : a < e.next + n /\ (a \in DOMAIN e.live \/ e.next <= a)
  <2> HIDE DEF made
  <2>1. \A a \in DOMAIN e.live : a < e.next + n
    BY <1>1, <1>2 DEF WorldIsCounted
  <2> QED BY <1>1, <1>6, <2>1
<1>12. IsFiniteSet(D)
  <2>1. e.next \in Int /\ e.next + n - 1 \in Int
    BY <1>1, <1>2
  <2>2. IsFiniteSet(made)
    BY <2>1, FS_Interval
  <2> HIDE DEF made
  <2> QED BY <1>1, <2>2, FS_Union DEF WorldIsCounted
<1>13. e.next + n \in Nat /\ e.next <= e.next + n
  BY <1>1, <1>2
<1> HIDE DEF L, made, w
<1>14. \A a \in D : L[a].stable # Unmanaged =>
         /\ L[a].stable[1] \in 1 .. episode
         /\ L[a].stable[1] = episode => L[a].stable[2] < e.next + n
  <2>1. \A s \in Identities : Counted(e, s) =>
           s[1] \in 1 .. episode /\ (s[1] = episode => s[2] < e.next + n)
    BY <1>1, <1>2 DEF Counted, Identities
  <2>2. \A a \in DOMAIN e.live : L[a].stable # Unmanaged => Counted(e, L[a].stable)
    BY <1>1, <1>8 DEF WorldIsCounted, Managed
  <2>3. \A a \in made : Counted(e, L[a].stable)
    BY <1>4, <1>9
  <2>4. \A a \in D : L[a].stable \in Identities
    BY <1>10 DEF ObjectRecords
  <2> QED BY <2>1, <2>2, <2>3, <2>4
<1>15. \A a, b \in D : L[a].stable # Unmanaged /\ L[a].stable = L[b].stable => a = b
  <2>1. \A a, b \in DOMAIN e.live : L[a].stable # Unmanaged /\ L[a].stable = L[b].stable => a = b
    BY <1>1, <1>8 DEF WorldIsCounted, OneEach, Managed
  <2>2. \A a \in DOMAIN e.live : L[a].stable # Unmanaged => L[a].stable \in Stables(e)
    BY <1>8 DEF Stables, Managed
  <2>3. \A a \in made : L[a].stable \notin Stables(e) /\ L[a].stable # Unmanaged
    BY <1>4, <1>9
  <2>4. ASSUME NEW a \in made, NEW b \in made, L[a].stable = L[b].stable PROVE a = b
    <3>1. new[a - e.next + 1] = new[b - e.next + 1]
      <4>1. L[a].stable = new[a - e.next + 1] /\ L[b].stable = new[b - e.next + 1]
        <5>1. PICK s : s = new[a - e.next + 1] /\ L[a] = [stable |-> s, pose |-> doc[s]]
          BY <1>7
        <5>2. PICK t : t = new[b - e.next + 1] /\ L[b] = [stable |-> t, pose |-> doc[t]]
          BY <1>7
        <5> QED BY <5>1, <5>2
      <4> QED BY <2>4, <4>1
    <3>2. a - e.next + 1 = b - e.next + 1
      BY <1>2, <1>6, <3>1
    <3> QED BY <1>1, <1>6, <3>2
  <2> QED BY <2>1, <2>2, <2>3, <2>4
<1>16. EditorIsSound(w) /\ GoesOn(e, w) /\ w.live = L
  <2> HIDE DEF D
  <2> QED BY <1>3, <1>10, <1>11, <1>12, <1>13, <1>14, <1>15, AnotherWorld
<1>17. ASSUME NEW s \in S PROVE \E a \in Managed(w) : w.live[a] = [stable |-> s, pose |-> doc[s]]
  <2>1. CASE s \in Stables(e)
    <3>1. PICK a \in DOMAIN e.live : s = e.live[a].stable
      BY <2>1 DEF Stables, Managed
    <3>2. L[a] = [stable |-> s, pose |-> doc[s]] /\ L[a].stable # Unmanaged /\ a \in D
      BY <1>4, <1>8, <3>1
    <3> QED BY <1>10, <1>16, <3>2 DEF Managed
  <2>2. CASE s \notin Stables(e)
    <3>1. PICK i \in 1 .. n : new[i] = s
      BY <1>2, <2>2
    <3>2. e.next + i - 1 \in made /\ e.next + i - 1 - e.next + 1 = i
      BY <1>1, <1>2 DEF made
    <3>3. L[e.next + i - 1] = [stable |-> s, pose |-> doc[s]] /\ e.next + i - 1 \in D
      <4>1. PICK x \in made : x = e.next + i - 1
        BY <3>2
      <4>2. x - e.next + 1 = i
        BY <1>1, <1>2, <4>1
      <4>3. L[x] = [stable |-> s, pose |-> doc[s]] /\ x \in D
        BY <1>7, <3>1, <4>2
      <4> QED BY <4>1, <4>3
    <3> QED BY <1>4, <1>10, <1>16, <3>3 DEF Managed
  <2> QED BY <2>1, <2>2
<1>18. \A a \in made : a \in Managed(w)
  BY <1>4, <1>9, <1>10, <1>16 DEF Managed
<1> QED BY <1>8, <1>10, <1>16, <1>17, <1>18 DEF w

(* The compensation: every object it deletes was there when it was backed  *)
(* up, because they are deleted one after the other, each of them once.    *)
LEMMA PutBackKeeps ==
  ASSUME NEW e, EditorIsSound(e), episode \in Nat \ {0}, NEW w, EditorIsSound(w), GoesOn(e, w),
         \A a \in DOMAIN e.live : a \in DOMAIN w.live /\ w.live[a].stable = e.live[a].stable,
         \A a \in DOMAIN w.live \ DOMAIN e.live : a \in Managed(w)
  PROVE  LET r == PutBack(e, w)
         IN  EditorIsSound(r) /\ GoesOn(e, r) /\ r.live = e.live
<1> DEFINE D == DOMAIN e.live
           new == DOMAIN w.live \ DOMAIN e.live
           n == Cardinality(new)
           created == InOrder(new)
           back == [a \in DOMAIN w.live |-> IF a \in DOMAIN e.live THEN e.live[a] ELSE w.live[a]]
           left(k) == DOMAIN w.live \ {created[i] : i \in 1 .. k - 1}
           then(k) == [w EXCEPT !.live = [a \in left(k) |-> back[a]]]
           journal(k) == [actor |-> <<episode, created[k]>>, stable |-> back[created[k]].stable,
                          version |-> Len(w.docs) + k, state |-> "confirmed"]
           filed == [k \in DOMAIN created |-> Capture(then(k))]
           written == [k \in DOMAIN created |-> journal(k)]
           docs == w.docs \o filed
           deletions == w.deletions \o written
           r == PutBack(e, w)
<1>1. /\ EditorTypeOK(e) /\ EditorTypeOK(w) /\ WorldIsCounted(w)
      /\ w.next \in Nat /\ DOMAIN w.live \in SUBSET Nat
  BY DEF EditorIsSound, EditorTypeOK
<1>2. /\ n \in Nat /\ created \in [1 .. n -> new] /\ DOMAIN created = 1 .. n
      /\ \A i, j \in 1 .. n : created[i] = created[j] => i = j
  <2>1. new \in SUBSET DOMAIN w.live
    OBVIOUS
  <2>2. IsFiniteSet(new)
    BY <1>1, <2>1, FS_Subset DEF WorldIsCounted
  <2> HIDE DEF new
  <2> QED BY <2>2, InOrderIs
<1>3. Becomes(w, r, e.live, w.next, docs, deletions)
  BY DEF Becomes, PutBack
<1> HIDE DEF created, n, r
<1>4. r = [live |-> e.live, next |-> w.next, docs |-> docs, deletions |-> deletions]
  <2> HIDE DEF docs, deletions
  <2> QED BY <1>1, <1>3, EditorBecomes
<1>5. ASSUME NEW a \in DOMAIN w.live
      PROVE  /\ back[a] \in ObjectRecords /\ back[a].stable = w.live[a].stable
             /\ a \in new => back[a].stable # Unmanaged
  BY <1>1 DEF EditorTypeOK, Managed
<1> HIDE DEF back
<1>6. ASSUME NEW k \in 1 .. n
      PROVE  /\ IsScene(w, Capture(then(k)))
             /\ back[created[k]].stable \in DOMAIN Capture(then(k))
  <2> DEFINE L == [a \in left(k) |-> back[a]]
             u == then(k)
  <2>1. Becomes(w, u, L, w.next, w.docs, w.deletions)
    BY DEF Becomes
  <2>2. left(k) \in SUBSET DOMAIN w.live
    OBVIOUS
  <2>3. created[k] \in new /\ created[k] \in left(k)
    BY <1>2
  <2> HIDE DEF left, u
  <2>4. L \in [left(k) -> ObjectRecords] /\ \A a \in left(k) : L[a].stable = w.live[a].stable
    BY <1>5, <2>2
  <2>5. DOMAIN L = left(k) /\ L[created[k]] = back[created[k]]
    BY <2>3
  <2> HIDE DEF L
  <2>6. EditorIsSound(u) /\ u.live = L /\ u.next = w.next
    BY <2>1, <2>2, <2>4, FewerKeep
  <2>7. EditorTypeOK(u) /\ WorldIsCounted(u) /\ u.next <= w.next
    BY <1>1, <2>6 DEF EditorIsSound
  <2>8. IsScene(u, Capture(u)) /\ DOMAIN Capture(u) = Stables(u)
    BY <2>7, CaptureIs
  <2>9. IsScene(w, Capture(u))
    BY <1>1, <2>7, <2>8, StaysCounted
  <2>10. back[created[k]].stable \in Stables(u)
    <3>1. u.live[created[k]].stable # Unmanaged /\ created[k] \in DOMAIN u.live
      BY <1>5, <2>3, <2>5, <2>6
    <3> QED BY <2>5, <2>6, <3>1 DEF Stables, Managed
  <2> QED BY <2>8, <2>9, <2>10 DEF u
<1>7. filed = [k \in 1 .. n |-> filed[k]] /\ written = [k \in 1 .. n |-> written[k]]
  BY <1>2
<1>8. \A k \in 1 .. n : filed[k] = Capture(then(k)) /\ written[k] = journal(k)
  BY <1>2
<1>9. /\ docs \in Seq({docs[v] : v \in DOMAIN docs})
      /\ Len(w.docs) \in Nat /\ DOMAIN w.docs = 1 .. Len(w.docs)
      /\ DOMAIN docs = 1 .. Len(w.docs) + n
      /\ \A i \in DOMAIN w.docs : docs[i] = w.docs[i]
      /\ \A k \in 1 .. n : docs[Len(w.docs) + k] = filed[k]
  <2>1. PICK S : w.docs \in Seq(S)
    BY <1>1 DEF EditorTypeOK
  <2>2. filed = [k \in 1 .. n |-> filed[k]] /\ n \in Nat
    BY <1>2, <1>7
  <2> HIDE DEF filed
  <2>3. docs \in Seq({docs[v] : v \in DOMAIN docs})
    <3> DEFINE T == S \cup {filed[k] : k \in 1 .. n}
    <3>1. filed \in [1 .. n -> T]
      BY <2>2
    <3>2. filed \in Seq(T) /\ w.docs \in Seq(T)
      BY <2>1, <2>2, <3>1, SeqDef, SeqMonotonic
    <3>3. docs \in Seq(T)
      BY <3>2, ConcatProperties
    <3> HIDE DEF T, docs
    <3> QED BY <3>3, OfItsOwn
  <2>4. /\ Len(w.docs) \in Nat /\ DOMAIN w.docs = 1 .. Len(w.docs)
        /\ DOMAIN docs = 1 .. Len(w.docs) + n
        /\ \A i \in DOMAIN w.docs : docs[i] = w.docs[i]
        /\ \A k \in 1 .. n : docs[Len(w.docs) + k] = filed[k]
    BY <2>1, <2>2, AllFiledBehind
  <2> QED BY <2>3, <2>4
<1>10. \A k \in 1 .. n : journal(k) \in DeletionRecords
  <2> SUFFICES ASSUME NEW k \in 1 .. n PROVE journal(k) \in DeletionRecords
    OBVIOUS
  <2>1. PICK a \in DOMAIN w.live : a = created[k] /\ a \in Nat
    BY <1>1, <1>2
  <2>2. back[a].stable \in Identities
    BY <1>5, <2>1 DEF ObjectRecords
  <2>3. PICK v \in Nat : v = Len(w.docs) + k
    BY <1>2, <1>9
  <2> QED BY <2>1, <2>2, <2>3 DEF DeletionRecords, Identities
<1>11. /\ deletions \in Seq(DeletionRecords)
       /\ Len(w.deletions) \in Nat /\ DOMAIN w.deletions = 1 .. Len(w.deletions)
       /\ DOMAIN deletions = 1 .. Len(w.deletions) + n
       /\ \A i \in DOMAIN w.deletions : deletions[i] = w.deletions[i]
       /\ \A k \in 1 .. n : deletions[Len(w.deletions) + k] = written[k]
  <2>1. w.deletions \in Seq(DeletionRecords)
    BY <1>1 DEF EditorTypeOK
  <2>2. written \in [1 .. n -> DeletionRecords]
    <3> HIDE DEF journal
    <3> QED BY <1>2, <1>10
  <2> HIDE DEF written, journal
  <2>3. written \in Seq(DeletionRecords)
    BY <1>2, <2>2, SeqDef
  <2>4. deletions \in Seq(DeletionRecords)
    BY <2>1, <2>3, ConcatProperties
  <2> QED BY <1>2, <1>7, <2>1, <2>4, AllFiledBehind
<1>12. \A v \in DOMAIN docs : v \in DOMAIN w.docs \/ IsScene(w, docs[v])
  <2> SUFFICES ASSUME NEW v \in DOMAIN docs, v \notin DOMAIN w.docs PROVE IsScene(w, docs[v])
    OBVIOUS
  <2> HIDE DEF docs, filed, then
  <2>1. PICK k \in 1 .. n : v = Len(w.docs) + k
    <3>1. v - Len(w.docs) \in 1 .. n /\ v = Len(w.docs) + (v - Len(w.docs))
      BY <1>2, <1>9
    <3> QED BY <3>1
  <2> QED BY <1>6, <1>8, <1>9, <2>1
<1>13. \A k \in DOMAIN deletions :
          \/ k \in DOMAIN w.deletions
          \/ /\ Counted(w, deletions[k].actor)
             /\ deletions[k].version \in DOMAIN docs
             /\ deletions[k].stable \in DOMAIN docs[deletions[k].version]
             /\ deletions[k].state = "confirmed" => deletions[k].actor[2] \notin D
  <2> SUFFICES ASSUME NEW j \in DOMAIN deletions, j \notin DOMAIN w.deletions
               PROVE  /\ Counted(w, deletions[j].actor)
                      /\ deletions[j].version \in DOMAIN docs
                      /\ deletions[j].stable \in DOMAIN docs[deletions[j].version]
                      /\ deletions[j].actor[2] \notin D
    OBVIOUS
  <2> HIDE DEF docs, deletions, filed, written, then
  <2>1. PICK k \in 1 .. n : j = Len(w.deletions) + k
    <3>1. j - Len(w.deletions) \in 1 .. n /\ j = Len(w.deletions) + (j - Len(w.deletions))
      BY <1>2, <1>11
    <3> QED BY <3>1
  <2>2. deletions[j] = journal(k)
    BY <1>8, <1>11, <2>1
  <2>3. PICK a \in new : a = created[k] /\ a < w.next
    BY <1>1, <1>2 DEF WorldIsCounted
  <2>4. /\ deletions[j].actor = <<episode, a>> /\ deletions[j].stable = back[a].stable
        /\ deletions[j].version = Len(w.docs) + k
    BY <2>2, <2>3
  <2>5. Len(w.docs) + k \in DOMAIN docs /\ docs[Len(w.docs) + k] = Capture(then(k))
    <3>1. Len(w.docs) + k \in 1 .. Len(w.docs) + n
      BY <1>2, <1>9
    <3>2. docs[Len(w.docs) + k] = filed[k] /\ filed[k] = Capture(then(k))
      BY <1>8, <1>9
    <3> QED BY <1>9, <3>1, <3>2
  <2>6. Counted(w, <<episode, a>>) /\ a \notin D
    BY <2>3 DEF Counted
  <2> QED BY <1>6, <2>3, <2>4, <2>5, <2>6
<1> HIDE DEF docs, deletions
<1>14. EditorIsSound(r) /\ GoesOn(w, r)
  <2>1. /\ D \in SUBSET DOMAIN w.live /\ e.live \in [D -> ObjectRecords]
        /\ \A a \in D : e.live[a].stable = w.live[a].stable
    BY <1>1 DEF EditorTypeOK
  <2> HIDE DEF D
  <2>2. /\ \A v \in DOMAIN w.docs : v \in DOMAIN docs /\ docs[v] = w.docs[v]
        /\ \A k \in DOMAIN w.deletions : k \in DOMAIN deletions /\ deletions[k] = w.deletions[k]
    BY <1>2, <1>9, <1>11
  <2> QED BY <1>4, <1>9, <1>11, <1>12, <1>13, <2>1, <2>2, FilingKeeps
<1>15. GoesOn(e, r) /\ r.live = e.live
  BY <1>1, <1>4, <1>14, GoesOnAndOn DEF EditorIsSound
<1> QED BY <1>14, <1>15 DEF r

(* A restore, however far it comes: who was there is there and is who it   *)
(* was, and when it says "ok" every object of the scene is where it says.  *)
LEMMA RestoreKeeps ==
  ASSUME NEW e, EditorIsSound(e), episode \in Nat \ {0}, NEW doc, IsScene(e, doc),
         NEW r \in RestoreResults(e, doc)
  PROVE  /\ EditorIsSound(r.ed) /\ GoesOn(e, r.ed)
         /\ \A a \in DOMAIN e.live :
               a \in DOMAIN r.ed.live /\ r.ed.live[a].stable = e.live[a].stable
         /\ r.end = "ok" => \A s \in DOMAIN doc :
               \E a \in Managed(r.ed) : r.ed.live[a] = [stable |-> s, pose |-> doc[s]]
<1> DEFINE OK(w) == /\ EditorIsSound(w) /\ GoesOn(e, w)
                    /\ \A a \in DOMAIN e.live :
                          a \in DOMAIN w.live /\ w.live[a].stable = e.live[a].stable
<1>1. EditorTypeOK(e)
  BY DEF EditorIsSound
<1>2. ASSUME NEW S \in SUBSET DOMAIN doc
      PROVE  /\ OK(Placed(e, doc, S)) /\ OK(PutBack(e, Placed(e, doc, S)))
             /\ \A s \in S : \E a \in Managed(Placed(e, doc, S)) :
                   Placed(e, doc, S).live[a] = [stable |-> s, pose |-> doc[s]]
  <2>1. PICK w : w = Placed(e, doc, S)
    OBVIOUS
  <2>2. /\ EditorIsSound(w) /\ GoesOn(e, w)
        /\ \A a \in DOMAIN e.live : a \in DOMAIN w.live /\ w.live[a].stable = e.live[a].stable
        /\ \A a \in DOMAIN w.live \ DOMAIN e.live : a \in Managed(w)
        /\ \A s \in S : \E a \in Managed(w) : w.live[a] = [stable |-> s, pose |-> doc[s]]
    BY <2>1, PlacedKeeps
  <2>3. PICK u : u = PutBack(e, w)
    OBVIOUS
  <2>4. EditorIsSound(u) /\ GoesOn(e, u) /\ u.live = e.live
    BY <2>2, <2>3, PutBackKeeps
  <2> QED BY <2>1, <2>2, <2>3, <2>4
<1>3. ASSUME NEW w, OK(w) PROVE OK(With(w, <<episode, w.next>>, 0))
  <2>1. PICK p \in Places : p = 0
    BY EditorAssumption
  <2>2. PICK x : x = Out(With(w, <<episode, w.next>>, p), "ok")
    OBVIOUS
  <2>3. x \in SpawnResults(w, p) /\ x.ed = With(w, <<episode, w.next>>, 0)
    BY <2>1, <2>2 DEF SpawnResults, Out
  <2>4. /\ EditorIsSound(x.ed) /\ GoesOn(w, x.ed)
        /\ \A a \in DOMAIN w.live : a \in DOMAIN x.ed.live /\ x.ed.live[a] = w.live[a]
    BY <1>3, <2>3, SpawnKeeps
  <2>5. GoesOn(e, x.ed)
    BY <1>1, <1>3, <2>4, GoesOnAndOn DEF EditorIsSound
  <2>6. OK(x.ed)
    BY <1>3, <2>4, <2>5
  <2> QED BY <2>3, <2>6
<1> HIDE DEF OK
<1>4. \/ r = Out(Placed(e, doc, DOMAIN doc), "ok")
      \/ \E S \in SUBSET DOMAIN doc, end \in {"failed", "cut"} :
            LET w == Placed(e, doc, S)
            IN  r \in {Out(PutBack(e, w), end), Out(w, end),
                       Out(With(w, <<episode, w.next>>, 0), end)}
  <2> DEFINE partial == {Placed(e, doc, S) : S \in SUBSET DOMAIN doc}
             stray == {With(w, <<episode, w.next>>, 0) :
                          w \in {v \in partial : DOMAIN doc \ Stables(v) # {}}}
  <2>1. \/ r = Out(Placed(e, doc, DOMAIN doc), "ok")
        \/ \E w \in partial : r = Out(PutBack(e, w), "failed")
        \/ \E w \in partial \cup stray, end \in {"failed", "cut"} : r = Out(w, end)
    BY DEF RestoreResults
  <2>2. \A w \in stray : \E u \in partial : w = With(u, <<episode, u.next>>, 0)
    OBVIOUS
  <2>3. \A w \in partial : \E S \in SUBSET DOMAIN doc : w = Placed(e, doc, S)
    OBVIOUS
  <2> HIDE DEF partial, stray
  <2>4. \/ r = Out(Placed(e, doc, DOMAIN doc), "ok")
        \/ \E w \in partial, end \in {"failed", "cut"} :
              r \in {Out(PutBack(e, w), end), Out(w, end),
                     Out(With(w, <<episode, w.next>>, 0), end)}
    BY <2>1, <2>2
  <2> QED BY <2>3, <2>4
<1>5. CASE r = Out(Placed(e, doc, DOMAIN doc), "ok")
  <2>1. r.ed = Placed(e, doc, DOMAIN doc)
    BY <1>5 DEF Out
  <2> QED BY <1>2, <2>1 DEF OK
<1>6. ASSUME NEW S \in SUBSET DOMAIN doc, NEW end \in {"failed", "cut"},
             LET w == Placed(e, doc, S)
             IN  r \in {Out(PutBack(e, w), end), Out(w, end),
                        Out(With(w, <<episode, w.next>>, 0), end)}
      PROVE  OK(r.ed) /\ r.end # "ok"
  <2>1. PICK w : w = Placed(e, doc, S)
    OBVIOUS
  <2>2. OK(w) /\ OK(PutBack(e, w)) /\ OK(With(w, <<episode, w.next>>, 0))
    BY <1>2, <1>3, <2>1
  <2>3. r.end = end /\ r.ed \in {PutBack(e, w), w, With(w, <<episode, w.next>>, 0)}
    BY <1>6, <2>1 DEF Out
  <2> QED BY <2>2, <2>3
<1>7. CASE OK(r.ed) /\ r.end # "ok"
  BY <1>7 DEF OK
<1> QED BY <1>4, <1>5, <1>6, <1>7

-----------------------------------------------------------------------------
(* Every step of the editor.                                               *)

(* What is sound while the world's id stays is sound after the step.       *)
LEMMA SoundAfter ==
  ASSUME episode' = episode, EditorIsSound(ed')
  PROVE  EditorIsSound(ed)'
<1>1. \A doc : IsScene(ed', doc) <=> IsScene(ed, doc)'
  BY DEF IsScene, Counted
<1> QED
  BY DEF EditorIsSound, EditorTypeOK, WorldIsCounted, OneEach, Managed, Counted, IsScene,
         DeletionIsKept

(* Copies and versions stay what they are while nothing is taken back.     *)
LEMMA CopiesStay ==
  ASSUME EditorInv, EditorTypeOK(ed'), GoesOn(ed, ed'), copies' = copies
  PROVE  CopiesAreKept'
  BY DEF EditorInv, CopiesAreKept, GoesOn

(* The cursor moves along versions that are still on file.                 *)
LEMMA HeadStays ==
  ASSUME EditorInv, GoesOn(ed, ed'), head' \in {head, [head EXCEPT !.cursor = head'.cursor]},
         head'.cursor \in Nat, head'.cursor <= Len(head.history)
  PROVE  HeadIsLine' /\ head'.history = head.history
<1>1. head = [history |-> head.history, cursor |-> head.cursor]
  BY DEF EditorInv, HeadIsLine
<1>2. head'.history = head.history /\ head' = [history |-> head.history, cursor |-> head'.cursor]
  BY <1>1
<1> QED BY <1>2 DEF EditorInv, HeadIsLine, GoesOn

(* What a step may do: an object of the studio leaves behind a record, an  *)
(* undone copy leaves alone, the world follows the cursor of its scene.    *)
LeavesARecord ==
    episode' = episode =>
       \A a \in Managed(ed) \ DOMAIN ed'.live :
          \E k \in DOMAIN ed'.deletions :
             LET d == ed'.deletions[k]
             IN  /\ d.actor = <<episode, a>>
                 /\ d.stable \in DOMAIN ed'.docs[d.version]
                 /\ ed'.docs[d.version][d.stable] = ed.live[a].pose

OnlyTheCopyLeaves ==
    \A i \in DOMAIN copies :
       copies[i].undo = "none" /\ copies'[i].undo # "none" =>
          \A a \in DOMAIN ed.live \ DOMAIN ed'.live :
             /\ <<episode, a>> = copies[i].target
             /\ ed.live[a].stable = copies[i].stable

WorldFollowsCursor ==
    head'.cursor # head.cursor /\ head'.history = head.history /\ ~torn' =>
       LET doc == ed.docs[head.history[head'.cursor]]
       IN  \A s \in DOMAIN doc :
              s \in Stables(ed') /\ ed'.live[ActorOf(ed', s)].pose = doc[s]

LineStep == [SceneLine!LineNext]_<<head.history, head.cursor>>

EditorKeeps ==
    EditorInv' /\ LeavesARecord /\ OnlyTheCopyLeaves /\ WorldFollowsCursor /\ LineStep

(* A record that names an actor is the one that is asked for.              *)
LEMMA RecordIsThere ==
  ASSUME NEW a, HasRecord(ed, a, ed')
  PROVE  \E k \in DOMAIN ed'.deletions :
            LET d == ed'.deletions[k]
            IN  /\ d.actor = <<episode, a>>
                /\ d.stable \in DOMAIN ed'.docs[d.version]
                /\ ed'.docs[d.version][d.stable] = ed.live[a].pose
  BY DEF HasRecord

(* A handler that leaves copies and versions alone.                        *)
LEMMA HandlerKeeps ==
  ASSUME EditorInv, Request, UNCHANGED <<episode, head, copies, torn>>,
         EditorIsSound(ed'), GoesOn(ed, ed'),
         \A a \in DOMAIN ed.live \ DOMAIN ed'.live : a \in Managed(ed) => HasRecord(ed, a, ed')
  PROVE  EditorKeeps
<1>1. EditorIsSound(ed)' /\ EditorTypeOK(ed')
  BY SoundAfter DEF EditorIsSound
<1>2. CopiesAreKept'
  BY <1>1, CopiesStay
<1>3. HeadIsLine'
  BY HeadStays DEF EditorInv, HeadIsLine
<1>4. EditorInv'
  BY <1>1, <1>2, <1>3 DEF EditorInv, Request
<1>5. LeavesARecord
  BY RecordIsThere DEF LeavesARecord, Managed
<1> QED
  BY <1>4, <1>5 DEF EditorKeeps, OnlyTheCopyLeaves, WorldFollowsCursor, LineStep

(* spawn_object as a request.                                              *)
LEMMA SpawnStep == EditorInv /\ Spawn => EditorKeeps
<1> SUFFICES ASSUME EditorInv, Spawn PROVE EditorKeeps
  OBVIOUS
<1>1. EditorIsSound(ed) /\ episode \in Nat \ {0}
  BY DEF EditorInv
<1>2. PICK p \in Places : p = 0
  BY EditorAssumption
<1>3. PICK r \in SpawnResults(ed, p) : ed' = r.ed
  BY <1>2 DEF Spawn
<1>4. EditorIsSound(r.ed) /\ GoesOn(ed, r.ed) /\ \A a \in DOMAIN ed.live : a \in DOMAIN r.ed.live
  BY <1>1, SpawnKeeps
<1> QED BY <1>3, <1>4, HandlerKeeps DEF Spawn

(* update_actor.                                                           *)
LEMMA MoveStep == EditorInv /\ MoveActor => EditorKeeps
<1> SUFFICES ASSUME EditorInv, MoveActor PROVE EditorKeeps
  OBVIOUS
<1>1. PICK a \in DOMAIN ed.live, p \in Places : ed' = [ed EXCEPT !.live[a].pose = p]
  BY DEF MoveActor
<1> DEFINE o == [ed.live[a] EXCEPT !.pose = p]
           L == [ed.live EXCEPT ![a] = o]
<1>2. EditorIsSound(ed) /\ ed.live \in [DOMAIN ed.live -> ObjectRecords]
  BY DEF EditorInv, EditorIsSound, EditorTypeOK
<1>3. o \in ObjectRecords /\ o.stable = ed.live[a].stable
  BY <1>2 DEF ObjectRecords
<1>4. L \in [DOMAIN ed.live -> ObjectRecords]
      /\ \A b \in DOMAIN ed.live : L[b].stable = ed.live[b].stable
  <2> HIDE DEF o
  <2> QED BY <1>2, <1>3
<1>5. Becomes(ed, ed', L, ed.next, ed.docs, ed.deletions)
  BY <1>1 DEF Becomes
<1> HIDE DEF L
<1>6. EditorIsSound(ed') /\ GoesOn(ed, ed') /\ ed'.live = L
  <2>1. PICK D \in SUBSET DOMAIN ed.live : D = DOMAIN ed.live
    OBVIOUS
  <2>2. L \in [D -> ObjectRecords] /\ \A b \in D : L[b].stable = ed.live[b].stable
    BY <1>4, <2>1
  <2>3. PICK w : w = ed' /\ Becomes(ed, w, L, ed.next, ed.docs, ed.deletions)
    BY <1>5
  <2>4. EditorIsSound(w) /\ GoesOn(ed, w) /\ w.live = L
    BY <1>2, <2>2, <2>3, FewerKeep
  <2> QED BY <2>3, <2>4
<1> QED BY <1>4, <1>6, HandlerKeeps DEF MoveActor

(* delete_actor as a request.                                              *)
LEMMA DeleteStep == EditorInv /\ Delete => EditorKeeps
<1> SUFFICES ASSUME EditorInv, Delete PROVE EditorKeeps
  OBVIOUS
<1>1. EditorIsSound(ed) /\ episode \in Nat \ {0}
  BY DEF EditorInv
<1>2. PICK a \in DOMAIN ed.live : \E r \in DeleteResults(ed, a) : ed' = r.ed
  BY DEF Delete
<1>3. PICK r \in DeleteResults(ed, a) : ed' = r.ed
  BY <1>2
<1>4. /\ EditorIsSound(r.ed) /\ GoesOn(ed, r.ed)
      /\ \A b \in DOMAIN ed.live \ {a} : b \in DOMAIN r.ed.live
      /\ a \in Managed(ed) /\ a \notin DOMAIN r.ed.live => HasRecord(ed, a, r.ed)
  BY <1>1, DeleteKeeps
<1> QED BY <1>3, <1>4, HandlerKeeps DEF Delete

(* One object of a scene is a scene.                                       *)
LEMMA OneOfAScene ==
  ASSUME NEW e, NEW doc, IsScene(e, doc), NEW s \in DOMAIN doc
  PROVE  IsScene(e, [x \in {s} |-> doc[x]])
  BY FS_Singleton DEF IsScene

(* restore_scene and restore_missing_object.                               *)
LEMMA RestoreStep == EditorInv /\ Restore => EditorKeeps
<1> SUFFICES ASSUME EditorInv, Restore PROVE EditorKeeps
  OBVIOUS
<1>1. EditorIsSound(ed) /\ episode \in Nat \ {0}
  BY DEF EditorInv
<1>2. PICK doc : IsScene(ed, doc) /\ \E r \in RestoreResults(ed, doc) : ed' = r.ed
  <2>1. PICK v \in DOMAIN ed.docs :
          \/ \E r \in RestoreResults(ed, ed.docs[v]) : ed' = r.ed
          \/ \E s \in DOMAIN ed.docs[v] \ Stables(ed) :
                \E r \in RestoreResults(ed, [x \in {s} |-> ed.docs[v][x]]) : ed' = r.ed
    BY DEF Restore
  <2>2. IsScene(ed, ed.docs[v])
    BY <1>1 DEF EditorIsSound
  <2> QED BY <2>1, <2>2, OneOfAScene
<1>3. PICK r \in RestoreResults(ed, doc) : ed' = r.ed
  BY <1>2
<1>4. EditorIsSound(r.ed) /\ GoesOn(ed, r.ed) /\ \A a \in DOMAIN ed.live : a \in DOMAIN r.ed.live
  BY <1>1, <1>2, RestoreKeeps
<1> QED BY <1>3, <1>4, HandlerKeeps DEF Restore

(* A new version goes behind the cursor, and drops what was ahead of it.   *)
LEMMA NewVersion ==
  ASSUME NEW h \in Seq(Nat), NEW c \in Nat, c <= Len(h), NEW v \in Nat
  PROVE  LET t == Append(SubSeq(h, 1, c), v)
         IN  /\ t \in Seq(Nat) /\ Len(t) = c + 1 /\ DOMAIN t = 1 .. c + 1 /\ t[c + 1] = v
             /\ \A i \in 1 .. c : t[i] = h[i] /\ i \in DOMAIN h
             /\ SubSeq(t, 1, c) = SubSeq(h, 1, c)
<1> DEFINE k == SubSeq(h, 1, c)
           t == Append(k, v)
<1>1. /\ k \in Seq(Nat) /\ Len(k) = c /\ \A i \in 1 .. c : k[i] = h[i] /\ i \in DOMAIN h
  OBVIOUS
<1> HIDE DEF k
<1>2. /\ t \in Seq(Nat) /\ Len(t) = c + 1 /\ DOMAIN t = 1 .. c + 1 /\ t[c + 1] = v
      /\ \A i \in 1 .. c : t[i] = k[i]
  BY <1>1, FiledBehind, AppendProperties
<1> HIDE DEF t
<1>3. SubSeq(t, 1, c) = k
  <2>1. /\ SubSeq(t, 1, c) \in Seq(Nat) /\ Len(SubSeq(t, 1, c)) = c
        /\ \A i \in 1 .. c : SubSeq(t, 1, c)[i] = t[i]
    BY <1>2
  <2> QED BY <1>1, <1>2, <2>1, SeqEqual
<1> QED BY <1>1, <1>2, <1>3 DEF t, k

(* A save is a new entry of the line, or one that no history names.        *)
LEMMA SaveStep == EditorInv /\ Save => EditorKeeps
<1> SUFFICES ASSUME EditorInv, Save PROVE EditorKeeps
  OBVIOUS
<1>1. PICK w : w = BackedUp(ed) /\ ed' = w
  BY DEF Save
<1>2. /\ EditorIsSound(w) /\ GoesOn(ed, w) /\ w.live = ed.live
      /\ DOMAIN ed.docs = 1 .. Len(ed.docs) /\ DOMAIN w.docs = 1 .. Len(w.docs)
      /\ Len(ed.docs) \in Nat /\ Len(w.docs) = Len(ed.docs) + 1
  BY <1>1, BackedUpKeeps DEF EditorInv
<1>3. CASE UNCHANGED head
  BY <1>1, <1>2, <1>3, HandlerKeeps DEF Save
<1>4. CASE head' = [history |-> Append(SubSeq(head.history, 1, head.cursor), Len(ed'.docs)),
                    cursor |-> head.cursor + 1]
  <2> DEFINE h == head.history
             c == head.cursor
             t == Append(SubSeq(h, 1, c), Len(w.docs))
  <2>1. /\ h \in Seq(Nat) /\ c \in Nat /\ c <= Len(h) /\ Len(w.docs) \in Nat
        /\ \A i \in DOMAIN h : h[i] \in DOMAIN ed.docs
    BY <1>2 DEF EditorInv, HeadIsLine
  <2>2. head'.history = t /\ head'.cursor = c + 1 /\ head' = [history |-> t, cursor |-> c + 1]
    BY <1>1, <1>4
  <2> HIDE DEF h, c
  <2>3. /\ t \in Seq(Nat) /\ Len(t) = c + 1 /\ DOMAIN t = 1 .. c + 1 /\ t[c + 1] = Len(w.docs)
        /\ \A i \in 1 .. c : t[i] = h[i] /\ i \in DOMAIN h
        /\ SubSeq(t, 1, c) = SubSeq(h, 1, c)
    BY <2>1, NewVersion
  <2> HIDE DEF t
  <2>4. \A i \in DOMAIN t : t[i] \in DOMAIN w.docs
    <3>1. \A v \in DOMAIN ed.docs : v \in DOMAIN w.docs
      BY <1>2 DEF GoesOn
    <3>2. Len(w.docs) \in DOMAIN w.docs
      BY <1>2
    <3>3. \A i \in DOMAIN t : i \in 1 .. c \/ i = c + 1
      BY <2>1, <2>3
    <3>4. \A i \in 1 .. c : t[i] \in DOMAIN ed.docs
      BY <2>1, <2>3
    <3> QED BY <2>3, <3>1, <3>2, <3>3, <3>4
  <2>5. HeadIsLine'
    BY <1>1, <2>1, <2>2, <2>3, <2>4 DEF HeadIsLine
  <2>6. EditorIsSound(ed)' /\ EditorTypeOK(ed')
    BY <1>1, <1>2, SoundAfter DEF Save, EditorIsSound
  <2>7. CopiesAreKept'
    BY <1>1, <1>2, <2>6, CopiesStay DEF Save
  <2>8. EditorInv'
    BY <2>5, <2>6, <2>7 DEF EditorInv, Save, Request
  <2>9. t # h
    <3>1. Len(w.docs) \notin DOMAIN ed.docs
      BY <1>2
    <3>2. c + 1 \in DOMAIN t
      BY <2>1, <2>3
    <3> QED BY <2>1, <2>3, <3>1, <3>2
  <2>10. WorldFollowsCursor
    BY <2>2, <2>9 DEF WorldFollowsCursor, h
  <2>11. LineStep
    <3>1. SceneLine!Push
      BY <2>2, <2>3 DEF SceneLine!Push, SceneLine!Kept, h, c
    <3> QED BY <3>1 DEF LineStep, SceneLine!LineNext
  <2>12. LeavesARecord /\ OnlyTheCopyLeaves
    BY <1>1, <1>2 DEF LeavesARecord, OnlyTheCopyLeaves, Managed
  <2> QED BY <2>8, <2>10, <2>11, <2>12 DEF EditorKeeps
<1> QED BY <1>3, <1>4 DEF Save

(* Undo and redo of a scene move the cursor by one, or not at all.         *)
LEMMA SceneHistoryStep ==
  ASSUME EditorInv, NEW direction \in {"undo", "redo"}, SceneHistory(direction)
  PROVE  EditorKeeps
<1> DEFINE to == IF direction = "undo" THEN head.cursor - 1 ELSE head.cursor + 1
           doc == ed.docs[head.history[to]]
<1>1. PICK r \in RestoreResults(ed, doc) :
        /\ ed' = r.ed
        /\ \/ r.end = "ok" /\ torn' = torn /\ head' = [head EXCEPT !.cursor = to]
           \/ r.end # "ok" /\ torn' = TRUE /\ head' = [head EXCEPT !.cursor = to]
           \/ r.end = "failed" /\ UNCHANGED <<head, torn>>
  BY DEF SceneHistory
<1>2. to \in DOMAIN head.history
  BY DEF SceneHistory
<1>3. /\ EditorIsSound(ed) /\ episode \in Nat \ {0} /\ torn \in BOOLEAN
      /\ head = [history |-> head.history, cursor |-> head.cursor]
      /\ head.history \in Seq(Nat) /\ head.cursor \in Nat /\ head.cursor <= Len(head.history)
      /\ DOMAIN head.history = 1 .. Len(head.history) /\ Len(head.history) \in Nat
  BY DEF EditorInv, HeadIsLine
<1>4. IsScene(ed, doc)
  BY <1>2, <1>3 DEF EditorInv, HeadIsLine, EditorIsSound
<1>5. PICK w : w = r.ed /\ ed' = w
  BY <1>1
<1>6. /\ EditorIsSound(w) /\ GoesOn(ed, w)
      /\ \A a \in DOMAIN ed.live : a \in DOMAIN w.live
      /\ r.end = "ok" => \A s \in DOMAIN doc :
            \E a \in Managed(w) : w.live[a] = [stable |-> s, pose |-> doc[s]]
  <2> HIDE DEF doc
  <2> QED BY <1>3, <1>4, <1>5, RestoreKeeps
<1>7. to \in Nat /\ to <= Len(head.history) /\ to > 0
  BY <1>2, <1>3
<1>8. /\ head'.history = head.history /\ head'.cursor \in {to, head.cursor}
      /\ head' \in {head, [head EXCEPT !.cursor = head'.cursor]}
      /\ torn' \in BOOLEAN /\ (head'.cursor # head.cursor /\ ~torn' => r.end = "ok")
  <2> HIDE DEF to
  <2>1. PICK h, c : head = [history |-> h, cursor |-> c]
    BY <1>3
  <2> QED BY <1>1, <1>3, <2>1
<1>9. EditorInv'
  <2>1. EditorIsSound(ed)' /\ EditorTypeOK(ed')
    BY <1>5, <1>6, SoundAfter DEF SceneHistory, EditorIsSound
  <2>2. CopiesAreKept'
    BY <1>5, <1>6, <2>1, CopiesStay DEF SceneHistory
  <2>3. HeadIsLine'
    BY <1>3, <1>5, <1>6, <1>7, <1>8, HeadStays
  <2> QED BY <1>8, <2>1, <2>2, <2>3 DEF EditorInv, SceneHistory, Request
<1>10. WorldFollowsCursor
  <2> SUFFICES ASSUME head'.cursor # head.cursor, ~torn'
               PROVE  \A s \in DOMAIN doc :
                         s \in Stables(w) /\ w.live[ActorOf(w, s)].pose = doc[s]
    BY <1>5, <1>8 DEF WorldFollowsCursor
  <2>1. r.end = "ok"
    BY <1>8
  <2> HIDE DEF doc
  <2> SUFFICES ASSUME NEW s \in DOMAIN doc
               PROVE  s \in Stables(w) /\ w.live[ActorOf(w, s)].pose = doc[s]
    OBVIOUS
  <2>2. PICK a \in Managed(w) : w.live[a] = [stable |-> s, pose |-> doc[s]]
    BY <1>6, <2>1
  <2>3. w.live[a].stable = s /\ w.live[a].pose = doc[s]
    BY <2>2
  <2>4. ActorOf(w, w.live[a].stable) = a /\ w.live[a].stable \in Stables(w)
    BY <1>6, CaptureIs DEF EditorIsSound
  <2> QED BY <2>3, <2>4
<1>11. LineStep
  <2>1. CASE head'.cursor = head.cursor
    BY <1>8, <2>1 DEF LineStep
  <2>2. CASE head'.cursor = to /\ direction = "undo"
    <3>1. SceneLine!Back
      BY <1>3, <1>7, <1>8, <2>2 DEF SceneLine!Back
    <3> QED BY <3>1 DEF LineStep, SceneLine!LineNext
  <2>3. CASE head'.cursor = to /\ direction = "redo"
    <3>1. SceneLine!Forward
      BY <1>3, <1>7, <1>8, <2>3 DEF SceneLine!Forward
    <3> QED BY <3>1 DEF LineStep, SceneLine!LineNext
  <2> QED BY <1>8, <2>1, <2>2, <2>3
<1>12. LeavesARecord /\ OnlyTheCopyLeaves
  BY <1>5, <1>6 DEF LeavesARecord, OnlyTheCopyLeaves, Managed
<1> QED BY <1>9, <1>10, <1>11, <1>12 DEF EditorKeeps

(* One copy's journal is written, with what it needs to be redone.         *)
CopyIsKept(c, e) ==
    /\ c \in CopyRecords
    /\ c.state = "confirmed" => c.stable # Unmanaged
    /\ c.undo = "confirmed" =>
          c.deletion \in DOMAIN e.deletions /\ e.deletions[c.deletion].stable = c.stable

(* A journal that is written leaves the others what they are.              *)
LEMMA CopiesKept ==
  ASSUME EditorInv, EditorTypeOK(ed'), GoesOn(ed, ed'), NEW c, CopyIsKept(c, ed'),
         \/ copies' = Append(copies, c)
         \/ \E i \in DOMAIN copies : copies' = [copies EXCEPT ![i] = c]
  PROVE  CopiesAreKept'
<1>1. copies \in Seq(CopyRecords) /\ c \in CopyRecords
  BY DEF EditorInv, CopiesAreKept, CopyIsKept
<1>2. \A i \in DOMAIN copies : CopyIsKept(copies[i], ed')
  BY <1>1 DEF EditorInv, CopiesAreKept, CopyIsKept, GoesOn
<1>3. copies' \in Seq(CopyRecords) /\ \A i \in DOMAIN copies' : CopyIsKept(copies'[i], ed')
  <2>1. CASE copies' = Append(copies, c)
    <3>1. /\ copies' \in Seq(CopyRecords) /\ Len(copies) \in Nat
          /\ DOMAIN copies = 1 .. Len(copies) /\ DOMAIN copies' = 1 .. Len(copies) + 1
          /\ \A i \in DOMAIN copies : copies'[i] = copies[i]
          /\ copies'[Len(copies) + 1] = c
      BY <1>1, <2>1, FiledBehind, AppendProperties
    <3>2. \A i \in DOMAIN copies' : i \in DOMAIN copies \/ i = Len(copies) + 1
      <4>1. PICK n \in Nat : n = Len(copies)
        BY <3>1
      <4>2. DOMAIN copies = 1 .. n /\ DOMAIN copies' = 1 .. n + 1
        BY <3>1, <4>1
      <4> QED BY <4>1, <4>2
    <3> QED BY <1>2, <3>1, <3>2
  <2>2. CASE \E i \in DOMAIN copies : copies' = [copies EXCEPT ![i] = c]
    <3>1. PICK i \in DOMAIN copies : copies' = [copies EXCEPT ![i] = c]
      BY <2>2
    <3>2. copies' \in Seq(CopyRecords)
      BY <1>1, <3>1, SeqDef
    <3>3. DOMAIN copies' = DOMAIN copies /\ \A j \in DOMAIN copies : copies'[j] \in {c, copies[j]}
      BY <3>1
    <3> QED BY <1>2, <3>2, <3>3
  <2> QED BY <2>1, <2>2
<1> QED BY <1>3 DEF CopiesAreKept, CopyIsKept

(* A step that writes one copy's journal.                                  *)
LEMMA CopyStepKeeps ==
  ASSUME EditorInv, Request, UNCHANGED <<episode, head, torn>>,
         EditorIsSound(ed'), GoesOn(ed, ed'), CopiesAreKept', LeavesARecord, OnlyTheCopyLeaves
  PROVE  EditorKeeps
<1>1. EditorIsSound(ed)'
  BY SoundAfter
<1>2. HeadIsLine'
  BY HeadStays DEF EditorInv, HeadIsLine
<1>3. EditorInv'
  BY <1>1, <1>2 DEF EditorInv, Request
<1> QED
  BY <1>3 DEF EditorKeeps, WorldFollowsCursor, LineStep

(* duplicate_actor: a confirmed copy is bound.                             *)
LEMMA DuplicateStep == EditorInv /\ Duplicate => EditorKeeps
<1> SUFFICES ASSUME EditorInv, Duplicate PROVE EditorKeeps
  OBVIOUS
<1> DEFINE id == ed.next
<1>1. /\ EditorIsSound(ed) /\ EditorTypeOK(ed) /\ episode \in Nat \ {0} /\ id \in Nat
      /\ copies \in Seq(CopyRecords)
      /\ \A a \in DOMAIN ed.live : a \in Nat /\ a # id /\ ed.live[a] \in ObjectRecords
  BY DEF EditorInv, EditorIsSound, EditorTypeOK, WorldIsCounted, CopiesAreKept
<1>2. PICK a \in DOMAIN ed.live : \E r \in SpawnResults(ed, ed.live[a].pose) :
        LET stable == IF id \in DOMAIN r.ed.live THEN r.ed.live[id].stable ELSE Unmanaged
            row(state) == Append(copies, Copy(a, <<episode, id>>, stable, state))
        IN  \/ r.end = "ok" /\ ed' = r.ed /\ copies' \in {row("confirmed"), row("open")}
            \/ /\ r.end = "ok" /\ \E d \in DeleteResults(r.ed, id) : ed' = d.ed
               /\ copies' = row("open")
            \/ r.end # "ok" /\ ed' = r.ed /\ copies' = row("open")
  BY DEF Duplicate
<1>3. PICK at \in Places : at = ed.live[a].pose
  BY <1>1 DEF ObjectRecords
<1>4. PICK r \in SpawnResults(ed, at) :
        LET stable == IF id \in DOMAIN r.ed.live THEN r.ed.live[id].stable ELSE Unmanaged
            row(state) == Append(copies, Copy(a, <<episode, id>>, stable, state))
        IN  \/ r.end = "ok" /\ ed' = r.ed /\ copies' \in {row("confirmed"), row("open")}
            \/ /\ r.end = "ok" /\ \E d \in DeleteResults(r.ed, id) : ed' = d.ed
               /\ copies' = row("open")
            \/ r.end # "ok" /\ ed' = r.ed /\ copies' = row("open")
  BY <1>2, <1>3
<1>5. PICK w : w = r.ed
  OBVIOUS
<1>6. /\ EditorIsSound(w) /\ GoesOn(ed, w)
      /\ \A b \in DOMAIN ed.live : b \in DOMAIN w.live /\ w.live[b] = ed.live[b]
      /\ r.end = "ok" => /\ id \in DOMAIN w.live /\ w.live[id].stable = <<episode, id>>
                         /\ <<episode, id>> # Unmanaged
  BY <1>1, <1>5, SpawnKeeps
<1>7. PICK stable : stable = IF id \in DOMAIN w.live THEN w.live[id].stable ELSE Unmanaged
  OBVIOUS
<1>8. stable \in Identities /\ (r.end = "ok" => stable # Unmanaged)
  BY <1>6, <1>7 DEF EditorIsSound, EditorTypeOK, ObjectRecords, Unmanaged, Identities
<1>9. /\ \E state \in {"confirmed", "open"} :
            /\ copies' = Append(copies, Copy(a, <<episode, id>>, stable, state))
            /\ state = "confirmed" => r.end = "ok"
      /\ ed' = w \/ (r.end = "ok" /\ \E d \in DeleteResults(w, id) : ed' = d.ed)
  BY <1>4, <1>5, <1>7
<1>10. PICK state \in {"confirmed", "open"} :
            /\ copies' = Append(copies, Copy(a, <<episode, id>>, stable, state))
            /\ state = "confirmed" => r.end = "ok"
  BY <1>9
<1>11. /\ EditorIsSound(ed') /\ GoesOn(ed, ed')
       /\ \A b \in DOMAIN ed.live : b \in DOMAIN ed'.live
  <2>1. CASE ed' = w
    BY <1>6, <2>1
  <2>2. CASE r.end = "ok" /\ \E d \in DeleteResults(w, id) : ed' = d.ed
    <3>1. PICK x : x = id /\ x \in DOMAIN w.live
      BY <1>6, <2>2
    <3>2. PICK d \in DeleteResults(w, x) : ed' = d.ed
      BY <2>2, <3>1
    <3>3. /\ EditorIsSound(d.ed) /\ GoesOn(w, d.ed)
          /\ \A b \in DOMAIN w.live \ {x} : b \in DOMAIN d.ed.live
      BY <1>1, <1>6, <3>1, DeleteKeeps
    <3>4. GoesOn(ed, d.ed)
      BY <1>1, <1>6, <3>3, GoesOnAndOn DEF EditorIsSound
    <3> QED BY <1>1, <1>6, <3>1, <3>2, <3>3, <3>4
  <2> QED BY <1>9, <2>1, <2>2
<1>12. CopiesAreKept'
  <2>1. PICK c : c = Copy(a, <<episode, id>>, stable, state)
    OBVIOUS
  <2>2. c.state = state /\ c.stable = stable /\ c.undo = "none" /\ c \in CopyRecords
    BY <1>1, <1>8, <2>1 DEF Copy, CopyRecords, Identities
  <2>3. CopyIsKept(c, ed')
    BY <1>8, <1>10, <2>2 DEF CopyIsKept
  <2>4. copies' = Append(copies, c)
    BY <1>10, <2>1
  <2> QED BY <1>11, <2>3, <2>4, CopiesKept DEF EditorIsSound
<1>13. LeavesARecord
  BY <1>11 DEF LeavesARecord, Managed
<1>14. OnlyTheCopyLeaves
  BY <1>11 DEF OnlyTheCopyLeaves
<1> QED BY <1>11, <1>12, <1>13, <1>14, CopyStepKeeps DEF Duplicate

(* The undo of a copy deletes the actor the copy made, and no other.       *)
LEMMA UndoStep ==
  ASSUME EditorInv, NEW i \in DOMAIN copies, UndoCopy(i)
  PROVE  EditorKeeps
<1> DEFINE c == copies[i]
<1>1. /\ EditorIsSound(ed) /\ EditorTypeOK(ed) /\ episode \in Nat \ {0}
      /\ copies \in Seq(CopyRecords) /\ c \in CopyRecords
      /\ c.state = "confirmed" /\ c.undo = "none" /\ IsTarget(c) /\ c.stable # Unmanaged
  BY DEF EditorInv, EditorIsSound, CopiesAreKept, UndoCopy
<1>2. PICK a \in DOMAIN ed.live : a = c.target[2] /\ c.target = <<episode, a>>
  <2>1. PICK t \in Identities : t = c.target
    BY <1>1 DEF CopyRecords
  <2>2. t[1] = episode /\ t[2] \in DOMAIN ed.live
    BY <1>1, <2>1 DEF IsTarget
  <2>3. t = <<t[1], t[2]>>
    BY DEF Identities
  <2> QED BY <2>1, <2>2, <2>3
<1>3. a \in Managed(ed) /\ ed.live[a].stable = c.stable
  BY <1>1, <1>2 DEF IsTarget, Managed
<1>4. PICK r \in DeleteResults(ed, a) :
        /\ ed' = r.ed
        /\ copies' = [copies EXCEPT
              ![i].undo = IF r.end = "ok" THEN "confirmed" ELSE "open",
              ![i].deletion = IF r.end = "ok" THEN Len(r.ed.deletions) ELSE 0]
  BY <1>2 DEF UndoCopy
<1>5. PICK w : w = r.ed /\ ed' = w
  BY <1>4
<1>6. /\ EditorIsSound(w) /\ GoesOn(ed, w)
      /\ \A b \in DOMAIN ed.live \ {a} : b \in DOMAIN w.live
      /\ r.end = "ok" \/ a \notin DOMAIN w.live => HasRecord(ed, a, w)
  BY <1>1, <1>3, <1>5, DeleteKeeps
<1>7. PICK undo, deletion :
        /\ undo = IF r.end = "ok" THEN "confirmed" ELSE "open"
        /\ deletion = IF r.end = "ok" THEN Len(w.deletions) ELSE 0
  OBVIOUS
<1>8. /\ undo \in {"confirmed", "open"} /\ deletion \in Nat
      /\ undo = "confirmed" => /\ deletion \in DOMAIN w.deletions
                               /\ w.deletions[deletion].stable = c.stable
  <2>1. Len(w.deletions) \in Nat
    BY <1>6 DEF EditorIsSound, EditorTypeOK
  <2>2. r.end = "ok" => /\ Len(w.deletions) \in DOMAIN w.deletions
                        /\ w.deletions[Len(w.deletions)].stable = c.stable
    BY <1>3, <1>6 DEF HasRecord
  <2> QED BY <1>7, <2>1, <2>2
<1>9. copies' = [copies EXCEPT ![i].undo = undo, ![i].deletion = deletion]
  BY <1>4, <1>5, <1>7
<1>10. PICK n : n = [c EXCEPT !.undo = undo, !.deletion = deletion]
  OBVIOUS
<1>11. copies' = [copies EXCEPT ![i] = n]
  BY <1>9, <1>10
<1>12. n \in CopyRecords /\ n.undo = undo /\ n.deletion = deletion /\ n.stable = c.stable
  BY <1>1, <1>8, <1>10 DEF CopyRecords
<1>13. CopyIsKept(n, w)
  BY <1>1, <1>8, <1>12 DEF CopyIsKept
<1>14. CopiesAreKept'
  BY <1>5, <1>6, <1>11, <1>13, CopiesKept DEF EditorIsSound
<1>15. LeavesARecord
  BY <1>3, <1>5, <1>6, RecordIsThere DEF LeavesARecord, Managed
<1>16. OnlyTheCopyLeaves
  <2>1. \A j \in DOMAIN copies : j # i => copies'[j] = copies[j]
    BY <1>11
  <2> QED BY <1>2, <1>3, <1>5, <1>6, <2>1 DEF OnlyTheCopyLeaves
<1> QED BY <1>5, <1>6, <1>14, <1>15, <1>16, CopyStepKeeps DEF UndoCopy

(* The redo of a copy finds its backup in the deletion that undid it.      *)
LEMMA RedoStep ==
  ASSUME EditorInv, NEW i \in DOMAIN copies, RedoCopy(i)
  PROVE  EditorKeeps
<1> DEFINE c == copies[i]
           backup == ed.docs[ed.deletions[c.deletion].version]
           doc == [s \in {c.stable} |-> backup[s]]
<1>1. /\ EditorIsSound(ed) /\ EditorTypeOK(ed) /\ episode \in Nat \ {0}
      /\ copies \in Seq(CopyRecords) /\ c \in CopyRecords
      /\ c.state = "confirmed" /\ c.undo = "confirmed" /\ c.stable # Unmanaged
      /\ c.deletion \in DOMAIN ed.deletions /\ ed.deletions[c.deletion].stable = c.stable
  BY DEF EditorInv, EditorIsSound, CopiesAreKept, RedoCopy
<1>2. IsScene(ed, backup) /\ c.stable \in DOMAIN backup
  BY <1>1 DEF EditorIsSound, DeletionIsKept
<1>3. IsScene(ed, doc) /\ c.stable \in DOMAIN doc
  BY <1>2, OneOfAScene
<1>4. PICK r \in RestoreResults(ed, doc) :
        /\ ed' = r.ed
        /\ copies' = IF r.end = "ok"
              THEN [copies EXCEPT ![i].target = <<episode, ActorOf(r.ed, c.stable)>>,
                                  ![i].undo = "none", ![i].deletion = 0]
              ELSE [copies EXCEPT ![i].redo = "open"]
  BY DEF RedoCopy
<1>5. PICK w : w = r.ed /\ ed' = w
  BY <1>4
<1> HIDE DEF backup, doc
<1>6. /\ EditorIsSound(w) /\ GoesOn(ed, w)
      /\ \A b \in DOMAIN ed.live : b \in DOMAIN w.live
      /\ r.end = "ok" => \A s \in DOMAIN doc :
            \E a \in Managed(w) : w.live[a] = [stable |-> s, pose |-> doc[s]]
  BY <1>1, <1>3, <1>5, RestoreKeeps
<1>7. r.end = "ok" => ActorOf(w, c.stable) \in Nat
  <2> SUFFICES ASSUME r.end = "ok" PROVE ActorOf(w, c.stable) \in Nat
    OBVIOUS
  <2>1. PICK a \in Managed(w) : w.live[a] = [stable |-> c.stable, pose |-> doc[c.stable]]
    BY <1>3, <1>6
  <2>2. ActorOf(w, w.live[a].stable) = a /\ w.live[a].stable = c.stable
    BY <1>6, <2>1, CaptureIs DEF EditorIsSound
  <2> QED BY <1>6, <2>1, <2>2 DEF Managed, EditorIsSound, EditorTypeOK
<1>8. \E n : /\ copies' = [copies EXCEPT ![i] = n] /\ CopyIsKept(n, w)
             /\ n.undo = "none" \/ copies[i].undo # "none"
  <2>1. CASE r.end = "ok"
    <3>1. PICK target \in Identities : target = <<episode, ActorOf(w, c.stable)>>
      BY <1>1, <1>7, <2>1 DEF Identities
    <3>2. copies' = [copies EXCEPT ![i].target = target, ![i].undo = "none", ![i].deletion = 0]
      BY <1>4, <1>5, <2>1, <3>1
    <3>3. PICK n : n = [c EXCEPT !.target = target, !.undo = "none", !.deletion = 0]
      OBVIOUS
    <3>4. copies' = [copies EXCEPT ![i] = n]
      BY <3>2, <3>3
    <3>5. n \in CopyRecords /\ n.undo = "none" /\ n.stable = c.stable
      BY <1>1, <3>3 DEF CopyRecords
    <3> QED BY <1>1, <3>4, <3>5 DEF CopyIsKept
  <2>2. CASE r.end # "ok"
    <3>1. PICK n : n = [c EXCEPT !.redo = "open"]
      OBVIOUS
    <3>2. copies' = [copies EXCEPT ![i] = n]
      BY <1>4, <2>2, <3>1
    <3>3. /\ n \in CopyRecords /\ n.undo = c.undo /\ n.stable = c.stable
          /\ n.deletion = c.deletion
      BY <1>1, <3>1 DEF CopyRecords
    <3>4. c.deletion \in DOMAIN w.deletions /\ w.deletions[c.deletion].stable = c.stable
      BY <1>1, <1>6 DEF GoesOn
    <3> QED BY <1>1, <3>2, <3>3, <3>4 DEF CopyIsKept
  <2> QED BY <2>1, <2>2
<1>9. PICK n : /\ copies' = [copies EXCEPT ![i] = n] /\ CopyIsKept(n, w)
               /\ n.undo = "none" \/ copies[i].undo # "none"
  BY <1>8
<1>10. CopiesAreKept'
  BY <1>5, <1>6, <1>9, CopiesKept DEF EditorIsSound
<1>11. LeavesARecord
  BY <1>5, <1>6 DEF LeavesARecord, Managed
<1>12. OnlyTheCopyLeaves
  <2>1. /\ \A j \in DOMAIN copies : j # i => copies'[j] = copies[j]
        /\ copies'[i] = n
    BY <1>9
  <2> QED BY <1>9, <2>1 DEF OnlyTheCopyLeaves
<1> QED BY <1>5, <1>6, <1>10, <1>11, <1>12, CopyStepKeeps DEF RedoCopy

(* A new world: whoever was counted before is of an earlier one.           *)
LEMMA LoadStep == EditorInv /\ LoadWorld => EditorKeeps
<1> SUFFICES ASSUME EditorInv, LoadWorld PROVE EditorKeeps
  OBVIOUS
<1>1. /\ EditorIsSound(ed) /\ EditorTypeOK(ed) /\ episode \in Nat \ {0}
      /\ episode' = episode + 1 /\ UNCHANGED <<head, copies, torn, used>>
  BY DEF EditorInv, EditorIsSound, LoadWorld
<1>2. PICK o : o = [stable |-> Unmanaged, pose |-> 0] /\ o \in ObjectRecords
  <2>1. PICK p \in Places : p = 0
    BY EditorAssumption
  <2>2. [stable |-> Unmanaged, pose |-> p] \in ObjectRecords
    BY DEF ObjectRecords, Identities, Unmanaged
  <2> QED BY <2>1, <2>2
<1>3. /\ ed' = [live |-> ed'.live, next |-> 2, docs |-> ed.docs, deletions |-> ed.deletions]
      /\ ed'.live = [a \in {1} |-> o] /\ ed'.next = 2
      /\ ed'.docs = ed.docs /\ ed'.deletions = ed.deletions
  BY <1>2 DEF LoadWorld, EmptyWorld
<1>4. EditorTypeOK(ed')
  <2>1. ed'.live \in [DOMAIN ed'.live -> ObjectRecords] /\ DOMAIN ed'.live \subseteq Nat
    BY <1>2, <1>3
  <2> QED BY <1>1, <1>3, <2>1 DEF EditorTypeOK
<1>5. EditorTypeOK(ed)'
  BY <1>4 DEF EditorTypeOK
<1>6. DOMAIN ed'.live = {1} /\ \A a \in DOMAIN ed'.live : ed'.live[a].stable = Unmanaged
  BY <1>2, <1>3
<1>7. WorldIsCounted(ed)'
  <2>1. (Managed(ed) = {})'
    BY <1>6 DEF Managed
  <2>2. \A a \in DOMAIN ed'.live : a < ed'.next
    <3>1. \A a \in DOMAIN ed'.live : a = 1
      BY <1>6
    <3> QED BY <1>3, <3>1
  <2>3. IsFiniteSet(DOMAIN ed'.live)
    <3>1. PICK S : S = DOMAIN ed'.live /\ S = {1}
      BY <1>6
    <3>2. IsFiniteSet({1})
      BY FS_Singleton
    <3> QED BY <3>1, <3>2
  <2> QED BY <2>1, <2>2, <2>3 DEF WorldIsCounted, OneEach
<1>8. \A id \in Identities : Counted(ed, id) => Counted(ed, id)' /\ id[1] # episode'
  BY <1>1 DEF Counted, Identities
<1>9. \A v \in DOMAIN ed.docs : IsScene(ed, ed.docs[v])'
  <2> SUFFICES ASSUME NEW v \in DOMAIN ed.docs PROVE IsScene(ed, ed.docs[v])'
    OBVIOUS
  <2>1. IsScene(ed, ed.docs[v])
    BY <1>1 DEF EditorIsSound
  <2> QED BY <1>3, <1>8, <2>1 DEF IsScene
<1>10. \A k \in DOMAIN ed.deletions : DeletionIsKept(ed, ed.deletions[k])'
  <2> SUFFICES ASSUME NEW k \in DOMAIN ed.deletions PROVE DeletionIsKept(ed, ed.deletions[k])'
    OBVIOUS
  <2>1. DeletionIsKept(ed, ed.deletions[k]) /\ ed.deletions[k] \in DeletionRecords
    BY <1>1 DEF EditorIsSound, EditorTypeOK
  <2>2. ed.deletions[k].actor \in Identities
    BY <2>1 DEF DeletionRecords
  <2> QED BY <1>3, <1>8, <2>1, <2>2 DEF DeletionIsKept
<1>11. EditorIsSound(ed)'
  BY <1>3, <1>5, <1>7, <1>9, <1>10 DEF EditorIsSound
<1>12. EditorInv'
  BY <1>1, <1>3, <1>11 DEF EditorInv, CopiesAreKept, HeadIsLine
<1> QED BY <1>1, <1>12
  DEF EditorKeeps, LeavesARecord, OnlyTheCopyLeaves, WorldFollowsCursor, LineStep

(* An empty world is sound.                                                *)
LEMMA EditorBegins == EditorInit => EditorInv
<1> SUFFICES ASSUME EditorInit PROVE EditorInv
  OBVIOUS
<1>1. PICK o : \E p \in Places : p = 0 /\ o = [stable |-> Unmanaged, pose |-> p]
  BY EditorAssumption
<1>2. o \in ObjectRecords /\ o.stable = Unmanaged
  BY <1>1 DEF ObjectRecords, Identities, Unmanaged
<1>3. /\ ed = [live |-> ed.live, next |-> 2, docs |-> <<>>, deletions |-> <<>>]
      /\ ed.live = [a \in {1} |-> o] /\ ed.next = 2 /\ ed.docs = <<>> /\ ed.deletions = <<>>
  BY <1>1 DEF EditorInit, EmptyWorld
<1>4. DOMAIN ed.live = {1} /\ ed.live[1] = o /\ Managed(ed) = {}
  BY <1>2, <1>3 DEF Managed
<1>5. EditorTypeOK(ed)
  <2>1. ed.live \in [DOMAIN ed.live -> ObjectRecords] /\ DOMAIN ed.live \subseteq Nat
    BY <1>2, <1>3
  <2>2. \A S : <<>> \in Seq(S)
    OBVIOUS
  <2> QED BY <1>3, <2>1, <2>2 DEF EditorTypeOK
<1>6. WorldIsCounted(ed)
  <2>1. \A a \in DOMAIN ed.live : a < ed.next
    <3>1. \A a \in DOMAIN ed.live : a = 1
      BY <1>4
    <3> QED BY <1>3, <3>1
  <2>2. IsFiniteSet(DOMAIN ed.live)
    <3>1. IsFiniteSet({1})
      BY FS_Singleton
    <3> QED BY <1>4, <3>1
  <2> QED BY <1>4, <2>1, <2>2 DEF WorldIsCounted, OneEach
<1>7. EditorIsSound(ed)
  BY <1>3, <1>5, <1>6 DEF EditorIsSound
<1>8. CopiesAreKept
  BY DEF EditorInit, CopiesAreKept
<1>9. HeadIsLine
  BY DEF EditorInit, HeadIsLine
<1>10. episode \in Nat \ {0} /\ torn \in BOOLEAN /\ used \in Nat
  <2>1. episode = 1 /\ used = 0
    BY DEF EditorInit
  <2>2. torn \in BOOLEAN
    BY DEF EditorInit
  <2>3. episode \in Nat /\ episode # 0 /\ used \in Nat
    BY <2>1
  <2> QED BY <2>2, <2>3
<1> QED BY <1>7, <1>8, <1>9, <1>10 DEF EditorInv

(* Every step keeps all of it.                                             *)
LEMMA EditorStep == EditorInv /\ [EditorNext]_editorVars => EditorKeeps
<1> SUFFICES ASSUME EditorInv, [EditorNext]_editorVars PROVE EditorKeeps
  OBVIOUS
<1>1. CASE UNCHANGED editorVars
  <2>1. EditorInv'
    BY <1>1 DEF editorVars, EditorInv, EditorIsSound, EditorTypeOK, WorldIsCounted, OneEach,
       Managed, Counted, IsScene, DeletionIsKept, CopiesAreKept, HeadIsLine
  <2> QED BY <1>1, <2>1
    DEF editorVars, EditorKeeps, LeavesARecord, OnlyTheCopyLeaves, WorldFollowsCursor, LineStep,
        Managed
<1>2. CASE EditorNext
  BY <1>2, SpawnStep, MoveStep, DeleteStep, SaveStep, RestoreStep, DuplicateStep, LoadStep,
     SceneHistoryStep, UndoStep, RedoStep DEF EditorNext
<1> QED BY <1>1, <1>2

(* EditorInv: identities are one actor's each and were counted, what is    *)
(* recorded as deleted is backed up, and what was undone can be redone.    *)
THEOREM EditorCorrect == EditorSpec => []EditorInv
<1>1. EditorInv /\ [EditorNext]_editorVars => EditorInv'
  BY EditorStep DEF EditorKeeps
<1> QED
  BY <1>1, EditorBegins, PTL DEF EditorSpec

(* ObjectsAreTrue: an identity is one actor's; a deletion takes nothing    *)
(* that is not kept, a confirmed one is true, and the undo of a copy       *)
(* removes that copy only, whatever fails or is cut on the way.            *)
THEOREM ObjectsStayTrue == EditorSpec => ObjectsAreTrue
<1>1. EditorInv => OneActorPerIdentity /\ ConfirmedDeletionIsGone
  BY DEF EditorInv, EditorIsSound, WorldIsCounted, OneActorPerIdentity, DeletionIsKept,
     ConfirmedDeletionIsGone
<1>2. EditorInv /\ [EditorNext]_editorVars =>
        [ episode' = episode =>
            \A a \in Managed(ed) \ DOMAIN ed'.live :
               \E k \in DOMAIN ed'.deletions :
                  LET d == ed'.deletions[k]
                  IN  /\ d.actor = <<episode, a>>
                      /\ d.stable \in DOMAIN ed'.docs[d.version]
                      /\ ed'.docs[d.version][d.stable] = ed.live[a].pose ]_editorVars
  BY EditorStep DEF EditorKeeps, LeavesARecord
<1>3. EditorInv /\ [EditorNext]_editorVars =>
        [ \A i \in DOMAIN copies :
            copies[i].undo = "none" /\ copies'[i].undo # "none" =>
               \A a \in DOMAIN ed.live \ DOMAIN ed'.live :
                  /\ <<episode, a>> = copies[i].target
                  /\ ed.live[a].stable = copies[i].stable ]_editorVars
  BY EditorStep DEF EditorKeeps, OnlyTheCopyLeaves
<1>4. EditorSpec => [](OneActorPerIdentity /\ ConfirmedDeletionIsGone)
  BY <1>1, EditorCorrect, PTL
<1>5. EditorSpec => DeletedIsBackedUp
  BY <1>2, EditorCorrect, PTL DEF EditorSpec, DeletedIsBackedUp
<1>6. EditorSpec => UndoRemovesOnlyTheCopy
  BY <1>3, EditorCorrect, PTL DEF EditorSpec, UndoRemovesOnlyTheCopy
<1> QED
  BY <1>4, <1>5, <1>6, PTL DEF ObjectsAreTrue

(* SceneHistoryHolds: the versions of a scene are a line with a cursor,    *)
(* and the world goes where the cursor goes.                               *)
THEOREM SceneHistoryIsKept == EditorSpec => SceneHistoryHolds
<1>1. EditorInit => SceneLine!LineInit
  BY DEF EditorInit, SceneLine!LineInit
<1>2. EditorInv /\ [EditorNext]_editorVars => [SceneLine!LineNext]_<<head.history, head.cursor>>
  BY EditorStep DEF EditorKeeps, LineStep
<1>3. EditorInv /\ [EditorNext]_editorVars =>
        [ head'.cursor # head.cursor /\ head'.history = head.history /\ ~torn' =>
            LET doc == ed.docs[head.history[head'.cursor]]
            IN  \A s \in DOMAIN doc :
                   s \in Stables(ed') /\ ed'.live[ActorOf(ed', s)].pose = doc[s] ]_editorVars
  BY EditorStep DEF EditorKeeps, WorldFollowsCursor
<1>4. EditorSpec => SceneIsLine
  BY <1>1, <1>2, EditorCorrect, PTL DEF EditorSpec, SceneIsLine, SceneLine!LineSpec
<1>5. EditorSpec => CursorFollowsWorld
  BY <1>3, EditorCorrect, PTL DEF EditorSpec, CursorFollowsWorld
<1> QED
  BY <1>4, <1>5 DEF SceneHistoryHolds
=============================================================================
