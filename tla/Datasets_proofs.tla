---------------------------- MODULE Datasets_proofs ----------------------------
(***************************************************************************)
(* Machine-checked: what MCDatasets shows of registered splits, cleaners,  *)
(* storage reviews, audits and live previews for a few of each holds for   *)
(* any number of processes, recordings, splits, marks, scans, workers,     *)
(* frames, cameras and deaths.  The inductive invariants are DatasetInv    *)
(* (DatasetRegistry), which follows one process at a time and what the     *)
(* others leave alone, QualityInv (QualityReports) and PreviewInv          *)
(* (LivePreviews).  None of the bounds of a run is used.                   *)
(***************************************************************************)
EXTENDS DatasetRegistry, QualityReports, LivePreviews, FiniteSetTheorems, TLAPS

-----------------------------------------------------------------------------
(* DatasetRegistry: registrations, cleaners and storage reviews.           *)

(* The steps of a process.                                                 *)
TaskSteps == {"idle", "verify", "write", "publish", "published", "keep", "plan", "row",
              "look", "lock", "splits", "remove", "removing", "scan", "compare"}

(* What a process does is told by its step.                                *)
LEMMA TaskOfStep ==
  ASSUME NEW t \in Tasks
  PROVE  /\ t.step \in TaskSteps
         /\ t.step = "idle" => t = Idle
         /\ t.step \in {"verify", "write", "publish", "published"} => t \in Registrations
         /\ t.step = "keep" => t \in Markings
         /\ t.step \in CleanerSteps => t \in Cleanings
         /\ t.step = "scan" => t \in Scans
         /\ t.step = "compare" => t \in Comparisons
  BY DEF Tasks, Idle, Registrations, Markings, Cleanings, CleanerSteps, Scans, Comparisons, TaskSteps

(* A process that goes elsewhere does so alone.                            *)
LEMMA Goes ==
  ASSUME DatasetTypeOK, NEW p \in Procs, NEW t \in Tasks, Go(p, t)
  PROVE  /\ proc' \in [Procs -> Tasks] /\ proc'[p] = t
         /\ \A q \in Procs \ {p} : proc'[q] = proc[q]
  BY DEF DatasetTypeOK, Go

(* So does a process that goes on, with what it has.                       *)
LEMMA GoesOn ==
  ASSUME DatasetTypeOK, NEW p \in Procs, NEW step, To(p, step)
  PROVE  Go(p, [proc[p] EXCEPT !.step = step])
  BY DEF DatasetTypeOK, Go, To

(* A registration goes on with its document.                               *)
LEMMA RegistrationGoesOn ==
  ASSUME NEW t \in Registrations, NEW step \in {"verify", "write", "publish", "published"}
  PROVE  /\ [t EXCEPT !.step = step] \in Registrations
         /\ [t EXCEPT !.step = step] \in Tasks
         /\ [t EXCEPT !.step = step] = [step |-> step, doc |-> t.doc]
  BY DEF Registrations, Tasks

(* How a cleaner goes on: with another step, recording or rest to remove.  *)
Continues(t, u, step, left, row) ==
  \/ u = [t EXCEPT !.step = step] /\ left = t.left /\ row = t.row
  \/ u = [t EXCEPT !.row = row, !.step = step] /\ left = t.left
  \/ u = [t EXCEPT !.step = step, !.left = left] /\ row = t.row

(* A cleaner that goes on is a cleaner, with what it had.                  *)
LEMMA CleaningGoesOn ==
  ASSUME NEW t \in Cleanings, NEW step \in CleanerSteps,
         NEW left \in SUBSET Runs, NEW row \in Runs \cup {"none"}, NEW u,
         Continues(t, u, step, left, row)
  PROVE  /\ u \in Cleanings /\ u \in Tasks
         /\ u.step = step /\ u.kind = t.kind /\ u.seen = t.seen /\ u.files = t.files
         /\ u.left = left /\ u.row = row
<1>1. u = [step |-> step, kind |-> t.kind, seen |-> t.seen, left |-> left, row |-> row,
           files |-> t.files]
  BY DEF Cleanings, Continues
<1>2. u \in Cleanings
  BY <1>1 DEF Cleanings
<1> QED
  BY <1>1, <1>2 DEF Tasks

(* What another process does leaves this one what it has been promised.    *)
Steady(q) ==
  /\ registry = q => registry' = q /\ UNCHANGED <<recs, splits, partials>>
  /\ splits \subseteq splits' /\ receipts \subseteq receipts'
  /\ marks' = marks \/ marks'.revision > marks.revision

(* A process that stands still keeps its promises beside such a step.      *)
LEMMA OthersKeep ==
  ASSUME DatasetTypeOK, NEW q \in Procs, ProcessInv(q), proc'[q] = proc[q], Steady(q),
         marks' \in Marks
  PROVE  ProcessInv(q)'
<1>1. RegistryIsHeld(q)'
  BY DEF ProcessInv, RegistryIsHeld, HoldsThroughout, Cleans, Steady
<1>2. DocumentIsVerified(q)'
  BY DEF ProcessInv, DocumentIsVerified, RegistryIsHeld, Steady, Verified, Finalized
<1>3. CleanerIsReviewed(q)'
  BY DEF ProcessInv, CleanerIsReviewed, Cleans, Targets, Steady
<1>4. RemovalIsUnnamed(q)'
  BY DEF ProcessInv, RemovalIsUnnamed, RegistryIsHeld, HoldsThroughout, Cleans, Targets, Steady,
         NoSplitNames, SplitReferences
<1>5. CopyIsWhole(q)'
  BY DEF ProcessInv, CopyIsWhole, RegistryIsHeld, At, Unchanged, Steady
<1>6. ReviewIsBehind(q)'
  <2>1. ASSUME proc[q].step \in {"scan", "compare"} PROVE proc[q].seen \in Marks
    <3>1. proc[q] \in Scans \cup Comparisons
      BY <2>1, TaskOfStep DEF DatasetTypeOK
    <3> QED
      BY <3>1 DEF Scans, Comparisons
  <2> QED
    BY <2>1 DEF ProcessInv, ReviewIsBehind, At, Steady, DatasetTypeOK, Marks
<1> QED
  BY <1>1, <1>2, <1>3, <1>4, <1>5, <1>6 DEF ProcessInv

(* The other processes stand still, and nothing they rely on changes.      *)
Alone(p) == /\ marks' \in Marks /\ \A q \in Procs \ {p} : proc'[q] = proc[q] /\ Steady(q)

(* A step of one process leaves the others what they have been promised.   *)
LEMMA StepKeeps ==
  ASSUME DatasetInv, NEW p \in Procs, DatasetTypeOK', Alone(p), ProcessInv(p)',
         RegisteredSplitIsBacked'
  PROVE  DatasetInv'
<1>1. ASSUME NEW q \in Procs \ {p} PROVE ProcessInv(q)'
  BY <1>1, OthersKeep DEF DatasetInv, Alone
<1> QED
  BY <1>1 DEF DatasetInv

(* A process that holds no lock of the registry and has nothing verified.  *)
LEMMA IdleInv == ASSUME NEW p \in Procs, proc'[p] = Idle PROVE ProcessInv(p)'
  BY DEF Idle, ProcessInv, RegistryIsHeld, DocumentIsVerified, CleanerIsReviewed,
         RemovalIsUnnamed, CopyIsWhole, ReviewIsBehind, HoldsThroughout, Cleans, CleanerSteps, At

(* Nothing a process does with the lock is anybody else's to notice.       *)
LEMMA Releases ==
  ASSUME DatasetTypeOK, NEW p \in Procs, Release(p)
  PROVE  /\ registry' \in Locked /\ capture' \in Locked
         /\ \A q \in Procs \ {p} : registry = q => registry' = q
  BY DEF DatasetTypeOK, Release, Locked

(* The splits are backed as long as nobody touches the recordings.         *)
LEMMA BackedStays ==
  ASSUME RegisteredSplitIsBacked, UNCHANGED <<recs, splits>>
  PROVE  RegisteredSplitIsBacked'
  BY DEF RegisteredSplitIsBacked, Finalized

(* A registration begins with a document somebody has saved.               *)
LEMMA RegisterKeeps ==
  ASSUME DatasetInv, NEW p \in Procs, Register(p)
  PROVE  DatasetInv'
<1>1. PICK doc \in Documents : Go(p, [step |-> "verify", doc |-> doc])
  BY DEF Register
<1> DEFINE t == [step |-> "verify", doc |-> doc]
<1>2. t \in Tasks
  BY DEF Tasks, Registrations
<1>3. proc' \in [Procs -> Tasks] /\ proc'[p] = t /\ \A q \in Procs \ {p} : proc'[q] = proc[q]
  BY <1>1, <1>2, Goes DEF DatasetInv
<1>4. DatasetTypeOK'
  BY <1>3 DEF DatasetInv, DatasetTypeOK, Register, TakeRegistry, Locked, Recordings
<1>5. Alone(p)
  BY <1>3, DatasetAssumption DEF Alone, Steady, Register, TakeRegistry, DatasetInv, DatasetTypeOK
<1>6. ProcessInv(p)'
  BY <1>3 DEF ProcessInv, RegistryIsHeld, DocumentIsVerified, CleanerIsReviewed,
         RemovalIsUnnamed, CopyIsWhole, ReviewIsBehind, HoldsThroughout, Cleans, CleanerSteps, At,
         Register, TakeRegistry
<1>7. RegisteredSplitIsBacked'
  BY BackedStays DEF Register, DatasetInv
<1> QED
  BY <1>4, <1>5, <1>6, <1>7, StepKeeps

(* A registration that goes on is a registration.                          *)
LEMMA RegistrationAt ==
  ASSUME DatasetTypeOK, NEW p \in Procs,
         proc[p].step \in {"verify", "write", "publish", "published"},
         NEW step \in {"write", "publish", "published"}, To(p, step)
  PROVE  /\ proc[p] \in Registrations /\ proc[p].doc \in Documents
         /\ proc' \in [Procs -> Tasks] /\ proc'[p] = [step |-> step, doc |-> proc[p].doc]
         /\ \A q \in Procs \ {p} : proc'[q] = proc[q]
<1>1. proc[p] \in Registrations
  BY TaskOfStep DEF DatasetTypeOK
<1>2. [proc[p] EXCEPT !.step = step] = [step |-> step, doc |-> proc[p].doc]
  BY <1>1, RegistrationGoesOn
<1>3. [proc[p] EXCEPT !.step = step] \in Tasks
  BY <1>1, RegistrationGoesOn
<1>4. Go(p, [proc[p] EXCEPT !.step = step])
  BY GoesOn
<1> QED
  BY <1>1, <1>2, <1>3, <1>4, Goes DEF Registrations

(* A process that returns to rest and gives its locks back.                *)
LEMMA Rests ==
  ASSUME DatasetTypeOK, NEW p \in Procs, Go(p, Idle)
  PROVE  /\ proc' \in [Procs -> Tasks] /\ proc'[p] = Idle
         /\ \A q \in Procs \ {p} : proc'[q] = proc[q]
  BY Goes DEF Tasks

(* A process that only gives up leaves everything else as it was.          *)
LEMMA RestKeeps ==
  ASSUME DatasetInv, NEW p \in Procs, Go(p, Idle), Release(p),
         UNCHANGED <<recs, marks, splits, partials, receipts>>
  PROVE  DatasetInv'
<1>1. proc' \in [Procs -> Tasks] /\ proc'[p] = Idle /\ \A q \in Procs \ {p} : proc'[q] = proc[q]
  BY Rests DEF DatasetInv
<1>2. DatasetTypeOK'
  BY <1>1, Releases DEF DatasetInv, DatasetTypeOK, Recordings
<1>3. Alone(p)
  BY <1>1, Releases DEF Alone, Steady, DatasetInv, DatasetTypeOK
<1> QED
  BY <1>1, <1>2, <1>3, IdleInv, BackedStays, StepKeeps DEF DatasetInv

(* The document is verified with the lock held (verify_saved_split).       *)
LEMMA VerifySplitKeeps ==
  ASSUME DatasetInv, NEW p \in Procs, VerifySplit(p)
  PROVE  DatasetInv'
<1>1. CASE ~Verified(proc[p].doc)
  BY <1>1, RestKeeps DEF VerifySplit
<1>2. CASE Verified(proc[p].doc)
  <2>1. /\ To(p, "write") /\ proc[p].step = "verify"
        /\ UNCHANGED <<recs, marks, splits, partials, registry, capture, receipts>>
    BY <1>2 DEF VerifySplit, At, locks
  <2>2. /\ proc' \in [Procs -> Tasks] /\ proc'[p] = [step |-> "write", doc |-> proc[p].doc]
        /\ \A q \in Procs \ {p} : proc'[q] = proc[q]
    BY <2>1, RegistrationAt DEF DatasetInv
  <2>3. DatasetTypeOK'
    BY <2>1, <2>2 DEF DatasetInv, DatasetTypeOK, Recordings
  <2>4. Alone(p)
    BY <2>1, <2>2 DEF Alone, Steady, DatasetInv, DatasetTypeOK
  <2>5. registry = p
    BY <2>1 DEF DatasetInv, ProcessInv, RegistryIsHeld
  <2>6. ProcessInv(p)'
    BY <1>2, <2>1, <2>2, <2>5 DEF ProcessInv, RegistryIsHeld, DocumentIsVerified, CleanerIsReviewed,
           RemovalIsUnnamed, CopyIsWhole, ReviewIsBehind, HoldsThroughout, Cleans, CleanerSteps,
           At, Verified, Finalized
  <2> QED
    BY <2>1, <2>3, <2>4, <2>6, BackedStays, StepKeeps DEF DatasetInv
<1> QED
  BY <1>1, <1>2

(* What is written beside the splits is verified.                          *)
LEMMA WritePartialKeeps ==
  ASSUME DatasetInv, NEW p \in Procs, WritePartial(p)
  PROVE  DatasetInv'
<1>1. /\ To(p, "publish") /\ proc[p].step = "write" /\ partials' = partials \cup {proc[p].doc}
      /\ UNCHANGED <<recs, marks, splits, registry, capture, receipts>>
  BY DEF WritePartial, At, locks
<1>2. /\ proc' \in [Procs -> Tasks] /\ proc'[p] = [step |-> "publish", doc |-> proc[p].doc]
      /\ \A q \in Procs \ {p} : proc'[q] = proc[q]
      /\ proc[p].doc \in Documents
  BY <1>1, RegistrationAt DEF DatasetInv
<1>3. DatasetTypeOK'
  BY <1>1, <1>2 DEF DatasetInv, DatasetTypeOK, Recordings
<1>4. registry = p /\ Verified(proc[p].doc)
  BY <1>1 DEF DatasetInv, ProcessInv, RegistryIsHeld, DocumentIsVerified
<1>5. Alone(p)
  BY <1>1, <1>2, <1>4 DEF Alone, Steady, DatasetInv, DatasetTypeOK
<1>6. ProcessInv(p)'
  BY <1>1, <1>2, <1>4 DEF ProcessInv, RegistryIsHeld, DocumentIsVerified, CleanerIsReviewed,
         RemovalIsUnnamed, CopyIsWhole, ReviewIsBehind, HoldsThroughout, Cleans, CleanerSteps,
         At, Verified, Finalized
<1> QED
  BY <1>1, <1>3, <1>5, <1>6, BackedStays, StepKeeps DEF DatasetInv

(* What is published is backed.                                            *)
LEMMA PublishSplitKeeps ==
  ASSUME DatasetInv, NEW p \in Procs, PublishSplit(p)
  PROVE  DatasetInv'
<1>1. /\ To(p, "published") /\ proc[p].step = "publish" /\ splits' = splits \cup {proc[p].doc}
      /\ UNCHANGED <<recs, marks, partials, registry, capture, receipts>>
  BY DEF PublishSplit, At, locks
<1>2. /\ proc' \in [Procs -> Tasks] /\ proc'[p] = [step |-> "published", doc |-> proc[p].doc]
      /\ \A q \in Procs \ {p} : proc'[q] = proc[q]
      /\ proc[p].doc \in Documents
  BY <1>1, RegistrationAt DEF DatasetInv
<1>3. DatasetTypeOK'
  BY <1>1, <1>2 DEF DatasetInv, DatasetTypeOK, Recordings
<1>4. registry = p /\ Verified(proc[p].doc)
  BY <1>1 DEF DatasetInv, ProcessInv, RegistryIsHeld, DocumentIsVerified
<1>5. Alone(p)
  BY <1>1, <1>2, <1>4 DEF Alone, Steady, DatasetInv, DatasetTypeOK
<1>6. ProcessInv(p)'
  BY <1>1, <1>2, <1>4 DEF ProcessInv, RegistryIsHeld, DocumentIsVerified, CleanerIsReviewed,
         RemovalIsUnnamed, CopyIsWhole, ReviewIsBehind, HoldsThroughout, Cleans, CleanerSteps,
         At, Verified, Finalized
<1>7. RegisteredSplitIsBacked'
  <2>1. ASSUME NEW r \in DOMAIN proc[p].doc.sides, NEW s \in DOMAIN proc[p].doc.sides,
               Group[r] = Group[s]
        PROVE  proc[p].doc.sides[r] = proc[p].doc.sides[s]
    BY <1>4, <2>1 DEF Verified, Assigned
  <2>2. \A r \in DOMAIN proc[p].doc.sides :
           Finalized(r)' /\ recs'[r].index = proc[p].doc.evidence[r]
    BY <1>1, <1>4 DEF Verified, Finalized
  <2>3. \A d \in splits : \A r \in DOMAIN d.sides :
           Finalized(r)' /\ recs'[r].index = d.evidence[r]
    BY <1>1 DEF DatasetInv, RegisteredSplitIsBacked, Finalized
  <2> QED
    BY <1>1, <2>1, <2>2, <2>3 DEF DatasetInv, RegisteredSplitIsBacked
<1> QED
  BY <1>3, <1>5, <1>6, <1>7, StepKeeps

(* The partial file goes when the split is there.                          *)
LEMMA EndRegistrationKeeps ==
  ASSUME DatasetInv, NEW p \in Procs, EndRegistration(p)
  PROVE  DatasetInv'
<1>1. /\ Go(p, Idle) /\ Release(p) /\ proc[p].step = "published"
      /\ partials' = partials \ {proc[p].doc} /\ UNCHANGED <<recs, marks, splits, receipts>>
  BY DEF EndRegistration, At
<1>2. proc' \in [Procs -> Tasks] /\ proc'[p] = Idle /\ \A q \in Procs \ {p} : proc'[q] = proc[q]
  BY <1>1, Rests DEF DatasetInv
<1>3. registry = p
  BY <1>1 DEF DatasetInv, ProcessInv, RegistryIsHeld
<1>4. DatasetTypeOK'
  BY <1>1, <1>2, Releases DEF DatasetInv, DatasetTypeOK, Recordings
<1>5. Alone(p)
  BY <1>1, <1>2, <1>3, Releases DEF Alone, Steady, DatasetInv, DatasetTypeOK
<1> QED
  BY <1>1, <1>2, <1>4, <1>5, IdleInv, BackedStays, StepKeeps DEF DatasetInv

(* A process asks for a mark to be changed at the revision it has seen.    *)
LEMMA AskKeepKeeps ==
  ASSUME DatasetInv, NEW p \in Procs, AskKeep(p)
  PROVE  DatasetInv'
<1>1. PICK r \in Runs, keep \in BOOLEAN :
        Go(p, [step |-> "keep", run |-> r, keep |-> keep, revision |-> marks.revision])
  BY DEF AskKeep
<1> DEFINE t == [step |-> "keep", run |-> r, keep |-> keep, revision |-> marks.revision]
<1>2. t \in Tasks
  BY DEF Tasks, Markings, DatasetInv, DatasetTypeOK, Marks
<1>3. proc' \in [Procs -> Tasks] /\ proc'[p] = t /\ \A q \in Procs \ {p} : proc'[q] = proc[q]
  BY <1>1, <1>2, Goes DEF DatasetInv
<1>4. UNCHANGED <<recs, marks, splits, partials, registry, capture, receipts>>
  BY DEF AskKeep, locks
<1>5. DatasetTypeOK'
  BY <1>3, <1>4 DEF DatasetInv, DatasetTypeOK, Recordings
<1>6. Alone(p)
  BY <1>3, <1>4 DEF Alone, Steady, DatasetInv, DatasetTypeOK
<1>7. ProcessInv(p)'
  BY <1>3 DEF ProcessInv, RegistryIsHeld, DocumentIsVerified, CleanerIsReviewed,
         RemovalIsUnnamed, CopyIsWhole, ReviewIsBehind, HoldsThroughout, Cleans, CleanerSteps, At
<1> QED
  BY <1>4, <1>5, <1>6, <1>7, BackedStays, StepKeeps DEF DatasetInv

(* A change of the marks has a revision of its own (set_keep).             *)
LEMMA SetKeepKeeps ==
  ASSUME DatasetInv, NEW p \in Procs, SetKeep(p)
  PROVE  DatasetInv'
<1>1. /\ Go(p, Idle) /\ proc[p].step = "keep"
      /\ UNCHANGED <<recs, splits, partials, registry, capture, receipts>>
  BY DEF SetKeep, At, locks
<1>2. proc' \in [Procs -> Tasks] /\ proc'[p] = Idle /\ \A q \in Procs \ {p} : proc'[q] = proc[q]
  BY <1>1, Rests DEF DatasetInv
<1>3. proc[p].run \in Runs
  BY <1>1, TaskOfStep DEF DatasetInv, DatasetTypeOK, Markings
<1>4. marks' \in Marks /\ (marks' = marks \/ marks'.revision > marks.revision)
  <2>1. marks \in Marks
    BY DEF DatasetInv, DatasetTypeOK
  <2> QED
    BY <1>3, <2>1 DEF SetKeep, Marks
<1>5. DatasetTypeOK'
  BY <1>1, <1>2, <1>4 DEF DatasetInv, DatasetTypeOK, Recordings
<1>6. Alone(p)
  BY <1>1, <1>2, <1>4 DEF Alone, Steady
<1> QED
  BY <1>1, <1>2, <1>5, <1>6, IdleInv, BackedStays, StepKeeps DEF DatasetInv

(* A cleaner begins with recordings of which none is kept or named, and if *)
(* they are copies, with equal ones.                                       *)
LEMMA StartCleanerKeeps ==
  ASSUME DatasetInv, NEW p \in Procs, StartCleaner(p)
  PROVE  DatasetInv'
<1> DEFINE Of(kind) == Reviewed[kind].targets
           Begun(kind) == [step |-> "plan", kind |-> kind, seen |-> marks, left |-> Of(kind),
                           row |-> "none", files |-> Restrict(recs, Of(kind) \cup Keep(kind))]
<1>1. PICK kind \in Cleaners :
        /\ Of(kind) \subseteq DOMAIN recs /\ Reviewable(kind, Of(kind), marks)
        /\ kind = "duplicate" => \A r \in Of(kind), k \in Keep(kind) : recs[r] = recs[k]
        /\ IF kind \in {"duplicate", "short"}
           THEN TakeRegistry(p) /\ capture = "none" /\ capture' = p ELSE UNCHANGED locks
        /\ Go(p, Begun(kind))
  BY DEF StartCleaner
<1>2. UNCHANGED <<recs, marks, splits, partials, receipts>>
  BY DEF StartCleaner
<1>3. /\ registry' = IF kind \in {"duplicate", "short"} THEN p ELSE registry
      /\ capture' \in Locked
      /\ \A q \in Procs \ {p} : registry = q => registry' = q
  BY <1>1, DatasetAssumption DEF TakeRegistry, locks, Locked, DatasetInv, DatasetTypeOK
<1>4. /\ Of(kind) \in SUBSET Runs
      /\ Of(kind) \cup Keep(kind) \subseteq DOMAIN recs
      /\ Of(kind) \cap marks.kept = {} /\ NoSplitNames(Of(kind))
  BY <1>1, DatasetAssumption DEF Reviewable
<1>5. Begun(kind).files \in UNION {[runs -> Recording] : runs \in SUBSET Runs}
  <2>1. /\ recs \in [DOMAIN recs -> Recording] /\ DOMAIN recs \in SUBSET Runs
    BY DEF DatasetInv, DatasetTypeOK, Recordings
  <2>2. Of(kind) \cup Keep(kind) \in SUBSET Runs
    BY <1>4, <2>1
  <2>3. Begun(kind).files \in [Of(kind) \cup Keep(kind) -> Recording]
    BY <1>4, <2>1 DEF Restrict
  <2> QED
    BY <2>2, <2>3
<1>6. Begun(kind) \in Tasks
  BY <1>4, <1>5 DEF Tasks, Cleanings, CleanerSteps, DatasetInv, DatasetTypeOK
<1>7. /\ proc' \in [Procs -> Tasks] /\ proc'[p] = Begun(kind)
      /\ \A q \in Procs \ {p} : proc'[q] = proc[q]
  BY <1>1, <1>6, Goes DEF DatasetInv
<1>8. DatasetTypeOK'
  BY <1>2, <1>3, <1>7 DEF DatasetInv, DatasetTypeOK, Recordings, Locked
<1>9. Alone(p)
  BY <1>2, <1>3, <1>7 DEF Alone, Steady, DatasetInv, DatasetTypeOK
<1>10. ProcessInv(p)'
  <2>1. RegistryIsHeld(p)'
    BY <1>3, <1>7 DEF RegistryIsHeld, HoldsThroughout
  <2>2. CleanerIsReviewed(p)'
    <3>1. kind = "duplicate" => \A r \in Of(kind), k \in Keep("duplicate") :
             Begun(kind).files[r] = Begun(kind).files[k]
      BY <1>1 DEF Restrict
    <3> QED
      BY <1>4, <1>7, <3>1 DEF CleanerIsReviewed, Cleans, Targets, Keep
  <2>3. RemovalIsUnnamed(p)'
    BY <1>2, <1>4, <1>7 DEF RemovalIsUnnamed, Targets, NoSplitNames, SplitReferences
  <2> QED
    BY <1>7, <2>1, <2>2, <2>3 DEF ProcessInv, DocumentIsVerified, CopyIsWhole, ReviewIsBehind, At
<1> QED
  BY <1>2, <1>8, <1>9, <1>10, BackedStays, StepKeeps DEF DatasetInv

(* A cleaner that goes on keeps its kind, what it has seen and its files.  *)
GoesOnCleaning(p, step, left, row) ==
  /\ proc' \in [Procs -> Tasks] /\ proc'[p] \in Cleanings
  /\ proc'[p].step = step /\ proc'[p].kind = proc[p].kind /\ proc'[p].seen = proc[p].seen
  /\ proc'[p].files = proc[p].files /\ proc'[p].left = left /\ proc'[p].row = row
  /\ \A q \in Procs \ {p} : proc'[q] = proc[q]

(* A cleaner at work has recordings, marks and files it was given.         *)
LEMMA CleaningAt ==
  ASSUME DatasetInv, NEW p \in Procs, proc[p].step \in CleanerSteps
  PROVE  /\ proc[p] \in Cleanings /\ proc[p].kind \in Cleaners /\ proc[p].seen \in Marks
         /\ proc[p].left \in SUBSET Runs /\ proc[p].row \in Runs \cup {"none"}
         /\ Targets(p) \in SUBSET Runs
<1>1. proc[p] \in Cleanings
  BY TaskOfStep DEF DatasetInv, DatasetTypeOK
<1>2. proc[p].kind \in Cleaners /\ proc[p].seen \in Marks
  BY <1>1 DEF Cleanings
<1>3. proc[p].left \in SUBSET Runs /\ proc[p].row \in Runs \cup {"none"}
  BY <1>1 DEF Cleanings
<1>4. Targets(p) \in SUBSET Runs
  BY <1>2, DatasetAssumption DEF Targets
<1> QED
  BY <1>1, <1>2, <1>3, <1>4

(* A cleaner that goes on keeps the recordings left to it,                 *)
LEMMA CleaningTo ==
  ASSUME DatasetInv, NEW p \in Procs, proc[p].step \in CleanerSteps, NEW step \in CleanerSteps,
         To(p, step)
  PROVE  GoesOnCleaning(p, step, proc[p].left, proc[p].row)
<1>1. /\ proc[p] \in Cleanings /\ proc[p].left \in SUBSET Runs
      /\ proc[p].row \in Runs \cup {"none"} /\ step \in CleanerSteps
  BY CleaningAt DEF CleanerSteps
<1>2. PICK u : u = [proc[p] EXCEPT !.step = step]
  OBVIOUS
<1>3. Continues(proc[p], u, step, proc[p].left, proc[p].row)
  BY <1>2 DEF Continues
<1>4. /\ u \in Tasks /\ u \in Cleanings
      /\ u.step = step /\ u.kind = proc[p].kind /\ u.seen = proc[p].seen
      /\ u.files = proc[p].files /\ u.left = proc[p].left /\ u.row = proc[p].row
  BY <1>3, <1>1, CleaningGoesOn
<1>5. Go(p, u)
  BY <1>2, GoesOn DEF DatasetInv
<1> QED
  BY <1>4, <1>5, Goes DEF GoesOnCleaning, DatasetInv

(* so does one that has looked at a recording,                             *)
LEMMA CleaningLooks ==
  ASSUME DatasetInv, NEW p \in Procs, proc[p].step \in CleanerSteps, NEW step \in CleanerSteps,
         NEW row \in Runs, Go(p, [proc[p] EXCEPT !.row = row, !.step = step])
  PROVE  GoesOnCleaning(p, step, proc[p].left, row)
<1>1. /\ proc[p] \in Cleanings /\ proc[p].left \in SUBSET Runs
      /\ proc[p].row \in Runs \cup {"none"} /\ step \in CleanerSteps
  BY CleaningAt DEF CleanerSteps
<1>2. PICK u : u = [proc[p] EXCEPT !.row = row, !.step = step]
  OBVIOUS
<1>3. Continues(proc[p], u, step, proc[p].left, row)
  BY <1>2 DEF Continues
<1>4. /\ u \in Tasks /\ u \in Cleanings
      /\ u.step = step /\ u.kind = proc[p].kind /\ u.seen = proc[p].seen
      /\ u.files = proc[p].files /\ u.left = proc[p].left /\ u.row = row
  BY <1>3, <1>1, CleaningGoesOn
<1>5. Go(p, u)
  BY <1>2
<1> QED
  BY <1>4, <1>5, Goes DEF GoesOnCleaning, DatasetInv

(* and one that has removed it.                                            *)
LEMMA CleaningLeaves ==
  ASSUME DatasetInv, NEW p \in Procs, proc[p].step \in CleanerSteps,
         NEW left \in SUBSET Runs, Go(p, [proc[p] EXCEPT !.step = "row", !.left = left])
  PROVE  GoesOnCleaning(p, "row", left, proc[p].row)
<1>1. /\ proc[p] \in Cleanings /\ proc[p].left \in SUBSET Runs
      /\ proc[p].row \in Runs \cup {"none"} /\ "row" \in CleanerSteps
  BY CleaningAt DEF CleanerSteps
<1>2. PICK u : u = [proc[p] EXCEPT !.step = "row", !.left = left]
  OBVIOUS
<1>3. Continues(proc[p], u, "row", left, proc[p].row)
  BY <1>2 DEF Continues
<1>4. /\ u \in Tasks /\ u \in Cleanings
      /\ u.step = "row" /\ u.kind = proc[p].kind /\ u.seen = proc[p].seen
      /\ u.files = proc[p].files /\ u.left = left /\ u.row = proc[p].row
  BY <1>3, <1>1, CleaningGoesOn
<1>5. Go(p, u)
  BY <1>2
<1> QED
  BY <1>4, <1>5, Goes DEF GoesOnCleaning, DatasetInv

(* What a cleaner that has looked may be relied on for.                    *)
LEMMA CleaningInv ==
  ASSUME DatasetInv, NEW p \in Procs, proc[p].step \in CleanerSteps,
         NEW step \in CleanerSteps, NEW left \in SUBSET proc[p].left,
         NEW row \in Runs \cup {"none"}, GoesOnCleaning(p, step, left, row),
         receipts \subseteq receipts', splits' = splits, partials' = partials,
         proc[p].kind \in {"duplicate", "short"} => registry' = p,
         step \in {"look", "splits", "remove", "removing"} => registry' = p,
         proc[p].step = "plan" => Targets(p) \subseteq receipts',
         step \in {"lock", "splits", "remove", "removing"} => row \in left,
         step \in {"lock", "splits"} => proc[p].kind = "superseded",
         step \in {"remove", "removing"} => NoSplitNames({row}),
         step = "remove" /\ proc[p].kind = "duplicate" =>
            \A k \in {row} \cup Keep("duplicate") :
                k \in DOMAIN recs' /\ recs'[k] = proc[p].files[k]
  PROVE  ProcessInv(p)'
<1>1. /\ Targets(p)' = Targets(p) /\ Cleans(p) /\ HoldsThroughout(p)' = HoldsThroughout(p)
      /\ proc'[p].step = step /\ proc'[p].left = left /\ proc'[p].row = row
      /\ proc'[p].seen = proc[p].seen /\ proc'[p].files = proc[p].files
      /\ proc'[p].kind = proc[p].kind
  BY DEF GoesOnCleaning, Targets, HoldsThroughout, Cleans
<1>2. RegistryIsHeld(p)'
  BY <1>1 DEF RegistryIsHeld, HoldsThroughout, CleanerSteps
<1>3. CleanerIsReviewed(p)'
  BY <1>1 DEF CleanerIsReviewed, DatasetInv, ProcessInv
<1>4. RemovalIsUnnamed(p)'
  BY <1>1 DEF RemovalIsUnnamed, DatasetInv, ProcessInv, NoSplitNames, SplitReferences
<1>5. CopyIsWhole(p)'
  BY <1>1 DEF CopyIsWhole, At, Unchanged
<1> QED
  BY <1>1, <1>2, <1>3, <1>4, <1>5
     DEF ProcessInv, DocumentIsVerified, ReviewIsBehind, At, CleanerSteps

(* A cleaner that takes nothing away leaves the rest as it is.             *)
LEMMA CleaningKeeps ==
  ASSUME DatasetInv, NEW p \in Procs, ProcessInv(p)',
         NEW step, NEW left, NEW row, GoesOnCleaning(p, step, left, row),
         UNCHANGED <<recs, splits, partials, marks, capture>>,
         receipts \subseteq receipts', receipts' \subseteq Runs,
         registry' = registry \/ (registry = "none" /\ registry' = p)
  PROVE  DatasetInv'
<1>1. DatasetTypeOK'
  BY DEF DatasetInv, DatasetTypeOK, Recordings, GoesOnCleaning, Locked
<1>2. Alone(p)
  BY DatasetAssumption DEF Alone, Steady, DatasetInv, DatasetTypeOK, GoesOnCleaning
<1> QED
  BY <1>1, <1>2, BackedStays, StepKeeps DEF DatasetInv

(* What it will remove is put aside.                                       *)
LEMMA PlanKeeps ==
  ASSUME DatasetInv, NEW p \in Procs, Plan(p)
  PROVE  DatasetInv'
<1>1. /\ proc[p].step = "plan" /\ To(p, "row") /\ receipts' = receipts \cup Targets(p)
      /\ UNCHANGED <<recs, splits, partials, marks, registry, capture>>
  BY DEF Plan, At, locks
<1>2. GoesOnCleaning(p, "row", proc[p].left, proc[p].row) /\ proc[p].step \in CleanerSteps
  BY <1>1, CleaningTo DEF CleanerSteps
<1>3. proc[p].kind \in {"duplicate", "short"} => registry = p
  BY <1>2 DEF DatasetInv, ProcessInv, RegistryIsHeld, HoldsThroughout, Cleans
<1>4. Targets(p) \in SUBSET Runs /\ proc[p].row \in Runs \cup {"none"}
  BY <1>2, CleaningAt
<1>5. ProcessInv(p)'
  BY <1>1, <1>2, <1>3, <1>4, CleaningInv DEF CleanerSteps
<1> QED
  BY <1>1, <1>2, <1>4, <1>5, CleaningKeeps DEF DatasetInv, DatasetTypeOK

(* The lock is taken for one recording.                                    *)
LEMMA LockRowKeeps ==
  ASSUME DatasetInv, NEW p \in Procs, LockRow(p)
  PROVE  DatasetInv'
<1>1. /\ proc[p].step = "row" /\ To(p, "look") /\ registry = "none" /\ registry' = p
      /\ UNCHANGED <<recs, splits, partials, marks, capture, receipts>>
  BY DEF LockRow, At, TakeRegistry
<1>2. GoesOnCleaning(p, "look", proc[p].left, proc[p].row) /\ proc[p].step \in CleanerSteps
  BY <1>1, CleaningTo DEF CleanerSteps
<1>3. proc[p].row \in Runs \cup {"none"}
  BY <1>2, CleaningAt
<1>4. ProcessInv(p)'
  BY <1>1, <1>2, <1>3, CleaningInv DEF CleanerSteps
<1> QED
  BY <1>1, <1>2, <1>4, CleaningKeeps DEF DatasetInv, DatasetTypeOK

(* For one that another has replaced it is taken after the look.           *)
LEMMA LockLookedKeeps ==
  ASSUME DatasetInv, NEW p \in Procs, LockLooked(p)
  PROVE  DatasetInv'
<1>1. /\ proc[p].step = "lock" /\ To(p, "splits") /\ registry = "none" /\ registry' = p
      /\ UNCHANGED <<recs, splits, partials, marks, capture, receipts>>
  BY DEF LockLooked, At, TakeRegistry
<1>2. GoesOnCleaning(p, "splits", proc[p].left, proc[p].row) /\ proc[p].step \in CleanerSteps
  BY <1>1, CleaningTo DEF CleanerSteps
<1>3. proc[p].row \in Runs \cup {"none"} /\ proc[p].row \in proc[p].left
      /\ proc[p].kind = "superseded"
  BY <1>1, <1>2, CleaningAt DEF DatasetInv, ProcessInv, CleanerIsReviewed, Cleans
<1>4. ProcessInv(p)'
  BY <1>1, <1>2, <1>3, CleaningInv DEF CleanerSteps
<1> QED
  BY <1>1, <1>2, <1>4, CleaningKeeps DEF DatasetInv, DatasetTypeOK

(* The final look finds the recording unnamed, unless the splits are to be *)
(* looked at yet.                                                          *)
LEMMA LookAtRowKeeps ==
  ASSUME DatasetInv, NEW p \in Procs, LookAtRow(p)
  PROVE  DatasetInv'
<1>1. /\ proc[p].step \in {"look", "row"} /\ proc[p].step \in CleanerSteps
      /\ proc[p].step = "row" => proc[p].kind # "debug"
      /\ UNCHANGED <<recs, splits, partials, marks, registry, capture, receipts>>
  BY DEF LookAtRow, At, locks, CleanerSteps
<1>2. PICK r \in proc[p].left :
        /\ LastLook(p, r)
        /\ Go(p, [proc[p] EXCEPT !.row = r,
                     !.step = IF proc[p].kind = "superseded" THEN "lock" ELSE "remove"])
  BY DEF LookAtRow
<1> DEFINE step == IF proc[p].kind = "superseded" THEN "lock" ELSE "remove"
<1>3. /\ proc[p].kind \in Cleaners /\ proc[p].left \in SUBSET Runs /\ r \in Runs
      /\ step \in CleanerSteps
  BY <1>1, CleaningAt DEF CleanerSteps
<1>4. GoesOnCleaning(p, step, proc[p].left, r)
  BY <1>1, <1>2, <1>3, CleaningLooks
<1>5. /\ RegistryIsHeld(p) /\ RemovalIsUnnamed(p) /\ CleanerIsReviewed(p)
      /\ Cleans(p)
  BY <1>1 DEF DatasetInv, ProcessInv, Cleans
<1>6. r \in Targets(p)
  BY <1>5 DEF CleanerIsReviewed
<1>7. CASE proc[p].kind = "superseded"
  <2>1. ProcessInv(p)'
    BY <1>1, <1>3, <1>4, <1>7, CleaningInv
  <2> QED
    BY <1>1, <1>4, <2>1, CleaningKeeps DEF DatasetInv, DatasetTypeOK
<1>8. CASE proc[p].kind = "duplicate"
  <2>1. /\ Unchanged(p, r) /\ \A k \in Keep("duplicate") : Unchanged(p, k)
    BY <1>2, <1>8 DEF LastLook
  <2>2. NoSplitNames({r}) /\ registry = p
    BY <1>5, <1>6, <1>8 DEF RemovalIsUnnamed, RegistryIsHeld, HoldsThroughout, NoSplitNames
  <2>3. ProcessInv(p)'
    BY <1>1, <1>3, <1>4, <1>8, <2>1, <2>2, CleaningInv DEF Unchanged
  <2> QED
    BY <1>1, <1>4, <2>3, CleaningKeeps DEF DatasetInv, DatasetTypeOK
<1>9. CASE proc[p].kind \in {"debug", "short"}
  <2>1. NoSplitNames({r})
    BY <1>2, <1>6, <1>9 DEF LastLook, Reviewable, NoSplitNames
  <2>2. registry = p
    BY <1>1, <1>5, <1>9 DEF RegistryIsHeld, HoldsThroughout
  <2>3. ProcessInv(p)'
    BY <1>1, <1>3, <1>4, <1>9, <2>1, <2>2, CleaningInv
  <2> QED
    BY <1>1, <1>4, <2>3, CleaningKeeps DEF DatasetInv, DatasetTypeOK
<1> QED
  BY <1>3, <1>7, <1>8, <1>9 DEF Cleaners

(* The splits are looked at with the lock held.                            *)
LEMMA LookAtSplitsKeeps ==
  ASSUME DatasetInv, NEW p \in Procs, LookAtSplits(p)
  PROVE  DatasetInv'
<1>1. /\ proc[p].step = "splits" /\ proc[p].step \in CleanerSteps
      /\ To(p, "remove") /\ NoSplitNames({proc[p].row})
      /\ UNCHANGED <<recs, splits, partials, marks, registry, capture, receipts>>
  BY DEF LookAtSplits, At, locks, CleanerSteps
<1>2. GoesOnCleaning(p, "remove", proc[p].left, proc[p].row)
  BY <1>1, CleaningTo DEF CleanerSteps
<1>3. /\ proc[p].row \in Runs \cup {"none"} /\ proc[p].row \in proc[p].left
      /\ registry = p /\ proc[p].kind = "superseded"
  BY <1>1, CleaningAt DEF DatasetInv, ProcessInv, CleanerIsReviewed, Cleans, RegistryIsHeld
<1>4. ProcessInv(p)'
  BY <1>1, <1>2, <1>3, CleaningInv DEF CleanerSteps
<1> QED
  BY <1>1, <1>2, <1>4, CleaningKeeps DEF DatasetInv, DatasetTypeOK

(* No split is touched by what becomes of a recording none of them names.  *)
LEMMA BackedWithout ==
  ASSUME RegisteredSplitIsBacked, NEW row, NoSplitNames({row}), splits' = splits,
         \A r \in DOMAIN recs \ {row} : r \in DOMAIN recs' /\ recs'[r] = recs[r]
  PROVE  RegisteredSplitIsBacked'
<1>1. ASSUME NEW d \in splits, NEW r \in DOMAIN d.sides
      PROVE  Finalized(r)' /\ recs'[r].index = d.evidence[r]
  <2>1. r # row
    BY <1>1 DEF NoSplitNames, SplitReferences
  <2>2. Finalized(r) /\ recs[r].index = d.evidence[r]
    BY <1>1 DEF RegisteredSplitIsBacked
  <2> QED
    BY <2>1, <2>2 DEF Finalized
<1> QED
  BY <1>1 DEF RegisteredSplitIsBacked

(* A removal begins, of what no split names.                               *)
LEMMA RemoveKeeps ==
  ASSUME DatasetInv, NEW p \in Procs, Remove(p)
  PROVE  DatasetInv'
<1>1. /\ proc[p].step = "remove" /\ proc[p].step \in CleanerSteps
      /\ To(p, "removing") /\ proc[p].row \in DOMAIN recs
      /\ UNCHANGED <<splits, partials, marks, registry, capture, receipts>>
  BY DEF Remove, At, locks, CleanerSteps
<1>2. PICK bare \in BOOLEAN :
        recs' = [recs EXCEPT ![proc[p].row].whole = FALSE,
                             ![proc[p].row].status = IF bare THEN "bare" ELSE @]
  BY DEF Remove
<1>3. GoesOnCleaning(p, "removing", proc[p].left, proc[p].row)
  BY <1>1, CleaningTo DEF CleanerSteps
<1>4. /\ proc[p].row \in Runs \cup {"none"} /\ proc[p].row \in proc[p].left
      /\ registry = p /\ NoSplitNames({proc[p].row})
  BY <1>1, CleaningAt
     DEF DatasetInv, ProcessInv, CleanerIsReviewed, Cleans, RegistryIsHeld, RemovalIsUnnamed
<1>5. /\ Recordings(recs') /\ DOMAIN recs' = DOMAIN recs
      /\ \A r \in DOMAIN recs \ {proc[p].row} : r \in DOMAIN recs' /\ recs'[r] = recs[r]
  <2>1. recs \in [DOMAIN recs -> Recording] /\ DOMAIN recs \subseteq Runs
    BY DEF DatasetInv, DatasetTypeOK, Recordings
  <2>2. \A r \in DOMAIN recs \ {proc[p].row} : r \in DOMAIN recs' /\ recs'[r] = recs[r]
    BY <1>2, <2>1
  <2>3. recs'[proc[p].row] \in Recording /\ recs' \in [DOMAIN recs -> Recording]
    BY <1>1, <1>2, <2>1 DEF Recording, Statuses
  <2> QED
    BY <2>1, <2>2, <2>3 DEF Recordings
<1>6. DatasetTypeOK'
  BY <1>1, <1>3, <1>5 DEF DatasetInv, DatasetTypeOK, GoesOnCleaning, Recordings
<1>7. Alone(p)
  BY <1>1, <1>3, <1>4 DEF Alone, Steady, DatasetInv, DatasetTypeOK, GoesOnCleaning
<1>8. ProcessInv(p)'
  BY <1>1, <1>3, <1>4, CleaningInv DEF CleanerSteps
<1>9. RegisteredSplitIsBacked'
  BY <1>1, <1>4, <1>5, BackedWithout DEF DatasetInv
<1> QED
  BY <1>6, <1>7, <1>8, <1>9, StepKeeps

(* The recording is gone, and the lock with it unless more are to go.      *)
LEMMA RemovedKeeps ==
  ASSUME DatasetInv, NEW p \in Procs, Removed(p)
  PROVE  DatasetInv'
<1> DEFINE left == proc[p].left \ {proc[p].row}
<1>1. /\ proc[p].step = "removing" /\ proc[p].step \in CleanerSteps
      /\ recs' = Restrict(recs, DOMAIN recs \ {proc[p].row})
      /\ UNCHANGED <<splits, partials, marks, receipts>>
  BY DEF Removed, At, CleanerSteps
<1>2. /\ registry = p /\ NoSplitNames({proc[p].row})
      /\ proc[p].left \in SUBSET Runs /\ proc[p].row \in Runs \cup {"none"}
      /\ proc[p].kind \in Cleaners
  BY <1>1, CleaningAt DEF DatasetInv, ProcessInv, RegistryIsHeld, RemovalIsUnnamed
<1>3. /\ Recordings(recs')
      /\ \A r \in DOMAIN recs \ {proc[p].row} : r \in DOMAIN recs' /\ recs'[r] = recs[r]
  BY <1>1 DEF DatasetInv, DatasetTypeOK, Recordings, Restrict
<1>4. RegisteredSplitIsBacked'
  BY <1>1, <1>2, <1>3, BackedWithout DEF DatasetInv
<1>5. CASE left = {}
  <2>1. Go(p, Idle) /\ Release(p)
    BY <1>5 DEF Removed
  <2>2. proc' \in [Procs -> Tasks] /\ proc'[p] = Idle /\ \A q \in Procs \ {p} : proc'[q] = proc[q]
    BY <2>1, Rests DEF DatasetInv
  <2>3. DatasetTypeOK'
    BY <1>1, <1>3, <2>1, <2>2, Releases DEF DatasetInv, DatasetTypeOK
  <2>4. Alone(p)
    BY <1>1, <1>2, <2>1, <2>2, Releases DEF Alone, Steady, DatasetInv, DatasetTypeOK
  <2> QED
    BY <1>4, <2>2, <2>3, <2>4, IdleInv, StepKeeps
<1>6. CASE left # {}
  <2>1. /\ Go(p, [proc[p] EXCEPT !.step = "row", !.left = left])
        /\ IF proc[p].kind \in {"debug", "superseded"} THEN Release(p) ELSE UNCHANGED locks
    BY <1>6 DEF Removed
  <2>2. GoesOnCleaning(p, "row", left, proc[p].row)
    BY <1>1, <1>2, <2>1, CleaningLeaves
  <2>3. /\ registry' \in Locked /\ capture' \in Locked
        /\ proc[p].kind \in {"duplicate", "short"} => registry' = p
        /\ \A q \in Procs \ {p} : registry = q => registry' = q
    BY <1>2, <2>1, Releases DEF DatasetInv, DatasetTypeOK, locks
  <2>4. DatasetTypeOK'
    BY <1>1, <1>3, <2>2, <2>3 DEF DatasetInv, DatasetTypeOK, GoesOnCleaning
  <2>5. Alone(p)
    BY <1>1, <1>2, <2>2, <2>3 DEF Alone, Steady, DatasetInv, DatasetTypeOK, GoesOnCleaning
  <2>6. ProcessInv(p)'
    BY <1>1, <1>2, <2>2, <2>3, CleaningInv DEF CleanerSteps
  <2> QED
    BY <1>4, <2>4, <2>5, <2>6, StepKeeps
<1> QED
  BY <1>5, <1>6

(* An error or the end of a process frees its locks.                       *)
LEMMA EndProcessKeeps ==
  ASSUME DatasetInv, NEW p \in Procs, EndProcess(p)
  PROVE  DatasetInv'
  BY RestKeeps DEF EndProcess

(* A storage review notes the marks and the splits there are.              *)
LEMMA StartReviewKeeps ==
  ASSUME DatasetInv, NEW p \in Procs, StartReview(p)
  PROVE  DatasetInv'
<1> DEFINE t == [step |-> "scan", seen |-> marks, due |-> UNION {DOMAIN d.sides : d \in splits}]
<1>1. Go(p, t) /\ UNCHANGED <<recs, splits, partials, marks, registry, capture, receipts>>
  BY DEF StartReview, locks
<1>2. t \in Tasks
  <2>1. ASSUME NEW d \in splits PROVE DOMAIN d.sides \subseteq Runs
    BY DEF DatasetInv, DatasetTypeOK, Documents
  <2> QED
    BY <2>1 DEF Tasks, Scans, DatasetInv, DatasetTypeOK
<1>3. proc' \in [Procs -> Tasks] /\ proc'[p] = t /\ \A q \in Procs \ {p} : proc'[q] = proc[q]
  BY <1>1, <1>2, Goes DEF DatasetInv
<1>4. DatasetTypeOK'
  BY <1>1, <1>3 DEF DatasetInv, DatasetTypeOK, Recordings
<1>5. Alone(p)
  BY <1>1, <1>3 DEF Alone, Steady, DatasetInv, DatasetTypeOK
<1>6. ProcessInv(p)'
  <2>1. ReviewIsBehind(p)'
    BY <1>1, <1>3 DEF ReviewIsBehind, At, DatasetInv, DatasetTypeOK, Marks
  <2> QED
    BY <1>3, <2>1 DEF ProcessInv, RegistryIsHeld, DocumentIsVerified, CleanerIsReviewed,
         RemovalIsUnnamed, CopyIsWhole, HoldsThroughout, Cleans, CleanerSteps, At
<1> QED
  BY <1>1, <1>4, <1>5, <1>6, BackedStays, StepKeeps DEF DatasetInv

(* It sees every split there was then.                                     *)
LEMMA ScanKeeps ==
  ASSUME DatasetInv, NEW p \in Procs, Scan(p)
  PROVE  DatasetInv'
<1>1. /\ proc[p].step = "scan"
      /\ UNCHANGED <<recs, splits, partials, marks, registry, capture, receipts>>
  BY DEF Scan, At, locks
<1>2. PICK complete \in BOOLEAN :
        Go(p, [step |-> "compare", seen |-> proc[p].seen, due |-> proc[p].due,
               split |-> SplitReferences.runs, complete |-> complete])
  BY DEF Scan, SplitReferences
<1> DEFINE t == [step |-> "compare", seen |-> proc[p].seen, due |-> proc[p].due,
                 split |-> SplitReferences.runs, complete |-> complete]
<1>3. proc[p].seen \in Marks /\ proc[p].due \in SUBSET Runs
  BY <1>1, TaskOfStep DEF DatasetInv, DatasetTypeOK, Scans
<1>4. t \in Tasks
  <2>1. ASSUME NEW d \in splits \cup partials PROVE DOMAIN d.sides \subseteq Runs
    BY DEF DatasetInv, DatasetTypeOK, Documents
  <2> QED
    BY <1>3, <2>1 DEF Tasks, Comparisons, SplitReferences
<1>5. proc' \in [Procs -> Tasks] /\ proc'[p] = t /\ \A q \in Procs \ {p} : proc'[q] = proc[q]
  BY <1>2, <1>4, Goes DEF DatasetInv
<1>6. DatasetTypeOK'
  BY <1>1, <1>5 DEF DatasetInv, DatasetTypeOK, Recordings
<1>7. Alone(p)
  BY <1>1, <1>5 DEF Alone, Steady, DatasetInv, DatasetTypeOK
<1>8. ProcessInv(p)'
  <2>1. ReviewIsBehind(p)
    BY DEF DatasetInv, ProcessInv
  <2>2. ReviewIsBehind(p)'
    BY <1>1, <1>5, <2>1 DEF ReviewIsBehind, At, SplitReferences
  <2> QED
    BY <1>5, <2>2 DEF ProcessInv, RegistryIsHeld, DocumentIsVerified, CleanerIsReviewed,
         RemovalIsUnnamed, CopyIsWhole, HoldsThroughout, Cleans, CleanerSteps, At
<1> QED
  BY <1>1, <1>6, <1>7, <1>8, BackedStays, StepKeeps DEF DatasetInv

(* The review is shown and the process rests.                              *)
LEMMA EndReviewKeeps ==
  ASSUME DatasetInv, NEW p \in Procs, EndReview(p)
  PROVE  DatasetInv'
<1>1. Go(p, Idle) /\ UNCHANGED <<recs, splits, partials, marks, registry, capture, receipts>>
  BY DEF EndReview, locks
<1>2. proc' \in [Procs -> Tasks] /\ proc'[p] = Idle /\ \A q \in Procs \ {p} : proc'[q] = proc[q]
  BY <1>1, Rests DEF DatasetInv
<1>3. DatasetTypeOK'
  BY <1>1, <1>2 DEF DatasetInv, DatasetTypeOK, Recordings
<1>4. Alone(p)
  BY <1>1, <1>2 DEF Alone, Steady, DatasetInv, DatasetTypeOK
<1> QED
  BY <1>1, <1>2, <1>3, <1>4, IdleInv, BackedStays, StepKeeps DEF DatasetInv

(* What the studio does beside them changes none of it.                    *)
LEMMA BesideKeeps ==
  ASSUME DatasetInv,
         UNCHANGED <<recs, marks, splits, partials, proc, registry, capture, receipts>>
  PROVE  DatasetInv'
<1>1. DatasetTypeOK'
  BY DEF DatasetInv, DatasetTypeOK, Recordings
<1>2. ASSUME NEW q \in Procs PROVE ProcessInv(q)'
  <2>1. Steady(q) /\ marks' \in Marks /\ proc'[q] = proc[q]
    BY DEF Steady, DatasetInv, DatasetTypeOK
  <2> QED
    BY <2>1, OthersKeep DEF DatasetInv
<1> QED
  BY <1>1, <1>2, BackedStays DEF DatasetInv

(* At first nothing is registered and no process is at work.               *)
LEMMA DatasetInitially == DatasetInit => DatasetInv
<1> SUFFICES ASSUME DatasetInit PROVE DatasetInv
  OBVIOUS
<1>1. marks \in Marks
  BY DatasetAssumption DEF DatasetInit, Marks
<1>2. DatasetTypeOK
  BY <1>1, DatasetAssumption DEF DatasetInit, DatasetTypeOK, Tasks, Locked
<1>3. RegisteredSplitIsBacked
  BY DEF DatasetInit, RegisteredSplitIsBacked
<1>4. ASSUME NEW p \in Procs PROVE ProcessInv(p)
  BY DEF DatasetInit, Idle, ProcessInv, RegistryIsHeld, DocumentIsVerified, CleanerIsReviewed,
         RemovalIsUnnamed, CopyIsWhole, ReviewIsBehind, HoldsThroughout, Cleans, CleanerSteps, At
<1> QED
  BY <1>2, <1>3, <1>4 DEF DatasetInv

(* Every step keeps the invariant.                                         *)
LEMMA DatasetStep == DatasetInv /\ [DatasetNext]_datasetVars => DatasetInv'
<1> SUFFICES ASSUME DatasetInv, [DatasetNext]_datasetVars PROVE DatasetInv'
  OBVIOUS
<1>1. ASSUME NEW p \in Procs,
             Register(p) \/ VerifySplit(p) \/ WritePartial(p) \/ PublishSplit(p)
               \/ EndRegistration(p)
      PROVE  DatasetInv'
  BY <1>1, RegisterKeeps, VerifySplitKeeps, WritePartialKeeps, PublishSplitKeeps,
     EndRegistrationKeeps
<1>2. ASSUME NEW p \in Procs, AskKeep(p) \/ SetKeep(p) PROVE DatasetInv'
  BY <1>2, AskKeepKeeps, SetKeepKeeps
<1>3. ASSUME NEW p \in Procs,
             StartCleaner(p) \/ Plan(p) \/ LockRow(p) \/ LookAtRow(p) \/ LockLooked(p)
               \/ LookAtSplits(p) \/ Remove(p) \/ Removed(p)
      PROVE  DatasetInv'
  BY <1>3, StartCleanerKeeps, PlanKeeps, LockRowKeeps, LookAtRowKeeps, LockLookedKeeps,
     LookAtSplitsKeeps, RemoveKeeps, RemovedKeeps
<1>4. ASSUME NEW p \in Procs, EndProcess(p) \/ StartReview(p) \/ Scan(p) \/ EndReview(p)
      PROVE  DatasetInv'
  BY <1>4, EndProcessKeeps, StartReviewKeeps, ScanKeeps, EndReviewKeeps
<1>5. CASE StudioWorks \/ Mention \/ UNCHANGED datasetVars
  BY <1>5, BesideKeeps DEF StudioWorks, Mention, datasetVars, locks
<1> QED
  BY <1>1, <1>2, <1>3, <1>4, <1>5 DEF DatasetNext

(* The invariant of registrations, cleaners and reviews, for any number of *)
(* processes, recordings and splits, and any deaths between two steps.     *)
THEOREM DatasetCorrect == DatasetSpec => []DatasetInv
  BY DatasetInitially, DatasetStep, PTL DEF DatasetSpec

(* A registered split names recordings that are there as it says, and no   *)
(* scene is on two of its sides (split_registry.py:36).                    *)
THEOREM SplitsAreBacked == DatasetSpec => []RegisteredSplitIsBacked
<1>1. DatasetInv => RegisteredSplitIsBacked
  BY DEF DatasetInv
<1> QED
  BY <1>1, DatasetCorrect, PTL

(* A removal takes what was put aside, was not kept, and of a duplicate    *)
(* what has a whole copy.                                                  *)
LEMMA RemovalStep ==
  ASSUME DatasetInv, NEW p \in Procs, At(p, "remove")
  PROVE  /\ proc[p].row \in receipts \ proc[p].seen.kept
         /\ proc[p].kind = "duplicate" =>
               \A k \in Keep("duplicate") : k \in DOMAIN recs /\ recs[k] = recs[proc[p].row]
<1>1. CleanerIsReviewed(p) /\ CopyIsWhole(p) /\ Cleans(p) /\ proc[p].step = "remove"
  BY DEF DatasetInv, ProcessInv, At, Cleans, CleanerSteps
<1>2. proc[p].row \in Targets(p) /\ Targets(p) \subseteq receipts
      /\ Targets(p) \cap proc[p].seen.kept = {}
  BY <1>1 DEF CleanerIsReviewed
<1>3. ASSUME proc[p].kind = "duplicate", NEW k \in Keep("duplicate")
      PROVE  k \in DOMAIN recs /\ recs[k] = recs[proc[p].row]
  <2>1. recs[k] = proc[p].files[k] /\ k \in DOMAIN recs
        /\ recs[proc[p].row] = proc[p].files[proc[p].row]
    BY <1>1, <1>3 DEF CopyIsWhole, Unchanged
  <2>2. proc[p].files[proc[p].row] = proc[p].files[k]
    BY <1>1, <1>2, <1>3 DEF CleanerIsReviewed
  <2> QED
    BY <2>1, <2>2
<1> QED
  BY <1>2, <1>3

(* A review that is complete is of the marks there are.                    *)
LEMMA ReviewStep ==
  ASSUME DatasetInv, [DatasetNext]_datasetVars, report' # report, report'.complete
  PROVE  report'.kept = marks.kept /\ report'.due \subseteq report'.split
<1>1. PICK p \in Procs : EndReview(p)
  BY DEF DatasetNext, datasetVars, Register, VerifySplit, WritePartial, PublishSplit,
         EndRegistration, AskKeep, SetKeep, StartCleaner, Plan, LockRow, LookAtRow, LockLooked,
         LookAtSplits, Remove, Removed, EndProcess, StartReview, Scan, StudioWorks, Mention
<1>2. ReviewIsBehind(p) /\ proc[p].step = "compare"
  BY <1>1 DEF DatasetInv, ProcessInv, EndReview, At
<1> QED
  BY <1>1, <1>2 DEF EndReview, ReviewIsBehind, At

(* What a cleaner removes, and what a complete storage review shows, has   *)
(* been reviewed (cleanup_duplicate_recoveries.py:1, storage_review.py:48).*)
THEOREM RecordsWereReviewed == DatasetSpec => RecordsAreReviewed
<1>1. DatasetInv /\ [DatasetNext]_datasetVars =>
        [\A p \in Procs : At(p, "remove") /\ proc'[p].step = "removing" =>
           /\ proc[p].row \in receipts \ proc[p].seen.kept
           /\ proc[p].kind = "duplicate" =>
                 \A k \in Keep("duplicate") : k \in DOMAIN recs /\ recs[k] = recs[proc[p].row]
        ]_datasetVars
  BY RemovalStep
<1>2. DatasetInv /\ [DatasetNext]_datasetVars =>
        [report' # report /\ report'.complete =>
           report'.kept = marks.kept /\ report'.due \subseteq report'.split]_datasetVars
  BY ReviewStep
<1> QED
  BY <1>1, <1>2, DatasetCorrect, PTL DEF DatasetSpec, RecordsAreReviewed, RemovalIsReviewed,
     ReviewIsCurrent

-----------------------------------------------------------------------------
(* QualityReports: an audit, its lease and its reports.                    *)

(* A fresh studio satisfies the invariant.                                 *)
LEMMA QualityInitInv == QualityInit => QualityInv
  BY DEF QualityInit, QualityInv, QualityTypeOK, LeaseIsHeld, OldIsArchived, ResultIsOfBefore,
         Steps, States, Reports, Rest, Report, None

(* The types are kept.                                                     *)
LEMMA AuditTypeStep ==
  ASSUME QualityTypeOK, [QualityNext]_qualityVars
  PROVE  QualityTypeOK'
<1> USE DEF QualityTypeOK, Steps, States, Reports, Rest, Report, None
<1>1. CASE StartScan
  <2>1. scan' = [step |-> "admitted", id |-> scans + 1, before |-> 0, result |-> "none"]
    BY <1>1 DEF StartScan
  <2> QED
    BY <1>1, <2>1 DEF StartScan
<1>2. CASE ArchiveOld
  BY <1>2 DEF ArchiveOld
<1>3. CASE WritePending
  BY <1>3 DEF WritePending
<1>4. CASE StartFails
  BY <1>4 DEF StartFails
<1>5. CASE Spawn
  BY <1>5 DEF Spawn
<1>6. CASE ValidatorEnds
  BY <1>6 DEF ValidatorEnds
<1>7. CASE Publish
  BY <1>7 DEF Publish, Result
<1>8. CASE CrashBridge
  BY <1>8 DEF CrashBridge
<1>9. CASE ChangeContent
  BY <1>9 DEF ChangeContent
<1>10. CASE UNCHANGED qualityVars
  BY <1>10 DEF qualityVars
<1> QED
  BY <1>1, <1>2, <1>3, <1>4, <1>5, <1>6, <1>7, <1>8, <1>9, <1>10 DEF QualityNext

(* A scan, or what is left of one, has the lease.                          *)
LEMMA LeaseStep ==
  ASSUME QualityTypeOK, LeaseIsHeld, [QualityNext]_qualityVars
  PROVE  LeaseIsHeld'
<1> USE DEF QualityTypeOK, LeaseIsHeld, Steps, Rest, Bridge
<1>1. CASE StartScan
  BY <1>1 DEF StartScan
<1>2. CASE ArchiveOld
  BY <1>2 DEF ArchiveOld
<1>3. CASE WritePending
  BY <1>3 DEF WritePending
<1>4. CASE StartFails
  BY <1>4 DEF StartFails
<1>5. CASE Spawn
  BY <1>5 DEF Spawn
<1>6. CASE ValidatorEnds
  <2>1. PICK v \in validators :
          /\ validators' = validators \ {v} /\ lease' = lease \ {v}
          /\ v = scan.id => scan'.step = "scanned"
          /\ v # scan.id => scan' = scan
    BY <1>6 DEF ValidatorEnds
  <2>2. CASE scan.step = "none"
    <3>1. v # scan.id
      BY <2>2
    <3> QED
      BY <2>1, <2>2, <3>1
  <2>3. CASE scan.step = "scanning"
    BY <2>1, <2>3
  <2> QED
    BY <2>2, <2>3
<1>7. CASE Publish
  BY <1>7 DEF Publish, Result
<1>8. CASE CrashBridge
  BY <1>8 DEF CrashBridge
<1>9. CASE ChangeContent
  BY <1>9 DEF ChangeContent
<1>10. CASE UNCHANGED qualityVars
  BY <1>10 DEF qualityVars
<1> QED
  BY <1>1, <1>2, <1>3, <1>4, <1>5, <1>6, <1>7, <1>8, <1>9, <1>10 DEF QualityNext

(* A scan puts the report it replaces aside.                               *)
LEMMA ArchiveStep ==
  ASSUME QualityTypeOK, LeaseIsHeld, OldIsArchived, [QualityNext]_qualityVars
  PROVE  OldIsArchived'
<1> USE DEF QualityTypeOK, LeaseIsHeld, OldIsArchived, Steps, States, Reports, Rest, Report, None
<1>1. CASE StartScan
  BY <1>1 DEF StartScan
<1>2. CASE ArchiveOld
  BY <1>2 DEF ArchiveOld
<1>3. CASE WritePending
  BY <1>3 DEF WritePending
<1>4. CASE StartFails
  BY <1>4 DEF StartFails
<1>5. CASE Spawn
  BY <1>5 DEF Spawn
<1>6. CASE ValidatorEnds
  <2>1. PICK v \in validators :
          /\ v = scan.id => scan'.step = "scanned"
          /\ v # scan.id => scan' = scan
    BY <1>6 DEF ValidatorEnds
  <2>2. v = scan.id => scan.step = "scanning"
    BY <2>1
  <2> QED
    BY <1>6, <2>1, <2>2 DEF ValidatorEnds
<1>7. CASE Publish
  BY <1>7 DEF Publish, Result
<1>8. CASE CrashBridge
  BY <1>8 DEF CrashBridge
<1>9. CASE ChangeContent
  BY <1>9 DEF ChangeContent
<1>10. CASE UNCHANGED qualityVars
  BY <1>10 DEF qualityVars
<1> QED
  BY <1>1, <1>2, <1>3, <1>4, <1>5, <1>6, <1>7, <1>8, <1>9, <1>10 DEF QualityNext

(* A result is of what was there before, if that is still there.           *)
LEMMA ResultStep ==
  ASSUME QualityTypeOK, LeaseIsHeld, ResultIsOfBefore, [QualityNext]_qualityVars
  PROVE  ResultIsOfBefore'
<1> USE DEF QualityTypeOK, LeaseIsHeld, ResultIsOfBefore, Steps, States, Reports, Rest, Report, None
<1>1. CASE StartScan
  BY <1>1 DEF StartScan
<1>2. CASE ArchiveOld
  BY <1>2 DEF ArchiveOld
<1>3. CASE WritePending
  BY <1>3 DEF WritePending
<1>4. CASE StartFails
  BY <1>4 DEF StartFails
<1>5. CASE Spawn
  BY <1>5 DEF Spawn
<1>6. CASE ValidatorEnds
  BY <1>6 DEF ValidatorEnds
<1>7. CASE Publish
  BY <1>7 DEF Publish, Result
<1>8. CASE CrashBridge
  BY <1>8 DEF CrashBridge
<1>9. CASE ChangeContent
  BY <1>9 DEF ChangeContent
<1>10. CASE UNCHANGED qualityVars
  BY <1>10 DEF qualityVars
<1> QED
  BY <1>1, <1>2, <1>3, <1>4, <1>5, <1>6, <1>7, <1>8, <1>9, <1>10 DEF QualityNext

(* Every behaviour keeps the invariant.                                    *)
THEOREM QualityCorrect == QualitySpec => []QualityInv
<1>1. QualityInv /\ [QualityNext]_qualityVars => QualityInv'
  BY AuditTypeStep, LeaseStep, ArchiveStep, ResultStep DEF QualityInv
<1> QED
  BY <1>1, QualityInitInv, PTL DEF QualitySpec

(* One scan at a time, and what is shown as passed is sound.               *)
LEMMA AuditState ==
  ASSUME QualityInv
  PROVE  OneValidator /\ PassedIsSound
<1>1. OneValidator
  <2>1. CASE validators = {}
    BY <2>1, FS_EmptySet DEF OneValidator
  <2>2. CASE validators # {}
    <3>1. PICK v \in validators : TRUE
      BY <2>2
    <3>2. validators = {v}
      BY <3>1 DEF QualityInv, QualityTypeOK, LeaseIsHeld, Steps
    <3> QED
      BY <3>2, FS_Singleton DEF OneValidator
  <2> QED
    BY <2>1, <2>2
<1>2. PassedIsSound
  <2> SUFFICES ASSUME Shown.state = "passed", Shown.of = content
               PROVE  Sound(content)
    BY DEF PassedIsSound
  <2>1. Shown = onDisk
    BY DEF QualityInv, QualityTypeOK, ResultIsOfBefore, Reports, States, Report, Shown
  <2> QED
    BY <2>1 DEF QualityInv, ResultIsOfBefore
<1> QED
  BY <1>1, <1>2

(* A report that says how a scan ended is replaced only after it has been  *)
(* put into the history.                                                   *)
LEMMA OutcomeStep ==
  ASSUME QualityInv, [QualityNext]_qualityVars,
         onDisk.state \in {"passed", "failed", "incomplete"}, onDisk' # onDisk
  PROVE  onDisk \in history'
<1>1. CASE WritePending
  BY <1>1 DEF WritePending, QualityInv, OldIsArchived, None, Report
<1>2. CASE Publish
  BY <1>2 DEF Publish, QualityInv, OldIsArchived
<1> QED
  BY <1>1, <1>2 DEF QualityNext, qualityVars, StartScan, ArchiveOld, StartFails, Spawn,
     ValidatorEnds, CrashBridge, ChangeContent

(* The audit is evidence, for any number of scans, changes and crashes.    *)
THEOREM AuditsAreEvidence == QualitySpec => AuditIsEvidence
<1>1. QualityInv => OneValidator /\ PassedIsSound
  BY AuditState
<1>2. QualityInv /\ [QualityNext]_qualityVars =>
        [onDisk.state \in {"passed", "failed", "incomplete"} /\ onDisk' # onDisk =>
            onDisk \in history']_qualityVars
  BY OutcomeStep
<1> QED
  BY <1>1, <1>2, QualityCorrect, PTL DEF QualitySpec, AuditIsEvidence, OutcomesAreKept

-----------------------------------------------------------------------------
(* LivePreviews: the recorder, its sweep, the relay and the page.          *)

(* The groups of the invariant, by the variables they are about.           *)
RecorderInv == NamedIsWhole /\ WindowIsThere /\ FrameIsInHand /\ WindowIsNewest
RelayInv == RelayedIsOfItsFrame /\ RelayReadsOn
PageInv == ImagesAreNoOlder /\ ImagesAreAhead

(* How a worker goes on with its frame.                                    *)
GoesOnWith(t, u, step, left, window) ==
  \/ u = [t EXCEPT !.step = step] /\ left = t.left /\ window = t.window
  \/ u = [t EXCEPT !.left = left] /\ step = t.step /\ window = t.window
  \/ u = [t EXCEPT !.step = step, !.left = left] /\ window = t.window
  \/ u = [t EXCEPT !.step = step, !.window = window] /\ left = t.left

LEMMA ShowingGoesOn ==
  ASSUME NEW t \in Showings, NEW step \in ShowingSteps, NEW left \in SUBSET Cameras,
         NEW window \in Seq(Nat), NEW u, GoesOnWith(t, u, step, left, window)
  PROVE  /\ u \in Showings
         /\ u.run = t.run /\ u.sees = t.sees
         /\ u.step = step /\ u.left = left /\ u.window = window
<1>1. u = [run |-> t.run, step |-> step, left |-> left, sees |-> t.sees, window |-> window]
  BY DEF Showings, GoesOnWith
<1>2. u \in Showings
  BY <1>1 DEF Showings
<1> QED BY <1>1, <1>2

(* A worker, part by part.                                                *)
LEMMA ShowingIs ==
  ASSUME NEW run \in Nat, NEW step \in ShowingSteps, NEW left \in SUBSET Cameras,
         NEW sees \in SUBSET Cameras, NEW window \in Seq(Nat)
  PROVE  [run |-> run, step |-> step, left |-> left, sees |-> sees, window |-> window] \in Showings
  BY DEF Showings

(* A new worker has shown nothing, and the files of others are not recent. *)
LEMMA StartShowingKeeps ==
  ASSUME PreviewInv, NEW again \in BOOLEAN, StartShowing(again)
  PROVE  PreviewInv'
<1>1. PreviewTypeOK BY DEF PreviewInv
<1>2. PICK sees \in (SUBSET Cameras) \ {{}} :
        live' = [run |-> count.workers + 1, step |-> "starting", left |-> {}, sees |-> sees,
                 window |-> <<>>]
  BY <1>1 DEF StartShowing, Off, PreviewTypeOK
<1>3. /\ count.workers + 1 \in Nat /\ count.workers < count.workers + 1
      /\ count' = [workers |-> count.workers + 1, frame |-> count'.frame, shown |-> 0]
      /\ count'.frame \in Nat /\ relay.meta.step = "idle"
      /\ UNCHANGED <<started, frames, order, latest, relay, page>>
  BY <1>1 DEF StartShowing, PreviewTypeOK
<1>4. telemetry' = [images |-> <<>>, latest |-> NoFrame] BY DEF StartShowing, Emptied
<1>5. PreviewTypeOK'
  <2>1. /\ "starting" \in ShowingSteps /\ <<>> \in Seq(Nat) /\ count.workers + 1 \in Nat
        /\ sees \in SUBSET Cameras /\ {} \in SUBSET Cameras
    BY <1>3 DEF ShowingSteps
  <2>2. live' \in Showings
    BY <1>2, <2>1, ShowingIs
  <2>3. DOMAIN <<>> = {}
    OBVIOUS
  <2> QED BY <1>1, <1>3, <1>4, <2>2, <2>3 DEF PreviewTypeOK, NoFrame, ShownFrames
<1>6. RecorderInv' /\ RelayInv' /\ PageInv'
  BY <1>1, <1>2, <1>3, <1>4, PreviewAssumption DEF PreviewInv, PreviewsAreTrue, PreviewTypeOK,
     RecorderInv, RelayInv, PageInv,
     NamedIsWhole, WindowIsThere, FrameIsInHand, WindowIsNewest, RelayedIsOfItsFrame,
        RelayReadsOn, NothingIsAhead, Fresh,
     ImagesAreNoOlder, ImagesAreAhead
<1>7. NothingIsAhead'
  BY <1>1, <1>2, <1>3, <1>4 DEF PreviewInv, PreviewTypeOK, ShownFrames, NothingIsAhead, Fresh,
     Past, NoFrame
<1> QED BY <1>5, <1>6, <1>7 DEF PreviewInv, PreviewsAreTrue, RecorderInv, RelayInv, PageInv

(* The worker, which the run has announced before.                         *)
LEMMA LaunchKeeps == ASSUME PreviewInv, Launch PROVE PreviewInv'
<1>1. /\ PreviewTypeOK /\ UNCHANGED <<count, frames, order, latest, telemetry, relay, page>>
      /\ live \in Showings /\ live.left \in SUBSET Cameras /\ live.window \in Seq(Nat)
  BY DEF PreviewInv, PreviewTypeOK, Showings, Launch
<1>2. GoesOnWith(live, live', "idle", live.left, live.window) /\ live.step = "starting"
  BY DEF GoesOnWith, Launch
<1>3. /\ live' \in Showings /\ live'.run = live.run /\ live'.sees = live.sees
      /\ live'.step = "idle" /\ live'.left = live.left /\ live'.window = live.window
  BY <1>1, <1>2, ShowingGoesOn DEF ShowingSteps
<1>4. PreviewTypeOK'
  BY <1>1, <1>3 DEF Launch, PreviewTypeOK, Showings
<1>5. RecorderInv' /\ RelayInv' /\ PageInv' /\ NothingIsAhead'
  BY <1>1, <1>2, <1>3 DEF PreviewInv, PreviewsAreTrue, RecorderInv, RelayInv, PageInv,
     NamedIsWhole,
     WindowIsThere, FrameIsInHand, WindowIsNewest, RelayedIsOfItsFrame, RelayReadsOn,
        ImagesAreNoOlder,
     ImagesAreAhead, NothingIsAhead, Fresh, Past
<1> QED BY <1>4, <1>5 DEF PreviewInv, PreviewsAreTrue, RecorderInv, RelayInv, PageInv

(* A bridge that knows less.                                               *)
LEMMA RestartPageKeeps == ASSUME PreviewInv, RestartPage PROVE PreviewInv'
<1>1. UNCHANGED <<live, count, frames, order, latest, telemetry, relay, page>> /\ started' = 0
  BY DEF RestartPage
<1>2. PreviewTypeOK'
  BY <1>1 DEF PreviewInv, PreviewTypeOK
<1>3. RecorderInv' /\ RelayInv' /\ PageInv' /\ NothingIsAhead'
  BY <1>1 DEF PreviewInv, PreviewsAreTrue, RecorderInv, RelayInv, PageInv, NamedIsWhole,
     WindowIsThere, FrameIsInHand, WindowIsNewest, RelayedIsOfItsFrame, RelayReadsOn,
        ImagesAreNoOlder,
     ImagesAreAhead, NothingIsAhead, Fresh, Past
<1> QED BY <1>2, <1>3 DEF PreviewInv, PreviewsAreTrue, RecorderInv, RelayInv, PageInv

(* A frame is newer than any in the window or named by a fresh latest.json.*)
LEMMA BeginFrameKeeps == ASSUME PreviewInv, BeginFrame PROVE PreviewInv'
<1> DEFINE n == count.frame + 1
<1>1. /\ PreviewTypeOK /\ live.step = "idle" /\ n \in Nat /\ n > count.frame
      /\ UNCHANGED <<started, latest, telemetry, relay, page>>
      /\ live \in Showings /\ live.sees \in SUBSET Cameras /\ live.window \in Seq(Nat)
  BY DEF PreviewInv, PreviewTypeOK, Showings, BeginFrame
<1>2. count' = [workers |-> count.workers, frame |-> n, shown |-> count.shown + 1]
  BY <1>1 DEF PreviewTypeOK, BeginFrame
<1>3. GoesOnWith(live, live', "writing", live.sees, live.window)
  BY DEF GoesOnWith, BeginFrame
<1>4. /\ live' \in Showings /\ live'.run = live.run /\ live'.sees = live.sees
      /\ live'.step = "writing" /\ live'.left = live.sees /\ live'.window = live.window
  BY <1>1, <1>3, ShowingGoesOn DEF ShowingSteps
<1>5. /\ DOMAIN frames' = DOMAIN frames \cup {n}
      /\ \A f \in DOMAIN frames : frames'[f] = frames[f]
      /\ n \notin DOMAIN frames => frames'[n] = <<>>
  BY <1>2 DEF BeginFrame, Put
<1>6. /\ order' \subseteq (DOMAIN frames') \X (DOMAIN frames')
      /\ \A p \in order' : /\ p[1] # n /\ p[1] # p[2]
                           /\ p \in order \/ p[2] = n
  BY <1>1, <1>2, <1>5 DEF BeginFrame, Modified, OrderOf, PreviewInv, PreviewTypeOK, WindowIsNewest
<1> HIDE DEF n
<1>7. PreviewTypeOK'
  <2>1. \A f \in DOMAIN frames' : f \in Nat /\ \A c \in DOMAIN frames'[f] : frames'[f][c] \in Nat
    <3>1. DOMAIN <<>> = {} OBVIOUS
    <3> QED BY <1>1, <1>5, <3>1 DEF PreviewTypeOK
  <2>2. count' \in [workers : Nat, frame : Nat, shown : Nat]
    BY <1>1, <1>2 DEF PreviewTypeOK
  <2> QED BY <1>1, <1>4, <1>6, <2>1, <2>2 DEF PreviewTypeOK
<1>8. RecorderInv'
  <2>1. NamedIsWhole' /\ WindowIsThere' /\ FrameIsInHand'
    BY <1>1, <1>2, <1>4, <1>5 DEF PreviewInv, PreviewsAreTrue, NamedIsWhole, WindowIsThere,
       FrameIsInHand, Fresh
  <2>2. \A i \in DOMAIN live.window : live.window[i] < n
    BY <1>1 DEF PreviewInv, PreviewTypeOK, WindowIsNewest, Showings
  <2>3. /\ count'.frame = n /\ \A i \in DOMAIN live.window : live.window[i] <= n
        /\ \A i, j \in DOMAIN live.window : i < j => live.window[i] < live.window[j]
        /\ Len(live.window) <= KeepNewest
    BY <1>1, <1>2, <2>2 DEF PreviewInv, WindowIsNewest, Showings
  <2>4. ASSUME NEW p \in order', NEW i \in DOMAIN live.window, live.window[i] = p[1]
        PROVE  (\E j \in DOMAIN live.window : live.window[j] = p[2]) \/ p[2] = n
    BY <1>1, <1>6, <2>4 DEF PreviewInv, WindowIsNewest
  <2>5. WindowIsNewest'
    BY <1>4, <1>6, <2>2, <2>3, <2>4 DEF WindowIsNewest
  <2> QED BY <2>1, <2>5 DEF RecorderInv
<1>9. RelayInv'
  <2>1. /\ relay.meta.frame \in Nat /\ count.frame \in Nat
        /\ count'.workers = count.workers /\ count'.frame = n
    BY <1>1, <1>2 DEF PreviewTypeOK, Callbacks
  <2>2. relay.meta.frame <= count.frame => relay.meta.frame # n /\ relay.meta.frame <= n
    BY <1>1, <2>1
  <2>3. RelayReadsOn'
    BY <1>1, <1>5, <2>1, <2>2 DEF PreviewInv, RelayReadsOn
  <2> QED BY <1>1, <2>3 DEF PreviewInv, PreviewsAreTrue, RelayInv, RelayedIsOfItsFrame
<1>10. PageInv'
  BY <1>1, <1>4 DEF PreviewInv, PreviewsAreTrue, PageInv, ImagesAreNoOlder, ImagesAreAhead
<1>11. NothingIsAhead'
  BY <1>1, <1>2, <1>4 DEF PreviewInv, PreviewTypeOK, ShownFrames, NothingIsAhead, Fresh, Past
<1> QED BY <1>7, <1>8, <1>9, <1>10, <1>11 DEF PreviewInv, PreviewsAreTrue, RecorderInv,
   RelayInv, PageInv

(* An image, into a directory nobody has named yet.                        *)
LEMMA WriteImageKeeps == ASSUME PreviewInv, NEW c \in Cameras, WriteImage(c) PROVE PreviewInv'
<1>1. /\ PreviewTypeOK /\ live.step = "writing" /\ c \in live.left
      /\ UNCHANGED <<started, count, latest, telemetry, relay, page>>
  BY DEF PreviewInv, WriteImage
<1>2. PreviewTypeOK'
  BY PreviewAssumption DEF PreviewInv, PreviewTypeOK, Showings, Callbacks, FrameIsInHand,
     WriteImage, Modified, OrderOf, Put
<1>3. NamedIsWhole' /\ WindowIsThere'
  BY <1>1 DEF PreviewInv, PreviewTypeOK, Showings, PreviewsAreTrue, NamedIsWhole, WindowIsThere,
     NothingIsAhead, FrameIsInHand, WriteImage, Put, Fresh
<1>4. FrameIsInHand'
  BY <1>1 DEF PreviewInv, PreviewTypeOK, Showings, FrameIsInHand, WriteImage, Put
<1>5. WindowIsNewest'
  BY <1>1 DEF PreviewInv, PreviewTypeOK, Showings, WindowIsNewest, FrameIsInHand, WriteImage,
     Modified, OrderOf
<1>6. RelayInv'
  BY <1>1 DEF PreviewInv, PreviewsAreTrue, PreviewTypeOK, Showings, Callbacks, RelayInv,
     RelayedIsOfItsFrame, RelayReadsOn, NothingIsAhead, WriteImage, Put
<1>7. PageInv' /\ NothingIsAhead'
  BY <1>1 DEF PreviewInv, PreviewsAreTrue, PreviewTypeOK, Showings, PageInv, ImagesAreNoOlder,
     ImagesAreAhead, NothingIsAhead, WriteImage, Fresh, Past
<1> QED BY <1>2, <1>3, <1>4, <1>5, <1>6, <1>7 DEF PreviewInv, PreviewsAreTrue, RecorderInv,
   RelayInv, PageInv

(* The frame that is whole is named, and is the newest of the window.      *)
LEMMA NameFrameKeeps == ASSUME PreviewInv, NameFrame PROVE PreviewInv'
<1> DEFINE window == Append(live.window, count.frame)
<1>1. /\ PreviewTypeOK /\ live.step = "writing" /\ live.left = {}
      /\ latest' = [run |-> live.run, frame |-> count.frame, sees |-> live.sees]
      /\ UNCHANGED <<started, count, frames, order, telemetry, relay, page>>
  BY DEF PreviewInv, NameFrame, AllWritten
<1>2. GoesOnWith(live, live', "named", live.left, window)
  BY DEF GoesOnWith, NameFrame
<1>3. /\ live.window \in Seq(Nat) /\ count.frame \in Nat
      /\ live.left \in SUBSET Cameras /\ live \in Showings
  BY <1>1 DEF PreviewTypeOK, Showings
<1>4. /\ window \in Seq(Nat) /\ Len(window) = Len(live.window) + 1
      /\ window[Len(live.window) + 1] = count.frame
      /\ \A i \in DOMAIN live.window : i \in DOMAIN window /\ window[i] = live.window[i]
      /\ \A i \in DOMAIN window : i \in DOMAIN live.window \/ i = Len(live.window) + 1
      /\ \A i \in DOMAIN live.window : i < Len(live.window) + 1
      /\ Len(live.window) \in Nat /\ Len(live.window) + 1 \in DOMAIN window
  BY <1>3
<1> HIDE DEF window
<1>5. /\ live' \in Showings /\ live'.run = live.run /\ live'.sees = live.sees
      /\ live'.step = "named" /\ live'.left = live.left /\ live'.window = window
  BY <1>2, <1>3, <1>4, ShowingGoesOn DEF ShowingSteps
<1>6. PreviewTypeOK'
  BY <1>1, <1>3, <1>5 DEF PreviewTypeOK, Showings
<1>7. NamedIsWhole' /\ WindowIsThere'
  BY <1>1, <1>4, <1>5 DEF PreviewInv, PreviewsAreTrue, NamedIsWhole, WindowIsThere, FrameIsInHand
<1>8. FrameIsInHand'
  <2>1. window # <<>> /\ window[Len(window)] = count.frame
    <3>1. Len(<<>>) = 0 /\ Len(live.window) + 1 # 0 BY <1>4
    <3> QED BY <1>4, <3>1
  <2> QED BY <1>1, <1>5, <2>1 DEF FrameIsInHand
<1>9. WindowIsNewest'
  <2>1. \A i, j \in DOMAIN window : i < j => window[i] < window[j]
    BY <1>1, <1>3, <1>4 DEF PreviewInv, WindowIsNewest
  <2>2. \A i \in DOMAIN window : window[i] <= count.frame
    BY <1>3, <1>4 DEF PreviewInv, WindowIsNewest
  <2>3. Len(window) <= KeepNewest + 1
    BY <1>1, <1>3, <1>4, PreviewAssumption DEF PreviewInv, WindowIsNewest
  <2>4. ASSUME NEW p \in order, NEW i \in DOMAIN window, window[i] = p[1]
        PROVE  \E j \in DOMAIN window : window[j] = p[2]
    BY <1>1, <1>4, <2>4 DEF PreviewInv, WindowIsNewest
  <2> QED BY <1>1, <1>5, <2>1, <2>2, <2>3, <2>4 DEF PreviewInv, WindowIsNewest
<1>10. RelayInv'
  BY <1>1, <1>5 DEF PreviewInv, PreviewsAreTrue, RelayInv, RelayedIsOfItsFrame, RelayReadsOn
<1>11. PageInv' /\ NothingIsAhead'
  BY <1>1, <1>3, <1>5 DEF PreviewInv, PreviewsAreTrue, PreviewTypeOK, Showings, PageInv,
     ImagesAreNoOlder, ImagesAreAhead, NothingIsAhead, Fresh, Past
<1> QED BY <1>6, <1>7, <1>8, <1>9, <1>10, <1>11 DEF PreviewInv, PreviewsAreTrue, RecorderInv,
   RelayInv, PageInv

(* What is left when generations are removed.                              *)
LEMMA LessIsShown ==
  ASSUME PreviewInv, NEW gone, frames' = Drop(frames, gone), order' = OrderOf(DOMAIN frames'),
         UNCHANGED <<started, count, latest, telemetry, relay, page>>, live' \in Showings
  PROVE  /\ DOMAIN frames' = DOMAIN frames \ gone
         /\ \A f \in DOMAIN frames' : f \in DOMAIN frames /\ frames'[f] = frames[f]
         /\ \A p \in order' : p \in order /\ p[1] \in DOMAIN frames' /\ p[2] \in DOMAIN frames'
         /\ PreviewTypeOK' /\ RelayInv'
<1>1. /\ DOMAIN frames' = DOMAIN frames \ gone
      /\ \A f \in DOMAIN frames' : f \in DOMAIN frames /\ frames'[f] = frames[f]
  BY DEF Drop
<1>2. \A p \in order' : p \in order /\ p[1] \in DOMAIN frames' /\ p[2] \in DOMAIN frames'
  BY DEF OrderOf
<1>3. order' \subseteq (DOMAIN frames') \X (DOMAIN frames')
  BY <1>2 DEF PreviewInv, PreviewTypeOK
<1>4. PreviewTypeOK'
  BY <1>1, <1>3 DEF PreviewInv, PreviewTypeOK
<1>5. RelayInv'
  BY <1>1 DEF PreviewInv, PreviewsAreTrue, RelayInv, RelayedIsOfItsFrame, RelayReadsOn
<1> QED BY <1>1, <1>2, <1>4, <1>5

(* The oldest of a full window is there, and not what latest.json names.   *)
LEMMA RollWindowKeeps == ASSUME PreviewInv, RollWindow PROVE PreviewInv'
<1> DEFINE last == Len(live.window)
           oldest == Head(live.window)
<1>1. /\ PreviewTypeOK /\ live \in Showings /\ live.step = "named" /\ KeepNewest \in Nat \ {0}
      /\ live.left \in SUBSET Cameras /\ live.window \in Seq(Nat)
      /\ UNCHANGED <<started, count, latest, telemetry, relay, page>>
  BY PreviewAssumption DEF PreviewInv, PreviewTypeOK, Showings, RollWindow
<1>2. /\ last \in Nat \ {0} /\ last \in DOMAIN live.window /\ 1 \in DOMAIN live.window
      /\ live.window[last] = count.frame /\ latest.frame = count.frame /\ oldest = live.window[1]
      /\ last <= KeepNewest + 1 /\ \A i \in DOMAIN live.window : i \in 1 .. last
  <2>1. live.window # <<>> /\ live.window[last] = count.frame /\ latest.frame = count.frame
    BY <1>1 DEF PreviewInv, FrameIsInHand
  <2>2. last <= KeepNewest + 1
    BY <1>1 DEF PreviewInv, WindowIsNewest
  <2> QED BY <1>1, <2>1, <2>2
<1>3. /\ oldest \in DOMAIN frames
      /\ \A i \in DOMAIN live.window : live.window[i] \in DOMAIN frames
  BY <1>2 DEF PreviewInv, PreviewsAreTrue, WindowIsThere
<1>4. CASE last <= KeepNewest
  <2>1. GoesOnWith(live, live', "swept", live.left, live.window) /\ UNCHANGED <<frames, order>>
    BY <1>4 DEF RollWindow, GoesOnWith
  <2>2. /\ live' \in Showings /\ live'.run = live.run /\ live'.sees = live.sees
        /\ live'.step = "swept" /\ live'.left = live.left /\ live'.window = live.window
    BY <1>1, <2>1, ShowingGoesOn DEF ShowingSteps
  <2>3. PreviewTypeOK'
    BY <1>1, <2>1, <2>2 DEF PreviewTypeOK
  <2>4. RecorderInv' /\ RelayInv' /\ PageInv' /\ NothingIsAhead'
    BY <1>1, <1>4, <2>1, <2>2 DEF PreviewInv, PreviewsAreTrue, RecorderInv, RelayInv, PageInv,
       NamedIsWhole,
       WindowIsThere, FrameIsInHand, WindowIsNewest, RelayedIsOfItsFrame, RelayReadsOn,
          ImagesAreNoOlder,
       ImagesAreAhead, NothingIsAhead, Fresh, Past
  <2> QED BY <2>3, <2>4 DEF PreviewInv, PreviewsAreTrue, RecorderInv, RelayInv, PageInv
<1>5. CASE last > KeepNewest
  <2> DEFINE rest == Tail(live.window)
  <2>1. /\ rest \in Seq(Nat) /\ Len(rest) = last - 1 /\ last >= 2
        /\ \A i \in DOMAIN rest : i + 1 \in DOMAIN live.window /\ rest[i] = live.window[i + 1]
        /\ \A i \in DOMAIN live.window : i # 1 =>
              i - 1 \in DOMAIN rest /\ rest[i - 1] = live.window[i]
        /\ last - 1 \in DOMAIN rest
    BY <1>1, <1>2, <1>5
  <2>2. /\ GoesOnWith(live, live', "swept", live.left, rest)
        /\ frames' = Drop(frames, {oldest}) /\ order' = OrderOf(DOMAIN frames')
    BY <1>1, <1>2, <1>3, <1>5 DEF RollWindow, GoesOnWith
  <2> HIDE DEF rest, oldest, last
  <2>3. /\ live' \in Showings /\ live'.run = live.run /\ live'.sees = live.sees
        /\ live'.step = "swept" /\ live'.left = live.left /\ live'.window = rest
    BY <1>1, <2>1, <2>2, ShowingGoesOn DEF ShowingSteps
  <2>4. /\ DOMAIN frames' = DOMAIN frames \ {oldest}
        /\ \A f \in DOMAIN frames' : f \in DOMAIN frames /\ frames'[f] = frames[f]
        /\ \A p \in order' : p \in order /\ p[1] \in DOMAIN frames' /\ p[2] \in DOMAIN frames'
        /\ PreviewTypeOK' /\ RelayInv'
    BY <1>1, <2>2, <2>3, LessIsShown
  <2>5. \A i \in DOMAIN live.window : i # 1 => live.window[i] # oldest
    <3>1. SUFFICES ASSUME NEW i \in DOMAIN live.window, i # 1 PROVE live.window[i] # oldest
      OBVIOUS
    <3>2. 1 < i BY <1>2, <3>1
    <3>3. live.window[1] < live.window[i] BY <1>2, <3>2 DEF PreviewInv, WindowIsNewest
    <3>4. live.window[1] \in Nat /\ live.window[i] \in Nat BY <1>1, <1>2
    <3> QED BY <1>2, <3>3, <3>4
  <2>6. NamedIsWhole' /\ WindowIsThere'
    <3>1. latest.frame # oldest
      BY <1>2, <2>1, <2>5
    <3>2. NamedIsWhole'
      BY <1>1, <2>4, <3>1 DEF PreviewInv, PreviewsAreTrue, NamedIsWhole, Fresh
    <3>3. \A i \in DOMAIN rest : rest[i] \in DOMAIN frames'
      <4>1. \A i \in DOMAIN rest : i + 1 # 1 BY <1>1, <2>1
      <4> QED BY <1>3, <2>1, <2>4, <2>5, <4>1
    <3> QED BY <2>3, <3>2, <3>3 DEF WindowIsThere
  <2>7. FrameIsInHand'
    <3>1. rest # <<>> /\ rest[Len(rest)] = count.frame
      <4>1. last # 1 /\ rest[last - 1] = live.window[last] BY <1>2, <2>1
      <4>2. Len(<<>>) = 0 /\ last - 1 # 0 BY <1>2, <2>1
      <4> QED BY <1>2, <2>1, <4>1, <4>2
    <3> QED BY <1>1, <1>2, <2>3, <3>1 DEF FrameIsInHand
  <2>8. WindowIsNewest'
    <3>1. \A i, j \in DOMAIN rest : i < j => rest[i] < rest[j]
      <4>1. \A i, j \in DOMAIN rest : i < j => i + 1 < j + 1 BY <2>1
      <4> QED BY <2>1, <4>1 DEF PreviewInv, WindowIsNewest
    <3>2. \A i \in DOMAIN rest : rest[i] <= count.frame
      BY <2>1 DEF PreviewInv, WindowIsNewest
    <3>3. Len(rest) <= KeepNewest
      BY <1>1, <1>2, <2>1
    <3>4. ASSUME NEW p \in order', NEW i \in DOMAIN rest, rest[i] = p[1]
          PROVE  \E j \in DOMAIN rest : rest[j] = p[2]
      <4>1. PICK j \in DOMAIN live.window : live.window[j] = p[2]
        BY <1>1, <2>1, <2>4, <3>4 DEF PreviewInv, WindowIsNewest
      <4>2. j # 1 BY <1>2, <2>4, <4>1
      <4> QED BY <2>1, <4>1, <4>2
    <3>5. \A p \in order' : p[1] # p[2]
      BY <2>4 DEF PreviewInv, WindowIsNewest
    <3> QED BY <1>1, <2>3, <3>1, <3>2, <3>3, <3>4, <3>5 DEF WindowIsNewest
  <2>9. PageInv' /\ NothingIsAhead'
    BY <1>1, <2>3 DEF PreviewInv, PreviewsAreTrue, PageInv, ImagesAreNoOlder, ImagesAreAhead,
       NothingIsAhead, Fresh, Past
  <2> QED BY <2>4, <2>6, <2>7, <2>8, <2>9 DEF PreviewInv, PreviewsAreTrue, RecorderInv,
     RelayInv, PageInv
<1> QED BY <1>1, <1>2, <1>4, <1>5

(* A sweep spares what is in the window: nothing but the rest of it is     *)
(* newer, and that is less than the sweep keeps.                           *)
LEMMA WindowIsSpared ==
  ASSUME PreviewInv, live.step = "swept", NEW i \in DOMAIN live.window,
         live.window[i] \in Candidates
  PROVE  live.window[i] \in Protected
<1> DEFINE n == live.window[i]
           last == Len(live.window)
           others == (1 .. last) \ {i, last}
           newer == {m \in Candidates \ {latest.frame} : <<n, m>> \in order}
<1>1. /\ live.window \in Seq(Nat) /\ KeepNewest \in Nat \ {0} /\ last \in Nat /\ i \in 1 .. last
      /\ live.window[last] = latest.frame /\ last <= KeepNewest
  BY PreviewAssumption DEF PreviewInv, PreviewTypeOK, Showings, FrameIsInHand, WindowIsNewest
<1>2. CASE n = latest.frame
  BY <1>2 DEF Protected
<1>3. CASE n # latest.frame
  <2>1. i # last
    BY <1>1, <1>3
  <2>2. IsFiniteSet(others) /\ Cardinality(others) = last - 2
    <3> HIDE DEF last
    <3>1. IsFiniteSet(1 .. last) /\ Cardinality(1 .. last) = last
      <4>1. 1 \in Int /\ last \in Int /\ (1 > last <=> last = 0) /\ last - 1 + 1 = last
        BY <1>1
      <4> QED BY <4>1, FS_Interval
    <3>2. IsFiniteSet((1 .. last) \ {i}) /\ Cardinality((1 .. last) \ {i}) = last - 1
      <4>1. i \in 1 .. last BY <1>1
      <4> QED BY <3>1, <4>1, FS_RemoveElement
    <3>3. last \in (1 .. last) \ {i} /\ others = ((1 .. last) \ {i}) \ {last}
      BY <1>1, <2>1
    <3>4. IsFiniteSet(others) /\ Cardinality(others) = (last - 1) - 1
      <4> HIDE DEF others
      <4>1. /\ IsFiniteSet(((1 .. last) \ {i}) \ {last})
            /\ Cardinality(((1 .. last) \ {i}) \ {last}) = Cardinality((1 .. last) \ {i}) - 1
        BY <3>2, <3>3, FS_RemoveElement
      <4> QED BY <3>2, <3>3, <4>1
    <3> QED BY <1>1, <3>4
  <2>3. \A m \in newer : \E j \in others : live.window[j] = m
    <3>1. SUFFICES ASSUME NEW m \in newer PROVE \E j \in others : live.window[j] = m
      OBVIOUS
    <3>2. <<n, m>> \in order /\ m # latest.frame /\ m # n
      BY <3>1 DEF PreviewInv, WindowIsNewest
    <3>3. PICK j \in DOMAIN live.window : live.window[j] = m
      BY <3>2 DEF PreviewInv, WindowIsNewest
    <3>4. j \in 1 .. last /\ j # i /\ j # last
      BY <1>1, <3>2, <3>3
    <3> QED BY <3>3, <3>4
  <2>4. IsFiniteSet(newer) /\ Cardinality(newer) <= last - 2
    <3> DEFINE seen == {live.window[j] : j \in others}
               at == [j \in others |-> live.window[j]]
    <3>1. at \in Surjection(others, seen)
      BY DEF Surjection
    <3>2. IsFiniteSet(seen) /\ Cardinality(seen) <= last - 2
      BY <2>2, <3>1, FS_Surjection
    <3>3. newer \in SUBSET seen
      BY <2>3
    <3>4. IsFiniteSet(newer) /\ Cardinality(newer) <= Cardinality(seen)
      BY <3>2, <3>3, FS_Subset
    <3>5. Cardinality(seen) \in Nat /\ Cardinality(newer) \in Nat
      BY <3>2, <3>4, FS_CardinalityType
    <3> QED BY <1>1, <3>2, <3>4, <3>5
  <2>5. Cardinality(newer) < KeepNewest - 1
    <3>1. Cardinality(newer) \in Nat BY <2>4, FS_CardinalityType
    <3> QED BY <1>1, <2>4, <3>1
  <2> QED BY <1>3, <2>5 DEF Protected, Newest
<1> QED BY <1>2, <1>3

(* A sweep spares what latest.json names and what is in the window.        *)
LEMMA SweepSpares ==
  ASSUME PreviewInv, Sweep, live.step \in {"swept", "off"}
  PROVE  \E gone :
           /\ frames' = Drop(frames, gone) /\ order' = OrderOf(DOMAIN frames')
           /\ latest.frame \notin gone
           /\ \A i \in DOMAIN live.window : live.window[i] \notin gone
<1>1. PICK young \in 0 .. Cardinality(Candidates) :
        LET gone == Candidates \ (Newest(Candidates, young) \cup Protected)
        IN  frames' = Drop(frames, gone) /\ order' = OrderOf(DOMAIN frames')
  BY DEF Sweep
<1> DEFINE gone == Candidates \ (Newest(Candidates, young) \cup Protected)
<1>2. latest.frame \notin gone
  BY DEF Protected
<1>3. ASSUME NEW i \in DOMAIN live.window
      PROVE  live.window[i] \notin gone
  <2>1. CASE live.step = "swept"
    BY <1>3, <2>1, WindowIsSpared
  <2>2. CASE live.step = "off"
    <3>1. DOMAIN <<>> = {} OBVIOUS
    <3> QED BY <1>3, <2>2, <3>1 DEF PreviewInv, FrameIsInHand
  <2> QED BY <2>1, <2>2
<1>4. frames' = Drop(frames, gone) /\ order' = OrderOf(DOMAIN frames')
  BY <1>1
<1> HIDE DEF gone
<1> QED BY <1>2, <1>3, <1>4

(* A sweep, by the recorder or when nothing runs.                          *)
LEMMA SweepKeeps ==
  ASSUME PreviewInv, Sweep, live' \in Showings, live'.run = live.run, live'.sees = live.sees,
         live'.window = live.window,
         \/ live.step = "swept" /\ live'.step \in {"model", "idle"}
         \/ live.step = "off" /\ live'.step = "off"
  PROVE  PreviewInv'
<1>1. PICK gone :
        /\ frames' = Drop(frames, gone) /\ order' = OrderOf(DOMAIN frames')
        /\ latest.frame \notin gone
        /\ \A i \in DOMAIN live.window : live.window[i] \notin gone
  BY SweepSpares
<1>2. PreviewTypeOK /\ UNCHANGED <<started, count, latest, telemetry, relay, page>>
  BY DEF PreviewInv, Sweep
<1>3. /\ DOMAIN frames' = DOMAIN frames \ gone
      /\ \A f \in DOMAIN frames' : f \in DOMAIN frames /\ frames'[f] = frames[f]
      /\ \A p \in order' : p \in order /\ p[1] \in DOMAIN frames' /\ p[2] \in DOMAIN frames'
      /\ PreviewTypeOK' /\ RelayInv'
  BY <1>1, <1>2, LessIsShown
<1>4. NamedIsWhole'
  BY <1>1, <1>2, <1>3 DEF PreviewInv, PreviewsAreTrue, NamedIsWhole, Fresh
<1>5. WindowIsThere' /\ FrameIsInHand'
  BY <1>1, <1>2, <1>3 DEF PreviewInv, PreviewsAreTrue, WindowIsThere, FrameIsInHand
<1>6. WindowIsNewest'
  BY <1>2, <1>3 DEF PreviewInv, WindowIsNewest
<1>7. PageInv' /\ NothingIsAhead'
  BY <1>2 DEF PreviewInv, PreviewsAreTrue, PageInv, ImagesAreNoOlder, ImagesAreAhead,
     NothingIsAhead, Fresh, Past
<1> QED BY <1>3, <1>4, <1>5, <1>6, <1>7 DEF PreviewInv, PreviewsAreTrue, RecorderInv, RelayInv,
   PageInv

LEMMA SweepFrameKeeps == ASSUME PreviewInv, SweepFrame PROVE PreviewInv'
<1>1. PICK next \in {"model", "idle"} : live' = [live EXCEPT !.step = next]
  BY DEF SweepFrame
<1>2. /\ PreviewTypeOK /\ live.step = "swept"
      /\ live \in Showings /\ live.left \in SUBSET Cameras /\ live.window \in Seq(Nat)
  BY DEF PreviewInv, PreviewTypeOK, Showings, SweepFrame
<1>3. GoesOnWith(live, live', next, live.left, live.window)
  BY <1>1 DEF GoesOnWith
<1>4. /\ live' \in Showings /\ live'.run = live.run /\ live'.sees = live.sees
      /\ live'.step = next /\ live'.left = live.left /\ live'.window = live.window
  BY <1>2, <1>3, ShowingGoesOn DEF ShowingSteps
<1>5. CASE Sweep
  BY <1>2, <1>4, <1>5, SweepKeeps
<1>6. CASE UNCHANGED <<started, count, frames, order, latest, telemetry, relay, page>>
  <2>1. PreviewTypeOK'
    BY <1>2, <1>4, <1>6 DEF PreviewTypeOK
  <2>2. RecorderInv' /\ RelayInv' /\ PageInv' /\ NothingIsAhead'
    BY <1>2, <1>4, <1>6 DEF PreviewInv, PreviewsAreTrue, RecorderInv, RelayInv, PageInv,
       NamedIsWhole,
       WindowIsThere, FrameIsInHand, WindowIsNewest, RelayedIsOfItsFrame, RelayReadsOn,
          ImagesAreNoOlder,
       ImagesAreAhead, NothingIsAhead, Fresh, Past
  <2> QED BY <2>1, <2>2 DEF PreviewInv, PreviewsAreTrue, RecorderInv, RelayInv, PageInv
<1> QED BY <1>5, <1>6 DEF SweepFrame

LEMMA SweepIdleKeeps == ASSUME PreviewInv, SweepIdle PROVE PreviewInv'
  BY SweepKeeps DEF SweepIdle, PreviewInv, PreviewTypeOK

(* Images go ahead of their numbers.                                       *)
LEMMA PublishImageKeeps == ASSUME PreviewInv, NEW c \in Cameras, PublishImage(c) PROVE PreviewInv'
<1> DEFINE stamp == [run |-> live.run, frame |-> count.shown]
<1>1. /\ PreviewTypeOK /\ live.step = "model" /\ c \in live.sees
      /\ UNCHANGED <<live, count, started, frames, order, latest, relay, page>>
  BY DEF PreviewInv, PublishImage
<1>2. /\ telemetry' = [images |-> telemetry'.images, latest |-> telemetry.latest]
      /\ DOMAIN telemetry'.images = DOMAIN telemetry.images \cup {c}
      /\ \A d \in DOMAIN telemetry'.images :
            telemetry'.images[d] = IF d = c THEN stamp ELSE telemetry.images[d]
  BY <1>1 DEF PreviewTypeOK, PublishImage, Put, ShownBy
<1>3. PreviewTypeOK'
  BY <1>1, <1>2 DEF PreviewTypeOK, Showings, ShownFrames
<1>4. RecorderInv' /\ RelayInv'
  BY <1>1 DEF PreviewInv, PreviewsAreTrue, RecorderInv, RelayInv, NamedIsWhole,
     WindowIsThere, FrameIsInHand, WindowIsNewest, RelayedIsOfItsFrame, RelayReadsOn, Fresh
<1>5. NotBefore(stamp, telemetry.latest) /\ NotBefore(stamp, page.told)
  BY <1>1 DEF PreviewInv, PreviewTypeOK, Showings, ShownFrames, NothingIsAhead, NotBefore, Past
<1> HIDE DEF stamp
<1>6. ImagesAreAhead'
  BY <1>1, <1>2, <1>5 DEF PreviewInv, ImagesAreAhead
<1>7. ImagesAreNoOlder' /\ NothingIsAhead'
  BY <1>1, <1>2 DEF PreviewInv, PreviewsAreTrue, ImagesAreNoOlder, NothingIsAhead, Fresh, Past
<1> QED BY <1>3, <1>4, <1>6, <1>7 DEF PreviewInv, PreviewsAreTrue, RecorderInv, RelayInv, PageInv

(* The numbers follow when every image has them.                           *)
LEMMA PublishEvidenceKeeps == ASSUME PreviewInv, PublishEvidence PROVE PreviewInv'
<1> DEFINE stamp == [run |-> live.run, frame |-> count.shown]
<1>1. /\ PreviewTypeOK /\ live.step = "model"
      /\ \A c \in live.sees : c \in DOMAIN telemetry.images /\ telemetry.images[c] = stamp
      /\ telemetry' = [images |-> telemetry.images, latest |-> stamp]
      /\ UNCHANGED <<count, started, frames, order, latest, relay, page>>
      /\ live \in Showings /\ live.left \in SUBSET Cameras /\ live.window \in Seq(Nat)
  BY DEF PreviewInv, PreviewTypeOK, Showings, PublishEvidence, ShownBy
<1>2. GoesOnWith(live, live', "idle", live.left, live.window)
  BY DEF GoesOnWith, PublishEvidence
<1>3. /\ live' \in Showings /\ live'.run = live.run /\ live'.sees = live.sees
      /\ live'.step = "idle" /\ live'.left = live.left /\ live'.window = live.window
  BY <1>1, <1>2, ShowingGoesOn DEF ShowingSteps
<1>4. PreviewTypeOK'
  BY <1>1, <1>3 DEF PreviewTypeOK, Showings, ShownFrames
<1>5. RecorderInv' /\ RelayInv'
  BY <1>1, <1>3 DEF PreviewInv, PreviewsAreTrue, RecorderInv, RelayInv, NamedIsWhole,
     WindowIsThere, FrameIsInHand, WindowIsNewest, RelayedIsOfItsFrame, RelayReadsOn, Fresh
<1>6. NothingIsAhead'
  BY <1>1, <1>3 DEF PreviewInv, PreviewTypeOK, NothingIsAhead, Fresh, Past
<1>7. PageInv'
  <2>1. \A c \in DOMAIN telemetry.images : telemetry.images[c] = stamp
    BY <1>1 DEF PreviewInv, ImagesAreAhead
  <2>2. NotBefore(stamp, stamp)
    BY <1>1 DEF PreviewTypeOK, Showings, NotBefore
  <2> QED BY <1>1, <1>3, <2>1, <2>2 DEF PreviewInv, PreviewsAreTrue, PageInv, ImagesAreNoOlder,
     ImagesAreAhead
<1> QED BY <1>4, <1>5, <1>6, <1>7 DEF PreviewInv, PreviewsAreTrue, RecorderInv, RelayInv, PageInv

(* A worker that is killed leaves no image that looks like one.            *)
LEMMA EndShowingKeeps == ASSUME PreviewInv, EndShowing PROVE PreviewInv'
<1>1. /\ PreviewTypeOK
      /\ live' = [run |-> 0, step |-> "off", left |-> {}, sees |-> {}, window |-> <<>>]
      /\ UNCHANGED <<started, count, order, latest, telemetry, relay, page>>
  BY DEF PreviewInv, EndShowing, Off
<1>2. /\ DOMAIN frames' = DOMAIN frames
      /\ \A f \in DOMAIN frames : \A c \in DOMAIN frames[f] :
            c \in DOMAIN frames'[f] /\ (frames'[f][c] = frames[f][c] \/ c = "junk")
      /\ \A f \in DOMAIN frames : \A c \in DOMAIN frames'[f] :
            \/ c \in DOMAIN frames[f] /\ frames'[f][c] = frames[f][c]
            \/ c = "junk" /\ live.step = "writing" /\ f = count.frame /\ frames'[f][c] = live.run
  BY DEF EndShowing, Put
<1>3. PreviewTypeOK'
  <2>1. live' \in Showings
    <3>1. 0 \in Nat /\ "off" \in ShowingSteps /\ {} \in SUBSET Cameras /\ <<>> \in Seq(Nat)
      BY DEF ShowingSteps
    <3> QED BY <1>1, <3>1, ShowingIs
  <2>2. \A f \in DOMAIN frames' : f \in Nat /\ \A c \in DOMAIN frames'[f] : frames'[f][c] \in Nat
    BY <1>1, <1>2 DEF PreviewTypeOK, Showings
  <2> QED BY <1>1, <1>2, <2>1, <2>2 DEF PreviewTypeOK
<1>4. NamedIsWhole'
  BY <1>1, <1>2 DEF PreviewInv, PreviewsAreTrue, NamedIsWhole, Fresh, NothingIsAhead
<1>5. WindowIsThere' /\ FrameIsInHand' /\ WindowIsNewest'
  <2>1. DOMAIN <<>> = {} /\ Len(<<>>) = 0 OBVIOUS
  <2> QED BY <1>1, <2>1, PreviewAssumption DEF PreviewInv, WindowIsThere, FrameIsInHand,
     WindowIsNewest
<1>6. RelayInv'
  <2>1. ASSUME relay.meta.step = "images", relay.meta.frame \in DOMAIN frames,
               NEW c \in relay.meta.left, c \in DOMAIN frames'[relay.meta.frame]
        PROVE  frames'[relay.meta.frame][c] = count.workers
    BY <1>1, <1>2, <2>1 DEF PreviewInv, RelayReadsOn, NothingIsAhead
  <2> QED BY <1>1, <1>2, <2>1 DEF PreviewInv, PreviewsAreTrue, RelayInv, RelayedIsOfItsFrame,
     RelayReadsOn
<1>7. PageInv' /\ NothingIsAhead'
  BY <1>1 DEF PreviewInv, PreviewsAreTrue, PageInv, ImagesAreNoOlder, ImagesAreAhead,
     NothingIsAhead, Fresh, Past
<1> QED BY <1>3, <1>4, <1>5, <1>6, <1>7 DEF PreviewInv, PreviewsAreTrue, RecorderInv, RelayInv,
   PageInv

-----------------------------------------------------------------------------
(* The readers.  Nothing the recorder promises is theirs to break.         *)
LEMMA ReadingLeaves ==
  ASSUME PreviewInv, UNCHANGED <<live, count, frames, order, latest>>
  PROVE  RecorderInv'
BY DEF PreviewInv, PreviewsAreTrue, RecorderInv, NamedIsWhole, WindowIsThere, FrameIsInHand,
   WindowIsNewest, Fresh

(* What a fresh latest.json names is what the callback will find, or not.  *)
LEMMA RelayReadsKeeps == ASSUME PreviewInv, RelayReads PROVE PreviewInv'
<1>1. /\ PreviewTypeOK /\ Fresh /\ latest.frame # 0
      /\ relay' = [meta |-> [step |-> "images", run |-> latest.run, frame |-> latest.frame,
                            left |-> latest.sees],
                   last |-> relay.last, sent |-> relay.sent]
      /\ UNCHANGED <<live, count, started, frames, order, latest, telemetry, page>>
  BY DEF PreviewInv, PreviewTypeOK, RelayReads
<1>2. PreviewTypeOK'
  BY <1>1 DEF PreviewTypeOK, Callbacks
<1>3. RelayInv'
  BY <1>1 DEF PreviewInv, PreviewsAreTrue, RelayInv, RelayedIsOfItsFrame, RelayReadsOn,
     NamedIsWhole, NothingIsAhead, Fresh
<1>4. PageInv' /\ NothingIsAhead'
  BY <1>1 DEF PreviewInv, PreviewsAreTrue, PageInv, ImagesAreNoOlder, ImagesAreAhead,
     NothingIsAhead, Fresh, Past
<1> QED BY <1>1, <1>2, <1>3, <1>4, ReadingLeaves DEF PreviewInv, PreviewsAreTrue, RecorderInv,
   RelayInv, PageInv

(* An image is gone, or of the run that was read.                          *)
LEMMA RelayPublishesKeeps ==
  ASSUME PreviewInv, NEW c \in Cameras, RelayPublishes(c)
  PROVE  PreviewInv'
<1> DEFINE meta == relay.meta
<1>1. /\ PreviewTypeOK /\ meta \in Callbacks /\ meta.step = "images" /\ c \in meta.left
      /\ Resting \in Callbacks /\ Resting.step = "idle"
      /\ UNCHANGED <<live, count, started, frames, order, latest, telemetry, page>>
  BY DEF PreviewInv, PreviewTypeOK, RelayPublishes, Resting, Callbacks
<1>2. ASSUME ~(meta.frame \in DOMAIN frames /\ c \in DOMAIN frames[meta.frame])
      PROVE  PreviewTypeOK' /\ RelayInv'
  <2>1. relay' = [meta |-> Resting, last |-> relay.last, sent |-> relay.sent]
    BY <1>1, <1>2 DEF RelayPublishes, PreviewTypeOK
  <2>2. PreviewTypeOK'
    BY <1>1, <2>1 DEF PreviewTypeOK
  <2>3. RelayInv'
    BY <1>1, <2>1 DEF PreviewInv, PreviewsAreTrue, RelayInv, RelayedIsOfItsFrame, RelayReadsOn
  <2> QED BY <2>2, <2>3
<1>3. ASSUME meta.frame \in DOMAIN frames /\ c \in DOMAIN frames[meta.frame]
      PROVE  PreviewTypeOK' /\ RelayInv'
  <2> DEFINE next == IF meta.left = {c} THEN Resting ELSE [meta EXCEPT !.left = @ \ {c}]
             image == frames[meta.frame][c]
  <2>1. relay' = [meta |-> next, last |-> IF meta.left = {c} THEN meta.frame ELSE relay.last,
                  sent |-> {<<meta.run, image>>}]
    BY <1>3 DEF RelayPublishes
  <2>2. /\ next \in Callbacks
        /\ next.step = "images" =>
              next.run = meta.run /\ next.frame = meta.frame /\ next.left \subseteq meta.left
    BY <1>1 DEF Callbacks
  <2>3. /\ image \in Nat /\ meta.run = image
        /\ meta.run \in Nat /\ meta.frame \in Nat /\ relay.last \in Nat
    BY <1>1, <1>3 DEF PreviewInv, PreviewTypeOK, RelayReadsOn, Callbacks
  <2> HIDE DEF next, image
  <2>4. PreviewTypeOK'
    BY <1>1, <2>1, <2>2, <2>3 DEF PreviewTypeOK
  <2>5. RelayInv'
    <3>1. RelayedIsOfItsFrame'
      BY <2>1, <2>3 DEF RelayedIsOfItsFrame
    <3>2. RelayReadsOn'
      BY <1>1, <2>1, <2>2 DEF PreviewInv, RelayReadsOn
    <3> QED BY <3>1, <3>2 DEF RelayInv
  <2> QED BY <2>4, <2>5
<1>4. PageInv' /\ NothingIsAhead'
  BY <1>1 DEF PreviewInv, PreviewsAreTrue, PageInv, ImagesAreNoOlder, ImagesAreAhead,
     NothingIsAhead, Fresh, Past
<1> QED BY <1>1, <1>2, <1>3, <1>4, ReadingLeaves DEF PreviewInv, PreviewsAreTrue, RecorderInv,
   RelayInv, PageInv

(* The page leaves the relay alone too.                                    *)
LEMMA AskingLeaves ==
  ASSUME PreviewInv, UNCHANGED <<live, count, frames, order, latest, telemetry, relay>>
  PROVE  RecorderInv' /\ RelayInv'
BY ReadingLeaves DEF PreviewInv, PreviewsAreTrue, RelayInv, RelayedIsOfItsFrame, RelayReadsOn

(* The page asks for numbers, which the images are ahead of.               *)
LEMMA PageAsksKeeps == ASSUME PreviewInv, PageAsks PROVE PreviewInv'
<1>1. /\ PreviewTypeOK
      /\ page' = [told |-> telemetry.latest, image |-> NoFrame, media |-> page.media]
      /\ UNCHANGED <<live, count, started, frames, order, latest, telemetry, relay>>
  BY DEF PreviewInv, PreviewTypeOK, PageAsks
<1>2. PreviewTypeOK'
  BY <1>1 DEF PreviewTypeOK, NoFrame, ShownFrames
<1>3. PageInv' /\ NothingIsAhead'
  BY <1>1 DEF PreviewInv, PreviewsAreTrue, PageInv, ImagesAreNoOlder, ImagesAreAhead,
     NothingIsAhead, Fresh, Past
<1> QED BY <1>1, <1>2, <1>3, AskingLeaves DEF PreviewInv, PreviewsAreTrue, RecorderInv,
   RelayInv, PageInv

LEMMA PageLooksKeeps == ASSUME PreviewInv, NEW c \in Cameras, PageLooks(c) PROVE PreviewInv'
<1>1. /\ PreviewTypeOK /\ c \in DOMAIN telemetry.images
      /\ page' = [told |-> page.told, image |-> telemetry.images[c], media |-> page.media]
      /\ UNCHANGED <<live, count, started, frames, order, latest, telemetry, relay>>
  BY DEF PreviewInv, PreviewTypeOK, PageLooks
<1>2. PreviewTypeOK'
  BY <1>1 DEF PreviewTypeOK
<1>3. PageInv' /\ NothingIsAhead'
  BY <1>1 DEF PreviewInv, PreviewsAreTrue, PageInv, ImagesAreNoOlder, ImagesAreAhead, NotBefore,
     NothingIsAhead, Fresh, Past
<1> QED BY <1>1, <1>2, <1>3, AskingLeaves DEF PreviewInv, PreviewsAreTrue, RecorderInv,
   RelayInv, PageInv

LEMMA PageWatchesKeeps ==
  ASSUME PreviewInv, NEW f \in DOMAIN frames, NEW c \in Cameras, PageWatches(f, c)
  PROVE  PreviewInv'
<1>1. /\ PreviewTypeOK /\ frames[f][c] \in Nat /\ live.run \in Nat
      /\ page' = [told |-> page.told, image |-> page.image, media |-> <<frames[f][c], live.run>>]
      /\ UNCHANGED <<live, count, started, frames, order, latest, telemetry, relay>>
  BY DEF PreviewInv, PreviewTypeOK, Showings, PageWatches
<1>2. PreviewTypeOK'
  <2>1. <<frames[f][c], live.run>> \in Seq(Nat)
    BY <1>1
  <2> QED BY <1>1, <2>1 DEF PreviewTypeOK
<1>3. PageInv' /\ NothingIsAhead'
  BY <1>1 DEF PreviewInv, PreviewsAreTrue, PageInv, ImagesAreNoOlder, ImagesAreAhead,
     NothingIsAhead, Fresh, Past
<1> QED BY <1>1, <1>2, <1>3, AskingLeaves DEF PreviewInv, PreviewsAreTrue, RecorderInv,
   RelayInv, PageInv

-----------------------------------------------------------------------------
LEMMA PreviewInitially == PreviewInit => PreviewInv
<1> SUFFICES ASSUME PreviewInit PROVE PreviewInv
  OBVIOUS
<1>1. /\ live = [run |-> 0, step |-> "off", left |-> {}, sees |-> {}, window |-> <<>>]
      /\ count = [workers |-> 0, frame |-> 0, shown |-> 0] /\ started = 0
      /\ frames = <<>> /\ order = {}
      /\ latest = [run |-> 0, frame |-> 0, sees |-> {}]
      /\ telemetry = [images |-> <<>>, latest |-> NoFrame]
      /\ relay = [meta |-> Resting, last |-> 0, sent |-> {}]
      /\ page = [told |-> NoFrame, image |-> NoFrame, media |-> <<>>]
  BY DEF PreviewInit, Off
<1>2. /\ DOMAIN <<>> = {} /\ Len(<<>>) = 0 /\ <<>> \in Seq(Nat)
      /\ NoFrame \in ShownFrames /\ Resting \in Callbacks /\ Resting.step = "idle"
      /\ "off" \in ShowingSteps /\ {} \in SUBSET Cameras
  BY DEF NoFrame, ShownFrames, Resting, Callbacks, ShowingSteps
<1>3. PreviewTypeOK
  <2>1. live \in Showings
    BY <1>1, <1>2, ShowingIs
  <2> QED BY <1>1, <1>2, <2>1 DEF PreviewTypeOK
<1>4. PreviewsAreTrue
  BY <1>1, <1>2 DEF PreviewsAreTrue, RelayedIsOfItsFrame, NamedIsWhole, WindowIsThere,
     ImagesAreNoOlder
<1>5. FrameIsInHand /\ WindowIsNewest /\ RelayReadsOn /\ ImagesAreAhead
  BY <1>1, <1>2, PreviewAssumption DEF FrameIsInHand, WindowIsNewest, RelayReadsOn, ImagesAreAhead
<1>6. NothingIsAhead
  BY <1>1 DEF NothingIsAhead, Past, NoFrame, Fresh
<1> QED BY <1>3, <1>4, <1>5, <1>6 DEF PreviewInv

LEMMA PreviewStep == PreviewInv /\ [PreviewNext]_previewVars => PreviewInv'
<1> SUFFICES ASSUME PreviewInv, [PreviewNext]_previewVars PROVE PreviewInv'
  OBVIOUS
<1>1. CASE UNCHANGED previewVars
  <2>1. UNCHANGED <<live, count, started, frames, order, latest, telemetry, relay, page>>
    BY <1>1 DEF previewVars
  <2>2. PreviewTypeOK'
    BY <2>1 DEF PreviewInv, PreviewTypeOK
  <2>3. PageInv' /\ NothingIsAhead'
    BY <2>1 DEF PreviewInv, PreviewsAreTrue, PageInv, ImagesAreNoOlder, ImagesAreAhead,
       NothingIsAhead, Fresh, Past
  <2> QED BY <2>1, <2>2, <2>3, AskingLeaves DEF PreviewInv, PreviewsAreTrue, RecorderInv,
     RelayInv, PageInv
<1>2. CASE PreviewNext
  BY <1>2, StartShowingKeeps, LaunchKeeps, RestartPageKeeps, BeginFrameKeeps, WriteImageKeeps,
     NameFrameKeeps,
     RollWindowKeeps, SweepFrameKeeps, SweepIdleKeeps, PublishImageKeeps, PublishEvidenceKeeps,
        EndShowingKeeps,
     RelayReadsKeeps, RelayPublishesKeeps, PageAsksKeeps, PageLooksKeeps, PageWatchesKeeps
  DEF PreviewNext
<1> QED BY <1>1, <1>2

(* The inductive invariant of the previews.                                *)
THEOREM PreviewsCorrect == PreviewSpec => []PreviewInv
  BY PreviewInitially, PreviewStep, PTL DEF PreviewSpec

(* What the relay publishes is of the frame it names, a fresh latest.json  *)
(* names images that are there and of its run, no sweep takes what the     *)
(* recorder is still to remove, and an image of the telemetry is not older *)
(* than the numbers the page was told (capture_relay.py,                   *)
(* live_preview_cache.py, live_telemetry.py).                              *)
THEOREM PreviewsStayTrue == PreviewSpec => []PreviewsAreTrue
<1>1. PreviewInv => PreviewsAreTrue
  BY DEF PreviewInv
<1> QED BY PreviewsCorrect, <1>1, PTL
=============================================================================
