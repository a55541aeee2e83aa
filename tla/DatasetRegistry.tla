---------------------------- MODULE DatasetRegistry ----------------------------
(***************************************************************************)
(* What says that a recording is still needed, and the tools that remove   *)
(* recordings.  Splits of a dataset are registered, recordings are marked  *)
(* to be kept, other files mention them; one-off cleaners remove reviewed  *)
(* recordings; the studio reviews the storage.  Each is a process of its   *)
(* own.  Registration and removal share a lock of the registry; two of the *)
(* cleaners hold the lock of the capture root as well.                     *)
(***************************************************************************)
EXTENDS Naturals, Sequences, FiniteSets, Functions

CONSTANTS
    Runs,           \* recordings
    Group,          \* recording -> the scene it shows
    Side,           \* scene -> its side, from the hash of the seed and its name
    Indexes,        \* indexes a recording may have, as time stamps
    Recorded,       \* what may be on disk to begin with
    Mentionable,    \* recordings other files may name
    Reviewed,       \* cleaner -> [targets, keep], written in its source
    Procs,          \* processes
    MaxRevisions, MaxReferences, MaxSplits, MaxCrashes      \* bounds of a run

VARIABLES
    recs,           \* recording on disk -> [status, index, whole]
    marks,          \* capture-retention.json: [revision, kept]
    splits,         \* the registered splits
    partials,       \* what interrupted registrations left beside them
    mentions,       \* files that name a recording: <<kind, recording>>
    busy,           \* does the studio run anything
    proc,           \* process -> what it does
    registry,       \* the holder of the registry's lock, "none" if free
    capture,        \* the holder of the capture root's lock
    receipts,       \* recordings whose metadata a cleaner has put aside
    report,         \* the last storage review
    crashes

locks == <<registry, capture>>
datasetVars == <<recs, marks, splits, partials, mentions, busy, proc, locks, receipts,
                 report, crashes>>

Cleaners == {"debug", "superseded", "duplicate", "short"}

(* A recording on disk; it is bare when its manifest is gone.              *)
Statuses == {"recording", "saved", "saved_limit", "saved_recovered", "saved_excerpt",
             "saved_capture_error", "saved_cleanup_error", "bare"}
Recording == [status : Statuses, index : Indexes, whole : BOOLEAN]
Recordings(f) == DOMAIN f \subseteq Runs /\ f \in [DOMAIN f -> Recording]

ASSUME DatasetAssumption ==
    /\ "none" \notin Procs
    /\ \A f \in Recorded : Recordings(f)
    /\ Reviewed \in [Cleaners -> [targets : SUBSET Runs, keep : SUBSET Runs]]

Idle == [step |-> "idle"]

-----------------------------------------------------------------------------
(* temporal_quality: time stamps that do not increase.                     *)
Errors(index) == {n \in 2 .. Len(index) : index[n] <= index[n - 1]}

(* verified_split: what may be part of a split.                            *)
Finalized(r) ==
    /\ r \in DOMAIN recs /\ recs[r].status \in {"saved", "saved_limit"}
    /\ recs[r].index # <<>> /\ Errors(recs[r].index) = {}

(* split_runs: a scene goes to one side as a whole.                        *)
Assigned(runs) == [r \in runs |-> Side[Group[r]]]

(* A document somebody has saved: [sides, evidence], which may be of other *)
(* recordings than those on disk, or edited by hand.                       *)
Documents ==
    UNION {[sides : [runs -> {"train", "test"}], evidence : [runs -> Indexes]] :
              runs \in SUBSET Runs}

(* verify_saved_split recomputes the sides and the evidence.               *)
Verified(doc) ==
    /\ DOMAIN doc.sides # {}
    /\ \A r \in DOMAIN doc.sides : Finalized(r) /\ doc.evidence[r] = recs[r].index
    /\ doc.sides = Assigned(DOMAIN doc.sides)

(* registered_split_references: what it names, and whether it saw all.     *)
SplitReferences == [runs |-> UNION {DOMAIN d.sides : d \in splits \cup partials},
                    complete |-> partials = {}]

NoSplitNames(runs) == SplitReferences.complete /\ runs \cap SplitReferences.runs = {}

-----------------------------------------------------------------------------
DatasetInit ==
    /\ recs \in Recorded
    /\ marks = [revision |-> 0, kept |-> UNION {Reviewed[k].keep : k \in Cleaners}]
    /\ splits = {} /\ partials = {} /\ receipts = {} /\ crashes = 0
    /\ mentions = {}
    /\ busy = FALSE /\ proc = [p \in Procs |-> Idle]
    /\ registry = "none" /\ capture = "none"
    /\ report = [complete |-> FALSE, kept |-> {}, split |-> {}, due |-> {}]

At(p, step) == proc[p].step = step
Go(p, state) == proc' = [proc EXCEPT ![p] = state]
To(p, step) == proc' = [proc EXCEPT ![p].step = step]

(* Mutant of TakeRegistry: the lock is not looked at.                      *)
TakeRegistryAnyway(p) == registry' = p
TakeRegistry(p) == registry = "none" /\ registry' = p
Release(p) == /\ registry' = IF registry = p THEN "none" ELSE registry
              /\ capture' = IF capture = p THEN "none" ELSE capture

-----------------------------------------------------------------------------
(* register_split: verified and published under the lock.                  *)
Register(p) ==
    /\ At(p, "idle") /\ TakeRegistry(p) /\ Cardinality(splits \cup partials) < MaxSplits
    /\ \E doc \in Documents : Go(p, [step |-> "verify", doc |-> doc])
    /\ UNCHANGED <<recs, marks, splits, partials, mentions, busy, capture, receipts, report, crashes>>

VerifySplit(p) ==
    /\ At(p, "verify")
    /\ \/ /\ Verified(proc[p].doc) /\ To(p, "write") /\ UNCHANGED <<locks, partials>>
       \/ /\ ~Verified(proc[p].doc) /\ Go(p, Idle) /\ Release(p) /\ UNCHANGED partials
    /\ UNCHANGED <<recs, marks, splits, mentions, busy, receipts, report, crashes>>

WritePartial(p) ==
    /\ At(p, "write") /\ partials' = partials \cup {proc[p].doc} /\ To(p, "publish")
    /\ UNCHANGED <<recs, marks, splits, mentions, busy, locks, receipts, report, crashes>>

(* The link never replaces; the partial file goes in any case.             *)
PublishSplit(p) ==
    /\ At(p, "publish") /\ splits' = splits \cup {proc[p].doc} /\ To(p, "published")
    /\ UNCHANGED <<recs, marks, partials, mentions, busy, locks, receipts, report, crashes>>

EndRegistration(p) ==
    /\ At(p, "published") /\ partials' = partials \ {proc[p].doc} /\ Go(p, Idle) /\ Release(p)
    /\ UNCHANGED <<recs, marks, splits, mentions, busy, receipts, report, crashes>>

-----------------------------------------------------------------------------
(* set_keep: the recording is looked at, then the marks are changed under  *)
(* a lock of their own if they are at the revision the operator has seen.  *)
AskKeep(p) ==
    /\ At(p, "idle") /\ marks.revision < MaxRevisions
    /\ \E r \in Runs, keep \in BOOLEAN :
          /\ keep => r \in DOMAIN recs /\ recs[r].status # "bare"
          /\ Go(p, [step |-> "keep", run |-> r, keep |-> keep, revision |-> marks.revision])
    /\ UNCHANGED <<recs, marks, splits, partials, mentions, busy, locks, receipts, report, crashes>>

SetKeep(p) ==
    /\ At(p, "keep") /\ Go(p, Idle)
    /\ LET kept == IF proc[p].keep THEN marks.kept \cup {proc[p].run} ELSE marks.kept \ {proc[p].run}
       IN  marks' = IF marks.revision = proc[p].revision
                    THEN [revision |-> marks.revision + 1, kept |-> kept] ELSE marks
    /\ UNCHANGED <<recs, splits, partials, mentions, busy, locks, receipts, report, crashes>>

-----------------------------------------------------------------------------
Targets(p) == Reviewed[proc[p].kind].targets
Keep(kind) == Reviewed[kind].keep

(* What the cleaners ask of the files that may name a recording: all but   *)
(* the oldest also read the packages, and stop at one they cannot read.    *)
Kinds(kind) == {"derived", "queue"} \cup (IF kind = "superseded" THEN {} ELSE {"package"})

Unmentioned(kind, runs) ==
    \A m \in mentions : m[1] \in Kinds(kind) => m[2] \notin runs \cup {"unreadable"}

(* The review of a cleaner: the studio is idle, the marks are those seen   *)
(* first, what replaces the recordings is there.                           *)
Reviewable(kind, runs, seen) ==
    /\ ~busy /\ marks = seen /\ runs \cap marks.kept = {} /\ Unmentioned(kind, runs)
    /\ kind \in {"superseded", "short"} => Keep(kind) \subseteq marks.kept
    /\ Keep(kind) \subseteq {r \in DOMAIN recs : recs[r].status # "bare"}
    /\ NoSplitNames(runs)
    /\ \A r \in runs \cap DOMAIN recs : recs[r].status = "saved"

(* Two of them hold both locks from here on.                               *)
StartCleaner(p) ==
    /\ At(p, "idle")
    /\ \E kind \in Cleaners :
          LET runs == Reviewed[kind].targets
          IN  /\ runs \subseteq DOMAIN recs /\ Reviewable(kind, runs, marks)
              /\ kind = "duplicate" => \A r \in runs, k \in Keep(kind) : recs[r] = recs[k]
              /\ IF kind \in {"duplicate", "short"}
                 THEN TakeRegistry(p) /\ capture = "none" /\ capture' = p
                 ELSE UNCHANGED locks
              /\ Go(p, [step |-> "plan", kind |-> kind, seen |-> marks, left |-> runs, row |-> "none",
                        files |-> Restrict(recs, runs \cup Keep(kind))])
    /\ UNCHANGED <<recs, marks, splits, partials, mentions, busy, receipts, report, crashes>>

(* Mutant of Plan: the metadata is put aside at the end.                   *)
PlanNothing(p) ==
    /\ At(p, "plan") /\ To(p, "row")
    /\ UNCHANGED <<recs, marks, splits, partials, mentions, busy, locks, receipts, report, crashes>>

(* The metadata and the hashes of what will be removed are put aside.      *)
Plan(p) ==
    /\ At(p, "plan") /\ receipts' = receipts \cup Targets(p) /\ To(p, "row")
    /\ UNCHANGED <<recs, marks, splits, partials, mentions, busy, locks, report, crashes>>

(* The last look at one recording before it is removed.                    *)
Unchanged(p, r) == r \in DOMAIN recs /\ recs[r] = proc[p].files[r]

LastLook(p, r) ==
    CASE proc[p].kind \in {"debug", "short"} ->
            Reviewable(proc[p].kind, Targets(p), proc[p].seen) /\ Unchanged(p, r)
      [] proc[p].kind = "superseded" ->
            ~busy /\ marks = proc[p].seen /\ Unmentioned("superseded", {r}) /\ Unchanged(p, r)
      [] proc[p].kind = "duplicate" ->
            ~busy /\ marks = proc[p].seen /\ Unchanged(p, r) /\ \A k \in Keep("duplicate") : Unchanged(p, k)

(* debug takes the lock and looks; superseded looks, takes the lock and    *)
(* looks at the splits alone.  What is refused ends the cleaner.           *)
LockRow(p) ==
    /\ At(p, "row") /\ (proc[p].kind = "debug") /\ TakeRegistry(p) /\ To(p, "look")
    /\ UNCHANGED <<recs, marks, splits, partials, mentions, busy, capture, receipts, report, crashes>>

LookAtRow(p) ==
    /\ \/ At(p, "look")
       \/ At(p, "row") /\ proc[p].kind # "debug"
    /\ \E r \in proc[p].left :
          /\ LastLook(p, r)
          /\ Go(p, [proc[p] EXCEPT !.row = r,
                       !.step = IF proc[p].kind = "superseded" THEN "lock" ELSE "remove"])
    /\ UNCHANGED <<recs, marks, splits, partials, mentions, busy, locks, receipts, report, crashes>>

LockLooked(p) ==
    /\ At(p, "lock") /\ TakeRegistry(p) /\ To(p, "splits")
    /\ UNCHANGED <<recs, marks, splits, partials, mentions, busy, capture, receipts, report, crashes>>

LookAtSplits(p) ==
    /\ At(p, "splits") /\ NoSplitNames({proc[p].row}) /\ To(p, "remove")
    /\ UNCHANGED <<recs, marks, splits, partials, mentions, busy, locks, receipts, report, crashes>>

(* rmtree, which raises if the recording is gone already (EndProcess), and *)
(* may be cut with the manifest still there or gone.                       *)
Remove(p) ==
    /\ At(p, "remove") /\ proc[p].row \in DOMAIN recs /\ To(p, "removing")
    /\ \E bare \in BOOLEAN :
          recs' = [recs EXCEPT ![proc[p].row].whole = FALSE,
                               ![proc[p].row].status = IF bare THEN "bare" ELSE @]
    /\ UNCHANGED <<marks, splits, partials, mentions, busy, locks, receipts, report, crashes>>

Removed(p) ==
    /\ At(p, "removing")
    /\ recs' = Restrict(recs, DOMAIN recs \ {proc[p].row})
    /\ LET left == proc[p].left \ {proc[p].row}
       IN  IF left = {} THEN Go(p, Idle) /\ Release(p)
           ELSE /\ Go(p, [proc[p] EXCEPT !.step = "row", !.left = left])
                /\ IF proc[p].kind \in {"debug", "superseded"} THEN Release(p) ELSE UNCHANGED locks
    /\ UNCHANGED <<marks, splits, partials, mentions, busy, receipts, report, crashes>>

(* An error or the end of the process: the locks are free, the files stay. *)
EndProcess(p) ==
    /\ ~At(p, "idle") /\ crashes < MaxCrashes /\ crashes' = crashes + 1
    /\ Go(p, Idle) /\ Release(p)
    /\ UNCHANGED <<recs, marks, splits, partials, mentions, busy, receipts, report>>

-----------------------------------------------------------------------------
(* storage_review: the marks, the recordings and what mentions them, and   *)
(* the marks again.                                                        *)
StartReview(p) ==
    /\ At(p, "idle") /\ \A q \in Procs : proc[q].step \notin {"scan", "compare"}
    /\ Go(p, [step |-> "scan", seen |-> marks, due |-> UNION {DOMAIN d.sides : d \in splits}])
    /\ UNCHANGED <<recs, marks, splits, partials, mentions, busy, locks, receipts, report, crashes>>

Scan(p) ==
    /\ At(p, "scan")
    /\ Go(p, [step |-> "compare", seen |-> proc[p].seen, due |-> proc[p].due,
              split |-> SplitReferences.runs,
              complete |-> /\ SplitReferences.complete /\ <<"package", "unreadable">> \notin mentions
                           /\ \A r \in DOMAIN recs : recs[r].status # "bare"])
    /\ UNCHANGED <<recs, marks, splits, partials, mentions, busy, locks, receipts, report, crashes>>

EndReview(p) ==
    /\ At(p, "compare") /\ Go(p, Idle)
    /\ report' = [complete |-> proc[p].complete /\ marks.revision = proc[p].seen.revision,
                  kept |-> proc[p].seen.kept, split |-> proc[p].split, due |-> proc[p].due]
    /\ UNCHANGED <<recs, marks, splits, partials, mentions, busy, locks, receipts, crashes>>

-----------------------------------------------------------------------------
(* What goes on around them: the studio works, publishes derived           *)
(* recordings under the lock of the capture root, and writes queues and    *)
(* packages, some of which cannot be read.                                 *)
StudioWorks ==
    /\ busy' = ~busy
    /\ UNCHANGED <<recs, marks, splits, partials, mentions, proc, locks, receipts, report, crashes>>

Mention ==
    /\ Cardinality(mentions) < MaxReferences
    /\ \E m \in {"derived", "queue", "package"} \X Mentionable \cup {<<"package", "unreadable">>} :
          /\ m[1] = "derived" => busy /\ capture = "none"
          /\ mentions' = mentions \cup {m}
    /\ UNCHANGED <<recs, marks, splits, partials, busy, proc, locks, receipts, report, crashes>>

DatasetNext ==
    \/ \E p \in Procs :
          \/ Register(p) \/ VerifySplit(p) \/ WritePartial(p) \/ PublishSplit(p) \/ EndRegistration(p)
          \/ AskKeep(p) \/ SetKeep(p)
          \/ StartCleaner(p) \/ Plan(p) \/ LockRow(p) \/ LookAtRow(p) \/ LockLooked(p)
          \/ LookAtSplits(p) \/ Remove(p) \/ Removed(p) \/ EndProcess(p)
          \/ StartReview(p) \/ Scan(p) \/ EndReview(p)
    \/ StudioWorks \/ Mention

DatasetSpec == DatasetInit /\ [][DatasetNext]_datasetVars

-----------------------------------------------------------------------------
(* The recordings of a registered split are there, in the state it was     *)
(* verified in, and no scene is on two sides of it, while other processes  *)
(* register and remove and any of them may die (split_registry.py:36,      *)
(* "Keep this held from verification through publication, or from the      *)
(* final reference check through removal").                                *)
RegisteredSplitIsBacked ==
    \A d \in splits :
        /\ \A r \in DOMAIN d.sides : Finalized(r) /\ recs[r].index = d.evidence[r]
        /\ \A r, s \in DOMAIN d.sides : Group[r] = Group[s] => d.sides[r] = d.sides[s]

(* A recording is removed only with its metadata put aside before, not     *)
(* kept when it was reviewed, and a duplicate only while the copy that is  *)
(* kept is whole (cleanup_duplicate_recoveries.py:1).                      *)
RemovalIsReviewed ==
    [][ \A p \in Procs : At(p, "remove") /\ proc'[p].step = "removing" =>
          /\ proc[p].row \in receipts \ proc[p].seen.kept
          /\ proc[p].kind = "duplicate" =>
                \A k \in Keep("duplicate") : k \in DOMAIN recs /\ recs[k] = recs[proc[p].row]
      ]_datasetVars

(* A storage review that calls itself complete shows the marks there are   *)
(* when it ends, and every split registered before it began                *)
(* (storage_review.py:48, "simultaneous marker change invalidates").       *)
ReviewIsCurrent ==
    [][ report' # report /\ report'.complete =>
          report'.kept = marks.kept /\ report'.due \subseteq report'.split ]_datasetVars

(* What an operator or a tool acts on is what has been reviewed.           *)
RecordsAreReviewed == RemovalIsReviewed /\ ReviewIsCurrent

-----------------------------------------------------------------------------
(* The type of the state.                                                  *)
Marks == [revision : Nat, kept : SUBSET Runs]
Locked == Procs \cup {"none"}

(* What a process does: it registers a split, marks a recording, cleans or *)
(* reviews.                                                                *)
Registrations == [step : {"verify", "write", "publish", "published"}, doc : Documents]
Markings == [step : {"keep"}, run : Runs, keep : BOOLEAN, revision : Nat]
CleanerSteps == {"plan", "row", "look", "lock", "splits", "remove", "removing"}
Cleanings == [step : CleanerSteps, kind : Cleaners, seen : Marks, left : SUBSET Runs,
              row : Runs \cup {"none"}, files : UNION {[runs -> Recording] : runs \in SUBSET Runs}]
Scans == [step : {"scan"}, seen : Marks, due : SUBSET Runs]
Comparisons == [step : {"compare"}, seen : Marks, due : SUBSET Runs, split : SUBSET Runs,
                complete : BOOLEAN]

Tasks == {Idle} \cup Registrations \cup Markings \cup Cleanings \cup Scans \cup Comparisons

DatasetTypeOK ==
    /\ Recordings(recs) /\ marks \in Marks
    /\ splits \subseteq Documents /\ partials \subseteq Documents
    /\ proc \in [Procs -> Tasks]
    /\ registry \in Locked /\ capture \in Locked /\ receipts \subseteq Runs

(* The invariants of a process that the proofs of the properties need.     *)

Cleans(p) == proc[p].step \in CleanerSteps
HoldsThroughout(p) == Cleans(p) /\ proc[p].kind \in {"duplicate", "short"}

(* From verification to publication, and from the final look to the        *)
(* removal, the lock of the registry is held.                              *)
RegistryIsHeld(p) ==
    \/ HoldsThroughout(p)
    \/ proc[p].step \in {"verify", "write", "publish", "published",
                         "look", "splits", "remove", "removing"}
    => registry = p

(* What is about to be published is still true.                            *)
DocumentIsVerified(p) ==
    proc[p].step \in {"write", "publish", "published"} => Verified(proc[p].doc)

(* A cleaner keeps to what it has been given to remove, of which nothing   *)
(* was kept when it looked first, and which it has put aside.              *)
CleanerIsReviewed(p) ==
    Cleans(p) =>
        /\ proc[p].left \subseteq Targets(p)
        /\ Targets(p) \cap proc[p].seen.kept = {}
        /\ proc[p].step # "plan" => Targets(p) \subseteq receipts
        /\ proc[p].step \in {"lock", "splits"} => proc[p].kind = "superseded"
        /\ proc[p].step \in {"lock", "splits", "remove", "removing"} =>
              proc[p].row \in proc[p].left
        /\ proc[p].kind = "duplicate" =>
              \A r \in Targets(p), k \in Keep("duplicate") : proc[p].files[r] = proc[p].files[k]

(* No split names what a cleaner has looked at for the last time.          *)
RemovalIsUnnamed(p) ==
    /\ HoldsThroughout(p) => NoSplitNames(Targets(p))
    /\ proc[p].step \in {"remove", "removing"} => NoSplitNames({proc[p].row})

(* The copy that is kept is as the one that is removed.                    *)
CopyIsWhole(p) ==
    At(p, "remove") /\ proc[p].kind = "duplicate" =>
        /\ Unchanged(p, proc[p].row)
        /\ \A k \in Keep("duplicate") : Unchanged(p, k)

(* A review has seen the marks of its revision and every split that had    *)
(* been registered when it began.                                          *)
ReviewIsBehind(p) ==
    /\ proc[p].step \in {"scan", "compare"} =>
          /\ proc[p].seen.revision <= marks.revision
          /\ proc[p].seen.revision = marks.revision => proc[p].seen = marks
    /\ At(p, "scan") => proc[p].due \subseteq UNION {DOMAIN d.sides : d \in splits}
    /\ At(p, "compare") => proc[p].due \subseteq proc[p].split

ProcessInv(p) ==
    /\ RegistryIsHeld(p) /\ DocumentIsVerified(p) /\ CleanerIsReviewed(p)
    /\ RemovalIsUnnamed(p) /\ CopyIsWhole(p) /\ ReviewIsBehind(p)

DatasetInv == DatasetTypeOK /\ RegisteredSplitIsBacked /\ \A p \in Procs : ProcessInv(p)
=============================================================================
