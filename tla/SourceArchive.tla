----------------------------- MODULE SourceArchive -----------------------------
(***************************************************************************)
(* The studio's own source as an archive (source_bundle), and references to*)
(* the files of its models (runtime_reference).  Exports read the committed*)
(* snapshot from Git while the developer edits, adds and commits, and      *)
(* publish where another export, or another program, may put a file as     *)
(* well; a restore verifies and unpacks.  A version is a number: of the    *)
(* tracked files together, which one Git command reads.  What is not in    *)
(* the index is looked for by another command, after that.                 *)
(***************************************************************************)
EXTENDS Naturals, FiniteSets

CONSTANTS
    Exports,        \* calls of export_source
    Restores,       \* calls of restore_source
    MaxTrees        \* versions of the work tree in a run

ASSUME SourceAssumption ==
    Exports \cap (Restores \cup {"none", "outside"}) = {} /\ MaxTrees \in Nat

VARIABLES
    repo,       \* what HEAD and the tracked files hold; are there other files
    export,     \* each export: its step, what it has read of the repository
    since,      \* work trees there have been since its partial was complete
    disturbed,  \* exports during whose last look at the tree that has changed
    output,     \* the published archive
    partials,   \* exports whose partial is still there
    restore,    \* each restore: its step, the bytes it read, what it has written
    model,      \* a model's file: version and time of its last change
    print       \* the fingerprint that is being taken, and those that were

sourceVars == <<repo, export, since, disturbed, output, partials, restore, model, print>>

NoTree == 0
NoArchive == [commit |-> NoTree, whole |-> FALSE, omits |-> FALSE, current |-> FALSE, by |-> "none"]
Archived(e) == [commit |-> export[e].commit, whole |-> TRUE, omits |-> export[e].omits,
                current |-> export[e].current, by |-> e]

SourceInit ==
    /\ repo = [head |-> 1, tracked |-> 1, others |-> FALSE, last |-> 1]
    /\ export = [e \in Exports |-> [step |-> "idle", commit |-> NoTree, omits |-> FALSE,
                                    current |-> FALSE]]
    /\ since = [e \in Exports |-> {}] /\ disturbed = {} /\ output = NoArchive /\ partials = {}
    /\ restore = [r \in Restores |-> [step |-> "idle", read |-> NoArchive, files |-> NoTree,
                                      receipt |-> NoTree]]
    /\ model = [version |-> 1, changed |-> 1]
    /\ print = [step |-> "idle", before |-> 0, parts |-> {}, taken |-> {}]

-----------------------------------------------------------------------------
Writing == {e \in Exports : export[e].step \in {"written", "verified", "rechecked", "relisting"}}

(* A work tree: the version of its tracked files, and are there others.    *)
Tree(r) == <<r.tracked, r.others>>
CommitOnly(commit) == <<commit, FALSE>>

Edit == repo.last < MaxTrees /\ repo' = [repo EXCEPT !.tracked = repo.last + 1, !.last = @ + 1]
Create == ~repo.others /\ repo' = [repo EXCEPT !.others = TRUE]
Remove == repo.others /\ repo' = [repo EXCEPT !.others = FALSE]
Add ==
    /\ repo.others /\ repo.last < MaxTrees
    /\ repo' = [repo EXCEPT !.tracked = repo.last + 1, !.others = FALSE, !.last = @ + 1]
Commit == repo.tracked # repo.head /\ repo' = [repo EXCEPT !.head = repo.tracked]
Checkout ==
    \E old \in 1 .. repo.last :
        old # repo.head /\ repo' = [repo EXCEPT !.head = old, !.tracked = old]

(* The developer: edits tracked files, creates others, removes them again  *)
(* or adds them to the index, commits what is tracked, checks out.         *)
Develop ==
    /\ Edit \/ Create \/ Remove \/ Add \/ Commit \/ Checkout
    /\ since' = [e \in Exports |-> IF e \in Writing THEN since[e] \cup {Tree(repo')} ELSE since[e]]
    /\ disturbed' = disturbed \cup {e \in Exports : export[e].step = "relisting"
                                                   /\ Tree(repo') # Tree(repo)}
    /\ UNCHANGED <<export, output, partials, restore, model, print>>

Step(e, step) == export' = [export EXCEPT ![e].step = step]

(* export_source: the output must not exist, then the commit.              *)
BeginExport(e) ==
    /\ export[e].step = "idle" /\ output = NoArchive
    /\ \E current \in BOOLEAN :
          export' = [export EXCEPT ![e] = [@ EXCEPT !.step = "begun", !.commit = repo.head,
                                                    !.current = current]]
    /\ UNCHANGED <<repo, since, disturbed, output, partials, restore, model, print>>

(* uncommitted_source, first git diff: the tracked files against the       *)
(* commit,                                                                 *)
CompareTree(e) ==
    /\ export[e].step = "begun"
    /\ export' = [export EXCEPT ![e].omits = (repo.tracked # export[e].commit),
                                ![e].step = "listing"]
    /\ UNCHANGED <<repo, since, disturbed, output, partials, restore, model, print>>

(* then git ls-files --others: those that are not in the index.            *)
ListOthers(e) ==
    /\ export[e].step = "listing"
    /\ LET omits == export[e].omits \/ repo.others
       IN  export' = [export EXCEPT ![e].omits = omits,
                         ![e].step = IF omits /\ export[e].current THEN "failed" ELSE "compared"]
    /\ UNCHANGED <<repo, since, disturbed, output, partials, restore, model, print>>

(* The blobs of the commit, whatever becomes of HEAD meanwhile; or a limit,*)
(* a missing blob, or the 120 seconds.                                     *)
WriteArchive(e) ==
    /\ export[e].step = "compared" /\ partials' = partials \cup {e}
    /\ \/ Step(e, "written") /\ since' = [since EXCEPT ![e] = {Tree(repo)}]
       \/ Step(e, "failed") /\ UNCHANGED since
    /\ UNCHANGED <<repo, disturbed, output, restore, model, print>>

VerifyPartial(e) ==
    /\ export[e].step = "written" /\ Step(e, "verified")
    /\ UNCHANGED <<repo, since, disturbed, output, partials, restore, model, print>>

(* Mutant of RecheckHead: what was current at the beginning still is.      *)
RecheckNothing(e) ==
    /\ export[e].step = "verified" /\ Step(e, "checked")
    /\ UNCHANGED <<repo, since, disturbed, output, partials, restore, model, print>>

(* require_current looks again, first at HEAD and then at the work tree,   *)
(* with the same two commands.                                             *)
RecheckHead(e) ==
    /\ export[e].step = "verified"
    /\ Step(e, IF ~export[e].current THEN "checked"
               ELSE IF repo.head = export[e].commit THEN "rechecked" ELSE "failed")
    /\ UNCHANGED <<repo, since, disturbed, output, partials, restore, model, print>>

RecheckTree(e) ==
    /\ export[e].step = "rechecked"
    /\ Step(e, IF repo.tracked = export[e].commit THEN "relisting" ELSE "failed")
    /\ UNCHANGED <<repo, since, disturbed, output, partials, restore, model, print>>

(* Mutant of RecheckOthers: the second command is left out.                *)
RecheckNoOthers(e) ==
    /\ export[e].step = "relisting" /\ Step(e, "checked")
    /\ UNCHANGED <<repo, since, disturbed, output, partials, restore, model, print>>

RecheckOthers(e) ==
    /\ export[e].step = "relisting"
    /\ Step(e, IF repo.others THEN "failed" ELSE "checked")
    /\ UNCHANGED <<repo, since, disturbed, output, partials, restore, model, print>>

(* os.link: never over another file.                                       *)
PublishArchive(e) ==
    /\ export[e].step = "checked"
    /\ IF output = NoArchive THEN Step(e, "published") /\ output' = Archived(e)
       ELSE Step(e, "failed") /\ UNCHANGED output
    /\ UNCHANGED <<repo, since, disturbed, partials, restore, model, print>>

(* The partial is removed at the very end: an export that fails, or is     *)
(* killed, leaves it for inspection.                                       *)
RemovePartial(e) ==
    /\ export[e].step = "published" /\ e \in partials
    /\ partials' = partials \ {e} /\ Step(e, "done")
    /\ UNCHANGED <<repo, since, disturbed, output, restore, model, print>>

KillExport(e) ==
    /\ export[e].step \notin {"idle", "failed", "done"} /\ Step(e, "failed")
    /\ UNCHANGED <<repo, since, disturbed, output, partials, restore, model, print>>

(* Another program puts an archive in the place of the published one, or a *)
(* damaged one.                                                            *)
SwapArchive ==
    /\ output # NoArchive /\ output.by # "outside"
    /\ \E whole \in BOOLEAN, commit \in 1 .. repo.last :
          output' = [commit |-> commit, whole |-> whole, omits |-> FALSE, current |-> FALSE,
                     by |-> "outside"]
    /\ UNCHANGED <<repo, export, since, disturbed, partials, restore, model, print>>

-----------------------------------------------------------------------------
At_(r, step) == restore[r].step = step
Directories == {r \in Restores : restore[r].files # NoTree}

(* restore_source: all bytes at once, verified in memory.                  *)
ReadArchive(r) ==
    /\ At_(r, "idle") /\ output # NoArchive /\ Directories = {}
    /\ restore' = [restore EXCEPT ![r].read = output,
                      ![r].step = IF output.whole THEN "verified" ELSE "failed"]
    /\ UNCHANGED <<repo, export, since, disturbed, output, partials, model, print>>

(* mkdir of a new destination, and the files out of the verified bytes; on *)
(* an error what there is of them stays.                                   *)
Unpack(r) ==
    /\ At_(r, "verified")
    /\ IF Directories # {} THEN restore' = [restore EXCEPT ![r].step = "failed"]
       ELSE \E step \in {"unpacked", "failed"} :
               restore' = [restore EXCEPT ![r].files = restore[r].read.commit, ![r].step = step]
    /\ UNCHANGED <<repo, export, since, disturbed, output, partials, model, print>>

WriteReceipt(r) ==
    /\ At_(r, "unpacked")
    /\ \/ restore' = [restore EXCEPT ![r].step = "done", ![r].receipt = restore[r].read.commit]
       \/ restore' = [restore EXCEPT ![r].step = "failed"]
    /\ UNCHANGED <<repo, export, since, disturbed, output, partials, model, print>>

-----------------------------------------------------------------------------
(* A model's file is replaced, perhaps by what it was before.              *)
ChangeModel ==
    /\ model.changed < MaxTrees
    /\ \E version \in 1 .. MaxTrees : model' = [version |-> version, changed |-> model.changed + 1]
    /\ UNCHANGED <<repo, export, since, disturbed, output, partials, restore, print>>

(* fingerprint: the times before and after, and in between the bytes.      *)
BeginFingerprint ==
    /\ print.step = "idle"
    /\ print' = [print EXCEPT !.step = "first", !.before = model.changed, !.parts = {}]
    /\ UNCHANGED <<repo, export, since, disturbed, output, partials, restore, model>>

ReadPart ==
    /\ print.step \in {"first", "second"} /\ Cardinality(print.parts) < 2
    /\ print' = [print EXCEPT !.step = "second", !.parts = @ \cup {model.version}]
    /\ UNCHANGED <<repo, export, since, disturbed, output, partials, restore, model>>

EndFingerprint ==
    /\ print.step = "second"
    /\ print' = [print EXCEPT !.step = "idle",
                    !.taken = @ \cup (IF print.before = model.changed THEN {print.parts} ELSE {})]
    /\ UNCHANGED <<repo, export, since, disturbed, output, partials, restore, model>>

SourceNext ==
    \/ Develop \/ SwapArchive \/ ChangeModel
    \/ \E e \in Exports :
          \/ BeginExport(e) \/ CompareTree(e) \/ ListOthers(e) \/ WriteArchive(e)
          \/ VerifyPartial(e) \/ RecheckHead(e) \/ RecheckTree(e) \/ RecheckOthers(e)
          \/ PublishArchive(e) \/ RemovePartial(e) \/ KillExport(e)
    \/ \E r \in Restores : ReadArchive(r) \/ Unpack(r) \/ WriteReceipt(r)
    \/ BeginFingerprint \/ ReadPart \/ EndFingerprint

SourceSpec == SourceInit /\ [][SourceNext]_sourceVars

-----------------------------------------------------------------------------
(* What the last look has told an export of its commit.                    *)
SeenCurrent(e, commit) ==
    /\ \E tree \in since[e] : tree[1] = commit
    /\ \E tree \in since[e] : ~tree[2]
    /\ CommitOnly(commit) \in since[e] \/ e \in disturbed

(* An archive that was to be current omits nothing that a look at the tree *)
(* found: since it was written, the tracked files were the commit's at one *)
(* moment and every file was tracked at another (source_bundle.py:109-112, *)
(* "Selected source changed during export").  If the developer rested      *)
(* between the two commands of the last look, the whole work tree was the  *)
(* commit's.  Any other archive says whether it omits something.           *)
PublishedIsCurrent ==
    output.by \in Exports /\ output.current =>
        ~output.omits /\ SeenCurrent(output.by, output.commit)

(* The work tree as a whole was the commit's (source_bundle.py:54,         *)
(* "Current-development export refused: uncommitted source would be        *)
(* omitted").  Does not hold: README section 5.                            *)
CurrentIsWhole ==
    output.by \in Exports /\ output.current => CommitOnly(output.commit) \in since[output.by]

(* An export never takes the place of a file that is already there         *)
(* (source_bundle.py:113).                                                 *)
NothingIsReplaced ==
    [][output # NoArchive => output' = output \/ output'.by = "outside"]_sourceVars

(* A restored directory with a receipt holds the tree of the receipt,      *)
(* although the archive may be swapped between verification and extraction *)
(* (source_bundle.py:200).                                                 *)
ReceiptIsTrue ==
    \A r \in Restores : restore[r].receipt # NoTree => restore[r].receipt = restore[r].files

(* A fingerprint is of one version of a file, not of parts of two.         *)
FingerprintIsOfOne == \A parts \in print.taken : Cardinality(parts) = 1

SourceIsFaithful ==
    [](PublishedIsCurrent /\ ReceiptIsTrue /\ FingerprintIsOfOne) /\ NothingIsReplaced

-----------------------------------------------------------------------------
(* The inductive invariant of SourceIsFaithful.                            *)
Archives == [commit : Nat, whole : BOOLEAN, omits : BOOLEAN, current : BOOLEAN,
             by : Exports \cup {"none", "outside"}]
ExportSteps == {"idle", "begun", "listing", "compared", "written", "verified", "rechecked",
                "relisting", "checked", "published", "done", "failed"}
RestoreSteps == {"idle", "verified", "unpacked", "done", "failed"}

SourceTypeOK ==
    /\ repo \in [head : Nat \ {0}, tracked : Nat \ {0}, others : BOOLEAN, last : Nat \ {0}]
    /\ export \in [Exports -> [step : ExportSteps, commit : Nat, omits : BOOLEAN, current : BOOLEAN]]
    /\ since \in [Exports -> SUBSET (Nat \X BOOLEAN)] /\ disturbed \subseteq Exports
    /\ output \in Archives /\ partials \subseteq Exports
    /\ restore \in [Restores -> [step : RestoreSteps, read : Archives, files : Nat, receipt : Nat]]
    /\ model \in [version : Nat, changed : Nat]
    /\ print \in [step : {"idle", "first", "second"}, before : Nat, parts : SUBSET Nat,
                  taken : SUBSET SUBSET Nat]

(* From the comparison on, an export that is to be current omits nothing;  *)
(* the tree it looks at has been noted since its archive was written, and  *)
(* what its last look has found was there.                                 *)
Passed == {"compared", "written", "verified", "rechecked", "relisting", "checked", "published",
           "done"}
CurrentIsComplete(e) ==
    /\ export[e].step \in Passed /\ export[e].current => ~export[e].omits
    /\ e \in Writing => Tree(repo) \in since[e]
    /\ export[e].step = "relisting" =>
          \E tree \in since[e] : tree[1] = export[e].commit
    /\ export[e].step = "relisting" /\ e \notin disturbed => repo.tracked = export[e].commit
    /\ export[e].step = "checked" /\ export[e].current => SeenCurrent(e, export[e].commit)

(* An export whose archive is published has nothing more to compare.       *)
PublisherIsThrough ==
    output.by \in Exports => export[output.by].step \in {"published", "done", "failed"}

(* What a restore has unpacked is what it has verified, and a receipt comes*)
(* after the files.                                                        *)
RestoreIsOfVerified(r) ==
    /\ restore[r].step \in {"idle", "verified", "unpacked"} => restore[r].receipt = NoTree
    /\ restore[r].step = "unpacked" => restore[r].files = restore[r].read.commit

(* Unless a file has changed meanwhile, its parts are of one version.      *)
PartsAreOfOne ==
    /\ print.before <= model.changed
    /\ print.step # "idle" /\ print.before = model.changed => print.parts \subseteq {model.version}
    /\ print.step = "second" => print.parts # {}

SourceInv ==
    /\ SourceTypeOK /\ PublishedIsCurrent /\ ReceiptIsTrue /\ FingerprintIsOfOne
    /\ \A e \in Exports : CurrentIsComplete(e)
    /\ PublisherIsThrough /\ (\A r \in Restores : RestoreIsOfVerified(r)) /\ PartsAreOfOne
=============================================================================
