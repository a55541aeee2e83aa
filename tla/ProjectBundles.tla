---------------------------- MODULE ProjectBundles ----------------------------
(***************************************************************************)
(* Project packages: scene histories are exported with the textures,       *)
(* previews and asset sources they refer to, while scenes are saved and    *)
(* previews are merged; a package is restored into the world on a review   *)
(* that is good for one attempt at the world and the package it was made   *)
(* for, behind a saved baseline.  Checksums, paths and sizes are left out: *)
(* a file is its content, and a torn archive is one that is not whole.     *)
(***************************************************************************)
EXTENDS Naturals, Sequences, FiniteSets, Functions, TLC

CONSTANTS Scenes,         \* identities of the scenes an operator saves
          Contents,       \* [map, materials : slot -> texture, generated]
          Definitions,    \* exported meshes a slot may be previewed by
          Ids,            \* identities of staged packages
          Tokens,         \* reviews
          MaxVersions, MaxMerges, MaxEpisodes, MaxCrashes      \* bounds of a run

VARIABLES docs,       \* the saved versions: [scene, content]
          heads,      \* scene -> [history, cursor]
          catalog,    \* slot -> definition, preview-catalog.json
          meshes,     \* slot -> definition, the mesh files
          merge,      \* the merger that holds merge.lock
          op,         \* the operation of the workbench
          staged,     \* id -> archive
          imported,   \* isolated projects: [of, whole]
          reviews,    \* token -> what was reviewed, in memory
          restoring,  \* the confirmed restore that holds the simulation lock
          used,   \* token -> restores it has been good for
          world,      \* [episode, content]
          counts      \* [merges, crashes], of the bounds

storeVars == <<docs, heads>>
catalogVars == <<catalog, meshes, merge>>
worldVars == <<reviews, restoring, used, world>>
bundleVars == <<storeVars, catalogVars, op, staged, imported, worldVars, counts>>

Slots == UNION {DOMAIN c.materials : c \in Contents}
Idle == [step |-> "idle"]

(* A file written, or a set of them with one value.                        *)
Put(f, keys, value) ==
    [k \in DOMAIN f \cup keys |-> IF k \in keys THEN value ELSE f[k]]

-----------------------------------------------------------------------------
(* The files of a package, by kind.                                        *)
Files(hs, ds) == [heads |-> hs, docs |-> ds, textures |-> {}, previews |-> {},
                  sources |-> {}, reference |-> FALSE]
InPackage(f) == {f.docs[d].content : d \in DOMAIN f.docs}
TexturesOf(f) == UNION {Range(c.materials) : c \in InPackage(f)}
SlotsOf(f) == UNION {DOMAIN c.materials : c \in InPackage(f)}
GeneratedOf(f) == {c \in InPackage(f) : c.generated}

(* _validate: the versions are exactly those of the heads, the textures    *)
(* exactly those referred to, previews and sources all of them or none.    *)
Valid(f) ==
    /\ DOMAIN f.heads # {}
    /\ \A s \in DOMAIN f.heads : f.heads[s].cursor \in DOMAIN f.heads[s].history
    /\ DOMAIN f.docs = UNION {{<<s, v>> : v \in Range(f.heads[s].history)} : s \in DOMAIN f.heads}
    /\ \A d \in DOMAIN f.docs : f.docs[d].scene = d[1]
    /\ f.textures = TexturesOf(f)
    /\ f.previews # {} => f.previews = SlotsOf(f)
    /\ f.sources # {} => f.sources = GeneratedOf(f)

Dependencies(f) ==
    [maps |-> {c.map : c \in InPackage(f)}, slots |-> SlotsOf(f),
     sources |-> f.sources, external |-> f.sources # {}, reference |-> f.reference]

Archive(f) == [files |-> f, deps |-> Dependencies(f), whole |-> TRUE]
ReadBundle(a) == a.whole /\ Valid(a.files) /\ a.deps = Dependencies(a.files)

(* The one historical manifest that denied its sources; a corrected copy.  *)
Legacy(a) == /\ a.whole /\ Valid(a.files) /\ a.files.sources # {}
             /\ a.deps = [Dependencies(a.files) EXCEPT !.external = FALSE]
Migrated(a) == [a EXCEPT !.deps = Dependencies(a.files)]

(* Packages of other studios: one scene, with or without its sources, and  *)
(* of either age.                                                          *)
Foreign ==
    LET of(c, sources) ==
          [Files("other" :> [history |-> <<1>>, cursor |-> 1],
                 <<"other", 1>> :> [scene |-> "other", content |-> c])
              EXCEPT !.textures = Range(c.materials), !.sources = sources]
        own(c) == {of(c, {})} \cup (IF c.generated THEN {of(c, {c})} ELSE {})
        new == {Archive(f) : f \in UNION {own(c) : c \in Contents}}
    IN  new \cup {[a EXCEPT !.deps.external = FALSE] : a \in {b \in new : b.files.sources # {}}}

BundleInit ==
    /\ docs = <<>> /\ heads = <<>> /\ catalog = <<>> /\ meshes = <<>> /\ merge = Idle
    /\ op = Idle /\ staged = <<>> /\ imported = {} /\ reviews = <<>> /\ restoring = Idle
    /\ used = [t \in Tokens |-> 0] /\ counts = [merges |-> 0, crashes |-> 0]
    /\ \E c \in Contents : world = [episode |-> 1, content |-> c]

-----------------------------------------------------------------------------
(* SceneStore.save: the version, then the head, which drops the redoable   *)
(* branch.  A crash in between leaves a version no head names.             *)
Saved(s, c, headToo) ==
    LET v == Len(docs) + 1
        kept == IF s \in DOMAIN heads THEN SubSeq(heads[s].history, 1, heads[s].cursor) ELSE <<>>
    IN  /\ docs' = Append(docs, [scene |-> s, content |-> c])
        /\ heads' = IF headToo
                    THEN Put(heads, {s}, [history |-> Append(kept, v), cursor |-> Len(kept) + 1])
                    ELSE heads

SaveScene ==
    /\ restoring = Idle /\ Len(docs) < MaxVersions
    /\ \E s \in Scenes, headToo \in BOOLEAN : Saved(s, world.content, headToo)
    /\ UNCHANGED <<catalogVars, op, staged, imported, worldVars, counts>>

(* SceneStore.move.                                                        *)
MoveCursor ==
    /\ restoring = Idle
    /\ \E s \in DOMAIN heads : \E to \in {heads[s].cursor - 1, heads[s].cursor + 1} :
          /\ to \in DOMAIN heads[s].history
          /\ heads' = [heads EXCEPT ![s].cursor = to]
    /\ UNCHANGED <<docs, catalogVars, op, staged, imported, worldVars, counts>>

-----------------------------------------------------------------------------
(* merge_preview_catalog: nothing that is there may differ from what is    *)
(* added.  The meshes come first, the catalog names them last.             *)
Agrees(def, todo) ==
    \A t \in todo : /\ t \in DOMAIN catalog => catalog[t] = def
                    /\ t \in DOMAIN meshes => meshes[t] = def

(* Mutant of MergeStart: the mergers do not exclude each other.            *)
MergeStartUnlocked ==
    /\ counts.merges < MaxMerges /\ counts' = [counts EXCEPT !.merges = @ + 1]
    /\ \E def \in Definitions, todo \in (SUBSET Slots) \ {{}} :
          /\ \A t \in todo \cap DOMAIN catalog : catalog[t] = def
          /\ merge' = [step |-> "meshes", def |-> def, all |-> todo, todo |-> todo]
    /\ UNCHANGED <<storeVars, catalog, meshes, op, staged, imported, worldVars>>

MergeStart ==
    /\ merge = Idle
    /\ counts.merges < MaxMerges /\ counts' = [counts EXCEPT !.merges = @ + 1]
    /\ \E def \in Definitions, todo \in (SUBSET Slots) \ {{}} :
          /\ Agrees(def, todo)
          /\ merge' = [step |-> "meshes", def |-> def, all |-> todo, todo |-> todo]
    /\ UNCHANGED <<storeVars, catalog, meshes, op, staged, imported, worldVars>>

MergeMesh ==
    /\ merge.step = "meshes"
    /\ \E t \in merge.todo : /\ meshes' = Put(meshes, {t} \ DOMAIN meshes, merge.def)
                             /\ merge' = [merge EXCEPT !.todo = @ \ {t}]
    /\ UNCHANGED <<storeVars, catalog, op, staged, imported, worldVars, counts>>

MergeCatalog ==
    /\ merge.step = "meshes" /\ merge.todo = {} /\ merge' = Idle
    /\ catalog' = Put(catalog, merge.all, merge.def)
    /\ UNCHANGED <<storeVars, meshes, op, staged, imported, worldVars, counts>>

MergeDies ==
    /\ merge # Idle /\ merge' = Idle
    /\ UNCHANGED <<storeVars, catalog, meshes, op, staged, imported, worldVars, counts>>

-----------------------------------------------------------------------------
(* BundleWorkbench.export: one operation at a time, none waits.            *)
ExportStart ==
    /\ op = Idle
    /\ \E id \in Ids \ DOMAIN staged, ids \in (SUBSET DOMAIN heads) \ {{}},
          options \in SUBSET {"previews", "sources", "reference"} :
          op' = [step |-> "scenes", id |-> id, left |-> ids, options |-> options,
                 files |-> Files(<<>>, <<>>)]
    /\ UNCHANGED <<storeVars, catalogVars, staged, imported, worldVars, counts>>

(* One scene after the other, each read under its own lock.                *)
ReadScene ==
    /\ op.step = "scenes"
    /\ \E s \in op.left :
          LET new == [d \in {<<s, v>> : v \in Range(heads[s].history)} |-> docs[d[2]]]
          IN  op' = [op EXCEPT !.left = @ \ {s},
                     !.files.heads = Put(@, {s}, heads[s]), !.files.docs = @ @@ new,
                     !.files.textures = @ \cup UNION {Range(new[d].content.materials) : d \in DOMAIN new}]
    /\ UNCHANGED <<storeVars, catalogVars, staged, imported, worldVars, counts>>

(* The snapshot is validated and written beside; previews are added if the *)
(* catalog has every slot.                                                 *)
WritePartial ==
    /\ op.step = "scenes" /\ op.left = {} /\ Valid(op.files)
    /\ LET slots == IF "previews" \in op.options THEN SlotsOf(op.files) ELSE {}
       IN  /\ slots \subseteq DOMAIN catalog \cap DOMAIN meshes
           /\ op' = [op EXCEPT !.step = "partial", !.files.previews = slots]
    /\ UNCHANGED <<storeVars, catalogVars, staged, imported, worldVars, counts>>

(* Mutant of Extended: the scenes are read again.                          *)
ExtendedAnew(f) ==
    [f EXCEPT !.heads = [s \in DOMAIN f.heads |-> heads[s]], !.sources = GeneratedOf(f)]

(* extend_bundle works on the snapshot, without reading the scenes again.  *)
Extended(f) == [f EXCEPT !.sources = GeneratedOf(f)]

(* Sources are exported from the asset jobs of the registry; a blueprint   *)
(* without one fails the operation (OpFails).                              *)
ExtendPartial ==
    /\ op.step = "partial" /\ op.options \cap {"sources", "reference"} # {}
    /\ LET f == IF "sources" \in op.options THEN Extended(op.files) ELSE op.files
       IN  op' = [op EXCEPT !.step = "extended", !.options = {},
                  !.files = [f EXCEPT !.reference = "reference" \in op.options]]
    /\ UNCHANGED <<storeVars, catalogVars, staged, imported, worldVars, counts>>

Publish ==
    /\ \/ op.step = "partial" /\ op.options \cap {"sources", "reference"} = {}
       \/ op.step = "extended"
    /\ staged' = Put(staged, {op.id}, Archive(op.files)) /\ op' = Idle
    /\ UNCHANGED <<storeVars, catalogVars, imported, worldVars, counts>>

(* A refusal or an error: what was written stays beside the packages.      *)
OpFails ==
    /\ op # Idle /\ op' = Idle
    /\ UNCHANGED <<storeVars, catalogVars, staged, imported, worldVars, counts>>

(* An uploaded package is read before it is kept; a legacy one has been    *)
(* migrated by the command line first.                                     *)
Upload ==
    /\ op = Idle
    /\ \E id \in Ids \ DOMAIN staged, a \in Foreign :
          LET b == IF Legacy(a) THEN Migrated(a) ELSE a
          IN  ReadBundle(b) /\ staged' = Put(staged, {id}, b)
    /\ UNCHANGED <<storeVars, catalogVars, op, imported, worldVars, counts>>

(* The command line copies a package to its final name, and a hand may     *)
(* replace one there.                                                      *)
StageByHand ==
    /\ \E id \in Ids, a \in {b \in Foreign : ReadBundle(b)}, whole \in BOOLEAN :
          staged' = Put(staged, {id}, [a EXCEPT !.whole = whole])
    /\ UNCHANGED <<storeVars, catalogVars, op, imported, worldVars, counts>>

(* import_bundle: the whole package is read before the new folder is made; *)
(* the manifest is written last, and a failure removes the folder.         *)
ImportIsolated ==
    /\ op = Idle
    /\ \E id \in DOMAIN staged : ReadBundle(staged[id]) /\ op' = [step |-> "import", id |-> id]
    /\ UNCHANGED <<storeVars, catalogVars, staged, imported, worldVars, counts>>

ImportDone ==
    /\ op.step = "import" /\ imported' = imported \cup {op.id} /\ op' = Idle
    /\ UNCHANGED <<storeVars, catalogVars, staged, worldVars, counts>>

-----------------------------------------------------------------------------
(* restore_scene_document in the world of the same map: done; put back; or *)
(* left anyhow, as when the bridge dies in it.                             *)
RestoreResults(c) ==
    {r \in [content : {d \in Contents : d.map = world.content.map}, ok : BOOLEAN] :
        r.ok => r.content = c}

(* scene_snapshot: a version in a package that can be read now.            *)
Selectable(sel) ==
    /\ op = Idle /\ sel.id \in DOMAIN staged /\ ReadBundle(staged[sel.id])
    /\ sel.doc \in DOMAIN staged[sel.id].files.docs

Content(sel) == staged[sel.id].files.docs[sel.doc].content

(* restore_bundle_scene: at once, for a version that is named.             *)
RestoreAtOnce ==
    /\ restoring = Idle
    /\ \E id \in DOMAIN staged : ReadBundle(staged[id]) /\ \E d \in DOMAIN staged[id].files.docs :
          LET c == staged[id].files.docs[d].content
          IN  /\ c.map = world.content.map
              /\ \E r \in RestoreResults(c) : world' = [world EXCEPT !.content = r.content]
    /\ UNCHANGED <<storeVars, catalogVars, op, staged, imported, reviews, restoring, used, counts>>

(* RestoreReviews.issue, under the simulation lock.                        *)
Preview ==
    /\ restoring = Idle
    /\ \E t \in Tokens : t \notin DOMAIN reviews /\ used[t] = 0 /\
       \E id \in DOMAIN staged : \E d \in DOMAIN staged[id].files.docs :
          LET sel == [id |-> id, doc |-> d]
          IN  /\ Selectable(sel) /\ Content(sel).map = world.content.map
              /\ reviews' = Put(reviews, {t}, [sel |-> sel, package |-> staged[id], seen |-> world])
    /\ UNCHANGED <<storeVars, catalogVars, op, staged, imported, restoring, used, world, counts>>

(* 120 seconds.                                                            *)
ReviewExpires ==
    /\ \E t \in DOMAIN reviews : reviews' = Restrict(reviews, DOMAIN reviews \ {t})
    /\ UNCHANGED <<storeVars, catalogVars, op, staged, imported, restoring, used, world, counts>>

Same(r) == world = r.seen /\ staged[r.sel.id] = r.package

(* Mutant of Consume: the review is taken away after the restore.          *)
ConsumeKeeping(t) ==
    /\ reviews' = reviews
    /\ restoring' = IF Same(reviews[t]) THEN [step |-> "backup", token |-> t, review |-> reviews[t]]
                    ELSE Idle

(* RestoreReviews.consume: the review is gone, whatever comes of it.       *)
Consume(t) ==
    /\ reviews' = Restrict(reviews, DOMAIN reviews \ {t})
    /\ restoring' = IF Same(reviews[t]) THEN [step |-> "backup", token |-> t, review |-> reviews[t]]
                    ELSE Idle

ConfirmRestore ==
    /\ restoring = Idle
    /\ \E t \in DOMAIN reviews : Selectable(reviews[t].sel) /\ Consume(t)
    /\ UNCHANGED <<storeVars, catalogVars, op, staged, imported, used, world, counts>>

(* The baseline becomes a scene of its own before anything is touched, or  *)
(* nothing is.                                                             *)
SaveBaseline ==
    /\ restoring.step = "backup"
    /\ \/ /\ Saved(restoring.token, world.content, TRUE)
          /\ restoring' = [restoring EXCEPT !.step = "restore"]
       \/ UNCHANGED storeVars /\ restoring' = Idle
    /\ UNCHANGED <<catalogVars, op, staged, imported, reviews, used, world, counts>>

RestoreReviewed ==
    /\ restoring.step = "restore" /\ restoring' = Idle
    /\ used' = [used EXCEPT ![restoring.token] = @ + 1]
    /\ LET r == restoring.review
       IN  \E res \in RestoreResults(r.package.files.docs[r.sel.doc].content) :
              world' = [world EXCEPT !.content = res.content]
    /\ UNCHANGED <<storeVars, catalogVars, op, staged, imported, reviews, counts>>

(* The operator edits, or another map is loaded.                           *)
WorldChanges ==
    /\ restoring = Idle
    /\ \/ \E c \in Contents : c.map = world.content.map /\ world' = [world EXCEPT !.content = c]
       \/ /\ world.episode < MaxEpisodes
          /\ \E c \in Contents : world' = [episode |-> world.episode + 1, content |-> c]
    /\ UNCHANGED <<storeVars, catalogVars, op, staged, imported, reviews, restoring, used, counts>>

CrashWorkbench ==
    /\ counts.crashes < MaxCrashes /\ counts' = [counts EXCEPT !.crashes = @ + 1]
    /\ op' = Idle /\ reviews' = <<>> /\ restoring' = Idle
    /\ UNCHANGED <<storeVars, catalogVars, staged, imported, used, world>>

BundleNext ==
    \/ SaveScene \/ MoveCursor \/ MergeStart \/ MergeMesh \/ MergeCatalog \/ MergeDies
    \/ ExportStart \/ ReadScene \/ WritePartial \/ ExtendPartial \/ Publish \/ OpFails
    \/ Upload \/ StageByHand \/ ImportIsolated \/ ImportDone
    \/ RestoreAtOnce \/ Preview \/ ReviewExpires \/ ConfirmRestore \/ SaveBaseline
    \/ RestoreReviewed \/ WorldChanges \/ CrashWorkbench

BundleSpec == BundleInit /\ [][BundleNext]_bundleVars

-----------------------------------------------------------------------------
(* A package the studio has written can be read: it is complete and holds  *)
(* nothing else, although scenes were saved, stepped through and previews  *)
(* merged while it was made (project_bundle.py:181, "without rereading     *)
(* changing scene histories").                                             *)
StagedIsReadable == \A id \in DOMAIN staged : staged[id].whole => ReadBundle(staged[id])

(* The catalog names only meshes that are there and are what it says, with *)
(* mergers that die in the middle and disagree (material_catalog_merge.py).*)
CatalogHasItsMeshes ==
    \A t \in DOMAIN catalog : t \in DOMAIN meshes /\ meshes[t] = catalog[t]

(* What the studio publishes about meshes and scenes can be used.          *)
BundlesAreWhole == StagedIsReadable /\ CatalogHasItsMeshes

(* A reviewed restore touches only the world the operator has seen, after  *)
(* that world has become a scene he can go back to, and a review is good   *)
(* for one attempt (bundle_restore_review.py:1, "Single-use").             *)
ReviewedRestoreIsSafe ==
    [][ restoring.step = "restore" /\ restoring' = Idle /\ world' # world =>
          /\ world = restoring.review.seen
          /\ used[restoring.token] = 0
          /\ restoring.token \in DOMAIN heads
          /\ LET h == heads[restoring.token]
             IN  docs[h.history[h.cursor]].content = world.content ]_bundleVars

-----------------------------------------------------------------------------
(* The inductive invariants of the two.                                    *)
Versions == [scene : Scenes \cup Tokens, content : Contents]

(* A scene is a history of its versions and a place in it.                 *)
HeadsOK ==
    \A s \in DOMAIN heads :
        /\ DOMAIN heads[s] = {"history", "cursor"} /\ heads[s].history \in Seq(Nat)
        /\ heads[s].cursor \in DOMAIN heads[s].history

BundleTypeOK ==
    /\ docs \in Seq(Versions) /\ HeadsOK
    /\ world \in [episode : Nat, content : Contents]
    /\ used \in [Tokens -> Nat] /\ DOMAIN reviews \subseteq Tokens

FileKinds == {"heads", "docs", "textures", "previews", "sources", "reference"}
ArchiveParts == {"files", "deps", "whole"}

(* A package that is being made has been checked since the scenes were read*)
(* and a staged one is what was made.                                      *)
MadeIsChecked ==
    /\ op.step \in {"scenes", "partial", "extended"} =>
          /\ DOMAIN op = {"step", "id", "left", "options", "files"}
          /\ DOMAIN op.files = FileKinds
    /\ op.step \in {"partial", "extended"} => Valid(op.files)

(* A merger has written what it no longer has to do, and nothing that is   *)
(* there disagrees with the rest.                                          *)
MergerAgrees ==
    merge.step # "idle" =>
        /\ DOMAIN merge = {"step", "def", "all", "todo"} /\ merge.step = "meshes"
        /\ merge.todo \subseteq merge.all
        /\ \A t \in merge.all :
              /\ t \in DOMAIN catalog => catalog[t] = merge.def
              /\ t \in DOMAIN meshes => meshes[t] = merge.def
              /\ t \notin merge.todo => t \in DOMAIN meshes

(* A review that is still open has not been good for anything.             *)
ReviewIsUnused == \A t \in DOMAIN reviews : used[t] = 0

(* A restore that is under way has used up its review, and the world is    *)
(* still the one that was seen, from the baseline on a saved scene.        *)
RestoreIsAlone ==
    /\ restoring.step \in {"idle", "backup", "restore"}
    /\ restoring.step # "idle" =>
          /\ DOMAIN restoring = {"step", "token", "review"}
          /\ restoring.token \in Tokens \ DOMAIN reviews /\ used[restoring.token] = 0
          /\ world = restoring.review.seen
    /\ restoring.step = "restore" =>
          /\ restoring.token \in DOMAIN heads
          /\ LET h == heads[restoring.token]
             IN  docs[h.history[h.cursor]].content = world.content

BundleInv ==
    /\ BundleTypeOK /\ BundlesAreWhole /\ MadeIsChecked /\ MergerAgrees
    /\ ReviewIsUnused /\ RestoreIsAlone
=============================================================================
