------------------------------ MODULE MCPackages ------------------------------
(* Bounds of asset imports, of project packages and of the archive of the  *)
(* source, which share no state here: each is run while the others rest.   *)
EXTENDS AssetImports, ProjectBundles, SourceArchive

VARIABLE part

Plain == [map |-> "a", materials |-> <<>>, generated |-> FALSE]
Rich == [map |-> "a", materials |-> "wall" :> "brick", generated |-> TRUE]
MCContents == {Plain, Rich}

(* A merge meets exports, a review meets saves and changes of the world;   *)
(* the two do not meet each other.                                         *)
OneConcern ==
    \/ counts.merges = 0 /\ (imported = {} \/ reviews = <<>>)
    \/ /\ reviews = <<>> /\ restoring = Idle /\ imported = {}
       /\ world.episode = 1 /\ counts.crashes = 0
       /\ \A id \in DOMAIN staged : "s" \in DOMAIN staged[id].files.heads

(* Blender runs beside the bridge's imports, not beside a command line's.  *)
OneImporter == generations = <<>> \/ \A r \in DOMAIN registrations : ~registrations[r].console

(* Either the model's file changes, or the source; while the source does,  *)
(* one of the exports is at work, and its end is the end.                  *)
OneArchive ==
    /\ model.changed = 1 \/ (repo.last = 1 /\ ~repo.others /\ \A e \in Exports : export[e].step = "idle")
    /\ \/ repo.last = 1 /\ ~repo.others
       \/ /\ Cardinality({e \in Exports : export[e].step # "idle"}) <= 1
          /\ \A e \in Exports : export[e].step \notin {"failed", "done"}
    /\ print.step = "idle" \/ \A e \in Exports : export[e].step = "idle"

MCInit ==
    /\ AssetInit /\ BundleInit /\ SourceInit /\ part \in {"assets", "bundles", "source"}
    /\ part # "bundles" => world.content = Plain

Assets(A) == part = "assets" /\ A /\ UNCHANGED <<bundleVars, sourceVars, part>>
Bundles(A) == part = "bundles" /\ A /\ UNCHANGED <<assetVars, sourceVars, part>>
Source(A) == part = "source" /\ A /\ UNCHANGED <<assetVars, bundleVars, part>>

MCNext ==
    \/ Assets(ImportByHand) \/ Assets(RefuseImport) \/ Assets(Launch)
    \/ \E r \in Registering :
          Assets(ImportNext(r)) \/ Assets(FinishRegistration(r)) \/ Assets(KillConsole(r))
    \/ Assets(ImportTimesOut) \/ Assets(TakeExit) \/ Assets(RegisterAsset) \/ Assets(FinishImport)
    \/ \E n \in DOMAIN importer : Assets(CheckDestination(n)) \/ Assets(WriteAsset(n))
    \/ Assets(Generate) \/ Assets(BlenderExits) \/ Assets(EndGeneration)
    \/ Assets(StartExecution) \/ Assets(EndExecution)
    \/ Assets(StartRegistration) \/ Assets(RegisterFromConsole)
    \/ Assets(CrashBridge) \/ Assets(StopStudio) \/ Assets(StartStudio)
    \/ Assets(LockForRestart) \/ Assets(CheckRestart) \/ Assets(RestartBridge)
    \/ Bundles(SaveScene) \/ Bundles(MoveCursor)
    \/ Bundles(MergeStart) \/ Bundles(MergeMesh) \/ Bundles(MergeCatalog) \/ Bundles(MergeDies)
    \/ Bundles(ExportStart) \/ Bundles(ReadScene) \/ Bundles(WritePartial)
    \/ Bundles(ExtendPartial) \/ Bundles(Publish) \/ Bundles(OpFails)
    \/ Bundles(Upload) \/ Bundles(StageByHand) \/ Bundles(ImportIsolated) \/ Bundles(ImportDone)
    \/ Bundles(RestoreAtOnce) \/ Bundles(Preview) \/ Bundles(ReviewExpires)
    \/ Bundles(ConfirmRestore) \/ Bundles(SaveBaseline) \/ Bundles(RestoreReviewed)
    \/ Bundles(WorldChanges) \/ Bundles(CrashWorkbench)
    \/ Source(Develop) \/ Source(SwapArchive) \/ Source(ChangeModel)
    \/ \E e \in Exports :
          \/ Source(BeginExport(e)) \/ Source(CompareTree(e)) \/ Source(ListOthers(e))
          \/ Source(WriteArchive(e)) \/ Source(VerifyPartial(e)) \/ Source(RecheckHead(e))
          \/ Source(RecheckTree(e)) \/ Source(RecheckOthers(e)) \/ Source(PublishArchive(e))
          \/ Source(RemovePartial(e)) \/ Source(KillExport(e))
    \/ \E r \in Restores : Source(ReadArchive(r)) \/ Source(Unpack(r)) \/ Source(WriteReceipt(r))
    \/ Source(BeginFingerprint) \/ Source(ReadPart) \/ Source(EndFingerprint)

MCSpec == MCInit /\ [][MCNext]_<<assetVars, bundleVars, sourceVars, part>>
=============================================================================
