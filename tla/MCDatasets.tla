------------------------------ MODULE MCDatasets ------------------------------
(* Bounds of the registry with the cleaners, of the audits, and of what is *)
(* shown of a run before it is a recording; they share no state: each is   *)
(* run while the others rest.  The registry has two recordings of one      *)
(* scene: "a" is what three of the cleaners remove in favour of "b", which *)
(* the fourth removes.                                                     *)
EXTENDS DatasetRegistry, QualityReports, LivePreviews, TLC

VARIABLE part

MCGroup == [r \in Runs |-> "street"]
MCSide == [g \in {"street"} |-> "train"]
MCIndexes == {<<1, 2>>, <<2, 2>>}
MCReviewed ==
    [k \in Cleaners |-> IF k = "debug" THEN [targets |-> {"b"}, keep |-> {}]
                        ELSE [targets |-> {"a"}, keep |-> {"b"}]]
MCProcs == Permutations(Procs)

Good == [status |-> "saved", index |-> <<1, 2>>, whole |-> TRUE]
MCRecorded ==
    {[r \in Runs |-> Good], [r \in Runs |-> IF r = "a" THEN [Good EXCEPT !.index = <<2, 2>>] ELSE Good],
     [r \in Runs |-> IF r = "b" THEN [Good EXCEPT !.status = "recording"] ELSE Good]}

(* Who looks at what is shown does so alone: the relay, or one page, which *)
(* looks at the telemetry or at the frames.                                *)
Readers == {"relay", "telemetry", "frames"}

MCInit ==
    /\ DatasetInit /\ QualityInit /\ PreviewInit /\ part \in {"registry", "audits"} \cup Readers
    /\ part # "registry" => recs = [r \in Runs |-> Good]
    /\ part # "audits" => content = 0

Registry(A) == part = "registry" /\ A /\ UNCHANGED <<qualityVars, previewVars, part>>
Audits(A) == part = "audits" /\ A /\ UNCHANGED <<datasetVars, previewVars, part>>
Previews(readers, A) ==
    part \in readers /\ A /\ UNCHANGED <<datasetVars, qualityVars, part>>

MCNext ==
    \/ \E p \in Procs :
          \/ Registry(Register(p)) \/ Registry(VerifySplit(p)) \/ Registry(WritePartial(p))
          \/ Registry(PublishSplit(p)) \/ Registry(EndRegistration(p))
          \/ Registry(AskKeep(p)) \/ Registry(SetKeep(p))
          \/ Registry(StartCleaner(p)) \/ Registry(Plan(p)) \/ Registry(LockRow(p))
          \/ Registry(LookAtRow(p)) \/ Registry(LockLooked(p)) \/ Registry(LookAtSplits(p))
          \/ Registry(Remove(p)) \/ Registry(Removed(p)) \/ Registry(EndProcess(p))
          \/ Registry(StartReview(p)) \/ Registry(Scan(p)) \/ Registry(EndReview(p))
    \/ Registry(StudioWorks) \/ Registry(Mention)
    \/ Audits(StartScan) \/ Audits(ArchiveOld) \/ Audits(WritePending) \/ Audits(StartFails)
    \/ Audits(Spawn) \/ Audits(ValidatorEnds) \/ Audits(Publish) \/ Audits(CrashBridge)
    \/ Audits(ChangeContent)
    \/ \E again \in BOOLEAN : Previews(Readers, StartShowing(again))
    \/ Previews(Readers, Launch) \/ Previews(Readers, EndShowing)
    \/ Previews(Readers, BeginFrame) \/ Previews(Readers, NameFrame)
    \/ Previews(Readers, RollWindow) \/ Previews(Readers, SweepFrame)
    \/ Previews(Readers, SweepIdle) \/ Previews({"frames"}, RestartPage)
    \/ Previews({"relay"}, RelayReads)
    \/ Previews({"telemetry"}, PublishEvidence) \/ Previews({"telemetry"}, PageAsks)
    \/ \E c \in Cameras :
          \/ Previews(Readers, WriteImage(c)) \/ Previews({"relay"}, RelayPublishes(c))
          \/ Previews({"telemetry"}, PublishImage(c)) \/ Previews({"telemetry"}, PageLooks(c))
    \/ \E f \in DOMAIN frames, c \in Cameras : Previews({"frames"}, PageWatches(f, c))

MCSpec == MCInit /\ [][MCNext]_<<datasetVars, qualityVars, previewVars, part>>
=============================================================================
