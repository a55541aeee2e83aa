CONSTANTS
    Runs = {"a", "b"}
    Group <- MCGroup
    Side <- MCSide
    Indexes <- MCIndexes
    Recorded <- MCRecorded
    Mentionable = {"a"}
    Reviewed <- MCReviewed
    Procs = {p, q}
    MaxRevisions = 1
    MaxReferences = 1
    MaxSplits = 1
    MaxCrashes = 1
    MaxScans = 3
    MaxVersions = 3
    MaxLost = 2
    Cameras = {"front", "rear"}
    KeepNewest = 2
    MaxWorkers = 2
    MaxShown = 3
SYMMETRY MCProcs
SPECIFICATION MCSpec
INVARIANTS
    RegisteredSplitIsBacked
    PreviewsAreTrue
PROPERTIES
    RecordsAreReviewed
    AuditIsEvidence
CHECK_DEADLOCK FALSE
