CONSTANTS
    Adversaries = {a1}
    Obstacles = {o1}
    Scenery = {t1}
    MaxFrames = 2
    MaxStamps = 2
    Capacity = 1
    Quota = 3
    MaxSamples = 2
    MaxExecutions = 2
    MaxRequests = 2
    MaxJobs = 2
    MaxDirectories = 2
SPECIFICATION MCSpec
CONSTRAINTS
    FewDirectories
    OneMatter
INVARIANTS
    DrivingIsTrue
    EvidenceIsTrue
    QuotaHolds
    RecordingsAreTrue
CHECK_DEADLOCK FALSE
