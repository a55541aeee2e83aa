CONSTANTS
    MaxPose = 2
    Tolerance = 1
    Limit = 2
    MaxMoves = 3
    Slots = {"environment", "actor"}
    Textures = {"original", "brick"}
    MaxTransitions = 1
    MaxEdits = 2
    MaxRestores = 1
    MaxMixed = 2
    Places <- MCPlaces
    MaxEpisodes = 2
    MaxOperations = 4
    Pages = {p1}
    Lease = 1
    MaxTime = 3
    MaxDrives = 2
    Reviewers = {r1, r2}
    Settings = {1, 2}
    MaxDepth = 2
    MaxAsked = 3
    MaxRuns = 2
    MaxTouched = 1
    Every = 2
    LastFrame = 8
    MaxCommands = 1
    MaxCollisions = 1
SPECIFICATION MCSpec
CONSTRAINT OperationBudget
INVARIANTS
    DeadManHolds
    TimelineIsTrue
    ReviewedPlanIsRun
PROPERTIES
    RecordIsKept
    ObjectsAreTrue
    SceneHistoryHolds
CHECK_DEADLOCK FALSE
