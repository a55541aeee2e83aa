CONSTANTS
    Kinds = {"rig", "rule", "native"}
    MaxRuns = 2
    MaxEpisodes = 2
    MaxMishaps = 1
    MaxRequests = 1
SPECIFICATION FairControl
INVARIANTS WorldIsGivenBack EditsAreAccounted
PROPERTIES SceneIsKept RunSettles
CHECK_DEADLOCK FALSE
