CONSTANTS
    MaxNames = 1
    BundleAssets = 2
    MaxAttempts = 3
    MaxGenerations = 1
    MaxRegistrations = 1
    MaxStarts = 2
    Scenes = {"s"}
    Contents <- MCContents
    Definitions = {1, 2}
    Ids = {1}
    Tokens = {"t"}
    MaxVersions = 2
    MaxMerges = 2
    MaxEpisodes = 2
    MaxCrashes = 1
    Exports = {e1, e2}
    Restores = {r1}
    MaxTrees = 3
SPECIFICATION MCSpec
CONSTRAINTS
    OneConcern
    OneImporter
    OneArchive
INVARIANTS
    ImportsAreTrue
    BundlesAreWhole
PROPERTIES
    RestartFindsNoProcess
    ReviewedRestoreIsSafe
    SourceIsFaithful
CHECK_DEADLOCK FALSE
