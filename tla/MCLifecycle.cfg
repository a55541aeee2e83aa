CONSTANTS
  MaxRuns = 2
  MaxStops = 2
  MaxRestarts = 0
  MaxBadWrites = 0
  Kinds = {"textured", "preset", "rule", "rig", "diagnostic"}
  Environment = {"launch_fails", "restore_fails", "operator_races"}
  Requests = {q1}
  Reviews = {t1, t2}
  Contents = {a, b}
  MaxEpisodes = 3
  MaxCrashes = 1
  MaxFaults = 1
SPECIFICATION MCSpec
INVARIANTS
    StopIsHonoured
    GatesHold
PROPERTIES
    WorldIsLentAndReturned
    ImplementsJournal
    OnlyReviewedWorldIsLost
    HandoffComesToRest
CHECK_DEADLOCK FALSE
