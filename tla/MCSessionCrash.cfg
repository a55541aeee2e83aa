CONSTANTS
  MaxRuns = 2
  MaxStops = 1
  MaxRestarts = 1
  MaxBadWrites = 1
  Kinds = {"textured", "preset", "rig"}
  Environment = {"launch_fails", "publish_fails", "restore_fails"}
SPECIFICATION FairSpec
PROPERTIES
    RecordedRunIsTrue
    ImplementsGate
    ExitedRunSettles
CHECK_DEADLOCK FALSE
