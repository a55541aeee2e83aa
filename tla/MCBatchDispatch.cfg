CONSTANTS
  r1 = r1
  r2 = r2
  bridge = bridge
  cli = cli
  Runs <- MCRuns
  Tags <- MCTags
  NoTag = NoTag
  NoRun = NoRun
  NumJobs = 2
  MaxAttempts = 2
  Clients = {bridge, cli}
  InBridge = {bridge}
SYMMETRY MCSymmetry
SPECIFICATION DispatchSpec
INVARIANTS
    OneRunPerAttempt
    CompletedMeansAll
PROPERTIES
    ImplementsQueue
CHECK_DEADLOCK FALSE
