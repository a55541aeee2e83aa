CONSTANTS
  r1 = r1
  r2 = r2
  bridge = bridge
  cli = cli
  Runs <- MCRuns
  Tags <- MCTags
  NoTag = NoTag
  NoRun = NoRun
  NumJobs = 2
  MaxAttempts = 1
  Clients = {bridge, cli}
  InBridge = {bridge}
SPECIFICATION DispatchLive
PROPERTIES EndedRunIsReconciled
CHECK_DEADLOCK FALSE
