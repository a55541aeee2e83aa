CONSTANTS
  r1 = r1
  r2 = r2
  r3 = r3
  r4 = r4
  Runs <- MCRuns
  Tags <- MCTags
  NoTag = NoTag
  NoRun = NoRun
  NumJobs = 2
  MaxAttempts = 2
  Sizes <- MCSizes
  MAX_JOBS = 256
  Durations = {1, 2}
  MaxBatchRuns = 3
SYMMETRY MCSymmetry
SPECIFICATION MCSpec
INVARIANTS
    NoWriteRefused
    SettledMatchesJournal
    ReportIsTrue
PROPERTIES
    HistoryKept
CHECK_DEADLOCK FALSE
