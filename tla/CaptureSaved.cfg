CONSTANTS
    Quota = 3
    MaxSamples = 2
    MaxExecutions = 1
    MaxRequests = 1
    MaxJobs = 0
    MaxDirectories = 3
SPECIFICATION CaptureSpec
CONSTRAINT FewDirectories
INVARIANT SavedHasNoTail
CHECK_DEADLOCK FALSE
