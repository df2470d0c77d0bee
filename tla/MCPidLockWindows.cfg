SPECIFICATION FairSpec
CONSTANTS
    Procs = {p1, p2}
    None = None
    Windows = TRUE
    MaxAttempts = 3
    MaxCrashes = 1
PROPERTIES AcquireReturns ImplementsMutex
