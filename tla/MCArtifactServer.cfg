CONSTANTS
    s1 = s1
    s2 = s2
    Starts = {s1, s2}
    MaxPort = 2
    MaxCrashes = 1
    Modes <- MCModes
    None = None
    Torn = Torn
SPECIFICATION Spec
CHECK_DEADLOCK FALSE
INVARIANTS FailedStartLeavesNoServer AnsweredByOwn ServerIsRegistered
PROPERTIES CallsReturn StoppedIsGone
