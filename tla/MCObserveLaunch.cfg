SPECIFICATION FairSpec
CONSTANTS
    Callers = {c1, c2}
    Launches = {l1, l2}
    None = None
    Plain = Plain
    SlowStarts = TRUE
    MaxCrashes = 1
PROPERTIES MarkerIsLaunchers CallEnds
CHECK_DEADLOCK FALSE
