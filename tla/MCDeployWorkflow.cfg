SPECIFICATION FairSpec
CONSTANTS
    c1 = c1
    c2 = c2
    Calls = {c1, c2}
    None = None
    Options <- MCOptions
    Chunks = 2
INVARIANTS ServesOnlyPulls RefusedIsUntouched AppliesOwnFiles TransferFailureIsClean
PROPERTIES CallEnds
CHECK_DEADLOCK FALSE
