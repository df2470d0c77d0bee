SPECIFICATION Spec
CONSTANTS
    c1 = c1
    c2 = c2
    Calls = {c1, c2}
    None = None
    Options <- MCOptions
    Chunks = 2
INVARIANTS WaitsForOthers
CHECK_DEADLOCK FALSE
