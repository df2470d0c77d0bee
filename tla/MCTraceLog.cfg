SPECIFICATION TraceSpec
CONSTANTS
    Threads = {t1}
    Case = case
    Follower = follower
    Files = {f1, f2, f3, f4}
    NoFile = NoFile
    Windows = TRUE
    MaxSize = 1
    Keep = 2
    MaxLines = 5
INVARIANTS TraceTypeOK SliceExact FollowerExact FollowerUpToDate
SYMMETRY Symmetry
CHECK_DEADLOCK FALSE
