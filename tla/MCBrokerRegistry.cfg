SPECIFICATION FairSpec
CONSTANTS
    Brokers = {b1, b2}
    Clients = {c1}
    Sandboxed = {c1}
    None = None
    Garbage = Garbage
    MaxForeign = 2
INVARIANTS EntryNamesOwner GuardHolds
PROPERTIES RegisteredAgain
CHECK_DEADLOCK FALSE
