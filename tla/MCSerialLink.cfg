SPECIFICATION FairSpec
CONSTANTS
    Reader = reader
    Writers = {w1}
    Handles = {h1, h2, h3, h4}
    None = None
    Exclusive = FALSE
    MaxUnplugs = 2
INVARIANTS NoHandleLeaks EachChangeAnnounced
PROPERTIES Reconnects
CHECK_DEADLOCK FALSE
