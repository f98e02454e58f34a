CONSTANTS
    Daemon = {d1, d2, d3}
    Pid = {p1, p2, p3}
    NoOwner = NoOwner
    NoPid = NoPid
    ReusePids = FALSE
    OverlapStarts = TRUE
SPECIFICATION FairSpec
PROPERTIES
    LoneStartOpens
CHECK_DEADLOCK FALSE
