CONSTANTS
    Daemon = {d1, d2}
    Pid = {p1, p2}
    NoOwner = NoOwner
    NoPid = NoPid
    ReusePids = FALSE
    OverlapStarts = TRUE
SPECIFICATION Spec
INVARIANTS
    ExclusiveWriter
CHECK_DEADLOCK FALSE
