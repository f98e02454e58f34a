CONSTANTS
    Daemon = {d1, d2, d3, d4}
    Pid = {p1, p2, p3, p4}
    NoOwner = NoOwner
    NoPid = NoPid
    ReusePids = TRUE
    OverlapStarts = FALSE
SPECIFICATION Spec
SYMMETRY Symmetry
INVARIANTS
    TypeOK
    ExclusiveWriter
    WriterKeepsLock
    NeverGivesUp
CHECK_DEADLOCK FALSE
