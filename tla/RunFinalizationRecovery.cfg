CONSTANTS
    Streams = {s1}
    Workstreams = {w1, w2}
    MaxRuns = 3
    MaxCrashes = 3
    MaxFaults = 1
    FaultPoints = {"journal", "written", "committed"}
    RecoveryMayFail = FALSE
    NoRun = NoRun
    NoStream = NoStream
    NoWorkstream = NoWorkstream
SPECIFICATION Spec
SYMMETRY Symmetry
INVARIANTS
    NeverRecoveryRequired
PROPERTIES
    RecoveryResolves
    JournalsFinish
CHECK_DEADLOCK FALSE
