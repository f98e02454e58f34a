CONSTANTS
    Streams = {s1, s2}
    Workstreams = {w1, w2}
    MaxRuns = 2
    MaxCrashes = 0
    MaxFaults = 0
    FaultPoints = {}
    RecoveryMayFail = FALSE
    NoRun = NoRun
    NoStream = NoStream
    NoWorkstream = NoWorkstream
SPECIFICATION Spec
INVARIANTS
    NeverRecoveryRequired
CHECK_DEADLOCK FALSE
