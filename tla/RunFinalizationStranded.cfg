CONSTANTS
    Streams = {s1, s2}
    Workstreams = {w1, w2}
    MaxRuns = 2
    MaxCrashes = 1
    MaxFaults = 1
    FaultPoints = {"journal"}
    RecoveryMayFail = FALSE
    NoRun = NoRun
    NoStream = NoStream
    NoWorkstream = NoWorkstream
SPECIFICATION Spec
PROPERTIES
    JournalsFinish
CHECK_DEADLOCK FALSE
