CONSTANTS
    Streams = {s1}
    Workstreams = {w1, w2}
    MaxRuns = 2
    MaxCrashes = 1
    MaxFaults = 1
    FaultPoints = {"journal", "written", "committed", "receipt"}
    RecoveryMayFail = TRUE
    NoRun = NoRun
    NoStream = NoStream
    NoWorkstream = NoWorkstream
SPECIFICATION FairSpec
PROPERTIES
    RecoveryTerminates
    FinalizationTerminates
CHECK_DEADLOCK FALSE
