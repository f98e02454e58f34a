CONSTANTS
    Streams = {s1, s2}
    Workstreams = {w1, w2}
    MaxRuns = 3
    MaxCrashes = 1
    MaxFaults = 1
    FaultPoints = {"journal", "written", "committed", "receipt"}
    RecoveryMayFail = TRUE
    NoRun = NoRun
    NoStream = NoStream
    NoWorkstream = NoWorkstream
SPECIFICATION Spec
SYMMETRY Symmetry
INVARIANTS
    TypeOK
    CommitsAreJournaled
    OneCommitPerRun
    TerminalIsCommitted
    AckedIsTerminal
    SqliteFollowsGit
    RequestsMatchGit
    PlanIsCurrent
PROPERTIES
    RunsAreFinal
    AtomicSpec
CHECK_DEADLOCK FALSE
