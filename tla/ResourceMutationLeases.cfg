CONSTANTS
    Runs = {r1, r2}
    Calls = {c1, c2, c3}
    Files = {f1, f2}
    MaxWrites = 2
    MaxCrashes = 1
    MaxFaults = 1
    NoRun = NoRun
    NoCall = NoCall
    NoSnapshot = NoSnapshot
SPECIFICATION Spec
SYMMETRY Symmetry
INVARIANTS
    ExclusiveScopes
    ChangesAreAccounted
    DoubtStopsRun
PROPERTIES
    RecoveryResolves
    LeasesSpec
CHECK_DEADLOCK FALSE
