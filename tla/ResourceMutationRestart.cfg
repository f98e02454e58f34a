CONSTANTS
    Runs = {r1, r2}
    Calls = {c1, c2}
    Files = {f1, f2}
    MaxWrites = 1
    MaxCrashes = 2
    MaxFaults = 1
    NoRun = NoRun
    NoCall = NoCall
    NoSnapshot = NoSnapshot
SPECIFICATION Spec
SYMMETRY Symmetry
PROPERTIES
    RecoveryResolves
CHECK_DEADLOCK FALSE
