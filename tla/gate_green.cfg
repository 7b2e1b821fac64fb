SPECIFICATION Spec
CONSTANTS
    Cases = {c1}
    Scenarios = {s1}
    Graders = {g1, g2}
    RateNum = 1
    RateDen = 2
    RequireFullCoverage = FALSE
    BlockOnWarnings = FALSE
    Faults <- NoFaults
    MaxFaults = 0
    MaxEdits = 1
INVARIANTS
    UnrunnableIsNeverGreen
CHECK_DEADLOCK FALSE
