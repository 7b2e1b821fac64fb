SPECIFICATION FairSpec
CONSTANTS
    Cases = {c1}
    Scenarios = {s1, s2}
    Graders = {g1, g2}
    RateNum = 1
    RateDen = 2
    RequireFullCoverage = FALSE
    BlockOnWarnings = FALSE
    Faults <- EveryFault
    MaxFaults = 1
    MaxEdits = 1
INVARIANTS
    TypeOK
    SentOncePerCrash
    CountsAddUp
    GreenIsEarned
PROPERTIES
    SettledStaysSettled
    EveryRunEnds
CHECK_DEADLOCK FALSE
