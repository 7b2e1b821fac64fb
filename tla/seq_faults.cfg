SPECIFICATION Spec
CONSTANTS
    t1 = t1
    t2 = t2
    t3 = t3
    relevance = relevance
    faithful = faithful
    Turns = {t1, t2}
    Metrics = {relevance}
    RunLevel = {relevance}
    Sampled <- SampleAll
    Passes = {p1, p2}
    Faults <- EveryFault
    MaxFaults = 2
    MaxFull = 1
    NoTurn = NoTurn
    Free = Free
    Orphaned = Orphaned
INVARIANTS
    TypeOK
    OneWriter
    PayloadFromRecordedTurn
    NoTurnRecordedUngraded
    PassInv
    RepeatsBoundedByFaults
PROPERTIES
    ReleasesOnlyItsOwn
SYMMETRY Symmetric
CHECK_DEADLOCK FALSE
