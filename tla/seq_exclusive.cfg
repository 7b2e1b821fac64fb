SPECIFICATION FairSpec
CONSTANTS
    t1 = t1
    t2 = t2
    t3 = t3
    relevance = relevance
    faithful = faithful
    Turns = {t1, t2, t3}
    Metrics = {relevance, faithful}
    RunLevel = {relevance}
    Sampled <- SampleSome
    Passes = {p1, p2}
    Faults <- NoFaults
    MaxFaults = 0
    MaxFull = 1
    NoTurn = NoTurn
    Free = Free
    Orphaned = Orphaned
INVARIANTS
    TranscriptMatchesRow
PROPERTIES
    ChatIsOrderedConversation
    Converges
CHECK_DEADLOCK FALSE
