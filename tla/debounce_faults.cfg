SPECIFICATION Spec
CONSTANTS
    b1 = b1
    b2 = b2
    t1 = t1
    t2 = t2
    Batches = {b1, b2}
    Traces = {t1, t2}
    Thread = Thread
    TracesOf <- Overlapping
    Selected <- AsRead
    Slots = {r1, r2}
    NoTarget = NoTarget
    Faults <- EveryFault
    MaxFaults = 1
    IngestRetries = 1
    EvalRetries = 1
INVARIANTS
    TypeOK
    Generations
    Covered
    NothingForgotten
    OneSurvivor
SYMMETRY Interchangeable
CHECK_DEADLOCK FALSE
