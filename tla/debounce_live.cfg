SPECIFICATION FairSpec
CONSTANTS
    b1 = b1
    b2 = b2
    t1 = t1
    t2 = t2
    Batches = {b1, b2}
    Traces = {t1}
    Thread = Thread
    TracesOf <- OneTrace
    Selected <- OnceWhole
    Slots = {r1, r2}
    NoTarget = NoTarget
    Faults <- EveryFault
    MaxFaults = 1
    IngestRetries = 1
    EvalRetries = 1
PROPERTIES
    EveryBatchGraded
CHECK_DEADLOCK FALSE
