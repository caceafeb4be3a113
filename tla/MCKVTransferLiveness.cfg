SPECIFICATION BothSpec
CONSTANTS
    w1 = w1
    w2 = w2
    r2 = r2
    Req = {r1, r2}
    Worker = {w1}
    BatchQueueSize = 1
    Recompute = TRUE
CHECK_DEADLOCK FALSE
PROPERTIES
    FinishedEventuallyFreed
    LoadsEventuallyReported
