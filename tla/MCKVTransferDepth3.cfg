SPECIFICATION BothSpec
CONSTANTS
    Req = {r1, r2}
    Worker = {w1}
    BatchQueueSize = 3
    Recompute = TRUE
CHECK_DEADLOCK FALSE
INVARIANT BlocksHeldWhileTransferring
