SPECIFICATION BothSpec
CONSTANTS
    Req = {r1, r2}
    Worker = {w1, w2}
    BatchQueueSize = 2
    Recompute = TRUE
SYMMETRY Symmetry
CHECK_DEADLOCK FALSE
INVARIANTS
    BlocksHeldWhileTransferring
    AssertionsHold
    FencesExact
    QueuesMatchStatus
