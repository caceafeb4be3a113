SPECIFICATION AllSpec
CONSTANTS
    r1 = r1
    r2 = r2
    r3 = r3
    Request = {r1, r2, r3}
    Group <- Full
    NumBlocks = 4
    Prompt <- Prompts
    MaxLen = 6
    OutToken = {1}
    Budget = 4
    Threshold = 0
    MaxRunning = 2
    Abortable = {r1, r2}
    Policy = "fcfs"
    Rank <- Ranks
    ExtTokens = {0, 2}
    MayFail = FALSE
    Recompute = TRUE
    Depth = 2
CHECK_DEADLOCK FALSE
INVARIANTS
    PoolNeverFails
    PoolsConsistent
    CacheComputed
    BatchesReadOwn
    TailsEvictedFirst
PROPERTY
    RequestsServed
