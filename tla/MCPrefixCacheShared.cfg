SPECIFICATION Spec
CONSTANTS
    r1 = r1
    r2 = r2
    r3 = r3
    Request = {r1, r2, r3}
    Group <- Full
    NumBlocks = 9
    Prompt <- Prompts
    MaxLen = 6
    OutToken = {1}
    Budget = 6
    Threshold = 0
    MaxRunning = 3
    Abortable = {}
    Policy = "fcfs"
    Rank <- Ranks
    ExtTokens = {0, 2}
    MayFail = TRUE
    Recompute = FALSE
    Depth = 1
CHECK_DEADLOCK FALSE
INVARIANT
    CachedBlocksComputed
