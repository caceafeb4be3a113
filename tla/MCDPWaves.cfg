SPECIFICATION FairSpec
CONSTANTS
    DP = 3
    Client = {c1}
    MaxRequests = 2
    Passes <- MCPasses
    MaxUnread = 1
    SyncSteps = 2
    EarlyAborts = FALSE
CHECK_DEADLOCK FALSE
INVARIANTS
    OneWave
    AgreeAtRest
PROPERTIES
    ServedAndPaused
