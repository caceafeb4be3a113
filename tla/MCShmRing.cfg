SPECIFICATION FairSpec
CONSTANTS
    NumReaders = 2
    MaxChunks = 2
    NumMessages = 3
    Big = {2}
    Timed = {2}
    SlowSocket = FALSE
    Stoppable = {2}
    CrashAt = {"idle", "reset"}
CHECK_DEADLOCK FALSE
INVARIANTS
    ReadersSeeWholeChunks
PROPERTIES
    ImplementsBroadcast
    EveryMessageArrives
    ShutdownEndsReader
