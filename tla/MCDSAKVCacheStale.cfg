SPECIFICATION AllSpec
CONSTANTS
    Req = {1, 2}
    Capacity = 6
    BlockSize = 2
    LatentPerBundle = 2
    IndexerPerBundle = 3
    Scratch = 2
    Window = 4
    PromptLen <- MCPromptLen
    MaxTokens = 12
    Lookahead = 1
    Budgets = {3, 16}
    Hits = {8, 9}
    LookupStable = FALSE
CHECK_DEADLOCK FALSE
INVARIANT ComputedRowsResident
