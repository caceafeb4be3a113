SPECIFICATION AllSpec
CONSTANTS
    CapacityBundles = 7
    MaxFree = 3
    Owner = {latent, indexer}
    NoOwner = none
    NumBlocks = 4
    Calls <- MCCalls
    Capacity = 2
    Scale = 12
INVARIANTS
    BundleListExact
    BundlesAllocateAgrees
    LinksAgree
    OffloadBlocksConserved
    OffloadTransfersKeepBlocks
    OffloadEventsTellContents
PROPERTIES
    ContiguousWhenPossible
    ImplementsFreeList
