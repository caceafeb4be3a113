CONSTANTS
    CapacityBundles = 3
    LatentPerBundle = 2
    NopePages = 2
    PePages = 1
SPECIFICATION Spec
INVARIANTS
    TypeOK
    FreeListExact
    OwnedIffReferenced
    NoAliasing
PROPERTIES
    ImplementsBundlePool
