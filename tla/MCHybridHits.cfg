SPECIFICATION Spec
CONSTANT
    Models <- MCModels
INVARIANTS
    HitIsUsable
    HitIsLongest
    ListsHaveHitLength
    EagleDropsOneBlock
