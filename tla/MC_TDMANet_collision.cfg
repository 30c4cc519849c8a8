CONSTANTS
    Node <- MCNode
    Nets = {1}
    AssignedNet <- MCAssignedNet
    Link <- MCLink
    MaxSlotNum = 120
    NodeSeed <- MCNodeSeed
    VSlotDraws <- MCVSlotDraws
    Hash <- MCHash
    AppTypes = {2, 3}
    Founders = {65}
    GarbageId = 0
    GarbageType = 3
    GarbageFlags = {FALSE}
    Lossy = FALSE
    Saturated = TRUE
SPECIFICATION Spec
INVARIANT NoCollision
