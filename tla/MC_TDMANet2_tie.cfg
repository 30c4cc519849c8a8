CONSTANTS
    Node <- MCNode
    AssignedNet <- MCAssignedNet
    Link <- MCLink
    MaxSlotNum = 200
    NodeSeed <- MCNodeSeed
    SeedDraws <- MCSharedDraws
    WaitDraws = {1, 2}
    Hash <- MCHash
    AppType <- MCAppType
    NewTypes = {2}
    GarbageFlags = {FALSE}
    GarbageCounts = {0}
    Lossy = FALSE
    NetUpdates = FALSE
    StartSlots = {1}
    UpdateFrames = {1}
    NetUpdateSlots = {}
    Saturated = TRUE
CONSTRAINT MCBound
SPECIFICATION Spec
INVARIANT NoCollision
