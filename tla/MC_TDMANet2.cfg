CONSTANTS
    Node <- MCNode
    AssignedNet <- MCAssignedNet
    Link <- MCLink
    MaxSlotNum = 200
    NodeSeed <- MCNodeSeed
    SeedDraws <- MCSeedDraws
    WaitDraws = {1, 2}
    Hash <- MCHash
    AppType <- MCAppType
    NewTypes = {2}
    GarbageFlags = {FALSE}
    GarbageCounts = {0}
    Lossy = FALSE
    NetUpdates = TRUE
    StartSlots = {1}
    UpdateFrames = {1}
    NetUpdateSlots = {1, 2}
    Saturated = TRUE
CONSTRAINT MCBound
SPECIFICATION Spec
INVARIANTS TypeOK NotOwnNeighbour
PROPERTIES NoDataOverwrite
