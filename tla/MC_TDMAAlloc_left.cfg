CONSTANTS
    MaxSlotNum = 400
    SelfId = 65
    SelfTypes = {1}
    NbTables <- MC_NbTables_left
    GarbageIds = {0}
    GarbageTypes = {0}
    GarbageAdj = {0}
SPECIFICATION Spec
INVARIANT NoIndexUnderflow
