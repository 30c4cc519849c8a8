CONSTANTS
    MaxSlotNum = 400
    SelfId = 65
    SelfTypes = {1, 2}
    NbTables <- MC_NbTables
    GarbageIds = {0}
    GarbageTypes = {0}
    GarbageAdj = {0}
SPECIFICATION Spec
INVARIANTS TypeOK ReservationMatchesRate
PROPERTIES AllocReturns
