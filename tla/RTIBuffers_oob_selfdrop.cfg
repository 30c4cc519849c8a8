CONSTANTS
  NodeId = 1
  Senders = {1, 2}
  LinkSizes = {40, 120}
  OOBSizes = {48}
  MaxInFlight = 2
  MaxBlocks = 3

INIT Init
NEXT Next

INVARIANT HeapIntegrity
