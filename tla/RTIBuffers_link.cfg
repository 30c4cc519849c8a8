CONSTANTS
  NodeId = 1
  Senders = {1, 2}
  LinkSizes = {40, 120}
  OOBSizes = {}
  MaxInFlight = 3
  MaxBlocks = 3

INIT Init
NEXT Next

INVARIANT TypeOK
INVARIANT HeapIntegrity
INVARIANT NoBufferAliasing
