CONSTANTS
  Node <- MCNode
  Link <- MCLink
  TdmaTable <- MCTable
  AppId <- MCAppId
  MaxSlot = 3
  PktSizes = {4, 5}
  SegSize = 5
  IfqLen = 3
  IpHdrLen = 20
  MaxMsgs <- MCMaxMsgs
SPECIFICATION Spec
INVARIANT TypeOK
INVARIANT MessageIntegrity CompleteDelivered DeliveredInOrder NoMacOverwrite
PROPERTY QueueDrains
