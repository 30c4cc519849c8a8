CONSTANTS
  f1 = f1
  f2 = f2
  NoHalt = NoHalt
  NoForce = NoForce
  NoReq = NoReq
  Fed <- MC_Fed
  LinkDelay <- MC_LinkDelay
  HaltAt <- MC_HaltAt
  TxTimes = {1}
  LocalDelays = {1, 2}
  MaxTime = 4
  ForcedLA = NoForce
  LargeTime = 6

SPECIFICATION FairSpec

INVARIANT TypeOK
INVARIANT NoStragglerMessage
INVARIANT LocalCausality
INVARIANT NoLostMessage
PROPERTY DrainAgreement
PROPERTY AllTerminate
