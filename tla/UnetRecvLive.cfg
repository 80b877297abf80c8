SPECIFICATION FairSpec
CONSTANTS
  StreamLen = 2
  MaxSeg = 2
  PendSize = 1
  WinCap = 2
  CallSizes = {1}
  DeferBit = 2
  Sends = FALSE
  PeerResets = FALSE
  DebtMayWrap = FALSE
  WireMax = 1
  AckMax = 1
PROPERTIES
  StreamDelivered
