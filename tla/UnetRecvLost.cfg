SPECIFICATION Spec
CONSTANTS
  StreamLen = 2
  MaxSeg = 2
  PendSize = 2
  WinCap = 3
  CallSizes = {1, 2}
  DeferBit = 4
  Sends = FALSE
  PeerResets = FALSE
  DebtMayWrap = FALSE
  WireMax = 1
  AckMax = 1
INVARIANT
  FailedCallKeepsBytes
