SPECIFICATION Spec
CONSTANTS
  StreamLen = 3
  MaxSeg = 2
  PendSize = 2
  WinCap = 2
  CallSizes = {1}
  DeferBit = 4
  Sends = TRUE
  PeerResets = TRUE
  DebtMayWrap = FALSE
  WireMax = 1
  AckMax = 1
INVARIANTS
  TypeOK
  SavedInOrder
  AckedIsSaved
  ClosedAfterData
  NoDebtMeansAcked
  FreedSpaceAnnounced
PROPERTIES
  LossOnlyOnFailure
