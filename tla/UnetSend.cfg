SPECIFICATION FairSpec
CONSTANTS
  StreamLen = 3
  MSS = 2
  Attempts = 2
  AttemptMs = 2
  FinAttempts = 2
  Slices = {0, 1, 3}
  SendsAgain = FALSE
  TakesPart = {TRUE, FALSE}
  WireMax = 2
  AckMax = 1
INVARIANTS TypeOK PeerGetsPrefix ProgressExact AbortHitsPeer
PROPERTIES ImplementsStream CallsEnd
