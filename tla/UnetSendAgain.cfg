SPECIFICATION Spec
CONSTANTS
  StreamLen = 2
  MSS = 1
  Attempts = 2
  AttemptMs = 2
  FinAttempts = 2
  Slices = {0, 1}
  SendsAgain = TRUE
  TakesPart = {FALSE}
  WireMax = 2
  AckMax = 1
INVARIANT ProgressExact
