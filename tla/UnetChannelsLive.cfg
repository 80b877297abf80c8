SPECIFICATION FairSpec
CONSTANTS
  MaxConns = 2
  RingMax = 1
  Budget = 1
  Room = 1
  Calls <- Clients
  RstFrom <- NoRst
  BusyResolver = TRUE
PROPERTIES
  CallsReturn
  DatagramServed
