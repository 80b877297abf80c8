SPECIFICATION Spec
CONSTANTS
  MaxConns = 2
  RingMax = 1
  Budget = 1
  Room = 1
  Calls <- AllCalls
  RstFrom <- RstAll
  BusyResolver = FALSE
INVARIANTS
  ContextFollowsChannel
