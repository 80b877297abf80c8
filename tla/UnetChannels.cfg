SPECIFICATION Spec
CONSTANTS
  MaxConns = 2
  RingMax = 1
  Budget = 1
  Room = 2
  Calls <- AllCalls
  RstFrom <- RstOut
  BusyResolver = FALSE
INVARIANTS
  TypeOK
  ContextFollowsChannel
  SuspendedCanResume
  ListenerRecordSound
  QueuedIsOwn
  CloseIsTheirs
PROPERTIES
  DatagramProtected
