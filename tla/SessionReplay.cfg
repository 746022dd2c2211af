SPECIFICATION Spec
CONSTANTS
  Clients = {c1}
  None = None
  ReplayCapacity = 2
  PageSize = 1
  BroadcastCapacity = 2
  ChannelCapacity = 2
  MaxEvents = 6
  MaxLosses = 2
INVARIANTS
  ClientCaughtUp
CHECK_DEADLOCK FALSE
