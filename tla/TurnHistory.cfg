SPECIFICATION Spec
CONSTANTS
  Clients = {c1}
  None = None
  ReplayCapacity = 3
  PageSize = 2
  BroadcastCapacity = 1
  ChannelCapacity = 2
  MaxEvents = 6
  MaxLosses = 0
INVARIANTS
  TranscriptIsWhole
CHECK_DEADLOCK FALSE
