SPECIFICATION FairSpec
CONSTANTS
  m1 = m1
  m2 = m2
  k1 = k1
  k2 = k2
  Messages <- MCMessages
  Calls = {k1}
  Guarded = {}
  Interruptible = {k1}
  IdleEnabled = FALSE
  InboxCapacity = 2
  MaxPending = 2
  MaxModelSteps = 2
  RetryLimit = 0
  MaxTurns = 8
  MaxSends = 2
  MaxCrashes = 1
  MaxFaults = 1
PROPERTIES
  EveryTurnEnds
  EveryMessageLeaves
CHECK_DEADLOCK FALSE
