SPECIFICATION Spec
CONSTANTS
  m1 = m1
  m2 = m2
  k1 = k1
  k2 = k2
  Messages <- MCMessages
  Calls = {}
  Guarded = {}
  Interruptible = {}
  IdleEnabled = TRUE
  InboxCapacity = 2
  MaxPending = 2
  MaxModelSteps = 2
  RetryLimit = 1
  MaxTurns = 4
  MaxSends = 2
  MaxCrashes = 1
  MaxFaults = 2
INVARIANTS
  ExactlyOnce
  SteersHaveTheirTurn
  AckedDurable
  TurnEvents
  QuiescentIsDurable
PROPERTIES
  DeliveryRefined
SYMMETRY MessageSymmetry
CHECK_DEADLOCK FALSE
