SPECIFICATION Spec
CONSTANTS
  m1 = m1
  m2 = m2
  k1 = k1
  k2 = k2
  Messages <- MCMessages
  Calls = {k1, k2}
  Guarded = {k2}
  Interruptible = {k2}
  IdleEnabled = FALSE
  InboxCapacity = 1
  MaxPending = 2
  MaxModelSteps = 2
  RetryLimit = 0
  MaxTurns = 1
  MaxSends = 2
  MaxCrashes = 1
  MaxFaults = 1
INVARIANTS
  EffectAtMostOnce
  EffectOnRecord
  GuardedNeedsApproval
  HistoryWellFormed
SYMMETRY MessageSymmetry
CHECK_DEADLOCK FALSE
