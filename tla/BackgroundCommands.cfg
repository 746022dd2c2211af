SPECIFICATION Spec
CONSTANTS
  s1 = s1
  s2 = s2
  c1 = c1
  c2 = c2
  c3 = c3
  Sessions <- MCSessions
  Commands <- MCCommands
  Owner <- MCOwner
  Limit = 2
INVARIANTS
  NoticeOrResult
  ResultReachable
  NoOrphan
PROPERTIES
  CallsReturn
CHECK_DEADLOCK FALSE
