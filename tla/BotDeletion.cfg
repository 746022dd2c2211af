SPECIFICATION FairSpec
CONSTANTS
  p = p
  a = a
  b = b
  c = c
  r = r
  q = q
  None = None
  Sessions <- MCSessions
  Parent <- MCParent
  Owned = {a, b, c}
  Stored = {p, a}
  Routines = {r, q}
  MaxFaults = 2
  MaxCrashes = 2
INVARIANTS
  DeletedIsWhole
PROPERTIES
  DeletionFinishes
CHECK_DEADLOCK FALSE
