SPECIFICATION Spec
CONSTANTS
  s1 = s1
  r1 = r1
  c1 = c1
  c2 = c2
  o1 = o1
  o2 = o2
  o3 = o3
  None = None
  Sessions <- MCSessions
  Routines <- MCRoutines
  Clients <- MCClients
  Owners <- MCOwners
  Capacity = 1
INVARIANTS
  EverySessionOneOwner
SYMMETRY MCSymmetry
CHECK_DEADLOCK FALSE
