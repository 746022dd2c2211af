SPECIFICATION Spec
CONSTANTS
  s1 = s1
  s2 = s2
  k1 = k1
  k2 = k2
  a = a
  b = b
  i1 = i1
  i2 = i2
  None = None
  Sessions <- MCSessions
  Conns <- MCConns
  Items <- MCItems
  Value <- MCValue
  Checkpoints <- MCCheckpoints
  MaxWrites = 4
INVARIANTS
  LoadedIsSaved
  HintsAreTrue
PROPERTIES
  StoreRefined
SYMMETRY ConnSymmetry
CHECK_DEADLOCK FALSE
