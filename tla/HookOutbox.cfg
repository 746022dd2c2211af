SPECIFICATION Spec
CONSTANTS
  c1 = c1
  r1 = r1
  b1 = b1
  b2 = b2
  b3 = b3
  b4 = b4
  Chats = {c1}
  Routines = {r1}
  Bindings = {b1, b2, b3, b4}
  Watches <- MCWatches
  Acts <- MCActs
  Report = Report
  None = None
  MaxAncestry = 4
  MaxInputs = 2
  MaxTroubles = 2
INVARIANTS
  OncePerRow
  RunningIsHeld
  ClosingFacts
  ChainsEnd
PROPERTIES
  ClosedSourcesAreSilent
CHECK_DEADLOCK FALSE
