SPECIFICATION Spec
CONSTANTS
  w1 = w1
  w2 = w2
  s1 = s1
  s2 = s2
  s3 = s3
  d1 = d1
  d2 = d2
  Null = Null
  Writers = {w1, w2}
  Structs = {s1, s2, s3}
  Defs = {d1}
  Flushers = {w1}
  MayExit = TRUE
  MayFork = TRUE
  MayFail = TRUE
  MayBeShort = TRUE
  MaxCalls = 4
SYMMETRY Addresses
INVARIANTS
  OwnedStructsListed
  DefinitionsReachCapture
CHECK_DEADLOCK FALSE
