SPECIFICATION FairSpec
CONSTANTS
  w1 = w1
  w2 = w2
  s1 = s1
  s2 = s2
  s3 = s3
  d1 = d1
  d2 = d2
  Null = Null
  Writers = {w1, w2}
  Structs = {s1, s2}
  Defs = {}
  Flushers = {w1}
  MayExit = TRUE
  MayFork = TRUE
  MayFail = TRUE
  MayBeShort = FALSE
  MaxCalls = 4
PROPERTIES
  FlushSends
  FlushReturns
  ExitedReclaimed
CHECK_DEADLOCK FALSE
