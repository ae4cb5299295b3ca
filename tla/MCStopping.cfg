\* Ferret: two processes, failures, quick exits.  Collection: two sessions of a required
\* threaded collector and one the client may thread, one frame, no summaries.
SPECIFICATION MCSpec
CONSTANTS
  a = a
  b = b
  mProcessNames = {a, b}
  MayFail = TRUE
  MaxPipe = 4
  p = p
  n = n
  mCollectors <- Registered
  Keys <- OneKey
  Precision = 4
  JsonThreaded = {p}
  JsonRequired = {p}
  JsonMembers <- Configured
  Requests <- AskMixed
  ClientThreaded = {n}
  EnablePerapi = FALSE
  FrameTimes = {0, 1}
  MaxSession = 2
  MaxFrames = 1
  MaxSamples = 1
  MaxSummaries = 0
INVARIANTS
  SuccessMeansAllGone
  CollectsOnlyWhenStarted
PROPERTIES
  OpenedExitNoticed
  WaitBounded
  StopReturns
CHECK_DEADLOCK FALSE
