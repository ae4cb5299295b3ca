\* Two sessions and a summary of a required threaded collector that records under two keys,
\* together or not, and of one with one key that the client may thread.
SPECIFICATION Spec
CONSTANTS
  p = p
  n = n
  mCollectors <- Registered
  Keys <- TwoKeys
  Precision = 4
  JsonThreaded = {p}
  JsonRequired = {p}
  JsonMembers <- Configured
  Requests <- AskMixed
  ClientThreaded = {n}
  EnablePerapi = FALSE
  FrameTimes = {0, 1}
  MaxSession = 2
  MaxFrames = 2
  MaxSamples = 1
  MaxSummaries = 1
INVARIANTS
  RunningDistinct
  KilledOnlyForCause
  ThrowsOnlyOnEmptyTail
  QuiescentWhenStopped
  FreshLists
PROPERTIES
  NoSampleBegunWhileJoining
  AlignedAtStop
  DroppedOnlyForOldKey
