\* Power: two sessions, up to two rows of which one fits into the buffer, one error report.
\* Mali: two attempts, two init() calls and two sessions of two frames; cores with holes.
SPECIFICATION MCSpec
CONSTANTS
  RailCounts = {0, 1}
  BufferRows = 1
  Timings <- MCTimings
  MaxRows = 2
  MaxSession = 2
  MaxErrors = 1
  HwVersions = {4, 5}
  CoreMasks <- MCCores
  Remains <- MCRemains
  MaxTries = 2
  CounterNames <- MCNames
  Within <- MCWithin
  MaxInits = 2
  MaxStarts = 2
  MaxRecorded = 2
INVARIANTS
  InStep
  NothingLeftBehind
  FramesHoldCounters
PROPERTIES
  CallsComeBack
CHECK_DEADLOCK FALSE
