SPECIFICATION Spec
CONSTANTS
  SIZE = 4
  Messages <- Images
  MaxBatch = 1
  MayFail = FALSE
  MaxMade = 6
  MaxStarts = 0
INVARIANT StreamUnbroken
CHECK_DEADLOCK FALSE
