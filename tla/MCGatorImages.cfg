\* Images, and calls that send definitions again before their own annotation.
SPECIFICATION Spec
CONSTANTS
  SIZE = 4
  Messages <- Images
  MaxBatch = 2
  MayFail = TRUE
  MaxMade = 8
  MaxStarts = 1
INVARIANTS
  ImageLent
CHECK_DEADLOCK FALSE
