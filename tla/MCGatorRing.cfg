\* A ring of four bytes, texts of one and two bytes with and without slack, one
\* restart of capturing, a connection that may go away.
SPECIFICATION FairSpec
CONSTANTS
  SIZE = 4
  Messages <- Texts
  MaxBatch = 1
  MayFail = TRUE
  MaxMade = 7
  MaxStarts = 1
INVARIANTS
  StreamUnbroken
PROPERTIES
  RingIsFifo
  StopsOnlyAtSeam
  AnnotationReturns
CHECK_DEADLOCK FALSE
