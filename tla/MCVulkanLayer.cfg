\* Two devices and queues, handles used again, a window of two subframes a frame.
SPECIFICATION Spec
CONSTANTS
  d1 = d1
  d2 = d2
  q1 = q1
  q2 = q2
  Null = Null
  Devices = {d1, d2}
  Queues = {q1, q2}
  start_frame = 1
  end_frame = 3
  num_subframes_per_frame = 2
  Threaded = TRUE
  MaxContexts = 3
  MaxTriggers = 10
INVARIANTS
  QueueHasItsContext
  OnlyFirstFrameMissed
  DeletedStopped
CHECK_DEADLOCK FALSE
