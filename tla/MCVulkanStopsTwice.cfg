SPECIFICATION Spec
CONSTANTS
  d1 = d1
  d2 = d2
  q1 = q1
  q2 = q2
  Null = Null
  Devices = {d1}
  Queues = {q1}
  start_frame = 0
  end_frame = 2
  num_subframes_per_frame = 1
  Threaded = TRUE
  MaxContexts = 1
  MaxTriggers = 5
INVARIANT AppRunsAsNormal
CHECK_DEADLOCK FALSE
