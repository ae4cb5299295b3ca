\* Sessions of up to five frames and 11 samples in doubles of 11 bits, strings of length 0, 1 and 7, traces of four samples.
SPECIFICATION CasesSpec
CONSTANTS
  Precision = 11
  RemixTimes = {0, 1, 2, 5}
  RemixFrames = 5
  RemixSamples = 11
  Ints <- EdgeInts
  IntSizes = {1, 2, 5}
  LongSizes = {1, 9, 10}
  Lengths = {0, 1, 7}
  MaxDeps = 2
  ActivityCounts = {0, 1, 3, 36}
  CpuNrs <- Trace_CpuNrs
  BannedThreads = {"banned"}
  Pids = {1, 2}
  Finds <- Trace_Finds
  Frequencies <- Trace_Frequencies
  RunBefore = 5
  SampleTimes <- Trace_SampleTimes
INVARIANTS
  LastSampleBeforeFrame
  WrittenFitsReserved
  ThreadsAccounted
