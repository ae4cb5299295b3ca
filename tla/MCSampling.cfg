\* Perf: one frame and two scopes, over two sessions; one slot for sums to begin with.
\* Recording: two sessions of two frames, two summaries.
SPECIFICATION MCSpec
CONSTANTS
  Configs <- MCConfigs
  Scopes <- MCScopes
  InitialScopes = 1
  Modulus = 4
  MaxTicks = 2
  MaxFrames = 1
  MaxSessions = 2
  MaxScopes = 2
  Subjects = {"rusage", "procfs", "cpufreq"}
  Frequencies <- MCFrequencies
  CustomHeaders <- MCHeaders
  MaxElapsed = 2
  MaxStarts = 2
  MaxRecorded = 2
  MaxSummaries = 2
INVARIANTS
  ScopeSumsExact
  FramesAccountForTicks
  CountersOffBetweenSessions
  ExitsOnlyOnIgnoredStart
  ResultsAligned
  DifferencesAddUp
PROPERTIES
  FrequencySinceLastSample
CHECK_DEADLOCK FALSE
