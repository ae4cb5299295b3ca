------------------------------ MODULE MCSampling ------------------------------
(* The collectors that count since their last sample, one in each behaviour:     *)
(* Perf, and the Recording of rusage, procfs and cpufreq.  They share nothing,   *)
(* so their state spaces add up.                                                 *)
EXTENDS Perf

CONSTANTS
  Subjects, Frequencies, CustomHeaders, MaxElapsed, MaxStarts, MaxRecorded, MaxSummaries

\* Lists of names of columns; a core has no state in which it stands still.
ASSUME RecordingAssumption ==
  CustomHeaders \subseteq Seq(STRING) /\ Frequencies \in Seq(Nat \ {0})

VARIABLES
  kind,
  consumed, time_in_state, current, hasStats, subject, inRunning, running, mTiming,
  mTimingSummarized, mCustomHeaders, mCustom, mCustomSummarized, list, summaries, typed,
  isCollecting, prev, mFD, mLastSampleTime, times, ended,
  session, seen, origin, first, ranAt, gaps, late, renamed

Recorder == INSTANCE Recording WITH mCollecting <- isCollecting, MaxSession <- MaxStarts,
                                    MaxFrames <- MaxRecorded

recorderVars ==
  <<consumed, time_in_state, current, hasStats, subject, inRunning, running, mTiming,
    mTimingSummarized, mCustomHeaders, mCustom, mCustomSummarized, list, summaries, typed,
    isCollecting, prev, mFD, mLastSampleTime, times, ended,
    session, seen, origin, first, ranAt, gaps, late, renamed>>
allVars == <<kind, vars, recorderVars>>

Item(device, cspmu, booker) ==
  [complete |-> TRUE, lengthFits |-> TRUE, device |-> device, deviceExists |-> TRUE,
   cspmu |-> cspmu, booker_ci |-> booker]
Unusable == {[Item("gone", FALSE, FALSE) EXCEPT !.deviceExists = FALSE],
             [Item("", FALSE, FALSE) EXCEPT !.complete = FALSE]}
Ordinary == {Item("", FALSE, FALSE)} \cup Unusable
Interconnect == {Item("dsu", TRUE, FALSE), Item("", FALSE, TRUE)}

\* Two threads with scopes; one with scopes and one in the background; no thread but
\* counters of the interconnect.
Threaded ==
  [set |-> -1, event |-> Ordinary, perApi |-> TRUE, allThread |-> FALSE,
   comm |-> <<"patrace", "patrace", "other">>]
MCConfigs ==
  {Threaded,
   [set |-> 0, event |-> {}, perApi |-> TRUE, allThread |-> TRUE,
    comm |-> <<"patrace", "mali">>],
   [set |-> -1, event |-> Interconnect, perApi |-> FALSE, allThread |-> TRUE,
    comm |-> <<"other">>]}

MCScopes == {[func |-> 0, flags |-> "REPLAY_THREADS"], [func |-> 1, flags |-> "ALL_THREADS"]}

MCFrequencies == <<2, 5>>
MCHeaders == {<<"score">>, <<"fps">>}

\* The part a behaviour is not about rests in one of its initial states.
MCInit ==
  /\ kind \in {"perf", "recording"}
  /\ Init /\ Recorder!Init
  /\ kind = "recording" => config = Threaded
  /\ kind = "perf" => subject = "rusage" /\ current = 1

PerfStep == kind = "perf" /\ Next /\ UNCHANGED <<kind, recorderVars>>
RecorderStep == kind = "recording" /\ Recorder!Next /\ UNCHANGED <<kind, vars>>

MCNext == PerfStep \/ RecorderStep

MCSpec == MCInit /\ [][MCNext]_allVars

-------------------------------------------------------------------------------
\* The arrays of results() and the rows of writeCSV() fit together (interface.cpp:492, 628):
\* see Recording.
ResultsAligned == Recorder!ResultsAligned
\* Recorded differences add up to what was consumed (rusage.cpp:44, procfs_stat.cpp:60): see
\* Recording.
DifferencesAddUp == Recorder!DifferencesAddUp
\* A recorded frequency is one of the time since the last sample (cpufreq.cpp:85): see
\* Recording.
FrequencySinceLastSample == Recorder!FrequencySinceLastSample
===============================================================================
