------------------------------ MODULE Recording -------------------------------
(***************************************************************************)
(* What a Collection without threads records, over several sessions with   *)
(* summaries and custom columns: Collection::start, collect, summarize,    *)
(* stop, results and writeCSV (interface.cpp), CollectorValueList          *)
(* (interface.hpp), and the collectors that remember something between     *)
(* samples: rusage, procfs (a SysfsCollector) and cpufreq.                 *)
(*                                                                         *)
(* Collectors without a thread do not influence each other, so a behaviour *)
(* follows one of them, the subject.  Its columns are filled alike and are *)
(* modelled by one: a time that the process has consumed, or the frequency *)
(* of a core.  Of the frame times only the number matters.                 *)
(***************************************************************************)
EXTENDS Sums, SequencesExt

CONSTANTS
  Subjects,       \* which collectors to follow
  Frequencies,    \* the frequencies of the core, in the order of time_in_state
  CustomHeaders,  \* the lists of custom columns a client may hand to start()
  MaxElapsed,     \* bound: time that passes
  MaxSession,     \* bound: number of start() calls
  MaxFrames,      \* bound: frames not summarized
  MaxSummaries    \* bound: number of summaries

States == DOMAIN Frequencies

VARIABLES
  \* the world: time consumed by the process, time the core spent in each state, the one
  \* it is in, and whether the kernel has the statistics
  consumed, time_in_state, current, hasStats,
  \* the Collection; mTiming and mTimingSummarized are numbers of entries
  subject, inRunning, running, mTiming, mTimingSummarized,
  mCustomHeaders, mCustom, mCustomSummarized,
  \* the subject's column: a CollectorValueList, and whether it has a type
  list, summaries, typed,
  \* the subject's memory: mCollecting and prev of rusage, mFD and mLastSampleTime of
  \* procfs, times of cpufreq
  mCollecting, prev, mFD, mLastSampleTime, times,
  ended,
  \* history: number of start() calls; what the subject saw last, what it had seen when
  \* its list was last emptied, and what procfs saw first; the frequencies since it
  \* looked; whether a sample failed, a summary came before its first sample, or the
  \* custom columns changed after a summary
  session, seen, origin, first, ranAt, gaps, late, renamed

worldVars == <<consumed, time_in_state, current, hasStats>>
frameVars == <<mTiming, mTimingSummarized, mCustomHeaders, mCustom, mCustomSummarized>>
columnVars == <<list, summaries, typed>>
memoryVars == <<mCollecting, prev, mFD, mLastSampleTime, times>>
historyVars == <<session, seen, origin, first, ranAt, gaps, late, renamed>>
vars == <<worldVars, subject, inRunning, running, frameVars, columnVars, memoryVars, ended,
          historyVars>>

Init ==
  /\ subject \in Subjects
  /\ consumed = 0 /\ time_in_state = [k \in States |-> 0] /\ current \in States
  /\ hasStats \in (IF subject = "cpufreq" THEN BOOLEAN ELSE {FALSE})
  /\ inRunning = FALSE /\ running = FALSE
  /\ mTiming = 0 /\ mTimingSummarized = 0
  /\ mCustomHeaders = <<>> /\ mCustom = <<>> /\ mCustomSummarized = <<>>
  /\ list = <<>> /\ summaries = <<>> /\ typed = FALSE
  /\ mCollecting = FALSE /\ prev = 0 /\ mFD = "unopened" /\ mLastSampleTime = 0 /\ times = <<>>
  /\ ended = "no"
  /\ session = 0 /\ seen = 0 /\ origin = 0 /\ first = 0 /\ ranAt = {}
  /\ gaps = FALSE /\ late = FALSE /\ renamed = FALSE

\* CollectorValueList::data.
data == IF summaries # <<>> THEN summaries ELSE list

\* Time passes: the process consumes it, and the core runs in one of its states.
Elapse ==
  /\ ended = "no" /\ consumed < MaxElapsed
  /\ consumed' = consumed + 1
  /\ current' \in States
  /\ time_in_state' = [time_in_state EXCEPT ![current'] = @ + 1]
  /\ ranAt' = ranAt \cup {Frequencies[current']}
  /\ UNCHANGED <<hasStats, subject, inRunning, running, frameVars, columnVars, memoryVars, ended,
                 session, seen, origin, first, gaps, late, renamed>>

-------------------------------------------------------------------------------
(* Collection::initialize, for the subject: available() and init().            *)

\* SysfsCollector::init opens a file once; an attempt that failed is remembered.
Initialize ==
  /\ ended = "no" /\ ~running /\ ~inRunning
  /\ \/ subject = "procfs" /\ mFD = "unopened" /\ mFD' = "open" /\ inRunning' = TRUE
     \/ subject = "procfs" /\ mFD = "unopened" /\ mFD' = "failed" /\ UNCHANGED inRunning
     \/ subject # "procfs" /\ inRunning' = TRUE /\ UNCHANGED mFD
  /\ UNCHANGED <<worldVars, subject, running, frameVars, columnVars, mCollecting, prev,
                 mLastSampleTime, times, ended, historyVars>>

-------------------------------------------------------------------------------
(* start.                                                                      *)

\* rusage takes its comparison point, unless it collects already or the call fails.
StartRusage ==
  /\ subject = "rusage"
  /\ \/ ~mCollecting /\ mCollecting' = TRUE /\ prev' = consumed /\ seen' = consumed
     \/ UNCHANGED <<mCollecting, prev, seen>>
  /\ UNCHANGED <<times, ranAt>>

\* Collector::start.
StartProcfs ==
  /\ subject = "procfs"
  /\ mCollecting' = TRUE
  /\ UNCHANGED <<prev, times, seen, ranAt>>

\* cpufreq adds the times it reads to those it has; of a core that is offline it reads
\* none.  Only the first that are there will be used.
StartCpufreq ==
  /\ subject = "cpufreq"
  /\ \/ /\ hasStats
        /\ times' = times \o time_in_state
        /\ ranAt' = IF times = <<>> THEN {} ELSE ranAt
     \/ UNCHANGED <<times, ranAt>>
  /\ UNCHANGED <<mCollecting, prev, seen>>

ResizeAnew(columns, n) == [i \in 1..n |-> <<>>]
\* vector::resize keeps what is there.
Resize(columns, n) ==
  [i \in 1..n |-> IF i \in DOMAIN columns THEN columns[i] ELSE <<>>]

\* Collection::start clears the lists, never the summaries.
start ==
  /\ ended = "no" /\ session < MaxSession
  /\ session' = session + 1
  /\ mTiming' = 0
  /\ \E headers \in CustomHeaders :
       /\ mCustomHeaders' = headers
       /\ mCustom' = [i \in DOMAIN headers |-> <<>>]
       /\ mCustomSummarized' = Resize(mCustomSummarized, Len(headers))
       /\ renamed' = (renamed \/ (mTimingSummarized > 0 /\ headers # mCustomHeaders))
  /\ \/ /\ inRunning
        /\ list' = <<>>
        /\ StartRusage \/ StartProcfs \/ StartCpufreq
        /\ origin' = seen'
     \/ ~inRunning /\ UNCHANGED <<list, mCollecting, prev, times, seen, ranAt, origin>>
  /\ running' = TRUE
  /\ UNCHANGED <<worldVars, subject, inRunning, mTimingSummarized, summaries, typed, mFD,
                 mLastSampleTime, ended, first, gaps, late>>

-------------------------------------------------------------------------------
(* collect: a sample of the subject.                                           *)

Add(v) == list' = Append(list, v) /\ typed' = TRUE

\* The sample fails: nothing is added, nothing remembered.
Failed ==
  /\ gaps' = TRUE
  /\ UNCHANGED <<columnVars, mCollecting, prev, mLastSampleTime, times, seen, first, ranAt>>

SampleRusage ==
  /\ subject = "rusage"
  /\ Add(consumed - prev)
  /\ prev' = consumed /\ seen' = consumed
  /\ UNCHANGED <<mFD, mLastSampleTime, times, ended, first, ranAt, gaps>>

FailRusage ==
  /\ subject = "rusage"
  /\ Failed
  /\ UNCHANGED <<mFD, ended>>

\* ProcFSStatCollector::parse: 0 stands for "no sample yet".
LastSampleStale(now) == IF mLastSampleTime = 0 THEN now ELSE mLastSampleTime
LastSample(now) == now
parse ==
  /\ Add(IF mLastSampleTime = 0 THEN 0 ELSE consumed - mLastSampleTime)
  /\ mLastSampleTime' = LastSample(consumed)
  /\ seen' = consumed
  /\ first' = IF first = 0 THEN consumed ELSE first

\* SysfsCollector::collect.  A file that cannot be rewound is opened again.
SampleProcfs ==
  /\ subject = "procfs" /\ mFD = "open"
  /\ parse
  /\ UNCHANGED <<mFD, prev, times, ended, ranAt, gaps>>

\* It cannot be read, it holds something else, or it can be neither rewound nor opened:
\* then it is given up, and the next collect() asserts if the build has assertions.
FailProcfs ==
  /\ subject = "procfs"
  /\ Failed
  /\ \/ mFD = "open" /\ mFD' \in {"open", "failed"} /\ UNCHANGED ended
     \/ mFD = "failed" /\ ended' \in {"no", "assert"} /\ UNCHANGED mFD

\* The average frequency since the last sample, weighted with the times.
Relative == [k \in States |-> time_in_state[k] - times[k]]
Weighted == SumSeq([k \in States |-> Relative[k] * Frequencies[k]])

\* Without any, the previous result; without one, the current frequency, whose file may
\* fail and leave the last frequency that was read from time_in_state.
Reused(read) ==
  IF list # <<>> THEN {Last(data)}
  ELSE {Frequencies[current], IF read THEN Last(Frequencies) ELSE 0}

\* cpufreq can read the times.  The vector has one for every state, unless the core was
\* offline at every start().
KeptTimes == times
NewTimes == [k \in DOMAIN times |-> IF k \in States THEN time_in_state[k] ELSE times[k]]
SampleCpufreq ==
  /\ subject = "cpufreq" /\ hasStats /\ Len(times) >= Len(Frequencies)
  /\ \/ Weighted # 0 /\ Add(Weighted \div SumSeq(Relative))
     \/ Weighted = 0 /\ \E v \in Reused(TRUE) : Add(v)
  /\ times' = NewTimes
  /\ ranAt' = {}
  /\ UNCHANGED <<prev, mFD, mLastSampleTime, ended, seen, first, gaps>>

OutsideTimes ==
  /\ subject = "cpufreq" /\ hasStats /\ Len(times) < Len(Frequencies)
  /\ ended' = "outside"
  /\ UNCHANGED <<list, typed, prev, mFD, mLastSampleTime, times, seen, first, ranAt, gaps>>

\* The kernel has no statistics: the current frequency.
SampleCurrent ==
  /\ subject = "cpufreq" /\ ~hasStats
  /\ Add(Frequencies[current])
  /\ ranAt' = {}
  /\ UNCHANGED <<prev, mFD, mLastSampleTime, times, ended, seen, first, gaps>>

\* The core is offline and gives nothing.
SampleOffline ==
  /\ subject = "cpufreq"
  /\ \E v \in Reused(FALSE) : Add(v)
  /\ UNCHANGED <<prev, mFD, mLastSampleTime, times, ended, seen, first, ranAt, gaps>>

Sample ==
  \/ SampleRusage \/ FailRusage
  \/ SampleProcfs \/ FailProcfs
  \/ SampleCpufreq \/ OutsideTimes \/ SampleCurrent \/ SampleOffline

\* A frame: its time, a sample of the subject, and a value for every custom column.
collect ==
  /\ ended = "no" /\ running /\ mTiming < MaxFrames
  /\ mTiming' = mTiming + 1
  /\ mCustom' = [i \in DOMAIN mCustom |-> Append(mCustom[i], mCustomHeaders[i])]
  /\ \/ inRunning /\ Sample
     \/ ~inRunning /\ UNCHANGED <<list, typed, prev, mFD, mLastSampleTime, times, ended, seen,
                                  first, ranAt, gaps>>
  /\ UNCHANGED <<worldVars, subject, inRunning, running, mTimingSummarized, mCustomHeaders,
                 mCustomSummarized, summaries, mCollecting, session, origin, late, renamed>>

-------------------------------------------------------------------------------
(* summarize, stop, results and writeCSV.                                      *)

\* An average of nothing divides by 0, which gives 0 where it does not trap.
Average(s) == IF s = <<>> THEN 0 ELSE SumSeq(s) \div Len(s)

\* CollectorValueList::summarize, and the same for the frame times and custom columns.
summarize ==
  /\ ended = "no" /\ mTimingSummarized < MaxSummaries
  /\ \/ /\ typed /\ summaries' = Append(summaries, Average(list))
        /\ list' = <<>> /\ origin' = seen
        /\ UNCHANGED late
     \/ ~typed /\ late' = TRUE /\ UNCHANGED <<list, summaries, origin>>
  /\ mTimingSummarized' = mTimingSummarized + 1 /\ mTiming' = 0
  /\ mCustomSummarized' = [i \in DOMAIN mCustom |-> Append(mCustomSummarized[i], mCustomHeaders[i])]
  /\ mCustom' = [i \in DOMAIN mCustom |-> <<>>]
  /\ UNCHANGED <<worldVars, subject, inRunning, running, mCustomHeaders, typed, memoryVars, ended,
                 session, seen, first, ranAt, gaps, renamed>>

\* On x86 the division traps, of the subject's values or of the frame times that come next.
SummarizeTraps ==
  /\ ended = "no"
  /\ (typed /\ list = <<>>) \/ mTiming = 0
  /\ ended' = "div_by_zero"
  /\ UNCHANGED <<worldVars, subject, inRunning, running, frameVars, columnVars, memoryVars,
                 historyVars>>

\* Collection::stop calls Collector::stop.
stop ==
  /\ ended = "no" /\ running
  /\ running' = FALSE
  /\ mCollecting' = IF inRunning THEN FALSE ELSE mCollecting
  /\ UNCHANGED <<worldVars, subject, inRunning, frameVars, columnVars, prev, mFD,
                 mLastSampleTime, times, ended, historyVars>>

Next == Elapse \/ Initialize \/ start \/ collect \/ summarize \/ SummarizeTraps \/ stop

Spec == Init /\ [][Next]_vars

\* Collection::results: the arrays for the frame times, the subject and a custom column.
ResultTiming == IF mTimingSummarized > 0 THEN mTimingSummarized ELSE mTiming
ResultColumn == IF inRunning /\ typed THEN {data} ELSE {}
ResultCustom(i) == IF mCustomSummarized[i] # <<>> THEN mCustomSummarized[i] ELSE mCustom[i]

\* Collection::writeCSV: the number of rows.
CsvRows == IF inRunning THEN Len(list) ELSE 0

-------------------------------------------------------------------------------
\* Without a failed sample, the rows writeCSV() goes through exist in every column, and the
\* arrays of results() have one entry for each frame time and hold the values of their own
\* column (test.cpp asserts lengths for one session), over any number of sessions and
\* summaries; provided no summary came before the first sample of the subject, and no start()
\* after a summary brought other custom columns: those of before are never cleared.  A summary
\* divides by 0 only if there was no frame since the last start() or summary.
ResultsAligned ==
  (ended \in {"no", "div_by_zero"} /\ ~gaps) =>
     /\ ended = "div_by_zero" => mTiming = 0
     /\ CsvRows > 0 => CsvRows = mTiming
     /\ \A i \in DOMAIN mCustom : Len(mCustom[i]) = mTiming
     /\ (~late /\ ~renamed) =>
          /\ \A column \in ResultColumn : Len(column) = ResultTiming
          /\ \A i \in DOMAIN mCustomHeaders :
               ResultCustom(i) = [n \in 1..ResultTiming |-> mCustomHeaders[i]]

\* The times recorded since a list was emptied add up to what the process consumed between
\* the sample before and the last one, whatever samples and start() calls failed between:
\* none is lost or counted twice.  The one before is that of start() for rusage; for procfs
\* it is the last of the session before or, in the first, the first that was not 0.
DifferencesAddUp ==
  (ended = "no" /\ inRunning) =>
     /\ subject = "rusage" => SumSeq(list) = seen - origin
     /\ subject = "procfs" => SumSeq(list) = seen - (IF origin = 0 THEN first ELSE origin)

\* If the core has run since cpufreq last looked and it can be read, the frequency recorded
\* is one between the lowest and the highest it has run at since (cpufreq.cpp:85 "want value
\* relative to last sampling point"); what it ran at before does not count.  In a session
\* after the first, that includes the time since the session before.
FrequencySinceLastSample ==
  [][(subject = "cpufreq" /\ Len(list') > Len(list) /\ ranAt # {} /\ ranAt' = {}) =>
       Last(list') \in Min(ranAt)..Max(ranAt)]_vars
===============================================================================
