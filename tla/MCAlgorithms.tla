----------------------------- MODULE MCAlgorithms -----------------------------
(* The pure algorithms over bounded inputs: the remix of Collector::postprocess, the *)
(* sizes of annotations, and the reading of a ferret trace, which grows sample by    *)
(* sample.  Every behaviour computes one case after another.                         *)
EXTENDS Postprocess, GatorMessages, FerretTrace, FiniteSetsExt

CONSTANTS
  RemixTimes, RemixFrames, RemixSamples,  \* bounds on a session to be remixed
  Ints,                                   \* integers to be packed
  IntSizes, LongSizes,                    \* sizes of packed fields
  Lengths,                                \* bound: lengths of strings
  MaxDeps,                                \* bound: dependencies of a job
  ActivityCounts,                         \* numbers of activities of a counter
  Pids, Finds,                            \* a trace's threads, and how one may be found
  Frequencies,                            \* what the frequencies of a sample may be
  RunBefore,                              \* the jiffies the threads have run before it
  SampleTimes                             \* bound: the times of a trace's samples

\* The length of a session times its samples is at most half of 2^Precision: in the
\* code, 2^52 microseconds times samples, e.g. a million samples in an hour.
ASSUME RemixAssumption ==
  /\ RemixTimes \subseteq Nat /\ RemixFrames \in Nat /\ RemixSamples \in Nat
  /\ \A d \in RemixTimes : RemixFrames * d * RemixSamples <= MinSignificand

\* The number of dependencies is an int32_t; a counter has at most as many
\* activities as fit whatever its fields are (CounterFitsExactly in GatorProofs).
ASSUME AnnotationAssumption ==
  /\ Ints \subseteq Int32 /\ IntSizes \subseteq PackedInt /\ LongSizes \subseteq PackedLong
  /\ Lengths \subseteq Nat /\ MaxDeps \in 0..MAX_INT /\ ActivityCounts \subseteq 0..36

\* A thread was found with the jiffies it ran since, on a CPU of the header, under a name.
\* The clock does not show 0, which FerretProcess takes for no sample.
ASSUME TraceAssumption ==
  /\ CpuNrs \in Seq(Nat) /\ IsFiniteSet(Pids) /\ RunBefore \in Nat
  /\ Finds \subseteq [run : Nat, processor : Cpus, comm : STRING]
  /\ \A freqs \in Frequencies : \A c \in DOMAIN freqs : freqs[c] \in Nat
  /\ SampleTimes \in Seq(Nat \ {0})

-------------------------------------------------------------------------------
Deps == UNION {[1..d -> IntSizes] : d \in 0..MaxDeps}

\* Half[b] is 2^(7*b - 1): b groups of 7 bits hold the integers from -Half[b] to Half[b] - 1.
Half == <<64, 8192, 1048576, 134217728>>

\* Integers on both sides of every change of the packed size.
EdgeInts ==
  {0, -1, MAX_INT, -MAX_INT - 1}
    \cup {s * Half[b] + d : s \in {1, -1}, b \in DOMAIN Half, d \in {-1, 0, 1}}

VARIABLES kind, case

caseVars == <<kind, case>>

Become(k) == kind = "none" /\ kind' = k

\* A session: frame times and the number of samples taken.
Session ==
  /\ Become("session")
  /\ \E n \in 1..RemixFrames, samples \in 1..RemixSamples :
       \E timing \in [1..n -> RemixTimes] :
         case' = [timing |-> timing, samples |-> samples]

Pack ==
  /\ Become("pack")
  /\ \E x \in Ints : case' = [value |-> x, size |-> PackSize(x)]

PlainMessage ==
  /\ Become("message")
  /\ \E t \in LongSizes, i, j, k \in IntSizes, n \in Lengths :
       case' \in {gator_annotate_str(t, i, n), gator_annotate_color(t, i, n),
                  gator_annotate_name_channel(t, i, j, n),
                  gator_annotate_name_group(t, i, n), gator_annotate_visual(t, n),
                  gator_annotate_marker(t, n), gator_annotate_marker_color(t, n),
                  gator_annotate_counter_value(t, i, j, k)}

SwitchMessage ==
  /\ Become("message")
  /\ \E t \in LongSizes, i, j, k, l \in IntSizes :
       case' = gator_annotate_activity_switch(t, i, j, k, l)

CamMessage ==
  /\ Become("message")
  /\ \E i, j, k \in IntSizes, t, u \in LongSizes, n \in Lengths, ints \in Deps :
       case' \in {gator_annotate_write_cam_track(i, j, k, n),
                  gator_cam_job(i, j, k, t, u, i, PackSize(Len(ints)), ints, n),
                  gator_cam_job_start(i, j, k, t, n),
                  gator_cam_job_set_dependencies(i, j, t, k, PackSize(Len(ints)), ints),
                  gator_cam_job_stop(i, j, t), gator_annotate_write_cam_name(i, n)}

CounterMessage ==
  /\ Become("message")
  /\ \E i, j, k \in IntSizes, n, title \in Lengths, count \in ActivityCounts :
       case' = gator_annotate_write_counter(i, j, k, PackSize(count),
                                            [c \in 1..count |-> n], title, n, n, title)

-------------------------------------------------------------------------------
\* Ferret's trace: threads that may get and lose a banned name, and two CPUs, one of
\* which may be unplugged.
Trace_CpuNrs == <<1, 2>>
Trace_SampleTimes == <<1, 2, 202, 203>>
Trace_Frequencies == {<<2, 3>>, 1 :> 2}
Trace_Finds ==
  {[run |-> d, processor |-> 1, comm |-> "app"] : d \in {0, 2}}
    \cup {[run |-> 2, processor |-> 2, comm |-> "app"],
          [run |-> 1, processor |-> 1, comm |-> "banned"]}

\* A sample: the frequencies read, and the threads found.
Sample(time, freqs, found, ustime) ==
  [time |-> time, freqs |-> freqs,
   threads |-> [i \in DOMAIN found |->
                  [type |-> "S", pid |-> i, comm |-> found[i].comm,
                   ustime |-> ustime[i] + found[i].run, processor |-> found[i].processor]]]

\* The rows collect(), collect_freqs() and collect_perproc() write for it.
Rows(s) ==
  <<[type |-> "T", time |-> s.time], [type |-> "F", freqs |-> s.freqs]>>
    \o [n \in 1..Cardinality(DOMAIN s.threads) |-> s.threads[SetToSeq(DOMAIN s.threads)[n]]]

TraceBegin ==
  /\ Become("trace")
  /\ case' = [samples |-> <<>>, ustime |-> [i \in Pids |-> RunBefore], trace |-> Unread]

\* The last sample is never accounted for, so what it finds makes no difference.
TraceSample ==
  /\ kind = "trace" /\ Len(case.samples) < Len(SampleTimes)
  /\ \E freqs \in Frequencies, live \in SUBSET Pids :
       \E found \in [live -> Finds] :
         LET n == Len(case.samples) + 1
             s == Sample(SampleTimes[n], freqs, found, case.ustime)
         IN  /\ n = Len(SampleTimes) => live = {}
             /\ case' = [samples |-> Append(case.samples, s),
                         ustime |-> [i \in Pids |-> IF i \in live THEN s.threads[i].ustime
                                                    ELSE case.ustime[i]],
                         trace |-> FoldLeft(ReadRow, case.trace, Rows(s))]
  /\ UNCHANGED kind

CaseDone == kind # "none" /\ kind' = "none" /\ case' = <<>>

CasesInit == kind = "none" /\ case = <<>>

CasesNext ==
  Session \/ Pack \/ PlainMessage \/ SwitchMessage \/ CamMessage \/ CounterMessage
    \/ TraceBegin \/ TraceSample \/ CaseDone

CasesSpec == CasesInit /\ [][CasesNext]_caseVars

-------------------------------------------------------------------------------
Index(i) == RemixIndex(case.timing, case.samples, i, -1)
Frames == 1..Len(case.timing)

\* If sample j was taken at time j * duration / samples (interface.cpp:59: "fairly
\* uniform"), no frame gets a sample taken after the frame began, every frame gets one
\* at least as late as the last that was taken before it began, and list.at() finds it.
\* A sample taken just when the frame begins may be missed, because the doubles of
\* interface.cpp:84 are rounded (49 equal frames and 49 samples: the second gets sample
\* 0).  The last frame must have a measurable length.
LastSampleBeforeFrame ==
  (kind = "session" /\ case.timing[Len(case.timing)] > 0) =>
     \A i \in Frames :
        LET begin == Elapsed(case.timing)[i - 1] * case.samples
            taken(j) == j * Duration(case.timing)
        IN  /\ Index(i) \in 0..case.samples - 1
            /\ taken(Index(i)) <= begin
            /\ \A j \in 0..case.samples - 1 : taken(j) < begin => j <= Index(i)

\* The size of a packed int is the smallest number of bytes whose 7-bit groups
\* hold the value and its sign, and never more than the reserved maximum.
PackedMinimal(value, size) ==
  LET fits(b) == b \in DOMAIN Half => value >= -Half[b] /\ value < Half[b]
  IN  /\ size \in PackedInt
      /\ fits(size)
      /\ size > 1 => ~fits(size - 1)

\* No annotation writes more than it has reserved, with at most 36 activities in
\* a counter: the ring buffer relies on it, and nothing in the code checks it.  What is
\* reserved for a packed int is enough for any of them, and no int is packed longer or
\* shorter than its value needs.
WrittenFitsReserved ==
  /\ kind = "message" => case.written <= case.reserved
  /\ kind = "pack" => PackedMinimal(case.value, case.size)

\* Those of the first m samples in which thread i was found under a name that is not banned.
SeenIn(samples, m, i) ==
  {k \in 1..m : i \in DOMAIN samples[k].threads
                  /\ samples[k].threads[i].comm \notin BannedThreads}

UsTime(samples, i, k) == samples[k].threads[i].ustime

\* The jiffies thread i has run when sample k found it on CPU c, since it was seen before.
Ran(samples, i, c, k) ==
  IF k \in SeenIn(samples, k, i) /\ SeenIn(samples, k - 1, i) # {}
       /\ samples[k].threads[i].processor = c
  THEN UsTime(samples, i, k) - UsTime(samples, i, Max(SeenIn(samples, k - 1, i)))
  ELSE 0

\* The frequency of a CPU that a sample read.
Freq(samples, c, k) == IF c \in DOMAIN samples[k].freqs THEN samples[k].freqs[c] ELSE 0

RanOn(samples, m, i, c) == SumSeq([k \in 1..m |-> Ran(samples, i, c, k)])
CyclesOn(samples, m, i, c) ==
  SumSeq([k \in 1..m |-> Ran(samples, i, c, k) * Freq(samples, c, k)])

\* The summary of a ferret trace against its samples: it holds exactly the threads that
\* ran between two samples more than a hundredth of the trace apart; all that time is
\* accounted for, on the CPU where it was noticed and at the frequency read there,
\* whatever samples the thread was missing or banned in; and the main thread is one
\* that consumed the most cycles.  (The last sample does not count, see README.)
ThreadsAccounted ==
  LET r == postprocess_ferret_data(case.trace)
      found == r.process_results
      samples == case.samples
      m == Len(samples) - 1
      first(i) == Min(SeenIn(samples, m, i))
      last(i) == Max(SeenIn(samples, m, i))
      lasted(i) == samples[last(i)].time - samples[first(i)].time
      cycles == [n \in DOMAIN found |->
                   SumSeq([k \in DOMAIN CpuNrs |-> found[n].MCyc[CpuNrs[k]]])]
  IN  (kind = "trace" /\ m > 0) =>
        /\ {found[n].pid : n \in DOMAIN found} =
             {i \in Pids : /\ SeenIn(samples, m, i) # {}
                           /\ UsTime(samples, i, last(i)) > UsTime(samples, i, first(i))
                           /\ 100 * lasted(i) > samples[m].time - samples[1].time}
        /\ \A n \in DOMAIN found :
             LET i == found[n].pid
             IN  /\ found[n].duration = lasted(i)
                 /\ found[n].active = [c \in Cpus |-> RanOn(samples, m, i, c)]
                 /\ found[n].MCyc = [c \in Cpus |-> CyclesOn(samples, m, i, c)]
                 /\ cycles[n] <= cycles[r.main_thread_index + 1]
        /\ found # <<>> => r.main_thread_megacycles = cycles[r.main_thread_index + 1]
        /\ r.megacycles_sum = SumSeq(cycles)
===============================================================================
