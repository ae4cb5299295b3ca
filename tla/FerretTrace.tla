----------------------------- MODULE FerretTrace ------------------------------
(* What postprocess_ferret_data makes of the trace a ferret session has written.    *)
(* A trace is read row by row; a row is a record with a type:                       *)
(*   T  the time of a sample            [type, time]                                *)
(*   F  frequencies that could be read  [type, freqs], a function on CPUs           *)
(*   S  the state of a thread           [type, pid, comm, ustime, processor]        *)
(* and I, E and # rows, which change nothing here: the tick rate only scales the    *)
(* results (the unit is the jiffy, cycles are jiffies times frequency), and the CPUs *)
(* of the header are the constant CpuNrs.  The average frequencies are left out.    *)
EXTENDS Sums, SequencesExt

CONSTANTS
  CpuNrs,         \* the CPUs listed in the header, a sequence
  BannedThreads   \* names of threads that are ignored

NoSample == <<>>
Nothing == [x \in {} |-> 0]

Cpus == Range(CpuNrs)

FerretProcess ==
  [first |-> 0, last |-> 0, jiffies |-> 0, totJiffiesAllCpus |-> 0,
   totJiffies |-> [c \in Cpus |-> 0], mcyc |-> [c \in Cpus |-> 0]]

\* One sample of a thread: the time since its last one goes to the CPU it is on now.
\* A first sample only sets the base; a frequency of 0 is one that is not known.
Added(p, base, ts, njiffies, freq, cpuNr) ==
  LET diffJiffy == njiffies - base
  IN  [first |-> IF p.first = 0 THEN ts ELSE p.first, last |-> ts, jiffies |-> njiffies,
       totJiffiesAllCpus |-> p.totJiffiesAllCpus + diffJiffy,
       totJiffies |-> [p.totJiffies EXCEPT ![cpuNr] = @ + diffJiffy],
       mcyc |-> [p.mcyc EXCEPT ![cpuNr] = @ + diffJiffy * freq]]

\* Mutant: the thread's time before its first sample is counted as well.
addSinceBirth(p, ts, njiffies, freq, cpuNr) ==
  Added(p, p.jiffies, ts, njiffies, freq, cpuNr)

add(p, ts, njiffies, freq, cpuNr) ==
  Added(p, IF p.first = 0 THEN njiffies ELSE p.jiffies, ts, njiffies, freq, cpuNr)

duration(p) == p.last - p.first
active_jiffies(p) == p.totJiffiesAllCpus
MCyc_sum(p) == SumSeq([k \in DOMAIN CpuNrs |-> p.mcyc[CpuNrs[k]]])

\* The map f after the entries of g were written to it.
Assigned(f, g) ==
  [x \in DOMAIN f \cup DOMAIN g |-> IF x \in DOMAIN g THEN g[x] ELSE f[x]]

\* Before the first row.
Unread == [state |-> NoSample, pidHistory |-> Nothing, started |-> FALSE,
           traceStart |-> 0, traceEnd |-> 0]

\* A T row first accounts for the sample before it.  Threads do not affect each other.
SampleDone(t) ==
  LET s == t.state
      pids == {i \in DOMAIN s.pid : s.pid[i].comm \notin BannedThreads}
      freq(c) == IF c \in DOMAIN s.cpu THEN s.cpu[c] ELSE 0
      history(i) == IF i \in DOMAIN t.pidHistory THEN t.pidHistory[i] ELSE FerretProcess
      next(i) == add(history(i), s.time, s.pid[i].ustime,
                     freq(s.pid[i].processor), s.pid[i].processor)
  IN  IF s = NoSample THEN t
      ELSE [state |-> s, pidHistory |-> Assigned(t.pidHistory, [i \in pids |-> next(i)]),
            started |-> TRUE, traceStart |-> IF t.started THEN t.traceStart ELSE s.time,
            traceEnd |-> s.time]

ferret_process_time(t, row) ==
  [t EXCEPT !.state = [time |-> row.time, pid |-> Nothing, cpu |-> Nothing]]

ferret_process_status(t, row) == [t EXCEPT !.state.pid = Assigned(@, [i \in {row.pid} |-> row])]

ferret_process_cpu(t, row) == [t EXCEPT !.state.cpu = row.freqs]

ReadRow(t, row) ==
  CASE row.type = "T" -> ferret_process_time(SampleDone(t), row)
    [] row.type = "S" -> ferret_process_status(t, row)
    [] row.type = "F" -> ferret_process_cpu(t, row)
    [] OTHER -> t

\* Threads that ran, and were there for more than a hundredth of the trace.
Significant(t) ==
  {i \in DOMAIN t.pidHistory :
     LET p == t.pidHistory[i]
     IN  active_jiffies(p) > 0 /\ 100 * duration(p) > t.traceEnd - t.traceStart}

\* The totals and the thread with the most cycles, after one summary more, the n-th.
Tally(results, n, cycles) ==
  [megacycles_sum |-> results.megacycles_sum + cycles,
   max_active |-> IF cycles > results.max_active THEN cycles ELSE results.max_active,
   max_index |-> IF cycles > results.max_active THEN n - 1 ELSE results.max_index]

Totals(cycles) ==
  LET total[n \in 0..Len(cycles)] ==
        IF n = 0 THEN [megacycles_sum |-> 0, max_active |-> 0, max_index |-> 0]
        ELSE Tally(total[n - 1], n, cycles[n])
  IN  total[Len(cycles)]

\* The threads are in the order of their pids as texts; any order will do.
postprocess_ferret_data(t) ==
  LET pids == SetToSeq(Significant(t))
      cycles == [n \in 1..Len(pids) |-> MCyc_sum(t.pidHistory[pids[n]])]
      totals == Totals(cycles)
  IN  [process_results |->
         [n \in 1..Len(pids) |->
            LET p == t.pidHistory[pids[n]]
            IN  [pid |-> pids[n], duration |-> duration(p), active |-> p.totJiffies,
                 MCyc |-> p.mcyc]],
       main_thread_index |-> totals.max_index,
       main_thread_megacycles |-> totals.max_active,
       megacycles_sum |-> totals.megacycles_sum]
===============================================================================
