--------------------------------- MODULE Perf ---------------------------------
(***************************************************************************)
(* The perf collector (collectors/perf.cpp, perf.hpp): one group of kernel *)
(* counters per thread of the program, read and reset at every frame by    *)
(* the client's collect(), and read at both ends of a scope by the threads *)
(* themselves (collect_scope_start, collect_scope_stop), without a lock.   *)
(*                                                                         *)
(* A group is represented by one counter, and Tick is the kernel counting. *)
(* The build is one for Android that reads counters with read(), not with  *)
(* the instructions of a 64-bit Arm core; start() of the other builds also *)
(* ends the process in per-API mode if user space has no access to the PMU.*)
(***************************************************************************)
EXTENDS PerfScopes, Sums, SequencesExt

CONSTANTS
  Configs,       \* configurations and programs: see PerfScopes; comm gives the kinds of
                 \* names of the program's threads, perApi is mEnablePerapiPerf
  Scopes,        \* function ids and flags the program gives to its scopes
  InitialScopes, \* size scope_values begins with (512)
  Modulus,       \* counters count modulo this (2^64)
  MaxTicks,      \* bound: ticks in all
  MaxFrames,     \* bound: calls of collect()
  MaxSessions,   \* bound: calls of start()
  MaxScopes      \* bound: scopes opened in all

Flags == {"NOOP", "REPLAY_THREADS", "ALL_THREADS"}
Funcs == {s.func : s \in Scopes}
NoFunc == 65535  \* (uint16_t)-1

ASSUME PerfAssumption ==
  /\ \A c \in Configs : IsFiniteSet(c.event) /\ IsFiniteSet(DOMAIN c.comm)
  /\ \A s \in Scopes : s.func \in 0..MAX_SCOPES-1 /\ s.flags \in Flags
  /\ InitialScopes \in Nat /\ Modulus \in Nat \ {0}
  /\ MaxTicks \in Nat /\ MaxFrames \in Nat /\ MaxSessions \in Nat /\ MaxScopes \in Nat

VARIABLES
  config,    \* what the constructor was given
  mThreads,  \* the perf_threads, in the order start() takes
  mCollecting, last_collect_scope_flags, mCustomResult,
  client,    \* position of the client, and the perf_thread its collect() has come to
  scope,     \* per scoping thread: where it is, and in which scope
  outcome,
  \* history, per perf_thread; numbers of calls, for the bounds
  hist, ticks, frames, sessions, scopes

collectorVars == <<config, mCollecting, last_collect_scope_flags, mCustomResult>>
boundVars == <<ticks, frames, sessions, scopes>>
vars == <<collectorVars, mThreads, client, scope, outcome, hist, boundVars>>

Scopers == {tid \in DOMAIN config.comm : config.comm[tid] = "patrace"}
Indices == DOMAIN mThreads
Values == 0..Modulus-1

\* A thread that is in no scope.
Outside == [at |-> "out", func |-> NoFunc, flags |-> "NOOP", seen |-> FALSE]

\* A perf_thread with its event_context.  group and count are the kernel's: "failed"
\* stands for descriptor -1.  results holds the values recorded at frames, reported
\* what stop() appended to them.
OpenedThread(t, opened) ==
  [kind |-> t.kind, tid |-> t.tid, device |-> t.device,
   group |-> IF opened THEN "off" ELSE "failed", count |-> 0,
   last_snap |-> 0, last_snap_func_id |-> NoFunc,
   scope_values |-> [k \in 1..InitialScopes |-> 0], scope_num_calls |-> <<>>,
   mValueResults |-> FALSE, results |-> <<>>, reported |-> <<>>]

\* ticks in all; ticks no frame will show (lost); ticks since the last snapshot, and
\* whether the group was reset since; sums and numbers of completed scopes, and the
\* functions of which one was cut by a reset.
NoHistory ==
  [ticks |-> 0, lost |-> 0, inside |-> 0, cut |-> FALSE,
   sum |-> [f \in Funcs |-> 0], calls |-> [f \in Funcs |-> 0], spoilt |-> {}]

Init ==
  /\ config \in Configs
  /\ mThreads = <<>> /\ hist = <<>>
  /\ mCollecting = FALSE /\ last_collect_scope_flags = "NOOP" /\ mCustomResult = <<>>
  /\ client = [op |-> "new", i |-> 1]
  /\ scope = [t \in Scopers |-> Outside]
  /\ outcome = "ok"
  /\ ticks = 0 /\ frames = 0 /\ sessions = 0 /\ scopes = 0

At(op) == outcome = "ok" /\ client.op = op
Go(op, i) == client' = [op |-> op, i |-> i]

-------------------------------------------------------------------------------
(* create_perf_thread: config.comm gives the kind of name each thread of the      *)
(* process has.  Background threads are recorded only with "allthread".           *)

PerfThread(kind, tid, device) == [kind |-> kind, tid |-> tid, device |-> device]

create_perf_thread ==
  LET named(prefix) == {tid \in DOMAIN config.comm : config.comm[tid] = prefix}
      each(kind, tids) == {PerfThread(kind, tid, d) : tid \in tids, d \in mEvents(config)}
      booker == IF mBookerEvents(config) # {} THEN {PerfThread("booker", -1, "")} ELSE {}
      cspmu == {PerfThread("cspmu", -1, d) : d \in mCSPMUEvents(config)}
  IN  IF cspmu # {}
      THEN SetToSeq(cspmu)
      ELSE SetToSeq(each("replay", named("patrace")))
             \o SetToSeq(IF config.allThread THEN each("background", named("mali")) ELSE {})
             \o SetToSeq(booker)
-------------------------------------------------------------------------------
(* The kernel.                                                                 *)

\* A thread runs while its group is enabled.
Tick(i) ==
  /\ outcome = "ok" /\ mThreads[i].group = "on" /\ ticks < MaxTicks
  /\ mThreads' = [mThreads EXCEPT ![i].count = (@ + 1) % Modulus]
  /\ hist' = [hist EXCEPT ![i].ticks = @ + 1,
                          ![i].inside = IF mThreads[i].last_snap_func_id # NoFunc
                                        THEN @ + 1 ELSE @]
  /\ ticks' = ticks + 1
  /\ UNCHANGED <<collectorVars, client, scope, outcome, frames, sessions, scopes>>

\* PERF_EVENT_IOC_RESET: whatever was counted and not recorded is lost, and a scope
\* that is open is cut.
Reset(t) == [t EXCEPT !.count = 0]
Cut(h, t, missed) ==
  [h EXCEPT !.lost = @ + missed, !.cut = @ \/ t.last_snap_func_id # NoFunc]

-------------------------------------------------------------------------------
(* The client: init, start, collect, stop with postprocess, deinit.             *)

\* init() pays no attention to events that could not be opened.
init ==
  /\ At("new")
  /\ LET threads == create_perf_thread IN
       /\ \E opened \in SUBSET DOMAIN threads :
            mThreads' = [i \in DOMAIN threads |-> OpenedThread(threads[i], i \in opened)]
       /\ hist' = [i \in DOMAIN threads |-> NoHistory]
  /\ Go("idle", 1)
  /\ UNCHANGED <<collectorVars, scope, outcome, boundVars>>

\* start() enables the groups in turn up to one that was not opened, and then fails.
start ==
  /\ At("idle") /\ sessions < MaxSessions
  /\ LET failed == {i \in Indices : mThreads[i].group = "failed"}
         started == {i \in Indices : \A j \in failed : i < j}
     IN  /\ mThreads' = [i \in Indices |->
                           IF i \in started
                           THEN [Reset(mThreads[i]) EXCEPT !.group = "on"]
                           ELSE mThreads[i]]
         /\ hist' = [i \in Indices |->
                       IF i \in started THEN Cut(hist[i], mThreads[i], mThreads[i].count)
                                        ELSE hist[i]]
         /\ mCollecting' = (failed = {})
  /\ sessions' = sessions + 1
  /\ Go("session", 1)
  /\ UNCHANGED <<config, last_collect_scope_flags, mCustomResult, scope, outcome,
                 ticks, frames, scopes>>

\* collect() reads and resets one group after the other; what is counted between the
\* two is lost.
CollectBegin ==
  /\ At("session") /\ mCollecting /\ frames < MaxFrames /\ Indices # {}
  /\ frames' = frames + 1
  /\ Go("read", 1)
  /\ UNCHANGED <<collectorVars, mThreads, scope, outcome, hist, ticks, sessions, scopes>>

CollectRead ==
  /\ At("read")
  /\ mThreads' = [mThreads EXCEPT ![client.i].results = Append(@, mThreads[client.i].count)]
  /\ Go("reset", client.i)
  /\ UNCHANGED <<collectorVars, scope, outcome, hist, boundVars>>

KeepCounting(t) == t
AfterRead(t) == Reset(t)

CollectReset ==
  LET t == mThreads[client.i] IN
  /\ At("reset")
  /\ mThreads' = [mThreads EXCEPT ![client.i] = AfterRead(t)]
  /\ hist' = [hist EXCEPT ![client.i] = Cut(@, t, t.count - Last(t.results))]
  /\ IF client.i < Len(mThreads) THEN Go("read", client.i + 1) ELSE Go("session", 1)
  /\ UNCHANGED <<collectorVars, scope, outcome, boundVars>>

LeftEnabled(t) ==
  [t EXCEPT !.reported = IF t.mValueResults THEN @ \o <<t.scope_values, t.scope_num_calls>> ELSE @]
\* event_context::stop.  scope_num_with_perf, which it reports too, always equals
\* scope_num_calls.
StoppedThread(t) ==
  [t EXCEPT !.group = "off",
            !.reported = IF t.mValueResults THEN @ \o <<t.scope_values, t.scope_num_calls>> ELSE @]

\* postprocess(): the totals over threads, with those of background threads only if
\* they are recorded.
TotalsUpTo(kinds, value) ==
  LET total[k \in 0..Len(mThreads)] ==
        IF k = 0 THEN value
        ELSE IF mThreads[k].kind \in kinds THEN Accumulate(total[k - 1], mThreads[k].results)
        ELSE total[k - 1]
  IN  total
TotalOf(kinds, value) == TotalsUpTo(kinds, value)[Len(mThreads)]

postprocess ==
  LET replay == TotalOf({"replay", "booker", "cspmu"}, <<>>)
      background == TotalOf({"background"}, <<>>)
  IN  [replay |-> replay,
       background |-> IF config.allThread THEN background ELSE <<>>,
       all |-> IF config.allThread THEN TotalOf({"background"}, replay) ELSE <<>>]

\* stop() does nothing if start() failed; the results are made in any case.
stop ==
  /\ At("session")
  /\ mThreads' = IF mCollecting THEN [i \in Indices |-> StoppedThread(mThreads[i])]
                                ELSE mThreads
  /\ mCollecting' = FALSE
  /\ mCustomResult' = postprocess
  /\ Go("idle", 1)
  /\ UNCHANGED <<config, last_collect_scope_flags, scope, outcome, hist, boundVars>>

\* Called by the destructor of the Collection, when no thread is inside a scope call.
deinit ==
  /\ At("idle") /\ \A t \in Scopers : scope[t].at \in {"out", "in"}
  /\ mThreads' = <<>> /\ hist' = <<>>
  /\ Go("deleted", 1)
  /\ UNCHANGED <<collectorVars, scope, outcome, boundVars>>

-------------------------------------------------------------------------------
(* Scopes, called by the threads of the program.                               *)

CollectsReplay(flags) == flags \in {"REPLAY_THREADS", "ALL_THREADS"}
Own(tid) == {i \in Indices : mThreads[i].kind = "replay" /\ mThreads[i].tid = tid}

\* event_context::collect_scope at the beginning of a scope.
KeepSnapshot(t, func_id) == [t EXCEPT !.last_snap_func_id = func_id]
ForgetFunction(t, func_id) == [t EXCEPT !.last_snap = t.count]
Snapshot(t, func_id) == [t EXCEPT !.last_snap = t.count, !.last_snap_func_id = func_id]

ScopeStart(tid, func_id, flags) ==
  LET seen == mCollecting /\ CollectsReplay(flags) IN
  /\ outcome = "ok" /\ client.op \notin {"new", "deleted"}
  /\ scope[tid].at = "out" /\ scopes < MaxScopes
  /\ mThreads' = [i \in Indices |->
                    IF seen /\ i \in Own(tid) THEN Snapshot(mThreads[i], func_id) ELSE mThreads[i]]
  /\ hist' = [i \in Indices |->
                IF seen /\ i \in Own(tid)
                THEN [hist[i] EXCEPT !.inside = 0, !.cut = FALSE] ELSE hist[i]]
  /\ scope' = [scope EXCEPT ![tid] =
                 [at |-> IF mCollecting THEN "flags" ELSE "in",
                  func |-> func_id, flags |-> flags, seen |-> seen]]
  /\ scopes' = scopes + 1
  /\ UNCHANGED <<collectorVars, client, outcome, ticks, frames, sessions>>

\* The flags are one variable for all threads.
ScopeFlags(tid) ==
  /\ outcome = "ok" /\ scope[tid].at = "flags"
  /\ last_collect_scope_flags' = scope[tid].flags
  /\ scope' = [scope EXCEPT ![tid].at = "in"]
  /\ UNCHANGED <<config, mCollecting, mCustomResult, mThreads, client, outcome, hist, boundVars>>

\* A scope that ends when nothing is collected, or after another thread has begun one
\* with other flags, is dropped.
ScopeStop(tid) ==
  /\ outcome = "ok" /\ scope[tid].at = "in"
  /\ scope' = [scope EXCEPT ![tid] =
                 IF mCollecting /\ last_collect_scope_flags = @.flags
                 THEN [@ EXCEPT !.at = "add"] ELSE Outside]
  /\ UNCHANGED <<collectorVars, mThreads, client, outcome, hist, boundVars>>

\* event_context::collect_scope and update_data_scope at the end of a scope.
UpdatedThread(t, func_id) ==
  LET diff == (t.count - t.last_snap) % Modulus
      values == AddAt(t.scope_values, func_id, diff)
  IN  [t EXCEPT !.last_snap_func_id = NoFunc,
                !.mValueResults = TRUE,
                !.scope_values = [values EXCEPT ![func_id + 1] = @ % Modulus],
                !.scope_num_calls = IF diff > 0 THEN AddAt(@, func_id, 1) ELSE @]

Completed(h, func_id) ==
  [h EXCEPT !.sum[func_id] = (@ + h.inside) % Modulus,
            !.inside = 0, !.cut = FALSE,
            !.calls[func_id] = IF h.inside > 0 THEN @ + 1 ELSE @,
            !.spoilt = IF h.cut THEN @ \cup {func_id} ELSE @]

\* The process exits if its thread's last snapshot is not of this function.
Matches(t, func_id) == t.last_snap_func_id = func_id

ScopeAdd(tid) ==
  LET s == scope[tid]
      own == IF CollectsReplay(s.flags) THEN Own(tid) ELSE {}
  IN
  /\ outcome = "ok" /\ s.at = "add"
  /\ IF \A i \in own : Matches(mThreads[i], s.func)
     THEN /\ mThreads' = [i \in Indices |->
                            IF i \in own THEN UpdatedThread(mThreads[i], s.func) ELSE mThreads[i]]
          /\ hist' = [i \in Indices |->
                        IF i \in own THEN Completed(hist[i], s.func) ELSE hist[i]]
          /\ scope' = [scope EXCEPT ![tid] = Outside]
          /\ UNCHANGED outcome
     ELSE /\ outcome' = "exit"
          /\ UNCHANGED <<mThreads, hist, scope>>
  /\ UNCHANGED <<collectorVars, client, boundVars>>

Scope(tid) ==
  \/ \E s \in Scopes : ScopeStart(tid, s.func, s.flags)
  \/ ScopeFlags(tid) \/ ScopeStop(tid) \/ ScopeAdd(tid)

Client == init \/ start \/ CollectBegin \/ CollectRead \/ CollectReset \/ stop \/ deinit

Next ==
  \/ Client
  \/ \E i \in Indices : Tick(i)
  \/ \E tid \in Scopers : Scope(tid)

Spec == Init /\ [][Next]_vars

-------------------------------------------------------------------------------
At0(vector, f) == IF f < Len(vector) THEN vector[f + 1] ELSE 0

\* The sum and the number of calls kept for a function of a thread are those of its
\* completed scopes, whatever other threads, frames and sessions do in between, unless a
\* frame or a start() reset the counters inside one of the function's scopes.
ScopeSumsExact ==
  \A i \in Indices : \A f \in Funcs \ hist[i].spoilt :
     /\ At0(mThreads[i].scope_values, f) = hist[i].sum[f]
     /\ At0(mThreads[i].scope_num_calls, f) = hist[i].calls[f]

\* The totals stop() reports for all threads account for every tick of every group once:
\* what is missing are ticks between a read and its reset, and ticks after the last frame.
FramesAccountForTicks ==
  (At("idle") /\ config.allThread /\ mCustomResult # <<>>) =>
     SumSeq(mCustomResult.all) =
        SumSeq([i \in Indices |-> hist[i].ticks - hist[i].lost - mThreads[i].count])

\* Between sessions the kernel counts nothing.  The exception is a collector one of whose
\* groups could not be opened: init() does not mind, start() fails there, stop() does nothing
\* (perf.cpp:351, 383), and the groups before it, and only those, count on.
CountersOffBetweenSessions ==
  At("idle") =>
     \A i \in Indices : mThreads[i].group = "on" =>
        /\ \E j \in Indices : j > i /\ mThreads[j].group = "failed"
        /\ \A j \in 1..i : mThreads[j].group = "on"

\* perf.cpp:722: the process is ended for a scope without a beginning only if the scope
\* did begin at a moment when nothing was collected.  Dropped scopes, scopes of other
\* threads, frames and sessions do not confuse the match.
ExitsOnlyOnIgnoredStart ==
  outcome = "exit" => \E tid \in Scopers : scope[tid].at = "add" /\ ~scope[tid].seen
===============================================================================
