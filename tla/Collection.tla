------------------------------ MODULE Collection ------------------------------
(***************************************************************************)
(* The Collection of interface.cpp: a client drives collectors through     *)
(* initialize / start / collect / summarize / stop while every threaded    *)
(* collector samples in a thread of its own (Collector::loop).             *)
(*                                                                         *)
(* A call that works through the collectors one by one is a sequence of    *)
(* steps, because sampler threads run between them; `call' says where the  *)
(* client is.  Recorded values are abstracted to the session they were     *)
(* taken in: session n is the n-th start().  A collector records under     *)
(* several keys, and in any one sample only under some of them: a slot is  *)
(* the list of one of its keys.                                            *)
(***************************************************************************)
EXTENDS Postprocess, FiniteSets

CONSTANTS
  mCollectors,    \* the registered collectors, in order of registration
  Keys,           \* the keys of a collector: what it can record, e.g. a CPU's frequency
  JsonThreaded,   \* collectors whose configuration says "threaded": true
  JsonRequired,   \* collectors whose configuration says "required": true
  JsonMembers,    \* collectors named in the JSON configuration, in its order
  Requests,       \* the lists a client may hand to initialize()
  ClientThreaded, \* collectors on which the client calls useThreading() itself
  EnablePerapi,   \* mEnablePerapiPerf
  FrameTimes,     \* possible durations of a frame
  MaxSession,     \* bound: number of start() calls
  MaxFrames,      \* bound: length of mTiming
  MaxSamples,     \* bound: samples a collector holds
  MaxSummaries    \* bound: number of summaries a collector holds

Collectors == {mCollectors[i] : i \in DOMAIN mCollectors}

ASSUME CollectorsAssumption ==
  /\ mCollectors \in Seq(Collectors)
  /\ \A i, j \in DOMAIN mCollectors : mCollectors[i] = mCollectors[j] => i = j
  /\ Keys \in [Collectors -> SUBSET Nat]
  /\ JsonThreaded \subseteq Collectors
  /\ JsonRequired \subseteq Collectors
  /\ JsonMembers \in Seq(Collectors)
  /\ Requests \subseteq Seq(Collectors)
  /\ ClientThreaded \subseteq Collectors
  /\ EnablePerapi \in BOOLEAN

\* A session takes no longer than doubles count exactly: in the code, 2^53 microseconds.
ASSUME BoundsAssumption ==
  /\ FrameTimes \subseteq Nat
  /\ MaxSession \in Nat /\ MaxFrames \in Nat
  /\ MaxSamples \in Nat /\ MaxSummaries \in Nat
  /\ \A d \in FrameTimes : MaxFrames * d <= 2 * MinSignificand

SlotsOf(c) == {c} \X Keys[c]
Slots == UNION {SlotsOf(c) : c \in Collectors}

VARIABLES
  \* the Collection
  mRunning, running, mTiming, mTimingSummarized,
  \* the Collectors
  inited, mIsThreaded, mCollecting, finished, thread,
  list, summaries, made, mIsSummarized,
  \* the client's position in the call it is making
  call, names, tmp, outcome,
  \* what initialize() last returned
  initOk,
  \* history: session number, collectors whose start() failed in it, and
  \* whether a collect() returned false in it
  session, startFailed, lossy

collectionVars == <<mRunning, running, mTiming, mTimingSummarized>>
dataVars == <<list, summaries, made, mIsSummarized>>
collectorVars == <<inited, mIsThreaded, mCollecting, finished, thread>>
historyVars == <<session, startFailed, lossy>>
vars == <<collectionVars, dataVars, collectorVars, call, names, tmp, outcome,
          initOk, historyVars>>

Ops == {"idle", "initialize", "start", "signal", "join", "summarize"}
Positions == [op : Ops, i : Nat \ {0}]

\* A sampler thread: "none" is a std::thread that is not joinable, "exited"
\* one whose loop() has returned but that has not been joined.
ThreadStates == {"none", "test", "collect", "nap", "exited"}

\* How the process ends, "ok" while it has not.
Outcomes == {"ok", "system_error", "terminate", "out_of_range",
             "div_by_zero", "data_race", "destroyed"}

\* A value and the session it was taken in; 0 is a value made from no sample.  The map
\* mResults has a key when a first value is recorded under it, in session made[s], and
\* never loses it: made[s] = 0 says that the key is not there.
Stamp == 0..MaxSession

ElementsOf(s) == {s[i] : i \in DOMAIN s}

TypeOK ==
  /\ mRunning \in Seq(Collectors)
  /\ running \in BOOLEAN
  /\ mTiming \in Seq(FrameTimes)
  /\ mTimingSummarized \in Seq(Stamp)
  /\ inited \in [Collectors -> BOOLEAN]
  /\ mIsThreaded \in [Collectors -> BOOLEAN]
  /\ mCollecting \in [Collectors -> BOOLEAN]
  /\ finished \in [Collectors -> BOOLEAN]
  /\ thread \in [Collectors -> ThreadStates]
  /\ list \in [Slots -> Seq(Stamp)]
  /\ summaries \in [Slots -> Seq(Stamp)]
  /\ made \in [Slots -> Stamp]
  /\ mIsSummarized \in [Collectors -> BOOLEAN]
  /\ call \in Positions
  /\ names \in Seq(Collectors)
  /\ tmp \in Seq(Collectors)
  /\ outcome \in Outcomes
  /\ initOk \in BOOLEAN
  /\ session \in Stamp
  /\ startFailed \in SUBSET Collectors
  /\ lossy \in BOOLEAN

Init ==
  /\ mRunning = <<>> /\ running = FALSE
  /\ mTiming = <<>> /\ mTimingSummarized = <<>>
  /\ inited = [c \in Collectors |-> FALSE]
  /\ mIsThreaded = [c \in Collectors |-> FALSE]
  /\ mCollecting = [c \in Collectors |-> FALSE]
  /\ finished = [c \in Collectors |-> FALSE]
  /\ thread = [c \in Collectors |-> "none"]
  /\ list = [s \in Slots |-> <<>>]
  /\ summaries = [s \in Slots |-> <<>>]
  /\ made = [s \in Slots |-> 0]
  /\ mIsSummarized = [c \in Collectors |-> FALSE]
  /\ call = [op |-> "idle", i |-> 1]
  /\ names = <<>> /\ tmp = <<>>
  /\ outcome = "ok"
  /\ initOk = TRUE
  /\ session = 0 /\ startFailed = {} /\ lossy = FALSE

-------------------------------------------------------------------------------
(* Positions in a call.                                                        *)

At(op) == outcome = "ok" /\ call.op = op
Idle == At("idle")

Enter(op) == call' = [op |-> op, i |-> 1]
Advance == call' = [call EXCEPT !.i = @ + 1]
Return == call' = [op |-> "idle", i |-> 1]

\* The collector a loop over mRunning has come to.
Current == mRunning[call.i]
AtCollector(op) == At(op) /\ call.i <= Len(mRunning)
PastLast(op) == At(op) /\ call.i > Len(mRunning)

-------------------------------------------------------------------------------
(* mResults.                                                                   *)

\* The slots of c whose key mResults has.
MadeSlots(c) == {s \in SlotsOf(c) : made[s] # 0}

\* A value is added under each of these keys; a new key is made.
Record(slots) ==
  /\ list' = [s \in Slots |-> IF s \in slots THEN Append(list[s], session) ELSE list[s]]
  /\ made' = [s \in Slots |-> IF s \in slots /\ made[s] = 0 THEN session ELSE made[s]]

-------------------------------------------------------------------------------
(* Collection::initialize and initialize_collector.                            *)

InitializeBegin ==
  /\ Idle /\ ~running
  /\ \E l \in Requests : names' = l \o JsonMembers
  /\ initOk' = TRUE
  /\ Enter("initialize")
  /\ UNCHANGED <<collectionVars, dataVars, collectorVars, tmp, outcome, historyVars>>

\* The name is in use already, or its collector's init() succeeds now.
InitializeCollectorTwice(c) ==
  /\ mRunning' = Append(mRunning, c)
  /\ inited' = [inited EXCEPT ![c] = TRUE]
  /\ mIsThreaded' = [mIsThreaded EXCEPT ![c] = @ \/ c \in JsonThreaded]
  /\ Advance
  /\ UNCHANGED <<names, initOk>>

InitializeCollector(c) ==
  /\ \/ /\ c \in ElementsOf(mRunning)
        /\ UNCHANGED <<mRunning, inited, mIsThreaded>>
     \/ /\ c \notin ElementsOf(mRunning)
        /\ mRunning' = Append(mRunning, c)
        /\ inited' = [inited EXCEPT ![c] = TRUE]
        /\ mIsThreaded' = [mIsThreaded EXCEPT ![c] = @ \/ c \in JsonThreaded]
  /\ Advance
  /\ UNCHANGED <<names, initOk>>

\* The collector does not exist, is not available, or its init() failed: an
\* optional one is skipped, a required one fails the whole call.
InitializeFailed(c) ==
  /\ \/ c \notin JsonRequired /\ Advance /\ UNCHANGED <<mRunning, initOk, names>>
     \/ /\ c \in JsonRequired
        /\ mRunning' = <<>> /\ initOk' = FALSE
        /\ names' = <<>> /\ Return
  /\ UNCHANGED <<inited, mIsThreaded>>

InitializeOne ==
  /\ At("initialize") /\ call.i <= Len(names)
  /\ InitializeCollector(names[call.i]) \/ InitializeFailed(names[call.i])
  /\ UNCHANGED <<running, mTiming, mTimingSummarized, mCollecting, finished, thread,
                 dataVars, tmp, outcome, historyVars>>

InitializeEnd ==
  /\ At("initialize") /\ call.i > Len(names)
  /\ names' = <<>> /\ Return
  /\ UNCHANGED <<collectionVars, dataVars, collectorVars, tmp, outcome, initOk,
                 historyVars>>

\* A client may also call Collector::useThreading itself.
UseThreading(c) ==
  /\ Idle /\ ~running /\ ~mCollecting[c]
  /\ mIsThreaded' = [mIsThreaded EXCEPT ![c] = TRUE]
  /\ UNCHANGED <<collectionVars, dataVars, inited, mCollecting, finished, thread,
                 call, names, tmp, outcome, initOk, historyVars>>

-------------------------------------------------------------------------------
(* Collection::start.                                                          *)

StartBegin ==
  /\ Idle /\ ~running /\ session < MaxSession
  /\ mTiming' = <<>>
  /\ session' = session + 1 /\ startFailed' = {} /\ lossy' = FALSE
  /\ Enter("start")
  /\ UNCHANGED <<mRunning, running, mTimingSummarized, dataVars, collectorVars, names,
                 tmp, outcome, initOk>>

\* clear() empties the lists of c.  It keeps their keys, and the summaries.
NoClear(c) == list
Cleared(c) == [s \in Slots |-> IF s \in SlotsOf(c) THEN <<>> ELSE list[s]]

\* Assigning to a joinable std::thread terminates the process; so does the
\* thread of the per-API mode, which calls an empty std::function.
ForgetSampler(c) ==
  /\ finished' = [finished EXCEPT ![c] = FALSE]
  /\ UNCHANGED <<thread, outcome>>

SpawnSampler(c) ==
  /\ finished' = [finished EXCEPT ![c] = FALSE]
  /\ IF thread[c] # "none" \/ EnablePerapi
     THEN outcome' = "terminate" /\ UNCHANGED thread
     ELSE thread' = [thread EXCEPT ![c] = "test"] /\ UNCHANGED outcome

StartOne ==
  /\ AtCollector("start")
  /\ list' = Cleared(Current)
  /\ \/ /\ startFailed' = startFailed \cup {Current}
        /\ UNCHANGED <<mCollecting, finished, thread, outcome>>
     \/ /\ mCollecting' = [mCollecting EXCEPT ![Current] = TRUE]
        /\ IF mIsThreaded[Current] THEN SpawnSampler(Current)
           ELSE UNCHANGED <<finished, thread, outcome>>
        /\ UNCHANGED startFailed
  /\ Advance
  /\ UNCHANGED <<collectionVars, summaries, made, mIsSummarized, inited, mIsThreaded,
                 names, tmp, initOk, session, lossy>>

StartEnd ==
  /\ PastLast("start")
  /\ running' = TRUE
  /\ Return
  /\ UNCHANGED <<mRunning, mTiming, mTimingSummarized, dataVars, collectorVars, names,
                 tmp, outcome, initOk, historyVars>>

-------------------------------------------------------------------------------
(* Collector::loop, in the thread of a threaded collector.                     *)

SamplerTest(c) ==
  /\ outcome = "ok" /\ thread[c] = "test"
  /\ thread' = [thread EXCEPT ![c] = IF finished[c] THEN "exited" ELSE "collect"]
  /\ UNCHANGED <<collectionVars, dataVars, inited, mIsThreaded, mCollecting, finished,
                 call, names, tmp, outcome, initOk, historyVars>>

\* collect() adds a value under all of its keys, or under some of them only, or fails; its
\* result is ignored.
SamplerCollect(c) ==
  /\ outcome = "ok" /\ thread[c] = "collect"
  /\ \E slots \in SUBSET SlotsOf(c) :
       /\ \A s \in slots : Len(list[s]) < MaxSamples
       /\ Record(slots)
  /\ thread' = [thread EXCEPT ![c] = "nap"]
  /\ UNCHANGED <<collectionVars, summaries, mIsSummarized, inited, mIsThreaded,
                 mCollecting, finished, call, names, tmp, outcome, initOk, historyVars>>

SamplerNap(c) ==
  /\ outcome = "ok" /\ thread[c] = "nap"
  /\ thread' = [thread EXCEPT ![c] = "test"]
  /\ UNCHANGED <<collectionVars, dataVars, inited, mIsThreaded, mCollecting, finished,
                 call, names, tmp, outcome, initOk, historyVars>>

Sampler(c) == SamplerTest(c) \/ SamplerCollect(c) \/ SamplerNap(c)

-------------------------------------------------------------------------------
(* Collection::collect: one frame.  The collectors sampled here have no        *)
(* thread, so nothing runs concurrently on their data.                         *)

Direct == {c \in ElementsOf(mRunning) : ~mIsThreaded[c]}

\* A frame of d microseconds: now - mPreviousTime.
FrameTime(d) == d

Collect ==
  /\ Idle /\ running /\ Len(mTiming) < MaxFrames
  /\ \E d \in FrameTimes : mTiming' = Append(mTiming, FrameTime(d))
  /\ LET direct == UNION {SlotsOf(c) : c \in Direct}
     IN  \E slots \in SUBSET direct : Record(slots) /\ lossy' = (lossy \/ slots # direct)
  /\ UNCHANGED <<mRunning, running, mTimingSummarized, summaries, mIsSummarized,
                 collectorVars, call, names, tmp, outcome, initOk, session, startFailed>>

-------------------------------------------------------------------------------
(* Collection::summarize.  It visits every registered collector and takes no   *)
(* lock: a sampler inside collect() races with it.  The outcomes of the race   *)
(* are a crash (the vector or the map is torn) or either order of the two.     *)

SummarizeBegin ==
  /\ Idle /\ mTiming # <<>> /\ Len(mTimingSummarized) < MaxSummaries
  /\ Enter("summarize")
  /\ UNCHANGED <<collectionVars, dataVars, collectorVars, names, tmp, outcome, initOk,
                 historyVars>>

\* The average of an empty list divides by zero: SIGFPE on x86, a value that
\* stands for no sample elsewhere.
Average(l) == IF l = <<>> THEN 0 ELSE l[1]

SummarizeLists(c) ==
  \/ /\ \E s \in MadeSlots(c) : list[s] = <<>>
     /\ outcome' = "div_by_zero"
     /\ UNCHANGED <<list, summaries>>
  \/ /\ summaries' = [s \in Slots |-> IF s \in MadeSlots(c)
                                     THEN Append(summaries[s], Average(list[s]))
                                     ELSE summaries[s]]
     /\ list' = [s \in Slots |-> IF s \in MadeSlots(c) THEN <<>> ELSE list[s]]
     /\ UNCHANGED outcome
  \/ /\ thread[c] = "collect"
     /\ outcome' = "data_race"
     /\ UNCHANGED <<list, summaries>>

SummarizeOne ==
  /\ At("summarize") /\ call.i <= Len(mCollectors)
  /\ SummarizeLists(mCollectors[call.i])
  /\ mIsSummarized' = [mIsSummarized EXCEPT ![mCollectors[call.i]] = TRUE]
  /\ Advance
  /\ UNCHANGED <<collectionVars, made, collectorVars, names, tmp, initOk, historyVars>>

SummarizeEnd ==
  /\ At("summarize") /\ call.i > Len(mCollectors)
  /\ mTimingSummarized' = Append(mTimingSummarized, session)
  /\ mTiming' = <<>>
  /\ Return
  /\ UNCHANGED <<mRunning, running, dataVars, collectorVars, names, tmp, outcome, initOk,
                 historyVars>>

-------------------------------------------------------------------------------
(* Collection::stop: signal every sampler, then join and finish one by one.    *)

StopBegin ==
  /\ Idle /\ running
  /\ Enter("signal")
  /\ UNCHANGED <<collectionVars, dataVars, collectorVars, names, tmp, outcome, initOk,
                 historyVars>>

SignalAllButLast(c) == finished[c] \/ (mIsThreaded[c] /\ call.i < Len(mRunning))
Signalled(c) == finished[c] \/ mIsThreaded[c]

SignalOne ==
  /\ AtCollector("signal")
  /\ finished' = [finished EXCEPT ![Current] = Signalled(Current)]
  /\ Advance
  /\ UNCHANGED <<collectionVars, dataVars, inited, mIsThreaded, mCollecting, thread, names,
                 tmp, outcome, initOk, historyVars>>

SignalEnd ==
  /\ PastLast("signal")
  /\ Enter("join")
  /\ UNCHANGED <<collectionVars, dataVars, collectorVars, names, tmp, outcome, initOk,
                 historyVars>>

\* join() on a std::thread that is not joinable throws std::system_error.
JoinThrows ==
  /\ AtCollector("join")
  /\ mIsThreaded[Current] /\ thread[Current] = "none"
  /\ outcome' = "system_error"
  /\ UNCHANGED <<collectionVars, dataVars, collectorVars, call, names, tmp, initOk,
                 historyVars>>

KeepUnmixed(c) == tmp' = Append(tmp, c) /\ UNCHANGED <<list, outcome>>
DropFailed(c) ==
  /\ tmp' = IF mCollecting[c] THEN Append(tmp, c) ELSE tmp
  /\ UNCHANGED <<list, outcome>>

\* Collector::postprocess goes through the keys of c in the order of the map.  An empty
\* list drops c, whatever the other lists hold; list.at() may throw; otherwise the list
\* of every key is remixed.  Where both happen, the order of the keys decides: either.
PostprocessOf(c) ==
  LET remixed == mIsThreaded[c] /\ ~mIsSummarized[c]
  IN  \/ ~remixed /\ tmp' = Append(tmp, c) /\ UNCHANGED <<list, outcome>>
      \/ /\ remixed /\ \E s \in MadeSlots(c) : list[s] = <<>>
         /\ UNCHANGED <<tmp, list, outcome>>
      \/ /\ remixed
         /\ \E nan \in NaNIndices : \E s \in MadeSlots(c) :
              list[s] # <<>> /\ ~RemixDefined(mTiming, Len(list[s]), nan)
         /\ outcome' = "out_of_range"
         /\ UNCHANGED <<tmp, list>>
      \/ /\ remixed
         /\ \E nan \in NaNIndices :
              /\ \A s \in MadeSlots(c) :
                   list[s] # <<>> /\ RemixDefined(mTiming, Len(list[s]), nan)
              /\ list' = [s \in Slots |-> IF s \in MadeSlots(c)
                                         THEN Remix(mTiming, list[s], nan) ELSE list[s]]
         /\ tmp' = Append(tmp, c)
         /\ UNCHANGED outcome

Detach(c) == UNCHANGED thread

\* Wait for the sampler, if c has one.
Join(c) ==
  /\ mIsThreaded[c] => thread[c] = "exited"
  /\ thread' = [thread EXCEPT ![c] = "none"]

\* join(), stop() the collector, postprocess.
JoinOne ==
  /\ AtCollector("join")
  /\ Join(Current)
  /\ mCollecting' = [mCollecting EXCEPT ![Current] = FALSE]
  /\ PostprocessOf(Current)
  /\ Advance
  /\ UNCHANGED <<collectionVars, summaries, made, mIsSummarized, inited, mIsThreaded,
                 finished, names, initOk, historyVars>>

StopEnd ==
  /\ PastLast("join")
  /\ mRunning' = tmp
  /\ running' = FALSE
  /\ tmp' = <<>> /\ Return
  /\ UNCHANGED <<mTiming, mTimingSummarized, dataVars, collectorVars, names, outcome,
                 initOk, historyVars>>

-------------------------------------------------------------------------------
(* ~Collection: deinit() and delete every collector; destroying a joinable     *)
(* std::thread terminates the process.                                         *)

Destroy ==
  /\ Idle
  /\ outcome' = IF \E c \in Collectors : thread[c] # "none" THEN "terminate" ELSE "destroyed"
  /\ inited' = [c \in Collectors |-> FALSE]
  /\ UNCHANGED <<collectionVars, dataVars, mIsThreaded, mCollecting, finished, thread, call,
                 names, tmp, initOk, historyVars>>

\* The process is gone.
Ended == outcome # "ok" /\ UNCHANGED vars

-------------------------------------------------------------------------------
(* What a call goes on to do by itself once it was made.                       *)
InCall ==
  \/ InitializeOne \/ InitializeEnd
  \/ StartOne \/ StartEnd
  \/ SummarizeOne \/ SummarizeEnd
  \/ SignalOne \/ SignalEnd \/ JoinThrows \/ JoinOne \/ StopEnd

Next ==
  \/ InitializeBegin \/ StartBegin \/ Collect \/ SummarizeBegin \/ StopBegin \/ Destroy
  \/ \E c \in ClientThreaded : UseThreading(c)
  \/ InCall
  \/ \E c \in Collectors : Sampler(c)
  \/ Ended

Spec == Init /\ [][Next]_vars

\* The scheduler runs every thread: a call that was made goes on, a sampler
\* goes round its loop.  Whether the client makes another call is its choice.
FairSpec ==
  Spec /\ WF_vars(InCall) /\ \A c \in Collectors : WF_vars(Sampler(c))

-------------------------------------------------------------------------------
(* What writeCSV() reads.                                                      *)

\* writeCSV takes its row count from the last key that has any value (of the last
\* collector with one), then indexes mTiming and the list of every key with it.
CSVDefined ==
  LET full(k) == {s \in MadeSlots(mRunning[k]) : list[s] # <<>>}
  IN  \A k \in DOMAIN mRunning : (\A j \in DOMAIN mRunning : j > k => full(j) = {}) =>
         \A last \in full(k) :
            LET rows == Len(list[last])
            IN  /\ rows <= Len(mTiming)
                /\ \A c \in ElementsOf(mRunning) : \A s \in MadeSlots(c) : rows <= Len(list[s])

-------------------------------------------------------------------------------
(* Safety.                                                                     *)

\* No collector is in mRunning twice (it would be started twice and sampled
\* twice per frame): initialize_collector ignores a second request, and stop()
\* rebuilds the vector without inventing entries.
RunningDistinct ==
  \A i, j \in DOMAIN mRunning : mRunning[i] = mRunning[j] => i = j

\* Outside start()..stop() no sampler thread exists and no collector thinks it
\* is collecting: the join in stop() reaches every thread start() made, also
\* when some collectors failed to start or are dropped by postprocess.  This is
\* what useThreading asserts (interface.cpp:37) and what ~Collection needs.
QuiescentWhenStopped ==
  (call.op \in {"idle", "initialize", "summarize"} /\ ~running) =>
     \A c \in Collectors : thread[c] = "none" /\ ~mCollecting[c]

\* While a session runs, the raw values of the running collectors are all from
\* this session: clear() in start() removed the older ones before the first
\* sampler could add to them.
FreshLists ==
  running => \A c \in ElementsOf(mRunning) : \A s \in SlotsOf(c) :
                ElementsOf(list[s]) \subseteq {session}

\* start() and stop() handle their std::thread objects correctly: a join() that
\* throws means that a collector failed to start, and a std::terminate that the
\* client destroyed a running Collection or asked for threads in per-API mode.
\* summarize(), which takes no lock (interface.cpp:614), races with a sampler only
\* inside a session: a client that summarizes after stop() is safe.
KilledOnlyForCause ==
  /\ outcome = "system_error" => startFailed # {}
  /\ outcome = "terminate" => running \/ EnablePerapi
  /\ outcome = "data_race" => running

\* The remix leaves the samples only in a session whose last frame has no
\* measurable length.
ThrowsOnlyOnEmptyTail ==
  outcome = "out_of_range" => mTiming # <<>> /\ mTiming[Len(mTiming)] = 0

\* Once stop() has signalled the samplers (interface.cpp:422) none of them
\* begins another sample, however long the joins take.
NoSampleBegunWhileJoining ==
  [][\A c \in Collectors :
       call.op = "join" /\ thread[c] # "collect" => thread'[c] # "collect"]_vars

\* When stop() returns, every kept collector has one value per frame under every key, so
\* that writeCSV reads only rows that exist, however many samples each key got; provided
\* that every collect() of a collector without a thread recorded under all of its keys
\* and nothing was summarized.
AlignedAtStop ==
  [][(running /\ ~running' /\ ~lossy /\ \A c \in Collectors : ~mIsSummarized[c])
       => CSVDefined']_vars

\* stop() drops a collector that failed to record under some key of an earlier session,
\* which clear() has kept (interface.hpp:119), and no other: none without a thread, none
\* that was summarized, and none in whose map this session has made every key, so none
\* in a first session.  The others keep their order.
DroppedOnlyForOldKey ==
  [][(running /\ ~running') =>
       /\ \A c \in ElementsOf(mRunning) \ ElementsOf(mRunning') :
             /\ mIsThreaded[c] /\ ~mIsSummarized[c]
             /\ \E s \in SlotsOf(c) : list[s] = <<>> /\ made[s] \in 1..session - 1
       /\ \A i, j \in DOMAIN mRunning' : i < j =>
             \E k, l \in DOMAIN mRunning :
                k < l /\ mRunning'[i] = mRunning[k] /\ mRunning'[j] = mRunning[l]]_vars

(* Liveness.                                                                   *)

\* A stop() comes back (or ends the process): the join of phase two waits for
\* threads that phase one has told to finish.
StopReturns == At("signal") ~> (Idle \/ outcome # "ok")
==============================================================================
