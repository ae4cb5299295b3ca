-------------------------------- MODULE Ferret --------------------------------
(***************************************************************************)
(* The burrow tool and the ferret collector it runs (burrow.cpp,           *)
(* collectors/ferret.cpp).  The collector's sampler thread looks the named *)
(* processes up in /proc, records them while they live, and reports on a   *)
(* pipe: -1 on a timeout, 1 while it records, 0 when they have exited.     *)
(* burrow blocks on that pipe and stops the collection on -1 or 0.         *)
(*                                                                         *)
(* The monitored processes come and go between any two system calls.  The  *)
(* trace file's text is left out.  The code goes through its vectors in    *)
(* order, the model in any order.                                          *)
(***************************************************************************)
EXTENDS Integers, Sequences, FiniteSets

CONSTANTS
  mProcessNames, \* the names the configuration lists; each names one process
  MayFail,       \* initialize() or the collector's start() may fail
  MaxPipe        \* bound: statuses in the pipe when a round begins, plus two

ASSUME FerretAssumption ==
  /\ IsFiniteSet(mProcessNames) /\ mProcessNames # {}
  /\ MayFail \in BOOLEAN /\ MaxPipe \in Nat \ {0, 1}

VARIABLES
  \* the world: the processes, and the time since the first collect()
  proc, clock,
  \* the collector
  mWatchList, mPids, mPidFdMap, mCollecting, lastStatus,
  \* its sampler thread: position, names left to visit in this pass, and
  \* whether `now' was past the timeout
  sampler, todo, overdue, finished,
  \* burrow: position, last status read, result; the pipe and its descriptors
  burrow, last_status, success, pipe, open

collectorVars == <<mWatchList, mPids, mPidFdMap, mCollecting, lastStatus>>
samplerVars == <<sampler, todo, overdue>>
burrowVars == <<burrow, last_status, success>>
vars == <<proc, clock, collectorVars, samplerVars, finished, burrowVars, pipe, open>>

Status == {-1, 0, 1}
NoStatus == -99

\* A process that has exited is a zombie until its parent reaps it: its cmdline
\* reads as empty but its stat file can still be read.
ProcStates == {"absent", "running", "zombie", "reaped"}

\* An entry of mPidFdMap: absent, a file descriptor, or -1.
FdStates == {"none", "fd", "gone"}

InCollect == {"poll", "enumerate", "read"}

TypeOK ==
  /\ proc \in [mProcessNames -> ProcStates]
  /\ clock \in {"unset", "waiting", "late"}
  /\ mWatchList \subseteq mProcessNames
  /\ mPids \subseteq mProcessNames
  /\ mPidFdMap \in [mProcessNames -> FdStates]
  /\ mCollecting \in BOOLEAN
  /\ lastStatus \in Status \cup {NoStatus}
  /\ sampler \in {"none", "test", "exited"} \cup InCollect
  /\ todo \subseteq mProcessNames
  /\ overdue \in BOOLEAN /\ finished \in BOOLEAN
  /\ burrow \in {"initialize", "start", "read", "join", "close", "done"}
  /\ last_status \in Status \cup {NoStatus}
  /\ success \in BOOLEAN
  /\ pipe \in Seq(Status)
  /\ open \in BOOLEAN

Init ==
  /\ proc \in [mProcessNames -> {"absent", "running"}]
  /\ clock = "unset"
  /\ mWatchList = {} /\ mPids = {}
  /\ mPidFdMap = [n \in mProcessNames |-> "none"]
  /\ mCollecting = FALSE
  /\ lastStatus = NoStatus
  /\ sampler = "none" /\ todo = {} /\ overdue = FALSE /\ finished = FALSE
  /\ burrow = "initialize" /\ last_status = NoStatus /\ success = FALSE
  /\ pipe = <<>> /\ open = TRUE

-------------------------------------------------------------------------------
(* The world.                                                                  *)

Becomes(n, s) ==
  /\ proc' = [proc EXCEPT ![n] = s]
  /\ UNCHANGED <<clock, collectorVars, samplerVars, finished, burrowVars, pipe, open>>

Appear(n) == proc[n] = "absent" /\ Becomes(n, "running")
Exit(n) == proc[n] = "running" /\ Becomes(n, "zombie")
Reap(n) == proc[n] = "zombie" /\ Becomes(n, "reaped")

\* mPollTimeout has passed since the first collect().
Elapse ==
  /\ clock = "waiting"
  /\ clock' = "late"
  /\ UNCHANGED <<proc, collectorVars, samplerVars, finished, burrowVars, pipe, open>>

-------------------------------------------------------------------------------
(* The sampler thread: Collector::loop and FerretCollector::collect.           *)

\* Write a status to the pipe if it is news.
notify(status) ==
  /\ lastStatus' = status
  /\ pipe' = IF status # lastStatus THEN Append(pipe, status) ELSE pipe

\* The loop's test; `now' is read here.  The first part of collect().
LoopTest ==
  /\ sampler = "test"
  /\ \/ finished /\ sampler' = "exited" /\ UNCHANGED <<todo, overdue, clock>>
     \/ /\ ~finished /\ Len(pipe) + 2 <= MaxPipe
        /\ sampler' = "poll" /\ todo' = mWatchList
        /\ overdue' = (clock = "late")
        /\ clock' = IF clock = "unset" THEN "waiting" ELSE clock
  /\ UNCHANGED <<proc, collectorVars, finished, burrowVars, pipe, open>>

Visit(at, n) == sampler = at /\ n \in todo /\ todo' = todo \ {n}
Visited(at) == sampler = at /\ todo = {}

Unmoved == <<proc, clock, mCollecting, overdue, finished, burrowVars, open>>

\* Look a name up in /proc; a zombie's cmdline is empty.
poll_for_named_process(n) ==
  /\ Visit("poll", n)
  /\ IF proc[n] = "running"
     THEN mPids' = mPids \cup {n} /\ mWatchList' = mWatchList \ {n}
     ELSE UNCHANGED <<mPids, mWatchList>>
  /\ UNCHANGED <<sampler, mPidFdMap, lastStatus, pipe, Unmoved>>

WaitingSilently ==
  /\ Visited("poll") /\ mWatchList # {}
  /\ sampler' = "test"
  /\ UNCHANGED <<todo, mWatchList, mPids, mPidFdMap, lastStatus, pipe, Unmoved>>

\* Nothing is recorded until every name was found.
StillWaiting ==
  /\ Visited("poll") /\ mWatchList # {}
  /\ IF overdue THEN notify(-1) ELSE UNCHANGED <<lastStatus, pipe>>
  /\ sampler' = "test"
  /\ UNCHANGED <<todo, mWatchList, mPids, mPidFdMap, Unmoved>>

AllFound ==
  /\ Visited("poll") /\ mWatchList = {}
  /\ notify(1)
  /\ sampler' = "enumerate" /\ todo' = mPids
  /\ UNCHANGED <<mWatchList, mPids, mPidFdMap, Unmoved>>

\* Open the stat file of a process unless mPidFdMap has it.
enumerate_tasks(n) ==
  /\ Visit("enumerate", n)
  /\ mPidFdMap' = IF mPidFdMap[n] = "none" /\ proc[n] \in {"running", "zombie"}
                  THEN [mPidFdMap EXCEPT ![n] = "fd"] ELSE mPidFdMap
  /\ UNCHANGED <<sampler, mWatchList, mPids, lastStatus, pipe, Unmoved>>

Enumerated ==
  /\ Visited("enumerate")
  /\ sampler' = "read" /\ todo' = {n \in mProcessNames : mPidFdMap[n] = "fd"}
  /\ UNCHANGED <<mWatchList, mPids, mPidFdMap, lastStatus, pipe, Unmoved>>

\* Reading the stat file of a reaped process fails.
collect_perproc(n) ==
  /\ Visit("read", n)
  /\ mPidFdMap' = IF proc[n] = "reaped"
                  THEN [mPidFdMap EXCEPT ![n] = "gone"] ELSE mPidFdMap
  /\ UNCHANGED <<sampler, mWatchList, mPids, lastStatus, pipe, Unmoved>>

\* The processes that are not known to be gone.
active_never_less == Cardinality(mPids)
active_of_last == IF \E n \in mPids : mPidFdMap[n] = "gone" THEN 0 ELSE 1
active == Cardinality(mPids) - Cardinality({n \in mPids : mPidFdMap[n] = "gone"})

CollectEnd ==
  /\ Visited("read")
  /\ IF active = 0 THEN notify(0) ELSE UNCHANGED <<lastStatus, pipe>>
  /\ sampler' = "test"
  /\ UNCHANGED <<todo, mWatchList, mPids, mPidFdMap, Unmoved>>

Sampler ==
  \/ LoopTest \/ StillWaiting \/ AllFound \/ Enumerated \/ CollectEnd
  \/ \E n \in mProcessNames :
       poll_for_named_process(n) \/ enumerate_tasks(n) \/ collect_perproc(n)

-------------------------------------------------------------------------------
(* burrow's monitor().                                                         *)

World == <<proc, clock>>

Initialize ==
  /\ burrow = "initialize"
  /\ \/ success' = TRUE /\ burrow' = "start"
     \/ MayFail /\ success' = FALSE /\ burrow' = "close"
  /\ UNCHANGED <<World, collectorVars, samplerVars, finished, last_status, pipe, open>>

\* Collection::start: a collector that fails to start gets no thread, and
\* burrow is not told.
Start ==
  /\ burrow = "start"
  /\ burrow' = "read"
  /\ mWatchList' = mProcessNames
  /\ \/ mCollecting' = TRUE /\ finished' = FALSE /\ sampler' = "test"
     \/ MayFail /\ UNCHANGED <<mCollecting, finished, sampler>>
  /\ UNCHANGED <<World, mPids, mPidFdMap, lastStatus, todo, overdue, last_status, success,
                 pipe, open>>

\* read() blocks while the pipe is empty; -1 and 0 end the session, whose
\* Collection::stop first tells the sampler to finish.
Read ==
  /\ burrow = "read" /\ pipe # <<>>
  /\ pipe' = Tail(pipe)
  /\ last_status' = Head(pipe)
  /\ IF Head(pipe) # last_status /\ Head(pipe) \in {-1, 0}
     THEN /\ burrow' = "join" /\ finished' = TRUE
          /\ success' = (success /\ Head(pipe) # -1)
     ELSE UNCHANGED <<burrow, finished, success>>
  /\ UNCHANGED <<World, collectorVars, samplerVars, open>>

\* join() in Collection::stop, then FerretCollector::stop.
JoinNobody == sampler' = sampler
Joined == sampler = "exited" /\ sampler' = "none"

Join ==
  /\ burrow = "join"
  /\ Joined
  /\ mCollecting' = FALSE
  /\ burrow' = "close"
  /\ UNCHANGED <<World, mWatchList, mPids, mPidFdMap, lastStatus, todo, overdue, finished,
                 last_status, success, pipe, open>>

Close ==
  /\ burrow = "close"
  /\ open' = FALSE
  /\ burrow' = "done"
  /\ UNCHANGED <<World, collectorVars, samplerVars, finished, last_status, success, pipe>>

Done == burrow = "done" /\ UNCHANGED vars

Burrow == Initialize \/ Start \/ Read \/ Join \/ Close

Next ==
  \/ \E n \in mProcessNames : Appear(n) \/ Exit(n) \/ Reap(n)
  \/ Elapse \/ Sampler \/ Burrow \/ Done

Spec == Init /\ [][Next]_vars

\* Both threads are scheduled and time passes; the processes may do nothing.
FairSpec == Spec /\ WF_vars(Sampler) /\ WF_vars(Burrow) /\ WF_vars(Elapse)

-------------------------------------------------------------------------------
(* Safety.                                                                     *)

\* burrow says that the program has finished, and reports its results, only if
\* every process it was told to watch has been found and is gone: the count of
\* collect() (ferret.cpp:720) never takes a running process for an exited one.
SuccessMeansAllGone ==
  burrow = "done" /\ success =>
     mPids = mProcessNames /\ \A n \in mProcessNames : proc[n] = "reaped"

\* A sampler inside collect() runs on a started collector, as ferret.cpp:634
\* asserts, and has a pipe to write to: stop() waits for it before it closes the
\* trace, and burrow closes the pipe after that.
CollectsOnlyWhenStarted ==
  sampler \in InCollect => mCollecting /\ open

(* Liveness.                                                                   *)

\* burrow.cpp:106, "0 indicates that the named process has exited": once the collector
\* has opened the stat file of every process it found, burrow finishes after their end,
\* with success or with a timeout.
Opened == \A n \in mPids : mPidFdMap[n] # "none"
OpenedExitNoticed ==
  (\A n \in mProcessNames : proc[n] = "reaped") /\ sampler # "none" /\ Opened
    ~> burrow = "done"

\* The -t option, "Maximum time to wait for PROGRAM to appear": a burrow whose
\* collector has started does not wait forever for a process that never comes.
WaitBounded ==
  sampler # "none" /\ (\E n \in mProcessNames : proc[n] = "absent")
    ~> (burrow = "done" \/ \A n \in mProcessNames : proc[n] # "absent")
===============================================================================
