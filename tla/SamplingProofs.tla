---------------------------- MODULE SamplingProofs ----------------------------
(* Theorems about the collectors that count since their last sample.  Of the   *)
(* perf collector: its vectors, its groups of counters between sessions, its   *)
(* scopes and its frames, for every program and configuration.  Of Recording:  *)
(* the arrays of results, the differences rusage and procfs record, and the    *)
(* frequencies of cpufreq, for every history of sessions, frames, summaries    *)
(* and failures.                                                               *)
EXTENDS MCSampling, SumProofs, FiniteSetTheorems, TLAPS

\* update_data_scope (perf.hpp:114) may use scope_values[func_id] after its resize for
\* every size the vector can have, for exactly the function ids below 65534: the last
\* two of a uint16_t are beyond the end of the vector.
THEOREM ScopeSlotExists ==
  ASSUME NEW size \in Nat, NEW func_id \in Nat, size <= MAX_SCOPES, func_id <= 65535
  PROVE  func_id < GrownSize(size, func_id) <=> func_id < MAX_SCOPES
BY DEF GrownSize, MAX_SCOPES

\* A resize never drops sums that were kept: the vector only grows, up to its limit.
THEOREM GrowsOnly ==
  ASSUME NEW size \in Nat, NEW func_id \in Nat, size <= MAX_SCOPES, func_id <= 65535
  PROVE  size <= GrownSize(size, func_id) /\ GrownSize(size, func_id) <= MAX_SCOPES
BY DEF GrownSize, MAX_SCOPES

-------------------------------------------------------------------------------
(* The perf_threads are numbered from 1 on: a configuration asks for finitely  *)
(* many, of finitely many threads.                                             *)

(* The elements of a finite set, in some order, are a sequence. *)
LEMMA OrderedSet ==
  ASSUME NEW S, IsFiniteSet(S)
  PROVE  SetToSeq(S) \in Seq(S)
<1>1. PICK n \in Nat : n = Cardinality(S) /\ ExistsBijection(1..n, S)
  BY FS_CardinalityType
<1>2. PICK f : f \in Bijection(1..n, S)
  BY <1>1 DEF ExistsBijection
<1>3. f \in [1..n -> S] /\ IsInjective(f)
  BY <1>2 DEF Bijection, Injection
<1>4. SetToSeq(S) \in [1..n -> S]
  BY <1>1, <1>3 DEF SetToSeq
<1> QED BY <1>4

(* What a function makes of a finite set is finite. *)
LEMMA FiniteImage ==
  ASSUME NEW S, NEW f, IsFiniteSet(S), f = [x \in S |-> f[x]]
  PROVE  IsFiniteSet({f[x] : x \in S})
<1> DEFINE T == {f[x] : x \in S}
<1>1. f \in [S -> T]
  OBVIOUS
<1>2. f \in Surjection(S, T)
  BY <1>1 DEF Surjection
<1> QED BY <1>2, FS_Surjection

(* A configuration has finitely many devices with events. *)
LEMMA FiniteEvents ==
  ASSUME NEW c \in Configs
  PROVE  /\ IsFiniteSet(mEvents(c)) /\ IsFiniteSet(mCSPMUEvents(c))
         /\ IsFiniteSet(DOMAIN c.comm)
<1>1. IsFiniteSet(c.event) /\ IsFiniteSet(DOMAIN c.comm)
  BY PerfAssumption
<1>2. IsFiniteSet(mEvents(c))
  <2>1. CASE c.set \in 0..3
    <3>1. mEvents(c) = {"single"}
      BY <2>1, Zenon DEF mEvents
    <3> QED BY <3>1, FS_Singleton
  <2>2. CASE ~(c.set \in 0..3)
    <3> DEFINE S == {i \in KeptItems(c) : IF i.device # "" THEN ~i.cspmu ELSE ~i.booker_ci}
               key(item) == IF item.device # "" THEN item.device ELSE "single"
               f == [item \in S |-> key(item)]
    <3>1. mEvents(c) = {key(item) : item \in S}
      BY <2>2, Zenon DEF mEvents
    <3>2. S \subseteq c.event
      BY Zenon DEF KeptItems
    <3> HIDE DEF S, key
    <3>3. IsFiniteSet(S)
      BY <1>1, <3>2, FS_Subset
    <3>4. f = [x \in S |-> f[x]] /\ {f[x] : x \in S} = {key(item) : item \in S}
      OBVIOUS
    <3> HIDE DEF f
    <3>5. IsFiniteSet({f[x] : x \in S})
      BY <3>3, <3>4, FiniteImage
    <3> QED BY <3>1, <3>4, <3>5
  <2> QED BY <2>1, <2>2
<1>3. IsFiniteSet(mCSPMUEvents(c))
  <2>1. CASE c.set \in 0..3
    <3>1. mCSPMUEvents(c) = {}
      BY <2>1, Zenon DEF mCSPMUEvents
    <3> QED BY <3>1, FS_EmptySet
  <2>2. CASE ~(c.set \in 0..3)
    <3> DEFINE S == {i \in KeptItems(c) : i.device # "" /\ i.cspmu}
               key(item) == item.device
               f == [item \in S |-> key(item)]
    <3>1. mCSPMUEvents(c) = {key(item) : item \in S}
      BY <2>2, Zenon DEF mCSPMUEvents
    <3>2. S \subseteq c.event
      BY Zenon DEF KeptItems
    <3> HIDE DEF S, key
    <3>3. IsFiniteSet(S)
      BY <1>1, <3>2, FS_Subset
    <3>4. f = [x \in S |-> f[x]] /\ {f[x] : x \in S} = {key(item) : item \in S}
      OBVIOUS
    <3> HIDE DEF f
    <3>5. IsFiniteSet({f[x] : x \in S})
      BY <3>3, <3>4, FiniteImage
    <3> QED BY <3>1, <3>4, <3>5
  <2> QED BY <2>1, <2>2
<1> QED BY <1>1, <1>2, <1>3

(* The perf_threads of some threads and devices are finitely many. *)
LEMMA FiniteThreads ==
  ASSUME NEW what, NEW S, NEW D, IsFiniteSet(S), IsFiniteSet(D)
  PROVE  IsFiniteSet({PerfThread(what, tid, d) : tid \in S, d \in D})
<1> DEFINE T == {PerfThread(what, tid, d) : tid \in S, d \in D}
           f == [p \in S \X D |-> PerfThread(what, p[1], p[2])]
<1>1. IsFiniteSet(S \X D)
  BY FS_Product
<1>2. f \in Surjection(S \X D, T)
  <2>1. f \in [S \X D -> T]
    OBVIOUS
  <2>2. ASSUME NEW t \in T PROVE \E p \in S \X D : f[p] = t
    <3>1. PICK tid \in S, d \in D : t = PerfThread(what, tid, d)
      OBVIOUS
    <3>2. <<tid, d>> \in S \X D /\ f[<<tid, d>>] = t
      BY <3>1
    <3> QED BY <3>2
  <2> QED BY <2>1, <2>2 DEF Surjection
<1> QED BY <1>1, <1>2, FS_Surjection

(* Three sequences one after the other are a sequence. *)
LEMMA ThreeSequences ==
  ASSUME NEW R, NEW S, NEW T, NEW a \in Seq(R), NEW b \in Seq(S), NEW c \in Seq(T)
  PROVE  \E n \in Nat : DOMAIN (a \o b \o c) = 1..n
<1>1. PICK k \in Nat, l \in Nat, m \in Nat : k = Len(a) /\ l = Len(b) /\ m = Len(c)
  OBVIOUS
<1>2. DOMAIN (a \o b \o c) = 1..(k + l + m)
  BY <1>1
<1>3. PICK n \in Nat : n = k + l + m
  OBVIOUS
<1> QED BY <1>2, <1>3

Kinds == {"replay", "booker", "cspmu", "background"}

\* Every perf_thread is of one of four kinds.
OfKinds(s) == \A i \in DOMAIN s : s[i].kind \in Kinds

(* Sequences of such perf_threads. *)
LEMMA ListedKinds ==
  ASSUME NEW S, \A t \in S : t.kind \in Kinds, NEW R \in SUBSET S, NEW s \in Seq(R)
  PROVE  s \in Seq(S) /\ OfKinds(s)
<1>1. PICK n \in Nat : n = Len(s) /\ s \in [1..n -> R] /\ DOMAIN s = 1..n
  OBVIOUS
<1>2. s \in [1..n -> S] /\ \A i \in 1..n : s[i] \in S
  BY <1>1
<1>3. s \in Seq(S)
  BY <1>2
<1>4. OfKinds(s)
  BY <1>1, <1>2, Zenon DEF OfKinds
<1> QED BY <1>3, <1>4

(* create_perf_thread makes a vector of them. *)
LEMMA ThreadsIndexed ==
  ASSUME config \in Configs
  PROVE  (\E n \in Nat : DOMAIN create_perf_thread = 1..n) /\ OfKinds(create_perf_thread)
<1> DEFINE named(prefix) == {tid \in DOMAIN config.comm : config.comm[tid] = prefix}
           each(what, tids) == {PerfThread(what, tid, d) : tid \in tids, d \in mEvents(config)}
           booker == IF mBookerEvents(config) # {} THEN {PerfThread("booker", -1, "")} ELSE {}
           cspmu == {PerfThread("cspmu", -1, d) : d \in mCSPMUEvents(config)}
           back == IF config.allThread THEN each("background", named("mali")) ELSE {}
           replay == each("replay", named("patrace"))
<1>1. create_perf_thread =
        IF cspmu # {} THEN SetToSeq(cspmu) ELSE SetToSeq(replay) \o SetToSeq(back) \o SetToSeq(booker)
  BY DEF create_perf_thread
<1>2. IsFiniteSet(mEvents(config)) /\ IsFiniteSet(mCSPMUEvents(config)) /\ IsFiniteSet(DOMAIN config.comm)
  BY FiniteEvents
<1>3. ASSUME NEW what, NEW prefix
      PROVE  IsFiniteSet(each(what, named(prefix)))
  <2>1. named(prefix) \subseteq DOMAIN config.comm
    OBVIOUS
  <2> HIDE DEF named
  <2>2. IsFiniteSet(named(prefix))
    BY <1>2, <2>1, FS_Subset
  <2> QED BY <1>2, <2>2, FiniteThreads
<1>4. IsFiniteSet(cspmu)
  <2> DEFINE f == [d \in mCSPMUEvents(config) |-> PerfThread("cspmu", -1, d)]
  <2>1. f = [d \in mCSPMUEvents(config) |-> f[d]] /\ {f[d] : d \in mCSPMUEvents(config)} = cspmu
    OBVIOUS
  <2> HIDE DEF f, cspmu
  <2>2. IsFiniteSet({f[d] : d \in mCSPMUEvents(config)})
    BY <1>2, <2>1, FiniteImage
  <2> QED BY <2>1, <2>2
<1>5. IsFiniteSet(booker)
  <2>1. (\E t : booker = {t}) \/ booker = {}
    BY Zenon
  <2> HIDE DEF booker
  <2> QED BY <2>1, FS_Singleton, FS_EmptySet
<1>6. IsFiniteSet(replay) /\ IsFiniteSet(back)
  <2> HIDE DEF each
  <2> QED BY <1>3, FS_EmptySet
<1> DEFINE S == cspmu \cup replay \cup back \cup booker
<1>9. \A t \in S : t.kind \in Kinds
  <2>1. \A what, tid, d : PerfThread(what, tid, d).kind = what
    BY DEF PerfThread
  <2>2. "replay" \in Kinds /\ "booker" \in Kinds /\ "cspmu" \in Kinds /\ "background" \in Kinds
    BY DEF Kinds
  <2>3. \A t \in cspmu : t.kind \in Kinds
    BY <2>1, <2>2
  <2>4. \A t \in booker : t.kind \in Kinds
    <3>1. \A t \in booker : \E tid, d : t = PerfThread("booker", tid, d)
      BY Zenon
    <3> HIDE DEF booker
    <3> QED BY <2>1, <2>2, <3>1
  <2>5. \A t \in replay : t.kind \in Kinds
    <3> HIDE DEF named
    <3> QED BY <2>1, <2>2
  <2>6. \A t \in back : t.kind \in Kinds
    <3> HIDE DEF named
    <3> QED BY <2>1, <2>2
  <2> HIDE DEF cspmu, replay, back, booker
  <2> QED BY <2>3, <2>4, <2>5, <2>6, Zenon
<1> HIDE DEF cspmu, replay, back, booker
<1>10. cspmu \in SUBSET S /\ replay \in SUBSET S /\ back \in SUBSET S /\ booker \in SUBSET S
  OBVIOUS
<1> HIDE DEF S
<1>7. CASE cspmu # {}
  <2>1. PICK s \in Seq(cspmu) : s = SetToSeq(cspmu)
    BY <1>4, OrderedSet
  <2>2. PICK n \in Nat : n = Len(s) /\ DOMAIN s = 1..n
    OBVIOUS
  <2>3. create_perf_thread = s
    BY <1>1, <1>7, <2>1
  <2>4. OfKinds(s)
    BY <1>9, <1>10, ListedKinds, Zenon
  <2> QED BY <2>2, <2>3, <2>4, Zenon
<1>8. CASE cspmu = {}
  <2>1. PICK a \in Seq(replay) : a = SetToSeq(replay)
    BY <1>6, OrderedSet
  <2>2. PICK b \in Seq(back) : b = SetToSeq(back)
    BY <1>6, OrderedSet
  <2>3. PICK c \in Seq(booker) : c = SetToSeq(booker)
    BY <1>5, OrderedSet
  <2>4. create_perf_thread = a \o b \o c
    BY <1>1, <1>8, <2>1, <2>2, <2>3, Zenon
  <2>5. \E n \in Nat : DOMAIN (a \o b \o c) = 1..n
    BY ThreeSequences
  <2>6. a \in Seq(S) /\ b \in Seq(S) /\ c \in Seq(S)
    BY <1>9, <1>10, ListedKinds, Zenon
  <2>7. a \o b \o c \in Seq(S) /\ S \in SUBSET S
    BY <2>6
  <2>8. OfKinds(a \o b \o c)
    BY <1>9, <2>7, ListedKinds, Zenon
  <2> QED BY <2>4, <2>5, <2>8, Zenon
<1> QED BY <1>7, <1>8

-------------------------------------------------------------------------------
(* What an operation leaves alone of a perf_thread and of its history.         *)

ThreadFields ==
  {"kind", "tid", "device", "group", "count", "last_snap", "last_snap_func_id", "scope_values",
   "scope_num_calls", "mValueResults", "results", "reported"}
HistoryFields == {"ticks", "lost", "inside", "cut", "sum", "calls", "spoilt"}
ScopeFields == {"at", "func", "flags", "seen"}

IsThread(t) == DOMAIN t = ThreadFields
IsHistory(h) == DOMAIN h = HistoryFields
IsScope(s) == DOMAIN s = ScopeFields

\* The same perf_thread, with the same sums.
SameSums(t, u) ==
  /\ IsThread(u) /\ u.kind = t.kind /\ u.tid = t.tid
  /\ u.scope_values = t.scope_values /\ u.scope_num_calls = t.scope_num_calls
\* The same snapshot too.
SameSnapshot(t, u) ==
  SameSums(t, u) /\ u.last_snap = t.last_snap /\ u.last_snap_func_id = t.last_snap_func_id

(* The kernel's counter, and a frame's value, are fields of their own. *)
LEMMA CountOrResults ==
  ASSUME NEW t, IsThread(t), NEW x
  PROVE  /\ SameSnapshot(t, [t EXCEPT !.count = x])
         /\ [t EXCEPT !.count = x].group = t.group /\ [t EXCEPT !.count = x].count = x
         /\ SameSnapshot(t, [t EXCEPT !.results = x])
         /\ [t EXCEPT !.results = x].group = t.group /\ [t EXCEPT !.results = x].count = t.count
BY DEF IsThread, ThreadFields, SameSnapshot, SameSums

(* What start() and stop() do to a group. *)
LEMMA EnableOrDisable ==
  ASSUME NEW t, IsThread(t)
  PROVE  /\ SameSnapshot(t, [Reset(t) EXCEPT !.group = "on"])
         /\ [Reset(t) EXCEPT !.group = "on"].group = "on" /\ [Reset(t) EXCEPT !.group = "on"].count = 0
         /\ SameSnapshot(t, StoppedThread(t))
         /\ StoppedThread(t).group = "off" /\ StoppedThread(t).count = t.count
         /\ SameSnapshot(t, Reset(t)) /\ Reset(t).group = t.group /\ Reset(t).count = 0
BY DEF IsThread, ThreadFields, SameSnapshot, SameSums, Reset, StoppedThread

(* What the two ends of a scope do to a perf_thread. *)
LEMMA BeginOrEnd ==
  ASSUME NEW t, IsThread(t), NEW f
  PROVE  /\ SameSums(t, Snapshot(t, f)) /\ Snapshot(t, f).last_snap = t.count
         /\ Snapshot(t, f).group = t.group /\ Snapshot(t, f).count = t.count
         /\ Snapshot(t, f).last_snap_func_id = f
         /\ IsThread(UpdatedThread(t, f))
         /\ UpdatedThread(t, f).kind = t.kind /\ UpdatedThread(t, f).tid = t.tid
         /\ UpdatedThread(t, f).group = t.group /\ UpdatedThread(t, f).count = t.count
         /\ UpdatedThread(t, f).last_snap = t.last_snap
         /\ UpdatedThread(t, f).last_snap_func_id = NoFunc
BY DEF IsThread, ThreadFields, SameSums, Snapshot, UpdatedThread

(* init() makes perf_threads with groups that are off or failed. *)
LEMMA Opened ==
  ASSUME NEW t, NEW opened
  PROVE  /\ IsThread(OpenedThread(t, opened)) /\ OpenedThread(t, opened).group \in {"off", "failed"}
         /\ OpenedThread(t, opened).count = 0 /\ OpenedThread(t, opened).last_snap = 0
         /\ OpenedThread(t, opened).last_snap_func_id = NoFunc
         /\ OpenedThread(t, opened).scope_values = [k \in 1..InitialScopes |-> 0]
         /\ OpenedThread(t, opened).scope_num_calls = <<>>
BY DEF IsThread, ThreadFields, OpenedThread

-------------------------------------------------------------------------------
(* Groups between sessions.                                                    *)

\* The perf_threads are a vector of records.
ThreadsInv ==
  /\ config \in Configs
  /\ \E n \in Nat : Indices = 1..n
  /\ \A i \in Indices : IsThread(mThreads[i])

\* Groups that count without a session are a prefix that ends at one that failed to open.
OnBelowFailed ==
  \A i \in Indices : mThreads[i].group = "on" =>
     /\ \E j \in Indices : j > i /\ mThreads[j].group = "failed"
     /\ \A j \in 1..i : mThreads[j].group = "on"

\* A collector collects only in a session and with every group opened.
GroupsInv ==
  /\ mCollecting \in BOOLEAN
  /\ ~mCollecting => OnBelowFailed
  /\ mCollecting => /\ client.op \in {"session", "read", "reset"}
                    /\ \A i \in Indices : mThreads[i].group # "failed"

OffInv == ThreadsInv /\ GroupsInv

(* A step that leaves the groups and the session alone keeps the invariant. *)
LEMMA GroupsKept ==
  ASSUME OffInv, config' = config, mCollecting' = mCollecting, DOMAIN mThreads' = Indices,
         \A i \in Indices : IsThread(mThreads'[i]) /\ mThreads'[i].group = mThreads[i].group,
         (client.op \in {"session", "read", "reset"}) => client'.op \in {"session", "read", "reset"}
  PROVE  OffInv'
<1> PICK n \in Nat : Indices = 1..n
  BY DEF OffInv, ThreadsInv
<1>1. Indices' = Indices
  BY DEF Indices
<1>2. ThreadsInv'
  BY <1>1 DEF OffInv, ThreadsInv
<1>3. ~mCollecting => OnBelowFailed'
  <2> SUFFICES ASSUME ~mCollecting, NEW i \in Indices, mThreads[i].group = "on"
               PROVE  /\ \E j \in Indices : j > i /\ mThreads'[j].group = "failed"
                      /\ \A j \in 1..i : mThreads'[j].group = "on"
    BY <1>1 DEF OnBelowFailed
  <2>1. PICK j \in Indices : j > i /\ mThreads[j].group = "failed"
    BY DEF OffInv, GroupsInv, OnBelowFailed
  <2>2. \A k \in 1..i : k \in Indices /\ mThreads[k].group = "on"
    BY DEF OffInv, GroupsInv, OnBelowFailed
  <2> QED BY <2>1, <2>2
<1> QED BY <1>1, <1>2, <1>3 DEF OffInv, GroupsInv

(* init(), start(), stop() and deinit() keep the groups in order. *)
LEMMA GroupsSwitched ==
  ASSUME OffInv, init \/ start \/ stop \/ deinit
  PROVE  OffInv'
<1> PICK n \in Nat : Indices = 1..n
  BY DEF OffInv, ThreadsInv
<1>1. CASE init
  <2>1. config' = config /\ mCollecting' = mCollecting /\ ~mCollecting
    BY <1>1 DEF init, collectorVars, At, OffInv, GroupsInv
  <2>2. PICK m \in Nat : DOMAIN create_perf_thread = 1..m
    BY ThreadsIndexed DEF OffInv, ThreadsInv
  <2>3. PICK opened \in SUBSET DOMAIN create_perf_thread :
          mThreads' = [i \in DOMAIN create_perf_thread |->
                         OpenedThread(create_perf_thread[i], i \in opened)]
    BY <1>1, Zenon DEF init
  <2>4. Indices' = 1..m
    BY <2>2, <2>3 DEF Indices
  <2>5. \A i \in Indices' : IsThread(mThreads'[i]) /\ mThreads'[i].group \in {"off", "failed"}
    BY <2>2, <2>3, <2>4, Opened
  <2> QED BY <2>1, <2>4, <2>5 DEF OffInv, ThreadsInv, GroupsInv, OnBelowFailed
<1>2. CASE start
  <2> DEFINE failed == {i \in Indices : mThreads[i].group = "failed"}
             started == {i \in Indices : \A j \in failed : i < j}
  <2>1. /\ mThreads' = [i \in Indices |-> IF i \in started
                                          THEN [Reset(mThreads[i]) EXCEPT !.group = "on"]
                                          ELSE mThreads[i]]
        /\ mCollecting' = (failed = {}) /\ config' = config /\ client'.op = "session" /\ ~mCollecting
    BY <1>2 DEF start, Go, At, OffInv, GroupsInv
  <2>2. Indices' = Indices
    BY <2>1 DEF Indices
  <2>3. ASSUME NEW i \in Indices
        PROVE  /\ IsThread(mThreads[i]) /\ IsThread(mThreads'[i])
               /\ mThreads'[i].group = IF i \in started THEN "on" ELSE mThreads[i].group
    <3>1. IsThread(mThreads[i])
      BY DEF OffInv, ThreadsInv
    <3>2. mThreads'[i] = IF i \in started THEN [Reset(mThreads[i]) EXCEPT !.group = "on"]
                                          ELSE mThreads[i]
      BY <2>1, Zenon
    <3>3. /\ IsThread([Reset(mThreads[i]) EXCEPT !.group = "on"])
          /\ [Reset(mThreads[i]) EXCEPT !.group = "on"].group = "on"
      BY <3>1, EnableOrDisable DEF SameSnapshot, SameSums
    <3> QED BY <3>1, <3>2, <3>3, Zenon
  <2>4. ThreadsInv'
    BY <2>1, <2>2, <2>3 DEF OffInv, ThreadsInv
  <2>5. ASSUME failed # {}
        PROVE  OnBelowFailed'
    <3> SUFFICES ASSUME NEW i \in Indices, mThreads'[i].group = "on"
                 PROVE  /\ \E j \in Indices : j > i /\ mThreads'[j].group = "failed"
                        /\ \A j \in 1..i : mThreads'[j].group = "on"
      BY <2>2 DEF OnBelowFailed
    <3>1. \A j \in failed : j \in Indices /\ mThreads'[j].group = "failed"
      BY <2>3
    <3>2. CASE i \in started
      <4>1. PICK j \in failed : i < j
        BY <2>5, <3>2
      <4>2. \A k \in 1..i : k \in started
        BY <3>2
      <4> QED BY <2>3, <3>1, <4>1, <4>2
    <3>3. CASE i \notin started
      <4>1. mThreads[i].group = "on"
        BY <2>3, <3>3
      <4>2. PICK j \in failed : j > i
        BY <2>1, <4>1 DEF OffInv, GroupsInv, OnBelowFailed
      <4>3. \A k \in 1..i : k \in Indices /\ mThreads[k].group = "on"
        BY <2>1, <4>1 DEF OffInv, GroupsInv, OnBelowFailed
      <4> QED BY <2>3, <3>1, <4>2, <4>3
    <3> QED BY <3>2, <3>3
  <2>6. ASSUME failed = {}
        PROVE  \A i \in Indices : mThreads'[i].group # "failed"
    BY <2>3, <2>6
  <2> HIDE DEF failed, started
  <2>7. (mCollecting' \in BOOLEAN) /\ (mCollecting' <=> failed = {})
    BY <2>1
  <2> QED BY <2>1, <2>2, <2>4, <2>5, <2>6, <2>7 DEF OffInv, GroupsInv
<1>3. CASE stop
  <2>1. /\ config' = config /\ mCollecting' = FALSE
        /\ mThreads' = IF mCollecting THEN [i \in Indices |-> StoppedThread(mThreads[i])]
                                      ELSE mThreads
    BY <1>3 DEF stop
  <2>2. Indices' = Indices
    BY <2>1 DEF Indices
  <2>3. CASE mCollecting
    <3>1. \A i \in Indices : IsThread(mThreads'[i]) /\ mThreads'[i].group = "off"
      <4> TAKE i \in Indices
      <4>1. IsThread(mThreads[i])
        BY DEF OffInv, ThreadsInv
      <4>2. mThreads'[i] = StoppedThread(mThreads[i])
        BY <2>1, <2>3
      <4>3. IsThread(StoppedThread(mThreads[i])) /\ StoppedThread(mThreads[i]).group = "off"
        BY <4>1, EnableOrDisable DEF SameSnapshot, SameSums
      <4> QED BY <4>2, <4>3, Zenon
    <3> QED BY <2>1, <2>2, <3>1 DEF OffInv, ThreadsInv, GroupsInv, OnBelowFailed
  <2>4. CASE ~mCollecting
    <3>1. mThreads' = mThreads
      BY <2>1, <2>4
    <3>2. ThreadsInv' /\ OnBelowFailed'
      BY <2>1, <2>2, <2>4, <3>1 DEF OffInv, ThreadsInv, GroupsInv, OnBelowFailed
    <3> QED BY <2>1, <3>2 DEF OffInv, GroupsInv
  <2> QED BY <2>3, <2>4
<1>4. CASE deinit
  <2>1. config' = config /\ mCollecting' = mCollecting /\ mThreads' = <<>> /\ ~mCollecting
    BY <1>4 DEF deinit, collectorVars, At, OffInv, GroupsInv
  <2>2. Indices' = 1..0
    BY <2>1 DEF Indices
  <2> QED BY <2>1, <2>2 DEF OffInv, ThreadsInv, GroupsInv, OnBelowFailed
<1> QED BY <1>1, <1>2, <1>3, <1>4

\* What a thread's scope does to a perf_thread, if anything.
ScopeChange(t, u) == \E f : u = t \/ u = Snapshot(t, f) \/ u = UpdatedThread(t, f)

(* A scope leaves the session and the number of perf_threads alone. *)
LEMMA ScopeStep ==
  ASSUME NEW tid \in Scopers, Scope(tid)
  PROVE  /\ config' = config /\ mCollecting' = mCollecting /\ client' = client
         /\ DOMAIN mThreads' = Indices
         /\ \A i \in Indices : ScopeChange(mThreads[i], mThreads'[i])
<1>1. ASSUME NEW s \in Scopes, ScopeStart(tid, s.func, s.flags)
      PROVE  /\ DOMAIN mThreads' = Indices
             /\ \A i \in Indices : ScopeChange(mThreads[i], mThreads'[i])
  <2>1. PICK A : mThreads' = [i \in Indices |-> IF i \in A THEN Snapshot(mThreads[i], s.func)
                                                        ELSE mThreads[i]]
    <3> DEFINE A == {i \in Own(tid) : mCollecting /\ CollectsReplay(s.flags)}
    <3>1. mThreads' = [i \in Indices |-> IF mCollecting /\ CollectsReplay(s.flags) /\ i \in Own(tid)
                                         THEN Snapshot(mThreads[i], s.func) ELSE mThreads[i]]
      BY <1>1, Zenon DEF ScopeStart
    <3>2. \A i : i \in A <=> mCollecting /\ CollectsReplay(s.flags) /\ i \in Own(tid)
      OBVIOUS
    <3> HIDE DEF A
    <3> QED BY <3>1, <3>2
  <2> QED BY <2>1 DEF ScopeChange
<1>2. ASSUME ScopeAdd(tid)
      PROVE  /\ DOMAIN mThreads' = Indices
             /\ \A i \in Indices : ScopeChange(mThreads[i], mThreads'[i])
  <2>1. PICK A : \/ mThreads' = [i \in Indices |-> IF i \in A THEN UpdatedThread(mThreads[i], scope[tid].func)
                                                            ELSE mThreads[i]]
                 \/ mThreads' = mThreads
    <3> DEFINE A == IF CollectsReplay(scope[tid].flags) THEN Own(tid) ELSE {}
    <3>1. \/ mThreads' = [i \in Indices |-> IF i \in A THEN UpdatedThread(mThreads[i], scope[tid].func)
                                                      ELSE mThreads[i]]
          \/ mThreads' = mThreads
      BY <1>2 DEF ScopeAdd
    <3> HIDE DEF A
    <3> QED BY <3>1
  <2> QED BY <2>1 DEF ScopeChange, Indices
<1>3. CASE ScopeFlags(tid) \/ ScopeStop(tid)
  <2>1. mThreads' = mThreads
    BY <1>3 DEF ScopeFlags, ScopeStop
  <2>2. config' = config /\ mCollecting' = mCollecting /\ client' = client
    BY <1>3 DEF ScopeFlags, ScopeStop, collectorVars
  <2> QED BY <2>1, <2>2 DEF ScopeChange, Indices
<1>4. CASE ScopeAdd(tid)
  BY <1>2, <1>4 DEF ScopeAdd, collectorVars
<1>5. CASE \E s \in Scopes : ScopeStart(tid, s.func, s.flags)
  <2>1. PICK s \in Scopes : ScopeStart(tid, s.func, s.flags)
    BY <1>5
  <2>2. config' = config /\ mCollecting' = mCollecting /\ client' = client
    BY <2>1, Zenon DEF ScopeStart, collectorVars
  <2> QED BY <1>1, <2>1, <2>2
<1> QED BY <1>3, <1>4, <1>5 DEF Scope

(* The groups are in order in every reachable state. *)
LEMMA GroupsInvariant == Spec => []OffInv
<1>1. Init => OffInv
  <2> SUFFICES ASSUME Init PROVE OffInv
    OBVIOUS
  <2>1. Indices = 1..0 /\ Indices = {} /\ mCollecting = FALSE
    BY DEF Init, Indices
  <2>2. ThreadsInv
    BY <2>1 DEF Init, ThreadsInv
  <2>3. GroupsInv
    BY <2>1 DEF GroupsInv, OnBelowFailed
  <2> QED BY <2>2, <2>3 DEF OffInv
<1>2. OffInv /\ [Next]_vars => OffInv'
  <2> SUFFICES ASSUME OffInv, [Next]_vars PROVE OffInv'
    OBVIOUS
  <2>0. \A i \in Indices : IsThread(mThreads[i])
    BY DEF OffInv, ThreadsInv
  <2>1. CASE init \/ start \/ stop \/ deinit
    BY <2>1, GroupsSwitched
  <2>2. CASE CollectBegin
    BY <2>0, <2>2, GroupsKept DEF CollectBegin, collectorVars, Go, Indices
  <2>3. CASE CollectRead
    <3>1. /\ config' = config /\ mCollecting' = mCollecting /\ client'.op = "reset"
          /\ mThreads' = [mThreads EXCEPT ![client.i].results = Append(@, mThreads[client.i].count)]
      BY <2>3 DEF CollectRead, collectorVars, Go
    <3>2. DOMAIN mThreads' = Indices
      BY <3>1 DEF Indices
    <3>3. ASSUME NEW i \in Indices
          PROVE  IsThread(mThreads'[i]) /\ mThreads'[i].group = mThreads[i].group
      <4>1. PICK x : mThreads'[i] = mThreads[i] \/ mThreads'[i] = [mThreads[i] EXCEPT !.results = x]
        BY <3>1 DEF Indices
      <4>2. /\ IsThread([mThreads[i] EXCEPT !.results = x])
            /\ [mThreads[i] EXCEPT !.results = x].group = mThreads[i].group
        BY <2>0, CountOrResults DEF SameSnapshot, SameSums
      <4> QED BY <2>0, <4>1, <4>2, Zenon
    <3> QED BY <3>1, <3>2, <3>3, GroupsKept
  <2>4. CASE CollectReset
    <3>1. /\ config' = config /\ mCollecting' = mCollecting /\ client'.op \in {"read", "session"}
          /\ mThreads' = [mThreads EXCEPT ![client.i] = Reset(mThreads[client.i])]
      BY <2>4 DEF CollectReset, collectorVars, Go, AfterRead
    <3>2. DOMAIN mThreads' = Indices
      BY <3>1 DEF Indices
    <3>3. ASSUME NEW i \in Indices
          PROVE  IsThread(mThreads'[i]) /\ mThreads'[i].group = mThreads[i].group
      <4>1. mThreads'[i] = mThreads[i] \/ mThreads'[i] = Reset(mThreads[i])
        BY <3>1 DEF Indices
      <4>2. IsThread(Reset(mThreads[i])) /\ Reset(mThreads[i]).group = mThreads[i].group
        BY <2>0, EnableOrDisable DEF SameSnapshot, SameSums
      <4> QED BY <2>0, <4>1, <4>2, Zenon
    <3> QED BY <3>1, <3>2, <3>3, GroupsKept
  <2>5. CASE \E k \in Indices : Tick(k)
    <3>1. PICK k \in Indices : Tick(k)
      BY <2>5
    <3>2. /\ config' = config /\ mCollecting' = mCollecting /\ client' = client
          /\ mThreads' = [mThreads EXCEPT ![k].count = (@ + 1) % Modulus]
      BY <3>1 DEF Tick, collectorVars
    <3>3. DOMAIN mThreads' = Indices
      BY <3>2 DEF Indices
    <3>4. ASSUME NEW i \in Indices
          PROVE  IsThread(mThreads'[i]) /\ mThreads'[i].group = mThreads[i].group
      <4>1. PICK x : mThreads'[i] = mThreads[i] \/ mThreads'[i] = [mThreads[i] EXCEPT !.count = x]
        BY <3>2 DEF Indices
      <4>2. /\ IsThread([mThreads[i] EXCEPT !.count = x])
            /\ [mThreads[i] EXCEPT !.count = x].group = mThreads[i].group
        BY <2>0, CountOrResults DEF SameSnapshot, SameSums
      <4> QED BY <2>0, <4>1, <4>2, Zenon
    <3> QED BY <3>2, <3>3, <3>4, GroupsKept
  <2>6. CASE \E tid \in Scopers : Scope(tid)
    <3>1. PICK tid \in Scopers : Scope(tid)
      BY <2>6
    <3>2. /\ config' = config /\ mCollecting' = mCollecting /\ client' = client
          /\ DOMAIN mThreads' = Indices
          /\ \A i \in Indices : ScopeChange(mThreads[i], mThreads'[i])
      BY <3>1, ScopeStep
    <3>3. ASSUME NEW i \in Indices
          PROVE  IsThread(mThreads'[i]) /\ mThreads'[i].group = mThreads[i].group
      <4>1. ScopeChange(mThreads[i], mThreads'[i])
        BY <3>2
      <4>2. PICK f : \/ mThreads'[i] = mThreads[i]
                     \/ mThreads'[i] = Snapshot(mThreads[i], f)
                     \/ mThreads'[i] = UpdatedThread(mThreads[i], f)
        BY <4>1, Zenon DEF ScopeChange
      <4>3. /\ IsThread(Snapshot(mThreads[i], f)) /\ Snapshot(mThreads[i], f).group = mThreads[i].group
            /\ IsThread(UpdatedThread(mThreads[i], f))
            /\ UpdatedThread(mThreads[i], f).group = mThreads[i].group
        BY <2>0, BeginOrEnd DEF SameSums
      <4> QED BY <2>0, <4>2, <4>3, Zenon
    <3> QED BY <3>2, <3>3, GroupsKept
  <2>7. CASE UNCHANGED vars
    BY <2>0, <2>7, GroupsKept DEF vars, collectorVars, Indices
  <2> QED BY <2>1, <2>2, <2>3, <2>4, <2>5, <2>6, <2>7 DEF Next, Client
<1> QED BY <1>1, <1>2, PTL DEF Spec

\* Between sessions the groups of a perf collector count nothing, except those before one that
\* could not be opened (perf.cpp:351, 383), for every configuration, program and bound.
THEOREM CountersOffBetweenSessionsHolds == Spec => []CountersOffBetweenSessions
<1>1. OffInv => CountersOffBetweenSessions
  BY DEF OffInv, GroupsInv, OnBelowFailed, CountersOffBetweenSessions, At
<1> QED BY <1>1, GroupsInvariant, PTL

-------------------------------------------------------------------------------
(* Scopes find their own beginning.                                            *)

\* The snapshot of a scope that was seen to begin stays that of its function to its end.
MatchInv ==
  \A tid \in Scopers : scope[tid].at # "out" /\ scope[tid].seen =>
     \A i \in Own(tid) : Matches(mThreads[i], scope[tid].func)

\* No thread is in a scope before init().
ScopeInv ==
  /\ DOMAIN scope = Scopers
  /\ \A tid \in Scopers : IsScope(scope[tid])
  /\ client.op = "new" => \A tid \in Scopers : scope[tid].at = "out"
  /\ MatchInv
  /\ ExitsOnlyOnIgnoredStart

(* Frames, sessions and the kernel do not touch a snapshot. *)
LEMMA SnapshotsKept ==
  ASSUME OffInv,
         start \/ CollectBegin \/ CollectRead \/ CollectReset \/ stop \/ \E k \in Indices : Tick(k)
  PROVE  /\ config' = config /\ scope' = scope /\ outcome' = outcome
         /\ client.op # "new" => client'.op # "new"
         /\ DOMAIN mThreads' = Indices
         /\ \A i \in Indices : SameSnapshot(mThreads[i], mThreads'[i])
<1>0. \A i \in Indices : IsThread(mThreads[i]) /\ SameSnapshot(mThreads[i], mThreads[i])
  BY DEF OffInv, ThreadsInv, SameSnapshot, SameSums
<1>1. CASE start
  <2>1. PICK A : mThreads' = [i \in Indices |-> IF i \in A THEN [Reset(mThreads[i]) EXCEPT !.group = "on"]
                                                ELSE mThreads[i]]
    <3> DEFINE A == {i \in Indices : \A j \in {k \in Indices : mThreads[k].group = "failed"} : i < j}
    <3>1. mThreads' = [i \in Indices |-> IF i \in A THEN [Reset(mThreads[i]) EXCEPT !.group = "on"]
                                         ELSE mThreads[i]]
      BY <1>1, Zenon DEF start
    <3> HIDE DEF A
    <3> QED BY <3>1
  <2>2. ASSUME NEW i \in Indices PROVE SameSnapshot(mThreads[i], mThreads'[i])
    <3>1. \/ mThreads'[i] = [Reset(mThreads[i]) EXCEPT !.group = "on"]
          \/ mThreads'[i] = mThreads[i]
      BY <2>1, Zenon
    <3>2. SameSnapshot(mThreads[i], [Reset(mThreads[i]) EXCEPT !.group = "on"])
      BY <1>0, EnableOrDisable
    <3> QED BY <1>0, <3>1, <3>2, Zenon
  <2>3. DOMAIN mThreads' = Indices
    BY <2>1
  <2> QED BY <1>1, <2>2, <2>3 DEF start, Go
<1>2. CASE CollectBegin
  BY <1>0, <1>2 DEF CollectBegin, collectorVars, Go, Indices
<1>3. CASE CollectRead
  <2>1. mThreads' = [mThreads EXCEPT ![client.i].results = Append(@, mThreads[client.i].count)]
    BY <1>3 DEF CollectRead
  <2>2. ASSUME NEW i \in Indices PROVE SameSnapshot(mThreads[i], mThreads'[i])
    <3>1. PICK x : mThreads'[i] = mThreads[i] \/ mThreads'[i] = [mThreads[i] EXCEPT !.results = x]
      BY <2>1 DEF Indices
    <3>2. SameSnapshot(mThreads[i], [mThreads[i] EXCEPT !.results = x])
      BY <1>0, CountOrResults
    <3> QED BY <1>0, <3>1, <3>2, Zenon
  <2>3. DOMAIN mThreads' = Indices
    BY <2>1 DEF Indices
  <2> QED BY <1>3, <2>2, <2>3 DEF CollectRead, collectorVars, Go
<1>4. CASE CollectReset
  <2>1. mThreads' = [mThreads EXCEPT ![client.i] = Reset(mThreads[client.i])]
    BY <1>4 DEF CollectReset, AfterRead
  <2>2. ASSUME NEW i \in Indices PROVE SameSnapshot(mThreads[i], mThreads'[i])
    <3>1. mThreads'[i] = mThreads[i] \/ mThreads'[i] = Reset(mThreads[i])
      BY <2>1 DEF Indices
    <3>2. SameSnapshot(mThreads[i], Reset(mThreads[i]))
      BY <1>0, EnableOrDisable
    <3> QED BY <1>0, <3>1, <3>2, Zenon
  <2>3. DOMAIN mThreads' = Indices
    BY <2>1 DEF Indices
  <2> QED BY <1>4, <2>2, <2>3 DEF CollectReset, collectorVars, Go
<1>5. CASE stop
  <2>1. mThreads' = mThreads \/ mThreads' = [i \in Indices |-> StoppedThread(mThreads[i])]
    BY <1>5 DEF stop
  <2>2. ASSUME NEW i \in Indices PROVE SameSnapshot(mThreads[i], mThreads'[i])
    <3>1. mThreads'[i] = mThreads[i] \/ mThreads'[i] = StoppedThread(mThreads[i])
      BY <2>1
    <3>2. SameSnapshot(mThreads[i], StoppedThread(mThreads[i]))
      BY <1>0, EnableOrDisable
    <3> QED BY <1>0, <3>1, <3>2, Zenon
  <2>3. DOMAIN mThreads' = Indices
    BY <2>1 DEF Indices
  <2> QED BY <1>5, <2>2, <2>3 DEF stop, Go
<1>6. CASE \E k \in Indices : Tick(k)
  <2> PICK k \in Indices : Tick(k)
    BY <1>6
  <2>1. mThreads' = [mThreads EXCEPT ![k].count = (@ + 1) % Modulus]
    BY DEF Tick
  <2>2. ASSUME NEW i \in Indices PROVE SameSnapshot(mThreads[i], mThreads'[i])
    <3>1. PICK x : mThreads'[i] = mThreads[i] \/ mThreads'[i] = [mThreads[i] EXCEPT !.count = x]
      BY <2>1 DEF Indices
    <3>2. SameSnapshot(mThreads[i], [mThreads[i] EXCEPT !.count = x])
      BY <1>0, CountOrResults
    <3> QED BY <1>0, <3>1, <3>2, Zenon
  <2>3. DOMAIN mThreads' = Indices
    BY <2>1 DEF Indices
  <2> QED BY <2>2, <2>3 DEF Tick, collectorVars
<1> QED BY <1>1, <1>2, <1>3, <1>4, <1>5, <1>6

(* Scopes are where they were, and their snapshots too: the invariant is kept. *)
LEMMA MatchesKept ==
  ASSUME ScopeInv, config' = config, scope' = scope, outcome' = outcome,
         client.op # "new" => client'.op # "new",
         DOMAIN mThreads' = Indices, \A i \in Indices : SameSnapshot(mThreads[i], mThreads'[i])
  PROVE  ScopeInv'
<1>1. Scopers' = Scopers /\ Indices' = Indices
  BY DEF Scopers, Indices
<1>2. MatchInv'
  <2> SUFFICES ASSUME NEW tid \in Scopers, scope[tid].at # "out", scope[tid].seen, NEW i \in Own(tid)'
               PROVE  Matches(mThreads'[i], scope[tid].func)
    BY <1>1, Zenon DEF MatchInv
  <2>1. i \in Indices /\ mThreads'[i].kind = "replay" /\ mThreads'[i].tid = tid
    BY <1>1 DEF Own
  <2>2. i \in Own(tid)
    BY <2>1 DEF Own, SameSnapshot, SameSums
  <2>3. Matches(mThreads[i], scope[tid].func)
    BY <2>2, Zenon DEF ScopeInv, MatchInv
  <2> QED BY <2>1, <2>3, Zenon DEF Matches, SameSnapshot
<1>3. ExitsOnlyOnIgnoredStart'
  BY <1>1, Zenon DEF ScopeInv, ExitsOnlyOnIgnoredStart
<1>4. client'.op = "new" => \A tid \in Scopers : scope[tid].at = "out"
  BY DEF ScopeInv
<1> QED BY <1>1, <1>2, <1>3, <1>4, Zenon DEF ScopeInv

(* Making and deleting the perf_threads breaks no scope. *)
LEMMA MatchesAcrossLives ==
  ASSUME ScopeInv, init \/ deinit
  PROVE  ScopeInv'
<1>1. config' = config /\ scope' = scope /\ outcome' = "ok" /\ client'.op # "new"
  BY DEF init, deinit, collectorVars, Go, At
<1>2. Scopers' = Scopers
  BY <1>1 DEF Scopers
<1>3. MatchInv'
  <2> SUFFICES ASSUME NEW tid \in Scopers, scope[tid].at # "out", scope[tid].seen, NEW i \in Own(tid)'
               PROVE  FALSE
    BY <1>1, <1>2, Zenon DEF MatchInv
  <2>1. CASE init
    BY <2>1 DEF init, At, ScopeInv
  <2>2. CASE deinit
    BY <2>2 DEF deinit, Own, Indices
  <2> QED BY <2>1, <2>2
<1>4. ExitsOnlyOnIgnoredStart'
  BY <1>1 DEF ExitsOnlyOnIgnoredStart
<1> QED BY <1>1, <1>2, <1>3, <1>4, Zenon DEF ScopeInv

(* A step of one thread's scope keeps the invariant if it does for that thread, and leaves *)
(* the perf_threads of other threads alone.                                                *)
LEMMA MatchesElsewhere ==
  ASSUME ScopeInv, NEW tid \in Scopers, NEW s, IsScope(s), config' = config, client' = client,
         client.op # "new" \/ s.at = "out", outcome' = "ok",
         scope' = [scope EXCEPT ![tid] = s], DOMAIN mThreads' = Indices,
         \A i \in Indices : mThreads'[i].kind = mThreads[i].kind /\ mThreads'[i].tid = mThreads[i].tid,
         \A i \in Indices \ Own(tid) : mThreads'[i].last_snap_func_id = mThreads[i].last_snap_func_id,
         s.at # "out" /\ s.seen => \A i \in Own(tid) : Matches(mThreads'[i], s.func)
  PROVE  ScopeInv'
<1>1. Scopers' = Scopers /\ Indices' = Indices
  BY DEF Scopers, Indices
<1>2. DOMAIN scope' = Scopers /\ scope'[tid] = s /\ \A u \in Scopers \ {tid} : scope'[u] = scope[u]
  BY DEF ScopeInv
<1>3. \A u \in Scopers : Own(u)' = Own(u)
  <2> TAKE u \in Scopers
  <2>1. \A i : i \in Own(u)' <=> i \in Own(u)
    BY <1>1 DEF Own
  <2> QED BY <2>1
<1>4. MatchInv'
  <2> SUFFICES ASSUME NEW u \in Scopers, scope'[u].at # "out", scope'[u].seen, NEW i \in Own(u)
               PROVE  Matches(mThreads'[i], scope'[u].func)
    BY <1>1, <1>3, Zenon DEF MatchInv
  <2>1. CASE u = tid
    BY <1>2, <2>1, Zenon
  <2>2. CASE u # tid
    <3>1. scope'[u] = scope[u]
      BY <1>2, <2>2
    <3>2. Matches(mThreads[i], scope[u].func)
      BY <3>1, Zenon DEF ScopeInv, MatchInv
    <3>3. i \in Indices \ Own(tid)
      BY <2>2 DEF Own
    <3> QED BY <3>1, <3>2, <3>3, Zenon DEF Matches
  <2> QED BY <2>1, <2>2
<1>5. \A u \in Scopers : IsScope(scope'[u])
  BY <1>2, Zenon DEF ScopeInv
<1>6. client'.op = "new" => \A u \in Scopers : scope'[u].at = "out"
  BY <1>2, Zenon DEF ScopeInv
<1>7. ExitsOnlyOnIgnoredStart'
  BY DEF ExitsOnlyOnIgnoredStart
<1> QED BY <1>1, <1>2, <1>4, <1>5, <1>6, <1>7, Zenon DEF ScopeInv

(* The four steps of a scope keep the invariant. *)
LEMMA ScopeMatches ==
  ASSUME OffInv, ScopeInv, NEW tid \in Scopers, Scope(tid)
  PROVE  ScopeInv'
<1>0. \A i \in Indices : IsThread(mThreads[i])
  BY DEF OffInv, ThreadsInv
<1>1. ASSUME NEW s \in Scopes, ScopeStart(tid, s.func, s.flags)
      PROVE  ScopeInv'
  <2> DEFINE noticed == mCollecting /\ CollectsReplay(s.flags)
             new == [at |-> IF mCollecting THEN "flags" ELSE "in",
                     func |-> s.func, flags |-> s.flags, seen |-> noticed]
  <2>1. /\ config' = config /\ client' = client /\ client.op # "new" /\ outcome' = "ok"
        /\ scope' = [scope EXCEPT ![tid] = new]
        /\ mThreads' = [i \in Indices |-> IF noticed /\ i \in Own(tid)
                                          THEN Snapshot(mThreads[i], s.func) ELSE mThreads[i]]
    <3>1. /\ config' = config /\ client' = client /\ outcome = "ok" /\ outcome' = outcome
          /\ client.op \notin {"new", "deleted"}
          /\ scope' = [scope EXCEPT ![tid] = new]
          /\ mThreads' = [i \in Indices |-> IF noticed /\ i \in Own(tid)
                                            THEN Snapshot(mThreads[i], s.func) ELSE mThreads[i]]
      BY <1>1, Zenon DEF ScopeStart, collectorVars
    <3> HIDE DEF new, noticed
    <3> QED BY <3>1
  <2>2. IsScope(new) /\ new.func = s.func /\ (new.seen <=> noticed)
    BY Zenon DEF IsScope, ScopeFields
  <2> HIDE DEF new, noticed
  <2>3. DOMAIN mThreads' = Indices
    BY <2>1
  <2>4. ASSUME NEW i \in Indices
        PROVE  /\ mThreads'[i].kind = mThreads[i].kind /\ mThreads'[i].tid = mThreads[i].tid
               /\ i \notin Own(tid) => mThreads'[i].last_snap_func_id = mThreads[i].last_snap_func_id
               /\ noticed /\ i \in Own(tid) => Matches(mThreads'[i], s.func)
    <3>1. mThreads'[i] = IF noticed /\ i \in Own(tid) THEN Snapshot(mThreads[i], s.func) ELSE mThreads[i]
      BY <2>1, Zenon
    <3>2. /\ Snapshot(mThreads[i], s.func).kind = mThreads[i].kind
          /\ Snapshot(mThreads[i], s.func).tid = mThreads[i].tid
          /\ Snapshot(mThreads[i], s.func).last_snap_func_id = s.func
      BY <1>0, BeginOrEnd DEF SameSums
    <3> QED BY <3>1, <3>2, Zenon DEF Matches
  <2>5. new.at # "out" /\ new.seen => \A i \in Own(tid) : Matches(mThreads'[i], new.func)
    <3>1. \A i \in Own(tid) : i \in Indices
      BY DEF Own
    <3> QED BY <2>2, <2>4, <3>1, Zenon
  <2>6. \A i \in Indices \ Own(tid) : mThreads'[i].last_snap_func_id = mThreads[i].last_snap_func_id
    BY <2>4
  <2> QED BY <2>1, <2>2, <2>3, <2>4, <2>5, <2>6, MatchesElsewhere
<1>2. ASSUME scope[tid].at # "out" PROVE client.op # "new"
  BY <1>2 DEF ScopeInv
<1>3. CASE ScopeFlags(tid)
  <2> DEFINE new == [scope[tid] EXCEPT !.at = "in"]
  <2>1. /\ config' = config /\ client' = client /\ outcome' = "ok" /\ scope[tid].at = "flags"
        /\ scope' = [scope EXCEPT ![tid] = new] /\ mThreads' = mThreads
    BY <1>3 DEF ScopeFlags
  <2>2. IsScope(new) /\ new.func = scope[tid].func /\ new.seen = scope[tid].seen
    <3>1. IsScope(scope[tid])
      BY DEF ScopeInv
    <3> QED BY <3>1 DEF IsScope, ScopeFields
  <2> HIDE DEF new
  <2>3. new.at # "out" /\ new.seen => \A i \in Own(tid) : Matches(mThreads'[i], new.func)
    BY <2>1, <2>2, Zenon DEF ScopeInv, MatchInv
  <2>4. client.op # "new"
    BY <1>2, <2>1
  <2> QED BY <2>1, <2>2, <2>3, <2>4, MatchesElsewhere DEF Indices
<1>4. CASE ScopeStop(tid)
  <2> DEFINE new == IF mCollecting /\ last_collect_scope_flags = scope[tid].flags
                    THEN [scope[tid] EXCEPT !.at = "add"] ELSE Outside
  <2>1. /\ config' = config /\ client' = client /\ outcome' = "ok" /\ scope[tid].at = "in"
        /\ scope' = [scope EXCEPT ![tid] = new] /\ mThreads' = mThreads
    BY <1>4 DEF ScopeStop, collectorVars
  <2>2. /\ IsScope(new)
        /\ new.at = "out" \/ (new.func = scope[tid].func /\ new.seen = scope[tid].seen)
    <3>1. IsScope(scope[tid])
      BY DEF ScopeInv
    <3> QED BY <3>1 DEF IsScope, ScopeFields, Outside
  <2> HIDE DEF new
  <2>3. new.at # "out" /\ new.seen => \A i \in Own(tid) : Matches(mThreads'[i], new.func)
    BY <2>1, <2>2, Zenon DEF ScopeInv, MatchInv
  <2>4. client.op # "new"
    BY <1>2, <2>1
  <2> QED BY <2>1, <2>2, <2>3, <2>4, MatchesElsewhere DEF Indices
<1>5. CASE ScopeAdd(tid)
  <2> DEFINE own == IF CollectsReplay(scope[tid].flags) THEN Own(tid) ELSE {}
  <2>1. own \subseteq Own(tid)
    OBVIOUS
  <2>2. outcome = "ok" /\ scope[tid].at = "add" /\ config' = config /\ client' = client
    BY <1>5 DEF ScopeAdd, collectorVars
  <2>3. CASE \A i \in own : Matches(mThreads[i], scope[tid].func)
    <3>1. /\ mThreads' = [i \in Indices |-> IF i \in own THEN UpdatedThread(mThreads[i], scope[tid].func)
                                            ELSE mThreads[i]]
          /\ scope' = [scope EXCEPT ![tid] = Outside] /\ outcome' = outcome
      BY <1>5, <2>3, Zenon DEF ScopeAdd
    <3> HIDE DEF own
    <3>2. IsScope(Outside) /\ Outside.at = "out"
      BY DEF Outside, IsScope, ScopeFields
    <3>3. ASSUME NEW i \in Indices
          PROVE  /\ mThreads'[i].kind = mThreads[i].kind /\ mThreads'[i].tid = mThreads[i].tid
                 /\ i \notin Own(tid) => mThreads'[i].last_snap_func_id = mThreads[i].last_snap_func_id
      <4>1. mThreads'[i] = IF i \in own THEN UpdatedThread(mThreads[i], scope[tid].func) ELSE mThreads[i]
        BY <3>1, Zenon
      <4>2. /\ UpdatedThread(mThreads[i], scope[tid].func).kind = mThreads[i].kind
            /\ UpdatedThread(mThreads[i], scope[tid].func).tid = mThreads[i].tid
        BY <1>0, BeginOrEnd
      <4> QED BY <2>1, <4>1, <4>2, Zenon
    <3>4. \A i \in Indices \ Own(tid) : mThreads'[i].last_snap_func_id = mThreads[i].last_snap_func_id
      BY <3>3
    <3>5. DOMAIN mThreads' = Indices
      BY <3>1
    <3> QED BY <2>2, <3>1, <3>2, <3>3, <3>4, <3>5, MatchesElsewhere
  <2>4. CASE ~ \A i \in own : Matches(mThreads[i], scope[tid].func)
    <3>1. mThreads' = mThreads /\ scope' = scope
      BY <1>5, <2>4, Zenon DEF ScopeAdd
    <3>2. ~ scope[tid].seen
      <4>1. SUFFICES ASSUME scope[tid].seen PROVE FALSE
        OBVIOUS
      <4>2. scope[tid].at # "out"
        BY <2>2
      <4>3. \A i \in Own(tid) : Matches(mThreads[i], scope[tid].func)
        BY <4>1, <4>2, Zenon DEF ScopeInv, MatchInv
      <4> HIDE DEF own
      <4> QED BY <2>1, <2>4, <4>3
    <3> HIDE DEF own
    <3>3. Scopers' = Scopers /\ \A u : Own(u)' = Own(u)
      BY <2>2, <3>1 DEF Scopers, Own, Indices
    <3>4. ExitsOnlyOnIgnoredStart'
      BY <2>2, <3>1, <3>2, <3>3, Zenon DEF ExitsOnlyOnIgnoredStart
    <3>5. MatchInv'
      BY <3>1, <3>3, Zenon DEF ScopeInv, MatchInv
    <3> QED BY <2>2, <3>1, <3>3, <3>4, <3>5, Zenon DEF ScopeInv
  <2> QED BY <2>3, <2>4
<1> QED BY <1>1, <1>3, <1>4, <1>5 DEF Scope

(* Scopes match their snapshots in every reachable state. *)
LEMMA ScopesInvariant == Spec => []ScopeInv
<1>1. Init => ScopeInv
  <2> SUFFICES ASSUME Init PROVE ScopeInv
    OBVIOUS
  <2>1. scope = [t \in Scopers |-> Outside] /\ outcome = "ok"
    BY DEF Init
  <2>2. Outside.at = "out" /\ IsScope(Outside)
    BY DEF Outside, IsScope, ScopeFields
  <2>3. DOMAIN scope = Scopers /\ \A tid \in Scopers : scope[tid] = Outside
    BY <2>1
  <2>4. MatchInv
    BY <2>2, <2>3, Zenon DEF MatchInv
  <2>5. ExitsOnlyOnIgnoredStart
    BY <2>1 DEF ExitsOnlyOnIgnoredStart
  <2> QED BY <2>2, <2>3, <2>4, <2>5, Zenon DEF ScopeInv
<1>2. OffInv /\ ScopeInv /\ [Next]_vars => ScopeInv'
  <2> SUFFICES ASSUME OffInv, ScopeInv, [Next]_vars PROVE ScopeInv'
    OBVIOUS
  <2>1. CASE init \/ deinit
    BY <2>1, MatchesAcrossLives
  <2>2. CASE start \/ CollectBegin \/ CollectRead \/ CollectReset \/ stop \/ \E k \in Indices : Tick(k)
    BY <2>2, SnapshotsKept, MatchesKept
  <2>3. CASE \E tid \in Scopers : Scope(tid)
    BY <2>3, ScopeMatches
  <2>4. CASE UNCHANGED vars
    <3>1. \A i \in Indices : SameSnapshot(mThreads[i], mThreads[i])
      BY DEF OffInv, ThreadsInv, SameSnapshot, SameSums
    <3> QED BY <2>4, <3>1, MatchesKept DEF vars, collectorVars, Indices
  <2> QED BY <2>1, <2>2, <2>3, <2>4 DEF Next, Client
<1> QED BY <1>1, <1>2, GroupsInvariant, PTL DEF Spec

\* perf.cpp:722: whatever other threads, frames and sessions do, a scope that began while the
\* collector collected finds its own snapshot; the process is ended only for one that did not.
THEOREM ExitsOnlyOnIgnoredStartHolds == Spec => []ExitsOnlyOnIgnoredStart
<1>1. ScopeInv => ExitsOnlyOnIgnoredStart
  BY DEF ScopeInv
<1> QED BY <1>1, ScopesInvariant, PTL

-------------------------------------------------------------------------------
(* The sums of scopes.                                                         *)

(* The vector has a slot for the function, and never shrinks. *)
LEMMA GrownSlot ==
  ASSUME NEW n \in Nat, NEW f \in 0..MAX_SCOPES-1
  PROVE  GrownSize(n, f) \in Nat /\ f < GrownSize(n, f) /\ n <= GrownSize(n, f)
<1>1. f \in Nat /\ f * 2 + 1 \in Nat /\ f < f * 2 + 1 /\ MAX_SCOPES \in Nat /\ f < MAX_SCOPES
  <2>1. f \in Nat /\ MAX_SCOPES \in Nat /\ f < MAX_SCOPES
    BY DEF MAX_SCOPES
  <2>2. \A g \in Nat : g * 2 + 1 \in Nat /\ g < g * 2 + 1
    OBVIOUS
  <2> QED BY <2>1, <2>2, Zenon
<1>2. CASE n <= f
  <2>1. n <= f * 2 + 1 /\ n <= MAX_SCOPES
    BY <1>1, <1>2
  <2> QED BY <1>1, <1>2, <2>1, Zenon DEF GrownSize
<1>3. CASE ~(n <= f)
  <2>1. f < n /\ n <= n
    BY <1>1, <1>3
  <2> QED BY <1>3, <2>1, Zenon DEF GrownSize
<1> QED BY <1>2, <1>3

(* What vector[func_id] += amount does: the slot exists, and no other sum changes. *)
LEMMA AddAtVector ==
  ASSUME NEW v \in Seq(Nat), NEW f \in 0..MAX_SCOPES-1, NEW x \in Nat
  PROVE  /\ AddAt(v, f, x) \in Seq(Nat) /\ f + 1 \in 1..Len(AddAt(v, f, x))
         /\ At0(AddAt(v, f, x), f) = At0(v, f) + x
         /\ \A g \in Nat \ {f} : At0(AddAt(v, f, x), g) = At0(v, g)
<1>1. PICK n \in Nat : n = Len(v)
  OBVIOUS
<1>0. f \in Nat
  BY DEF MAX_SCOPES
<1>2. PICK m \in Nat : m = GrownSize(n, f)
  BY GrownSlot, Zenon
<1>3. f < m /\ n <= m /\ f \in Nat
  BY <1>0, <1>2, GrownSlot, Zenon
<1>4. Grown(v, f) = [k \in 1..m |-> IF k <= n THEN v[k] ELSE 0]
  BY <1>1, <1>2 DEF Grown
<1>5. \A k \in 1..n : v[k] \in Nat
  BY <1>1
<1>6. PICK g \in [1..m -> Nat] : g = [k \in 1..m |-> IF k <= n THEN v[k] ELSE 0]
  <2>1. [k \in 1..m |-> IF k <= n THEN v[k] ELSE 0] \in [1..m -> Nat]
    BY <1>5
  <2> QED BY <2>1
<1>7. PICK w \in [1..m -> Nat] : w = [g EXCEPT ![f + 1] = @ + x]
  <2>1. f + 1 \in 1..m /\ g[f + 1] + x \in Nat
    BY <1>3
  <2> QED BY <2>1
<1>8. AddAt(v, f, x) = w
  BY <1>4, <1>6, <1>7 DEF AddAt
<1>9. w \in Seq(Nat) /\ Len(w) = m
  BY <1>7
<1>10. \A k \in 1..m : w[k] = IF k = f + 1 THEN g[k] + x ELSE g[k]
  BY <1>3, <1>7
<1>11. \A k \in 1..m : g[k] = IF k <= n THEN v[k] ELSE 0
  BY <1>6
<1>12. At0(w, f) = At0(v, f) + x
  <2>1. f + 1 \in 1..m /\ (f < n <=> f + 1 <= n) /\ f < m
    BY <1>3
  <2> QED BY <1>1, <1>9, <1>10, <1>11, <2>1 DEF At0
<1>13. ASSUME NEW h \in Nat \ {f}
       PROVE  At0(w, h) = At0(v, h)
  <2>1. CASE h < m
    <3>1. h + 1 \in 1..m /\ h + 1 # f + 1 /\ (h < n <=> h + 1 <= n)
      BY <1>3, <2>1
    <3> QED BY <1>1, <1>9, <1>10, <1>11, <2>1, <3>1 DEF At0
  <2>2. CASE ~(h < m)
    <3>1. ~(h < n)
      BY <1>3, <2>2
    <3> QED BY <1>1, <1>9, <2>2, <3>1 DEF At0
  <2> QED BY <2>1, <2>2
<1> QED BY <1>3, <1>8, <1>9, <1>12, <1>13

\* scope_values[f] += x, and what makes w the outcome of that.
Summed(v, f, x) == [AddAt(v, f, x) EXCEPT ![f + 1] = @ % Modulus]
HasSum(w, v, f, x) ==
  /\ w \in Seq(Nat)
  /\ At0(w, f) = (At0(v, f) + x) % Modulus
  /\ \A g \in Nat \ {f} : At0(w, g) = At0(v, g)

(* Sums are kept modulo the width of a counter. *)
LEMMA SumWraps ==
  ASSUME NEW v \in Seq(Nat), NEW f \in 0..MAX_SCOPES-1, NEW x \in Nat
  PROVE  HasSum(Summed(v, f, x), v, f, x)
<1> PICK w : w = Summed(v, f, x)
  BY Zenon
<1>0. w = [AddAt(v, f, x) EXCEPT ![f + 1] = @ % Modulus]
  BY Zenon DEF Summed
<1>1. PICK u \in Seq(Nat) : /\ u = AddAt(v, f, x) /\ f + 1 \in 1..Len(u)
                           /\ At0(u, f) = At0(v, f) + x
                           /\ \A g \in Nat \ {f} : At0(u, g) = At0(v, g)
  BY AddAtVector
<1>2. Modulus \in Nat \ {0}
  BY PerfAssumption
<1>3. PICK m \in Nat : m = Len(u)
  OBVIOUS
<1>4. u \in [1..m -> Nat] /\ f + 1 \in 1..m /\ f \in Nat /\ f < m
  <2>1. u \in [1..m -> Nat]
    BY <1>3
  <2>2. f + 1 \in 1..m
    BY <1>1, <1>3, Zenon
  <2> QED BY <2>1, <2>2
<1>5. u[f + 1] \in Nat /\ u[f + 1] % Modulus \in Nat
  BY <1>2, <1>4
<1>6. w \in [1..m -> Nat] /\ w[f + 1] = u[f + 1] % Modulus
  BY <1>0, <1>1, <1>4, <1>5
<1>7. w \in Seq(Nat) /\ Len(w) = m
  <2>1. PICK z \in [1..m -> Nat] : z = w
    BY <1>6
  <2>2. z \in Seq(Nat) /\ Len(z) = m
    OBVIOUS
  <2> QED BY <2>1, <2>2
<1>8. At0(u, f) = u[f + 1] /\ At0(w, f) = w[f + 1]
  BY <1>3, <1>4, <1>7 DEF At0
<1>9. ASSUME NEW g \in Nat \ {f}
      PROVE  At0(w, g) = At0(u, g)
  <2>1. g + 1 # f + 1
    BY <1>4
  <2>2. w[g + 1] = u[g + 1] \/ ~(g < m)
    BY <1>0, <1>1, <1>4, <2>1
  <2> QED BY <1>3, <1>7, <2>2 DEF At0
<1>10. At0(w, f) = (At0(v, f) + x) % Modulus
  BY <1>1, <1>6, <1>8, Zenon
<1>11. \A g \in Nat \ {f} : At0(w, g) = At0(v, g)
  BY <1>1, <1>9
<1> QED BY <1>7, <1>10, <1>11, Zenon DEF HasSum

(* The difference of two readings of a counter that wrapped at most once. *)
LEMMA Difference ==
  ASSUME NEW M \in Nat, NEW count \in 0..M-1, NEW snap \in 0..M-1, NEW inside \in 0..M-1,
         count = snap + inside \/ count = snap + inside - M
  PROVE  (count - snap) % M = inside
<1>1. count - snap = inside \/ count - snap = inside - M
  OBVIOUS
<1>2. inside % M = inside /\ (inside - M) % M = inside
  OBVIOUS
<1> QED BY <1>1, <1>2

\* A counter that read snap has counted inside since, and wrapped at most once.
Counted(count, snap, inside) == count = snap + inside \/ count = snap + inside - Modulus

\* The sums and numbers of a perf_thread are those of its history.
Accounted(t, h) ==
  \A f \in Funcs \ h.spoilt :
     /\ At0(t.scope_values, f) = h.sum[f]
     /\ At0(t.scope_num_calls, f) = h.calls[f]

\* What makes the next sum right: an open scope has its snapshot, and has counted what its
\* history says, unless it was cut; n bounds what can be counted.
Exact(t, h, n) ==
  /\ IsHistory(h) /\ h.cut \in BOOLEAN /\ h.inside \in 0..n
  /\ t.count \in Values /\ t.last_snap \in Values
  /\ t.scope_values \in Seq(Nat) /\ t.scope_num_calls \in Seq(Nat)
  /\ DOMAIN h.sum = Funcs /\ DOMAIN h.calls = Funcs
  /\ t.last_snap_func_id # NoFunc /\ ~h.cut => Counted(t.count, t.last_snap, h.inside)
  /\ Accounted(t, h)

SumInv ==
  /\ ticks \in 0..MaxTicks
  /\ DOMAIN hist = Indices
  /\ \A i \in Indices : Exact(mThreads[i], hist[i], ticks)
  /\ \A tid \in Scopers : scope[tid].at # "out" => scope[tid].func \in Funcs

(* The invariant needs of a perf_thread only its snapshot, its count and its sums. *)
LEMMA ExactKept ==
  ASSUME NEW t, NEW u, NEW h, NEW n \in Nat, NEW m \in Nat, n <= m,
         Exact(t, h, n), SameSnapshot(t, u), u.count = t.count
  PROVE  Exact(u, h, m)
<1>1. h.inside \in 0..m
  BY DEF Exact
<1>2. Accounted(u, h)
  BY Zenon DEF Exact, Accounted, SameSnapshot, SameSums
<1> QED BY <1>1, <1>2, Zenon DEF Exact, SameSnapshot, SameSums

(* A reset cuts the scope that is open. *)
LEMMA ExactCut ==
  ASSUME NEW t, NEW u, NEW h, NEW n \in Nat, NEW x,
         Exact(t, h, n), SameSnapshot(t, u), u.count = 0
  PROVE  Exact(u, Cut(h, t, x), n)
<1>1. /\ IsHistory(Cut(h, t, x)) /\ Cut(h, t, x).inside = h.inside /\ Cut(h, t, x).sum = h.sum
      /\ Cut(h, t, x).calls = h.calls /\ Cut(h, t, x).spoilt = h.spoilt
      /\ Cut(h, t, x).cut = (h.cut \/ t.last_snap_func_id # NoFunc)
  BY Zenon DEF Exact, IsHistory, HistoryFields, Cut
<1>2. Cut(h, t, x).cut \in BOOLEAN /\ (u.last_snap_func_id # NoFunc => Cut(h, t, x).cut)
  BY <1>1, Zenon DEF SameSnapshot
<1>3. Accounted(u, Cut(h, t, x))
  BY <1>1, Zenon DEF Exact, Accounted, SameSnapshot, SameSums
<1>4. 0 \in Values
  BY PerfAssumption DEF Values
<1> QED BY <1>1, <1>2, <1>3, <1>4, Zenon DEF Exact, SameSnapshot, SameSums

(* An event is counted once, in the counter and in the history of the scope that is open. *)
LEMMA ExactTick ==
  ASSUME MaxTicks < Modulus, NEW t, NEW u, NEW h, NEW g, NEW n \in Nat, n < MaxTicks,
         Exact(t, h, n), SameSnapshot(t, u), u.count = (t.count + 1) % Modulus,
         IsHistory(g), g.cut = h.cut, g.sum = h.sum, g.calls = h.calls, g.spoilt = h.spoilt,
         g.inside = IF t.last_snap_func_id # NoFunc THEN h.inside + 1 ELSE h.inside
  PROVE  Exact(u, g, n + 1)
<1>0. Modulus \in Nat \ {0} /\ MaxTicks \in Nat
  BY PerfAssumption
<1>1. g.inside \in 0..(n + 1)
  BY DEF Exact
<1>2. PICK c \in 0..Modulus-1 : c = t.count
  BY DEF Exact, Values
<1>3. PICK k \in 0..n : k = h.inside
  BY DEF Exact
<1>4. PICK s \in 0..Modulus-1 : s = t.last_snap
  BY DEF Exact, Values
<1>5. (c + 1) % Modulus = IF c + 1 < Modulus THEN c + 1 ELSE 0
  <2>1. CASE c + 1 < Modulus
    BY <1>0, <2>1
  <2>2. CASE ~(c + 1 < Modulus)
    <3>1. c + 1 = Modulus
      BY <1>0, <2>2
    <3>2. Modulus % Modulus = 0
      BY <1>0
    <3> QED BY <3>1, <3>2, <1>0
  <2> QED BY <2>1, <2>2
<1>6. u.count \in Values
  BY <1>0, <1>2, <1>5 DEF Values
<1>7. ASSUME u.last_snap_func_id # NoFunc, ~g.cut
      PROVE  Counted(u.count, u.last_snap, g.inside)
  <2>1. u.last_snap = s /\ g.inside = k + 1 /\ u.count = (c + 1) % Modulus
    BY <1>2, <1>3, <1>4, <1>7, Zenon DEF SameSnapshot
  <2>2. c = s + k \/ c = s + k - Modulus
    BY <1>2, <1>3, <1>4, <1>7, Zenon DEF Exact, Counted, SameSnapshot
  <2>3. (c + 1) % Modulus = s + (k + 1) \/ (c + 1) % Modulus = s + (k + 1) - Modulus
    <3>1. k + 1 < Modulus
      BY <1>0
    <3> QED BY <1>0, <1>5, <2>2, <3>1
  <2> QED BY <2>1, <2>3, Zenon DEF Counted
<1>8. Accounted(u, g)
  BY Zenon DEF Exact, Accounted, SameSnapshot, SameSums
<1> QED BY <1>1, <1>6, <1>7, <1>8, Zenon DEF Exact, SameSnapshot, SameSums

(* A scope begins with nothing counted. *)
LEMMA ExactBegin ==
  ASSUME NEW t, IsThread(t), NEW h, NEW n \in Nat, NEW f, Exact(t, h, n)
  PROVE  Exact(Snapshot(t, f), [h EXCEPT !.inside = 0, !.cut = FALSE], n)
<1> DEFINE u == Snapshot(t, f)
           g == [h EXCEPT !.inside = 0, !.cut = FALSE]
<1>1. /\ IsHistory(g) /\ g.inside = 0 /\ g.cut = FALSE /\ g.sum = h.sum /\ g.calls = h.calls
      /\ g.spoilt = h.spoilt
  BY Zenon DEF Exact, IsHistory, HistoryFields
<1>2. SameSums(t, u) /\ u.last_snap = t.count /\ u.count = t.count
  BY BeginOrEnd
<1> HIDE DEF u, g
<1>3. Accounted(u, g)
  BY <1>1, <1>2, Zenon DEF Exact, Accounted, SameSums
<1>4. Counted(u.count, u.last_snap, g.inside)
  <2>1. PICK c \in 0..Modulus-1 : c = t.count
    BY DEF Exact, Values
  <2>2. c = c + 0
    BY PerfAssumption
  <2> QED BY <1>1, <1>2, <2>1, <2>2, Zenon DEF Counted
<1>5. g.inside \in 0..n /\ g.cut \in BOOLEAN
  <2>1. 0 \in 0..n
    OBVIOUS
  <2> QED BY <1>1, <2>1, Zenon
<1>6. Exact(u, g, n)
  BY <1>1, <1>2, <1>3, <1>4, <1>5, Zenon DEF Exact, SameSums
<1> QED BY <1>6 DEF u, g

(* The function ids of the program have a slot, and none is that of no snapshot. *)
LEMMA FuncsHaveSlots ==
  ASSUME NEW f \in Funcs
  PROVE  f \in 0..MAX_SCOPES-1 /\ f # NoFunc /\ f \in Nat
<1>1. PICK s \in Scopes : f = s.func
  BY Zenon DEF Funcs
<1>2. f \in 0..MAX_SCOPES-1
  BY <1>1, PerfAssumption, Zenon
<1>3. PICK k \in 0..MAX_SCOPES-1 : k = f
  BY <1>2
<1>4. k \in Nat /\ k # NoFunc
  BY DEF NoFunc, MAX_SCOPES
<1> QED BY <1>2, <1>3, <1>4, Zenon

(* A scope that ends adds what it counted, once, to the sum and the number of its function. *)
LEMMA ExactEnd ==
  ASSUME MaxTicks < Modulus, NEW t, IsThread(t), NEW h, NEW n \in 0..MaxTicks, NEW f \in Funcs,
         t.last_snap_func_id = f, Exact(t, h, n)
  PROVE  Exact(UpdatedThread(t, f), Completed(h, f), n)
<1> DEFINE u == UpdatedThread(t, f)
           g == Completed(h, f)
<1>0. Modulus \in Nat \ {0} /\ MaxTicks \in Nat /\ f \in 0..MAX_SCOPES-1 /\ f # NoFunc /\ f \in Nat
  BY PerfAssumption, FuncsHaveSlots
<1>1. PICK c \in 0..Modulus-1, s \in 0..Modulus-1, k \in 0..n :
        c = t.count /\ s = t.last_snap /\ k = h.inside
  BY DEF Exact, Values
<1>2. PICK d \in Nat : d = (c - s) % Modulus
  BY <1>0
<1>3. /\ IsThread(u) /\ u.count = t.count /\ u.last_snap = t.last_snap /\ u.last_snap_func_id = NoFunc
  BY BeginOrEnd
<1>4. /\ u.scope_values = [AddAt(t.scope_values, f, d) EXCEPT ![f + 1] = @ % Modulus]
      /\ u.scope_num_calls = IF d > 0 THEN AddAt(t.scope_num_calls, f, 1) ELSE t.scope_num_calls
  <2>1. d = (t.count - t.last_snap) % Modulus
    BY <1>1, <1>2, Zenon
  <2> QED BY <2>1 DEF UpdatedThread, IsThread, ThreadFields
<1>5. /\ IsHistory(g) /\ g.inside = 0 /\ g.cut = FALSE
      /\ g.sum = [h.sum EXCEPT ![f] = (@ + h.inside) % Modulus]
      /\ g.calls = [h.calls EXCEPT ![f] = IF h.inside > 0 THEN @ + 1 ELSE @]
      /\ g.spoilt = IF h.cut THEN h.spoilt \cup {f} ELSE h.spoilt
  BY Zenon DEF Exact, IsHistory, HistoryFields, Completed
<1> HIDE DEF u, g
<1>6. PICK v \in Seq(Nat) : v = t.scope_values
  BY DEF Exact
<1>7. PICK w \in Seq(Nat) : w = t.scope_num_calls
  BY DEF Exact
<1>8. /\ u.scope_values \in Seq(Nat)
      /\ At0(u.scope_values, f) = (At0(v, f) + d) % Modulus
      /\ \A e \in Nat \ {f} : At0(u.scope_values, e) = At0(v, e)
  <2>1. u.scope_values = Summed(v, f, d)
    BY <1>4, <1>6, Zenon DEF Summed
  <2>2. HasSum(Summed(v, f, d), v, f, d)
    BY <1>0, SumWraps
  <2> QED BY <2>1, <2>2, Zenon DEF HasSum
<1>9. /\ u.scope_num_calls \in Seq(Nat)
      /\ At0(u.scope_num_calls, f) = IF d > 0 THEN At0(w, f) + 1 ELSE At0(w, f)
      /\ \A e \in Nat \ {f} : At0(u.scope_num_calls, e) = At0(w, e)
  <2>1. u.scope_num_calls = IF d > 0 THEN AddAt(w, f, 1) ELSE w
    BY <1>4, <1>7, Zenon
  <2>2. /\ AddAt(w, f, 1) \in Seq(Nat) /\ At0(AddAt(w, f, 1), f) = At0(w, f) + 1
        /\ \A e \in Nat \ {f} : At0(AddAt(w, f, 1), e) = At0(w, e)
    BY <1>0, AddAtVector
  <2> QED BY <2>1, <2>2
<1>10. ASSUME ~h.cut PROVE d = k
  <2>1. c = s + k \/ c = s + k - Modulus
    BY <1>0, <1>1, <1>10, Zenon DEF Exact, Counted
  <2>2. k \in 0..Modulus-1
    BY <1>0
  <2>3. (c - s) % Modulus = k
    BY <1>0, <2>1, <2>2, Difference, Zenon
  <2> QED BY <1>2, <2>3, Zenon
<1>11. DOMAIN g.sum = Funcs /\ DOMAIN g.calls = Funcs
  BY <1>5 DEF Exact
<1>12. ASSUME NEW e \in Funcs \ g.spoilt
       PROVE  At0(u.scope_values, e) = g.sum[e] /\ At0(u.scope_num_calls, e) = g.calls[e]
  <2>1. e \in Nat /\ e \in Funcs
    BY FuncsHaveSlots
  <2>2. CASE e = f
    <3>1. ~h.cut /\ f \notin h.spoilt
      BY <1>5, <1>12, <2>2, Zenon
    <3>2. At0(v, f) = h.sum[f] /\ At0(w, f) = h.calls[f]
      BY <1>6, <1>7, <3>1, Zenon DEF Exact, Accounted
    <3>3. DOMAIN h.sum = Funcs /\ DOMAIN h.calls = Funcs
      BY DEF Exact
    <3>4. g.sum[f] = (h.sum[f] + k) % Modulus
      BY <1>1, <1>5, <3>3
    <3>5. g.calls[f] = IF k > 0 THEN h.calls[f] + 1 ELSE h.calls[f]
      BY <1>1, <1>5, <3>3
    <3>6. d = k
      BY <1>10, <3>1
    <3> QED BY <1>8, <1>9, <2>2, <3>2, <3>4, <3>5, <3>6, Zenon
  <2>3. CASE e # f
    <3>1. e \notin h.spoilt
      BY <1>5, <1>12, Zenon
    <3>2. At0(v, e) = h.sum[e] /\ At0(w, e) = h.calls[e]
      BY <1>6, <1>7, <2>1, <3>1, Zenon DEF Exact, Accounted
    <3>3. g.sum[e] = h.sum[e] /\ g.calls[e] = h.calls[e]
      BY <1>5, <2>1, <2>3 DEF Exact
    <3> QED BY <1>8, <1>9, <2>1, <2>3, <3>2, <3>3
  <2> QED BY <2>2, <2>3
<1>13. Accounted(u, g)
  BY <1>12, Zenon DEF Accounted
<1>14. g.inside \in 0..n /\ g.cut \in BOOLEAN
  <2>1. 0 \in 0..n
    BY <1>0
  <2> QED BY <1>5, <2>1, Zenon
<1>15. u.count \in Values /\ u.last_snap \in Values
  BY <1>3, Zenon DEF Exact
<1>16. Exact(u, g, n)
  BY <1>3, <1>5, <1>8, <1>9, <1>11, <1>13, <1>14, <1>15, Zenon DEF Exact
<1> QED BY <1>16 DEF u, g

(* init() makes perf_threads whose sums are those of no scope at all. *)
LEMMA ExactOpened ==
  ASSUME NEW t, NEW opened, NEW n \in Nat
  PROVE  Exact(OpenedThread(t, opened), NoHistory, n)
<1> DEFINE u == OpenedThread(t, opened)
<1>0. 0 \in Values /\ InitialScopes \in Nat /\ 0 \in 0..n
  BY PerfAssumption DEF Values
<1>1. PICK k \in Nat : k = InitialScopes
  BY <1>0
<1>2. PICK v \in [1..k -> Nat] : v = [j \in 1..k |-> 0]
  OBVIOUS
<1>3. v \in Seq(Nat) /\ Len(v) = k
  OBVIOUS
<1>4. /\ u.count = 0 /\ u.last_snap = 0 /\ u.last_snap_func_id = NoFunc
      /\ u.scope_values = v /\ u.scope_num_calls = <<>>
  BY <1>1, <1>2, Opened
<1>5. /\ IsHistory(NoHistory) /\ NoHistory.cut = FALSE /\ NoHistory.inside = 0 /\ NoHistory.spoilt = {}
      /\ NoHistory.sum = [f \in Funcs |-> 0] /\ NoHistory.calls = [f \in Funcs |-> 0]
  BY DEF NoHistory, IsHistory, HistoryFields
<1>6. ASSUME NEW f \in Funcs
      PROVE  At0(v, f) = 0 /\ At0(<<>>, f) = 0
  <2>1. f \in Nat
    BY FuncsHaveSlots
  <2>2. f < k => f + 1 \in 1..k
    BY <2>1
  <2>3. <<>> \in Seq(Nat) /\ Len(<<>>) = 0
    OBVIOUS
  <2> QED BY <1>2, <1>3, <2>1, <2>2, <2>3 DEF At0
<1> HIDE DEF u
<1>7. Accounted(u, NoHistory)
  BY <1>4, <1>5, <1>6 DEF Accounted
<1>8. <<>> \in Seq(Nat) /\ DOMAIN NoHistory.sum = Funcs /\ DOMAIN NoHistory.calls = Funcs
  BY <1>5
<1>9. NoHistory.cut \in BOOLEAN
  BY <1>5, Zenon
<1>10. Exact(u, NoHistory, n)
  BY <1>0, <1>3, <1>4, <1>5, <1>7, <1>8, <1>9, Zenon DEF Exact
<1> QED BY <1>10 DEF u

\* What a step must show: that each perf_thread is still exact, and each scope of a function.
ExactNext == \A i \in Indices : Exact(mThreads'[i], hist'[i], ticks')
FuncsNext == \A tid \in Scopers : scope'[tid].at # "out" => scope'[tid].func \in Funcs

(* A step keeps the sums exact if it does for each perf_thread. *)
LEMMA SumsKept ==
  ASSUME SumInv, ExactNext, FuncsNext, config' = config, ticks' \in 0..MaxTicks,
         DOMAIN mThreads' = Indices, DOMAIN hist' = Indices
  PROVE  SumInv'
<1>1. Scopers' = Scopers /\ Indices' = Indices
  BY DEF Scopers, Indices
<1>2. \A i \in Indices' : Exact(mThreads[i], hist[i], ticks)'
  BY <1>1, Zenon DEF ExactNext, Exact, Accounted, Counted, Values, Funcs
<1> QED BY <1>1, <1>2, Zenon DEF SumInv, FuncsNext

(* Frames, sessions and the kernel keep the sums exact. *)
LEMMA ClientKeepsSums ==
  ASSUME MaxTicks < Modulus, OffInv, SumInv,
         start \/ CollectBegin \/ CollectRead \/ CollectReset \/ stop \/ \E k \in Indices : Tick(k)
  PROVE  SumInv'
<1>0. /\ \A i \in Indices : IsThread(mThreads[i]) /\ SameSnapshot(mThreads[i], mThreads[i])
      /\ config' = config /\ FuncsNext /\ DOMAIN mThreads' = Indices
      /\ \A i \in Indices : SameSnapshot(mThreads[i], mThreads'[i])
  <2>1. \A i \in Indices : IsThread(mThreads[i]) /\ SameSnapshot(mThreads[i], mThreads[i])
    BY DEF OffInv, ThreadsInv, SameSnapshot, SameSums
  <2>2. FuncsNext
    <3>1. scope' = scope
      BY SnapshotsKept
    <3> QED BY <3>1, Zenon DEF FuncsNext, SumInv
  <2> QED BY <2>1, <2>2, SnapshotsKept
<1>1. PICK n \in 0..MaxTicks : n = ticks
  BY DEF SumInv
<1>2. n \in Nat /\ MaxTicks \in Nat
  BY PerfAssumption
<1>3. DOMAIN hist = Indices /\ \A i \in Indices : Exact(mThreads[i], hist[i], n)
  BY <1>1, Zenon DEF SumInv
<1>4. CASE start
  <2>1. ticks' = n
    BY <1>1, <1>4 DEF start
  <2> DEFINE A == {i \in Indices : \A j \in {k \in Indices : mThreads[k].group = "failed"} : i < j}
  <2>2. /\ mThreads' = [i \in Indices |-> IF i \in A THEN [Reset(mThreads[i]) EXCEPT !.group = "on"]
                                          ELSE mThreads[i]]
        /\ hist' = [i \in Indices |-> IF i \in A THEN Cut(hist[i], mThreads[i], mThreads[i].count)
                                      ELSE hist[i]]
    BY <1>4, Zenon DEF start
  <2> HIDE DEF A
  <2>3. ASSUME NEW i \in Indices PROVE Exact(mThreads'[i], hist'[i], n)
    <3>1. CASE i \in A
      <4>1. /\ mThreads'[i] = [Reset(mThreads[i]) EXCEPT !.group = "on"]
            /\ hist'[i] = Cut(hist[i], mThreads[i], mThreads[i].count)
        BY <2>2, <3>1, Zenon
      <4>2. [Reset(mThreads[i]) EXCEPT !.group = "on"].count = 0
        BY <1>0, EnableOrDisable
      <4>3. mThreads'[i].count = 0 /\ SameSnapshot(mThreads[i], mThreads'[i])
        BY <1>0, <4>1, <4>2, Zenon
      <4>4. Exact(mThreads'[i], Cut(hist[i], mThreads[i], mThreads[i].count), n)
        BY <1>2, <1>3, <4>3, ExactCut
      <4> QED BY <4>1, <4>4, Zenon
    <3>2. CASE i \notin A
      BY <1>3, <2>2, <3>2, Zenon
    <3> QED BY <3>1, <3>2
  <2>4. DOMAIN hist' = Indices
    BY <2>2
  <2>5. ExactNext
    BY <2>1, <2>3, Zenon DEF ExactNext
  <2> QED BY <1>0, <2>1, <2>4, <2>5, SumsKept
<1>5. CASE CollectBegin \/ CollectRead \/ stop
  <2>1. ticks' = n /\ hist' = hist
    BY <1>1, <1>5 DEF CollectBegin, CollectRead, stop, boundVars
  <2>2. ASSUME NEW i \in Indices PROVE mThreads'[i].count = mThreads[i].count
    <3>1. CASE CollectBegin
      BY <3>1 DEF CollectBegin
    <3>2. CASE CollectRead
      <4>1. PICK x : mThreads'[i] = mThreads[i] \/ mThreads'[i] = [mThreads[i] EXCEPT !.results = x]
        BY <3>2 DEF CollectRead, Indices
      <4>2. [mThreads[i] EXCEPT !.results = x].count = mThreads[i].count
        BY <1>0, CountOrResults
      <4> QED BY <4>1, <4>2, Zenon
    <3>3. CASE stop
      <4>1. mThreads'[i] = mThreads[i] \/ mThreads'[i] = StoppedThread(mThreads[i])
        BY <3>3 DEF stop
      <4>2. StoppedThread(mThreads[i]).count = mThreads[i].count
        BY <1>0, EnableOrDisable
      <4> QED BY <4>1, <4>2, Zenon
    <3> QED BY <1>5, <3>1, <3>2, <3>3
  <2>3. ASSUME NEW i \in Indices PROVE Exact(mThreads'[i], hist'[i], n)
    <3>1. Exact(mThreads'[i], hist[i], n)
      <4>1. n <= n
        BY <1>2
      <4> QED BY <1>0, <1>2, <1>3, <2>2, <4>1, ExactKept, Zenon
    <3> QED BY <2>1, <3>1, Zenon
  <2>4. DOMAIN hist' = Indices
    BY <1>3, <2>1, Zenon
  <2>5. ExactNext
    BY <2>1, <2>3, Zenon DEF ExactNext
  <2> QED BY <1>0, <2>1, <2>4, <2>5, SumsKept
<1>6. CASE CollectReset
  <2>1. /\ ticks' = n
        /\ mThreads' = [mThreads EXCEPT ![client.i] = Reset(mThreads[client.i])]
    BY <1>1, <1>6 DEF CollectReset, boundVars, AfterRead
  <2>2. PICK x : hist' = [hist EXCEPT ![client.i] = Cut(hist[client.i], mThreads[client.i], x)]
    BY <1>6, Zenon DEF CollectReset
  <2>3. ASSUME NEW i \in Indices PROVE Exact(mThreads'[i], hist'[i], n)
    <3>1. CASE i = client.i
      <4>1. mThreads'[i] = Reset(mThreads[i]) /\ hist'[i] = Cut(hist[i], mThreads[i], x)
        BY <1>3, <2>1, <2>2, <3>1 DEF Indices
      <4>2. Reset(mThreads[i]).count = 0
        BY <1>0, EnableOrDisable
      <4>3. mThreads'[i].count = 0 /\ SameSnapshot(mThreads[i], mThreads'[i])
        BY <1>0, <4>1, <4>2, Zenon
      <4>4. Exact(mThreads'[i], Cut(hist[i], mThreads[i], x), n)
        BY <1>2, <1>3, <4>3, ExactCut
      <4> QED BY <4>1, <4>4, Zenon
    <3>2. CASE i # client.i
      <4>1. mThreads'[i] = mThreads[i] /\ hist'[i] = hist[i]
        BY <1>3, <2>1, <2>2, <3>2 DEF Indices
      <4> QED BY <1>3, <4>1, Zenon
    <3> QED BY <3>1, <3>2
  <2>4. DOMAIN hist' = Indices
    BY <1>3, <2>2
  <2>5. ExactNext
    BY <2>1, <2>3, Zenon DEF ExactNext
  <2> QED BY <1>0, <2>1, <2>4, <2>5, SumsKept
<1>7. CASE \E k \in Indices : Tick(k)
  <2> PICK k \in Indices : Tick(k)
    BY <1>7
  <2>1. /\ n < MaxTicks /\ ticks' = n + 1
        /\ mThreads' = [mThreads EXCEPT ![k].count = (@ + 1) % Modulus]
        /\ hist' = [hist EXCEPT ![k].ticks = @ + 1,
                                ![k].inside = IF mThreads[k].last_snap_func_id # NoFunc
                                              THEN @ + 1 ELSE @]
    BY <1>1 DEF Tick
  <2>2. n + 1 \in Nat /\ n + 1 \in 0..MaxTicks /\ n <= n + 1
    BY <1>2, <2>1
  <2>3. ASSUME NEW i \in Indices PROVE Exact(mThreads'[i], hist'[i], n + 1)
    <3>1. CASE i = k
      <4>1. mThreads'[i] = [mThreads[i] EXCEPT !.count = (mThreads[i].count + 1) % Modulus]
        BY <2>1, <3>1 DEF Indices
      <4>2. mThreads'[i].count = (mThreads[i].count + 1) % Modulus
        BY <1>0, <4>1, CountOrResults
      <4>3. IsHistory(hist[i])
        BY <1>3 DEF Exact
      <4>4. hist'[i] = [hist[i] EXCEPT !.ticks = @ + 1,
                                       !.inside = IF mThreads[i].last_snap_func_id # NoFunc
                                                  THEN @ + 1 ELSE @]
        BY <1>3, <2>1, <3>1, <4>3 DEF IsHistory, HistoryFields
      <4>5. /\ IsHistory(hist'[i]) /\ hist'[i].cut = hist[i].cut /\ hist'[i].sum = hist[i].sum
            /\ hist'[i].calls = hist[i].calls /\ hist'[i].spoilt = hist[i].spoilt
            /\ hist'[i].inside = IF mThreads[i].last_snap_func_id # NoFunc
                                 THEN hist[i].inside + 1 ELSE hist[i].inside
        BY <4>3, <4>4 DEF IsHistory, HistoryFields
      <4> QED BY <1>0, <1>2, <1>3, <2>1, <4>2, <4>5, ExactTick, Zenon
    <3>2. CASE i # k
      <4>1. mThreads'[i] = mThreads[i] /\ hist'[i] = hist[i]
        BY <1>3, <2>1, <3>2 DEF Indices
      <4>2. Exact(mThreads[i], hist[i], n + 1)
        BY <1>0, <1>2, <1>3, <2>2, ExactKept, Zenon
      <4> QED BY <4>1, <4>2, Zenon
    <3> QED BY <3>1, <3>2
  <2>4. DOMAIN hist' = Indices
    BY <1>3, <2>1
  <2>5. ExactNext
    BY <2>1, <2>3, Zenon DEF ExactNext
  <2> QED BY <1>0, <2>1, <2>2, <2>4, <2>5, SumsKept
<1> QED BY <1>4, <1>5, <1>6, <1>7

(* The four steps of a scope keep the sums exact. *)
LEMMA ScopeKeepsSums ==
  ASSUME MaxTicks < Modulus, OffInv, ScopeInv, SumInv, NEW tid \in Scopers, Scope(tid)
  PROVE  SumInv'
<1>0. /\ \A i \in Indices : IsThread(mThreads[i])
      /\ config' = config /\ DOMAIN mThreads' = Indices
  BY ScopeStep DEF OffInv, ThreadsInv
<1>1. PICK n \in 0..MaxTicks : n = ticks
  BY DEF SumInv
<1>2. n \in Nat /\ MaxTicks \in Nat
  BY PerfAssumption
<1>3. DOMAIN hist = Indices /\ \A i \in Indices : Exact(mThreads[i], hist[i], n)
  BY <1>1, Zenon DEF SumInv
<1>4. ASSUME NEW s, scope' = [scope EXCEPT ![tid] = s], s.at # "out" => s.func \in Funcs
      PROVE  FuncsNext
  <2>1. \A u \in Scopers : scope'[u] = IF u = tid THEN s ELSE scope[u]
    BY <1>4 DEF ScopeInv
  <2> QED BY <1>4, <2>1, Zenon DEF FuncsNext, SumInv
<1>5. ASSUME NEW s \in Scopes, ScopeStart(tid, s.func, s.flags)
      PROVE  SumInv'
  <2> DEFINE noticed == mCollecting /\ CollectsReplay(s.flags)
             new == [at |-> IF mCollecting THEN "flags" ELSE "in",
                     func |-> s.func, flags |-> s.flags, seen |-> noticed]
  <2>1. /\ scope' = [scope EXCEPT ![tid] = new] /\ ticks' = ticks
        /\ mThreads' = [i \in Indices |-> IF noticed /\ i \in Own(tid)
                                          THEN Snapshot(mThreads[i], s.func) ELSE mThreads[i]]
        /\ hist' = [i \in Indices |-> IF noticed /\ i \in Own(tid)
                                      THEN [hist[i] EXCEPT !.inside = 0, !.cut = FALSE] ELSE hist[i]]
    BY <1>5, Zenon DEF ScopeStart
  <2>2. new.func \in Funcs
    <3>1. s.func \in Funcs
      BY DEF Funcs
    <3> QED BY <3>1, Zenon
  <2> HIDE DEF new, noticed
  <2>3. ASSUME NEW i \in Indices PROVE Exact(mThreads'[i], hist'[i], n)
    <3>1. CASE noticed /\ i \in Own(tid)
      <4>1. /\ mThreads'[i] = Snapshot(mThreads[i], s.func)
            /\ hist'[i] = [hist[i] EXCEPT !.inside = 0, !.cut = FALSE]
        BY <2>1, <3>1, Zenon
      <4>2. Exact(Snapshot(mThreads[i], s.func), [hist[i] EXCEPT !.inside = 0, !.cut = FALSE], n)
        BY <1>0, <1>2, <1>3, ExactBegin, Zenon
      <4> QED BY <4>1, <4>2, Zenon
    <3>2. CASE ~(noticed /\ i \in Own(tid))
      <4>1. mThreads'[i] = mThreads[i] /\ hist'[i] = hist[i]
        BY <2>1, <3>2, Zenon
      <4> QED BY <1>3, <4>1, Zenon
    <3> QED BY <3>1, <3>2
  <2>4. ExactNext
    BY <1>1, <2>1, <2>3, Zenon DEF ExactNext
  <2>5. DOMAIN hist' = Indices /\ ticks' \in 0..MaxTicks
    BY <1>1, <2>1, Zenon
  <2>6. FuncsNext
    BY <1>4, <2>1, <2>2, Zenon
  <2> QED BY <1>0, <2>4, <2>5, <2>6, SumsKept
<1>6. CASE ScopeFlags(tid) \/ ScopeStop(tid)
  <2>1. mThreads' = mThreads /\ hist' = hist /\ ticks' = ticks /\ scope[tid].at # "out"
    BY <1>6 DEF ScopeFlags, ScopeStop, boundVars
  <2>2. IsScope(scope[tid]) /\ scope[tid].func \in Funcs
    BY <2>1, Zenon DEF ScopeInv, SumInv
  <2>3. PICK s : scope' = [scope EXCEPT ![tid] = s] /\ (s.at # "out" => s.func \in Funcs)
    <3>1. CASE ScopeFlags(tid)
      <4>1. scope' = [scope EXCEPT ![tid] = [scope[tid] EXCEPT !.at = "in"]]
        BY <3>1 DEF ScopeFlags
      <4>2. [scope[tid] EXCEPT !.at = "in"].func = scope[tid].func
        BY <2>2 DEF IsScope, ScopeFields
      <4> QED BY <2>2, <4>1, <4>2
    <3>2. CASE ScopeStop(tid)
      <4>1. \/ scope' = [scope EXCEPT ![tid] = [scope[tid] EXCEPT !.at = "add"]]
            \/ scope' = [scope EXCEPT ![tid] = Outside]
        BY <3>2 DEF ScopeStop
      <4>2. [scope[tid] EXCEPT !.at = "add"].func = scope[tid].func /\ Outside.at = "out"
        BY <2>2 DEF IsScope, ScopeFields, Outside
      <4> QED BY <2>2, <4>1, <4>2, Zenon
    <3> QED BY <1>6, <3>1, <3>2
  <2>4. FuncsNext
    BY <1>4, <2>3
  <2>5. ExactNext
    BY <1>1, <1>3, <2>1, Zenon DEF ExactNext
  <2>6. DOMAIN hist' = Indices /\ ticks' \in 0..MaxTicks
    BY <1>1, <1>3, <2>1, Zenon
  <2> QED BY <1>0, <2>4, <2>5, <2>6, SumsKept
<1>7. CASE ScopeAdd(tid)
  <2> DEFINE own == IF CollectsReplay(scope[tid].flags) THEN Own(tid) ELSE {}
  <2>1. scope[tid].at # "out" /\ ticks' = ticks
    BY <1>7 DEF ScopeAdd, boundVars
  <2>2. PICK f \in Funcs : f = scope[tid].func
    BY <2>1, Zenon DEF SumInv
  <2>3. CASE \A i \in own : Matches(mThreads[i], scope[tid].func)
    <3>1. /\ mThreads' = [i \in Indices |-> IF i \in own THEN UpdatedThread(mThreads[i], scope[tid].func)
                                            ELSE mThreads[i]]
          /\ hist' = [i \in Indices |-> IF i \in own THEN Completed(hist[i], scope[tid].func)
                                        ELSE hist[i]]
          /\ scope' = [scope EXCEPT ![tid] = Outside]
      BY <1>7, <2>3, Zenon DEF ScopeAdd
    <3> HIDE DEF own
    <3>2. ASSUME NEW i \in Indices PROVE Exact(mThreads'[i], hist'[i], n)
      <4>1. CASE i \in own
        <5>1. mThreads'[i] = UpdatedThread(mThreads[i], f) /\ hist'[i] = Completed(hist[i], f)
          BY <2>2, <3>1, <4>1, Zenon
        <5>2. mThreads[i].last_snap_func_id = f
          BY <2>2, <2>3, <4>1, Zenon DEF Matches
        <5>3. Exact(UpdatedThread(mThreads[i], f), Completed(hist[i], f), n)
          BY <1>0, <1>3, <5>2, ExactEnd, Zenon
        <5> QED BY <5>1, <5>3, Zenon
      <4>2. CASE i \notin own
        <5>1. mThreads'[i] = mThreads[i] /\ hist'[i] = hist[i]
          BY <3>1, <4>2, Zenon
        <5> QED BY <1>3, <5>1, Zenon
      <4> QED BY <4>1, <4>2
    <3>3. Outside.at = "out"
      BY DEF Outside
    <3>4. FuncsNext
      BY <1>4, <3>1, <3>3, Zenon
    <3>5. ExactNext
      BY <1>1, <2>1, <3>2, Zenon DEF ExactNext
    <3>6. DOMAIN hist' = Indices /\ ticks' \in 0..MaxTicks
      BY <1>1, <2>1, <3>1, Zenon
    <3> QED BY <1>0, <3>4, <3>5, <3>6, SumsKept
  <2>4. CASE ~ \A i \in own : Matches(mThreads[i], scope[tid].func)
    <3>1. mThreads' = mThreads /\ hist' = hist /\ scope' = scope
      BY <1>7, <2>4, Zenon DEF ScopeAdd
    <3> HIDE DEF own
    <3>2. FuncsNext
      BY <3>1, Zenon DEF FuncsNext, SumInv
    <3>3. ExactNext
      BY <1>1, <1>3, <2>1, <3>1, Zenon DEF ExactNext
    <3>4. DOMAIN hist' = Indices /\ ticks' \in 0..MaxTicks
      BY <1>1, <1>3, <2>1, <3>1, Zenon
    <3> QED BY <1>0, <3>2, <3>3, <3>4, SumsKept
  <2> QED BY <2>3, <2>4
<1> QED BY <1>5, <1>6, <1>7 DEF Scope

\* perf.hpp:114, perf.cpp:700: the sum and the number of calls kept for a function of a thread
\* are exactly those of its completed scopes that no reset cut, for every program, number of
\* threads and order of their steps, if no more is counted in all than a counter can hold.
THEOREM ScopeSumsExactHolds == MaxTicks < Modulus => (Spec => []ScopeSumsExact)
<1> SUFFICES ASSUME MaxTicks < Modulus PROVE Spec => []ScopeSumsExact
  OBVIOUS
<1>1. Init => SumInv
  <2> SUFFICES ASSUME Init PROVE SumInv
    OBVIOUS
  <2>1. Indices = {} /\ DOMAIN hist = {} /\ ticks = 0
    BY DEF Init, Indices
  <2>2. ticks \in 0..MaxTicks
    BY <2>1, PerfAssumption
  <2>3. \A tid \in Scopers : scope[tid].at = "out"
    <3>1. scope = [t \in Scopers |-> Outside] /\ Outside.at = "out"
      BY DEF Init, Outside
    <3> QED BY <3>1, Zenon
  <2> QED BY <2>1, <2>2, <2>3, Zenon DEF SumInv
<1>2. OffInv /\ ScopeInv /\ SumInv /\ [Next]_vars => SumInv'
  <2> SUFFICES ASSUME OffInv, ScopeInv, SumInv, [Next]_vars PROVE SumInv'
    OBVIOUS
  <2>1. CASE init
    <3>1. config' = config /\ scope' = scope /\ ticks' = ticks
      BY <2>1 DEF init, collectorVars, boundVars
    <3>2. PICK n \in 0..MaxTicks : n = ticks
      BY DEF SumInv
    <3>3. n \in Nat
      BY PerfAssumption
    <3>4. PICK opened \in SUBSET DOMAIN create_perf_thread :
            mThreads' = [i \in DOMAIN create_perf_thread |->
                           OpenedThread(create_perf_thread[i], i \in opened)]
      BY <2>1, Zenon DEF init
    <3>5. hist' = [i \in DOMAIN create_perf_thread |-> NoHistory]
      BY <2>1, Zenon DEF init
    <3>6. Indices' = DOMAIN create_perf_thread /\ DOMAIN hist' = DOMAIN create_perf_thread
      BY <3>4, <3>5, Zenon DEF Indices
    <3>7. ASSUME NEW i \in Indices' PROVE Exact(mThreads'[i], hist'[i], n)
      <4>1. /\ mThreads'[i] = OpenedThread(create_perf_thread[i], i \in opened)
            /\ hist'[i] = NoHistory
        BY <3>4, <3>5, <3>6, Zenon
      <4>2. Exact(OpenedThread(create_perf_thread[i], i \in opened), NoHistory, n)
        BY <3>3, ExactOpened, Zenon
      <4> QED BY <4>1, <4>2, Zenon
    <3>8. \A i \in Indices' : Exact(mThreads[i], hist[i], ticks)'
      BY <3>1, <3>2, <3>7, Zenon DEF Exact, Accounted, Counted, Values, Funcs
    <3>9. Scopers' = Scopers
      BY <3>1 DEF Scopers
    <3> QED BY <3>1, <3>6, <3>8, <3>9, Zenon DEF SumInv
  <2>2. CASE deinit
    <3>1. config' = config /\ scope' = scope /\ ticks' = ticks /\ mThreads' = <<>> /\ hist' = <<>>
      BY <2>2 DEF deinit, collectorVars, boundVars
    <3>2. Indices' = {} /\ DOMAIN hist' = {} /\ Scopers' = Scopers
      BY <3>1 DEF Indices, Scopers
    <3> QED BY <3>1, <3>2, Zenon DEF SumInv
  <2>3. CASE start \/ CollectBegin \/ CollectRead \/ CollectReset \/ stop \/ \E k \in Indices : Tick(k)
    BY <2>3, ClientKeepsSums
  <2>4. CASE \E tid \in Scopers : Scope(tid)
    BY <2>4, ScopeKeepsSums
  <2>5. CASE UNCHANGED vars
    <3>1. config' = config /\ scope' = scope /\ ticks' = ticks /\ mThreads' = mThreads /\ hist' = hist
      BY <2>5, Zenon DEF vars, collectorVars, boundVars
    <3>2. FuncsNext /\ ExactNext
      BY <3>1, Zenon DEF FuncsNext, ExactNext, SumInv
    <3>3. DOMAIN mThreads' = Indices /\ DOMAIN hist' = Indices /\ ticks' \in 0..MaxTicks
      BY <3>1, Zenon DEF SumInv, Indices
    <3> QED BY <3>1, <3>2, <3>3, SumsKept
  <2> QED BY <2>1, <2>2, <2>3, <2>4, <2>5 DEF Next, Client
<1>3. SumInv => ScopeSumsExact
  BY Zenon DEF SumInv, ScopeSumsExact, Exact, Accounted
<1> QED BY <1>1, <1>2, <1>3, GroupsInvariant, ScopesInvariant, PTL DEF Spec

-------------------------------------------------------------------------------
(* Frames account for ticks.                                                   *)

(* A series is added to a total of the same length, or begins one. *)
LEMMA AccumulateSums ==
  ASSUME NEW value \in Seq(Int), NEW series \in Seq(Int), value = <<>> \/ Len(value) = Len(series)
  PROVE  /\ Accumulate(value, series) \in Seq(Int) /\ Len(Accumulate(value, series)) = Len(series)
         /\ SumSeq(Accumulate(value, series)) = SumSeq(value) + SumSeq(series)
<1> DEFINE n == Len(series)
           c == Accumulate(value, series)
<1>1. n \in Nat /\ \A k \in 1..n : series[k] \in Int
  OBVIOUS
<1>2. CASE value = <<>>
  <2>1. Len(value) = 0
    BY <1>2
  <2>2. ASSUME NEW k \in 1..n PROVE series[k] + (IF k <= Len(value) THEN value[k] ELSE 0) = series[k]
    BY <1>1, <2>1
  <2>3. c = series
    BY <1>1, <2>2 DEF Accumulate
  <2>4. SumSeq(value) = 0 /\ SumSeq(series) \in Int
    BY <1>2, SumEmpty, SumType
  <2> QED BY <2>3, <2>4
<1>3. CASE Len(value) = Len(series)
  <2>1. \A k \in 1..n : value[k] \in Int
    BY <1>3
  <2>2. c = [k \in 1..n |-> series[k] + value[k]]
    BY <1>3 DEF Accumulate
  <2>3. c \in [1..n -> Int]
    BY <1>1, <2>1, <2>2
  <2>4. c \in Seq(Int) /\ Len(c) = n /\ \A k \in 1..Len(c) : c[k] = value[k] + series[k]
    <3>1. \A k \in 1..n : c[k] = value[k] + series[k]
      BY <1>1, <2>1, <2>2
    <3> HIDE DEF c
    <3>2. c \in Seq(Int) /\ Len(c) = n
      <4>1. PICK m \in Nat : m = n
        BY <1>1
      <4>2. c \in [1..m -> Int]
        BY <2>3, <4>1, Zenon
      <4>3. c \in Seq(Int) /\ Len(c) = m
        BY <4>2
      <4> QED BY <4>1, <4>3, Zenon
    <3> QED BY <3>1, <3>2
  <2> HIDE DEF c
  <2>5. SumSeq(c) = SumSeq(value) + SumSeq(series)
    BY <1>3, <2>4, SumPointwise, Zenon
  <2> QED BY <2>4, <2>5 DEF c
<1> QED BY <1>2, <1>3

(* A total is a series of numbers in any case. *)
LEMMA AccumulateType ==
  ASSUME NEW value \in Seq(Int), NEW series \in Seq(Int)
  PROVE  Accumulate(value, series) \in Seq(Int)
<1>1. PICK n \in Nat : n = Len(series) /\ \A k \in 1..n : series[k] \in Int
  OBVIOUS
<1>2. ASSUME NEW k \in 1..n
      PROVE  series[k] + (IF k <= Len(value) THEN value[k] ELSE 0) \in Int
  <2>1. k <= Len(value) => value[k] \in Int
    OBVIOUS
  <2>2. PICK a \in Int, b \in Int : a = series[k] /\ b = IF k <= Len(value) THEN value[k] ELSE 0
    BY <1>1, <2>1
  <2>3. a + b \in Int
    OBVIOUS
  <2> QED BY <2>2, <2>3, Zenon
<1>3. Accumulate(value, series) \in [1..n -> Int]
  BY <1>1, <1>2 DEF Accumulate
<1> QED BY <1>3

\* f goes through the totals of postprocess().
IsTotals(f, kinds, value, n) ==
  f[0] = value /\ \A k \in 1..n :
     f[k] = IF mThreads[k].kind \in kinds THEN Accumulate(f[k - 1], mThreads[k].results) ELSE f[k - 1]

(* What the loop of postprocess() computes, step by step. *)
LEMMA TotalsDef ==
  ASSUME NEW n \in Nat, Indices = 1..n, \A i \in Indices : mThreads[i].results \in Seq(Int),
         NEW kinds, NEW value \in Seq(Int)
  PROVE  /\ TotalOf(kinds, value) = TotalsUpTo(kinds, value)[n]
         /\ IsTotals(TotalsUpTo(kinds, value), kinds, value, n)
<1> DEFINE S == Seq(Int)
           after(k, x) == IF mThreads[k].kind \in kinds THEN Accumulate(x, mThreads[k].results) ELSE x
           step == [p \in (1..n) \X S |-> after(p[1], p[2])]
           F == TotalsUpTo(kinds, value)
<1>1. Len(mThreads) = n
  BY DEF Indices
<1>2. \A k \in 1..n, x \in S : after(k, x) \in S
  BY AccumulateType, Zenon
<1>3. /\ step \in [(1..n) \X S -> S]
      /\ \A k \in 1..n, x \in S : step[<<k, x>>] = after(k, x)
  <2> HIDE DEF after, S
  <2> QED BY <1>2
<1>4. PICK f : IsLoop(f, S, value, step, n)
  <2> HIDE DEF step
  <2> QED BY <1>3, LoopExists
<1> HIDE DEF step
<1>5. f = [k \in 0..n |-> IF k = 0 THEN value ELSE after(k, f[k - 1])]
  <2> HIDE DEF after, S
  <2>1. f \in [0..n -> S] /\ f[0] = value /\ \A k \in 1..n : f[k] = step[<<k, f[k - 1]>>]
    BY <1>4 DEF IsLoop
  <2>2. ASSUME NEW k \in 1..n PROVE f[k] = after(k, f[k - 1])
    <3>1. k - 1 \in 0..n
      OBVIOUS
    <3>2. f[k - 1] \in S
      BY <2>1, <3>1
    <3> QED BY <1>3, <2>1, <3>2
  <2> QED BY <2>1, <2>2
<1>6. F = [k \in 0..n |-> IF k = 0 THEN value ELSE after(k, F[k - 1])]
  BY <1>1, <1>5, Zenon DEF TotalsUpTo
<1> HIDE DEF F
<1>7. F[0] = value
  BY <1>6
<1>8. ASSUME NEW k \in 1..n PROVE F[k] = after(k, F[k - 1])
  <2> HIDE DEF after
  <2>1. k \in 0..n /\ k # 0
    OBVIOUS
  <2> QED BY <1>6, <2>1
<1>9. IsTotals(F, kinds, value, n)
  BY <1>7, <1>8, Zenon DEF IsTotals
<1>10. TotalOf(kinds, value) = F[n]
  BY <1>1, Zenon DEF TotalOf, F
<1> QED BY <1>9, <1>10 DEF F

\* What the perf_threads of some kinds have recorded, each in its place.
Parts(kinds) ==
  [i \in Indices |-> IF mThreads[i].kind \in kinds THEN SumSeq(mThreads[i].results) ELSE 0]

\* Every perf_thread has recorded l frames; a total has as many, or has not begun.
Recorded(l) ==
  \A i \in Indices : mThreads[i].results \in Seq(Int) /\ Len(mThreads[i].results) = l
IsTotal(v, l) == v \in Seq(Int) /\ (v = <<>> \/ Len(v) = l)

(* A total adds up what the perf_threads of its kinds have recorded, as they have recorded the *)
(* same number of frames.                                                                      *)
LEMMA TotalOfSums ==
  ASSUME NEW n \in Nat, Indices = 1..n, NEW l \in Nat, Recorded(l), NEW kinds, NEW value, IsTotal(value, l)
  PROVE  /\ IsTotal(TotalOf(kinds, value), l)
         /\ Parts(kinds) \in Seq(Int) /\ Len(Parts(kinds)) = n
         /\ SumSeq(TotalOf(kinds, value)) = SumSeq(value) + SumSeq(Parts(kinds))
<1> DEFINE F == TotalsUpTo(kinds, value)
           parts == Parts(kinds)
           T(k) == PrefixSums(parts)[k]
           P == {k \in Nat : k <= n => /\ F[k] \in Seq(Int) /\ (F[k] = <<>> \/ Len(F[k]) = l)
                                       /\ T(k) \in Int /\ SumSeq(F[k]) = SumSeq(value) + T(k)}
<1>0. /\ value \in Seq(Int) /\ (value = <<>> \/ Len(value) = l)
      /\ \A i \in Indices : mThreads[i].results \in Seq(Int) /\ Len(mThreads[i].results) = l
  BY Zenon DEF Recorded, IsTotal
<1>1. TotalOf(kinds, value) = F[n] /\ IsTotals(F, kinds, value, n)
  BY <1>0, TotalsDef, Zenon
<1>2. \A i \in 1..n : SumSeq(mThreads[i].results) \in Int
  BY <1>0, SumType
<1>3. parts \in [1..n -> Int]
  BY <1>2 DEF Parts
<1>4. parts \in Seq(Int) /\ Len(parts) = n
  BY <1>3
<1>5. \A k \in 1..n : parts[k] = IF mThreads[k].kind \in kinds THEN SumSeq(mThreads[k].results) ELSE 0
  BY DEF Parts
<1> HIDE DEF parts, F
<1>6. T(0) = 0 /\ \A k \in 1..n : T(k) = T(k - 1) + parts[k]
  BY <1>4, PrefixSumsDef DEF IsPrefixSums
<1> HIDE DEF T
<1>7. 0 \in P
  <2>1. F[0] = value /\ SumSeq(value) \in Int
    BY <1>0, <1>1, SumType DEF IsTotals
  <2> QED BY <1>0, <1>6, <2>1
<1>8. ASSUME NEW m \in Nat, m \in P PROVE m + 1 \in P
  <2> SUFFICES ASSUME m + 1 <= n
               PROVE  /\ F[m + 1] \in Seq(Int) /\ (F[m + 1] = <<>> \/ Len(F[m + 1]) = l)
                      /\ T(m + 1) \in Int /\ SumSeq(F[m + 1]) = SumSeq(value) + T(m + 1)
    OBVIOUS
  <2>1. PICK k \in 1..n : k = m + 1 /\ k - 1 = m
    OBVIOUS
  <2>2. PICK x \in Seq(Int) : x = F[m] /\ (x = <<>> \/ Len(x) = l)
    BY <1>8, <2>1
  <2>3. PICK a \in Int, b \in Int : a = SumSeq(value) /\ b = T(m) /\ SumSeq(x) = a + b
    BY <1>0, <1>8, <2>1, <2>2, SumType
  <2>4. T(k) = b + parts[k]
    BY <1>6, <2>1, <2>3
  <2>5. F[k] = IF mThreads[k].kind \in kinds THEN Accumulate(x, mThreads[k].results) ELSE x
    BY <1>1, <2>1, <2>2 DEF IsTotals
  <2>6. CASE mThreads[k].kind \in kinds
    <3>1. PICK s \in Seq(Int) : s = mThreads[k].results /\ Len(s) = l
      BY <1>0
    <3>2. /\ Accumulate(x, s) \in Seq(Int) /\ Len(Accumulate(x, s)) = l
          /\ SumSeq(Accumulate(x, s)) = SumSeq(x) + SumSeq(s)
      BY <2>2, <3>1, AccumulateSums
    <3>3. PICK c \in Int : c = SumSeq(s)
      BY SumType
    <3>4. F[k] = Accumulate(x, s) /\ T(k) = b + c /\ SumSeq(F[k]) = (a + b) + c
      BY <1>5, <2>3, <2>4, <2>5, <2>6, <3>1, <3>2, <3>3
    <3>5. (a + b) + c = a + (b + c) /\ b + c \in Int
      OBVIOUS
    <3> QED BY <2>1, <2>3, <3>2, <3>4, <3>5, Zenon
  <2>7. CASE ~(mThreads[k].kind \in kinds)
    <3>1. F[k] = x /\ T(k) = b + 0
      BY <1>5, <2>4, <2>5, <2>7
    <3>2. b + 0 = b
      OBVIOUS
    <3> QED BY <2>1, <2>2, <2>3, <3>1, <3>2, Zenon
  <2> QED BY <2>6, <2>7
<1> HIDE DEF P
<1>9. n \in P
  BY <1>7, <1>8, SetInduction
<1>10. T(n) = SumSeq(parts)
  BY <1>4 DEF T, SumSeq
<1>11. n <= n
  OBVIOUS
<1>12. /\ F[n] \in Seq(Int) /\ (F[n] = <<>> \/ Len(F[n]) = l)
       /\ SumSeq(F[n]) = SumSeq(value) + T(n)
  BY <1>9, <1>11, Zenon DEF P
<1> QED BY <1>1, <1>4, <1>10, <1>12, Zenon DEF parts, IsTotal

(* The totals over all perf_threads hold everything that was recorded. *)
LEMMA AllRecorded ==
  ASSUME NEW n \in Nat, Indices = 1..n, NEW l \in Nat,
         Recorded(l), \A i \in Indices : mThreads[i].kind \in Kinds
  PROVE  SumSeq(TotalOf({"background"}, TotalOf({"replay", "booker", "cspmu"}, <<>>)))
           = SumSeq([i \in Indices |-> SumSeq(mThreads[i].results)])
<1> DEFINE fore == {"replay", "booker", "cspmu"}
           back == {"background"}
           all == [i \in Indices |-> SumSeq(mThreads[i].results)]
           r == TotalOf(fore, <<>>)
<1>1. \A i \in Indices : (mThreads[i].kind \in fore) = ~(mThreads[i].kind \in back)
  BY DEF Kinds
<1>2. IsTotal(<<>>, l)
  BY DEF IsTotal
<1> HIDE DEF fore, back
<1>3. /\ IsTotal(r, l) /\ Parts(fore) \in Seq(Int) /\ Len(Parts(fore)) = n
      /\ SumSeq(r) = SumSeq(<<>>) + SumSeq(Parts(fore))
  BY <1>2, TotalOfSums, Zenon
<1> HIDE DEF r
<1>4. /\ Parts(back) \in Seq(Int) /\ Len(Parts(back)) = n
      /\ SumSeq(TotalOf(back, r)) = SumSeq(r) + SumSeq(Parts(back))
  BY <1>3, TotalOfSums, Zenon
<1>5. \A i \in 1..n : SumSeq(mThreads[i].results) \in Int
  BY SumType DEF Recorded
<1>6. all \in [1..n -> Int]
  BY <1>5
<1>7. ASSUME NEW i \in 1..n PROVE all[i] = Parts(fore)[i] + Parts(back)[i]
  <2>1. PICK x \in Int : x = SumSeq(mThreads[i].results)
    BY <1>5
  <2>2. all[i] = x /\ x + 0 = x /\ 0 + x = x
    BY <2>1
  <2>3. /\ Parts(fore)[i] = IF mThreads[i].kind \in fore THEN x ELSE 0
        /\ Parts(back)[i] = IF mThreads[i].kind \in back THEN x ELSE 0
    BY <2>1 DEF Parts
  <2> HIDE DEF all
  <2> QED BY <1>1, <2>2, <2>3, Zenon
<1> HIDE DEF all
<1>8. all \in Seq(Int) /\ Len(all) = n
  BY <1>6
<1>9. SumSeq(all) = SumSeq(Parts(fore)) + SumSeq(Parts(back))
  <2>1. \A i \in 1..Len(all) : all[i] = Parts(fore)[i] + Parts(back)[i]
    BY <1>7, <1>8
  <2>2. Len(Parts(fore)) = Len(all) /\ Len(Parts(back)) = Len(all)
    BY <1>3, <1>4, <1>8, Zenon
  <2> QED BY <1>3, <1>4, <1>8, <2>1, <2>2, SumPointwise
<1>10. PICK x \in Int, y \in Int : x = SumSeq(Parts(fore)) /\ y = SumSeq(Parts(back))
  BY <1>3, <1>4, SumType, Zenon
<1>11. SumSeq(TotalOf(back, r)) = (0 + x) + y
  BY <1>3, <1>4, <1>10, SumEmpty, Zenon
<1>12. (0 + x) + y = x + y
  OBVIOUS
<1> QED BY <1>9, <1>10, <1>11, <1>12, Zenon DEF all, r, fore, back

\* collect() has read perf_thread i and not reset it yet; it has a frame more than those to come.
JustRead(c, i) == c.op = "reset" /\ i = c.i
Ahead(c, i) == c.op \in {"read", "reset"} /\ (JustRead(c, i) \/ i < c.i)

\* What of a perf_thread and of its history the frames are about.
SameFrames(t, u) == u.kind = t.kind /\ u.results = t.results /\ u.count = t.count
SameTicks(h, g) == IsHistory(g) /\ g.ticks = h.ticks /\ g.lost = h.lost

\* What a tick, a read by collect() and a reset do to them.
CountedOnce(t, u, h, g) ==
  /\ u.kind = t.kind /\ u.results = t.results /\ u.count = (t.count + 1) % Modulus
  /\ IsHistory(g) /\ g.ticks = h.ticks + 1 /\ g.lost = h.lost
ReadOnce(t, u) ==
  u.kind = t.kind /\ u.count = t.count /\ u.results = Append(t.results, t.count)
ResetOnce(t, u, h, g, missed) ==
  /\ u.kind = t.kind /\ u.results = t.results /\ u.count = 0
  /\ IsHistory(g) /\ g.ticks = h.ticks /\ g.lost = h.lost + missed

\* The ticks that frames should show, and the ones they do show: the value just read counts
\* only when the counter is reset.
Due(t, h) == h.ticks - h.lost - t.count
Shown(t, read) == IF read THEN SumSeq(t.results) - Last(t.results) ELSE SumSeq(t.results)

Balanced(t, h, read, n) ==
  /\ t.kind \in Kinds /\ IsHistory(h)
  /\ t.count \in 0..n /\ h.ticks \in Int /\ h.lost \in Int
  /\ t.results \in Seq(Int) /\ (read => t.results # <<>>)
  /\ Shown(t, read) = Due(t, h)

\* Each perf_thread shows the ticks that are due, all have the same number of frames but for
\* the one collect() is taking, and the totals of the last session hold what is due.
FrameInv ==
  /\ ticks \in 0..MaxTicks
  /\ DOMAIN hist = Indices
  /\ client.op \in {"read", "reset"} => client.i \in Indices
  /\ \A i \in Indices : Balanced(mThreads[i], hist[i], JustRead(client, i), ticks)
  /\ \E l \in Nat : \A i \in Indices :
        Len(mThreads[i].results) = IF Ahead(client, i) THEN l + 1 ELSE l
  /\ client.op = "new" => mCustomResult = <<>>
  /\ client.op = "idle" /\ config.allThread /\ mCustomResult # <<>> =>
        SumSeq(mCustomResult.all) = SumSeq([i \in Indices |-> Due(mThreads[i], hist[i])])

(* Which operations touch the frames of a perf_thread. *)
LEMMA FrameFields ==
  ASSUME NEW t, IsThread(t), NEW x
  PROVE  /\ SameFrames(t, Snapshot(t, x)) /\ SameFrames(t, UpdatedThread(t, x))
         /\ SameFrames(t, StoppedThread(t))
         /\ [t EXCEPT !.count = x].kind = t.kind /\ [t EXCEPT !.count = x].results = t.results
         /\ [t EXCEPT !.count = x].count = x
         /\ [t EXCEPT !.results = x].kind = t.kind /\ [t EXCEPT !.results = x].results = x
         /\ [t EXCEPT !.results = x].count = t.count
BY DEF IsThread, ThreadFields, SameFrames, Snapshot, UpdatedThread, StoppedThread

(* A reset leaves the frames alone. *)
LEMMA ResetFields ==
  ASSUME NEW t, IsThread(t)
  PROVE  /\ Reset(t).kind = t.kind /\ Reset(t).results = t.results /\ Reset(t).count = 0
         /\ [Reset(t) EXCEPT !.group = "on"].kind = t.kind
         /\ [Reset(t) EXCEPT !.group = "on"].results = t.results
         /\ [Reset(t) EXCEPT !.group = "on"].count = 0
BY DEF IsThread, ThreadFields, Reset

(* Which of them touch the ticks of its history. *)
LEMMA TickFields ==
  ASSUME NEW h, IsHistory(h), NEW f
  PROVE  /\ SameTicks(h, [h EXCEPT !.inside = 0, !.cut = FALSE])
         /\ SameTicks(h, Completed(h, f))
<1>1. SameTicks(h, [h EXCEPT !.inside = 0, !.cut = FALSE])
  BY DEF IsHistory, HistoryFields, SameTicks
<1>2. SameTicks(h, Completed(h, f))
  BY DEF IsHistory, HistoryFields, SameTicks, Completed
<1> QED BY <1>1, <1>2

(* A reset loses ticks. *)
LEMMA LostField ==
  ASSUME NEW h, IsHistory(h), NEW t, NEW x
  PROVE  /\ IsHistory(Cut(h, t, x)) /\ Cut(h, t, x).ticks = h.ticks
         /\ Cut(h, t, x).lost = h.lost + x
BY Zenon DEF IsHistory, HistoryFields, Cut

(* A perf_thread stays balanced if nothing of that changes. *)
LEMMA BalanceKept ==
  ASSUME NEW t, NEW u, NEW h, NEW g, NEW read, NEW n \in Nat,
         Balanced(t, h, read, n), SameFrames(t, u), SameTicks(h, g)
  PROVE  Balanced(u, g, read, n) /\ Due(u, g) = Due(t, h)
BY Zenon DEF Balanced, SameFrames, SameTicks, Shown, Due

(* A tick is due as soon as it is counted, which it is without wrapping. *)
LEMMA BalanceTick ==
  ASSUME MaxTicks < Modulus, NEW t, NEW u, NEW h, NEW g, NEW read, NEW n \in Nat, n < MaxTicks,
         Balanced(t, h, read, n), CountedOnce(t, u, h, g)
  PROVE  Balanced(u, g, read, n + 1) /\ Due(u, g) = Due(t, h)
<1> USE DEF CountedOnce
<1>0. Modulus \in Nat \ {0} /\ MaxTicks \in Nat
  BY PerfAssumption
<1>1. PICK c \in 0..n : c = t.count
  BY DEF Balanced
<1>2. PICK a \in Int, b \in Int : a = h.ticks /\ b = h.lost
  BY DEF Balanced
<1>3. (c + 1) % Modulus = c + 1
  <2>1. c + 1 \in 0..Modulus-1
    BY <1>0
  <2> QED BY <1>0, <2>1
<1>4. u.count = c + 1 /\ c + 1 \in 0..(n + 1)
  BY <1>1, <1>3
<1>5. a - b - c = (a + 1) - b - (c + 1) /\ a + 1 \in Int
  OBVIOUS
<1>6. Due(t, h) = a - b - c /\ Due(u, g) = (a + 1) - b - (c + 1)
  BY <1>1, <1>2, <1>4, Zenon DEF Due
<1>7. Shown(u, read) = Shown(t, read)
  BY Zenon DEF Shown
<1>8. Due(u, g) = Due(t, h)
  BY <1>5, <1>6, Zenon
<1>9. g.ticks \in Int /\ g.lost \in Int
  BY <1>2, <1>5
<1> QED BY <1>4, <1>7, <1>8, <1>9, Zenon DEF Balanced

(* More ticks of others. *)
LEMMA BalanceLater ==
  ASSUME NEW t, NEW h, NEW read, NEW n \in Nat, Balanced(t, h, read, n)
  PROVE  Balanced(t, h, read, n + 1)
<1>1. t.count \in 0..(n + 1)
  BY DEF Balanced
<1> QED BY <1>1, Zenon DEF Balanced

(* Where collect() is matters only to the perf_thread it is at. *)
LEMMA BalanceElsewhere ==
  ASSUME NEW t, NEW h, NEW p, NEW q, NEW n, p <=> q, Balanced(t, h, p, n)
  PROVE  Balanced(t, h, q, n)
BY Zenon DEF Balanced, Shown

(* collect() reads: the value is recorded, and what is counted from now on is not in it. *)
LEMMA BalanceRead ==
  ASSUME NEW t, NEW u, NEW h, NEW n \in Nat, Balanced(t, h, FALSE, n), ReadOnce(t, u)
  PROVE  Balanced(u, h, TRUE, n)
<1> USE DEF ReadOnce
<1>1. PICK c \in 0..n : c = t.count
  BY DEF Balanced
<1>2. PICK s \in Seq(Int) : s = t.results
  BY DEF Balanced
<1>3. c \in Int
  OBVIOUS
<1>4. u.results = Append(s, c) /\ Append(s, c) \in Seq(Int) /\ Append(s, c) # <<>>
      /\ Last(Append(s, c)) = c
  <2> DEFINE r == Append(s, c)
  <2>1. r \in Seq(Int) /\ Len(r) = Len(s) + 1 /\ r[Len(s) + 1] = c /\ Len(s) \in Nat
    BY <1>3
  <2> HIDE DEF r
  <2>2. r # <<>> /\ Last(r) = c
    BY <2>1 DEF Last
  <2>3. u.results = r
    BY <1>1, <1>2, Zenon DEF r
  <2> QED BY <2>1, <2>2, <2>3, Zenon DEF r
<1>5. SumSeq(Append(s, c)) = SumSeq(s) + c /\ SumSeq(s) \in Int
  BY <1>3, SumAppend, SumType
<1>6. PICK x \in Int : x = SumSeq(s)
  BY <1>5
<1>7. (x + c) - c = x
  OBVIOUS
<1>8. Shown(u, TRUE) = (x + c) - c /\ Shown(t, FALSE) = x
  BY <1>2, <1>4, <1>5, <1>6, Zenon DEF Shown
<1>9. Due(u, h) = Due(t, h)
  BY Zenon DEF Due
<1> QED BY <1>4, <1>7, <1>8, <1>9, Zenon DEF Balanced

(* The reset: what was counted since the value was read is lost. *)
LEMMA BalanceReset ==
  ASSUME NEW t, NEW u, NEW h, NEW g, NEW n \in Nat, Balanced(t, h, TRUE, n),
         ResetOnce(t, u, h, g, t.count - Last(t.results))
  PROVE  Balanced(u, g, FALSE, n)
<1> USE DEF ResetOnce
<1>1. PICK c \in 0..n : c = t.count
  BY DEF Balanced
<1>2. PICK a \in Int, b \in Int : a = h.ticks /\ b = h.lost
  BY DEF Balanced
<1>3. PICK s \in Seq(Int) : s = t.results /\ s # <<>>
  BY Zenon DEF Balanced
<1>4. PICK v \in Int : v = Last(s)
  BY <1>3 DEF Last
<1>5. PICK x \in Int : x = SumSeq(s)
  BY SumType
<1>6. x - v = a - b - c
  BY <1>1, <1>2, <1>3, <1>4, <1>5, Zenon DEF Balanced, Shown, Due
<1>7. x = a - (b + (c - v)) - 0 /\ b + (c - v) \in Int /\ 0 \in 0..n
  BY <1>6
<1>8. g.lost = b + (c - v)
  BY <1>1, <1>2, <1>3, <1>4, Zenon
<1>9. Shown(u, FALSE) = x /\ Due(u, g) = a - (b + (c - v)) - 0
  BY <1>2, <1>3, <1>5, <1>8, Zenon DEF Shown, Due
<1> QED BY <1>2, <1>3, <1>7, <1>8, <1>9, Zenon DEF Balanced

(* start() forgets what was counted without a frame. *)
LEMMA BalanceStarted ==
  ASSUME NEW t, NEW u, NEW h, NEW g, NEW n \in Nat, Balanced(t, h, FALSE, n),
         ResetOnce(t, u, h, g, t.count)
  PROVE  Balanced(u, g, FALSE, n)
<1> USE DEF ResetOnce
<1>1. PICK c \in 0..n : c = t.count
  BY DEF Balanced
<1>2. PICK a \in Int, b \in Int : a = h.ticks /\ b = h.lost
  BY DEF Balanced
<1>3. a - b - c = a - (b + c) - 0 /\ b + c \in Int /\ 0 \in 0..n
  OBVIOUS
<1>4. g.lost = b + c
  BY <1>1, <1>2, Zenon
<1>5. Shown(u, FALSE) = Shown(t, FALSE)
  BY Zenon DEF Shown
<1>6. Due(u, g) = a - (b + c) - 0 /\ Due(t, h) = a - b - c
  BY <1>1, <1>2, <1>4, Zenon DEF Due
<1> QED BY <1>2, <1>3, <1>4, <1>5, <1>6, Zenon DEF Balanced

(* init() opens groups that have counted nothing. *)
LEMMA BalanceOpened ==
  ASSUME NEW t, NEW opened, NEW n \in Nat, t.kind \in Kinds
  PROVE  /\ Balanced(OpenedThread(t, opened), NoHistory, FALSE, n)
         /\ OpenedThread(t, opened).results = <<>>
<1> DEFINE u == OpenedThread(t, opened)
<1>1. u.kind = t.kind /\ u.count = 0 /\ u.results = <<>>
  BY DEF OpenedThread
<1>2. NoHistory.ticks = 0 /\ NoHistory.lost = 0 /\ IsHistory(NoHistory)
  BY DEF NoHistory, IsHistory, HistoryFields
<1> HIDE DEF u
<1>3. 0 \in 0..n /\ 0 \in Int /\ <<>> \in Seq(Int) /\ 0 - 0 - 0 = 0
  OBVIOUS
<1>4. Shown(u, FALSE) = 0
  BY <1>1, SumEmpty, Zenon DEF Shown
<1>5. Due(u, NoHistory) = 0 - 0 - 0
  BY <1>1, <1>2, Zenon DEF Due
<1>6. Balanced(u, NoHistory, FALSE, n)
  BY <1>1, <1>2, <1>3, <1>4, <1>5, Zenon DEF Balanced
<1> QED BY <1>1, <1>6 DEF u

\* What has to be shown of the state after a step: of its perf_threads, and of its totals.
FramesNext(D, l, n) ==
  \A i \in D : /\ Balanced(mThreads'[i], hist'[i], JustRead(client', i), n)
               /\ Len(mThreads'[i].results) = IF Ahead(client', i) THEN l + 1 ELSE l
TotalsNext(D) ==
  /\ client'.op = "new" => mCustomResult' = <<>>
  /\ client'.op = "idle" /\ config'.allThread /\ mCustomResult' # <<>> =>
        SumSeq(mCustomResult'.all) = SumSeq([i \in D |-> Due(mThreads'[i], hist'[i])])

LEMMA FrameInvNext ==
  ASSUME NEW n \in 0..MaxTicks, ticks' = n, NEW D, DOMAIN mThreads' = D, DOMAIN hist' = D,
         NEW l \in Nat, client'.op \in {"read", "reset"} => client'.i \in D,
         FramesNext(D, l, n), TotalsNext(D)
  PROVE  FrameInv'
<1>1. Indices' = D
  BY DEF Indices
<1>2. (\A i \in Indices : Balanced(mThreads[i], hist[i], JustRead(client, i), ticks))'
  BY <1>1, Zenon DEF FramesNext, Balanced, JustRead, Shown, Due, Kinds, IsHistory, HistoryFields
<1>3. (\E m \in Nat : \A i \in Indices :
         Len(mThreads[i].results) = IF Ahead(client, i) THEN m + 1 ELSE m)'
  BY <1>1, Zenon DEF FramesNext, Ahead, JustRead
<1>4. (client.op = "idle" /\ config.allThread /\ mCustomResult # <<>> =>
         SumSeq(mCustomResult.all) = SumSeq([i \in Indices |-> Due(mThreads[i], hist[i])]))'
  BY <1>1, Zenon DEF TotalsNext, Due
<1> QED BY <1>1, <1>2, <1>3, <1>4, Zenon DEF FrameInv, TotalsNext

(* Ticks and scopes leave frames, the client and the totals alone. *)
LEMMA FramesQuiet ==
  ASSUME FrameInv, NEW n \in 0..MaxTicks, ticks' = n,
         config' = config, client' = client, mCustomResult' = mCustomResult,
         DOMAIN mThreads' = Indices, DOMAIN hist' = Indices,
         \A i \in Indices : /\ Balanced(mThreads'[i], hist'[i], JustRead(client, i), n)
                            /\ mThreads'[i].results = mThreads[i].results
                            /\ Due(mThreads'[i], hist'[i]) = Due(mThreads[i], hist[i])
  PROVE  FrameInv'
<1>1. PICK l \in Nat : \A i \in Indices :
         Len(mThreads[i].results) = IF Ahead(client, i) THEN l + 1 ELSE l
  BY Zenon DEF FrameInv
<1>2. FramesNext(Indices, l, n)
  BY <1>1, Zenon DEF FramesNext
<1>3. [i \in Indices |-> Due(mThreads'[i], hist'[i])] = [i \in Indices |-> Due(mThreads[i], hist[i])]
  OBVIOUS
<1>4. TotalsNext(Indices)
  BY <1>3, Zenon DEF TotalsNext, FrameInv
<1>5. client'.op \in {"read", "reset"} => client'.i \in Indices
  BY Zenon DEF FrameInv
<1> QED BY <1>1, <1>2, <1>4, <1>5, FrameInvNext, Zenon

(* The kernel counts. *)
LEMMA TickKeepsFrames ==
  ASSUME MaxTicks < Modulus, OffInv, FrameInv, NEW k \in Indices, Tick(k)
  PROVE  FrameInv'
<1>1. PICK n \in 0..MaxTicks : n = ticks
  BY DEF FrameInv
<1>2. n \in Nat /\ MaxTicks \in Nat
  BY PerfAssumption
<1>3. /\ DOMAIN hist = Indices
      /\ \A i \in Indices : /\ IsThread(mThreads[i]) /\ IsHistory(hist[i])
                            /\ Balanced(mThreads[i], hist[i], JustRead(client, i), n)
  BY <1>1, Zenon DEF FrameInv, OffInv, ThreadsInv, Balanced
<1>4. /\ n < MaxTicks /\ ticks' = n + 1
      /\ mThreads' = [mThreads EXCEPT ![k].count = (@ + 1) % Modulus]
      /\ hist' = [hist EXCEPT ![k].ticks = @ + 1,
                              ![k].inside = IF mThreads[k].last_snap_func_id # NoFunc
                                            THEN @ + 1 ELSE @]
      /\ config' = config /\ client' = client /\ mCustomResult' = mCustomResult
  BY <1>1 DEF Tick, collectorVars
<1>5. n + 1 \in 0..MaxTicks /\ DOMAIN mThreads' = Indices /\ DOMAIN hist' = Indices
  BY <1>2, <1>3, <1>4 DEF Indices
<1>6. ASSUME NEW i \in Indices
      PROVE  /\ Balanced(mThreads'[i], hist'[i], JustRead(client, i), n + 1)
             /\ mThreads'[i].results = mThreads[i].results
             /\ Due(mThreads'[i], hist'[i]) = Due(mThreads[i], hist[i])
  <2>1. CASE i = k
    <3>1. mThreads'[i] = [mThreads[i] EXCEPT !.count = (mThreads[i].count + 1) % Modulus]
      BY <1>4, <2>1 DEF Indices
    <3>2. /\ mThreads'[i].kind = mThreads[i].kind /\ mThreads'[i].results = mThreads[i].results
          /\ mThreads'[i].count = (mThreads[i].count + 1) % Modulus
      BY <1>3, <3>1, FrameFields
    <3>3. hist'[i] = [hist[i] EXCEPT !.ticks = @ + 1,
                                     !.inside = IF mThreads[i].last_snap_func_id # NoFunc
                                                THEN @ + 1 ELSE @]
      BY <1>3, <1>4, <2>1 DEF IsHistory, HistoryFields
    <3>4. IsHistory(hist'[i]) /\ hist'[i].ticks = hist[i].ticks + 1 /\ hist'[i].lost = hist[i].lost
      BY <1>3, <3>3 DEF IsHistory, HistoryFields
    <3>5. CountedOnce(mThreads[i], mThreads'[i], hist[i], hist'[i])
      BY <3>2, <3>4, Zenon DEF CountedOnce
    <3>6. /\ Balanced(mThreads'[i], hist'[i], JustRead(client, i), n + 1)
          /\ Due(mThreads'[i], hist'[i]) = Due(mThreads[i], hist[i])
      <4>1. Balanced(mThreads[i], hist[i], JustRead(client, i), n)
        BY <1>3, Zenon
      <4>2. n \in Nat /\ n < MaxTicks
        BY <1>2, <1>4
      <4> QED BY <3>5, <4>1, <4>2, BalanceTick, SMT
    <3> QED BY <3>2, <3>6, Zenon
  <2>2. CASE i # k
    <3>1. mThreads'[i] = mThreads[i] /\ hist'[i] = hist[i]
      BY <1>3, <1>4, <2>2 DEF Indices
    <3>2. Balanced(mThreads[i], hist[i], JustRead(client, i), n + 1)
      BY <1>2, <1>3, BalanceLater, Zenon
    <3> QED BY <3>1, <3>2, Zenon
  <2> QED BY <2>1, <2>2
<1> QED BY <1>4, <1>5, <1>6, FramesQuiet, Zenon

(* Scopes read counters and never reset them. *)
LEMMA ScopeKeepsFrames ==
  ASSUME OffInv, FrameInv, NEW tid \in Scopers, Scope(tid)
  PROVE  FrameInv'
<1>1. PICK n \in 0..MaxTicks : n = ticks
  BY DEF FrameInv
<1>2. n \in Nat
  BY PerfAssumption
<1>3. /\ DOMAIN hist = Indices
      /\ \A i \in Indices : /\ IsThread(mThreads[i]) /\ IsHistory(hist[i])
                            /\ Balanced(mThreads[i], hist[i], JustRead(client, i), n)
  BY <1>1, Zenon DEF FrameInv, OffInv, ThreadsInv, Balanced
<1>4. /\ config' = config /\ client' = client /\ DOMAIN mThreads' = Indices
      /\ \A i \in Indices : ScopeChange(mThreads[i], mThreads'[i])
  BY ScopeStep, Zenon
<1>5. ASSUME NEW i \in Indices PROVE SameFrames(mThreads[i], mThreads'[i])
  <2>1. PICK f : \/ mThreads'[i] = mThreads[i]
                 \/ mThreads'[i] = Snapshot(mThreads[i], f)
                 \/ mThreads'[i] = UpdatedThread(mThreads[i], f)
    BY <1>4, Zenon DEF ScopeChange
  <2>2. /\ SameFrames(mThreads[i], Snapshot(mThreads[i], f))
        /\ SameFrames(mThreads[i], UpdatedThread(mThreads[i], f))
    BY <1>3, FrameFields
  <2>3. SameFrames(mThreads[i], mThreads[i])
    BY DEF SameFrames
  <2> QED BY <2>1, <2>2, <2>3, Zenon
<1> DEFINE HistoryChange(h, g) ==
             \E f : g = h \/ g = [h EXCEPT !.inside = 0, !.cut = FALSE] \/ g = Completed(h, f)
           Rest == /\ mCustomResult' = mCustomResult /\ ticks' = ticks /\ DOMAIN hist' = Indices
                   /\ \A i \in Indices : HistoryChange(hist[i], hist'[i])
<1>6. Rest
  <2>1. CASE \E s \in Scopes : ScopeStart(tid, s.func, s.flags)
    <3>1. PICK s \in Scopes : ScopeStart(tid, s.func, s.flags)
      BY <2>1
    <3> DEFINE noticed == mCollecting /\ CollectsReplay(s.flags)
    <3>2. /\ mCustomResult' = mCustomResult /\ ticks' = ticks
          /\ hist' = [i \in Indices |-> IF noticed /\ i \in Own(tid)
                                        THEN [hist[i] EXCEPT !.inside = 0, !.cut = FALSE] ELSE hist[i]]
      BY <3>1, Zenon DEF ScopeStart, collectorVars
    <3> HIDE DEF noticed
    <3> QED BY <3>2, Zenon
  <2>2. CASE ScopeFlags(tid) \/ ScopeStop(tid)
    <3>1. mCustomResult' = mCustomResult /\ ticks' = ticks /\ hist' = hist
      BY <2>2 DEF ScopeFlags, ScopeStop, collectorVars, boundVars
    <3> QED BY <1>3, <3>1, Zenon
  <2>3. CASE ScopeAdd(tid)
    <3> DEFINE own == IF CollectsReplay(scope[tid].flags) THEN Own(tid) ELSE {}
    <3>1. mCustomResult' = mCustomResult /\ ticks' = ticks
      BY <2>3 DEF ScopeAdd, collectorVars, boundVars
    <3>2. \/ hist' = [i \in Indices |-> IF i \in own THEN Completed(hist[i], scope[tid].func)
                                        ELSE hist[i]]
          \/ hist' = hist
      BY <2>3, Zenon DEF ScopeAdd
    <3> HIDE DEF own
    <3> QED BY <1>3, <3>1, <3>2, Zenon
  <2> QED BY <2>1, <2>2, <2>3, Zenon DEF Scope
<1> HIDE DEF HistoryChange
<1>7. ASSUME NEW i \in Indices PROVE SameTicks(hist[i], hist'[i])
  <2>1. PICK f : \/ hist'[i] = hist[i]
                 \/ hist'[i] = [hist[i] EXCEPT !.inside = 0, !.cut = FALSE]
                 \/ hist'[i] = Completed(hist[i], f)
    BY <1>6, Zenon DEF HistoryChange
  <2>2. /\ SameTicks(hist[i], [hist[i] EXCEPT !.inside = 0, !.cut = FALSE])
        /\ SameTicks(hist[i], Completed(hist[i], f))
    BY <1>3, TickFields, Zenon
  <2>3. SameTicks(hist[i], hist[i])
    BY <1>3 DEF SameTicks
  <2> QED BY <2>1, <2>2, <2>3, Zenon
<1>8. ASSUME NEW i \in Indices
      PROVE  /\ Balanced(mThreads'[i], hist'[i], JustRead(client, i), n)
             /\ mThreads'[i].results = mThreads[i].results
             /\ Due(mThreads'[i], hist'[i]) = Due(mThreads[i], hist[i])
  <2>1. /\ Balanced(mThreads[i], hist[i], JustRead(client, i), n)
        /\ SameFrames(mThreads[i], mThreads'[i]) /\ SameTicks(hist[i], hist'[i])
    BY <1>3, <1>5, <1>7, Zenon
  <2>2. /\ Balanced(mThreads'[i], hist'[i], JustRead(client, i), n)
        /\ Due(mThreads'[i], hist'[i]) = Due(mThreads[i], hist[i])
    BY <1>2, <2>1, BalanceKept, SMT
  <2> QED BY <2>1, <2>2, Zenon DEF SameFrames
<1> QED BY <1>1, <1>4, <1>6, <1>8, FramesQuiet, Zenon

\* Where the client is when it is not in the middle of a collect().
Apart(c) == c.op \notin {"read", "reset"}

(* There all perf_threads have the same number of frames, and nothing is pending. *)
LEMMA NothingPending ==
  ASSUME FrameInv, Apart(client)
  PROVE  /\ \A i : (JustRead(client, i) = FALSE) /\ (Ahead(client, i) = FALSE)
         /\ \E l \in Nat : Recorded(l)
         /\ \A i \in Indices : Balanced(mThreads[i], hist[i], FALSE, ticks)
<1>1. \A i : (JustRead(client, i) = FALSE) /\ (Ahead(client, i) = FALSE)
  BY Zenon DEF Apart, JustRead, Ahead
<1>2. \A i \in Indices : Balanced(mThreads[i], hist[i], FALSE, ticks)
  BY <1>1, Zenon DEF FrameInv
<1>3. PICK l \in Nat : \A i \in Indices : Len(mThreads[i].results) = l
  BY <1>1, Zenon DEF FrameInv
<1>4. Recorded(l)
  BY <1>2, <1>3, Zenon DEF Recorded, Balanced
<1> QED BY <1>1, <1>2, <1>4, Zenon

(* init() *)
LEMMA InitKeepsFrames ==
  ASSUME OffInv, FrameInv, init
  PROVE  FrameInv'
<1>1. PICK n \in 0..MaxTicks : n = ticks
  BY DEF FrameInv
<1>2. n \in Nat
  BY PerfAssumption
<1>3. /\ ticks' = n /\ client'.op = "idle" /\ mCustomResult' = <<>> /\ Apart(client')
  <2>1. ticks' = ticks /\ client.op = "new" /\ client' = [op |-> "idle", i |-> 1]
        /\ mCustomResult' = mCustomResult
    BY DEF init, At, Go, collectorVars, boundVars
  <2>2. mCustomResult = <<>>
    BY <2>1, Zenon DEF FrameInv
  <2>3. client'.op = "idle"
    BY <2>1
  <2>4. client'.op \notin {"read", "reset"}
    BY <2>3
  <2> QED BY <1>1, <2>1, <2>2, <2>3, <2>4, Zenon DEF Apart
<1>4. PICK opened \in SUBSET DOMAIN create_perf_thread :
        mThreads' = [i \in DOMAIN create_perf_thread |->
                       OpenedThread(create_perf_thread[i], i \in opened)]
  BY Zenon DEF init
<1> DEFINE D == DOMAIN create_perf_thread
<1>5. hist' = [i \in D |-> NoHistory]
  BY Zenon DEF init
<1>6. DOMAIN mThreads' = D /\ DOMAIN hist' = D
  BY <1>4, <1>5, Zenon
<1>7. \A i \in D : create_perf_thread[i].kind \in Kinds
  BY ThreadsIndexed, Zenon DEF OffInv, ThreadsInv, OfKinds
<1>8. ASSUME NEW i \in D
      PROVE  /\ Balanced(mThreads'[i], hist'[i], JustRead(client', i), n)
             /\ Len(mThreads'[i].results) = IF Ahead(client', i) THEN 0 + 1 ELSE 0
  <2>1. /\ mThreads'[i] = OpenedThread(create_perf_thread[i], i \in opened)
        /\ hist'[i] = NoHistory
    BY <1>4, <1>5, Zenon
  <2>2. /\ Balanced(OpenedThread(create_perf_thread[i], i \in opened), NoHistory, FALSE, n)
        /\ OpenedThread(create_perf_thread[i], i \in opened).results = <<>>
    BY <1>2, <1>7, BalanceOpened, Zenon
  <2>3. (JustRead(client', i) = FALSE) /\ (Ahead(client', i) = FALSE)
    BY <1>3, Zenon DEF Apart, JustRead, Ahead
  <2>4. Len(<<>>) = 0
    OBVIOUS
  <2> QED BY <2>1, <2>2, <2>3, <2>4, Zenon
<1>9. FramesNext(D, 0, n)
  BY <1>8, Zenon DEF FramesNext
<1>10. TotalsNext(D)
  BY <1>3, Zenon DEF TotalsNext
<1>11. 0 \in Nat /\ (client'.op \in {"read", "reset"} => client'.i \in D)
  BY <1>3 DEF Apart
<1> HIDE DEF D
<1> QED BY <1>3, <1>6, <1>9, <1>10, <1>11, FrameInvNext, Zenon

(* start() *)
LEMMA StartKeepsFrames ==
  ASSUME OffInv, FrameInv, start
  PROVE  FrameInv'
<1>1. PICK n \in 0..MaxTicks : n = ticks
  BY DEF FrameInv
<1>2. n \in Nat
  BY PerfAssumption
<1>3. /\ ticks' = n /\ client.op = "idle" /\ client'.op = "session"
  BY <1>1 DEF start, At, Go
<1>4. Apart(client) /\ Apart(client')
  BY <1>3 DEF Apart
<1>5. PICK l \in Nat : Recorded(l)
  BY <1>4, NothingPending, Zenon
<1>6. /\ DOMAIN hist = Indices
      /\ \A i \in Indices : /\ IsThread(mThreads[i]) /\ IsHistory(hist[i])
                            /\ Balanced(mThreads[i], hist[i], FALSE, n)
  BY <1>1, <1>4, NothingPending, Zenon DEF FrameInv, OffInv, ThreadsInv, Balanced
<1> DEFINE A == {i \in Indices : \A j \in {k \in Indices : mThreads[k].group = "failed"} : i < j}
<1>7. /\ mThreads' = [i \in Indices |-> IF i \in A THEN [Reset(mThreads[i]) EXCEPT !.group = "on"]
                                        ELSE mThreads[i]]
      /\ hist' = [i \in Indices |-> IF i \in A THEN Cut(hist[i], mThreads[i], mThreads[i].count)
                                    ELSE hist[i]]
  BY Zenon DEF start
<1> HIDE DEF A
<1>8. ASSUME NEW i \in Indices
      PROVE  /\ Balanced(mThreads'[i], hist'[i], JustRead(client', i), n)
             /\ Len(mThreads'[i].results) = IF Ahead(client', i) THEN l + 1 ELSE l
  <2>1. (JustRead(client', i) = FALSE) /\ (Ahead(client', i) = FALSE)
    BY <1>4, Zenon DEF Apart, JustRead, Ahead
  <2>2. CASE i \in A
    <3>1. /\ mThreads'[i] = [Reset(mThreads[i]) EXCEPT !.group = "on"]
          /\ hist'[i] = Cut(hist[i], mThreads[i], mThreads[i].count)
      BY <1>7, <2>2, Zenon
    <3>2. ResetOnce(mThreads[i], mThreads'[i], hist[i], hist'[i], mThreads[i].count)
      <4>1. /\ mThreads'[i].kind = mThreads[i].kind /\ mThreads'[i].results = mThreads[i].results
            /\ mThreads'[i].count = 0
        <5>1. IsThread(mThreads[i])
          BY <1>6
        <5> QED BY <3>1, <5>1, ResetFields, Zenon
      <4>2. /\ IsHistory(hist'[i]) /\ hist'[i].ticks = hist[i].ticks
            /\ hist'[i].lost = hist[i].lost + mThreads[i].count
        <5>1. IsHistory(hist[i])
          BY <1>6
        <5>2. PICK g : /\ g = Cut(hist[i], mThreads[i], mThreads[i].count) /\ IsHistory(g)
                       /\ g.ticks = hist[i].ticks /\ g.lost = hist[i].lost + mThreads[i].count
          BY <5>1, LostField
        <5> QED BY <3>1, <5>2, Zenon
      <4> QED BY <4>1, <4>2, Zenon DEF ResetOnce
    <3>3. Balanced(mThreads'[i], hist'[i], FALSE, n)
      BY <1>2, <1>6, <3>2, BalanceStarted
    <3>4. Len(mThreads'[i].results) = l
      BY <1>5, <3>2, Zenon DEF ResetOnce, Recorded
    <3> QED BY <2>1, <3>3, <3>4, Zenon
  <2>3. CASE i \notin A
    <3>1. mThreads'[i] = mThreads[i] /\ hist'[i] = hist[i]
      BY <1>7, <2>3, Zenon
    <3> QED BY <1>5, <1>6, <2>1, <3>1, Zenon DEF Recorded
  <2> QED BY <2>2, <2>3
<1>9. FramesNext(Indices, l, n)
  BY <1>8, Zenon DEF FramesNext
<1>10. TotalsNext(Indices)
  BY <1>3 DEF TotalsNext
<1>11. DOMAIN mThreads' = Indices /\ DOMAIN hist' = Indices
  BY <1>7
<1>12. client'.op \in {"read", "reset"} => client'.i \in Indices
  BY <1>3
<1> QED BY <1>3, <1>9, <1>10, <1>11, <1>12, FrameInvNext, Zenon

(* collect() begins. *)
LEMMA BeginKeepsFrames ==
  ASSUME OffInv, FrameInv, CollectBegin
  PROVE  FrameInv'
<1>1. PICK n \in 0..MaxTicks : n = ticks
  BY DEF FrameInv
<1>2. PICK m \in Nat : Indices = 1..m
  BY DEF OffInv, ThreadsInv
<1>3. /\ ticks' = n /\ client.op = "session" /\ client'.op = "read" /\ client'.i = 1
      /\ mThreads' = mThreads /\ hist' = hist /\ Indices # {}
  BY <1>1 DEF CollectBegin, At, Go
<1>4. Apart(client)
  BY <1>3 DEF Apart
<1>5. PICK l \in Nat : Recorded(l)
  BY <1>4, NothingPending, Zenon
<1>6. ASSUME NEW i \in Indices
      PROVE  /\ Balanced(mThreads'[i], hist'[i], JustRead(client', i), n)
             /\ Len(mThreads'[i].results) = IF Ahead(client', i) THEN l + 1 ELSE l
  <2>1. ~(i < 1)
    BY <1>2
  <2>2. ~JustRead(client', i) /\ ~Ahead(client', i)
    <3>1. client'.op # "reset"
      BY <1>3
    <3> QED BY <1>3, <2>1, <3>1, Zenon DEF JustRead, Ahead
  <2>3. Balanced(mThreads[i], hist[i], FALSE, n)
    BY <1>1, <1>4, NothingPending, Zenon
  <2>4. Balanced(mThreads[i], hist[i], JustRead(client', i), n)
    BY <2>2, <2>3, Zenon DEF Balanced, Shown
  <2>5. Len(mThreads[i].results) = l
    BY <1>5, Zenon DEF Recorded
  <2> QED BY <1>3, <2>2, <2>4, <2>5, Zenon
<1>7. FramesNext(Indices, l, n)
  BY <1>6, Zenon DEF FramesNext
<1>8. TotalsNext(Indices)
  BY <1>3 DEF TotalsNext
<1>9. DOMAIN mThreads' = Indices /\ DOMAIN hist' = Indices
  BY <1>3, Zenon DEF FrameInv, Indices
<1>10. client'.op \in {"read", "reset"} => client'.i \in Indices
  BY <1>2, <1>3
<1> QED BY <1>3, <1>7, <1>8, <1>9, <1>10, FrameInvNext, Zenon

(* collect() reads one counter. *)
LEMMA ReadKeepsFrames ==
  ASSUME OffInv, FrameInv, CollectRead
  PROVE  FrameInv'
<1>1. PICK n \in 0..MaxTicks : n = ticks
  BY DEF FrameInv
<1>2. PICK m \in Nat : Indices = 1..m
  BY DEF OffInv, ThreadsInv
<1>3. n \in Nat
  BY PerfAssumption
<1>4. /\ client.op = "read" /\ client.op \in {"read", "reset"}
      /\ client' = [op |-> "reset", i |-> client.i] /\ ticks' = n /\ hist' = hist
      /\ mThreads' = [mThreads EXCEPT ![client.i].results = Append(@, mThreads[client.i].count)]
  BY <1>1 DEF CollectRead, At, Go, boundVars
<1>5. PICK k \in Indices : k = client.i
  BY <1>4, Zenon DEF FrameInv
<1>6. client'.op = "reset" /\ client'.i = k /\ client.op # "reset"
  BY <1>4, <1>5
<1>7. DOMAIN mThreads' = Indices /\ DOMAIN hist' = Indices
  BY <1>4, Zenon DEF FrameInv, Indices
<1>8. PICK l \in Nat : \A i \in Indices :
         Len(mThreads[i].results) = IF Ahead(client, i) THEN l + 1 ELSE l
  BY Zenon DEF FrameInv
<1>9. \A i \in Indices : /\ IsThread(mThreads[i])
                         /\ Balanced(mThreads[i], hist[i], JustRead(client, i), n)
  BY <1>1, Zenon DEF FrameInv, OffInv, ThreadsInv
<1>10. ASSUME NEW i \in Indices
       PROVE  /\ Balanced(mThreads'[i], hist'[i], JustRead(client', i), n)
              /\ Len(mThreads'[i].results) = IF Ahead(client', i) THEN l + 1 ELSE l
  <2>1. /\ ~JustRead(client, i) /\ (Ahead(client, i) <=> i < k)
        /\ (JustRead(client', i) <=> i = k) /\ (Ahead(client', i) <=> i = k \/ i < k)
    BY <1>4, <1>5, <1>6, Zenon DEF JustRead, Ahead
  <2>2. Balanced(mThreads[i], hist[i], FALSE, n)
    BY <1>9, <2>1, Zenon DEF Balanced, Shown
  <2>3. CASE i = k
    <3>1. mThreads'[i] = [mThreads[i] EXCEPT !.results = Append(mThreads[i].results, mThreads[i].count)]
      BY <1>4, <1>5, <1>9, <2>3 DEF Indices, IsThread, ThreadFields
    <3>2. ReadOnce(mThreads[i], mThreads'[i])
      BY <1>9, <3>1, FrameFields DEF ReadOnce
    <3>3. Balanced(mThreads'[i], hist[i], TRUE, n)
      BY <1>3, <2>2, <3>2, BalanceRead
    <3>4. Balanced(mThreads'[i], hist'[i], JustRead(client', i), n)
      BY <1>4, <2>1, <2>3, <3>3, Zenon DEF Balanced, Shown
    <3>5. ~(i < k)
      BY <1>2, <2>3
    <3>6. Len(mThreads[i].results) = l
      BY <1>8, <2>1, <3>5, Zenon
    <3>7. Len(mThreads'[i].results) = l + 1
      <4>1. PICK s \in Seq(Int), c \in Int : s = mThreads[i].results /\ c = mThreads[i].count
        BY <2>2 DEF Balanced
      <4>2. mThreads'[i].results = Append(s, c) /\ Len(s) = l
        BY <3>2, <3>6, <4>1, Zenon DEF ReadOnce
      <4> QED BY <4>2
    <3> QED BY <2>1, <2>3, <3>4, <3>7, Zenon
  <2>4. CASE i # k
    <3>1. mThreads'[i] = mThreads[i] /\ hist'[i] = hist[i]
      BY <1>4, <1>5, <2>4 DEF Indices
    <3>2. Balanced(mThreads[i], hist[i], JustRead(client', i), n)
      BY <2>1, <2>2, <2>4, Zenon DEF Balanced, Shown
    <3>3. Ahead(client', i) <=> Ahead(client, i)
      BY <2>1, <2>4, Zenon
    <3>4. Len(mThreads[i].results) = IF Ahead(client, i) THEN l + 1 ELSE l
      BY <1>8, Zenon
    <3> QED BY <3>1, <3>2, <3>3, <3>4, Zenon
  <2> QED BY <2>3, <2>4
<1>11. FramesNext(Indices, l, n)
  BY <1>10, Zenon DEF FramesNext
<1>12. TotalsNext(Indices)
  BY <1>6 DEF TotalsNext
<1>13. client'.op \in {"read", "reset"} => client'.i \in Indices
  BY <1>6, Zenon
<1> QED BY <1>4, <1>7, <1>11, <1>12, <1>13, FrameInvNext, Zenon

(* collect() resets the counter it has read, and goes on to the next one or ends. *)
LEMMA ResetKeepsFrames ==
  ASSUME OffInv, FrameInv, CollectReset
  PROVE  FrameInv'
<1>1. PICK n \in 0..MaxTicks : n = ticks
  BY DEF FrameInv
<1>2. PICK m \in Nat : Indices = 1..m
  BY DEF OffInv, ThreadsInv
<1>3. n \in Nat /\ Len(mThreads) = m
  BY <1>2, PerfAssumption DEF Indices
<1>4. /\ client.op = "reset" /\ client.op \in {"read", "reset"} /\ ticks' = n
      /\ mThreads' = [mThreads EXCEPT ![client.i] = Reset(mThreads[client.i])]
      /\ hist' = [hist EXCEPT ![client.i] =
                    Cut(hist[client.i], mThreads[client.i],
                        mThreads[client.i].count - Last(mThreads[client.i].results))]
  BY <1>1 DEF CollectReset, At, AfterRead, boundVars
<1>5. PICK k \in Indices : k = client.i
  BY <1>4, Zenon DEF FrameInv
<1>6. IF k < m THEN client' = [op |-> "read", i |-> k + 1] ELSE client' = [op |-> "session", i |-> 1]
  BY <1>3, <1>5 DEF CollectReset, Go
<1>7. DOMAIN hist = Indices /\ DOMAIN mThreads' = Indices /\ DOMAIN hist' = Indices
  BY <1>4 DEF FrameInv, Indices
<1>8. PICK l \in Nat : \A i \in Indices :
         Len(mThreads[i].results) = IF Ahead(client, i) THEN l + 1 ELSE l
  BY Zenon DEF FrameInv
<1>9. \A i \in Indices : /\ IsThread(mThreads[i]) /\ IsHistory(hist[i])
                         /\ Balanced(mThreads[i], hist[i], JustRead(client, i), n)
  BY <1>1, Zenon DEF FrameInv, OffInv, ThreadsInv, Balanced
<1>10. ASSUME NEW i \in Indices
       PROVE  /\ Balanced(mThreads'[i], hist'[i], FALSE, n)
              /\ Len(mThreads'[i].results) = IF i <= k THEN l + 1 ELSE l
  <2>1. (JustRead(client, i) <=> i = k) /\ (Ahead(client, i) <=> i = k \/ i < k)
    BY <1>4, <1>5, Zenon DEF JustRead, Ahead
  <2>2. (i = k \/ i < k) <=> i <= k
    BY <1>2
  <2>3. Len(mThreads[i].results) = IF i <= k THEN l + 1 ELSE l
    BY <1>8, <2>1, <2>2, Zenon
  <2>4. CASE i = k
    <3>1. /\ mThreads'[i] = Reset(mThreads[i])
          /\ hist'[i] = Cut(hist[i], mThreads[i], mThreads[i].count - Last(mThreads[i].results))
      BY <1>4, <1>5, <1>7, <2>4 DEF Indices
    <3>2. Balanced(mThreads[i], hist[i], TRUE, n)
      BY <1>9, <2>1, <2>4, Zenon DEF Balanced, Shown
    <3>3. ResetOnce(mThreads[i], mThreads'[i], hist[i], hist'[i],
                    mThreads[i].count - Last(mThreads[i].results))
      <4>1. /\ mThreads'[i].kind = mThreads[i].kind /\ mThreads'[i].results = mThreads[i].results
            /\ mThreads'[i].count = 0
        <5>1. IsThread(mThreads[i])
          BY <1>9
        <5> QED BY <3>1, <5>1, ResetFields, Zenon
      <4>2. PICK x : x = mThreads[i].count - Last(mThreads[i].results)
        OBVIOUS
      <4>3. IsHistory(hist[i])
        BY <1>9
      <4>4. PICK g : /\ g = Cut(hist[i], mThreads[i], x) /\ IsHistory(g)
                     /\ g.ticks = hist[i].ticks /\ g.lost = hist[i].lost + x
        BY <4>3, LostField
      <4>5. hist'[i] = g
        BY <3>1, <4>2, <4>4, Zenon
      <4> QED BY <4>1, <4>2, <4>4, <4>5, Zenon DEF ResetOnce
    <3>4. Balanced(mThreads'[i], hist'[i], FALSE, n)
      BY <1>3, <3>2, <3>3, BalanceReset
    <3> QED BY <2>3, <3>3, <3>4, Zenon DEF ResetOnce
  <2>5. CASE i # k
    <3>1. mThreads'[i] = mThreads[i] /\ hist'[i] = hist[i]
      BY <1>4, <1>5, <1>7, <2>5 DEF Indices
    <3>2. Balanced(mThreads[i], hist[i], FALSE, n)
      BY <1>9, <2>1, <2>5, Zenon DEF Balanced, Shown
    <3> QED BY <2>3, <3>1, <3>2, Zenon
  <2> QED BY <2>4, <2>5
<1>11. CASE k < m
  <2>1. client'.op = "read" /\ client'.i = k + 1
    BY <1>6, <1>11
  <2>2. k + 1 \in Indices /\ client'.op # "reset"
    BY <1>2, <1>11, <2>1
  <2>3. ASSUME NEW i \in Indices
        PROVE  ~JustRead(client', i) /\ (Ahead(client', i) <=> i <= k)
    <3>1. i < k + 1 <=> i <= k
      BY <1>2
    <3> QED BY <2>1, <2>2, <3>1, Zenon DEF JustRead, Ahead
  <2>4. FramesNext(Indices, l, n)
    <3> SUFFICES ASSUME NEW i \in Indices
                 PROVE  /\ Balanced(mThreads'[i], hist'[i], JustRead(client', i), n)
                        /\ Len(mThreads'[i].results) = IF Ahead(client', i) THEN l + 1 ELSE l
      BY Zenon DEF FramesNext
    <3>1. Balanced(mThreads'[i], hist'[i], JustRead(client', i), n)
      BY <1>10, <2>3, Zenon DEF Balanced, Shown
    <3> QED BY <1>10, <2>3, <3>1, Zenon
  <2>5. TotalsNext(Indices)
    BY <2>1 DEF TotalsNext
  <2>6. client'.op \in {"read", "reset"} => client'.i \in Indices
    BY <2>1, <2>2, Zenon
  <2> QED BY <1>4, <1>7, <2>4, <2>5, <2>6, FrameInvNext, Zenon
<1>12. CASE ~(k < m)
  <2>1. client'.op = "session"
    BY <1>6, <1>12
  <2>2. ASSUME NEW i \in Indices
        PROVE  ~JustRead(client', i) /\ ~Ahead(client', i) /\ i <= k
    <3>1. i <= k
      BY <1>2, <1>12
    <3>2. client'.op # "reset" /\ client'.op \notin {"read", "reset"}
      BY <2>1
    <3> QED BY <3>1, <3>2, Zenon DEF JustRead, Ahead
  <2>3. l + 1 \in Nat
    OBVIOUS
  <2>4. FramesNext(Indices, l + 1, n)
    <3> SUFFICES ASSUME NEW i \in Indices
                 PROVE  /\ Balanced(mThreads'[i], hist'[i], JustRead(client', i), n)
                        /\ Len(mThreads'[i].results) = IF Ahead(client', i) THEN (l + 1) + 1 ELSE l + 1
      BY Zenon DEF FramesNext
    <3>1. Balanced(mThreads'[i], hist'[i], JustRead(client', i), n)
      BY <1>10, <2>2, Zenon DEF Balanced, Shown
    <3> QED BY <1>10, <2>2, <3>1, Zenon
  <2>5. TotalsNext(Indices)
    BY <2>1 DEF TotalsNext
  <2>6. client'.op \in {"read", "reset"} => client'.i \in Indices
    BY <2>1
  <2> QED BY <1>4, <1>7, <2>3, <2>4, <2>5, <2>6, FrameInvNext, Zenon
<1> QED BY <1>11, <1>12

(* stop() makes the totals. *)
LEMMA StopKeepsFrames ==
  ASSUME OffInv, FrameInv, stop
  PROVE  FrameInv'
<1>1. PICK n \in 0..MaxTicks : n = ticks
  BY DEF FrameInv
<1>2. PICK m \in Nat : Indices = 1..m
  BY DEF OffInv, ThreadsInv
<1>3. n \in Nat
  BY PerfAssumption
<1>4. /\ ticks' = n /\ client.op = "session" /\ client'.op = "idle" /\ hist' = hist
      /\ config' = config /\ mCustomResult' = postprocess
      /\ mThreads' = IF mCollecting THEN [i \in Indices |-> StoppedThread(mThreads[i])] ELSE mThreads
  BY <1>1 DEF stop, At, Go, boundVars
<1>5. Apart(client) /\ Apart(client')
  BY <1>4 DEF Apart
<1>6. PICK l \in Nat : Recorded(l)
  BY <1>5, NothingPending, Zenon
<1>7. /\ DOMAIN hist = Indices /\ DOMAIN mThreads' = Indices /\ DOMAIN hist' = Indices
      /\ \A i \in Indices : /\ IsThread(mThreads[i]) /\ IsHistory(hist[i])
                            /\ Balanced(mThreads[i], hist[i], FALSE, n)
  <2>1. DOMAIN mThreads' = Indices
    BY <1>4 DEF Indices
  <2>2. \A i \in Indices : Balanced(mThreads[i], hist[i], FALSE, n)
    BY <1>1, <1>5, NothingPending, Zenon
  <2> QED BY <1>4, <2>1, <2>2, Zenon DEF FrameInv, OffInv, ThreadsInv, Balanced
<1>8. ASSUME NEW i \in Indices
      PROVE  /\ Balanced(mThreads'[i], hist'[i], FALSE, n)
             /\ Due(mThreads'[i], hist'[i]) = Due(mThreads[i], hist[i])
             /\ Len(mThreads'[i].results) = l
  <2>1. SameFrames(mThreads[i], mThreads'[i])
    <3>1. mThreads'[i] = mThreads[i] \/ mThreads'[i] = StoppedThread(mThreads[i])
      BY <1>4
    <3>2. SameFrames(mThreads[i], StoppedThread(mThreads[i]))
      BY <1>7, FrameFields
    <3> QED BY <3>1, <3>2, Zenon DEF SameFrames
  <2>2. SameTicks(hist[i], hist'[i])
    BY <1>4, <1>7, Zenon DEF SameTicks
  <2>3. /\ Balanced(mThreads'[i], hist'[i], FALSE, n)
        /\ Due(mThreads'[i], hist'[i]) = Due(mThreads[i], hist[i])
    <3>1. Balanced(mThreads[i], hist[i], FALSE, n)
      BY <1>7
    <3> QED BY <2>1, <2>2, <3>1, Zenon DEF Balanced, SameFrames, SameTicks, Shown, Due
  <2> QED BY <1>6, <2>1, <2>3, Zenon DEF SameFrames, Recorded
<1>9. FramesNext(Indices, l, n)
  <2>1. \A i : ~JustRead(client', i) /\ ~Ahead(client', i)
    BY <1>5, Zenon DEF Apart, JustRead, Ahead
  <2> QED BY <1>8, <2>1, Zenon DEF FramesNext, Balanced, Shown
<1>10. TotalsNext(Indices)
  <2> SUFFICES ASSUME config.allThread
               PROVE  SumSeq(mCustomResult'.all) = SumSeq([i \in Indices |-> Due(mThreads'[i], hist'[i])])
    BY <1>4 DEF TotalsNext
  <2>1. mCustomResult'.all = TotalOf({"background"}, TotalOf({"replay", "booker", "cspmu"}, <<>>))
    BY <1>4 DEF postprocess
  <2>2. \A i \in Indices : mThreads[i].kind \in Kinds
    BY <1>7, Zenon DEF Balanced
  <2>3. SumSeq(mCustomResult'.all) = SumSeq([i \in Indices |-> SumSeq(mThreads[i].results)])
    BY <1>2, <1>6, <2>1, <2>2, AllRecorded, Zenon
  <2>4. \A i \in Indices : SumSeq(mThreads[i].results) = Due(mThreads'[i], hist'[i])
    BY <1>7, <1>8, Zenon DEF Balanced, Shown
  <2>5. [i \in Indices |-> SumSeq(mThreads[i].results)] = [i \in Indices |-> Due(mThreads'[i], hist'[i])]
    BY <2>4
  <2> QED BY <2>3, <2>5, Zenon
<1>11. client'.op \in {"read", "reset"} => client'.i \in Indices
  BY <1>4
<1> QED BY <1>4, <1>6, <1>7, <1>9, <1>10, <1>11, FrameInvNext, Zenon

\* perf.cpp:405, 557: the totals stop() reports for all threads hold every tick of every group
\* exactly once, except those between a read and its reset and those after the last frame, for
\* every configuration, number of perf_threads, frames and sessions, wherever ticks and scopes
\* fall, if no more is counted in all than a counter can hold.
THEOREM FramesAccountForTicksHolds == MaxTicks < Modulus => (Spec => []FramesAccountForTicks)
<1> SUFFICES ASSUME MaxTicks < Modulus PROVE Spec => []FramesAccountForTicks
  OBVIOUS
<1>1. Init => FrameInv
  <2> SUFFICES ASSUME Init PROVE FrameInv
    OBVIOUS
  <2>1. /\ Indices = {} /\ DOMAIN hist = {} /\ ticks = 0 /\ client.op = "new"
        /\ mCustomResult = <<>>
    BY DEF Init, Indices
  <2>2. ticks \in 0..MaxTicks /\ 0 \in Nat /\ client.op \notin {"read", "reset", "idle"}
    BY <2>1, PerfAssumption
  <2> QED BY <2>1, <2>2, Zenon DEF FrameInv
<1>2. OffInv /\ FrameInv /\ [Next]_vars => FrameInv'
  <2> SUFFICES ASSUME OffInv, FrameInv, [Next]_vars PROVE FrameInv'
    OBVIOUS
  <2>1. CASE deinit
    <3>1. PICK n \in 0..MaxTicks : n = ticks
      BY DEF FrameInv
    <3>2. /\ ticks' = n /\ client'.op = "deleted" /\ mThreads' = <<>> /\ hist' = <<>>
      BY <2>1, <3>1 DEF deinit, Go, boundVars
    <3>3. DOMAIN mThreads' = {} /\ DOMAIN hist' = {} /\ 0 \in Nat
      BY <3>2
    <3>4. FramesNext({}, 0, n)
      BY DEF FramesNext
    <3>5. TotalsNext({})
      BY <3>2 DEF TotalsNext
    <3>6. client'.op \in {"read", "reset"} => client'.i \in {}
      BY <3>2
    <3> QED BY <3>2, <3>3, <3>4, <3>5, <3>6, FrameInvNext, Zenon
  <2>2. CASE UNCHANGED vars
    <3>1. /\ config' = config /\ client' = client /\ mCustomResult' = mCustomResult
          /\ ticks' = ticks /\ mThreads' = mThreads /\ hist' = hist
      BY <2>2, Zenon DEF vars, collectorVars, boundVars
    <3>2. PICK n \in 0..MaxTicks : n = ticks
      BY DEF FrameInv
    <3>3. DOMAIN mThreads' = Indices /\ DOMAIN hist' = Indices
      BY <3>1, Zenon DEF FrameInv, Indices
    <3>4. \A i \in Indices : Balanced(mThreads'[i], hist'[i], JustRead(client, i), n)
      BY <3>1, <3>2, Zenon DEF FrameInv
    <3> QED BY <3>1, <3>2, <3>3, <3>4, FramesQuiet, Zenon
  <2>3. CASE init
    BY <2>3, InitKeepsFrames
  <2>4. CASE start
    BY <2>4, StartKeepsFrames
  <2>5. CASE CollectBegin
    BY <2>5, BeginKeepsFrames
  <2>6. CASE CollectRead
    BY <2>6, ReadKeepsFrames
  <2>7. CASE CollectReset
    BY <2>7, ResetKeepsFrames
  <2>8. CASE stop
    BY <2>8, StopKeepsFrames
  <2>9. CASE \E i \in Indices : Tick(i)
    BY <2>9, TickKeepsFrames
  <2>10. CASE \E tid \in Scopers : Scope(tid)
    BY <2>10, ScopeKeepsFrames
  <2> QED BY <2>1, <2>2, <2>3, <2>4, <2>5, <2>6, <2>7, <2>8, <2>9, <2>10 DEF Next, Client
<1>3. FrameInv => FramesAccountForTicks
  BY Zenon DEF FrameInv, FramesAccountForTicks, At, Due
<1> QED BY <1>1, <1>2, <1>3, GroupsInvariant, PTL DEF Spec


-------------------------------------------------------------------------------
(* What a Collection records of rusage, procfs and cpufreq (Recording), for any  *)
(* number of sessions, frames, summaries and custom columns.                     *)

USE DEF Recorder!worldVars, Recorder!frameVars, Recorder!columnVars, Recorder!memoryVars,
        Recorder!historyVars

\* A sequence, of whatever.
IsList(s) == Len(s) \in Nat /\ s = [k \in 1..Len(s) |-> s[k]]
\* A column that has v in n rows.
Rows(n, v) == [k \in 1..n |-> v]

\* A sequence over a set is one.
LEMMA SeqIsList ==
  ASSUME NEW S, NEW t \in Seq(S)
  PROVE  IsList(t)
BY DEF IsList

\* Sequences and Append.
LEMMA ListAppend ==
  ASSUME NEW s, IsList(s), NEW v
  PROVE  /\ IsList(Append(s, v)) /\ Len(Append(s, v)) = Len(s) + 1
         /\ Append(s, v)[Len(s) + 1] = v
         /\ s = <<>> <=> Len(s) = 0
<1> DEFINE S == {s[k] : k \in 1..Len(s)} \cup {v}
<1>1. Len(s) \in Nat /\ s = [k \in 1..Len(s) |-> s[k]]
  BY DEF IsList
<1>2. \A k \in 1..Len(s) : s[k] \in S
  OBVIOUS
<1>3. v \in S
  OBVIOUS
<1> HIDE DEF S
<1>4. s \in Seq(S)
  BY <1>1, <1>2
<1>5. Append(s, v) \in Seq(S)
  BY <1>3, <1>4
<1>6. IsList(Append(s, v))
  BY <1>5, SeqIsList
<1>7. Len(Append(s, v)) = Len(s) + 1 /\ Append(s, v)[Len(s) + 1] = v
  BY <1>3, <1>4
<1>8. s = <<>> <=> Len(s) = 0
  BY <1>4
<1> QED BY <1>6, <1>7, <1>8

\* The empty sequence.
LEMMA ListEmpty == IsList(<<>>) /\ Len(<<>>) = 0
BY DEF IsList

\* A row more of the same value.
LEMMA RowsGrow ==
  ASSUME NEW n \in Nat, NEW v
  PROVE  /\ Append(Rows(n, v), v) = Rows(n + 1, v)
         /\ Rows(0, v) = <<>> /\ Len(Rows(n, v)) = n
         /\ Rows(n, v) = <<>> <=> n = 0
<1>1. Rows(n, v) \in Seq({v}) /\ Len(Rows(n, v)) = n
  BY DEF Rows
<1>2. Append(Rows(n, v), v) = Rows(n + 1, v)
  <2>1. Append(Rows(n, v), v) \in Seq({v}) /\ Len(Append(Rows(n, v), v)) = n + 1
    BY <1>1
  <2>2. Rows(n + 1, v) \in Seq({v}) /\ Len(Rows(n + 1, v)) = n + 1
    BY DEF Rows
  <2>3. \A k \in 1..n + 1 : Append(Rows(n, v), v)[k] = v /\ Rows(n + 1, v)[k] = v
    BY <2>1, <2>2
  <2> QED BY <2>1, <2>2, <2>3
<1>3. Rows(0, v) = <<>>
  BY DEF Rows
<1>4. Rows(n, v) = <<>> <=> n = 0
  BY <1>1, <1>3
<1> QED BY <1>1, <1>2, <1>3, <1>4

RecordingType ==
  /\ IsList(list) /\ IsList(summaries) /\ typed \in BOOLEAN
  /\ inRunning \in BOOLEAN /\ running \in BOOLEAN
  /\ gaps \in BOOLEAN /\ late \in BOOLEAN /\ renamed \in BOOLEAN
  /\ mTiming \in Nat /\ mTimingSummarized \in Nat
  /\ mCustomHeaders \in Seq(STRING)

\* RecordingType is preserved.
LEMMA RecordingTypes == Recorder!Spec => []RecordingType
<1>1. Recorder!Init => RecordingType
  <2> SUFFICES ASSUME Recorder!Init PROVE RecordingType
    OBVIOUS
  <2>1. IsList(list) /\ IsList(summaries)
    BY ListEmpty DEF Recorder!Init
  <2>2. mCustomHeaders \in Seq(STRING)
    BY DEF Recorder!Init
  <2> QED BY <2>1, <2>2 DEF Recorder!Init, RecordingType
<1>2. RecordingType /\ [Recorder!Next]_(Recorder!vars) => RecordingType'
  <2> SUFFICES ASSUME RecordingType, [Recorder!Next]_(Recorder!vars) PROVE RecordingType'
    OBVIOUS
  <2> USE DEF RecordingType
  <2>1. CASE Recorder!Elapse \/ Recorder!Initialize \/ Recorder!SummarizeTraps \/ Recorder!stop
             \/ UNCHANGED Recorder!vars
    BY <2>1 DEF Recorder!Elapse, Recorder!Initialize, Recorder!SummarizeTraps, Recorder!stop,
       Recorder!vars
  <2>2. CASE Recorder!start
    <3>1. mCustomHeaders' \in Seq(STRING) /\ renamed' \in BOOLEAN
      BY <2>2, RecordingAssumption DEF Recorder!start
    <3>2. IsList(list')
      BY <2>2, ListEmpty DEF Recorder!start
    <3> QED BY <2>2, <3>1, <3>2 DEF Recorder!start
  <2>3. CASE Recorder!collect
    <3>1. IsList(list') /\ typed' \in BOOLEAN /\ gaps' \in BOOLEAN
      <4>1. CASE ~inRunning
        BY <2>3, <4>1 DEF Recorder!collect
      <4>2. ASSUME NEW v, Recorder!Add(v), UNCHANGED gaps
            PROVE  IsList(list') /\ typed' \in BOOLEAN /\ gaps' \in BOOLEAN
        BY <4>2, ListAppend DEF Recorder!Add
      <4>3. CASE Recorder!Failed
        BY <4>3 DEF Recorder!Failed
      <4>4. CASE Recorder!OutsideTimes
        BY <4>4 DEF Recorder!OutsideTimes
      <4>5. Recorder!Sample => Recorder!Failed \/ Recorder!OutsideTimes
                                  \/ (\E v : Recorder!Add(v) /\ UNCHANGED gaps)
        BY DEF Recorder!Sample, Recorder!SampleRusage, Recorder!FailRusage, Recorder!SampleProcfs,
           Recorder!FailProcfs, Recorder!SampleCpufreq, Recorder!SampleCurrent,
           Recorder!SampleOffline, Recorder!parse
      <4> QED BY <2>3, <4>1, <4>2, <4>3, <4>4, <4>5 DEF Recorder!collect
    <3> QED BY <2>3, <3>1 DEF Recorder!collect
  <2>4. CASE Recorder!summarize
    <3>1. IsList(list') /\ IsList(summaries') /\ late' \in BOOLEAN
      <4>1. CASE UNCHANGED <<list, summaries>> /\ late' = TRUE
        BY <4>1
      <4>2. CASE /\ summaries' = Append(summaries, Recorder!Average(list))
                 /\ list' = <<>> /\ UNCHANGED late
        BY <4>2, ListEmpty, ListAppend
      <4> QED BY <2>4, <4>1, <4>2 DEF Recorder!summarize
    <3> QED BY <2>4, <3>1 DEF Recorder!summarize
  <2> QED BY <2>1, <2>2, <2>3, <2>4 DEF Recorder!Next
<1> QED BY <1>1, <1>2, PTL DEF Recorder!Spec

\* A custom column has a row for every frame time, and, if no start() after a summary has
\* changed the columns, its summaries have one for every summarized time.
CustomInv ==
  /\ DOMAIN mCustom = DOMAIN mCustomHeaders
  /\ DOMAIN mCustomSummarized = DOMAIN mCustomHeaders
  /\ renamed => mTimingSummarized > 0
  /\ \A i \in DOMAIN mCustomHeaders :
       /\ mCustom[i] = Rows(mTiming, mCustomHeaders[i])
       /\ ~renamed => mCustomSummarized[i] = Rows(mTimingSummarized, mCustomHeaders[i])

\* CustomInv is preserved.
LEMMA CustomInvariant == Recorder!Spec => []CustomInv
<1>1. Recorder!Init => CustomInv
  <2> SUFFICES ASSUME Recorder!Init PROVE CustomInv
    OBVIOUS
  <2>1. mCustom = <<>> /\ mCustomHeaders = <<>> /\ mCustomSummarized = <<>> /\ renamed = FALSE
    BY DEF Recorder!Init
  <2>2. DOMAIN <<>> = {}
    OBVIOUS
  <2> QED BY <2>1, <2>2 DEF CustomInv
<1>2. RecordingType /\ CustomInv /\ [Recorder!Next]_(Recorder!vars) => CustomInv'
  <2> SUFFICES ASSUME RecordingType, CustomInv, [Recorder!Next]_(Recorder!vars)
               PROVE  CustomInv'
    OBVIOUS
  <2>0. mTiming \in Nat /\ mTimingSummarized \in Nat /\ renamed \in BOOLEAN
        /\ mCustomHeaders \in Seq(STRING) /\ DOMAIN mCustomHeaders = 1..Len(mCustomHeaders)
    BY DEF RecordingType
  <2>1. CASE Recorder!Elapse \/ Recorder!Initialize \/ Recorder!SummarizeTraps \/ Recorder!stop
             \/ UNCHANGED Recorder!vars
    <3>1. UNCHANGED <<mTiming, mTimingSummarized, mCustom, mCustomHeaders, mCustomSummarized,
                      renamed>>
      BY <2>1 DEF Recorder!Elapse, Recorder!Initialize, Recorder!SummarizeTraps, Recorder!stop,
         Recorder!vars
    <3> QED BY <3>1 DEF CustomInv
  <2>2. CASE Recorder!start
    <3>1. /\ mTiming' = 0 /\ UNCHANGED mTimingSummarized
          /\ mCustom' = [i \in DOMAIN mCustomHeaders' |-> <<>>]
          /\ mCustomSummarized' = Recorder!Resize(mCustomSummarized, Len(mCustomHeaders'))
          /\ renamed' = (renamed \/ (mTimingSummarized > 0 /\ mCustomHeaders' # mCustomHeaders))
          /\ mCustomHeaders' \in CustomHeaders
      BY <2>2 DEF Recorder!start
    <3>2. mCustomHeaders' \in Seq(STRING)
      BY <3>1, RecordingAssumption
    <3>3. DOMAIN mCustomHeaders' = 1..Len(mCustomHeaders')
      BY <3>2
    <3>4. mCustomSummarized' = [i \in DOMAIN mCustomHeaders' |->
             IF i \in DOMAIN mCustomSummarized THEN mCustomSummarized[i] ELSE <<>>]
      BY <3>1, <3>3 DEF Recorder!Resize
    <3>5. renamed' => mTimingSummarized' > 0
      BY <3>1 DEF CustomInv
    <3>6. ASSUME NEW i \in DOMAIN mCustomHeaders'
          PROVE  mCustom'[i] = Rows(mTiming', mCustomHeaders'[i])
      BY <3>1, <3>6, RowsGrow
    <3>7. ASSUME NEW i \in DOMAIN mCustomHeaders', ~renamed'
          PROVE  mCustomSummarized'[i] = Rows(mTimingSummarized', mCustomHeaders'[i])
      <4>1. ~renamed /\ (mTimingSummarized > 0 => mCustomHeaders' = mCustomHeaders)
        BY <3>1, <3>7
      <4>2. CASE mTimingSummarized > 0
        BY <3>1, <3>4, <4>1, <4>2 DEF CustomInv
      <4>3. CASE mTimingSummarized = 0
        <5>1. \A v : Rows(0, v) = <<>>
          BY RowsGrow
        <5>2. i \in DOMAIN mCustomSummarized => mCustomSummarized[i] = <<>>
          BY <4>1, <4>3, <5>1 DEF CustomInv
        <5>3. mCustomSummarized'[i] = <<>>
          BY <3>4, <5>2
        <5> QED BY <3>1, <4>3, <5>1, <5>3
      <4> QED BY <2>0, <4>2, <4>3
    <3> QED BY <3>1, <3>4, <3>5, <3>6, <3>7 DEF CustomInv
  <2>3. CASE Recorder!collect
    <3>1. /\ mTiming' = mTiming + 1
          /\ UNCHANGED <<mTimingSummarized, mCustomHeaders, mCustomSummarized, renamed>>
          /\ mCustom' = [i \in DOMAIN mCustom |-> Append(mCustom[i], mCustomHeaders[i])]
      BY <2>3 DEF Recorder!collect
    <3>2. ASSUME NEW i \in DOMAIN mCustomHeaders
          PROVE  mCustom'[i] = Rows(mTiming', mCustomHeaders[i])
      <4>1. mCustom'[i] = Append(Rows(mTiming, mCustomHeaders[i]), mCustomHeaders[i])
        BY <3>1 DEF CustomInv
      <4> QED BY <2>0, <3>1, <4>1, RowsGrow
    <3> QED BY <3>1, <3>2 DEF CustomInv
  <2>4. CASE Recorder!summarize
    <3>1. /\ mTiming' = 0 /\ mTimingSummarized' = mTimingSummarized + 1
          /\ UNCHANGED <<mCustomHeaders, renamed>>
          /\ mCustom' = [i \in DOMAIN mCustom |-> <<>>]
          /\ mCustomSummarized' =
               [i \in DOMAIN mCustom |-> Append(mCustomSummarized[i], mCustomHeaders[i])]
      BY <2>4 DEF Recorder!summarize
    <3>2. ASSUME NEW i \in DOMAIN mCustomHeaders
          PROVE  mCustom'[i] = Rows(mTiming', mCustomHeaders[i])
      BY <3>1, RowsGrow DEF CustomInv
    <3>3. ASSUME NEW i \in DOMAIN mCustomHeaders, ~renamed
          PROVE  mCustomSummarized'[i] = Rows(mTimingSummarized', mCustomHeaders[i])
      <4>1. mCustomSummarized'[i]
              = Append(Rows(mTimingSummarized, mCustomHeaders[i]), mCustomHeaders[i])
        BY <3>1, <3>3 DEF CustomInv
      <4> QED BY <2>0, <3>1, <4>1, RowsGrow
    <3>4. mTimingSummarized' > 0
      BY <2>0, <3>1
    <3> QED BY <3>1, <3>2, <3>3, <3>4 DEF CustomInv
  <2> QED BY <2>1, <2>2, <2>3, <2>4 DEF Recorder!Next
<1> QED BY <1>1, <1>2, RecordingTypes, PTL DEF Recorder!Spec

\* The subject's column: it has a type once it has a value, as many summaries as there are
\* summarized times, and as many values as there are frame times.
ColumnInv ==
  /\ ~typed => list = <<>> /\ summaries = <<>>
  /\ typed => inRunning
  /\ ~late => IF typed THEN Len(summaries) = mTimingSummarized ELSE mTimingSummarized = 0
  /\ (ended \in {"no", "div_by_zero"} /\ ~gaps) =>
       /\ inRunning /\ (typed \/ running) => Len(list) = mTiming
       /\ ended = "div_by_zero" => mTiming = 0

\* ColumnInv is preserved.
LEMMA ColumnInvariant == Recorder!Spec => []ColumnInv
<1>1. Recorder!Init => ColumnInv
  BY ListEmpty DEF Recorder!Init, ColumnInv
<1>2. RecordingType /\ RecordingType' /\ ColumnInv /\ [Recorder!Next]_(Recorder!vars) => ColumnInv'
  <2> SUFFICES ASSUME RecordingType, RecordingType', ColumnInv, [Recorder!Next]_(Recorder!vars)
               PROVE  ColumnInv'
    OBVIOUS
  <2>0. /\ mTiming \in Nat /\ mTimingSummarized \in Nat /\ Len(list) \in Nat
        /\ Len(summaries) \in Nat /\ IsList(list) /\ IsList(summaries)
        /\ typed \in BOOLEAN /\ inRunning \in BOOLEAN /\ running \in BOOLEAN
        /\ gaps \in BOOLEAN /\ late \in BOOLEAN
        /\ Len(<<>>) = 0
    BY DEF RecordingType, IsList
  <2>1. CASE UNCHANGED Recorder!vars \/ Recorder!Elapse
    BY <2>1 DEF Recorder!Elapse, Recorder!vars, ColumnInv
  <2>2. CASE Recorder!Initialize
    BY <2>0, <2>2 DEF Recorder!Initialize, ColumnInv
  <2>3. CASE Recorder!stop
    BY <2>0, <2>3 DEF Recorder!stop, ColumnInv
  <2>4. CASE Recorder!SummarizeTraps
    <3>1. (typed /\ list = <<>>) \/ mTiming = 0
      BY <2>4 DEF Recorder!SummarizeTraps
    <3>2. ended = "no" /\ UNCHANGED <<list, summaries, typed, inRunning, running, late, gaps,
                                      mTiming, mTimingSummarized>>
      BY <2>4 DEF Recorder!SummarizeTraps
    <3>3. ~gaps => mTiming = 0
      BY <2>0, <3>1, <3>2 DEF ColumnInv
    <3> QED BY <2>0, <3>2, <3>3 DEF ColumnInv
  <2>5. CASE Recorder!start
    <3>1. /\ ended = "no" /\ mTiming' = 0
          /\ UNCHANGED <<summaries, typed, inRunning, late, gaps, mTimingSummarized, ended>>
          /\ IF inRunning THEN list' = <<>> ELSE list' = list
      BY <2>5 DEF Recorder!start
    <3> QED BY <2>0, <3>1 DEF ColumnInv
  <2>6. CASE Recorder!summarize
    <3>1. /\ ended = "no" /\ mTiming' = 0 /\ mTimingSummarized' = mTimingSummarized + 1
          /\ UNCHANGED <<typed, inRunning, running, gaps, ended>>
          /\ IF typed
             THEN /\ list' = <<>> /\ UNCHANGED late
                  /\ summaries' = Append(summaries, Recorder!Average(list))
             ELSE late' = TRUE /\ UNCHANGED <<list, summaries>>
      BY <2>6 DEF Recorder!summarize
    <3>2. typed => Len(summaries') = Len(summaries) + 1
      BY <2>0, <3>1, ListAppend
    <3> QED BY <2>0, <3>1, <3>2 DEF ColumnInv
  <2>7. CASE Recorder!collect
    <3>1. /\ ended = "no" /\ running /\ mTiming' = mTiming + 1
          /\ UNCHANGED <<inRunning, running, mTimingSummarized, summaries, late>>
          /\ \/ inRunning /\ Recorder!Sample
             \/ ~inRunning /\ UNCHANGED <<list, typed, gaps, ended>>
      BY <2>7 DEF Recorder!collect
    <3>2. CASE ~inRunning
      BY <2>0, <3>1, <3>2 DEF ColumnInv
    <3>3. ASSUME inRunning, NEW v, Recorder!Add(v), UNCHANGED <<gaps, ended>> PROVE ColumnInv'
      <4>1. Len(list') = Len(list) + 1 /\ typed' = TRUE
        BY <2>0, <3>3, ListAppend DEF Recorder!Add
      <4>2. ~late => Len(summaries) = mTimingSummarized
        BY <2>0 DEF ColumnInv
      <4> QED BY <2>0, <3>1, <3>3, <4>1, <4>2 DEF ColumnInv
    <3>4. CASE inRunning /\ UNCHANGED <<list, typed>> /\ (gaps' = TRUE \/ ended' = "outside")
      BY <2>0, <3>1, <3>4 DEF ColumnInv
    <3>5. Recorder!Sample => \/ \E v : Recorder!Add(v) /\ UNCHANGED <<gaps, ended>>
                             \/ UNCHANGED <<list, typed>> /\ (gaps' = TRUE \/ ended' = "outside")
      BY DEF Recorder!Sample, Recorder!SampleRusage, Recorder!FailRusage, Recorder!SampleProcfs,
         Recorder!FailProcfs, Recorder!SampleCpufreq, Recorder!SampleCurrent, Recorder!Failed,
         Recorder!SampleOffline, Recorder!parse, Recorder!OutsideTimes
    <3> QED BY <3>1, <3>2, <3>3, <3>4, <3>5
  <2> QED BY <2>1, <2>2, <2>3, <2>4, <2>5, <2>6, <2>7 DEF Recorder!Next
<1> QED BY <1>1, <1>2, RecordingTypes, PTL DEF Recorder!Spec

\* The arrays of results() have an entry for every frame time and hold the values of their
\* own column, and writeCSV() reads only rows that exist (interface.cpp:492, 628), for every
\* history without failed samples; a summary divides by 0 only without a frame before it.
THEOREM ResultsAlignedHolds == Recorder!Spec => []ResultsAligned
<1>1. RecordingType /\ CustomInv /\ ColumnInv => ResultsAligned
  <2> SUFFICES ASSUME RecordingType, CustomInv, ColumnInv,
                      ended \in {"no", "div_by_zero"}, ~gaps
               PROVE  ResultsAligned
    BY DEF ResultsAligned, Recorder!ResultsAligned
  <2>0. /\ mTiming \in Nat /\ mTimingSummarized \in Nat /\ Len(list) \in Nat
        /\ Len(summaries) \in Nat /\ IsList(list) /\ IsList(summaries)
        /\ typed \in BOOLEAN /\ inRunning \in BOOLEAN
        /\ Len(<<>>) = 0
    BY DEF RecordingType, IsList
  <2>1. ended = "div_by_zero" => mTiming = 0
    BY DEF ColumnInv
  <2>2. Recorder!CsvRows > 0 => Recorder!CsvRows = mTiming
    BY <2>0 DEF Recorder!CsvRows, ColumnInv
  <2>3. \A i \in DOMAIN mCustom : Len(mCustom[i]) = mTiming
    BY <2>0, RowsGrow DEF CustomInv
  <2>4. ASSUME ~late, ~renamed, NEW column \in Recorder!ResultColumn
        PROVE  Len(column) = Recorder!ResultTiming
    <3>1. inRunning /\ typed /\ column = Recorder!data
      BY <2>4 DEF Recorder!ResultColumn
    <3>2. Len(summaries) = mTimingSummarized /\ Len(list) = mTiming
      BY <2>0, <2>4, <3>1 DEF ColumnInv
    <3>3. summaries = <<>> <=> Len(summaries) = 0
      BY <2>0, ListAppend
    <3> QED BY <2>0, <3>1, <3>2, <3>3 DEF Recorder!data, Recorder!ResultTiming
  <2>5. ASSUME ~late, ~renamed, NEW i \in DOMAIN mCustomHeaders
        PROVE  Recorder!ResultCustom(i) = [n \in 1..Recorder!ResultTiming |-> mCustomHeaders[i]]
    <3>1. /\ mCustomSummarized[i] = Rows(mTimingSummarized, mCustomHeaders[i])
          /\ mCustom[i] = Rows(mTiming, mCustomHeaders[i])
      BY <2>5 DEF CustomInv
    <3>2. mCustomSummarized[i] = <<>> <=> mTimingSummarized = 0
      BY <2>0, <3>1, RowsGrow
    <3>3. Recorder!ResultCustom(i) = Rows(Recorder!ResultTiming, mCustomHeaders[i])
      BY <2>0, <3>1, <3>2 DEF Recorder!ResultCustom, Recorder!ResultTiming
    <3> QED BY <3>3 DEF Rows
  <2> QED BY <2>1, <2>2, <2>3, <2>4, <2>5 DEF ResultsAligned, Recorder!ResultsAligned
<1> QED BY <1>1, RecordingTypes, CustomInvariant, ColumnInvariant, PTL

-------------------------------------------------------------------------------
(* The differences rusage and procfs record.                                   *)

\* The sums of Recording are those of Sums.
LEMMA SameSum == \A s : Recorder!SumSeq(s) = SumSeq(s)
<1>1. \A s : Recorder!PrefixSums(s) = PrefixSums(s)
  BY DEF Recorder!PrefixSums, PrefixSums
<1> QED BY <1>1 DEF Recorder!SumSeq, SumSeq

\* What rusage and procfs remember is what they saw last.  procfs takes a time of 0 for none:
\* it has seen one exactly if its first was not 0.
DifferenceInv ==
  /\ consumed \in Nat /\ seen \in 0..consumed /\ origin \in Nat /\ first \in Nat
  /\ subject = "rusage" => list \in Seq(Int) /\ SumSeq(list) = seen - origin /\ prev = seen
  /\ subject = "procfs" =>
       /\ list \in Seq(Int) /\ mLastSampleTime = seen
       /\ seen = 0 <=> first = 0
       /\ seen = 0 => origin = 0
       /\ SumSeq(list) = seen - (IF origin = 0 THEN first ELSE origin)

\* DifferenceInv is preserved.
LEMMA DifferenceInvariant == Recorder!Spec => []DifferenceInv
<1>0. <<>> \in Seq(Int) /\ SumSeq(<<>>) = 0
  BY SumEmpty
<1>1. Recorder!Init => DifferenceInv
  BY <1>0 DEF Recorder!Init, DifferenceInv
<1>2. DifferenceInv /\ [Recorder!Next]_(Recorder!vars) => DifferenceInv'
  <2> SUFFICES ASSUME DifferenceInv, [Recorder!Next]_(Recorder!vars) PROVE DifferenceInv'
    OBVIOUS
  <2>0. /\ consumed \in Nat /\ seen \in Nat /\ origin \in Nat /\ first \in Nat
        /\ seen <= consumed
    BY DEF DifferenceInv
  <2>1. CASE /\ UNCHANGED <<subject, list, seen, origin, first, prev, mLastSampleTime>>
             /\ consumed' \in {consumed, consumed + 1}
    <3>1. consumed' \in Nat /\ seen \in 0..consumed'
      BY <2>0, <2>1
    <3> QED BY <2>1, <3>1 DEF DifferenceInv
  <2>2. CASE Recorder!Elapse
    BY <2>1, <2>2 DEF Recorder!Elapse, Recorder!columnVars, Recorder!memoryVars
  <2>6. CASE Recorder!Initialize \/ Recorder!SummarizeTraps \/ Recorder!stop
             \/ UNCHANGED Recorder!vars
    <3>1. UNCHANGED <<subject, consumed, list, seen, origin, first, prev, mLastSampleTime>>
      BY <2>6 DEF Recorder!Initialize, Recorder!SummarizeTraps, Recorder!stop, Recorder!vars,
         Recorder!worldVars, Recorder!columnVars, Recorder!memoryVars, Recorder!historyVars
    <3> QED BY <2>1, <3>1
  <2>3. CASE Recorder!start
    <3>1. UNCHANGED <<subject, consumed, first, mLastSampleTime>>
      BY <2>3 DEF Recorder!start
    <3>2. CASE ~inRunning
      BY <2>1, <2>0, <2>3, <3>1, <3>2 DEF Recorder!start
    <3>3. CASE inRunning
      <4>1. list' = <<>> /\ origin' = seen'
            /\ (Recorder!StartRusage \/ Recorder!StartProcfs \/ Recorder!StartCpufreq)
        BY <2>3, <3>3 DEF Recorder!start
      <4>2. /\ seen' \in Nat /\ seen' <= consumed
            /\ subject = "rusage" /\ prev = seen => prev' = seen'
            /\ subject # "rusage" => UNCHANGED seen
        BY <2>0, <4>1 DEF Recorder!StartRusage, Recorder!StartProcfs, Recorder!StartCpufreq
      <4> QED BY <1>0, <2>0, <3>1, <4>1, <4>2 DEF DifferenceInv
    <3> QED BY <3>2, <3>3
  <2>4. CASE Recorder!summarize
    <3>1. UNCHANGED <<subject, consumed, seen, first, prev, mLastSampleTime>>
          /\ \/ list' = <<>> /\ origin' = seen
             \/ UNCHANGED <<list, origin>>
      BY <2>4 DEF Recorder!summarize
    <3>2. CASE list' = <<>> /\ origin' = seen
      BY <1>0, <2>0, <3>1, <3>2 DEF DifferenceInv
    <3> QED BY <2>0, <2>1, <3>1, <3>2
  <2>5. CASE Recorder!collect
    <3>1. UNCHANGED <<subject, consumed, origin>>
          /\ \/ inRunning /\ Recorder!Sample
             \/ ~inRunning /\ UNCHANGED <<list, seen, first, prev, mLastSampleTime>>
      BY <2>5 DEF Recorder!collect
    <3>2. CASE ~inRunning
      BY <2>0, <2>1, <3>1, <3>2
    <3>3. CASE Recorder!SampleRusage
      <4>1. /\ subject = "rusage" /\ list' = Append(list, consumed - prev)
            /\ prev' = consumed /\ seen' = consumed /\ UNCHANGED first
        BY <3>3 DEF Recorder!SampleRusage, Recorder!Add
      <4>2. list \in Seq(Int) /\ SumSeq(list) = seen - origin /\ prev = seen
        BY <4>1 DEF DifferenceInv
      <4>3. consumed - prev \in Int
        BY <2>0, <4>2
      <4>4. list' \in Seq(Int) /\ SumSeq(list') = SumSeq(list) + (consumed - prev)
        BY <4>1, <4>2, <4>3, SumAppend
      <4> QED BY <2>0, <3>1, <4>1, <4>2, <4>4 DEF DifferenceInv
    <3>4. CASE Recorder!SampleProcfs
      <4> DEFINE v == IF mLastSampleTime = 0 THEN 0 ELSE consumed - mLastSampleTime
      <4>1. /\ subject = "procfs" /\ list' = Append(list, v)
            /\ mLastSampleTime' = consumed /\ seen' = consumed
            /\ first' = IF first = 0 THEN consumed ELSE first
        BY <3>4 DEF Recorder!SampleProcfs, Recorder!parse, Recorder!Add, Recorder!LastSample
      <4>2. /\ list \in Seq(Int) /\ mLastSampleTime = seen
            /\ seen = 0 <=> first = 0
            /\ seen = 0 => origin = 0
            /\ SumSeq(list) = seen - (IF origin = 0 THEN first ELSE origin)
        BY <4>1 DEF DifferenceInv
      <4>3. v \in Int
        BY <2>0, <4>2
      <4>4. list' \in Seq(Int) /\ SumSeq(list') = SumSeq(list) + v
        BY <4>1, <4>2, <4>3, SumAppend
      <4>5. consumed >= seen
        BY <2>0
      <4> HIDE DEF v
      <4>6. first' \in Nat /\ (seen' = 0 <=> first' = 0) /\ (seen' = 0 => origin = 0)
        BY <2>0, <4>1, <4>2, <4>5
      <4>7. SumSeq(list') = seen' - (IF origin = 0 THEN first' ELSE origin)
        <5>1. CASE seen = 0
          BY <2>0, <4>1, <4>2, <4>4, <5>1 DEF v
        <5>2. CASE seen # 0
          BY <2>0, <4>1, <4>2, <4>4, <5>2 DEF v
        <5> QED BY <5>1, <5>2
      <4> QED BY <2>0, <3>1, <4>1, <4>4, <4>6, <4>7 DEF DifferenceInv
    <3>5. CASE Recorder!Failed
      <4>1. UNCHANGED <<list, seen, first, prev, mLastSampleTime>>
        BY <3>5 DEF Recorder!Failed
      <4> QED BY <2>0, <2>1, <3>1, <4>1
    <3>6. CASE /\ Recorder!SampleCpufreq \/ Recorder!OutsideTimes \/ Recorder!SampleCurrent
                    \/ Recorder!SampleOffline
      <4>1. subject = "cpufreq" /\ UNCHANGED <<seen, first, prev, mLastSampleTime>>
        BY <3>6 DEF Recorder!SampleCpufreq, Recorder!OutsideTimes, Recorder!SampleCurrent,
           Recorder!SampleOffline
      <4> QED BY <2>0, <3>1, <4>1 DEF DifferenceInv
    <3> QED BY <3>1, <3>2, <3>3, <3>4, <3>5, <3>6
        DEF Recorder!Sample, Recorder!FailRusage, Recorder!FailProcfs
  <2> QED BY <2>2, <2>3, <2>4, <2>5, <2>6 DEF Recorder!Next
<1> QED BY <1>1, <1>2, PTL DEF Recorder!Spec

\* The differences rusage and procfs record add up to what the process consumed between
\* their first and last sample of a session (rusage.cpp:44, procfs_stat.cpp:60), for any
\* number of sessions, frames, summaries and failures.
THEOREM DifferencesAddUpHolds == Recorder!Spec => []DifferencesAddUp
<1>1. DifferenceInv => DifferencesAddUp
  BY SameSum DEF DifferenceInv, DifferencesAddUp, Recorder!DifferencesAddUp
<1> QED BY <1>1, DifferenceInvariant, PTL

-------------------------------------------------------------------------------
(* The frequencies cpufreq records.                                            *)

\* cpufreq has times only of a kernel that has statistics, and then one of every state that
\* the core has reached by now.  A state whose time has gone on since is one the core has run
\* in since cpufreq last looked, and there is one if it has run.
FrequencyInv ==
  subject = "cpufreq" =>
    /\ current \in DOMAIN Frequencies
    /\ time_in_state \in [DOMAIN Frequencies -> Nat] /\ times \in Seq(Nat)
    /\ ranAt \subseteq {Frequencies[k] : k \in DOMAIN Frequencies}
    /\ ranAt # {} => Frequencies[current] \in ranAt
    /\ times # <<>> =>
         /\ hasStats /\ Len(times) >= Len(Frequencies)
         /\ \A k \in DOMAIN Frequencies :
              /\ times[k] <= time_in_state[k]
              /\ times[k] < time_in_state[k] => Frequencies[k] \in ranAt
         /\ ranAt # {} => \E k \in DOMAIN Frequencies : times[k] < time_in_state[k]

\* The states are numbered like the frequencies.
LEMMA StatesOfFrequencies ==
  /\ Frequencies \in Seq(Nat) /\ Len(Frequencies) \in Nat
  /\ DOMAIN Frequencies = 1..Len(Frequencies)
  /\ \A k \in DOMAIN Frequencies : Frequencies[k] \in Nat \ {0}
<1>1. Frequencies \in Seq(Nat \ {0})
  BY RecordingAssumption
<1>2. /\ Len(Frequencies) \in Nat /\ DOMAIN Frequencies = 1..Len(Frequencies)
      /\ Frequencies = [k \in 1..Len(Frequencies) |-> Frequencies[k]]
      /\ \A k \in 1..Len(Frequencies) : Frequencies[k] \in Nat \ {0}
  BY <1>1
<1>3. \A k \in 1..Len(Frequencies) : Frequencies[k] \in Nat
  BY <1>2
<1>4. Frequencies \in Seq(Nat)
  BY <1>2, <1>3
<1> QED BY <1>2, <1>4

\* A function on the states is a sequence.
LEMMA StatesSeq ==
  ASSUME NEW S, NEW f \in [DOMAIN Frequencies -> S]
  PROVE  f \in Seq(S) /\ Len(f) = Len(Frequencies)
<1>1. f \in [1..Len(Frequencies) -> S] /\ Len(Frequencies) \in Nat
  BY StatesOfFrequencies
<1> QED BY <1>1

\* Concatenation of sequences of naturals.
LEMMA Joined ==
  ASSUME NEW s \in Seq(Nat), NEW t \in Seq(Nat)
  PROVE  s \o t \in Seq(Nat) /\ Len(s \o t) = Len(s) + Len(t)
OBVIOUS

\* Nothing before a sequence.
LEMMA EmptyPrefix == ASSUME NEW s \in Seq(Nat) PROVE <<>> \o s = s
<1>1. <<>> \in Seq(Nat) /\ <<>> \o s \in Seq(Nat) /\ Len(<<>> \o s) = Len(s)
  OBVIOUS
<1>2. \A k \in 1..Len(s) : (<<>> \o s)[k] = s[k]
  OBVIOUS
<1> QED BY <1>1, <1>2

\* A set of naturals has a least element, and with a bound a greatest: Min and Max are that.
LEMMA MinMax ==
  ASSUME NEW T, T \subseteq Nat, T # {}, NEW b \in Nat, \A x \in T : x <= b
  PROVE  /\ Recorder!Min(T) \in T /\ \A y \in T : Recorder!Min(T) <= y
         /\ Recorder!Max(T) \in T /\ \A y \in T : y <= Recorder!Max(T)
<1>1. \E x \in T : \A y \in T : x <= y
  BY LeastNatural
<1>2. \E x \in T : \A y \in T : x >= y
  <2> DEFINE D == {b - x : x \in T}
  <2>1. D \subseteq Nat /\ D # {}
    <3>1. ASSUME NEW x \in T PROVE b - x \in Nat
      <4>1. x \in Nat /\ x <= b
        OBVIOUS
      <4> QED BY <4>1
    <3>2. PICK x : x \in T
      OBVIOUS
    <3>3. b - x \in D
      BY <3>2
    <3> QED BY <3>1, <3>3
  <2>2. PICK d \in D : \A e \in D : d <= e
    BY <2>1, LeastNatural
  <2>3. PICK x \in T : d = b - x
    OBVIOUS
  <2>4. ASSUME NEW y \in T PROVE x >= y
    <3>1. b - y \in D
      OBVIOUS
    <3>2. b - x <= b - y
      BY <2>2, <2>3, <3>1
    <3>3. x \in Nat /\ y \in Nat
      OBVIOUS
    <3> QED BY <3>2, <3>3
  <2> QED BY <2>4
<1>3. Recorder!Min(T) \in T /\ \A y \in T : Recorder!Min(T) <= y
  BY <1>1 DEF Recorder!Min
<1>4. Recorder!Max(T) \in T /\ \A y \in T : Recorder!Max(T) >= y
  BY <1>2 DEF Recorder!Max
<1>5. Recorder!Max(T) \in Nat
  BY <1>4
<1> QED BY <1>3, <1>4, <1>5

\* FrequencyInv is preserved.
LEMMA FrequencyInvariant == Recorder!Spec => []FrequencyInv
<1>1. Recorder!Init => FrequencyInv
  BY DEF Recorder!Init, Recorder!States, FrequencyInv
<1>2. FrequencyInv /\ [Recorder!Next]_(Recorder!vars) => FrequencyInv'
  <2> SUFFICES ASSUME FrequencyInv, [Recorder!Next]_(Recorder!vars), subject' = "cpufreq"
               PROVE  FrequencyInv'
    BY DEF FrequencyInv
  <2>0. subject = "cpufreq"
    BY DEF Recorder!Next, Recorder!vars, Recorder!Elapse, Recorder!Initialize, Recorder!start,
       Recorder!collect, Recorder!summarize, Recorder!SummarizeTraps, Recorder!stop
  <2>1. /\ current \in DOMAIN Frequencies
        /\ time_in_state \in [DOMAIN Frequencies -> Nat] /\ times \in Seq(Nat)
        /\ ranAt \subseteq {Frequencies[k] : k \in DOMAIN Frequencies}
        /\ ranAt # {} => Frequencies[current] \in ranAt
    BY <2>0 DEF FrequencyInv
  <2>2. CASE UNCHANGED <<current, time_in_state, hasStats, times, ranAt>>
    BY <2>0, <2>2 DEF FrequencyInv
  <2>3. CASE Recorder!Elapse
    <3>1. /\ current' \in DOMAIN Frequencies /\ UNCHANGED <<hasStats, times>>
          /\ time_in_state' = [time_in_state EXCEPT ![current'] = @ + 1]
          /\ ranAt' = ranAt \cup {Frequencies[current']}
      BY <2>3 DEF Recorder!Elapse, Recorder!States, Recorder!memoryVars
    <3>2. time_in_state' \in [DOMAIN Frequencies -> Nat]
      BY <2>1, <3>1
    <3>3. ASSUME times # <<>>
          PROVE  /\ hasStats /\ Len(times) >= Len(Frequencies)
                 /\ \A k \in DOMAIN Frequencies :
                      /\ times[k] <= time_in_state'[k]
                      /\ times[k] < time_in_state'[k] => Frequencies[k] \in ranAt'
                 /\ \E k \in DOMAIN Frequencies : times[k] < time_in_state'[k]
      <4>1. /\ hasStats /\ Len(times) >= Len(Frequencies)
            /\ \A k \in DOMAIN Frequencies :
                 /\ times[k] <= time_in_state[k]
                 /\ times[k] < time_in_state[k] => Frequencies[k] \in ranAt
        BY <2>0, <3>3 DEF FrequencyInv
      <4>2. \A k \in DOMAIN Frequencies : times[k] \in Nat
        BY <2>1, <4>1, StatesOfFrequencies
      <4>3. ASSUME NEW k \in DOMAIN Frequencies
            PROVE  /\ times[k] <= time_in_state'[k]
                   /\ times[k] < time_in_state'[k] => Frequencies[k] \in ranAt'
                   /\ k = current' => times[k] < time_in_state'[k]
        <5>1. times[k] \in Nat /\ time_in_state[k] \in Nat
          BY <2>1, <4>2
        <5>2. CASE k = current'
          <6>1. time_in_state'[k] = time_in_state[k] + 1 /\ Frequencies[k] \in ranAt'
            BY <2>1, <3>1, <5>2
          <6> QED BY <4>1, <5>1, <6>1
        <5>3. CASE k # current'
          <6>1. time_in_state'[k] = time_in_state[k]
            BY <2>1, <3>1, <5>3
          <6> QED BY <3>1, <4>1, <5>1, <5>3, <6>1
        <5> QED BY <5>2, <5>3
      <4> QED BY <3>1, <4>1, <4>3
    <3> QED BY <2>1, <3>1, <3>2, <3>3 DEF FrequencyInv
  <2>4. CASE Recorder!start
    <3>1. UNCHANGED <<current, time_in_state, hasStats>>
      BY <2>4 DEF Recorder!start, Recorder!worldVars
    <3>2. CASE hasStats /\ times' = times \o time_in_state
               /\ ranAt' = IF times = <<>> THEN {} ELSE ranAt
      <4>1. time_in_state \in Seq(Nat) /\ Len(time_in_state) = Len(Frequencies)
        BY <2>1, StatesSeq
      <4>2. /\ times' \in Seq(Nat) /\ Len(times') = Len(times) + Len(Frequencies)
            /\ times = <<>> => times' = time_in_state
        <5>1. times' = times \o time_in_state
          BY <3>2
        <5>2. times' \in Seq(Nat) /\ Len(times') = Len(times) + Len(Frequencies)
          <6>1. /\ times \o time_in_state \in Seq(Nat)
                /\ Len(times \o time_in_state) = Len(times) + Len(time_in_state)
            BY <2>1, <4>1, Joined, Zenon
          <6> QED BY <4>1, <5>1, <6>1, Zenon
        <5>3. ASSUME times = <<>> PROVE times' = time_in_state
          <6>1. times' = <<>> \o time_in_state
            BY <5>1, <5>3
          <6> QED BY <4>1, <6>1, EmptyPrefix
        <5> QED BY <5>2, <5>3
      <4>3. CASE times = <<>>
        <5>1. \A k \in DOMAIN Frequencies : times'[k] = time_in_state[k] /\ time_in_state[k] \in Nat
          BY <2>1, <4>2, <4>3
        <5> QED BY <2>1, <3>1, <3>2, <4>1, <4>2, <4>3, <5>1 DEF FrequencyInv
      <4>4. CASE times # <<>>
        <5>1. Len(times) >= Len(Frequencies)
          BY <2>0, <4>4 DEF FrequencyInv
        <5>2. \A k \in DOMAIN Frequencies : times'[k] = times[k]
          BY <2>1, <3>2, <4>1, <5>1, StatesOfFrequencies
        <5>3. Len(times') >= Len(Frequencies)
          BY <2>1, <4>2, <5>1, StatesOfFrequencies
        <5> QED BY <2>0, <2>1, <3>1, <3>2, <4>2, <4>4, <5>2, <5>3 DEF FrequencyInv
      <4> QED BY <4>3, <4>4
    <3>3. \/ hasStats /\ times' = times \o time_in_state /\ ranAt' = IF times = <<>> THEN {} ELSE ranAt
          \/ UNCHANGED <<times, ranAt>>
      BY <2>0, <2>4 DEF Recorder!start, Recorder!StartRusage, Recorder!StartProcfs,
         Recorder!StartCpufreq
    <3> QED BY <2>2, <3>1, <3>2, <3>3
  <2>5. CASE Recorder!collect
    <3>1. UNCHANGED <<current, time_in_state, hasStats>>
      BY <2>5 DEF Recorder!collect, Recorder!worldVars
    <3>2. CASE Recorder!SampleCpufreq
      <4>1. /\ hasStats /\ Len(times) >= Len(Frequencies) /\ ranAt' = {}
            /\ times' = [k \in DOMAIN times |-> IF k \in DOMAIN Frequencies THEN time_in_state[k]
                                                ELSE times[k]]
        BY <3>2 DEF Recorder!SampleCpufreq, Recorder!NewTimes, Recorder!States
      <4>2. DOMAIN times = 1..Len(times) /\ Len(times) \in Nat
        BY <2>1
      <4>3. times' \in [1..Len(times) -> Nat]
        BY <2>1, <4>1, <4>2
      <4>4. times' \in Seq(Nat) /\ Len(times') = Len(times)
        BY <4>2, <4>3
      <4>5. \A k \in DOMAIN Frequencies : times'[k] = time_in_state[k] /\ time_in_state[k] \in Nat
        BY <2>1, <4>1, <4>2, StatesOfFrequencies
      <4>6. Len(times') >= Len(Frequencies) /\ hasStats' /\ ranAt' = {}
        BY <3>1, <4>1, <4>4
      <4>7. \A k \in DOMAIN Frequencies : times'[k] <= time_in_state[k]
                                           /\ ~(times'[k] < time_in_state[k])
        BY <4>5
      <4> QED BY <2>1, <3>1, <4>4, <4>6, <4>7 DEF FrequencyInv
    <3>3. CASE Recorder!SampleCurrent
      <4>1. ~hasStats /\ ranAt' = {} /\ UNCHANGED times
        BY <3>3 DEF Recorder!SampleCurrent
      <4>2. times = <<>>
        BY <2>0, <4>1 DEF FrequencyInv
      <4> QED BY <2>1, <3>1, <4>1, <4>2 DEF FrequencyInv
    <3>4. CASE UNCHANGED <<times, ranAt>>
      BY <2>2, <3>1, <3>4
    <3>5. Recorder!SampleCpufreq \/ Recorder!SampleCurrent \/ UNCHANGED <<times, ranAt>>
      BY <2>0, <2>5 DEF Recorder!collect, Recorder!Sample, Recorder!SampleRusage,
         Recorder!FailRusage, Recorder!SampleProcfs, Recorder!FailProcfs, Recorder!OutsideTimes,
         Recorder!SampleOffline
    <3> QED BY <3>2, <3>3, <3>4, <3>5
  <2>6. CASE Recorder!Initialize \/ Recorder!summarize \/ Recorder!SummarizeTraps
             \/ Recorder!stop \/ UNCHANGED Recorder!vars
    <3>1. UNCHANGED <<current, time_in_state, hasStats, times, ranAt>>
      BY <2>6 DEF Recorder!Initialize, Recorder!summarize, Recorder!SummarizeTraps, Recorder!stop,
         Recorder!vars, Recorder!worldVars, Recorder!memoryVars, Recorder!historyVars
    <3> QED BY <2>2, <3>1
  <2> QED BY <2>3, <2>4, <2>5, <2>6 DEF Recorder!Next
<1> QED BY <1>1, <1>2, PTL DEF Recorder!Spec

\* The core runs at frequencies that it has.
LEMMA RanAtBounded ==
  ASSUME FrequencyInv, subject = "cpufreq"
  PROVE  /\ Len(Frequencies) > 0 /\ SumSeq(Frequencies) \in Nat
         /\ ranAt \subseteq Nat \ {0} /\ \A x \in ranAt : x <= SumSeq(Frequencies)
<1>1. current \in DOMAIN Frequencies /\ ranAt \subseteq {Frequencies[k] : k \in DOMAIN Frequencies}
  BY DEF FrequencyInv
<1>2. /\ Frequencies \in Seq(Nat) /\ Len(Frequencies) \in Nat
      /\ DOMAIN Frequencies = 1..Len(Frequencies)
      /\ \A k \in DOMAIN Frequencies : Frequencies[k] \in Nat \ {0}
  BY StatesOfFrequencies
<1>3. Len(Frequencies) > 0 /\ SumSeq(Frequencies) \in Nat
  BY <1>1, <1>2, ElementBelowSum
<1>4. ASSUME NEW x \in ranAt PROVE x \in Nat \ {0} /\ x <= SumSeq(Frequencies)
  <2>1. PICK k \in DOMAIN Frequencies : x = Frequencies[k]
    BY <1>1
  <2> QED BY <1>2, <2>1, ElementBelowSum
<1> QED BY <1>3, <1>4

\* The average that cpufreq computes is between the lowest and the highest frequency at which
\* the core has run since the last sample.
LEMMA AverageFrequency ==
  ASSUME FrequencyInv, subject = "cpufreq", ranAt # {}, times # <<>>
  PROVE  /\ Recorder!Weighted # 0
         /\ Recorder!Weighted \div Recorder!SumSeq(Recorder!Relative)
              \in Recorder!Min(ranAt)..Recorder!Max(ranAt)
<1> DEFINE States == DOMAIN Frequencies
           s == [k \in States |-> time_in_state[k] - times[k]]
           w == [k \in States |-> s[k] * Frequencies[k]]
           lo == Recorder!Min(ranAt)
           hi == Recorder!Max(ranAt)
<1>1. /\ time_in_state \in [States -> Nat] /\ times \in Seq(Nat)
      /\ ranAt \subseteq {Frequencies[k] : k \in States}
      /\ Len(times) >= Len(Frequencies)
      /\ \A k \in States : /\ times[k] <= time_in_state[k]
                           /\ times[k] < time_in_state[k] => Frequencies[k] \in ranAt
      /\ \E k \in States : times[k] < time_in_state[k]
  BY DEF FrequencyInv
<1>2. /\ Frequencies \in Seq(Nat) /\ Len(Frequencies) \in Nat /\ States = 1..Len(Frequencies)
      /\ \A k \in States : Frequencies[k] \in Nat \ {0}
  BY StatesOfFrequencies
<1>3. ASSUME NEW k \in States PROVE time_in_state[k] \in Nat /\ times[k] \in Nat
  <2>1. k \in 1..Len(Frequencies) /\ Len(Frequencies) \in Nat
    BY <1>2
  <2>2. Len(times) \in Nat /\ Len(times) >= Len(Frequencies)
    BY <1>1
  <2>3. k \in 1..Len(times)
    BY <2>1, <2>2
  <2>4. times[k] \in Nat
    BY <1>1, <2>3, ElementType
  <2> QED BY <1>1, <2>4
<1>4. ASSUME NEW k \in States PROVE s[k] \in Nat /\ (s[k] > 0 => Frequencies[k] \in ranAt)
  <2>1. /\ time_in_state[k] \in Nat /\ times[k] \in Nat /\ times[k] <= time_in_state[k]
        /\ s[k] = time_in_state[k] - times[k]
    BY <1>1, <1>3
  <2>2. times[k] < time_in_state[k] => Frequencies[k] \in ranAt
    BY <1>1
  <2> HIDE DEF s
  <2> QED BY <2>1, <2>2
<1>5. PICK j \in States : s[j] > 0
  BY <1>1, <1>3
<1>6. ranAt \subseteq Nat \ {0}
  BY <1>1, <1>2
<1>7. SumSeq(Frequencies) \in Nat /\ \A x \in ranAt : x <= SumSeq(Frequencies)
  BY RanAtBounded
<1>8. /\ lo \in ranAt /\ \A y \in ranAt : lo <= y
      /\ hi \in ranAt /\ \A y \in ranAt : y <= hi
  BY <1>6, <1>7, MinMax
<1>9. lo \in Nat \ {0} /\ hi \in Nat
  BY <1>6, <1>8
<1> HIDE DEF lo, hi
<1>10. s \in [States -> Nat] /\ w \in [States -> Int]
  <2>1. \A k \in States : s[k] * Frequencies[k] \in Int
    BY <1>2, <1>4
  <2>2. s \in [States -> Nat]
    BY <1>4
  <2> HIDE DEF s
  <2> QED BY <2>1, <2>2
<1>11. s \in Seq(Nat) /\ Len(s) = Len(Frequencies) /\ w \in Seq(Int) /\ Len(w) = Len(Frequencies)
  BY <1>10, StatesSeq
<1>12. ASSUME NEW k \in 1..Len(s) PROVE lo * s[k] <= w[k] /\ w[k] <= hi * s[k]
  <2>1. k \in States /\ s[k] \in Nat /\ Frequencies[k] \in Nat \ {0}
    BY <1>2, <1>4, <1>11
  <2>2. w[k] = s[k] * Frequencies[k]
    BY <2>1
  <2>3. s[k] > 0 => lo <= Frequencies[k] /\ Frequencies[k] <= hi
    BY <1>4, <1>8, <2>1
  <2>4. ASSUME NEW a \in Nat, NEW f \in Nat, a > 0 => lo <= f /\ f <= hi
        PROVE  lo * a <= a * f /\ a * f <= hi * a
    <3>1. CASE a = 0
      BY <1>9, <3>1
    <3>2. CASE a > 0
      BY <1>9, <2>4, <3>2
    <3> QED BY <3>1, <3>2
  <2> QED BY <2>1, <2>2, <2>3, <2>4
<1>13. j \in 1..Len(s)
  BY <1>2, <1>11
<1> HIDE DEF s, w
<1>14. SumSeq(w) # 0 /\ SumSeq(w) \div SumSeq(s) \in lo..hi
  BY <1>5, <1>9, <1>11, <1>12, <1>13, WeightedAverage
<1>15. Recorder!Relative = s /\ Recorder!Weighted = SumSeq(w)
  BY SameSum DEF s, w, Recorder!Relative, Recorder!Weighted, Recorder!States
<1> QED BY <1>14, <1>15, SameSum DEF lo, hi

\* If the core has run since cpufreq last looked and it can be read, the frequency recorded
\* is between the lowest and the highest it has run at since (cpufreq.cpp:85), whatever its
\* frequencies are and however many samples, sessions and failures there were before.
THEOREM FrequencySinceLastSampleHolds == Recorder!Spec => FrequencySinceLastSample
<1> DEFINE A == (subject = "cpufreq" /\ Len(list') > Len(list) /\ ranAt # {} /\ ranAt' = {}) =>
                   Recorder!Last(list') \in Recorder!Min(ranAt)..Recorder!Max(ranAt)
<1>1. RecordingType /\ FrequencyInv /\ [Recorder!Next]_(Recorder!vars) => [A]_(Recorder!vars)
  <2> SUFFICES ASSUME RecordingType, FrequencyInv, Recorder!Next, subject = "cpufreq",
                      Len(list') > Len(list), ranAt # {}, ranAt' = {}
               PROVE  Recorder!Last(list') \in Recorder!Min(ranAt)..Recorder!Max(ranAt)
    OBVIOUS
  <2>0. IsList(list) /\ Len(list) \in Nat
    BY DEF RecordingType, IsList
  <2>1. list' # list /\ list' # <<>>
    BY <2>0
  <2>2. inRunning /\ Recorder!Sample
    BY <2>1 DEF Recorder!Next, Recorder!Elapse, Recorder!Initialize, Recorder!start,
       Recorder!collect, Recorder!summarize, Recorder!SummarizeTraps, Recorder!stop,
       Recorder!columnVars
  <2>3. Recorder!SampleCpufreq \/ Recorder!SampleCurrent
    BY <2>1, <2>2 DEF Recorder!Sample, Recorder!SampleRusage, Recorder!FailRusage,
       Recorder!SampleProcfs, Recorder!FailProcfs, Recorder!Failed, Recorder!columnVars,
       Recorder!OutsideTimes, Recorder!SampleOffline
  <2>4. \A v : Recorder!Add(v) => Recorder!Last(list') = v
    <3> SUFFICES ASSUME NEW v, Recorder!Add(v) PROVE Recorder!Last(list') = v
      OBVIOUS
    <3>1. list' = Append(list, v)
      BY DEF Recorder!Add
    <3> QED BY <2>0, <3>1, ListAppend DEF Recorder!Last
  <2>5. CASE Recorder!SampleCpufreq
    <3>1. Len(times) >= Len(Frequencies) /\ Len(Frequencies) \in Nat /\ Len(Frequencies) > 0
      BY <2>5, RanAtBounded, StatesOfFrequencies DEF Recorder!SampleCpufreq
    <3>2. times # <<>>
      BY <3>1
    <3>3. /\ Recorder!Weighted # 0
          /\ Recorder!Weighted \div Recorder!SumSeq(Recorder!Relative)
               \in Recorder!Min(ranAt)..Recorder!Max(ranAt)
      BY <3>2, AverageFrequency
    <3> QED BY <2>4, <2>5, <3>3 DEF Recorder!SampleCpufreq
  <2>6. CASE Recorder!SampleCurrent
    <3>1. Recorder!Last(list') = Frequencies[current] /\ Frequencies[current] \in ranAt
      BY <2>4, <2>6 DEF Recorder!SampleCurrent, FrequencyInv
    <3>2. ranAt \subseteq Nat /\ \A x \in ranAt : x <= SumSeq(Frequencies)
      BY RanAtBounded
    <3>3. SumSeq(Frequencies) \in Nat
      BY RanAtBounded
    <3>4. /\ Recorder!Min(ranAt) \in ranAt /\ \A y \in ranAt : Recorder!Min(ranAt) <= y
          /\ Recorder!Max(ranAt) \in ranAt /\ \A y \in ranAt : y <= Recorder!Max(ranAt)
      BY <3>2, <3>3, MinMax
    <3> DEFINE v == Recorder!Last(list')
               lo == Recorder!Min(ranAt)
               hi == Recorder!Max(ranAt)
    <3>5. v \in Nat /\ lo \in Nat /\ hi \in Nat /\ lo <= v /\ v <= hi
      BY <3>1, <3>2, <3>4
    <3> HIDE DEF v, lo, hi
    <3>6. v \in lo..hi
      BY <3>5
    <3> QED BY <3>6 DEF v, lo, hi
  <2> QED BY <2>3, <2>5, <2>6
<1> QED BY <1>1, RecordingTypes, FrequencyInvariant, PTL
    DEF Recorder!Spec, FrequencySinceLastSample, Recorder!FrequencySinceLastSample
===============================================================================
