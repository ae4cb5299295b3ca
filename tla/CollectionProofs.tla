--------------------------- MODULE CollectionProofs ---------------------------
(* Invariance proofs for Collection, for every set of collectors, every        *)
(* configuration and every bound.                                              *)
EXTENDS Collection, MCAlgorithms, SumProofs, TLAPS

USE DEF collectionVars, dataVars, collectorVars, historyVars, At, Idle,
        AtCollector, PastLast

(* The remix of a list of typed values is a list of typed values. *)
LEMMA RemixType ==
  ASSUME NEW S, NEW T, NEW timing \in Seq(T), NEW l \in Seq(S), NEW nan,
         RemixDefined(timing, Len(l), nan)
  PROVE  Remix(timing, l, nan) \in Seq(S)
<1>1. \A i \in 1..Len(timing) : RemixIndex(timing, Len(l), i, nan) + 1 \in 1..Len(l)
  BY DEF RemixDefined
<1>2. \A i \in 1..Len(timing) : l[RemixIndex(timing, Len(l), i, nan) + 1] \in S
  BY <1>1
<1> QED
  BY <1>2 DEF Remix

(* Collectors is the range of mCollectors. *)
LEMMA RegisteredIsCollector == \A i \in 1..Len(mCollectors) : mCollectors[i] \in Collectors
  BY CollectorsAssumption DEF Collectors

(* The client's position stays a position. *)
LEMMA PositionType ==
  ASSUME call \in Positions
  PROVE  /\ Advance => call' \in Positions
         /\ Return => call' \in Positions
         /\ \A op \in Ops : Enter(op) => call' \in Positions
<1>1. call.op \in Ops /\ call.i + 1 \in Nat \ {0}
  BY DEF Positions
<1>2. Advance => call' = [op |-> call.op, i |-> call.i + 1]
  BY DEF Advance, Positions
<1>3. "idle" \in Ops
  BY DEF Ops
<1> QED BY <1>1, <1>2, <1>3 DEF Return, Enter, Positions

(* The collector a loop over mRunning has come to is a registered one. *)
LEMMA CurrentType ==
  ASSUME TypeOK, call.i <= Len(mRunning)
  PROVE  Current \in Collectors
BY DEF TypeOK, Positions, Current

(* The slots of two collectors are different ones. *)
LEMMA SlotOwner ==
  /\ \A c \in Collectors : SlotsOf(c) \subseteq Slots
  /\ \A s \in Slots : \E c \in Collectors : s \in SlotsOf(c)
  /\ \A c, d \in Collectors : \A s \in SlotsOf(c) : s \in SlotsOf(d) => c = d
<1>1. \A c \in Collectors : SlotsOf(c) \subseteq Slots
  BY DEF Slots
<1>2. \A s \in Slots : \E c \in Collectors : s \in SlotsOf(c)
  BY DEF Slots
<1>3. \A c \in Collectors : \A s \in SlotsOf(c) : s[1] = c
  BY DEF SlotsOf
<1> QED BY <1>1, <1>2, <1>3

(* What recording does: a list gets a value of this session or stays. *)
LEMMA Recorded ==
  ASSUME list \in [Slots -> Seq(Stamp)], made \in [Slots -> Stamp], session \in Stamp,
         NEW slots, Record(slots)
  PROVE  /\ list' \in [Slots -> Seq(Stamp)] /\ made' \in [Slots -> Stamp]
         /\ \A s \in Slots : s \in slots => list'[s] = Append(list[s], session)
                                              /\ Len(list'[s]) = Len(list[s]) + 1
         /\ \A s \in Slots : s \notin slots => list'[s] = list[s] /\ made'[s] = made[s]
         /\ \A s \in Slots : made'[s] = made[s] \/ made'[s] = session
<1>1. \A s \in Slots : /\ Append(list[s], session) \in Seq(Stamp)
                       /\ Len(Append(list[s], session)) = Len(list[s]) + 1
  OBVIOUS
<1> QED BY <1>1 DEF Record

(* What summarize() does to the lists. *)
LEMMA Summarized ==
  ASSUME list \in [Slots -> Seq(Stamp)], summaries \in [Slots -> Seq(Stamp)],
         NEW c \in Collectors, SummarizeLists(c)
  PROVE  /\ list' \in [Slots -> Seq(Stamp)] /\ summaries' \in [Slots -> Seq(Stamp)]
         /\ \A s \in Slots : list'[s] = list[s] \/ list'[s] = <<>>
         /\ \A s \in Slots : s \notin SlotsOf(c) => list'[s] = list[s]
         /\ outcome' \in {outcome, "div_by_zero", "data_race"}
<1>1. \A s \in Slots : Append(summaries[s], Average(list[s])) \in Seq(Stamp)
  <2> SUFFICES ASSUME NEW s \in Slots PROVE Append(summaries[s], Average(list[s])) \in Seq(Stamp)
    OBVIOUS
  <2>1. 0 \in Stamp
    BY BoundsAssumption DEF Stamp
  <2>2. list[s] # <<>> => list[s][1] \in Stamp
    <3>1. list[s] \in Seq(Stamp)
      OBVIOUS
    <3> QED BY <3>1
  <2>3. Average(list[s]) \in Stamp /\ summaries[s] \in Seq(Stamp)
    BY <2>1, <2>2 DEF Average
  <2> QED BY <2>3
<1>2. <<>> \in Seq(Stamp)
  OBVIOUS
<1>3. MadeSlots(c) \subseteq SlotsOf(c)
  BY DEF MadeSlots
<1> QED BY <1>1, <1>2, <1>3 DEF SummarizeLists

(* Every state of the model is well typed: in particular the loop positions of *)
(* start(), stop() and summarize() only ever name registered collectors, and   *)
(* the vector stop() builds holds nothing else.                                *)
THEOREM TypeCorrect == Spec => []TypeOK
<1>1. Init => TypeOK
  <2>1. 0 \in Stamp
    BY BoundsAssumption DEF Stamp
  <2>2. Init => /\ mRunning \in Seq(Collectors) /\ names \in Seq(Collectors)
                /\ tmp \in Seq(Collectors)
                /\ mTiming \in Seq(FrameTimes) /\ mTimingSummarized \in Seq(Stamp)
    BY DEF Init
  <2>3. Init => /\ list \in [Slots -> Seq(Stamp)]
                /\ summaries \in [Slots -> Seq(Stamp)]
                /\ made \in [Slots -> Stamp]
    BY <2>1 DEF Init
  <2>4. Init => /\ call \in Positions /\ outcome \in Outcomes
                /\ thread \in [Collectors -> ThreadStates]
    BY DEF Init, Positions, Ops, Outcomes, ThreadStates
  <2>5. Init => /\ inited \in [Collectors -> BOOLEAN] /\ mIsThreaded \in [Collectors -> BOOLEAN]
                /\ mCollecting \in [Collectors -> BOOLEAN] /\ finished \in [Collectors -> BOOLEAN]
                /\ mIsSummarized \in [Collectors -> BOOLEAN]
                /\ running \in BOOLEAN /\ initOk \in BOOLEAN /\ lossy \in BOOLEAN
                /\ session \in Stamp /\ startFailed \in SUBSET Collectors
    BY <2>1 DEF Init
  <2> QED BY <2>2, <2>3, <2>4, <2>5 DEF TypeOK
<1>2. TypeOK /\ [Next]_vars => TypeOK'
  <2> SUFFICES ASSUME TypeOK, [Next]_vars PROVE TypeOK'
    OBVIOUS
  <2> USE CollectorsAssumption, BoundsAssumption, RegisteredIsCollector
  <2>a. /\ mRunning \in Seq(Collectors) /\ names \in Seq(Collectors) /\ tmp \in Seq(Collectors)
        /\ mTiming \in Seq(FrameTimes) /\ mTimingSummarized \in Seq(Stamp)
        /\ list \in [Slots -> Seq(Stamp)] /\ summaries \in [Slots -> Seq(Stamp)]
        /\ made \in [Slots -> Stamp] /\ call \in Positions /\ session \in Stamp
    BY DEF TypeOK
  <2>b. \A S : \A s \in Seq(S) : \A e \in S : Append(s, e) \in Seq(S)
    OBVIOUS
  <2>e. <<>> \in Seq(Collectors) /\ <<>> \in Seq(FrameTimes) /\ <<>> \in Seq(Stamp)
    OBVIOUS
  <2>c. /\ Advance => call' \in Positions
        /\ Return => call' \in Positions
        /\ \A op \in Ops : Enter(op) => call' \in Positions
    BY <2>a, PositionType
  <2>1. CASE InitializeBegin
    BY <2>1, <2>c DEF InitializeBegin, TypeOK, Ops
  <2>2. CASE InitializeOne
    <3>1. names[call.i] \in Collectors
      BY <2>2, <2>a DEF InitializeOne, Positions
    <3>2. CASE InitializeCollector(names[call.i])
      <4>a. Append(mRunning, names[call.i]) \in Seq(Collectors)
        BY <3>1, <2>a
      <4>b. call' \in Positions
        BY <3>2, <2>c DEF InitializeCollector
      <4>1. mRunning' \in Seq(Collectors) /\ call' \in Positions
        BY <3>2, <4>a, <4>b, <2>a DEF InitializeCollector
      <4>2. inited' \in [Collectors -> BOOLEAN] /\ mIsThreaded' \in [Collectors -> BOOLEAN]
        BY <3>1, <3>2, Zenon DEF InitializeCollector, TypeOK
      <4> QED BY <2>2, <3>2, <4>1, <4>2 DEF InitializeOne, InitializeCollector, TypeOK
    <3>3. CASE InitializeFailed(names[call.i])
      <4>a. call' \in Positions
        BY <3>3, <2>c DEF InitializeFailed
      <4>1. mRunning' \in Seq(Collectors) /\ names' \in Seq(Collectors) /\ call' \in Positions
        BY <3>3, <4>a, <2>a, <2>e DEF InitializeFailed
      <4>2. initOk' \in BOOLEAN
        BY <3>3 DEF InitializeFailed, TypeOK
      <4> QED BY <2>2, <3>3, <4>1, <4>2 DEF InitializeOne, InitializeFailed, TypeOK
    <3> QED BY <2>2, <3>2, <3>3 DEF InitializeOne
  <2>3. CASE InitializeEnd
    BY <2>3, <2>c DEF InitializeEnd, TypeOK
  <2>4. ASSUME NEW c \in ClientThreaded, UseThreading(c) PROVE TypeOK'
    BY <2>4 DEF UseThreading, TypeOK
  <2>5. CASE StartBegin
    <3>1. session' \in Stamp
      BY <2>5, <2>a DEF StartBegin, Stamp
    <3>2. call' \in Positions
      BY <2>5, <2>c DEF StartBegin, Ops
    <3>3. mTiming' \in Seq(FrameTimes)
      BY <2>5, <2>e DEF StartBegin
    <3>4. startFailed' \in SUBSET Collectors /\ lossy' \in BOOLEAN
      BY <2>5 DEF StartBegin
    <3> QED BY <2>5, <3>1, <3>2, <3>3, <3>4 DEF StartBegin, TypeOK
  <2>6. CASE StartOne
    <3>1. Current \in Collectors
      BY <2>6, CurrentType DEF StartOne
    <3>2. list' \in [Slots -> Seq(Stamp)]
      BY <2>6, <3>1, <2>a, <2>e DEF StartOne, Cleared
    <3>3. finished' \in [Collectors -> BOOLEAN] /\ mCollecting' \in [Collectors -> BOOLEAN]
      BY <2>6, <3>1 DEF StartOne, SpawnSampler, TypeOK
    <3>4. thread' \in [Collectors -> ThreadStates] /\ outcome' \in Outcomes
      BY <2>6, <3>1 DEF StartOne, SpawnSampler, TypeOK, ThreadStates, Outcomes
    <3>5. startFailed' \in SUBSET Collectors
      BY <2>6, <3>1 DEF StartOne, TypeOK
    <3> QED BY <2>6, <3>2, <3>3, <3>4, <3>5, <2>c DEF StartOne, TypeOK
  <2>7. CASE StartEnd
    BY <2>7, <2>c DEF StartEnd, TypeOK
  <2>8. ASSUME NEW c \in Collectors, Sampler(c) PROVE TypeOK'
    <3>1. CASE SamplerTest(c)
      BY <3>1 DEF SamplerTest, TypeOK, ThreadStates
    <3>2. CASE SamplerCollect(c)
      <4>1. list' \in [Slots -> Seq(Stamp)] /\ made' \in [Slots -> Stamp]
        BY <3>2, <2>a, Recorded DEF SamplerCollect
      <4>2. thread' \in [Collectors -> ThreadStates]
        BY <3>2 DEF SamplerCollect, TypeOK, ThreadStates
      <4> QED BY <3>2, <4>1, <4>2 DEF SamplerCollect, TypeOK
    <3>3. CASE SamplerNap(c)
      BY <3>3 DEF SamplerNap, TypeOK, ThreadStates
    <3> QED BY <2>8, <3>1, <3>2, <3>3 DEF Sampler
  <2>9. CASE Collect
    <3>1. mTiming' \in Seq(FrameTimes)
      BY <2>9, <2>a DEF Collect, FrameTime
    <3>2. list' \in [Slots -> Seq(Stamp)] /\ made' \in [Slots -> Stamp]
      BY <2>9, <2>a, Recorded DEF Collect
    <3>3. lossy' \in BOOLEAN
      BY <2>9 DEF Collect, TypeOK
    <3> QED BY <2>9, <3>1, <3>2, <3>3 DEF Collect, TypeOK
  <2>10. CASE SummarizeBegin
    BY <2>10, <2>c DEF SummarizeBegin, TypeOK, Ops
  <2>11. CASE SummarizeOne
    <3> DEFINE c == mCollectors[call.i]
    <3>1. c \in Collectors
      BY <2>11, <2>a DEF SummarizeOne, Positions
    <3> HIDE DEF c
    <3>2. SummarizeLists(c) /\ mIsSummarized' = [mIsSummarized EXCEPT ![c] = TRUE]
      BY <2>11 DEF SummarizeOne, c
    <3>3. list' \in [Slots -> Seq(Stamp)] /\ summaries' \in [Slots -> Seq(Stamp)]
      BY <3>1, <3>2, <2>a, Summarized
    <3>4. outcome' \in Outcomes
      BY <3>1, <3>2, <2>a, Summarized DEF TypeOK, Outcomes
    <3>5. mIsSummarized' \in [Collectors -> BOOLEAN]
      BY <3>1, <3>2 DEF TypeOK
    <3> QED BY <2>11, <3>3, <3>4, <3>5, <2>c DEF SummarizeOne, TypeOK
  <2>12. CASE SummarizeEnd
    <3>1. Append(mTimingSummarized, session) \in Seq(Stamp)
      BY <2>a, <2>b
    <3> QED BY <2>12, <3>1, <2>c DEF SummarizeEnd, TypeOK
  <2>13. CASE StopBegin
    BY <2>13, <2>c DEF StopBegin, TypeOK, Ops
  <2>14. CASE SignalOne
    <3>1. finished' \in [Collectors -> BOOLEAN]
      BY <2>14, Zenon DEF SignalOne, Signalled, TypeOK
    <3> QED BY <2>14, <3>1, <2>c DEF SignalOne, TypeOK
  <2>15. CASE SignalEnd
    BY <2>15, <2>c DEF SignalEnd, TypeOK, Ops
  <2>16. CASE JoinThrows
    BY <2>16 DEF JoinThrows, TypeOK, Outcomes
  <2>17. CASE JoinOne
    <3>1. Current \in Collectors
      BY <2>17, CurrentType DEF JoinOne
    <3>2. tmp' \in Seq(Collectors)
      <4>1. Append(tmp, Current) \in Seq(Collectors)
        BY <3>1, <2>a, <2>b
      <4> QED BY <2>17, <4>1, <2>a DEF JoinOne, PostprocessOf
    <3>3. outcome' \in Outcomes
      BY <2>17 DEF JoinOne, PostprocessOf, TypeOK, Outcomes
    <3>4. list' \in [Slots -> Seq(Stamp)]
      <4>1. ASSUME NEW nan \in NaNIndices, NEW s \in Slots, RemixDefined(mTiming, Len(list[s]), nan)
            PROVE  Remix(mTiming, list[s], nan) \in Seq(Stamp)
        BY <4>1, <2>a, RemixType
      <4>2. PostprocessOf(Current)
        BY <2>17 DEF JoinOne
      <4>3. CASE list' = list
        BY <4>3, <2>a
      <4>4. CASE list' # list
        <5>1. PICK nan \in NaNIndices :
                /\ \A s \in MadeSlots(Current) : RemixDefined(mTiming, Len(list[s]), nan)
                /\ list' = [s \in Slots |-> IF s \in MadeSlots(Current)
                                           THEN Remix(mTiming, list[s], nan) ELSE list[s]]
          BY <4>2, <4>4 DEF PostprocessOf
        <5>2. ASSUME NEW s \in Slots
              PROVE  (IF s \in MadeSlots(Current)
                      THEN Remix(mTiming, list[s], nan) ELSE list[s]) \in Seq(Stamp)
          BY <4>1, <5>1, <2>a
        <5> QED BY <5>1, <5>2
      <4> QED BY <4>3, <4>4
    <3>5. thread' \in [Collectors -> ThreadStates] /\ mCollecting' \in [Collectors -> BOOLEAN]
      BY <2>17, <3>1 DEF JoinOne, Join, TypeOK, ThreadStates
    <3> QED BY <2>17, <3>2, <3>3, <3>4, <3>5, <2>c DEF JoinOne, TypeOK
  <2>18. CASE StopEnd
    <3>1. mRunning' \in Seq(Collectors) /\ tmp' \in Seq(Collectors)
      BY <2>18, <2>a DEF StopEnd
    <3> QED BY <2>18, <3>1, <2>c DEF StopEnd, TypeOK
  <2>19. CASE Destroy
    BY <2>19 DEF Destroy, TypeOK, Outcomes
  <2>20. CASE UNCHANGED vars
    BY <2>20 DEF vars, TypeOK
  <2> QED
    BY <2>1, <2>2, <2>3, <2>4, <2>5, <2>6, <2>7, <2>8, <2>9, <2>10, <2>11, <2>12, <2>13,
       <2>14, <2>15, <2>16, <2>17, <2>18, <2>19, <2>20 DEF Next, InCall, Ended
<1> QED
  BY <1>1, <1>2, PTL DEF Spec

-------------------------------------------------------------------------------
(* Where sampler threads can be: QuiescentWhenStopped is not inductive by      *)
(* itself, because start() and stop() work through mRunning one by one.        *)

PhaseInv ==
  /\ call.op \in {"signal", "join"} => running
  /\ call.op \in {"initialize", "start"} => ~running

\* A collector that runs is in mRunning: behind the position of start(), at or
\* past the position of stop().
SamplerInv ==
  \A c \in Collectors : (thread[c] # "none" \/ mCollecting[c]) =>
     /\ running \/ call.op = "start"
     /\ \E k \in 1..Len(mRunning) :
          /\ mRunning[k] = c
          /\ call.op = "start" => k < call.i
          /\ call.op = "join" => call.i <= k

(* An action that leaves the threads and mRunning alone and moves only between *)
(* calls, or within a call that does not bound k, keeps SamplerInv.            *)
LEMMA SamplerInvFrame ==
  ASSUME TypeOK, TypeOK', SamplerInv,
         UNCHANGED <<thread, mCollecting, mRunning, running>>,
         call.op # "start", call'.op # "start",
         call'.op = "join" => call'.i <= 1 \/ (call.op = "join" /\ call'.i <= call.i)
  PROVE  SamplerInv'
<1> SUFFICES ASSUME NEW c \in Collectors, thread[c] # "none" \/ mCollecting[c]
             PROVE  /\ running
                    /\ \E k \in 1..Len(mRunning) :
                          mRunning[k] = c /\ (call'.op = "join" => call'.i <= k)
  BY DEF SamplerInv
<1>1. PICK k \in 1..Len(mRunning) : mRunning[k] = c /\ (call.op = "join" => call.i <= k)
  BY DEF SamplerInv
<1>2. k \in Nat /\ 1 <= k /\ call.i \in Nat /\ call'.i \in Nat
  BY DEF TypeOK, Positions
<1>3. call'.op = "join" => call'.i <= k
  BY <1>1, <1>2
<1> QED BY <1>1, <1>3 DEF SamplerInv

(* PhaseInv and SamplerInv are inductive. *)
LEMMA SamplerInvariant == Spec => [](PhaseInv /\ SamplerInv)
<1>1. Init => PhaseInv /\ SamplerInv
  BY DEF Init, PhaseInv, SamplerInv
<1>2. TypeOK /\ TypeOK' /\ PhaseInv /\ SamplerInv /\ [Next]_vars => PhaseInv' /\ SamplerInv'
  <2> SUFFICES ASSUME TypeOK, TypeOK', PhaseInv, SamplerInv, [Next]_vars
               PROVE  PhaseInv' /\ SamplerInv'
    OBVIOUS
  <2>a. call \in Positions /\ call' \in Positions /\ call.i \in Nat /\ call'.i \in Nat
    BY DEF TypeOK, Positions
  <2>b. /\ Advance => call'.op = call.op /\ call'.i = call.i + 1
        /\ Return => call'.op = "idle"
        /\ \A op \in Ops : Enter(op) => call'.op = op /\ call'.i = 1
    BY <2>a DEF Advance, Return, Enter, Positions
  <2>c. /\ mRunning \in Seq(Collectors) /\ mRunning' \in Seq(Collectors)
        /\ thread \in [Collectors -> ThreadStates] /\ mCollecting \in [Collectors -> BOOLEAN]
    BY DEF TypeOK
  <2>1. CASE InitializeBegin
    BY <2>1, <2>b, SamplerInvFrame DEF InitializeBegin, PhaseInv, Ops
  <2>2. CASE InitializeOne
    <3>1. ~running /\ call.op = "initialize"
      BY <2>2 DEF InitializeOne, PhaseInv
    <3>2. \A c \in Collectors : thread[c] = "none" /\ ~mCollecting[c]
      BY <3>1 DEF SamplerInv
    <3>3. UNCHANGED <<running, thread, mCollecting>> /\ call'.op \in {"initialize", "idle"}
      BY <2>2, <2>b, <3>1 DEF InitializeOne, InitializeCollector, InitializeFailed
    <3> QED BY <3>1, <3>2, <3>3 DEF PhaseInv, SamplerInv
  <2>3. CASE InitializeEnd
    BY <2>3, <2>b, SamplerInvFrame DEF InitializeEnd, PhaseInv
  <2>4. ASSUME NEW c \in ClientThreaded, UseThreading(c) PROVE PhaseInv' /\ SamplerInv'
    BY <2>4, <2>a, SamplerInvFrame DEF UseThreading, PhaseInv
  <2>5. CASE StartBegin
    <3>1. \A c \in Collectors : thread[c] = "none" /\ ~mCollecting[c]
      BY <2>5 DEF StartBegin, SamplerInv
    <3> QED BY <2>5, <3>1, <2>b DEF StartBegin, PhaseInv, SamplerInv, Ops
  <2>6. CASE StartOne
    <3>1. call.op = "start" /\ call'.op = "start" /\ call'.i = call.i + 1
      BY <2>6, <2>b DEF StartOne
    <3>2. ~running /\ UNCHANGED <<running, mRunning>>
      BY <2>6, <3>1 DEF StartOne, PhaseInv
    <3>3. call.i \in 1..Len(mRunning) /\ mRunning[call.i] = Current
      BY <2>6, <2>a, <2>c DEF StartOne, Positions, Current
    <3>4. Current \in Collectors
      BY <2>6, CurrentType DEF StartOne
    <3>5. \A c \in Collectors : c # Current => thread'[c] = thread[c] /\ mCollecting'[c] = mCollecting[c]
      BY <2>6, <3>4, <2>c DEF StartOne, SpawnSampler
    <3>6. SamplerInv'
      <4> SUFFICES ASSUME NEW c \in Collectors, thread'[c] # "none" \/ mCollecting'[c]
                   PROVE  \E k \in 1..Len(mRunning) : mRunning[k] = c /\ k < call.i + 1
        BY <3>1, <3>2 DEF SamplerInv
      <4>1. CASE c = Current
        BY <4>1, <3>3, <2>a
      <4>2. CASE c # Current
        <5>1. thread[c] # "none" \/ mCollecting[c]
          BY <4>2, <3>5
        <5>2. PICK k \in 1..Len(mRunning) : mRunning[k] = c /\ k < call.i
          BY <5>1, <3>1 DEF SamplerInv
        <5> QED BY <5>2, <2>a
      <4> QED BY <4>1, <4>2
    <3> QED BY <3>1, <3>2, <3>6 DEF PhaseInv
  <2>7. CASE StartEnd
    <3>1. call'.op = "idle" /\ running'
      BY <2>7, <2>b DEF StartEnd
    <3> QED BY <2>7, <3>1 DEF StartEnd, PhaseInv, SamplerInv
  <2>8. ASSUME NEW c \in Collectors, Sampler(c) PROVE PhaseInv' /\ SamplerInv'
    <3>1. /\ UNCHANGED <<call, running, mRunning, mCollecting>>
          /\ thread[c] # "none"
          /\ \A d \in Collectors : d # c => thread'[d] = thread[d]
      BY <2>8, <2>c DEF Sampler, SamplerTest, SamplerCollect, SamplerNap
    <3> QED BY <3>1 DEF PhaseInv, SamplerInv
  <2>9. CASE Collect
    BY <2>9 DEF Collect, PhaseInv, SamplerInv
  <2>10. CASE SummarizeBegin
    BY <2>10, <2>b, SamplerInvFrame DEF SummarizeBegin, PhaseInv, Ops
  <2>11. CASE SummarizeOne
    BY <2>11, <2>b, SamplerInvFrame DEF SummarizeOne, PhaseInv
  <2>12. CASE SummarizeEnd
    BY <2>12, <2>b, SamplerInvFrame DEF SummarizeEnd, PhaseInv
  <2>13. CASE StopBegin
    BY <2>13, <2>b, SamplerInvFrame DEF StopBegin, PhaseInv, Ops
  <2>14. CASE SignalOne
    BY <2>14, <2>b, SamplerInvFrame DEF SignalOne, PhaseInv
  <2>15. CASE SignalEnd
    <3>1. call.op = "signal" /\ call'.op = "join" /\ call'.i = 1
      BY <2>15, <2>b DEF SignalEnd, Ops
    <3>2. SamplerInv'
      BY <2>15, <3>1, SamplerInvFrame DEF SignalEnd
    <3> QED BY <2>15, <3>1, <3>2 DEF SignalEnd, PhaseInv
  <2>16. CASE JoinThrows
    BY <2>16 DEF JoinThrows, PhaseInv, SamplerInv
  <2>17. CASE JoinOne
    <3>1. call.op = "join" /\ call'.op = "join" /\ call'.i = call.i + 1
      BY <2>17, <2>b DEF JoinOne
    <3>2. running /\ UNCHANGED <<running, mRunning>>
      BY <2>17, <3>1 DEF JoinOne, PhaseInv
    <3>3. Current \in Collectors /\ Current = mRunning[call.i]
      BY <2>17, CurrentType DEF JoinOne, Current
    <3>4. thread'[Current] = "none" /\ ~mCollecting'[Current]
      BY <2>17, <3>3, <2>c DEF JoinOne, Join
    <3>5. \A c \in Collectors : c # Current => thread'[c] = thread[c] /\ mCollecting'[c] = mCollecting[c]
      BY <2>17, <3>3, <2>c DEF JoinOne, Join
    <3>6. SamplerInv'
      <4> SUFFICES ASSUME NEW c \in Collectors, thread'[c] # "none" \/ mCollecting'[c]
                   PROVE  \E k \in 1..Len(mRunning) : mRunning[k] = c /\ call.i + 1 <= k
        BY <3>1, <3>2 DEF SamplerInv
      <4>1. c # Current /\ (thread[c] # "none" \/ mCollecting[c])
        BY <3>4, <3>5
      <4>2. PICK k \in 1..Len(mRunning) : mRunning[k] = c /\ call.i <= k
        BY <4>1, <3>1 DEF SamplerInv
      <4>3. k # call.i
        BY <4>1, <4>2, <3>3
      <4> QED BY <4>2, <4>3, <2>a
    <3> QED BY <3>1, <3>2, <3>6 DEF PhaseInv
  <2>18. CASE StopEnd
    <3>1. call'.op = "idle" /\ UNCHANGED <<thread, mCollecting>>
      BY <2>18, <2>b DEF StopEnd
    <3>2. \A k \in 1..Len(mRunning) : ~(call.i <= k)
      BY <2>18, <2>a, <2>c DEF StopEnd
    <3>3. \A c \in Collectors : thread[c] = "none" /\ ~mCollecting[c]
      BY <2>18, <3>2 DEF StopEnd, SamplerInv
    <3> QED BY <3>1, <3>3 DEF PhaseInv, SamplerInv
  <2>19. CASE Destroy
    BY <2>19 DEF Destroy, PhaseInv, SamplerInv
  <2>20. CASE UNCHANGED vars
    BY <2>20 DEF vars, PhaseInv, SamplerInv
  <2> QED
    BY <2>1, <2>2, <2>3, <2>4, <2>5, <2>6, <2>7, <2>8, <2>9, <2>10, <2>11, <2>12, <2>13,
       <2>14, <2>15, <2>16, <2>17, <2>18, <2>19, <2>20 DEF Next, InCall, Ended
<1> QED
  BY <1>1, <1>2, TypeCorrect, PTL DEF Spec

(* No sampler thread and no collecting collector outlives stop(), whatever     *)
(* collectors failed to start or were dropped by postprocess: the claim of     *)
(* QuiescentWhenStopped for any number of collectors.                          *)
THEOREM QuiescenceHolds == Spec => []QuiescentWhenStopped
<1>1. PhaseInv /\ SamplerInv => QuiescentWhenStopped
  BY DEF PhaseInv, SamplerInv, QuiescentWhenStopped
<1> QED BY <1>1, SamplerInvariant, PTL

-------------------------------------------------------------------------------
(* The vector stop() builds holds collectors it has passed, each once.         *)

TmpInv ==
  /\ call.op # "join" => tmp = <<>>
  /\ \A a \in 1..Len(tmp) : \E k \in 1..Len(mRunning) : k < call.i /\ tmp[a] = mRunning[k]
  /\ \A a, b \in 1..Len(tmp) : tmp[a] = tmp[b] => a = b

DistinctInv == RunningDistinct /\ TmpInv

(* Appending an element that a sequence does not have keeps it injective.      *)
LEMMA AppendDistinct ==
  ASSUME NEW S, NEW s \in Seq(S), NEW e \in S,
         \A a, b \in 1..Len(s) : s[a] = s[b] => a = b,
         \A a \in 1..Len(s) : s[a] # e
  PROVE  \A a, b \in 1..Len(Append(s, e)) : Append(s, e)[a] = Append(s, e)[b] => a = b
OBVIOUS

(* An action that leaves mRunning alone, outside join, keeps DistinctInv. *)
LEMMA DistinctFrame ==
  ASSUME DistinctInv, UNCHANGED <<mRunning, tmp>>, call.op # "join"
  PROVE  DistinctInv'
<1>1. tmp = <<>>
  BY DEF DistinctInv, TmpInv
<1> QED BY <1>1 DEF DistinctInv, TmpInv, RunningDistinct

(* mRunning never holds a collector twice. *)
LEMMA DistinctInvariant == Spec => []DistinctInv
<1>1. Init => DistinctInv
  BY DEF Init, DistinctInv, TmpInv, RunningDistinct
<1>2. TypeOK /\ TypeOK' /\ DistinctInv /\ [Next]_vars => DistinctInv'
  <2> SUFFICES ASSUME TypeOK, TypeOK', DistinctInv, [Next]_vars PROVE DistinctInv'
    OBVIOUS
  <2>a. /\ mRunning \in Seq(Collectors) /\ tmp \in Seq(Collectors) /\ names \in Seq(Collectors)
        /\ call.i \in Nat \ {0} /\ call'.i \in Nat \ {0}
    BY DEF TypeOK, Positions
  <2>b. /\ Advance => call'.op = call.op /\ call'.i = call.i + 1
        /\ Return => call'.op = "idle"
        /\ \A op \in Ops : Enter(op) => call'.op = op /\ call'.i = 1
    BY DEF Advance, Return, Enter, Positions, TypeOK
  <2>c. DOMAIN mRunning = 1..Len(mRunning)
    BY <2>a
  <2>1. CASE InitializeOne
    <3>1. tmp = <<>> /\ tmp' = <<>> /\ call.op = "initialize"
      BY <2>1 DEF InitializeOne, DistinctInv, TmpInv
    <3>2. RunningDistinct'
      <4> DEFINE c == names[call.i]
      <4>1. c \in Collectors
        BY <2>1, <2>a DEF InitializeOne
      <4>2. CASE mRunning' = Append(mRunning, c) /\ c \notin ElementsOf(mRunning)
        <5>1. \A a \in 1..Len(mRunning) : mRunning[a] # c
          BY <4>2, <2>c DEF ElementsOf
        <5>2. \A a, b \in 1..Len(mRunning) : mRunning[a] = mRunning[b] => a = b
          BY <2>c DEF DistinctInv, RunningDistinct
        <5>3. \A a, b \in 1..Len(mRunning') : mRunning'[a] = mRunning'[b] => a = b
          <6>1. mRunning \in Seq(Collectors)
            BY <2>a
          <6> HIDE DEF c
          <6>2. \A a, b \in 1..Len(Append(mRunning, c)) :
                  Append(mRunning, c)[a] = Append(mRunning, c)[b] => a = b
            BY <4>1, <5>1, <5>2, <6>1, AppendDistinct
          <6> QED BY <4>2, <6>2, Zenon
        <5>4. DOMAIN mRunning' = 1..Len(mRunning')
          BY DEF TypeOK
        <5> QED BY <5>3, <5>4 DEF RunningDistinct
      <4>3. CASE mRunning' = mRunning
        BY <4>3 DEF DistinctInv, RunningDistinct
      <4>4. CASE mRunning' = <<>>
        BY <4>4 DEF RunningDistinct
      <4> QED BY <2>1, <4>2, <4>3, <4>4
            DEF InitializeOne, InitializeCollector, InitializeFailed
    <3> QED BY <3>1, <3>2 DEF DistinctInv, TmpInv
  <2>2. CASE JoinOne
    <3>1. call.op = "join" /\ call'.op = "join" /\ call'.i = call.i + 1 /\ mRunning' = mRunning
      BY <2>2, <2>b DEF JoinOne
    <3>2. call.i \in 1..Len(mRunning) /\ Current = mRunning[call.i] /\ Current \in Collectors
      BY <2>2, <2>a DEF JoinOne, Current
    <3>3. tmp' = tmp \/ tmp' = Append(tmp, Current)
      BY <2>2 DEF JoinOne, PostprocessOf
    <3>4. CASE tmp' = tmp
      BY <3>1, <3>4, <2>a DEF DistinctInv, TmpInv, RunningDistinct
    <3>5. CASE tmp' = Append(tmp, Current)
      <4>1. ASSUME NEW a \in 1..Len(tmp) PROVE tmp[a] # Current
        <5>1. PICK k \in 1..Len(mRunning) : k < call.i /\ tmp[a] = mRunning[k]
          BY DEF DistinctInv, TmpInv
        <5>2. k # call.i
          BY <5>1, <2>a
        <5>3. mRunning[k] # mRunning[call.i]
          BY <5>2, <3>2, <2>c DEF DistinctInv, RunningDistinct
        <5> QED BY <5>1, <5>3, <3>2
      <4>2. \A a, b \in 1..Len(tmp') : tmp'[a] = tmp'[b] => a = b
        <5>1. \A a, b \in 1..Len(tmp) : tmp[a] = tmp[b] => a = b
          BY DEF DistinctInv, TmpInv
        <5>2. \A a, b \in 1..Len(Append(tmp, Current)) :
                 Append(tmp, Current)[a] = Append(tmp, Current)[b] => a = b
          <6>1. tmp \in Seq(Collectors) /\ Current \in Collectors
            BY <3>2, <2>a
          <6>2. \A a \in 1..Len(tmp) : tmp[a] # Current
            BY <4>1
          <6> QED BY <5>1, <6>1, <6>2, AppendDistinct
        <5> QED BY <5>2, <3>5
      <4>3. \A a \in 1..Len(tmp') :
               \E k \in 1..Len(mRunning) : k < call.i + 1 /\ tmp'[a] = mRunning[k]
        <5> SUFFICES ASSUME NEW a \in 1..Len(tmp')
                     PROVE  \E k \in 1..Len(mRunning) : k < call.i + 1 /\ tmp'[a] = mRunning[k]
          OBVIOUS
        <5>1. a \in 1..Len(tmp) \/ tmp'[a] = Current
          BY <3>5, <2>a
        <5>2. CASE tmp'[a] = Current
          BY <5>2, <3>2, <2>a
        <5>3. CASE a \in 1..Len(tmp)
          <6>1. tmp'[a] = tmp[a]
            BY <5>3, <3>5, <3>2, <2>a
          <6>2. PICK k \in 1..Len(mRunning) : k < call.i /\ tmp[a] = mRunning[k]
            BY <5>3 DEF DistinctInv, TmpInv
          <6> QED BY <6>1, <6>2, <2>a
        <5> QED BY <5>1, <5>2, <5>3
      <4> QED BY <3>1, <4>2, <4>3 DEF DistinctInv, TmpInv, RunningDistinct
    <3> QED BY <3>3, <3>4, <3>5
  <2>3. CASE StopEnd
    <3>1. mRunning' = tmp /\ tmp' = <<>> /\ call'.op = "idle"
      BY <2>3, <2>b DEF StopEnd
    <3>2. DOMAIN tmp = 1..Len(tmp)
      BY <2>a
    <3> QED BY <3>1, <3>2 DEF DistinctInv, TmpInv, RunningDistinct
  <2>4. CASE SignalEnd
    <3>1. tmp = <<>> /\ tmp' = <<>> /\ mRunning' = mRunning
      BY <2>4 DEF SignalEnd, DistinctInv, TmpInv
    <3> QED BY <3>1 DEF DistinctInv, TmpInv, RunningDistinct
  <2>5. CASE UNCHANGED <<mRunning, tmp>> /\ call' = call
    BY <2>5 DEF DistinctInv, TmpInv, RunningDistinct
  <2>6. CASE UNCHANGED <<mRunning, tmp>> /\ call.op # "join"
    BY <2>6, DistinctFrame
  <2>7. InitializeBegin \/ InitializeEnd \/ StartBegin \/ StartOne \/ StartEnd
          \/ SummarizeBegin \/ SummarizeOne \/ SummarizeEnd \/ StopBegin \/ SignalOne
        => UNCHANGED <<mRunning, tmp>> /\ call.op # "join"
    BY DEF InitializeBegin, InitializeEnd, StartBegin, StartOne, StartEnd, SummarizeBegin,
           SummarizeOne, SummarizeEnd, StopBegin, SignalOne
  <2>8. Collect \/ Destroy \/ JoinThrows \/ Ended \/ UNCHANGED vars
        => UNCHANGED <<mRunning, tmp>> /\ call' = call
    BY DEF Collect, Destroy, JoinThrows, Ended, vars
  <2>9. \A c : UseThreading(c) \/ Sampler(c) => UNCHANGED <<mRunning, tmp>> /\ call' = call
    BY DEF UseThreading, Sampler, SamplerTest, SamplerCollect, SamplerNap
  <2> QED
    BY <2>1, <2>2, <2>3, <2>4, <2>5, <2>6, <2>7, <2>8, <2>9 DEF Next, InCall
<1> QED
  BY <1>1, <1>2, TypeCorrect, PTL DEF Spec

(* No collector is started, sampled or finished twice by one pass over         *)
(* mRunning, for any sequence of initialize() requests and any stop().         *)
THEOREM RunningDistinctHolds == Spec => []RunningDistinct
<1>1. DistinctInv => RunningDistinct
  BY DEF DistinctInv
<1> QED BY <1>1, DistinctInvariant, PTL

-------------------------------------------------------------------------------
(* What join() finds: the threaded collectors that start() has passed and      *)
(* stop() has not joined have a thread, or failed to start.                    *)

Joinable(k) ==
  \/ call.op = "start" /\ k < call.i
  \/ running /\ (call.op = "join" => call.i <= k)

JoinInv ==
  outcome = "ok" =>
     \A k \in 1..Len(mRunning) :
        Joinable(k) /\ mIsThreaded[mRunning[k]] =>
           thread[mRunning[k]] # "none" \/ mRunning[k] \in startFailed

(* The process is only lost to a thread operation when a collector failed to   *)
(* start, when the client destroys a running Collection or when it configures  *)
(* threads in per-API mode, and to a race with a sampler only when the client  *)
(* summarizes inside a session: KilledOnlyForCause for any collectors.         *)
THEOREM KilledOnlyForCauseHolds == Spec => []KilledOnlyForCause
<1>1. Init => JoinInv /\ KilledOnlyForCause
  BY DEF Init, JoinInv, KilledOnlyForCause
<1>2. TypeOK /\ TypeOK' /\ PhaseInv /\ SamplerInv /\ DistinctInv /\ JoinInv
        /\ KilledOnlyForCause /\ [Next]_vars => JoinInv' /\ KilledOnlyForCause'
  <2> SUFFICES ASSUME TypeOK, TypeOK', PhaseInv, SamplerInv, DistinctInv, JoinInv,
                      KilledOnlyForCause, [Next]_vars
               PROVE  JoinInv' /\ KilledOnlyForCause'
    OBVIOUS
  <2>a. /\ mRunning \in Seq(Collectors) /\ call.i \in Nat \ {0} /\ call'.i \in Nat \ {0}
        /\ thread \in [Collectors -> ThreadStates] /\ mIsThreaded \in [Collectors -> BOOLEAN]
        /\ \A k \in 1..Len(mRunning) : mRunning[k] \in Collectors
    BY DEF TypeOK, Positions
  <2>b. /\ Advance => call'.op = call.op /\ call'.i = call.i + 1
        /\ Return => call'.op = "idle"
        /\ \A op \in Ops : Enter(op) => call'.op = op /\ call'.i = 1
    BY DEF Advance, Return, Enter, Positions, TypeOK
  <2>c. DOMAIN mRunning = 1..Len(mRunning)
    BY <2>a
  <2>1. CASE InitializeBegin
    BY <2>1, <2>b DEF InitializeBegin, Joinable, JoinInv, KilledOnlyForCause, Ops
  <2>2. CASE InitializeOne
    <3>1. ~running /\ ~running' /\ call'.op \in {"initialize", "idle"} /\ UNCHANGED outcome
      BY <2>2, <2>b DEF InitializeOne, InitializeCollector, InitializeFailed, PhaseInv
    <3> QED BY <2>2, <3>1 DEF InitializeOne, Joinable, JoinInv, KilledOnlyForCause
  <2>3. CASE InitializeEnd
    BY <2>3, <2>b DEF InitializeEnd, Joinable, JoinInv, KilledOnlyForCause, PhaseInv
  <2>4. ASSUME NEW c \in ClientThreaded, UseThreading(c)
        PROVE  JoinInv' /\ KilledOnlyForCause'
    BY <2>4 DEF UseThreading, Joinable, JoinInv, KilledOnlyForCause
  <2>5. CASE StartBegin
    <3>1. call'.op = "start" /\ call'.i = 1 /\ ~running' /\ outcome' = "ok"
      BY <2>5, <2>b DEF StartBegin, Ops
    <3> QED BY <3>1, <2>a DEF Joinable, JoinInv, KilledOnlyForCause
  <2>6. CASE StartOne
    <3>1. /\ call.op = "start" /\ call'.op = "start" /\ call'.i = call.i + 1
          /\ ~running /\ UNCHANGED <<running, mRunning, mIsThreaded>> /\ outcome = "ok"
      BY <2>6, <2>b DEF StartOne, PhaseInv
    <3>2. call.i \in 1..Len(mRunning) /\ Current = mRunning[call.i] /\ Current \in Collectors
      BY <2>6, <2>a DEF StartOne, Current
    <3>3. thread[Current] = "none"
      <4>1. SUFFICES ASSUME thread[Current] # "none" PROVE FALSE
        OBVIOUS
      <4>2. PICK k \in 1..Len(mRunning) : mRunning[k] = Current /\ k < call.i
        BY <4>1, <3>1, <3>2 DEF SamplerInv
      <4>3. k = call.i
        BY <4>2, <3>2, <2>c DEF DistinctInv, RunningDistinct
      <4> QED BY <4>2, <4>3, <2>a
    <3>4. KilledOnlyForCause'
      BY <2>6, <3>1, <3>3 DEF StartOne, SpawnSampler, KilledOnlyForCause
    <3>5. JoinInv'
      <4> SUFFICES ASSUME outcome' = "ok", NEW k \in 1..Len(mRunning), k < call.i + 1,
                          mIsThreaded[mRunning[k]]
                   PROVE  thread'[mRunning[k]] # "none" \/ mRunning[k] \in startFailed'
        BY <3>1 DEF JoinInv, Joinable
      <4>1. CASE k = call.i
        BY <2>6, <4>1, <3>2, <2>a DEF StartOne, SpawnSampler
      <4>2. CASE k < call.i
        <5>1. mRunning[k] # Current
          BY <4>2, <3>2, <2>a, <2>c DEF DistinctInv, RunningDistinct
        <5>2. thread'[mRunning[k]] = thread[mRunning[k]]
          BY <2>6, <5>1, <3>2, <2>a DEF StartOne, SpawnSampler
        <5>3. thread[mRunning[k]] # "none" \/ mRunning[k] \in startFailed
          BY <4>2, <3>1 DEF JoinInv, Joinable
        <5>4. startFailed \subseteq startFailed'
          BY <2>6 DEF StartOne
        <5> QED BY <5>2, <5>3, <5>4
      <4> QED BY <4>1, <4>2, <2>a
    <3> QED BY <3>4, <3>5
  <2>7. CASE StartEnd
    <3>1. \A k \in 1..Len(mRunning) : k < call.i
      BY <2>7, <2>a DEF StartEnd
    <3>2. call.op = "start" /\ call'.op = "idle"
      BY <2>7, <2>b DEF StartEnd
    <3> QED BY <2>7, <3>1, <3>2 DEF StartEnd, Joinable, JoinInv, KilledOnlyForCause
  <2>8. ASSUME NEW c \in Collectors, Sampler(c)
        PROVE  JoinInv' /\ KilledOnlyForCause'
    <3>1. /\ UNCHANGED <<call, running, mRunning, mIsThreaded, outcome, startFailed>>
          /\ \A d \in Collectors : thread[d] # "none" => thread'[d] # "none"
      BY <2>8, <2>a DEF Sampler, SamplerTest, SamplerCollect, SamplerNap
    <3> QED BY <3>1, <2>a DEF Joinable, JoinInv, KilledOnlyForCause
  <2>9. CASE Collect
    BY <2>9 DEF Collect, Joinable, JoinInv, KilledOnlyForCause
  <2>10. CASE SummarizeBegin
    BY <2>10, <2>b DEF SummarizeBegin, Joinable, JoinInv, KilledOnlyForCause, Ops
  <2>11. CASE SummarizeOne
    <3>1. outcome' \in {"ok", "div_by_zero", "data_race"} /\ call'.op = "summarize"
      BY <2>11, <2>b DEF SummarizeOne, SummarizeLists
    <3>2. mCollectors[call.i] \in Collectors
      BY <2>11, <2>a, RegisteredIsCollector DEF SummarizeOne
    <3>3. outcome' = "data_race" => running
      BY <2>11, <3>2 DEF SummarizeOne, SummarizeLists, SamplerInv
    <3> QED BY <2>11, <3>1, <3>3 DEF SummarizeOne, Joinable, JoinInv, KilledOnlyForCause
  <2>12. CASE SummarizeEnd
    BY <2>12, <2>b DEF SummarizeEnd, Joinable, JoinInv, KilledOnlyForCause
  <2>13. CASE StopBegin
    BY <2>13, <2>b DEF StopBegin, Joinable, JoinInv, KilledOnlyForCause, Ops
  <2>14. CASE SignalOne
    BY <2>14, <2>b DEF SignalOne, Joinable, JoinInv, KilledOnlyForCause
  <2>15. CASE SignalEnd
    BY <2>15, <2>b DEF SignalEnd, Joinable, JoinInv, KilledOnlyForCause, PhaseInv, Ops
  <2>16. CASE JoinThrows
    <3>1. call.i \in 1..Len(mRunning) /\ Current = mRunning[call.i]
      BY <2>16, <2>a DEF JoinThrows, Current
    <3>2. Joinable(call.i)
      BY <2>16, <2>a DEF JoinThrows, Joinable, PhaseInv
    <3>3. Current \in startFailed
      BY <2>16, <3>1, <3>2 DEF JoinThrows, JoinInv
    <3> QED BY <2>16, <3>3 DEF JoinThrows, JoinInv, KilledOnlyForCause
  <2>17. CASE JoinOne
    <3>1. /\ call.op = "join" /\ call'.op = "join" /\ call'.i = call.i + 1
          /\ UNCHANGED <<running, mRunning, mIsThreaded, startFailed>>
          /\ outcome = "ok" /\ outcome' \in {"ok", "out_of_range"}
      BY <2>17, <2>b DEF JoinOne, PostprocessOf
    <3>2. call.i \in 1..Len(mRunning) /\ Current = mRunning[call.i] /\ Current \in Collectors
      BY <2>17, <2>a DEF JoinOne, Current
    <3>3. JoinInv'
      <4> SUFFICES ASSUME NEW k \in 1..Len(mRunning), running, call.i + 1 <= k,
                          mIsThreaded[mRunning[k]]
                   PROVE  thread'[mRunning[k]] # "none" \/ mRunning[k] \in startFailed
        BY <3>1 DEF JoinInv, Joinable
      <4>1. mRunning[k] # Current
        BY <3>2, <2>a, <2>c DEF DistinctInv, RunningDistinct
      <4>2. thread'[mRunning[k]] = thread[mRunning[k]]
        BY <2>17, <4>1, <3>2, <2>a DEF JoinOne, Join
      <4>3. Joinable(k)
        BY <2>a DEF Joinable
      <4> QED BY <4>2, <4>3, <3>1 DEF JoinInv
    <3> QED BY <3>1, <3>3 DEF KilledOnlyForCause
  <2>18. CASE StopEnd
    BY <2>18, <2>b DEF StopEnd, Joinable, JoinInv, KilledOnlyForCause
  <2>19. CASE Destroy
    <3>1. (\E c \in Collectors : thread[c] # "none") => running
      BY <2>19 DEF Destroy, SamplerInv
    <3> QED BY <2>19, <3>1 DEF Destroy, JoinInv, KilledOnlyForCause
  <2>20. CASE UNCHANGED vars
    BY <2>20 DEF vars, Joinable, JoinInv, KilledOnlyForCause
  <2> QED
    BY <2>1, <2>2, <2>3, <2>4, <2>5, <2>6, <2>7, <2>8, <2>9, <2>10, <2>11, <2>12, <2>13,
       <2>14, <2>15, <2>16, <2>17, <2>18, <2>19, <2>20 DEF Next, InCall, Ended
<1> QED
  BY <1>1, <1>2, TypeCorrect, SamplerInvariant, DistinctInvariant, PTL DEF Spec

-------------------------------------------------------------------------------
(* What stop() waits for has been told to finish.                              *)

(* How a step moves the client's position. *)
LEMMA Moves ==
  ASSUME TypeOK
  PROVE  /\ call.i \in Nat \ {0} /\ mRunning \in Seq(Collectors) /\ Len(mRunning) \in Nat
         /\ \A k \in 1..Len(mRunning) : mRunning[k] \in Collectors
         /\ DOMAIN mRunning = 1..Len(mRunning)
         /\ Advance => call'.op = call.op /\ call'.i = call.i + 1
         /\ Return => call'.op = "idle"
         /\ \A op \in Ops : Enter(op) => call'.op = op /\ call'.i = 1
<1>1. /\ Advance => call'.op = call.op /\ call'.i = call.i + 1
      /\ Return => call'.op = "idle"
      /\ \A op \in Ops : Enter(op) => call'.op = op /\ call'.i = 1
  BY DEF Advance, Return, Enter, Positions, TypeOK
<1>2. /\ call.i \in Nat \ {0} /\ mRunning \in Seq(Collectors) /\ Len(mRunning) \in Nat
      /\ \A k \in 1..Len(mRunning) : mRunning[k] \in Collectors
      /\ DOMAIN mRunning = 1..Len(mRunning)
  BY DEF TypeOK, Positions
<1> QED BY <1>1, <1>2

\* Only a threaded collector has a sampler; stop() has set finished for those it has passed
\* in its first loop, for all of them in its second.
SignalInv ==
  /\ \A c \in Collectors : thread[c] # "none" => mIsThreaded[c]
  /\ call.op = "signal" => \A k \in 1..Len(mRunning) :
        k < call.i /\ mIsThreaded[mRunning[k]] => finished[mRunning[k]]
  /\ call.op = "join" => \A c \in Collectors : thread[c] # "none" => finished[c]

(* SignalInv is preserved. *)
LEMMA SignalInvariant == Spec => []SignalInv
<1>1. Init => SignalInv
  BY DEF Init, SignalInv
<1>2. TypeOK /\ TypeOK' /\ PhaseInv /\ SamplerInv /\ SignalInv /\ [Next]_vars => SignalInv'
  <2> SUFFICES ASSUME TypeOK, TypeOK', PhaseInv, SamplerInv, SignalInv, [Next]_vars
               PROVE  SignalInv'
    OBVIOUS
  <2>1. /\ thread \in [Collectors -> ThreadStates] /\ mIsThreaded \in [Collectors -> BOOLEAN]
        /\ finished \in [Collectors -> BOOLEAN]
    BY DEF TypeOK
  <2>2. CASE /\ UNCHANGED <<thread, finished, mIsThreaded, mRunning>>
             /\ call' = call \/ call'.op \notin {"signal", "join"}
    BY <2>2 DEF SignalInv
  <2>3. InitializeBegin \/ InitializeEnd \/ StartBegin \/ StartEnd \/ Collect \/ SummarizeBegin
          \/ SummarizeOne \/ SummarizeEnd \/ JoinThrows \/ Destroy \/ Ended \/ UNCHANGED vars
        => /\ UNCHANGED <<thread, finished, mIsThreaded, mRunning>>
           /\ call' = call \/ call'.op \notin {"signal", "join"}
    BY Moves DEF InitializeBegin, InitializeEnd, StartBegin, StartEnd, Collect, SummarizeBegin,
       SummarizeOne, SummarizeEnd, JoinThrows, Destroy, Ended, vars, Ops
  <2>4. CASE InitializeOne
    <3>1. UNCHANGED <<thread, finished>> /\ call'.op \in {"initialize", "idle"} /\ ~running
      BY <2>4, Moves DEF InitializeOne, InitializeCollector, InitializeFailed, PhaseInv
    <3>2. call.op = "initialize"
      BY <2>4 DEF InitializeOne
    <3>3. \A c \in Collectors : thread[c] = "none"
      BY <3>1, <3>2 DEF SamplerInv
    <3> QED BY <3>1, <3>3 DEF SignalInv
  <2>5. ASSUME NEW c \in ClientThreaded, UseThreading(c) PROVE SignalInv'
    <3>1. /\ UNCHANGED <<thread, finished, mRunning, call>> /\ call.op = "idle"
          /\ \A d \in Collectors : mIsThreaded[d] => mIsThreaded'[d]
      BY <2>5, <2>1 DEF UseThreading
    <3> QED BY <3>1 DEF SignalInv
  <2>6. CASE StartOne
    <3>1. call'.op = "start" /\ UNCHANGED mIsThreaded /\ Current \in Collectors
      BY <2>6, Moves, CurrentType DEF StartOne
    <3>2. \A c \in Collectors : thread'[c] # "none" => thread[c] # "none" \/ mIsThreaded[c]
      BY <2>6, <2>1, <3>1 DEF StartOne, SpawnSampler
    <3> QED BY <3>1, <3>2 DEF SignalInv
  <2>7. ASSUME NEW c \in Collectors, Sampler(c) PROVE SignalInv'
    <3>1. /\ UNCHANGED <<call, mRunning, mIsThreaded, finished>>
          /\ \A d \in Collectors : thread'[d] # "none" => thread[d] # "none"
      BY <2>7, <2>1 DEF Sampler, SamplerTest, SamplerCollect, SamplerNap
    <3> QED BY <3>1 DEF SignalInv
  <2>8. CASE StopBegin
    <3>1. call'.op = "signal" /\ call'.i = 1 /\ UNCHANGED <<thread, mIsThreaded, mRunning>>
      BY <2>8, Moves DEF StopBegin, Ops
    <3> QED BY <3>1, Moves DEF SignalInv
  <2>9. CASE SignalOne
    <3>1. /\ call.op = "signal" /\ call'.op = "signal" /\ call'.i = call.i + 1
          /\ UNCHANGED <<thread, mIsThreaded, mRunning>>
          /\ Current = mRunning[call.i] /\ Current \in Collectors /\ call.i \in 1..Len(mRunning)
      BY <2>9, Moves, CurrentType DEF SignalOne, Current
    <3>2. /\ mIsThreaded[Current] => finished'[Current]
          /\ \A c \in Collectors : finished[c] => finished'[c]
      BY <2>9, <2>1, <3>1 DEF SignalOne, Signalled
    <3>3. ASSUME NEW k \in 1..Len(mRunning), k < call.i + 1, mIsThreaded[mRunning[k]]
          PROVE  finished'[mRunning[k]]
      <4>1. k < call.i \/ k = call.i
        BY <3>3, Moves
      <4> QED BY <3>1, <3>2, <3>3, <4>1, Moves DEF SignalInv
    <3> QED BY <3>1, <3>3 DEF SignalInv
  <2>10. CASE SignalEnd
    <3>1. /\ call.op = "signal" /\ call'.op = "join" /\ call.i > Len(mRunning)
          /\ UNCHANGED <<thread, finished, mIsThreaded, mRunning>>
      BY <2>10, Moves DEF SignalEnd, Ops
    <3>2. ASSUME NEW c \in Collectors, thread[c] # "none" PROVE finished[c]
      <4>1. PICK k \in 1..Len(mRunning) : mRunning[k] = c
        BY <3>2 DEF SamplerInv
      <4>2. k < call.i
        BY <3>1, Moves
      <4> QED BY <3>1, <3>2, <4>1, <4>2 DEF SignalInv
    <3> QED BY <3>1, <3>2 DEF SignalInv
  <2>11. CASE JoinOne
    <3>1. /\ call.op = "join" /\ call'.op = "join" /\ UNCHANGED <<finished, mIsThreaded>>
          /\ Current \in Collectors
      BY <2>11, Moves, CurrentType DEF JoinOne
    <3>2. \A c \in Collectors : thread'[c] # "none" => thread[c] # "none"
      BY <2>11, <2>1, <3>1 DEF JoinOne, Join
    <3> QED BY <3>1, <3>2 DEF SignalInv
  <2>12. CASE StopEnd
    <3>1. call'.op = "idle" /\ UNCHANGED <<thread, mIsThreaded>>
      BY <2>12, Moves DEF StopEnd
    <3> QED BY <3>1 DEF SignalInv
  <2> QED BY <2>2, <2>3, <2>4, <2>5, <2>6, <2>7, <2>8, <2>9, <2>10, <2>11, <2>12 DEF Next, InCall
<1> QED BY <1>1, <1>2, TypeCorrect, SamplerInvariant, PTL DEF Spec

(* While stop() joins, no sampler begins another sample: all of them have been *)
(* told to finish before the first join (interface.cpp:422).                   *)
THEOREM NoSampleBegunWhileJoiningHolds == Spec => NoSampleBegunWhileJoining
<1>1. TypeOK /\ SignalInv /\ [Next]_vars =>
        [\A c \in Collectors :
           call.op = "join" /\ thread[c] # "collect" => thread'[c] # "collect"]_vars
  <2> SUFFICES ASSUME TypeOK, SignalInv, [Next]_vars, NEW c \in Collectors, call.op = "join",
                      thread[c] # "collect"
               PROVE  thread'[c] # "collect"
    OBVIOUS
  <2>1. thread \in [Collectors -> ThreadStates]
    BY DEF TypeOK
  <2>2. ASSUME NEW d \in Collectors, Sampler(d) PROVE thread'[c] # "collect"
    BY <2>1, <2>2 DEF Sampler, SamplerTest, SamplerCollect, SamplerNap, SignalInv
  <2>3. CASE JoinOne
    BY <2>1, <2>3 DEF JoinOne, Join
  <2>4. CASE JoinThrows \/ StopEnd \/ Ended \/ UNCHANGED vars
    BY <2>4 DEF JoinThrows, StopEnd, Ended, vars
  <2> QED BY <2>2, <2>3, <2>4
          DEF Next, InCall, InitializeBegin, StartBegin, Collect, SummarizeBegin, StopBegin,
              Destroy, UseThreading, InitializeOne, InitializeEnd, StartOne, StartEnd,
              SummarizeOne, SummarizeEnd, SignalOne, SignalEnd
<1> QED BY <1>1, TypeCorrect, SignalInvariant, PTL DEF Spec, NoSampleBegunWhileJoining

-------------------------------------------------------------------------------
(* The values of a session.                                                    *)

\* The collectors start() has passed.
InSession(k) == running \/ (call.op = "start" /\ k < call.i)

FreshInv ==
  \A k \in 1..Len(mRunning) : InSession(k) =>
     \A s \in SlotsOf(mRunning[k]) : \A a \in 1..Len(list[s]) : list[s][a] = session

(* What a step may do to the lists within a session: a list keeps values it    *)
(* had, gets one of this session, or is emptied.                               *)
OldOrNew(old, new) ==
  \A a \in 1..Len(new) : new[a] = session \/ \E b \in 1..Len(old) : new[a] = old[b]

(* A remixed list only repeats values of the list. *)
LEMMA RemixOld ==
  ASSUME NEW S, NEW T, NEW timing \in Seq(T), NEW l \in Seq(S), NEW nan,
         RemixDefined(timing, Len(l), nan)
  PROVE  /\ OldOrNew(l, Remix(timing, l, nan))
         /\ Len(Remix(timing, l, nan)) = Len(timing)
<1>1. \A i \in 1..Len(timing) : RemixIndex(timing, Len(l), i, nan) + 1 \in 1..Len(l)
  BY DEF RemixDefined
<1>2. Len(Remix(timing, l, nan)) = Len(timing)
  BY DEF Remix
<1>3. ASSUME NEW a \in 1..Len(timing)
      PROVE  \E b \in 1..Len(l) : Remix(timing, l, nan)[a] = l[b]
  BY <1>1 DEF Remix
<1> QED BY <1>2, <1>3 DEF OldOrNew

(* What stop() does to the lists of the collector it has joined. *)
LEMMA Postprocessed ==
  ASSUME TypeOK, NEW c \in Collectors, PostprocessOf(c)
  PROVE  /\ \A s \in Slots : s \notin SlotsOf(c) => list'[s] = list[s]
         /\ \A s \in Slots : OldOrNew(list[s], list'[s])
         /\ \/ /\ tmp' = Append(tmp, c)
               /\ \/ list' = list /\ ~(mIsThreaded[c] /\ ~mIsSummarized[c])
                  \/ /\ mIsThreaded[c]
                     /\ \A s \in MadeSlots(c) : Len(list'[s]) = Len(mTiming)
            \/ /\ tmp' = tmp /\ list' = list /\ mIsThreaded[c] /\ ~mIsSummarized[c]
               /\ \E s \in MadeSlots(c) : list[s] = <<>>
            \/ tmp' = tmp /\ list' = list /\ outcome' = "out_of_range"
<1> DEFINE remixed == mIsThreaded[c] /\ ~mIsSummarized[c]
<1>1. \A s \in Slots : OldOrNew(list[s], list[s])
  BY DEF OldOrNew
<1>2. CASE ~remixed /\ tmp' = Append(tmp, c) /\ UNCHANGED <<list, outcome>>
  BY <1>1, <1>2
<1>3. CASE remixed /\ (\E s \in MadeSlots(c) : list[s] = <<>>) /\ UNCHANGED <<tmp, list, outcome>>
  BY <1>1, <1>3
<1>4. ASSUME NEW nan \in NaNIndices, remixed, tmp' = Append(tmp, c),
             \A s \in MadeSlots(c) : RemixDefined(mTiming, Len(list[s]), nan),
             list' = [s \in Slots |-> IF s \in MadeSlots(c)
                                     THEN Remix(mTiming, list[s], nan) ELSE list[s]]
      PROVE  /\ \A s \in Slots : s \notin SlotsOf(c) => list'[s] = list[s]
             /\ \A s \in Slots : OldOrNew(list[s], list'[s])
             /\ \A s \in MadeSlots(c) : Len(list'[s]) = Len(mTiming)
  <2>1. list \in [Slots -> Seq(Stamp)] /\ mTiming \in Seq(FrameTimes)
    BY DEF TypeOK
  <2>2. MadeSlots(c) \subseteq SlotsOf(c) /\ MadeSlots(c) \subseteq Slots
    BY SlotOwner DEF MadeSlots
  <2>3. ASSUME NEW s \in MadeSlots(c)
        PROVE  OldOrNew(list[s], list'[s]) /\ Len(list'[s]) = Len(mTiming)
    <3>1. list[s] \in Seq(Stamp) /\ RemixDefined(mTiming, Len(list[s]), nan)
      BY <1>4, <2>1, <2>2
    <3>2. list'[s] = Remix(mTiming, list[s], nan)
      BY <1>4, <2>2
    <3> QED BY <2>1, <3>1, <3>2, RemixOld
  <2>4. \A s \in Slots : s \notin MadeSlots(c) => list'[s] = list[s]
    BY <1>4
  <2> QED BY <1>1, <2>2, <2>3, <2>4
<1>5. CASE outcome' = "out_of_range" /\ UNCHANGED <<tmp, list>>
  BY <1>1, <1>5
<1> QED BY <1>2, <1>3, <1>4, <1>5 DEF PostprocessOf

(* FreshInv is preserved. *)
LEMMA FreshInvariant == Spec => []FreshInv
<1>1. Init => FreshInv
  BY DEF Init, FreshInv
<1>2. TypeOK /\ TypeOK' /\ PhaseInv /\ FreshInv /\ [Next]_vars => FreshInv'
  <2> SUFFICES ASSUME TypeOK, TypeOK', PhaseInv, FreshInv, [Next]_vars PROVE FreshInv'
    OBVIOUS
  <2>1. /\ list \in [Slots -> Seq(Stamp)] /\ list' \in [Slots -> Seq(Stamp)]
        /\ made \in [Slots -> Stamp] /\ summaries \in [Slots -> Seq(Stamp)]
        /\ \A s \in Slots : list[s] \in Seq(Stamp) /\ Len(list[s]) \in Nat
        /\ session \in Stamp
    BY DEF TypeOK
  <2>2. ASSUME UNCHANGED <<mRunning, session>>,
               \A k \in 1..Len(mRunning) : InSession(k)' => InSession(k),
               \A s \in Slots : OldOrNew(list[s], list'[s])
        PROVE  FreshInv'
    <3> SUFFICES ASSUME NEW k \in 1..Len(mRunning), InSession(k)',
                        NEW s \in SlotsOf(mRunning[k]), NEW a \in 1..Len(list'[s])
                 PROVE  list'[s][a] = session
      BY <2>2 DEF FreshInv
    <3>1. s \in Slots
      BY Moves, SlotOwner
    <3>2. \A b \in 1..Len(list[s]) : list[s][b] = session
      BY <2>2 DEF FreshInv
    <3> QED BY <2>2, <3>1, <3>2 DEF OldOrNew
  <2>3. \A s \in Slots : list'[s] = list[s] => OldOrNew(list[s], list'[s])
    BY DEF OldOrNew
  <2>4. \A s \in Slots : list'[s] = Append(list[s], session) => OldOrNew(list[s], list'[s])
    BY <2>1 DEF OldOrNew
  <2>5. \A s \in Slots : list'[s] = <<>> => OldOrNew(list[s], list'[s])
    BY DEF OldOrNew
  <2>6. InitializeEnd \/ SummarizeBegin \/ SummarizeEnd \/ StopBegin \/ SignalOne
          \/ SignalEnd \/ JoinThrows \/ Destroy \/ Ended \/ UNCHANGED vars \/ StartEnd
        => UNCHANGED <<mRunning, session, list>>
    BY DEF InitializeEnd, SummarizeBegin, SummarizeEnd, StopBegin, SignalOne, SignalEnd,
       JoinThrows, Destroy, Ended, vars, StartEnd
  <2>7. CASE InitializeEnd \/ SummarizeBegin \/ SummarizeEnd \/ StopBegin \/ SignalOne
               \/ SignalEnd \/ JoinThrows \/ Destroy \/ Ended \/ UNCHANGED vars
    <3>1. UNCHANGED running /\ (call' = call \/ call'.op # "start")
      BY <2>7, Moves DEF InitializeEnd, SummarizeBegin, SummarizeEnd, StopBegin, SignalOne,
         SignalEnd, JoinThrows, Destroy, Ended, vars, Ops
    <3>2. \A k \in 1..Len(mRunning) : InSession(k)' => InSession(k)
      BY <3>1 DEF InSession
    <3> QED BY <2>2, <2>3, <2>6, <2>7, <3>2
  <2>8. CASE InitializeBegin \/ InitializeOne \/ StopEnd
    <3>1. ~running' /\ call'.op # "start"
      BY <2>8, Moves DEF InitializeBegin, InitializeOne, InitializeCollector, InitializeFailed,
         StopEnd, PhaseInv, Ops
    <3> QED BY <3>1 DEF FreshInv, InSession
  <2>9. ASSUME NEW c \in ClientThreaded, UseThreading(c) PROVE FreshInv'
    BY <2>9 DEF UseThreading, FreshInv, InSession
  <2>10. CASE StartBegin
    <3>1. ~running' /\ call'.i = 1 /\ UNCHANGED mRunning
      BY <2>10, Moves DEF StartBegin, Ops
    <3> QED BY <3>1 DEF FreshInv, InSession
  <2>11. CASE StartOne
    <3>1. /\ call.op = "start" /\ call'.op = "start" /\ call'.i = call.i + 1
          /\ UNCHANGED <<running, mRunning, session>> /\ ~running
          /\ call.i \in 1..Len(mRunning) /\ Current = mRunning[call.i] /\ Current \in Collectors
      BY <2>11, Moves, CurrentType DEF StartOne, Current, PhaseInv
    <3>2. /\ \A s \in SlotsOf(Current) : list'[s] = <<>>
          /\ \A s \in Slots : s \notin SlotsOf(Current) => list'[s] = list[s]
      BY <2>11, <2>1, <3>1, SlotOwner DEF StartOne, Cleared
    <3>3. ASSUME NEW k \in 1..Len(mRunning), k < call.i + 1,
                 NEW s \in SlotsOf(mRunning[k]), NEW a \in 1..Len(list'[s])
          PROVE  list'[s][a] = session
      <4>1. s \notin SlotsOf(Current)
        BY <3>2, <3>3
      <4>2. k < call.i /\ list'[s] = list[s]
        BY <3>1, <3>2, <3>3, <4>1, Moves, SlotOwner
      <4> QED BY <3>1, <3>3, <4>2 DEF FreshInv, InSession
    <3> QED BY <3>1, <3>3 DEF FreshInv, InSession
  <2>12. CASE StartEnd
    <3>1. \A k \in 1..Len(mRunning) : InSession(k)
      BY <2>12, Moves DEF StartEnd, InSession
    <3> QED BY <2>2, <2>3, <2>6, <2>12, <3>1
  <2>13. ASSUME NEW c \in Collectors, Sampler(c) PROVE FreshInv'
    <3>1. UNCHANGED <<mRunning, session, running, call>>
      BY <2>13 DEF Sampler, SamplerTest, SamplerCollect, SamplerNap
    <3>2. \A s \in Slots : list'[s] = list[s] \/ list'[s] = Append(list[s], session)
      <4>1. (\E slots : Record(slots)) \/ UNCHANGED list
        BY <2>13 DEF Sampler, SamplerTest, SamplerCollect, SamplerNap
      <4> QED BY <2>1, <4>1, Recorded
    <3> QED BY <2>2, <2>3, <2>4, <3>1, <3>2 DEF InSession
  <2>14. CASE Collect
    <3>1. UNCHANGED <<mRunning, session, running, call>>
      BY <2>14 DEF Collect
    <3>2. \A s \in Slots : list'[s] = list[s] \/ list'[s] = Append(list[s], session)
      <4>1. \E slots : Record(slots)
        BY <2>14 DEF Collect
      <4> QED BY <2>1, <4>1, Recorded
    <3> QED BY <2>2, <2>3, <2>4, <3>1, <3>2 DEF InSession
  <2>15. CASE SummarizeOne
    <3>1. UNCHANGED <<mRunning, session, running>> /\ call'.op = call.op /\ call.op = "summarize"
      BY <2>15, Moves DEF SummarizeOne
    <3>2. mCollectors[call.i] \in Collectors
      BY <2>15, Moves, RegisteredIsCollector DEF SummarizeOne
    <3>3. \A s \in Slots : list'[s] = list[s] \/ list'[s] = <<>>
      BY <2>1, <2>15, <3>2, Summarized DEF SummarizeOne
    <3> QED BY <2>2, <2>3, <2>5, <3>1, <3>3 DEF InSession
  <2>16. CASE JoinOne
    <3>1. UNCHANGED <<mRunning, session, running>> /\ call'.op = call.op /\ call.op = "join"
      BY <2>16, Moves DEF JoinOne
    <3>2. Current \in Collectors /\ PostprocessOf(Current)
      BY <2>16, CurrentType DEF JoinOne
    <3>3. \A s \in Slots : OldOrNew(list[s], list'[s])
      BY <2>3, <3>2, Postprocessed
    <3> QED BY <2>2, <3>1, <3>3 DEF InSession
  <2> QED BY <2>7, <2>8, <2>9, <2>10, <2>11, <2>12, <2>13, <2>14, <2>15, <2>16 DEF Next, InCall
<1> QED BY <1>1, <1>2, TypeCorrect, SamplerInvariant, PTL DEF Spec

(* While a session runs, the values of its collectors are of this session, for *)
(* any collectors and however their samplers overlap start() and stop().       *)
THEOREM FreshListsHolds == Spec => []FreshLists
<1>1. TypeOK /\ FreshInv => FreshLists
  <2> SUFFICES ASSUME TypeOK, FreshInv, running, NEW c \in ElementsOf(mRunning),
                      NEW s \in SlotsOf(c), NEW v \in ElementsOf(list[s])
               PROVE  v = session
    BY DEF FreshLists
  <2>1. PICK k \in 1..Len(mRunning) : mRunning[k] = c
    BY Moves DEF ElementsOf
  <2>2. s \in Slots /\ list[s] \in Seq(Stamp)
    BY <2>1, Moves, SlotOwner DEF TypeOK
  <2>3. PICK a \in 1..Len(list[s]) : list[s][a] = v
    BY <2>2 DEF ElementsOf
  <2> QED BY <2>1, <2>3 DEF FreshInv, InSession
<1> QED BY <1>1, TypeCorrect, FreshInvariant, PTL

-------------------------------------------------------------------------------
(* The collectors stop() keeps: of those it has passed, all but the threaded   *)
(* ones with an empty list under an old key, in their order.                   *)

\* The collectors start() has passed and stop() has not joined.
Pending(k) == InSession(k) /\ (call.op = "join" => call.i <= k)

\* No key is of a later session, and until stop() has joined a collector, a key that the
\* running session has made has a value.
KeysInv ==
  /\ \A s \in Slots : made[s] <= session
  /\ \A k \in 1..Len(mRunning) : \A s \in SlotsOf(mRunning[k]) :
       made[s] = session /\ ~mIsSummarized[mRunning[k]] =>
         /\ call.op = "start" => k < call.i
         /\ Pending(k) => list[s] # <<>>

\* What drops a collector.
OldKeyEmpty(c) ==
  /\ mIsThreaded[c] /\ ~mIsSummarized[c]
  /\ \E s \in SlotsOf(c) : list[s] = <<>> /\ made[s] \in 1..session - 1

DropInv ==
  call.op = "join" =>
     /\ \A k \in 1..Len(mRunning) : k < call.i =>
          \/ \E a \in 1..Len(tmp) : tmp[a] = mRunning[k]
          \/ OldKeyEmpty(mRunning[k])
          \/ outcome = "out_of_range"
     /\ \A a, b \in 1..Len(tmp) : a < b =>
          \E k, l \in 1..Len(mRunning) :
             k < l /\ l < call.i /\ tmp[a] = mRunning[k] /\ tmp[b] = mRunning[l]

(* KeysInv is preserved. *)
LEMMA KeysInvariant == Spec => []KeysInv
<1>1. Init => KeysInv
  <2> SUFFICES ASSUME Init PROVE KeysInv
    OBVIOUS
  <2>1. \A s \in Slots : made[s] = 0 /\ session = 0
    BY DEF Init
  <2>2. Len(mRunning) = 0
    BY DEF Init
  <2> QED BY <2>1, <2>2 DEF KeysInv
<1>2. TypeOK /\ PhaseInv /\ SamplerInv /\ DistinctInv /\ KeysInv /\ [Next]_vars => KeysInv'
  <2> SUFFICES ASSUME TypeOK, PhaseInv, SamplerInv, DistinctInv, KeysInv, [Next]_vars
               PROVE  KeysInv'
    OBVIOUS
  <2>1. /\ list \in [Slots -> Seq(Stamp)] /\ made \in [Slots -> Stamp] /\ session \in Stamp
        /\ summaries \in [Slots -> Seq(Stamp)] /\ session \in Nat
        /\ mIsSummarized \in [Collectors -> BOOLEAN] /\ \A s \in Slots : made[s] \in Nat
    BY BoundsAssumption DEF TypeOK, Stamp
  <2>2. \A k \in 1..Len(mRunning) : \A s \in SlotsOf(mRunning[k]) : s \in Slots
    BY Moves, SlotOwner
  <2>3. \A j, k \in 1..Len(mRunning) : \A s \in SlotsOf(mRunning[j]) :
          s \in SlotsOf(mRunning[k]) => j = k
    BY Moves, SlotOwner DEF DistinctInv, RunningDistinct
  <2>4. ASSUME UNCHANGED <<list, made, session, mIsSummarized, mRunning>>,
               \A k \in 1..Len(mRunning) : Pending(k)' => Pending(k),
               call'.op = "start" => call' = call
        PROVE  KeysInv'
    BY <2>4 DEF KeysInv
  <2>5. CASE InitializeEnd \/ SummarizeBegin \/ SummarizeEnd \/ StopBegin \/ SignalOne
               \/ SignalEnd
    <3>1. /\ UNCHANGED <<list, made, session, mIsSummarized, mRunning, running>>
          /\ call.op # "join" /\ call'.op # "start"
      BY <2>5, Moves DEF InitializeEnd, SummarizeBegin, SummarizeEnd, StopBegin, SignalOne,
         SignalEnd, Ops
    <3>2. \A k \in 1..Len(mRunning) : Pending(k)' => Pending(k)
      BY <3>1 DEF Pending, InSession
    <3> QED BY <2>4, <3>1, <3>2
  <2>6. CASE JoinThrows \/ Destroy \/ Ended \/ UNCHANGED vars
               \/ \E c \in ClientThreaded : UseThreading(c)
    <3>1. UNCHANGED <<list, made, session, mIsSummarized, mRunning, running, call>>
      BY <2>6 DEF JoinThrows, Destroy, Ended, UseThreading, vars
    <3>2. \A k \in 1..Len(mRunning) : Pending(k)' => Pending(k)
      BY <3>1 DEF Pending, InSession
    <3> QED BY <2>4, <3>1, <3>2
  <2>7. CASE StartEnd
    <3>1. /\ UNCHANGED <<list, made, session, mIsSummarized, mRunning>>
          /\ call.op = "start" /\ call'.op = "idle" /\ \A k \in 1..Len(mRunning) : k < call.i
      BY <2>7, Moves DEF StartEnd
    <3>2. \A k \in 1..Len(mRunning) : Pending(k)
      BY <3>1 DEF Pending, InSession
    <3> QED BY <2>4, <3>1, <3>2
  <2>8. CASE InitializeBegin \/ InitializeOne \/ StopEnd
    <3>1. UNCHANGED <<made, session>> /\ ~running' /\ call'.op # "start"
      BY <2>8, Moves DEF InitializeBegin, InitializeOne, InitializeCollector, InitializeFailed,
         StopEnd, PhaseInv, Ops
    <3> QED BY <3>1 DEF KeysInv, Pending, InSession
  <2>9. CASE StartBegin
    <3>1. session' = session + 1 /\ UNCHANGED <<made, mRunning>>
      BY <2>9 DEF StartBegin
    <3>2. \A s \in Slots : made[s] <= session' /\ made[s] # session'
      BY <2>1, <3>1 DEF KeysInv
    <3> QED BY <2>2, <3>1, <3>2 DEF KeysInv
  <2>10. CASE StartOne
    <3>1. /\ call.op = "start" /\ call'.op = "start" /\ call'.i = call.i + 1
          /\ UNCHANGED <<mRunning, made, session, mIsSummarized>>
          /\ call.i \in 1..Len(mRunning) /\ Current = mRunning[call.i] /\ Current \in Collectors
      BY <2>10, Moves, CurrentType DEF StartOne, Current
    <3>2. \A s \in Slots : s \notin SlotsOf(Current) => list'[s] = list[s]
      BY <2>1, <2>10, <3>1 DEF StartOne, Cleared
    <3>3. ASSUME NEW k \in 1..Len(mRunning), NEW s \in SlotsOf(mRunning[k]),
                 made[s] = session, ~mIsSummarized[mRunning[k]]
          PROVE  k < call.i + 1 /\ list'[s] # <<>>
      <4>1. k < call.i
        BY <3>1, <3>3 DEF KeysInv
      <4>2. list[s] # <<>>
        BY <3>1, <3>3, <4>1 DEF KeysInv, Pending, InSession
      <4>3. s \notin SlotsOf(Current)
        BY <2>3, <3>1, <4>1, Moves
      <4> QED BY <2>2, <3>2, <4>1, <4>2, <4>3, Moves
    <3> QED BY <3>1, <3>3 DEF KeysInv
  <2>11. ASSUME NEW slots, Record(slots),
                UNCHANGED <<mRunning, session, mIsSummarized, running, call>>,
                call.op = "start" => \A k \in 1..Len(mRunning) : \A s \in SlotsOf(mRunning[k]) :
                                        s \in slots => k < call.i
         PROVE  KeysInv'
    <3>1. \A s \in Slots : s \in slots => list'[s] # <<>>
      <4>1. \A s \in Slots : Append(list[s], session) # <<>>
        <5> SUFFICES ASSUME NEW s \in Slots PROVE Append(list[s], session) # <<>>
          OBVIOUS
        <5>1. list[s] \in Seq(Stamp) /\ session \in Stamp
          BY <2>1
        <5>2. Len(Append(list[s], session)) = Len(list[s]) + 1 /\ Len(list[s]) \in Nat
          BY <5>1
        <5> QED BY <5>2
      <4> QED BY <2>1, <2>11, <4>1, Recorded
    <3>2. /\ \A s \in Slots : s \notin slots => list'[s] = list[s] /\ made'[s] = made[s]
          /\ \A s \in Slots : made'[s] = made[s] \/ made'[s] = session
      BY <2>1, <2>11, Recorded
    <3>3. \A s \in Slots : made'[s] <= session
      <4> SUFFICES ASSUME NEW s \in Slots PROVE made'[s] <= session
        OBVIOUS
      <4>1. made[s] <= session
        BY DEF KeysInv
      <4>2. made'[s] = made[s] \/ made'[s] = session
        BY <3>2
      <4>3. session <= session
        BY <2>1
      <4> QED BY <4>1, <4>2, <4>3
    <3>4. ASSUME NEW k \in 1..Len(mRunning), NEW s \in SlotsOf(mRunning[k]),
                 made'[s] = session, ~mIsSummarized[mRunning[k]]
          PROVE  (call.op = "start" => k < call.i) /\ (Pending(k) => list'[s] # <<>>)
      <4>1. CASE s \in slots
        BY <2>2, <2>11, <3>1, <4>1
      <4>2. CASE s \notin slots
        BY <2>2, <3>2, <3>4, <4>2 DEF KeysInv
      <4> QED BY <4>1, <4>2
    <3>5. \A k \in 1..Len(mRunning) : Pending(k)' = Pending(k)
      BY <2>11 DEF Pending, InSession
    <3> QED BY <2>11, <3>3, <3>4, <3>5 DEF KeysInv
  <2>12. CASE Collect
    <3>1. /\ UNCHANGED <<mRunning, session, mIsSummarized, running, call>>
          /\ call.op # "start" /\ \E slots : Record(slots)
      BY <2>12 DEF Collect
    <3> QED BY <2>11, <3>1
  <2>13. ASSUME NEW c \in Collectors, Sampler(c) PROVE KeysInv'
    <3>1. UNCHANGED <<mRunning, session, mIsSummarized, running, call>> /\ thread[c] # "none"
      BY <2>13 DEF Sampler, SamplerTest, SamplerCollect, SamplerNap
    <3>2. CASE UNCHANGED <<list, made>>
      <4>1. \A k \in 1..Len(mRunning) : Pending(k)' => Pending(k)
        BY <3>1 DEF Pending, InSession
      <4> QED BY <2>4, <3>1, <3>2, <4>1
    <3>3. CASE SamplerCollect(c)
      <4>1. PICK slots \in SUBSET SlotsOf(c) : Record(slots)
        BY <3>3 DEF SamplerCollect
      <4>2. ASSUME call.op = "start", NEW k \in 1..Len(mRunning), NEW s \in SlotsOf(mRunning[k]),
                   s \in slots
            PROVE  k < call.i
        <5>1. mRunning[k] = c
          BY <4>2, Moves, SlotOwner
        <5>2. PICK j \in 1..Len(mRunning) : mRunning[j] = c /\ j < call.i
          BY <3>1, <4>2 DEF SamplerInv
        <5>3. j = k
          BY <5>1, <5>2, Moves DEF DistinctInv, RunningDistinct
        <5> QED BY <5>2, <5>3
      <4> QED BY <2>11, <3>1, <4>1, <4>2
    <3> QED BY <2>13, <3>2, <3>3 DEF Sampler, SamplerTest, SamplerNap
  <2>14. CASE SummarizeOne
    <3> DEFINE c == mCollectors[call.i]
    <3>1. /\ c \in Collectors /\ SummarizeLists(c)
          /\ mIsSummarized' = [mIsSummarized EXCEPT ![c] = TRUE]
          /\ UNCHANGED <<mRunning, made, session, running>>
          /\ call.op = "summarize" /\ call'.op = "summarize"
      BY <2>14, Moves, RegisteredIsCollector DEF SummarizeOne
    <3> HIDE DEF c
    <3>2. \A s \in Slots : s \notin SlotsOf(c) => list'[s] = list[s]
      BY <2>1, <3>1, Summarized
    <3>3. ASSUME NEW k \in 1..Len(mRunning), NEW s \in SlotsOf(mRunning[k]), made[s] = session,
                 ~mIsSummarized'[mRunning[k]]
          PROVE  Pending(k)' => list'[s] # <<>>
      <4>1. mRunning[k] # c /\ ~mIsSummarized[mRunning[k]]
        BY <2>1, <3>1, <3>3, Moves
      <4>2. list'[s] = list[s]
        BY <2>2, <3>1, <3>2, <4>1, Moves, SlotOwner
      <4>3. Pending(k)' => Pending(k)
        BY <3>1 DEF Pending, InSession
      <4> QED BY <3>3, <4>1, <4>2, <4>3 DEF KeysInv
    <3> QED BY <3>1, <3>3 DEF KeysInv
  <2>15. CASE JoinOne
    <3>1. /\ call.op = "join" /\ call'.op = "join" /\ call'.i = call.i + 1
          /\ UNCHANGED <<mRunning, made, session, mIsSummarized, running>>
          /\ call.i \in 1..Len(mRunning) /\ Current = mRunning[call.i] /\ Current \in Collectors
          /\ PostprocessOf(Current)
      BY <2>15, Moves, CurrentType DEF JoinOne, Current
    <3>2. \A s \in Slots : s \notin SlotsOf(Current) => list'[s] = list[s]
      BY <3>1, Postprocessed
    <3>3. ASSUME NEW k \in 1..Len(mRunning), NEW s \in SlotsOf(mRunning[k]), made[s] = session,
                 ~mIsSummarized[mRunning[k]], Pending(k)'
          PROVE  list'[s] # <<>>
      <4>1. call.i + 1 <= k /\ Pending(k)
        BY <3>1, <3>3, Moves DEF Pending, InSession
      <4>2. s \notin SlotsOf(Current)
        BY <2>3, <3>1, <4>1, Moves
      <4>3. list'[s] = list[s]
        BY <2>2, <3>2, <4>2
      <4> QED BY <3>3, <4>1, <4>3 DEF KeysInv
    <3> QED BY <3>1, <3>3 DEF KeysInv
  <2> QED BY <2>5, <2>6, <2>7, <2>8, <2>9, <2>10, <2>12, <2>13, <2>14, <2>15 DEF Next, InCall
<1> QED BY <1>1, <1>2, TypeCorrect, SamplerInvariant, DistinctInvariant, PTL DEF Spec

(* A collector that stop() has joined samples no more. *)
LEMMA JoinedIsDone ==
  ASSUME TypeOK, SamplerInv, DistinctInv, call.op = "join",
         NEW k \in 1..Len(mRunning), k < call.i
  PROVE  mRunning[k] \in Collectors /\ thread[mRunning[k]] = "none"
<1>1. mRunning[k] \in Collectors
  BY Moves
<1>2. SUFFICES ASSUME thread[mRunning[k]] # "none" PROVE FALSE
  BY <1>1
<1>3. PICK j \in 1..Len(mRunning) : mRunning[j] = mRunning[k] /\ call.i <= j
  BY <1>1, <1>2 DEF SamplerInv
<1>4. j = k
  BY <1>3, Moves DEF DistinctInv, RunningDistinct
<1> QED BY <1>3, <1>4, Moves

(* An element appended to a sequence. *)
LEMMA AppendedAt ==
  ASSUME NEW S, NEW s \in Seq(S), NEW e \in S
  PROVE  /\ Len(Append(s, e)) = Len(s) + 1 /\ Len(s) \in Nat /\ Append(s, e)[Len(s) + 1] = e
         /\ \A a \in 1..Len(s) : Append(s, e)[a] = s[a]
OBVIOUS

(* DropInv is preserved. *)
LEMMA DropInvariant == Spec => []DropInv
<1>1. Init => DropInv
  BY DEF Init, DropInv
<1>2. TypeOK /\ PhaseInv /\ SamplerInv /\ DistinctInv /\ KeysInv /\ DropInv
      /\ [Next]_vars => DropInv'
  <2> SUFFICES ASSUME TypeOK, PhaseInv, SamplerInv, DistinctInv, KeysInv, DropInv,
                      [Next]_vars, call'.op = "join"
               PROVE  DropInv'
    BY DEF DropInv
  <2>1. /\ tmp \in Seq(Collectors) /\ Len(tmp) \in Nat
        /\ list \in [Slots -> Seq(Stamp)] /\ made \in [Slots -> Stamp] /\ session \in Nat
        /\ \A s \in Slots : made[s] \in Nat
    BY BoundsAssumption DEF TypeOK, Stamp
  <2>2. CASE SignalEnd
    <3>1. tmp' = <<>> /\ call'.i = 1 /\ UNCHANGED mRunning
      BY <2>2, Moves DEF SignalEnd, DistinctInv, TmpInv, Ops
    <3> QED BY <3>1, Moves DEF DropInv
  <2>3. ASSUME NEW c \in Collectors, Sampler(c) PROVE DropInv'
    <3>1. UNCHANGED <<call, mRunning, tmp, mIsThreaded, mIsSummarized, session, outcome>>
          /\ call.op = "join" /\ thread[c] # "none"
      BY <2>3 DEF Sampler, SamplerTest, SamplerCollect, SamplerNap
    <3>2. \A s \in Slots : s \notin SlotsOf(c) => list'[s] = list[s] /\ made'[s] = made[s]
      <4>1. (\E slots \in SUBSET SlotsOf(c) : Record(slots)) \/ UNCHANGED <<list, made>>
        BY <2>3 DEF Sampler, SamplerTest, SamplerCollect, SamplerNap
      <4> QED BY <4>1 DEF Record
    <3>3. \A k \in 1..Len(mRunning) : k < call.i =>
             (OldKeyEmpty(mRunning[k])' <=> OldKeyEmpty(mRunning[k]))
      <4> SUFFICES ASSUME NEW k \in 1..Len(mRunning), k < call.i
                   PROVE  OldKeyEmpty(mRunning[k])' <=> OldKeyEmpty(mRunning[k])
        OBVIOUS
      <4>1. mRunning[k] \in Collectors /\ mRunning[k] # c
        BY <3>1, JoinedIsDone
      <4>2. \A s \in SlotsOf(mRunning[k]) : list'[s] = list[s] /\ made'[s] = made[s]
        BY <3>2, <4>1, SlotOwner
      <4>3. mRunning'[k] = mRunning[k]
        BY <3>1
      <4> QED BY <3>1, <4>2, <4>3 DEF OldKeyEmpty
    <3> QED BY <3>1, <3>3 DEF DropInv
  <2>4. CASE JoinOne
    <3>1. /\ call.op = "join" /\ call'.i = call.i + 1
          /\ UNCHANGED <<mRunning, mIsThreaded, mIsSummarized, made, session, running>>
          /\ call.i \in 1..Len(mRunning) /\ Current = mRunning[call.i] /\ Current \in Collectors
          /\ PostprocessOf(Current) /\ outcome = "ok"
      BY <2>4, Moves, CurrentType DEF JoinOne, Current
    <3>2. \A k \in 1..Len(mRunning) : k < call.i =>
             (OldKeyEmpty(mRunning[k]) => OldKeyEmpty(mRunning[k])')
      <4> SUFFICES ASSUME NEW k \in 1..Len(mRunning), k < call.i
                   PROVE  OldKeyEmpty(mRunning[k]) => OldKeyEmpty(mRunning[k])'
        OBVIOUS
      <4>1. mRunning[k] # Current /\ mRunning[k] \in Collectors /\ mRunning'[k] = mRunning[k]
        BY <3>1, Moves DEF DistinctInv, RunningDistinct
      <4>2. \A s \in SlotsOf(mRunning[k]) : list'[s] = list[s] /\ made'[s] = made[s]
        BY <3>1, <4>1, Postprocessed, SlotOwner
      <4> QED BY <3>1, <4>1, <4>2 DEF OldKeyEmpty
    <3>3. \/ tmp' = Append(tmp, Current)
          \/ tmp' = tmp /\ \A k \in 1..Len(mRunning) : k = call.i => OldKeyEmpty(mRunning[k])'
          \/ tmp' = tmp /\ outcome' = "out_of_range"
      <4>1. ASSUME NEW s \in MadeSlots(Current), list[s] = <<>>, list' = list,
                   mIsThreaded[Current], ~mIsSummarized[Current]
            PROVE  \A k \in 1..Len(mRunning) : k = call.i => OldKeyEmpty(mRunning[k])'
        <5>1. s \in SlotsOf(Current) /\ s \in Slots /\ made[s] # 0
          BY <3>1, SlotOwner DEF MadeSlots
        <5>2. Pending(call.i)
          BY <3>1, Moves DEF Pending, InSession, PhaseInv
        <5>3. made[s] # session /\ made[s] <= session
          BY <3>1, <4>1, <5>1, <5>2 DEF KeysInv
        <5>4. made[s] \in 1..session - 1
          BY <2>1, <5>1, <5>3
        <5> QED BY <3>1, <4>1, <5>1, <5>4 DEF OldKeyEmpty
      <4> QED BY <3>1, <4>1, Postprocessed
    <3>4. \A a, b \in 1..Len(tmp) : a < b =>
             \E k, l \in 1..Len(mRunning) :
               k < l /\ l < call.i + 1 /\ tmp[a] = mRunning[k] /\ tmp[b] = mRunning[l]
      <4> SUFFICES ASSUME NEW a \in 1..Len(tmp), NEW b \in 1..Len(tmp), a < b
                   PROVE  \E k, l \in 1..Len(mRunning) :
                            k < l /\ l < call.i + 1 /\ tmp[a] = mRunning[k] /\ tmp[b] = mRunning[l]
        OBVIOUS
      <4>1. PICK k \in 1..Len(mRunning), l \in 1..Len(mRunning) :
               k < l /\ l < call.i /\ tmp[a] = mRunning[k] /\ tmp[b] = mRunning[l]
        BY <3>1 DEF DropInv
      <4>2. l < call.i + 1
        BY <4>1, Moves
      <4> QED BY <4>1, <4>2
    <3>5. \A k \in 1..Len(mRunning) : k < call.i + 1 => k < call.i \/ k = call.i
      BY Moves
    <3>6. CASE tmp' = tmp
      <4>1. ASSUME NEW k \in 1..Len(mRunning), k < call.i + 1
            PROVE  \/ \E a \in 1..Len(tmp) : tmp[a] = mRunning[k]
                   \/ OldKeyEmpty(mRunning[k])'
                   \/ outcome' = "out_of_range"
        <5>1. CASE k = call.i
          <6>1. mRunning[k] = Current
            BY <3>1, <5>1
          <6>2. Append(tmp, Current) # tmp
            BY <2>1, <3>1, AppendedAt
          <6> QED BY <3>3, <3>6, <4>1, <5>1, <6>2
        <5>2. CASE k < call.i
          <6>1. \/ \E a \in 1..Len(tmp) : tmp[a] = mRunning[k]
                \/ OldKeyEmpty(mRunning[k])
            BY <3>1, <5>2 DEF DropInv
          <6> QED BY <3>2, <5>2, <6>1
        <5> QED BY <3>5, <4>1, <5>1, <5>2
      <4> QED BY <3>1, <3>4, <3>6, <4>1 DEF DropInv
    <3>7. CASE tmp' = Append(tmp, Current)
      <4>1. /\ Len(tmp') = Len(tmp) + 1 /\ tmp'[Len(tmp) + 1] = Current
            /\ \A a \in 1..Len(tmp) : tmp'[a] = tmp[a]
        BY <2>1, <3>1, <3>7, AppendedAt
      <4>2. ASSUME NEW k \in 1..Len(mRunning), k < call.i + 1
            PROVE  \/ \E a \in 1..Len(tmp') : tmp'[a] = mRunning[k]
                   \/ OldKeyEmpty(mRunning[k])'
        <5>1. CASE k = call.i
          <6>1. Len(tmp) + 1 \in 1..Len(tmp') /\ tmp'[Len(tmp) + 1] = mRunning[k]
            BY <2>1, <3>1, <4>1, <5>1
          <6> QED BY <6>1
        <5>2. CASE k < call.i
          <6>1. \/ \E a \in 1..Len(tmp) : tmp[a] = mRunning[k]
                \/ OldKeyEmpty(mRunning[k])
            BY <3>1, <5>2 DEF DropInv
          <6>2. ASSUME NEW a \in 1..Len(tmp), tmp[a] = mRunning[k]
                PROVE  a \in 1..Len(tmp') /\ tmp'[a] = mRunning[k]
            BY <2>1, <4>1, <6>2
          <6> QED BY <3>2, <5>2, <6>1, <6>2
        <5> QED BY <3>5, <4>2, <5>1, <5>2
      <4>3. ASSUME NEW a \in 1..Len(tmp'), NEW b \in 1..Len(tmp'), a < b
            PROVE  \E k, l \in 1..Len(mRunning) :
                     k < l /\ l < call.i + 1 /\ tmp'[a] = mRunning[k] /\ tmp'[b] = mRunning[l]
        <5>1. CASE b = Len(tmp) + 1
          <6>1. a \in 1..Len(tmp) /\ tmp'[a] = tmp[a] /\ tmp'[b] = mRunning[call.i]
            BY <2>1, <3>1, <4>1, <4>3, <5>1
          <6>2. PICK k \in 1..Len(mRunning) : k < call.i /\ tmp[a] = mRunning[k]
            BY <6>1 DEF DistinctInv, TmpInv
          <6>3. k < call.i /\ call.i < call.i + 1 /\ call.i \in 1..Len(mRunning)
            BY <3>1, <6>2, Moves
          <6> QED BY <6>1, <6>2, <6>3
        <5>2. CASE b # Len(tmp) + 1
          <6>1. a \in 1..Len(tmp) /\ b \in 1..Len(tmp)
            <7>1. Len(tmp') = Len(tmp) + 1 /\ Len(tmp) \in Nat
              BY <2>1, <4>1
            <7> QED BY <4>3, <5>2, <7>1
          <6>4. tmp'[a] = tmp[a] /\ tmp'[b] = tmp[b]
            BY <4>1, <6>1
          <6>2. PICK k \in 1..Len(mRunning), l \in 1..Len(mRunning) :
                   k < l /\ l < call.i + 1 /\ tmp[a] = mRunning[k] /\ tmp[b] = mRunning[l]
            BY <3>4, <4>3, <6>1
          <6> QED BY <6>2, <6>4
        <5> QED BY <5>1, <5>2
      <4>4. \A k \in 1..Len(mRunning') : k < call'.i =>
              \/ \E a \in 1..Len(tmp') : tmp'[a] = mRunning'[k]
              \/ OldKeyEmpty(mRunning[k])'
        BY <3>1, <4>2
      <4>5. \A a, b \in 1..Len(tmp') : a < b =>
              \E k, l \in 1..Len(mRunning') :
                k < l /\ l < call'.i /\ tmp'[a] = mRunning'[k] /\ tmp'[b] = mRunning'[l]
        BY <3>1, <4>3
      <4> QED BY <4>4, <4>5 DEF DropInv
    <3> QED BY <3>3, <3>6, <3>7
  <2>5. CASE JoinThrows
    <3>1. /\ UNCHANGED <<call, mRunning, tmp, mIsThreaded, mIsSummarized, list, made, session>>
          /\ outcome = "ok" /\ call.op = "join"
      BY <2>5 DEF JoinThrows
    <3>2. \A k \in 1..Len(mRunning) : k < call.i =>
             \/ \E a \in 1..Len(tmp) : tmp[a] = mRunning[k]
             \/ OldKeyEmpty(mRunning[k])
      BY <3>1 DEF DropInv
    <3>3. \A a, b \in 1..Len(tmp) : a < b =>
             \E k, l \in 1..Len(mRunning) :
               k < l /\ l < call.i /\ tmp[a] = mRunning[k] /\ tmp[b] = mRunning[l]
      BY <3>1 DEF DropInv
    <3>4. \A k \in 1..Len(mRunning') : k < call'.i =>
             \/ \E a \in 1..Len(tmp') : tmp'[a] = mRunning'[k]
             \/ OldKeyEmpty(mRunning[k])'
      BY <3>1, <3>2 DEF OldKeyEmpty
    <3>5. \A a, b \in 1..Len(tmp') : a < b =>
             \E k, l \in 1..Len(mRunning') :
               k < l /\ l < call'.i /\ tmp'[a] = mRunning'[k] /\ tmp'[b] = mRunning'[l]
      BY <3>1, <3>3
    <3> QED BY <3>4, <3>5 DEF DropInv
  <2>6. CASE Ended \/ UNCHANGED vars
    <3>1. UNCHANGED <<call, mRunning, tmp, mIsThreaded, mIsSummarized, list, made, session,
                      outcome>>
      BY <2>6 DEF Ended, vars
    <3> QED BY <3>1 DEF DropInv, OldKeyEmpty
  <2>7. InitializeBegin \/ StartBegin \/ Collect \/ SummarizeBegin \/ StopBegin \/ Destroy
          \/ InitializeOne \/ InitializeEnd \/ StartOne \/ StartEnd \/ SummarizeOne \/ SummarizeEnd
          \/ SignalOne \/ StopEnd
        => call'.op # "join"
    BY Moves DEF InitializeBegin, StartBegin, Collect, SummarizeBegin, StopBegin, Destroy,
       InitializeOne, InitializeCollector, InitializeFailed, InitializeEnd, StartOne, StartEnd,
       SummarizeOne, SummarizeEnd, SignalOne, StopEnd, Ops
  <2>8. ASSUME NEW c \in ClientThreaded, UseThreading(c) PROVE call'.op # "join"
    BY <2>8 DEF UseThreading
  <2> QED BY <2>2, <2>3, <2>4, <2>5, <2>6, <2>7, <2>8 DEF Next, InCall
<1> QED BY <1>1, <1>2, TypeCorrect, SamplerInvariant, DistinctInvariant, KeysInvariant, PTL DEF Spec

(* Only StopEnd ends a session. *)
LEMMA SessionEnd ==
  ASSUME [Next]_vars, running, ~running'
  PROVE  StopEnd
BY DEF Next, InCall, Sampler, InitializeBegin, StartBegin, Collect, SummarizeBegin, StopBegin,
       Destroy, UseThreading, InitializeOne, InitializeEnd, StartOne, StartEnd, SummarizeOne,
       SummarizeEnd, SignalOne, SignalEnd, JoinThrows, JoinOne, Ended, SamplerTest,
       SamplerCollect, SamplerNap, vars

(* stop() drops only threaded collectors that left a key of an earlier session *)
(* empty and keeps the order of the others (interface.cpp: stop), for any      *)
(* collectors, keys and sessions.                                              *)
THEOREM DroppedOnlyForOldKeyHolds == Spec => DroppedOnlyForOldKey
<1>1. TypeOK /\ DropInv /\ [Next]_vars =>
        [(running /\ ~running') =>
           /\ \A c \in ElementsOf(mRunning) \ ElementsOf(mRunning') :
                 /\ mIsThreaded[c] /\ ~mIsSummarized[c]
                 /\ \E s \in SlotsOf(c) : list[s] = <<>> /\ made[s] \in 1..session - 1
           /\ \A i, j \in DOMAIN mRunning' : i < j =>
                 \E k, l \in DOMAIN mRunning :
                    k < l /\ mRunning'[i] = mRunning[k] /\ mRunning'[j] = mRunning[l]]_vars
  <2> SUFFICES ASSUME TypeOK, DropInv, [Next]_vars, running, ~running'
               PROVE  /\ \A c \in ElementsOf(mRunning) \ ElementsOf(mRunning') :
                            OldKeyEmpty(c)
                      /\ \A i, j \in DOMAIN mRunning' : i < j =>
                            \E k, l \in DOMAIN mRunning :
                               k < l /\ mRunning'[i] = mRunning[k] /\ mRunning'[j] = mRunning[l]
    BY DEF OldKeyEmpty
  <2>1. mRunning' = tmp /\ call.op = "join" /\ call.i > Len(mRunning) /\ outcome = "ok"
    BY SessionEnd DEF StopEnd
  <2>2. DOMAIN mRunning = 1..Len(mRunning) /\ DOMAIN tmp = 1..Len(tmp)
    BY Moves DEF TypeOK
  <2>3. ASSUME NEW c \in ElementsOf(mRunning), c \notin ElementsOf(tmp)
        PROVE  OldKeyEmpty(c)
    <3>1. PICK k \in 1..Len(mRunning) : mRunning[k] = c
      BY <2>2 DEF ElementsOf
    <3>2. k < call.i /\ \A a \in 1..Len(tmp) : tmp[a] # c
      BY <2>1, <2>2, <2>3, Moves DEF ElementsOf
    <3> QED BY <2>1, <3>1, <3>2 DEF DropInv
  <2>4. \A i, j \in 1..Len(tmp) : i < j =>
          \E k, l \in 1..Len(mRunning) : k < l /\ tmp[i] = mRunning[k] /\ tmp[j] = mRunning[l]
    BY <2>1 DEF DropInv
  <2>5. \A c \in ElementsOf(mRunning) \ ElementsOf(mRunning') : OldKeyEmpty(c)
    BY <2>1, <2>3
  <2>6. \A i, j \in DOMAIN mRunning' : i < j =>
          \E k, l \in DOMAIN mRunning :
             k < l /\ mRunning'[i] = mRunning[k] /\ mRunning'[j] = mRunning[l]
    <3> SUFFICES ASSUME NEW i \in DOMAIN mRunning', NEW j \in DOMAIN mRunning', i < j
                 PROVE  \E k, l \in DOMAIN mRunning :
                           k < l /\ mRunning'[i] = mRunning[k] /\ mRunning'[j] = mRunning[l]
      OBVIOUS
    <3>1. i \in 1..Len(tmp) /\ j \in 1..Len(tmp) /\ mRunning'[i] = tmp[i] /\ mRunning'[j] = tmp[j]
      BY <2>1, <2>2
    <3>2. PICK k \in 1..Len(mRunning), l \in 1..Len(mRunning) :
            k < l /\ tmp[i] = mRunning[k] /\ tmp[j] = mRunning[l]
      BY <2>4, <3>1
    <3> QED BY <2>2, <3>1, <3>2
  <2> QED BY <2>5, <2>6
<1> QED BY <1>1, TypeCorrect, DropInvariant, PTL DEF Spec, DroppedOnlyForOldKey

-------------------------------------------------------------------------------
(* One value per frame: what a collector sampled by collect() always has, and  *)
(* a threaded one once stop() has remixed its samples.                         *)

Plain == ~lossy /\ \A c \in Collectors : ~mIsSummarized[c]
Even(s) == Len(list[s]) = Len(mTiming)

TimingInv ==
  /\ call.op = "start" => mTiming = <<>>
  /\ call.op = "summarize" /\ call.i > 1 => mIsSummarized[mCollectors[1]]
  /\ Len(mTiming) <= MaxFrames

EvenInv ==
  Plain =>
    /\ \A k \in 1..Len(mRunning) :
         InSession(k) /\ ~mIsThreaded[mRunning[k]] => \A s \in SlotsOf(mRunning[k]) : Even(s)
    /\ call.op = "join" => \A a \in 1..Len(tmp) : \A s \in SlotsOf(tmp[a]) :
         made[s] # 0 => Even(s)

(* TimingInv is preserved. *)
LEMMA TimingInvariant == Spec => []TimingInv
<1>1. Init => TimingInv
  BY BoundsAssumption DEF Init, TimingInv
<1>2. TypeOK /\ TimingInv /\ [Next]_vars => TimingInv'
  <2> SUFFICES ASSUME TypeOK, TimingInv, [Next]_vars PROVE TimingInv'
    OBVIOUS
  <2>1. mIsSummarized \in [Collectors -> BOOLEAN] /\ mTiming \in Seq(FrameTimes)
        /\ Len(mTiming) \in Nat /\ MaxFrames \in Nat
    BY BoundsAssumption DEF TypeOK
  <2>2. CASE InitializeBegin \/ InitializeOne \/ InitializeEnd \/ StartEnd \/ SummarizeBegin
               \/ SummarizeEnd \/ StopBegin \/ SignalOne \/ SignalEnd \/ JoinOne \/ StopEnd
    <3>1. call'.op # "start" /\ (call'.op = "summarize" => call'.i = 1)
      BY <2>2, Moves DEF InitializeBegin, InitializeOne, InitializeCollector, InitializeFailed,
         InitializeEnd, StartEnd, SummarizeBegin, SummarizeEnd, StopBegin, SignalOne, SignalEnd,
         JoinOne, StopEnd, Ops
    <3>2. mTiming' = mTiming \/ mTiming' = <<>>
      BY <2>2 DEF InitializeBegin, InitializeOne, InitializeEnd, StartEnd, SummarizeBegin,
         SummarizeEnd, StopBegin, SignalOne, SignalEnd, JoinOne, StopEnd
    <3> QED BY <2>1, <3>1, <3>2 DEF TimingInv
  <2>3. CASE Destroy \/ JoinThrows \/ Ended \/ UNCHANGED vars
               \/ \E c \in ClientThreaded : UseThreading(c)
    <3>1. UNCHANGED <<call, mIsSummarized, mTiming>>
      BY <2>3 DEF Destroy, JoinThrows, Ended, vars, UseThreading
    <3> QED BY <3>1 DEF TimingInv
  <2>4. CASE StartBegin \/ StartOne
    <3>1. call'.op = "start" /\ mTiming' = <<>>
      BY <2>4, Moves DEF StartBegin, StartOne, TimingInv, Ops
    <3> QED BY <2>1, <3>1 DEF TimingInv
  <2>5. CASE SummarizeOne
    <3>1. /\ call.op = "summarize" /\ call'.op = "summarize" /\ call.i \in 1..Len(mCollectors)
          /\ mIsSummarized' = [mIsSummarized EXCEPT ![mCollectors[call.i]] = TRUE]
          /\ UNCHANGED mTiming
      BY <2>5, Moves, CollectorsAssumption DEF SummarizeOne
    <3>2. 1 \in 1..Len(mCollectors) /\ (call.i = 1 \/ call.i > 1)
      BY <3>1, CollectorsAssumption
    <3>3. mIsSummarized'[mCollectors[1]]
      BY <2>1, <3>1, <3>2, RegisteredIsCollector DEF TimingInv
    <3> QED BY <3>1, <3>3 DEF TimingInv
  <2>6. ASSUME NEW c \in Collectors, Sampler(c) PROVE TimingInv'
    BY <2>6 DEF Sampler, SamplerTest, SamplerCollect, SamplerNap, TimingInv
  <2>7. CASE Collect
    <3>1. UNCHANGED <<call, mIsSummarized>> /\ call.op = "idle" /\ Len(mTiming) < MaxFrames
          /\ \E d \in FrameTimes : mTiming' = Append(mTiming, d)
      BY <2>7 DEF Collect, FrameTime
    <3>2. Len(mTiming') = Len(mTiming) + 1
      BY <2>1, <3>1
    <3> QED BY <2>1, <3>1, <3>2 DEF TimingInv
  <2> QED BY <2>2, <2>3, <2>4, <2>5, <2>6, <2>7 DEF Next, InCall
<1> QED BY <1>1, <1>2, TypeCorrect, PTL DEF Spec

(* EvenInv is preserved. *)
LEMMA EvenInvariant == Spec => []EvenInv
<1>1. Init => EvenInv
  BY DEF Init, EvenInv
<1> DEFINE Inv == TypeOK /\ PhaseInv /\ SamplerInv /\ DistinctInv /\ SignalInv /\ TimingInv
<1>2. Inv /\ TypeOK' /\ EvenInv /\ [Next]_vars => EvenInv'
  <2> SUFFICES ASSUME TypeOK, PhaseInv, SamplerInv, DistinctInv, SignalInv, TimingInv,
                      TypeOK', EvenInv, [Next]_vars, Plain'
               PROVE  EvenInv'
    BY DEF EvenInv
  <2>1. /\ list \in [Slots -> Seq(Stamp)] /\ made \in [Slots -> Stamp] /\ session \in Stamp
        /\ summaries \in [Slots -> Seq(Stamp)]
        /\ mIsSummarized \in [Collectors -> BOOLEAN] /\ tmp \in Seq(Collectors)
        /\ mTiming \in Seq(FrameTimes) /\ Len(tmp) \in Nat
        /\ \A a \in 1..Len(tmp) : tmp[a] \in Collectors
    BY DEF TypeOK
  <2>2. ASSUME UNCHANGED <<mRunning, mTiming, list, made, tmp, mIsThreaded>>, Plain,
               \A k \in 1..Len(mRunning) : InSession(k)' => InSession(k),
               call'.op = "join" => call.op = "join" \/ tmp = <<>>
        PROVE  EvenInv'
    <3>1. \A k \in 1..Len(mRunning) :
             InSession(k)' /\ ~mIsThreaded[mRunning[k]] => \A s \in SlotsOf(mRunning[k]) : Even(s)
      BY <2>2 DEF EvenInv
    <3>2. call'.op = "join" => \A a \in 1..Len(tmp) : \A s \in SlotsOf(tmp[a]) :
            made[s] # 0 => Even(s)
      BY <2>2 DEF EvenInv
    <3> QED BY <2>2, <3>1, <3>2 DEF EvenInv, Even
  <2>3. CASE InitializeEnd \/ SummarizeBegin \/ StopBegin \/ SignalOne \/ SignalEnd
               \/ JoinThrows \/ Destroy \/ Ended \/ UNCHANGED vars
    <3>1. UNCHANGED <<mRunning, mTiming, list, made, tmp, mIsThreaded, running, lossy,
                      mIsSummarized>>
          /\ (call' = call \/ call'.op # "start")
          /\ (call'.op = "join" => call.op = "join" \/ call.op = "signal")
      BY <2>3, Moves DEF InitializeEnd, SummarizeBegin, StopBegin, SignalOne, SignalEnd,
         JoinThrows, Destroy, Ended, vars, Ops
    <3>2. Plain /\ (call'.op = "join" => call.op = "join" \/ tmp = <<>>)
      BY <3>1 DEF Plain, DistinctInv, TmpInv
    <3>3. \A k \in 1..Len(mRunning) : InSession(k)' => InSession(k)
      BY <3>1 DEF InSession
    <3> QED BY <2>2, <3>1, <3>2, <3>3
  <2>4. CASE StartEnd
    <3>1. UNCHANGED <<mRunning, mTiming, list, made, tmp, mIsThreaded, lossy, mIsSummarized>>
          /\ call'.op = "idle"
      BY <2>4, Moves DEF StartEnd
    <3>2. \A k \in 1..Len(mRunning) : InSession(k)
      BY <2>4, Moves DEF StartEnd, InSession
    <3>3. Plain
      BY <3>1 DEF Plain
    <3> QED BY <2>2, <3>1, <3>2, <3>3
  <2>5. CASE InitializeBegin \/ InitializeOne \/ StopEnd
               \/ \E c \in ClientThreaded : UseThreading(c)
    <3>1. ~running' /\ call'.op # "start" /\ call'.op # "join"
      BY <2>5, Moves DEF InitializeBegin, InitializeOne, InitializeCollector, InitializeFailed,
         StopEnd, UseThreading, PhaseInv, Ops
    <3> QED BY <3>1 DEF EvenInv, InSession
  <2>6. CASE StartBegin
    <3>1. ~running' /\ call'.op = "start" /\ call'.i = 1 /\ UNCHANGED mRunning
      BY <2>6, Moves DEF StartBegin, Ops
    <3> QED BY <3>1 DEF EvenInv, InSession
  <2>7. CASE StartOne
    <3>1. /\ call.op = "start" /\ call'.op = "start" /\ call'.i = call.i + 1
          /\ UNCHANGED <<running, mRunning, mTiming, mIsThreaded, lossy, mIsSummarized>>
          /\ ~running /\ mTiming = <<>>
          /\ call.i \in 1..Len(mRunning) /\ Current = mRunning[call.i] /\ Current \in Collectors
      BY <2>7, Moves, CurrentType DEF StartOne, Current, PhaseInv, TimingInv
    <3>2. /\ \A s \in SlotsOf(Current) : list'[s] = <<>>
          /\ \A s \in Slots : s \notin SlotsOf(Current) => list'[s] = list[s]
      BY <2>1, <2>7, <3>1, SlotOwner DEF StartOne, Cleared
    <3>3. ASSUME NEW k \in 1..Len(mRunning), k < call.i + 1, ~mIsThreaded[mRunning[k]],
                 NEW s \in SlotsOf(mRunning[k])
          PROVE  Len(list'[s]) = Len(mTiming)
      <4>1. CASE mRunning[k] = Current
        BY <3>1, <3>2, <3>3, <4>1
      <4>2. CASE mRunning[k] # Current
        <5>1. k < call.i /\ s \in Slots /\ s \notin SlotsOf(Current)
          BY <3>1, <3>3, <4>2, Moves, SlotOwner
        <5>2. Plain
          BY <3>1 DEF Plain
        <5>3. Even(s)
          BY <3>1, <3>3, <5>1, <5>2 DEF EvenInv, InSession
        <5> QED BY <3>2, <5>1, <5>3 DEF Even
      <4> QED BY <4>1, <4>2
    <3> QED BY <3>1, <3>3 DEF EvenInv, InSession, Even
  <2>8. ASSUME NEW c \in Collectors, Sampler(c) PROVE EvenInv'
    <3>1. /\ UNCHANGED <<mRunning, mTiming, tmp, mIsThreaded, running, call, lossy, mIsSummarized>>
          /\ thread[c] # "none"
      BY <2>8 DEF Sampler, SamplerTest, SamplerCollect, SamplerNap
    <3>2. mIsThreaded[c] /\ Plain
      BY <3>1 DEF SignalInv, Plain
    <3>3. \A s \in Slots : s \notin SlotsOf(c) => list'[s] = list[s] /\ made'[s] = made[s]
      <4>1. (\E slots \in SUBSET SlotsOf(c) : Record(slots)) \/ UNCHANGED <<list, made>>
        BY <2>8 DEF Sampler, SamplerTest, SamplerCollect, SamplerNap
      <4> QED BY <4>1 DEF Record
    <3>4. ASSUME NEW k \in 1..Len(mRunning), InSession(k), ~mIsThreaded[mRunning[k]],
                 NEW s \in SlotsOf(mRunning[k])
          PROVE  Len(list'[s]) = Len(mTiming)
      <4>1. s \in Slots /\ s \notin SlotsOf(c)
        BY <3>2, <3>4, Moves, SlotOwner
      <4>2. Even(s)
        BY <3>2, <3>4 DEF EvenInv
      <4> QED BY <3>3, <4>1, <4>2 DEF Even
    <3>5. ASSUME call.op = "join", NEW a \in 1..Len(tmp), NEW s \in SlotsOf(tmp[a]),
                 made'[s] # 0
          PROVE  Len(list'[s]) = Len(mTiming)
      <4>1. PICK k \in 1..Len(mRunning) : k < call.i /\ tmp[a] = mRunning[k]
        BY DEF DistinctInv, TmpInv
      <4>2. tmp[a] # c /\ tmp[a] \in Collectors
        BY <3>1, <3>5, <4>1, JoinedIsDone
      <4>3. s \in Slots /\ s \notin SlotsOf(c)
        BY <4>2, SlotOwner
      <4>4. Even(s)
        BY <3>2, <3>3, <3>5, <4>3 DEF EvenInv
      <4> QED BY <3>3, <4>3, <4>4 DEF Even
    <3> QED BY <3>1, <3>4, <3>5 DEF EvenInv, InSession, Even
  <2>9. CASE Collect
    <3>1. /\ UNCHANGED <<mRunning, mIsThreaded, running, call, mIsSummarized>>
          /\ call.op = "idle" /\ running
      BY <2>9 DEF Collect
    <3>2. PICK d \in FrameTimes : mTiming' = Append(mTiming, FrameTime(d))
      BY <2>9 DEF Collect
    <3> DEFINE direct == UNION {SlotsOf(c) : c \in Direct}
    <3>3. PICK slots \in SUBSET direct : Record(slots) /\ lossy' = (lossy \/ slots # direct)
      BY <2>9 DEF Collect
    <3>4. Plain /\ slots = direct
      BY <3>1, <3>3 DEF Plain
    <3>5. Len(mTiming') = Len(mTiming) + 1
      BY <2>1, <3>2 DEF FrameTime
    <3>6. ASSUME NEW k \in 1..Len(mRunning), ~mIsThreaded[mRunning[k]],
                 NEW s \in SlotsOf(mRunning[k])
          PROVE  Len(list'[s]) = Len(mTiming')
      <4>1. mRunning[k] \in Direct
        BY <3>6, Moves DEF Direct, ElementsOf
      <4>2. s \in slots /\ s \in Slots
        BY <3>4, <4>1, Moves, SlotOwner
      <4> HIDE DEF direct
      <4>3. Len(list'[s]) = Len(list[s]) + 1
        BY <2>1, <3>3, <4>2, Recorded
      <4>4. Len(list[s]) = Len(mTiming)
        BY <3>1, <3>4, <3>6 DEF EvenInv, InSession, Even
      <4> QED BY <3>5, <4>3, <4>4
    <3> QED BY <3>1, <3>6 DEF EvenInv, Even
  <2>10. CASE SummarizeOne
    <3>1. mCollectors[call.i] \in Collectors
      BY <2>10, Moves, RegisteredIsCollector DEF SummarizeOne
    <3>2. mIsSummarized'[mCollectors[call.i]]
      BY <2>1, <2>10, <3>1 DEF SummarizeOne
    <3> QED BY <3>1, <3>2 DEF Plain
  <2>11. CASE SummarizeEnd
    <3>1. /\ UNCHANGED <<mRunning, mIsSummarized>> /\ call.op = "summarize" /\ call'.op = "idle"
          /\ call.i > Len(mCollectors)
      BY <2>11, Moves DEF SummarizeEnd
    <3>2. Len(mRunning) = 0
      <4>1. SUFFICES ASSUME Len(mRunning) # 0 PROVE FALSE
        OBVIOUS
      <4>2. mRunning[1] \in Collectors
        BY <4>1, Moves
      <4>3. 1 \in 1..Len(mCollectors)
        BY <4>2, CollectorsAssumption DEF Collectors
      <4>4. mIsSummarized[mCollectors[1]] /\ mCollectors[1] \in Collectors
        BY <3>1, <4>3, Moves, RegisteredIsCollector, CollectorsAssumption DEF TimingInv
      <4> QED BY <3>1, <4>4 DEF Plain
    <3> QED BY <3>1, <3>2 DEF EvenInv
  <2>12. CASE JoinOne
    <3>1. /\ call.op = "join" /\ call'.op = "join" /\ call'.i = call.i + 1 /\ running
          /\ UNCHANGED <<mRunning, mTiming, mIsThreaded, running, made, lossy, mIsSummarized>>
          /\ call.i \in 1..Len(mRunning) /\ Current = mRunning[call.i] /\ Current \in Collectors
          /\ PostprocessOf(Current)
      BY <2>12, Moves, CurrentType DEF JoinOne, Current, PhaseInv
    <3>2. Plain
      BY <3>1 DEF Plain
    <3>3. \A s \in Slots : s \notin SlotsOf(Current) => list'[s] = list[s]
      BY <3>1, Postprocessed
    <3>4. /\ ~mIsThreaded[Current] => list' = list
          /\ \/ /\ tmp' = Append(tmp, Current)
                /\ mIsThreaded[Current] =>
                     \A s \in SlotsOf(Current) : made[s] # 0 => Len(list'[s]) = Len(mTiming)
             \/ tmp' = tmp /\ list' = list
      BY <3>1, <3>2, Postprocessed DEF Plain, MadeSlots
    <3>5. ASSUME NEW k \in 1..Len(mRunning), ~mIsThreaded[mRunning[k]],
                 NEW s \in SlotsOf(mRunning[k])
          PROVE  Len(list'[s]) = Len(mTiming)
      <4>1. list'[s] = list[s]
        <5>1. CASE mRunning[k] = Current
          BY <3>4, <3>5, <5>1
        <5>2. CASE mRunning[k] # Current
          BY <3>1, <3>3, <5>2, Moves, SlotOwner
        <5> QED BY <5>1, <5>2
      <4>2. InSession(k)
        BY <3>1 DEF InSession
      <4>3. Even(s)
        BY <3>2, <3>5, <4>2 DEF EvenInv
      <4> QED BY <4>1, <4>3 DEF Even
    <3>6. ASSUME NEW a \in 1..Len(tmp), NEW s \in SlotsOf(tmp[a]), made[s] # 0
          PROVE  Len(list'[s]) = Len(mTiming)
      <4>1. PICK k \in 1..Len(mRunning) : k < call.i /\ tmp[a] = mRunning[k]
        BY DEF DistinctInv, TmpInv
      <4>2. tmp[a] # Current /\ tmp[a] \in Collectors
        BY <3>1, <4>1, Moves DEF DistinctInv, RunningDistinct
      <4>3. s \in Slots /\ s \notin SlotsOf(Current)
        BY <3>1, <4>2, SlotOwner
      <4>4. Even(s)
        BY <3>1, <3>2, <3>6 DEF EvenInv
      <4> QED BY <3>3, <4>3, <4>4 DEF Even
    <3>7. ASSUME NEW a \in 1..Len(tmp'), NEW s \in SlotsOf(tmp'[a]), made[s] # 0
          PROVE  Len(list'[s]) = Len(mTiming)
      <4>1. CASE tmp' = tmp
        BY <3>6, <3>7, <4>1
      <4>2. CASE tmp' # tmp
        <5>1. /\ tmp' = Append(tmp, Current)
              /\ mIsThreaded[Current] =>
                   \A d \in SlotsOf(Current) : made[d] # 0 => Len(list'[d]) = Len(mTiming)
          BY <3>4, <4>2
        <5>2. /\ Len(tmp') = Len(tmp) + 1 /\ tmp'[Len(tmp) + 1] = Current
              /\ \A b \in 1..Len(tmp) : tmp'[b] = tmp[b]
          BY <2>1, <3>1, <5>1, AppendedAt
        <5>3. \A d \in SlotsOf(Current) : made[d] # 0 => Len(list'[d]) = Len(mTiming)
          BY <3>1, <3>5, <5>1
        <5>4. CASE a = Len(tmp) + 1
          BY <3>7, <5>2, <5>3, <5>4
        <5>5. CASE a # Len(tmp) + 1
          <6>1. a \in 1..Len(tmp) /\ tmp'[a] = tmp[a]
            BY <2>1, <5>2, <5>5
          <6> QED BY <3>6, <3>7, <6>1
        <5> QED BY <5>4, <5>5
      <4> QED BY <4>1, <4>2
    <3> QED BY <3>1, <3>5, <3>7 DEF EvenInv, Even
  <2> QED BY <2>3, <2>4, <2>5, <2>6, <2>7, <2>8, <2>9, <2>10, <2>11, <2>12 DEF Next, InCall
<1> QED BY <1>1, <1>2, TypeCorrect, SamplerInvariant, DistinctInvariant, SignalInvariant,
           TimingInvariant, PTL DEF Spec

(* When stop() returns, writeCSV reads only rows that exist, for any number of *)
(* collectors and frames, if no collect() failed and nothing was summarized.   *)
THEOREM AlignedAtStopHolds == Spec => AlignedAtStop
<1>1. TypeOK /\ EvenInv /\ [Next]_vars =>
        [(running /\ ~running' /\ ~lossy /\ \A c \in Collectors : ~mIsSummarized[c])
           => CSVDefined']_vars
  <2> SUFFICES ASSUME TypeOK, EvenInv, [Next]_vars, running, ~running', ~lossy,
                      \A c \in Collectors : ~mIsSummarized[c]
               PROVE  CSVDefined'
    OBVIOUS
  <2>1. mRunning' = tmp /\ call.op = "join" /\ UNCHANGED <<list, made, mTiming>>
    BY SessionEnd DEF StopEnd
  <2>2. DOMAIN tmp = 1..Len(tmp) /\ Len(mTiming) \in Nat
    BY DEF TypeOK
  <2>3. \A a \in 1..Len(tmp) : \A s \in SlotsOf(tmp[a]) : made[s] # 0 => Even(s)
    BY <2>1 DEF EvenInv, Plain
  <2>4. \A c \in ElementsOf(tmp) : \A s \in SlotsOf(c) : made[s] # 0 => Even(s)
    BY <2>2, <2>3 DEF ElementsOf
  <2>5. \A k \in DOMAIN mRunning' : mRunning'[k] \in ElementsOf(tmp)
    BY <2>1, <2>2 DEF ElementsOf
  <2>6. \A c : MadeSlots(c)' = {s \in SlotsOf(c) : made[s] # 0}
    BY <2>1 DEF MadeSlots
  <2>7. /\ \A k \in DOMAIN mRunning' : \A s \in MadeSlots(mRunning[k])' :
             Len(list'[s]) = Len(mTiming)
        /\ \A c \in ElementsOf(mRunning)' : \A s \in MadeSlots(c)' : Len(list'[s]) = Len(mTiming)
    BY <2>1, <2>4, <2>5, <2>6 DEF Even, MadeSlots
  <2> QED BY <2>1, <2>2, <2>7 DEF CSVDefined
<1> QED BY <1>1, TypeCorrect, EvenInvariant, PTL DEF Spec, AlignedAtStop

-------------------------------------------------------------------------------
(* The remix, for any number of frames and samples.                            *)

(* The frames before one that is not after the last do not reach the end of a  *)
(* session whose last frame has a measurable length.                           *)
LEMMA BeforeTheEnd ==
  ASSUME NEW timing \in Seq(Nat), NEW i \in 1..Len(timing), timing[Len(timing)] > 0
  PROVE  /\ Elapsed(timing)[i - 1] \in Nat /\ Duration(timing) \in Nat \ {0}
         /\ Elapsed(timing)[i - 1] < Duration(timing)
<1> DEFINE n == Len(timing)
<1>1. n \in Nat /\ n - 1 \in 0..n /\ n \in 0..n /\ n \in 1..n /\ i - 1 \in 0..n /\ i - 1 <= n - 1
      /\ timing \in Seq(Int) /\ timing[n] \in Nat /\ timing[n] > 0
  OBVIOUS
<1>2. PrefixSums(timing)[i - 1] \in Nat /\ PrefixSums(timing)[n - 1] \in Nat
      /\ PrefixSums(timing)[i - 1] <= PrefixSums(timing)[n - 1]
  BY <1>1, PrefixSumsGrow
<1>3. PrefixSums(timing)[n] = PrefixSums(timing)[n - 1] + timing[n]
  BY <1>1, PrefixSumsDef DEF IsPrefixSums
<1>4. ASSUME NEW a \in Nat, NEW b \in Nat, NEW t \in Nat, NEW c, a <= b, t > 0, c = b + t
      PROVE  a < c /\ c \in Nat \ {0}
  BY <1>4
<1>5. PrefixSums(timing)[i - 1] < PrefixSums(timing)[n] /\ PrefixSums(timing)[n] \in Nat \ {0}
  <2> HIDE DEF n
  <2> QED BY <1>1, <1>2, <1>3, <1>4
<1> QED BY <1>2, <1>5 DEF Elapsed, Duration

-------------------------------------------------------------------------------
(* The doubles.  The powers of two are what their recursion says, because a function  *)
(* that satisfies it exists.                                                          *)
IsPowers(f, n) == f \in [0..n -> Nat] /\ f[0] = 1 /\ \A k \in 1..n : f[k] = 2 * f[k - 1]

LEMMA PowersExist == \A n \in Nat : \E f : IsPowers(f, n)
<1> DEFINE P == {n \in Nat : \E f : IsPowers(f, n)}
<1>1. 0 \in P
  <2>1. IsPowers([k \in 0..0 |-> 1], 0)
    BY DEF IsPowers
  <2> QED BY <2>1
<1>2. ASSUME NEW n \in Nat, n \in P PROVE n + 1 \in P
  <2>1. PICK f : IsPowers(f, n)
    BY <1>2
  <2> DEFINE g == [k \in 0..(n + 1) |-> IF k = n + 1 THEN 2 * f[n] ELSE f[k]]
  <2>2. IsPowers(g, n + 1)
    BY <2>1 DEF IsPowers
  <2> QED BY <2>2
<1> HIDE DEF P
<1>3. Nat \subseteq P
  BY <1>1, <1>2, SetInduction
<1> QED BY <1>3 DEF P

LEMMA PowerOf2Def ==
  /\ PowerOf2[0] = 1
  /\ \A n \in Nat : PowerOf2[n] \in Nat \ {0} /\ PowerOf2[n + 1] = 2 * PowerOf2[n]
<1> DEFINE G(n) == CHOOSE f : IsPowers(f, n)
           F == [n \in Nat |-> G(n)[n]]
<1>1. \A n \in Nat : IsPowers(G(n), n)
  BY PowersExist
<1> HIDE DEF G
<1>2. ASSUME NEW n \in Nat PROVE G(n + 1)[n] = G(n)[n]
  <2> DEFINE P == {k \in Nat : k <= n => G(n + 1)[k] = G(n)[k]}
  <2>1. IsPowers(G(n), n) /\ IsPowers(G(n + 1), n + 1)
    BY <1>1
  <2>2. 0 \in P
    BY <2>1 DEF IsPowers
  <2>3. ASSUME NEW k \in Nat, k \in P PROVE k + 1 \in P
    <3> SUFFICES ASSUME k + 1 <= n PROVE G(n + 1)[k + 1] = G(n)[k + 1]
      OBVIOUS
    <3>1. k + 1 \in 1..n /\ k + 1 \in 1..(n + 1) /\ (k + 1) - 1 = k
      OBVIOUS
    <3>2. G(n)[k + 1] = 2 * G(n)[k]
      BY <2>1, <3>1, Zenon DEF IsPowers
    <3>3. G(n + 1)[k + 1] = 2 * G(n + 1)[k]
      BY <2>1, <3>1, Zenon DEF IsPowers
    <3>4. G(n + 1)[k] = G(n)[k]
      BY <2>3
    <3> QED BY <3>2, <3>3, <3>4, Zenon
  <2> HIDE DEF P
  <2>4. Nat \subseteq P
    BY <2>2, <2>3, SetInduction
  <2> QED BY <2>4 DEF P
<1>3. F[0] = 1 /\ \A n \in Nat : F[n] \in Nat /\ F[n + 1] = 2 * F[n]
  <2>1. F[0] = 1
    BY <1>1 DEF IsPowers
  <2>2. ASSUME NEW n \in Nat PROVE F[n] \in Nat /\ F[n + 1] = 2 * F[n]
    <3>1. n + 1 \in 1..(n + 1) /\ (n + 1) - 1 = n /\ n \in 0..n
      OBVIOUS
    <3>2. G(n + 1)[n + 1] = 2 * G(n + 1)[n] /\ G(n)[n] \in Nat
      BY <1>1, <3>1 DEF IsPowers
    <3> QED BY <1>2, <3>2
  <2> QED BY <2>1, <2>2
<1>4. F = [n \in Nat |-> IF n = 0 THEN 1 ELSE 2 * F[n - 1]]
  <2> SUFFICES ASSUME NEW n \in Nat, n # 0 PROVE F[n] = 2 * F[n - 1]
    BY <1>3
  <2>1. n - 1 \in Nat /\ (n - 1) + 1 = n
    OBVIOUS
  <2> HIDE DEF F
  <2> QED BY <1>3, <2>1
<1> HIDE DEF F
<1>5. PowerOf2 = [n \in Nat |-> IF n = 0 THEN 1 ELSE 2 * PowerOf2[n - 1]]
  BY <1>4 DEF PowerOf2
<1>6. PowerOf2[0] = 1 /\ \A n \in Nat : PowerOf2[n + 1] = 2 * PowerOf2[n]
  <2>1. \A n \in Nat : n + 1 \in Nat /\ n + 1 # 0 /\ (n + 1) - 1 = n
    OBVIOUS
  <2>2. 0 \in Nat
    OBVIOUS
  <2> QED BY <1>5, <2>1, <2>2
<1> DEFINE P == {n \in Nat : PowerOf2[n] \in Nat \ {0}}
<1>7. 0 \in P
  BY <1>6
<1>8. ASSUME NEW n \in Nat, n \in P PROVE n + 1 \in P
  BY <1>6, <1>8
<1> HIDE DEF P
<1>9. Nat \subseteq P
  BY <1>7, <1>8, SetInduction
<1> QED BY <1>6, <1>9 DEF P

(* They grow. *)
LEMMA PowersGrow ==
  ASSUME NEW j \in Nat, NEW k \in Nat, j <= k
  PROVE  PowerOf2[j] <= PowerOf2[k]
<1> DEFINE P == {n \in Nat : PowerOf2[j] <= PowerOf2[j + n]}
<1>1. 0 \in P
  BY PowerOf2Def
<1>2. ASSUME NEW n \in Nat, n \in P PROVE n + 1 \in P
  <2>1. j + n \in Nat /\ j + (n + 1) = (j + n) + 1
    OBVIOUS
  <2>2. PowerOf2[j + (n + 1)] = 2 * PowerOf2[j + n] /\ PowerOf2[j + n] \in Nat \ {0}
        /\ PowerOf2[j] \in Nat
    BY <2>1, PowerOf2Def
  <2> QED BY <1>2, <2>2
<1> HIDE DEF P
<1>3. Nat \subseteq P
  BY <1>1, <1>2, SetInduction
<1>4. k - j \in P /\ j + (k - j) = k
  BY <1>3
<1> QED BY <1>4 DEF P

(* Faster than the exponent times what they start from. *)
LEMMA PowersAbove ==
  ASSUME NEW a \in Nat, NEW b \in Nat
  PROVE  b * PowerOf2[a] < PowerOf2[a + b]
<1> DEFINE P == {n \in Nat : n * PowerOf2[a] < PowerOf2[a + n]}
<1>1. 0 \in P
  BY PowerOf2Def
<1>2. ASSUME NEW n \in Nat, n \in P PROVE n + 1 \in P
  <2>1. a + n \in Nat /\ a + (n + 1) = (a + n) + 1
    OBVIOUS
  <2>2. PowerOf2[a + (n + 1)] = 2 * PowerOf2[a + n] /\ PowerOf2[a + n] \in Nat \ {0}
        /\ PowerOf2[a] \in Nat \ {0} /\ PowerOf2[a] <= PowerOf2[a + n]
    BY <2>1, PowerOf2Def, PowersGrow
  <2>3. (n + 1) * PowerOf2[a] = n * PowerOf2[a] + PowerOf2[a] /\ n * PowerOf2[a] \in Nat
    BY <2>2
  <2>4. n * PowerOf2[a] < PowerOf2[a + n]
    BY <1>2
  <2> QED BY <2>2, <2>3, <2>4
<1> HIDE DEF P
<1>3. Nat \subseteq P
  BY <1>1, <1>2, SetInduction
<1> QED BY <1>3 DEF P

(* Rounding to the nearest integer is off by at most a half. *)
LEMMA NearestDef ==
  ASSUME NEW a \in Nat, NEW b \in Nat \ {0}
  PROVE  /\ Nearest(a, b) \in Nat
         /\ 2 * (Nearest(a, b) * b) <= 2 * a + b /\ 2 * a <= 2 * (Nearest(a, b) * b) + b
<1> DEFINE q == a \div b
           r == a % b
<1>1. q \in Nat /\ r \in Nat /\ r < b
  OBVIOUS
<1>2. a = q * b + r
  <2>1. a = b * q + r
    OBVIOUS
  <2>2. b * q = q * b
    BY <1>1
  <2> QED BY <2>1, <2>2
<1>3. q * b \in Nat /\ (q + 1) * b = q * b + b
  BY <1>1
<1> HIDE DEF q, r
<1>4. \/ Nearest(a, b) = q /\ 2 * r <= b
      \/ Nearest(a, b) = q + 1 /\ 2 * r >= b
  BY <1>1 DEF Nearest, q, r
<1>5. CASE Nearest(a, b) = q /\ 2 * r <= b
  BY <1>1, <1>2, <1>3, <1>5
<1>6. CASE Nearest(a, b) = q + 1 /\ 2 * r >= b
  BY <1>1, <1>2, <1>3, <1>6
<1> QED BY <1>4, <1>5, <1>6

LEMMA MinSignificandType == MinSignificand \in Nat \ {0}
  BY PrecisionAssumption, PowerOf2Def DEF MinSignificand

(* Multiplication keeps the order. *)
LEMMA TimesKeepsOrder ==
  ASSUME NEW a \in Int, NEW b \in Int, NEW c \in Nat, a <= b
  PROVE  a * c <= b * c
OBVIOUS

(* There are enough binary places for every number but 0. *)
LEMMA PlacesDef ==
  ASSUME NEW a \in Nat \ {0}, NEW b \in Nat \ {0}
  PROVE  /\ Places(a, b) \in Nat
         /\ a * PowerOf2[Places(a, b)] >= b * MinSignificand
         /\ Places(a, b) > 0 => a * PowerOf2[Places(a, b) - 1] < b * MinSignificand
<1> DEFINE T == {k \in Nat : a * PowerOf2[k] >= b * MinSignificand}
           m == Precision - 1 + b
<1>1. Precision - 1 \in Nat /\ m \in Nat /\ m <= b + Precision
  BY PrecisionAssumption
<1>2. m \in T
  <2>1. b * MinSignificand < PowerOf2[m] /\ PowerOf2[m] \in Nat
    BY <1>1, PowersAbove, PowerOf2Def DEF MinSignificand
  <2> HIDE DEF m
  <2>2. PowerOf2[m] <= a * PowerOf2[m] /\ a * PowerOf2[m] \in Nat
    <3>1. 1 * PowerOf2[m] <= a * PowerOf2[m]
      BY <2>1, TimesKeepsOrder
    <3> QED BY <2>1, <3>1
  <2>3. b * MinSignificand \in Nat
    BY MinSignificandType
  <2> QED BY <1>1, <2>1, <2>2, <2>3
<1> HIDE DEF m
<1>3. PICK k \in T : \A j \in T : k <= j
  <2>1. T \subseteq Nat /\ T # {}
    BY <1>2
  <2> HIDE DEF T
  <2> QED BY <2>1, LeastNatural
<1>4. k \in 0..(b + Precision)
  BY <1>1, <1>2, <1>3, PrecisionAssumption
<1>5. a * PowerOf2[k] >= b * MinSignificand
  BY <1>3
<1>6. k > 0 => a * PowerOf2[k - 1] < b * MinSignificand
  <2> SUFFICES ASSUME k > 0 PROVE a * PowerOf2[k - 1] < b * MinSignificand
    OBVIOUS
  <2>1. k - 1 \in Nat /\ k - 1 \notin T
    BY <1>3
  <2>2. a * PowerOf2[k - 1] \in Nat /\ b * MinSignificand \in Nat
    BY <2>1, PowerOf2Def, MinSignificandType
  <2> QED BY <2>1, <2>2
<1>7. \E n \in 0..(b + Precision) : /\ a * PowerOf2[n] >= b * MinSignificand
                                    /\ n > 0 => a * PowerOf2[n - 1] < b * MinSignificand
  BY <1>4, <1>5, <1>6
<1>8. /\ Places(a, b) \in 0..(b + Precision)
      /\ a * PowerOf2[Places(a, b)] >= b * MinSignificand
      /\ Places(a, b) > 0 => a * PowerOf2[Places(a, b) - 1] < b * MinSignificand
  BY <1>7 DEF Places
<1> QED BY <1>8, PrecisionAssumption

(* A double of num / den: its numerator and its denominator, a power of two. *)
LEMMA DoubleDef ==
  ASSUME NEW a \in Nat \ {0}, NEW b \in Nat \ {0}, NEW m, NEW e,
         m = Double(a, b).num, e = Double(a, b).den
  PROVE  /\ m \in Nat /\ e \in Nat \ {0}
         /\ 2 * (m * b) <= 2 * (a * e) + b /\ 2 * (a * e) <= 2 * (m * b) + b
         /\ b * MinSignificand <= a * e
         /\ e = 1 \/ a * e < 2 * (b * MinSignificand)
         /\ \E k \in Nat : e = PowerOf2[k]
<1> DEFINE k == Places(a, b)
<1>1. k \in Nat /\ a * PowerOf2[k] >= b * MinSignificand
      /\ (k > 0 => a * PowerOf2[k - 1] < b * MinSignificand)
  BY PlacesDef
<1>2. m = Nearest(a * PowerOf2[k], b) /\ e = PowerOf2[k]
  BY DEF Double
<1> HIDE DEF k
<1>3. e \in Nat \ {0} /\ a * e \in Nat /\ b * MinSignificand \in Nat
  BY <1>1, <1>2, PowerOf2Def, MinSignificandType
<1>4. m \in Nat /\ 2 * (m * b) <= 2 * (a * e) + b /\ 2 * (a * e) <= 2 * (m * b) + b
  BY <1>2, <1>3, NearestDef
<1>5. e = 1 \/ a * e < 2 * (b * MinSignificand)
  <2>1. CASE k = 0
    BY <1>2, <2>1, PowerOf2Def
  <2>2. CASE k > 0
    <3>1. k - 1 \in Nat /\ (k - 1) + 1 = k
      BY <1>1, <2>2
    <3>2. e = 2 * PowerOf2[k - 1] /\ PowerOf2[k - 1] \in Nat
      BY <1>2, <3>1, PowerOf2Def
    <3>3. a * e = 2 * (a * PowerOf2[k - 1]) /\ a * PowerOf2[k - 1] \in Nat
      BY <3>2
    <3>4. a * PowerOf2[k - 1] < b * MinSignificand
      BY <1>1, <2>2
    <3> QED BY <1>3, <3>3, <3>4
  <2> QED BY <1>1, <2>1, <2>2
<1>6. b * MinSignificand <= a * e
  BY <1>1, <1>2, <1>3
<1> QED BY <1>1, <1>2, <1>3, <1>4, <1>5, <1>6

(* A double of a number that is not 0 is not 0. *)
LEMMA DoublePositive ==
  ASSUME NEW a \in Nat \ {0}, NEW b \in Nat \ {0}
  PROVE  Double(a, b).num \in Nat \ {0}
<1> DEFINE m == Double(a, b).num
           e == Double(a, b).den
<1>1. m \in Nat /\ e \in Nat \ {0} /\ 2 * (a * e) <= 2 * (m * b) + b
      /\ b * MinSignificand <= a * e
  BY DoubleDef
<1> HIDE DEF m, e
<1>2. b <= b * MinSignificand /\ b * MinSignificand \in Nat /\ a * e \in Nat
  BY <1>1, MinSignificandType
<1>3. m # 0
  <2> SUFFICES ASSUME m = 0 PROVE FALSE
    OBVIOUS
  <2>1. m * b = 0
    OBVIOUS
  <2> QED BY <1>1, <1>2, <2>1
<1> QED BY <1>1, <1>3 DEF m

(* The quotient of a number and a larger one with at most Precision bits stays *)
(* below 1 when it is rounded: it is at least a unit of its last place away.   *)
LEMMA QuotientBelowOne ==
  ASSUME NEW c \in Nat \ {0}, NEW d \in Nat \ {0}, c < d, d <= 2 * MinSignificand,
         NEW m, NEW e, m = Double(c, d).num, e = Double(c, d).den
  PROVE  /\ m \in Nat \ {0} /\ e \in Nat \ {0} /\ m < e
         /\ m <= 2 * MinSignificand
         /\ \/ e <= 2 * MinSignificand
            \/ e >= 4 * MinSignificand
<1> DEFINE h == MinSignificand
<1>1. /\ m \in Nat \ {0} /\ e \in Nat \ {0}
      /\ 2 * (m * d) <= 2 * (c * e) + d
      /\ d * h <= c * e
      /\ e = 1 \/ c * e < 2 * (d * h)
      /\ \E k \in Nat : e = PowerOf2[k]
  BY DoubleDef, DoublePositive
<1>2. h \in Nat \ {0} /\ d <= 2 * h
  BY MinSignificandType
<1>3. e <= 2 * h \/ e >= 4 * h
  <2>1. PICK k \in Nat : e = PowerOf2[k]
    BY <1>1
  <2>2. PowerOf2[Precision] = 2 * h /\ PowerOf2[Precision + 1] = 4 * h
    <3>1. Precision \in Nat /\ Precision - 1 \in Nat /\ (Precision - 1) + 1 = Precision
      BY PrecisionAssumption
    <3>2. PowerOf2[Precision] = 2 * h /\ PowerOf2[Precision + 1] = 2 * PowerOf2[Precision]
      BY <3>1, PowerOf2Def DEF MinSignificand
    <3> QED BY <1>2, <3>2
  <2>3. k <= Precision => e <= 2 * h
    BY <2>1, <2>2, PowersGrow, PrecisionAssumption
  <2>4. k >= Precision + 1 => 4 * h <= e
    BY <2>1, <2>2, PowersGrow, PrecisionAssumption
  <2> QED BY <1>1, <1>2, <2>1, <2>3, <2>4, PrecisionAssumption
<1> HIDE DEF h
<1>4. c * e \in Nat /\ m * d \in Nat /\ d * h \in Nat /\ d * e \in Nat
  BY <1>1, <1>2
<1>5. h < e
  <2>1. c * e < d * e
    BY <1>1, ProductOrder
  <2>2. h * d < e * d
    <3>1. h * d = d * h /\ e * d = d * e
      BY <1>1, <1>2
    <3> QED BY <1>1, <1>4, <2>1, <3>1
  <2> QED BY <1>1, <1>2, <2>2, ProductOrder
<1>6. m < e
  <2> SUFFICES ASSUME e <= m PROVE FALSE
    BY <1>1
  <2>1. e * d <= m * d
    BY <1>1, TimesKeepsOrder
  <2>2. (c + 1) * e <= d * e
    BY <1>1, TimesKeepsOrder
  <2>3. (c + 1) * e = c * e + e /\ d * e = e * d
    BY <1>1
  <2>4. 2 * e <= d
    BY <1>1, <1>4, <2>1, <2>2, <2>3
  <2> QED BY <1>1, <1>2, <1>5, <2>4
<1>7. m <= 2 * h
  <2> SUFFICES ASSUME 2 * h + 1 <= m PROVE FALSE
    BY <1>1, <1>2
  <2>1. e # 1
    BY <1>1, <1>2, <1>6
  <2>2. (2 * h + 1) * d <= m * d
    BY <1>1, <1>2, TimesKeepsOrder
  <2>3. (2 * h + 1) * d = 2 * (d * h) + d
    BY <1>2
  <2> QED BY <1>1, <1>4, <2>1, <2>2, <2>3
<1> QED BY <1>1, <1>3, <1>6, <1>7 DEF h

(* A quotient below 1 times a number is rounded below that number. *)
LEMMA ProductBelow ==
  ASSUME NEW n \in Nat \ {0}, NEW e \in Nat \ {0}, n < e, n <= 2 * MinSignificand,
         e <= 2 * MinSignificand \/ e >= 4 * MinSignificand,
         NEW s \in Nat \ {0}, NEW m, NEW f, m = Double(n * s, e).num, f = Double(n * s, e).den
  PROVE  m \in Nat /\ f \in Nat \ {0} /\ m < s * f
<1> DEFINE h == MinSignificand
           x == s * f
<1>1. h \in Nat \ {0} /\ n * s \in Nat \ {0}
  BY MinSignificandType
<1>2. /\ m \in Nat /\ f \in Nat \ {0}
      /\ 2 * (m * e) <= 2 * ((n * s) * f) + e
      /\ e * h <= (n * s) * f
  BY <1>1, DoubleDef
<1>3. x \in Nat \ {0} /\ (n * s) * f = n * x
  BY <1>2
<1> HIDE DEF h, x
<1>4. SUFFICES ASSUME x <= m PROVE FALSE
  BY <1>2, <1>3 DEF x
<1>5. n * x \in Nat /\ e * x \in Nat /\ e * h \in Nat /\ m * e \in Nat
  BY <1>1, <1>2, <1>3
<1>6. 2 * (e * x) <= 2 * (n * x) + e
  <2>1. x * e <= m * e
    BY <1>2, <1>3, <1>4, TimesKeepsOrder
  <2>2. x * e = e * x
    BY <1>3
  <2> QED BY <1>2, <1>3, <1>5, <2>1, <2>2
<1>7. h < x
  <2>1. n * x < e * x
    BY <1>3, ProductOrder
  <2>2. h * e < x * e
    <3>1. h * e = e * h /\ x * e = e * x
      BY <1>1, <1>3
    <3> QED BY <1>2, <1>3, <1>5, <2>1, <3>1
  <2> QED BY <1>1, <1>3, <2>2, ProductOrder
<1>8. CASE e <= 2 * h
  <2>1. (n + 1) * x <= e * x
    BY <1>3, TimesKeepsOrder
  <2>2. (n + 1) * x = n * x + x
    BY <1>3
  <2>3. 2 * x <= e
    BY <1>3, <1>5, <1>6, <2>1, <2>2
  <2> QED BY <1>1, <1>3, <1>7, <1>8, <2>3
<1>9. CASE e >= 4 * h
  <2>1. 2 * n <= e
    BY <1>1, <1>9 DEF h
  <2>2. (2 * n) * x <= e * x
    BY <1>3, <2>1, TimesKeepsOrder
  <2>3. (2 * n) * x = 2 * (n * x)
    BY <1>3
  <2>4. e * x <= e
    BY <1>3, <1>5, <1>6, <2>2, <2>3
  <2>5. 2 * e <= x * e
    <3>1. 2 <= x
      BY <1>1, <1>3, <1>7
    <3> QED BY <1>3, <3>1, TimesKeepsOrder
  <2>6. x * e = e * x
    BY <1>3
  <2> QED BY <1>5, <2>4, <2>5, <2>6
<1> QED BY <1>8, <1>9 DEF h

(* A frame that begins before the end of the session gets a sample, if the time is *)
(* a number of at most Precision bits.                                             *)
LEMMA SampleExists ==
  ASSUME NEW c \in Nat, NEW d \in Nat \ {0}, c < d, d <= 2 * MinSignificand,
         NEW s \in Nat \ {0}
  PROVE  SampleAt(c, d, s) \in 0..s - 1
<1>1. CASE c = 0
  <2>1. Double(c, d) = [num |-> 0, den |-> 1] /\ 0 * s = 0
    BY <1>1 DEF Double
  <2>2. Double(0, 1) = [num |-> 0, den |-> 1] /\ 0 \div 1 = 0
    BY DEF Double
  <2>3. SampleAt(c, d, s) = 0
    BY <2>1, <2>2 DEF SampleAt
  <2> QED BY <2>3
<1>2. CASE c # 0
  <2> DEFINE n == Double(c, d).num
             e == Double(c, d).den
             m == Double(n * s, e).num
             f == Double(n * s, e).den
  <2>1. /\ n \in Nat \ {0} /\ e \in Nat \ {0} /\ n < e /\ n <= 2 * MinSignificand
        /\ e <= 2 * MinSignificand \/ e >= 4 * MinSignificand
    BY <1>2, QuotientBelowOne
  <2>2. SampleAt(c, d, s) = m \div f
    BY DEF SampleAt
  <2> HIDE DEF n, e
  <2>3. m \in Nat /\ f \in Nat \ {0} /\ m < s * f
    BY <2>1, ProductBelow
  <2> HIDE DEF m, f
  <2>4. m \div f \in Nat /\ (m \div f) * f <= m
    BY <2>3, Quotient
  <2>5. (m \div f) * f < s * f
    <3>1. (m \div f) * f \in Nat /\ s * f \in Nat
      BY <2>3, <2>4
    <3> QED BY <2>3, <2>4, <3>1
  <2>6. m \div f < s
    BY <2>3, <2>4, <2>5, ProductOrder
  <2> QED BY <2>2, <2>4, <2>6
<1> QED BY <1>1, <1>2

(* The relative error of a double is at most one in 2^Precision. *)
LEMMA DoubleError ==
  ASSUME NEW a \in Nat \ {0}, NEW b \in Nat \ {0}, NEW m, NEW e,
         m = Double(a, b).num, e = Double(a, b).den, NEW g, g = 2 * MinSignificand
  PROVE  /\ m \in Nat \ {0} /\ e \in Nat \ {0} /\ g \in Nat \ {0}
         /\ (g - 1) * (a * e) <= g * (m * b)
         /\ g * (m * b) <= (g + 1) * (a * e)
<1> DEFINE h == MinSignificand
           x == a * e
           y == m * b
<1>1. /\ m \in Nat \ {0} /\ e \in Nat \ {0} /\ h \in Nat \ {0}
      /\ 2 * y <= 2 * x + b /\ 2 * x <= 2 * y + b /\ b * h <= x
  BY DoubleDef, DoublePositive, MinSignificandType
<1>2. x \in Nat /\ y \in Nat /\ b * h \in Nat
  BY <1>1
<1> HIDE DEF h, x, y
<1>3. (2 * y) * h <= (2 * x + b) * h /\ (2 * x) * h <= (2 * y + b) * h
  BY <1>1, <1>2, TimesKeepsOrder
<1>4. g = 2 * h /\ (2 * y) * h = g * y /\ (2 * x) * h = g * x
      /\ (2 * x + b) * h = g * x + b * h /\ (2 * y + b) * h = g * y + b * h
  BY <1>1, <1>2 DEF h
<1>5. g * x \in Nat /\ g * y \in Nat /\ g \in Nat \ {0}
      /\ (g - 1) * x = g * x - x /\ (g + 1) * x = g * x + x
  BY <1>1, <1>2, <1>4
<1>6. g * y <= g * x + x /\ g * x <= g * y + x
  BY <1>1, <1>2, <1>3, <1>4, <1>5
<1>7. (g - 1) * x <= g * y /\ g * y <= (g + 1) * x
  BY <1>2, <1>5, <1>6
<1> QED BY <1>1, <1>5, <1>7 DEF x, y

(* Two inequations multiplied. *)
LEMMA ChainedProducts ==
  ASSUME NEW g \in Nat, NEW u \in Nat, NEW c \in Nat, NEW d \in Nat, NEW s \in Nat,
         NEW n \in Nat, NEW e \in Nat, NEW m \in Nat, NEW f \in Nat
  PROVE  /\ (g * (n * d)) * (u * (s * f)) = (u * ((n * s) * f)) * (g * d)
         /\ (g * (m * e)) * (g * d) = ((g * g) * (m * d)) * e
         /\ (u * (c * e)) * (u * (s * f)) = ((u * u) * ((c * s) * f)) * e
<1>1. (g * (n * d)) * (u * (s * f)) = (u * ((n * s) * f)) * (g * d)
  OBVIOUS
<1>2. (g * (m * e)) * (g * d) = ((g * g) * (m * d)) * e
  OBVIOUS
<1>3. (u * (c * e)) * (u * (s * f)) = ((u * u) * ((c * s) * f)) * e
  OBVIOUS
<1> QED BY <1>1, <1>2, <1>3

(* Division by a factor keeps the order. *)
LEMMA DivideByFactor ==
  ASSUME NEW a \in Nat, NEW b \in Nat, NEW c \in Nat \ {0}, a * c <= b * c
  PROVE  a <= b
<1>1. b < a <=> b * c < a * c
  BY ProductOrder
<1>2. a * c \in Nat /\ b * c \in Nat
  OBVIOUS
<1> QED BY <1>1, <1>2

(* The two rounded operations of the remix are off by at most two such errors. *)
LEMMA RemixError ==
  ASSUME NEW c \in Nat \ {0}, NEW d \in Nat \ {0}, NEW s \in Nat \ {0},
         NEW n, NEW e, n = Double(c, d).num, e = Double(c, d).den,
         NEW m, NEW f, m = Double(n * s, e).num, f = Double(n * s, e).den,
         NEW g, g = 2 * MinSignificand
  PROVE  /\ m \in Nat /\ f \in Nat \ {0} /\ g \in Nat \ {0}
         /\ ((g - 1) * (g - 1)) * ((c * s) * f) <= (g * g) * (m * d)
         /\ (g * g) * (m * d) <= ((g + 1) * (g + 1)) * ((c * s) * f)
<1>1. /\ n \in Nat \ {0} /\ e \in Nat \ {0} /\ g \in Nat \ {0}
      /\ (g - 1) * (c * e) <= g * (n * d)
      /\ g * (n * d) <= (g + 1) * (c * e)
  BY DoubleError
<1>2. n * s \in Nat \ {0}
  BY <1>1
<1>3. /\ m \in Nat \ {0} /\ f \in Nat \ {0}
      /\ (g - 1) * ((n * s) * f) <= g * (m * e)
      /\ g * (m * e) <= (g + 1) * ((n * s) * f)
  BY <1>1, <1>2, DoubleError
<1> DEFINE A == (g * g) * (m * d)
           B(u) == (u * u) * ((c * s) * f)
           G == g * (n * d)
           K(u) == u * (c * e)
           M == g * (m * e)
           N(u) == u * ((n * s) * f)
           W(u) == u * (s * f)
<1>4. A \in Nat /\ G \in Nat /\ M \in Nat /\ g * d \in Nat
  BY <1>1, <1>3
<1>5. ASSUME NEW u \in Nat
      PROVE  /\ B(u) \in Nat /\ K(u) \in Nat /\ N(u) \in Nat /\ W(u) \in Nat
             /\ G * W(u) = N(u) * (g * d)
             /\ M * (g * d) = A * e
             /\ K(u) * W(u) = B(u) * e
  <2>1. B(u) \in Nat /\ K(u) \in Nat /\ N(u) \in Nat /\ W(u) \in Nat
    BY <1>1, <1>3
  <2> QED BY <1>1, <1>3, <2>1, ChainedProducts
<1>6. g - 1 \in Nat /\ g + 1 \in Nat
  BY <1>1
<1>7. /\ K(g - 1) <= G /\ N(g - 1) <= M /\ G <= K(g + 1) /\ M <= N(g + 1)
  BY <1>1, <1>3
<1> HIDE DEF A, B, G, K, M, N, W
<1>8. \A u \in Nat : /\ K(u) <= G /\ N(u) <= M => B(u) <= A
                     /\ G <= K(u) /\ M <= N(u) => A <= B(u)
  <2> SUFFICES ASSUME NEW u \in Nat
               PROVE  /\ K(u) <= G /\ N(u) <= M => B(u) <= A
                      /\ G <= K(u) /\ M <= N(u) => A <= B(u)
    OBVIOUS
  <2> DEFINE p == g * d
  <2>1. /\ B(u) \in Nat /\ K(u) \in Nat /\ N(u) \in Nat /\ W(u) \in Nat /\ p \in Nat
        /\ G * W(u) = N(u) * p /\ M * p = A * e /\ K(u) * W(u) = B(u) * e
    BY <1>4, <1>5
  <2> HIDE DEF p
  <2>2. A \in Nat /\ G \in Nat /\ M \in Nat /\ e \in Nat \ {0}
    BY <1>1, <1>4
  <2>3. /\ G * W(u) \in Nat /\ K(u) * W(u) \in Nat /\ M * p \in Nat /\ N(u) * p \in Nat
        /\ A * e \in Nat /\ B(u) * e \in Nat
    BY <2>1, <2>2
  <2>4. ASSUME K(u) <= G, N(u) <= M PROVE B(u) <= A
    <3>1. K(u) * W(u) <= G * W(u) /\ N(u) * p <= M * p
      BY <2>1, <2>2, <2>4, TimesKeepsOrder
    <3>2. B(u) * e <= A * e
      BY <2>1, <2>3, <3>1
    <3> QED BY <2>1, <2>2, <3>2, DivideByFactor
  <2>5. ASSUME G <= K(u), M <= N(u) PROVE A <= B(u)
    <3>1. G * W(u) <= K(u) * W(u) /\ M * p <= N(u) * p
      BY <2>1, <2>2, <2>5, TimesKeepsOrder
    <3>2. A * e <= B(u) * e
      BY <2>1, <2>3, <3>1
    <3> QED BY <2>1, <2>2, <3>2, DivideByFactor
  <2> QED BY <2>4, <2>5
<1>9. B(g - 1) <= A /\ A <= B(g + 1)
  BY <1>6, <1>7, <1>8, Zenon
<1> QED BY <1>1, <1>3, <1>9 DEF A, B

(* With at most half of 2^Precision sample times in a session, the rounding does not   *)
(* reach a sample that was not taken when the frame began, nor pass one that was taken *)
(* before.                                                                             *)
LEMMA SampleTaken ==
  ASSUME NEW c \in Nat, NEW d \in Nat \ {0}, c < d, NEW s \in Nat \ {0},
         s * d <= MinSignificand
  PROVE  /\ SampleAt(c, d, s) \in 0..s - 1
         /\ SampleAt(c, d, s) * d <= c * s
         /\ \A j \in 0..s - 1 : j * d < c * s => j <= SampleAt(c, d, s)
<1> DEFINE h == MinSignificand
           z == SampleAt(c, d, s)
           g == 2 * h
<1>1. h \in Nat \ {0} /\ s * d <= h /\ s * d \in Nat /\ c * s \in Nat /\ c * s < s * d
  <2>1. c * s < d * s /\ d * s = s * d
    BY ProductOrder
  <2> QED BY <2>1, MinSignificandType
<1>2. z \in 0..s - 1
  <2>1. d <= 2 * h
    <3>1. 1 * d <= s * d
      BY TimesKeepsOrder
    <3> QED BY <1>1, <3>1
  <2> QED BY <2>1, SampleExists
<1>3. CASE c = 0
  <2>1. Double(c, d) = [num |-> 0, den |-> 1] /\ 0 * s = 0
    BY <1>3 DEF Double
  <2>2. Double(0, 1) = [num |-> 0, den |-> 1] /\ 0 \div 1 = 0
    BY DEF Double
  <2>3. SampleAt(c, d, s) = 0
    BY <2>1, <2>2 DEF SampleAt
  <2>4. c * s = 0 /\ 0 * d = 0
    BY <1>3
  <2>5. \A j \in 0..s - 1 : j * d \in Nat
    OBVIOUS
  <2> QED BY <1>2, <2>3, <2>4, <2>5
<1>4. CASE c # 0
  <2> DEFINE n == Double(c, d).num
             e == Double(c, d).den
             m == Double(n * s, e).num
             f == Double(n * s, e).den
             t == c * s
  <2>1. /\ m \in Nat /\ f \in Nat \ {0}
        /\ ((g - 1) * (g - 1)) * (t * f) <= (g * g) * (m * d)
        /\ (g * g) * (m * d) <= ((g + 1) * (g + 1)) * (t * f)
    BY <1>4, RemixError
  <2>2. z = m \div f
    BY DEF SampleAt
  <2> HIDE DEF n, e, m, f
  <2>3. z \in Nat /\ z * f <= m /\ m < (z + 1) * f
    BY <2>1, <2>2, Quotient
  <2>4. t \in Nat /\ t + 1 <= s * d
    BY <1>1
  <2> HIDE DEF z, t, h
  <2>5. /\ (g - 1) * (g - 1) = 4 * (h * h) - 4 * h + 1
        /\ (g + 1) * (g + 1) = 4 * (h * h) + 4 * h + 1
        /\ g * g = 4 * (h * h) /\ h * h \in Nat
        /\ (g - 1) * (g - 1) \in Nat /\ (g + 1) * (g + 1) \in Nat /\ g * g \in Nat
    BY <1>1
  <2> DEFINE lo == (g - 1) * (g - 1)
             hi == (g + 1) * (g + 1)
             gg == g * g
  <2>6. z * d <= t
    <3> DEFINE w == z * d
    <3>1. w \in Nat /\ w <= h
      <4>1. z * d <= s * d
        BY <1>2, <2>3, TimesKeepsOrder DEF z
      <4> QED BY <1>1, <2>3, <4>1
    <3> SUFFICES ASSUME t + 1 <= w PROVE FALSE
      BY <2>4, <3>1
    <3>2. gg * w <= hi * t
      <4>1. (z * f) * (gg * d) <= m * (gg * d)
        BY <2>1, <2>3, <2>5, TimesKeepsOrder
      <4>2. (z * f) * (gg * d) = (gg * w) * f /\ m * (gg * d) = gg * (m * d)
            /\ hi * (t * f) = (hi * t) * f
        BY <2>1, <2>3, <2>4, <2>5
      <4>3. gg * (m * d) \in Nat /\ (gg * w) * f \in Nat /\ (hi * t) * f \in Nat
            /\ gg * w \in Nat /\ hi * t \in Nat
        BY <2>1, <2>4, <2>5, <3>1
      <4>4. (gg * w) * f <= (hi * t) * f
        BY <2>1, <4>1, <4>2, <4>3
      <4> QED BY <2>1, <4>3, <4>4, DivideByFactor
    <3>3. t * hi <= (w - 1) * hi
      BY <2>4, <2>5, <3>1, TimesKeepsOrder
    <3> HIDE DEF w
    <3>4. (w - 1) * hi = (4 * (h * h)) * w + (4 * h + 1) * w - hi
      BY <1>1, <2>5, <3>1
    <3>5. t * hi = hi * t /\ gg * w = (4 * (h * h)) * w
      BY <2>4, <2>5, <3>1
    <3>6. hi <= (4 * h + 1) * w
      BY <1>1, <2>4, <2>5, <3>1, <3>2, <3>3, <3>4, <3>5
    <3>7. w * (4 * h + 1) <= h * (4 * h + 1)
      BY <1>1, <3>1, TimesKeepsOrder
    <3>8. h * (4 * h + 1) = 4 * (h * h) + h /\ w * (4 * h + 1) = (4 * h + 1) * w
      BY <1>1, <3>1
    <3> QED BY <1>1, <2>5, <3>1, <3>6, <3>7, <3>8
  <2>7. ASSUME NEW j \in 0..s - 1, j * d < t PROVE j <= z
    <3> DEFINE v == j * d
    <3>1. v \in Nat /\ v + 1 <= t /\ v + 1 <= h
      BY <1>1, <2>4, <2>7
    <3> SUFFICES ASSUME z + 1 <= j PROVE FALSE
      BY <2>3
    <3>2. lo * t <= gg * v
      <4>1. m * (gg * d) <= (j * f) * (gg * d)
        <5>1. (z + 1) * f <= j * f
          BY <2>1, <2>3, TimesKeepsOrder
        <5>2. m <= j * f
          <6>1. (z + 1) * f \in Nat /\ j * f \in Nat
            BY <2>1, <2>3
          <6> QED BY <2>1, <2>3, <5>1, <6>1
        <5>3. gg * d \in Nat /\ j * f \in Nat
          BY <2>1, <2>5
        <5> QED BY <2>1, <5>2, <5>3, TimesKeepsOrder
      <4>2. (j * f) * (gg * d) = (gg * v) * f /\ m * (gg * d) = gg * (m * d)
            /\ lo * (t * f) = (lo * t) * f
        BY <2>1, <2>4, <2>5
      <4>3. gg * (m * d) \in Nat /\ (gg * v) * f \in Nat /\ (lo * t) * f \in Nat
            /\ gg * v \in Nat /\ lo * t \in Nat
        BY <2>1, <2>4, <2>5, <3>1
      <4>4. (lo * t) * f <= (gg * v) * f
        BY <2>1, <4>1, <4>2, <4>3
      <4> QED BY <2>1, <4>3, <4>4, DivideByFactor
    <3>3. (v + 1) * lo <= t * lo
      BY <2>4, <2>5, <3>1, TimesKeepsOrder
    <3> HIDE DEF v
    <3>4. (v + 1) * lo = (4 * (h * h)) * v - (4 * h - 1) * v + lo
      BY <1>1, <2>5, <3>1
    <3>5. t * lo = lo * t /\ gg * v = (4 * (h * h)) * v
      BY <2>4, <2>5, <3>1
    <3>6. lo <= (4 * h - 1) * v
      BY <1>1, <2>4, <2>5, <3>1, <3>2, <3>3, <3>4, <3>5
    <3>7. v * (4 * h - 1) <= (h - 1) * (4 * h - 1)
      BY <1>1, <3>1, TimesKeepsOrder
    <3>8. (h - 1) * (4 * h - 1) = 4 * (h * h) - 5 * h + 1 /\ v * (4 * h - 1) = (4 * h - 1) * v
      BY <1>1, <3>1
    <3> QED BY <1>1, <2>5, <3>1, <3>6, <3>7, <3>8
  <2> QED BY <1>2, <2>6, <2>7 DEF z, t
<1> QED BY <1>3, <1>4 DEF z

-------------------------------------------------------------------------------
(* If the samples were taken at equal distances (interface.cpp:59), postprocess() *)
(* gives every frame one that was taken when the frame began, and none older than *)
(* the last one taken before: for every list of frame times whose last is         *)
(* measurable, and any number of samples, as long as the duration times the       *)
(* samples is at most half of 2^Precision.                                        *)
THEOREM RemixTakesLastSample ==
  ASSUME NEW timing \in Seq(Nat), NEW i \in 1..Len(timing), timing[Len(timing)] > 0,
         NEW samples \in Nat \ {0}, samples * Duration(timing) <= MinSignificand, NEW nan
  PROVE  /\ RemixIndex(timing, samples, i, nan) \in 0..samples - 1
         /\ RemixIndex(timing, samples, i, nan) * Duration(timing)
              <= Elapsed(timing)[i - 1] * samples
         /\ \A j \in 0..samples - 1 :
              j * Duration(timing) < Elapsed(timing)[i - 1] * samples
                => j <= RemixIndex(timing, samples, i, nan)
<1> DEFINE c == Elapsed(timing)[i - 1]
           d == Duration(timing)
<1>1. c \in Nat /\ d \in Nat \ {0} /\ c < d
  BY BeforeTheEnd
<1>2. RemixIndex(timing, samples, i, nan) = SampleAt(c, d, samples)
  BY <1>1 DEF RemixIndex
<1> HIDE DEF c
<1>3. samples * d <= MinSignificand
  OBVIOUS
<1> HIDE DEF d
<1>4. /\ SampleAt(c, d, samples) \in 0..samples - 1
      /\ SampleAt(c, d, samples) * d <= c * samples
      /\ \A j \in 0..samples - 1 : j * d < c * samples => j <= SampleAt(c, d, samples)
  BY <1>1, <1>3, SampleTaken
<1> QED BY <1>2, <1>4 DEF c, d

(* A session is no longer than its frames would be if each took as long as one of them. *)
LEMMA DurationAtMost ==
  ASSUME NEW timing \in Seq(Nat), timing # <<>>
  PROVE  Duration(timing) \in Nat
         /\ \E m \in 1..Len(timing) : Duration(timing) <= Len(timing) * timing[m]
<1> DEFINE n == Len(timing)
           T == {b \in Nat : \A k \in 1..n : timing[k] <= b}
<1>1. n \in Nat \ {0} /\ \A k \in 1..n : timing[k] \in Nat
  OBVIOUS
<1>2. Duration(timing) = SumSeq(timing)
  BY DEF Duration, Elapsed, SumSeq
<1>3. SumSeq(timing) \in T
  <2>1. SumSeq(timing) \in Nat /\ \A k \in 1..n : timing[k] <= SumSeq(timing)
    BY <1>1, ElementBelowSum
  <2> QED BY <2>1
<1>4. PICK b \in T : \A x \in T : b <= x
  <2>1. T \subseteq Nat /\ T # {}
    BY <1>3
  <2> HIDE DEF T
  <2> QED BY <2>1, LeastNatural
<1>5. \E m \in 1..n : timing[m] = b
  <2> SUFFICES ASSUME \A m \in 1..n : timing[m] # b PROVE FALSE
    OBVIOUS
  <2>1. \A k \in 1..n : timing[k] <= b - 1
    BY <1>1, <1>4
  <2>2. b - 1 \in T
    BY <1>1, <1>4, <2>1
  <2> QED BY <1>4, <2>2
<1>6. SumSeq(timing) \in Nat /\ SumSeq(timing) <= n * b
  BY <1>1, <1>4, SumAtMost
<1> QED BY <1>2, <1>5, <1>6

(* What is remixed is a session that postprocess() can have. *)
SessionInv ==
  kind = "session" =>
    /\ case.timing \in Seq(Nat) /\ case.samples \in Nat \ {0}
    /\ case.samples * Duration(case.timing) <= MinSignificand

(* The model that computes one session after another, with any frame times, any number *)
(* of frames and any number of samples within RemixAssumption.                         *)
THEOREM LastSampleBeforeFrameHolds == CasesSpec => []LastSampleBeforeFrame
<1>1. CasesInit => SessionInv
  BY DEF CasesInit, SessionInv
<1>2. SessionInv /\ [CasesNext]_caseVars => SessionInv'
  <2> SUFFICES ASSUME SessionInv, [CasesNext]_caseVars PROVE SessionInv'
    OBVIOUS
  <2>1. CASE Session
    <3>1. PICK n \in 1..RemixFrames, samples \in 1..RemixSamples :
            \E timing \in [1..n -> RemixTimes] : case' = [timing |-> timing, samples |-> samples]
      BY <2>1, Zenon DEF Session
    <3>2. PICK timing \in [1..n -> RemixTimes] : case' = [timing |-> timing, samples |-> samples]
      BY <3>1, Zenon
    <3>3. timing \in Seq(Nat) /\ samples \in Nat \ {0} /\ Len(timing) = n
          /\ n \in Nat \ {0} /\ n <= RemixFrames /\ samples <= RemixSamples
      <4>1. n \in Nat \ {0} /\ samples \in Nat \ {0} /\ n <= RemixFrames /\ samples <= RemixSamples
        BY RemixAssumption
      <4>2. timing \in [1..n -> Nat]
        BY RemixAssumption
      <4> QED BY <4>1, <4>2
    <3>5. samples * Duration(timing) <= MinSignificand
      <4>1. Duration(timing) \in Nat
            /\ \E k \in 1..n : Duration(timing) <= n * timing[k]
        BY <3>3, DurationAtMost
      <4>2. PICK k \in 1..n : Duration(timing) <= n * timing[k]
        BY <4>1
      <4> DEFINE t == timing[k]
      <4>3. t \in RemixTimes /\ t \in Nat /\ RemixFrames \in Nat /\ RemixSamples \in Nat
            /\ RemixFrames * t * RemixSamples <= MinSignificand
        BY RemixAssumption
      <4> HIDE DEF t
      <4>4. n * t <= RemixFrames * t
        BY <3>3, <4>3, TimesKeepsOrder
      <4>5. Duration(timing) <= RemixFrames * t /\ RemixFrames * t \in Nat
        <5>1. n * t \in Nat /\ RemixFrames * t \in Nat /\ Duration(timing) <= n * t
          BY <3>3, <4>2, <4>3 DEF t
        <5> QED BY <4>1, <4>4, <5>1
      <4>6. samples * Duration(timing) <= RemixSamples * (RemixFrames * t)
        <5>1. samples * Duration(timing) <= RemixSamples * Duration(timing)
          <6>1. samples \in Int /\ RemixSamples \in Int /\ Duration(timing) \in Nat
                /\ samples <= RemixSamples
            BY <3>3, <4>1, <4>3
          <6> QED BY <6>1, TimesKeepsOrder
        <5>2. Duration(timing) * RemixSamples <= (RemixFrames * t) * RemixSamples
          BY <4>1, <4>3, <4>5, TimesKeepsOrder
        <5>3. /\ Duration(timing) * RemixSamples = RemixSamples * Duration(timing)
              /\ (RemixFrames * t) * RemixSamples = RemixSamples * (RemixFrames * t)
          BY <4>1, <4>3, <4>5
        <5>4. /\ samples * Duration(timing) \in Nat /\ RemixSamples * Duration(timing) \in Nat
              /\ RemixSamples * (RemixFrames * t) \in Nat
          BY <3>3, <4>1, <4>3, <4>5
        <5> QED BY <5>1, <5>2, <5>3, <5>4
      <4>7. RemixSamples * (RemixFrames * t) = RemixFrames * t * RemixSamples
        BY <4>3, <4>5
      <4>8. /\ samples * Duration(timing) \in Nat /\ RemixSamples * (RemixFrames * t) \in Nat
            /\ MinSignificand \in Nat
        BY <3>3, <4>1, <4>3, <4>5, MinSignificandType
      <4> QED BY <4>3, <4>6, <4>7, <4>8
    <3>4. case'.timing = timing /\ case'.samples = samples
      BY <3>2
    <3> QED BY <3>3, <3>4, <3>5 DEF SessionInv
  <2>2. CASE Pack \/ PlainMessage \/ SwitchMessage \/ CamMessage \/ CounterMessage
               \/ TraceBegin \/ TraceSample \/ CaseDone
    <3>1. kind' # "session"
      BY <2>2 DEF Pack, PlainMessage, SwitchMessage, CamMessage, CounterMessage, TraceBegin,
                  TraceSample, CaseDone, Become
    <3> QED BY <3>1 DEF SessionInv
  <2>3. CASE UNCHANGED caseVars
    BY <2>3 DEF caseVars, SessionInv
  <2> QED BY <2>1, <2>2, <2>3 DEF CasesNext
<1>3. SessionInv => LastSampleBeforeFrame
  <2> SUFFICES ASSUME SessionInv, kind = "session", case.timing[Len(case.timing)] > 0,
                      NEW i \in Frames
               PROVE  /\ Index(i) \in 0..case.samples - 1
                      /\ Index(i) * Duration(case.timing)
                           <= Elapsed(case.timing)[i - 1] * case.samples
                      /\ \A j \in 0..case.samples - 1 :
                           j * Duration(case.timing) < Elapsed(case.timing)[i - 1] * case.samples
                             => j <= Index(i)
    BY DEF LastSampleBeforeFrame
  <2>1. /\ case.timing \in Seq(Nat) /\ case.samples \in Nat \ {0} /\ i \in 1..Len(case.timing)
        /\ case.samples * Duration(case.timing) <= MinSignificand
    BY DEF SessionInv, Frames
  <2> QED BY <2>1, RemixTakesLastSample DEF Index
<1> QED BY <1>1, <1>2, <1>3, PTL DEF CasesSpec

(* The remix throws only if the last frame of the session took no measurable   *)
(* time: with any frames, samples and collectors (interface.cpp: postprocess). *)
THEOREM ThrowsOnlyOnEmptyTailHolds == Spec => []ThrowsOnlyOnEmptyTail
<1>1. Init => ThrowsOnlyOnEmptyTail
  BY DEF Init, ThrowsOnlyOnEmptyTail
<1>2. TypeOK /\ TimingInv /\ ThrowsOnlyOnEmptyTail /\ [Next]_vars => ThrowsOnlyOnEmptyTail'
  <2> SUFFICES ASSUME TypeOK, TimingInv, ThrowsOnlyOnEmptyTail, [Next]_vars, outcome' = "out_of_range"
               PROVE  ThrowsOnlyOnEmptyTail'
    BY DEF ThrowsOnlyOnEmptyTail
  <2>1. CASE UNCHANGED <<outcome, mTiming>>
    BY <2>1 DEF ThrowsOnlyOnEmptyTail
  <2>2. CASE JoinOne
    <3>1. Current \in Collectors /\ PostprocessOf(Current) /\ UNCHANGED mTiming /\ outcome = "ok"
      BY <2>2, CurrentType DEF JoinOne
    <3>2. /\ mTiming \in Seq(Nat) /\ Len(mTiming) \in Nat
          /\ \A k \in 1..Len(mTiming) : mTiming[k] \in FrameTimes /\ mTiming[k] \in Nat
      <4>1. mTiming \in Seq(FrameTimes) /\ FrameTimes \subseteq Nat
        BY BoundsAssumption DEF TypeOK
      <4>2. /\ Len(mTiming) \in Nat /\ mTiming = [k \in 1..Len(mTiming) |-> mTiming[k]]
            /\ \A k \in 1..Len(mTiming) : mTiming[k] \in FrameTimes /\ mTiming[k] \in Nat
        BY <4>1
      <4>3. mTiming \in Seq(Nat)
        BY <4>2
      <4> QED BY <4>2, <4>3
    <3>3. PICK nan \in NaNIndices, s \in MadeSlots(Current) :
            list[s] # <<>> /\ ~RemixDefined(mTiming, Len(list[s]), nan)
      BY <3>1 DEF PostprocessOf
    <3>4. Len(list[s]) \in Nat \ {0}
      <4>1. s \in Slots
        BY <3>1, SlotOwner DEF MadeSlots
      <4>2. list[s] \in Seq(Stamp)
        BY <4>1 DEF TypeOK
      <4> QED BY <3>3, <4>2
    <3>5. mTiming # <<>>
      <4>1. mTiming = <<>> => 1..Len(mTiming) = {}
        BY <3>2
      <4> QED BY <3>3, <4>1 DEF RemixDefined
    <3>6. mTiming[Len(mTiming)] = 0
      <4> SUFFICES ASSUME mTiming[Len(mTiming)] # 0 PROVE FALSE
        OBVIOUS
      <4>1. mTiming[Len(mTiming)] > 0
        BY <3>2, <3>5
      <4>2. Duration(mTiming) <= 2 * MinSignificand
        <5>1. PICK k \in 1..Len(mTiming) : Duration(mTiming) <= Len(mTiming) * mTiming[k]
          BY <3>2, <3>5, DurationAtMost
        <5> DEFINE t == mTiming[k]
        <5>2. Duration(mTiming) \in Nat
          BY <3>2, <3>5, DurationAtMost
        <5>3. t \in Nat /\ MaxFrames \in Nat /\ MaxFrames * t <= 2 * MinSignificand
              /\ Len(mTiming) <= MaxFrames
          BY <3>2, BoundsAssumption DEF TimingInv
        <5>4. Duration(mTiming) <= Len(mTiming) * t
          BY <5>1
        <5> HIDE DEF t
        <5>5. Len(mTiming) * t <= MaxFrames * t
          <6>1. Len(mTiming) \in Int /\ MaxFrames \in Int
            BY <3>2, <5>3
          <6> QED BY <5>3, <6>1, TimesKeepsOrder
        <5>6. Len(mTiming) * t \in Nat /\ MaxFrames * t \in Nat /\ 2 * MinSignificand \in Nat
          BY <3>2, <5>3, MinSignificandType
        <5> QED BY <5>2, <5>3, <5>4, <5>5, <5>6
      <4>3. ASSUME NEW i \in 1..Len(mTiming)
            PROVE  RemixIndex(mTiming, Len(list[s]), i, nan) \in 0..Len(list[s]) - 1
        <5>1. /\ Elapsed(mTiming)[i - 1] \in Nat /\ Duration(mTiming) \in Nat \ {0}
              /\ Elapsed(mTiming)[i - 1] < Duration(mTiming)
          BY <3>2, <4>1, BeforeTheEnd
        <5>2. SampleAt(Elapsed(mTiming)[i - 1], Duration(mTiming), Len(list[s]))
                \in 0..Len(list[s]) - 1
          BY <3>4, <4>2, <5>1, SampleExists
        <5> QED BY <5>1, <5>2 DEF RemixIndex
      <4> QED BY <3>3, <4>3 DEF RemixDefined
    <3> QED BY <3>1, <3>5, <3>6 DEF ThrowsOnlyOnEmptyTail
  <2>3. CASE Ended \/ UNCHANGED vars
    BY <2>3, <2>1 DEF Ended, vars
  <2>4. InitializeBegin \/ StartBegin \/ Collect \/ SummarizeBegin \/ StopBegin \/ Destroy
          \/ InitializeOne \/ InitializeEnd \/ StartOne \/ StartEnd \/ SummarizeOne \/ SummarizeEnd
          \/ SignalOne \/ SignalEnd \/ JoinThrows \/ StopEnd
        => outcome' # "out_of_range"
    BY DEF InitializeBegin, StartBegin, Collect, SummarizeBegin, StopBegin, Destroy, InitializeOne,
       InitializeEnd, StartOne, SpawnSampler, StartEnd, SummarizeOne, SummarizeLists, SummarizeEnd,
       SignalOne, SignalEnd, JoinThrows, StopEnd
  <2>5. ASSUME NEW c \in Collectors, Sampler(c) PROVE outcome' # "out_of_range"
    BY <2>5 DEF Sampler, SamplerTest, SamplerCollect, SamplerNap
  <2>6. ASSUME NEW c \in ClientThreaded, UseThreading(c) PROVE outcome' # "out_of_range"
    BY <2>6 DEF UseThreading
  <2> QED BY <2>2, <2>3, <2>4, <2>5, <2>6 DEF Next, InCall
<1> QED BY <1>1, <1>2, TypeCorrect, TimingInvariant, PTL DEF Spec
===============================================================================
