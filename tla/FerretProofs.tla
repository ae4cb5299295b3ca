----------------------------- MODULE FerretProofs -----------------------------
(* Invariance proofs for burrow and the ferret collector, for every finite set   *)
(* of processes and every way they come, go and are reaped; and the proof that   *)
(* the summary of a trace says what its samples say, for every trace.            *)
EXTENDS Ferret, MCAlgorithms, SumProofs, FiniteSetTheorems, TLAPS

USE DEF collectorVars, samplerVars, burrowVars, World, Unmoved

-------------------------------------------------------------------------------
(* The inductive invariant.                                                      *)

\* The sampler exists between Start and Join; the pipe is closed after that.
LifeInv ==
  /\ burrow \in {"initialize", "start"} => sampler = "none" /\ mPids = {}
  /\ sampler # "none" => mCollecting /\ burrow \in {"read", "join"}
  /\ burrow # "done" => open

\* A name is watched for or found, and recording begins when all were found.
FoundInv ==
  /\ sampler # "none" => mWatchList \cup mPids = mProcessNames
  /\ sampler \in {"enumerate", "read"} => mWatchList = {}

\* Only the stat file of a reaped process cannot be read.
GoneInv == \A n \in mProcessNames : mPidFdMap[n] = "gone" => proc[n] = "reaped"

\* A status 0, in the pipe or read, was true when written and stays true.
AllGone == mPids = mProcessNames /\ \A n \in mProcessNames : proc[n] = "reaped"

StatusInv ==
  /\ \A i \in 1..Len(pipe) : pipe[i] = 0 => AllGone
  /\ last_status = 0 => AllGone
  /\ burrow \in {"join", "close", "done"} /\ success => last_status = 0
  /\ burrow = "initialize" => ~success

FInv == TypeOK /\ LifeInv /\ FoundInv /\ GoneInv /\ StatusInv

\* The count of collect() is zero only if every process found is gone.
LEMMA ActiveZero ==
  ASSUME TypeOK, active = 0
  PROVE  \A n \in mPids : mPidFdMap[n] = "gone"
<1> DEFINE G == {n \in mPids : mPidFdMap[n] = "gone"}
<1>1. IsFiniteSet(mPids)
  BY FerretAssumption, FS_Subset DEF TypeOK
<1>2. G \in SUBSET mPids
  OBVIOUS
<1>3. IsFiniteSet(G)
  BY <1>1, <1>2, FS_Subset
<1>4. Cardinality(mPids) \in Nat /\ Cardinality(G) \in Nat
  BY <1>1, <1>3, FS_CardinalityType
<1>5. Cardinality(mPids) = Cardinality(G)
  BY <1>4 DEF active
<1>6. mPids = G
  BY <1>1, <1>2, <1>5, FS_Subset
<1> QED BY <1>6

\* A status written to the pipe.
LEMMA Notified ==
  ASSUME TypeOK, NEW status \in Status, notify(status),
         \A i \in 1..Len(pipe) : pipe[i] = 0 => AllGone, status = 0 => AllGone
  PROVE  /\ pipe' \in Seq(Status) /\ lastStatus' \in Status
         /\ \A i \in 1..Len(pipe') : pipe'[i] = 0 => AllGone
BY DEF notify, TypeOK

\* The invariant holds in every state.
LEMMA FerretInvariant == Spec => []FInv
<1>1. Init => FInv
  <2> SUFFICES ASSUME Init PROVE FInv
    OBVIOUS
  <2>1. TypeOK
    <3>1. proc \in [mProcessNames -> ProcStates]
      BY DEF Init, ProcStates
    <3>2. pipe \in Seq(Status) /\ mPidFdMap \in [mProcessNames -> FdStates]
      BY DEF Init, FdStates
    <3> QED BY <3>1, <3>2 DEF Init, TypeOK, InCollect
  <2>2. LifeInv /\ FoundInv /\ GoneInv
    BY DEF Init, LifeInv, FoundInv, GoneInv
  <2>3. StatusInv
    BY DEF Init, StatusInv, NoStatus
  <2> QED BY <2>1, <2>2, <2>3 DEF FInv
<1>2. FInv /\ [Next]_vars => FInv'
  <2> SUFFICES ASSUME FInv, [Next]_vars PROVE FInv'
    OBVIOUS
  <2> USE DEF FInv
  <2>1. ASSUME NEW n \in mProcessNames, Appear(n) \/ Exit(n) \/ Reap(n) PROVE FInv'
    <3>1. PICK s \in ProcStates : Becomes(n, s) /\ proc[n] # "reaped"
      BY <2>1 DEF Appear, Exit, Reap, ProcStates
    <3>2. /\ UNCHANGED <<clock, collectorVars, samplerVars, finished, burrowVars, pipe, open>>
          /\ proc' \in [mProcessNames -> ProcStates]
          /\ \A m \in mProcessNames : proc[m] = "reaped" => proc'[m] = "reaped"
      BY <3>1 DEF Becomes, TypeOK
    <3>3. AllGone => AllGone'
      BY <3>2 DEF AllGone
    <3> QED BY <3>2, <3>3 DEF TypeOK, LifeInv, FoundInv, GoneInv, StatusInv
  <2>2. CASE Elapse
    BY <2>2 DEF Elapse, TypeOK, LifeInv, FoundInv, GoneInv, StatusInv, AllGone
  <2>3. CASE LoopTest
    BY <2>3 DEF LoopTest, TypeOK, LifeInv, FoundInv, GoneInv, StatusInv, AllGone, InCollect
  <2>4. CASE StillWaiting
    <3>1. /\ sampler = "poll" /\ sampler' = "test"
          /\ UNCHANGED <<todo, mWatchList, mPids, mPidFdMap, Unmoved>>
          /\ notify(-1) \/ UNCHANGED <<lastStatus, pipe>>
      BY <2>4 DEF StillWaiting, Visited
    <3>2. /\ pipe' \in Seq(Status) /\ lastStatus' \in Status \cup {NoStatus}
          /\ \A i \in 1..Len(pipe') : pipe'[i] = 0 => AllGone
      <4>1. CASE notify(-1)
        BY <4>1, Notified DEF StatusInv, Status
      <4>2. CASE UNCHANGED <<lastStatus, pipe>>
        BY <4>2 DEF StatusInv, TypeOK
      <4> QED BY <3>1, <4>1, <4>2
    <3> QED BY <3>1, <3>2 DEF TypeOK, LifeInv, FoundInv, GoneInv, StatusInv, AllGone
  <2>5. CASE AllFound
    <3>1. /\ sampler = "poll" /\ sampler' = "enumerate" /\ mWatchList = {} /\ todo' = mPids
          /\ UNCHANGED <<mWatchList, mPids, mPidFdMap, Unmoved>> /\ notify(1)
      BY <2>5 DEF AllFound, Visited
    <3>2. /\ pipe' \in Seq(Status) /\ lastStatus' \in Status \cup {NoStatus}
          /\ \A i \in 1..Len(pipe') : pipe'[i] = 0 => AllGone
      BY <3>1, Notified DEF StatusInv, Status
    <3> QED BY <3>1, <3>2 DEF TypeOK, LifeInv, FoundInv, GoneInv, StatusInv, AllGone, InCollect
  <2>6. CASE Enumerated
    BY <2>6 DEF Enumerated, Visited, TypeOK, LifeInv, FoundInv, GoneInv, StatusInv, AllGone,
                InCollect
  <2>7. CASE CollectEnd
    <3>1. /\ sampler = "read" /\ sampler' = "test"
          /\ UNCHANGED <<todo, mWatchList, mPids, mPidFdMap, Unmoved>>
          /\ (active = 0 /\ notify(0)) \/ UNCHANGED <<lastStatus, pipe>>
      BY <2>7 DEF CollectEnd, Visited
    <3>2. active = 0 => AllGone
      BY <3>1, ActiveZero DEF FoundInv, GoneInv, AllGone
    <3>3. /\ pipe' \in Seq(Status) /\ lastStatus' \in Status \cup {NoStatus}
          /\ \A i \in 1..Len(pipe') : pipe'[i] = 0 => AllGone
      <4>1. CASE active = 0 /\ notify(0)
        BY <3>2, <4>1, Notified DEF StatusInv, Status
      <4>2. CASE UNCHANGED <<lastStatus, pipe>>
        BY <4>2 DEF StatusInv, TypeOK
      <4> QED BY <3>1, <4>1, <4>2
    <3> QED BY <3>1, <3>3 DEF TypeOK, LifeInv, FoundInv, GoneInv, StatusInv, AllGone
  <2>8. ASSUME NEW n \in mProcessNames, poll_for_named_process(n) PROVE FInv'
    <3>1. /\ sampler = "poll" /\ todo' = todo \ {n}
          /\ mPids \subseteq mPids' /\ mPids' \subseteq mPids \cup {n}
          /\ mWatchList' \subseteq mWatchList
          /\ mWatchList' \cup mPids' = (mWatchList \cup mPids) \cup (mPids' \cap {n})
          /\ UNCHANGED <<sampler, mPidFdMap, lastStatus, pipe, Unmoved>>
      BY <2>8 DEF poll_for_named_process, Visit
    <3>2. AllGone => AllGone'
      BY <3>1 DEF AllGone, TypeOK
    <3> QED BY <3>1, <3>2 DEF TypeOK, LifeInv, FoundInv, GoneInv, StatusInv
  <2>9. ASSUME NEW n \in mProcessNames, enumerate_tasks(n) PROVE FInv'
    <3>1. /\ todo' = todo \ {n} /\ mPidFdMap' \in [mProcessNames -> FdStates]
          /\ \A m \in mProcessNames : mPidFdMap'[m] = "gone" => mPidFdMap[m] = "gone"
          /\ UNCHANGED <<sampler, mWatchList, mPids, lastStatus, pipe, Unmoved>>
      BY <2>9 DEF enumerate_tasks, Visit, TypeOK, FdStates
    <3> QED BY <3>1 DEF TypeOK, LifeInv, FoundInv, GoneInv, StatusInv, AllGone
  <2>10. ASSUME NEW n \in mProcessNames, collect_perproc(n) PROVE FInv'
    <3>1. /\ todo' = todo \ {n} /\ mPidFdMap' \in [mProcessNames -> FdStates]
          /\ \A m \in mProcessNames :
                mPidFdMap'[m] = "gone" => mPidFdMap[m] = "gone" \/ proc[m] = "reaped"
          /\ UNCHANGED <<sampler, mWatchList, mPids, lastStatus, pipe, Unmoved>>
      BY <2>10 DEF collect_perproc, Visit, TypeOK, FdStates
    <3> QED BY <3>1 DEF TypeOK, LifeInv, FoundInv, GoneInv, StatusInv, AllGone
  <2>11. CASE Initialize
    <3>1. TypeOK'
      <4>1. burrow' \in {"start", "close"} /\ success' \in BOOLEAN
        BY <2>11 DEF Initialize
      <4> QED BY <2>11, <4>1 DEF Initialize, TypeOK
    <3>2. LifeInv' /\ FoundInv' /\ GoneInv'
      BY <2>11 DEF Initialize, TypeOK, LifeInv, FoundInv, GoneInv
    <3>3. StatusInv'
      BY <2>11 DEF Initialize, StatusInv, AllGone
    <3> QED BY <3>1, <3>2, <3>3
  <2>12. CASE Start
    <3>1. TypeOK'
      BY <2>12 DEF Start, TypeOK
    <3>2. LifeInv' /\ FoundInv' /\ GoneInv'
      BY <2>12 DEF Start, TypeOK, LifeInv, FoundInv, GoneInv
    <3>3. StatusInv'
      BY <2>12 DEF Start, StatusInv, AllGone
    <3> QED BY <3>1, <3>2, <3>3
  <2>13. CASE Read
    <3>1. /\ burrow = "read" /\ pipe # <<>> /\ pipe' = Tail(pipe) /\ last_status' = Head(pipe)
          /\ UNCHANGED <<World, collectorVars, samplerVars, open>>
          /\ \/ burrow' = "join" /\ finished' = TRUE /\ success' = (success /\ Head(pipe) # -1)
                /\ Head(pipe) \in {-1, 0}
             \/ UNCHANGED <<burrow, finished, success>>
      BY <2>13 DEF Read
    <3>2. /\ pipe' \in Seq(Status) /\ Head(pipe) \in Status /\ Len(pipe') = Len(pipe) - 1
          /\ Len(pipe) \in Nat \ {0} /\ Head(pipe) = pipe[1]
          /\ \A i \in 1..Len(pipe') : pipe'[i] = pipe[i + 1]
      BY <3>1 DEF TypeOK
    <3>3. /\ Head(pipe) = 0 => AllGone
          /\ \A i \in 1..Len(pipe') : pipe'[i] = 0 => AllGone
      BY <3>2 DEF StatusInv
    <3>4. TypeOK'
      BY <3>1, <3>2 DEF TypeOK
    <3>5. LifeInv' /\ FoundInv' /\ GoneInv'
      BY <3>1 DEF LifeInv, FoundInv, GoneInv
    <3>6. StatusInv'
      BY <3>1, <3>3 DEF StatusInv, AllGone
    <3> QED BY <3>4, <3>5, <3>6
  <2>14. CASE Join
    BY <2>14 DEF Join, Joined, TypeOK, LifeInv, FoundInv, GoneInv, StatusInv, AllGone, InCollect
  <2>15. CASE Close
    <3>1. TypeOK'
      BY <2>15 DEF Close, TypeOK
    <3>2. LifeInv' /\ FoundInv' /\ GoneInv'
      BY <2>15 DEF Close, TypeOK, LifeInv, FoundInv, GoneInv
    <3>3. StatusInv'
      BY <2>15 DEF Close, StatusInv, AllGone
    <3> QED BY <3>1, <3>2, <3>3
  <2>16. CASE UNCHANGED vars
    BY <2>16 DEF vars, TypeOK, LifeInv, FoundInv, GoneInv, StatusInv, AllGone
  <2> QED BY <2>1, <2>2, <2>3, <2>4, <2>5, <2>6, <2>7, <2>8, <2>9, <2>10, <2>11, <2>12, <2>13,
             <2>14, <2>15, <2>16 DEF Next, Sampler, Burrow, Done
<1> QED BY <1>1, <1>2, PTL DEF Spec

\* burrow ends with success only when every process it watched has been found and is gone,
\* for any number of processes (ferret.cpp:720, burrow.cpp: monitor).
THEOREM SuccessMeansAllGoneHolds == Spec => []SuccessMeansAllGone
<1>1. FInv => SuccessMeansAllGone
  BY DEF FInv, StatusInv, AllGone, SuccessMeansAllGone
<1> QED BY <1>1, FerretInvariant, PTL

\* No sampler is inside collect() before start() or after stop(), nor after the pipe was
\* closed (ferret.cpp:634).
THEOREM CollectsOnlyWhenStartedHolds == Spec => []CollectsOnlyWhenStarted
<1>1. FInv => CollectsOnlyWhenStarted
  BY DEF FInv, LifeInv, CollectsOnlyWhenStarted, InCollect
<1> QED BY <1>1, FerretInvariant, PTL

-------------------------------------------------------------------------------
(* Folds over sequences.                                                         *)

\* The last index of a beginning of a sequence, and what is before it.
LEMMA LastIndex ==
  ASSUME NEW n \in Nat
  PROVE  /\ Max(1..(n + 1)) = n + 1 /\ (1..(n + 1)) \ {n + 1} = 1..n
         /\ 1..(n + 1) # {} /\ 1..0 = {}
<1>1. /\ n + 1 \in 1..(n + 1) /\ (1..(n + 1)) \ {n + 1} = 1..n /\ 1..0 = {}
  OBVIOUS
<1>2. \A x \in 1..(n + 1) : (\A y \in 1..(n + 1) : x >= y) <=> x = n + 1
  OBVIOUS
<1>3. \E x \in 1..(n + 1) : \A y \in 1..(n + 1) : x >= y
  BY <1>1, <1>2
<1>4. Max(1..(n + 1)) = n + 1
  BY <1>2, <1>3, Zenon DEF Max
<1> QED BY <1>1, <1>4

\* g goes through what FoldLeft does with the first n rows.
IsReading(g, base, rows, n) ==
  g[0] = base /\ \A k \in 1..n : g[k] = ReadRow(g[k - 1], rows[k])

\* The function of FoldLeft's definition, for the indices up to n.
IsReadRec(h, base, rows, n) ==
  h = [s \in SUBSET (1..n) |-> IF s = {} THEN base
                               ELSE ReadRow(h[s \ {Max(s)}], rows[Max(s)])]

\* A beginning of the naturals has a greatest element in each of its subsets.
LEMMA MaxIn ==
  ASSUME NEW n \in Nat, NEW s \in SUBSET (1..n), s # {}
  PROVE  Max(s) \in s /\ \A y \in s : y <= Max(s)
<1> DEFINE P == {m \in Nat : \A t \in SUBSET (1..m) :
                    t # {} => \E x \in t : \A y \in t : x >= y}
<1>1. 0 \in P
  <2>1. \A t \in SUBSET (1..0) : t = {}
    OBVIOUS
  <2> QED BY <2>1, Zenon
<1>2. ASSUME NEW m \in Nat, m \in P PROVE m + 1 \in P
  <2> SUFFICES ASSUME NEW t \in SUBSET (1..(m + 1)), t # {}
               PROVE  \E x \in t : \A y \in t : x >= y
    OBVIOUS
  <2>1. CASE m + 1 \in t
    BY <2>1
  <2>2. CASE m + 1 \notin t
    <3>1. t \in SUBSET (1..m)
      BY <2>2
    <3> QED BY <1>2, <3>1
  <2> QED BY <2>1, <2>2
<1> HIDE DEF P
<1>3. Nat \subseteq P
  BY <1>1, <1>2, SetInduction
<1>4. \E x \in s : \A y \in s : x >= y
  BY <1>3 DEF P
<1>5. Max(s) \in s /\ \A y \in s : Max(s) >= y
  BY <1>4, Zenon DEF Max
<1> QED BY <1>5

\* There is such a function.
LEMMA ReadRecExists ==
  ASSUME NEW base, NEW rows
  PROVE  \A n \in Nat : \E h : IsReadRec(h, base, rows, n)
<1> DEFINE P == {n \in Nat : \E h : IsReadRec(h, base, rows, n)}
<1>1. 0 \in P
  <2>1. SUBSET (1..0) = {{}}
    OBVIOUS
  <2> DEFINE h == [s \in SUBSET (1..0) |-> base]
  <2>2. h = [s \in SUBSET (1..0) |-> IF s = {} THEN base
                                     ELSE ReadRow(h[s \ {Max(s)}], rows[Max(s)])]
    BY <2>1, Zenon
  <2> HIDE DEF h
  <2>3. IsReadRec(h, base, rows, 0)
    BY <2>2, Zenon DEF IsReadRec
  <2> QED BY <2>3
<1>2. ASSUME NEW n \in Nat, n \in P PROVE n + 1 \in P
  <2>1. PICK h : IsReadRec(h, base, rows, n)
    BY <1>2
  <2> DEFINE Next1(s) == IF s = {} THEN base ELSE ReadRow(h[s \ {Max(s)}], rows[Max(s)])
             f == [s \in SUBSET (1..(n + 1)) |-> Next1(s)]
  <2>2. ASSUME NEW s \in SUBSET (1..n) PROVE f[s] = h[s]
    <3>1. s \in SUBSET (1..(n + 1))
      BY <2>2
    <3>2. f[s] = Next1(s)
      BY <3>1, Zenon
    <3>3. h[s] = Next1(s)
      BY <2>1, <2>2, Zenon DEF IsReadRec
    <3> QED BY <3>2, <3>3
  <2>3. ASSUME NEW s \in SUBSET (1..(n + 1)), s # {} PROVE s \ {Max(s)} \in SUBSET (1..n)
    <3> HIDE DEF f
    <3> DEFINE x == Max(s)
    <3>1. n + 1 \in Nat
      OBVIOUS
    <3>2. x \in s /\ \A y \in s : y <= x
      BY <2>3, <3>1, MaxIn, Zenon
    <3> HIDE DEF x
    <3>3. s \ {x} \in SUBSET (1..n)
      BY <3>2
    <3> QED BY <3>3 DEF x
  <2>4. ASSUME NEW s \in SUBSET (1..(n + 1))
        PROVE  f[s] = IF s = {} THEN base ELSE ReadRow(f[s \ {Max(s)}], rows[Max(s)])
    <3>1. f[s] = Next1(s)
      BY Zenon
    <3>2. s # {} => f[s \ {Max(s)}] = h[s \ {Max(s)}]
      BY <2>2, <2>3, Zenon
    <3> QED BY <3>1, <3>2, Zenon
  <2>5. f = [s \in SUBSET (1..(n + 1)) |-> f[s]]
    BY Zenon
  <2> HIDE DEF f
  <2>6. IsReadRec(f, base, rows, n + 1)
    BY <2>4, <2>5, Zenon DEF IsReadRec
  <2> QED BY <2>6
<1> HIDE DEF P
<1>3. Nat \subseteq P
  BY <1>1, <1>2, SetInduction
<1> QED BY <1>3 DEF P

\* Reading rows is a loop.
LEMMA ReadingLoop ==
  ASSUME NEW base, NEW rows, NEW n \in Nat, DOMAIN rows = 1..n
  PROVE  \E g : IsReading(g, base, rows, n) /\ FoldLeft(ReadRow, base, rows) = g[n]
<1> DEFINE h == CHOOSE h : IsReadRec(h, base, rows, n)
<1>1. IsReadRec(h, base, rows, n)
  BY ReadRecExists, Zenon
<1>2. h = CHOOSE x : x = [s \in SUBSET (DOMAIN rows) |-> IF s = {} THEN base
                            ELSE ReadRow(x[s \ {Max(s)}], rows[Max(s)])]
  BY Zenon DEF IsReadRec
<1> HIDE DEF h
<1>3. FoldLeft(ReadRow, base, rows) = h[DOMAIN rows]
  BY <1>2, Zenon DEF FoldLeft, MapThenFoldSet
<1> DEFINE g == [k \in 0..n |-> h[1..k]]
<1>4. g[0] = base
  <2>1. g[0] = h[{}] /\ {} \in SUBSET (1..n)
    OBVIOUS
  <2>2. h[{}] = base
    BY <1>1, <2>1, Zenon DEF IsReadRec
  <2> QED BY <2>1, <2>2
<1>5. ASSUME NEW k \in 1..n PROVE g[k] = ReadRow(g[k - 1], rows[k])
  <2>1. /\ g[k] = h[1..k] /\ g[k - 1] = h[1..(k - 1)] /\ 1..k \in SUBSET (1..n)
        /\ k - 1 \in Nat /\ (k - 1) + 1 = k
    OBVIOUS
  <2> HIDE DEF g
  <2>2. Max(1..k) = k /\ (1..k) \ {k} = 1..(k - 1) /\ 1..k # {}
    BY <2>1, LastIndex
  <2>3. h[1..k] = ReadRow(h[(1..k) \ {Max(1..k)}], rows[Max(1..k)])
    BY <1>1, <2>1, <2>2, Zenon DEF IsReadRec
  <2> QED BY <2>1, <2>2, <2>3, Zenon
<1>6. g[n] = h[DOMAIN rows]
  OBVIOUS
<1> HIDE DEF g
<1>7. IsReading(g, base, rows, n)
  BY <1>4, <1>5, Zenon DEF IsReading
<1> QED BY <1>3, <1>6, <1>7, Zenon

-------------------------------------------------------------------------------
(* The rows of a sample.                                                         *)

\* SetToSeq lists a finite set, every element once.
LEMMA SetListed ==
  ASSUME NEW S, IsFiniteSet(S)
  PROVE  /\ Cardinality(S) \in Nat /\ SetToSeq(S) \in [1..Cardinality(S) -> S]
         /\ \A x \in S : \E k \in 1..Cardinality(S) : SetToSeq(S)[k] = x
<1> DEFINE n == Cardinality(S)
           q == SetToSeq(S)
<1>1. n \in Nat /\ ExistsBijection(1..n, S)
  BY FS_CardinalityType
<1>2. \E f \in [1..n -> S] : IsInjective(f)
  <2>1. PICK f \in [1..n -> S] : \A a, b \in 1..n : f[a] = f[b] => a = b
    BY <1>1 DEF ExistsBijection, Bijection, Injection, Surjection, IsInjective
  <2> QED BY <2>1 DEF IsInjective
<1>3. q \in [1..n -> S] /\ IsInjective(q)
  BY <1>2, Zenon DEF SetToSeq
<1> HIDE DEF q
<1>4. q \in Injection(1..n, S)
  BY <1>3 DEF Injection, IsInjective
<1>5. Cardinality(1..n) = n
  BY <1>1, FS_Interval
<1>6. q \in Surjection(1..n, S)
  BY <1>4, <1>5, FS_Injection
<1>7. \A x \in S : \E k \in 1..n : q[k] = x
  BY <1>6 DEF Surjection
<1> QED BY <1>1, <1>3, <1>7 DEF q

\* A trace in the course of being read.
TraceAs(state, history, started, start, end) ==
  [state |-> state, pidHistory |-> history, started |-> started,
   traceStart |-> start, traceEnd |-> end]

\* The sample ferret_process_* have read so far.
StateOf(time, threads, freqs) == [time |-> time, pid |-> threads, cpu |-> freqs]

\* The threads of a sample are indexed by their pids.
IsThreads(threads) ==
  /\ threads = [i \in DOMAIN threads |-> threads[i]] /\ IsFiniteSet(DOMAIN threads)
  /\ \A i \in DOMAIN threads : threads[i].type = "S" /\ threads[i].pid = i

\* A T row: the sample before is accounted for, and a new one begins.
LEMMA ReadTime ==
  ASSUME NEW t, NEW time, NEW a, NEW h, NEW b, NEW x, NEW y, SampleDone(t) = TraceAs(a, h, b, x, y)
  PROVE  ReadRow(t, [type |-> "T", time |-> time]) =
           TraceAs(StateOf(time, Nothing, Nothing), h, b, x, y)
<1> DEFINE d == SampleDone(t)
           row == [type |-> "T", time |-> time]
<1>1. ReadRow(t, row) = ferret_process_time(d, row)
  BY DEF ReadRow
<1>2. d = TraceAs(a, h, b, x, y)
  OBVIOUS
<1> HIDE DEF d
<1> QED BY <1>1, <1>2 DEF ferret_process_time, TraceAs, StateOf

\* An F row.
LEMMA ReadFreqs ==
  ASSUME NEW time, NEW freqs, NEW h, NEW b, NEW x, NEW y, NEW p, NEW c
  PROVE  ReadRow(TraceAs(StateOf(time, p, c), h, b, x, y), [type |-> "F", freqs |-> freqs]) =
           TraceAs(StateOf(time, p, freqs), h, b, x, y)
BY DEF ReadRow, ferret_process_cpu, TraceAs, StateOf

\* The threads found after one row more.
WithRow(threads, row) == Assigned(threads, [i \in {row.pid} |-> row])

\* An S row.
LEMMA ReadStatus ==
  ASSUME NEW time, NEW freqs, NEW h, NEW b, NEW x, NEW y, NEW p, NEW row, row.type = "S"
  PROVE  ReadRow(TraceAs(StateOf(time, p, freqs), h, b, x, y), row) =
           TraceAs(StateOf(time, WithRow(p, row), freqs), h, b, x, y)
<1> DEFINE t == TraceAs(StateOf(time, p, freqs), h, b, x, y)
           new == WithRow(t.state.pid, row)
<1>1. ReadRow(t, row) = ferret_process_status(t, row)
  BY DEF ReadRow
<1>2. ferret_process_status(t, row) = [t EXCEPT !.state.pid = new]
  BY Zenon DEF ferret_process_status, WithRow
<1>3. t.state.pid = p
  BY DEF TraceAs, StateOf
<1>4. new = WithRow(p, row)
  BY <1>3, Zenon
<1> HIDE DEF new
<1>5. [t EXCEPT !.state.pid = new] = TraceAs(StateOf(time, new, freqs), h, b, x, y)
  BY DEF TraceAs, StateOf
<1> HIDE DEF t
<1> QED BY <1>1, <1>2, <1>4, <1>5 DEF t

\* Time and frequencies come first, then the threads one after the other.
LEMMA RowsOf ==
  ASSUME NEW s, NEW n \in Nat, n = Cardinality(DOMAIN s.threads)
  PROVE  /\ DOMAIN Rows(s) = 1..(n + 2)
         /\ Rows(s)[1] = [type |-> "T", time |-> s.time]
         /\ Rows(s)[2] = [type |-> "F", freqs |-> s.freqs]
         /\ \A k \in 1..n : Rows(s)[k + 2] = s.threads[SetToSeq(DOMAIN s.threads)[k]]
<1> DEFINE a == [type |-> "T", time |-> s.time]
           b == [type |-> "F", freqs |-> s.freqs]
           st(k) == s.threads[SetToSeq(DOMAIN s.threads)[k]]
           q == [k \in 1..n |-> st(k)]
<1>1. Rows(s) = <<a, b>> \o q
  BY Zenon DEF Rows
<1>2. DOMAIN q = 1..n /\ \A k \in 1..n : q[k] = st(k)
  BY Zenon
<1>3. Len(q) = n
  BY <1>2
<1> HIDE DEF a, b, q, st
<1> DEFINE r == <<a, b>> \o q
<1>4. /\ Len(<<a, b>>) = 2 /\ r = [k \in 1..(2 + n) |-> IF k <= 2 THEN <<a, b>>[k] ELSE q[k - 2]]
  BY <1>3
<1>5. DOMAIN r = 1..(n + 2) /\ r[1] = a /\ r[2] = b
  BY <1>4
<1>6. ASSUME NEW k \in 1..n PROVE r[k + 2] = st(k)
  <2>1. r[k + 2] = q[(k + 2) - 2] /\ (k + 2) - 2 = k
    BY <1>4
  <2> QED BY <1>2, <2>1
<1> HIDE DEF r
<1>7. Rows(s) = r
  BY <1>1 DEF r
<1>8. \A k \in 1..n : Rows(s)[k + 2] = st(k)
  BY <1>6, <1>7
<1>9. DOMAIN Rows(s) = 1..(n + 2) /\ Rows(s)[1] = a /\ Rows(s)[2] = b
  BY <1>5, <1>7
<1> QED BY <1>8, <1>9, Zenon DEF st, a, b

\* The threads of the first rows.
FirstThreads(threads, q, k) == [i \in {q[j] : j \in 1..k} |-> threads[i]]

\* One of them more.
LEMMA ThreadAdded ==
  ASSUME NEW threads, NEW q, NEW k \in Nat, threads[q[k + 1]].pid = q[k + 1]
  PROVE  WithRow(FirstThreads(threads, q, k), threads[q[k + 1]])
           = FirstThreads(threads, q, k + 1)
<1> DEFINE x == q[k + 1]
           D(m) == {q[j] : j \in 1..m}
           a == FirstThreads(threads, q, k)
           b == FirstThreads(threads, q, k + 1)
           c == Assigned(a, [i \in {x} |-> threads[x]])
<1>1. D(k + 1) = {x} \cup D(k)
  <2>1. 1..(k + 1) = 1..k \cup {k + 1}
    OBVIOUS
  <2> QED BY <2>1, Zenon
<1>2. /\ DOMAIN a = D(k) /\ \A i \in D(k) : a[i] = threads[i]
      /\ b = [i \in D(k + 1) |-> threads[i]]
  BY Zenon DEF FirstThreads
<1> HIDE DEF a, b, D, x
<1>3. c = [i \in D(k) \cup {x} |-> IF i \in {x} THEN threads[x] ELSE a[i]]
  <2> DEFINE e == [i \in {x} |-> threads[x]]
  <2>1. DOMAIN e = {x} /\ e[x] = threads[x]
    OBVIOUS
  <2> HIDE DEF e
  <2>2. c = [i \in (DOMAIN a) \cup (DOMAIN e) |-> IF i \in DOMAIN e THEN e[i] ELSE a[i]]
    BY Zenon DEF Assigned, e
  <2> QED BY <1>2, <2>1, <2>2
<1>4. \A i \in {x} \cup D(k) : (IF i \in {x} THEN threads[x] ELSE a[i]) = threads[i]
  BY <1>2
<1>5. c = b
  BY <1>1, <1>2, <1>3, <1>4
<1> QED BY <1>5, Zenon DEF a, b, c, x, WithRow

\* What a sample's rows make of a trace.
AfterSample(t, s) == FoldLeft(ReadRow, t, Rows(s))

\* It is read, and the sample before it is accounted for.
LEMMA SampleRead ==
  ASSUME NEW t, NEW s, NEW a, NEW h, NEW b, NEW x, NEW y, IsThreads(s.threads),
         SampleDone(t) = TraceAs(a, h, b, x, y)
  PROVE  AfterSample(t, s) = TraceAs(StateOf(s.time, s.threads, s.freqs), h, b, x, y)
<1> DEFINE S == DOMAIN s.threads
           n == Cardinality(S)
           q == SetToSeq(S)
           F(k) == FirstThreads(s.threads, q, k)
           T(p, c) == TraceAs(StateOf(s.time, p, c), h, b, x, y)
<1>1. n \in Nat /\ q \in [1..n -> S] /\ \A i \in S : \E k \in 1..n : q[k] = i
  BY SetListed DEF IsThreads
<1>2. /\ DOMAIN Rows(s) = 1..(n + 2)
      /\ Rows(s)[1] = [type |-> "T", time |-> s.time]
      /\ Rows(s)[2] = [type |-> "F", freqs |-> s.freqs]
      /\ \A k \in 1..n : Rows(s)[k + 2] = s.threads[q[k]]
  BY <1>1, RowsOf
<1>3. \A i \in S : s.threads[i].type = "S" /\ s.threads[i].pid = i
  BY DEF IsThreads
<1> HIDE DEF n, q
<1>4. n + 2 \in Nat
  BY <1>1
<1>5. PICK g : IsReading(g, t, Rows(s), n + 2) /\ FoldLeft(ReadRow, t, Rows(s)) = g[n + 2]
  <2> DEFINE m == n + 2
             rows == Rows(s)
  <2>1. m \in Nat /\ DOMAIN rows = 1..m
    BY <1>2, <1>4
  <2> HIDE DEF m, rows
  <2>2. \E g : IsReading(g, t, rows, m) /\ FoldLeft(ReadRow, t, rows) = g[m]
    BY <2>1, ReadingLoop, Zenon
  <2> QED BY <2>2, Zenon DEF m, rows
<1>6. g[1] = T(Nothing, Nothing)
  <2>1. 1 \in 1..(n + 2) /\ 1 - 1 = 0
    BY <1>1
  <2>2. g[1] = ReadRow(t, [type |-> "T", time |-> s.time])
    BY <1>2, <1>5, <2>1 DEF IsReading
  <2>3. ReadRow(t, [type |-> "T", time |-> s.time]) = T(Nothing, Nothing)
    BY ReadTime
  <2> QED BY <2>2, <2>3
<1>7. g[2] = T(Nothing, s.freqs)
  <2>1. 2 \in 1..(n + 2) /\ 2 - 1 = 1
    BY <1>1
  <2>2. g[2] = ReadRow(g[1], [type |-> "F", freqs |-> s.freqs])
    BY <1>2, <1>5, <2>1 DEF IsReading
  <2>3. ReadRow(T(Nothing, Nothing), [type |-> "F", freqs |-> s.freqs]) = T(Nothing, s.freqs)
    BY ReadFreqs
  <2> QED BY <1>6, <2>2, <2>3
<1> DEFINE P == {k \in Nat : k <= n => g[k + 2] = T(F(k), s.freqs)}
<1>8. 0 \in P
  <2>1. F(0) = Nothing
    <3>1. {q[j] : j \in 1..0} = {}
      OBVIOUS
    <3>2. F(0) = [i \in {} |-> s.threads[i]]
      BY <3>1, Zenon DEF FirstThreads
    <3> QED BY <3>2 DEF Nothing
  <2>2. g[0 + 2] = T(F(0), s.freqs)
    BY <1>7, <2>1
  <2> QED BY <2>2
<1>9. ASSUME NEW k \in Nat, k \in P PROVE k + 1 \in P
  <2> SUFFICES ASSUME k + 1 <= n PROVE g[(k + 1) + 2] = T(F(k + 1), s.freqs)
    OBVIOUS
  <2> DEFINE row == s.threads[q[k + 1]]
  <2>1. /\ k + 1 \in 1..n /\ (k + 1) + 2 \in 1..(n + 2) /\ ((k + 1) + 2) - 1 = k + 2 /\ k <= n
    BY <1>1
  <2>2. q[k + 1] \in S
    BY <1>1, <2>1
  <2>3. g[(k + 1) + 2] = ReadRow(g[k + 2], row)
    <3>1. g[(k + 1) + 2] = ReadRow(g[((k + 1) + 2) - 1], Rows(s)[(k + 1) + 2])
      BY <1>5, <2>1, Zenon DEF IsReading
    <3>2. Rows(s)[(k + 1) + 2] = row
      BY <1>2, <2>1, Zenon
    <3> QED BY <2>1, <3>1, <3>2, Zenon
  <2>4. row.type = "S" /\ row.pid = q[k + 1]
    BY <1>3, <2>2, Zenon
  <2>5. g[k + 2] = T(F(k), s.freqs)
    BY <1>9, <2>1
  <2>6. ReadRow(T(F(k), s.freqs), row) = T(WithRow(F(k), row), s.freqs)
    <3> HIDE DEF row, F
    <3>1. row.type = "S"
      BY <2>4
    <3> QED BY <3>1, ReadStatus
  <2>7. WithRow(F(k), row) = F(k + 1)
    BY <2>4, ThreadAdded, Zenon
  <2> QED BY <2>3, <2>5, <2>6, <2>7, Zenon
<1>10. n \in P
  <2> HIDE DEF P
  <2>1. Nat \subseteq P
    BY <1>8, <1>9, SetInduction
  <2> QED BY <1>1, <2>1
<1>11. F(n) = s.threads
  <2>1. {q[j] : j \in 1..n} = S
    BY <1>1
  <2>2. F(n) = [i \in S |-> s.threads[i]]
    BY <2>1, Zenon DEF FirstThreads
  <2> QED BY <2>2 DEF IsThreads
<1>12. g[n + 2] = T(F(n), s.freqs)
  BY <1>1, <1>10
<1> QED BY <1>5, <1>11, <1>12, Zenon DEF AfterSample

-------------------------------------------------------------------------------
(* What the samples say of a thread.                                             *)

\* What a sample may have found of the threads, and a sample.
SampleThreads ==
  UNION {[live -> [type : {"S"}, pid : Pids, comm : STRING, ustime : Nat, processor : Cpus]] :
           live \in SUBSET Pids}

SampleSet == [time : Nat \ {0}, freqs : Frequencies, threads : SampleThreads]

\* Samples of threads whose time never goes back.
Readings(ss) ==
  /\ ss \in Seq(SampleSet)
  /\ \A k \in 1..Len(ss) : \A i \in DOMAIN ss[k].threads :
       /\ ss[k].threads[i].pid = i
       /\ \A j \in 1..k : i \in DOMAIN ss[j].threads => UsTime(ss, i, j) <= UsTime(ss, i, k)

\* Sample k found thread i under a name that is not ignored.
Sees(ss, k, i) ==
  i \in DOMAIN ss[k].threads /\ ss[k].threads[i].comm \notin BannedThreads

\* Threads are records.
LEMMA ThreadType ==
  ASSUME NEW threads \in SampleThreads
  PROVE  /\ DOMAIN threads \in SUBSET Pids
         /\ threads = [i \in DOMAIN threads |-> threads[i]]
         /\ \A i \in DOMAIN threads :
              threads[i].type = "S" /\ threads[i].ustime \in Nat /\ threads[i].processor \in Cpus
<1> DEFINE R == [type : {"S"}, pid : Pids, comm : STRING, ustime : Nat, processor : Cpus]
<1>1. PICK live \in SUBSET Pids : threads \in [live -> R]
  BY DEF SampleThreads
<1>2. \A r \in R : r.type = "S" /\ r.ustime \in Nat /\ r.processor \in Cpus
  OBVIOUS
<1> HIDE DEF R
<1> QED BY <1>1, <1>2

\* What a sample holds.
LEMMA SampleType ==
  ASSUME NEW ss, Readings(ss), NEW k \in 1..Len(ss)
  PROVE  /\ ss[k] \in SampleSet /\ ss[k].time \in Nat \ {0} /\ ss[k].freqs \in Frequencies
         /\ ss[k].threads \in SampleThreads
         /\ \A i : Sees(ss, k, i) =>
              i \in Pids /\ UsTime(ss, i, k) \in Nat /\ ss[k].threads[i].processor \in Cpus
<1>1. ss[k] \in SampleSet
  <2> HIDE DEF SampleSet
  <2> QED BY DEF Readings
<1>2. /\ ss[k].time \in Nat \ {0} /\ ss[k].freqs \in Frequencies
      /\ ss[k].threads \in SampleThreads
  <2> DEFINE x == ss[k]
  <2>1. x \in SampleSet
    BY <1>1
  <2> HIDE DEF x
  <2>2. x.time \in Nat \ {0} /\ x.freqs \in Frequencies /\ x.threads \in SampleThreads
    BY <2>1 DEF SampleSet
  <2> QED BY <2>2 DEF x
<1>3. ASSUME NEW i, Sees(ss, k, i)
      PROVE  i \in Pids /\ UsTime(ss, i, k) \in Nat /\ ss[k].threads[i].processor \in Cpus
  <2>1. i \in DOMAIN ss[k].threads
    BY <1>3, Zenon DEF Sees
  <2> DEFINE r == ss[k].threads
  <2>2. r \in SampleThreads /\ i \in DOMAIN r
    BY <1>2, <2>1
  <2> HIDE DEF r
  <2>3. i \in Pids /\ r[i].ustime \in Nat /\ r[i].processor \in Cpus
    BY <2>2, ThreadType
  <2> QED BY <2>3 DEF r, UsTime
<1> QED BY <1>1, <1>2, <1>3, Zenon

\* A frequency that was not read is 0.
LEMMA FreqType ==
  ASSUME NEW ss, Readings(ss), NEW k \in 1..Len(ss), NEW c
  PROVE  Freq(ss, c, k) \in Nat
<1>1. ss[k].freqs \in Frequencies
  BY SampleType, Zenon
<1> QED BY <1>1, TraceAssumption DEF Freq

\* The samples a thread was seen in.
LEMMA SeenNext ==
  ASSUME NEW ss, NEW n \in Nat, NEW i
  PROVE  /\ SeenIn(ss, 0, i) = {}
         /\ SeenIn(ss, n, i) \in SUBSET (1..n)
         /\ \A k \in 1..n : k \in SeenIn(ss, n, i) <=> Sees(ss, k, i)
         /\ SeenIn(ss, n + 1, i) = SeenIn(ss, n, i) \cup (IF Sees(ss, n + 1, i) THEN {n + 1} ELSE {})
<1> DEFINE S(m) == {k \in 1..m : Sees(ss, k, i)}
<1>1. \A m : SeenIn(ss, m, i) = S(m)
  BY Zenon DEF SeenIn, Sees
<1>2. /\ S(0) = {} /\ S(n) \in SUBSET (1..n)
      /\ \A k \in 1..n : k \in S(n) <=> Sees(ss, k, i)
      /\ S(n + 1) = S(n) \cup (IF Sees(ss, n + 1, i) THEN {n + 1} ELSE {})
  <2> HIDE DEF Sees
  <2> QED OBVIOUS
<1> HIDE DEF S
<1> QED BY <1>1, <1>2, Zenon

\* The least element of a set of naturals.
LEMMA MinIn ==
  ASSUME NEW s, s \subseteq Nat, s # {}
  PROVE  Min(s) \in s /\ \A y \in s : Min(s) <= y
BY LeastNatural, Zenon DEF Min

\* The first and the last of them.
LEMMA LastSeen ==
  ASSUME NEW ss, NEW n \in Nat, NEW i
  PROVE  /\ Sees(ss, n + 1, i) => Max(SeenIn(ss, n + 1, i)) = n + 1
         /\ ~Sees(ss, n + 1, i) => SeenIn(ss, n + 1, i) = SeenIn(ss, n, i)
         /\ Sees(ss, n + 1, i) /\ SeenIn(ss, n, i) = {} => Min(SeenIn(ss, n + 1, i)) = n + 1
         /\ SeenIn(ss, n, i) # {} => Min(SeenIn(ss, n + 1, i)) = Min(SeenIn(ss, n, i))
<1> DEFINE A == SeenIn(ss, n, i)
           B == SeenIn(ss, n + 1, i)
<1>1. A \in SUBSET (1..n) /\ B = A \cup (IF Sees(ss, n + 1, i) THEN {n + 1} ELSE {})
  BY SeenNext
<1>2. B \in SUBSET (1..(n + 1)) /\ n + 1 \in Nat
  BY <1>1
<1>3. /\ B # {} => Max(B) \in B /\ \A y \in B : y <= Max(B)
      /\ B # {} => Min(B) \in B /\ \A y \in B : Min(B) <= y
      /\ A # {} => Min(A) \in A /\ \A y \in A : Min(A) <= y
  <2>1. B \subseteq Nat /\ A \subseteq Nat
    BY <1>1, <1>2
  <2> HIDE DEF A, B
  <2> QED BY <1>2, <2>1, MaxIn, MinIn, Zenon
<1> HIDE DEF A, B
<1>4. ASSUME Sees(ss, n + 1, i) PROVE Max(B) = n + 1
  <2>1. n + 1 \in B /\ Max(B) \in B /\ n + 1 <= Max(B)
    BY <1>1, <1>3, <1>4
  <2>2. Max(B) \in 1..(n + 1)
    BY <1>2, <2>1
  <2> QED BY <2>1, <2>2
<1>5. ASSUME ~Sees(ss, n + 1, i) PROVE B = A
  BY <1>1, <1>5
<1>6. ASSUME Sees(ss, n + 1, i), A = {} PROVE Min(B) = n + 1
  BY <1>1, <1>3, <1>6
<1>7. ASSUME A # {} PROVE Min(B) = Min(A)
  <2>1. Min(A) \in A /\ Min(B) \in B /\ Min(B) <= Min(A) /\ A # {}
    BY <1>1, <1>3, <1>7
  <2>2. Min(A) \in 1..n /\ Min(B) \in 1..(n + 1)
    BY <1>1, <1>2, <2>1
  <2>3. Min(B) \in A
    BY <1>1, <2>1, <2>2
  <2>4. Min(A) <= Min(B)
    BY <1>3, <2>3
  <2> QED BY <2>1, <2>2, <2>4
<1> QED BY <1>4, <1>5, <1>6, <1>7 DEF A, B

\* What a thread has run since it was seen before.
LEMMA RanType ==
  ASSUME NEW ss, Readings(ss), NEW n \in Nat, n + 1 \in 1..Len(ss), NEW i, NEW c
  PROVE  /\ Ran(ss, i, c, n + 1) \in Nat
         /\ SeenIn(ss, n, i) # {} => UsTime(ss, i, Max(SeenIn(ss, n, i))) \in Nat
         /\ Ran(ss, i, c, n + 1) =
              IF Sees(ss, n + 1, i) /\ SeenIn(ss, n, i) # {}
                   /\ ss[n + 1].threads[i].processor = c
              THEN UsTime(ss, i, n + 1) - UsTime(ss, i, Max(SeenIn(ss, n, i)))
              ELSE 0
<1> DEFINE A == SeenIn(ss, n, i)
           m == Max(A)
           run == UsTime(ss, i, n + 1) - UsTime(ss, i, m)
           there == Sees(ss, n + 1, i) /\ A # {} /\ ss[n + 1].threads[i].processor = c
<1>1. /\ A \in SUBSET (1..n) /\ \A k \in 1..n : k \in A <=> Sees(ss, k, i)
      /\ (n + 1) - 1 = n /\ n + 1 \in 1..(n + 1)
      /\ SeenIn(ss, n + 1, i) = A \cup (IF Sees(ss, n + 1, i) THEN {n + 1} ELSE {})
  BY SeenNext
<1>2. n + 1 \in SeenIn(ss, n + 1, i) <=> Sees(ss, n + 1, i)
  <2> HIDE DEF A
  <2> QED BY <1>1
<1>3. Ran(ss, i, c, n + 1) = IF there THEN run ELSE 0
  <2>1. Ran(ss, i, c, n + 1) =
          IF n + 1 \in SeenIn(ss, n + 1, i) /\ A # {} /\ ss[n + 1].threads[i].processor = c
          THEN run ELSE 0
    BY <1>1 DEF Ran
  <2> HIDE DEF A, run
  <2> QED BY <1>2, <2>1
<1>4. ASSUME A # {} PROVE m \in 1..n /\ Sees(ss, m, i) /\ UsTime(ss, i, m) \in Nat
  <2>1. m \in A
    BY <1>1, <1>4, MaxIn
  <2> HIDE DEF A, m
  <2>2. m \in 1..n /\ Sees(ss, m, i)
    BY <1>1, <2>1
  <2>3. m \in 1..Len(ss)
    BY <2>2 DEF Readings
  <2> QED BY <2>2, <2>3, SampleType
<1>5. ASSUME there PROVE run \in Nat
  <2>1. m \in 1..(n + 1) /\ Sees(ss, m, i) /\ UsTime(ss, i, m) \in Nat
    BY <1>4, <1>5
  <2>2. UsTime(ss, i, n + 1) \in Nat
    BY <1>5, SampleType
  <2>3. i \in DOMAIN ss[m].threads /\ i \in DOMAIN ss[n + 1].threads
    BY <1>5, <2>1, Zenon DEF Sees
  <2> HIDE DEF m, A
  <2>4. UsTime(ss, i, m) <= UsTime(ss, i, n + 1)
    BY <2>1, <2>3, Zenon DEF Readings
  <2> QED BY <2>1, <2>2, <2>4
<1>6. (IF there THEN run ELSE 0) \in Nat
  <2> HIDE DEF there, run
  <2> QED BY <1>5
<1> QED BY <1>3, <1>4, <1>6, Zenon

\* A sequence with an element more has that much greater a sum.
LEMMA SumNext ==
  ASSUME NEW f, NEW g, NEW n \in Nat, f \in [1..n -> Int], g \in [1..(n + 1) -> Int],
         \A k \in 1..n : g[k] = f[k]
  PROVE  SumSeq(g) = SumSeq(f) + g[n + 1]
<1>1. f \in Seq(Int) /\ Len(f) = n /\ g[n + 1] \in Int
  OBVIOUS
<1> DEFINE t == Append(f, g[n + 1])
<1>2. t \in Seq(Int) /\ Len(t) = n + 1 /\ t[n + 1] = g[n + 1] /\ \A k \in 1..n : t[k] = f[k]
  BY <1>1
<1>3. g = t
  <2> HIDE DEF t
  <2>1. t = [k \in 1..(n + 1) |-> t[k]] /\ g = [k \in 1..(n + 1) |-> g[k]]
    BY <1>2
  <2>2. \A k \in 1..(n + 1) : t[k] = g[k]
    BY <1>2
  <2> QED BY <2>1, <2>2
<1> QED BY <1>1, <1>3, SumAppend

\* Time and cycles on a CPU grow by what sample n + 1 adds.
LEMMA RanNext ==
  ASSUME NEW ss, Readings(ss), NEW i, NEW c, NEW n \in Nat, n + 1 \in 1..Len(ss)
  PROVE  /\ RanOn(ss, n, i, c) \in Nat /\ CyclesOn(ss, n, i, c) \in Nat
         /\ RanOn(ss, n + 1, i, c) = RanOn(ss, n, i, c) + Ran(ss, i, c, n + 1)
         /\ CyclesOn(ss, n + 1, i, c) =
              CyclesOn(ss, n, i, c) + Ran(ss, i, c, n + 1) * Freq(ss, c, n + 1)
<1> DEFINE r(k) == Ran(ss, i, c, k)
           y(k) == Ran(ss, i, c, k) * Freq(ss, c, k)
           R(m) == [k \in 1..m |-> r(k)]
           Y(m) == [k \in 1..m |-> y(k)]
<1>1. ASSUME NEW k \in 1..(n + 1) PROVE r(k) \in Nat /\ y(k) \in Nat
  <2>1. k - 1 \in Nat /\ (k - 1) + 1 = k /\ k \in 1..Len(ss)
    BY DEF Readings
  <2>2. Ran(ss, i, c, k) \in Nat
    <3>1. Ran(ss, i, c, (k - 1) + 1) \in Nat
      BY <2>1, RanType
    <3> QED BY <2>1, <3>1
  <2>3. Freq(ss, c, k) \in Nat
    BY <2>1, FreqType
  <2> QED BY <2>2, <2>3
<1> HIDE DEF r, y
<1>2. /\ R(n) \in [1..n -> Nat] /\ R(n + 1) \in [1..(n + 1) -> Nat]
      /\ Y(n) \in [1..n -> Nat] /\ Y(n + 1) \in [1..(n + 1) -> Nat]
      /\ \A k \in 1..n : R(n + 1)[k] = R(n)[k] /\ Y(n + 1)[k] = Y(n)[k]
      /\ R(n + 1)[n + 1] = r(n + 1) /\ Y(n + 1)[n + 1] = y(n + 1)
  BY <1>1
<1> HIDE DEF R, Y
<1>3. SumSeq(R(n)) \in Nat /\ SumSeq(Y(n)) \in Nat
  <2>1. ASSUME NEW f, f \in [1..n -> Nat] PROVE SumSeq(f) \in Nat
    <3>1. f \in Seq(Nat) /\ f \in Seq(Int) /\ Len(f) = n
      BY <2>1
    <3>2. n = 0 => f = <<>>
      BY <3>1
    <3>3. n # 0 => 1 \in 1..Len(f)
      BY <3>1
    <3> QED BY <3>1, <3>2, <3>3, SumEmpty, ElementBelowSum
  <2> QED BY <1>2, <2>1
<1>4. /\ SumSeq(R(n + 1)) = SumSeq(R(n)) + r(n + 1)
      /\ SumSeq(Y(n + 1)) = SumSeq(Y(n)) + y(n + 1)
  <2>1. ASSUME NEW f, NEW g, f \in [1..n -> Nat], g \in [1..(n + 1) -> Nat],
               \A k \in 1..n : g[k] = f[k]
        PROVE  SumSeq(g) = SumSeq(f) + g[n + 1]
    <3>1. f \in [1..n -> Int] /\ g \in [1..(n + 1) -> Int]
      BY <2>1
    <3> QED BY <2>1, <3>1, SumNext
  <2> QED BY <1>2, <2>1
<1>5. \A m : RanOn(ss, m, i, c) = SumSeq(R(m)) /\ CyclesOn(ss, m, i, c) = SumSeq(Y(m))
  BY Zenon DEF RanOn, CyclesOn, R, Y, r, y
<1> QED BY <1>3, <1>4, <1>5, Zenon DEF r, y

\* A thread that was not seen has not run.
LEMMA UnseenIdle ==
  ASSUME NEW ss, Readings(ss), NEW i, NEW c, NEW m \in 0..Len(ss), SeenIn(ss, m, i) = {}
  PROVE  RanOn(ss, m, i, c) = 0 /\ CyclesOn(ss, m, i, c) = 0
<1> DEFINE P == {n \in Nat : n <= m => RanOn(ss, n, i, c) = 0 /\ CyclesOn(ss, n, i, c) = 0}
<1>1. 0 \in P
  <2> DEFINE R == [k \in 1..0 |-> Ran(ss, i, c, k)]
             Y == [k \in 1..0 |-> Ran(ss, i, c, k) * Freq(ss, c, k)]
  <2>1. R = <<>> /\ Y = <<>>
    OBVIOUS
  <2>2. RanOn(ss, 0, i, c) = SumSeq(R) /\ CyclesOn(ss, 0, i, c) = SumSeq(Y)
    BY Zenon DEF RanOn, CyclesOn
  <2> HIDE DEF R, Y
  <2> QED BY <2>1, <2>2, SumEmpty
<1>2. ASSUME NEW n \in Nat, n \in P PROVE n + 1 \in P
  <2> SUFFICES ASSUME n + 1 <= m
               PROVE  RanOn(ss, n + 1, i, c) = 0 /\ CyclesOn(ss, n + 1, i, c) = 0
    OBVIOUS
  <2>1. n + 1 \in 1..Len(ss) /\ n + 1 \in 1..m /\ m \in Nat
    BY DEF Readings
  <2>2. ~Sees(ss, n + 1, i)
    BY <2>1, SeenNext
  <2>3. Ran(ss, i, c, n + 1) = 0
    BY <2>1, <2>2, RanType
  <2>4. Freq(ss, c, n + 1) \in Nat
    BY <2>1, FreqType
  <2>5. RanOn(ss, n, i, c) = 0 /\ CyclesOn(ss, n, i, c) = 0
    BY <1>2
  <2>6. /\ RanOn(ss, n + 1, i, c) = 0 + 0
        /\ CyclesOn(ss, n + 1, i, c) = 0 + 0 * Freq(ss, c, n + 1)
    BY <2>1, <2>3, <2>5, RanNext
  <2> QED BY <2>4, <2>6
<1> HIDE DEF P
<1>3. Nat \subseteq P
  BY <1>1, <1>2, SetInduction
<1> QED BY <1>3 DEF P, Readings

-------------------------------------------------------------------------------
(* The accounts of the threads.                                                  *)

\* What the trace keeps of a thread that was seen in the first m samples.
RanPerCpu(ss, m, i) == [c \in Cpus |-> RanOn(ss, m, i, c)]
\* What thread i ran up to sample m, in cycles.
CyclesPerCpu(ss, m, i) == [c \in Cpus |-> CyclesOn(ss, m, i, c)]

\* A FerretProcess by its fields.
Account(first, last, jiffies, all, ran, cycles) ==
  [first |-> first, last |-> last, jiffies |-> jiffies, totJiffiesAllCpus |-> all,
   totJiffies |-> ran, mcyc |-> cycles]

\* A table whose entry for one CPU has grown.
PlusAt(table, c, d) == [table EXCEPT ![c] = @ + d]

\* The FerretProcess of thread i once m samples were accounted for.
AccountOf(ss, m, i) ==
  LET first == Min(SeenIn(ss, m, i))
      last == Max(SeenIn(ss, m, i))
  IN  Account(ss[first].time, ss[last].time, UsTime(ss, i, last),
              UsTime(ss, i, last) - UsTime(ss, i, first),
              RanPerCpu(ss, m, i), CyclesPerCpu(ss, m, i))

\* The account of a thread that is not, or not yet, in the history.
AccountOrNew(ss, m, i) ==
  IF SeenIn(ss, m, i) = {} THEN FerretProcess ELSE AccountOf(ss, m, i)

\* The tables per CPU change for the CPU a thread is on.
LEMMA PerCpuNext ==
  ASSUME NEW ss, Readings(ss), NEW n \in Nat, n + 1 \in 1..Len(ss), NEW i, NEW c0 \in Cpus,
         \A c \in Cpus : c # c0 => Ran(ss, i, c, n + 1) = 0
  PROVE  /\ RanPerCpu(ss, n + 1, i) =
              PlusAt(RanPerCpu(ss, n, i), c0, Ran(ss, i, c0, n + 1))
         /\ CyclesPerCpu(ss, n + 1, i) =
              PlusAt(CyclesPerCpu(ss, n, i), c0, Ran(ss, i, c0, n + 1) * Freq(ss, c0, n + 1))
<1> DEFINE d == Ran(ss, i, c0, n + 1)
<1>1. ASSUME NEW c \in Cpus
      PROVE  /\ RanOn(ss, n, i, c) \in Nat /\ CyclesOn(ss, n, i, c) \in Nat
             /\ c = c0 => /\ RanOn(ss, n + 1, i, c) = RanOn(ss, n, i, c) + d
                          /\ CyclesOn(ss, n + 1, i, c) =
                               CyclesOn(ss, n, i, c) + d * Freq(ss, c, n + 1)
             /\ c # c0 => /\ RanOn(ss, n + 1, i, c) = RanOn(ss, n, i, c)
                          /\ CyclesOn(ss, n + 1, i, c) = CyclesOn(ss, n, i, c)
  <2>1. Freq(ss, c, n + 1) \in Nat
    BY FreqType
  <2>2. /\ RanOn(ss, n, i, c) \in Nat /\ CyclesOn(ss, n, i, c) \in Nat
        /\ RanOn(ss, n + 1, i, c) = RanOn(ss, n, i, c) + Ran(ss, i, c, n + 1)
        /\ CyclesOn(ss, n + 1, i, c) =
             CyclesOn(ss, n, i, c) + Ran(ss, i, c, n + 1) * Freq(ss, c, n + 1)
    BY RanNext
  <2>3. 0 * Freq(ss, c, n + 1) = 0
    BY <2>1
  <2>4. CASE c = c0
    BY <2>2, <2>4
  <2>5. CASE c # c0
    <3>1. Ran(ss, i, c, n + 1) = 0
      BY <2>5
    <3> QED BY <2>2, <2>3, <2>5, <3>1
  <2> QED BY <2>4, <2>5
<1> DEFINE R(m) == [c \in Cpus |-> RanOn(ss, m, i, c)]
           Y(m) == [c \in Cpus |-> CyclesOn(ss, m, i, c)]
<1> HIDE DEF d
<1>2. R(n + 1) = [R(n) EXCEPT ![c0] = @ + d]
  BY <1>1
<1>3. Y(n + 1) = [Y(n) EXCEPT ![c0] = @ + d * Freq(ss, c0, n + 1)]
  BY <1>1
<1> QED BY <1>2, <1>3, Zenon DEF RanPerCpu, CyclesPerCpu, PlusAt, d

\* A sample that does not see a thread leaves its account alone.
LEMMA AccountKept ==
  ASSUME NEW ss, Readings(ss), NEW n \in Nat, n + 1 \in 1..Len(ss), NEW i, ~Sees(ss, n + 1, i)
  PROVE  AccountOf(ss, n + 1, i) = AccountOf(ss, n, i)
<1>1. SeenIn(ss, n + 1, i) = SeenIn(ss, n, i)
  BY LastSeen
<1>2. ASSUME NEW c \in Cpus
      PROVE  /\ RanOn(ss, n + 1, i, c) = RanOn(ss, n, i, c)
             /\ CyclesOn(ss, n + 1, i, c) = CyclesOn(ss, n, i, c)
  <2>1. Ran(ss, i, c, n + 1) = 0
    BY RanType
  <2>2. Freq(ss, c, n + 1) \in Nat
    BY FreqType
  <2>3. /\ RanOn(ss, n, i, c) \in Nat /\ CyclesOn(ss, n, i, c) \in Nat
        /\ RanOn(ss, n + 1, i, c) = RanOn(ss, n, i, c) + 0
        /\ CyclesOn(ss, n + 1, i, c) = CyclesOn(ss, n, i, c) + 0 * Freq(ss, c, n + 1)
    BY <2>1, RanNext
  <2> QED BY <2>2, <2>3
<1>3. /\ RanPerCpu(ss, n + 1, i) = RanPerCpu(ss, n, i)
      /\ CyclesPerCpu(ss, n + 1, i) = CyclesPerCpu(ss, n, i)
  BY <1>2 DEF RanPerCpu, CyclesPerCpu
<1> QED BY <1>1, <1>3, Zenon DEF AccountOf

\* What add does to an account: time is counted from b on.
LEMMA AddFields ==
  ASSUME NEW first, NEW last, NEW all, NEW j, NEW R, NEW Y, NEW ts, NEW nj, NEW f, NEW c0,
         NEW b, b = IF first = 0 THEN nj ELSE j
  PROVE  add(Account(first, last, j, all, R, Y), ts, nj, f, c0) =
           Account(IF first = 0 THEN ts ELSE first, ts, nj, all + (nj - b),
                   PlusAt(R, c0, nj - b), PlusAt(Y, c0, (nj - b) * f))
<1> DEFINE p == Account(first, last, j, all, R, Y)
<1>1. /\ p.first = first /\ p.jiffies = j /\ p.totJiffiesAllCpus = all
      /\ p.totJiffies = R /\ p.mcyc = Y
  BY DEF Account
<1> HIDE DEF p
<1>2. add(p, ts, nj, f, c0) = Added(p, b, ts, nj, f, c0)
  BY <1>1 DEF add
<1>3. Added(p, b, ts, nj, f, c0) =
        Account(IF first = 0 THEN ts ELSE first, ts, nj, all + (nj - b),
                [R EXCEPT ![c0] = @ + (nj - b)], [Y EXCEPT ![c0] = @ + (nj - b) * f])
  BY <1>1 DEF Added, Account
<1> QED BY <1>2, <1>3, Zenon DEF p, PlusAt

\* A sample that sees it adds to its account.
LEMMA AccountNext ==
  ASSUME NEW ss, Readings(ss), NEW n \in Nat, n + 1 \in 1..Len(ss), NEW i, Sees(ss, n + 1, i),
         NEW c0, c0 = ss[n + 1].threads[i].processor
  PROVE  add(AccountOrNew(ss, n, i), ss[n + 1].time, UsTime(ss, i, n + 1),
             Freq(ss, c0, n + 1), c0) = AccountOf(ss, n + 1, i)
<1> DEFINE ts == ss[n + 1].time
           nj == UsTime(ss, i, n + 1)
           f == Freq(ss, c0, n + 1)
           A == SeenIn(ss, n, i)
           B == SeenIn(ss, n + 1, i)
           R == RanPerCpu(ss, n, i)
           Y == CyclesPerCpu(ss, n, i)
<1>1. ts \in Nat \ {0} /\ nj \in Nat /\ c0 \in Cpus /\ f \in Nat
  BY SampleType, FreqType
<1>2. Max(B) = n + 1
  BY LastSeen
<1>3. CASE A = {}
  <2>1. Min(B) = n + 1
    BY <1>3, LastSeen
  <2>2. n \in 0..Len(ss)
    BY DEF Readings
  <2>3. \A c \in Cpus : RanOn(ss, n, i, c) = 0 /\ CyclesOn(ss, n, i, c) = 0
    BY <1>3, <2>2, UnseenIdle
  <2>4. AccountOrNew(ss, n, i) = Account(0, 0, 0, 0, R, Y)
    <3>1. R = [c \in Cpus |-> 0] /\ Y = [c \in Cpus |-> 0]
      BY <2>3 DEF RanPerCpu, CyclesPerCpu
    <3>2. AccountOrNew(ss, n, i) = FerretProcess
      BY <1>3, Zenon DEF AccountOrNew
    <3> HIDE DEF R, Y
    <3> QED BY <3>1, <3>2, Zenon DEF FerretProcess, Account
  <2>5. Ran(ss, i, c0, n + 1) = 0 /\ \A c \in Cpus : c # c0 => Ran(ss, i, c, n + 1) = 0
    BY <1>3, RanType
  <2>6. /\ RanPerCpu(ss, n + 1, i) = PlusAt(R, c0, 0)
        /\ CyclesPerCpu(ss, n + 1, i) = PlusAt(Y, c0, 0 * f)
    BY <1>1, <2>5, PerCpuNext
  <2>7. AccountOf(ss, n + 1, i) =
          Account(ts, ts, nj, nj - nj, RanPerCpu(ss, n + 1, i), CyclesPerCpu(ss, n + 1, i))
    BY <1>2, <2>1, Zenon DEF AccountOf
  <2>8. add(AccountOrNew(ss, n, i), ts, nj, f, c0) =
          Account(ts, ts, nj, 0 + (nj - nj), PlusAt(R, c0, nj - nj), PlusAt(Y, c0, (nj - nj) * f))
    <3> HIDE DEF R, Y, ts, nj, f
    <3> QED BY <2>4, AddFields
  <2> HIDE DEF R, Y, nj, ts, f
  <2>9. nj - nj = 0
    BY <1>1
  <2> QED BY <2>6, <2>7, <2>8, <2>9 DEF nj, ts, f
<1>4. CASE A # {}
  <2> DEFINE first == Min(A)
             last == Max(A)
             old == UsTime(ss, i, last)
             birth == UsTime(ss, i, first)
             x == ss[first].time
  <2>1. Min(B) = first
    BY <1>4, LastSeen
  <2>2. first \in 1..Len(ss) /\ Sees(ss, first, i)
    <3>1. A \in SUBSET (1..n) /\ \A k \in 1..n : k \in A <=> Sees(ss, k, i)
      BY SeenNext
    <3>2. first \in A
      <4>1. A \subseteq Nat
        BY <3>1
      <4> HIDE DEF A
      <4> QED BY <1>4, <4>1, MinIn
    <3> HIDE DEF A, first
    <3> QED BY <3>1, <3>2 DEF Readings
  <2>3. x \in Nat \ {0} /\ birth \in Nat /\ old \in Nat
    BY <1>4, <2>2, SampleType, RanType
  <2>4. AccountOrNew(ss, n, i) = Account(x, ss[last].time, old, old - birth, R, Y)
    BY <1>4, Zenon DEF AccountOrNew, AccountOf
  <2>5. /\ Ran(ss, i, c0, n + 1) = nj - old /\ nj - old \in Nat
        /\ \A c \in Cpus : c # c0 => Ran(ss, i, c, n + 1) = 0
    BY <1>4, RanType
  <2>6. /\ RanPerCpu(ss, n + 1, i) = PlusAt(R, c0, nj - old)
        /\ CyclesPerCpu(ss, n + 1, i) = PlusAt(Y, c0, (nj - old) * f)
    <3>1. /\ RanPerCpu(ss, n + 1, i) = PlusAt(R, c0, Ran(ss, i, c0, n + 1))
          /\ CyclesPerCpu(ss, n + 1, i) = PlusAt(Y, c0, Ran(ss, i, c0, n + 1) * f)
      BY <1>1, <2>5, PerCpuNext
    <3> QED BY <2>5, <3>1
  <2>7. AccountOf(ss, n + 1, i) =
          Account(x, ts, nj, nj - birth, RanPerCpu(ss, n + 1, i), CyclesPerCpu(ss, n + 1, i))
    BY <1>2, <2>1, Zenon DEF AccountOf
  <2> HIDE DEF R, Y, nj, ts, f, old, birth, x, first, last
  <2>8. (old - birth) + (nj - old) = nj - birth
    BY <1>1, <2>3
  <2>9. add(AccountOrNew(ss, n, i), ts, nj, f, c0) =
          Account(x, ts, nj, (old - birth) + (nj - old), PlusAt(R, c0, nj - old),
                  PlusAt(Y, c0, (nj - old) * f))
    <3>1. x # 0
      BY <2>3
    <3> QED BY <2>4, <3>1, AddFields
  <2> QED BY <2>6, <2>7, <2>8, <2>9 DEF nj, ts, f
<1> QED BY <1>3, <1>4

-------------------------------------------------------------------------------
(* The history of the threads.                                                   *)

\* The threads that have a FerretProcess by then, and all of them.
SeenPids(ss, m) == {i \in Pids : SeenIn(ss, m, i) # {}}

HistoryOf(ss, m) == [i \in SeenPids(ss, m) |-> AccountOf(ss, m, i)]

\* Samples that follow make no difference.
LEMMA SamePast ==
  ASSUME NEW a, NEW b, NEW m \in Nat, \A k \in 1..m : a[k] = b[k]
  PROVE  HistoryOf(a, m) = HistoryOf(b, m)
<1>1. ASSUME NEW j \in 0..m, NEW i PROVE SeenIn(a, j, i) = SeenIn(b, j, i)
  <2>1. \A k \in 1..j : Sees(a, k, i) <=> Sees(b, k, i)
    <3>1. \A k \in 1..j : k \in 1..m
      OBVIOUS
    <3> QED BY <3>1, Zenon DEF Sees
  <2>2. /\ SeenIn(a, j, i) \subseteq 1..j /\ \A k \in 1..j : k \in SeenIn(a, j, i) <=> Sees(a, k, i)
        /\ SeenIn(b, j, i) \subseteq 1..j /\ \A k \in 1..j : k \in SeenIn(b, j, i) <=> Sees(b, k, i)
    <3>1. j \in Nat
      OBVIOUS
    <3> QED BY <3>1, SeenNext
  <2> QED BY <2>1, <2>2
<1>2. ASSUME NEW k \in 1..m, NEW i, NEW c
      PROVE  Ran(a, i, c, k) = Ran(b, i, c, k) /\ Freq(a, c, k) = Freq(b, c, k)
  <2>1. a[k] = b[k] /\ k - 1 \in Nat /\ k - 1 \in 0..m /\ k \in 0..m
    OBVIOUS
  <2>2. SeenIn(a, k, i) = SeenIn(b, k, i) /\ SeenIn(a, k - 1, i) = SeenIn(b, k - 1, i)
    BY <1>1, <2>1
  <2> DEFINE last == Max(SeenIn(b, k - 1, i))
  <2>3. SeenIn(b, k - 1, i) # {} => a[last] = b[last]
    <3>1. SeenIn(b, k - 1, i) \in SUBSET (1..(k - 1))
      BY <2>1, SeenNext
    <3>2. SeenIn(b, k - 1, i) # {} => last \in 1..(k - 1)
      BY <2>1, <3>1, MaxIn
    <3> HIDE DEF last
    <3> QED BY <3>2
  <2>4. Freq(a, c, k) = Freq(b, c, k)
    BY <2>1, Zenon DEF Freq
  <2>5. UsTime(a, i, k) = UsTime(b, i, k)
    BY <2>1, Zenon DEF UsTime
  <2>6. SeenIn(b, k - 1, i) # {} => UsTime(a, i, last) = UsTime(b, i, last)
    BY <2>3, Zenon DEF UsTime
  <2>7. Ran(a, i, c, k) = Ran(b, i, c, k)
    BY <2>1, <2>2, <2>5, <2>6 DEF Ran
  <2> QED BY <2>4, <2>7
<1>3. ASSUME NEW i
      PROVE  /\ RanPerCpu(a, m, i) = RanPerCpu(b, m, i)
             /\ CyclesPerCpu(a, m, i) = CyclesPerCpu(b, m, i)
  <2>1. ASSUME NEW c \in Cpus
        PROVE  RanOn(a, m, i, c) = RanOn(b, m, i, c) /\ CyclesOn(a, m, i, c) = CyclesOn(b, m, i, c)
    <3> DEFINE R(ss) == [k \in 1..m |-> Ran(ss, i, c, k)]
               Y(ss) == [k \in 1..m |-> Ran(ss, i, c, k) * Freq(ss, c, k)]
    <3>1. R(a) = R(b)
      BY <1>2
    <3>2. Y(a) = Y(b)
      BY <1>2
    <3> QED BY <3>1, <3>2, Zenon DEF RanOn, CyclesOn
  <2> QED BY <2>1 DEF RanPerCpu, CyclesPerCpu
<1>4. \A i : SeenIn(a, m, i) = SeenIn(b, m, i)
  BY <1>1
<1>5. SeenPids(a, m) = SeenPids(b, m)
  BY <1>4 DEF SeenPids
<1>6. ASSUME NEW i \in SeenPids(a, m) PROVE AccountOf(a, m, i) = AccountOf(b, m, i)
  <2> DEFINE S == SeenIn(a, m, i)
             first == Min(S)
             last == Max(S)
  <2>1. S \in SUBSET (1..m) /\ S # {} /\ S = SeenIn(b, m, i)
    BY <1>4, SeenNext DEF SeenPids
  <2> HIDE DEF S
  <2>2. first \in 1..m /\ last \in 1..m
    <3>1. S \subseteq Nat
      BY <2>1
    <3>2. first \in S /\ last \in S
      BY <2>1, <3>1, MaxIn, MinIn
    <3> QED BY <2>1, <3>2
  <2> HIDE DEF first, last
  <2>3. a[first] = b[first] /\ a[last] = b[last]
    BY <2>2
  <2>4. /\ UsTime(a, i, last) = UsTime(b, i, last) /\ UsTime(a, i, first) = UsTime(b, i, first)
    BY <2>3, Zenon DEF UsTime
  <2>5. /\ AccountOf(a, m, i) =
             Account(a[first].time, a[last].time, UsTime(a, i, last),
                     UsTime(a, i, last) - UsTime(a, i, first),
                     RanPerCpu(a, m, i), CyclesPerCpu(a, m, i))
        /\ AccountOf(b, m, i) =
             Account(b[first].time, b[last].time, UsTime(b, i, last),
                     UsTime(b, i, last) - UsTime(b, i, first),
                     RanPerCpu(b, m, i), CyclesPerCpu(b, m, i))
    BY <2>1, Zenon DEF AccountOf, S, first, last
  <2> QED BY <1>3, <2>3, <2>4, <2>5
<1>7. HistoryOf(a, m) = [i \in SeenPids(a, m) |-> AccountOf(b, m, i)]
  BY <1>6 DEF HistoryOf
<1> QED BY <1>5, <1>7, Zenon DEF HistoryOf

\* What a T row makes of the history.
FreqIn(freqs, c) == IF c \in DOMAIN freqs THEN freqs[c] ELSE 0

\* A sample added to the FerretProcess of thread i, and to those of all it found.
NextAccount(history, time, threads, freqs, i) ==
  add(IF i \in DOMAIN history THEN history[i] ELSE FerretProcess, time, threads[i].ustime,
      FreqIn(freqs, threads[i].processor), threads[i].processor)

NextHistory(history, time, threads, freqs) ==
  Assigned(history, [i \in {i \in DOMAIN threads : threads[i].comm \notin BannedThreads} |->
                      NextAccount(history, time, threads, freqs, i)])

\* A sample accounted for.
Counted(t) ==
  TraceAs(t.state, NextHistory(t.pidHistory, t.state.time, t.state.pid, t.state.cpu), TRUE,
          IF t.started THEN t.traceStart ELSE t.state.time, t.state.time)

\* SampleDone does that.
LEMMA DoneSample ==
  ASSUME NEW t, t.state # NoSample
  PROVE  SampleDone(t) = Counted(t)
BY Zenon DEF SampleDone, Counted, NextHistory, NextAccount, FreqIn, TraceAs

\* The fields of a sample that was read.
LEMMA StateFields ==
  ASSUME NEW time, NEW threads, NEW freqs, NEW s, s = StateOf(time, threads, freqs)
  PROVE  s.time = time /\ s.pid = threads /\ s.cpu = freqs /\ s # NoSample
<1>1. DOMAIN s = {"time", "pid", "cpu"} /\ DOMAIN NoSample = {}
  BY DEF StateOf, NoSample
<1>2. "time" \in DOMAIN s /\ "time" \notin DOMAIN NoSample
  BY <1>1
<1> QED BY <1>2, Zenon DEF StateOf

\* It is the history of the samples before and this one.
LEMMA HistoryNext ==
  ASSUME NEW ss, Readings(ss), NEW n \in Nat, n + 1 \in 1..Len(ss)
  PROVE  NextHistory(HistoryOf(ss, n), ss[n + 1].time, ss[n + 1].threads, ss[n + 1].freqs) =
           HistoryOf(ss, n + 1)
<1> DEFINE h == HistoryOf(ss, n)
           time == ss[n + 1].time
           threads == ss[n + 1].threads
           freqs == ss[n + 1].freqs
           P == {i \in DOMAIN threads : threads[i].comm \notin BannedThreads}
           A == SeenPids(ss, n)
           B == SeenPids(ss, n + 1)
           e(i) == NextAccount(h, time, threads, freqs, i)
           g == [i \in P |-> e(i)]
<1>1. /\ DOMAIN h = A /\ \A i \in A : h[i] = AccountOf(ss, n, i)
      /\ HistoryOf(ss, n + 1) = [i \in B |-> AccountOf(ss, n + 1, i)]
  BY Zenon DEF HistoryOf
<1>2. \A i : i \in P <=> Sees(ss, n + 1, i)
  BY Zenon DEF Sees
<1>3. P \subseteq Pids
  BY <1>2, SampleType
<1>4. B = A \cup P
  <2>1. ASSUME NEW i \in Pids PROVE i \in B <=> i \in A \/ i \in P
    <3>1. SeenIn(ss, n + 1, i) =
            SeenIn(ss, n, i) \cup (IF Sees(ss, n + 1, i) THEN {n + 1} ELSE {})
      BY SeenNext
    <3>2. i \in A <=> SeenIn(ss, n, i) # {}
      BY DEF SeenPids
    <3>3. i \in B <=> SeenIn(ss, n + 1, i) # {}
      BY DEF SeenPids
    <3> HIDE DEF A, B, P
    <3> QED BY <1>2, <3>1, <3>2, <3>3
  <2>2. A \subseteq Pids /\ B \subseteq Pids
    BY DEF SeenPids
  <2> HIDE DEF A, B, P
  <2> QED BY <1>3, <2>1, <2>2
<1>5. ASSUME NEW i \in P PROVE e(i) = AccountOf(ss, n + 1, i)
  <2>1. Sees(ss, n + 1, i) /\ i \in Pids
    BY <1>2, <1>3
  <2>2. (IF i \in DOMAIN h THEN h[i] ELSE FerretProcess) = AccountOrNew(ss, n, i)
    <3>1. i \in A <=> SeenIn(ss, n, i) # {}
      BY <2>1 DEF SeenPids
    <3> HIDE DEF h, A
    <3> QED BY <1>1, <3>1, Zenon DEF AccountOrNew
  <2> DEFINE c0 == threads[i].processor
  <2>3. FreqIn(freqs, c0) = Freq(ss, c0, n + 1) /\ threads[i].ustime = UsTime(ss, i, n + 1)
    BY Zenon DEF FreqIn, Freq, UsTime
  <2>4. add(AccountOrNew(ss, n, i), time, UsTime(ss, i, n + 1), Freq(ss, c0, n + 1), c0) =
          AccountOf(ss, n + 1, i)
    <3> HIDE DEF P
    <3> QED BY <2>1, AccountNext, Zenon
  <2> QED BY <2>2, <2>3, <2>4, Zenon DEF NextAccount
<1>6. ASSUME NEW i \in A, i \notin P PROVE h[i] = AccountOf(ss, n + 1, i)
  <2>1. ~Sees(ss, n + 1, i)
    BY <1>2, <1>6
  <2>2. AccountOf(ss, n + 1, i) = AccountOf(ss, n, i)
    BY <2>1, AccountKept
  <2> QED BY <1>1, <2>2
<1>7. DOMAIN g = P /\ \A i \in P : g[i] = e(i)
  BY Zenon
<1>8. NextHistory(h, time, threads, freqs) = Assigned(h, g)
  BY Zenon DEF NextHistory
<1> HIDE DEF g, P, A, B, h, e
<1>9. Assigned(h, g) = [i \in A \cup P |-> IF i \in P THEN g[i] ELSE h[i]]
  BY <1>1, <1>7 DEF Assigned
<1>10. \A i \in A \cup P : (IF i \in P THEN g[i] ELSE h[i]) = AccountOf(ss, n + 1, i)
  BY <1>5, <1>6, <1>7
<1>11. Assigned(h, g) = [i \in B |-> AccountOf(ss, n + 1, i)]
  BY <1>4, <1>9, <1>10
<1> QED BY <1>1, <1>8, <1>11, Zenon DEF h

\* The trace after n samples: the last of them is read but not accounted for.
TraceOf(ss, n) ==
  IF n = 0 THEN Unread
  ELSE TraceAs(StateOf(ss[n].time, ss[n].threads, ss[n].freqs), HistoryOf(ss, n - 1), n > 1,
               IF n > 1 THEN ss[1].time ELSE 0, IF n > 1 THEN ss[n - 1].time ELSE 0)

\* Reading a sample's rows makes of the trace after n samples that after n + 1.
LEMMA TraceNext ==
  ASSUME NEW ss, Readings(ss), NEW tt, Readings(tt), NEW n \in Nat, n = Len(ss), Len(tt) = n + 1,
         \A k \in 1..n : tt[k] = ss[k]
  PROVE  AfterSample(TraceOf(ss, n), tt[n + 1]) = TraceOf(tt, n + 1)
<1> DEFINE s == tt[n + 1]
           state == StateOf(s.time, s.threads, s.freqs)
<1>1. IsThreads(s.threads)
  <2>1. n + 1 \in 1..Len(tt)
    OBVIOUS
  <2>2. s.threads \in SampleThreads
    BY <2>1, SampleType
  <2>3. IsFiniteSet(DOMAIN s.threads)
    BY <2>2, ThreadType, TraceAssumption, FS_Subset
  <2>4. \A i \in DOMAIN s.threads : s.threads[i].pid = i
    BY <2>1, Zenon DEF Readings
  <2> HIDE DEF s
  <2> QED BY <2>2, <2>3, <2>4, ThreadType, Zenon DEF IsThreads
<1>2. TraceOf(tt, n + 1) =
        TraceAs(state, HistoryOf(tt, n), n + 1 > 1, IF n + 1 > 1 THEN tt[1].time ELSE 0,
                IF n + 1 > 1 THEN tt[n].time ELSE 0)
  <2>1. n + 1 # 0 /\ (n + 1) - 1 = n
    OBVIOUS
  <2> QED BY <2>1, Zenon DEF TraceOf
<1>3. CASE n = 0
  <2>1. SampleDone(Unread) = TraceAs(NoSample, Nothing, FALSE, 0, 0)
    <3>1. Unread = TraceAs(NoSample, Nothing, FALSE, 0, 0)
      BY Zenon DEF Unread, TraceAs
    <3>2. Unread.state = NoSample
      BY DEF Unread
    <3>3. SampleDone(Unread) = Unread
      BY <3>2, Zenon DEF SampleDone
    <3> QED BY <3>1, <3>3
  <2>2. AfterSample(Unread, s) = TraceAs(state, Nothing, FALSE, 0, 0)
    <3> HIDE DEF s
    <3> DEFINE b == FALSE
    <3>1. SampleDone(Unread) = TraceAs(NoSample, Nothing, b, 0, 0)
      BY <2>1
    <3> HIDE DEF b
    <3>2. AfterSample(Unread, s) = TraceAs(StateOf(s.time, s.threads, s.freqs), Nothing, b, 0, 0)
      BY <1>1, <3>1, SampleRead
    <3> QED BY <3>2, Zenon DEF b
  <2>3. HistoryOf(tt, 0) = Nothing
    <3>1. SeenPids(tt, 0) = {}
      BY SeenNext DEF SeenPids
    <3>2. HistoryOf(tt, 0) = [i \in {} |-> AccountOf(tt, 0, i)]
      BY <3>1, Zenon DEF HistoryOf
    <3> QED BY <3>2 DEF Nothing
  <2>4. ~(0 + 1 > 1)
    OBVIOUS
  <2>5. (0 + 1 > 1) = FALSE
    BY <2>4
  <2>6. TraceOf(ss, n) = Unread
    BY <1>3, Zenon DEF TraceOf
  <2>7. TraceOf(tt, n + 1) = TraceAs(state, Nothing, FALSE, 0, 0)
    <3> HIDE DEF state
    <3> QED BY <1>2, <1>3, <2>3, <2>4, <2>5
  <2> QED BY <2>2, <2>6, <2>7
<1>4. CASE n > 0
  <2> DEFINE r == ss[n]
             h == HistoryOf(ss, n - 1)
             old == StateOf(r.time, r.threads, r.freqs)
  <2>1. n - 1 \in Nat /\ (n - 1) + 1 = n /\ n \in 1..Len(ss) /\ 1 \in 1..n /\ n \in 1..n
    BY <1>4
  <2>2. TraceOf(ss, n) =
          TraceAs(old, h, n > 1, IF n > 1 THEN ss[1].time ELSE 0,
                  IF n > 1 THEN ss[n - 1].time ELSE 0)
    <3>1. n # 0
      BY <1>4
    <3> QED BY <3>1, Zenon DEF TraceOf
  <2>3. NextHistory(h, r.time, r.threads, r.freqs) = HistoryOf(tt, n)
    <3>1. NextHistory(h, ss[(n - 1) + 1].time, ss[(n - 1) + 1].threads, ss[(n - 1) + 1].freqs) =
            HistoryOf(ss, (n - 1) + 1)
      BY <2>1, HistoryNext, Zenon
    <3>2. NextHistory(h, r.time, r.threads, r.freqs) = HistoryOf(ss, n)
      BY <2>1, <3>1, Zenon
    <3>3. HistoryOf(tt, n) = HistoryOf(ss, n)
      BY SamePast, Zenon
    <3> QED BY <3>2, <3>3, Zenon
  <2>4. (IF n > 1 THEN (IF n > 1 THEN ss[1].time ELSE 0) ELSE r.time) = tt[1].time
    <3>1. tt[1] = ss[1]
      BY <2>1
    <3>2. ~(n > 1) => n = 1
      BY <1>4
    <3> QED BY <3>1, <3>2, Zenon
  <2>5. SampleDone(TraceOf(ss, n)) = TraceAs(old, HistoryOf(tt, n), TRUE, tt[1].time, r.time)
    <3> DEFINE t == TraceOf(ss, n)
               start == tt[1].time
    <3>1. /\ t.state = old /\ t.pidHistory = h /\ t.started = (n > 1)
          /\ t.traceStart = IF n > 1 THEN ss[1].time ELSE 0
      <4> HIDE DEF old, h
      <4> QED BY <2>2 DEF TraceAs
    <3>2. start = IF t.started THEN t.traceStart ELSE r.time
      BY <2>4, <3>1
    <3>3. old.time = r.time /\ old.pid = r.threads /\ old.cpu = r.freqs /\ old # NoSample
      <4> DEFINE st == old
      <4>1. st = StateOf(r.time, r.threads, r.freqs)
        OBVIOUS
      <4> HIDE DEF st, r
      <4>2. st.time = r.time /\ st.pid = r.threads /\ st.cpu = r.freqs /\ st # NoSample
        BY <4>1, StateFields
      <4> QED BY <4>2 DEF st
    <3> HIDE DEF t, start, h, r, old
    <3>4. SampleDone(t) = Counted(t)
      BY <3>1, <3>3, DoneSample
    <3>5. Counted(t) = TraceAs(old, NextHistory(h, r.time, r.threads, r.freqs), TRUE, start, r.time)
      BY <3>1, <3>2, <3>3, Zenon DEF Counted
    <3> QED BY <2>3, <3>4, <3>5, Zenon DEF t, start
  <2>6. AfterSample(TraceOf(ss, n), s) =
          TraceAs(state, HistoryOf(tt, n), TRUE, tt[1].time, r.time)
    <3> HIDE DEF s, old, r
    <3> DEFINE b == TRUE
               x == tt[1].time
               y == ss[n].time
    <3>1. SampleDone(TraceOf(ss, n)) = TraceAs(old, HistoryOf(tt, n), b, x, y)
      BY <2>5 DEF r
    <3> HIDE DEF b, x, y
    <3>2. AfterSample(TraceOf(ss, n), s) =
            TraceAs(StateOf(s.time, s.threads, s.freqs), HistoryOf(tt, n), b, x, y)
      BY <1>1, <3>1, SampleRead
    <3> QED BY <3>2, Zenon DEF b, x, y, r
  <2>7. n + 1 > 1 /\ tt[n] = r
    BY <1>4, <2>1
  <2>8. (n + 1 > 1) = TRUE
    BY <2>7
  <2>9. TraceOf(tt, n + 1) = TraceAs(state, HistoryOf(tt, n), TRUE, tt[1].time, r.time)
    <3> HIDE DEF state
    <3> QED BY <1>2, <2>7, <2>8
  <2> QED BY <2>6, <2>9
<1> QED BY <1>3, <1>4

-------------------------------------------------------------------------------
(* The inductive invariant: a trace that was read is what its samples make of it. *)

\* The jiffies of a thread so far are not less than in any of its samples.
UsTimeInv ==
  /\ case.ustime \in [Pids -> Nat]
  /\ \A k \in 1..Len(case.samples) : \A i \in DOMAIN case.samples[k].threads :
       UsTime(case.samples, i, k) <= case.ustime[i]

\* The inductive invariant: at every moment the trace that was read is a function
\* of the samples taken.
TraceInv ==
  kind = "trace" => /\ Readings(case.samples) /\ UsTimeInv
                    /\ case.trace = TraceOf(case.samples, Len(case.samples))

\* A sample in the making.
LEMMA SampleMade ==
  ASSUME NEW time \in Nat \ {0}, NEW freqs \in Frequencies, NEW live \in SUBSET Pids,
         NEW found \in [live -> Finds], NEW ustime \in [Pids -> Nat]
  PROVE  LET s == Sample(time, freqs, found, ustime)
         IN  /\ s \in SampleSet /\ DOMAIN s.threads = live
             /\ \A i \in live : /\ s.threads[i].pid = i
                                /\ s.threads[i].ustime \in Nat
                                /\ ustime[i] <= s.threads[i].ustime
<1> DEFINE s == Sample(time, freqs, found, ustime)
           e(i) == [type |-> "S", pid |-> i, comm |-> found[i].comm,
                    ustime |-> ustime[i] + found[i].run, processor |-> found[i].processor]
           R == [type : {"S"}, pid : Pids, comm : STRING, ustime : Nat, processor : Cpus]
           threads == [i \in live |-> e(i)]
<1>1. s = [time |-> time, freqs |-> freqs, threads |-> threads]
  <2>1. DOMAIN found = live
    OBVIOUS
  <2> QED BY <2>1, Zenon DEF Sample
<1>2. ASSUME NEW i \in live
      PROVE  e(i) \in R /\ e(i).pid = i /\ e(i).ustime \in Nat /\ ustime[i] <= e(i).ustime
  <2> DEFINE f == found[i]
             u == ustime[i]
  <2>1. f.run \in Nat /\ f.processor \in Cpus /\ f.comm \in STRING
    <3>1. f \in [run : Nat, processor : Cpus, comm : STRING]
      BY TraceAssumption
    <3> HIDE DEF f
    <3> QED BY <3>1
  <2>2. u \in Nat /\ i \in Pids
    OBVIOUS
  <2> HIDE DEF f, u
  <2>3. e(i) = [type |-> "S", pid |-> i, comm |-> f.comm, ustime |-> u + f.run,
                processor |-> f.processor]
    BY Zenon DEF f, u
  <2>4. u + f.run \in Nat /\ u <= u + f.run
    BY <2>1, <2>2
  <2> HIDE DEF e
  <2> QED BY <2>1, <2>2, <2>3, <2>4 DEF u
<1>3. threads \in [live -> R] /\ DOMAIN threads = live /\ \A i \in live : threads[i] = e(i)
  <2> HIDE DEF e, R
  <2> QED BY <1>2
<1>4. threads \in SampleThreads
  BY <1>3, Zenon DEF SampleThreads
<1> HIDE DEF threads, e, s
<1>5. s \in SampleSet /\ s.threads = threads
  BY <1>1, <1>4 DEF SampleSet
<1>6. \A i \in live : s.threads[i] = e(i)
  BY <1>3, <1>5
<1>7. DOMAIN s.threads = live
  BY <1>3, <1>5
<1> QED BY <1>2, <1>5, <1>6, <1>7 DEF s

\* One sample more.
LEMMA ReadingsNext ==
  ASSUME NEW ss, Readings(ss), NEW u \in [Pids -> Nat], NEW s \in SampleSet, NEW tt, tt = Append(ss, s),
         \A k \in 1..Len(ss) : \A i \in DOMAIN ss[k].threads : UsTime(ss, i, k) <= u[i],
         DOMAIN s.threads \subseteq Pids,
         \A i \in DOMAIN s.threads : /\ s.threads[i].pid = i /\ s.threads[i].ustime \in Nat
                                     /\ u[i] <= s.threads[i].ustime
  PROVE  /\ Readings(tt)
         /\ \A k \in 1..Len(tt) : \A i \in DOMAIN tt[k].threads :
              UsTime(tt, i, k) <= IF i \in DOMAIN s.threads THEN s.threads[i].ustime ELSE u[i]
<1> DEFINE n == Len(ss)
           v(i) == IF i \in DOMAIN s.threads THEN s.threads[i].ustime ELSE u[i]
<1>1. /\ n \in Nat /\ tt \in Seq(SampleSet) /\ Len(tt) = n + 1 /\ tt[n + 1] = s
      /\ \A k \in 1..n : tt[k] = ss[k]
  <2> HIDE DEF SampleSet
  <2> QED BY DEF Readings
<1>2. \A k \in 1..n : \A i : UsTime(tt, i, k) = UsTime(ss, i, k)
  BY <1>1, Zenon DEF UsTime
<1>3. \A i : UsTime(tt, i, n + 1) = s.threads[i].ustime
  BY <1>1, Zenon DEF UsTime
<1>4. ASSUME NEW k \in 1..n, NEW i, i \in DOMAIN tt[k].threads
      PROVE  /\ UsTime(tt, i, k) \in Nat \/ ~(i \in DOMAIN s.threads)
             /\ i \in Pids /\ UsTime(tt, i, k) <= u[i] /\ UsTime(tt, i, k) \in Nat
  <2>1. i \in DOMAIN ss[k].threads
    BY <1>1, <1>4
  <2>2. UsTime(ss, i, k) <= u[i]
    BY <2>1
  <2>3. i \in Pids /\ ss[k].threads[i].ustime \in Nat
    <3>1. ss[k].threads \in SampleThreads
      BY SampleType
    <3> QED BY <2>1, <3>1, ThreadType
  <2> QED BY <1>2, <2>2, <2>3 DEF UsTime
<1> HIDE DEF n
<1>5. ASSUME NEW k \in 1..(n + 1), NEW i, i \in DOMAIN tt[k].threads
      PROVE  UsTime(tt, i, k) <= v(i)
  <2>1. CASE k = n + 1
    <3>1. i \in DOMAIN s.threads /\ UsTime(tt, i, k) = s.threads[i].ustime
      BY <1>1, <1>3, <1>5, <2>1
    <3>2. s.threads[i].ustime \in Nat
      BY <3>1
    <3> QED BY <3>1, <3>2
  <2>2. CASE k # n + 1
    <3>1. k \in 1..n
      BY <1>1, <2>2
    <3>2. i \in Pids /\ UsTime(tt, i, k) <= u[i] /\ UsTime(tt, i, k) \in Nat
      BY <1>4, <1>5, <3>1
    <3>3. u[i] \in Nat
      BY <3>2
    <3>4. i \in DOMAIN s.threads => u[i] <= s.threads[i].ustime /\ s.threads[i].ustime \in Nat
      OBVIOUS
    <3> QED BY <3>2, <3>3, <3>4
  <2> QED BY <2>1, <2>2
<1>6. ASSUME NEW k \in 1..(n + 1), NEW i \in DOMAIN tt[k].threads
      PROVE  /\ tt[k].threads[i].pid = i
             /\ \A j \in 1..k : i \in DOMAIN tt[j].threads => UsTime(tt, i, j) <= UsTime(tt, i, k)
  <2>1. CASE k = n + 1
    <3>1. i \in DOMAIN s.threads /\ tt[k].threads[i].pid = i /\ UsTime(tt, i, k) = s.threads[i].ustime
      BY <1>1, <1>3, <2>1
    <3>2. ASSUME NEW j \in 1..k, i \in DOMAIN tt[j].threads
          PROVE  UsTime(tt, i, j) <= UsTime(tt, i, k)
      <4>1. j \in 1..(n + 1)
        BY <2>1
      <4>2. UsTime(tt, i, j) <= v(i)
        BY <1>5, <3>2, <4>1
      <4> QED BY <3>1, <4>2
    <3> QED BY <3>1, <3>2
  <2>2. CASE k # n + 1
    <3>1. k \in 1..n /\ tt[k] = ss[k] /\ k \in 1..Len(ss)
      BY <1>1, <2>2 DEF n
    <3>2. i \in DOMAIN ss[k].threads
      BY <3>1
    <3>3. /\ ss[k].threads[i].pid = i
          /\ \A j \in 1..k : i \in DOMAIN ss[j].threads => UsTime(ss, i, j) <= UsTime(ss, i, k)
      BY <3>1, <3>2, Zenon DEF Readings
    <3>4. \A j \in 1..k : j \in 1..n
      BY <1>1, <3>1
    <3> QED BY <1>1, <1>2, <3>1, <3>3, <3>4, Zenon
  <2> QED BY <2>1, <2>2
<1>7. Readings(tt)
  <2> HIDE DEF SampleSet
  <2> QED BY <1>1, <1>6, Zenon DEF Readings
<1> QED BY <1>1, <1>5, <1>7, Zenon

\* It holds in every state.
LEMMA TraceInvariant == CasesSpec => []TraceInv
<1>1. CasesInit => TraceInv
  BY DEF CasesInit, TraceInv
<1>2. TraceInv /\ [CasesNext]_caseVars => TraceInv'
  <2> SUFFICES ASSUME TraceInv, [CasesNext]_caseVars PROVE TraceInv'
    OBVIOUS
  <2>1. CASE TraceBegin
    <3> DEFINE u == [i \in Pids |-> RunBefore]
    <3>1. kind' = "trace" /\ case' = [samples |-> <<>>, ustime |-> u, trace |-> Unread]
      BY <2>1, Zenon DEF TraceBegin, Become
    <3>2. u \in [Pids -> Nat]
      BY TraceAssumption
    <3> HIDE DEF u
    <3>3. case'.samples = <<>> /\ case'.ustime = u /\ case'.trace = Unread
      BY <3>1
    <3>4. Len(<<>>) = 0 /\ 1..0 = {} /\ <<>> \in Seq(SampleSet)
      OBVIOUS
    <3>5. Readings(<<>>)
      BY <3>4, Zenon DEF Readings
    <3>6. Readings(case'.samples)
      BY <3>3, <3>5
    <3>7. UsTimeInv'
      BY <3>2, <3>3, <3>4 DEF UsTimeInv
    <3>8. case'.trace = TraceOf(case'.samples, Len(case'.samples))
      BY <3>3, <3>4, Zenon DEF TraceOf
    <3> QED BY <3>6, <3>7, <3>8 DEF TraceInv
  <2>2. CASE TraceSample
    <3> DEFINE ss == case.samples
               n == Len(ss)
    <3>1. kind = "trace" /\ kind' = "trace" /\ Len(ss) < Len(SampleTimes)
      BY <2>2, Zenon DEF TraceSample
    <3>2. /\ Readings(ss) /\ UsTimeInv /\ case.trace = TraceOf(ss, n)
      BY <3>1, Zenon DEF TraceInv
    <3>3. PICK freqs \in Frequencies, live \in SUBSET Pids : \E found \in [live -> Finds] :
            case' = [samples |-> Append(ss, Sample(SampleTimes[n + 1], freqs, found, case.ustime)),
                     ustime |-> [i \in Pids |->
                       IF i \in live
                       THEN Sample(SampleTimes[n + 1], freqs, found, case.ustime).threads[i].ustime
                       ELSE case.ustime[i]],
                     trace |-> FoldLeft(ReadRow, case.trace,
                                 Rows(Sample(SampleTimes[n + 1], freqs, found, case.ustime)))]
      BY <2>2, Zenon DEF TraceSample
    <3>4. PICK found \in [live -> Finds] :
            case' = [samples |-> Append(ss, Sample(SampleTimes[n + 1], freqs, found, case.ustime)),
                     ustime |-> [i \in Pids |->
                       IF i \in live
                       THEN Sample(SampleTimes[n + 1], freqs, found, case.ustime).threads[i].ustime
                       ELSE case.ustime[i]],
                     trace |-> FoldLeft(ReadRow, case.trace,
                                 Rows(Sample(SampleTimes[n + 1], freqs, found, case.ustime)))]
      BY <3>3, Zenon
    <3> DEFINE s == Sample(SampleTimes[n + 1], freqs, found, case.ustime)
               u == case.ustime
               w == [i \in Pids |-> IF i \in live THEN s.threads[i].ustime ELSE u[i]]
               tt == Append(ss, s)
               next == AfterSample(case.trace, s)
    <3>5. case' = [samples |-> tt, ustime |-> w, trace |-> next]
      BY <3>4, Zenon DEF AfterSample
    <3>6. SampleTimes[n + 1] \in Nat \ {0} /\ n \in Nat
      <4>1. n \in Nat
        <5> HIDE DEF ss
        <5> QED BY <3>2 DEF Readings
      <4>2. n + 1 \in 1..Len(SampleTimes)
        BY <3>1, <4>1, TraceAssumption
      <4> HIDE DEF n
      <4> QED BY <4>1, <4>2, TraceAssumption
    <3>7. u \in [Pids -> Nat]
      BY <3>2, Zenon DEF UsTimeInv
    <3>8. /\ s \in SampleSet /\ DOMAIN s.threads = live
          /\ \A i \in live : /\ s.threads[i].pid = i /\ s.threads[i].ustime \in Nat
                             /\ u[i] <= s.threads[i].ustime
      <4> DEFINE time == SampleTimes[n + 1]
      <4>1. time \in Nat \ {0}
        BY <3>6
      <4> HIDE DEF time, u
      <4>2. s = Sample(time, freqs, found, u)
        BY DEF time, u
      <4> HIDE DEF s
      <4> QED BY <3>7, <4>1, <4>2, SampleMade
    <3>9. \A k \in 1..Len(ss) : \A i \in DOMAIN ss[k].threads : UsTime(ss, i, k) <= u[i]
      BY <3>2, Zenon DEF UsTimeInv
    <3>10. n = Len(ss)
      OBVIOUS
    <3> HIDE DEF ss, s, n, u, next
    <3>11. live \subseteq Pids /\ live = DOMAIN s.threads
      BY <3>8
    <3>12. /\ Readings(tt)
           /\ \A k \in 1..Len(tt) : \A i \in DOMAIN tt[k].threads :
                UsTime(tt, i, k) <= IF i \in DOMAIN s.threads THEN s.threads[i].ustime ELSE u[i]
      <4> HIDE DEF SampleSet
      <4> QED BY <3>2, <3>7, <3>8, <3>9, <3>11, ReadingsNext
    <3>13. w \in [Pids -> Nat] /\ \A i \in Pids : w[i] = IF i \in live THEN s.threads[i].ustime ELSE u[i]
      BY <3>7, <3>8
    <3>14. /\ Len(tt) = n + 1 /\ tt[n + 1] = s /\ \A k \in 1..n : tt[k] = ss[k]
      <4>1. ss \in Seq(SampleSet)
        BY <3>2 DEF Readings
      <4> HIDE DEF SampleSet
      <4> QED BY <3>8, <3>10, <4>1
    <3> HIDE DEF tt, w
    <3>15. case'.samples = tt /\ case'.ustime = w /\ case'.trace = next
      BY <3>5
    <3>16. next = TraceOf(tt, n + 1)
      <4>1. case.trace = TraceOf(ss, n)
        BY <3>2
      <4>2. AfterSample(TraceOf(ss, n), tt[n + 1]) = TraceOf(tt, n + 1)
        BY <3>2, <3>6, <3>10, <3>12, <3>14, TraceNext
      <4> QED BY <3>14, <4>1, <4>2, Zenon DEF next
    <3>17. ASSUME NEW k \in 1..Len(tt), NEW i \in DOMAIN tt[k].threads
           PROVE  UsTime(tt, i, k) <= w[i]
      <4>1. i \in Pids
        <5>1. tt[k].threads \in SampleThreads
          BY <3>12, SampleType
        <5> QED BY <5>1, ThreadType
      <4> QED BY <3>11, <3>12, <3>13, <4>1
    <3>18. UsTimeInv'
      BY <3>13, <3>15, <3>17 DEF UsTimeInv
    <3>19. Readings(case'.samples) /\ case'.trace = TraceOf(case'.samples, Len(case'.samples))
      BY <3>12, <3>14, <3>15, <3>16
    <3> QED BY <3>18, <3>19 DEF TraceInv
  <2>3. CASE Session \/ Pack \/ PlainMessage \/ SwitchMessage \/ CamMessage \/ CounterMessage
              \/ CaseDone
    <3>1. kind' # "trace"
      BY <2>3 DEF Session, Pack, PlainMessage, SwitchMessage, CamMessage, CounterMessage,
                  CaseDone, Become
    <3> QED BY <3>1 DEF TraceInv
  <2>4. CASE UNCHANGED caseVars
    BY <2>4 DEF caseVars, TraceInv, UsTimeInv
  <2> QED BY <2>1, <2>2, <2>3, <2>4 DEF CasesNext
<1> QED BY <1>1, <1>2, PTL DEF CasesSpec

-------------------------------------------------------------------------------
(* The totals.                                                                   *)

\* The totals before the first summary, and what they may be.
NoTotals == [megacycles_sum |-> 0, max_active |-> 0, max_index |-> 0]

TotalsSet == [megacycles_sum : Nat, max_active : Nat, max_index : Nat]

\* The function of the definition of Totals.
IsTotals(f, cycles) ==
  f = [n \in 0..Len(cycles) |-> IF n = 0 THEN NoTotals ELSE Tally(f[n - 1], n, cycles[n])]

\* r is what t becomes after n summaries, the last with c cycles.
Tallied(t, n, c, r) ==
  /\ r \in TotalsSet /\ r.megacycles_sum = t.megacycles_sum + c
  /\ c > t.max_active => r.max_active = c /\ r.max_index = n - 1
  /\ c <= t.max_active => r.max_active = t.max_active /\ r.max_index = t.max_index

\* One round of the loop.
LEMMA TallyType ==
  ASSUME NEW t \in TotalsSet, NEW n \in Nat \ {0}, NEW c \in Nat
  PROVE  Tallied(t, n, c, Tally(t, n, c))
BY DEF Tally, TotalsSet, Tallied

\* There is a function that Totals defines.
LEMMA TotalsExist ==
  ASSUME NEW cycles \in Seq(Nat)
  PROVE  \E f : IsTotals(f, cycles)
<1> DEFINE n == Len(cycles)
           step == [x \in (1..n) \X TotalsSet |-> Tally(x[2], x[1], cycles[x[1]])]
<1>1. n \in Nat /\ NoTotals \in TotalsSet
  BY DEF NoTotals, TotalsSet
<1>2. step \in [(1..n) \X TotalsSet -> TotalsSet]
  <2>1. ASSUME NEW x \in (1..n) \X TotalsSet PROVE Tally(x[2], x[1], cycles[x[1]]) \in TotalsSet
    <3>1. x[1] \in 1..n /\ x[2] \in TotalsSet
      OBVIOUS
    <3>2. x[1] \in Nat \ {0} /\ cycles[x[1]] \in Nat
      BY <3>1
    <3> QED BY <3>1, <3>2, TallyType DEF Tallied
  <2> HIDE DEF n, TotalsSet
  <2> QED BY <2>1
<1> HIDE DEF n
<1>3. PICK f : IsLoop(f, TotalsSet, NoTotals, step, n)
  <2> HIDE DEF step
  <2> QED BY <1>1, <1>2, LoopExists
<1>4. ASSUME NEW k \in 1..n PROVE f[k] = Tally(f[k - 1], k, cycles[k])
  <2>1. k - 1 \in 0..n
    BY <1>1
  <2>2. f[k - 1] \in TotalsSet /\ f[k] = step[<<k, f[k - 1]>>]
    BY <1>3, <2>1 DEF IsLoop
  <2>3. <<k, f[k - 1]>> \in (1..n) \X TotalsSet
    BY <2>2
  <2> QED BY <2>2, <2>3
<1>5. f = [k \in 0..n |-> f[k]] /\ f[0] = NoTotals
  BY <1>1, <1>3 DEF IsLoop
<1>6. \A k \in 0..n : f[k] = IF k = 0 THEN NoTotals ELSE Tally(f[k - 1], k, cycles[k])
  <2>1. \A k \in 0..n : k # 0 => k \in 1..n
    BY <1>1
  <2> QED BY <1>4, <1>5, <2>1, Zenon
<1>7. f = [k \in 0..n |-> IF k = 0 THEN NoTotals ELSE Tally(f[k - 1], k, cycles[k])]
  BY <1>5, <1>6
<1>8. IsTotals(f, cycles)
  BY <1>7, Zenon DEF IsTotals, n
<1> QED BY <1>8

\* The sum of the cycles, and where the most of them are.
LEMMA TotalsOf ==
  ASSUME NEW cycles \in Seq(Nat)
  PROVE  /\ Totals(cycles).megacycles_sum = SumSeq(cycles)
         /\ cycles # <<>> => /\ Totals(cycles).max_index + 1 \in 1..Len(cycles)
                             /\ cycles[Totals(cycles).max_index + 1] = Totals(cycles).max_active
         /\ \A k \in 1..Len(cycles) : cycles[k] <= Totals(cycles).max_active
<1> DEFINE f == CHOOSE x : IsTotals(x, cycles)
           n == Len(cycles)
           S(k) == PrefixSums(cycles)[k]
<1>1. IsTotals(f, cycles)
  BY TotalsExist, Zenon
<1>2. Totals(cycles) = f[n]
  BY Zenon DEF Totals, IsTotals, NoTotals
<1> HIDE DEF f
<1>3. n \in Nat /\ cycles \in Seq(Int) /\ \A k \in 1..n : cycles[k] \in Nat
  OBVIOUS
<1> HIDE DEF n
<1>4. S(0) = 0 /\ \A k \in 1..n : S(k) = S(k - 1) + cycles[k]
  BY <1>3, PrefixSumsDef DEF IsPrefixSums, n
<1> HIDE DEF S
<1> DEFINE Good(k) ==
             /\ f[k] \in TotalsSet /\ f[k].megacycles_sum = S(k)
             /\ \A j \in 1..k : cycles[j] <= f[k].max_active
             /\ \/ f[k].max_index = 0 /\ f[k].max_active = 0
                \/ f[k].max_index + 1 \in 1..k /\ cycles[f[k].max_index + 1] = f[k].max_active
           P == {k \in Nat : k <= n => Good(k)}
<1>5. 0 \in P
  <2>1. 0 \in 0..n
    BY <1>3
  <2>2. f[0] = NoTotals
    BY <1>1, <2>1, Zenon DEF IsTotals, n
  <2> QED BY <1>4, <2>2 DEF NoTotals, TotalsSet
<1>6. ASSUME NEW k \in Nat, k \in P PROVE k + 1 \in P
  <2> SUFFICES ASSUME k + 1 <= n PROVE Good(k + 1)
    OBVIOUS
  <2> DEFINE c == cycles[k + 1]
             a == f[k]
             b == f[k + 1]
  <2>1. k + 1 \in 0..n /\ k + 1 \in 1..n /\ k + 1 # 0 /\ (k + 1) - 1 = k /\ k <= n
    BY <1>3
  <2>2. b = Tally(a, k + 1, c)
    BY <1>1, <2>1, Zenon DEF IsTotals, n
  <2>3. Good(k)
    BY <1>6, <2>1
  <2>4. c \in Nat /\ k + 1 \in Nat \ {0}
    BY <1>3, <2>1
  <2>5. S(k + 1) = S(k) + c
    BY <1>4, <2>1
  <2>6. a \in TotalsSet /\ a.max_active \in Nat /\ a.max_index \in Nat
    BY <2>3 DEF TotalsSet
  <2>7. a.megacycles_sum = S(k) /\ \A j \in 1..k : cycles[j] <= a.max_active /\ cycles[j] \in Nat
    BY <1>3, <2>1, <2>3
  <2>8. \/ a.max_index = 0 /\ a.max_active = 0
        \/ a.max_index + 1 \in 1..k /\ cycles[a.max_index + 1] = a.max_active
    BY <2>3
  <2>9. cycles[k + 1] = c
    OBVIOUS
  <2> HIDE DEF a, b, c
  <2>10. /\ b \in TotalsSet /\ b.megacycles_sum = a.megacycles_sum + c
         /\ c > a.max_active => b.max_active = c /\ b.max_index = k
         /\ c <= a.max_active => b.max_active = a.max_active /\ b.max_index = a.max_index
    <3> DEFINE k1 == k + 1
    <3>1. k1 \in Nat \ {0} /\ k1 - 1 = k /\ b = Tally(a, k1, c)
      BY <2>1, <2>2, <2>4
    <3> HIDE DEF k1
    <3>2. Tallied(a, k1, c, b)
      BY <2>4, <2>6, <3>1, TallyType
    <3> QED BY <3>1, <3>2 DEF Tallied
  <2>11. a.max_active <= b.max_active /\ c <= b.max_active /\ b.max_active \in Nat
    <3> DEFINE u == a.max_active
               v == b.max_active
    <3>1. u \in Nat /\ c \in Nat /\ (c > u => v = c) /\ (c <= u => v = u)
      BY <2>4, <2>6, <2>10
    <3> HIDE DEF u, v
    <3>2. u <= v /\ c <= v /\ v \in Nat
      BY <3>1
    <3> QED BY <3>2 DEF u, v
  <2>12. ASSUME NEW j \in 1..(k + 1) PROVE cycles[j] <= b.max_active
    <3>1. CASE j = k + 1
      BY <2>9, <2>11, <3>1
    <3>2. CASE j # k + 1
      <4>1. j \in 1..k
        BY <3>2
      <4>2. cycles[j] <= a.max_active /\ cycles[j] \in Nat
        BY <2>7, <4>1
      <4> DEFINE u == a.max_active
                 v == b.max_active
                 x == cycles[j]
      <4>3. u \in Nat /\ v \in Nat /\ x \in Nat /\ x <= u /\ u <= v
        BY <2>6, <2>11, <4>2
      <4> HIDE DEF u, v, x
      <4>4. x <= v
        BY <4>3
      <4> QED BY <4>4 DEF x, v
    <3> QED BY <3>1, <3>2
  <2>13. \/ b.max_index = 0 /\ b.max_active = 0
         \/ b.max_index + 1 \in 1..(k + 1) /\ cycles[b.max_index + 1] = b.max_active
    <3>1. CASE c > a.max_active
      <4>1. b.max_index = k /\ b.max_active = c /\ k + 1 \in 1..(k + 1)
        BY <2>10, <3>1
      <4> QED BY <2>9, <4>1
    <3>2. CASE c <= a.max_active
      <4>1. b.max_index = a.max_index /\ b.max_active = a.max_active
        BY <2>10, <3>2
      <4>2. \A x \in 1..k : x \in 1..(k + 1)
        OBVIOUS
      <4> QED BY <2>8, <4>1, <4>2, Zenon
    <3> QED BY <2>4, <2>6, <3>1, <3>2
  <2> QED BY <2>5, <2>7, <2>10, <2>12, <2>13 DEF b
<1> HIDE DEF P
<1>7. Nat \subseteq P
  BY <1>5, <1>6, SetInduction
<1>8. Good(n)
  BY <1>3, <1>7 DEF P
<1>9. SumSeq(cycles) = S(n)
  BY DEF SumSeq, S, n
<1> DEFINE t == f[n]
<1>10. /\ t \in TotalsSet /\ t.megacycles_sum = S(n)
       /\ \A j \in 1..n : cycles[j] <= t.max_active
       /\ \/ t.max_index = 0 /\ t.max_active = 0
          \/ t.max_index + 1 \in 1..n /\ cycles[t.max_index + 1] = t.max_active
  BY <1>8
<1> HIDE DEF t
<1>11. ASSUME cycles # <<>>
       PROVE  t.max_index + 1 \in 1..n /\ cycles[t.max_index + 1] = t.max_active
  <2>1. n # 0
    BY <1>11 DEF n
  <2>2. CASE t.max_index = 0 /\ t.max_active = 0
    <3>1. 1 \in 1..n
      BY <1>3, <2>1
    <3>2. cycles[1] \in Nat /\ cycles[1] <= 0
      BY <1>3, <1>10, <2>2, <3>1
    <3> QED BY <2>2, <3>1, <3>2
  <2> QED BY <1>10, <2>2
<1>12. Totals(cycles) = t
  BY <1>2 DEF t
<1> QED BY <1>9, <1>10, <1>11, <1>12 DEF n

-------------------------------------------------------------------------------
(* The summary of a trace.                                                       *)

\* The time between the first and the last sample of thread i.
Lasted(ss, m, i) ==
  ss[Max(SeenIn(ss, m, i))].time - ss[Min(SeenIn(ss, m, i))].time

\* The threads that are to be listed, by their samples.
SignificantPids(ss, m) ==
  {i \in Pids : /\ SeenIn(ss, m, i) # {}
                /\ UsTime(ss, i, Max(SeenIn(ss, m, i))) > UsTime(ss, i, Min(SeenIn(ss, m, i)))
                /\ 100 * Lasted(ss, m, i) > ss[m].time - ss[1].time}

\* What the account of a thread that was seen says.
LEMMA AccountSays ==
  ASSUME NEW ss, Readings(ss), NEW m \in 1..Len(ss), NEW i, SeenIn(ss, m, i) # {}
  PROVE  LET p == AccountOf(ss, m, i)
         IN  /\ active_jiffies(p) > 0 <=>
                  UsTime(ss, i, Max(SeenIn(ss, m, i))) > UsTime(ss, i, Min(SeenIn(ss, m, i)))
             /\ duration(p) = Lasted(ss, m, i)
             /\ p.totJiffies = RanPerCpu(ss, m, i) /\ p.mcyc = CyclesPerCpu(ss, m, i)
<1> DEFINE S == SeenIn(ss, m, i)
           first == Min(S)
           last == Max(S)
           p == AccountOf(ss, m, i)
<1>1. /\ first \in 1..Len(ss) /\ Sees(ss, first, i) /\ last \in 1..Len(ss) /\ Sees(ss, last, i)
  <2>1. m \in Nat /\ \A k \in 1..m : k \in 1..Len(ss)
    BY DEF Readings
  <2>2. S \in SUBSET (1..m) /\ \A k \in 1..m : k \in S <=> Sees(ss, k, i)
    BY <2>1, SeenNext
  <2>3. S # {} /\ S \subseteq Nat
    BY <2>2
  <2> HIDE DEF S
  <2>4. first \in S /\ last \in S
    BY <2>1, <2>2, <2>3, MaxIn, MinIn
  <2> HIDE DEF first, last
  <2> QED BY <2>1, <2>2, <2>4
<1>2. /\ ss[first].time \in Nat /\ ss[last].time \in Nat
      /\ UsTime(ss, i, first) \in Nat /\ UsTime(ss, i, last) \in Nat
  BY <1>1, SampleType
<1>3. p = Account(ss[first].time, ss[last].time, UsTime(ss, i, last),
                  UsTime(ss, i, last) - UsTime(ss, i, first),
                  RanPerCpu(ss, m, i), CyclesPerCpu(ss, m, i))
  BY Zenon DEF AccountOf
<1>4. Lasted(ss, m, i) = ss[last].time - ss[first].time
  BY Zenon DEF Lasted
<1> DEFINE x == ss[first].time
           y == ss[last].time
           u == UsTime(ss, i, first)
           v == UsTime(ss, i, last)
<1> HIDE DEF x, y, u, v, p, S, first, last
<1>5. p = Account(x, y, v, v - u, RanPerCpu(ss, m, i), CyclesPerCpu(ss, m, i))
  BY <1>3, Zenon DEF x, y, u, v
<1>6. /\ p.first = x /\ p.last = y /\ p.totJiffiesAllCpus = v - u
      /\ p.totJiffies = RanPerCpu(ss, m, i) /\ p.mcyc = CyclesPerCpu(ss, m, i)
  BY <1>5 DEF Account
<1>7. u \in Nat /\ v \in Nat
  BY <1>2 DEF u, v
<1>8. active_jiffies(p) > 0 <=> v > u
  BY <1>6, <1>7 DEF active_jiffies
<1>9. duration(p) = y - x
  BY <1>6, Zenon DEF duration
<1> QED BY <1>4, <1>6, <1>8, <1>9, Zenon DEF p, x, y, u, v, first, last, S

\* The threads the summary lists, in terms of the samples.
LEMMA SignificantAre ==
  ASSUME NEW ss, Readings(ss), NEW m \in 1..Len(ss), NEW t, t.pidHistory = HistoryOf(ss, m),
         t.traceStart = ss[1].time, t.traceEnd = ss[m].time
  PROVE  Significant(t) = SignificantPids(ss, m)
<1> DEFINE h == HistoryOf(ss, m)
           Sig(i) == active_jiffies(h[i]) > 0 /\ 100 * duration(h[i]) > ss[m].time - ss[1].time
           Says(i) == /\ UsTime(ss, i, Max(SeenIn(ss, m, i))) > UsTime(ss, i, Min(SeenIn(ss, m, i)))
                      /\ 100 * Lasted(ss, m, i) > ss[m].time - ss[1].time
<1>1. DOMAIN h = SeenPids(ss, m) /\ \A i \in SeenPids(ss, m) : h[i] = AccountOf(ss, m, i)
  BY Zenon DEF HistoryOf
<1>2. Significant(t) = {i \in SeenPids(ss, m) : Sig(i)}
  BY <1>1, Zenon DEF Significant
<1>3. ASSUME NEW i \in SeenPids(ss, m) PROVE Sig(i) <=> Says(i)
  <2>1. SeenIn(ss, m, i) # {}
    BY DEF SeenPids
  <2>2. h[i] = AccountOf(ss, m, i)
    BY <1>1
  <2> DEFINE p == AccountOf(ss, m, i)
  <2>3. /\ active_jiffies(p) > 0 <=>
             UsTime(ss, i, Max(SeenIn(ss, m, i))) > UsTime(ss, i, Min(SeenIn(ss, m, i)))
        /\ duration(p) = Lasted(ss, m, i)
    BY <2>1, AccountSays
  <2> HIDE DEF p
  <2>4. h[i] = p
    BY <2>2 DEF p
  <2> HIDE DEF h
  <2> QED BY <2>3, <2>4, Zenon
<1>4. SignificantPids(ss, m) = {i \in Pids : SeenIn(ss, m, i) # {} /\ Says(i)}
  BY Zenon DEF SignificantPids
<1> HIDE DEF Sig, Says, h
<1>5. \A i : i \in SeenPids(ss, m) <=> i \in Pids /\ SeenIn(ss, m, i) # {}
  BY DEF SeenPids
<1> QED BY <1>2, <1>3, <1>4, <1>5

\* The parts of the summary.
PidsOf(t) == SetToSeq(Significant(t))

\* The cycles of the threads listed.
CyclesOf(t) == [n \in 1..Len(PidsOf(t)) |-> MCyc_sum(t.pidHistory[PidsOf(t)[n]])]

\* The summary of a thread, and of all that are listed.
SummaryOf(p, pid) ==
  [pid |-> pid, duration |-> duration(p), active |-> p.totJiffies, MCyc |-> p.mcyc]

FoundOf(t) == [n \in 1..Len(PidsOf(t)) |-> SummaryOf(t.pidHistory[PidsOf(t)[n]], PidsOf(t)[n])]

\* The summary is made of these parts.
LEMMA SummaryIs ==
  ASSUME NEW t
  PROVE  LET r == postprocess_ferret_data(t)
         IN  /\ r.process_results = FoundOf(t)
             /\ r.main_thread_index = Totals(CyclesOf(t)).max_index
             /\ r.main_thread_megacycles = Totals(CyclesOf(t)).max_active
             /\ r.megacycles_sum = Totals(CyclesOf(t)).megacycles_sum
<1> DEFINE f == FoundOf(t)
           totals == Totals(CyclesOf(t))
           index == totals.max_index
           most == totals.max_active
           sum == totals.megacycles_sum
           r == [process_results |-> f, main_thread_index |-> index,
                 main_thread_megacycles |-> most, megacycles_sum |-> sum]
<1>1. postprocess_ferret_data(t) = r
  BY Zenon DEF postprocess_ferret_data, PidsOf, CyclesOf, FoundOf, SummaryOf
<1> HIDE DEF f, index, most, sum, totals
<1>2. /\ r.process_results = f /\ r.main_thread_index = index
      /\ r.main_thread_megacycles = most /\ r.megacycles_sum = sum
  OBVIOUS
<1> HIDE DEF r
<1> QED BY <1>1, <1>2, Zenon DEF f, index, most, sum, totals

\* The sum over the CPUs of a table of cycles.
CpuSum(table) == SumSeq([k \in DOMAIN CpuNrs |-> table[CpuNrs[k]]])

\* It is a number.
LEMMA CpuSumType ==
  ASSUME NEW table \in [Cpus -> Nat]
  PROVE  CpuSum(table) \in Nat
<1> DEFINE s == [k \in DOMAIN CpuNrs |-> table[CpuNrs[k]]]
           n == Len(CpuNrs)
<1>1. n \in Nat /\ DOMAIN CpuNrs = 1..n
  BY TraceAssumption
<1>2. \A k \in 1..n : CpuNrs[k] \in Cpus
  BY <1>1, Zenon DEF Cpus, Range
<1>3. s \in [1..n -> Nat]
  <2> HIDE DEF n
  <2> QED BY <1>1, <1>2
<1> HIDE DEF s, n
<1>4. s \in Seq(Nat) /\ Len(s) = n
  BY <1>1, <1>3
<1>5. SumSeq(s) \in Nat
  <2>1. n = 0 => s = <<>>
    BY <1>4
  <2>2. n # 0 => 1 \in 1..Len(s)
    BY <1>1, <1>4
  <2> QED BY <1>4, <2>1, <2>2, SumEmpty, ElementBelowSum
<1> QED BY <1>5, Zenon DEF CpuSum, s

\* What is right for the threads listed and their cycles.
CyclesFound(found) == [n \in DOMAIN found |-> CpuSum(found[n].MCyc)]

\* The summaries found, and their cycles, are those of the threads to be listed.
FoundSays(ss, m, found, cycles) ==
  /\ {found[n].pid : n \in DOMAIN found} = SignificantPids(ss, m)
  /\ \A n \in DOMAIN found :
       /\ found[n].duration = Lasted(ss, m, found[n].pid)
       /\ found[n].active = RanPerCpu(ss, m, found[n].pid)
       /\ found[n].MCyc = CyclesPerCpu(ss, m, found[n].pid)
  /\ cycles \in Seq(Nat) /\ DOMAIN found = 1..Len(cycles)
  /\ found # <<>> => cycles # <<>>

\* The summary of every thread listed says what its samples say.
LEMMA FoundThreads ==
  ASSUME NEW ss, Readings(ss), NEW m \in 1..Len(ss), NEW t, t.pidHistory = HistoryOf(ss, m),
         t.traceStart = ss[1].time, t.traceEnd = ss[m].time
  PROVE  CyclesOf(t) = CyclesFound(FoundOf(t)) /\ FoundSays(ss, m, FoundOf(t), CyclesOf(t))
<1> DEFINE S == SignificantPids(ss, m)
           q == PidsOf(t)
           N == Cardinality(S)
           h == t.pidHistory
           found == FoundOf(t)
           cycles == CyclesFound(found)
<1>1. Significant(t) = S
  BY SignificantAre
<1>2. S \subseteq Pids /\ S \subseteq SeenPids(ss, m) /\ \A i \in S : SeenIn(ss, m, i) # {}
  BY DEF SignificantPids, SeenPids
<1>3. IsFiniteSet(S)
  BY <1>2, TraceAssumption, FS_Subset
<1>4. N \in Nat /\ q \in [1..N -> S] /\ \A i \in S : \E k \in 1..N : q[k] = i
  BY <1>1, <1>3, SetListed DEF PidsOf
<1> HIDE DEF S, N, q
<1>5. Len(q) = N
  BY <1>4
<1>6. /\ DOMAIN found = 1..N /\ \A n \in 1..N : found[n] = SummaryOf(h[q[n]], q[n])
  BY <1>5, Zenon DEF FoundOf, q
<1>7. CyclesOf(t) = [n \in 1..N |-> MCyc_sum(h[q[n]])]
  BY <1>5, Zenon DEF CyclesOf, q
<1> HIDE DEF found
<1>8. ASSUME NEW n \in 1..N
      PROVE  /\ found[n].pid = q[n] /\ q[n] \in S
             /\ found[n].duration = Lasted(ss, m, q[n])
             /\ found[n].active = RanPerCpu(ss, m, q[n])
             /\ found[n].MCyc = CyclesPerCpu(ss, m, q[n])
             /\ MCyc_sum(h[q[n]]) = CpuSum(found[n].MCyc)
  <2> DEFINE i == q[n]
             p == h[i]
  <2>1. i \in S
    BY <1>4
  <2>2. p = AccountOf(ss, m, i)
    BY <1>2, <2>1, Zenon DEF HistoryOf
  <2>3. SeenIn(ss, m, i) # {}
    BY <1>2, <2>1
  <2> HIDE DEF p, i
  <2>4. /\ duration(p) = Lasted(ss, m, i) /\ p.totJiffies = RanPerCpu(ss, m, i)
        /\ p.mcyc = CyclesPerCpu(ss, m, i)
    BY <2>2, <2>3, AccountSays
  <2>5. found[n] = SummaryOf(p, i)
    BY <1>6 DEF p, i
  <2>6. /\ found[n].pid = i /\ found[n].duration = duration(p)
        /\ found[n].active = p.totJiffies /\ found[n].MCyc = p.mcyc
    BY <2>5 DEF SummaryOf
  <2>7. MCyc_sum(p) = CpuSum(p.mcyc)
    BY Zenon DEF MCyc_sum, CpuSum
  <2> QED BY <2>1, <2>4, <2>6, <2>7, Zenon DEF i, p
<1>9. {found[n].pid : n \in 1..N} = S
  <2>1. \A n \in 1..N : found[n].pid = q[n] /\ q[n] \in S
    BY <1>8
  <2>2. \A i \in S : \E n \in 1..N : found[n].pid = i
    <3> SUFFICES ASSUME NEW i \in S PROVE \E n \in 1..N : found[n].pid = i
      OBVIOUS
    <3>1. PICK n \in 1..N : q[n] = i
      BY <1>4
    <3> QED BY <2>1, <3>1
  <2> DEFINE g(n) == found[n].pid
  <2>3. (\A n \in 1..N : g(n) \in S) /\ \A i \in S : \E n \in 1..N : g(n) = i
    BY <2>1, <2>2
  <2> HIDE DEF g
  <2>4. {g(n) : n \in 1..N} = S
    BY <2>3
  <2> QED BY <2>4 DEF g
<1>10. cycles = [n \in 1..N |-> CpuSum(found[n].MCyc)]
  BY <1>6, Zenon DEF CyclesFound
<1>11. CyclesOf(t) = cycles
  <2> DEFINE a(n) == MCyc_sum(h[q[n]])
             b(n) == CpuSum(found[n].MCyc)
  <2>1. \A n \in 1..N : a(n) = b(n)
    BY <1>8
  <2> HIDE DEF a, b, cycles
  <2>2. CyclesOf(t) = [n \in 1..N |-> a(n)] /\ cycles = [n \in 1..N |-> b(n)]
    BY <1>7, <1>10, Zenon DEF a, b
  <2> QED BY <2>1, <2>2
<1>12. ASSUME NEW n \in 1..N PROVE CpuSum(found[n].MCyc) \in Nat
  <2> DEFINE i == q[n]
             table == CyclesPerCpu(ss, m, i)
  <2>1. ASSUME NEW c \in Cpus PROVE CyclesOn(ss, m, i, c) \in Nat
    <3>1. m - 1 \in Nat /\ (m - 1) + 1 = m
      BY DEF Readings
    <3> DEFINE k == m - 1
               d == Ran(ss, i, c, k + 1)
               f == Freq(ss, c, k + 1)
    <3>2. k \in Nat /\ k + 1 = m /\ k + 1 \in 1..Len(ss)
      BY <3>1
    <3> HIDE DEF k
    <3>3. CyclesOn(ss, k, i, c) \in Nat /\ CyclesOn(ss, k + 1, i, c) = CyclesOn(ss, k, i, c) + d * f
      BY <3>2, RanNext
    <3>4. d \in Nat /\ f \in Nat
      BY <3>2, RanType, FreqType
    <3> HIDE DEF d, f
    <3> DEFINE z == d * f
    <3>5. z \in Nat
      BY <3>4
    <3> HIDE DEF z
    <3>6. CyclesOn(ss, k + 1, i, c) = CyclesOn(ss, k, i, c) + z
      BY <3>3 DEF z
    <3>7. CyclesOn(ss, k + 1, i, c) \in Nat
      BY <3>3, <3>5, <3>6
    <3> QED BY <3>2, <3>7
  <2>2. table \in [Cpus -> Nat]
    <3> HIDE DEF i
    <3> QED BY <2>1 DEF CyclesPerCpu
  <2> HIDE DEF table
  <2>3. CpuSum(table) \in Nat
    BY <2>2, CpuSumType
  <2>4. found[n].MCyc = table
    BY <1>8 DEF table
  <2> QED BY <2>3, <2>4
<1>13. cycles \in Seq(Nat) /\ Len(cycles) = N
  <2> DEFINE b(n) == CpuSum(found[n].MCyc)
  <2>1. \A n \in 1..N : b(n) \in Nat
    BY <1>12
  <2> HIDE DEF b, cycles
  <2>2. cycles = [n \in 1..N |-> b(n)]
    BY <1>10, Zenon DEF b
  <2>3. cycles \in [1..N -> Nat]
    BY <2>1, <2>2
  <2> QED BY <1>4, <2>3
<1> HIDE DEF cycles
<1>14. DOMAIN found = 1..Len(cycles) /\ {found[n].pid : n \in DOMAIN found} = S
  BY <1>6, <1>9, <1>13
<1>15. \A n \in DOMAIN found :
         /\ found[n].duration = Lasted(ss, m, found[n].pid)
         /\ found[n].active = RanPerCpu(ss, m, found[n].pid)
         /\ found[n].MCyc = CyclesPerCpu(ss, m, found[n].pid)
  BY <1>6, <1>8
<1>16. ASSUME found # <<>> PROVE cycles # <<>>
  <2>1. N = 0 => found = <<>>
    <3> DEFINE e(n) == SummaryOf(h[q[n]], q[n])
    <3> HIDE DEF e
    <3>1. found = [n \in 1..N |-> e(n)]
      BY <1>5, Zenon DEF FoundOf, found, q, e
    <3> QED BY <3>1
  <2> QED BY <1>4, <1>13, <1>16, <2>1
<1>17. FoundSays(ss, m, found, cycles)
  BY <1>13, <1>14, <1>15, <1>16, Zenon DEF FoundSays, S
<1> QED BY <1>11, <1>17, Zenon DEF cycles, found

\* The summary of a trace accounts for the time of every thread, whatever was found of it in
\* any number of samples, on any CPUs and at any frequencies (ferret.cpp:1278,
\* postprocess_ferret_data).
THEOREM ThreadsAccountedHolds == CasesSpec => []ThreadsAccounted
<1>1. TraceInv => ThreadsAccounted
  <2> DEFINE t == case.trace
             ss == case.samples
             m == Len(ss) - 1
             r == postprocess_ferret_data(t)
             found == r.process_results
             cycles == [n \in DOMAIN found |->
                          SumSeq([k \in DOMAIN CpuNrs |-> found[n].MCyc[CpuNrs[k]]])]
             at(i) == Max(SeenIn(ss, m, i))
             from(i) == Min(SeenIn(ss, m, i))
             lasted(i) == ss[at(i)].time - ss[from(i)].time
  <2> SUFFICES ASSUME TraceInv, kind = "trace", m > 0 PROVE ThreadsAccounted
    <3>1. ~(kind = "trace" /\ m > 0) => ThreadsAccounted
      BY Zenon DEF ThreadsAccounted
    <3> QED BY <3>1, Zenon
  <2>1. Readings(ss) /\ t = TraceOf(ss, Len(ss))
    BY Zenon DEF TraceInv
  <2>2. m \in 1..Len(ss) /\ Len(ss) # 0 /\ Len(ss) > 1 /\ Len(ss) - 1 = m
    <3> HIDE DEF ss
    <3> QED BY <2>1 DEF Readings
  <2>3. t.pidHistory = HistoryOf(ss, m) /\ t.traceStart = ss[1].time /\ t.traceEnd = ss[m].time
    <3> DEFINE n == Len(ss)
               state == StateOf(ss[n].time, ss[n].threads, ss[n].freqs)
    <3>1. t = TraceAs(state, HistoryOf(ss, n - 1), n > 1, IF n > 1 THEN ss[1].time ELSE 0,
                      IF n > 1 THEN ss[n - 1].time ELSE 0)
      BY <2>1, <2>2, Zenon DEF TraceOf
    <3> DEFINE b == n > 1
               x == IF n > 1 THEN ss[1].time ELSE 0
               y == IF n > 1 THEN ss[n - 1].time ELSE 0
    <3>2. x = ss[1].time /\ y = ss[m].time
      BY <2>2
    <3> HIDE DEF b, x, y, state
    <3>3. t = TraceAs(state, HistoryOf(ss, m), b, x, y)
      BY <2>2, <3>1, Zenon DEF b, x, y
    <3> HIDE DEF t, ss, m
    <3>4. t.pidHistory = HistoryOf(ss, m) /\ t.traceStart = x /\ t.traceEnd = y
      BY <3>3 DEF TraceAs
    <3> QED BY <3>2, <3>4
  <2> HIDE DEF t, ss, m
  <2>4. /\ found = FoundOf(t) /\ r.main_thread_index = Totals(CyclesOf(t)).max_index
        /\ r.main_thread_megacycles = Totals(CyclesOf(t)).max_active
        /\ r.megacycles_sum = Totals(CyclesOf(t)).megacycles_sum
    BY SummaryIs, Zenon
  <2> HIDE DEF r
  <2>5. cycles = CyclesFound(found)
    BY Zenon DEF CpuSum, CyclesFound
  <2> HIDE DEF cycles, found
  <2>6. cycles = CyclesOf(t) /\ FoundSays(ss, m, found, cycles)
    BY <2>1, <2>2, <2>3, <2>4, <2>5, FoundThreads
  <2>7. /\ r.megacycles_sum = SumSeq(cycles)
        /\ cycles # <<>> => /\ r.main_thread_index + 1 \in 1..Len(cycles)
                            /\ cycles[r.main_thread_index + 1] = r.main_thread_megacycles
        /\ \A n \in 1..Len(cycles) : cycles[n] <= r.main_thread_megacycles
    BY <2>4, <2>6, TotalsOf DEF FoundSays
  <2>8. {found[n].pid : n \in DOMAIN found} =
          {i \in Pids : /\ SeenIn(ss, m, i) # {}
                        /\ UsTime(ss, i, at(i)) > UsTime(ss, i, from(i))
                        /\ 100 * lasted(i) > ss[m].time - ss[1].time}
    BY <2>6, Zenon DEF FoundSays, SignificantPids, Lasted
  <2>9. ASSUME NEW n \in DOMAIN found
        PROVE  LET i == found[n].pid
               IN  /\ found[n].duration = lasted(i)
                   /\ found[n].active = [c \in Cpus |-> RanOn(ss, m, i, c)]
                   /\ found[n].MCyc = [c \in Cpus |-> CyclesOn(ss, m, i, c)]
                   /\ cycles[n] <= cycles[r.main_thread_index + 1]
    <3>1. n \in 1..Len(cycles) /\ cycles # <<>>
      BY <2>6 DEF FoundSays
    <3>2. cycles[n] <= cycles[r.main_thread_index + 1]
      BY <2>7, <3>1
    <3> QED BY <2>6, <3>2, Zenon DEF FoundSays, Lasted, RanPerCpu, CyclesPerCpu
  <2>10. found # <<>> => r.main_thread_megacycles = cycles[r.main_thread_index + 1]
    BY <2>6, <2>7, Zenon DEF FoundSays
  <2> QED BY <2>7, <2>8, <2>9, <2>10, Zenon DEF ThreadsAccounted, t, ss, m, r, cycles, found
<1> QED BY <1>1, TraceInvariant, PTL
===============================================================================
