----------------------------- MODULE DeviceProofs -----------------------------
(* The two collectors that talk to something which may keep them waiting, for    *)
(* every device, daemon and number of attempts: what the Mali collector holds of *)
(* the kernel, and that the power collector stays in step with its daemon.       *)
EXTENDS MCDevices, SumProofs, FiniteSetTheorems, TLAPS

USE DEF deviceVars, handleVars, resourceVars, ringVars, readerVars

\* The types the accounting of buffers and mappings needs.
ReaderTypeOK ==
  /\ tries \in Nat /\ buffer_count \in Nat /\ mapped \in Int
  /\ made \in Nat /\ lost \in Nat /\ ready \in Seq(Nat)

ReaderInv == ReaderTypeOK /\ NothingLeftBehind

\* init() ends with exactly what it took: term() (hwcpipe.cpp:282) has given the rest back.
LEMMA InitKeepsOne ==
  ASSUME ReaderInv, NEW done \in 0..Product, NEW n \in Nat, init(done, n)
  PROVE  /\ opened' = {FdAfter(done, n), HwcFdAfter(done, n)} \ {None}
         /\ mapped' = IF done >= Map THEN n ELSE 0
<1>1. AfterClose = {}
  BY DEF ReaderInv, NothingLeftBehind, AfterClose
<1>2. AfterUnmap = 0
  BY DEF ReaderInv, ReaderTypeOK, NothingLeftBehind, AfterUnmap
<1>3. opened' = {FdAfter(done, n), HwcFdAfter(done, n)} \ {None}
  BY <1>1 DEF init
<1>4. mapped' = IF done >= Map THEN n ELSE 0
  BY <1>2 DEF init, Map, Product
<1> QED BY <1>3, <1>4

\* Each step of the reader keeps the members and the kernel together.
LEMMA ReaderStep == ReaderInv /\ [NextReader]_readerVars => ReaderInv'
<1> SUFFICES ASSUME ReaderInv, [NextReader]_readerVars PROVE ReaderInv'
  OBVIOUS
<1>a. ReaderTypeOK /\ NothingLeftBehind
  BY DEF ReaderInv
<1>1. CASE get_mali_hw_info
  BY <1>1, <1>a DEF get_mali_hw_info, ReaderInv, ReaderTypeOK, NothingLeftBehind
<1>2. CASE Try
  <2>1. PICK done \in 0..Product :
          /\ init(done, tries + 1)
          /\ fd' = FdAfter(done, tries + 1) /\ hwc_fd' = HwcFdAfter(done, tries + 1)
          /\ sample_data' = IF done >= Map THEN "mapped"
                            ELSE IF done = Map - 1 THEN "failed" ELSE "null"
          /\ dumping' = (done >= Interval)
    BY <1>2 DEF Try
  <2>2. tries + 1 \in Nat /\ tries' = tries + 1 /\ buffer_count' = tries + 1
    BY <1>2, <1>a DEF Try, ReaderTypeOK
  <2>3. /\ opened' = {fd', hwc_fd'} \ {None}
        /\ mapped' = IF done >= Map THEN tries + 1 ELSE 0
    BY <2>1, <2>2, InitKeepsOne
  <2>4. sample_data' = "mapped" <=> done >= Map
    BY <2>1 DEF Map, Product
  <2>5. dumping' => hwc_fd' # None
    <3>1. dumping' => done >= Interval
      BY <2>1
    <3>2. done >= Interval => hwc_fd' = <<"hwc_fd", tries + 1>>
      BY <2>1 DEF HwcFdAfter, Setup, Interval, Product
    <3>3. <<"hwc_fd", tries + 1>>[1] # None[1]
      BY DEF None
    <3> QED BY <3>1, <3>2, <3>3
  <2>6. ready' = <<>> /\ lost' = 0 /\ made' = made
    BY <1>2 DEF Try
  <2>7. ReaderTypeOK'
    BY <2>2, <2>3, <2>6, <1>a DEF ReaderTypeOK
  <2>8. NothingLeftBehind'
    BY <2>2, <2>3, <2>4, <2>5, <2>6 DEF NothingLeftBehind
  <2> QED BY <2>7, <2>8 DEF ReaderInv
<1>3. CASE Destruct
  <2>1. opened' = {} /\ mapped' = 0
    BY <1>3, <1>a DEF Destruct, AfterClose, AfterUnmap, NothingLeftBehind, ReaderTypeOK
  <2> QED BY <1>3, <1>a, <2>1 DEF Destruct, ReaderInv, ReaderTypeOK, NothingLeftBehind
<1>4. CASE Dump
  <2>1. ready' \in Seq(Nat) /\ Len(ready') = Len(ready) + 1 /\ Len(ready) \in Nat
    BY <1>4, <1>a DEF Dump, ReaderTypeOK
  <2> QED BY <1>4, <1>a, <2>1 DEF Dump, ReaderInv, ReaderTypeOK, NothingLeftBehind
<1>5. CASE TakeSample \/ LoseBuffer
  <2>1. ready # <<>> /\ ready' = Tail(ready) /\ ready \in Seq(Nat)
    BY <1>5, <1>a DEF TakeSample, LoseBuffer, ReaderTypeOK
  <2>2. ready' \in Seq(Nat) /\ Len(ready') = Len(ready) - 1 /\ Len(ready) \in Nat
    BY <2>1
  <2>3. /\ UNCHANGED <<handleVars, resourceVars, made>>
        /\ lost' = lost \/ lost' = lost + 1
    BY <1>5 DEF TakeSample, LoseBuffer
  <2>4. ReaderTypeOK' /\ Len(ready') + lost' <= Len(ready) + lost
    BY <1>a, <2>2, <2>3 DEF ReaderTypeOK
  <2>5. dumping' => hwc_fd' # None /\ Len(ready') + lost' <= buffer_count'
    <3>1. dumping' => dumping
      BY <2>3
    <3>2. dumping => hwc_fd # None /\ Len(ready) + lost <= buffer_count
      BY <1>a DEF NothingLeftBehind
    <3>3. UNCHANGED <<hwc_fd, buffer_count>>
      BY <2>3
    <3>4. Len(ready) + lost <= buffer_count => Len(ready') + lost' <= buffer_count
      BY <1>a, <2>2, <2>4 DEF ReaderTypeOK
    <3> QED BY <3>1, <3>2, <3>3, <3>4
  <2> QED BY <1>a, <2>3, <2>4, <2>5 DEF ReaderInv, NothingLeftBehind
<1>6. CASE NoSample \/ UNCHANGED readerVars
  BY <1>6, <1>a DEF NoSample, ReaderInv, ReaderTypeOK, NothingLeftBehind
<1> QED BY <1>1, <1>2, <1>3, <1>4, <1>5, <1>6 DEF NextReader

\* MaliCounters has the actions of the reader through an INSTANCE of its own.
LEMMA SameReader ==
  /\ Mali!get_mali_hw_info => get_mali_hw_info
  /\ Mali!Try => Try
  /\ Mali!Dump => Dump
  /\ Mali!TakeSample => TakeSample
  /\ Mali!LoseBuffer => LoseBuffer
  /\ Mali!NoSample => NoSample
  /\ Mali!Destruct => Destruct
<1> USE DEF Mali!deviceVars, Mali!handleVars, Mali!resourceVars, Mali!ringVars, Mali!readerVars
<1>1. Mali!get_mali_hw_info => get_mali_hw_info
  BY DEF Mali!get_mali_hw_info, get_mali_hw_info
<1>2. Mali!Try => Try
  <2>1. \A done, n : Mali!FdAfter(done, n) = FdAfter(done, n)
    BY DEF Mali!FdAfter, FdAfter, Mali!Open, Open, Mali!None, None
  <2>2. \A done, n : Mali!HwcFdAfter(done, n) = HwcFdAfter(done, n)
    BY DEF Mali!HwcFdAfter, HwcFdAfter, Mali!Setup, Setup, Mali!None, None
  <2>3. Mali!None = None /\ Mali!AfterClose = AfterClose /\ Mali!AfterUnmap = AfterUnmap
        /\ Mali!Map = Map /\ Mali!Interval = Interval /\ Mali!Product = Product
    BY DEF Mali!None, None, Mali!AfterClose, AfterClose, Mali!AfterUnmap, AfterUnmap, Mali!Map, Map,
           Mali!Interval, Interval, Mali!Product, Product
  <2>4. \A done, n : Mali!init(done, n) => init(done, n)
    BY <2>1, <2>2, <2>3, Zenon DEF Mali!init, init
  <2> QED BY <2>1, <2>2, <2>3, <2>4, Zenon DEF Mali!Try, Try
<1>3. Mali!Dump => Dump
  BY DEF Mali!Dump, Dump
<1>4. Mali!TakeSample => TakeSample
  BY DEF Mali!TakeSample, TakeSample
<1>5. Mali!LoseBuffer => LoseBuffer
  BY DEF Mali!LoseBuffer, LoseBuffer
<1>6. Mali!NoSample => NoSample
  BY DEF Mali!NoSample, NoSample
<1>7. Mali!Destruct => Destruct
  BY DEF Mali!Destruct, Destruct, Mali!None, None, Mali!AfterClose, AfterClose, Mali!AfterUnmap,
         AfterUnmap
<1> QED BY <1>1, <1>2, <1>3, <1>4, <1>5, <1>6, <1>7

(* The collector uses its reader only as the reader may be used. *)
LEMMA ReaderUsed == [Mali!Next]_(Mali!vars) => [NextReader]_readerVars
<1> USE DEF Mali!deviceVars, Mali!handleVars, Mali!resourceVars, Mali!ringVars, Mali!readerVars
<1> SUFFICES ASSUME [Mali!Next]_(Mali!vars) PROVE [NextReader]_readerVars
  OBVIOUS
<1>1. CASE Mali!Below
  BY <1>1, SameReader DEF Mali!Below, NextReader
<1>2. CASE Mali!init_collector \/ Mali!start \/ Mali!collect \/ Mali!stop
  BY <1>2 DEF Mali!init_collector, Mali!start, Mali!collect, Mali!stop
<1>3. CASE Mali!Call
  BY <1>3, SameReader DEF Mali!Call, Mali!Started, Mali!StartFailed, NextReader
<1>4. CASE Mali!Destroy
  BY <1>4, SameReader DEF Mali!Destroy, NextReader
<1>5. CASE UNCHANGED Mali!vars
  BY <1>5 DEF Mali!vars
<1> QED BY <1>1, <1>2, <1>3, <1>4, <1>5 DEF Mali!Next

\* The collector takes samples from a reader that lives, and destroys it once: it implements
\* SpecReader.
THEOREM UsesReader == Mali!Init /\ [][Mali!Next]_(Mali!vars) => SpecReader
<1>1. Mali!Init => InitReader
  BY DEF Mali!Init, Mali!InitReader, InitReader, Mali!None, None
<1> QED BY <1>1, ReaderUsed, PTL DEF SpecReader

\* Whatever attempts fail and wherever (hwcpipe.cpp:280-418), and whatever the collector
\* does, the members name every descriptor and mapping that is open, up to the destructor.
THEOREM NothingLeftBehindHolds == Mali!Init /\ [][Mali!Next]_(Mali!vars) => []NothingLeftBehind
<1>1. InitReader => ReaderInv
  BY DEF InitReader, ReaderInv, ReaderTypeOK, NothingLeftBehind, None
<1>2. ReaderInv => NothingLeftBehind
  BY DEF ReaderInv
<1> QED BY <1>1, <1>2, ReaderStep, UsesReader, PTL DEF SpecReader

-------------------------------------------------------------------------------
(* Virtual and real cores.                                                     *)

\* MaliCounters has its operators on sets through its own INSTANCE, too.
LEMMA SameCardinality == \A S : Mali!Cardinality(S) = Cardinality(S)
  BY DEF Mali!Cardinality, Cardinality

Rank(cores, p) == Mali!Cardinality({q \in cores : q < p})

(* The cores of a device are numbered without holes, in order. *)
LEMMA RanksAreNumbers ==
  ASSUME NEW cores \in SUBSET Nat, IsFiniteSet(cores)
  PROVE  /\ Cardinality(cores) \in Nat
         /\ \A p \in cores : Rank(cores, p) \in 0..Cardinality(cores) - 1
         /\ \A p, r \in cores : p < r => Rank(cores, p) < Rank(cores, r)
         /\ \A p, r \in cores : Rank(cores, p) = Rank(cores, r) => p = r
         /\ \A c \in 0..Cardinality(cores) - 1 : \E p \in cores : Rank(cores, p) = c
<1> DEFINE Below(p) == {q \in cores : q < p}
           n == Cardinality(cores)
<1>1. n \in Nat
  BY FS_CardinalityType
<1>2. ASSUME NEW p \in cores
      PROVE  IsFiniteSet(Below(p)) /\ Cardinality(Below(p)) \in 0..n - 1
  <2>1. Below(p) \in SUBSET cores /\ Below(p) # cores
    OBVIOUS
  <2>2. IsFiniteSet(Below(p)) /\ Cardinality(Below(p)) <= n /\ Cardinality(Below(p)) # n
    BY <2>1, FS_Subset
  <2>3. Cardinality(Below(p)) \in Nat
    BY <2>2, FS_CardinalityType
  <2> HIDE DEF n, Below
  <2> QED BY <1>1, <2>2, <2>3
<1>3. ASSUME NEW p \in cores, NEW r \in cores, p < r
      PROVE  Cardinality(Below(p)) < Cardinality(Below(r))
  <2>1. Below(p) \in SUBSET Below(r) /\ Below(p) # Below(r)
    <3>1. \A q \in cores : q \in Nat /\ (q < p => q < r)
      BY <1>3
    <3>2. p \in Below(r) /\ p \notin Below(p)
      BY <1>3
    <3> QED BY <3>1, <3>2, Zenon
  <2> HIDE DEF Below
  <2>2. /\ Cardinality(Below(p)) <= Cardinality(Below(r))
        /\ Cardinality(Below(p)) # Cardinality(Below(r))
    BY <1>2, <2>1, FS_Subset
  <2>3. Cardinality(Below(p)) \in Int /\ Cardinality(Below(r)) \in Int
    BY <1>2
  <2> QED BY <2>2, <2>3
<1>4. ASSUME NEW p \in cores, NEW r \in cores, Rank(cores, p) = Rank(cores, r) PROVE p = r
  <2>1. Cardinality(Below(p)) = Cardinality(Below(r)) /\ Cardinality(Below(p)) \in Int
    BY <1>2, <1>4, SameCardinality DEF Rank
  <2>2. p \in Nat /\ r \in Nat /\ ~(p < r) /\ ~(r < p)
    BY <1>3, <2>1
  <2> QED BY <2>2
<1>5. ASSUME NEW c \in 0..n - 1 PROVE \E p \in cores : Rank(cores, p) = c
  <2> DEFINE f == [p \in cores |-> Rank(cores, p)]
             T == 0..n - 1
  <2>1. IsFiniteSet(T) /\ Cardinality(T) = n
    <3>1. n - 1 \in Int /\ 0 \in Int
      BY <1>1
    <3>2. IsFiniteSet(0..n - 1) /\ Cardinality(0..n - 1) = IF 0 > n - 1 THEN 0 ELSE n - 1 - 0 + 1
      BY <3>1, FS_Interval
    <3> HIDE DEF n
    <3> QED BY <1>1, <3>2
  <2>2. f \in Injection(cores, T)
    BY <1>2, <1>4, SameCardinality DEF Rank, Injection, IsInjective
  <2> HIDE DEF f, T
  <2>3. f \in Surjection(cores, T)
    BY <2>1, <2>2, FS_Injection
  <2>4. \A t \in T : \E p \in cores : f[p] = t
    BY <2>3 DEF Surjection
  <2> QED BY <2>4 DEF f, T
<1> QED BY <1>1, <1>2, <1>3, <1>4, <1>5, SameCardinality DEF Rank

(* One of them is the last. *)
LEMMA MaxOfCores ==
  ASSUME NEW cores \in SUBSET Nat, IsFiniteSet(cores), cores # {}
  PROVE  Mali!Max(cores) \in cores /\ \A p \in cores : p <= Mali!Max(cores)
<1> DEFINE n == Cardinality(cores)
<1>1. n \in Nat /\ n # 0
  BY FS_EmptySet, FS_CardinalityType
<1>2. PICK m \in cores : Rank(cores, m) = n - 1
  <2>1. n - 1 \in 0..n - 1
    BY <1>1
  <2> QED BY <2>1, RanksAreNumbers
<1>3. ASSUME NEW p \in cores PROVE p <= m
  <2>1. ~(m < p)
    <3>1. Rank(cores, p) \in 0..n - 1 /\ (m < p => Rank(cores, m) < Rank(cores, p))
      BY RanksAreNumbers
    <3> HIDE DEF n
    <3> QED BY <1>1, <1>2, <3>1
  <2> QED BY <2>1
<1>4. \E x \in cores : \A y \in cores : x >= y
  BY <1>3
<1>5. Mali!Max(cores) \in cores /\ \A y \in cores : Mali!Max(cores) >= y
  BY <1>4 DEF Mali!Max
<1> QED BY <1>5

CoresOK(cores) == cores \subseteq Nat /\ IsFiniteSet(cores) /\ cores # {}

(* On a device that was recognized a virtual core leads to a real one, and every real *)
(* core has one that leads to it.                                                     *)
LEMMA CoresRemapped ==
  ASSUME CoresOK(present), core_mask = present
  PROVE  /\ Mali!Cardinality(core_mask) \in Nat
         /\ \A p \in present : /\ Mali!Cardinality({q \in present : q < p}) \in 0..Mali!Cardinality(core_mask) - 1
                              /\ Mali!remap_core_index(Mali!Cardinality({q \in present : q < p})) = p
         /\ \A c \in 0..Mali!Cardinality(core_mask) - 1 : Mali!remap_core_index(c) \in present
<1>1. core_mask \in SUBSET Nat /\ IsFiniteSet(core_mask)
  BY DEF CoresOK
<1>2. /\ Mali!Cardinality(core_mask) \in Nat
      /\ \A p \in core_mask : Rank(core_mask, p) \in 0..Mali!Cardinality(core_mask) - 1
      /\ \A p, r \in core_mask : Rank(core_mask, p) = Rank(core_mask, r) => p = r
      /\ \A c \in 0..Mali!Cardinality(core_mask) - 1 : \E p \in core_mask : Rank(core_mask, p) = c
  BY <1>1, RanksAreNumbers, SameCardinality
<1>3. \A c : Mali!remap_core_index(c) = CHOOSE p \in core_mask : Rank(core_mask, p) = c
  BY DEF Mali!remap_core_index, Rank
<1>4. ASSUME NEW p \in core_mask PROVE Mali!remap_core_index(Rank(core_mask, p)) = p
  BY <1>2, <1>3, <1>4
<1>5. ASSUME NEW c \in 0..Mali!Cardinality(core_mask) - 1 PROVE Mali!remap_core_index(c) \in core_mask
  BY <1>2, <1>3, <1>5
<1>6. \A p : Rank(core_mask, p) = Rank(present, p)
  OBVIOUS
<1>7. \A p \in present : /\ Rank(present, p) \in 0..Mali!Cardinality(core_mask) - 1
                         /\ Mali!remap_core_index(Rank(present, p)) = p
  BY <1>2, <1>4, <1>6
<1>8. \A c \in 0..Mali!Cardinality(core_mask) - 1 : Mali!remap_core_index(c) \in present
  BY <1>5
<1> QED BY <1>2, <1>7, <1>8, Zenon DEF Rank

\* The real core of a virtual one.
RealCore(core) == IF core = -1 THEN -1 ELSE Mali!remap_core_index(core)

(* A counter belongs to a block, and those of the shader cores to a virtual core. *)
LEMMA PlaceOfCounter ==
  ASSUME NEW k, k \in Mali!Counters
  PROVE  /\ k[1] \in {"JM", "TILER", "MMU", "SHADER"}
         /\ \/ k[1] \in {"JM", "TILER", "MMU"} /\ k[2] = -1
            \/ k[1] = "SHADER" /\ k[2] \in 0..Mali!Cardinality(core_mask) - 1
<1>1. PICK block, core :
        /\ k \in Mali!build_block_vectors(block, core)
        /\ \/ block \in {"JM", "TILER", "MMU"} /\ core = -1
           \/ block = "SHADER" /\ core \in 0..Mali!Cardinality(core_mask) - 1
  <2> DEFINE A == UNION {Mali!build_block_vectors(block, -1) : block \in {"JM", "TILER", "MMU"}}
             B == UNION {Mali!build_block_vectors("SHADER", core) :
                           core \in 0..Mali!Cardinality(core_mask) - 1}
  <2>1. k \in A => \E block \in {"JM", "TILER", "MMU"} : k \in Mali!build_block_vectors(block, -1)
    OBVIOUS
  <2>2. k \in B => \E core \in 0..Mali!Cardinality(core_mask) - 1 :
                       k \in Mali!build_block_vectors("SHADER", core)
    OBVIOUS
  <2>3. Mali!Counters = A \cup B
    BY DEF Mali!Counters, A, B
  <2> HIDE DEF A, B
  <2>4. k \in A \/ k \in B
    BY <2>3
  <2> QED BY <2>1, <2>2, <2>4
<1>2. k[1] = block /\ k[2] = core
  BY <1>1 DEF Mali!build_block_vectors
<1> QED BY <1>1, <1>2

(* A counter of a device that was recognized is read where its block and core are. *)
LEMMA LooksAtItsPlace ==
  ASSUME CoresOK(present), Mali!Recognized, NEW k, k \in Mali!Counters
  PROVE  Mali!Look(k) = [sample |-> sample,
                         index |-> Mali!find_counter_index_by_name(k[1], k[3]),
                         from |-> <<k[1], RealCore(k[2])>>]
<1> DEFINE place == Mali!get_counters(k[1], k[2])
<1>1. core_mask = present /\ (hw_ver < 5 => present \subseteq 0..3)
  BY DEF Mali!Recognized
<1>2. \/ k[1] \in {"JM", "TILER", "MMU"} /\ k[2] = -1
      \/ k[1] = "SHADER" /\ k[2] \in 0..Mali!Cardinality(core_mask) - 1
  BY PlaceOfCounter
<1>3. \A c \in 0..Mali!Cardinality(core_mask) - 1 : c # -1 /\ Mali!remap_core_index(c) \in present
  <2>1. Mali!Cardinality(core_mask) \in Nat
    BY <1>1, CoresRemapped
  <2> QED BY <1>1, <2>1, CoresRemapped
<1>4. Mali!Max(present) \in Nat /\ \A p \in present : p \in Nat /\ p <= Mali!Max(present)
  BY MaxOfCores DEF CoresOK
<1>5. place \in DOMAIN Mali!Payload /\ Mali!Payload[place] = <<k[1], RealCore(k[2])>>
  <2>1. CASE hw_ver < 5 /\ k[1] # "SHADER"
    BY <1>2, <2>1 DEF Mali!get_counters, Mali!Payload, RealCore
  <2>2. CASE hw_ver < 5 /\ k[1] = "SHADER"
    BY <1>1, <1>2, <1>3, <2>2 DEF Mali!get_counters, Mali!Payload, Mali!CoreBlock, RealCore
  <2>3. CASE ~(hw_ver < 5) /\ k[1] # "SHADER"
    BY <1>2, <1>4, <2>3 DEF Mali!get_counters, Mali!Payload, RealCore
  <2>4. CASE ~(hw_ver < 5) /\ k[1] = "SHADER"
    <3>1. k[2] # -1 /\ Mali!remap_core_index(k[2]) \in present
      BY <1>2, <1>3, <2>4
    <3>2. PICK p \in present : p = Mali!remap_core_index(k[2])
      BY <3>1
    <3>3. place = 3 + p /\ RealCore(k[2]) = p
      BY <2>4, <3>1, <3>2 DEF Mali!get_counters, RealCore
    <3>4. 3 + p \in 0..3 + Mali!Max(present) /\ 3 + p \notin {0, 1, 2} /\ (3 + p) - 3 = p
      BY <1>4
    <3>5. Mali!Payload[3 + p] = Mali!CoreBlock((3 + p) - 3) /\ 3 + p \in DOMAIN Mali!Payload
      BY <2>4, <3>4 DEF Mali!Payload
    <3>6. Mali!CoreBlock(p) = <<"SHADER", p>>
      BY DEF Mali!CoreBlock
    <3> HIDE DEF place
    <3> QED BY <2>4, <3>3, <3>4, <3>5, <3>6
  <2> QED BY <2>1, <2>2, <2>3, <2>4
<1> QED BY <1>5 DEF Mali!Look

(* A plain name has one entry in a block, and leads back to it; each of the block's *)
(* real cores is the one of a virtual core.                                         *)
LEMMA PlainCounter ==
  ASSUME CoresOK(present), Mali!Recognized, MaliAssumption,
         NEW block \in DOMAIN CounterNames, NEW i \in DOMAIN CounterNames[block],
         Mali!Plain(block, i), NEW core, core \in Mali!Cores(block),
         NEW k, k = <<block, Mali!Virtual(core), CounterNames[block][i]>>
  PROVE  /\ k \in Mali!Counters /\ Mali!Entries(k) = 1 /\ RealCore(k[2]) = core
         /\ Mali!find_counter_index_by_name(k[1], k[3]) = i
<1> DEFINE names == CounterNames[block]
<1>1. /\ Mali!HasName(names[i])
      /\ \A j \in DOMAIN names \ {i} : names[j] # names[i] /\ <<names[i], names[j]>> \notin Within
  BY Zenon DEF Mali!Plain
<1>2. k[1] = block /\ k[2] = Mali!Virtual(core) /\ k[3] = names[i]
  OBVIOUS
<1>3. DOMAIN names = 1..Len(names) /\ i \in Int /\ i \in DOMAIN names
  BY DEF MaliAssumption
<1>4. {j \in DOMAIN names : names[j] = names[i]} = {i}
  <2>1. \A j : j \in DOMAIN names /\ names[j] = names[i] <=> j = i
    <3> HIDE DEF names
    <3> QED BY <1>1, <1>3, Zenon
  <2> HIDE DEF names
  <2> QED BY <2>1, Zenon
<1>5. Mali!Entries(k) = 1
  <2>1. Mali!Entries(k) = Mali!Cardinality({j \in DOMAIN names : names[j] = names[i]})
    BY <1>2, Zenon DEF Mali!Entries
  <2>2. Cardinality({i}) = 1
    BY FS_Singleton
  <2> HIDE DEF names
  <2> QED BY <1>4, <2>1, <2>2, SameCardinality
<1>6. Mali!find_counter_index_by_name(k[1], k[3]) = i
  <2> DEFINE S == {j \in DOMAIN names : names[j] = names[i] \/ <<names[i], names[j]>> \in Within}
  <2>1. S = {i}
    <3>1. \A j : j \in DOMAIN names /\ (names[j] = names[i] \/ <<names[i], names[j]>> \in Within)
                 <=> j = i
      <4> HIDE DEF names
      <4> QED BY <1>1, <1>3, Zenon
    <3> HIDE DEF names
    <3> QED BY <3>1, Zenon DEF S
  <2>2. Mali!find_counter_index_by_name(k[1], k[3]) = Mali!Min(S)
    BY <1>2, Zenon DEF Mali!find_counter_index_by_name
  <2> HIDE DEF S
  <2>3. Mali!Min(S) = i
    BY <1>3, <2>1 DEF Mali!Min
  <2> QED BY <2>2, <2>3
<1>7. /\ block \in {"JM", "TILER", "MMU", "SHADER"}
      /\ block # "SHADER" => core = -1
      /\ block = "SHADER" => core \in present
  BY DEF MaliAssumption, Mali!Cores
<1>8. k \in Mali!build_block_vectors(block, k[2])
  <2>1. i \in {j \in DOMAIN names : Mali!HasName(names[j])}
    <3> HIDE DEF names
    <3> QED BY <1>1, <1>3, Zenon
  <2> QED BY <1>2, <2>1, Zenon DEF Mali!build_block_vectors
<1>9. CASE block # "SHADER"
  <2>1. k[2] = -1
    BY <1>2, <1>7, <1>9 DEF Mali!Virtual
  <2>2. k \in Mali!Counters
    BY <1>7, <1>8, <1>9, <2>1 DEF Mali!Counters
  <2> QED BY <1>5, <1>6, <1>7, <1>9, <2>1, <2>2 DEF RealCore
<1>10. CASE block = "SHADER"
  <2>1. core \in present /\ core_mask = present /\ core # -1
    BY <1>7, <1>10 DEF Mali!Recognized, CoresOK
  <2>2. k[2] = Mali!Cardinality({q \in present : q < core})
    BY <1>2, <2>1, Zenon DEF Mali!Virtual
  <2>3. /\ k[2] \in 0..Mali!Cardinality(core_mask) - 1 /\ Mali!remap_core_index(k[2]) = core
        /\ Mali!Cardinality(core_mask) \in Nat
    BY <2>1, <2>2, CoresRemapped
  <2>4. k[2] # -1
    BY <2>3
  <2>5. k \in Mali!Counters
    BY <1>8, <1>10, <2>3 DEF Mali!Counters
  <2> QED BY <1>5, <1>6, <2>3, <2>4, <2>5 DEF RealCore
<1> QED BY <1>9, <1>10

-------------------------------------------------------------------------------
(* The Mali collector: what a frame holds.                                     *)

\* Samples are taken in the order they were made in.
SamplesInOrder ==
  /\ made \in Nat /\ sample \in Nat /\ sample <= made /\ ready \in Seq(Nat)
  /\ \A i \in 1..Len(ready) : sample < ready[i] /\ ready[i] <= made
  /\ \A i, j \in 1..Len(ready) : i < j => ready[i] < ready[j]

\* The device is one, and its cores are not asked for again.
DeviceKnown ==
  /\ present \in CoreMasks
  /\ phase # "off" => stage \in {"built", "deleted"}

\* Every call of init() has added every counter, with all its entries.
HeaderInv ==
  /\ inits \in Nat
  /\ inits = 0 => header = <<>>
  /\ inits > 0 => header = [k \in Mali!Counters |-> inits * Mali!Entries(k)] /\ phase # "off"
  /\ phase \notin {"off", "deleted"} => inits > 0

\* Every frame of the session has added every entry, read from the session's sample.
RecordedInv ==
  /\ phase = "waiting" => recorded = <<>> /\ frames = 0 /\ before = sample
  /\ phase = "session" =>
       /\ frames \in Nat /\ (startOk => sample > before)
       /\ frames = 0 => recorded = <<>>
       /\ frames > 0 => recorded = [k \in DOMAIN header |->
                                      [n \in 1..frames * header[k] |-> Mali!Look(k)]]

\* A process goes on after a frame only if the sample was not silent.
ExitInv ==
  /\ exited \in BOOLEAN /\ (exited => phase = "session" /\ frames > 0)
  /\ phase = "session" /\ Mali!Recognized /\ frames > 0 => /\ exited => frames = 1
                                                           /\ ~exited => ~Mali!Silent

MaliInv == SamplesInOrder /\ DeviceKnown /\ HeaderInv /\ RecordedInv /\ ExitInv

(* Whoever takes samples, they come in order. *)
LEMMA SamplesStep == SamplesInOrder /\ [NextReader]_readerVars => SamplesInOrder'
<1> SUFFICES ASSUME SamplesInOrder, [NextReader]_readerVars PROVE SamplesInOrder'
  OBVIOUS
<1>a. /\ made \in Nat /\ sample \in Nat /\ sample <= made /\ ready \in Seq(Nat)
      /\ \A i \in 1..Len(ready) : sample < ready[i] /\ ready[i] <= made
      /\ \A i, j \in 1..Len(ready) : i < j => ready[i] < ready[j]
  BY DEF SamplesInOrder
<1>b. Len(ready) \in Nat /\ \A i \in 1..Len(ready) : ready[i] \in Nat
  BY <1>a
<1>1. CASE get_mali_hw_info
  BY <1>1, <1>a DEF get_mali_hw_info, SamplesInOrder
<1>2. CASE Try \/ Destruct
  <2>1. made' = made /\ sample' = sample /\ ready' = <<>>
    BY <1>2 DEF Try, Destruct
  <2>2. ready' \in Seq(Nat) /\ \A i \in 1..Len(ready') : FALSE
    BY <2>1
  <2> QED BY <1>a, <2>1, <2>2 DEF SamplesInOrder
<1>3. CASE Dump
  <2>1. made' = made + 1 /\ sample' = sample /\ ready' = Append(ready, made + 1)
    BY <1>3 DEF Dump
  <2>2. /\ ready' \in Seq(Nat) /\ Len(ready') = Len(ready) + 1 /\ Len(ready) \in Nat
        /\ ready'[Len(ready) + 1] = made + 1
        /\ \A i \in 1..Len(ready) : ready'[i] = ready[i] /\ ready[i] \in Nat
    <3>1. made + 1 \in Nat
      BY <1>a
    <3>2. /\ Append(ready, made + 1) \in Seq(Nat)
          /\ Len(Append(ready, made + 1)) = Len(ready) + 1
          /\ Append(ready, made + 1)[Len(ready) + 1] = made + 1
      BY <1>a, <1>b, <3>1
    <3>3. \A i \in 1..Len(ready) : Append(ready, made + 1)[i] = ready[i]
      BY <1>a, <1>b, <3>1
    <3> QED BY <1>b, <2>1, <3>2, <3>3
  <2>3. \A i \in 1..Len(ready') : i \in 1..Len(ready) \/ i = Len(ready) + 1
    BY <2>2
  <2>4. ASSUME NEW i \in 1..Len(ready')
        PROVE  sample' < ready'[i] /\ ready'[i] <= made'
    <3>1. CASE i \in 1..Len(ready)
      BY <1>a, <2>1, <2>2, <3>1
    <3>2. CASE i = Len(ready) + 1
      BY <1>a, <2>1, <2>2, <3>2
    <3> QED BY <2>3, <3>1, <3>2
  <2>5. ASSUME NEW i \in 1..Len(ready'), NEW j \in 1..Len(ready'), i < j
        PROVE  ready'[i] < ready'[j]
    <3>1. i \in 1..Len(ready)
      BY <2>2, <2>5
    <3>2. CASE j \in 1..Len(ready)
      BY <1>a, <2>2, <2>5, <3>1, <3>2
    <3>3. CASE j = Len(ready) + 1
      <4>1. ready'[j] = made + 1 /\ ready'[i] = ready[i] /\ ready[i] \in Nat
        BY <2>2, <3>1, <3>3
      <4>2. ready[i] <= made
        BY <1>a, <3>1
      <4> QED BY <1>a, <4>1, <4>2
    <3> QED BY <2>3, <3>2, <3>3
  <2>6. made' \in Nat /\ sample' \in Nat /\ sample' <= made'
    BY <1>a, <2>1
  <2> QED BY <2>2, <2>4, <2>5, <2>6, Zenon DEF SamplesInOrder
<1>4. CASE TakeSample \/ LoseBuffer
  <2>1. made' = made /\ sample' = Head(ready) /\ ready' = Tail(ready) /\ ready # <<>>
    BY <1>4 DEF TakeSample, LoseBuffer
  <2>2. /\ ready' \in Seq(Nat) /\ Len(ready') = Len(ready) - 1 /\ Len(ready) \in Nat
        /\ 1 \in 1..Len(ready) /\ sample' = ready[1]
        /\ \A i \in 1..Len(ready') : ready'[i] = ready[i + 1] /\ i + 1 \in 1..Len(ready) /\ 1 < i + 1
    BY <1>a, <2>1
  <2>0. sample' = ready[1] /\ 1 \in 1..Len(ready) /\ made' = made
    BY <2>1, <2>2, Zenon
  <2>3. sample' \in Nat /\ sample' <= made' /\ made' \in Nat
    <3>1. ready[1] \in Nat /\ ready[1] <= made
      BY <1>a, <1>b, <2>0, Zenon
    <3> QED BY <1>a, <2>0, <3>1
  <2>4. ASSUME NEW i \in 1..Len(ready')
        PROVE  sample' < ready'[i] /\ ready'[i] <= made'
    <3>1. ready'[i] = ready[i + 1] /\ i + 1 \in 1..Len(ready) /\ 1 < i + 1
      BY <2>2
    <3>2. ready[1] < ready[i + 1] /\ ready[i + 1] <= made
      BY <1>a, <2>0, <3>1, Zenon
    <3> QED BY <2>0, <3>1, <3>2
  <2>5. \A i, j \in 1..Len(ready') : i < j => ready'[i] < ready'[j]
    <3>1. \A i, j \in 1..Len(ready') : i < j => i + 1 < j + 1
      BY <2>2
    <3> QED BY <1>a, <2>2, <3>1
  <2> QED BY <2>2, <2>3, <2>4, <2>5, Zenon DEF SamplesInOrder
<1>5. CASE NoSample \/ UNCHANGED readerVars
  BY <1>5, <1>a DEF NoSample, SamplesInOrder
<1> QED BY <1>1, <1>2, <1>3, <1>4, <1>5 DEF NextReader

(* What a counter is looked up as changes only with the device and the sample. *)
RemapIn(mask, core) == CHOOSE p \in mask : Mali!Cardinality({q \in mask : q < p}) = core
PayloadOf(version, cores) ==
  IF version < 5
  THEN [place \in 0..6 |-> CASE place = 4 -> <<"TILER", -1>> [] place = 5 -> <<"MMU", -1>>
                             [] place = 6 -> <<"JM", -1>>
                             [] OTHER -> IF place \in cores THEN <<"SHADER", place>>
                                                            ELSE <<"hole", place>>]
  ELSE [place \in 0..3 + Mali!Max(cores) |->
          CASE place = 0 -> <<"JM", -1>> [] place = 1 -> <<"TILER", -1>>
            [] place = 2 -> <<"MMU", -1>>
            [] OTHER -> IF place - 3 \in cores THEN <<"SHADER", place - 3>>
                                               ELSE <<"hole", place - 3>>]
CountersOf(mask) ==
  (UNION {Mali!build_block_vectors(block, -1) : block \in {"JM", "TILER", "MMU"}})
    \cup (UNION {Mali!build_block_vectors("SHADER", core) : core \in 0..Mali!Cardinality(mask) - 1})

LEMMA SameCounters ==
  ASSUME UNCHANGED core_mask
  PROVE  Mali!Counters' = Mali!Counters
<1>1. Mali!Counters = CountersOf(core_mask) /\ Mali!Counters' = CountersOf(core_mask')
  BY Zenon DEF Mali!Counters, CountersOf
<1> QED BY <1>1

LEMMA SameLooks ==
  ASSUME UNCHANGED <<hw_ver, present, core_mask, sample>>, NEW k
  PROVE  Mali!Look(k)' = Mali!Look(k)
<1>1. \A core : /\ Mali!remap_core_index(core) = RemapIn(core_mask, core)
                /\ Mali!remap_core_index(core)' = RemapIn(core_mask', core)
  BY Zenon DEF Mali!remap_core_index, RemapIn
<1>2. Mali!Payload = PayloadOf(hw_ver, present) /\ Mali!Payload' = PayloadOf(hw_ver', present')
  BY Zenon DEF Mali!Payload, Mali!CoreBlock, PayloadOf
<1>3. Mali!get_counters(k[1], k[2])' = Mali!get_counters(k[1], k[2])
  BY <1>1 DEF Mali!get_counters
<1>4. Mali!Payload' = Mali!Payload
  BY <1>2
<1> QED BY <1>3, <1>4, Zenon DEF Mali!Look

(* The names of a block are finitely many, so a counter has a number of entries. *)
LEMMA EntriesAreNumbers ==
  ASSUME MaliAssumption, NEW k, k \in Mali!Counters
  PROVE  Mali!Entries(k) \in Nat
<1> DEFINE names == CounterNames[k[1]]
           S == {i \in DOMAIN names : names[i] = k[3]}
<1>1. k[1] \in DOMAIN CounterNames
  BY PlaceOfCounter DEF MaliAssumption
<1>2. names \in Seq(STRING)
  BY <1>1, Zenon DEF MaliAssumption
<1> HIDE DEF names
<1>3. DOMAIN names = 1..Len(names) /\ Len(names) \in Nat
  BY <1>2
<1>4. IsFiniteSet(1..Len(names))
  BY <1>3, FS_Interval
<1>5. IsFiniteSet(S)
  BY <1>3, <1>4, FS_Subset
<1>6. Mali!Entries(k) = Mali!Cardinality(S)
  BY Zenon DEF Mali!Entries, names, S
<1> HIDE DEF S
<1> QED BY <1>5, <1>6, SameCardinality, FS_CardinalityType

(* The entries of a session's header are numbers. *)
LEMMA HeaderOfSession ==
  ASSUME MaliAssumption, HeaderInv, phase \notin {"off", "deleted"}
  PROVE  /\ inits \in Nat /\ inits > 0 /\ DOMAIN header = Mali!Counters
         /\ \A k \in Mali!Counters : /\ header[k] = inits * Mali!Entries(k)
                                     /\ header[k] \in Nat
<1>1. inits \in Nat /\ inits > 0 /\ header = [k \in Mali!Counters |-> inits * Mali!Entries(k)]
  BY DEF HeaderInv
<1>2. \A k \in Mali!Counters : Mali!Entries(k) \in Nat
  BY EntriesAreNumbers
<1>3. \A n \in Nat : inits * n \in Nat
  BY <1>1
<1> QED BY <1>1, <1>2, <1>3

(* A list that holds one value, and more of it. *)
LEMMA Repeated ==
  ASSUME NEW a \in Nat, NEW b \in Nat, NEW v
  PROVE  [n \in 1..a |-> v] \o [n \in 1..b |-> v] = [n \in 1..a + b |-> v]
<1> DEFINE S == {v}
           p == [n \in 1..a |-> v]
           q == [n \in 1..b |-> v]
           r == [n \in 1..a + b |-> v]
<1>1. p \in Seq(S) /\ q \in Seq(S) /\ Len(p) = a /\ Len(q) = b
  OBVIOUS
<1>2. r \in Seq(S) /\ Len(r) = a + b
  OBVIOUS
<1>3. /\ p \o q \in Seq(S) /\ Len(p \o q) = a + b
      /\ \A i \in 1..a + b : (p \o q)[i] = IF i <= a THEN p[i] ELSE q[i - a]
  BY <1>1
<1>4. \A i \in 1..a + b : (p \o q)[i] = r[i]
  BY <1>3
<1> HIDE DEF p, q, r, S
<1>5. p \o q = r
  BY <1>2, <1>3, <1>4
<1> QED BY <1>5 DEF p, q, r

(* A frame adds the entries of every counter to its list. *)
LEMMA FrameAdded ==
  ASSUME MaliAssumption, HeaderInv, RecordedInv, phase = "session"
  PROVE  /\ frames + 1 \in Nat /\ frames + 1 > 0
         /\ Mali!AddTo(recorded) = [k \in DOMAIN header |->
                                      [n \in 1..(frames + 1) * header[k] |-> Mali!Look(k)]]
<1> DEFINE Longer(k) == (IF k \in DOMAIN recorded THEN recorded[k] ELSE <<>>)
                          \o [n \in 1..header[k] |-> Mali!Look(k)]
           Repeats(k) == [n \in 1..(frames + 1) * header[k] |-> Mali!Look(k)]
<1>1. frames \in Nat
  BY DEF RecordedInv
<1>2. \A k \in DOMAIN header : header[k] \in Nat
  BY HeaderOfSession
<1>3. ASSUME NEW k \in DOMAIN header PROVE Longer(k) = Repeats(k)
  <2> DEFINE v == Mali!Look(k)
  <2>1. header[k] \in Nat
    BY <1>2
  <2>2. (IF k \in DOMAIN recorded THEN recorded[k] ELSE <<>>) = [n \in 1..frames * header[k] |-> v]
    <3>1. CASE frames = 0
      <4>1. recorded = <<>> /\ 1..frames * header[k] = {}
        BY <2>1, <3>1 DEF RecordedInv
      <4>2. \A w : [n \in {} |-> w] = <<>>
        OBVIOUS
      <4> HIDE DEF v
      <4> QED BY <4>1, <4>2
    <3>2. CASE frames # 0
      <4>1. frames > 0
        BY <1>1, <3>2
      <4>2. recorded = [j \in DOMAIN header |-> [n \in 1..frames * header[j] |-> Mali!Look(j)]]
        BY <4>1 DEF RecordedInv
      <4> QED BY <4>2, Zenon
    <3> QED BY <3>1, <3>2
  <2>3. frames * header[k] \in Nat /\ frames * header[k] + header[k] = (frames + 1) * header[k]
    BY <1>1, <2>1
  <2> HIDE DEF v
  <2>4. [n \in 1..frames * header[k] |-> v] \o [n \in 1..header[k] |-> v]
          = [n \in 1..frames * header[k] + header[k] |-> v]
    BY <2>1, <2>3, Repeated
  <2>5. [n \in 1..frames * header[k] |-> v] \o [n \in 1..header[k] |-> v]
          = [n \in 1..(frames + 1) * header[k] |-> v]
    BY <2>3, <2>4
  <2> QED BY <2>2, <2>5, Zenon DEF v
<1>4. Mali!AddTo(recorded) = [k \in DOMAIN header |-> Longer(k)]
  BY Zenon DEF Mali!AddTo
<1> HIDE DEF Longer, Repeats
<1>5. Mali!AddTo(recorded) = [k \in DOMAIN header |-> Repeats(k)]
  BY <1>3, <1>4
<1>6. frames + 1 \in Nat /\ frames + 1 > 0
  BY <1>1
<1> QED BY <1>5, <1>6, Zenon DEF Repeats

LEMMA SameEntries == \A k : Mali!Entries(k)' = Mali!Entries(k)
  BY Zenon DEF Mali!Entries

(* The header changes only where init() adds to it. *)
LEMMA HeaderKept ==
  ASSUME HeaderInv, UNCHANGED <<core_mask, inits, header>>,
         \/ phase' = phase \/ phase' = "deleted"
         \/ phase \notin {"off", "deleted"} /\ phase' # "off"
  PROVE  HeaderInv'
<1>1. Mali!Counters' = Mali!Counters
  BY SameCounters
<1>2. inits > 0 => header' = [k \in Mali!Counters' |-> inits' * Mali!Entries(k)']
  <2>1. SUFFICES ASSUME inits > 0
                 PROVE  header = [k \in Mali!Counters' |-> inits * Mali!Entries(k)']
    OBVIOUS
  <2>2. header = [k \in Mali!Counters |-> inits * Mali!Entries(k)]
    BY <2>1 DEF HeaderInv
  <2> QED BY <1>1, <2>2, SameEntries
<1>3. inits \in Nat /\ (inits = 0 => header = <<>>) /\ (inits > 0 => phase # "off")
      /\ (phase \notin {"off", "deleted"} => inits > 0)
  BY DEF HeaderInv
<1> QED BY <1>2, <1>3 DEF HeaderInv

LEMMA HeaderAdded ==
  ASSUME MaliAssumption, HeaderInv, Mali!init_collector
  PROVE  HeaderInv'
<1>1. /\ UNCHANGED core_mask /\ inits' = inits + 1 /\ phase' = "ready"
      /\ header' = [k \in Mali!Counters |->
                      Mali!Entries(k) + IF k \in DOMAIN header THEN header[k] ELSE 0]
  BY DEF Mali!init_collector, Mali!deviceVars, Mali!readerVars
<1>2. inits \in Nat
  BY DEF HeaderInv
<1>3. ASSUME NEW k \in Mali!Counters
      PROVE  Mali!Entries(k) + (IF k \in DOMAIN header THEN header[k] ELSE 0) = inits' * Mali!Entries(k)'
  <2>1. Mali!Entries(k) \in Nat /\ Mali!Entries(k)' = Mali!Entries(k)
    BY EntriesAreNumbers, SameEntries
  <2>2. CASE inits = 0
    <3>1. header = <<>>
      BY <2>2 DEF HeaderInv
    <3>2. k \notin DOMAIN header
      BY <3>1
    <3> QED BY <1>1, <2>1, <2>2, <3>2
  <2>3. CASE inits # 0
    <3>1. header = [j \in Mali!Counters |-> inits * Mali!Entries(j)]
      BY <1>2, <2>3 DEF HeaderInv
    <3>2. k \in DOMAIN header /\ header[k] = inits * Mali!Entries(k)
      BY <3>1
    <3>3. \A n \in Nat : n + inits * n = (inits + 1) * n
      BY <1>2
    <3> QED BY <1>1, <2>1, <3>2, <3>3
  <2> QED BY <2>2, <2>3
<1>4. header' = [k \in Mali!Counters' |-> inits' * Mali!Entries(k)']
  <2>1. Mali!Counters' = Mali!Counters
    BY <1>1, SameCounters
  <2> QED BY <1>1, <1>3, <2>1
<1>5. inits' \in Nat /\ inits' > 0
  BY <1>1, <1>2
<1> QED BY <1>1, <1>4, <1>5 DEF HeaderInv

(* While the sample and the device are the same, so are the frames and the silence. *)
LEMMA SessionKept ==
  ASSUME RecordedInv, ExitInv,
         UNCHANGED <<hw_ver, present, core_mask, sample, header, recorded, phase, exited,
                     frames, before, startOk>>,
         Mali!Silent' <=> Mali!Silent
  PROVE  RecordedInv' /\ ExitInv'
<1>1. \A k : Mali!Look(k)' = Mali!Look(k)
  BY SameLooks
<1>2. Mali!Recognized' <=> Mali!Recognized
  BY DEF Mali!Recognized
<1>3. ASSUME phase = "session", frames > 0
      PROVE  recorded' = [k \in DOMAIN header' |->
                            [n \in 1..frames' * header'[k] |-> Mali!Look(k)']]
  <2>1. recorded = [k \in DOMAIN header |-> [n \in 1..frames * header[k] |-> Mali!Look(k)]]
    BY <1>3 DEF RecordedInv
  <2> QED BY <1>1, <2>1
<1>4. RecordedInv'
  BY <1>3 DEF RecordedInv
<1>5. ExitInv'
  BY <1>2 DEF ExitInv
<1> QED BY <1>4, <1>5

\* The part of the invariant that is the collector's, not the kernel's.
CollectorInv == DeviceKnown /\ HeaderInv /\ RecordedInv /\ ExitInv

(* The constructor runs before init(); what the kernel dumps later is not the sample held. *)
LEMMA BelowKeepsInv ==
  ASSUME MaliInv, Mali!Below
  PROVE  CollectorInv'
<1> USE DEF Mali!deviceVars, Mali!handleVars, Mali!resourceVars, Mali!ringVars, Mali!readerVars
<1>a. /\ SamplesInOrder /\ DeviceKnown /\ HeaderInv /\ RecordedInv /\ ExitInv
      /\ ~exited /\ UNCHANGED <<header, recorded, phase, exited, inits, starts, frames, before, startOk>>
  BY DEF MaliInv, Mali!Below, Mali!historyVars
<1>1. CASE Mali!get_mali_hw_info \/ Mali!Try
  <2>1. stage \in {"new", "trying"} /\ UNCHANGED present
    BY <1>1 DEF Mali!get_mali_hw_info, Mali!Try
  <2>2. phase = "off" /\ phase' = "off"
    BY <1>a, <2>1 DEF DeviceKnown
  <2>3. inits \in Nat /\ ~(inits > 0) /\ (inits = 0 => header = <<>>)
    BY <1>a, <2>2 DEF HeaderInv
  <2>4. HeaderInv'
    BY <1>a, <2>2, <2>3 DEF HeaderInv
  <2>5. DeviceKnown' /\ RecordedInv' /\ ExitInv'
    BY <1>a, <2>1, <2>2 DEF DeviceKnown, RecordedInv, ExitInv
  <2> QED BY <2>4, <2>5 DEF CollectorInv
<1>2. CASE Mali!Dump
  <2>1. /\ UNCHANGED <<hw_ver, present, core_mask, sample, stage>>
        /\ quiet' = quiet \/ quiet' = quiet \cup {made + 1}
    BY <1>2 DEF Mali!Dump
  <2>2. sample # made + 1
    BY <1>a DEF SamplesInOrder
  <2>3. Mali!Silent' <=> Mali!Silent
    BY <2>1, <2>2 DEF Mali!Silent
  <2>4. RecordedInv' /\ ExitInv'
    BY <1>a, <2>1, <2>3, SessionKept
  <2>5. HeaderInv'
    BY <1>a, <2>1, HeaderKept
  <2>6. DeviceKnown'
    BY <1>a, <2>1 DEF DeviceKnown
  <2> QED BY <2>4, <2>5, <2>6 DEF CollectorInv
<1> QED BY <1>1, <1>2 DEF Mali!Below

LEMMA InitKeepsInv ==
  ASSUME MaliAssumption, MaliInv, Mali!init_collector
  PROVE  CollectorInv'
<1> USE DEF Mali!deviceVars, Mali!handleVars, Mali!resourceVars, Mali!ringVars, Mali!readerVars
<1>1. /\ UNCHANGED <<present, stage, exited>> /\ ~exited /\ phase' = "ready" /\ stage = "built"
  BY DEF Mali!init_collector, Mali!At
<1>2. HeaderInv'
  BY HeaderAdded DEF MaliInv
<1>3. DeviceKnown' /\ RecordedInv' /\ ExitInv'
  BY <1>1 DEF MaliInv, DeviceKnown, RecordedInv, ExitInv
<1> QED BY <1>2, <1>3 DEF CollectorInv

LEMMA StartKeepsInv ==
  ASSUME MaliInv, Mali!start
  PROVE  CollectorInv'
<1> USE DEF Mali!deviceVars, Mali!handleVars, Mali!resourceVars, Mali!ringVars, Mali!readerVars
<1>1. /\ UNCHANGED <<present, core_mask, stage, sample, header, inits, exited>>
      /\ ~exited /\ phase = "ready" /\ phase' = "waiting"
      /\ recorded' = <<>> /\ frames' = 0 /\ before' = sample
  BY DEF Mali!start, Mali!At
<1>2. HeaderInv'
  BY <1>1, HeaderKept DEF MaliInv
<1>3. DeviceKnown' /\ RecordedInv' /\ ExitInv'
  BY <1>1 DEF MaliInv, DeviceKnown, RecordedInv, ExitInv
<1> QED BY <1>2, <1>3 DEF CollectorInv

(* A start that succeeded holds a sample that is newer than all before it. *)
LEMMA CallKeepsInv ==
  ASSUME MaliInv, Mali!Call
  PROVE  CollectorInv'
<1> USE DEF Mali!deviceVars, Mali!handleVars, Mali!resourceVars, Mali!ringVars, Mali!readerVars
<1>1. /\ UNCHANGED <<present, core_mask, stage, header, recorded, inits, exited, frames, before>>
      /\ ~exited /\ phase = "waiting" /\ phase' = "session"
      /\ \/ startOk' = TRUE /\ ready # <<>> /\ sample' = Head(ready)
         \/ startOk' = FALSE
  BY DEF Mali!Call, Mali!Started, Mali!StartFailed, Mali!At, Mali!TakeSample, Mali!LoseBuffer,
         Mali!NoSample
<1>2. recorded = <<>> /\ frames = 0 /\ before = sample
  BY <1>1 DEF MaliInv, RecordedInv
<1>3. startOk' => sample' > before'
  <2>1. ready \in Seq(Nat) /\ sample \in Nat /\ \A i \in 1..Len(ready) : sample < ready[i]
    BY DEF MaliInv, SamplesInOrder
  <2>2. ready # <<>> => 1 \in 1..Len(ready) /\ Head(ready) = ready[1] /\ ready[1] \in Nat
    BY <2>1
  <2>3. ready # <<>> => sample < Head(ready) /\ Head(ready) \in Nat
    BY <2>1, <2>2, Zenon
  <2> QED BY <1>1, <1>2, <2>1, <2>3
<1>4. HeaderInv'
  BY <1>1, HeaderKept DEF MaliInv
<1>5. DeviceKnown' /\ RecordedInv' /\ ExitInv'
  BY <1>1, <1>2, <1>3 DEF MaliInv, DeviceKnown, RecordedInv, ExitInv
<1> QED BY <1>4, <1>5 DEF CollectorInv

(* A frame adds one look at every entry, and the process goes on only from a sample that *)
(* was not silent: on a device that was recognized nothing is read outside the payload.  *)
LEMMA CollectKeepsInv ==
  ASSUME MaliAssumption, MaliInv, Mali!collect
  PROVE  CollectorInv'
<1> USE DEF Mali!deviceVars, Mali!handleVars, Mali!resourceVars, Mali!ringVars, Mali!readerVars
<1>a. /\ UNCHANGED <<hw_ver, present, core_mask, stage, sample, quiet, header, phase, inits,
                     before, startOk>>
      /\ ~exited /\ phase = "session"
      /\ recorded' = Mali!AddTo(recorded) /\ frames' = frames + 1
      /\ \/ exited' = Mali!Silent
         \/ /\ Mali!Silent /\ exited' = FALSE
            /\ \E k \in DOMAIN header : Mali!Look(k).from[1] = "outside"
  BY DEF Mali!collect, Mali!At
<1>b. DeviceKnown /\ HeaderInv /\ RecordedInv /\ ExitInv
  BY DEF MaliInv
<1>1. /\ frames' \in Nat /\ frames' > 0
      /\ recorded' = [k \in DOMAIN header |-> [n \in 1..frames' * header[k] |-> Mali!Look(k)]]
  BY <1>a, <1>b, FrameAdded
<1>2. \A k : Mali!Look(k)' = Mali!Look(k)
  BY <1>a, SameLooks
<1>3. RecordedInv'
  <2>1. recorded' = [k \in DOMAIN header' |-> [n \in 1..frames' * header'[k] |-> Mali!Look(k)']]
    BY <1>a, <1>1, <1>2
  <2> QED BY <1>a, <1>b, <1>1, <2>1 DEF RecordedInv
<1>4. ExitInv'
  <2>1. (Mali!Silent' <=> Mali!Silent) /\ (Mali!Recognized' <=> Mali!Recognized)
    BY <1>a DEF Mali!Silent, Mali!Recognized
  <2>2. exited' \in BOOLEAN
    BY <1>a DEF Mali!Silent
  <2>3. ASSUME Mali!Recognized, exited' PROVE frames' = 1
    <3>1. Mali!Silent
      BY <1>a, <2>3
    <3>2. frames \in Nat /\ ~(frames > 0)
      BY <1>a, <1>b, <2>3, <3>1 DEF ExitInv, RecordedInv
    <3> QED BY <1>a, <3>2
  <2>4. ASSUME Mali!Recognized, ~exited' PROVE ~Mali!Silent
    <3>1. CoresOK(present)
      BY <1>b, MaliAssumption DEF DeviceKnown, MaliAssumption, CoresOK
    <3>2. ASSUME NEW k \in DOMAIN header PROVE Mali!Look(k).from[1] # "outside"
      <4>1. k \in Mali!Counters
        BY <1>a, <1>b, <3>2, HeaderOfSession
      <4>2. k[1] # "outside"
        BY <4>1, PlaceOfCounter
      <4>3. Mali!Look(k).from = <<k[1], RealCore(k[2])>>
        BY <2>4, <3>1, <4>1, LooksAtItsPlace
      <4> QED BY <4>2, <4>3
    <3>3. exited' = Mali!Silent
      BY <1>a, <3>2
    <3> QED BY <2>4, <3>3
  <2> QED BY <1>a, <1>1, <2>1, <2>2, <2>3, <2>4 DEF ExitInv
<1>5. HeaderInv'
  BY <1>a, <1>b, HeaderKept
<1>6. DeviceKnown'
  BY <1>a, <1>b DEF DeviceKnown
<1> QED BY <1>3, <1>4, <1>5, <1>6 DEF CollectorInv

(* After stop() or the destructor there is no session. *)
LEMMA EndKeepsInv ==
  ASSUME MaliInv, Mali!stop \/ Mali!Destroy
  PROVE  CollectorInv'
<1> USE DEF Mali!deviceVars, Mali!handleVars, Mali!resourceVars, Mali!ringVars, Mali!readerVars
<1>1. /\ UNCHANGED <<present, core_mask, header, inits, exited>> /\ ~exited
      /\ \/ UNCHANGED stage /\ phase = "session" /\ phase' = "ready"
         \/ phase' = "deleted" /\ stage' = "deleted"
  BY DEF Mali!stop, Mali!Destroy, Mali!Destruct, Mali!At, Mali!historyVars
<1>2. HeaderInv'
  BY <1>1, HeaderKept DEF MaliInv
<1>3. DeviceKnown' /\ RecordedInv' /\ ExitInv'
  BY <1>1 DEF MaliInv, DeviceKnown, RecordedInv, ExitInv
<1> QED BY <1>2, <1>3 DEF CollectorInv

LEMMA CollectorStep ==
  ASSUME MaliAssumption, MaliInv, [Mali!Next]_(Mali!vars)
  PROVE  MaliInv'
<1>1. SamplesInOrder'
  <2>1. SamplesInOrder
    BY DEF MaliInv
  <2>2. [NextReader]_readerVars
    BY ReaderUsed
  <2> QED BY <2>1, <2>2, SamplesStep
<1>2. CASE Mali!Next
  <2>1. CollectorInv'
    BY <1>2, BelowKeepsInv, InitKeepsInv, StartKeepsInv, CallKeepsInv, CollectKeepsInv,
       EndKeepsInv DEF Mali!Next
  <2> QED BY <1>1, <2>1 DEF MaliInv, CollectorInv
<1>3. CASE UNCHANGED Mali!vars
  <2> USE DEF Mali!deviceVars, Mali!handleVars, Mali!resourceVars, Mali!ringVars, Mali!readerVars
  <2>1. /\ UNCHANGED <<hw_ver, present, core_mask, sample, quiet, stage>>
        /\ UNCHANGED <<header, recorded, phase, exited, inits, starts, frames, before, startOk>>
    BY <1>3 DEF Mali!vars, Mali!historyVars
  <2>2. Mali!Silent' <=> Mali!Silent
    BY <2>1 DEF Mali!Silent
  <2>3. DeviceKnown' /\ HeaderInv' /\ RecordedInv' /\ ExitInv'
    BY <2>1, <2>2, HeaderKept, SessionKept DEF MaliInv, DeviceKnown
  <2> QED BY <1>1, <2>3 DEF MaliInv
<1> QED BY <1>2, <1>3

\* The list of a counter and what it should hold.
ListOf(block, i, core) == recorded[<<block, Mali!Virtual(core), CounterNames[block][i]>>]
HeldBy(block, i, core) ==
  [n \in 1..frames * inits |-> [sample |-> sample, index |-> i, from |-> <<block, core>>]]

(* The list of a counter with a plain name holds its value, once for each frame and init(). *)
LEMMA PlainRecorded ==
  ASSUME MaliAssumption, MaliInv, phase = "session", Mali!Recognized, frames > 0,
         NEW block \in DOMAIN CounterNames, NEW i \in DOMAIN CounterNames[block],
         Mali!Plain(block, i), NEW core, core \in Mali!Cores(block)
  PROVE  ListOf(block, i, core) = HeldBy(block, i, core)
<1>1. PICK k : k = <<block, Mali!Virtual(core), CounterNames[block][i]>>
  OBVIOUS
<1>2. CoresOK(present)
  BY DEF MaliInv, DeviceKnown, MaliAssumption, CoresOK
<1>3. /\ k \in Mali!Counters /\ Mali!Entries(k) = 1 /\ RealCore(k[2]) = core
      /\ Mali!find_counter_index_by_name(k[1], k[3]) = i
  BY <1>1, <1>2, PlainCounter
<1>4. Mali!Look(k) = [sample |-> sample, index |-> i, from |-> <<block, core>>]
  <2>1. k[1] = block
    BY <1>1
  <2> QED BY <1>2, <1>3, <2>1, LooksAtItsPlace
<1>5. k \in DOMAIN header /\ header[k] = inits
  <2>1. inits \in Nat /\ DOMAIN header = Mali!Counters /\ header[k] = inits * Mali!Entries(k)
    BY <1>3, HeaderOfSession DEF MaliInv
  <2> QED BY <1>3, <2>1
<1>6. recorded = [j \in DOMAIN header |-> [n \in 1..frames * header[j] |-> Mali!Look(j)]]
  BY DEF MaliInv, RecordedInv
<1>7. recorded[k] = [n \in 1..frames * header[k] |-> Mali!Look(k)]
  BY <1>5, <1>6, Zenon
<1>8. recorded[k] = HeldBy(block, i, core)
  BY <1>4, <1>5, <1>7 DEF HeldBy
<1> QED BY <1>1, <1>8, Zenon DEF ListOf

(* What the invariant is for. *)
LEMMA InvFramesHoldCounters ==
  ASSUME MaliAssumption, MaliInv
  PROVE  Mali!FramesHoldCounters
<1> SUFFICES ASSUME phase = "session", Mali!Recognized, frames > 0
             PROVE  /\ startOk => sample > before
                    /\ exited => frames = 1
                    /\ \A block \in DOMAIN CounterNames : \A i \in DOMAIN CounterNames[block] :
                         Mali!Plain(block, i) =>
                            \A core \in Mali!Cores(block) :
                               ListOf(block, i, core) = HeldBy(block, i, core)
  BY Zenon DEF Mali!FramesHoldCounters, ListOf, HeldBy
<1>1. startOk => sample > before
  BY DEF MaliInv, RecordedInv
<1>2. exited => frames = 1
  BY DEF MaliInv, ExitInv
<1>3. \A block \in DOMAIN CounterNames : \A i \in DOMAIN CounterNames[block] :
        Mali!Plain(block, i) =>
           \A core \in Mali!Cores(block) : ListOf(block, i, core) = HeldBy(block, i, core)
  BY PlainRecorded, Zenon
<1> QED BY <1>1, <1>2, <1>3

\* Whatever cores the device has, however many were missed, and however often init() and
\* start() were called: on a device that was recognized a frame holds every counter with a
\* plain name (mali_counters.cpp:136), read from its own place, and of one sample.
THEOREM FramesHoldCountersHolds ==
  Mali!Init /\ [][Mali!Next]_(Mali!vars) => []FramesHoldCounters
<1>1. Mali!Init => MaliInv
  <2> SUFFICES ASSUME Mali!Init PROVE MaliInv
    OBVIOUS
  <2>1. /\ present \in CoreMasks /\ made = 0 /\ sample = 0 /\ ready = <<>>
        /\ header = <<>> /\ recorded = <<>> /\ phase = "off" /\ exited = FALSE /\ inits = 0
    BY DEF Mali!Init, Mali!InitReader
  <2>2. SamplesInOrder
    BY <2>1 DEF SamplesInOrder
  <2>3. DeviceKnown /\ RecordedInv /\ ExitInv
    BY <2>1 DEF DeviceKnown, RecordedInv, ExitInv
  <2>4. HeaderInv
    BY <2>1 DEF HeaderInv
  <2> QED BY <2>2, <2>3, <2>4 DEF MaliInv
<1>2. MaliInv /\ [Mali!Next]_(Mali!vars) => MaliInv'
  BY MaliAssumption, CollectorStep
<1>3. MaliInv => FramesHoldCounters
  BY MaliAssumption, InvFramesHoldCounters DEF FramesHoldCounters
<1> QED BY <1>1, <1>2, <1>3, PTL

-------------------------------------------------------------------------------
(* The power collector and its daemon.                                         *)

Kinds == {"OK", "ER", "high", "low", "row"}
Units == [kind : Kinds, session : Nat, rows : Nat]
Commands == [cmd : {"H2", "RC", "RT", "OP"}, session : Nat]

\* What was sent to the collector and no call has come back from, in the order of the
\* connection.
Stream == got \o (toClient \o inFlight)

PowerTypeOK ==
  /\ toDaemon \in Seq(Commands)
  /\ inFlight \in Seq(Units) /\ toClient \in Seq(Units) /\ got \in Seq(Units)
  /\ measuring \in Nat /\ session \in Nat /\ rows \in Nat /\ numRails \in Nat
  /\ pc \in Waiting \cup {"off", "ready", "session", "deleted"}
  /\ results \in Seq([session : Nat, of : SUBSET Nat, rows : Nat, samples : Seq(Nat)])

\* The state of an exchange: the command is unanswered, or these units are the answer.
Unanswered(cmd) == toDaemon = <<[cmd |-> cmd, session |-> session]>> /\ Stream = <<>>
Says(i, what) == Stream[i] = [kind |-> what, session |-> session, rows |-> 0]
Silence == toDaemon = <<>> /\ Stream = <<>>
Answer(what) == toDaemon = <<>> /\ Len(Stream) = 1 /\ Says(1, what)
\* The length and the rows of a measurement, behind k other units.
Measurement(k) ==
  /\ toDaemon = <<>>
  /\ \E n \in 0..Len(Stream) :
       /\ Len(Stream) = k + 2 + n
       /\ Stream[k + 1] = [kind |-> "high", session |-> session, rows |-> n]
       /\ Says(k + 2, "low")
       /\ \A i \in 1..n : Says(k + 2 + i, "row")

\* Where the collector is tells where the daemon is, and the other way round.
Exchanges ==
  /\ pc = "H2" => measuring = 0 /\ (Unanswered("H2") \/ Answer("OK"))
  /\ pc = "ready" => measuring = 0 /\ Silence
  /\ pc = "RC" => measuring = 0 /\ (Unanswered("RC") \/ Answer("OK") \/ Answer("ER"))
  /\ pc = "RT" => \/ measuring = 0 /\ (Unanswered("RT") \/ Answer("ER"))
                  \/ measuring = session /\ Answer("OK")
                  \/ /\ measuring = 0 /\ toDaemon = <<>>
                     /\ Len(Stream) = 2 /\ Says(1, "OK") /\ Says(2, "ER")
  /\ pc \in {"session", "drain"} => \/ measuring = session /\ Silence
                                    \/ measuring = 0 /\ Answer("ER")
                                    \/ measuring = 0 /\ Silence /\ ~mCollecting
  /\ pc = "OP" => \/ measuring \in {0, session} /\ Unanswered("OP")
                  \/ measuring = 0 /\ (Answer("ER") \/ (Says(1, "OK") /\ Measurement(1)))
  /\ pc = "length" => measuring = 0 /\ Measurement(0)
  /\ pc = "data" => /\ measuring = 0 /\ toDaemon = <<>>
                    /\ Len(Stream) = rows /\ \A i \in 1..rows : Says(i, "row")

\* What holds even when the two sides are not in step.
Always ==
  /\ mCollecting => pc = "session"
  /\ pc = "session" => got = <<>>
  /\ pc \in {"off", "H2"} => results = <<>>
  /\ pc = "off" => /\ toDaemon = <<>> /\ inFlight = <<>> /\ toClient = <<>> /\ got = <<>>
                   /\ measuring = 0

\* What a session recorded.
Recorded ==
  \A i \in DOMAIN results :
    /\ ~upset => results[i].of \subseteq {results[i].session}
    /\ numRails > 0 => SumSeq(results[i].samples) <= results[i].rows

InTouch == Exchanges /\ (pc \notin {"off", "deleted"} => up)

PowerInv == PowerTypeOK /\ Always /\ Recorded /\ (~upset => InTouch)

-------------------------------------------------------------------------------
(* Decoding: the loop over the frames.                                         *)

\* What the loop holds between two frames: the samples it has added up are those up to the
\* end of the last frame, and these are there.
LoopState ==
  {acc \in [time : Nat, samples : Seq(Nat), short : BOOLEAN] :
     SumSeq(acc.samples) = acc.time /\ (numRails > 0 => acc.time <= rows)}

FirstLoopState == [time |-> 0, samples |-> <<>>, short |-> FALSE]

\* One frame (power.cpp:319).
LEMMA NextFrameFits ==
  ASSUME numRails \in Nat, rows \in Nat, NEW acc \in LoopState, NEW end \in Nat
  PROVE  NextFrame(acc, end) \in LoopState
<1>1. /\ acc \in [time : Nat, samples : Seq(Nat), short : BOOLEAN]
      /\ acc.time \in Nat /\ acc.samples \in Seq(Nat) /\ acc.short \in BOOLEAN
      /\ SumSeq(acc.samples) = acc.time
      /\ numRails > 0 => acc.time <= rows
  BY DEF LoopState
<1>2. CASE acc.short \/ end <= acc.time
  BY <1>2, <1>1 DEF NextFrame
<1>3. CASE ~(acc.short \/ end <= acc.time) /\ numRails > 0 /\ end > rows
  <2>1. NextFrame(acc, end) = [acc EXCEPT !.short = TRUE]
    BY <1>3 DEF NextFrame
  <2> DEFINE b == [acc EXCEPT !.short = TRUE]
  <2>2. b \in [time : Nat, samples : Seq(Nat), short : BOOLEAN] /\ b.time = acc.time
        /\ b.samples = acc.samples
    BY <1>1
  <2> QED BY <1>1, <2>1, <2>2 DEF LoopState
<1>4. CASE ~(acc.short \/ end <= acc.time) /\ ~(numRails > 0 /\ end > rows)
  <2> DEFINE more == Append(acc.samples, end - acc.time)
             b == [acc EXCEPT !.time = end, !.samples = more]
  <2>1. NextFrame(acc, end) = b
    BY <1>4 DEF NextFrame
  <2>2. end - acc.time \in Nat /\ end - acc.time \in Int /\ acc.samples \in Seq(Int)
    BY <1>1, <1>4
  <2>3. more \in Seq(Nat)
    BY <1>1, <2>2
  <2>4. SumSeq(more) = SumSeq(acc.samples) + (end - acc.time)
    BY <2>2, SumAppend
  <2>5. SumSeq(more) = end
    BY <1>1, <2>4
  <2> HIDE DEF more
  <2>6. b \in [time : Nat, samples : Seq(Nat), short : BOOLEAN] /\ b.time = end /\ b.samples = more
    BY <1>1, <2>3
  <2>7. numRails > 0 => end <= rows
    BY <1>4
  <2> QED BY <2>1, <2>5, <2>6, <2>7 DEF LoopState
<1> QED BY <1>2, <1>3, <1>4

\* The loop starts with nothing.
LEMMA FirstFits == ASSUME rows \in Nat PROVE FirstLoopState \in LoopState
  BY SumEmpty DEF FirstLoopState, LoopState

\* All frames: no row is counted twice, and with rails none that is not there.
LEMMA FramesFit ==
  ASSUME numRails \in Nat, rows \in Nat, NEW timing \in Seq(Nat)
  PROVE  Frames(timing) \in LoopState
<1> DEFINE n == Len(timing)
           step == [p \in (1..n) \X LoopState |-> NextFrame(p[2], timing[p[1]])]
           F == FramesUpTo(timing)
<1>1. n \in Nat /\ \A k \in 1..n : timing[k] \in Nat
  OBVIOUS
<1>2. step \in [(1..n) \X LoopState -> LoopState]
  <2>1. ASSUME NEW p \in (1..n) \X LoopState PROVE NextFrame(p[2], timing[p[1]]) \in LoopState
    <3>1. p[2] \in LoopState /\ p[1] \in 1..n
      OBVIOUS
    <3> QED BY <3>1, <1>1, NextFrameFits
  <2> QED BY <2>1, Zenon
<1>3. PICK f : IsLoop(f, LoopState, FirstLoopState, step, n)
  BY <1>1, <1>2, FirstFits, LoopExists
<1>4. ASSUME NEW k \in 1..n PROVE f[k] = NextFrame(f[k - 1], timing[k])
  <2>1. f[k - 1] \in LoopState /\ f[k] = step[<<k, f[k - 1]>>]
    <3>1. k - 1 \in 0..n
      BY <1>1
    <3> HIDE DEF n, step
    <3> QED BY <1>3, <3>1 DEF IsLoop
  <2> QED BY <2>1
<1>5. f = [k \in 0..n |-> IF k = 0 THEN FirstLoopState ELSE NextFrame(f[k - 1], timing[k])]
  <2>1. f \in [0..n -> LoopState] /\ f[0] = FirstLoopState
    BY <1>3 DEF IsLoop
  <2>2. \A k \in 0..n : k # 0 => k \in 1..n
    BY <1>1
  <2> HIDE DEF n, step
  <2> QED BY <1>4, <2>1, <2>2
<1>6. F = [k \in 0..n |-> IF k = 0 THEN FirstLoopState ELSE NextFrame(F[k - 1], timing[k])]
  BY <1>5 DEF FramesUpTo, FirstLoopState
<1> HIDE DEF F, n, step
<1> DEFINE P == {k \in Nat : k <= n => F[k] \in LoopState}
<1>7. 0 \in P
  <2>1. F[0] = FirstLoopState
    BY <1>1, <1>6
  <2> QED BY <2>1, FirstFits
<1>8. ASSUME NEW k \in Nat, k \in P PROVE k + 1 \in P
  <2> SUFFICES ASSUME k + 1 <= n PROVE F[k + 1] \in LoopState
    OBVIOUS
  <2>1. F[k] \in LoopState /\ timing[k + 1] \in Nat
    BY <1>1, <1>8
  <2>2. k + 1 \in 0..n /\ k + 1 # 0 /\ (k + 1) - 1 = k
    BY <1>1
  <2>3. F[k + 1] = NextFrame(F[(k + 1) - 1], timing[k + 1])
    BY <1>6, <2>2
  <2> QED BY <2>1, <2>2, <2>3, NextFrameFits
<1> HIDE DEF P
<1>9. Nat \subseteq P
  BY <1>7, <1>8, SetInduction
<1>10. F[n] \in LoopState
  BY <1>1, <1>9 DEF P
<1> QED BY <1>10 DEF Frames, F, n

-------------------------------------------------------------------------------
(* The stream: delivering and receiving a unit move it along, nothing else.    *)

\* A sequence behind another one.
LEMMA Joined ==
  ASSUME NEW U, NEW a \in Seq(U), NEW b \in Seq(U)
  PROVE  /\ a \o b \in Seq(U) /\ Len(a) \in Nat /\ Len(b) \in Nat /\ Len(a \o b) = Len(a) + Len(b)
         /\ \A i \in 1..Len(a \o b) : (a \o b)[i] = IF i <= Len(a) THEN a[i] ELSE b[i - Len(a)]
OBVIOUS

LEMMA SameSequence ==
  ASSUME NEW U, NEW a \in Seq(U), NEW b \in Seq(U), Len(a) = Len(b),
         \A i \in 1..Len(b) : a[i] = b[i]
  PROVE  a = b
OBVIOUS

LEMMA Moved ==
  ASSUME NEW U, NEW g \in Seq(U), NEW c \in Seq(U), c # <<>>
  PROVE  Append(g, c[1]) \o Tail(c) = g \o c
<1> DEFINE a == Append(g, c[1])
           l == a \o Tail(c)
           r == g \o c
<1>1. /\ Len(g) \in Nat /\ Len(c) \in Nat \ {0} /\ c[1] \in U
      /\ Tail(c) \in Seq(U) /\ Len(Tail(c)) = Len(c) - 1
      /\ \A i \in 1..(Len(c) - 1) : Tail(c)[i] = c[i + 1]
  OBVIOUS
<1>2. /\ a \in Seq(U) /\ Len(a) = Len(g) + 1 /\ a[Len(g) + 1] = c[1]
      /\ \A i \in 1..Len(g) : a[i] = g[i]
  BY <1>1
<1>3. r \in Seq(U) /\ Len(r) = Len(g) + Len(c)
      /\ \A i \in 1..Len(r) : r[i] = IF i <= Len(g) THEN g[i] ELSE c[i - Len(g)]
  OBVIOUS
<1> HIDE DEF a
<1>4. l \in Seq(U) /\ Len(l) = Len(g) + Len(c)
      /\ \A i \in 1..Len(l) : l[i] = IF i <= Len(a) THEN a[i] ELSE Tail(c)[i - Len(a)]
  BY <1>1, <1>2
<1>5. ASSUME NEW i \in 1..Len(r) PROVE l[i] = r[i]
  <2>1. i \in 1..Len(l) /\ i \in Int
    BY <1>1, <1>3, <1>4
  <2>2. CASE i <= Len(g)
    BY <1>1, <1>2, <1>3, <1>4, <2>1, <2>2
  <2>3. CASE i = Len(g) + 1
    BY <1>1, <1>2, <1>3, <1>4, <2>1, <2>3
  <2>4. CASE i > Len(g) + 1
    <3>1. i - Len(a) \in 1..(Len(c) - 1) /\ (i - Len(a)) + 1 = i - Len(g)
      BY <1>1, <1>2, <1>3, <2>1, <2>4
    <3>2. l[i] = Tail(c)[i - Len(a)] /\ r[i] = c[i - Len(g)]
      BY <1>1, <1>2, <1>3, <1>4, <2>1, <2>4
    <3> QED BY <1>1, <3>1, <3>2
  <2>5. i <= Len(g) \/ i = Len(g) + 1 \/ i > Len(g) + 1
    BY <1>1, <2>1
  <2> QED BY <2>2, <2>3, <2>4, <2>5
<1>6. l = r
  <2> HIDE DEF l, r
  <2> QED BY <1>3, <1>4, <1>5
<1> QED BY <1>6 DEF a

LEMMA Positions ==
  ASSUME NEW g \in Nat, NEW c \in Nat, NEW f \in Nat, NEW i \in Int, i > g, i <= g + c + f
  PROVE  /\ i - g \in 1..(c + f) /\ ~(i <= g)
         /\ i <= g + c => i \in 1..(g + c) /\ i - g <= c
         /\ i > g + c => ~(i <= g + c) /\ ~(i - g <= c) /\ i - (g + c) = (i - g) - c
OBVIOUS

LEMMA Regrouped ==
  ASSUME NEW U, NEW g \in Seq(U), NEW c \in Seq(U), NEW f \in Seq(U)
  PROVE  (g \o c) \o f = g \o (c \o f)
<1> DEFINE x == g \o c
           y == c \o f
           l == x \o f
           r == g \o y
<1>0. Len(g) \in Nat /\ Len(c) \in Nat /\ Len(f) \in Nat
  OBVIOUS
<1>1. x \in Seq(U) /\ Len(x) = Len(g) + Len(c)
      /\ \A i \in 1..Len(x) : x[i] = IF i <= Len(g) THEN g[i] ELSE c[i - Len(g)]
  OBVIOUS
<1>2. y \in Seq(U) /\ Len(y) = Len(c) + Len(f)
      /\ \A i \in 1..Len(y) : y[i] = IF i <= Len(c) THEN c[i] ELSE f[i - Len(c)]
  OBVIOUS
<1> HIDE DEF x, y
<1>3. l \in Seq(U) /\ Len(l) = Len(x) + Len(f)
      /\ \A i \in 1..Len(l) : l[i] = IF i <= Len(x) THEN x[i] ELSE f[i - Len(x)]
  <2>1. x \in Seq(U)
    BY <1>1
  <2> QED BY <2>1, Joined, Zenon
<1>4. r \in Seq(U) /\ Len(r) = Len(g) + Len(y)
      /\ \A i \in 1..Len(r) : r[i] = IF i <= Len(g) THEN g[i] ELSE y[i - Len(g)]
  <2>1. y \in Seq(U)
    BY <1>2
  <2> QED BY <2>1, Joined, Zenon
<1> HIDE DEF l, r
<1>5. ASSUME NEW i \in 1..Len(r) PROVE l[i] = r[i]
  <2>1. i \in 1..Len(l) /\ i \in Int /\ i >= 1 /\ i <= Len(g) + Len(c) + Len(f)
    BY <1>0, <1>1, <1>2, <1>3, <1>4
  <2>2. CASE i <= Len(g)
    <3>1. i \in 1..Len(x) /\ i <= Len(x)
      BY <1>0, <1>1, <2>1, <2>2
    <3> QED BY <1>1, <1>3, <1>4, <2>1, <2>2, <3>1
  <2>3. CASE i > Len(g) /\ i <= Len(g) + Len(c)
    <3>1. i \in 1..Len(x) /\ i <= Len(x) /\ i - Len(g) \in 1..Len(y) /\ i - Len(g) <= Len(c)
          /\ ~(i <= Len(g))
      BY <1>0, <1>1, <1>2, <2>1, <2>3, Positions
    <3>2. l[i] = x[i] /\ x[i] = c[i - Len(g)]
      BY <1>1, <1>3, <2>1, <3>1
    <3>3. r[i] = y[i - Len(g)] /\ y[i - Len(g)] = c[i - Len(g)]
      BY <1>2, <1>4, <3>1
    <3> QED BY <3>2, <3>3
  <2>4. CASE i > Len(g) + Len(c)
    <3>1. ~(i <= Len(x)) /\ i - Len(g) \in 1..Len(y) /\ ~(i - Len(g) <= Len(c)) /\ ~(i <= Len(g))
          /\ i - Len(x) = (i - Len(g)) - Len(c)
      BY <1>0, <1>1, <1>2, <2>1, <2>4, Positions
    <3>2. l[i] = f[i - Len(x)]
      BY <1>3, <2>1, <3>1
    <3>3. r[i] = y[i - Len(g)] /\ y[i - Len(g)] = f[(i - Len(g)) - Len(c)]
      BY <1>2, <1>4, <3>1
    <3> QED BY <3>1, <3>2, <3>3
  <2> QED BY <1>0, <2>1, <2>2, <2>3, <2>4
<1>6. Len(l) = Len(r)
  BY <1>0, <1>1, <1>2, <1>3, <1>4
<1>7. l = r
  <2>1. l \in Seq(U) /\ r \in Seq(U) /\ \A i \in 1..Len(r) : l[i] = r[i]
    BY <1>3, <1>4, <1>5
  <2> QED BY <1>6, <2>1, SameSequence, Zenon
<1> QED BY <1>7 DEF l, r, x, y

LEMMA UnitsRegrouped ==
  \A g, c, f \in Seq(Units) : (g \o c) \o f = g \o (c \o f)
<1> SUFFICES ASSUME NEW g \in Seq(Units), NEW c \in Seq(Units), NEW f \in Seq(Units)
             PROVE  (g \o c) \o f = g \o (c \o f)
  OBVIOUS
<1> QED BY Regrouped

\* What the stream is made of.
LEMMA StreamParts ==
  ASSUME PowerTypeOK
  PROVE  /\ Stream \in Seq(Units) /\ toClient \o inFlight \in Seq(Units)
         /\ Len(Stream) = Len(got) + Len(toClient \o inFlight)
         /\ Len(toClient \o inFlight) = Len(toClient) + Len(inFlight)
         /\ Len(got) \in Nat /\ Len(toClient) \in Nat /\ Len(inFlight) \in Nat
         /\ \A i \in 1..Len(got) : Stream[i] = got[i]
         /\ \A i \in 1..Len(toClient \o inFlight) :
              Stream[Len(got) + i] = (toClient \o inFlight)[i]
<1> DEFINE r == toClient \o inFlight
<1>1. got \in Seq(Units) /\ toClient \in Seq(Units) /\ inFlight \in Seq(Units)
  BY DEF PowerTypeOK
<1>2. r \in Seq(Units) /\ Len(r) = Len(toClient) + Len(inFlight)
      /\ Len(got) \in Nat /\ Len(toClient) \in Nat /\ Len(inFlight) \in Nat /\ Len(r) \in Nat
  BY <1>1
<1> HIDE DEF r
<1>3. got \o r \in Seq(Units) /\ Len(got \o r) = Len(got) + Len(r)
      /\ \A i \in 1..(Len(got) + Len(r)) :
           (got \o r)[i] = IF i <= Len(got) THEN got[i] ELSE r[i - Len(got)]
  BY <1>1, <1>2, Joined
<1>4. \A i \in 1..Len(got) : (got \o r)[i] = got[i]
  BY <1>2, <1>3
<1>5. ASSUME NEW i \in 1..Len(r) PROVE (got \o r)[Len(got) + i] = r[i]
  <2>1. Len(got) + i \in 1..(Len(got) + Len(r)) /\ ~(Len(got) + i <= Len(got))
        /\ (Len(got) + i) - Len(got) = i
    BY <1>2
  <2> QED BY <1>3, <2>1
<1>6. Stream = got \o r
  BY DEF Stream, r
<1> QED BY <1>2, <1>3, <1>4, <1>5, <1>6 DEF r

-------------------------------------------------------------------------------
(* The daemon.                                                                 *)

UnitOf(what, number, n) == [kind |-> what, session |-> number, rows |-> n]

\* The answer to OP: the length of a measurement and its rows, behind an OK.
StopAnswer(units, number, n) ==
  /\ Len(units) = 3 + n
  /\ units[1] = UnitOf("OK", number, 0)
  /\ units[2] = UnitOf("high", number, n)
  /\ units[3] = UnitOf("low", number, 0)
  /\ \A i \in 1..n : units[3 + i] = UnitOf("row", number, 0)

\* What serving a command puts on the stream.
LEMMA Served ==
  ASSUME PowerTypeOK, Serve
  PROVE  \E units \in Seq(Units), c \in Commands :
           /\ c = toDaemon[1] /\ inFlight' = inFlight \o units
           /\ \/ /\ c.cmd \in {"H2", "RC"}
                 /\ units = <<UnitOf("OK", c.session, 0)>> /\ measuring' = measuring
              \/ c.cmd = "RT" /\ units = <<UnitOf("OK", c.session, 0)>> /\ measuring' = c.session
              \/ /\ c.cmd \in {"RC", "RT"} \/ (c.cmd = "OP" /\ measuring = 0)
                 /\ units = <<UnitOf("ER", c.session, 0)>> /\ measuring' = measuring
              \/ /\ c.cmd = "OP" /\ measuring' = 0
                 /\ \E n \in Nat : StopAnswer(units, c.session, n)
<1> DEFINE c == toDaemon[1]
<1>1. toDaemon \in Seq(Commands) /\ toDaemon # <<>>
  BY DEF PowerTypeOK, Serve
<1>2. c \in Commands /\ c.session \in Nat
  <2>1. 1 \in 1..Len(toDaemon)
    BY <1>1
  <2>2. c \in Commands
    BY <1>1, <2>1, ElementType, Zenon
  <2> QED BY <2>2 DEF Commands
<1>3. \A what \in Kinds : Unit(what) = UnitOf(what, c.session, 0)
  BY DEF Unit, UnitOf
<1>4. \A what \in Kinds, n \in Nat : UnitOf(what, c.session, n) \in Units
  BY <1>2 DEF Units, UnitOf
<1>5. "OK" \in Kinds /\ "ER" \in Kinds /\ "high" \in Kinds /\ "low" \in Kinds /\ "row" \in Kinds
  BY DEF Kinds
<1>6. \A what \in Kinds : <<UnitOf(what, c.session, 0)>> \in Seq(Units)
  BY <1>4
<1>7. \/ c.cmd \in {"H2", "RC"} /\ Reply(<<Unit("OK")>>) /\ measuring' = measuring
      \/ c.cmd = "RT" /\ Reply(<<Unit("OK")>>) /\ measuring' = c.session
      \/ /\ c.cmd \in {"RC", "RT"} \/ (c.cmd = "OP" /\ measuring = 0)
         /\ Reply(<<Unit("ER")>>) /\ measuring' = measuring
      \/ /\ c.cmd = "OP" /\ measuring' = 0
         /\ \E n \in 0..MaxRows :
              Reply(<<Unit("OK"), [Unit("high") EXCEPT !.rows = n], Unit("low")>>
                      \o [k \in 1..n |-> Unit("row")])
  BY DEF Serve
<1>8. CASE c.cmd \in {"H2", "RC"} /\ Reply(<<Unit("OK")>>) /\ measuring' = measuring
  <2>1. inFlight' = inFlight \o <<UnitOf("OK", c.session, 0)>>
    BY <1>8, <1>3, <1>5 DEF Reply
  <2> HIDE DEF c
  <2> QED BY <1>8, <1>2, <1>5, <1>6, <2>1 DEF c
<1>9. CASE c.cmd = "RT" /\ Reply(<<Unit("OK")>>) /\ measuring' = c.session
  <2>1. inFlight' = inFlight \o <<UnitOf("OK", c.session, 0)>>
    BY <1>9, <1>3, <1>5 DEF Reply
  <2> QED BY <1>9, <1>2, <1>5, <1>6, <2>1
<1>10. CASE /\ c.cmd \in {"RC", "RT"} \/ (c.cmd = "OP" /\ measuring = 0)
            /\ Reply(<<Unit("ER")>>) /\ measuring' = measuring
  <2>1. inFlight' = inFlight \o <<UnitOf("ER", c.session, 0)>>
    BY <1>10, <1>3, <1>5 DEF Reply
  <2> QED BY <1>10, <1>2, <1>5, <1>6, <2>1
<1>11. CASE /\ c.cmd = "OP" /\ measuring' = 0
            /\ \E n \in 0..MaxRows :
                 Reply(<<Unit("OK"), [Unit("high") EXCEPT !.rows = n], Unit("low")>>
                         \o [k \in 1..n |-> Unit("row")])
  <2>1. PICK n \in 0..MaxRows :
               Reply(<<Unit("OK"), [Unit("high") EXCEPT !.rows = n], Unit("low")>>
                       \o [k \in 1..n |-> Unit("row")])
    BY <1>11
  <2>2. n \in Nat
    BY PowerAssumption
  <2>3. [Unit("high") EXCEPT !.rows = n] = UnitOf("high", c.session, n)
    BY DEF Unit, UnitOf
  <2> DEFINE head == <<UnitOf("OK", c.session, 0), UnitOf("high", c.session, n),
                       UnitOf("low", c.session, 0)>>
             data == [k \in 1..n |-> UnitOf("row", c.session, 0)]
  <2>4. [k \in 1..n |-> Unit("row")] = data
    BY <1>3, <1>5
  <2>5. inFlight' = inFlight \o (head \o data)
    BY <2>1, <2>3, <2>4, <1>3, <1>5 DEF Reply
  <2>6. data \in Seq(Units) /\ Len(data) = n /\ \A i \in 1..n : data[i] = UnitOf("row", c.session, 0)
    BY <2>2, <1>4, <1>5
  <2>7. head \in Seq(Units) /\ Len(head) = 3
    BY <2>2, <1>4, <1>5
  <2>8. /\ head[1] = UnitOf("OK", c.session, 0) /\ head[2] = UnitOf("high", c.session, n)
        /\ head[3] = UnitOf("low", c.session, 0)
    OBVIOUS
  <2> HIDE DEF head, data, c
  <2>9. /\ head \o data \in Seq(Units) /\ Len(head \o data) = 3 + n
        /\ \A i \in 1..(3 + n) : (head \o data)[i] = IF i <= 3 THEN head[i] ELSE data[i - 3]
    <3>1. /\ head \o data \in Seq(Units) /\ Len(head \o data) = Len(head) + Len(data)
          /\ \A i \in 1..Len(head \o data) :
               (head \o data)[i] = IF i <= Len(head) THEN head[i] ELSE data[i - Len(head)]
      BY <2>6, <2>7, Joined, Zenon
    <3> QED BY <2>2, <2>6, <2>7, <3>1
  <2>10. StopAnswer(head \o data, c.session, n)
    <3>1. /\ (head \o data)[1] = head[1] /\ (head \o data)[2] = head[2]
          /\ (head \o data)[3] = head[3]
      BY <2>2, <2>9
    <3>2. ASSUME NEW i \in 1..n PROVE (head \o data)[3 + i] = data[i]
      <4>1. 3 + i \in 1..(3 + n) /\ ~(3 + i <= 3) /\ (3 + i) - 3 = i
        BY <2>2
      <4> QED BY <2>9, <4>1
    <3> QED BY <2>6, <2>8, <2>9, <3>1, <3>2 DEF StopAnswer
  <2>11. \E k \in Nat : StopAnswer(head \o data, c.session, k)
    BY <2>2, <2>10
  <2> QED BY <1>11, <1>2, <2>5, <2>9, <2>11 DEF c
<1> QED BY <1>7, <1>8, <1>9, <1>10, <1>11

-------------------------------------------------------------------------------
(* Types.                                                                      *)

Places == Waiting \cup {"off", "ready", "session", "deleted"}
ResultType == [session : Nat, of : SUBSET Nat, rows : Nat, samples : Seq(Nat)]

\* A command goes to the end of toDaemon, or is lost, or ends the process.
LEMMA SendType ==
  ASSUME PowerTypeOK, NEW cmd \in {"H2", "RC", "RT", "OP"}, NEW number \in Nat,
         NEW refused \in Places, Send(cmd, number, refused)
  PROVE  got' = <<>> /\ toDaemon' \in Seq(Commands) /\ pc' \in Places
<1>1. [cmd |-> cmd, session |-> number] \in Commands
  BY DEF Commands
<1>2. toDaemon \in Seq(Commands) /\ pc \in Places
  BY DEF PowerTypeOK, Places
<1>3. Append(toDaemon, [cmd |-> cmd, session |-> number]) \in Seq(Commands)
  BY <1>1, <1>2
<1>4. cmd \in Places
  BY DEF Places, Waiting
<1> QED BY <1>2, <1>3, <1>4 DEF Send

\* A length is a number.
LEMMA LengthsType ==
  ASSUME PowerTypeOK, Len(got) = 2, NEW n \in Lengths
  PROVE  n \in Nat
<1>1. got \in Seq(Units) /\ 1 \in 1..Len(got)
  BY DEF PowerTypeOK
<1>2. got[1] \in Units
  BY <1>1, ElementType, Zenon
<1>3. got[1].rows \in Nat
  BY <1>2 DEF Units
<1>4. \A k \in 0..BufferRows+1 : k \in Nat
  BY PowerAssumption
<1> QED BY <1>3, <1>4 DEF Lengths

\* The types of the connection after each of the daemon's steps.
LEMMA DaemonType == PowerTypeOK /\ Daemon => PowerTypeOK'
<1> SUFFICES ASSUME PowerTypeOK, Daemon PROVE PowerTypeOK'
  OBVIOUS
<1> USE DEF collectorVars, waitVars, daemonVars
<1>0. /\ toDaemon \in Seq(Commands) /\ inFlight \in Seq(Units) /\ toClient \in Seq(Units)
      /\ measuring \in Nat
  BY DEF PowerTypeOK
<1>1. CASE Serve
  <2>1. PICK units \in Seq(Units), c \in Commands :
           inFlight' = inFlight \o units /\ measuring' \in {measuring, c.session, 0}
    BY <1>1, Served
  <2>2. inFlight' \in Seq(Units)
    BY <1>0, <2>1
  <2>3. c.session \in Nat
    BY DEF Commands
  <2>4. measuring' \in Nat
    BY <1>0, <2>1, <2>3
  <2>5. toDaemon' \in Seq(Commands)
    BY <1>0, <1>1 DEF Serve
  <2>6. UNCHANGED <<toClient, got, session, rows, numRails, pc, results>>
    BY <1>1 DEF Serve
  <2> QED BY <2>2, <2>4, <2>5, <2>6 DEF PowerTypeOK
<1>2. CASE Error
  <2> DEFINE u == [kind |-> "ER", session |-> measuring, rows |-> 0]
  <2>1. u \in Units
    BY <1>0 DEF Units, Kinds
  <2>2. inFlight' = Append(inFlight, u) /\ measuring' = 0
        /\ UNCHANGED <<toDaemon, toClient, got, session, rows, numRails, pc, results>>
    BY <1>2 DEF Error
  <2> HIDE DEF u
  <2>3. inFlight' \in Seq(Units)
    BY <1>0, <2>1, <2>2
  <2> QED BY <2>2, <2>3 DEF PowerTypeOK
<1>3. CASE Deliver
  <2>1. inFlight # <<>> /\ toClient' = Append(toClient, inFlight[1]) /\ inFlight' = Tail(inFlight)
        /\ UNCHANGED <<toDaemon, measuring, got, session, rows, numRails, pc, results>>
    BY <1>3 DEF Deliver
  <2>2. inFlight[1] \in Units /\ inFlight' \in Seq(Units)
    BY <1>0, <2>1
  <2>3. toClient' \in Seq(Units)
    BY <1>0, <2>1, <2>2
  <2> QED BY <2>1, <2>2, <2>3 DEF PowerTypeOK
<1>4. CASE Close
  <2>1. toDaemon' = <<>> /\ inFlight' = <<>> /\ measuring' = 0
        /\ UNCHANGED <<toClient, got, session, rows, numRails, pc, results>>
    BY <1>4 DEF Close
  <2> QED BY <2>1 DEF PowerTypeOK
<1> QED BY <1>1, <1>2, <1>3, <1>4 DEF Daemon

\* The record of a session.
LEMMA DecodeType ==
  ASSUME PowerTypeOK, NEW timing \in Timings
  PROVE  /\ Frames(timing) \in LoopState
         /\ [session |-> session, of |-> {u.session : u \in ToSet(got)},
             rows |-> rows, samples |-> Frames(timing).samples] \in ResultType
<1>1. Frames(timing) \in LoopState
  BY PowerAssumption, FramesFit DEF PowerTypeOK
<1>2. Frames(timing).samples \in Seq(Nat)
  BY <1>1 DEF LoopState
<1>3. ASSUME NEW u \in ToSet(got) PROVE u.session \in Nat
  <2>1. got \in Seq(Units) /\ DOMAIN got = 1..Len(got)
    BY DEF PowerTypeOK
  <2>2. PICK i \in 1..Len(got) : u = got[i]
    BY <2>1 DEF ToSet
  <2>3. u \in Units
    BY <2>1, <2>2, ElementType, Zenon
  <2> QED BY <2>3 DEF Units
<1>4. {u.session : u \in ToSet(got)} \in SUBSET Nat
  BY <1>3
<1>5. session \in Nat /\ rows \in Nat
  BY DEF PowerTypeOK
<1> QED BY <1>1, <1>2, <1>4, <1>5 DEF ResultType

\* The types after each of the collector's steps.
LEMMA CollectorType == PowerTypeOK /\ (Call \/ Client) => PowerTypeOK'
<1> SUFFICES ASSUME PowerTypeOK, Call \/ Client PROVE PowerTypeOK'
  OBVIOUS
<1> USE DEF streamVars, collectorVars, waitVars, daemonVars
<1>0. /\ toDaemon \in Seq(Commands) /\ inFlight \in Seq(Units) /\ toClient \in Seq(Units)
      /\ got \in Seq(Units) /\ session \in Nat /\ rows \in Nat /\ results \in Seq(ResultType)
  BY DEF PowerTypeOK, ResultType
<1>1. CASE ReceiveUnit
  <2>1. toClient # <<>> /\ got' = Append(got, toClient[1]) /\ toClient' = Tail(toClient)
        /\ UNCHANGED <<toDaemon, inFlight, measuring, session, rows, numRails, pc, results>>
    BY <1>1 DEF ReceiveUnit
  <2>2. toClient[1] \in Units /\ toClient' \in Seq(Units)
    BY <1>0, <2>1
  <2>3. got' \in Seq(Units)
    BY <1>0, <2>1, <2>2
  <2> QED BY <2>1, <2>2, <2>3 DEF PowerTypeOK
<1>2. CASE Handshake \/ Started \/ StartFailed \/ Drain \/ Drained \/ AwaitLength \/ TooMuch
           \/ StopFailed
  <2>1. /\ UNCHANGED <<toDaemon, inFlight, toClient, measuring, session, rows, numRails, results>>
        /\ got' = <<>> /\ pc' \in {"ready", "session", "drain", "length"}
    BY <1>2 DEF Handshake, Started, StartFailed, Drain, Drained, AwaitLength, TooMuch, StopFailed
  <2> QED BY <2>1 DEF PowerTypeOK, Waiting
<1>3. CASE HandshakeFailed \/ deinit
  <2>1. /\ toDaemon' = <<>> /\ inFlight' = <<>> /\ toClient' = <<>> /\ measuring' = 0
        /\ UNCHANGED <<session, rows, numRails, results>>
        /\ got' \in {<<>>, got} /\ pc' \in {"off", "deleted"}
    BY <1>3 DEF HandshakeFailed, deinit, disconnect
  <2>2. got' \in Seq(Units)
    <3>1. <<>> \in Seq(Units)
      OBVIOUS
    <3> QED BY <2>1, <1>0, <3>1, Zenon
  <2>3. numRails' \in Nat /\ session' \in Nat /\ rows' \in Nat /\ results' \in Seq(ResultType)
    BY <2>1, <1>0 DEF PowerTypeOK
  <2> QED BY <2>1, <2>2, <2>3 DEF PowerTypeOK, ResultType
<1>4. CASE Connect
  <2>1. [cmd |-> "H2", session |-> 0] \in Commands
    BY DEF Commands
  <2>2. /\ toDaemon' = <<[cmd |-> "H2", session |-> 0]>> /\ got' = <<>> /\ pc' = "H2"
        /\ UNCHANGED <<inFlight, toClient, measuring, session, rows, numRails, results>>
    BY <1>4 DEF Connect
  <2>3. toDaemon' \in Seq(Commands)
    BY <2>1, <2>2
  <2> QED BY <2>2, <2>3 DEF PowerTypeOK, Waiting
<1>5. CASE start \/ Configured \/ SendStop
  <2>0. "session" \in Places /\ "ready" \in Places /\ session + 1 \in Nat
    BY <1>0 DEF Places
  <2>1. /\ session' \in Nat
        /\ UNCHANGED <<inFlight, toClient, measuring, rows, numRails, results>>
    BY <1>5, <1>0 DEF start, Configured, SendStop
  <2>2. got' = <<>> /\ toDaemon' \in Seq(Commands) /\ pc' \in Places
    <3>1. CASE start
      BY <3>1, <2>0, SendType DEF start
    <3>2. CASE Configured
      BY <3>2, <1>0, <2>0, SendType DEF Configured
    <3>3. CASE SendStop
      BY <3>3, <1>0, <2>0, SendType DEF SendStop
    <3> QED BY <1>5, <3>1, <3>2, <3>3
  <2> QED BY <2>1, <2>2 DEF PowerTypeOK, Places
<1>6. CASE AwaitData
  <2>1. PICK n \in Lengths : rows' = n
    BY <1>6 DEF AwaitData
  <2>2. Len(got) = 2
    BY <1>6 DEF AwaitData, Received, At, Wanted
  <2>3. rows' \in Nat
    BY <2>1, <2>2, LengthsType
  <2>4. UNCHANGED <<toDaemon, inFlight, toClient, measuring, session, numRails, results>>
        /\ got' = <<>> /\ pc' = "data"
    BY <1>6 DEF AwaitData
  <2> QED BY <2>3, <2>4 DEF PowerTypeOK, Waiting
<1>7. CASE Decode
  <2>1. PICK timing \in Timings :
          results' = Append(results, [session |-> session, of |-> {u.session : u \in ToSet(got)},
                                      rows |-> rows, samples |-> Frames(timing).samples])
    BY <1>7 DEF Decode
  <2> DEFINE r == [session |-> session, of |-> {u.session : u \in ToSet(got)},
                   rows |-> rows, samples |-> Frames(timing).samples]
  <2>2. r \in ResultType
    BY DecodeType
  <2> HIDE DEF r
  <2>3. results' \in Seq(ResultType)
    BY <1>0, <2>1, <2>2 DEF r
  <2>4. UNCHANGED <<toDaemon, inFlight, toClient, measuring, session, numRails, rows>>
        /\ got' = <<>> /\ pc' = "ready"
    BY <1>7 DEF Decode
  <2> QED BY <2>3, <2>4 DEF PowerTypeOK, ResultType
<1> QED BY <1>1, <1>2, <1>3, <1>4, <1>5, <1>6, <1>7 DEF Call, Client

-------------------------------------------------------------------------------
(* What holds whether or not the sides are in step.                            *)

LEMMA AlwaysStep == PowerTypeOK /\ Always /\ [Next]_vars => Always'
<1> SUFFICES ASSUME PowerTypeOK, Always, [Next]_vars PROVE Always'
  OBVIOUS
<1> USE DEF streamVars, collectorVars, waitVars, daemonVars
<1>1. CASE Daemon
  <2>1. UNCHANGED <<mCollecting, pc, got, results>>
    BY <1>1 DEF Daemon, Serve, Error, Deliver, Close
  <2>2. pc = "off" => /\ toDaemon = <<>> /\ inFlight = <<>> /\ toClient = <<>> /\ got = <<>>
                      /\ measuring = 0
    BY DEF Always
  <2>3. pc = "off" => ~Serve /\ ~Error /\ ~Deliver
    BY <2>2 DEF Serve, Error, Deliver
  <2>4. pc = "off" => toDaemon' = <<>> /\ inFlight' = <<>> /\ toClient' = <<>> /\ measuring' = 0
    BY <1>1, <2>2, <2>3 DEF Daemon, Close
  <2> QED BY <2>1, <2>2, <2>4 DEF Always
<1>2. CASE ReceiveUnit
  <2>1. pc \in Waiting /\ UNCHANGED <<pc, mCollecting, results>>
    BY <1>2 DEF ReceiveUnit
  <2>2. pc # "off" /\ pc # "session"
    BY <2>1 DEF Waiting
  <2> QED BY <2>1, <2>2 DEF Always
<1>3. CASE HandshakeFailed
  BY <1>3 DEF HandshakeFailed, TimedOut, At, disconnect, Always
<1>4. CASE Connect \/ Handshake
  BY <1>4 DEF Connect, Handshake, Synced, Received, At, Always
<1>5. CASE start \/ Configured \/ SendStop
  <2>1. pc \in {"ready", "RC", "drain"} /\ pc' \in {"ready", "session", "RC", "RT", "OP", pc}
        /\ got' = <<>> /\ UNCHANGED <<mCollecting, results>>
    BY <1>5 DEF start, Configured, SendStop, Synced, Received, TimedOut, At, Send
  <2> QED BY <2>1 DEF Always
<1>6. CASE Started \/ StartFailed
  BY <1>6 DEF Started, StartFailed, Synced, Refused, Received, TimedOut, At, Always
<1>7. CASE Drain \/ deinit
  BY <1>7 DEF Drain, deinit, disconnect, At, Always
<1>8. CASE Drained \/ AwaitLength \/ AwaitData \/ TooMuch \/ StopFailed \/ Decode
  <2>1. pc \in {"drain", "OP", "length", "data"} /\ pc' \in {"ready", "length", "data"}
        /\ UNCHANGED mCollecting
    BY <1>8 DEF Drained, AwaitLength, AwaitData, TooMuch, StopFailed, Decode, Synced, Refused,
                Received, TimedOut, At
  <2> QED BY <2>1 DEF Always
<1>9. CASE UNCHANGED vars
  BY <1>9 DEF vars, Always
<1> QED BY <1>1, <1>2, <1>3, <1>4, <1>5, <1>6, <1>7, <1>8, <1>9 DEF Next, Call, Client

\* Once something went wrong it stays so, except that a connection is a new start.
LEMMA UpsetStays == [Next]_vars /\ ~Connect => (upset => upset') /\ UNCHANGED numRails
<1> SUFFICES ASSUME [Next]_vars, ~Connect PROVE (upset => upset') /\ UNCHANGED numRails
  OBVIOUS
<1> USE DEF streamVars, collectorVars, waitVars, daemonVars
<1>1. CASE Daemon
  <2>1. CASE Error
    BY <2>1, Zenon DEF Error
  <2> QED BY <1>1, <2>1 DEF Daemon, Serve, Deliver, Close
<1>2. CASE ReceiveUnit \/ Handshake \/ HandshakeFailed \/ Configured \/ Started \/ StartFailed
  BY <1>2 DEF ReceiveUnit, Handshake, HandshakeFailed, Configured, Started, StartFailed
<1>3. CASE SendStop \/ Drained \/ AwaitLength \/ AwaitData \/ TooMuch \/ StopFailed \/ Decode
  <2>1. CASE SendStop
    BY <2>1, Zenon DEF SendStop
  <2> QED BY <1>3, <2>1 DEF Drained, AwaitLength, AwaitData, TooMuch, StopFailed, Decode
<1>4. CASE start \/ Drain \/ deinit
  BY <1>4 DEF start, Drain, deinit
<1>5. CASE UNCHANGED vars
  BY <1>5 DEF vars
<1> QED BY <1>1, <1>2, <1>3, <1>4, <1>5 DEF Next, Call, Client

\* Only Decode records.
LEMMA OthersRecordNothing == [Next]_vars /\ ~Decode => UNCHANGED results
<1> SUFFICES ASSUME [Next]_vars, ~Decode PROVE UNCHANGED results
  OBVIOUS
<1> USE DEF streamVars, collectorVars, waitVars, daemonVars
<1>1. CASE Daemon
  BY <1>1 DEF Daemon, Serve, Error, Deliver, Close
<1>2. CASE ReceiveUnit \/ Handshake \/ HandshakeFailed \/ Configured \/ Started \/ StartFailed
  BY <1>2 DEF ReceiveUnit, Handshake, HandshakeFailed, Configured, Started, StartFailed
<1>3. CASE SendStop \/ Drained \/ AwaitLength \/ AwaitData \/ TooMuch \/ StopFailed
  BY <1>3 DEF SendStop, Drained, AwaitLength, AwaitData, TooMuch, StopFailed
<1>4. CASE Client
  BY <1>4 DEF Client, Connect, start, Drain, deinit
<1>5. CASE UNCHANGED vars
  BY <1>5 DEF vars
<1> QED BY <1>1, <1>2, <1>3, <1>4, <1>5 DEF Next, Call

\* When all rows have come, all of them are of this session.
LEMMA RowsOfSession ==
  ASSUME PowerTypeOK, Exchanges, Received("data")
  PROVE  {u.session : u \in ToSet(got)} \subseteq {session}
<1>1. pc = "data" /\ Len(got) = rows
  BY DEF Received, At, Wanted
<1>2. \A i \in 1..rows : Says(i, "row")
  BY <1>1 DEF Exchanges
<1>3. ASSUME NEW u \in ToSet(got) PROVE u.session = session
  <2>1. got \in Seq(Units) /\ DOMAIN got = 1..Len(got)
    BY DEF PowerTypeOK
  <2>2. PICK i \in 1..Len(got) : u = got[i]
    BY <2>1 DEF ToSet
  <2>3. u = Stream[i] /\ Says(i, "row")
    BY <1>1, <1>2, <2>2, StreamParts
  <2> QED BY <2>3 DEF Says
<1> QED BY <1>3

\* Every record, also one made by a collector that is out of step, has its samples.
LEMMA RecordedStep == PowerInv /\ [Next]_vars => Recorded'
<1> SUFFICES ASSUME PowerInv, [Next]_vars PROVE Recorded'
  OBVIOUS
<1>0. PowerTypeOK /\ Always /\ Recorded /\ (~upset => Exchanges)
  BY DEF PowerInv, InTouch
<1>1. CASE Connect
  <2>1. results = <<>> /\ results' = results
    BY <1>0, <1>1 DEF Connect, At, Always, collectorVars
  <2> QED BY <2>1 DEF Recorded
<1>2. CASE ~Connect /\ ~Decode
  <2>1. UNCHANGED <<results, numRails>> /\ (upset => upset')
    BY <1>2, UpsetStays, OthersRecordNothing
  <2> QED BY <1>0, <2>1 DEF Recorded
<1>3. CASE Decode
  <2>1. PICK timing \in Timings :
          results' = Append(results, [session |-> session, of |-> {u.session : u \in ToSet(got)},
                                      rows |-> rows, samples |-> Frames(timing).samples])
    BY <1>3 DEF Decode
  <2> DEFINE r == [session |-> session, of |-> {u.session : u \in ToSet(got)},
                   rows |-> rows, samples |-> Frames(timing).samples]
  <2>2. UNCHANGED <<numRails, upset>>
    BY <1>3 DEF Decode
  <2>3. r \in ResultType /\ Frames(timing) \in LoopState
    BY <1>0, DecodeType
  <2>4. ~upset => r.of \subseteq {r.session}
    <3>1. Received("data")
      BY <1>3 DEF Decode
    <3> QED BY <1>0, <3>1, RowsOfSession
  <2>5. numRails > 0 => SumSeq(r.samples) <= r.rows
    BY <2>3 DEF LoopState
  <2> HIDE DEF r
  <2>6. results \in Seq(ResultType) /\ Len(results) \in Nat
    BY <1>0 DEF PowerTypeOK, ResultType
  <2>7. DOMAIN results' = 1..(Len(results) + 1) /\ results'[Len(results) + 1] = r
        /\ \A i \in 1..Len(results) : results'[i] = results[i]
    BY <2>1, <2>3, <2>6 DEF r
  <2>8. ASSUME NEW i \in DOMAIN results'
        PROVE  /\ ~upset' => results'[i].of \subseteq {results'[i].session}
               /\ numRails' > 0 => SumSeq(results'[i].samples) <= results'[i].rows
    <3>1. CASE i \in 1..Len(results)
      <4>1. results'[i] = results[i] /\ i \in DOMAIN results
        BY <3>1, <2>6, <2>7
      <4> QED BY <4>1, <1>0, <2>2 DEF Recorded
    <3>2. CASE i = Len(results) + 1
      <4>1. results'[i] = r
        BY <3>2, <2>7
      <4> QED BY <4>1, <2>2, <2>4, <2>5
    <3> QED BY <2>6, <2>7, <3>1, <3>2
  <2> QED BY <2>8 DEF Recorded
<1> QED BY <1>1, <1>2, <1>3

-------------------------------------------------------------------------------
(* The two sides in step: what each step does to the stream.                   *)

LEMMA StreamKept ==
  ASSUME PowerTypeOK, Deliver \/ ReceiveUnit
  PROVE  Stream' = Stream
<1>1. got \in Seq(Units) /\ toClient \in Seq(Units) /\ inFlight \in Seq(Units)
  BY DEF PowerTypeOK
<1>2. CASE Deliver
  <2>1. inFlight # <<>> /\ toClient' = Append(toClient, inFlight[1]) /\ inFlight' = Tail(inFlight)
        /\ got' = got
    BY <1>2 DEF Deliver, waitVars
  <2>2. Append(toClient, inFlight[1]) \o Tail(inFlight) = toClient \o inFlight
    BY <1>1, <2>1, Moved, Zenon
  <2> QED BY <2>1, <2>2, Zenon DEF Stream
<1>3. CASE ReceiveUnit
  <2>1. toClient # <<>> /\ got' = Append(got, toClient[1]) /\ toClient' = Tail(toClient)
        /\ inFlight' = inFlight
    BY <1>3 DEF ReceiveUnit
  <2>2. Append(got, toClient[1]) \o Tail(toClient) = got \o toClient
    BY <1>1, <2>1, Moved, Zenon
  <2>3. toClient[1] \in Units /\ Tail(toClient) \in Seq(Units)
    BY <1>1, <2>1
  <2>4. Append(got, toClient[1]) \in Seq(Units)
    BY <1>1, <2>3
  <2>5. (Append(got, toClient[1]) \o Tail(toClient)) \o inFlight
          = Append(got, toClient[1]) \o (Tail(toClient) \o inFlight)
    BY <1>1, <2>3, <2>4, UnitsRegrouped, Zenon
  <2>6. (got \o toClient) \o inFlight = got \o (toClient \o inFlight)
    BY <1>1, UnitsRegrouped, Zenon
  <2> QED BY <2>1, <2>2, <2>5, <2>6, Zenon DEF Stream
<1> QED BY <1>2, <1>3

LEMMA StreamGrows ==
  ASSUME PowerTypeOK, NEW units \in Seq(Units), inFlight' = inFlight \o units,
         UNCHANGED <<got, toClient>>
  PROVE  Stream' = Stream \o units
<1>1. got \in Seq(Units) /\ toClient \in Seq(Units) /\ inFlight \in Seq(Units)
      /\ toClient \o inFlight \in Seq(Units)
  BY StreamParts DEF PowerTypeOK
<1>2. (toClient \o inFlight) \o units = toClient \o (inFlight \o units)
  BY <1>1, UnitsRegrouped, Zenon
<1>3. (got \o (toClient \o inFlight)) \o units = got \o ((toClient \o inFlight) \o units)
  BY <1>1, UnitsRegrouped, Zenon
<1>4. Stream' = got \o (toClient \o (inFlight \o units))
  BY DEF Stream
<1> QED BY <1>2, <1>3, <1>4, Zenon DEF Stream

LEMMA StreamTaken ==
  ASSUME PowerTypeOK, got' = <<>>, UNCHANGED <<toClient, inFlight>>
  PROVE  /\ Stream' \in Seq(Units) /\ Len(Stream') \in Nat /\ Len(Stream') = Len(Stream) - Len(got)
         /\ Len(Stream) \in Nat /\ Len(got) \in Nat
         /\ \A i \in 1..Len(Stream') : Stream'[i] = Stream[Len(got) + i]
<1> DEFINE r == toClient \o inFlight
<1>1. r \in Seq(Units) /\ Len(Stream) = Len(got) + Len(r) /\ Len(got) \in Nat /\ Stream \in Seq(Units)
      /\ \A i \in 1..Len(r) : Stream[Len(got) + i] = r[i]
  BY StreamParts
<1>2. Stream' = <<>> \o r
  BY DEF Stream
<1> HIDE DEF r
<1>3. Stream' = r
  BY <1>1, <1>2
<1> QED BY <1>1, <1>3

\* Nothing is left once the only unit, or none, has been taken.
LEMMA EmptyStream ==
  ASSUME NEW U, NEW q \in Seq(U), Len(q) = 0
  PROVE  q = <<>>
OBVIOUS

-------------------------------------------------------------------------------
(* The two sides in step: the daemon's half.                                   *)

\* A command that the daemon serves is the one the collector waits on.
LEMMA ServedIsAwaited ==
  ASSUME PowerTypeOK, Always, Exchanges, toDaemon # <<>>, pc # "deleted"
  PROVE  pc \in {"H2", "RC", "RT", "OP"} /\ Unanswered(pc)
         /\ (pc # "OP" => measuring = 0) /\ measuring \in {0, session}
<1>1. pc # "off"
  BY DEF Always
<1>2. pc \notin {"ready", "session", "drain", "length", "data"}
  BY DEF Exchanges, Silence, Answer, Measurement
<1>3. pc \in {"H2", "RC", "RT", "OP"}
  BY <1>1, <1>2 DEF PowerTypeOK, Waiting
<1> QED BY <1>3 DEF Exchanges, Answer, Measurement

LEMMA ServeExchange ==
  ASSUME PowerTypeOK, Always, Exchanges, Serve, pc # "deleted"
  PROVE  Exchanges'
<1>1. PICK units \in Seq(Units), c \in Commands :
           /\ c = toDaemon[1] /\ inFlight' = inFlight \o units
           /\ \/ /\ c.cmd \in {"H2", "RC"}
                 /\ units = <<UnitOf("OK", c.session, 0)>> /\ measuring' = measuring
              \/ c.cmd = "RT" /\ units = <<UnitOf("OK", c.session, 0)>> /\ measuring' = c.session
              \/ /\ c.cmd \in {"RC", "RT"} \/ (c.cmd = "OP" /\ measuring = 0)
                 /\ units = <<UnitOf("ER", c.session, 0)>> /\ measuring' = measuring
              \/ /\ c.cmd = "OP" /\ measuring' = 0
                 /\ \E n \in Nat : StopAnswer(units, c.session, n)
  BY Served
<1>2. /\ toDaemon # <<>> /\ toDaemon' = Tail(toDaemon)
      /\ UNCHANGED <<got, toClient, session, pc, mCollecting, rows>>
  BY DEF Serve, waitVars, collectorVars
<1>3. /\ pc \in {"H2", "RC", "RT", "OP"} /\ toDaemon = <<[cmd |-> pc, session |-> session]>>
      /\ Stream = <<>> /\ (pc # "OP" => measuring = 0) /\ measuring \in {0, session}
  BY <1>2, ServedIsAwaited DEF Unanswered
<1>4. c.cmd = pc /\ c.session = session /\ toDaemon' = <<>>
  BY <1>1, <1>2, <1>3
<1>5. Stream' = units
  <2>1. Stream' = Stream \o units
    BY <1>1, <1>2, StreamGrows
  <2>2. <<>> \o units = units
    OBVIOUS
  <2> QED BY <1>3, <2>1, <2>2
<1>6. ASSUME NEW what, units = <<UnitOf(what, c.session, 0)>> PROVE Answer(what)'
  <2>1. Len(Stream') = 1 /\ Stream'[1] = UnitOf(what, c.session, 0)
    BY <1>5, <1>6
  <2> QED BY <1>2, <1>4, <2>1 DEF Answer, Says, UnitOf
<1>7. CASE c.cmd \in {"H2", "RC"} /\ units = <<UnitOf("OK", c.session, 0)>> /\ measuring' = measuring
  <2>1. Answer("OK")' /\ pc' \in {"H2", "RC"} /\ measuring' = 0
    BY <1>2, <1>3, <1>4, <1>6, <1>7
  <2> QED BY <2>1 DEF Exchanges
<1>8. CASE c.cmd = "RT" /\ units = <<UnitOf("OK", c.session, 0)>> /\ measuring' = c.session
  <2>1. Answer("OK")' /\ pc' = "RT" /\ measuring' = session'
    BY <1>2, <1>3, <1>4, <1>6, <1>8
  <2> QED BY <2>1 DEF Exchanges
<1>9. CASE /\ c.cmd \in {"RC", "RT"} \/ (c.cmd = "OP" /\ measuring = 0)
           /\ units = <<UnitOf("ER", c.session, 0)>> /\ measuring' = measuring
  <2>1. Answer("ER")' /\ pc' \in {"RC", "RT", "OP"} /\ measuring' = 0
    BY <1>2, <1>3, <1>4, <1>6, <1>9
  <2> QED BY <2>1 DEF Exchanges
<1>10. CASE /\ c.cmd = "OP" /\ measuring' = 0
            /\ \E n \in Nat : StopAnswer(units, c.session, n)
  <2>1. PICK n \in Nat : StopAnswer(units, c.session, n)
    BY <1>10
  <2>2. /\ Len(Stream') = 1 + 2 + n
        /\ Stream'[1] = UnitOf("OK", session, 0)
        /\ Stream'[1 + 1] = UnitOf("high", session, n)
        /\ Stream'[1 + 2] = UnitOf("low", session, 0)
        /\ \A i \in 1..n : Stream'[1 + 2 + i] = UnitOf("row", session, 0)
    BY <1>4, <1>5, <2>1 DEF StopAnswer
  <2>3. n \in 0..Len(Stream')
    BY <2>2
  <2>4. Says(1, "OK")' /\ Says(1 + 2, "low")' /\ \A i \in 1..n : Says(1 + 2 + i, "row")'
    BY <1>2, <2>2 DEF Says, UnitOf
  <2>5. Stream'[1 + 1] = [kind |-> "high", session |-> session', rows |-> n]
    BY <1>2, <2>2 DEF UnitOf
  <2>6. Measurement(1)'
    BY <1>4, <2>2, <2>3, <2>4, <2>5 DEF Measurement
  <2>7. pc' = "OP"
    BY <1>2, <1>4, <1>10
  <2> QED BY <1>10, <2>4, <2>6, <2>7 DEF Exchanges
<1> QED BY <1>1, <1>7, <1>8, <1>9, <1>10

\* An error report comes behind what is on the stream; only OP takes it for its answer.
LEMMA ErrorExchange ==
  ASSUME PowerTypeOK, Always, Exchanges, Error, ~upset', pc # "deleted"
  PROVE  Exchanges'
<1> DEFINE u == UnitOf("ER", measuring, 0)
<1>1. /\ measuring # 0 /\ inFlight' = Append(inFlight, u) /\ measuring' = 0
      /\ UNCHANGED <<toDaemon, got, toClient, session, pc, mCollecting, rows>>
  BY DEF Error, waitVars, collectorVars, UnitOf
<1>2. pc # "OP"
  BY Zenon DEF Error
<1>3. u \in Units /\ inFlight \in Seq(Units) /\ Stream \in Seq(Units)
  BY StreamParts DEF PowerTypeOK, Units, Kinds, UnitOf
<1> HIDE DEF u
<1>4. <<u>> \in Seq(Units) /\ Append(inFlight, u) = inFlight \o <<u>>
      /\ Stream \o <<u>> = Append(Stream, u)
  BY <1>3
<1>5. Stream' = Append(Stream, u)
  <2>1. inFlight' = inFlight \o <<u>> /\ UNCHANGED <<got, toClient>>
    BY <1>1, <1>4
  <2>2. Stream' = Stream \o <<u>>
    BY <1>4, <2>1, StreamGrows
  <2> QED BY <1>4, <2>2
<1>6. Len(Stream') = Len(Stream) + 1 /\ Stream'[Len(Stream) + 1] = u /\ Len(Stream) \in Nat
      /\ \A i \in 1..Len(Stream) : Stream'[i] = Stream[i]
  BY <1>3, <1>5
<1>7. /\ pc \in {"RT", "session", "drain"} /\ measuring = session
      /\ (pc = "RT" => Answer("OK")) /\ (pc # "RT" => Silence)
  <2>1. pc # "off"
    BY <1>1 DEF Always
  <2>2. pc \in {"RT", "session", "drain"}
    BY <1>1, <1>2, <2>1 DEF Exchanges, PowerTypeOK, Waiting
  <2> QED BY <1>1, <2>2 DEF Exchanges
<1>8. CASE pc = "RT"
  <2>1. Len(Stream) = 1 /\ Says(1, "OK") /\ toDaemon = <<>>
    BY <1>7, <1>8 DEF Answer
  <2>2. Len(Stream') = 2 /\ Stream'[1] = Stream[1] /\ Stream'[2] = u
    BY <1>6, <2>1
  <2>3. Says(1, "OK")' /\ Says(2, "ER")'
    BY <1>1, <1>7, <2>1, <2>2 DEF Says, UnitOf, u
  <2> QED BY <1>1, <1>8, <2>1, <2>2, <2>3 DEF Exchanges
<1>9. CASE pc # "RT"
  <2>1. Stream = <<>> /\ toDaemon = <<>>
    BY <1>7, <1>9 DEF Silence
  <2>2. Len(Stream') = 1 /\ Stream'[1] = u
    BY <1>6, <2>1
  <2>3. Says(1, "ER")'
    BY <1>1, <1>7, <2>2 DEF Says, UnitOf, u
  <2>4. Answer("ER")'
    BY <1>1, <2>1, <2>2, <2>3 DEF Answer
  <2>5. pc' \in {"session", "drain"} /\ measuring' = 0
    BY <1>1, <1>7, <1>9
  <2> QED BY <2>4, <2>5 DEF Exchanges
<1> QED BY <1>8, <1>9

-------------------------------------------------------------------------------
(* The two sides in step: the collector's half.                                *)

LEMMA SameExchange ==
  ASSUME Exchanges, Stream' = Stream,
         UNCHANGED <<toDaemon, measuring, session, pc, mCollecting, rows>>
  PROVE  Exchanges'
<1>1. \A i, what : Says(i, what)' <=> Says(i, what)
  BY DEF Says
<1>2. (\A cmd : Unanswered(cmd)' <=> Unanswered(cmd)) /\ (Silence' <=> Silence)
  BY DEF Unanswered, Silence
<1>3. \A what : Answer(what)' <=> Answer(what)
  BY <1>1 DEF Answer
<1>4. \A k : Measurement(k)' <=> Measurement(k)
  BY <1>1 DEF Measurement
<1> QED BY <1>1, <1>2, <1>3, <1>4 DEF Exchanges

\* A command goes out while nothing else is on its way.
LEMMA SendExchange ==
  ASSUME PowerTypeOK, up, toDaemon = <<>>, Len(Stream) = Len(got),
         NEW cmd, NEW refused, Send(cmd, session', refused), UNCHANGED <<toClient, inFlight>>
  PROVE  pc' = cmd /\ Unanswered(cmd)'
<1>1. pc' = cmd /\ got' = <<>> /\ toDaemon' = Append(toDaemon, [cmd |-> cmd, session |-> session'])
  BY DEF Send
<1>2. toDaemon' = <<[cmd |-> cmd, session |-> session']>>
  BY <1>1
<1>3. Stream' \in Seq(Units) /\ Len(Stream') = 0
  BY <1>1, StreamTaken
<1>4. Stream' = <<>>
  BY <1>3
<1> QED BY <1>1, <1>2, <1>4 DEF Unanswered

\* The stream after a call has taken all of it.
LEMMA AllTaken ==
  ASSUME PowerTypeOK, toDaemon = <<>>, Len(Stream) = Len(got), got' = <<>>,
         UNCHANGED <<toDaemon, toClient, inFlight>>
  PROVE  Silence'
<1>1. Stream' \in Seq(Units) /\ Len(Stream') = 0
  BY StreamTaken
<1>2. Stream' = <<>>
  BY <1>1
<1> QED BY <1>2 DEF Silence

\* A wait that has received what it wants has the front of the stream.
LEMMA ReceivedFirst ==
  ASSUME PowerTypeOK, NEW where \in {"H2", "RC", "RT", "drain", "OP"}, Received(where)
  PROVE  pc = where /\ Len(got) = 1 /\ got[1] = Stream[1]
<1>1. pc = where /\ Len(got) = 1
  BY DEF Received, At, Wanted
<1> QED BY <1>1, StreamParts

LEMMA HandshakeExchange ==
  ASSUME PowerTypeOK, InTouch, Handshake
  PROVE  InTouch'
<1> USE DEF streamVars, daemonVars, collectorVars
<1>1. pc = "H2" /\ Len(got) = 1
  BY ReceivedFirst DEF Handshake, Synced
<1>2. got' = <<>> /\ pc' = "ready" /\ UNCHANGED <<up, toDaemon, toClient, inFlight, measuring>>
  BY DEF Handshake
<1>3. measuring = 0 /\ Answer("OK") /\ up
  <2>1. ~Unanswered("H2")
    BY <1>1, StreamParts DEF Unanswered
  <2> QED BY <1>1, <2>1 DEF InTouch, Exchanges
<1>4. Silence'
  BY <1>1, <1>2, <1>3, AllTaken DEF Answer
<1> QED BY <1>2, <1>3, <1>4 DEF InTouch, Exchanges

LEMMA StartExchange ==
  ASSUME PowerTypeOK, InTouch, start
  PROVE  InTouch'
<1> USE DEF streamVars, daemonVars, collectorVars
<1>1. /\ pc = "ready" /\ Send("RC", session + 1, "session") /\ session' = session + 1
      /\ UNCHANGED <<up, toClient, inFlight, measuring>>
  BY DEF start, At
<1>2. measuring = 0 /\ Silence /\ up
  BY <1>1 DEF InTouch, Exchanges
<1>3. Len(Stream) = Len(got) /\ toDaemon = <<>>
  BY <1>2, StreamParts DEF Silence
<1>4. pc' = "RC" /\ Unanswered("RC")'
  BY <1>1, <1>2, <1>3, SendExchange
<1> QED BY <1>1, <1>2, <1>4 DEF InTouch, Exchanges

LEMMA ConfiguredExchange ==
  ASSUME PowerTypeOK, InTouch, Configured
  PROVE  InTouch'
<1> USE DEF streamVars, daemonVars, collectorVars
<1>1. pc = "RC" /\ Len(got) = 1
  BY ReceivedFirst DEF Configured, Synced
<1>2. Send("RT", session, "session") /\ UNCHANGED <<up, toClient, inFlight, measuring, session>>
  BY DEF Configured
<1>3. measuring = 0 /\ up /\ toDaemon = <<>> /\ Len(Stream) = 1
  <2>1. ~Unanswered("RC")
    BY <1>1, StreamParts DEF Unanswered
  <2> QED BY <1>1, <2>1 DEF InTouch, Exchanges, Answer
<1>4. pc' = "RT" /\ Unanswered("RT")'
  BY <1>1, <1>2, <1>3, SendExchange
<1> QED BY <1>2, <1>3, <1>4 DEF InTouch, Exchanges

LEMMA StartedExchange ==
  ASSUME PowerTypeOK, InTouch, Started
  PROVE  InTouch'
<1> USE DEF streamVars, daemonVars, collectorVars
<1>1. pc = "RT" /\ Len(got) = 1 /\ got[1] = Stream[1] /\ got[1].kind = "OK"
  BY ReceivedFirst DEF Started, Synced
<1>2. got' = <<>> /\ pc' = "session"
      /\ UNCHANGED <<up, toDaemon, toClient, inFlight, measuring, session>>
  BY DEF Started
<1>3. up /\ ~Unanswered("RT") /\ ~Answer("ER")
  BY <1>1, StreamParts DEF InTouch, Unanswered, Answer, Says
<1>4. CASE measuring = session /\ Answer("OK")
  <2>1. Silence'
    BY <1>1, <1>2, <1>4, AllTaken DEF Answer
  <2> QED BY <1>2, <1>3, <1>4, <2>1 DEF InTouch, Exchanges
<1>5. CASE measuring = 0 /\ toDaemon = <<>> /\ Len(Stream) = 2 /\ Says(2, "ER")
  <2>1. Len(Stream') = 1 /\ Stream'[1] = Stream[2]
    <3>1. /\ Len(Stream') = Len(Stream) - Len(got)
          /\ \A i \in 1..Len(Stream') : Stream'[i] = Stream[Len(got) + i]
      BY <1>2, StreamTaken
    <3>2. Len(Stream') = 1
      BY <1>1, <1>5, <3>1
    <3>3. 1 \in 1..Len(Stream')
      BY <3>2
    <3>4. Stream'[1] = Stream[Len(got) + 1]
      BY <3>1, <3>3, Zenon
    <3>5. Len(got) + 1 = 2
      BY <1>1
    <3> QED BY <3>2, <3>4, <3>5
  <2>2. Answer("ER")'
    BY <1>2, <1>5, <2>1 DEF Answer, Says
  <2> QED BY <1>2, <1>3, <1>5, <2>2 DEF InTouch, Exchanges
<1> QED BY <1>1, <1>3, <1>4, <1>5 DEF InTouch, Exchanges

LEMMA StartFailedExchange ==
  ASSUME PowerTypeOK, Always, InTouch, StartFailed, ~upset'
  PROVE  InTouch'
<1> USE DEF streamVars, daemonVars, collectorVars
<1>1. PICK cmd \in {"RC", "RT"} : Refused(cmd)
  BY DEF StartFailed
<1>2. pc = cmd /\ Len(got) = 1 /\ got[1] = Stream[1] /\ got[1].kind # "OK"
  BY <1>1, ReceivedFirst DEF Refused
<1>3. got' = <<>> /\ pc' = "session"
      /\ UNCHANGED <<up, toDaemon, toClient, inFlight, measuring, session, mCollecting>>
  BY DEF StartFailed
<1>4. up /\ ~Unanswered(cmd) /\ ~Answer("OK") /\ ~Says(1, "OK")
  BY <1>2, StreamParts DEF InTouch, Unanswered, Answer, Says
<1>5. measuring = 0 /\ Answer("ER")
  BY <1>2, <1>4 DEF InTouch, Exchanges
<1>6. Silence'
  BY <1>2, <1>3, <1>5, AllTaken DEF Answer
<1>7. ~mCollecting
  BY <1>2 DEF Always
<1> QED BY <1>3, <1>4, <1>5, <1>6, <1>7 DEF InTouch, Exchanges

LEMMA DrainExchange ==
  ASSUME PowerTypeOK, Always, InTouch, Drain
  PROVE  InTouch'
<1> USE DEF streamVars, daemonVars, collectorVars
<1>1. pc = "session" /\ pc' = "drain" /\ got' = <<>> /\ mCollecting' = FALSE
      /\ UNCHANGED <<up, toDaemon, toClient, inFlight, measuring, session>>
  BY DEF Drain, At
<1>2. got = <<>> /\ up
  BY <1>1 DEF Always, InTouch
<1>3. Stream' = Stream
  BY <1>1, <1>2 DEF Stream
<1>4. (Silence' <=> Silence) /\ (Answer("ER")' <=> Answer("ER"))
  BY <1>1, <1>3 DEF Silence, Answer, Says
<1>5. \/ measuring = session /\ Silence
      \/ measuring = 0 /\ (Answer("ER") \/ Silence)
  BY <1>1 DEF InTouch, Exchanges
<1> QED BY <1>1, <1>2, <1>4, <1>5 DEF InTouch, Exchanges

LEMMA SendStopExchange ==
  ASSUME PowerTypeOK, InTouch, SendStop, ~upset'
  PROVE  InTouch'
<1> USE DEF streamVars, daemonVars, collectorVars
<1>1. /\ Send("OP", session, "ready") /\ UNCHANGED <<up, toClient, inFlight, measuring, session>>
      /\ TimedOut("drain") \/ (Received("drain") /\ got[1].kind # "ER")
  BY DEF SendStop
<1>2. ~(got = <<>> /\ inFlight # <<>>)
  BY Zenon DEF SendStop
<1>3. pc = "drain"
  BY <1>1 DEF TimedOut, Received, At
<1>4. up /\ toDaemon = <<>> /\ measuring \in {0, session}
  BY <1>3 DEF InTouch, Exchanges, Silence, Answer
<1>5. Len(Stream) = Len(got)
  <2>1. CASE TimedOut("drain")
    <3>1. Len(got) < 1 /\ toClient = <<>>
      BY <1>3, <1>4, <2>1 DEF TimedOut, Wanted
    <3>2. got = <<>>
      BY <3>1 DEF PowerTypeOK
    <3>3. inFlight = <<>>
      BY <1>2, <3>2
    <3> QED BY <3>1, <3>3, StreamParts
  <2>2. CASE Received("drain") /\ got[1].kind # "ER"
    <3>1. Len(got) = 1 /\ got[1] = Stream[1]
      BY <2>2, ReceivedFirst
    <3>2. ~Silence /\ ~Answer("ER")
      BY <2>2, <3>1, StreamParts DEF Silence, Answer, Says
    <3> QED BY <1>3, <3>2 DEF InTouch, Exchanges
  <2> QED BY <1>1, <2>1, <2>2
<1>6. pc' = "OP" /\ Unanswered("OP")'
  BY <1>1, <1>4, <1>5, SendExchange
<1> QED BY <1>1, <1>4, <1>6 DEF InTouch, Exchanges

LEMMA DrainedExchange ==
  ASSUME PowerTypeOK, InTouch, Drained
  PROVE  InTouch'
<1> USE DEF streamVars, daemonVars, collectorVars
<1>1. pc = "drain" /\ Len(got) = 1
  BY ReceivedFirst DEF Drained
<1>2. got' = <<>> /\ pc' = "ready" /\ UNCHANGED <<up, toDaemon, toClient, inFlight, measuring>>
  BY DEF Drained
<1>3. measuring = 0 /\ Answer("ER") /\ up
  <2>1. ~Silence
    BY <1>1, StreamParts DEF Silence
  <2> QED BY <1>1, <2>1 DEF InTouch, Exchanges
<1>4. Silence'
  BY <1>1, <1>2, <1>3, AllTaken DEF Answer
<1> QED BY <1>2, <1>3, <1>4 DEF InTouch, Exchanges

LEMMA AwaitLengthExchange ==
  ASSUME PowerTypeOK, InTouch, AwaitLength
  PROVE  InTouch'
<1> USE DEF streamVars, daemonVars, collectorVars
<1>1. pc = "OP" /\ Len(got) = 1 /\ got[1] = Stream[1] /\ got[1].kind = "OK"
  BY ReceivedFirst DEF AwaitLength, Synced
<1>2. got' = <<>> /\ pc' = "length"
      /\ UNCHANGED <<up, toDaemon, toClient, inFlight, measuring, session>>
  BY DEF AwaitLength
<1>3. up /\ ~Unanswered("OP") /\ ~Answer("ER")
  BY <1>1, StreamParts DEF InTouch, Unanswered, Answer, Says
<1>4. measuring = 0 /\ Measurement(1)
  BY <1>1, <1>3 DEF InTouch, Exchanges
<1>5. PICK n \in 0..Len(Stream) :
        /\ Len(Stream) = 1 + 2 + n
        /\ Stream[1 + 1] = [kind |-> "high", session |-> session, rows |-> n]
        /\ Says(1 + 2, "low")
        /\ \A i \in 1..n : Says(1 + 2 + i, "row")
  BY <1>4 DEF Measurement
<1>6. /\ Len(Stream') = Len(Stream) - 1 /\ Len(Stream) \in Nat
      /\ \A i \in 1..Len(Stream') : Stream'[i] = Stream[1 + i]
  BY <1>1, <1>2, StreamTaken
<1>7. n \in Nat /\ Len(Stream') = 0 + 2 + n /\ n \in 0..Len(Stream')
  BY <1>5, <1>6
<1>8. Stream'[0 + 1] = [kind |-> "high", session |-> session', rows |-> n]
  <2>1. 0 + 1 \in 1..Len(Stream') /\ 1 + (0 + 1) = 1 + 1
    BY <1>7
  <2> QED BY <1>2, <1>5, <1>6, <2>1
<1>9. Says(0 + 2, "low")'
  <2>1. 0 + 2 \in 1..Len(Stream') /\ 1 + (0 + 2) = 1 + 2
    BY <1>7
  <2>2. Stream'[0 + 2] = Stream[1 + 2]
    BY <1>6, <2>1
  <2> QED BY <1>2, <1>5, <2>2 DEF Says
<1>10. ASSUME NEW i \in 1..n PROVE Says(0 + 2 + i, "row")'
  <2>1. 0 + 2 + i \in 1..Len(Stream') /\ 1 + (0 + 2 + i) = 1 + 2 + i
    BY <1>7
  <2>2. Stream'[0 + 2 + i] = Stream[1 + 2 + i]
    BY <1>6, <2>1
  <2> QED BY <1>2, <1>5, <2>2 DEF Says
<1>11. Measurement(0)'
  BY <1>2, <1>4, <1>7, <1>8, <1>9, <1>10 DEF Measurement
<1> QED BY <1>2, <1>3, <1>4, <1>11 DEF InTouch, Exchanges

LEMMA AwaitDataExchange ==
  ASSUME PowerTypeOK, InTouch, AwaitData
  PROVE  InTouch'
<1> USE DEF streamVars, daemonVars, collectorVars
<1>1. pc = "length" /\ Len(got) = 2
  BY DEF AwaitData, Received, At, Wanted
<1>2. got' = <<>> /\ pc' = "data" /\ rows' \in Lengths
      /\ UNCHANGED <<up, toDaemon, toClient, inFlight, measuring, session>>
  BY DEF AwaitData
<1>3. measuring = 0 /\ Measurement(0) /\ up
  BY <1>1 DEF InTouch, Exchanges
<1>4. PICK n \in 0..Len(Stream) :
        /\ Len(Stream) = 0 + 2 + n
        /\ Stream[0 + 1] = [kind |-> "high", session |-> session, rows |-> n]
        /\ Says(0 + 2, "low")
        /\ \A i \in 1..n : Says(0 + 2 + i, "row")
  BY <1>3 DEF Measurement
<1>5. /\ Len(Stream') = Len(Stream) - 2 /\ Len(Stream) \in Nat
      /\ \A i \in 1..Len(Stream') : Stream'[i] = Stream[2 + i]
  BY <1>1, <1>2, StreamTaken
<1>6. got[1] = Stream[0 + 1] /\ got[2] = Stream[0 + 2]
  BY <1>1, StreamParts
<1>7. got[1].kind = "high" /\ got[2].kind = "low" /\ got[1].rows = n
  BY <1>4, <1>6 DEF Says
<1>8. rows' = n
  BY <1>2, <1>7 DEF Lengths
<1>9. n \in Nat /\ Len(Stream') = n
  BY <1>4, <1>5
<1>10. ASSUME NEW i \in 1..n PROVE Says(i, "row")'
  <2>1. Stream'[i] = Stream[2 + i] /\ Says(2 + i, "row")
    <3>1. 0 + 2 + i = 2 + i
      OBVIOUS
    <3> QED BY <1>4, <1>5, <1>9, <3>1
  <2> QED BY <1>2, <2>1 DEF Says
<1>11. toDaemon' = <<>>
  BY <1>2, <1>3 DEF Measurement
<1> QED BY <1>2, <1>3, <1>8, <1>9, <1>10, <1>11 DEF InTouch, Exchanges

LEMMA StopFailedExchange ==
  ASSUME PowerTypeOK, InTouch, StopFailed, ~upset'
  PROVE  InTouch'
<1> USE DEF streamVars, daemonVars, collectorVars
<1>1. Refused("OP")
  BY DEF StopFailed
<1>2. pc = "OP" /\ Len(got) = 1 /\ got[1] = Stream[1] /\ got[1].kind # "OK"
  BY <1>1, ReceivedFirst DEF Refused
<1>3. got' = <<>> /\ pc' = "ready" /\ UNCHANGED <<up, toDaemon, toClient, inFlight, measuring>>
  BY DEF StopFailed
<1>4. up /\ ~Unanswered("OP") /\ ~Says(1, "OK")
  BY <1>2, StreamParts DEF InTouch, Unanswered, Says
<1>5. measuring = 0 /\ Answer("ER")
  BY <1>2, <1>4 DEF InTouch, Exchanges
<1>6. Silence'
  BY <1>2, <1>3, <1>5, AllTaken DEF Answer
<1> QED BY <1>3, <1>4, <1>5, <1>6 DEF InTouch, Exchanges

LEMMA DecodeExchange ==
  ASSUME PowerTypeOK, InTouch, Decode
  PROVE  InTouch'
<1> USE DEF streamVars, daemonVars, collectorVars
<1>1. pc = "data" /\ Len(got) = rows
  BY DEF Decode, Received, At, Wanted
<1>2. got' = <<>> /\ pc' = "ready" /\ UNCHANGED <<up, toDaemon, toClient, inFlight, measuring>>
  BY DEF Decode
<1>3. measuring = 0 /\ toDaemon = <<>> /\ Len(Stream) = rows /\ up
  BY <1>1 DEF InTouch, Exchanges
<1>4. Silence'
  BY <1>1, <1>2, <1>3, AllTaken
<1> QED BY <1>2, <1>3, <1>4 DEF InTouch, Exchanges

LEMMA ConnectExchange ==
  ASSUME PowerTypeOK, Always, Connect
  PROVE  InTouch'
<1>1. /\ pc = "off" /\ session = 0 /\ up' = TRUE
      /\ toDaemon' = <<[cmd |-> "H2", session |-> 0]>> /\ pc' = "H2" /\ got' = <<>>
      /\ UNCHANGED <<inFlight, toClient, measuring, session>>
  BY DEF Connect, At, daemonVars
<1>2. inFlight = <<>> /\ toClient = <<>> /\ measuring = 0
  BY <1>1 DEF Always
<1>3. Stream' = <<>>
  BY <1>1, <1>2 DEF Stream
<1>4. Unanswered("H2")'
  BY <1>1, <1>3 DEF Unanswered
<1> QED BY <1>1, <1>2, <1>4 DEF InTouch, Exchanges

\* Every step that is nobody's mistake keeps the two sides in touch.
LEMMA InTouchStep == PowerInv /\ [Next]_vars /\ ~upset' => InTouch'
<1> SUFFICES ASSUME PowerInv, [Next]_vars, ~upset' PROVE InTouch'
  OBVIOUS
<1> USE DEF streamVars, daemonVars, collectorVars, waitVars
<1>0. PowerTypeOK /\ Always /\ (~upset => InTouch)
  BY DEF PowerInv
<1>1. CASE Connect
  BY <1>0, <1>1, ConnectExchange
<1>2. CASE ~Connect
  <2>0. InTouch
    BY <1>0, <1>2, UpsetStays
  <2>1. CASE Serve
    <3>1. UNCHANGED <<up, pc>>
      BY <2>1 DEF Serve
    <3>2. CASE pc = "deleted"
      BY <3>1, <3>2 DEF InTouch, Exchanges
    <3>3. CASE pc # "deleted"
      BY <1>0, <2>0, <2>1, <3>1, <3>3, ServeExchange DEF InTouch
    <3> QED BY <3>2, <3>3
  <2>2. CASE Error
    <3>1. UNCHANGED <<up, pc>>
      BY <2>2 DEF Error
    <3>2. CASE pc = "deleted"
      BY <3>1, <3>2 DEF InTouch, Exchanges
    <3>3. CASE pc # "deleted"
      BY <1>0, <2>0, <2>2, <3>1, <3>3, ErrorExchange DEF InTouch
    <3> QED BY <3>2, <3>3
  <2>3. CASE Deliver \/ ReceiveUnit
    <3>1. UNCHANGED <<up, toDaemon, measuring, session, pc, mCollecting, rows>>
      BY <2>3 DEF Deliver, ReceiveUnit
    <3>2. Stream' = Stream
      BY <1>0, <2>3, StreamKept
    <3>3. Exchanges'
      BY <2>0, <3>1, <3>2, SameExchange DEF InTouch
    <3> QED BY <2>0, <3>1, <3>3 DEF InTouch
  <2>4. CASE Close \/ TooMuch
    BY <2>4 DEF Close, TooMuch
  <2>5. CASE HandshakeFailed \/ deinit
    <3>1. pc' \in {"off", "deleted"}
      BY <2>5 DEF HandshakeFailed, deinit
    <3> QED BY <3>1 DEF InTouch, Exchanges
  <2>6. CASE Handshake \/ start \/ Configured \/ Started \/ StartFailed
    BY <1>0, <2>0, <2>6, HandshakeExchange, StartExchange, ConfiguredExchange, StartedExchange,
       StartFailedExchange
  <2>7. CASE Drain \/ SendStop \/ Drained \/ AwaitLength \/ AwaitData \/ StopFailed \/ Decode
    BY <1>0, <2>0, <2>7, DrainExchange, SendStopExchange, DrainedExchange, AwaitLengthExchange,
       AwaitDataExchange, StopFailedExchange, DecodeExchange
  <2>8. CASE UNCHANGED vars
    <3>1. /\ Stream' = Stream
          /\ UNCHANGED <<up, toDaemon, measuring, session, pc, mCollecting, rows>>
      BY <2>8 DEF vars, Stream
    <3>2. Exchanges'
      BY <2>0, <3>1, SameExchange DEF InTouch
    <3> QED BY <2>0, <3>1, <3>2 DEF InTouch
  <2> QED BY <1>2, <2>1, <2>2, <2>3, <2>4, <2>5, <2>6, <2>7, <2>8 DEF Next, Daemon, Call, Client
<1> QED BY <1>1, <1>2

\* What the invariant says of a moment when the two sides are in step.
LEMMA InvInStep == PowerInv => InStep
<1> SUFFICES ASSUME PowerInv, ~upset PROVE
       /\ At("ready") => toDaemon = <<>> /\ inFlight = <<>> /\ toClient = <<>>
       /\ mCollecting => \/ measuring = session
                         \/ \E u \in ToSet(inFlight \o toClient) : u.kind = "ER" /\ u.session = session
       /\ \A i \in DOMAIN results :
            /\ results[i].of \subseteq {results[i].session}
            /\ numRails > 0 => SumSeq(results[i].samples) <= results[i].rows
  BY DEF InStep
<1>0. PowerTypeOK /\ Always /\ Recorded /\ Exchanges
  BY DEF PowerInv, InTouch
<1>1. ASSUME At("ready") PROVE toDaemon = <<>> /\ inFlight = <<>> /\ toClient = <<>>
  <2>1. toDaemon = <<>> /\ Stream = <<>>
    BY <1>0, <1>1 DEF At, Exchanges, Silence
  <2>2. Len(toClient) = 0 /\ Len(inFlight) = 0
    <3>1. Len(Stream) = 0
      BY <2>1
    <3>2. /\ Len(Stream) = Len(got) + (Len(toClient) + Len(inFlight))
          /\ Len(got) \in Nat /\ Len(toClient) \in Nat /\ Len(inFlight) \in Nat
      BY <1>0, StreamParts
    <3>3. ASSUME NEW a \in Nat, NEW b \in Nat, NEW c \in Nat, a + (b + c) = 0
          PROVE  b = 0 /\ c = 0
      BY <3>3
    <3> QED BY <3>1, <3>2, <3>3
  <2> QED BY <1>0, <2>1, <2>2 DEF PowerTypeOK
<1>2. ASSUME mCollecting, measuring # session
      PROVE  \E u \in ToSet(inFlight \o toClient) : u.kind = "ER" /\ u.session = session
  <2>1. got = <<>> /\ Answer("ER")
    BY <1>0, <1>2 DEF Always, Exchanges
  <2>2. /\ toClient \in Seq(Units) /\ inFlight \in Seq(Units)
        /\ Len(toClient) \in Nat /\ Len(inFlight) \in Nat
    BY <1>0 DEF PowerTypeOK
  <2>3. Stream = toClient \o inFlight
    <3>1. toClient \o inFlight \in Seq(Units)
      BY <2>2
    <3> QED BY <2>1, <3>1 DEF Stream
  <2>4. Len(toClient) + Len(inFlight) = 1 /\ Stream[1].kind = "ER" /\ Stream[1].session = session
    BY <2>1, <2>2, <2>3 DEF Answer, Says
  <2>5. CASE Len(toClient) = 1
    <3>0. Len(inFlight) = 0
      BY <2>2, <2>4, <2>5
    <3>1. inFlight = <<>> /\ Stream[1] = toClient[1]
      <4>1. inFlight = <<>>
        BY <2>2, <3>0
      <4>2. toClient \o <<>> = toClient
        BY <2>2
      <4> QED BY <2>3, <4>1, <4>2
    <3>2. inFlight \o toClient = toClient
      BY <2>2, <3>1
    <3>3. toClient[1] \in ToSet(inFlight \o toClient)
      BY <2>2, <2>5, <3>2 DEF ToSet
    <3> QED BY <2>4, <3>1, <3>3
  <2>6. CASE Len(toClient) = 0
    <3>0. Len(inFlight) = 1
      BY <2>2, <2>4, <2>6
    <3>1. toClient = <<>> /\ Stream[1] = inFlight[1] /\ Len(inFlight) = 1
      <4>1. toClient = <<>>
        BY <2>2, <2>6
      <4>2. <<>> \o inFlight = inFlight
        BY <2>2
      <4> QED BY <2>3, <3>0, <4>1, <4>2
    <3>2. inFlight \o toClient = inFlight
      BY <2>2, <3>1
    <3>3. inFlight[1] \in ToSet(inFlight \o toClient)
      BY <2>2, <3>1, <3>2 DEF ToSet
    <3> QED BY <2>4, <3>1, <3>3
  <2>7. ASSUME NEW a \in Nat, NEW b \in Nat, a + b = 1 PROVE a = 0 \/ a = 1
    BY <2>7
  <2> QED BY <2>2, <2>4, <2>5, <2>6, <2>7
<1> QED BY <1>0, <1>1, <1>2 DEF Recorded

\* For every number of rails, rows, sessions and error reports, and every table of frame
\* times: as long as nothing came too late, crossed OP, was too large or went away, the
\* collector of power.cpp:189-408 and its daemon agree on what was asked and answered, and
\* a session records its own rows, none twice.
THEOREM InStepHolds == Spec => []InStep
<1>1. Init => PowerInv
  <2> SUFFICES ASSUME Init PROVE PowerInv
    OBVIOUS
  <2>1. PowerTypeOK
    BY PowerAssumption DEF Init, PowerTypeOK
  <2>2. Always /\ Recorded
    BY DEF Init, Always, Recorded
  <2>3. InTouch
    BY DEF Init, InTouch, Exchanges
  <2> QED BY <2>1, <2>2, <2>3 DEF PowerInv
<1>2. PowerInv /\ [Next]_vars => PowerInv'
  <2> SUFFICES ASSUME PowerInv, [Next]_vars PROVE PowerInv'
    OBVIOUS
  <2>1. PowerTypeOK /\ Always
    BY DEF PowerInv
  <2>2. PowerTypeOK'
    <3>1. CASE Next
      BY <2>1, <3>1, DaemonType, CollectorType DEF Next
    <3>2. CASE UNCHANGED vars
      BY <2>1, <3>2 DEF vars, PowerTypeOK, streamVars, daemonVars, collectorVars, waitVars
    <3> QED BY <3>1, <3>2
  <2>3. Always'
    BY <2>1, AlwaysStep
  <2> QED BY <2>2, <2>3, RecordedStep, InTouchStep DEF PowerInv
<1> QED BY <1>1, <1>2, InvInStep, PTL DEF Spec
===============================================================================
