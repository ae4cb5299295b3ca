----------------------------- MODULE MaliCounters -----------------------------
(***************************************************************************)
(* The Mali counter collector (collectors/mali_counters.cpp) on top of its *)
(* reader.  init() makes a list of all counters that have a name, start()  *)
(* waits for one sample, and collect() records every counter of the sample *)
(* the reader holds.                                                       *)
(*                                                                         *)
(* A recorded value is the sample, block, core and index it was read from. *)
(* Names are compared by Within, which has <<a, b>> if strstr finds a in b.*)
(***************************************************************************)
EXTENDS MaliReader, FiniteSetsExt

CONSTANTS
  CounterNames,   \* the names of a product, a sequence for every block; "" is a hole
  Within,         \* the pairs of different names of which the second contains the first
  MaxInits,       \* bound: number of init() calls
  MaxStarts,      \* bound: number of start() calls
  MaxRecorded     \* bound: number of frames in a session

VARIABLES
  \* the counters collect() looks up, and what it recorded
  header, recorded,
  phase, exited,
  \* history: numbers of init(), start() and collect() calls, the sample before start(),
  \* and whether start() succeeded
  inits, starts, frames, before, startOk

historyVars == <<inits, starts, frames, before, startOk>>
vars == <<readerVars, header, recorded, phase, exited, historyVars>>

Init ==
  /\ InitReader
  /\ header = <<>> /\ recorded = <<>> /\ phase = "off" /\ exited = FALSE
  /\ inits = 0 /\ starts = 0 /\ frames = 0 /\ before = 0 /\ startOk = FALSE

At(where) == phase = where /\ ~exited

\* The constructor, and the kernel.
Below ==
  /\ ~exited
  /\ get_mali_hw_info \/ Try \/ Dump
  /\ UNCHANGED <<header, recorded, phase, exited, historyVars>>

-------------------------------------------------------------------------------
(* Where a counter is.                                                         *)

HasName(name) == name # ""

\* strstr: the first name of the block that contains the one asked for.
find_counter_index_by_name(block, name) ==
  LET names == CounterNames[block]
  IN  Min({i \in DOMAIN names : names[i] = name \/ <<name, names[i]>> \in Within})

\* Virtual cores are numbered in the order of their bits.
remap_core_index_identity(core) == core
remap_core_index(core) ==
  CHOOSE p \in core_mask : Cardinality({q \in core_mask : q < p}) = core

\* The block of the payload that get_counters leads to.
get_counters(block, core) ==
  IF hw_ver < 5
  THEN CASE block = "JM" -> 6 [] block = "MMU" -> 5 [] block = "TILER" -> 4
         [] block = "SHADER" -> remap_core_index(core)
  ELSE CASE block = "JM" -> 0 [] block = "MMU" -> 2 [] block = "TILER" -> 1
         [] block = "SHADER" -> 3 + remap_core_index(core)

\* What the device puts there: its blocks and those of its cores, whose numbers may have
\* holes.  Behind the last block there is no payload.
CoreBlock(p) == IF p \in present THEN <<"SHADER", p>> ELSE <<"hole", p>>
Payload ==
  IF hw_ver < 5
  THEN [place \in 0..6 |-> CASE place = 4 -> <<"TILER", -1>> [] place = 5 -> <<"MMU", -1>>
                             [] place = 6 -> <<"JM", -1>> [] OTHER -> CoreBlock(place)]
  ELSE [place \in 0..3 + Max(present) |->
          CASE place = 0 -> <<"JM", -1>> [] place = 1 -> <<"TILER", -1>>
            [] place = 2 -> <<"MMU", -1>> [] OTHER -> CoreBlock(place - 3)]

-------------------------------------------------------------------------------
(* MaliCounterCollector.                                                       *)

\* A counter is a block, a virtual core (-1: the block is no core's) and a name.  All entries
\* of a name are looked up alike, and their values go to one list, so that it makes no
\* difference in which order they are: header is a bag of counters.
build_block_vectors(block, core) ==
  {<<block, core, CounterNames[block][i]>> :
     i \in {j \in DOMAIN CounterNames[block] : HasName(CounterNames[block][j])}}

Entries(counter) ==
  Cardinality({i \in DOMAIN CounterNames[counter[1]] : CounterNames[counter[1]][i] = counter[3]})

Counters ==
  (UNION {build_block_vectors(block, -1) : block \in {"JM", "TILER", "MMU"}})
    \cup (UNION {build_block_vectors("SHADER", core) : core \in 0..Cardinality(core_mask) - 1})

\* The vectors grow by another copy when the Collection, having given all collectors up
\* for one that was required, is initialized again.
init_collector ==
  /\ At("off") \/ At("ready")
  /\ stage = "built" /\ valid /\ alive /\ inits < MaxInits
  /\ header' = [k \in Counters |-> Entries(k) + IF k \in DOMAIN header THEN header[k] ELSE 0]
  /\ inits' = inits + 1
  /\ phase' = "ready"
  /\ UNCHANGED <<readerVars, recorded, exited, starts, frames, before, startOk>>

\* Collection::start clears the lists.  The values start() itself looks up go nowhere.
start ==
  /\ At("ready") /\ starts < MaxStarts
  /\ recorded' = <<>> /\ frames' = 0
  /\ starts' = starts + 1 /\ before' = sample
  /\ phase' = "waiting"
  /\ UNCHANGED <<readerVars, header, exited, inits, startOk>>

Started ==
  /\ At("waiting")
  /\ TakeSample
  /\ startOk' = TRUE
  /\ phase' = "session"
  /\ UNCHANGED <<header, recorded, exited, inits, starts, frames, before>>

StartFailed ==
  /\ At("waiting")
  /\ LoseBuffer \/ NoSample
  /\ startOk' = FALSE
  /\ phase' = "session"
  /\ UNCHANGED <<header, recorded, exited, inits, starts, frames, before>>

\* What get_counters leads to.
Look(counter) ==
  LET place == get_counters(counter[1], counter[2])
  IN  [sample |-> sample, index |-> find_counter_index_by_name(counter[1], counter[3]),
       from |-> IF place \in DOMAIN Payload THEN Payload[place] ELSE <<"outside", place>>]

\* add() to the list of a counter, for every entry it has.
AddTo(lists) ==
  [k \in DOMAIN header |-> (IF k \in DOMAIN lists THEN lists[k] ELSE <<>>)
                              \o [n \in 1..header[k] |-> Look(k)]]

\* Collection::collect calls it whether or not start() succeeded.  If all counters are 0
\* the process exits; what is read outside the payload may be anything.
Silent == sample = 0 \/ sample \in quiet
collect ==
  /\ At("session") /\ frames < MaxRecorded
  /\ recorded' = AddTo(recorded)
  /\ frames' = frames + 1
  /\ \/ exited' = Silent
     \/ /\ Silent /\ exited' = FALSE
        /\ \E k \in DOMAIN header : Look(k).from[1] = "outside"
  /\ UNCHANGED <<readerVars, header, phase, inits, starts, before, startOk>>

stop ==
  /\ At("session")
  /\ phase' = "ready"
  /\ UNCHANGED <<readerVars, header, recorded, exited, historyVars>>

Destroy ==
  /\ At("off") \/ At("ready") \/ At("session")
  /\ Destruct
  /\ phase' = "deleted"
  /\ UNCHANGED <<header, recorded, exited, historyVars>>

Call == Started \/ StartFailed

Next == Below \/ init_collector \/ start \/ Call \/ collect \/ stop \/ Destroy

\* The kernel dumps as long as it has a buffer, and poll() notices; that the device fails
\* is not assumed.
Fairness == WF_vars(Below /\ Dump) /\ WF_vars(Started)

FairSpec == Init /\ [][Next]_vars /\ Fairness

-------------------------------------------------------------------------------
\* The bits of core_mask are those of the device, and all cores have a place: old devices
\* are read as if they had four (hwcpipe.cpp:244 "Not sure how this is supposed to work").
Recognized == core_mask = present /\ (hw_ver < 5 => present \subseteq 0..3)

\* The names that lead back to their own place: no other name of the block is the same or
\* contains it.
Plain(block, i) ==
  LET names == CounterNames[block]
  IN  HasName(names[i]) /\ \A j \in DOMAIN names \ {i} :
                          names[j] # names[i] /\ <<names[i], names[j]>> \notin Within

Cores(block) == IF block = "SHADER" THEN present ELSE {-1}
Virtual(core) == IF core = -1 THEN -1 ELSE Cardinality({p \in present : p < core})

\* On a device that was recognized, every counter with a plain name has one value per frame
\* and init() call, read at its own index of its own block and core, whatever cores are
\* missing.  All frames of a session hold the same sample, because only start() waits for
\* one: after a start() that succeeded it is one that no earlier session had, and a process
\* that collect() ends (mali_counters.cpp:174) ends in the first frame.
FramesHoldCounters ==
  (phase = "session" /\ Recognized /\ frames > 0) =>
     /\ startOk => sample > before
     /\ exited => frames = 1
     /\ \A block \in DOMAIN CounterNames : \A i \in DOMAIN CounterNames[block] :
          Plain(block, i) =>
             \A core \in Cores(block) :
                recorded[<<block, Virtual(core), CounterNames[block][i]>>]
                  = [n \in 1..frames * inits |->
                       [sample |-> sample, index |-> i, from |-> <<block, core>>]]

\* start() comes back while the kernel has a buffer left (poll() has no timeout): only
\* buffers that were lost can make it wait for ever.
StartReturns == [](phase = "waiting" /\ lost < buffer_count => <>(phase # "waiting"))
===============================================================================
