------------------------------- MODULE MCDevices ------------------------------
(* The two collectors that talk to something which may keep them waiting, one in *)
(* each behaviour: Power with its daemon, and MaliCounters with its device.      *)
(* They share nothing, so their state spaces add up.                             *)
EXTENDS Power, MaliReader

CONSTANTS CounterNames, Within, MaxInits, MaxStarts, MaxRecorded

VARIABLES
  kind,
  header, recorded, phase, exited, inits, starts, frames, before, startOk

Mali == INSTANCE MaliCounters

maliVars ==
  <<readerVars, header, recorded, phase, exited, inits, starts, frames, before, startOk>>
allVars == <<kind, vars, maliVars>>

\* A device has cores, a finite number of them, and a name for each of the counters of a block.
ASSUME MaliAssumption ==
  /\ \A cores \in CoreMasks : cores \subseteq Nat /\ IsFiniteSet(cores) /\ cores # {}
  /\ DOMAIN CounterNames = {"JM", "TILER", "MMU", "SHADER"}
  /\ \A block \in DOMAIN CounterNames : CounterNames[block] \in Seq(STRING)

MCTimings == {<<1, 2>>, <<2, 1, 3>>}

\* A product whose L2 names contain and repeat each other, as in hwc_names.hpp, and holes.
MCNames ==
  [JM |-> <<"active">>, TILER |-> <<"", "prims">>,
   MMU |-> <<"read_beats", "read", "full", "full", "hits">>, SHADER |-> <<"frag", "", "comp">>]
MCWithin == {<<"read", "read_beats">>}
MCCores == {{0}, {0, 2}, {1, 4}}
MCRemains == {{}, {3}}

\* The collector a behaviour is not about rests in one of its initial states.
MCInit ==
  /\ kind \in {"power", "mali"}
  /\ Init /\ Mali!Init
  /\ kind = "mali" => numRails = 0
  /\ kind = "power" => hw_ver = 5 /\ present = {0} /\ core_mask = {}

PowerStep(A) == kind = "power" /\ A /\ UNCHANGED <<kind, maliVars>>
MaliStep(A) == kind = "mali" /\ A /\ UNCHANGED <<kind, vars>>

MCNext == PowerStep(Next) \/ MaliStep(Mali!Next)

MCSpec ==
  /\ MCInit /\ [][MCNext]_allVars
  /\ WF_allVars(PowerStep(Call))
  /\ WF_allVars(MaliStep(Mali!Below /\ Mali!Dump)) /\ WF_allVars(MaliStep(Mali!Started))

-------------------------------------------------------------------------------
\* A frame holds the counters of its session's sample, each from its own place
\* (mali_counters.cpp:136): see MaliCounters.
FramesHoldCounters == Mali!FramesHoldCounters
\* No call waits for ever: those of the power collector in any case, start() of the Mali
\* collector (whose poll() has no timeout, hwcpipe.cpp:467) while the kernel has a buffer.
CallsComeBack == CallsReturn /\ Mali!StartReturns
===============================================================================
