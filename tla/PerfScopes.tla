------------------------------ MODULE PerfScopes ------------------------------
(***************************************************************************)
(* What the perf collector does with its data, without its threads: the    *)
(* vectors that hold one sum per function id, the totals over threads, and *)
(* the groups of events a configuration asks for.                          *)
(***************************************************************************)
EXTENDS Integers, Sequences

\* UINT16_MAX - 1, the largest size update_data_scope gives to a vector.
MAX_SCOPES == 65534

\* size after scope_values.resize(...) for function func_id, if it is resized.
GrownSize(size, func_id) ==
  IF size <= func_id
  THEN IF func_id * 2 + 1 < MAX_SCOPES THEN func_id * 2 + 1 ELSE MAX_SCOPES
  ELSE size

Grown(vector, func_id) ==
  [k \in 1..GrownSize(Len(vector), func_id) |-> IF k <= Len(vector) THEN vector[k] ELSE 0]

\* vector[func_id] += amount, after growing; C++ counts from 0.
AddAt(vector, func_id, amount) == [Grown(vector, func_id) EXCEPT ![func_id + 1] = @ + amount]

\* perf_thread::postprocess for one key: the thread's series is added to what the
\* JSON value holds already, and replaces it.
Accumulate(value, series) ==
  [k \in 1..Len(series) |-> series[k] + IF k <= Len(value) THEN value[k] ELSE 0]

-------------------------------------------------------------------------------
(* PerfCollector::PerfCollector: a configuration names a reserved set of counters *)
(* or is a set of items.  A booker_ci item stands for at least one node.           *)

\* An item the constructor does not skip: complete, with a counter length the PMU
\* has (asked in per-API mode only), and naming a device that exists if any.
Kept(config, item) ==
  /\ item.complete
  /\ config.perApi => item.lengthFits
  /\ item.device # "" => item.deviceExists

KeptItems(config) == {item \in config.event : Kept(config, item)}

\* The keys of mEvents, "single" standing for events without a device.
mEvents(config) ==
  IF config.set \in 0..3
  THEN {"single"}
  ELSE {IF item.device # "" THEN item.device ELSE "single" :
          item \in {i \in KeptItems(config) :
                      IF i.device # "" THEN ~i.cspmu ELSE ~i.booker_ci}}

mCSPMUEvents(config) ==
  IF config.set \in 0..3
  THEN {}
  ELSE {item.device : item \in {i \in KeptItems(config) : i.device # "" /\ i.cspmu}}

mBookerEvents(config) ==
  IF config.set \in 0..3
  THEN {}
  ELSE {item \in KeptItems(config) : item.device = "" /\ item.booker_ci}
===============================================================================
