----------------------------- MODULE VulkanLayer -----------------------------
(***************************************************************************)
(* The Vulkan layer (layer/vulkan_layer.cpp): every VkDevice gets a        *)
(* vkCollectorContext with a Collection of its own, which it starts, feeds *)
(* and stops by counting the frames of the device's queues.  Application   *)
(* threads call in concurrently; context_mutex protects the two maps and   *)
(* process_frame, not the work done on a context once it is unmapped.      *)
(*                                                                         *)
(* Contexts are named by their id.  Of the Collection only what the layer  *)
(* can run into is kept: whether it runs, and whether a threaded collector *)
(* is still in mRunning after stop(), whose thread a second stop() would   *)
(* join again (module Collection: JoinThrows).                             *)
(***************************************************************************)
EXTENDS Integers, FiniteSets, FiniteSetsExt

CONSTANTS
  Devices, Queues,      \* handles of the driver, reused after a device is gone
  Null,
  start_frame, end_frame, num_subframes_per_frame,
  Threaded,             \* the configuration has threaded collectors
  MaxContexts,          \* bound: devices ever created
  MaxTriggers           \* bound: frame triggers per device

ASSUME LayerAssumption ==
  /\ start_frame \in Nat /\ end_frame \in Nat /\ num_subframes_per_frame \in Nat \ {0}
  /\ Threaded \in BOOLEAN /\ MaxContexts \in Nat /\ MaxTriggers \in Nat
  /\ Null \notin Devices \cup Queues \cup Nat

Ids == 0..MaxContexts-1

VARIABLES
  device_to_context_map, queue_to_context_map, next_id,
  \* the contexts: counters, flags and Collection of each
  current_frame, current_subframe, frames_processed,
  collectors_started, collectors_finished, postprocessed,
  collection, keptThread,
  deleted,        \* contexts that were deleted
  \* application threads inside a call: contexts they have looked up
  retrieving,     \* vkGetDeviceQueue: <<device, context>>
  destroying,     \* vkDestroyDevice: <<device, context>>
  \* the driver (external): queues handed out, by device
  owner,
  \* history: result files written, frame triggers seen, per context
  files, triggers,
  outcome

mapVars == <<device_to_context_map, queue_to_context_map, next_id>>
frameVars == <<current_frame, current_subframe, frames_processed, collectors_started, triggers>>
runVars == <<collectors_finished, collection, keptThread, outcome>>
endVars == <<postprocessed, deleted, files>>
callVars == <<retrieving, destroying, owner>>
vars == <<mapVars, frameVars, runVars, endVars, callVars>>

TypeOK ==
  /\ device_to_context_map \in [Devices -> Ids \cup {Null}]
  /\ queue_to_context_map \in [Queues -> Ids \cup {Null}]
  /\ next_id \in 0..MaxContexts
  /\ current_frame \in [Ids -> Nat] /\ frames_processed \in [Ids -> Nat]
  /\ current_subframe \in [Ids -> 0..num_subframes_per_frame-1]
  /\ collectors_started \in [Ids -> BOOLEAN] /\ collectors_finished \in [Ids -> BOOLEAN]
  /\ postprocessed \in [Ids -> BOOLEAN]
  /\ collection \in [Ids -> {"none", "initialized", "running", "stopped"}]
  /\ keptThread \in [Ids -> BOOLEAN]
  /\ deleted \in SUBSET Ids
  /\ retrieving \in SUBSET (Devices \X Ids) /\ destroying \in SUBSET (Devices \X Ids)
  /\ owner \in [Queues -> Devices \cup {Null}]
  /\ files \in [Ids -> Nat] /\ triggers \in [Ids -> 0..MaxTriggers]
  /\ outcome \in {"ok", "system_error", "terminate"}

Init ==
  /\ device_to_context_map = [d \in Devices |-> Null]
  /\ queue_to_context_map = [q \in Queues |-> Null]
  /\ next_id = 0
  /\ current_frame = [c \in Ids |-> 0] /\ frames_processed = [c \in Ids |-> 0]
  /\ current_subframe = [c \in Ids |-> 0]
  /\ collectors_started = [c \in Ids |-> FALSE] /\ collectors_finished = [c \in Ids |-> FALSE]
  /\ postprocessed = [c \in Ids |-> FALSE]
  /\ collection = [c \in Ids |-> "none"] /\ keptThread = [c \in Ids |-> FALSE]
  /\ deleted = {}
  /\ retrieving = {} /\ destroying = {} /\ owner = [q \in Queues |-> Null]
  /\ files = [c \in Ids |-> 0] /\ triggers = [c \in Ids |-> 0]
  /\ outcome = "ok"

Live(d) == device_to_context_map[d] # Null

\* Devices being destroyed keep their handles until the driver destroys them.
Destroying(d) == \E c \in Ids : <<d, c>> \in destroying

-------------------------------------------------------------------------------
\* lc_vkCreateDevice, the constructor and initialize_collectors.  A required
\* collector that is not functional leaves an initialized Collection without
\* collectors: the result of initialize() is not looked at.
CreateDevice(d) ==
  /\ outcome = "ok" /\ ~Live(d) /\ ~Destroying(d) /\ next_id < MaxContexts
  /\ next_id' = next_id + 1
  /\ collection' = [collection EXCEPT ![next_id] = "initialized"]
  /\ device_to_context_map' = [device_to_context_map EXCEPT ![d] = next_id]
  /\ UNCHANGED <<queue_to_context_map, frameVars, collectors_finished, keptThread, outcome,
                 endVars, callVars>>

\* lc_vkGetDeviceQueue looks the context up, calls the driver without the lock,
\* then enters the queue it got.
GetDeviceQueueLookup(d) ==
  /\ outcome = "ok" /\ Live(d)
  /\ retrieving' = retrieving \cup {<<d, device_to_context_map[d]>>}
  /\ UNCHANGED <<mapVars, frameVars, runVars, endVars, destroying, owner>>

EnterOnce(q, c) == IF queue_to_context_map[q] = Null THEN c ELSE queue_to_context_map[q]
Enter(q, c) == c

GetDeviceQueueEnter(d, c, q) ==
  /\ outcome = "ok" /\ <<d, c>> \in retrieving /\ owner[q] \in {Null, d}
  /\ retrieving' = retrieving \ {<<d, c>>}
  /\ owner' = [owner EXCEPT ![q] = d]
  /\ queue_to_context_map' = [queue_to_context_map EXCEPT ![q] = Enter(q, c)]
  /\ UNCHANGED <<device_to_context_map, next_id, frameVars, runVars, endVars, destroying>>

-------------------------------------------------------------------------------
\* Collection::stop: a thread that was joined before cannot be joined again.
StopCollection(c) ==
  IF keptThread[c]
  THEN outcome' = "system_error" /\ UNCHANGED <<collection, keptThread, collectors_finished>>
  ELSE /\ collection' = [collection EXCEPT ![c] = "stopped"]
       /\ \E kept \in {FALSE, Threaded} :
            keptThread' = [keptThread EXCEPT ![c] = kept /\ collection[c] = "running"]
       /\ collectors_finished' = [collectors_finished EXCEPT ![c] = TRUE]
       /\ UNCHANGED outcome

\* vkCollectorContext::process_frame, from the function that counts frames:
\* the first frame after start_frame starts, the ones after end_frame stop,
\* those between are sampled.
FromFrame(frame) == frame >= start_frame
AfterStart(frame) == frame > start_frame
AfterEnd(frame) == frame > end_frame

CountFrame(c) ==
  LET frame == current_frame[c] + 1
      starts == AfterStart(frame) /\ ~collectors_started[c]
      stops == ~starts /\ AfterEnd(frame) /\ collectors_started[c]
      samples == ~starts /\ ~stops /\ collectors_started[c] /\ ~collectors_finished[c]
  IN  /\ current_frame' = [current_frame EXCEPT ![c] = frame]
      /\ current_subframe' = [current_subframe EXCEPT ![c] = 0]
      /\ collectors_started' = [collectors_started EXCEPT ![c] = @ \/ starts]
      /\ frames_processed' =
           [frames_processed EXCEPT ![c] = IF samples THEN @ + 1 ELSE @]
      /\ \/ starts /\ collection' = [collection EXCEPT ![c] = "running"]
            /\ UNCHANGED <<collectors_finished, keptThread, outcome>>
         \/ stops /\ StopCollection(c)
         \/ ~starts /\ ~stops /\ UNCHANGED runVars

LastSubframe(c) == current_subframe[c] + 1 >= num_subframes_per_frame

ProcessFrame(c) ==
  \/ /\ ~LastSubframe(c)
     /\ current_subframe' = [current_subframe EXCEPT ![c] = @ + 1]
     /\ UNCHANGED <<current_frame, frames_processed, collectors_started, runVars>>
  \/ /\ LastSubframe(c)
     /\ CountFrame(c)

\* lc_vkQueueSubmit or lc_vkQueuePresentKHR, on a queue the application has got
\* from a device it has not begun to destroy.
Trigger(q) ==
  LET c == queue_to_context_map[q]
  IN  /\ outcome = "ok" /\ owner[q] # Null /\ Live(owner[q])
      /\ triggers[c] < MaxTriggers
      /\ triggers' = [triggers EXCEPT ![c] = @ + 1]
      /\ ProcessFrame(c)
      /\ UNCHANGED <<mapVars, endVars, callVars>>

-------------------------------------------------------------------------------
\* lc_vkDestroyDevice takes the context out of the map; no call on the device
\* may be under way.
DestroyDevice(d) ==
  /\ outcome = "ok" /\ Live(d) /\ \A c \in Ids : <<d, c>> \notin retrieving
  /\ destroying' = destroying \cup {<<d, device_to_context_map[d]>>}
  /\ device_to_context_map' = [device_to_context_map EXCEPT ![d] = Null]
  /\ UNCHANGED <<queue_to_context_map, next_id, frameVars, runVars, endVars, retrieving, owner>>

MustNotStop(c) == FALSE
MustStop(c) == ~collectors_finished[c]

\* postprocess_results: stop the collectors if process_frame has not, write the
\* result file.  If it cannot be opened the destructor tries once more.
Postprocess(d, c) ==
  /\ outcome = "ok" /\ <<d, c>> \in destroying
  /\ collectors_started[c] /\ ~postprocessed[c] /\ c \notin deleted
  /\ IF MustStop(c) THEN StopCollection(c) ELSE UNCHANGED runVars
  /\ postprocessed' = [postprocessed EXCEPT ![c] = TRUE]
  /\ files' = [files EXCEPT ![c] = @ + 1]
  /\ UNCHANGED <<mapVars, frameVars, deleted, callVars>>

NeverPostprocessed(c) == ~postprocessed[c] /\ ~collectors_started[c]

\* The destructor, with what is left of postprocess_results when the file could
\* not be opened twice, and the driver's vkDestroyDevice.
DeleteContext(d, c) ==
  /\ outcome = "ok" /\ <<d, c>> \in destroying
  /\ \/ /\ postprocessed[c] \/ NeverPostprocessed(c)
        /\ outcome' = IF collection[c] = "running" /\ Threaded THEN "terminate" ELSE outcome
        /\ UNCHANGED <<collection, keptThread, collectors_finished>>
     \/ /\ ~postprocessed[c] /\ collectors_started[c]
        /\ IF MustStop(c) THEN StopCollection(c) ELSE UNCHANGED runVars
  /\ deleted' = deleted \cup {c}
  /\ destroying' = destroying \ {<<d, c>>}
  /\ owner' = [q \in Queues |-> IF owner[q] = d THEN Null ELSE owner[q]]
  /\ UNCHANGED <<mapVars, frameVars, postprocessed, files, retrieving>>

\* The application ends with the process.
Ended == outcome # "ok" /\ UNCHANGED vars

Next ==
  \/ \E d \in Devices :
       \/ CreateDevice(d) \/ GetDeviceQueueLookup(d) \/ DestroyDevice(d)
       \/ \E c \in Ids :
            \/ Postprocess(d, c) \/ DeleteContext(d, c)
            \/ \E q \in Queues : GetDeviceQueueEnter(d, c, q)
  \/ \E q \in Queues : Trigger(q)
  \/ Ended

Spec == Init /\ [][Next]_vars

-------------------------------------------------------------------------------
\* A queue of a device leads to the context of that device and not to one that
\* was deleted, although the map of queues is never cleaned and the driver uses
\* handles again: what process_frame gets is the context looked up last.
QueueHasItsContext ==
  \A q \in Queues : owner[q] # Null /\ Live(owner[q]) =>
     /\ queue_to_context_map[q] = device_to_context_map[owner[q]]
     /\ queue_to_context_map[q] \notin deleted

\* README.md:142-143 samples from start_frame on and stops at end_frame: end_frame -
\* start_frame frames, counted from 0.  The first of them starts the collectors and gets
\* no sample; whichever queues the triggers came from, and also while a stopped context
\* goes on counting, it is the only one without.
OnlyFirstFrameMissed ==
  \A c \in Ids :
    LET seen == triggers[c] \div num_subframes_per_frame
        documented == Max({0, Min({seen, end_frame}) - start_frame})
    IN  outcome = "ok" => frames_processed[c] = Max({0, documented - 1})

\* A context is deleted with its collectors stopped, so that no sampler outlives
\* them, and its result file is written once at most.
DeletedStopped ==
  /\ \A c \in deleted : collection[c] # "running" /\ files[c] <= 1
  /\ outcome # "terminate"

\* README.md:111, "Then run your app as normal": the layer does not end the
\* application's process.
AppRunsAsNormal == outcome = "ok"
===============================================================================
