----------------------------- MODULE VulkanProofs -----------------------------
(* Invariance proofs for the Vulkan layer, for every set of handles, every       *)
(* window of frames and every number of devices and frame triggers.              *)
EXTENDS VulkanLayer, TLAPS

USE DEF mapVars, frameVars, runVars, endVars, callVars

-------------------------------------------------------------------------------
(* The maps.  A context belongs to one device at a time: it is in the map, or    *)
(* being destroyed, or deleted, never two of these; a call that looked a device  *)
(* up still holds its context; a queue is owned by a device that is in one of    *)
(* the first two, and leads to its context in the first.                         *)

Context(d) == device_to_context_map[d]

LiveInv ==
  \A d \in Devices : Live(d) =>
     /\ Context(d) < next_id /\ Context(d) \notin deleted
     /\ \A e \in Devices : <<e, Context(d)>> \notin destroying
     /\ \A e \in Devices : Context(e) = Context(d) => e = d
     /\ \A c \in Ids : <<d, c>> \notin destroying

DestroyingInv ==
  \A d \in Devices : \A c \in Ids : <<d, c>> \in destroying =>
     /\ c < next_id /\ c \notin deleted
     /\ \A e \in Devices : <<e, c>> \in destroying => e = d

DeletedInv == \A c \in deleted : c < next_id

RetrievingInv ==
  \A d \in Devices : \A c \in Ids : <<d, c>> \in retrieving => Context(d) = c

OwnerInv ==
  \A q \in Queues : owner[q] # Null =>
     \/ Live(owner[q]) /\ queue_to_context_map[q] = Context(owner[q])
     \/ ~Live(owner[q]) /\ Destroying(owner[q])

MapInv == LiveInv /\ DestroyingInv /\ DeletedInv /\ RetrievingInv /\ OwnerInv

\* Null is no context.
LEMMA NullNoContext ==
  ASSUME TypeOK, NEW d \in Devices
  PROVE  Live(d) <=> Context(d) \in Ids
BY LayerAssumption DEF TypeOK, Live, Context, Ids

\* What StopCollection may do to the types.
LEMMA StopType ==
  ASSUME TypeOK, NEW c \in Ids, StopCollection(c)
  PROVE  /\ collection' \in [Ids -> {"none", "initialized", "running", "stopped"}]
         /\ keptThread' \in [Ids -> BOOLEAN]
         /\ collectors_finished' \in [Ids -> BOOLEAN]
         /\ outcome' \in {"ok", "system_error", "terminate"}
BY LayerAssumption DEF StopCollection, TypeOK

\* The types hold and the maps agree: frame triggers only ever reach contexts that exist.
LEMMA MapInvariant == Spec => [](TypeOK /\ MapInv)
<1>1. Init => TypeOK /\ MapInv
  BY LayerAssumption DEF Init, TypeOK, Ids, MapInv, LiveInv, DestroyingInv, DeletedInv,
     RetrievingInv, OwnerInv, Live, Context
<1>2. TypeOK /\ MapInv /\ [Next]_vars => TypeOK' /\ MapInv'
  <2> SUFFICES ASSUME TypeOK, MapInv, [Next]_vars PROVE TypeOK' /\ MapInv'
    OBVIOUS
  <2> USE LayerAssumption
  <2>1. ASSUME NEW d \in Devices, CreateDevice(d) PROVE TypeOK' /\ MapInv'
    <3>1. next_id \in Ids /\ next_id' = next_id + 1
      BY <2>1 DEF CreateDevice, TypeOK, Ids
    <3>2. TypeOK'
      BY <2>1, <3>1 DEF CreateDevice, TypeOK
    <3>3. /\ \A e \in Devices : Context(e)' = IF e = d THEN next_id ELSE Context(e)
          /\ \A e \in Devices : Live(e)' <=> e = d \/ Live(e)
          /\ ~Live(d) /\ \A c \in Ids : <<d, c>> \notin destroying
      <4>1. next_id # Null
        BY <3>1 DEF Ids
      <4> QED BY <2>1, <4>1 DEF CreateDevice, TypeOK, Context, Live, Destroying
    <3>4. /\ \A e \in Devices : (Live(e) => Context(e) \in Ids) /\ Context(e) # next_id
          /\ \A e \in Devices : <<e, next_id>> \notin destroying
          /\ next_id \notin deleted
      <4>1. next_id \in Nat /\ deleted \in SUBSET Ids
        BY DEF TypeOK
      <4>2. \A e \in Devices : Live(e) => Context(e) \in Ids
        BY NullNoContext
      <4>3. \A e \in Devices : ~Live(e) => Context(e) # next_id
        BY <4>1 DEF Live, Context
      <4> QED BY <3>1, <4>1, <4>2, <4>3 DEF MapInv, LiveInv, DestroyingInv, DeletedInv, Ids
    <3>5. \A q \in Queues : owner[q] # d
      BY <3>3 DEF MapInv, OwnerInv, Destroying
    <3>6. UNCHANGED <<queue_to_context_map, retrieving, destroying, owner, deleted>>
      BY <2>1 DEF CreateDevice
    <3>7. \A c \in Ids : <<d, c>> \notin retrieving
      BY <3>3, NullNoContext DEF MapInv, RetrievingInv, TypeOK
    <3>8. LiveInv'
      <4> SUFFICES ASSUME NEW e \in Devices, Live(e)' PROVE LiveInv!(e)!2'
        BY DEF LiveInv
      <4>1. CASE e = d
        BY <3>1, <3>3, <3>4, <3>6, <4>1 DEF Ids
      <4>2. CASE e # d
        <5>1. Live(e) /\ Context(e)' = Context(e) /\ Context(e) \in Ids /\ Context(e) # next_id
          BY <3>3, <3>4, <4>2
        <5>2. LiveInv!(e)!2 /\ next_id \in Nat
          BY <5>1 DEF MapInv, LiveInv, TypeOK
        <5> QED BY <3>1, <3>3, <3>6, <4>2, <5>1, <5>2 DEF Ids
      <4> QED BY <4>1, <4>2
    <3>9. DestroyingInv' /\ DeletedInv'
      BY <3>1, <3>6 DEF MapInv, DestroyingInv, DeletedInv, TypeOK, Ids
    <3>10. RetrievingInv'
      BY <3>3, <3>6, <3>7 DEF MapInv, RetrievingInv
    <3>11. OwnerInv'
      BY <3>3, <3>5, <3>6 DEF MapInv, OwnerInv, TypeOK, Destroying
    <3> QED BY <3>2, <3>8, <3>9, <3>10, <3>11 DEF MapInv
  <2>2. ASSUME NEW d \in Devices, GetDeviceQueueLookup(d) PROVE TypeOK' /\ MapInv'
    <3>1. Context(d) \in Ids
      BY <2>2, NullNoContext DEF GetDeviceQueueLookup
    <3>2. TypeOK'
      BY <2>2, <3>1 DEF GetDeviceQueueLookup, TypeOK, Context
    <3>3. UNCHANGED <<mapVars, destroying, owner, deleted>>
      BY <2>2 DEF GetDeviceQueueLookup
    <3>4. \A e \in Devices : \A c \in Ids :
            <<e, c>> \in retrieving' => <<e, c>> \in retrieving \/ (e = d /\ c = Context(d))
      <4>1. retrieving' = retrieving \cup {<<d, Context(d)>>}
        BY <2>2 DEF GetDeviceQueueLookup, Context
      <4> QED BY <4>1
    <3>5. RetrievingInv'
      BY <3>3, <3>4 DEF MapInv, RetrievingInv, Context
    <3> QED BY <3>2, <3>3, <3>5
            DEF MapInv, LiveInv, DestroyingInv, DeletedInv, OwnerInv, Context, Live, Destroying
  <2>3. ASSUME NEW d \in Devices, DestroyDevice(d) PROVE TypeOK' /\ MapInv'
    <3>1. Live(d) /\ Context(d) \in Ids /\ \A c \in Ids : <<d, c>> \notin retrieving
      BY <2>3, NullNoContext DEF DestroyDevice
    <3>2. TypeOK'
      BY <2>3, <3>1 DEF DestroyDevice, TypeOK, Context
    <3>3. UNCHANGED <<queue_to_context_map, next_id, retrieving, owner, deleted>>
      BY <2>3 DEF DestroyDevice
    <3>4. /\ \A e \in Devices : Context(e)' = IF e = d THEN Null ELSE Context(e)
          /\ \A e \in Devices : Live(e)' <=> e # d /\ Live(e)
      BY <2>3 DEF DestroyDevice, Context, Live, TypeOK
    <3>5. \A e \in Devices : \A c \in Ids :
            <<e, c>> \in destroying' <=> <<e, c>> \in destroying \/ (e = d /\ c = Context(d))
      <4>1. destroying' = destroying \cup {<<d, Context(d)>>}
        BY <2>3 DEF DestroyDevice, Context
      <4> QED BY <4>1
    <3>6. \A e \in Devices : Destroying(e)' <=> Destroying(e) \/ e = d
      BY <3>1, <3>5 DEF Destroying
    <3>7. /\ Context(d) < next_id /\ Context(d) \notin deleted
          /\ \A e \in Devices : <<e, Context(d)>> \notin destroying
          /\ \A c \in Ids : <<d, c>> \notin destroying
          /\ \A e \in Devices : e # d => Context(e) # Context(d)
      BY <3>1 DEF MapInv, LiveInv
    <3>8. LiveInv'
      <4> SUFFICES ASSUME NEW e \in Devices, Live(e)' PROVE LiveInv!(e)!2'
        BY DEF LiveInv
      <4>1. e # d /\ Live(e) /\ Context(e)' = Context(e) /\ Context(e) \in Ids
        BY <3>4, NullNoContext
      <4>2. Context(e) # Context(d) /\ Context(e) # Null
        BY <3>7, <4>1 DEF Live, Context
      <4> QED BY <3>3, <3>4, <3>5, <4>1, <4>2 DEF MapInv, LiveInv
    <3>9. DestroyingInv'
      BY <3>1, <3>3, <3>5, <3>7 DEF MapInv, DestroyingInv
    <3>10. DeletedInv' /\ RetrievingInv'
      BY <3>1, <3>3, <3>4 DEF MapInv, DeletedInv, RetrievingInv
    <3>11. OwnerInv'
      BY <3>3, <3>4, <3>6 DEF MapInv, OwnerInv, TypeOK
    <3> QED BY <3>2, <3>8, <3>9, <3>10, <3>11 DEF MapInv
  <2>4. ASSUME NEW d \in Devices, NEW c \in Ids, Postprocess(d, c) PROVE TypeOK' /\ MapInv'
    <3>1. UNCHANGED <<mapVars, callVars, deleted>>
      BY <2>4 DEF Postprocess
    <3>2. TypeOK'
      <4>1. CASE MustStop(c)
        BY <2>4, <4>1, StopType DEF Postprocess, TypeOK
      <4>2. CASE ~MustStop(c)
        BY <2>4, <4>2 DEF Postprocess, TypeOK
      <4> QED BY <4>1, <4>2
    <3> QED BY <3>1, <3>2 DEF MapInv, LiveInv, DestroyingInv, DeletedInv, RetrievingInv,
                              OwnerInv, Context, Live, Destroying
  <2>5. ASSUME NEW d \in Devices, NEW c \in Ids, DeleteContext(d, c) PROVE TypeOK' /\ MapInv'
    <3>1. /\ collection' \in [Ids -> {"none", "initialized", "running", "stopped"}]
          /\ keptThread' \in [Ids -> BOOLEAN]
          /\ collectors_finished' \in [Ids -> BOOLEAN]
          /\ outcome' \in {"ok", "system_error", "terminate"}
      BY <2>5, StopType DEF DeleteContext, TypeOK
    <3>2. TypeOK'
      BY <2>5, <3>1 DEF DeleteContext, TypeOK
    <3>3. /\ deleted' = deleted \cup {c} /\ <<d, c>> \in destroying
          /\ UNCHANGED <<mapVars, retrieving>>
      BY <2>5 DEF DeleteContext
    <3>4. \A e \in Devices : \A k \in Ids :
            <<e, k>> \in destroying' <=> <<e, k>> \in destroying /\ ~(e = d /\ k = c)
      BY <2>5 DEF DeleteContext
    <3>5. \A q \in Queues : owner'[q] = IF owner[q] = d THEN Null ELSE owner[q]
      BY <2>5 DEF DeleteContext
    <3>6. /\ c < next_id /\ c \notin deleted /\ ~Live(d)
          /\ \A e \in Devices : <<e, c>> \in destroying => e = d
          /\ \A e \in Devices : Live(e) => Context(e) # c
      BY <3>3, NullNoContext DEF MapInv, LiveInv, DestroyingInv
    <3>7. \A e \in Devices : e # d /\ Destroying(e) => Destroying(e)'
      BY <3>4 DEF Destroying
    <3>8. \A q \in Queues : owner'[q] # Null => owner[q] = owner'[q] /\ owner[q] # d
      BY <3>5
    <3>9. \A q \in Queues : owner'[q] # Null =>
             \/ Live(owner[q]) /\ queue_to_context_map[q] = Context(owner[q])
             \/ ~Live(owner[q]) /\ \E k \in Ids : <<owner[q], k>> \in destroying'
      <4> SUFFICES ASSUME NEW q \in Queues, owner'[q] # Null PROVE <3>9!(q)!2
        OBVIOUS
      <4>1. owner[q] # d /\ owner[q] # Null /\ owner[q] \in Devices
        BY <3>8 DEF TypeOK
      <4>2. CASE Live(owner[q])
        BY <4>1, <4>2 DEF MapInv, OwnerInv
      <4>3. CASE ~Live(owner[q])
        <5>1. PICK k \in Ids : <<owner[q], k>> \in destroying
          BY <4>1, <4>3 DEF MapInv, OwnerInv, Destroying
        <5> QED BY <3>4, <4>1, <4>3, <5>1
      <4> QED BY <4>2, <4>3
    <3>10. OwnerInv' /\ RetrievingInv'
      BY <3>3, <3>8, <3>9 DEF MapInv, OwnerInv, RetrievingInv, Context, Live, Destroying
    <3>11. LiveInv'
      BY <3>3, <3>4, <3>6, NullNoContext DEF MapInv, LiveInv, Context, Live
    <3>12. DestroyingInv' /\ DeletedInv'
      BY <3>3, <3>4, <3>6 DEF MapInv, DestroyingInv, DeletedInv
    <3> QED BY <3>2, <3>10, <3>11, <3>12 DEF MapInv
  <2>6. ASSUME NEW d \in Devices, NEW c \in Ids, NEW q \in Queues, GetDeviceQueueEnter(d, c, q)
        PROVE  TypeOK' /\ MapInv'
    <3>1. TypeOK'
      BY <2>6 DEF GetDeviceQueueEnter, Enter, TypeOK
    <3>2. UNCHANGED <<device_to_context_map, next_id, destroying, deleted>>
      BY <2>6 DEF GetDeviceQueueEnter
    <3>3. \A e \in Devices : \A k \in Ids : <<e, k>> \in retrieving' => <<e, k>> \in retrieving
      BY <2>6 DEF GetDeviceQueueEnter
    <3>4. Context(d) = c /\ Live(d)
      BY <2>6, NullNoContext DEF GetDeviceQueueEnter, MapInv, RetrievingInv
    <3>5. /\ owner'[q] = d /\ queue_to_context_map'[q] = c
          /\ \A p \in Queues : p # q => /\ owner'[p] = owner[p]
                                        /\ queue_to_context_map'[p] = queue_to_context_map[p]
      BY <2>6 DEF GetDeviceQueueEnter, Enter, TypeOK
    <3>6. OwnerInv' /\ RetrievingInv'
      BY <3>2, <3>3, <3>4, <3>5 DEF MapInv, OwnerInv, RetrievingInv, Context, Live, Destroying
    <3> QED BY <3>1, <3>2, <3>6
            DEF MapInv, LiveInv, DestroyingInv, DeletedInv, Context, Live
  <2>7. ASSUME NEW q \in Queues, Trigger(q) PROVE TypeOK' /\ MapInv'
    <3> DEFINE c == queue_to_context_map[q]
    <3>1. c \in Ids
      BY <2>7, NullNoContext DEF Trigger, MapInv, OwnerInv, TypeOK
    <3>2. UNCHANGED <<mapVars, callVars, deleted>>
      BY <2>7 DEF Trigger
    <3>3. TypeOK'
      <4>1. CASE ~LastSubframe(c)
        BY <2>7, <3>1, <4>1 DEF Trigger, ProcessFrame, LastSubframe, TypeOK
      <4>2. CASE LastSubframe(c)
        <5>1. CountFrame(c) /\ triggers' = [triggers EXCEPT ![c] = @ + 1] /\ triggers[c] < MaxTriggers
              /\ UNCHANGED <<mapVars, endVars, callVars>>
          BY <2>7, <4>2 DEF Trigger, ProcessFrame
        <5>2. /\ current_frame' \in [Ids -> Nat] /\ frames_processed' \in [Ids -> Nat]
              /\ current_subframe' \in [Ids -> 0..num_subframes_per_frame-1]
              /\ collectors_started' \in [Ids -> BOOLEAN]
          BY <3>1, <5>1 DEF CountFrame, TypeOK
        <5>3. /\ collection' \in [Ids -> {"none", "initialized", "running", "stopped"}]
              /\ keptThread' \in [Ids -> BOOLEAN]
              /\ collectors_finished' \in [Ids -> BOOLEAN]
              /\ outcome' \in {"ok", "system_error", "terminate"}
          BY <3>1, <5>1, StopType DEF CountFrame, TypeOK
        <5>4. triggers' \in [Ids -> 0..MaxTriggers]
          BY <3>1, <5>1 DEF TypeOK
        <5> QED BY <5>1, <5>2, <5>3, <5>4 DEF TypeOK
      <4> QED BY <4>1, <4>2
    <3> QED BY <3>2, <3>3 DEF MapInv, LiveInv, DestroyingInv, DeletedInv, RetrievingInv,
                              OwnerInv, Context, Live, Destroying
  <2>8. CASE UNCHANGED vars
    BY <2>8 DEF vars, TypeOK, MapInv, LiveInv, DestroyingInv, DeletedInv, RetrievingInv,
                   OwnerInv, Context, Live, Destroying
  <2> QED BY <2>1, <2>2, <2>3, <2>4, <2>5, <2>6, <2>7, <2>8 DEF Next, Ended
<1> QED BY <1>1, <1>2, PTL DEF Spec

\* The queue map is never cleaned and the driver uses handles again, but what a frame
\* trigger finds is the context of the queue's device (vulkan_layer.cpp: lc_vkGetDeviceQueue).
THEOREM QueueHasItsContextHolds == Spec => []QueueHasItsContext
<1>1. TypeOK /\ MapInv => QueueHasItsContext
  BY LayerAssumption DEF TypeOK, MapInv, LiveInv, OwnerInv, QueueHasItsContext, Context
<1> QED BY <1>1, MapInvariant, PTL

-------------------------------------------------------------------------------
(* The frames of a context.  It is counted out of the triggers; the collectors   *)
(* have started once it is past start_frame, and unless the device is being      *)
(* destroyed they have finished once it is past end_frame and past the frame     *)
(* that started them.                                                            *)

LastSampled(frame) == IF frame < end_frame THEN frame ELSE end_frame
Sampled(frame) ==
  IF LastSampled(frame) > start_frame + 1 THEN LastSampled(frame) - (start_frame + 1) ELSE 0

InUse(c) == c \notin deleted /\ \A d \in Devices : <<d, c>> \notin destroying
Past(frame) == frame > end_frame /\ frame > start_frame + 1

FrameInv ==
  \A c \in Ids :
    /\ triggers[c] = current_frame[c] * num_subframes_per_frame + current_subframe[c]
    /\ frames_processed[c] = Sampled(current_frame[c])
    /\ collectors_started[c] <=> current_frame[c] > start_frame
    /\ outcome = "ok" /\ InUse(c) => (collectors_finished[c] <=> Past(current_frame[c]))

\* A context's Collection runs from the frame that started it to the first stop, and a
\* thread that stop() left behind belongs to a context that has finished.  The result file is
\* written once, after the collectors have finished.
EndInv ==
  /\ \A c \in Ids :
       /\ collection[c] = "running" => collectors_started[c] /\ ~collectors_finished[c]
       /\ keptThread[c] => collectors_finished[c]
       /\ postprocessed[c] => collectors_finished[c]
       /\ files[c] = IF postprocessed[c] THEN 1 ELSE 0
       /\ c \in deleted => collection[c] # "running"
  /\ outcome # "terminate"

\* A frame is complete when its last subframe is.
LEMMA Subframes ==
  ASSUME NEW f \in Nat, NEW n \in Nat \ {0}, NEW s \in 0..n-1
  PROVE  /\ (f * n + s) \div n = f
         /\ f * n + n = (f + 1) * n
OBVIOUS

\* The number of OnlyFirstFrameMissed, without Max and Min.
LEMMA Window ==
  ASSUME NEW f \in Nat
  PROVE  Max({0, Max({0, Min({f, end_frame}) - start_frame}) - 1}) = Sampled(f)
<1> USE LayerAssumption
<1> DEFINE documented == IF 0 > LastSampled(f) - start_frame THEN 0
                         ELSE LastSampled(f) - start_frame
<1>1. \A a, b \in Int : Max({a, b}) = IF a > b THEN a ELSE b
  BY DEF Max
<1>2. \A a, b \in Int : Min({a, b}) = IF a < b THEN a ELSE b
  BY DEF Min
<1>3. Min({f, end_frame}) = LastSampled(f) /\ LastSampled(f) \in Nat
  BY <1>2 DEF LastSampled
<1>4. Max({0, LastSampled(f) - start_frame}) = documented /\ documented \in Nat
  <2>1. 0 \in Int /\ LastSampled(f) - start_frame \in Int
    BY <1>3
  <2> QED BY <1>1, <1>3, <2>1
<1>5. Max({0, documented - 1}) = IF 0 > documented - 1 THEN 0 ELSE documented - 1
  <2> HIDE DEF documented
  <2>1. 0 \in Int /\ documented - 1 \in Int
    BY <1>4
  <2> QED BY <1>1, <2>1
<1>6. (IF 0 > documented - 1 THEN 0 ELSE documented - 1) = Sampled(f)
  BY <1>3 DEF Sampled
<1> HIDE DEF documented
<1> QED BY <1>3, <1>4, <1>5, <1>6

\* One more frame: what CountFrame does to the numbers of a context, given that it has
\* started and finished when it should have.
LEMMA NextFrame ==
  ASSUME NEW f \in Nat
  PROVE  /\ AfterStart(f + 1) /\ ~AfterStart(f) <=> f + 1 = start_frame + 1
         /\ Past(f) => Past(f + 1)
         /\ Past(f + 1) <=> AfterEnd(f + 1) /\ f > start_frame
         /\ Sampled(f + 1) = IF f > start_frame /\ ~Past(f + 1) THEN Sampled(f) + 1 ELSE Sampled(f)
         /\ Sampled(f) \in Nat
BY LayerAssumption DEF AfterStart, AfterEnd, Past, Sampled, LastSampled

\* What the last subframe of a frame does, given that the context has started and finished
\* when it should have: the collectors start in one frame and finish once.
LEMMA Counted ==
  ASSUME TypeOK, NEW c \in Ids, CountFrame(c), outcome = "ok",
         collectors_started[c] <=> current_frame[c] > start_frame,
         collectors_finished[c] <=> Past(current_frame[c]),
         frames_processed[c] = Sampled(current_frame[c])
  PROVE  /\ current_frame' = [current_frame EXCEPT ![c] = @ + 1]
         /\ current_subframe' = [current_subframe EXCEPT ![c] = 0]
         /\ collectors_started'[c] <=> current_frame[c] + 1 > start_frame
         /\ \A e \in Ids : e # c => collectors_started'[e] = collectors_started[e]
         /\ frames_processed' = [frames_processed EXCEPT ![c] = Sampled(current_frame[c] + 1)]
         /\ \/ /\ ~Past(current_frame[c] + 1) /\ ~collectors_finished[c]
               /\ collection' \in {collection, [collection EXCEPT ![c] = "running"]}
               /\ UNCHANGED <<collectors_finished, keptThread, outcome>>
            \/ /\ Past(current_frame[c] + 1)
               /\ StopCollection(c)
<1> USE LayerAssumption
<1> DEFINE f == current_frame[c]
           starts == AfterStart(f + 1) /\ ~collectors_started[c]
           stops == ~starts /\ AfterEnd(f + 1) /\ collectors_started[c]
           samples == ~starts /\ ~stops /\ collectors_started[c] /\ ~collectors_finished[c]
<1>1. f \in Nat /\ collectors_started[c] \in BOOLEAN /\ collectors_finished[c] \in BOOLEAN
  BY DEF TypeOK
<1>2. /\ starts <=> f + 1 = start_frame + 1
      /\ stops <=> Past(f + 1)
      /\ (collectors_started[c] \/ starts) <=> f + 1 > start_frame
      /\ samples <=> f > start_frame /\ ~Past(f + 1)
      /\ starts => ~Past(f + 1)
      /\ Past(f) => Past(f + 1)
  BY <1>1 DEF AfterStart, AfterEnd, Past
<1>3. /\ current_frame' = [current_frame EXCEPT ![c] = f + 1]
      /\ current_subframe' = [current_subframe EXCEPT ![c] = 0]
      /\ collectors_started' = [collectors_started EXCEPT ![c] = @ \/ starts]
      /\ frames_processed' = [frames_processed EXCEPT ![c] = IF samples THEN @ + 1 ELSE @]
      /\ \/ /\ starts
            /\ collection' = [collection EXCEPT ![c] = "running"]
            /\ UNCHANGED <<collectors_finished, keptThread, outcome>>
         \/ stops /\ StopCollection(c)
         \/ ~starts /\ ~stops /\ UNCHANGED runVars
  BY DEF CountFrame
<1>4. frames_processed' = [frames_processed EXCEPT ![c] = Sampled(f + 1)]
  <2>1. Sampled(f + 1) = IF samples THEN Sampled(f) + 1 ELSE Sampled(f)
    BY <1>1, <1>2, NextFrame
  <2> QED BY <1>3, <2>1
<1>5. /\ collectors_started'[c] <=> f + 1 > start_frame
      /\ \A e \in Ids : e # c => collectors_started'[e] = collectors_started[e]
  BY <1>2, <1>3 DEF TypeOK
<1> HIDE DEF starts, stops, samples
<1>6. ~stops => ~Past(f + 1) /\ ~collectors_finished[c]
  BY <1>2
<1> QED BY <1>2, <1>3, <1>4, <1>5, <1>6

\* The context a frame trigger reaches is in use.
LEMMA Triggered ==
  ASSUME TypeOK, MapInv, NEW q \in Queues, Trigger(q)
  PROVE  queue_to_context_map[q] \in Ids /\ InUse(queue_to_context_map[q])
BY LayerAssumption, NullNoContext DEF Trigger, MapInv, OwnerInv, LiveInv, TypeOK, InUse

\* The frame counters of every context say which frames were sampled, whichever device its
\* triggers came from and however the calls of other threads interleave.
LEMMA FrameInvariant == Spec => []FrameInv
<1>1. Init => FrameInv
  BY LayerAssumption DEF Init, FrameInv, Sampled, LastSampled, Past
<1>2. TypeOK /\ MapInv /\ FrameInv /\ [Next]_vars => FrameInv'
  <2> SUFFICES ASSUME TypeOK, MapInv, FrameInv, [Next]_vars PROVE FrameInv'
    OBVIOUS
  <2> USE LayerAssumption
  <2>1. ASSUME UNCHANGED <<frameVars, collectors_finished>>, outcome' = "ok" => outcome = "ok",
               \A c \in Ids : InUse(c)' => InUse(c)
        PROVE  FrameInv'
    BY <2>1 DEF FrameInv
  <2>2. ASSUME NEW d \in Devices, CreateDevice(d) PROVE FrameInv'
    BY <2>1, <2>2 DEF CreateDevice, InUse
  <2>3. ASSUME NEW d \in Devices, GetDeviceQueueLookup(d) PROVE FrameInv'
    BY <2>1, <2>3 DEF GetDeviceQueueLookup, InUse
  <2>4. ASSUME NEW d \in Devices, DestroyDevice(d) PROVE FrameInv'
    BY <2>1, <2>4 DEF DestroyDevice, InUse
  <2>5. ASSUME NEW d \in Devices, NEW c \in Ids, NEW q \in Queues, GetDeviceQueueEnter(d, c, q)
        PROVE  FrameInv'
    BY <2>1, <2>5 DEF GetDeviceQueueEnter, InUse
  <2>6. ASSUME NEW d \in Devices, NEW c \in Ids, Postprocess(d, c) PROVE FrameInv'
    <3>1. /\ UNCHANGED <<frameVars, deleted, destroying>> /\ outcome = "ok" /\ ~InUse(c)
          /\ \A e \in Ids : e # c => collectors_finished'[e] = collectors_finished[e]
      BY <2>6 DEF Postprocess, StopCollection, InUse, TypeOK
    <3> QED BY <3>1 DEF FrameInv, InUse
  <2>7. ASSUME NEW d \in Devices, NEW c \in Ids, DeleteContext(d, c) PROVE FrameInv'
    <3>1. /\ UNCHANGED frameVars /\ outcome = "ok" /\ ~InUse(c) /\ ~InUse(c)'
          /\ \A e \in Ids : e # c => collectors_finished'[e] = collectors_finished[e]
      BY <2>7 DEF DeleteContext, StopCollection, InUse, TypeOK
    <3>2. \A e \in Ids : e # c /\ InUse(e)' => InUse(e)
      BY <2>7 DEF DeleteContext, InUse
    <3> QED BY <3>1, <3>2 DEF FrameInv
  <2>8. ASSUME NEW q \in Queues, Trigger(q) PROVE FrameInv'
    <3> PICK c \in Ids : c = queue_to_context_map[q]
      BY <2>8, Triggered
    <3>1. c \in Ids /\ InUse(c) /\ outcome = "ok"
      BY <2>8, Triggered DEF Trigger
    <3>2. /\ UNCHANGED <<deleted, destroying>>
          /\ triggers' = [triggers EXCEPT ![c] = @ + 1]
          /\ ProcessFrame(c)
      BY <2>8 DEF Trigger
    <3>3. /\ triggers[c] = current_frame[c] * num_subframes_per_frame + current_subframe[c]
          /\ frames_processed[c] = Sampled(current_frame[c])
          /\ collectors_started[c] <=> current_frame[c] > start_frame
          /\ collectors_finished[c] <=> Past(current_frame[c])
      BY <3>1 DEF FrameInv
    <3>4. ASSUME NEW e \in Ids, e # c PROVE FrameInv!(e)'
      <4>1. /\ triggers'[e] = triggers[e] /\ current_frame'[e] = current_frame[e]
            /\ current_subframe'[e] = current_subframe[e]
            /\ frames_processed'[e] = frames_processed[e]
            /\ collectors_started'[e] = collectors_started[e]
            /\ collectors_finished'[e] = collectors_finished[e]
        BY <3>1, <3>2, <3>4 DEF ProcessFrame, CountFrame, StopCollection, TypeOK
      <4> QED BY <3>1, <3>2, <4>1 DEF FrameInv, InUse
    <3>5. FrameInv!(c)'
      <4> DEFINE n == num_subframes_per_frame
                 f == current_frame[c]
                 s == current_subframe[c]
      <4>1. f \in Nat /\ n \in Nat \ {0} /\ s \in 0..n-1 /\ triggers'[c] = triggers[c] + 1
        BY <3>1, <3>2 DEF TypeOK
      <4>2. CASE ~LastSubframe(c)
        <5>1. /\ current_subframe'[c] = s + 1
              /\ UNCHANGED <<current_frame, frames_processed, collectors_started, runVars>>
          BY <3>1, <3>2, <4>2 DEF ProcessFrame, TypeOK
        <5>2. triggers'[c] = f * n + (s + 1)
          BY <3>3, <4>1
        <5> QED BY <3>1, <3>3, <5>1, <5>2
      <4>3. CASE LastSubframe(c)
        <5>1. s = n - 1
          BY <4>1, <4>3 DEF LastSubframe
        <5>2. triggers'[c] = (f + 1) * n + 0
          <6>1. triggers'[c] = f * n + n
            BY <3>3, <4>1, <5>1
          <6> QED BY <4>1, <6>1, Subframes
        <5>3. /\ current_frame'[c] = f + 1 /\ current_subframe'[c] = 0
              /\ collectors_started'[c] <=> f + 1 > start_frame
              /\ frames_processed'[c] = Sampled(f + 1)
              /\ \/ /\ ~Past(f + 1) /\ ~collectors_finished[c]
                    /\ UNCHANGED <<collectors_finished, outcome>>
                 \/ Past(f + 1) /\ StopCollection(c)
          <6>1. CountFrame(c)
            BY <3>2, <4>3 DEF ProcessFrame
          <6> QED BY <3>1, <3>3, <6>1, Counted DEF TypeOK
        <5>4. outcome' = "ok" => (collectors_finished'[c] <=> Past(f + 1))
          BY <3>1, <5>3 DEF StopCollection, TypeOK
        <5> QED BY <5>2, <5>3, <5>4
      <4> QED BY <4>2, <4>3
    <3> QED BY <3>4, <3>5 DEF FrameInv
  <2>9. CASE UNCHANGED vars
    BY <2>1, <2>9 DEF vars, InUse
  <2> QED BY <2>2, <2>3, <2>4, <2>5, <2>6, <2>7, <2>8, <2>9 DEF Next, Ended
<1> QED BY <1>1, <1>2, MapInvariant, PTL DEF Spec

\* For every window, every number of subframes and every interleaving: of the frames of the
\* documented window a context samples all but the first (vulkan_layer.cpp: process_frame).
THEOREM OnlyFirstFrameMissedHolds == Spec => []OnlyFirstFrameMissed
<1>1. TypeOK /\ FrameInv => OnlyFirstFrameMissed
  <2> SUFFICES ASSUME TypeOK, FrameInv, NEW c \in Ids
               PROVE  frames_processed[c] =
                        Max({0, Max({0, Min({triggers[c] \div num_subframes_per_frame, end_frame})
                                          - start_frame}) - 1})
    BY DEF OnlyFirstFrameMissed
  <2>1. /\ triggers[c] = current_frame[c] * num_subframes_per_frame + current_subframe[c]
        /\ frames_processed[c] = Sampled(current_frame[c])
        /\ current_frame[c] \in Nat /\ current_subframe[c] \in 0..num_subframes_per_frame-1
    BY DEF FrameInv, TypeOK
  <2>2. triggers[c] \div num_subframes_per_frame = current_frame[c]
    <3>1. (current_frame[c] * num_subframes_per_frame + current_subframe[c])
             \div num_subframes_per_frame = current_frame[c]
      BY <2>1, Subframes, LayerAssumption
    <3> QED BY <2>1, <3>1
  <2> QED BY <2>1, <2>2, Window
<1> QED BY <1>1, MapInvariant, FrameInvariant, PTL

\* stop() leaves a context that has finished, or the exception, and no other context changes.
LEMMA Stopped ==
  ASSUME TypeOK, EndInv, NEW c \in Ids, StopCollection(c)
  PROVE  /\ collection'[c] # "running" /\ collectors_finished'[c]
         /\ \A e \in Ids : e # c => /\ collection'[e] = collection[e]
                                    /\ keptThread'[e] = keptThread[e]
                                    /\ collectors_finished'[e] = collectors_finished[e]
         /\ outcome' \in {outcome, "system_error"}
BY DEF StopCollection, EndInv, TypeOK

\* A context's Collection runs only between the start and the first stop of its collectors.
LEMMA EndInvariant == Spec => []EndInv
<1>1. Init => EndInv
  BY DEF Init, EndInv
<1>2. TypeOK /\ MapInv /\ FrameInv /\ EndInv /\ [Next]_vars => EndInv'
  <2> SUFFICES ASSUME TypeOK, MapInv, FrameInv, EndInv, [Next]_vars PROVE EndInv'
    OBVIOUS
  <2> USE LayerAssumption
  <2>1. ASSUME UNCHANGED <<frameVars, runVars, endVars>> PROVE EndInv'
    BY <2>1 DEF EndInv
  <2>2. ASSUME NEW d \in Devices, CreateDevice(d) PROVE EndInv'
    <3>1. /\ UNCHANGED <<frameVars, collectors_finished, keptThread, outcome, endVars>>
          /\ \A e \in Ids : collection'[e] \in {collection[e], "initialized"}
      BY <2>2 DEF CreateDevice, TypeOK
    <3> QED BY <3>1 DEF EndInv
  <2>3. ASSUME NEW d \in Devices, GetDeviceQueueLookup(d) PROVE EndInv'
    BY <2>1, <2>3 DEF GetDeviceQueueLookup
  <2>4. ASSUME NEW d \in Devices, DestroyDevice(d) PROVE EndInv'
    BY <2>1, <2>4 DEF DestroyDevice
  <2>5. ASSUME NEW d \in Devices, NEW c \in Ids, NEW q \in Queues, GetDeviceQueueEnter(d, c, q)
        PROVE  EndInv'
    BY <2>1, <2>5 DEF GetDeviceQueueEnter
  <2>6. ASSUME NEW d \in Devices, NEW c \in Ids, Postprocess(d, c) PROVE EndInv'
    <3>1. /\ UNCHANGED <<frameVars, deleted>> /\ c \notin deleted
          /\ postprocessed'[c] /\ files'[c] = 1
          /\ \A e \in Ids : e # c => /\ postprocessed'[e] = postprocessed[e]
                                     /\ files'[e] = files[e]
      BY <2>6 DEF Postprocess, TypeOK, EndInv
    <3>2. /\ collection'[c] # "running" /\ collectors_finished'[c]
          /\ \A e \in Ids : e # c => /\ collection'[e] = collection[e]
                                     /\ keptThread'[e] = keptThread[e]
                                     /\ collectors_finished'[e] = collectors_finished[e]
          /\ outcome' # "terminate"
      <4>1. CASE MustStop(c)
        BY <2>6, <4>1, Stopped DEF Postprocess
      <4>2. CASE ~MustStop(c)
        BY <2>6, <4>2 DEF Postprocess, MustStop, EndInv
      <4> QED BY <4>1, <4>2
    <3> QED BY <3>1, <3>2 DEF EndInv
  <2>7. ASSUME NEW d \in Devices, NEW c \in Ids, DeleteContext(d, c) PROVE EndInv'
    <3>1. /\ UNCHANGED <<frameVars, postprocessed, files>>
          /\ deleted' = deleted \cup {c} /\ outcome = "ok"
      BY <2>7 DEF DeleteContext
    <3>2. /\ collection'[c] # "running" /\ (collectors_finished[c] => collectors_finished'[c])
          /\ keptThread'[c] => collectors_finished'[c]
          /\ \A e \in Ids : e # c => /\ collection'[e] = collection[e]
                                     /\ keptThread'[e] = keptThread[e]
                                     /\ collectors_finished'[e] = collectors_finished[e]
          /\ outcome' # "terminate"
      <4>1. CASE postprocessed[c] \/ NeverPostprocessed(c)
        <5>1. collection[c] # "running"
          BY <4>1 DEF EndInv, NeverPostprocessed
        <5> QED BY <2>7, <4>1, <5>1 DEF DeleteContext, EndInv, NeverPostprocessed
      <4>2. CASE ~(postprocessed[c] \/ NeverPostprocessed(c)) /\ MustStop(c)
        BY <2>7, <3>1, <4>2, Stopped DEF DeleteContext
      <4>3. CASE ~(postprocessed[c] \/ NeverPostprocessed(c)) /\ ~MustStop(c)
        BY <2>7, <4>3 DEF DeleteContext, EndInv, MustStop
      <4> QED BY <4>1, <4>2, <4>3
    <3> QED BY <3>1, <3>2 DEF EndInv
  <2>8. ASSUME NEW q \in Queues, Trigger(q) PROVE EndInv'
    <3> PICK c \in Ids : c = queue_to_context_map[q]
      BY <2>8, Triggered
    <3>1. InUse(c) /\ outcome = "ok" /\ UNCHANGED endVars /\ ProcessFrame(c) /\ c \notin deleted
      BY <2>8, Triggered DEF Trigger, InUse
    <3>2. CASE ~LastSubframe(c)
      BY <3>1, <3>2 DEF ProcessFrame, EndInv
    <3>3. CASE LastSubframe(c)
      <4>1. CountFrame(c)
        BY <3>1, <3>3 DEF ProcessFrame
      <4>2. /\ collectors_started[c] => collectors_started'[c]
            /\ collection'[c] = "running" => collectors_started'[c]
            /\ \A e \in Ids : e # c => collectors_started'[e] = collectors_started[e]
        BY <3>1, <4>1 DEF CountFrame, StopCollection, EndInv, TypeOK
      <4>3. \/ /\ ~collectors_finished[c]
               /\ collection' \in {collection, [collection EXCEPT ![c] = "running"]}
               /\ UNCHANGED <<collectors_finished, keptThread, outcome>>
            \/ StopCollection(c)
        BY <3>1, <4>1, Counted DEF FrameInv
      <4>4. CASE ~StopCollection(c)
        BY <3>1, <4>2, <4>3, <4>4 DEF EndInv, TypeOK
      <4>5. CASE StopCollection(c)
        BY <3>1, <4>2, <4>5, Stopped DEF EndInv, TypeOK
      <4> QED BY <4>4, <4>5
    <3> QED BY <3>2, <3>3
  <2>9. CASE UNCHANGED vars
    BY <2>1, <2>9 DEF vars
  <2> QED BY <2>2, <2>3, <2>4, <2>5, <2>6, <2>7, <2>8, <2>9 DEF Next, Ended
<1> QED BY <1>1, <1>2, MapInvariant, FrameInvariant, PTL DEF Spec

\* A context is deleted with its collectors stopped and its result file written at most once,
\* so that no sampler thread is left joinable when its Collection goes and the process is not
\* terminated (vulkan_layer.cpp: postprocess_results, ~vkCollectorContext).
THEOREM DeletedStoppedHolds == Spec => []DeletedStopped
<1>1. TypeOK /\ EndInv => DeletedStopped
  BY DEF TypeOK, EndInv, DeletedStopped
<1> QED BY <1>1, MapInvariant, EndInvariant, PTL
===============================================================================
