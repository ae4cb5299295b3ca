------------------------------ MODULE MaliReader ------------------------------
(***************************************************************************)
(* The reader of the Mali kernel driver's counter device (hwcpipe.cpp):    *)
(* MaliHWCReader, and get_mali_hw_info that runs before it.  Its           *)
(* constructor tries again and again to set the device up; every attempt   *)
(* takes up to two descriptors and a mapping, which only term() gives      *)
(* back.  wait_next_event copies the oldest sample.                        *)
(*                                                                         *)
(* The kernel is external.  Once it was given an interval it dumps the     *)
(* counters into a buffer that is free; a sample is its number.            *)
(***************************************************************************)
EXTENDS Integers, Sequences

CONSTANTS
  HwVersions,     \* possible versions of the counter interface
  CoreMasks,      \* possible sets of the cores of a device
  Remains,        \* bits an uninitialized core_mask may hold
  MaxTries        \* attempts to set the device up (1023 in the code)

VARIABLES
  \* the device: its version and its cores
  hw_ver, present,
  \* MaliHWInfo: whether there is a device, and core_mask as a set of bits
  valid, core_mask,
  \* the reader, and the sample in its counter_buffer, 0 if there was none
  fd, hwc_fd, sample_data, buffer_count, tries, alive, sample,
  \* the kernel: open descriptors, buffers mapped, whether it dumps, the samples in its
  \* buffers, buffers that were never given back, samples made and those that are all 0
  opened, mapped, dumping, ready, lost, made, quiet,
  stage           \* of the reader's life

deviceVars == <<hw_ver, present, valid, core_mask>>
handleVars == <<fd, hwc_fd, sample_data, buffer_count, tries, alive>>
resourceVars == <<opened, mapped, dumping>>
ringVars == <<ready, lost, made, quiet>>
readerVars == <<deviceVars, handleVars, resourceVars, ringVars, sample, stage>>

None == <<"none", 0>>

InitReader ==
  /\ hw_ver \in HwVersions /\ present \in CoreMasks
  /\ valid = FALSE /\ core_mask \in Remains
  /\ fd = None /\ hwc_fd = None /\ sample_data = "null" /\ buffer_count = 0
  /\ tries = 0 /\ alive = FALSE /\ sample = 0
  /\ opened = {} /\ mapped = 0 /\ dumping = FALSE
  /\ ready = <<>> /\ lost = 0 /\ made = 0 /\ quiet = {}
  /\ stage = "new"

-------------------------------------------------------------------------------
(* get_mali_hw_info.                                                           *)

\* Every failure closes the descriptor again.  The masks of the core groups are added to
\* a core_mask that nobody has set.
get_mali_hw_info ==
  /\ stage = "new"
  /\ \/ valid' = TRUE /\ core_mask' = core_mask \cup present /\ stage' = "trying"
     \/ valid' = FALSE /\ stage' = "built" /\ UNCHANGED core_mask
  /\ UNCHANGED <<hw_ver, present, handleVars, resourceVars, ringVars, sample>>

-------------------------------------------------------------------------------
(* MaliHWCReader: init, the constructor's loop, and term.                      *)

\* term() closes what the members name.  munmap takes the size from the members too;
\* after an mmap that failed it is called with MAP_FAILED and does nothing.
AfterClose == opened \ {fd, hwc_fd}
AfterUnmap == IF sample_data = "mapped" THEN mapped - buffer_count ELSE mapped

\* The steps of init() that may fail, in order.  An attempt does the first `done' of them:
\* open, version and flags and setup, the reader's version and sizes, mmap, interval, and
\* looking the product up.  Nothing is undone on failure.
Open == 1
Setup == 2
Query == 3
Map == 4
Interval == 5
Product == 6

FdAfter(done, n) == IF done >= Open THEN <<"fd", n>> ELSE None
HwcFdAfter(done, n) == IF done >= Setup THEN <<"hwc_fd", n>> ELSE None

\* init() begins with term(), and takes another buffer_count after it.
initWithoutTerm(done, n) ==
  /\ opened' = opened \cup ({FdAfter(done, n), HwcFdAfter(done, n)} \ {None})
  /\ mapped' = mapped + (IF done >= Map THEN n ELSE 0)

init(done, n) ==
  /\ opened' = AfterClose \cup ({FdAfter(done, n), HwcFdAfter(done, n)} \ {None})
  /\ mapped' = AfterUnmap + (IF done >= Map THEN n ELSE 0)

\* The constructor tries again, with one buffer more each time, until a reader is alive.
\* The kernel dumps from the moment it has an interval.
Try ==
  /\ stage = "trying"
  /\ tries' = tries + 1 /\ buffer_count' = tries + 1
  /\ \E done \in 0..Product :
       /\ init(done, tries + 1)
       /\ fd' = FdAfter(done, tries + 1) /\ hwc_fd' = HwcFdAfter(done, tries + 1)
       /\ sample_data' = IF done >= Map THEN "mapped"
                         ELSE IF done = Map - 1 THEN "failed" ELSE "null"
       /\ dumping' = (done >= Interval)
       /\ alive' = (done = Product)
       /\ stage' = IF done = Product \/ tries + 1 = MaxTries THEN "built" ELSE "trying"
  /\ ready' = <<>> /\ lost' = 0
  /\ UNCHANGED <<deviceVars, sample, made, quiet>>

\* The destructor: term().
Destruct ==
  /\ stage = "built"
  /\ opened' = AfterClose /\ mapped' = AfterUnmap
  /\ fd' = None /\ hwc_fd' = None /\ sample_data' = "null"
  /\ dumping' = FALSE /\ ready' = <<>> /\ lost' = 0
  /\ stage' = "deleted"
  /\ UNCHANGED <<deviceVars, buffer_count, tries, alive, sample, made, quiet>>

-------------------------------------------------------------------------------
(* Samples.                                                                    *)

\* The kernel dumps the counters since its last dump; without activity they are 0.
Dump ==
  /\ dumping /\ Len(ready) + lost < buffer_count
  /\ made' = made + 1
  /\ ready' = Append(ready, made + 1)
  /\ quiet' \in {quiet, quiet \cup {made + 1}}
  /\ UNCHANGED <<deviceVars, handleVars, resourceVars, lost, sample, stage>>

\* wait_next_event gets a buffer: the oldest sample is copied, and the buffer given back.
TakeSample ==
  /\ stage = "built" /\ alive /\ ready # <<>>
  /\ sample' = Head(ready) /\ ready' = Tail(ready)
  /\ UNCHANGED <<deviceVars, handleVars, resourceVars, lost, made, quiet, stage>>

\* It is copied but the buffer cannot be given back: the kernel waits for it for ever.
LoseBuffer ==
  /\ stage = "built" /\ alive /\ ready # <<>>
  /\ sample' = Head(ready) /\ ready' = Tail(ready)
  /\ lost' = lost + 1
  /\ UNCHANGED <<deviceVars, handleVars, resourceVars, made, quiet, stage>>

\* poll() or the request for a buffer fails, or the device hung up.
NoSample == stage = "built" /\ alive /\ UNCHANGED readerVars

NextReader ==
  get_mali_hw_info \/ Try \/ Destruct \/ Dump \/ TakeSample \/ LoseBuffer \/ NoSample

SpecReader == InitReader /\ [][NextReader]_readerVars

-------------------------------------------------------------------------------
\* However many attempts failed and wherever they did (term() is what init() begins with,
\* hwcpipe.cpp:282), the members name every descriptor that is open and the whole mapping,
\* so nothing is left behind: neither by an attempt for the next one nor by the destructor.
\* The kernel makes samples for nobody only while the members name its descriptor.
NothingLeftBehind ==
  /\ opened = {fd, hwc_fd} \ {None}
  /\ mapped = IF sample_data = "mapped" THEN buffer_count ELSE 0
  /\ dumping => hwc_fd # None /\ Len(ready) + lost <= buffer_count
===============================================================================
