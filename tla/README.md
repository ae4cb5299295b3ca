# A verification development for libcollector

This directory holds TLA+ models of the parts of libcollector that have state,
threads or a protocol, the TLC configurations that check them on small instances,
and TLAPS proofs of theorems about them. Paths such as `interface.cpp:84` are
relative to the repository's root; `S:n` stands for
`collectors/streamline_annotate.cpp:n`. PROJECT.json gives, for every definition
that models code, the lines it models.

## 1. The system

libcollector is a library a program links with (or loads as a Vulkan layer) to
record performance counters, plus the tool `burrow`.

| component | state it keeps | operations | interacts with |
|---|---|---|---|
| Collection (`interface.cpp`, `interface.hpp`) | registered collectors, `mRunning`, `running`, frame times `mTiming` | initialize, start, collect, summarize, stop, destructor, results/writeCSV | calls every collector; makes one sampler thread per threaded collector |
| Collector base class | per key a list of values and of summaries, `mIsThreaded`, `mCollecting`, `finished`, a `std::thread` | useThreading, loop, clear, postprocess, summarize | its thread runs concurrently with the client's calls |
| Small collectors (cpufreq, gpufreq, cputemp, procfs, memory, rusage, streamline) | file descriptors, previous values | init, start, collect, stop, deinit, each of which may fail | files and system calls |
| Mali counters (`collectors/mali_counters.cpp`) and their reader (`collectors/hwcpipe.cpp`) | two descriptors, a mapping, the last sample; the list of counters to look up | set up (in many attempts), init, start, collect, tear down | the Mali kernel driver through ioctls and poll |
| Streamline annotations (`streamline_annotate.cpp`) | a lock-free list of `gator_thread`, each with a ring buffer, an image pointer and a semaphore; `capturing`, `resend_state`; saved definitions | some 20 annotation calls, flush, setup, fork and exit handlers; the sender thread `gator_func` | annotating threads, the sender, the gatord daemon over sockets |
| Vulkan layer (`layer/vulkan_layer.cpp`) | maps from devices and queues to contexts; per context frame counters, flags and a Collection | create/destroy device, get queue, submit, present | application threads, the driver, a Collection per device |
| Ferret collector (`collectors/ferret.cpp`) | names looked for, pids found, map from pid to descriptor of its stat file, last status | init, start, collect (poll, enumerate, read), stop, postprocess | /proc, the processes observed, a pipe |
| burrow (`burrow.cpp`) | a Collection with the ferret collector, the pipe, last status | monitor | ferret's sampler thread through the pipe |
| Perf collector (`collectors/perf.cpp`) | per thread of the program a group of counters, its values per frame, sums per function, the last snapshot; flags of the last scope | init, start, collect, collect_scope_start/stop, stop, deinit | the kernel's perf events; scopes run on the program's own threads |
| Power collector (`collectors/power.cpp`) | a socket, the rails asked for, values per frame | connect, handshake, start, stop with its accounting, disconnect | a measurement daemon, through a stream of bytes without frames |

What is hard here: sampler threads that run while a call of the Collection goes
through its collectors one by one; two threads on a ring buffer without a lock,
with positions read at one moment and used at another; structures freed by one
thread while others push on the same list; a daemon that goes away in the middle of
a message; Vulkan handles the driver reuses; processes that exit between two system
calls; a client that makes a legal call in an unlucky order. PROJECT.json lists
them as hazards, each at its line.

What makes each component correct, in short:

* Collection: no thread outlives `stop()`; `stop()` comes back; a collector is never
  run twice; every kept collector has one value per frame; exceptions have a cause.
* Remix: a frame gets no sample taken after it began, and none older than the last
  before that.
* Annotations: the byte stream of a thread reaches gatord in order and unbroken; no
  call hangs; memory is freed only when nobody can use it; captures know the names.
* Vulkan layer: a queue leads to the context of its device; the frames sampled are
  those configured, but the first; a context dies stopped; the application is not disturbed.
* Ferret and burrow: success is reported only if everything watched is gone; the end
  of the processes, and their absence, is noticed; the summary of a trace accounts for
  the time of every thread.
* Perf: sums per function are those of its scopes, and frames miss no event.
* Small collectors: differences are taken from the last sample, none lost or counted
  twice; the arrays of results and the rows of a CSV file fit together.
* Mali counters: whatever attempt failed, nothing stays open; a counter is read from its
  own place in the sample.
* Power: a command is answered by its own answer and measurements belong to the session
  that records them; no call hangs on the daemon.

## 2. Modules

| module | models | extends / uses |
|---|---|---|
| `Sums` | sums over sequences, built up as the loops of the code do | |
| `SumProofs` | lemmas about sums and weighted averages, with the induction they need | `Sums`, TLAPS |
| `Postprocess` | `Collector::postprocess` as a function of frame times and number of samples, and the doubles it computes in | `Sums` |
| `Collection` | Collection, Collector and sampler threads | `Postprocess` |
| `CollectionProofs` | theorems about the sessions, threads and values of `Collection`, and about the remix | `Collection`, `MCAlgorithms`, `SumProofs`, TLAPS |
| `GatorMessages` | reserved and written bytes of every annotation, packed integers | `Sums` |
| `GatorProofs` | theorems that annotations stay within their reservation, and that the ring is a queue | `MCAlgorithms` (for `GatorMessages`), `GatorRing`, `SumProofs`, TLAPS |
| `GatorFifo` | abstract specification: the stream of one annotating thread | |
| `GatorRing` | ring buffer of one thread and the sender, byte by byte | implements `GatorFifo` |
| `GatorSession` | many threads, the list, definitions, flush, exit, fork, the sender's loop | takes the ring as the queue that `GatorRing` is shown to be |
| `SessionProofs` | theorems about the list of structures, the definitions a capture gets, and flushes | `GatorSession`, TLAPS |
| `VulkanLayer` | the layer, with what of the Collection it can run into | |
| `VulkanProofs` | theorems about contexts, their frames and their end | `VulkanLayer`, TLAPS |
| `Ferret` | ferret's sampler and burrow | |
| `FerretProofs` | theorems about the status burrow reports, and about the summary of a trace | `Ferret`, `MCAlgorithms` (for `FerretTrace`), `SumProofs`, TLAPS |
| `FerretTrace` | the post-processing of a ferret trace as a function of its rows | `Sums` |
| `PerfScopes` | the vectors of the perf collector and the counters a configuration asks for, as pure operators | |
| `Perf` | the perf collector, its threads and scopes | `PerfScopes`, `Sums` |
| `SamplingProofs` | theorems about `Perf` (vectors, groups, scopes) and about `Recording` (arrays, differences, frequencies) | `MCSampling`, `SumProofs`, TLAPS |
| `Power` | the power collector, the stream and the daemon | |
| `Recording` | the data path of a Collection without threads over sessions, summaries and custom columns, with rusage, procfs or cpufreq | `Sums` |
| `MaliReader` | `MaliHWCReader`: attempts, descriptors, mapping, samples; the kernel | |
| `MaliCounters` | the Mali collector: where counters are looked up and what frames hold | `MaliReader` |
| `DeviceProofs` | the Mali collector implements its reader's specification, leaves nothing behind and records every counter from its own place; the power collector and its daemon stay in step | `MCDevices`, `SumProofs`, TLAPS |
| `MC*` | instances for TLC; `MCAlgorithms` enumerates the inputs of the pure modules; `MCSampling` has `Perf` or `Recording`, `MCDevices` has `Power` or `MaliCounters`, and `MCStopping` has `Ferret` or `Collection`, in each behaviour | |

### Collection

`mRunning`, `running`, `mTiming`, `mIsThreaded`, `mCollecting`, `finished` are the
members of the same names. `thread[c]` is the `std::thread` of a collector: `none`
(not joinable), in its loop (`test`, `collect`, `nap`), or `exited`. A collector has
`Keys`, and a slot is a collector with one of them; a sample records under any of the keys
(a `collect()` that fails under none). `list` holds the values of a slot, each abstracted to
the number of the session it was taken in (0: no sample). `made` is the session in which
the key came into `mResults`, 0 if it did not: from there it is never removed, neither by
`clear()` nor by `summarize()`. `initialize`, `start`, `summarize` and both halves of `stop` visit the
collectors one at a time; each visit is an action (`InitializeOne`, `StartOne`,
`SummarizeOne`, `SignalOne`, `JoinOne`) and `call` is the client's position, because
the samplers run in between. `init()`, `start()` and `collect()` of a collector may
fail at any time. `outcome` other than "ok" is the end of the process (an uncaught
exception, `std::terminate`, a crash); undefined behaviour has every outcome the
builds can give: the conversion of NaN to int (`NaNIndices`), the division by zero in
the average of an empty list, and the data race of `summarize()` with a sampler.

The client follows the library's discipline: `initialize`, `start` and
`useThreading` only outside a session, `stop` only inside one, `summarize` only after
a frame. The code does not enforce it; what a second `stop()` does is shown with the
one client in the repository that makes it, the Vulkan layer.

`Postprocess` computes the index of the remix as `interface.cpp:84` does, in doubles. A
double is a fraction whose denominator is a power of two (`Places` chooses it) and whose
numerator has at most `Precision` bits; `Double` rounds a quotient to the nearest one, ties
to even, as IEEE 754 says. The quotient is rounded and so is its product with the number of
samples, which is then truncated. `Precision` is 53 in the code and a constant here, so that
the runs meet the same effects with small numbers: with 11 bits, a frame that begins
after 1 of 11 microseconds misses the second of 11 samples, as 1 of 49 does with 53 bits. Sums of frame times and numbers of samples are exact, as they are in
the code below 2^53. The custom columns are in
`Recording`, the scope calls of per-API mode in `Perf`.

### Recording

The other half of the Collection: what ends up in the lists, without threads, so that a
call is one step and its values can be kept instead of being abstracted to sessions. A
behaviour follows one collector, `subject`, because collectors without threads do not
influence each other. `consumed` and `time_in_state` are what the kernel counts. `prev`
(rusage), `mLastSampleTime` and `mFD` (procfs, a SysfsCollector) and `times` (cpufreq) are
the members that survive from one sample to the next, and from one session to the next.
`start` appends to `times` as the code does; only its first entries are ever used. A core
may be offline at any sample; if it was at every `start()`, `times` is read out of bounds
(`OutsideTimes`). `list`, `summaries` and `data` are those of CollectorValueList;
`ResultTiming`, `ResultColumn`, `ResultCustom` and `CsvRows` are the arrays of `results()`
and the rows of `writeCSV()`. Here the client may also start twice and summarize at any
moment. `seen`, `origin`, `first`, `ranAt` are history: what the collector has been shown.

### Mali counters

`MaliReader` is the reader alone. `Try` is one round of the constructor's loop: `init()`
begins with `term()` and does the first `done` of its six steps that may fail, each taking
something (`Open`, `Setup`, `Map`). `opened` and `mapped` are what the kernel has given
out, `fd`, `hwc_fd`, `sample_data` and `buffer_count` what the members remember of it. The
kernel (`Dump`) puts samples, numbered, into buffers that are free. `wait_next_event` has
three outcomes: `TakeSample`, `LoseBuffer` (PUT_BUFFER failed) and `NoSample`.

`MaliCounters` keeps in `header` what `init()` appends for each named counter. A counter is
a block, a virtual core and a name; `header` is the bag of them (a function to the number of
entries), because all entries of a counter are looked up alike and their values go to the
same list, so that their order says nothing. `recorded` holds for each counter the sample,
index, block and core its values were read from; `Payload` says what the device has put at
each block. Counter names are a parameter, with `Within` for strstr; the instance has a name
inside another one and a name that occurs twice, as hwc_names.hpp does. `core_mask` begins
with any remains, since the code never clears it.

### Streamline annotations

`GatorMessages` adds up, for each annotation function, the argument of
`gator_buf_wait_bytes` and the bytes the `gator_buf_write_*` calls put, from the sizes
of their packed fields and strings.

`GatorRing` numbers the bytes a thread makes. The writer's steps are those between
which the sender can see a difference: wait for room, write, commit `write_pos`, lend
the image, drain. The sender's are: connect, read `write_pos`, test whether anything
is pending, one `send()` each (possibly short) for the part up to the end of the ring,
the rest, and the image, post the semaphore; and the fields `gator_stop_capturing`
changes, one by one. `Break` is gatord going away. `sender_sem` is left out: it only
shortens a timed wait of 100 ms, so the sender may make a pass at any time.

`GatorSession` replaces the ring by a queue of whole annotations per structure and
keeps what threads share: the list (pushed with a compare-and-swap by `Register`,
unlinked by `NextThread`, whose compare-and-swap fails if `*prev` was the head and
another structure was pushed), `SeamStop` (data that ends at the seam of the ring stops the
capture, whether or not the connection works; where the seam is is the ring's subject),
`capturing` and `resend_state` (set one after the
other), the two semaphores of `gator_annotate_flush`, thread exit, and `fork()` seen
from the child. Structures are addresses, so a freed one can come back. `lost` is a
history variable: definitions this process dropped since the capture started.

### Vulkan layer

Contexts are named by their id. The driver is external: handles of devices and queues
are reused after a device is destroyed. `GetDeviceQueueLookup` and
`GetDeviceQueueEnter` are the two critical sections of `lc_vkGetDeviceQueue`;
`DestroyDevice`, `Postprocess` and `DeleteContext` the parts of `lc_vkDestroyDevice`,
which works on the context after releasing the mutex. A result file that cannot be
opened leads through the second branch of `DeleteContext`. Of the Collection the
layer can see whether it runs and whether a joined `std::thread` remains in
`mRunning`.

### Ferret and burrow

One session of burrow. A process is absent, running, a zombie (its command line is
empty, its stat file readable) or reaped. Each look at a process (`poll`, `enumerate`,
`read`) is a step, so a process can change state between any two. The pipe is a
sequence of statuses; `MaxPipe` bounds it, which is a timing assumption: burrow is
scheduled before some 16000 statuses, minutes of rounds, have filled the pipe.

`FerretTrace` is `postprocess_ferret_data`: `ReadRow` is one pass of its loop, the
record `Unread` its local variables. The unit of time is the jiffy, so the tick rate of
the header only scales; average frequencies (`MHz`) are left out. Every processor a row
names is one of `CpuNrs`; the code asserts it.

### Perf

A group of counters is one counter, counted up by `Tick` modulo `Modulus`, because the
code treats all counters of a group alike. `mThreads` are the perf_threads in the order
`start()` takes them. `collect()` reads and then resets each group (`CollectRead`,
`CollectReset`), and a scope of a thread is several steps (`ScopeStart`, `ScopeFlags`,
`ScopeStop`, `ScopeAdd`), so ticks, frames and scopes of other threads come in between.
The client's calls init, start, stop and deinit are one step each, with every failure
they handle; threads do not open scopes while perf_threads are made or deleted. `hist`
is history: the ticks of a group, those no frame can show, and the sums the scopes
should have.

### Power

`toDaemon`, `inFlight` and `toClient` are the two directions of the connection: bytes
leave the daemon some time before the collector can read them. Each wait of the code is
a position `pc`; `got` is what `receiveMsg` has put into its buffer, unit by unit, and
`TimedOut` may end the wait at any moment. `Connect` to `Decode` follow the code from
`connectToDaemon` to the accounting of samples to frames. The daemon is external and
known only by what the code expects of it: it serves commands in order, may refuse one,
reports an error of its own, measures any number of rows, and goes away. `upset` is
history: a late answer, an error report that crossed `OP`, data too large for the buffer,
or a daemon that left.

## 3. Runs

"deadlock checked" means TLC also shows that the system never gets stuck.

| run | instance | what it shows |
|---|---|---|
| `algorithms` | frame times from {0,1,2,5}, up to 5 frames and 11 samples, doubles of 11 bits; strings of 0, 1, 7 bytes, field sizes at both ends, counters of up to 36 activities; integers around every 7-bit boundary; ferret traces of 4 samples with 2 threads, 2 CPUs, a banned name and a frequency that may be missing; deadlock checked | `LastSampleBeforeFrame`, `WrittenFitsReserved` (with `PackedMinimal`, the size of packed integers), `ThreadsAccounted` |
| `collection` | a required threaded collector with two keys and one with one key that the client may thread, requests with duplicates, 2 sessions, 2 frames of 0 or 1 microsecond, a sample per key and thread, a summary; deadlock checked | `RunningDistinct`, `KilledOnlyForCause`, `ThrowsOnlyOnEmptyTail`, `QuiescentWhenStopped`, `FreshLists`, `AlignedAtStop`, `DroppedOnlyForOldKey`, `NoSampleBegunWhileJoining` |
| `ring` | ring of 4 bytes, texts of 1 and 2 bytes with and without slack and one that is too large, 7 bytes made, one restart, a connection that breaks, fairness | `StreamUnbroken`, `RingIsFifo` (refinement of `GatorFifo`), `StopsOnlyAtSeam`, `AnnotationReturns` |
| `images` | ring of 4 bytes, texts and images, two annotations per call, 8 bytes | `ImageLent` |
| `thread_list` | 2 threads, 3 addresses, a definition, 4 calls; exits, forks, failures, short writes | `OwnedStructsListed`, `DefinitionsReachCapture` |
| `flush` | 2 threads of which one flushes, 2 addresses, 4 calls; exits, forks, failures and stops at the seam, no short writes, fairness | `FlushSends`, `FlushReturns`, `ExitedReclaimed` |
| `vulkan` | 2 device handles, 2 queues, 3 devices in all, window from frame 1 to 3, 2 subframes per frame, threaded collectors | `QueueHasItsContext`, `OnlyFirstFrameMissed`, `DeletedStopped` |
| `stopping` | Ferret: 2 processes, failures of init and start. Collection: the two collectors with one key each, 2 sessions of one frame and one sample, no summary. Fairness | `SuccessMeansAllGone`, `CollectsOnlyWhenStarted`, `OpenedExitNoticed`, `WaitBounded`; `StopReturns` |
| `sampling` | Perf: two threads with scopes, or one and a background thread, or counters of the interconnect; functions 0 and 1 in vectors that begin with one entry, 2 ticks modulo 4, 2 scopes, 1 frame, 2 sessions. Recording: each of the three collectors, 2 units of time, 2 frequencies, 2 sessions of 2 frames, 2 summaries, one custom column that may change its name | `ScopeSumsExact`, `FramesAccountForTicks`, `CountersOffBetweenSessions`, `ExitsOnlyOnIgnoredStart`; `ResultsAligned`, `DifferencesAddUp`, `FrequencySinceLastSample` |
| `devices` | Power: 0 or 1 rail, up to 2 rows of which one fits into the buffer, one error report, 2 sessions. Mali: both layouts, cores 0, or 0 and 2, or 1 and 4, a clean or a dirty core_mask, 2 attempts, 2 calls of init(), 2 sessions of 2 frames. Fairness | `InStep`; `NothingLeftBehind`, `FramesHoldCounters`; `CallsComeBack` of both |
| `image_race` (violation) | one image in a ring of 4 bytes, no failure at all | `StreamUnbroken` fails |
| `vulkan_stops_twice` (violation) | one device, one threaded collector | `AppRunsAsNormal` fails |

The type invariants (`TypeOK`) are for the proofs; `Collection`'s is proved. Runs with
`CHECK_DEADLOCK FALSE` are those where stopping is legal: the bounds on bytes or calls
are used up, gatord does not ask for data, the process was ended (perf, Mali), or (ferret)
burrow reads a pipe nobody writes to, which is discussed below.

### Why the bounds are enough

* Ring: positions matter modulo `SIZE` only, and 4 is the smallest even size in which
  an annotation may take half the ring and two of them fill it but for one byte. Seven
  bytes make the positions wrap nearly twice, and a restart adds a second connection.
* Collection: interference between sessions needs two; dropping one collector while
  keeping another needs two collectors, of which one or both have threads. Two frames
  with 0 among the durations reach both edges of the remix. Two keys are one that a sample
  records under and one that it does not, in the first session or in the second. One sample
  per key of a threaded collector is enough to be kept, dropped or out of range; lists of
  more are remixed in `algorithms`, and the proofs have any number. Which summaries, keys
  and frames there are makes no difference to the waits of `stop()`, so `stopping` has fewer.
* Remix: up to five frames and 11 samples, in doubles of 11 bits, meet quotients that are
  rounded down and up, and products rounded across an integer: without the word "before"
  in `LastSampleBeforeFrame` the run fails. The proof has any precision, 53 among them.
* Ferret traces: a thread found in three samples, with gaps and changes of CPU and name
  between them, takes every branch of `add`; the distances of the samples (1 and 200)
  put a thread on either side of the hundredth that makes it significant. The fourth
  sample only completes the third.
* Thread list: the compare-and-swap fails in an interesting way if one structure is
  unlinked while another is pushed and a third stands behind: three addresses.
* Vulkan: reuse of a handle needs a device created after another was destroyed, with a
  third alive; ten triggers pass `start_frame` and `end_frame` with two subframes and
  reach the second stop.
* Ferret: with two processes one can exit while the other lives or has not appeared.
* Perf: two threads suffice for flags and snapshots to be confused, two scopes for one to
  end in the other's place, two sessions for an old snapshot to meet a new start; one
  frame can fall inside a scope. Two ticks tell inside from outside; modulo 4 shows an
  underflow.
* Recording: a value that survives needs a second session; two frames let one sample fail
  between others, two summaries let one come before and one after a new start. One unit of
  time before the first sample and one after it tell a comparison point from the next; with
  two frequencies an average lies strictly between them or does not.
* Mali: after two attempts a third is like the second, since `term()` forgets the first
  (and theorem `NothingLeftBehindHolds` has any number). The masks {0,2} and {1,4} have
  holes below and between, and core 4 is beyond what the old layout has room for. Two buffers
  let one be lost and the other still serve `start()`, and both be lost.
* Power: what a session leaves in the stream can only hurt a second one; two rows are one
  more than the buffer holds.

### Fairness

Only the scheduling of threads is assumed fair: a call that was made goes on, a
sampler goes round its loop, the sender thread runs. Nothing is assumed of the client
(it need not call again), of the observed processes, or of gatord (it need not answer
the blocking read). `Elapse` in `Ferret` says that time passes, and in `Power` the calls of the
collector are fair, timeouts included, while the daemon and the network are not. In
`MaliCounters` the kernel goes on dumping while it has a free buffer (it was given an
interval) and `poll()` notices a sample; that the device fails is not assumed. In `flush`
gatord may go away, and never come back or never ask for data again; the properties
say what happens if the sender is not left waiting for it for good.

## 4. Findings

Two runs show a disagreement with what the repository says:

1. `image_race`: `gator_send` (S:441) takes `write_pos <= read_pos` for data that
   wraps. With an image pending and `write_pos == read_pos` (the header was
   committed after the sender read `write_pos`, or an earlier `send` of the image was
   short) it sends the ring up to its end: bytes that were sent before, or were never
   made. The images run shows that the memory lent is not misused even so.
2. `vulkan_stops_twice`: `process_frame` stops the Collection at every frame after
   `end_frame`. The second `stop()` joins a thread that was joined, and
   `std::system_error` leaves `vkQueuePresentKHR`. `OnlyFirstFrameMissed` and
   `DeletedStopped` hold up to there and for collectors without threads.

Deviations met while modelling that have no run of their own, each with the checked
statement that delimits it:

* `README.md:142-143`: sampling is to start at `start_frame` and stop at `end_frame`.
  `process_frame` starts the collectors in the first frame of that window and samples from
  the next one on (`vulkan_layer.cpp:443`), so that it takes one sample fewer than the
  window has frames: with the default `start_frame` 0 the first frame is never sampled.
  Counted from 1, the frames sampled are `start_frame + 2` to `end_frame`; counted from 0,
  `start_frame + 1` to `end_frame - 1`. `OnlyFirstFrameMissed` (proved) shows that nothing
  else is missed and nothing added.
* `interface.hpp:237` ("Clear any old results and start collecting data"): `clear()` keeps
  the keys of `mResults`, and `postprocess` drops a collector if the list of any key is
  empty (`interface.cpp:74`). A threaded collector that records under fewer keys than in an
  earlier session (cputemp with a zone that gives no number any more, cpufreq initialized
  again with fewer cores) is dropped by `stop()` with all it recorded.
  `DroppedOnlyForOldKey` (proved) shows that this is the only way to be dropped, so never
  in a first session.
* `interface.cpp:84`: the quotient and the product are rounded, so a frame that begins just
  when a sample was taken may get the one before: with 49 frames of equal length and 49
  samples `1.0 / 49 * 49` is below 1, and the second frame gets sample 0 instead of 1.
  `LastSampleBeforeFrame` (proved for any precision) shows that it is never worse than that:
  the sample is not after the beginning of the frame, and at least as late as the last one
  that was strictly before it.
* `interface.cpp:84`: if the frames after some point all lasted 0 microseconds the
  remix index is the number of samples and `at()` throws out of `stop()`.
  `ThrowsOnlyOnEmptyTail` shows that this is the only case.
* `interface.hpp:237` ("Clear any old results and start collecting data"): `clear()`
  also leaves the summaries of an earlier session. `FreshLists` shows it clears all raw
  values.
* `interface.hpp:205` ("then no collectors will be initialized"): a failing required
  collector empties `mRunning` but leaves the collectors before it initialized.
* `interface.cpp:436`: a threaded collector whose `start()` failed has no thread to
  join, so `stop()` throws. `KilledOnlyForCause` (proved) shows that nothing else does.
* S:925: the reservation of a counter definition forgets one byte per activity;
  theorem `CounterFitsExactly` gives the exact number of activities that fit.
* S:451: data that ends exactly at the end of the ring makes `gator_send` send 0 bytes
  and give the capture up (`StopsOnlyAtSeam`: only there).
* S:867: a stop of the capture just before `oob_length` is set leaves the caller of
  `gator_annotate_visual` asleep until the next capture; likewise a call that has to
  send definitions again and finds the ring full after a stop. `AnnotationReturns` is
  therefore checked for calls that make one annotation without an image.
* S:225: two threads that flush can take each other's posts; `FlushSends` holds with one
  flushing thread. A flush, also the one at exit(), waits for ever if the sender waits for
  gatord for good: in `read(parent_fd)` (S:506), in the loop that connects, or because there
  is no sender in a forked child. The first can happen with gatord present and no failure
  at all, after the stop at the seam (S:451). The structures of threads that have exited
  are not freed meanwhile. `FlushReturns` and `ExitedReclaimed` show that there is no other
  reason: they need only a sender that does not wait for gatord for good.
* S:204: a forked child goes on with `capturing` set and `resend_state` clear, so the
  capture of its new connection is not told the definitions; a thread that exits right
  after the sender read its `write_pos` loses its last annotations.
  `DefinitionsReachCapture` holds for all definitions not in `lost`.
* `layer/vulkan_layer.cpp:469`: a device that never passes `start_frame` leaves no
  result file, README.md:111 says every device does.
* `burrow.cpp:98`: if the collector fails to start nobody writes to the pipe, and the
  timeout of `-t` never comes. `WaitBounded` is stated for a collector that started.
* `ferret.cpp:722`: a process found by name but gone before its stat file was opened is
  never counted as gone, and burrow reads the pipe for ever. `OpenedExitNoticed` is what
  does hold.
* `ferret.hpp:58` ("Implements the main function in the ferret.py script"): a sample is
  accounted for when the next `T` row is read, so `postprocess_ferret_data` leaves out
  the last one; `ferret.py` yields it (`yield state` after its loop). `ThreadsAccounted`
  is stated for the samples before the last.
* `interface.hpp:237` again: the perf collector's `clear()` (`perf.cpp:373`) leaves the
  totals and the sums of scopes, so a second session is appended to the first.
* `perf.cpp:351`: a `start()` that fails at one group leaves those before it enabled, and
  `stop()` returns without disabling them. `CountersOffBetweenSessions` shows that this is
  the only case.
* `interface.cpp:614`: `summarize()` takes no lock. `KilledOnlyForCause` (proved) shows that
  it can only race with a sampler inside a session.
* `interface.hpp:63`: a summary divides by 0 if a list is empty; `ResultsAligned` shows
  that without failed samples this needs a summary without a frame.
* `interface.cpp:387`: `mCustomSummarized` is only resized. After a summary, a start() with
  other custom columns shows the old summaries under the new names; and a collector first
  sampled after a summary gives all its raw values, marked as summarized
  (`interface.cpp:505`), beside shorter arrays. `ResultsAligned` excludes these two.
* `interface.cpp:125`: a sysfs file that can be neither rewound nor opened again is given up
  inside `collect()`, and the next `collect()` fails an assertion.
* `cpufreq.cpp:63`: `start()` appends the times it reads, so a second session's first value
  is relative to the last sample of the first session, not to its start
  (`FrequencySinceLastSample` says "since it last looked"). A core that was offline at
  every `start()` and comes back makes `collect()` read `times` out of bounds. A value that
  is reused (`cpufreq.cpp:113`) is the last summary if there is one, not the last sample.
* `procfs_stat.cpp:64` takes 0 for "no sample yet" and never resets it, so the first value
  of a later session covers the time between sessions. `DifferencesAddUp` has the exact
  account, and the same for rusage, whose comparison point stays old if `start()` fails.
* `hwcpipe.cpp:62` ors the masks of core groups into an uninitialized `core_mask`; with
  dirt in it counters are read at wrong places or beyond the buffer. `hwcpipe.cpp:244`
  assumes at most four cores for old devices. `FramesHoldCounters` is stated without both.
* `hwcpipe.cpp:229` finds names with strstr: in hwc_names.hpp `L2_EXT_READ` is found at
  `L2_EXT_READ_BEATS`, `L2_EXT_WRITE` likewise, and products that repeat a name get two
  values per frame in one column. `FramesHoldCounters` holds for the other names.
* `mali_counters.cpp:126`: only `start()` waits for a sample, so all frames of a session
  hold the same one, and if it is all zeros the program is ended with `exit(0)` in its first
  frame (`FramesHoldCounters`). Calling `init()` again doubles the columns.
* `hwcpipe.cpp:486`: a buffer that cannot be given back is lost, and once all are `start()`
  waits for ever (`CallsComeBack` is stated while one is left).
* `perf.cpp:714`: a frame inside a scope of another thread resets the counters, and the
  unsigned difference at the end of the scope is huge. `ScopeSumsExact` shows that only
  functions with such a scope are affected.
* `perf.hpp:115`: function ids 65534 and 65535 are beyond the vector; theorem
  `ScopeSlotExists` shows that no others are. 65535 is also the mark for "no scope".
* `perf.hpp:148` says that scope_num_calls counts all calls that triggered a collection;
  like scope_num_with_perf it is incremented only if the difference is positive.
* Perf, not modelled: an event that fails to open shifts the values of the later counters
  of its group, and a later thread with a shorter series truncates the totals. On x86
  without Android `start()` in per-API mode always ends the process (`perf.cpp:665`).
* Power: `init()` replaces its configuration by the member "power", in which `start()`
  looks for "power" again and finds no rails; `stop()` then divides by twice their number
  in a log line. Both numbers of rails are in the run.
* `power.cpp:265`: data too large for the buffer is left in the stream, as is an answer
  that comes after its timeout; the collector never reconnects, so later answers are
  taken for others. `InStep` shows that nothing else puts the two sides out of step.
* Power, not modelled: frame durations are taken for points in time in seconds, frames
  without samples leave no value, the loop over addresses uses the first one each time,
  a write to a daemon that left raises SIGPIPE, and the buffer size overflows 32 bits.
* README.md:61 shows the option "rate", the code reads "sample_rate";
  `interface.cpp:196` logs a parse failure on success. Not modelled.

## 5. Proofs

All theorems hold for every value of the constants, from the named assumptions of the
module that declares them. TLC evaluates the assumptions on each instance.

* `CollectorsAssumption`: collectors are registered once, configuration and requests name
  registered collectors. `BoundsAssumption`: bounds are natural numbers, and no session
  takes longer than doubles count exactly (2^53 microseconds, 285 years).
* `PrecisionAssumption` (of `Postprocess`): a double has at least one bit.
* `SizeAssumption`: the ring has an even number of places, at least two (the code's is a
  power of two). `MessagesAssumption`: a message is not empty and fits its reservation
  (`PlainAnnotationsFit`, `CounterFitsExactly`).
* `SessionAssumption`, `LayerAssumption`: no thread's structure, device, queue or context
  is the null pointer.
* `FerretAssumption`: burrow was given finitely many names, at least one.
* `PerfAssumption`: a configuration has finitely many items, the process finitely many
  threads, and function ids are below 65534 (`ScopeSlotExists` says why).
* `RecordingAssumption`: headers are lists of names, and a core has a list of frequencies,
  none of which is 0.
* `RemixAssumption`, `AnnotationAssumption` (of `MCAlgorithms`): frame times and bounds are
  natural numbers, and the length of a session times its samples is at most half of
  2^`Precision` (in the code 2^52, e.g. a million samples in an hour); the ints to be packed are `int32_t`, fields have the sizes a packed int or
  long can have, and a counter has at most 36 activities (`CounterFitsExactly` says why).
* `TraceAssumption` (of `MCAlgorithms`): the header of a ferret trace lists its CPUs, there are
  finitely many threads, a thread was found on one of those CPUs (the code asserts it) with at
  least the jiffies it had before, frequencies are natural numbers, and the clock never shows
  0. The times of the samples need not even be in order.
* `MaliAssumption`: a device has finitely many cores, at least one, and the four blocks have
  a name or a hole for each of their counters.

Two theorems about the ring have the hypothesis `NoImages`: no message carries an image.
With images the stream does break; the run `image_race` shows it. `ScopeSumsExactHolds` and
`FramesAccountForTicksHolds` have the hypothesis `MaxTicks < Modulus`: a group that counts
2^64 events inside one scope is back at its snapshot, and the code does not count the call;
one that counts as many between two resets shows a frame too little. `FlushSendsHolds` assumes
that one thread flushes, because two take each other's posts, and that the socket takes what
it is given, because after a short write the sender goes on to the next thread.

Each inductive invariant was checked by TLC on the instance of the run before it was
proved.

### Collection (`CollectionProofs`)

| theorem | statement | argument |
|---|---|---|
| `TypeCorrect` | `Spec => []TypeOK` | inductive; the interesting part is that the positions of the loops only name registered collectors, and that a remix of typed values is typed (`RemixType`), under every key |
| `QuiescenceHolds` | `Spec => []QuiescentWhenStopped` | `QuiescentWhenStopped` is not inductive: inside `stop()` some threads are joined and others not. `PhaseInv` ties `running` to the client's position; `SamplerInv` says where each collector is relative to the loop: a thread, or `mCollecting`, exists only for collectors of `mRunning` that `start()` has passed and `stop()` has not |
| `RunningDistinctHolds` | `Spec => []RunningDistinct` | `stop()` rebuilds `mRunning` from `tmp`; `TmpInv` says `tmp` is duplicate-free and made of collectors the loop has passed |
| `KilledOnlyForCauseHolds` | `Spec => []KilledOnlyForCause` | `JoinInv`: a threaded collector still to be joined has a thread unless its `start()` failed in this session; uses the two invariants above |
| `NoSampleBegunWhileJoiningHolds` | `Spec => NoSampleBegunWhileJoining` | `SignalInv`: the first loop of `stop()` has set `finished` for the collectors it has passed, so when the joins begin every thread that exists has it set |
| `FreshListsHolds` | `Spec => []FreshLists` | `FreshInv`: the loop of `start()` clears a collector before its thread exists, so the claim holds for the collectors the loop has passed |
| `DroppedOnlyForOldKeyHolds` | `Spec => DroppedOnlyForOldKey` | `KeysInv`: until `stop()` has joined a collector, a key that this session has made has a value; `DropInv`: inside `stop()` each collector the loop has passed is in `tmp`, or threaded with an empty list under an older key (`OldKeyEmpty`), and `tmp` follows the order of `mRunning` |
| `AlignedAtStopHolds` | `Spec => AlignedAtStop` | `EvenInv`: as long as nothing was lost or summarized, a collector without a thread has as many values under each key as there are frame times, and one that `stop()` has remixed too; `TimingInv` says that they begin with none |
| `RemixTakesLastSample` | with `samples * duration` at most half of 2^`Precision` and a last frame that is measurable: the index `k` of a frame is that of a sample, `k * duration <= elapsed * samples`, and every `j` with `j * duration < elapsed * samples` is at most `k` | the sums before a frame grow and stay below the duration (`BeforeTheEnd`). `PowersExist` and `PlacesDef` make doubles defined; `DoubleError` bounds what one rounding changes, `RemixError` what both do, relative to 2^`Precision`: too little to reach the next multiple of `duration` (`SampleTaken`), except from the exact value of one |
| `LastSampleBeforeFrameHolds` | `CasesSpec => []LastSampleBeforeFrame` | `SessionInv`: a session has at least one frame and one sample, its times are natural numbers, and its length (`DurationAtMost`) is within `RemixAssumption`; the rest is `RemixTakesLastSample` |
| `ThrowsOnlyOnEmptyTailHolds` | `Spec => []ThrowsOnlyOnEmptyTail` | the step that throws is a remix whose last frame has no length: otherwise the rounded quotient is below 1 (`QuotientBelowOne`) and the rounded product below the number of samples (`ProductBelow`), for any number of samples (`SampleExists`) |

### Annotations (`GatorProofs`, `SessionProofs`)

| theorem | statement | argument |
|---|---|---|
| `PlainAnnotationsFit` | every annotation of fixed layout writes at most what it reserved | arithmetic over all field sizes and lengths |
| `CounterFitsExactly` | a counter fits iff it has at most 52 - i - j - k - m activities | arithmetic; the sum of the lengths is a natural number by `PrefixSumsGrow` |
| `PackedIsMinimal` | for every `int32_t` the size `gator_buf_write_int` takes is the smallest that holds it with its sign, at most five | the loop is unfolded five times: each round shifts the value by 7 bits (`Shifts`), so it ends where the value is within `Half` (`BytesNest`) |
| `WrittenFitsReservedHolds` | `CasesSpec => []WrittenFitsReserved` | one lemma for the messages of fixed layout, one for each with a list: dependencies take at most five bytes each (`SumAtMost`), activities as many as fit (`SmallCount`); and `PackedIsMinimal` |
| `StopsOnlyAtSeamHolds` | `Spec => StopsOnlyAtSeam` | `SeamInv`: the position `stop` of the sender is reached only with a broken connection or at the seam |
| `ImageLentHolds` | `Spec => []ImageLent` | inductive with the types (`RingType`) |
| `RingIsFifoHolds` | `NoImages => (Spec => RingIsFifo)` | the refinement of `GatorFifo`, step by step. The map takes the bytes between `read_pos` and `write_pos` for the queue. `QueueInv`: the room the writer found is still there when it writes, because the sender only makes more; what it wrote beyond `write_pos` is there when it commits; and the position the sender took as a snapshot is not beyond `write_pos`. `CommitAdds` and `SendTakes` are the two ends of the queue, and the difference of positions modulo `SIZE` is a plain difference in either of two cases (`Wraps`) |
| `StreamUnbrokenHolds` | `NoImages => (Spec => []StreamUnbroken)` | `StreamInv`: the bytes in the ring are the last ones made, in order, and what was sent last is the one before them |
| `OwnedStructsListedHolds` | `Spec => []OwnedStructsListed` | `ListInv` adds that the list has no structure twice, `CurInv` that the sender's position in it is in the list, `WriterInv` and `ForkInv` where a thread has a structure at all |
| `DefinitionsReachCaptureHolds` | `Spec => []DefinitionsReachCapture` | inductive with `SInv`: each step that takes a definition from a buffer either sends it or counts it as dropped |
| `FlushSendsHolds` | `OneFlusher /\ ~MayBeShort => (Spec => FlushSends)` | `FlushInv`: the post of a flush is in just one of `sync_sem`, `sync_count` and `sync_waiter_sem` (`Counted`); during the walk that will answer it, a structure that still holds something is ahead of the sender (`Coming`, `ToVisit`), because pushes are in front of the walk and an unlink keeps the order (`PushKeepsOrder`, `NextKeepsAhead`); a capture that ends drops it (`Quiet`) |

### Vulkan layer (`VulkanProofs`) and ferret (`FerretProofs`)

| theorem | statement | argument |
|---|---|---|
| `QueueHasItsContextHolds` | `Spec => []QueueHasItsContext` | `MapInv`: a live device has a context of its own that is not deleted and not being destroyed; the entry of a queue whose owner lives is that context. The property says nothing of devices between two lives, where the stale entries are |
| `OnlyFirstFrameMissedHolds` | `Spec => []OnlyFirstFrameMissed` | `FrameInv`: the counters of a context say how many triggers it had, when its collectors started and whether they should have finished; `Counted` does one frame |
| `DeletedStoppedHolds` | `Spec => []DeletedStopped` | `EndInv`: a Collection runs only between the start and the first stop of its context, and a file is written once, after that |
| `SuccessMeansAllGoneHolds` | `Spec => []SuccessMeansAllGone` | `StatusInv`: a 0 in the pipe was true when it was written, and stays true because processes do not come back; `FoundInv` and `GoneInv` say why it was true; `LifeInv` when there is a sampler |
| `CollectsOnlyWhenStartedHolds` | `Spec => []CollectsOnlyWhenStarted` | `LifeInv` |
| `ThreadsAccountedHolds` | `CasesSpec => []ThreadsAccounted` | `TraceInv`: at every moment the trace read so far is a function of the samples taken (`TraceOf`), in which the record of a thread is `AccountOf` its samples up to the last but one. `ReadingLoop` unfolds the library's fold over the rows into a loop; with it `SampleRead` says what the rows of one sample do. `AccountNext` is one more sample of one thread, `HistoryNext` of all: the sums per CPU grow by one term (`PerCpuNext`), or stay if the thread was not found or is ignored (`AccountKept`). `SamePast`: a further sample changes nothing of what the earlier ones say. The jiffies of a thread only grow (`UsTimeInv`), so that those since its first sample are the difference of the last and the first. The summary then lists each significant thread once (`SetListed`), and its loop finds the sum and the greatest (`TotalsOf`) |

### Perf and Recording (`SamplingProofs`), power and Mali counters (`DeviceProofs`)

| theorem | statement | argument |
|---|---|---|
| `ScopeSlotExists` | after its resize the vector of sums has a slot for a function exactly if its id is below 65534 | arithmetic over all sizes and ids |
| `GrowsOnly` | a resize never drops sums and never passes the limit | arithmetic |
| `CountersOffBetweenSessionsHolds` | `Spec => []CountersOffBetweenSessions` | `OffInv`: the collector collects only in a session and with every group opened, and otherwise the groups that count are a prefix before one that failed. That the groups are numbered from 1 (`ThreadsIndexed`) needs the configuration to be finite |
| `ExitsOnlyOnIgnoredStartHolds` | `Spec => []ExitsOnlyOnIgnoredStart` | `ScopeInv`: from its beginning to its end, a scope that was seen to begin has its function in the snapshot of each of its thread's groups; no other thread has these groups |
| `ScopeSumsExactHolds` | `MaxTicks < Modulus => (Spec => []ScopeSumsExact)` | `SumInv`: a counter that was not reset since the snapshot is ahead of it by what the scope counted, up to one turn (`Counted`), so the difference the code takes is right (`Difference`); `AddAtVector` and `SumWraps` say that adding at one function changes no other |
| `FramesAccountForTicksHolds` | `MaxTicks < Modulus => (Spec => []FramesAccountForTicks)` | `FrameInv`: the frames a perf_thread holds show what it counted, less what it lost and what it has counted since its last reset (`Due`), where a value that was read and whose counter is not reset yet does not count (`Shown`); and all perf_threads have equally many frames, one more before the position of `collect()` (`Ahead`). The totals are then sums of sums, in which every perf_thread occurs once, with the foreground or the background (`TotalOfSums`, `AllRecorded`) |
| `ResultsAlignedHolds` | `Recorder!Spec => []ResultsAligned` | `CustomInv`: the custom column `i` is its name once per frame time, and its summaries once per summary, as long as no `start()` renamed it; `ColumnInv`: the same for the length of the subject's list and summaries, as long as no sample failed and no summary came too early |
| `DifferencesAddUpHolds` | `Recorder!Spec => []DifferencesAddUp` | `DifferenceInv`: what rusage and procfs remember is what they saw last, for procfs 0 exactly as long as it saw nothing; each sample then appends the next difference (`SumAppend`) |
| `FrequencySinceLastSampleHolds` | `Recorder!Spec => FrequencySinceLastSample` | `FrequencyInv`: a state whose time has gone on since the time kept for it is one of `ranAt`, and there is one if `ranAt` is not empty. So each product of the weighted sum is between the lowest and the highest frequency times its weight, and so is the quotient (`WeightedAverage`) |
| `InStepHolds` | `Spec => []InStep` | `PowerInv`. `Exchanges` says, for each position of the client, what may be on its way in either direction: at most one command or its answer, rows only of this session and only before the answer to `OP`, and nothing between sessions. `Recorded` is the rest: the loop over the frames never hands out more rows than arrived (`LoopState`), by `LoopExists` for any number of frames |
| `FramesHoldCountersHolds` | the Mali collector keeps `[]FramesHoldCounters` | `MaliInv`. `SamplesInOrder`: the samples in the kernel's buffers are newer than the one held, and in order, so a start that succeeds holds a new one. `HeaderInv`: each call of `init()` has added every counter with all its entries, although the masks are asked for only once (`DeviceKnown`). `RecordedInv`: each frame has added one look at every entry, all at the same sample. `ExitInv`: who goes on after a frame had a sample that is not silent, since nothing is read outside the payload. What a look finds is `LooksAtItsPlace`: the virtual cores are numbered without holes in the order of the real ones (`RanksAreNumbers`, `CoresRemapped`, by counting), and a plain name leads back to its own index (`PlainCounter`) |
| `UsesReader` | the specification of `MaliCounters` implies that of `MaliReader` | every step of the collector is a step of the reader or leaves it alone |
| `NothingLeftBehindHolds` | the Mali collector keeps `[]NothingLeftBehind` | `ReaderInv`, which adds the types of the counters, is inductive for the reader: with it `term()` closes everything that is open (`InitKeepsOne`), so that an attempt ends with what it took itself; carried over with `UsesReader` |

### Sums (`SumProofs`)

What a sum is for every length needs induction over the sequence. The library's induction
rules take an operator as parameter, which the provers cannot instantiate; but that a
well-founded relation has minimal elements in every non-empty *set* (`WFMin`) is a plain
fact. `LeastNatural` and `SetInduction` follow from it: a set of naturals with 0 that is
closed under successor is all of them. With it the recursive function `PrefixSums` is shown
to exist and to be determined by its equations (`PrefixSumsExist`, `PrefixSumsDef`), and the
rest follows: `SumAppend`, `PrefixSumsGrow`, `ElementBelowSum`, `SumPointwise`, `SumAtMost`,
`WeightedSums`, `WeightedAverage`. `LoopExists` says the same of any loop over a sequence:
a function with its equations exists and stays in the set of states its body keeps.

### Only model-checked

* All liveness properties, `FlushReturns` to `CallsComeBack`: fairness is out of the
  prover's reach.

Every safety invariant the runs check is stated by a theorem.

## 6. Not modelled

The scope calls of the Collection beyond handing them to the perf collector, and perf's
CSV files. The numbers gpufreq, cputemp and memory parse: they are values of the moment,
so these are collectors that may fail. The tables of counter names and the structures of
the Mali driver are data; the branch for its newer ioctls is compiled out
(`hwcpipe.cpp:70`). The text of results and CSV files, logging, the command line, the
dispatch tables of the Vulkan layer, `ferret.py`. Overflow of 32-bit frame counters and
negative configuration values in the layer. Two sessions of the ferret collector in
one process (`notify` keeps its last status in a static), a second `initialize()` for the
collectors in `Recording`, and queues obtained by `vkGetDeviceQueue2`, which the layer does
not intercept.

## 7. Plan

Done: the Collection with its threads and its data path, the remix, annotations (sizes,
ring, threads), the Vulkan layer, ferret with burrow and its post-processing, perf, power,
Mali counters, rusage, procfs and cpufreq; theorems about the Collection, the annotations
with the refinement of the ring, the Vulkan layer, ferret, perf, the data path with rusage,
procfs and cpufreq, the Mali counters, power, the remix and the other pure operators.

Next, in order of importance:

1. An abstract lifecycle of a Collection that both `Collection` implements and
   `VulkanLayer` uses, in place of the layer's own abstraction of `stop()`.
2. Two sessions of ferret in one process; the composition of `Ferret` with `Collection`.
