----------------------------- MODULE GatorSession -----------------------------
(***************************************************************************)
(* streamline_annotate.cpp across threads: the lock-free list of           *)
(* gator_thread structures, which annotating threads push on and only the  *)
(* sender unlinks from and frees; the capturing flag; definitions that are *)
(* sent again when a capture starts (resend_state); gator_annotate_flush;  *)
(* threads that exit; fork().                                              *)
(*                                                                         *)
(* A thread's ring buffer is the queue of annotations that GatorRing is    *)
(* shown to implement; waiting for room in it is GatorRing's subject.  A   *)
(* structure is named by its address, so that a freed one can come back.   *)
(***************************************************************************)
EXTENDS Integers, Sequences, SequencesExt

CONSTANTS
  Writers,      \* annotating threads
  Structs,      \* addresses malloc can return for a gator_thread
  Defs,         \* definitions: counters, tracks and views with their names
  Null,         \* no structure
  Flushers,     \* threads that call gator_annotate_flush
  MayExit, MayFork, MayFail, MayBeShort,  \* what can happen
  MaxCalls      \* bound: calls made by the annotating threads

ASSUME SessionAssumption ==
  /\ Flushers \subseteq Writers /\ Null \notin Structs /\ "text" \notin Defs
  /\ MayExit \in BOOLEAN /\ MayFork \in BOOLEAN
  /\ MayFail \in BOOLEAN /\ MayBeShort \in BOOLEAN /\ MaxCalls \in Nat

VARIABLES
  threads,      \* gator_state.threads, head first
  exited,       \* structures whose thread has ended
  buffered,     \* annotations committed and not sent, per structure
  defs,         \* gator_state.counters, cam_tracks and cam_names
  capturing, resend_state, forked,
  sync_sem, sync_waiter_sem,
  \* an annotating thread: where it is, its pthread key, what it has to write
  at, own, todo,
  \* the sender: where it is, parent_fd, and the locals of its loop
  sender, connected, sync_count, cur, atHead, snapshot,
  \* gatord: definitions received in this capture; history: those this process has
  \* dropped in it, with an ended thread, for lack of memory or in a fork
  known, lost,
  calls

writerVars == <<at, own, todo, calls>>
localVars == <<sync_count, cur, atHead, snapshot>>
listVars == <<threads, exited, buffered>>
flagVars == <<capturing, resend_state, forked>>
semVars == <<sync_sem, sync_waiter_sem>>
captureVars == <<known, lost>>
vars == <<listVars, defs, flagVars, semVars, writerVars, sender, connected, localVars,
          captureVars>>

Token == Defs \cup {"text"}

TypeOK ==
  /\ threads \in Seq(Structs) /\ exited \in SUBSET Structs
  /\ buffered \in [Structs -> Seq(Token)]
  /\ defs \in Seq(Defs)
  /\ capturing \in BOOLEAN /\ resend_state \in BOOLEAN /\ forked \in BOOLEAN
  /\ sync_sem \in Nat /\ sync_waiter_sem \in Nat
  /\ at \in [Writers -> {"idle", "get", "register", "resend", "write", "flush", "wait",
                         "gone"}]
  /\ own \in [Writers -> Structs \cup {Null}]
  /\ todo \in [Writers -> Seq(Token)]
  /\ sender \in {"none", "loop", "started", "restarted", "read", "sync", "thread",
                 "send", "next", "stop", "post"}
  /\ connected \in BOOLEAN
  /\ sync_count \in Nat /\ cur \in Structs \cup {Null} /\ atHead \in BOOLEAN
  /\ snapshot \in Nat /\ known \in SUBSET Defs /\ lost \in SUBSET Defs
  /\ calls \in 0..MaxCalls

\* After gator_annotate_setup; a failure in it leaves no sender behind.
Init ==
  /\ threads = <<>> /\ exited = {} /\ buffered = [s \in Structs |-> <<>>]
  /\ defs = <<>>
  /\ capturing = TRUE /\ resend_state = FALSE /\ forked = FALSE
  /\ sync_sem = 0 /\ sync_waiter_sem = 0
  /\ at = [w \in Writers |-> "idle"]
  /\ own = [w \in Writers |-> Null]
  /\ todo = [w \in Writers |-> <<>>]
  /\ sender \in IF MayFail THEN {"loop", "none"} ELSE {"loop"}
  /\ connected = FALSE
  /\ sync_count = 0 /\ cur = Null /\ atHead = TRUE /\ snapshot = 0
  /\ known = {} /\ lost = {} /\ calls = 0

-------------------------------------------------------------------------------
(* The annotating threads.                                                     *)

Call(w, where) ==
  /\ at[w] = "idle" /\ calls < MaxCalls
  /\ calls' = calls + 1
  /\ at' = [at EXCEPT ![w] = where]

Annotate(w) ==
  /\ Call(w, "get")
  /\ todo' = [todo EXCEPT ![w] = <<"text">>]
  /\ UNCHANGED <<listVars, defs, flagVars, semVars, own, sender, connected, localVars,
                 captureVars>>

\* gator_annotate_counter, gator_cam_track, gator_cam_view_name save the definition
\* before they ask for the thread.
Define(w, d) ==
  /\ Call(w, "get") /\ d \notin ToSet(defs)
  /\ defs' = <<d>> \o defs
  /\ todo' = [todo EXCEPT ![w] = <<d>>]
  /\ UNCHANGED <<listVars, flagVars, semVars, own, sender, connected, localVars,
                 captureVars>>

Definitions(s) == ToSet(s) \cap Defs

GiveUp(w) ==
  /\ at' = [at EXCEPT ![w] = "idle"]
  /\ lost' = lost \cup Definitions(todo[w])
  /\ todo' = [todo EXCEPT ![w] = <<>>]

\* gator_get_thread starts a sender in a forked child, which may fail, and gives
\* up unless a capture is on.
GetThread(w) ==
  /\ at[w] = "get"
  /\ forked' = FALSE
  /\ \/ /\ IF forked THEN sender' = "loop" /\ connected' = FALSE
                      ELSE UNCHANGED <<sender, connected>>
        /\ IF capturing THEN at' = [at EXCEPT ![w] = "register"] /\ UNCHANGED <<todo, lost>>
                        ELSE GiveUp(w)
     \/ forked /\ MayFail /\ GiveUp(w) /\ UNCHANGED <<sender, connected>>
  /\ UNCHANGED <<listVars, defs, capturing, resend_state, semVars, own, calls, localVars,
                 known>>

Free == Structs \ ToSet(threads)

\* A thread without a structure allocates one and pushes it on the list.
Register(w) ==
  /\ at[w] = "register"
  /\ \/ /\ own[w] # Null
        /\ at' = [at EXCEPT ![w] = "resend"]
        /\ UNCHANGED <<threads, exited, buffered, own, todo, lost>>
     \/ \E s \in Free :
          /\ own[w] = Null
          /\ threads' = <<s>> \o threads
          /\ exited' = exited \ {s}
          /\ buffered' = [buffered EXCEPT ![s] = <<>>]
          /\ own' = [own EXCEPT ![w] = s]
          /\ at' = [at EXCEPT ![w] = "resend"]
          /\ UNCHANGED <<todo, lost>>
     \/ /\ own[w] = Null /\ Free = {}     \* malloc failed
        /\ GiveUp(w)
        /\ UNCHANGED <<threads, exited, buffered, own>>
  /\ UNCHANGED <<defs, flagVars, semVars, calls, sender, connected, localVars, known>>

\* The thread that clears resend_state writes all the definitions first.
ResendNothing(w) == todo[w]
ResendFirst(w) == IF resend_state THEN defs \o todo[w] ELSE todo[w]

Resend(w) ==
  /\ at[w] = "resend"
  /\ resend_state' = FALSE
  /\ todo' = [todo EXCEPT ![w] = ResendFirst(w)]
  /\ at' = [at EXCEPT ![w] = "write"]
  /\ UNCHANGED <<listVars, defs, capturing, forked, semVars, own, calls, sender, connected,
                 localVars, captureVars>>

\* One message written and committed.
WriteOne(w) ==
  /\ at[w] = "write"
  /\ buffered' = [buffered EXCEPT ![own[w]] = Append(@, Head(todo[w]))]
  /\ todo' = [todo EXCEPT ![w] = Tail(@)]
  /\ at' = IF Len(todo[w]) = 1 THEN [at EXCEPT ![w] = "idle"] ELSE at
  /\ UNCHANGED <<threads, exited, defs, flagVars, semVars, own, calls, sender, connected,
                 localVars, captureVars>>

\* gator_annotate_flush: nothing to do without a capture.
FlushBegin(w) ==
  /\ w \in Flushers /\ capturing
  /\ Call(w, "flush")
  /\ UNCHANGED <<listVars, defs, flagVars, semVars, own, todo, sender, connected, localVars,
                 captureVars>>

FlushPost(w) ==
  /\ at[w] = "flush"
  /\ sync_sem' = sync_sem + 1
  /\ at' = [at EXCEPT ![w] = "wait"]
  /\ UNCHANGED <<listVars, defs, flagVars, sync_waiter_sem, own, todo, calls, sender,
                 connected, localVars, captureVars>>

FlushWait(w) ==
  /\ at[w] = "wait" /\ sync_waiter_sem > 0
  /\ sync_waiter_sem' = sync_waiter_sem - 1
  /\ at' = [at EXCEPT ![w] = "idle"]
  /\ UNCHANGED <<listVars, defs, flagVars, sync_sem, own, todo, calls, sender, connected,
                 localVars, captureVars>>

\* A thread ends (gator_destructor) and another may take its place.
ThreadExit(w) ==
  /\ MayExit /\ own[w] # Null
  /\ Call(w, "idle")
  /\ exited' = exited \cup {own[w]}
  /\ own' = [own EXCEPT ![w] = Null]
  /\ UNCHANGED <<threads, buffered, defs, flagVars, semVars, todo, sender, connected,
                 localVars, captureVars>>

\* fork(), seen from the child (gator_annotate_fork_child): only the calling
\* thread goes on, the list and the flags are copies.
Fork(w) ==
  /\ MayFork /\ at[w] = "idle" /\ calls < MaxCalls
  /\ calls' = calls + 1
  /\ at' = [v \in Writers |-> IF v = w THEN "idle" ELSE "gone"]
  /\ own' = [v \in Writers |-> Null]
  /\ todo' = [v \in Writers |-> <<>>]
  /\ exited' = exited \cup ToSet(threads)
  /\ buffered' = [s \in Structs |-> <<>>]
  /\ forked' = TRUE
  /\ sender' = "none" /\ sync_count' = 0 /\ cur' = Null /\ atHead' = TRUE /\ snapshot' = 0
  /\ known' = {} /\ lost' = ToSet(defs)
  /\ UNCHANGED <<threads, defs, capturing, resend_state, semVars, connected>>

Writer(w) ==
  GetThread(w) \/ Register(w) \/ Resend(w) \/ WriteOne(w) \/ FlushPost(w) \/ FlushWait(w)

-------------------------------------------------------------------------------
(* gator_func.                                                                 *)

\* gator_stop_capturing, over the list as it is.
StopCapturing ==
  /\ capturing' = FALSE
  /\ buffered' = [s \in Structs |-> IF capturing /\ s \in ToSet(threads) THEN <<>>
                                    ELSE buffered[s]]
  /\ known' = {}

\* The compare-and-swap of gator_start_capturing; resend_state is set after it,
\* and only if capturing was off.
StartCapturing(then) ==
  /\ capturing' = TRUE
  /\ sender' = IF capturing THEN "sync" ELSE then
  /\ lost' = IF capturing THEN lost ELSE {}

\* gator_parent_connect succeeds or fails.
Loop ==
  /\ sender = "loop"
  /\ \/ ~connected /\ connected' = TRUE /\ StartCapturing("started")
        /\ UNCHANGED <<buffered, known>>
     \/ ~connected /\ MayFail /\ StopCapturing /\ UNCHANGED <<sender, connected, lost>>
     \/ /\ connected /\ sender' = IF capturing THEN "sync" ELSE "read"
        /\ UNCHANGED <<connected, capturing, buffered, captureVars>>
  /\ UNCHANGED <<threads, exited, defs, resend_state, forked, semVars, writerVars, localVars>>

\* After the blocking read resend_state is set twice.
Started ==
  /\ sender \in {"started", "restarted"}
  /\ resend_state' = TRUE
  /\ sender' = IF sender = "restarted" THEN "started" ELSE "sync"
  /\ UNCHANGED <<listVars, defs, capturing, forked, semVars, writerVars, connected,
                 localVars, captureVars>>

\* read(parent_fd) blocks until gatord asks for data or is gone.
ReadParent ==
  /\ sender = "read"
  /\ \/ StartCapturing("restarted") /\ UNCHANGED connected
     \/ MayFail /\ connected' = FALSE /\ sender' = "loop"
        /\ UNCHANGED <<capturing, lost>>
  /\ UNCHANGED <<listVars, defs, resend_state, forked, semVars, writerVars, localVars, known>>

GoTo(s) ==
  /\ cur' = s
  /\ sender' = IF s = Null THEN "post" ELSE "thread"

SyncCount ==
  /\ sender = "sync"
  /\ sync_count' = sync_sem /\ sync_sem' = 0
  /\ GoTo(IF threads = <<>> THEN Null ELSE Head(threads))
  /\ atHead' = TRUE
  /\ UNCHANGED <<listVars, defs, flagVars, sync_waiter_sem, writerVars, connected, snapshot,
                 captureVars>>

\* Connect if need be and read write_pos.
Visit ==
  /\ sender = "thread"
  /\ \/ capturing /\ snapshot' = Len(buffered[cur]) /\ sender' = "send"
     \/ capturing /\ MayFail /\ sender' = "stop" /\ UNCHANGED snapshot
     \/ ~capturing /\ sender' = "next" /\ UNCHANGED snapshot
  /\ UNCHANGED <<listVars, defs, flagVars, semVars, writerVars, connected, sync_count, cur,
                 atHead, captureVars>>

\* gator_send: what was there at the snapshot, or, after a short write, less.
SendCount(count) ==
  /\ known' = known \cup Definitions(SubSeq(buffered[cur], 1, count))
  /\ buffered' = [buffered EXCEPT ![cur] = SubSeq(@, count + 1, Len(@))]

\* Data that ends at the seam of the ring is sent, and then nothing: that stops the
\* capture although the connection works (where the seam is is GatorRing's subject).
SeamStop == snapshot > 0 /\ SendCount(snapshot) /\ sender' = "stop"

Send ==
  /\ sender = "send"
  /\ \/ \E count \in 0..snapshot :
          (count = snapshot \/ MayBeShort) /\ SendCount(count) /\ sender' = "next"
     \/ SeamStop
     \/ snapshot > 0 /\ MayFail /\ sender' = "stop" /\ UNCHANGED <<buffered, known>>
  /\ UNCHANGED <<threads, exited, defs, flagVars, semVars, writerVars, connected, localVars,
                 lost>>

Stop ==
  /\ sender = "stop"
  /\ StopCapturing
  /\ sender' = "next"
  /\ UNCHANGED <<threads, exited, defs, resend_state, forked, semVars, writerVars, connected,
                 localVars, lost>>

Position(s) == CHOOSE i \in DOMAIN threads : threads[i] = s
Following(s) == IF Position(s) = Len(threads) THEN Null ELSE threads[Position(s) + 1]

\* An exited structure is unlinked and freed, if the compare-and-swap on *prev
\* succeeds: it fails when prev is the head of the list and another structure
\* was pushed meanwhile.
UnlinkBlindly(s) ==
  IF s \notin exited THEN threads
  ELSE IF atHead THEN SubSeq(threads, Position(s) + 1, Len(threads))
  ELSE RemoveAt(threads, Position(s))

UnlinkNever(s) == threads

Unlink(s) ==
  IF s \in exited /\ (~atHead \/ Head(threads) = s)
  THEN RemoveAt(threads, Position(s)) ELSE threads

NextThread ==
  /\ sender = "next"
  /\ GoTo(Following(cur))
  /\ threads' = Unlink(cur)
  /\ lost' = IF threads' = threads THEN lost ELSE lost \cup Definitions(buffered[cur])
  /\ atHead' = (atHead /\ threads' # threads)
  /\ UNCHANGED <<exited, buffered, defs, flagVars, semVars, writerVars, connected, sync_count,
                 snapshot, known>>

PostNone == 0
PostOnce == 1
PostCount == sync_count

SyncPost ==
  /\ sender = "post"
  /\ sync_waiter_sem' = sync_waiter_sem + PostCount
  /\ sync_count' = 0 /\ sender' = "loop"
  /\ UNCHANGED <<listVars, defs, flagVars, sync_sem, writerVars, connected, cur, atHead,
                 snapshot, captureVars>>

Sender ==
  Loop \/ Started \/ SyncCount \/ Visit \/ Send \/ Stop \/ NextThread \/ SyncPost

Next ==
  \/ \E w \in Writers :
       \/ Annotate(w) \/ (\E d \in Defs : Define(w, d)) \/ FlushBegin(w)
       \/ ThreadExit(w) \/ Fork(w)
       \/ Writer(w)
  \/ Sender \/ ReadParent

Spec == Init /\ [][Next]_vars

\* Threads are scheduled; whether gatord answers the read is up to gatord.
FairSpec == Spec /\ WF_vars(Sender) /\ \A w \in Writers : WF_vars(Writer(w))

-------------------------------------------------------------------------------
\* The sender frees a structure only when no thread can write to it any more,
\* and never loses one that is in use from its list, although threads push
\* structures while it walks and unlinks.
OwnedStructsListed ==
  /\ \A w \in Writers : own[w] # Null => own[w] \in ToSet(threads) \ exited
  /\ \A v, w \in Writers : own[v] = own[w] /\ own[v] # Null => v = w

\* A capture learns every definition, also those made before it started, and
\* whatever the order of the flags and of the threads that send again: it has
\* it, or it is on its way, or the next annotation will send it again.  The only
\* ones missing were dropped since the capture started.
DefinitionsReachCapture ==
  capturing =>
    \A d \in ToSet(defs) \ lost :
      \/ d \in known
      \/ \E s \in ToSet(threads) : d \in ToSet(buffered[s])
      \/ \E w \in Writers : d \in ToSet(todo[w])
      \/ resend_state \/ sender \in {"started", "restarted"}

\* streamline_annotate.cpp:149, "Posted when synchronous send of data has completed":
\* when a flush returns, what its thread had made before is no longer waiting.  One
\* thread flushes; two would take each other's posts.
FlushSends ==
  [][\A w \in Writers :
       at[w] = "wait" /\ at'[w] = "idle" /\ own[w] # Null => buffered[own[w]] = <<>>]_vars

\* The sender does not walk the list: it waits for gatord to begin a capture
\* (streamline_annotate.cpp:506) or to be there at all (:499), or there is none.
WaitsForGatord ==
  sender \in {"read", "none"} \/ (sender = "loop" /\ ~connected)

\* A flush comes back, and with it an exit() (gator_annotate_flush is called by atexit),
\* whatever stops the capture meanwhile, unless the sender waits for gatord for good.
FlushReturns ==
  []<>~WaitsForGatord =>
    \A w \in Writers : at[w] = "flush" ~> at[w] \in {"idle", "gone"}

\* The structure of a thread that has ended is freed, under the same condition.
ExitedReclaimed ==
  []<>~WaitsForGatord =>
    \A s \in Structs : (s \in exited /\ s \in ToSet(threads)) ~> s \notin ToSet(threads)
===============================================================================
