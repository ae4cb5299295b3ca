------------------------------ MODULE GatorRing ------------------------------
(***************************************************************************)
(* The ring buffer of one gator_thread of streamline_annotate.cpp: the     *)
(* annotating thread writes at write_pos, the sender thread (gator_func)   *)
(* sends from read_pos.  There is no lock; the annotating thread sleeps on *)
(* the thread's semaphore when there is no room, and while an image, which *)
(* is sent from the caller's memory (oob_data), has not gone out.          *)
(*                                                                         *)
(* A byte is the number it has in the stream the thread makes.  The posts  *)
(* of sender_sem are left out: they only shorten a wait of at most 100 ms, *)
(* so the sender may make its next pass at any time.                       *)
(***************************************************************************)
EXTENDS Integers, Sequences

CONSTANTS
  SIZE,       \* THREAD_BUFFER_SIZE
  Messages,   \* annotations: bytes reserved, bytes written, bytes of image
  MaxBatch,   \* annotations one call may make: its own and definitions sent again
  MayFail,    \* whether the connection to gatord may break
  MaxMade,    \* bound: bytes made
  MaxStarts   \* bound: how often gatord resumes capturing

ASSUME SizeAssumption == SIZE \in Nat /\ SIZE > 1 /\ SIZE % 2 = 0

ASSUME MessagesAssumption ==
  /\ Messages \subseteq [reserved : Nat \ {0}, written : Nat \ {0}, image : Nat]
  /\ \A m \in Messages : m.written <= m.reserved
  /\ MaxBatch \in Nat \ {0}
  /\ MayFail \in BOOLEAN /\ MaxMade \in Nat /\ MaxStarts \in Nat

VARIABLES
  \* struct gator_thread
  buf, write_pos, read_pos, oob_data, oob_length, sem, fd,
  capturing,
  \* the annotating thread: where it is, the annotation it makes, and how many
  \* are left to be made in this call
  writer, message, left,
  \* the sender thread: where it is and the write_pos it has read
  sender, snapshot,
  \* gatord: bytes received on the present connection, and whether it is gone
  wire, broken,
  \* history: bytes made, where annotations end, starts of capturing
  made, ends, starts

threadVars == <<buf, write_pos, read_pos, oob_data, oob_length, sem, fd>>
writerVars == <<writer, message, left>>
senderVars == <<sender, snapshot>>
otherVars == <<broken, made, ends, starts>>
vars == <<threadVars, capturing, writerVars, senderVars, wire, otherVars>>

Positions == 0..SIZE-1
None == [reserved |-> 0, written |-> 0, image |-> 0]

TypeOK ==
  /\ buf \in [Positions -> 0..MaxMade]
  /\ write_pos \in Positions /\ read_pos \in Positions
  /\ oob_data \in 0..MaxMade /\ oob_length \in Nat /\ sem \in Nat
  /\ fd \in BOOLEAN /\ capturing \in BOOLEAN
  /\ writer \in {"idle", "room", "asleep", "write", "commit", "image", "drain", "drowsy"}
  /\ message \in Messages \cup {None} /\ left \in 0..MaxBatch
  /\ sender \in {"connect", "read", "test", "send", "rest", "oob", "post",
                 "stop", "drop", "close", "parked"}
  /\ snapshot \in Positions
  /\ wire \in Seq(0..MaxMade) /\ broken \in BOOLEAN
  /\ made \in 0..MaxMade /\ ends \in SUBSET (0..MaxMade) /\ starts \in 0..MaxStarts

Init ==
  /\ buf = [i \in Positions |-> 0]
  /\ write_pos = 0 /\ read_pos = 0
  /\ oob_data = 0 /\ oob_length = 0 /\ sem = 0 /\ fd = FALSE
  /\ capturing = TRUE
  /\ writer = "idle" /\ message = None /\ left = 0
  /\ sender = "connect" /\ snapshot = 0
  /\ wire = <<>> /\ broken = FALSE
  /\ made = 0 /\ ends = {0} /\ starts = 0

gator_buf_pos(pos) == pos % SIZE
gator_buf_used == (write_pos - read_pos) % SIZE

gator_buf_free_all == SIZE - gator_buf_used
gator_buf_free == (read_pos - write_pos - 1) % SIZE

-------------------------------------------------------------------------------
(* The annotating thread.                                                      *)

Fitting == {m \in Messages : m.reserved <= SIZE \div 2}

\* The bound MaxMade: a call begins only if n annotations stay below it.
Affordable(n) == \A m \in Fitting : made + n * (m.written + m.image) <= MaxMade

\* The next annotation of the call: what does not fit half the ring is refused.
\* Only the caller's own annotation, the last one, may be an image.
Choose(n) ==
  \E m \in Fitting :
    /\ n > 1 => m.image = 0
    /\ message' = m /\ left' = n /\ writer' = "room"

\* gator_get_thread returned the thread, after it has sent the definitions again
\* if capturing has just started.  Without capturing the call returns at once.
Begin ==
  /\ writer = "idle" /\ capturing
  /\ \E n \in 1..MaxBatch : Affordable(n) /\ Choose(n)
  /\ UNCHANGED <<threadVars, capturing, senderVars, wire, otherVars>>

\* __gator_buf_wait_bytes
Room ==
  /\ writer = "room"
  /\ writer' = IF gator_buf_free < message.reserved THEN "asleep" ELSE "write"
  /\ UNCHANGED <<threadVars, capturing, message, left, senderVars, wire, otherVars>>

\* sem_wait(&thread->sem), in either of the two loops.
Wake ==
  /\ writer \in {"asleep", "drowsy"} /\ sem > 0
  /\ sem' = sem - 1
  /\ writer' = IF writer = "asleep" THEN "room" ELSE "drain"
  /\ UNCHANGED <<buf, write_pos, read_pos, oob_data, oob_length, fd, capturing,
                 message, left, senderVars, wire, otherVars>>

\* Where the k-th byte of a message goes, and the message's bytes in place.
Place(k) == gator_buf_pos(write_pos + k - 1)
Written ==
  [i \in Positions |->
     IF \E k \in 1..message.written : Place(k) = i
     THEN made + (CHOOSE k \in 1..message.written : Place(k) = i)
     ELSE buf[i]]

Write ==
  /\ writer = "write"
  /\ buf' = Written
  /\ writer' = "commit"
  /\ UNCHANGED <<write_pos, read_pos, oob_data, oob_length, sem, fd, capturing,
                 message, left, senderVars, wire, otherVars>>

Return == writer' = "idle" /\ message' = None /\ left' = 0

\* gator_msg_end, or the first part of gator_annotate_visual.
Commit ==
  /\ writer = "commit"
  /\ write_pos' = gator_buf_pos(write_pos + message.written)
  /\ made' = made + message.written + message.image
  /\ ends' = ends \cup {made'}
  /\ \/ message.image > 0 /\ writer' = "image" /\ UNCHANGED <<message, left>>
     \/ message.image = 0 /\ left > 1 /\ Choose(left - 1)
     \/ message.image = 0 /\ left = 1 /\ Return
  /\ UNCHANGED <<buf, read_pos, oob_data, oob_length, sem, fd, capturing,
                 senderVars, wire, broken, starts>>

Image ==
  /\ writer = "image"
  /\ oob_data' = made - message.image + 1
  /\ oob_length' = message.image
  /\ writer' = "drain"
  /\ UNCHANGED <<buf, write_pos, read_pos, sem, fd, capturing, message, left, senderVars,
                 wire, otherVars>>

\* The loop of gator_annotate_visual ends when nothing of the image is left.
DrainedOnce == Return
Drained ==
  \/ oob_length > 0 /\ writer' = "drowsy" /\ UNCHANGED <<message, left>>
  \/ oob_length = 0 /\ Return

Drain ==
  /\ writer = "drain"
  /\ Drained
  /\ UNCHANGED <<threadVars, capturing, senderVars, wire, otherVars>>

Writer == Room \/ Wake \/ Write \/ Commit \/ Image \/ Drain

-------------------------------------------------------------------------------
(* The sender thread's pass over this thread.                                  *)

\* gatord goes away; from then on connect() and send() may fail.
Break ==
  /\ MayFail /\ ~broken
  /\ broken' = TRUE
  /\ UNCHANGED <<threadVars, capturing, writerVars, senderVars, wire, made, ends, starts>>

Fail == broken /\ sender' = "stop"

\* gator_connect
Connect ==
  /\ sender = "connect"
  /\ \/ fd /\ sender' = "read" /\ UNCHANGED fd
     \/ ~fd /\ fd' = TRUE /\ sender' = "read"
     \/ ~fd /\ Fail /\ UNCHANGED fd
  /\ UNCHANGED <<buf, write_pos, read_pos, oob_data, oob_length, sem, capturing,
                 writerVars, snapshot, wire, otherVars>>

ReadPos ==
  /\ sender = "read"
  /\ snapshot' = write_pos /\ sender' = "test"
  /\ UNCHANGED <<threadVars, capturing, writerVars, wire, otherVars>>

Pending ==
  /\ sender = "test"
  /\ sender' = IF snapshot # read_pos \/ oob_length > 0 THEN "send" ELSE "connect"
  /\ UNCHANGED <<threadVars, capturing, writerVars, snapshot, wire, otherVars>>

SendBytesOrStop(count, then) ==
  \E bytes \in 1..count :
    /\ wire' = wire \o [k \in 1..bytes |-> buf[read_pos + k - 1]]
    /\ read_pos' = gator_buf_pos(read_pos + bytes)
    /\ sender' = IF bytes = count THEN then ELSE "stop"

\* send() of `count' bytes at read_pos: it takes some of them; `then' is where
\* the sender goes when it took them all.  A short write ends the turn.
SendBytes(count, then) ==
  \/ \E bytes \in 1..count :
       /\ wire' = wire \o [k \in 1..bytes |-> buf[read_pos + k - 1]]
       /\ read_pos' = gator_buf_pos(read_pos + bytes)
       /\ sender' = IF bytes = count THEN then ELSE "post"
  \/ Fail /\ UNCHANGED <<wire, read_pos>>

\* gator_send: up to write_pos, or to the end of the ring and then the rest.
SendFirst ==
  IF snapshot > read_pos THEN SendBytes(snapshot - read_pos, "oob")
  ELSE SendBytes(SIZE - read_pos, "rest")

Send ==
  /\ sender = "send"
  /\ SendFirst
  /\ UNCHANGED <<buf, write_pos, oob_data, oob_length, sem, fd, capturing, writerVars, snapshot, otherVars>>

\* A send() of no bytes returns 0, which gator_send takes for a failure.
SendRest ==
  /\ sender = "rest"
  /\ \/ snapshot = 0 /\ sender' = "stop" /\ UNCHANGED <<wire, read_pos>>
     \/ snapshot > 0 /\ SendBytes(snapshot, "oob")
  /\ UNCHANGED <<buf, write_pos, oob_data, oob_length, sem, fd, capturing, writerVars, snapshot, otherVars>>

SendOob ==
  /\ sender = "oob"
  /\ \/ /\ oob_length = 0
        /\ sender' = "post" /\ UNCHANGED <<wire, oob_data, oob_length>>
     \/ \E bytes \in 1..oob_length :
          /\ wire' = wire \o [k \in 1..bytes |-> oob_data + k - 1]
          /\ oob_data' = oob_data + bytes
          /\ oob_length' = oob_length - bytes
          /\ sender' = "post"
     \/ oob_length > 0 /\ Fail /\ UNCHANGED <<wire, oob_data, oob_length>>
  /\ UNCHANGED <<buf, write_pos, read_pos, sem, fd, capturing, writerVars,
                 snapshot, otherVars>>

Post ==
  /\ sender = "post"
  /\ sem' = sem + 1 /\ sender' = "connect"
  /\ UNCHANGED <<buf, write_pos, read_pos, oob_data, oob_length, fd, capturing, writerVars, snapshot, wire, otherVars>>

\* gator_stop_capturing: the flag, then the thread's fields in this order.
Stop ==
  /\ sender = "stop"
  /\ capturing' = FALSE /\ sender' = "drop"
  /\ UNCHANGED <<threadVars, writerVars, snapshot, wire, otherVars>>

KeepUnsent == read_pos
DropUnsent == write_pos

StopDrop ==
  /\ sender = "drop"
  /\ read_pos' = DropUnsent /\ sender' = "close"
  /\ UNCHANGED <<buf, write_pos, oob_data, oob_length, sem, fd, capturing, writerVars, snapshot, wire, otherVars>>

SilentClose == sem
WakeWriter == sem + 1

StopClose ==
  /\ sender = "close"
  /\ oob_length' = 0 /\ sem' = WakeWriter /\ fd' = FALSE
  /\ wire' = <<>> /\ sender' = "parked"
  /\ UNCHANGED <<buf, write_pos, read_pos, oob_data, capturing, writerVars,
                 snapshot, otherVars>>

\* gatord, back if it was gone, asks for data again: gator_start_capturing.
Resume ==
  /\ sender = "parked" /\ starts < MaxStarts
  /\ capturing' = TRUE /\ starts' = starts + 1 /\ sender' = "connect"
  /\ broken' = FALSE
  /\ UNCHANGED <<threadVars, writerVars, snapshot, wire, made, ends>>

Sender ==
  \/ Connect \/ ReadPos \/ Pending \/ Send \/ SendRest \/ SendOob \/ Post
  \/ Stop \/ StopDrop \/ StopClose

Next == Begin \/ Writer \/ Sender \/ Break \/ Resume

Spec == Init /\ [][Next]_vars

\* Both threads are scheduled; whether another annotation is made is up to the
\* program, whether capturing resumes up to gatord.
FairSpec == Spec /\ WF_vars(Writer) /\ WF_vars(Sender)

-------------------------------------------------------------------------------
(* The bytes committed and not sent, as gator_send would find them.            *)
Unsent == [k \in 1..gator_buf_used |-> buf[gator_buf_pos(read_pos + k - 1)]]

Fifo == INSTANCE GatorFifo WITH queue <- Unsent, open <- sender # "close"

\* The ring is a queue: annotations become visible whole and in order, no byte
\* is overwritten before it was sent, sent twice or skipped, whatever the two
\* threads do between reading a position and using it.
RingIsFifo == Fifo!Spec

\* gatord receives consecutive bytes of the stream on a connection, and a new
\* connection starts with the first byte of an annotation: a stop may cut an
\* annotation off, the next connection never begins in the middle of one.
StreamUnbroken ==
  /\ \A k \in 1..Len(wire)-1 : wire[k+1] = wire[k] + 1
  /\ wire # <<>> => wire[1] - 1 \in ends

\* The sender reads an image from the caller's memory only while the caller is
\* still in gator_annotate_visual: a stop, a restart or a short write never
\* leaves it with a pointer to memory the caller may have freed.
ImageLent == oob_length > 0 => writer \in {"drain", "drowsy"}

\* Capturing is given up while the connection works only at the seam of the
\* ring: everything up to its end was sent and the next byte is not there yet.
StopsOnlyAtSeam ==
  [][capturing /\ ~capturing' => broken \/ (snapshot = 0 /\ read_pos = 0)]_vars

\* A call that makes one annotation comes back to its caller, whether gatord takes
\* the data, is slow, or goes away in the middle of it.
AnnotationReturns == writer # "idle" ~> writer = "idle"
===============================================================================
