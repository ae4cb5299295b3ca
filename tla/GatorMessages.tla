---------------------------- MODULE GatorMessages ----------------------------
(***************************************************************************)
(* How many bytes the annotations of streamline_annotate.cpp take.  Every  *)
(* annotation function first reserves room in the thread's ring buffer     *)
(* (gator_buf_wait_bytes, with the largest size its fields can have) and   *)
(* then writes its fields; nothing checks the second number against the    *)
(* first.  A message is the pair of the two; contents do not matter.       *)
(*                                                                         *)
(* i, j, k, l, m are the bytes a packed int took, t, u those of a packed   *)
(* long, n the length of a string, ints the sizes of an array of ints.     *)
(***************************************************************************)
EXTENDS Sums

SIZE_COLOR == 4
MAXSIZE_PACK_INT == 5
MAXSIZE_PACK_LONG == 10
HEADER_SIZE == 1 + 4    \* gator_msg_begin: the marker, room for the length

PackedInt == 1..MAXSIZE_PACK_INT
PackedLong == 1..MAXSIZE_PACK_LONG

MAX_INT == 2147483647
Int32 == -MAX_INT - 1..MAX_INT

\* gator_buf_write_int: seven bits per byte until what is left is the sign of
\* the byte written last.
PackSize(x) ==
  LET size[v \in Int32] ==
        LET b == v % 128
            rest == v \div 128
        IN  IF (rest = 0 /\ b < 64) \/ (rest = -1 /\ b >= 64) THEN 1
            ELSE 1 + size[rest]
  IN  size[x]

Message(reserve, write) ==
  [reserved |-> HEADER_SIZE + reserve, written |-> HEADER_SIZE + write]

-------------------------------------------------------------------------------
gator_annotate_str(t, i, n) ==
  Message(MAXSIZE_PACK_LONG + MAXSIZE_PACK_INT + n, t + i + n)

color_unreserved(t, i, n) ==
  Message(MAXSIZE_PACK_LONG + MAXSIZE_PACK_INT + n, t + i + SIZE_COLOR + n)

gator_annotate_color(t, i, n) ==
  Message(MAXSIZE_PACK_LONG + MAXSIZE_PACK_INT + SIZE_COLOR + n, t + i + SIZE_COLOR + n)

gator_annotate_name_channel(t, i, j, n) ==
  Message(MAXSIZE_PACK_LONG + 2*MAXSIZE_PACK_INT + n, t + i + j + n)

gator_annotate_name_group(t, i, n) ==
  Message(MAXSIZE_PACK_LONG + MAXSIZE_PACK_INT + n, t + i + n)

\* The part of an image annotation that is written to the ring.
gator_annotate_visual(t, n) == Message(MAXSIZE_PACK_LONG + n + 1, t + n + 1)

gator_annotate_marker(t, n) == Message(MAXSIZE_PACK_LONG + n, t + n)

gator_annotate_marker_color(t, n) ==
  Message(MAXSIZE_PACK_LONG + SIZE_COLOR + n, t + SIZE_COLOR + n)

gator_annotate_counter_value(t, i, j, k) ==
  Message(MAXSIZE_PACK_LONG + 3*MAXSIZE_PACK_INT, t + i + j + k)

gator_annotate_activity_switch(t, i, j, k, l) ==
  Message(MAXSIZE_PACK_LONG + 4*MAXSIZE_PACK_INT, t + i + j + k + l)

gator_annotate_write_cam_track(i, j, k, n) ==
  Message(3*MAXSIZE_PACK_INT + n, i + j + k + n)

\* ints: the packed dependencies; m: their number, packed.
gator_cam_job(i, j, k, t, u, l, m, ints, n) ==
  Message(5*MAXSIZE_PACK_INT + 2*MAXSIZE_PACK_LONG + SIZE_COLOR
            + Len(ints) * MAXSIZE_PACK_INT + n,
          i + j + k + t + u + SIZE_COLOR + l + m + SumSeq(ints) + n)

gator_cam_job_start(i, j, k, t, n) ==
  Message(3*MAXSIZE_PACK_INT + MAXSIZE_PACK_LONG + SIZE_COLOR + n,
          i + j + k + t + SIZE_COLOR + n)

gator_cam_job_set_dependencies(i, j, t, k, m, ints) ==
  Message(4*MAXSIZE_PACK_INT + MAXSIZE_PACK_LONG + Len(ints) * MAXSIZE_PACK_INT,
          i + j + t + k + m + SumSeq(ints))

gator_cam_job_stop(i, j, t) ==
  Message(2*MAXSIZE_PACK_INT + MAXSIZE_PACK_LONG, i + j + t)

gator_annotate_write_cam_name(i, n) == Message(MAXSIZE_PACK_INT + n, i + n)

\* i, j, k: id, modifier and cores; eight more ints are flags and enumerations
\* of one byte each.  names: the lengths of the activities' names; m: their
\* number, packed.  Every activity is written as name, '\0', colour, and
\* reserved for as name, colour.
gator_annotate_write_counter(i, j, k, m, names, title, name, units, description) ==
  Message(12*MAXSIZE_PACK_INT + SIZE_COLOR
            + SumSeq(names) + Len(names) * SIZE_COLOR
            + title + 1 + name + 1 + units + 1 + description,
          i + j + k + 8 + m + SIZE_COLOR
            + SumSeq(names) + Len(names) * (1 + SIZE_COLOR)
            + title + 1 + name + 1 + units + 1 + description)
===============================================================================
