----------------------------- MODULE GatorProofs -----------------------------
(* Annotations write no more than they reserve, whatever their strings, for    *)
(* every size their packed fields may have; and the ring buffer they are       *)
(* written to is a queue, whatever its size and however its two threads        *)
(* interleave.                                                                 *)
EXTENDS MCAlgorithms, GatorRing, SumProofs, SequenceTheorems, TLAPS

\* Annotations without an array of fields, gator_annotate_str to
\* gator_annotate_write_cam_name.
THEOREM PlainAnnotationsFit ==
  ASSUME NEW i \in PackedInt, NEW j \in PackedInt, NEW k \in PackedInt, NEW l \in PackedInt,
         NEW t \in PackedLong, NEW n \in Nat,
         NEW m \in {gator_annotate_str(t, i, n), gator_annotate_color(t, i, n),
                    gator_annotate_name_channel(t, i, j, n),
                    gator_annotate_name_group(t, i, n), gator_annotate_visual(t, n),
                    gator_annotate_marker(t, n), gator_annotate_marker_color(t, n),
                    gator_annotate_counter_value(t, i, j, k),
                    gator_annotate_activity_switch(t, i, j, k, l),
                    gator_annotate_write_cam_track(i, j, k, n),
                    gator_cam_job_start(i, j, k, t, n), gator_cam_job_stop(i, j, t),
                    gator_annotate_write_cam_name(i, n)}
  PROVE  m.written <= m.reserved
  BY DEF gator_annotate_str, gator_annotate_color, gator_annotate_name_channel,
         gator_annotate_name_group, gator_annotate_visual, gator_annotate_marker,
         gator_annotate_marker_color, gator_annotate_counter_value,
         gator_annotate_activity_switch, gator_annotate_write_cam_track,
         gator_cam_job_start, gator_cam_job_stop, gator_annotate_write_cam_name,
         Message, PackedInt, PackedLong, MAXSIZE_PACK_INT, MAXSIZE_PACK_LONG,
         SIZE_COLOR, HEADER_SIZE

\* gator_annotate_write_counter: the reservation misses one byte per activity
\* and has sixty bytes for ints that take i + j + k + 8 + m, so it is enough
\* exactly up to 52 - i - j - k - m activities.
THEOREM CounterFitsExactly ==
  ASSUME NEW i \in PackedInt, NEW j \in PackedInt, NEW k \in PackedInt, NEW m \in PackedInt,
         NEW names \in Seq(Nat),
         NEW title \in Nat, NEW name \in Nat, NEW units \in Nat, NEW description \in Nat
  PROVE  LET c == gator_annotate_write_counter(i, j, k, m, names, title, name, units,
                                               description)
         IN  c.written <= c.reserved <=> Len(names) <= 52 - i - j - k - m
<1>. DEFINE count == Len(names)
            total == SumSeq(names)
            strings == title + 1 + name + 1 + units + 1 + description
            c == gator_annotate_write_counter(i, j, k, m, names, title, name, units,
                                              description)
<1>1. count \in Nat /\ total \in Nat /\ strings \in Nat
  <2>1. Len(names) \in Nat /\ PrefixSums(names)[Len(names)] \in Nat
    BY PrefixSumsGrow
  <2> QED BY <2>1 DEF SumSeq
<1>2. i \in Nat /\ j \in Nat /\ k \in Nat /\ m \in Nat
  BY DEF PackedInt, MAXSIZE_PACK_INT
<1>3. c = Message(12*MAXSIZE_PACK_INT + SIZE_COLOR + total + count * SIZE_COLOR
                    + title + 1 + name + 1 + units + 1 + description,
                  i + j + k + 8 + m + SIZE_COLOR + total + count * (1 + SIZE_COLOR)
                    + title + 1 + name + 1 + units + 1 + description)
  BY Zenon DEF gator_annotate_write_counter
<1>. HIDE DEF count, total, c
<1>4. /\ c.reserved = 5 + (60 + 4 + total + count * 4 + strings)
      /\ c.written = 5 + (i + j + k + 8 + m + 4 + total + count * 5 + strings)
  BY <1>1, <1>2, <1>3 DEF Message, MAXSIZE_PACK_INT, SIZE_COLOR, HEADER_SIZE
<1>. HIDE DEF strings
<1>5. c.written <= c.reserved <=> count <= 52 - i - j - k - m
  BY <1>1, <1>2, <1>4
<1>. QED
  BY <1>5 DEF count, c

-------------------------------------------------------------------------------
(* Packed integers.                                                            *)

\* The integers that one to four groups of seven bits hold with their sign.
OneByte(x) == x >= -64 /\ x < 64
TwoBytes(x) == x >= -8192 /\ x < 8192
ThreeBytes(x) == x >= -1048576 /\ x < 1048576
FourBytes(x) == x >= -134217728 /\ x < 134217728

Bytes(x) ==
  IF OneByte(x) THEN 1 ELSE IF TwoBytes(x) THEN 2 ELSE IF ThreeBytes(x) THEN 3
  ELSE IF FourBytes(x) THEN 4 ELSE 5

\* What is left when the loop ends.
LastGroup(x) == (x \div 128 = 0 /\ x % 128 < 64) \/ (x \div 128 = -1 /\ x % 128 >= 64)

\* What the loop of gator_buf_write_int computes when size is what it computes later on.
PackStep(size) ==
  [v \in Int32 |-> LET b == v % 128
                       rest == v \div 128
                   IN  IF (rest = 0 /\ b < 64) \/ (rest = -1 /\ b >= 64) THEN 1
                       ELSE 1 + size[rest]]

(* The range of an int32_t. *)
LEMMA Int32Range == ASSUME NEW v \in Int32 PROVE v \in Int /\ v >= -2147483648 /\ v <= 2147483647
<1>1. MAX_INT \in Int /\ MAX_INT >= 2147483647 /\ MAX_INT <= 2147483647
  BY SMT DEF MAX_INT
<1> QED BY <1>1, SMT DEF Int32

LEMMA InInt32 == ASSUME NEW v \in Int, v >= -2147483648, v <= 2147483647 PROVE v \in Int32
<1>1. MAX_INT \in Int /\ MAX_INT >= 2147483647 /\ MAX_INT <= 2147483647
  BY SMT DEF MAX_INT
<1> QED BY <1>1, SMT DEF Int32

(* A shift by seven bits takes one byte off, and the loop ends where one is enough. *)
LEMMA Shifts ==
  ASSUME NEW v \in Int32
  PROVE  /\ v \div 128 \in Int32
         /\ LastGroup(v) <=> OneByte(v)
         /\ TwoBytes(v) <=> OneByte(v \div 128)
         /\ ThreeBytes(v) <=> TwoBytes(v \div 128)
         /\ FourBytes(v) <=> ThreeBytes(v \div 128)
         /\ FourBytes(v \div 128)
<1>1. v \in Int /\ v >= -2147483648 /\ v <= 2147483647
  BY Int32Range
<1>2. PICK q \in Int, r \in 0..127 : q = v \div 128 /\ r = v % 128 /\ v = 128 * q + r
  BY <1>1, SMT
<1>3. v \div 128 \in Int32
  <2>1. q >= -2147483648 /\ q <= 2147483647
    BY <1>1, <1>2, SMT
  <2> QED BY <1>2, <2>1, InInt32, SMT
<1>4. LastGroup(v) <=> OneByte(v)
  BY <1>1, <1>2, SMT DEF LastGroup, OneByte
<1>5. TwoBytes(v) <=> OneByte(v \div 128)
  BY <1>1, <1>2, SMT DEF OneByte, TwoBytes
<1>6. ThreeBytes(v) <=> TwoBytes(v \div 128)
  BY <1>1, <1>2, SMT DEF TwoBytes, ThreeBytes
<1>7. FourBytes(v) <=> ThreeBytes(v \div 128)
  BY <1>1, <1>2, SMT DEF ThreeBytes, FourBytes
<1>8. FourBytes(v \div 128)
  BY <1>1, <1>2, SMT DEF FourBytes
<1> QED BY <1>3, <1>4, <1>5, <1>6, <1>7, <1>8

(* More bytes hold more. *)
LEMMA BytesNest ==
  ASSUME NEW v \in Int32
  PROVE  /\ OneByte(v) => TwoBytes(v)
         /\ TwoBytes(v) => ThreeBytes(v)
         /\ ThreeBytes(v) => FourBytes(v)
BY Int32Range, SMT DEF OneByte, TwoBytes, ThreeBytes, FourBytes

(* gator_buf_write_int takes as many bytes as the value and its sign need, for *)
(* every int32_t.                                                              *)
LEMMA PackSizeIs == ASSUME NEW x \in Int32 PROVE PackSize(x) = Bytes(x)
<1> DEFINE w == [v \in Int32 |-> Bytes(v)]
           Step(f, v) == IF OneByte(v) THEN 1 ELSE 1 + f[v \div 128]
<1>1. \A f : \A v \in Int32 : PackStep(f)[v] = Step(f, v)
  BY Shifts DEF PackStep, LastGroup
<1>2. w = PackStep(w)
  <2> SUFFICES ASSUME NEW v \in Int32 PROVE w[v] = PackStep(w)[v]
    BY DEF PackStep
  <2>1. w[v] = Bytes(v) /\ w[v \div 128] = Bytes(v \div 128)
    BY Shifts
  <2>2. Bytes(v) = IF OneByte(v) THEN 1 ELSE 1 + Bytes(v \div 128)
    BY Shifts, BytesNest DEF Bytes
  <2> QED BY <1>1, <2>1, <2>2
<1>3. PICK f : f = PackStep(f) /\ PackSize(x) = f[x]
  <2> HIDE DEF w
  <2> QED BY <1>2 DEF PackSize, PackStep
<1>4. \A v \in Int32 : f[v] = Step(f, v)
  BY <1>1, <1>3
<1>5. \A v \in Int32 : OneByte(v) => f[v] = 1
  BY <1>4
<1>6. \A v \in Int32 : TwoBytes(v) /\ ~OneByte(v) => f[v] = 2
  BY <1>4, <1>5, Shifts
<1>7. \A v \in Int32 : ThreeBytes(v) /\ ~TwoBytes(v) => f[v] = 3
  BY <1>4, <1>6, Shifts, BytesNest
<1>8. \A v \in Int32 : FourBytes(v) /\ ~ThreeBytes(v) => f[v] = 4
  BY <1>4, <1>7, Shifts, BytesNest
<1>9. \A v \in Int32 : ~FourBytes(v) => f[v] = 5
  BY <1>4, <1>8, Shifts, BytesNest
<1> QED BY <1>3, <1>5, <1>6, <1>7, <1>8, <1>9, BytesNest DEF Bytes

(* PackedMinimal is about Bytes. *)
LEMMA HalfIs ==
  /\ DOMAIN Half = 1..4
  /\ \A x : /\ (x >= -Half[1] /\ x < Half[1]) <=> OneByte(x)
            /\ (x >= -Half[2] /\ x < Half[2]) <=> TwoBytes(x)
            /\ (x >= -Half[3] /\ x < Half[3]) <=> ThreeBytes(x)
            /\ (x >= -Half[4] /\ x < Half[4]) <=> FourBytes(x)
BY SMT DEF Half, OneByte, TwoBytes, ThreeBytes, FourBytes

(* No int is packed longer or shorter than its value needs, or longer than what is *)
(* reserved for it.                                                                *)
THEOREM PackedIsMinimal ==
  ASSUME NEW x \in Int32
  PROVE  PackedMinimal(x, PackSize(x))
<1> DEFINE fits(b) == b \in DOMAIN Half => x >= -Half[b] /\ x < Half[b]
<1>1. PackSize(x) = Bytes(x)
  BY PackSizeIs
<1>2. /\ fits(1) <=> OneByte(x)
      /\ fits(2) <=> TwoBytes(x)
      /\ fits(3) <=> ThreeBytes(x)
      /\ fits(4) <=> FourBytes(x)
      /\ fits(5)
  BY HalfIs
<1> HIDE DEF fits
<1>3. /\ Bytes(x) \in PackedInt
      /\ fits(Bytes(x))
      /\ Bytes(x) > 1 => ~fits(Bytes(x) - 1)
  BY <1>2 DEF Bytes, PackedInt, MAXSIZE_PACK_INT
<1> QED BY <1>1, <1>3 DEF PackedMinimal, fits

-------------------------------------------------------------------------------
(* Every annotation of the model stays within its reservation.                 *)

Fits(m) == m.written <= m.reserved

(* The number of activities of a counter is packed into one byte. *)
LEMMA SmallCount == \A n \in 0..36 : PackSize(n) = 1
<1> SUFFICES ASSUME NEW n \in 0..36 PROVE PackSize(n) = 1
  OBVIOUS
<1>1. n \in Int32
  BY InInt32, SMT
<1>2. OneByte(n)
  BY SMT DEF OneByte
<1> QED BY <1>1, <1>2, PackSizeIs DEF Bytes

(* The dependencies of a job: how many there are, and how many bytes they take. *)
LEMMA DepsFit ==
  ASSUME NEW ints \in Deps
  PROVE  /\ Len(ints) \in Nat /\ SumSeq(ints) \in Nat
         /\ SumSeq(ints) <= Len(ints) * MAXSIZE_PACK_INT
         /\ PackSize(Len(ints)) \in PackedInt
<1>1. PICK d \in 0..MaxDeps : ints \in [1..d -> IntSizes]
  BY DEF Deps
<1>2. d \in Nat /\ d \in Int32
  <2>1. MAX_INT \in Int /\ MAX_INT >= 2147483647 /\ MAX_INT <= 2147483647
    BY SMT DEF MAX_INT
  <2>2. d \in Nat /\ d <= MAX_INT
    BY <2>1, AnnotationAssumption, SMT
  <2> QED BY <2>1, <2>2, InInt32, SMT
<1>3. \A k \in 1..d : ints[k] \in Nat /\ ints[k] <= MAXSIZE_PACK_INT
  <2>1. \A k \in 1..d : ints[k] \in PackedInt
    BY <1>1, AnnotationAssumption
  <2> QED BY <2>1 DEF PackedInt, MAXSIZE_PACK_INT
<1>4. ints \in Seq(Nat) /\ Len(ints) = d
  BY <1>1, <1>2, <1>3
<1>5. SumSeq(ints) \in Nat /\ SumSeq(ints) <= Len(ints) * MAXSIZE_PACK_INT
  <2>1. MAXSIZE_PACK_INT \in Nat /\ \A k \in 1..Len(ints) : ints[k] <= MAXSIZE_PACK_INT
    BY <1>3, <1>4 DEF MAXSIZE_PACK_INT
  <2> QED BY <1>4, <2>1, SumAtMost
<1>6. PackSize(Len(ints)) \in PackedInt
  BY <1>2, <1>4, PackSizeIs DEF Bytes, PackedInt, MAXSIZE_PACK_INT
<1> QED BY <1>2, <1>4, <1>5, <1>6

(* The two annotations with an array of dependencies. *)
LEMMA JobsFit ==
  ASSUME NEW i \in PackedInt, NEW j \in PackedInt, NEW k \in PackedInt, NEW l \in PackedInt,
         NEW t \in PackedLong, NEW u \in PackedLong, NEW n \in Nat, NEW ints \in Deps
  PROVE  /\ Fits(gator_cam_job(i, j, k, t, u, l, PackSize(Len(ints)), ints, n))
         /\ Fits(gator_cam_job_set_dependencies(i, j, t, k, PackSize(Len(ints)), ints))
<1>1. PICK c \in Nat, total \in Nat, m \in PackedInt :
        c = Len(ints) /\ total = SumSeq(ints) /\ m = PackSize(Len(ints)) /\ total <= c * 5
  BY DepsFit DEF MAXSIZE_PACK_INT
<1>2. /\ i \in Nat /\ j \in Nat /\ k \in Nat /\ l \in Nat /\ m \in Nat /\ t \in Nat /\ u \in Nat
      /\ i <= 5 /\ j <= 5 /\ k <= 5 /\ l <= 5 /\ m <= 5 /\ t <= 10 /\ u <= 10
  BY <1>1 DEF PackedInt, PackedLong, MAXSIZE_PACK_INT, MAXSIZE_PACK_LONG
<1>3. ASSUME NEW e \in Nat, total <= e
      PROVE  /\ 5 + (i + j + k + t + u + 4 + l + m + total + n) <= 5 + (5*5 + 2*10 + 4 + e + n)
             /\ 5 + (i + j + t + k + m + total) <= 5 + (4*5 + 10 + e)
  BY <1>2, <1>3
<1>4. /\ 5 + (i + j + k + t + u + 4 + l + m + total + n) <= 5 + (5*5 + 2*10 + 4 + c * 5 + n)
      /\ 5 + (i + j + t + k + m + total) <= 5 + (4*5 + 10 + c * 5)
  BY <1>1, <1>3
<1> QED BY <1>1, <1>4 DEF Fits, gator_cam_job, gator_cam_job_set_dependencies, Message,
           MAXSIZE_PACK_INT, MAXSIZE_PACK_LONG, SIZE_COLOR, HEADER_SIZE

(* A counter whose activities are not too many. *)
LEMMA CountersFit ==
  ASSUME NEW i \in PackedInt, NEW j \in PackedInt, NEW k \in PackedInt,
         NEW n \in Nat, NEW title \in Nat, NEW count \in ActivityCounts
  PROVE  Fits(gator_annotate_write_counter(i, j, k, PackSize(count), [c \in 1..count |-> n],
                                           title, n, n, title))
<1> DEFINE names == [c \in 1..count |-> n]
<1>1. count \in 0..36
  BY AnnotationAssumption
<1>2. names \in Seq(Nat) /\ Len(names) = count
  BY <1>1
<1>3. PackSize(count) = 1
  BY <1>1, SmallCount
<1>4. 1 \in PackedInt /\ count <= 52 - i - j - k - 1
  BY <1>1 DEF PackedInt, MAXSIZE_PACK_INT
<1> HIDE DEF names
<1>5. Fits(gator_annotate_write_counter(i, j, k, 1, names, title, n, n, title))
  BY <1>2, <1>4, CounterFitsExactly DEF Fits
<1> QED BY <1>3, <1>5 DEF names

(* Whatever is annotated, with fields and strings of any length and any number of *)
(* dependencies, stays within what gator_buf_wait_bytes waited for, and every     *)
(* int32_t is packed into as few bytes as it needs.                               *)
THEOREM WrittenFitsReservedHolds == CasesSpec => []WrittenFitsReserved
<1>1. CasesInit => WrittenFitsReserved
  BY DEF CasesInit, WrittenFitsReserved
<1>2. WrittenFitsReserved /\ [CasesNext]_caseVars => WrittenFitsReserved'
  <2> SUFFICES ASSUME WrittenFitsReserved, [CasesNext]_caseVars PROVE WrittenFitsReserved'
    OBVIOUS
  <2> USE DEF Become
  <2>1. ASSUME kind' = "message", Fits(case') PROVE WrittenFitsReserved'
    BY <2>1 DEF WrittenFitsReserved, Fits
  <2>2. ASSUME kind' \notin {"message", "pack"} PROVE WrittenFitsReserved'
    BY <2>2 DEF WrittenFitsReserved
  <2>3. CASE Session \/ TraceBegin \/ TraceSample \/ CaseDone
    BY <2>2, <2>3 DEF Session, TraceBegin, TraceSample, CaseDone
  <2>4. CASE Pack
    <3>1. PICK x \in Ints : kind' = "pack" /\ case' = [value |-> x, size |-> PackSize(x)]
      BY <2>4 DEF Pack
    <3>2. PackedMinimal(x, PackSize(x))
      BY AnnotationAssumption, PackedIsMinimal
    <3>3. PackedMinimal(case'.value, case'.size)
      BY <3>1, <3>2
    <3> QED BY <3>1, <3>3 DEF WrittenFitsReserved
  <2>5. CASE PlainMessage
    <3>1. PICK t \in LongSizes, i \in IntSizes, j \in IntSizes, k \in IntSizes, n \in Lengths :
            case' \in {gator_annotate_str(t, i, n), gator_annotate_color(t, i, n),
                       gator_annotate_name_channel(t, i, j, n),
                       gator_annotate_name_group(t, i, n), gator_annotate_visual(t, n),
                       gator_annotate_marker(t, n), gator_annotate_marker_color(t, n),
                       gator_annotate_counter_value(t, i, j, k)}
      BY <2>5, Zenon DEF PlainMessage
    <3>2. Fits(case')
      BY <3>1, AnnotationAssumption, PlainAnnotationsFit DEF Fits
    <3> QED BY <2>1, <2>5, <3>2 DEF PlainMessage
  <2>6. CASE SwitchMessage
    <3>1. PICK t \in LongSizes, i \in IntSizes, j \in IntSizes, k \in IntSizes, l \in IntSizes :
            case' = gator_annotate_activity_switch(t, i, j, k, l)
      BY <2>6, Zenon DEF SwitchMessage
    <3>2. Fits(case')
      BY <3>1, AnnotationAssumption, PlainAnnotationsFit DEF Fits
    <3> QED BY <2>1, <2>6, <3>2 DEF SwitchMessage
  <2>7. CASE CamMessage
    <3>1. PICK i \in IntSizes, j \in IntSizes, k \in IntSizes, t \in LongSizes, u \in LongSizes,
               n \in Lengths, ints \in Deps :
            case' \in {gator_annotate_write_cam_track(i, j, k, n),
                       gator_cam_job(i, j, k, t, u, i, PackSize(Len(ints)), ints, n),
                       gator_cam_job_start(i, j, k, t, n),
                       gator_cam_job_set_dependencies(i, j, t, k, PackSize(Len(ints)), ints),
                       gator_cam_job_stop(i, j, t), gator_annotate_write_cam_name(i, n)}
      BY <2>7, Zenon DEF CamMessage
    <3>2. i \in PackedInt /\ j \in PackedInt /\ k \in PackedInt /\ t \in PackedLong
          /\ u \in PackedLong /\ n \in Nat
      BY AnnotationAssumption
    <3>3. ASSUME case' \in {gator_annotate_write_cam_track(i, j, k, n),
                            gator_cam_job_start(i, j, k, t, n), gator_cam_job_stop(i, j, t),
                            gator_annotate_write_cam_name(i, n)}
          PROVE  Fits(case')
      BY <3>2, <3>3, PlainAnnotationsFit DEF Fits
    <3>4. ASSUME case' \in {gator_cam_job(i, j, k, t, u, i, PackSize(Len(ints)), ints, n),
                            gator_cam_job_set_dependencies(i, j, t, k, PackSize(Len(ints)), ints)}
          PROVE  Fits(case')
      BY <3>2, <3>4, JobsFit
    <3>5. Fits(case')
      BY <3>1, <3>3, <3>4
    <3> QED BY <2>1, <2>7, <3>5 DEF CamMessage
  <2>8. CASE CounterMessage
    <3>1. PICK i \in IntSizes, j \in IntSizes, k \in IntSizes, n \in Lengths, title \in Lengths,
               count \in ActivityCounts :
            case' = gator_annotate_write_counter(i, j, k, PackSize(count),
                                                 [c \in 1..count |-> n], title, n, n, title)
      BY <2>8, Zenon DEF CounterMessage
    <3>2. Fits(case')
      BY <3>1, AnnotationAssumption, CountersFit
    <3> QED BY <2>1, <2>8, <3>2 DEF CounterMessage
  <2>9. CASE UNCHANGED caseVars
    BY <2>9 DEF caseVars, WrittenFitsReserved
  <2> QED BY <2>3, <2>4, <2>5, <2>6, <2>7, <2>8, <2>9 DEF CasesNext
<1> QED BY <1>1, <1>2, PTL DEF CasesSpec

-------------------------------------------------------------------------------
(* Positions in the ring, without the remainders.                              *)

Wrap(x) == IF x < SIZE THEN x ELSE x - SIZE
Gap(a, b) == IF a >= b THEN a - b ELSE a - b + SIZE

(* The ring's arithmetic modulo its size is one conditional subtraction: no    *)
(* position ever goes round more than once.                                    *)
LEMMA Wraps ==
  /\ \A x \in 0..2*SIZE-1 : gator_buf_pos(x) = Wrap(x) /\ Wrap(x) \in Positions
  /\ \A a, b \in Positions : (a - b) % SIZE = Gap(a, b) /\ Gap(a, b) \in Positions
  /\ \A a, b \in Positions : (a - b - 1) % SIZE = SIZE - 1 - Gap(b, a)
<1>1. \A x \in 0..SIZE-1 : x % SIZE = x
  BY SizeAssumption
<1>2. \A x \in SIZE..2*SIZE-1 : x % SIZE = x - SIZE
  BY SizeAssumption
<1>3. \A x \in (0-SIZE)..(0-1) : x % SIZE = x + SIZE
  BY SizeAssumption
<1>4. \A x \in 0..2*SIZE-1 : x \in 0..SIZE-1 \/ x \in SIZE..2*SIZE-1
  BY SizeAssumption
<1>5. \A x \in 0..2*SIZE-1 : gator_buf_pos(x) = Wrap(x)
  <2> SUFFICES ASSUME NEW x \in 0..2*SIZE-1 PROVE x % SIZE = Wrap(x)
    BY DEF gator_buf_pos
  <2>1. CASE x \in 0..SIZE-1
    <3>1. x < SIZE /\ x % SIZE = x
      BY <1>1, <2>1, SizeAssumption
    <3> QED BY <3>1 DEF Wrap
  <2>2. CASE x \in SIZE..2*SIZE-1
    <3>1. ~(x < SIZE) /\ x % SIZE = x - SIZE
      BY <1>2, <2>2, SizeAssumption
    <3> QED BY <3>1 DEF Wrap
  <2> QED BY <1>4, <2>1, <2>2
<1>6. \A x \in 0..2*SIZE-1 : Wrap(x) \in Positions
  BY SizeAssumption DEF Wrap, Positions
<1>7. ASSUME NEW a \in Positions, NEW b \in Positions
      PROVE  (a - b) % SIZE = Gap(a, b) /\ Gap(a, b) \in Positions
  <2>1. CASE a >= b
    <3>1. a - b \in 0..SIZE-1 /\ Gap(a, b) = a - b
      BY <2>1, SizeAssumption DEF Positions, Gap
    <3> QED BY <1>1, <3>1 DEF Positions
  <2>2. CASE ~(a >= b)
    <3>1. a - b \in (0-SIZE)..(0-1) /\ Gap(a, b) = (a - b) + SIZE /\ (a - b) + SIZE \in 0..SIZE-1
      BY <2>2, SizeAssumption DEF Positions, Gap
    <3> QED BY <1>3, <3>1 DEF Positions
  <2> QED BY <2>1, <2>2
<1>8. ASSUME NEW a \in Positions, NEW b \in Positions
      PROVE  (a - b - 1) % SIZE = SIZE - 1 - Gap(b, a)
  <2>1. CASE a > b
    <3>1. a - b - 1 \in 0..SIZE-1 /\ SIZE - 1 - Gap(b, a) = a - b - 1
      BY <2>1, SizeAssumption DEF Positions, Gap
    <3> QED BY <1>1, <3>1
  <2>2. CASE ~(a > b)
    <3>1. a - b - 1 \in (0-SIZE)..(0-1) /\ SIZE - 1 - Gap(b, a) = (a - b - 1) + SIZE
      BY <2>2, SizeAssumption DEF Positions, Gap
    <3> QED BY <1>3, <3>1
  <2> QED BY <2>1, <2>2
<1> QED BY <1>5, <1>6, <1>7, <1>8

(* A step of less than the ring from a position. *)
LEMMA StepInRing == \A p \in Positions, n \in Nat : n < SIZE => p + n \in 0..2*SIZE-1
  BY SizeAssumption DEF Positions

(* Going on from a position, and what is between two positions then. *)
LEMMA WrapArithmetic ==
  ASSUME NEW r \in Positions
  PROVE  /\ \A a, b \in 0..SIZE-1 : Wrap(r + a) = Wrap(r + b) => a = b
         /\ \A a, b \in Nat : a + b < SIZE => Wrap(Wrap(r + a) + b) = Wrap(r + (a + b))
         /\ \A w \in Positions : Wrap(r + Gap(w, r)) = w
         /\ \A a \in 0..SIZE-1 : Gap(Wrap(r + a), r) = a
         /\ Gap(r, r) = 0
BY SizeAssumption DEF Wrap, Gap, Positions

-------------------------------------------------------------------------------
(* What holds of every ring, with and without images.                          *)

USE DEF threadVars, writerVars, senderVars, otherVars

RingType ==
  /\ buf \in [Positions -> Nat]
  /\ write_pos \in Positions /\ read_pos \in Positions /\ snapshot \in Positions
  /\ oob_data \in Int /\ oob_length \in Nat /\ made \in Nat
  /\ wire \in Seq(Int)
  /\ message \in Messages \cup {None}
  /\ writer # "idle" => message \in Fitting

\* The second send() of a pass begins at the start of the ring, and the pass gives up only
\* when the connection is broken or that send() has nothing to send.
SeamInv ==
  /\ sender = "rest" => read_pos = 0
  /\ sender = "stop" => broken \/ (snapshot = 0 /\ read_pos = 0)

(* The numbers of an annotation that is being made. *)
LEMMA MessageType ==
  ASSUME message \in Fitting
  PROVE  /\ message.written \in Nat /\ message.reserved \in Nat /\ message.image \in Nat
         /\ 0 < message.written /\ message.written <= message.reserved
         /\ message.reserved < SIZE /\ message.written < SIZE
<1>1. message \in Messages /\ message.reserved <= SIZE \div 2
  BY DEF Fitting
<1>2. message.written \in Nat \ {0} /\ message.reserved \in Nat /\ message.image \in Nat
      /\ message.written <= message.reserved
  BY <1>1, MessagesAssumption
<1>3. SIZE \div 2 < SIZE
  BY SizeAssumption
<1> QED BY <1>1, <1>2, <1>3, SizeAssumption

(* The bytes a send() took are integers, and so is the stream with them. *)
LEMMA WireType ==
  ASSUME wire \in Seq(Int), NEW n \in Nat, NEW s \in [1..n -> Int]
  PROVE  wire \o s \in Seq(Int)
OBVIOUS

(* What a send() of bytes of the ring does. *)
LEMMA SentType ==
  ASSUME RingType, NEW count \in Nat, count <= SIZE - read_pos, NEW then,
         SendBytes(count, then)
  PROVE  /\ wire' \in Seq(Int) /\ read_pos' \in Positions
         /\ \/ /\ UNCHANGED <<wire, read_pos>> /\ Fail
            \/ \E bytes \in 1..count :
                 /\ wire' = wire \o [k \in 1..bytes |-> buf[read_pos + k - 1]]
                 /\ read_pos' = Wrap(read_pos + bytes)
                 /\ sender' = IF bytes = count THEN then ELSE "post"
<1>1. CASE Fail /\ UNCHANGED <<wire, read_pos>>
  BY <1>1 DEF RingType
<1>2. ASSUME NEW bytes \in 1..count,
             wire' = wire \o [k \in 1..bytes |-> buf[read_pos + k - 1]],
             read_pos' = gator_buf_pos(read_pos + bytes),
             sender' = IF bytes = count THEN then ELSE "post"
      PROVE  wire' \in Seq(Int) /\ read_pos' = Wrap(read_pos + bytes) /\ read_pos' \in Positions
  <2>1. read_pos + bytes \in 0..2*SIZE-1 /\ \A k \in 1..bytes : read_pos + k - 1 \in Positions
    BY SizeAssumption DEF RingType, Positions
  <2>2. read_pos' = Wrap(read_pos + bytes) /\ read_pos' \in Positions
    BY <1>2, <2>1, Wraps
  <2>3. [k \in 1..bytes |-> buf[read_pos + k - 1]] \in [1..bytes -> Int]
    BY <2>1 DEF RingType
  <2>4. wire \in Seq(Int) /\ bytes \in Nat
    BY DEF RingType
  <2>5. PICK s \in [1..bytes -> Int] : s = [k \in 1..bytes |-> buf[read_pos + k - 1]]
    BY <2>3
  <2> QED BY <1>2, <2>2, <2>4, <2>5, WireType
<1> QED BY <1>1, <1>2 DEF SendBytes

(* RingType and SeamInv are preserved together. *)
LEMMA RingTypeInvariant == Spec => [](RingType /\ SeamInv)
<1>1. Init => RingType /\ SeamInv
  BY SizeAssumption DEF Init, RingType, SeamInv, Positions
<1>2. RingType /\ SeamInv /\ [Next]_vars => (RingType /\ SeamInv)'
  <2> SUFFICES ASSUME RingType, SeamInv, [Next]_vars PROVE (RingType /\ SeamInv)'
    OBVIOUS
  <2>1. /\ buf \in [Positions -> Nat]
        /\ write_pos \in Positions /\ read_pos \in Positions /\ snapshot \in Positions
        /\ oob_data \in Int /\ oob_length \in Nat /\ made \in Nat /\ wire \in Seq(Int)
    BY DEF RingType
  <2>2. Fitting \subseteq Messages
    BY DEF Fitting
  <2>3. CASE Begin
    BY <2>2, <2>3 DEF Begin, Choose, RingType, SeamInv
  <2>4. CASE Room \/ Wake
    BY <2>4 DEF Room, Wake, RingType, SeamInv
  <2>5. CASE Write
    <3>1. message \in Fitting
      BY <2>5 DEF Write, RingType
    <3>2. \A i \in Positions : (\E k \in 1..message.written : Place(k) = i) =>
             (CHOOSE k \in 1..message.written : Place(k) = i) \in Nat
      BY <3>1, MessageType
    <3>3. buf' \in [Positions -> Nat]
      BY <2>1, <2>5, <3>2 DEF Write, Written
    <3> QED BY <2>5, <3>3 DEF Write, RingType, SeamInv
  <2>6. CASE Commit
    <3>1. message \in Fitting
      BY <2>6 DEF Commit, RingType
    <3>2. write_pos + message.written \in 0..2*SIZE-1
      <4>1. PICK n \in Nat : n = message.written /\ n < SIZE
        BY <3>1, MessageType
      <4>2. write_pos + n \in 0..2*SIZE-1
        BY <2>1, <4>1, StepInRing
      <4> QED BY <4>1, <4>2
    <3>3. write_pos' \in Positions
      BY <2>6, <3>2, Wraps DEF Commit
    <3>4. made' \in Nat
      <4>1. PICK n \in Nat, p \in Nat : n = message.written /\ p = message.image
        BY <3>1, MessageType
      <4>2. made' = made + n + p
        BY <2>6, <4>1 DEF Commit
      <4> QED BY <2>1, <4>2
    <3>5. message' \in Messages \cup {None} /\ (writer' # "idle" => message' \in Fitting)
      BY <2>2, <2>6, <3>1 DEF Commit, Choose, Return, RingType
    <3> QED BY <2>6, <3>3, <3>4, <3>5 DEF Commit, RingType, SeamInv
  <2>7. CASE Image
    <3>1. message \in Fitting
      BY <2>7 DEF Image, RingType
    <3>2. oob_data' \in Int /\ oob_length' \in Nat
      <4>1. message.image \in Nat
        BY <3>1, MessageType
      <4> QED BY <2>1, <2>7, <4>1 DEF Image
    <3> QED BY <2>7, <3>1, <3>2 DEF Image, RingType, SeamInv
  <2>8. CASE Drain
    BY <2>8 DEF Drain, Drained, Return, RingType, SeamInv
  <2>9. CASE Connect \/ ReadPos \/ Pending \/ Post \/ Stop \/ Break \/ Resume \/ UNCHANGED vars
    BY <2>9 DEF Connect, ReadPos, Pending, Post, Stop, Break, Resume, Fail, vars, RingType, SeamInv
  <2>10. CASE Send
    <3>1. /\ SIZE - read_pos \in Nat /\ SIZE - read_pos <= SIZE - read_pos
          /\ read_pos + (SIZE - read_pos) = SIZE /\ Wrap(SIZE) = 0
      BY <2>1, SizeAssumption DEF Positions, Wrap
    <3>2. CASE SendBytes(SIZE - read_pos, "rest")
      <4>1. wire' \in Seq(Int) /\ read_pos' \in Positions
        BY <3>1, <3>2, SentType
      <4>2. SeamInv'
        BY <3>1, <3>2, <2>10, SentType DEF SeamInv, Send, Fail
      <4> QED BY <2>10, <4>1, <4>2 DEF Send, RingType
    <3>3. CASE snapshot > read_pos /\ SendBytes(snapshot - read_pos, "oob")
      <4>1. snapshot - read_pos \in Nat /\ snapshot - read_pos <= SIZE - read_pos
        BY <2>1, <3>3, SizeAssumption DEF Positions
      <4>2. wire' \in Seq(Int) /\ read_pos' \in Positions
        BY <3>3, <4>1, SentType
      <4>3. SeamInv'
        BY <3>3, <4>1, <2>10, SentType DEF SeamInv, Send, Fail
      <4> QED BY <2>10, <4>2, <4>3 DEF Send, RingType
    <3> QED BY <2>10, <3>2, <3>3 DEF Send, SendFirst
  <2>11. CASE SendRest
    <3>1. read_pos = 0 /\ snapshot \in Nat /\ snapshot <= SIZE - read_pos
      BY <2>1, <2>11, SizeAssumption DEF SendRest, SeamInv, Positions
    <3>2. CASE snapshot = 0 /\ sender' = "stop" /\ UNCHANGED <<wire, read_pos>>
      BY <2>11, <3>1, <3>2 DEF SendRest, SeamInv, RingType
    <3>3. CASE SendBytes(snapshot, "oob")
      <4>1. wire' \in Seq(Int) /\ read_pos' \in Positions
        BY <3>1, <3>3, SentType
      <4>2. SeamInv'
        BY <3>1, <3>3, <2>11, SentType DEF SeamInv, SendRest, Fail
      <4> QED BY <2>11, <4>1, <4>2 DEF SendRest, RingType
    <3> QED BY <2>11, <3>2, <3>3 DEF SendRest
  <2>12. CASE SendOob
    <3>1. ASSUME NEW bytes \in 1..oob_length,
                 wire' = wire \o [k \in 1..bytes |-> oob_data + k - 1],
                 oob_data' = oob_data + bytes, oob_length' = oob_length - bytes
          PROVE  wire' \in Seq(Int) /\ oob_data' \in Int /\ oob_length' \in Nat
      <4>1. [k \in 1..bytes |-> oob_data + k - 1] \in [1..bytes -> Int]
        BY <2>1
      <4>2. PICK s \in [1..bytes -> Int] : s = [k \in 1..bytes |-> oob_data + k - 1]
        BY <4>1
      <4> QED BY <2>1, <3>1, <4>2, WireType
    <3>2. wire' \in Seq(Int) /\ oob_data' \in Int /\ oob_length' \in Nat
      BY <2>1, <2>12, <3>1 DEF SendOob
    <3> QED BY <2>12, <3>2 DEF SendOob, Fail, RingType, SeamInv
  <2>13. CASE StopDrop
    BY <2>13 DEF StopDrop, DropUnsent, RingType, SeamInv
  <2>14. CASE StopClose
    <3>1. wire' = <<>> /\ oob_length' = 0
      BY <2>14 DEF StopClose
    <3> QED BY <2>14, <3>1 DEF StopClose, RingType, SeamInv
  <2> QED BY <2>3, <2>4, <2>5, <2>6, <2>7, <2>8, <2>9, <2>10, <2>11, <2>12, <2>13, <2>14
          DEF Next, Writer, Sender
<1> QED BY <1>1, <1>2, PTL DEF Spec

(* Capturing is given up while the connection works only at the seam of the    *)
(* ring, for every size of the ring and all annotations (gator_send).          *)
THEOREM StopsOnlyAtSeamHolds == Spec => StopsOnlyAtSeam
<1>1. SeamInv /\ [Next]_vars =>
        [capturing /\ ~capturing' => broken \/ (snapshot = 0 /\ read_pos = 0)]_vars
  <2> SUFFICES ASSUME SeamInv, [Next]_vars, capturing, ~capturing'
               PROVE  broken \/ (snapshot = 0 /\ read_pos = 0)
    OBVIOUS
  <2>1. Stop
    BY DEF Next, Begin, Writer, Sender, Break, Resume, Room, Wake, Write, Commit, Image, Drain,
       Connect, ReadPos, Pending, Send, SendRest, SendOob, Post, StopDrop, StopClose, vars
  <2> QED BY <2>1 DEF Stop, SeamInv
<1> QED BY <1>1, RingTypeInvariant, PTL DEF Spec, StopsOnlyAtSeam

(* The sender reads an image only while its caller is in gator_annotate_visual,*)
(* whatever stops and short writes come in between.                            *)
THEOREM ImageLentHolds == Spec => []ImageLent
<1>1. Init => ImageLent
  BY DEF Init, ImageLent
<1>2. RingType /\ ImageLent /\ [Next]_vars => ImageLent'
  <2> SUFFICES ASSUME RingType, ImageLent, [Next]_vars PROVE ImageLent'
    OBVIOUS
  <2>1. oob_length \in Nat
    BY DEF RingType
  <2>2. CASE Begin \/ Room \/ Write \/ Commit
    BY <2>2 DEF Begin, Room, Write, Commit, ImageLent
  <2>3. CASE Wake
    BY <2>3 DEF Wake, ImageLent
  <2>4. CASE Image
    BY <2>4 DEF Image, ImageLent
  <2>5. CASE Drain
    BY <2>1, <2>5 DEF Drain, Drained, ImageLent
  <2>6. CASE SendOob
    BY <2>1, <2>6 DEF SendOob, ImageLent
  <2>7. CASE StopClose
    BY <2>7 DEF StopClose, ImageLent
  <2>8. CASE Connect \/ ReadPos \/ Pending \/ Send \/ SendRest \/ Post \/ Stop \/ StopDrop
               \/ Break \/ Resume \/ UNCHANGED vars
    BY <2>8 DEF Connect, ReadPos, Pending, Send, SendRest, Post, Stop, StopDrop, Break, Resume,
       vars, ImageLent
  <2> QED BY <2>2, <2>3, <2>4, <2>5, <2>6, <2>7, <2>8 DEF Next, Writer, Sender
<1> QED BY <1>1, <1>2, RingTypeInvariant, PTL DEF Spec

-------------------------------------------------------------------------------
(* Without images the ring is a queue.                                         *)

NoImages == \A m \in Messages : m.image = 0

Used == Gap(write_pos, read_pos)

\* The writer has the room it asked for until it commits, its bytes are in place before it
\* does, and the sender never sends past the position it has read.
QueueInv ==
  /\ writer \notin {"image", "drain", "drowsy"} /\ oob_length = 0
  /\ writer \in {"write", "commit"} => Used + message.reserved < SIZE
  /\ writer = "commit" =>
       \A k \in 1..message.written : buf[Wrap(write_pos + (k - 1))] = made + k
  /\ sender \in {"test", "send"} => Gap(snapshot, read_pos) <= Used
  /\ sender = "send" => snapshot # read_pos
  /\ sender = "rest" => snapshot <= Used

(* Going on from the read position takes from what is used, going on from the  *)
(* write position adds to it.                                                  *)
LEMMA UsedArithmetic ==
  ASSUME NEW r \in Positions, NEW w \in Positions
  PROVE  /\ \A b \in Nat : b <= Gap(w, r) => Gap(w, Wrap(r + b)) = Gap(w, r) - b
         /\ \A b \in Nat : Gap(w, r) + b < SIZE => Gap(Wrap(w + b), r) = Gap(w, r) + b
         /\ \A b \in Nat : Gap(w, r) + b < SIZE => Wrap(w + b) = Wrap(r + (Gap(w, r) + b))
BY SizeAssumption DEF Wrap, Gap, Positions

(* What gator_send finds between position r and position w of a ring b. *)
Between(b, r, w) == [k \in 1..((w - r) % SIZE) |-> b[gator_buf_pos(r + k - 1)]]

LEMMA RingBytes ==
  ASSUME NEW b \in [Positions -> Nat], NEW r \in Positions, NEW w \in Positions
  PROVE  /\ Gap(w, r) \in Nat /\ Gap(w, r) < SIZE
         /\ Between(b, r, w) \in Seq(Nat) /\ Len(Between(b, r, w)) = Gap(w, r)
         /\ \A k \in 1..Gap(w, r) : /\ Between(b, r, w)[k] = b[Wrap(r + (k - 1))]
                                    /\ Wrap(r + (k - 1)) \in Positions
<1> DEFINE q == Between(b, r, w)
<1>1. (w - r) % SIZE = Gap(w, r) /\ Gap(w, r) \in Positions
  BY Wraps
<1>2. PICK u \in Nat : u = Gap(w, r) /\ u < SIZE
  BY <1>1, SizeAssumption DEF Positions
<1>3. ASSUME NEW k \in 1..u
      PROVE  gator_buf_pos(r + k - 1) = Wrap(r + (k - 1)) /\ Wrap(r + (k - 1)) \in Positions
  <2>1. PICK x \in Nat : x = k - 1 /\ x < SIZE
    BY <1>2, SizeAssumption
  <2>2. r + x \in 0..2*SIZE-1
    BY <2>1, StepInRing
  <2>3. r + k - 1 = r + x
    BY <2>1 DEF Positions
  <2> QED BY <2>1, <2>2, <2>3, Wraps
<1>4. q = [k \in 1..u |-> b[gator_buf_pos(r + k - 1)]]
  BY <1>1, <1>2 DEF Between
<1> HIDE DEF q
<1>5. \A k \in 1..u : q[k] = b[Wrap(r + (k - 1))] /\ q[k] \in Nat
  BY <1>3, <1>4
<1>6. q \in Seq(Nat) /\ Len(q) = u
  <2>1. q \in [1..u -> Nat]
    BY <1>4, <1>5
  <2>2. Len(q) = u
    BY <2>1, <1>2
  <2> QED BY <2>1, <2>2, SeqDef
<1> QED BY <1>2, <1>3, <1>5, <1>6 DEF q

(* The bytes committed and not sent, before and after a step. *)
LEMMA UnsentBytes ==
  /\ RingType =>
       /\ Used \in Nat /\ Used < SIZE /\ gator_buf_free = SIZE - 1 - Used
       /\ Unsent \in Seq(Nat) /\ Len(Unsent) = Used
       /\ \A k \in 1..Used : /\ Unsent[k] = buf[Wrap(read_pos + (k - 1))]
                             /\ Wrap(read_pos + (k - 1)) \in Positions
  /\ RingType' =>
       /\ Used' \in Nat /\ Used' < SIZE
       /\ Unsent' \in Seq(Nat) /\ Len(Unsent') = Used'
       /\ \A k \in 1..Used' : /\ Unsent'[k] = buf'[Wrap(read_pos' + (k - 1))]
                              /\ Wrap(read_pos' + (k - 1)) \in Positions
<1>1. RingType => gator_buf_free = SIZE - 1 - Used
  BY Wraps DEF gator_buf_free, Used, RingType
<1>2. ASSUME RingType
      PROVE  /\ Used \in Nat /\ Used < SIZE
             /\ Unsent \in Seq(Nat) /\ Len(Unsent) = Used
             /\ \A k \in 1..Used : /\ Unsent[k] = buf[Wrap(read_pos + (k - 1))]
                                   /\ Wrap(read_pos + (k - 1)) \in Positions
  <2>1. PICK b \in [Positions -> Nat], r \in Positions, w \in Positions :
           b = buf /\ r = read_pos /\ w = write_pos
    BY <1>2 DEF RingType
  <2>2. Unsent = Between(b, r, w) /\ Used = Gap(w, r)
    BY <2>1 DEF Unsent, gator_buf_used, gator_buf_pos, Between, Used, Gap
  <2>3. /\ Gap(w, r) \in Nat /\ Gap(w, r) < SIZE
        /\ Between(b, r, w) \in Seq(Nat) /\ Len(Between(b, r, w)) = Gap(w, r)
        /\ \A k \in 1..Gap(w, r) : /\ Between(b, r, w)[k] = b[Wrap(r + (k - 1))]
                                   /\ Wrap(r + (k - 1)) \in Positions
    BY RingBytes
  <2> QED BY <2>1, <2>2, <2>3, Zenon
<1>3. ASSUME RingType'
      PROVE  /\ Used' \in Nat /\ Used' < SIZE
             /\ Unsent' \in Seq(Nat) /\ Len(Unsent') = Used'
             /\ \A k \in 1..Used' : /\ Unsent'[k] = buf'[Wrap(read_pos' + (k - 1))]
                                    /\ Wrap(read_pos' + (k - 1)) \in Positions
  <2>1. PICK b \in [Positions -> Nat], r \in Positions, w \in Positions :
           b = buf' /\ r = read_pos' /\ w = write_pos'
    BY <1>3 DEF RingType
  <2>2. Unsent' = Between(b, r, w) /\ Used' = Gap(w, r)
    BY <2>1 DEF Unsent, gator_buf_used, gator_buf_pos, Between, Used, Gap
  <2>3. /\ Gap(w, r) \in Nat /\ Gap(w, r) < SIZE
        /\ Between(b, r, w) \in Seq(Nat) /\ Len(Between(b, r, w)) = Gap(w, r)
        /\ \A k \in 1..Gap(w, r) : /\ Between(b, r, w)[k] = b[Wrap(r + (k - 1))]
                                   /\ Wrap(r + (k - 1)) \in Positions
    BY RingBytes
  <2> QED BY <2>1, <2>2, <2>3, Zenon
<1> QED BY <1>1, <1>2, <1>3

(* Sequences with the same elements. *)
LEMMA SameSequence ==
  ASSUME NEW S, NEW s \in Seq(S), NEW t \in Seq(S), Len(s) = Len(t),
         \A k \in 1..Len(s) : s[k] = t[k]
  PROVE  s = t
BY SeqEqual

(* gator_buf_write puts the message behind what is used and touches no byte    *)
(* that was committed and not sent.                                            *)
LEMMA WriteKeepsUnsent ==
  ASSUME RingType, RingType', QueueInv, Write
  PROVE  /\ Unsent' = Unsent
         /\ \A k \in 1..message.written : buf'[Wrap(write_pos + (k - 1))] = made + k
<1>1. /\ write_pos \in Positions /\ read_pos \in Positions /\ buf \in [Positions -> Nat]
      /\ made \in Nat /\ UNCHANGED <<write_pos, read_pos, made, message>> /\ buf' = Written
      /\ message \in Fitting /\ Used + message.reserved < SIZE
  BY DEF RingType, QueueInv, Write
<1>2. PICK n \in Nat : n = message.written /\ n <= message.reserved
  BY <1>1, MessageType
<1>3. PICK u \in Nat : u = Used /\ u + n < SIZE
  <2>1. PICK m \in Nat : m = message.reserved
    BY <1>1, MessageType
  <2>2. PICK u \in Nat : u = Used
    BY UnsentBytes
  <2>3. u + n < SIZE
    BY <1>1, <1>2, <2>1, <2>2, SizeAssumption
  <2> QED BY <2>2, <2>3
<1>4. ASSUME NEW k \in 1..n
      PROVE  Place(k) = Wrap(write_pos + (k - 1)) /\ Place(k) \in Positions
             /\ Place(k) = Wrap(read_pos + (u + (k - 1)))
  <2>1. PICK x \in Nat : x = k - 1 /\ u + x < SIZE /\ x < SIZE
    BY <1>3, SizeAssumption
  <2>2. write_pos + x \in 0..2*SIZE-1 /\ write_pos + k - 1 = write_pos + x
    BY <1>1, <2>1, StepInRing DEF Positions
  <2>3. Wrap(write_pos + x) = Wrap(read_pos + (u + x))
    BY <1>1, <1>3, <2>1, UsedArithmetic DEF Used
  <2> QED BY <2>1, <2>2, <2>3, Wraps DEF Place
<1>5. \A k, l \in 1..n : Place(k) = Place(l) => k = l
  <2> SUFFICES ASSUME NEW k \in 1..n, NEW l \in 1..n, Place(k) = Place(l) PROVE k = l
    OBVIOUS
  <2>1. u + (k - 1) \in 0..SIZE-1 /\ u + (l - 1) \in 0..SIZE-1
    BY <1>3, SizeAssumption
  <2>2. u + (k - 1) = u + (l - 1)
    BY <1>1, <1>4, <2>1, WrapArithmetic
  <2> QED BY <1>3, <2>2
<1>6. ASSUME NEW k \in 1..n PROVE buf'[Wrap(write_pos + (k - 1))] = made + k
  <2>1. (CHOOSE l \in 1..n : Place(l) = Place(k)) = k
    BY <1>5
  <2>2. buf'[Place(k)] = made + k
    BY <1>1, <1>2, <1>4, <2>1 DEF Written
  <2> QED BY <1>4, <2>2
<1>7. ASSUME NEW k \in 1..u PROVE buf'[Wrap(read_pos + (k - 1))] = buf[Wrap(read_pos + (k - 1))]
  <2>1. k - 1 \in 0..SIZE-1 /\ Wrap(read_pos + (k - 1)) \in Positions
    <3>1. k - 1 \in 0..SIZE-1
      BY <1>3, SizeAssumption
    <3> QED BY <1>3, <3>1, UnsentBytes
  <2>2. ASSUME NEW l \in 1..n, Place(l) = Wrap(read_pos + (k - 1)) PROVE FALSE
    <3>1. u + (l - 1) \in 0..SIZE-1
      BY <1>3, SizeAssumption
    <3>2. u + (l - 1) = k - 1
      BY <1>1, <1>4, <2>1, <2>2, <3>1, WrapArithmetic
    <3> QED BY <1>3, <3>2
  <2> QED BY <1>1, <1>2, <2>1, <2>2 DEF Written
<1>8. /\ Used' = u /\ Unsent \in Seq(Nat) /\ Unsent' \in Seq(Nat)
      /\ Len(Unsent) = u /\ Len(Unsent') = u
      /\ \A k \in 1..u : Unsent[k] = buf[Wrap(read_pos + (k - 1))]
      /\ \A k \in 1..u : Unsent'[k] = buf'[Wrap(read_pos + (k - 1))]
  <2>1. Used' = Used
    BY <1>1 DEF Used
  <2>2. /\ Unsent' \in Seq(Nat) /\ Len(Unsent') = Used'
        /\ \A k \in 1..Used' : Unsent'[k] = buf'[Wrap(read_pos' + (k - 1))]
    BY UnsentBytes
  <2> QED BY <1>1, <1>3, <2>1, <2>2, UnsentBytes
<1>9. \A k \in 1..u : Unsent'[k] = Unsent[k]
  BY <1>7, <1>8
<1> QED BY <1>2, <1>6, <1>8, <1>9, SameSequence

(* gator_msg_end adds exactly the bytes of the message to what is visible. *)
LEMMA CommitAdds ==
  ASSUME RingType, RingType', QueueInv, Commit, NEW n \in Nat, n = message.written
  PROVE  /\ Used' = Used + n
         /\ Unsent' = Unsent \o [k \in 1..n |-> made + k]
<1>1. /\ write_pos \in Positions /\ read_pos \in Positions /\ made \in Nat
      /\ UNCHANGED <<read_pos, buf>> /\ write_pos' = gator_buf_pos(write_pos + n)
      /\ message \in Fitting /\ Used + message.reserved < SIZE
      /\ \A k \in 1..n : buf[Wrap(write_pos + (k - 1))] = made + k
  BY DEF RingType, QueueInv, Commit
<1>2. PICK u \in Nat : u = Used /\ u + n < SIZE /\ n < SIZE
  <2>1. PICK m \in Nat : m = message.reserved /\ n <= m
    BY <1>1, MessageType
  <2>2. PICK u \in Nat : u = Used
    BY UnsentBytes
  <2>3. u + n < SIZE /\ n < SIZE
    BY <1>1, <2>1, <2>2, SizeAssumption
  <2> QED BY <2>2, <2>3
<1>3. write_pos' = Wrap(write_pos + n)
  BY <1>1, <1>2, StepInRing, Wraps
<1>4. Used' = u + n
  <2>1. Gap(Wrap(write_pos + n), read_pos) = u + n
    BY <1>1, <1>2, UsedArithmetic DEF Used
  <2>2. Used' = Gap(write_pos', read_pos')
    BY DEF Used, Gap
  <2> QED BY <1>1, <1>3, <2>1, <2>2
<1> DEFINE new == [k \in 1..n |-> made + k]
<1>5. new \in Seq(Nat) /\ Len(new) = n /\ \A k \in 1..n : new[k] = made + k
  <2>1. new \in [1..n -> Nat]
    BY <1>1
  <2> QED BY <2>1, SeqDef
<1>6. /\ Unsent \in Seq(Nat) /\ Len(Unsent) = u
      /\ \A k \in 1..u : Unsent[k] = buf[Wrap(read_pos + (k - 1))]
  BY <1>2, UnsentBytes
<1>7. /\ Unsent' \in Seq(Nat) /\ Len(Unsent') = u + n
      /\ \A k \in 1..(u + n) : Unsent'[k] = buf[Wrap(read_pos + (k - 1))]
  BY <1>1, <1>4, UnsentBytes
<1> HIDE DEF new
<1>8. PICK s \in Seq(Nat) : s = Unsent
  BY <1>6
<1>9. /\ s \o new \in Seq(Nat) /\ Len(s \o new) = u + n
      /\ \A k \in 1..(u + n) : (s \o new)[k] = IF k <= u THEN s[k] ELSE new[k - u]
  <2>1. PICK e \in Seq(Nat) : e = new /\ Len(e) = n
    BY <1>5
  <2>2. Len(s) = u
    BY <1>6, <1>8
  <2>3. /\ s \o e \in Seq(Nat) /\ Len(s \o e) = Len(s) + Len(e)
        /\ \A k \in 1..(Len(s) + Len(e)) :
              (s \o e)[k] = IF k <= Len(s) THEN s[k] ELSE e[k - Len(s)]
    BY ConcatProperties
  <2> QED BY <2>1, <2>2, <2>3, Zenon
<1>10. ASSUME NEW k \in 1..(u + n) PROVE Unsent'[k] = (s \o new)[k]
  <2>1. CASE k <= u
    <3>1. k \in 1..u
      BY <2>1
    <3> QED BY <1>6, <1>7, <1>8, <1>9, <2>1, <3>1
  <2>2. CASE ~(k <= u)
    <3>1. PICK j \in 1..n : j = k - u
      BY <2>2
    <3>2. PICK x \in Nat : x = j - 1 /\ u + x = k - 1 /\ u + x < SIZE
      BY <1>2, <3>1, SizeAssumption
    <3>3. Wrap(write_pos + x) = Wrap(read_pos + (u + x))
      BY <1>1, <1>2, <3>2, UsedArithmetic DEF Used
    <3>4. buf[Wrap(read_pos + (k - 1))] = made + j
      BY <1>1, <3>1, <3>2, <3>3
    <3> QED BY <1>5, <1>7, <1>9, <2>2, <3>1, <3>4
  <2> QED BY <2>1, <2>2
<1>11. Unsent' = s \o new
  BY <1>7, <1>9, <1>10, SameSequence
<1> QED BY <1>2, <1>4, <1>8, <1>11 DEF new

(* A send() takes bytes from the front of what is visible. *)
LEMMA SendTakes ==
  ASSUME RingType, RingType', NEW n \in Nat, n <= Used, read_pos + n <= SIZE,
         UNCHANGED <<buf, write_pos>>,
         wire' = wire \o [k \in 1..n |-> buf[read_pos + k - 1]],
         read_pos' = Wrap(read_pos + n)
  PROVE  /\ Used' = Used - n
         /\ wire' = wire \o SubSeq(Unsent, 1, n)
         /\ Unsent' = SubSeq(Unsent, n + 1, Len(Unsent))
<1>1. write_pos \in Positions /\ read_pos \in Positions /\ buf \in [Positions -> Nat]
  BY DEF RingType
<1>2. PICK u \in Nat : u = Used /\ u < SIZE
  BY UnsentBytes
<1>3. Used' = u - n
  <2>1. Gap(write_pos, Wrap(read_pos + n)) = u - n
    BY <1>1, <1>2, UsedArithmetic DEF Used
  <2>2. Used' = Gap(write_pos', read_pos')
    BY DEF Used, Gap
  <2> QED BY <2>1, <2>2
<1>4. PICK s \in Seq(Nat) : s = Unsent
  BY UnsentBytes
<1>5. Len(s) = u /\ \A k \in 1..u : s[k] = buf[Wrap(read_pos + (k - 1))]
  BY <1>2, <1>4, UnsentBytes
<1>6. [k \in 1..n |-> buf[read_pos + k - 1]] = SubSeq(s, 1, n)
  <2>1. ASSUME NEW k \in 1..n PROVE buf[read_pos + k - 1] = s[k]
    <3>1. k \in 1..u /\ read_pos + (k - 1) = read_pos + k - 1 /\ read_pos + (k - 1) < SIZE
      BY <1>1, <1>2, SizeAssumption DEF Positions
    <3> QED BY <1>5, <3>1 DEF Wrap
  <2>2. SubSeq(s, 1, n) = [k \in 1..n |-> s[k]]
    BY <1>2, <1>5
  <2> QED BY <2>1, <2>2
<1>7. /\ Unsent' \in Seq(Nat) /\ Len(Unsent') = u - n
      /\ \A k \in 1..(u - n) : Unsent'[k] = buf[Wrap(Wrap(read_pos + n) + (k - 1))]
  BY <1>3, UnsentBytes
<1>8. PICK t : t = SubSeq(s, n + 1, u)
  OBVIOUS
<1>9. t \in Seq(Nat) /\ Len(t) = u - n /\ \A k \in 1..(u - n) : t[k] = s[n + k]
  <2>1. t = [k \in 1..(u - n) |-> s[n + k]]
    BY <1>2, <1>5, <1>8
  <2>2. \A k \in 1..(u - n) : n + k \in 1..u /\ s[n + k] \in Nat
    BY <1>2, <1>5
  <2>3. u - n \in Nat
    BY <1>2
  <2>4. t \in [1..(u - n) -> Nat]
    BY <2>1, <2>2
  <2>5. PICK d \in Nat : d = u - n
    BY <2>3
  <2>6. t \in [1..d -> Nat]
    BY <2>4, <2>5
  <2>7. t \in Seq(Nat) /\ Len(t) = d
    BY <2>6, SeqDef
  <2> QED BY <2>1, <2>5, <2>7
<1>10. ASSUME NEW k \in 1..(u - n) PROVE Unsent'[k] = t[k]
  <2>1. PICK x \in Nat : x = k - 1 /\ n + x < SIZE
    BY <1>2, SizeAssumption
  <2>2. Wrap(Wrap(read_pos + n) + x) = Wrap(read_pos + (n + x))
    BY <1>1, <2>1, WrapArithmetic
  <2>3. n + k \in 1..u /\ n + x = (n + k) - 1
    BY <1>2, <2>1
  <2>4. Unsent'[k] = buf[Wrap(read_pos + (n + x))] /\ t[k] = s[n + k]
    BY <1>7, <1>9, <2>1, <2>2
  <2>5. s[n + k] = buf[Wrap(read_pos + ((n + k) - 1))]
    BY <1>5, <2>3
  <2> QED BY <2>3, <2>4, <2>5
<1>11. Unsent' = t
  BY <1>7, <1>9, <1>10, SameSequence
<1> QED BY <1>2, <1>3, <1>4, <1>5, <1>6, <1>8, <1>11

(* A send() in a pass of the sender stays behind the position it has read. *)
LEMMA PassSends ==
  ASSUME RingType, SeamInv, QueueInv, Send \/ SendRest
  PROVE  /\ UNCHANGED <<buf, write_pos, snapshot, made, writer, message, oob_length>>
         /\ sender # "close" /\ sender' \in {"oob", "rest", "post", "stop"}
         /\ \/ UNCHANGED <<wire, read_pos>> /\ sender' = "stop"
            \/ \E n \in Nat :
                 /\ 0 < n /\ n <= Used /\ read_pos + n <= SIZE
                 /\ wire' = wire \o [k \in 1..n |-> buf[read_pos + k - 1]]
                 /\ read_pos' = Wrap(read_pos + n)
                 /\ sender' = "rest" => snapshot + n <= Used
<1>1. write_pos \in Positions /\ read_pos \in Positions /\ snapshot \in Positions
  BY DEF RingType
<1>2. PICK u \in Nat : u = Used
  BY UnsentBytes
<1>3. UNCHANGED <<buf, write_pos, snapshot, made, writer, message, oob_length>>
      /\ sender \in {"send", "rest"}
  BY DEF Send, SendRest
<1>4. ASSUME NEW count \in Nat, NEW then \in {"oob", "rest"}, SendBytes(count, then),
             count <= u, read_pos + count <= SIZE, then = "rest" => snapshot + count <= u
      PROVE  /\ sender' \in {"oob", "rest", "post", "stop"}
             /\ \/ UNCHANGED <<wire, read_pos>> /\ sender' = "stop"
                \/ \E n \in Nat :
                     /\ 0 < n /\ n <= Used /\ read_pos + n <= SIZE
                     /\ wire' = wire \o [k \in 1..n |-> buf[read_pos + k - 1]]
                     /\ read_pos' = Wrap(read_pos + n)
                     /\ sender' = "rest" => snapshot + n <= Used
  <2>1. count <= SIZE - read_pos
    BY <1>1, <1>4, SizeAssumption DEF Positions
  <2>2. CASE UNCHANGED <<wire, read_pos>> /\ Fail
    BY <2>2 DEF Fail
  <2>3. ASSUME NEW n \in 1..count,
               wire' = wire \o [k \in 1..n |-> buf[read_pos + k - 1]],
               read_pos' = Wrap(read_pos + n),
               sender' = IF n = count THEN then ELSE "post"
        PROVE  /\ 0 < n /\ n <= Used /\ read_pos + n <= SIZE /\ n \in Nat
               /\ sender' = "rest" => snapshot + n <= Used
               /\ sender' \in {"oob", "rest", "post", "stop"}
    <3>1. 0 < n /\ n <= u /\ read_pos + n <= SIZE /\ n \in Nat
      BY <1>1, <1>4, SizeAssumption DEF Positions
    <3>2. sender' = "rest" => n = count /\ then = "rest"
      BY <2>3
    <3>3. sender' \in {"oob", "rest", "post", "stop"}
      BY <2>3
    <3> QED BY <1>2, <1>4, <3>1, <3>2, <3>3
  <2>4. \/ UNCHANGED <<wire, read_pos>> /\ Fail
        \/ \E n \in 1..count :
             /\ wire' = wire \o [k \in 1..n |-> buf[read_pos + k - 1]]
             /\ read_pos' = Wrap(read_pos + n)
             /\ sender' = IF n = count THEN then ELSE "post"
    BY <1>4, <2>1, SentType
  <2>5. ASSUME NEW n \in 1..count,
               wire' = wire \o [k \in 1..n |-> buf[read_pos + k - 1]],
               read_pos' = Wrap(read_pos + n),
               sender' = IF n = count THEN then ELSE "post"
        PROVE  /\ sender' \in {"oob", "rest", "post", "stop"}
               /\ \E m \in Nat :
                     /\ 0 < m /\ m <= Used /\ read_pos + m <= SIZE
                     /\ wire' = wire \o [k \in 1..m |-> buf[read_pos + k - 1]]
                     /\ read_pos' = Wrap(read_pos + m)
                     /\ sender' = "rest" => snapshot + m <= Used
    BY <2>3, <2>5, Zenon
  <2> QED BY <2>2, <2>4, <2>5, Zenon
<1>5. CASE Send
  <2>1. Gap(snapshot, read_pos) <= u /\ snapshot # read_pos
    BY <1>2, <1>5 DEF Send, QueueInv
  <2>2. CASE snapshot > read_pos
    <3>1. PICK count \in Nat : count = snapshot - read_pos
      BY <1>1, <2>2, SizeAssumption DEF Positions
    <3>2. count <= u /\ read_pos + count <= SIZE
      BY <1>1, <2>1, <2>2, <3>1, SizeAssumption DEF Positions, Gap
    <3>3. SendBytes(count, "oob")
      BY <1>5, <2>2, <3>1 DEF Send, SendFirst
    <3> QED BY <1>3, <1>4, <3>2, <3>3
  <2>3. CASE ~(snapshot > read_pos)
    <3>1. PICK count \in Nat : count = SIZE - read_pos
      BY <1>1, SizeAssumption DEF Positions
    <3>2. count <= u /\ read_pos + count <= SIZE /\ snapshot + count <= u
      BY <1>1, <2>1, <2>3, <3>1, SizeAssumption DEF Positions, Gap
    <3>3. SendBytes(count, "rest")
      BY <1>5, <2>3, <3>1 DEF Send, SendFirst
    <3> QED BY <1>3, <1>4, <3>2, <3>3
  <2> QED BY <2>2, <2>3
<1>6. CASE SendRest
  <2>1. snapshot \in Nat /\ snapshot <= u /\ read_pos = 0 /\ read_pos + snapshot <= SIZE
    BY <1>1, <1>2, <1>6, SizeAssumption DEF SendRest, QueueInv, SeamInv, Positions
  <2>2. CASE sender' = "stop" /\ UNCHANGED <<wire, read_pos>>
    BY <1>3, <2>2
  <2>3. CASE SendBytes(snapshot, "oob")
    <3>1. PICK count \in Nat : count = snapshot
      BY <2>1
    <3> QED BY <1>3, <1>4, <2>1, <2>3, <3>1
  <2> QED BY <1>6, <2>2, <2>3 DEF SendRest
<1> QED BY <1>5, <1>6

(* QueueInv is an invariant of a ring without images. *)
LEMMA QueueInvariant == NoImages => (Spec => []QueueInv)
<1> SUFFICES ASSUME NoImages PROVE Spec => []QueueInv
  OBVIOUS
<1>1. Init => QueueInv
  BY DEF Init, QueueInv
<1>2. RingType /\ RingType' /\ SeamInv /\ QueueInv /\ [Next]_vars => QueueInv'
  <2> SUFFICES ASSUME RingType, RingType', SeamInv, QueueInv, [Next]_vars PROVE QueueInv'
    OBVIOUS
  <2>1. PICK r \in Positions, w \in Positions, s \in Positions, u \in Nat :
           r = read_pos /\ w = write_pos /\ s = snapshot /\ u = Used /\ u = Gap(w, r) /\ u < SIZE
    BY UnsentBytes DEF RingType, Used
  <2>2. ASSUME UNCHANGED <<buf, write_pos, read_pos, oob_length, writer, message, made>>,
               sender' \in {"test", "send"} => Gap(snapshot', read_pos') <= Used,
               sender' = "send" => snapshot' # read_pos',
               sender' = "rest" => snapshot' <= Used
        PROVE  QueueInv'
    <3>1. Used' = Used
      BY <2>2 DEF Used
    <3> QED BY <2>2, <3>1 DEF QueueInv
  <2>3. CASE Connect \/ Post \/ Stop \/ StopDrop \/ StopClose \/ Break \/ Resume
               \/ UNCHANGED vars \/ SendOob \/ ReadPos \/ Pending
    <3>1. CASE StopDrop
      <4>1. /\ read_pos' = w /\ sender' = "close"
            /\ UNCHANGED <<buf, write_pos, oob_length, writer, message, made>>
        BY <2>1, <3>1 DEF StopDrop, DropUnsent
      <4>2. Used' = 0
        <5>1. Used' = Gap(w, w)
          BY <2>1, <4>1 DEF Used, Gap
        <5> QED BY <5>1, WrapArithmetic
      <4>3. writer \in {"write", "commit"} => 0 + message.reserved < SIZE
        <5> SUFFICES ASSUME writer \in {"write", "commit"} PROVE 0 + message.reserved < SIZE
          OBVIOUS
        <5>1. PICK m \in Nat : m = message.reserved
          BY MessageType DEF RingType
        <5>2. u + m < SIZE
          BY <2>1, <5>1 DEF QueueInv
        <5> QED BY <5>1, <5>2, SizeAssumption
      <4> QED BY <4>1, <4>2, <4>3 DEF QueueInv
    <3>2. CASE StopClose
      BY <2>2, <3>2 DEF StopClose, QueueInv
    <3>3. CASE SendOob
      <4>1. oob_length = 0
        BY DEF QueueInv
      <4>2. UNCHANGED oob_length /\ (sender' = "post" \/ sender' = "stop")
        BY <3>3, <4>1 DEF SendOob, Fail
      <4> QED BY <2>2, <3>3, <4>2 DEF SendOob
    <3>4. CASE ReadPos
      <4>1. Gap(w, r) <= u
        BY <2>1
      <4> QED BY <2>1, <2>2, <3>4, <4>1 DEF ReadPos
    <3>5. CASE Pending
      BY <2>2, <3>5 DEF Pending, QueueInv
    <3>6. CASE Connect \/ Post \/ Stop \/ Resume
      <4>1. /\ UNCHANGED <<buf, write_pos, read_pos, oob_length, writer, message, made>>
            /\ sender' \in {"read", "connect", "stop", "drop"}
        BY <3>6 DEF Connect, Post, Stop, Resume, Fail
      <4> QED BY <2>2, <4>1
    <3>7. CASE Break \/ UNCHANGED vars
      <4>1. UNCHANGED <<buf, write_pos, read_pos, oob_length, writer, message, made, sender,
                        snapshot>>
        BY <3>7 DEF Break, vars
      <4> QED BY <2>2, <4>1 DEF QueueInv
    <3> QED BY <2>3, <3>1, <3>2, <3>3, <3>4, <3>5, <3>6, <3>7
  <2>4. CASE Send \/ SendRest
    <3>1. CASE UNCHANGED <<wire, read_pos>> /\ sender' = "stop"
      BY <2>2, <2>4, <3>1, PassSends
    <3>2. ASSUME NEW n \in Nat, 0 < n, n <= Used, read_pos + n <= SIZE,
                 wire' = wire \o [k \in 1..n |-> buf[read_pos + k - 1]],
                 read_pos' = Wrap(read_pos + n),
                 sender' = "rest" => snapshot + n <= Used
          PROVE  QueueInv'
      <4>1. /\ UNCHANGED <<buf, write_pos, snapshot, made, writer, message, oob_length>>
            /\ sender' \notin {"test", "send"}
        BY <2>4, PassSends
      <4>2. Used' = u - n
        BY <2>1, <3>2, <4>1, SendTakes
      <4>3. writer \in {"write", "commit"} => (u - n) + message.reserved < SIZE
        <5> SUFFICES ASSUME writer \in {"write", "commit"}
                     PROVE  (u - n) + message.reserved < SIZE
          OBVIOUS
        <5>1. PICK m \in Nat : m = message.reserved
          BY MessageType DEF RingType
        <5>2. u + m < SIZE
          BY <2>1, <5>1 DEF QueueInv
        <5> QED BY <2>1, <3>2, <5>1, <5>2, SizeAssumption
      <4>4. sender' = "rest" => snapshot <= u - n
        BY <2>1, <3>2 DEF Positions
      <4> QED BY <4>1, <4>2, <4>3, <4>4 DEF QueueInv
    <3> QED BY <2>4, <3>1, <3>2, PassSends, Zenon
  <2>5. CASE Begin
    BY <2>5 DEF Begin, Choose, QueueInv, Used
  <2>6. CASE Room
    <3>1. /\ UNCHANGED <<buf, write_pos, read_pos, oob_length, message, made, sender, snapshot>>
          /\ writer' \in {"asleep", "write"}
          /\ writer' = "write" => ~(SIZE - 1 - u < message.reserved)
      BY <2>1, <2>6, UnsentBytes DEF Room
    <3>2. writer' = "write" => u + message.reserved < SIZE
      <4>1. PICK m \in Nat : m = message.reserved
        BY <2>6, MessageType DEF RingType, Room
      <4> QED BY <3>1, <4>1, SizeAssumption
    <3>3. Used' = u
      BY <2>1, <3>1 DEF Used
    <3> QED BY <2>1, <3>1, <3>2, <3>3 DEF QueueInv
  <2>7. CASE Wake
    BY <2>7 DEF Wake, QueueInv, Used
  <2>8. CASE Write
    <3>1. /\ UNCHANGED <<write_pos, read_pos, oob_length, message, made, sender, snapshot>>
          /\ writer = "write" /\ writer' = "commit"
      BY <2>8 DEF Write
    <3>2. \A k \in 1..message.written : buf'[Wrap(write_pos + (k - 1))] = made + k
      BY <2>8, WriteKeepsUnsent
    <3>3. Used' = Used
      BY <3>1 DEF Used
    <3> QED BY <3>1, <3>2, <3>3 DEF QueueInv
  <2>9. CASE Commit
    <3>1. message \in Fitting /\ message.image = 0
      BY <2>9 DEF RingType, Commit, Fitting, NoImages
    <3>2. PICK n \in Nat : n = message.written
      BY <3>1, MessageType
    <3>3. Used' = u + n
      BY <2>1, <2>9, <3>2, CommitAdds
    <3>4. /\ UNCHANGED <<read_pos, oob_length, sender, snapshot>> /\ writer' \in {"room", "idle"}
      BY <2>9, <3>1 DEF Commit, Choose, Return
    <3>5. sender \in {"test", "send"} => Gap(s, r) <= u + n
      <4>1. Gap(s, r) \in Nat
        BY Wraps, SizeAssumption DEF Positions
      <4> QED BY <2>1, <4>1 DEF QueueInv
    <3>6. sender = "rest" => s <= u + n
      BY <2>1 DEF QueueInv, Positions
    <3> QED BY <2>1, <3>3, <3>4, <3>5, <3>6 DEF QueueInv
  <2>10. CASE Image \/ Drain
    BY <2>10 DEF Image, Drain, QueueInv
  <2> QED BY <2>3, <2>4, <2>5, <2>6, <2>7, <2>8, <2>9, <2>10 DEF Next, Writer, Sender
<1> QED BY <1>1, <1>2, RingTypeInvariant, PTL DEF Spec

(* Every step of the ring without images is one of the queue, or none. *)
LEMMA RingStep ==
  ASSUME NoImages, RingType, RingType', SeamInv, QueueInv, [Next]_vars
  PROVE  Fifo!Next \/ UNCHANGED Fifo!vars
<1>1. ASSUME UNCHANGED <<buf, write_pos, read_pos, wire, made>>,
             (sender = "close") <=> (sender' = "close")
      PROVE  UNCHANGED Fifo!vars
  BY <1>1 DEF Fifo!vars, Unsent, gator_buf_used, gator_buf_pos
<1>2. CASE Begin \/ Room \/ Wake \/ Image \/ Drain \/ Break \/ UNCHANGED vars
  <2>1. UNCHANGED <<buf, write_pos, read_pos, wire, made, sender>>
    BY <1>2 DEF Begin, Room, Wake, Image, Drain, Break, vars
  <2> QED BY <1>1, <2>1
<1>3. CASE Connect \/ ReadPos \/ Pending \/ Post \/ Stop \/ Resume
  <2>1. UNCHANGED <<buf, write_pos, read_pos, wire, made>> /\ sender # "close"
        /\ sender' # "close"
    BY <1>3 DEF Connect, ReadPos, Pending, Post, Stop, Resume, Fail
  <2> QED BY <1>1, <2>1
<1>4. CASE SendOob
  <2>1. UNCHANGED <<buf, write_pos, read_pos, wire, made>> /\ sender # "close"
        /\ sender' # "close"
    <3>1. oob_length = 0
      BY DEF QueueInv
    <3> QED BY <1>4, <3>1 DEF SendOob, Fail
  <2> QED BY <1>1, <2>1
<1>5. CASE Write
  <2>1. Unsent' = Unsent /\ UNCHANGED <<wire, made, sender>>
    BY <1>5, WriteKeepsUnsent DEF Write
  <2> QED BY <2>1 DEF Fifo!vars
<1>6. CASE Commit
  <2>1. message \in Fitting /\ message.image = 0
    BY <1>6 DEF RingType, Commit, Fitting, NoImages
  <2>2. PICK n \in Nat : n = message.written /\ 0 < n
    BY <2>1, MessageType
  <2>3. PICK m \in Nat : m = made
    BY DEF RingType
  <2>4. Unsent' = Unsent \o [k \in 1..n |-> m + k]
    BY <1>6, <2>2, <2>3, CommitAdds
  <2>5. made' = m + n + 0 /\ UNCHANGED <<wire, sender>>
    BY <1>6, <2>1, <2>2, <2>3 DEF Commit
  <2>6. made' \in Nat /\ made' > made /\ made' - made = n
    BY <2>2, <2>3, <2>5
  <2>7. Fifo!Put
    BY <2>3, <2>4, <2>5, <2>6 DEF Fifo!Put
  <2> QED BY <2>7 DEF Fifo!Next
<1>7. CASE Send \/ SendRest
  <2>1. UNCHANGED <<buf, write_pos, made>> /\ sender # "close" /\ sender' # "close"
    BY <1>7, PassSends
  <2>2. CASE UNCHANGED <<wire, read_pos>>
    BY <1>1, <2>1, <2>2
  <2>3. ASSUME NEW n \in Nat, 0 < n, n <= Used, read_pos + n <= SIZE,
               wire' = wire \o [k \in 1..n |-> buf[read_pos + k - 1]],
               read_pos' = Wrap(read_pos + n)
        PROVE  Fifo!Next
    <3>1. /\ wire' = wire \o SubSeq(Unsent, 1, n)
          /\ Unsent' = SubSeq(Unsent, n + 1, Len(Unsent))
      BY <2>1, <2>3, SendTakes
    <3>2. n \in 1..Len(Unsent)
      <4>1. PICK u \in Nat : u = Len(Unsent) /\ u = Used
        BY UnsentBytes
      <4> QED BY <2>3, <4>1
    <3>3. Fifo!Deliver
      BY <2>1, <3>1, <3>2 DEF Fifo!Deliver
    <3> QED BY <3>3 DEF Fifo!Next
  <2> QED BY <1>7, <2>2, <2>3, PassSends, Zenon
<1>8. CASE StopDrop
  <2>1. UNCHANGED <<made, wire>> /\ sender # "close" /\ sender' = "close"
        /\ read_pos' = write_pos /\ write_pos' = write_pos
    BY <1>8 DEF StopDrop, DropUnsent
  <2>2. Len(Unsent') = 0 /\ Unsent' \in Seq(Nat)
    <3>1. PICK w \in Positions : w = write_pos
      BY DEF RingType
    <3>2. Used' = Gap(w, w)
      BY <2>1, <3>1 DEF Used, Gap
    <3> QED BY <3>2, WrapArithmetic, UnsentBytes
  <2>3. Unsent' = <<>>
    BY <2>2, EmptySeq
  <2>4. Fifo!Drop
    BY <2>1, <2>3 DEF Fifo!Drop
  <2> QED BY <2>4 DEF Fifo!Next
<1>9. CASE StopClose
  <2>1. /\ UNCHANGED <<buf, write_pos, read_pos, made>> /\ wire' = <<>>
        /\ sender = "close" /\ sender' # "close"
    BY <1>9 DEF StopClose
  <2>2. Unsent' = Unsent
    BY <2>1 DEF Unsent, gator_buf_used, gator_buf_pos
  <2>3. Fifo!Close
    BY <2>1, <2>2 DEF Fifo!Close
  <2> QED BY <2>3 DEF Fifo!Next
<1> QED BY <1>2, <1>3, <1>4, <1>5, <1>6, <1>7, <1>8, <1>9 DEF Next, Writer, Sender

(* Without images the ring buffer of an annotating thread implements the queue *)
(* of GatorFifo, for every size of the ring, all annotations and any           *)
(* interleaving of the two threads, stops and restarts included.               *)
THEOREM RingIsFifoHolds == NoImages => (Spec => RingIsFifo)
<1> SUFFICES ASSUME NoImages PROVE Spec => RingIsFifo
  OBVIOUS
<1>1. Init => Fifo!Init
  <2> SUFFICES ASSUME Init PROVE Fifo!Init
    OBVIOUS
  <2>1. made = 0 /\ wire = <<>> /\ sender # "close" /\ write_pos = 0 /\ read_pos = 0
    BY DEF Init
  <2>2. gator_buf_used = 0
    BY <2>1, SizeAssumption DEF gator_buf_used
  <2>3. Unsent = <<>>
    BY <2>2 DEF Unsent
  <2> QED BY <2>1, <2>3 DEF Fifo!Init
<1>2. RingType /\ RingType' /\ SeamInv /\ QueueInv /\ [Next]_vars => [Fifo!Next]_(Fifo!vars)
  BY RingStep
<1> QED BY <1>1, <1>2, RingTypeInvariant, QueueInvariant, PTL DEF Spec, RingIsFifo, Fifo!Spec

\* What is not sent are the last bytes made; what was sent on this connection ends where
\* they begin, and a connection that has sent nothing stands at the end of an annotation.
StreamInv ==
  /\ made \in ends
  /\ Len(Unsent) <= made /\ \A k \in 1..Len(Unsent) : Unsent[k] = made - Len(Unsent) + k
  /\ StreamUnbroken
  /\ sender # "close" /\ wire # <<>> => wire[Len(wire)] = made - Len(Unsent)
  /\ wire = <<>> \/ sender = "close" => made - Len(Unsent) \in ends

Consecutive(s) == \A k \in 1..Len(s)-1 : s[k+1] = s[k] + 1
LastBytes(q, m) == \A k \in 1..Len(q) : q[k] = m - Len(q) + k

\* Stream v goes on with queue q of the last bytes up to m; stream z ends with byte m.
GoesOn(v, q, m, E) ==
  /\ LastBytes(q, m) /\ Consecutive(v)
  /\ v # <<>> => v[1] - 1 \in E /\ v[Len(v)] = m - Len(q)
  /\ v = <<>> => m - Len(q) \in E
EndsWith(z, m, E) == Consecutive(z) /\ z # <<>> /\ z[1] - 1 \in E /\ z[Len(z)] = m

(* A delivery of n bytes continues the stream. *)
LEMMA Delivery ==
  ASSUME NEW q \in Seq(Nat), NEW v \in Seq(Int), NEW m \in Nat, NEW E, NEW n \in 1..Len(q),
         GoesOn(v, q, m, E)
  PROVE  EndsWith(v \o SubSeq(q, 1, n), m - (Len(q) - n), E)
<1>0. PICK z : z = v \o SubSeq(q, 1, n)
  OBVIOUS
<1>1. PICK L \in Nat, V \in Nat : L = Len(q) /\ V = Len(v)
  OBVIOUS
<1>2. PICK p : p = SubSeq(q, 1, n)
  OBVIOUS
<1>3. n \in Nat /\ 1 <= n /\ n <= L
  BY <1>1
<1>4. p \in Seq(Int) /\ Len(p) = n /\ \A k \in 1..n : p[k] = m - L + k
  <2>1. \A k \in 1..n : q[k] \in Int /\ q[k] = m - L + k
    <3>1. \A k \in 1..n : k \in 1..Len(q)
      BY <1>1, <1>3
    <3>2. \A k \in 1..Len(q) : q[k] = m - Len(q) + k
      BY DEF LastBytes, GoesOn
    <3>3. \A k \in 1..Len(q) : q[k] \in Int
      OBVIOUS
    <3> QED BY <1>1, <3>1, <3>2, <3>3
  <2>2. p \in Seq(Int) /\ Len(p) = n /\ \A k \in 1..n : p[k] = q[k]
    BY <1>2, <1>3, <2>1
  <2> QED BY <2>1, <2>2
<1>5. /\ Len(z) = V + n
      /\ \A k \in 1..(V + n) : z[k] = IF k <= V THEN v[k] ELSE p[k - V]
  <2>1. /\ Len(v \o p) = Len(v) + Len(p)
        /\ \A k \in 1..(Len(v) + Len(p)) :
              (v \o p)[k] = IF k <= Len(v) THEN v[k] ELSE p[k - Len(v)]
    BY <1>4, ConcatProperties
  <2> QED BY <1>0, <1>1, <1>2, <1>4, <2>1, Zenon
<1>6. \A k \in 1..V : z[k] = v[k]
  BY <1>3, <1>5
<1>7. \A j \in 1..n : z[V + j] = m - L + j
  <2> SUFFICES ASSUME NEW j \in 1..n PROVE z[V + j] = m - L + j
    OBVIOUS
  <2>1. V + j \in 1..(V + n) /\ ~(V + j <= V) /\ (V + j) - V = j
    BY <1>3
  <2> QED BY <1>4, <1>5, <2>1
<1>8. V = 0 <=> v = <<>>
  BY <1>1
<1>9. V # 0 => v[V] = m - L /\ v[1] - 1 \in E
  BY <1>1, <1>8 DEF GoesOn
<1>10. ASSUME NEW k \in 1..(V + n - 1) PROVE z[k + 1] = z[k] + 1
  <2>1. CASE k < V
    <3>1. k \in 1..V /\ k + 1 \in 1..V /\ k \in 1..V-1
      BY <1>3, <2>1
    <3>2. v[k + 1] = v[k] + 1
      BY <1>1, <3>1 DEF Consecutive, GoesOn
    <3> QED BY <1>6, <3>1, <3>2
  <2>2. CASE k = V
    <3>1. V \in 1..V /\ 1 \in 1..n /\ V # 0
      BY <1>3, <2>2
    <3>2. z[V] = m - L /\ z[V + 1] = m - L + 1
      BY <1>6, <1>7, <1>9, <3>1
    <3> QED BY <1>1, <2>2, <3>2
  <2>3. CASE k > V
    <3>1. PICK j \in Nat : k = V + j /\ j \in 1..n /\ j + 1 \in 1..n /\ k + 1 = V + (j + 1)
      <4>1. k - V \in Nat /\ k = V + (k - V) /\ k - V \in 1..n /\ (k - V) + 1 \in 1..n
            /\ k + 1 = V + ((k - V) + 1)
        BY <1>3, <2>3
      <4> QED BY <4>1
    <3>2. z[k] = m - L + j /\ z[k + 1] = m - L + (j + 1)
      BY <1>7, <3>1
    <3>3. m - L + (j + 1) = (m - L + j) + 1
      BY <1>3, <3>1
    <3> QED BY <3>2, <3>3
  <2>4. k < V \/ k = V \/ k > V
    BY <1>1, <1>3
  <2> QED BY <2>1, <2>2, <2>3, <2>4
<1>11. z[1] - 1 \in E
  <2>1. CASE V = 0
    <3>1. 1 \in 1..n /\ V + 1 = 1 /\ (m - L + 1) - 1 = m - L
      BY <1>1, <1>3, <2>1
    <3>2. z[1] = m - L + 1
      BY <1>7, <3>1
    <3> QED BY <1>1, <1>8, <2>1, <3>1, <3>2 DEF GoesOn
  <2>2. CASE V # 0
    <3>1. 1 \in 1..V
      BY <1>1, <2>2
    <3> QED BY <1>6, <1>9, <2>2, <3>1
  <2> QED BY <2>1, <2>2
<1>12. z[Len(z)] = m - (L - n)
  <2>1. n \in 1..n /\ m - L + n = m - (L - n)
    BY <1>1, <1>3
  <2> QED BY <1>5, <1>7, <2>1
<1>13. z # <<>>
  <2>1. Len(z) # 0
    BY <1>3, <1>5
  <2> QED BY <2>1
<1>14. Len(z) - 1 = V + n - 1
  BY <1>3, <1>5
<1> QED BY <1>1, <1>10, <1>11, <1>12, <1>13, <1>14, <1>0 DEF Consecutive, EndsWith

(* Annotations only end where bytes were made, and every end is kept. *)
LEMMA EndsKept ==
  ASSUME RingType, [Next]_vars, made \in ends
  PROVE  ends \subseteq ends' /\ made' \in ends'
<1>1. CASE Commit
  BY <1>1 DEF Commit
<1>2. CASE ~Commit
  <2>1. UNCHANGED <<made, ends>>
    BY <1>2 DEF Next, Begin, Writer, Sender, Break, Resume, Room, Wake, Write, Image, Drain,
       Connect, ReadPos, Pending, Send, SendRest, SendOob, Post, Stop, StopDrop, StopClose, vars
  <2> QED BY <2>1
<1> QED BY <1>1, <1>2

(* gatord receives an unbroken stream on every connection, beginning with an   *)
(* annotation, for every ring without images: no byte is skipped, repeated or  *)
(* torn off the annotation it belongs to by a stop and restart.                *)
THEOREM StreamUnbrokenHolds == NoImages => (Spec => []StreamUnbroken)
<1> SUFFICES ASSUME NoImages PROVE Spec => []StreamUnbroken
  OBVIOUS
<1>1. Init => StreamInv
  <2> SUFFICES ASSUME Init PROVE StreamInv
    OBVIOUS
  <2>1. made = 0 /\ ends = {0} /\ wire = <<>> /\ write_pos = 0 /\ read_pos = 0
    BY DEF Init
  <2>2. gator_buf_used = 0
    BY <2>1, SizeAssumption DEF gator_buf_used
  <2>3. Unsent = <<>>
    BY <2>2 DEF Unsent
  <2>4. Len(Unsent) = 0 /\ Len(wire) = 0
    BY <2>1, <2>3
  <2> QED BY <2>1, <2>4 DEF StreamInv, StreamUnbroken
<1>2. RingType /\ RingType' /\ SeamInv /\ QueueInv /\ StreamInv /\ [Next]_vars => StreamInv'
  <2> SUFFICES ASSUME RingType, RingType', SeamInv, QueueInv, StreamInv, [Next]_vars
               PROVE  StreamInv'
    OBVIOUS
  <2>1. PICK q \in Seq(Nat), v \in Seq(Int), m \in Nat, L \in Nat :
           q = Unsent /\ v = wire /\ m = made /\ L = Len(q)
    BY UnsentBytes DEF RingType
  <2>2. /\ m \in ends /\ L <= m /\ \A k \in 1..L : q[k] = m - L + k
        /\ \A k \in 1..Len(v)-1 : v[k+1] = v[k] + 1
        /\ v # <<>> => v[1] - 1 \in ends
        /\ sender # "close" /\ v # <<>> => v[Len(v)] = m - L
        /\ v = <<>> \/ sender = "close" => m - L \in ends
    BY <2>1 DEF StreamInv, StreamUnbroken
  <2>3. ends \subseteq ends' /\ made' \in ends'
    BY EndsKept DEF StreamInv
  <2>4. CASE UNCHANGED Fifo!vars
    <3>1. UNCHANGED <<made, Unsent, wire>> /\ ((sender = "close") <=> (sender' = "close"))
      BY <2>4 DEF Fifo!vars
    <3> QED BY <2>3, <3>1 DEF StreamInv, StreamUnbroken
  <2>5. CASE Fifo!Put
    <3>0. made' \in Nat /\ made' > m
      BY <2>1, <2>5 DEF Fifo!Put
    <3>1. PICK n \in Nat : n = made' - m /\ n > 0 /\ made' = m + n
      <4>1. PICK w \in Nat : w = made'
        BY <3>0
      <4>2. w > m
        BY <3>0, <4>1
      <4>3. w - m \in Nat /\ w - m > 0 /\ w = m + (w - m)
        BY <4>2
      <4> QED BY <4>1, <4>3
    <3>2. PICK e : e = [k \in 1..n |-> m + k]
      OBVIOUS
    <3>3. e \in Seq(Nat) /\ Len(e) = n /\ \A k \in 1..n : e[k] = m + k
      <4>1. e \in [1..n -> Nat] /\ \A k \in 1..n : e[k] = m + k
        BY <3>2
      <4> QED BY <4>1, SeqDef
    <3>4. Unsent' = q \o e /\ wire' = v /\ ((sender = "close") <=> (sender' = "close"))
      BY <2>1, <2>5, <3>1, <3>2 DEF Fifo!Put
    <3>5. /\ Len(q \o e) = L + n
          /\ \A k \in 1..(L + n) : (q \o e)[k] = IF k <= L THEN q[k] ELSE e[k - L]
      <4>1. /\ Len(q \o e) = Len(q) + Len(e)
            /\ \A k \in 1..(Len(q) + Len(e)) :
                  (q \o e)[k] = IF k <= Len(q) THEN q[k] ELSE e[k - Len(q)]
        BY <3>3, ConcatProperties
      <4> QED BY <2>1, <3>3, <4>1, Zenon
    <3>6. made' - Len(Unsent') = m - L /\ Len(Unsent') <= made' /\ Len(Unsent') = L + n
      <4>1. Len(Unsent') = L + n
        BY <3>4, <3>5
      <4>2. (m + n) - (L + n) = m - L /\ L + n <= m + n
        BY <2>2
      <4> QED BY <3>1, <4>1, <4>2
    <3>7. ASSUME NEW k \in 1..(L + n) PROVE (q \o e)[k] = m - L + k
      <4>1. CASE k <= L
        BY <2>2, <3>5, <4>1
      <4>2. CASE ~(k <= L)
        <5>1. k - L \in 1..n /\ m + (k - L) = m - L + k
          BY <4>2
        <5> QED BY <3>3, <3>5, <4>2, <5>1
      <4> QED BY <4>1, <4>2
    <3>8. \A k \in 1..Len(Unsent') : Unsent'[k] = made' - Len(Unsent') + k
      BY <3>4, <3>6, <3>7
    <3> QED BY <2>2, <2>3, <3>4, <3>6, <3>8 DEF StreamInv, StreamUnbroken
  <2>6. CASE Fifo!Deliver
    <3>1. PICK n \in 1..L : wire' = v \o SubSeq(q, 1, n) /\ Unsent' = SubSeq(q, n + 1, L)
      BY <2>1, <2>6 DEF Fifo!Deliver
    <3>2. made' = m /\ sender # "close" /\ sender' # "close"
      BY <2>1, <2>6 DEF Fifo!Deliver
    <3>3. PICK z, E : z = wire' /\ E = ends
      OBVIOUS
    <3>4. EndsWith(z, m - (L - n), E)
      <4>1. GoesOn(v, q, m, E)
        BY <2>1, <2>2, <3>2, <3>3 DEF GoesOn, LastBytes, Consecutive
      <4>2. EndsWith(v \o SubSeq(q, 1, n), m - (Len(q) - n), E)
        BY <2>1, <4>1, Delivery
      <4> QED BY <2>1, <3>1, <3>3, <4>2
    <3>5. PICK t : t = SubSeq(q, n + 1, L)
      OBVIOUS
    <3>6. Len(t) = L - n /\ \A k \in 1..(L - n) : t[k] = q[n + k]
      <4>0. L - n \in Nat
        OBVIOUS
      <4>1. PICK d \in Nat : d = L - n
        BY <4>0
      <4>2. t = [k \in 1..d |-> q[n + k]]
        BY <2>1, <3>5, <4>1
      <4>3. Len(t) = d
        BY <4>2
      <4> QED BY <4>1, <4>2, <4>3
    <3>7. Len(t) <= m /\ \A k \in 1..Len(t) : t[k] = m - Len(t) + k
      <4>1. ASSUME NEW k \in 1..(L - n) PROVE t[k] = m - (L - n) + k
        <5>1. n + k \in 1..L /\ m - L + (n + k) = m - (L - n) + k
          OBVIOUS
        <5> QED BY <2>2, <3>6, <5>1
      <4> QED BY <2>2, <3>6, <4>1
    <3>8. Unsent' = t
      BY <3>1, <3>5
    <3>9. /\ \A k \in 1..Len(z)-1 : z[k+1] = z[k] + 1
          /\ z # <<>> /\ z[1] - 1 \in E /\ z[Len(z)] = m - (L - n)
      BY <3>4 DEF EndsWith, Consecutive
    <3> QED BY <2>3, <3>2, <3>3, <3>6, <3>7, <3>8, <3>9 DEF StreamInv, StreamUnbroken
  <2>7. CASE Fifo!Drop
    <3>1. Unsent' = <<>> /\ made' = m /\ wire' = v /\ sender # "close" /\ sender' = "close"
      BY <2>1, <2>7 DEF Fifo!Drop
    <3>2. Len(Unsent') = 0 /\ m - 0 = m
      BY <3>1
    <3> QED BY <2>2, <2>3, <3>1, <3>2 DEF StreamInv, StreamUnbroken
  <2>8. CASE Fifo!Close
    <3>1. Unsent' = q /\ made' = m /\ wire' = <<>> /\ sender = "close" /\ sender' # "close"
      BY <2>1, <2>8 DEF Fifo!Close
    <3>2. Len(wire') = 0
      BY <3>1
    <3> QED BY <2>1, <2>2, <2>3, <3>1, <3>2 DEF StreamInv, StreamUnbroken
  <2> QED BY <2>4, <2>5, <2>6, <2>7, <2>8, RingStep DEF Fifo!Next
<1>3. StreamInv => StreamUnbroken
  BY DEF StreamInv
<1> QED BY <1>1, <1>2, <1>3, RingTypeInvariant, QueueInvariant, PTL DEF Spec
===============================================================================
