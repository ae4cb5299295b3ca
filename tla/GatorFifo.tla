------------------------------ MODULE GatorFifo ------------------------------
(***************************************************************************)
(* What the ring buffer of one annotating thread promises: the bytes of    *)
(* its annotations reach gatord in the order they were made, none twice    *)
(* and none skipped, on one connection.  When capturing stops the bytes    *)
(* not yet sent are dropped and the connection ends.  Byte number n is the *)
(* n-th byte the thread ever made.                                         *)
(***************************************************************************)
EXTENDS Integers, Sequences

VARIABLES
  made,    \* number of bytes made
  queue,   \* bytes made and not sent
  wire,    \* bytes gatord received on the present connection
  open     \* FALSE while a connection that lost bytes is being closed

vars == <<made, queue, wire, open>>

Init == made = 0 /\ queue = <<>> /\ wire = <<>> /\ open = TRUE

\* An annotation of one byte or more becomes visible, whole.
Put ==
  /\ made' \in Nat /\ made' > made
  /\ queue' = queue \o [k \in 1..made' - made |-> made + k]
  /\ UNCHANGED <<wire, open>>

Deliver ==
  /\ open
  /\ \E n \in 1..Len(queue) :
       /\ wire' = wire \o SubSeq(queue, 1, n)
       /\ queue' = SubSeq(queue, n + 1, Len(queue))
  /\ UNCHANGED <<made, open>>

Drop == open /\ open' = FALSE /\ queue' = <<>> /\ UNCHANGED <<made, wire>>

Close == ~open /\ open' = TRUE /\ wire' = <<>> /\ UNCHANGED <<made, queue>>

Next == Put \/ Deliver \/ Drop \/ Close

Spec == Init /\ [][Next]_vars
===============================================================================
