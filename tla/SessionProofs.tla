---------------------------- MODULE SessionProofs ----------------------------
(* Invariance proofs for the threads, definitions and captures of the Streamline *)
(* annotations, for every number of annotating threads, structures, definitions  *)
(* and calls.                                                                    *)
EXTENDS GatorSession, SequenceTheorems, TLAPS

USE DEF writerVars, localVars, listVars, flagVars, semVars, captureVars

-------------------------------------------------------------------------------
(* Sequences and the sets of their elements.                                     *)

\* No element twice.
NoRepeat(s) == \A i, j \in 1..Len(s) : s[i] = s[j] => i = j

\* The elements of a sequence are those at its indices.
LEMMA ToSetElements ==
  ASSUME NEW S, NEW s \in Seq(S)
  PROVE  /\ \A x : x \in ToSet(s) <=> \E i \in 1..Len(s) : s[i] = x
         /\ ToSet(s) \subseteq S
<1>1. DOMAIN s = 1..Len(s) /\ \A i \in 1..Len(s) : s[i] \in S
  BY LenProperties
<1> QED BY <1>1 DEF ToSet

\* Putting two sequences one after the other joins their elements.
LEMMA ToSetConcat ==
  ASSUME NEW S, NEW s \in Seq(S), NEW t \in Seq(S)
  PROVE  s \o t \in Seq(S) /\ ToSet(s \o t) = ToSet(s) \cup ToSet(t)
<1>1. s \o t \in Seq(S) /\ Range(s \o t) = Range(s) \cup Range(t)
  BY ConcatProperties, RangeConcatenation
<1> QED BY <1>1 DEF ToSet, Range

\* A sequence of one.
LEMMA ToSetOne ==
  ASSUME NEW S, NEW x \in S
  PROVE  <<x>> \in Seq(S) /\ ToSet(<<x>>) = {x}
BY DEF ToSet

\* Appending adds the element.
LEMMA ToSetAppend ==
  ASSUME NEW S, NEW s \in Seq(S), NEW x \in S
  PROVE  /\ Append(s, x) \in Seq(S) /\ ToSet(Append(s, x)) = ToSet(s) \cup {x}
         /\ Len(Append(s, x)) = Len(s) + 1
<1>1. Append(s, x) = s \o <<x>> /\ Len(Append(s, x)) = Len(s) + 1
  BY AppendIsConcat, AppendProperties
<1>2. <<x>> \in Seq(S) /\ ToSet(<<x>>) = {x}
  BY ToSetOne
<1>3. PICK t \in Seq(S) : t = <<x>>
  BY <1>2
<1>4. s \o t \in Seq(S) /\ ToSet(s \o t) = ToSet(s) \cup ToSet(t)
  BY ToSetConcat
<1> QED BY <1>1, <1>2, <1>3, <1>4

\* Cutting a sequence in two loses nothing.
LEMMA ToSetCut ==
  ASSUME NEW S, NEW s \in Seq(S), NEW c \in 0..Len(s)
  PROVE  /\ SubSeq(s, 1, c) \in Seq(S) /\ SubSeq(s, c + 1, Len(s)) \in Seq(S)
         /\ Len(SubSeq(s, c + 1, Len(s))) = Len(s) - c
         /\ ToSet(s) = ToSet(SubSeq(s, 1, c)) \cup ToSet(SubSeq(s, c + 1, Len(s)))
<1>0. Len(s) \in Nat /\ \A i \in 1..Len(s) : s[i] \in S
  BY LenProperties
<1>1. /\ SubSeq(s, 1, c) \in Seq(S) /\ SubSeq(s, c + 1, Len(s)) \in Seq(S)
      /\ Len(SubSeq(s, c + 1, Len(s))) = Len(s) - c
  OBVIOUS
<1>2. PICK a \in Seq(S) : a = SubSeq(s, 1, c)
  BY <1>1
<1>5. PICK b \in Seq(S) : b = SubSeq(s, c + 1, Len(s))
  BY <1>1, Zenon
<1>3. s = a \o b
  <2>1. 1 \in 1..Len(s)+1 /\ c \in 1-1..Len(s) /\ Len(s) \in c..Len(s)
    BY <1>0
  <2>2. SubSeq(s, 1, c) \o SubSeq(s, c + 1, Len(s)) = SubSeq(s, 1, Len(s))
    BY ONLY <2>1, s \in Seq(S), ConcatAdjacentSubSeq
  <2>3. SubSeq(s, 1, Len(s)) = s
    BY SubSeqFull
  <2>4. a \o b = SubSeq(s, 1, Len(s))
    BY ONLY <1>2, <1>5, <2>2, Zenon
  <2> QED BY <2>3, <2>4, Zenon
<1>4. ToSet(a \o b) = ToSet(a) \cup ToSet(b)
  BY ToSetConcat
<1> QED BY <1>1, <1>2, <1>3, <1>4, <1>5

\* The head and the rest.
LEMMA ToSetTail ==
  ASSUME NEW S, NEW s \in Seq(S), s # <<>>
  PROVE  /\ Head(s) \in S /\ Tail(s) \in Seq(S) /\ Len(Tail(s)) = Len(s) - 1
         /\ ToSet(s) = {Head(s)} \cup ToSet(Tail(s))
<1>1. PICK t \in Seq(S) : t = Tail(s) /\ Len(t) = Len(s) - 1
  BY HeadTailProperties
<1>2. PICK h \in S : h = Head(s)
  BY HeadTailProperties
<1>3. PICK u \in Seq(S) : u = <<h>> /\ ToSet(u) = {h}
  BY ToSetOne
<1>4. s = u \o t
  BY <1>1, <1>2, <1>3
<1>5. ToSet(u \o t) = ToSet(u) \cup ToSet(t)
  BY ToSetConcat
<1> QED BY <1>1, <1>2, <1>3, <1>4, <1>5

\* What RemoveAt leaves, by position.
LEMMA RemovedAt ==
  ASSUME NEW S, NEW s \in Seq(S), NEW i \in 1..Len(s)
  PROVE  /\ RemoveAt(s, i) \in Seq(S) /\ Len(RemoveAt(s, i)) = Len(s) - 1
         /\ \A j \in 1..Len(s) - 1 : RemoveAt(s, i)[j] = IF j < i THEN s[j] ELSE s[j + 1]
<1> DEFINE r == RemoveAt(s, i)
<1>0. Len(s) \in Nat /\ \A k \in 1..Len(s) : s[k] \in S
  BY LenProperties
<1>1. PICK a \in Seq(S) : /\ a = SubSeq(s, 1, i - 1) /\ Len(a) = i - 1
                           /\ \A j \in 1..i-1 : a[j] = s[j]
  <2>1. /\ SubSeq(s, 1, i - 1) \in Seq(S) /\ Len(SubSeq(s, 1, i - 1)) = i - 1
        /\ \A j \in 1..i-1 : SubSeq(s, 1, i - 1)[j] = s[j]
    BY <1>0
  <2> QED BY <2>1
<1>2. PICK b \in Seq(S) : /\ b = SubSeq(s, i + 1, Len(s)) /\ Len(b) = Len(s) - i
                           /\ \A j \in 1..Len(s)-i : b[j] = s[i + j]
  <2>1. /\ SubSeq(s, i + 1, Len(s)) \in Seq(S) /\ Len(SubSeq(s, i + 1, Len(s))) = Len(s) - i
        /\ \A j \in 1..Len(s)-i : SubSeq(s, i + 1, Len(s))[j] = s[i + j]
    BY <1>0
  <2> QED BY <2>1
<1>3. r = a \o b
  BY <1>1, <1>2 DEF RemoveAt
<1> HIDE DEF r
<1>4. /\ a \o b \in Seq(S) /\ Len(a \o b) = Len(a) + Len(b)
      /\ \A j \in 1..Len(a)+Len(b) : (a \o b)[j] = IF j <= Len(a) THEN a[j] ELSE b[j - Len(a)]
  BY ConcatProperties
<1>5. Len(a) + Len(b) = Len(s) - 1
  <2>1. Len(a) = i - 1 /\ Len(b) = Len(s) - i
    BY <1>1, <1>2, Zenon
  <2> QED BY ONLY <1>0, <2>1, i \in 1..Len(s)
<1>6. ASSUME NEW j \in 1..Len(s)-1 PROVE r[j] = IF j < i THEN s[j] ELSE s[j + 1]
  <2>1. j \in 1..Len(a)+Len(b)
    BY <1>5
  <2>2. CASE j < i
    BY <1>1, <1>3, <1>4, <2>1, <2>2
  <2>3. CASE j >= i
    <3>1. PICK k \in 1..Len(s)-i : k = j - (i - 1)
      BY <1>0, <2>3
    <3>2. r[j] = b[k] /\ i + k = j + 1
      BY <1>1, <1>3, <1>4, <2>1, <2>3, <3>1
    <3> QED BY <1>2, <2>3, <3>2
  <2> QED BY <2>2, <2>3
<1>7. r \in Seq(S) /\ Len(r) = Len(s) - 1
  BY <1>3, <1>4, <1>5
<1> QED BY <1>6, <1>7 DEF r

\* Removing an element of a sequence without repetitions removes just that one, and what
\* followed it, if anything did, is another element.
LEMMA Removed ==
  ASSUME NEW S, NEW s \in Seq(S), NoRepeat(s), NEW i \in 1..Len(s)
  PROVE  /\ RemoveAt(s, i) \in Seq(S) /\ NoRepeat(RemoveAt(s, i))
         /\ ToSet(RemoveAt(s, i)) = ToSet(s) \ {s[i]}
<1> DEFINE r == RemoveAt(s, i)
<1>0. Len(s) \in Nat /\ \A k \in 1..Len(s) : s[k] \in S
  BY LenProperties
<1>1. /\ r \in Seq(S) /\ Len(r) = Len(s) - 1
      /\ \A j \in 1..Len(s) - 1 : r[j] = IF j < i THEN s[j] ELSE s[j + 1]
  BY RemovedAt
<1> HIDE DEF r
<1>2. NoRepeat(r)
  BY <1>1 DEF NoRepeat
<1>3. ASSUME NEW x PROVE x \in ToSet(r) <=> x \in ToSet(s) \ {s[i]}
  <2>1. ASSUME x \in ToSet(r) PROVE x \in ToSet(s) \ {s[i]}
    <3>1. PICK j \in 1..Len(r) : r[j] = x
      BY <1>1, <2>1, ToSetElements
    <3>2. PICK k \in 1..Len(s) : s[k] = x /\ k # i
      <4>1. CASE j < i
        BY <1>1, <3>1, <4>1
      <4>2. CASE j >= i
        <5>1. j + 1 \in 1..Len(s) /\ s[j + 1] = x /\ j + 1 # i
          BY <1>1, <3>1, <4>2
        <5> QED BY <5>1
      <4> QED BY <1>1, <3>1, <4>1, <4>2
    <3> QED BY <3>2, ToSetElements DEF NoRepeat
  <2>2. ASSUME x \in ToSet(s), x # s[i] PROVE x \in ToSet(r)
    <3>1. PICK k \in 1..Len(s) : s[k] = x /\ k # i
      BY <2>2, ToSetElements
    <3>2. PICK j \in 1..Len(r) : r[j] = x
      <4>1. CASE k < i
        <5>1. k \in 1..Len(r) /\ r[k] = x
          BY <1>1, <3>1, <4>1
        <5> QED BY <5>1
      <4>2. CASE k > i
        <5>1. k - 1 \in 1..Len(r) /\ r[k - 1] = x
          BY <1>1, <3>1, <4>2
        <5> QED BY <5>1
      <4> QED BY <3>1, <4>1, <4>2
    <3> QED BY <1>1, <3>2, ToSetElements
  <2> QED BY <2>1, <2>2
<1> QED BY <1>1, <1>2, <1>3 DEF r

-------------------------------------------------------------------------------
(* The inductive invariant.                                                      *)

\* A thread has something to write just while it is inside an annotation call, and a
\* structure of its own once it writes.
WriterInv ==
  \A w \in Writers :
    /\ at[w] \in {"idle", "flush", "wait", "gone"} => todo[w] = <<>>
    /\ at[w] \in {"get", "register", "resend", "write"} => todo[w] # <<>>
    /\ at[w] \in {"resend", "write"} => own[w] # Null

\* The list has every structure once, those of living threads among them.
ListInv == NoRepeat(threads) /\ OwnedStructsListed

\* Where the sender is in the list it walks is a structure of the list: only the sender
\* itself unlinks, and a structure pushed meanwhile is in front of it.
Walking == {"thread", "send", "next", "stop"}
CurInv ==
  /\ sender \in Walking => cur \in ToSet(threads)
  /\ sender = "send" => snapshot <= Len(buffered[cur])

\* A forked child has no sender until it annotates.
ForkInv == forked => sender = "none"

SInv == TypeOK /\ WriterInv /\ ListInv /\ CurInv /\ ForkInv

\* Null is no structure.
LEMMA OwnType ==
  ASSUME TypeOK, NEW w \in Writers
  PROVE  own[w] # Null <=> own[w] \in Structs
BY SessionAssumption DEF TypeOK

\* Position finds what is in the list.
LEMMA PositionOf ==
  ASSUME TypeOK, NEW s \in ToSet(threads)
  PROVE  /\ Position(s) \in 1..Len(threads) /\ threads[Position(s)] = s
         /\ s \in Structs /\ Len(threads) \in Nat
<1>1. DOMAIN threads = 1..Len(threads) /\ threads \in Seq(Structs) /\ Len(threads) \in Nat
  BY LenProperties DEF TypeOK
<1>2. (\E i \in 1..Len(threads) : threads[i] = s) /\ s \in Structs
  BY <1>1, ToSetElements
<1> QED BY <1>1, <1>2 DEF Position

\* What follows a structure of the list is another structure of the list.
LEMMA FollowingOf ==
  ASSUME TypeOK, NoRepeat(threads), NEW s \in ToSet(threads)
  PROVE  Following(s) = Null \/ Following(s) \in ToSet(threads) \ {s}
<1>1. /\ Position(s) \in 1..Len(threads) /\ threads[Position(s)] = s
      /\ s \in Structs /\ Len(threads) \in Nat
  BY PositionOf
<1>2. CASE Position(s) # Len(threads)
  <2>1. Following(s) = threads[Position(s) + 1] /\ Position(s) + 1 \in 1..Len(threads)
    BY <1>1, <1>2 DEF Following
  <2>2. Following(s) # s
    BY <1>1, <2>1 DEF NoRepeat
  <2>3. Following(s) \in ToSet(threads)
    BY <2>1, ToSetElements DEF TypeOK
  <2> QED BY <2>2, <2>3
<1> QED BY <1>2 DEF Following

\* Unlinking takes at most the visited structure out of the list, and only if its thread
\* has ended.
LEMMA Unlinked ==
  ASSUME TypeOK, NoRepeat(threads), NEW s \in ToSet(threads)
  PROVE  \/ Unlink(s) = threads
         \/ /\ s \in exited /\ Unlink(s) \in Seq(Structs) /\ NoRepeat(Unlink(s))
            /\ ToSet(Unlink(s)) = ToSet(threads) \ {s}
<1>1. PICK i \in 1..Len(threads) : i = Position(s) /\ threads[i] = s
  BY PositionOf
<1>2. /\ RemoveAt(threads, i) \in Seq(Structs) /\ NoRepeat(RemoveAt(threads, i))
      /\ ToSet(RemoveAt(threads, i)) = ToSet(threads) \ {s}
  BY <1>1, Removed DEF TypeOK
<1>3. Unlink(s) = threads \/ (s \in exited /\ Unlink(s) = RemoveAt(threads, i))
  BY <1>1 DEF Unlink
<1> QED BY <1>2, <1>3

\* Pushing a new structure on the list.
LEMMA Pushed ==
  ASSUME TypeOK, NoRepeat(threads), NEW s \in Free
  PROVE  /\ <<s>> \o threads \in Seq(Structs) /\ NoRepeat(<<s>> \o threads)
         /\ ToSet(<<s>> \o threads) = ToSet(threads) \cup {s} /\ s \in Structs
<1>1. s \in Structs /\ s \notin ToSet(threads) /\ threads \in Seq(Structs) /\ Len(threads) \in Nat
  BY DEF Free, TypeOK
<1>2. <<s>> \in Seq(Structs) /\ ToSet(<<s>>) = {s} /\ Len(<<s>>) = 1
  BY <1>1, ToSetOne
<1>3. PICK o \in Seq(Structs) : o = <<s>>
  BY <1>2
<1>4. o \o threads \in Seq(Structs) /\ ToSet(o \o threads) = ToSet(o) \cup ToSet(threads)
  BY <1>1, ToSetConcat
<1>5. /\ Len(o \o threads) = 1 + Len(threads) /\ (o \o threads)[1] = s
      /\ \A i \in 1..Len(threads) : (o \o threads)[i + 1] = threads[i]
  BY <1>1, <1>3
<1>6. \A i \in 1..Len(threads) : threads[i] # s
  BY <1>1, ToSetElements
<1>7. NoRepeat(o \o threads)
  <2> DEFINE u == o \o threads
  <2> HIDE DEF u
  <2> SUFFICES ASSUME NEW i \in 1..Len(u), NEW j \in 1..Len(u), u[i] = u[j] PROVE i = j
    BY DEF NoRepeat, u
  <2>1. Len(u) = 1 + Len(threads) /\ u[1] = s
    BY <1>5 DEF u
  <2>2. \A k \in 2..Len(u) : k - 1 \in 1..Len(threads) /\ u[k] = threads[k - 1] /\ u[k] # s
    <3> TAKE k \in 2..Len(u)
    <3>1. k - 1 \in 1..Len(threads) /\ (k - 1) + 1 = k
      BY <1>1, <2>1
    <3> QED BY <1>5, <1>6, <3>1 DEF u
  <2>3. \A k, l \in 1..Len(threads) : threads[k] = threads[l] => k = l
    BY DEF NoRepeat
  <2> QED BY <1>1, <2>1, <2>2, <2>3
<1> QED BY <1>1, <1>2, <1>3, <1>4, <1>7

\* What a writer writes is a token.
LEMMA TodoType ==
  ASSUME TypeOK, NEW w \in Writers, todo[w] # <<>>
  PROVE  /\ Head(todo[w]) \in Token /\ Tail(todo[w]) \in Seq(Token)
         /\ Len(todo[w]) \in Nat \ {0} /\ (Len(todo[w]) = 1 <=> Tail(todo[w]) = <<>>)
         /\ ToSet(todo[w]) = {Head(todo[w])} \cup ToSet(Tail(todo[w]))
<1> PICK t \in Seq(Token) : t = todo[w] /\ t # <<>>
  BY DEF TypeOK
<1>1. /\ Head(t) \in Token /\ Tail(t) \in Seq(Token) /\ Len(Tail(t)) = Len(t) - 1
      /\ ToSet(t) = {Head(t)} \cup ToSet(Tail(t))
  BY ToSetTail
<1>2. Len(t) \in Nat \ {0}
  BY EmptySeq
<1>3. Len(t) = 1 <=> Tail(t) = <<>>
  <2>1. PICK u \in Seq(Token) : u = Tail(t) /\ Len(u) = Len(t) - 1
    BY <1>1
  <2>2. Len(<<>>) = 0 /\ (u # <<>> => Len(u) \in Nat \ {0})
    BY EmptySeq
  <2>3. Len(u) = Len(t) - 1
    BY <2>1
  <2>4. Len(t) = 1 <=> u = <<>>
    BY ONLY <1>2, <2>2, <2>3
  <2> QED BY <2>1, <2>4, Zenon
<1> QED BY <1>1, <1>2, <1>3

\* A definition or an annotation is written after what is to be sent again.
LEMMA ResendType ==
  ASSUME TypeOK, NEW w \in Writers, todo[w] # <<>>
  PROVE  /\ ResendFirst(w) \in Seq(Token) /\ ResendFirst(w) # <<>>
         /\ ToSet(ResendFirst(w)) = (IF resend_state THEN ToSet(defs) ELSE {}) \cup ToSet(todo[w])
<1>1. defs \in Seq(Token) /\ todo[w] \in Seq(Token)
  BY SeqMonotonic DEF TypeOK, Token
<1>2. PICK d \in Seq(Token) : d = defs
  BY <1>1
<1>3. PICK t \in Seq(Token) : t = todo[w] /\ t # <<>>
  BY <1>1
<1>4. d \o t \in Seq(Token) /\ ToSet(d \o t) = ToSet(d) \cup ToSet(t)
  BY ToSetConcat
<1>5. d \o t # <<>>
  BY <1>3, ConcatProperties, EmptySeq
<1> QED BY <1>1, <1>2, <1>3, <1>4, <1>5 DEF ResendFirst

\* The sender stops on the structure it walks to.
LEMMA GoesTo ==
  ASSUME NEW s, GoTo(s)
  PROVE  cur' = s /\ sender' \in {"post", "thread"} /\ (sender' = "thread" => s # Null)
BY DEF GoTo

\* The invariant holds in every state.
LEMMA SessionInvariant == Spec => []SInv
<1>1. Init => SInv
  <2> SUFFICES ASSUME Init PROVE SInv
    OBVIOUS
  <2>1. TypeOK
    <3>1. /\ threads \in Seq(Structs) /\ defs \in Seq(Defs)
          /\ buffered \in [Structs -> Seq(Token)] /\ todo \in [Writers -> Seq(Token)]
      BY EmptySeq DEF Init
    <3>2. at \in [Writers -> {"idle"}] /\ own \in [Writers -> {Null}] /\ sender \in {"loop", "none"}
      BY DEF Init
    <3>3. calls \in 0..MaxCalls
      BY SessionAssumption DEF Init
    <3> QED BY <3>1, <3>2, <3>3 DEF Init, TypeOK
  <2>2. WriterInv /\ CurInv /\ ForkInv
    BY DEF Init, WriterInv, CurInv, ForkInv, Walking
  <2>3. ListInv
    BY DEF Init, ListInv, NoRepeat, OwnedStructsListed
  <2> QED BY <2>1, <2>2, <2>3 DEF SInv
<1>2. SInv /\ [Next]_vars => SInv'
  <2> SUFFICES ASSUME SInv, [Next]_vars PROVE SInv'
    OBVIOUS
  <2> USE SessionAssumption DEF SInv
  <2>1. ASSUME NEW w \in Writers, Annotate(w) PROVE SInv'
    <3>1. /\ UNCHANGED <<listVars, defs, flagVars, semVars, own, sender, connected, localVars,
                         captureVars>>
          /\ calls' \in 0..MaxCalls
          /\ at[w] = "idle" /\ at' = [at EXCEPT ![w] = "get"]
          /\ todo' = [todo EXCEPT ![w] = <<"text">>]
      BY <2>1 DEF Annotate, Call, TypeOK
    <3>2. <<"text">> \in Seq(Token) /\ <<"text">> # <<>>
      BY DEF Token
    <3>3. TypeOK'
      BY <3>1, <3>2 DEF TypeOK
    <3>4. WriterInv'
      BY <3>1, <3>2 DEF WriterInv, TypeOK
    <3> QED BY <3>1, <3>3, <3>4 DEF ListInv, OwnedStructsListed, CurInv, ForkInv
  <2>2. ASSUME NEW w \in Writers, NEW d \in Defs, Define(w, d) PROVE SInv'
    <3>1. /\ UNCHANGED <<listVars, flagVars, semVars, own, sender, connected, localVars,
                         captureVars>>
          /\ calls' \in 0..MaxCalls /\ defs' = <<d>> \o defs
          /\ at[w] = "idle" /\ at' = [at EXCEPT ![w] = "get"]
          /\ todo' = [todo EXCEPT ![w] = <<d>>]
      BY <2>2 DEF Define, Call, TypeOK
    <3>2. <<d>> \in Seq(Token) /\ <<d>> # <<>> /\ defs' \in Seq(Defs)
      BY <3>1 DEF Token, TypeOK
    <3>3. TypeOK'
      BY <3>1, <3>2 DEF TypeOK
    <3>4. WriterInv'
      BY <3>1, <3>2 DEF WriterInv, TypeOK
    <3> QED BY <3>1, <3>3, <3>4 DEF ListInv, OwnedStructsListed, CurInv, ForkInv
  <2>3. ASSUME NEW w \in Writers, FlushBegin(w) PROVE SInv'
    <3>1. /\ UNCHANGED <<listVars, defs, flagVars, semVars, own, todo, sender, connected,
                         localVars, captureVars>>
          /\ calls' \in 0..MaxCalls
          /\ at[w] = "idle" /\ at' = [at EXCEPT ![w] = "flush"]
      BY <2>3 DEF FlushBegin, Call, TypeOK
    <3>2. TypeOK' /\ WriterInv'
      BY <3>1 DEF TypeOK, WriterInv
    <3> QED BY <3>1, <3>2 DEF ListInv, OwnedStructsListed, CurInv, ForkInv
  <2>4. ASSUME NEW w \in Writers, ThreadExit(w) PROVE SInv'
    <3>1. /\ UNCHANGED <<threads, buffered, defs, flagVars, semVars, todo, sender, connected,
                         localVars, captureVars>>
          /\ calls' \in 0..MaxCalls /\ own[w] # Null /\ at' = at
          /\ at[w] = "idle" /\ exited' = exited \cup {own[w]}
          /\ own' = [own EXCEPT ![w] = Null]
      BY <2>4 DEF ThreadExit, Call, TypeOK
    <3>2. TypeOK' /\ WriterInv'
      BY <3>1 DEF TypeOK, WriterInv
    <3>3. OwnedStructsListed'
      BY <3>1 DEF TypeOK, ListInv, OwnedStructsListed
    <3> QED BY <3>1, <3>2, <3>3 DEF ListInv, CurInv, ForkInv
  <2>5. ASSUME NEW w \in Writers, Fork(w) PROVE SInv'
    <3>1. TypeOK'
      <4>1. exited' \in SUBSET Structs /\ lost' \in SUBSET Defs
        BY <2>5, ToSetElements DEF Fork, TypeOK
      <4>2. buffered' \in [Structs -> Seq(Token)] /\ todo' \in [Writers -> Seq(Token)]
        BY <2>5, EmptySeq DEF Fork
      <4>3. calls' \in 0..MaxCalls
        BY <2>5 DEF Fork, TypeOK
      <4> QED BY <2>5, <4>1, <4>2, <4>3 DEF Fork, TypeOK
    <3>2. WriterInv' /\ CurInv' /\ ForkInv'
      BY <2>5 DEF Fork, WriterInv, CurInv, ForkInv, Walking
    <3>3. ListInv'
      BY <2>5 DEF Fork, ListInv, OwnedStructsListed
    <3> QED BY <3>1, <3>2, <3>3
  <2>6. ASSUME NEW w \in Writers, GetThread(w) PROVE SInv'
    <3>1. /\ at[w] = "get" /\ forked' = FALSE
          /\ UNCHANGED <<listVars, defs, capturing, resend_state, semVars, own, calls, localVars,
                         known>>
          /\ UNCHANGED <<sender, connected>> \/ (sender' = "loop" /\ connected' = FALSE)
          /\ \/ at' = [at EXCEPT ![w] = "register"] /\ UNCHANGED <<todo, lost>>
             \/ GiveUp(w)
      BY <2>6 DEF GetThread
    <3>2. TypeOK' /\ WriterInv'
      <4>1. CASE at' = [at EXCEPT ![w] = "register"] /\ UNCHANGED <<todo, lost>>
        BY <3>1, <4>1 DEF TypeOK, WriterInv
      <4>2. CASE GiveUp(w)
        <5>1. lost' \in SUBSET Defs /\ todo' \in [Writers -> Seq(Token)]
          BY <4>2, EmptySeq DEF GiveUp, Definitions, TypeOK
        <5>2. at' = [at EXCEPT ![w] = "idle"] /\ todo' = [todo EXCEPT ![w] = <<>>]
          BY <4>2 DEF GiveUp
        <5>3. TypeOK'
          BY <3>1, <5>1, <5>2 DEF TypeOK
        <5>4. WriterInv'
          BY <3>1, <5>2 DEF TypeOK, WriterInv
        <5> QED BY <5>3, <5>4
      <4> QED BY <3>1, <4>1, <4>2
    <3> QED BY <3>1, <3>2 DEF ListInv, OwnedStructsListed, CurInv, ForkInv, Walking
  <2>7. ASSUME NEW w \in Writers, Register(w) PROVE SInv'
    <3>1. /\ at[w] = "register"
          /\ UNCHANGED <<defs, flagVars, semVars, calls, sender, connected, localVars, known>>
      BY <2>7 DEF Register
    <3>2. CASE /\ own[w] # Null /\ at' = [at EXCEPT ![w] = "resend"]
               /\ UNCHANGED <<threads, exited, buffered, own, todo, lost>>
      <4>1. TypeOK' /\ WriterInv'
        BY <3>1, <3>2 DEF TypeOK, WriterInv
      <4> QED BY <3>1, <3>2, <4>1 DEF ListInv, OwnedStructsListed, CurInv, ForkInv
    <3>3. ASSUME NEW s \in Free, own[w] = Null, threads' = <<s>> \o threads,
                 exited' = exited \ {s}, buffered' = [buffered EXCEPT ![s] = <<>>],
                 own' = [own EXCEPT ![w] = s], at' = [at EXCEPT ![w] = "resend"],
                 UNCHANGED <<todo, lost>>
          PROVE  SInv'
      <4>1. /\ threads' \in Seq(Structs) /\ NoRepeat(threads') /\ s \in Structs
            /\ ToSet(threads') = ToSet(threads) \cup {s} /\ s \notin ToSet(threads)
        BY <3>3, Pushed DEF ListInv, Free
      <4>2. TypeOK'
        BY <3>1, <3>3, <4>1, EmptySeq DEF TypeOK
      <4>3. WriterInv'
        BY <3>1, <3>3, <4>1 DEF WriterInv, TypeOK
      <4>4. OwnedStructsListed'
        <5>1. \A v \in Writers : own[v] # Null => own[v] \in ToSet(threads) \ exited /\ own[v] # s
          BY <4>1 DEF ListInv, OwnedStructsListed
        <5>2. own'[w] = s /\ \A v \in Writers : v # w => own'[v] = own[v]
          BY <3>3 DEF TypeOK
        <5>3. \A v \in Writers : own'[v] # Null => own'[v] \in ToSet(threads') \ exited'
          BY <3>3, <4>1, <5>1, <5>2
        <5>4. \A u, v \in Writers : own'[u] = own'[v] /\ own'[u] # Null => u = v
          BY <5>1, <5>2 DEF ListInv, OwnedStructsListed
        <5> QED BY <5>3, <5>4 DEF OwnedStructsListed
      <4>5. CurInv'
        <5>1. sender \in Walking => buffered'[cur] = buffered[cur]
          BY <3>3, <4>1 DEF CurInv, TypeOK
        <5> QED BY <3>1, <4>1, <5>1 DEF CurInv, Walking
      <4> QED BY <3>1, <4>1, <4>2, <4>3, <4>4, <4>5 DEF ListInv, ForkInv
    <3>4. CASE GiveUp(w) /\ UNCHANGED <<threads, exited, buffered, own>>
      <4>1. lost' \in SUBSET Defs /\ todo' \in [Writers -> Seq(Token)]
        BY <3>4, EmptySeq DEF GiveUp, Definitions, TypeOK
      <4>2. TypeOK' /\ WriterInv'
        BY <3>1, <3>4, <4>1 DEF GiveUp, TypeOK, WriterInv
      <4> QED BY <3>1, <3>4, <4>2 DEF ListInv, OwnedStructsListed, CurInv, ForkInv
    <3> QED BY <2>7, <3>2, <3>3, <3>4 DEF Register
  <2>8. ASSUME NEW w \in Writers, Resend(w) PROVE SInv'
    <3>1. /\ at[w] = "resend" /\ resend_state' = FALSE /\ at' = [at EXCEPT ![w] = "write"]
          /\ todo' = [todo EXCEPT ![w] = ResendFirst(w)] /\ todo[w] # <<>>
          /\ UNCHANGED <<listVars, defs, capturing, forked, semVars, own, calls, sender, connected,
                         localVars, captureVars>>
      BY <2>8 DEF Resend, WriterInv
    <3>2. ResendFirst(w) \in Seq(Token) /\ ResendFirst(w) # <<>>
      BY <3>1, ResendType
    <3>3. TypeOK' /\ WriterInv'
      BY <3>1, <3>2 DEF TypeOK, WriterInv
    <3> QED BY <3>1, <3>3 DEF ListInv, OwnedStructsListed, CurInv, ForkInv
  <2>9. ASSUME NEW w \in Writers, WriteOne(w) PROVE SInv'
    <3>1. PICK s \in Structs : s = own[w]
      BY <2>9, OwnType DEF WriteOne, WriterInv
    <3>2. PICK x \in Token : x = Head(todo[w])
      BY <2>9, TodoType DEF WriteOne, WriterInv
    <3>3. /\ Tail(todo[w]) \in Seq(Token) /\ (Len(todo[w]) = 1 <=> Tail(todo[w]) = <<>>)
      BY <2>9, TodoType DEF WriteOne, WriterInv
    <3>4. /\ at[w] = "write" /\ buffered' = [buffered EXCEPT ![s] = Append(@, x)]
          /\ todo' = [todo EXCEPT ![w] = Tail(@)]
          /\ at' = IF Tail(todo[w]) = <<>> THEN [at EXCEPT ![w] = "idle"] ELSE at
          /\ UNCHANGED <<threads, exited, defs, flagVars, semVars, own, calls, sender, connected,
                         localVars, captureVars>>
      BY <2>9, <3>1, <3>2, <3>3 DEF WriteOne
    <3>5. /\ Append(buffered[s], x) \in Seq(Token)
          /\ Len(Append(buffered[s], x)) = Len(buffered[s]) + 1 /\ Len(buffered[s]) \in Nat
      BY LenProperties, AppendProperties DEF TypeOK
    <3>6. TypeOK'
      BY <3>3, <3>4, <3>5 DEF TypeOK
    <3>7. WriterInv'
      BY <3>1, <3>3, <3>4 DEF WriterInv, TypeOK
    <3>8. CurInv'
      <4>1. sender = "send" => snapshot <= Len(buffered'[cur])
        BY <3>4, <3>5 DEF CurInv, TypeOK
      <4> QED BY <3>4, <4>1 DEF CurInv
    <3> QED BY <3>4, <3>6, <3>7, <3>8 DEF ListInv, OwnedStructsListed, ForkInv
  <2>10. ASSUME NEW w \in Writers, FlushPost(w) PROVE SInv'
    <3>1. TypeOK' /\ WriterInv'
      BY <2>10 DEF FlushPost, TypeOK, WriterInv
    <3> QED BY <2>10, <3>1 DEF FlushPost, ListInv, OwnedStructsListed, CurInv, ForkInv
  <2>11. ASSUME NEW w \in Writers, FlushWait(w) PROVE SInv'
    <3>1. TypeOK' /\ WriterInv'
      BY <2>11 DEF FlushWait, TypeOK, WriterInv
    <3> QED BY <2>11, <3>1 DEF FlushWait, ListInv, OwnedStructsListed, CurInv, ForkInv
  <2>12. CASE Loop
    <3>1. /\ sender = "loop" /\ sender' \in {"loop", "started", "sync", "read"}
          /\ connected' \in BOOLEAN /\ capturing' \in BOOLEAN
          /\ UNCHANGED <<threads, exited, defs, resend_state, forked, semVars, writerVars,
                         localVars>>
      BY <2>12 DEF Loop, StartCapturing, StopCapturing, TypeOK
    <3>2. /\ buffered' \in [Structs -> Seq(Token)] /\ known' \in SUBSET Defs
          /\ lost' \in SUBSET Defs
      <4>1. UNCHANGED buffered \/ buffered' = [s \in Structs |->
                IF capturing /\ s \in ToSet(threads) THEN <<>> ELSE buffered[s]]
        BY <2>12 DEF Loop, StopCapturing
      <4>2. buffered' \in [Structs -> Seq(Token)]
        <5>1. CASE UNCHANGED buffered
          BY <5>1 DEF TypeOK
        <5>2. CASE buffered' = [s \in Structs |->
                     IF capturing /\ s \in ToSet(threads) THEN <<>> ELSE buffered[s]]
          BY <5>2, EmptySeq DEF TypeOK
        <5> QED BY <4>1, <5>1, <5>2
      <4>3. known' \in {known, {}} /\ lost' \in {lost, {}}
        BY <2>12 DEF Loop, StartCapturing, StopCapturing
      <4> QED BY <4>2, <4>3 DEF TypeOK
    <3>3. TypeOK'
      BY <3>1, <3>2 DEF TypeOK
    <3> QED BY <3>1, <3>3 DEF WriterInv, ListInv, OwnedStructsListed, CurInv, ForkInv, Walking
  <2>13. CASE Started
    <3>1. TypeOK'
      BY <2>13 DEF Started, TypeOK
    <3> QED BY <2>13, <3>1 DEF Started, WriterInv, ListInv, OwnedStructsListed, CurInv, ForkInv,
                               Walking
  <2>14. CASE SyncCount
    <3>1. /\ sender = "sync" /\ sync_count' = sync_sem /\ sync_sem' = 0 /\ atHead' = TRUE
          /\ UNCHANGED <<listVars, defs, flagVars, sync_waiter_sem, writerVars, connected,
                         snapshot, captureVars>>
          /\ sender' \in {"post", "thread"}
          /\ cur' = IF threads = <<>> THEN Null ELSE Head(threads)
          /\ sender' = "thread" => cur' # Null
      BY <2>14, GoesTo DEF SyncCount
    <3>2. threads # <<>> => Head(threads) \in ToSet(threads) /\ Head(threads) \in Structs
      BY ToSetTail DEF TypeOK
    <3>3. TypeOK'
      BY <3>1, <3>2 DEF TypeOK
    <3> QED BY <3>1, <3>2, <3>3 DEF WriterInv, ListInv, OwnedStructsListed, CurInv, ForkInv, Walking
  <2>15. CASE Visit
    <3>1. /\ sender = "thread" /\ sender' \in {"send", "stop", "next"}
          /\ (sender' = "send" /\ snapshot' = Len(buffered[cur])) \/ snapshot' = snapshot
          /\ sender' = "send" => snapshot' = Len(buffered[cur])
          /\ UNCHANGED <<listVars, defs, flagVars, semVars, writerVars, connected, sync_count, cur,
                         atHead, captureVars>>
      BY <2>15 DEF Visit
    <3>2. cur \in Structs /\ Len(buffered[cur]) \in Nat
      BY <3>1, ToSetElements, LenProperties DEF CurInv, Walking, TypeOK
    <3>3. TypeOK'
      BY <3>1, <3>2 DEF TypeOK
    <3> QED BY <3>1, <3>2, <3>3 DEF WriterInv, ListInv, OwnedStructsListed, CurInv, ForkInv, Walking
  <2>16. CASE Send
    <3>1. /\ sender = "send" /\ sender' \in {"next", "stop"}
          /\ UNCHANGED <<threads, exited, defs, flagVars, semVars, writerVars, connected, localVars,
                         lost>>
      BY <2>16 DEF Send, SeamStop, SendCount
    <3>2. /\ cur \in Structs /\ Len(buffered[cur]) \in Nat /\ snapshot <= Len(buffered[cur])
          /\ snapshot \in Nat /\ cur \in ToSet(threads)
      BY <3>1, ToSetElements, LenProperties DEF CurInv, Walking, TypeOK
    <3>3. buffered' \in [Structs -> Seq(Token)] /\ known' \in SUBSET Defs
      <4>1. CASE UNCHANGED <<buffered, known>>
        BY <4>1 DEF TypeOK
      <4>2. ASSUME NEW count \in 0..snapshot, SendCount(count)
            PROVE  buffered' \in [Structs -> Seq(Token)] /\ known' \in SUBSET Defs
        <5>1. count \in 0..Len(buffered[cur]) /\ buffered[cur] \in Seq(Token)
          BY <3>2 DEF TypeOK
        <5>2. SubSeq(buffered[cur], count + 1, Len(buffered[cur])) \in Seq(Token)
          BY <5>1, ToSetCut
        <5>3. buffered' = [buffered EXCEPT ![cur] =
                             SubSeq(buffered[cur], count + 1, Len(buffered[cur]))]
          BY <4>2 DEF SendCount
        <5>4. known' \in SUBSET Defs
          BY <4>2 DEF SendCount, Definitions, TypeOK
        <5> QED BY <5>2, <5>3, <5>4 DEF TypeOK
      <4>3. snapshot \in 0..snapshot
        BY <3>2
      <4> QED BY <2>16, <4>1, <4>2, <4>3 DEF Send, SeamStop
    <3>4. TypeOK'
      BY <3>1, <3>3 DEF TypeOK
    <3> QED BY <3>1, <3>2, <3>4 DEF WriterInv, ListInv, OwnedStructsListed, CurInv, ForkInv, Walking
  <2>17. CASE Stop
    <3>1. TypeOK'
      BY <2>17, EmptySeq DEF Stop, StopCapturing, TypeOK
    <3> QED BY <2>17, <3>1 DEF Stop, StopCapturing, WriterInv, ListInv, OwnedStructsListed, CurInv,
                               ForkInv, Walking
  <2>18. CASE NextThread
    <3>1. /\ sender = "next" /\ GoTo(Following(cur)) /\ threads' = Unlink(cur)
          /\ lost' = IF threads' = threads THEN lost ELSE lost \cup Definitions(buffered[cur])
          /\ atHead' = (atHead /\ threads' # threads)
          /\ UNCHANGED <<exited, buffered, defs, flagVars, semVars, writerVars, connected,
                         sync_count, snapshot, known>>
      BY <2>18 DEF NextThread
    <3>2. cur \in ToSet(threads) /\ NoRepeat(threads)
      BY <3>1 DEF CurInv, Walking, ListInv
    <3>3. \/ threads' = threads
          \/ /\ cur \in exited /\ threads' \in Seq(Structs) /\ NoRepeat(threads')
             /\ ToSet(threads') = ToSet(threads) \ {cur}
      BY <3>1, <3>2, Unlinked
    <3>4. /\ cur' = Null \/ cur' \in ToSet(threads) \ {cur}
          /\ sender' \in {"post", "thread"} /\ (sender' = "thread" => cur' # Null)
      BY <3>1, <3>2, GoesTo, FollowingOf
    <3>5. ToSet(threads) \subseteq Structs
      BY ToSetElements DEF TypeOK
    <3>6. TypeOK'
      <4>1. lost' \in SUBSET Defs /\ atHead' \in BOOLEAN
        BY <3>1 DEF TypeOK, Definitions
      <4>2. threads' \in Seq(Structs) /\ cur' \in Structs \cup {Null}
        BY <3>3, <3>4, <3>5 DEF TypeOK
      <4> QED BY <3>1, <3>4, <4>1, <4>2 DEF TypeOK
    <3>7. ListInv'
      BY <3>1, <3>2, <3>3 DEF ListInv, OwnedStructsListed
    <3>8. CurInv'
      BY <3>3, <3>4 DEF CurInv, Walking
    <3> QED BY <3>1, <3>4, <3>6, <3>7, <3>8 DEF WriterInv, ForkInv
  <2>19. CASE SyncPost
    <3>1. TypeOK'
      BY <2>19 DEF SyncPost, PostCount, TypeOK
    <3> QED BY <2>19, <3>1 DEF SyncPost, WriterInv, ListInv, OwnedStructsListed, CurInv, ForkInv,
                               Walking
  <2>20. CASE ReadParent
    <3>1. TypeOK'
      BY <2>20 DEF ReadParent, StartCapturing, TypeOK
    <3> QED BY <2>20, <3>1 DEF ReadParent, StartCapturing, WriterInv, ListInv, OwnedStructsListed,
                               CurInv, ForkInv, Walking
  <2>21. CASE UNCHANGED vars
    <3>1. TypeOK'
      BY <2>21 DEF vars, TypeOK
    <3> QED BY <2>21, <3>1 DEF vars, WriterInv, ListInv, OwnedStructsListed, CurInv, ForkInv
  <2> QED BY <2>1, <2>2, <2>3, <2>4, <2>5, <2>6, <2>7, <2>8, <2>9, <2>10, <2>11, <2>12, <2>13,
             <2>14, <2>15, <2>16, <2>17, <2>18, <2>19, <2>20, <2>21 DEF Next, Writer, Sender
<1> QED BY <1>1, <1>2, PTL DEF Spec

\* The sender frees a structure only when its thread has ended, and never drops one in use
\* from the list, however many threads push, exit and fork while it walks
\* (streamline_annotate.cpp: gator_func, gator_get_thread, gator_destructor).
THEOREM OwnedStructsListedHolds == Spec => []OwnedStructsListed
<1>1. SInv => OwnedStructsListed
  BY DEF SInv, ListInv
<1> QED BY <1>1, SessionInvariant, PTL

-------------------------------------------------------------------------------
(* Definitions.                                                                  *)

\* A definition is known, on its way, or will be sent again.
InBuffer(d) == \E s \in ToSet(threads) : d \in ToSet(buffered[s])
InCall(d) == \E w \in Writers : d \in ToSet(todo[w])
Again == resend_state \/ sender \in {"started", "restarted"}
Reaches(d) == d \in known \/ InBuffer(d) \/ InCall(d) \/ Again

\* A call that ends without writing counts its definitions as lost.
LEMMA GivenUp ==
  ASSUME TypeOK, NEW w \in Writers, GiveUp(w), NEW d \in Defs, d \notin lost', InCall(d)
  PROVE  InCall(d)'
<1>1. PICK v \in Writers : d \in ToSet(todo[v])
  BY DEF InCall
<1>2. v # w
  BY <1>1 DEF GiveUp, Definitions
<1>3. todo'[v] = todo[v]
  BY <1>2 DEF GiveUp, TypeOK
<1> QED BY <1>1, <1>3 DEF InCall

\* The invariant is preserved: the definitions in the list of saved ones reach the capture.
LEMMA ReachStep == SInv /\ DefinitionsReachCapture /\ [Next]_vars => DefinitionsReachCapture'
<1> SUFFICES ASSUME SInv, DefinitionsReachCapture, [Next]_vars PROVE DefinitionsReachCapture'
  OBVIOUS
<1> USE SessionAssumption DEF SInv
<1>20. ASSUME NEW d \in ToSet(defs) PROVE d \in Defs
  BY ToSetElements DEF TypeOK
<1>21. ASSUME capturing' => capturing, defs' = defs, lost \subseteq lost',
             \A d \in Defs : d \notin lost' /\ Reaches(d) => Reaches(d)'
      PROVE  DefinitionsReachCapture'
  BY <1>20, <1>21 DEF DefinitionsReachCapture, Reaches, InBuffer, InCall, Again
<1>22. ToSet(<<>>) = {}
  BY DEF ToSet
<1>1. ASSUME NEW w \in Writers, Annotate(w) PROVE DefinitionsReachCapture'
  <2>1. /\ UNCHANGED <<listVars, defs, flagVars, sender, captureVars>> /\ todo[w] = <<>>
        /\ \A v \in Writers : v # w => todo'[v] = todo[v]
    BY <1>1 DEF Annotate, Call, TypeOK, WriterInv
  <2>2. ASSUME NEW d \in Defs, InCall(d) PROVE InCall(d)'
    BY <1>22, <2>1, <2>2 DEF InCall
  <2>3. ASSUME NEW d \in Defs, Reaches(d) PROVE Reaches(d)'
    BY <2>1, <2>2, <2>3 DEF Reaches, InBuffer, Again
  <2> QED BY <1>21, <2>1, <2>3
<1>2. ASSUME NEW w \in Writers, NEW e \in Defs, Define(w, e) PROVE DefinitionsReachCapture'
  <2>1. /\ UNCHANGED <<listVars, flagVars, sender, captureVars>> /\ todo[w] = <<>>
        /\ todo'[w] = <<e>> /\ \A v \in Writers : v # w => todo'[v] = todo[v]
        /\ defs' = <<e>> \o defs
    BY <1>2 DEF Define, Call, TypeOK, WriterInv
  <2>2. ASSUME NEW d \in Defs, InCall(d) PROVE InCall(d)'
    BY <1>22, <2>1, <2>2 DEF InCall
  <2>3. ASSUME NEW d \in Defs, Reaches(d) PROVE Reaches(d)'
    BY <2>1, <2>2, <2>3 DEF Reaches, InBuffer, Again
  <2>4. ToSet(defs') = {e} \cup ToSet(defs) /\ ToSet(todo'[w]) = {e}
    <3>1. PICK o \in Seq(Defs) : o = <<e>> /\ ToSet(o) = {e}
      BY ToSetOne
    <3>2. ToSet(o \o defs) = ToSet(o) \cup ToSet(defs)
      BY ToSetConcat DEF TypeOK
    <3> QED BY <2>1, <3>1, <3>2
  <2>5. InCall(e)'
    BY <2>4 DEF InCall
  <2>6. \A d \in ToSet(defs) \ lost : capturing => Reaches(d)
    BY DEF DefinitionsReachCapture, Reaches, InBuffer, InCall, Again
  <2>7. \A d \in ToSet(defs') \ lost' : capturing' => Reaches(d)'
    BY <1>20, <2>1, <2>3, <2>4, <2>5, <2>6 DEF Reaches
  <2> QED BY <2>7 DEF DefinitionsReachCapture, Reaches, InBuffer, InCall, Again
<1>3. ASSUME NEW w \in Writers, FlushBegin(w) \/ FlushPost(w) \/ FlushWait(w) \/ ThreadExit(w)
      PROVE  DefinitionsReachCapture'
  <2>1. UNCHANGED <<threads, buffered, todo, defs, flagVars, sender, captureVars>>
    BY <1>3 DEF FlushBegin, FlushPost, FlushWait, ThreadExit
  <2> QED BY <1>21, <2>1 DEF Reaches, InBuffer, InCall, Again
<1>4. ASSUME NEW w \in Writers, Fork(w) PROVE DefinitionsReachCapture'
  BY <1>4 DEF Fork, DefinitionsReachCapture
<1>5. ASSUME NEW w \in Writers, GetThread(w) PROVE DefinitionsReachCapture'
  <2>1. /\ UNCHANGED <<listVars, defs, capturing, resend_state, known>>
        /\ forked \/ sender' = sender
        /\ UNCHANGED <<todo, lost>> \/ GiveUp(w)
        /\ lost \subseteq lost'
    BY <1>5 DEF GetThread, GiveUp
  <2>2. Again => Again'
    BY <2>1 DEF Again, ForkInv
  <2>3. ASSUME NEW d \in Defs, d \notin lost', InCall(d) PROVE InCall(d)'
    <3>1. CASE UNCHANGED <<todo, lost>>
      BY <2>3, <3>1 DEF InCall
    <3>2. CASE GiveUp(w)
      BY <2>3, <3>2, GivenUp
    <3> QED BY <2>1, <3>1, <3>2
  <2>4. ASSUME NEW d \in Defs, d \notin lost', Reaches(d) PROVE Reaches(d)'
    BY <2>1, <2>2, <2>3, <2>4 DEF Reaches, InBuffer
  <2> QED BY <1>21, <2>1, <2>4
<1>6. ASSUME NEW w \in Writers, Register(w) PROVE DefinitionsReachCapture'
  <2>1. UNCHANGED <<defs, flagVars, sender, known>>
    BY <1>6 DEF Register
  <2>2. CASE UNCHANGED <<threads, buffered, todo, lost>>
    BY <1>21, <2>1, <2>2 DEF Reaches, InBuffer, InCall, Again
  <2>3. ASSUME NEW s \in Free, threads' = <<s>> \o threads,
               buffered' = [buffered EXCEPT ![s] = <<>>], UNCHANGED <<todo, lost>>
        PROVE  DefinitionsReachCapture'
    <3>1. ToSet(threads') = ToSet(threads) \cup {s} /\ s \notin ToSet(threads)
      BY <2>3, Pushed DEF ListInv, Free
    <3>2. \A t \in ToSet(threads) : t \in Structs /\ buffered'[t] = buffered[t]
      BY <2>3, <3>1, ToSetElements DEF TypeOK
    <3>3. ASSUME NEW d \in Defs, InBuffer(d) PROVE InBuffer(d)'
      BY <3>1, <3>2, <3>3 DEF InBuffer
    <3>4. ASSUME NEW d \in Defs, Reaches(d) PROVE Reaches(d)'
      BY <2>1, <2>3, <3>3, <3>4 DEF Reaches, InCall, Again
    <3> QED BY <1>21, <2>1, <2>3, <3>4
  <2>4. CASE GiveUp(w) /\ UNCHANGED <<threads, exited, buffered, own>>
    <3>1. ASSUME NEW d \in Defs, d \notin lost', Reaches(d) PROVE Reaches(d)'
      BY <2>1, <2>4, <3>1, GivenUp DEF Reaches, InBuffer, Again
    <3> QED BY <1>21, <2>1, <2>4, <3>1 DEF GiveUp
  <2> QED BY <1>6, <2>2, <2>3, <2>4 DEF Register
<1>7. ASSUME NEW w \in Writers, Resend(w) PROVE DefinitionsReachCapture'
  <2>1. /\ at[w] = "resend" /\ todo[w] # <<>>
        /\ UNCHANGED <<listVars, defs, capturing, sender, captureVars>>
        /\ todo'[w] = ResendFirst(w) /\ \A v \in Writers : v # w => todo'[v] = todo[v]
    BY <1>7 DEF Resend, WriterInv, TypeOK
  <2>2. /\ resend_state => ToSet(defs) \subseteq ToSet(todo'[w])
        /\ ToSet(todo[w]) \subseteq ToSet(todo'[w])
    BY <2>1, ResendType
  <2>3. ASSUME NEW d \in Defs, InCall(d) PROVE InCall(d)'
    BY <2>1, <2>2, <2>3 DEF InCall
  <2>4. CASE resend_state
    <3>1. \A d \in ToSet(defs) : \E v \in Writers : d \in ToSet(todo'[v])
      BY <2>2, <2>4
    <3> QED BY <2>1, <3>1 DEF DefinitionsReachCapture
  <2>5. CASE ~resend_state
    <3>1. ASSUME NEW d \in Defs, Reaches(d) PROVE Reaches(d)'
      BY <2>1, <2>3, <2>5, <3>1 DEF Reaches, InBuffer, Again
    <3> QED BY <1>21, <2>1, <3>1
  <2> QED BY <2>4, <2>5
<1>8. ASSUME NEW w \in Writers, WriteOne(w) PROVE DefinitionsReachCapture'
  <2>1. PICK s \in Structs : s = own[w] /\ s \in ToSet(threads)
    BY <1>8, OwnType DEF WriteOne, WriterInv, ListInv, OwnedStructsListed
  <2>2. PICK x \in Token : x = Head(todo[w]) /\ ToSet(todo[w]) = {x} \cup ToSet(Tail(todo[w]))
    BY <1>8, TodoType DEF WriteOne, WriterInv
  <2>3. /\ UNCHANGED <<threads, defs, flagVars, sender, captureVars>>
        /\ buffered' = [buffered EXCEPT ![s] = Append(@, x)]
        /\ todo'[w] = Tail(todo[w]) /\ \A v \in Writers : v # w => todo'[v] = todo[v]
    BY <1>8, <2>1, <2>2 DEF WriteOne, TypeOK
  <2>4. /\ ToSet(buffered'[s]) = ToSet(buffered[s]) \cup {x}
        /\ \A t \in Structs : t # s => buffered'[t] = buffered[t]
    <3>1. ToSet(Append(buffered[s], x)) = ToSet(buffered[s]) \cup {x}
      BY ToSetAppend DEF TypeOK
    <3> QED BY <2>3, <3>1 DEF TypeOK
  <2>5. \A t \in ToSet(threads) : t \in Structs
    BY ToSetElements DEF TypeOK
  <2>6. ASSUME NEW d \in Defs, InBuffer(d) PROVE InBuffer(d)'
    BY <2>3, <2>4, <2>5, <2>6 DEF InBuffer
  <2>7. ASSUME NEW d \in Defs, InCall(d) PROVE InCall(d)' \/ InBuffer(d)'
    <3>1. PICK v \in Writers : d \in ToSet(todo[v])
      BY <2>7 DEF InCall
    <3>2. CASE v = w /\ d = x
      BY <2>1, <2>3, <2>4, <3>2 DEF InBuffer
    <3>3. CASE ~(v = w /\ d = x)
      BY <2>2, <2>3, <3>1, <3>3 DEF InCall
    <3> QED BY <3>2, <3>3
  <2>8. ASSUME NEW d \in Defs, Reaches(d) PROVE Reaches(d)'
    BY <2>3, <2>6, <2>7, <2>8 DEF Reaches, Again
  <2> QED BY <1>21, <2>3, <2>8
<1>9. CASE Loop
  <2>1. CASE connected' = TRUE /\ StartCapturing("started") /\ UNCHANGED <<buffered, known>>
    <3>1. UNCHANGED <<threads, defs, resend_state, todo>> /\ sender = "loop"
      BY <1>9 DEF Loop
    <3>2. CASE capturing
      <4>1. UNCHANGED lost /\ capturing' = TRUE
        BY <2>1, <3>2 DEF StartCapturing
      <4>2. ASSUME NEW d \in Defs, Reaches(d) PROVE Reaches(d)'
        BY <2>1, <3>1, <4>2 DEF Reaches, InBuffer, InCall, Again
      <4> QED BY <1>21, <3>1, <3>2, <4>1, <4>2
    <3>3. CASE ~capturing
      BY <2>1, <3>3 DEF StartCapturing, DefinitionsReachCapture
    <3> QED BY <3>2, <3>3
  <2>2. CASE StopCapturing
    BY <2>2 DEF StopCapturing, DefinitionsReachCapture
  <2>3. CASE /\ sender' = IF capturing THEN "sync" ELSE "read"
             /\ UNCHANGED <<connected, capturing, buffered, captureVars>>
    <3>1. UNCHANGED <<threads, defs, resend_state, todo>> /\ sender = "loop"
      BY <1>9 DEF Loop
    <3> QED BY <1>21, <2>3, <3>1 DEF Reaches, InBuffer, InCall, Again
  <2> QED BY <1>9, <2>1, <2>2, <2>3 DEF Loop
<1>10. CASE Started
  BY <1>10 DEF Started, DefinitionsReachCapture
<1>11. CASE ReadParent
  <2>1. UNCHANGED <<threads, buffered, known, defs, resend_state, todo>> /\ sender = "read"
    BY <1>11 DEF ReadParent
  <2>2. CASE StartCapturing("restarted") /\ ~capturing
    BY <2>2 DEF StartCapturing, DefinitionsReachCapture
  <2>3. CASE ~(StartCapturing("restarted") /\ ~capturing)
    <3>1. UNCHANGED lost /\ (capturing' => capturing)
      BY <1>11, <2>3 DEF ReadParent, StartCapturing
    <3> QED BY <1>21, <2>1, <3>1 DEF Reaches, InBuffer, InCall, Again
  <2> QED BY <2>2, <2>3
<1>12. CASE SyncCount \/ Visit \/ SyncPost
  <2>1. /\ UNCHANGED <<threads, buffered, todo, defs, capturing, resend_state, captureVars>>
        /\ sender \in {"sync", "thread", "post"}
    BY <1>12 DEF SyncCount, Visit, SyncPost
  <2> QED BY <1>21, <2>1 DEF Reaches, InBuffer, InCall, Again
<1>13. CASE Send
  <2>1. /\ sender = "send"
        /\ UNCHANGED <<threads, defs, flagVars, todo, lost>>
    BY <1>13 DEF Send
  <2>2. /\ cur \in Structs /\ Len(buffered[cur]) \in Nat /\ snapshot <= Len(buffered[cur])
        /\ snapshot \in Nat /\ cur \in ToSet(threads) /\ buffered[cur] \in Seq(Token)
    BY <2>1, ToSetElements, LenProperties DEF CurInv, Walking, TypeOK
  <2>3. CASE UNCHANGED <<buffered, known>>
    BY <1>21, <2>1, <2>3 DEF Reaches, InBuffer, InCall, Again
  <2>4. ASSUME NEW count \in 0..snapshot, SendCount(count) PROVE DefinitionsReachCapture'
    <3>1. count \in 0..Len(buffered[cur])
      BY <2>2
    <3>2. ToSet(buffered[cur]) = ToSet(SubSeq(buffered[cur], 1, count))
                 \cup ToSet(SubSeq(buffered[cur], count + 1, Len(buffered[cur])))
      BY <2>2, <3>1, ToSetCut
    <3>3. /\ known' = known \cup Definitions(SubSeq(buffered[cur], 1, count))
          /\ buffered'[cur] = SubSeq(buffered[cur], count + 1, Len(buffered[cur]))
          /\ \A s \in Structs : s # cur => buffered'[s] = buffered[s]
      BY <2>2, <2>4 DEF SendCount, TypeOK
    <3>4. \A s \in ToSet(threads) : s \in Structs
      BY ToSetElements DEF TypeOK
    <3>5. ASSUME NEW d \in Defs, InBuffer(d) PROVE InBuffer(d)' \/ d \in known'
      <4>1. PICK s \in ToSet(threads) : d \in ToSet(buffered[s])
        BY <3>5 DEF InBuffer
      <4>2. d \in ToSet(buffered'[s]) \/ d \in known'
        <5> HIDE DEF SInv
        <5>1. CASE s = cur
          BY <3>2, <3>3, <4>1, <5>1, Zenon DEF Definitions
        <5>2. CASE s # cur
          BY <3>3, <3>4, <4>1, <5>2, Zenon
        <5> QED BY <5>1, <5>2
      <4> QED BY <2>1, <4>2 DEF InBuffer
    <3>6. ASSUME NEW d \in Defs, Reaches(d) PROVE Reaches(d)'
      <4>1. known \subseteq known'
        BY <3>3
      <4> QED BY <2>1, <3>5, <3>6, <4>1 DEF Reaches, InCall, Again
    <3> QED BY <1>21, <2>1, <3>6
  <2>5. snapshot \in 0..snapshot
    BY <2>2
  <2> QED BY <1>13, <2>3, <2>4, <2>5 DEF Send, SeamStop
<1>14. CASE Stop
  BY <1>14 DEF Stop, StopCapturing, DefinitionsReachCapture
<1>15. CASE NextThread
  <2>1. /\ sender = "next" /\ threads' = Unlink(cur)
        /\ lost' = IF threads' = threads THEN lost ELSE lost \cup Definitions(buffered[cur])
        /\ UNCHANGED <<buffered, defs, flagVars, todo, known>>
    BY <1>15 DEF NextThread
  <2>2. threads' = threads \/ ToSet(threads') = ToSet(threads) \ {cur}
    BY <2>1, Unlinked DEF CurInv, Walking, ListInv
  <2>3. ASSUME NEW d \in Defs, d \notin lost', InBuffer(d) PROVE InBuffer(d)'
    <3>1. PICK s \in ToSet(threads) : d \in ToSet(buffered[s])
      BY <2>3 DEF InBuffer
    <3>2. s \in ToSet(threads')
      BY <2>1, <2>2, <2>3, <3>1 DEF Definitions
    <3> QED BY <2>1, <3>1, <3>2 DEF InBuffer
  <2>4. ASSUME NEW d \in Defs, d \notin lost', Reaches(d) PROVE Reaches(d)'
    BY <2>1, <2>3, <2>4 DEF Reaches, InCall, Again
  <2> QED BY <1>21, <2>1, <2>4
<1>16. CASE UNCHANGED vars
  BY <1>21, <1>16 DEF vars, Reaches, InBuffer, InCall, Again
<1> QED BY <1>1, <1>2, <1>3, <1>4, <1>5, <1>6, <1>7, <1>8, <1>9, <1>10, <1>11, <1>12, <1>13,
           <1>14, <1>15, <1>16 DEF Next, Writer, Sender

\* Every definition reaches the capture that is on, also those made before it started, for
\* every number of threads that define, send again, exit and fork while the sender walks,
\* connects and loses its connection (streamline_annotate.cpp: resend_state).
THEOREM DefinitionsReachCaptureHolds == Spec => []DefinitionsReachCapture
<1>1. Init => DefinitionsReachCapture
  BY DEF Init, DefinitionsReachCapture, ToSet
<1> QED BY <1>1, ReachStep, SessionInvariant, PTL DEF Spec

-------------------------------------------------------------------------------
(* What a flush waits for.                                                       *)

\* At most one thread flushes.
OneFlusher == \A v, w \in Flushers : v = w

\* The walk of the sender comes to structure s, or is there and about to send all that it
\* holds, or to drop it.
ToVisit(s) ==
  \/ \E i, j \in 1..Len(threads) : i < j /\ threads[i] = cur /\ threads[j] = s
  \/ /\ cur = s
     /\ sender \in {"thread", "stop"} \/ (sender = "send" /\ snapshot = Len(buffered[s]))

\* The post of a flush that waits is in just one place: not taken by the sender, taken, or
\* answered.
Counted(f) ==
  at[f] # "gone" =>
    sync_sem + sync_count + sync_waiter_sem = IF at[f] = "wait" THEN 1 ELSE 0

\* When a capture ends during a flush, what the thread had made is dropped.
Quiet(f) ==
  (at[f] \in {"flush", "wait"} /\ own[f] # Null /\ ~capturing) => buffered[own[f]] = <<>>

\* What is still buffered during the walk that answers a flush is ahead of the sender.
Coming(f) ==
  (at[f] = "wait" /\ own[f] # Null /\ buffered[own[f]] # <<>>) =>
    /\ sync_waiter_sem = 0
    /\ sync_count > 0 => sender \in Walking /\ ToVisit(own[f])

FlushInv ==
  /\ \A w \in Writers : at[w] \in {"flush", "wait"} => w \in Flushers
  /\ sync_count > 0 => sender \in Walking \cup {"post"}
  /\ \A f \in Flushers : Counted(f) /\ Quiet(f) /\ Coming(f)

\* A structure that is pushed on the list leaves the others in their order.
LEMMA PushKeepsOrder ==
  ASSUME TypeOK, NEW s \in Free, NEW i \in 1..Len(threads), NEW j \in 1..Len(threads), i < j
  PROVE  \E k, l \in 1..Len(<<s>> \o threads) :
           /\ k < l
           /\ (<<s>> \o threads)[k] = threads[i] /\ (<<s>> \o threads)[l] = threads[j]
<1>1. s \in Structs /\ threads \in Seq(Structs) /\ Len(threads) \in Nat
  BY DEF Free, TypeOK
<1>2. <<s>> \in Seq(Structs) /\ Len(<<s>>) = 1
  BY <1>1, ToSetOne
<1>5. PICK o \in Seq(Structs) : o = <<s>> /\ Len(o) = 1
  BY <1>2
<1>3. /\ Len(o \o threads) = 1 + Len(threads)
      /\ \A n \in 1..Len(threads) : (o \o threads)[n + 1] = threads[n]
  BY <1>1, <1>5
<1>4. i + 1 \in 1..Len(o \o threads) /\ j + 1 \in 1..Len(o \o threads) /\ i + 1 < j + 1
  BY <1>1, <1>3
<1> QED BY <1>3, <1>4, <1>5

\* After a step of the walk from c, structure s is where the sender is, or still ahead.
Ahead(c, s) ==
  /\ Following(c) # Null
  /\ \/ Following(c) = s
     \/ \E k, l \in 1..Len(Unlink(c)) :
          k < l /\ Unlink(c)[k] = Following(c) /\ Unlink(c)[l] = s

\* A step of the walk comes nearer to what is ahead, whether it unlinks or not.
LEMMA NextKeepsAhead ==
  ASSUME TypeOK, NoRepeat(threads),
         NEW i \in 1..Len(threads), NEW j \in 1..Len(threads), i < j
  PROVE  Ahead(threads[i], threads[j])
<1> DEFINE c == threads[i]
           s == threads[j]
<1> SUFFICES /\ Following(c) # Null
             /\ \/ Following(c) = s
                \/ \E k, l \in 1..Len(Unlink(c)) :
                     k < l /\ Unlink(c)[k] = Following(c) /\ Unlink(c)[l] = s
  BY DEF Ahead
<1>0. threads[i] = c /\ threads[j] = s
  OBVIOUS
<1> HIDE DEF c, s
<1>1. threads \in Seq(Structs) /\ Len(threads) \in Nat /\ c \in ToSet(threads)
  BY <1>0, ToSetElements DEF TypeOK
<1>2. Position(c) = i
  BY <1>0, <1>1, PositionOf DEF NoRepeat
<1>3. i + 1 \in 1..Len(threads) /\ i # Len(threads)
  BY <1>1
<1>4. Following(c) = threads[i + 1] /\ threads[i + 1] \in Structs
  BY <1>1, <1>2, <1>3 DEF Following
<1>5. Following(c) # Null
  BY <1>4, SessionAssumption
<1>6. CASE j = i + 1
  BY <1>0, <1>4, <1>5, <1>6
<1>7. CASE j # i + 1
  <2>1. CASE Unlink(c) = threads
    BY <1>0, <1>1, <1>3, <1>4, <1>5, <1>7, <2>1
  <2>2. CASE Unlink(c) = RemoveAt(threads, i)
    <3> DEFINE r == RemoveAt(threads, i)
    <3>1. /\ Len(r) = Len(threads) - 1
          /\ \A n \in 1..Len(threads) - 1 : r[n] = IF n < i THEN threads[n] ELSE threads[n + 1]
      BY <1>1, RemovedAt
    <3> HIDE DEF r
    <3>2. i \in 1..Len(threads) - 1 /\ j - 1 \in 1..Len(threads) - 1 /\ i < j - 1
          /\ (j - 1) + 1 = j /\ ~(i < i) /\ ~(j - 1 < i)
      BY <1>1, <1>7
    <3>3. r[i] = threads[i + 1] /\ r[j - 1] = threads[j]
      BY <3>1, <3>2
    <3>4. \E k, l \in 1..Len(r) : k < l /\ r[k] = threads[i + 1] /\ r[l] = s
      BY <1>0, <3>1, <3>2, <3>3
    <3> QED BY <1>4, <1>5, <2>2, <3>4 DEF r
  <2> QED BY <1>2, <2>1, <2>2 DEF Unlink
<1> QED BY <1>6, <1>7

\* How a step moves a thread into a flush and out of it.
LEMMA WhereAfter ==
  ASSUME TypeOK, Next, NEW w \in Writers
  PROVE  \/ at'[w] = at[w]
         \/ at[w] \notin {"flush", "wait"} /\ at'[w] \notin {"flush", "wait"}
         \/ at'[w] = "gone"
         \/ at'[w] = "flush" /\ w \in Flushers
         \/ at[w] = "flush" /\ at'[w] = "wait"
         \/ FlushWait(w)
<1>0. \A v \in Writers : \A x : [at EXCEPT ![v] = x][w] = IF v = w THEN x ELSE at[w]
  BY DEF TypeOK
<1>1. CASE Sender \/ ReadParent
  BY <1>1 DEF Sender, Loop, Started, SyncCount, Visit, Send, SeamStop, Stop, NextThread,
              SyncPost, ReadParent
<1>2. ASSUME NEW v \in Writers,
             \/ Annotate(v) \/ (\E d \in Defs : Define(v, d)) \/ ThreadExit(v) \/ GetThread(v)
             \/ Register(v) \/ Resend(v) \/ WriteOne(v)
      PROVE  at'[w] = at[w] \/ (at[w] \notin {"flush", "wait"} /\ at'[w] \notin {"flush", "wait"})
  <2>1. at[v] \notin {"flush", "wait"}
    BY <1>2 DEF Annotate, Define, ThreadExit, Call, GetThread, Register, Resend, WriteOne
  <2>2. UNCHANGED at \/ \E x \in {"get", "idle", "register", "resend", "write"} :
                           at' = [at EXCEPT ![v] = x]
    BY <1>2 DEF Annotate, Define, ThreadExit, Call, GetThread, GiveUp, Register, Resend, WriteOne
  <2> QED BY <1>0, <2>1, <2>2
<1>3. ASSUME NEW v \in Writers, Fork(v) PROVE at'[w] = "gone" \/ at'[w] = at[w]
  BY <1>3 DEF Fork
<1>4. ASSUME NEW v \in Writers, FlushBegin(v)
      PROVE  at'[w] = at[w] \/ (at'[w] = "flush" /\ w \in Flushers)
  BY <1>0, <1>4 DEF FlushBegin, Call
<1>5. ASSUME NEW v \in Writers, FlushPost(v)
      PROVE  at'[w] = at[w] \/ (at[w] = "flush" /\ at'[w] = "wait")
  BY <1>0, <1>5 DEF FlushPost
<1>6. ASSUME NEW v \in Writers, FlushWait(v) PROVE at'[w] = at[w] \/ FlushWait(w)
  <2>1. at' = [at EXCEPT ![v] = "idle"]
    BY <1>6 DEF FlushWait
  <2> QED BY <1>0, <1>6, <2>1
<1> QED BY <1>1, <1>2, <1>3, <1>4, <1>5, <1>6 DEF Next, Writer

\* FlushInv is preserved.
LEMMA FlushStep ==
  OneFlusher /\ ~MayBeShort /\ SInv /\ FlushInv /\ [Next]_vars => FlushInv'
<1> SUFFICES ASSUME OneFlusher, ~MayBeShort, SInv, FlushInv, [Next]_vars PROVE FlushInv'
  OBVIOUS
<1>0. /\ TypeOK /\ NoRepeat(threads) /\ OwnedStructsListed /\ CurInv /\ WriterInv
      /\ sync_sem \in Nat /\ sync_count \in Nat /\ sync_waiter_sem \in Nat
      /\ capturing \in BOOLEAN /\ Flushers \subseteq Writers
      /\ \A s \in Structs : buffered[s] \in Seq(Token)
  BY SessionAssumption DEF SInv, ListInv, TypeOK
<1>1. \A w \in Writers : at'[w] \in {"flush", "wait"} => w \in Flushers
  <2> SUFFICES ASSUME NEW w \in Writers, at'[w] \in {"flush", "wait"} PROVE w \in Flushers
    OBVIOUS
  <2>1. CASE Next
    <3>1. \/ at'[w] = at[w]
          \/ at'[w] \notin {"flush", "wait"}
          \/ w \in Flushers
          \/ at[w] = "flush"
          \/ FlushWait(w)
      BY <1>0, <2>1, WhereAfter
    <3>2. FlushWait(w) => at[w] = "wait"
      BY DEF FlushWait
    <3> QED BY <3>1, <3>2 DEF FlushInv
  <2>2. CASE UNCHANGED vars
    BY <2>2 DEF vars, FlushInv
  <2> QED BY <2>1, <2>2
<1>2. sync_count' > 0 => sender' \in Walking \cup {"post"}
  <2>1. \/ UNCHANGED <<sender, sync_count>>
        \/ sync_count' = 0
        \/ sender' \in {"thread", "post", "send", "stop", "next"}
        \/ UNCHANGED sync_count /\ sender \in {"loop", "started", "restarted", "none", "read"}
    BY DEF Next, vars, Annotate, Define, FlushBegin, ThreadExit, Fork, Writer, GetThread,
       Register, Resend, WriteOne, FlushPost, FlushWait, Sender, Loop, Started, SyncCount,
       Visit, Send, SeamStop, SendCount, Stop, NextThread, GoTo, SyncPost, ReadParent, ForkInv, SInv
  <2> QED BY <1>0, <2>1 DEF FlushInv, Walking
<1>3. ASSUME NEW f \in Flushers PROVE (Counted(f) /\ Quiet(f) /\ Coming(f))'
  <2>0. /\ f \in Writers /\ Counted(f) /\ Quiet(f) /\ Coming(f)
        /\ sync_count > 0 => sender \in Walking \cup {"post"}
        /\ own[f] # Null => own[f] \in Structs /\ own[f] \in ToSet(threads) /\ own[f] \notin exited
    BY <1>0, OwnType DEF FlushInv, OwnedStructsListed
  \* The thread is in another call, and the semaphores rest.
  <2>1. ASSUME at[f] \notin {"wait", "gone"}, at'[f] \notin {"flush", "wait"},
               UNCHANGED <<sync_sem, sync_waiter_sem, sync_count>>
        PROVE  (Counted(f) /\ Quiet(f) /\ Coming(f))'
    BY <2>0, <2>1 DEF Counted, Quiet, Coming
  \* Another thread makes a step.
  <2>2. ASSUME at'[f] = at[f], own'[f] = own[f],
               own[f] # Null => buffered'[own[f]] = buffered[own[f]],
               UNCHANGED <<capturing, sync_sem, sync_waiter_sem, sync_count, cur, snapshot>>,
               sender \in Walking => sender' = sender,
               threads' = threads \/ \E s \in Free : threads' = <<s>> \o threads
        PROVE  (Counted(f) /\ Quiet(f) /\ Coming(f))'
    <3>1. Counted(f)' /\ Quiet(f)'
      BY <2>0, <2>2 DEF Counted, Quiet
    <3>2. ASSUME at[f] = "wait", own[f] # Null, buffered[own[f]] # <<>>, sync_count > 0
          PROVE  sender' \in Walking /\ ToVisit(own[f])'
      <4>1. sender \in Walking /\ sender' = sender /\ ToVisit(own[f])
        BY <2>0, <2>2, <3>2 DEF Coming
      <4>2. CASE cur = own[f] /\ (sender \in {"thread", "stop"}
                                  \/ (sender = "send" /\ snapshot = Len(buffered[own[f]])))
        BY <2>2, <3>2, <4>1, <4>2 DEF ToVisit
      <4>3. ASSUME NEW i \in 1..Len(threads), NEW j \in 1..Len(threads),
                   i < j, threads[i] = cur, threads[j] = own[f]
            PROVE  ToVisit(own[f])'
        <5>1. \E k, l \in 1..Len(threads') : k < l /\ threads'[k] = cur /\ threads'[l] = own[f]
          <6>1. CASE threads' = threads
            BY <4>3, <6>1
          <6>2. ASSUME NEW s \in Free, threads' = <<s>> \o threads
                PROVE  \E k, l \in 1..Len(threads') :
                         k < l /\ threads'[k] = threads[i] /\ threads'[l] = threads[j]
            <7>1. \E k, l \in 1..Len(<<s>> \o threads) :
                    /\ k < l
                    /\ (<<s>> \o threads)[k] = threads[i] /\ (<<s>> \o threads)[l] = threads[j]
              BY <1>0, <4>3, PushKeepsOrder, Zenon
            <7> QED BY <6>2, <7>1, Zenon
          <6> QED BY <2>2, <4>3, <6>1, <6>2, Zenon
        <5> QED BY <2>2, <5>1 DEF ToVisit
      <4> QED BY <4>1, <4>2, <4>3 DEF ToVisit
    <3>3. Coming(f)'
      BY <2>0, <2>2, <3>2 DEF Coming
    <3> QED BY <3>1, <3>3
  \* The sender makes a step that leaves the semaphores alone.
  <2>3. ASSUME UNCHANGED <<at, own, sync_sem, sync_waiter_sem, sync_count>>,
               own[f] # Null /\ buffered'[own[f]] # <<>> => buffered[own[f]] # <<>>,
               own[f] # Null /\ at[f] \in {"flush", "wait"} /\ ~capturing' => buffered'[own[f]] = <<>>,
               /\ sync_count > 0 /\ at[f] = "wait" /\ own[f] # Null /\ buffered'[own[f]] # <<>>
               /\ buffered[own[f]] # <<>> /\ sender \in Walking /\ ToVisit(own[f])
               => sender' \in Walking /\ ToVisit(own[f])'
        PROVE  (Counted(f) /\ Quiet(f) /\ Coming(f))'
    <3>1. Counted(f)'
      BY <2>0, <2>3 DEF Counted
    <3>2. Quiet(f)'
      BY <2>3 DEF Quiet
    <3>3. Coming(f)'
      BY <2>0, <2>3 DEF Coming
    <3> QED BY <3>1, <3>2, <3>3
  <2>4. ASSUME NEW w \in Writers,
               \/ Annotate(w) \/ (\E d \in Defs : Define(w, d)) \/ ThreadExit(w)
               \/ GetThread(w) \/ Register(w) \/ Resend(w) \/ WriteOne(w)
        PROVE  (Counted(f) /\ Quiet(f) /\ Coming(f))'
    <3>1. /\ UNCHANGED <<capturing, sync_sem, sync_waiter_sem, sync_count, cur, snapshot>>
          /\ at[w] \notin {"flush", "wait", "gone"}
      BY <2>4 DEF Annotate, Define, ThreadExit, Call, GetThread, Register, Resend, WriteOne
    <3>2. at'[w] \notin {"flush", "wait"} /\ (w # f => at'[f] = at[f] /\ own'[f] = own[f])
      BY <1>0, <2>0, <2>4 DEF Annotate, Define, ThreadExit, Call, GetThread, Register, Resend,
         WriteOne, GiveUp, TypeOK
    <3>3. CASE w = f
      BY <2>1, <3>1, <3>2, <3>3
    <3>4. CASE w # f
      <4>1. sender \in Walking => sender' = sender
        BY <2>4 DEF Annotate, Define, ThreadExit, GetThread, Register, Resend, WriteOne, SInv,
           ForkInv, Walking
      <4>2. threads' = threads \/ \E s \in Free : threads' = <<s>> \o threads
        BY <2>4 DEF Annotate, Define, ThreadExit, GetThread, Register, Resend, WriteOne
      <4>3. ASSUME own[f] # Null PROVE buffered'[own[f]] = buffered[own[f]]
        <5>1. CASE UNCHANGED buffered
          BY <5>1
        <5>2. ASSUME NEW s \in Free, buffered' = [buffered EXCEPT ![s] = <<>>]
              PROVE  buffered'[own[f]] = buffered[own[f]]
          BY <1>0, <2>0, <4>3, <5>2 DEF Free, TypeOK
        <5>3. CASE WriteOne(w)
          <6>1. own[w] # Null /\ own[w] # own[f]
            BY <1>0, <2>0, <3>4, <4>3, <5>3 DEF WriteOne, WriterInv, OwnedStructsListed
          <6> QED BY <1>0, <2>0, <4>3, <5>3, <6>1 DEF WriteOne, TypeOK
        <5> QED BY <2>4, <5>1, <5>2, <5>3 DEF Annotate, Define, ThreadExit, GetThread, Register, Resend
      <4> QED BY <2>2, <3>1, <3>2, <3>4, <4>1, <4>2, <4>3
    <3> QED BY <3>3, <3>4
  <2>5. ASSUME NEW w \in Writers, FlushBegin(w) \/ FlushPost(w) \/ FlushWait(w)
        PROVE  (Counted(f) /\ Quiet(f) /\ Coming(f))'
    <3>1. w = f
      BY <1>0, <2>5 DEF FlushBegin, FlushPost, FlushWait, FlushInv, OneFlusher
    <3>2. UNCHANGED <<buffered, own, capturing, sync_count>>
      BY <2>5 DEF FlushBegin, FlushPost, FlushWait
    <3>3. CASE FlushBegin(w)
      <4>1. at[f] = "idle" /\ at'[f] = "flush" /\ capturing /\ UNCHANGED <<sync_sem, sync_waiter_sem>>
        BY <1>0, <2>0, <3>1, <3>3 DEF FlushBegin, Call, TypeOK
      <4> QED BY <1>0, <2>0, <3>2, <4>1 DEF Counted, Quiet, Coming
    <3>4. CASE FlushPost(w)
      <4>1. at[f] = "flush" /\ at'[f] = "wait" /\ sync_sem' = sync_sem + 1 /\ UNCHANGED sync_waiter_sem
        BY <1>0, <2>0, <3>1, <3>4 DEF FlushPost, TypeOK
      <4>2. sync_sem = 0 /\ sync_count = 0 /\ sync_waiter_sem = 0
        BY <1>0, <2>0, <4>1 DEF Counted
      <4> QED BY <1>0, <2>0, <3>2, <4>1, <4>2 DEF Counted, Quiet, Coming
    <3>5. CASE FlushWait(w)
      <4>1. at[f] = "wait" /\ at'[f] = "idle" /\ sync_waiter_sem' = sync_waiter_sem - 1
            /\ UNCHANGED sync_sem
        BY <1>0, <2>0, <3>1, <3>5 DEF FlushWait, TypeOK
      <4> QED BY <1>0, <2>0, <3>2, <4>1 DEF Counted, Quiet, Coming
    <3> QED BY <2>5, <3>3, <3>4, <3>5
  <2>6. ASSUME NEW w \in Writers, Fork(w) PROVE (Counted(f) /\ Quiet(f) /\ Coming(f))'
    <3>1. UNCHANGED <<sync_sem, sync_waiter_sem>> /\ sync_count' = 0 /\ at[w] = "idle"
          /\ at'[f] = IF f = w THEN "idle" ELSE "gone"
      BY <2>0, <2>6 DEF Fork
    <3>2. f = w => sync_count = 0
      BY <1>0, <2>0, <3>1 DEF Counted
    <3> QED BY <2>0, <2>1, <3>1, <3>2 DEF Counted, Quiet, Coming
  <2>7. CASE Loop \/ Started \/ ReadParent
    <3>1. UNCHANGED <<at, own, sync_sem, sync_waiter_sem, sync_count>> /\ sender \notin Walking
      BY <2>7 DEF Loop, Started, ReadParent, Walking
    <3>2. ASSUME own[f] # Null
          PROVE  /\ buffered'[own[f]] # <<>> => buffered[own[f]] # <<>>
                 /\ at[f] \in {"flush", "wait"} /\ ~capturing' => buffered'[own[f]] = <<>>
      <4>1. CASE UNCHANGED buffered /\ (capturing' = TRUE \/ UNCHANGED capturing)
        BY <2>0, <3>2, <4>1 DEF Quiet
      <4>2. CASE StopCapturing
        BY <2>0, <3>2, <4>2 DEF Quiet, StopCapturing
      <4> QED BY <2>7, <4>1, <4>2 DEF Loop, Started, ReadParent, StartCapturing
    <3> QED BY <2>3, <3>1, <3>2
  <2>8. CASE SyncCount
    <3>1. /\ UNCHANGED <<at, own, buffered, capturing, threads, sync_waiter_sem>>
          /\ sender = "sync" /\ sync_count' = sync_sem /\ sync_sem' = 0
          /\ GoTo(IF threads = <<>> THEN Null ELSE Head(threads))
      BY <2>8 DEF SyncCount
    <3>2. sync_count = 0
      BY <1>0, <2>0, <3>1 DEF Walking
    <3>3. ASSUME own[f] # Null, sync_count' > 0 PROVE sender' \in Walking /\ ToVisit(own[f])'
      <4>1. threads # <<>> /\ threads \in Seq(Structs)
        BY <1>0, <2>0, <3>3, ToSetElements DEF TypeOK
      <4>2. Len(threads) \in Nat \ {0} /\ Head(threads) = threads[1] /\ threads[1] \in Structs
        BY <4>1
      <4>3. cur' = threads[1] /\ sender' = "thread"
        BY <3>1, <4>1, <4>2, SessionAssumption DEF GoTo
      <4>4. PICK j \in 1..Len(threads) : threads[j] = own[f]
        BY <2>0, <3>3, <4>1, ToSetElements
      <4>5. CASE j = 1
        BY <3>1, <4>3, <4>4, <4>5 DEF ToVisit, Walking
      <4>6. CASE j # 1
        <5>1. 1 \in 1..Len(threads) /\ 1 < j
          BY <4>2, <4>4, <4>6
        <5> QED BY <3>1, <4>3, <4>4, <5>1 DEF ToVisit, Walking
      <4> QED BY <4>5, <4>6
    <3>4. Counted(f)' /\ Quiet(f)'
      BY <1>0, <2>0, <3>1, <3>2 DEF Counted, Quiet
    <3> QED BY <2>0, <3>1, <3>3, <3>4 DEF Coming
  <2>9. CASE Visit
    <3>1. UNCHANGED <<at, own, buffered, capturing, threads, cur, sync_sem, sync_waiter_sem, sync_count>>
          /\ sender = "thread"
          /\ \/ snapshot' = Len(buffered[cur]) /\ sender' = "send"
             \/ sender' = "stop"
             \/ ~capturing /\ sender' = "next"
      BY <2>9 DEF Visit
    <3>2. ASSUME own[f] # Null, at[f] = "wait", buffered[own[f]] # <<>>, ToVisit(own[f])
          PROVE  sender' \in Walking /\ ToVisit(own[f])'
      <4>1. capturing
        BY <1>0, <2>0, <3>2 DEF Quiet
      <4> QED BY <3>1, <3>2, <4>1 DEF ToVisit, Walking
    <3>3. own[f] # Null /\ at[f] \in {"flush", "wait"} /\ ~capturing => buffered[own[f]] = <<>>
      BY <2>0 DEF Quiet
    <3> QED BY <2>3, <3>1, <3>2, <3>3
  <2>10. CASE Send
    <3>1. UNCHANGED <<at, own, capturing, threads, cur, snapshot, sync_sem, sync_waiter_sem, sync_count>>
          /\ sender = "send" /\ cur \in Structs /\ snapshot \in 0..Len(buffered[cur])
      BY <1>0, <2>10, PositionOf DEF Send, CurInv, Walking, TypeOK
    <3>2. \/ SendCount(snapshot) /\ sender' \in {"next", "stop"}
          \/ sender' = "stop" /\ UNCHANGED buffered
      BY <2>10 DEF Send, SeamStop
    <3>3. CASE sender' = "stop" /\ UNCHANGED buffered
      <4>1. ToVisit(own[f]) => ToVisit(own[f])'
        BY <3>1, <3>3 DEF ToVisit
      <4>2. own[f] # Null /\ at[f] \in {"flush", "wait"} /\ ~capturing => buffered[own[f]] = <<>>
        BY <2>0 DEF Quiet
      <4> QED BY <2>3, <3>1, <3>3, <4>1, <4>2 DEF Walking
    <3>4. CASE SendCount(snapshot) /\ sender' \in {"next", "stop"}
      <4>1. /\ buffered' = [buffered EXCEPT ![cur] = SubSeq(buffered[cur], snapshot + 1, Len(buffered[cur]))]
            /\ sender' \in {"next", "stop"}
        BY <3>4 DEF SendCount
      <4>2. PICK q \in Seq(Token) : q = buffered[cur]
        BY <1>0, <3>1
      <4>3. /\ Len(q) \in Nat /\ snapshot \in 0..Len(q)
            /\ (q = <<>> => SubSeq(q, snapshot + 1, Len(q)) = <<>>)
            /\ (snapshot = Len(q) => SubSeq(q, snapshot + 1, Len(q)) = <<>>)
        BY <3>1, <4>2
      <4>4. ASSUME own[f] # Null
            PROVE  /\ buffered'[own[f]] # <<>> => buffered[own[f]] # <<>>
                   /\ cur = own[f] /\ snapshot = Len(buffered[own[f]]) => buffered'[own[f]] = <<>>
        <5>1. CASE cur = own[f]
          <6>1. buffered'[own[f]] = SubSeq(q, snapshot + 1, Len(q)) /\ buffered[own[f]] = q
            BY <1>0, <2>0, <4>1, <4>2, <4>4, <5>1 DEF TypeOK
          <6> QED BY <4>3, <6>1
        <5>2. CASE cur # own[f]
          BY <1>0, <2>0, <4>1, <4>4, <5>2 DEF TypeOK
        <5> QED BY <5>1, <5>2
      <4>5. own[f] # Null /\ at[f] \in {"flush", "wait"} /\ ~capturing' => buffered'[own[f]] = <<>>
        BY <2>0, <3>1, <4>4 DEF Quiet
      <4>6. own[f] # Null /\ buffered'[own[f]] # <<>> /\ ToVisit(own[f]) => ToVisit(own[f])'
        BY <3>1, <4>4 DEF ToVisit
      <4> QED BY <2>3, <3>1, <4>1, <4>4, <4>5, <4>6 DEF Walking
    <3> QED BY <3>2, <3>3, <3>4
  <2>11. CASE Stop
    <3>1. UNCHANGED <<at, own, threads, cur, snapshot, sync_sem, sync_waiter_sem, sync_count>>
          /\ capturing' = FALSE
          /\ buffered' = [s \in Structs |-> IF capturing /\ s \in ToSet(threads) THEN <<>>
                                            ELSE buffered[s]]
      BY <2>11 DEF Stop, StopCapturing
    <3>2. own[f] # Null /\ at[f] \in {"flush", "wait"} => buffered'[own[f]] = <<>>
      BY <2>0, <3>1 DEF Quiet
    <3>3. own[f] # Null /\ buffered'[own[f]] # <<>> => buffered[own[f]] # <<>>
      BY <2>0, <3>1
    <3> QED BY <2>3, <3>1, <3>2, <3>3
  <2>12. CASE NextThread
    <3>1. UNCHANGED <<at, own, buffered, capturing, sync_sem, sync_waiter_sem, sync_count>>
          /\ sender = "next" /\ threads' = Unlink(cur) /\ GoTo(Following(cur))
      BY <2>12 DEF NextThread
    <3>2. ASSUME own[f] # Null, ToVisit(own[f]) PROVE sender' \in Walking /\ ToVisit(own[f])'
      <4>1. PICK i \in 1..Len(threads), j \in 1..Len(threads) :
              i < j /\ threads[i] = cur /\ threads[j] = own[f]
        BY <3>1, <3>2 DEF ToVisit
      <4>2. /\ Following(cur) # Null
            /\ \/ Following(cur) = own[f]
               \/ \E k, l \in 1..Len(Unlink(cur)) :
                    k < l /\ Unlink(cur)[k] = Following(cur) /\ Unlink(cur)[l] = own[f]
        <5>1. TypeOK /\ NoRepeat(threads)
          BY <1>0
        <5>2. Ahead(threads[i], threads[j])
          BY <4>1, <5>1, NextKeepsAhead
        <5> QED BY <4>1, <5>2 DEF Ahead
      <4>3. cur' = Following(cur) /\ sender' = "thread"
        BY <3>1, <4>2 DEF GoTo
      <4> QED BY <3>1, <4>2, <4>3 DEF ToVisit, Walking
    <3>3. own[f] # Null /\ at[f] \in {"flush", "wait"} /\ ~capturing => buffered[own[f]] = <<>>
      BY <2>0 DEF Quiet
    <3> QED BY <2>3, <3>1, <3>2, <3>3
  <2>13. CASE SyncPost
    <3>1. UNCHANGED <<at, own, buffered, capturing, sync_sem>> /\ sender = "post"
          /\ sync_waiter_sem' = sync_waiter_sem + sync_count /\ sync_count' = 0
      BY <2>13 DEF SyncPost, PostCount
    <3>2. Counted(f)' /\ Quiet(f)'
      BY <1>0, <2>0, <3>1 DEF Counted, Quiet
    <3>3. Coming(f)'
      BY <1>0, <2>0, <3>1 DEF Coming, Walking
    <3> QED BY <3>2, <3>3
  <2>14. CASE UNCHANGED vars
    BY <2>0, <2>14 DEF vars, Counted, Quiet, Coming, ToVisit
  <2> QED BY <2>4, <2>5, <2>6, <2>7, <2>8, <2>9, <2>10, <2>11, <2>12, <2>13, <2>14
      DEF Next, Writer, Sender
<1> QED BY <1>1, <1>2, <1>3 DEF FlushInv

\* streamline_annotate.cpp:149: when a flush returns, what its thread had made before is no
\* longer waiting: it was sent, or dropped with its capture.  This holds for any number of
\* annotating threads that come, go and fork while the sender walks and unlinks, and for
\* captures that fail in between, if one thread flushes and no write to gatord is short.
THEOREM FlushSendsHolds == OneFlusher /\ ~MayBeShort => (Spec => FlushSends)
<1> SUFFICES ASSUME OneFlusher, ~MayBeShort PROVE Spec => FlushSends
  OBVIOUS
<1>1. Init => FlushInv
  <2> SUFFICES ASSUME Init PROVE FlushInv
    OBVIOUS
  <2>1. Flushers \subseteq Writers /\ at = [w \in Writers |-> "idle"]
        /\ sync_sem = 0 /\ sync_count = 0 /\ sync_waiter_sem = 0
    BY SessionAssumption DEF Init
  <2> QED BY <2>1 DEF FlushInv, Counted, Quiet, Coming
<1>2. SInv /\ FlushInv /\ [Next]_vars => FlushInv'
  BY FlushStep
<1>3. SInv /\ FlushInv /\ [Next]_vars =>
        [\A w \in Writers :
           at[w] = "wait" /\ at'[w] = "idle" /\ own[w] # Null => buffered[own[w]] = <<>>]_vars
  <2> SUFFICES ASSUME SInv, FlushInv, Next, NEW w \in Writers,
                      at[w] = "wait", at'[w] = "idle", own[w] # Null
               PROVE  buffered[own[w]] = <<>>
    OBVIOUS
  <2>1. at \in [Writers -> {"idle", "get", "register", "resend", "write", "flush", "wait", "gone"}]
        /\ sync_waiter_sem \in Nat
    BY DEF SInv, TypeOK
  <2>2. FlushWait(w)
    BY WhereAfter DEF SInv
  <2>3. sync_waiter_sem > 0 /\ w \in Flushers
    BY <2>2 DEF FlushWait, FlushInv
  <2> QED BY <2>1, <2>3 DEF FlushInv, Coming
<1> QED BY <1>1, <1>2, <1>3, SessionInvariant, PTL DEF Spec, FlushSends
==============================================================================
