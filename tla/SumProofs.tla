------------------------------- MODULE SumProofs ------------------------------
(* Facts about sums over sequences of any length.  They need induction over the  *)
(* naturals, which is stated with a set: the induction theorems of the library   *)
(* have an operator as parameter, WFMin has not.                                 *)
EXTENDS Sums, WellFoundedInduction, TLAPS

LessThan == OpToRel(<, Nat)

\* A set of naturals that is not empty has a least element.
LEMMA LeastNatural ==
  ASSUME NEW T, T \subseteq Nat, T # {}
  PROVE  \E x \in T : \A y \in T : x <= y
<1>1. IsWellFoundedOn(LessThan, Nat)
  BY NatLessThanWellFounded, Zenon DEF LessThan
<1>2. PICK x \in T : \A y \in T : ~ (<<y, x>> \in LessThan)
  BY <1>1, WFMin, Zenon
<1>3. \A y \in T : ~(y < x)
  BY <1>2 DEF LessThan, OpToRel
<1> QED BY <1>3

\* A set that holds 0 and with every natural the next one holds all of them.
LEMMA SetInduction ==
  ASSUME NEW P, 0 \in P, \A n \in Nat : n \in P => n + 1 \in P
  PROVE  Nat \subseteq P
<1> SUFFICES ASSUME Nat \ P # {} PROVE FALSE
  OBVIOUS
<1>1. PICK x \in Nat \ P : \A y \in Nat \ P : x <= y
  BY LeastNatural
<1>2. x # 0 /\ x - 1 \in Nat
  BY <1>1
<1>3. x - 1 \in P
  BY <1>1, <1>2
<1>4. (x - 1) + 1 = x
  BY <1>1
<1> QED BY <1>1, <1>2, <1>3, <1>4

-------------------------------------------------------------------------------
(* Loops.  A recursive function over 0..n whose values stay in a set exists.   *)

\* f is what a loop of n rounds goes through, from base and with step[<<k, x>>] as what
\* round k makes of x.
IsLoop(f, S, base, step, n) ==
  f \in [0..n -> S] /\ f[0] = base /\ \A k \in 1..n : f[k] = step[<<k, f[k - 1]>>]

LEMMA LoopExists ==
  ASSUME NEW S, NEW base \in S, NEW m \in Nat, NEW step \in [(1..m) \X S -> S]
  PROVE  \E f : IsLoop(f, S, base, step, m)
<1> DEFINE P == {n \in Nat : n <= m => \E f : IsLoop(f, S, base, step, n)}
<1>1. 0 \in P
  <2>1. IsLoop([k \in 0..0 |-> base], S, base, step, 0)
    BY DEF IsLoop
  <2> QED BY <2>1
<1>2. ASSUME NEW n \in Nat, n \in P PROVE n + 1 \in P
  <2> SUFFICES ASSUME n + 1 <= m PROVE \E f : IsLoop(f, S, base, step, n + 1)
    OBVIOUS
  <2>1. PICK f : IsLoop(f, S, base, step, n)
    BY <1>2
  <2>2. f[n] \in S /\ <<n + 1, f[n]>> \in (1..m) \X S
    BY <2>1 DEF IsLoop
  <2> DEFINE last == step[<<n + 1, f[n]>>]
             g == [k \in 0..(n + 1) |-> IF k = n + 1 THEN last ELSE f[k]]
  <2>3. last \in S
    BY <2>2
  <2>4. g \in [0..(n + 1) -> S] /\ g[0] = base
    BY <2>1, <2>3 DEF IsLoop
  <2>5. ASSUME NEW k \in 1..(n + 1) PROVE g[k] = step[<<k, g[k - 1]>>]
    <3>1. CASE k = n + 1
      <4>1. g[k] = last /\ g[k - 1] = f[n]
        BY <3>1
      <4> QED BY <3>1, <4>1
    <3>2. CASE k # n + 1
      <4>1. k \in 1..n /\ g[k] = f[k] /\ g[k - 1] = f[k - 1]
        BY <3>2
      <4> QED BY <2>1, <4>1 DEF IsLoop
    <3> QED BY <3>1, <3>2
  <2>6. IsLoop(g, S, base, step, n + 1)
    BY <2>4, <2>5 DEF IsLoop
  <2> QED BY <2>6
<1> HIDE DEF P
<1>3. Nat \subseteq P
  BY <1>1, <1>2, SetInduction
<1>4. m \in P
  BY <1>3
<1> QED BY <1>4 DEF P

-------------------------------------------------------------------------------
(* What the recursive definition defines.                                      *)

IsPrefixSums(f, s, n) ==
  f \in [0..n -> Int] /\ f[0] = 0 /\ \A k \in 1..n : f[k] = f[k - 1] + s[k]

\* There is such a function, up to any position of the sequence.
LEMMA PrefixSumsExist ==
  ASSUME NEW s \in Seq(Int)
  PROVE  \A n \in Nat : n <= Len(s) => \E f : IsPrefixSums(f, s, n)
<1> DEFINE P == {n \in Nat : n <= Len(s) => \E f : IsPrefixSums(f, s, n)}
<1>1. 0 \in P
  <2>1. IsPrefixSums([k \in 0..0 |-> 0], s, 0)
    BY DEF IsPrefixSums
  <2> QED BY <2>1
<1>2. ASSUME NEW n \in Nat, n \in P PROVE n + 1 \in P
  <2> SUFFICES ASSUME n + 1 <= Len(s) PROVE \E f : IsPrefixSums(f, s, n + 1)
    OBVIOUS
  <2>1. PICK f : IsPrefixSums(f, s, n)
    BY <1>2
  <2> DEFINE g == [k \in 0..(n + 1) |-> IF k = n + 1 THEN f[n] + s[n + 1] ELSE f[k]]
  <2>2. IsPrefixSums(g, s, n + 1)
    BY <2>1 DEF IsPrefixSums
  <2> QED BY <2>2
<1> HIDE DEF P
<1>3. Nat \subseteq P
  BY <1>1, <1>2, SetInduction
<1> QED BY <1>3 DEF P

\* So PrefixSums is one.
LEMMA PrefixSumsDef ==
  ASSUME NEW s \in Seq(Int)
  PROVE  IsPrefixSums(PrefixSums(s), s, Len(s))
<1> DEFINE F == PrefixSums(s)
<1>1. PICK f : IsPrefixSums(f, s, Len(s))
  BY PrefixSumsExist
<1>2. f = [k \in 0..Len(s) |-> IF k = 0 THEN 0 ELSE f[k - 1] + s[k]]
  BY <1>1 DEF IsPrefixSums
<1>3. F = [k \in 0..Len(s) |-> IF k = 0 THEN 0 ELSE F[k - 1] + s[k]]
  BY <1>2 DEF PrefixSums
<1> HIDE DEF F
<1> DEFINE P == {n \in Nat : n <= Len(s) => F[n] \in Int}
<1>4. 0 \in P
  BY <1>3
<1>5. ASSUME NEW n \in Nat, n \in P PROVE n + 1 \in P
  <2> SUFFICES ASSUME n + 1 <= Len(s) PROVE F[n + 1] \in Int
    OBVIOUS
  <2>1. F[n + 1] = F[n] + s[n + 1]
    BY <1>3
  <2> QED BY <1>5, <2>1
<1> HIDE DEF P
<1>6. Nat \subseteq P
  BY <1>4, <1>5, SetInduction
<1>7. F \in [0..Len(s) -> Int]
  BY <1>3, <1>6 DEF P
<1>8. F[0] = 0
  BY <1>3
<1>9. ASSUME NEW k \in 1..Len(s) PROVE F[k] = F[k - 1] + s[k]
  <2>1. k \in 0..Len(s) /\ k # 0
    OBVIOUS
  <2> QED BY <1>3, <2>1
<1>10. IsPrefixSums(F, s, Len(s))
  BY <1>7, <1>8, <1>9 DEF IsPrefixSums
<1> QED BY <1>10 DEF F

-------------------------------------------------------------------------------
(* Sums of sequences that grow.                                                *)

\* The sums of a sequence and of a longer one that begins with it agree.
LEMMA SamePrefixSums ==
  ASSUME NEW s \in Seq(Int), NEW t \in Seq(Int), Len(s) <= Len(t),
         \A k \in 1..Len(s) : t[k] = s[k]
  PROVE  \A n \in 0..Len(s) : PrefixSums(t)[n] = PrefixSums(s)[n]
<1>1. IsPrefixSums(PrefixSums(s), s, Len(s)) /\ IsPrefixSums(PrefixSums(t), t, Len(t))
  BY PrefixSumsDef
<1> DEFINE P == {n \in Nat : n <= Len(s) => PrefixSums(t)[n] = PrefixSums(s)[n]}
<1>2. 0 \in P
  BY <1>1 DEF IsPrefixSums
<1>3. ASSUME NEW n \in Nat, n \in P PROVE n + 1 \in P
  <2> SUFFICES ASSUME n + 1 <= Len(s) PROVE PrefixSums(t)[n + 1] = PrefixSums(s)[n + 1]
    OBVIOUS
  <2>1. n + 1 \in 1..Len(s) /\ n + 1 \in 1..Len(t) /\ (n + 1) - 1 = n
    OBVIOUS
  <2> QED BY <1>1, <1>3, <2>1 DEF IsPrefixSums
<1> HIDE DEF P
<1>4. Nat \subseteq P
  BY <1>2, <1>3, SetInduction
<1> QED BY <1>4 DEF P

\* Sums are numbers, and the sum of nothing is 0.
LEMMA SumType ==
  ASSUME NEW s \in Seq(Int)
  PROVE  SumSeq(s) \in Int
BY PrefixSumsDef DEF SumSeq, IsPrefixSums

\* The sum of no elements.
LEMMA SumEmpty == SumSeq(<<>>) = 0
<1>1. <<>> \in Seq(Int) /\ Len(<<>>) = 0
  OBVIOUS
<1> QED BY <1>1, PrefixSumsDef DEF SumSeq, IsPrefixSums

\* An element more.
LEMMA SumAppend ==
  ASSUME NEW s \in Seq(Int), NEW v \in Int
  PROVE  SumSeq(Append(s, v)) = SumSeq(s) + v
<1> DEFINE t == Append(s, v)
<1>1. t \in Seq(Int) /\ Len(t) = Len(s) + 1 /\ Len(s) \in Nat /\ t[Len(s) + 1] = v
      /\ \A k \in 1..Len(s) : t[k] = s[k]
  OBVIOUS
<1> HIDE DEF t
<1>2. PrefixSums(t)[Len(s)] = PrefixSums(s)[Len(s)]
  BY <1>1, SamePrefixSums
<1>3. PrefixSums(t)[Len(t)] = PrefixSums(t)[Len(t) - 1] + t[Len(t)]
  <2>1. IsPrefixSums(PrefixSums(t), t, Len(t))
    BY <1>1, PrefixSumsDef
  <2>2. Len(t) \in 1..Len(t)
    BY <1>1
  <2> QED BY <2>1, <2>2 DEF IsPrefixSums
<1>4. SumSeq(t) = SumSeq(s) + v
  BY <1>1, <1>2, <1>3 DEF SumSeq
<1> QED BY <1>4 DEF t

\* Sums of naturals do not decrease.
LEMMA PrefixSumsGrow ==
  ASSUME NEW s \in Seq(Nat), NEW i \in 0..Len(s), NEW j \in 0..Len(s), i <= j
  PROVE  /\ PrefixSums(s)[i] \in Nat /\ PrefixSums(s)[j] \in Nat
         /\ PrefixSums(s)[i] <= PrefixSums(s)[j]
<1>1. s \in Seq(Int) /\ Len(s) \in Nat
  OBVIOUS
<1>2. IsPrefixSums(PrefixSums(s), s, Len(s))
  BY <1>1, PrefixSumsDef
<1> DEFINE P == {n \in Nat : n <= Len(s) => /\ PrefixSums(s)[n] \in Nat
                                            /\ i <= n => PrefixSums(s)[i] <= PrefixSums(s)[n]}
<1>3. 0 \in P
  BY <1>2 DEF IsPrefixSums
<1>4. ASSUME NEW n \in Nat, n \in P PROVE n + 1 \in P
  <2> SUFFICES ASSUME n + 1 <= Len(s)
               PROVE  /\ PrefixSums(s)[n + 1] \in Nat
                      /\ i <= n + 1 => PrefixSums(s)[i] <= PrefixSums(s)[n + 1]
    OBVIOUS
  <2>1. n + 1 \in 1..Len(s) /\ (n + 1) - 1 = n /\ s[n + 1] \in Nat
    BY <1>1
  <2>2. PrefixSums(s)[n + 1] = PrefixSums(s)[n] + s[n + 1] /\ PrefixSums(s)[i] \in Int
    BY <1>2, <2>1 DEF IsPrefixSums
  <2>3. PrefixSums(s)[n] \in Nat /\ (i <= n => PrefixSums(s)[i] <= PrefixSums(s)[n])
    BY <1>4, <2>1
  <2>4. CASE i <= n
    BY <2>1, <2>2, <2>3, <2>4
  <2>5. CASE i = n + 1
    BY <2>1, <2>2, <2>3, <2>5
  <2>6. i <= n \/ i = n + 1 \/ ~(i <= n + 1)
    OBVIOUS
  <2>7. PrefixSums(s)[n + 1] \in Nat
    BY <2>1, <2>2, <2>3
  <2> QED BY <2>4, <2>5, <2>6, <2>7
<1> HIDE DEF P
<1>5. Nat \subseteq P
  BY <1>3, <1>4, SetInduction
<1> QED BY <1>5 DEF P

\* No element of a sequence of naturals is larger than the sum.
LEMMA ElementBelowSum ==
  ASSUME NEW s \in Seq(Nat), NEW k \in 1..Len(s)
  PROVE  SumSeq(s) \in Nat /\ s[k] <= SumSeq(s)
<1>1. s \in Seq(Int) /\ Len(s) \in Nat /\ k - 1 \in 0..Len(s) /\ k \in 0..Len(s)
      /\ Len(s) \in 0..Len(s) /\ s[k] \in Nat /\ k - 1 <= k /\ k <= Len(s)
  OBVIOUS
<1>2. PrefixSums(s)[k] = PrefixSums(s)[k - 1] + s[k]
  BY <1>1, PrefixSumsDef DEF IsPrefixSums
<1>3. PrefixSums(s)[k - 1] \in Nat /\ PrefixSums(s)[k] \in Nat /\ PrefixSums(s)[Len(s)] \in Nat
      /\ PrefixSums(s)[k] <= PrefixSums(s)[Len(s)]
  BY <1>1, PrefixSumsGrow
<1>4. ASSUME NEW a \in Nat, NEW b \in Nat, NEW c \in Nat, NEW e \in Nat, b = a + e, b <= c
      PROVE  e <= c
  BY <1>4
<1> QED BY <1>1, <1>2, <1>3, <1>4 DEF SumSeq

\* Sequences that add up element by element have sums that add up.
LEMMA SumPointwise ==
  ASSUME NEW a \in Seq(Int), NEW b \in Seq(Int), NEW c \in Seq(Int),
         Len(a) = Len(c), Len(b) = Len(c), \A k \in 1..Len(c) : c[k] = a[k] + b[k]
  PROVE  SumSeq(c) = SumSeq(a) + SumSeq(b)
<1> DEFINE A(n) == PrefixSums(a)[n]
           B(n) == PrefixSums(b)[n]
           C(n) == PrefixSums(c)[n]
           P == {n \in Nat : n <= Len(c) => A(n) \in Int /\ B(n) \in Int /\ C(n) = A(n) + B(n)}
<1>1. Len(c) \in Nat
  OBVIOUS
<1>2. /\ IsPrefixSums(PrefixSums(a), a, Len(c)) /\ IsPrefixSums(PrefixSums(b), b, Len(c))
      /\ IsPrefixSums(PrefixSums(c), c, Len(c))
  BY PrefixSumsDef
<1>3. A(0) = 0 /\ B(0) = 0 /\ C(0) = 0
  BY <1>2 DEF IsPrefixSums
<1>4. ASSUME NEW n \in Nat, n + 1 <= Len(c)
      PROVE  /\ A(n + 1) = A(n) + a[n + 1] /\ B(n + 1) = B(n) + b[n + 1]
             /\ C(n + 1) = C(n) + c[n + 1]
             /\ a[n + 1] \in Int /\ b[n + 1] \in Int /\ c[n + 1] = a[n + 1] + b[n + 1]
  <2>1. n + 1 \in 1..Len(c) /\ (n + 1) - 1 = n
    BY <1>1, <1>4
  <2> QED BY <1>2, <2>1 DEF IsPrefixSums
<1> HIDE DEF A, B, C
<1>5. 0 \in P
  BY <1>3
<1>6. ASSUME NEW n \in Nat, n \in P PROVE n + 1 \in P
  <2> SUFFICES ASSUME n + 1 <= Len(c)
               PROVE  /\ A(n + 1) \in Int /\ B(n + 1) \in Int
                      /\ C(n + 1) = A(n + 1) + B(n + 1)
    OBVIOUS
  <2>1. A(n) \in Int /\ B(n) \in Int /\ C(n) = A(n) + B(n)
    BY <1>1, <1>6
  <2>2. /\ A(n + 1) = A(n) + a[n + 1] /\ B(n + 1) = B(n) + b[n + 1]
        /\ C(n + 1) = C(n) + c[n + 1]
        /\ a[n + 1] \in Int /\ b[n + 1] \in Int /\ c[n + 1] = a[n + 1] + b[n + 1]
    BY <1>4, Zenon
  <2>3. PICK x \in Int, y \in Int, u \in Int, v \in Int :
          x = A(n) /\ y = B(n) /\ u = a[n + 1] /\ v = b[n + 1]
    BY <2>1, <2>2, Zenon
  <2>4. A(n + 1) = x + u /\ B(n + 1) = y + v /\ C(n + 1) = (x + y) + (u + v)
    BY <2>1, <2>2, <2>3, Zenon
  <2>5. x + u \in Int /\ y + v \in Int /\ (x + y) + (u + v) = (x + u) + (y + v)
    OBVIOUS
  <2> QED BY <2>4, <2>5, Zenon
<1> HIDE DEF P
<1>7. Nat \subseteq P
  BY <1>5, <1>6, SetInduction
<1> QED BY <1>1, <1>7 DEF P, A, B, C, SumSeq

\* A sum of naturals none of which is above b.
LEMMA SumAtMost ==
  ASSUME NEW s \in Seq(Nat), NEW b \in Nat, \A k \in 1..Len(s) : s[k] <= b
  PROVE  SumSeq(s) \in Nat /\ SumSeq(s) <= Len(s) * b
<1> DEFINE A(n) == PrefixSums(s)[n]
           P == {n \in Nat : n <= Len(s) => A(n) \in Nat /\ A(n) <= n * b}
<1>1. s \in Seq(Int) /\ Len(s) \in Nat
  OBVIOUS
<1>2. IsPrefixSums(PrefixSums(s), s, Len(s))
  BY <1>1, PrefixSumsDef
<1>3. A(0) = 0 /\ 0 * b = 0
  BY <1>2 DEF IsPrefixSums
<1>4. ASSUME NEW n \in Nat, n + 1 <= Len(s)
      PROVE  A(n + 1) = A(n) + s[n + 1] /\ s[n + 1] \in Nat /\ s[n + 1] <= b
  <2>1. n + 1 \in 1..Len(s) /\ (n + 1) - 1 = n
    BY <1>1, <1>4
  <2> QED BY <1>2, <2>1 DEF IsPrefixSums
<1> HIDE DEF A
<1>5. 0 \in P
  BY <1>3
<1>6. ASSUME NEW n \in Nat, n \in P PROVE n + 1 \in P
  <2> SUFFICES ASSUME n + 1 <= Len(s) PROVE A(n + 1) \in Nat /\ A(n + 1) <= (n + 1) * b
    OBVIOUS
  <2>1. A(n) \in Nat /\ A(n) <= n * b
    BY <1>1, <1>6
  <2>2. A(n + 1) = A(n) + s[n + 1] /\ s[n + 1] \in Nat /\ s[n + 1] <= b
    BY <1>4
  <2>3. (n + 1) * b = n * b + b /\ n * b \in Nat
    OBVIOUS
  <2>4. ASSUME NEW x \in Nat, NEW y \in Nat, NEW z \in Nat, x <= z, y <= b
        PROVE  x + y \in Nat /\ x + y <= z + b
    BY <2>4
  <2>5. A(n) + s[n + 1] \in Nat /\ A(n) + s[n + 1] <= n * b + b
    BY <2>1, <2>2, <2>3, <2>4, Zenon
  <2> QED BY <2>2, <2>3, <2>5
<1> HIDE DEF P
<1>7. Nat \subseteq P
  BY <1>5, <1>6, SetInduction
<1>8. Len(s) \in P /\ Len(s) <= Len(s)
  BY <1>1, <1>7
<1> QED BY <1>8 DEF P, A, SumSeq

\* Two sums within bounds that scale with a and b add up to one within the bounds of a + b.
LEMMA BoundsAdd ==
  ASSUME NEW lo \in Nat, NEW hi \in Nat, NEW a \in Nat, NEW b \in Nat, NEW c \in Int, NEW d \in Int,
         lo * a <= c, c <= hi * a, lo * b <= d, d <= hi * b
  PROVE  lo * (a + b) <= c + d /\ c + d <= hi * (a + b)
<1>1. lo * (a + b) = lo * a + lo * b /\ hi * (a + b) = hi * a + hi * b
  OBVIOUS
<1>2. ASSUME NEW la \in Int, NEW lb \in Int, NEW ha \in Int, NEW hb \in Int,
             la <= c, c <= ha, lb <= d, d <= hb
      PROVE  la + lb <= c + d /\ c + d <= ha + hb
  BY <1>2
<1>3. lo * a \in Int /\ lo * b \in Int /\ hi * a \in Int /\ hi * b \in Int
  OBVIOUS
<1> QED BY <1>1, <1>2, <1>3, Zenon

\* The elements of a sequence over S are in S.
LEMMA ElementType == ASSUME NEW S, NEW s \in Seq(S), NEW k \in 1..Len(s) PROVE s[k] \in S
  OBVIOUS

\* If every weighted element is between lo and hi times the element, so is the sum.
LEMMA WeightedSums ==
  ASSUME NEW s \in Seq(Nat), NEW w \in Seq(Int), Len(w) = Len(s), NEW lo \in Nat, NEW hi \in Nat,
         \A k \in 1..Len(s) : lo * s[k] <= w[k] /\ w[k] <= hi * s[k]
  PROVE  lo * SumSeq(s) <= SumSeq(w) /\ SumSeq(w) <= hi * SumSeq(s)
<1> DEFINE S(n) == PrefixSums(s)[n]
           W(n) == PrefixSums(w)[n]
           P == {n \in Nat : n <= Len(s) => lo * S(n) <= W(n) /\ W(n) <= hi * S(n)}
<1>1. s \in Seq(Int) /\ Len(s) \in Nat
  OBVIOUS
<1>2. IsPrefixSums(PrefixSums(s), s, Len(s)) /\ IsPrefixSums(PrefixSums(w), w, Len(w))
  BY <1>1, PrefixSumsDef
<1>3. S(0) = 0 /\ W(0) = 0
  BY <1>2 DEF IsPrefixSums
<1>4. \A n \in Nat : n <= Len(s) => S(n) \in Nat /\ W(n) \in Int
  <2> SUFFICES ASSUME NEW n \in Nat, n <= Len(s) PROVE S(n) \in Nat /\ W(n) \in Int
    OBVIOUS
  <2>1. n \in 0..Len(s)
    BY <1>1
  <2> QED BY <1>2, <2>1, PrefixSumsGrow DEF IsPrefixSums
<1>5. \A n \in Nat : n + 1 <= Len(s) =>
         S(n + 1) = S(n) + s[n + 1] /\ W(n + 1) = W(n) + w[n + 1]
  <2> SUFFICES ASSUME NEW n \in Nat, n + 1 <= Len(s)
               PROVE  S(n + 1) = S(n) + s[n + 1] /\ W(n + 1) = W(n) + w[n + 1]
    OBVIOUS
  <2>1. n + 1 \in 1..Len(s) /\ n + 1 \in 1..Len(w) /\ (n + 1) - 1 = n
    BY <1>1
  <2> QED BY <1>2, <2>1 DEF IsPrefixSums
<1> HIDE DEF S, W
<1>6. 0 \in P
  BY <1>3
<1>7. ASSUME NEW n \in Nat, n \in P PROVE n + 1 \in P
  <2> SUFFICES ASSUME n + 1 <= Len(s)
               PROVE  lo * S(n + 1) <= W(n + 1) /\ W(n + 1) <= hi * S(n + 1)
    OBVIOUS
  <2>1. S(n) \in Nat /\ W(n) \in Int /\ lo * S(n) <= W(n) /\ W(n) <= hi * S(n)
    <3>1. n <= Len(s)
      BY <1>1
    <3> QED BY <1>4, <1>7, <3>1, Zenon DEF P
  <2>2. n + 1 \in 1..Len(s) /\ n + 1 \in 1..Len(w)
    BY <1>1
  <2>3. s[n + 1] \in Nat /\ w[n + 1] \in Int
    BY <2>2, ElementType, Zenon
  <2>4. lo * s[n + 1] <= w[n + 1] /\ w[n + 1] <= hi * s[n + 1]
    BY <2>2, Zenon
  <2>5. S(n + 1) = S(n) + s[n + 1] /\ W(n + 1) = W(n) + w[n + 1]
    BY <1>5
  <2>6. /\ lo * (S(n) + s[n + 1]) <= W(n) + w[n + 1]
        /\ W(n) + w[n + 1] <= hi * (S(n) + s[n + 1])
    BY <2>1, <2>3, <2>4, BoundsAdd, Zenon
  <2> QED BY <2>5, <2>6, Zenon
<1> HIDE DEF P
<1>8. Nat \subseteq P
  BY <1>6, <1>7, SetInduction
<1> QED BY <1>1, <1>8 DEF P, S, W, SumSeq

(* Division with remainder. *)
LEMMA Quotient ==
  ASSUME NEW a \in Nat, NEW d \in Nat \ {0}
  PROVE  /\ a \div d \in Nat
         /\ (a \div d) * d <= a /\ a < ((a \div d) + 1) * d
OBVIOUS

(* Multiplication keeps the order, and division by a factor does. *)
LEMMA ProductOrder ==
  ASSUME NEW a \in Nat, NEW b \in Nat, NEW d \in Nat \ {0}
  PROVE  a < b <=> a * d < b * d
OBVIOUS

\* A quotient of what is between two multiples of the divisor.
LEMMA BoundedQuotient ==
  ASSUME NEW a \in Int, NEW d \in Nat \ {0}, NEW lo \in Nat \ {0}, NEW hi \in Nat,
         lo * d <= a, a <= hi * d
  PROVE  a # 0 /\ a \div d \in lo..hi
<1>1. lo * d \in Nat \ {0}
  OBVIOUS
<1>2. a \in Nat \ {0}
  BY <1>1
<1> DEFINE q == a \div d
<1>3. q \in Nat /\ q * d <= a /\ a < (q + 1) * d
  BY <1>2, Quotient
<1> HIDE DEF q
<1>4. q <= hi
  <2> SUFFICES ASSUME hi < q PROVE FALSE
    BY <1>3
  <2>1. hi * d < q * d
    BY <1>3, ProductOrder
  <2>2. hi * d \in Nat /\ q * d \in Nat
    BY <1>3
  <2> QED BY <1>2, <1>3, <2>1, <2>2
<1>5. lo < q + 1
  <2>1. lo * d < (q + 1) * d
    <3>1. (q + 1) * d \in Nat
      BY <1>3
    <3> QED BY <1>1, <1>2, <1>3, <3>1
  <2>2. q + 1 \in Nat
    BY <1>3
  <2> QED BY <2>1, <2>2, ProductOrder
<1> QED BY <1>2, <1>3, <1>4, <1>5 DEF q

\* A weighted average is between the bounds of the weighted elements.
LEMMA WeightedAverage ==
  ASSUME NEW s \in Seq(Nat), NEW w \in Seq(Int), Len(w) = Len(s),
         NEW lo \in Nat \ {0}, NEW hi \in Nat,
         \A k \in 1..Len(s) : lo * s[k] <= w[k] /\ w[k] <= hi * s[k],
         NEW j \in 1..Len(s), s[j] > 0
  PROVE  SumSeq(w) # 0 /\ SumSeq(w) \div SumSeq(s) \in lo..hi
<1> DEFINE a == SumSeq(w)
           d == SumSeq(s)
<1>1. lo * d <= a /\ a <= hi * d
  BY WeightedSums, Zenon
<1>2. d \in Nat /\ s[j] <= d /\ s[j] \in Nat
  BY ElementBelowSum, ElementType, Zenon
<1>3. a \in Int
  BY SumType, Zenon
<1>4. d \in Nat \ {0} /\ s[j] \in Nat
  BY <1>2
<1> HIDE DEF a, d
<1> QED BY <1>1, <1>3, <1>4, BoundedQuotient, Zenon DEF a, d
===============================================================================
