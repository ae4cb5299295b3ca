----------------------------- MODULE Postprocess -----------------------------
(***************************************************************************)
(* Collector::postprocess: the samples a threaded collector took at its    *)
(* own rate are remixed into one value per frame.  `timing' is the         *)
(* Collection's mTiming (frame durations, microseconds), `list' the        *)
(* samples of one key.  The code computes the sample of a frame in doubles, *)
(* and so does the model: a double is a fraction whose denominator is a    *)
(* power of two, and every operation rounds to the nearest one.            *)
(***************************************************************************)
EXTENDS Sums

CONSTANT Precision      \* bits of the significand of a double: 53 in the code

ASSUME PrecisionAssumption == Precision \in Nat \ {0}

\* Elapsed(timing)[k]: the time before frame k+1 starts, i.e. cur_time after
\* k turns of the inner loop; Elapsed(timing)[Len(timing)] is `duration'.
Elapsed(timing) == PrefixSums(timing)

Duration(timing) == Elapsed(timing)[Len(timing)]

-------------------------------------------------------------------------------
(* Doubles.  Sums of frame times and numbers of samples are exact: they are    *)
(* integers below 2^Precision.                                                 *)

PowerOf2[n \in Nat] == IF n = 0 THEN 1 ELSE 2 * PowerOf2[n - 1]

\* The significand of a double is below 2^Precision and, except in 0, from here on.
MinSignificand == PowerOf2[Precision - 1]

\* num / den rounded to the nearest integer, a tie to the even one.
Nearest(num, den) ==
  LET whole == num \div den
      rest == num % den
  IN  IF 2 * rest > den \/ (2 * rest = den /\ whole % 2 = 1) THEN whole + 1 ELSE whole

\* The binary places of the doubles next to num / den: as few as give it a whole
\* significand.  (More than the bound are never needed.)
Places(num, den) ==
  CHOOSE k \in 0..(den + Precision) :
    /\ num * PowerOf2[k] >= den * MinSignificand
    /\ k > 0 => num * PowerOf2[k - 1] < den * MinSignificand

\* The double nearest to num / den, a number below 2^Precision.
Double(num, den) ==
  IF num = 0 THEN [num |-> 0, den |-> 1]
  ELSE LET scale == PowerOf2[Places(num, den)]
       IN  [num |-> Nearest(num * scale, den), den |-> scale]

-------------------------------------------------------------------------------
\* trunc((double)time / duration * samples): the quotient is rounded, and so is the
\* product.
SampleAt(time, duration, samples) ==
  LET quotient == Double(time, duration)
      product == Double(quotient.num * samples, quotient.den)
  IN  product.num \div product.den

\* The (0-based) sample the code reads for frame i when it has `samples' of
\* them.  A session of no measurable length divides 0.0 by 0.0; converting
\* the NaN to int is undefined: `nan' is what the build makes of it.
RemixIndexOfEnd(timing, samples, i, nan) ==
  IF Duration(timing) = 0 THEN nan
  ELSE SampleAt(Elapsed(timing)[i], Duration(timing), samples)

RemixIndex(timing, samples, i, nan) ==
  IF Duration(timing) = 0 THEN nan
  ELSE SampleAt(Elapsed(timing)[i - 1], Duration(timing), samples)

\* What the conversion of NaN gives: 0 (AArch64) or INT_MIN (x86), for which
\* any negative number stands.
NaNIndices == {0, -1}

\* list.at(index) is defined for every frame; it throws otherwise.
RemixDefined(timing, samples, nan) ==
  \A i \in 1..Len(timing) : RemixIndex(timing, samples, i, nan) \in 0..samples-1

\* The remixed list: one entry per frame.
Remix(timing, list, nan) ==
  [i \in 1..Len(timing) |-> list[RemixIndex(timing, Len(list), i, nan) + 1]]
==============================================================================
