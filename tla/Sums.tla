--------------------------------- MODULE Sums ---------------------------------
(* Sums over sequences of numbers, as the loops of the code build them up.       *)
EXTENDS Integers, Sequences

\* PrefixSums(s)[k] is the sum of the first k elements.
PrefixSums(s) ==
  LET sum[k \in 0..Len(s)] == IF k = 0 THEN 0 ELSE sum[k - 1] + s[k]
  IN  sum

SumSeq(s) == PrefixSums(s)[Len(s)]
===============================================================================
