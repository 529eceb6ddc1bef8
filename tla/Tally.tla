------------------------------- MODULE Tally -------------------------------
(***************************************************************************)
(* Sums of sequences of numbers and rounded quotients: the arithmetic of   *)
(* pplns/payout.go with amounts counted in units of 1e-8 coin, the         *)
(* precision that roundTo(x, 8) keeps.                                     *)
(***************************************************************************)
EXTENDS Integers, Sequences

\* The running sums of a sequence, from the empty sum.
PrefixSums(s) ==
  LET sum[i \in 0..Len(s)] == IF i = 0 THEN 0 ELSE sum[i - 1] + s[i]
  IN  sum

Total(s) == PrefixSums(s)[Len(s)]

\* a / b to the nearest whole unit, halves up (math.Round, a >= 0).
RoundDiv(a, b) == (2 * a + b) \div (2 * b)
=============================================================================
