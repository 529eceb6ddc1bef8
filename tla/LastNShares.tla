---------------------------- MODULE LastNShares ----------------------------
(***************************************************************************)
(* "The last N shares" of PPLNS, as a pure function on sequences.  It is   *)
(* what the ring buffer of pplns/payout.go is meant to hold, and what the  *)
(* payout engine computes credits from.                                    *)
(***************************************************************************)
EXTENDS Naturals, Sequences

\* The newest n elements of s, oldest first (all of s when it is shorter).
LastN(s, n) ==
  LET m == IF Len(s) <= n THEN Len(s) ELSE n
  IN  [i \in 1..m |-> s[Len(s) - m + i]]

\* A window of size n after one more share has been recorded.
PushLast(s, x, n) == LastN(Append(s, x), n)
=============================================================================
