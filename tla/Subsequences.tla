---------------------------- MODULE Subsequences ----------------------------
(***************************************************************************)
(* The elements of a sequence at some of its places, in their order: what  *)
(* a loop leaves that appends to a new slice the elements it keeps.        *)
(* Stated without recursion, so that what it returns can be proved.        *)
(***************************************************************************)
EXTENDS Integers, Sequences, FiniteSets

\* The how-manieth place of P this one is.
Rank(P, i) == Cardinality({j \in P : j <= i})

ElementsAt(s, P) ==
  [k \in 1..Cardinality(P) |-> s[CHOOSE i \in P : Rank(P, i) = k]]
=============================================================================
