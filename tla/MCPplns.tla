------------------------------ MODULE MCPplns ------------------------------
(* One coin; what is due is decided per account, so several workers of one  *)
(* coin show what several coins would.  With a fee of 10 % a reward of 3    *)
(* units leaves 2.7 to divide: 3 for a worker alone, 1 for each of two. A   *)
(* reward of 1 earns a worker alone just the least that is paid.            *)
EXTENDS Pplns

MCMinPayout == [c \in Coins |-> 1]
=============================================================================
