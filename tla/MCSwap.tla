------------------------------- MODULE MCSwap -------------------------------
(* dgb is swapped to ltc by way of BTC.                                      *)
EXTENDS Swap

MCDest == [c \in Coins |-> "ltc"]
=============================================================================
