------------------------------ MODULE ShareLog ------------------------------
(***************************************************************************)
(* What a PPLNS share window promises: it holds the newest `size' shares   *)
(* in the order they were recorded, and a restart with another configured  *)
(* size keeps the newest of them.  ShareWindow implements it.              *)
(***************************************************************************)
EXTENDS LastNShares

CONSTANTS Share,   \* the shares a worker may submit
          Sizes    \* the window sizes an operator may configure

VARIABLES size,    \* the configured window size
          recent   \* the shares in the window, oldest first

logVars == <<size, recent>>

Init ==
  /\ size \in Sizes
  /\ recent = << >>

Record(x) ==
  /\ recent' = PushLast(recent, x, size)
  /\ UNCHANGED size

Resize(n) ==
  /\ size' = n
  /\ recent' = LastN(recent, n)

Next ==
  \/ \E x \in Share : Record(x)
  \/ \E n \in Sizes : Resize(n)

Spec == Init /\ [][Next]_logVars
=============================================================================
