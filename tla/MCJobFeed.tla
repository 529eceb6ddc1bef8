------------------------------ MODULE MCJobFeed ------------------------------
(* A miner that is being served and another that connects, hangs or leaves.  *)
EXTENDS JobFeed
=============================================================================
