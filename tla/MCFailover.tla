----------------------------- MODULE MCFailover -----------------------------
(* One miner that takes a new extranonce or one that has to reconnect.     *)
EXTENDS Failover
=============================================================================
