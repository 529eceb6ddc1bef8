----------------------------- MODULE MCSessions -----------------------------
(* Three connections from one address that may have two, and the two names  *)
(* they authorize with.  The map remembers one name, so that the second     *)
(* evicts the first when that is offline.                                   *)
EXTENDS Sessions

MCIpOf == [c \in Conns |-> CHOOSE i \in Ips : TRUE]
=============================================================================
