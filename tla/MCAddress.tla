------------------------------ MODULE MCAddress -------------------------------
(* Hashes that begin or end with zeros, or have none, of 20 and 32 bytes.   *)
EXTENDS Address
MCHashes20 == {[i \in 1..20 |-> (37 * i) % 256], [i \in 1..20 |-> IF i < 4 THEN 0 ELSE 255 - i],
               [i \in 1..20 |-> IF i < 15 THEN 8 * i ELSE 0]}
MCHashes32 == {[i \in 1..32 |-> (91 * i) % 256]}
=============================================================================
