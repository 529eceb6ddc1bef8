------------------------------- MODULE MCMining -------------------------------
(***************************************************************************)
(* The parts of the pool that deal with miners and blocks beside the job   *)
(* feed and the sessions, on small instances of their own: in every        *)
(* behaviour one of them is at work and the others rest, so that one run   *)
(* sees the states of each, and takes the sum of their times.              *)
(***************************************************************************)
EXTENDS StaleKick, Vardiff, Guardian, Merge, Block, Address, Quai

CONSTANT rig
VARIABLE part

\* StaleKick: two connections of one worker, one of which takes a new extranonce.
MCOwner == [c \in Miners |-> rig]

\* Merge: the range loop of main ends with the aux chains.
MCChildren == <<"DOGE", "PEP">>
MCCoinLoop == <<"LTC", "DOGE", "PEP">>

\* Address: hashes that begin or end with zeros, or have none, of 20 and 32 bytes.
MCHashes20 == {[i \in 1..20 |-> (37 * i) % 256], [i \in 1..20 |-> IF i < 4 THEN 0 ELSE 255 - i],
               [i \in 1..20 |-> IF i < 15 THEN 8 * i ELSE 0]}
MCHashes32 == {[i \in 1..32 |-> (91 * i) % 256]}

\* Block: up to nine transactions or 253, up to five aux chains, heights where the number
\* of bytes or the sign bit changes, tags as long as there is room for, and longer.
Plain == [server |-> "stratum", prev |-> <<1, 2, 3, 4, 5, 6, 7, 8>>, txs |-> 2, height |-> 840000,
          version |-> {29}, tag |-> 8, witness |-> "full", wallet |-> "valid", aux |-> 1,
          shareTarget |-> 3, blockTarget |-> 1]
MCTemplates ==
  {[Plain EXCEPT !.txs = n, !.aux = a] : n \in 0..9, a \in 0..5}
  \union {[Plain EXCEPT !.height = h, !.tag = t, !.aux = 0]
          : h \in {17, 127, 128, 255, 256, 32767, 32768, 8388607, 8388608,
                   16777215, 16777216, 23000000, 2147483647}, t \in {0, 20, 21}}
  \union {[Plain EXCEPT !.witness = w, !.wallet = k]
          : w \in {"none", "bare", "full"}, k \in {"valid", "not decoded"}}
  \union {[Plain EXCEPT !.version = {14, 29}], [Plain EXCEPT !.txs = 253],
          [Plain EXCEPT !.shareTarget = 0], [Plain EXCEPT !.server = "quai"]}
MCRolls == {{}, {13}, {14, 20}}

\* Guardian: two chains, and what a tick may find: nothing wrong, or several things.
MCChains == <<"LTC", "BTC">>
MCTicks == [m \in {2, 5, 10, 15, 30} |-> IF m = 2 THEN 1 ELSE IF m = 5 THEN 2 ELSE 3]
Well == [job |-> "fresh", rates |-> {}, connected |-> 1,
         worker |-> [online |-> TRUE, rates |-> "fine", silent |-> FALSE, khs |-> 4]]
Gone == [job |-> "none", rates |-> {}, connected |-> 0,
         worker |-> [online |-> FALSE, rates |-> "few", silent |-> FALSE, khs |-> 0]]
Stale == [job |-> "old", rates |-> {"stale"}, connected |-> 1,
          worker |-> [online |-> TRUE, rates |-> "stale", silent |-> FALSE, khs |-> 2]]
Rejected == [job |-> "fresh", rates |-> {"rejected"}, connected |-> 1,
             worker |-> [online |-> TRUE, rates |-> "rejected", silent |-> FALSE, khs |-> 4]]
Silent == [job |-> "fresh", rates |-> {}, connected |-> 1,
           worker |-> [online |-> TRUE, rates |-> "elevated", silent |-> TRUE, khs |-> 0]]
Finds(temp, ram, cpu, one, other) ==
  [temp |-> temp, ram |-> ram, cpu |-> cpu,
   chain |-> [c \in {"LTC", "BTC"} |-> IF c = "LTC" THEN one ELSE other]]
MCObservations ==
  {Finds(1, "ok", FALSE, Well, Well), Finds(3, "high", FALSE, Stale, Well),
   Finds(0, "critical", TRUE, Gone, Stale), Finds(2, "ok", FALSE, Rejected, Well),
   Finds(3, "ok", FALSE, Silent, Rejected)}
-----------------------------------------------------------------------------
Parts == {"stale kick", "vardiff", "guardian", "merge", "block", "address", "quai"}

MiningInit ==
  /\ part \in Parts
  /\ IF part = "address" THEN AddressInit ELSE wallet = NoScript /\ script = NoScript
  /\ BlockInit /\ (part # "block" => tmpl = Plain)
  /\ KickInit /\ DiffInit /\ GuardianInit /\ MergeInit /\ QuaiInit

rigs == <<kickVars, diffVars, guardianVars, quaiVars>>
blocks == <<mergeVars, blockVars, addressVars>>

Kicking == part = "stale kick" /\ KickNext /\ UNCHANGED <<part, diffVars, guardianVars, quaiVars, blocks>>
Tuning == part = "vardiff" /\ DiffNext /\ UNCHANGED <<part, kickVars, guardianVars, quaiVars, blocks>>
Guarding == part = "guardian" /\ GuardianNext /\ UNCHANGED <<part, kickVars, diffVars, quaiVars, blocks>>
Zoning == part = "quai" /\ QuaiNext /\ UNCHANGED <<part, kickVars, diffVars, guardianVars, blocks>>
Merging == part = "merge" /\ MergeNext /\ UNCHANGED <<part, rigs, blockVars, addressVars>>
Building == part = "block" /\ BlockNext /\ UNCHANGED <<part, rigs, mergeVars, addressVars>>
Paying == part = "address" /\ AddressNext /\ UNCHANGED <<part, rigs, mergeVars, blockVars>>

MiningNext == Kicking \/ Tuning \/ Guarding \/ Merging \/ Building \/ Paying \/ Zoning
MiningSpec == MiningInit /\ [][MiningNext]_<<part, rigs, blocks>>
-----------------------------------------------------------------------------
\* The state of the part at work has its type.
TypesOK ==
  /\ part = "stale kick" => StaleKickTypeOK
  /\ part = "vardiff" => DiffTypeOK
  /\ part = "guardian" => GuardianTypeOK
  /\ part = "merge" => MergeTypeOK
  /\ part = "block" => BlockTypeOK
  /\ part = "quai" => QuaiTypeOK
=============================================================================
