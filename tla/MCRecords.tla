------------------------------ MODULE MCRecords -------------------------------
(***************************************************************************)
(* The parts of the pool that keep records, in memory and in files, beside *)
(* the payout engine, on small instances of their own: in every behaviour  *)
(* one of them is at work and the others rest, so that one run sees the    *)
(* states of each, and takes the sum of their times.                       *)
(***************************************************************************)
EXTENDS Ledger, Uptime, Hashstore, Settings, ShareWindow, SnapshotFile, Swap

VARIABLE part

\* Uptime
MCWindows == {2, 3, 5}

\* ShareWindow: every position of the write head, the wrap, and reloads into a larger
\* and a smaller window.
MCSizes == 1..4

\* SnapshotFile: JSON that grows and shrinks again (an event is trimmed).  Two savers
\* never hold more than one file open besides the two that have names, so three files
\* are enough.
MCSize == [v \in 0..MaxVersion |-> IF v = 1 THEN 2 ELSE 1]

\* Swap: dgb is swapped to btc, which is the market's currency, and btc to ltc.
MCDest == [c \in Coins |-> IF c = "dgb" THEN "btc" ELSE "ltc"]
-----------------------------------------------------------------------------
Parts == {"ledger", "uptime", "hashstore", "settings", "share window", "snapshot file", "swap"}

RecordsInit ==
  /\ part \in Parts
  /\ Init /\ (part # "share window" => cap = 1)
  /\ LedgerInit /\ UpInit /\ HashInit /\ SettingsInit /\ SnapshotInit /\ SwapInit

logs == <<ledgerVars, upVars, hashVars>>
files == <<setVars, vars, snapshotVars>>

Accounting == part = "ledger" /\ LedgerNext /\ UNCHANGED <<part, upVars, hashVars, files, swapVars>>
Tracking == part = "uptime" /\ UpNext /\ UNCHANGED <<part, ledgerVars, hashVars, files, swapVars>>
Sampling == part = "hashstore" /\ HashNext /\ UNCHANGED <<part, ledgerVars, upVars, files, swapVars>>
Configuring == part = "settings" /\ SettingsNext
               /\ UNCHANGED <<part, logs, vars, snapshotVars, swapVars>>
Sharing == part = "share window" /\ Next /\ UNCHANGED <<part, logs, setVars, snapshotVars, swapVars>>
Saving == part = "snapshot file" /\ SnapshotNext /\ UNCHANGED <<part, logs, setVars, vars, swapVars>>
Swapping == part = "swap" /\ SwapNext /\ UNCHANGED <<part, logs, files>>

RecordsNext ==
  Accounting \/ Tracking \/ Sampling \/ Configuring \/ Sharing \/ Saving \/ Swapping
RecordsSpec == RecordsInit /\ [][RecordsNext]_<<part, logs, files, swapVars>>
-----------------------------------------------------------------------------
\* The state of the part at work has its type.
TypesOK ==
  /\ part = "ledger" => LedgerTypeOK
  /\ part = "uptime" => UpTypeOK
  /\ part = "hashstore" => HashTypeOK
  /\ part = "settings" => SettingsTypeOK
  /\ part = "share window" => TypeOK
  /\ part = "snapshot file" => SnapshotTypeOK
  /\ part = "swap" => SwapTypeOK
=============================================================================
