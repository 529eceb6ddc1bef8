---------------------------- MODULE SnapshotFile ----------------------------
(***************************************************************************)
(* How the components write their state files.  One save marshals a copy   *)
(* of the state, opens a file (os.WriteFile truncates an existing one),    *)
(* writes the bytes and, in the staged style, renames the temporary file   *)
(* over the state file.  The code has it in three styles:                  *)
(*                                                                         *)
(*   UnderLock, Staged    uptime saveState                                 *)
(*   ~UnderLock, Staged   pplns persist, earnings persist, hashstore Save: *)
(*                        any goroutine, the lock held for the copy only,  *)
(*                        and one name for everybody's temporary file      *)
(*   UnderLock, ~Staged   swap saveState: the state file itself is opened  *)
(*                                                                         *)
(* Names and the files they name are told apart: an open descriptor keeps  *)
(* writing to its file after a rename.  A process that ends leaves the     *)
(* files as they are; the machine does not lose what was written.          *)
(***************************************************************************)
EXTENDS Integers

CONSTANTS
  Savers,       \* the goroutines that may save at the same time
  UnderLock,    \* the whole save runs under the component's lock
  Staged,       \* through a temporary file and a rename
  Inodes,       \* files that may exist
  NoInode,      \* the meaning of a name nothing exists under
  Size,         \* Size[v]: bytes of the state's version v as JSON
  MaxVersion    \* bound: changes of the state

ASSUME SnapshotAssumption ==
  /\ UnderLock \in BOOLEAN /\ Staged \in BOOLEAN
  /\ NoInode \notin Inodes
  /\ MaxVersion \in Nat
  /\ Size \in [0..MaxVersion -> Nat \ {0}]

VARIABLES
  version,  \* the state in memory: how many changes it has seen
  pc,       \* of each saver: idle, taken (copy made), open, written
  copy,     \* the version it saves
  fd,       \* the file it has open
  tmp,      \* the file the temporary name stands for
  file,     \* the file the state file's name stands for
  data,     \* of each file: its length and the version at its start
  acked     \* the newest version whose save has succeeded

snapshotVars == <<version, pc, copy, fd, tmp, file, data, acked>>
-----------------------------------------------------------------------------
AllIdle == \A s \in Savers : pc[s] = "idle"

Larger(m, n) == IF m >= n THEN m ELSE n

\* The JSON decoder accepts exactly one whole document: not an empty file,
\* and not a short document with the tail of a longer one behind it.
Whole(i) == i # NoInode /\ data[i].len = Size[data[i].ver]

\* What a process that starts now would load; a missing or unreadable file
\* is a fresh start.
Loaded == IF Whole(file) THEN data[file].ver ELSE 0

\* The files the next open may get: the one its name stands for, else a new.
Opened ==
  LET target == IF Staged THEN tmp ELSE file
  IN  IF target # NoInode THEN {target}
      ELSE Inodes \ ({tmp, file} \cup {fd[s] : s \in Savers})
-----------------------------------------------------------------------------
SnapshotInit ==
  /\ version = 0
  /\ pc = [s \in Savers |-> "idle"]
  /\ copy = [s \in Savers |-> 0]
  /\ fd = [s \in Savers |-> NoInode]
  /\ tmp = NoInode /\ file = NoInode
  /\ data = [i \in Inodes |-> [ver |-> 0, len |-> 0]]
  /\ acked = 0

\* The component's state changes (under its lock).
Change ==
  /\ version < MaxVersion
  /\ UnderLock => AllIdle
  /\ version' = version + 1
  /\ UNCHANGED <<pc, copy, fd, tmp, file, data, acked>>

\* A slip: the save does not wait for the lock.
TakeUnlocked(s) ==
  /\ pc[s] = "idle"
  /\ pc' = [pc EXCEPT ![s] = "taken"]
  /\ copy' = [copy EXCEPT ![s] = version]
  /\ UNCHANGED <<version, fd, tmp, file, data, acked>>

\* The state is copied and marshalled.
Take(s) ==
  /\ pc[s] = "idle"
  /\ UnderLock => AllIdle
  /\ pc' = [pc EXCEPT ![s] = "taken"]
  /\ copy' = [copy EXCEPT ![s] = version]
  /\ UNCHANGED <<version, fd, tmp, file, data, acked>>

\* os.WriteFile, first half: open with O_CREATE and O_TRUNC.
Open(s) ==
  /\ pc[s] = "taken"
  /\ pc' = [pc EXCEPT ![s] = "open"]
  /\ \E i \in Opened :
       /\ fd' = [fd EXCEPT ![s] = i]
       /\ data' = [data EXCEPT ![i].len = 0]
       /\ IF Staged THEN tmp' = i /\ UNCHANGED file
                    ELSE file' = i /\ UNCHANGED tmp
  /\ UNCHANGED <<version, copy, acked>>

\* os.WriteFile, second half: the bytes go to the start of the open file,
\* over whatever somebody else wrote there meanwhile.
Write(s) ==
  /\ pc[s] = "open"
  /\ data' = [data EXCEPT ![fd[s]] =
                [ver |-> copy[s], len |-> Larger(@.len, Size[copy[s]])]]
  /\ fd' = [fd EXCEPT ![s] = NoInode]
  /\ pc' = [pc EXCEPT ![s] = IF Staged THEN "written" ELSE "idle"]
  /\ acked' = IF Staged THEN acked ELSE Larger(acked, copy[s])
  /\ UNCHANGED <<version, copy, tmp, file>>

\* The open or the write fails (a full disk): the save returns, and what was
\* truncated stays.  A partial write is as unreadable as none.
SaveFails(s) ==
  /\ pc[s] \in {"taken", "open"}
  /\ pc' = [pc EXCEPT ![s] = "idle"]
  /\ fd' = [fd EXCEPT ![s] = NoInode]
  /\ UNCHANGED <<version, copy, tmp, file, data, acked>>

\* os.Rename: the state file is whatever the temporary name stands for now.
Rename(s) ==
  /\ pc[s] = "written" /\ tmp # NoInode
  /\ file' = tmp /\ tmp' = NoInode
  /\ pc' = [pc EXCEPT ![s] = "idle"]
  /\ acked' = Larger(acked, copy[s])
  /\ UNCHANGED <<version, copy, fd, data>>

\* It fails: somebody else has renamed the temporary file away, or the file
\* system refuses.
RenameFails(s) ==
  /\ pc[s] = "written"
  /\ pc' = [pc EXCEPT ![s] = "idle"]
  /\ UNCHANGED <<version, copy, fd, tmp, file, data, acked>>

\* A slip: the start takes over a temporary file it finds, after loading.
RestartAdopts ==
  /\ version' = Loaded
  /\ pc' = [s \in Savers |-> "idle"]
  /\ copy' = [s \in Savers |-> 0]
  /\ fd' = [s \in Savers |-> NoInode]
  /\ file' = IF tmp # NoInode THEN tmp ELSE file
  /\ tmp' = NoInode
  /\ UNCHANGED <<data, acked>>

\* The process ends anywhere, and starts again from the file.
SnapshotRestart ==
  /\ version' = Loaded
  /\ pc' = [s \in Savers |-> "idle"]
  /\ copy' = [s \in Savers |-> 0]
  /\ fd' = [s \in Savers |-> NoInode]
  /\ UNCHANGED <<tmp, file, data, acked>>

SnapshotNext ==
  \/ Change
  \/ \E s \in Savers : \/ Take(s) \/ Open(s) \/ Write(s)
                       \/ SaveFails(s) \/ Rename(s) \/ RenameFails(s)
  \/ SnapshotRestart

SnapshotSpec == SnapshotInit /\ [][SnapshotNext]_snapshotVars
-----------------------------------------------------------------------------
\* The fields of the model; a saver has a file open exactly between its open
\* and its write, whichever way the save ends (WriteFile closes it).
SnapshotTypeOK ==
  /\ version \in 0..MaxVersion /\ acked \in 0..MaxVersion
  /\ pc \in [Savers -> {"idle", "taken", "open", "written"}]
  /\ copy \in [Savers -> 0..MaxVersion]
  /\ fd \in [Savers -> Inodes \cup {NoInode}]
  /\ \A s \in Savers : fd[s] # NoInode <=> pc[s] = "open"
  /\ tmp \in Inodes \cup {NoInode} /\ file \in Inodes \cup {NoInode}
  /\ data \in [Inodes -> [ver : 0..MaxVersion, len : Nat]]

\* At any moment a crash would lose nothing whose save has already succeeded:
\* the state file is whole and at least as new as every finished save.
SavesSurvive == Loaded >= acked

\* What a crash took from memory does not come back later: a temporary file
\* left behind by a dead process is never what a restart loads, even when
\* saves overlap (every rename follows an open that truncates).
NoResurrection == Loaded <= version

\* A save is atomic: whatever fails and wherever the process ends, the state
\* file holds the state of the last rename, which was the current one.
Atomic == INSTANCE AtomicSave WITH state <- version, saved <- Loaded

ImplementsAtomicSave == Atomic!Spec
=============================================================================
