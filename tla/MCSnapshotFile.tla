--------------------------- MODULE MCSnapshotFile ---------------------------
(* Two savers and states whose JSON grows and shrinks again (a balance is    *)
(* paid, an event is trimmed).  Two savers never hold more than one file     *)
(* open besides the two that have names, so three files are enough.          *)
EXTENDS SnapshotFile, TLC

MCSize == [v \in 0..MaxVersion |-> IF v = 1 THEN 2 ELSE 1]
Symmetry == Permutations(Savers) \cup Permutations(Inodes)
=============================================================================
