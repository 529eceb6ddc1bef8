----------------------------- MODULE AtomicSave -----------------------------
(***************************************************************************)
(* What saving a component's state promises: a save installs the current   *)
(* state at once, nothing else changes what is saved, and a restart        *)
(* continues from it.  SnapshotFile implements it when saves are made      *)
(* under the component's lock.  A state is the number of changes made.     *)
(***************************************************************************)
EXTENDS Naturals

CONSTANT MaxVersion   \* bound: changes of the state

VARIABLES state,   \* the state in memory
          saved    \* the state a restart will load

saveVars == <<state, saved>>

Init == state = 0 /\ saved = 0

Change == /\ state < MaxVersion
          /\ state' = state + 1
          /\ UNCHANGED saved

Save == saved' = state /\ UNCHANGED state

Restart == state' = saved /\ UNCHANGED saved

Next == Change \/ Save \/ Restart

Spec == Init /\ [][Next]_saveVars
=============================================================================
