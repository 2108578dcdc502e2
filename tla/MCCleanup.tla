------------------------------ MODULE MCCleanup ------------------------------
(***************************************************************************)
(* Instances of Cleanup for TLC.                                            *)
(***************************************************************************)
EXTENDS CleanupProperties, TLC

\* One manifest per item, as for items with different parents on Unix.
OwnManifest == [i \in Items |-> i]

\* One manifest for all, as for items of one Windows volume or one parent.
SharedManifest == [i \in Items |-> 1]

AllFaults == {"crash", "db", "io", "tamper"}
IoOnly    == {"io"}

ProcSymmetry == Permutations(Procs)
==============================================================================
