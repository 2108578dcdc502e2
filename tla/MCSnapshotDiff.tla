--------------------------- MODULE MCSnapshotDiff -----------------------------
(***************************************************************************)
(* An instance of SnapshotDiff for TLC: four paths, of which one is below   *)
(* another root.                                                            *)
(***************************************************************************)
EXTENDS SnapshotDiff

FourPaths == {"a", "b", "c", "d"}
TwoRoots  == [p \in Paths |-> IF p = "d" THEN "s" ELSE "r"]
SmallStates ==
    {[size |-> 1, modified |-> 1], [size |-> 2, modified |-> 1], [size |-> 1, modified |-> 2]}
==============================================================================
