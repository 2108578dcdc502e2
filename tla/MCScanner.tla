----------------------------- MODULE MCScanner -------------------------------
(***************************************************************************)
(* Instances of ParallelScanner for TLC: small directory trees.             *)
(***************************************************************************)
EXTENDS ParallelScanner

\* Two roots, one of them with a directory on the depth limit and one below.
TwoRoots == {"r", "s"}
Tree ==
    [d \in Dirs |-> CASE d = "r" -> {"ra", "rb"} [] d = "ra" -> {"raa"}
                      [] OTHER -> {}]
TreeDepth ==
    [d \in Dirs |-> CASE d \in {"r", "s"} -> 0 [] d \in {"ra", "rb"} -> 1
                      [] OTHER -> 2]

AllFaults == FaultKinds
==============================================================================
