----------------------------- MODULE MCInventory -------------------------------
(***************************************************************************)
(* Instances of Inventory for TLC: one root with two versions of a tool at  *)
(* one place, and two roots with one tool.                                  *)
(***************************************************************************)
EXTENDS Inventory, TLC

CONSTANTS r1, r2, env, env2

Environment ==
    [type |-> "conda-env", scoped |-> FALSE, protected |-> FALSE, regenerable |-> TRUE,
     confidence |-> 85, size |-> 3, reclaimable |-> 0,
     evidence |-> {}]

Output ==
    [type |-> "build-output", scoped |-> TRUE, protected |-> FALSE, regenerable |-> TRUE,
     confidence |-> 75, size |-> 2, reclaimable |-> 0,
     evidence |-> CleanupFacts]

Repository == [Bare EXCEPT !.git = TRUE]
App        == [git |-> TRUE, build |-> TRUE, needs |-> {env}, output |-> Output, members |-> {r1}]
Solution   == [Bare EXCEPT !.git = TRUE, !.members = {r1}]

OneVersion  == {env}
Versions    == {env, env2}
\* Two detectors: one of them finds nothing.
OfVersions  == {Versions, {}}
OfOne       == {OneVersion}
OnePlace    == [t \in Versions |-> "envs"]
Conda       == [t \in Tools |-> Environment]
All         == {{r1}}
Each        == {{r1}, {r2}}
Turning     == {Repository, App, Solution}
Plain       == {Repository, App}

AllFaults   == {"edit", "upgrade", "db", "walk", "crash"}
NoFaults    == {}
Symmetry    == Permutations(Scans)
==============================================================================
