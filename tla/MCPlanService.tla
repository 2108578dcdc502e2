---------------------------- MODULE MCPlanService ------------------------------
(***************************************************************************)
(* An instance of PlanService for TLC: two roots and no tools, which are    *)
(* never SAFE.                                                              *)
(***************************************************************************)
EXTENDS PlanService

CONSTANTS r1, r2

Building(size, evidence) ==
    [Bare EXCEPT !.build = TRUE,
                 !.output = [type |-> "build-output", scoped |-> TRUE, protected |-> FALSE,
                             regenerable |-> TRUE, confidence |-> 75, size |-> size,
                             reclaimable |-> 0, evidence |-> evidence]]

Small    == Building(2, CleanupFacts)
Large    == Building(3, CleanupFacts)
Unproven == Building(3, CleanupFacts \ {"GitTrackedOriginalsAbsent"})

Nowhere      == [t \in {} |-> None]
Nothing      == {{}}
Kinds        == {Small, Large, Unproven}
Single       == {{r1}, {r2}}
Everything   == {Roots}
Goals        == {0, 2}
InOrder      == [x \in Resources |-> IF x = r1 THEN 1 ELSE 2]
PlanSymmetry == Permutations(Scans)
==============================================================================
