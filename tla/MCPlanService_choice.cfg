SPECIFICATION PlanSpec
CONSTANTS
    r1 = r1
    r2 = r2
    Roots = {r1, r2}
    Tools = {}
    Place <- Nowhere
    Detectors <- Nothing
    ToolReport <- Nowhere
    Contents <- Kinds
    Scans = {s1, s2}
    Selections <- Single
    None = None
    MaxTime = 31
    Days = 31
    Faults = {}
    Targets <- Goals
    Scopes <- Everything
    Rank <- InOrder
SYMMETRY PlanSymmetry
INVARIANTS
    PlanMeetsTarget
    PlanIsProven
    PlanMissesNothing
