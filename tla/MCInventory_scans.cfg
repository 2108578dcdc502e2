SPECIFICATION Spec
CONSTANTS
    r1 = r1
    r2 = r2
    env = env
    env2 = env2
    Roots = {r1}
    Tools <- Versions
    Place <- OnePlace
    Detectors <- OfVersions
    ToolReport <- Conda
    Contents <- Turning
    Scans = {s1, s2}
    Selections <- All
    None = None
    MaxTime = 0
    Days = 1
    Faults <- AllFaults
SYMMETRY Symmetry
INVARIANTS
    TypeOK
    NoTwins
    Grounded
    VerdictStands
    StatusTellsIssues
    ForeignKeysHold
