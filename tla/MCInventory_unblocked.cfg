SPECIFICATION Spec
CONSTANTS
    r1 = r1
    r2 = r2
    env = env
    env2 = env2
    Roots = {r1, r2}
    Tools <- OneVersion
    Place <- OnePlace
    Detectors <- OfOne
    ToolReport <- Conda
    Contents <- Plain
    Scans = {s1, s2}
    Selections <- Each
    None = None
    MaxTime = 0
    Days = 1
    Faults <- NoFaults
SYMMETRY Symmetry
INVARIANT RequiredIsBlocked
