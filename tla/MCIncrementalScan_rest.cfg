SPECIFICATION Spec
CONSTANTS
    Roots = {r1, r2}
    Contents = {Empty, a}
    Empty = Empty
    Scans = {s1, s2}
    None = None
    Home = r1
    Faults <- Meddling
SYMMETRY ScanSymmetry
INVARIANTS
    TypeOK
    UntouchedRootsRest
