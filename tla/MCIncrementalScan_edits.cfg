SPECIFICATION FairSpec
CONSTANTS
    Roots = {r1, r2}
    Contents = {Empty, a, b, c}
    Empty = Empty
    Scans = {s1}
    None = None
    Home <- NoHome
    Faults <- Unreadable
PROPERTIES
    IndexConverges
    ScansCease
