SPECIFICATION FairSpec
CONSTANTS
    Dirs = {"r", "s", "ra", "rb", "raa"}
    NoDir = NoDir
    Roots <- TwoRoots
    Subdirs <- Tree
    Depth <- TreeDepth
    MaxDepth = 2
    Workers = {w1, w2}
    Faults <- AllFaults
INVARIANTS
    ActiveCounts
    ScannedOnce
    Complete
    ExactlyInDepth
    NoLeak
PROPERTIES
    ScanReturns
