SPECIFICATION Spec
CONSTANTS
    Paths <- FourPaths
    States <- SmallStates
    Gone = Gone
    NoPath = NoPath
    RootOf <- TwoRoots
INVARIANTS
    RootsAreRight
    EventsAccount
    RenamesDoNotDepend
