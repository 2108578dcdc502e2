SPECIFICATION Spec
CONSTANTS
    Names <- AllNames
    Extension <- Endings
    Hidden <- Dotted
    GenericEnvNames <- Generic
    Lower <- LowerCase
    SystemManaged <- System
    Worlds <- AllWorlds
INVARIANTS
    VisitOrderIsFree
    MarkersAreAnswered
    MembersShareTheLockfile
    SafeIsUntracked
    SafeIsVouchedFor
    NeededToolsAreBlocked
CHECK_DEADLOCK FALSE
