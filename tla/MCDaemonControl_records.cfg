SPECIFICATION FairSpec
CONSTANTS
    Pids = {d1, d2}
    Clis = {c1}
    NoFile = NoFile
    NoPid = NoPid
    StaleAfter = 1
    Faults <- AllFaults
INVARIANTS
    TypeOK
    StopLeavesNoRecord
PROPERTIES
    RunningIsRecorded
    DeadRecordExpires
