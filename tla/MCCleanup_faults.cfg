SPECIFICATION FairSpec
CONSTANTS
    N = 2
    M = 2
    ManifestOf <- OwnManifest
    Txs = {t1}
    NoTx = NoTx
    Procs = {p1}
    Retention = 1
    MaxTime = 2
    Faults <- AllFaults
INVARIANTS
    TypeOK
    ManifestCovers
    RecordSound
PROPERTIES
    FinalRecordsStick
    CommandsEnd
