SPECIFICATION Spec
CONSTANTS
    N = 2
    M = 1
    ManifestOf <- SharedManifest
    Txs = {t1}
    NoTx = NoTx
    Procs = {p1, p2}
    Retention = 1
    MaxTime = 1
    Faults <- IoOnly
SYMMETRY ProcSymmetry
INVARIANTS
    ClosedIsEmpty
    RowMatchesDisk
PROPERTIES
    StoreSpec
