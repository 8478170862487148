SPECIFICATION Spec
CONSTANTS
    LastCluster = 5
    Slots = 4
    FatEntriesPerSector = 4
    Base = {a, b}
    Ext = {x}
    Tag = {t}
    MaxFileClusters = 2
    MaxOperations = 4
    MaxFaults = 2
    MovesInterrupted = FALSE
SYMMETRY Alike
INVARIANTS
    OldOrNew
    SuccessIsDurable
    ClustersOwned
