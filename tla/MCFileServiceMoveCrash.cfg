SPECIFICATION Spec
CONSTANTS
    LastCluster = 4
    Slots = 4
    FatEntriesPerSector = 4
    Base = {a, b}
    Ext = {x}
    Tag = {t}
    MaxFileClusters = 1
    MaxOperations = 5
    MaxFaults = 1
    MovesInterrupted = TRUE
SYMMETRY Alike
INVARIANTS LiveNotFree
