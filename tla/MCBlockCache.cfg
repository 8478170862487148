SPECIFICATION Spec
CONSTANTS
    Sector = {s1, s2, s3}
    EntryCount = 2
    Value = {a, b}
    Zeroed = Zeroed
    MaxGeneration = 2
    MaxPins = 1
SYMMETRY SectorsAndValuesAlike
INVARIANTS
    IInv
    DirtyEntryCovers
    DurableResultHonest
PROPERTIES
    ImplementsOrderedDisk
