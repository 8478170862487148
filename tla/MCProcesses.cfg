SPECIFICATION Spec
CONSTANTS
    PageCount = 34
    StatesPerPage = 16
    Maps <- FirmwareMaps
    UsableSizes = {3, 8, 16, 25, 31}
    ReclaimableSize = 1
    ModuleTables <- Tables
    Slot = {1, 2}
    TaskCapacity = 2
    UserStack <- Stack
    KernelStackPages = 2
    FatSizes = {2}
INVARIANTS
    AllocatorSound
    MemoryReturned
    ActiveIsLive
PROPERTIES
    BootEnds
