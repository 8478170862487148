SPECIFICATION Spec
CHECK_DEADLOCK FALSE
CONSTANTS
    MaxLun = 1
    Machines <- MachinesThereMayBe
    Images <- ImagesThereMayBe
    Requested <- CallsMade
    NoValue = NoValue
    MaxLapses = 1
    QueueCapacity = 2
    MaxCalls = 2
INVARIANTS
    RequestsAccounted
    PublishedIsEligible
PROPERTIES
    ImplementsBlockDevice
    CallReturns
