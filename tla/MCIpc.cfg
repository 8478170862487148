SPECIFICATION Spec
CONSTANTS
    Process = {p1, p2}
    NoProcess = NoProcess
    MaxEndpoints = 2
    MaxDepth = 2
    HandleCapacity = 2
    CounterMask = 2
    Service = {shell}
    ReducedRights <- SendOnly
    MaxRequests = 2
    MaxCloses = 1
    MaxGeneration = 3
SYMMETRY Alike
CHECK_DEADLOCK FALSE
INVARIANTS
    NoMessageMissed
    ReferencesCounted
    StaleHandleRefused
    SessionCurrent
