SPECIFICATION Spec
CONSTANTS
    Capacity = 2
    Width = 2
    Height = 2
    RingUnits = 8
    Versions <- GuestVersions
    HostVersions = {1, 2}
    Devices <- InputDevices
    OfferSets <- OfferedDevices
    Greeting <- Greetings
    Reply <- Replies
    Faults = 0
    Platforms = {"hyperv"}
    Keys = {"caps"}
    MouseReports <- MouseMoves
    LogicalMaximum = 1
    MaxReports <- ReportBounds
    TickPoints = {"status", "data", "poll", "copy", "publish", "handle", "pop"}
INVARIANTS
    RepeatsAreReal
CHECK_DEADLOCK FALSE
