SPECIFICATION Spec
CONSTANTS
    Capacity = 2
    Width = 2
    Height = 2
    RingUnits = 8
    Versions <- GuestVersions
    HostVersions = {1, 2}
    Devices <- InputDevices
    OfferSets <- OfferedDevices
    Greeting <- Greetings
    Reply <- Replies
    Faults = 2
    Platforms = {"ps2", "hyperv"}
    Keys = {"shift_l", "shift_r", "caps", "pause", "print"}
    MouseReports <- MouseMoves
    LogicalMaximum = 1
    MaxReports <- ReportBounds
    TickPoints = {"status", "poll", "pop"}
CHECK_DEADLOCK FALSE
INVARIANTS
    DevicesSetUp
    InputFaithful
PROPERTIES
    QueueIsFifo
    ReportsTaken
