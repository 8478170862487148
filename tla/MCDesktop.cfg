SPECIFICATION Spec
CONSTANTS
    Width = 4
    Height = 3
    Windows = {0, 1, 2}
    GenerationLimit = 2
    PointerSize = 1
    Viewers = {"doc"}
    Bounds <- Placement
    Events <- Reports
    Spots <- MoveTo
    QueueCapacity = 2
    GuiLine = 1
    LineLimit = 1
    Configurations <- Boots
INVARIANTS
    ScreenConsistent
    ViewsHoldTheirOwn
    CommandLineRecovers
PROPERTIES
    DesktopGivesWay
