SPECIFICATION Spec
CONSTANTS
    LastCluster = 4
    Slots = 4
    Levels = 3
    ViewCapacity = 2
    SearchCapacity = 1
    ReplyCapacity = 2
    MaxReplyPages = 6
    Ext = {"t"}
    Operand <- MCOperand
    RenameTo <- MCRenameTo
    Disk <- MCDisk
    EntryCapacity = 2
    HistoryCapacity = 1
    Columns = 1
    Rows = 1
    StripRows = 1
    DesktopFrom <- MCDesktopFrom
INVARIANTS
    DirectoriesSound
    ViewsComplete
    CurrentBound
    WindowAgrees
PROPERTIES
    NoNewCollision
    
