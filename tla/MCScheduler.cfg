SPECIFICATION Spec
CHECK_DEADLOCK FALSE
CONSTANTS
    MaxTasks = 3
    MaxPriority = 2
    Queue = {q, r}
    NoQueue = NoQueue
    MaxWakes = 2
    MayExit = TRUE
INVARIANTS
    TasksConsistent
    ExitFinished
PROPERTIES
    RunnableProcessRuns
