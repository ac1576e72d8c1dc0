SPECIFICATION Spec
CONSTANTS
    MaxThreads = 5
    MaxStatements = 4
    TaskForks = FALSE
    DisableDetached = TRUE
CHECK_DEADLOCK FALSE
INVARIANTS
    NoLostWakeUp
