SPECIFICATION ThreadsSpec
CONSTANTS
    MaxThreads = 6
    MaxStatements = 4
    TaskForks = FALSE
    DisableDetached = FALSE
    Signals <- MCSignals
    Events <- MCEvents
    Kind <- MCKind
    Inputs <- MCInputs
    Values = {"0", "1"}
    Waiters = {"waiting"}
    Awaited = {"any", "both"}
    Controlled = {"rise", "any", "both"}
    MaxControls = 2
    MaxCount = 2
CHECK_DEADLOCK FALSE
INVARIANTS
    TypesOK
    QueuedOnce
    HandlesLive
    FamilyAgrees
    NoLostWakeUp
    OwnContext
    ContextsConserved
    ControlsKept
    WaitersWoken
    LatestSeen
PROPERTIES
    EndsAll
    InOrder
