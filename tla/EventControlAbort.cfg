SPECIFICATION EventSpec
CONSTANTS
    Signals <- MCSignals
    Events <- MCEvents
    Kind <- MCKind
    Inputs <- MCInputs
    Awaited <- MCEvents
    Controlled <- MCEvents
    Values = {"0", "1"}
    Waiters = {t1}
    MaxControls = 2
    MaxCount = 2
CHECK_DEADLOCK FALSE
INVARIANTS
    NotAborted
