SPECIFICATION FairSpec
CONSTANTS
    Delays = {0, 1, 2}
    MaxEvents = 3
    MaxStops = 2
    MaxRequests = 3
INVARIANTS
    IInv
    RunsOnTime
    CellsInOrder
    NoEventLost
    ReadOnlyLast
PROPERTIES
    ImplementsAgenda
    
    EveryEventRuns
