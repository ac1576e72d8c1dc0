SPECIFICATION StructuresSpec
CONSTANTS
    MaxCallbacks = 4
    MaxDepth = 3
    RemoveSimulator = FALSE
    NestedReap = FALSE
    Links = {1, 2, 3, 4}
    Sort <- MCSort
CHECK_DEADLOCK FALSE
INVARIANTS
    NoDangling
    NoneLost
    WalkComplete
    ModeRight
    TreeIsMap
    RingsAreNets
    ResolvesRight
    QueueRight
    ConstantsRight
    VectorsRight
