SPECIFICATION Spec
CONSTANTS
    Nodes <- MCOneBit
    Delays = {0, 1, 2}
    MaxTime = 3
    MaxInputs = 4
    MaxRaces <- MCMoreRaces
CHECK_DEADLOCK FALSE
PROPERTIES
    SkipsRepeats
