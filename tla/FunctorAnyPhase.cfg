SPECIFICATION Spec
CONSTANTS
    Networks <- MCShift
    Phases = {"any"}
    MaxQueue = 2
INVARIANTS
    StoresRight
