SPECIFICATION Spec
CONSTANTS
    Delays = {0, 1}
    MaxEvents = 2
    MaxStops = 0
    MaxRequests = 2
INVARIANTS
    StartsKept
