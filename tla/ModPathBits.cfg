SPECIFICATION PathSpec
CONSTANTS
    SrcList <- MCOneSource
    IfNoneList <- MCNoIfNone
    EdgeOf <- MCEdgeOf
    DelayOf <- MCDelayOf
    PathWidth = 2
    MaxPathTime = 4
    MaxChanges = 3
CHECK_DEADLOCK FALSE
PROPERTIES
    BitsAgree
