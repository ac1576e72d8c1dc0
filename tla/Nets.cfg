SPECIFICATION NetsSpec
CONSTANTS
    Nodes <- MCNodes
    Delays = {0, 1, 2}
    MaxTime = 3
    MaxInputs = 3
    MaxRaces <- MCMaxRaces
    SrcList <- MCSrcList
    IfNoneList <- MCIfNoneList
    EdgeOf <- MCEdgeOf
    DelayOf <- MCDelayOf
    PathWidth = 1
    MaxPathTime = 5
    MaxChanges = 4
    Kinds <- MCKinds
    SignalWidth = 2
    BitValues = {"0", "1"}
    Linkable = {"b", "c"}
    Moving = {"b"}
    Reforce = FALSE
CHECK_DEADLOCK FALSE
INVARIANTS
    TypesOK
    OutputFollows
    CandidatesRight
    NeverLate
    SeenIsValue
    LastForceHolds
    Settled
    StoresRight
    UdpFollowsTable
PROPERTIES
    PulsesRejected
