SPECIFICATION SignalSpec
CONSTANTS
    Kinds <- MCKinds
    SignalWidth = 2
    BitValues = {"0", "1"}
    Linkable = {"b", "c"}
    Moving = {"b"}
    Reforce = TRUE
INVARIANTS
    LastForceHolds
