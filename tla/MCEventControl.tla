--------------------------- MODULE MCEventControl ---------------------------
(* An instance of EventControl for TLC: the rising edge of a, any change of *)
(* a or b, a named event, and an "or" event of the edge and the named one.  *)
EXTENDS EventControl

MCSignals == {"a", "b"}
MCEvents  == {"rise", "any", "named", "both"}
MCKind ==
    [rise |-> "posedge", any |-> "edge", named |-> "named", both |-> "or"]
MCInputs ==
    [rise |-> {"a"}, any |-> {"a", "b"}, named |-> {}, both |-> {"rise", "named"}]
=============================================================================
