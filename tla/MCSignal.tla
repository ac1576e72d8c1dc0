------------------------------ MODULE MCSignal ------------------------------
(* A wire and a variable that are forced again.                            *)
EXTENDS Signal

MCKinds ==
    {[type |-> "vec4", reg |-> TRUE], [type |-> "vec4", reg |-> FALSE],
     [type |-> "real", reg |-> TRUE]}
=============================================================================
