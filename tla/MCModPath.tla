----------------------------- MODULE MCModPath -----------------------------
(* An instance of ModPath for TLC: one path for a vector of two bits.      *)
EXTENDS ModPath

MCOneSource == <<1>>
MCNoIfNone == <<>>

MCEdgeOf == [s \in PathInputs |-> "any"]

(* Rising bits take longer than all others. *)
MCDelayOf == [s \in PathInputs |-> [e \in Edges |-> IF e[2] = "1" THEN 2 ELSE 1]]
=============================================================================
