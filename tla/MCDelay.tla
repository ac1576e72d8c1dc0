------------------------------ MODULE MCDelay ------------------------------
(* Delay with one bit, for more values than one at the time of an event.   *)
EXTENDS Delay

MCOneBit == {[kind |-> "vec4", width |-> 1, vary |-> FALSE]}
MCMoreRaces == [vec4 |-> 2, real |-> 0]
=============================================================================
