------------------------------- MODULE MCNets -------------------------------
(***************************************************************************)
(* The parts of the run time that carry values from a driver to a reader,  *)
(* each checked by itself: a net delay (Delay), a module path (ModPath), a *)
(* signal (Signal), gates and registers (Functor), a primitive (Udp).      *)
(* They share no state; a behaviour belongs to one of them.                *)
(***************************************************************************)
EXTENDS Delay, ModPath, Signal

VARIABLES
    part,                                               \* the part that acts
    net, phase, functors, cap,
    table, udpIn, udpOut, pending, shown, told

functorVars == <<net, phase, functors, cap>>
udpVars     == <<table, udpIn, udpOut, pending, shown, told>>
netsVars    == <<part, vars, pathVars, signalVars, functorVars, udpVars>>

-----------------------------------------------------------------------------
(* One bit with variable delays, two bits whose transitions have different *)
(* delays, and a real; the output of a real is only right when none        *)
(* arrives while an event is due.                                          *)
MCNodes ==
    { [kind |-> "vec4", width |-> 1, vary |-> TRUE],
      [kind |-> "vec4", width |-> 2, vary |-> FALSE],
      [kind |-> "real", width |-> 1, vary |-> TRUE] }
MCMaxRaces == [vec4 |-> 1, real |-> 0]

(* Two ordinary paths, the second for the rising edge of its input, and    *)
(* two ifnone paths; all other transitions take the shorter of two delays. *)
MCSrcList    == <<1, 2>>
MCIfNoneList == <<3, 4>>
MCEdgeOf == [s \in 1..4 |-> IF s = 2 THEN "pos" ELSE "any"]
Rise == <<2, 1, 1, 2>>
Fall == <<1, 3, 2, 1>>
MCDelayOf ==
    [s \in 1..4 |-> [e \in Edges |->
        IF e[2] = "1" THEN Rise[s] ELSE IF e[2] = "0" THEN Fall[s]
        ELSE Min({Rise[s], Fall[s]})]]

MCKinds ==
    {[type |-> "vec4", reg |-> TRUE], [type |-> "vec4", reg |-> FALSE],
     [type |-> "vec8", reg |-> FALSE],
     [type |-> "real", reg |-> TRUE], [type |-> "real", reg |-> FALSE]}

Circuits == INSTANCE Networks
Fun == INSTANCE Functor WITH
    Networks <- Circuits!All, Phases <- {"0", "1"}, MaxQueue <- 2, f <- functors

Examples == INSTANCE Primitives
Prim == INSTANCE Udp WITH
    Tables <- Examples!All, MaxPending <- 3,
    cur <- udpIn, out <- udpOut, want <- told

-----------------------------------------------------------------------------
Parts == {"delay", "path", "signal", "functor", "primitive"}

(* The parts that do not act are in one of their initial states.  A node   *)
(* with the longer rise delay does the same with 0 and 1 exchanged.        *)
NetsInit ==
    /\ part \in Parts
    /\ Init
    /\ IF part = "delay" THEN VaryDelays \/ rise < fall
       ELSE shape.kind = "real" /\ ~ ignoreDecay
    /\ PathInit
    /\ SignalInit
    /\ part # "signal" => kind = [type |-> "real", reg |-> FALSE]
    /\ Fun!Init
    /\ part # "functor" => net = Circuits!Crossed /\ phase = "0"
    /\ Prim!Init
    /\ part # "primitive" => table = Examples!Latch

NetsNext ==
    \/ part = "delay" /\ Next
       /\ UNCHANGED <<part, pathVars, signalVars, functorVars, udpVars>>
    \/ part = "path" /\ PathNext
       /\ UNCHANGED <<part, vars, signalVars, functorVars, udpVars>>
    \/ part = "signal" /\ SignalNext
       /\ UNCHANGED <<part, vars, pathVars, functorVars, udpVars>>
    \/ part = "functor" /\ Fun!Next
       /\ UNCHANGED <<part, vars, pathVars, signalVars, udpVars>>
    \/ part = "primitive" /\ Prim!Next
       /\ UNCHANGED <<part, vars, pathVars, signalVars, functorVars>>

NetsSpec == NetsInit /\ [][NetsNext]_netsVars

-----------------------------------------------------------------------------
(* The type invariants of the parts, those of delays, paths and signals    *)
(* with the invariants that DelayProofs and SignalProofs prove.            *)
TypesOK ==
    /\ part \in Parts
    /\ FollowInv
    /\ PathInv
    /\ SignalInv
    /\ part = "functor" => Fun!TypeOK

(* The properties of the other parts, stated in their modules:             *)
(* gates settle and registers capture (logic.cc, part.cc, dff.cc,          *)
(* latch.cc),                                                              *)
Settled         == part = "functor" => Fun!Settled
StoresRight     == part = "functor" => Fun!StoresRight
(* a primitive does what its table says (udp.cc).                          *)
UdpFollowsTable == part = "primitive" => Prim!UdpFollowsTable
=============================================================================
