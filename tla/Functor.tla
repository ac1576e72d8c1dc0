------------------------------ MODULE Functor ------------------------------
(***************************************************************************)
(* Functors of the vvp run time that hold back their output until an event *)
(* runs: gates (logic.cc) and constant part selects (part.cc) ask for one  *)
(* event at a time, flip-flops (dff.cc) and latches (latch.cc) for an      *)
(* event that carries the new value.  bufz passes its input on at once.    *)
(* Sending is a nested call of the receivers, in the order of the fan-out. *)
(*                                                                         *)
(* A net is one bit wide.  The threads that change variables are the       *)
(* environment.                                                            *)
(***************************************************************************)
EXTENDS Integers, Sequences, SequencesExt, FiniteSets

CONSTANTS
    Networks,   \* [type : node -> type, fan : node -> Seq(<<node, port>>),
                \*  bare : the nodes without a name, and so without a filter]
    Phases,     \* values of its clock at which the enable and the
                \* asynchronous input of a flip-flop may change; or "any"
    MaxQueue    \* the environment acts only when fewer events wait

VARIABLES
    net,        \* the network
    phase,      \* one of Phases
    f,          \* what the functors remember, the active events (queue) and
                \* those of non-blocking assignments (later)
    cap         \* auxiliary: what a register should hold

vars == <<net, phase, f, cap>>

Bits == {"0", "1", "x"}
Functors == DOMAIN net.type
OfType(types) == {g \in Functors : net.type[g] \in types}
Sources == OfType({"var"})
Gates == OfType({"and", "nand", "buf", "not", "part", "mux"})
Registers == OfType({"dff", "dff_aclr", "dff_aset", "latch"})

(* The node that drives a port: its last link; a port may be unconnected. *)
Drives(d, g, i) == <<g, i>> \in ToSet(net.fan[d])
Driver(g, i) == CHOOSE d \in Functors : Drives(d, g, i)
Driven(g, i) == \E d \in Functors : Drives(d, g, i)

-----------------------------------------------------------------------------
(* The four-valued functions of run_run. *)
AndOf(bits) == IF "0" \in bits THEN "0" ELSE IF bits = {"1"} THEN "1" ELSE "x"
NotOf(b) == CASE b = "0" -> "1" [] b = "1" -> "0" [] OTHER -> "x"
SelectOf(b) == IF b \in {"0", "1"} THEN b ELSE "both"
MuxOf(a, b, sel) ==
    CASE sel = "0" -> a [] sel = "1" -> b
      [] OTHER -> IF a = b THEN a ELSE "x"

Output(g, in) ==
    CASE net.type[g] = "and"  -> AndOf({in[0], in[1]})
      [] net.type[g] = "nand" -> NotOf(AndOf({in[0], in[1]}))
      [] net.type[g] = "not"  -> NotOf(in[0])
      [] net.type[g] = "buf"  -> IF in[0] = "z" THEN "x" ELSE in[0]
      [] net.type[g] = "part" -> in[0]
      [] net.type[g] = "mux"  -> MuxOf(in[0], in[1], SelectOf(in[2]))

-----------------------------------------------------------------------------
(* schedule_functor, unless the functor waits for an event already. *)
Flagged(t, g) ==
    IF g \in t.pend THEN t
    ELSE [t EXCEPT !.pend = @ \cup {g}, !.queue = Append(@, [op |-> "run", of |-> g])]

(* schedule_propagate_vector, an event of the non-blocking assignments. *)
Later(t, g, v) == [t EXCEPT !.later = Append(@, [op |-> "send", of |-> g, bit |-> v])]

Kept(t, g, i, v) == [t EXCEPT !.in[g][i] = v]

(* recv_vec4 of the gates and of a part select. *)
GateRecv(t, g, i, v) ==
    IF t.in[g][i] = v THEN t ELSE Flagged(Kept(t, g, i, v), g)

(* vvp_fun_muxz::recv_vec4. *)
MuxRecv(t, g, i, v) ==
    LET sel == SelectOf(t.in[g][2])
    IN  CASE i = 2 /\ SelectOf(v) = sel /\ (sel # "both" \/ g \in t.told) -> t
          [] i # 2 /\ t.in[g][i] = v /\ g \in t.told -> t
          [] (i = 0 /\ sel = "1") \/ (i = 1 /\ sel = "0") -> Kept(t, g, i, v)
          [] OTHER -> Flagged(Kept(t, g, i, v), g)

AsyncValue(g) == IF net.type[g] = "dff_aset" THEN "1" ELSE "0"

RECURSIVE Deliver(_, _, _)
(* vvp_net_t::send_vec4: each port of the fan-out in turn, unless the     *)
(* filter of a named net finds nothing new.                               *)
Send(t, g, v) ==
    IF g \notin net.bare /\ g \in t.told /\ t.sent[g] = v THEN t
    ELSE FoldLeft(LAMBDA u, p : Deliver(u, p, v),
                  [t EXCEPT !.sent[g] = v, !.told = @ \cup {g}], net.fan[g])

(* Mutant: the output changes before the other receivers see the clock.    *)
DffRecvAtOnce(t, g, i, v) ==
    LET k == Kept(t, g, i, v)
        old == t.in[g][i]
        off == t.in[g][3] # "0" \/ t.in[g][2] # "1"
    IN  CASE i = 1 /\ off -> t
          [] i = 1 /\ ~ off /\ v = "1" /\ old # "1" -> Send(k, g, t.in[g][0])
          [] i = 3 /\ v = "1" /\ old # "1" -> Later(k, g, AsyncValue(g))
          [] i = 3 /\ v # "1" /\ old = "z" -> Send(k, g, "x")
          [] OTHER -> k

(* vvp_dff::recv_vec4; port 3 of a plain one gets a 0 at the beginning. *)
DffRecv(t, g, i, v) ==
    LET k == Kept(t, g, i, v)
        old == t.in[g][i]
        off == t.in[g][3] # "0" \/ t.in[g][2] # "1"
    IN  CASE i = 1 /\ off -> t
          [] i = 1 /\ ~ off /\ v = "1" /\ old # "1" -> Later(k, g, t.in[g][0])
          [] i = 3 /\ v = "1" /\ old # "1" -> Later(k, g, AsyncValue(g))
          [] i = 3 /\ v # "1" /\ old = "z" -> Send(k, g, "x")
          [] OTHER -> k

(* vvp_latch::recv_vec4. *)
LatchRecv(t, g, i, v) ==
    LET k == Kept(t, g, i, v)
    IN  CASE i = 0 /\ t.in[g][1] = "1" -> Later(k, g, v)
          [] i = 1 /\ v = "1" /\ t.in[g][1] # "1" -> Later(k, g, t.in[g][0])
          [] i = 3 -> Send(k, g, "x")
          [] OTHER -> k

Deliver(t, p, v) ==
    LET g == p[1]
        i == p[2]
    IN  CASE net.type[g] \in {"and", "nand", "buf", "not", "part"} -> GateRecv(t, g, i, v)
          [] net.type[g] = "mux" -> MuxRecv(t, g, i, v)
          [] net.type[g] = "bufz" -> Send(Kept(t, g, 0, v), g, v)
          [] net.type[g] = "latch" -> LatchRecv(t, g, i, v)
          [] net.type[g] \in {"dff", "dff_aclr", "dff_aset"} -> DffRecv(t, g, i, v)

(* Mutant: the flag is cleared when the value has been sent.               *)
RunLate(t, g) ==
    LET u == Send(t, g, Output(g, t.in[g]))
    IN  [u EXCEPT !.pend = @ \ {g}]

(* run_run: the functor may be told again by what it sends. *)
Run(t, g) ==
    Send([t EXCEPT !.pend = @ \ {g}], g, Output(g, t.in[g]))

-----------------------------------------------------------------------------
(* vvp_gen_event_s::run_run and its like: the next event. *)
Step(t) ==
    LET e == Head(t.queue)
        u == [t EXCEPT !.queue = Tail(@)]
    IN  CASE e.op = "run"  -> Run(u, e.of)
          [] e.op = "send" -> Send(u, e.of, e.bit)
          [] e.op = "recv" -> Deliver(u, <<e.of, 3>>, e.bit)

Quiet == f.queue = <<>> /\ f.later = <<>>

(* Non-blocking assignments become active when no other event is. *)
Promoted(t) ==
    IF t.queue = <<>> THEN [t EXCEPT !.queue = t.later, !.later = <<>>] ELSE t

RECURSIVE Drained(_)
Drained(t) == IF t.queue = <<>> THEN t ELSE Drained(Step(t))

(* What compile_variable, compile_dff and compile_latch schedule for the   *)
(* beginning; the simulation starts when these events have run.            *)
InitEvents ==
    {[op |-> "send", of |-> g, bit |-> "x"] : g \in Sources} \cup
    {[op |-> "recv", of |-> g, bit |-> IF net.type[g] = "dff" THEN "0" ELSE "1"] :
        g \in OfType({"dff", "latch"})}

Init ==
    /\ net \in Networks
    /\ phase \in Phases
    /\ f = Drained(
           [in |-> [g \in Functors |->
                    IF g \in Registers THEN [i \in 0..3 |-> IF i = 3 THEN "z" ELSE "x"]
                    ELSE [i \in 0..2 |-> "z"]],
            sent |-> [g \in Functors |-> "x"], pend |-> {}, told |-> {},
            queue |-> SetToSeq(InitEvents), later |-> <<>>])
    /\ cap = [g \in Registers |-> "x"]

(* What the registers should hold after a step, told by the nets that      *)
(* drive them and not by what they remember of them.                       *)
Rises(g, i, t) ==
    Driven(g, i) /\ f.sent[Driver(g, i)] # "1" /\ t.sent[Driver(g, i)] = "1"
Is(g, i, t, v) == Driven(g, i) /\ t.sent[Driver(g, i)] = v

Captured(g, t) ==
    IF net.type[g] = "latch"
    THEN IF Is(g, 1, t, "1") THEN t.sent[Driver(g, 0)] ELSE cap[g]
    ELSE CASE Rises(g, 3, t) -> AsyncValue(g)
           [] Rises(g, 1, t) /\ Is(g, 2, f, "1") /\ (Is(g, 3, f, "0") \/ ~ Driven(g, 3))
                -> f.sent[Driver(g, 0)]
           [] OTHER -> cap[g]

Becomes(t) ==
    /\ f' = t
    /\ cap' = [g \in Registers |-> Captured(g, t)]
    /\ UNCHANGED <<net, phase>>

RunEvent == ~ Quiet /\ Becomes(Step(Promoted(f)))

(* The enable and the asynchronous input of a register are steady except   *)
(* at one level of its clock.                                              *)
Allowed(d) ==
    \A g \in Registers \ OfType({"latch"}) :
        Drives(d, g, 2) \/ Drives(d, g, 3) =>
            phase \in {"any", f.sent[Driver(g, 1)]}

(* A thread changes a variable, between two events or while events wait. *)
Change(d, v) ==
    /\ Len(f.queue) + Len(f.later) < MaxQueue
    /\ f.sent[d] # v
    /\ Allowed(d)
    /\ Becomes(Send(f, d, v))

Next ==
    \/ RunEvent
    \/ \E d \in Sources, v \in Bits : Change(d, v)

Spec == Init /\ [][Next]_vars

-----------------------------------------------------------------------------
(* The type of every variable. A functor is marked exactly when one event  *)
(* for it is in the queue (logic.cc:50-54, 86-87).                         *)
TypeOK ==
    /\ net \in Networks /\ phase \in Phases
    /\ \A g \in Functors : f.sent[g] \in Bits \cup {"z"}
    /\ \A g \in Gates :
        Cardinality({k \in DOMAIN f.queue : f.queue[k].op = "run" /\ f.queue[k].of = g})
            = IF g \in f.pend THEN 1 ELSE 0
    /\ f.pend \subseteq Gates
    /\ cap \in [Registers -> Bits]

(* When no event is left, every port has the value that its driver sent    *)
(* last, and every gate shows the function of its inputs: no change is     *)
(* lost between the flag and the event, also when a gate hears of its own  *)
(* output through a bufz, or a mux ignores the port that is not selected   *)
(* (logic.cc:39-55, 84-110, 310-425, part.cc:50-90).                       *)
Settled ==
    Quiet =>
        /\ \A d \in Functors : \A p \in ToSet(net.fan[d]) :
            p[1] \notin Registers => f.in[p[1]][p[2]] = f.sent[d]
        /\ \A g \in Gates :
            f.sent[g] = Output(g, [i \in 0..2 |->
                IF Driven(g, i) THEN f.sent[Driver(g, i)] ELSE "z"])

(* When no event is left, a flip-flop shows the value that its D input had *)
(* before the last active edge of its clock, or that of a later set or     *)
(* clear, and a latch the last value while it was enabled: registers on    *)
(* one clock do not race, whatever the order of the fan-out                *)
(* (dff.cc:64-100, latch.cc:37-70).                                        *)
StoresRight ==
    Quiet => \A g \in Registers : f.sent[g] = cap[g]
=============================================================================
