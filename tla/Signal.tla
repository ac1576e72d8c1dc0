------------------------------- MODULE Signal -------------------------------
(***************************************************************************)
(* A variable or a wire of the vvp run time: the functor that holds the    *)
(* value of a variable (vvp_fun_signal4_sa, vvp_fun_signal_real_sa), the   *)
(* filter that every value passes on its way out (vvp_wire_vec4, _vec8 and *)
(* _real of vvp_net_sig.cc), procedural continuous assignment and force,   *)
(* by a value or by another signal whose output is linked to this one.     *)
(*                                                                         *)
(* Strengths are abstracted from; a real is a vector of one bit.           *)
(***************************************************************************)
EXTENDS Integers, Sequences, SequencesExt

CONSTANTS
    Kinds,      \* [type : {"vec4", "vec8", "real"}, reg : BOOLEAN]
    SignalWidth,\* how many bits a vector has
    BitValues,  \* the values of a bit that the program writes
    Linkable,   \* the signals this one can be linked to
    Moving,     \* bound: those of them that change
    Reforce     \* may a program force the signal to a value while it is
                \* still forced by another signal?

ASSUME SignalAssumption ==
    /\ Kinds \subseteq [type : {"vec4", "vec8", "real"}, reg : BOOLEAN]
    /\ SignalWidth \in Nat \ {0} /\ "0" \in BitValues /\ Moving \subseteq Linkable
    /\ "none" \notin BitValues \cup Linkable /\ BitValues \cap Linkable = {}

VARIABLES
    kind,       \* the kind of the signal under study
    signal,     \* what its functor, filter and readers hold
    val,        \* val[b]: the value of signal b
    linked,     \* linked[b]: the ports of this signal linked to b, newest first
    want,       \* auxiliary: want[i]: what the last force of bit i asked for
    held        \* auxiliary: the bits that keep a released value although
                \* they are assigned

signalVars == <<kind, signal, val, linked, want, held>>

Bits(k) == IF k.type = "real" THEN {0} ELSE 0..(SignalWidth - 1)
All     == Bits(kind)
Vectors == [All -> BitValues]

(* The contiguous proper parts of a vector. *)
Slices == {p \in {a..b : a, b \in All} : p # {} /\ p # All}

(* What the readers of the signal, and the filter itself, see. *)
Value(t) == [i \in All |-> IF i \in t.mask THEN t.force[i] ELSE t.drv[i]]

-----------------------------------------------------------------------------
(***************************************************************************)
(* The filter.  Send(t, v, p) is vvp_net_t::send_vec4 (p is All),          *)
(* send_vec4_pv, send_vec8 or send_real of the bits p of v: t with what    *)
(* the filter remembers, what the fan-out receives and what the value      *)
(* change call-backs read.                                                 *)
(***************************************************************************)
Over(old, v, p) == [i \in All |-> IF i \in p THEN v[i] ELSE old[i]]

Unchanged(t, v, p) ==
    kind.type = "vec4" /\ ~ t.fresh /\ \A i \in p : t.drv[i] = v[i]

Blocked(t, p) ==
    kind.type # "real" /\ p \subseteq t.mask /\ ~ t.push

Send(t, v, p) ==
    IF Unchanged(t, v, p) THEN t
    ELSE LET d == [t EXCEPT !.drv = Over(t.drv, v, p), !.fresh = FALSE]
             f == IF t.mask = {} \/ kind.type = "real" THEN d
                  ELSE [d EXCEPT !.push = FALSE]
         IN  IF t.mask # {} /\ Blocked(t, p) THEN f
             ELSE [f EXCEPT !.seen = Over(@, Value(d), p), !.told = Value(d)]

(***************************************************************************)
(* The functor.  A wire has none of its own: what drives it sends through  *)
(* the filter.                                                             *)
(***************************************************************************)
Recv(t, v, p) ==
    LET free == p \ t.assigned
        set  == [t EXCEPT !.sig = Over(@, v, free), !.sfresh = FALSE]
    IN  CASE ~ kind.reg -> Send(t, v, p)
          [] kind.reg /\ t.assigned = {} /\ p = All /\ ~ t.sfresh /\ t.sig = v -> t
          [] kind.reg /\ t.assigned # {} /\ free = {} -> t
          [] OTHER -> Send(set, set.sig, All)

(* Port 1 of the functor: the continuous assignment. *)
Assign(t, v, p) ==
    LET set == [t EXCEPT !.sig = Over(@, v, p), !.assigned = @ \cup p]
    IN  Send(set, set.sig, All)

(* vvp_net_t::force_*: the filter is told first, then all the bits of v go *)
(* out, forced or not.                                                     *)
ForceTo(t, v, p) ==
    LET f == [t EXCEPT !.mask = @ \cup p, !.push = TRUE,
                       !.force = IF t.forced THEN Over(@, v, p) ELSE v,
                       !.forced = TRUE]
    IN  [f EXCEPT !.seen = v, !.told = Value(f)]

(* Mutant: the wire believes that nothing has to be sent.                  *)
ReleaseStale(t, p) ==
    LET r == [t EXCEPT !.mask = @ \ p]
    IN  IF kind.reg THEN Recv(r, Value(t), p)
        ELSE LET w == Send(r, t.drv, p) IN [w EXCEPT !.told = Value(w)]

(* vvp_wire_*::release and release_pv: a wire returns to what drives it, a *)
(* variable keeps the forced value.                                        *)
Release(t, p) ==
    LET r == [t EXCEPT !.mask = @ \ p]
        f == [r EXCEPT !.fresh = \E i \in p : t.force[i] # t.drv[i]]
    IN  IF kind.reg THEN Recv(r, Value(t), p)
        ELSE LET w == Send(f, t.drv, p) IN [w EXCEPT !.told = Value(w)]

-----------------------------------------------------------------------------
Nothing(k) == [i \in Bits(k) |-> IF k.type = "real" THEN "0" ELSE "x"]

SignalInit ==
    /\ kind \in Kinds
    /\ signal = [sig |-> Nothing(kind), sfresh |-> TRUE, assigned |-> {},
            drv |-> Nothing(kind), fresh |-> TRUE, mask |-> {}, push |-> FALSE,
            force |-> Nothing(kind), forced |-> FALSE,
            seen |-> Nothing(kind), told |-> Nothing(kind)]
    /\ val \in [Linkable -> {[i \in All |-> "0"]}]
    /\ linked = [b \in Linkable |-> <<>>]
    /\ want = [i \in All |-> "none"]
    /\ held = {}

(* The source of a link: cassign_link and port 2 of the force thunk. *)
LinkedTo(port) == {b \in Linkable : port \in ToSet(linked[b])}

(* vvp_net_t::unlink and link. *)
Without(ports, port) ==
    IF \E i \in DOMAIN ports : ports[i] = port
    THEN RemoveAt(ports, CHOOSE i \in DOMAIN ports : ports[i] = port)
    ELSE ports
Unlinked(port) == [b \in Linkable |-> Without(linked[b], port)]
LinkedWith(b, o, port) == [o EXCEPT ![b] = <<port>> \o @]

(* Whatever goes out gives a released bit its value. *)
StillHeld(h, old, new) == IF new.drv = old.drv /\ new.sig = old.sig THEN h ELSE {}

Run(t) == signal' = t /\ held' = StillHeld(held, signal, t)

(* A procedural assignment, vpi_put_value, or the driver of a wire. *)
Write(v, p) ==
    /\ Run(Recv(signal, v, p))
    /\ UNCHANGED <<kind, val, linked, want>>

(* %cassign/vec4, %cassign/vec4/off and %cassign/wr; a variable only. *)
Cassign(v, p) ==
    /\ kind.reg
    /\ linked' = Unlinked("cassign")
    /\ Run(Assign(signal, v, p))
    /\ UNCHANGED <<kind, val, want>>

(* %cassign/vec4 with the value of b, and %cassign/link. *)
CassignLink(b) ==
    /\ kind.reg
    /\ linked' = LinkedWith(b, Unlinked("cassign"), "cassign")
    /\ Run(Assign(signal, val[b], All))
    /\ UNCHANGED <<kind, val, want>>

(* %deassign.  A part only when a value is assigned: of a linked signal it *)
(* is refused, of an unassigned one it fails an assertion of set_bit.      *)
Deassign(p) ==
    /\ kind.reg
    /\ p # All => signal.assigned # {} /\ LinkedTo("cassign") = {}
    /\ linked' = IF p = All THEN Unlinked("cassign") ELSE linked
    /\ signal' = [signal EXCEPT !.assigned = @ \ p]
    /\ UNCHANGED <<kind, val, want, held>>

(* %force/vec4, %force/vec4/off and %force/wr.  A link stays. *)
ForceValue(v, p) ==
    /\ LinkedTo("force") # {} => Reforce
    /\ Run(ForceTo(signal, Over(Value(signal), v, p), p))
    /\ want' = [i \in All |-> IF i \in p THEN v[i] ELSE want[i]]
    /\ UNCHANGED <<kind, val, linked>>

(* Mutant: the link to the signal of an earlier force stays.               *)
ForceLinkTwice(b) ==
    /\ linked' = LinkedWith(b, linked, "force")
    /\ Run(ForceTo(signal, val[b], All))
    /\ want' = [i \in All |-> b]
    /\ UNCHANGED <<kind, val>>

(* %force/vec4 with the value of b, and %force/link. *)
ForceLink(b) ==
    /\ linked' = LinkedWith(b, Unlinked("force"), "force")
    /\ Run(ForceTo(signal, val[b], All))
    /\ want' = [i \in All |-> b]
    /\ UNCHANGED <<kind, val>>

(* %release: the link is removed even when only a part is released; the    *)
(* rest then keeps the value it has.                                       *)
ReleaseForce(p) ==
    LET t == Release(signal, p)
    IN  /\ linked' = Unlinked("force")
        /\ signal' = t
        /\ held' = StillHeld(held, signal, t) \cup
                   (IF kind.reg THEN p \cap signal.mask \cap signal.assigned ELSE {})
        /\ want' = [i \in All |-> IF i \in p THEN "none"
                                  ELSE IF want[i] \in Linkable THEN signal.force[i]
                                  ELSE want[i]]
        /\ UNCHANGED <<kind, val>>

(* A source changes and sends its value to the ports linked to it, of which *)
(* there are two at most.                                                  *)
Deliver(t, b, k, v) ==
    IF k > Len(linked[b]) THEN t
    ELSE IF linked[b][k] = "force" THEN ForceTo(t, v, All)
    ELSE Assign(t, v, All)

SourceChanges(b, v) ==
    /\ val[b] # v
    /\ val' = [val EXCEPT ![b] = v]
    /\ Run(Deliver(Deliver(signal, b, 1, v), b, 2, v))
    /\ UNCHANGED <<kind, linked, want>>

SignalNext ==
    \/ \E p \in {All} \cup Slices : \E v \in [p -> BitValues] :
        Write(v, p) \/ Cassign(v, p) \/ ForceValue(v, p)
    \/ \E p \in {All} \cup Slices : Deassign(p) \/ ReleaseForce(p)
    \/ \E b \in Linkable : CassignLink(b) \/ ForceLink(b)
    \/ \E b \in Moving, v \in Vectors : SourceChanges(b, v)

SignalSpec == SignalInit /\ [][SignalNext]_signalVars

-----------------------------------------------------------------------------
(* The type of every variable; a bit is assigned or forced by one signal   *)
(* at most, as %cassign/link asserts (vthread.cc:1411, vvp_net.cc:378).    *)
Vec == [All -> BitValues \cup {"x"}]
State ==
    [sig : Vec, sfresh : BOOLEAN, assigned : SUBSET All,
     drv : Vec, fresh : BOOLEAN, mask : SUBSET All, push : BOOLEAN,
     force : Vec, forced : BOOLEAN, seen : Vec, told : Vec]

SignalTypeOK ==
    /\ kind \in Kinds
    /\ signal \in State
    /\ held \subseteq All
    /\ val \in [Linkable -> Vectors]
    /\ linked \in [Linkable -> Seq({"force", "cassign"})]
    /\ \A b \in Linkable : IsInjective(linked[b])
    /\ want \in [All -> BitValues \cup Linkable \cup {"none", "x"}]

(* Whatever was assigned, forced and released, in whole or in part: what   *)
(* the fan-out received last, and what the value change call-backs read    *)
(* last, is the value of the signal.  Only a variable that is released     *)
(* while it is assigned keeps showing the forced value "until another      *)
(* value propagates through" (vvp_net_sig.cc:46-79, 120-127, 879-987,      *)
(* opcodes.txt:988-990).                                                   *)
SeenIsValue ==
    \A i \in All \ held : signal.seen[i] = Value(signal)[i] /\ signal.told[i] = Value(signal)[i]

(* A forced bit has the value of the last force of it, and follows the     *)
(* signal of that force; an assigned bit of a linked variable follows its  *)
(* source (vvp_net.cc:365-400, vthread.cc:1420-1440).                      *)
LastForceHolds ==
    /\ signal.mask = {i \in All : want[i] # "none"}
    /\ \A i \in signal.mask :
        signal.force[i] = IF want[i] \in Linkable THEN val[want[i]][i] ELSE want[i]
    /\ \A b \in LinkedTo("cassign") : \A i \in All : signal.sig[i] = val[b][i]

-----------------------------------------------------------------------------
(***************************************************************************)
(* The inductive invariant that SignalProofs proves.                       *)
(***************************************************************************)

(* A forced bit is shown right although it is held: a release follows.     *)
Right(t, i) == t.seen[i] = Value(t)[i] /\ t.told[i] = Value(t)[i]
Shown(t, h) == \A i \in All : i \notin h \/ i \in t.mask => Right(t, i)

(* The functor and the filter of a variable remember the same value; a wire *)
(* is not assigned.                                                        *)
LayersAgree ==
    /\ IF kind.reg THEN signal.drv = signal.sig
       ELSE held = {} /\ LinkedTo("cassign") = {}
    /\ signal.forced \/ signal.mask = {}

(* A link is to one signal; that of a force decides every bit, that of a   *)
(* continuous assignment assigns every bit.                                *)
LinksAgree ==
    /\ \A port \in {"force", "cassign"} :
        \A b, c \in LinkedTo(port) : b = c
    /\ \A b \in LinkedTo("force") : \A i \in All : want[i] = b
    /\ \A i \in All : want[i] \in Linkable => want[i] \in LinkedTo("force")
    /\ LinkedTo("cassign") # {} => signal.assigned = All

SignalInv ==
    /\ SignalTypeOK
    /\ LayersAgree
    /\ Shown(signal, held)
    /\ ~ Reforce => LinksAgree /\ LastForceHolds
=============================================================================
