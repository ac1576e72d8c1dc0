------------------------------ MODULE Resolver ------------------------------
(***************************************************************************)
(* A net with several drivers, vvp/resolv.cc and the strengths of          *)
(* vvp/vvp_net.cc.  The values of the ports are resolved in groups of      *)
(* four, those of the groups in groups of four, and so on; when the value  *)
(* of a port changes, the groups on its way are resolved again, until one  *)
(* does not change.                                                        *)
(*                                                                         *)
(* A value with strength has two ends, each a value and a strength; when   *)
(* they differ, the value is one of those in between.                      *)
(***************************************************************************)
EXTENDS Integers, FiniteSets, Sequences, SequencesExt

CONSTANTS
    Ports,    \* how many drivers the net has
    Sending,  \* the ports that are ever sent a value
    Drives,   \* the values of the drivers
    Kinds     \* the kinds of net

VARIABLES
    kind,    \* the class of the resolver, and its hiz_value_
    val,     \* val_, by the levels of the tree
    shown    \* what the net was last sent

vars == <<kind, val, shown>>

-----------------------------------------------------------------------------
(***************************************************************************)
(* Values with strength (vvp_scalar_t).                                    *)
(***************************************************************************)
End(v, s) == [v |-> v, s |-> s]
HiZ == [one |-> End(0, 0), zero |-> End(0, 0)]

(* The value 0, 1 or x with the strengths s0 and s1.                       *)
Scalar(bit, s0, s1) ==
    CASE s0 = 0 /\ s1 = 0 -> HiZ
      [] bit = "0" -> [one |-> End(0, s0), zero |-> End(0, s0)]
      [] bit = "1" -> [one |-> End(1, s1), zero |-> End(1, s1)]
      [] bit = "x" -> [one |-> End(1, s1), zero |-> End(0, s0)]
      [] OTHER     -> HiZ

IsHiZ(a)   == a.one.s = 0 /\ a.zero.s = 0
Unambig(a) == a.one = a.zero

BitOf(a) ==
    IF IsHiZ(a) THEN "z"
    ELSE IF a.one.v # a.zero.v THEN "x"
    ELSE IF a.one.v = 1 THEN "1" ELSE "0"

(* The ends on one scale, from supply0 to supply1.                         *)
Level(e) == IF e.v = 1 THEN e.s ELSE - e.s

Stronger(e, f) == IF e.s > f.s THEN e ELSE f

(* fully_featured_resolv_, for values neither of which is HiZ.             *)
BothClear(a, b) ==
    IF b.zero.s > a.zero.s THEN b
    ELSE IF b.zero.s < a.zero.s THEN a
    ELSE [one |-> End(1, a.one.s), zero |-> End(0, a.zero.s)]

(* The clear value a takes what is weaker from the other.                  *)
OneClear(a, b) == [one |-> Stronger(a.one, b.one), zero |-> Stronger(a.zero, b.zero)]

NoneClear(a, b) ==
    LET ends == {Level(a.one), Level(a.zero), Level(b.one), Level(b.zero)}
        top  == CHOOSE x \in ends : \A y \in ends : y <= x
        low  == CHOOSE x \in ends : \A y \in ends : y >= x
        res  == [one |-> IF top > 0 THEN End(1, top) ELSE End(a.one.v * b.one.v, - top),
                 zero |-> IF low > 0 THEN End(1, low) ELSE End(0, - low)]
    IN  IF IsHiZ(res) THEN HiZ ELSE res

Resolve(a, b) ==
    IF IsHiZ(a) THEN b
    ELSE IF IsHiZ(b) \/ a = b THEN a
    ELSE IF Unambig(a) /\ Unambig(b) THEN BothClear(a, b)
    ELSE IF Unambig(a) THEN OneClear(a, b)
    ELSE IF Unambig(b) THEN OneClear(b, a)
    ELSE NoneClear(a, b)

(* resolv_triand, resolv_trior: one value decides, then x.                 *)
Wired(a, b, decides, other) ==
    IF a = "z" THEN b
    ELSE IF b = "z" THEN a
    ELSE IF decides \in {a, b} THEN decides
    ELSE IF "x" \in {a, b} THEN "x"
    ELSE other

-----------------------------------------------------------------------------
(***************************************************************************)
(* The tree (resolv_tri, resolv_wired_logic).                              *)
(***************************************************************************)
(* Wired logic keeps bits, the other nets values with strength.            *)
Wire == kind.class \in {"and", "or"}

(* What a port has that was sent nothing yet, of size 0.                   *)
None == IF Wire THEN "none" ELSE [one |-> End(-1, 0), zero |-> End(-1, 0)]

(* What a resolver keeps of a value it receives.                           *)
Received(a) == IF Wire THEN BitOf(a) ELSE a

Merge(a, b) ==
    CASE kind.class = "tri" -> Resolve(a, b)
      [] kind.class = "and" -> Wired(a, b, "0", "1")
      [] kind.class = "or"  -> Wired(a, b, "1", "0")

Group(i) == (i - 1) \div 4 + 1

(* The values of the group of port i at level l, merged in their order;    *)
(* those that are still without a value are left out.                      *)
Merged(v, l, i) ==
    LET first == 4 * (Group(i) - 1) + 1
        last  == IF first + 3 < Len(v[l]) THEN first + 3 ELSE Len(v[l])
    IN  FoldLeft(LAMBDA a, b : IF b = None THEN a ELSE IF a = None THEN b ELSE Merge(a, b),
                 v[l][first], SubSeq(v[l], first + 1, last))

Spans ==
    LET span[i \in 1..Ports] ==
            IF i = 1 THEN <<Ports>>
            ELSE LET s == span[i-1] IN IF Last(s) = 1 THEN s ELSE Append(s, Group(Last(s)))
    IN  span[Ports]

Init ==
    /\ kind \in Kinds
    /\ val = [l \in DOMAIN Spans |-> [i \in 1..Spans[l] |-> None]]
    /\ shown = None

Top == Len(Spans)

(* Mutant: a group is resolved from the values it had before.              *)
PassedUpStale(v, port) ==
    LET up[l \in 1..Top] ==
            IF l = 1 THEN [val |-> v, at |-> port, changed |-> TRUE]
            ELSE LET s == up[l-1]
                     g == Group(s.at)
                     out == Merged(val, l - 1, s.at)
                 IN  IF ~ s.changed \/ s.val[l][g] = out THEN [s EXCEPT !.changed = FALSE]
                     ELSE [val |-> [s.val EXCEPT ![l][g] = out], at |-> g, changed |-> TRUE]
    IN  up[Top]

(* Up the tree from port i, as far as values change.                       *)
PassedUp(v, port) ==
    LET up[l \in 1..Top] ==
            IF l = 1 THEN [val |-> v, at |-> port, changed |-> TRUE]
            ELSE LET s == up[l-1]
                     g == Group(s.at)
                     out == Merged(s.val, l - 1, s.at)
                 IN  IF ~ s.changed \/ s.val[l][g] = out THEN [s EXCEPT !.changed = FALSE]
                     ELSE [val |-> [s.val EXCEPT ![l][g] = out], at |-> g, changed |-> TRUE]
    IN  up[Top]

(* recv_vec4_, recv_vec8_: the value of the net is pulled where it is kept. *)
Recv(port, a) ==
    /\ val[1][port] # Received(a)
    /\ LET r == PassedUp([val EXCEPT ![1][port] = Received(a)], port)
           out == r.val[Top][1]
           pulled == IF Wire THEN out ELSE Resolve(out, kind.pull)
       IN  IF r.changed
           THEN val' = [r.val EXCEPT ![Top][1] = pulled] /\ shown' = pulled
           ELSE val' = r.val /\ UNCHANGED shown
    /\ UNCHANGED kind

Next == \E p \in Sending, a \in Drives : Recv(p, a)

Spec == Init /\ [][Next]_vars

-----------------------------------------------------------------------------
(***************************************************************************)
(* The reference: all drivers at once, every one at any of the levels it   *)
(* may have.  The strongest decides; two as strong as each other and of    *)
(* different values leave every level between them.                        *)
(***************************************************************************)
Levels(a) == Level(a.zero)..Level(a.one)
Abs(x) == IF x < 0 THEN - x ELSE x

Overlap(X, Y) ==
    UNION {IF Abs(x) > Abs(y) THEN {x} ELSE IF Abs(y) > Abs(x) THEN {y}
           ELSE IF x = y THEN {x} ELSE (- Abs(x))..Abs(x) : x \in X, y \in Y}

Driven == {p \in 1..Ports : val[1][p] # None}

TriReference ==
    FoldLeft(LAMBDA X, p : IF p \in Driven THEN Overlap(X, Levels(val[1][p])) ELSE X,
             Levels(kind.pull), [p \in 1..Ports |-> p])

WiredReference ==
    LET bits == {val[1][p] : p \in Driven} \ {"z"}
        decides == IF kind.class = "and" THEN "0" ELSE "1"
    IN  IF bits = {} THEN "z"
        ELSE IF decides \in bits THEN decides
        ELSE IF "x" \in bits THEN "x"
        ELSE CHOOSE b \in bits : TRUE

(* Whichever port changed last and however far the change went up the      *)
(* tree, the net shows what all its drivers together give: with wired      *)
(* logic exactly that, with strengths at least every value it may have,    *)
(* and exactly that one when no driver is ambiguous (resolv.cc:131-174,    *)
(* 216-262; vvp_net.cc:3574-3678).                                         *)
ResolvesRight ==
    IF Driven = {} THEN shown = None
    ELSE IF Wire THEN shown = WiredReference
    ELSE /\ shown # None
         /\ TriReference \subseteq Levels(shown)
         /\ (\A p \in Driven : Unambig(val[1][p])) =>
              {Level(shown.zero), Level(shown.one)} \subseteq TriReference
=============================================================================
