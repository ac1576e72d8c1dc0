-------------------------------- MODULE Udp --------------------------------
(***************************************************************************)
(* User defined primitives: the table of the program, the code letters the *)
(* lexical analyser makes of its edges, the rows that vvp compiles from    *)
(* them (udp.cc), the output they give, and the events with which the      *)
(* functor sends it.                                                       *)
(*                                                                         *)
(* An input of a row is a letter, "r", or an edge in parentheses, "(01)".  *)
(***************************************************************************)
EXTENDS Integers, Sequences, FiniteSets

CONSTANTS
    Tables,     \* [seq : BOOLEAN, init : bit, rows : set of
                \*  [now : letter, in : Seq(input), out : bit or "-"]]
    MaxPending  \* an input changes only when fewer events wait

VARIABLES
    table,
    cur,        \* the inputs
    out,        \* cur_out_
    pending,    \* how many events of the functor wait
    shown,      \* the bit it sent last
    want        \* auxiliary: what the table of the program says

vars == <<table, cur, out, pending, shown, want>>

Bits == {"0", "1", "x"}
Ports == 1..Len((CHOOSE r \in table.rows : TRUE).in)

(* or_based_on_char: the bits a letter stands for. *)
Level(c) ==
    CASE c \in Bits -> {c}
      [] c = "b" -> {"0", "1"} [] c = "l" -> {"0", "x"}
      [] c = "h" -> {"1", "x"} [] c = "?" -> Bits
Letters == {"0", "1", "x", "b", "l", "h", "?"}

(* lexor.lex: the letter for an edge in parentheses. *)
Code(s) ==
    CASE s = "(?0)" -> "_" [] s = "(?1)" -> "+"
      [] s = "(?x)" -> "%" [] s = "(??)" -> "*"
      [] s = "(01)" -> "r" [] s = "(0x)" -> "Q"
      [] s = "(bx)" -> "q" [] s = "(b0)" -> "f"
      [] s = "(b1)" -> "r" [] s = "(0?)" -> "P"
      [] s = "(10)" -> "f" [] s = "(1x)" -> "M"
      [] s = "(1?)" -> "N" [] s = "(x0)" -> "F"
      [] s = "(x1)" -> "R" [] s = "(x?)" -> "B"
      [] OTHER -> s

(* edge_based_on_char: where the edge comes from and where it goes. *)
Edge(c) ==
    CASE c = "B" -> [from |-> {"x"}, to |-> {"0", "1"}]
      [] c = "f" -> [from |-> {"1"}, to |-> {"0"}]
      [] c = "F" -> [from |-> {"x"}, to |-> {"0"}]
      [] c = "M" -> [from |-> {"1"}, to |-> {"x"}]
      [] c = "N" -> [from |-> {"1"}, to |-> {"0", "x"}]
      [] c = "P" -> [from |-> {"0"}, to |-> {"x", "1"}]
      [] c \in {"q", "%"} -> [from |-> {"0", "1"}, to |-> {"x"}]
      [] c = "Q" -> [from |-> {"0"}, to |-> {"x"}]
      [] c = "r" -> [from |-> {"0"}, to |-> {"1"}]
      [] c = "R" -> [from |-> {"x"}, to |-> {"1"}]
      [] c = "+" -> [from |-> {"0", "x"}, to |-> {"1"}]
      [] c = "_" -> [from |-> {"x", "1"}, to |-> {"0"}]

(* compile_table: the letters a row with n, p or * is expanded to.         *)
Expanded(c) ==
    CASE c = "n" -> {"N", "_"} [] c = "p" -> {"P", "+"}
      [] c = "*" -> {"P", "N", "B"} [] OTHER -> {c}

IsLevel(row) == \A i \in Ports : row.in[i] \in Letters

LevelRows == {r \in table.rows : IsLevel(r)}
EdgeRows  == {r \in table.rows : ~ IsLevel(r)}

MatchesLevels(r, in, state) ==
    /\ ~ table.seq \/ state \in Level(r.now)
    /\ \A i \in Ports : in[i] \in Level(r.in[i])

(* test_edges_: the only input that changed has the edge of the row. *)
MatchesEdge(r, in, old, state) ==
    /\ state \in Level(r.now)
    /\ \E e \in Ports :
        /\ r.in[e] \notin Letters /\ in[e] # old[e]
        /\ \E c \in Expanded(Code(r.in[e])) : old[e] \in Edge(c).from /\ in[e] \in Edge(c).to
        /\ \A i \in Ports \ {e} : in[i] \in Level(r.in[i])

(* The first of some outputs that is the output of a row that matches. *)
FirstOf(outs, rows, state, none) ==
    LET hits == SelectSeq(outs, LAMBDA o : \E r \in rows : r.out = o)
    IN  IF hits = <<>> THEN none ELSE IF hits[1] = "-" THEN state ELSE hits[1]

TestLevels(in, state) ==
    FirstOf(IF table.seq THEN <<"0", "1", "x", "-">> ELSE <<"0", "1">>,
            {r \in LevelRows : MatchesLevels(r, in, state)},
            state, IF table.seq THEN "z" ELSE "x")
TestEdges(in, old, state) ==
    FirstOf(<<"0", "1", "-">>, {r \in EdgeRows : MatchesEdge(r, in, old, state)},
            state, "x")

CalculateOutput(in, old, state) ==
    LET lev == TestLevels(in, state)
    IN  CASE table.seq /\ in = old -> state
          [] lev = "z" -> TestEdges(in, old, state)
          [] OTHER -> lev

-----------------------------------------------------------------------------
(* The reference: what the rows mean in the language.  Rows of levels take *)
(* precedence over rows with an edge; what no row covers is unknown.       *)
Changes(s) ==
    CASE s = "r" -> {<<"0", "1">>} [] s = "f" -> {<<"1", "0">>}
      [] s = "p" -> {<<"0", "1">>, <<"0", "x">>, <<"x", "1">>}
      [] s = "n" -> {<<"1", "0">>, <<"1", "x">>, <<"x", "0">>}
      [] s = "*" -> {e \in Bits \X Bits : e[1] # e[2]}
      [] OTHER   -> {e \in Bits \X Bits : e[1] # e[2] /\ \E a, b \in Letters :
                        s = "(" \o a \o b \o ")" /\ e \in Level(a) \X Level(b)}

Applies(r, in, old, state) ==
    /\ table.seq => state \in Level(r.now)
    /\ \A i \in Ports :
        IF r.in[i] \in Letters THEN in[i] \in Level(r.in[i])
        ELSE <<old[i], in[i]>> \in Changes(r.in[i])

Meaning(in, old, state) ==
    LET rows == {r \in table.rows : Applies(r, in, old, state)}
        best == {r \in rows : IsLevel(r)}
        outs == {r.out : r \in IF best # {} THEN best ELSE rows}
    IN  CASE table.seq /\ in = old -> state
          [] outs = {} -> "x"
          [] outs = {"-"} -> state
          [] OTHER -> CHOOSE o \in outs : o # "-"

-----------------------------------------------------------------------------
Init ==
    /\ table \in Tables
    /\ cur = [i \in Ports |-> "x"]
    /\ out = table.init
    /\ pending = IF table.init = "x" THEN 0 ELSE 1
    /\ shown = "x"
    /\ want = table.init

(* Mutant: an event waits, so nothing is remembered.                       *)
InputWhenIdle(i, v) ==
    LET in == [cur EXCEPT ![i] = v]
        o  == CalculateOutput(in, cur, out)
    IN  /\ pending < MaxPending
        /\ cur' = in
        /\ out' = IF pending = 0 THEN o ELSE out
        /\ pending' = IF o # out /\ pending = 0 THEN 1 ELSE pending
        /\ want' = Meaning(in, cur, want)
        /\ UNCHANGED <<table, shown>>

(* vvp_udp_fun_core::recv_vec4_from_inputs: an event for every change of   *)
(* the output, whether or not one waits.                                   *)
Input(i, v) ==
    LET in == [cur EXCEPT ![i] = v]
        o  == CalculateOutput(in, cur, out)
    IN  /\ pending < MaxPending
        /\ cur' = in
        /\ out' = o
        /\ pending' = IF o # out THEN pending + 1 ELSE pending
        /\ want' = Meaning(in, cur, want)
        /\ UNCHANGED <<table, shown>>

(* vvp_udp_fun_core::run_run. *)
Run ==
    /\ pending > 0
    /\ pending' = pending - 1
    /\ shown' = out
    /\ UNCHANGED <<table, cur, out, want>>

Next == Run \/ \E i \in Ports, v \in Bits : Input(i, v)

Spec == Init /\ [][Next]_vars

-----------------------------------------------------------------------------
(* The state of a primitive is what its table says of the whole history of *)
(* its inputs, through the letters of lexor.lex:243-258 and the expansion  *)
(* and the order of the compiled rows, and it is what the primitive shows  *)
(* when its events have run, however many there were (udp.cc:461-672,      *)
(* 686-890, 928-963).                                                      *)
UdpFollowsTable ==
    /\ out = want
    /\ pending = 0 => shown = out
=============================================================================
