----------------------------- MODULE Primitives -----------------------------
(* Tables for Udp: a flip-flop with set, a latch, a toggle with every kind *)
(* of edge, and a combinational multiplexer.                               *)
EXTENDS Sequences

Row(state, in, o) == [now |-> state, in |-> in, out |-> o]

FlipFlop ==      \* clock, data, set
    [seq |-> TRUE, init |-> "1", rows |->
        {Row("?", <<"r", "0", "0">>, "0"), Row("?", <<"r", "1", "0">>, "1"),
         Row("0", <<"p", "0", "0">>, "0"), Row("1", <<"(0?)", "1", "0">>, "1"),
         Row("?", <<"n", "?", "0">>, "-"), Row("?", <<"?", "*", "0">>, "-"),
         Row("?", <<"?", "?", "1">>, "1"), Row("?", <<"?", "?", "(1?)">>, "-")}]
Latch ==         \* enable, data
    [seq |-> TRUE, init |-> "x", rows |->
        {Row("?", <<"1", "0">>, "0"), Row("?", <<"1", "1">>, "1"),
         Row("0", <<"h", "0">>, "-"), Row("?", <<"0", "?">>, "-"),
         Row("1", <<"x", "b">>, "x")}]
Toggle ==        \* clock, notifier
    [seq |-> TRUE, init |-> "0", rows |->
        {Row("0", <<"(01)", "?">>, "1"), Row("1", <<"(b1)", "?">>, "0"),
         Row("0", <<"(0x)", "l">>, "-"), Row("?", <<"(?0)", "?">>, "-"),
         Row("b", <<"(1x)", "?">>, "1"), Row("?", <<"(x1)", "?">>, "-"),
         Row("?", <<"?", "(bx)">>, "0"), Row("?", <<"?", "(x?)">>, "1"),
         Row("?", <<"?", "r">>, "-"), Row("?", <<"0", "f">>, "1")}]
Mux ==           \* select, a, b
    [seq |-> FALSE, init |-> "x", rows |->
        {Row("?", <<"0", "0", "?">>, "0"), Row("?", <<"0", "1", "?">>, "1"),
         Row("?", <<"1", "?", "0">>, "0"), Row("?", <<"1", "?", "1">>, "1"),
         Row("?", <<"x", "0", "0">>, "0"), Row("?", <<"x", "1", "1">>, "1")}]

All == {FlipFlop, Latch, Toggle, Mux}
=============================================================================
