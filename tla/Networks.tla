------------------------------ MODULE Networks ------------------------------
(* Small networks for Functor: cross-coupled gates, a gate in a loop       *)
(* through a bufz, a mux behind gates, a shift register with a clear, and  *)
(* a latch in front of a flip-flop with an inverted clock and a set.       *)
EXTENDS Sequences

Crossed ==
    [bare |-> {"p", "q"},
     type |-> [s |-> "var", r |-> "var", p |-> "nand", q |-> "nand"],
     fan |-> [s |-> << <<"p", 0>> >>, r |-> << <<"q", 0>> >>,
              p |-> << <<"q", 1>> >>, q |-> << <<"p", 1>> >>]]
Loop ==
    [bare |-> {"g"},
     type |-> [a |-> "var", g |-> "nand", z |-> "bufz", h |-> "part"],
     fan |-> [a |-> << <<"g", 0>> >>, g |-> << <<"z", 0>>, <<"h", 0>> >>,
              z |-> << <<"g", 1>> >>, h |-> <<>>]]
Muxed ==
    [bare |-> {"c", "n"},
     type |-> [a |-> "var", b |-> "var", s |-> "var", n |-> "not", m |-> "mux", c |-> "and"],
     fan |-> [a |-> << <<"m", 0>>, <<"n", 0>> >>, b |-> << <<"c", 1>> >>,
              s |-> << <<"m", 2>> >>, n |-> << <<"c", 0>> >>,
              c |-> << <<"m", 1>> >>, m |-> <<>>]]
Shift ==
    [bare |-> {},
     type |-> [d |-> "var", k |-> "var", e |-> "var", r |-> "var",
               p |-> "dff", q |-> "dff_aclr"],
     fan |-> [d |-> << <<"p", 0>> >>, k |-> << <<"p", 1>>, <<"q", 1>> >>,
              e |-> << <<"p", 2>>, <<"q", 2>> >>, r |-> << <<"q", 3>> >>,
              p |-> << <<"q", 0>> >>, q |-> <<>>]]
Latched ==
    [bare |-> {"b"},
     type |-> [d |-> "var", k |-> "var", r |-> "var", b |-> "buf", l |-> "latch",
               c |-> "not", s |-> "dff_aset", one |-> "var"],
     fan |-> [d |-> << <<"b", 0>> >>, b |-> << <<"l", 0>> >>, k |-> << <<"l", 1>>, <<"c", 0>> >>,
              l |-> << <<"s", 0>> >>, c |-> << <<"s", 1>> >>, r |-> << <<"s", 3>> >>,
              one |-> << <<"s", 2>> >>, s |-> <<>>]]

All == {Crossed, Loop, Muxed, Shift, Latched}
=============================================================================
