----------------------------- MODULE MCFunctor -----------------------------
(* Functor with a shift register whose enable may change at any time.      *)
EXTENDS Functor

Nets == INSTANCE Networks
MCShift == {Nets!Shift}
=============================================================================
