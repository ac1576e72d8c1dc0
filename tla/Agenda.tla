------------------------------- MODULE Agenda -------------------------------
(***************************************************************************)
(* What the vvp event scheduler promises to its clients, with no lists and *)
(* no time differences: a set of pending events, each with the absolute    *)
(* time it is due and the region of the time step it belongs to.           *)
(*                                                                         *)
(* Schedule.tla implements this module; see its INSTANCE at the end.       *)
(***************************************************************************)
EXTENDS Integers

VARIABLES
    now,     \* the simulation time the clients see
    todo,    \* the pending events
    running  \* the pending events that have been handed to their handler

avars == <<now, todo, running>>

(***************************************************************************)
(* An event is a record: its serial number (the order in which events were *)
(* scheduled), the time it is due, the rank of its region, and whether it  *)
(* was pushed ahead of its region.                                         *)
(***************************************************************************)
Event == [id : Nat, due : Nat, rank : Nat, pushed : BOOLEAN]

(* x has to run before y: x was scheduled first, for the same time and a   *)
(* region that is not later, and y was not allowed to jump the queue.      *)
Before(x, y) ==
    /\ x.id < y.id
    /\ x.due = y.due
    /\ x.rank <= y.rank
    /\ ~ y.pushed

AInit ==
    /\ now = 0
    /\ todo = {}
    /\ running = {}

(* A client schedules an event, never in the past. *)
Add ==
    /\ \E x \in todo' :
        /\ x \in Event
        /\ x.due >= now
        /\ \A y \in todo : y.id < x.id
        /\ todo' = todo \cup {x}
    /\ UNCHANGED <<now, running>>

(* Time moves to the next due time, when nothing is left to do now. *)
Advance ==
    /\ running = {}
    /\ \E x \in todo :
        /\ x.due > now
        /\ \A y \in todo : y.due >= x.due
        /\ now' = x.due
    /\ UNCHANGED <<todo, running>>

(* An event that is due now, and that nothing has to precede, starts. *)
Start ==
    /\ running = {}
    /\ \E x \in todo :
        /\ x.due = now
        /\ \A y \in todo : ~ Before(y, x)
        /\ todo' = todo \ {x}
        /\ running' = {x}
    /\ UNCHANGED now

(* The handler of the running event returns. *)
Return ==
    /\ running # {}
    /\ running' = {}
    /\ UNCHANGED <<now, todo>>

ANext == Add \/ Advance \/ Start \/ Return

ASpec == AInit /\ [][ANext]_avars

=============================================================================
