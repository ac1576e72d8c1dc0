---------------------------- MODULE EventControl ----------------------------
(***************************************************************************)
(* Events of static scopes (vvp/event.cc): the functors that watch signals  *)
(* for edges, named events and "or" events, the assignments that wait for   *)
(* an event (event controls, a <= @(e) v), and the threads that wait for    *)
(* one.                                                                    *)
(*                                                                         *)
(* A value travels by nested calls.  recv_vec4 of a functor runs the event  *)
(* controls, whose assignments send values to further functors, before it   *)
(* returns to the loop over the fan-out that called it.  The nesting is the *)
(* sequence "calls", innermost call first; one action is one turn of one of *)
(* the loops.                                                              *)
(***************************************************************************)
EXTENDS Naturals, Sequences, SequencesExt, FiniteSets

CONSTANTS
    Signals,     \* variables of one bit
    Events,      \* the event functors
    Kind,        \* Kind[e]: "posedge", "negedge", "edge", "named" or "or"
    Inputs,      \* Inputs[e]: the signals, or the events, on its ports
    Values,      \* the values that are stored
    Waiters,     \* threads that wait for events
    Awaited,     \* the events that threads wait for
    Controlled,  \* the events that assignments wait for
    MaxControls, \* bound: event controls that are pending at one time
    MaxCount     \* bound: the count of repeat (count) @(e)

Bit4 == {"0", "1", "x", "z"}
Nets == Signals \cup Events

ASSUME InstanceAssumption ==
    /\ Signals \cap Events = {}
    /\ Kind \in [Events -> {"posedge", "negedge", "edge", "named", "or"}]
    /\ Inputs \in [Events -> SUBSET Nets]
    /\ \A e \in Events : Inputs[e] \subseteq
          CASE Kind[e] = "named" -> {} [] Kind[e] = "or" -> Events [] OTHER -> Signals
    /\ Awaited \subseteq Events /\ Controlled \subseteq Events
    /\ Values \subseteq Bit4 /\ MaxControls \in Nat /\ MaxCount \in Nat

VARIABLES
    compiled, \* the events whose functors have been made
    fanout,   \* the list that starts at the out_ of a net
    value,    \* bits4_ of every signal
    bits,     \* bits_[port] of every edge functor
    ctls,     \* event_ctls
    last,     \* last: how many controls precede the pointer it points at
    threads,  \* threads_: the threads that wait, newest first
    calls,    \* the calls that have not returned
    aborted,  \* the assertion of dec_and_run has failed
    promised, \* auxiliary: the pending controls in order, each with how often
              \* its event has still to happen
    due       \* auxiliary: the threads that an event should wake

eventVars ==
    <<compiled, fanout, value, bits, ctls, last, threads, calls, aborted, promised, due>>
netlist == <<compiled, fanout>>
aux     == <<promised, due>>

Ids == 1..MaxControls

EventInit ==
    /\ compiled = {}
    /\ fanout = [n \in Nets |-> <<>>]
    /\ value = [s \in Signals |-> "x"]
    /\ bits = [e \in Events |-> [s \in Inputs[e] \cap Signals |-> "x"]]
    /\ ctls = [e \in Events |-> <<>>]
    /\ last = [e \in Events |-> 0]
    /\ threads = [e \in Events |-> <<>>]
    /\ calls = <<>> /\ aborted = FALSE
    /\ promised = [e \in Events |-> <<>>]
    /\ due = {}

(* compile_event links an event into the lists of its inputs, at the front. *)
Compile(e) ==
    /\ e \notin compiled
    /\ compiled' = compiled \cup {e}
    /\ fanout' = [n \in Nets |-> IF n \in Inputs[e] THEN <<e>> \o fanout[n] ELSE fanout[n]]
    /\ UNCHANGED <<value, bits, ctls, last, threads, calls, aborted, aux>>

-----------------------------------------------------------------------------
(* The innermost call.                                                     *)

Call == Head(calls)
InCall(op) == ~aborted /\ calls # <<>> /\ Call.op = op
Idle == compiled = Events /\ calls = <<>> /\ ~aborted

(* A send to the fan-out of n returns at once when no functor is left.      *)
SendFrom(n, at) ==
    IF at > Len(fanout[n]) THEN <<>> ELSE <<[op |-> "send", net |-> n, at |-> at]>>

Send(n)       == SendFrom(n, 1)
RunWaiting(e) == <<[op |-> "run", net |-> e, at |-> 1]>>

(* The calls after the innermost one has gone on to its next turn.          *)
NextFunctor == SendFrom(Call.net, Call.at + 1) \o Tail(calls)
NextControl == <<[Call EXCEPT !.at = @ + 1]>> \o Tail(calls)

-----------------------------------------------------------------------------
(* A functor receives a value.                                             *)

Posedge == {<<"0", "1">>, <<"0", "x">>, <<"0", "z">>, <<"x", "1">>, <<"z", "1">>}
Negedge == {<<"1", "0">>, <<"1", "x">>, <<"1", "z">>, <<"x", "0">>, <<"z", "0">>}

Triggers(e, from, to) ==
    CASE Kind[e] = "posedge" -> <<from, to>> \in Posedge
      [] Kind[e] = "negedge" -> <<from, to>> \in Negedge
      [] Kind[e] = "edge"    -> from # to
      [] OTHER               -> TRUE

(* Mutant: it remembers only the values that trigger it.                   *)
SeenIfTriggered(e, n, v) ==
    IF n \in Signals /\ Triggers(e, bits[e][n], v) THEN [bits EXCEPT ![e][n] = v] ELSE bits

(* bits_ after the functor has seen the value v at its port for n.          *)
Seen(e, n, v) == IF n \in Signals THEN [bits EXCEPT ![e][n] = v] ELSE bits

(* The events that happen when e does: the least set with e that contains,  *)
(* with an event, the "or" events it is part of.                           *)
Including(e) ==
    {o \in Events : \A S \in SUBSET Events :
        (e \in S /\ \A p \in Events : Inputs[p] \cap S # {} => p \in S) => o \in S}

(* Event e happens: its controls have one event less to wait for, and the   *)
(* threads that wait for it, or for an event that includes it, should wake. *)
OneLess(p) == [p EXCEPT !.left = IF @ > 0 THEN @ - 1 ELSE 0]

Happens(e) ==
    /\ promised' = [promised EXCEPT ![e] = [i \in DOMAIN @ |-> OneLess(@[i])]]
    /\ due' = due \cup UNION {ToSet(threads[o]) : o \in Including(e)}

(* The start of run_waiting_threads_, called from the calls cs.             *)
StartRun(e, cs) ==
    /\ calls' = RunWaiting(e) \o cs
    /\ last' = [last EXCEPT ![e] = 0]
    /\ Happens(e)

(* One turn of the loop of vvp_send_vec4: the next functor of the fan-out.  *)
(* The loop holds a reference to the bits of the signal and so delivers     *)
(* their present value.  Ports of an "or" event do not look at it.          *)
Delivered(n) == value[n]

Deliver ==
    /\ InCall("send")
    /\ LET n == Call.net
           e == fanout[n][Call.at]
       IN  IF n \in Events
           THEN bits' = bits /\ StartRun(e, NextFunctor)
           ELSE LET new == Delivered(n)
                IN  /\ bits' = Seen(e, n, new)
                    /\ IF Triggers(e, bits[e][n], new)
                       THEN StartRun(e, NextFunctor)
                       ELSE calls' = NextFunctor /\ UNCHANGED <<last, aux>>
    /\ UNCHANGED <<netlist, value, ctls, threads, aborted>>

-----------------------------------------------------------------------------
(* run_waiting_threads_: the event controls, then the threads.              *)

Cur == ctls[Call.net][Call.at]
AtControl == InCall("run") /\ Call.at <= Len(ctls[Call.net])

(* dec_and_run of a control that has more than one event to wait for.       *)
CountDown ==
    /\ AtControl /\ Cur.left > 1
    /\ ctls' = [ctls EXCEPT ![Call.net][Call.at].left = @ - 1]
    /\ last' = [last EXCEPT ![Call.net] = Call.at]
    /\ calls' = NextControl
    /\ UNCHANGED <<netlist, value, bits, threads, aborted, aux>>

(* The promise of a control that has been released is kept when it is made. *)
ReleasedAt(e, id) == {i \in DOMAIN promised[e] : promised[e][i].id = id /\ promised[e][i].left = 0}

Made(e, id) ==
    IF ReleasedAt(e, id) = {} THEN promised[e]
    ELSE RemoveAt(promised[e], CHOOSE i \in ReleasedAt(e, id) : TRUE)

(* dec_and_run of one whose event has come: run_run assigns the value, and  *)
(* the signal sends it, changed or not, before the control is deleted.      *)
RunControl ==
    /\ AtControl /\ Cur.left = 1
    /\ ctls' = [ctls EXCEPT ![Call.net][Call.at].left = 0]
    /\ value' = [value EXCEPT ![Cur.signal] = Cur.value]
    /\ promised' = [promised EXCEPT ![Call.net] = Made(Call.net, Cur.id)]
    /\ calls' = Send(Cur.signal) \o <<[Call EXCEPT !.op = "ran"]>> \o Tail(calls)
    /\ UNCHANGED <<netlist, bits, last, threads, aborted, due>>

(* The call comes to a control that a call around it is running.            *)
AssertFails ==
    /\ AtControl /\ Cur.left = 0
    /\ aborted' = TRUE
    /\ UNCHANGED <<netlist, value, bits, ctls, last, threads, calls, aux>>

(* Mutant: the rest of the list is dropped.                                *)
UnlinkedRest(list, before, at) == SubSeq(list, 1, before)

Unlinked(list, before, at) == SubSeq(list, 1, before) \o SubSeq(list, at + 1, Len(list))

(* Back from run_run: delete cur, and *last = cur->next.                    *)
DeleteControl ==
    /\ InCall("ran")
    /\ ctls' = [ctls EXCEPT ![Call.net] = Unlinked(@, last[Call.net], Call.at)]
    /\ calls' = <<[Call EXCEPT !.op = "run"]>> \o Tail(calls)
    /\ UNCHANGED <<netlist, value, bits, last, threads, aborted, aux>>

(* Mutant: without a thread to schedule the event is not sent on.          *)
WakeThreadsOnly ==
    /\ InCall("run") /\ Call.at > Len(ctls[Call.net])
    /\ threads' = [threads EXCEPT ![Call.net] = <<>>]
    /\ due' = due \ ToSet(threads[Call.net])
    /\ calls' = (IF threads[Call.net] = <<>> THEN <<>> ELSE Send(Call.net)) \o Tail(calls)
    /\ UNCHANGED <<netlist, value, bits, ctls, last, aborted, promised>>

(* The list of threads is taken off and scheduled, and recv_vec4 sends the  *)
(* event to the "or" events it is part of.                                 *)
WakeThreads ==
    /\ InCall("run") /\ Call.at > Len(ctls[Call.net])
    /\ threads' = [threads EXCEPT ![Call.net] = <<>>]
    /\ due' = due \ ToSet(threads[Call.net])
    /\ calls' = Send(Call.net) \o Tail(calls)
    /\ UNCHANGED <<netlist, value, bits, ctls, last, aborted, promised>>

-----------------------------------------------------------------------------
(* What threads do.                                                        *)

(* A value is stored in, or assigned to, a signal; it is sent on even when  *)
(* it is the old one.                                                      *)
Store(s, v) ==
    /\ Idle
    /\ value' = [value EXCEPT ![s] = v]
    /\ calls' = Send(s)
    /\ UNCHANGED <<netlist, bits, ctls, last, threads, aborted, aux>>

(* %event                                                                  *)
Trigger(e) ==
    /\ Idle /\ Kind[e] = "named"
    /\ StartRun(e, <<>>)
    /\ UNCHANGED <<netlist, value, bits, ctls, threads, aborted>>

(* Mutant: at the front of the list.                                       *)
AppendedInFront(list, before, c) == <<c>> \o list

(* %evctl and %assign/vec4/e: schedule_evctl writes the new control through *)
(* last, which ends the list there.                                        *)
Appended(list, before, c) == Append(SubSeq(list, 1, before), c)

FreeIds == Ids \ UNION {{promised[e][i].id : i \in DOMAIN promised[e]} : e \in Events}

ScheduleControl(e, count, s, v) ==
    /\ Idle /\ FreeIds # {}
    /\ LET c == [id |-> CHOOSE i \in FreeIds : TRUE, left |-> count, signal |-> s, value |-> v]
       IN  /\ ctls' = [ctls EXCEPT ![e] = Appended(@, last[e], c)]
           /\ promised' = [promised EXCEPT ![e] = Append(@, [id |-> c.id, left |-> count])]
    /\ last' = [last EXCEPT ![e] = @ + 1]
    /\ UNCHANGED <<netlist, value, bits, threads, calls, aborted, due>>

(* %wait, by a thread that runs.                                           *)
Waiting == UNION {ToSet(threads[e]) : e \in Events}

WaitFor(t, e) ==
    /\ Idle /\ t \notin Waiting
    /\ threads' = [threads EXCEPT ![e] = <<t>> \o @]
    /\ UNCHANGED <<netlist, value, bits, ctls, last, calls, aborted, aux>>

-----------------------------------------------------------------------------
EventNext ==
    \/ \E e \in Events : Compile(e)
    \/ Deliver
    \/ CountDown \/ RunControl \/ AssertFails \/ DeleteControl \/ WakeThreads
    \/ \E s \in Signals, v \in Values : Store(s, v)
    \/ \E e \in Events : Trigger(e)
    \/ \E e \in Controlled, count \in 1..MaxCount, s \in Signals, v \in Values :
          ScheduleControl(e, count, s, v)
    \/ \E t \in Waiters, e \in Awaited : WaitFor(t, e)

EventSpec == EventInit /\ [][EventNext]_eventVars

-----------------------------------------------------------------------------
(* Properties.                                                             *)

Control == [id : Ids, left : 0..MaxCount, signal : Signals, value : Values]
CallSet == [op : {"send", "run", "ran"}, net : Nets, at : Nat \ {0}]

EventTypes ==
    /\ value \in [Signals -> Bit4]
    /\ bits \in [Events -> UNION {[Inputs[e] \cap Signals -> Bit4] : e \in Events}]
    /\ ctls \in [Events -> Seq(Control)]
    /\ last \in [Events -> Nat]
    /\ threads \in [Events -> Seq(Waiters)]
    /\ calls \in Seq(CallSet) /\ aborted \in BOOLEAN
    /\ \A e \in Events :
          /\ bits[e] \in [Inputs[e] \cap Signals -> Bit4]
          /\ last[e] <= Len(ctls[e])
          /\ IsInjective(threads[e])

(* Every variable has its type, last points into its list, and only an      *)
(* assignment that is being made has no event left to wait for             *)
(* (waitable_hooks_s, event.h:123-138).                                    *)
EventTypeOK ==
    /\ EventTypes
    /\ Idle => \A e \in Events : \A i \in DOMAIN ctls[e] : ctls[e][i].left > 0

(* The list that the loop edits through last while values travel, and that  *)
(* schedule_evctl extends through last, holds between two instructions all  *)
(* pending assignments of the event in the order they were made, each with  *)
(* the events it still has to wait for; none that is owed is left           *)
(* (event.cc:35-45, 124-125).                                              *)
ControlsKept ==
    /\ EventTypeOK
    /\ Idle => \A e \in Events :
          promised[e] = [i \in DOMAIN ctls[e] |-> [id |-> ctls[e][i].id, left |-> ctls[e][i].left]]

(* Of the assignments that an event has released, an earlier one is never  *)
(* made after a later one, although each makes further events run inside it *)
(* (event.cc:36-45).                                                       *)
FirstReleased(e, i) ==
    promised[e][i].left = 0 /\ \A j \in 1..(i-1) : promised[e][j].left > 0

Ordered ==
    \A e \in Events : Len(promised'[e]) < Len(promised[e]) =>
        \E i \in DOMAIN promised[e] :
            FirstReleased(e, i) /\ promised'[e] = RemoveAt(promised[e], i)
InOrder == [][Ordered]_eventVars

(* When a value has been sent everywhere, no thread waits on for an event   *)
(* that has happened, directly or as part of an "or" event                 *)
(* (event.cc:48-52, 584-590).                                              *)
WaitersWoken == Idle => due = {}

(* Assignments nest, and a signal can change again while its last change is *)
(* still on its way; every edge functor has nevertheless seen the value the *)
(* signal has in the end, from which it will tell the next edge             *)
(* (event.cc:225-239, 367-403).                                            *)
LatestSeen ==
    Idle => \A e \in Events, s \in Signals : s \in Inputs[e] => bits[e][s] = value[s]

(* event.cc:65 asserts that a control that is still in the list has events  *)
(* to wait for.                                                            *)
NotAborted == ~aborted

-----------------------------------------------------------------------------
(* What holds in the middle of the nested calls; EventControlProofs shows  *)
(* that every step keeps it.                                               *)

(* The lists of the nets hold the events with an input there, each from    *)
(* when it is compiled, and values are sent only when all are.             *)
NetlistOK ==
    /\ compiled \subseteq Events /\ (calls # <<>> => compiled = Events)
    /\ fanout \in [Nets -> Seq(Events)]
    /\ \A n \in Nets : \A i \in DOMAIN fanout[n] : n \in Inputs[fanout[n][i]]
    /\ \A e \in compiled : \A n \in Inputs[e] : e \in ToSet(fanout[n])

(* The calls: only the innermost can be in the loop over the controls.     *)
InControls(f, e) == f.op \in {"run", "ran"} /\ f.net = e

CallsOK ==
    \A k \in DOMAIN calls :
        /\ calls[k].op = "send" => calls[k].at <= Len(fanout[calls[k].net])
        /\ calls[k].op # "send" => calls[k].net \in Events
        /\ calls[k].op = "run" => k = 1

Promise == [id : Ids, left : 0..MaxCount]

Distinct(list) == \A i, j \in DOMAIN list : list[i].id = list[j].id => i = j

PromisesOK ==
    /\ promised \in [Events -> Seq(Promise)]
    /\ \A e \in Events : Distinct(promised[e])

(* What is left to wait for, before and after the present happening counts. *)
Owing(c)     == [id |-> c.id, left |-> c.left]
LessOwing(c) == [id |-> c.id, left |-> c.left - 1]

(* The controls of e when no call runs them, ...                           *)
Kept(e) ==
    /\ last[e] = Len(ctls[e]) /\ Len(promised[e]) = Len(ctls[e])
    /\ \A i \in DOMAIN ctls[e] : ctls[e][i].left > 0 /\ promised[e][i] = Owing(ctls[e][i])

(* ... those that the innermost loop over them has passed, ...             *)
Passed(e, at) ==
    /\ last[e] = at - 1
    /\ \A i \in 1..(at - 1) :
          /\ ctls[e][i].left > 0
          /\ i \in DOMAIN promised[e] /\ promised[e][i] = Owing(ctls[e][i])

(* ... and those it comes to, up to one that an outer loop is running; the *)
(* promises of those made before it are gone.                              *)
AllWait(e, at, i) == \A j \in at..i : ctls[e][j].left > 0

Ahead(e, at, gone) ==
    \A i \in at..Len(ctls[e]) : AllWait(e, at, i) =>
        i - gone \in DOMAIN promised[e] /\ promised[e][i - gone] = LessOwing(ctls[e][i])

Running(e, at) ==
    at \in 1..(Len(ctls[e]) + 1) /\ Passed(e, at) /\ Ahead(e, at, 0)

Assigning(e, at) ==
    /\ at \in DOMAIN ctls[e] /\ ctls[e][at].left = 0
    /\ Passed(e, at) /\ Ahead(e, at + 1, 1)

Doing(e, f) == IF f.op = "run" THEN Running(e, f.at) ELSE Assigning(e, f.at)

(* A loop in no other loop of e comes to the end of the list; one in       *)
(* another comes upon the control that the other is running.               *)
Alone(e, f) ==
    IF f.op = "run"
    THEN AllWait(e, f.at, Len(ctls[e])) /\ Len(promised[e]) = Len(ctls[e])
    ELSE AllWait(e, f.at + 1, Len(ctls[e])) /\ Len(promised[e]) = Len(ctls[e]) - 1

Blocked(e, f) ==
    \E i \in DOMAIN ctls[e] :
        ctls[e][i].left = 0 /\ IF f.op = "run" THEN i >= f.at ELSE i > f.at

Without(cs, e)      == \A k \in DOMAIN cs : ~InControls(cs[k], e)
Innermost(cs, e, k) == InControls(cs[k], e) /\ \A l \in 1..(k - 1) : ~InControls(cs[l], e)
Only(cs, e, k)      == \A l \in (k + 1)..Len(cs) : ~InControls(cs[l], e)

ControlsOK(e) ==
    /\ Without(calls, e) => Kept(e)
    /\ \A k \in DOMAIN calls : Innermost(calls, e, k) =>
          /\ Doing(e, calls[k])
          /\ IF Only(calls, e, k) THEN Alone(e, calls[k]) ELSE Blocked(e, calls[k])

(* A thread that should wake waits for an event that a call will reach.    *)
Reached(f) ==
    IF f.op # "send" THEN Including(f.net)
    ELSE IF f.net \in Events
         THEN UNION {Including(fanout[f.net][i]) : i \in f.at..Len(fanout[f.net])}
         ELSE {}

DueReached ==
    \A t \in due : \E k \in DOMAIN calls : \E o \in Reached(calls[k]) : t \in ToSet(threads[o])

(* A functor that has not seen the value of a signal has a send before it. *)
ToBeSeen(e, s, f) ==
    f.op = "send" /\ f.net = s /\ \E i \in f.at..Len(fanout[s]) : fanout[s][i] = e

SeenOrSent ==
    \A e \in Events, s \in Signals : s \in Inputs[e] =>
        bits[e][s] = value[s] \/ \E k \in DOMAIN calls : ToBeSeen(e, s, calls[k])

EventInv ==
    /\ EventTypes /\ NetlistOK /\ CallsOK /\ PromisesOK
    /\ \A e \in Events : ControlsOK(e)
    /\ DueReached /\ SeenOrSent
=============================================================================
