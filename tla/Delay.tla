------------------------------- MODULE Delay -------------------------------
(***************************************************************************)
(* The delay node of a net, vvp_fun_delay of vvp/delay.cc: a value that     *)
(* arrives at the input leaves at the output after the delay of its         *)
(* transition, unless the input changes again meanwhile (an inertial        *)
(* delay).  The node keeps a list of the values on their way and asks the   *)
(* scheduler for one call of run_run per value; it cannot take a call back. *)
(***************************************************************************)
EXTENDS Integers, Sequences, FiniteSetsExt

CONSTANTS
    Nodes,       \* the nodes that are compiled, see shape
    Delays,      \* the delays a transition may have
    MaxTime,     \* bound: simulation time
    MaxInputs,   \* bound: values received
    MaxRaces     \* by kind of node, how many values may arrive at one time
                 \* while an event of that time has still to run

ASSUME DelaysAssumption ==
    Delays \subseteq Nat /\ \E m \in Delays : \A d \in Delays : d <= m
ASSUME NodesAssumption ==
    Nodes \subseteq [kind : {"vec4", "real"}, width : Nat \ {0}, vary : BOOLEAN]
ASSUME BoundsAssumption ==
    MaxTime \in Nat /\ MaxInputs \in Nat /\ MaxRaces \in [{"vec4", "real"} -> Nat]

VARIABLES
    shape,    \* the kind of its values ("vec4", and vec8 alike, or "real"),
              \* their width, and whether its delays come from ports 1 to 3
    rise, fall, decay, minDelay, \* delay_
    ignoreDecay,
    cur,      \* cur_vec4_, cur_real_
    initial,  \* initial_: has no value been sent to the end?
    sending,  \* is run_run in its call of send_vec4, send_vec8 or send_real?
    list,     \* list_, oldest event first
    out,      \* the value last sent to the net
    now,      \* schedule_simtime()
    calls,    \* pending calls of run_run, by their time
    in,       \* auxiliary: the value last received
    since,    \* auxiliary: when it was received first
    least,    \* auxiliary: the least minDelay from then on
    fed,      \* auxiliary: did it arrive inside the first send of run_run?
    inputs,   \* auxiliary: values received
    races     \* auxiliary: values received at the current time while an
              \* event was due

delay == <<rise, fall, decay, minDelay, ignoreDecay>>
node  == <<cur, initial, sending, list, out>>
aux   == <<in, since, least, fed, inputs, races>>
vars  == <<shape, delay, node, now, calls, aux>>

Kind       == shape.kind
Width      == shape.width
VaryDelays == shape.vary

Bit4 == {"0", "1", "X", "Z"}

(* A real only has to be equal to another or not. *)
Values == IF Kind = "real" THEN {0, 1, 2} ELSE [1..Width -> Bit4]
InitialValue == IF Kind = "real" THEN 0 ELSE [i \in 1..Width |-> "X"]

Times == 0..(MaxTime + Max(Delays))

-----------------------------------------------------------------------------
(* vvp_delay_t.  Variable delays are 0 until their nets have a value; with *)
(* two of them, set_ignore_decay makes the decay follow the other two.     *)
Init ==
    /\ shape \in Nodes
    /\ IF VaryDelays
       THEN rise = 0 /\ fall = 0 /\ decay = 0 /\ ignoreDecay \in BOOLEAN
       ELSE rise \in Delays /\ fall \in Delays /\ decay \in Delays /\ ignoreDecay = FALSE
    /\ minDelay = Min({rise, fall, decay})
    /\ cur = InitialValue /\ out = InitialValue
    /\ initial = TRUE /\ sending = FALSE
    /\ list = <<>>
    /\ now = 0
    /\ calls = [t \in Times |-> 0]
    /\ in = InitialValue
    /\ since = 0 /\ least = minDelay /\ fed = FALSE /\ inputs = 0 /\ races = 0

(* get_delay *)
GetDelay(from, to) ==
    CASE from = to -> 0
      [] from # to /\ to = "0" -> fall
      [] from # to /\ to = "1" -> rise
      [] from # to /\ to = "X" -> minDelay
      [] from # to /\ to = "Z" -> decay

(* The oldest event, when it has to run at the current time, stands for    *)
(* the output, which does not show it yet.  Until the first value is sent  *)
(* every bit is compared with the first one of cur, which is X but for the *)
(* values that return inside the first send of run_run.                    *)
Due == list # <<>> /\ Head(list).time = now
Reference ==
    IF Kind = "real" THEN cur
    ELSE IF initial THEN [i \in 1..Width |-> cur[1]]
    ELSE IF Due THEN Head(list).val
    ELSE cur

(* The slowest bit decides.  A vector with strengths (recv_vec8) is one of *)
(* its values here: get_delay looks at value() alone, so that a change of  *)
(* nothing but strengths, which this model has not, would have no delay.   *)
UseDelay(bit) ==
    IF Kind = "real" THEN minDelay
    ELSE Max({GetDelay(Reference[i], bit[i]) : i \in 1..Width})

(* Mutant: nothing is taken away.                                          *)
CleanedNone == list

(* clean_pulse_events_: events are taken away up to the first that is due. *)
Cleaned ==
    LET due == {i \in DOMAIN list : list[i].time <= now}
    IN  IF due = {} THEN <<>> ELSE SubSeq(list, Min(due), Len(list))

-----------------------------------------------------------------------------
(***************************************************************************)
(* A value arrives at port 0 (recv_vec4, recv_vec8, recv_real).            *)
(***************************************************************************)
Receive(bit) ==
    /\ inputs < MaxInputs
    /\ Due => races < MaxRaces[Kind]
    /\ inputs' = inputs + 1
    /\ races' = IF Due THEN races + 1 ELSE races
    /\ in' = bit
    /\ since' = IF bit = in THEN since ELSE now
    /\ least' = IF bit = in THEN least ELSE minDelay
    /\ fed' = ((sending /\ initial) \/ (bit = in /\ fed))
    /\ UNCHANGED <<shape, delay, now>>

Repeats(bit) == list # <<>> /\ Head(list).val = bit

(* Mutant: the output is looked at instead.                                *)
SkipRepeatedOutput(bit) ==
    /\ Receive(bit)
    /\ Repeats(bit) \/ cur = bit
    /\ UNCHANGED <<node, calls>>

(* Nothing to do: the value is on its way already.                         *)
SkipRepeated(bit) ==
    /\ Receive(bit)
    /\ Repeats(bit)
    /\ UNCHANGED <<node, calls>>

(* A real that the output shows already. *)
SkipShown(bit) ==
    /\ Kind = "real" /\ Receive(bit)
    /\ ~ Repeats(bit) /\ cur = bit
    /\ list' = Cleaned
    /\ UNCHANGED <<cur, initial, sending, out, calls>>

Delayed(bit) == ~ Repeats(bit) /\ (Kind = "real" => cur # bit)

SendNow(bit) ==
    /\ Receive(bit)
    /\ Delayed(bit) /\ UseDelay(bit) = 0 /\ Cleaned = <<>>
    /\ cur' = bit /\ out' = bit
    /\ initial' = FALSE
    /\ list' = <<>>
    /\ UNCHANGED <<sending, calls>>

Enqueue(bit) ==
    LET time == now + UseDelay(bit) IN
    /\ Receive(bit)
    /\ Delayed(bit) /\ (UseDelay(bit) # 0 \/ Cleaned # <<>>)
    /\ list' = Append(Cleaned, [time |-> time, val |-> bit])
    /\ calls' = [calls EXCEPT ![time] = @ + 1]
    /\ UNCHANGED <<cur, initial, sending, out>>

-----------------------------------------------------------------------------
(***************************************************************************)
(* A delay arrives at one of the ports 1 to 3.                             *)
(***************************************************************************)
(* calculate_min_delay_, with the new delays. *)
Recalculated ==
    /\ decay' = IF ignoreDecay THEN Min({rise', fall'}) ELSE decay
    /\ minDelay' = Min({rise', fall', decay'})

(* set_rise and set_fall, after the assignment of val.                     *)
Lowered(val) ==
    IF val < minDelay
    THEN minDelay' = val /\ decay' = IF ignoreDecay THEN val ELSE decay
    ELSE Recalculated

SetDelay(val) ==
    /\ VaryDelays
    /\ \/ rise' = val /\ fall' = fall /\ Lowered(val)
       \/ rise' = rise /\ fall' = val /\ Lowered(val)
       \/ /\ ~ ignoreDecay
          /\ decay' = val
          /\ minDelay' = IF val < minDelay THEN val ELSE Min({rise, fall, val})
          /\ UNCHANGED <<rise, fall>>
    /\ least' = Min({least, minDelay'})
    /\ UNCHANGED <<shape, ignoreDecay, node, now, calls, in, since, fed, inputs, races>>

-----------------------------------------------------------------------------
(***************************************************************************)
(* The scheduler.                                                          *)
(***************************************************************************)
Called == ~ sending /\ calls[now] > 0 /\ calls' = [calls EXCEPT ![now] = @ - 1]

(* Mutant: events of the current time are left for later.                  *)
ToRunLate == list # <<>> /\ Head(list).time < now

(* run_run: is there an event to run?                                      *)
ToRun == list # <<>> /\ Head(list).time <= now

(* The call is for an event that was taken away meanwhile. *)
RunNothing ==
    /\ Called
    /\ ~ ToRun
    /\ UNCHANGED <<shape, delay, node, now, aux>>

(* run_run_vec4_, run_run_vec8_, run_run_real_: the event is out of the     *)
(* list when its value is sent, and the send may bring values and delays   *)
(* back to the ports of this node.                                         *)
RunDue ==
    /\ Called
    /\ ToRun
    /\ cur' = Head(list).val /\ out' = Head(list).val
    /\ list' = Tail(list)
    /\ sending' = TRUE
    /\ UNCHANGED <<shape, delay, initial, now, aux>>

(* The send returns to run_run, which has the first value behind it only   *)
(* now.                                                                    *)
Sent ==
    /\ sending
    /\ sending' = FALSE
    /\ initial' = FALSE
    /\ UNCHANGED <<shape, delay, cur, list, out, now, calls, aux>>

(* Time advances to the next event, of this node or of another. *)
Advance ==
    /\ ~ sending /\ calls[now] = 0 /\ now < MaxTime
    /\ now' = now + 1
    /\ races' = 0
    /\ UNCHANGED <<shape, delay, node, calls, in, since, least, fed, inputs>>

Next ==
    \/ \E bit \in Values :
        SkipRepeated(bit) \/ SkipShown(bit) \/ SendNow(bit) \/ Enqueue(bit)
    \/ \E val \in Delays : SetDelay(val)
    \/ RunNothing \/ RunDue \/ Sent \/ Advance

Spec == Init /\ [][Next]_vars

-----------------------------------------------------------------------------
(***************************************************************************)
(* Properties.                                                             *)
(***************************************************************************)
(* The type of every variable; no event is left behind by the time it has  *)
(* to run (delay.cc:476-482); and the cached minimum stays the minimum     *)
(* while single delays are raised and lowered (delay.cc:34-42, 120-149).   *)
TypeOK ==
    /\ shape \in Nodes
    /\ {rise, fall, decay, minDelay, least} \subseteq Delays \cup {0} /\ ignoreDecay \in BOOLEAN
    /\ {cur, out, in} \subseteq Values /\ {initial, sending, fed} \subseteq BOOLEAN
    /\ list \in Seq([time : Times, val : Values])
    /\ \A i \in DOMAIN list : list[i].time >= now
    /\ now \in 0..MaxTime /\ since \in 0..now
    /\ calls \in [Times -> Nat]
    /\ inputs \in 0..MaxInputs /\ races \in 0..MaxInputs
    /\ minDelay = Min({rise, fall, decay})
    /\ ignoreDecay => decay = Min({rise, fall})

(* The output, or the last event on its way to it, is the value last       *)
(* received, and no event is stuck in the list: every one has a call of    *)
(* the scheduler left, and they are in the order of time, so that the call *)
(* finds its event at the front.  When all have run the output is right    *)
(* (delay.cc:223-241, 314-332, 453-489).                                   *)
OutputFollows ==
    /\ out = cur
    /\ in = IF list = <<>> THEN out ELSE list[Len(list)].val
    /\ \A i \in 1..(Len(list) - 1) : list[i].time <= list[i+1].time
    /\ \A t \in Times : calls[t] >= Cardinality({i \in DOMAIN list : list[i].time = t})

(* The inductive invariant behind TypeOK, when at most one value arrives    *)
(* while an event is due: a second event waits only behind one that is due. *)
DelayInv ==
    /\ TypeOK
    /\ races <= inputs
    /\ out = cur /\ (initial => cur = InitialValue \/ sending)
    /\ Len(list) <= 2 /\ (Len(list) = 2 => Due /\ races # 0)
    /\ \A t \in Times : calls[t] >= Cardinality({i \in DOMAIN list : list[i].time = t})

(* And that behind the other properties, when for reals none arrives then:  *)
(* the latest event has the value received; it has waited for the delay of *)
(* its transition, of every bit if delays are fixed, or it is run in the    *)
(* time step of the race, or it came back inside the first send of run_run, *)
(* when the delay is taken for the changes of another value.               *)
Latest == list[Len(list)]
Before == IF Len(list) = 2 THEN Head(list).val ELSE out
FixedBits == Kind = "vec4" /\ ~ VaryDelays

Waited ==
    /\ Latest.time >= since + least
    /\ FixedBits => \A i \in 1..Width : Before[i] # Latest.val[i]
            => Latest.time >= since + GetDelay(Before[i], Latest.val[i])

FollowInv ==
    /\ DelayInv
    /\ in = IF list = <<>> THEN out ELSE Latest.val
    /\ list # <<>> => (races # 0 /\ Latest.time = now) \/ fed \/ Waited

(* Inertial delay: a value shows at the output only if the input still has *)
(* it, and has had it for a delay, or has lost it at this very time; and no *)
(* bit of a vector changes before its own delay is over, although the      *)
(* vector changes as a whole (delay.cc:223-249, 303-319).  A value that    *)
(* the first send of run_run brings back to the node has no such promise:  *)
(* initial_ is cleared after the send, so its bits are all compared with   *)
(* the first bit that is being sent (delay.cc:280-289, 486-487).           *)
PulsesRejected ==
    [][races = 0 =>
        /\ out' # out => out' = in' /\ (fed' \/ now >= since' + least')
        /\ Kind = "vec4" /\ ~ VaryDelays /\ ~ fed' =>
            \A i \in 1..Width : out'[i] # out[i] =>
                now >= since' + GetDelay(out[i], out'[i])]_vars

(* A value is skipped only when the most recent event has it already       *)
(* (delay.cc:189-191).                                                     *)
SkipsRepeats ==
    [][inputs' # inputs /\ list # <<>> /\ list' = list
            => in' = list[Len(list)].val]_vars
=============================================================================
