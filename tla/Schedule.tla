------------------------------ MODULE Schedule ------------------------------
(***************************************************************************)
(* The event scheduler of the vvp run time, vvp/schedule.cc.               *)
(*                                                                         *)
(* Pending events sit in a list of time cells (event_time_s).  A cell only *)
(* knows how long after the cell before it is due; the first one counts *)
(* from the current simulation time.  Each cell has one queue of events    *)
(* per region of the Verilog stratified event queue.                       *)
(*                                                                         *)
(* The handlers of the events (threads, functors, VPI call-backs) are the  *)
(* environment: while one of them runs it may call any of the schedule_*   *)
(* functions, $finish and $stop, any number of times.                      *)
(***************************************************************************)
EXTENDS Integers, Sequences, SequencesExt

CONSTANTS
    Delays,     \* the delays the clients ask for
    MaxEvents,  \* bound: events scheduled in one run
    MaxStops,   \* bound: $stop calls and SIGINTs in one run
    MaxRequests \* bound: both together, a stop counting half an event

ASSUME DelaysAssumption == Delays \subseteq Nat
ASSUME BoundsAssumption ==
    MaxEvents \in Nat /\ MaxStops \in Nat /\ MaxRequests \in Nat

(* The queues of a time cell, in the order the scheduler drains them. *)
Regions == {"start", "active", "nbassign", "rwsync", "rosync", "del_thr"}

(* The order of all the places an event can wait in, the lists of          *)
(* initialization events and of final events included.                     *)
Rank(r) ==
    CASE r = "init"     -> 0
      [] r = "start"    -> 1
      [] r = "active"   -> 2
      [] r = "nbassign" -> 3
      [] r = "rwsync"   -> 4
      [] r = "rosync"   -> 5
      [] r = "del_thr"  -> 6
      [] r = "final"    -> 7

VARIABLES
    list,       \* sched_list
    initList,   \* schedule_init_list
    finalList,  \* schedule_final_list
    runnable,   \* schedule_runnable
    stopped,    \* schedule_stopped_flag
    singleStep, \* schedule_single_step_flag
    time,       \* schedule_time
    simStarted, \* sim_started
    runFinals,  \* the local run_finals of schedule_simulate
    pc,         \* where schedule_simulate is
    cur,        \* the event whose run_run() is executing, 0 when there is none
    ev,         \* auxiliary: every event scheduled so far, in that order
    ran,        \* auxiliary: the events whose run_run() was called
    stops       \* auxiliary: $stop calls and SIGINTs so far

vars == <<list, initList, finalList, runnable, stopped, singleStep, time,
          simStarted, runFinals, pc, cur, ev, ran, stops>>

(***************************************************************************)
(* Time cells.  "at" is auxiliary: the absolute time the cell stands for,  *)
(* set when the cell is made.  The code has only "delay".                  *)
(***************************************************************************)
Cell == [delay : Nat, at : Nat, q : [Regions -> Seq(Nat)]]

NewCell(d, when) ==
    [delay |-> d, at |-> when, q |-> [r \in Regions |-> <<>>]]

Enqueue(cell, r, e) == [cell EXCEPT !.q[r] = Append(@, e)]

CellEvents(cell) == UNION {ToSet(cell.q[r]) : r \in Regions}

Pending == UNION {CellEvents(list[i]) : i \in DOMAIN list}

(***************************************************************************)
(* schedule_event_: find, or make, the cell that is d after the current    *)
(* time, and put the event at the end of one of its queues.                *)
(*                                                                         *)
(* Remaining(l, d)[i] is what is left of the delay when the walk stands at *)
(* cell i; the walk stops at the first cell that is the last one or is not *)
(* due earlier.                                                            *)
(***************************************************************************)
Remaining(l, d) ==
    LET rem[i \in 1..Len(l)] ==
            IF i = 1 THEN d ELSE rem[i-1] - l[i-1].delay
    IN  rem

Passes(l, rem, i) == i < Len(l) /\ l[i].delay < rem[i]

StopsAt(l, rem) ==
    CHOOSE k \in 1..Len(l) :
        /\ ~ Passes(l, rem, k)
        /\ \A i \in 1..(k-1) : Passes(l, rem, i)

(* Mutants: the cell behind a new one keeps its delay.                     *)
InFrontKeepsDelay(l, new) == <<new>> \o l
BetweenKeepsDelay(l, k, new) == InsertAt(l, k, new)

InFront(l, new) == <<new>> \o [l EXCEPT ![1].delay = @ - new.delay]

Between(l, k, new) == InsertAt([l EXCEPT ![k].delay = @ - new.delay], k, new)

ListWith(l, d, r, e, when) ==
    LET new(x) == Enqueue(NewCell(x, when), r, e)
    IN  IF l = <<>> THEN <<new(d)>>
        ELSE IF l[1].delay > d THEN InFront(l, new(d))
        ELSE LET rem == Remaining(l, d)
                 k   == StopsAt(l, rem)
             IN  IF l[k].delay > rem[k] THEN Between(l, k, new(rem[k]))
                 ELSE IF l[k].delay = rem[k] THEN [l EXCEPT ![k] = Enqueue(@, r, e)]
                 ELSE Append(l, new(rem[k] - l[k].delay))

(* schedule_event_push_: ahead of the active events of the current time.   *)
ListPushed(l, e, when) ==
    IF l = <<>> \/ l[1].delay > 0
    THEN ListWith(l, 0, "active", e, when)
    ELSE [l EXCEPT ![1].q["active"] = <<e>> \o @]

-----------------------------------------------------------------------------
Init ==
    /\ list = <<>> /\ initList = <<>> /\ finalList = <<>>
    /\ runnable = TRUE /\ stopped = FALSE /\ singleStep = FALSE
    /\ time = 0 /\ simStarted = FALSE /\ runFinals = FALSE
    /\ pc = "compile" /\ cur = 0
    /\ ev = <<>> /\ ran = {} /\ stops = 0

flags   == <<runnable, stopped, singleStep, stops>>
control == <<time, simStarted, runFinals, pc, cur, ran>>

(***************************************************************************)
(* The clients.  Code outside the scheduler runs inside the handler of an  *)
(* event, and at the points where schedule_simulate calls the simulation   *)
(* time call-backs of the VPI or the stop handler.  A thread that is being *)
(* deleted calls nothing.                                                  *)
(***************************************************************************)
ClientRuns ==
    \/ cur # 0 /\ pc # "delthr"
    \/ pc \in {"compile", "startsim", "nextsim", "stop", "postsim"}

(* A client asks too late when it asks for the start of a time step that   *)
(* has begun, or, in a read-only call-back, for anything in the present    *)
(* time step but a read-only call-back or the deletion of a thread.  The   *)
(* scheduler takes such an event all the same; only vpi_put_value refuses. *)
(* The field "late" is auxiliary.                                          *)
TooLate(d, r) ==
    /\ d = 0
    /\ \/ r = "start" /\ pc \notin {"nextsim", "start"}
       \/ r \notin {"rosync", "del_thr"} /\ pc = "rosync"

New(region, when, push, late) ==
    ev' = Append(ev, [rgn |-> region, due |-> when, pushed |-> push, late |-> late])

MayRequest(cost) == 2 * Len(ev) + stops + cost <= 2 * MaxRequests

CanSchedule == ClientRuns /\ Len(ev) < MaxEvents /\ MayRequest(2)

(* schedule_event_, as called by every schedule_* function; a thread is    *)
(* handed over for deletion without a delay.                               *)
Schedule(d, r) ==
    /\ CanSchedule
    /\ r = "del_thr" => d = 0
    /\ list' = ListWith(list, d, r, Len(ev) + 1, time + d)
    /\ New(r, time + d, FALSE, TooLate(d, r))
    /\ UNCHANGED <<initList, finalList, flags, control>>

(* schedule_vthread with push_flag and no delay. *)
Push ==
    /\ CanSchedule
    /\ list' = ListPushed(list, Len(ev) + 1, time)
    /\ New("active", time, TRUE, TooLate(0, "active"))
    /\ UNCHANGED <<initList, finalList, flags, control>>

(* schedule_init_*, called while the design is compiled and initialized,   *)
(* and schedule_functor before the simulation has started: too late in a   *)
(* cbStartOfSimulation call-back, when the loop over the list has ended.   *)
ScheduleInit ==
    /\ CanSchedule
    /\ ~ simStarted
    /\ initList' = Append(initList, Len(ev) + 1)
    /\ New("init", 0, FALSE, pc = "startsim")
    /\ UNCHANGED <<list, finalList, flags, control>>

(* schedule_final_vthread, called by the compiler. *)
ScheduleFinal ==
    /\ CanSchedule
    /\ pc = "compile"
    /\ finalList' = Append(finalList, Len(ev) + 1)
    /\ New("final", 0, FALSE, FALSE)
    /\ UNCHANGED <<list, initList, flags, control>>

(* schedule_finish: $finish, or "finish" at the stop prompt. *)
Finish ==
    /\ ClientRuns
    /\ runnable
    /\ runnable' = FALSE
    /\ UNCHANGED <<list, initList, finalList, stopped, singleStep, stops,
                   control, ev>>

(* Between signals_capture and signals_revert a SIGINT is a $stop. *)
SignalsCaptured ==
    pc \in {"top", "stop", "nextsim", "start", "select", "run", "rosync",
            "delthr", "final"}

(* schedule_stop, called by $stop, and signals_handler. *)
Stop ==
    /\ ClientRuns \/ SignalsCaptured
    /\ stops < MaxStops /\ MayRequest(1)
    /\ stops' = stops + 1
    /\ stopped' = TRUE
    /\ UNCHANGED <<list, initList, finalList, runnable, singleStep, control, ev>>

(* schedule_single_step: "step" at the stop prompt, which also resumes. *)
Step ==
    /\ pc = "stop"
    /\ ~ singleStep
    /\ stops < MaxStops /\ MayRequest(1)
    /\ stops' = stops + 1
    /\ singleStep' = TRUE
    /\ UNCHANGED <<list, initList, finalList, runnable, stopped, control, ev>>

Client ==
    \/ \E d \in Delays, r \in Regions : Schedule(d, r)
    \/ Push \/ ScheduleInit \/ ScheduleFinal
    \/ Finish \/ Stop \/ Step

-----------------------------------------------------------------------------
(***************************************************************************)
(* schedule_simulate.                                                      *)
(***************************************************************************)
Goto(l) == pc' = l /\ UNCHANGED <<cur, ran>>

(* Take the event from its queue and call its run_run().                   *)
Run(e) == cur' = e /\ ran' = ran \cup {e}

(* run_run() returns to the loop that called it.                           *)
Return ==
    /\ cur # 0
    /\ cur' = 0
    /\ pc' = IF pc = "run" THEN "top" ELSE pc
    /\ UNCHANGED <<list, initList, finalList, flags, time, simStarted,
                   runFinals, ev, ran>>

(* The end of compile call-backs have returned. *)
EndOfCompile ==
    /\ pc = "compile"
    /\ Goto("init")
    /\ UNCHANGED <<list, initList, finalList, flags, time, simStarted,
                   runFinals, ev>>

RunInit ==
    /\ pc = "init" /\ cur = 0
    /\ initList # <<>>
    /\ Run(Head(initList))
    /\ initList' = Tail(initList)
    /\ UNCHANGED <<list, finalList, flags, time, simStarted, runFinals, pc, ev>>

InitDone ==
    /\ pc = "init" /\ cur = 0
    /\ initList = <<>>
    /\ Goto("startsim")
    /\ UNCHANGED <<list, initList, finalList, flags, time, simStarted,
                   runFinals, ev>>

(* The start of simulation call-backs have returned; the loop is entered,  *)
(* or skipped when $finish was called already.                             *)
StartLoop ==
    /\ pc = "startsim"
    /\ simStarted' = TRUE
    /\ runFinals' = runnable
    /\ Goto(IF runnable THEN "top" ELSE "final")
    /\ UNCHANGED <<list, initList, finalList, flags, time, ev>>

(* Leave the loop: schedule_runnable = run_finals. *)
LeaveLoop ==
    /\ Goto("final")
    /\ runnable' = runFinals
    /\ UNCHANGED <<list, initList, finalList, stopped, singleStep, stops,
                   time, simStarted, runFinals, ev>>

Empty ==
    /\ pc = "top"
    /\ list = <<>>
    /\ LeaveLoop

(* Mutant: the stop flag is not cleared. *)
EnterStopForever ==
    /\ pc = "top"
    /\ list # <<>>
    /\ stopped
    /\ Goto("stop")
    /\ UNCHANGED <<list, initList, finalList, flags, time, simStarted,
                   runFinals, ev>>

EnterStop ==
    /\ pc = "top"
    /\ list # <<>>
    /\ stopped
    /\ stopped' = FALSE
    /\ Goto("stop")
    /\ UNCHANGED <<list, initList, finalList, runnable, singleStep, stops,
                   time, simStarted, runFinals, ev>>

(* stop_handler returns. *)
Resume ==
    /\ pc = "stop"
    /\ runnable
    /\ Goto("top")
    /\ UNCHANGED <<list, initList, finalList, flags, time, simStarted,
                   runFinals, ev>>

FinishFromStop ==
    /\ pc = "stop"
    /\ ~ runnable
    /\ LeaveLoop

AtTop == pc = "top" /\ list # <<>> /\ ~ stopped

(* Mutant: $finish takes effect as soon as the handler has returned.       *)
BreakAtOnce ==
    /\ AtTop
    /\ ~ runnable
    /\ LeaveLoop

(* $finish takes effect when time would advance.                           *)
Break ==
    /\ AtTop
    /\ list[1].delay > 0
    /\ ~ runnable
    /\ LeaveLoop

(* Mutant: the first cell keeps its delay when time has advanced to it.    *)
AdvanceKeepsDelay ==
    /\ AtTop
    /\ list[1].delay > 0
    /\ runnable
    /\ time' = time + list[1].delay
    /\ Goto("nextsim")
    /\ UNCHANGED <<list, initList, finalList, flags, simStarted, runFinals, ev>>

Advance ==
    /\ AtTop
    /\ list[1].delay > 0
    /\ runnable
    /\ time' = time + list[1].delay
    /\ list' = [list EXCEPT ![1].delay = 0]
    /\ Goto("nextsim")
    /\ UNCHANGED <<initList, finalList, flags, simStarted, runFinals, ev>>

(* The next simulation time call-backs have returned. *)
NextSimTime ==
    /\ pc = "nextsim"
    /\ Goto("start")
    /\ UNCHANGED <<list, initList, finalList, flags, time, simStarted,
                   runFinals, ev>>

(* Run the first event of a queue of the current cell.                     *)
RunFrom(r) ==
    LET q == list[1].q[r] IN
    /\ q # <<>>
    /\ Run(Head(q))
    /\ list' = [list EXCEPT ![1].q[r] = Tail(q)]

RunStart ==
    /\ pc = "start" /\ cur = 0
    /\ RunFrom("start")
    /\ UNCHANGED <<initList, finalList, flags, time, simStarted, runFinals,
                   pc, ev>>

(* The current cell is ready to be searched for an event: the loop over    *)
(* the start events has ended, or time does not advance.                   *)
Ready ==
    \/ pc = "start" /\ cur = 0 /\ list[1].q["start"] = <<>>
    \/ AtTop /\ list[1].delay = 0

(* Mutant: the read-write sync events come before the assignments.         *)
SourceSyncFirst(cell) ==
    IF cell.q["active"] # <<>> THEN "active"
    ELSE IF cell.q["rwsync"] # <<>> THEN "rwsync"
    ELSE IF cell.q["nbassign"] # <<>> THEN "nbassign"
    ELSE "rosync"

(* Where the next event of a cell comes from: nbassign and rwsync become   *)
(* the active queue when the ones before them are empty.                   *)
Source(cell) ==
    IF cell.q["active"] # <<>> THEN "active"
    ELSE IF cell.q["nbassign"] # <<>> THEN "nbassign"
    ELSE IF cell.q["rwsync"] # <<>> THEN "rwsync"
    ELSE "rosync"

Promoted(cell) ==
    LET from == Source(cell) IN
    IF from = "active" THEN cell
    ELSE [cell EXCEPT !.q["active"] = cell.q[from], !.q[from] = <<>>]

Select ==
    /\ Ready
    /\ Source(list[1]) # "rosync"
    /\ LET cell == Promoted(list[1])
           q    == cell.q["active"]
       IN  /\ Run(Head(q))
           /\ list' = [list EXCEPT ![1] = [cell EXCEPT !.q["active"] = Tail(q)]]
    /\ pc' = "run"
    /\ stopped' = (stopped \/ singleStep)
    /\ singleStep' = FALSE
    /\ UNCHANGED <<initList, finalList, runnable, stops, time, simStarted,
                   runFinals, ev>>

(* run_rosync *)
StartRosync ==
    /\ Ready
    /\ Source(list[1]) = "rosync"
    /\ Goto("rosync")
    /\ UNCHANGED <<list, initList, finalList, flags, time, simStarted,
                   runFinals, ev>>

RunRosync ==
    /\ pc = "rosync" /\ cur = 0
    /\ RunFrom("rosync")
    /\ UNCHANGED <<initList, finalList, flags, time, simStarted, runFinals,
                   pc, ev>>

(* Mutant: run_rosync takes only the events it finds when it starts.       *)
RosyncDoneEarly ==
    /\ pc = "rosync" /\ cur = 0
    /\ list[1].q["rosync"] = <<>> \/ list[1].q["del_thr"] # <<>>
    /\ Goto("delthr")
    /\ UNCHANGED <<list, initList, finalList, flags, time, simStarted,
                   runFinals, ev>>

RosyncDone ==
    /\ pc = "rosync" /\ cur = 0
    /\ list[1].q["rosync"] = <<>>
    /\ Goto("delthr")
    /\ UNCHANGED <<list, initList, finalList, flags, time, simStarted,
                   runFinals, ev>>

RunDelThr ==
    /\ pc = "delthr" /\ cur = 0
    /\ RunFrom("del_thr")
    /\ UNCHANGED <<initList, finalList, flags, time, simStarted, runFinals,
                   pc, ev>>

(* Mutant: a cell that still holds events is looked at once more.          *)
DropCellEmpty ==
    /\ pc = "delthr" /\ cur = 0
    /\ list[1].q["del_thr"] = <<>>
    /\ list' = IF CellEvents(list[1]) = {} THEN Tail(list) ELSE list
    /\ Goto("top")
    /\ UNCHANGED <<initList, finalList, flags, time, simStarted, runFinals, ev>>

(* The cell is deleted with whatever it still holds. *)
DropCell ==
    /\ pc = "delthr" /\ cur = 0
    /\ list[1].q["del_thr"] = <<>>
    /\ list' = Tail(list)
    /\ Goto("top")
    /\ UNCHANGED <<initList, finalList, flags, time, simStarted, runFinals, ev>>

RunFinal ==
    /\ pc = "final" /\ cur = 0
    /\ runnable
    /\ finalList # <<>>
    /\ Run(Head(finalList))
    /\ finalList' = Tail(finalList)
    /\ UNCHANGED <<list, initList, flags, time, simStarted, runFinals, pc, ev>>

FinalDone ==
    /\ pc = "final" /\ cur = 0
    /\ ~ runnable \/ finalList = <<>>
    /\ Goto("postsim")
    /\ UNCHANGED <<list, initList, finalList, flags, time, simStarted,
                   runFinals, ev>>

(* The post-simulation call-backs have returned. *)
Exit ==
    /\ pc = "postsim"
    /\ Goto("done")
    /\ UNCHANGED <<list, initList, finalList, flags, time, simStarted,
                   runFinals, ev>>

Simulate ==
    \/ Return
    \/ EndOfCompile \/ RunInit \/ InitDone \/ StartLoop
    \/ Empty \/ EnterStop \/ Resume \/ FinishFromStop \/ Break
    \/ Advance \/ NextSimTime \/ RunStart \/ Select
    \/ StartRosync \/ RunRosync \/ RosyncDone \/ RunDelThr \/ DropCell
    \/ RunFinal \/ FinalDone \/ Exit

(* vvp exits after schedule_simulate. *)
Done == pc = "done" /\ UNCHANGED vars

Next == Client \/ Simulate \/ Done

Spec == Init /\ [][Next]_vars

(* Handlers and call-backs return, the user leaves the stop prompt, and    *)
(* the scheduler's loop then goes on.                                      *)
FairSpec == Spec /\ WF_vars(Simulate)

-----------------------------------------------------------------------------
(***************************************************************************)
(* Properties.                                                             *)
(***************************************************************************)
Places == {"compile", "init", "startsim", "top", "stop", "nextsim", "start",
           "run", "rosync", "delthr", "final", "postsim", "done"}

EventRecord == [rgn : Regions \cup {"init", "final"}, due : Nat, pushed : BOOLEAN,
                late : BOOLEAN]

Ids == 1..Len(ev)

(* The type of every variable. Every event a list or a queue names has     *)
(* been scheduled (schedule.cc:557-578).                                   *)
TypeOK ==
    /\ list \in Seq(Cell)
    /\ initList \in Seq(Nat) /\ finalList \in Seq(Nat)
    /\ runnable \in BOOLEAN /\ stopped \in BOOLEAN /\ singleStep \in BOOLEAN
    /\ time \in Nat
    /\ simStarted \in BOOLEAN /\ runFinals \in BOOLEAN
    /\ pc \in Places
    /\ cur \in Nat /\ cur <= Len(ev)
    /\ ev \in Seq(EventRecord)
    /\ ran \subseteq Ids
    /\ stops \in Nat
    /\ Pending \subseteq Ids

(* Where an event of a time cell is being handled. *)
InStep == pc \in {"start", "run", "rosync", "delthr"}

(* An event runs at the very time it was scheduled for, whatever was put   *)
(* into the list, and in whatever order, after it: the time differences    *)
(* kept by schedule_event_ add up (schedule.cc:667-722, 1117-1127).        *)
RunsOnTime == cur # 0 /\ InStep => ev[cur].due = time

(* The list is sorted, and every cell is as far from the previous one as   *)
(* its delay says; the first one is measured from the simulation time.     *)
(* Its clients rely on it: a queue holds the events of one time only       *)
(* (schedule.cc:672-722).                                                  *)
CellsInOrder ==
    /\ \A i \in DOMAIN list :
        LET from == IF i = 1 THEN time ELSE list[i-1].at
        IN  /\ list[i].at = from + list[i].delay
            /\ i > 1 => list[i].delay > 0
    /\ \A i \in DOMAIN list, r \in Regions :
        \A e \in ToSet(list[i].q[r]) : ev[e].due = list[i].at

(* The first cell is the current time step from the moment time has        *)
(* advanced to it until it is deleted (schedule.cc:1113-1163).             *)
CellOpen ==
    pc \in {"nextsim", "start", "run", "rosync", "delthr"} =>
        list # <<>> /\ list[1].delay = 0

(* What an inductive argument for the above needs besides: handlers only   *)
(* run where the loops call them, and the lists name scheduled events.     *)
HandlerPlace ==
    cur # 0 => pc \in {"init", "start", "run", "rosync", "delthr", "final"}

ListsKnown == ToSet(initList) \subseteq Ids /\ ToSet(finalList) \subseteq Ids

(* Types, the order of the cells, and the promise that an event runs on    *)
(* time: an inductive invariant whatever the clients ask for.              *)
Timing ==
    /\ TypeOK
    /\ ListsKnown
    /\ CellsInOrder
    /\ CellOpen
    /\ HandlerPlace
    /\ RunsOnTime

(* What the agenda (see below) asks of the order of two events that are    *)
(* due at the same time, and the order in which they are about to run.     *)
Precedes(x, y) ==
    /\ x < y
    /\ Rank(ev[x].rgn) <= Rank(ev[y].rgn)
    /\ ~ ev[y].pushed

MayRunBefore(x, y) == x # y /\ ~ Precedes(y, x)

(* In a queue events run from its head, and in a cell the queues one after *)
(* the other; an event may have moved to a queue drained earlier.          *)
CellSorted(cell) ==
    \A r \in Regions :
        /\ \A j, k \in DOMAIN cell.q[r] : j < k => MayRunBefore(cell.q[r][j], cell.q[r][k])
        /\ \A s \in Regions : Rank(r) < Rank(s) =>
              \A x \in ToSet(cell.q[r]), y \in ToSet(cell.q[s]) : MayRunBefore(x, y)
        /\ \A x \in ToSet(cell.q[r]) : ev[x].rgn \in Regions /\ Rank(r) <= Rank(ev[x].rgn)

CellsSorted == \A i \in DOMAIN list : CellSorted(list[i])

(* A cell that is not the current time step has something to do.           *)
CellsUsed ==
    \A i \in DOMAIN list : i > 1 \/ list[i].delay > 0 => CellEvents(list[i]) # {}

(* The queues of the current cell that have been drained for good.         *)
Drained ==
    (IF pc \in {"nextsim", "start"} THEN {} ELSE {"start"})
        \cup (IF pc \in {"rosync", "delthr"} THEN {"active", "nbassign", "rwsync"} ELSE {})
        \cup (IF pc = "delthr" THEN {"rosync"} ELSE {})

(* They hold only what was asked for too late, which waits nowhere else.   *)
StepDrained ==
    \A i \in DOMAIN list, r \in Regions :
        \A e \in ToSet(list[i].q[r]) : ev[e].late <=> ev[e].due = time /\ r \in Drained

(* The initialization events come before everything else, and what is left *)
(* of them then was asked for too late; the final events come last.        *)
InitFirst ==
    /\ \A x \in ToSet(initList) : ev[x].rgn = "init" /\ ev[x].due = 0
    /\ \A j, k \in DOMAIN initList : j < k => initList[j] < initList[k]
    /\ ~ simStarted <=> pc \in {"compile", "init", "startsim"}
    /\ ~ simStarted => time = 0
    /\ \A x \in ToSet(initList) : ev[x].late <=> pc \notin {"compile", "init"}
    /\ \A x \in ToSet(finalList) : ev[x].rgn = "final" /\ ~ ev[x].late
    /\ \A x \in ran : ~ ev[x].late

Sorted == CellsSorted /\ CellsUsed /\ StepDrained /\ InitFirst

(* The inductive invariant of the scheduler: types, the order of the cells *)
(* and the promise that an event runs on time; and the order in which the  *)
(* events of a time step run.                                              *)
IInv == Timing /\ Sorted

(* No scheduled event disappears unless it was asked for too late: until   *)
(* it has run it is in a list that the scheduler still looks at, whatever  *)
(* read-only and other call-backs have put beside it.  The list of         *)
(* initialization events is such a list until the simulation as a whole    *)
(* starts (schedule.cc:552-564, 1019-1051, 1071-1081).                     *)
NoEventLost ==
    \A e \in Ids : ~ ev[e].late =>
        \/ e \in ran \cup Pending \cup ToSet(finalList)
        \/ e \in ToSet(initList) /\ pc \in {"compile", "init"}

(* A call-back for the start of a time step is kept until it has run; this *)
(* fails for the time step that has begun (schedule.cc:552-556, 981-990).  *)
StartsKept == \A e \in Ids : ev[e].rgn = "start" => e \in ran \cup Pending

(* The read-only call-backs come last in a time step: when they have begun *)
(* every other event of the time that was asked for before has run, and    *)
(* nothing that they or the handlers after them ask for in the present     *)
(* time step ever does, so that they cannot change a value in it; it is    *)
(* deleted with the cell, with SCHEDULER ERROR (schedule.cc:1009-1051;     *)
(* schedule.h:167-172).                                                    *)
ReadOnlyLast ==
    /\ pc \in {"rosync", "delthr"} =>
        \A e \in Pending : ev[e].due = time /\ ~ ev[e].late =>
            ev[e].rgn \in {"rosync", "del_thr"}
    /\ \A e \in ran : ~ ev[e].late

(* $finish ends the simulation with the time step in which it was called:  *)
(* time stands still, and when the loop is left, other than from the stop  *)
(* prompt, everything has run that was due, what was asked for after       *)
(* $finish included (schedule.cc:1093-1163).                               *)
FinishEndsStep ==
    [][/\ ~ runnable => time' = time
       /\ pc = "top" /\ pc' = "final" =>
           \A e \in Ids : ev[e].due <= time /\ ev[e].rgn # "final" /\ ~ ev[e].late
               => e \in ran]_vars

(* Every pending event that was asked for in time runs in the end, $stop   *)
(* and interrupts notwithstanding, unless the simulation is finished       *)
(* (schedule.h:154-157).                                                   *)
EveryEventRuns ==
    \A e \in 1..MaxEvents :
        (pc = "top" /\ e \in Pending /\ ~ ev[e].late) ~> (e \in ran \/ ~ runnable)

-----------------------------------------------------------------------------
(***************************************************************************)
(* The list of time cells implements the agenda, which knows nothing of    *)
(* what is asked for too late.                                             *)
(***************************************************************************)
AgendaEvent(e) ==
    [id |-> e, due |-> ev[e].due, rank |-> Rank(ev[e].rgn),
     pushed |-> ev[e].pushed]

AgendaTodo ==
    {AgendaEvent(e) : e \in {x \in Pending \cup ToSet(initList) : ~ ev[x].late}}
AgendaRunning == IF cur = 0 \/ pc = "final" THEN {} ELSE {AgendaEvent(cur)}

A == INSTANCE Agenda WITH
        now <- time, todo <- AgendaTodo, running <- AgendaRunning

(* The scheduler never does what the agenda does not allow: it starts an   *)
(* event when it is due and nothing precedes it, and moves time only to    *)
(* the next due time and only when nothing is left to do at the current    *)
(* one.                                                                    *)
ImplementsAgenda == A!ASpec
=============================================================================
