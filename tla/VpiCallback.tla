---------------------------- MODULE VpiCallback ----------------------------
(***************************************************************************)
(* VPI call-backs (vvp/vpi_callback.cc): how the run time keeps them, when  *)
(* it calls them and when it deletes them, while the C functions it calls   *)
(* register and remove call-backs and change values.  A change of a value   *)
(* inside a call-back runs the list of the same signal again, inside the    *)
(* walk over the list that has called it.                                  *)
(*                                                                         *)
(* One signal stands for all: lists of different signals share nothing.     *)
(***************************************************************************)
EXTENDS Naturals, Sequences, SequencesExt, FiniteSets

CONSTANTS
    MaxCallbacks,    \* bound: call-backs registered
    MaxDepth,        \* bound: calls inside each other
    RemoveSimulator, \* may a cbEndOfCompile, cbStartOfSimulation, ... call-back
                     \* be removed before it is called?
    NestedReap       \* may a call-back of the signal be removed inside two
                     \* walks over its list, or the list be walked again
                     \* inside a walk when it has a removed call-back?

ASSUME BoundsAssumption == MaxCallbacks \in Nat /\ MaxDepth \in Nat
ASSUME ClientsAssumption == RemoveSimulator \in BOOLEAN /\ NestedReap \in BOOLEAN

Callbacks == 1..MaxCallbacks

(* Reasons: a value change; the reasons of simulator_callback; those that   *)
(* make a scheduler event, read-only synch and the others.                 *)
Phases  == {"EndOfCompile", "StartOfSimulation", "NextSimTime", "EndOfSimulation"}
Syncs   == {"ReadOnlySynch", "ReadWriteSynch"}
Reasons == {"ValueChange"} \cup Phases \cup Syncs

(* The values of vpi_mode_flag.                                            *)
Modes == {"NONE", "COMPILETF", "CALLTF", "ROSYNC", "RWSYNC"}

VARIABLES
    stage,  \* where schedule_simulate is
    reason, \* of every call-back
    mem,    \* "unused", "live", "removed" (cb_rtn is null) or "deleted"
    next,   \* next, of the call-backs of the signal
    head,   \* vpi_callbacks_
    lists,  \* EndOfCompile, StartOfSimulation, NextSimTime, EndOfSimulation
    events, \* the call-backs with an event in the scheduler
    mode,   \* vpi_mode_flag
    calls   \* the calls that have not returned, innermost first

heap == <<reason, mem, next, head, lists, events>>
vars == <<stage, heap, mode, calls>>

Init ==
    /\ stage = "elaboration"
    /\ reason = [c \in Callbacks |-> "ValueChange"]
    /\ mem = [c \in Callbacks |-> "unused"]
    /\ next = [c \in Callbacks |-> 0]
    /\ head = 0
    /\ lists = [p \in Phases |-> <<>>]
    /\ events = {}
    /\ mode = "NONE" /\ calls = <<>>

-----------------------------------------------------------------------------
(* The innermost call.  "user" says that a function of the client runs.     *)

Call == Head(calls)
InCall(op, user) == calls # <<>> /\ Call.op = op /\ Call.user = user
ClientRuns == calls # <<>> /\ Call.user
Idle == calls = <<>>

Enter(call) == calls' = <<call>> \o calls
Become(call) == calls' = <<call>> \o Tail(calls)
Leave == calls' = Tail(calls)

Walks == {i \in DOMAIN calls : calls[i].op = "walk"}
AtRosync == \E i \in DOMAIN calls : calls[i].op = "sync" /\ reason[calls[i].cur] = "ReadOnlySynch"

Executing == {calls[i].cur : i \in {j \in DOMAIN calls : calls[j].op \in {"phase", "sync"}}}

(* What is deleted has no reason any more. *)
Delete(c) ==
    /\ mem' = [mem EXCEPT ![c] = "deleted"]
    /\ reason' = [reason EXCEPT ![c] = "ValueChange"]

With(state) == {c \in Callbacks : reason[c] = "ValueChange" /\ mem[c] = state}

-----------------------------------------------------------------------------
(* What a function of the client does.                                     *)

(* vpi_register_cb puts a call-back at the head of its list, or into the    *)
(* scheduler, which may not get a read-write one at rosync                 *)
(* (schedule.cc:1010-1012).                                                *)
Register(r) ==
    /\ ClientRuns
    /\ r = "ReadWriteSynch" => ~ AtRosync
    /\ \E c \in Callbacks :
        /\ mem[c] = "unused" /\ \A d \in 1..(c-1) : mem[d] # "unused"
        /\ mem' = [mem EXCEPT ![c] = "live"]
        /\ reason' = [reason EXCEPT ![c] = r]
        /\ IF r = "ValueChange"
           THEN head' = c /\ next' = [next EXCEPT ![c] = head]
           ELSE UNCHANGED <<head, next>>
        /\ lists' = IF r \in Phases THEN [lists EXCEPT ![r] = <<c>> \o @] ELSE lists
        /\ events' = IF r \in Syncs THEN events \cup {c} ELSE events
    /\ UNCHANGED <<stage, mode, calls>>

(* vpi_remove_cb clears cb_rtn.                                            *)
RemoveCb(c) ==
    /\ ClientRuns
    /\ mem[c] = "live"
    /\ reason[c] \in Phases => RemoveSimulator \/ c \in Executing
    /\ reason[c] = "ValueChange" => NestedReap \/ Cardinality(Walks) <= 1
    /\ mem' = [mem EXCEPT ![c] = "removed"]
    /\ UNCHANGED <<stage, reason, next, head, lists, events, mode, calls>>

(* vpi_put_value, or a value stored by a thread, walks the list of the      *)
(* signal.  It is refused at rosync.                                       *)
(* auxiliary: what the walk must call and what it must delete.              *)
Walk == [op |-> "walk", user |-> FALSE, cur |-> 0, next |-> head, prev |-> 0,
         saved |-> mode, call |-> With("live"), delete |-> With("removed")]

ChangeValue ==
    /\ ~ AtRosync
    /\ ClientRuns \/ (Idle /\ stage \in {"compiled", "running"})
    /\ Len(calls) < MaxDepth
    /\ NestedReap \/ Walks = {} \/ With("removed") = {}
    /\ Enter(Walk)
    /\ UNCHANGED <<stage, heap, mode>>

-----------------------------------------------------------------------------
(* run_vpi_callbacks.                                                      *)

AtCallback == InCall("walk", FALSE) /\ Call.next # 0
Cur == Call.next
Considered(c) == [Call EXCEPT !.cur = c, !.next = next[c], !.call = @ \ {c}]

(* callback_execute, which sets the mode and in the end puts it back.       *)
CallValue ==
    /\ AtCallback /\ mem[Cur] = "live"
    /\ Become([Considered(Cur) EXCEPT !.user = TRUE, !.saved = mode])
    /\ mode' = "RWSYNC"
    /\ UNCHANGED <<stage, heap>>

(* Mutant: the mode is NONE after every call-back.                          *)
CallReturnsToNone ==
    /\ InCall("walk", TRUE)
    /\ Become([Call EXCEPT !.user = FALSE, !.prev = Call.cur])
    /\ mode' = "NONE"
    /\ UNCHANGED <<stage, heap>>

CallReturns ==
    /\ InCall("walk", TRUE)
    /\ Become([Call EXCEPT !.user = FALSE, !.prev = Call.cur])
    /\ mode' = Call.saved
    /\ UNCHANGED <<stage, heap>>

(* The part of the signal that a call-back watches has not changed.         *)
NotReady ==
    /\ AtCallback /\ mem[Cur] = "live"
    /\ Become([Considered(Cur) EXCEPT !.prev = Cur])
    /\ UNCHANGED <<stage, heap, mode>>

(* Mutant: the head follows every call-back that is taken out.              *)
UnlinkedFirst(c) ==
    head' = next[c] /\ next' = [next EXCEPT ![c] = 0]

(* A removed call-back is taken out of the list and deleted.                *)
Unlinked(c) ==
    IF Call.prev = 0
    THEN head' = next[c] /\ next' = [next EXCEPT ![c] = 0]
    ELSE next' = [next EXCEPT ![Call.prev] = next[c], ![c] = 0] /\ head' = head

(* Mutant: the deleted call-back is kept as the previous one.              *)
ReapKeepsPrev ==
    /\ AtCallback /\ mem[Cur] = "removed"
    /\ Unlinked(Cur)
    /\ mem' = [mem EXCEPT ![Cur] = "deleted"]
    /\ Become([Considered(Cur) EXCEPT !.prev = Cur])
    /\ UNCHANGED <<stage, reason, lists, events, mode>>

(* Mutant: the walk steps on once more after it.                           *)
ReapSkipsOne ==
    /\ AtCallback /\ mem[Cur] = "removed"
    /\ Unlinked(Cur)
    /\ mem' = [mem EXCEPT ![Cur] = "deleted"]
    /\ Become([Considered(Cur) EXCEPT !.next = IF @ = 0 THEN 0 ELSE next[@]])
    /\ UNCHANGED <<stage, reason, lists, events, mode>>

Reap ==
    /\ AtCallback /\ mem[Cur] = "removed"
    /\ Unlinked(Cur)
    /\ mem' = [mem EXCEPT ![Cur] = "deleted"]
    /\ Become(Considered(Cur))
    /\ UNCHANGED <<stage, reason, lists, events, mode>>

WalkDone ==
    /\ InCall("walk", FALSE) /\ Call.next = 0
    /\ Leave
    /\ UNCHANGED <<stage, heap, mode>>

-----------------------------------------------------------------------------
(* vpiEndOfCompile, vpiStartOfSim, vpiNextSimTime and vpiPostsim.           *)

PhaseMode(p) == IF p = "EndOfSimulation" THEN "ROSYNC" ELSE "RWSYNC"

PhaseAt(p) ==
    CASE p = "EndOfCompile"      -> stage = "elaboration" /\ stage' = "compiled"
      [] p = "StartOfSimulation" -> stage = "compiled" /\ stage' = "running"
      [] p = "NextSimTime"       -> stage = "running" /\ stage' = stage
      [] p = "EndOfSimulation"   -> stage = "running" /\ stage' = "done"

StartPhase(p) ==
    /\ Idle /\ PhaseAt(p)
    /\ Enter([op |-> "phase", user |-> FALSE, phase |-> p, cur |-> 0, null |-> FALSE])
    /\ mode' = PhaseMode(p)
    /\ UNCHANGED <<heap>>

(* The function is called whatever it is.                                   *)
CallNext ==
    /\ InCall("phase", FALSE)
    /\ lists[Call.phase] # <<>>
    /\ lists' = [lists EXCEPT ![Call.phase] = Tail(@)]
    /\ LET c == Head(lists[Call.phase])
       IN  Become([Call EXCEPT !.user = TRUE, !.cur = c, !.null = mem[c] = "removed"])
    /\ UNCHANGED <<stage, reason, mem, next, head, events, mode>>

NextReturns ==
    /\ InCall("phase", TRUE)
    /\ Delete(Call.cur)
    /\ Become([Call EXCEPT !.user = FALSE, !.cur = 0])
    /\ UNCHANGED <<stage, next, head, lists, events, mode>>

PhaseDone ==
    /\ InCall("phase", FALSE)
    /\ lists[Call.phase] = <<>>
    /\ Leave
    /\ mode' = "NONE"
    /\ UNCHANGED <<stage, heap>>

-----------------------------------------------------------------------------
(* sync_cb::run_run, called by the scheduler.                              *)

CallSync(c) ==
    /\ Idle /\ stage = "running"
    /\ c \in events /\ mem[c] = "live"
    /\ events' = events \ {c}
    /\ Enter([op |-> "sync", user |-> TRUE, cur |-> c])
    /\ mode' = IF reason[c] = "ReadOnlySynch" THEN "ROSYNC" ELSE "RWSYNC"
    /\ UNCHANGED <<stage, reason, mem, next, head, lists>>

SyncReturns ==
    /\ InCall("sync", TRUE)
    /\ Delete(Call.cur)
    /\ mode' = "NONE"
    /\ Leave
    /\ UNCHANGED <<stage, next, head, lists, events>>

SkipSync(c) ==
    /\ Idle /\ stage = "running"
    /\ c \in events /\ mem[c] = "removed"
    /\ events' = events \ {c}
    /\ Delete(c)
    /\ UNCHANGED <<stage, next, head, lists, mode, calls>>

-----------------------------------------------------------------------------
(* A compiletf function, or a system task called by a thread.              *)

CallTask ==
    /\ Idle /\ stage \in {"elaboration", "running"}
    /\ Enter([op |-> "task", user |-> TRUE])
    /\ mode' = IF stage = "running" THEN "CALLTF" ELSE "COMPILETF"
    /\ UNCHANGED <<stage, heap>>

TaskReturns ==
    /\ InCall("task", TRUE)
    /\ Leave
    /\ mode' = "NONE"
    /\ UNCHANGED <<stage, heap>>

-----------------------------------------------------------------------------
Next ==
    \/ \E r \in Reasons : Register(r)
    \/ \E c \in Callbacks : RemoveCb(c) \/ CallSync(c) \/ SkipSync(c)
    \/ ChangeValue \/ CallValue \/ CallReturns \/ NotReady \/ Reap \/ WalkDone
    \/ \E p \in Phases : StartPhase(p)
    \/ CallNext \/ NextReturns \/ PhaseDone
    \/ SyncReturns \/ CallTask \/ TaskReturns

Spec == Init /\ [][Next]_vars

-----------------------------------------------------------------------------
(* Properties.                                                             *)

WalkCalls ==
    [op : {"walk"}, user : BOOLEAN, cur : 0..MaxCallbacks, next : 0..MaxCallbacks,
     prev : 0..MaxCallbacks, saved : Modes, call : SUBSET Callbacks,
     delete : SUBSET Callbacks]
PhaseCalls ==
    [op : {"phase"}, user : BOOLEAN, phase : Phases, cur : 0..MaxCallbacks,
     null : BOOLEAN]
SyncCalls == [op : {"sync"}, user : {TRUE}, cur : Callbacks]
TaskCalls == [op : {"task"}, user : {TRUE}]
CallStates == WalkCalls \cup PhaseCalls \cup SyncCalls \cup TaskCalls

(* The type of every variable; the asserted mode at the start of every call *)
(* from outside is NONE (vpi_callback.cc:319, 450, 470, 490, 513).          *)
TypeOK ==
    /\ stage \in {"elaboration", "compiled", "running", "done"}
    /\ reason \in [Callbacks -> Reasons]
    /\ mem \in [Callbacks -> {"unused", "live", "removed", "deleted"}]
    /\ next \in [Callbacks -> 0..MaxCallbacks] /\ head \in 0..MaxCallbacks
    /\ lists \in [Phases -> Seq(Callbacks)] /\ events \subseteq Callbacks
    /\ calls \in Seq(CallStates)
    /\ mode \in Modes
    /\ calls = <<>> => mode = "NONE"

(* The call-backs of the signal, from head on.                              *)
Listed ==
    LET from[n \in 0..MaxCallbacks] ==
            IF n = 0 THEN {head} ELSE from[n-1] \cup {next[c] : c \in from[n-1] \ {0}}
    IN  from[MaxCallbacks] \ {0}

(* What a walk, a phase or a synch call goes on to use when the function it *)
(* has called returns: none of it was deleted meanwhile, by a call inside   *)
(* the function; nor does any list lead to deleted memory, nor is a null    *)
(* function called (vpi_callback.cc:443-524, 706-732).                     *)
Used(call) ==
    CASE call.op = "walk" -> {call.next, call.prev} \cup (IF call.user THEN {call.cur} ELSE {})
      [] call.op \in {"phase", "sync"} -> {call.cur}
      [] OTHER -> {}

NoDangling ==
    /\ \A c \in (UNION {Used(calls[i]) : i \in DOMAIN calls}) \cup Listed \cup events
                \cup (UNION {ToSet(lists[p]) : p \in Phases}) :
        c # 0 => mem[c] \in {"live", "removed"}
    /\ \A i \in DOMAIN calls : calls[i].op = "phase" => ~ calls[i].null

(* No call-back gets lost: until it is deleted it is in the list or has the *)
(* event that will find it, or it is being called, for good if it is one    *)
(* that is called once only (vpi_callback.cc:530-546, 672-676, 701-733).    *)
NoneLost ==
    /\ TypeOK
    /\ LET listed == Listed IN
       \A c \in Callbacks : mem[c] \in {"live", "removed"} =>
        CASE reason[c] = "ValueChange" -> c \in listed
          [] reason[c] \in Phases -> c \in ToSet(lists[reason[c]]) <=> c \notin Executing
          [] OTHER -> c \in events <=> c \notin Executing

(* A change of the value reaches every call-back that was registered before *)
(* it and is not removed, and deletes every one that was removed before,    *)
(* whatever the called functions do to the list (vpi_callback.cc:695-733).  *)
WalkComplete ==
    InCall("walk", FALSE) /\ Call.next = 0 =>
        /\ \A c \in Call.call : mem[c] # "live"
        /\ \A c \in Call.delete : mem[c] = "deleted"

(* A function of the client sees the mode of the call that runs it, also    *)
(* after calls inside it have set the mode for themselves                  *)
(* (vpi_callback.cc:318-325, 444-457, 612-635, vpi_tasks.cc:948-952).       *)
RightMode(call, m) ==
    CASE call.op = "walk"  -> m = "RWSYNC"
      [] call.op = "phase" -> m = PhaseMode(call.phase)
      [] call.op = "sync"  -> (m = "ROSYNC") = (reason[call.cur] = "ReadOnlySynch")
      [] call.op = "task"  -> m \in {"CALLTF", "COMPILETF"}

ModeRight == ClientRuns => RightMode(Call, mode)

-----------------------------------------------------------------------------
(***************************************************************************)
(* The inductive invariant.                                                *)
(***************************************************************************)
(* Phases, synch call-backs and tasks are called from outside only, and    *)
(* inside a call there is another one only while the client runs.          *)
Nested ==
    \A i \in DOMAIN calls :
        /\ calls[i].op # "walk" => i = Len(calls)
        /\ i > 1 => calls[i].user

(* A mode that is right for whoever has made the i-th call.                *)
Outside(i, m) == IF i = Len(calls) THEN m = "NONE" ELSE RightMode(calls[i + 1], m)

ModesSaved ==
    /\ calls # <<>> =>
         IF InCall("walk", FALSE) THEN Outside(1, mode) ELSE RightMode(Call, mode)
    /\ \A i \in DOMAIN calls :
         calls[i].op = "walk" /\ calls[i].user => Outside(i, calls[i].saved)

(* A call-back that was registered and not deleted is where its reason says, *)
(* unless it is being called.                                              *)
Known(c) == mem[c] \in {"live", "removed"}

Places ==
    /\ \A p \in Phases :
        /\ IsInjective(lists[p])
        /\ \A c \in ToSet(lists[p]) :
              /\ reason[c] = p /\ Known(c) /\ c \notin Executing
              /\ mem[c] = "removed" => RemoveSimulator
    /\ \A c \in events : reason[c] \in Syncs /\ Known(c) /\ c \notin Executing
    /\ \A c \in Callbacks : Known(c) /\ c \notin Executing =>
        /\ reason[c] \in Phases => c \in ToSet(lists[reason[c]])
        /\ reason[c] \in Syncs => c \in events
    /\ \A i \in DOMAIN calls :
        /\ calls[i].op = "phase" =>
              /\ calls[i].null => RemoveSimulator
              /\ IF calls[i].user
                 THEN /\ calls[i].cur # 0 /\ Known(calls[i].cur)
                      /\ reason[calls[i].cur] = calls[i].phase
                 ELSE calls[i].cur = 0
        /\ calls[i].op = "sync" =>
              Known(calls[i].cur) /\ reason[calls[i].cur] \in Syncs

(* The call-backs of the signal.  Numbers grow with every registration.    *)
OfSignal == {c \in Callbacks : reason[c] = "ValueChange" /\ Known(c)}

InOrderOfAge ==
    \A c, d \in Callbacks : c < d /\ mem[c] = "unused" => mem[d] = "unused"

(* What leads to a call-back of the signal never leads to one of another.  *)
ValueChanges == {0} \cup {c \in Callbacks : reason[c] = "ValueChange" /\ mem[c] # "unused"}

Pointers ==
    /\ head \in ValueChanges
    /\ \A c \in Callbacks : next[c] \in ValueChanges
    /\ \A i \in DOMAIN calls : calls[i].op = "walk" =>
        {calls[i].next, calls[i].prev, calls[i].cur} \subseteq ValueChanges

(* The list has the call-backs of the signal, youngest first.               *)
Youngest(c, S) == c \in S \cup {0} /\ \A d \in S : d <= c

Linked ==
    /\ Youngest(head, OfSignal)
    /\ \A c \in OfSignal : Youngest(next[c], {d \in OfSignal : d < c})

(* What a walk has before it and behind it, what it is still to call, and  *)
(* what it is still to delete.                                             *)
Walking(w) ==
    /\ w.prev \in OfSignal \cup {0} /\ w.next \in OfSignal \cup {0}
    /\ IF w.user THEN w.cur \in OfSignal /\ next[w.cur] = w.next
       ELSE IF w.prev = 0 THEN head = w.next
       ELSE next[w.prev] = w.next
    /\ w.call \cup w.delete \subseteq ValueChanges \ {0}
    /\ \A c \in w.call : mem[c] = "live" => c <= w.next
    /\ \A c \in w.delete : mem[c] = "deleted" \/ (mem[c] = "removed" /\ c <= w.next)

(* Who deletes a call-back of the signal walks alone.                      *)
AloneWithRemoved == With("removed") # {} => \A i, j \in Walks : i = j

IInv ==
    /\ TypeOK
    /\ Nested /\ ModesSaved /\ Places /\ InOrderOfAge /\ Pointers
    /\ ~ NestedReap =>
        /\ Linked /\ AloneWithRemoved
        /\ \A i \in Walks : Walking(calls[i])
=============================================================================
