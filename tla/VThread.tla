------------------------------ MODULE VThread ------------------------------
(***************************************************************************)
(* The threads of the vvp run time, vvp/vthread.cc: fork and join, detached *)
(* threads, disable, waiting for events and for forked processes, and when  *)
(* the memory of a thread is given back.                                   *)
(*                                                                         *)
(* A thread runs its code until an opcode suspends it, so that the threads *)
(* interleave at these points only.  The code is what tgt-vvp generates    *)
(* for the statements of Verilog, tgt-vvp/vvp_process.c; which statements  *)
(* a thread executes is left open.                                         *)
(***************************************************************************)
EXTENDS Integers, FiniteSets, Sequences, SequencesExt

CONSTANTS
    MaxThreads,      \* bound: threads created in one run
    MaxStatements,   \* bound: statements begun in one run
    TaskForks,       \* may the body of a task hold an unnamed fork?
    DisableDetached  \* may a disable hit a scope with detached threads?

ASSUME BoundsAssumption == MaxThreads \in Nat \ {0, 1} /\ MaxStatements \in Nat
ASSUME ProgramAssumption == TaskForks \in BOOLEAN /\ DisableDetached \in BOOLEAN

Threads == 1..MaxThreads

(* The scopes threads run in: the module of the processes, a task, and a   *)
(* named block or fork.                                                    *)
Scopes == {"module", "task", "block"}

VARIABLES
    thr,       \* the threads, by number; 0 is no thread
    created,   \* how many threads were created
    active,    \* the vthread events of the current time: lists of threads
               \* linked by wait_next
    delayed,   \* the threads in events of later times
    running,   \* running_thread
    rest,      \* vthread_run: what follows the running thread in its list
    waiters,   \* the threads that wait for the event, linked by wait_next
    disabling, \* the %disable being executed, if any
    begun      \* auxiliary: statements begun

vars == <<thr, created, active, delayed, running, rest, waiters, disabling, begun>>

-----------------------------------------------------------------------------
(***************************************************************************)
(* The opcodes, and the code of the statements.                            *)
(***************************************************************************)
Op(name)      == [op |-> name]
Fork(s)       == [op |-> "fork", scope |-> s]
Detach(n)     == [op |-> "detach", count |-> n]
Disable(s)    == [op |-> "disable", scope |-> s]

Simple == {"delay", "yield", "wait", "event", "waitfork", "disablefork", "end"}

(* A call of a task or the execution of a named block.                     *)
SubThread(s) == <<Fork(s), Op("join")>>

(* The three kinds of a fork with two branches; an unnamed fork runs its   *)
(* branches in the scope it stands in.                                     *)
Branches(s) == <<Fork(s), Fork(s)>>
ForkStatements(s) ==
    { Branches(s) \o <<Op("join"), Op("join")>>,
      Branches(s) \o <<Op("join"), Detach(1)>>,
      Branches(s) \o <<Detach(2)>> }

Statements(s) ==
    {<<Op(x)>> : x \in Simple}
        \cup {<<Disable(x)>> : x \in {"task", "block"}}
        \cup {SubThread(x) : x \in {"task", "block"}}
        \cup ForkStatements("block")
        \cup (IF s = "task" /\ ~ TaskForks THEN {} ELSE ForkStatements(s))

Forks(code) == Cardinality({i \in DOMAIN code : code[i].op = "fork"})

-----------------------------------------------------------------------------
(***************************************************************************)
(* The threads (vthread_s).                                                *)
(***************************************************************************)
Unused ==
    [mem |-> "none", scope |-> "module", inScope |-> FALSE, parent |-> 0,
     children |-> {}, detached |-> {}, tasks |-> {},
     joining |-> FALSE, isDetached |-> FALSE, waitingFork |-> FALSE,
     ended |-> FALSE, waitingEvent |-> FALSE, scheduled |-> FALSE,
     code |-> <<>>]

(* vthread_new, and the schedule_vthread that follows. *)
NewThread(s, p) ==
    [Unused EXCEPT !.mem = "live", !.scope = s, !.inScope = TRUE,
                   !.parent = p, !.scheduled = TRUE]

(* Mutant: lists are not looked at.                                        *)
FreedTooEarly(t) == [t EXCEPT !.mem = IF t.scheduled THEN "live" ELSE "deleted"]

(* vthread_delete, unless an event or a list still names the thread.       *)
Freed(t) ==
    [t EXCEPT !.mem = IF t.scheduled \/ t.waitingEvent THEN "live" ELSE "deleted"]

(* The detached children of the threads in D become independent.           *)
Released(s, D) ==
    [x \in Threads |->
        IF s[x].isDetached /\ s[x].parent \in D
        THEN [s[x] EXCEPT !.parent = 0, !.isDetached = FALSE]
        ELSE s[x]]

(* vthread_reap *)
Reap(s, t) ==
    LET p  == s[t].parent
        s1 == Released(s, {t})
        s2 == IF p = 0 THEN s1
              ELSE [s1 EXCEPT ![p].children = @ \ {t}, ![p].detached = @ \ {t}]
    IN  [s2 EXCEPT ![t] = Freed([@ EXCEPT !.parent = 0, !.inScope = FALSE,
                                          !.code = <<>>])]

(* test_joinable: a task must be joined before any other child.            *)
Joinable(s, p, t) == s[p].tasks = {} \/ t \in s[p].tasks

(* do_join                                                                 *)
Joined(s, p, t) == Reap([s EXCEPT ![p].tasks = @ \ {t}], t)

(* schedule_vthread *)
Marked(s, t) == [s EXCEPT ![t].scheduled = TRUE]
PushFront(q, t) == <<<<t>>>> \o q

(* The threads that t has created, directly or not, and not detached.      *)
Below(s, t) ==
    LET reach[n \in 0..MaxThreads] ==
            IF n = 0 THEN {t}
            ELSE reach[n-1] \cup UNION {s[x].children : x \in reach[n-1]}
    IN  reach[MaxThreads] \ {t}

(* Mutants: the thread keeps its program counter; its children run on.     *)
TurnedOffKeepsPC(s, t) ==
    LET D == Below(s, t)
        Off(x) == [s[x] EXCEPT !.inScope = FALSE, !.ended = TRUE, !.children = {},
                               !.joining = @ /\ s[x].children = {}]
    IN  Released([x \in Threads |->
                    IF x \in D THEN Freed([Off(x) EXCEPT !.parent = 0])
                    ELSE IF x = t THEN Off(x)
                    ELSE s[x]], D)

TurnedOffAlone(s, t) ==
    [s EXCEPT ![t] = [@ EXCEPT !.inScope = FALSE, !.code = <<>>, !.ended = TRUE,
                               !.joining = FALSE]]

(* do_disable, up to the children: t and everything below it is turned     *)
(* off, and everything below it is reaped.                                 *)
TurnedOff(s, t) ==
    LET D == Below(s, t)
        Off(x) == [s[x] EXCEPT !.inScope = FALSE, !.code = <<>>, !.ended = TRUE,
                               !.children = {},
                               !.joining = @ /\ s[x].children = {}]
    IN  Released([x \in Threads |->
                    IF x \in D THEN Freed([Off(x) EXCEPT !.parent = 0])
                    ELSE IF x = t THEN Off(x)
                    ELSE s[x]], D)

(* do_disable: wake and join a parent that waits for it, and reap a thread *)
(* that has no parent.                                                     *)
WakesParent(s, t) ==
    LET p == s[t].parent IN p # 0 /\ s[p].joining /\ Joinable(s, p, t)

(* Mutants: the parent is not woken; the thread is reaped although its     *)
(* parent is yet to join it.                                               *)
DisabledReaped(s, t) ==
    LET p  == s[t].parent
        s1 == TurnedOff(s, t)
    IN  IF WakesParent(s1, t)
        THEN Joined([s1 EXCEPT ![p].joining = FALSE,
                               ![p].scheduled = @ \/ ~ s1[p].ended], p, t)
        ELSE Reap(s1, t)

DisabledAlone(s, t) ==
    LET s1 == TurnedOff(s, t)
    IN  IF s[t].parent = 0 THEN Reap(s1, t) ELSE s1

Disabled(s, t) ==
    LET p  == s[t].parent
        s1 == TurnedOff(s, t)
    IN  IF WakesParent(s1, t)
        THEN Joined([s1 EXCEPT ![p].joining = FALSE,
                               ![p].scheduled = @ \/ ~ s1[p].ended], p, t)
        ELSE IF p = 0 THEN Reap(s1, t)
        ELSE s1

AfterDisabled(q, s, t) ==
    LET p == s[t].parent IN
    IF WakesParent(TurnedOff(s, t), t) /\ ~ s[p].ended THEN PushFront(q, p) ELSE q

-----------------------------------------------------------------------------
(* Two initial processes; their events come from the initialization list.  *)
Init ==
    /\ thr = [t \in Threads |-> IF t <= 2 THEN NewThread("module", 0) ELSE Unused]
    /\ created = 2
    /\ active = <<<<1>>, <<2>>>>
    /\ delayed = {}
    /\ running = 0 /\ rest = <<>>
    /\ waiters = <<>>
    /\ disabling = [scope |-> "none", by |-> 0, self |-> FALSE]
    /\ begun = 0

NotDisabling == disabling.scope = "none"

-----------------------------------------------------------------------------
(***************************************************************************)
(* vthread_run                                                             *)
(***************************************************************************)
Start(t) ==
    /\ running' = t
    /\ thr' = [thr EXCEPT ![t].scheduled = FALSE]

(* The scheduler runs the next event. *)
RunEvent ==
    /\ running = 0 /\ rest = <<>>
    /\ active # <<>>
    /\ LET list == Head(active) IN Start(Head(list)) /\ rest' = Tail(list)
    /\ active' = Tail(active)
    /\ UNCHANGED <<created, delayed, waiters, disabling, begun>>

(* The next thread of the same list. *)
RunNext ==
    /\ running = 0 /\ rest # <<>>
    /\ Start(Head(rest))
    /\ rest' = Tail(rest)
    /\ UNCHANGED <<created, active, delayed, waiters, disabling, begun>>

(* Time advances to the next vthread events. *)
Advance ==
    /\ running = 0 /\ rest = <<>> /\ active = <<>>
    /\ \E D \in (SUBSET delayed) \ {{}} :
        /\ delayed' = delayed \ D
        /\ \E q \in SetToSeqs(D) : active' = [i \in DOMAIN q |-> <<q[i]>>]
    /\ UNCHANGED <<thr, created, running, rest, waiters, disabling, begun>>

(***************************************************************************)
(* The opcodes.  Fetch takes the first one of code, which Next takes from  *)
(* NextCode; the others are still to be executed.                          *)
(***************************************************************************)
Ready(t) == running = t /\ NotDisabling /\ ~ thr[t].ended

(* The code the thread may be at: the rest of a statement, or a new one.   *)
NextCode(t) ==
    IF thr[t].code # <<>> THEN {thr[t].code}
    ELSE {c \in Statements(thr[t].scope) :
            /\ begun < MaxStatements \/ c = <<Op("end")>>
            /\ created + Forks(c) <= MaxThreads}

Fetch(t, code) ==
    /\ Ready(t)
    /\ begun' = IF thr[t].code = <<>> /\ code # <<Op("end")>> THEN begun + 1 ELSE begun

(* The thread is at the next opcode, in the state s of the threads.        *)
At(s, t, code) == [s EXCEPT ![t].code = Tail(code)]

Continue == running' = running /\ UNCHANGED <<rest, disabling>>
Suspend  == running' = 0 /\ UNCHANGED <<rest, disabling>>

(* of_DELAY *)
Delay(t, code) ==
    /\ Fetch(t, code) /\ Head(code).op = "delay"
    /\ thr' = Marked(At(thr, t, code), t)
    /\ delayed' = delayed \cup {t}
    /\ Suspend
    /\ UNCHANGED <<created, active, waiters>>

(* of_DELAY with no delay. *)
Yield(t, code) ==
    /\ Fetch(t, code) /\ Head(code).op = "yield"
    /\ thr' = Marked(At(thr, t, code), t)
    /\ active' = Append(active, <<t>>)
    /\ Suspend
    /\ UNCHANGED <<created, delayed, waiters>>

(* of_WAIT *)
Wait(t, code) ==
    /\ Fetch(t, code) /\ Head(code).op = "wait"
    /\ thr' = [At(thr, t, code) EXCEPT ![t].waitingEvent = TRUE]
    /\ waiters' = <<t>> \o waiters
    /\ Suspend
    /\ UNCHANGED <<created, active, delayed>>

(* of_EVENT: the event schedules its list of threads as one event.         *)
Event(t, code) ==
    /\ Fetch(t, code) /\ Head(code).op = "event"
    /\ LET W == ToSet(waiters) IN
        thr' = [x \in Threads |->
                  IF x \in W
                  THEN [thr[x] EXCEPT !.waitingEvent = FALSE, !.scheduled = TRUE]
                  ELSE At(thr, t, code)[x]]
    /\ active' = IF waiters = <<>> THEN active ELSE Append(active, waiters)
    /\ waiters' = <<>>
    /\ Continue
    /\ UNCHANGED <<created, delayed>>

(* of_FORK *)
ForkChild(t, code) ==
    /\ Fetch(t, code) /\ Head(code).op = "fork"
    /\ LET c == created + 1
           s == Head(code).scope
       IN  /\ created' = c
           /\ thr' = [At(thr, t, code) EXCEPT
                        ![c] = NewThread(s, t),
                        ![t].children = @ \cup {c},
                        ![t].tasks = IF s = "task" THEN @ \cup {c} ELSE @]
           /\ active' = PushFront(active, c)
    /\ Continue
    /\ UNCHANGED <<delayed, waiters>>

EndedChildren(t) == {c \in thr[t].children : thr[c].ended /\ Joinable(thr, t, c)}

(* of_JOIN, when a child has ended already. *)
JoinEnded(t, code) ==
    /\ Fetch(t, code) /\ Head(code).op = "join"
    /\ \E c \in EndedChildren(t) : thr' = Joined(At(thr, t, code), t, c)
    /\ Continue
    /\ UNCHANGED <<created, active, delayed, waiters>>

(* of_JOIN, when it has to wait. *)
JoinWaits(t, code) ==
    /\ Fetch(t, code) /\ Head(code).op = "join"
    /\ EndedChildren(t) = {}
    /\ thr' = [At(thr, t, code) EXCEPT ![t].joining = TRUE]
    /\ Suspend
    /\ UNCHANGED <<created, active, delayed, waiters>>

(* of_JOIN_DETACH: ended children are reaped, the others detached.         *)
Detached(s, t) ==
    LET C == s[t].children
        E == {c \in C : s[c].ended}
    IN  Released(
          [x \in Threads |->
            IF x \in E THEN Freed([s[x] EXCEPT !.parent = 0, !.inScope = FALSE,
                                               !.code = <<>>])
            ELSE IF x \in C THEN [s[x] EXCEPT !.isDetached = TRUE]
            ELSE IF x = t THEN [s[x] EXCEPT !.children = {}, !.detached = @ \cup (C \ E)]
            ELSE s[x]], E)

JoinDetach(t, code) ==
    /\ Fetch(t, code) /\ Head(code).op = "detach"
    /\ thr' = Detached(At(thr, t, code), t)
    /\ Continue
    /\ UNCHANGED <<created, active, delayed, waiters>>

(* of_WAIT_FORK *)
WaitFork(t, code) ==
    /\ Fetch(t, code) /\ Head(code).op = "waitfork"
    /\ IF thr[t].detached = {}
       THEN thr' = At(thr, t, code) /\ Continue
       ELSE thr' = [At(thr, t, code) EXCEPT ![t].waitingFork = TRUE] /\ Suspend
    /\ UNCHANGED <<created, active, delayed, waiters>>

(* of_DISABLE_FORK: one more detached child is disabled and reaped.        *)
DisableFork(t, code) ==
    /\ Fetch(t, code) /\ Head(code).op = "disablefork"
    /\ IF thr[t].detached = {}
       THEN thr' = At(thr, t, code)
       ELSE \E c \in thr[t].detached :
              thr' = [Reap(Disabled(thr, c), c) EXCEPT ![t].code = code]
    /\ Continue
    /\ UNCHANGED <<created, active, delayed, waiters>>

(* of_DISABLE: the threads of the scope are disabled one after the other.  *)
MayDisable(s) ==
    DisableDetached \/ \A x \in Threads :
        thr[x].inScope /\ thr[x].scope = s => ~ thr[x].isDetached

BeginDisable(t, code) ==
    /\ Fetch(t, code) /\ Head(code).op = "disable"
    /\ MayDisable(Head(code).scope)
    /\ disabling' = [scope |-> Head(code).scope, by |-> t, self |-> FALSE]
    /\ thr' = At(thr, t, code)
    /\ running' = running
    /\ UNCHANGED <<created, active, delayed, rest, waiters>>

InScope == {x \in Threads : thr[x].inScope /\ thr[x].scope = disabling.scope}

DisableNext ==
    /\ ~ NotDisabling
    /\ \E t \in InScope :
        /\ thr' = Disabled(thr, t)
        /\ active' = AfterDisabled(active, thr, t)
        /\ disabling' = [disabling EXCEPT
                            !.self = @ \/ disabling.by \in Below(thr, t) \cup {t}]
    /\ UNCHANGED <<created, delayed, running, rest, waiters, begun>>

(* A thread that disabled itself is suspended, and perhaps gone.           *)
DisableDone ==
    /\ ~ NotDisabling /\ InScope = {}
    /\ disabling' = [scope |-> "none", by |-> 0, self |-> FALSE]
    /\ running' = IF disabling.self THEN 0 ELSE running
    /\ UNCHANGED <<thr, created, active, delayed, rest, waiters, begun>>

(* of_END *)
EndState(t) == Released([thr EXCEPT ![t].ended = TRUE, ![t].code = <<>>,
                                    ![t].detached = {}], {t})

ParentJoins(t) ==
    LET p == thr[t].parent IN p # 0 /\ ~ thr[t].isDetached /\ thr[p].joining

(* The last detached child wakes a parent that waits for all of them.      *)
EndDetached(t) ==
    LET p == thr[t].parent
        s == [EndState(t) EXCEPT ![p].detached = @ \ {t},
                                 ![t].isDetached = FALSE, ![t].parent = 0]
        wakes == thr[p].waitingFork /\ s[p].detached = {}
    IN  /\ thr' = Reap([s EXCEPT ![p].waitingFork = @ /\ ~ wakes,
                                 ![p].scheduled = @ \/ wakes], t)
        /\ active' = IF wakes THEN PushFront(active, p) ELSE active

(* Mutant: the parent keeps the flag that says it waits.                   *)
EndJoinedAgain(t) ==
    LET p == thr[t].parent IN
    IF Joinable(thr, p, t)
    THEN /\ thr' = Joined([EndState(t) EXCEPT ![p].scheduled = TRUE], p, t)
         /\ active' = PushFront(active, p)
    ELSE thr' = EndState(t) /\ active' = active

EndJoined(t) ==
    LET p == thr[t].parent IN
    IF Joinable(thr, p, t)
    THEN /\ thr' = Joined([EndState(t) EXCEPT ![p].joining = FALSE,
                                              ![p].scheduled = TRUE], p, t)
         /\ active' = PushFront(active, p)
    ELSE thr' = EndState(t) /\ active' = active

End(t, code) ==
    /\ Fetch(t, code) /\ Head(code).op = "end"
    /\ IF ParentJoins(t) THEN EndJoined(t)
       ELSE IF thr[t].isDetached THEN EndDetached(t)
       ELSE /\ thr' = IF thr[t].parent = 0 THEN Reap(EndState(t), t) ELSE EndState(t)
            /\ active' = active
    /\ Suspend
    /\ UNCHANGED <<created, delayed, waiters>>

(* of_ZOMBIE: the event of a thread that was turned off in the meantime.   *)
Zombie(t) ==
    /\ running = t /\ NotDisabling /\ thr[t].ended
    /\ thr' = IF thr[t].parent = 0 /\ thr[t].children = {}
              THEN [thr EXCEPT ![t].mem = "deleted"] ELSE thr
    /\ Suspend
    /\ UNCHANGED <<created, active, delayed, waiters, begun>>

Opcode(t, code) ==
    \/ Delay(t, code) \/ Yield(t, code) \/ Wait(t, code) \/ Event(t, code)
    \/ ForkChild(t, code) \/ JoinEnded(t, code) \/ JoinWaits(t, code)
    \/ JoinDetach(t, code) \/ WaitFork(t, code) \/ DisableFork(t, code)
    \/ BeginDisable(t, code) \/ End(t, code)

Next ==
    \/ RunEvent \/ RunNext \/ Advance
    \/ running # 0 /\ \E code \in NextCode(running) : Opcode(running, code)
    \/ \E t \in Threads : Zombie(t)
    \/ DisableNext \/ DisableDone

Spec == Init /\ [][Next]_vars

-----------------------------------------------------------------------------
(***************************************************************************)
(* Properties.                                                             *)
(***************************************************************************)
Live(t) == thr[t].mem = "live" /\ ~ thr[t].ended

Codes == UNION {UNION {{SubSeq(c, i, Len(c)) : i \in 1..(Len(c)+1)} : c \in Statements(s)}
                    : s \in Scopes}

ThreadState ==
    [mem : {"none", "live", "deleted"}, scope : Scopes, inScope : BOOLEAN,
     parent : 0..MaxThreads, children : SUBSET Threads, detached : SUBSET Threads,
     tasks : SUBSET Threads, joining : BOOLEAN, isDetached : BOOLEAN,
     waitingFork : BOOLEAN, ended : BOOLEAN, waitingEvent : BOOLEAN,
     scheduled : BOOLEAN, code : Codes]

(* The type of every variable; a thread that has ended is at the zombie    *)
(* opcode for good (vthread.cc:273-283, 2306-2309, 6118-6120).             *)
TypeOK ==
    /\ thr \in [Threads -> ThreadState]
    /\ \A t \in Threads : thr[t].ended => thr[t].code = <<>>
    /\ created \in 0..MaxThreads
    /\ active \in Seq(Seq(Threads)) /\ rest \in Seq(Threads) /\ waiters \in Seq(Threads)
    /\ delayed \subseteq Threads
    /\ running \in 0..MaxThreads
    /\ disabling \in [scope : Scopes \cup {"none"}, by : 0..MaxThreads, self : BOOLEAN]
    /\ begun \in 0..MaxStatements

(* The threads in events of the current time, and in any event or the list *)
(* being run.                                                              *)
InLists(q) == UNION {ToSet(q[i]) : i \in DOMAIN q}
InEvents   == InLists(active) \cup ToSet(rest) \cup delayed

(* No thread occurs twice in the lists of q, r and the later events D.      *)
NoneTwice(q, r, D) ==
    /\ \A i \in DOMAIN q : IsInjective(q[i])
    /\ \A i, j \in DOMAIN q : i # j => ToSet(q[i]) \cap ToSet(q[j]) = {}
    /\ IsInjective(r)
    /\ InLists(q) \cap ToSet(r) = {} /\ InLists(q) \cap D = {} /\ ToSet(r) \cap D = {}

(* A thread is in at most one scheduler event and at most once in the list *)
(* of the waiting threads, and where its flags say: the assertion in       *)
(* vthread_mark_scheduled cannot fail, whoever wakes a parent while a list *)
(* of threads is being run, and even when a waiting thread was disabled    *)
(* meanwhile (vthread.cc:668-675, 732-740).                                *)
QueuedOnce ==
    /\ NoneTwice(active, rest, delayed)
    /\ InEvents = {t \in Threads : thr[t].scheduled}
    /\ IsInjective(waiters)
    /\ ToSet(waiters) = {t \in Threads : thr[t].waitingEvent}

(* The inductive invariant behind QueuedOnce.  At any time a thread runs,   *)
(* or has one reason not to: it is in an event, or one of the three things  *)
(* it can wait for holds it.                                               *)
OneReason(x, runs) ==
    /\ x.scheduled => ~ x.waitingEvent
    /\ x.joining \/ x.waitingFork => ~ x.scheduled /\ ~ x.waitingEvent
    /\ x.joining => ~ x.waitingFork
    /\ runs => ~ x.scheduled /\ ~ x.waitingEvent /\ ~ x.joining /\ ~ x.waitingFork

(* A thread that was not created yet.                                      *)
Untouched(x) ==
    /\ ~ x.scheduled /\ ~ x.waitingEvent /\ ~ x.joining /\ ~ x.waitingFork
    /\ x.code = <<>> /\ x.parent = 0

(* A thread is younger than its parent, and so are all below it; a child    *)
(* that can still run points to its parent.                                *)
Kin(s) ==
    /\ \A t \in Threads : s[t].parent < t
    /\ \A t \in Threads : s[t].isDetached /\ ~ s[t].ended => s[t].parent # 0
    /\ \A t \in Threads : \A c \in s[t].children \cup s[t].detached :
          c > t /\ s[c].parent \in {0, t}
    /\ \A t \in Threads : \A c \in s[t].children :
          s[c].ended \/ (s[c].parent = t /\ ~ s[c].isDetached)

(* The forks of a statement come first, and their threads were counted when *)
(* the statement began: only the running thread is amid them.               *)
ForksFirst(code, n) == \A i \in DOMAIN code : code[i].op = "fork" <=> i <= n
RoomToFork ==
    \A t \in Threads : \E n \in 0..2 :
        /\ n <= Len(thr[t].code) /\ ForksFirst(thr[t].code, n)
        /\ IF t = running /\ NotDisabling THEN created + n <= MaxThreads ELSE n = 0

IInv ==
    /\ TypeOK /\ QueuedOnce
    /\ \A i \in DOMAIN active : active[i] # <<>>
    /\ \A t \in Threads : OneReason(thr[t], t = running)
    /\ running <= created
    /\ \A t \in Threads : t > created => Untouched(thr[t])
    /\ Kin(thr)
    /\ \A t \in Threads : \A c \in thr[t].children \cup thr[t].detached : c <= created
    /\ RoomToFork

(* No pointer to a deleted thread is left anywhere the run time may follow *)
(* it, and a thread that has ended and that nobody can join or run is      *)
(* deleted (vthread.cc:609-660, 6118-6128).                                *)
HandlesLive ==
    /\ \A t \in InEvents \cup ToSet(waiters) : thr[t].mem = "live"
    /\ running # 0 /\ NotDisabling => thr[running].mem = "live"
    /\ \A t \in Threads : thr[t].mem = "live" /\ (Live(t) \/ thr[t].parent # 0) =>
        \A x \in thr[t].children \cup thr[t].detached \cup ({thr[t].parent} \ {0}) :
            thr[x].mem = "live"
    /\ \A t \in Threads : thr[t].mem = "live" /\ thr[t].ended /\ thr[t].parent = 0
        => thr[t].scheduled \/ thr[t].waitingEvent \/ running = t

(* No lost wake-up: whoever waits in a join has a child that will end the  *)
(* wait when it ends, and whoever waits in wait fork has a detached child  *)
(* that still runs (vthread.cc:2741-2757, 2327-2340, 2768-2774,            *)
(* opcodes.txt:1269-1273).                                                 *)
NoLostWakeUp ==
    \A t \in Threads : Live(t) =>
        /\ thr[t].joining =>
              \E c \in thr[t].children : ~ thr[c].ended /\ Joinable(thr, t, c)
        /\ thr[t].waitingFork => \E c \in thr[t].detached : ~ thr[c].ended

(* Parents and children agree on who belongs to whom; every child is       *)
(* collected exactly once, so that the joins and detaches a thread has     *)
(* still to execute are as many as its children; and at a %join/detach     *)
(* there is no task to be joined (vthread.cc:2734-2736, 3467-3468).        *)
Collected(code) ==
    Cardinality({i \in DOMAIN code : code[i].op = "join"})
        + (IF \E i \in DOMAIN code : code[i].op = "detach"
           THEN code[Len(code)].count ELSE 0)

FamilyAgrees ==
    \A t \in Threads : Live(t) =>
        /\ \A x \in Threads :
            /\ x \in thr[t].children <=> thr[x].parent = t /\ ~ thr[x].isDetached
            /\ x \in thr[t].detached <=> thr[x].parent = t /\ thr[x].isDetached
        /\ Cardinality(thr[t].children) + Forks(thr[t].code)
            = Collected(thr[t].code) + (IF thr[t].joining THEN 1 ELSE 0)
        /\ thr[t].code # <<>> /\ Head(thr[t].code).op = "detach" => thr[t].tasks = {}

(* The inductive invariant behind HandlesLive, for programs whose disables *)
(* find no detached threads.  Attended: who looks at the children of x, x   *)
(* itself or the parent that reaps it, may still do so.                    *)
Attended(x) == ~ x.ended \/ x.parent # 0

(* A thread was created or not, and is deleted when it has ended and no    *)
(* pointer leads to it; only a thread that has collected its children ends.*)
Memory(x, born, runs) ==
    /\ x.mem = "none" <=> ~ born
    /\ x.mem = "deleted" => x.ended
    /\ x.parent # 0 \/ x.inScope \/ x.scheduled \/ x.waitingEvent => x.mem = "live"
    /\ x.inScope => Attended(x)
    /\ x.ended => x.children = {}
    /\ x.isDetached /\ x.parent # 0 => ~ x.ended
    /\ x.mem = "live" /\ ~ Attended(x) => x.scheduled \/ x.waitingEvent \/ runs

(* Parents and children point to each other.                               *)
Up(s, t) ==
    LET p == s[t].parent IN
    p # 0 => /\ s[p].mem = "live" /\ Attended(s[p])
             /\ t \in IF s[t].isDetached THEN s[p].detached ELSE s[p].children
Down(s, t) ==
    Attended(s[t]) =>
        /\ \A c \in s[t].children : s[c].parent = t /\ ~ s[c].isDetached
        /\ \A c \in s[t].detached : s[c].parent = t /\ s[c].isDetached

(* What the code of a thread has still to collect.                         *)
Owes(x, code) ==
    Cardinality(x.children) + Forks(code) = Collected(code) + (IF x.joining THEN 1 ELSE 0)

(* A thread that disables others and that they do not take with them is    *)
(* still there; none that is to be disabled is detached.                   *)
Disables ==
    ~ NotDisabling =>
        /\ running # 0 /\ running = disabling.by
        /\ ~ disabling.self => ~ thr[running].ended
        /\ \A x \in InScope : ~ thr[x].isDetached

FamilyInv ==
    /\ \A t \in Threads : Memory(thr[t], t <= created, t = running /\ NotDisabling)
    /\ \A t \in Threads : Up(thr, t) /\ Down(thr, t)
    /\ \A t \in Threads : ~ thr[t].ended => Owes(thr[t], thr[t].code)
    /\ running # 0 /\ NotDisabling => thr[running].mem = "live"
    /\ Disables

(* And that behind NoLostWakeUp and FamilyAgrees, if also no task forks: a  *)
(* task is a child until it is joined, and is joined before the next        *)
(* statement.                                                              *)
Waits(s, t) ==
    /\ s[t].tasks \subseteq s[t].children
    /\ (\E i \in DOMAIN s[t].code : s[t].code[i].op = "detach")
        => s[t].tasks = {} /\ Fork("task") \notin ToSet(s[t].code)
    /\ s[t].joining => \E c \in s[t].children : ~ s[c].ended /\ Joinable(s, t, c)
    /\ s[t].waitingFork => s[t].detached # {}

WaitInv == FamilyInv /\ \A t \in Threads : ~ thr[t].ended => Waits(thr, t)

(* What ends threads, or waits for their end, does so for all of them: when *)
(* a disable is done, nothing runs in the scope any more, nor does anything *)
(* that was called from there; wait fork lets a thread go on only when its *)
(* detached children have ended (vthread.cc:2768-2774, opcodes.txt:434-438, *)
(* 1269-1273).                                                             *)
EndsAll ==
    [][/\ ~ NotDisabling /\ disabling'.scope = "none" =>
            \A t \in Threads : Live(t) =>
                thr[t].scope # disabling.scope /\ (thr[t].parent # 0 => Live(thr[t].parent))
       /\ \A t \in Threads : thr[t].waitingFork /\ ~ thr'[t].waitingFork
                => thr'[t].detached = {}]_vars
=============================================================================
