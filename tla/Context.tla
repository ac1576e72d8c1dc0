------------------------------ MODULE Context ------------------------------
(***************************************************************************)
(* The contexts of automatic tasks and functions, vvp/vthread.cc: every    *)
(* call has a set of variables of its own, allocated by %alloc, written by *)
(* its caller, used by the thread of the call and by the threads of its    *)
(* named blocks, read by its caller again and given back by %free.  Freed  *)
(* contexts are used again.                                                *)
(*                                                                         *)
(* A thread finds the variables it writes and those it reads by two        *)
(* contexts, wt and rd; each is the top of a stack that is linked through  *)
(* the contexts themselves.  The variables of a context are abstracted to  *)
(* the call they belong to.                                                *)
(***************************************************************************)
EXTENDS Integers, FiniteSets, Sequences, SequencesExt

CONSTANTS
    MaxCalls,        \* bound: calls begun in one run
    Processes,       \* how many initial processes there are
    MaxThreads       \* bound: threads at a time

Threads  == 1..MaxThreads
Contexts == 1..MaxCalls

(* A module with a named block, and a task with a named block and a        *)
(* function, both automatic.                                               *)
Scopes == {"module", "named", "task", "inner", "func"}
Automatic(s) == s \in {"task", "inner", "func"}
Called == {"task", "func"}

VARIABLES
    thr,       \* the threads
    running,   \* the thread that runs; 0 when it is the scheduler's turn
    live,      \* live_contexts of the scopes that are called
    free,      \* free_contexts
    link,      \* the next context of the stack a context is in
    holds,     \* the call whose values a context has; 0 when it is reset
    disabling, \* the %disable being executed, if any
    calls,     \* auxiliary: calls begun
    abandoned  \* auxiliary: calls whose caller was disabled

vars == <<thr, running, live, free, link, holds, disabling, calls, abandoned>>

-----------------------------------------------------------------------------
(***************************************************************************)
(* The code of the statements.                                             *)
(***************************************************************************)
Op(name, s) == [op |-> name, scope |-> s]

(* A call of a function; its argument may be a call of the function again. *)
Argument == <<Op("alloc", "func"), Op("store", "func"), Op("callf", "func"),
              Op("free", "func")>>
FunctionCall(arg) ==
    <<Op("alloc", "func")>> \o arg
        \o <<Op("store", "func"), Op("callf", "func"), Op("free", "func")>>

TaskCall(arg) ==
    <<Op("alloc", "task")>> \o arg
        \o <<Op("store", "task"), Op("fork", "task"), Op("join", "task"),
             Op("free", "task")>>

(* A named block, and a fork of two.                                       *)
Blocks(s) ==
    { <<Op("fork", s), Op("join", s)>>,
      <<Op("fork", s), Op("fork", s), Op("join", s), Op("join", s)>> }

Calls == {FunctionCall(<<>>), FunctionCall(Argument), TaskCall(<<>>), TaskCall(Argument)}

Simple(s) == {<<Op("assign", s)>>, <<Op("end", s)>>}

(* A function takes no time, so it calls no task and disables nothing.     *)
Statements(s) ==
    IF s = "func" THEN Simple(s) \cup {FunctionCall(<<>>)}
    ELSE Simple(s) \cup Calls \cup {<<Op("delay", s)>>}
           \cup {<<Op("disable", x)>> : x \in {"named", "task", "inner"}}
           \cup (CASE s = "module" -> Blocks("named")
                   [] s = "task" -> Blocks("inner")
                   [] OTHER -> {})

Uses(code, name) == Len(SelectSeq(code, LAMBDA o : o.op = name))

-----------------------------------------------------------------------------
(***************************************************************************)
(* The threads.                                                            *)
(***************************************************************************)
NoThread ==
    [state |-> "none", scope |-> "module", parent |-> 0, children |-> {},
     wt |-> 0, rd |-> 0, code |-> <<>>, call |-> 0, open |-> <<>>]

(* vthread_new, and in an automatic scope the context of the new thread:   *)
(* the one on top of its parent's stack of contexts to be written.         *)
NewThread(p, s) ==
    [NoThread EXCEPT !.state = "ready", !.scope = s, !.parent = p,
                     !.wt = IF Automatic(s) THEN thr[p].wt ELSE 0,
                     !.rd = IF Automatic(s) THEN thr[p].wt ELSE 0,
                     !.call = IF s \in Called THEN Head(thr[p].open) ELSE thr[p].call]

Init ==
    /\ thr = [t \in Threads |-> IF t <= Processes THEN [NoThread EXCEPT !.state = "ready"]
                                ELSE NoThread]
    /\ running = 0
    /\ live = [s \in Called |-> <<>>] /\ free = [s \in Called |-> <<>>]
    /\ link = [c \in Contexts |-> 0] /\ holds = [c \in Contexts |-> 0]
    /\ disabling = [scope |-> "none", by |-> 0, self |-> FALSE]
    /\ calls = 0 /\ abandoned = {}

NotDisabling == disabling.scope = "none"

(* vthread_reap *)
Reaped(s, t) ==
    LET p == s[t].parent
    IN  [x \in Threads |->
            IF x = t THEN NoThread
            ELSE IF x = p THEN [s[x] EXCEPT !.children = @ \ {t}]
            ELSE s[x]]

(* test_joinable: the call of a task is joined before any other child.     *)
Joinable(s, p, t) ==
    s[t].scope \in Called \/ \A c \in s[p].children : s[c].scope \notin Called

(* Mutant: also for a block inside a call, which shares its context.       *)
PopsAlways(s, p, t) == s[t].wt # 0

(* do_join: when a call has ended, its context goes from the contexts its  *)
(* caller writes to those it reads.                                        *)
Pops(s, p, t) == s[t].wt # 0 /\ s[p].wt # s[p].rd

Joined(s, p, t) ==
    Reaped(IF Pops(s, p, t)
           THEN [s EXCEPT ![p].wt = link[@], ![p].rd = s[p].wt]
           ELSE s, t)

JoinedLink(s, p, t) ==
    IF Pops(s, p, t) THEN [link EXCEPT ![s[p].wt] = s[p].rd] ELSE link

-----------------------------------------------------------------------------
(***************************************************************************)
(* The opcodes.  A thread runs until it waits.                             *)
(***************************************************************************)
Run(t) ==
    /\ running = 0 /\ NotDisabling
    /\ thr[t].state = "ready"
    /\ running' = t
    /\ UNCHANGED <<thr, live, free, link, holds, disabling, calls, abandoned>>

Unused == {x \in Threads : thr[x].state = "none"}

(* The rest of a statement, or a new one that fits the bounds.             *)
NextCode(t) ==
    IF thr[t].code # <<>> THEN {thr[t].code}
    ELSE {c \in Statements(thr[t].scope) :
            /\ calls + Uses(c, "alloc") <= MaxCalls
            /\ Uses(c, "fork") <= Cardinality(Unused)
            /\ Uses(c, "callf") > 0 => Unused # {}}

(* The thread that runs executes the first opcode of code, which Next takes *)
(* from NextCode.                                                          *)
Fetch(t, code, name) ==
    /\ running = t /\ NotDisabling
    /\ Head(code).op = name

At(s, t, code) == [s EXCEPT ![t].code = Tail(code)]

(* of_ALLOC, vthread_alloc_context: the context freed last, or a new one.  *)
Made == {c \in Contexts : \E s \in Called : c \in ToSet(live[s]) \cup ToSet(free[s])}

Alloc(t, code) ==
    /\ Fetch(t, code, "alloc")
    /\ LET s == Head(code).scope
           again == free[s] # <<>>
           c == IF again THEN Head(free[s]) ELSE Cardinality(Made) + 1
       IN  /\ free' = IF again THEN [free EXCEPT ![s] = Tail(@)] ELSE free
           /\ live' = [live EXCEPT ![s] = <<c>> \o @]
           /\ holds' = [holds EXCEPT ![c] = 0]
           /\ link' = [link EXCEPT ![c] = thr[t].wt]
           /\ thr' = [At(thr, t, code) EXCEPT ![t].wt = c,
                                              ![t].open = <<calls + 1>> \o @]
    /\ calls' = calls + 1
    /\ UNCHANGED <<running, disabling, abandoned>>

(* The caller writes the arguments (%store), a call its own variables.     *)
Store(t, code) ==
    /\ Fetch(t, code, "store")
    /\ holds' = [holds EXCEPT ![thr[t].wt] = Head(thr[t].open)]
    /\ thr' = At(thr, t, code)
    /\ UNCHANGED <<running, live, free, link, disabling, calls, abandoned>>

Assign(t, code) ==
    /\ Fetch(t, code, "assign")
    /\ holds' = IF thr[t].wt = 0 THEN holds ELSE [holds EXCEPT ![thr[t].wt] = thr[t].call]
    /\ thr' = At(thr, t, code)
    /\ UNCHANGED <<running, live, free, link, disabling, calls, abandoned>>

Delay(t, code) ==
    /\ Fetch(t, code, "delay")
    /\ thr' = At(thr, t, code)
    /\ running' = 0
    /\ UNCHANGED <<live, free, link, holds, disabling, calls, abandoned>>

(* of_FORK *)
Fork(t, code) ==
    /\ Fetch(t, code, "fork")
    /\ LET c == CHOOSE x \in Unused : TRUE
       IN  thr' = [At(thr, t, code) EXCEPT ![c] = NewThread(t, Head(code).scope),
                                           ![t].children = @ \cup {c}]
    /\ UNCHANGED <<running, live, free, link, holds, disabling, calls, abandoned>>

(* do_callf_void: the thread of a function runs inside the opcode.         *)
Callf(t, code) ==
    /\ Fetch(t, code, "callf")
    /\ LET c == CHOOSE x \in Unused : TRUE
       IN  /\ thr' = [At(thr, t, code) EXCEPT ![c] = NewThread(t, "func"),
                                              ![t].children = @ \cup {c},
                                              ![t].state = "calling"]
           /\ running' = c
    /\ UNCHANGED <<live, free, link, holds, disabling, calls, abandoned>>

(* of_JOIN *)
EndedChildren(t) ==
    {c \in thr[t].children : thr[c].state = "ended" /\ Joinable(thr, t, c)}

JoinEnded(t, code) ==
    /\ Fetch(t, code, "join")
    /\ \E c \in EndedChildren(t) :
        /\ thr' = Joined(At(thr, t, code), t, c)
        /\ link' = JoinedLink(thr, t, c)
    /\ UNCHANGED <<running, live, free, holds, disabling, calls, abandoned>>

JoinWaits(t, code) ==
    /\ Fetch(t, code, "join")
    /\ EndedChildren(t) = {}
    /\ thr' = [At(thr, t, code) EXCEPT ![t].state = "joining"]
    /\ running' = 0
    /\ UNCHANGED <<live, free, link, holds, disabling, calls, abandoned>>

(* Mutant: the context allocated last is taken out of the list.            *)
FreeLast(t, code) ==
    /\ Fetch(t, code, "free")
    /\ LET s == Head(code).scope
           c == thr[t].rd
       IN  /\ thr' = [At(thr, t, code) EXCEPT ![t].rd = link[c],
                                              ![t].open = Tail(@)]
           /\ live' = [live EXCEPT ![s] = Tail(@)]
           /\ free' = [free EXCEPT ![s] = <<c>> \o @]
    /\ UNCHANGED <<running, link, holds, disabling, calls, abandoned>>

(* of_FREE, vthread_free_context, after the results have been read.        *)
Free(t, code) ==
    /\ Fetch(t, code, "free")
    /\ LET s == Head(code).scope
           c == thr[t].rd
       IN  /\ thr' = [At(thr, t, code) EXCEPT ![t].rd = link[c],
                                              ![t].open = Tail(@)]
           /\ live' = [live EXCEPT ![s] = Remove(@, c)]
           /\ free' = [free EXCEPT ![s] = <<c>> \o @]
    /\ UNCHANGED <<running, link, holds, disabling, calls, abandoned>>

(* of_END: a function returns to its caller, a parent that waits goes on,  *)
(* and a thread that nobody joins is reaped; the others wait for the join. *)
End(t, code) ==
    /\ Fetch(t, code, "end")
    /\ LET p == thr[t].parent
           waits == p # 0 /\ thr[p].state = "joining" /\ Joinable(thr, p, t)
           joins == waits \/ thr[t].scope = "func"
       IN  /\ thr' = IF joins THEN Joined([thr EXCEPT ![p].state = "ready"], p, t)
                     ELSE IF p = 0 THEN Reaped(thr, t)
                     ELSE [thr EXCEPT ![t].state = "ended", ![t].code = <<>>]
           /\ link' = IF joins THEN JoinedLink(thr, p, t) ELSE link
           /\ running' = IF thr[t].scope = "func" THEN p ELSE 0
    /\ UNCHANGED <<live, free, holds, disabling, calls, abandoned>>

(***************************************************************************)
(* of_DISABLE: the threads of the scope are disabled one after the other.  *)
(***************************************************************************)
Disable(t, code) ==
    /\ Fetch(t, code, "disable")
    /\ disabling' = [scope |-> Head(code).scope, by |-> t, self |-> FALSE]
    /\ thr' = At(thr, t, code)
    /\ UNCHANGED <<running, live, free, link, holds, calls, abandoned>>

Below(t) ==
    LET reach[n \in 0..MaxThreads] ==
            IF n = 0 THEN {t}
            ELSE reach[n-1] \cup UNION {thr[x].children : x \in reach[n-1]}
    IN  reach[MaxThreads] \ {t}

(* One that has ended and waits to be joined is not changed by a disable.  *)
InScope == {x \in Threads : thr[x].scope = disabling.scope
                            /\ thr[x].state \notin {"none", "ended"}}

(* do_disable: everything below the thread is reaped without a join; its   *)
(* parent joins it when it waits.  Nothing gives back the contexts that    *)
(* these threads had allocated for calls.                                  *)
DisableNext ==
    /\ ~ NotDisabling
    /\ \E t \in InScope :
        LET D == Below(t)
            p == thr[t].parent
            s == [x \in Threads |->
                    IF x \in D THEN NoThread
                    ELSE IF x = t
                    THEN [thr[x] EXCEPT !.state = "ended", !.code = <<>>,
                                        !.children = {}, !.open = <<>>]
                    ELSE thr[x]]
            joins == p # 0 /\ thr[p].state = "joining" /\ Joinable(s, p, t)
        IN  /\ thr' = IF joins THEN Joined([s EXCEPT ![p].state = "ready"], p, t) ELSE s
            /\ link' = IF joins THEN JoinedLink(s, p, t) ELSE link
            /\ abandoned' = abandoned \cup UNION {ToSet(thr[x].open) : x \in D \cup {t}}
            /\ disabling' = [disabling EXCEPT !.self = @ \/ disabling.by \in D \cup {t}]
    /\ UNCHANGED <<running, live, free, holds, calls>>

DisableDone ==
    /\ ~ NotDisabling /\ InScope = {}
    /\ disabling' = [scope |-> "none", by |-> 0, self |-> FALSE]
    /\ running' = IF disabling.self THEN 0 ELSE running
    /\ UNCHANGED <<thr, live, free, link, holds, calls, abandoned>>

Opcode(t, code) ==
    \/ Alloc(t, code) \/ Store(t, code) \/ Assign(t, code) \/ Delay(t, code)
    \/ Fork(t, code) \/ Callf(t, code) \/ JoinEnded(t, code) \/ JoinWaits(t, code)
    \/ Free(t, code) \/ End(t, code) \/ Disable(t, code)

Next ==
    \/ \E t \in Threads : Run(t)
    \/ running # 0 /\ NotDisabling /\ \E code \in NextCode(running) : Opcode(running, code)
    \/ DisableNext \/ DisableDone

Spec == Init /\ [][Next]_vars

-----------------------------------------------------------------------------
(***************************************************************************)
(* Properties.                                                             *)
(***************************************************************************)
TypeOK ==
    /\ \A t \in Threads :
        /\ thr[t].state \in {"none", "ready", "calling", "joining", "ended"}
        /\ thr[t].scope \in Scopes /\ thr[t].parent \in 0..MaxThreads
        /\ thr[t].children \subseteq Threads
        /\ thr[t].wt \in 0..MaxCalls /\ thr[t].rd \in 0..MaxCalls
    /\ running \in 0..MaxThreads
    /\ \A s \in Called : live[s] \in Seq(Contexts) /\ free[s] \in Seq(Contexts)
    /\ link \in [Contexts -> 0..MaxCalls] /\ holds \in [Contexts -> 0..MaxCalls]
    /\ calls \in 0..MaxCalls /\ abandoned \subseteq 1..calls

AtOp(t, names) == thr[t].code # <<>> /\ Head(thr[t].code).op \in names

(* Whatever other calls of the same task do in the meantime, whichever are *)
(* disabled and however calls nest, a call finds its own variables: reset  *)
(* before its arguments are written, with its arguments when it begins,    *)
(* its own while it runs, and its results where its caller reads them      *)
(* (vthread.cc:454-475, 779-790, 3053-3057, 3403-3425).                    *)
OwnContext ==
    \A t \in Threads : thr[t].state \notin {"none", "ended"} =>
        /\ AtOp(t, {"store"}) => holds[thr[t].wt] = 0
        /\ AtOp(t, {"fork", "callf"}) /\ Head(thr[t].code).scope \in Called =>
              holds[thr[t].wt] = Head(thr[t].open)
        /\ AtOp(t, {"free"}) /\ thr[t].state = "ready" =>
              holds[thr[t].rd] = Head(thr[t].open)
        /\ Automatic(thr[t].scope) /\ thr[t].open = <<>> =>
              thr[t].wt = thr[t].rd /\ holds[thr[t].rd] = thr[t].call

(* Every context is in one list, once; live are those of the calls that    *)
(* their callers have still to free, and of those whose caller was         *)
(* disabled, which stay live for ever (vthread.cc:482-508, 3085-3095).     *)
ContextsConserved ==
    LET all == live["task"] \o live["func"] \o free["task"] \o free["func"]
        owed == UNION {ToSet(thr[t].open) : t \in Threads}
    IN  /\ IsInjective(all)
        /\ \A t \in Threads : AtOp(t, {"free"}) /\ thr[t].state = "ready" =>
              thr[t].rd \in ToSet(live[Head(thr[t].code).scope])
        /\ Len(live["task"]) + Len(live["func"])
              = Cardinality(owed) + Cardinality(abandoned)
=============================================================================
