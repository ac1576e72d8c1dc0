----------------------------- MODULE MCThreads -----------------------------
(***************************************************************************)
(* The threads of the run time (VThread), the contexts of automatic tasks  *)
(* and functions (Context) and the events that threads and assignments     *)
(* wait for (EventControl), each checked by itself: the others have threads *)
(* of their own, of which they keep only what contexts and events need.    *)
(***************************************************************************)
EXTENDS VThread, EventControl

VARIABLES
    part,                                               \* the part that acts
    callers, caller, live, free, link, holds, ending, callees, abandoned

contextVars == <<callers, caller, live, free, link, holds, ending, callees, abandoned>>
threadsVars == <<part, vars, contextVars, eventVars>>

(* One process, whose blocks call a task and a function.                   *)
Ctx == INSTANCE Context WITH
    MaxCalls <- 3, Processes <- 1, MaxThreads <- 5,
    thr <- callers, running <- caller, disabling <- ending, calls <- callees

(* The rising edge of a, any change of a or b, a named event, and an "or"  *)
(* event of the edge and the named one.                                    *)
MCSignals == {"a", "b"}
MCEvents  == {"rise", "any", "named", "both"}
MCKind ==
    [rise |-> "posedge", any |-> "edge", named |-> "named", both |-> "or"]
MCInputs ==
    [rise |-> {"a"}, any |-> {"a", "b"}, named |-> {}, both |-> {"rise", "named"}]

-----------------------------------------------------------------------------
Parts == {"threads", "contexts", "events"}

ThreadsInit ==
    /\ part \in Parts
    /\ Init
    /\ Ctx!Init
    /\ EventInit

ThreadsNext ==
    \/ part = "threads" /\ Next /\ UNCHANGED <<part, contextVars, eventVars>>
    \/ part = "contexts" /\ Ctx!Next /\ UNCHANGED <<part, vars, eventVars>>
    \/ part = "events" /\ EventNext /\ UNCHANGED <<part, vars, contextVars>>

ThreadsSpec == ThreadsInit /\ [][ThreadsNext]_threadsVars

-----------------------------------------------------------------------------
(* The type invariants of threads, contexts and events, those of threads   *)
(* and events with the invariants that VThreadProofs and                   *)
(* EventControlProofs prove.                                               *)
TypesOK ==
    /\ part \in Parts
    /\ part = "threads" => IInv /\ WaitInv
    /\ part = "contexts" => Ctx!TypeOK
    /\ part = "events" => EventInv

(* The properties of contexts, stated in Context: every call has variables *)
(* of its own (vthread.cc:3403-3425), and no context is lost or used twice *)
(* (vthread.cc:454-508).                                                   *)
OwnContext        == part = "contexts" => Ctx!OwnContext
ContextsConserved == part = "contexts" => Ctx!ContextsConserved
=============================================================================
