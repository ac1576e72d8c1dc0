------------------------------ MODULE ModPath ------------------------------
(***************************************************************************)
(* The path delays of a specify block, vvp_fun_modpath of vvp/delay.cc: the *)
(* output of a module path follows its driver after a delay that depends on *)
(* which of the inputs of its paths has changed last.                      *)
(***************************************************************************)
EXTENDS Integers, Sequences, FiniteSetsExt, SequencesExt

CONSTANTS
    SrcList,     \* src_list_: the inputs of ordinary paths, a sequence
    IfNoneList,  \* ifnone_list_: the inputs of ifnone paths, a sequence
    EdgeOf,      \* the edge a source reacts to: "any", "pos" or "neg"
    DelayOf,     \* the twelve delays of every source, by edge
    PathWidth,   \* bits of the output
    MaxPathTime, \* bound: simulation time
    MaxChanges   \* bound: changes of inputs, conditions and driver

PathInputs == ToSet(SrcList) \cup ToSet(IfNoneList)
Levels == {"0", "1", "X", "Z"}
Edges == {e \in Levels \X Levels : e[1] # e[2]}

ASSUME PathsAssumption ==
    /\ SrcList \in Seq(PathInputs) /\ IfNoneList \in Seq(PathInputs)
    /\ EdgeOf \in [PathInputs -> {"any", "pos", "neg"}]
    /\ DelayOf \in [PathInputs -> [Edges -> Nat]]
    /\ PathWidth \in Nat \ {0} /\ MaxPathTime \in Nat /\ MaxChanges \in Nat

VARIABLES
    wake,      \* wake_time_ of every source
    enabled,   \* condition_flag_ of every source
    old,       \* old_value_ of every source
    pathCur,   \* cur_vec4_
    pathOut,   \* the value last sent to the net
    pathNow,   \* schedule_simtime()
    pathCalls, \* pending calls of run_run, by their time
    promised,  \* auxiliary: when the output should have its value
    changes    \* auxiliary: changes so far

pathVars == <<wake, enabled, old, pathCur, pathOut, pathNow, pathCalls, promised, changes>>

PathValues == [1..PathWidth -> Levels]
PathTimes  == 0..(MaxPathTime + Max({DelayOf[s][e] : s \in PathInputs, e \in Edges} \cup {0}))

PathInit ==
    /\ wake = [s \in PathInputs |-> 0]
    /\ enabled = [s \in PathInputs |-> TRUE]
    /\ old = [s \in PathInputs |-> "X"]
    /\ pathCur = [i \in 1..PathWidth |-> "X"]
    /\ pathOut = pathCur
    /\ pathNow = 0
    /\ pathCalls = [t \in PathTimes |-> 0]
    /\ promised = 0
    /\ changes = 0

Change == changes < MaxChanges /\ changes' = changes + 1

-----------------------------------------------------------------------------
(***************************************************************************)
(* The inputs of the paths (vvp_fun_modpath_src).                          *)
(***************************************************************************)
Rising(a, b)  == a # b /\ (a = "0" \/ b = "1")
Falling(a, b) == a # b /\ (a = "1" \/ b = "0")

(* test_vec4 *)
Triggers(s, bit) ==
    \/ EdgeOf[s] = "any"
    \/ EdgeOf[s] = "pos" /\ Rising(old[s], bit)
    \/ EdgeOf[s] = "neg" /\ Falling(old[s], bit)

Input(s, bit) ==
    /\ Change
    /\ wake' = IF Triggers(s, bit) THEN [wake EXCEPT ![s] = pathNow] ELSE wake
    /\ old' = IF EdgeOf[s] = "any" THEN old ELSE [old EXCEPT ![s] = bit]
    /\ UNCHANGED <<enabled, pathCur, pathOut, pathNow, pathCalls, promised>>

(* Ordinary paths may have a condition. *)
Condition(s, bit) ==
    /\ Change
    /\ s \in ToSet(SrcList)
    /\ enabled' = [enabled EXCEPT ![s] = bit = "1"]
    /\ UNCHANGED <<wake, old, pathCur, pathOut, pathNow, pathCalls, promised>>

-----------------------------------------------------------------------------
(***************************************************************************)
(* The choice of a path.  A choice is the list of the candidates and the   *)
(* wake time they share.                                                   *)
(***************************************************************************)
Chosen(src, w) == [src |-> src, wake |-> w]

OrdinaryStep(c, s) ==
    IF ~ enabled[s] THEN c
    ELSE IF c.src = {} \/ wake[s] > c.wake THEN Chosen({s}, wake[s])
    ELSE IF wake[s] = c.wake THEN Chosen(c.src \cup {s}, c.wake)
    ELSE c

Ordinary == FoldLeft(OrdinaryStep, Chosen({}, 0), SrcList)

IfNoneStep(c, s) ==
    IF c.src = {} \/ wake[s] > c.wake THEN Chosen({s}, wake[s])
    ELSE IF wake[s] = c.wake /\ c.wake > Ordinary.wake THEN Chosen(c.src \cup {s}, c.wake)
    ELSE c

(* Mutant: an ifnone path is chosen only when there is no other.           *)
CandidatesNoIfNone ==
    IF Ordinary.src = {} THEN FoldLeft(IfNoneStep, Ordinary, IfNoneList).src ELSE Ordinary.src

Candidates == FoldLeft(IfNoneStep, Ordinary, IfNoneList).src

(* delay_from_edge: equal bits count as an edge too. *)
EdgeName(a, b) ==
    IF a # b THEN <<a, b>> ELSE IF a = "0" THEN <<"0", "1">>
    ELSE IF a = "1" THEN <<"1", "0">> ELSE <<a, "0">>

(* Mutant: the whole delay counts from now.                                *)
OutAtFromNow(e) == Min({DelayOf[s][e] : s \in Candidates})

(* out_at: the time left until the earliest candidate is through.          *)
TimeLeft(s, e) ==
    IF wake[s] + DelayOf[s][e] <= pathNow THEN 0 ELSE wake[s] + DelayOf[s][e] - pathNow

OutAt(e) == Min({TimeLeft(s, e) : s \in Candidates})

PathDelay(bit) == IF Candidates = {} THEN 0 ELSE OutAt(EdgeName(pathCur[1], bit[1]))

-----------------------------------------------------------------------------
(* The paths that ought to count: of the enabled ones those whose input    *)
(* changed last, and an ifnone path only if it changed later than these or *)
(* there are none.                                                         *)
Enabled   == {s \in ToSet(SrcList) : enabled[s]}
Newest(S) == {s \in S : \A x \in S : wake[x] <= wake[s]}

Applying ==
    LET F == Newest(ToSet(IfNoneList))
    IN  IF \E f \in F : \A e \in Enabled : wake[f] > wake[e] THEN F ELSE Newest(Enabled)

(* Only ifnone paths can apply, and none of their inputs has changed after *)
(* time 0, which the code does not tell from "no candidate": it takes one  *)
(* of them.  Of the times they give only the latest is promised then.      *)
Unwoken == Enabled = {} /\ \A s \in ToSet(IfNoneList) : wake[s] = 0

DueOf(bit) ==
    LET times == {wake[s] + DelayOf[s][EdgeName(pathCur[1], bit[1])] : s \in Applying}
    IN  IF times = {} THEN pathNow
        ELSE Max({pathNow, IF Unwoken THEN Max(times) ELSE Min(times)})

(* vvp_fun_modpath::recv_vec4                                              *)
PathReceive(bit) ==
    /\ Change
    /\ pathCur # bit
    /\ pathCur' = bit
    /\ pathCalls' = [pathCalls EXCEPT ![pathNow + PathDelay(bit)] = @ + 1]
    /\ promised' = DueOf(bit)
    /\ UNCHANGED <<wake, enabled, old, pathOut, pathNow>>

(* run_run *)
PathRun ==
    /\ pathCalls[pathNow] > 0
    /\ pathCalls' = [pathCalls EXCEPT ![pathNow] = @ - 1]
    /\ pathOut' = pathCur
    /\ UNCHANGED <<wake, enabled, old, pathCur, pathNow, promised, changes>>

PathAdvance ==
    /\ pathCalls[pathNow] = 0 /\ pathNow < MaxPathTime
    /\ pathNow' = pathNow + 1
    /\ UNCHANGED <<wake, enabled, old, pathCur, pathOut, pathCalls, promised, changes>>

PathNext ==
    \/ \E s \in PathInputs, bit \in Levels : Input(s, bit) \/ Condition(s, bit)
    \/ \E bit \in PathValues : PathReceive(bit)
    \/ PathRun \/ PathAdvance

PathSpec == PathInit /\ [][PathNext]_pathVars

-----------------------------------------------------------------------------
(***************************************************************************)
(* Properties.                                                             *)
(***************************************************************************)
(* The type of every variable; an output that is not up to date has a call *)
(* of run_run to come (delay.cc:669-676).                                  *)
PathTypeOK ==
    /\ wake \in [PathInputs -> 0..pathNow] /\ enabled \in [PathInputs -> BOOLEAN]
    /\ old \in [PathInputs -> Levels] /\ pathCur \in PathValues /\ pathOut \in PathValues
    /\ pathNow \in 0..MaxPathTime /\ promised \in PathTimes /\ changes \in 0..MaxChanges
    /\ pathCalls \in [PathTimes -> Nat]
    /\ pathOut # pathCur => \E t \in PathTimes : t >= pathNow /\ pathCalls[t] > 0

(* The inductive invariant: the call that brings the output up to date     *)
(* comes by the time the paths give.                                       *)
PathInv ==
    /\ PathTypeOK
    /\ pathOut # pathCur => \E t \in pathNow..promised : pathCalls[t] > 0

(* The two loops over the lists of paths find exactly the paths that ought *)
(* to count, or one of them (delay.cc:567-606).                            *)
CandidatesRight ==
    IF Unwoken THEN Candidates \subseteq Applying /\ (Applying # {} => Candidates # {})
    ELSE Candidates = Applying

(* The output has its value at the time the path gives, whatever other     *)
(* changes of inputs, conditions and driver are under way, never later     *)
(* (delay.cc:618-670).                                                     *)
NeverLate == pathOut # pathCur => pathNow <= promised

(* All bits that change have the same delay: the assertion in recv_vec4    *)
(* cannot fail (delay.cc:656-667).                                         *)
BitsAgree ==
    [][pathCur' # pathCur /\ Candidates # {} =>
        \A i \in 2..PathWidth : pathCur'[i] # pathCur[i] =>
            OutAt(EdgeName(pathCur[i], pathCur'[i])) = PathDelay(pathCur')]_pathVars
=============================================================================
