------------------------- MODULE VpiCallbackProofs -------------------------
(***************************************************************************)
(* Proofs about the call-backs of the VPI, VpiCallback.tla.                *)
(***************************************************************************)
EXTENDS VpiCallback, Lemmas

-----------------------------------------------------------------------------
(* The stack of calls: what each step does to it, to what is known of the   *)
(* nesting, and to the call-backs being executed.                          *)
LEMMA CallKinds ==
    ASSUME NEW c \in CallStates
    PROVE  /\ c.op \in {"walk", "phase", "sync", "task"} /\ c.user \in BOOLEAN
           /\ c.op = "walk" => c \in WalkCalls
           /\ c.op = "phase" => c \in PhaseCalls
           /\ c.op = "sync" => c \in SyncCalls /\ c.user
           /\ c.op = "task" => c \in TaskCalls /\ c.user
<1>1. c \in WalkCalls \/ c \in PhaseCalls \/ c \in SyncCalls \/ c \in TaskCalls
  BY DEF CallStates
<1>2. CASE c \in WalkCalls
  BY <1>2 DEF WalkCalls
<1>3. CASE c \in PhaseCalls
  BY <1>3 DEF PhaseCalls
<1>4. CASE c \in SyncCalls
  BY <1>4 DEF SyncCalls
<1>5. CASE c \in TaskCalls
  BY <1>5 DEF TaskCalls
<1> QED BY <1>1, <1>2, <1>3, <1>4, <1>5

NestedIn(s) ==
    \A i \in DOMAIN s : (s[i].op # "walk" => i = Len(s)) /\ (i > 1 => s[i].user)

BusyIn(s) == {s[i].cur : i \in {j \in DOMAIN s : s[j].op \in {"phase", "sync"}}}

LEMMA OuterAlone ==
    ASSUME NEW s \in Seq(CallStates), NestedIn(s), s # <<>>, s[1].op # "walk"
    PROVE  /\ Len(s) = 1 /\ DOMAIN s = {1}
           /\ BusyIn(s) = IF s[1].op \in {"phase", "sync"} THEN {s[1].cur} ELSE {}
<1>1. Len(s) \in Nat /\ DOMAIN s = 1..Len(s) /\ Len(s) >= 1
  OBVIOUS
<1>2. Len(s) = 1
  BY <1>1 DEF NestedIn
<1>3. DOMAIN s = {1}
  BY <1>1, <1>2
<1> QED BY <1>2, <1>3 DEF BusyIn

(* A walk starts inside whatever the client runs in.                       *)
LEMMA WalkPushed ==
    ASSUME NEW s \in Seq(CallStates), NestedIn(s), NEW w \in WalkCalls,
           s = <<>> \/ s[1].user, NEW u, u = <<w>> \o s
    PROVE  /\ u \in Seq(CallStates) /\ Pushed(s, w, u) /\ w.op = "walk"
           /\ NestedIn(u) /\ BusyIn(u) = BusyIn(s)
<1>1. w \in CallStates /\ w.op = "walk"
  BY DEF WalkCalls, CallStates
<1>2. u \in Seq(CallStates) /\ Pushed(s, w, u) /\ Len(s) \in Nat
  BY <1>1, StackSteps
<1>3. NestedIn(u)
  <2> SUFFICES ASSUME NEW i \in DOMAIN u
               PROVE  (u[i].op # "walk" => i = Len(u)) /\ (i > 1 => u[i].user)
    BY DEF NestedIn
  <2>1. CASE i = 1
    BY <1>1, <1>2, <2>1 DEF Pushed
  <2>2. CASE i # 1
    <3>1. i - 1 \in DOMAIN s /\ u[i] = s[i - 1] /\ i \in Nat
      BY <1>2, <2>2 DEF Pushed
    <3>2. s # <<>>
      BY <3>1
    <3>3. s[i - 1].user
      BY <3>1, <3>2, <1>2 DEF NestedIn, Pushed
    <3> QED BY <1>2, <3>1, <3>3 DEF NestedIn, Pushed
  <2> QED BY <2>1, <2>2
<1>4. BusyIn(u) = BusyIn(s)
  <2>1. \A x \in BusyIn(u) : x \in BusyIn(s)
    <3> SUFFICES ASSUME NEW i \in DOMAIN u, u[i].op \in {"phase", "sync"}
                 PROVE  \E j \in DOMAIN s : s[j] = u[i]
      BY DEF BusyIn
    <3>1. i # 1
      BY <1>1, <1>2 DEF Pushed
    <3> QED BY <1>2, <3>1 DEF Pushed
  <2>2. \A x \in BusyIn(s) : x \in BusyIn(u)
    <3> SUFFICES ASSUME NEW i \in DOMAIN s, s[i].op \in {"phase", "sync"}
                 PROVE  \E j \in DOMAIN u : u[j] = s[i]
      BY DEF BusyIn
    <3>1. i + 1 \in DOMAIN u /\ u[i + 1] = s[i]
      BY <1>2 DEF Pushed
    <3> QED BY <3>1
  <2> QED BY <2>1, <2>2
<1> QED BY <1>1, <1>2, <1>3, <1>4

(* A walk goes on.                                                         *)
LEMMA WalkExchanged ==
    ASSUME NEW s \in Seq(CallStates), NestedIn(s), s # <<>>, s[1].op = "walk",
           NEW w \in WalkCalls, NEW u, u = <<w>> \o Tail(s)
    PROVE  /\ u \in Seq(CallStates) /\ Exchanged(s, w, u) /\ w.op = "walk"
           /\ NestedIn(u) /\ BusyIn(u) = BusyIn(s)
<1>1. w \in CallStates /\ w.op = "walk"
  BY DEF WalkCalls, CallStates
<1>2. u \in Seq(CallStates) /\ Exchanged(s, w, u) /\ Len(s) \in Nat
  BY <1>1, StackSteps
<1>3. \A i \in DOMAIN s : i = 1 \/ u[i] = s[i]
  BY <1>2 DEF Exchanged
<1>4. DOMAIN u = DOMAIN s /\ Len(u) = Len(s) /\ u[1].op = "walk"
  BY <1>1, <1>2 DEF Exchanged
<1>5. NestedIn(u)
  BY <1>1, <1>2, <1>3, <1>4 DEF NestedIn
<1>6. BusyIn(u) = BusyIn(s)
  <2>1. \A j \in DOMAIN s : s[j].op \in {"phase", "sync"} => u[j] = s[j]
    BY <1>3
  <2>2. \A j \in DOMAIN u : u[j].op \in {"phase", "sync"} => u[j] = s[j]
    BY <1>3, <1>4
  <2>3. \A j \in DOMAIN s : s[j].op \in {"phase", "sync"} <=> u[j].op \in {"phase", "sync"}
    BY <1>4, <2>1, <2>2
  <2>4. \A x \in BusyIn(u) : x \in BusyIn(s)
    BY <1>4, <2>2, <2>3 DEF BusyIn
  <2>5. \A x \in BusyIn(s) : x \in BusyIn(u)
    BY <1>4, <2>1, <2>3 DEF BusyIn
  <2> QED BY <2>4, <2>5
<1> QED BY <1>1, <1>2, <1>5, <1>6

(* A walk ends.                                                            *)
LEMMA WalkPopped ==
    ASSUME NEW s \in Seq(CallStates), NestedIn(s), s # <<>>, s[1].op = "walk",
           NEW u, u = Tail(s)
    PROVE  /\ u \in Seq(CallStates) /\ Popped(s, u)
           /\ NestedIn(u) /\ BusyIn(u) = BusyIn(s)
<1>1. u \in Seq(CallStates) /\ Popped(s, u) /\ Len(s) \in Nat
  BY StackPops
<1>2. NestedIn(u)
  <2> SUFFICES ASSUME NEW i \in DOMAIN u
               PROVE  (u[i].op # "walk" => i = Len(u)) /\ (i > 1 => u[i].user)
    BY DEF NestedIn
  <2>1. i + 1 \in DOMAIN s /\ u[i] = s[i + 1] /\ i \in Nat /\ i >= 1
    BY <1>1 DEF Popped
  <2> QED BY <1>1, <2>1 DEF NestedIn, Popped
<1>3. BusyIn(u) = BusyIn(s)
  <2>1. \A x \in BusyIn(u) : x \in BusyIn(s)
    <3> SUFFICES ASSUME NEW i \in DOMAIN u, u[i].op \in {"phase", "sync"}
                 PROVE  \E j \in DOMAIN s : s[j] = u[i]
      BY DEF BusyIn
    <3>1. i + 1 \in DOMAIN s /\ u[i] = s[i + 1]
      BY <1>1 DEF Popped
    <3> QED BY <3>1
  <2>2. \A x \in BusyIn(s) : x \in BusyIn(u)
    <3> SUFFICES ASSUME NEW i \in DOMAIN s, s[i].op \in {"phase", "sync"}
                 PROVE  \E j \in DOMAIN u : u[j] = s[i]
      BY DEF BusyIn
    <3>1. i # 1
      OBVIOUS
    <3>2. i - 1 \in DOMAIN u /\ u[i - 1] = s[(i - 1) + 1] /\ (i - 1) + 1 = i
      BY <1>1, <3>1 DEF Popped
    <3> QED BY <3>2
  <2> QED BY <2>1, <2>2
<1> QED BY <1>1, <1>2, <1>3

(* A call from outside starts, goes on or ends.                            *)
Only(x, u) ==
    /\ u \in Seq(CallStates) /\ Len(u) = 1 /\ DOMAIN u = {1}
    /\ u[1] = x /\ Head(u) = x /\ u # <<>>
    /\ NestedIn(u)
    /\ BusyIn(u) = IF x.op \in {"phase", "sync"} THEN {x.cur} ELSE {}

LEMMA OuterPushed ==
    ASSUME NEW x \in CallStates, x.op # "walk"
    PROVE  Only(x, <<x>> \o <<>>)
<1> DEFINE u == <<x>> \o <<>>
<1>1. u = <<x>>
  OBVIOUS
<1>2. /\ u \in Seq(CallStates) /\ Len(u) = 1 /\ DOMAIN u = {1}
      /\ u[1] = x /\ Head(u) = x /\ u # <<>>
  BY <1>1
<1>3. NestedIn(u)
  BY <1>2 DEF NestedIn
<1> QED BY <1>2, <1>3, OuterAlone DEF Only

LEMMA OuterExchanged ==
    ASSUME NEW s \in Seq(CallStates), NestedIn(s), s # <<>>, s[1].op # "walk",
           NEW x \in CallStates, x.op # "walk"
    PROVE  Only(x, <<x>> \o Tail(s))
<1> DEFINE u == <<x>> \o Tail(s)
<1>1. u \in Seq(CallStates) /\ Exchanged(s, x, u)
  BY StackSteps
<1>2. Len(s) = 1
  BY OuterAlone
<1>3. /\ u \in Seq(CallStates) /\ Len(u) = 1 /\ DOMAIN u = {1}
      /\ u[1] = x /\ Head(u) = x /\ u # <<>>
  BY <1>1, <1>2 DEF Exchanged
<1>4. NestedIn(u)
  BY <1>3 DEF NestedIn
<1> QED BY <1>3, <1>4, OuterAlone DEF Only

LEMMA OuterPopped ==
    ASSUME NEW s \in Seq(CallStates), NestedIn(s), s # <<>>, s[1].op # "walk"
    PROVE  Tail(s) = <<>> /\ NestedIn(<<>>) /\ BusyIn(<<>>) = {}
<1> DEFINE u == Tail(s)
<1>1. u \in Seq(CallStates) /\ (u = <<>>) = (Len(s) = 1)
  BY StackPops
<1>2. u = <<>>
  BY <1>1, OuterAlone
<1> QED BY <1>2 DEF NestedIn, BusyIn

-----------------------------------------------------------------------------
(* The records a walk leaves on the stack.                                 *)
WalkIs(x, u, c, n, p, m, C, D) ==
    /\ x \in WalkCalls /\ x.op = "walk" /\ x.user = u
    /\ x.cur = c /\ x.next = n /\ x.prev = p
    /\ x.saved = m /\ x.call = C /\ x.delete = D

LEMMA WalkFields ==
    ASSUME NEW w \in WalkCalls, NEW c \in 0..MaxCallbacks, NEW n \in 0..MaxCallbacks,
           NEW p \in 0..MaxCallbacks, NEW m \in Modes
    PROVE  LET x == [w EXCEPT !.cur = c, !.next = n, !.call = @ \ {c}]
           IN  /\ WalkIs(x, w.user, c, n, w.prev, w.saved, w.call \ {c}, w.delete)
               /\ WalkIs([x EXCEPT !.user = TRUE, !.saved = m],
                         TRUE, c, n, w.prev, m, w.call \ {c}, w.delete)
               /\ WalkIs([x EXCEPT !.prev = p],
                         w.user, c, n, p, w.saved, w.call \ {c}, w.delete)
               /\ WalkIs([w EXCEPT !.user = FALSE, !.prev = p],
                         FALSE, w.cur, w.next, p, w.saved, w.call, w.delete)
<1> DEFINE x == [w EXCEPT !.cur = c, !.next = n, !.call = @ \ {c}]
           Z == 0..MaxCallbacks
<1>1. w.call \ {c} \in SUBSET Callbacks /\ TRUE \in BOOLEAN /\ FALSE \in BOOLEAN
  BY DEF WalkCalls
<1>2. Z = 0..MaxCallbacks
  OBVIOUS
<1> HIDE DEF Z
<1>3. WalkIs(x, w.user, c, n, w.prev, w.saved, w.call \ {c}, w.delete)
  BY <1>1, <1>2 DEF WalkCalls, WalkIs
<1>4. WalkIs([w EXCEPT !.user = FALSE, !.prev = p],
             FALSE, w.cur, w.next, p, w.saved, w.call, w.delete)
  BY <1>1, <1>2 DEF WalkCalls, WalkIs
<1> HIDE DEF x
<1>5. WalkIs([x EXCEPT !.user = TRUE, !.saved = m],
             TRUE, c, n, w.prev, m, w.call \ {c}, w.delete)
  BY <1>1, <1>2, <1>3 DEF WalkCalls, WalkIs
<1>6. WalkIs([x EXCEPT !.prev = p], w.user, c, n, p, w.saved, w.call \ {c}, w.delete)
  BY <1>1, <1>2, <1>3 DEF WalkCalls, WalkIs
<1> QED BY <1>3, <1>4, <1>5, <1>6 DEF x

(* The steps of the stack.                                                 *)
Good(u) == u \in Seq(CallStates) /\ NestedIn(u)

WalkStarts ==
    /\ Good(calls') /\ Pushed(calls, calls'[1], calls')
    /\ calls'[1] \in WalkCalls /\ calls'[1].op = "walk"
    /\ BusyIn(calls') = BusyIn(calls)
    /\ calls = <<>> \/ calls[1].user

WalkMoves ==
    /\ calls # <<>> /\ calls[1] \in WalkCalls /\ calls[1].op = "walk"
    /\ Good(calls') /\ Exchanged(calls, calls'[1], calls')
    /\ calls'[1] \in WalkCalls /\ calls'[1].op = "walk"
    /\ BusyIn(calls') = BusyIn(calls)

WalkEnds ==
    /\ calls # <<>> /\ calls[1] \in WalkCalls /\ calls[1].op = "walk"
    /\ Good(calls') /\ Popped(calls, calls')
    /\ BusyIn(calls') = BusyIn(calls)

OuterIs(x) ==
    Good(calls') /\ Only(x, calls') /\ x \in CallStates /\ x.op # "walk"

OuterWas ==
    /\ Len(calls) = 1 /\ DOMAIN calls = {1} /\ calls[1] \in CallStates /\ calls # <<>>
    /\ calls[1].op # "walk"
    /\ BusyIn(calls) = IF calls[1].op \in {"phase", "sync"} THEN {calls[1].cur} ELSE {}

OuterEnds == OuterWas /\ calls' = <<>> /\ Good(calls') /\ BusyIn(calls') = {}

LEMMA NestedAsIn == (Nested <=> NestedIn(calls)) /\ Executing = BusyIn(calls)
BY DEF Nested, NestedIn, Executing, BusyIn

LEMMA Top ==
    ASSUME TypeOK, calls # <<>>
    PROVE  /\ Call = calls[1] /\ calls[1] \in CallStates /\ 1 \in DOMAIN calls
           /\ Len(calls) \in Nat /\ Len(calls) >= 1 /\ DOMAIN calls = 1..Len(calls)
           /\ Call.op \in {"walk", "phase", "sync", "task"} /\ Call.user \in BOOLEAN
           /\ Call.op = "walk" => Call \in WalkCalls
           /\ Call.op = "phase" => Call \in PhaseCalls
           /\ Call.op = "sync" => Call \in SyncCalls /\ Call.user
           /\ Call.op = "task" => Call \in TaskCalls /\ Call.user
<1>1. calls \in Seq(CallStates)
  BY DEF TypeOK
<1>2. /\ Call = calls[1] /\ calls[1] \in CallStates /\ 1 \in DOMAIN calls
      /\ Len(calls) \in Nat /\ Len(calls) >= 1 /\ DOMAIN calls = 1..Len(calls)
  BY <1>1 DEF Call
<1> QED BY <1>2, CallKinds

LEMMA StartsWalk ==
    ASSUME TypeOK, Nested, ChangeValue
    PROVE  /\ WalkStarts
           /\ WalkIs(calls'[1], FALSE, 0, head, 0, mode, With("live"), With("removed"))
<1>1. WalkIs(Walk, FALSE, 0, head, 0, mode, With("live"), With("removed"))
  <2> DEFINE Z == 0..MaxCallbacks
  <2>1. 0 \in Z /\ head \in Z /\ mode \in Modes
    BY BoundsAssumption DEF TypeOK
  <2>2. With("live") \in SUBSET Callbacks /\ With("removed") \in SUBSET Callbacks
    BY DEF With
  <2>3. Z = 0..MaxCallbacks
    OBVIOUS
  <2> HIDE DEF Z
  <2> QED BY <2>1, <2>2, <2>3 DEF Walk, WalkIs, WalkCalls
<1>2. calls' = <<Walk>> \o calls /\ (calls = <<>> \/ Call.user)
  BY DEF ChangeValue, Enter, ClientRuns, Idle
<1>3. calls = <<>> \/ calls[1].user
  BY <1>2, Top
<1>4. Walk \in WalkCalls /\ calls \in Seq(CallStates) /\ NestedIn(calls)
  BY <1>1, NestedAsIn DEF WalkIs, TypeOK
<1>5. /\ calls' \in Seq(CallStates) /\ Pushed(calls, Walk, calls') /\ Walk.op = "walk"
      /\ NestedIn(calls') /\ BusyIn(calls') = BusyIn(calls)
  BY <1>2, <1>3, <1>4, WalkPushed
<1>6. calls'[1] = Walk
  BY <1>5 DEF Pushed
<1> QED BY <1>1, <1>3, <1>4, <1>5, <1>6 DEF WalkStarts, Good

LEMMA MovesWalk ==
    ASSUME TypeOK, Nested, calls # <<>>, Call.op = "walk",
           NEW w, w \in WalkCalls, Become(w)
    PROVE  WalkMoves /\ calls'[1] = w
<1>1. calls \in Seq(CallStates) /\ NestedIn(calls) /\ calls[1].op = "walk" /\ calls[1] \in WalkCalls
  BY NestedAsIn, Top DEF TypeOK
<1>2. calls' = <<w>> \o Tail(calls)
  BY DEF Become
<1>3. /\ calls' \in Seq(CallStates) /\ Exchanged(calls, w, calls') /\ w.op = "walk"
      /\ NestedIn(calls') /\ BusyIn(calls') = BusyIn(calls)
  BY <1>1, <1>2, WalkExchanged
<1>4. calls'[1] = w
  BY <1>3 DEF Exchanged
<1> QED BY <1>1, <1>3, <1>4 DEF WalkMoves, Good

(* What the walk at the top of the stack is.                               *)
LEMMA TopWalk ==
    ASSUME TypeOK, calls # <<>>, Call.op = "walk"
    PROVE  /\ Call = calls[1] /\ Call \in WalkCalls
           /\ Call.next \in 0..MaxCallbacks /\ Call.prev \in 0..MaxCallbacks
           /\ Call.cur \in 0..MaxCallbacks /\ Call.saved \in Modes
           /\ Call.next # 0 => Cur \in Callbacks /\ next[Cur] \in 0..MaxCallbacks
<1>1. Call = calls[1] /\ Call \in WalkCalls
  BY Top
<1>2. /\ Call.next \in 0..MaxCallbacks /\ Call.prev \in 0..MaxCallbacks
      /\ Call.cur \in 0..MaxCallbacks /\ Call.saved \in Modes
  BY <1>1 DEF WalkCalls
<1>3. Call.next # 0 => Cur \in Callbacks
  BY <1>2, BoundsAssumption DEF Cur, Callbacks
<1> QED BY <1>1, <1>2, <1>3 DEF TypeOK

LEMMA CallsValue ==
    ASSUME TypeOK, Nested, CallValue
    PROVE  /\ WalkMoves /\ Call = calls[1] /\ Cur \in Callbacks
           /\ WalkIs(calls'[1], TRUE, Cur, next[Cur], Call.prev, mode, Call.call \ {Cur},
                     Call.delete)
<1>1. calls # <<>> /\ Call.op = "walk" /\ Call.next # 0 /\ mode \in Modes
  BY DEF CallValue, AtCallback, InCall, TypeOK
<1> DEFINE w == [Considered(Cur) EXCEPT !.user = TRUE, !.saved = mode]
<1>2. WalkIs(w, TRUE, Cur, next[Cur], Call.prev, mode, Call.call \ {Cur}, Call.delete)
  <2>1. Cur \in 0..MaxCallbacks /\ next[Cur] \in 0..MaxCallbacks /\ Call \in WalkCalls
    BY <1>1, TopWalk DEF Cur
  <2> QED BY <1>1, <2>1, WalkFields DEF Considered
<1>3. Become(w) /\ w \in WalkCalls
  BY <1>2 DEF CallValue, WalkIs
<1> HIDE DEF w
<1> QED BY <1>1, <1>2, <1>3, MovesWalk, TopWalk

LEMMA PassesNotReady ==
    ASSUME TypeOK, Nested, NotReady
    PROVE  /\ WalkMoves /\ Call = calls[1] /\ Cur \in Callbacks
           /\ WalkIs(calls'[1], FALSE, Cur, next[Cur], Cur, Call.saved, Call.call \ {Cur},
                     Call.delete)
<1>1. calls # <<>> /\ Call.op = "walk" /\ Call.next # 0 /\ Call.user = FALSE
  BY DEF NotReady, AtCallback, InCall
<1> DEFINE w == [Considered(Cur) EXCEPT !.prev = Cur]
<1>2. WalkIs(w, FALSE, Cur, next[Cur], Cur, Call.saved, Call.call \ {Cur}, Call.delete)
  <2>1. /\ Cur \in 0..MaxCallbacks /\ next[Cur] \in 0..MaxCallbacks /\ Call \in WalkCalls
        /\ Call.saved \in Modes
    BY <1>1, TopWalk DEF Cur
  <2> QED BY <1>1, <2>1, WalkFields DEF Considered
<1>3. Become(w) /\ w \in WalkCalls
  BY <1>2 DEF NotReady, WalkIs
<1> HIDE DEF w
<1> QED BY <1>1, <1>2, <1>3, MovesWalk, TopWalk

LEMMA Reaps ==
    ASSUME TypeOK, Nested, Reap
    PROVE  /\ WalkMoves /\ Call = calls[1] /\ Cur \in Callbacks
           /\ WalkIs(calls'[1], FALSE, Cur, next[Cur], Call.prev, Call.saved,
                     Call.call \ {Cur}, Call.delete)
<1>1. calls # <<>> /\ Call.op = "walk" /\ Call.next # 0 /\ Call.user = FALSE
  BY DEF Reap, AtCallback, InCall
<1> DEFINE w == Considered(Cur)
<1>2. WalkIs(w, FALSE, Cur, next[Cur], Call.prev, Call.saved, Call.call \ {Cur}, Call.delete)
  <2>1. /\ Cur \in 0..MaxCallbacks /\ next[Cur] \in 0..MaxCallbacks /\ Call \in WalkCalls
        /\ Call.saved \in Modes
    BY <1>1, TopWalk DEF Cur
  <2> QED BY <1>1, <2>1, WalkFields DEF Considered
<1>3. Become(w) /\ w \in WalkCalls
  BY <1>2 DEF Reap, WalkIs
<1> HIDE DEF w
<1> QED BY <1>1, <1>2, <1>3, MovesWalk, TopWalk

LEMMA ReturnsFromValue ==
    ASSUME TypeOK, Nested, CallReturns
    PROVE  /\ WalkMoves /\ Call = calls[1]
           /\ WalkIs(calls'[1], FALSE, Call.cur, Call.next, Call.cur, Call.saved,
                     Call.call, Call.delete)
<1>1. calls # <<>> /\ Call.op = "walk" /\ Call.user = TRUE
  BY DEF CallReturns, InCall
<1> DEFINE w == [Call EXCEPT !.user = FALSE, !.prev = Call.cur]
<1>2. WalkIs(w, FALSE, Call.cur, Call.next, Call.cur, Call.saved, Call.call, Call.delete)
  <2>1. /\ Call.cur \in 0..MaxCallbacks /\ Call \in WalkCalls
        /\ Call.saved \in Modes
    BY <1>1, TopWalk
  <2> QED BY <1>1, <2>1, WalkFields
<1>3. Become(w) /\ w \in WalkCalls
  BY <1>2 DEF CallReturns, WalkIs
<1> HIDE DEF w
<1> QED BY <1>1, <1>2, <1>3, MovesWalk, TopWalk

LEMMA EndsWalk ==
    ASSUME TypeOK, Nested, WalkDone
    PROVE  WalkEnds
<1>1. calls # <<>> /\ Call.op = "walk" /\ calls' = Tail(calls)
  BY DEF WalkDone, InCall, Leave
<1>2. calls \in Seq(CallStates) /\ NestedIn(calls) /\ calls[1].op = "walk" /\ calls[1] \in WalkCalls
  BY <1>1, NestedAsIn, Top DEF TypeOK
<1>3. /\ calls' \in Seq(CallStates) /\ Popped(calls, calls')
      /\ NestedIn(calls') /\ BusyIn(calls') = BusyIn(calls)
  BY <1>1, <1>2, WalkPopped
<1> QED BY <1>1, <1>2, <1>3 DEF WalkEnds, Good

LEMMA StartsOuter ==
    ASSUME calls = <<>>, NEW x \in CallStates, x.op # "walk", Enter(x)
    PROVE  OuterIs(x)
<1>1. calls' = <<x>> \o <<>>
  BY DEF Enter
<1> QED BY <1>1, OuterPushed DEF OuterIs, Good, Only

LEMMA IsOuter ==
    ASSUME TypeOK, Nested, calls # <<>>, Call.op # "walk"
    PROVE  OuterWas /\ Call = calls[1]
<1>1. calls \in Seq(CallStates) /\ NestedIn(calls) /\ Call = calls[1] /\ calls[1] \in CallStates
  BY NestedAsIn, Top DEF TypeOK
<1> QED BY <1>1, OuterAlone DEF OuterWas

LEMMA MovesOuter ==
    ASSUME TypeOK, Nested, calls # <<>>, Call.op # "walk",
           NEW x \in CallStates, x.op # "walk", Become(x)
    PROVE  OuterIs(x)
<1>1. calls \in Seq(CallStates) /\ NestedIn(calls) /\ calls[1].op # "walk"
  BY NestedAsIn, Top DEF TypeOK
<1>2. calls' = <<x>> \o Tail(calls)
  BY DEF Become
<1>3. Only(x, calls')
  BY <1>1, <1>2, OuterExchanged
<1> QED BY <1>3 DEF OuterIs, Good, Only

LEMMA EndsOuter ==
    ASSUME TypeOK, Nested, calls # <<>>, Call.op # "walk", Leave
    PROVE  OuterEnds /\ Call = calls[1]
<1>1. calls \in Seq(CallStates) /\ NestedIn(calls) /\ calls[1].op # "walk"
  BY NestedAsIn, Top DEF TypeOK
<1>2. calls' = Tail(calls)
  BY DEF Leave
<1>3. Tail(calls) = <<>> /\ NestedIn(<<>>) /\ BusyIn(<<>>) = {}
  BY <1>1, OuterPopped
<1>4. calls' = <<>> /\ <<>> \in Seq(CallStates)
  BY <1>2, <1>3
<1>5. OuterWas /\ Call = calls[1]
  BY IsOuter
<1> QED BY <1>3, <1>4, <1>5 DEF OuterEnds, Good

PhaseIs(x, u, p, c, n) ==
    /\ x \in PhaseCalls /\ x \in CallStates
    /\ x.op = "phase" /\ x.user = u /\ x.phase = p /\ x.cur = c /\ x.null = n

LEMMA PhaseFields ==
    ASSUME NEW p \in Phases, NEW c \in 0..MaxCallbacks, NEW n \in BOOLEAN, NEW u \in BOOLEAN
    PROVE  PhaseIs([op |-> "phase", user |-> u, phase |-> p, cur |-> c, null |-> n],
                   u, p, c, n)
<1> DEFINE Z == 0..MaxCallbacks
<1>1. Z = 0..MaxCallbacks /\ TRUE \in BOOLEAN /\ FALSE \in BOOLEAN
  OBVIOUS
<1> HIDE DEF Z
<1> QED BY <1>1 DEF PhaseIs, PhaseCalls, CallStates

LEMMA PhaseMoved ==
    ASSUME NEW x \in PhaseCalls, NEW c \in 0..MaxCallbacks, NEW n \in BOOLEAN
    PROVE  LET y == [x EXCEPT !.user = TRUE, !.cur = c, !.null = n]
               z == [x EXCEPT !.user = FALSE, !.cur = c]
           IN  PhaseIs(y, TRUE, x.phase, c, n) /\ PhaseIs(z, FALSE, x.phase, c, x.null)
<1> DEFINE Z == 0..MaxCallbacks
<1>1. Z = 0..MaxCallbacks /\ TRUE \in BOOLEAN /\ FALSE \in BOOLEAN
  OBVIOUS
<1> HIDE DEF Z
<1> QED BY <1>1 DEF PhaseIs, PhaseCalls, CallStates

LEMMA StartsPhase ==
    ASSUME TypeOK, NEW p \in Phases, StartPhase(p)
    PROVE  calls = <<>> /\ OuterIs(calls'[1]) /\ PhaseIs(calls'[1], FALSE, p, 0, FALSE)
<1> DEFINE x == [op |-> "phase", user |-> FALSE, phase |-> p, cur |-> 0, null |-> FALSE]
<1>1. PhaseIs(x, FALSE, p, 0, FALSE)
  <2>1. 0 \in 0..MaxCallbacks
    BY BoundsAssumption
  <2> QED BY <2>1, PhaseFields
<1>2. calls = <<>> /\ Enter(x)
  BY DEF StartPhase, Idle
<1> HIDE DEF x
<1>3. OuterIs(x)
  BY <1>1, <1>2, StartsOuter DEF PhaseIs
<1> QED BY <1>1, <1>2, <1>3 DEF OuterIs, Only

(* The list of a phase.                                                    *)
LEMMA PhaseLists ==
    ASSUME TypeOK, NEW p \in Phases
    PROVE  /\ lists[p] \in Seq(Callbacks)
           /\ lists[p] # <<>> =>
                /\ Head(lists[p]) \in Callbacks /\ Head(lists[p]) \in 0..MaxCallbacks
                /\ Head(lists[p]) \in ToSet(lists[p])
                /\ Tail(lists[p]) \in Seq(Callbacks)
<1>1. lists[p] \in Seq(Callbacks)
  BY DEF TypeOK
<1>2. ASSUME lists[p] # <<>>
      PROVE  /\ Head(lists[p]) \in Callbacks
             /\ Head(lists[p]) \in ToSet(lists[p]) /\ Tail(lists[p]) \in Seq(Callbacks)
  BY <1>1, <1>2, ToSetHeadTail
<1> QED BY <1>1, <1>2, BoundsAssumption DEF Callbacks

LEMMA CallsNext ==
    ASSUME TypeOK, Nested, CallNext
    PROVE  /\ Call = calls[1] /\ Call \in PhaseCalls /\ Call.user = FALSE
           /\ Call.phase \in Phases /\ OuterWas /\ lists[Call.phase] # <<>>
           /\ OuterIs(calls'[1])
           /\ LET c == Head(lists[Call.phase])
              IN  c \in Callbacks /\ PhaseIs(calls'[1], TRUE, Call.phase, c, mem[c] = "removed")
<1>1. /\ calls # <<>> /\ Call.op = "phase" /\ Call.user = FALSE /\ lists[Call.phase] # <<>>
  BY DEF CallNext, InCall
<1>2. Call = calls[1] /\ Call \in PhaseCalls /\ OuterWas
  BY <1>1, Top, IsOuter
<1>3. Call.phase \in Phases
  BY <1>2 DEF PhaseCalls
<1> DEFINE c == Head(lists[Call.phase])
           n == mem[c] = "removed"
           x == [Call EXCEPT !.user = TRUE, !.cur = c, !.null = n]
<1>4. c \in Callbacks /\ c \in 0..MaxCallbacks
  BY <1>1, <1>3, PhaseLists
<1>5. n \in BOOLEAN
  OBVIOUS
<1>6. Become(x)
  BY DEF CallNext
<1> HIDE DEF n, c
<1>7. PhaseIs(x, TRUE, Call.phase, c, n)
  BY <1>2, <1>4, <1>5, PhaseMoved
<1> HIDE DEF x
<1>8. OuterIs(x)
  BY <1>1, <1>6, <1>7, MovesOuter DEF PhaseIs
<1>9. calls'[1] = x
  BY <1>8 DEF OuterIs, Only
<1> QED BY <1>1, <1>2, <1>3, <1>4, <1>7, <1>8, <1>9 DEF c, n

LEMMA ReturnsFromNext ==
    ASSUME TypeOK, Nested, NextReturns
    PROVE  /\ Call = calls[1] /\ Call \in PhaseCalls /\ Call.user = TRUE
           /\ Call.phase \in Phases /\ OuterWas
           /\ OuterIs(calls'[1])
           /\ PhaseIs(calls'[1], FALSE, Call.phase, 0, Call.null)
<1>1. calls # <<>> /\ Call.op = "phase" /\ Call.user = TRUE
  BY DEF NextReturns, InCall
<1>2. Call = calls[1] /\ Call \in PhaseCalls /\ OuterWas
  BY <1>1, Top, IsOuter
<1>3. Call.phase \in Phases
  BY <1>2 DEF PhaseCalls
<1> DEFINE x == [Call EXCEPT !.user = FALSE, !.cur = 0]
<1>4. 0 \in 0..MaxCallbacks /\ TRUE \in BOOLEAN
  BY BoundsAssumption
<1>6. Become(x)
  BY DEF NextReturns
<1>7. PhaseIs(x, FALSE, Call.phase, 0, Call.null)
  BY <1>2, <1>4, PhaseMoved
<1> HIDE DEF x
<1>8. OuterIs(x)
  BY <1>1, <1>6, <1>7, MovesOuter DEF PhaseIs
<1>9. calls'[1] = x
  BY <1>8 DEF OuterIs, Only
<1> QED BY <1>1, <1>2, <1>3, <1>7, <1>8, <1>9

LEMMA StartsSync ==
    ASSUME TypeOK, NEW c \in Callbacks, CallSync(c)
    PROVE  /\ calls = <<>> /\ OuterIs(calls'[1])
           /\ calls'[1].op = "sync" /\ calls'[1].user /\ calls'[1].cur = c
<1> DEFINE x == [op |-> "sync", user |-> TRUE, cur |-> c]
<1>1. x \in CallStates /\ x.op = "sync" /\ x.user /\ x.cur = c
  BY DEF SyncCalls, CallStates
<1>2. calls = <<>> /\ Enter(x)
  BY DEF CallSync, Idle
<1> HIDE DEF x
<1>3. OuterIs(x)
  BY <1>1, <1>2, StartsOuter
<1> QED BY <1>1, <1>2, <1>3 DEF OuterIs, Only

LEMMA StartsTask ==
    ASSUME TypeOK, CallTask
    PROVE  /\ calls = <<>> /\ OuterIs(calls'[1])
           /\ calls'[1].op = "task" /\ calls'[1].user
<1> DEFINE x == [op |-> "task", user |-> TRUE]
<1>1. x \in CallStates /\ x.op = "task" /\ x.user
  BY DEF TaskCalls, CallStates
<1>2. calls = <<>> /\ Enter(x)
  BY DEF CallTask, Idle
<1> HIDE DEF x
<1>3. OuterIs(x)
  BY <1>1, <1>2, StartsOuter
<1> QED BY <1>1, <1>2, <1>3 DEF OuterIs, Only

LEMMA ReturnsFromOuter ==
    ASSUME TypeOK, Nested, PhaseDone \/ SyncReturns \/ TaskReturns
    PROVE  OuterEnds /\ Call = calls[1] /\ Call.op # "walk"
<1>1. calls # <<>> /\ Call.op # "walk" /\ Leave
  BY DEF PhaseDone, SyncReturns, TaskReturns, InCall
<1> QED BY <1>1, EndsOuter

-----------------------------------------------------------------------------
(* The steps of the heap.                                                  *)
HeapOK ==
    /\ reason \in [Callbacks -> Reasons]
    /\ mem \in [Callbacks -> {"unused", "live", "removed", "deleted"}]
    /\ next \in [Callbacks -> 0..MaxCallbacks] /\ head \in 0..MaxCallbacks
    /\ lists \in [Phases -> Seq(Callbacks)] /\ events \subseteq Callbacks

(* The state and the reason of one call-back change.                       *)
One(c, m, r) ==
    /\ c \in Callbacks
    /\ mem'[c] = m /\ reason'[c] = r
    /\ \A d \in Callbacks \ {c} : mem'[d] = mem[d] /\ reason'[d] = reason[d]

KeepsHeap == UNCHANGED <<reason, mem, next, head, lists, events>>

KeepsList == UNCHANGED <<next, head>>

(* Steps that leave the heap alone.                                        *)
Quiet ==
    \/ ChangeValue \/ CallValue \/ CallReturns \/ NotReady \/ WalkDone
    \/ \E p \in Phases : StartPhase(p)
    \/ PhaseDone \/ CallTask \/ TaskReturns

LEMMA QuietHeap == ASSUME Quiet PROVE KeepsHeap
BY DEF Quiet, KeepsHeap, ChangeValue, CallValue, CallReturns, NotReady, WalkDone,
       StartPhase, PhaseDone, CallTask, TaskReturns, heap

LEMMA NextKinds ==
    ASSUME Next
    PROVE  \/ Quiet \/ Reap \/ CallNext \/ NextReturns \/ SyncReturns
           \/ \E r \in Reasons : Register(r)
           \/ \E c \in Callbacks : RemoveCb(c) \/ CallSync(c) \/ SkipSync(c)
BY DEF Next, Quiet

LEMMA RegisterHeap ==
    ASSUME TypeOK, NEW r \in Reasons, Register(r)
    PROVE  \E c \in Callbacks :
            /\ mem[c] = "unused" /\ \A d \in 1..(c - 1) : mem[d] # "unused"
            /\ One(c, "live", r) /\ HeapOK'
            /\ \A d \in Callbacks \ {c} : next'[d] = next[d]
            /\ IF r = "ValueChange" THEN head' = c /\ next'[c] = head ELSE KeepsList
            /\ lists' = IF r \in Phases THEN [lists EXCEPT ![r] = <<c>> \o @] ELSE lists
            /\ events' = IF r \in Syncs THEN events \cup {c} ELSE events
<1>1. PICK c \in Callbacks :
        /\ mem[c] = "unused" /\ \A d \in 1..(c - 1) : mem[d] # "unused"
        /\ mem' = [mem EXCEPT ![c] = "live"]
        /\ reason' = [reason EXCEPT ![c] = r]
        /\ IF r = "ValueChange"
           THEN head' = c /\ next' = [next EXCEPT ![c] = head]
           ELSE UNCHANGED <<head, next>>
        /\ lists' = IF r \in Phases THEN [lists EXCEPT ![r] = <<c>> \o @] ELSE lists
        /\ events' = IF r \in Syncs THEN events \cup {c} ELSE events
  BY DEF Register
<1>2. One(c, "live", r)
  BY <1>1 DEF One, TypeOK
<1> DEFINE Z == 0..MaxCallbacks
<1>3. Z = 0..MaxCallbacks /\ c \in Z /\ head \in Z
  BY BoundsAssumption DEF TypeOK, Callbacks
<1> HIDE DEF Z
<1>4. next' \in [Callbacks -> Z] /\ head' \in Z
  BY <1>1, <1>3 DEF TypeOK
<1>5. \A d \in Callbacks \ {c} : next'[d] = next[d]
  BY <1>1 DEF TypeOK
<1>6. IF r = "ValueChange" THEN head' = c /\ next'[c] = head ELSE KeepsList
  BY <1>1 DEF TypeOK, KeepsList
<1>7. lists' \in [Phases -> Seq(Callbacks)]
  <2>1. CASE r \in Phases
    <3>1. lists[r] \in Seq(Callbacks)
      BY <2>1 DEF TypeOK
    <3>2. <<c>> \o lists[r] \in Seq(Callbacks)
      BY <3>1, ToSetCons
    <3> QED BY <1>1, <2>1, <3>2 DEF TypeOK
  <2>2. CASE r \notin Phases
    BY <1>1, <2>2 DEF TypeOK
  <2> QED BY <2>1, <2>2
<1>8. HeapOK'
  BY <1>1, <1>3, <1>4, <1>7 DEF TypeOK, HeapOK
<1> QED BY <1>1, <1>2, <1>5, <1>6, <1>8

LEMMA RemoveHeap ==
    ASSUME TypeOK, NEW c \in Callbacks, RemoveCb(c)
    PROVE  One(c, "removed", reason[c]) /\ HeapOK' /\ KeepsList /\ UNCHANGED <<lists, events>>
BY DEF RemoveCb, One, HeapOK, KeepsList, TypeOK

LEMMA DeleteHeap ==
    ASSUME TypeOK, NEW c \in Callbacks, Delete(c),
           KeepsList, lists' = lists, events' = events \/ events' = events \ {c}
    PROVE  One(c, "deleted", "ValueChange") /\ HeapOK'
<1>1. "ValueChange" \in Reasons
  BY DEF Reasons
<1>2. One(c, "deleted", "ValueChange")
  BY DEF One, Delete, TypeOK
<1>3. reason' \in [Callbacks -> Reasons]
      /\ mem' \in [Callbacks -> {"unused", "live", "removed", "deleted"}]
  BY <1>1 DEF Delete, TypeOK
<1> QED BY <1>2, <1>3 DEF HeapOK, KeepsList, TypeOK

LEMMA Relinked ==
    ASSUME NEW S, NEW Z, NEW f \in [S -> Z], NEW c \in S, NEW p \in S, NEW n \in Z, NEW o \in Z
    PROVE  LET g == [f EXCEPT ![p] = n, ![c] = o]
               h == [f EXCEPT ![c] = o]
           IN  /\ g \in [S -> Z] /\ g[c] = o /\ (p # c => g[p] = n)
               /\ \A d \in S \ {c, p} : g[d] = f[d]
               /\ h \in [S -> Z] /\ h[c] = o /\ \A d \in S \ {c} : h[d] = f[d]
OBVIOUS

LEMMA ReapHeap ==
    ASSUME TypeOK, Nested, Reap
    PROVE  /\ One(Cur, "deleted", reason[Cur]) /\ HeapOK' /\ UNCHANGED <<lists, events>>
           /\ next'[Cur] = 0
           /\ IF Call.prev = 0
              THEN head' = next[Cur] /\ \A d \in Callbacks \ {Cur} : next'[d] = next[d]
              ELSE /\ head' = head /\ Call.prev \in Callbacks
                   /\ Call.prev # Cur => next'[Call.prev] = next[Cur]
                   /\ \A d \in Callbacks \ {Cur, Call.prev} : next'[d] = next[d]
<1>1. /\ Cur \in Callbacks /\ Call.prev \in 0..MaxCallbacks /\ Unlinked(Cur)
      /\ mem' = [mem EXCEPT ![Cur] = "deleted"] /\ reason' = reason
      /\ UNCHANGED <<lists, events>>
  BY Reaps, TopWalk DEF Reap, AtCallback, InCall
<1>2. /\ next \in [Callbacks -> 0..MaxCallbacks] /\ head \in 0..MaxCallbacks
      /\ next[Cur] \in 0..MaxCallbacks /\ 0 \in 0..MaxCallbacks
      /\ Call.prev # 0 => Call.prev \in Callbacks
  BY <1>1, BoundsAssumption DEF TypeOK, Callbacks
<1>3. One(Cur, "deleted", reason[Cur])
  BY <1>1 DEF One, TypeOK
<1>4. mem' \in [Callbacks -> {"unused", "live", "removed", "deleted"}]
  BY <1>1 DEF TypeOK
<1>5. /\ next' \in [Callbacks -> 0..MaxCallbacks] /\ head' \in 0..MaxCallbacks
      /\ next'[Cur] = 0
      /\ Call.prev = 0 =>
            head' = next[Cur] /\ \A d \in Callbacks \ {Cur} : next'[d] = next[d]
      /\ Call.prev # 0 =>
            /\ head' = head
            /\ Call.prev # Cur => next'[Call.prev] = next[Cur]
            /\ \A d \in Callbacks \ {Cur, Call.prev} : next'[d] = next[d]
  <2>1. CASE Call.prev = 0
    <3>1. head' = next[Cur] /\ next' = [next EXCEPT ![Cur] = 0]
      BY <1>1, <2>1 DEF Unlinked
    <3> QED BY <1>1, <1>2, <2>1, <3>1, Relinked
  <2>2. CASE Call.prev # 0
    <3>1. head' = head /\ next' = [next EXCEPT ![Call.prev] = next[Cur], ![Cur] = 0]
      BY <1>1, <2>2 DEF Unlinked
    <3> QED BY <1>1, <1>2, <2>2, <3>1, Relinked
  <2> QED BY <2>1, <2>2
<1>6. reason' = reason /\ lists' = lists /\ events' = events
  BY <1>1
<1>7. HeapOK'
  BY <1>4, <1>5, <1>6 DEF HeapOK, TypeOK
<1> QED BY <1>1, <1>2, <1>3, <1>5, <1>6, <1>7

LEMMA CallNextHeap ==
    ASSUME TypeOK, Nested, CallNext
    PROVE  HeapOK' /\ UNCHANGED <<reason, mem, next, head, events>>
<1>1. Call.phase \in Phases /\ lists[Call.phase] # <<>>
  BY CallsNext
<1>2. Tail(lists[Call.phase]) \in Seq(Callbacks)
  BY <1>1, PhaseLists
<1>3. lists' = [lists EXCEPT ![Call.phase] = Tail(@)]
      /\ UNCHANGED <<reason, mem, next, head, events>>
  BY DEF CallNext
<1>4. lists' \in [Phases -> Seq(Callbacks)]
  BY <1>1, <1>2, <1>3 DEF TypeOK
<1> QED BY <1>3, <1>4 DEF HeapOK, TypeOK

-----------------------------------------------------------------------------
(* The saved modes, for any stack s, mode m and reasons rs.                *)
Right(call, m, rs) ==
    CASE call.op = "walk"  -> m = "RWSYNC"
      [] call.op = "phase" -> m = PhaseMode(call.phase)
      [] call.op = "sync"  -> (m = "ROSYNC") = (rs[call.cur] = "ReadOnlySynch")
      [] call.op = "task"  -> m \in {"CALLTF", "COMPILETF"}

OutOf(s, i, m, rs) == IF i = Len(s) THEN m = "NONE" ELSE Right(s[i + 1], m, rs)

ModesIn(s, m, rs) ==
    /\ s # <<>> =>
         IF s[1].op = "walk" /\ ~ s[1].user THEN OutOf(s, 1, m, rs) ELSE Right(s[1], m, rs)
    /\ \A i \in DOMAIN s :
         s[i].op = "walk" /\ s[i].user => OutOf(s, i, s[i].saved, rs)

LEMMA ModesAsIn ==
    ASSUME TypeOK
    PROVE  ModesSaved <=> ModesIn(calls, mode, reason)
<1>1. \A c, m : RightMode(c, m) <=> Right(c, m, reason)
  BY DEF RightMode, Right
<1>2. \A i, m : Outside(i, m) <=> OutOf(calls, i, m, reason)
  BY <1>1 DEF Outside, OutOf
<1>3. ASSUME calls # <<>>
      PROVE  /\ Call = calls[1]
             /\ InCall("walk", FALSE) <=> calls[1].op = "walk" /\ ~ calls[1].user
  BY <1>3, Top DEF InCall
<1>4. (calls # <<>> =>
         IF InCall("walk", FALSE) THEN Outside(1, mode) ELSE RightMode(Call, mode))
      <=> (calls # <<>> =>
             IF calls[1].op = "walk" /\ ~ calls[1].user THEN OutOf(calls, 1, mode, reason)
             ELSE Right(calls[1], mode, reason))
  BY <1>1, <1>2, <1>3
<1> QED BY <1>2, <1>4 DEF ModesSaved, ModesIn

LEMMA ModesPushed ==
    ASSUME NEW s, NEW u, NEW w, NEW m, NEW rs, ModesIn(s, m, rs),
           Len(s) \in Nat, s = <<>> => m = "NONE", s = <<>> \/ s[1].user,
           s = <<>> <=> Len(s) = 0,
           Pushed(s, w, u), w.op = "walk", ~ w.user
    PROVE  ModesIn(u, m, rs)
<1>1. OutOf(u, 1, m, rs)
  <2>1. CASE s = <<>>
    BY <2>1 DEF OutOf, Pushed
  <2>2. CASE s # <<>>
    <3>1. Right(s[1], m, rs)
      BY <2>2 DEF ModesIn
    <3>2. 1 \in 1..Len(s) /\ Len(u) # 1
      BY <2>2 DEF Pushed
    <3>3. u[1 + 1] = s[1]
      BY <3>2 DEF Pushed
    <3> QED BY <3>1, <3>2, <3>3 DEF OutOf
  <2> QED BY <2>1, <2>2
<1>2. ASSUME NEW i \in DOMAIN u, u[i].op = "walk" /\ u[i].user
      PROVE  OutOf(u, i, u[i].saved, rs)
  <2>1. i # 1 /\ i \in 2..Len(u)
    BY <1>2 DEF Pushed
  <2>2. u[i] = s[i - 1] /\ i - 1 \in DOMAIN s
    BY <2>1 DEF Pushed
  <2>3. OutOf(s, i - 1, u[i].saved, rs)
    BY <1>2, <2>2 DEF ModesIn
  <2>4. (i = Len(u)) = (i - 1 = Len(s))
    BY <2>1 DEF Pushed
  <2>5. i # Len(u) => u[i + 1] = s[(i - 1) + 1]
    BY <2>1 DEF Pushed
  <2> QED BY <2>3, <2>4, <2>5 DEF OutOf
<1>3. u # <<>> /\ u[1] = w
  BY DEF Pushed
<1> QED BY <1>1, <1>2, <1>3 DEF ModesIn

LEMMA ModesExchanged ==
    ASSUME NEW s, NEW u, NEW w, NEW m, NEW rs, ModesIn(s, m, rs),
           Len(s) \in Nat, s # <<>>, s[1].op = "walk", w.op = "walk",
           Exchanged(s, w, u)
    PROVE  /\ ~ s[1].user /\ w.user /\ w.saved = m => ModesIn(u, "RWSYNC", rs)
           /\ s[1].user /\ ~ w.user => ModesIn(u, s[1].saved, rs)
           /\ ~ s[1].user /\ ~ w.user => ModesIn(u, m, rs)
<1>1. \A i \in 2..Len(s) : u[i] = s[i]
  BY DEF Exchanged
<1>2. u # <<>> /\ u[1] = w /\ Len(u) = Len(s) /\ DOMAIN u = 1..Len(s) /\ DOMAIN s = 1..Len(s)
  BY DEF Exchanged
<1>3. ASSUME NEW i \in 1..Len(s), NEW x
      PROVE  OutOf(u, i, x, rs) <=> OutOf(s, i, x, rs)
  <2>1. i # Len(s) => i + 1 \in 2..Len(s)
    OBVIOUS
  <2> QED BY <1>1, <1>2, <2>1 DEF OutOf
<1>4. ASSUME NEW i \in 2..Len(s), u[i].op = "walk" /\ u[i].user
      PROVE  OutOf(u, i, u[i].saved, rs)
  BY <1>1, <1>2, <1>3, <1>4 DEF ModesIn
<1>5. 1 \in 1..Len(s) /\ \A i \in 1..Len(s) : i = 1 \/ i \in 2..Len(s)
  BY DEF Exchanged
<1>6. ASSUME ~ s[1].user, w.user, w.saved = m PROVE ModesIn(u, "RWSYNC", rs)
  <2>1. OutOf(u, 1, m, rs)
    BY <1>3, <1>5, <1>6 DEF ModesIn
  <2>2. Right(u[1], "RWSYNC", rs)
    BY <1>2 DEF Right
  <2> QED BY <1>2, <1>4, <1>5, <1>6, <2>1, <2>2 DEF ModesIn
<1>7. ASSUME s[1].user, ~ w.user PROVE ModesIn(u, s[1].saved, rs)
  <2>1. OutOf(u, 1, s[1].saved, rs)
    BY <1>2, <1>3, <1>5, <1>7 DEF ModesIn
  <2> QED BY <1>2, <1>4, <1>5, <1>7, <2>1 DEF ModesIn
<1>8. ASSUME ~ s[1].user, ~ w.user PROVE ModesIn(u, m, rs)
  <2>1. OutOf(u, 1, m, rs)
    BY <1>3, <1>5, <1>8 DEF ModesIn
  <2> QED BY <1>2, <1>4, <1>5, <1>8, <2>1 DEF ModesIn
<1> QED BY <1>6, <1>7, <1>8

LEMMA ModesPopped ==
    ASSUME NEW s, NEW u, NEW m, NEW rs, ModesIn(s, m, rs), NestedIn(s),
           Len(s) \in Nat, s # <<>>, s[1].op = "walk", ~ s[1].user,
           u = <<>> <=> Len(u) = 0,
           Popped(s, u)
    PROVE  ModesIn(u, m, rs) /\ (u = <<>> => m = "NONE")
<1>1. OutOf(s, 1, m, rs)
  BY DEF ModesIn
<1>2. u = <<>> => m = "NONE"
  BY <1>1 DEF OutOf, Popped
<1>3. ASSUME u # <<>> PROVE Right(u[1], m, rs) /\ u[1].user
  <2>1. Len(s) # 1 /\ 1 + 1 \in DOMAIN s /\ 1 + 1 > 1
    BY <1>3 DEF Popped
  <2>2. u[1] = s[1 + 1]
    BY <2>1 DEF Popped
  <2>3. Right(s[1 + 1], m, rs)
    BY <1>1, <2>1 DEF OutOf
  <2> QED BY <2>1, <2>2, <2>3 DEF NestedIn
<1>4. ASSUME NEW i \in DOMAIN u, u[i].op = "walk" /\ u[i].user
      PROVE  OutOf(u, i, u[i].saved, rs)
  <2>1. i + 1 \in DOMAIN s /\ u[i] = s[i + 1] /\ i \in Nat
    BY DEF Popped
  <2>2. OutOf(s, i + 1, u[i].saved, rs)
    BY <1>4, <2>1 DEF ModesIn
  <2>3. (i = Len(u)) = (i + 1 = Len(s))
    BY <2>1 DEF Popped
  <2>4. i # Len(u) => u[i + 1] = s[(i + 1) + 1]
    BY <2>1 DEF Popped
  <2> QED BY <2>2, <2>3, <2>4 DEF OutOf
<1> QED BY <1>2, <1>3, <1>4 DEF ModesIn

LEMMA ModesOuter ==
    ASSUME NEW u, NEW x, NEW m, NEW rs, Only(x, u), x.op # "walk", Right(x, m, rs)
    PROVE  ModesIn(u, m, rs)
BY DEF Only, ModesIn

LEMMA ModesKept ==
    ASSUME NEW s, NEW m, NEW rs, NEW qs, ModesIn(s, m, rs), Len(s) \in Nat,
           DOMAIN s = 1..Len(s), s # <<>> => Len(s) >= 1,
           \A i \in DOMAIN s : s[i].op = "sync" => qs[s[i].cur] = rs[s[i].cur]
    PROVE  ModesIn(s, m, qs)
<1>1. ASSUME NEW i \in DOMAIN s, NEW x PROVE Right(s[i], x, qs) <=> Right(s[i], x, rs)
  BY DEF Right
<1>2. ASSUME NEW i \in DOMAIN s, NEW x PROVE OutOf(s, i, x, qs) <=> OutOf(s, i, x, rs)
  <2>1. i # Len(s) => i + 1 \in DOMAIN s
    OBVIOUS
  <2> QED BY <1>1, <2>1 DEF OutOf
<1> QED BY <1>1, <1>2 DEF ModesIn

LEMMA Stack ==
    ASSUME TypeOK
    PROVE  /\ calls \in Seq(CallStates) /\ Len(calls) \in Nat /\ DOMAIN calls = 1..Len(calls)
           /\ calls = <<>> <=> Len(calls) = 0
           /\ calls # <<>> => Len(calls) >= 1
BY DEF TypeOK

LEMMA StackOf ==
    ASSUME NEW u, Good(u)
    PROVE  /\ Len(u) \in Nat /\ DOMAIN u = 1..Len(u) /\ u = <<>> <=> Len(u) = 0
           /\ u # <<>> => Len(u) >= 1
BY DEF Good

ModesGo == Good(calls') /\ ModesIn(calls', mode', reason') /\ (calls' = <<>> => mode' = "NONE")

LEMMA ModesOfWalk ==
    ASSUME TypeOK, Nested, ModesSaved,
           ChangeValue \/ CallValue \/ CallReturns \/ NotReady \/ Reap \/ WalkDone
    PROVE  ModesGo
<1>1. ModesIn(calls, mode, reason)
  BY ModesAsIn
<1>2. reason' = reason
  BY DEF ChangeValue, CallValue, CallReturns, NotReady, Reap, WalkDone, heap
<1>3. CASE ChangeValue
  <2>1. WalkStarts /\ ~ calls'[1].user /\ mode' = mode
    BY <1>3, StartsWalk DEF WalkIs, ChangeValue
  <2>2. calls = <<>> => mode = "NONE"
    BY DEF TypeOK
  <2>3. Good(calls') /\ Pushed(calls, calls'[1], calls') /\ calls'[1].op = "walk"
        /\ (calls = <<>> \/ calls[1].user)
    BY <2>1 DEF WalkStarts
  <2>4. ModesIn(calls', mode, reason)
    BY <1>1, <2>1, <2>2, <2>3, Stack, ModesPushed
  <2>5. calls' # <<>>
    BY <2>3 DEF Pushed
  <2> QED BY <1>2, <2>1, <2>3, <2>4, <2>5 DEF ModesGo
<1>4. ASSUME WalkMoves
      PROVE  /\ Good(calls') /\ calls' # <<>> /\ Len(calls) \in Nat
             /\ calls # <<>> /\ calls[1].op = "walk" /\ calls'[1].op = "walk"
             /\ Exchanged(calls, calls'[1], calls')
  BY <1>4, Stack DEF WalkMoves, Exchanged
<1>5. CASE CallValue
  <2>1. WalkMoves /\ calls'[1].user /\ calls'[1].saved = mode /\ mode' = "RWSYNC"
        /\ ~ calls[1].user
    BY <1>5, CallsValue DEF WalkIs, CallValue, AtCallback, InCall
  <2>2. ModesIn(calls', "RWSYNC", reason)
    BY <1>1, <1>4, <2>1, ModesExchanged
  <2> QED BY <1>2, <1>4, <2>1, <2>2 DEF ModesGo
<1>6. CASE CallReturns
  <2>1. WalkMoves /\ ~ calls'[1].user /\ mode' = calls[1].saved /\ calls[1].user
    BY <1>6, ReturnsFromValue DEF WalkIs, CallReturns, InCall
  <2>2. ModesIn(calls', calls[1].saved, reason)
    BY <1>1, <1>4, <2>1, ModesExchanged
  <2> QED BY <1>2, <1>4, <2>1, <2>2 DEF ModesGo
<1>7. CASE NotReady \/ Reap
  <2>1. WalkMoves /\ ~ calls'[1].user /\ mode' = mode /\ ~ calls[1].user
    <3>1. CASE NotReady
      BY <3>1, PassesNotReady DEF WalkIs, NotReady, AtCallback, InCall
    <3>2. CASE Reap
      BY <3>2, Reaps DEF WalkIs, Reap, AtCallback, InCall
    <3> QED BY <1>7, <3>1, <3>2
  <2>2. ModesIn(calls', mode, reason)
    BY <1>1, <1>4, <2>1, ModesExchanged
  <2> QED BY <1>2, <1>4, <2>1, <2>2 DEF ModesGo
<1>8. CASE WalkDone
  <2>1. WalkEnds /\ ~ calls[1].user /\ mode' = mode
    BY <1>8, EndsWalk, Top DEF WalkDone, InCall
  <2>2. /\ Good(calls') /\ Popped(calls, calls')
        /\ calls # <<>> /\ calls[1].op = "walk" /\ NestedIn(calls)
    BY <2>1, NestedAsIn DEF WalkEnds
  <2>3. calls' = <<>> <=> Len(calls') = 0
    BY <2>2, StackOf
  <2>4. ModesIn(calls', mode, reason) /\ (calls' = <<>> => mode = "NONE")
    BY <1>1, <2>1, <2>2, <2>3, Stack, ModesPopped
  <2> QED BY <1>2, <2>1, <2>2, <2>4 DEF ModesGo
<1> QED BY <1>3, <1>5, <1>6, <1>7, <1>8

LEMMA ModesOfOuter ==
    ASSUME TypeOK, Nested, ModesSaved,
           \/ \E p \in Phases : StartPhase(p)
           \/ CallNext \/ NextReturns \/ PhaseDone \/ SyncReturns \/ CallTask \/ TaskReturns
           \/ \E c \in Callbacks : CallSync(c)
    PROVE  ModesGo
<1>1. ModesIn(calls, mode, reason)
  BY ModesAsIn
<1>2. ASSUME NEW x, OuterIs(x), Right(x, mode', reason') PROVE ModesGo
  BY <1>2, ModesOuter DEF OuterIs, ModesGo, Only
<1>3. ASSUME NEW p \in Phases, StartPhase(p) PROVE ModesGo
  <2>1. OuterIs(calls'[1]) /\ calls'[1].op = "phase" /\ calls'[1].phase = p
    BY <1>3, StartsPhase DEF PhaseIs
  <2>2. mode' = PhaseMode(p)
    BY <1>3 DEF StartPhase
  <2> QED BY <1>2, <2>1, <2>2 DEF Right
<1>4. CASE CallNext \/ NextReturns
  <2>1. /\ OuterIs(calls'[1]) /\ calls'[1].op = "phase" /\ calls'[1].phase = calls[1].phase
        /\ calls[1].op = "phase" /\ calls # <<>>
    <3>1. CASE CallNext
      BY <3>1, CallsNext DEF PhaseIs, PhaseCalls, OuterWas
    <3>2. CASE NextReturns
      BY <3>2, ReturnsFromNext DEF PhaseIs, PhaseCalls, OuterWas
    <3> QED BY <1>4, <3>1, <3>2
  <2>2. mode' = mode
    BY <1>4 DEF CallNext, NextReturns
  <2>3. mode = PhaseMode(calls[1].phase)
    BY <1>1, <2>1 DEF ModesIn, Right
  <2> QED BY <1>2, <2>1, <2>2, <2>3 DEF Right
<1>5. ASSUME NEW c \in Callbacks, CallSync(c) PROVE ModesGo
  <2>1. OuterIs(calls'[1]) /\ calls'[1].op = "sync" /\ calls'[1].cur = c
    BY <1>5, StartsSync
  <2>2. mode' = (IF reason[c] = "ReadOnlySynch" THEN "ROSYNC" ELSE "RWSYNC")
        /\ reason' = reason
    BY <1>5 DEF CallSync
  <2> QED BY <1>2, <2>1, <2>2 DEF Right
<1>6. CASE CallTask
  <2>1. OuterIs(calls'[1]) /\ calls'[1].op = "task"
    BY <1>6, StartsTask
  <2>2. mode' \in {"CALLTF", "COMPILETF"}
    BY <1>6 DEF CallTask
  <2> QED BY <1>2, <2>1, <2>2 DEF Right
<1>7. CASE PhaseDone \/ SyncReturns \/ TaskReturns
  <2>1. calls' = <<>> /\ Good(calls')
    BY <1>7, ReturnsFromOuter DEF OuterEnds
  <2>2. mode' = "NONE"
    BY <1>7 DEF PhaseDone, SyncReturns, TaskReturns
  <2> QED BY <2>1, <2>2 DEF ModesGo, ModesIn
<1> QED BY <1>3, <1>4, <1>5, <1>6, <1>7

LEMMA ModesOfClient ==
    ASSUME TypeOK, Nested, ModesSaved, Places,
           \/ \E r \in Reasons : Register(r)
           \/ \E c \in Callbacks : RemoveCb(c) \/ SkipSync(c)
    PROVE  ModesGo
<1>1. ModesIn(calls, mode, reason) /\ Good(calls)
  BY ModesAsIn, NestedAsIn DEF Good, TypeOK
<1>2. ASSUME UNCHANGED <<calls, mode>>,
             \A i \in DOMAIN calls : calls[i].op = "sync" =>
                reason'[calls[i].cur] = reason[calls[i].cur]
      PROVE  ModesGo
  <2>1. ModesIn(calls, mode, reason')
    BY <1>1, <1>2, Stack, ModesKept
  <2> QED BY <1>1, <1>2, <2>1 DEF ModesGo, TypeOK
<1>3. ASSUME NEW r \in Reasons, Register(r) PROVE ModesGo
  <2>1. PICK c \in Callbacks : mem[c] = "unused" /\ One(c, "live", r)
    BY <1>3, RegisterHeap
  <2>2. ASSUME NEW i \in DOMAIN calls, calls[i].op = "sync"
        PROVE  calls[i].cur \in Callbacks /\ calls[i].cur # c
    <3>1. calls[i] \in CallStates
      BY Stack
    <3>2. calls[i].cur \in Callbacks
      BY <2>2, <3>1, CallKinds DEF SyncCalls
    <3> QED BY <2>1, <2>2, <3>2 DEF Places, Known
  <2>3. UNCHANGED <<calls, mode>>
    BY <1>3 DEF Register
  <2> QED BY <1>2, <2>1, <2>2, <2>3 DEF One
<1>4. ASSUME NEW c \in Callbacks, RemoveCb(c) PROVE ModesGo
  BY <1>2, <1>4 DEF RemoveCb
<1>5. ASSUME NEW c \in Callbacks, SkipSync(c) PROVE ModesGo
  <2>1. calls = <<>> /\ UNCHANGED <<calls, mode>>
    BY <1>5 DEF SkipSync, Idle
  <2> QED BY <1>2, <2>1
<1> QED BY <1>3, <1>4, <1>5

LEMMA ReturnsHeap ==
    ASSUME TypeOK, Nested, Places, NextReturns
    PROVE  /\ OuterWas /\ calls[1].op = "phase" /\ calls[1].user
           /\ calls[1].cur \in Callbacks
           /\ One(calls[1].cur, "deleted", "ValueChange") /\ HeapOK'
           /\ KeepsList /\ UNCHANGED <<lists, events>>
<1>1. /\ Call = calls[1] /\ Call \in PhaseCalls /\ Call.user /\ OuterWas
      /\ Delete(Call.cur) /\ KeepsList /\ UNCHANGED <<lists, events>>
  BY ReturnsFromNext DEF NextReturns, KeepsList
<1>2. Call.op = "phase" /\ Call.cur \in 0..MaxCallbacks
  BY <1>1 DEF PhaseCalls
<1>3. calls[1].cur # 0
  BY <1>1, <1>2 DEF Places, OuterWas
<1>4. Call.cur \in Callbacks
  BY <1>1, <1>2, <1>3, BoundsAssumption DEF Callbacks
<1> QED BY <1>1, <1>2, <1>4, DeleteHeap

LEMMA SyncReturnsHeap ==
    ASSUME TypeOK, Nested, SyncReturns
    PROVE  /\ OuterEnds /\ calls[1].op = "sync" /\ calls[1].cur \in Callbacks
           /\ One(calls[1].cur, "deleted", "ValueChange") /\ HeapOK'
           /\ KeepsList /\ UNCHANGED <<lists, events>>
<1>1. /\ OuterEnds /\ Call = calls[1]
      /\ calls # <<>> /\ Call.op = "sync"
      /\ Delete(Call.cur) /\ KeepsList /\ UNCHANGED <<lists, events>>
  BY ReturnsFromOuter DEF SyncReturns, KeepsList, InCall
<1>2. Call.cur \in Callbacks
  BY <1>1, Top DEF SyncCalls
<1> QED BY <1>1, <1>2, DeleteHeap

LEMMA SkipHeap ==
    ASSUME TypeOK, NEW c \in Callbacks, SkipSync(c)
    PROVE  /\ One(c, "deleted", "ValueChange") /\ HeapOK' /\ KeepsList
           /\ lists' = lists /\ events' = events \ {c}
<1>1. Delete(c) /\ KeepsList /\ lists' = lists /\ events' = events \ {c}
  BY DEF SkipSync, KeepsList
<1> QED BY <1>1, DeleteHeap

LEMMA SyncHeap ==
    ASSUME TypeOK, NEW c \in Callbacks, CallSync(c)
    PROVE  /\ HeapOK' /\ KeepsList /\ UNCHANGED <<reason, mem, lists>>
           /\ events' = events \ {c}
BY DEF CallSync, HeapOK, KeepsList, TypeOK

LEMMA HeapStep ==
    ASSUME TypeOK, Nested, Places, Next
    PROVE  HeapOK'
<1>1. CASE Quiet
  BY <1>1, QuietHeap DEF KeepsHeap, HeapOK, TypeOK
<1>2. CASE Reap
  BY <1>2, ReapHeap
<1>3. CASE CallNext
  BY <1>3, CallNextHeap
<1>4. CASE NextReturns
  BY <1>4, ReturnsHeap
<1>5. CASE SyncReturns
  BY <1>5, SyncReturnsHeap
<1>6. ASSUME NEW r \in Reasons, Register(r) PROVE HeapOK'
  BY <1>6, RegisterHeap
<1>7. ASSUME NEW c \in Callbacks, RemoveCb(c) PROVE HeapOK'
  BY <1>7, RemoveHeap
<1>8. ASSUME NEW c \in Callbacks, CallSync(c) PROVE HeapOK'
  BY <1>8, SyncHeap
<1>9. ASSUME NEW c \in Callbacks, SkipSync(c) PROVE HeapOK'
  BY <1>9, SkipHeap
<1> QED BY <1>1, <1>2, <1>3, <1>4, <1>5, <1>6, <1>7, <1>8, <1>9, NextKinds

LEMMA ModesStep ==
    ASSUME TypeOK, Nested, ModesSaved, Places, Next
    PROVE  ModesGo
BY ModesOfWalk, ModesOfOuter, ModesOfClient DEF Next

LEMMA StageStep ==
    ASSUME TypeOK, Next
    PROVE  stage' \in {"elaboration", "compiled", "running", "done"} /\ mode' \in Modes
<1>1. stage' \in {"elaboration", "compiled", "running", "done"}
  <2>1. CASE \E p \in Phases : StartPhase(p)
    <3>1. PICK p \in Phases : PhaseAt(p)
      BY <2>1 DEF StartPhase
    <3> QED BY <3>1 DEF PhaseAt, Phases, TypeOK
  <2>2. CASE ~ \E p \in Phases : StartPhase(p)
    BY <2>2 DEF Next, Register, RemoveCb, CallSync, SkipSync, ChangeValue, CallValue,
                CallReturns, NotReady, Reap, WalkDone, CallNext, NextReturns, PhaseDone,
                SyncReturns, CallTask, TaskReturns, TypeOK
  <2> QED BY <2>1, <2>2
<1>2. mode' \in Modes
  <2>1. CASE CallReturns
    BY <2>1, TopWalk DEF CallReturns, InCall
  <2>2. CASE \E p \in Phases : StartPhase(p)
    BY <2>2 DEF StartPhase, PhaseMode, Modes
  <2>3. CASE ~ CallReturns /\ ~ \E p \in Phases : StartPhase(p)
    BY <2>3 DEF Next, Register, RemoveCb, CallSync, SkipSync, ChangeValue, CallValue,
                NotReady, Reap, WalkDone, CallNext, NextReturns, PhaseDone,
                SyncReturns, CallTask, TaskReturns, TypeOK, Modes
  <2> QED BY <2>1, <2>2, <2>3
<1> QED BY <1>1, <1>2

LEMMA TypeStep ==
    ASSUME TypeOK, Nested, ModesSaved, Places, Next
    PROVE  TypeOK' /\ Nested' /\ ModesSaved'
<1>1. HeapOK' /\ ModesGo
  BY HeapStep, ModesStep
<1>2. stage' \in {"elaboration", "compiled", "running", "done"} /\ mode' \in Modes
  BY StageStep
<1>3. TypeOK'
  BY <1>1, <1>2 DEF TypeOK, HeapOK, ModesGo, Good
<1>4. Nested'
  BY <1>1 DEF ModesGo, Good, Nested, NestedIn
<1>5. ASSUME NEW i \in DOMAIN calls', calls'[i].op = "walk" /\ calls'[i].user
      PROVE  Outside(i, calls[i].saved)'
  <2>1. OutOf(calls', i, calls'[i].saved, reason')
    BY <1>1, <1>5 DEF ModesGo, ModesIn
  <2> QED BY <2>1 DEF RightMode, Right, Outside, OutOf
<1>6. ASSUME calls' # <<>>
      PROVE  (IF InCall("walk", FALSE) THEN Outside(1, mode) ELSE RightMode(Call, mode))'
  <2>1. /\ Head(calls') = calls'[1] /\ calls'[1].user \in BOOLEAN
    BY <1>1, <1>6, CallKinds DEF ModesGo, Good
  <2>2. IF calls'[1].op = "walk" /\ ~ calls'[1].user
        THEN OutOf(calls', 1, mode', reason') ELSE Right(calls'[1], mode', reason')
    BY <1>1, <1>6 DEF ModesGo, ModesIn
  <2>3. InCall("walk", FALSE)' <=> calls'[1].op = "walk" /\ ~ calls'[1].user
    BY <1>6, <2>1 DEF InCall, Call
  <2>4. CASE calls'[1].op = "walk" /\ ~ calls'[1].user
    <3>1. Outside(1, mode)'
      BY <2>2, <2>4 DEF RightMode, Right, Outside, OutOf
    <3> QED BY <2>3, <2>4, <3>1
  <2>5. CASE ~ (calls'[1].op = "walk" /\ ~ calls'[1].user)
    <3>1. RightMode(Call, mode)'
      BY <2>1, <2>2, <2>5 DEF RightMode, Right, Call
    <3> QED BY <2>3, <2>5, <3>1
  <2> QED BY <2>4, <2>5
<1>7. ModesSaved'
  BY <1>5, <1>6 DEF ModesSaved
<1> QED BY <1>3, <1>4, <1>7

-----------------------------------------------------------------------------
(* The places of the call-backs, one call-back at a time: the phases whose  *)
(* list it is on, whether it has an event, its reason and its state, and    *)
(* whether it is being executed.                                           *)
Kept(m) == m \in {"live", "removed"}

On(c, l) == {p \in Phases : c \in ToSet(l[p])}

Spot(L, e, r, m, b) ==
    /\ \A p \in L : r = p /\ Kept(m) /\ ~ b /\ (m = "removed" => RemoveSimulator)
    /\ e => r \in Syncs /\ Kept(m) /\ ~ b
    /\ Kept(m) /\ ~ b => (r \in Phases => r \in L) /\ (r \in Syncs => e)

Frame(x, rs, ms) ==
    /\ x.op = "phase" =>
          /\ x.null => RemoveSimulator
          /\ IF x.user THEN x.cur # 0 /\ Kept(ms[x.cur]) /\ rs[x.cur] = x.phase
             ELSE x.cur = 0
    /\ x.op = "sync" => Kept(ms[x.cur]) /\ rs[x.cur] \in Syncs

PlacesIn(l, ev, rs, ms, B) ==
    /\ \A p \in Phases : IsInjective(l[p])
    /\ \A c \in Callbacks : Spot(On(c, l), c \in ev, rs[c], ms[c], c \in B)

FramesIn(s, rs, ms) == \A i \in DOMAIN s : Frame(s[i], rs, ms)

Listing(l, ev) == (\A p \in Phases : ToSet(l[p]) \subseteq Callbacks) /\ ev \subseteq Callbacks

LEMMA ListingOf ==
    /\ TypeOK => Listing(lists, events)
    /\ HeapOK' => Listing(lists', events')
<1>1. ASSUME NEW s \in Seq(Callbacks) PROVE ToSet(s) \subseteq Callbacks
  BY DEF ToSet
<1>2. ASSUME TypeOK PROVE Listing(lists, events)
  BY <1>1, <1>2 DEF TypeOK, Listing
<1>3. ASSUME HeapOK' PROVE Listing(lists', events')
  BY <1>1, <1>3 DEF HeapOK, Listing
<1> QED BY <1>2, <1>3

LEMMA PlacesToIn ==
    ASSUME TypeOK, Places
    PROVE  PlacesIn(lists, events, reason, mem, BusyIn(calls)) /\ FramesIn(calls, reason, mem)
<1>1. Listing(lists, events) /\ Executing = BusyIn(calls)
  BY ListingOf, NestedAsIn
<1>2. FramesIn(calls, reason, mem)
  BY DEF Places, FramesIn, Frame, Known, Kept
<1>3. ASSUME NEW c \in Callbacks
      PROVE  Spot(On(c, lists), c \in events, reason[c], mem[c], c \in BusyIn(calls))
  BY <1>1 DEF Places, Spot, On, Known, Kept, Listing
<1> QED BY <1>2, <1>3 DEF PlacesIn, Places

LEMMA InToPlaces ==
    ASSUME HeapOK', PlacesIn(lists', events', reason', mem', BusyIn(calls')),
           FramesIn(calls', reason', mem')
    PROVE  Places'
<1>1. Listing(lists', events')
  BY ListingOf
<1>2. Executing' = BusyIn(calls')
  BY DEF Executing, BusyIn
<1>3. \A p \in Phases : IsInjective(lists'[p])
  BY DEF PlacesIn
<1>4. ASSUME NEW c \in Callbacks
      PROVE  Spot(On(c, lists'), c \in events', reason'[c], mem'[c], c \in BusyIn(calls'))
  BY DEF PlacesIn
<1>5. ASSUME NEW p \in Phases, NEW c \in ToSet(lists'[p])
      PROVE  /\ reason'[c] = p /\ Known(c)' /\ c \notin Executing'
             /\ mem'[c] = "removed" => RemoveSimulator
  BY <1>1, <1>2, <1>4 DEF Spot, On, Known, Kept, Listing
<1>6. \A c \in events' : reason'[c] \in Syncs /\ Known(c)' /\ c \notin Executing'
  BY <1>1, <1>2, <1>4 DEF Spot, Known, Kept, Listing
<1>7. \A c \in Callbacks : Known(c)' /\ c \notin Executing' =>
        /\ reason'[c] \in Phases => c \in ToSet(lists'[reason'[c]])
        /\ reason'[c] \in Syncs => c \in events'
  BY <1>2, <1>4 DEF Spot, On, Known, Kept
<1>8. \A i \in DOMAIN calls' :
        /\ calls'[i].op = "phase" =>
              /\ calls'[i].null => RemoveSimulator
              /\ IF calls'[i].user
                 THEN /\ calls'[i].cur # 0 /\ mem'[calls'[i].cur] \in {"live", "removed"}
                      /\ reason'[calls'[i].cur] = calls'[i].phase
                 ELSE calls'[i].cur = 0
        /\ calls'[i].op = "sync" =>
              mem'[calls'[i].cur] \in {"live", "removed"} /\ reason'[calls'[i].cur] \in Syncs
  BY DEF FramesIn, Frame, Kept
<1> QED BY <1>3, <1>5, <1>6, <1>7, <1>8 DEF Places, Known

(* Only one call-back changes.                                             *)
Elsewhere(c, l, l2, ev, ev2, rs, rs2, ms, ms2, B, B2) ==
    \A d \in Callbacks \ {c} :
        /\ rs2[d] = rs[d] /\ ms2[d] = ms[d] /\ (d \in ev2 <=> d \in ev)
        /\ (d \in B2 <=> d \in B) /\ On(d, l2) = On(d, l)

Lines(l) == \A p \in Phases : IsInjective(l[p])

LEMMA PlacesChange ==
    ASSUME NEW l, NEW l2, NEW ev, NEW ev2, NEW rs, NEW rs2, NEW ms, NEW ms2, NEW B, NEW B2,
           PlacesIn(l, ev, rs, ms, B), NEW c \in Callbacks,
           Lines(l2), Elsewhere(c, l, l2, ev, ev2, rs, rs2, ms, ms2, B, B2),
           Spot(On(c, l2), c \in ev2, rs2[c], ms2[c], c \in B2)
    PROVE  PlacesIn(l2, ev2, rs2, ms2, B2)
<1> SUFFICES ASSUME NEW d \in Callbacks
             PROVE  Spot(On(d, l2), d \in ev2, rs2[d], ms2[d], d \in B2)
  BY DEF PlacesIn, Lines
<1>1. CASE d = c
  BY <1>1
<1>2. CASE d # c
  <2>1. Spot(On(d, l), d \in ev, rs[d], ms[d], d \in B)
    BY DEF PlacesIn
  <2>2. /\ rs2[d] = rs[d] /\ ms2[d] = ms[d] /\ (d \in ev2 <=> d \in ev)
        /\ (d \in B2 <=> d \in B) /\ On(d, l2) = On(d, l)
    BY <1>2 DEF Elsewhere
  <2> QED BY <2>1, <2>2 DEF Spot
<1> QED BY <1>1, <1>2

(* The frames of calls from outside stay when only a walk changes.          *)
LEMMA WalkFrames ==
    ASSUME NEW rs, NEW ms, FramesIn(calls, rs, ms),
           WalkStarts \/ WalkMoves \/ WalkEnds
    PROVE  FramesIn(calls', rs, ms)
<1> SUFFICES ASSUME NEW i \in DOMAIN calls' PROVE Frame(calls'[i], rs, ms)
  BY DEF FramesIn
<1>1. CASE calls'[i].op = "walk"
  BY <1>1 DEF Frame
<1>2. CASE calls'[i].op # "walk"
  <2>1. \E j \in DOMAIN calls : calls[j] = calls'[i]
    <3>1. CASE WalkStarts
      BY <1>2, <3>1 DEF WalkStarts, Pushed
    <3>2. CASE WalkMoves
      BY <1>2, <3>2 DEF WalkMoves, Exchanged
    <3>3. CASE WalkEnds
      BY <1>2, <3>3 DEF WalkEnds, Popped
    <3> QED BY <3>1, <3>2, <3>3
  <2> QED BY <2>1 DEF FramesIn
<1> QED BY <1>1, <1>2

LEMMA OneFrame ==
    ASSUME NEW x, NEW u, NEW rs, NEW ms, Only(x, u), Frame(x, rs, ms)
    PROVE  FramesIn(u, rs, ms)
BY DEF Only, FramesIn

(* Who is executed, of the call-backs.                                     *)
LEMMA BusyKnown ==
    ASSUME TypeOK, Places, NEW c \in Callbacks, c \in BusyIn(calls)
    PROVE  Kept(mem[c]) /\ reason[c] \in Phases \cup Syncs
<1>1. PICK i \in DOMAIN calls : calls[i].op \in {"phase", "sync"} /\ calls[i].cur = c
  BY DEF BusyIn
<1>2. c # 0
  BY BoundsAssumption DEF Callbacks
<1>3. CASE calls[i].op = "phase"
  <2>1. calls[i].user
    BY <1>1, <1>2, <1>3 DEF Places
  <2>2. calls[i] \in PhaseCalls
    BY <1>3, Stack, CallKinds
  <2> QED BY <1>1, <1>3, <2>1, <2>2 DEF Places, Known, Kept, PhaseCalls
<1>4. CASE calls[i].op = "sync"
  BY <1>1, <1>4 DEF Places, Known, Kept
<1> QED BY <1>1, <1>3, <1>4

(* What has no place.                                                      *)
LEMMA NoPlace ==
    ASSUME TypeOK, Places, NEW c \in Callbacks,
           mem[c] \notin {"live", "removed"} \/ reason[c] = "ValueChange"
    PROVE  On(c, lists) = {} /\ c \notin events /\ c \notin BusyIn(calls)
<1>1. reason[c] = "ValueChange" => reason[c] \notin Phases \cup Syncs
  BY DEF Phases, Syncs
<1>2. Spot(On(c, lists), c \in events, reason[c], mem[c], c \in BusyIn(calls))
  BY PlacesToIn DEF PlacesIn
<1>3. c \notin BusyIn(calls)
  BY <1>1, BusyKnown DEF Kept
<1> QED BY <1>1, <1>2, <1>3 DEF Spot, Kept, On

LEMMA PlacesOfQuiet ==
    ASSUME TypeOK, Nested, Places, Quiet
    PROVE  PlacesIn(lists', events', reason', mem', BusyIn(calls')) /\ FramesIn(calls', reason', mem')
<1>1. /\ reason' = reason /\ mem' = mem /\ lists' = lists /\ events' = events
  BY QuietHeap DEF KeepsHeap
<1>2. PlacesIn(lists, events, reason, mem, BusyIn(calls)) /\ FramesIn(calls, reason, mem)
  BY PlacesToIn
<1>3. ASSUME \A c \in Callbacks : c \in BusyIn(calls') <=> c \in BusyIn(calls)
      PROVE  PlacesIn(lists, events, reason, mem, BusyIn(calls'))
  BY <1>2, <1>3 DEF PlacesIn, Spot
<1>4. 0 \notin Callbacks
  BY BoundsAssumption DEF Callbacks
<1>5. CASE ChangeValue \/ CallValue \/ CallReturns \/ NotReady \/ WalkDone
  <2>1. WalkStarts \/ WalkMoves \/ WalkEnds
    BY <1>5, StartsWalk, CallsValue, ReturnsFromValue, PassesNotReady, EndsWalk
  <2>2. BusyIn(calls') = BusyIn(calls)
    BY <2>1 DEF WalkStarts, WalkMoves, WalkEnds
  <2>3. FramesIn(calls', reason, mem)
    BY <1>2, <2>1, WalkFrames
  <2> QED BY <1>1, <1>3, <2>2, <2>3
<1>6. ASSUME NEW p \in Phases, StartPhase(p)
      PROVE  PlacesIn(lists, events, reason, mem, BusyIn(calls')) /\ FramesIn(calls', reason, mem)
  <2>1. /\ calls = <<>> /\ Only(calls'[1], calls') /\ calls'[1].op = "phase"
        /\ ~ calls'[1].user /\ calls'[1].cur = 0 /\ calls'[1].null = FALSE
    BY <1>6, StartsPhase DEF OuterIs, PhaseIs
  <2>2. BusyIn(calls) = {} /\ BusyIn(calls') = {0}
    BY <2>1 DEF Only, BusyIn
  <2>3. Frame(calls'[1], reason, mem)
    BY <2>1 DEF Frame
  <2>4. FramesIn(calls', reason, mem)
    BY <2>1, <2>3, OneFrame
  <2> QED BY <1>3, <1>4, <2>2, <2>4
<1>7. CASE CallTask
  <2>1. calls = <<>> /\ Only(calls'[1], calls') /\ calls'[1].op = "task"
    BY <1>7, StartsTask DEF OuterIs
  <2>2. BusyIn(calls) = {} /\ BusyIn(calls') = {}
    BY <2>1 DEF Only, BusyIn
  <2>3. Frame(calls'[1], reason, mem)
    BY <2>1 DEF Frame
  <2>4. FramesIn(calls', reason, mem)
    BY <2>1, <2>3, OneFrame
  <2> QED BY <1>1, <1>3, <2>2, <2>4
<1>8. CASE PhaseDone \/ TaskReturns
  <2>1. OuterEnds /\ Call = calls[1]
    BY <1>8, ReturnsFromOuter
  <2>2. calls[1].op = "task" \/ (calls[1].op = "phase" /\ ~ calls[1].user)
    BY <1>8, <2>1 DEF PhaseDone, TaskReturns, InCall
  <2>3. 1 \in DOMAIN calls /\ (calls[1].op = "phase" => calls[1].cur = 0)
    BY <2>1, <2>2 DEF OuterEnds, OuterWas, Places
  <2>4. BusyIn(calls) \subseteq {0} /\ BusyIn(calls') = {} /\ calls' = <<>>
    BY <2>1, <2>2, <2>3 DEF OuterEnds, OuterWas
  <2>5. FramesIn(calls', reason, mem)
    BY <2>4 DEF FramesIn
  <2> QED BY <1>1, <1>3, <1>4, <2>4, <2>5
<1> QED BY <1>1, <1>5, <1>6, <1>7, <1>8 DEF Quiet

LEMMA PlacesOfRegister ==
    ASSUME TypeOK, Nested, Places, NEW r \in Reasons, Register(r)
    PROVE  PlacesIn(lists', events', reason', mem', BusyIn(calls')) /\ FramesIn(calls', reason', mem')
<1>1. PICK c \in Callbacks :
            /\ mem[c] = "unused" /\ One(c, "live", r)
            /\ lists' = IF r \in Phases THEN [lists EXCEPT ![r] = <<c>> \o @] ELSE lists
            /\ events' = IF r \in Syncs THEN events \cup {c} ELSE events
  BY RegisterHeap
<1>2. calls' = calls
  BY DEF Register
<1>3. PlacesIn(lists, events, reason, mem, BusyIn(calls)) /\ FramesIn(calls, reason, mem)
  BY PlacesToIn
<1>4. On(c, lists) = {} /\ c \notin events /\ c \notin BusyIn(calls)
  BY <1>1, NoPlace
<1>5. /\ \A p \in Phases : IsInjective(lists'[p])
      /\ \A d \in Callbacks \ {c} : On(d, lists') = On(d, lists)
      /\ On(c, lists') = IF r \in Phases THEN {r} ELSE {}
  <2>1. CASE r \in Phases
    <3>1. lists[r] \in Seq(Callbacks) /\ c \notin ToSet(lists[r]) /\ IsInjective(lists[r])
      BY <1>3, <1>4, <2>1, PhaseLists DEF On, PlacesIn
    <3>2. IsInjective(<<c>> \o lists[r]) /\ ToSet(<<c>> \o lists[r]) = ToSet(lists[r]) \cup {c}
      BY <3>1, ConsInjective
    <3> DEFINE v == <<c>> \o lists[r]
    <3>3. \A p \in Phases : lists'[p] = IF p = r THEN v ELSE lists[p]
      BY <1>1, <2>1 DEF TypeOK
    <3>4. IsInjective(v) /\ ToSet(v) = ToSet(lists[r]) \cup {c}
      BY <3>2
    <3> HIDE DEF v
    <3> QED BY <1>3, <1>4, <2>1, <3>3, <3>4 DEF PlacesIn, On
  <2>2. CASE r \notin Phases
    BY <1>1, <1>3, <1>4, <2>2 DEF PlacesIn
  <2> QED BY <2>1, <2>2
<1>6. Spot(On(c, lists'), c \in events', reason'[c], mem'[c], c \in BusyIn(calls'))
  <2>1. reason'[c] = r /\ mem'[c] = "live" /\ c \notin BusyIn(calls') /\ (r \in Syncs <=> c \in events')
    BY <1>1, <1>2, <1>4 DEF One
  <2>2. r \in Syncs => r \notin Phases
    BY DEF Syncs, Phases
  <2> QED BY <1>5, <2>1, <2>2 DEF Spot, Kept
<1>7. Elsewhere(c, lists, lists', events, events', reason, reason', mem, mem',
                BusyIn(calls), BusyIn(calls'))
  BY <1>1, <1>2, <1>5 DEF One, Elsewhere
<1>8. PlacesIn(lists', events', reason', mem', BusyIn(calls'))
  <2>1. Lines(lists')
    BY <1>5 DEF Lines
  <2> QED BY <1>3, <1>6, <1>7, <2>1, PlacesChange
<1>9. FramesIn(calls, reason', mem')
  <2> SUFFICES ASSUME NEW i \in DOMAIN calls PROVE Frame(calls[i], reason', mem')
    BY DEF FramesIn
  <2>1. Frame(calls[i], reason, mem) /\ calls[i] \in CallStates
    BY <1>3, Stack DEF FramesIn
  <2>2. CASE calls[i].op = "phase" /\ calls[i].user
    <3>1. calls[i].cur \in Callbacks
      BY <2>1, <2>2, CallKinds, BoundsAssumption DEF PhaseCalls, Frame, Callbacks
    <3>2. calls[i].cur # c
      BY <1>1, <2>1, <2>2 DEF Frame, Kept
    <3> QED BY <1>1, <2>1, <2>2, <3>1, <3>2 DEF Frame, One
  <2>3. CASE calls[i].op = "sync"
    <3>1. calls[i].cur \in Callbacks
      BY <2>1, <2>3, CallKinds DEF SyncCalls
    <3>2. calls[i].cur # c
      BY <1>1, <2>1, <2>3 DEF Frame, Kept
    <3> QED BY <1>1, <2>1, <2>3, <3>1, <3>2 DEF Frame, One
  <2>4. CASE ~ (calls[i].op = "phase" /\ calls[i].user) /\ calls[i].op # "sync"
    BY <2>1, <2>4 DEF Frame
  <2> QED BY <2>2, <2>3, <2>4
<1> QED BY <1>2, <1>8, <1>9

PlacesGo == PlacesIn(lists', events', reason', mem', BusyIn(calls')) /\ FramesIn(calls', reason', mem')

(* The lists stay; one call-back may change its state, its reason, its event *)
(* or be executed from now on or no longer.                                *)
LEMMA PlacesOfOne ==
    ASSUME TypeOK, Places, NEW c \in Callbacks, lists' = lists,
           \A d \in Callbacks \ {c} :
              /\ reason'[d] = reason[d] /\ mem'[d] = mem[d]
              /\ (d \in events' <=> d \in events)
              /\ (d \in BusyIn(calls') <=> d \in BusyIn(calls)),
           Spot(On(c, lists), c \in events', reason'[c], mem'[c], c \in BusyIn(calls'))
    PROVE  PlacesIn(lists', events', reason', mem', BusyIn(calls'))
<1>1. PlacesIn(lists, events, reason, mem, BusyIn(calls))
  BY PlacesToIn
<1>2. Lines(lists')
  BY <1>1 DEF PlacesIn, Lines
<1>3. Elsewhere(c, lists, lists', events, events', reason, reason', mem, mem',
                BusyIn(calls), BusyIn(calls'))
  BY DEF Elsewhere
<1> QED BY <1>1, <1>2, <1>3, PlacesChange

LEMMA PlacesOfRemove ==
    ASSUME TypeOK, Nested, Places, NEW c \in Callbacks, RemoveCb(c)
    PROVE  PlacesGo
<1>1. One(c, "removed", reason[c]) /\ UNCHANGED <<lists, events, calls>> /\ mem[c] = "live"
      /\ (reason[c] \in Phases => RemoveSimulator \/ c \in BusyIn(calls))
  BY RemoveHeap, NestedAsIn DEF RemoveCb
<1>2. PlacesIn(lists, events, reason, mem, BusyIn(calls)) /\ FramesIn(calls, reason, mem)
  BY PlacesToIn
<1>3. Spot(On(c, lists), c \in events, reason[c], mem[c], c \in BusyIn(calls))
  BY <1>2 DEF PlacesIn
<1>4. Spot(On(c, lists), c \in events, reason[c], "removed", c \in BusyIn(calls))
  BY <1>1, <1>3 DEF Spot, Kept, On
<1>5. PlacesIn(lists', events', reason', mem', BusyIn(calls'))
  BY <1>1, <1>4, PlacesOfOne DEF One
<1>6. \A d : Kept(mem[d]) /\ d \in Callbacks => Kept(mem'[d]) /\ reason'[d] = reason[d]
  BY <1>1 DEF One, Kept
<1>7. ASSUME NEW i \in DOMAIN calls PROVE Frame(calls[i], reason', mem')
  <2>1. Frame(calls[i], reason, mem) /\ calls[i] \in CallStates
    BY <1>2, Stack DEF FramesIn
  <2>2. CASE calls[i].op = "phase" /\ calls[i].user
    <3>1. calls[i].cur \in Callbacks
      BY <2>1, <2>2, CallKinds, BoundsAssumption DEF PhaseCalls, Frame, Callbacks
    <3> QED BY <1>6, <2>1, <2>2, <3>1 DEF Frame
  <2>3. CASE calls[i].op = "sync"
    <3>1. calls[i].cur \in Callbacks
      BY <2>1, <2>3, CallKinds DEF SyncCalls
    <3> QED BY <1>6, <2>1, <2>3, <3>1 DEF Frame
  <2>4. CASE ~ (calls[i].op = "phase" /\ calls[i].user) /\ calls[i].op # "sync"
    BY <2>1, <2>4 DEF Frame
  <2> QED BY <2>2, <2>3, <2>4
<1> QED BY <1>1, <1>5, <1>7 DEF PlacesGo, FramesIn

LEMMA PlacesOfSync ==
    ASSUME TypeOK, Nested, Places, NEW c \in Callbacks, CallSync(c)
    PROVE  PlacesGo
<1>1. /\ events' = events \ {c} /\ UNCHANGED <<reason, mem, lists>>
      /\ c \in events
  BY SyncHeap DEF CallSync
<1>2. /\ calls = <<>> /\ Only(calls'[1], calls') /\ calls'[1].op = "sync" /\ calls'[1].cur = c
  BY StartsSync DEF OuterIs
<1>3. BusyIn(calls) = {} /\ BusyIn(calls') = {c}
  BY <1>2 DEF Only, BusyIn
<1>4. Spot(On(c, lists), TRUE, reason[c], mem[c], FALSE)
  BY <1>1, <1>3, PlacesToIn DEF PlacesIn, Spot
<1>5. reason[c] \in Syncs /\ reason[c] \notin Phases /\ Kept(mem[c])
  BY <1>4 DEF Spot, Phases, Syncs
<1>6. Spot(On(c, lists), c \in events', reason'[c], mem'[c], c \in BusyIn(calls'))
  BY <1>1, <1>3, <1>4, <1>5 DEF Spot, On
<1>7. PlacesIn(lists', events', reason', mem', BusyIn(calls'))
  BY <1>1, <1>3, <1>6, PlacesOfOne
<1>8. Frame(calls'[1], reason', mem')
  BY <1>1, <1>2, <1>5 DEF Frame
<1> QED BY <1>2, <1>7, <1>8, OneFrame DEF PlacesGo

(* What is deleted must have no place.                                     *)
LEMMA PlacesOfDeleted ==
    ASSUME TypeOK, Nested, Places, NEW c \in Callbacks, NEW r, One(c, "deleted", r),
           lists' = lists, events' = events \/ events' = events \ {c}, c \notin events',
           On(c, lists) = {},
           \A d \in Callbacks \ {c} : d \in BusyIn(calls') <=> d \in BusyIn(calls)
    PROVE  PlacesIn(lists', events', reason', mem', BusyIn(calls'))
<1>1. Spot(On(c, lists), c \in events', reason'[c], mem'[c], c \in BusyIn(calls'))
  BY DEF One, Spot, Kept
<1> QED BY <1>1, PlacesOfOne DEF One

LEMMA PlacesOfSkip ==
    ASSUME TypeOK, Nested, Places, NEW c \in Callbacks, SkipSync(c)
    PROVE  PlacesGo
<1>1. /\ One(c, "deleted", "ValueChange") /\ lists' = lists /\ events' = events \ {c}
      /\ calls = <<>> /\ calls' = calls /\ c \in events
  BY SkipHeap DEF SkipSync, Idle
<1>2. Spot(On(c, lists), TRUE, reason[c], mem[c], c \in BusyIn(calls))
  BY <1>1, PlacesToIn DEF PlacesIn, Spot
<1>3. On(c, lists) = {}
  BY <1>2 DEF Spot, On, Phases, Syncs
<1>4. PlacesIn(lists', events', reason', mem', BusyIn(calls'))
  BY <1>1, <1>3, PlacesOfDeleted
<1> QED BY <1>1, <1>4 DEF PlacesGo, FramesIn

LEMMA PlacesOfSyncReturns ==
    ASSUME TypeOK, Nested, Places, SyncReturns
    PROVE  PlacesGo
<1>1. /\ OuterEnds /\ calls[1].op = "sync" /\ calls[1].cur \in Callbacks
      /\ One(calls[1].cur, "deleted", "ValueChange") /\ UNCHANGED <<lists, events>>
  BY SyncReturnsHeap
<1> DEFINE c == calls[1].cur
<1>2. BusyIn(calls) = {c} /\ BusyIn(calls') = {} /\ calls' = <<>>
  BY <1>1 DEF OuterEnds, OuterWas
<1>3. Spot(On(c, lists), c \in events, reason[c], mem[c], TRUE)
  BY <1>1, <1>2, PlacesToIn DEF PlacesIn, Spot
<1>4. On(c, lists) = {} /\ c \notin events
  BY <1>3 DEF Spot, On
<1>5. PlacesIn(lists', events', reason', mem', BusyIn(calls'))
  BY <1>1, <1>2, <1>4, PlacesOfDeleted
<1> QED BY <1>2, <1>5 DEF PlacesGo, FramesIn

LEMMA PlacesOfNextReturns ==
    ASSUME TypeOK, Nested, Places, NextReturns
    PROVE  PlacesGo
<1>1. /\ OuterWas /\ calls[1].op = "phase" /\ calls[1].cur \in Callbacks
      /\ One(calls[1].cur, "deleted", "ValueChange") /\ UNCHANGED <<lists, events>>
  BY ReturnsHeap
<1>2. /\ Only(calls'[1], calls') /\ calls'[1].op = "phase" /\ ~ calls'[1].user
      /\ calls'[1].cur = 0
  BY ReturnsFromNext DEF OuterIs, PhaseIs
<1> DEFINE c == calls[1].cur
<1>3. BusyIn(calls) = {c} /\ BusyIn(calls') = {0} /\ 0 \notin Callbacks
  BY <1>1, <1>2, BoundsAssumption DEF OuterWas, Only, Callbacks
<1>4. Spot(On(c, lists), c \in events, reason[c], mem[c], TRUE)
  BY <1>1, <1>3, PlacesToIn DEF PlacesIn, Spot
<1>5. On(c, lists) = {} /\ c \notin events
  BY <1>4 DEF Spot, On
<1>6. PlacesIn(lists', events', reason', mem', BusyIn(calls'))
  BY <1>1, <1>3, <1>5, PlacesOfDeleted
<1>7. calls'[1].null => RemoveSimulator
  <2>1. calls'[1].null = calls[1].null
    BY ReturnsFromNext DEF PhaseIs
  <2>2. 1 \in DOMAIN calls
    BY <1>1 DEF OuterWas
  <2> QED BY <1>1, <2>1, <2>2 DEF Places
<1>8. Frame(calls'[1], reason', mem')
  BY <1>2, <1>7 DEF Frame
<1> QED BY <1>2, <1>6, <1>8, OneFrame DEF PlacesGo

LEMMA CurOf ==
    ASSUME NEW x \in CallStates
    PROVE  /\ x.op = "sync" => x.cur \in Callbacks /\ x.cur # 0
           /\ x.op = "phase" /\ x.cur # 0 => x.cur \in Callbacks
<1>1. CASE x.op = "sync"
  <2>1. x.cur \in Callbacks
    BY <1>1, CallKinds DEF SyncCalls
  <2> QED BY <1>1, <2>1, BoundsAssumption DEF Callbacks
<1>2. CASE x.op = "phase"
  <2>1. x.cur \in 0..MaxCallbacks
    BY <1>2, CallKinds DEF PhaseCalls
  <2> QED BY <1>2, <2>1, BoundsAssumption DEF Callbacks
<1> QED BY <1>1, <1>2

LEMMA PlacesOfReap ==
    ASSUME TypeOK, Nested, Places, Pointers, Reap
    PROVE  PlacesGo
<1>1. /\ WalkMoves /\ Cur \in Callbacks /\ Call = calls[1] /\ Call.next # 0
  BY Reaps DEF Reap, AtCallback
<1>2. One(Cur, "deleted", reason[Cur]) /\ UNCHANGED <<lists, events>>
  BY ReapHeap
<1>3. reason[Cur] = "ValueChange"
  BY <1>1, BoundsAssumption DEF Pointers, ValueChanges, Cur, WalkMoves, Exchanged, Callbacks
<1>4. On(Cur, lists) = {} /\ Cur \notin events /\ Cur \notin BusyIn(calls)
  BY <1>1, <1>3, NoPlace
<1>5. BusyIn(calls') = BusyIn(calls)
  BY <1>1 DEF WalkMoves
<1>6. PlacesIn(lists', events', reason', mem', BusyIn(calls'))
  BY <1>1, <1>2, <1>4, <1>5, PlacesOfDeleted
<1>7. FramesIn(calls, reason, mem)
  BY PlacesToIn
<1>8. ASSUME NEW i \in DOMAIN calls PROVE Frame(calls[i], reason', mem')
  <2>1. Frame(calls[i], reason, mem) /\ calls[i] \in CallStates
    BY <1>7, Stack DEF FramesIn
  <2>2. CASE calls[i].op \in {"phase", "sync"} /\ calls[i].cur # 0
    <3>1. calls[i].cur \in BusyIn(calls)
      BY <2>2 DEF BusyIn
    <3>2. calls[i].cur \in Callbacks
      BY <2>1, <2>2, CurOf
    <3>3. calls[i].cur # Cur
      BY <1>4, <3>1
    <3> QED BY <1>2, <2>1, <3>2, <3>3 DEF Frame, One
  <2>3. CASE ~ (calls[i].op \in {"phase", "sync"} /\ calls[i].cur # 0)
    <3>1. calls[i].op # "sync"
      BY <2>1, <2>3, CurOf
    <3> QED BY <2>1, <2>3, <3>1 DEF Frame
  <2> QED BY <2>2, <2>3
<1>9. FramesIn(calls, reason', mem')
  BY <1>8 DEF FramesIn
<1>10. FramesIn(calls', reason', mem')
  BY <1>1, <1>9, WalkFrames
<1> QED BY <1>6, <1>10 DEF PlacesGo

LEMMA PlacesOfCallNext ==
    ASSUME TypeOK, Nested, Places, CallNext
    PROVE  PlacesGo
<1> DEFINE p == Call.phase
           c == Head(lists[p])
<1>1. /\ Call = calls[1] /\ Call \in PhaseCalls /\ Call.user = FALSE /\ p \in Phases
      /\ OuterWas /\ lists[p] # <<>> /\ Only(calls'[1], calls') /\ c \in Callbacks
      /\ PhaseIs(calls'[1], TRUE, p, c, mem[c] = "removed")
  BY CallsNext DEF OuterIs
<1>2. lists' = [lists EXCEPT ![p] = Tail(@)] /\ UNCHANGED <<reason, mem, events>>
  BY CallNextHeap DEF CallNext
<1>3. PlacesIn(lists, events, reason, mem, BusyIn(calls))
  BY PlacesToIn
<1>4. Call.op = "phase" /\ calls[1].cur = 0
  BY <1>1 DEF PhaseCalls, Places, OuterWas
<1> HIDE DEF p, c
<1>5. BusyIn(calls) = {0} /\ BusyIn(calls') = {c} /\ 0 \notin Callbacks
  BY <1>1, <1>4, BoundsAssumption DEF OuterWas, Only, Callbacks, PhaseIs
<1>6. lists[p] \in Seq(Callbacks) /\ IsInjective(lists[p])
  BY <1>1, <1>3, PhaseLists DEF PlacesIn
<1>7. /\ IsInjective(Tail(lists[p])) /\ ToSet(Tail(lists[p])) = ToSet(lists[p]) \ {c}
      /\ c \in ToSet(lists[p])
  BY <1>1, <1>6, TailInjective DEF c
<1>8. Spot(On(c, lists), c \in events, reason[c], mem[c], FALSE) /\ p \in On(c, lists)
  BY <1>1, <1>3, <1>5, <1>7 DEF PlacesIn, Spot, On
<1>9. /\ reason[c] = p /\ Kept(mem[c]) /\ (mem[c] = "removed" => RemoveSimulator)
      /\ c \notin events /\ On(c, lists) = {p}
  BY <1>1, <1>8 DEF Spot, On, Phases, Syncs
<1> DEFINE v == Tail(lists[p])
<1>10. \A q \in Phases : lists'[q] = IF q = p THEN v ELSE lists[q]
  BY <1>1, <1>2 DEF TypeOK
<1>11. IsInjective(v) /\ ToSet(v) = ToSet(lists[p]) \ {c}
  BY <1>7
<1> HIDE DEF v
<1>12. Lines(lists')
  BY <1>3, <1>10, <1>11 DEF Lines, PlacesIn
<1>13. On(c, lists') = {}
  BY <1>9, <1>10, <1>11 DEF On
<1>14. \A d \in Callbacks \ {c} : On(d, lists') = On(d, lists)
  BY <1>10, <1>11 DEF On
<1>15. Elsewhere(c, lists, lists', events, events', reason, reason', mem, mem',
                BusyIn(calls), BusyIn(calls'))
  BY <1>2, <1>5, <1>14 DEF Elsewhere
<1>16. Spot(On(c, lists'), c \in events', reason'[c], mem'[c], c \in BusyIn(calls'))
  BY <1>2, <1>5, <1>9, <1>13 DEF Spot
<1>17. PlacesIn(lists', events', reason', mem', BusyIn(calls'))
  BY <1>1, <1>3, <1>12, <1>15, <1>16, PlacesChange
<1>18. Frame(calls'[1], reason', mem')
  BY <1>1, <1>2, <1>5, <1>9 DEF Frame, PhaseIs
<1> QED BY <1>1, <1>17, <1>18, OneFrame DEF PlacesGo

LEMMA PlacesStep ==
    ASSUME TypeOK, Nested, Places, Pointers, Next
    PROVE  Places'
<1>1. HeapOK'
  BY HeapStep
<1>2. PlacesGo
  <2>1. ASSUME NEW r \in Reasons, Register(r) PROVE PlacesGo
    BY <2>1, PlacesOfRegister DEF PlacesGo
  <2>2. ASSUME NEW c \in Callbacks, RemoveCb(c) \/ CallSync(c) \/ SkipSync(c) PROVE PlacesGo
    BY <2>2, PlacesOfRemove, PlacesOfSync, PlacesOfSkip
  <2>3. CASE Quiet
    BY <2>3, PlacesOfQuiet DEF PlacesGo
  <2> QED BY <2>1, <2>2, <2>3, NextKinds, PlacesOfReap, PlacesOfCallNext,
             PlacesOfNextReturns, PlacesOfSyncReturns
<1> QED BY <1>1, <1>2, InToPlaces DEF PlacesGo

-----------------------------------------------------------------------------
(* What a step does to the call-backs and the list of the signal.           *)
Same == UNCHANGED <<reason, mem>> /\ KeepsList

Registered(c, r) ==
    /\ mem[c] = "unused" /\ (\A d \in 1..(c - 1) : mem[d] # "unused")
    /\ One(c, "live", r)
    /\ \A d \in Callbacks \ {c} : next'[d] = next[d]
    /\ IF r = "ValueChange" THEN head' = c /\ next'[c] = head ELSE KeepsList

Removed(c) == mem[c] = "live" /\ One(c, "removed", reason[c]) /\ KeepsList

Served(c) ==
    /\ Kept(mem[c]) /\ reason[c] \in Phases \cup Syncs
    /\ One(c, "deleted", "ValueChange") /\ KeepsList

LEMMA MemKinds ==
    ASSUME TypeOK, Nested, Places, Next
    PROVE  \/ Same
           \/ \E c \in Callbacks, r \in Reasons : Register(r) /\ Registered(c, r)
           \/ \E c \in Callbacks : RemoveCb(c) /\ Removed(c)
           \/ \E c \in Callbacks : (NextReturns \/ SyncReturns \/ SkipSync(c)) /\ Served(c)
           \/ Reap
<1>1. CASE Quiet
  BY <1>1, QuietHeap DEF KeepsHeap, Same, KeepsList
<1>2. CASE CallNext
  BY <1>2, CallNextHeap DEF Same, KeepsList
<1>3. CASE NextReturns
  <2>1. /\ OuterWas /\ calls[1].op = "phase" /\ calls[1].user
        /\ calls[1].cur \in Callbacks
        /\ One(calls[1].cur, "deleted", "ValueChange") /\ KeepsList
    BY <1>3, ReturnsHeap
  <2>2. Kept(mem[calls[1].cur]) /\ reason[calls[1].cur] \in Phases \cup Syncs
    BY <2>1, BusyKnown DEF OuterWas
  <2>3. Served(calls[1].cur)
    BY <2>1, <2>2 DEF Served
  <2> QED BY <1>3, <2>1, <2>3
<1>4. CASE SyncReturns
  <2>1. /\ OuterEnds /\ calls[1].op = "sync" /\ calls[1].cur \in Callbacks
        /\ One(calls[1].cur, "deleted", "ValueChange") /\ KeepsList
    BY <1>4, SyncReturnsHeap
  <2>2. Kept(mem[calls[1].cur]) /\ reason[calls[1].cur] \in Phases \cup Syncs
    BY <2>1, BusyKnown DEF OuterWas, OuterEnds
  <2>3. Served(calls[1].cur)
    BY <2>1, <2>2 DEF Served
  <2> QED BY <1>4, <2>1, <2>3
<1>5. ASSUME NEW r \in Reasons, Register(r)
      PROVE  \E c \in Callbacks : Registered(c, r)
  BY <1>5, RegisterHeap DEF Registered
<1>6. ASSUME NEW c \in Callbacks, RemoveCb(c) PROVE Removed(c)
  BY <1>6, RemoveHeap DEF Removed, RemoveCb
<1>7. ASSUME NEW c \in Callbacks, SkipSync(c) PROVE Served(c)
  <2>1. One(c, "deleted", "ValueChange") /\ KeepsList /\ c \in events
    BY <1>7, SkipHeap DEF SkipSync
  <2> QED BY <2>1 DEF Served, Places, Known, Kept
<1>8. ASSUME NEW c \in Callbacks, CallSync(c) PROVE Same
  BY <1>8, SyncHeap DEF Same, KeepsList
<1> QED BY <1>1, <1>2, <1>3, <1>4, <1>5, <1>6, <1>7, <1>8, NextKinds

LEMMA AgeStep ==
    ASSUME TypeOK, Nested, Places, InOrderOfAge, Pointers, Next
    PROVE  InOrderOfAge'
<1>1. ASSUME NEW c \in Callbacks, NEW m, NEW r, One(c, m, r), m # "unused", mem[c] # "unused"
      PROVE  InOrderOfAge'
  BY <1>1 DEF One, InOrderOfAge
<1>2. ASSUME NEW c \in Callbacks, NEW r, Registered(c, r) PROVE InOrderOfAge'
  <2>1. SUFFICES ASSUME NEW a \in Callbacks, NEW b \in Callbacks, a < b, mem'[a] = "unused"
                 PROVE  mem'[b] = "unused"
    BY DEF InOrderOfAge
  <2>2. a # c /\ mem[a] = "unused"
    BY <1>2, <2>1 DEF Registered, One
  <2>3. a \notin 1..(c - 1) /\ a \in Nat /\ c \in Nat /\ a >= 1 /\ b \in Nat
    BY <1>2, <2>2, BoundsAssumption DEF Registered, Callbacks
  <2>4. b # c
    BY <2>1, <2>2, <2>3
  <2>5. mem[b] = "unused"
    BY <2>1, <2>2 DEF InOrderOfAge
  <2> QED BY <1>2, <2>4, <2>5 DEF Registered, One
<1>3. CASE Same
  BY <1>3 DEF Same, InOrderOfAge
<1>4. CASE Reap
  <2>1. One(Cur, "deleted", reason[Cur]) /\ Cur \in Callbacks /\ mem[Cur] = "removed"
    BY <1>4, ReapHeap, Reaps DEF Reap
  <2> QED BY <1>1, <2>1
<1>5. ASSUME NEW c \in Callbacks, Removed(c) \/ Served(c) PROVE InOrderOfAge'
  BY <1>1, <1>5 DEF Removed, Served, Kept
<1> QED BY <1>2, <1>3, <1>4, <1>5, MemKinds

LEMMA ValueChangesGrow ==
    ASSUME TypeOK, NEW c \in Callbacks, NEW m, NEW r, One(c, m, r), m # "unused",
           mem[c] = "unused" \/ r = "ValueChange" \/ r = reason[c]
    PROVE  ValueChanges \subseteq ValueChanges'
BY DEF One, ValueChanges

LEMMA ValueChangesStep ==
    ASSUME TypeOK, Nested, Places, Next
    PROVE  ValueChanges \subseteq ValueChanges'
<1>1. ASSUME NEW c \in Callbacks, NEW r, Registered(c, r) PROVE ValueChanges \subseteq ValueChanges'
  BY <1>1, ValueChangesGrow DEF Registered
<1>2. CASE Same
  BY <1>2 DEF Same, ValueChanges
<1>3. CASE Reap
  BY <1>3, ReapHeap, Reaps, ValueChangesGrow
<1>4. ASSUME NEW c \in Callbacks, Removed(c) \/ Served(c) PROVE ValueChanges \subseteq ValueChanges'
  BY <1>4, ValueChangesGrow DEF Removed, Served
<1> QED BY <1>1, <1>2, <1>3, <1>4, MemKinds

LEMMA ListPointers ==
    ASSUME TypeOK, Nested, Places, Pointers, Next
    PROVE  head' \in ValueChanges' /\ \A c \in Callbacks : next'[c] \in ValueChanges'
<1>1. ValueChanges \subseteq ValueChanges' /\ 0 \in ValueChanges
  BY ValueChangesStep DEF ValueChanges
<1>2. head \in ValueChanges /\ \A c \in Callbacks : next[c] \in ValueChanges
  BY DEF Pointers
<1>3. ASSUME KeepsList
      PROVE  head' \in ValueChanges' /\ \A c \in Callbacks : next'[c] \in ValueChanges'
  BY <1>1, <1>2, <1>3 DEF KeepsList
<1>4. ASSUME NEW c \in Callbacks, NEW r, Registered(c, r), r = "ValueChange"
      PROVE  head' \in ValueChanges' /\ \A d \in Callbacks : next'[d] \in ValueChanges'
  <2>1. c \in ValueChanges'
    BY <1>4 DEF Registered, One, ValueChanges
  <2> QED BY <1>1, <1>2, <1>4, <2>1 DEF Registered
<1>5. CASE Reap
  <2>1. /\ Cur \in Callbacks /\ next'[Cur] = 0
        /\ IF Call.prev = 0
           THEN head' = next[Cur] /\ \A d \in Callbacks \ {Cur} : next'[d] = next[d]
           ELSE /\ head' = head /\ Call.prev \in Callbacks
                /\ Call.prev # Cur => next'[Call.prev] = next[Cur]
                /\ \A d \in Callbacks \ {Cur, Call.prev} : next'[d] = next[d]
    BY <1>5, ReapHeap, Reaps
  <2>2. next[Cur] \in ValueChanges
    BY <1>2, <2>1
  <2> QED BY <1>1, <1>2, <2>1, <2>2
<1>6. ASSUME NEW c \in Callbacks, NEW r, Registered(c, r), r # "ValueChange" PROVE KeepsList
  BY <1>6 DEF Registered
<1> QED BY <1>3, <1>4, <1>5, <1>6, MemKinds DEF Same, Removed, Served

(* The records of the walks after a step: the same as before, or the top.   *)
WalkPointers(x, V) == {x.next, x.prev, x.cur} \subseteq V

LEMMA OtherWalks ==
    ASSUME TypeOK, Nested, Next
    PROVE  \A i \in DOMAIN calls' : calls'[i].op = "walk" =>
              \/ \E j \in DOMAIN calls : calls[j] = calls'[i]
              \/ i = 1 /\ (ChangeValue \/ CallValue \/ CallReturns \/ NotReady \/ Reap)
<1> SUFFICES ASSUME NEW i \in DOMAIN calls', calls'[i].op = "walk",
                    ~ \E j \in DOMAIN calls : calls[j] = calls'[i]
             PROVE  i = 1 /\ (ChangeValue \/ CallValue \/ CallReturns \/ NotReady \/ Reap)
  OBVIOUS
<1>1. calls' # calls
  OBVIOUS
<1>2. ASSUME NEW x, OuterIs(x) PROVE FALSE
  BY <1>2 DEF OuterIs, Only
<1>3. ~ \E p \in Phases : StartPhase(p)
  BY <1>2, StartsPhase
<1>4. ~ CallNext /\ ~ NextReturns /\ ~ CallTask
  BY <1>2, CallsNext, ReturnsFromNext, StartsTask
<1>5. ~ \E c \in Callbacks : CallSync(c)
  BY <1>2, StartsSync
<1>6. ~ PhaseDone /\ ~ SyncReturns /\ ~ TaskReturns
  BY ReturnsFromOuter DEF OuterEnds
<1>7. ~ \E r \in Reasons : Register(r)
  BY <1>1 DEF Register
<1>8. ~ \E c \in Callbacks : RemoveCb(c) \/ SkipSync(c)
  BY <1>1 DEF RemoveCb, SkipSync
<1>9. ~ WalkDone
  BY EndsWalk DEF WalkEnds, Popped
<1>10. ChangeValue \/ CallValue \/ CallReturns \/ NotReady \/ Reap
  BY <1>3, <1>4, <1>5, <1>6, <1>7, <1>8, <1>9 DEF Next
<1>11. i = 1
  <2>1. CASE WalkStarts
    BY <2>1 DEF WalkStarts, Pushed
  <2>2. CASE WalkMoves
    BY <2>2 DEF WalkMoves, Exchanged
  <2> QED BY <1>10, <2>1, <2>2, StartsWalk, CallsValue, ReturnsFromValue, PassesNotReady, Reaps
<1> QED BY <1>10, <1>11

LEMMA PointersStep ==
    ASSUME TypeOK, Nested, Places, Pointers, Next
    PROVE  Pointers'
<1>1. ValueChanges \subseteq ValueChanges' /\ 0 \in ValueChanges
  BY ValueChangesStep DEF ValueChanges
<1>2. head' \in ValueChanges' /\ \A c \in Callbacks : next'[c] \in ValueChanges'
  BY ListPointers
<1>3. head \in ValueChanges /\ \A c \in Callbacks : next[c] \in ValueChanges
  BY DEF Pointers
<1>4. ASSUME NEW i \in DOMAIN calls, calls[i].op = "walk"
      PROVE  WalkPointers(calls[i], ValueChanges)
  BY <1>4 DEF Pointers, WalkPointers
<1>5. ASSUME calls # <<>>, Call.op = "walk"
      PROVE  /\ WalkPointers(Call, ValueChanges)
             /\ Call.next # 0 => Cur \in ValueChanges /\ next[Cur] \in ValueChanges
  <2>1. WalkPointers(Call, ValueChanges)
    BY <1>4, <1>5, Top
  <2>2. Call.next # 0 => Cur \in ValueChanges /\ next[Cur] \in ValueChanges
    BY <1>3, <1>5, <2>1, TopWalk DEF WalkPointers, Cur
  <2> QED BY <2>1, <2>2
<1>6. ASSUME NEW i \in DOMAIN calls', calls'[i].op = "walk"
      PROVE  WalkPointers(calls'[i], ValueChanges')
  <2>1. CASE \E j \in DOMAIN calls : calls[j] = calls'[i]
    BY <1>1, <1>4, <1>6, <2>1 DEF WalkPointers
  <2>2. CASE i = 1 /\ ChangeValue
    BY <1>1, <1>3, <2>2, StartsWalk DEF WalkIs, WalkPointers
  <2>3. CASE i = 1 /\ CallValue
    <3>1. calls # <<>> /\ Call.op = "walk" /\ Call.next # 0
      BY <2>3 DEF CallValue, AtCallback, InCall
    <3>2. WalkIs(calls'[1], TRUE, Cur, next[Cur], Call.prev, mode, Call.call \ {Cur},
                 Call.delete)
      BY <2>3, CallsValue
    <3> QED BY <1>1, <1>5, <2>3, <3>1, <3>2 DEF WalkIs, WalkPointers
  <2>4. CASE i = 1 /\ CallReturns
    <3>1. calls # <<>> /\ Call.op = "walk"
      BY <2>4 DEF CallReturns, InCall
    <3>2. WalkIs(calls'[1], FALSE, Call.cur, Call.next, Call.cur, Call.saved,
                     Call.call, Call.delete)
      BY <2>4, ReturnsFromValue
    <3> QED BY <1>1, <1>5, <2>4, <3>1, <3>2 DEF WalkIs, WalkPointers
  <2>5. CASE i = 1 /\ NotReady
    <3>1. calls # <<>> /\ Call.op = "walk" /\ Call.next # 0
      BY <2>5 DEF NotReady, AtCallback, InCall
    <3>2. WalkIs(calls'[1], FALSE, Cur, next[Cur], Cur, Call.saved, Call.call \ {Cur},
                     Call.delete)
      BY <2>5, PassesNotReady
    <3> QED BY <1>1, <1>5, <2>5, <3>1, <3>2 DEF WalkIs, WalkPointers
  <2>6. CASE i = 1 /\ Reap
    <3>1. calls # <<>> /\ Call.op = "walk" /\ Call.next # 0
      BY <2>6 DEF Reap, AtCallback, InCall
    <3>2. WalkIs(calls'[1], FALSE, Cur, next[Cur], Call.prev, Call.saved,
                     Call.call \ {Cur}, Call.delete)
      BY <2>6, Reaps
    <3> QED BY <1>1, <1>5, <2>6, <3>1, <3>2 DEF WalkIs, WalkPointers
  <2> QED BY <1>6, <2>1, <2>2, <2>3, <2>4, <2>5, <2>6, OtherWalks
<1> QED BY <1>2, <1>6 DEF Pointers, WalkPointers

-----------------------------------------------------------------------------
(* A list from h along nx, that has the elements of S, the youngest first.  *)
Below(S, c) == {d \in S : d < c}

LinkedIn(h, nx, S) == Youngest(h, S) /\ \A c \in S : Youngest(nx[c], Below(S, c))

(* A walk over it.                                                         *)
WalkIn(w, h, nx, S, V, ms) ==
    /\ w.prev \in S \cup {0} /\ w.next \in S \cup {0}
    /\ IF w.user THEN w.cur \in S /\ nx[w.cur] = w.next
       ELSE IF w.prev = 0 THEN h = w.next
       ELSE nx[w.prev] = w.next
    /\ w.call \cup w.delete \subseteq V \ {0}
    /\ \A c \in w.call : ms[c] = "live" => c <= w.next
    /\ \A c \in w.delete : ms[c] = "deleted" \/ (ms[c] = "removed" /\ c <= w.next)

LEMMA ListAsIn ==
    /\ Linked <=> LinkedIn(head, next, OfSignal)
    /\ \A w : Walking(w) <=> WalkIn(w, head, next, OfSignal, ValueChanges, mem)
BY DEF Linked, LinkedIn, Below, Walking, WalkIn

LEMMA InToList ==
    /\ Linked' <=> LinkedIn(head', next', OfSignal')
    /\ (\A i \in Walks : Walking(calls[i]))' <=>
       \A i \in Walks' : WalkIn(calls'[i], head', next', OfSignal', ValueChanges', mem')
BY DEF Linked, LinkedIn, Below, Walking, WalkIn

LEMMA NumbersOf == Callbacks \subseteq Nat /\ 0 \notin Callbacks /\ \A c \in Callbacks : c > 0
BY BoundsAssumption DEF Callbacks

Grown(c, h, nx, S, nx2, S2) ==
    /\ c \in Callbacks \ S /\ (\A d \in S : d < c) /\ S2 = S \cup {c}
    /\ nx2[c] = h /\ \A d \in S : nx2[d] = nx[d]

LEMMA ListGrows ==
    ASSUME NEW S \in SUBSET Callbacks, NEW h, NEW nx, NEW c, NEW nx2, NEW S2,
           LinkedIn(h, nx, S), Grown(c, h, nx, S, nx2, S2)
    PROVE  LinkedIn(c, nx2, S2)
<1>1. S \subseteq Nat /\ c \in Nat /\ c \in S2 /\ \A d \in S2 : d \in S \/ d = c
  BY NumbersOf DEF Grown
<1>2. Youngest(c, S2)
  BY <1>1 DEF Youngest, Grown
<1>3. Below(S2, c) = S
  <2>1. ~ (c < c) /\ S \subseteq S2 /\ \A d \in S : d < c
    BY <1>1 DEF Grown
  <2> QED BY <1>1, <2>1 DEF Below
<1>4. Youngest(nx2[c], Below(S2, c))
  BY <1>3 DEF LinkedIn, Grown
<1>5. ASSUME NEW d \in S PROVE Youngest(nx2[d], Below(S2, d))
  <2>1. Below(S2, d) = Below(S, d)
    BY <1>1 DEF Below, Grown
  <2> QED BY <2>1 DEF LinkedIn, Grown
<1> QED BY <1>1, <1>2, <1>4, <1>5 DEF LinkedIn

(* c is taken out, behind p or from the head.                              *)
Shrunk(c, p, h, nx, S, h2, nx2) ==
    /\ c \in S /\ p \in S \cup {0}
    /\ IF p = 0 THEN h = c ELSE nx[p] = c
    /\ IF p = 0 THEN h2 = nx[c] /\ \A d \in S \ {c} : nx2[d] = nx[d]
       ELSE /\ h2 = h
            /\ p # c => nx2[p] = nx[c]
            /\ \A d \in S \ {c, p} : nx2[d] = nx[d]

LEMMA ListShrinks ==
    ASSUME NEW S \in SUBSET Callbacks, NEW h, NEW nx, NEW c, NEW p, NEW h2, NEW nx2,
           LinkedIn(h, nx, S), Shrunk(c, p, h, nx, S, h2, nx2)
    PROVE  /\ LinkedIn(h2, nx2, S \ {c})
           /\ p # c
<1>1. S \subseteq Nat /\ 0 \notin S /\ c \in S /\ c \in Nat /\ p \in S \cup {0}
  BY NumbersOf DEF Shrunk
<1>2. /\ Youngest(h, S) /\ \A d \in S : Youngest(nx[d], Below(S, d))
  BY DEF LinkedIn
<1>3. Youngest(nx[c], Below(S, c))
  BY <1>1, <1>2
<1>4. CASE p = 0
  <2>1. h = c /\ h2 = nx[c] /\ \A d \in S \ {c} : nx2[d] = nx[d]
    BY <1>4 DEF Shrunk
  <2>2. \A d \in S \ {c} : d < c
    BY <1>1, <1>2, <2>1 DEF Youngest
  <2>3. Below(S, c) = S \ {c}
    <3>1. ~ (c < c)
      BY <1>1
    <3> QED BY <2>2, <3>1 DEF Below
  <2>4. Youngest(h2, S \ {c})
    BY <1>3, <2>1, <2>3
  <2>5. ASSUME NEW d \in S \ {c} PROVE Youngest(nx2[d], Below(S \ {c}, d))
    <3>1. Below(S \ {c}, d) = Below(S, d)
      BY <1>1, <2>2 DEF Below
    <3> QED BY <1>2, <2>1, <3>1
  <2> QED BY <1>1, <1>4, <2>4, <2>5 DEF LinkedIn
<1>5. CASE p # 0
  <2>1. /\ p \in S /\ p \in Nat /\ nx[p] = c /\ h2 = h
        /\ p # c => nx2[p] = nx[c]
        /\ \A d \in S \ {c, p} : nx2[d] = nx[d]
    BY <1>1, <1>5 DEF Shrunk
  <2>2. Youngest(c, Below(S, p))
    BY <1>2, <2>1
  <2>3. c < p /\ \A d \in S : d < p => d <= c
    BY <1>1, <2>1, <2>2 DEF Youngest, Below
  <2>4. Youngest(h2, S \ {c})
    <3>1. h \in S \cup {0} /\ p <= h
      BY <1>2, <2>1 DEF Youngest
    <3>2. h # c
      BY <1>1, <2>1, <2>3, <3>1
    <3> QED BY <1>2, <2>1, <3>2 DEF Youngest
  <2>5. nx2[p] = nx[c] /\ p # c
    BY <1>1, <2>1, <2>3
  <2>6. Below(S \ {c}, p) = Below(S, c)
    <3>1. \A d \in S : (d # c /\ d < p) <=> d < c
      BY <1>1, <2>1, <2>3
    <3> QED BY <3>1 DEF Below
  <2>7. Youngest(nx2[p], Below(S \ {c}, p))
    BY <1>3, <2>5, <2>6
  <2>8. ASSUME NEW d \in S \ {c, p} PROVE Youngest(nx2[d], Below(S \ {c}, d))
    <3>1. Youngest(nx[d], Below(S, d)) /\ nx2[d] = nx[d] /\ d \in Nat
      BY <1>1, <1>2, <2>1
    <3>2. CASE d < c
      <4>1. Below(S \ {c}, d) = Below(S, d)
        BY <1>1, <3>1, <3>2 DEF Below
      <4> QED BY <3>1, <4>1
    <3>3. CASE ~ (d < c)
      <4>1. p < d
        BY <1>1, <2>1, <2>3, <3>1, <3>3
      <4>2. p \in Below(S, d)
        BY <2>1, <4>1 DEF Below
      <4>3. p <= nx[d] /\ nx[d] \in Below(S, d) \cup {0}
        BY <3>1, <4>2 DEF Youngest
      <4>4. nx[d] # c
        BY <1>1, <2>1, <2>3, <4>3
      <4>5. Below(S \ {c}, d) \subseteq Below(S, d) /\ Below(S, d) \subseteq Below(S \ {c}, d) \cup {c}
        BY DEF Below
      <4> QED BY <3>1, <4>3, <4>4, <4>5 DEF Youngest
    <3> QED BY <3>2, <3>3
  <2> QED BY <2>4, <2>5, <2>7, <2>8 DEF LinkedIn
<1> QED BY <1>4, <1>5

(* The call-backs of the signal after a step.                              *)
LEMMA SignalOf ==
    /\ TypeOK => OfSignal \subseteq Callbacks /\ OfSignal \subseteq ValueChanges
    /\ OfSignal = {c \in Callbacks : reason[c] = "ValueChange" /\ Kept(mem[c])}
    /\ OfSignal' = {c \in Callbacks : reason'[c] = "ValueChange" /\ Kept(mem'[c])}
BY DEF OfSignal, Known, Kept, ValueChanges

LEMMA SignalKept ==
    ASSUME TypeOK, NEW c \in Callbacks, Removed(c) \/ Served(c)
    PROVE  OfSignal' = OfSignal /\ KeepsList
<1>1. reason[c] = "ValueChange" => reason[c] \notin Phases \cup Syncs
  BY DEF Phases, Syncs
<1>2. KeepsList
  BY DEF Removed, Served
<1>3. ASSUME NEW d \in Callbacks
      PROVE  reason'[d] = "ValueChange" /\ Kept(mem'[d])
                <=> reason[d] = "ValueChange" /\ Kept(mem[d])
  BY <1>1 DEF Removed, Served, One, Kept
<1> QED BY <1>2, <1>3, SignalOf

LEMMA SignalGrows ==
    ASSUME TypeOK, InOrderOfAge, NEW c \in Callbacks, NEW r, Registered(c, r)
    PROVE  /\ r # "ValueChange" => OfSignal' = OfSignal /\ KeepsList
           /\ r = "ValueChange" => Grown(c, head, next, OfSignal, next', OfSignal') /\ head' = c
<1>1. c \notin OfSignal
  BY DEF Registered, OfSignal, Known
<1>2. \A d \in Callbacks \ {c} :
          reason'[d] = "ValueChange" /\ Kept(mem'[d]) <=> reason[d] = "ValueChange" /\ Kept(mem[d])
  BY DEF Registered, One
<1>3. reason'[c] = r /\ Kept(mem'[c])
  BY DEF Registered, One, Kept
<1>4. ASSUME r # "ValueChange" PROVE OfSignal' = OfSignal /\ KeepsList
  <2>1. OfSignal' = OfSignal
    BY <1>1, <1>2, <1>3, <1>4, SignalOf
  <2> QED BY <1>4, <2>1 DEF Registered
<1>5. ASSUME r = "ValueChange"
      PROVE  Grown(c, head, next, OfSignal, next', OfSignal') /\ head' = c
  <2>1. OfSignal' = OfSignal \cup {c}
    BY <1>2, <1>3, <1>5, SignalOf
  <2>2. ASSUME NEW d \in OfSignal PROVE d < c
    <3>1. d \in Callbacks /\ mem[d] # "unused" /\ d # c
      BY <1>1 DEF OfSignal, Known
    <3>2. ~ (c < d)
      BY <3>1 DEF InOrderOfAge, Registered
    <3> QED BY <3>1, <3>2, NumbersOf
  <2>3. head' = c /\ next'[c] = head /\ \A d \in OfSignal : next'[d] = next[d]
    BY <1>1, <1>5 DEF Registered, OfSignal
  <2> QED BY <1>1, <2>1, <2>2, <2>3 DEF Grown
<1> QED BY <1>4, <1>5

(* The walk that deletes.                                                  *)
LEMMA SignalShrinks ==
    ASSUME TypeOK, Nested, Reap, Walking(Call)
    PROVE  /\ OfSignal' = OfSignal \ {Cur}
           /\ Shrunk(Cur, Call.prev, head, next, OfSignal, head', next')
           /\ Cur \in OfSignal
<1>1. /\ Cur \in Callbacks /\ Call.next = Cur /\ Call.user = FALSE /\ Cur # 0
  BY Reaps DEF Cur, Reap, AtCallback, InCall
<1>2. /\ One(Cur, "deleted", reason[Cur])
      /\ IF Call.prev = 0
         THEN head' = next[Cur] /\ \A d \in Callbacks \ {Cur} : next'[d] = next[d]
         ELSE /\ head' = head /\ Call.prev \in Callbacks
              /\ Call.prev # Cur => next'[Call.prev] = next[Cur]
              /\ \A d \in Callbacks \ {Cur, Call.prev} : next'[d] = next[d]
  BY ReapHeap
<1>3. /\ Call.prev \in OfSignal \cup {0} /\ Cur \in OfSignal
      /\ IF Call.prev = 0 THEN head = Cur ELSE next[Call.prev] = Cur
  BY <1>1 DEF Walking
<1>4. OfSignal' = OfSignal \ {Cur}
  <2>1. ASSUME NEW d \in Callbacks
        PROVE  reason'[d] = "ValueChange" /\ Kept(mem'[d])
                <=> reason[d] = "ValueChange" /\ Kept(mem[d]) /\ d # Cur
    BY <1>2 DEF One, Kept
  <2> QED BY <2>1, SignalOf
<1>5. \A d \in OfSignal : d \in Callbacks
  BY DEF OfSignal
<1> QED BY <1>2, <1>3, <1>4, <1>5 DEF Shrunk

TopWalks == \A i \in Walks : Walking(calls[i])

LEMMA TopWalking ==
    ASSUME TypeOK, TopWalks, calls # <<>>, Call.op = "walk"
    PROVE  Walking(Call) /\ 1 \in Walks
BY Top DEF TopWalks, Walks

LEMMA LinkedStep ==
    ASSUME TypeOK, Nested, Places, InOrderOfAge, Linked, TopWalks, Next
    PROVE  Linked'
<1>1. LinkedIn(head, next, OfSignal) /\ OfSignal \in SUBSET Callbacks
  BY ListAsIn, SignalOf
<1>2. ASSUME OfSignal' = OfSignal, KeepsList PROVE LinkedIn(head', next', OfSignal')
  BY <1>1, <1>2 DEF KeepsList
<1>3. CASE Same
  <2>1. OfSignal' = OfSignal
    BY <1>3 DEF Same, OfSignal, Known
  <2> QED BY <1>2, <1>3, <2>1, InToList DEF Same
<1>4. ASSUME NEW c \in Callbacks, Removed(c) \/ Served(c) PROVE Linked'
  BY <1>2, <1>4, SignalKept, InToList
<1>5. ASSUME NEW c \in Callbacks, NEW r, Registered(c, r) PROVE Linked'
  <2>1. CASE r # "ValueChange"
    BY <1>2, <1>5, <2>1, SignalGrows, InToList
  <2>2. CASE r = "ValueChange"
    <3>1. Grown(c, head, next, OfSignal, next', OfSignal') /\ head' = c
      BY <1>5, <2>2, SignalGrows
    <3>2. LinkedIn(c, next', OfSignal')
      BY <1>1, <3>1, ListGrows
    <3> QED BY <3>1, <3>2, InToList
  <2> QED BY <2>1, <2>2
<1>6. CASE Reap
  <2>1. Walking(Call)
    BY <1>6, TopWalking DEF Reap, AtCallback, InCall
  <2>2. /\ OfSignal' = OfSignal \ {Cur}
        /\ Shrunk(Cur, Call.prev, head, next, OfSignal, head', next')
    BY <1>6, <2>1, SignalShrinks
  <2>3. LinkedIn(head', next', OfSignal \ {Cur})
    BY <1>1, <2>2, ListShrinks
  <2> QED BY <2>2, <2>3, InToList
<1> QED BY <1>3, <1>4, <1>5, <1>6, MemKinds

WalkNow(w) == WalkIn(w, head, next, OfSignal, ValueChanges, mem)
WalkNext(w) == WalkIn(w, head', next', OfSignal', ValueChanges', mem')

(* A client registers, while every walk is in a function it has called.     *)
LEMMA WalkRegisters ==
    ASSUME TypeOK, InOrderOfAge, NEW w, WalkNow(w), w.user,
           NEW c \in Callbacks, NEW r, Registered(c, r),
           ValueChanges \subseteq ValueChanges'
    PROVE  WalkNext(w)
<1>1. OfSignal \subseteq OfSignal' /\ c \notin OfSignal
  BY SignalGrows DEF Grown, Registered, OfSignal, Known
<1>2. /\ w.prev \in OfSignal \cup {0} /\ w.next \in OfSignal \cup {0}
      /\ w.cur \in OfSignal /\ next[w.cur] = w.next
      /\ w.call \cup w.delete \subseteq ValueChanges \ {0}
      /\ \A d \in w.call : mem[d] = "live" => d <= w.next
      /\ \A d \in w.delete : mem[d] = "deleted" \/ (mem[d] = "removed" /\ d <= w.next)
  BY DEF WalkNow, WalkIn
<1>3. next'[w.cur] = w.next
  BY <1>1, <1>2 DEF Registered, OfSignal
<1>4. c \notin ValueChanges /\ 0 \notin w.delete
  <2>1. c \notin ValueChanges
    BY NumbersOf DEF ValueChanges, Registered
  <2>2. ASSUME 0 \in w.delete PROVE FALSE
    BY <1>2, <2>2 DEF WalkNow, WalkIn
  <2> QED BY <2>1, <2>2
<1> QED BY <1>1, <1>2, <1>3, <1>4 DEF WalkNext, WalkIn, Registered, One, ValueChanges

LEMMA WalkRemains ==
    ASSUME TypeOK, NEW w, WalkNow(w), NEW c \in Callbacks, Removed(c) \/ Served(c),
           ValueChanges \subseteq ValueChanges'
    PROVE  WalkNext(w)
<1>1. OfSignal' = OfSignal /\ head' = head /\ next' = next
  BY SignalKept DEF KeepsList
<1>2. w.call \cup w.delete \subseteq ValueChanges \ {0}
  BY DEF WalkNow, WalkIn
<1>3. ASSUME NEW d \in w.call, mem'[d] = "live" PROVE mem[d] = "live"
  BY <1>2, <1>3 DEF Removed, Served, One, ValueChanges
<1>4. ASSUME NEW d \in w.delete PROVE mem'[d] = mem[d]
  <2>1. d \in Callbacks /\ reason[d] = "ValueChange" /\ mem[d] \in {"deleted", "removed"}
    BY <1>2 DEF WalkNow, WalkIn, ValueChanges
  <2>2. d # c
    BY <2>1 DEF Removed, Served, Phases, Syncs
  <2> QED BY <2>1, <2>2 DEF Removed, Served, One
<1> QED BY <1>1, <1>2, <1>3, <1>4 DEF WalkNow, WalkNext, WalkIn

(* A new walk.                                                             *)
LEMMA WalkBegins ==
    ASSUME TypeOK, Linked, ChangeValue, Nested
    PROVE  WalkNow(calls'[1])
<1>1. WalkIs(calls'[1], FALSE, 0, head, 0, mode, With("live"), With("removed"))
  BY StartsWalk
<1>2. Youngest(head, OfSignal)
  BY DEF Linked
<1>3. With("live") \subseteq OfSignal /\ With("removed") \subseteq OfSignal
  BY DEF With, OfSignal, Known
<1>4. OfSignal \subseteq ValueChanges \ {0}
  BY SignalOf, NumbersOf
<1>5. \A c \in With("removed") : mem[c] = "removed"
  BY DEF With
<1> QED BY <1>1, <1>2, <1>3, <1>4, <1>5 DEF WalkIs, WalkNow, WalkIn, Youngest

(* The walk passes a call-back, which it calls or not.                      *)
LEMMA WalkPasses ==
    ASSUME TypeOK, Linked, NEW w, WalkNow(w), w.next # 0, mem[w.next] = "live",
           NEW x, NEW u, NEW p, NEW s,
           WalkIs(x, u, w.next, next[w.next], p, s, w.call \ {w.next}, w.delete),
           \/ u = TRUE /\ p = w.prev
           \/ u = FALSE /\ p = w.next
    PROVE  WalkNow(x)
<1> DEFINE c == w.next
<1>1. /\ c \in OfSignal /\ w.prev \in OfSignal \cup {0}
      /\ w.call \cup w.delete \subseteq ValueChanges \ {0}
      /\ \A d \in w.call : mem[d] = "live" => d <= c
  BY DEF WalkNow, WalkIn
<1>12. \A d \in w.delete : mem[d] = "deleted" \/ (mem[d] = "removed" /\ d <= c)
  BY DEF WalkNow, WalkIn
<1>2. Youngest(next[c], Below(OfSignal, c))
  BY <1>1, ListAsIn DEF LinkedIn
<1> HIDE DEF c
<1>3. /\ x.user = u /\ x.cur = c /\ x.next = next[c] /\ x.prev = p
      /\ x.call = w.call \ {c} /\ x.delete = w.delete
  BY DEF WalkIs, c
<1>4. OfSignal \subseteq Nat /\ c \in Nat /\ c # 0
  BY <1>1, SignalOf, NumbersOf
<1>5. next[c] \in OfSignal \cup {0}
  BY <1>2 DEF Youngest, Below
<1>6. ASSUME NEW d \in OfSignal, d <= c, d # c PROVE d <= next[c]
  <2>1. d < c
    BY <1>4, <1>6
  <2> QED BY <1>2, <2>1 DEF Youngest, Below
<1>7. \A d \in ValueChanges \ {0} : mem[d] \in {"live", "removed"} => d \in OfSignal
  BY DEF ValueChanges, OfSignal, Known
<1>8. \A d \in x.call : mem[d] = "live" => d <= x.next
  BY <1>1, <1>3, <1>6, <1>7
<1>9. \A d \in x.delete : mem[d] = "deleted" \/ (mem[d] = "removed" /\ d <= x.next)
  <2> SUFFICES ASSUME NEW d \in w.delete, mem[d] # "deleted"
               PROVE  mem[d] = "removed" /\ d <= next[c]
    BY <1>3
  <2>1. mem[d] = "removed" /\ d <= c /\ d \in OfSignal
    <3>1. d \in ValueChanges \ {0}
      BY <1>1
    <3>2. mem[d] = "removed" /\ d <= c
      BY <1>12
    <3> QED BY <1>7, <3>1, <3>2
  <2>2. d # c
    BY <2>1 DEF c
  <2> QED BY <1>6, <2>1, <2>2
<1>10. IF x.user THEN x.cur \in OfSignal /\ next[x.cur] = x.next
       ELSE IF x.prev = 0 THEN head = x.next ELSE next[x.prev] = x.next
  BY <1>1, <1>3, <1>4 DEF c
<1>11. x.prev \in OfSignal \cup {0} /\ x.call \cup x.delete \subseteq ValueChanges \ {0}
  BY <1>1, <1>3 DEF c
<1> QED BY <1>3, <1>5, <1>8, <1>9, <1>10, <1>11 DEF WalkNow, WalkIn

LEMMA WalkReturns ==
    ASSUME TypeOK, NEW w, WalkNow(w), w.user, NEW x, NEW s,
           WalkIs(x, FALSE, w.cur, w.next, w.cur, s, w.call, w.delete)
    PROVE  WalkNow(x)
<1>1. w.cur # 0
  BY SignalOf, NumbersOf DEF WalkNow, WalkIn
<1> QED BY <1>1 DEF WalkNow, WalkIn, WalkIs

(* The walk deletes a call-back.                                           *)
LEMMA WalkReaps ==
    ASSUME TypeOK, Nested, Linked, Reap, WalkNow(Call),
           ValueChanges \subseteq ValueChanges'
    PROVE  WalkNext(calls'[1])
<1> DEFINE c == Cur
           x == calls'[1]
<1>1. WalkIs(x, FALSE, c, next[c], Call.prev, Call.saved, Call.call \ {c}, Call.delete)
  BY Reaps
<1>2. /\ OfSignal' = OfSignal \ {c}
      /\ Shrunk(c, Call.prev, head, next, OfSignal, head', next')
      /\ c \in OfSignal /\ Call.next = c /\ Call.prev # c
  <2>1. Walking(Call)
    BY ListAsIn DEF WalkNow
  <2>2. LinkedIn(head, next, OfSignal) /\ OfSignal \in SUBSET Callbacks
    BY ListAsIn, SignalOf
  <2>3. /\ OfSignal' = OfSignal \ {c}
        /\ Shrunk(c, Call.prev, head, next, OfSignal, head', next')
        /\ c \in OfSignal
    BY <2>1, SignalShrinks
  <2> QED BY <2>2, <2>3, ListShrinks DEF Cur
<1>3. One(c, "deleted", reason[c])
  BY ReapHeap
<1>4. Youngest(next[c], Below(OfSignal, c))
  BY <1>2, ListAsIn DEF LinkedIn
<1> HIDE DEF c, x
<1>5. OfSignal \subseteq Nat /\ c \in Nat /\ c # 0
  BY <1>2, SignalOf, NumbersOf
<1>6. next[c] \in (OfSignal \ {c}) \cup {0}
  BY <1>4, <1>5 DEF Youngest, Below
<1>7. ASSUME NEW d \in OfSignal, d <= c, d # c PROVE d <= next[c]
  <2>1. d < c
    BY <1>5, <1>7
  <2> QED BY <1>4, <2>1 DEF Youngest, Below
<1>8. \A d \in ValueChanges \ {0} : mem[d] \in {"live", "removed"} => d \in OfSignal
  BY DEF ValueChanges, OfSignal, Known
<1>9. /\ Call.prev \in OfSignal \cup {0}
      /\ Call.call \cup Call.delete \subseteq ValueChanges \ {0}
      /\ \A d \in Call.call : mem[d] = "live" => d <= c
      /\ \A d \in Call.delete : mem[d] = "deleted" \/ (mem[d] = "removed" /\ d <= c)
  BY <1>2 DEF WalkNow, WalkIn
<1>10. \A d \in ValueChanges \ {0} : d # c => mem'[d] = mem[d]
  BY <1>3 DEF One, ValueChanges
<1>11. mem'[c] = "deleted"
  BY <1>3 DEF One
<1>12. \A d \in x.call : mem'[d] = "live" => d <= x.next
  BY <1>1, <1>7, <1>8, <1>9, <1>10 DEF WalkIs
<1>13. \A d \in x.delete : mem'[d] = "deleted" \/ (mem'[d] = "removed" /\ d <= x.next)
  BY <1>1, <1>7, <1>8, <1>9, <1>10, <1>11 DEF WalkIs
<1>14. IF x.prev = 0 THEN head' = x.next ELSE next'[x.prev] = x.next
  BY <1>1, <1>2 DEF Shrunk, WalkIs
<1>15. x.call \cup x.delete \subseteq ValueChanges' \ {0}
  BY <1>1, <1>9 DEF WalkIs
<1>16. x.prev \in OfSignal' \cup {0} /\ x.next \in OfSignal' \cup {0} /\ x.user = FALSE
  BY <1>1, <1>2, <1>6, <1>9 DEF WalkIs
<1>17. WalkNext(x)
  BY <1>12, <1>13, <1>14, <1>15, <1>16 DEF WalkNext, WalkIn
<1> QED BY <1>17 DEF x

(* The walks before a step and after it.                                   *)
LEMMA WalksAfter ==
    ASSUME TypeOK, Nested, Reap \/ calls' = calls \/ WalkEnds \/ ~ \E i \in Walks' : TRUE
    PROVE  /\ Reap => Walks' = Walks /\ 1 \in Walks /\ calls[1] = Call
           /\ calls' = calls => Walks' = Walks
           /\ WalkEnds => \A i \in Walks' : i + 1 \in Walks /\ i \in Nat
<1>1. Walks' = {i \in DOMAIN calls' : calls'[i].op = "walk"}
  BY DEF Walks
<1>2. ASSUME Reap PROVE Walks' = Walks /\ 1 \in Walks /\ calls[1] = Call
  <2>1. WalkMoves /\ Call = calls[1]
    BY <1>2, Reaps
  <2>2. /\ DOMAIN calls' = DOMAIN calls /\ 1 \in DOMAIN calls
        /\ calls[1].op = "walk" /\ calls'[1].op = "walk"
        /\ \A i \in DOMAIN calls : i = 1 \/ calls'[i] = calls[i]
    BY <2>1, Stack DEF WalkMoves, Exchanged
  <2> QED BY <1>1, <2>1, <2>2 DEF Walks
<1>3. ASSUME calls' = calls PROVE Walks' = Walks
  BY <1>1, <1>3 DEF Walks
<1>4. ASSUME WalkEnds PROVE \A i \in Walks' : i + 1 \in Walks /\ i \in Nat
  BY <1>1, <1>4, Stack DEF WalkEnds, Popped, Walks
<1> QED BY <1>2, <1>3, <1>4

LEMMA WalkingStep ==
    ASSUME TypeOK, Nested, Places, InOrderOfAge, Linked, TopWalks, AloneWithRemoved, Next
    PROVE  (\A i \in Walks : Walking(calls[i]))'
<1>1. ValueChanges \subseteq ValueChanges'
  BY ValueChangesStep
<1>2. ASSUME NEW j \in DOMAIN calls, calls[j].op = "walk"
      PROVE  j \in Walks /\ WalkNow(calls[j])
  BY <1>2, ListAsIn DEF TopWalks, Walks, WalkNow
<1>3. ASSUME calls # <<>>, Call.op = "walk" PROVE WalkNow(Call)
  BY <1>2, <1>3, Top
<1>4. ASSUME NEW i \in Walks' PROVE WalkNext(calls'[i])
  <2>0. i \in DOMAIN calls' /\ calls'[i].op = "walk"
    BY <1>4 DEF Walks
  <2>1. CASE Reap
    <3>1. /\ Walks' = Walks /\ 1 \in Walks /\ calls # <<>> /\ Call.op = "walk"
          /\ mem[Cur] = "removed" /\ Cur \in Callbacks
      BY <2>1, WalksAfter, Reaps DEF Reap, AtCallback, InCall
    <3>2. WalkNow(Call) /\ Call.next = Cur /\ Cur # 0
      BY <1>3, <2>1, <3>1 DEF Cur, Reap, AtCallback
    <3>3. Cur \in With("removed")
      BY <3>1, <3>2 DEF WalkNow, WalkIn, With, OfSignal
    <3>4. i = 1
      BY <1>4, <3>1, <3>3 DEF AloneWithRemoved
    <3> QED BY <1>1, <2>1, <3>2, <3>4, WalkReaps
  <2>2. CASE i = 1 /\ (ChangeValue \/ CallValue \/ CallReturns \/ NotReady)
    <3>1. /\ OfSignal' = OfSignal /\ head' = head /\ next' = next /\ mem' = mem
          /\ ValueChanges' = ValueChanges
      <4>1. KeepsHeap
        BY <2>2, QuietHeap DEF Quiet
      <4> QED BY <4>1 DEF KeepsHeap, OfSignal, Known, ValueChanges
    <3>2. WalkNow(calls'[1])
      <4>1. CASE ChangeValue
        BY <4>1, WalkBegins
      <4>2. CASE CallValue
        <5>1. WalkNow(Call) /\ Call.next # 0 /\ mem[Call.next] = "live"
          BY <1>3, <4>2 DEF CallValue, AtCallback, InCall, Cur
        <5>2. WalkIs(calls'[1], TRUE, Call.next, next[Call.next], Call.prev, mode,
                     Call.call \ {Call.next}, Call.delete)
          BY <4>2, CallsValue DEF Cur
        <5> QED BY <5>1, <5>2, WalkPasses
      <4>3. CASE NotReady
        <5>1. WalkNow(Call) /\ Call.next # 0 /\ mem[Call.next] = "live"
          BY <1>3, <4>3 DEF NotReady, AtCallback, InCall, Cur
        <5>2. WalkIs(calls'[1], FALSE, Call.next, next[Call.next], Call.next, Call.saved,
                     Call.call \ {Call.next}, Call.delete)
          BY <4>3, PassesNotReady DEF Cur
        <5> QED BY <5>1, <5>2, WalkPasses
      <4>4. CASE CallReturns
        <5>1. WalkNow(Call) /\ Call.user
          BY <1>3, <4>4 DEF CallReturns, InCall
        <5>2. WalkIs(calls'[1], FALSE, Call.cur, Call.next, Call.cur, Call.saved,
                     Call.call, Call.delete)
          BY <4>4, ReturnsFromValue
        <5> QED BY <5>1, <5>2, WalkReturns
      <4> QED BY <2>2, <4>1, <4>2, <4>3, <4>4
    <3> QED BY <2>2, <3>1, <3>2 DEF WalkNow, WalkNext
  <2>3. CASE ~ Reap /\ \E j \in DOMAIN calls : calls[j] = calls'[i]
    <3>1. PICK j \in DOMAIN calls : calls[j] = calls'[i]
      BY <2>3
    <3>2. WalkNow(calls[j]) /\ j \in Walks
      BY <1>2, <2>0, <3>1
    <3>3. CASE Same
      <4>1. /\ OfSignal' = OfSignal /\ head' = head /\ next' = next /\ mem' = mem
            /\ ValueChanges' = ValueChanges
        BY <3>3 DEF Same, KeepsList, OfSignal, Known, ValueChanges
      <4> QED BY <3>1, <3>2, <4>1 DEF WalkNow, WalkNext
    <3>4. ASSUME NEW c \in Callbacks, Removed(c) \/ Served(c) PROVE WalkNext(calls'[i])
      BY <1>1, <3>1, <3>2, <3>4, WalkRemains
    <3>5. ASSUME NEW c \in Callbacks, NEW r, Register(r), Registered(c, r)
          PROVE  WalkNext(calls'[i])
      <4>1. calls # <<>> /\ calls[1].user
        BY <3>5, Top DEF Register, ClientRuns
      <4>2. j > 1 => calls[j].user
        BY DEF Nested
      <4>3. j = 1 \/ j > 1
        BY Stack
      <4> QED BY <1>1, <3>1, <3>2, <3>5, <4>1, <4>2, <4>3, WalkRegisters
    <3> QED BY <2>3, <3>3, <3>4, <3>5, MemKinds
  <2> QED BY <2>0, <2>1, <2>2, <2>3, OtherWalks
<1> QED BY <1>4, InToList DEF WalkNext

(* The walks are as many as before, or fewer, unless a value changes.       *)
LEMMA StackKinds ==
    ASSUME TypeOK, Nested, Next
    PROVE  \/ ChangeValue \/ calls' = calls \/ WalkMoves \/ WalkEnds
           \/ calls' = <<>> \/ \E x : OuterIs(x)
<1>1. ASSUME NEW x, OuterIs(x) PROVE \E y : OuterIs(y)
  BY <1>1
<1>2. CASE CallValue \/ CallReturns \/ NotReady \/ Reap
  BY <1>2, CallsValue, ReturnsFromValue, PassesNotReady, Reaps
<1>3. CASE WalkDone
  BY <1>3, EndsWalk
<1>4. CASE (\E p \in Phases : StartPhase(p)) \/ CallNext \/ NextReturns \/ CallTask
           \/ \E c \in Callbacks : CallSync(c)
  BY <1>1, <1>4, StartsPhase, CallsNext, ReturnsFromNext, StartsTask, StartsSync
<1>5. CASE PhaseDone \/ SyncReturns \/ TaskReturns
  BY <1>5, ReturnsFromOuter DEF OuterEnds
<1>6. CASE (\E r \in Reasons : Register(r))
           \/ \E c \in Callbacks : RemoveCb(c) \/ SkipSync(c)
  BY <1>6 DEF Register, RemoveCb, SkipSync
<1> QED BY <1>2, <1>3, <1>4, <1>5, <1>6 DEF Next

Alone == \A i, j \in Walks : i = j

LEMMA AloneOn ==
    ASSUME TypeOK, Nested, Next, Alone, ~ ChangeValue
    PROVE  Alone'
<1>1. Walks' = {i \in DOMAIN calls' : calls'[i].op = "walk"}
  BY DEF Walks
<1>2. CASE calls' = calls
  BY <1>2 DEF Alone, Walks
<1>3. CASE WalkMoves
  <2>1. \A i \in Walks' : i \in Walks
    <3>1. \A i \in DOMAIN calls' : i \in DOMAIN calls /\ (i = 1 \/ calls'[i] = calls[i])
      BY <1>3, Stack DEF WalkMoves, Exchanged
    <3>2. calls[1].op = "walk"
      BY <1>3 DEF WalkMoves
    <3> QED BY <1>1, <3>1, <3>2 DEF Walks
  <2> QED BY <2>1 DEF Alone
<1>4. CASE WalkEnds
  <2>1. \A i \in Walks' : i + 1 \in Walks /\ i \in Nat
    <3>1. /\ Len(calls) \in Nat /\ DOMAIN calls = 1..Len(calls)
          /\ DOMAIN calls' = 1..(Len(calls) - 1) /\ Len(calls) >= 1
          /\ \A i \in 1..(Len(calls) - 1) : calls'[i] = calls[i + 1]
      BY <1>4, Stack DEF WalkEnds, Popped
    <3>2. \A i \in DOMAIN calls' : i \in Nat /\ i + 1 \in DOMAIN calls /\ calls'[i] = calls[i + 1]
      BY <3>1
    <3> QED BY <1>1, <3>2 DEF Walks
  <2>2. \A i, j \in Walks' : i + 1 = j + 1 /\ i \in Nat /\ j \in Nat
    BY <2>1 DEF Alone
  <2>3. \A i, j \in Walks' : i = j
    BY <2>2
  <2> QED BY <2>3 DEF Alone
<1>5. CASE calls' = <<>>
  BY <1>1, <1>5 DEF Alone
<1>6. ASSUME NEW x, OuterIs(x) PROVE Alone'
  <2>1. \A i \in DOMAIN calls' : i = 1
    BY <1>6 DEF OuterIs, Only
  <2> QED BY <1>1, <2>1 DEF Alone
<1> QED BY <1>2, <1>3, <1>4, <1>5, <1>6, StackKinds

LEMMA FewWalks ==
    ASSUME TypeOK, Cardinality(Walks) <= 1
    PROVE  Alone
<1>1. Walks \subseteq 1..Len(calls) /\ Len(calls) \in Nat
  BY Stack DEF Walks
<1>2. IsFiniteSet(Walks)
  <2>1. IsFiniteSet(1..Len(calls)) /\ Walks \in SUBSET (1..Len(calls))
    BY <1>1, FS_Interval
  <2> QED BY <2>1, FS_Subset
<1>3. ASSUME NEW i \in Walks PROVE Walks = {i}
  <2>1. {i} \in SUBSET Walks /\ Cardinality({i}) = 1 /\ IsFiniteSet({i})
    BY <1>3, FS_Singleton
  <2>2. Cardinality({i}) <= Cardinality(Walks) /\ Cardinality(Walks) \in Nat
    BY <1>2, <2>1, FS_Subset, FS_CardinalityType
  <2>3. Cardinality({i}) = Cardinality(Walks)
    BY <2>1, <2>2
  <2> QED BY <1>2, <2>1, <2>3, FS_Subset
<1> QED BY <1>3 DEF Alone

(* The only step after which the signal has a removed call-back, which it   *)
(* had not before, is the removal.                                         *)
LEMMA AloneStep ==
    ASSUME ~ NestedReap, TypeOK, Nested, Places, AloneWithRemoved, Next
    PROVE  AloneWithRemoved'
<1> SUFFICES With("removed")' # {} => Alone'
  BY DEF AloneWithRemoved, Alone
<1>1. With("removed") # {} => Alone
  BY DEF AloneWithRemoved, Alone
<1>2. CASE ChangeValue
  <2>1. With("removed")' = With("removed")
    BY <1>2 DEF ChangeValue, heap, With
  <2>2. CASE Walks = {}
    <3>1. ASSUME NEW i \in Walks' PROVE i = 1
      <4>1. Pushed(calls, calls'[1], calls')
        BY <1>2, StartsWalk DEF WalkStarts
      <4>2. i \in DOMAIN calls' /\ calls'[i].op = "walk"
        BY <3>1 DEF Walks
      <4>3. i # 1 => i - 1 \in DOMAIN calls /\ calls'[i] = calls[i - 1]
        BY <4>1, <4>2, Stack DEF Pushed
      <4> QED BY <2>2, <4>2, <4>3 DEF Walks
    <3> QED BY <3>1 DEF Alone
  <2> QED BY <1>2, <2>1, <2>2 DEF ChangeValue
<1>3. CASE ~ ChangeValue
  <2>1. Alone => Alone'
    BY <1>3, AloneOn
  <2>2. ASSUME NEW c \in Callbacks, RemoveCb(c) PROVE With("removed")' # {} => Alone'
    <3>1. reason[c] = "ValueChange" => Alone
      BY <2>2, FewWalks DEF RemoveCb
    <3>2. reason[c] # "ValueChange" => With("removed")' = With("removed")
      BY <2>2 DEF RemoveCb, With, TypeOK
    <3> QED BY <1>1, <2>1, <3>1, <3>2
  <2>3. ASSUME NEW c \in Callbacks, NEW m, NEW r, One(c, m, r), m # "removed"
        PROVE  With("removed")' # {} => With("removed") # {}
    BY <2>3 DEF One, With
  <2>4. CASE Same
    BY <1>1, <2>1, <2>4 DEF Same, With
  <2>5. ASSUME NEW c \in Callbacks, NEW r, Registered(c, r) \/ Served(c)
        PROVE  With("removed")' # {} => With("removed") # {}
    BY <2>3, <2>5 DEF Registered, Served
  <2>6. CASE Reap
    <3>1. One(Cur, "deleted", reason[Cur]) /\ Cur \in Callbacks
      BY <2>6, ReapHeap DEF One
    <3> QED BY <1>1, <2>1, <2>3, <3>1
  <2> QED BY <1>1, <2>1, <2>2, <2>4, <2>5, <2>6, MemKinds
<1> QED BY <1>2, <1>3

-----------------------------------------------------------------------------
(* The call-backs that are reached from head are those of the signal.       *)
Step(nx, X) == X \cup {nx[c] : c \in X \ {0}}

Reaches(f, h, nx) ==
    f[0] = {h} /\ \A n \in 1..MaxCallbacks : f[n] = Step(nx, f[n - 1])

LEMMA ListedReaches ==
    ASSUME TypeOK
    PROVE  \E f : Reaches(f, head, next) /\ Listed = f[MaxCallbacks] \ {0}
<1> DEFINE T == SUBSET (0..MaxCallbacks)
           F == [X \in T |-> X \cup {next[c] : c \in X \ {0}}]
           a == {head}
           Body(g) == [n \in 0..MaxCallbacks |->
                          IF n = 0 THEN {head}
                          ELSE g[n-1] \cup {next[c] : c \in g[n-1] \ {0}}]
           from == CHOOSE g : g = Body(g)
<1>0. MaxCallbacks \in Nat /\ 0 \in 0..MaxCallbacks
  BY BoundsAssumption
<1>1. PICK G \in [0..MaxCallbacks -> T] :
        G[0] = {head} /\ \A n \in 1..MaxCallbacks : G[n] = F[G[n - 1]]
  <2>1. \A c \in (0..MaxCallbacks) \ {0} : next[c] \in 0..MaxCallbacks
    BY <1>0 DEF TypeOK, Callbacks
  <2>2. F \in [T -> T]
    BY <2>1
  <2>3. a \in T
    BY DEF TypeOK
  <2> HIDE DEF F, T, a
  <2>4. Iterates(T, F, a, MaxCallbacks)
    BY <1>0, <2>2, <2>3, IterationExists
  <2> QED BY <2>4 DEF a, Iterates
<1>2. G = Body(G)
  <2>1. ASSUME NEW n \in 0..MaxCallbacks PROVE G[n] = Body(G)[n]
    <3>1. CASE n = 0
      BY <1>1, <3>1
    <3>2. CASE n # 0
      <4>1. n \in 1..MaxCallbacks /\ n - 1 \in 0..MaxCallbacks
        BY <1>0, <3>2
      <4>2. G[n - 1] \in T
        BY <4>1
      <4> QED BY <1>1, <3>2, <4>1, <4>2
    <3> QED BY <3>1, <3>2
  <2>2. Body(G) = [n \in 0..MaxCallbacks |-> Body(G)[n]]
    OBVIOUS
  <2>3. G = [n \in 0..MaxCallbacks |-> G[n]]
    OBVIOUS
  <2> HIDE DEF Body
  <2> QED BY <2>1, <2>2, <2>3
<1>3. from = Body(from)
  <2> HIDE DEF Body
  <2> QED BY <1>2
<1>4. Listed = from[MaxCallbacks] \ {0}
  BY DEF Listed
<1> HIDE DEF from
<1>5. Reaches(from, head, next)
  <2>1. from[0] = {head}
    BY <1>0, <1>3
  <2>2. ASSUME NEW n \in 1..MaxCallbacks PROVE from[n] = Step(next, from[n - 1])
    <3>1. n \in 0..MaxCallbacks /\ n # 0
      BY <1>0
    <3>2. from[n] = Body(from)[n]
      BY <1>3
    <3> HIDE DEF Body
    <3>3. Body(from)[n] = from[n - 1] \cup {next[c] : c \in from[n - 1] \ {0}}
      BY <3>1 DEF Body
    <3> QED BY <3>2, <3>3 DEF Step
  <2> QED BY <2>1, <2>2 DEF Reaches
<1> QED BY <1>4, <1>5

(* Nothing else is reached, since no pointer leads elsewhere ...            *)
LEMMA ReachesNoMore ==
    ASSUME NEW f, NEW h, NEW nx, NEW S, Reaches(f, h, nx), LinkedIn(h, nx, S)
    PROVE  \A d \in f[MaxCallbacks] \ {0} : d \in S
<1> DEFINE Q == {n \in Nat : n <= MaxCallbacks => f[n] \subseteq S \cup {0}}
<1>1. 0 \in Q
  BY DEF Reaches, LinkedIn, Youngest
<1>2. ASSUME NEW n \in Nat, n \in Q PROVE n + 1 \in Q
  <2> SUFFICES ASSUME n + 1 <= MaxCallbacks PROVE f[n + 1] \subseteq S \cup {0}
    OBVIOUS
  <2>1. n + 1 \in 1..MaxCallbacks /\ (n + 1) - 1 = n /\ n <= MaxCallbacks
    BY BoundsAssumption
  <2>2. f[n + 1] = Step(nx, f[n]) /\ f[n] \subseteq S \cup {0}
    BY <1>2, <2>1 DEF Reaches
  <2>3. \A c \in S : nx[c] \in S \cup {0}
    BY DEF LinkedIn, Youngest, Below
  <2> QED BY <2>2, <2>3 DEF Step
<1> HIDE DEF Q
<1>3. MaxCallbacks \in Q
  BY <1>1, <1>2, NatIsInductive, BoundsAssumption
<1> QED BY <1>3, BoundsAssumption DEF Q

(* ... and every step reaches the next one in the order of age.             *)
LEMMA ReachesAll ==
    ASSUME NEW f, NEW h, NEW nx, NEW S \in SUBSET Callbacks,
           Reaches(f, h, nx), LinkedIn(h, nx, S)
    PROVE  \A d \in S : d \in f[MaxCallbacks]
<1> DEFINE M == MaxCallbacks
           Q == {n \in Nat : n <= M =>
                    h \in f[n] /\ \A d \in S : d >= M - n => d \in f[n]}
<1>0. M \in Nat /\ \A d \in S : d \in Nat /\ 0 < d /\ d <= M
  BY BoundsAssumption DEF Callbacks
<1>1. h \in S \cup {0} /\ (\A d \in S : d <= h)
      /\ \A c \in S : nx[c] \in Below(S, c) \cup {0} /\ \A d \in Below(S, c) : d <= nx[c]
  BY DEF LinkedIn, Youngest
<1>2. 0 \in Q
  <2>1. f[0] = {h}
    BY DEF Reaches
  <2>2. \A d \in S : d >= M - 0 => d = h
    BY <1>0, <1>1
  <2> QED BY <2>1, <2>2
<1>3. ASSUME NEW n \in Nat, n \in Q PROVE n + 1 \in Q
  <2> SUFFICES ASSUME n + 1 <= M
               PROVE  h \in f[n + 1] /\ \A d \in S : d >= M - (n + 1) => d \in f[n + 1]
    OBVIOUS
  <2>1. n + 1 \in 1..M /\ (n + 1) - 1 = n /\ n <= M
    BY <1>0
  <2>2. f[n + 1] = f[n] \cup {nx[c] : c \in f[n] \ {0}}
    BY <2>1 DEF Reaches, Step
  <2>3. h \in f[n] /\ \A d \in S : d >= M - n => d \in f[n]
    BY <1>3, <2>1
  <2>4. ASSUME NEW d \in S, d >= M - (n + 1) PROVE d \in f[n + 1]
    <3>1. CASE d >= M - n \/ d = h
      BY <2>2, <2>3, <3>1
    <3>2. CASE ~ (d >= M - n) /\ d # h
      <4> DEFINE E == {e \in S : e > d}
      <4>1. h \in E
        BY <1>0, <1>1, <3>2
      <4>2. E \in SUBSET Nat /\ E # {}
        BY <1>0, <4>1
      <4>3. PICK e \in E : \A x \in E : e <= x
        BY <4>2, LeastElement
      <4>4. e \in S /\ e > d /\ e \in Nat /\ e # 0 /\ e >= M - n
        BY <1>0, <2>1, <2>4, <4>3
      <4>5. d \in Below(S, e)
        BY <4>4 DEF Below
      <4>6. nx[e] \in S /\ nx[e] < e /\ d <= nx[e]
        BY <1>0, <1>1, <4>4, <4>5 DEF Below
      <4>7. ~ (nx[e] > d)
        <5> SUFFICES ASSUME nx[e] > d PROVE FALSE
          OBVIOUS
        <5>1. nx[e] \in E
          BY <4>6
        <5>2. e <= nx[e]
          BY <4>3, <5>1
        <5>3. nx[e] \in Nat
          BY <1>0, <4>6
        <5> QED BY <4>4, <4>6, <5>2, <5>3
      <4>8. nx[e] = d
        BY <1>0, <4>6, <4>7
      <4> QED BY <2>2, <2>3, <4>4, <4>8
    <3> QED BY <3>1, <3>2
  <2> QED BY <2>2, <2>3, <2>4
<1> HIDE DEF Q
<1>4. M \in Q
  BY <1>0, <1>2, <1>3, NatIsInductive
<1> QED BY <1>0, <1>4 DEF Q

LEMMA ListedIsSignal ==
    ASSUME TypeOK, Linked
    PROVE  Listed = OfSignal
<1>1. PICK f : Reaches(f, head, next) /\ Listed = f[MaxCallbacks] \ {0}
  BY ListedReaches
<1>2. LinkedIn(head, next, OfSignal) /\ OfSignal \in SUBSET Callbacks /\ 0 \notin Callbacks
  BY ListAsIn, SignalOf, NumbersOf
<1>3. \A d \in f[MaxCallbacks] \ {0} : d \in OfSignal
  BY <1>1, <1>2, ReachesNoMore
<1>4. \A d \in OfSignal : d \in f[MaxCallbacks]
  BY <1>1, <1>2, ReachesAll
<1> QED BY <1>1, <1>2, <1>3, <1>4
-----------------------------------------------------------------------------
(* The invariant holds from the start, and every step keeps it.             *)
LEMMA InitIInv ==
    ASSUME Init
    PROVE  IInv
<1>1. /\ calls = <<>> /\ DOMAIN calls = {} /\ Len(calls) = 0
      /\ \A c \in Callbacks : mem[c] = "unused" /\ next[c] = 0
      /\ head = 0 /\ events = {} /\ \A p \in Phases : lists[p] = <<>>
  BY DEF Init
<1>2. TypeOK
  <2>1. 0 \in 0..MaxCallbacks
    BY BoundsAssumption
  <2>2. <<>> \in Seq(CallStates) /\ <<>> \in Seq(Callbacks)
    OBVIOUS
  <2>3. lists \in [Phases -> Seq(Callbacks)]
    BY <2>2 DEF Init
  <2>4. next \in [Callbacks -> 0..MaxCallbacks] /\ head \in 0..MaxCallbacks
    BY <2>1 DEF Init
  <2>5. /\ stage \in {"elaboration", "compiled", "running", "done"} /\ mode \in Modes
        /\ reason \in [Callbacks -> Reasons] /\ events \subseteq Callbacks
        /\ mem \in [Callbacks -> {"unused", "live", "removed", "deleted"}]
        /\ mode = "NONE"
    BY DEF Init, Modes, Reasons
  <2> QED BY <1>1, <2>2, <2>3, <2>4, <2>5 DEF TypeOK
<1>3. Nested /\ ModesSaved
  BY <1>1 DEF Nested, ModesSaved
<1>4. Places
  <2>1. IsInjective(<<>>) /\ ToSet(<<>>) = {}
    BY DEF IsInjective, ToSet
  <2> QED BY <1>1, <2>1 DEF Places, Known
<1>5. InOrderOfAge /\ Pointers
  BY <1>1 DEF InOrderOfAge, Pointers, ValueChanges
<1>6. OfSignal = {} /\ Walks = {}
  BY <1>1 DEF OfSignal, Known, Walks
<1>7. Linked
  BY <1>1, <1>6 DEF Linked, Youngest
<1>8. AloneWithRemoved /\ \A i \in Walks : Walking(calls[i])
  BY <1>6 DEF AloneWithRemoved
<1> QED BY <1>2, <1>3, <1>4, <1>5, <1>7, <1>8 DEF IInv

LEMMA NextIInv ==
    ASSUME IInv, Next
    PROVE  IInv'
<1>1. TypeOK /\ Nested /\ ModesSaved /\ Places /\ InOrderOfAge /\ Pointers
  BY DEF IInv
<1>2. TypeOK' /\ Nested' /\ ModesSaved' /\ Places' /\ InOrderOfAge' /\ Pointers'
  BY <1>1, TypeStep, PlacesStep, AgeStep, PointersStep
<1>3. ASSUME ~ NestedReap
      PROVE  Linked' /\ AloneWithRemoved' /\ (\A i \in Walks : Walking(calls[i]))'
  <2>1. Linked /\ AloneWithRemoved /\ TopWalks
    BY <1>3 DEF IInv, TopWalks
  <2> QED BY <1>1, <1>3, <2>1, LinkedStep, AloneStep, WalkingStep
<1> QED BY <1>2, <1>3 DEF IInv

LEMMA IdleIInv ==
    ASSUME IInv, UNCHANGED vars
    PROVE  IInv'
<1>1. /\ stage' = stage /\ reason' = reason /\ mem' = mem /\ next' = next
      /\ head' = head /\ lists' = lists /\ events' = events /\ mode' = mode
      /\ calls' = calls
  BY DEF vars, heap
<1>2. TypeOK' /\ Nested' /\ ModesSaved'
  BY <1>1 DEF IInv, TypeOK, Nested, ModesSaved, Outside, InCall, Call, RightMode
<1>3. Places' /\ InOrderOfAge' /\ Pointers'
  BY <1>1 DEF IInv, Places, Known, Executing, InOrderOfAge, Pointers, ValueChanges
<1>4. OfSignal' = OfSignal /\ ValueChanges' = ValueChanges /\ Walks' = Walks
      /\ With("removed")' = With("removed")
  BY <1>1 DEF OfSignal, ValueChanges, Walks, With, Known
<1>5. Linked <=> Linked'
  BY <1>1, <1>4, ListAsIn, InToList
<1>6. (\A i \in Walks : Walking(calls[i])) => (\A i \in Walks : Walking(calls[i]))'
  BY <1>1, <1>4, ListAsIn, InToList
<1>7. AloneWithRemoved => AloneWithRemoved'
  BY <1>4 DEF AloneWithRemoved
<1> QED BY <1>2, <1>3, <1>5, <1>6, <1>7 DEF IInv

(* The invariant holds in every reachable state.  What it says of the list  *)
(* and of the walks over it, it says of clients that do not remove          *)
(* call-backs inside nested walks (~ NestedReap): vpi_callback.cc:695-733   *)
(* keeps the previous call-back in a local variable, which such a client    *)
(* can make point to deleted memory.                                       *)
THEOREM Invariance == Spec => []IInv
<1>1. Init => IInv
  BY InitIInv
<1>2. IInv /\ [Next]_vars => IInv'
  BY NextIInv, IdleIInv
<1> QED BY <1>1, <1>2, PTL DEF Spec

(* A function of the client sees the mode of the call that runs it, for     *)
(* every nesting of calls (vpi_callback.cc:318-325, 444-457, 612-635).      *)
THEOREM ModesRight == Spec => []ModeRight
<1>1. IInv => ModeRight
  <2> SUFFICES ASSUME IInv, ClientRuns PROVE RightMode(Call, mode)
    BY DEF ModeRight
  <2>1. calls # <<>> /\ Call.user
    BY DEF ClientRuns
  <2>2. ~ InCall("walk", FALSE)
    BY <2>1 DEF InCall
  <2> QED BY <2>1, <2>2 DEF IInv, ModesSaved
<1> QED BY <1>1, Invariance, PTL

(* A walk calls every call-back that was there when it began and still is,   *)
(* and deletes every one that had been removed, whatever the functions it   *)
(* calls register, remove and change (vpi_callback.cc:695-733).             *)
THEOREM WalksComplete == ASSUME ~ NestedReap PROVE Spec => []WalkComplete
<1>1. IInv => WalkComplete
  <2> SUFFICES ASSUME IInv, InCall("walk", FALSE), Call.next = 0
               PROVE  /\ \A c \in Call.call : mem[c] # "live"
                      /\ \A c \in Call.delete : mem[c] = "deleted"
    BY DEF WalkComplete
  <2>1. Walking(Call)
    BY TopWalking DEF IInv, InCall, TopWalks
  <2>2. /\ Call.call \cup Call.delete \subseteq ValueChanges \ {0}
        /\ \A c \in Call.call : mem[c] = "live" => c <= 0
        /\ \A c \in Call.delete : mem[c] = "deleted" \/ (mem[c] = "removed" /\ c <= 0)
    BY <2>1 DEF Walking
  <2>3. \A c \in ValueChanges \ {0} : c > 0 /\ c \in Nat
    BY NumbersOf DEF ValueChanges
  <2>4. \A c \in Call.call : mem[c] # "live"
    BY <2>2, <2>3
  <2>5. \A c \in Call.delete : mem[c] = "deleted"
    BY <2>2, <2>3
  <2> QED BY <2>4, <2>5
<1> QED BY <1>1, Invariance, PTL

(* Until it is deleted, every call-back is in the list or has the event that *)
(* will find it, or is being called.                                        *)
THEOREM NothingLost == ASSUME ~ NestedReap PROVE Spec => []NoneLost
<1>1. IInv => NoneLost
  <2> SUFFICES ASSUME IInv PROVE NoneLost
    OBVIOUS
  <2>1. TypeOK /\ Places /\ Listed = OfSignal
    BY ListedIsSignal DEF IInv
  <2>2. ASSUME NEW c \in Callbacks, Known(c)
        PROVE  CASE reason[c] = "ValueChange" -> c \in Listed
                 [] reason[c] \in Phases -> c \in ToSet(lists[reason[c]]) <=> c \notin Executing
                 [] OTHER -> c \in events <=> c \notin Executing
    <3>1. reason[c] \in Reasons
      BY <2>1 DEF TypeOK
    <3>2. CASE reason[c] = "ValueChange"
      <4>1. reason[c] \notin Phases
        BY <3>2 DEF Phases
      <4> QED BY <2>1, <2>2, <3>2, <4>1 DEF OfSignal
    <3>3. CASE reason[c] \in Phases
      <4>1. reason[c] # "ValueChange"
        BY <3>3 DEF Phases
      <4> QED BY <2>1, <2>2, <3>3, <4>1 DEF Places
    <3>4. CASE reason[c] \in Syncs
      <4>1. reason[c] # "ValueChange" /\ reason[c] \notin Phases
        BY <3>4 DEF Phases, Syncs
      <4> QED BY <2>1, <2>2, <3>4, <4>1 DEF Places
    <3> QED BY <3>1, <3>2, <3>3, <3>4 DEF Reasons
  <2> QED BY <2>1, <2>2 DEF NoneLost, Known
<1> QED BY <1>1, Invariance, PTL

(* Nothing that a walk, a phase or a synch call goes on to use, and nothing  *)
(* in a list, has been deleted meanwhile, and no null function is called,   *)
(* when no call-back of the simulator is removed before it is called.       *)
THEOREM NothingDangles ==
    ASSUME ~ NestedReap, ~ RemoveSimulator
    PROVE  Spec => []NoDangling
<1>1. IInv => NoDangling
  <2> SUFFICES ASSUME IInv PROVE NoDangling
    OBVIOUS
  <2>1. TypeOK /\ Places /\ Listed = OfSignal /\ \A i \in Walks : Walking(calls[i])
    BY ListedIsSignal DEF IInv
  <2>2. \A c \in OfSignal : Known(c)
    BY DEF OfSignal
  <2>3. ASSUME NEW i \in DOMAIN calls, NEW c \in Used(calls[i]), c # 0
        PROVE  Known(c)
    <3>1. calls[i].op \in {"walk", "phase", "sync", "task"}
      BY <2>1, CallKinds DEF TypeOK
    <3>2. CASE calls[i].op = "walk"
      <4>1. Walking(calls[i])
        BY <2>1, <3>2 DEF Walks
      <4>2. c = calls[i].next \/ c = calls[i].prev \/ (calls[i].user /\ c = calls[i].cur)
        BY <2>3, <3>2 DEF Used
      <4>3. c \in OfSignal
        BY <2>3, <4>1, <4>2 DEF Walking
      <4> QED BY <2>2, <4>3
    <3>3. CASE calls[i].op = "phase"
      <4>1. c = calls[i].cur
        BY <2>3, <3>3 DEF Used
      <4> QED BY <2>1, <2>3, <3>3, <4>1 DEF Places
    <3>4. CASE calls[i].op = "sync"
      <4>1. c = calls[i].cur
        BY <2>3, <3>4 DEF Used
      <4> QED BY <2>1, <2>3, <3>4, <4>1 DEF Places
    <3>5. CASE calls[i].op = "task"
      BY <2>3, <3>5 DEF Used
    <3> QED BY <3>1, <3>2, <3>3, <3>4, <3>5
  <2>4. \A c \in Listed \cup events : Known(c)
    BY <2>1, <2>2 DEF Places
  <2>5. \A p \in Phases : \A c \in ToSet(lists[p]) : Known(c)
    BY <2>1 DEF Places
  <2>6. \A i \in DOMAIN calls : calls[i].op = "phase" => ~ calls[i].null
    BY <2>1 DEF Places
  <2> QED BY <2>3, <2>4, <2>5, <2>6 DEF NoDangling, Known
<1> QED BY <1>1, Invariance, PTL
=============================================================================
