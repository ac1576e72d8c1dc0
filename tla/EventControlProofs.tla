------------------------- MODULE EventControlProofs -------------------------
(***************************************************************************)
(* Proofs about events: the invariant of the nested calls, and that pending *)
(* assignments are kept and made in order, that threads are woken and that *)
(* every functor sees the latest value.                                    *)
(***************************************************************************)
EXTENDS EventControl, Lemmas

-----------------------------------------------------------------------------
(***************************************************************************)
(* Sequences.                                                              *)
(***************************************************************************)

(* cs is n elements on top of t. *)
OnTop(S, cs, n, t) ==
    /\ cs \in Seq(S) /\ t \in Seq(S)
    /\ Len(cs) = n + Len(t)
    /\ \A k \in 1..Len(t) : cs[n + k] = t[k]

LEMMA ConsOnTop ==
    ASSUME NEW S, NEW x \in S, NEW n \in Nat, NEW cs, NEW t, OnTop(S, cs, n, t)
    PROVE  /\ OnTop(S, <<x>> \o cs, n + 1, t) /\ (<<x>> \o cs)[1] = x
           /\ \A k \in 1..Len(cs) : (<<x>> \o cs)[k + 1] = cs[k]
<1> DEFINE r == <<x>> \o cs
<1>1. cs \in Seq(S) /\ t \in Seq(S) /\ <<x>> \in Seq(S) /\ Len(<<x>>) = 1 /\ <<x>>[1] = x
  BY DEF OnTop
<1>2. r \in Seq(S) /\ Len(r) = 1 + Len(cs) /\ r[1] = x /\ \A k \in 1..Len(cs) : r[k + 1] = cs[k]
  BY <1>1
<1>3. Len(t) \in Nat /\ Len(cs) \in Nat /\ Len(cs) = n + Len(t)
  BY <1>1 DEF OnTop
<1>4. ASSUME NEW k \in 1..Len(t) PROVE r[(n + 1) + k] = t[k]
  <2>1. n + k \in 1..Len(cs) /\ (n + k) + 1 = (n + 1) + k
    BY <1>3
  <2>2. cs[n + k] = t[k]
    BY DEF OnTop
  <2> QED BY <1>2, <2>1, <2>2
<1> HIDE DEF r
<1> QED BY <1>1, <1>2, <1>3, <1>4 DEF OnTop, r

LEMMA SelfOnTop ==
    ASSUME NEW S, NEW t \in Seq(S)
    PROVE  OnTop(S, t, 0, t)
BY DEF OnTop

LEMMA TailOnTop ==
    ASSUME NEW S, NEW cs \in Seq(S), cs # <<>>
    PROVE  OnTop(S, cs, 1, Tail(cs)) /\ Head(cs) = cs[1] /\ cs[1] \in S /\ 1 \in DOMAIN cs
<1>1. Len(cs) \in Nat /\ Len(cs) >= 1 /\ DOMAIN cs = 1..Len(cs)
  OBVIOUS
<1>2. Tail(cs) \in Seq(S) /\ Len(Tail(cs)) = Len(cs) - 1
  BY <1>1
<1>3. \A k \in 1..Len(Tail(cs)) : Tail(cs)[k] = cs[k + 1]
  BY <1>1, <1>2
<1> QED BY <1>1, <1>2, <1>3 DEF OnTop

LEMMA PushOnTop ==
    ASSUME NEW S, NEW x \in S, NEW t \in Seq(S)
    PROVE  OnTop(S, <<x>> \o t, 1, t) /\ (<<x>> \o t)[1] = x
<1>1. OnTop(S, t, 0, t) /\ 0 + 1 = 1 /\ 0 \in Nat
  BY SelfOnTop
<1>2. OnTop(S, <<x>> \o t, 0 + 1, t) /\ (<<x>> \o t)[1] = x
  BY <1>1, ConsOnTop
<1> QED BY <1>1, <1>2

-----------------------------------------------------------------------------
(***************************************************************************)
(* Types, and the calls.                                                   *)
(***************************************************************************)


LEMMA Constants ==
    /\ Signals \cap Events = {} /\ Nets = Signals \cup Events
    /\ Inputs \in [Events -> SUBSET Nets]
    /\ Kind \in [Events -> {"posedge", "negedge", "edge", "named", "or"}]
    /\ Values \subseteq Bit4 /\ MaxControls \in Nat /\ MaxCount \in Nat
    /\ Controlled \subseteq Events /\ Awaited \subseteq Events
BY InstanceAssumption DEF Nets

LEMMA SendCall ==
    ASSUME NEW n \in Nets, NEW at \in Nat \ {0}
    PROVE  /\ [op |-> "send", net |-> n, at |-> at] \in CallSet
           /\ [op |-> "run", net |-> n, at |-> at] \in CallSet
           /\ [op |-> "ran", net |-> n, at |-> at] \in CallSet
BY DEF CallSet

(* What SendFrom puts on top of the calls t. *)
Sent(cs, n, at, t) ==
    IF at > Len(fanout[n]) THEN cs = t
    ELSE OnTop(CallSet, cs, 1, t) /\ cs[1] = [op |-> "send", net |-> n, at |-> at]

LEMMA SendOnTop ==
    ASSUME NEW n \in Nets, NEW at \in Nat \ {0}, NEW t \in Seq(CallSet)
    PROVE  SendFrom(n, at) \o t \in Seq(CallSet) /\ Sent(SendFrom(n, at) \o t, n, at, t)
<1>1. CASE at > Len(fanout[n])
  <2>1. SendFrom(n, at) = <<>>
    BY <1>1 DEF SendFrom
  <2>2. <<>> \o t = t
    OBVIOUS
  <2> QED BY <1>1, <2>1, <2>2 DEF Sent
<1>2. CASE ~ (at > Len(fanout[n]))
  <2> DEFINE f == [op |-> "send", net |-> n, at |-> at]
  <2>1. f \in CallSet
    BY SendCall
  <2>2. SendFrom(n, at) = <<f>>
    BY <1>2 DEF SendFrom
  <2> HIDE DEF f
  <2>3. OnTop(CallSet, <<f>> \o t, 0 + 1, t) /\ (<<f>> \o t)[1] = f
    BY <2>1, SelfOnTop, ConsOnTop
  <2>4. OnTop(CallSet, <<f>> \o t, 1, t) /\ <<f>> \o t \in Seq(CallSet)
    BY <2>3 DEF OnTop
  <2>5. Sent(<<f>> \o t, n, at, t)
    BY <1>2, <2>3, <2>4 DEF Sent, f
  <2> QED BY <2>2, <2>4, <2>5
<1> QED BY <1>1, <1>2

(* The innermost call. *)
LEMMA TheCall ==
    ASSUME EventTypes, NetlistOK, CallsOK, calls # <<>>
    PROVE  /\ OnTop(CallSet, calls, 1, Tail(calls)) /\ Tail(calls) \in Seq(CallSet)
           /\ Call = calls[1] /\ 1 \in DOMAIN calls
           /\ Call = [op |-> Call.op, net |-> Call.net, at |-> Call.at]
           /\ Call.op \in {"send", "run", "ran"} /\ Call.net \in Nets /\ Call.at \in Nat \ {0}
           /\ Call.op = "send" => /\ Call.at \in DOMAIN fanout[Call.net]
                                  /\ fanout[Call.net][Call.at] \in Events
                                  /\ Call.net \in Inputs[fanout[Call.net][Call.at]]
           /\ Call.op # "send" => Call.net \in Events
<1>1. calls \in Seq(CallSet)
  BY DEF EventTypes
<1>2. OnTop(CallSet, calls, 1, Tail(calls)) /\ Call = calls[1] /\ calls[1] \in CallSet /\ 1 \in DOMAIN calls
  BY <1>1, TailOnTop DEF Call
<1>3. Tail(calls) \in Seq(CallSet)
  BY <1>2 DEF OnTop
<1>4. /\ Call = [op |-> Call.op, net |-> Call.net, at |-> Call.at]
      /\ Call.op \in {"send", "run", "ran"} /\ Call.net \in Nets /\ Call.at \in Nat \ {0}
  BY <1>2 DEF CallSet
<1>5. ASSUME Call.op = "send"
      PROVE  /\ Call.at \in DOMAIN fanout[Call.net]
             /\ fanout[Call.net][Call.at] \in Events
             /\ Call.net \in Inputs[fanout[Call.net][Call.at]]
  <2>1. fanout[Call.net] \in Seq(Events)
    BY <1>4 DEF NetlistOK
  <2>2. Call.at <= Len(fanout[Call.net])
    BY <1>2, <1>5 DEF CallsOK
  <2>3. Call.at \in DOMAIN fanout[Call.net]
    BY <1>4, <2>1, <2>2
  <2> QED BY <1>4, <2>1, <2>3 DEF NetlistOK
<1>6. Call.op # "send" => Call.net \in Events
  BY <1>2 DEF CallsOK
<1> QED BY <1>2, <1>3, <1>4, <1>5, <1>6

(***************************************************************************)
(* Which call runs the controls of an event.                               *)
(***************************************************************************)
Quiet(cs, n, e) == \A k \in 1..n : ~InControls(cs[k], e)

(* The calls above t do not run controls of e.                             *)
LEMMA SameControls ==
    ASSUME NEW c, NEW d, NEW t, NEW h \in Nat, NEW p \in Nat, NEW e,
           OnTop(CallSet, c, h, t), OnTop(CallSet, d, p, t), Quiet(c, h, e), Quiet(d, p, e)
    PROVE  /\ Without(d, e) => Without(c, e)
           /\ \A k \in DOMAIN d : Innermost(d, e, k) =>
                 \E m \in DOMAIN c : Innermost(c, e, m) /\ c[m] = d[k] /\ (Only(c, e, m) <=> Only(d, e, k))
<1>1. /\ Len(t) \in Nat /\ Len(c) = h + Len(t) /\ Len(d) = p + Len(t)
      /\ DOMAIN c = 1..Len(c) /\ DOMAIN d = 1..Len(d)
      /\ \A k \in 1..Len(t) : c[h + k] = d[p + k]
  BY DEF OnTop
<1>2. ASSUME NEW k \in DOMAIN c, k > h PROVE k - h + p \in DOMAIN d /\ k - h + p > p /\ c[k] = d[k - h + p]
  <2>1. k - h \in 1..Len(t) /\ h + (k - h) = k /\ p + (k - h) = k - h + p
    BY <1>1, <1>2
  <2>2. c[h + (k - h)] = d[p + (k - h)]
    BY <1>1, <2>1
  <2>3. k - h + p \in 1..Len(d) /\ k - h + p > p
    BY <1>1, <2>1
  <2> QED BY <1>1, <2>1, <2>2, <2>3
<1>3. ASSUME NEW k \in DOMAIN d, k > p PROVE k - p + h \in DOMAIN c /\ k - p + h > h /\ d[k] = c[k - p + h]
  <2>1. k - p \in 1..Len(t) /\ p + (k - p) = k /\ h + (k - p) = k - p + h
    BY <1>1, <1>3
  <2>2. c[h + (k - p)] = d[p + (k - p)]
    BY <1>1, <2>1
  <2>3. k - p + h \in 1..Len(c) /\ k - p + h > h
    BY <1>1, <2>1
  <2> QED BY <1>1, <2>1, <2>2, <2>3
<1>4. ASSUME Without(d, e) PROVE Without(c, e)
  <2>1. SUFFICES ASSUME NEW k \in DOMAIN c PROVE ~InControls(c[k], e)
    BY DEF Without
  <2>2. CASE k <= h
    BY <1>1, <2>2 DEF Quiet
  <2>3. CASE k > h
    BY <1>2, <1>4, <2>3 DEF Without
  <2> QED BY <1>1, <2>2, <2>3
<1>5. ASSUME NEW k \in DOMAIN d, Innermost(d, e, k)
      PROVE  \E m \in DOMAIN c : Innermost(c, e, m) /\ c[m] = d[k] /\ (Only(c, e, m) <=> Only(d, e, k))
  <2>1. k > p
    BY <1>1, <1>5 DEF Innermost, Quiet
  <2> DEFINE m == k - p + h
  <2>2. m \in DOMAIN c /\ m > h /\ d[k] = c[m] /\ m \in Nat /\ k \in Nat
    BY <1>1, <1>3, <2>1
  <2>3. ASSUME NEW l \in 1..(m - 1) PROVE ~InControls(c[l], e)
    <3>1. CASE l <= h
      BY <3>1 DEF Quiet
    <3>2. CASE l > h
      <4>1. l \in DOMAIN c /\ l - h + p \in 1..(k - 1)
        BY <1>1, <2>1, <2>2, <3>2
      <4> QED BY <1>2, <1>5, <3>2, <4>1 DEF Innermost
    <3> QED BY <3>1, <3>2
  <2>4. ASSUME Only(d, e, k), NEW l \in (m + 1)..Len(c) PROVE ~InControls(c[l], e)
    <3>1. l \in DOMAIN c /\ l > h /\ l - h + p \in (k + 1)..Len(d)
      BY <1>1, <2>1, <2>2
    <3> QED BY <1>2, <2>4, <3>1 DEF Only
  <2>5. ASSUME Only(c, e, m), NEW l \in (k + 1)..Len(d) PROVE ~InControls(d[l], e)
    <3>1. l \in DOMAIN d /\ l > p /\ l - p + h \in (m + 1)..Len(c)
      BY <1>1, <2>1, <2>2
    <3> QED BY <1>3, <2>5, <3>1 DEF Only
  <2>6. Innermost(c, e, m)
    BY <1>5, <2>2, <2>3 DEF Innermost
  <2>7. Only(c, e, m) <=> Only(d, e, k)
    BY <2>4, <2>5 DEF Only
  <2> HIDE DEF m
  <2> QED BY <2>2, <2>6, <2>7
<1> QED BY <1>4, <1>5

(* The last of the calls on top of t runs controls of e, as the innermost. *)
LEMMA TopControls ==
    ASSUME NEW c, NEW t, NEW p \in Nat \ {0}, NEW e,
           OnTop(CallSet, c, p, t), InControls(c[p], e), Quiet(c, p - 1, e)
    PROVE  /\ p \in DOMAIN c /\ Innermost(c, e, p) /\ (Only(c, e, p) <=> Without(t, e))
           /\ ~Without(c, e)
           /\ \A k \in DOMAIN c : Innermost(c, e, k) => k = p
<1>1. /\ Len(t) \in Nat /\ Len(c) = p + Len(t) /\ DOMAIN c = 1..Len(c) /\ DOMAIN t = 1..Len(t)
      /\ \A k \in 1..Len(t) : c[p + k] = t[k]
  BY DEF OnTop
<1>2. p \in DOMAIN c
  BY <1>1
<1>3. Innermost(c, e, p)
  BY DEF Innermost, Quiet
<1>4. ASSUME Only(c, e, p) PROVE Without(t, e)
  <2>1. SUFFICES ASSUME NEW k \in 1..Len(t) PROVE ~InControls(t[k], e)
    BY <1>1 DEF Without
  <2>2. p + k \in (p + 1)..Len(c)
    BY <1>1
  <2> QED BY <1>1, <1>4, <2>2 DEF Only
<1>5. ASSUME Without(t, e) PROVE Only(c, e, p)
  <2>1. SUFFICES ASSUME NEW k \in (p + 1)..Len(c) PROVE ~InControls(c[k], e)
    BY DEF Only
  <2>2. k - p \in 1..Len(t) /\ p + (k - p) = k
    BY <1>1
  <2>3. c[k] = t[k - p]
    BY <1>1, <2>2
  <2> QED BY <1>1, <1>5, <2>2, <2>3 DEF Without
<1>6. ASSUME NEW k \in DOMAIN c, Innermost(c, e, k) PROVE k = p
  <2>1. k >= p
    BY <1>1, <1>6 DEF Innermost, Quiet
  <2>2. ~(p \in 1..(k - 1))
    BY <1>6 DEF Innermost
  <2> QED BY <1>1, <2>1, <2>2
<1> QED BY <1>2, <1>3, <1>4, <1>5, <1>6 DEF Without

(* If controls of e are run at all, one call is the innermost that does.   *)
LEMMA InnermostExists ==
    ASSUME NEW c \in Seq(CallSet), NEW e, ~Without(c, e)
    PROVE  \E k \in DOMAIN c : Innermost(c, e, k)
<1> DEFINE T == {k \in DOMAIN c : InControls(c[k], e)}
<1>1. DOMAIN c = 1..Len(c) /\ Len(c) \in Nat
  OBVIOUS
<1>2. T \in SUBSET Nat /\ T # {}
  BY <1>1 DEF Without
<1>3. PICK k \in T : \A m \in T : k <= m
  <2> HIDE DEF T
  <2> QED BY <1>2, LeastElement
<1>4. ASSUME NEW l \in 1..(k - 1) PROVE ~InControls(c[l], e)
  BY <1>1, <1>3
<1> QED BY <1>3, <1>4 DEF Innermost

-----------------------------------------------------------------------------
(***************************************************************************)
(* A step that replaces the h innermost calls by p others.                 *)
(***************************************************************************)
Moved(h, p, t) ==
    /\ h \in {0, 1} /\ p \in Nat /\ (h = 0 => t = <<>>)
    /\ OnTop(CallSet, calls, h, t) /\ OnTop(CallSet, calls', p, t)

CallOK(f, k) ==
    /\ f.op = "send" => f.at <= Len(fanout[f.net])
    /\ f.op # "send" => f.net \in Events
    /\ f.op = "run" => k = 1

LEMMA CallsMove ==
    ASSUME CallsOK, NEW h, NEW p, NEW t, Moved(h, p, t), UNCHANGED fanout,
           \A k \in 1..p : CallOK(calls'[k], k)
    PROVE  CallsOK'
<1>1. /\ h \in {0, 1} /\ p \in Nat /\ Len(t) \in Nat /\ DOMAIN calls' = 1..Len(calls')
      /\ DOMAIN calls = 1..Len(calls) /\ Len(calls) = h + Len(t) /\ Len(calls') = p + Len(t)
      /\ \A k \in 1..Len(t) : calls[h + k] = t[k] /\ calls'[p + k] = t[k]
      /\ h = 0 => Len(t) = 0
  BY DEF Moved, OnTop
<1>2. ASSUME NEW k \in 1..Len(calls') PROVE CallOK(calls'[k], k)
  <2>1. CASE k <= p
    BY <1>1, <2>1
  <2>2. CASE k > p
    <3>1. k - p \in 1..Len(t) /\ p + (k - p) = k /\ h + (k - p) \in 1..Len(calls)
      BY <1>1, <2>2
    <3>2. calls'[k] = calls[h + (k - p)]
      BY <1>1, <3>1
    <3>3. h + (k - p) # 1
      BY <1>1, <3>1
    <3>4. /\ calls'[k].op = "send" => calls'[k].at <= Len(fanout[calls'[k].net])
          /\ calls'[k].op # "send" => calls'[k].net \in Events
          /\ calls'[k].op = "run" => h + (k - p) = 1
      BY <1>1, <3>1, <3>2 DEF CallsOK
    <3> QED BY <3>3, <3>4 DEF CallOK
  <2> QED BY <1>1, <2>1, <2>2
<1> QED BY <1>1, <1>2 DEF CallsOK, CallOK

LEMMA NetlistKeeps ==
    ASSUME NetlistOK, UNCHANGED netlist, calls' # <<>> => (calls # <<>> \/ compiled = Events)
    PROVE  NetlistOK'
BY DEF NetlistOK, netlist


(* What ControlsOK says of a call, after the step.                         *)
LEMMA DoingNext ==
    ASSUME NEW e, NEW k, NEW f, f = calls'[k]
    PROVE  /\ Doing(e, f)' <=> Doing(e, calls[k])'
           /\ Alone(e, f)' <=> Alone(e, calls[k])'
           /\ Blocked(e, f)' <=> Blocked(e, calls[k])'
<1>1. Doing(e, f)' <=> Doing(e, calls[k])'
  BY DEF Doing, Running, Assigning, Passed, Ahead, AllWait
<1>2. Alone(e, f)' <=> Alone(e, calls[k])'
  BY DEF Alone, AllWait
<1>3. Blocked(e, f)' <=> Blocked(e, calls[k])'
  BY DEF Blocked
<1> QED BY <1>1, <1>2, <1>3

LEMMA StillDoing ==
    ASSUME NEW e, NEW f, ctls'[e] = ctls[e], last'[e] = last[e], promised'[e] = promised[e]
    PROVE  /\ Doing(e, f) => Doing(e, f)'
           /\ Alone(e, f) => Alone(e, f)'
           /\ Blocked(e, f) => Blocked(e, f)'
<1>1. Running(e, f.at) => Running(e, f.at)'
  BY DEF Running, Passed, Ahead, AllWait
<1>2. Assigning(e, f.at) => Assigning(e, f.at)'
  BY DEF Assigning, Passed, Ahead, AllWait
<1>3. Alone(e, f) => Alone(e, f)'
  BY DEF Alone, AllWait
<1>4. Blocked(e, f) => Blocked(e, f)'
  BY DEF Blocked
<1> QED BY <1>1, <1>2, <1>3, <1>4 DEF Doing

(* The controls of an event that the step has nothing to do with.          *)
LEMMA ControlsElsewhere ==
    ASSUME NEW e \in Events, ControlsOK(e), NEW h, NEW p, NEW t, Moved(h, p, t),
           Quiet(calls, h, e), Quiet(calls', p, e),
           ctls'[e] = ctls[e], last'[e] = last[e], promised'[e] = promised[e]
    PROVE  ControlsOK(e)'
<1>1. h \in Nat /\ p \in Nat
  BY DEF Moved
<1>2. /\ Without(calls', e) => Without(calls, e)
      /\ \A k \in DOMAIN calls' : Innermost(calls', e, k) =>
            \E m \in DOMAIN calls : Innermost(calls, e, m) /\ calls[m] = calls'[k]
                                    /\ (Only(calls, e, m) <=> Only(calls', e, k))
  BY <1>1, SameControls DEF Moved
<1>3. Kept(e) => Kept(e)'
  BY DEF Kept
<1>4. ASSUME NEW k \in DOMAIN calls', Innermost(calls', e, k)
      PROVE  /\ Doing(e, calls[k])'
             /\ IF Only(calls', e, k) THEN Alone(e, calls[k])' ELSE Blocked(e, calls[k])'
  <2>1. PICK m \in DOMAIN calls : Innermost(calls, e, m) /\ calls[m] = calls'[k]
                                  /\ (Only(calls, e, m) <=> Only(calls', e, k))
    BY <1>2, <1>4
  <2>2. PICK f : f = calls[m]
    OBVIOUS
  <2>3. Doing(e, f) /\ IF Only(calls', e, k) THEN Alone(e, f) ELSE Blocked(e, f)
    BY <2>1, <2>2 DEF ControlsOK
  <2>4. f = calls'[k]
    BY <2>1, <2>2
  <2> QED BY <2>3, <2>4, DoingNext, StillDoing
<1>5. (Without(calls, e) => Kept(e)) => (Without(calls', e) => Kept(e)')
  BY <1>2, <1>3
<1> QED BY <1>4, <1>5 DEF ControlsOK

(* That of the event the step runs controls of: its call is the p-th.      *)
LEMMA ControlsHere ==
    ASSUME NEW e \in Events, NEW p \in Nat \ {0}, NEW t, NEW f,
           OnTop(CallSet, calls', p, t), f = calls'[p],
           InControls(f, e), Quiet(calls', p - 1, e),
           Doing(e, f)', IF Without(t, e) THEN Alone(e, f)' ELSE Blocked(e, f)'
    PROVE  ControlsOK(e)'
<1>2. /\ Innermost(calls', e, p) /\ (Only(calls', e, p) <=> Without(t, e))
      /\ ~Without(calls', e)
      /\ \A k \in DOMAIN calls' : Innermost(calls', e, k) => k = p
  BY TopControls
<1>3. /\ Doing(e, calls[p])'
      /\ IF Only(calls', e, p) THEN Alone(e, calls[p])' ELSE Blocked(e, calls[p])'
  BY <1>2, DoingNext
<1>4. ASSUME NEW k \in DOMAIN calls', Innermost(calls', e, k)
      PROVE  /\ Doing(e, calls[k])'
             /\ IF Only(calls', e, k) THEN Alone(e, calls[k])' ELSE Blocked(e, calls[k])'
  <2>1. k = p
    BY <1>2, <1>4
  <2> QED BY <1>3, <2>1
<1> QED BY <1>2, <1>4 DEF ControlsOK

-----------------------------------------------------------------------------
(***************************************************************************)
(* An event happens.                                                       *)
(***************************************************************************)
LEMMA OneLessFacts ==
    ASSUME NEW l \in Seq(Promise), NEW r, r = [i \in DOMAIN l |-> OneLess(l[i])]
    PROVE  /\ r \in Seq(Promise) /\ DOMAIN r = DOMAIN l /\ Len(r) = Len(l)
           /\ \A i \in DOMAIN l : r[i] = OneLess(l[i])
           /\ Distinct(l) => Distinct(r)
<1>1. DOMAIN l = 1..Len(l) /\ Len(l) \in Nat /\ \A i \in DOMAIN l : l[i] \in Promise
  OBVIOUS
<1>2. ASSUME NEW x \in Promise PROVE OneLess(x) \in Promise /\ OneLess(x).id = x.id
  <2>1. x = [id |-> x.id, left |-> x.left] /\ x.id \in Ids /\ x.left \in 0..MaxCount
    BY DEF Promise
  <2>2. x.left \in Nat /\ MaxCount \in Nat
    BY <2>1, Constants
  <2>3. (IF x.left > 0 THEN x.left - 1 ELSE 0) \in 0..MaxCount
    BY <2>1, <2>2
  <2>4. OneLess(x) = [id |-> x.id, left |-> IF x.left > 0 THEN x.left - 1 ELSE 0]
    BY <2>1 DEF OneLess
  <2> QED BY <2>1, <2>3, <2>4 DEF Promise
<1>3. DOMAIN r = 1..Len(l) /\ \A i \in DOMAIN l : r[i] = OneLess(l[i])
  BY <1>1
<1>4. \A i \in 1..Len(l) : r[i] \in Promise
  BY <1>1, <1>2, <1>3
<1>5. r \in [1..Len(l) -> Promise]
  BY <1>1, <1>3, <1>4
<1>6. r \in Seq(Promise) /\ Len(r) = Len(l)
  BY <1>1, <1>5
<1>7. Distinct(l) => Distinct(r)
  BY <1>1, <1>2, <1>3 DEF Distinct
<1> QED BY <1>1, <1>3, <1>6, <1>7

LEMMA OneLessOwing ==
    ASSUME NEW c \in Control, c.left > 0
    PROVE  OneLess(Owing(c)) = LessOwing(c)
BY DEF OneLess, Owing, LessOwing, Control

LEMMA HappensPromised ==
    ASSUME PromisesOK, NEW e \in Events, Happens(e)
    PROVE  /\ PromisesOK'
           /\ DOMAIN promised'[e] = DOMAIN promised[e] /\ Len(promised'[e]) = Len(promised[e])
           /\ \A i \in DOMAIN promised[e] : promised'[e][i] = OneLess(promised[e][i])
           /\ \A g \in Events \ {e} : promised'[g] = promised[g]
<1>1. promised \in [Events -> Seq(Promise)] /\ Distinct(promised[e])
  BY DEF PromisesOK
<1>2. PICK r : r = [i \in DOMAIN promised[e] |-> OneLess(promised[e][i])]
  OBVIOUS
<1>3. promised' = [promised EXCEPT ![e] = r]
  BY <1>1, <1>2 DEF Happens
<1>4. /\ r \in Seq(Promise) /\ DOMAIN r = DOMAIN promised[e] /\ Len(r) = Len(promised[e])
      /\ \A i \in DOMAIN promised[e] : r[i] = OneLess(promised[e][i])
      /\ Distinct(r)
  BY <1>1, <1>2, OneLessFacts
<1>5. promised'[e] = r /\ (\A g \in Events \ {e} : promised'[g] = promised[g])
      /\ promised' \in [Events -> Seq(Promise)]
  BY <1>1, <1>3, <1>4
<1>6. ASSUME NEW g \in Events PROVE Distinct(promised'[g])
  BY <1>4, <1>5 DEF PromisesOK
<1>7. PromisesOK'
  BY <1>5, <1>6 DEF PromisesOK, Distinct
<1> QED BY <1>4, <1>5, <1>7

(* run_waiting_threads_ is called for e, with the sends q on top of t.     *)
Starts(e, h, q, t, cs) ==
    /\ Moved(h, q + 1, t)
    /\ q \in Nat /\ cs \in Seq(CallSet) /\ OnTop(CallSet, cs, q, t) /\ OnTop(CallSet, calls', 1, cs)
    /\ calls'[1] = [op |-> "run", net |-> e, at |-> 1]
    /\ \A k \in 1..q : cs[k].op = "send" /\ cs[k].at <= Len(fanout[cs[k].net])
    /\ h = 1 => calls[1].op = "send"

LEMMA StartsControls ==
    ASSUME EventTypes, CallsOK, PromisesOK, NEW e \in Events, ControlsOK(e),
           NEW h, NEW q, NEW t, NEW cs, Starts(e, h, q, t, cs), StartRun(e, cs), UNCHANGED ctls
    PROVE  ControlsOK(e)'
<1> DEFINE f == [op |-> "run", net |-> e, at |-> 1]
<1>1. OnTop(CallSet, calls', 1, cs) /\ calls'[1] = f /\ InControls(f, e) /\ Quiet(calls', 0, e)
  BY DEF Starts, InControls, Quiet
<1>2. h \in {0, 1} /\ q \in Nat /\ OnTop(CallSet, calls, h, t) /\ OnTop(CallSet, cs, q, t)
  BY DEF Starts, Moved
<1>3. Quiet(calls, h, e) /\ Quiet(cs, q, e)
  BY DEF Starts, Quiet, InControls, Moved
<1>4. Without(cs, e) <=> Without(calls, e)
  <2>1. h \in Nat
    BY <1>2
  <2>2. Without(cs, e) => Without(calls, e)
    BY <1>2, <1>3, <2>1, SameControls
  <2>3. Without(calls, e) => Without(cs, e)
    BY <1>2, <1>3, <2>1, SameControls
  <2> QED BY <2>2, <2>3
<1>5. /\ DOMAIN promised'[e] = DOMAIN promised[e] /\ Len(promised'[e]) = Len(promised[e])
      /\ \A i \in DOMAIN promised[e] : promised'[e][i] = OneLess(promised[e][i])
  BY HappensPromised DEF StartRun
<1>6. last'[e] = 0
  BY DEF StartRun, EventTypes
<1>7. /\ ctls[e] \in Seq(Control) /\ Len(ctls[e]) \in Nat /\ DOMAIN ctls[e] = 1..Len(ctls[e])
      /\ \A i \in DOMAIN ctls[e] : ctls[e][i] \in Control
  BY DEF EventTypes
<1>8. ASSUME NEW i \in 1..Len(ctls[e]), ctls[e][i].left > 0, i \in DOMAIN promised[e],
             promised[e][i] = Owing(ctls[e][i])
      PROVE  i - 0 \in DOMAIN promised'[e] /\ promised'[e][i - 0] = LessOwing(ctls[e][i])
  <2>1. promised'[e][i] = OneLess(Owing(ctls[e][i])) /\ i - 0 = i
    BY <1>5, <1>8
  <2> QED BY <1>5, <1>7, <1>8, <2>1, OneLessOwing
<1>9. CASE Without(calls, e)
  <2>1. Kept(e)
    BY <1>9 DEF ControlsOK
  <2>2. Len(promised[e]) = Len(ctls[e]) /\ DOMAIN promised[e] = DOMAIN ctls[e]
    BY <1>7, <2>1 DEF Kept, PromisesOK
  <2>3. Ahead(e, 1, 0)'
    BY <1>7, <1>8, <2>1, <2>2 DEF Ahead, Kept
  <2>4. Running(e, 1)'
    BY <1>6, <1>7, <2>3 DEF Running, Passed
  <2>5. Alone(e, f)'
    BY <1>5, <1>7, <2>1, <2>2 DEF Alone, AllWait, Kept
  <2>6. Doing(e, f)'
    BY <2>4 DEF Doing
  <2> QED BY <1>1, <1>4, <1>9, <2>5, <2>6, ControlsHere
<1>10. CASE ~Without(calls, e)
  <2>1. calls \in Seq(CallSet) /\ DOMAIN calls = 1..Len(calls)
    BY DEF EventTypes
  <2>2. PICK k \in DOMAIN calls : Innermost(calls, e, k)
    BY <1>10, <2>1, InnermostExists
  <2>3. calls[k].op # "run"
    <3>1. SUFFICES ASSUME calls[k].op = "run" PROVE FALSE
      OBVIOUS
    <3>2. k = 1
      BY <3>1 DEF CallsOK
    <3>3. h # 1
      BY <3>1, <3>2 DEF Starts
    <3>4. Len(calls) = 0
      BY <1>2, <3>3 DEF OnTop, Starts, Moved
    <3> QED BY <2>1, <3>4
  <2>4. PICK at : at = calls[k].at
    OBVIOUS
  <2>5. Assigning(e, at)
    BY <2>2, <2>3, <2>4 DEF ControlsOK, Doing
  <2>6. at \in 1..Len(ctls[e]) /\ ctls[e][at].left = 0 /\ Passed(e, at)
    BY <1>7, <2>5 DEF Assigning
  <2>7. ASSUME NEW i \in 1..Len(ctls[e]), AllWait(e, 1, i)
        PROVE  i - 0 \in DOMAIN promised'[e] /\ promised'[e][i - 0] = LessOwing(ctls[e][i])
    <3>1. i < at
      BY <1>7, <2>6, <2>7 DEF AllWait
    <3>2. i \in 1..(at - 1)
      BY <1>7, <2>6, <3>1
    <3> QED BY <1>8, <2>6, <3>2 DEF Passed
  <2>8. Ahead(e, 1, 0)'
    BY <2>7 DEF Ahead, AllWait
  <2>9. Running(e, 1)'
    BY <1>6, <1>7, <2>8 DEF Running, Passed
  <2>10. Blocked(e, f)'
    BY <1>7, <2>6 DEF Blocked
  <2>11. Doing(e, f)'
    BY <2>9 DEF Doing
  <2> QED BY <1>1, <1>4, <1>10, <2>10, <2>11, ControlsHere
<1> QED BY <1>9, <1>10

(* The two halves of EventTypes: what is stored, and the nested loops.     *)
StoreTypes ==
    /\ value \in [Signals -> Bit4]
    /\ bits \in [Events -> UNION {[Inputs[e] \cap Signals -> Bit4] : e \in Events}]
    /\ \A e \in Events : bits[e] \in [Inputs[e] \cap Signals -> Bit4]
    /\ threads \in [Events -> Seq(Waiters)] /\ \A e \in Events : IsInjective(threads[e])
    /\ aborted \in BOOLEAN

LoopTypes ==
    /\ ctls \in [Events -> Seq(Control)]
    /\ last \in [Events -> Nat] /\ \A e \in Events : last[e] <= Len(ctls[e])
    /\ calls \in Seq(CallSet)

LEMMA TypeHalves == EventTypes <=> StoreTypes /\ LoopTypes
BY DEF EventTypes, StoreTypes, LoopTypes

LoopInv ==
    LoopTypes /\ NetlistOK /\ CallsOK /\ PromisesOK /\ \A e \in Events : ControlsOK(e)

LEMMA StartsKeeps ==
    ASSUME LoopInv, EventTypes, NEW e \in Events,
           NEW h, NEW q, NEW t, NEW cs, Starts(e, h, q, t, cs), StartRun(e, cs),
           UNCHANGED <<netlist, ctls>>, calls # <<>> \/ compiled = Events
    PROVE  LoopInv'
<1>0. NetlistOK /\ CallsOK /\ PromisesOK /\ \A g \in Events : ControlsOK(g)
  BY DEF LoopInv
<1>1. /\ Moved(h, q + 1, t) /\ q \in Nat /\ OnTop(CallSet, calls', 1, cs)
      /\ calls'[1] = [op |-> "run", net |-> e, at |-> 1]
      /\ \A k \in 1..q : cs[k].op = "send" /\ cs[k].at <= Len(fanout[cs[k].net])
      /\ h = 1 => calls[1].op = "send"
      /\ OnTop(CallSet, cs, q, t)
  BY DEF Starts
<1>2. ASSUME NEW k \in 2..(q + 1)
      PROVE  calls'[k].op = "send" /\ calls'[k].at <= Len(fanout[calls'[k].net])
  <2>1. k - 1 \in 1..q /\ 1 + (k - 1) = k /\ k - 1 \in 1..Len(cs)
    BY <1>1 DEF OnTop
  <2>2. calls'[k] = cs[k - 1]
    BY <1>1, <2>1 DEF OnTop
  <2> QED BY <1>1, <2>1, <2>2
<1>3. LoopTypes'
  <2>1. last' = [last EXCEPT ![e] = 0]
    BY DEF StartRun
  <2>2. last' \in [Events -> Nat] /\ \A g \in Events : last'[g] <= Len(ctls[g])
    <3>1. ctls \in [Events -> Seq(Control)] /\ last \in [Events -> Nat]
          /\ \A g \in Events : last[g] <= Len(ctls[g])
      BY DEF EventTypes
    <3>2. \A g \in Events : Len(ctls[g]) \in Nat
      BY <3>1
    <3> QED BY <2>1, <3>1, <3>2
  <2>3. calls' \in Seq(CallSet)
    BY <1>1 DEF OnTop
  <2> QED BY <2>2, <2>3 DEF LoopTypes, EventTypes
<1>4. NetlistOK'
  BY <1>0, NetlistKeeps
<1>5. CallsOK'
  <2>1. ASSUME NEW k \in 1..(q + 1) PROVE CallOK(calls'[k], k)
    <3>1. CASE k = 1
      BY <1>1, <3>1 DEF CallOK
    <3>2. CASE k # 1
      <4>1. k \in 2..(q + 1)
        BY <1>1, <3>2
      <4> QED BY <1>2, <4>1 DEF CallOK
    <3> QED BY <3>1, <3>2
  <2>2. UNCHANGED fanout
    BY DEF netlist
  <2> QED BY <1>0, <1>1, <2>1, <2>2, CallsMove
<1>6. PromisesOK' /\ \A g \in Events \ {e} : promised'[g] = promised[g]
  BY <1>0, HappensPromised DEF StartRun
<1>7. ControlsOK(e)'
  BY <1>0, StartsControls
<1>8. ASSUME NEW g \in Events \ {e} PROVE ControlsOK(g)'
  <2>1. Quiet(calls, h, g)
    BY <1>1 DEF Quiet, InControls, Moved
  <2>2. ASSUME NEW k \in 1..(q + 1) PROVE ~InControls(calls'[k], g)
    <3>1. CASE k = 1
      BY <1>1, <3>1 DEF InControls
    <3>2. CASE k # 1
      <4>1. k \in 2..(q + 1)
        BY <1>1, <3>2
      <4> QED BY <1>2, <4>1 DEF InControls
    <3> QED BY <3>1, <3>2
  <2>3. last'[g] = last[g] /\ ctls'[g] = ctls[g] /\ promised'[g] = promised[g]
    BY <1>6 DEF StartRun, EventTypes
  <2>4. Quiet(calls', q + 1, g)
    BY <2>2 DEF Quiet
  <2> QED BY <1>0, <1>1, <2>1, <2>3, <2>4, ControlsElsewhere
<1> QED BY <1>3, <1>4, <1>5, <1>6, <1>7, <1>8 DEF LoopInv

(* A step that only replaces sends, as the next turn of one.               *)
LEMMA SendsKeep ==
    ASSUME LoopInv, NEW h, NEW p, NEW t, Moved(h, p, t),
           h = 1 => calls[1].op = "send",
           \A k \in 1..p : calls'[k].op = "send" /\ calls'[k].at <= Len(fanout[calls'[k].net]),
           UNCHANGED <<netlist, ctls, last, promised>>, calls # <<>> \/ compiled = Events
    PROVE  LoopInv'
<1>1. LoopTypes /\ NetlistOK /\ CallsOK /\ PromisesOK /\ \A g \in Events : ControlsOK(g)
  BY DEF LoopInv
<1>2. LoopTypes'
  BY <1>1 DEF LoopTypes, Moved, OnTop
<1>3. NetlistOK'
  BY <1>1, NetlistKeeps
<1>4. CallsOK'
  BY <1>1, CallsMove DEF CallOK, netlist
<1>5. ASSUME NEW g \in Events PROVE ControlsOK(g)'
  <2>1. Quiet(calls, h, g) /\ Quiet(calls', p, g)
    BY DEF Quiet, InControls, Moved
  <2> QED BY <1>1, <2>1, ControlsElsewhere
<1>6. PromisesOK'
  BY <1>1 DEF PromisesOK, Distinct
<1> QED BY <1>2, <1>3, <1>4, <1>5, <1>6 DEF LoopInv

(* The calls after the next turn of a send.                                *)
LEMMA NextFunctorFacts ==
    ASSUME EventTypes, NetlistOK, CallsOK, InCall("send")
    PROVE  \E q \in {0, 1} :
              /\ OnTop(CallSet, NextFunctor, q, Tail(calls)) /\ NextFunctor \in Seq(CallSet)
              /\ q = 0 <=> Call.at + 1 > Len(fanout[Call.net])
              /\ q = 1 => NextFunctor[1] = [op |-> "send", net |-> Call.net, at |-> Call.at + 1]
<1>1. calls # <<>> /\ Call.op = "send"
  BY DEF InCall
<1>2. Tail(calls) \in Seq(CallSet) /\ Call.net \in Nets /\ Call.at + 1 \in Nat \ {0}
  BY <1>1, TheCall
<1>3. NextFunctor \in Seq(CallSet) /\ Sent(NextFunctor, Call.net, Call.at + 1, Tail(calls))
  BY <1>2, SendOnTop DEF NextFunctor
<1>4. CASE Call.at + 1 > Len(fanout[Call.net])
  <2>1. NextFunctor = Tail(calls)
    BY <1>3, <1>4 DEF Sent
  <2>2. OnTop(CallSet, NextFunctor, 0, Tail(calls))
    BY <1>2, <2>1, SelfOnTop
  <2> QED BY <1>3, <1>4, <2>2
<1>5. CASE ~ (Call.at + 1 > Len(fanout[Call.net]))
  <2>1. /\ OnTop(CallSet, NextFunctor, 1, Tail(calls))
        /\ NextFunctor[1] = [op |-> "send", net |-> Call.net, at |-> Call.at + 1]
    BY <1>3, <1>5 DEF Sent
  <2> QED BY <1>3, <1>5, <2>1
<1> QED BY <1>4, <1>5

LEMMA StartRunOnTop ==
    ASSUME NEW e \in Events, NEW cs, StartRun(e, cs), NEW q \in Nat, NEW t, OnTop(CallSet, cs, q, t)
    PROVE  /\ OnTop(CallSet, calls', q + 1, t) /\ OnTop(CallSet, calls', 1, cs)
           /\ calls'[1] = [op |-> "run", net |-> e, at |-> 1]
<1> DEFINE f == [op |-> "run", net |-> e, at |-> 1]
<1>1. f \in CallSet
  <2>1. e \in Nets /\ 1 \in Nat \ {0}
    BY Constants
  <2> QED BY <2>1, SendCall
<1>2. calls' = <<f>> \o cs
  BY DEF StartRun, RunWaiting
<1> HIDE DEF f
<1>3. cs \in Seq(CallSet)
  BY DEF OnTop
<1>4. OnTop(CallSet, <<f>> \o cs, q + 1, t) /\ (<<f>> \o cs)[1] = f
  BY <1>1, ConsOnTop
<1>5. OnTop(CallSet, <<f>> \o cs, 0 + 1, cs)
  BY <1>1, <1>3, SelfOnTop, ConsOnTop
<1> QED BY <1>2, <1>4, <1>5 DEF f

LEMMA DeliverLoop ==
    ASSUME LoopInv, EventTypes, Deliver
    PROVE  LoopInv'
<1>1. NetlistOK /\ CallsOK
  BY DEF LoopInv
<1>2. InCall("send") /\ calls # <<>> /\ Call.op = "send"
  BY DEF Deliver, InCall
<1>3. /\ OnTop(CallSet, calls, 1, Tail(calls)) /\ Call = calls[1]
      /\ fanout[Call.net][Call.at] \in Events
  BY <1>1, <1>2, TheCall
<1>4. PICK q \in {0, 1} :
          /\ OnTop(CallSet, NextFunctor, q, Tail(calls)) /\ NextFunctor \in Seq(CallSet)
          /\ q = 0 <=> Call.at + 1 > Len(fanout[Call.net])
          /\ q = 1 => NextFunctor[1] = [op |-> "send", net |-> Call.net, at |-> Call.at + 1]
  BY <1>1, <1>2, NextFunctorFacts
<1>5. PICK e \in Events : e = fanout[Call.net][Call.at]
  BY <1>3
<1>6. PICK cs : cs = NextFunctor
  OBVIOUS
<1>7. PICK t : t = Tail(calls)
  OBVIOUS
<1>8. UNCHANGED <<netlist, ctls>>
  BY DEF Deliver
<1>9. \A k \in 1..q : cs[k].op = "send" /\ cs[k].at <= Len(fanout[cs[k].net])
  <2>1. SUFFICES ASSUME NEW k \in 1..q PROVE cs[k].op = "send" /\ cs[k].at <= Len(fanout[cs[k].net])
    OBVIOUS
  <2>2. k = 1 /\ q = 1
    BY <1>4
  <2>3. fanout[Call.net] \in Seq(Events) /\ Call.at \in Nat
    BY <1>1, <1>2, TheCall DEF NetlistOK
  <2> QED BY <1>4, <1>6, <2>2, <2>3
<1>10. ASSUME StartRun(e, cs) PROVE LoopInv'
  <2>1. Starts(e, 1, q, t, cs)
    <3>1. /\ OnTop(CallSet, calls', q + 1, t) /\ OnTop(CallSet, calls', 1, cs)
          /\ calls'[1] = [op |-> "run", net |-> e, at |-> 1]
      BY <1>4, <1>6, <1>7, <1>10, StartRunOnTop
    <3> QED BY <1>2, <1>3, <1>4, <1>6, <1>7, <1>9, <3>1 DEF Starts, Moved
  <2> QED BY <1>2, <1>8, <1>10, <2>1, StartsKeeps
<1>11. ASSUME calls' = cs, UNCHANGED <<last, promised>> PROVE LoopInv'
  <2>1. Moved(1, q, t)
    BY <1>3, <1>4, <1>6, <1>7, <1>11 DEF Moved
  <2> QED BY <1>2, <1>3, <1>8, <1>9, <1>11, <2>1, SendsKeep
<1>12. StartRun(e, cs) \/ (calls' = cs /\ UNCHANGED <<last, promised>>)
  BY <1>5, <1>6 DEF Deliver, aux
<1> QED BY <1>10, <1>11, <1>12

-----------------------------------------------------------------------------
(***************************************************************************)
(* The loop over the controls of an event.                                 *)
(***************************************************************************)
LEMMA InLoop ==
    ASSUME LoopInv, EventTypes, calls # <<>>, Call.op # "send"
    PROVE  /\ Call.net \in Events /\ Doing(Call.net, Call)
           /\ IF Without(Tail(calls), Call.net) THEN Alone(Call.net, Call) ELSE Blocked(Call.net, Call)
<1>1. NetlistOK /\ CallsOK /\ \A g \in Events : ControlsOK(g)
  BY DEF LoopInv
<1>2. /\ OnTop(CallSet, calls, 1, Tail(calls)) /\ Call = calls[1] /\ 1 \in DOMAIN calls
      /\ Call.net \in Events /\ Call.op \in {"send", "run", "ran"}
  BY <1>1, TheCall
<1>3. PICK e \in Events : e = Call.net
  BY <1>2
<1>4. InControls(calls[1], e) /\ Quiet(calls, 1 - 1, e)
  BY <1>2, <1>3 DEF InControls, Quiet
<1>5. Innermost(calls, e, 1) /\ (Only(calls, e, 1) <=> Without(Tail(calls), e))
  BY <1>2, <1>4, TopControls
<1>6. /\ Doing(e, calls[1])
      /\ IF Only(calls, e, 1) THEN Alone(e, calls[1]) ELSE Blocked(e, calls[1])
  BY <1>1, <1>2, <1>5 DEF ControlsOK
<1> QED BY <1>2, <1>3, <1>5, <1>6

(* One turn of the loop leaves call f, under at most one send.             *)
LEMMA LoopTurn ==
    ASSUME LoopInv, EventTypes, calls # <<>>, Call.op # "send",
           NEW e \in Events, e = Call.net, NEW p \in {1, 2}, NEW f, f = calls'[p],
           OnTop(CallSet, calls', p, Tail(calls)), InControls(f, e), f.op = "run" => p = 1,
           p = 2 => calls'[1].op = "send" /\ calls'[1].at <= Len(fanout[calls'[1].net]),
           UNCHANGED netlist, LoopTypes', PromisesOK',
           \A g \in Events \ {e} :
              ctls'[g] = ctls[g] /\ last'[g] = last[g] /\ promised'[g] = promised[g],
           Doing(e, f)', IF Without(Tail(calls), e) THEN Alone(e, f)' ELSE Blocked(e, f)'
    PROVE  LoopInv'
<1>1. NetlistOK /\ CallsOK /\ \A g \in Events : ControlsOK(g)
  BY DEF LoopInv
<1>2. OnTop(CallSet, calls, 1, Tail(calls)) /\ Call = calls[1]
  BY <1>1, TheCall
<1>3. PICK t : t = Tail(calls)
  OBVIOUS
<1>4. Moved(1, p, t)
  BY <1>2, <1>3 DEF Moved
<1>5. NetlistOK'
  BY <1>1, NetlistKeeps
<1>6. \A k \in 1..p : CallOK(calls'[k], k)
  <2>1. SUFFICES ASSUME NEW k \in 1..p PROVE CallOK(calls'[k], k)
    OBVIOUS
  <2>2. k = p \/ (p = 2 /\ k = 1)
    OBVIOUS
  <2> QED BY <2>2 DEF CallOK, InControls
<1>7. CallsOK'
  BY <1>1, <1>4, <1>6, CallsMove DEF netlist
<1>8. Quiet(calls', p - 1, e)
  BY DEF Quiet, InControls
<1>9. ControlsOK(e)'
  BY <1>8, ControlsHere
<1>10. ASSUME NEW g \in Events \ {e} PROVE ControlsOK(g)'
  <2>1. Quiet(calls, 1, g) /\ Quiet(calls', p, g)
    BY <1>2 DEF Quiet, InControls
  <2> QED BY <1>1, <1>4, <2>1, ControlsElsewhere
<1> QED BY <1>5, <1>7, <1>9, <1>10 DEF LoopInv

(* The count of a control is written.                                      *)
Writes(e, at, n) == ctls' = [ctls EXCEPT ![e][at].left = n]

Written(e, at, n) ==
    /\ ctls' \in [Events -> Seq(Control)]
    /\ Len(ctls'[e]) = Len(ctls[e]) /\ DOMAIN ctls'[e] = DOMAIN ctls[e]
    /\ \A i \in DOMAIN ctls[e] : i # at => ctls'[e][i] = ctls[e][i]
    /\ ctls'[e][at].left = n /\ ctls'[e][at].id = ctls[e][at].id
    /\ \A g \in Events \ {e} : ctls'[g] = ctls[g]

LEMMA CountWritten ==
    ASSUME ctls \in [Events -> Seq(Control)], NEW e \in Events, NEW at \in DOMAIN ctls[e],
           NEW n \in 0..MaxCount, Writes(e, at, n)
    PROVE  Written(e, at, n)
<1>1. PICK l \in Seq(Control) : l = ctls[e]
  OBVIOUS
<1>2. PICK c : c = [l[at] EXCEPT !.left = n]
  OBVIOUS
<1>3. PICK r : r = [l EXCEPT ![at] = c]
  OBVIOUS
<1>4. at \in DOMAIN l /\ l[at] \in Control
  BY <1>1
<1>5. c \in Control /\ c.left = n /\ c.id = l[at].id
  BY <1>2, <1>4 DEF Control
<1>6. /\ r \in Seq(Control) /\ Len(r) = Len(l) /\ DOMAIN r = DOMAIN l /\ r[at] = c
      /\ \A i \in DOMAIN l : i # at => r[i] = l[i]
  BY <1>3, <1>4, <1>5
<1>7. ctls' = [ctls EXCEPT ![e] = r]
  BY <1>1, <1>2, <1>3 DEF Writes
<1>8. ctls' \in [Events -> Seq(Control)] /\ ctls'[e] = r /\ \A g \in Events \ {e} : ctls'[g] = ctls[g]
  BY <1>6, <1>7
<1> QED BY <1>1, <1>2, <1>5, <1>6, <1>8 DEF Written

LEMMA ControlTyped ==
    ASSUME NEW c \in Control
    PROVE  c.id \in Ids /\ c.left \in 0..MaxCount /\ c.left \in Nat /\ c.signal \in Signals /\ c.value \in Values
BY Constants DEF Control

LEMMA CountDownLoop ==
    ASSUME LoopInv, EventTypes, CountDown
    PROVE  LoopInv'
<1>1. LoopTypes /\ NetlistOK /\ CallsOK /\ PromisesOK
  BY DEF LoopInv
<1>2. calls # <<>> /\ Call.op = "run" /\ Call.at <= Len(ctls[Call.net]) /\ Cur.left > 1
  BY DEF CountDown, AtControl, InCall
<1>3. /\ Call.net \in Events /\ Doing(Call.net, Call)
      /\ IF Without(Tail(calls), Call.net) THEN Alone(Call.net, Call) ELSE Blocked(Call.net, Call)
  BY <1>2, InLoop
<1>4. PICK e \in Events : e = Call.net
  BY <1>3
<1>5. PICK a : a = Call.at
  OBVIOUS
<1>6. Running(e, a)
  BY <1>2, <1>3, <1>4, <1>5 DEF Doing
<1>7. /\ ctls \in [Events -> Seq(Control)] /\ last \in [Events -> Nat] /\ \A g \in Events : last[g] <= Len(ctls[g])
      /\ ctls[e] \in Seq(Control) /\ Len(ctls[e]) \in Nat /\ DOMAIN ctls[e] = 1..Len(ctls[e])
      /\ a \in DOMAIN ctls[e] /\ a \in Nat
  BY <1>1, <1>2, <1>4, <1>5, <1>6 DEF LoopTypes, Running
<1>8. PICK c \in Control : c = ctls[e][a]
  BY <1>7
<1>9. c.left > 1 /\ c.left - 1 \in 0..MaxCount /\ c.left \in Nat
  <2>1. c.left \in 0..MaxCount /\ c.left \in Nat /\ MaxCount \in Nat
    BY ControlTyped, Constants
  <2>2. c.left > 1
    BY <1>2, <1>4, <1>5, <1>8 DEF Cur
  <2> QED BY <2>1, <2>2
<1>10. PICK n \in 0..MaxCount : n = c.left - 1
  BY <1>9
<1>11. /\ ctls' \in [Events -> Seq(Control)]
       /\ Len(ctls'[e]) = Len(ctls[e]) /\ DOMAIN ctls'[e] = DOMAIN ctls[e]
       /\ \A i \in DOMAIN ctls[e] : i # a => ctls'[e][i] = ctls[e][i]
       /\ ctls'[e][a].left = c.left - 1 /\ ctls'[e][a].id = c.id
       /\ \A g \in Events \ {e} : ctls'[g] = ctls[g]
  <2>1. Writes(e, a, n)
    BY <1>4, <1>5, <1>8, <1>10 DEF CountDown, Writes
  <2>2. ctls \in [Events -> Seq(Control)] /\ a \in DOMAIN ctls[e]
    BY <1>7
  <2>3. Written(e, a, n)
    BY <2>1, <2>2, CountWritten
  <2> QED BY <1>8, <1>10, <2>3 DEF Written
<1>12. /\ last' = [last EXCEPT ![e] = a] /\ promised' = promised
       /\ calls' = <<[Call EXCEPT !.at = @ + 1]>> \o Tail(calls)
       /\ UNCHANGED netlist
  BY <1>4, <1>5 DEF CountDown, aux, NextControl
<1>13. PICK f : f = [op |-> "run", net |-> e, at |-> a + 1]
  OBVIOUS
<1>14. calls' = <<f>> \o Tail(calls) /\ f \in CallSet
  <2>1. Call = [op |-> Call.op, net |-> Call.net, at |-> Call.at]
    BY <1>1, <1>2, TheCall
  <2>2. [Call EXCEPT !.at = @ + 1] = f
    BY <1>2, <1>4, <1>5, <1>13, <2>1
  <2>3. e \in Nets /\ a + 1 \in Nat \ {0}
    BY <1>7, Constants
  <2> QED BY <1>12, <1>13, <2>2, <2>3, SendCall
<1>15. OnTop(CallSet, calls', 1, Tail(calls)) /\ calls'[1] = f
  <2>1. Tail(calls) \in Seq(CallSet)
    BY <1>1, <1>2, TheCall
  <2> QED BY <1>14, <2>1, PushOnTop
<1>16. LoopTypes'
  <2>1. last' \in [Events -> Nat] /\ \A g \in Events : last'[g] <= Len(ctls'[g])
    <3>1. \A g \in Events : Len(ctls'[g]) = Len(ctls[g])
      BY <1>11
    <3> QED BY <1>7, <1>12, <3>1
  <2> QED BY <1>11, <1>15, <2>1 DEF LoopTypes, OnTop
<1>17. PromisesOK'
  BY <1>1, <1>12 DEF PromisesOK, Distinct
<1>18. promised[e][a] = LessOwing(c) /\ a \in DOMAIN promised[e]
  <2>1. AllWait(e, a, a)
    BY <1>7, <1>8, <1>9 DEF AllWait
  <2>2. a \in a..Len(ctls[e]) /\ a - 0 = a
    BY <1>7
  <2>3. Ahead(e, a, 0)
    BY <1>6 DEF Running
  <2> QED BY <1>8, <2>1, <2>2, <2>3 DEF Ahead
<1>19. Owing(ctls'[e][a]) = LessOwing(c)
  BY <1>11 DEF Owing, LessOwing
<1>20. Doing(e, f)'
  <2>1. Passed(e, a + 1)'
    <3>1. last'[e] = (a + 1) - 1
      BY <1>7, <1>12
    <3>2. ASSUME NEW i \in 1..((a + 1) - 1)
          PROVE  ctls'[e][i].left > 0 /\ i \in DOMAIN promised[e] /\ promised[e][i] = Owing(ctls'[e][i])
      <4>1. CASE i = a
        BY <1>9, <1>11, <1>18, <1>19, <4>1
      <4>2. CASE i # a
        <5>1. i \in 1..(a - 1) /\ i \in DOMAIN ctls[e]
          BY <1>7, <4>2
        <5> QED BY <1>6, <1>11, <4>2, <5>1 DEF Running, Passed
      <4> QED BY <4>1, <4>2
    <3> QED BY <1>12, <3>1, <3>2 DEF Passed
  <2>2. ASSUME NEW i \in (a + 1)..Len(ctls[e]), \A j \in (a + 1)..i : ctls'[e][j].left > 0
        PROVE  i - 0 \in DOMAIN promised[e] /\ promised[e][i - 0] = LessOwing(ctls'[e][i])
    <3>1. \A j \in a..i : ctls[e][j].left > 0
      <4>1. SUFFICES ASSUME NEW j \in a..i PROVE ctls[e][j].left > 0
        OBVIOUS
      <4>2. j = a \/ (j \in (a + 1)..i /\ j \in DOMAIN ctls[e] /\ j # a)
        BY <1>7
      <4> QED BY <1>8, <1>9, <1>11, <2>2, <4>2
    <3>2. i \in a..Len(ctls[e]) /\ i # a /\ i \in DOMAIN ctls[e]
      BY <1>7
    <3> QED BY <1>6, <1>11, <3>1, <3>2 DEF Running, Ahead, AllWait
  <2>3. Ahead(e, a + 1, 0)'
    BY <1>11, <1>12, <2>2 DEF Ahead, AllWait
  <2>4. a + 1 \in 1..(Len(ctls'[e]) + 1)
    BY <1>7, <1>11
  <2> QED BY <1>13, <2>1, <2>3, <2>4 DEF Doing, Running
<1>21. Alone(e, Call) => Alone(e, f)'
  <2>1. SUFFICES ASSUME Alone(e, Call) PROVE Alone(e, f)'
    OBVIOUS
  <2>2. AllWait(e, a, Len(ctls[e])) /\ Len(promised[e]) = Len(ctls[e])
    BY <1>2, <1>5, <2>1 DEF Alone
  <2>3. ASSUME NEW j \in (a + 1)..Len(ctls[e]) PROVE ctls'[e][j].left > 0
    <3>1. j \in a..Len(ctls[e]) /\ j # a /\ j \in DOMAIN ctls[e]
      BY <1>7
    <3> QED BY <1>11, <2>2, <3>1 DEF AllWait
  <2> QED BY <1>11, <1>12, <1>13, <2>2, <2>3 DEF Alone, AllWait
<1>22. Blocked(e, Call) => Blocked(e, f)'
  <2>1. SUFFICES ASSUME Blocked(e, Call) PROVE Blocked(e, f)'
    OBVIOUS
  <2>2. PICK i \in DOMAIN ctls[e] : ctls[e][i].left = 0 /\ i >= a
    BY <1>2, <1>5, <2>1 DEF Blocked
  <2>3. i # a /\ i >= a + 1
    BY <1>7, <1>8, <1>9, <2>2
  <2>4. i \in DOMAIN ctls'[e] /\ ctls'[e][i].left = 0
    BY <1>11, <2>2, <2>3
  <2> QED BY <1>13, <2>3, <2>4 DEF Blocked
<1>23. IF Without(Tail(calls), e) THEN Alone(e, f)' ELSE Blocked(e, f)'
  BY <1>3, <1>4, <1>21, <1>22
<1>24. InControls(f, e) /\ Call.op # "send"
  BY <1>2, <1>13 DEF InControls
<1>25. \A g \in Events \ {e} : ctls'[g] = ctls[g] /\ last'[g] = last[g] /\ promised'[g] = promised[g]
  BY <1>7, <1>11, <1>12
<1> QED BY <1>2, <1>4, <1>12, <1>15, <1>16, <1>17, <1>20, <1>23, <1>24, <1>25, LoopTurn

LEMMA TakenDistinct ==
    ASSUME NEW s \in Seq(Promise), NEW i \in 1..Len(s), NEW r, Taken(Promise, s, i, r), Distinct(s)
    PROVE  Distinct(r)
<1>1. /\ r \in Seq(Promise) /\ Len(s) \in Nat /\ Len(r) = Len(s) - 1
      /\ DOMAIN r = 1..(Len(s) - 1) /\ DOMAIN s = 1..Len(s)
  BY DEF Taken
<1>2. ASSUME NEW j \in DOMAIN r PROVE \E k \in DOMAIN s : r[j] = s[k] /\ k = IF j < i THEN j ELSE j + 1
  <2>1. CASE j < i
    <3>1. j \in 1..(i - 1) /\ j \in DOMAIN s
      BY <1>1, <2>1
    <3>2. r[j] = s[j]
      BY <3>1 DEF Taken
    <3> QED BY <2>1, <3>1, <3>2
  <2>2. CASE ~(j < i)
    <3>1. j + 1 \in (i + 1)..Len(s) /\ (j + 1) - 1 = j /\ j + 1 \in DOMAIN s
      BY <1>1, <2>2
    <3>2. r[(j + 1) - 1] = s[j + 1]
      BY <3>1 DEF Taken
    <3> QED BY <2>2, <3>1, <3>2
  <2> QED BY <2>1, <2>2
<1>3. ASSUME NEW j \in DOMAIN r, NEW k \in DOMAIN r, r[j].id = r[k].id PROVE j = k
  <2>1. PICK m \in DOMAIN s : r[j] = s[m] /\ m = IF j < i THEN j ELSE j + 1
    BY <1>2
  <2>2. PICK n \in DOMAIN s : r[k] = s[n] /\ n = IF k < i THEN k ELSE k + 1
    BY <1>2
  <2>3. m = n
    BY <1>3, <2>1, <2>2 DEF Distinct
  <2> QED BY <1>1, <2>1, <2>2, <2>3
<1> QED BY <1>3 DEF Distinct

LEMMA MadeIs ==
    ASSUME PromisesOK, NEW e \in Events, NEW a \in DOMAIN promised[e],
           promised[e][a].left = 0
    PROVE  /\ Made(e, promised[e][a].id) = RemoveAt(promised[e], a)
           /\ Taken(Promise, promised[e], a, RemoveAt(promised[e], a))
<1>1. promised[e] \in Seq(Promise) /\ Distinct(promised[e]) /\ a \in 1..Len(promised[e])
  BY DEF PromisesOK
<1>2. ReleasedAt(e, promised[e][a].id) = {a}
  BY <1>1 DEF ReleasedAt, Distinct
<1>3. (CHOOSE i \in ReleasedAt(e, promised[e][a].id) : TRUE) = a
  BY <1>2
<1>4. Made(e, promised[e][a].id) = RemoveAt(promised[e], a)
  BY <1>2, <1>3 DEF Made
<1>5. Taken(Promise, promised[e], a, RemoveAt(promised[e], a))
  BY <1>1, TakenOut DEF RemoveAt
<1> QED BY <1>4, <1>5

(* The assignment that is made is the first of those that are released.    *)
Making(e, a) ==
    /\ e \in Events /\ e = Call.net /\ a = Call.at /\ a \in DOMAIN ctls[e] /\ a \in Nat \ {0}
    /\ Running(e, a) /\ ctls[e][a].left = 1
    /\ a \in DOMAIN promised[e] /\ promised[e][a] = [id |-> ctls[e][a].id, left |-> 0]
    /\ FirstReleased(e, a)
    /\ promised' = [promised EXCEPT ![e] = RemoveAt(@, a)]
    /\ Taken(Promise, promised[e], a, RemoveAt(promised[e], a))

LEMMA RunControlMakes ==
    ASSUME LoopInv, EventTypes, RunControl
    PROVE  Making(Call.net, Call.at)
<1>1. LoopTypes /\ NetlistOK /\ CallsOK /\ PromisesOK
  BY DEF LoopInv
<1>2. calls # <<>> /\ Call.op = "run" /\ Call.at <= Len(ctls[Call.net]) /\ Cur.left = 1
  BY DEF RunControl, AtControl, InCall
<1>3. Call.net \in Events /\ Doing(Call.net, Call)
  BY <1>2, InLoop
<1>4. PICK e \in Events : e = Call.net
  BY <1>3
<1>5. PICK a : a = Call.at
  OBVIOUS
<1>6. Running(e, a)
  BY <1>2, <1>3, <1>4, <1>5 DEF Doing
<1>7. /\ ctls[e] \in Seq(Control) /\ Len(ctls[e]) \in Nat /\ DOMAIN ctls[e] = 1..Len(ctls[e])
      /\ a \in DOMAIN ctls[e] /\ a \in Nat \ {0} /\ Cur = ctls[e][a] /\ ctls[e][a].left = 1
  BY <1>1, <1>2, <1>4, <1>5, <1>6 DEF LoopTypes, Running, Cur
<1>8. a \in DOMAIN promised[e] /\ promised[e][a] = [id |-> ctls[e][a].id, left |-> 0]
  <2>1. AllWait(e, a, a)
    BY <1>7 DEF AllWait
  <2>2. a \in a..Len(ctls[e]) /\ a - 0 = a
    BY <1>7
  <2>3. Ahead(e, a, 0)
    BY <1>6 DEF Running
  <2>4. a - 0 \in DOMAIN promised[e] /\ promised[e][a - 0] = LessOwing(ctls[e][a])
    BY <2>1, <2>2, <2>3 DEF Ahead
  <2> QED BY <1>7, <2>2, <2>4 DEF LessOwing
<1>9. FirstReleased(e, a)
  <2>1. ASSUME NEW j \in 1..(a - 1) PROVE promised[e][j].left > 0
    <3>1. ctls[e][j].left > 0 /\ promised[e][j] = Owing(ctls[e][j])
      BY <1>6 DEF Running, Passed
    <3> QED BY <3>1 DEF Owing
  <2> QED BY <1>8, <2>1 DEF FirstReleased
<1>10. /\ Made(e, ctls[e][a].id) = RemoveAt(promised[e], a)
       /\ Taken(Promise, promised[e], a, RemoveAt(promised[e], a))
  BY <1>1, <1>8, MadeIs
<1>11. promised' = [promised EXCEPT ![e] = RemoveAt(@, a)]
  BY <1>4, <1>7, <1>10 DEF RunControl
<1> QED BY <1>4, <1>5, <1>6, <1>7, <1>8, <1>9, <1>10, <1>11 DEF Making

LEMMA RunControlCalls ==
    ASSUME LoopInv, EventTypes, RunControl, NEW e \in Events, NEW a, Making(e, a), NEW f,
           f = [op |-> "ran", net |-> e, at |-> a]
    PROVE  \E p \in {1, 2} :
              /\ OnTop(CallSet, calls', p, Tail(calls)) /\ calls'[p] = f
              /\ p = 2 => calls'[1].op = "send" /\ calls'[1].at <= Len(fanout[calls'[1].net])
              /\ p = 2 => calls'[1] = [op |-> "send", net |-> Cur.signal, at |-> 1]
              /\ p = 1 => 1 > Len(fanout[Cur.signal])
<1>1. LoopTypes /\ NetlistOK /\ CallsOK
  BY DEF LoopInv
<1>2. calls # <<>> /\ Call.op = "run"
  BY DEF RunControl, AtControl, InCall
<1>3. Tail(calls) \in Seq(CallSet) /\ Call = [op |-> Call.op, net |-> Call.net, at |-> Call.at]
  BY <1>1, <1>2, TheCall
<1>4. [Call EXCEPT !.op = "ran"] = f
  BY <1>2, <1>3 DEF Making
<1>5. f \in CallSet
  <2>1. e \in Nets /\ a \in Nat \ {0}
    BY Constants DEF Making
  <2> QED BY <2>1, SendCall
<1>6. PICK t : t = <<f>> \o Tail(calls)
  OBVIOUS
<1>7. OnTop(CallSet, t, 1, Tail(calls)) /\ t[1] = f /\ t \in Seq(CallSet)
  BY <1>3, <1>5, <1>6, PushOnTop DEF OnTop
<1>8. PICK n : n = Cur.signal
  OBVIOUS
<1>9. n \in Signals /\ n \in Nets
  <2>1. ctls[e][a] \in Control /\ Cur = ctls[e][a]
    BY <1>1 DEF LoopTypes, Making, Cur
  <2> QED BY <1>8, <2>1, ControlTyped, Constants
<1>10. Send(n) \o t \in Seq(CallSet) /\ Sent(Send(n) \o t, n, 1, t)
  <2>1. 1 \in Nat \ {0}
    OBVIOUS
  <2> QED BY <1>7, <1>9, <2>1, SendOnTop DEF Send
<1>11. calls' = Send(n) \o t
  <2>1. calls' = Send(n) \o <<f>> \o Tail(calls)
    BY <1>4, <1>8 DEF RunControl
  <2>2. Send(n) \in Seq(CallSet)
    <3>1. [op |-> "send", net |-> n, at |-> 1] \in CallSet
      <4>1. 1 \in Nat \ {0}
        OBVIOUS
      <4> QED BY <1>9, <4>1, SendCall
    <3> QED BY <3>1 DEF Send, SendFrom
  <2>3. <<f>> \in Seq(CallSet)
    BY <1>5
  <2>4. Tail(calls) \in Seq(CallSet)
    BY <1>3
  <2>5. Send(n) \o <<f>> \o Tail(calls) = Send(n) \o (<<f>> \o Tail(calls))
    BY <2>2, <2>3, <2>4, ConcatAssociative
  <2> QED BY <1>6, <2>1, <2>5
<1>12. CASE 1 > Len(fanout[n])
  <2>1. calls' = t
    BY <1>10, <1>11, <1>12 DEF Sent
  <2> QED BY <1>7, <1>8, <1>12, <2>1
<1>13. CASE ~(1 > Len(fanout[n]))
  <2>1. OnTop(CallSet, calls', 1, t) /\ calls'[1] = [op |-> "send", net |-> n, at |-> 1]
    BY <1>10, <1>11, <1>13 DEF Sent
  <2>2. Len(fanout[n]) \in Nat /\ 1 <= Len(fanout[n])
    BY <1>1, <1>9, <1>13 DEF NetlistOK
  <2>3. OnTop(CallSet, calls', 2, Tail(calls)) /\ calls'[2] = f
    <3>1. /\ Len(t) = 1 + Len(Tail(calls)) /\ Len(calls') = 1 + Len(t) /\ calls' \in Seq(CallSet)
          /\ Len(Tail(calls)) \in Nat
      BY <1>3, <1>7, <2>1 DEF OnTop
    <3>2. \A k \in 1..Len(t) : calls'[1 + k] = t[k]
      BY <2>1 DEF OnTop
    <3>3. 1 \in 1..Len(t)
      BY <3>1
    <3>4. calls'[2] = f
      BY <1>7, <3>2, <3>3
    <3>5. ASSUME NEW k \in 1..Len(Tail(calls)) PROVE calls'[2 + k] = Tail(calls)[k]
      <4>1. 1 + k \in 1..Len(t) /\ 1 + (1 + k) = 2 + k
        BY <3>1
      <4>2. calls'[1 + (1 + k)] = t[1 + k]
        BY <3>2, <4>1
      <4> QED BY <1>7, <4>1, <4>2 DEF OnTop
    <3> QED BY <1>3, <3>1, <3>4, <3>5 DEF OnTop
  <2> QED BY <1>8, <2>1, <2>2, <2>3
<1> QED BY <1>12, <1>13

LEMMA RunControlLoop ==
    ASSUME LoopInv, EventTypes, RunControl
    PROVE  LoopInv'
<1>1. LoopTypes /\ NetlistOK /\ CallsOK /\ PromisesOK
  BY DEF LoopInv
<1>2. calls # <<>> /\ Call.op = "run" /\ Call.op # "send"
  BY DEF RunControl, AtControl, InCall
<1>3. PICK e \in Events, a \in Nat \ {0} : e = Call.net /\ a = Call.at /\ Making(e, a)
  BY RunControlMakes DEF Making
<1>4. IF Without(Tail(calls), e) THEN Alone(e, Call) ELSE Blocked(e, Call)
  BY <1>2, <1>3, InLoop
<1>5. PICK f : f = [op |-> "ran", net |-> e, at |-> a]
  OBVIOUS
<1>6. PICK p \in {1, 2} :
          /\ OnTop(CallSet, calls', p, Tail(calls)) /\ calls'[p] = f
          /\ p = 2 => calls'[1].op = "send" /\ calls'[1].at <= Len(fanout[calls'[1].net])
  BY <1>3, <1>5, RunControlCalls
<1>7. /\ ctls \in [Events -> Seq(Control)]
      /\ ctls[e] \in Seq(Control) /\ Len(ctls[e]) \in Nat /\ DOMAIN ctls[e] = 1..Len(ctls[e])
      /\ a \in DOMAIN ctls[e] /\ Running(e, a) /\ ctls[e][a].left = 1
  BY <1>1, <1>3 DEF LoopTypes, Making
<1>8. Written(e, a, 0)
  <2>1. Writes(e, a, 0)
    BY <1>3 DEF RunControl, Writes
  <2>2. 0 \in 0..MaxCount
    BY Constants
  <2> QED BY <1>7, <2>1, <2>2, CountWritten
<1>9. PICK r : r = RemoveAt(promised[e], a)
  OBVIOUS
<1>10. /\ promised[e] \in Seq(Promise) /\ DOMAIN promised[e] = 1..Len(promised[e])
       /\ Len(promised[e]) \in Nat /\ a \in 1..Len(promised[e])
       /\ promised' = [promised EXCEPT ![e] = r] /\ Taken(Promise, promised[e], a, r)
       /\ promised \in [Events -> Seq(Promise)] /\ Distinct(promised[e])
  BY <1>1, <1>3, <1>9 DEF Making, PromisesOK
<1>11. /\ r \in Seq(Promise) /\ Len(r) = Len(promised[e]) - 1 /\ DOMAIN r = 1..Len(r)
       /\ \A j \in 1..(a - 1) : r[j] = promised[e][j]
       /\ \A j \in (a + 1)..Len(promised[e]) : r[j - 1] = promised[e][j]
       /\ promised'[e] = r
  BY <1>10 DEF Taken
<1>12. last' = last /\ UNCHANGED netlist
  BY DEF RunControl
<1>13. PromisesOK'
  <2>1. Distinct(r)
    BY <1>10, TakenDistinct
  <2>2. \A g \in Events : Distinct(promised'[g])
    BY <1>1, <1>10, <2>1 DEF PromisesOK
  <2>3. promised' \in [Events -> Seq(Promise)]
    BY <1>10, <1>11
  <2> QED BY <2>2, <2>3 DEF PromisesOK, Distinct
<1>14. LoopTypes'
  <2>1. \A g \in Events : Len(ctls'[g]) = Len(ctls[g])
    BY <1>8 DEF Written
  <2> QED BY <1>1, <1>6, <1>8, <1>12, <2>1 DEF LoopTypes, OnTop, Written
<1>15. Doing(e, f)'
  <2>1. Passed(e, a)'
    <3>1. last'[e] = a - 1
      BY <1>7, <1>12 DEF Running, Passed
    <3>2. ASSUME NEW i \in 1..(a - 1)
          PROVE  ctls'[e][i].left > 0 /\ i \in DOMAIN r /\ r[i] = Owing(ctls'[e][i])
      <4>1. i # a /\ i \in DOMAIN ctls[e] /\ i \in 1..Len(r)
        BY <1>7, <1>10, <1>11
      <4>2. ctls'[e][i] = ctls[e][i]
        BY <1>8, <4>1 DEF Written
      <4>3. ctls[e][i].left > 0 /\ promised[e][i] = Owing(ctls[e][i])
        BY <1>7 DEF Running, Passed
      <4> QED BY <1>11, <4>1, <4>2, <4>3
    <3> QED BY <1>11, <3>1, <3>2 DEF Passed
  <2>2. ASSUME NEW i \in (a + 1)..Len(ctls[e]), \A j \in (a + 1)..i : ctls'[e][j].left > 0
        PROVE  i - 1 \in DOMAIN r /\ r[i - 1] = LessOwing(ctls'[e][i])
    <3>1. \A j \in a..i : ctls[e][j].left > 0
      <4>1. SUFFICES ASSUME NEW j \in a..i PROVE ctls[e][j].left > 0
        OBVIOUS
      <4>2. j = a \/ (j \in (a + 1)..i /\ j \in DOMAIN ctls[e] /\ j # a)
        BY <1>7
      <4> QED BY <1>7, <1>8, <2>2, <4>2 DEF Written
    <3>2. i \in a..Len(ctls[e]) /\ i # a /\ i \in DOMAIN ctls[e] /\ i - 0 = i
      BY <1>7
    <3>3. Ahead(e, a, 0)
      BY <1>7 DEF Running
    <3>4. i - 0 \in DOMAIN promised[e] /\ promised[e][i - 0] = LessOwing(ctls[e][i])
      BY <3>1, <3>2, <3>3 DEF Ahead, AllWait
    <3>5. i \in (a + 1)..Len(promised[e]) /\ i - 1 \in 1..Len(r)
      BY <1>10, <1>11, <3>2, <3>4
    <3>6. ctls'[e][i] = ctls[e][i]
      BY <1>8, <3>2 DEF Written
    <3> QED BY <1>11, <3>2, <3>4, <3>5, <3>6
  <2>3. Len(ctls'[e]) = Len(ctls[e]) /\ DOMAIN ctls'[e] = DOMAIN ctls[e] /\ ctls'[e][a].left = 0
    BY <1>8 DEF Written
  <2>4. Ahead(e, a + 1, 1)'
    BY <1>11, <2>2, <2>3 DEF Ahead, AllWait
  <2>5. f.op # "run" /\ f.at = a
    BY <1>5
  <2>6. Assigning(e, a)'
    BY <1>7, <2>1, <2>3, <2>4 DEF Assigning
  <2> QED BY <2>5, <2>6 DEF Doing, Assigning, Passed, Ahead, AllWait
<1>16. Alone(e, Call) => Alone(e, f)'
  <2>1. SUFFICES ASSUME Alone(e, Call) PROVE Alone(e, f)'
    OBVIOUS
  <2>2. AllWait(e, a, Len(ctls[e])) /\ Len(promised[e]) = Len(ctls[e])
    BY <1>2, <1>3, <2>1 DEF Alone
  <2>3. ASSUME NEW j \in (a + 1)..Len(ctls[e]) PROVE ctls'[e][j].left > 0
    <3>1. j \in a..Len(ctls[e]) /\ j # a /\ j \in DOMAIN ctls[e]
      BY <1>7
    <3> QED BY <1>8, <2>2, <3>1 DEF AllWait, Written
  <2>4. Len(ctls'[e]) = Len(ctls[e]) /\ Len(promised'[e]) = Len(ctls[e]) - 1
    BY <1>8, <1>11, <2>2 DEF Written
  <2> QED BY <1>5, <2>3, <2>4 DEF Alone, AllWait
<1>17. Blocked(e, Call) => Blocked(e, f)'
  <2>1. SUFFICES ASSUME Blocked(e, Call) PROVE Blocked(e, f)'
    OBVIOUS
  <2>2. PICK i \in DOMAIN ctls[e] : ctls[e][i].left = 0 /\ i >= a
    BY <1>2, <1>3, <2>1 DEF Blocked
  <2>3. i # a /\ i > a
    BY <1>7, <2>2
  <2>4. i \in DOMAIN ctls'[e] /\ ctls'[e][i].left = 0
    BY <1>8, <2>2, <2>3 DEF Written
  <2> QED BY <1>5, <2>3, <2>4 DEF Blocked
<1>18. IF Without(Tail(calls), e) THEN Alone(e, f)' ELSE Blocked(e, f)'
  BY <1>4, <1>16, <1>17
<1>19. InControls(f, e) /\ f.op # "run"
  BY <1>5 DEF InControls
<1>20. \A g \in Events \ {e} : ctls'[g] = ctls[g] /\ last'[g] = last[g] /\ promised'[g] = promised[g]
  BY <1>8, <1>10, <1>12 DEF Written
<1> QED BY <1>2, <1>3, <1>6, <1>12, <1>13, <1>14, <1>15, <1>18, <1>19, <1>20, LoopTurn

LEMMA DeleteControlLoop ==
    ASSUME LoopInv, EventTypes, DeleteControl
    PROVE  LoopInv'
<1>1. LoopTypes /\ NetlistOK /\ CallsOK /\ PromisesOK
  BY DEF LoopInv
<1>2. calls # <<>> /\ Call.op = "ran"
  BY DEF DeleteControl, InCall
<1>3. /\ Call.net \in Events /\ Doing(Call.net, Call)
      /\ IF Without(Tail(calls), Call.net) THEN Alone(Call.net, Call) ELSE Blocked(Call.net, Call)
  BY <1>2, InLoop
<1>4. PICK e \in Events : e = Call.net
  BY <1>3
<1>5. PICK a : a = Call.at
  OBVIOUS
<1>6. Assigning(e, a)
  BY <1>2, <1>3, <1>4, <1>5 DEF Doing
<1>7. /\ ctls \in [Events -> Seq(Control)]
      /\ ctls[e] \in Seq(Control) /\ Len(ctls[e]) \in Nat /\ DOMAIN ctls[e] = 1..Len(ctls[e])
      /\ a \in 1..Len(ctls[e]) /\ a \in Nat \ {0} /\ last[e] = a - 1
  BY <1>1, <1>6 DEF LoopTypes, Assigning, Passed
<1>8. PICK l : l = Unlinked(ctls[e], a - 1, a)
  OBVIOUS
<1>9. Taken(Control, ctls[e], a, l)
  BY <1>7, <1>8, TakenOut DEF Unlinked
<1>10. /\ ctls' = [ctls EXCEPT ![e] = l] /\ UNCHANGED <<netlist, last, promised>>
       /\ calls' = <<[Call EXCEPT !.op = "run"]>> \o Tail(calls)
  BY <1>4, <1>5, <1>7, <1>8 DEF DeleteControl, aux
<1>11. /\ l \in Seq(Control) /\ Len(l) = Len(ctls[e]) - 1 /\ DOMAIN l = 1..Len(l)
       /\ \A j \in 1..(a - 1) : l[j] = ctls[e][j]
       /\ \A j \in (a + 1)..Len(ctls[e]) : l[j - 1] = ctls[e][j]
       /\ ctls'[e] = l /\ ctls' \in [Events -> Seq(Control)]
       /\ \A g \in Events \ {e} : ctls'[g] = ctls[g]
  BY <1>7, <1>9, <1>10 DEF Taken
<1>12. PICK f : f = [op |-> "run", net |-> e, at |-> a]
  OBVIOUS
<1>13. OnTop(CallSet, calls', 1, Tail(calls)) /\ calls'[1] = f
  <2>1. Call = [op |-> Call.op, net |-> Call.net, at |-> Call.at] /\ Tail(calls) \in Seq(CallSet)
    BY <1>1, <1>2, TheCall
  <2>2. [Call EXCEPT !.op = "run"] = f
    BY <1>4, <1>5, <1>12, <2>1
  <2>3. e \in Nets
    BY Constants
  <2>4. f \in CallSet
    BY <1>7, <1>12, <2>3, SendCall
  <2> QED BY <1>10, <2>1, <2>2, <2>4, PushOnTop
<1>14. LoopTypes'
  <2>1. last' \in [Events -> Nat] /\ \A g \in Events : last'[g] <= Len(ctls'[g])
    <3>1. last'[e] = a - 1 /\ a - 1 <= Len(l)
      BY <1>7, <1>10, <1>11
    <3> QED BY <1>1, <1>10, <1>11, <3>1 DEF LoopTypes
  <2> QED BY <1>11, <1>13, <2>1 DEF LoopTypes, OnTop
<1>15. PromisesOK'
  BY <1>1, <1>10 DEF PromisesOK, Distinct
<1>16. ASSUME NEW i \in a..Len(l) PROVE i + 1 \in (a + 1)..Len(ctls[e]) /\ l[i] = ctls[e][i + 1]
  <2>1. i + 1 \in (a + 1)..Len(ctls[e]) /\ (i + 1) - 1 = i
    BY <1>7, <1>11
  <2>2. l[(i + 1) - 1] = ctls[e][i + 1]
    BY <1>11, <2>1
  <2> QED BY <2>1, <2>2
<1>17. Doing(e, f)'
  <2>1. Passed(e, a)'
    <3>1. ASSUME NEW i \in 1..(a - 1)
          PROVE  l[i].left > 0 /\ i \in DOMAIN promised[e] /\ promised[e][i] = Owing(l[i])
      BY <1>6, <1>11 DEF Assigning, Passed
    <3> QED BY <1>7, <1>10, <1>11, <3>1 DEF Passed
  <2>2. ASSUME NEW i \in a..Len(l), \A j \in a..i : l[j].left > 0
        PROVE  i - 0 \in DOMAIN promised[e] /\ promised[e][i - 0] = LessOwing(l[i])
    <3>1. \A j \in (a + 1)..(i + 1) : ctls[e][j].left > 0
      <4>1. SUFFICES ASSUME NEW j \in (a + 1)..(i + 1) PROVE ctls[e][j].left > 0
        OBVIOUS
      <4>2. j - 1 \in a..i /\ j - 1 \in a..Len(l) /\ (j - 1) + 1 = j
        BY <1>7, <1>11
      <4>3. l[j - 1] = ctls[e][(j - 1) + 1]
        BY <1>16, <4>2
      <4> QED BY <2>2, <4>2, <4>3
    <3>2. i + 1 \in (a + 1)..Len(ctls[e]) /\ l[i] = ctls[e][i + 1] /\ (i + 1) - 1 = i - 0
      BY <1>7, <1>11, <1>16
    <3>3. Ahead(e, a + 1, 1)
      BY <1>6 DEF Assigning
    <3>4. (i + 1) - 1 \in DOMAIN promised[e] /\ promised[e][(i + 1) - 1] = LessOwing(ctls[e][i + 1])
      BY <3>1, <3>2, <3>3 DEF Ahead, AllWait
    <3> QED BY <3>2, <3>4
  <2>3. Ahead(e, a, 0)'
    BY <1>10, <1>11, <2>2 DEF Ahead, AllWait
  <2>4. a \in 1..(Len(ctls'[e]) + 1)
    BY <1>7, <1>11
  <2>5. Running(e, a)'
    BY <2>1, <2>3, <2>4 DEF Running
  <2>6. f.op = "run" /\ f.at = a
    BY <1>12
  <2> QED BY <2>5, <2>6 DEF Doing, Running, Passed, Ahead, AllWait
<1>18. Alone(e, Call) => Alone(e, f)'
  <2>1. SUFFICES ASSUME Alone(e, Call) PROVE Alone(e, f)'
    OBVIOUS
  <2>2. AllWait(e, a + 1, Len(ctls[e])) /\ Len(promised[e]) = Len(ctls[e]) - 1
    BY <1>2, <1>5, <2>1 DEF Alone
  <2>3. ASSUME NEW j \in a..Len(l) PROVE l[j].left > 0
    BY <1>16, <2>2 DEF AllWait
  <2>4. Len(ctls'[e]) = Len(l) /\ Len(promised'[e]) = Len(l)
    BY <1>10, <1>11, <2>2
  <2> QED BY <1>11, <1>12, <2>3, <2>4 DEF Alone, AllWait
<1>19. Blocked(e, Call) => Blocked(e, f)'
  <2>1. SUFFICES ASSUME Blocked(e, Call) PROVE Blocked(e, f)'
    OBVIOUS
  <2>2. PICK i \in DOMAIN ctls[e] : ctls[e][i].left = 0 /\ i > a
    BY <1>2, <1>5, <2>1 DEF Blocked
  <2>3. i \in (a + 1)..Len(ctls[e]) /\ i - 1 >= a /\ i - 1 \in DOMAIN l
    BY <1>7, <1>11, <2>2
  <2>4. l[i - 1].left = 0
    BY <1>11, <2>2, <2>3
  <2> QED BY <1>11, <1>12, <2>3, <2>4 DEF Blocked
<1>20. IF Without(Tail(calls), e) THEN Alone(e, f)' ELSE Blocked(e, f)'
  BY <1>3, <1>4, <1>18, <1>19
<1>21. InControls(f, e) /\ Call.op # "send"
  BY <1>2, <1>12 DEF InControls
<1>22. \A g \in Events \ {e} : ctls'[g] = ctls[g] /\ last'[g] = last[g] /\ promised'[g] = promised[g]
  BY <1>10, <1>11
<1> QED BY <1>2, <1>4, <1>10, <1>13, <1>14, <1>15, <1>17, <1>20, <1>21, <1>22, LoopTurn

(* The loop is through: only the outermost comes to the end of the list.   *)
LEMMA WakeThreadsLoop ==
    ASSUME LoopInv, EventTypes, WakeThreads
    PROVE  LoopInv'
<1>1. LoopTypes /\ NetlistOK /\ CallsOK /\ PromisesOK /\ \A g \in Events : ControlsOK(g)
  BY DEF LoopInv
<1>2. calls # <<>> /\ Call.op = "run" /\ Call.at > Len(ctls[Call.net])
  BY DEF WakeThreads, InCall
<1>3. /\ Call.net \in Events /\ Doing(Call.net, Call)
      /\ IF Without(Tail(calls), Call.net) THEN Alone(Call.net, Call) ELSE Blocked(Call.net, Call)
  BY <1>2, InLoop
<1>4. PICK e \in Events : e = Call.net
  BY <1>3
<1>5. PICK a : a = Call.at
  OBVIOUS
<1>6. Running(e, a)
  BY <1>2, <1>3, <1>4, <1>5 DEF Doing
<1>7. /\ Len(ctls[e]) \in Nat /\ DOMAIN ctls[e] = 1..Len(ctls[e]) /\ a = Len(ctls[e]) + 1
  <2>1. ctls[e] \in Seq(Control)
    BY <1>1 DEF LoopTypes
  <2>2. Len(ctls[e]) \in Nat /\ DOMAIN ctls[e] = 1..Len(ctls[e])
    BY <2>1
  <2>3. a \in 1..(Len(ctls[e]) + 1) /\ a > Len(ctls[e])
    BY <1>2, <1>4, <1>5, <1>6 DEF Running
  <2> QED BY <2>2, <2>3
<1>8. Without(Tail(calls), e) /\ Alone(e, Call)
  <2>1. SUFFICES ASSUME Blocked(e, Call) PROVE FALSE
    BY <1>3, <1>4
  <2>2. PICK i \in DOMAIN ctls[e] : i >= a
    BY <1>2, <1>5, <2>1 DEF Blocked
  <2> QED BY <1>7, <2>2
<1>9. Kept(e)
  <2>1. last[e] = Len(ctls[e]) /\ Len(promised[e]) = Len(ctls[e])
    BY <1>2, <1>6, <1>7, <1>8 DEF Running, Passed, Alone
  <2>2. \A i \in DOMAIN ctls[e] : ctls[e][i].left > 0 /\ promised[e][i] = Owing(ctls[e][i])
    BY <1>6, <1>7 DEF Running, Passed
  <2> QED BY <2>1, <2>2 DEF Kept
<1>10. PICK t \in Seq(CallSet) : t = Tail(calls) /\ OnTop(CallSet, calls, 1, t) /\ Call = calls[1]
  BY <1>1, <1>2, TheCall
<1>11. calls' = Send(e) \o t /\ UNCHANGED <<netlist, ctls, last, promised>>
  BY <1>4, <1>10 DEF WakeThreads
<1>12. Sent(calls', e, 1, t)
  <2>1. e \in Nets /\ 1 \in Nat \ {0}
    BY Constants
  <2> QED BY <1>11, <2>1, SendOnTop DEF Send
<1>13. \E q \in {0, 1} :
          /\ OnTop(CallSet, calls', q, t)
          /\ q = 1 => calls'[1].op = "send" /\ calls'[1].at <= Len(fanout[calls'[1].net])
  <2>1. CASE 1 > Len(fanout[e])
    <3>1. calls' = t
      BY <1>12, <2>1 DEF Sent
    <3> QED BY <3>1, SelfOnTop
  <2>2. CASE ~(1 > Len(fanout[e]))
    <3>1. OnTop(CallSet, calls', 1, t) /\ calls'[1] = [op |-> "send", net |-> e, at |-> 1]
      BY <1>12, <2>2 DEF Sent
    <3>2. Len(fanout[e]) \in Nat
      BY <1>1, Constants DEF NetlistOK
    <3> QED BY <2>2, <3>1, <3>2
  <2> QED BY <2>1, <2>2
<1>14. PICK q \in {0, 1} :
          /\ OnTop(CallSet, calls', q, t)
          /\ q = 1 => calls'[1].op = "send" /\ calls'[1].at <= Len(fanout[calls'[1].net])
  BY <1>13
<1>15. Moved(1, q, t)
  BY <1>10, <1>14 DEF Moved
<1>16. \A g : Quiet(calls', q, g)
  BY <1>14 DEF Quiet, InControls
<1>17. LoopTypes'
  BY <1>1, <1>11, <1>14 DEF LoopTypes, OnTop
<1>18. NetlistOK'
  BY <1>1, <1>2, <1>11, NetlistKeeps
<1>19. CallsOK'
  <2>1. \A k \in 1..q : CallOK(calls'[k], k)
    BY <1>14 DEF CallOK
  <2> QED BY <1>1, <1>11, <1>15, <2>1, CallsMove DEF netlist
<1>20. PromisesOK'
  BY <1>1, <1>11 DEF PromisesOK, Distinct
<1>21. ControlsOK(e)'
  <2>1. Without(calls', e)
    <3>1. OnTop(CallSet, t, 0, t) /\ Quiet(t, 0, e) /\ Quiet(calls', q, e) /\ q \in Nat
      <4>1. OnTop(CallSet, t, 0, t)
        BY <1>10, SelfOnTop
      <4>2. Quiet(t, 0, e)
        BY DEF Quiet
      <4> QED BY <1>16, <4>1, <4>2
    <3>2. 0 \in Nat /\ OnTop(CallSet, calls', q, t)
      BY <1>14
    <3>3. Without(t, e) => Without(calls', e)
      BY <3>1, <3>2, SameControls
    <3> QED BY <1>8, <1>10, <3>3
  <2>2. Kept(e)'
    BY <1>9, <1>11 DEF Kept
  <2>3. ASSUME NEW k \in DOMAIN calls' PROVE ~Innermost(calls', e, k)
    BY <2>1 DEF Without, Innermost
  <2> QED BY <2>1, <2>2, <2>3 DEF ControlsOK
<1>22. ASSUME NEW g \in Events \ {e} PROVE ControlsOK(g)'
  <2>1. Quiet(calls, 1, g)
    BY <1>4, <1>10 DEF Quiet, InControls
  <2>2. Quiet(calls', q, g)
    BY <1>16
  <2> QED BY <1>1, <1>11, <1>15, <2>1, <2>2, ControlsElsewhere
<1> QED BY <1>17, <1>18, <1>19, <1>20, <1>21, <1>22 DEF LoopInv

-----------------------------------------------------------------------------
(***************************************************************************)
(* What threads do when no value is on its way, and the other steps.       *)
(***************************************************************************)
LEMMA IdleControls ==
    ASSUME LoopInv, Idle
    PROVE  /\ calls = <<>> /\ compiled = Events /\ OnTop(CallSet, calls, 0, <<>>)
           /\ \A e \in Events : Kept(e)
<1>1. calls = <<>> /\ compiled = Events
  BY DEF Idle
<1>2. OnTop(CallSet, calls, 0, <<>>)
  <2>1. <<>> \in Seq(CallSet)
    OBVIOUS
  <2> QED BY <1>1, <2>1, SelfOnTop
<1>3. ASSUME NEW e \in Events PROVE Kept(e)
  <2>1. Without(calls, e)
    BY <1>1 DEF Without
  <2> QED BY <2>1 DEF LoopInv, ControlsOK
<1> QED BY <1>1, <1>2, <1>3

(* Without calls, the controls of every event are kept or nothing is.      *)
LEMMA KeptControls ==
    ASSUME NEW e \in Events, calls' = <<>>, Kept(e)'
    PROVE  ControlsOK(e)'
BY DEF ControlsOK

LEMMA AssertFailsLoop ==
    ASSUME LoopInv, UNCHANGED <<netlist, ctls, last, calls, promised>>
    PROVE  LoopInv'
<1>1. LoopTypes /\ NetlistOK /\ CallsOK /\ PromisesOK /\ \A g \in Events : ControlsOK(g)
  BY DEF LoopInv
<1>2. LoopTypes' /\ PromisesOK'
  BY <1>1 DEF LoopTypes, PromisesOK, Distinct
<1>3. NetlistOK'
  BY <1>1 DEF NetlistOK, netlist
<1>4. CallsOK'
  BY <1>1 DEF CallsOK, netlist
<1>5. ASSUME NEW e \in Events PROVE ControlsOK(e)'
  <2>1. /\ Without(calls', e) => Without(calls, e)
        /\ Kept(e) => Kept(e)'
    BY DEF Kept
  <2>2. ASSUME NEW k \in DOMAIN calls', Innermost(calls', e, k)
        PROVE  /\ Doing(e, calls[k])'
               /\ IF Only(calls', e, k) THEN Alone(e, calls[k])' ELSE Blocked(e, calls[k])'
    <3>1. PICK f : f = calls[k]
      OBVIOUS
    <3>2. k \in DOMAIN calls /\ Innermost(calls, e, k) /\ f = calls'[k]
      BY <2>2, <3>1
    <3>3. Doing(e, f) /\ IF Only(calls, e, k) THEN Alone(e, f) ELSE Blocked(e, f)
      BY <1>1, <3>1, <3>2 DEF ControlsOK
    <3>4. Only(calls', e, k) <=> Only(calls, e, k)
      OBVIOUS
    <3> QED BY <3>2, <3>3, <3>4, DoingNext, StillDoing
  <2> QED BY <1>1, <2>1, <2>2 DEF ControlsOK
<1> QED BY <1>2, <1>3, <1>4, <1>5 DEF LoopInv

(* A send from the first functor is at most one call.                      *)
LEMMA SendFacts ==
    ASSUME NetlistOK, NEW n \in Nets, NEW t, t \in Seq(CallSet), calls' = Send(n) \o t
    PROVE  \E q \in {0, 1} :
              /\ OnTop(CallSet, calls', q, t)
              /\ q = 0 <=> 1 > Len(fanout[n])
              /\ q = 1 => /\ calls'[1] = [op |-> "send", net |-> n, at |-> 1]
                          /\ calls'[1].op = "send" /\ calls'[1].at <= Len(fanout[calls'[1].net])
<1>1. Sent(calls', n, 1, t)
  <2>1. 1 \in Nat \ {0}
    OBVIOUS
  <2> QED BY <2>1, SendOnTop DEF Send
<1>2. CASE 1 > Len(fanout[n])
  <2>1. calls' = t
    BY <1>1, <1>2 DEF Sent
  <2> QED BY <1>2, <2>1, SelfOnTop
<1>3. CASE ~(1 > Len(fanout[n]))
  <2>1. OnTop(CallSet, calls', 1, t) /\ calls'[1] = [op |-> "send", net |-> n, at |-> 1]
    BY <1>1, <1>3 DEF Sent
  <2>2. Len(fanout[n]) \in Nat
    BY DEF NetlistOK
  <2> QED BY <1>3, <2>1, <2>2
<1> QED BY <1>2, <1>3

LEMMA StoreLoop ==
    ASSUME LoopInv, EventTypes, NEW s \in Signals, NEW v \in Values, Store(s, v)
    PROVE  LoopInv'
<1>1. Idle /\ calls' = Send(s) /\ UNCHANGED <<netlist, ctls, last, promised>>
  BY DEF Store, aux
<1>2. calls = <<>> /\ compiled = Events /\ OnTop(CallSet, calls, 0, <<>>)
  BY <1>1, IdleControls
<1>3. NetlistOK /\ s \in Nets /\ <<>> \in Seq(CallSet)
  BY Constants DEF LoopInv
<1>4. calls' = Send(s) \o <<>>
  <2>1. 1 \in Nat \ {0}
    OBVIOUS
  <2>2. [op |-> "send", net |-> s, at |-> 1] \in CallSet
    BY <1>3, <2>1, SendCall
  <2>3. Send(s) \in Seq(CallSet)
    BY <2>2 DEF Send, SendFrom
  <2> QED BY <1>1, <2>3
<1>5. PICK t : t \in Seq(CallSet) /\ t = <<>>
  BY <1>3
<1>6. PICK q \in {0, 1} :
          /\ OnTop(CallSet, calls', q, t)
          /\ q = 1 => calls'[1].op = "send" /\ calls'[1].at <= Len(fanout[calls'[1].net])
  BY <1>3, <1>4, <1>5, SendFacts
<1>7. Moved(0, q, t)
  BY <1>2, <1>5, <1>6 DEF Moved
<1>8. \A k \in 1..q : calls'[k].op = "send" /\ calls'[k].at <= Len(fanout[calls'[k].net])
  BY <1>6
<1> QED BY <1>1, <1>2, <1>7, <1>8, SendsKeep

LEMMA TriggerLoop ==
    ASSUME LoopInv, EventTypes, NEW e \in Events, Trigger(e)
    PROVE  LoopInv'
<1>1. Idle /\ StartRun(e, <<>>) /\ UNCHANGED <<netlist, ctls>>
  BY DEF Trigger
<1>2. calls = <<>> /\ compiled = Events /\ OnTop(CallSet, calls, 0, <<>>)
  BY <1>1, IdleControls
<1>3. PICK t : t = <<>>
  OBVIOUS
<1>4. t \in Seq(CallSet) /\ OnTop(CallSet, t, 0, t) /\ 0 \in Nat
  <2>1. t \in Seq(CallSet)
    BY <1>3
  <2> QED BY <2>1, SelfOnTop
<1>5. /\ OnTop(CallSet, calls', 0 + 1, t) /\ OnTop(CallSet, calls', 1, t)
      /\ calls'[1] = [op |-> "run", net |-> e, at |-> 1]
  BY <1>1, <1>3, <1>4, StartRunOnTop
<1>6. Starts(e, 0, 0, t, t)
  BY <1>2, <1>3, <1>4, <1>5 DEF Starts, Moved
<1> QED BY <1>1, <1>2, <1>3, <1>6, StartsKeeps

LEMMA WaitForLoop ==
    ASSUME LoopInv, NEW t \in Waiters, NEW e \in Awaited, WaitFor(t, e)
    PROVE  LoopInv'
BY AssertFailsLoop DEF WaitFor, aux

(* A control that is made becomes the last, with an id of its own.         *)
LEMMA ScheduleControlLoop ==
    ASSUME LoopInv, NEW e \in Controlled, NEW count \in 1..MaxCount, NEW s \in Signals, NEW v \in Values,
           ScheduleControl(e, count, s, v)
    PROVE  LoopInv'
<1>1. LoopTypes /\ NetlistOK /\ CallsOK /\ PromisesOK /\ e \in Events
  BY Constants DEF LoopInv
<1>2. Idle /\ FreeIds # {} /\ UNCHANGED <<netlist, calls>> /\ last' = [last EXCEPT ![e] = @ + 1]
  BY DEF ScheduleControl
<1>3. calls = <<>> /\ \A g \in Events : Kept(g)
  BY <1>2, IdleControls
<1>4. PICK i \in FreeIds : i = CHOOSE j \in FreeIds : TRUE
  BY <1>2
<1>5. PICK c : c = [id |-> i, left |-> count, signal |-> s, value |-> v]
  OBVIOUS
<1>6. PICK o : o = [id |-> i, left |-> count]
  OBVIOUS
<1>7. i \in Ids /\ \A k \in DOMAIN promised[e] : promised[e][k].id # i
  BY <1>1 DEF FreeIds
<1>8. c \in Control /\ o \in Promise /\ Owing(c) = o /\ c.left > 0
  <2>1. count \in 0..MaxCount /\ count > 0
    BY Constants
  <2> QED BY <1>5, <1>6, <1>7, <2>1 DEF Control, Promise, Owing
<1>9. /\ ctls[e] \in Seq(Control) /\ promised[e] \in Seq(Promise)
      /\ Len(ctls[e]) \in Nat /\ Len(promised[e]) = Len(ctls[e]) /\ last[e] = Len(ctls[e])
      /\ DOMAIN ctls[e] = 1..Len(ctls[e]) /\ DOMAIN promised[e] = 1..Len(ctls[e])
      /\ Distinct(promised[e])
      /\ \A k \in DOMAIN ctls[e] : ctls[e][k].left > 0 /\ promised[e][k] = Owing(ctls[e][k])
  BY <1>1, <1>3 DEF LoopTypes, PromisesOK, Kept
<1>10. PICK l : l = Append(ctls[e], c)
  OBVIOUS
<1>11. PICK p : p = Append(promised[e], o)
  OBVIOUS
<1>12. /\ l \in Seq(Control) /\ Len(l) = Len(ctls[e]) + 1 /\ l[Len(l)] = c /\ DOMAIN l = 1..Len(l)
       /\ \A k \in DOMAIN ctls[e] : l[k] = ctls[e][k]
  BY <1>8, <1>9, <1>10
<1>13. /\ p \in Seq(Promise) /\ Len(p) = Len(l) /\ p[Len(l)] = o /\ DOMAIN p = 1..Len(l)
       /\ \A k \in DOMAIN ctls[e] : p[k] = promised[e][k]
  BY <1>8, <1>9, <1>11, <1>12
<1>14. ctls' = [ctls EXCEPT ![e] = l]
  <2>1. SubSeq(ctls[e], 1, last[e]) = ctls[e]
    BY <1>9
  <2>2. Appended(ctls[e], last[e], c) = l
    BY <1>10, <2>1 DEF Appended
  <2> QED BY <1>4, <1>5, <2>2 DEF ScheduleControl
<1>15. promised' = [promised EXCEPT ![e] = p]
  <2>1. c.id = i
    BY <1>5
  <2> QED BY <1>4, <1>5, <1>6, <1>11, <2>1 DEF ScheduleControl
<1>16. /\ ctls'[e] = l /\ promised'[e] = p /\ last'[e] = Len(l)
       /\ ctls' \in [Events -> Seq(Control)] /\ promised' \in [Events -> Seq(Promise)]
       /\ \A g \in Events \ {e} : ctls'[g] = ctls[g] /\ promised'[g] = promised[g] /\ last'[g] = last[g]
  BY <1>1, <1>2, <1>9, <1>12, <1>13, <1>14, <1>15 DEF LoopTypes, PromisesOK
<1>17. LoopTypes'
  <2>1. last' \in [Events -> Nat]
    BY <1>1, <1>2 DEF LoopTypes
  <2>2. ASSUME NEW g \in Events PROVE last'[g] <= Len(ctls'[g])
    <3>1. CASE g = e
      BY <1>9, <1>12, <1>16, <3>1
    <3>2. CASE g # e
      BY <1>1, <1>16, <3>2 DEF LoopTypes
    <3> QED BY <3>1, <3>2
  <2> QED BY <1>1, <1>2, <1>16, <2>1, <2>2 DEF LoopTypes
<1>18. NetlistOK' /\ CallsOK'
  BY <1>1, <1>2 DEF NetlistOK, CallsOK, netlist
<1>19. Distinct(p)
  <2>1. ASSUME NEW j \in DOMAIN p, NEW k \in DOMAIN p, p[j].id = p[k].id PROVE j = k
    <3>1. ASSUME NEW m \in DOMAIN p, m # Len(l)
          PROVE  m \in DOMAIN promised[e] /\ p[m] = promised[e][m]
      BY <1>9, <1>12, <1>13, <3>1
    <3>2. p[Len(l)].id = i
      BY <1>6, <1>13
    <3>3. CASE j = Len(l)
      BY <1>7, <2>1, <3>1, <3>2, <3>3
    <3>4. CASE k = Len(l)
      BY <1>7, <2>1, <3>1, <3>2, <3>4
    <3>5. CASE j # Len(l) /\ k # Len(l)
      BY <1>9, <2>1, <3>1, <3>5 DEF Distinct
    <3> QED BY <3>3, <3>4, <3>5
  <2> QED BY <2>1 DEF Distinct
<1>20. PromisesOK'
  <2>1. \A g \in Events : Distinct(promised'[g])
    BY <1>1, <1>16, <1>19 DEF PromisesOK
  <2> QED BY <1>16, <2>1 DEF PromisesOK, Distinct
<1>21. Kept(e)'
  <2>1. ASSUME NEW k \in 1..Len(l) PROVE l[k].left > 0 /\ p[k] = Owing(l[k])
    <3>1. CASE k = Len(l)
      BY <1>8, <1>12, <1>13, <3>1
    <3>2. CASE k # Len(l)
      <4>1. k \in DOMAIN ctls[e]
        BY <1>9, <1>12, <3>2
      <4> QED BY <1>9, <1>12, <1>13, <4>1
    <3> QED BY <3>1, <3>2
  <2> QED BY <1>12, <1>13, <1>16, <2>1 DEF Kept
<1>22. ASSUME NEW g \in Events PROVE ControlsOK(g)'
  <2>1. CASE g = e
    BY <1>2, <1>3, <1>21, <2>1, KeptControls
  <2>2. CASE g # e
    <3>1. Kept(g)'
      BY <1>3, <1>16, <2>2 DEF Kept
    <3> QED BY <1>2, <1>3, <3>1, KeptControls
  <2> QED BY <2>1, <2>2
<1> QED BY <1>17, <1>18, <1>20, <1>22 DEF LoopInv

(* No value is on its way before the last event is compiled.               *)
LEMMA CompileLoop ==
    ASSUME LoopInv, NEW e \in Events, Compile(e)
    PROVE  LoopInv'
<1>1. LoopTypes /\ NetlistOK /\ CallsOK /\ PromisesOK
  BY DEF LoopInv
<1>2. /\ e \notin compiled /\ compiled' = compiled \cup {e}
      /\ UNCHANGED <<ctls, last, calls, promised>>
  BY DEF Compile, aux
<1>3. calls = <<>>
  BY <1>1, <1>2 DEF NetlistOK
<1>4. fanout \in [Nets -> Seq(Events)]
  BY <1>1 DEF NetlistOK
<1>5. ASSUME NEW n \in Nets, n \in Inputs[e]
      PROVE  /\ fanout'[n] \in Seq(Events) /\ ToSet(fanout'[n]) = {e} \cup ToSet(fanout[n])
             /\ \A i \in DOMAIN fanout'[n] : n \in Inputs[fanout'[n][i]]
  <2>1. PICK l \in Seq(Events) : l = fanout[n]
    BY <1>4
  <2>2. PICK r : r = <<e>> \o l
    OBVIOUS
  <2>3. fanout'[n] = r
    BY <1>5, <2>1, <2>2 DEF Compile
  <2>4. r \in Seq(Events) /\ Len(r) = Len(l) + 1 /\ r[1] = e /\ \A i \in 1..Len(l) : r[i + 1] = l[i]
    BY <2>2
  <2>5. ToSet(r) = {e} \cup ToSet(l)
    BY <2>2, ToSetCons
  <2>6. ASSUME NEW i \in 1..Len(r) PROVE n \in Inputs[r[i]]
    <3>1. CASE i = 1
      BY <1>5, <2>4, <3>1
    <3>2. CASE i # 1
      <4>1. i - 1 \in 1..Len(l) /\ (i - 1) + 1 = i
        BY <2>4, <3>2
      <4>2. r[i] = l[i - 1]
        BY <2>4, <4>1
      <4> QED BY <1>1, <2>1, <4>1, <4>2 DEF NetlistOK
    <3> QED BY <3>1, <3>2
  <2> QED BY <2>1, <2>3, <2>4, <2>5, <2>6
<1>6. ASSUME NEW n \in Nets, n \notin Inputs[e] PROVE fanout'[n] = fanout[n]
  BY <1>6 DEF Compile
<1>7. fanout' \in [Nets -> Seq(Events)]
  <2>1. fanout' = [n \in Nets |-> IF n \in Inputs[e] THEN <<e>> \o fanout[n] ELSE fanout[n]]
    BY DEF Compile
  <2>2. \A n \in Nets : fanout'[n] \in Seq(Events)
    BY <1>4, <1>5, <1>6
  <2>3. DOMAIN fanout' = Nets
    BY <2>1
  <2> QED BY <2>1, <2>2, <2>3
<1>8. NetlistOK'
  <2>1. \A n \in Nets : \A i \in DOMAIN fanout'[n] : n \in Inputs[fanout'[n][i]]
    BY <1>1, <1>5, <1>6 DEF NetlistOK
  <2>2. ASSUME NEW g \in compiled', NEW n \in Inputs[g] PROVE g \in ToSet(fanout'[n])
    <3>1. g \in Events /\ n \in Nets
      BY <1>1, <1>2, Constants DEF NetlistOK
    <3>2. CASE g = e
      BY <1>5, <3>1, <3>2
    <3>3. CASE g # e
      <4>1. g \in ToSet(fanout[n])
        BY <1>1, <1>2, <3>3 DEF NetlistOK
      <4> QED BY <1>5, <1>6, <3>1, <4>1
    <3> QED BY <3>2, <3>3
  <2> QED BY <1>1, <1>2, <1>3, <1>7, <2>1, <2>2 DEF NetlistOK
<1>9. LoopTypes' /\ PromisesOK'
  BY <1>1, <1>2 DEF LoopTypes, PromisesOK, Distinct
<1>10. CallsOK'
  BY <1>2, <1>3 DEF CallsOK
<1>11. ASSUME NEW g \in Events PROVE ControlsOK(g)'
  <2>1. Without(calls, g)
    BY <1>3 DEF Without
  <2>2. Kept(g)
    BY <2>1 DEF LoopInv, ControlsOK
  <2>3. Kept(g)'
    BY <1>2, <2>2 DEF Kept
  <2> QED BY <1>2, <1>3, <2>3, KeptControls
<1> QED BY <1>8, <1>9, <1>10, <1>11 DEF LoopInv

LEMMA LoopKeeps ==
    ASSUME LoopInv, EventTypes, [EventNext]_eventVars
    PROVE  LoopInv'
<1>1. ASSUME NEW e \in Events, Compile(e) PROVE LoopInv'
  BY <1>1, CompileLoop
<1>2. CASE Deliver
  BY <1>2, DeliverLoop
<1>3. CASE CountDown
  BY <1>3, CountDownLoop
<1>4. CASE RunControl
  BY <1>4, RunControlLoop
<1>5. CASE AssertFails
  BY <1>5, AssertFailsLoop DEF AssertFails, aux
<1>6. CASE DeleteControl
  BY <1>6, DeleteControlLoop
<1>7. CASE WakeThreads
  BY <1>7, WakeThreadsLoop
<1>8. ASSUME NEW s \in Signals, NEW v \in Values, Store(s, v) PROVE LoopInv'
  BY <1>8, StoreLoop
<1>9. ASSUME NEW e \in Events, Trigger(e) PROVE LoopInv'
  BY <1>9, TriggerLoop
<1>10. ASSUME NEW e \in Controlled, NEW count \in 1..MaxCount, NEW s \in Signals, NEW v \in Values,
              ScheduleControl(e, count, s, v)
       PROVE  LoopInv'
  BY <1>10, ScheduleControlLoop
<1>11. ASSUME NEW t \in Waiters, NEW e \in Awaited, WaitFor(t, e) PROVE LoopInv'
  BY <1>11, WaitForLoop
<1>12. CASE UNCHANGED eventVars
  BY <1>12, AssertFailsLoop DEF eventVars, netlist
<1> QED BY <1>1, <1>2, <1>3, <1>4, <1>5, <1>6, <1>7, <1>8, <1>9, <1>10, <1>11, <1>12 DEF EventNext

-----------------------------------------------------------------------------
(***************************************************************************)
(* What is stored: the values, what the functors have seen, the threads.   *)
(***************************************************************************)

(* Only what e has seen of the signal n changes, to v.                     *)
Sees(e, n, v) ==
    /\ bits' \in [Events -> UNION {[Inputs[g] \cap Signals -> Bit4] : g \in Events}]
    /\ \A g \in Events : bits'[g] \in [Inputs[g] \cap Signals -> Bit4]
    /\ bits'[e][n] = v
    /\ \A g \in Events, m \in Signals :
          m \in Inputs[g] /\ (g # e \/ m # n) => bits'[g][m] = bits[g][m]

LEMMA SeenFacts ==
    ASSUME StoreTypes, NEW e \in Events, NEW n \in Inputs[e] \cap Signals, NEW v \in Bit4,
           bits' = [bits EXCEPT ![e][n] = v]
    PROVE  Sees(e, n, v)
<1>1. /\ bits \in [Events -> UNION {[Inputs[g] \cap Signals -> Bit4] : g \in Events}]
      /\ \A g \in Events : bits[g] \in [Inputs[g] \cap Signals -> Bit4]
  BY DEF StoreTypes
<1>2. PICK b : b = [bits[e] EXCEPT ![n] = v]
  OBVIOUS
<1>3. /\ b \in [Inputs[e] \cap Signals -> Bit4] /\ b[n] = v
      /\ \A m \in Inputs[e] \cap Signals : m # n => b[m] = bits[e][m]
  BY <1>1, <1>2
<1>4. bits' = [bits EXCEPT ![e] = b]
  BY <1>2
<1>5. bits'[e] = b /\ \A g \in Events : g # e => bits'[g] = bits[g]
  BY <1>1, <1>4
<1>6. \A g \in Events : bits'[g] \in [Inputs[g] \cap Signals -> Bit4]
  BY <1>1, <1>3, <1>5
<1>7. bits' \in [Events -> UNION {[Inputs[g] \cap Signals -> Bit4] : g \in Events}]
  <2>1. b \in UNION {[Inputs[g] \cap Signals -> Bit4] : g \in Events}
    BY <1>3
  <2> QED BY <1>1, <1>4, <2>1
<1> QED BY <1>3, <1>5, <1>6, <1>7 DEF Sees

LEMMA SeesTypes ==
    ASSUME StoreTypes, NEW e, NEW n, NEW v, Sees(e, n, v), UNCHANGED <<value, threads, aborted>>
    PROVE  StoreTypes'
<1>1. \A g \in Events : bits'[g] \in [Inputs[g] \cap Signals -> Bit4]
  BY DEF Sees
<1>2. bits' \in [Events -> UNION {[Inputs[g] \cap Signals -> Bit4] : g \in Events}]
  BY DEF Sees
<1>3. /\ value' \in [Signals -> Bit4] /\ aborted' \in BOOLEAN
      /\ threads' \in [Events -> Seq(Waiters)] /\ \A g \in Events : IsInjective(threads'[g])
  BY DEF StoreTypes
<1> QED BY <1>1, <1>2, <1>3 DEF StoreTypes

(* The functor that a send reaches has then seen the value of the signal.  *)
LEMMA DeliverSees ==
    ASSUME LoopInv, EventTypes, Deliver
    PROVE  /\ Call.net \in Events => bits' = bits
           /\ Call.net \in Signals =>
                 Sees(fanout[Call.net][Call.at], Call.net, value[Call.net])
<1>1. NetlistOK /\ CallsOK /\ calls # <<>> /\ Call.op = "send" /\ StoreTypes
  BY TypeHalves DEF LoopInv, Deliver, InCall
<1>2. /\ fanout[Call.net][Call.at] \in Events
      /\ Call.net \in Inputs[fanout[Call.net][Call.at]]
  BY <1>1, TheCall
<1>3. ASSUME Call.net \in Signals
      PROVE  Sees(fanout[Call.net][Call.at], Call.net, value[Call.net])
  <2>1. Call.net \notin Events
    BY <1>3, Constants
  <2>2. bits' = [bits EXCEPT ![fanout[Call.net][Call.at]][Call.net] = value[Call.net]]
    BY <1>3, <2>1 DEF Deliver, Seen, Delivered
  <2>3. value[Call.net] \in Bit4
    BY <1>1, <1>3 DEF StoreTypes
  <2> QED BY <1>1, <1>2, <1>3, <2>2, <2>3, SeenFacts
<1>4. Call.net \in Events => bits' = bits
  BY DEF Deliver
<1> QED BY <1>3, <1>4

(* A thread is taken into the list of an event, or the list is emptied.    *)
LEMMA ThreadsTyped ==
    ASSUME StoreTypes, NEW e \in Events, NEW l \in Seq(Waiters), IsInjective(l),
           threads' = [threads EXCEPT ![e] = l], UNCHANGED <<value, bits, aborted>>
    PROVE  StoreTypes'
<1>1. threads' \in [Events -> Seq(Waiters)] /\ \A g \in Events : IsInjective(threads'[g])
  <2>1. threads' \in [Events -> Seq(Waiters)] /\ threads'[e] = l
        /\ \A g \in Events : g # e => threads'[g] = threads[g]
    BY DEF StoreTypes
  <2>2. \A g \in Events : IsInjective(threads'[g])
    BY <2>1 DEF StoreTypes
  <2> QED BY <2>1, <2>2
<1> QED BY <1>1 DEF StoreTypes, IsInjective

LEMMA StoreKeeps ==
    ASSUME LoopInv, EventTypes, [EventNext]_eventVars
    PROVE  StoreTypes'
<1>1. StoreTypes /\ LoopTypes /\ NetlistOK /\ CallsOK
  BY TypeHalves DEF LoopInv
<1>2. ASSUME UNCHANGED <<value, bits, threads>>, aborted' \in BOOLEAN PROVE StoreTypes'
  BY <1>1, <1>2 DEF StoreTypes, IsInjective
<1>3. aborted \in BOOLEAN
  BY <1>1 DEF StoreTypes
<1>4. ASSUME NEW e \in Events, Compile(e) PROVE StoreTypes'
  BY <1>2, <1>3, <1>4 DEF Compile
<1>5. CASE Deliver
  <2>1. calls # <<>> /\ Call.op = "send" /\ UNCHANGED <<value, threads, aborted>>
    BY <1>5 DEF Deliver, InCall
  <2>2. Call.net \in Nets
    BY <1>1, <2>1, TheCall
  <2>3. CASE Call.net \in Events
    BY <1>2, <1>3, <1>5, <2>1, <2>3, DeliverSees
  <2>4. CASE Call.net \in Signals
    BY <1>1, <1>5, <2>1, <2>4, DeliverSees, SeesTypes
  <2> QED BY <2>2, <2>3, <2>4, Constants
<1>6. CASE CountDown
  BY <1>2, <1>3, <1>6 DEF CountDown
<1>7. CASE RunControl
  <2>1. /\ value' = [value EXCEPT ![Cur.signal] = Cur.value]
        /\ UNCHANGED <<bits, threads, aborted>>
    BY <1>7 DEF RunControl
  <2>2. Cur \in Control
    <3>1. Making(Call.net, Call.at)
      BY <1>7, RunControlMakes
    <3> QED BY <1>1, <3>1 DEF Making, LoopTypes, Cur
  <2>3. Cur.value \in Bit4
    BY <2>2, ControlTyped, Constants
  <2>4. value' \in [Signals -> Bit4]
    BY <1>1, <2>1, <2>3 DEF StoreTypes
  <2> QED BY <1>1, <2>1, <2>4 DEF StoreTypes, IsInjective
<1>8. CASE AssertFails
  BY <1>2, <1>8 DEF AssertFails
<1>9. CASE DeleteControl
  BY <1>2, <1>3, <1>9 DEF DeleteControl
<1>10. CASE WakeThreads
  <2>1. Call.net \in Events
    BY <1>1, <1>10, TheCall DEF WakeThreads, InCall
  <2>2. <<>> \in Seq(Waiters) /\ IsInjective(<<>>)
    BY DEF IsInjective
  <2> QED BY <1>1, <1>10, <2>1, <2>2, ThreadsTyped DEF WakeThreads
<1>11. ASSUME NEW s \in Signals, NEW v \in Values, Store(s, v) PROVE StoreTypes'
  <2>1. value' = [value EXCEPT ![s] = v] /\ UNCHANGED <<bits, threads, aborted>> /\ v \in Bit4
    BY <1>11, Constants DEF Store
  <2>2. value' \in [Signals -> Bit4]
    BY <1>1, <2>1 DEF StoreTypes
  <2> QED BY <1>1, <2>1, <2>2 DEF StoreTypes, IsInjective
<1>12. ASSUME NEW e \in Events, Trigger(e) PROVE StoreTypes'
  BY <1>2, <1>3, <1>12 DEF Trigger
<1>13. ASSUME NEW e \in Controlled, NEW count \in 1..MaxCount, NEW s \in Signals, NEW v \in Values,
              ScheduleControl(e, count, s, v)
       PROVE  StoreTypes'
  BY <1>2, <1>3, <1>13 DEF ScheduleControl
<1>14. ASSUME NEW t \in Waiters, NEW e \in Awaited, WaitFor(t, e) PROVE StoreTypes'
  <2>1. PICK l \in Seq(Waiters) : l = threads[e] /\ IsInjective(l) /\ e \in Events
    BY <1>1, Constants DEF StoreTypes
  <2>2. t \notin ToSet(l)
    BY <1>14, <2>1 DEF WaitFor, Waiting
  <2>3. <<t>> \o l \in Seq(Waiters) /\ IsInjective(<<t>> \o l)
    BY <2>1, <2>2, ConsInjective
  <2>4. threads' = [threads EXCEPT ![e] = <<t>> \o l] /\ UNCHANGED <<value, bits, aborted>>
    BY <1>14, <2>1 DEF WaitFor
  <2> QED BY <1>1, <2>1, <2>3, <2>4, ThreadsTyped
<1>15. CASE UNCHANGED eventVars
  BY <1>2, <1>3, <1>15 DEF eventVars
<1> QED BY <1>4, <1>5, <1>6, <1>7, <1>8, <1>9, <1>10, <1>11, <1>12, <1>13, <1>14, <1>15 DEF EventNext

-----------------------------------------------------------------------------
(***************************************************************************)
(* Where the calls that go on are found after a step.                      *)
(***************************************************************************)
LEMMA OldCalls ==
    ASSUME NEW h \in Nat, NEW p \in Nat, NEW t, OnTop(CallSet, calls, h, t), OnTop(CallSet, calls', p, t),
           NEW k \in DOMAIN calls, k > h
    PROVE  \E m \in DOMAIN calls' : calls'[m] = calls[k]
<1>1. /\ Len(t) \in Nat /\ Len(calls) = h + Len(t) /\ Len(calls') = p + Len(t)
      /\ DOMAIN calls = 1..Len(calls) /\ DOMAIN calls' = 1..Len(calls')
      /\ \A j \in 1..Len(t) : calls[h + j] = t[j] /\ calls'[p + j] = t[j]
  <2>1. /\ calls \in Seq(CallSet) /\ calls' \in Seq(CallSet) /\ t \in Seq(CallSet)
        /\ Len(calls) = h + Len(t) /\ Len(calls') = p + Len(t)
    BY DEF OnTop
  <2>2. \A j \in 1..Len(t) : calls[h + j] = t[j]
    BY DEF OnTop
  <2>3. \A j \in 1..Len(t) : calls'[p + j] = t[j]
    BY DEF OnTop
  <2> QED BY <2>1, <2>2, <2>3
<1>2. k - h \in 1..Len(t) /\ h + (k - h) = k /\ p + (k - h) \in DOMAIN calls'
  <2>1. k \in Nat /\ k <= h + Len(t)
    BY <1>1
  <2>2. PICK n \in Nat : n = Len(t)
    BY <1>1
  <2>3. \A i \in Nat : i > h /\ i <= h + n => 
           i - h \in 1..n /\ h + (i - h) = i /\ p + (i - h) \in 1..(p + n)
    OBVIOUS
  <2>4. k - h \in 1..n /\ h + (k - h) = k /\ p + (k - h) \in 1..(p + n)
    BY <2>1, <2>2, <2>3
  <2> QED BY <1>1, <2>2, <2>4
<1>3. calls'[p + (k - h)] = calls[h + (k - h)]
  BY <1>1, <1>2
<1> QED BY <1>2, <1>3

(* After Deliver: the next turn of the loop, and the event that happens.   *)
LEMMA DeliverCalls ==
    ASSUME LoopInv, EventTypes, Deliver,
           NEW n, n = Call.net, NEW at, at = Call.at, NEW e, e = fanout[n][at]
    PROVE  /\ \A k \in DOMAIN calls : k > 1 => \E m \in DOMAIN calls' : calls'[m] = calls[k]
           /\ at + 1 <= Len(fanout[n]) =>
                 \E m \in DOMAIN calls' : calls'[m] = [op |-> "send", net |-> n, at |-> at + 1]
           /\ StartRun(e, NextFunctor) =>
                 \E m \in DOMAIN calls' : calls'[m] = [op |-> "run", net |-> e, at |-> 1]
<1>1. NetlistOK /\ CallsOK
  BY DEF LoopInv
<1>2. InCall("send") /\ calls # <<>> /\ Call.op = "send"
  BY DEF Deliver, InCall
<1>3. /\ OnTop(CallSet, calls, 1, Tail(calls)) /\ e \in Events /\ n \in Nets /\ at \in Nat \ {0}
  BY <1>1, <1>2, TheCall
<1>4. PICK q \in {0, 1} :
          /\ OnTop(CallSet, NextFunctor, q, Tail(calls)) /\ NextFunctor \in Seq(CallSet)
          /\ q = 0 <=> at + 1 > Len(fanout[n])
          /\ q = 1 => NextFunctor[1] = [op |-> "send", net |-> n, at |-> at + 1]
  BY <1>1, <1>2, NextFunctorFacts
<1>5. PICK cs : cs = NextFunctor
  OBVIOUS
<1>6. PICK t : t = Tail(calls)
  OBVIOUS
<1>7. q \in Nat /\ 1 \in Nat /\ q + 1 \in Nat
  BY <1>4
<1>8. Len(fanout[n]) \in Nat
  BY <1>1, <1>3 DEF NetlistOK
<1>9. CASE StartRun(e, cs)
  <2>1. /\ OnTop(CallSet, calls', q + 1, t) /\ OnTop(CallSet, calls', 1, cs)
        /\ calls'[1] = [op |-> "run", net |-> e, at |-> 1]
    BY <1>3, <1>4, <1>5, <1>6, <1>7, <1>9, StartRunOnTop
  <2>2. ASSUME NEW k \in DOMAIN calls, k > 1 PROVE \E m \in DOMAIN calls' : calls'[m] = calls[k]
    BY <1>3, <1>6, <1>7, <2>1, <2>2, OldCalls
  <2>3. Len(cs) \in Nat /\ Len(calls') = 1 + Len(cs) /\ DOMAIN calls' = 1..Len(calls')
    BY <2>1 DEF OnTop
  <2>4. 1 \in DOMAIN calls'
    BY <2>3
  <2>5. ASSUME at + 1 <= Len(fanout[n])
        PROVE  \E m \in DOMAIN calls' : calls'[m] = [op |-> "send", net |-> n, at |-> at + 1]
    <3>1. q = 1
      BY <1>3, <1>4, <1>8, <2>5
    <3>2. cs[1] = [op |-> "send", net |-> n, at |-> at + 1] /\ 1 \in 1..Len(cs)
      BY <1>4, <1>5, <3>1 DEF OnTop
    <3>3. calls'[1 + 1] = cs[1]
      BY <2>1, <3>2 DEF OnTop
    <3>4. 1 + 1 \in DOMAIN calls'
      BY <2>3, <3>2
    <3> QED BY <3>2, <3>3, <3>4
  <2> QED BY <1>5, <2>1, <2>2, <2>4, <2>5
<1>10. CASE ~StartRun(e, cs)
  <2>1. calls' = cs
    BY <1>5, <1>10 DEF Deliver
  <2>2. ASSUME NEW k \in DOMAIN calls, k > 1 PROVE \E m \in DOMAIN calls' : calls'[m] = calls[k]
    BY <1>3, <1>4, <1>5, <1>7, <2>1, <2>2, OldCalls
  <2>3. ASSUME at + 1 <= Len(fanout[n])
        PROVE  \E m \in DOMAIN calls' : calls'[m] = [op |-> "send", net |-> n, at |-> at + 1]
    <3>1. q = 1
      BY <1>3, <1>4, <1>8, <2>3
    <3>2. Len(calls') \in Nat /\ DOMAIN calls' = 1..Len(calls') /\ Len(calls') >= 1
      BY <1>4, <1>5, <2>1, <3>1 DEF OnTop
    <3> QED BY <1>4, <1>5, <2>1, <3>1, <3>2
  <2> QED BY <1>5, <1>10, <2>2, <2>3
<1> QED BY <1>9, <1>10

(* One turn of the loop over the controls of e leaves a call in the loop.  *)
LEMMA TurnCalls ==
    ASSUME LoopInv, EventTypes, CountDown \/ RunControl \/ DeleteControl
    PROVE  /\ calls # <<>> /\ Call.op # "send" /\ Call.net \in Events
           /\ \A k \in DOMAIN calls : k > 1 => \E m \in DOMAIN calls' : calls'[m] = calls[k]
           /\ \E m \in DOMAIN calls' : calls'[m].op # "send" /\ calls'[m].net = Call.net
<1>1. NetlistOK /\ CallsOK
  BY DEF LoopInv
<1>2. calls # <<>> /\ Call.op # "send"
  BY DEF CountDown, RunControl, DeleteControl, AtControl, InCall
<1>3. /\ OnTop(CallSet, calls, 1, Tail(calls)) /\ Call.net \in Events /\ Tail(calls) \in Seq(CallSet)
      /\ Call = [op |-> Call.op, net |-> Call.net, at |-> Call.at]
      /\ Call.net \in Nets /\ Call.at \in Nat \ {0}
  BY <1>1, <1>2, TheCall
<1>4. PICK e, a : e = Call.net /\ a = Call.at
  OBVIOUS
<1>5. \E p \in {1, 2} : \E f : /\ OnTop(CallSet, calls', p, Tail(calls))
                               /\ calls'[p] = f /\ f.op # "send" /\ f.net = e
  <2>1. CASE CountDown
    <3>1. PICK f : f = [op |-> "run", net |-> e, at |-> a + 1]
      OBVIOUS
    <3>2. e \in Nets /\ a + 1 \in Nat \ {0}
      BY <1>3, <1>4
    <3>3. f \in CallSet
      BY <3>1, <3>2, SendCall
    <3>4. Call.op = "run" /\ calls' = <<[Call EXCEPT !.at = @ + 1]>> \o Tail(calls)
      BY <2>1 DEF CountDown, NextControl, AtControl, InCall
    <3>5. Call = [op |-> "run", net |-> e, at |-> a]
      BY <1>3, <1>4, <3>4
    <3>6. [Call EXCEPT !.at = @ + 1] = f
      BY <3>1, <3>5
    <3>7. calls' = <<f>> \o Tail(calls) /\ Tail(calls) \in Seq(CallSet)
      BY <1>3, <3>4, <3>6
    <3>8. OnTop(CallSet, calls', 1, Tail(calls)) /\ calls'[1] = f
      BY <3>3, <3>7, PushOnTop
    <3> QED BY <3>1, <3>8
  <2>2. CASE RunControl
    <3>1. PICK f : f = [op |-> "ran", net |-> e, at |-> a]
      OBVIOUS
    <3>2. Making(e, a)
      BY <1>4, <2>2, RunControlMakes
    <3>3. e \in Events
      BY <1>3, <1>4
    <3> QED BY <2>2, <3>1, <3>2, <3>3, RunControlCalls
  <2>3. CASE DeleteControl
    <3>1. PICK f : f = [op |-> "run", net |-> e, at |-> a]
      OBVIOUS
    <3>2. f \in CallSet
      BY <1>3, <1>4, <3>1, SendCall
    <3>3. [Call EXCEPT !.op = "run"] = f /\ calls' = <<[Call EXCEPT !.op = "run"]>> \o Tail(calls)
      BY <1>3, <1>4, <2>3, <3>1 DEF DeleteControl
    <3>4. OnTop(CallSet, calls', 1, Tail(calls)) /\ calls'[1] = f
      BY <1>3, <3>2, <3>3, PushOnTop
    <3> QED BY <3>1, <3>4
  <2> QED BY <2>1, <2>2, <2>3
<1>6. PICK p \in {1, 2} : \E f : /\ OnTop(CallSet, calls', p, Tail(calls))
                                 /\ calls'[p] = f /\ f.op # "send" /\ f.net = e
  BY <1>5
<1>7. PICK t : t = Tail(calls)
  OBVIOUS
<1>8. ASSUME NEW k \in DOMAIN calls, k > 1 PROVE \E m \in DOMAIN calls' : calls'[m] = calls[k]
  <2>1. p \in Nat /\ 1 \in Nat
    BY <1>6
  <2> QED BY <1>3, <1>6, <1>7, <1>8, <2>1, OldCalls
<1>9. p \in DOMAIN calls'
  <2>1. Len(Tail(calls)) \in Nat /\ Len(calls') = p + Len(Tail(calls)) /\ DOMAIN calls' = 1..Len(calls')
    BY <1>6 DEF OnTop
  <2> QED BY <2>1
<1> QED BY <1>2, <1>3, <1>4, <1>6, <1>8, <1>9

(* A send that starts is called, if the net has a functor.                 *)
LEMMA SendStarts ==
    ASSUME NetlistOK, NEW n \in Nets, NEW t, t \in Seq(CallSet), calls' = Send(n) \o t,
           NEW e \in ToSet(fanout[n])
    PROVE  /\ \E m \in DOMAIN calls' : calls'[m] = [op |-> "send", net |-> n, at |-> 1]
           /\ \E i \in 1..Len(fanout[n]) : fanout[n][i] = e
<1>1. PICK q \in {0, 1} :
          /\ OnTop(CallSet, calls', q, t)
          /\ q = 0 <=> 1 > Len(fanout[n])
          /\ q = 1 => calls'[1] = [op |-> "send", net |-> n, at |-> 1]
  BY SendFacts
<1>2. fanout[n] \in Seq(Events)
  BY DEF NetlistOK
<1>3. PICK i \in 1..Len(fanout[n]) : fanout[n][i] = e
  <2>1. DOMAIN fanout[n] = 1..Len(fanout[n])
    BY <1>2
  <2> QED BY <2>1 DEF ToSet
<1>4. q = 1
  BY <1>1, <1>2, <1>3
<1>5. 1 \in DOMAIN calls'
  <2>1. Len(t) \in Nat /\ Len(calls') = 1 + Len(t) /\ DOMAIN calls' = 1..Len(calls')
    BY <1>1, <1>4 DEF OnTop
  <2> QED BY <2>1
<1> QED BY <1>1, <1>3, <1>4, <1>5

-----------------------------------------------------------------------------
(***************************************************************************)
(* The threads that should wake.                                           *)
(***************************************************************************)
LEMMA IncludesItself ==
    ASSUME NEW e \in Events
    PROVE  e \in Including(e) /\ Including(e) \subseteq Events
BY DEF Including

(* What includes e, other than e, includes an "or" event that e is part of. *)
LEMMA IncludedBy ==
    ASSUME NEW e \in Events, NEW o \in Including(e), o # e
    PROVE  \E p \in Events : e \in Inputs[p] /\ o \in Including(p)
<1> DEFINE S == {e} \cup {g \in Events : \E p \in Events : e \in Inputs[p] /\ g \in Including(p)}
<1>1. S \in SUBSET Events /\ e \in S
  OBVIOUS
<1>2. ASSUME NEW p \in Events, Inputs[p] \cap S # {} PROVE p \in S
  <2>1. PICK g \in Inputs[p] : g \in S
    BY <1>2
  <2>2. CASE g = e
    BY <2>1, <2>2, IncludesItself
  <2>3. CASE g # e
    <3>1. PICK q \in Events : e \in Inputs[q] /\ g \in Including(q) /\ g \in Events
      BY <2>1, <2>3
    <3>2. ASSUME NEW T \in SUBSET Events, q \in T,
                 \A r \in Events : Inputs[r] \cap T # {} => r \in T
          PROVE  p \in T
      <4>1. g \in T
        BY <3>1, <3>2 DEF Including
      <4> QED BY <2>1, <3>2, <4>1
    <3>3. p \in Including(q)
      BY <3>2 DEF Including
    <3> QED BY <3>1, <3>3
  <2> QED BY <2>2, <2>3
<1>3. o \in Events /\ \A T \in SUBSET Events :
         (e \in T /\ \A p \in Events : Inputs[p] \cap T # {} => p \in T) => o \in T
  BY DEF Including
<1> HIDE DEF S
<1>4. o \in S
  BY <1>1, <1>2, <1>3
<1> QED BY <1>4 DEF S

LEMMA ReachedNext ==
    ASSUME UNCHANGED fanout, NEW k, NEW f, f = calls'[k]
    PROVE  Reached(calls[k])' = Reached(f)
BY DEF Reached

(* Some call reaches an event that t waits for.                            *)
Awakes(t, o) == \E k \in DOMAIN calls : o \in Reached(calls[k]) /\ t \in ToSet(threads[o])

LEMMA DueIs == DueReached <=> \A t \in due : \E o : Awakes(t, o)
BY DEF DueReached, Awakes

LEMMA DueNext == DueReached' <=> \A t \in due' : \E o : Awakes(t, o)'
BY DEF DueReached, Awakes

LEMMA AwakesNext ==
    ASSUME UNCHANGED fanout, NEW k \in DOMAIN calls', NEW f, f = calls'[k],
           NEW o \in Reached(f), NEW t, t \in ToSet(threads'[o])
    PROVE  Awakes(t, o)'
<1>1. o \in Reached(calls[k])'
  BY ReachedNext
<1> QED BY <1>1 DEF Awakes

LEMMA DeliverDue ==
    ASSUME LoopInv, EventTypes, DueReached, Deliver
    PROVE  DueReached'
<1>1. PICK n, at, e : n = Call.net /\ at = Call.at /\ e = fanout[n][at]
  OBVIOUS
<1>2. NetlistOK /\ CallsOK /\ calls # <<>> /\ Call.op = "send" /\ UNCHANGED <<fanout, threads>>
  BY DEF LoopInv, Deliver, InCall, netlist
<1>3. /\ Call = calls[1] /\ e \in Events /\ at \in Nat /\ at \in DOMAIN fanout[n]
      /\ n \in Nets /\ calls \in Seq(CallSet)
  BY <1>1, <1>2, TheCall DEF EventTypes
<1>4. /\ \A k \in DOMAIN calls : k > 1 => \E m \in DOMAIN calls' : calls'[m] = calls[k]
      /\ at + 1 <= Len(fanout[n]) =>
            \E m \in DOMAIN calls' : calls'[m] = [op |-> "send", net |-> n, at |-> at + 1]
      /\ StartRun(e, NextFunctor) =>
            \E m \in DOMAIN calls' : calls'[m] = [op |-> "run", net |-> e, at |-> 1]
  BY <1>1, DeliverCalls
<1>5. ASSUME StartRun(e, NextFunctor), NEW o \in Including(e), NEW t, t \in ToSet(threads[o])
      PROVE  Awakes(t, o)'
  <2>1. PICK f : f = [op |-> "run", net |-> e, at |-> 1]
    OBVIOUS
  <2>2. PICK m \in DOMAIN calls' : calls'[m] = f
    BY <1>4, <1>5, <2>1
  <2>3. o \in Reached(f)
    BY <1>5, <2>1 DEF Reached
  <2> QED BY <1>2, <1>5, <2>2, <2>3, AwakesNext
<1>6. ASSUME NEW t \in due, NEW o, Awakes(t, o) PROVE Awakes(t, o)'
  <2>1. PICK k \in DOMAIN calls : o \in Reached(calls[k]) /\ t \in ToSet(threads[o])
    BY <1>6 DEF Awakes
  <2>2. CASE k > 1
    <3>1. PICK m \in DOMAIN calls' : calls'[m] = calls[k]
      BY <1>4, <2>2
    <3>2. PICK f : f = calls[k]
      OBVIOUS
    <3> QED BY <1>2, <2>1, <3>1, <3>2, AwakesNext
  <2>3. CASE ~(k > 1)
    <3>1. k = 1
      BY <1>3, <2>3
    <3>2. /\ n \in Events
          /\ o \in UNION {Including(fanout[n][i]) : i \in at..Len(fanout[n])}
      BY <1>1, <1>2, <1>3, <2>1, <3>1 DEF Reached
    <3>3. PICK i \in at..Len(fanout[n]) : o \in Including(fanout[n][i])
      BY <3>2
    <3>4. CASE i = at
      <4>1. StartRun(e, NextFunctor)
        BY <1>1, <3>2 DEF Deliver
      <4> QED BY <1>1, <1>5, <2>1, <3>3, <3>4, <4>1
    <3>5. CASE i # at
      <4>1. Len(fanout[n]) \in Nat
        BY <1>2, <1>3 DEF NetlistOK
      <4>2. i \in (at + 1)..Len(fanout[n]) /\ at + 1 <= Len(fanout[n])
        BY <1>3, <3>5, <4>1
      <4>3. PICK f : f = [op |-> "send", net |-> n, at |-> at + 1]
        OBVIOUS
      <4>4. PICK m \in DOMAIN calls' : calls'[m] = f
        BY <1>4, <4>2, <4>3
      <4>5. o \in Reached(f)
        BY <3>2, <3>3, <4>2, <4>3 DEF Reached
      <4> QED BY <1>2, <2>1, <4>4, <4>5, AwakesNext
    <3> QED BY <3>4, <3>5
  <2> QED BY <2>2, <2>3
<1>7. ASSUME NEW t \in due' PROVE \E o : Awakes(t, o)'
  <2>1. CASE t \in due
    BY <1>6, <2>1, DueIs
  <2>2. CASE t \notin due
    <3>1. StartRun(e, NextFunctor)
      BY <1>1, <1>7, <2>2 DEF Deliver, aux
    <3>2. PICK o \in Including(e) : t \in ToSet(threads[o])
      BY <1>7, <2>2, <3>1 DEF StartRun, Happens
    <3> QED BY <1>5, <3>1, <3>2
  <2> QED BY <2>1, <2>2
<1> QED BY <1>7, DueNext

LEMMA TurnDue ==
    ASSUME LoopInv, EventTypes, DueReached, CountDown \/ RunControl \/ DeleteControl
    PROVE  DueReached'
<1>1. UNCHANGED <<fanout, threads, due>>
  BY DEF CountDown, RunControl, DeleteControl, netlist, aux
<1>2. PICK e : e = Call.net
  OBVIOUS
<1>3. /\ calls # <<>> /\ Call.op # "send" /\ Call = calls[1] /\ calls \in Seq(CallSet)
      /\ \A k \in DOMAIN calls : k > 1 => \E m \in DOMAIN calls' : calls'[m] = calls[k]
      /\ \E m \in DOMAIN calls' : calls'[m].op # "send" /\ calls'[m].net = e
  <2>1. calls # <<>> /\ NetlistOK /\ CallsOK
    BY TurnCalls DEF LoopInv
  <2>2. Call = calls[1] /\ calls \in Seq(CallSet)
    BY <2>1, TheCall DEF EventTypes
  <2> QED BY <1>2, <2>2, TurnCalls
<1>4. ASSUME NEW t \in due, NEW o, Awakes(t, o) PROVE Awakes(t, o)'
  <2>1. PICK k \in DOMAIN calls : o \in Reached(calls[k]) /\ t \in ToSet(threads[o])
    BY <1>4 DEF Awakes
  <2>2. CASE k > 1
    <3>1. PICK m \in DOMAIN calls' : calls'[m] = calls[k]
      BY <1>3, <2>2
    <3>2. PICK f : f = calls[k]
      OBVIOUS
    <3> QED BY <1>1, <2>1, <3>1, <3>2, AwakesNext
  <2>3. CASE ~(k > 1)
    <3>1. k = 1
      BY <1>3, <2>3
    <3>2. o \in Including(e)
      BY <1>2, <1>3, <2>1, <3>1 DEF Reached
    <3>3. PICK m \in DOMAIN calls' : calls'[m].op # "send" /\ calls'[m].net = e
      BY <1>3
    <3>4. PICK f : f = calls'[m]
      OBVIOUS
    <3>5. o \in Reached(f)
      BY <3>2, <3>3, <3>4 DEF Reached
    <3> QED BY <1>1, <2>1, <3>4, <3>5, AwakesNext
  <2> QED BY <2>2, <2>3
<1> QED BY <1>1, <1>4, DueIs, DueNext

LEMMA WakeThreadsDue ==
    ASSUME LoopInv, EventTypes, DueReached, WakeThreads
    PROVE  DueReached'
<1>1. NetlistOK /\ CallsOK /\ calls # <<>> /\ Call.op = "run"
  BY DEF LoopInv, WakeThreads, InCall
<1>2. PICK e \in Events, t \in Seq(CallSet) :
          e = Call.net /\ t = Tail(calls) /\ OnTop(CallSet, calls, 1, t) /\ Call = calls[1]
  BY <1>1, TheCall
<1>3. /\ threads' = [threads EXCEPT ![e] = <<>>] /\ due' = due \ ToSet(threads[e])
      /\ calls' = Send(e) \o t /\ UNCHANGED fanout
      /\ threads \in [Events -> Seq(Waiters)]
  BY <1>2 DEF WakeThreads, EventTypes, netlist
<1>4. e \in Nets /\ compiled = Events
  BY <1>1, <1>2, Constants DEF NetlistOK
<1>5. PICK q \in {0, 1} : OnTop(CallSet, calls', q, t)
  BY <1>1, <1>3, <1>4, SendFacts
<1>6. ASSUME NEW w \in due', NEW o, Awakes(w, o) PROVE \E g : Awakes(w, g)'
  <2>1. PICK k \in DOMAIN calls : o \in Reached(calls[k]) /\ w \in ToSet(threads[o])
    BY <1>6 DEF Awakes
  <2>2. o # e /\ threads'[o] = threads[o]
    BY <1>3, <1>6, <2>1
  <2>3. CASE k > 1
    <3>1. PICK m \in DOMAIN calls' : calls'[m] = calls[k]
      <4>1. 1 \in Nat /\ q \in Nat
        OBVIOUS
      <4> QED BY <1>2, <1>5, <2>3, <4>1, OldCalls
    <3>2. PICK f : f = calls[k]
      OBVIOUS
    <3> QED BY <1>3, <2>1, <2>2, <3>1, <3>2, AwakesNext
  <2>4. CASE ~(k > 1)
    <3>1. k = 1
      <4>1. DOMAIN calls = 1..Len(calls) /\ Len(calls) \in Nat
        BY <1>2 DEF OnTop
      <4> QED BY <2>4, <4>1
    <3>2. o \in Including(e)
      BY <1>1, <1>2, <2>1, <3>1 DEF Reached
    <3>3. PICK p \in Events : e \in Inputs[p] /\ o \in Including(p)
      BY <2>2, <3>2, IncludedBy
    <3>4. p \in ToSet(fanout[e])
      BY <1>1, <1>4, <3>3 DEF NetlistOK
    <3>5. PICK f : f = [op |-> "send", net |-> e, at |-> 1]
      OBVIOUS
    <3>6. PICK m \in DOMAIN calls', i \in 1..Len(fanout[e]) : calls'[m] = f /\ fanout[e][i] = p
      BY <1>1, <1>3, <1>4, <3>4, <3>5, SendStarts
    <3>7. o \in Reached(f)
      BY <3>3, <3>5, <3>6 DEF Reached
    <3> QED BY <1>3, <2>1, <2>2, <3>6, <3>7, AwakesNext
  <2> QED BY <2>3, <2>4
<1>7. due' \subseteq due
  BY <1>3
<1> QED BY <1>6, <1>7, DueIs, DueNext

LEMMA TriggerDue ==
    ASSUME DueReached, NEW e \in Events, Trigger(e)
    PROVE  DueReached'
<1>1. /\ StartRun(e, <<>>) /\ UNCHANGED <<fanout, threads>> /\ calls = <<>>
  BY DEF Trigger, Idle, netlist
<1>2. due = {}
  BY <1>1 DEF DueReached
<1>3. PICK f : f = [op |-> "run", net |-> e, at |-> 1]
  OBVIOUS
<1>4. 1 \in DOMAIN calls' /\ calls'[1] = f
  BY <1>1, <1>3 DEF StartRun, RunWaiting
<1>5. ASSUME NEW t \in due' PROVE \E o : Awakes(t, o)'
  <2>1. PICK o \in Including(e) : t \in ToSet(threads[o])
    BY <1>1, <1>2, <1>5 DEF StartRun, Happens
  <2>2. o \in Reached(f)
    BY <1>3, <2>1 DEF Reached
  <2> QED BY <1>1, <1>4, <2>1, <2>2, AwakesNext
<1> QED BY <1>5, DueNext

LEMMA DueKeeps ==
    ASSUME LoopInv, EventTypes, DueReached, [EventNext]_eventVars
    PROVE  DueReached'
<1>1. ASSUME calls = <<>>, UNCHANGED due PROVE DueReached'
  BY <1>1 DEF DueReached
<1>2. ASSUME UNCHANGED <<fanout, threads, due, calls>> PROVE DueReached'
  BY <1>2 DEF DueReached, Reached
<1>3. ASSUME NEW e \in Events, Compile(e) PROVE DueReached'
  <2>1. calls = <<>>
    BY <1>3 DEF LoopInv, NetlistOK, Compile
  <2> QED BY <1>1, <1>3, <2>1 DEF Compile, aux
<1>4. CASE Deliver
  BY <1>4, DeliverDue
<1>5. CASE CountDown \/ RunControl \/ DeleteControl
  BY <1>5, TurnDue
<1>6. CASE AssertFails
  BY <1>2, <1>6 DEF AssertFails, netlist, aux
<1>7. CASE WakeThreads
  BY <1>7, WakeThreadsDue
<1>8. ASSUME NEW s \in Signals, NEW v \in Values, Store(s, v) PROVE DueReached'
  BY <1>1, <1>8 DEF Store, Idle, aux
<1>9. ASSUME NEW e \in Events, Trigger(e) PROVE DueReached'
  BY <1>9, TriggerDue
<1>10. ASSUME NEW e \in Controlled, NEW count \in 1..MaxCount, NEW s \in Signals, NEW v \in Values,
              ScheduleControl(e, count, s, v)
       PROVE  DueReached'
  BY <1>1, <1>10 DEF ScheduleControl, Idle
<1>11. ASSUME NEW t \in Waiters, NEW e \in Awaited, WaitFor(t, e) PROVE DueReached'
  BY <1>1, <1>11 DEF WaitFor, Idle, aux
<1>12. CASE UNCHANGED eventVars
  BY <1>2, <1>12 DEF eventVars
<1> QED BY <1>3, <1>4, <1>5, <1>6, <1>7, <1>8, <1>9, <1>10, <1>11, <1>12 DEF EventNext

-----------------------------------------------------------------------------
(***************************************************************************)
(* The values that are still to be seen.                                   *)
(***************************************************************************)
ToSee(e, s) == \E k \in DOMAIN calls : ToBeSeen(e, s, calls[k])
SeenBy(e, s) == bits[e][s] = value[s] \/ ToSee(e, s)

LEMMA SeenIs ==
    /\ SeenOrSent <=> \A e \in Events, s \in Signals : s \in Inputs[e] => SeenBy(e, s)
    /\ SeenOrSent' <=> \A e \in Events, s \in Signals : s \in Inputs[e] => SeenBy(e, s)'
BY DEF SeenOrSent, SeenBy, ToSee

LEMMA ToSeeNext ==
    ASSUME UNCHANGED fanout, NEW e, NEW s, NEW k \in DOMAIN calls', NEW f, f = calls'[k],
           ToBeSeen(e, s, f)
    PROVE  ToSee(e, s)'
BY DEF ToSee, ToBeSeen

(* A call that is not a send shows a functor nothing, so it may go.        *)
LEMMA SeenStays ==
    ASSUME UNCHANGED fanout, NEW e, NEW s, bits'[e][s] = bits[e][s], value'[s] = value[s],
           \A k \in DOMAIN calls : ToBeSeen(e, s, calls[k]) =>
              \E m \in DOMAIN calls' : calls'[m] = calls[k],
           SeenBy(e, s)
    PROVE  SeenBy(e, s)'
<1>1. CASE bits[e][s] = value[s]
  BY <1>1 DEF SeenBy
<1>2. CASE ToSee(e, s)
  <2>1. PICK k \in DOMAIN calls : ToBeSeen(e, s, calls[k])
    BY <1>2 DEF ToSee
  <2>2. PICK m \in DOMAIN calls' : calls'[m] = calls[k]
    BY <2>1
  <2>3. PICK f : f = calls[k]
    OBVIOUS
  <2>4. ToSee(e, s)'
    BY <2>1, <2>2, <2>3, ToSeeNext
  <2> QED BY <2>4 DEF SeenBy
<1> QED BY <1>1, <1>2 DEF SeenBy

LEMMA DeliverSeen ==
    ASSUME LoopInv, EventTypes, SeenOrSent, Deliver
    PROVE  SeenOrSent'
<1>1. PICK n, at, e : n = Call.net /\ at = Call.at /\ e = fanout[n][at]
  OBVIOUS
<1>2. NetlistOK /\ CallsOK /\ calls # <<>> /\ Call.op = "send" /\ UNCHANGED <<fanout, value>>
  BY DEF LoopInv, Deliver, InCall, netlist
<1>3. /\ Call = calls[1] /\ e \in Events /\ at \in Nat /\ at \in DOMAIN fanout[n]
      /\ n \in Nets /\ calls \in Seq(CallSet)
  BY <1>1, <1>2, TheCall DEF EventTypes
<1>4. /\ \A k \in DOMAIN calls : k > 1 => \E m \in DOMAIN calls' : calls'[m] = calls[k]
      /\ at + 1 <= Len(fanout[n]) =>
            \E m \in DOMAIN calls' : calls'[m] = [op |-> "send", net |-> n, at |-> at + 1]
  BY <1>1, DeliverCalls
<1>5. /\ n \in Events => bits' = bits
      /\ n \in Signals => Sees(e, n, value[n])
  BY <1>1, DeliverSees
<1>6. ASSUME NEW g \in Events, NEW s \in Signals, s \in Inputs[g] PROVE SeenBy(g, s)'
  <2>1. SeenBy(g, s)
    BY <1>6, SeenIs
  <2>2. CASE g = e /\ s = n
    <3>1. bits'[g][s] = value[s]
      BY <1>5, <2>2 DEF Sees
    <3> QED BY <1>2, <3>1 DEF SeenBy
  <2>3. CASE ~(g = e /\ s = n)
    <3>1. bits'[g][s] = bits[g][s]
      BY <1>3, <1>5, <1>6, <2>3, Constants DEF Sees
    <3>2. ASSUME NEW k \in DOMAIN calls, ToBeSeen(g, s, calls[k]) PROVE SeenBy(g, s)'
      <4>1. CASE k > 1
        <5>1. PICK m \in DOMAIN calls' : calls'[m] = calls[k]
          BY <1>4, <4>1
        <5>2. PICK f : f = calls[k]
          OBVIOUS
        <5>3. ToSee(g, s)'
          BY <1>2, <3>2, <5>1, <5>2, ToSeeNext
        <5> QED BY <5>3 DEF SeenBy
      <4>2. CASE ~(k > 1)
        <5>1. k = 1
          BY <1>3, <4>2
        <5>2. PICK i \in at..Len(fanout[n]) : s = n /\ fanout[n][i] = g
          BY <1>1, <1>3, <3>2, <5>1 DEF ToBeSeen
        <5>3. i # at
          BY <1>1, <2>3, <5>2
        <5>4. Len(fanout[n]) \in Nat
          BY <1>2, <1>3 DEF NetlistOK
        <5>5. i \in (at + 1)..Len(fanout[n]) /\ at + 1 <= Len(fanout[n])
          BY <1>3, <5>3, <5>4
        <5>6. PICK f : f = [op |-> "send", net |-> n, at |-> at + 1]
          OBVIOUS
        <5>7. PICK m \in DOMAIN calls' : calls'[m] = f
          BY <1>4, <5>5, <5>6
        <5>8. ToBeSeen(g, s, f)
          BY <5>2, <5>5, <5>6 DEF ToBeSeen
        <5>9. ToSee(g, s)'
          BY <1>2, <5>7, <5>8, ToSeeNext
        <5> QED BY <5>9 DEF SeenBy
      <4> QED BY <4>1, <4>2
    <3>3. CASE bits[g][s] = value[s]
      BY <1>2, <3>1, <3>3 DEF SeenBy
    <3> QED BY <2>1, <3>2, <3>3 DEF SeenBy, ToSee
  <2> QED BY <2>2, <2>3
<1> QED BY <1>6, SeenIs

(* A value is stored, and the signal starts to send it.                    *)
LEMMA StoredSeen ==
    ASSUME LoopInv, EventTypes, SeenOrSent, compiled = Events, NEW n \in Signals, NEW v,
           value' = [value EXCEPT ![n] = v], UNCHANGED <<bits, fanout>>,
           \A k \in DOMAIN calls : calls[k].op = "send" =>
              \E m \in DOMAIN calls' : calls'[m] = calls[k],
           fanout[n] # <<>> =>
              \E m \in DOMAIN calls' : calls'[m] = [op |-> "send", net |-> n, at |-> 1]
    PROVE  SeenOrSent'
<1>1. NetlistOK /\ n \in Nets /\ value \in [Signals -> Bit4]
  BY Constants DEF LoopInv, EventTypes
<1>2. ASSUME NEW g \in Events, NEW s \in Signals, s \in Inputs[g] PROVE SeenBy(g, s)'
  <2>1. CASE s = n
    <3>1. g \in ToSet(fanout[n]) /\ fanout[n] \in Seq(Events)
      BY <1>1, <1>2, <2>1 DEF NetlistOK
    <3>2. PICK i \in 1..Len(fanout[n]) : fanout[n][i] = g
      <4>1. DOMAIN fanout[n] = 1..Len(fanout[n])
        BY <3>1
      <4> QED BY <3>1, <4>1 DEF ToSet
    <3>3. fanout[n] # <<>>
      BY <3>1, <3>2
    <3>4. PICK f : f = [op |-> "send", net |-> n, at |-> 1]
      OBVIOUS
    <3>5. PICK m \in DOMAIN calls' : calls'[m] = f
      BY <3>3, <3>4
    <3>6. ToBeSeen(g, s, f)
      BY <2>1, <3>2, <3>4 DEF ToBeSeen
    <3>7. ToSee(g, s)'
      BY <3>5, <3>6, ToSeeNext
    <3> QED BY <3>7 DEF SeenBy
  <2>2. CASE s # n
    <3>1. value'[s] = value[s] /\ bits'[g][s] = bits[g][s]
      BY <1>1, <2>2
    <3>2. SeenBy(g, s)
      BY <1>2, SeenIs
    <3>3. \A k \in DOMAIN calls : ToBeSeen(g, s, calls[k]) =>
             \E m \in DOMAIN calls' : calls'[m] = calls[k]
      BY DEF ToBeSeen
    <3> QED BY <3>1, <3>2, <3>3, SeenStays
  <2> QED BY <2>1, <2>2
<1> QED BY <1>2, SeenIs

LEMMA RunControlSeen ==
    ASSUME LoopInv, EventTypes, SeenOrSent, RunControl
    PROVE  SeenOrSent'
<1>1. NetlistOK /\ CallsOK /\ LoopTypes /\ calls # <<>> /\ Call.op = "run"
  BY DEF LoopInv, RunControl, AtControl, InCall
<1>2. compiled = Events
  BY <1>1 DEF NetlistOK
<1>3. PICK e, a : e = Call.net /\ a = Call.at
  OBVIOUS
<1>4. Making(e, a)
  BY <1>3, RunControlMakes
<1>5. PICK f : f = [op |-> "ran", net |-> e, at |-> a]
  OBVIOUS
<1>6. e \in Events
  BY <1>4 DEF Making
<1>7. PICK p \in {1, 2} :
          /\ OnTop(CallSet, calls', p, Tail(calls))
          /\ p = 2 => calls'[1] = [op |-> "send", net |-> Cur.signal, at |-> 1]
          /\ p = 1 => 1 > Len(fanout[Cur.signal])
  BY <1>4, <1>5, <1>6, RunControlCalls
<1>8. PICK n : n = Cur.signal
  OBVIOUS
<1>9. n \in Signals /\ n \in Nets
  <2>1. Cur \in Control
    BY <1>1, <1>4 DEF Making, LoopTypes, Cur
  <2> QED BY <1>8, <2>1, ControlTyped, Constants
<1>10. PICK v : v = Cur.value
  OBVIOUS
<1>11. value' = [value EXCEPT ![n] = v] /\ UNCHANGED <<bits, fanout>>
  BY <1>8, <1>10 DEF RunControl, netlist
<1>12. ASSUME NEW k \in DOMAIN calls, calls[k].op = "send"
       PROVE  \E m \in DOMAIN calls' : calls'[m] = calls[k]
  <2>1. Call = calls[1] /\ calls \in Seq(CallSet)
    BY <1>1, TheCall DEF LoopTypes
  <2>2. k > 1
    BY <1>1, <1>12, <2>1
  <2> QED BY <1>12, <2>2, TurnCalls
<1>13. ASSUME fanout[n] # <<>>
       PROVE  \E m \in DOMAIN calls' : calls'[m] = [op |-> "send", net |-> n, at |-> 1]
  <2>1. fanout[n] \in Seq(Events)
    BY <1>1, <1>9 DEF NetlistOK
  <2>2. ~(1 > Len(fanout[n]))
    BY <1>13, <2>1
  <2>3. p = 2
    BY <1>7, <1>8, <2>2
  <2>4. 1 \in DOMAIN calls'
    <3>1. Len(Tail(calls)) \in Nat /\ Len(calls') = 2 + Len(Tail(calls)) /\ DOMAIN calls' = 1..Len(calls')
      BY <1>7, <2>3 DEF OnTop
    <3> QED BY <3>1
  <2> QED BY <1>7, <1>8, <2>3, <2>4
<1> QED BY <1>2, <1>9, <1>11, <1>12, <1>13, StoredSeen

LEMMA StoreSeen ==
    ASSUME LoopInv, EventTypes, SeenOrSent, NEW n \in Signals, NEW v \in Values, Store(n, v)
    PROVE  SeenOrSent'
<1>1. /\ Idle /\ value' = [value EXCEPT ![n] = v] /\ calls' = Send(n)
      /\ UNCHANGED <<bits, fanout>>
  BY DEF Store, netlist
<1>2. calls = <<>> /\ compiled = Events
  BY <1>1 DEF Idle
<1>3. ASSUME fanout[n] # <<>>
      PROVE  \E m \in DOMAIN calls' : calls'[m] = [op |-> "send", net |-> n, at |-> 1]
  <2>1. fanout[n] \in Seq(Events)
    BY Constants DEF LoopInv, NetlistOK
  <2>2. ~(1 > Len(fanout[n]))
    BY <1>3, <2>1
  <2>3. calls' = <<[op |-> "send", net |-> n, at |-> 1]>>
    BY <1>1, <2>2 DEF Send, SendFrom
  <2> QED BY <2>3
<1>4. \A k \in DOMAIN calls : calls[k].op = "send" => \E m \in DOMAIN calls' : calls'[m] = calls[k]
  BY <1>2
<1> QED BY <1>1, <1>2, <1>3, <1>4, StoredSeen

LEMMA SeenKeeps ==
    ASSUME LoopInv, EventTypes, SeenOrSent, [EventNext]_eventVars
    PROVE  SeenOrSent'
<1>1. ASSUME UNCHANGED <<bits, value>>,
             \A k \in DOMAIN calls : calls[k].op = "send" =>
                \E m \in DOMAIN calls' : calls'[m] = calls[k],
             UNCHANGED fanout \/ calls = <<>>
      PROVE  SeenOrSent'
  <2>1. ASSUME NEW g \in Events, NEW s \in Signals, s \in Inputs[g] PROVE SeenBy(g, s)'
    <3>1. SeenBy(g, s)
      BY <2>1, SeenIs
    <3>2. CASE UNCHANGED fanout
      <4>1. \A k \in DOMAIN calls : ToBeSeen(g, s, calls[k]) =>
               \E m \in DOMAIN calls' : calls'[m] = calls[k]
        BY <1>1 DEF ToBeSeen
      <4> QED BY <1>1, <3>1, <3>2, <4>1, SeenStays
    <3>3. CASE calls = <<>>
      BY <1>1, <3>1, <3>3 DEF SeenBy, ToSee
    <3> QED BY <1>1, <3>2, <3>3
  <2> QED BY <2>1, SeenIs
<1>2. ASSUME UNCHANGED <<bits, value, calls, fanout>> PROVE SeenOrSent'
  BY <1>1, <1>2
<1>3. ASSUME NEW e \in Events, Compile(e) PROVE SeenOrSent'
  <2>1. calls = <<>>
    BY <1>3 DEF LoopInv, NetlistOK, Compile
  <2> QED BY <1>1, <1>3, <2>1 DEF Compile
<1>4. CASE Deliver
  BY <1>4, DeliverSeen
<1>5. CASE RunControl
  BY <1>5, RunControlSeen
<1>6. CASE CountDown \/ DeleteControl
  <2>1. calls # <<>> /\ Call.op # "send" /\ UNCHANGED <<bits, value, fanout>>
    BY <1>6 DEF CountDown, DeleteControl, AtControl, InCall, netlist
  <2>2. Call = calls[1] /\ calls \in Seq(CallSet)
    BY <2>1, TheCall DEF LoopInv, EventTypes
  <2>3. ASSUME NEW k \in DOMAIN calls, calls[k].op = "send"
        PROVE  \E m \in DOMAIN calls' : calls'[m] = calls[k]
    <3>1. k > 1
      BY <2>1, <2>2, <2>3
    <3> QED BY <1>6, <3>1, TurnCalls
  <2> QED BY <1>1, <2>1, <2>3
<1>7. CASE AssertFails
  BY <1>2, <1>7 DEF AssertFails, netlist
<1>8. CASE WakeThreads
  <2>1. calls # <<>> /\ Call.op = "run" /\ UNCHANGED <<bits, value, fanout>>
    BY <1>8 DEF WakeThreads, InCall, netlist
  <2>2. PICK e \in Events, t \in Seq(CallSet) :
            e = Call.net /\ t = Tail(calls) /\ OnTop(CallSet, calls, 1, t) /\ Call = calls[1]
    BY <2>1, TheCall DEF LoopInv
  <2>3. calls' = Send(e) \o t /\ NetlistOK /\ e \in Nets
    BY <1>8, <2>2, Constants DEF WakeThreads, LoopInv
  <2>4. \E q \in {0, 1} : OnTop(CallSet, calls', q, t)
    <3>1. NetlistOK /\ e \in Nets /\ t \in Seq(CallSet) /\ calls' = Send(e) \o t
      BY <2>2, <2>3
    <3> QED BY <3>1, SendFacts
  <2> PICK q \in {0, 1} : OnTop(CallSet, calls', q, t)
    BY <2>4
  <2>5. ASSUME NEW k \in DOMAIN calls, calls[k].op = "send"
        PROVE  \E m \in DOMAIN calls' : calls'[m] = calls[k]
    <3>1. k > 1 /\ 1 \in Nat /\ q \in Nat
      <4>1. DOMAIN calls = 1..Len(calls) /\ Len(calls) \in Nat
        BY <2>2 DEF OnTop
      <4>2. k # 1
        BY <2>1, <2>2, <2>5
      <4> QED BY <4>1, <4>2
    <3> QED BY <2>2, <3>1, OldCalls
  <2> QED BY <1>1, <2>1, <2>5
<1>9. ASSUME NEW s \in Signals, NEW v \in Values, Store(s, v) PROVE SeenOrSent'
  BY <1>9, StoreSeen
<1>10. ASSUME NEW e \in Events, Trigger(e) PROVE SeenOrSent'
  <2>1. calls = <<>>
    BY <1>10 DEF Trigger, Idle
  <2> QED BY <1>1, <1>10, <2>1 DEF Trigger
<1>11. ASSUME NEW e \in Controlled, NEW count \in 1..MaxCount, NEW s \in Signals, NEW v \in Values,
              ScheduleControl(e, count, s, v)
       PROVE  SeenOrSent'
  BY <1>2, <1>11 DEF ScheduleControl, netlist
<1>12. ASSUME NEW t \in Waiters, NEW e \in Awaited, WaitFor(t, e) PROVE SeenOrSent'
  BY <1>2, <1>12 DEF WaitFor, netlist
<1>13. CASE UNCHANGED eventVars
  BY <1>2, <1>13 DEF eventVars
<1> QED BY <1>3, <1>4, <1>5, <1>6, <1>7, <1>8, <1>9, <1>10, <1>11, <1>12, <1>13 DEF EventNext

-----------------------------------------------------------------------------
(***************************************************************************)
(* The invariant and the theorems.                                         *)
(***************************************************************************)
LEMMA InvIs == EventInv <=> EventTypes /\ LoopInv /\ DueReached /\ SeenOrSent
BY TypeHalves DEF EventInv, LoopInv

LEMMA InitHolds == EventInit => EventInv
<1> SUFFICES ASSUME EventInit PROVE EventInv
  OBVIOUS
<1>1. /\ compiled = {} /\ fanout = [n \in Nets |-> <<>>] /\ value = [s \in Signals |-> "x"]
      /\ bits = [e \in Events |-> [s \in Inputs[e] \cap Signals |-> "x"]]
      /\ ctls = [e \in Events |-> <<>>] /\ last = [e \in Events |-> 0]
      /\ threads = [e \in Events |-> <<>>] /\ calls = <<>> /\ aborted = FALSE
      /\ promised = [e \in Events |-> <<>>] /\ due = {}
  BY DEF EventInit
<1>2. StoreTypes
  <2>1. "x" \in Bit4
    BY DEF Bit4
  <2>2. value \in [Signals -> Bit4] /\ \A e \in Events : bits[e] \in [Inputs[e] \cap Signals -> Bit4]
    BY <1>1, <2>1
  <2>3. bits \in [Events -> UNION {[Inputs[e] \cap Signals -> Bit4] : e \in Events}]
    BY <1>1, <2>2
  <2>4. <<>> \in Seq(Waiters) /\ IsInjective(<<>>)
    BY DEF IsInjective
  <2>5. threads \in [Events -> Seq(Waiters)] /\ \A e \in Events : IsInjective(threads[e])
    BY <1>1, <2>4
  <2> QED BY <1>1, <2>2, <2>3, <2>5 DEF StoreTypes
<1>3. LoopTypes
  <2>1. \A e \in Events : last[e] = 0 /\ Len(ctls[e]) = 0
    BY <1>1
  <2> QED BY <1>1, <2>1 DEF LoopTypes
<1>4. NetlistOK
  <2>1. \A n \in Nets : fanout[n] = <<>>
    BY <1>1
  <2> QED BY <1>1, <2>1 DEF NetlistOK
<1>5. CallsOK
  BY <1>1 DEF CallsOK
<1>6. PromisesOK
  BY <1>1 DEF PromisesOK, Distinct
<1>7. \A e \in Events : ControlsOK(e)
  <2>1. SUFFICES ASSUME NEW e \in Events PROVE Kept(e)
    BY <1>1 DEF ControlsOK
  <2>2. ctls[e] = <<>> /\ promised[e] = <<>> /\ last[e] = 0
    BY <1>1
  <2> QED BY <2>2 DEF Kept
<1>8. DueReached
  BY <1>1 DEF DueReached
<1>9. SeenOrSent
  BY <1>1 DEF SeenOrSent
<1> QED BY <1>2, <1>3, <1>4, <1>5, <1>6, <1>7, <1>8, <1>9, TypeHalves DEF EventInv

LEMMA NextKeeps == EventInv /\ [EventNext]_eventVars => EventInv'
<1> SUFFICES ASSUME EventInv, [EventNext]_eventVars PROVE EventInv'
  OBVIOUS
<1>1. EventTypes /\ LoopInv /\ DueReached /\ SeenOrSent
  BY InvIs
<1>2. LoopInv' /\ StoreTypes' /\ DueReached' /\ SeenOrSent'
  BY <1>1, LoopKeeps, StoreKeeps, DueKeeps, SeenKeeps
<1>3. EventTypes'
  BY <1>2 DEF EventTypes, StoreTypes, LoopInv, LoopTypes
<1> QED BY <1>2, <1>3 DEF EventInv, LoopInv

(* Through all the nesting of sends and event controls the lists, the       *)
(* calls and what is promised fit together: every loop over the controls of *)
(* an event has those it has passed and those ahead of it in their places,  *)
(* and is the outermost or stands before a control that an outer loop runs  *)
(* (event.cc:31-82, 118-130, vvp_net.h:1434-1445).                          *)
THEOREM EventInvariance == EventSpec => []EventInv
<1>1. EventInit => EventInv
  BY InitHolds
<1>2. EventInv /\ [EventNext]_eventVars => EventInv'
  BY NextKeeps
<1> QED BY <1>1, <1>2, PTL DEF EventSpec

(* However the assignments that an event releases nest, and whatever they   *)
(* trigger, the list of the event and its last pointer have their types,    *)
(* and when no value is on its way the list holds just the assignments that *)
(* are pending, in the order they were made, each with the events it still  *)
(* has to wait for (event.cc:31-52, 118-130).                               *)
THEOREM ControlsAreKept == EventSpec => []ControlsKept
<1>1. EventInv => ControlsKept
  <2> SUFFICES ASSUME EventInv PROVE ControlsKept
    OBVIOUS
  <2>1. EventTypes /\ LoopInv /\ PromisesOK
    BY InvIs DEF LoopInv
  <2>2. ASSUME Idle, NEW e \in Events
        PROVE  /\ \A i \in DOMAIN ctls[e] : ctls[e][i].left > 0
               /\ promised[e] = [i \in DOMAIN ctls[e] |-> [id |-> ctls[e][i].id, left |-> ctls[e][i].left]]
    <3>1. Kept(e)
      BY <2>1, <2>2, IdleControls
    <3>2. promised[e] \in Seq(Promise) /\ ctls[e] \in Seq(Control)
      BY <2>1 DEF PromisesOK, EventTypes
    <3>3. Len(promised[e]) = Len(ctls[e]) /\ DOMAIN promised[e] = DOMAIN ctls[e]
      BY <3>1, <3>2 DEF Kept
    <3>4. \A i \in DOMAIN ctls[e] :
             ctls[e][i].left > 0 /\ promised[e][i] = [id |-> ctls[e][i].id, left |-> ctls[e][i].left]
      BY <3>1 DEF Kept, Owing
    <3>5. PICK r : r = [i \in DOMAIN ctls[e] |-> [id |-> ctls[e][i].id, left |-> ctls[e][i].left]]
      OBVIOUS
    <3>6. DOMAIN r = DOMAIN promised[e] /\ \A i \in DOMAIN promised[e] : promised[e][i] = r[i]
      BY <3>3, <3>4, <3>5
    <3>7. r = [i \in DOMAIN promised[e] |-> r[i]]
      BY <3>3, <3>5
    <3>8. promised[e] = [i \in DOMAIN promised[e] |-> promised[e][i]]
      BY <3>2
    <3>9. promised[e] = r
      BY <3>6, <3>7, <3>8
    <3> QED BY <3>4, <3>5, <3>9
  <2> QED BY <2>1, <2>2 DEF ControlsKept, EventTypeOK
<1> QED BY <1>1, EventInvariance, PTL

(* A thread that waits for an event, or for one of which that event is a    *)
(* part, at any depth of "or" events, waits no more when the values that    *)
(* caused the event have been sent everywhere                               *)
(* (event.cc:48-52, 584-590).                                               *)
THEOREM WaitersAreWoken == EventSpec => []WaitersWoken
<1>1. EventInv => WaitersWoken
  BY DEF EventInv, WaitersWoken, Idle, DueReached
<1> QED BY <1>1, EventInvariance, PTL

(* When no value is on its way every edge functor has seen the value that   *)
(* each of its signals has in the end, although assignments that it         *)
(* released may have changed them while older values were on their way      *)
(* (event.cc:225-239, 367-403).                                             *)
THEOREM LatestIsSeen == EventSpec => []LatestSeen
<1>1. EventInv => LatestSeen
  <2> SUFFICES ASSUME EventInv, Idle, NEW e \in Events, NEW s \in Signals, s \in Inputs[e]
               PROVE  bits[e][s] = value[s]
    BY DEF LatestSeen
  <2> QED BY DEF EventInv, SeenOrSent, Idle
<1> QED BY <1>1, EventInvariance, PTL

(* Only the assignment that is the first of those its event has released is *)
(* ever made, and the others stay in their order (event.cc:36-45).          *)
THEOREM MadeInOrder == EventSpec => InOrder
<1>1. EventInv /\ [EventNext]_eventVars => [Ordered]_eventVars
  <2> SUFFICES ASSUME EventInv, EventNext PROVE Ordered
    OBVIOUS
  <2>1. EventTypes /\ LoopInv /\ PromisesOK
    BY InvIs DEF LoopInv
  <2>2. ASSUME \A e \in Events : Len(promised'[e]) >= Len(promised[e]) PROVE Ordered
    <3>1. \A e \in Events : promised[e] \in Seq(Promise) /\ promised'[e] \in Seq(Promise)
      <4>1. PromisesOK'
        BY NextKeeps DEF EventInv
      <4> QED BY <2>1, <4>1 DEF PromisesOK
    <3> QED BY <2>2, <3>1 DEF Ordered
  <2>3. ASSUME UNCHANGED promised PROVE Ordered
    <3>1. \A e \in Events : promised[e] \in Seq(Promise)
      BY <2>1 DEF PromisesOK
    <3> QED BY <2>3, <3>1 DEF Ordered
  <2>4. ASSUME NEW e \in Events, Happens(e) PROVE Ordered
    <3>1. \A g \in Events : Len(promised'[g]) = Len(promised[g])
      BY <2>1, <2>4, HappensPromised
    <3>2. \A g \in Events : Len(promised[g]) \in Nat
      BY <2>1 DEF PromisesOK
    <3> QED BY <2>2, <3>1, <3>2
  <2>5. CASE Deliver
    <3>1. fanout[Call.net][Call.at] \in Events
      BY <2>1, <2>5, TheCall DEF LoopInv, Deliver, InCall
    <3> QED BY <2>3, <2>4, <2>5, <3>1 DEF Deliver, StartRun, aux
  <2>6. CASE RunControl
    <3>1. PICK e, a : e = Call.net /\ a = Call.at
      OBVIOUS
    <3>2. Making(e, a)
      BY <2>1, <2>6, <3>1, RunControlMakes
    <3>3. /\ e \in Events /\ a \in DOMAIN promised[e] /\ FirstReleased(e, a)
          /\ promised' = [promised EXCEPT ![e] = RemoveAt(@, a)]
      BY <3>2 DEF Making
    <3>4. promised \in [Events -> Seq(Promise)] /\ \A g \in Events : Len(promised[g]) \in Nat
      BY <2>1 DEF PromisesOK
    <3>5. promised'[e] = RemoveAt(promised[e], a) /\ \A g \in Events : g # e => promised'[g] = promised[g]
      BY <3>3, <3>4
    <3>6. ASSUME NEW g \in Events, Len(promised'[g]) < Len(promised[g])
          PROVE  \E i \in DOMAIN promised[g] :
                    FirstReleased(g, i) /\ promised'[g] = RemoveAt(promised[g], i)
      <4>1. g = e
        BY <3>4, <3>5, <3>6
      <4> QED BY <3>3, <3>5, <4>1
    <3> QED BY <3>6 DEF Ordered
  <2>7. ASSUME NEW e \in Events, Trigger(e) PROVE Ordered
    BY <2>4, <2>7 DEF Trigger, StartRun
  <2>8. ASSUME NEW e \in Controlled, NEW count \in 1..MaxCount, NEW s \in Signals, NEW v \in Values,
               ScheduleControl(e, count, s, v)
        PROVE  Ordered
    <3>1. PICK o : promised' = [promised EXCEPT ![e] = Append(@, o)]
      BY <2>8 DEF ScheduleControl
    <3>2. promised \in [Events -> Seq(Promise)]
      BY <2>1 DEF PromisesOK
    <3>3. ASSUME NEW g \in Events PROVE Len(promised'[g]) >= Len(promised[g])
      <4>1. Len(promised[g]) \in Nat
        BY <3>2
      <4>2. CASE g = e
        <5>1. promised'[g] = Append(promised[g], o)
          BY <3>1, <3>2, <4>2
        <5>2. Len(Append(promised[g], o)) = Len(promised[g]) + 1
          BY <3>2
        <5> QED BY <4>1, <5>1, <5>2
      <4>3. CASE g # e
        BY <3>1, <3>2, <4>1, <4>3
      <4> QED BY <4>2, <4>3
    <3> QED BY <2>2, <3>3
  <2>9. ASSUME NEW e \in Events, Compile(e) PROVE Ordered
    BY <2>3, <2>9 DEF Compile, aux
  <2>10. CASE CountDown \/ AssertFails \/ DeleteControl \/ WakeThreads
    BY <2>3, <2>10 DEF CountDown, AssertFails, DeleteControl, WakeThreads, aux
  <2>11. ASSUME NEW s \in Signals, NEW v \in Values, Store(s, v) PROVE Ordered
    BY <2>3, <2>11 DEF Store, aux
  <2>12. ASSUME NEW t \in Waiters, NEW e \in Awaited, WaitFor(t, e) PROVE Ordered
    BY <2>3, <2>12 DEF WaitFor, aux
  <2> QED BY <2>5, <2>6, <2>7, <2>8, <2>9, <2>10, <2>11, <2>12 DEF EventNext
<1> QED BY <1>1, EventInvariance, PTL DEF EventSpec, InOrder

=============================================================================
