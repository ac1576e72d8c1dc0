--------------------------- MODULE SignalProofs ---------------------------
(***************************************************************************)
(* Proofs about signals, Signal.tla: what their readers see is their       *)
(* value, and the last force or assignment decides it.                     *)
(***************************************************************************)
EXTENDS Signal, Lemmas

(* The types alone, of states that do not change the signal under study.   *)
Bit    == BitValues \cup {"x"}
Pieces == {All} \cup Slices

(* What a value that passes through may change of a signal.                *)
SameForce(t, u) == u.mask = t.mask /\ u.force = t.force /\ u.forced = t.forced

-----------------------------------------------------------------------------
(***************************************************************************)
(* Values.                                                                 *)
(***************************************************************************)
LEMMA OverTyped ==
    ASSUME NEW old \in Vec, NEW v, NEW p \in SUBSET All, \A i \in p : v[i] \in Bit
    PROVE  /\ Over(old, v, p) \in Vec
           /\ \A i \in All : Over(old, v, p)[i] = IF i \in p THEN v[i] ELSE old[i]
BY DEF Over, Vec, Bit

LEMMA ValueTyped ==
    ASSUME NEW t \in State
    PROVE  /\ Value(t) \in Vec
           /\ \A i \in All : Value(t)[i] = IF i \in t.mask THEN t.force[i] ELSE t.drv[i]
BY DEF Value, Vec, State

LEMMA SameVec ==
    ASSUME NEW v \in Vec, NEW w \in Vec, \A i \in All : v[i] = w[i] PROVE v = w
BY DEF Vec

LEMMA PiecesFacts ==
    ASSUME NEW p \in Pieces PROVE p \subseteq All /\ p # {} /\ All # {}
<1>1. All # {} /\ \A a, b \in All : a..b \subseteq All
  BY SignalAssumption DEF All, Bits
<1>2. ASSUME NEW q \in Slices PROVE q \subseteq All /\ q # {}
  <2>1. PICK a, b \in All : q = a..b
    BY DEF Slices
  <2> QED BY <1>1, <2>1 DEF Slices
<1> QED BY <1>1, <1>2 DEF Pieces

(* A value in Vec of all the bits, or of a part of them.                   *)
LEMMA BitOf ==
    ASSUME NEW v \in Vec, NEW i \in All PROVE v[i] \in Bit
BY DEF Vec, Bit

-----------------------------------------------------------------------------
(***************************************************************************)
(* The filter.                                                             *)
(***************************************************************************)

(* A send changes what drives the signal, never what is forced.            *)
LEMMA SendTyped ==
    ASSUME NEW t \in State, NEW v, NEW p \in SUBSET All, \A i \in p : v[i] \in Bit
    PROVE  /\ Send(t, v, p) \in State
           /\ Send(t, v, p).drv = Over(t.drv, v, p)
           /\ Send(t, v, p).sig = t.sig /\ Send(t, v, p).assigned = t.assigned
           /\ SameForce(t, Send(t, v, p))
<1> DEFINE d == [t EXCEPT !.drv = Over(t.drv, v, p), !.fresh = FALSE]
           f == IF t.mask = {} \/ kind.type = "real" THEN d ELSE [d EXCEPT !.push = FALSE]
           g == [f EXCEPT !.seen = Over(@, Value(d), p), !.told = Value(d)]
<1>1. t.drv \in Vec /\ t.seen \in Vec
  BY DEF State
<1>2. Over(t.drv, v, p) \in Vec
  BY <1>1, OverTyped
<1>3. d \in State
  BY <1>2 DEF State
<1>4. Value(d) \in Vec
  BY <1>3, ValueTyped
<1>5. \A i \in p : Value(d)[i] \in Bit
  BY <1>4, BitOf
<1>6. Over(t.seen, Value(d), p) \in Vec
  BY <1>1, <1>5, OverTyped
<1>7. f \in State /\ f.seen = t.seen /\ f.drv = Over(t.drv, v, p) /\ f.sig = t.sig
      /\ f.assigned = t.assigned /\ SameForce(t, f)
  BY <1>3 DEF State, SameForce
<1>8. g \in State /\ g.drv = f.drv /\ g.sig = f.sig
      /\ g.assigned = f.assigned /\ SameForce(f, g)
  BY <1>4, <1>6, <1>7 DEF State, SameForce
<1>9. CASE Unchanged(t, v, p)
  <2>1. Over(t.drv, v, p) = t.drv
    <3>1. \A i \in All : Over(t.drv, v, p)[i] = t.drv[i]
      BY <1>1, <1>9, OverTyped DEF Unchanged
    <3> QED BY <1>1, <1>2, <3>1, SameVec
  <2>2. Send(t, v, p) = t
    BY <1>9 DEF Send
  <2> QED BY <2>1, <2>2 DEF SameForce
<1>10. CASE ~ Unchanged(t, v, p)
  <2>1. Send(t, v, p) = IF t.mask # {} /\ Blocked(t, p) THEN f ELSE g
    BY <1>10 DEF Send
  <2> QED BY <1>7, <1>8, <2>1 DEF SameForce
<1> QED BY <1>9, <1>10

(* A bit that is shown right stays so, and a value that passes is shown.   *)
LEMMA SendRight ==
    ASSUME NEW t \in State, NEW v, NEW p \in SUBSET All, \A i \in p : v[i] \in Bit
    PROVE  /\ \A i \in All : Right(t, i) => Right(Send(t, v, p), i)
           /\ ~ Unchanged(t, v, p) /\ ~ Blocked(t, p) =>
                 \A i \in p : Right(Send(t, v, p), i)
<1> DEFINE d == [t EXCEPT !.drv = Over(t.drv, v, p), !.fresh = FALSE]
           f == IF t.mask = {} \/ kind.type = "real" THEN d ELSE [d EXCEPT !.push = FALSE]
           g == [f EXCEPT !.seen = Over(@, Value(d), p), !.told = Value(d)]
<1>1. t.drv \in Vec /\ t.seen \in Vec
  BY DEF State
<1>2. /\ Over(t.drv, v, p) \in Vec
      /\ \A i \in All : Over(t.drv, v, p)[i] = IF i \in p THEN v[i] ELSE t.drv[i]
  BY <1>1, OverTyped
<1>3. d \in State /\ d.mask = t.mask /\ d.force = t.force /\ d.drv = Over(t.drv, v, p)
  BY <1>2 DEF State
<1>4. /\ Value(d) \in Vec
      /\ \A i \in All : Value(d)[i] = IF i \in t.mask THEN t.force[i] ELSE d.drv[i]
  BY <1>3, ValueTyped
<1>5. \A i \in p : Value(d)[i] \in Bit
  BY <1>4, BitOf
<1>6. \A i \in All : Over(t.seen, Value(d), p)[i] = IF i \in p THEN Value(d)[i] ELSE t.seen[i]
  BY <1>1, <1>5, OverTyped
<1>7. \A i \in All : Value(t)[i] = IF i \in t.mask THEN t.force[i] ELSE t.drv[i]
  BY ValueTyped
<1>8. f.mask = d.mask /\ f.force = d.force /\ f.drv = d.drv /\ f.seen = t.seen /\ f.told = t.told
  BY DEF State
<1>9. Value(f) = Value(d)
  BY <1>8 DEF Value
<1>10. f \in State
  BY <1>3 DEF State
<1>11. g.seen = Over(t.seen, Value(d), p) /\ g.told = Value(d)
       /\ g.mask = f.mask /\ g.force = f.force /\ g.drv = f.drv
  BY <1>8, <1>10 DEF State
<1>12. Value(g) = Value(d)
  BY <1>9, <1>11 DEF Value
<1>13. CASE Unchanged(t, v, p)
  BY <1>13 DEF Send
<1>14. CASE ~ Unchanged(t, v, p) /\ t.mask # {} /\ Blocked(t, p)
  <2>1. Send(t, v, p) = f
    BY <1>14 DEF Send
  <2>2. \A i \in All : Value(d)[i] = Value(t)[i]
    BY <1>2, <1>3, <1>4, <1>7, <1>14 DEF Blocked
  <2>3. ASSUME NEW i \in All, Right(t, i) PROVE Right(f, i)
    BY <1>8, <1>9, <2>2, <2>3 DEF Right
  <2> QED BY <1>14, <2>1, <2>3
<1>15. CASE ~ Unchanged(t, v, p) /\ ~ (t.mask # {} /\ Blocked(t, p))
  <2>1. Send(t, v, p) = g
    BY <1>15 DEF Send
  <2>2. ASSUME NEW i \in All, i \in p \/ Right(t, i) PROVE Right(g, i)
    <3>1. g.told[i] = Value(g)[i]
      BY <1>11, <1>12
    <3>2. i \notin p => Value(d)[i] = Value(t)[i]
      BY <1>2, <1>3, <1>4, <1>7
    <3>3. g.seen[i] = Value(g)[i]
      BY <1>6, <1>11, <1>12, <2>2, <3>2 DEF Right
    <3> QED BY <3>1, <3>3 DEF Right
  <2> QED BY <2>1, <2>2
<1> QED BY <1>13, <1>14, <1>15

-----------------------------------------------------------------------------
(***************************************************************************)
(* The functor of a variable: both layers remember the same value, and     *)
(* whatever goes out gives a held bit its value.                           *)
(***************************************************************************)
Layered(t) == t.drv = t.sig

(* The functor of t has set w, and sends it.                               *)
LEMMA SetSent ==
    ASSUME NEW t \in State, Layered(t), NEW x \in State, NEW w \in Vec,
           x.sig = w, x.drv = t.drv, x.fresh = t.fresh, x.push = t.push,
           SameForce(t, x), x.seen = t.seen, x.told = t.told, NEW u, u = Send(x, w, All)
    PROVE  /\ u \in State /\ u.sig = w /\ u.drv = w /\ u.assigned = x.assigned
           /\ SameForce(t, u)
           /\ \A i \in All : Right(t, i) => Right(u, i)
           /\ \A h : Shown(t, h) => Shown(u, StillHeld(h, t, u))
<1>1. \A i \in All : w[i] \in Bit
  BY BitOf
<1>2. u \in State /\ u.sig = w /\ u.drv = Over(x.drv, w, All) /\ u.assigned = x.assigned
      /\ SameForce(x, u)
  BY <1>1, SendTyped
<1>3. x.drv \in Vec
  BY DEF State
<1>4. u.drv = w
  <2>1. /\ Over(x.drv, w, All) \in Vec
        /\ \A i \in All : Over(x.drv, w, All)[i] = IF i \in All THEN w[i] ELSE x.drv[i]
    BY <1>1, <1>3, OverTyped
  <2>2. \A i \in All : Over(x.drv, w, All)[i] = w[i]
    BY <2>1
  <2> QED BY <1>2, <2>1, <2>2, SameVec
<1>5. SameForce(t, u)
  BY <1>2 DEF SameForce
<1>6. Value(x) = Value(t)
  BY DEF Value, SameForce
<1>7. \A i \in All : Right(t, i) => Right(x, i)
  BY <1>6 DEF Right
<1>8. \A i \in All : Right(t, i) => Right(u, i)
  BY <1>1, <1>7, SendRight
<1>9. ASSUME NEW h, Shown(t, h) PROVE Shown(u, StillHeld(h, t, u))
  <2>1. CASE w = t.drv
    <3>1. StillHeld(h, t, u) = h
      BY <1>2, <1>4, <2>1 DEF StillHeld, Layered
    <3> QED BY <1>5, <1>8, <1>9, <3>1 DEF Shown, SameForce
  <2>2. CASE w # t.drv
    <3>1. ~ Unchanged(x, w, All)
      <4>1. SUFFICES ASSUME Unchanged(x, w, All) PROVE FALSE
        OBVIOUS
      <4>2. \A i \in All : x.drv[i] = w[i]
        BY <4>1 DEF Unchanged
      <4> QED BY <1>3, <2>2, <4>2, SameVec
    <3>2. CASE Blocked(x, All)
      <4>1. \A i \in All : i \in t.mask
        BY <3>2 DEF Blocked, SameForce
      <4> QED BY <1>8, <1>9, <4>1 DEF Shown
    <3>3. CASE ~ Blocked(x, All)
      <4>1. \A i \in All : Right(u, i)
        BY <1>1, <3>1, <3>3, SendRight
      <4> QED BY <4>1 DEF Shown
    <3> QED BY <3>2, <3>3
  <2> QED BY <2>1, <2>2
<1> QED BY <1>2, <1>4, <1>5, <1>8, <1>9

(* What happens when v arrives at the bits p of t, which becomes u.        *)
Recvd(t, v, p, u) ==
    /\ u \in State /\ Layered(u) /\ u.sig = Over(t.sig, v, p \ t.assigned)
    /\ u.assigned = t.assigned /\ SameForce(t, u)
    /\ \A i \in All : Right(t, i) => Right(u, i)
    /\ \A h : Shown(t, h) => Shown(u, StillHeld(h, t, u))

LEMMA NothingSent ==
    ASSUME NEW t \in State, Layered(t), NEW v, NEW p,
           Over(t.sig, v, p \ t.assigned) = t.sig
    PROVE  Recvd(t, v, p, t)
BY DEF Recvd, StillHeld, SameForce

LEMMA RecvVariable ==
    ASSUME NEW t \in State, kind.reg, Layered(t), NEW v, NEW p \in SUBSET All,
           \A i \in p : v[i] \in Bit, p = All => v \in Vec
    PROVE  Recvd(t, v, p, Recv(t, v, p))
<1> DEFINE free == p \ t.assigned
           set == [t EXCEPT !.sig = Over(@, v, free), !.sfresh = FALSE]
           w == Over(t.sig, v, free)
<1>1. t.sig \in Vec /\ free \in SUBSET All /\ \A i \in free : v[i] \in Bit
  BY DEF State
<1>2. w \in Vec /\ \A i \in All : w[i] = IF i \in free THEN v[i] ELSE t.sig[i]
  BY <1>1, OverTyped
<1>3. CASE t.assigned = {} /\ p = All /\ ~ t.sfresh /\ t.sig = v
  <2>1. Recv(t, v, p) = t
    BY <1>3 DEF Recv
  <2>2. \A i \in All : w[i] = t.sig[i]
    BY <1>2, <1>3
  <2>3. w = t.sig
    BY <1>1, <1>2, <2>2, SameVec
  <2> QED BY <2>1, <2>3, NothingSent
<1>4. CASE ~ (t.assigned = {} /\ p = All /\ ~ t.sfresh /\ t.sig = v)
           /\ t.assigned # {} /\ free = {}
  <2>1. Recv(t, v, p) = t
    BY <1>4 DEF Recv
  <2>2. \A i \in All : w[i] = t.sig[i]
    BY <1>2, <1>4
  <2>3. w = t.sig
    BY <1>1, <1>2, <2>2, SameVec
  <2> QED BY <2>1, <2>3, NothingSent
<1>5. CASE ~ (t.assigned = {} /\ p = All /\ ~ t.sfresh /\ t.sig = v)
           /\ ~ (t.assigned # {} /\ free = {})
  <2>1. Recv(t, v, p) = Send(set, set.sig, All)
    BY <1>5 DEF Recv
  <2>2. set \in State /\ set.sig = w /\ set.drv = t.drv /\ set.fresh = t.fresh
        /\ set.push = t.push /\ SameForce(t, set) /\ set.seen = t.seen
        /\ set.told = t.told /\ set.assigned = t.assigned
    BY <1>2 DEF State, SameForce
  <2> HIDE DEF set, w
  <2>3. PICK x \in State : x = set
    BY <2>2
  <2>4. PICK u : u = Send(x, w, All)
    OBVIOUS
  <2>5. Recv(t, v, p) = u
    BY <2>1, <2>2, <2>3, <2>4
  <2>6. /\ u \in State /\ u.sig = w /\ u.drv = w /\ u.assigned = x.assigned
        /\ SameForce(t, u)
        /\ \A i \in All : Right(t, i) => Right(u, i)
        /\ \A h : Shown(t, h) => Shown(u, StillHeld(h, t, u))
    BY <1>2, <2>2, <2>3, <2>4, SetSent
  <2>7. w = Over(t.sig, v, p \ t.assigned)
    BY DEF w
  <2> QED BY <2>2, <2>3, <2>5, <2>6, <2>7 DEF Recvd, Layered
<1> QED BY <1>3, <1>4, <1>5

(* A continuous assignment.                                                *)
Assigned(t, v, p, u) ==
    /\ u \in State /\ Layered(u) /\ u.sig = Over(t.sig, v, p)
    /\ u.assigned = t.assigned \cup p /\ SameForce(t, u)
    /\ \A h : Shown(t, h) => Shown(u, StillHeld(h, t, u))

LEMMA AssignVariable ==
    ASSUME NEW t \in State, Layered(t), NEW v, NEW p \in SUBSET All,
           \A i \in p : v[i] \in Bit
    PROVE  Assigned(t, v, p, Assign(t, v, p))
<1> DEFINE w == Over(t.sig, v, p)
           set == [t EXCEPT !.sig = Over(@, v, p), !.assigned = @ \cup p]
<1>1. t.sig \in Vec
  BY DEF State
<1>2. w \in Vec
  BY <1>1, OverTyped
<1>3. Assign(t, v, p) = Send(set, set.sig, All)
  BY DEF Assign
<1>4. set \in State /\ set.sig = w /\ set.drv = t.drv /\ set.fresh = t.fresh
      /\ set.push = t.push /\ SameForce(t, set) /\ set.seen = t.seen
      /\ set.told = t.told /\ set.assigned = t.assigned \cup p
  BY <1>2 DEF State, SameForce
<1> HIDE DEF set, w
<1>5. PICK x \in State : x = set
  BY <1>4
<1>6. PICK u : u = Send(x, w, All)
  OBVIOUS
<1>7. Assign(t, v, p) = u
  BY <1>3, <1>4, <1>5, <1>6
<1>8. /\ u \in State /\ u.sig = w /\ u.drv = w /\ u.assigned = x.assigned
      /\ SameForce(t, u)
      /\ \A h : Shown(t, h) => Shown(u, StillHeld(h, t, u))
  BY <1>2, <1>4, <1>5, <1>6, SetSent
<1>9. w = Over(t.sig, v, p)
  BY DEF w
<1> QED BY <1>4, <1>5, <1>7, <1>8, <1>9 DEF Assigned, Layered

-----------------------------------------------------------------------------
(***************************************************************************)
(* Force.                                                                  *)
(***************************************************************************)
Forced(t, v, p, u) ==
    /\ u \in State /\ u.sig = t.sig /\ u.drv = t.drv /\ u.assigned = t.assigned
    /\ u.forced /\ u.mask = t.mask \cup p
    /\ \A i \in p : u.force[i] = v[i]
    /\ \A i \in t.mask \ p : u.force[i] = t.force[i]
    /\ \A i \in All : Right(u, i)

LEMMA ForceShows ==
    ASSUME NEW t \in State, t.forced \/ t.mask = {}, NEW v \in Vec, NEW p \in SUBSET All,
           \A i \in All \ p : v[i] = Value(t)[i]
    PROVE  Forced(t, v, p, ForceTo(t, v, p))
<1> DEFINE f == [t EXCEPT !.mask = @ \cup p, !.push = TRUE,
                       !.force = IF t.forced THEN Over(@, v, p) ELSE v,
                       !.forced = TRUE]
           u == [f EXCEPT !.seen = v, !.told = Value(f)]
<1>1. t.force \in Vec /\ \A i \in All : v[i] \in Bit
  BY BitOf DEF State
<1>2. /\ Over(t.force, v, p) \in Vec
      /\ \A i \in All : Over(t.force, v, p)[i] = IF i \in p THEN v[i] ELSE t.force[i]
  BY <1>1, OverTyped
<1>3. /\ f \in State /\ f.sig = t.sig /\ f.drv = t.drv /\ f.assigned = t.assigned
      /\ f.forced /\ f.mask = t.mask \cup p
      /\ f.force = IF t.forced THEN Over(t.force, v, p) ELSE v
  BY <1>2 DEF State
<1>4. /\ Value(f) \in Vec
      /\ \A i \in All : Value(f)[i] = IF i \in f.mask THEN f.force[i] ELSE f.drv[i]
  BY <1>3, ValueTyped
<1>5. \A g \in State : [g EXCEPT !.seen = v, !.told = Value(f)] \in State
  BY <1>4 DEF State
<1>6. u \in State
  BY <1>3, <1>5
<1>7. /\ u \in State /\ u.sig = t.sig /\ u.drv = t.drv /\ u.assigned = t.assigned
      /\ u.forced /\ u.mask = f.mask /\ u.force = f.force /\ u.seen = v /\ u.told = Value(f)
  <2> HIDE DEF f
  <2> QED BY <1>3, <1>6 DEF State
<1>8. Value(u) = Value(f)
  BY <1>3, <1>7 DEF Value
<1>9. /\ \A i \in p : f.force[i] = v[i]
      /\ \A i \in t.mask \ p : f.force[i] = t.force[i]
  <2>1. t.mask \subseteq All
    BY DEF State
  <2> QED BY <1>2, <1>3, <2>1
<1>10. \A i \in All : Value(t)[i] = IF i \in t.mask THEN t.force[i] ELSE t.drv[i]
  BY ValueTyped
<1>11. ASSUME NEW i \in All PROVE Right(u, i)
  <2>1. Value(f)[i] = v[i]
    BY <1>3, <1>4, <1>9, <1>10
  <2> QED BY <1>7, <1>8, <2>1 DEF Right
<1>12. ForceTo(t, v, p) = u
  BY DEF ForceTo
<1> HIDE DEF u, f
<1> QED BY <1>3, <1>7, <1>9, <1>11, <1>12 DEF Forced

-----------------------------------------------------------------------------
(***************************************************************************)
(* Release.                                                                *)
(***************************************************************************)
Released(t, p, u) ==
    /\ u \in State /\ u.mask = t.mask \ p
    /\ u.force = t.force /\ u.forced = t.forced /\ u.assigned = t.assigned
    /\ \A i \in t.assigned : u.sig[i] = t.sig[i]

LEMMA ReleaseVariable ==
    ASSUME NEW t \in State, kind.reg, Layered(t), NEW p \in SUBSET All, NEW h, Shown(t, h)
    PROVE  /\ Released(t, p, Release(t, p)) /\ Layered(Release(t, p))
           /\ Shown(Release(t, p),
                    StillHeld(h, t, Release(t, p)) \cup (p \cap t.mask \cap t.assigned))
<1> DEFINE x == [t EXCEPT !.mask = @ \ p]
           v == Value(t)
           free == p \ t.assigned
<1>1. PICK r : r = x
  OBVIOUS
<1>2. /\ r \in State /\ Layered(r) /\ r.mask = t.mask \ p /\ r.sig = t.sig /\ r.drv = t.drv
      /\ r.force = t.force /\ r.forced = t.forced /\ r.assigned = t.assigned
      /\ r.seen = t.seen /\ r.told = t.told
  BY <1>1 DEF State, Layered
<1>3. v \in Vec /\ \A i \in All : v[i] = IF i \in t.mask THEN t.force[i] ELSE t.drv[i]
  BY ValueTyped
<1>4. \A i \in p : v[i] \in Bit
  BY <1>3, BitOf
<1>5. PICK u : u = Recv(r, v, p)
  OBVIOUS
<1>6. Release(t, p) = u
  BY <1>1, <1>5 DEF Release
<1> HIDE DEF v
<1>7. Recvd(r, v, p, u)
  BY <1>2, <1>3, <1>4, <1>5, RecvVariable
<1>8. /\ u.sig = Over(t.sig, v, free) /\ u.mask = t.mask \ p /\ u.drv = u.sig /\ u \in State
      /\ u.force = t.force /\ u.forced = t.forced /\ u.assigned = t.assigned
  BY <1>2, <1>7 DEF Recvd, Layered, SameForce
<1>9. t.sig \in Vec /\ t.drv \in Vec /\ free \in SUBSET All /\ t.assigned \subseteq All
  BY DEF State
<1>10. \A i \in All : u.sig[i] = IF i \in free THEN v[i] ELSE t.sig[i]
  BY <1>4, <1>8, <1>9, OverTyped
<1>11. Released(t, p, u)
  BY <1>8, <1>9, <1>10 DEF Released
<1>12. \A i \in All \ (p \cap t.mask) : Value(r)[i] = Value(t)[i]
  BY <1>2, ValueTyped
<1>13. \A i \in All \ (p \cap t.mask) : Right(t, i) => Right(r, i)
  BY <1>2, <1>12 DEF Right
<1>14. Shown(r, h \cup (p \cap t.mask))
  <2> SUFFICES ASSUME NEW i \in All, i \notin h \cup (p \cap t.mask) \/ i \in r.mask
               PROVE  Right(r, i)
    BY DEF Shown
  <2>1. i \notin p \cap t.mask /\ (i \notin h \/ i \in t.mask)
    BY <1>2
  <2> QED BY <1>13, <2>1 DEF Shown
<1>15. Shown(u, StillHeld(h \cup (p \cap t.mask), r, u))
  BY <1>7, <1>14 DEF Recvd
<1>16. ASSUME NEW i \in All,
              i \notin StillHeld(h, t, u) \cup (p \cap t.mask \cap t.assigned) \/ i \in u.mask
       PROVE  Right(u, i)
  <2>1. CASE i \in u.mask \/ i \notin StillHeld(h \cup (p \cap t.mask), r, u)
    BY <1>15, <2>1 DEF Shown
  <2>2. CASE i \notin u.mask /\ i \in StillHeld(h \cup (p \cap t.mask), r, u)
    <3>1. u.drv = t.drv /\ u.sig = t.sig /\ i \in h \cup (p \cap t.mask)
      BY <1>2, <2>2 DEF StillHeld
    <3>2. i \in p \cap t.mask /\ i \in free
      BY <1>16, <2>2, <3>1 DEF StillHeld
    <3>3. t.drv[i] = t.force[i]
      BY <1>3, <1>8, <1>10, <3>1, <3>2
    <3>4. Right(t, i)
      BY <3>2 DEF Shown
    <3>5. Value(r)[i] = Value(t)[i]
      BY <1>2, <3>2, <3>3, ValueTyped
    <3>6. Right(r, i)
      BY <1>2, <3>4, <3>5 DEF Right
    <3> QED BY <1>7, <3>6 DEF Recvd
  <2> QED BY <2>1, <2>2
<1> QED BY <1>6, <1>8, <1>11, <1>16 DEF Shown, Layered

LEMMA ReleaseWire ==
    ASSUME NEW t \in State, ~ kind.reg, NEW p \in SUBSET All, p # {}, Shown(t, {})
    PROVE  Released(t, p, Release(t, p)) /\ Shown(Release(t, p), {})
<1> DEFINE fr == \E i \in p : t.force[i] # t.drv[i]
           x == [[t EXCEPT !.mask = @ \ p] EXCEPT !.fresh = fr]
<1>1. PICK f : f = x
  OBVIOUS
<1>2. /\ f \in State /\ f.mask = t.mask \ p /\ f.sig = t.sig /\ f.drv = t.drv
      /\ f.force = t.force /\ f.forced = t.forced /\ f.assigned = t.assigned
      /\ f.seen = t.seen /\ f.told = t.told /\ f.fresh = fr
  BY <1>1 DEF State
<1>3. t.drv \in Vec /\ \A i \in p : t.drv[i] \in Bit
  BY BitOf DEF State
<1>4. PICK w : w = Send(f, t.drv, p)
  OBVIOUS
<1>5. /\ w \in State /\ w.drv = Over(f.drv, t.drv, p) /\ w.sig = f.sig
      /\ w.assigned = f.assigned /\ SameForce(f, w)
  BY <1>2, <1>3, <1>4, SendTyped
<1>6. PICK u : u = [w EXCEPT !.told = Value(w)]
  OBVIOUS
<1>7. Release(t, p) = u
  BY <1>1, <1>4, <1>6 DEF Release
<1>8. Value(w) \in Vec
  BY <1>5, ValueTyped
<1>9. /\ u \in State /\ u.told = Value(w) /\ u.mask = w.mask /\ u.force = w.force
      /\ u.forced = w.forced /\ u.assigned = w.assigned /\ u.sig = w.sig /\ u.drv = w.drv
      /\ u.seen = w.seen
  BY <1>5, <1>6, <1>8 DEF State
<1>10. Value(u) = Value(w)
  BY <1>9 DEF Value
<1>11. Released(t, p, u)
  BY <1>2, <1>5, <1>9 DEF Released, SameForce
<1>12. \A i \in All : Right(t, i)
  BY DEF Shown
<1>13. ASSUME NEW i \in All PROVE w.seen[i] = Value(w)[i]
  <2>1. CASE Unchanged(f, t.drv, p)
    <3>1. w = f
      BY <1>4, <2>1 DEF Send
    <3>2. \A j \in p : t.force[j] = t.drv[j]
      BY <1>2, <2>1 DEF Unchanged
    <3>3. Value(f)[i] = Value(t)[i]
      BY <1>2, <3>2, ValueTyped
    <3> QED BY <1>2, <1>12, <3>1, <3>3 DEF Right
  <2>2. CASE ~ Unchanged(f, t.drv, p)
    <3>1. ~ Blocked(f, p)
      BY <1>2 DEF Blocked
    <3>2. i \in p => Right(w, i)
      BY <1>2, <1>3, <1>4, <2>2, <3>1, SendRight
    <3>3. i \notin p => Right(w, i)
      <4>1. i \notin p => Value(f)[i] = Value(t)[i]
        BY <1>2, ValueTyped
      <4>2. i \notin p => Right(f, i)
        BY <1>2, <1>12, <4>1 DEF Right
      <4> QED BY <1>2, <1>3, <1>4, <4>2, SendRight
    <3> QED BY <3>2, <3>3 DEF Right
  <2> QED BY <2>1, <2>2
<1>14. \A i \in All : Right(u, i)
  BY <1>9, <1>10, <1>13 DEF Right
<1> QED BY <1>7, <1>11, <1>14 DEF Shown

-----------------------------------------------------------------------------
(***************************************************************************)
(* Links.                                                                  *)
(***************************************************************************)
Ports == {"force", "cassign"}
Fanout(l) == l \in [Linkable -> Seq(Ports)] /\ \A b \in Linkable : IsInjective(l[b])

LEMMA WithoutPort ==
    ASSUME NEW q \in Seq(Ports), IsInjective(q), NEW port
    PROVE  /\ Without(q, port) \in Seq(Ports) /\ IsInjective(Without(q, port))
           /\ ToSet(Without(q, port)) = ToSet(q) \ {port}
<1>1. DOMAIN q = 1..Len(q)
  OBVIOUS
<1>2. CASE \E i \in DOMAIN q : q[i] = port
  <2>1. PICK i : i = CHOOSE j \in DOMAIN q : q[j] = port
    OBVIOUS
  <2>2. i \in 1..Len(q) /\ q[i] = port
    BY <1>1, <1>2, <2>1
  <2>3. Taken(Ports, q, i, SubSeq(q, 1, i - 1) \o SubSeq(q, i + 1, Len(q)))
    BY <2>2, TakenOut
  <2>4. PICK r : r = RemoveAt(q, i) /\ Taken(Ports, q, i, r)
    BY <2>3 DEF RemoveAt
  <2>5. IsInjective(r) /\ ToSet(r) = ToSet(q) \ {q[i]}
    BY <2>2, <2>4, TakenInjective
  <2>6. r \in Seq(Ports)
    BY <2>4 DEF Taken
  <2> QED BY <1>2, <2>1, <2>2, <2>4, <2>5, <2>6 DEF Without
<1>3. CASE ~ \E i \in DOMAIN q : q[i] = port
  BY <1>3 DEF Without, ToSet
<1> QED BY <1>2, <1>3

LEMMA UnlinkedFacts ==
    ASSUME Fanout(linked), NEW port
    PROVE  /\ Fanout(Unlinked(port))
           /\ \A b \in Linkable : ToSet(Unlinked(port)[b]) = ToSet(linked[b]) \ {port}
<1> SUFFICES ASSUME NEW b \in Linkable
             PROVE  /\ Unlinked(port)[b] \in Seq(Ports) /\ IsInjective(Unlinked(port)[b])
                    /\ ToSet(Unlinked(port)[b]) = ToSet(linked[b]) \ {port}
  BY DEF Fanout, Unlinked
<1>1. linked[b] \in Seq(Ports) /\ IsInjective(linked[b])
  BY DEF Fanout
<1> QED BY <1>1, WithoutPort DEF Unlinked

LEMMA LinkedFacts ==
    ASSUME Fanout(linked), NEW port \in Ports, NEW b \in Linkable
    PROVE  /\ Fanout(LinkedWith(b, Unlinked(port), port))
           /\ \A c \in Linkable : ToSet(LinkedWith(b, Unlinked(port), port)[c])
                 = IF c = b THEN ToSet(linked[c]) \cup {port} ELSE ToSet(linked[c]) \ {port}
<1>1. PICK o : o = Unlinked(port)
  OBVIOUS
<1>2. Fanout(o) /\ \A c \in Linkable : ToSet(o[c]) = ToSet(linked[c]) \ {port}
  BY <1>1, UnlinkedFacts
<1>3. PICK q : q = o[b]
  OBVIOUS
<1>4. q \in Seq(Ports) /\ IsInjective(q) /\ port \notin ToSet(q)
  BY <1>2, <1>3 DEF Fanout
<1>5. <<port>> \o q \in Seq(Ports) /\ IsInjective(<<port>> \o q)
      /\ ToSet(<<port>> \o q) = ToSet(q) \cup {port}
  BY <1>4, ConsInjective
<1>6. PICK r : r = <<port>> \o q
  OBVIOUS
<1>7. LinkedWith(b, o, port) = [o EXCEPT ![b] = r]
  BY <1>3, <1>6 DEF LinkedWith
<1>8. \A c \in Linkable : [o EXCEPT ![b] = r][c] = IF c = b THEN r ELSE o[c]
  BY <1>2 DEF Fanout
<1>9. ToSet(r) = ToSet(linked[b]) \cup {port}
  BY <1>2, <1>3, <1>5, <1>6
<1>10. Fanout([o EXCEPT ![b] = r])
  BY <1>2, <1>5, <1>6, <1>8 DEF Fanout
<1> QED BY <1>1, <1>2, <1>7, <1>8, <1>9, <1>10

(* After an unlinking or a linking, the sources of both ports.             *)
LEMMA SourcesUnlinked ==
    ASSUME Fanout(linked), NEW port, linked' = Unlinked(port)
    PROVE  Fanout(linked') /\ \A q \in Ports :
              LinkedTo(q)' = IF q = port THEN {} ELSE LinkedTo(q)
<1>1. /\ Fanout(linked')
      /\ \A b \in Linkable : ToSet(linked'[b]) = ToSet(linked[b]) \ {port}
  BY UnlinkedFacts
<1> QED BY <1>1 DEF LinkedTo

LEMMA SourcesLinked ==
    ASSUME Fanout(linked), NEW port \in Ports, NEW b \in Linkable,
           linked' = LinkedWith(b, Unlinked(port), port)
    PROVE  Fanout(linked') /\ \A q \in Ports :
              LinkedTo(q)' = IF q = port THEN {b} ELSE LinkedTo(q)
<1>1. /\ Fanout(linked')
      /\ \A c \in Linkable : ToSet(linked'[c])
            = IF c = b THEN ToSet(linked[c]) \cup {port} ELSE ToSet(linked[c]) \ {port}
  BY LinkedFacts
<1> QED BY <1>1 DEF LinkedTo

-----------------------------------------------------------------------------
(***************************************************************************)
(* The invariant.                                                          *)
(***************************************************************************)
Wants   == BitValues \cup Linkable \cup {"none", "x"}
LinkInv == LinksAgree /\ LastForceHolds

Sane(t, h) ==
    /\ t \in State /\ h \subseteq All /\ Shown(t, h)
    /\ IF kind.reg THEN Layered(t) ELSE h = {}
    /\ t.forced \/ t.mask = {}

LEMMA InvParts ==
    SignalInv = /\ kind \in Kinds /\ Sane(signal, held)
                /\ val \in [Linkable -> Vectors] /\ Fanout(linked) /\ want \in [All -> Wants]
                /\ kind.reg \/ LinkedTo("cassign") = {}
                /\ ~ Reforce => LinkInv
BY DEF SignalInv, SignalTypeOK, LayersAgree, LinkInv, Sane, Layered, Fanout, Ports, Wants

LEMMA SameKind ==
    ASSUME kind' = kind
    PROVE  /\ All' = All /\ Vec' = Vec /\ State' = State /\ Vectors' = Vectors
           /\ \A t, h : Shown(t, h)' = Shown(t, h)
<1>1. All' = All
  BY DEF All
<1>2. Vec' = Vec /\ Vectors' = Vectors
  BY <1>1 DEF Vec, Vectors
<1>3. State' = State
  BY <1>1, <1>2 DEF State
<1>4. \A t, h : Shown(t, h)' = Shown(t, h)
  BY <1>1 DEF Shown, Right, Value
<1> QED BY <1>1, <1>2, <1>3, <1>4

LEMMA InvStep ==
    ASSUME kind \in Kinds, kind' = kind, Sane(signal', held'),
           val' \in [Linkable -> Vectors], Fanout(linked'), want' \in [All -> Wants],
           kind.reg \/ LinkedTo("cassign")' = {}, ~ Reforce => LinkInv'
    PROVE  SignalInv'
<1>1. PICK u, h : u = signal' /\ h = held'
  OBVIOUS
<1>2. All' = All /\ Vec' = Vec /\ State' = State /\ Vectors' = Vectors
      /\ Shown(u, h)' = Shown(u, h)
  BY SameKind
<1>3. Shown(signal, held)' = Shown(u, h)
  BY <1>1, <1>2 DEF Shown, Right, Value
<1>4. SignalTypeOK'
  BY <1>2 DEF SignalTypeOK, Sane, Fanout, Ports, Wants
<1>5. LayersAgree'
  BY DEF LayersAgree, Sane, Layered
<1>6. Shown(signal, held)'
  BY <1>1, <1>3 DEF Sane
<1> QED BY <1>4, <1>5, <1>6 DEF SignalInv, LinkInv

(* A value that passes through changes nothing about links and forces.     *)
LEMMA LinksKept ==
    ASSUME LinkInv, UNCHANGED <<kind, val, linked, want>>, NEW u, u = signal',
           SameForce(signal, u), u.assigned = signal.assigned, signal \in State,
           \A i \in signal.assigned : u.sig[i] = signal.sig[i]
    PROVE  LinkInv'
<1>1. All' = All
  BY SameKind
<1>2. \A port : LinkedTo(port)' = LinkedTo(port)
  BY DEF LinkedTo
<1>3. LinksAgree'
  BY <1>1, <1>2 DEF LinkInv, LinksAgree
<1>4. LastForceHolds'
  BY <1>1, <1>2 DEF LinkInv, LinksAgree, LastForceHolds, SameForce
<1> QED BY <1>3, <1>4 DEF LinkInv

LEMMA StillHeldSubset ==
    ASSUME NEW h, h \subseteq All, NEW t, NEW u
    PROVE  /\ StillHeld(h, t, u) \subseteq All
           /\ h = {} => StillHeld(h, t, u) = {}
BY DEF StillHeld

LEMMA PartValues ==
    ASSUME NEW p \in Pieces, NEW v \in [p -> BitValues]
    PROVE  /\ p \in SUBSET All /\ p # {} /\ \A i \in p : v[i] \in Bit
           /\ p = All => v \in Vec
BY PiecesFacts DEF Vec, Bit

-----------------------------------------------------------------------------
LEMMA InitInv == SignalInit => SignalInv
<1> SUFFICES ASSUME SignalInit PROVE SignalInv
  OBVIOUS
<1>1. kind \in Kinds /\ "0" \in BitValues /\ "none" \notin Linkable
  BY SignalAssumption DEF SignalInit
<1>2. Nothing(kind) \in Vec
  BY <1>1 DEF Nothing, Vec, All
<1>3. /\ signal \in State /\ signal.sig = Nothing(kind) /\ signal.drv = Nothing(kind)
      /\ signal.mask = {} /\ signal.seen = Nothing(kind) /\ signal.told = Nothing(kind)
      /\ ~ signal.forced
  BY <1>2 DEF SignalInit, State
<1>4. \A i \in All : Right(signal, i)
  <2>1. \A i \in All : Value(signal)[i] = signal.drv[i]
    BY <1>3, ValueTyped
  <2> QED BY <1>3, <2>1 DEF Right
<1>5. Sane(signal, held)
  BY <1>3, <1>4 DEF Sane, Shown, Layered, SignalInit
<1>6. val \in [Linkable -> Vectors]
  BY <1>1 DEF SignalInit, Vectors
<1>7. Fanout(linked) /\ \A b \in Linkable : ToSet(linked[b]) = {}
  BY DEF SignalInit, Fanout, IsInjective, ToSet
<1>8. \A port : LinkedTo(port) = {}
  BY <1>7 DEF LinkedTo
<1>9. want \in [All -> Wants] /\ \A i \in All : want[i] = "none"
  BY DEF SignalInit, Wants
<1>10. LinkInv
  BY <1>1, <1>3, <1>8, <1>9 DEF LinkInv, LinksAgree, LastForceHolds
<1> QED BY <1>1, <1>5, <1>6, <1>7, <1>8, <1>9, <1>10, InvParts

(* What a write makes of the signal.                                       *)
LEMMA WriteInv ==
    ASSUME SignalInv, NEW p \in Pieces, NEW v \in [p -> BitValues], Write(v, p)
    PROVE  SignalInv'
<1>1. /\ signal' = Recv(signal, v, p) /\ held' = StillHeld(held, signal, signal')
      /\ UNCHANGED <<kind, val, linked, want>>
  BY DEF Write, Run
<1>2. /\ kind \in Kinds /\ Sane(signal, held)
      /\ val \in [Linkable -> Vectors] /\ Fanout(linked) /\ want \in [All -> Wants]
      /\ kind.reg \/ LinkedTo("cassign") = {}
      /\ ~ Reforce => LinkInv
  BY InvParts
<1>3. p \in SUBSET All /\ (\A i \in p : v[i] \in Bit) /\ (p = All => v \in Vec)
  BY PartValues
<1>4. PICK u : u = signal'
  OBVIOUS
<1>5. /\ u \in State /\ SameForce(signal, u) /\ u.assigned = signal.assigned
      /\ \A i \in signal.assigned : u.sig[i] = signal.sig[i]
      /\ Shown(u, held') /\ (kind.reg => Layered(u))
  <2>1. CASE kind.reg
    <3>1. Recvd(signal, v, p, u)
      BY <1>1, <1>2, <1>3, <1>4, <2>1, RecvVariable DEF Sane
    <3>2. signal.sig \in Vec /\ signal.assigned \subseteq All
      BY <1>2 DEF Sane, State
    <3>3. \A i \in signal.assigned : u.sig[i] = signal.sig[i]
      BY <1>3, <3>1, <3>2, OverTyped DEF Recvd
    <3> QED BY <1>1, <1>2, <1>4, <3>1, <3>3 DEF Recvd, Sane
  <2>2. CASE ~ kind.reg
    <3>1. u = Send(signal, v, p)
      BY <1>1, <1>4, <2>2 DEF Recv
    <3>2. u \in State /\ SameForce(signal, u) /\ u.assigned = signal.assigned /\ u.sig = signal.sig
      BY <1>2, <1>3, <3>1, SendTyped DEF Sane
    <3>3. \A i \in All : Right(u, i)
      BY <1>2, <1>3, <2>2, <3>1, SendRight DEF Sane, Shown
    <3> QED BY <2>2, <3>2, <3>3 DEF Shown
  <2> QED BY <2>1, <2>2
<1>6. Sane(signal', held')
  BY <1>1, <1>2, <1>4, <1>5, StillHeldSubset DEF Sane, SameForce
<1>7. ~ Reforce => LinkInv'
  BY <1>1, <1>2, <1>4, <1>5, LinksKept DEF Sane
<1>8. LinkedTo("cassign")' = LinkedTo("cassign") /\ Fanout(linked')
  BY <1>1, <1>2 DEF LinkedTo
<1> QED BY <1>1, <1>2, <1>6, <1>7, <1>8, InvStep

LEMMA CassignInv ==
    ASSUME SignalInv, NEW p \in Pieces, NEW v \in [p -> BitValues], Cassign(v, p)
    PROVE  SignalInv'
<1>1. /\ kind.reg /\ signal' = Assign(signal, v, p)
      /\ held' = StillHeld(held, signal, signal') /\ linked' = Unlinked("cassign")
      /\ UNCHANGED <<kind, val, want>>
  BY DEF Cassign, Run
<1>2. /\ kind \in Kinds /\ Sane(signal, held)
      /\ val \in [Linkable -> Vectors] /\ Fanout(linked) /\ want \in [All -> Wants]
      /\ ~ Reforce => LinkInv
  BY InvParts
<1>3. p \in SUBSET All /\ \A i \in p : v[i] \in Bit
  BY PartValues
<1>4. PICK u : u = signal'
  OBVIOUS
<1>5. Assigned(signal, v, p, u)
  BY <1>1, <1>2, <1>3, <1>4, AssignVariable DEF Sane
<1>6. Sane(signal', held')
  BY <1>1, <1>2, <1>4, <1>5, StillHeldSubset DEF Sane, SameForce, Assigned
<1>7. Fanout(linked') /\ LinkedTo("cassign")' = {} /\ LinkedTo("force")' = LinkedTo("force")
  BY <1>1, <1>2, SourcesUnlinked DEF Ports
<1>8. ASSUME ~ Reforce PROVE LinkInv'
  <2>1. All' = All
    BY <1>1, SameKind
  <2>2. LinksAgree'
    BY <1>1, <1>2, <1>7, <1>8, <2>1 DEF LinkInv, LinksAgree
  <2>3. LastForceHolds'
    BY <1>1, <1>2, <1>4, <1>5, <1>7, <1>8, <2>1 DEF LinkInv, LastForceHolds, Assigned, SameForce
  <2> QED BY <2>2, <2>3 DEF LinkInv
<1> QED BY <1>1, <1>2, <1>6, <1>7, <1>8, InvStep

LEMMA CassignLinkInv ==
    ASSUME SignalInv, NEW b \in Linkable, CassignLink(b) PROVE SignalInv'
<1> DEFINE v == val[b]
<1>1. /\ kind.reg /\ signal' = Assign(signal, v, All)
      /\ held' = StillHeld(held, signal, signal')
      /\ linked' = LinkedWith(b, Unlinked("cassign"), "cassign")
      /\ UNCHANGED <<kind, val, want>>
  BY DEF CassignLink, Run
<1>2. /\ kind \in Kinds /\ Sane(signal, held)
      /\ val \in [Linkable -> Vectors] /\ Fanout(linked) /\ want \in [All -> Wants]
      /\ ~ Reforce => LinkInv
  BY InvParts
<1>3. All \in SUBSET All /\ \A i \in All : v[i] \in Bit
  BY <1>2 DEF Vectors, Bit
<1>4. PICK u : u = signal'
  OBVIOUS
<1>5. Assigned(signal, v, All, u)
  BY <1>1, <1>2, <1>3, <1>4, AssignVariable DEF Sane
<1>6. Sane(signal', held')
  BY <1>1, <1>2, <1>4, <1>5, StillHeldSubset DEF Sane, SameForce, Assigned
<1>7. Fanout(linked') /\ LinkedTo("cassign")' = {b} /\ LinkedTo("force")' = LinkedTo("force")
  BY <1>1, <1>2, SourcesLinked DEF Ports
<1>8. ASSUME ~ Reforce PROVE LinkInv'
  <2>1. All' = All
    BY <1>1, SameKind
  <2>2. signal.sig \in Vec /\ signal.assigned \subseteq All
    BY <1>2 DEF Sane, State
  <2>3. u.assigned = All /\ \A i \in All : u.sig[i] = v[i]
    BY <1>3, <1>5, <2>2, OverTyped DEF Assigned
  <2>4. LinksAgree'
    BY <1>1, <1>2, <1>4, <1>7, <1>8, <2>1, <2>3 DEF LinkInv, LinksAgree
  <2>5. LastForceHolds'
    BY <1>1, <1>2, <1>4, <1>5, <1>7, <1>8, <2>1, <2>3 DEF LinkInv, LastForceHolds, Assigned, SameForce
  <2> QED BY <2>4, <2>5 DEF LinkInv
<1> QED BY <1>1, <1>2, <1>6, <1>7, <1>8, InvStep

LEMMA DeassignInv ==
    ASSUME SignalInv, NEW p \in Pieces, Deassign(p) PROVE SignalInv'
<1>1. /\ kind.reg /\ signal' = [signal EXCEPT !.assigned = @ \ p]
      /\ p # All => LinkedTo("cassign") = {}
      /\ linked' = IF p = All THEN Unlinked("cassign") ELSE linked
      /\ UNCHANGED <<kind, val, want, held>>
  BY DEF Deassign
<1>2. /\ kind \in Kinds /\ Sane(signal, held)
      /\ val \in [Linkable -> Vectors] /\ Fanout(linked) /\ want \in [All -> Wants]
      /\ ~ Reforce => LinkInv
  BY InvParts
<1>3. PICK u : u = signal'
  OBVIOUS
<1>4. /\ u \in State /\ u.sig = signal.sig /\ u.drv = signal.drv /\ SameForce(signal, u)
      /\ u.seen = signal.seen /\ u.told = signal.told
  BY <1>1, <1>2, <1>3 DEF Sane, State, SameForce
<1>5. Value(u) = Value(signal)
  BY <1>4 DEF Value, SameForce
<1>6. Shown(u, held)
  BY <1>2, <1>4, <1>5 DEF Sane, Shown, Right, SameForce
<1>7. Sane(signal', held')
  BY <1>1, <1>2, <1>3, <1>4, <1>6 DEF Sane, Layered, SameForce
<1>8. Fanout(linked') /\ LinkedTo("cassign")' = {} /\ LinkedTo("force")' = LinkedTo("force")
  <2>1. CASE p = All
    BY <1>1, <1>2, <2>1, SourcesUnlinked DEF Ports
  <2>2. CASE p # All
    BY <1>1, <1>2, <2>2 DEF LinkedTo
  <2> QED BY <2>1, <2>2
<1>9. ASSUME ~ Reforce PROVE LinkInv'
  <2>1. All' = All
    BY <1>1, SameKind
  <2>2. LinksAgree'
    BY <1>1, <1>2, <1>8, <1>9, <2>1 DEF LinkInv, LinksAgree
  <2>3. LastForceHolds'
    BY <1>1, <1>2, <1>3, <1>4, <1>8, <1>9, <2>1 DEF LinkInv, LastForceHolds, SameForce
  <2> QED BY <2>2, <2>3 DEF LinkInv
<1> QED BY <1>1, <1>2, <1>7, <1>8, <1>9, InvStep

LEMMA ForceValueInv ==
    ASSUME SignalInv, NEW p \in Pieces, NEW v \in [p -> BitValues], ForceValue(v, p)
    PROVE  SignalInv'
<1> DEFINE w == Over(Value(signal), v, p)
<1>1. /\ LinkedTo("force") # {} => Reforce
      /\ signal' = ForceTo(signal, w, p) /\ held' = StillHeld(held, signal, signal')
      /\ want' = [i \in All |-> IF i \in p THEN v[i] ELSE want[i]]
      /\ UNCHANGED <<kind, val, linked>>
  BY DEF ForceValue, Run
<1>2. /\ kind \in Kinds /\ Sane(signal, held)
      /\ val \in [Linkable -> Vectors] /\ Fanout(linked) /\ want \in [All -> Wants]
      /\ kind.reg \/ LinkedTo("cassign") = {}
      /\ ~ Reforce => LinkInv
  BY InvParts
<1>3. p \in SUBSET All /\ \A i \in p : v[i] \in Bit
  BY PartValues
<1>4. PICK u : u = signal'
  OBVIOUS
<1>5. /\ w \in Vec /\ \A i \in All : w[i] = IF i \in p THEN v[i] ELSE Value(signal)[i]
  BY <1>2, <1>3, ValueTyped, OverTyped DEF Sane
<1>6. Forced(signal, w, p, u)
  BY <1>1, <1>2, <1>3, <1>4, <1>5, ForceShows DEF Sane
<1>7. Sane(signal', held')
  BY <1>1, <1>2, <1>4, <1>6, StillHeldSubset DEF Sane, Forced, Shown, Layered
<1>8. want' \in [All -> Wants]
  BY <1>1, <1>2 DEF Wants
<1>9. \A port : LinkedTo(port)' = LinkedTo(port)
  BY <1>1 DEF LinkedTo
<1>10. ASSUME ~ Reforce PROVE LinkInv'
  <2>1. All' = All /\ LinkedTo("force") = {}
    BY <1>1, <1>10, SameKind
  <2>2. \A i \in All : want'[i] = IF i \in p THEN v[i] ELSE want[i]
    BY <1>1
  <2>3. \A i \in p : want'[i] \notin Linkable /\ want'[i] # "none"
    BY <1>3, <2>2, SignalAssumption
  <2>4. LinksAgree'
    BY <1>1, <1>2, <1>4, <1>6, <1>9, <1>10, <2>1, <2>2, <2>3 DEF LinkInv, LinksAgree, Forced
  <2>5. \A i \in All : want[i] \notin Linkable
    BY <1>2, <1>10, <2>1 DEF LinkInv, LinksAgree
  <2>6. u.mask = {i \in All : want'[i] # "none"}
    BY <1>2, <1>3, <1>6, <1>10, <2>2, <2>3 DEF LinkInv, LastForceHolds, Forced
  <2>7. \A i \in u.mask : want'[i] \notin Linkable /\ u.force[i] = want'[i]
    BY <1>2, <1>3, <1>5, <1>6, <1>10, <2>2, <2>3, <2>5 DEF LinkInv, LastForceHolds, Forced
  <2>8. \A b \in LinkedTo("cassign") : \A i \in All : u.sig[i] = val[b][i]
    BY <1>2, <1>6, <1>10 DEF LinkInv, LastForceHolds, Forced
  <2>9. LastForceHolds'
    BY <1>1, <1>4, <1>9, <2>1, <2>6, <2>7, <2>8 DEF LastForceHolds
  <2> QED BY <2>4, <2>9 DEF LinkInv
<1> QED BY <1>1, <1>2, <1>7, <1>8, <1>9, <1>10, InvStep

LEMMA ForceLinkInv ==
    ASSUME SignalInv, NEW b \in Linkable, ForceLink(b) PROVE SignalInv'
<1> DEFINE v == val[b]
<1>1. /\ signal' = ForceTo(signal, v, All) /\ held' = StillHeld(held, signal, signal')
      /\ linked' = LinkedWith(b, Unlinked("force"), "force")
      /\ want' = [i \in All |-> b]
      /\ UNCHANGED <<kind, val>>
  BY DEF ForceLink, Run
<1>2. /\ kind \in Kinds /\ Sane(signal, held)
      /\ val \in [Linkable -> Vectors] /\ Fanout(linked) /\ want \in [All -> Wants]
      /\ kind.reg \/ LinkedTo("cassign") = {}
      /\ ~ Reforce => LinkInv
  BY InvParts
<1>3. v \in Vec
  BY <1>2 DEF Vectors, Vec
<1>4. PICK u : u = signal'
  OBVIOUS
<1>5. Forced(signal, v, All, u)
  BY <1>1, <1>2, <1>3, <1>4, ForceShows DEF Sane
<1>6. Sane(signal', held')
  BY <1>1, <1>2, <1>4, <1>5, StillHeldSubset DEF Sane, Forced, Shown, Layered
<1>7. Fanout(linked') /\ LinkedTo("force")' = {b} /\ LinkedTo("cassign")' = LinkedTo("cassign")
  BY <1>1, <1>2, SourcesLinked DEF Ports
<1>8. want' \in [All -> Wants] /\ \A i \in All : want'[i] = b
  BY <1>1 DEF Wants
<1>9. ASSUME ~ Reforce PROVE LinkInv'
  <2>1. All' = All
    BY <1>1, SameKind
  <2>2. LinksAgree'
    BY <1>1, <1>2, <1>4, <1>5, <1>7, <1>8, <1>9, <2>1 DEF LinkInv, LinksAgree, Forced
  <2>3. u.mask = All /\ b # "none"
    BY <1>2, <1>5, SignalAssumption DEF Forced, Sane, State
  <2>4. \A c \in LinkedTo("cassign") : \A i \in All : u.sig[i] = val[c][i]
    BY <1>2, <1>5, <1>9 DEF LinkInv, LastForceHolds, Forced
  <2>5. LastForceHolds'
    BY <1>1, <1>4, <1>5, <1>7, <1>8, <2>1, <2>3, <2>4 DEF LastForceHolds, Forced
  <2> QED BY <2>2, <2>5 DEF LinkInv
<1> QED BY <1>1, <1>2, <1>6, <1>7, <1>8, <1>9, InvStep

LEMMA ReleaseForceInv ==
    ASSUME SignalInv, NEW p \in Pieces, ReleaseForce(p) PROVE SignalInv'
<1>1. /\ linked' = Unlinked("force") /\ signal' = Release(signal, p)
      /\ held' = StillHeld(held, signal, signal') \cup
                 (IF kind.reg THEN p \cap signal.mask \cap signal.assigned ELSE {})
      /\ want' = [i \in All |-> IF i \in p THEN "none"
                                ELSE IF want[i] \in Linkable THEN signal.force[i]
                                ELSE want[i]]
      /\ UNCHANGED <<kind, val>>
  BY DEF ReleaseForce
<1>2. /\ kind \in Kinds /\ Sane(signal, held)
      /\ val \in [Linkable -> Vectors] /\ Fanout(linked) /\ want \in [All -> Wants]
      /\ kind.reg \/ LinkedTo("cassign") = {}
      /\ ~ Reforce => LinkInv
  BY InvParts
<1>3. p \in SUBSET All /\ p # {}
  BY PiecesFacts
<1>4. PICK u : u = signal'
  OBVIOUS
<1>5. Released(signal, p, u) /\ Shown(u, held') /\ (kind.reg => Layered(u))
  <2>1. CASE kind.reg
    BY <1>1, <1>2, <1>3, <1>4, <2>1, ReleaseVariable DEF Sane
  <2>2. CASE ~ kind.reg
    <3>1. Released(signal, p, u) /\ Shown(u, {})
      BY <1>1, <1>2, <1>3, <1>4, <2>2, ReleaseWire DEF Sane
    <3> QED BY <2>2, <3>1 DEF Shown
  <2> QED BY <2>1, <2>2
<1>6. Sane(signal', held')
  <2>1. held' \subseteq All /\ (~ kind.reg => held' = {})
    BY <1>1, <1>2, <1>3, StillHeldSubset DEF Sane
  <2>2. u.forced \/ u.mask = {}
    BY <1>2, <1>5 DEF Sane, Released
  <2> QED BY <1>4, <1>5, <2>1, <2>2 DEF Sane, Released
<1>7. Fanout(linked') /\ LinkedTo("force")' = {} /\ LinkedTo("cassign")' = LinkedTo("cassign")
  BY <1>1, <1>2, SourcesUnlinked DEF Ports
<1>8. ASSUME NEW i \in All, want[i] \in Linkable, ~ Reforce
      PROVE  signal.force[i] \in BitValues /\ i \in signal.mask
  <2>1. i \in signal.mask /\ signal.force[i] = val[want[i]][i]
    BY <1>2, <1>8, SignalAssumption DEF LinkInv, LastForceHolds
  <2> QED BY <1>2, <1>8, <2>1 DEF Vectors
<1>9. \A i \in All : want'[i] = IF i \in p THEN "none"
                                ELSE IF want[i] \in Linkable THEN signal.force[i]
                                ELSE want[i]
  BY <1>1
<1>10. want' \in [All -> Wants]
  <2>1. \A i \in All : signal.force[i] \in Bit
    BY <1>2, BitOf DEF Sane, State
  <2> QED BY <1>1, <1>2, <2>1 DEF Wants, Bit
<1>11. ASSUME ~ Reforce PROVE LinkInv'
  <2>1. All' = All
    BY <1>1, SameKind
  <2>2. \A i \in All : /\ want'[i] \notin Linkable
                       /\ want'[i] = "none" <=> i \in p \/ want[i] = "none"
    BY <1>8, <1>9, <1>11, SignalAssumption
  <2>3. LinksAgree'
    BY <1>1, <1>2, <1>4, <1>5, <1>7, <1>11, <2>1, <2>2 DEF LinkInv, LinksAgree, Released
  <2>4. u.mask = {i \in All : want'[i] # "none"}
    BY <1>2, <1>5, <1>11, <2>2 DEF LinkInv, LastForceHolds, Released
  <2>5. \A i \in u.mask : u.force[i] = want'[i]
    <3>1. \A i \in u.mask : i \in signal.mask /\ i \in All /\ i \notin p
      BY <1>2, <1>5 DEF Released, Sane, State
    <3> QED BY <1>2, <1>5, <1>9, <1>11, <3>1 DEF LinkInv, LastForceHolds, Released
  <2>6. ASSUME NEW c \in LinkedTo("cassign"), NEW i \in All PROVE u.sig[i] = val[c][i]
    <3>1. i \in signal.assigned /\ signal.sig[i] = val[c][i]
      BY <1>2, <1>11, <2>6 DEF LinkInv, LinksAgree, LastForceHolds
    <3> QED BY <1>5, <3>1 DEF Released
  <2>7. LastForceHolds'
    BY <1>1, <1>2, <1>4, <1>7, <2>1, <2>2, <2>4, <2>5, <2>6 DEF LastForceHolds
  <2> QED BY <2>3, <2>7 DEF LinkInv
<1> QED BY <1>1, <1>2, <1>6, <1>7, <1>10, <1>11, InvStep

-----------------------------------------------------------------------------
(***************************************************************************)
(* A source changes: each of its links delivers the value.                 *)
(***************************************************************************)
Delivered(t, port, v, u) ==
    /\ u \in State /\ (u.forced \/ u.mask = {})
    /\ kind.reg => Layered(u)
    /\ \A h : Shown(t, h) => Shown(u, StillHeld(h, t, u))
    /\ IF port = "force"
       THEN /\ u.mask = All /\ \A i \in All : u.force[i] = v[i]
            /\ u.sig = t.sig /\ u.assigned = t.assigned
       ELSE /\ u.mask = t.mask /\ u.force = t.force
            /\ u.assigned = All /\ \A i \in All : u.sig[i] = v[i]

LEMMA OneDelivered ==
    ASSUME NEW b \in Linkable, Fanout(linked), NEW k \in 1..Len(linked[b]), NEW v \in Vectors,
           kind.reg \/ linked[b][k] = "force",
           NEW t \in State, t.forced \/ t.mask = {}, kind.reg => Layered(t)
    PROVE  Delivered(t, linked[b][k], v, Deliver(t, b, k, v))
<1>1. linked[b] \in Seq(Ports) /\ linked[b][k] \in Ports /\ ~ (k > Len(linked[b]))
  BY DEF Fanout
<1>2. v \in Vec /\ All \in SUBSET All /\ \A i \in All : v[i] \in Bit
  BY DEF Vec, Vectors, Bit
<1>3. PICK u : u = Deliver(t, b, k, v)
  OBVIOUS
<1>4. CASE linked[b][k] = "force"
  <2>1. Forced(t, v, All, u)
    BY <1>1, <1>2, <1>3, <1>4, ForceShows DEF Deliver
  <2>2. u.mask = All
    BY <2>1 DEF Forced, State
  <2> QED BY <1>3, <1>4, <2>1, <2>2 DEF Forced, Delivered, Layered, Shown
<1>5. CASE linked[b][k] # "force"
  <2>1. Assigned(t, v, All, u)
    BY <1>1, <1>2, <1>3, <1>5, AssignVariable DEF Deliver
  <2>2. t.sig \in Vec /\ t.assigned \subseteq All
    BY DEF State
  <2>3. u.assigned = All /\ \A i \in All : u.sig[i] = v[i]
    BY <1>2, <2>1, <2>2, OverTyped DEF Assigned
  <2> QED BY <1>3, <1>5, <2>1, <2>3 DEF Assigned, Delivered, SameForce
<1> QED BY <1>4, <1>5

(* What both deliveries make of t.                                         *)
Passed(t, ports, v, u) ==
    /\ u \in State /\ (u.forced \/ u.mask = {})
    /\ kind.reg => Layered(u)
    /\ \A h : Shown(t, h) => Shown(u, StillHeld(h, t, u))
    /\ IF "force" \in ports THEN u.mask = All /\ \A i \in All : u.force[i] = v[i]
       ELSE u.mask = t.mask /\ u.force = t.force
    /\ IF "cassign" \in ports THEN u.assigned = All /\ \A i \in All : u.sig[i] = v[i]
       ELSE u.assigned = t.assigned /\ u.sig = t.sig

LEMMA ShownTwice ==
    ASSUME NEW t, NEW u, NEW w, NEW h,
           Shown(t, h) => Shown(u, StillHeld(h, t, u)),
           \A g : Shown(u, g) => Shown(w, StillHeld(g, u, w)), Shown(t, h)
    PROVE  Shown(w, StillHeld(h, t, w))
<1>1. Shown(w, StillHeld(StillHeld(h, t, u), u, w))
  OBVIOUS
<1>2. StillHeld(StillHeld(h, t, u), u, w) \subseteq StillHeld(h, t, w)
  BY DEF StillHeld
<1> QED BY <1>1, <1>2 DEF Shown

LEMMA AtMostTwo ==
    ASSUME NEW q \in Seq(Ports), IsInjective(q)
    PROVE  /\ Len(q) \in {0, 1, 2}
           /\ Len(q) = 0 => ToSet(q) = {}
           /\ Len(q) >= 1 => q[1] \in Ports
           /\ Len(q) = 1 => ToSet(q) = {q[1]}
           /\ Len(q) = 2 => q[2] \in Ports /\ q[1] # q[2] /\ ToSet(q) = {q[1], q[2]}
<1>1. Len(q) \in Nat /\ DOMAIN q = 1..Len(q) /\ \A i \in 1..Len(q) : q[i] \in Ports
  OBVIOUS
<1>2. \A i, j \in 1..Len(q) : q[i] = q[j] => i = j
  BY <1>1 DEF IsInjective
<1>3. ASSUME Len(q) >= 3 PROVE FALSE
  <2>1. 1 \in 1..Len(q) /\ 2 \in 1..Len(q) /\ 3 \in 1..Len(q)
    BY <1>1, <1>3
  <2>2. q[1] # q[2] /\ q[1] # q[3] /\ q[2] # q[3]
    BY <1>2, <2>1
  <2>3. q[1] \in Ports /\ q[2] \in Ports /\ q[3] \in Ports
    BY <1>1, <2>1
  <2> QED BY <2>2, <2>3 DEF Ports
<1>4. Len(q) \in {0, 1, 2}
  BY <1>1, <1>3
<1>5. Len(q) = 0 => ToSet(q) = {}
  BY <1>1 DEF ToSet
<1>6. Len(q) = 1 => ToSet(q) = {q[1]}
  <2>1. Len(q) = 1 => DOMAIN q = {1}
    BY <1>1
  <2> QED BY <2>1 DEF ToSet
<1>7. Len(q) = 2 => q[1] # q[2] /\ ToSet(q) = {q[1], q[2]}
  <2>1. Len(q) = 2 => DOMAIN q = {1, 2}
    BY <1>1
  <2>2. Len(q) = 2 => 1 \in 1..Len(q) /\ 2 \in 1..Len(q)
    BY <1>1
  <2> QED BY <1>2, <2>1, <2>2 DEF ToSet
<1> QED BY <1>1, <1>4, <1>5, <1>6, <1>7

LEMMA AllDelivered ==
    ASSUME NEW b \in Linkable, Fanout(linked), NEW v \in Vectors,
           kind.reg \/ "cassign" \notin ToSet(linked[b]),
           NEW t \in State, t.forced \/ t.mask = {}, kind.reg => Layered(t)
    PROVE  Passed(t, ToSet(linked[b]), v, Deliver(Deliver(t, b, 1, v), b, 2, v))
<1> DEFINE q == linked[b]
<1>1. q \in Seq(Ports) /\ IsInjective(q)
  BY DEF Fanout
<1>2. /\ Len(q) \in {0, 1, 2}
      /\ Len(q) = 0 => ToSet(q) = {}
      /\ Len(q) >= 1 => q[1] \in Ports
      /\ Len(q) = 1 => ToSet(q) = {q[1]}
      /\ Len(q) = 2 => q[2] \in Ports /\ q[1] # q[2] /\ ToSet(q) = {q[1], q[2]}
  BY <1>1, AtMostTwo
<1>3. PICK u : u = Deliver(t, b, 1, v)
  OBVIOUS
<1>4. PICK w : w = Deliver(u, b, 2, v)
  OBVIOUS
<1>5. "force" # "cassign" /\ \A h : Shown(t, h) => Shown(t, StillHeld(h, t, t))
  BY DEF StillHeld
<1>6. CASE Len(q) = 0
  <2>1. u = t /\ w = t
    BY <1>3, <1>4, <1>6 DEF Deliver
  <2> QED BY <1>2, <1>3, <1>4, <1>5, <1>6, <2>1 DEF Passed
<1>7. CASE Len(q) = 1
  <2>1. w = u /\ 1 \in 1..Len(q)
    BY <1>4, <1>7 DEF Deliver
  <2>2. kind.reg \/ q[1] = "force"
    BY <1>2, <1>7 DEF Ports
  <2>3. Delivered(t, q[1], v, u)
    BY <1>3, <2>1, <2>2, OneDelivered
  <2>4. Passed(t, ToSet(q), v, u)
    BY <1>2, <1>5, <1>7, <2>3 DEF Delivered, Passed, Ports
  <2> QED BY <1>3, <1>4, <2>1, <2>4
<1>8. CASE Len(q) = 2
  <2>1. 1 \in 1..Len(q) /\ 2 \in 1..Len(q)
    BY <1>8
  <2>2. kind.reg /\ "force" \in ToSet(q) /\ "cassign" \in ToSet(q)
    BY <1>2, <1>8 DEF Ports
  <2>3. Delivered(t, q[1], v, u)
    BY <1>3, <2>1, <2>2, OneDelivered
  <2>4. Delivered(u, q[2], v, w)
    BY <1>4, <2>1, <2>2, <2>3, OneDelivered DEF Delivered
  <2>5. \A h : Shown(t, h) => Shown(w, StillHeld(h, t, w))
    BY <2>3, <2>4, ShownTwice DEF Delivered
  <2>6. CASE q[1] = "force" /\ q[2] = "cassign"
    <3>1. /\ u.mask = All /\ \A i \in All : u.force[i] = v[i]
          /\ w.mask = u.mask /\ w.force = u.force
          /\ w.assigned = All /\ \A i \in All : w.sig[i] = v[i]
      BY <1>5, <2>3, <2>4, <2>6 DEF Delivered
    <3>2. Passed(t, ToSet(q), v, w)
      BY <2>2, <2>4, <2>5, <3>1 DEF Passed, Delivered
    <3> QED BY <1>3, <1>4, <3>2
  <2>7. CASE q[1] = "cassign" /\ q[2] = "force"
    <3>1. /\ u.assigned = All /\ \A i \in All : u.sig[i] = v[i]
          /\ w.sig = u.sig /\ w.assigned = u.assigned
          /\ w.mask = All /\ \A i \in All : w.force[i] = v[i]
      BY <1>5, <2>3, <2>4, <2>7 DEF Delivered
    <3>2. Passed(t, ToSet(q), v, w)
      BY <2>2, <2>4, <2>5, <3>1 DEF Passed, Delivered
    <3> QED BY <1>3, <1>4, <3>2
  <2> QED BY <1>2, <1>8, <2>6, <2>7 DEF Ports
<1> QED BY <1>2, <1>6, <1>7, <1>8

LEMMA SourceChangesInv ==
    ASSUME SignalInv, NEW b \in Linkable, NEW v \in Vectors, SourceChanges(b, v)
    PROVE  SignalInv'
<1>1. /\ val' = [val EXCEPT ![b] = v]
      /\ signal' = Deliver(Deliver(signal, b, 1, v), b, 2, v)
      /\ held' = StillHeld(held, signal, signal')
      /\ UNCHANGED <<kind, linked, want>>
  BY DEF SourceChanges, Run
<1>2. /\ kind \in Kinds /\ Sane(signal, held)
      /\ val \in [Linkable -> Vectors] /\ Fanout(linked) /\ want \in [All -> Wants]
      /\ kind.reg \/ LinkedTo("cassign") = {}
      /\ ~ Reforce => LinkInv
  BY InvParts
<1>3. PICK u : u = signal'
  OBVIOUS
<1>4. PICK ports : ports = ToSet(linked[b])
  OBVIOUS
<1>5. "force" \in ports <=> b \in LinkedTo("force")
  BY <1>4 DEF LinkedTo
<1>6. "cassign" \in ports <=> b \in LinkedTo("cassign")
  BY <1>4 DEF LinkedTo
<1>7. Passed(signal, ports, v, u)
  BY <1>1, <1>2, <1>3, <1>4, <1>6, AllDelivered DEF Sane
<1>8. Sane(signal', held')
  BY <1>1, <1>2, <1>3, <1>7, StillHeldSubset DEF Sane, Passed
<1>9. val' \in [Linkable -> Vectors] /\ \A c \in Linkable : val'[c] = IF c = b THEN v ELSE val[c]
  BY <1>1, <1>2
<1>10. \A port : LinkedTo(port)' = LinkedTo(port)
  BY <1>1 DEF LinkedTo
<1>11. ASSUME ~ Reforce PROVE LinkInv'
  <2>1. All' = All
    BY <1>1, SameKind
  <2>2. LinkedTo("cassign") # {} => u.assigned = All
    BY <1>2, <1>7, <1>11 DEF Passed, LinkInv, LinksAgree
  <2>3. LinksAgree'
    BY <1>1, <1>2, <1>3, <1>10, <1>11, <2>1, <2>2 DEF LinkInv, LinksAgree
  <2>4. u.mask = {i \in All : want[i] # "none"}
    <3>1. CASE "force" \in ports
      <4>1. \A i \in All : want[i] = b
        BY <1>2, <1>5, <1>11, <3>1 DEF LinkInv, LinksAgree
      <4> QED BY <1>7, <3>1, <4>1, SignalAssumption DEF Passed
    <3>2. CASE "force" \notin ports
      BY <1>2, <1>7, <1>11, <3>2 DEF Passed, LinkInv, LastForceHolds
    <3> QED BY <3>1, <3>2
  <2>5. ASSUME NEW i \in u.mask
        PROVE  u.force[i] = IF want[i] \in Linkable THEN val'[want[i]][i] ELSE want[i]
    <3>1. i \in All
      BY <2>4
    <3>2. CASE "force" \in ports
      <4>1. want[i] = b
        BY <1>2, <1>5, <1>11, <3>1, <3>2 DEF LinkInv, LinksAgree
      <4> QED BY <1>7, <1>9, <3>1, <3>2, <4>1 DEF Passed
    <3>3. CASE "force" \notin ports
      <4>1. want[i] # b
        BY <1>2, <1>5, <1>11, <3>1, <3>3 DEF LinkInv, LinksAgree
      <4>2. u.mask = signal.mask /\ u.force = signal.force
        BY <1>7, <3>3 DEF Passed
      <4>3. signal.force[i] = IF want[i] \in Linkable THEN val[want[i]][i] ELSE want[i]
        BY <1>2, <1>11, <4>2 DEF LinkInv, LastForceHolds
      <4> QED BY <1>9, <4>1, <4>2, <4>3
    <3> QED BY <3>2, <3>3
  <2>6. ASSUME NEW c \in LinkedTo("cassign"), NEW i \in All PROVE u.sig[i] = val'[c][i]
    <3>1. c \in Linkable
      BY DEF LinkedTo
    <3>2. CASE c = b
      BY <1>6, <1>7, <1>9, <3>2 DEF Passed
    <3>3. CASE c # b
      <4>1. "cassign" \notin ports
        BY <1>2, <1>6, <1>11, <3>3 DEF LinkInv, LinksAgree
      <4>2. u.sig = signal.sig /\ val'[c] = val[c]
        BY <1>7, <1>9, <3>1, <3>3, <4>1 DEF Passed
      <4> QED BY <1>2, <1>11, <4>2 DEF LinkInv, LastForceHolds
    <3> QED BY <3>2, <3>3
  <2>7. LastForceHolds'
    BY <1>1, <1>3, <1>10, <2>1, <2>4, <2>5, <2>6 DEF LastForceHolds
  <2> QED BY <2>3, <2>7 DEF LinkInv
<1> QED BY <1>1, <1>2, <1>8, <1>9, <1>10, <1>11, InvStep

-----------------------------------------------------------------------------
LEMMA NextInv == SignalInv /\ [SignalNext]_signalVars => SignalInv'
<1> SUFFICES ASSUME SignalInv, [SignalNext]_signalVars PROVE SignalInv'
  OBVIOUS
<1>1. ASSUME NEW p \in Pieces, NEW v \in [p -> BitValues],
             Write(v, p) \/ Cassign(v, p) \/ ForceValue(v, p)
      PROVE  SignalInv'
  BY <1>1, WriteInv, CassignInv, ForceValueInv
<1>2. ASSUME NEW p \in Pieces, Deassign(p) \/ ReleaseForce(p) PROVE SignalInv'
  BY <1>2, DeassignInv, ReleaseForceInv
<1>3. ASSUME NEW b \in Linkable, CassignLink(b) \/ ForceLink(b) PROVE SignalInv'
  BY <1>3, CassignLinkInv, ForceLinkInv
<1>4. ASSUME NEW b \in Moving, NEW v \in Vectors, SourceChanges(b, v) PROVE SignalInv'
  BY <1>4, SourceChangesInv, SignalAssumption
<1>5. CASE UNCHANGED signalVars
  <2>1. UNCHANGED <<kind, signal, val, linked, want, held>>
    BY <1>5 DEF signalVars
  <2>2. /\ kind \in Kinds /\ Sane(signal, held)
        /\ val \in [Linkable -> Vectors] /\ Fanout(linked) /\ want \in [All -> Wants]
        /\ kind.reg \/ LinkedTo("cassign") = {}
        /\ ~ Reforce => LinkInv
    BY InvParts
  <2>3. LinkedTo("cassign")' = LinkedTo("cassign")
    BY <2>1 DEF LinkedTo
  <2>4. ~ Reforce => LinkInv'
    BY <2>1, <2>2, LinksKept DEF Sane, SameForce
  <2> QED BY <2>1, <2>2, <2>3, <2>4, InvStep
<1> QED BY <1>1, <1>2, <1>3, <1>4, <1>5 DEF SignalNext, Pieces

(* The invariant holds of every behaviour: the type of every variable, and *)
(* how the functor, the filter, the links and what readers see fit         *)
(* together (vvp_net_sig.cc, vvp_net.cc:323-400).                          *)
THEOREM SignalInvariance == SignalSpec => []SignalInv
BY InitInv, NextInv, PTL DEF SignalSpec

(* Whatever is assigned, forced and released, in whole or in part, what    *)
(* the fan-out received last and what the value change call-backs read     *)
(* last is the value of the signal, for every kind of signal and however   *)
(* forces follow each other (vvp_net_sig.cc:46-79, 120-127, 879-987).      *)
THEOREM ReadersSeeTheValue == SignalSpec => []SeenIsValue
<1>1. SignalInv => SeenIsValue
  BY DEF SignalInv, Shown, SeenIsValue, Right
<1> QED BY <1>1, SignalInvariance, PTL

(* When nothing forces to a value a signal that a link still forces, a     *)
(* forced bit has the value of the last force of it and follows the signal *)
(* of that force, and a linked variable follows its source                 *)
(* (vvp_net.cc:365-400, vthread.cc:1420-1440).                             *)
THEOREM LastForceDecides == ASSUME ~ Reforce PROVE SignalSpec => []LastForceHolds
<1>1. SignalInv => LastForceHolds
  BY DEF SignalInv
<1> QED BY <1>1, SignalInvariance, PTL
=============================================================================
