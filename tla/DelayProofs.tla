---------------------------- MODULE DelayProofs ----------------------------
(***************************************************************************)
(* Proofs about the delays of vvp/delay.cc: what is on its way to the       *)
(* output of a net delay, and the choice of a module path and the time its *)
(* output takes.                                                           *)
(***************************************************************************)
EXTENDS Delay, ModPath, Lemmas

-----------------------------------------------------------------------------
(***************************************************************************)
(* Numbers.                                                                *)
(***************************************************************************)
Duration == Delays \cup {0}

LEMMA MaxOf ==
    ASSUME NEW S \in SUBSET Nat, S # {}, NEW b \in Nat, \A x \in S : x <= b
    PROVE  Max(S) \in S /\ \A x \in S : Max(S) >= x
<1> DEFINE T == {b - x : x \in S}
<1>1. T \in SUBSET Nat /\ T # {}
  <2>1. \A x \in S : b - x \in Nat
    OBVIOUS
  <2> QED BY <2>1
<1>2. PICK n \in T : \A k \in T : n <= k
  BY <1>1, LeastElement
<1>3. PICK m \in S : n = b - m
  BY <1>2
<1>4. \A x \in S : m >= x
  <2> SUFFICES ASSUME NEW x \in S PROVE m >= x
    OBVIOUS
  <2>1. n <= b - x
    BY <1>2
  <2> QED BY <1>3, <2>1
<1> HIDE DEF T
<1>5. \E y \in S : \A x \in S : y >= x
  BY <1>3, <1>4
<1> QED BY <1>5 DEF Max

LEMMA DurationBounded ==
    /\ Max(Delays) \in Nat
    /\ \A d \in Duration : d \in Nat /\ d <= Max(Delays)
<1>1. PICK m \in Delays : \A d \in Delays : d <= m
  BY DelaysAssumption
<1>2. Delays \in SUBSET Nat /\ Delays # {} /\ m \in Nat
  BY DelaysAssumption
<1>3. Max(Delays) \in Delays /\ \A d \in Delays : Max(Delays) >= d
  BY <1>1, <1>2, MaxOf
<1>4. Max(Delays) \in Nat
  BY <1>2, <1>3
<1>5. ASSUME NEW d \in Duration PROVE d \in Nat /\ d <= Max(Delays)
  <2>1. CASE d \in Delays
    BY <1>2, <1>3, <1>4, <2>1
  <2>2. CASE d = 0
    BY <1>4, <2>2
  <2> QED BY <2>1, <2>2 DEF Duration
<1> QED BY <1>4, <1>5

LEMMA MinOfThree ==
    ASSUME NEW a \in Nat, NEW b \in Nat, NEW c \in Nat
    PROVE  LET m == Min({a, b, c}) IN
           m \in {a, b, c} /\ m <= a /\ m <= b /\ m <= c
<1>1. \E m \in {a, b, c} : \A y \in {a, b, c} : m <= y
  <2>1. CASE a <= b /\ a <= c
    BY <2>1
  <2>2. CASE b <= a /\ b <= c
    BY <2>2
  <2>3. CASE c <= a /\ c <= b
    BY <2>3
  <2> QED BY <2>1, <2>2, <2>3
<1> QED BY <1>1 DEF Min

LEMMA MinOfTwo ==
    ASSUME NEW a \in Nat, NEW b \in Nat
    PROVE  LET m == Min({a, b}) IN m \in {a, b} /\ m <= a /\ m <= b
<1>1. {a, b} = {a, b, b}
  OBVIOUS
<1>2. Min({a, b}) = Min({a, b, b})
  BY <1>1
<1> QED BY <1>2, MinOfThree

-----------------------------------------------------------------------------
(***************************************************************************)
(* Lists of at most two events, and the calls that stand for them.         *)
(***************************************************************************)
Events == [time : Times, val : Values]
Count(l, t) == Cardinality({i \in DOMAIN l : l[i].time = t})

LEMMA ShortList ==
    ASSUME NEW S, NEW l \in Seq(S), Len(l) <= 2
    PROVE  \/ l = <<>>
           \/ \E e \in S : l = <<e>>
           \/ \E d, e \in S : l = <<d, e>>
<1>1. Len(l) \in Nat /\ \A i \in 1..Len(l) : l[i] \in S
  OBVIOUS
<1>2. CASE Len(l) = 0
  BY <1>2
<1>3. CASE Len(l) = 1
  BY <1>1, <1>3
<1>4. CASE Len(l) = 2
  BY <1>1, <1>4
<1>5. Len(l) = 0 \/ Len(l) = 1 \/ Len(l) = 2
  <2> DEFINE n == Len(l)
  <2>1. n \in Nat /\ n <= 2
    BY <1>1
  <2> HIDE DEF n
  <2>2. n = 0 \/ n = 1 \/ n = 2
    BY <2>1
  <2> QED BY <2>2 DEF n
<1> QED BY <1>2, <1>3, <1>4, <1>5

LEMMA AppendedTo ==
    ASSUME NEW S, NEW d \in S, NEW e \in S
    PROVE  Append(<<d>>, e) = <<d, e>> /\ Tail(<<d, e>>) = <<e>> /\ Tail(<<d>>) = <<>>
<1>1. <<d>> \in Seq(S) /\ Len(<<d>>) = 1 /\ <<d>>[1] = d
  OBVIOUS
<1>2. /\ Append(<<d>>, e) \in Seq(S) /\ Len(Append(<<d>>, e)) = 2
      /\ Append(<<d>>, e)[1] = d /\ Append(<<d>>, e)[2] = e
  BY <1>1, AppendProperties
<1>3. Append(<<d>>, e) = <<d, e>>
  <2> DEFINE a == Append(<<d>>, e)
  <2>1. a \in Seq(S) /\ Len(a) = 2 /\ a[1] = d /\ a[2] = e
    BY <1>2
  <2> HIDE DEF a
  <2>2. a = <<d, e>>
    BY <2>1
  <2> QED BY <2>2 DEF a
<1> QED BY <1>3

LEMMA CountOfTwo ==
    ASSUME NEW t, NEW d, NEW e
    PROVE  Count(<<d, e>>, t) = (IF d.time = t THEN 1 ELSE 0) + (IF e.time = t THEN 1 ELSE 0)
<1> DEFINE C == {i \in DOMAIN <<d, e>> : <<d, e>>[i].time = t}
           A == IF d.time = t THEN {1} ELSE {}
<1>1. C = IF e.time = t THEN A \cup {2} ELSE A
  OBVIOUS
<1>2. IsFiniteSet(A) /\ Cardinality(A) = IF d.time = t THEN 1 ELSE 0
  BY FS_EmptySet, FS_Singleton
<1>3. 2 \notin A
  OBVIOUS
<1> HIDE DEF A
<1>4. Cardinality(A \cup {2}) = Cardinality(A) + 1
  BY <1>2, <1>3, FS_AddElement
<1>5. Cardinality(C) = (IF d.time = t THEN 1 ELSE 0) + (IF e.time = t THEN 1 ELSE 0)
  <2> HIDE DEF C
  <2>1. CASE e.time = t
    BY <1>1, <1>2, <1>4, <2>1
  <2>2. CASE e.time # t
    BY <1>1, <1>2, <2>2
  <2> QED BY <2>1, <2>2
<1> QED BY <1>5 DEF Count

LEMMA Counts ==
    ASSUME NEW t
    PROVE  /\ Count(<<>>, t) = 0
           /\ \A e : Count(<<e>>, t) = IF e.time = t THEN 1 ELSE 0
           /\ \A d, e : Count(<<d, e>>, t)
                  = (IF d.time = t THEN 1 ELSE 0) + (IF e.time = t THEN 1 ELSE 0)
<1>1. Count(<<>>, t) = 0
  <2>1. {i \in DOMAIN <<>> : <<>>[i].time = t} = {}
    OBVIOUS
  <2> QED BY <2>1, FS_EmptySet DEF Count
<1>2. ASSUME NEW e PROVE Count(<<e>>, t) = IF e.time = t THEN 1 ELSE 0
  <2>1. {i \in DOMAIN <<e>> : <<e>>[i].time = t} = IF e.time = t THEN {1} ELSE {}
    OBVIOUS
  <2> QED BY <2>1, FS_EmptySet, FS_Singleton DEF Count
<1> QED BY <1>1, <1>2, CountOfTwo

(***************************************************************************)
(* How long an arriving value has to wait.                                 *)
(***************************************************************************)
(* The delays of the node, and that the cached minimum is their minimum.   *)
DelaysRight ==
    /\ {rise, fall, decay, minDelay} \subseteq Duration
    /\ minDelay = Min({rise, fall, decay})

LEMMA DelayFacts ==
    ASSUME DelaysRight
    PROVE  /\ {rise, fall, decay, minDelay} \subseteq Duration
           /\ \A d \in {rise, fall, decay, minDelay} : d \in Nat /\ minDelay <= d
           /\ \A a, b \in Bit4 :
                 /\ GetDelay(a, b) \in Duration /\ GetDelay(a, b) \in Nat
                 /\ a = b => GetDelay(a, b) = 0
                 /\ a # b => minDelay <= GetDelay(a, b)
                 /\ a # b /\ b = "X" => GetDelay(a, b) = minDelay
                 /\ \A c \in Bit4 : a # b /\ c # b => GetDelay(a, b) = GetDelay(c, b)
<1>1. rise \in Nat /\ fall \in Nat /\ decay \in Nat
  BY DurationBounded DEF DelaysRight
<1>2. minDelay \in {rise, fall, decay} /\ minDelay <= rise /\ minDelay <= fall /\ minDelay <= decay
  BY <1>1, MinOfThree DEF DelaysRight
<1>3. {rise, fall, decay, minDelay} \subseteq Duration
  BY <1>2 DEF DelaysRight
<1>4. ASSUME NEW a \in Bit4, NEW b \in Bit4
      PROVE  /\ GetDelay(a, b) \in {0, rise, fall, decay, minDelay}
             /\ a = b => GetDelay(a, b) = 0
             /\ a # b => GetDelay(a, b) \in {rise, fall, decay, minDelay}
             /\ a # b /\ b = "X" => GetDelay(a, b) = minDelay
  <2>1. CASE a = b
    BY <2>1 DEF GetDelay
  <2>2. CASE a # b /\ b = "0"
    BY <2>2 DEF GetDelay
  <2>3. CASE a # b /\ b = "1"
    BY <2>3 DEF GetDelay
  <2>4. CASE a # b /\ b = "X"
    BY <2>4 DEF GetDelay
  <2>5. CASE a # b /\ b = "Z"
    BY <2>5 DEF GetDelay
  <2> QED BY <2>1, <2>2, <2>3, <2>4, <2>5 DEF Bit4
<1>5. 0 \in Duration
  BY DEF Duration
<1>7. ASSUME NEW a \in Bit4, NEW b \in Bit4, NEW c \in Bit4, a # b, c # b
      PROVE  GetDelay(a, b) = GetDelay(c, b)
  <2>1. b = "0" \/ b = "1" \/ b = "X" \/ b = "Z"
    BY DEF Bit4
  <2>2. CASE b = "0"
    BY <1>7, <2>2 DEF GetDelay
  <2>3. CASE b = "1"
    BY <1>7, <2>3 DEF GetDelay
  <2>4. CASE b = "X"
    BY <1>7, <2>4 DEF GetDelay
  <2>5. CASE b = "Z"
    BY <1>7, <2>5 DEF GetDelay
  <2> QED BY <2>1, <2>2, <2>3, <2>4, <2>5
<1>6. \A d \in {rise, fall, decay, minDelay} : d \in Nat /\ minDelay <= d
  BY <1>1, <1>2
<1> QED BY <1>3, <1>4, <1>5, <1>6, <1>7

LEMMA Differs ==
    ASSUME NEW D, NEW S, NEW f \in [D -> S], NEW g \in [D -> S], f # g
    PROVE  \E x \in D : f[x] # g[x]
OBVIOUS

(* A vector waits for the slowest of its bits, a real for the least delay. *)
LEMMA UseDelayFacts ==
    ASSUME DelaysRight, shape \in Nodes, NEW bit \in Values, Reference \in Values
    PROVE  /\ UseDelay(bit) \in Duration /\ UseDelay(bit) \in Nat
           /\ bit # Reference \/ Kind = "real" => minDelay <= UseDelay(bit)
           /\ bit = Reference /\ Kind # "real" => UseDelay(bit) = 0
           /\ Kind = "vec4" => \A i \in 1..Width :
                 GetDelay(Reference[i], bit[i]) <= UseDelay(bit)
<1>1. CASE Kind = "real"
  <2>1. UseDelay(bit) = minDelay
    BY <1>1 DEF UseDelay
  <2> QED BY <1>1, <2>1, DelayFacts
<1>2. CASE Kind = "vec4"
  <2> DEFINE r == Reference
             S == {GetDelay(r[i], bit[i]) : i \in 1..Width}
             m == Max(Delays)
  <2>1. Width \in Nat /\ Width >= 1
    BY NodesAssumption DEF Width
  <2>2. bit \in [1..Width -> Bit4] /\ r \in [1..Width -> Bit4]
    BY <1>2 DEF Values
  <2>3. UseDelay(bit) = Max(S)
    BY <1>2 DEF UseDelay
  <2> HIDE DEF r
  <2>4. \A i \in 1..Width :
            /\ GetDelay(r[i], bit[i]) \in Duration /\ GetDelay(r[i], bit[i]) \in Nat
            /\ r[i] = bit[i] => GetDelay(r[i], bit[i]) = 0
            /\ r[i] # bit[i] => minDelay <= GetDelay(r[i], bit[i])
    BY <2>2, DelayFacts
  <2>5. S \in SUBSET Nat /\ S # {} /\ S \subseteq Duration
    BY <2>1, <2>4
  <2>6. m \in Nat /\ \A x \in S : x <= m
    BY <2>5, DurationBounded
  <2> HIDE DEF m
  <2>7. Max(S) \in S /\ \A x \in S : Max(S) >= x
    <3> HIDE DEF S
    <3> QED BY <2>5, <2>6, MaxOf
  <2>8. UseDelay(bit) \in S /\ \A i \in 1..Width : GetDelay(r[i], bit[i]) <= UseDelay(bit)
    BY <2>3, <2>7
  <2>9. UseDelay(bit) \in Nat /\ UseDelay(bit) \in Duration
    BY <2>5, <2>8
  <2>10. ASSUME bit # r PROVE minDelay <= UseDelay(bit)
    <3>1. PICK i \in 1..Width : bit[i] # r[i]
      <4> DEFINE D == 1..Width
      <4>1. bit \in [D -> Bit4] /\ r \in [D -> Bit4]
        BY <2>2
      <4> HIDE DEF D, S
      <4>2. \E i \in D : bit[i] # r[i]
        BY <2>10, <4>1, Differs
      <4> QED BY <4>2 DEF D
    <3>2. minDelay \in Nat
      BY DelayFacts
    <3> QED BY <2>4, <2>8, <2>9, <3>1, <3>2
  <2>11. ASSUME bit = r PROVE UseDelay(bit) = 0
    BY <2>4, <2>8, <2>11
  <2> QED BY <1>2, <2>8, <2>9, <2>10, <2>11 DEF r
<1> QED BY <1>1, <1>2, NodesAssumption DEF Kind

-----------------------------------------------------------------------------
(***************************************************************************)
(* The list when a value arrives.                                          *)
(***************************************************************************)
(* At most one value arrives while an event is due, and no real.           *)
OneRace    == \A k \in {"vec4", "real"} : MaxRaces[k] <= 1
NoRealRace == MaxRaces["real"] = 0

LEMMA TypeFacts ==
    ASSUME TypeOK
    PROVE  /\ DelaysRight /\ shape \in Nodes /\ Kind \in {"vec4", "real"}
           /\ now \in Nat /\ now <= MaxTime /\ since \in Nat /\ since <= now
           /\ least \in Nat /\ races \in Nat /\ inputs \in Nat
           /\ cur \in Values /\ out \in Values /\ in \in Values
           /\ list \in Seq(Events)
           /\ MaxTime \in Nat /\ MaxInputs \in Nat
<1>1. DelaysRight
  BY DEF TypeOK, DelaysRight, Duration
<1>2. Kind \in {"vec4", "real"}
  BY NodesAssumption DEF TypeOK, Kind
<1>3. least \in Nat
  <2>1. least \in Duration
    BY DEF TypeOK, Duration
  <2> QED BY <2>1, DurationBounded
<1> QED BY <1>1, <1>2, <1>3, BoundsAssumption DEF TypeOK, Events

(* Is this the first send of run_run, in which all bits are compared with  *)
(* the first one of the value that is sent?                                *)
FirstSend == sending /\ initial

(* Nothing is on its way, or an event that is not due and is taken away.   *)
Free ==
    /\ ~ Due /\ Cleaned = <<>> /\ (FirstSend \/ Reference = cur)
    /\ list = <<>> \/ \E e \in Events : list = <<e>> /\ now < e.time

(* One event is due, and stays.                                            *)
Race ==
    \E e \in Events :
        /\ Due /\ list = <<e>> /\ e.time = now /\ Cleaned = list
        /\ FirstSend \/ Reference = (IF initial \/ Kind = "real" THEN cur ELSE e.val)
        /\ races = 0 /\ MaxRaces[Kind] = 1

LEMMA CleanedOne ==
    ASSUME NEW e, list = <<e>>, e.time \in Nat, now \in Nat
    PROVE  Cleaned = IF e.time <= now THEN list ELSE <<>>
<1> DEFINE due == {i \in DOMAIN list : list[i].time <= now}
<1>1. due = IF e.time <= now THEN {1} ELSE {}
  OBVIOUS
<1>2. CASE e.time <= now
  <2>1. due = {1} /\ due # {}
    BY <1>1, <1>2
  <2>2. Min(due) = 1
    <3>1. \E x \in due : \A y \in due : x <= y
      BY <2>1
    <3> QED BY <2>1, <3>1 DEF Min
  <2>3. SubSeq(list, 1, Len(list)) = list
    <3>1. list \in Seq({e})
      OBVIOUS
    <3> QED BY <3>1, SubSeqFull
  <2> HIDE DEF due
  <2>4. Cleaned = SubSeq(list, Min(due), Len(list))
    BY <2>1 DEF Cleaned, due
  <2> QED BY <1>2, <2>2, <2>3, <2>4
<1>3. CASE ~ (e.time <= now)
  BY <1>1, <1>3 DEF Cleaned
<1> QED BY <1>2, <1>3

LEMMA ReferenceIs ==
    ASSUME shape \in Nodes, cur \in Values, initial => cur = InitialValue \/ sending
    PROVE  /\ FirstSend \/ Reference = IF Due /\ ~ initial /\ Kind # "real"
                                     THEN Head(list).val ELSE cur
           /\ Reference \in Values \/ (Due /\ Reference = Head(list).val)
<1>1. CASE Kind = "real"
  BY <1>1 DEF Reference
<1>2. CASE Kind # "real" /\ initial
  <2>1. cur \in [1..Width -> Bit4] /\ 1 \in 1..Width
    BY <1>2, NodesAssumption DEF Values, Kind, Width
  <2>2. Reference = [i \in 1..Width |-> cur[1]]
    BY <1>2 DEF Reference
  <2>3. Reference \in Values
    BY <1>2, <2>1, <2>2 DEF Values
  <2>4. CASE cur = InitialValue
    <3>1. cur = [i \in 1..Width |-> "X"]
      BY <1>2, <2>4 DEF InitialValue
    <3>2. cur[1] = "X"
      BY <2>1, <3>1
    <3>3. Reference = cur
      BY <2>2, <3>1, <3>2
    <3> QED BY <1>2, <2>3, <3>3
  <2> QED BY <1>2, <2>3, <2>4 DEF FirstSend
<1>3. CASE Kind # "real" /\ ~ initial
  BY <1>3 DEF Reference
<1> QED BY <1>1, <1>2, <1>3

LEMMA Arrival ==
    ASSUME DelayInv, OneRace, Due => races < MaxRaces[Kind]
    PROVE  Free \/ Race
<1>1. /\ list \in Seq(Events) /\ now \in Nat /\ races \in Nat
      /\ Kind \in {"vec4", "real"} /\ MaxTime \in Nat
  BY TypeFacts DEF DelayInv
<1>2. MaxRaces[Kind] \in Nat /\ MaxRaces[Kind] <= 1
  BY <1>1, BoundsAssumption DEF OneRace
<1>3. Due => races = 0 /\ MaxRaces[Kind] = 1
  BY <1>1, <1>2
<1>4. list = <<>> \/ \E e \in Events : list = <<e>>
  <2>1. Len(list) <= 2 /\ Len(list) # 2
    BY <1>3 DEF DelayInv
  <2>2. \A d, e \in Events : Len(<<d, e>>) = 2
    OBVIOUS
  <2> QED BY <1>1, <2>1, <2>2, ShortList
<1>7. FirstSend \/ Reference = IF Due /\ ~ initial /\ Kind # "real"
                              THEN Head(list).val ELSE cur
  BY TypeFacts, ReferenceIs DEF DelayInv
<1>5. CASE list = <<>>
  <2>1. ~ Due
    BY <1>5 DEF Due
  <2>2. Cleaned = <<>>
    BY <1>5 DEF Cleaned
  <2> QED BY <1>5, <1>7, <2>1, <2>2 DEF Free
<1>6. CASE \E e \in Events : list = <<e>>
  <2>1. PICK e \in Events : list = <<e>>
    BY <1>6
  <2>2. e.time \in Nat /\ now <= e.time
    <3>1. list[1] = e /\ 1 \in DOMAIN list
      BY <2>1
    <3>2. e.time >= now
      BY <3>1 DEF DelayInv, TypeOK
    <3>3. e.time \in Nat
      BY <1>1, DurationBounded DEF Events, Times
    <3> QED BY <1>1, <3>2, <3>3
  <2>3. Due <=> e.time = now
    BY <2>1 DEF Due
  <2>4. Cleaned = IF e.time <= now THEN list ELSE <<>>
    BY <1>1, <2>1, <2>2, CleanedOne
  <2>5. CASE e.time = now
    <3>1. Head(list) = e
      BY <2>1
    <3>2. FirstSend \/ Reference = (IF initial \/ Kind = "real" THEN cur ELSE e.val)
      BY <1>7, <2>3, <2>5, <3>1
    <3>3. Due /\ Cleaned = list /\ races = 0 /\ MaxRaces[Kind] = 1
      BY <1>1, <1>3, <2>3, <2>4, <2>5
    <3>4. Race
      BY <2>1, <2>5, <3>2, <3>3 DEF Race
    <3> QED BY <3>4
  <2>6. CASE e.time # now
    <3>1. ~ Due /\ Cleaned = <<>> /\ now < e.time
      BY <1>1, <2>2, <2>3, <2>4, <2>6
    <3> QED BY <1>7, <2>1, <3>1 DEF Free
  <2> QED BY <2>5, <2>6
<1> QED BY <1>4, <1>5, <1>6

-----------------------------------------------------------------------------
(***************************************************************************)
(* The first invariant in parts: the delays, the counters, the values that *)
(* are shown, and what is on its way.                                      *)
(***************************************************************************)
Numbers ==
    /\ DelaysRight /\ least \in Duration /\ ignoreDecay \in BOOLEAN
    /\ ignoreDecay => decay = Min({rise, fall})
Counters ==
    /\ shape \in Nodes /\ now \in 0..MaxTime /\ since \in 0..now
    /\ inputs \in 0..MaxInputs /\ races \in 0..inputs /\ fed \in BOOLEAN
Shown ==
    /\ {cur, out, in} \subseteq Values /\ initial \in BOOLEAN /\ sending \in BOOLEAN
    /\ out = cur /\ (initial => cur = InitialValue \/ sending)

(* A list of at most two events of S at time n; r values raced.            *)
Listed(l, n, r, S) ==
    \/ l = <<>>
    \/ \E e \in S : l = <<e>> /\ n <= e.time
    \/ \E d, e \in S : l = <<d, e>> /\ d.time = n /\ n <= e.time /\ r # 0
Covers(l, c) == \A t \in Times : c[t] >= Count(l, t)
Pending == Listed(list, now, races, Events) /\ calls \in [Times -> Nat] /\ Covers(list, calls)

Parts == Numbers /\ Counters /\ Shown /\ Pending

LEMMA ListedIs ==
    ASSUME NEW S, \A e \in S : e.time \in Nat, NEW n \in Nat, NEW r, NEW l
    PROVE  Listed(l, n, r, S) <=>
              /\ l \in Seq(S) /\ Len(l) <= 2 /\ \A i \in DOMAIN l : l[i].time >= n
              /\ Len(l) = 2 => l # <<>> /\ Head(l).time = n /\ r # 0
<1>1. CASE l = <<>>
  BY <1>1 DEF Listed
<1>2. ASSUME NEW e \in S, l = <<e>>
      PROVE  /\ l \in Seq(S) /\ Len(l) = 1 /\ DOMAIN l = 1..1 /\ l[1] = e
             /\ Listed(l, n, r, S) <=> n <= e.time
  <2>1. l \in Seq(S) /\ Len(l) = 1 /\ DOMAIN l = 1..1 /\ l[1] = e /\ l # <<>>
    BY <1>2
  <2>2. \A d, f \in S : Len(<<d, f>>) = 2
    OBVIOUS
  <2>3. \A f \in S : l = <<f>> => f = e
    BY <1>2
  <2>4. \A d, f \in S : l # <<d, f>>
    BY <2>1, <2>2
  <2> QED BY <1>2, <2>1, <2>3, <2>4 DEF Listed
<1>3. ASSUME NEW d \in S, NEW e \in S, l = <<d, e>>
      PROVE  /\ l \in Seq(S) /\ Len(l) = 2 /\ DOMAIN l = 1..2
             /\ l[1] = d /\ l[2] = e /\ l # <<>> /\ Head(l) = d
             /\ Listed(l, n, r, S) <=> d.time = n /\ n <= e.time /\ r # 0
  <2>1. /\ l \in Seq(S) /\ Len(l) = 2 /\ DOMAIN l = 1..2 /\ l[1] = d /\ l[2] = e
        /\ l # <<>> /\ Head(l) = d
    BY <1>3
  <2>2. \A f \in S : Len(<<f>>) = 1
    OBVIOUS
  <2>3. \A f \in S : l # <<f>>
    BY <2>1, <2>2
  <2>4. \A f, g \in S : l = <<f, g>> => f = d /\ g = e
    BY <1>3
  <2> QED BY <1>3, <2>1, <2>3, <2>4 DEF Listed
<1>4. CASE \E e \in S : l = <<e>>
  <2>1. PICK e \in S : l = <<e>>
    BY <1>4
  <2>2. (\A i \in DOMAIN l : l[i].time >= n) <=> n <= e.time
    BY <1>2, <2>1
  <2> QED BY <1>2, <2>1, <2>2
<1>5. CASE \E d, e \in S : l = <<d, e>>
  <2>1. PICK d \in S, e \in S : l = <<d, e>>
    BY <1>5
  <2>2. (\A i \in DOMAIN l : l[i].time >= n) <=> n <= d.time /\ n <= e.time
    BY <1>3, <2>1
  <2>3. d.time \in Nat
    OBVIOUS
  <2> QED BY <1>3, <2>1, <2>2, <2>3
<1>6. ASSUME l # <<>>, \A e \in S : l # <<e>>, \A d, e \in S : l # <<d, e>>
      PROVE  ~ Listed(l, n, r, S) /\ ~ (l \in Seq(S) /\ Len(l) <= 2)
  <2>1. ~ Listed(l, n, r, S)
    BY <1>6 DEF Listed
  <2> QED BY <1>6, <2>1, ShortList
<1> QED BY <1>1, <1>4, <1>5, <1>6

LEMMA InvParts == ASSUME DelayInv PROVE Parts
<1>1. TypeOK /\ races <= inputs /\ MaxTime \in Nat
  BY BoundsAssumption DEF DelayInv
<1>2. list \in Seq(Events) /\ now \in Nat /\ races \in Nat /\ inputs \in Nat
  BY <1>1, TypeFacts
<1>3. \A e \in Events : e.time \in Nat
  BY <1>1, DurationBounded DEF Events, Times
<1>4. Numbers
  BY <1>1 DEF TypeOK, Numbers, DelaysRight, Duration
<1>5. Counters
  BY <1>1, <1>2 DEF TypeOK, Counters
<1>6. Shown
  BY <1>1 DEF DelayInv, TypeOK, Shown
<1>7. Listed(list, now, races, Events)
  <2>1. Len(list) = 2 => list # <<>> /\ Head(list).time = now /\ races # 0
    BY DEF DelayInv, Due
  <2>2. \A i \in DOMAIN list : list[i].time >= now
    BY <1>1 DEF TypeOK
  <2> QED BY <1>2, <1>3, <2>1, <2>2, ListedIs DEF DelayInv
<1>8. Pending
  BY <1>1, <1>7 DEF Pending, Covers, Count, DelayInv, TypeOK
<1> QED BY <1>4, <1>5, <1>6, <1>8 DEF Parts

LEMMA PartsInv == ASSUME Parts' PROVE DelayInv'
<1>1. now' \in Nat /\ \A e \in Events' : e.time \in Nat
  BY DurationBounded, BoundsAssumption DEF Parts, Counters, Events, Times
<1>2. /\ list' \in Seq(Events') /\ Len(list') <= 2
      /\ \A i \in DOMAIN list' : list'[i].time >= now'
      /\ Len(list') = 2 => list' # <<>> /\ Head(list').time = now' /\ races' # 0
  BY <1>1, ListedIs DEF Parts, Pending
<1>3. inputs' \in 0..MaxInputs /\ races' \in 0..MaxInputs /\ races' <= inputs'
  BY BoundsAssumption DEF Parts, Counters
<1>4. TypeOK'
  BY <1>2, <1>3 DEF Parts, Numbers, DelaysRight, Duration, Counters, Shown, Pending, Events, TypeOK
<1>5. \A t \in Times : calls'[t] >= Cardinality({i \in DOMAIN list' : list'[i].time = t})
  BY DEF Parts, Pending, Covers, Count
<1> QED BY <1>2, <1>3, <1>4, <1>5 DEF DelayInv, Due, Parts, Shown

-----------------------------------------------------------------------------
(***************************************************************************)
(* Every step keeps it.                                                    *)
(***************************************************************************)
(* A value arrives: what the step does to the counters.                    *)
LEMMA Received ==
    ASSUME Parts, NEW bit \in Values, Receive(bit)
    PROVE  /\ Numbers' /\ Counters' /\ in' = bit /\ shape' = shape /\ now' = now
           /\ Values' = Values /\ InitialValue' = InitialValue /\ Events' = Events
           /\ races # 0 => races' # 0
           /\ races' = IF Due THEN races + 1 ELSE races
           /\ fed' = (FirstSend \/ (bit = in /\ fed))
<1>1. /\ shape' = shape /\ now' = now /\ in' = bit /\ inputs' = inputs + 1 /\ inputs < MaxInputs
      /\ races' = (IF Due THEN races + 1 ELSE races)
      /\ since' = (IF bit = in THEN since ELSE now)
      /\ least' = (IF bit = in THEN least ELSE minDelay)
      /\ fed' = (FirstSend \/ (bit = in /\ fed)) /\ fed' \in BOOLEAN
      /\ <<rise, fall, decay, minDelay, ignoreDecay>>' = <<rise, fall, decay, minDelay, ignoreDecay>>
  BY DEF Receive, delay, FirstSend
<1>2. Numbers'
  BY <1>1 DEF Parts, Numbers, DelaysRight
<1>3. /\ shape \in Nodes /\ now \in Nat /\ now <= MaxTime /\ MaxTime \in Nat /\ since \in Nat
      /\ since <= now /\ MaxInputs \in Nat /\ inputs \in Nat /\ races \in Nat /\ races <= inputs
  BY BoundsAssumption DEF Parts, Counters
<1>4. Counters'
  <2>1. since' \in 0..now' /\ inputs' \in 0..MaxInputs
    BY <1>1, <1>3
  <2>2. races' \in 0..inputs'
    BY <1>1, <1>3
  <2> QED BY <1>1, <1>3, <2>1, <2>2 DEF Counters
<1>5. Values' = Values /\ InitialValue' = InitialValue
  BY <1>1 DEF Values, InitialValue, Kind, Width
<1> QED BY <1>1, <1>2, <1>3, <1>4, <1>5 DEF Events

LEMMA ReferenceTyped ==
    ASSUME Parts, Free \/ Race PROVE Reference \in Values
<1>1. Reference \in Values \/ (Due /\ Reference = Head(list).val)
  BY ReferenceIs DEF Parts, Shown, Counters
<1>2. CASE Free
  BY <1>1, <1>2 DEF Free
<1>3. CASE Race
  <2>1. PICK e \in Events : list = <<e>>
    BY <1>3 DEF Race
  <2>2. Head(list) = e /\ e.val \in Values
    BY <2>1 DEF Events
  <2> QED BY <1>1, <2>2
<1> QED BY <1>2, <1>3

LEMMA SkipRepeatedKeeps ==
    ASSUME Parts, NEW bit \in Values, SkipRepeated(bit) PROVE Parts'
<1>1. /\ Receive(bit) /\ list' = list /\ calls' = calls
      /\ cur' = cur /\ out' = out /\ initial' = initial /\ sending' = sending
  BY DEF SkipRepeated, node
<1>2. Pending'
  BY <1>1, Received DEF Parts, Pending, Listed, Covers
<1>3. Shown'
  BY <1>1, Received DEF Parts, Shown
<1> QED BY <1>1, <1>2, <1>3, Received DEF Parts

LEMMA SkipShownKeeps ==
    ASSUME Parts, NEW bit \in Values, SkipShown(bit), Free \/ Race PROVE Parts'
<1>1. /\ Receive(bit) /\ list' = Cleaned /\ calls' = calls
      /\ cur' = cur /\ out' = out /\ initial' = initial /\ sending' = sending
  BY DEF SkipShown
<1>2. list' = <<>> \/ list' = list
  BY <1>1 DEF Free, Race
<1>3. Listed(list', now', races', Events')
  BY <1>1, <1>2, Received DEF Parts, Pending, Listed
<1>4. Covers(list', calls')
  <2>1. ASSUME NEW t \in Times, list' = <<>> PROVE calls'[t] >= Count(list', t)
    <3>1. calls[t] \in Nat
      BY DEF Parts, Pending
    <3>2. Count(<<>>, t) = 0
      BY Counts
    <3> QED BY <1>1, <2>1, <3>1, <3>2
  <2> QED BY <1>1, <1>2, <2>1 DEF Parts, Pending, Covers
<1>5. Shown'
  BY <1>1, Received DEF Parts, Shown
<1> QED BY <1>1, <1>3, <1>4, <1>5, Received DEF Parts, Pending

LEMMA SendNowKeeps ==
    ASSUME Parts, NEW bit \in Values, SendNow(bit) PROVE Parts'
<1>1. /\ Receive(bit) /\ list' = <<>> /\ calls' = calls
      /\ cur' = bit /\ out' = bit /\ initial' = FALSE /\ sending' = sending
  BY DEF SendNow
<1>2. Covers(list', calls')
  <2> SUFFICES ASSUME NEW t \in Times PROVE calls'[t] >= Count(list', t)
    BY DEF Covers
  <2>1. calls[t] \in Nat
    BY DEF Parts, Pending
  <2>2. Count(<<>>, t) = 0
    BY Counts
  <2> QED BY <1>1, <2>1, <2>2
<1>3. Pending'
  BY <1>1, <1>2 DEF Parts, Pending, Listed
<1>4. Shown'
  <2>1. in' = bit /\ Values' = Values
    BY <1>1, Received
  <2>2. {cur', out', in'} \subseteq Values'
    BY <1>1, <2>1
  <2> QED BY <1>1, <2>2 DEF Parts, Shown
<1> QED BY <1>1, <1>3, <1>4, Received DEF Parts

(* One more event at the end, and one more call for it.                    *)
LEMMA EnqueueKeeps ==
    ASSUME Parts, NEW bit \in Values, Enqueue(bit), Free \/ Race PROVE Parts'
<1> DEFINE time == now + UseDelay(bit)
           n    == [time |-> time, val |-> bit]
<1>1. /\ Receive(bit) /\ list' = Append(Cleaned, n) /\ calls' = [calls EXCEPT ![time] = @ + 1]
      /\ cur' = cur /\ out' = out /\ initial' = initial /\ sending' = sending
  BY DEF Enqueue
<1>2. UseDelay(bit) \in Duration /\ UseDelay(bit) \in Nat
  BY UseDelayFacts, ReferenceTyped DEF Parts, Numbers, Counters
<1>3. UseDelay(bit) <= Max(Delays) /\ Max(Delays) \in Nat
  BY <1>2, DurationBounded
<1>4. now \in Nat /\ now <= MaxTime /\ MaxTime \in Nat
  BY BoundsAssumption DEF Parts, Counters
<1>5. time \in Times /\ now <= time
  BY <1>2, <1>3, <1>4 DEF Times
<1> HIDE DEF time
<1>6. n \in Events /\ n.time = time
  BY <1>5 DEF Events
<1> HIDE DEF n
<1>7. calls \in [Times -> Nat]
  BY DEF Parts, Pending
<1>8. calls' \in [Times -> Nat] /\ \A t \in Times :
          calls'[t] = IF t = time THEN calls[t] + 1 ELSE calls[t]
  BY <1>1, <1>5, <1>7
<1>9. ASSUME Free PROVE Pending'
  <2>1. list' = <<n>>
    BY <1>1, <1>9 DEF Free
  <2>2. Listed(list', now', races', Events')
    BY <1>1, <1>5, <1>6, <2>1, Received DEF Listed
  <2>3. ASSUME NEW t \in Times PROVE calls'[t] >= Count(list', t)
    <3>1. Count(<<n>>, t) = IF t = time THEN 1 ELSE 0
      BY <1>6, Counts
    <3>2. calls[t] \in Nat
      BY <1>7
    <3> QED BY <1>8, <2>1, <3>1, <3>2
  <2> QED BY <1>8, <2>2, <2>3 DEF Pending, Covers
<1>10. ASSUME Race PROVE Pending'
  <2>1. PICK e \in Events : /\ Due /\ list = <<e>> /\ e.time = now /\ Cleaned = list
                            /\ races = 0
    BY <1>10 DEF Race
  <2>2. list' = <<e, n>>
    <3>1. Append(<<e>>, n) = <<e, n>>
      BY <1>6, AppendedTo
    <3> QED BY <1>1, <2>1, <3>1
  <2>3. races' # 0
    BY <1>1, <2>1, Received
  <2>4. Listed(list', now', races', Events')
    BY <1>1, <1>5, <1>6, <2>1, <2>2, <2>3, Received DEF Listed
  <2>5. ASSUME NEW t \in Times PROVE calls'[t] >= Count(list', t)
    <3>1. Count(<<e, n>>, t) = (IF e.time = t THEN 1 ELSE 0) + (IF t = time THEN 1 ELSE 0)
      BY <1>6, Counts
    <3>2. Count(<<e>>, t) = IF e.time = t THEN 1 ELSE 0
      BY Counts
    <3>3. calls[t] \in Nat /\ calls[t] >= Count(list, t)
      BY <1>7 DEF Parts, Pending, Covers
    <3> QED BY <1>8, <2>1, <2>2, <3>1, <3>2, <3>3
  <2> QED BY <1>8, <2>4, <2>5 DEF Pending, Covers
<1>11. Shown'
  BY <1>1, Received DEF Parts, Shown
<1> QED BY <1>1, <1>9, <1>10, <1>11, Received DEF Parts

(* A delay changes: the cached minimum, and a decay that follows, stay so. *)
LEMMA LeastIsMin ==
    ASSUME NEW a \in Nat, NEW b \in Nat, NEW c \in Nat, NEW m \in {a, b, c},
           m <= a, m <= b, m <= c
    PROVE  m = Min({a, b, c})
<1> DEFINE k == Min({a, b, c})
<1>1. k \in {a, b, c} /\ k <= a /\ k <= b /\ k <= c
  BY MinOfThree
<1> HIDE DEF k
<1>2. m = k
  BY <1>1
<1> QED BY <1>2 DEF k

LEMMA LoweredRight ==
    ASSUME Numbers, NEW val \in Duration, ignoreDecay' = ignoreDecay, Lowered(val),
           \/ rise' = val /\ fall' = fall
           \/ rise' = rise /\ fall' = val
    PROVE  /\ DelaysRight'
           /\ ignoreDecay' => decay' = Min({rise', fall'})
<1>1. /\ {rise, fall, decay, minDelay} \subseteq Duration
      /\ rise \in Nat /\ fall \in Nat /\ decay \in Nat /\ minDelay \in Nat
      /\ minDelay <= rise /\ minDelay <= fall /\ minDelay <= decay
  BY DelayFacts DEF Numbers
<1>2. val \in Nat
  BY DurationBounded
<1>3. /\ rise' \in Nat /\ fall' \in Nat /\ {rise', fall'} \subseteq Duration
      /\ val \in {rise', fall'}
      /\ rise' = val \/ minDelay <= rise'
      /\ fall' = val \/ minDelay <= fall'
  BY <1>1, <1>2
<1> DEFINE low == Min({rise', fall'})
<1>4. low \in {rise', fall'} /\ low <= rise' /\ low <= fall'
  BY <1>3, MinOfTwo
<1>5. CASE val < minDelay
  <2>1. minDelay' = val /\ decay' = IF ignoreDecay THEN val ELSE decay
    BY <1>5 DEF Lowered
  <2>2. val <= rise' /\ val <= fall' /\ val <= decay' /\ decay' \in Nat
    BY <1>1, <1>2, <1>3, <1>5, <2>1
  <2>3. val = Min({rise', fall', decay'})
    BY <1>2, <1>3, <2>2, LeastIsMin
  <2>4. low = val
    BY <1>2, <1>3, <1>4, <2>2
  <2>5. decay' \in Duration
    BY <1>1, <2>1
  <2> QED BY <1>3, <2>1, <2>3, <2>4, <2>5 DEF DelaysRight
<1>6. CASE ~ (val < minDelay)
  <2>1. /\ decay' = IF ignoreDecay THEN low ELSE decay
        /\ minDelay' = Min({rise', fall', decay'})
    BY <1>6 DEF Lowered, Recalculated
  <2> HIDE DEF low
  <2>2. decay' \in Duration /\ decay' \in Nat
    BY <1>1, <1>3, <1>4, <2>1
  <2>3. minDelay' \in {rise', fall', decay'}
    BY <1>3, <2>1, <2>2, MinOfThree
  <2> QED BY <1>3, <2>1, <2>2, <2>3 DEF DelaysRight, low
<1> QED BY <1>5, <1>6

LEMMA SetDelayKeeps ==
    ASSUME Parts, NEW val \in Delays, SetDelay(val) PROVE Parts' /\ VaryDelays /\ least' <= least
<1>1. /\ VaryDelays /\ least' = Min({least, minDelay'})
      /\ shape' = shape /\ ignoreDecay' = ignoreDecay /\ now' = now /\ calls' = calls
      /\ in' = in /\ since' = since /\ inputs' = inputs /\ races' = races
      /\ cur' = cur /\ initial' = initial /\ list' = list /\ out' = out
      /\ sending' = sending /\ fed' = fed
  BY DEF SetDelay, node
<1>2. Numbers /\ val \in Duration /\ val \in Nat
  BY DurationBounded DEF Parts, Duration
<1>3. DelaysRight' /\ (ignoreDecay' => decay' = Min({rise', fall'}))
  <2>1. ASSUME (rise' = val /\ fall' = fall) \/ (rise' = rise /\ fall' = val), Lowered(val)
        PROVE  DelaysRight' /\ (ignoreDecay' => decay' = Min({rise', fall'}))
    BY <1>1, <1>2, <2>1, LoweredRight
  <2>2. ASSUME ~ ignoreDecay, decay' = val, rise' = rise, fall' = fall,
               minDelay' = IF val < minDelay THEN val ELSE Min({rise, fall, val})
        PROVE  DelaysRight' /\ (ignoreDecay' => decay' = Min({rise', fall'}))
    <3>1. /\ rise \in Duration /\ fall \in Duration
          /\ rise \in Nat /\ fall \in Nat /\ minDelay \in Nat
          /\ minDelay <= rise /\ minDelay <= fall
      BY <1>2, DelayFacts DEF Numbers, DelaysRight
    <3>2. minDelay' = Min({rise, fall, val})
      <4>1. CASE val < minDelay
        <5>1. val <= rise /\ val <= fall
          BY <1>2, <3>1, <4>1
        <5> QED BY <1>2, <2>2, <3>1, <4>1, <5>1, LeastIsMin
      <4> QED BY <2>2, <4>1
    <3>3. minDelay' \in {rise, fall, val}
      BY <1>2, <3>1, <3>2, MinOfThree
    <3> QED BY <1>1, <1>2, <2>2, <3>1, <3>2, <3>3 DEF DelaysRight
  <2> QED BY <2>1, <2>2 DEF SetDelay
<1>4. least' \in Duration /\ least' <= least
  <2>1. least \in Nat /\ least \in Duration /\ minDelay' \in Nat /\ minDelay' \in Duration
    BY <1>2, <1>3, DurationBounded DEF Numbers, DelaysRight
  <2>2. Min({least, minDelay'}) \in {least, minDelay'} /\ Min({least, minDelay'}) <= least
    BY <2>1, MinOfTwo
  <2> QED BY <1>1, <2>1, <2>2
<1>5. Numbers'
  BY <1>1, <1>2, <1>3, <1>4 DEF Numbers
<1>6. Values' = Values /\ InitialValue' = InitialValue
  BY <1>1 DEF Values, InitialValue, Kind, Width
<1>7. Counters' /\ Shown'
  BY <1>1, <1>6 DEF Parts, Counters, Shown
<1>8. Pending'
  BY <1>1, <1>6 DEF Parts, Pending, Covers, Listed, Events
<1> QED BY <1>1, <1>4, <1>5, <1>7, <1>8 DEF Parts

(* What the parts say of the list and of the calls at the present time.    *)
LEMMA AtPresent ==
    ASSUME Parts
    PROVE  /\ now \in Nat /\ now <= MaxTime /\ MaxTime \in Nat /\ now \in Times
           /\ \A e \in Events : e.time \in Nat /\ e.time \in Times
           /\ calls \in [Times -> Nat]
           /\ \A t \in Times : calls[t] \in Nat /\ calls[t] >= Count(list, t)
           /\ races \in Nat
<1>1. now \in Nat /\ now <= MaxTime /\ MaxTime \in Nat
  BY BoundsAssumption DEF Parts, Counters
<1>2. now \in Times /\ \A t \in Times : t \in Nat
  BY <1>1, DurationBounded DEF Times
<1>3. \A e \in Events : e.time \in Times
  BY DEF Events
<1>4. calls \in [Times -> Nat] /\ \A t \in Times : calls[t] >= Count(list, t)
  BY DEF Parts, Pending, Covers
<1>5. races \in Nat
  BY BoundsAssumption DEF Parts, Counters
<1> QED BY <1>1, <1>2, <1>3, <1>4, <1>5

LEMMA Unmoved ==
    ASSUME Parts, shape' = shape, delay' = delay, now' = now, aux' = aux
    PROVE  /\ Numbers' /\ Counters' /\ in' = in /\ races' = races /\ fed' = fed
           /\ Values' = Values /\ InitialValue' = InitialValue /\ Events' = Events
<1>1. /\ rise' = rise /\ fall' = fall /\ decay' = decay /\ minDelay' = minDelay
      /\ ignoreDecay' = ignoreDecay /\ in' = in /\ since' = since /\ least' = least
      /\ inputs' = inputs /\ races' = races /\ fed' = fed
  BY DEF delay, aux
<1>2. Values' = Values /\ InitialValue' = InitialValue
  BY DEF Values, InitialValue, Kind, Width
<1> QED BY <1>1, <1>2 DEF Parts, Numbers, DelaysRight, Counters, Events

(* A call whose event was taken away: no other event is due.               *)
LEMMA RunNothingKeeps ==
    ASSUME Parts, RunNothing PROVE Parts'
<1>1. /\ calls[now] > 0 /\ calls' = [calls EXCEPT ![now] = @ - 1] /\ ~ ToRun
      /\ shape' = shape /\ delay' = delay /\ now' = now /\ aux' = aux
      /\ cur' = cur /\ initial' = initial /\ list' = list /\ out' = out /\ sending' = sending
  BY DEF RunNothing, Called, node
<1>2. Count(list, now) = 0
  <2>1. CASE list = <<>>
    BY <2>1, Counts
  <2>2. ASSUME NEW e \in Events, list = <<e>> PROVE Count(list, now) = 0
    <3>1. Head(list) = e /\ list # <<>>
      BY <2>2
    <3>2. e.time # now
      BY <1>1, <3>1, AtPresent DEF ToRun
    <3> QED BY <2>2, <3>2, Counts
  <2>3. ASSUME NEW d \in Events, NEW e \in Events, list = <<d, e>>, d.time = now PROVE FALSE
    <3>1. Head(list) = d /\ list # <<>>
      BY <2>3
    <3> QED BY <1>1, <2>3, <3>1, AtPresent DEF ToRun
  <2> QED BY <2>1, <2>2, <2>3 DEF Parts, Pending, Listed
<1>3. calls' \in [Times -> Nat] /\ Covers(list', calls')
  <2>1. /\ \A t \in Times : calls'[t] = IF t = now THEN calls[t] - 1 ELSE calls[t]
        /\ calls[now] - 1 \in Nat
    BY <1>1, AtPresent
  <2>2. calls' \in [Times -> Nat]
    BY <1>1, <2>1, AtPresent
  <2>3. ASSUME NEW t \in Times PROVE calls'[t] >= Count(list, t)
    BY <1>2, <2>1, AtPresent
  <2> QED BY <1>1, <2>2, <2>3 DEF Covers
<1>4. Shown'
  BY <1>1, Unmoved DEF Parts, Shown
<1>5. Pending'
  BY <1>1, <1>3, Unmoved DEF Parts, Pending, Listed
<1> QED BY <1>1, <1>4, <1>5, Unmoved DEF Parts

(* The oldest event, e, is run; the list may be left with one more.        *)
LEMMA RunDueFacts ==
    ASSUME Parts, RunDue
    PROVE  \E e \in Events :
              /\ e.time = now /\ cur' = e.val /\ out' = e.val /\ sending'
              /\ \/ list = <<e>> /\ list' = <<>>
                 \/ \E f \in Events : /\ list = <<e, f>> /\ list' = <<f>>
                                     /\ now <= f.time /\ races # 0
<1>1. /\ ToRun /\ cur' = Head(list).val /\ out' = Head(list).val /\ sending'
      /\ list' = Tail(list)
  BY DEF RunDue
<1>2. list # <<>> /\ Head(list).time <= now
  BY <1>1 DEF ToRun
<1>3. CASE \E e \in Events : list = <<e>> /\ now <= e.time
  <2>1. PICK e \in Events : list = <<e>> /\ now <= e.time
    BY <1>3
  <2>2. Head(list) = e
    BY <2>1
  <2>3. list' = <<>>
    BY <1>1, <2>1, AppendedTo
  <2>4. e.time = now
    BY <1>2, <2>1, <2>2, AtPresent
  <2> QED BY <1>1, <2>1, <2>2, <2>3, <2>4
<1>4. CASE \E d, e \in Events : list = <<d, e>> /\ d.time = now /\ now <= e.time /\ races # 0
  <2>1. PICK d \in Events, f \in Events : list = <<d, f>> /\ d.time = now /\ now <= f.time /\ races # 0
    BY <1>4
  <2>2. Head(list) = d
    BY <2>1
  <2>3. list' = <<f>>
    BY <1>1, <2>1, AppendedTo
  <2> QED BY <1>1, <2>1, <2>2, <2>3
<1> QED BY <1>2, <1>3, <1>4 DEF Parts, Pending, Listed

LEMMA RunDueKeeps ==
    ASSUME Parts, RunDue PROVE Parts'
<1>1. /\ calls[now] > 0 /\ calls' = [calls EXCEPT ![now] = @ - 1]
      /\ shape' = shape /\ delay' = delay /\ now' = now /\ aux' = aux
      /\ initial' = initial /\ sending' = TRUE
  BY DEF RunDue, Called
<1>2. PICK e \in Events :
          /\ e.time = now /\ cur' = e.val /\ out' = e.val
          /\ \/ list = <<e>> /\ list' = <<>>
             \/ \E f \in Events : /\ list = <<e, f>> /\ list' = <<f>>
                                 /\ now <= f.time /\ races # 0
  BY RunDueFacts
<1>3. Listed(list', now', races', Events')
  BY <1>1, <1>2, Unmoved DEF Listed
<1>4. \A t \in Times : Count(list', t) = Count(list, t) - (IF t = now THEN 1 ELSE 0)
  <2> SUFFICES ASSUME NEW t \in Times
               PROVE  Count(list', t) = Count(list, t) - (IF t = now THEN 1 ELSE 0)
    OBVIOUS
  <2>1. CASE list = <<e>> /\ list' = <<>>
    BY <1>2, <2>1, Counts
  <2>2. ASSUME NEW f \in Events, list = <<e, f>>, list' = <<f>>
        PROVE  Count(list', t) = Count(list, t) - (IF t = now THEN 1 ELSE 0)
    <3>1. Count(<<e, f>>, t) = (IF e.time = t THEN 1 ELSE 0) + (IF f.time = t THEN 1 ELSE 0)
      BY Counts
    <3>2. Count(<<f>>, t) = IF f.time = t THEN 1 ELSE 0
      BY Counts
    <3> QED BY <1>2, <2>2, <3>1, <3>2
  <2> QED BY <1>2, <2>1, <2>2
<1>5. calls' \in [Times -> Nat] /\ Covers(list', calls')
  <2>1. /\ \A t \in Times : calls'[t] = IF t = now THEN calls[t] - 1 ELSE calls[t]
        /\ calls[now] - 1 \in Nat
    BY <1>1, AtPresent
  <2>2. calls' \in [Times -> Nat]
    BY <1>1, <2>1, AtPresent
  <2>3. ASSUME NEW t \in Times PROVE calls'[t] >= Count(list', t)
    <3>1. Count(list, t) \in Nat
      <4>1. IsFiniteSet({i \in DOMAIN list : list[i].time = t})
        <5>1. IsFiniteSet(DOMAIN list)
          <6>1. DOMAIN list = 1..Len(list) /\ Len(list) \in Nat
            BY <1>2
          <6> QED BY <6>1, FS_Interval
        <5> QED BY <5>1, FS_Subset
      <4> QED BY <4>1, FS_CardinalityType DEF Count
    <3>2. calls[t] \in Nat /\ calls[t] >= Count(list, t)
      BY AtPresent
    <3> QED BY <1>4, <2>1, <3>1, <3>2
  <2> QED BY <1>1, <2>2, <2>3 DEF Covers
<1>6. Shown'
  <2>1. e.val \in Values
    BY DEF Events
  <2>2. {cur', out', in'} \subseteq Values'
    BY <1>1, <1>2, <2>1, Unmoved DEF Parts, Shown
  <2> QED BY <1>1, <1>2, <2>2 DEF Parts, Shown
<1> QED BY <1>1, <1>3, <1>5, <1>6, Unmoved DEF Parts, Pending

(* The send returns: nothing that is on its way is touched.                *)
LEMMA SentFacts ==
    ASSUME Sent
    PROVE  /\ shape' = shape /\ delay' = delay /\ now' = now /\ aux' = aux /\ calls' = calls
           /\ cur' = cur /\ list' = list /\ out' = out
           /\ initial' = FALSE /\ sending' = FALSE
BY DEF Sent

LEMMA SentKeeps ==
    ASSUME Parts, Sent PROVE Parts'
<1>1. Shown'
  BY SentFacts, Unmoved DEF Parts, Shown
<1>2. Pending'
  BY SentFacts, Unmoved DEF Parts, Pending, Listed, Covers
<1> QED BY <1>1, <1>2, SentFacts, Unmoved DEF Parts

(* Time goes on when no call, and so no event, is left for the present.    *)
LEMMA AdvanceFacts ==
    ASSUME Parts, calls[now] = 0
    PROVE  list = <<>> \/ \E e \in Events : list = <<e>> /\ now + 1 <= e.time
<1>1. Count(list, now) <= 0
  BY AtPresent
<1>2. ASSUME NEW e \in Events, list = <<e>>, now <= e.time PROVE now + 1 <= e.time
  <2>1. e.time # now
    <3>1. Count(<<e>>, now) = IF e.time = now THEN 1 ELSE 0
      BY Counts
    <3> QED BY <1>1, <1>2, <3>1
  <2> QED BY <1>2, <2>1, AtPresent
<1>3. ASSUME NEW d \in Events, NEW e \in Events, list = <<d, e>>, d.time = now PROVE FALSE
  <2>1. Count(<<d, e>>, now) = (IF d.time = now THEN 1 ELSE 0) + (IF e.time = now THEN 1 ELSE 0)
    BY CountOfTwo
  <2>2. Count(list, now) = 1 \/ Count(list, now) = 2
    BY <1>3, <2>1
  <2> QED BY <1>1, <2>2
<1> QED BY <1>2, <1>3 DEF Parts, Pending, Listed

LEMMA AdvanceKeeps ==
    ASSUME Parts, Advance PROVE Parts'
<1>1. /\ calls[now] = 0 /\ now < MaxTime /\ now' = now + 1 /\ races' = 0
      /\ shape' = shape /\ delay' = delay /\ calls' = calls
      /\ cur' = cur /\ initial' = initial /\ list' = list /\ out' = out
      /\ in' = in /\ since' = since /\ least' = least /\ inputs' = inputs
      /\ sending' = sending /\ fed' = fed
  BY DEF Advance, node
<1>2. Values' = Values /\ InitialValue' = InitialValue /\ Events' = Events
  BY <1>1 DEF Values, InitialValue, Kind, Width, Events
<1>3. Numbers'
  BY <1>1 DEF Parts, Numbers, DelaysRight, delay
<1>4. Counters'
  <2>1. now' \in 0..MaxTime /\ since' \in 0..now' /\ races' \in 0..inputs'
    BY <1>1, AtPresent, BoundsAssumption DEF Parts, Counters
  <2> QED BY <1>1, <2>1 DEF Parts, Counters
<1>5. Shown'
  BY <1>1, <1>2 DEF Parts, Shown
<1>6. Listed(list', now', races', Events')
  BY <1>1, <1>2, AdvanceFacts DEF Listed
<1>7. Pending'
  BY <1>1, <1>6 DEF Parts, Pending, Covers
<1> QED BY <1>3, <1>4, <1>5, <1>7 DEF Parts

LEMMA InitParts == ASSUME Init PROVE Parts /\ list = <<>> /\ in = out
<1>1. /\ shape \in Nodes /\ minDelay = Min({rise, fall, decay})
      /\ cur = InitialValue /\ out = InitialValue /\ in = InitialValue /\ initial = TRUE
      /\ list = <<>> /\ now = 0 /\ calls = [t \in Times |-> 0]
      /\ since = 0 /\ least = minDelay /\ inputs = 0 /\ races = 0
      /\ sending = FALSE /\ fed = FALSE
  BY DEF Init
<1>2. /\ {rise, fall, decay} \subseteq Duration /\ ignoreDecay \in BOOLEAN
      /\ ignoreDecay => rise = 0 /\ fall = 0 /\ decay = 0
  <2>1. CASE VaryDelays
    BY <2>1 DEF Init, Duration
  <2>2. CASE ~ VaryDelays
    BY <2>2 DEF Init, Duration
  <2> QED BY <2>1, <2>2
<1>3. minDelay \in {rise, fall, decay}
  <2>1. rise \in Nat /\ fall \in Nat /\ decay \in Nat
    BY <1>2, DurationBounded
  <2> QED BY <1>1, <2>1, MinOfThree
<1>4. ignoreDecay => decay = Min({rise, fall})
  <2>1. Min({0, 0}) = 0
    BY MinOfTwo, 0 \in Nat
  <2> QED BY <1>2, <2>1
<1>5. Numbers
  BY <1>1, <1>2, <1>3, <1>4 DEF Numbers, DelaysRight
<1>6. Counters
  <2>1. fed \in BOOLEAN
    BY <1>1
  <2>2. now \in 0..MaxTime /\ since \in 0..now /\ inputs \in 0..MaxInputs /\ races \in 0..inputs
    BY <1>1, BoundsAssumption
  <2> QED BY <1>1, <2>1, <2>2 DEF Counters
<1>7. InitialValue \in Values
  BY DEF InitialValue, Values, Bit4
<1>8. Shown
  BY <1>1, <1>7 DEF Shown
<1>9. Pending
  <2>1. calls \in [Times -> Nat]
    BY <1>1
  <2>2. ASSUME NEW t \in Times PROVE calls[t] >= Count(list, t)
    <3>1. Count(<<>>, t) = 0
      BY Counts
    <3> QED BY <1>1, <3>1
  <2> QED BY <1>1, <2>1, <2>2 DEF Pending, Listed, Covers
<1> QED BY <1>1, <1>5, <1>6, <1>8, <1>9 DEF Parts

LEMMA InitHolds == ASSUME Init PROVE DelayInv
<1>1. Parts /\ list = <<>> /\ races = 0 /\ inputs = 0
  BY InitParts DEF Init
<1>2. TypeOK
  <2>1. list \in Seq([time : Times, val : Values]) /\ \A i \in DOMAIN list : list[i].time >= now
    BY <1>1
  <2>2. inputs \in 0..MaxInputs /\ races \in 0..MaxInputs
    BY <1>1, BoundsAssumption
  <2> QED BY <1>1, <2>1, <2>2 DEF Parts, Numbers, DelaysRight, Duration, Counters, Shown,
          Pending, TypeOK
<1>3. \A t \in Times : calls[t] >= Cardinality({i \in DOMAIN list : list[i].time = t})
  BY <1>1 DEF Parts, Pending, Covers, Count
<1>4. Len(list) = 0
  BY <1>1
<1> QED BY <1>1, <1>2, <1>3, <1>4 DEF DelayInv, Parts, Shown

LEMMA NextKeeps ==
    ASSUME DelayInv, OneRace, [Next]_vars PROVE DelayInv'
<1>1. Parts
  BY InvParts
<1>2. ASSUME NEW bit, Receive(bit) PROVE Free \/ Race
  BY <1>2, Arrival DEF Receive
<1>3. ASSUME NEW bit \in Values, SkipRepeated(bit) PROVE Parts'
  BY <1>1, <1>3, SkipRepeatedKeeps
<1>4. ASSUME NEW bit \in Values, SkipShown(bit) PROVE Parts'
  BY <1>1, <1>2, <1>4, SkipShownKeeps DEF SkipShown
<1>5. ASSUME NEW bit \in Values, SendNow(bit) PROVE Parts'
  BY <1>1, <1>5, SendNowKeeps
<1>6. ASSUME NEW bit \in Values, Enqueue(bit) PROVE Parts'
  BY <1>1, <1>2, <1>6, EnqueueKeeps DEF Enqueue
<1>7. ASSUME NEW val \in Delays, SetDelay(val) PROVE Parts'
  BY <1>1, <1>7, SetDelayKeeps
<1>8. CASE RunNothing
  BY <1>1, <1>8, RunNothingKeeps, PartsInv
<1>9. CASE RunDue
  BY <1>1, <1>9, RunDueKeeps, PartsInv
<1>10. CASE Advance
  BY <1>1, <1>10, AdvanceKeeps, PartsInv
<1>11. CASE UNCHANGED vars
  <2>1. /\ shape' = shape /\ delay' = delay /\ node' = node /\ now' = now
        /\ calls' = calls /\ aux' = aux
    BY <1>11 DEF vars
  <2>2. /\ cur' = cur /\ initial' = initial /\ list' = list /\ out' = out
        /\ sending' = sending
    BY <2>1 DEF node
  <2>3. Shown' /\ Pending'
    BY <1>1, <2>1, <2>2, Unmoved DEF Parts, Shown, Pending, Covers, Listed
  <2>4. Parts'
    BY <1>1, <2>1, <2>3, Unmoved DEF Parts
  <2> QED BY <2>4, PartsInv
<1>12. CASE Sent
  BY <1>1, <1>12, SentKeeps, PartsInv
<1> QED BY <1>3, <1>4, <1>5, <1>6, <1>7, <1>8, <1>9, <1>10, <1>11, <1>12, PartsInv DEF Next

(* If at most one value arrives while an event is due, there are never more *)
(* than two events in the list, the first of two is due, and every event    *)
(* has a call (delay.cc:223-241, 314-332, 476-489).                         *)
THEOREM Invariance == ASSUME OneRace PROVE Spec => []DelayInv
<1>1. Init => DelayInv
  BY InitHolds
<1>2. DelayInv /\ [Next]_vars => DelayInv'
  BY NextKeeps
<1> QED BY <1>1, <1>2, PTL DEF Spec

(* Then every variable has its type, no event is left behind by the time it *)
(* has to run, and the cached minimum stays the minimum (delay.cc:34-42,     *)
(* 120-149, 476-482).                                                       *)
THEOREM TypeCorrect == ASSUME OneRace PROVE Spec => []TypeOK
<1>1. DelayInv => TypeOK
  BY DEF DelayInv
<1> QED BY <1>1, Invariance, PTL

-----------------------------------------------------------------------------
(***************************************************************************)
(* The second invariant: the latest event has the value received, and has  *)
(* waited for it.                                                          *)
(***************************************************************************)
(* An event e that changes the output from a value.                        *)
WaitedFor(from, e) ==
    /\ e.time >= since + least
    /\ FixedBits => \A i \in 1..Width : from[i] # e.val[i]
            => e.time >= since + GetDelay(from[i], e.val[i])
Timely(from, e) == (races # 0 /\ e.time = now) \/ fed \/ WaitedFor(from, e)

Followed ==
    \/ list = <<>> /\ in = out
    \/ \E e \in Events : list = <<e>> /\ in = e.val /\ Timely(out, e)
    \/ \E d, e \in Events : list = <<d, e>> /\ in = e.val /\ Timely(d.val, e)

LEMMA FollowedIs == ASSUME Parts, FollowInv PROVE Followed
<1>1. /\ in = IF list = <<>> THEN out ELSE Latest.val
      /\ list # <<>> => Timely(Before, Latest)
  BY DEF FollowInv, Timely, Waited, WaitedFor
<1>2. CASE list = <<>>
  BY <1>1, <1>2 DEF Followed
<1>3. ASSUME NEW e \in Events, list = <<e>> PROVE Followed
  <2>1. Latest = e /\ Before = out /\ list # <<>>
    BY <1>3 DEF Latest, Before
  <2> QED BY <1>1, <1>3, <2>1 DEF Followed
<1>4. ASSUME NEW d \in Events, NEW e \in Events, list = <<d, e>> PROVE Followed
  <2>1. Latest = e /\ Before = d.val /\ list # <<>>
    BY <1>4 DEF Latest, Before
  <2> QED BY <1>1, <1>4, <2>1 DEF Followed
<1> QED BY <1>2, <1>3, <1>4 DEF Parts, Pending, Listed

LEMMA IsFollowed == ASSUME DelayInv', Followed' PROVE FollowInv'
<1> SUFFICES /\ in' = IF list' = <<>> THEN out' ELSE Latest'.val
             /\ list' # <<>> => Timely(Before, Latest)'
  BY DEF FollowInv, Timely, Waited, WaitedFor
<1>2. CASE list' = <<>> /\ in' = out'
  BY <1>2
<1>3. ASSUME NEW e \in Events', list' = <<e>>, in' = e.val, Timely(out, e)'
      PROVE  /\ in' = IF list' = <<>> THEN out' ELSE Latest'.val
             /\ list' # <<>> => Timely(Before, Latest)'
  <2>1. Latest' = e /\ Before' = out' /\ list' # <<>>
    BY <1>3 DEF Latest, Before
  <2> QED BY <1>3, <2>1 DEF Timely, WaitedFor
<1>4. ASSUME NEW d \in Events', NEW e \in Events', list' = <<d, e>>, in' = e.val,
             Timely(d.val, e)'
      PROVE  /\ in' = IF list' = <<>> THEN out' ELSE Latest'.val
             /\ list' # <<>> => Timely(Before, Latest)'
  <2>1. Latest' = e /\ Before' = d.val /\ list' # <<>>
    BY <1>4 DEF Latest, Before
  <2> QED BY <1>4, <2>1 DEF Timely, WaitedFor
<1> QED BY <1>2, <1>3, <1>4 DEF Followed

(* Time stands still and the races are no fewer; a value keeps its event.  *)
LEMMA StaysTimely ==
    ASSUME shape' = shape, delay' = delay, now' = now, since' = since, least' = least,
           races # 0 => races' # 0, fed => fed', NEW e, NEW from, Timely(from, e)
    PROVE  Timely(from, e)'
<1>1. \A a, b : GetDelay(a, b)' = GetDelay(a, b)
  BY DEF GetDelay, delay
<1>2. FixedBits' = FixedBits /\ Width' = Width
  BY DEF FixedBits, Kind, Width, VaryDelays
<1> QED BY <1>1, <1>2 DEF Timely, WaitedFor

(* A value that is already on its way is that of the latest event.         *)
LEMMA RepeatedIsLast ==
    ASSUME Parts, Followed, NEW bit, Repeats(bit), Free \/ Race
    PROVE  \E e \in Events : list = <<e>> /\ e.val = bit /\ in = bit /\ Timely(out, e)
<1>1. PICK e \in Events : list = <<e>>
  BY DEF Repeats, Free, Race
<1>2. Head(list) = e /\ list # <<>> /\ Len(list) = 1
  BY <1>1
<1>3. e.val = bit
  BY <1>2 DEF Repeats
<1>4. \A d, f \in Events : list # <<d, f>>
  <2>1. \A d, f \in Events : Len(<<d, f>>) = 2
    OBVIOUS
  <2> QED BY <1>2, <2>1
<1>5. \A f \in Events : list = <<f>> => f = e
  BY <1>1
<1> QED BY <1>1, <1>2, <1>3, <1>4, <1>5 DEF Followed

LEMMA SkipRepeatedFollows ==
    ASSUME Parts, Followed, NEW bit \in Values, SkipRepeated(bit), Free \/ Race
    PROVE  Followed' /\ in' = in
<1>1. /\ Receive(bit) /\ Repeats(bit) /\ list' = list /\ out' = out
  BY DEF SkipRepeated, node
<1>2. PICK e \in Events : list = <<e>> /\ e.val = bit /\ in = bit /\ Timely(out, e)
  BY <1>1, RepeatedIsLast
<1>3. /\ shape' = shape /\ delay' = delay /\ now' = now /\ since' = since /\ least' = least
      /\ in' = bit
  BY <1>1, <1>2 DEF Receive
<1>4. (races # 0 => races' # 0) /\ (fed => fed')
  BY <1>1, <1>2, Received
<1>5. Timely(out, e)'
  BY <1>1, <1>2, <1>3, <1>4, StaysTimely
<1>6. e \in Events'
  BY <1>1, Received
<1> QED BY <1>1, <1>2, <1>3, <1>5, <1>6 DEF Followed

LEMMA SkipShownFollows ==
    ASSUME Parts, Followed, NEW bit \in Values, SkipShown(bit), Free
    PROVE  Followed'
<1>1. list' = <<>> /\ in' = bit /\ out' = out /\ cur = bit
  BY DEF SkipShown, Free, Receive
<1> QED BY <1>1 DEF Parts, Shown, Followed

LEMMA SendNowFollows ==
    ASSUME NEW bit \in Values, SendNow(bit) PROVE Followed'
BY DEF SendNow, Receive, Followed

(* The value is another than the last, so it arrives now, and waits for    *)
(* the transition from what is shown when its turn comes.                  *)
LEMMA EnqueueNew ==
    ASSUME Parts, Followed, NEW bit \in Values, Enqueue(bit), Free \/ Race, ~ FirstSend
    PROVE  bit # in
<1>1. Delayed(bit) /\ (UseDelay(bit) # 0 \/ Cleaned # <<>>)
  BY DEF Enqueue
<1>2. CASE list = <<>>
  <2>1. Free /\ in = out /\ out = cur /\ Reference = cur /\ Cleaned = <<>>
    <3>1. Free
      BY <1>2 DEF Race
    <3> QED BY <1>2, <3>1 DEF Free, Followed, Parts, Shown
  <2>2. Kind = "real" => bit # cur
    BY <1>1 DEF Delayed
  <2>3. Kind # "real" /\ bit = cur => UseDelay(bit) = 0
    BY <2>1, UseDelayFacts, ReferenceTyped DEF Parts, Numbers, Counters
  <2> QED BY <1>1, <2>1, <2>2, <2>3
<1>3. CASE \E e \in Events : list = <<e>>
  <2>1. PICK e \in Events : list = <<e>>
    BY <1>3
  <2>2. Head(list) = e /\ list # <<>> /\ Len(list) = 1
    BY <2>1
  <2>3. bit # e.val
    BY <1>1, <2>2 DEF Delayed, Repeats
  <2>4. \A d, f \in Events : list # <<d, f>>
    <3>1. \A d, f \in Events : Len(<<d, f>>) = 2
      OBVIOUS
    <3> QED BY <2>2, <3>1
  <2>5. \A f \in Events : list = <<f>> => f = e
    BY <2>1
  <2> QED BY <2>2, <2>3, <2>4, <2>5 DEF Followed
<1> QED BY <1>2, <1>3 DEF Free, Race

LEMMA EnqueueFollows ==
    ASSUME Parts, Followed, NEW bit \in Values, Enqueue(bit),
           Free \/ (Race /\ Kind = "vec4")
    PROVE  Followed'
<1>0. PICK u, n : u = UseDelay(bit) /\ n = [time |-> now + u, val |-> bit]
  OBVIOUS
<1>1. /\ Receive(bit) /\ list' = Append(Cleaned, n) /\ out' = out
      /\ u # 0 \/ Cleaned # <<>>
  BY <1>0 DEF Enqueue
<1>2. ~ FirstSend => bit # in
  BY EnqueueNew
<1>3. /\ shape' = shape /\ delay' = delay /\ now' = now /\ in' = bit
      /\ ~ FirstSend => since' = now /\ least' = minDelay
      /\ FirstSend => fed'
  BY <1>1, <1>2 DEF Receive, FirstSend
<1>4. Numbers /\ shape \in Nodes /\ Reference \in Values /\ now \in Nat /\ DelaysRight
  BY ReferenceTyped, AtPresent DEF Parts, Counters, Numbers
<1>5. /\ u \in Nat /\ (bit # Reference \/ Kind = "real" => minDelay <= u)
      /\ bit = Reference /\ Kind # "real" => u = 0
      /\ Kind = "vec4" => \A i \in 1..Width : GetDelay(Reference[i], bit[i]) <= u
  BY <1>0, <1>4, UseDelayFacts
<1>6. minDelay \in Nat
  BY <1>4, DelayFacts
<1>7. n \in Events'
  <2>2. u <= Max(Delays) /\ Max(Delays) \in Nat
    BY <1>0, <1>4, UseDelayFacts, DurationBounded
  <2>3. now + u \in Times
    BY <1>5, <2>2, AtPresent DEF Times
  <2>4. Events' = Events
    BY <1>1, Received
  <2> QED BY <1>0, <2>3, <2>4 DEF Events
<1>8. n.time = now + u /\ n.val = bit
  BY <1>0
<1>9. /\ \A a, b : GetDelay(a, b)' = GetDelay(a, b)
      /\ FixedBits' = FixedBits /\ Width' = Width /\ (FixedBits => Kind = "vec4")
  BY <1>3 DEF GetDelay, delay, FixedBits, Kind, Width, VaryDelays
<1>10. ASSUME Free PROVE Followed'
  <2>5. list' = <<n>> /\ u # 0 /\ (FirstSend \/ Reference = out)
    <3>1. Cleaned = <<>> /\ (FirstSend \/ Reference = cur)
      BY <1>10 DEF Free
    <3> QED BY <1>1, <3>1 DEF Parts, Shown
  <2>6. CASE FirstSend
    BY <1>1, <1>3, <1>7, <1>8, <2>5, <2>6 DEF Followed, Timely
  <2>7. SUFFICES ASSUME ~ FirstSend PROVE Followed'
    BY <2>6
  <2>1. list' = <<n>> /\ u # 0 /\ Reference = out
    BY <2>5, <2>7
  <2>2. minDelay <= u
    BY <1>4, <1>5, <2>1 DEF Counters
  <2>3. ASSUME FixedBits, NEW i \in 1..Width, out[i] # bit[i]
        PROVE  now + u >= now + GetDelay(out[i], bit[i])
    <3>1. GetDelay(out[i], bit[i]) <= u
      BY <1>5, <1>9, <2>1, <2>3
    <3>2. GetDelay(out[i], bit[i]) \in Nat
      <4>1. out \in [1..Width -> Bit4] /\ bit \in [1..Width -> Bit4]
        BY <1>9, <2>3 DEF Parts, Shown, Values
      <4>2. out[i] \in Bit4 /\ bit[i] \in Bit4
        BY <2>3, <4>1
      <4> QED BY <1>4, <4>2, DelayFacts
    <3> QED BY <1>4, <1>5, <3>1, <3>2
  <2>4. WaitedFor(out, n)'
    BY <1>1, <1>3, <1>4, <1>5, <1>6, <1>8, <1>9, <2>2, <2>3, <2>7 DEF WaitedFor
  <2> QED BY <1>1, <1>3, <1>7, <1>8, <2>1, <2>4 DEF Followed, Timely
<1>11. ASSUME Race, Kind = "vec4" PROVE Followed'
  <2>1. PICK e \in Events : /\ list = <<e>> /\ e.time = now /\ Cleaned = list /\ Due
                            /\ FirstSend \/ Reference = (IF initial \/ Kind = "real"
                                                        THEN cur ELSE e.val)
                            /\ races = 0
    BY <1>11 DEF Race
  <2>2. list' = <<e, n>>
    <3>1. n \in Events
      BY <1>1, <1>7, Received
    <3>2. Append(<<e>>, n) = <<e, n>>
      BY <3>1, AppendedTo
    <3> QED BY <1>1, <2>1, <3>2
  <2>3. races' # 0
    BY <1>1, <2>1, Received
  <2>4. Timely(e.val, n)'
    <3>3. CASE FirstSend
      BY <1>3, <3>3 DEF Timely
    <3>1. CASE u = 0
      <4>1. n.time = now'
        BY <1>3, <1>4, <1>8, <3>1
      <4> QED BY <2>3, <4>1 DEF Timely
    <3>2. CASE u # 0 /\ ~ FirstSend
      <4>1. minDelay <= u
        BY <1>5, <1>11, <3>2
      <4>2. ASSUME FixedBits, NEW i \in 1..Width, e.val[i] # bit[i]
            PROVE  now + u >= now + GetDelay(e.val[i], bit[i])
        <5> DEFINE a == e.val[i]
                   b == bit[i]
                   r == Reference[i]
        <5>1. /\ e.val \in [1..Width -> Bit4] /\ bit \in [1..Width -> Bit4]
              /\ Reference \in [1..Width -> Bit4]
          BY <1>4, <1>11 DEF Events, Values
        <5>2. a \in Bit4 /\ b \in Bit4 /\ r \in Bit4 /\ a # b
          BY <4>2, <5>1
        <5>3. GetDelay(r, b) <= u
          BY <1>5, <1>11
        <5>4. r = a \/ r = "X"
          <6>1. CASE initial
            <7>1. Reference = InitialValue
              BY <2>1, <3>2, <6>1 DEF Parts, Shown, FirstSend
            <7> QED BY <1>11, <7>1 DEF InitialValue
          <6>2. CASE ~ initial
            BY <1>11, <2>1, <6>2 DEF FirstSend
          <6> QED BY <6>1, <6>2 DEF Parts, Shown
        <5> HIDE DEF a, b, r
        <5>5. GetDelay(a, b) <= u /\ GetDelay(a, b) \in Nat
          <6>1. CASE r = b
            <7>1. r # a /\ b = "X"
              BY <5>2, <5>4, <6>1
            <7>2. GetDelay(a, b) = minDelay
              BY <1>4, <5>2, <7>1, DelayFacts
            <7> QED BY <1>6, <4>1, <7>2
          <6>2. CASE r # b
            <7>1. GetDelay(a, b) = GetDelay(r, b) /\ GetDelay(a, b) \in Nat
              BY <1>4, <5>2, <6>2, DelayFacts
            <7> QED BY <5>3, <7>1
          <6> QED BY <6>1, <6>2
        <5> QED BY <1>4, <1>5, <5>5 DEF a, b
      <4>3. WaitedFor(e.val, n)'
        BY <1>1, <1>3, <1>4, <1>5, <1>6, <1>8, <1>9, <3>2, <4>1, <4>2 DEF WaitedFor
      <4> QED BY <4>3 DEF Timely
    <3> QED BY <3>1, <3>2, <3>3
  <2>5. e \in Events'
    BY <1>1, Received
  <2> QED BY <1>3, <1>7, <1>8, <2>2, <2>4, <2>5 DEF Followed
<1> QED BY <1>10, <1>11

(* A delay is changed: the delays of the bits vary, and the least one is    *)
(* no greater.                                                             *)
LEMMA SetDelayFollows ==
    ASSUME Parts, Followed, NEW val \in Delays, SetDelay(val) PROVE Followed'
<1>1. /\ Parts' /\ VaryDelays /\ least' <= least
  BY SetDelayKeeps
<1>2. /\ shape' = shape /\ now' = now /\ in' = in /\ since' = since /\ races' = races
      /\ list' = list /\ out' = out /\ fed' = fed
  BY DEF SetDelay, node
<1>3. ~ FixedBits' /\ Events' = Events
  BY <1>1, <1>2 DEF FixedBits, VaryDelays, Events, Values, Kind, Width
<1>4. least \in Nat /\ least' \in Nat /\ since \in Nat
  BY <1>1, DurationBounded, AtPresent DEF Parts, Numbers, Counters
<1>5. ASSUME NEW e \in Events, NEW from, Timely(from, e) PROVE Timely(from, e)'
  <2>1. e.time \in Nat
    BY AtPresent
  <2>2. CASE races # 0 /\ e.time = now
    BY <1>2, <2>2 DEF Timely
  <2>4. CASE fed
    BY <1>2, <2>4 DEF Timely
  <2>3. CASE e.time >= since + least
    <3>1. e.time >= since' + least'
      BY <1>1, <1>2, <1>4, <2>1, <2>3
    <3> QED BY <1>3, <3>1 DEF Timely, WaitedFor
  <2> QED BY <1>5, <2>2, <2>3, <2>4 DEF Timely, WaitedFor
<1>6. CASE list = <<>> /\ in = out
  BY <1>2, <1>6 DEF Followed
<1>7. ASSUME NEW e \in Events, list = <<e>>, in = e.val, Timely(out, e) PROVE Followed'
  <2>1. Timely(out, e)'
    BY <1>2, <1>5, <1>7
  <2> QED BY <1>2, <1>3, <1>7, <2>1 DEF Followed
<1>8. ASSUME NEW d \in Events, NEW e \in Events, list = <<d, e>>, in = e.val, Timely(d.val, e)
      PROVE  Followed'
  <2>1. Timely(d.val, e)'
    BY <1>5, <1>8
  <2> QED BY <1>2, <1>3, <1>8, <2>1 DEF Followed
<1> QED BY <1>6, <1>7, <1>8 DEF Followed

(* What is on its way stays, and so does its time.                         *)
LEMMA UnchangedFollows ==
    ASSUME Parts, Followed, shape' = shape, delay' = delay, list' = list, out' = out,
           now' = now, aux' = aux
    PROVE  Followed'
<1>1. /\ list' = list /\ out' = out /\ in' = in /\ since' = since /\ least' = least
      /\ races' = races /\ fed' = fed /\ Events' = Events
  BY Unmoved DEF aux
<1>2. ASSUME NEW e \in Events, NEW from, Timely(from, e) PROVE Timely(from, e)'
  BY <1>1, <1>2, StaysTimely
<1>3. CASE list = <<>> /\ in = out
  BY <1>1, <1>3 DEF Followed
<1>4. ASSUME NEW e \in Events, list = <<e>>, in = e.val, Timely(out, e) PROVE Followed'
  <2>1. Timely(out, e)'
    BY <1>1, <1>2, <1>4
  <2> QED BY <1>1, <1>4, <2>1 DEF Followed
<1>5. ASSUME NEW d \in Events, NEW e \in Events, list = <<d, e>>, in = e.val, Timely(d.val, e)
      PROVE  Followed'
  <2>1. Timely(d.val, e)'
    BY <1>2, <1>5
  <2> QED BY <1>1, <1>5, <2>1 DEF Followed
<1> QED BY <1>3, <1>4, <1>5 DEF Followed

(* The event of a list that is known.                                      *)
LEMMA FollowedAs ==
    ASSUME Followed
    PROVE  /\ list = <<>> => in = out
           /\ \A e \in Events : list = <<e>> => in = e.val /\ Timely(out, e)
           /\ \A d, e \in Events : list = <<d, e>> => in = e.val /\ Timely(d.val, e)
<1>1. \A e \in Events : Len(<<e>>) = 1 /\ <<e>>[1] = e
  OBVIOUS
<1>2. \A d, e \in Events : Len(<<d, e>>) = 2
  OBVIOUS
<1>3. Len(<<>>) = 0
  OBVIOUS
<1>4. list = <<>> => in = out
  BY <1>1, <1>2, <1>3 DEF Followed
<1>5. ASSUME NEW e \in Events, list = <<e>> PROVE in = e.val /\ Timely(out, e)
  <2>1. Len(list) = 1
    BY <1>5
  <2>2. list # <<>> /\ \A f, g \in Events : list # <<f, g>>
    BY <1>2, <2>1
  <2>3. PICK f \in Events : list = <<f>> /\ in = f.val /\ Timely(out, f)
    BY <2>2 DEF Followed
  <2>4. f = e
    BY <1>5, <2>3
  <2> QED BY <2>3, <2>4
<1>6. ASSUME NEW d \in Events, NEW e \in Events, list = <<d, e>>
      PROVE  in = e.val /\ Timely(d.val, e)
  <2>1. Len(list) = 2
    BY <1>6
  <2>2. list # <<>> /\ \A f \in Events : list # <<f>>
    <3>1. list # <<>>
      BY <2>1
    <3>2. ASSUME NEW f \in Events PROVE list # <<f>>
      <4>1. Len(<<f>>) = 1
        BY <1>1
      <4> QED BY <2>1, <4>1
    <3> QED BY <3>1, <3>2
  <2>3. PICK f \in Events, g \in Events :
            list = <<f, g>> /\ in = g.val /\ Timely(f.val, g)
    BY <2>2 DEF Followed
  <2>4. f = d /\ g = e
    BY <1>6, <2>3
  <2> QED BY <2>3, <2>4
<1> QED BY <1>4, <1>5, <1>6

LEMMA RunDueFollows ==
    ASSUME Parts, Followed, RunDue PROVE Followed'
<1>1. shape' = shape /\ delay' = delay /\ now' = now /\ aux' = aux
  BY DEF RunDue
<1>2. PICK e \in Events :
          /\ e.time = now /\ cur' = e.val /\ out' = e.val
          /\ \/ list = <<e>> /\ list' = <<>>
             \/ \E f \in Events : list = <<e, f>> /\ list' = <<f>>
  BY RunDueFacts
<1>3. /\ in' = in /\ since' = since /\ least' = least /\ races' = races /\ fed' = fed
      /\ Events' = Events
  BY <1>1, Unmoved DEF aux
<1>4. CASE list = <<e>> /\ list' = <<>>
  BY <1>2, <1>3, <1>4, FollowedAs DEF Followed
<1>5. ASSUME NEW f \in Events, list = <<e, f>>, list' = <<f>> PROVE Followed'
  <2>1. in = f.val /\ Timely(e.val, f)
    BY <1>5, FollowedAs
  <2>2. Timely(e.val, f)'
    BY <1>1, <1>3, <2>1, StaysTimely
  <2>3. Timely(out, f)'
    BY <1>2, <2>2 DEF Timely, WaitedFor
  <2> QED BY <1>3, <1>5, <2>1, <2>3 DEF Followed
<1> QED BY <1>2, <1>4, <1>5

(* An event that is left is not of the present, so it has waited.          *)
LEMMA AdvanceFollows ==
    ASSUME Parts, Followed, Advance PROVE Followed'
<1>1. /\ calls[now] = 0 /\ shape' = shape /\ delay' = delay
      /\ list' = list /\ out' = out /\ in' = in /\ since' = since /\ least' = least
      /\ fed' = fed
  BY DEF Advance, node
<1>2. /\ \A a, b : GetDelay(a, b)' = GetDelay(a, b)
      /\ FixedBits' = FixedBits /\ Width' = Width /\ Events' = Events
  BY <1>1 DEF GetDelay, delay, FixedBits, Kind, Width, VaryDelays, Events, Values
<1>3. CASE list = <<>>
  BY <1>1, <1>3, FollowedAs DEF Followed
<1>4. ASSUME NEW e \in Events, list = <<e>>, now + 1 <= e.time PROVE Followed'
  <2>1. in = e.val /\ Timely(out, e) /\ e.time # now
    BY <1>4, FollowedAs, AtPresent
  <2>2. fed' \/ WaitedFor(out, e)'
    BY <1>1, <1>2, <2>1 DEF Timely, WaitedFor
  <2> QED BY <1>1, <1>2, <1>4, <2>1, <2>2 DEF Followed, Timely
<1> QED BY <1>1, <1>3, <1>4, AdvanceFacts

(* Which values arrive while an event is due.                              *)
LEMMA Arrives ==
    ASSUME DelayInv, OneRace, NoRealRace, NEW bit, Receive(bit)
    PROVE  Free \/ (Race /\ Kind = "vec4" /\ races = 0)
<1>1. Kind \in {"vec4", "real"}
  BY TypeFacts DEF DelayInv
<1>2. Race => MaxRaces[Kind] = 1 /\ races = 0
  BY DEF Race
<1>3. Free \/ Race
  BY Arrival DEF Receive
<1> QED BY <1>1, <1>2, <1>3 DEF NoRealRace

LEMMA FollowNextKeeps ==
    ASSUME FollowInv, OneRace, NoRealRace, [Next]_vars PROVE FollowInv'
<1>1. DelayInv /\ Parts /\ Followed
  BY InvParts, FollowedIs DEF FollowInv
<1>2. DelayInv'
  BY <1>1, NextKeeps
<1>3. ASSUME NEW bit, Receive(bit) PROVE Free \/ (Race /\ Kind = "vec4")
  BY <1>1, <1>3, Arrives
<1>4. ASSUME NEW bit \in Values, SkipRepeated(bit) PROVE Followed'
  BY <1>1, <1>3, <1>4, SkipRepeatedFollows DEF SkipRepeated
<1>5. ASSUME NEW bit \in Values, SkipShown(bit) PROVE Followed'
  BY <1>1, <1>3, <1>5, SkipShownFollows DEF SkipShown
<1>6. ASSUME NEW bit \in Values, SendNow(bit) PROVE Followed'
  BY <1>6, SendNowFollows
<1>7. ASSUME NEW bit \in Values, Enqueue(bit) PROVE Followed'
  BY <1>1, <1>3, <1>7, EnqueueFollows DEF Enqueue
<1>8. ASSUME NEW val \in Delays, SetDelay(val) PROVE Followed'
  BY <1>1, <1>8, SetDelayFollows
<1>9. CASE RunNothing
  BY <1>1, <1>2, <1>9, UnchangedFollows, IsFollowed DEF RunNothing, node
<1>10. CASE RunDue
  BY <1>1, <1>2, <1>10, RunDueFollows, IsFollowed
<1>11. CASE Advance
  BY <1>1, <1>2, <1>11, AdvanceFollows, IsFollowed
<1>12. CASE UNCHANGED vars
  BY <1>1, <1>2, <1>12, UnchangedFollows, IsFollowed DEF vars, node
<1>13. CASE Sent
  BY <1>1, <1>2, <1>13, SentFacts, UnchangedFollows, IsFollowed
<1> QED BY <1>2, <1>4, <1>5, <1>6, <1>7, <1>8, <1>9, <1>10, <1>11, <1>12, <1>13, IsFollowed
        DEF Next

(* If moreover no real arrives while an event is due, the latest event has  *)
(* the value received last, and every event has waited for the delay of its *)
(* transition, or is run in the time step in which it came, or came back    *)
(* inside the first send of run_run (delay.cc:184-241, 268-334, 476-489).   *)
THEOREM Following == ASSUME OneRace, NoRealRace PROVE Spec => []FollowInv
<1>1. ASSUME Init PROVE FollowInv
  <2>1. Parts /\ list = <<>> /\ in = out /\ races = 0 /\ inputs = 0
    BY <1>1, InitParts DEF Init
  <2>2. DelayInv
    BY <1>1, InitHolds
  <2> QED BY <2>1, <2>2 DEF FollowInv
<1>2. FollowInv /\ [Next]_vars => FollowInv'
  BY FollowNextKeeps
<1> QED BY <1>1, <1>2, PTL DEF Spec

-----------------------------------------------------------------------------
(***************************************************************************)
(* What that means.                                                        *)
(***************************************************************************)
(* Then the output, or the last event on its way to it, is the value last   *)
(* received, and the events are in the order of time with a call for each   *)
(* (delay.cc:223-241, 314-332, 453-489).                                   *)
THEOREM OutputsFollow == ASSUME OneRace, NoRealRace PROVE Spec => []OutputFollows
<1>1. ASSUME FollowInv PROVE OutputFollows
  <2>1. DelayInv /\ Parts
    BY <1>1, InvParts DEF FollowInv
  <2>2. out = cur /\ in = IF list = <<>> THEN out ELSE list[Len(list)].val
    BY <1>1, <2>1 DEF FollowInv, DelayInv, Latest
  <2>3. \A i \in 1..(Len(list) - 1) : list[i].time <= list[i+1].time
    <3>1. CASE list = <<>>
      BY <3>1
    <3>2. ASSUME NEW e \in Events, list = <<e>>
          PROVE  \A i \in 1..(Len(list) - 1) : list[i].time <= list[i+1].time
      <4>1. Len(list) = 1
        BY <3>2
      <4> QED BY <4>1
    <3>3. ASSUME NEW d \in Events, NEW e \in Events, list = <<d, e>>, d.time = now,
                 now <= e.time
          PROVE  \A i \in 1..(Len(list) - 1) : list[i].time <= list[i+1].time
      <4>1. Len(list) = 2 /\ list[1] = d /\ list[2] = e
        BY <3>3
      <4>2. \A i \in 1..(Len(list) - 1) : i = 1
        BY <4>1
      <4> QED BY <3>3, <4>1, <4>2
    <3> QED BY <2>1, <3>1, <3>2, <3>3 DEF Parts, Pending, Listed
  <2> QED BY <2>1, <2>2, <2>3 DEF OutputFollows, DelayInv
<1> QED BY <1>1, Following, PTL

(* A value that changes the output at once is another than the last.       *)
LEMMA SendNowIsNew ==
    ASSUME Parts, Followed, NEW bit \in Values, SendNow(bit), bit # out, Free
    PROVE  bit # in
<1>1. list = <<>> \/ \E e \in Events : list = <<e>>
  BY DEF Free
<1>2. CASE list = <<>>
  BY <1>2, FollowedAs
<1>3. ASSUME NEW e \in Events, list = <<e>> PROVE bit # in
  <2>1. list # <<>> /\ Head(list) = e /\ in = e.val
    BY <1>3, FollowedAs
  <2> QED BY <2>1 DEF SendNow, Delayed, Repeats
<1> QED BY <1>1, <1>2, <1>3

(* A change that shows at the end of its delay, of every bit.              *)
Ripe ==
    /\ out' # out => out' = in' /\ (fed' \/ now >= since' + least')
    /\ Kind = "vec4" /\ ~ VaryDelays /\ ~ fed' =>
        \A i \in 1..Width : out'[i] # out[i] =>
            now >= since' + GetDelay(out[i], out'[i])

LEMMA SendNowRipe ==
    ASSUME DelayInv, Parts, Followed, OneRace, NoRealRace, races = 0,
           NEW bit \in Values, SendNow(bit)
    PROVE  Ripe
<1>1. /\ Receive(bit) /\ out' = bit /\ in' = bit
      /\ UseDelay(bit) = 0 /\ Cleaned = <<>>
  BY DEF SendNow, Receive
<1>2. Free
  <2>1. \A e \in Events : <<e>> # <<>>
    OBVIOUS
  <2>2. ~ Race
    BY <1>1, <2>1 DEF Race
  <2> QED BY <1>1, <2>2, Arrives
<1>8. CASE FirstSend
  BY <1>1, <1>8, Received DEF Ripe
<1>9. SUFFICES ASSUME ~ FirstSend PROVE Ripe
  BY <1>8
<1>3. Reference = out /\ Reference \in Values
  BY <1>2, <1>9, ReferenceTyped DEF Free, Parts, Shown
<1>4. DelaysRight /\ shape \in Nodes /\ now \in Nat /\ minDelay \in Nat
  BY AtPresent, DelayFacts DEF Parts, Numbers, Counters
<1>5. /\ bit # out => minDelay <= 0
      /\ Kind = "vec4" => \A i \in 1..Width : GetDelay(out[i], bit[i]) <= 0
  BY <1>1, <1>3, <1>4, UseDelayFacts
<1>6. ASSUME bit # out PROVE since' = now /\ least' = 0
  <2>1. bit # in
    BY <1>2, <1>6, SendNowIsNew
  <2>2. minDelay = 0
    BY <1>4, <1>5, <1>6
  <2> QED BY <1>1, <2>1, <2>2 DEF Receive
<1>7. ASSUME Kind = "vec4", NEW i \in 1..Width, bit[i] # out[i]
      PROVE  now >= since' + GetDelay(out[i], bit[i])
  <2>1. out \in [1..Width -> Bit4] /\ bit \in [1..Width -> Bit4]
    BY <1>7 DEF Parts, Shown, Values
  <2>2. GetDelay(out[i], bit[i]) \in Nat
    BY <1>4, <1>7, <2>1, DelayFacts
  <2>3. bit # out
    BY <1>7
  <2> QED BY <1>4, <1>5, <1>6, <1>7, <2>2, <2>3
<1> QED BY <1>1, <1>4, <1>6, <1>7 DEF Ripe

LEMMA RunDueRipe ==
    ASSUME Parts, Followed, races = 0, RunDue PROVE Ripe
<1>1. in' = in /\ since' = since /\ least' = least /\ fed' = fed
  BY DEF RunDue, aux
<1>2. PICK e \in Events : e.time = now /\ out' = e.val /\ list = <<e>>
  BY RunDueFacts
<1>3. in = e.val /\ (fed \/ WaitedFor(out, e))
  BY <1>2, FollowedAs DEF Timely
<1> QED BY <1>1, <1>2, <1>3 DEF Ripe, WaitedFor, FixedBits

(* A delay is inertial: if no value has come while an event was due, the    *)
(* output changes only to the value the input has, and has had for the      *)
(* least delay, and every bit of a vector only after the delay of its own   *)
(* transition; a value that came back inside the first send of run_run has  *)
(* no such delays (delay.cc:223-249, 280-289, 303-319, 486-487).            *)
THEOREM PulsesAreRejected == ASSUME OneRace, NoRealRace PROVE Spec => PulsesRejected
<1>1. ASSUME FollowInv, [Next]_vars, races = 0 PROVE Ripe
  <2>1. DelayInv /\ Parts /\ Followed
    BY <1>1, InvParts, FollowedIs DEF FollowInv
  <2>2. ASSUME NEW bit \in Values, SendNow(bit) PROVE Ripe
    BY <1>1, <2>1, <2>2, SendNowRipe
  <2>3. CASE RunDue
    BY <1>1, <2>1, <2>3, RunDueRipe
  <2>4. CASE out' = out
    BY <2>4 DEF Ripe
  <2>5. ASSUME NEW bit \in Values, SkipRepeated(bit) \/ SkipShown(bit) \/ Enqueue(bit)
        PROVE  out' = out
    BY <2>5 DEF SkipRepeated, SkipShown, Enqueue, node
  <2>6. ASSUME NEW val \in Delays, SetDelay(val) PROVE out' = out
    BY <2>6 DEF SetDelay, node
  <2>7. CASE RunNothing \/ Sent \/ Advance \/ UNCHANGED vars
    BY <2>4, <2>7 DEF RunNothing, Sent, Advance, vars, node
  <2> QED BY <1>1, <2>2, <2>3, <2>4, <2>5, <2>6, <2>7 DEF Next
<1>2. FollowInv /\ [Next]_vars =>
        [races = 0 => /\ out' # out => out' = in' /\ (fed' \/ now >= since' + least')
                      /\ Kind = "vec4" /\ ~ VaryDelays /\ ~ fed' =>
                          \A i \in 1..Width : out'[i] # out[i] =>
                              now >= since' + GetDelay(out[i], out'[i])]_vars
  BY <1>1 DEF Ripe
<1> QED BY <1>2, Following, PTL DEF Spec, PulsesRejected

LEMMA LastOfAppended ==
    ASSUME NEW S, NEW s \in Seq(S), NEW e \in S
    PROVE  Append(s, e)[Len(Append(s, e))] = e
<1>1. Len(Append(s, e)) = Len(s) + 1 /\ Append(s, e)[Len(s) + 1] = e
  BY AppendProperties
<1> QED BY <1>1

(* A value that changes nothing on its way is that of the latest event      *)
(* (delay.cc:189-191); with a second race it need not be, see delay_race.  *)
THEOREM RepeatsSkipped == ASSUME OneRace, NoRealRace PROVE Spec => SkipsRepeats
<1>1. ASSUME FollowInv, [Next]_vars, inputs' # inputs, list # <<>>, list' = list
      PROVE  in' = list[Len(list)].val
  <2>1. DelayInv /\ Parts /\ Followed
    BY <1>1, InvParts, FollowedIs DEF FollowInv
  <2>2. ASSUME NEW bit \in Values, SkipRepeated(bit) PROVE in' = list[Len(list)].val
    <3>1. Receive(bit) /\ Repeats(bit) /\ in' = bit
      BY <2>2 DEF SkipRepeated, Receive
    <3>2. PICK e \in Events : list = <<e>> /\ e.val = bit
      BY <1>1, <2>1, <3>1, Arrives, RepeatedIsLast
    <3>3. Len(list) = 1 /\ list[1] = e
      BY <3>2
    <3> QED BY <3>1, <3>2, <3>3
  <2>3. ASSUME NEW bit \in Values, SkipShown(bit) PROVE FALSE
    <3>1. Receive(bit) /\ Kind = "real" /\ list' = Cleaned
      BY <2>3 DEF SkipShown
    <3>2. Free
      BY <1>1, <2>1, <3>1, Arrives
    <3> QED BY <1>1, <3>1, <3>2 DEF Free
  <2>4. ASSUME NEW bit \in Values, SendNow(bit) PROVE FALSE
    BY <1>1, <2>4 DEF SendNow
  <2>5. ASSUME NEW bit \in Values, Enqueue(bit) PROVE in' = list[Len(list)].val
    <3>1. PICK n : n = [time |-> now + UseDelay(bit), val |-> bit]
      OBVIOUS
    <3>2. Receive(bit) /\ list' = Append(Cleaned, n) /\ in' = bit /\ n.val = bit
      BY <2>5, <3>1 DEF Enqueue, Receive
    <3>3. Free \/ Race
      BY <1>1, <2>1, <3>2, Arrives
    <3>4. PICK S : S = Events \cup {n}
      OBVIOUS
    <3>5. Cleaned \in Seq(S) /\ n \in S
      <4>1. Cleaned = <<>> \/ \E e \in S : Cleaned = <<e>>
        BY <3>3, <3>4 DEF Free, Race
      <4>2. ASSUME NEW e \in S PROVE <<e>> \in Seq(S)
        OBVIOUS
      <4>3. <<>> \in Seq(S)
        OBVIOUS
      <4>4. Cleaned \in Seq(S)
        BY <4>1, <4>2, <4>3, Zenon
      <4> QED BY <3>4, <4>4
    <3>6. list[Len(list)] = n
      BY <1>1, <3>2, <3>5, LastOfAppended
    <3> QED BY <3>2, <3>6
  <2>6. ~ (\E val \in Delays : SetDelay(val)) /\ ~ RunNothing /\ ~ RunDue /\ ~ Sent
        /\ ~ Advance /\ ~ UNCHANGED vars
    BY <1>1 DEF SetDelay, RunNothing, RunDue, Sent, Advance, vars, aux
  <2> QED BY <1>1, <2>2, <2>3, <2>4, <2>5, <2>6 DEF Next
<1>2. FollowInv /\ [Next]_vars =>
        [inputs' # inputs /\ list # <<>> /\ list' = list
             => in' = list[Len(list)].val]_vars
  BY <1>1
<1> QED BY <1>2, Following, PTL DEF Spec, SkipsRepeats

-----------------------------------------------------------------------------
(* A set of numbers that is not empty has a least one, and a finite one a  *)
(* bound.                                                                  *)
LEMMA MinOf ==
    ASSUME NEW S \in SUBSET Nat, S # {}
    PROVE  Min(S) \in S /\ \A x \in S : Min(S) <= x
<1>1. \E m \in S : \A x \in S : m <= x
  BY LeastElement
<1> QED BY <1>1 DEF Min

LEMMA FiniteBound ==
    ASSUME NEW S \in SUBSET Nat, IsFiniteSet(S)
    PROVE  \E b \in Nat : \A x \in S : x <= b
<1>1. PICK q \in Seq(S) : \A x \in S : \E n \in 1..Len(q) : q[n] = x
  BY DEF IsFiniteSet
<1> DEFINE P == {k \in Nat : k <= Len(q) => \E b \in Nat : \A i \in 1..k : q[i] <= b}
<1>2. Len(q) \in Nat /\ \A i \in 1..Len(q) : q[i] \in Nat
  <2>1. Len(q) \in Nat /\ \A i \in 1..Len(q) : q[i] \in S
    OBVIOUS
  <2> QED BY <2>1
<1>3. 0 \in P
  OBVIOUS
<1>4. ASSUME NEW k \in Nat, k \in P PROVE k + 1 \in P
  <2> SUFFICES ASSUME k + 1 <= Len(q) PROVE \E b \in Nat : \A i \in 1..(k + 1) : q[i] <= b
    OBVIOUS
  <2>1. PICK b \in Nat : \A i \in 1..k : q[i] <= b
    BY <1>2, <1>4
  <2>2. q[k + 1] \in Nat /\ \A i \in 1..k : q[i] \in Nat
    BY <1>2
  <2>3. b + q[k + 1] \in Nat /\ \A i \in 1..(k + 1) : q[i] <= b + q[k + 1]
    BY <2>1, <2>2
  <2> QED BY <2>3
<1>5. Len(q) \in P
  <2> HIDE DEF P
  <2> QED BY <1>2, <1>3, <1>4, NatIsInductive
<1>6. PICK b \in Nat : \A i \in 1..Len(q) : q[i] <= b
  BY <1>2, <1>5
<1> QED BY <1>1, <1>6

-----------------------------------------------------------------------------
(***************************************************************************)
(* Module paths: which of them applies.                                    *)
(***************************************************************************)
Woken == wake \in [PathInputs -> 0..pathNow] /\ pathNow \in Nat

(* When one of the inputs changed last; 0 if there is none.                *)
LastWake(S) == Max({wake[x] : x \in S} \cup {0})

LEMMA LastWakeFacts ==
    ASSUME Woken, NEW S \in SUBSET PathInputs
    PROVE  /\ LastWake(S) \in Nat
           /\ \A x \in S : wake[x] \in Nat /\ wake[x] <= LastWake(S)
           /\ S = {} => LastWake(S) = 0
           /\ S # {} => \E x \in S : wake[x] = LastWake(S)
<1> DEFINE W == {wake[x] : x \in S} \cup {0}
<1>1. \A x \in S : wake[x] \in Nat /\ 0 <= wake[x] /\ wake[x] <= pathNow
  BY DEF Woken
<1>2. W \in SUBSET Nat /\ W # {} /\ \A w \in W : w <= pathNow
  BY <1>1 DEF Woken
<1>3. Max(W) \in W /\ \A w \in W : Max(W) >= w
  <2> HIDE DEF W
  <2> QED BY <1>2, MaxOf DEF Woken
<1>4. LastWake(S) = Max(W)
  BY DEF LastWake
<1>5. Max(W) \in Nat /\ \A x \in S : wake[x] <= Max(W)
  <2>1. \A x \in S : wake[x] \in W
    OBVIOUS
  <2> HIDE DEF W
  <2> QED BY <1>1, <1>2, <1>3, <2>1
<1>6. S = {} => Max(W) = 0
  <2>1. S = {} => W = {0}
    OBVIOUS
  <2> HIDE DEF W
  <2> QED BY <1>3, <2>1
<1>7. S # {} => \E x \in S : wake[x] = Max(W)
  <2> SUFFICES ASSUME S # {} PROVE \E x \in S : wake[x] = Max(W)
    OBVIOUS
  <2>1. CASE Max(W) = 0
    <3>1. PICK x \in S : TRUE
      OBVIOUS
    <3>2. wake[x] = 0
      BY <1>1, <1>5, <2>1
    <3> QED BY <2>1, <3>2
  <2>2. CASE Max(W) # 0
    <3>1. \E x \in S : Max(W) = wake[x]
      <4> DEFINE m == Max(W)
      <4>1. m \in W /\ m # 0
        BY <1>3, <2>2
      <4> HIDE DEF m
      <4>2. \E x \in S : m = wake[x]
        BY <4>1
      <4> QED BY <4>2 DEF m
    <3> QED BY <3>1
  <2> QED BY <2>1, <2>2
<1> QED BY <1>1, <1>4, <1>5, <1>6, <1>7

(* One more source: it is the newest, one of the newest, or none of them.  *)
LEMMA NewestGrows ==
    ASSUME Woken, NEW S \in SUBSET PathInputs, NEW x \in PathInputs
    PROVE  /\ LastWake(S \cup {x}) = IF wake[x] > LastWake(S) THEN wake[x] ELSE LastWake(S)
           /\ Newest(S \cup {x}) =
                IF S = {} \/ wake[x] > LastWake(S) THEN {x}
                ELSE IF wake[x] = LastWake(S) THEN Newest(S) \cup {x} ELSE Newest(S)
<1> DEFINE T == S \cup {x}
           a == LastWake(S)
           b == LastWake(T)
<1>1. T \in SUBSET PathInputs /\ T # {} /\ x \in T
  OBVIOUS
<1>2. /\ a \in Nat /\ \A y \in S : wake[y] \in Nat /\ wake[y] <= a
      /\ S = {} => a = 0
      /\ S # {} => \E y \in S : wake[y] = a
  BY LastWakeFacts
<1>3. /\ b \in Nat /\ \A y \in T : wake[y] \in Nat /\ wake[y] <= b
      /\ \E y \in T : wake[y] = b
  BY <1>1, LastWakeFacts
<1> HIDE DEF a, b
<1>4. wake[x] \in Nat
  BY <1>1, <1>3
<1>5. b = IF wake[x] > a THEN wake[x] ELSE a
  <2>1. PICK y \in T : wake[y] = b
    BY <1>3
  <2>2. b <= a \/ b = wake[x]
    BY <1>2, <2>1
  <2>3. wake[x] <= b
    BY <1>1, <1>3
  <2>4. a <= b
    <3>1. CASE S = {}
      BY <1>2, <1>3, <3>1
    <3>2. CASE S # {}
      BY <1>2, <1>3, <3>2
    <3> QED BY <3>1, <3>2
  <2> QED BY <1>2, <1>3, <1>4, <2>2, <2>3, <2>4
<1>6. Newest(T) = IF S = {} \/ wake[x] > a THEN {x}
                  ELSE IF wake[x] = a THEN Newest(S) \cup {x} ELSE Newest(S)
  <2>1. CASE S = {}
    BY <1>4, <2>1 DEF Newest
  <2>2. CASE S # {} /\ wake[x] > a
    <3>1. \A y \in S : wake[x] > wake[y] /\ ~ (wake[x] <= wake[y])
      BY <1>2, <1>4, <2>2
    <3>2. wake[x] <= wake[x]
      BY <1>4
    <3>3. x \in Newest(T)
      <4>1. \A y \in S : wake[y] <= wake[x]
        BY <1>2, <1>4, <3>1
      <4> QED BY <3>2, <4>1 DEF Newest
    <3>4. \A y \in Newest(T) : y = x
      BY <3>1 DEF Newest
    <3>5. Newest(T) = {x}
      BY <3>3, <3>4
    <3> QED BY <2>2, <3>5
  <2>3. CASE S # {} /\ ~ (wake[x] > a) /\ wake[x] = a
    <3>1. \A y \in S : wake[y] <= wake[x]
      BY <1>2, <2>3
    <3>2. \A y \in S : (\A z \in S : wake[z] <= wake[y]) => wake[x] <= wake[y]
      BY <1>2, <2>3
    <3> QED BY <1>4, <2>3, <3>1, <3>2 DEF Newest
  <2>4. CASE S # {} /\ ~ (wake[x] > a) /\ wake[x] # a
    <3>1. PICK z \in S : wake[z] = a
      BY <1>2, <2>4
    <3>2. wake[x] < wake[z] /\ wake[z] \in Nat
      BY <1>2, <1>4, <2>4, <3>1
    <3>3. \A y \in S : (\A v \in S : wake[v] <= wake[y]) => wake[x] <= wake[y]
      BY <1>2, <1>4, <3>2
    <3> QED BY <1>4, <2>4, <3>2, <3>3 DEF Newest
  <2> QED BY <2>1, <2>2, <2>3, <2>4
<1> QED BY <1>5, <1>6 DEF a, b

-----------------------------------------------------------------------------
(***************************************************************************)
(* The loops over the lists of paths, as functions of the indices visited. *)
(***************************************************************************)
LEMMA LargestIndex ==
    ASSUME NEW n \in Nat, NEW s \in SUBSET (1..n), s # {}
    PROVE  /\ Max(s) \in s /\ Max(s) \in 1..n /\ \A i \in s : i <= Max(s)
           /\ s \ {Max(s)} \in SUBSET (1..n) /\ s \ {Max(s)} # s
<1>1. s \in SUBSET Nat /\ \A i \in s : i <= n
  OBVIOUS
<1>2. Max(s) \in s /\ \A i \in s : Max(s) >= i
  BY <1>1, MaxOf
<1> QED BY <1>1, <1>2

(* What agrees on the empty set, and on a set if it does on the set        *)
(* without its largest element, agrees on all sets of indices.             *)
LEMMA FoldsAgree ==
    ASSUME NEW n \in Nat, NEW f, NEW g, f[{}] = g[{}],
           \A s \in SUBSET (1..n) :
              s # {} /\ f[s \ {Max(s)}] = g[s \ {Max(s)}] => f[s] = g[s]
    PROVE  f[1..n] = g[1..n]
<1> DEFINE P == {k \in Nat : k <= n => f[1..k] = g[1..k]}
<1>1. 0 \in P
  <2>1. 1..0 = {}
    OBVIOUS
  <2> QED BY <2>1
<1>2. ASSUME NEW k \in Nat, k \in P PROVE k + 1 \in P
  <2> SUFFICES ASSUME k + 1 <= n PROVE f[1..(k + 1)] = g[1..(k + 1)]
    OBVIOUS
  <2>1. f[1..k] = g[1..k]
    BY <1>2
  <2> DEFINE s == 1..(k + 1)
  <2>2. s \in SUBSET (1..n) /\ s # {} /\ k + 1 \in s /\ \A i \in s : i <= k + 1
    OBVIOUS
  <2>3. Max(s) = k + 1
    <3> HIDE DEF s
    <3>1. Max(s) \in 1..n /\ Max(s) \in s /\ k + 1 <= Max(s)
      BY <2>2, LargestIndex
    <3> QED BY <2>2, <3>1
  <2>4. s \ {k + 1} = 1..k
    OBVIOUS
  <2> HIDE DEF s
  <2>5. f[s] = g[s]
    BY <2>1, <2>2, <2>3, <2>4
  <2> QED BY <2>5 DEF s
<1>3. n \in P
  <2> HIDE DEF P
  <2> QED BY <1>1, <1>2, NatIsInductive
<1> QED BY <1>3

OrdinaryFold(f) ==
    [s \in SUBSET DOMAIN SrcList |->
        IF s = {} THEN Chosen({}, 0) ELSE OrdinaryStep(f[s \ {Max(s)}], SrcList[Max(s)])]
IfNoneFold(f) ==
    [s \in SUBSET DOMAIN IfNoneList |->
        IF s = {} THEN Ordinary ELSE IfNoneStep(f[s \ {Max(s)}], IfNoneList[Max(s)])]

LEMMA FoldsAre ==
    /\ Ordinary = (CHOOSE f : f = OrdinaryFold(f))[DOMAIN SrcList]
    /\ Candidates = (CHOOSE f : f = IfNoneFold(f))[DOMAIN IfNoneList].src
<1>1. Ordinary = (CHOOSE f : f = OrdinaryFold(f))[DOMAIN SrcList]
  BY DEF Ordinary, FoldLeft, MapThenFoldSet, OrdinaryFold
<1>2. Candidates = (CHOOSE f : f = IfNoneFold(f))[DOMAIN IfNoneList].src
  BY DEF Candidates, FoldLeft, MapThenFoldSet, IfNoneFold
<1> QED BY <1>1, <1>2

(* The enabled ones of the ordinary paths with an index in s.              *)
EnabledOf(s) == {x \in {SrcList[i] : i \in s} : enabled[x]}

LEMMA ListsOfPaths ==
    /\ Len(SrcList) \in Nat /\ DOMAIN SrcList = 1..Len(SrcList)
    /\ \A i \in 1..Len(SrcList) : SrcList[i] \in PathInputs
    /\ Len(IfNoneList) \in Nat /\ DOMAIN IfNoneList = 1..Len(IfNoneList)
    /\ \A i \in 1..Len(IfNoneList) : IfNoneList[i] \in PathInputs
    /\ Enabled = EnabledOf(1..Len(SrcList))
    /\ ToSet(IfNoneList) = {IfNoneList[i] : i \in 1..Len(IfNoneList)}
BY PathsAssumption DEF Enabled, EnabledOf, ToSet

LEMMA OrdinaryRight ==
    ASSUME Woken
    PROVE  Ordinary = Chosen(Newest(Enabled), LastWake(Enabled))
<1> DEFINE n == Len(SrcList)
           Best(s) == Chosen(Newest(EnabledOf(s)), LastWake(EnabledOf(s)))
           g == [s \in SUBSET (1..n) |-> Best(s)]
           f == CHOOSE h : h = OrdinaryFold(h)
<1>1. n \in Nat /\ DOMAIN SrcList = 1..n /\ \A i \in 1..n : SrcList[i] \in PathInputs
  BY ListsOfPaths
<1>2. Best({}) = Chosen({}, 0)
  <2>1. EnabledOf({}) = {} /\ Newest({}) = {}
    BY DEF EnabledOf, Newest
  <2>2. LastWake({}) = 0
    BY LastWakeFacts
  <2> QED BY <2>1, <2>2
<1>3. ASSUME NEW s \in SUBSET (1..n), s # {}
      PROVE  Best(s) = OrdinaryStep(Best(s \ {Max(s)}), SrcList[Max(s)])
  <2> DEFINE m == Max(s)
             x == SrcList[m]
             r == s \ {m}
             E == EnabledOf(r)
  <2>1. m \in s /\ m \in 1..n
    BY <1>1, <1>3, LargestIndex
  <2> HIDE DEF m
  <2>2. x \in PathInputs /\ E \in SUBSET PathInputs
    BY <1>1, <2>1 DEF EnabledOf
  <2>3. EnabledOf(s) = IF enabled[x] THEN E \cup {x} ELSE E
    <3>1. {SrcList[i] : i \in s} = {SrcList[i] : i \in r} \cup {x}
      BY <2>1
    <3>2. \A y : y \in EnabledOf(s) <=> y \in {SrcList[i] : i \in s} /\ enabled[y]
      BY DEF EnabledOf
    <3>3. \A y : y \in E <=> y \in {SrcList[i] : i \in r} /\ enabled[y]
      BY DEF EnabledOf
    <3> HIDE DEF E, r, x
    <3>4. \A y : y \in EnabledOf(s) <=> (y \in E \/ (y = x /\ enabled[x]))
      BY <3>1, <3>2, <3>3
    <3> QED BY <3>4
  <2>4. /\ LastWake(E) \in Nat /\ wake[x] \in Nat
        /\ E # {} => Newest(E) # {}
        /\ E = {} => LastWake(E) = 0 /\ Newest(E) = {}
    <3> HIDE DEF E, x
    <3>1. /\ LastWake(E) \in Nat
          /\ \A y \in E : wake[y] \in Nat /\ wake[y] <= LastWake(E)
          /\ E = {} => LastWake(E) = 0
          /\ E # {} => \E y \in E : wake[y] = LastWake(E)
      BY <2>2, LastWakeFacts
    <3>2. E # {} => Newest(E) # {}
      BY <3>1 DEF Newest
    <3>3. wake[x] \in Nat
      BY <2>2 DEF Woken
    <3> QED BY <3>1, <3>2, <3>3 DEF Newest
  <2>5. /\ LastWake(E \cup {x}) = IF wake[x] > LastWake(E) THEN wake[x] ELSE LastWake(E)
        /\ Newest(E \cup {x}) =
             IF E = {} \/ wake[x] > LastWake(E) THEN {x}
             ELSE IF wake[x] = LastWake(E) THEN Newest(E) \cup {x} ELSE Newest(E)
    <3> HIDE DEF E, x
    <3> QED BY <2>2, NewestGrows
  <2>6. Best(r) = Chosen(Newest(E), LastWake(E))
    OBVIOUS
  <2> DEFINE c == Best(r)
  <2>7. c.src = Newest(E) /\ c.wake = LastWake(E)
    BY <2>6 DEF Chosen
  <2>8. Best(s) = IF enabled[x] THEN Chosen(Newest(E \cup {x}), LastWake(E \cup {x})) ELSE c
    BY <2>3
  <2> HIDE DEF c, E, x
  <2>9. Best(s) = OrdinaryStep(c, x)
    <3> HIDE DEF Best
    <3>1. CASE ~ enabled[x]
      BY <2>8, <3>1 DEF OrdinaryStep
    <3>2. CASE enabled[x]
      <4>1. CASE E = {}
        <5>1. c.src = {}
          BY <2>4, <2>7, <4>1
        <5>2. LastWake(E) = 0 /\ wake[x] \in Nat
          BY <2>4, <4>1
        <5>3. LastWake(E \cup {x}) = wake[x]
          BY <2>5, <5>2
        <5>4. Newest(E \cup {x}) = {x}
          BY <2>5, <4>1
        <5>5. Best(s) = Chosen({x}, wake[x])
          BY <2>8, <3>2, <5>3, <5>4
        <5> QED BY <3>2, <5>1, <5>5 DEF OrdinaryStep
      <4>2. CASE E # {} /\ wake[x] > LastWake(E)
        BY <2>4, <2>5, <2>7, <2>8, <3>2, <4>2 DEF OrdinaryStep
      <4>3. CASE E # {} /\ ~ (wake[x] > LastWake(E))
        <5>1. c.src # {} /\ ~ (wake[x] > c.wake)
          BY <2>4, <2>7, <4>3
        <5>2. LastWake(E \cup {x}) = LastWake(E)
          BY <2>5, <4>3
        <5>3. CASE wake[x] = LastWake(E)
          <6>1. Newest(E \cup {x}) = Newest(E) \cup {x}
            BY <2>5, <4>3, <5>3
          <6>2. Best(s) = Chosen(c.src \cup {x}, c.wake)
            BY <2>7, <2>8, <3>2, <5>2, <6>1
          <6> QED BY <2>7, <3>2, <5>1, <5>3, <6>2 DEF OrdinaryStep
        <5>4. CASE wake[x] # LastWake(E)
          <6>1. Newest(E \cup {x}) = Newest(E)
            BY <2>5, <4>3, <5>4
          <6>2. Best(s) = c
            BY <2>6, <2>8, <3>2, <5>2, <6>1 DEF c
          <6> QED BY <2>7, <3>2, <5>1, <5>4, <6>2 DEF OrdinaryStep
        <5> QED BY <5>3, <5>4
      <4> QED BY <4>1, <4>2, <4>3
    <3> QED BY <3>1, <3>2
  <2> QED BY <2>9 DEF c, x, m
<1>4. g = OrdinaryFold(g)
  <2> HIDE DEF Best
  <2>1. ASSUME NEW s \in SUBSET (1..n)
        PROVE  g[s] = IF s = {} THEN Chosen({}, 0)
                      ELSE OrdinaryStep(g[s \ {Max(s)}], SrcList[Max(s)])
    BY <1>2, <1>3
  <2>2. OrdinaryFold(g) = [s \in SUBSET (1..n) |-> IF s = {} THEN Chosen({}, 0)
                              ELSE OrdinaryStep(g[s \ {Max(s)}], SrcList[Max(s)])]
    BY <1>1 DEF OrdinaryFold
  <2>3. g = [s \in SUBSET (1..n) |-> g[s]]
    OBVIOUS
  <2> HIDE DEF g
  <2>4. [s \in SUBSET (1..n) |-> g[s]] =
           [s \in SUBSET (1..n) |-> IF s = {} THEN Chosen({}, 0)
                              ELSE OrdinaryStep(g[s \ {Max(s)}], SrcList[Max(s)])]
    BY <2>1
  <2> QED BY <2>2, <2>3, <2>4
<1>5. f = OrdinaryFold(f)
  <2> HIDE DEF g
  <2>1. \E h : h = OrdinaryFold(h)
    BY <1>4
  <2> QED BY <2>1, Zenon
<1>6. f[1..n] = g[1..n]
  <2> HIDE DEF f, g
  <2>1. \A s \in SUBSET (1..n) : f[s] = IF s = {} THEN Chosen({}, 0)
                                        ELSE OrdinaryStep(f[s \ {Max(s)}], SrcList[Max(s)])
    BY <1>1, <1>5 DEF OrdinaryFold
  <2>2. \A s \in SUBSET (1..n) : g[s] = IF s = {} THEN Chosen({}, 0)
                                        ELSE OrdinaryStep(g[s \ {Max(s)}], SrcList[Max(s)])
    BY <1>1, <1>4 DEF OrdinaryFold
  <2>3. {} \in SUBSET (1..n)
    OBVIOUS
  <2>4. f[{}] = g[{}]
    BY <2>1, <2>2, <2>3
  <2>5. \A s \in SUBSET (1..n) : s # {} /\ f[s \ {Max(s)}] = g[s \ {Max(s)}] => f[s] = g[s]
    BY <2>1, <2>2
  <2> HIDE DEF n
  <2> QED BY <1>1, <2>4, <2>5, FoldsAgree
<1>7. Ordinary = g[1..n]
  BY <1>1, <1>6, FoldsAre
<1> QED BY <1>7, ListsOfPaths

-----------------------------------------------------------------------------
(* The ifnone paths with an index in s, and what the loop has chosen after *)
(* these: an ifnone path that changed later than the ordinary ones, or,    *)
(* when there is no ordinary one and none has changed, the first.          *)
IfNoneOf(s) == {IfNoneList[i] : i \in s}

ChosenOf(s) ==
    LET F == IfNoneOf(s)
        L == LastWake(F)
    IN  IF F = {} \/ (Enabled # {} /\ ~ (L > LastWake(Enabled))) THEN Ordinary
        ELSE IF Enabled = {} /\ L = 0 THEN Chosen({IfNoneList[Min(s)]}, 0)
        ELSE Chosen(Newest(F), L)

LEMMA LeastIndex ==
    ASSUME NEW n \in Nat, NEW s \in SUBSET (1..n), s # {}
    PROVE  /\ Min(s) \in s
           /\ s \ {Max(s)} = {} => s = {Max(s)} /\ Min(s) = Max(s)
           /\ s \ {Max(s)} # {} => Min(s \ {Max(s)}) = Min(s)
<1> DEFINE m == Max(s)
           r == s \ {m}
<1>1. m \in s /\ m \in 1..n /\ \A i \in s : i <= m
  BY LargestIndex
<1>2. ASSUME NEW u \in SUBSET s, u # {}
      PROVE  Min(u) \in u /\ \A i \in u : Min(u) <= i
  <2>1. u \in SUBSET Nat
    OBVIOUS
  <2> QED BY <1>2, <2>1, MinOf
<1> HIDE DEF m
<1>3. s \in SUBSET s /\ r \in SUBSET s /\ \A i \in s : i \in Nat
  OBVIOUS
<1>4. Min(s) \in s /\ \A i \in s : Min(s) <= i
  BY <1>2, <1>3
<1>5. ASSUME r = {} PROVE s = {m} /\ Min(s) = m
  BY <1>1, <1>4, <1>5
<1>6. ASSUME r # {} PROVE Min(r) = Min(s)
  <2> HIDE DEF r
  <2>1. Min(r) \in r /\ \A i \in r : Min(r) <= i
    BY <1>2, <1>3, <1>6
  <2>2. Min(r) \in s /\ Min(r) \in Nat /\ Min(s) \in Nat /\ m \in Nat
    BY <1>1, <1>3, <1>4, <2>1
  <2>3. Min(s) <= Min(r)
    BY <1>4, <2>2
  <2>4. Min(s) \in r \/ Min(s) = m
    BY <1>4 DEF r
  <2>5. Min(s) = m => Min(r) = m
    <3>1. Min(r) <= m
      BY <1>1, <2>2
    <3> QED BY <2>2, <2>3, <3>1
  <2>6. m \notin r
    BY DEF r
  <2>7. Min(s) \in r
    BY <2>1, <2>4, <2>5, <2>6
  <2>8. Min(r) <= Min(s)
    BY <2>1, <2>7
  <2> QED BY <2>2, <2>3, <2>8
<1> QED BY <1>4, <1>5, <1>6 DEF m

LEMMA ChosenGrows ==
    ASSUME Woken, NEW s \in SUBSET (1..Len(IfNoneList)), s # {}
    PROVE  ChosenOf(s) = IfNoneStep(ChosenOf(s \ {Max(s)}), IfNoneList[Max(s)])
<1> DEFINE n == Len(IfNoneList)
           m == Max(s)
           r == s \ {m}
           x == IfNoneList[m]
           F == IfNoneOf(r)
           T == IfNoneOf(s)
           L == LastWake(F)
           w == LastWake(Enabled)
           c == ChosenOf(r)
<1> SUFFICES ChosenOf(s) = IfNoneStep(c, x)
  OBVIOUS
<1>1. n \in Nat /\ \A i \in 1..n : IfNoneList[i] \in PathInputs
  BY ListsOfPaths
<1>2. m \in s /\ m \in 1..n
  BY <1>1, LargestIndex
<1>3. /\ r = {} => s = {m} /\ Min(s) = m
      /\ r # {} => Min(r) = Min(s)
  BY <1>1, LeastIndex
<1> HIDE DEF m
<1>4. T = F \cup {x} /\ x \in PathInputs /\ F \in SUBSET PathInputs /\ (F = {} <=> r = {})
  BY <1>1, <1>2 DEF IfNoneOf
<1>5. Enabled \in SUBSET PathInputs
  BY DEF Enabled, PathInputs
<1>6. /\ L \in Nat /\ wake[x] \in Nat /\ w \in Nat
      /\ (F = {} => L = 0) /\ (Enabled = {} => w = 0)
      /\ (F # {} => Newest(F) # {}) /\ (Enabled # {} => Newest(Enabled) # {})
      /\ (Enabled = {} => Newest(Enabled) = {})
  <2> HIDE DEF F, x
  <2>1. \A S \in SUBSET PathInputs :
           /\ LastWake(S) \in Nat /\ (S = {} => LastWake(S) = 0)
           /\ S # {} => Newest(S) # {}
    <3> SUFFICES ASSUME NEW S \in SUBSET PathInputs
                 PROVE  /\ LastWake(S) \in Nat /\ (S = {} => LastWake(S) = 0)
                        /\ S # {} => Newest(S) # {}
      OBVIOUS
    <3>1. /\ LastWake(S) \in Nat
          /\ \A y \in S : wake[y] \in Nat /\ wake[y] <= LastWake(S)
          /\ S = {} => LastWake(S) = 0
          /\ S # {} => \E y \in S : wake[y] = LastWake(S)
      BY LastWakeFacts
    <3>2. S # {} => Newest(S) # {}
      BY <3>1 DEF Newest
    <3> QED BY <3>1, <3>2
  <2>2. wake[x] \in Nat
    BY <1>4 DEF Woken
  <2>3. Enabled = {} => Newest(Enabled) = {}
    BY DEF Newest
  <2> QED BY <1>4, <1>5, <2>1, <2>2, <2>3
<1>7. /\ LastWake(T) = IF wake[x] > L THEN wake[x] ELSE L
      /\ Newest(T) = IF F = {} \/ wake[x] > L THEN {x}
                     ELSE IF wake[x] = L THEN Newest(F) \cup {x} ELSE Newest(F)
  <2> HIDE DEF F, T, x
  <2> QED BY <1>4, NewestGrows
<1>8. Ordinary.src = Newest(Enabled) /\ Ordinary.wake = w
  BY OrdinaryRight DEF Chosen
<1>9. c = IF F = {} \/ (Enabled # {} /\ ~ (L > w)) THEN Ordinary
          ELSE IF Enabled = {} /\ L = 0 THEN Chosen({IfNoneList[Min(r)]}, 0)
          ELSE Chosen(Newest(F), L)
  BY DEF ChosenOf
<1>10. ChosenOf(s) =
          IF T = {} \/ (Enabled # {} /\ ~ (LastWake(T) > w)) THEN Ordinary
          ELSE IF Enabled = {} /\ LastWake(T) = 0 THEN Chosen({IfNoneList[Min(s)]}, 0)
          ELSE Chosen(Newest(T), LastWake(T))
  BY DEF ChosenOf
<1>11. T # {} /\ (F = {} => x = IfNoneList[Min(s)])
          /\ (F # {} => IfNoneList[Min(r)] = IfNoneList[Min(s)])
  BY <1>3, <1>4 DEF x
<1> HIDE DEF x, c, F, T, L, w, r
<1>12. IfNoneStep(c, x) =
          IF c.src = {} \/ wake[x] > c.wake THEN Chosen({x}, wake[x])
          ELSE IF wake[x] = c.wake /\ c.wake > w THEN Chosen(c.src \cup {x}, c.wake) ELSE c
  BY <1>8 DEF IfNoneStep
<1>13. CASE F = {} /\ Enabled = {}
  <2>1. c.src = {} /\ LastWake(T) = wake[x] /\ Newest(T) = {x}
    <3>1. c.src = {}
      BY <1>6, <1>8, <1>9, <1>13
    <3>2. L = 0
      BY <1>6, <1>13
    <3>3. LastWake(T) = wake[x]
      BY <1>6, <1>7, <3>2
    <3> QED BY <1>7, <1>13, <3>1, <3>3
  <2>2. IfNoneStep(c, x) = Chosen({x}, wake[x])
    BY <1>12, <2>1
  <2> QED BY <1>10, <1>11, <1>13, <2>1, <2>2
<1>14. CASE Enabled # {} /\ (F = {} \/ ~ (L > w))
  <2>1. c = Ordinary /\ c.src # {} /\ c.wake = w
    BY <1>6, <1>8, <1>9, <1>14
  <2>2. CASE wake[x] > w
    <3>1. IfNoneStep(c, x) = Chosen({x}, wake[x])
      BY <1>12, <2>1, <2>2
    <3>2. F = {} \/ wake[x] > L
      BY <1>6, <1>14, <2>2
    <3>3. LastWake(T) = wake[x]
      BY <1>6, <1>7, <3>2
    <3>4. Newest(T) = {x}
      BY <1>7, <3>2
    <3> QED BY <1>10, <1>11, <1>14, <2>2, <3>1, <3>3, <3>4
  <2>3. CASE ~ (wake[x] > w)
    <3>1. IfNoneStep(c, x) = Ordinary
      BY <1>6, <1>12, <2>1, <2>3
    <3>2. ~ (LastWake(T) > w)
      BY <1>6, <1>7, <1>14, <2>3
    <3> QED BY <1>10, <1>14, <3>1, <3>2
  <2> QED BY <2>2, <2>3
<1>15. CASE F # {} /\ (Enabled # {} => L > w) /\ ~ (Enabled = {} /\ L = 0)
  <2>1. c = Chosen(Newest(F), L)
    BY <1>9, <1>15
  <2>2. c.src = Newest(F) /\ c.wake = L /\ c.src # {} /\ L > w
    BY <1>6, <1>15, <2>1 DEF Chosen
  <2>3. LastWake(T) > w /\ LastWake(T) # 0
    BY <1>6, <1>7, <2>2
  <2>4. ChosenOf(s) = Chosen(Newest(T), LastWake(T))
    BY <1>10, <1>11, <2>3
  <2>5. CASE wake[x] > L
    <3>1. IfNoneStep(c, x) = Chosen({x}, wake[x])
      BY <1>12, <2>2, <2>5
    <3> QED BY <1>7, <2>4, <2>5, <3>1
  <2>6. CASE ~ (wake[x] > L) /\ wake[x] = L
    <3>1. IfNoneStep(c, x) = Chosen(Newest(F) \cup {x}, L)
      BY <1>12, <2>2, <2>6
    <3>2. LastWake(T) = L /\ Newest(T) = Newest(F) \cup {x}
      BY <1>7, <1>15, <2>6
    <3> QED BY <2>4, <3>1, <3>2
  <2>7. CASE ~ (wake[x] > L) /\ wake[x] # L
    <3>1. IfNoneStep(c, x) = c
      BY <1>12, <2>2, <2>7
    <3>2. LastWake(T) = L /\ Newest(T) = Newest(F)
      BY <1>7, <1>15, <2>7
    <3> QED BY <2>1, <2>4, <3>1, <3>2
  <2> QED BY <2>5, <2>6, <2>7
<1>16. CASE F # {} /\ Enabled = {} /\ L = 0
  <2>1. c = Chosen({IfNoneList[Min(r)]}, 0)
    BY <1>9, <1>16
  <2>2. c.src # {} /\ c.wake = 0 /\ w = 0
    BY <1>6, <1>16, <2>1 DEF Chosen
  <2>3. CASE wake[x] > 0
    <3>1. IfNoneStep(c, x) = Chosen({x}, wake[x])
      BY <1>12, <2>2, <2>3
    <3>2. LastWake(T) = wake[x] /\ Newest(T) = {x} /\ wake[x] # 0
      BY <1>6, <1>7, <1>16, <2>3
    <3> QED BY <1>10, <1>11, <1>16, <3>1, <3>2
  <2>4. CASE ~ (wake[x] > 0)
    <3>1. IfNoneStep(c, x) = c
      BY <1>6, <1>12, <2>2, <2>4
    <3>2. LastWake(T) = 0
      BY <1>6, <1>7, <1>16, <2>4
    <3> QED BY <1>10, <1>11, <1>16, <2>1, <3>1, <3>2
  <2> QED BY <2>3, <2>4
<1> QED BY <1>13, <1>14, <1>15, <1>16

LEMMA CandidatesAre ==
    ASSUME Woken
    PROVE  Candidates = ChosenOf(1..Len(IfNoneList)).src
<1> DEFINE n == Len(IfNoneList)
           g == [s \in SUBSET (1..n) |-> ChosenOf(s)]
           f == CHOOSE h : h = IfNoneFold(h)
           Step(h, s) == IF s = {} THEN Ordinary
                         ELSE IfNoneStep(h[s \ {Max(s)}], IfNoneList[Max(s)])
<1>1. n \in Nat /\ DOMAIN IfNoneList = 1..n
  BY ListsOfPaths
<1>2. ChosenOf({}) = Ordinary
  BY DEF ChosenOf, IfNoneOf
<1>3. g = IfNoneFold(g)
  <2>1. ASSUME NEW s \in SUBSET (1..n) PROVE g[s] = Step(g, s)
    BY <1>2, ChosenGrows
  <2>2. IfNoneFold(g) = [s \in SUBSET (1..n) |-> Step(g, s)]
    BY <1>1 DEF IfNoneFold
  <2>3. g = [s \in SUBSET (1..n) |-> g[s]]
    OBVIOUS
  <2> HIDE DEF g, Step
  <2>4. [s \in SUBSET (1..n) |-> g[s]] = [s \in SUBSET (1..n) |-> Step(g, s)]
    BY <2>1
  <2> QED BY <2>2, <2>3, <2>4
<1>4. f = IfNoneFold(f)
  <2> HIDE DEF g
  <2>1. \E h : h = IfNoneFold(h)
    BY <1>3
  <2> QED BY <2>1, Zenon
<1>5. f[1..n] = g[1..n]
  <2> HIDE DEF f, g
  <2>1. \A s \in SUBSET (1..n) : f[s] = Step(f, s)
    BY <1>1, <1>4 DEF IfNoneFold
  <2>2. \A s \in SUBSET (1..n) : g[s] = Step(g, s)
    BY <1>1, <1>3 DEF IfNoneFold
  <2>3. {} \in SUBSET (1..n)
    OBVIOUS
  <2>4. f[{}] = g[{}]
    BY <2>1, <2>2, <2>3
  <2>5. \A s \in SUBSET (1..n) : s # {} /\ f[s \ {Max(s)}] = g[s \ {Max(s)}] => f[s] = g[s]
    BY <2>1, <2>2
  <2> HIDE DEF n, Step
  <2> QED BY <1>1, <2>4, <2>5, FoldsAgree
<1>6. Candidates = g[1..n].src
  BY <1>1, <1>5, FoldsAre
<1> QED BY <1>6

(* What applies, in terms of the latest changes.                           *)
LEMMA ApplyingIs ==
    ASSUME Woken
    PROVE  LET F == ToSet(IfNoneList) IN
           /\ Applying = IF F # {} /\ (Enabled = {} \/ LastWake(F) > LastWake(Enabled))
                         THEN Newest(F) ELSE Newest(Enabled)
           /\ Unwoken <=> Enabled = {} /\ LastWake(F) = 0
           /\ LastWake(F) = 0 => Newest(F) = F
<1> DEFINE F == ToSet(IfNoneList)
<1>1. F \in SUBSET PathInputs /\ Enabled \in SUBSET PathInputs
  BY DEF Enabled, PathInputs
<1> HIDE DEF F
<1>2. \A S \in SUBSET PathInputs :
        /\ LastWake(S) \in Nat
        /\ \A y \in S : wake[y] \in Nat /\ wake[y] <= LastWake(S)
        /\ S = {} => LastWake(S) = 0
        /\ S # {} => \E y \in S : wake[y] = LastWake(S)
  BY LastWakeFacts
<1>3. \A f \in Newest(F) : wake[f] = LastWake(F)
  <2> SUFFICES ASSUME NEW f \in Newest(F) PROVE wake[f] = LastWake(F)
    OBVIOUS
  <2>1. f \in F /\ \A x \in F : wake[x] <= wake[f]
    BY DEF Newest
  <2>2. PICK y \in F : wake[y] = LastWake(F)
    BY <1>1, <1>2, <2>1
  <2>3. wake[y] <= wake[f] /\ wake[f] <= LastWake(F) /\ wake[f] \in Nat /\ LastWake(F) \in Nat
    BY <1>1, <1>2, <2>1
  <2> QED BY <2>2, <2>3
<1>4. F # {} => Newest(F) # {}
  <2> SUFFICES ASSUME F # {} PROVE Newest(F) # {}
    OBVIOUS
  <2>1. PICK y \in F : wake[y] = LastWake(F)
    BY <1>1, <1>2
  <2>2. \A x \in F : wake[x] <= wake[y]
    BY <1>1, <1>2, <2>1
  <2> QED BY <2>2 DEF Newest
<1>5. Enabled # {} =>
        (LastWake(F) > LastWake(Enabled) <=> \A e \in Enabled : LastWake(F) > wake[e])
  <2> SUFFICES ASSUME Enabled # {}
               PROVE  LastWake(F) > LastWake(Enabled) <=> \A e \in Enabled : LastWake(F) > wake[e]
    OBVIOUS
  <2> DEFINE a == LastWake(F)
             b == LastWake(Enabled)
  <2>1. a \in Nat /\ b \in Nat /\ \A e \in Enabled : wake[e] \in Nat /\ wake[e] <= b
    BY <1>1, <1>2
  <2>2. \E e \in Enabled : wake[e] = b
    BY <1>1, <1>2
  <2> HIDE DEF a, b
  <2>3. a > b <=> \A e \in Enabled : a > wake[e]
    BY <2>1, <2>2
  <2> QED BY <2>3 DEF a, b
<1>6. (\E f \in Newest(F) : \A e \in Enabled : wake[f] > wake[e])
        <=> F # {} /\ (Enabled = {} \/ LastWake(F) > LastWake(Enabled))
  <2>1. Newest(F) # {} <=> F # {}
    BY <1>4 DEF Newest
  <2>2. (\E f \in Newest(F) : \A e \in Enabled : wake[f] > wake[e])
          <=> Newest(F) # {} /\ \A e \in Enabled : LastWake(F) > wake[e]
    BY <1>3
  <2> QED BY <1>5, <2>1, <2>2
<1>7. (\A s \in F : wake[s] = 0) <=> LastWake(F) = 0
  <2>1. ASSUME LastWake(F) = 0, NEW s \in F PROVE wake[s] = 0
    BY <1>1, <1>2, <2>1
  <2>2. ASSUME \A s \in F : wake[s] = 0 PROVE LastWake(F) = 0
    BY <1>1, <1>2, <2>2
  <2> QED BY <2>1, <2>2
<1>8. LastWake(F) = 0 => Newest(F) = F
  BY <1>7 DEF Newest
<1>9. Applying = IF F # {} /\ (Enabled = {} \/ LastWake(F) > LastWake(Enabled))
                 THEN Newest(F) ELSE Newest(Enabled)
  BY <1>6 DEF Applying, F
<1>10. Unwoken <=> Enabled = {} /\ LastWake(F) = 0
  BY <1>7 DEF Unwoken, F
<1> QED BY <1>8, <1>9, <1>10 DEF F

LEMMA RightCandidates == ASSUME Woken PROVE CandidatesRight
<1> DEFINE n == Len(IfNoneList)
           F == IfNoneOf(1..n)
<1>1. n \in Nat /\ F = ToSet(IfNoneList) /\ F \in SUBSET PathInputs
  BY ListsOfPaths DEF IfNoneOf
<1>2. /\ Applying = IF F # {} /\ (Enabled = {} \/ LastWake(F) > LastWake(Enabled))
                    THEN Newest(F) ELSE Newest(Enabled)
      /\ Unwoken <=> Enabled = {} /\ LastWake(F) = 0
      /\ LastWake(F) = 0 => Newest(F) = F
  BY <1>1, ApplyingIs
<1>3. Candidates = ChosenOf(1..n).src
  BY CandidatesAre
<1>4. Ordinary.src = Newest(Enabled)
  BY OrdinaryRight DEF Chosen
<1>5. ChosenOf(1..n) =
        IF F = {} \/ (Enabled # {} /\ ~ (LastWake(F) > LastWake(Enabled))) THEN Ordinary
        ELSE IF Enabled = {} /\ LastWake(F) = 0 THEN Chosen({IfNoneList[Min(1..n)]}, 0)
        ELSE Chosen(Newest(F), LastWake(F))
  BY DEF ChosenOf
<1>6. F # {} => IfNoneList[Min(1..n)] \in F
  <2> SUFFICES ASSUME F # {} PROVE IfNoneList[Min(1..n)] \in F
    OBVIOUS
  <2>1. 1..n # {} /\ 1..n \in SUBSET Nat
    BY <1>1 DEF IfNoneOf
  <2>2. Min(1..n) \in 1..n
    BY <2>1, MinOf
  <2> QED BY <2>2 DEF IfNoneOf
<1> HIDE DEF F, n
<1>7. CASE Unwoken
  <2>1. CASE F = {}
    <3>1. Candidates = Newest(Enabled) /\ Applying = Newest(Enabled)
      BY <1>2, <1>3, <1>4, <1>5, <2>1
    <3> QED BY <1>7, <3>1 DEF CandidatesRight
  <2>2. CASE F # {}
    <3>1. Candidates = {IfNoneList[Min(1..n)]}
      BY <1>2, <1>3, <1>5, <1>7, <2>2 DEF Chosen
    <3>2. Applying = F
      BY <1>2, <1>7, <2>2
    <3> QED BY <1>6, <1>7, <2>2, <3>1, <3>2 DEF CandidatesRight
  <2> QED BY <2>1, <2>2
<1>8. CASE ~ Unwoken
  <2>1. CASE F # {} /\ (Enabled = {} \/ LastWake(F) > LastWake(Enabled))
    <3>1. Candidates = Newest(F)
      BY <1>2, <1>3, <1>5, <1>8, <2>1 DEF Chosen
    <3> QED BY <1>2, <1>8, <2>1, <3>1 DEF CandidatesRight
  <2>2. CASE ~ (F # {} /\ (Enabled = {} \/ LastWake(F) > LastWake(Enabled)))
    <3>1. Candidates = Newest(Enabled)
      BY <1>3, <1>4, <1>5, <2>2
    <3> QED BY <1>2, <1>8, <2>2, <3>1 DEF CandidatesRight
  <2> QED BY <2>1, <2>2
<1> QED BY <1>7, <1>8

-----------------------------------------------------------------------------
(***************************************************************************)
(* Module paths: when the output has its value.                            *)
(***************************************************************************)
LongestDelay == Max({DelayOf[s][e] : s \in PathInputs, e \in Edges} \cup {0})

LEMMA DelaysOfPaths ==
    /\ LongestDelay \in Nat
    /\ \A s \in PathInputs, e \in Edges :
          DelayOf[s][e] \in Nat /\ DelayOf[s][e] <= LongestDelay
    /\ PathTimes = 0..(MaxPathTime + LongestDelay)
<1> DEFINE P == PathInputs \X Edges
           D == {DelayOf[s][e] : s \in PathInputs, e \in Edges}
           f == [p \in P |-> DelayOf[p[1]][p[2]]]
<1>1. ASSUME NEW q \in Seq(PathInputs) PROVE IsFiniteSet(ToSet(q))
  <2>1. Len(q) \in Nat /\ DOMAIN q = 1..Len(q) /\ q \in [1..Len(q) -> ToSet(q)]
    BY DEF ToSet
  <2>2. q \in Surjection(1..Len(q), ToSet(q))
    BY <2>1 DEF Surjection, ToSet
  <2>3. IsFiniteSet(1..Len(q))
    BY <2>1, FS_Interval
  <2> QED BY <2>2, <2>3, FS_Surjection
<1>2. IsFiniteSet(PathInputs)
  <2>1. IsFiniteSet(ToSet(SrcList)) /\ IsFiniteSet(ToSet(IfNoneList))
    BY <1>1, PathsAssumption
  <2> QED BY <2>1, FS_Union DEF PathInputs
<1>3. IsFiniteSet(Edges)
  <2>1. IsFiniteSet({"0"})
    BY FS_Singleton
  <2>2. IsFiniteSet({"0"} \cup {"1"})
    BY <2>1, FS_AddElement
  <2>3. IsFiniteSet(({"0"} \cup {"1"}) \cup {"X"})
    BY <2>2, FS_AddElement
  <2>4. IsFiniteSet((({"0"} \cup {"1"}) \cup {"X"}) \cup {"Z"})
    BY <2>3, FS_AddElement
  <2>5. ((({"0"} \cup {"1"}) \cup {"X"}) \cup {"Z"}) = Levels
    BY DEF Levels
  <2>6. IsFiniteSet(Levels)
    BY <2>4, <2>5
  <2>7. IsFiniteSet(Levels \X Levels)
    BY <2>6, FS_Product
  <2>8. Edges \in SUBSET (Levels \X Levels)
    BY DEF Edges
  <2> QED BY <2>7, <2>8, FS_Subset
<1>4. IsFiniteSet(P)
  BY <1>2, <1>3, FS_Product
<1>5. \A s \in PathInputs, e \in Edges : DelayOf[s][e] \in Nat
  BY PathsAssumption
<1>6. D \in SUBSET Nat
  BY <1>5
<1>7. f \in Surjection(P, D)
  <2>1. \A s \in PathInputs, e \in Edges : <<s, e>> \in P /\ f[<<s, e>>] = DelayOf[s][e]
    OBVIOUS
  <2>2. f \in [P -> D]
    OBVIOUS
  <2>3. \A d \in D : \E p \in P : f[p] = d
    <3> HIDE DEF D, f, P
    <3> SUFFICES ASSUME NEW d \in D PROVE \E p \in P : f[p] = d
      OBVIOUS
    <3>1. \E s \in PathInputs, e \in Edges : d = DelayOf[s][e]
      BY DEF D
    <3> QED BY <2>1, <3>1
  <2> HIDE DEF D, f, P
  <2> QED BY <2>2, <2>3 DEF Surjection
<1>8. IsFiniteSet(D)
  <2> HIDE DEF D, f, P
  <2> QED BY <1>4, <1>7, FS_Surjection
<1>9. PICK b \in Nat : \A x \in D : x <= b
  <2> HIDE DEF D
  <2> QED BY <1>6, <1>8, FiniteBound
<1> DEFINE E == D \cup {0}
<1>10. Max(E) \in E /\ \A x \in E : Max(E) >= x
  <2> HIDE DEF D
  <2>1. E \in SUBSET Nat /\ E # {} /\ \A x \in E : x <= b
    BY <1>6, <1>9
  <2> HIDE DEF E
  <2> QED BY <2>1, MaxOf
<1>11. LongestDelay = Max(E)
  BY DEF LongestDelay
<1>12. \A s \in PathInputs, e \in Edges : DelayOf[s][e] \in E
  OBVIOUS
<1>13. E \in SUBSET Nat
  BY <1>6
<1>14. PathTimes = 0..(MaxPathTime + LongestDelay)
  BY DEF PathTimes, LongestDelay
<1> HIDE DEF E
<1>15. LongestDelay \in Nat /\ \A x \in E : x <= LongestDelay
  BY <1>10, <1>11, <1>13
<1> QED BY <1>5, <1>12, <1>14, <1>15

LEMMA EdgeNamed ==
    ASSUME NEW a \in Levels, NEW b \in Levels
    PROVE  EdgeName(a, b) \in Edges
BY DEF EdgeName, Edges, Levels

(* The later of two times.                                                 *)
LEMMA LaterOf ==
    ASSUME NEW a \in Nat, NEW b \in Nat
    PROVE  Max({a, b}) = IF a <= b THEN b ELSE a
<1>1. {a, b} \in SUBSET Nat /\ {a, b} # {} /\ a + b \in Nat /\ \A x \in {a, b} : x <= a + b
  OBVIOUS
<1>2. Max({a, b}) \in {a, b} /\ \A x \in {a, b} : Max({a, b}) >= x
  <2> HIDE DEF Max
  <2> QED BY <1>1, MaxOf
<1> QED BY <1>2

(* The call that a new value asks for comes by the time promised.          *)
LEMMA CallInTime ==
    ASSUME PathTypeOK, NEW bit \in PathValues
    PROVE  /\ DueOf(bit) \in PathTimes
           /\ pathNow + PathDelay(bit) \in pathNow..DueOf(bit)
<1> DEFINE e == EdgeName(pathCur[1], bit[1])
           at(s) == wake[s] + DelayOf[s][e]
           left(s) == TimeLeft(s, e)
           times == {at(s) : s \in Applying}
           O == {left(s) : s \in Candidates}
<1>1. pathNow \in Nat /\ pathNow <= MaxPathTime /\ MaxPathTime \in Nat /\ Woken
  BY PathsAssumption DEF PathTypeOK, Woken
<1>2. e \in Edges
  <2>1. 1 \in 1..PathWidth
    BY PathsAssumption
  <2>2. pathCur[1] \in Levels /\ bit[1] \in Levels
    BY <2>1 DEF PathTypeOK, PathValues
  <2> QED BY <2>2, EdgeNamed
<1> HIDE DEF e
<1>3. ASSUME NEW s \in PathInputs
      PROVE  at(s) \in Nat /\ at(s) <= pathNow + LongestDelay /\ left(s) \in Nat
             /\ pathNow + left(s) = IF at(s) <= pathNow THEN pathNow ELSE at(s)
  <2>1. wake[s] \in Nat /\ wake[s] <= pathNow
    BY <1>1 DEF Woken
  <2>2. DelayOf[s][e] \in Nat /\ DelayOf[s][e] <= LongestDelay /\ LongestDelay \in Nat
    BY <1>2, DelaysOfPaths
  <2> QED BY <1>1, <2>1, <2>2 DEF TimeLeft
<1>4. Applying \in SUBSET PathInputs
  BY DEF Applying, Newest, Enabled, PathInputs
<1>5. Candidates \subseteq Applying /\ (Applying # {} => Candidates # {})
      /\ (Candidates = Applying \/ Unwoken)
  BY <1>1, RightCandidates DEF CandidatesRight
<1>6. times \in SUBSET Nat /\ (times = {} <=> Applying = {})
      /\ \A t \in times : t <= pathNow + LongestDelay
  BY <1>3, <1>4
<1>7. DueOf(bit) = IF times = {} THEN pathNow
                   ELSE Max({pathNow, IF Unwoken THEN Max(times) ELSE Min(times)})
  BY DEF DueOf, e
<1>8. PathDelay(bit) = IF Candidates = {} THEN 0 ELSE Min(O)
  <2>1. OutAt(e) = Min(O)
    BY DEF OutAt
  <2>2. PathDelay(bit) = IF Candidates = {} THEN 0 ELSE OutAt(e)
    BY DEF PathDelay, e
  <2> QED BY <2>1, <2>2
<1>9. pathNow + LongestDelay \in Nat /\ LongestDelay \in Nat
  BY <1>1, DelaysOfPaths
<1>10. CASE Applying = {}
  <2>1. DueOf(bit) = pathNow /\ PathDelay(bit) = 0
    BY <1>5, <1>6, <1>7, <1>8, <1>10
  <2> QED BY <1>1, <1>9, <2>1, DelaysOfPaths
<1>11. CASE Applying # {}
  <2> DEFINE w == IF Unwoken THEN Max(times) ELSE Min(times)
  <2>1. times # {}
    BY <1>6, <1>11
  <2>2. /\ Max(times) \in times /\ \A t \in times : Max(times) >= t
        /\ Min(times) \in times /\ \A t \in times : Min(times) <= t
    <3> HIDE DEF times
    <3> QED BY <1>6, <1>9, <2>1, MaxOf, MinOf
  <2>3. O \in SUBSET Nat /\ O # {}
    BY <1>3, <1>4, <1>5, <1>11
  <2>4. Min(O) \in O /\ \A x \in O : Min(O) <= x
    <3> HIDE DEF O
    <3> QED BY <2>3, MinOf
  <2>5. w \in times
    BY <2>2
  <2>6. w \in Nat /\ w <= pathNow + LongestDelay
    <3> HIDE DEF times, w
    <3> QED BY <1>6, <2>5
  <2>7. DueOf(bit) = IF pathNow <= w THEN w ELSE pathNow
    <3>1. DueOf(bit) = Max({pathNow, w})
      BY <1>7, <2>1
    <3> HIDE DEF w
    <3> QED BY <1>1, <2>6, <3>1, LaterOf
  <2>8. PICK s \in Candidates : at(s) <= w
    <3>1. CASE Unwoken
      <4>1. PICK s \in Candidates : s \in Applying
        BY <1>5, <1>11
      <4>2. at(s) \in times
        BY <4>1
      <4>3. at(s) <= w
        <5> HIDE DEF times, at
        <5>1. at(s) \in Nat /\ Max(times) \in Nat
          BY <1>6, <2>2, <4>2
        <5> QED BY <2>2, <3>1, <4>2, <5>1
      <4> QED BY <4>3
    <3>2. CASE ~ Unwoken
      <4>1. w \in times /\ Candidates = Applying
        BY <1>5, <2>5, <3>2
      <4>2. PICK s \in Candidates : w = at(s)
        <5> HIDE DEF w, at
        <5> QED BY <4>1
      <4>3. at(s) <= w
        <5>1. s \in PathInputs
          BY <1>4, <4>1
        <5>2. at(s) \in Nat
          BY <1>3, <5>1
        <5> HIDE DEF w, at
        <5> QED BY <4>2, <5>2
      <4> QED BY <4>3
    <3> QED BY <3>1, <3>2
  <2>9. s \in PathInputs /\ left(s) \in O
    BY <1>4, <1>5
  <2>10. Min(O) <= left(s) /\ Min(O) \in Nat
    <3> HIDE DEF O, left
    <3> QED BY <2>3, <2>4, <2>9
  <2>11. /\ at(s) \in Nat /\ left(s) \in Nat
         /\ pathNow + left(s) = IF at(s) <= pathNow THEN pathNow ELSE at(s)
    BY <1>3, <2>9
  <2>12. PathDelay(bit) = Min(O)
    BY <1>5, <1>8, <1>11
  <2> DEFINE d == DueOf(bit)
             p == PathDelay(bit)
  <2> HIDE DEF O, at, left, w, times, d, p
  <2>13. d = IF pathNow <= w THEN w ELSE pathNow
    BY <2>7 DEF d
  <2>14. p \in Nat /\ p <= left(s)
    BY <2>10, <2>12 DEF p
  <2>15. d \in Nat /\ d <= pathNow + LongestDelay /\ d <= MaxPathTime + LongestDelay
    BY <1>1, <1>9, <2>6, <2>13
  <2>16. pathNow + p <= d
    BY <1>1, <2>6, <2>8, <2>11, <2>13, <2>14
  <2>17. d \in PathTimes
    BY <1>1, <1>9, <2>15, DelaysOfPaths
  <2>18. pathNow + p \in pathNow..d
    BY <1>1, <2>14, <2>15, <2>16
  <2> QED BY <2>17, <2>18 DEF d, p
<1> QED BY <1>10, <1>11

-----------------------------------------------------------------------------
(***************************************************************************)
(* Module paths: every step keeps the invariant.                           *)
(***************************************************************************)
Coming == pathOut # pathCur => \E t \in pathNow..promised : pathCalls[t] > 0

PathNumbers ==
    /\ pathNow \in 0..MaxPathTime /\ promised \in PathTimes /\ changes \in 0..MaxChanges
    /\ pathCalls \in [PathTimes -> Nat]

PathShown ==
    /\ wake \in [PathInputs -> 0..pathNow] /\ enabled \in [PathInputs -> BOOLEAN]
    /\ old \in [PathInputs -> Levels] /\ pathCur \in PathValues /\ pathOut \in PathValues

LEMMA PathParts == PathInv => PathNumbers /\ PathShown /\ Coming
BY DEF PathInv, PathTypeOK, PathNumbers, PathShown, Coming

LEMMA PathPartsSuffice == PathNumbers' /\ PathShown' /\ Coming' => PathInv'
<1> SUFFICES ASSUME PathNumbers', PathShown', Coming' PROVE PathInv'
  OBVIOUS
<1>1. pathOut' # pathCur' => \E t \in PathTimes : t >= pathNow' /\ pathCalls'[t] > 0
  <2> SUFFICES ASSUME pathOut' # pathCur'
               PROVE  \E t \in PathTimes : t >= pathNow' /\ pathCalls'[t] > 0
    OBVIOUS
  <2>1. PICK t \in pathNow'..promised' : pathCalls'[t] > 0
    BY DEF Coming
  <2>2. t \in PathTimes
    <3>1. PathTimes = 0..(MaxPathTime + LongestDelay) /\ LongestDelay \in Nat
      BY DelaysOfPaths
    <3>2. pathNow' \in 0..MaxPathTime /\ promised' \in PathTimes /\ MaxPathTime \in Nat
      BY PathsAssumption DEF PathNumbers
    <3> QED BY <2>1, <3>1, <3>2
  <2>3. pathNow' \in Nat
    BY PathsAssumption DEF PathNumbers
  <2> QED BY <2>1, <2>2, <2>3
<1>2. PathTypeOK'
  BY <1>1 DEF PathTypeOK, PathNumbers, PathShown
<1> QED BY <1>2 DEF PathInv, Coming

LEMMA PathInitHolds == PathInit => PathInv
<1> SUFFICES ASSUME PathInit PROVE PathInv
  OBVIOUS
<1>1. PathTimes = 0..(MaxPathTime + LongestDelay) /\ LongestDelay \in Nat
  BY DelaysOfPaths
<1>2. MaxPathTime \in Nat /\ MaxChanges \in Nat /\ PathWidth \in Nat
  BY PathsAssumption
<1>3. wake \in [PathInputs -> 0..pathNow] /\ enabled \in [PathInputs -> BOOLEAN]
  BY DEF PathInit
<1>4. old \in [PathInputs -> Levels] /\ pathCur \in PathValues /\ pathOut = pathCur
  BY DEF PathInit, Levels, PathValues
<1>5. /\ pathNow \in 0..MaxPathTime /\ promised \in PathTimes /\ changes \in 0..MaxChanges
      /\ pathCalls \in [PathTimes -> Nat]
  BY <1>1, <1>2 DEF PathInit
<1> QED BY <1>3, <1>4, <1>5 DEF PathInv, PathTypeOK

LEMMA InputKeeps ==
    ASSUME PathInv, NEW s \in PathInputs, NEW bit \in Levels, Input(s, bit)
    PROVE  PathInv'
<1>1. PathNumbers /\ PathShown /\ Coming
  BY PathParts
<1>2. changes' \in 0..MaxChanges
  BY <1>1, PathsAssumption DEF Input, Change, PathNumbers
<1>3. wake' \in [PathInputs -> 0..pathNow]
  <2>1. pathNow \in 0..pathNow
    BY <1>1, PathsAssumption DEF PathNumbers
  <2> QED BY <1>1, <2>1 DEF Input, PathShown
<1>4. old' \in [PathInputs -> Levels]
  BY <1>1 DEF Input, PathShown
<1>5. UNCHANGED <<enabled, pathCur, pathOut, pathNow, pathCalls, promised>>
  BY DEF Input
<1>6. PathNumbers' /\ PathShown' /\ Coming'
  <2>1. PathNumbers'
    BY <1>1, <1>2, <1>5 DEF PathNumbers
  <2>2. PathShown'
    BY <1>1, <1>3, <1>4, <1>5 DEF PathShown
  <2>3. Coming'
    BY <1>1, <1>5 DEF Coming
  <2> QED BY <2>1, <2>2, <2>3
<1> QED BY <1>6, PathPartsSuffice

LEMMA ConditionKeeps ==
    ASSUME PathInv, NEW s \in PathInputs, NEW bit \in Levels, Condition(s, bit)
    PROVE  PathInv'
<1>1. PathNumbers /\ PathShown /\ Coming
  BY PathParts
<1>2. changes' \in 0..MaxChanges
  BY <1>1, PathsAssumption DEF Condition, Change, PathNumbers
<1>3. enabled' \in [PathInputs -> BOOLEAN]
  <2>1. (bit = "1") \in BOOLEAN
    OBVIOUS
  <2> QED BY <1>1, <2>1 DEF Condition, PathShown
<1>4. UNCHANGED <<wake, old, pathCur, pathOut, pathNow, pathCalls, promised>>
  BY DEF Condition
<1>5. PathNumbers' /\ PathShown' /\ Coming'
  <2>1. PathNumbers'
    BY <1>1, <1>2, <1>4 DEF PathNumbers
  <2>2. PathShown'
    BY <1>1, <1>3, <1>4 DEF PathShown
  <2>3. Coming'
    BY <1>1, <1>4 DEF Coming
  <2> QED BY <2>1, <2>2, <2>3
<1> QED BY <1>5, PathPartsSuffice

LEMMA PathReceiveKeeps ==
    ASSUME PathInv, NEW bit \in PathValues, PathReceive(bit)
    PROVE  PathInv'
<1> DEFINE t == pathNow + PathDelay(bit)
<1>1. PathNumbers /\ PathShown /\ Coming
  BY PathParts
<1>2. DueOf(bit) \in PathTimes /\ t \in pathNow..DueOf(bit)
  BY CallInTime DEF PathInv
<1>3. t \in PathTimes
  <2>1. PathTimes = 0..(MaxPathTime + LongestDelay) /\ LongestDelay \in Nat
    BY DelaysOfPaths
  <2>2. pathNow \in Nat /\ MaxPathTime \in Nat
    BY <1>1, PathsAssumption DEF PathNumbers
  <2> HIDE DEF t
  <2> QED BY <1>2, <2>1, <2>2
<1>4. /\ pathCur' = bit /\ promised' = DueOf(bit)
      /\ pathCalls' = [pathCalls EXCEPT ![t] = @ + 1]
      /\ UNCHANGED <<wake, enabled, old, pathOut, pathNow>>
  BY DEF PathReceive
<1>5. changes' \in 0..MaxChanges
  BY <1>1, PathsAssumption DEF PathReceive, Change, PathNumbers
<1> HIDE DEF t
<1>6. pathCalls' \in [PathTimes -> Nat] /\ pathCalls'[t] > 0
  <2>1. pathCalls[t] \in Nat /\ pathCalls \in [PathTimes -> Nat]
    BY <1>1, <1>3 DEF PathNumbers
  <2> QED BY <1>3, <1>4, <2>1
<1>7. PathNumbers' /\ PathShown'
  <2>1. PathTimes' = PathTimes
    BY DEF PathTimes
  <2> QED BY <1>1, <1>2, <1>4, <1>5, <1>6, <2>1 DEF PathNumbers, PathShown
<1>8. Coming'
  BY <1>2, <1>4, <1>6 DEF Coming
<1> QED BY <1>7, <1>8, PathPartsSuffice

LEMMA PathRunKeeps == ASSUME PathInv, PathRun PROVE PathInv'
<1>1. PathNumbers /\ PathShown /\ Coming
  BY PathParts
<1>2. /\ pathCalls[pathNow] > 0 /\ pathCalls' = [pathCalls EXCEPT ![pathNow] = @ - 1]
      /\ pathOut' = pathCur
      /\ UNCHANGED <<wake, enabled, old, pathCur, pathNow, promised, changes>>
  BY DEF PathRun
<1>3. pathCalls' \in [PathTimes -> Nat]
  <2>1. pathNow \in PathTimes
    <3>1. PathTimes = 0..(MaxPathTime + LongestDelay) /\ LongestDelay \in Nat
      BY DelaysOfPaths
    <3> QED BY <1>1, <3>1, PathsAssumption DEF PathNumbers
  <2>2. pathCalls \in [PathTimes -> Nat]
    BY <1>1 DEF PathNumbers
  <2>3. pathCalls[pathNow] - 1 \in Nat
    BY <1>2, <2>1, <2>2
  <2> QED BY <1>2, <2>1, <2>2, <2>3
<1>4. PathNumbers' /\ PathShown' /\ Coming'
  BY <1>1, <1>2, <1>3 DEF PathNumbers, PathShown, Coming, PathTimes
<1> QED BY <1>4, PathPartsSuffice

LEMMA PathAdvanceKeeps == ASSUME PathInv, PathAdvance PROVE PathInv'
<1>1. PathNumbers /\ PathShown /\ Coming
  BY PathParts
<1>2. /\ pathCalls[pathNow] = 0 /\ pathNow < MaxPathTime /\ pathNow' = pathNow + 1
      /\ UNCHANGED <<wake, enabled, old, pathCur, pathOut, pathCalls, promised, changes>>
  BY DEF PathAdvance
<1>3. pathNow \in Nat /\ MaxPathTime \in Nat /\ promised \in Nat
  <2>1. PathTimes = 0..(MaxPathTime + LongestDelay) /\ LongestDelay \in Nat
    BY DelaysOfPaths
  <2> QED BY <1>1, <2>1, PathsAssumption DEF PathNumbers
<1>4. PathNumbers'
  BY <1>1, <1>2, <1>3 DEF PathNumbers, PathTimes
<1>5. PathShown'
  <2>1. 0..pathNow \subseteq 0..pathNow'
    BY <1>2, <1>3
  <2>2. wake \in [PathInputs -> 0..pathNow']
    BY <1>1, <2>1 DEF PathShown
  <2> QED BY <1>1, <1>2, <2>2 DEF PathShown
<1>6. Coming'
  <2> SUFFICES ASSUME pathOut' # pathCur'
               PROVE  \E t \in pathNow'..promised' : pathCalls'[t] > 0
    BY DEF Coming
  <2>1. PICK t \in pathNow..promised : pathCalls[t] > 0
    BY <1>1, <1>2 DEF Coming
  <2>2. t # pathNow
    BY <1>2, <2>1
  <2>3. t \in pathNow'..promised'
    BY <1>2, <1>3, <2>1, <2>2
  <2> QED BY <1>2, <2>1, <2>3
<1> QED BY <1>4, <1>5, <1>6, PathPartsSuffice

LEMMA PathStutterKeeps == ASSUME PathInv, UNCHANGED pathVars PROVE PathInv'
<1>1. PathNumbers /\ PathShown /\ Coming
  BY PathParts
<1>2. PathNumbers' /\ PathShown' /\ Coming'
  <2>1. PathNumbers'
    BY <1>1 DEF PathNumbers, pathVars
  <2>2. PathShown'
    BY <1>1 DEF PathShown, pathVars
  <2>3. Coming'
    BY <1>1 DEF Coming, pathVars
  <2> QED BY <2>1, <2>2, <2>3
<1> QED BY <1>2, PathPartsSuffice

(* The inductive invariant of module paths, for every list of paths, every *)
(* delay and every width (delay.cc:557-676).                               *)
THEOREM PathInvariance == PathSpec => []PathInv
<1>1. ASSUME PathInv, [PathNext]_pathVars PROVE PathInv'
  <2>1. ASSUME NEW s \in PathInputs, NEW bit \in Levels, Input(s, bit) PROVE PathInv'
    BY <1>1, <2>1, InputKeeps
  <2>2. ASSUME NEW s \in PathInputs, NEW bit \in Levels, Condition(s, bit) PROVE PathInv'
    BY <1>1, <2>2, ConditionKeeps
  <2>3. ASSUME NEW bit \in PathValues, PathReceive(bit) PROVE PathInv'
    BY <1>1, <2>3, PathReceiveKeeps
  <2>4. CASE PathRun
    BY <1>1, <2>4, PathRunKeeps
  <2>5. CASE PathAdvance
    BY <1>1, <2>5, PathAdvanceKeeps
  <2>6. CASE UNCHANGED pathVars
    BY <1>1, <2>6, PathStutterKeeps
  <2> QED BY <1>1, <2>1, <2>2, <2>3, <2>4, <2>5, <2>6 DEF PathNext
<1> QED BY PathInitHolds, <1>1, PTL DEF PathSpec

(* The loops over the two lists find the paths that ought to count, however *)
(* long the lists are (delay.cc:567-606).                                  *)
THEOREM PathsAreRight == PathSpec => []CandidatesRight
<1>1. PathInv => CandidatesRight
  BY RightCandidates, PathsAssumption DEF PathInv, PathTypeOK, Woken
<1> QED BY <1>1, PathInvariance, PTL

(* Whatever inputs, conditions and the driver do meanwhile, the output has *)
(* its value by the time the paths give (delay.cc:618-676).                *)
THEOREM NeverTooLate == PathSpec => []NeverLate
<1>1. PathInv => NeverLate
  <2> SUFFICES ASSUME PathInv, pathOut # pathCur PROVE pathNow <= promised
    BY DEF NeverLate
  <2>1. PICK t \in pathNow..promised : pathCalls[t] > 0
    BY DEF PathInv
  <2>2. pathNow \in Nat /\ promised \in Nat
    <3>1. PathTimes = 0..(MaxPathTime + LongestDelay) /\ LongestDelay \in Nat
      BY DelaysOfPaths
    <3> QED BY <3>1, PathsAssumption DEF PathInv, PathTypeOK
  <2> QED BY <2>1, <2>2
<1> QED BY <1>1, PathInvariance, PTL
============================================================================
