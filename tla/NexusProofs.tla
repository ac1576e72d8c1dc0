---------------------------- MODULE NexusProofs ----------------------------
(***************************************************************************)
(* Proofs about the rings of links.                                        *)
(***************************************************************************)
EXTENDS Nexus, Lemmas

LEMMA SeqFacts ==
    ASSUME NEW s \in Seq(Links)
    PROVE  /\ Len(s) \in Nat /\ DOMAIN s = 1..Len(s)
           /\ \A i \in 1..Len(s) : s[i] \in Links /\ s[i] \in ToSet(s)
           /\ ToSet(s) \subseteq Links
           /\ \A l \in ToSet(s) : \E i \in 1..Len(s) : s[i] = l
           /\ s # <<>> <=> Len(s) >= 1
           /\ s # <<>> <=> ToSet(s) # {}
<1>1. /\ Len(s) \in Nat /\ DOMAIN s = 1..Len(s)
      /\ \A i \in 1..Len(s) : s[i] \in Links
      /\ s # <<>> <=> Len(s) >= 1
  OBVIOUS
<1>2. /\ \A i \in 1..Len(s) : s[i] \in ToSet(s)
      /\ \A l \in ToSet(s) : \E i \in 1..Len(s) : s[i] = l
  BY <1>1 DEF ToSet
<1>3. s # <<>> <=> ToSet(s) # {}
  <2>1. ASSUME s # <<>> PROVE ToSet(s) # {}
    BY <1>1, <1>2, <2>1
  <2>2. ASSUME ToSet(s) # {} PROVE s # <<>>
    BY <1>1, <1>2, <2>2
  <2> QED BY <2>1, <2>2
<1> QED BY <1>1, <1>2, <1>3

(* A sequence without repetitions is no longer than the links are many.    *)
LEMMA RingLength ==
    ASSUME LinksOK, NEW s \in Seq(Links), IsInjective(s)
    PROVE  Cardinality(Links) \in Nat /\ Len(s) <= Cardinality(Links)
<1>1. s \in [1..Len(s) -> Links] /\ Len(s) \in Nat
  OBVIOUS
<1>2. s \in Injection(1..Len(s), Links)
  BY <1>1 DEF Injection, IsInjective
<1>3. Cardinality(1..Len(s)) = Len(s)
  <2>1. /\ Len(s) \in Int /\ 1 \in Int
        /\ (IF 1 > Len(s) THEN 0 ELSE Len(s) - 1 + 1) = Len(s)
    BY <1>1
  <2> QED BY <2>1, FS_Interval
<1>4. Cardinality(1..Len(s)) <= Cardinality(Links)
  BY <1>2, FS_Injection DEF LinksOK
<1>5. Cardinality(Links) \in Nat
  BY FS_CardinalityType DEF LinksOK
<1> QED BY <1>3, <1>4, <1>5

-----------------------------------------------------------------------------
(* What walks around a ring find, of the ring s that nexus n has.          *)
LEMMA RingSteps ==
    ASSUME LinksOK, NEW n \in Links, NEW s \in Seq(Links), NEW nx, NEW nu, NEW x,
           RingIn(n, s, nx, nu, x)
    PROVE  /\ s \in Seq(Links) /\ Len(s) \in Nat /\ DOMAIN s = 1..Len(s)
           /\ s # <<>> <=> x[n].last # NoLink
           /\ s # <<>> => x[n].last = s[Len(s)] /\ nx[s[Len(s)]] = s[1]
           /\ \A i \in 1..Len(s) : s[i] \in Links /\ (s[i] = s[Len(s)] <=> i = Len(s))
           /\ \A i \in 1..(Len(s) - 1) : nx[s[i]] = s[i + 1] /\ nu[s[i]] = NoLink
           /\ s # <<>> => nu[s[Len(s)]] = n
<1>1. /\ s \in Seq(Links) /\ Len(s) \in Nat /\ DOMAIN s = 1..Len(s)
      /\ \A i \in 1..Len(s) : s[i] \in Links
      /\ s # <<>> <=> Len(s) >= 1
  BY SeqFacts DEF RingIn
<1>2. \A i \in 1..Len(s) : s[i] = s[Len(s)] <=> i = Len(s)
  <2>1. IsInjective(s)
    BY DEF RingIn
  <2>2. Len(s) >= 1 => Len(s) \in DOMAIN s
    BY <1>1
  <2>3. ASSUME NEW i \in 1..Len(s), s[i] = s[Len(s)] PROVE i = Len(s)
    <3>1. i \in DOMAIN s /\ Len(s) \in DOMAIN s
      BY <1>1
    <3> QED BY <2>1, <2>3, <3>1 DEF IsInjective
  <2> QED BY <2>3
<1>3. s # <<>> <=> x[n].last # NoLink
  BY <1>1 DEF RingIn, LinksOK
<1>4. ASSUME s # <<>>
      PROVE  x[n].last = s[Len(s)] /\ nx[s[Len(s)]] = s[1] /\ nu[s[Len(s)]] = n
  <2>1. Len(s) \in DOMAIN s
    BY <1>1, <1>4
  <2> QED BY <2>1, <1>4 DEF RingIn, After
<1>5. ASSUME NEW i \in 1..(Len(s) - 1) PROVE nx[s[i]] = s[i + 1] /\ nu[s[i]] = NoLink
  <2>1. i \in DOMAIN s /\ i # Len(s)
    OBVIOUS
  <2> QED BY <2>1 DEF RingIn, After
<1> QED BY <1>1, <1>2, <1>3, <1>4, <1>5

(* From the first link on, Ring(n) goes around s.                          *)
LEMMA RingWalk ==
    ASSUME LinksOK, NEW n \in Links, NEW s \in Seq(Links), s # <<>>,
           RingIn(n, s, next_, nexus, nexuses)
    PROVE  Ring(n) = s
<1> DEFINE C == Cardinality(Links)
           k == Len(s)
           last == nexuses[n].last
           G(i) == SubSeq(s, 1, IF i < k THEN i ELSE k)
           g == [i \in 1..C |-> G(i)]
           Body(w) == [i \in 1..C |->
                          IF i = 1 THEN <<next_[last]>>
                          ELSE LET u == w[i-1]
                               IN IF Last(u) = last THEN u ELSE Append(u, next_[Last(u)])]
           walk == CHOOSE w : w = Body(w)
<1>0. /\ k \in Nat /\ k >= 1
      /\ last = s[k] /\ next_[last] = s[1]
      /\ \A i \in 1..k : s[i] \in Links /\ (s[i] = last <=> i = k)
      /\ \A i \in 1..(k - 1) : next_[s[i]] = s[i + 1]
  <2>1. s # <<>> <=> k >= 1
    BY RingSteps, SeqFacts
  <2> QED BY RingSteps, <2>1
<1>1. C \in Nat /\ k <= C /\ C >= 1
  <2>1. IsInjective(s)
    BY DEF RingIn
  <2> QED BY <1>0, <2>1, RingLength
<1> HIDE DEF k
<1> DEFINE P(i) == SubSeq(s, 1, i)
<1>2. /\ \A i \in 1..k : P(i) \in Seq(Links) /\ P(i) # <<>> /\ Last(P(i)) = s[i]
      /\ P(1) = <<s[1]>>
      /\ \A i \in 1..(k - 1) : Append(P(i), s[i + 1]) = P(i + 1)
      /\ P(k) = s
  <2>1. ASSUME NEW i \in 1..k
        PROVE  /\ P(i) \in Seq(Links) /\ Len(P(i)) = i
               /\ \A j \in 1..i : P(i)[j] = s[j]
    BY <1>0, SubSeqProperties DEF k
  <2> HIDE DEF P
  <2>2. \A i \in 1..k : P(i) # <<>> /\ Last(P(i)) = s[i]
    BY <1>0, <2>1 DEF Last
  <2>3. P(1) = <<s[1]>>
    <3>1. /\ 1 \in 1..k /\ <<s[1]>> \in Seq(Links)
          /\ Len(<<s[1]>>) = 1 /\ \A j \in 1..1 : <<s[1]>>[j] = s[j]
      BY <1>0
    <3>2. P(1) \in Seq(Links) /\ Len(P(1)) = 1 /\ \A j \in 1..1 : P(1)[j] = s[j]
      BY <2>1, <3>1
    <3> QED BY <3>1, <3>2, SeqEqual
  <2>4. ASSUME NEW i \in 1..(k - 1) PROVE Append(P(i), s[i + 1]) = P(i + 1)
    <3>1. i \in 1..k /\ i + 1 \in 1..k
      BY <1>0
    <3> DEFINE a == P(i)
               b == P(i + 1)
    <3>2. /\ a \in Seq(Links) /\ Len(a) = i /\ \A j \in 1..i : a[j] = s[j]
          /\ b \in Seq(Links) /\ Len(b) = i + 1 /\ \A j \in 1..(i + 1) : b[j] = s[j]
      BY <2>1, <3>1
    <3> HIDE DEF a, b
    <3>3. /\ Append(a, s[i + 1]) \in Seq(Links) /\ Len(Append(a, s[i + 1])) = i + 1
          /\ \A j \in 1..i : Append(a, s[i + 1])[j] = s[j]
          /\ Append(a, s[i + 1])[i + 1] = s[i + 1]
      BY <1>0, <3>1, <3>2, AppendProperties
    <3> DEFINE d == Append(a, s[i + 1])
    <3> HIDE DEF d
    <3>4. d \in Seq(Links) /\ Len(d) = i + 1 /\ \A j \in 1..(i + 1) : d[j] = b[j]
      BY <3>1, <3>2, <3>3 DEF d
    <3>5. d = b
      BY <3>2, <3>4, SeqEqual
    <3> QED BY <3>5 DEF a, b, d
  <2>5. P(k) = s
    BY <1>0, <2>1, SeqEqual DEF k
  <2> QED BY <2>1, <2>2, <2>3, <2>4, <2>5
<1> HIDE DEF P
<1>3. g = Body(g)
  <2>1. ASSUME NEW i \in 1..C PROVE g[i] = Body(g)[i]
    <3>1. CASE i = 1
      BY <1>0, <1>1, <1>2, <3>1 DEF P, G
    <3>2. CASE i # 1 /\ i <= k
      <4>1. i - 1 \in 1..(k - 1) /\ i - 1 \in 1..C /\ i - 1 \in 1..k
            /\ (i - 1) + 1 = i /\ i - 1 < k
        BY <1>0, <1>1, <3>2
      <4>2. g[i - 1] = P(i - 1)
        BY <4>1 DEF P
      <4>3. g[i] = P(i)
        BY <3>2, <1>0 DEF P
      <4> HIDE DEF g
      <4>4. Last(g[i - 1]) = s[i - 1] /\ s[i - 1] # last
        <5>1. Last(P(i - 1)) = s[i - 1]
          BY <1>2, <4>1
        <5>2. i - 1 \in 1..k /\ i - 1 # k
          BY <1>0, <4>1
        <5> QED BY <1>0, <4>2, <5>1, <5>2
      <4>5. Append(P(i - 1), next_[s[i - 1]]) = P(i)
        BY <1>0, <1>2, <4>1
      <4> QED BY <3>2, <4>2, <4>3, <4>4, <4>5
    <3>3. CASE i > k
      <4>1. i - 1 \in 1..C /\ i - 1 >= k /\ i # 1
        BY <1>0, <1>1, <3>3
      <4>2. g[i - 1] = P(k)
        <5>1. CASE i - 1 < k
          BY <4>1, <5>1, <1>0, <1>1
        <5>2. CASE ~ (i - 1 < k)
          BY <4>1, <5>2 DEF P
        <5> QED BY <5>1, <5>2
      <4>3. g[i] = P(k)
        BY <3>3, <1>0, <1>1 DEF P
      <4> HIDE DEF g
      <4>4. Last(g[i - 1]) = last
        <5>1. k \in 1..k /\ Last(P(k)) = s[k]
          BY <1>0, <1>2
        <5> QED BY <1>0, <4>2, <5>1
      <4> QED BY <4>1, <4>2, <4>3, <4>4
    <3>4. i = 1 \/ (i # 1 /\ i <= k) \/ i > k
      BY <1>0, <1>1
    <3> HIDE DEF g, Body
    <3> QED BY <3>1, <3>2, <3>3, <3>4
  <2>3. g = [i \in 1..C |-> g[i]] /\ Body(g) = [i \in 1..C |-> Body(g)[i]]
    <3> HIDE DEF G
    <3> QED OBVIOUS
  <2> HIDE DEF g, Body
  <2> QED BY <2>1, <2>3
<1>4. walk = Body(walk)
  <2> HIDE DEF g, Body
  <2> QED BY <1>3
<1>5. g[C] = s
  BY <1>0, <1>1, <1>2 DEF P
<1> DEFINE S == {j \in Nat : j + 1 \in 1..C => walk[j + 1] = g[j + 1]}
<1>6. \A w : DOMAIN Body(w) = 1..C
  OBVIOUS
<1>7. ASSUME NEW i \in 1..C, i # 1, NEW w, NEW v, w[i - 1] = v[i - 1]
      PROVE  Body(w)[i] = Body(v)[i]
  BY <1>7
<1>8. \A w, v : 1 \in 1..C => Body(w)[1] = Body(v)[1]
  OBVIOUS
<1> HIDE DEF g, Body, walk
<1>9. 0 \in S
  BY <1>3, <1>4, <1>8
<1>10. ASSUME NEW j \in Nat, j \in S PROVE j + 1 \in S
  <2>1. SUFFICES ASSUME (j + 1) + 1 \in 1..C
                 PROVE  walk[(j + 1) + 1] = g[(j + 1) + 1]
    OBVIOUS
  <2>2. j + 1 \in 1..C /\ (j + 1) + 1 # 1 /\ ((j + 1) + 1) - 1 = j + 1
    BY <1>1, <2>1
  <2>3. walk[j + 1] = g[j + 1]
    BY <1>10, <2>2
  <2>4. Body(walk)[(j + 1) + 1] = Body(g)[(j + 1) + 1]
    BY <1>7, <2>1, <2>2, <2>3
  <2> QED BY <1>3, <1>4, <2>4
<1> HIDE DEF S
<1>11. Nat \subseteq S
  BY <1>9, <1>10, NatIsInductive
<1>12. walk[C] = g[C]
  <2>1. C - 1 \in Nat /\ (C - 1) + 1 = C /\ C \in 1..C
    BY <1>1
  <2> QED BY <1>11, <2>1 DEF S
<1> QED BY <1>5, <1>12 DEF Ring, walk, Body

(* From every link of s, FindNexus goes on to the last one.                *)
LEMMA FindWalk ==
    ASSUME LinksOK, NEW n \in Links, NEW s \in Seq(Links),
           RingIn(n, s, next_, nexus, nexuses), NEW l \in ToSet(s)
    PROVE  FindNexus(l) = n
<1> DEFINE C == Cardinality(Links)
           k == Len(s)
           Body(w) == [i \in 0..C |->
                          IF i = 0 THEN l
                          ELSE LET m == w[i-1] IN IF nexus[m] # NoLink THEN m ELSE next_[m]]
           walk == CHOOSE w : w = Body(w)
<1>0. PICK p \in 1..k : s[p] = l
  BY SeqFacts
<1>1. /\ k \in Nat /\ k >= 1
      /\ nexus[s[k]] = n /\ n # NoLink
      /\ \A i \in 1..(k - 1) : next_[s[i]] = s[i + 1] /\ nexus[s[i]] = NoLink
  <2>1. s # <<>> /\ k \in Nat /\ k >= 1
    BY <1>0
  <2> QED BY RingSteps, <2>1 DEF LinksOK
<1>2. C \in Nat /\ k <= C
  <2>1. IsInjective(s)
    BY DEF RingIn
  <2> QED BY <2>1, RingLength
<1> HIDE DEF k
<1> DEFINE G(i) == s[IF p + i < k THEN p + i ELSE k]
           g == [i \in 0..C |-> G(i)]
<1>3. G(0) = l /\ G(C) = s[k]
  <2>1. p + 0 = p /\ (p < k \/ p = k) /\ ~ (p + C < k)
    BY <1>1, <1>2
  <2> QED BY <1>0, <2>1
<1>4. ASSUME NEW i \in 1..C
      PROVE  IF nexus[G(i - 1)] # NoLink THEN G(i) = G(i - 1) ELSE G(i) = next_[G(i - 1)]
  <2>0. i - 1 \in Nat /\ p + i \in Nat /\ p + (i - 1) = (p + i) - 1
    BY <1>1, <1>2
  <2>1. CASE p + (i - 1) < k
    <3> DEFINE q == p + (i - 1)
    <3>1. q \in 1..(k - 1) /\ q + 1 = p + i
      BY <1>1, <2>0, <2>1
    <3>2. G(i - 1) = s[q]
      BY <2>1
    <3>3. G(i) = s[q + 1]
      <4>1. CASE p + i < k
        BY <3>1, <4>1
      <4>2. CASE ~ (p + i < k)
        <5>1. q + 1 = k
          BY <1>1, <2>0, <2>1, <3>1, <4>2
        <5> QED BY <4>2, <5>1
      <4> QED BY <4>1, <4>2
    <3> HIDE DEF q, G
    <3> QED BY <1>1, <3>1, <3>2, <3>3
  <2>2. CASE ~ (p + (i - 1) < k)
    <3>1. ~ (p + i < k)
      BY <1>1, <2>0, <2>2
    <3>2. G(i - 1) = s[k] /\ G(i) = s[k]
      BY <2>2, <3>1
    <3> HIDE DEF G
    <3> QED BY <1>1, <3>2
  <2> QED BY <2>1, <2>2
<1> HIDE DEF G
<1>5. g = Body(g)
  <2>1. ASSUME NEW i \in 0..C PROVE g[i] = Body(g)[i]
    <3>1. CASE i = 0
      BY <1>3, <3>1
    <3>2. CASE i # 0
      <4>1. i \in 1..C /\ i - 1 \in 0..C
        BY <1>2, <3>2
      <4> QED BY <1>4, <3>2, <4>1
    <3> QED BY <3>1, <3>2
  <2>2. g = [i \in 0..C |-> g[i]] /\ Body(g) = [i \in 0..C |-> Body(g)[i]]
    OBVIOUS
  <2> HIDE DEF g, Body
  <2> QED BY <2>1, <2>2
<1>6. walk = Body(walk)
  <2> HIDE DEF g, Body
  <2> QED BY <1>5
<1>7. g[C] = s[k]
  BY <1>2, <1>3
<1> DEFINE S == {j \in Nat : j \in 0..C => walk[j] = g[j]}
<1>8. ASSUME NEW i \in 0..C, i # 0, NEW w, NEW v, w[i - 1] = v[i - 1]
      PROVE  Body(w)[i] = Body(v)[i]
  BY <1>8
<1>9. \A w, v : 0 \in 0..C => Body(w)[0] = Body(v)[0]
  OBVIOUS
<1> HIDE DEF g, Body, walk
<1>10. 0 \in S
  BY <1>5, <1>6, <1>9
<1>11. ASSUME NEW j \in Nat, j \in S PROVE j + 1 \in S
  <2>1. SUFFICES ASSUME j + 1 \in 0..C PROVE walk[j + 1] = g[j + 1]
    OBVIOUS
  <2>2. j \in 0..C /\ j + 1 # 0 /\ (j + 1) - 1 = j
    BY <1>2, <2>1
  <2>3. walk[j] = g[j]
    BY <1>11, <2>2
  <2>4. Body(walk)[j + 1] = Body(g)[j + 1]
    BY <1>8, <2>1, <2>2, <2>3
  <2> QED BY <1>5, <1>6, <2>4
<1> HIDE DEF S
<1>12. Nat \subseteq S
  BY <1>10, <1>11, NatIsInductive
<1>13. walk[C] = g[C]
  BY <1>2, <1>12 DEF S
<1>14. nexus[walk[C]] = n
  BY <1>1, <1>7, <1>13
<1> QED BY <1>14 DEF FindNexus, walk, Body

-----------------------------------------------------------------------------
(* What the invariant says, and that RingsAreNets follows from it.         *)
Sorted(R) ==
    /\ R \in [Links -> Seq(Links)]
    /\ RingsIn(R, next_, nexus, nexuses, nets)

LEMMA RingsFound ==
    ASSUME LinksOK, NEW R, Sorted(R)
    PROVE  /\ Rings = R
           /\ \A n \in Links : Exists(n) <=> R[n] # <<>>
           /\ \A n \in Links : Exists(n) => Ring(n) = R[n]
           /\ \A n \in Links : \A l \in ToSet(R[n]) : FindNexus(l) = n
<1>1. ASSUME NEW n \in Links
      PROVE  /\ Exists(n) <=> R[n] # <<>>
             /\ Exists(n) => Ring(n) = R[n]
             /\ \A l \in ToSet(R[n]) : FindNexus(l) = n
  <2>1. R[n] \in Seq(Links) /\ RingIn(n, R[n], next_, nexus, nexuses)
    BY DEF Sorted, RingsIn
  <2>2. Exists(n) <=> R[n] # <<>>
    BY <2>1, RingSteps DEF Exists
  <2>3. ASSUME Exists(n) PROVE Ring(n) = R[n]
    BY <2>1, <2>2, <2>3, RingWalk
  <2>4. ASSUME NEW l \in ToSet(R[n]) PROVE FindNexus(l) = n
    BY <2>1, FindWalk
  <2> QED BY <2>2, <2>3, <2>4
<1>2. Rings = R
  <2>1. \A n \in Links : Rings[n] = R[n]
    BY <1>1 DEF Rings
  <2>2. R = [n \in Links |-> R[n]] /\ Rings = [n \in Links |-> Rings[n]]
    BY DEF Sorted, Rings
  <2> QED BY <2>1, <2>2
<1> QED BY <1>1, <1>2

LEMMA RingsFollow ==
    ASSUME LinksOK, NexusTypeOK, NEW R, Sorted(R)
    PROVE  NexusInv /\ RingsAreNets
<1> DEFINE E == {n \in Links : Exists(n)}
<1>1. /\ \A n \in Links : Exists(n) <=> R[n] # <<>>
      /\ \A n \in Links : Exists(n) => Ring(n) = R[n]
      /\ \A n \in Links : \A l \in ToSet(R[n]) : FindNexus(l) = n
      /\ Rings = R
  BY RingsFound
<1>2. /\ \A n \in Links : R[n] \in Seq(Links) /\ RingIn(n, R[n], next_, nexus, nexuses)
      /\ \A n, m \in Links : n # m => ToSet(R[n]) \cap ToSet(R[m]) = {}
      /\ \A l \in Links : (\A n \in Links : l \notin ToSet(R[n])) => next_[l] = NoLink /\ nexus[l] = NoLink
      /\ nets = {ToSet(R[n]) : n \in {m \in Links : R[m] # <<>>}}
  BY DEF Sorted, RingsIn
<1>3. NexusInv
  BY <1>1 DEF NexusInv, Sorted
<1>4. \A s : s \in nets <=> \E n \in E : s = ToSet(R[n])
  BY <1>1, <1>2
<1>5. {ToSet(Ring(n)) : n \in E} = nets
  <2>1. ASSUME NEW s PROVE s \in {ToSet(Ring(n)) : n \in E} <=> s \in nets
    <3>1. \A n \in E : ToSet(Ring(n)) = ToSet(R[n])
      BY <1>1
    <3> HIDE DEF E
    <3> QED BY <1>4, <3>1
  <2> HIDE DEF E
  <2> QED BY <2>1
<1>6. Cardinality(E) = Cardinality(nets)
  <2> DEFINE f == [n \in E |-> ToSet(R[n])]
  <2>1. f \in [E -> nets] /\ \A s \in nets : \E n \in E : f[n] = s
    <3> HIDE DEF E
    <3> QED BY <1>4
  <2>2. ASSUME NEW n \in E, NEW m \in E, f[n] = f[m] PROVE n = m
    <3>1. n \in Links /\ m \in Links /\ ToSet(R[n]) = ToSet(R[m]) /\ R[n] # <<>>
      BY <1>1, <2>2
    <3>2. ToSet(R[n]) # {}
      BY <1>2, <3>1, SeqFacts
    <3> QED BY <1>2, <3>1, <3>2
  <2> HIDE DEF f
  <2>3. f \in Bijection(E, nets)
    <3> HIDE DEF E
    <3> QED BY <2>1, <2>2 DEF Bijection, Injection, Surjection, IsInjective
  <2>4. IsFiniteSet(E)
    <3>1. E \in SUBSET Links
      OBVIOUS
    <3> HIDE DEF E
    <3> QED BY <3>1, FS_Subset DEF LinksOK
  <2>5. ExistsBijection(E, nets)
    BY <2>3 DEF ExistsBijection
  <2> HIDE DEF E
  <2> QED BY <2>4, <2>5, FS_Bijection
<1>7. ASSUME NEW l \in Links
      PROVE  /\ Connected(l) <=> \E s \in nets : l \in s
             /\ Connected(l) => Exists(FindNexus(l)) /\ l \in ToSet(Ring(FindNexus(l)))
             /\ nexus[l] # NoLink => Connected(l) /\ nexuses[nexus[l]].last = l
  <2>1. CASE \A n \in Links : l \notin ToSet(R[n])
    <3>1. ~ Connected(l) /\ nexus[l] = NoLink
      BY <1>2, <2>1 DEF Connected
    <3>2. ~ \E s \in nets : l \in s
      BY <1>4, <2>1
    <3> QED BY <3>1, <3>2
  <2>2. CASE \E n \in Links : l \in ToSet(R[n])
    <3>1. PICK n \in Links : l \in ToSet(R[n])
      BY <2>2
    <3>2. R[n] \in Seq(Links) /\ RingIn(n, R[n], next_, nexus, nexuses)
      BY <1>2
    <3> DEFINE s == R[n]
    <3> HIDE DEF s
    <3>3. s \in Seq(Links) /\ RingIn(n, s, next_, nexus, nexuses) /\ l \in ToSet(s)
      BY <3>1, <3>2 DEF s
    <3>4. PICK i \in 1..Len(s) : s[i] = l
      BY <3>3, SeqFacts
    <3>5. /\ \A j \in 1..(Len(s) - 1) : next_[s[j]] = s[j + 1] /\ nexus[s[j]] = NoLink
          /\ \A j \in 1..Len(s) : s[j] \in Links
          /\ s # <<>> => /\ nexuses[n].last = s[Len(s)]
                         /\ next_[s[Len(s)]] = s[1]
                         /\ nexus[s[Len(s)]] = n
          /\ s # <<>> <=> Len(s) >= 1
          /\ Len(s) \in Nat
      BY <3>3, RingSteps, SeqFacts
    <3>6. s # <<>>
      BY <3>3, <3>4, <3>5
    <3>7. Connected(l) /\ (nexus[l] # NoLink => nexus[l] = n /\ nexuses[n].last = l)
      <4>1. CASE i = Len(s)
        <5>1. 1 \in 1..Len(s)
          BY <3>3, <3>4
        <5>2. s[1] \in Links
          BY <3>5, <5>1
        <5> QED BY <3>4, <3>5, <3>6, <4>1, <5>2 DEF Connected, LinksOK
      <4>2. CASE i # Len(s)
        <5>1. i \in 1..(Len(s) - 1) /\ i + 1 \in 1..Len(s)
          BY <3>3, <3>4, <4>2
        <5>2. next_[l] = s[i + 1] /\ nexus[l] = NoLink /\ s[i + 1] \in Links
          BY <3>4, <3>5, <5>1
        <5> QED BY <5>2 DEF Connected, LinksOK
      <4> QED BY <4>1, <4>2
    <3>8. FindNexus(l) = n /\ Exists(n) /\ Ring(n) = R[n]
      BY <1>1, <3>1, <3>6 DEF s
    <3>9. \E t \in nets : l \in t
      BY <1>4, <3>1, <3>8
    <3> QED BY <3>1, <3>7, <3>8, <3>9
  <2> QED BY <2>1, <2>2
<1>8. ASSUME NEW n \in Links, Exists(n), nexuses[n].guess # "none"
      PROVE  nexuses[n].guess \in ConstantsOf(ToSet(Ring(n)))
  BY <1>1, <1>2, <1>8 DEF RingIn
<1> HIDE DEF E
<1> QED BY <1>3, <1>5, <1>6, <1>7, <1>8 DEF RingsAreNets, E

-----------------------------------------------------------------------------
(* How rings are made and changed.                                         *)
Chained(s, nx, nu) ==
    \A i \in 1..(Len(s) - 1) : nx[s[i]] = s[i + 1] /\ nu[s[i]] = NoLink

Closed(n, s, nx, nu, x) ==
    /\ nx[s[Len(s)]] = s[1] /\ nu[s[Len(s)]] = n
    /\ x[n].last = s[Len(s)]
    /\ x[n].guess \in {"none"} \cup ConstantsOf(ToSet(s))

LEMMA RingMade ==
    ASSUME NEW n, NEW s \in Seq(Links), NEW nx, NEW nu, NEW x, s # <<>>, IsInjective(s),
           Chained(s, nx, nu), Closed(n, s, nx, nu, x)
    PROVE  RingIn(n, s, nx, nu, x)
<1>1. ASSUME NEW i \in DOMAIN s
      PROVE  nx[s[i]] = After(s, i) /\ nu[s[i]] = IF i = Len(s) THEN n ELSE NoLink
  <2>1. CASE i = Len(s)
    BY <2>1 DEF After, Closed
  <2>2. CASE i # Len(s)
    <3>1. i \in 1..(Len(s) - 1)
      BY <2>2
    <3> QED BY <2>2, <3>1 DEF After, Chained
  <2> QED BY <2>1, <2>2
<1>2. s \in Seq(Links) /\ IsInjective(s) /\ x[n].last = IF s = <<>> THEN NoLink ELSE s[Len(s)]
  BY DEF Closed
<1>3. x[n].guess \in {"none"} \cup ConstantsOf(ToSet(s))
  BY DEF Closed
<1> QED BY <1>1, <1>2, <1>3 DEF RingIn

LEMMA NoRing ==
    ASSUME NEW n, NEW nx, NEW nu, NEW x, x[n].last = NoLink
    PROVE  RingIn(n, <<>>, nx, nu, x)
<1>1. <<>> \in Seq(Links) /\ DOMAIN <<>> = {}
  OBVIOUS
<1> QED BY <1>1 DEF RingIn, IsInjective

Same(S, f, g) == \A l \in S : g[l] = f[l]

LEMMA RingKept ==
    ASSUME NEW n, NEW s \in Seq(Links), NEW nx, NEW nu, NEW x, RingIn(n, s, nx, nu, x),
           NEW nx2, NEW nu2, NEW x2, x2[n] = x[n],
           Same(ToSet(s), nx, nx2), Same(ToSet(s), nu, nu2)
    PROVE  RingIn(n, s, nx2, nu2, x2)
<1>1. \A i \in DOMAIN s : s[i] \in ToSet(s)
  BY SeqFacts
<1>2. \A i \in DOMAIN s : nx2[s[i]] = nx[s[i]] /\ nu2[s[i]] = nu[s[i]]
  BY <1>1 DEF Same
<1> QED BY <1>2 DEF RingIn

(* Only the rings of the nexuses D are others than before.                 *)
Changed(R, Q, D) ==
    /\ \A n \in Links \ D : Q[n] = R[n] /\ nexuses'[n] = nexuses[n]
    /\ \A n \in Links \ D : \A l \in ToSet(R[n]) : next_'[l] = next_[l] /\ nexus'[l] = nexus[l]
    /\ \A n \in D : RingIn(n, Q[n], next_', nexus', nexuses')
    /\ \A n, m \in D : n # m => ToSet(Q[n]) \cap ToSet(Q[m]) = {}
    /\ \A n \in D : \A m \in Links \ D : ToSet(Q[n]) \cap ToSet(R[m]) = {}
    /\ \A l \in Links : (\A n \in Links : l \notin ToSet(Q[n])) =>
                            next_'[l] = NoLink /\ nexus'[l] = NoLink
    /\ nets' = (nets \ {ToSet(R[n]) : n \in D}) \cup ({ToSet(Q[n]) : n \in D} \ {{}})

LEMMA Rewired ==
    ASSUME NEW R, Sorted(R), NEW Q \in [Links -> Seq(Links)], NEW D \in SUBSET Links,
           Changed(R, Q, D)
    PROVE  Sorted(Q)'
<1>1. /\ \A n \in Links : R[n] \in Seq(Links) /\ RingIn(n, R[n], next_, nexus, nexuses)
      /\ \A n, m \in Links : n # m => ToSet(R[n]) \cap ToSet(R[m]) = {}
      /\ nets = {ToSet(R[n]) : n \in {m \in Links : R[m] # <<>>}}
  BY DEF Sorted, RingsIn
<1>2. ASSUME NEW n \in Links PROVE RingIn(n, Q[n], next_', nexus', nexuses')
  <2>1. CASE n \in D
    BY <2>1 DEF Changed
  <2>2. CASE n \notin D
    <3>1. Q[n] = R[n] /\ nexuses'[n] = nexuses[n]
      BY <2>2 DEF Changed
    <3>2. Same(ToSet(R[n]), next_, next_') /\ Same(ToSet(R[n]), nexus, nexus')
      BY <2>2 DEF Changed, Same
    <3>3. R[n] \in Seq(Links) /\ RingIn(n, R[n], next_, nexus, nexuses)
      BY <1>1
    <3> QED BY <3>1, <3>2, <3>3, RingKept
  <2> QED BY <2>1, <2>2
<1>3. ASSUME NEW n \in Links, NEW m \in Links, n # m
      PROVE  ToSet(Q[n]) \cap ToSet(Q[m]) = {}
  <2>1. CASE n \in D /\ m \in D
    BY <1>3, <2>1 DEF Changed
  <2>2. CASE n \in D /\ m \notin D
    BY <2>2 DEF Changed
  <2>3. CASE n \notin D /\ m \in D
    BY <2>3 DEF Changed
  <2>4. CASE n \notin D /\ m \notin D
    BY <1>1, <1>3, <2>4 DEF Changed
  <2> QED BY <2>1, <2>2, <2>3, <2>4
<1>4. \A n \in Links : /\ Q[n] \in Seq(Links) /\ (Q[n] # <<>> <=> ToSet(Q[n]) # {})
                       /\ R[n] # <<>> <=> ToSet(R[n]) # {}
  BY <1>1, SeqFacts
<1>5. ASSUME NEW s
      PROVE  s \in nets' <=> \E n \in Links : Q[n] # <<>> /\ s = ToSet(Q[n])
  <2>1. s \in nets <=> \E n \in Links : R[n] # <<>> /\ s = ToSet(R[n])
    BY <1>1
  <2>2. s \in nets' <=> \/ s \in nets /\ (\A n \in D : s # ToSet(R[n]))
                        \/ s # {} /\ (\E n \in D : s = ToSet(Q[n]))
    BY DEF Changed
  <2>3. ASSUME s \in nets, \A n \in D : s # ToSet(R[n])
        PROVE  \E n \in Links : Q[n] # <<>> /\ s = ToSet(Q[n])
    <3>1. PICK n \in Links : R[n] # <<>> /\ s = ToSet(R[n])
      BY <2>1, <2>3
    <3>2. n \notin D
      BY <2>3, <3>1
    <3> QED BY <3>1, <3>2 DEF Changed
  <2>4. ASSUME s # {}, \E n \in D : s = ToSet(Q[n])
        PROVE  \E n \in Links : Q[n] # <<>> /\ s = ToSet(Q[n])
    BY <1>4, <2>4
  <2>5. ASSUME NEW n \in Links, Q[n] # <<>>, s = ToSet(Q[n]) PROVE s \in nets'
    <3>1. CASE n \in D
      BY <1>4, <2>2, <2>5, <3>1
    <3>2. CASE n \notin D
      <4>1. s = ToSet(R[n]) /\ R[n] # <<>> /\ s # {}
        BY <1>4, <2>5, <3>2 DEF Changed
      <4>2. ASSUME NEW m \in D PROVE s # ToSet(R[m])
        <5>1. m # n /\ m \in Links
          BY <3>2
        <5>2. ToSet(R[n]) \cap ToSet(R[m]) = {}
          BY <1>1, <5>1
        <5> QED BY <4>1, <5>2
      <4> QED BY <2>1, <2>2, <4>1, <4>2
    <3> QED BY <3>1, <3>2
  <2> QED BY <2>2, <2>3, <2>4, <2>5
<1>6. nets' = {ToSet(Q[n]) : n \in {m \in Links : Q[m] # <<>>}}
  BY <1>5
<1>7. \A l \in Links : (\A n \in Links : l \notin ToSet(Q[n])) => next_'[l] = NoLink /\ nexus'[l] = NoLink
  BY DEF Changed
<1>8. RingsIn(Q, next_', nexus', nexuses', nets')
  BY <1>2, <1>3, <1>6, <1>7 DEF RingsIn
<1> QED BY <1>8 DEF Sorted

(* A link is in one ring, or not connected; and then some nexus is free.   *)
LEMMA LinkFacts ==
    ASSUME LinksOK, NexusTypeOK, NEW R, Sorted(R), NEW l \in Links
    PROVE  /\ Connected(l) <=> \E n \in Links : l \in ToSet(R[n])
           /\ \A n \in Links : l \in ToSet(R[n]) =>
                 /\ NetOf(l) = ToSet(R[n]) /\ FindNexus(l) = n
                 /\ R[n] # <<>> /\ Exists(n)
                 /\ \A m \in Links : l \in ToSet(R[m]) => m = n
           /\ ~ Connected(l) => NetOf(l) = {l} /\ {l} \notin nets
           /\ next_[l] \in Links \cup {NoLink}
<1>1. /\ \A n \in Links : R[n] \in Seq(Links)
      /\ \A n, m \in Links : n # m => ToSet(R[n]) \cap ToSet(R[m]) = {}
      /\ nets = {ToSet(R[n]) : n \in {m \in Links : R[m] # <<>>}}
  BY DEF Sorted, RingsIn
<1>2. /\ \A n \in Links : Exists(n) <=> R[n] # <<>>
      /\ \A n \in Links : \A k \in ToSet(R[n]) : FindNexus(k) = n
  BY RingsFound
<1>3. \A n \in Links : R[n] # <<>> <=> ToSet(R[n]) # {}
  BY <1>1, SeqFacts
<1>4. \A s : s \in nets <=> \E n \in Links : R[n] # <<>> /\ s = ToSet(R[n])
  BY <1>1
<1>5. Connected(l) <=> \E s \in nets : l \in s
  BY RingsFollow DEF RingsAreNets
<1>6. Connected(l) <=> \E n \in Links : l \in ToSet(R[n])
  BY <1>3, <1>4, <1>5
<1>7. ASSUME NEW n \in Links, l \in ToSet(R[n])
      PROVE  /\ NetOf(l) = ToSet(R[n]) /\ FindNexus(l) = n
             /\ R[n] # <<>> /\ Exists(n)
             /\ \A m \in Links : l \in ToSet(R[m]) => m = n
  <2>1. \A m \in Links : l \in ToSet(R[m]) => m = n
    BY <1>1, <1>7
  <2>2. R[n] # <<>>
    BY <1>3, <1>7
  <2>3. ToSet(R[n]) \in nets /\ \A t \in nets : l \in t => t = ToSet(R[n])
    BY <1>4, <2>1, <2>2
  <2>4. NetOf(l) = ToSet(R[n])
    <3> DEFINE P(s) == s \in nets \cup {{l}} /\ l \in s /\ (\A t \in nets : l \in t => s = t)
    <3>1. P(ToSet(R[n])) /\ \A s : P(s) => s = ToSet(R[n])
      BY <1>7, <2>3
    <3>2. NetOf(l) = CHOOSE s \in nets \cup {{l}} : l \in s /\ (\A t \in nets : l \in t => s = t)
      BY DEF NetOf
    <3>3. P(NetOf(l))
      BY <3>1, <3>2
    <3> QED BY <3>1, <3>3
  <2> QED BY <1>2, <1>7, <2>1, <2>2, <2>4
<1>8. ASSUME ~ Connected(l) PROVE NetOf(l) = {l} /\ {l} \notin nets
  <2>1. \A t \in nets : l \notin t
    BY <1>5, <1>8
  <2> DEFINE P(s) == s \in nets \cup {{l}} /\ l \in s /\ (\A t \in nets : l \in t => s = t)
  <2>2. P({l}) /\ \A s : P(s) => s = {l}
    BY <2>1
  <2>3. NetOf(l) = CHOOSE s \in nets \cup {{l}} : l \in s /\ (\A t \in nets : l \in t => s = t)
    BY DEF NetOf
  <2>4. P(NetOf(l))
    BY <2>2, <2>3
  <2> QED BY <2>1, <2>2, <2>4
<1>9. next_[l] \in Links \cup {NoLink}
  BY DEF NexusTypeOK
<1> QED BY <1>6, <1>7, <1>8, <1>9

LEMMA FreeNexusExists ==
    ASSUME LinksOK, NexusTypeOK, NEW R, Sorted(R), NEW l \in Links, ~ Connected(l)
    PROVE  FreeNexus \in Links /\ ~ Exists(FreeNexus) /\ R[FreeNexus] = <<>>
<1>1. \A n \in Links : Exists(n) <=> R[n] # <<>>
  BY RingsFound
<1>2. /\ \A n \in Links : R[n] \in Seq(Links) /\ RingIn(n, R[n], next_, nexus, nexuses)
      /\ \A n, m \in Links : n # m => ToSet(R[n]) \cap ToSet(R[m]) = {}
  BY DEF Sorted, RingsIn
<1>3. \A n \in Links : l \notin ToSet(R[n])
  BY LinkFacts
<1>4. \E n \in Links : ~ Exists(n)
  <2> SUFFICES ASSUME \A n \in Links : Exists(n) PROVE FALSE
    OBVIOUS
  <2> DEFINE f == [n \in Links |-> nexuses[n].last]
  <2>1. ASSUME NEW n \in Links PROVE f[n] \in ToSet(R[n]) /\ f[n] \in Links \ {l}
    <3>1. R[n] # <<>> /\ R[n] \in Seq(Links) /\ RingIn(n, R[n], next_, nexus, nexuses)
      BY <1>1, <1>2
    <3>2. nexuses[n].last = R[n][Len(R[n])]
      BY <3>1 DEF RingIn
    <3>3. Len(R[n]) \in 1..Len(R[n])
      BY <3>1
    <3>4. nexuses[n].last \in ToSet(R[n]) /\ nexuses[n].last \in Links
      BY <3>1, <3>2, <3>3, SeqFacts
    <3> QED BY <1>3, <3>4
  <2>2. f \in [Links -> Links \ {l}]
    BY <2>1
  <2>3. IsFiniteSet(Links) /\ IsFiniteSet(Links \ {l}) /\ Cardinality(Links \ {l}) < Cardinality(Links)
    <3>1. IsFiniteSet(Links)
      BY DEF LinksOK
    <3>2. IsFiniteSet(Links \ {l}) /\ Cardinality(Links \ {l}) = Cardinality(Links) - 1
      BY <3>1, FS_RemoveElement
    <3>3. Cardinality(Links) \in Nat
      BY <3>1, FS_CardinalityType
    <3> QED BY <3>1, <3>2, <3>3
  <2> HIDE DEF f
  <2>4. \E n, m \in Links : n # m /\ f[n] = f[m]
    BY <2>2, <2>3, FS_PigeonHole
  <2> QED BY <1>2, <2>1, <2>4
<1>5. FreeNexus \in Links /\ ~ Exists(FreeNexus)
  BY <1>4 DEF FreeNexus
<1> QED BY <1>1, <1>5

-----------------------------------------------------------------------------
(* The invariant as the proof uses it, with the rings as a witness.        *)
Typed ==
    /\ next_ \in [Links -> Links \cup {NoLink}] /\ nexus \in [Links -> Links \cup {NoLink}]
    /\ nexuses \in [Links -> [last : Links \cup {NoLink},
                              guess : Guesses]]

Sound == Typed /\ \E R : Sorted(R)

LEMMA SoundIsTyped ==
    ASSUME Typed, NEW R, Sorted(R)
    PROVE  NexusTypeOK
<1>1. nets = {ToSet(R[n]) : n \in {m \in Links : R[m] # <<>>}} /\ \A n \in Links : R[n] \in Seq(Links)
  BY DEF Sorted, RingsIn
<1>2. \A n \in Links : ToSet(R[n]) \subseteq Links
  BY <1>1, SeqFacts
<1>3. UNION nets \subseteq Links
  BY <1>1, <1>2
<1> QED BY <1>3 DEF NexusTypeOK, Typed

(* One nexus has another ring: links that were in it are connected still   *)
(* or not at all, and links were added that were not connected.            *)
OneChange(R, n, s) ==
    /\ RingIn(n, s, next_', nexus', nexuses')
    /\ \A m \in Links \ {n} : nexuses'[m] = nexuses[m]
    /\ \A l \in Links : l \notin ToSet(R[n]) /\ l \notin ToSet(s) =>
          next_'[l] = next_[l] /\ nexus'[l] = nexus[l]
    /\ \A l \in ToSet(s) : l \in ToSet(R[n]) \/ ~ Connected(l)
    /\ \A l \in ToSet(R[n]) : l \notin ToSet(s) => next_'[l] = NoLink /\ nexus'[l] = NoLink
    /\ nets' = (nets \ {ToSet(R[n])}) \cup ({ToSet(s)} \ {{}})

LEMMA OneRing ==
    ASSUME LinksOK, NexusTypeOK, NEW R, Sorted(R), NEW n \in Links, NEW s \in Seq(Links),
           OneChange(R, n, s), Typed'
    PROVE  Sound'
<1> DEFINE Q == [R EXCEPT ![n] = s]
<1>0. R \in [Links -> Seq(Links)]
  BY DEF Sorted
<1>1. Q \in [Links -> Seq(Links)] /\ Q[n] = s /\ \A m \in Links \ {n} : Q[m] = R[m]
  BY <1>0
<1> HIDE DEF Q
<1>2. /\ \A m \in Links : R[m] \in Seq(Links)
      /\ \A m, k \in Links : m # k => ToSet(R[m]) \cap ToSet(R[k]) = {}
      /\ \A l \in Links : (\A m \in Links : l \notin ToSet(R[m])) => next_[l] = NoLink /\ nexus[l] = NoLink
  BY DEF Sorted, RingsIn
<1>3. /\ ToSet(s) \subseteq Links
      /\ \A m \in Links : ToSet(R[m]) \subseteq Links
  BY <1>2, SeqFacts
<1>4. ASSUME NEW m \in Links \ {n} PROVE ToSet(s) \cap ToSet(R[m]) = {}
  <2>1. SUFFICES ASSUME NEW l \in ToSet(s), l \in ToSet(R[m]) PROVE FALSE
    OBVIOUS
  <2>2. l \notin ToSet(R[n])
    BY <1>2, <2>1
  <2>3. l \in Links /\ ~ Connected(l)
    BY <1>3, <2>2 DEF OneChange
  <2> QED BY <2>1, <2>3, LinkFacts
<1>5. ASSUME NEW m \in Links \ {n}, NEW l \in ToSet(R[m])
      PROVE  next_'[l] = next_[l] /\ nexus'[l] = nexus[l]
  <2>1. l \in Links /\ l \notin ToSet(s) /\ l \notin ToSet(R[n])
    BY <1>2, <1>3, <1>4
  <2> QED BY <2>1 DEF OneChange
<1>6. ASSUME NEW l \in Links, \A m \in Links : l \notin ToSet(Q[m])
      PROVE  next_'[l] = NoLink /\ nexus'[l] = NoLink
  <2>1. l \notin ToSet(s) /\ \A m \in Links \ {n} : l \notin ToSet(R[m])
    BY <1>1, <1>6
  <2>2. CASE l \in ToSet(R[n])
    BY <2>1, <2>2 DEF OneChange
  <2>3. CASE l \notin ToSet(R[n])
    BY <1>2, <2>1, <2>3 DEF OneChange
  <2> QED BY <2>2, <2>3
<1>7. nets' = (nets \ {ToSet(R[m]) : m \in {n}}) \cup ({ToSet(Q[m]) : m \in {n}} \ {{}})
  BY <1>1 DEF OneChange
<1>8. Changed(R, Q, {n})
  BY <1>1, <1>4, <1>5, <1>6, <1>7 DEF Changed, OneChange
<1>9. Sorted(Q)'
  BY <1>1, <1>8, Rewired
<1> QED BY <1>9 DEF Sound

-----------------------------------------------------------------------------
LEMMA UseNexusKeeps ==
    ASSUME LinksOK, NexusTypeOK, NEW R, Sorted(R), NEW l \in Links, UseNexus(l)
    PROVE  Sound'
<1> DEFINE n == FreeNexus
           s == <<l>>
<1>1. ~ Connected(l) /\ NewNexus(l, n) /\ nets' = nets \cup {{l}}
  BY DEF UseNexus
<1>2. n \in Links /\ R[n] = <<>> /\ {l} \notin nets
  BY <1>1, FreeNexusExists, LinkFacts
<1> HIDE DEF n
<1>3. Typed
  BY DEF NexusTypeOK, Typed
<1>4. /\ next_' = [next_ EXCEPT ![l] = l]
      /\ nexus' = [nexus EXCEPT ![l] = n]
      /\ nexuses' = [nexuses EXCEPT ![n] = [last |-> l, guess |-> "none"]]
  BY <1>1 DEF NewNexus
<1>5. Typed'
  BY <1>2, <1>3, <1>4 DEF Typed, Guesses
<1>6. /\ s \in Seq(Links) /\ Len(s) = 1 /\ s[1] = l /\ s # <<>> /\ ToSet(s) = {l}
      /\ IsInjective(s)
  BY DEF ToSet, IsInjective
<1> HIDE DEF s
<1>7. next_'[l] = l /\ nexus'[l] = n /\ nexuses'[n] = [last |-> l, guess |-> "none"]
  BY <1>2, <1>3, <1>4 DEF Typed
<1>8. RingIn(n, s, next_', nexus', nexuses')
  <2>1. Chained(s, next_', nexus')
    BY <1>6 DEF Chained
  <2>2. Closed(n, s, next_', nexus', nexuses')
    BY <1>6, <1>7 DEF Closed
  <2> QED BY <1>6, <2>1, <2>2, RingMade
<1>9. ToSet(R[n]) = {}
  <2>1. R[n] \in Seq(Links)
    BY <1>2 DEF Sorted
  <2> QED BY <1>2, <2>1, SeqFacts
<1>10. \A k \in Links : k # l => next_'[k] = next_[k] /\ nexus'[k] = nexus[k]
  BY <1>3, <1>4 DEF Typed
<1>11. \A m \in Links \ {n} : nexuses'[m] = nexuses[m]
  BY <1>3, <1>4 DEF Typed
<1>12. {} \notin nets
  BY RingsFollow, SeqFacts DEF RingsAreNets, Sorted, RingsIn
<1>13. nets' = (nets \ {ToSet(R[n])}) \cup ({ToSet(s)} \ {{}})
  BY <1>1, <1>6, <1>9, <1>12
<1>14. OneChange(R, n, s)
  BY <1>1, <1>6, <1>8, <1>9, <1>10, <1>11, <1>13 DEF OneChange
<1> QED BY <1>2, <1>5, <1>6, <1>14, OneRing

LEMMA NetsNotEmpty ==
    ASSUME NEW R, Sorted(R)
    PROVE  {} \notin nets
<1> QED BY SeqFacts DEF Sorted, RingsIn

(* A ring goes on to a link of its own.                                    *)
LEMMA NextIsInRing ==
    ASSUME LinksOK, NEW R, Sorted(R), NEW n \in Links, NEW l \in ToSet(R[n])
    PROVE  \E k \in Links : k \in ToSet(R[n]) /\ next_[l] = k
<1> DEFINE s == R[n]
           N == Len(s)
<1>1. s \in Seq(Links) /\ RingIn(n, s, next_, nexus, nexuses)
  BY DEF Sorted, RingsIn
<1>2. R[n] = s
  OBVIOUS
<1> HIDE DEF s
<1>3. PICK i \in 1..N : s[i] = l
  BY <1>1, <1>2, SeqFacts
<1>4. N \in Nat /\ N >= 1 /\ s # <<>>
  BY <1>1, <1>3
<1>5. /\ next_[s[N]] = s[1]
      /\ \A j \in 1..(N - 1) : next_[s[j]] = s[j + 1]
      /\ \A j \in 1..N : s[j] \in Links /\ s[j] \in ToSet(s)
  BY <1>1, <1>4, RingSteps, SeqFacts
<1> HIDE DEF N
<1>6. CASE i = N
  <2>1. 1 \in 1..N
    BY <1>4
  <2> QED BY <1>2, <1>3, <1>5, <1>6, <2>1
<1>7. CASE i # N
  <2>1. i \in 1..(N - 1) /\ i + 1 \in 1..N
    BY <1>4, <1>7
  <2> QED BY <1>2, <1>3, <1>5, <2>1
<1> QED BY <1>6, <1>7

(* Links that are no drivers do not change the constant of a net.          *)
SameDrivers(S, T) ==
    \A l \in S \cup T : (l \in S /\ l \in T) \/ Sort[l] \in {"input", "wire"}

LEMMA ValueKept ==
    ASSUME NEW S, NEW T, SameDrivers(S, T) PROVE ConstantOf(S) = ConstantOf(T)
<1>1. Drivers(S) = Drivers(T)
  BY DEF Drivers, SameDrivers
<1>2. ASSUME NEW c \in {"driver", "const1", "constx", "constz"}
      PROVE  (\E l \in S : Sort[l] = c) <=> (\E l \in T : Sort[l] = c)
  BY DEF SameDrivers
<1>3. ((\E l \in S : Sort[l] = "driver") <=> (\E l \in T : Sort[l] = "driver"))
      /\ ((\E l \in S : Sort[l] = "const1") <=> (\E l \in T : Sort[l] = "const1"))
      /\ ((\E l \in S : Sort[l] = "constx") <=> (\E l \in T : Sort[l] = "constx"))
      /\ ((\E l \in S : Sort[l] = "constz") <=> (\E l \in T : Sort[l] = "constz"))
  BY <1>2
<1> QED BY <1>1, <1>3 DEF ConstantOf

LEMMA ConstantKept ==
    ASSUME NEW S, NEW T,
           \A l \in S \cup T : (l \in S /\ l \in T) \/ Sort[l] \in {"input", "wire"}
    PROVE  ConstantsOf(S) = ConstantsOf(T)
<1>1. ConstantOf(S) = ConstantOf(T)
  BY ValueKept DEF SameDrivers
<1>2. ConstantOf(S \ Silent) = ConstantOf(T \ Silent)
  <2>1. SameDrivers(S \ Silent, T \ Silent)
    BY DEF SameDrivers
  <2> QED BY <2>1, ValueKept
<1> QED BY <1>1, <1>2 DEF ConstantsOf

(* One driver at most is counted in a net that is not "var".               *)
LEMMA FewDrivers ==
    ASSUME LinksOK, NEW S \in SUBSET Links, ConstantOf(S) # "var"
    PROVE  \A l, m \in Drivers(S) : l = m
<1> SUFFICES ASSUME NEW l \in Drivers(S), NEW m \in Drivers(S), l # m PROVE FALSE
  OBVIOUS
<1>1. IsFiniteSet(Drivers(S))
  BY FS_Subset DEF LinksOK, Drivers
<1>2. IsFiniteSet({l}) /\ Cardinality({l}) = 1
  BY FS_Singleton
<1>3. Cardinality({l} \cup {m}) = 2 /\ {l} \cup {m} \subseteq Drivers(S)
  BY <1>2, FS_AddElement
<1>4. Cardinality({l} \cup {m}) <= Cardinality(Drivers(S)) /\ Cardinality(Drivers(S)) \in Nat
  BY <1>1, <1>3, FS_Subset, FS_CardinalityType
<1>5. Cardinality(Drivers(S)) > 1
  BY <1>3, <1>4
<1> QED BY <1>5 DEF ConstantOf

LEMMA ManyDrivers ==
    ASSUME LinksOK, NEW S \in SUBSET Links, NEW A \in SUBSET Links, S \subseteq A,
           ConstantOf(S) = "var"
    PROVE  ConstantOf(A) = "var"
<1>1. IsFiniteSet(Drivers(A)) /\ Drivers(S) \subseteq Drivers(A)
  BY FS_Subset DEF LinksOK, Drivers
<1>2. Cardinality(Drivers(S)) <= Cardinality(Drivers(A)) /\ IsFiniteSet(Drivers(S))
  BY <1>1, FS_Subset
<1>3. Cardinality(Drivers(S)) \in Nat /\ Cardinality(Drivers(A)) \in Nat
  BY <1>1, <1>2, FS_CardinalityType
<1>4. (\E l \in S : Sort[l] = "driver") \/ Cardinality(Drivers(S)) > 1
  BY DEF ConstantOf
<1>5. (\E l \in A : Sort[l] = "driver") \/ Cardinality(Drivers(A)) > 1
  BY <1>2, <1>3, <1>4
<1> QED BY <1>5 DEF ConstantOf

(* A net that is found to be driven with z has no other driver than        *)
(* constants of z.                                                         *)
LEMMA SilentNet ==
    ASSUME LinksOK, NEW U \in SUBSET Links, "z" \in ConstantsOf(U)
    PROVE  \A l \in U : Sort[l] \in {"input", "wire", "constz"}
<1>1. PICK X \in {U, U \ Silent} : ConstantOf(X) = "z"
  BY DEF ConstantsOf
<1>2. \A l, m \in Drivers(X) : l = m
  BY <1>1, FewDrivers
<1>3. Drivers(X) = {} \/ \E l \in X : Sort[l] = "constz"
  BY <1>1 DEF ConstantOf
<1>4. ASSUME NEW l \in X PROVE Sort[l] \in {"input", "wire", "constz"}
  BY <1>2, <1>3 DEF Drivers
<1> QED BY <1>1, <1>4 DEF Silent

(* Nothing but constants of z is added: what was remembered may stay.      *)
LEMMA SilentAdded ==
    ASSUME LinksOK, NEW S \in SUBSET Links, NEW U \in SUBSET Links,
           \A l \in U : Sort[l] \in {"input", "wire", "constz"}
    PROVE  ConstantsOf(S) \subseteq ConstantsOf(S \cup U)
<1> DEFINE A == S \cup U
<1>1. ConstantOf(S \ Silent) = ConstantOf(A \ Silent)
  <2>1. SameDrivers(S \ Silent, A \ Silent)
    BY DEF SameDrivers, Silent
  <2> QED BY <2>1, ValueKept
<1>2. ConstantOf(S) \in {ConstantOf(A), ConstantOf(S \ Silent)}
  <2>1. CASE ConstantOf(S) = "var"
    BY <2>1, ManyDrivers
  <2>2. CASE ConstantOf(S) # "var" /\ S \cap Silent = {}
    <3>1. S \ Silent = S
      BY <2>2
    <3> QED BY <3>1
  <2>3. CASE ConstantOf(S) # "var" /\ S \cap Silent # {}
    <3>1. \A l, m \in Drivers(S) : l = m
      BY <2>3, FewDrivers
    <3>2. PICK l \in S : Sort[l] = "constz"
      BY <2>3 DEF Silent
    <3>3. l \in Drivers(S)
      BY <3>2 DEF Drivers
    <3>4. \A m \in S : Sort[m] \in {"input", "wire"} \/ m = l
      BY <3>1, <3>3 DEF Drivers
    <3>5. /\ ~ \E m \in S : Sort[m] = "driver"
          /\ ~ \E m \in S : Sort[m] = "const1"
          /\ ~ \E m \in S : Sort[m] = "constx"
      BY <3>2, <3>4
    <3>6. ConstantOf(S) = "z"
      BY <2>3, <3>2, <3>5 DEF ConstantOf
    <3>7. Drivers(S \ Silent) = {}
      BY <3>2, <3>4 DEF Drivers, Silent
    <3>8. Cardinality(Drivers(S \ Silent)) = 0
      BY <3>7, FS_EmptySet
    <3>9. ~ \E m \in S \ Silent : Sort[m] = "driver"
      BY <3>5
    <3>10. ConstantOf(S \ Silent) = "z"
      BY <3>7, <3>8, <3>9 DEF ConstantOf
    <3> QED BY <3>6, <3>10
  <2> QED BY <2>1, <2>2, <2>3
<1> QED BY <1>1, <1>2 DEF ConstantsOf

LEMMA PairKeeps ==
    ASSUME LinksOK, NexusTypeOK, NEW R, Sorted(R), NEW l \in Links, NEW r \in Links, l # r,
           ~ Connected(l), ~ Connected(r), NEW n, n = FreeNexus,
           next_' = [next_ EXCEPT ![l] = r, ![r] = l],
           nexus' = [nexus EXCEPT ![r] = n],
           nexuses' = [nexuses EXCEPT ![n] = [last |-> r, guess |-> "none"]],
           nets' = nets \cup {{l, r}}
    PROVE  Sound'
<1> DEFINE s == <<l, r>>
<1>1. n \in Links /\ R[n] = <<>>
  BY FreeNexusExists
<1>2. Typed
  BY DEF NexusTypeOK, Typed
<1>3. Typed'
  BY <1>1, <1>2 DEF Typed, Guesses
<1>4. /\ s \in Seq(Links) /\ Len(s) = 2 /\ s[1] = l /\ s[2] = r /\ s # <<>>
      /\ ToSet(s) = {l, r} /\ IsInjective(s)
  <2>1. s \in Seq(Links) /\ Len(s) = 2 /\ s[1] = l /\ s[2] = r /\ s # <<>> /\ DOMAIN s = {1, 2}
    OBVIOUS
  <2> HIDE DEF s
  <2> QED BY <2>1 DEF ToSet, IsInjective
<1> HIDE DEF s
<1>5. nexus[l] = NoLink
  <2>1. \A m \in Links : l \notin ToSet(R[m])
    BY LinkFacts
  <2> QED BY <2>1 DEF Sorted, RingsIn
<1>6. /\ next_'[l] = r /\ next_'[r] = l /\ nexus'[r] = n /\ nexus'[l] = NoLink
      /\ nexuses'[n] = [last |-> r, guess |-> "none"]
  BY <1>1, <1>2, <1>5 DEF Typed
<1>7. RingIn(n, s, next_', nexus', nexuses')
  <2>1. Chained(s, next_', nexus')
    <3>1. \A i \in 1..(2 - 1) : i = 1
      OBVIOUS
    <3> QED BY <1>4, <1>6, <3>1 DEF Chained
  <2>2. Closed(n, s, next_', nexus', nexuses')
    BY <1>4, <1>6 DEF Closed
  <2> QED BY <1>4, <2>1, <2>2, RingMade
<1>8. ToSet(R[n]) = {}
  <2>1. R[n] \in Seq(Links)
    BY <1>1 DEF Sorted
  <2> QED BY <1>1, <2>1, SeqFacts
<1>9. \A k \in Links : k \notin {l, r} => next_'[k] = next_[k] /\ nexus'[k] = nexus[k]
  BY <1>2 DEF Typed
<1>10. \A m \in Links \ {n} : nexuses'[m] = nexuses[m]
  BY <1>2 DEF Typed
<1>11. nets' = (nets \ {ToSet(R[n])}) \cup ({ToSet(s)} \ {{}})
  BY <1>4, <1>8, NetsNotEmpty
<1>12. OneChange(R, n, s)
  BY <1>4, <1>7, <1>8, <1>9, <1>10, <1>11 DEF OneChange
<1> QED BY <1>1, <1>3, <1>4, <1>12, OneRing

LEMMA AddLinkKeeps ==
    ASSUME LinksOK, NexusTypeOK, NEW R, Sorted(R), NEW n \in Links, R[n] # <<>>,
           NEW r \in Links, ~ Connected(r), AddLink(n, r),
           nets' = (nets \ {ToSet(R[n])}) \cup {ToSet(R[n]) \cup {r}}
    PROVE  Sound'
<1> DEFINE s == R[n]
           k == Len(s)
           a == Append(s, r)
           last == nexuses[n].last
<1>1. s \in Seq(Links) /\ RingIn(n, s, next_, nexus, nexuses)
  BY DEF Sorted, RingsIn
<1>2. r \notin ToSet(s) /\ \A m \in Links : r \notin ToSet(R[m])
  BY LinkFacts
<1>3. Typed
  BY DEF NexusTypeOK, Typed
<1>4. /\ k \in Nat /\ k >= 1
      /\ last = s[k] /\ next_[last] = s[1] /\ nexus[last] = n
      /\ \A i \in 1..k : s[i] \in Links /\ s[i] # r /\ (s[i] = last <=> i = k)
      /\ \A i \in 1..(k - 1) : next_[s[i]] = s[i + 1] /\ nexus[s[i]] = NoLink
  <2> HIDE DEF s
  <2>1. s # <<>>
    BY DEF s
  <2>2. k \in Nat /\ k >= 1
    BY <1>1, <2>1
  <2>3. \A i \in 1..k : s[i] \in ToSet(s)
    BY <1>1, SeqFacts
  <2> QED BY <1>1, <1>2, <2>1, <2>2, <2>3, RingSteps
<1>5. /\ a \in Seq(Links) /\ Len(a) = k + 1 /\ a[k + 1] = r
      /\ \A i \in 1..k : a[i] = s[i]
      /\ ToSet(a) = ToSet(s) \cup {r}
  <2> HIDE DEF s
  <2> QED BY <1>1, AppendProperties, ToSetAppend
<1>6. IsInjective(s)
  BY <1>1 DEF RingIn
<1>7. nexuses[n].guess \in {"none"} \cup ConstantsOf(ToSet(s))
  BY <1>1 DEF RingIn
<1>8. R[n] = s /\ DOMAIN s = 1..k /\ ToSet(s) \subseteq Links
  BY <1>1, SeqFacts
<1> HIDE DEF s
<1>9. a # <<>> /\ DOMAIN a = 1..(k + 1)
  BY <1>4, <1>5
<1> HIDE DEF a, k
<1>10. IsInjective(a)
  <2>1. ASSUME NEW i \in 1..(k + 1), NEW j \in 1..(k + 1), a[i] = a[j] PROVE i = j
    <3>1. CASE i = k + 1 /\ j # k + 1
      <4>1. j \in 1..k
        BY <1>4, <3>1
      <4> QED BY <1>4, <1>5, <2>1, <3>1, <4>1
    <3>2. CASE j = k + 1 /\ i # k + 1
      <4>1. i \in 1..k
        BY <1>4, <3>2
      <4> QED BY <1>4, <1>5, <2>1, <3>2, <4>1
    <3>3. CASE i # k + 1 /\ j # k + 1
      <4>1. i \in 1..k /\ j \in 1..k
        BY <1>4, <3>3
      <4>2. s[i] = s[j]
        BY <1>5, <2>1, <4>1
      <4> QED BY <1>6, <1>8, <4>1, <4>2 DEF IsInjective
    <3> QED BY <3>1, <3>2, <3>3
  <2> QED BY <1>9, <2>1 DEF IsInjective
<1>11. /\ nexus' = [nexus EXCEPT ![r] = n, ![last] = NoLink]
       /\ next_' = [next_ EXCEPT ![r] = next_[last], ![last] = r]
       /\ nexuses' = [nexuses EXCEPT ![n].last = r,
                                     ![n].guess = IF InputOf(r) THEN @ ELSE "none"]
  BY DEF AddLink
<1>12. last \in Links /\ last # r
  <2>1. k \in 1..k
    BY <1>4
  <2> QED BY <1>4, <2>1
<1> HIDE DEF last
<1>13. /\ next_'[r] = s[1] /\ next_'[last] = r /\ nexus'[r] = n /\ nexus'[last] = NoLink
       /\ \A l \in Links : l # r /\ l # last => next_'[l] = next_[l] /\ nexus'[l] = nexus[l]
  BY <1>3, <1>4, <1>11, <1>12 DEF Typed
<1>14. /\ nexuses'[n].last = r
       /\ nexuses'[n].guess = IF InputOf(r) THEN nexuses[n].guess ELSE "none"
       /\ nexuses'[n] \in [last : Links \cup {NoLink}, guess : Guesses]
       /\ \A m \in Links \ {n} : nexuses'[m] = nexuses[m]
  BY <1>3, <1>11 DEF Typed, Guesses
<1>15. Typed'
  <2>1. next_' \in [Links -> Links \cup {NoLink}] /\ nexus' \in [Links -> Links \cup {NoLink}]
    <3>1. next_[last] \in Links \cup {NoLink}
      BY <1>3, <1>12 DEF Typed
    <3> QED BY <1>3, <1>11, <1>12, <3>1 DEF Typed
  <2>2. nexuses' \in [Links -> [last : Links \cup {NoLink}, guess : Guesses]]
    <3>1. nexuses' = [m \in Links |-> nexuses'[m]]
      BY <1>3, <1>11 DEF Typed
    <3>2. \A m \in Links :
             nexuses'[m] \in [last : Links \cup {NoLink}, guess : Guesses]
      BY <1>3, <1>14 DEF Typed
    <3> QED BY <3>1, <3>2
  <2> QED BY <2>1, <2>2 DEF Typed
<1>16. InputOf(r) => ConstantsOf(ToSet(a)) = ConstantsOf(ToSet(s))
  <2>1. SUFFICES ASSUME InputOf(r) PROVE ConstantsOf(ToSet(a)) = ConstantsOf(ToSet(s))
    OBVIOUS
  <2>2. \A l \in ToSet(a) \cup ToSet(s) :
            (l \in ToSet(a) /\ l \in ToSet(s)) \/ Sort[l] \in {"input", "wire"}
    BY <1>5, <2>1 DEF InputOf
  <2> QED BY <2>2, ConstantKept
<1>17. RingIn(n, a, next_', nexus', nexuses')
  <2>1. Chained(a, next_', nexus')
    <3>1. ASSUME NEW i \in 1..k PROVE next_'[a[i]] = a[i + 1] /\ nexus'[a[i]] = NoLink
      <4>1. CASE i = k
        BY <1>4, <1>5, <1>13, <4>1
      <4>2. CASE i # k
        <5>1. i \in 1..(k - 1) /\ i + 1 \in 1..k
          BY <1>4, <4>2
        <5>2. s[i] \in Links /\ s[i] # r /\ s[i] # last
          BY <1>4, <4>2
        <5>3. next_'[s[i]] = s[i + 1] /\ nexus'[s[i]] = NoLink
          BY <1>4, <1>13, <5>1, <5>2
        <5> QED BY <1>5, <5>1, <5>3
      <4> QED BY <4>1, <4>2
    <3>2. Len(a) - 1 = k
      BY <1>4, <1>5
    <3> QED BY <3>1, <3>2 DEF Chained
  <2>2. Closed(n, a, next_', nexus', nexuses')
    <3>1. a[Len(a)] = r /\ a[1] = s[1]
      BY <1>4, <1>5
    <3> QED BY <1>7, <1>13, <1>14, <1>16, <3>1 DEF Closed
  <2> QED BY <1>5, <1>9, <1>10, <2>1, <2>2, RingMade
<1>18. last \in ToSet(s)
  <2>1. k \in 1..k
    BY <1>4
  <2> QED BY <1>4, <1>8, <2>1 DEF ToSet
<1>19. OneChange(R, n, a)
  BY <1>5, <1>8, <1>13, <1>14, <1>17, <1>18 DEF OneChange
<1> QED BY <1>5, <1>15, <1>19, OneRing

(* A ring is spliced in after another: what the sequences look like.       *)
Spliced(s, u, a) ==
    /\ Len(a) = Len(s) + Len(u)
    /\ \A i \in 1..Len(s) : a[i] = s[i]
    /\ \A i \in 1..Len(u) : a[Len(s) + i] = u[i]
    /\ ToSet(a) = ToSet(s) \cup ToSet(u)
    /\ IsInjective(a)

LEMMA SplicedSequence ==
    ASSUME NEW s \in Seq(Links), NEW u \in Seq(Links), IsInjective(s), IsInjective(u),
           ToSet(s) \cap ToSet(u) = {}
    PROVE  s \o u \in Seq(Links) /\ Spliced(s, u, s \o u)
<1> DEFINE a == s \o u
           k == Len(s)
           j == Len(u)
<1>1. /\ k \in Nat /\ j \in Nat /\ DOMAIN s = 1..k /\ DOMAIN u = 1..j
      /\ \A i \in 1..k : s[i] \in ToSet(s)
      /\ \A i \in 1..j : u[i] \in ToSet(u)
      /\ \A l \in ToSet(s) : \E i \in 1..k : s[i] = l
      /\ \A l \in ToSet(u) : \E i \in 1..j : u[i] = l
  BY SeqFacts
<1>2. /\ a \in Seq(Links) /\ Len(a) = k + j
      /\ \A i \in 1..(k + j) : a[i] = IF i <= k THEN s[i] ELSE u[i - k]
  BY ConcatProperties
<1>3. DOMAIN a = 1..(k + j)
  BY <1>2
<1> HIDE DEF a, k, j
<1>4. \A i \in 1..k : i \in 1..(k + j) /\ a[i] = s[i]
  BY <1>1, <1>2
<1>5. ASSUME NEW i \in 1..j PROVE k + i \in 1..(k + j) /\ a[k + i] = u[i]
  <2>1. k + i \in 1..(k + j) /\ ~ (k + i <= k) /\ (k + i) - k = i
    BY <1>1
  <2> QED BY <1>2, <2>1
<1>6. ASSUME NEW i \in 1..(k + j)
      PROVE  \/ i \in 1..k /\ a[i] = s[i] /\ a[i] \in ToSet(s)
             \/ ~ (i <= k) /\ i - k \in 1..j /\ a[i] = u[i - k] /\ a[i] \in ToSet(u)
  <2>1. CASE i <= k
    <3>1. i \in 1..k
      BY <1>1, <2>1
    <3> QED BY <1>1, <1>4, <3>1
  <2>2. CASE ~ (i <= k)
    <3>1. i - k \in 1..j
      BY <1>1, <2>2
    <3>2. a[i] = u[i - k]
      BY <1>2, <2>2
    <3> QED BY <1>1, <2>2, <3>1, <3>2
  <2> QED BY <2>1, <2>2
<1>7. ToSet(a) = ToSet(s) \cup ToSet(u)
  <2>1. ASSUME NEW l PROVE l \in ToSet(a) <=> l \in ToSet(s) \/ l \in ToSet(u)
    <3>1. l \in ToSet(a) <=> \E i \in 1..(k + j) : a[i] = l
      BY <1>3 DEF ToSet
    <3>2. ASSUME l \in ToSet(a) PROVE l \in ToSet(s) \/ l \in ToSet(u)
      BY <1>6, <3>1, <3>2
    <3>3. ASSUME l \in ToSet(s) PROVE l \in ToSet(a)
      BY <1>1, <1>4, <3>1, <3>3
    <3>4. ASSUME l \in ToSet(u) PROVE l \in ToSet(a)
      BY <1>1, <1>5, <3>1, <3>4
    <3> QED BY <3>2, <3>3, <3>4
  <2> QED BY <2>1
<1>8. IsInjective(a)
  <2>1. ASSUME NEW i \in 1..(k + j), NEW h \in 1..(k + j), a[i] = a[h] PROVE i = h
    <3>1. CASE i <= k /\ h <= k
      <4>1. i \in 1..k /\ h \in 1..k /\ s[i] = s[h]
        BY <1>1, <1>4, <2>1, <3>1
      <4> QED BY <1>1, <4>1 DEF IsInjective
    <3>2. CASE ~ (i <= k) /\ ~ (h <= k)
      <4>1. i - k \in 1..j /\ h - k \in 1..j /\ u[i - k] = u[h - k]
        BY <1>1, <1>6, <2>1, <3>2
      <4>2. i - k = h - k
        BY <1>1, <4>1 DEF IsInjective
      <4> QED BY <1>1, <4>2
    <3>3. CASE i <= k /\ ~ (h <= k)
      <4>1. h \notin 1..k /\ ~ ~ (i <= k)
        BY <3>3
      <4>2. a[i] \in ToSet(s) /\ a[h] \in ToSet(u)
        BY <1>6, <4>1
      <4> QED BY <2>1, <4>2
    <3>4. CASE ~ (i <= k) /\ h <= k
      <4>1. i \notin 1..k /\ ~ ~ (h <= k)
        BY <3>4
      <4>2. a[h] \in ToSet(s) /\ a[i] \in ToSet(u)
        BY <1>6, <4>1
      <4> QED BY <2>1, <4>2
    <3> QED BY <3>1, <3>2, <3>3, <3>4
  <2> QED BY <1>3, <2>1 DEF IsInjective
<1>9. Spliced(s, u, a)
  BY <1>2, <1>4, <1>5, <1>7, <1>8 DEF Spliced, k, j
<1> QED BY <1>2, <1>9 DEF a

LEMMA SpliceKeeps ==
    ASSUME LinksOK, NexusTypeOK, NEW R, Sorted(R), NEW n \in Links, NEW m \in Links, n # m,
           R[n] # <<>>, R[m] # <<>>, Splice(n, m),
           nets' = (nets \ {ToSet(R[n]), ToSet(R[m])}) \cup {ToSet(R[n]) \cup ToSet(R[m])}
    PROVE  Sound'
<1> DEFINE s == R[n]
           u == R[m]
           a == s \o u
           k == Len(s)
           j == Len(u)
           last == nexuses[n].last
           other == nexuses[m].last
<1>1. /\ s \in Seq(Links) /\ RingIn(n, s, next_, nexus, nexuses)
      /\ u \in Seq(Links) /\ RingIn(m, u, next_, nexus, nexuses)
      /\ ToSet(s) \cap ToSet(u) = {}
  BY DEF Sorted, RingsIn
<1>2. /\ IsInjective(s) /\ IsInjective(u)
      /\ nexuses[n].guess \in {"none"} \cup ConstantsOf(ToSet(s))
      /\ nexuses[m].guess \in {"none"} \cup ConstantsOf(ToSet(u))
  BY <1>1 DEF RingIn
<1>3. Typed
  BY DEF NexusTypeOK, Typed
<1>4. R[n] = s /\ R[m] = u /\ s # <<>> /\ u # <<>>
  OBVIOUS
<1> HIDE DEF s, u
<1>5. /\ k \in Nat /\ k >= 1
      /\ last = s[k] /\ next_[last] = s[1] /\ nexus[last] = n
      /\ \A i \in 1..k : s[i] \in Links /\ s[i] \in ToSet(s) /\ (s[i] = last <=> i = k)
      /\ \A i \in 1..(k - 1) : next_[s[i]] = s[i + 1] /\ nexus[s[i]] = NoLink
  <2>1. k \in Nat /\ k >= 1
    BY <1>1, <1>4
  <2>2. \A i \in 1..k : s[i] \in ToSet(s)
    BY <1>1, SeqFacts
  <2>3. /\ nexuses[n].last = s[Len(s)] /\ next_[s[Len(s)]] = s[1] /\ nexus[s[Len(s)]] = n
        /\ \A i \in 1..Len(s) : s[i] \in Links /\ (s[i] = s[Len(s)] <=> i = Len(s))
        /\ \A i \in 1..(Len(s) - 1) : next_[s[i]] = s[i + 1] /\ nexus[s[i]] = NoLink
    BY <1>1, <1>4, RingSteps
  <2> QED BY <2>1, <2>2, <2>3
<1>6. /\ j \in Nat /\ j >= 1
      /\ other = u[j] /\ next_[other] = u[1] /\ nexus[other] = m
      /\ \A i \in 1..j : u[i] \in Links /\ u[i] \in ToSet(u) /\ (u[i] = other <=> i = j)
      /\ \A i \in 1..(j - 1) : next_[u[i]] = u[i + 1] /\ nexus[u[i]] = NoLink
  <2>1. j \in Nat /\ j >= 1
    BY <1>1, <1>4
  <2>2. \A i \in 1..j : u[i] \in ToSet(u)
    BY <1>1, SeqFacts
  <2>3. /\ nexuses[m].last = u[Len(u)] /\ next_[u[Len(u)]] = u[1] /\ nexus[u[Len(u)]] = m
        /\ \A i \in 1..Len(u) : u[i] \in Links /\ (u[i] = u[Len(u)] <=> i = Len(u))
        /\ \A i \in 1..(Len(u) - 1) : next_[u[i]] = u[i + 1] /\ nexus[u[i]] = NoLink
    BY <1>1, <1>4, RingSteps
  <2> QED BY <2>1, <2>2, <2>3
<1>7. a \in Seq(Links) /\ Spliced(s, u, a)
  BY <1>1, <1>2, SplicedSequence
<1>8. ToSet(s) \subseteq Links /\ ToSet(u) \subseteq Links
  BY <1>1, SeqFacts
<1> HIDE DEF a
<1>9. /\ Len(a) = k + j
      /\ \A i \in 1..k : a[i] = s[i]
      /\ \A i \in 1..j : a[k + i] = u[i]
      /\ ToSet(a) = ToSet(s) \cup ToSet(u)
      /\ IsInjective(a)
  BY <1>7 DEF Spliced
<1>10. a # <<>>
  BY <1>5, <1>6, <1>7, <1>9
<1> HIDE DEF k, j
<1>11. /\ next_' = [next_ EXCEPT ![last] = next_[other], ![other] = next_[last]]
       /\ nexus' = [nexus EXCEPT ![last] = NoLink, ![other] = n]
       /\ nexuses' = [nexuses EXCEPT
                          ![n] = [last |-> other,
                                  guess |-> IF nexuses[m].guess = "z" THEN @.guess
                                            ELSE "none"],
                          ![m] = Unused]
  BY DEF Splice
<1>12. /\ last \in Links /\ other \in Links /\ last # other
       /\ last \in ToSet(s) /\ other \in ToSet(u)
  <2>1. k \in 1..k /\ j \in 1..j
    BY <1>5, <1>6
  <2> QED BY <1>1, <1>5, <1>6, <2>1
<1> HIDE DEF last, other
<1>13. /\ next_'[last] = u[1] /\ next_'[other] = s[1]
       /\ nexus'[last] = NoLink /\ nexus'[other] = n
       /\ \A l \in Links : l # last /\ l # other => next_'[l] = next_[l] /\ nexus'[l] = nexus[l]
  BY <1>3, <1>5, <1>6, <1>11, <1>12 DEF Typed
<1>14. /\ nexuses'[n] = [last |-> other,
                         guess |-> IF nexuses[m].guess = "z" THEN nexuses[n].guess ELSE "none"]
       /\ nexuses'[m] = Unused
       /\ \A h \in Links \ {n, m} : nexuses'[h] = nexuses[h]
  BY <1>3, <1>11 DEF Typed
<1>15. Typed'
  <2>1. next_' \in [Links -> Links \cup {NoLink}] /\ nexus' \in [Links -> Links \cup {NoLink}]
    <3>1. next_[last] \in Links \cup {NoLink} /\ next_[other] \in Links \cup {NoLink}
      BY <1>3, <1>12 DEF Typed
    <3> QED BY <1>3, <1>11, <1>12, <3>1 DEF Typed
  <2>2. nexuses' \in [Links -> [last : Links \cup {NoLink}, guess : Guesses]]
    <3>1. nexuses[n].guess \in Guesses
      BY <1>3 DEF Typed
    <3> QED BY <1>3, <1>11, <1>12, <3>1 DEF Typed, Unused, Guesses
  <2> QED BY <2>1, <2>2 DEF Typed
<1>16. nexuses[m].guess = "z" => ConstantsOf(ToSet(s)) \subseteq ConstantsOf(ToSet(a))
  <2>1. SUFFICES ASSUME nexuses[m].guess = "z"
                 PROVE  ConstantsOf(ToSet(s)) \subseteq ConstantsOf(ToSet(a))
    OBVIOUS
  <2>2. "z" \in ConstantsOf(ToSet(u))
    BY <1>2, <2>1
  <2>3. \A l \in ToSet(u) : Sort[l] \in {"input", "wire", "constz"}
    BY <1>8, <2>2, SilentNet
  <2> QED BY <1>8, <1>9, <2>3, SilentAdded
<1>17. RingIn(n, a, next_', nexus', nexuses')
  <2>1. Chained(a, next_', nexus')
    <3>1. ASSUME NEW i \in 1..(k + j - 1) PROVE next_'[a[i]] = a[i + 1] /\ nexus'[a[i]] = NoLink
      <4>1. CASE i = k
        <5>1. 1 \in 1..j /\ k \in 1..k
          BY <1>5, <1>6
        <5>2. a[k] = last /\ a[k + 1] = u[1]
          BY <1>5, <1>9, <5>1
        <5> QED BY <1>13, <4>1, <5>2
      <4>2. CASE i < k
        <5>1. i \in 1..(k - 1) /\ i \in 1..k /\ i + 1 \in 1..k /\ i # k
          BY <1>5, <4>2
        <5>2. s[i] \in Links /\ s[i] # last /\ s[i] # other
          BY <1>1, <1>5, <1>12, <5>1
        <5>3. next_'[s[i]] = s[i + 1] /\ nexus'[s[i]] = NoLink
          BY <1>5, <1>13, <5>1, <5>2
        <5> QED BY <1>9, <5>1, <5>3
      <4>3. CASE i > k
        <5> DEFINE h == i - k
        <5>0. k \in Nat /\ j \in Nat
          BY <1>5, <1>6
        <5>1. h \in 1..(j - 1) /\ h \in 1..j /\ h + 1 \in 1..j /\ h # j
              /\ k + h = i /\ k + (h + 1) = i + 1
          BY <4>3, <5>0
        <5> HIDE DEF h
        <5>2. u[h] \in Links /\ u[h] # last /\ u[h] # other
          BY <1>1, <1>6, <1>12, <5>1
        <5>3. next_'[u[h]] = u[h + 1] /\ nexus'[u[h]] = NoLink
          BY <1>6, <1>13, <5>1, <5>2
        <5>4. a[i] = u[h] /\ a[i + 1] = u[h + 1]
          BY <1>9, <5>1
        <5> QED BY <5>3, <5>4
      <4>4. i = k \/ i < k \/ i > k
        BY <1>5
      <4> QED BY <4>1, <4>2, <4>3, <4>4
    <3>2. 1..(Len(a) - 1) = 1..(k + j - 1)
      <4>1. Len(a) = k + j /\ a \in Seq(Links) /\ k \in Nat /\ j \in Nat
        BY <1>5, <1>6, <1>7, <1>9
      <4> QED BY <4>1
    <3> QED BY <3>1, <3>2 DEF Chained
  <2>2. Closed(n, a, next_', nexus', nexuses')
    <3>1. 1 \in 1..k /\ j \in 1..j
      BY <1>5, <1>6
    <3>2. a[Len(a)] = other /\ a[1] = s[1]
      BY <1>6, <1>9, <3>1
    <3>3. nexuses'[n].last = other /\ nexuses'[n].guess \in {"none"} \cup ConstantsOf(ToSet(a))
      BY <1>2, <1>14, <1>16
    <3> QED BY <1>13, <3>2, <3>3 DEF Closed
  <2> QED BY <1>7, <1>9, <1>10, <2>1, <2>2, RingMade
<1>18. RingIn(m, <<>>, next_', nexus', nexuses')
  <2>1. nexuses'[m].last = NoLink
    BY <1>14 DEF Unused
  <2> QED BY <2>1, NoRing
<1> DEFINE Q == [R EXCEPT ![n] = a, ![m] = <<>>]
<1>19. /\ Q \in [Links -> Seq(Links)] /\ Q[n] = a /\ Q[m] = <<>>
       /\ \A h \in Links \ {n, m} : Q[h] = R[h]
  <2>1. R \in [Links -> Seq(Links)] /\ <<>> \in Seq(Links)
    BY DEF Sorted
  <2> QED BY <1>7, <2>1
<1> HIDE DEF Q
<1>20. Changed(R, Q, {n, m})
  <2>1. ToSet(<<>>) = {}
    BY DEF ToSet
  <2>2. /\ \A h, i \in Links : h # i => ToSet(R[h]) \cap ToSet(R[i]) = {}
        /\ \A h \in Links : R[h] \in Seq(Links)
        /\ \A l \in Links : (\A h \in Links : l \notin ToSet(R[h])) => next_[l] = NoLink /\ nexus[l] = NoLink
    BY DEF Sorted, RingsIn
  <2>3. \A h \in Links : ToSet(R[h]) \subseteq Links
    BY <2>2, SeqFacts
  <2>4. \A h \in Links \ {n, m} : Q[h] = R[h] /\ nexuses'[h] = nexuses[h]
    BY <1>14, <1>19
  <2>5. ASSUME NEW h \in Links \ {n, m}, NEW l \in ToSet(R[h])
        PROVE  next_'[l] = next_[l] /\ nexus'[l] = nexus[l]
    <3>1. l \in Links /\ l \notin ToSet(s) /\ l \notin ToSet(u)
      BY <1>4, <2>2, <2>3
    <3> QED BY <1>12, <1>13, <3>1
  <2>6. \A h \in {n, m} : RingIn(h, Q[h], next_', nexus', nexuses')
    BY <1>17, <1>18, <1>19
  <2>7. \A h, i \in {n, m} : h # i => ToSet(Q[h]) \cap ToSet(Q[i]) = {}
    BY <1>19, <2>1
  <2>8. \A h \in {n, m} : \A i \in Links \ {n, m} : ToSet(Q[h]) \cap ToSet(R[i]) = {}
    <3>1. \A i \in Links \ {n, m} : ToSet(a) \cap ToSet(R[i]) = {}
      BY <1>4, <1>9, <2>2
    <3> QED BY <1>19, <2>1, <3>1
  <2>9. ASSUME NEW l \in Links, \A h \in Links : l \notin ToSet(Q[h])
        PROVE  next_'[l] = NoLink /\ nexus'[l] = NoLink
    <3>1. l \notin ToSet(s) /\ l \notin ToSet(u)
      BY <1>9, <1>19, <2>9
    <3>2. \A h \in Links : l \notin ToSet(R[h])
      BY <1>4, <1>19, <2>9, <3>1
    <3> QED BY <1>12, <1>13, <2>2, <3>1, <3>2
  <2>10. nets' = (nets \ {ToSet(R[h]) : h \in {n, m}}) \cup ({ToSet(Q[h]) : h \in {n, m}} \ {{}})
    <3>1. \A t : t \in {ToSet(R[h]) : h \in {n, m}} <=> t \in {ToSet(R[n]), ToSet(R[m])}
      OBVIOUS
    <3>2. \A t : t \in {ToSet(Q[h]) : h \in {n, m}} \ {{}} <=> t = ToSet(a)
      <4>1. ToSet(a) # {}
        BY <1>9, <1>12
      <4> QED BY <1>19, <2>1, <4>1
    <3>3. ToSet(a) = ToSet(R[n]) \cup ToSet(R[m])
      BY <1>4, <1>9
    <3> QED BY <3>1, <3>2, <3>3
  <2> QED BY <2>4, <2>5, <2>6, <2>7, <2>8, <2>9, <2>10 DEF Changed
<1>21. Sorted(Q)'
  <2>1. {n, m} \in SUBSET Links
    OBVIOUS
  <2> QED BY <1>19, <1>20, <2>1, Rewired
<1> QED BY <1>15, <1>21 DEF Sound

(* A link is taken out of a ring.                                          *)
Without(s, k) == [i \in 1..(Len(s) - 1) |-> IF i < k THEN s[i] ELSE s[i + 1]]

Shortened(s, k, w) ==
    /\ \A i \in 1..(Len(s) - 1) : w[i] = IF i < k THEN s[i] ELSE s[i + 1]
    /\ ToSet(w) = ToSet(s) \ {s[k]}
    /\ IsInjective(w)

LEMMA ShortenedSequence ==
    ASSUME NEW s \in Seq(Links), IsInjective(s), NEW k \in 1..Len(s)
    PROVE  /\ Without(s, k) \in Seq(Links) /\ Len(Without(s, k)) = Len(s) - 1
           /\ Shortened(s, k, Without(s, k))
<1> DEFINE w == Without(s, k)
           N == Len(s)
<1>1. N \in Nat /\ N >= 1 /\ k \in 1..N /\ \A i \in 1..N : s[i] \in Links
  BY SeqFacts
<1>2. /\ \A l \in ToSet(s) : \E i \in 1..N : s[i] = l
      /\ \A i \in 1..N : s[i] \in ToSet(s)
  BY SeqFacts
<1>3. ASSUME NEW i \in 1..N, NEW j \in 1..N, s[i] = s[j] PROVE i = j
  <2>1. i \in DOMAIN s /\ j \in DOMAIN s
    BY <1>1
  <2> QED BY <1>3, <2>1 DEF IsInjective
<1> HIDE DEF N
<1> DEFINE F(i) == IF i < k THEN s[i] ELSE s[i + 1]
<1>4. w = [i \in 1..(N - 1) |-> F(i)]
  BY DEF Without, N
<1>5. ASSUME NEW i \in 1..(N - 1)
      PROVE  /\ i < k => i \in 1..N /\ i # k /\ F(i) = s[i]
             /\ ~ (i < k) => i + 1 \in 1..N /\ i + 1 # k /\ F(i) = s[i + 1]
  BY <1>1
<1> HIDE DEF F, w
<1>6. \A i \in 1..(N - 1) : F(i) \in Links
  BY <1>1, <1>5
<1>7. w \in [1..(N - 1) -> Links] /\ N - 1 \in Nat
  BY <1>1, <1>4, <1>6
<1>8. w \in Seq(Links) /\ Len(w) = N - 1 /\ DOMAIN w = 1..(N - 1)
  BY <1>7
<1>9. \A i \in 1..(N - 1) : w[i] = F(i)
  BY <1>4
<1>10. \A l : l \in ToSet(w) <=> \E i \in 1..(N - 1) : F(i) = l
  BY <1>8, <1>9 DEF ToSet
<1>11. ToSet(w) = ToSet(s) \ {s[k]}
  <2>1. ASSUME NEW l \in ToSet(w) PROVE l \in ToSet(s) /\ l # s[k]
    <3>1. PICK i \in 1..(N - 1) : F(i) = l
      BY <1>10
    <3>2. \E j \in 1..N : j # k /\ l = s[j]
      BY <1>5, <3>1
    <3>3. k \in 1..N
      BY <1>1
    <3> QED BY <1>2, <1>3, <3>2, <3>3
  <2>2. ASSUME NEW l \in ToSet(s), l # s[k] PROVE l \in ToSet(w)
    <3>1. PICK i \in 1..N : s[i] = l
      BY <1>2
    <3>2. CASE i < k
      <4>1. i \in 1..(N - 1)
        BY <1>1, <3>2
      <4> QED BY <1>5, <1>10, <3>1, <3>2, <4>1
    <3>3. CASE i > k
      <4>1. i - 1 \in 1..(N - 1) /\ ~ (i - 1 < k) /\ (i - 1) + 1 = i
        BY <1>1, <3>3
      <4>2. F(i - 1) = s[i]
        BY <1>5, <4>1
      <4> QED BY <1>10, <3>1, <4>1, <4>2
    <3>4. i # k
      BY <2>2, <3>1
    <3>5. i < k \/ i > k
      BY <1>1, <3>4
    <3> QED BY <3>2, <3>3, <3>5
  <2> QED BY <2>1, <2>2
<1>12. IsInjective(w)
  <2>1. ASSUME NEW i \in 1..(N - 1), NEW j \in 1..(N - 1), F(i) = F(j) PROVE i = j
    <3>1. CASE i < k /\ j < k
      <4>1. i \in 1..N /\ j \in 1..N /\ s[i] = s[j]
        BY <1>5, <2>1, <3>1
      <4> QED BY <1>3, <4>1
    <3>2. CASE ~ (i < k) /\ ~ (j < k)
      <4>1. i + 1 \in 1..N /\ j + 1 \in 1..N /\ s[i + 1] = s[j + 1]
        BY <1>5, <2>1, <3>2
      <4>2. i + 1 = j + 1
        BY <1>3, <4>1
      <4> QED BY <1>1, <4>2
    <3>3. CASE i < k /\ ~ (j < k)
      <4>1. i \in 1..N /\ j + 1 \in 1..N /\ s[i] = s[j + 1]
        BY <1>5, <2>1, <3>3
      <4>2. i = j + 1
        BY <1>3, <4>1
      <4> QED BY <1>1, <3>3, <4>2
    <3>4. CASE ~ (i < k) /\ j < k
      <4>1. i + 1 \in 1..N /\ j \in 1..N /\ s[i + 1] = s[j]
        BY <1>5, <2>1, <3>4
      <4>2. i + 1 = j
        BY <1>3, <4>1
      <4> QED BY <1>1, <3>4, <4>2
    <3> QED BY <3>1, <3>2, <3>3, <3>4
  <2> QED BY <1>8, <1>9, <2>1 DEF IsInjective
<1>13. Shortened(s, k, w)
  <2>1. \A i \in 1..(Len(s) - 1) : w[i] = IF i < k THEN s[i] ELSE s[i + 1]
    BY <1>9 DEF F, N
  <2> QED BY <1>11, <1>12, <2>1 DEF Shortened
<1> QED BY <1>8, <1>13 DEF w, N

LEMMA LastRemovedKeeps ==
    ASSUME LinksOK, NexusTypeOK, NEW R, Sorted(R), NEW n \in Links, NEW l \in ToSet(R[n]),
           next_[l] = l, Removed(l),
           nets' = (nets \ {ToSet(R[n])}) \cup ({ToSet(R[n]) \ {l}} \ {{}})
    PROVE  Sound'
<1> DEFINE s == R[n]
           N == Len(s)
<1>1. s \in Seq(Links) /\ RingIn(n, s, next_, nexus, nexuses) /\ ToSet(s) \subseteq Links
  BY SeqFacts DEF Sorted, RingsIn
<1>2. l \in Links /\ FindNexus(l) = n
  BY <1>1, LinkFacts
<1>3. Typed
  BY DEF NexusTypeOK, Typed
<1>4. R[n] = s /\ l \in ToSet(s) /\ IsInjective(s)
  BY <1>1 DEF RingIn
<1> HIDE DEF s
<1>5. ToSet(s) = {l}
  <2>1. PICK i \in 1..N : s[i] = l
    BY <1>1, <1>4, SeqFacts
  <2>2. N \in Nat /\ N >= 1 /\ 1 \in 1..N /\ N \in 1..N
    BY <1>1, <2>1
  <2>3. s # <<>>
    BY <2>1
  <2>4. /\ next_[s[N]] = s[1]
        /\ \A j \in 1..(N - 1) : next_[s[j]] = s[j + 1]
    BY <1>1, <2>3, RingSteps
  <2>5. \A j, h \in 1..N : s[j] = s[h] => j = h
    BY <1>1, <1>4 DEF IsInjective
  <2> HIDE DEF N
  <2>6. i = N
    <3> SUFFICES ASSUME i # N PROVE FALSE
      OBVIOUS
    <3>1. i \in 1..(N - 1) /\ i + 1 \in 1..N /\ i # i + 1
      BY <2>2
    <3> QED BY <2>1, <2>4, <2>5, <3>1
  <2>7. N = 1
    BY <2>1, <2>2, <2>4, <2>5, <2>6
  <2>8. \A k \in ToSet(s) : \E j \in 1..N : s[j] = k
    BY <1>1, SeqFacts DEF N
  <2> QED BY <1>4, <2>1, <2>6, <2>7, <2>8
<1>6. /\ next_' = [next_ EXCEPT ![l] = NoLink]
      /\ nexus' = [nexus EXCEPT ![l] = NoLink]
      /\ nexuses' = [nexuses EXCEPT ![n] = Unused]
  BY <1>2 DEF Removed
<1>7. Typed'
  BY <1>3, <1>6 DEF Typed, Unused, Guesses
<1>8. /\ next_'[l] = NoLink /\ nexus'[l] = NoLink /\ nexuses'[n] = Unused
      /\ \A k \in Links : k # l => next_'[k] = next_[k] /\ nexus'[k] = nexus[k]
      /\ \A m \in Links \ {n} : nexuses'[m] = nexuses[m]
  BY <1>2, <1>3, <1>6 DEF Typed
<1>9. <<>> \in Seq(Links) /\ ToSet(<<>>) = {}
  BY DEF ToSet
<1>10. RingIn(n, <<>>, next_', nexus', nexuses')
  BY <1>8, NoRing DEF Unused
<1>11. OneChange(R, n, <<>>)
  BY <1>4, <1>5, <1>8, <1>9, <1>10 DEF OneChange
<1> QED BY <1>7, <1>9, <1>11, OneRing

LEMMA RemovedKeeps ==
    ASSUME LinksOK, NexusTypeOK, NEW R, Sorted(R), NEW n \in Links, NEW l \in ToSet(R[n]),
           next_[l] # l, Removed(l),
           nets' = (nets \ {ToSet(R[n])}) \cup ({ToSet(R[n]) \ {l}} \ {{}})
    PROVE  Sound'
<1> DEFINE s == R[n]
           N == Len(s)
           prev == CHOOSE x \in Links : next_[x] = l
           last == nexuses[n].last
<1>1. s \in Seq(Links) /\ RingIn(n, s, next_, nexus, nexuses) /\ ToSet(s) \subseteq Links
  BY SeqFacts DEF Sorted, RingsIn
<1>2. l \in Links /\ FindNexus(l) = n
  BY <1>1, LinkFacts
<1>3. Typed
  BY DEF NexusTypeOK, Typed
<1>4. R[n] = s /\ l \in ToSet(s) /\ IsInjective(s)
      /\ nexuses[n].guess \in {"none"} \cup ConstantsOf(ToSet(s))
  <2>1. s # <<>>
    BY <1>1, SeqFacts
  <2>2. IsInjective(s) /\ nexuses[n].guess \in {"none"} \cup ConstantsOf(ToSet(s))
    BY <1>1, <2>1 DEF RingIn
  <2> QED BY <2>2
<1> HIDE DEF s
<1>5. PICK k \in 1..N : s[k] = l
  BY <1>1, <1>4, SeqFacts
<1>6. N \in Nat /\ N >= 1 /\ s # <<>>
  BY <1>1, <1>5
<1>7. /\ last = s[N] /\ next_[s[N]] = s[1] /\ nexus[s[N]] = n
      /\ \A i \in 1..(N - 1) : next_[s[i]] = s[i + 1] /\ nexus[s[i]] = NoLink
      /\ \A i \in 1..N : s[i] \in Links /\ s[i] \in ToSet(s)
      /\ \A i \in ToSet(s) : \E j \in 1..N : s[j] = i
  BY <1>1, <1>6, RingSteps, SeqFacts
<1>8. \A i, j \in 1..N : s[i] = s[j] => i = j
  <2>1. DOMAIN s = 1..N
    BY <1>1
  <2> QED BY <1>4, <2>1 DEF IsInjective
<1> DEFINE w == Without(s, k)
<1>9. w \in Seq(Links) /\ Len(w) = N - 1 /\ Shortened(s, k, w)
  BY <1>1, <1>4, ShortenedSequence
<1> HIDE DEF N, w, last
<1>10. N >= 2
  <2> SUFFICES ASSUME ~ (N >= 2) PROVE FALSE
    OBVIOUS
  <2>1. N = 1 /\ k = 1
    BY <1>6
  <2> QED BY <1>5, <1>7, <2>1
<1> DEFINE p == IF k = 1 THEN N ELSE k - 1
<1>11. p \in 1..N /\ p # k /\ next_[s[p]] = l
  <2>1. CASE k = 1
    <3>1. N \in 1..N /\ N # 1 /\ p = N
      BY <1>6, <1>10, <2>1
    <3> HIDE DEF p
    <3> QED BY <1>5, <1>7, <2>1, <3>1
  <2>2. CASE k # 1
    <3>1. k - 1 \in 1..(N - 1) /\ k - 1 \in 1..N /\ (k - 1) + 1 = k /\ k - 1 # k
      BY <1>6, <2>2
    <3> QED BY <1>5, <1>7, <2>2, <3>1
  <2> QED BY <2>1, <2>2
<1>12. ASSUME NEW x \in Links, next_[x] = l PROVE x = s[p]
  <2>1. \E m \in Links : x \in ToSet(R[m])
    <3>1. Connected(x)
      BY <1>2, <1>12 DEF Connected, LinksOK
    <3> QED BY <3>1, LinkFacts
  <2>2. PICK m \in Links : x \in ToSet(R[m])
    BY <2>1
  <2> DEFINE t == R[m]
             M == Len(t)
  <2>3. t \in Seq(Links) /\ RingIn(m, t, next_, nexus, nexuses)
    BY DEF Sorted, RingsIn
  <2>4. R[m] = t /\ x \in ToSet(t)
    BY <2>2
  <2> HIDE DEF t
  <2>5. PICK i \in 1..M : t[i] = x
    BY <2>3, <2>4, SeqFacts
  <2>6. M \in Nat /\ t # <<>>
    BY <2>3, <2>5
  <2>7. /\ next_[t[M]] = t[1]
        /\ \A j \in 1..(M - 1) : next_[t[j]] = t[j + 1]
        /\ \A j \in 1..M : t[j] \in ToSet(t)
    BY <2>3, <2>6, RingSteps, SeqFacts
  <2> HIDE DEF M
  <2>8. l \in ToSet(t)
    <3>1. CASE i = M
      <4>1. 1 \in 1..M
        BY <2>6
      <4> QED BY <1>12, <2>5, <2>7, <3>1, <4>1
    <3>2. CASE i # M
      <4>1. i \in 1..(M - 1) /\ i + 1 \in 1..M
        BY <2>6, <3>2
      <4> QED BY <1>12, <2>5, <2>7, <4>1
    <3> QED BY <3>1, <3>2
  <2>9. m = n
    BY <1>2, <1>4, <2>4, <2>8, LinkFacts
  <2>10. x \in ToSet(s)
    BY <1>4, <2>4, <2>9
  <2>11. PICK j \in 1..N : s[j] = x
    BY <1>7, <2>10
  <2>12. CASE j = N
    <3>1. s[1] = l /\ 1 \in 1..N
      BY <1>6, <1>7, <1>12, <2>11, <2>12
    <3>2. k = 1
      BY <1>5, <1>8, <3>1
    <3> QED BY <2>11, <2>12, <3>2
  <2>13. CASE j # N
    <3>1. j \in 1..(N - 1) /\ j + 1 \in 1..N
      BY <1>6, <2>13
    <3>2. s[j + 1] = s[k]
      BY <1>5, <1>7, <1>12, <2>11, <3>1
    <3>3. k = j + 1
      BY <1>8, <3>1, <3>2
    <3>4. k # 1 /\ k - 1 = j
      BY <3>1, <3>3
    <3> QED BY <2>11, <3>4
  <2> QED BY <2>12, <2>13
<1> HIDE DEF prev
<1>13. prev = s[p] /\ prev \in Links /\ prev # l
  <2>1. s[p] \in Links
    BY <1>7, <1>11
  <2>2. prev \in Links /\ next_[prev] = l
    BY <1>11, <2>1 DEF prev
  <2>3. s[p] # l
    BY <1>5, <1>8, <1>11
  <2> QED BY <1>12, <2>2, <2>3
<1>14. /\ next_' = [next_ EXCEPT ![prev] = next_[l], ![l] = NoLink]
       /\ nexus' = IF last = l THEN [nexus EXCEPT ![prev] = n, ![l] = NoLink]
                   ELSE [nexus EXCEPT ![l] = NoLink]
       /\ nexuses' = [nexuses EXCEPT ![n].last = IF @ = l THEN prev ELSE @,
                                     ![n].guess = IF InputOf(l) THEN @ ELSE "none"]
  BY <1>2 DEF Removed, prev, last
<1>15. last = l <=> k = N
  <2>1. N \in 1..N
    BY <1>6
  <2> QED BY <1>5, <1>7, <1>8, <2>1
<1>16. /\ next_'[prev] = next_[l] /\ next_'[l] = NoLink /\ nexus'[l] = NoLink
       /\ k = N => nexus'[prev] = n
       /\ k # N => \A x \in Links : x # l => nexus'[x] = nexus[x]
       /\ \A x \in Links : x # l /\ x # prev => next_'[x] = next_[x] /\ nexus'[x] = nexus[x]
  BY <1>2, <1>3, <1>13, <1>14, <1>15 DEF Typed
<1>17. /\ nexuses'[n].last = IF k = N THEN prev ELSE s[N]
       /\ nexuses'[n].guess = IF InputOf(l) THEN nexuses[n].guess ELSE "none"
       /\ nexuses'[n] \in [last : Links \cup {NoLink}, guess : Guesses]
       /\ \A m \in Links \ {n} : nexuses'[m] = nexuses[m]
  <2>1. nexuses[n].last = s[N]
    BY <1>7 DEF last
  <2>2. nexuses[n].last = l <=> k = N
    BY <1>15 DEF last
  <2>3. /\ nexuses[n] \in [last : Links \cup {NoLink}, guess : Guesses]
        /\ \A m \in Links \ {n} : nexuses'[m] = nexuses[m]
    BY <1>3, <1>14 DEF Typed
  <2>4. nexuses'[n] = [last  |-> IF nexuses[n].last = l THEN prev ELSE nexuses[n].last,
                       guess |-> IF InputOf(l) THEN nexuses[n].guess ELSE "none"]
    BY <1>3, <1>14 DEF Typed
  <2> QED BY <1>13, <2>1, <2>2, <2>3, <2>4 DEF Guesses
<1>18. Typed'
  <2>1. next_' \in [Links -> Links \cup {NoLink}]
    <3>1. next_[l] \in Links \cup {NoLink}
      BY <1>2, <1>3 DEF Typed
    <3> QED BY <1>3, <1>14, <3>1 DEF Typed
  <2>2. nexus' \in [Links -> Links \cup {NoLink}]
    BY <1>3, <1>14 DEF Typed
  <2>3. nexuses' \in [Links -> [last : Links \cup {NoLink}, guess : Guesses]]
    <3>1. nexuses' = [m \in Links |-> nexuses'[m]]
      BY <1>3, <1>14 DEF Typed
    <3>2. \A m \in Links :
             nexuses'[m] \in [last : Links \cup {NoLink}, guess : Guesses]
      BY <1>3, <1>17 DEF Typed
    <3> QED BY <3>1, <3>2
  <2> QED BY <2>1, <2>2, <2>3 DEF Typed
<1>19. /\ \A i \in 1..(N - 1) : w[i] = IF i < k THEN s[i] ELSE s[i + 1]
       /\ ToSet(w) = ToSet(s) \ {l}
       /\ IsInjective(w)
  BY <1>5, <1>9 DEF Shortened, N
<1>20. InputOf(l) => ConstantsOf(ToSet(w)) = ConstantsOf(ToSet(s))
  <2>1. SUFFICES ASSUME InputOf(l) PROVE ConstantsOf(ToSet(w)) = ConstantsOf(ToSet(s))
    OBVIOUS
  <2>2. \A x \in ToSet(w) \cup ToSet(s) :
            (x \in ToSet(w) /\ x \in ToSet(s)) \/ Sort[x] \in {"input", "wire"}
    BY <1>19, <2>1 DEF InputOf
  <2> QED BY <2>2, ConstantKept
<1>21. w # <<>>
  BY <1>6, <1>9, <1>10
<1>22. \A i \in 1..N : i # k => s[i] \in Links /\ s[i] # l /\ (s[i] = prev <=> i = p)
  BY <1>5, <1>7, <1>8, <1>11, <1>13
<1>23. Chained(w, next_', nexus')
  <2>1. ASSUME NEW i \in 1..(N - 2) PROVE next_'[w[i]] = w[i + 1] /\ nexus'[w[i]] = NoLink
    <3>0. i \in 1..(N - 1) /\ i + 1 \in 1..(N - 1) /\ i \in 1..N /\ i + 1 \in 1..N
      BY <1>6, <1>10
    <3>1. CASE i + 1 < k
      <4>1. i < k /\ i # k /\ i # p
        BY <1>6, <3>0, <3>1
      <4>2. w[i] = s[i] /\ w[i + 1] = s[i + 1]
        BY <1>19, <3>0, <3>1, <4>1
      <4>3. s[i] \in Links /\ s[i] # l /\ s[i] # prev
        BY <1>22, <3>0, <4>1
      <4> QED BY <1>7, <1>16, <3>0, <4>2, <4>3
    <3>2. CASE i + 1 = k
      <4>1. i < k /\ i # k /\ i = p /\ ~ (i + 1 < k) /\ k # N /\ k \in 1..(N - 1)
        BY <1>6, <1>10, <3>0, <3>2
      <4>2. w[i] = prev /\ w[i + 1] = s[k + 1]
        <5>1. w[i] = s[i] /\ w[i + 1] = s[(i + 1) + 1]
          BY <1>19, <3>0, <4>1
        <5> QED BY <1>13, <3>2, <4>1, <5>1
      <4>3. next_'[prev] = s[k + 1]
        BY <1>5, <1>7, <1>16, <4>1
      <4>4. nexus'[prev] = nexus[s[i]]
        BY <1>13, <1>16, <4>1
      <4> QED BY <1>7, <3>0, <4>2, <4>3, <4>4
    <3>3. CASE i + 1 > k
      <4>1. /\ ~ (i < k) /\ ~ (i + 1 < k) /\ i + 1 # k /\ i + 1 # p
            /\ (i + 1) + 1 \in 1..N
        BY <1>6, <1>10, <3>0, <3>3
      <4>2. w[i] = s[i + 1] /\ w[i + 1] = s[(i + 1) + 1]
        BY <1>19, <3>0, <4>1
      <4>3. s[i + 1] \in Links /\ s[i + 1] # l /\ s[i + 1] # prev
        BY <1>22, <3>0, <4>1
      <4> QED BY <1>7, <1>16, <3>0, <4>2, <4>3
    <3>4. i + 1 < k \/ i + 1 = k \/ i + 1 > k
      BY <1>6
    <3> QED BY <3>1, <3>2, <3>3, <3>4
  <2>2. 1..(Len(w) - 1) = 1..(N - 2)
    <3>1. Len(w) - 1 = N - 2
      BY <1>6, <1>9
    <3> QED BY <3>1
  <2> QED BY <2>1, <2>2 DEF Chained
<1>24. Closed(n, w, next_', nexus', nexuses')
  <2>0. N - 1 \in 1..(N - 1) /\ 1 \in 1..(N - 1) /\ N - 1 \in 1..N /\ (N - 1) + 1 = N /\ 1 + 1 = 2
    BY <1>6, <1>10
  <2>1. w[Len(w)] = w[N - 1]
    BY <1>9
  <2>2. CASE k = N
    <3>1. N - 1 < k /\ 1 < k /\ p = N - 1
      BY <1>6, <1>10, <2>2
    <3>2. w[N - 1] = prev /\ w[1] = s[1]
      BY <1>13, <1>19, <2>0, <3>1
    <3>3. next_'[prev] = s[1] /\ nexus'[prev] = n /\ nexuses'[n].last = prev
      BY <1>5, <1>7, <1>16, <1>17, <2>2
    <3>4. nexuses'[n].guess \in {"none"} \cup ConstantsOf(ToSet(w))
      BY <1>4, <1>17, <1>20
    <3> QED BY <2>1, <3>2, <3>3, <3>4 DEF Closed
  <2>3. CASE k # N
    <3>1. ~ (N - 1 < k) /\ N \in 1..N /\ k \in 1..(N - 1)
      BY <1>6, <1>10, <2>3
    <3>2. w[N - 1] = s[N]
      BY <1>19, <2>0, <3>1
    <3>3. s[N] \in Links /\ s[N] # l /\ (s[N] = prev <=> N = p)
      BY <1>22, <2>3, <3>1
    <3>4. nexus'[s[N]] = n /\ nexuses'[n].last = s[N]
      BY <1>7, <1>16, <1>17, <2>3, <3>3
    <3>5. next_'[s[N]] = w[1]
      <4>1. CASE k = 1
        <5>1. w[1] = s[2] /\ s[N] = prev
          BY <1>19, <2>0, <3>3, <4>1
        <5>2. next_[l] = s[2]
          BY <1>5, <1>7, <2>0, <3>1, <4>1
        <5> QED BY <1>16, <5>1, <5>2
      <4>2. CASE k # 1
        <5>1. 1 < k /\ N # p
          BY <1>6, <2>3, <4>2
        <5>2. w[1] = s[1]
          BY <1>19, <2>0, <5>1
        <5> QED BY <1>7, <1>16, <3>3, <5>1, <5>2
      <4> QED BY <4>1, <4>2
    <3>6. nexuses'[n].guess \in {"none"} \cup ConstantsOf(ToSet(w))
      BY <1>4, <1>17, <1>20
    <3> QED BY <2>1, <3>2, <3>4, <3>5, <3>6 DEF Closed
  <2> QED BY <2>2, <2>3
<1>25. RingIn(n, w, next_', nexus', nexuses')
  BY <1>9, <1>19, <1>21, <1>23, <1>24, RingMade
<1>26. prev \in ToSet(s)
  BY <1>7, <1>11, <1>13
<1>27. OneChange(R, n, w)
  <2>1. ASSUME NEW x \in Links, x \notin ToSet(R[n]), x \notin ToSet(w)
        PROVE  next_'[x] = next_[x] /\ nexus'[x] = nexus[x]
    BY <1>4, <1>16, <1>26, <2>1
  <2>2. \A x \in ToSet(w) : x \in ToSet(R[n]) \/ ~ Connected(x)
    BY <1>4, <1>19
  <2>3. \A x \in ToSet(R[n]) : x \notin ToSet(w) => next_'[x] = NoLink /\ nexus'[x] = NoLink
    BY <1>4, <1>16, <1>19
  <2>4. nets' = (nets \ {ToSet(R[n])}) \cup ({ToSet(w)} \ {{}})
    BY <1>4, <1>19
  <2> QED BY <1>17, <1>25, <2>1, <2>2, <2>3, <2>4 DEF OneChange
<1> QED BY <1>9, <1>18, <1>27, OneRing

LEMMA GuessKeeps ==
    ASSUME LinksOK, NexusTypeOK, NEW R, Sorted(R), NEW n \in Links, Guess(n)
    PROVE  Sound'
<1> DEFINE s == R[n]
           g == ConstantOf(ToSet(s))
<1>1. s \in Seq(Links) /\ RingIn(n, s, next_, nexus, nexuses) /\ ToSet(s) \subseteq Links
  BY SeqFacts DEF Sorted, RingsIn
<1>2. Ring(n) = s /\ s # <<>>
  BY RingsFound DEF Guess
<1>3. Typed
  BY DEF NexusTypeOK, Typed
<1>4. /\ nexuses' = [nexuses EXCEPT ![n].guess = g]
      /\ next_' = next_ /\ nexus' = nexus /\ nets' = nets
  BY <1>2 DEF Guess
<1>5. g \in Guesses
  BY DEF ConstantOf, Guesses
<1>6. R[n] = s /\ ToSet(s) # {} /\ ToSet(s) \in nets
  BY <1>1, <1>2, SeqFacts DEF Sorted, RingsIn
<1> DEFINE h == ConstantOf(ToSet(s))
<1>7. g = h
  OBVIOUS
<1> HIDE DEF s, g
<1>8. /\ nexuses'[n].guess = g /\ nexuses'[n].last = nexuses[n].last
      /\ \A m \in Links \ {n} : nexuses'[m] = nexuses[m]
  BY <1>3, <1>4 DEF Typed
<1>9. Typed'
  BY <1>3, <1>4, <1>5 DEF Typed
<1>10. RingIn(n, s, next_', nexus', nexuses')
  BY <1>1, <1>4, <1>7, <1>8 DEF RingIn, ConstantsOf
<1>11. OneChange(R, n, s)
  BY <1>4, <1>6, <1>8, <1>10 DEF OneChange
<1> QED BY <1>1, <1>9, <1>11, OneRing

LEMMA ConnectKeeps ==
    ASSUME LinksOK, NexusTypeOK, NEW R, Sorted(R), NEW l \in Links, NEW r \in Links, Connect(l, r)
    PROVE  Sound'
<1>1. /\ l # r
      /\ nets' = (nets \ {NetOf(l), NetOf(r)}) \cup {NetOf(l) \cup NetOf(r)}
  BY DEF Connect
<1>2. CASE Connected(l) /\ ~ Connected(r)
  <2>1. PICK n \in Links : l \in ToSet(R[n])
    BY <1>2, LinkFacts
  <2>2. /\ NetOf(l) = ToSet(R[n]) /\ FindNexus(l) = n /\ R[n] # <<>>
        /\ NetOf(r) = {r} /\ {r} \notin nets
    BY <1>2, <2>1, LinkFacts
  <2>3. AddLink(n, r)
    BY <1>2, <2>2 DEF Connect
  <2>4. nets' = (nets \ {ToSet(R[n])}) \cup {ToSet(R[n]) \cup {r}}
    <3>1. nets \ {NetOf(l), NetOf(r)} = nets \ {ToSet(R[n])}
      BY <2>2
    <3> QED BY <1>1, <2>2, <3>1
  <2> QED BY <1>2, <2>2, <2>3, <2>4, AddLinkKeeps
<1>3. CASE ~ Connected(l) /\ Connected(r)
  <2>1. PICK n \in Links : r \in ToSet(R[n])
    BY <1>3, LinkFacts
  <2>2. /\ NetOf(r) = ToSet(R[n]) /\ FindNexus(r) = n /\ R[n] # <<>>
        /\ NetOf(l) = {l} /\ {l} \notin nets
    BY <1>3, <2>1, LinkFacts
  <2>3. AddLink(n, l)
    BY <1>3, <2>2 DEF Connect
  <2>4. nets' = (nets \ {ToSet(R[n])}) \cup {ToSet(R[n]) \cup {l}}
    <3>1. nets \ {NetOf(l), NetOf(r)} = nets \ {ToSet(R[n])}
      BY <2>2
    <3>2. NetOf(l) \cup NetOf(r) = ToSet(R[n]) \cup {l}
      BY <2>2
    <3> QED BY <1>1, <3>1, <3>2
  <2> QED BY <1>3, <2>2, <2>3, <2>4, AddLinkKeeps
<1>4. CASE ~ Connected(l) /\ ~ Connected(r)
  <2>1. NetOf(l) = {l} /\ NetOf(r) = {r} /\ {l} \notin nets /\ {r} \notin nets
    BY <1>4, LinkFacts
  <2>2. nets' = nets \cup {{l, r}}
    <3>1. {l} \cup {r} = {l, r}
      OBVIOUS
    <3> QED BY <1>1, <2>1, <3>1
  <2> DEFINE n == FreeNexus
  <2>3. /\ next_' = [next_ EXCEPT ![l] = r, ![r] = l]
        /\ nexus' = [nexus EXCEPT ![r] = n]
        /\ nexuses' = [nexuses EXCEPT ![n] = [last |-> r, guess |-> "none"]]
    BY <1>4 DEF Connect
  <2> QED BY <1>1, <1>4, <2>2, <2>3, PairKeeps
<1>5. CASE Connected(l) /\ Connected(r)
  <2>1. PICK n \in Links : l \in ToSet(R[n])
    BY <1>5, LinkFacts
  <2>2. PICK m \in Links : r \in ToSet(R[m])
    BY <1>5, LinkFacts
  <2>3. /\ NetOf(l) = ToSet(R[n]) /\ FindNexus(l) = n /\ R[n] # <<>>
        /\ NetOf(r) = ToSet(R[m]) /\ FindNexus(r) = m /\ R[m] # <<>>
    BY <2>1, <2>2, LinkFacts
  <2>4. CASE n = m
    <3>1. next_' = next_ /\ nexus' = nexus /\ nexuses' = nexuses
      BY <1>5, <2>3, <2>4 DEF Connect
    <3>2. NetOf(l) \in nets
      BY <2>3 DEF Sorted, RingsIn
    <3>3. nets' = nets
      BY <1>1, <2>3, <2>4, <3>2
    <3>4. Sorted(R)'
      BY <3>1, <3>3 DEF Sorted
    <3>5. Typed'
      BY <3>1 DEF NexusTypeOK, Typed
    <3> QED BY <3>4, <3>5 DEF Sound
  <2>5. CASE n # m
    <3>1. Splice(n, m)
      BY <1>5, <2>3, <2>5 DEF Connect
    <3> QED BY <1>1, <2>3, <2>5, <3>1, SpliceKeeps
  <2> QED BY <2>4, <2>5
<1> QED BY <1>2, <1>3, <1>4, <1>5

LEMMA UnlinkKeeps ==
    ASSUME LinksOK, NexusTypeOK, NEW R, Sorted(R), NEW l \in Links, Unlink(l) \/ DeleteLink(l)
    PROVE  Sound'
<1>1. Connected(l) /\ Removed(l)
  BY DEF Unlink, DeleteLink
<1>2. PICK n \in Links : l \in ToSet(R[n])
  BY <1>1, LinkFacts
<1>3. NetOf(l) = ToSet(R[n])
  BY <1>2, LinkFacts
<1>4. CASE DeleteLink(l)
  <2>1. nets' = (nets \ {ToSet(R[n])}) \cup ({ToSet(R[n]) \ {l}} \ {{}})
    BY <1>3, <1>4 DEF DeleteLink
  <2> QED BY <1>1, <1>2, <2>1, LastRemovedKeeps, RemovedKeeps
<1>5. CASE Unlink(l)
  <2>1. next_[l] # l
    BY <1>5 DEF Unlink
  <2>2. ToSet(R[n]) \ {l} # {}
    <3> SUFFICES ASSUME ToSet(R[n]) = {l} PROVE FALSE
      BY <1>2
    <3>1. PICK k \in Links : k \in ToSet(R[n]) /\ next_[l] = k
      BY <1>2, NextIsInRing
    <3> QED BY <2>1, <3>1
  <2>3. nets' = (nets \ {ToSet(R[n])}) \cup ({ToSet(R[n]) \ {l}} \ {{}})
    BY <1>3, <1>5, <2>2 DEF Unlink
  <2> QED BY <1>1, <1>2, <2>1, <2>3, RemovedKeeps
<1> QED BY <1>4, <1>5

-----------------------------------------------------------------------------
LEMMA InitIsSound ==
    ASSUME LinksOK, NexusInit
    PROVE  Sound
<1> DEFINE R == [n \in Links |-> <<>>]
<1>1. R \in [Links -> Seq(Links)] /\ (\A n \in Links : R[n] = <<>>)
  OBVIOUS
<1>2. ToSet(<<>>) = {}
  BY DEF ToSet
<1> HIDE DEF R
<1>3. \A n \in Links : RingIn(n, R[n], next_, nexus, nexuses)
  <2>1. \A n \in Links : nexuses[n].last = NoLink
    BY DEF NexusInit, Unused
  <2> QED BY <1>1, <2>1, NoRing
<1>4. nets = {ToSet(R[n]) : n \in {m \in Links : R[m] # <<>>}}
  BY <1>1 DEF NexusInit
<1>5. \A l \in Links : next_[l] = NoLink /\ nexus[l] = NoLink
  BY DEF NexusInit
<1>6. RingsIn(R, next_, nexus, nexuses, nets)
  BY <1>1, <1>2, <1>3, <1>4, <1>5 DEF RingsIn
<1>7. Typed
  BY DEF NexusInit, Typed, Unused, Guesses
<1> QED BY <1>1, <1>6, <1>7 DEF Sound, Sorted

LEMMA NextIsSound ==
    ASSUME LinksOK, Sound, [NexusNext]_nexusVars
    PROVE  Sound'
<1>1. PICK R : Sorted(R)
  BY DEF Sound
<1>2. NexusTypeOK
  BY <1>1, SoundIsTyped DEF Sound
<1>3. ASSUME NEW l \in Links, NEW r \in Links, Connect(l, r) PROVE Sound'
  BY <1>1, <1>2, <1>3, ConnectKeeps
<1>4. ASSUME NEW l \in Links, UseNexus(l) PROVE Sound'
  BY <1>1, <1>2, <1>4, UseNexusKeeps
<1>5. ASSUME NEW l \in Links, Unlink(l) PROVE Sound'
  BY <1>1, <1>2, <1>5, UnlinkKeeps
<1>6. ASSUME NEW l \in Links, DeleteLink(l) PROVE Sound'
  BY <1>1, <1>2, <1>6, UnlinkKeeps
<1>7. ASSUME NEW n \in Links, Guess(n) PROVE Sound'
  BY <1>1, <1>2, <1>7, GuessKeeps
<1>8. CASE UNCHANGED nexusVars
  BY <1>8 DEF Sound, nexusVars, Typed, Sorted
<1> QED BY <1>3, <1>4, <1>5, <1>6, <1>7, <1>8 DEF NexusNext

(* The inductive invariant NexusInv holds of every reachable state of any  *)
(* pins, whatever their sorts: every nexus has a ring of links of which only *)
(* the last knows it, and the rings are the nets (net_link.cc:33-144,      *)
(* 383-430).                                                               *)
THEOREM Invariance ==
    NexusSpec => []NexusInv
<1>1. NexusInit => Sound
  BY LinksAssumption, InitIsSound
<1>2. Sound /\ [NexusNext]_nexusVars => Sound'
  BY LinksAssumption, NextIsSound
<1>3. Sound => NexusInv
  BY LinksAssumption, SoundIsTyped, RingsFollow DEF Sound
<1> QED BY <1>1, <1>2, <1>3, PTL DEF NexusSpec

(* The rings are the nets that were connected, every link finds the one    *)
(* nexus of its ring, none is left over, and a value that a nexus          *)
(* remembers to be driven with is the one it has, or would have without its *)
(* constants of z (net_link.cc:33-86, 137-144, 386-424; link_const.cc:32-35, *)
(* 139-202).                                                               *)
THEOREM NetsAreRings ==
    NexusSpec => []RingsAreNets
<1>1. NexusInit => Sound
  BY LinksAssumption, InitIsSound
<1>2. Sound /\ [NexusNext]_nexusVars => Sound'
  BY LinksAssumption, NextIsSound
<1>3. Sound => RingsAreNets
  BY LinksAssumption, SoundIsTyped, RingsFollow DEF Sound
<1> QED BY <1>1, <1>2, <1>3, PTL DEF NexusSpec
=============================================================================
