------------------------------- MODULE Lemmas -------------------------------
(***************************************************************************)
(* Facts about numbers and sequences that the proofs of this project share.*)
(***************************************************************************)
EXTENDS Integers, Sequences, SequencesExt, FiniteSetTheorems, SequenceTheorems, TLAPS

(* Every set of natural numbers that is not empty has a least element: the *)
(* intervals 0..n, ordered by inclusion, are well-founded.                 *)
LEMMA LeastElement ==
    ASSUME NEW T \in SUBSET Nat, T # {}
    PROVE  \E n \in T : \A m \in T : n <= m
<1> DEFINE B == {0..n : n \in T}
<1>1. IsWellFoundedOn(StrictSubsetOrdering(Nat), FiniteSubsetsOf(Nat))
  BY FS_StrictSubsetOrderingWellFounded
<1>2. B \subseteq FiniteSubsetsOf(Nat)
  <2>1. SUFFICES ASSUME NEW n \in T PROVE 0..n \in FiniteSubsetsOf(Nat)
    OBVIOUS
  <2>2. n \in Nat
    OBVIOUS
  <2>3. 0..n \in SUBSET Nat
    BY <2>2
  <2>4. IsFiniteSet(0..n)
    BY <2>2, FS_Interval
  <2> QED BY <2>3, <2>4 DEF FiniteSubsetsOf
<1>3. B # {}
  OBVIOUS
<1>4. PICK b \in B : \A c \in B : ~ (<<c, b>> \in StrictSubsetOrdering(Nat))
  <2> HIDE DEF B
  <2> QED BY <1>1, <1>2, <1>3, WFMin
<1>5. PICK n \in T : b = 0..n
  OBVIOUS
<1>6. ASSUME NEW m \in T PROVE n <= m
  <2>1. 0..m \in B
    OBVIOUS
  <2>2. ~ (<<0..m, 0..n>> \in StrictSubsetOrdering(Nat))
    BY <1>4, <1>5, <2>1
  <2>3. n \in Nat /\ m \in Nat
    OBVIOUS
  <2>4. SUFFICES ASSUME m < n PROVE FALSE
    BY <2>3
  <2>5. 0..m \in SUBSET Nat /\ 0..n \in SUBSET Nat
    BY <2>3
  <2>6. 0..m \subseteq 0..n
    BY <2>3, <2>4
  <2>7. n \in 0..n /\ n \notin 0..m
    BY <2>3, <2>4
  <2>8. 0..m # 0..n
    BY <2>7
  <2> QED BY <2>2, <2>5, <2>6, <2>8 DEF StrictSubsetOrdering
<1> QED BY <1>6

(* Induction, for a set instead of a formula. *)
LEMMA NatIsInductive ==
    ASSUME NEW S, 0 \in S, \A n \in Nat : n \in S => n + 1 \in S
    PROVE  Nat \subseteq S
<1> SUFFICES ASSUME Nat \ S # {} PROVE FALSE
  OBVIOUS
<1>1. PICK n \in Nat \ S : \A m \in Nat \ S : n <= m
  BY LeastElement, (Nat \ S) \in SUBSET Nat
<1>2. n # 0
  OBVIOUS
<1>3. n - 1 \in Nat /\ ~ (n <= n - 1) /\ (n - 1) + 1 = n
  BY <1>2
<1>4. n - 1 \in S
  BY <1>1, <1>3
<1> QED BY <1>3, <1>4

-----------------------------------------------------------------------------
(* m is s with x as its k-th element and the rest after it.                *)
Widened(s, k, x, m) ==
    /\ Len(m) = Len(s) + 1
    /\ \A i \in 1..(Len(s) + 1) :
          m[i] = IF i < k THEN s[i] ELSE IF i = k THEN x ELSE s[i - 1]

LEMMA InsertAtProperties ==
    ASSUME NEW S, NEW s \in Seq(S), NEW k \in 1..Len(s), NEW x \in S
    PROVE  InsertAt(s, k, x) \in Seq(S) /\ Widened(s, k, x, InsertAt(s, k, x))
<1> DEFINE a == SubSeq(s, 1, k - 1)
           b == SubSeq(s, k, Len(s))
<1>0. Len(s) \in Nat /\ k \in Nat /\ 1 <= k /\ k <= Len(s)
  OBVIOUS
<1>1. /\ a \in Seq(S) /\ Len(a) = k - 1
      /\ \A i \in 1..(k - 1) : a[i] = s[i]
  BY <1>0, SubSeqProperties
<1>2. /\ b \in Seq(S) /\ Len(b) = Len(s) - k + 1
      /\ \A i \in 1..(Len(s) - k + 1) : b[i] = s[k + i - 1]
  BY <1>0, SubSeqProperties
<1>3. <<x>> \in Seq(S) /\ Len(<<x>>) = 1 /\ <<x>>[1] = x
  OBVIOUS
<1> HIDE DEF a, b
<1>4. /\ a \o <<x>> \in Seq(S) /\ Len(a \o <<x>>) = k
      /\ \A i \in 1..(k - 1) : (a \o <<x>>)[i] = s[i]
      /\ (a \o <<x>>)[k] = x
  BY <1>0, <1>1, <1>3, ConcatProperties
<1>5. /\ (a \o <<x>>) \o b \in Seq(S)
      /\ Len((a \o <<x>>) \o b) = Len(s) + 1
      /\ \A i \in 1..k : ((a \o <<x>>) \o b)[i] = (a \o <<x>>)[i]
      /\ \A i \in (k + 1)..(Len(s) + 1) :
            ((a \o <<x>>) \o b)[i] = b[i - k]
  <2> DEFINE c == a \o <<x>>
  <2>1. c \in Seq(S) /\ Len(c) = k
    BY <1>4
  <2> HIDE DEF c
  <2>2. /\ c \o b \in Seq(S)
        /\ Len(c \o b) = Len(c) + Len(b)
        /\ \A i \in 1..(Len(c) + Len(b)) :
             (c \o b)[i] = IF i <= Len(c) THEN c[i] ELSE b[i - Len(c)]
    BY <1>2, <2>1, ConcatProperties
  <2>3. k + (Len(s) - k + 1) = Len(s) + 1
    BY <1>0
  <2>4. \A i \in 1..k : i \in 1..(Len(s) + 1) /\ i <= k
    BY <1>0
  <2>5. \A i \in (k + 1)..(Len(s) + 1) : i \in 1..(Len(s) + 1) /\ ~ (i <= k)
    BY <1>0
  <2>6. \A i \in 1..(Len(s) + 1) :
             (c \o b)[i] = IF i <= k THEN c[i] ELSE b[i - k]
    BY <1>2, <2>1, <2>2, <2>3
  <2>7. Len(c \o b) = Len(s) + 1
    BY <1>2, <2>1, <2>2, <2>3
  <2> QED BY <2>2, <2>4, <2>5, <2>6, <2>7 DEF c
<1>6. \A i \in (k + 1)..(Len(s) + 1) : b[i - k] = s[i - 1]
  BY <1>0, <1>2
<1>7. InsertAt(s, k, x) = (a \o <<x>>) \o b
  BY DEF InsertAt, a, b
<1> QED BY <1>0, <1>4, <1>5, <1>6, <1>7 DEF Widened

LEMMA ToSetAppend ==
    ASSUME NEW S, NEW s \in Seq(S), NEW x \in S
    PROVE  ToSet(Append(s, x)) = ToSet(s) \cup {x}
<1>1. /\ Len(Append(s, x)) = Len(s) + 1
      /\ Append(s, x) \in Seq(S)
      /\ \A i \in 1..Len(s) : Append(s, x)[i] = s[i]
      /\ Append(s, x)[Len(s) + 1] = x
  BY AppendProperties
<1>2. DOMAIN s = 1..Len(s) /\ DOMAIN Append(s, x) = 1..(Len(s) + 1) /\ Len(s) \in Nat
  BY <1>1
<1>3. ASSUME NEW y \in ToSet(Append(s, x)) PROVE y \in ToSet(s) \cup {x}
  <2>1. PICK i \in 1..(Len(s) + 1) : y = Append(s, x)[i]
    BY <1>2 DEF ToSet
  <2> QED BY <1>1, <1>2, <2>1 DEF ToSet
<1>4. ASSUME NEW y \in ToSet(s) PROVE y \in ToSet(Append(s, x))
  BY <1>1, <1>2 DEF ToSet
<1>5. x \in ToSet(Append(s, x))
  BY <1>1, <1>2 DEF ToSet
<1> QED BY <1>3, <1>4, <1>5

LEMMA ToSetCons ==
    ASSUME NEW S, NEW s \in Seq(S), NEW x \in S
    PROVE  /\ ToSet(<<x>> \o s) = ToSet(s) \cup {x}
           /\ <<x>> \o s \in Seq(S)
<1>1. /\ Len(<<x>> \o s) = Len(s) + 1
      /\ <<x>> \o s \in Seq(S)
      /\ (<<x>> \o s)[1] = x
      /\ \A i \in 1..Len(s) : (<<x>> \o s)[i + 1] = s[i]
  OBVIOUS
<1>2. DOMAIN s = 1..Len(s) /\ DOMAIN (<<x>> \o s) = 1..(Len(s) + 1) /\ Len(s) \in Nat
  BY <1>1
<1>3. ASSUME NEW y \in ToSet(<<x>> \o s) PROVE y \in ToSet(s) \cup {x}
  <2>1. PICK i \in 1..(Len(s) + 1) : y = (<<x>> \o s)[i]
    BY <1>2 DEF ToSet
  <2>2. CASE i = 1
    BY <1>1, <2>1, <2>2
  <2>3. CASE i # 1
    <3>1. i - 1 \in 1..Len(s) /\ (i - 1) + 1 = i
      BY <1>2, <2>3
    <3> QED BY <1>1, <1>2, <2>1, <3>1 DEF ToSet
  <2> QED BY <2>2, <2>3
<1>4. ASSUME NEW y \in ToSet(s) PROVE y \in ToSet(<<x>> \o s)
  <2>1. PICK i \in 1..Len(s) : y = s[i]
    BY <1>2 DEF ToSet
  <2>2. i + 1 \in 1..(Len(s) + 1)
    BY <1>2
  <2> QED BY <1>1, <1>2, <2>1, <2>2 DEF ToSet
<1>5. x \in ToSet(<<x>> \o s)
  BY <1>1, <1>2 DEF ToSet
<1> QED BY <1>1, <1>3, <1>4, <1>5

LEMMA ToSetHeadTail ==
    ASSUME NEW S, NEW s \in Seq(S), s # <<>>
    PROVE  /\ Tail(s) \in Seq(S)
           /\ Head(s) \in S
           /\ ToSet(s) = {Head(s)} \cup ToSet(Tail(s))
<1>1. /\ Tail(s) \in Seq(S) /\ Head(s) \in S /\ Head(s) = s[1]
      /\ Len(Tail(s)) = Len(s) - 1
      /\ \A i \in 1..Len(Tail(s)) : Tail(s)[i] = s[i + 1]
      /\ Len(s) \in Nat /\ Len(s) # 0
  OBVIOUS
<1>2. DOMAIN s = 1..Len(s) /\ DOMAIN Tail(s) = 1..(Len(s) - 1)
  BY <1>1
<1>3. ASSUME NEW y \in ToSet(s) PROVE y \in {Head(s)} \cup ToSet(Tail(s))
  <2>1. PICK i \in 1..Len(s) : y = s[i]
    BY <1>2 DEF ToSet
  <2>2. CASE i = 1
    BY <1>1, <2>1, <2>2
  <2>3. CASE i # 1
    <3>1. i - 1 \in 1..(Len(s) - 1) /\ (i - 1) + 1 = i
      BY <1>1, <2>3
    <3> QED BY <1>1, <1>2, <2>1, <3>1, ZenonT(30) DEF ToSet
  <2> QED BY <2>2, <2>3
<1>4. ASSUME NEW y \in ToSet(Tail(s)) PROVE y \in ToSet(s)
  <2>1. PICK i \in 1..(Len(s) - 1) : y = Tail(s)[i]
    BY <1>2 DEF ToSet
  <2>2. i + 1 \in 1..Len(s)
    BY <1>1
  <2> QED BY <1>1, <1>2, <2>1, <2>2 DEF ToSet
<1>5. Head(s) \in ToSet(s)
  BY <1>1, <1>2 DEF ToSet
<1> QED BY <1>1, <1>3, <1>4, <1>5

(* A sequence without repetitions, less its head or with a new one.        *)
LEMMA TailInjective ==
    ASSUME NEW S, NEW l \in Seq(S), l # <<>>, IsInjective(l)
    PROVE  /\ Tail(l) \in Seq(S) /\ Head(l) \in S
           /\ IsInjective(Tail(l)) /\ ToSet(Tail(l)) = ToSet(l) \ {Head(l)}
           /\ Head(l) \in ToSet(l)
<1>1. /\ Tail(l) \in Seq(S) /\ Head(l) \in S /\ Head(l) = l[1]
      /\ Len(l) \in Nat /\ Len(l) > 0 /\ DOMAIN l = 1..Len(l)
      /\ DOMAIN Tail(l) = 1..(Len(l) - 1)
      /\ \A i \in 1..(Len(l) - 1) : Tail(l)[i] = l[i + 1]
  OBVIOUS
<1>2. IsInjective(Tail(l))
  BY <1>1 DEF IsInjective
<1>3. ToSet(l) = {Head(l)} \cup ToSet(Tail(l))
  BY ToSetHeadTail
<1>4. ASSUME Head(l) \in ToSet(Tail(l)) PROVE FALSE
  <2>1. PICK i \in 1..(Len(l) - 1) : Tail(l)[i] = Head(l)
    BY <1>1, <1>4 DEF ToSet
  <2>2. l[i + 1] = l[1] /\ i + 1 \in DOMAIN l /\ 1 \in DOMAIN l /\ i + 1 # 1
    BY <1>1, <2>1
  <2> QED BY <2>2 DEF IsInjective
<1> QED BY <1>1, <1>2, <1>3, <1>4

LEMMA ConsInjective ==
    ASSUME NEW S, NEW l \in Seq(S), NEW x \in S, x \notin ToSet(l), IsInjective(l)
    PROVE  /\ <<x>> \o l \in Seq(S)
           /\ IsInjective(<<x>> \o l) /\ ToSet(<<x>> \o l) = ToSet(l) \cup {x}
<1> DEFINE p == <<x>> \o l
<1>1. /\ p \in Seq(S) /\ p[1] = x
      /\ Len(l) \in Nat /\ DOMAIN l = 1..Len(l)
      /\ DOMAIN p = 1..(Len(l) + 1)
      /\ \A i \in 2..(Len(l) + 1) : p[i] = l[i - 1]
  OBVIOUS
<1>2. ToSet(p) = ToSet(l) \cup {x}
  BY ToSetCons
<1> HIDE DEF p
<1>3. \A i \in 1..Len(l) : l[i] # x
  BY <1>1 DEF ToSet
<1>4. ASSUME NEW i \in DOMAIN p, NEW j \in DOMAIN p, p[i] = p[j] PROVE i = j
  <2>1. CASE i = 1 /\ j # 1
    <3>1. p[j] = l[j - 1] /\ j - 1 \in 1..Len(l)
      BY <1>1, <2>1
    <3> QED BY <1>1, <1>3, <1>4, <2>1, <3>1
  <2>2. CASE j = 1 /\ i # 1
    <3>1. p[i] = l[i - 1] /\ i - 1 \in 1..Len(l)
      BY <1>1, <2>2
    <3> QED BY <1>1, <1>3, <1>4, <2>2, <3>1
  <2>3. CASE i # 1 /\ j # 1
    <3>1. /\ p[i] = l[i - 1] /\ i - 1 \in DOMAIN l
          /\ p[j] = l[j - 1] /\ j - 1 \in DOMAIN l
      BY <1>1, <2>3
    <3>2. i - 1 = j - 1
      BY <1>4, <3>1 DEF IsInjective
    <3> QED BY <1>1, <3>2
  <2> QED BY <2>1, <2>2, <2>3
<1>5. IsInjective(p)
  BY <1>4 DEF IsInjective
<1> QED BY <1>1, <1>2, <1>5 DEF p

(* A function that is defined by steps from 0 to N exists.                  *)
Iterates(T, F, a, N) ==
    \E g \in [0..N -> T] : g[0] = a /\ \A n \in 1..N : g[n] = F[g[n - 1]]

LEMMA IterationExists ==
    ASSUME NEW T, NEW F \in [T -> T], NEW a \in T, NEW N \in Nat
    PROVE  Iterates(T, F, a, N)
<1> DEFINE Upto(n) == \E g \in [0..n -> T] :
                          g[0] = a /\ \A i \in 1..n : g[i] = F[g[i - 1]]
           S == {n \in Nat : Upto(n)}
<1>1. 0 \in S
  <2> DEFINE g == [i \in 0..0 |-> a]
  <2>1. g \in [0..0 -> T] /\ g[0] = a /\ 1..0 = {}
    OBVIOUS
  <2> HIDE DEF g
  <2> QED BY <2>1
<1>2. ASSUME NEW n \in Nat, n \in S PROVE n + 1 \in S
  <2>1. PICK g \in [0..n -> T] : g[0] = a /\ \A i \in 1..n : g[i] = F[g[i - 1]]
    BY <1>2
  <2> DEFINE h == [i \in 0..(n + 1) |-> IF i = n + 1 THEN F[g[n]] ELSE g[i]]
  <2>2. n \in 0..n /\ g[n] \in T /\ F[g[n]] \in T
    BY <2>1
  <2>3. h \in [0..(n + 1) -> T] /\ h[0] = a
    BY <2>1, <2>2
  <2>4. ASSUME NEW i \in 1..(n + 1) PROVE h[i] = F[h[i - 1]]
    <3>1. CASE i = n + 1
      <4>1. i - 1 = n /\ n \in 0..(n + 1) /\ n # n + 1
        BY <3>1
      <4>2. h[i] = F[g[n]] /\ h[i - 1] = g[n]
        BY <3>1, <4>1
      <4> QED BY <4>2
    <3>2. CASE i # n + 1
      <4>1. i \in 1..n /\ i - 1 \in 0..n /\ i - 1 # n + 1
        BY <3>2
      <4>2. h[i] = g[i] /\ h[i - 1] = g[i - 1]
        BY <4>1
      <4> QED BY <2>1, <4>1, <4>2
    <3> QED BY <3>1, <3>2
  <2> HIDE DEF h
  <2>5. Upto(n + 1)
    BY <2>3, <2>4
  <2> QED BY <2>5
<1> HIDE DEF S
<1>3. Nat \subseteq S
  BY <1>1, <1>2, NatIsInductive
<1>4. N \in S
  BY <1>3
<1> QED BY <1>4 DEF S, Iterates

(* A stack as a sequence with the top first: push, exchange the top, pop.   *)
Pushed(s, x, u) ==
    /\ Len(u) = Len(s) + 1 /\ DOMAIN u = 1..(Len(s) + 1) /\ DOMAIN s = 1..Len(s)
    /\ u # <<>> /\ Head(u) = x /\ u[1] = x
    /\ \A i \in 1..Len(s) : u[i + 1] = s[i]
    /\ \A i \in 2..Len(u) : u[i] = s[i - 1]

Exchanged(s, x, u) ==
    /\ Len(u) = Len(s) /\ DOMAIN u = 1..Len(s) /\ DOMAIN s = 1..Len(s) /\ Len(s) >= 1
    /\ u # <<>> /\ Head(u) = x /\ u[1] = x
    /\ \A i \in 2..Len(s) : u[i] = s[i]

Popped(s, u) ==
    /\ Len(u) = Len(s) - 1 /\ DOMAIN u = 1..(Len(s) - 1) /\ DOMAIN s = 1..Len(s)
    /\ Len(s) >= 1
    /\ \A i \in 1..(Len(s) - 1) : u[i] = s[i + 1]

LEMMA StackSteps ==
    ASSUME NEW S, NEW s \in Seq(S), NEW x \in S
    PROVE  /\ Len(s) \in Nat
           /\ <<x>> \o s \in Seq(S) /\ Pushed(s, x, <<x>> \o s)
           /\ s # <<>> => /\ Head(s) = s[1] /\ s[1] \in S
                         /\ <<x>> \o Tail(s) \in Seq(S)
                         /\ Exchanged(s, x, <<x>> \o Tail(s))
<1>1. Len(s) \in Nat /\ DOMAIN s = 1..Len(s)
  OBVIOUS
<1>2. <<x>> \o s \in Seq(S) /\ Pushed(s, x, <<x>> \o s)
  BY <1>1 DEF Pushed
<1>3. ASSUME s # <<>>
      PROVE  /\ Head(s) = s[1] /\ s[1] \in S
             /\ <<x>> \o Tail(s) \in Seq(S)
             /\ Exchanged(s, x, <<x>> \o Tail(s))
  <2>1. /\ Tail(s) \in Seq(S) /\ Len(s) >= 1 /\ Len(Tail(s)) = Len(s) - 1
        /\ \A i \in 1..(Len(s) - 1) : Tail(s)[i] = s[i + 1]
    BY <1>1, <1>3
  <2> DEFINE r == Tail(s)
  <2> HIDE DEF r
  <2>2. r \in Seq(S) /\ Len(r) = Len(s) - 1 /\ \A i \in 1..(Len(s) - 1) : r[i] = s[i + 1]
    BY <2>1 DEF r
  <2> DEFINE u == <<x>> \o r
  <2>3. /\ u \in Seq(S) /\ Len(u) = Len(r) + 1 /\ u[1] = x
        /\ \A i \in 2..(Len(r) + 1) : u[i] = r[i - 1]
    BY <2>2
  <2> HIDE DEF u
  <2>4. Len(u) = Len(s) /\ DOMAIN u = 1..Len(s) /\ u # <<>> /\ Head(u) = x
    BY <1>1, <2>1, <2>2, <2>3
  <2>5. \A i \in 2..Len(s) : u[i] = s[i]
    BY <1>1, <2>2, <2>3
  <2>6. Exchanged(s, x, u)
    BY <1>1, <2>1, <2>3, <2>4, <2>5 DEF Exchanged
  <2> QED BY <1>1, <1>3, <2>1, <2>3, <2>6 DEF r, u
<1> QED BY <1>1, <1>2, <1>3

LEMMA StackPops ==
    ASSUME NEW S, NEW s \in Seq(S), s # <<>>
    PROVE  /\ Tail(s) \in Seq(S) /\ Popped(s, Tail(s)) /\ Head(s) = s[1] /\ s[1] \in S
           /\ (Tail(s) = <<>>) = (Len(s) = 1)
<1>1. /\ Len(s) \in Nat /\ DOMAIN s = 1..Len(s) /\ Len(s) >= 1
      /\ Tail(s) \in Seq(S) /\ Len(Tail(s)) = Len(s) - 1
      /\ \A i \in 1..(Len(s) - 1) : Tail(s)[i] = s[i + 1]
      /\ Head(s) = s[1] /\ s[1] \in S
  OBVIOUS
<1> DEFINE r == Tail(s)
<1> HIDE DEF r
<1>2. /\ r \in Seq(S) /\ Len(r) = Len(s) - 1
      /\ \A i \in 1..(Len(s) - 1) : r[i] = s[i + 1]
  BY <1>1 DEF r
<1>3. DOMAIN r = 1..(Len(s) - 1) /\ (r = <<>>) = (Len(s) = 1)
  BY <1>1, <1>2
<1>4. Popped(s, r)
  BY <1>1, <1>2, <1>3 DEF Popped
<1> QED BY <1>1, <1>2, <1>3, <1>4 DEF r
(* r is s without its i-th element. *)
Taken(S, s, i, r) ==
    /\ r \in Seq(S) /\ Len(r) = Len(s) - 1
    /\ \A j \in 1..(i - 1) : r[j] = s[j]
    /\ \A j \in (i + 1)..Len(s) : r[j - 1] = s[j]

LEMMA TakenOut ==
    ASSUME NEW S, NEW s \in Seq(S), NEW i \in 1..Len(s)
    PROVE  Taken(S, s, i, SubSeq(s, 1, i - 1) \o SubSeq(s, i + 1, Len(s)))
<1> DEFINE a == SubSeq(s, 1, i - 1)
           b == SubSeq(s, i + 1, Len(s))
           r == a \o b
<1>1. Len(s) \in Nat /\ i \in Nat /\ 1 <= i /\ i <= Len(s) /\ DOMAIN s = 1..Len(s)
  OBVIOUS
<1>2. \A j \in 1..(i - 1) : s[j] \in S
  BY <1>1
<1>3. a \in Seq(S) /\ Len(a) = i - 1 /\ \A j \in 1..(i - 1) : a[j] = s[j]
  BY <1>1, <1>2
<1>4. \A j \in (i + 1)..Len(s) : s[j] \in S
  BY <1>1
<1>5. b \in Seq(S) /\ Len(b) = Len(s) - i /\ \A j \in 1..(Len(s) - i) : b[j] = s[i + j]
  <2>1. i + 1 \in 1..(Len(s) + 1) /\ Len(s) \in (i + 1) - 1 .. Len(s)
    BY <1>1
  <2>2. /\ SubSeq(s, i + 1, Len(s)) \in Seq(S)
        /\ Len(SubSeq(s, i + 1, Len(s))) = Len(s) - (i + 1) + 1
        /\ \A j \in 1..(Len(s) - (i + 1) + 1) : SubSeq(s, i + 1, Len(s))[j] = s[(i + 1) + j - 1]
    BY <1>4, <2>1, SubSeqProperties
  <2>3. Len(s) - (i + 1) + 1 = Len(s) - i /\ \A j \in 1..(Len(s) - i) : (i + 1) + j - 1 = i + j
    BY <1>1
  <2> QED BY <2>2, <2>3
<1> HIDE DEF a, b
<1>6. r \in Seq(S) /\ Len(r) = Len(s) - 1
  <2>1. r \in Seq(S) /\ Len(r) = Len(a) + Len(b)
    BY <1>3, <1>5, ConcatProperties
  <2> QED BY <1>1, <1>3, <1>5, <2>1
<1>7. \A j \in 1..(i - 1) : r[j] = s[j]
  BY <1>1, <1>3, <1>5
<1>8. ASSUME NEW j \in (i + 1)..Len(s) PROVE r[j - 1] = s[j]
  <2>1. j - 1 \in Len(a) + 1..Len(a) + Len(b) /\ j - 1 - Len(a) \in 1..(Len(s) - i)
        /\ i + (j - 1 - Len(a)) = j
    BY <1>1, <1>3, <1>5
  <2>2. r[j - 1] = b[j - 1 - Len(a)]
    BY <1>3, <1>5, <2>1
  <2> QED BY <1>5, <2>1, <2>2
<1> QED BY <1>6, <1>7, <1>8 DEF Taken, a, b

(* A sequence without repetitions, less one of its elements.               *)
LEMMA TakenInjective ==
    ASSUME NEW S, NEW s \in Seq(S), NEW i \in 1..Len(s), NEW r, Taken(S, s, i, r),
           IsInjective(s)
    PROVE  IsInjective(r) /\ ToSet(r) = ToSet(s) \ {s[i]}
<1>1. /\ r \in Seq(S) /\ Len(r) = Len(s) - 1 /\ Len(s) \in Nat
      /\ DOMAIN s = 1..Len(s) /\ DOMAIN r = 1..(Len(s) - 1)
  BY DEF Taken
<1> DEFINE Old(j) == IF j < i THEN j ELSE j + 1
<1>2. ASSUME NEW j \in DOMAIN r PROVE Old(j) \in DOMAIN s /\ Old(j) # i /\ r[j] = s[Old(j)]
  <2>1. j < i => j \in 1..(i - 1)
    BY <1>1
  <2>2. ~ (j < i) => j + 1 \in (i + 1)..Len(s) /\ (j + 1) - 1 = j
    BY <1>1
  <2> QED BY <1>1, <2>1, <2>2 DEF Taken
<1>3. \A j, k \in DOMAIN s : s[j] = s[k] => j = k
  BY DEF IsInjective
<1>4. \A j, k \in DOMAIN r : Old(j) = Old(k) => j = k
  BY <1>1
<1>5. IsInjective(r)
  BY <1>2, <1>3, <1>4 DEF IsInjective
<1>6. ASSUME NEW x \in ToSet(r) PROVE x \in ToSet(s) \ {s[i]}
  <2>1. PICK j \in DOMAIN r : r[j] = x
    BY <1>6 DEF ToSet
  <2>2. i \in DOMAIN s
    BY <1>1
  <2> QED BY <1>2, <1>3, <2>1, <2>2 DEF ToSet
<1>7. ASSUME NEW x \in ToSet(s) \ {s[i]} PROVE x \in ToSet(r)
  <2>1. PICK k \in DOMAIN s : s[k] = x /\ k # i
    BY <1>7 DEF ToSet
  <2>2. \E j \in DOMAIN r : Old(j) = k
    <3>1. CASE k < i
      BY <1>1, <2>1, <3>1
    <3>2. CASE k > i
      <4>1. k - 1 \in DOMAIN r /\ Old(k - 1) = k
        BY <1>1, <2>1, <3>2
      <4> QED BY <4>1
    <3> QED BY <1>1, <2>1, <3>1, <3>2
  <2> QED BY <1>2, <2>1, <2>2 DEF ToSet
<1> QED BY <1>5, <1>6, <1>7
=============================================================================
