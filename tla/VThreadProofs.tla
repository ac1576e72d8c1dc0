--------------------------- MODULE VThreadProofs ---------------------------
(***************************************************************************)
(* Proofs about the threads of the run time, VThread.tla.                  *)
(***************************************************************************)
EXTENDS VThread, Lemmas

-----------------------------------------------------------------------------
(* The lists of threads in the events.                                     *)

LEMMA InListsMember ==
    ASSUME NEW q
    PROVE  /\ \A i \in DOMAIN q : ToSet(q[i]) \subseteq InLists(q)
           /\ \A x \in InLists(q) : \E i \in DOMAIN q : x \in ToSet(q[i])
BY DEF InLists

(* Every list of p is one of q or the list l, which is in p once: then what *)
(* is in p is what was in q, and l.                                         *)
Adds(p, q, l) ==
    \E k \in DOMAIN p :
        /\ p[k] = l
        /\ \E f \in [DOMAIN p \ {k} -> DOMAIN q] :
            /\ \A i \in DOMAIN p \ {k} : p[i] = q[f[i]]
            /\ \A i, j \in DOMAIN p \ {k} : i # j => f[i] # f[j]
            /\ \A m \in DOMAIN q : \E i \in DOMAIN p \ {k} : f[i] = m

LEMMA AddsLists ==
    ASSUME NEW p, NEW q, NEW l, Adds(p, q, l)
    PROVE  InLists(p) = InLists(q) \cup ToSet(l)
<1>0. PICK k \in DOMAIN p : /\ p[k] = l
                           /\ \E f \in [DOMAIN p \ {k} -> DOMAIN q] :
                                /\ \A i \in DOMAIN p \ {k} : p[i] = q[f[i]]
                                /\ \A i, j \in DOMAIN p \ {k} : i # j => f[i] # f[j]
                                /\ \A m \in DOMAIN q : \E i \in DOMAIN p \ {k} : f[i] = m
  BY DEF Adds
<1>1. PICK f \in [DOMAIN p \ {k} -> DOMAIN q] :
        /\ p[k] = l
        /\ \A i \in DOMAIN p \ {k} : p[i] = q[f[i]]
        /\ \A i, j \in DOMAIN p \ {k} : i # j => f[i] # f[j]
        /\ \A m \in DOMAIN q : \E i \in DOMAIN p \ {k} : f[i] = m
  BY <1>0
<1>2. ASSUME NEW x \in InLists(p) PROVE x \in InLists(q) \cup ToSet(l)
  <2>1. PICK i \in DOMAIN p : x \in ToSet(p[i])
    BY <1>2, InListsMember
  <2>2. CASE i = k
    BY <1>1, <2>1, <2>2
  <2>3. CASE i # k
    <3>1. f[i] \in DOMAIN q /\ p[i] = q[f[i]]
      BY <1>1, <2>3
    <3> QED BY <2>1, <3>1, InListsMember
  <2> QED BY <2>2, <2>3
<1>3. ASSUME NEW x \in InLists(q) PROVE x \in InLists(p)
  <2>1. PICK m \in DOMAIN q : x \in ToSet(q[m])
    BY <1>3, InListsMember
  <2>2. PICK i \in DOMAIN p \ {k} : f[i] = m
    BY <1>1
  <2>3. p[i] = q[m]
    BY <1>1, <2>2
  <2> QED BY <2>1, <2>3, InListsMember
<1>4. ToSet(l) \subseteq InLists(p)
  BY <1>1, InListsMember
<1> QED BY <1>2, <1>3, <1>4

LEMMA AddsNoneTwice ==
    ASSUME NEW p, NEW q, NEW l, NEW r, NEW D, Adds(p, q, l), NoneTwice(q, r, D),
           IsInjective(l),
           ToSet(l) \cap (InLists(q) \cup ToSet(r) \cup D) = {}
    PROVE  NoneTwice(p, r, D)
<1>0. PICK k \in DOMAIN p : /\ p[k] = l
                           /\ \E f \in [DOMAIN p \ {k} -> DOMAIN q] :
                                /\ \A i \in DOMAIN p \ {k} : p[i] = q[f[i]]
                                /\ \A i, j \in DOMAIN p \ {k} : i # j => f[i] # f[j]
                                /\ \A m \in DOMAIN q : \E i \in DOMAIN p \ {k} : f[i] = m
  BY DEF Adds
<1>1. PICK f \in [DOMAIN p \ {k} -> DOMAIN q] :
        /\ p[k] = l
        /\ \A i \in DOMAIN p \ {k} : p[i] = q[f[i]]
        /\ \A i, j \in DOMAIN p \ {k} : i # j => f[i] # f[j]
  BY <1>0
<1>2. ASSUME NEW i \in DOMAIN p PROVE IsInjective(p[i])
  <2>1. CASE i = k
    BY <1>1, <2>1
  <2>2. CASE i # k
    <3>1. f[i] \in DOMAIN q /\ p[i] = q[f[i]]
      BY <1>1, <2>2
    <3> QED BY <3>1 DEF NoneTwice
  <2> QED BY <2>1, <2>2
<1>3. ASSUME NEW i \in DOMAIN p, i # k PROVE ToSet(p[i]) \cap ToSet(l) = {}
  <2>1. f[i] \in DOMAIN q /\ p[i] = q[f[i]]
    BY <1>1, <1>3
  <2>2. ToSet(p[i]) \subseteq InLists(q)
    BY <2>1, InListsMember
  <2> QED BY <2>2
<1>4. ASSUME NEW i \in DOMAIN p, NEW j \in DOMAIN p, i # j
      PROVE  ToSet(p[i]) \cap ToSet(p[j]) = {}
  <2>1. CASE i = k
    BY <1>1, <1>3, <1>4, <2>1
  <2>2. CASE j = k
    BY <1>1, <1>3, <1>4, <2>2
  <2>3. CASE i # k /\ j # k
    <3>1. /\ f[i] \in DOMAIN q /\ p[i] = q[f[i]]
          /\ f[j] \in DOMAIN q /\ p[j] = q[f[j]]
          /\ f[i] # f[j]
      BY <1>1, <1>4, <2>3
    <3> QED BY <3>1 DEF NoneTwice
  <2> QED BY <2>1, <2>2, <2>3
<1>5. InLists(p) = InLists(q) \cup ToSet(l)
  BY AddsLists
<1>6. /\ IsInjective(r)
      /\ InLists(q) \cap ToSet(r) = {} /\ InLists(q) \cap D = {} /\ ToSet(r) \cap D = {}
  BY DEF NoneTwice
<1>7. InLists(p) \cap ToSet(r) = {} /\ InLists(p) \cap D = {}
  BY <1>5, <1>6
<1> QED BY <1>2, <1>4, <1>6, <1>7 DEF NoneTwice

(* There are no empty lists. *)
Filled(q) == \A i \in DOMAIN q : q[i] # <<>>

LEMMA AddsFilled ==
    ASSUME NEW p, NEW q, NEW l, Adds(p, q, l)
    PROVE  Filled(p) <=> Filled(q) /\ l # <<>>
<1>0. PICK k \in DOMAIN p : /\ p[k] = l
                           /\ \E f \in [DOMAIN p \ {k} -> DOMAIN q] :
                                /\ \A i \in DOMAIN p \ {k} : p[i] = q[f[i]]
                                /\ \A i, j \in DOMAIN p \ {k} : i # j => f[i] # f[j]
                                /\ \A m \in DOMAIN q : \E i \in DOMAIN p \ {k} : f[i] = m
  BY DEF Adds
<1>1. PICK f \in [DOMAIN p \ {k} -> DOMAIN q] :
        /\ \A i \in DOMAIN p \ {k} : p[i] = q[f[i]]
        /\ \A m \in DOMAIN q : \E i \in DOMAIN p \ {k} : f[i] = m
  BY <1>0
<1>2. ASSUME Filled(p) PROVE Filled(q) /\ l # <<>>
  <2>1. \A m \in DOMAIN q : q[m] # <<>>
    BY <1>1, <1>2 DEF Filled
  <2> QED BY <1>0, <1>2, <2>1 DEF Filled
<1>3. ASSUME Filled(q), l # <<>> PROVE Filled(p)
  <2> SUFFICES ASSUME NEW i \in DOMAIN p PROVE p[i] # <<>>
    BY DEF Filled
  <2>1. CASE i = k
    BY <1>0, <1>3, <2>1
  <2>2. CASE i # k
    <3>1. f[i] \in DOMAIN q /\ p[i] = q[f[i]]
      BY <1>1, <2>2
    <3> QED BY <1>3, <3>1 DEF Filled
  <2> QED BY <2>1, <2>2
<1> QED BY <1>2, <1>3

LEMMA AppendAdds ==
    ASSUME NEW S, NEW q \in Seq(S), NEW l \in S
    PROVE  Adds(Append(q, l), q, l) /\ Append(q, l) \in Seq(S)
<1> DEFINE p == Append(q, l)
           k == Len(q) + 1
           f == [i \in DOMAIN p \ {k} |-> i]
<1>1. /\ p \in Seq(S) /\ DOMAIN p = 1..(Len(q) + 1) /\ DOMAIN q = 1..Len(q)
      /\ Len(q) \in Nat
      /\ p[k] = l
      /\ \A i \in 1..Len(q) : p[i] = q[i]
  OBVIOUS
<1> HIDE DEF p
<1>2. DOMAIN p \ {k} = 1..Len(q) /\ k \in DOMAIN p
  BY <1>1
<1>3. f \in [DOMAIN p \ {k} -> DOMAIN q]
  BY <1>1, <1>2
<1>4. /\ \A i \in DOMAIN p \ {k} : p[i] = q[f[i]]
      /\ \A i, j \in DOMAIN p \ {k} : i # j => f[i] # f[j]
      /\ \A m \in DOMAIN q : \E i \in DOMAIN p \ {k} : f[i] = m
  BY <1>1, <1>2
<1> HIDE DEF f, k
<1>5. Adds(p, q, l)
  BY <1>1, <1>2, <1>3, <1>4, ZenonT(30) DEF Adds
<1> QED BY <1>1, <1>5 DEF p

LEMMA PushFrontAdds ==
    ASSUME NEW S, NEW q \in Seq(Seq(S)), NEW x \in S
    PROVE  Adds(PushFront(q, x), q, <<x>>) /\ PushFront(q, x) \in Seq(Seq(S))
<1> DEFINE p == <<<<x>>>> \o q
           k == 1
           f == [i \in DOMAIN p \ {k} |-> i - 1]
<1>0. <<x>> \in Seq(S) /\ <<<<x>>>> \in Seq(Seq(S)) /\ Len(<<<<x>>>>) = 1
  OBVIOUS
<1>1. /\ p \in Seq(Seq(S)) /\ DOMAIN p = 1..(Len(q) + 1) /\ DOMAIN q = 1..Len(q)
      /\ Len(q) \in Nat
      /\ p[1] = <<x>>
      /\ \A i \in 2..(Len(q) + 1) : p[i] = q[i - 1]
  BY <1>0
<1> HIDE DEF p
<1>2. DOMAIN p \ {k} = 2..(Len(q) + 1) /\ k \in DOMAIN p
  BY <1>1
<1>3. f \in [DOMAIN p \ {k} -> DOMAIN q]
  BY <1>1, <1>2
<1>4. /\ \A i \in DOMAIN p \ {k} : p[i] = q[f[i]]
      /\ \A i, j \in DOMAIN p \ {k} : i # j => f[i] # f[j]
  <2>1. \A i \in DOMAIN p \ {k} : f[i] = i - 1 /\ i \in 2..(Len(q) + 1)
    BY <1>2
  <2> HIDE DEF f, k
  <2> QED BY <1>1, <2>1, SMTT(30)
<1>5. ASSUME NEW m \in DOMAIN q PROVE \E i \in DOMAIN p \ {k} : f[i] = m
  <2>1. m + 1 \in DOMAIN p \ {k} /\ f[m + 1] = m
    BY <1>1, <1>2
  <2> QED BY <2>1
<1> HIDE DEF f
<1>6. Adds(p, q, <<x>>)
  BY <1>1, <1>2, <1>3, <1>4, <1>5, ZenonT(30) DEF Adds, k
<1> QED BY <1>1, <1>6 DEF p, PushFront

LEMMA Singleton ==
    ASSUME NEW x
    PROVE  IsInjective(<<x>>) /\ ToSet(<<x>>) = {x} /\ <<x>> # <<>>
<1>1. DOMAIN <<x>> = {1} /\ <<x>>[1] = x
  OBVIOUS
<1> QED BY <1>1 DEF IsInjective, ToSet

LEMMA HeadAdds ==
    ASSUME NEW S, NEW q \in Seq(S), q # <<>>
    PROVE  /\ Adds(q, Tail(q), Head(q))
           /\ Tail(q) \in Seq(S) /\ Head(q) \in S /\ Head(q) = q[1]
           /\ \A i \in DOMAIN Tail(q) : i + 1 \in DOMAIN q /\ Tail(q)[i] = q[i + 1]
<1> DEFINE p == Tail(q)
           k == 1
           f == [i \in DOMAIN q \ {k} |-> i - 1]
<1>1. /\ p \in Seq(S) /\ DOMAIN q = 1..Len(q) /\ DOMAIN p = 1..(Len(q) - 1)
      /\ Len(q) \in Nat \ {0}
      /\ q[1] = Head(q) /\ Head(q) \in S
      /\ \A i \in 1..(Len(q) - 1) : p[i] = q[i + 1]
  OBVIOUS
<1> HIDE DEF p
<1>2. DOMAIN q \ {k} = 2..Len(q) /\ k \in DOMAIN q
  BY <1>1
<1>3. f \in [DOMAIN q \ {k} -> DOMAIN p]
  BY <1>1, <1>2
<1>4. \A i \in DOMAIN q \ {k} : f[i] = i - 1 /\ i \in 2..Len(q)
  BY <1>2
<1>5. /\ \A i \in DOMAIN q \ {k} : q[i] = p[f[i]]
      /\ \A i, j \in DOMAIN q \ {k} : i # j => f[i] # f[j]
  <2> HIDE DEF f, k
  <2> QED BY <1>1, <1>4
<1>6. ASSUME NEW m \in DOMAIN p PROVE \E i \in DOMAIN q \ {k} : f[i] = m
  <2>1. m + 1 \in DOMAIN q \ {k} /\ f[m + 1] = m
    BY <1>1, <1>2
  <2> QED BY <2>1
<1>7. \A i \in DOMAIN p : i + 1 \in DOMAIN q /\ p[i] = q[i + 1]
  BY <1>1
<1>8. q[k] = Head(q)
  BY <1>1
<1> HIDE DEF f, k
<1>9. \E g \in [DOMAIN q \ {k} -> DOMAIN p] :
        /\ \A i \in DOMAIN q \ {k} : q[i] = p[g[i]]
        /\ \A i, j \in DOMAIN q \ {k} : i # j => g[i] # g[j]
        /\ \A m \in DOMAIN p : \E i \in DOMAIN q \ {k} : g[i] = m
  BY <1>3, <1>5, <1>6
<1>10. Adds(q, p, Head(q))
  BY <1>2, <1>8, <1>9 DEF Adds
<1> QED BY <1>1, <1>7, <1>10 DEF p

LEMMA RemoveNoneTwice ==
    ASSUME NEW p, NEW q, NEW l, NEW r, NEW D, Adds(p, q, l), NoneTwice(p, r, D)
    PROVE  NoneTwice(q, r, D) /\ IsInjective(l) /\ ToSet(l) \cap InLists(q) = {}
<1>0. PICK k \in DOMAIN p : /\ p[k] = l
                           /\ \E f \in [DOMAIN p \ {k} -> DOMAIN q] :
                                /\ \A i \in DOMAIN p \ {k} : p[i] = q[f[i]]
                                /\ \A i, j \in DOMAIN p \ {k} : i # j => f[i] # f[j]
                                /\ \A m \in DOMAIN q : \E i \in DOMAIN p \ {k} : f[i] = m
  BY DEF Adds
<1>1. PICK f \in [DOMAIN p \ {k} -> DOMAIN q] :
        /\ \A i \in DOMAIN p \ {k} : p[i] = q[f[i]]
        /\ \A m \in DOMAIN q : \E i \in DOMAIN p \ {k} : f[i] = m
  BY <1>0
<1>2. /\ \A i \in DOMAIN p : IsInjective(p[i])
      /\ \A i, j \in DOMAIN p : i # j => ToSet(p[i]) \cap ToSet(p[j]) = {}
      /\ IsInjective(r)
      /\ InLists(p) \cap ToSet(r) = {} /\ InLists(p) \cap D = {} /\ ToSet(r) \cap D = {}
  BY DEF NoneTwice
<1>3. ASSUME NEW m \in DOMAIN q PROVE IsInjective(q[m]) /\ ToSet(q[m]) \cap ToSet(l) = {}
  <2>1. PICK i \in DOMAIN p \ {k} : f[i] = m
    BY <1>1
  <2>2. p[i] = q[m]
    BY <1>1, <2>1
  <2> QED BY <1>0, <1>2, <2>2
<1>4. ASSUME NEW m \in DOMAIN q, NEW n \in DOMAIN q, m # n
      PROVE  ToSet(q[m]) \cap ToSet(q[n]) = {}
  <2>1. PICK i \in DOMAIN p \ {k} : f[i] = m
    BY <1>1
  <2>2. PICK j \in DOMAIN p \ {k} : f[j] = n
    BY <1>1
  <2>3. i # j /\ p[i] = q[m] /\ p[j] = q[n]
    BY <1>1, <1>4, <2>1, <2>2
  <2> QED BY <1>2, <2>3
<1>5. InLists(p) = InLists(q) \cup ToSet(l)
  BY AddsLists
<1>6. ToSet(l) \cap InLists(q) = {}
  BY <1>3, InListsMember
<1>7. InLists(q) \cap ToSet(r) = {} /\ InLists(q) \cap D = {}
  BY <1>2, <1>5
<1> QED BY <1>0, <1>2, <1>3, <1>4, <1>6, <1>7 DEF NoneTwice

(* The lists of one thread each that Advance makes of the threads in E.     *)
LEMMA OneEach ==
    ASSUME NEW E, IsFiniteSet(E), NEW q \in SetToSeqs(E), NEW D, D \cap E = {},
           NEW p, p = [i \in DOMAIN q |-> <<q[i]>>]
    PROVE  /\ p \in Seq(Seq(E)) /\ \A i \in DOMAIN p : p[i] # <<>>
           /\ InLists(p) = E
           /\ NoneTwice(p, <<>>, D)
<1> DEFINE n == Cardinality(E)
<1>1. n \in Nat /\ IsFiniteSet(1..n) /\ Cardinality(1..n) = n
  BY FS_CardinalityType, FS_Interval
<1>2. q \in [1..n -> E] /\ \A i, j \in 1..n : i # j => q[i] # q[j]
  BY DEF SetToSeqs
<1>3. q \in Injection(1..n, E)
  BY <1>2 DEF Injection, IsInjective
<1>4. q \in Surjection(1..n, E)
  BY <1>1, <1>3, FS_Injection
<1>5. \A x \in E : \E i \in 1..n : q[i] = x
  BY <1>4 DEF Surjection
<1>6. /\ DOMAIN p = 1..n
      /\ \A i \in 1..n : p[i] = <<q[i]>> /\ q[i] \in E
  BY <1>2
<1> HIDE DEF n
<1>7. \A i \in 1..n : p[i] \in Seq(E) /\ p[i] # <<>>
  BY <1>6
<1>8. p \in Seq(Seq(E))
  <2>1. p = [i \in 1..n |-> <<q[i]>>]
    BY <1>2
  <2>2. p \in [1..n -> Seq(E)]
    BY <1>6, <1>7, <2>1
  <2> QED BY <1>1, <2>2
<1>9. \A i \in 1..n : ToSet(p[i]) = {q[i]} /\ IsInjective(p[i])
  BY <1>6, Singleton
<1>10. InLists(p) = E
  <2>1. ASSUME NEW x \in InLists(p) PROVE x \in E
    <3>1. PICK i \in DOMAIN p : x \in ToSet(p[i])
      BY <2>1, InListsMember
    <3> QED BY <1>6, <1>9, <3>1
  <2>2. ASSUME NEW x \in E PROVE x \in InLists(p)
    <3>1. PICK i \in 1..n : q[i] = x
      BY <1>5, <2>2
    <3>2. i \in DOMAIN p /\ x \in ToSet(p[i])
      BY <1>6, <1>9, <3>1
    <3> QED BY <3>2, InListsMember
  <2> QED BY <2>1, <2>2
<1>11. DOMAIN <<>> = {} /\ ToSet(<<>>) = {} /\ IsInjective(<<>>)
  BY DEF ToSet, IsInjective
<1>12. \A i, j \in 1..n : i # j => ToSet(p[i]) \cap ToSet(p[j]) = {}
  BY <1>2, <1>9
<1>13. NoneTwice(p, <<>>, D)
  BY <1>6, <1>9, <1>10, <1>11, <1>12, ZenonT(30) DEF NoneTwice
<1> QED BY <1>6, <1>7, <1>8, <1>10, <1>13

-----------------------------------------------------------------------------
(* The threads.                                                            *)

Typed(s) ==
    /\ s \in [Threads -> ThreadState]
    /\ \A t \in Threads : s[t].ended => s[t].code = <<>>

(* What reaping threads and turning them off does: it wakes nobody, takes   *)
(* nobody out of a queue and makes no thread a child of another; only a     *)
(* thread that has ended, or a detached one that is released, loses its     *)
(* parent.                                                                 *)
FadesTo(x, y) ==
    /\ y.scheduled = x.scheduled /\ y.waitingEvent = x.waitingEvent
    /\ y.joining => x.joining
    /\ y.waitingFork => x.waitingFork
    /\ y.parent \in {0, x.parent}
    /\ y.children \subseteq x.children /\ y.detached \subseteq x.detached
    /\ x.ended => y.ended
    /\ y.isDetached => x.isDetached
    /\ y.parent # x.parent => y.ended \/ (x.isDetached /\ ~ y.isDetached)
    /\ y.code \in {x.code, <<>>}

Fades(s, r) == \A x \in Threads : FadesTo(s[x], r[x])

LEMMA FadesToTransitive ==
    ASSUME NEW x \in ThreadState, NEW y \in ThreadState, NEW z \in ThreadState,
           FadesTo(x, y), FadesTo(y, z)
    PROVE  FadesTo(x, z)
BY DEF FadesTo

LEMMA FadesTransitive ==
    ASSUME NEW s, NEW r, NEW u, Typed(s), Typed(r), Typed(u), Fades(s, r), Fades(r, u)
    PROVE  Fades(s, u)
BY FadesToTransitive DEF Fades, Typed

LEMMA FadesReflexive ==
    ASSUME NEW s
    PROVE  Fades(s, s)
BY DEF Fades, FadesTo

LEMMA EmptyCode == <<>> \in Codes
<1>1. "module" \in Scopes /\ <<Op("end")>> \in Statements("module")
  BY DEF Scopes, Statements, Simple
<1>2. Len(<<Op("end")>>) = 1 /\ SubSeq(<<Op("end")>>, 2, 1) = <<>>
  OBVIOUS
<1>3. 2 \in 1..(Len(<<Op("end")>>) + 1)
  BY <1>2
<1> QED BY <1>1, <1>2, <1>3 DEF Codes

LEMMA ReleasedFades ==
    ASSUME NEW s, Typed(s), NEW D
    PROVE  Typed(Released(s, D)) /\ Fades(s, Released(s, D))
<1>1. ASSUME NEW x \in Threads
      PROVE  /\ Released(s, D)[x] \in ThreadState
             /\ Released(s, D)[x].ended => Released(s, D)[x].code = <<>>
             /\ FadesTo(s[x], Released(s, D)[x])
  <2>1. s[x] \in ThreadState /\ (s[x].ended => s[x].code = <<>>)
    BY DEF Typed
  <2>2. CASE s[x].isDetached /\ s[x].parent \in D
    <3>1. Released(s, D)[x] = [s[x] EXCEPT !.parent = 0, !.isDetached = FALSE]
      BY <2>2 DEF Released
    <3>2. 0 \in 0..MaxThreads
      BY BoundsAssumption
    <3> DEFINE y == [s[x] EXCEPT !.parent = 0, !.isDetached = FALSE]
    <3>3. y \in ThreadState
      BY <2>1, <3>2 DEF ThreadState
    <3>4. y.ended => y.code = <<>>
      BY <2>1 DEF ThreadState
    <3>5. FadesTo(s[x], y)
      BY <2>1, <2>2 DEF ThreadState, FadesTo
    <3> QED BY <3>1, <3>3, <3>4, <3>5
  <2>3. CASE ~ (s[x].isDetached /\ s[x].parent \in D)
    <3>1. Released(s, D)[x] = s[x]
      BY <2>3 DEF Released
    <3> QED BY <2>1, <3>1 DEF FadesTo
  <2> QED BY <2>2, <2>3
<1>2. Released(s, D) = [x \in Threads |-> Released(s, D)[x]]
  BY DEF Released
<1> QED BY <1>1, <1>2 DEF Typed, Fades

LEMMA OneFades ==
    ASSUME NEW s, Typed(s), NEW t \in Threads, NEW y \in ThreadState,
           y.ended => y.code = <<>>, FadesTo(s[t], y)
    PROVE  Typed([s EXCEPT ![t] = y]) /\ Fades(s, [s EXCEPT ![t] = y])
<1> DEFINE r == [s EXCEPT ![t] = y]
<1>1. r \in [Threads -> ThreadState] /\ r[t] = y
  BY DEF Typed
<1>2. \A x \in Threads : x # t => r[x] = s[x]
  BY DEF Typed
<1> HIDE DEF r
<1>3. \A x \in Threads : FadesTo(s[x], s[x])
  BY DEF FadesTo
<1>4. Typed(r)
  BY <1>1, <1>2 DEF Typed
<1>5. Fades(s, r)
  BY <1>1, <1>2, <1>3 DEF Fades
<1> QED BY <1>4, <1>5 DEF r

LEMMA FreedFades ==
    ASSUME NEW x \in ThreadState
    PROVE  /\ Freed(x) \in ThreadState
           /\ Freed(x).ended = x.ended /\ Freed(x).code = x.code
           /\ FadesTo(x, Freed(x))
<1>1. PICK m \in {"live", "deleted"} : Freed(x) = [x EXCEPT !.mem = m]
  BY DEF Freed
<1>2. Freed(x) \in ThreadState
  BY <1>1 DEF ThreadState
<1>3. Freed(x).ended = x.ended /\ Freed(x).code = x.code
  BY <1>1 DEF ThreadState
<1>4. FadesTo(x, Freed(x))
  BY <1>1 DEF ThreadState, FadesTo
<1> QED BY <1>2, <1>3, <1>4

(* The parent of t forgets it. *)
LEMMA ForgetFades ==
    ASSUME NEW s, Typed(s), NEW t, NEW p \in Threads
    PROVE  LET r == [s EXCEPT ![p].children = @ \ {t}, ![p].detached = @ \ {t}]
           IN  Typed(r) /\ Fades(s, r)
<1> DEFINE y == [s[p] EXCEPT !.children = @ \ {t}, !.detached = @ \ {t}]
<1>1. s[p] \in ThreadState /\ (s[p].ended => s[p].code = <<>>)
  BY DEF Typed
<1>2. y \in ThreadState
  BY <1>1 DEF ThreadState
<1>3. y.ended => y.code = <<>>
  BY <1>1 DEF ThreadState
<1>4. FadesTo(s[p], y)
  BY <1>1 DEF ThreadState, FadesTo
<1>5. [s EXCEPT ![p].children = @ \ {t}, ![p].detached = @ \ {t}] = [s EXCEPT ![p] = y]
  BY <1>1 DEF ThreadState, Typed
<1> HIDE DEF y
<1> QED BY <1>2, <1>3, <1>4, <1>5, OneFades

LEMMA ReapFades ==
    ASSUME NEW s, Typed(s), NEW t \in Threads, s[t].ended
    PROVE  Typed(Reap(s, t)) /\ Fades(s, Reap(s, t))
<1> DEFINE p  == s[t].parent
           s1 == Released(s, {t})
           s2 == IF p = 0 THEN s1
                 ELSE [s1 EXCEPT ![p].children = @ \ {t}, ![p].detached = @ \ {t}]
           y  == [s2[t] EXCEPT !.parent = 0, !.inScope = FALSE, !.code = <<>>]
           s3 == [s2 EXCEPT ![t] = Freed(y)]
<1>1. Typed(s1) /\ Fades(s, s1)
  BY ReleasedFades
<1>2. p \in 0..MaxThreads
  BY DEF Typed, ThreadState
<1> HIDE DEF p, s1
<1>3. Typed(s2) /\ Fades(s1, s2)
  <2>1. CASE p = 0
    BY <1>1, <2>1, FadesReflexive
  <2>2. CASE p # 0
    <3>1. p \in Threads
      BY <1>2, <2>2, BoundsAssumption DEF Threads
    <3> QED BY <1>1, <2>2, <3>1, ForgetFades
  <2> QED BY <2>1, <2>2
<1> HIDE DEF s2
<1>4. Fades(s, s2)
  BY <1>1, <1>3, FadesTransitive
<1>5. s2[t] \in ThreadState /\ s2[t].ended
  BY <1>3, <1>4 DEF Fades, FadesTo, Typed
<1>6. y \in ThreadState
  <2>1. 0 \in 0..MaxThreads /\ <<>> \in Codes
    BY BoundsAssumption, EmptyCode
  <2> QED BY <1>5, <2>1 DEF ThreadState
<1>7. y.ended /\ y.code = <<>>
  BY <1>5 DEF ThreadState
<1>8. FadesTo(s2[t], y)
  BY <1>5 DEF ThreadState, FadesTo
<1> HIDE DEF y
<1>9. /\ Freed(y) \in ThreadState /\ Freed(y).code = <<>>
      /\ FadesTo(s2[t], Freed(y))
  BY <1>5, <1>6, <1>7, <1>8, FreedFades, FadesToTransitive
<1>10. Typed(s3) /\ Fades(s2, s3)
  BY <1>3, <1>9, OneFades
<1>11. Reap(s, t) = s3
  BY DEF Reap, s3, y, s2, s1, p
<1> HIDE DEF s3
<1> QED BY <1>3, <1>4, <1>10, <1>11, FadesTransitive

LEMMA JoinedFades ==
    ASSUME NEW s, Typed(s), NEW p \in Threads, NEW t \in Threads, s[t].ended
    PROVE  Typed(Joined(s, p, t)) /\ Fades(s, Joined(s, p, t))
<1> DEFINE y  == [s[p] EXCEPT !.tasks = @ \ {t}]
           s1 == [s EXCEPT ![p] = y]
<1>1. s[p] \in ThreadState /\ (s[p].ended => s[p].code = <<>>)
  BY DEF Typed
<1>2. y \in ThreadState
  BY <1>1 DEF ThreadState
<1>3. y.ended => y.code = <<>>
  BY <1>1 DEF ThreadState
<1>4. FadesTo(s[p], y)
  BY <1>1 DEF ThreadState, FadesTo
<1>5. [s EXCEPT ![p].tasks = @ \ {t}] = s1
  BY <1>1 DEF ThreadState, Typed
<1> HIDE DEF y
<1>6. Typed(s1) /\ Fades(s, s1)
  BY <1>2, <1>3, <1>4, OneFades
<1> HIDE DEF s1
<1>7. s1[t].ended
  BY <1>6 DEF Fades, FadesTo
<1>8. Joined(s, p, t) = Reap(s1, t)
  BY <1>5 DEF Joined
<1> QED BY <1>6, <1>7, <1>8, ReapFades, FadesTransitive

LEMMA TurnedOffFades ==
    ASSUME NEW s, Typed(s), NEW t \in Threads
    PROVE  /\ Typed(TurnedOff(s, t)) /\ Fades(s, TurnedOff(s, t))
           /\ TurnedOff(s, t)[t].ended
<1> DEFINE D == Below(s, t)
           Off(x) == [s[x] EXCEPT !.inScope = FALSE, !.code = <<>>, !.ended = TRUE,
                                  !.children = {},
                                  !.joining = @ /\ s[x].children = {}]
           Gone(x) == [Off(x) EXCEPT !.parent = 0]
           r == [x \in Threads |-> IF x \in D THEN Freed(Gone(x))
                                   ELSE IF x = t THEN Off(x) ELSE s[x]]
<1>1. ASSUME NEW x \in Threads
      PROVE  /\ Off(x) \in ThreadState /\ Off(x).ended /\ Off(x).code = <<>>
             /\ FadesTo(s[x], Off(x))
  <2>1. s[x] \in ThreadState
    BY DEF Typed
  <2>2. Off(x) \in ThreadState
    BY <2>1, EmptyCode DEF ThreadState
  <2>3. Off(x).ended /\ Off(x).code = <<>>
    BY <2>1 DEF ThreadState
  <2>4. FadesTo(s[x], Off(x))
    BY <2>1 DEF ThreadState, FadesTo
  <2> QED BY <2>2, <2>3, <2>4
<1> HIDE DEF Off
<1>2. ASSUME NEW x \in Threads
      PROVE  /\ Gone(x) \in ThreadState /\ Gone(x).ended /\ Gone(x).code = <<>>
             /\ FadesTo(Off(x), Gone(x))
  <2>1. Off(x) \in ThreadState /\ Off(x).ended /\ Off(x).code = <<>>
    BY <1>1
  <2>2. Gone(x) \in ThreadState
    BY <2>1, BoundsAssumption DEF ThreadState
  <2>3. Gone(x).ended /\ Gone(x).code = <<>>
    BY <2>1 DEF ThreadState
  <2>4. FadesTo(Off(x), Gone(x))
    BY <2>1 DEF ThreadState, FadesTo
  <2> QED BY <2>2, <2>3, <2>4
<1> HIDE DEF Gone, D
<1>3. ASSUME NEW x \in Threads
      PROVE  /\ r[x] \in ThreadState /\ (r[x].ended => r[x].code = <<>>)
             /\ FadesTo(s[x], r[x])
             /\ (x = t => r[x].ended)
  <2>1. s[x] \in ThreadState /\ (s[x].ended => s[x].code = <<>>)
    BY DEF Typed
  <2>2. CASE x \in D
    <3>1. r[x] = Freed(Gone(x))
      BY <2>2
    <3>2. /\ Freed(Gone(x)) \in ThreadState /\ Freed(Gone(x)).ended
          /\ Freed(Gone(x)).code = <<>>
          /\ FadesTo(Off(x), Freed(Gone(x)))
      BY <1>1, <1>2, FreedFades, FadesToTransitive
    <3> QED BY <1>1, <2>1, <3>1, <3>2, FadesToTransitive
  <2>3. CASE x \notin D /\ x = t
    BY <1>1, <2>3
  <2>4. CASE x \notin D /\ x # t
    <3>1. r[x] = s[x]
      BY <2>4
    <3> QED BY <2>1, <2>4, <3>1 DEF FadesTo
  <2> QED BY <2>2, <2>3, <2>4
<1>4. r \in [Threads -> ThreadState]
  <2>1. r = [x \in Threads |-> r[x]]
    OBVIOUS
  <2> HIDE DEF r
  <2> QED BY <1>3, <2>1
<1>5. TurnedOff(s, t) = Released(r, D)
  BY DEF TurnedOff, r, Off, Gone, D
<1> HIDE DEF r
<1>6. Typed(r) /\ Fades(s, r) /\ r[t].ended
  BY <1>3, <1>4 DEF Typed, Fades
<1>7. Typed(Released(r, D)) /\ Fades(r, Released(r, D))
  BY <1>6, ReleasedFades
<1>8. Released(r, D)[t].ended
  BY <1>6, <1>7 DEF Fades, FadesTo
<1> QED BY <1>5, <1>6, <1>7, <1>8, FadesTransitive

-----------------------------------------------------------------------------
(* Below adds the children of what it has reached, again and again.         *)
LEMMA BelowWalk ==
    ASSUME NEW s, Typed(s), NEW t \in Threads
    PROVE  \E R \in [0..MaxThreads -> SUBSET Threads] :
             /\ R[0] = {t}
             /\ \A n \in 1..MaxThreads :
                   R[n] = R[n - 1] \cup UNION {s[x].children : x \in R[n - 1]}
             /\ Below(s, t) = R[MaxThreads] \ {t}
<1> DEFINE Sub(X) == UNION {s[x].children : x \in X}
           F == [X \in SUBSET Threads |-> X \cup Sub(X)]
           Body(g) == [n \in 0..MaxThreads |->
                          IF n = 0 THEN {t}
                          ELSE g[n-1] \cup UNION {s[x].children : x \in g[n-1]}]
           reach == CHOOSE g : g = Body(g)
<1>0. MaxThreads \in Nat /\ 0 \in 0..MaxThreads
  BY BoundsAssumption
<1>1. \A x \in Threads : s[x].children \subseteq Threads
  BY DEF Typed, ThreadState
<1>2. F \in [SUBSET Threads -> SUBSET Threads]
  BY <1>1
<1>3. PICK G \in [0..MaxThreads -> SUBSET Threads] :
        G[0] = {t} /\ \A n \in 1..MaxThreads : G[n] = F[G[n - 1]]
  <2> DEFINE T == SUBSET Threads
             a == {t}
  <2>1. a \in T /\ F \in [T -> T]
    BY <1>2
  <2> HIDE DEF F, T, a
  <2>2. Iterates(T, F, a, MaxThreads)
    BY <1>0, <2>1, IterationExists
  <2> QED BY <2>2 DEF T, a, Iterates
<1>4. G = Body(G)
  <2>1. ASSUME NEW n \in 0..MaxThreads PROVE G[n] = Body(G)[n]
    <3>1. CASE n = 0
      BY <1>3, <3>1
    <3>2. CASE n # 0
      <4>1. n \in 1..MaxThreads /\ n - 1 \in 0..MaxThreads
        BY <1>0, <3>2
      <4>2. G[n - 1] \in SUBSET Threads
        BY <4>1
      <4> QED BY <1>3, <3>2, <4>1, <4>2
    <3> QED BY <3>1, <3>2
  <2>2. Body(G) = [n \in 0..MaxThreads |-> Body(G)[n]]
    OBVIOUS
  <2>3. G = [n \in 0..MaxThreads |-> G[n]]
    OBVIOUS
  <2> HIDE DEF Body
  <2> QED BY <2>1, <2>2, <2>3
<1>5. reach = Body(reach)
  <2> HIDE DEF Body
  <2> QED BY <1>4
<1>6. Below(s, t) = reach[MaxThreads] \ {t}
  BY DEF Below
<1> HIDE DEF reach
<1>7. reach[0] = {t}
  BY <1>0, <1>5
<1>8. ASSUME NEW n \in 1..MaxThreads
      PROVE  reach[n] = reach[n - 1] \cup UNION {s[x].children : x \in reach[n - 1]}
  BY <1>0, <1>5
<1> DEFINE S == {n \in Nat : n <= MaxThreads => reach[n] \subseteq Threads}
<1>9. 0 \in S
  BY <1>7
<1>10. ASSUME NEW n \in Nat, n \in S PROVE n + 1 \in S
  <2> SUFFICES ASSUME n + 1 <= MaxThreads PROVE reach[n + 1] \subseteq Threads
    OBVIOUS
  <2>1. n + 1 \in 1..MaxThreads /\ (n + 1) - 1 = n /\ reach[n] \subseteq Threads
    BY <1>0, <1>10
  <2> QED BY <1>1, <1>8, <2>1
<1> HIDE DEF S
<1>11. Nat \subseteq S
  BY <1>9, <1>10, NatIsInductive
<1>12. ASSUME NEW n \in 0..MaxThreads PROVE reach[n] \subseteq Threads
  BY <1>0, <1>11 DEF S
<1>13. reach \in [0..MaxThreads -> SUBSET Threads]
  <2>1. reach = [n \in 0..MaxThreads |-> reach[n]]
    BY <1>5
  <2> QED BY <1>12, <2>1
<1> QED BY <1>6, <1>7, <1>8, <1>13

(* The threads below a thread are younger than it.                          *)
LEMMA BelowYounger ==
    ASSUME NEW s, Typed(s), Kin(s), NEW t \in Threads
    PROVE  \A x \in Below(s, t) : x \in Threads /\ x > t
<1>0. MaxThreads \in Nat /\ t \in 1..MaxThreads
  BY BoundsAssumption DEF Threads
<1>1. PICK R \in [0..MaxThreads -> SUBSET Threads] :
        /\ R[0] = {t}
        /\ \A n \in 1..MaxThreads :
              R[n] = R[n - 1] \cup UNION {s[x].children : x \in R[n - 1]}
        /\ Below(s, t) = R[MaxThreads] \ {t}
  BY BelowWalk
<1> DEFINE S == {n \in Nat : n <= MaxThreads => \A x \in R[n] : x >= t}
<1>2. 0 \in S
  BY <1>0, <1>1
<1>3. ASSUME NEW n \in Nat, n \in S PROVE n + 1 \in S
  <2> SUFFICES ASSUME n + 1 <= MaxThreads, NEW x \in R[n + 1] PROVE x >= t
    OBVIOUS
  <2>1. n + 1 \in 1..MaxThreads /\ n \in 0..MaxThreads /\ (n + 1) - 1 = n
    BY <1>0
  <2>2. R[n + 1] = R[n] \cup UNION {s[y].children : y \in R[n]}
    BY <1>1, <2>1
  <2>3. \A y \in R[n] : y \in Threads /\ y >= t
    BY <1>3, <2>1
  <2>4. CASE x \in R[n]
    BY <2>3, <2>4
  <2>5. CASE x \notin R[n]
    <3>1. PICK y \in R[n] : x \in s[y].children
      BY <2>2, <2>5
    <3>2. y \in Threads /\ y >= t
      BY <2>3, <3>1
    <3>3. x \in Threads /\ x > y
      BY <2>1, <3>1, <3>2 DEF Kin
    <3> QED BY <1>0, <3>2, <3>3 DEF Threads
  <2> QED BY <2>4, <2>5
<1> HIDE DEF S
<1>4. Nat \subseteq S
  BY <1>2, <1>3, NatIsInductive
<1>5. \A x \in R[MaxThreads] : x \in Threads /\ x >= t
  BY <1>0, <1>4 DEF S
<1> QED BY <1>0, <1>1, <1>5 DEF Threads

-----------------------------------------------------------------------------
(* The parts of the inductive invariant, of any threads s and queues: the   *)
(* queues agree with the flags (q the events of the current time, r the     *)
(* rest of the list, D the later events, w the waiting threads); the        *)
(* threads are sound (run runs, c were created); and f has room to fork.    *)
Placed(s, q, r, D, w) ==
    /\ q \in Seq(Seq(Threads)) /\ r \in Seq(Threads) /\ w \in Seq(Threads)
    /\ D \subseteq Threads
    /\ NoneTwice(q, r, D) /\ Filled(q)
    /\ InLists(q) \cup ToSet(r) \cup D = {t \in Threads : s[t].scheduled}
    /\ IsInjective(w) /\ ToSet(w) = {t \in Threads : s[t].waitingEvent}

Single(s, run) == \A t \in Threads : OneReason(s[t], t = run)

Born(s, run, c) ==
    /\ c \in 0..MaxThreads /\ run \in 0..c
    /\ \A t \in Threads : t > c => Untouched(s[t])
    /\ \A t \in Threads : \A x \in s[t].children \cup s[t].detached : x <= c

Sound(s, run, c) == Typed(s) /\ Kin(s) /\ Single(s, run) /\ Born(s, run, c)

Room(s, f, c) ==
    \A t \in Threads : \E n \in 0..2 :
        /\ n <= Len(s[t].code) /\ ForksFirst(s[t].code, n)
        /\ IF t = f THEN c + n <= MaxThreads ELSE n = 0

Forker == IF NotDisabling THEN running ELSE 0

(* What Fades leaves of them. *)
LEMMA PlacedFades ==
    ASSUME NEW s, NEW u, NEW q, NEW r, NEW D, NEW w,
           Placed(s, q, r, D, w), Fades(s, u)
    PROVE  Placed(u, q, r, D, w)
<1>1. /\ {t \in Threads : u[t].scheduled} = {t \in Threads : s[t].scheduled}
      /\ {t \in Threads : u[t].waitingEvent} = {t \in Threads : s[t].waitingEvent}
  BY DEF Fades, FadesTo
<1> QED BY <1>1 DEF Placed

LEMMA RoomFades ==
    ASSUME NEW s, NEW u, NEW f, NEW c \in 0..MaxThreads, Room(s, f, c), Fades(s, u)
    PROVE  Room(u, f, c)
<1> SUFFICES ASSUME NEW t \in Threads
             PROVE  \E n \in 0..2 :
                      /\ n <= Len(u[t].code) /\ ForksFirst(u[t].code, n)
                      /\ IF t = f THEN c + n <= MaxThreads ELSE n = 0
  BY DEF Room
<1>1. CASE u[t].code = s[t].code
  BY <1>1 DEF Room
<1>2. CASE u[t].code = <<>>
  <2>1. 0 \in 0..2 /\ 0 <= Len(<<>>) /\ ForksFirst(<<>>, 0)
    BY DEF ForksFirst
  <2>2. c + 0 <= MaxThreads
    BY BoundsAssumption
  <2> QED BY <1>2, <2>1, <2>2
<1> QED BY <1>1, <1>2 DEF Fades, FadesTo

LEMMA KinFades ==
    ASSUME NEW s, NEW u, Typed(s), Typed(u), Kin(s), Fades(s, u)
    PROVE  Kin(u)
<1>1. \A t \in Threads : FadesTo(s[t], u[t])
  BY DEF Fades
<1>2. \A t \in Threads :
        /\ s[t] \in ThreadState /\ u[t] \in ThreadState
        /\ s[t].children \subseteq Threads /\ s[t].detached \subseteq Threads
  BY DEF Typed, ThreadState
<1>3. ASSUME NEW t \in Threads PROVE u[t].parent < t
  BY <1>1 DEF Kin, FadesTo, Threads
<1>4. ASSUME NEW t \in Threads, u[t].isDetached, ~ u[t].ended PROVE u[t].parent # 0
  BY <1>1, <1>4 DEF Kin, FadesTo
<1>5. ASSUME NEW t \in Threads, NEW x \in u[t].children \cup u[t].detached
      PROVE  x > t /\ u[x].parent \in {0, t}
  <2>1. x \in s[t].children \cup s[t].detached /\ x \in Threads
    BY <1>1, <1>2, <1>5 DEF FadesTo
  <2>2. x > t /\ s[x].parent \in {0, t}
    BY <2>1 DEF Kin
  <2> QED BY <1>1, <2>1, <2>2 DEF FadesTo
<1>6. ASSUME NEW t \in Threads, NEW x \in u[t].children
      PROVE  u[x].ended \/ (u[x].parent = t /\ ~ u[x].isDetached)
  <2>1. x \in s[t].children /\ x \in Threads
    BY <1>1, <1>2, <1>6 DEF FadesTo
  <2>2. s[x].ended \/ (s[x].parent = t /\ ~ s[x].isDetached)
    BY <2>1 DEF Kin
  <2> QED BY <1>1, <2>1, <2>2 DEF FadesTo
<1> QED BY <1>3, <1>4, <1>5, <1>6 DEF Kin

LEMMA SoundFades ==
    ASSUME NEW s, NEW u, NEW run, NEW c, Sound(s, run, c), Typed(u), Fades(s, u)
    PROVE  Sound(u, run, c)
<1>1. \A t \in Threads : FadesTo(s[t], u[t]) /\ s[t] \in ThreadState /\ u[t] \in ThreadState
  BY DEF Fades, Sound, Typed
<1>2. Kin(u)
  BY KinFades DEF Sound
<1>3. Single(u, run)
  BY <1>1 DEF Sound, Single, OneReason, FadesTo
<1>4. Born(u, run, c)
  <2>1. ASSUME NEW t \in Threads, t > c PROVE Untouched(u[t])
    <3>1. Untouched(s[t])
      BY <2>1 DEF Sound, Born
    <3> QED BY <1>1, <3>1 DEF Untouched, FadesTo
  <2>2. \A t \in Threads : \A x \in u[t].children \cup u[t].detached : x <= c
    BY <1>1 DEF Sound, Born, FadesTo
  <2> QED BY <2>1, <2>2 DEF Sound, Born
<1> QED BY <1>2, <1>3, <1>4 DEF Sound

(* Waking p, which waits for children. *)
Woken(s, p) ==
    [s EXCEPT ![p] = [@ EXCEPT !.joining = FALSE, !.waitingFork = FALSE,
                               !.scheduled = TRUE]]

LEMMA WokenFields ==
    ASSUME NEW s, Typed(s), NEW p \in Threads
    PROVE  /\ Typed(Woken(s, p))
           /\ \A x \in Threads : x # p => Woken(s, p)[x] = s[x]
           /\ ~ Woken(s, p)[p].joining /\ ~ Woken(s, p)[p].waitingFork
           /\ Woken(s, p)[p].scheduled
           /\ Woken(s, p)[p].waitingEvent = s[p].waitingEvent
           /\ Woken(s, p)[p].ended = s[p].ended
           /\ Woken(s, p)[p].parent = s[p].parent
           /\ Woken(s, p)[p].isDetached = s[p].isDetached
           /\ Woken(s, p)[p].children = s[p].children
           /\ Woken(s, p)[p].detached = s[p].detached
           /\ Woken(s, p)[p].code = s[p].code
<1> DEFINE y == [s[p] EXCEPT !.joining = FALSE, !.waitingFork = FALSE,
                             !.scheduled = TRUE]
           u == Woken(s, p)
<1>1. s \in [Threads -> ThreadState] /\ s[p] \in ThreadState
  BY DEF Typed
<1>2. u[p] = y /\ \A x \in Threads : x # p => u[x] = s[x]
  BY <1>1 DEF Woken
<1>3. y \in ThreadState
  BY <1>1 DEF ThreadState
<1>4. /\ ~ y.joining /\ ~ y.waitingFork /\ y.scheduled
      /\ y.waitingEvent = s[p].waitingEvent /\ y.ended = s[p].ended
      /\ y.parent = s[p].parent /\ y.isDetached = s[p].isDetached
      /\ y.children = s[p].children /\ y.detached = s[p].detached
      /\ y.code = s[p].code
  BY <1>1 DEF ThreadState
<1>5. u \in [Threads -> ThreadState]
  BY <1>1, <1>3 DEF Woken
<1> HIDE DEF y, u
<1>6. Typed(u)
  BY <1>2, <1>4, <1>5 DEF Typed
<1> QED BY <1>2, <1>4, <1>6 DEF u

LEMMA SoundWoken ==
    ASSUME NEW s, NEW run, NEW c, Sound(s, run, c),
           NEW p \in Threads, s[p].joining \/ s[p].waitingFork
    PROVE  Sound(Woken(s, p), run, c) /\ ~ s[p].scheduled /\ ~ s[p].waitingEvent
<1> DEFINE u == Woken(s, p)
<1>1. /\ Typed(u) /\ \A x \in Threads : x # p => u[x] = s[x]
      /\ ~ u[p].joining /\ ~ u[p].waitingFork /\ u[p].scheduled
      /\ u[p].waitingEvent = s[p].waitingEvent /\ u[p].ended = s[p].ended
      /\ u[p].parent = s[p].parent /\ u[p].isDetached = s[p].isDetached
      /\ u[p].children = s[p].children /\ u[p].detached = s[p].detached
  BY WokenFields DEF Sound
<1>2. /\ ~ s[p].scheduled /\ ~ s[p].waitingEvent /\ p # run
  BY DEF Sound, Single, OneReason
<1>3. ~ (p > c)
  BY DEF Sound, Born, Untouched
<1> HIDE DEF u
<1>4. \A x \in Threads :
        /\ u[x].ended = s[x].ended /\ u[x].parent = s[x].parent
        /\ u[x].isDetached = s[x].isDetached
        /\ u[x].children = s[x].children /\ u[x].detached = s[x].detached
        /\ s[x].children \subseteq Threads /\ s[x].detached \subseteq Threads
  BY <1>1 DEF Sound, Typed, ThreadState
<1>5. Kin(u)
  BY <1>4 DEF Sound, Kin
<1>6. Single(u, run)
  BY <1>1, <1>2 DEF Sound, Single, OneReason
<1>7. Born(u, run, c)
  BY <1>1, <1>3, <1>4 DEF Sound, Born
<1> QED BY <1>1, <1>2, <1>5, <1>6, <1>7 DEF Sound, u

LEMMA PlacedWoken ==
    ASSUME NEW s, NEW q, NEW r, NEW D, NEW w, Placed(s, q, r, D, w), Typed(s),
           NEW p \in Threads, ~ s[p].scheduled
    PROVE  Placed(Woken(s, p), PushFront(q, p), r, D, w)
<1> DEFINE u == Woken(s, p)
           n == PushFront(q, p)
<1>1. /\ \A x \in Threads : x # p => u[x] = s[x]
      /\ u[p].scheduled /\ u[p].waitingEvent = s[p].waitingEvent
  BY WokenFields
<1>2. /\ q \in Seq(Seq(Threads)) /\ NoneTwice(q, r, D)
      /\ Filled(q)
      /\ InLists(q) \cup ToSet(r) \cup D = {t \in Threads : s[t].scheduled}
      /\ IsInjective(w) /\ ToSet(w) = {t \in Threads : s[t].waitingEvent}
  BY DEF Placed
<1>3. Adds(n, q, <<p>>) /\ n \in Seq(Seq(Threads))
  BY <1>2, PushFrontAdds
<1>4. IsInjective(<<p>>) /\ ToSet(<<p>>) = {p} /\ <<p>> # <<>>
  BY Singleton
<1> HIDE DEF u, n
<1>5. InLists(n) = InLists(q) \cup {p}
  BY <1>3, <1>4, AddsLists
<1>6. NoneTwice(n, r, D)
  BY <1>2, <1>3, <1>4, AddsNoneTwice
<1>7. Filled(n)
  BY <1>2, <1>3, <1>4, AddsFilled
<1>8. InLists(n) \cup ToSet(r) \cup D = {t \in Threads : u[t].scheduled}
  BY <1>1, <1>2, <1>5
<1>9. ToSet(w) = {t \in Threads : u[t].waitingEvent}
  BY <1>1, <1>2
<1> QED BY <1>2, <1>3, <1>6, <1>7, <1>8, <1>9 DEF Placed, u, n

-----------------------------------------------------------------------------
(* The code of the statements.                                             *)

Opcodes ==
    {Op(x) : x \in Simple \cup {"join"}} \cup {Fork(x) : x \in Scopes}
        \cup {Detach(1), Detach(2)} \cup {Disable(x) : x \in {"task", "block"}}

Shaped(c) ==
    /\ c \in Seq(Opcodes) /\ c # <<>>
    /\ \E n \in 0..2 : n <= Len(c) /\ ForksFirst(c, n)

LEMMA OpNames ==
    /\ \A x \in Simple \cup {"join"} : Op(x).op # "fork" /\ Op(x) \in Opcodes
    /\ \A x \in Scopes : Fork(x).op = "fork" /\ Fork(x) \in Opcodes
    /\ \A n \in {1, 2} : Detach(n).op # "fork" /\ Detach(n) \in Opcodes
    /\ \A x \in {"task", "block"} : Disable(x).op # "fork" /\ Disable(x) \in Opcodes
BY DEF Op, Fork, Detach, Disable, Simple, Opcodes

LEMMA ShapedOne ==
    ASSUME NEW a \in Opcodes, a.op # "fork"
    PROVE  Shaped(<<a>>)
<1>1. <<a>> \in Seq(Opcodes) /\ Len(<<a>>) = 1 /\ <<a>> # <<>> /\ <<a>>[1] = a
      /\ DOMAIN <<a>> = {1}
  OBVIOUS
<1>2. ForksFirst(<<a>>, 0)
  BY <1>1 DEF ForksFirst
<1> QED BY <1>1, <1>2 DEF Shaped

LEMMA ShapedTwo ==
    ASSUME NEW a \in Opcodes, NEW b \in Opcodes, a.op = "fork", b.op # "fork"
    PROVE  Shaped(<<a, b>>)
<1>1. <<a, b>> \in Seq(Opcodes) /\ Len(<<a, b>>) = 2 /\ <<a, b>> # <<>>
      /\ <<a, b>>[1] = a /\ <<a, b>>[2] = b /\ DOMAIN <<a, b>> = {1, 2}
  OBVIOUS
<1>2. ForksFirst(<<a, b>>, 1)
  BY <1>1 DEF ForksFirst
<1> QED BY <1>1, <1>2 DEF Shaped

LEMMA ShapedForks ==
    ASSUME NEW x \in Scopes, NEW c \in Seq(Opcodes),
           \A i \in DOMAIN c : c[i].op # "fork"
    PROVE  Shaped(Branches(x) \o c)
<1> DEFINE b == Branches(x)
           p == b \o c
<1>1. Fork(x) \in Opcodes /\ Fork(x).op = "fork"
  BY OpNames
<1>2. b \in Seq(Opcodes) /\ Len(b) = 2 /\ b[1].op = "fork" /\ b[2].op = "fork"
  BY <1>1 DEF Branches
<1> HIDE DEF b
<1>3. /\ p \in Seq(Opcodes) /\ Len(c) \in Nat /\ Len(p) = 2 + Len(c)
      /\ DOMAIN p = 1..(2 + Len(c)) /\ DOMAIN c = 1..Len(c)
      /\ \A i \in 1..(2 + Len(c)) : p[i] = IF i <= 2 THEN b[i] ELSE c[i - 2]
  <2>1. Len(c) \in Nat /\ DOMAIN c = 1..Len(c)
    OBVIOUS
  <2>2. /\ p \in Seq(Opcodes) /\ Len(p) = Len(b) + Len(c)
        /\ \A i \in 1..(Len(b) + Len(c)) :
              p[i] = IF i <= Len(b) THEN b[i] ELSE c[i - Len(b)]
    BY <1>2, ConcatProperties
  <2>3. DOMAIN p = 1..Len(p)
    BY <2>2
  <2> HIDE DEF p
  <2> QED BY <1>2, <2>1, <2>2, <2>3
<1> HIDE DEF p
<1>4. ASSUME NEW i \in DOMAIN p PROVE p[i].op = "fork" <=> i <= 2
  <2>1. CASE i <= 2
    <3>1. i = 1 \/ i = 2
      BY <1>3, <2>1
    <3> QED BY <1>2, <1>3, <2>1, <3>1
  <2>2. CASE ~ (i <= 2)
    <3>1. i - 2 \in DOMAIN c /\ p[i] = c[i - 2]
      BY <1>3, <2>2
    <3> QED BY <2>2, <3>1
  <2> QED BY <2>1, <2>2
<1>5. ForksFirst(p, 2) /\ 2 <= Len(p) /\ p # <<>>
  BY <1>3, <1>4 DEF ForksFirst
<1> QED BY <1>3, <1>5 DEF Shaped, p, b

LEMMA StatementShape ==
    ASSUME NEW x \in Scopes, NEW c \in Statements(x)
    PROVE  Shaped(c)
<1>0. "block" \in Scopes /\ "task" \in Scopes /\ "join" \in Simple \cup {"join"}
  BY DEF Scopes
<1>1. ASSUME NEW y \in Scopes, c \in ForkStatements(y) PROVE Shaped(c)
  <2>1. /\ Op("join") \in Opcodes /\ Op("join").op # "fork"
        /\ Detach(1) \in Opcodes /\ Detach(1).op # "fork"
        /\ Detach(2) \in Opcodes /\ Detach(2).op # "fork"
    BY <1>0, OpNames
  <2>2. ASSUME NEW a \in Opcodes, NEW b \in Opcodes, a.op # "fork", b.op # "fork"
        PROVE  Shaped(Branches(y) \o <<a, b>>)
    <3>1. <<a, b>> \in Seq(Opcodes) /\ \A i \in DOMAIN <<a, b>> : <<a, b>>[i].op # "fork"
      BY <2>2
    <3> QED BY <3>1, ShapedForks
  <2>3. ASSUME NEW a \in Opcodes, a.op # "fork"
        PROVE  Shaped(Branches(y) \o <<a>>)
    <3>1. <<a>> \in Seq(Opcodes) /\ \A i \in DOMAIN <<a>> : <<a>>[i].op # "fork"
      BY <2>3
    <3> QED BY <3>1, ShapedForks
  <2>4. \/ c = Branches(y) \o <<Op("join"), Op("join")>>
        \/ c = Branches(y) \o <<Op("join"), Detach(1)>>
        \/ c = Branches(y) \o <<Detach(2)>>
    BY <1>1 DEF ForkStatements
  <2> QED BY <2>1, <2>2, <2>3, <2>4
<1>2. ASSUME NEW y \in {"task", "block"}, c = SubThread(y) PROVE Shaped(c)
  <2>1. /\ Op("join") \in Opcodes /\ Op("join").op # "fork"
        /\ Fork(y) \in Opcodes /\ Fork(y).op = "fork"
    BY <1>0, OpNames
  <2>2. c = <<Fork(y), Op("join")>>
    BY <1>2 DEF SubThread
  <2> QED BY <2>1, <2>2, ShapedTwo
<1>3. ASSUME NEW y \in Simple, c = <<Op(y)>> PROVE Shaped(c)
  BY <1>3, OpNames, ShapedOne
<1>4. ASSUME NEW y \in {"task", "block"}, c = <<Disable(y)>> PROVE Shaped(c)
  BY <1>4, OpNames, ShapedOne
<1>5. \/ \E y \in Simple : c = <<Op(y)>>
      \/ \E y \in {"task", "block"} : c = <<Disable(y)>>
      \/ \E y \in {"task", "block"} : c = SubThread(y)
      \/ c \in ForkStatements("block")
      \/ c \in ForkStatements(x)
  BY DEF Statements
<1> QED BY <1>0, <1>1, <1>2, <1>3, <1>4, <1>5

LEMMA ForksCount ==
    ASSUME NEW c \in Seq(Opcodes), NEW n \in Nat, n <= Len(c), ForksFirst(c, n)
    PROVE  Forks(c) = n
<1>1. DOMAIN c = 1..Len(c) /\ Len(c) \in Nat
  OBVIOUS
<1>2. {i \in DOMAIN c : c[i].op = "fork"} = 1..n
  BY <1>1 DEF ForksFirst
<1>3. Cardinality(1..n) = n
  BY FS_Interval
<1> QED BY <1>2, <1>3 DEF Forks

LEMMA CodeShape ==
    ASSUME NEW c \in Codes
    PROVE  c \in Seq(Opcodes) /\ (c # <<>> => Tail(c) \in Codes)
<1>0. PICK x \in Scopes : \E d \in Statements(x) : \E i \in 1..(Len(d) + 1) :
                            c = SubSeq(d, i, Len(d))
  BY DEF Codes
<1>1. PICK d \in Statements(x) : \E i \in 1..(Len(d) + 1) : c = SubSeq(d, i, Len(d))
  BY <1>0
<1>11. PICK i \in 1..(Len(d) + 1) : c = SubSeq(d, i, Len(d))
  BY <1>1
<1>2. d \in Seq(Opcodes)
  BY StatementShape DEF Shaped
<1>3. /\ Len(d) \in Nat /\ c \in Seq(Opcodes) /\ Len(c) = Len(d) + 1 - i
      /\ \A k \in 1..(Len(d) + 1 - i) : c[k] = d[i + k - 1]
  BY <1>11, <1>2
<1>4. ASSUME c # <<>> PROVE Tail(c) \in Codes
  <2>1. i <= Len(d)
    BY <1>3, <1>4
  <2> DEFINE e == SubSeq(d, i + 1, Len(d))
  <2>2. /\ e \in Seq(Opcodes) /\ Len(e) = Len(d) - i
        /\ \A k \in 1..(Len(d) - i) : e[k] = d[i + k]
    BY <1>2, <1>3, <2>1
  <2>3. /\ Tail(c) \in Seq(Opcodes) /\ Len(Tail(c)) = Len(d) - i
        /\ \A k \in 1..(Len(d) - i) : Tail(c)[k] = c[k + 1]
    BY <1>3, <1>4, <2>1
  <2>4. \A k \in 1..(Len(d) - i) : c[k + 1] = d[i + k]
    BY <1>3, <2>1
  <2>5. Tail(c) = e
    <3> DEFINE f == Tail(c)
    <3>1. /\ f \in Seq(Opcodes) /\ Len(f) = Len(e)
          /\ \A k \in 1..Len(f) : f[k] = e[k]
      BY <2>2, <2>3, <2>4
    <3> HIDE DEF f, e
    <3>2. f = e
      BY <2>2, <3>1, SeqEqual
    <3> QED BY <3>2 DEF f
  <2>6. i + 1 \in 1..(Len(d) + 1)
    BY <1>3, <2>1
  <2>7. e \in {SubSeq(d, k, Len(d)) : k \in 1..(Len(d) + 1)}
    BY <2>6
  <2> HIDE DEF e
  <2>8. e \in Codes
    BY <2>7 DEF Codes
  <2> QED BY <2>5, <2>8
<1> QED BY <1>3, <1>4

Coded(code, c) ==
    /\ code \in Codes /\ code \in Seq(Opcodes) /\ code # <<>>
    /\ \E n \in 0..2 : n <= Len(code) /\ ForksFirst(code, n) /\ c + n <= MaxThreads

(* Only the code differs. *)
Alike(x, y) ==
    /\ y.scheduled = x.scheduled /\ y.waitingEvent = x.waitingEvent
    /\ y.joining = x.joining /\ y.waitingFork = x.waitingFork
    /\ y.parent = x.parent /\ y.isDetached = x.isDetached /\ y.ended = x.ended
    /\ y.children = x.children /\ y.detached = x.detached

LEMMA AlikeSound ==
    ASSUME NEW s, NEW u, NEW t \in Threads, NEW c, Sound(s, t, c), Typed(u),
           \A x \in Threads : Alike(s[x], u[x]),
           \A x \in Threads : x # t => u[x].code = s[x].code
    PROVE  /\ Sound(u, t, c)
           /\ \A q, r, D, w : Placed(s, q, r, D, w) => Placed(u, q, r, D, w)
<1>1. \A x \in Threads :
        /\ u[x].ended = s[x].ended /\ u[x].parent = s[x].parent
        /\ u[x].isDetached = s[x].isDetached
        /\ u[x].children = s[x].children /\ u[x].detached = s[x].detached
        /\ s[x].children \subseteq Threads /\ s[x].detached \subseteq Threads
  BY DEF Sound, Typed, ThreadState, Alike
<1>2. Kin(u)
  BY <1>1 DEF Sound, Kin
<1>3. Single(u, t)
  BY DEF Sound, Single, OneReason, Alike
<1>4. Born(u, t, c)
  <2>1. ~ (t > c)
    BY DEF Sound, Born, Threads
  <2> QED BY <2>1 DEF Sound, Born, Untouched, Alike
<1>5. /\ {x \in Threads : u[x].scheduled} = {x \in Threads : s[x].scheduled}
      /\ {x \in Threads : u[x].waitingEvent} = {x \in Threads : s[x].waitingEvent}
  BY DEF Alike
<1>6. ASSUME NEW q, NEW r, NEW D, NEW w, Placed(s, q, r, D, w)
      PROVE  Placed(u, q, r, D, w)
  BY <1>5, <1>6 DEF Placed
<1> QED BY <1>2, <1>3, <1>4, <1>6 DEF Sound

(* Setting the code of a thread. *)
WithCode(s, t, d) == [s EXCEPT ![t].code = d]

LEMMA CodeFields ==
    ASSUME NEW s, Typed(s), NEW t \in Threads, ~ s[t].ended, NEW d \in Codes
    PROVE  /\ Typed(WithCode(s, t, d))
           /\ \A x \in Threads : Alike(s[x], WithCode(s, t, d)[x])
           /\ \A x \in Threads : x # t => WithCode(s, t, d)[x] = s[x]
           /\ WithCode(s, t, d)[t].code = d
<1> DEFINE y == [s[t] EXCEPT !.code = d]
           u == WithCode(s, t, d)
<1>1. s \in [Threads -> ThreadState] /\ s[t] \in ThreadState
  BY DEF Typed
<1>2. y \in ThreadState
  BY <1>1 DEF ThreadState
<1>3. Alike(s[t], y) /\ y.code = d
  BY <1>1 DEF ThreadState, Alike
<1>4. u = [s EXCEPT ![t] = y]
  BY <1>1 DEF ThreadState, WithCode
<1> HIDE DEF y
<1>5. u \in [Threads -> ThreadState] /\ u[t] = y /\ \A x \in Threads : x # t => u[x] = s[x]
  BY <1>1, <1>2, <1>4
<1> HIDE DEF u
<1>6. \A x \in Threads : Alike(s[x], s[x])
  BY DEF Alike
<1>7. \A x \in Threads : Alike(s[x], u[x])
  BY <1>3, <1>5, <1>6
<1>8. Typed(u)
  BY <1>3, <1>5 DEF Typed, Alike
<1> QED BY <1>3, <1>5, <1>7, <1>8 DEF u

LEMMA AtSound ==
    ASSUME NEW s, NEW t \in Threads, NEW c, NEW code, Sound(s, t, c), Room(s, t, c),
           ~ s[t].ended, Coded(code, c)
    PROVE  LET u == At(s, t, code)
           IN  /\ Sound(u, t, c)
               /\ \A q, r, D, w : Placed(s, q, r, D, w) => Placed(u, q, r, D, w)
               /\ \A x \in Threads : Alike(s[x], u[x])
               /\ \A x \in Threads : x # t => u[x] = s[x]
               /\ u[t].code = Tail(code)
               /\ Room(u, t, c)
               /\ Head(code).op # "fork" => Room(u, 0, c)
               /\ Head(code).op = "fork" => c + 1 <= MaxThreads /\ Room(u, t, c + 1)
<1> DEFINE u == At(s, t, code)
<1>1. Tail(code) \in Codes
  BY CodeShape DEF Coded
<1>2. /\ Typed(u) /\ \A x \in Threads : Alike(s[x], u[x])
      /\ \A x \in Threads : x # t => u[x] = s[x]
      /\ u[t].code = Tail(code)
  <2> DEFINE d == Tail(code)
  <2>1. u = WithCode(s, t, d)
    BY DEF At, WithCode
  <2>2. Typed(s) /\ d \in Codes
    BY <1>1 DEF Sound
  <2> HIDE DEF u, d
  <2>3. /\ Typed(WithCode(s, t, d))
        /\ \A x \in Threads : Alike(s[x], WithCode(s, t, d)[x])
        /\ \A x \in Threads : x # t => WithCode(s, t, d)[x] = s[x]
        /\ WithCode(s, t, d)[t].code = d
    BY <2>2, CodeFields
  <2> QED BY <2>1, <2>3 DEF d
<1> HIDE DEF u
<1>3. /\ Sound(u, t, c)
      /\ \A q, r, D, w : Placed(s, q, r, D, w) => Placed(u, q, r, D, w)
  BY <1>2, AlikeSound
<1>4. PICK n \in 0..2 : n <= Len(code) /\ ForksFirst(code, n) /\ c + n <= MaxThreads
  BY DEF Coded
<1>5. /\ code \in Seq(Opcodes) /\ code # <<>> /\ Len(code) \in Nat /\ Len(code) > 0
      /\ Head(code) = code[1] /\ DOMAIN code = 1..Len(code)
      /\ Len(Tail(code)) = Len(code) - 1 /\ DOMAIN Tail(code) = 1..(Len(code) - 1)
      /\ \A i \in 1..(Len(code) - 1) : Tail(code)[i] = code[i + 1]
  BY DEF Coded
<1>6. c \in 0..MaxThreads /\ MaxThreads \in Nat
  BY BoundsAssumption DEF Sound, Born
<1> DEFINE m == IF Head(code).op = "fork" THEN n - 1 ELSE 0
<1>7. Head(code).op = "fork" <=> 1 <= n
  BY <1>4, <1>5 DEF ForksFirst
<1>8. m \in 0..2 /\ m <= Len(Tail(code)) /\ m <= n
  BY <1>4, <1>5, <1>7
<1>9. ForksFirst(Tail(code), m)
  <2> SUFFICES ASSUME NEW i \in DOMAIN Tail(code)
               PROVE  Tail(code)[i].op = "fork" <=> i <= m
    BY DEF ForksFirst
  <2>1. i \in 1..(Len(code) - 1) /\ i + 1 \in DOMAIN code /\ Tail(code)[i] = code[i + 1]
    BY <1>5
  <2>2. code[i + 1].op = "fork" <=> i + 1 <= n
    BY <1>4, <2>1 DEF ForksFirst
  <2> QED BY <1>4, <1>7, <2>1, <2>2
<1>10. ASSUME NEW f \in {t, 0}, NEW k \in {c, c + 1},
              IF t = f THEN k + m <= MaxThreads ELSE m = 0,
              k = c + 1 => f = t
       PROVE  Room(u, f, k)
  <2> SUFFICES ASSUME NEW x \in Threads
               PROVE  \E j \in 0..2 :
                        /\ j <= Len(u[x].code) /\ ForksFirst(u[x].code, j)
                        /\ IF x = f THEN k + j <= MaxThreads ELSE j = 0
    BY DEF Room
  <2>1. CASE x = t
    BY <1>2, <1>8, <1>9, <1>10, <2>1
  <2>2. CASE x # t
    <3>1. u[x] = s[x]
      BY <1>2, <2>2
    <3>2. x # f
      BY <2>2 DEF Threads
    <3>3. PICK j \in 0..2 : /\ j <= Len(s[x].code) /\ ForksFirst(s[x].code, j)
                            /\ IF x = t THEN c + j <= MaxThreads ELSE j = 0
      BY DEF Room
    <3> QED BY <2>2, <3>1, <3>2, <3>3
  <2> QED BY <2>1, <2>2
<1> HIDE DEF m
<1>11. Room(u, t, c)
  BY <1>4, <1>6, <1>8, <1>10
<1>12. ASSUME Head(code).op # "fork" PROVE Room(u, 0, c)
  <2>1. m = 0 /\ t # 0 /\ c # c + 1
    BY <1>6, <1>12 DEF m, Threads
  <2> QED BY <2>1, <1>10
<1>13. ASSUME Head(code).op = "fork" PROVE c + 1 <= MaxThreads /\ Room(u, t, c + 1)
  <2>1. m = n - 1 /\ 1 <= n
    BY <1>7, <1>13 DEF m
  <2>2. (c + 1) + m <= MaxThreads /\ c + 1 <= MaxThreads
    BY <1>4, <1>6, <2>1
  <2> QED BY <2>2, <1>10
<1> QED BY <1>2, <1>3, <1>11, <1>12, <1>13 DEF u

-----------------------------------------------------------------------------
(* The flags.                                                              *)

(* Only the flags differ that say what a thread waits for.                  *)
Akin(x, y) ==
    /\ y.parent = x.parent /\ y.isDetached = x.isDetached /\ y.ended = x.ended
    /\ y.children = x.children /\ y.detached = x.detached /\ y.code = x.code

LEMMA FlagsSound ==
    ASSUME NEW s, NEW u, NEW run, NEW c, NEW now \in 0..c, Sound(s, run, c), Typed(u),
           \A x \in Threads : Akin(s[x], u[x]), Single(u, now),
           \A x \in Threads : x > c => u[x] = s[x]
    PROVE  Sound(u, now, c)
<1>1. \A x \in Threads :
        /\ u[x].ended = s[x].ended /\ u[x].parent = s[x].parent
        /\ u[x].isDetached = s[x].isDetached
        /\ u[x].children = s[x].children /\ u[x].detached = s[x].detached
        /\ s[x].children \subseteq Threads /\ s[x].detached \subseteq Threads
  BY DEF Sound, Typed, ThreadState, Akin
<1>2. Kin(u)
  BY <1>1 DEF Sound, Kin
<1>3. Born(u, now, c)
  BY <1>1 DEF Sound, Born
<1> QED BY <1>2, <1>3 DEF Sound

LEMMA FlagsRoom ==
    ASSUME NEW s, NEW u, NEW f, NEW c, Room(s, f, c),
           \A x \in Threads : Akin(s[x], u[x])
    PROVE  Room(u, f, c)
BY DEF Room, Akin

(* A flag is set or cleared. *)
Changed(s, u, t) ==
    /\ Typed(u)
    /\ \A x \in Threads : Akin(s[x], u[x])
    /\ \A x \in Threads : x # t => u[x] = s[x]

Put(s, t, y) == [s EXCEPT ![t] = y]

LEMMA OneAkin ==
    ASSUME NEW s, Typed(s), NEW t \in Threads, NEW y \in ThreadState, Akin(s[t], y)
    PROVE  Changed(s, Put(s, t, y), t) /\ Put(s, t, y)[t] = y
<1> DEFINE u == Put(s, t, y)
<1>1. u \in [Threads -> ThreadState] /\ u[t] = y
  BY DEF Typed, Put
<1>2. \A x \in Threads : x # t => u[x] = s[x]
  BY DEF Typed, Put
<1> HIDE DEF u
<1>3. \A x \in Threads : Akin(s[x], s[x])
  BY DEF Akin
<1>4. \A x \in Threads : Akin(s[x], u[x])
  BY <1>1, <1>2, <1>3
<1>5. Typed(u)
  BY <1>1, <1>4 DEF Typed, Akin
<1>6. Changed(s, u, t) /\ u[t] = y
  BY <1>1, <1>2, <1>4, <1>5 DEF Changed
<1> QED BY <1>6 DEF u

WithScheduled(s, t, b)   == [s EXCEPT ![t].scheduled = b]
WithWaitingEvent(s, t)   == [s EXCEPT ![t].waitingEvent = TRUE]
WithJoining(s, t)        == [s EXCEPT ![t].joining = TRUE]
WithWaitingFork(s, t)    == [s EXCEPT ![t].waitingFork = TRUE]

LEMMA WithScheduledFields ==
    ASSUME NEW s, Typed(s), NEW t \in Threads, NEW b \in BOOLEAN
    PROVE  /\ Changed(s, WithScheduled(s, t, b), t)
           /\ WithScheduled(s, t, b)[t].scheduled = b
           /\ WithScheduled(s, t, b)[t].waitingEvent = s[t].waitingEvent
           /\ WithScheduled(s, t, b)[t].joining = s[t].joining
           /\ WithScheduled(s, t, b)[t].waitingFork = s[t].waitingFork
<1> DEFINE y == [s[t] EXCEPT !.scheduled = b]
           u == WithScheduled(s, t, b)
<1>1. s[t] \in ThreadState
  BY DEF Typed
<1>2. y \in ThreadState
  BY <1>1 DEF ThreadState
<1>3. /\ Akin(s[t], y)
      /\ y.scheduled = b
      /\ y.waitingEvent = s[t].waitingEvent
      /\ y.joining = s[t].joining
      /\ y.waitingFork = s[t].waitingFork
  BY <1>1 DEF ThreadState, Akin
<1>4. u = Put(s, t, y)
  BY <1>1 DEF ThreadState, Put, WithScheduled
<1> HIDE DEF y, u
<1>5. Changed(s, Put(s, t, y), t) /\ Put(s, t, y)[t] = y
  BY <1>2, <1>3, OneAkin
<1>6. Changed(s, u, t) /\ u[t] = y
  BY <1>4, <1>5
<1> QED BY <1>3, <1>6 DEF u

LEMMA WithWaitingEventFields ==
    ASSUME NEW s, Typed(s), NEW t \in Threads
    PROVE  /\ Changed(s, WithWaitingEvent(s, t), t)
           /\ WithWaitingEvent(s, t)[t].waitingEvent
           /\ WithWaitingEvent(s, t)[t].scheduled = s[t].scheduled
           /\ WithWaitingEvent(s, t)[t].joining = s[t].joining
           /\ WithWaitingEvent(s, t)[t].waitingFork = s[t].waitingFork
<1> DEFINE y == [s[t] EXCEPT !.waitingEvent = TRUE]
           u == WithWaitingEvent(s, t)
<1>1. s[t] \in ThreadState
  BY DEF Typed
<1>2. y \in ThreadState
  BY <1>1 DEF ThreadState
<1>3. /\ Akin(s[t], y)
      /\ y.waitingEvent
      /\ y.scheduled = s[t].scheduled
      /\ y.joining = s[t].joining
      /\ y.waitingFork = s[t].waitingFork
  BY <1>1 DEF ThreadState, Akin
<1>4. u = Put(s, t, y)
  BY <1>1 DEF ThreadState, Put, WithWaitingEvent
<1> HIDE DEF y, u
<1>5. Changed(s, Put(s, t, y), t) /\ Put(s, t, y)[t] = y
  BY <1>2, <1>3, OneAkin
<1>6. Changed(s, u, t) /\ u[t] = y
  BY <1>4, <1>5
<1> QED BY <1>3, <1>6 DEF u

LEMMA WithJoiningFields ==
    ASSUME NEW s, Typed(s), NEW t \in Threads
    PROVE  /\ Changed(s, WithJoining(s, t), t)
           /\ WithJoining(s, t)[t].joining
           /\ WithJoining(s, t)[t].scheduled = s[t].scheduled
           /\ WithJoining(s, t)[t].waitingEvent = s[t].waitingEvent
           /\ WithJoining(s, t)[t].waitingFork = s[t].waitingFork
<1> DEFINE y == [s[t] EXCEPT !.joining = TRUE]
           u == WithJoining(s, t)
<1>1. s[t] \in ThreadState
  BY DEF Typed
<1>2. y \in ThreadState
  BY <1>1 DEF ThreadState
<1>3. /\ Akin(s[t], y)
      /\ y.joining
      /\ y.scheduled = s[t].scheduled
      /\ y.waitingEvent = s[t].waitingEvent
      /\ y.waitingFork = s[t].waitingFork
  BY <1>1 DEF ThreadState, Akin
<1>4. u = Put(s, t, y)
  BY <1>1 DEF ThreadState, Put, WithJoining
<1> HIDE DEF y, u
<1>5. Changed(s, Put(s, t, y), t) /\ Put(s, t, y)[t] = y
  BY <1>2, <1>3, OneAkin
<1>6. Changed(s, u, t) /\ u[t] = y
  BY <1>4, <1>5
<1> QED BY <1>3, <1>6 DEF u

LEMMA WithWaitingForkFields ==
    ASSUME NEW s, Typed(s), NEW t \in Threads
    PROVE  /\ Changed(s, WithWaitingFork(s, t), t)
           /\ WithWaitingFork(s, t)[t].waitingFork
           /\ WithWaitingFork(s, t)[t].scheduled = s[t].scheduled
           /\ WithWaitingFork(s, t)[t].waitingEvent = s[t].waitingEvent
           /\ WithWaitingFork(s, t)[t].joining = s[t].joining
<1> DEFINE y == [s[t] EXCEPT !.waitingFork = TRUE]
           u == WithWaitingFork(s, t)
<1>1. s[t] \in ThreadState
  BY DEF Typed
<1>2. y \in ThreadState
  BY <1>1 DEF ThreadState
<1>3. /\ Akin(s[t], y)
      /\ y.waitingFork
      /\ y.scheduled = s[t].scheduled
      /\ y.waitingEvent = s[t].waitingEvent
      /\ y.joining = s[t].joining
  BY <1>1 DEF ThreadState, Akin
<1>4. u = Put(s, t, y)
  BY <1>1 DEF ThreadState, Put, WithWaitingFork
<1> HIDE DEF y, u
<1>5. Changed(s, Put(s, t, y), t) /\ Put(s, t, y)[t] = y
  BY <1>2, <1>3, OneAkin
<1>6. Changed(s, u, t) /\ u[t] = y
  BY <1>4, <1>5
<1> QED BY <1>3, <1>6 DEF u

(* The running thread stops, for one reason. *)
LEMMA StopSound ==
    ASSUME NEW s, NEW t \in Threads, NEW c, Sound(s, t, c), NEW u, Changed(s, u, t),
           OneReason(u[t], FALSE)
    PROVE  Sound(u, 0, c) /\ \A f : Room(s, f, c) => Room(u, f, c)
<1>1. t # 0 /\ t <= c /\ c \in Nat /\ 0 \in 0..c
  BY BoundsAssumption DEF Sound, Born, Threads
<1>2. Single(u, 0)
  <2> SUFFICES ASSUME NEW x \in Threads PROVE OneReason(u[x], x = 0)
    BY DEF Single
  <2>1. x # 0
    BY DEF Threads
  <2>2. CASE x = t
    BY <2>1, <2>2 DEF OneReason
  <2>3. CASE x # t
    <3>1. u[x] = s[x] /\ OneReason(s[x], x = t)
      BY <2>3 DEF Changed, Sound, Single
    <3> QED BY <2>1, <2>3, <3>1 DEF OneReason
  <2> QED BY <2>2, <2>3
<1>3. \A x \in Threads : x > c => u[x] = s[x]
  BY <1>1 DEF Changed, Threads
<1>4. Sound(u, 0, c)
  BY <1>1, <1>2, <1>3, FlagsSound DEF Changed
<1>5. ASSUME NEW f, Room(s, f, c) PROVE Room(u, f, c)
  BY <1>5, FlagsRoom DEF Changed
<1> QED BY <1>4, <1>5

LEMMA StartSound ==
    ASSUME NEW s, NEW t \in Threads, NEW c, Sound(s, 0, c), s[t].scheduled,
           NEW u, u = WithScheduled(s, t, FALSE)
    PROVE  /\ Sound(u, t, c) /\ (Room(s, 0, c) => Room(u, t, c))
           /\ Changed(s, u, t) /\ ~ u[t].scheduled
           /\ u[t].waitingEvent = s[t].waitingEvent
<1>0. Typed(s) /\ FALSE \in BOOLEAN
  BY DEF Sound
<1>1. /\ Changed(s, u, t)
      /\ u[t].scheduled = FALSE /\ u[t].waitingEvent = s[t].waitingEvent
      /\ u[t].joining = s[t].joining /\ u[t].waitingFork = s[t].waitingFork
  <2> HIDE DEF WithScheduled
  <2> QED BY <1>0, WithScheduledFields
<1>2. c \in 0..MaxThreads /\ ~ (t > c)
  BY DEF Sound, Born, Untouched
<1>3. t \in 0..c
  BY <1>2, BoundsAssumption DEF Threads
<1>4. Single(u, t)
  <2> SUFFICES ASSUME NEW x \in Threads PROVE OneReason(u[x], x = t)
    BY DEF Single
  <2>1. OneReason(s[x], x = 0)
    BY DEF Sound, Single
  <2>2. CASE x = t
    BY <1>1, <2>1, <2>2 DEF OneReason
  <2>3. CASE x # t
    <3>1. u[x] = s[x]
      BY <1>1, <2>3 DEF Changed
    <3> QED BY <2>1, <2>3, <3>1 DEF OneReason, Threads
  <2> QED BY <2>2, <2>3
<1>5. \A x \in Threads : x > c => u[x] = s[x]
  BY <1>1, <1>2 DEF Changed
<1>6. Sound(u, t, c)
  BY <1>1, <1>3, <1>4, <1>5, FlagsSound DEF Changed
<1>7. ASSUME Room(s, 0, c) PROVE Room(u, t, c)
  <2>1. Room(u, 0, c)
    BY <1>1, <1>7, FlagsRoom DEF Changed
  <2> SUFFICES ASSUME NEW x \in Threads
               PROVE  \E n \in 0..2 :
                        /\ n <= Len(u[x].code) /\ ForksFirst(u[x].code, n)
                        /\ IF x = t THEN c + n <= MaxThreads ELSE n = 0
    BY DEF Room
  <2>2. PICK n \in 0..2 : /\ n <= Len(u[x].code) /\ ForksFirst(u[x].code, n)
                          /\ IF x = 0 THEN c + n <= MaxThreads ELSE n = 0
    BY <2>1 DEF Room
  <2>3. n = 0 /\ c + 0 <= MaxThreads
    BY <1>2, <2>2, BoundsAssumption DEF Threads
  <2> QED BY <2>2, <2>3
<1> QED BY <1>1, <1>6, <1>7

-----------------------------------------------------------------------------
(* The queues.                                                             *)

LEMMA PlacedLater ==
    ASSUME NEW s, NEW q, NEW r, NEW D, NEW w, Placed(s, q, r, D, w),
           NEW t \in Threads, ~ s[t].scheduled, NEW u, Changed(s, u, t),
           u[t].scheduled, u[t].waitingEvent = s[t].waitingEvent
    PROVE  Placed(u, q, r, D \cup {t}, w) /\ Placed(u, Append(q, <<t>>), r, D, w)
<1>1. /\ q \in Seq(Seq(Threads)) /\ r \in Seq(Threads) /\ w \in Seq(Threads)
      /\ D \subseteq Threads
      /\ NoneTwice(q, r, D) /\ Filled(q)
      /\ InLists(q) \cup ToSet(r) \cup D = {x \in Threads : s[x].scheduled}
      /\ IsInjective(w) /\ ToSet(w) = {x \in Threads : s[x].waitingEvent}
  BY DEF Placed
<1>2. /\ \A x \in Threads : x # t => u[x] = s[x]
      /\ t \notin InLists(q) \cup ToSet(r) \cup D
  BY <1>1 DEF Changed
<1>3. /\ {x \in Threads : u[x].scheduled} = {x \in Threads : s[x].scheduled} \cup {t}
      /\ {x \in Threads : u[x].waitingEvent} = {x \in Threads : s[x].waitingEvent}
  BY <1>2
<1>4. Placed(u, q, r, D \cup {t}, w)
  <2>1. NoneTwice(q, r, D \cup {t})
    <3>1. /\ \A i \in DOMAIN q : IsInjective(q[i])
          /\ \A i, j \in DOMAIN q : i # j => ToSet(q[i]) \cap ToSet(q[j]) = {}
          /\ IsInjective(r)
          /\ InLists(q) \cap ToSet(r) = {} /\ InLists(q) \cap D = {}
          /\ ToSet(r) \cap D = {}
      BY <1>1 DEF NoneTwice
    <3>2. InLists(q) \cap (D \cup {t}) = {} /\ ToSet(r) \cap (D \cup {t}) = {}
      BY <1>2, <3>1
    <3> QED BY <3>1, <3>2 DEF NoneTwice
  <2>2. InLists(q) \cup ToSet(r) \cup (D \cup {t}) = {x \in Threads : u[x].scheduled}
    BY <1>1, <1>3
  <2>3. ToSet(w) = {x \in Threads : u[x].waitingEvent} /\ D \cup {t} \subseteq Threads
    BY <1>1, <1>3
  <2> QED BY <1>1, <2>1, <2>2, <2>3 DEF Placed
<1>5. Placed(u, Append(q, <<t>>), r, D, w)
  <2> DEFINE p == Append(q, <<t>>)
             l == <<t>>
  <2>1. IsInjective(l) /\ ToSet(l) = {t} /\ l # <<>> /\ l \in Seq(Threads)
    BY Singleton
  <2> HIDE DEF l
  <2>2. Adds(Append(q, l), q, l) /\ Append(q, l) \in Seq(Seq(Threads))
    BY <1>1, <2>1, AppendAdds
  <2>3. Adds(p, q, l) /\ p \in Seq(Seq(Threads))
    BY <2>2 DEF l
  <2> HIDE DEF p
  <2>4. InLists(p) = InLists(q) \cup {t}
    BY <2>1, <2>3, AddsLists
  <2>5. NoneTwice(p, r, D)
    BY <1>1, <1>2, <2>1, <2>3, AddsNoneTwice
  <2>6. Filled(p)
    BY <1>1, <2>1, <2>3, AddsFilled
  <2>7. InLists(p) \cup ToSet(r) \cup D = {x \in Threads : u[x].scheduled}
    BY <1>1, <1>3, <2>4
  <2>8. ToSet(w) = {x \in Threads : u[x].waitingEvent}
    BY <1>1, <1>3
  <2>9. Placed(u, p, r, D, w)
    BY <1>1, <2>3, <2>5, <2>6, <2>7, <2>8 DEF Placed
  <2> QED BY <2>9 DEF p
<1> QED BY <1>4, <1>5

LEMMA PlacedWaits ==
    ASSUME NEW s, NEW q, NEW r, NEW D, NEW w, Placed(s, q, r, D, w),
           NEW t \in Threads, ~ s[t].waitingEvent, NEW u, Changed(s, u, t),
           u[t].waitingEvent, u[t].scheduled = s[t].scheduled
    PROVE  Placed(u, q, r, D, <<t>> \o w)
<1>1. /\ w \in Seq(Threads) /\ IsInjective(w)
      /\ ToSet(w) = {x \in Threads : s[x].waitingEvent}
  BY DEF Placed
<1>2. \A x \in Threads : x # t => u[x] = s[x]
  BY DEF Changed
<1>3. /\ {x \in Threads : u[x].scheduled} = {x \in Threads : s[x].scheduled}
      /\ {x \in Threads : u[x].waitingEvent} = {x \in Threads : s[x].waitingEvent} \cup {t}
  BY <1>2
<1>4. t \notin ToSet(w)
  BY <1>1
<1> DEFINE v == <<t>> \o w
<1>5. v \in Seq(Threads) /\ IsInjective(v) /\ ToSet(v) = ToSet(w) \cup {t}
  BY <1>1, <1>4, ConsInjective
<1> HIDE DEF v
<1>6. Placed(u, q, r, D, v)
  BY <1>1, <1>3, <1>5 DEF Placed
<1> QED BY <1>6 DEF v

LEMMA PlacedSame ==
    ASSUME NEW s, NEW q, NEW r, NEW D, NEW w, Placed(s, q, r, D, w),
           NEW t \in Threads, NEW u, Changed(s, u, t),
           u[t].waitingEvent = s[t].waitingEvent, u[t].scheduled = s[t].scheduled
    PROVE  Placed(u, q, r, D, w)
<1>1. \A x \in Threads : x # t => u[x] = s[x]
  BY DEF Changed
<1>2. /\ {x \in Threads : u[x].scheduled} = {x \in Threads : s[x].scheduled}
      /\ {x \in Threads : u[x].waitingEvent} = {x \in Threads : s[x].waitingEvent}
  BY <1>1
<1> QED BY <1>2 DEF Placed

(* The first thread of an event starts, or the next one of its list. *)
LEMMA PlacedHead ==
    ASSUME NEW s, NEW q, NEW D, NEW w, Placed(s, q, <<>>, D, w), q # <<>>
    PROVE  LET t == Head(Head(q))
           IN  /\ t \in Threads /\ s[t].scheduled
               /\ \A u : /\ Changed(s, u, t) /\ ~ u[t].scheduled
                         /\ u[t].waitingEvent = s[t].waitingEvent
                         => Placed(u, Tail(q), Tail(Head(q)), D, w)
<1> DEFINE l == Head(q)
           p == Tail(q)
           t == Head(l)
<1>1. /\ q \in Seq(Seq(Threads)) /\ w \in Seq(Threads) /\ D \subseteq Threads
      /\ NoneTwice(q, <<>>, D) /\ Filled(q)
      /\ InLists(q) \cup ToSet(<<>>) \cup D = {x \in Threads : s[x].scheduled}
      /\ IsInjective(w) /\ ToSet(w) = {x \in Threads : s[x].waitingEvent}
      /\ ToSet(<<>>) = {}
  BY DEF Placed, ToSet
<1>2. Adds(q, p, l) /\ p \in Seq(Seq(Threads)) /\ l \in Seq(Threads)
  BY <1>1, HeadAdds
<1> HIDE DEF l, p
<1>3. /\ NoneTwice(p, <<>>, D) /\ IsInjective(l) /\ ToSet(l) \cap InLists(p) = {}
      /\ Filled(p) /\ l # <<>>
      /\ InLists(q) = InLists(p) \cup ToSet(l)
  BY <1>1, <1>2, RemoveNoneTwice, AddsFilled, AddsLists
<1>4. /\ Tail(l) \in Seq(Threads) /\ t \in Threads
      /\ IsInjective(Tail(l)) /\ ToSet(Tail(l)) = ToSet(l) \ {t}
      /\ t \in ToSet(l)
  BY <1>2, <1>3, TailInjective
<1> HIDE DEF t
<1>5. s[t].scheduled
  BY <1>1, <1>3, <1>4
<1>6. /\ InLists(q) \cap D = {} /\ InLists(p) \cap D = {}
      /\ \A i \in DOMAIN p : IsInjective(p[i])
      /\ \A i, j \in DOMAIN p : i # j => ToSet(p[i]) \cap ToSet(p[j]) = {}
  BY <1>1, <1>3 DEF NoneTwice
<1>7. NoneTwice(p, Tail(l), D)
  <2>1. InLists(p) \cap ToSet(Tail(l)) = {} /\ ToSet(Tail(l)) \cap D = {}
    BY <1>3, <1>4, <1>6
  <2> QED BY <1>4, <1>6, <2>1 DEF NoneTwice
<1>8. ASSUME NEW u, Changed(s, u, t), ~ u[t].scheduled, u[t].waitingEvent = s[t].waitingEvent
      PROVE  Placed(u, p, Tail(l), D, w)
  <2>1. \A x \in Threads : x # t => u[x] = s[x]
    BY <1>8 DEF Changed
  <2>2. /\ {x \in Threads : u[x].scheduled} = {x \in Threads : s[x].scheduled} \ {t}
        /\ {x \in Threads : u[x].waitingEvent} = {x \in Threads : s[x].waitingEvent}
    BY <1>4, <1>8, <2>1
  <2>3. t \notin InLists(p) \cup D
    BY <1>3, <1>4, <1>6
  <2>4. InLists(p) \cup ToSet(Tail(l)) \cup D = {x \in Threads : u[x].scheduled}
    BY <1>1, <1>3, <1>4, <2>2, <2>3
  <2> QED BY <1>1, <1>2, <1>3, <1>4, <1>7, <2>2, <2>4 DEF Placed
<1> QED BY <1>4, <1>5, <1>8 DEF t, l, p

LEMMA PlacedNext ==
    ASSUME NEW s, NEW q, NEW r, NEW D, NEW w, Placed(s, q, r, D, w), r # <<>>
    PROVE  LET t == Head(r)
           IN  /\ t \in Threads /\ s[t].scheduled
               /\ \A u : /\ Changed(s, u, t) /\ ~ u[t].scheduled
                         /\ u[t].waitingEvent = s[t].waitingEvent
                         => Placed(u, q, Tail(r), D, w)
<1> DEFINE t == Head(r)
<1>1. /\ q \in Seq(Seq(Threads)) /\ w \in Seq(Threads) /\ D \subseteq Threads
      /\ r \in Seq(Threads)
      /\ NoneTwice(q, r, D) /\ Filled(q)
      /\ InLists(q) \cup ToSet(r) \cup D = {x \in Threads : s[x].scheduled}
      /\ IsInjective(w) /\ ToSet(w) = {x \in Threads : s[x].waitingEvent}
  BY DEF Placed
<1>2. /\ \A i \in DOMAIN q : IsInjective(q[i])
      /\ \A i, j \in DOMAIN q : i # j => ToSet(q[i]) \cap ToSet(q[j]) = {}
      /\ IsInjective(r)
      /\ InLists(q) \cap ToSet(r) = {} /\ InLists(q) \cap D = {} /\ ToSet(r) \cap D = {}
  BY <1>1 DEF NoneTwice
<1>3. /\ Tail(r) \in Seq(Threads) /\ t \in Threads
      /\ IsInjective(Tail(r)) /\ ToSet(Tail(r)) = ToSet(r) \ {t}
      /\ t \in ToSet(r)
  BY <1>1, <1>2, TailInjective
<1> HIDE DEF t
<1>4. s[t].scheduled
  BY <1>1, <1>3
<1>5. NoneTwice(q, Tail(r), D)
  <2>1. InLists(q) \cap ToSet(Tail(r)) = {} /\ ToSet(Tail(r)) \cap D = {}
    BY <1>2, <1>3
  <2> QED BY <1>2, <1>3, <2>1 DEF NoneTwice
<1>6. ASSUME NEW u, Changed(s, u, t), ~ u[t].scheduled, u[t].waitingEvent = s[t].waitingEvent
      PROVE  Placed(u, q, Tail(r), D, w)
  <2>1. \A x \in Threads : x # t => u[x] = s[x]
    BY <1>6 DEF Changed
  <2>2. /\ {x \in Threads : u[x].scheduled} = {x \in Threads : s[x].scheduled} \ {t}
        /\ {x \in Threads : u[x].waitingEvent} = {x \in Threads : s[x].waitingEvent}
    BY <1>3, <1>6, <2>1
  <2>3. t \notin InLists(q) \cup D
    BY <1>2, <1>3
  <2>4. InLists(q) \cup ToSet(Tail(r)) \cup D = {x \in Threads : u[x].scheduled}
    BY <1>1, <1>3, <2>2, <2>3
  <2> QED BY <1>1, <1>3, <1>5, <2>2, <2>4 DEF Placed
<1> QED BY <1>3, <1>4, <1>6 DEF t

(* Time advances to the threads in E. *)
LEMMA PlacedAdvance ==
    ASSUME NEW s, NEW D, NEW w, Placed(s, <<>>, <<>>, D, w),
           NEW E \in SUBSET D, NEW q \in SetToSeqs(E),
           NEW p, p = [i \in DOMAIN q |-> <<q[i]>>]
    PROVE  Placed(s, p, <<>>, D \ E, w)
<1>1. /\ w \in Seq(Threads) /\ D \subseteq Threads
      /\ InLists(<<>>) \cup ToSet(<<>>) \cup D = {x \in Threads : s[x].scheduled}
      /\ IsInjective(w) /\ ToSet(w) = {x \in Threads : s[x].waitingEvent}
      /\ ToSet(<<>>) = {} /\ InLists(<<>>) = {}
  BY DEF Placed, ToSet, InLists
<1>2. IsFiniteSet(Threads) /\ E \in SUBSET Threads
  BY <1>1, FS_Interval, BoundsAssumption DEF Threads
<1>3. IsFiniteSet(E)
  BY <1>2, FS_Subset
<1> DEFINE F == D \ E
<1>4. F \cap E = {}
  OBVIOUS
<1> HIDE DEF F
<1>5. /\ p \in Seq(Seq(E)) /\ \A i \in DOMAIN p : p[i] # <<>>
      /\ InLists(p) = E
      /\ NoneTwice(p, <<>>, F)
  BY <1>3, <1>4, OneEach
<1>6. p \in Seq(Seq(Threads))
  <2>1. Seq(E) \subseteq Seq(Threads)
    BY <1>2, SeqMonotonic
  <2> QED BY <1>5, <2>1, SeqMonotonic
<1>7. /\ F \subseteq Threads /\ <<>> \in Seq(Threads)
      /\ InLists(p) \cup ToSet(<<>>) \cup F = {x \in Threads : s[x].scheduled}
  BY <1>1, <1>5 DEF F
<1>8. Filled(p)
  BY <1>5 DEF Filled
<1>9. Placed(s, p, <<>>, F, w)
  BY <1>1, <1>5, <1>6, <1>7, <1>8 DEF Placed
<1> QED BY <1>9 DEF F

-----------------------------------------------------------------------------
(* An event wakes all the threads that wait for it. *)
Roused(s, w) ==
    [x \in Threads |->
        IF x \in ToSet(w)
        THEN [s[x] EXCEPT !.waitingEvent = FALSE, !.scheduled = TRUE]
        ELSE s[x]]

LEMMA RousedSound ==
    ASSUME NEW s, NEW t \in Threads, NEW c, Sound(s, t, c),
           NEW q, NEW r, NEW D, NEW w, Placed(s, q, r, D, w)
    PROVE  /\ Sound(Roused(s, w), t, c)
           /\ \A f : Room(s, f, c) => Room(Roused(s, w), f, c)
           /\ Placed(Roused(s, w), IF w = <<>> THEN q ELSE Append(q, w), r, D, <<>>)
<1> DEFINE u == Roused(s, w)
           W == ToSet(w)
           y(x) == [s[x] EXCEPT !.waitingEvent = FALSE, !.scheduled = TRUE]
<1>1. /\ q \in Seq(Seq(Threads)) /\ r \in Seq(Threads) /\ w \in Seq(Threads)
      /\ D \subseteq Threads
      /\ NoneTwice(q, r, D) /\ Filled(q)
      /\ InLists(q) \cup ToSet(r) \cup D = {x \in Threads : s[x].scheduled}
      /\ IsInjective(w) /\ W = {x \in Threads : s[x].waitingEvent}
  BY DEF Placed
<1>2. ASSUME NEW x \in Threads, x \in W
      PROVE  /\ u[x] \in ThreadState /\ Akin(s[x], u[x])
             /\ ~ u[x].waitingEvent /\ u[x].scheduled
             /\ u[x].joining = s[x].joining /\ u[x].waitingFork = s[x].waitingFork
  <2>1. s[x] \in ThreadState /\ u[x] = y(x)
    BY <1>2 DEF Sound, Typed, Roused
  <2>2. y(x) \in ThreadState
    BY <2>1 DEF ThreadState
  <2>3. /\ Akin(s[x], y(x)) /\ ~ y(x).waitingEvent /\ y(x).scheduled
        /\ y(x).joining = s[x].joining /\ y(x).waitingFork = s[x].waitingFork
    BY <2>1 DEF ThreadState, Akin
  <2> QED BY <2>1, <2>2, <2>3
<1>3. ASSUME NEW x \in Threads, x \notin W PROVE u[x] = s[x]
  BY <1>3 DEF Roused
<1>4. u = [x \in Threads |-> u[x]]
  BY DEF Roused
<1> HIDE DEF u, y
<1>5. \A x \in Threads : Akin(s[x], u[x])
  BY <1>2, <1>3 DEF Akin
<1>6. u \in [Threads -> ThreadState]
  <2>1. \A x \in Threads : u[x] \in ThreadState
    BY <1>2, <1>3 DEF Sound, Typed
  <2> QED BY <1>4, <2>1
<1>7. Typed(u)
  BY <1>5, <1>6 DEF Sound, Typed, Akin
<1>8. \A x \in Threads : OneReason(s[x], x = t)
  BY DEF Sound, Single
<1>9. Single(u, t)
  <2> SUFFICES ASSUME NEW x \in Threads PROVE OneReason(u[x], x = t)
    BY DEF Single
  <2>1. CASE x \in W
    <3>1. s[x].waitingEvent
      BY <1>1, <2>1
    <3> QED BY <1>2, <1>8, <2>1, <3>1 DEF OneReason
  <2>2. CASE x \notin W
    BY <1>3, <1>8, <2>2
  <2> QED BY <2>1, <2>2
<1>10. \A x \in Threads : x > c => u[x] = s[x]
  BY <1>1, <1>3 DEF Sound, Born, Untouched
<1>11. Sound(u, t, c)
  <2>1. t \in 0..c
    BY DEF Sound, Born
  <2> QED BY <1>5, <1>7, <1>9, <1>10, <2>1, FlagsSound
<1>12. ASSUME NEW f, Room(s, f, c) PROVE Room(u, f, c)
  BY <1>5, <1>12, FlagsRoom
<1>13. /\ {x \in Threads : u[x].scheduled} = {x \in Threads : s[x].scheduled} \cup W
       /\ {x \in Threads : u[x].waitingEvent} = {}
  <2>1. W \subseteq Threads
    BY <1>1
  <2> HIDE DEF W
  <2> QED BY <1>1, <1>2, <1>3, <2>1
<1>14. W \cap (InLists(q) \cup ToSet(r) \cup D) = {}
  BY <1>1, <1>8 DEF OneReason
<1>15. IsInjective(<<>>) /\ ToSet(<<>>) = {} /\ <<>> \in Seq(Threads)
  BY DEF IsInjective, ToSet
<1>16. Placed(u, IF w = <<>> THEN q ELSE Append(q, w), r, D, <<>>)
  <2>1. CASE w = <<>>
    <3>1. W = {}
      BY <2>1 DEF ToSet
    <3>2. InLists(q) \cup ToSet(r) \cup D = {x \in Threads : u[x].scheduled}
      BY <1>1, <1>13, <3>1
    <3> QED BY <1>1, <1>13, <1>15, <2>1, <3>2 DEF Placed
  <2>2. CASE w # <<>>
    <3> DEFINE p == Append(q, w)
    <3>1. Adds(p, q, w) /\ p \in Seq(Seq(Threads))
      BY <1>1, AppendAdds
    <3> HIDE DEF p
    <3>2. InLists(p) = InLists(q) \cup W
      BY <3>1, AddsLists
    <3>3. NoneTwice(p, r, D)
      BY <1>1, <1>14, <3>1, AddsNoneTwice
    <3>4. Filled(p)
      BY <1>1, <2>2, <3>1, AddsFilled
    <3>5. InLists(p) \cup ToSet(r) \cup D = {x \in Threads : u[x].scheduled}
      BY <1>1, <1>13, <3>2
    <3>6. Placed(u, p, r, D, <<>>)
      BY <1>1, <1>13, <1>15, <3>1, <3>3, <3>4, <3>5 DEF Placed
    <3> QED BY <2>2, <3>6 DEF p
  <2> QED BY <2>1, <2>2
<1> QED BY <1>11, <1>12, <1>16 DEF u

-----------------------------------------------------------------------------
(* A thread is created. *)
WithChild(s, t, x, sc) ==
    [s EXCEPT ![x] = NewThread(sc, t),
              ![t].children = @ \cup {x},
              ![t].tasks = IF sc = "task" THEN @ \cup {x} ELSE @]

LEMMA ForkSound ==
    ASSUME NEW s, NEW t \in Threads, NEW c, Sound(s, t, c), c + 1 <= MaxThreads,
           ~ s[t].ended, NEW sc \in Scopes
    PROVE  /\ c + 1 \in Threads
           /\ Sound(WithChild(s, t, c + 1, sc), t, c + 1)
           /\ Room(s, t, c + 1) => Room(WithChild(s, t, c + 1, sc), t, c + 1)
           /\ \A q, r, D, w : Placed(s, q, r, D, w)
                => Placed(WithChild(s, t, c + 1, sc), PushFront(q, c + 1), r, D, w)
<1> DEFINE n == c + 1
           u == WithChild(s, t, n, sc)
           y == [s[t] EXCEPT !.children = @ \cup {n},
                             !.tasks = IF sc = "task" THEN @ \cup {n} ELSE @]
           z == NewThread(sc, t)
<1>1. c \in Nat /\ t <= c /\ n \in Threads /\ n # t /\ n > t /\ 0 # t /\ t \in Nat
  BY BoundsAssumption DEF Sound, Born, Threads
<1>2. s \in [Threads -> ThreadState] /\ s[t] \in ThreadState
  BY DEF Sound, Typed
<1>3. /\ z.parent = t /\ z.children = {} /\ z.detached = {}
      /\ ~ z.joining /\ ~ z.waitingFork /\ ~ z.waitingEvent /\ z.scheduled
      /\ ~ z.ended /\ ~ z.isDetached /\ z.code = <<>>
  BY DEF NewThread, Unused
<1>4. z \in ThreadState
  <2>1. t \in 0..MaxThreads /\ <<>> \in Codes /\ "module" \in Scopes
    BY EmptyCode, BoundsAssumption DEF Threads, Scopes
  <2> QED BY <2>1 DEF NewThread, Unused, ThreadState
<1>5. /\ y.parent = s[t].parent /\ y.isDetached = s[t].isDetached
      /\ y.ended = s[t].ended /\ y.detached = s[t].detached
      /\ y.children = s[t].children \cup {n}
      /\ y.joining = s[t].joining /\ y.waitingFork = s[t].waitingFork
      /\ y.waitingEvent = s[t].waitingEvent /\ y.scheduled = s[t].scheduled
      /\ y.code = s[t].code
  BY <1>2 DEF ThreadState
<1>6. y \in ThreadState
  BY <1>1, <1>2 DEF ThreadState
<1>7. u[n] = z /\ u[t] = y /\ \A x \in Threads : x # n /\ x # t => u[x] = s[x]
  BY <1>1, <1>2 DEF WithChild, ThreadState
<1>8. u = [x \in Threads |-> u[x]]
  BY <1>2 DEF WithChild
<1>9. Untouched(s[n])
  BY <1>1 DEF Sound, Born
<1> HIDE DEF n, u, y, z
<1>10. u \in [Threads -> ThreadState]
  <2>1. \A x \in Threads : u[x] \in ThreadState
    BY <1>2, <1>4, <1>6, <1>7
  <2> QED BY <1>8, <2>1
<1>11. Typed(u)
  BY <1>3, <1>5, <1>7, <1>10 DEF Sound, Typed
<1>12. \A x \in Threads : s[x].children \subseteq Threads /\ s[x].detached \subseteq Threads
  BY DEF Sound, Typed, ThreadState
<1>13. ASSUME NEW x \in Threads, x # n
       PROVE  /\ u[x].parent = s[x].parent /\ u[x].isDetached = s[x].isDetached
              /\ u[x].ended = s[x].ended /\ u[x].detached = s[x].detached
              /\ u[x].children \subseteq s[x].children \cup {n}
              /\ (x # t => u[x].children = s[x].children)
              /\ u[x].joining = s[x].joining /\ u[x].waitingFork = s[x].waitingFork
              /\ u[x].waitingEvent = s[x].waitingEvent
              /\ u[x].scheduled = s[x].scheduled
              /\ u[x].code = s[x].code
              /\ \A v \in s[x].children \cup s[x].detached : v # n /\ v <= c
  <2>1. \A v \in s[x].children \cup s[x].detached : v <= c
    BY DEF Sound, Born
  <2>2. \A v \in s[x].children \cup s[x].detached : v # n
    BY <1>1, <2>1 DEF n
  <2> QED BY <1>5, <1>7, <1>13, <2>1, <2>2
<1>14. Kin(u)
  <2>1. ASSUME NEW x \in Threads PROVE u[x].parent < x
    BY <1>1, <1>3, <1>7, <1>13 DEF Sound, Kin
  <2>2. ASSUME NEW x \in Threads, u[x].isDetached, ~ u[x].ended PROVE u[x].parent # 0
    BY <1>1, <1>3, <1>7, <1>13, <2>2 DEF Sound, Kin
  <2>3. ASSUME NEW x \in Threads, NEW v \in u[x].children \cup u[x].detached
        PROVE  v > x /\ u[v].parent \in {0, x}
    <3>1. x # n
      BY <1>3, <1>7, <2>3
    <3>2. CASE v = n
      <4>1. x = t
        BY <1>13, <2>3, <3>1, <3>2
      <4> QED BY <1>1, <1>3, <1>7, <3>2, <4>1
    <3>3. CASE v # n
      <4>1. v \in s[x].children \cup s[x].detached /\ v \in Threads
        BY <1>12, <1>13, <2>3, <3>1, <3>3
      <4>2. v > x /\ s[v].parent \in {0, x}
        BY <4>1 DEF Sound, Kin
      <4> QED BY <1>13, <3>3, <4>1, <4>2
    <3> QED BY <3>2, <3>3
  <2>4. ASSUME NEW x \in Threads, NEW v \in u[x].children
        PROVE  u[v].ended \/ (u[v].parent = x /\ ~ u[v].isDetached)
    <3>1. x # n
      BY <1>3, <1>7, <2>4
    <3>2. CASE v = n
      <4>1. x = t
        BY <1>13, <2>4, <3>1, <3>2
      <4> QED BY <1>1, <1>3, <1>7, <3>2, <4>1
    <3>3. CASE v # n
      <4>1. v \in s[x].children /\ v \in Threads
        BY <1>12, <1>13, <2>4, <3>1, <3>3
      <4>2. s[v].ended \/ (s[v].parent = x /\ ~ s[v].isDetached)
        BY <4>1 DEF Sound, Kin
      <4> QED BY <1>13, <3>3, <4>1, <4>2
    <3> QED BY <3>2, <3>3
  <2> QED BY <2>1, <2>2, <2>3, <2>4 DEF Kin
<1>15. Single(u, t)
  <2> SUFFICES ASSUME NEW x \in Threads PROVE OneReason(u[x], x = t)
    BY DEF Single
  <2>1. CASE x = n
    BY <1>1, <1>3, <1>7, <2>1 DEF OneReason
  <2>2. CASE x # n
    <3>1. OneReason(s[x], x = t)
      BY DEF Sound, Single
    <3> QED BY <1>13, <2>2, <3>1 DEF OneReason
  <2> QED BY <2>1, <2>2
<1>16. Born(u, t, n)
  <2>1. n \in 0..MaxThreads /\ t \in 0..n
    BY <1>1, BoundsAssumption DEF Threads
  <2>2. ASSUME NEW x \in Threads, x > n PROVE Untouched(u[x])
    <3>1. x # n /\ x # t /\ x > c
      BY <1>1, <2>2 DEF n, Threads
    <3>2. Untouched(s[x])
      BY <3>1 DEF Sound, Born
    <3> QED BY <1>7, <3>1, <3>2
  <2>3. ASSUME NEW x \in Threads, NEW v \in u[x].children \cup u[x].detached PROVE v <= n
    <3>1. x # n
      BY <1>3, <1>7, <2>3
    <3>2. CASE v = n
      BY <1>1, <3>2 DEF Threads
    <3>3. CASE v # n
      <4>1. v \in s[x].children \cup s[x].detached
        BY <1>13, <2>3, <3>1, <3>3
      <4>2. v <= c /\ v \in Threads
        BY <1>12, <1>13, <3>1, <4>1
      <4> QED BY <1>1, <4>2 DEF n, Threads
    <3> QED BY <3>2, <3>3
  <2> QED BY <2>1, <2>2, <2>3 DEF Born
<1>17. Sound(u, t, n)
  BY <1>11, <1>14, <1>15, <1>16 DEF Sound
<1>18. ASSUME Room(s, t, n) PROVE Room(u, t, n)
  <2> SUFFICES ASSUME NEW x \in Threads
               PROVE  \E j \in 0..2 :
                        /\ j <= Len(u[x].code) /\ ForksFirst(u[x].code, j)
                        /\ IF x = t THEN n + j <= MaxThreads ELSE j = 0
    BY DEF Room
  <2>1. u[x].code = s[x].code
    BY <1>3, <1>7, <1>9, <1>13 DEF Untouched
  <2> QED BY <1>18, <2>1 DEF Room
<1>19. ASSUME NEW q, NEW r, NEW D, NEW w, Placed(s, q, r, D, w)
       PROVE  Placed(u, PushFront(q, n), r, D, w)
  <2>1. /\ q \in Seq(Seq(Threads)) /\ r \in Seq(Threads) /\ w \in Seq(Threads)
        /\ D \subseteq Threads
        /\ NoneTwice(q, r, D) /\ Filled(q)
        /\ InLists(q) \cup ToSet(r) \cup D = {x \in Threads : s[x].scheduled}
        /\ IsInjective(w) /\ ToSet(w) = {x \in Threads : s[x].waitingEvent}
    BY <1>19 DEF Placed
  <2>2. /\ {x \in Threads : u[x].scheduled} = {x \in Threads : s[x].scheduled} \cup {n}
        /\ {x \in Threads : u[x].waitingEvent} = {x \in Threads : s[x].waitingEvent}
    <3> DEFINE A == {x \in Threads : u[x].scheduled}
               B == {x \in Threads : s[x].scheduled}
               E == {x \in Threads : u[x].waitingEvent}
               G == {x \in Threads : s[x].waitingEvent}
    <3>1. n \in A /\ n \notin E /\ n \notin G
      BY <1>1, <1>3, <1>7, <1>9 DEF Untouched
    <3>2. \A x \in Threads : x # n => /\ u[x].scheduled = s[x].scheduled
                                      /\ u[x].waitingEvent = s[x].waitingEvent
      BY <1>13
    <3>3. \A x \in Threads : x # n => (x \in A <=> x \in B) /\ (x \in E <=> x \in G)
      BY <3>2
    <3>4. A \subseteq Threads /\ B \subseteq Threads /\ E \subseteq Threads
          /\ G \subseteq Threads
      OBVIOUS
    <3> HIDE DEF A, B, E, G
    <3>5. A = B \cup {n} /\ E = G
      BY <3>1, <3>3, <3>4
    <3> QED BY <3>5 DEF A, B, E, G
  <2>3. n \notin InLists(q) \cup ToSet(r) \cup D
    BY <1>9, <2>1 DEF Untouched
  <2> DEFINE p == PushFront(q, n)
             l == <<n>>
  <2>4. IsInjective(l) /\ ToSet(l) = {n} /\ l # <<>>
    BY Singleton
  <2>5. Adds(p, q, l) /\ p \in Seq(Seq(Threads))
    BY <1>1, <2>1, PushFrontAdds
  <2> HIDE DEF p, l
  <2>6. InLists(p) = InLists(q) \cup {n}
    BY <2>4, <2>5, AddsLists
  <2>7. NoneTwice(p, r, D)
    BY <2>1, <2>3, <2>4, <2>5, AddsNoneTwice
  <2>8. Filled(p)
    BY <2>1, <2>4, <2>5, AddsFilled
  <2>9. InLists(p) \cup ToSet(r) \cup D = {x \in Threads : u[x].scheduled}
    BY <2>1, <2>2, <2>6
  <2>10. Placed(u, p, r, D, w)
    BY <2>1, <2>2, <2>5, <2>7, <2>8, <2>9 DEF Placed
  <2> QED BY <2>10 DEF p
<1> QED BY <1>1, <1>17, <1>18, <1>19 DEF u, n

-----------------------------------------------------------------------------
(* Turning t off ends nobody who is not below it. *)
LEMMA TurnedOffOthers ==
    ASSUME NEW s, Typed(s), NEW t \in Threads,
           NEW x \in Threads, x # t, x \notin Below(s, t)
    PROVE  TurnedOff(s, t)[x].ended = s[x].ended
<1> DEFINE D == Below(s, t)
           Off(y) == [s[y] EXCEPT !.inScope = FALSE, !.code = <<>>, !.ended = TRUE,
                                  !.children = {},
                                  !.joining = @ /\ s[y].children = {}]
           r == [y \in Threads |-> IF y \in D THEN Freed([Off(y) EXCEPT !.parent = 0])
                                   ELSE IF y = t THEN Off(y) ELSE s[y]]
<1>1. TurnedOff(s, t) = Released(r, D)
  BY DEF TurnedOff
<1> HIDE DEF Off
<1>2. r[x] = s[x]
  OBVIOUS
<1> HIDE DEF r, D
<1>3. Released(r, D)[x] = IF r[x].isDetached /\ r[x].parent \in D
                          THEN [r[x] EXCEPT !.parent = 0, !.isDetached = FALSE]
                          ELSE r[x]
  BY DEF Released
<1>4. s[x] \in ThreadState
  BY DEF Typed
<1>5. [s[x] EXCEPT !.parent = 0, !.isDetached = FALSE].ended = s[x].ended
  BY <1>4 DEF ThreadState
<1> QED BY <1>1, <1>2, <1>3, <1>5

(* What a disable does to the threads: it wakes the parent, or nobody.      *)

Wakes(s, t, u) ==
    /\ s[t].parent \in Threads /\ s[s[t].parent].joining
    /\ Fades(Woken(s, s[t].parent), u)

LEMMA DisabledEffect ==
    ASSUME NEW s, NEW run, NEW c, Sound(s, run, c), NEW t \in Threads
    PROVE  /\ Typed(Disabled(s, t))
           /\ \/ /\ Fades(s, Disabled(s, t))
                 /\ \A q : AfterDisabled(q, s, t) = q
              \/ /\ Wakes(s, t, Disabled(s, t))
                 /\ \A q : AfterDisabled(q, s, t) = PushFront(q, s[t].parent)
<1> DEFINE p  == s[t].parent
           s1 == TurnedOff(s, t)
           y  == [s1[p] EXCEPT !.joining = FALSE, !.scheduled = @ \/ ~ s1[p].ended]
           s2 == [s1 EXCEPT ![p].joining = FALSE,
                            ![p].scheduled = @ \/ ~ s1[p].ended]
<1>1. Typed(s) /\ Typed(s1) /\ Fades(s, s1) /\ s1[t].ended
  BY TurnedOffFades DEF Sound
<1>2. p \in 0..MaxThreads /\ p < t /\ (p # 0 => p \in Threads)
  BY <1>1, BoundsAssumption DEF Sound, Kin, Typed, ThreadState, Threads
<1>3. \A q : AfterDisabled(q, s, t) =
              IF WakesParent(s1, t) /\ ~ s[p].ended THEN PushFront(q, p) ELSE q
  BY DEF AfterDisabled
<1>4. Disabled(s, t) = IF WakesParent(s1, t) THEN Joined(s2, p, t)
                       ELSE IF p = 0 THEN Reap(s1, t) ELSE s1
  BY DEF Disabled
<1>5. p \in Threads => s1[p].ended = s[p].ended
  <2> SUFFICES ASSUME p \in Threads PROVE s1[p].ended = s[p].ended
    OBVIOUS
  <2>1. p \notin Below(s, t) /\ p # t
    <3>1. \A x \in Below(s, t) : x \in Threads /\ x > t
      BY <1>1, BelowYounger DEF Sound
    <3> HIDE DEF p
    <3> QED BY <1>2, <3>1 DEF Threads
  <2> HIDE DEF p
  <2> QED BY <1>1, <2>1, TurnedOffOthers
<1>6. WakesParent(s1, t) => p \in Threads /\ s1[p].joining
  <2>1. s1[t].parent \in {0, p}
    BY <1>1 DEF Fades, FadesTo
  <2> QED BY <1>2, <2>1 DEF WakesParent
<1> HIDE DEF p, s1
<1>7. CASE ~ WakesParent(s1, t)
  <2>1. CASE p = 0
    <3>1. Typed(Reap(s1, t)) /\ Fades(s1, Reap(s1, t))
      BY <1>1, ReapFades
    <3>2. Fades(s, Reap(s1, t))
      BY <1>1, <3>1, FadesTransitive
    <3> QED BY <1>3, <1>4, <1>7, <2>1, <3>1, <3>2
  <2>2. CASE p # 0
    BY <1>1, <1>3, <1>4, <1>7, <2>2
  <2> QED BY <2>1, <2>2
<1>8. CASE WakesParent(s1, t)
  <2>1. p \in Threads /\ s1[p].joining /\ s1[p] \in ThreadState /\ p # t
    BY <1>1, <1>2, <1>6, <1>8 DEF Typed, Threads
  <2>2. y \in ThreadState
    BY <2>1 DEF ThreadState
  <2>3. /\ y.scheduled = (s1[p].scheduled \/ ~ s1[p].ended) /\ ~ y.joining
        /\ y.waitingEvent = s1[p].waitingEvent /\ y.waitingFork = s1[p].waitingFork
        /\ y.parent = s1[p].parent /\ y.children = s1[p].children
        /\ y.detached = s1[p].detached /\ y.ended = s1[p].ended
        /\ y.isDetached = s1[p].isDetached /\ y.code = s1[p].code
    BY <2>1 DEF ThreadState
  <2>4. s2 = [s1 EXCEPT ![p] = y]
    BY <2>1 DEF ThreadState
  <2> HIDE DEF y, s2
  <2>5. s2[p] = y /\ (\A x \in Threads : x # p => s2[x] = s1[x])
        /\ s2 \in [Threads -> ThreadState]
    BY <1>1, <2>1, <2>2, <2>4 DEF Typed
  <2>6. Typed(s2) /\ s2[t].ended
    BY <1>1, <2>1, <2>3, <2>5 DEF Typed
  <2>7. Typed(Joined(s2, p, t)) /\ Fades(s2, Joined(s2, p, t))
    BY <2>1, <2>6, JoinedFades
  <2>8. \A x \in Threads : FadesTo(s[x], s1[x])
    BY <1>1 DEF Fades
  <2>9. s1[p].scheduled \in BOOLEAN /\ s[p].scheduled = s1[p].scheduled
        /\ s[p] \in ThreadState
    BY <1>1, <2>1, <2>8 DEF ThreadState, FadesTo, Typed
  <2>10. CASE s[p].ended
    <3>1. y.scheduled = s[p].scheduled
      BY <1>5, <2>1, <2>3, <2>9, <2>10
    <3>2. FadesTo(s[p], y)
      BY <2>1, <2>3, <2>8, <3>1 DEF FadesTo
    <3>3. Fades(s, s2)
      BY <2>5, <2>8, <3>2 DEF Fades
    <3>4. Fades(s, Joined(s2, p, t))
      BY <1>1, <2>6, <2>7, <3>3, FadesTransitive
    <3> QED BY <1>3, <1>4, <1>8, <2>7, <2>10, <3>4
  <2>11. CASE ~ s[p].ended
    <3>1. y.scheduled
      BY <1>5, <2>1, <2>3, <2>11
    <3>2. s[p].joining /\ ~ s[p].waitingFork
      BY <2>1, <2>8 DEF FadesTo, Sound, Single, OneReason
    <3> DEFINE v == Woken(s, p)
    <3>3. /\ Typed(v) /\ \A x \in Threads : x # p => v[x] = s[x]
          /\ ~ v[p].joining /\ ~ v[p].waitingFork /\ v[p].scheduled
          /\ v[p].waitingEvent = s[p].waitingEvent /\ v[p].ended = s[p].ended
          /\ v[p].parent = s[p].parent /\ v[p].isDetached = s[p].isDetached
          /\ v[p].children = s[p].children /\ v[p].detached = s[p].detached
          /\ v[p].code = s[p].code
      BY <1>1, <2>1, WokenFields
    <3> HIDE DEF v
    <3>4. v[p].scheduled = y.scheduled
      <4>1. v[p] \in ThreadState
        BY <2>1, <3>3 DEF Typed
      <4> QED BY <2>2, <3>1, <3>3, <4>1 DEF ThreadState
    <3>5. FadesTo(v[p], y)
      BY <2>1, <2>3, <2>8, <3>2, <3>3, <3>4, ZenonT(30) DEF FadesTo
    <3>6. Fades(v, s2)
      BY <2>5, <2>8, <3>3, <3>5 DEF Fades
    <3>7. Fades(v, Joined(s2, p, t))
      BY <2>6, <2>7, <3>3, <3>6, FadesTransitive
    <3>8. Wakes(s, t, Joined(s2, p, t))
      BY <2>1, <3>2, <3>7 DEF Wakes, v, p
    <3> QED BY <1>3, <1>4, <1>8, <2>7, <2>11, <3>8 DEF p
  <2> QED BY <2>10, <2>11
<1> QED BY <1>7, <1>8

(* Releasing and reaping end nobody. *)
LEMMA ReleasedEnds ==
    ASSUME NEW s, Typed(s), NEW D, NEW x \in Threads
    PROVE  Released(s, D)[x].ended = s[x].ended
<1>1. Released(s, D)[x] = IF s[x].isDetached /\ s[x].parent \in D
                          THEN [s[x] EXCEPT !.parent = 0, !.isDetached = FALSE]
                          ELSE s[x]
  BY DEF Released
<1>2. s[x] \in ThreadState
  BY DEF Typed
<1>3. [s[x] EXCEPT !.parent = 0, !.isDetached = FALSE].ended = s[x].ended
  BY <1>2 DEF ThreadState
<1> QED BY <1>1, <1>3

LEMMA ReapEnds ==
    ASSUME NEW s, Typed(s), NEW t \in Threads, s[t].ended, NEW x \in Threads, x # t
    PROVE  Reap(s, t)[x].ended = s[x].ended
<1> DEFINE p  == s[t].parent
           s1 == Released(s, {t})
           s2 == IF p = 0 THEN s1
                 ELSE [s1 EXCEPT ![p].children = @ \ {t}, ![p].detached = @ \ {t}]
           y  == Freed([s2[t] EXCEPT !.parent = 0, !.inScope = FALSE, !.code = <<>>])
<1>1. Typed(s1) /\ s1[x].ended = s[x].ended
  BY ReleasedFades, ReleasedEnds
<1>2. Reap(s, t) = [s2 EXCEPT ![t] = y]
  BY DEF Reap
<1> HIDE DEF s1, p, y
<1>3. Reap(s, t)[x] = s2[x]
  BY <1>1, <1>2 DEF Typed
<1>4. s2[x].ended = s1[x].ended
  <2>1. CASE p = 0
    BY <2>1
  <2>2. CASE p # 0
    <3>1. s1[x] \in ThreadState
      BY <1>1 DEF Typed
    <3> DEFINE z == [s1[x] EXCEPT !.children = @ \ {t}, !.detached = @ \ {t}]
    <3>2. z.ended = s1[x].ended
      BY <3>1 DEF ThreadState
    <3>3. s2[x] = s1[x] \/ s2[x] = z
      BY <1>1, <2>2, <3>1 DEF Typed, ThreadState
    <3> QED BY <3>2, <3>3
  <2> QED BY <2>1, <2>2
<1> QED BY <1>1, <1>3, <1>4

(* A disable that wakes nobody ends those below t only. *)
LEMMA DisabledEnds ==
    ASSUME NEW s, NEW run, NEW c, Sound(s, run, c), NEW t \in Threads,
           NEW x \in Threads, x < t,
           s[t].parent = 0 \/ ~ s[s[t].parent].joining
    PROVE  /\ Disabled(s, t)[x].ended = s[x].ended
           /\ Disabled(s, t)[t].ended
           /\ Typed(Disabled(s, t)) /\ Fades(s, Disabled(s, t))
<1> DEFINE p  == s[t].parent
           s1 == TurnedOff(s, t)
<1>1. Typed(s) /\ Typed(s1) /\ Fades(s, s1) /\ s1[t].ended
  BY TurnedOffFades DEF Sound
<1>2. p \in 0..MaxThreads /\ (p # 0 => p \in Threads)
  BY <1>1, BoundsAssumption DEF Typed, ThreadState, Threads
<1>3. ~ WakesParent(s1, t)
  <2>1. s1[t].parent \in {0, p}
    BY <1>1 DEF Fades, FadesTo
  <2>2. CASE s1[t].parent = 0
    BY <2>2 DEF WakesParent
  <2>3. CASE s1[t].parent # 0
    <3>1. s1[t].parent = p /\ p \in Threads /\ ~ s[p].joining
      BY <1>2, <2>1, <2>3
    <3>2. ~ s1[p].joining
      BY <1>1, <3>1 DEF Fades, FadesTo
    <3> QED BY <3>1, <3>2 DEF WakesParent
  <2> QED BY <2>2, <2>3
<1>4. Disabled(s, t) = IF p = 0 THEN Reap(s1, t) ELSE s1
  BY <1>3 DEF Disabled
<1>5. s1[x].ended = s[x].ended /\ x # t
  <2>1. x \notin Below(s, t) /\ x # t
    <3>1. \A z \in Below(s, t) : z \in Threads /\ z > t
      BY <1>1, BelowYounger DEF Sound
    <3> QED BY <3>1 DEF Threads
  <2> QED BY <1>1, <2>1, TurnedOffOthers
<1> HIDE DEF p, s1
<1>6. CASE p = 0
  <2>1. Typed(Reap(s1, t)) /\ Fades(s1, Reap(s1, t))
    BY <1>1, ReapFades
  <2>2. Reap(s1, t)[x].ended = s1[x].ended
    BY <1>1, <1>5, ReapEnds
  <2>3. Fades(s, Reap(s1, t)) /\ Reap(s1, t)[t].ended
    BY <1>1, <2>1, FadesTransitive DEF Fades, FadesTo
  <2> QED BY <1>4, <1>5, <1>6, <2>1, <2>2, <2>3
<1>7. CASE p # 0
  BY <1>1, <1>4, <1>5, <1>7
<1> QED BY <1>6, <1>7

-----------------------------------------------------------------------------
(* Of the room to fork.                                                    *)

LEMMA RoomFor ==
    ASSUME NEW s, NEW f, NEW c \in 0..MaxThreads, Room(s, 0, c)
    PROVE  Room(s, f, c)
<1> SUFFICES ASSUME NEW x \in Threads
             PROVE  \E n \in 0..2 :
                      /\ n <= Len(s[x].code) /\ ForksFirst(s[x].code, n)
                      /\ IF x = f THEN c + n <= MaxThreads ELSE n = 0
  BY DEF Room
<1>1. PICK n \in 0..2 : /\ n <= Len(s[x].code) /\ ForksFirst(s[x].code, n)
                        /\ IF x = 0 THEN c + n <= MaxThreads ELSE n = 0
  BY DEF Room
<1>2. n = 0 /\ c + 0 <= MaxThreads
  BY <1>1, BoundsAssumption DEF Threads
<1> QED BY <1>1, <1>2

LEMMA RoomEnds ==
    ASSUME NEW s, NEW t \in Threads, NEW c \in 0..MaxThreads, Room(s, t, c),
           NEW u, Fades(s, u), u[t].code = <<>>
    PROVE  Room(u, 0, c)
<1>1. Room(u, t, c)
  BY RoomFades
<1> SUFFICES ASSUME NEW x \in Threads
             PROVE  \E n \in 0..2 :
                      /\ n <= Len(u[x].code) /\ ForksFirst(u[x].code, n)
                      /\ IF x = 0 THEN c + n <= MaxThreads ELSE n = 0
  BY DEF Room
<1>2. 0 \in 0..2 /\ 0 <= Len(<<>>) /\ ForksFirst(<<>>, 0) /\ c + 0 <= MaxThreads
  BY BoundsAssumption DEF ForksFirst
<1>3. CASE x = t
  BY <1>2, <1>3
<1>4. CASE x # t
  <2>1. PICK n \in 0..2 : /\ n <= Len(u[x].code) /\ ForksFirst(u[x].code, n)
                          /\ IF x = t THEN c + n <= MaxThreads ELSE n = 0
    BY <1>1 DEF Room
  <2>2. n = 0
    BY <1>4, <2>1
  <2> QED BY <1>2, <2>1, <2>2
<1> QED BY <1>3, <1>4

LEMMA RoomWoken ==
    ASSUME NEW s, Typed(s), NEW p \in Threads, NEW f, NEW c, Room(s, f, c)
    PROVE  Room(Woken(s, p), f, c)
<1> DEFINE u == Woken(s, p)
<1>1. /\ \A x \in Threads : x # p => u[x] = s[x]
      /\ u[p].ended = s[p].ended
      /\ u[p].parent = s[p].parent /\ u[p].isDetached = s[p].isDetached
      /\ u[p].children = s[p].children /\ u[p].detached = s[p].detached
      /\ u[p].code = s[p].code
  BY WokenFields
<1> HIDE DEF u
<1>2. \A x \in Threads : Akin(s[x], u[x])
  BY <1>1 DEF Akin
<1>3. Room(u, f, c)
  BY <1>2, FlagsRoom
<1> QED BY <1>3 DEF u

LEMMA SoundIdle ==
    ASSUME NEW s, NEW run, NEW c, Sound(s, run, c)
    PROVE  Sound(s, 0, c)
<1>1. 0 \in 0..c
  BY DEF Sound, Born
<1>2. Single(s, 0)
  <2> SUFFICES ASSUME NEW x \in Threads PROVE OneReason(s[x], x = 0)
    BY DEF Single
  <2>1. x # 0 /\ OneReason(s[x], x = run)
    BY DEF Sound, Single, Threads
  <2> QED BY <2>1 DEF OneReason
<1> QED BY <1>1, <1>2 DEF Sound, Born

-----------------------------------------------------------------------------
(***************************************************************************)
(* The inductive invariant in terms of the operators above, and the steps. *)
(***************************************************************************)
DisablingType ==
    disabling \in [scope : Scopes \cup {"none"}, by : 0..MaxThreads, self : BOOLEAN]

Parts ==
    /\ Sound(thr, running, created)
    /\ Placed(thr, active, rest, delayed, waiters)
    /\ Room(thr, Forker, created)
    /\ DisablingType
    /\ begun \in 0..MaxStatements

LEMMA PartsOfIInv == IInv => Parts
<1> SUFFICES ASSUME IInv PROVE Parts
  OBVIOUS
<1> USE BoundsAssumption
<1>1. Typed(thr)
  BY DEF IInv, TypeOK, Typed
<1>2. Single(thr, running)
  BY DEF IInv, Single
<1>3. Born(thr, running, created)
  BY DEF IInv, TypeOK, Born
<1>4. Sound(thr, running, created)
  BY <1>1, <1>2, <1>3 DEF IInv, Sound
<1>5. Placed(thr, active, rest, delayed, waiters)
  BY DEF IInv, TypeOK, QueuedOnce, InEvents, Filled, Placed
<1>6. Room(thr, Forker, created)
  BY DEF IInv, RoomToFork, Room, Forker, Threads
<1> QED BY <1>4, <1>5, <1>6 DEF IInv, TypeOK, Parts, DisablingType

LEMMA IInvOfParts == Parts => IInv
<1> SUFFICES ASSUME Parts PROVE IInv
  OBVIOUS
<1> USE BoundsAssumption
<1>1. created \in 0..MaxThreads /\ running \in 0..MaxThreads /\ running <= created
  BY DEF Parts, Sound, Born
<1>2. TypeOK
  BY <1>1 DEF Parts, Sound, Typed, Placed, TypeOK, DisablingType
<1>3. QueuedOnce /\ \A i \in DOMAIN active : active[i] # <<>>
  BY DEF Parts, Placed, QueuedOnce, InEvents, Filled
<1>4. RoomToFork
  BY DEF Parts, RoomToFork, Room, Forker, Threads
<1> QED BY <1>1, <1>2, <1>3, <1>4 DEF IInv, Parts, Sound, Single, Born

(* A thread that was just made has nothing but its event.                  *)
LEMMA FreshThreads ==
    /\ Unused \in ThreadState /\ ~ Unused.ended /\ Untouched(Unused)
    /\ ~ Unused.isDetached /\ Unused.children = {} /\ Unused.detached = {}
    /\ LET x == NewThread("module", 0) IN
        /\ x \in ThreadState /\ ~ x.ended /\ x.scheduled /\ ~ x.waitingEvent
        /\ ~ x.joining /\ ~ x.waitingFork /\ x.code = <<>> /\ x.parent = 0
        /\ ~ x.isDetached /\ x.children = {} /\ x.detached = {}
<1> USE EmptyCode, BoundsAssumption DEF Scopes
<1>1. Unused \in ThreadState
  BY DEF Unused, ThreadState
<1>2. /\ Unused.scope = "module" /\ Unused.parent = 0 /\ Unused.code = <<>>
      /\ Unused.children = {} /\ Unused.detached = {}
      /\ ~ Unused.ended /\ ~ Unused.scheduled /\ ~ Unused.waitingEvent
      /\ ~ Unused.joining /\ ~ Unused.waitingFork /\ ~ Unused.isDetached
  BY DEF Unused
<1> DEFINE x == NewThread("module", 0)
<1>3. x \in ThreadState
  <2>1. 0 \in 0..MaxThreads
    OBVIOUS
  <2> QED BY <1>1, <2>1 DEF NewThread, ThreadState
<1>4. /\ x.parent = 0 /\ x.scheduled /\ x.code = Unused.code
      /\ x.children = Unused.children /\ x.detached = Unused.detached
      /\ x.ended = Unused.ended /\ x.waitingEvent = Unused.waitingEvent
      /\ x.joining = Unused.joining /\ x.waitingFork = Unused.waitingFork
      /\ x.isDetached = Unused.isDetached
  BY <1>1 DEF NewThread, ThreadState
<1> HIDE DEF x
<1>5. /\ x \in ThreadState /\ ~ x.ended /\ x.scheduled /\ ~ x.waitingEvent
      /\ ~ x.joining /\ ~ x.waitingFork /\ x.code = <<>> /\ x.parent = 0
      /\ ~ x.isDetached /\ x.children = {} /\ x.detached = {}
  BY <1>2, <1>3, <1>4
<1>6. Untouched(Unused)
  BY <1>2 DEF Untouched
<1> QED BY <1>1, <1>2, <1>5, <1>6 DEF x

LEMMA InitParts == Init => Parts
<1> SUFFICES ASSUME Init PROVE Parts
  OBVIOUS
<1> USE BoundsAssumption DEF Threads
<1> DEFINE N == NewThread("module", 0)
           U == Unused
<1>1. \A t \in Threads : thr[t] = IF t <= 2 THEN N ELSE U
  BY DEF Init
<1>2. /\ U \in ThreadState /\ ~ U.ended /\ Untouched(U)
      /\ ~ U.isDetached /\ U.children = {} /\ U.detached = {}
      /\ N \in ThreadState /\ ~ N.ended /\ N.scheduled /\ ~ N.waitingEvent
      /\ ~ N.joining /\ ~ N.waitingFork /\ N.code = <<>> /\ N.parent = 0
      /\ ~ N.isDetached /\ N.children = {} /\ N.detached = {}
  BY FreshThreads
<1>3. thr = [t \in Threads |-> thr[t]]
  BY DEF Init
<1> HIDE DEF N, U
<1>4. thr \in [Threads -> ThreadState]
  <2>1. \A t \in Threads : thr[t] \in ThreadState
    BY <1>1, <1>2
  <2> QED BY <1>3, <2>1
<1>5. Typed(thr)
  BY <1>1, <1>2, <1>4 DEF Typed
<1>6. Kin(thr)
  BY <1>1, <1>2 DEF Kin, Untouched
<1>7. Single(thr, 0)
  BY <1>1, <1>2 DEF Single, OneReason, Untouched
<1>8. Born(thr, 0, 2)
  BY <1>1, <1>2 DEF Born
<1>9. Sound(thr, running, created)
  BY <1>5, <1>6, <1>7, <1>8 DEF Init, Sound
<1>10. Placed(thr, active, rest, delayed, waiters)
  <2>1. active = <<<<1>>, <<2>>>> /\ delayed = {} /\ rest = <<>> /\ waiters = <<>>
    BY DEF Init
  <2>2. 1 \in Threads /\ 2 \in Threads
    OBVIOUS
  <2>3. active \in Seq(Seq(Threads))
    BY <2>1, <2>2
  <2>4. DOMAIN active = {1, 2} /\ active[1] = <<1>> /\ active[2] = <<2>>
    BY <2>1
  <2>5. /\ IsInjective(<<1>>) /\ ToSet(<<1>>) = {1}
        /\ IsInjective(<<2>>) /\ ToSet(<<2>>) = {2}
    BY DEF IsInjective, ToSet
  <2>6. InLists(active) = {1, 2}
    BY <2>4, <2>5 DEF InLists
  <2>7. IsInjective(<<>>) /\ ToSet(<<>>) = {}
    BY DEF IsInjective, ToSet
  <2>8. NoneTwice(active, rest, delayed)
    BY <2>1, <2>4, <2>5, <2>6, <2>7 DEF NoneTwice
  <2>9. Filled(active)
    BY <2>4 DEF Filled
  <2>10. {t \in Threads : thr[t].scheduled} = {1, 2}
    BY <1>1, <1>2, <2>2 DEF Untouched
  <2>11. {t \in Threads : thr[t].waitingEvent} = {}
    BY <1>1, <1>2 DEF Untouched
  <2> QED BY <2>1, <2>3, <2>6, <2>7, <2>8, <2>9, <2>10, <2>11 DEF Placed
<1>11. Room(thr, Forker, created)
  <2>1. \A t \in Threads : thr[t].code = <<>>
    BY <1>1, <1>2 DEF Untouched
  <2>2. created = 2 /\ Forker = 0
    BY DEF Init, Forker
  <2> SUFFICES ASSUME NEW t \in Threads
               PROVE  0 <= Len(thr[t].code) /\ ForksFirst(thr[t].code, 0)
    BY <2>2 DEF Room
  <2> QED BY <2>1 DEF ForksFirst
<1> QED BY <1>9, <1>10, <1>11 DEF Init, Parts, DisablingType

(* A statement is code that a thread can be at.                            *)
LEMMA WholeStatement ==
    ASSUME NEW x \in Scopes, NEW c \in Statements(x), c \in Seq(Opcodes)
    PROVE  c \in Codes
<1>1. SubSeq(c, 1, Len(c)) = c /\ 1 \in 1..(Len(c) + 1)
  BY DEF Opcodes
<1>2. c \in {SubSeq(c, i, Len(c)) : i \in 1..(Len(c) + 1)}
  BY <1>1
<1> DEFINE C(d) == {SubSeq(d, i, Len(d)) : i \in 1..(Len(d) + 1)}
           S(y) == UNION {C(d) : d \in Statements(y)}
<1>3. c \in C(c)
  BY <1>2
<1> HIDE DEF C
<1>4. c \in S(x)
  BY <1>3
<1> HIDE DEF S
<1>5. c \in UNION {S(y) : y \in Scopes}
  BY <1>4
<1> QED BY <1>5 DEF S, C, Codes

(* The running thread takes its next opcode: what it is at is code, there  *)
(* is room for the threads the code forks, and the step keeps the bound of  *)
(* the statements.                                                         *)
LEMMA CodeOf ==
    ASSUME Parts, NEW t, t = running, running # 0,
           NEW code \in NextCode(t), Fetch(t, code)
    PROVE  /\ t \in Threads /\ Forker = t /\ NotDisabling
           /\ Sound(thr, t, created) /\ Room(thr, t, created)
           /\ Placed(thr, active, rest, delayed, waiters)
           /\ ~ thr[t].ended /\ Coded(code, created)
           /\ begun' \in 0..MaxStatements
<1> USE BoundsAssumption
<1>1. NotDisabling /\ ~ thr[t].ended
  BY DEF Fetch, Ready
<1>2. Forker = t
  BY <1>1 DEF Forker
<1>3. Sound(thr, t, created) /\ Room(thr, t, created)
  BY <1>2 DEF Parts
<1>4. created \in 0..MaxThreads /\ t \in 0..created
  BY <1>3 DEF Sound, Born
<1>5. t \in Threads
  BY <1>4 DEF Threads
<1>6. thr[t] \in ThreadState
  BY <1>3, <1>5 DEF Sound, Typed
<1>7. Coded(code, created)
  <2>1. CASE thr[t].code # <<>>
    <3>1. code = thr[t].code /\ code \in Codes
      BY <1>6, <2>1 DEF NextCode, ThreadState
    <3>2. code \in Seq(Opcodes)
      BY <3>1, CodeShape
    <3> QED BY <1>3, <1>5, <2>1, <3>1, <3>2 DEF Room, Coded
  <2>2. CASE thr[t].code = <<>>
    <3>1. code \in Statements(thr[t].scope) /\ created + Forks(code) <= MaxThreads
      BY <2>2 DEF NextCode
    <3>2. thr[t].scope \in Scopes
      BY <1>6 DEF ThreadState
    <3>3. Shaped(code)
      BY <3>1, <3>2, StatementShape
    <3>4. code \in Seq(Opcodes) /\ code # <<>>
      BY <3>3 DEF Shaped
    <3>5. PICK n \in 0..2 : n <= Len(code) /\ ForksFirst(code, n)
      BY <3>3 DEF Shaped
    <3>6. Forks(code) = n
      BY <3>4, <3>5, ForksCount
    <3>7. code \in Codes
      BY <3>1, <3>2, <3>4, WholeStatement
    <3> QED BY <3>1, <3>4, <3>5, <3>6, <3>7 DEF Coded
  <2> QED BY <2>1, <2>2
<1>8. begun' \in 0..MaxStatements
  <2>1. begun \in 0..MaxStatements
    BY DEF Parts
  <2>2. thr[t].code = <<>> /\ code # <<Op("end")>> => begun < MaxStatements
    BY DEF NextCode
  <2> QED BY <2>1, <2>2 DEF Fetch
<1> QED BY <1>1, <1>2, <1>3, <1>5, <1>7, <1>8 DEF Parts

(* The state of the threads once the opcode was fetched.                   *)
Opened(t, code, u) ==
    /\ t \in Threads /\ created \in 0..MaxThreads /\ t \in 0..created
    /\ Typed(u) /\ ~ u[t].ended
    /\ ~ u[t].scheduled /\ ~ u[t].waitingEvent
    /\ ~ u[t].joining /\ ~ u[t].waitingFork
    /\ Sound(u, t, created) /\ Placed(u, active, rest, delayed, waiters)
    /\ Room(u, t, created)
    /\ Head(code).op # "fork" => Room(u, 0, created)
    /\ Head(code).op = "fork"
          => created + 1 <= MaxThreads /\ Room(u, t, created + 1)
    /\ Head(code) \in Opcodes
    /\ \A x \in Threads : Alike(thr[x], u[x])
    /\ \A x \in Threads : x # t => u[x] = thr[x]

LEMMA OpenedAt ==
    ASSUME Parts, NEW t, t = running, running # 0,
           NEW code \in NextCode(t), Fetch(t, code)
    PROVE  /\ Opened(t, code, At(thr, t, code))
           /\ Forker = t /\ begun' \in 0..MaxStatements /\ DisablingType
<1> DEFINE u == At(thr, t, code)
<1>1. /\ t \in Threads /\ Forker = t /\ NotDisabling
      /\ Sound(thr, t, created) /\ Room(thr, t, created)
      /\ Placed(thr, active, rest, delayed, waiters)
      /\ ~ thr[t].ended /\ Coded(code, created)
      /\ begun' \in 0..MaxStatements
  BY CodeOf
<1>2. /\ Sound(u, t, created)
      /\ \A q, r, D, w : Placed(thr, q, r, D, w) => Placed(u, q, r, D, w)
      /\ \A x \in Threads : Alike(thr[x], u[x])
      /\ \A x \in Threads : x # t => u[x] = thr[x]
      /\ Room(u, t, created)
      /\ Head(code).op # "fork" => Room(u, 0, created)
      /\ Head(code).op = "fork"
            => created + 1 <= MaxThreads /\ Room(u, t, created + 1)
  BY <1>1, AtSound
<1> HIDE DEF u
<1>3. /\ ~ u[t].ended /\ ~ u[t].scheduled /\ ~ u[t].waitingEvent
      /\ ~ u[t].joining /\ ~ u[t].waitingFork
  <2>1. OneReason(thr[t], t = t)
    BY <1>1 DEF Sound, Single
  <2> QED BY <1>1, <1>2, <2>1 DEF Alike, OneReason
<1>4. Head(code) \in Opcodes
  BY <1>1 DEF Coded
<1>5. created \in 0..MaxThreads /\ t \in 0..created
  BY <1>1 DEF Sound, Born
<1>6. Placed(u, active, rest, delayed, waiters)
  BY <1>1, <1>2
<1>7. Opened(t, code, u)
  BY <1>1, <1>2, <1>3, <1>4, <1>5, <1>6 DEF Opened, Sound
<1> QED BY <1>1, <1>7 DEF u, Parts

(* A thread that was fetched from and then suspended.                      *)
Stopped(t, code, u, q, D, w) ==
    /\ Sound(u, 0, created) /\ Room(u, 0, created)
    /\ Placed(u, q, rest, D, w)

LEMMA StopParts ==
    ASSUME Parts, NEW t, t = running, running # 0,
           NEW code \in NextCode(t), Fetch(t, code), Suspend, created' = created,
           Stopped(t, code, thr', active', delayed', waiters')
    PROVE  Parts'
<1>1. begun' \in 0..MaxStatements /\ DisablingType
  BY OpenedAt
<1>2. Forker' = 0
  BY DEF Suspend, Forker, NotDisabling
<1> QED BY <1>1, <1>2 DEF Suspend, Parts, Stopped, DisablingType

LEMMA DelayStep ==
    ASSUME Parts, NEW t, t = running, running # 0,
           NEW code \in NextCode(t), Delay(t, code)
    PROVE  Parts'
<1> DEFINE u == At(thr, t, code)
<1>1. Fetch(t, code) /\ Head(code).op # "fork" /\ Suspend
      /\ created' = created /\ active' = active /\ waiters' = waiters
      /\ delayed' = delayed \cup {t} /\ thr' = WithScheduled(u, t, TRUE)
  BY DEF Delay, Marked, WithScheduled
<1>2. Opened(t, code, u)
  BY <1>1, OpenedAt
<1> HIDE DEF u
<1>3. /\ Changed(u, thr', t) /\ thr'[t].scheduled
      /\ thr'[t].waitingEvent = u[t].waitingEvent
      /\ thr'[t].joining = u[t].joining /\ thr'[t].waitingFork = u[t].waitingFork
  <2>1. Typed(u) /\ t \in Threads
    BY <1>2 DEF Opened
  <2> QED BY <1>1, <2>1, WithScheduledFields
<1>4. OneReason(thr'[t], FALSE)
  BY <1>2, <1>3 DEF Opened, OneReason
<1>5. Sound(thr', 0, created) /\ Room(thr', 0, created)
  BY <1>1, <1>2, <1>3, <1>4, StopSound DEF Opened
<1>6. Placed(thr', active, rest, delayed \cup {t}, waiters)
  BY <1>2, <1>3, PlacedLater DEF Opened
<1>7. Stopped(t, code, thr', active', delayed', waiters')
  BY <1>1, <1>5, <1>6 DEF Stopped
<1> QED BY <1>1, <1>7, StopParts

LEMMA YieldStep ==
    ASSUME Parts, NEW t, t = running, running # 0,
           NEW code \in NextCode(t), Yield(t, code)
    PROVE  Parts'
<1> DEFINE u == At(thr, t, code)
<1>1. Fetch(t, code) /\ Head(code).op # "fork" /\ Suspend
      /\ created' = created /\ delayed' = delayed /\ waiters' = waiters
      /\ active' = Append(active, <<t>>) /\ thr' = WithScheduled(u, t, TRUE)
  BY DEF Yield, Marked, WithScheduled
<1>2. Opened(t, code, u)
  BY <1>1, OpenedAt
<1> HIDE DEF u
<1>3. /\ Changed(u, thr', t) /\ thr'[t].scheduled
      /\ thr'[t].waitingEvent = u[t].waitingEvent
      /\ thr'[t].joining = u[t].joining /\ thr'[t].waitingFork = u[t].waitingFork
  BY <1>1, <1>2, WithScheduledFields, ZenonT(30) DEF Opened
<1>4. OneReason(thr'[t], FALSE)
  BY <1>2, <1>3 DEF Opened, OneReason
<1>5. Sound(thr', 0, created) /\ Room(thr', 0, created)
  BY <1>1, <1>2, <1>3, <1>4, StopSound DEF Opened
<1>6. Placed(thr', Append(active, <<t>>), rest, delayed, waiters)
  BY <1>2, <1>3, PlacedLater DEF Opened
<1>7. Stopped(t, code, thr', active', delayed', waiters')
  BY <1>1, <1>5, <1>6 DEF Stopped
<1> QED BY <1>1, <1>7, StopParts

LEMMA WaitStep ==
    ASSUME Parts, NEW t, t = running, running # 0,
           NEW code \in NextCode(t), Wait(t, code)
    PROVE  Parts'
<1> DEFINE u == At(thr, t, code)
<1>1. Fetch(t, code) /\ Head(code).op # "fork" /\ Suspend
      /\ created' = created /\ delayed' = delayed /\ active' = active
      /\ waiters' = <<t>> \o waiters /\ thr' = WithWaitingEvent(u, t)
  BY DEF Wait, WithWaitingEvent
<1>2. Opened(t, code, u)
  BY <1>1, OpenedAt
<1> HIDE DEF u
<1>3. /\ Changed(u, thr', t) /\ thr'[t].waitingEvent
      /\ thr'[t].scheduled = u[t].scheduled
      /\ thr'[t].joining = u[t].joining /\ thr'[t].waitingFork = u[t].waitingFork
  BY <1>1, <1>2, WithWaitingEventFields DEF Opened
<1>4. OneReason(thr'[t], FALSE)
  BY <1>2, <1>3 DEF Opened, OneReason
<1>5. Sound(thr', 0, created) /\ Room(thr', 0, created)
  BY <1>1, <1>2, <1>3, <1>4, StopSound DEF Opened
<1>6. Placed(thr', active, rest, delayed, <<t>> \o waiters)
  BY <1>2, <1>3, PlacedWaits DEF Opened
<1>7. Stopped(t, code, thr', active', delayed', waiters')
  BY <1>1, <1>5, <1>6 DEF Stopped
<1> QED BY <1>1, <1>7, StopParts

LEMMA JoinWaitsStep ==
    ASSUME Parts, NEW t, t = running, running # 0,
           NEW code \in NextCode(t), JoinWaits(t, code)
    PROVE  Parts'
<1> DEFINE u == At(thr, t, code)
<1>1. Fetch(t, code) /\ Head(code).op # "fork" /\ Suspend
      /\ created' = created /\ delayed' = delayed /\ active' = active
      /\ waiters' = waiters /\ thr' = WithJoining(u, t)
  BY DEF JoinWaits, WithJoining
<1>2. Opened(t, code, u)
  BY <1>1, OpenedAt
<1> HIDE DEF u
<1>3. /\ Changed(u, thr', t) /\ thr'[t].joining
      /\ thr'[t].scheduled = u[t].scheduled
      /\ thr'[t].waitingEvent = u[t].waitingEvent
      /\ thr'[t].waitingFork = u[t].waitingFork
  BY <1>1, <1>2, WithJoiningFields DEF Opened
<1>4. OneReason(thr'[t], FALSE)
  BY <1>2, <1>3 DEF Opened, OneReason
<1>5. Sound(thr', 0, created) /\ Room(thr', 0, created)
  BY <1>1, <1>2, <1>3, <1>4, StopSound DEF Opened
<1>6. Placed(thr', active, rest, delayed, waiters)
  BY <1>2, <1>3, PlacedSame DEF Opened
<1>7. Stopped(t, code, thr', active', delayed', waiters')
  BY <1>1, <1>5, <1>6 DEF Stopped
<1> QED BY <1>1, <1>7, StopParts

(* The thread goes on with the next opcode.                                *)
LEMMA GoesOnParts ==
    ASSUME Parts, NEW t, t = running, running # 0,
           NEW code \in NextCode(t), Fetch(t, code), Continue,
           Sound(thr', t, created'), Room(thr', t, created'),
           Placed(thr', active', rest', delayed', waiters')
    PROVE  Parts'
<1>1. begun' \in 0..MaxStatements /\ DisablingType /\ Forker = t
  BY OpenedAt
<1>2. Forker' = t /\ running' = t
  BY <1>1 DEF Continue, Forker, NotDisabling
<1> QED BY <1>1, <1>2 DEF Continue, Parts, DisablingType

LEMMA WaitForkStep ==
    ASSUME Parts, NEW t, t = running, running # 0,
           NEW code \in NextCode(t), WaitFork(t, code)
    PROVE  Parts'
<1> DEFINE u == At(thr, t, code)
<1>1. Fetch(t, code) /\ Head(code).op # "fork"
      /\ created' = created /\ delayed' = delayed /\ active' = active
      /\ waiters' = waiters
      /\ \/ thr' = u /\ Continue
         \/ thr' = WithWaitingFork(u, t) /\ Suspend
  BY DEF WaitFork, WithWaitingFork
<1>2. Opened(t, code, u)
  BY <1>1, OpenedAt
<1> HIDE DEF u
<1>3. CASE thr' = u /\ Continue
  <2>1. Sound(thr', t, created') /\ Room(thr', t, created')
        /\ Placed(thr', active', rest', delayed', waiters')
    BY <1>1, <1>2, <1>3 DEF Opened, Continue
  <2> QED BY <1>1, <1>3, <2>1, GoesOnParts
<1>4. CASE thr' = WithWaitingFork(u, t) /\ Suspend
  <2>1. /\ Changed(u, thr', t) /\ thr'[t].waitingFork
        /\ thr'[t].scheduled = u[t].scheduled
        /\ thr'[t].waitingEvent = u[t].waitingEvent
        /\ thr'[t].joining = u[t].joining
    BY <1>2, <1>4, WithWaitingForkFields DEF Opened
  <2>2. OneReason(thr'[t], FALSE)
    BY <1>2, <2>1 DEF Opened, OneReason
  <2>3. Sound(thr', 0, created) /\ Room(thr', 0, created)
    BY <1>1, <1>2, <2>1, <2>2, StopSound DEF Opened
  <2>4. Placed(thr', active, rest, delayed, waiters)
    BY <1>2, <2>1, PlacedSame DEF Opened
  <2>5. Stopped(t, code, thr', active', delayed', waiters')
    BY <1>1, <2>3, <2>4 DEF Stopped
  <2> QED BY <1>1, <1>4, <2>5, StopParts
<1> QED BY <1>1, <1>3, <1>4

-----------------------------------------------------------------------------
(* The scheduler. *)
LEMMA StartParts ==
    ASSUME Parts, running = 0, NEW t \in Threads, thr[t].scheduled, Start(t),
           UNCHANGED <<created, disabling, begun, delayed, waiters>>,
           Changed(thr, thr', t) /\ ~ thr'[t].scheduled
           /\ thr'[t].waitingEvent = thr[t].waitingEvent
             => Placed(thr', active', rest', delayed', waiters')
    PROVE  Parts'
<1>1. running' = t /\ thr' = WithScheduled(thr, t, FALSE)
  BY DEF Start, WithScheduled
<1>2. Forker = 0 /\ Sound(thr, 0, created) /\ Room(thr, 0, created)
  BY DEF Forker, Parts
<1>3. /\ Sound(thr', t, created) /\ Room(thr', t, created)
      /\ Changed(thr, thr', t) /\ ~ thr'[t].scheduled
      /\ thr'[t].waitingEvent = thr[t].waitingEvent
  BY <1>1, <1>2, StartSound
<1>4. Room(thr', 0, created)
  BY <1>2, <1>3, FlagsRoom DEF Changed
<1>5. Forker' \in {0, t}
  BY <1>1 DEF Forker
<1>6. Room(thr', Forker', created')
  BY <1>3, <1>4, <1>5
<1> QED BY <1>1, <1>3, <1>6 DEF Parts, DisablingType

LEMMA RunEventStep ==
    ASSUME Parts, RunEvent
    PROVE  Parts'
<1> DEFINE t == Head(Head(active))
<1>1. /\ running = 0 /\ rest = <<>> /\ active # <<>> /\ Start(t)
      /\ rest' = Tail(Head(active)) /\ active' = Tail(active)
      /\ UNCHANGED <<created, disabling, begun, delayed, waiters>>
  BY DEF RunEvent
<1>2. Placed(thr, active, <<>>, delayed, waiters)
  BY <1>1 DEF Parts
<1>3. /\ t \in Threads /\ thr[t].scheduled
      /\ \A u : /\ Changed(thr, u, t) /\ ~ u[t].scheduled
                /\ u[t].waitingEvent = thr[t].waitingEvent
                => Placed(u, Tail(active), Tail(Head(active)), delayed, waiters)
  BY <1>1, <1>2, PlacedHead
<1> HIDE DEF t
<1>4. Changed(thr, thr', t) /\ ~ thr'[t].scheduled
      /\ thr'[t].waitingEvent = thr[t].waitingEvent
        => Placed(thr', active', rest', delayed', waiters')
  BY <1>1, <1>3
<1> QED BY <1>1, <1>3, <1>4, StartParts

LEMMA RunNextStep ==
    ASSUME Parts, RunNext
    PROVE  Parts'
<1> DEFINE t == Head(rest)
<1>1. /\ running = 0 /\ rest # <<>> /\ Start(t)
      /\ rest' = Tail(rest) /\ active' = active
      /\ UNCHANGED <<created, disabling, begun, delayed, waiters>>
  BY DEF RunNext
<1>2. Placed(thr, active, rest, delayed, waiters)
  BY DEF Parts
<1>3. /\ t \in Threads /\ thr[t].scheduled
      /\ \A u : /\ Changed(thr, u, t) /\ ~ u[t].scheduled
                /\ u[t].waitingEvent = thr[t].waitingEvent
                => Placed(u, active, Tail(rest), delayed, waiters)
  BY <1>1, <1>2, PlacedNext
<1> HIDE DEF t
<1>4. Changed(thr, thr', t) /\ ~ thr'[t].scheduled
      /\ thr'[t].waitingEvent = thr[t].waitingEvent
        => Placed(thr', active', rest', delayed', waiters')
  BY <1>1, <1>3
<1> QED BY <1>1, <1>3, <1>4, StartParts

LEMMA AdvanceStep ==
    ASSUME Parts, Advance
    PROVE  Parts'
<1>1. /\ rest = <<>> /\ active = <<>>
      /\ UNCHANGED <<thr, created, running, rest, waiters, disabling, begun>>
  BY DEF Advance
<1>2. PICK E \in (SUBSET delayed) \ {{}} :
        /\ delayed' = delayed \ E
        /\ \E q \in SetToSeqs(E) : active' = [i \in DOMAIN q |-> <<q[i]>>]
  BY DEF Advance
<1>3. PICK q \in SetToSeqs(E) : active' = [i \in DOMAIN q |-> <<q[i]>>]
  BY <1>2
<1>4. Placed(thr, <<>>, <<>>, delayed, waiters)
  BY <1>1 DEF Parts
<1>5. Placed(thr, active', <<>>, delayed \ E, waiters)
  BY <1>2, <1>3, <1>4, PlacedAdvance
<1> QED BY <1>1, <1>2, <1>5 DEF Parts, Forker, NotDisabling, DisablingType

-----------------------------------------------------------------------------
(* The opcodes after which the thread goes on. *)
LEMMA EventStep ==
    ASSUME Parts, NEW t, t = running, running # 0,
           NEW code \in NextCode(t), Event(t, code)
    PROVE  Parts'
<1> DEFINE u == At(thr, t, code)
           W == ToSet(waiters)
<1>1. /\ Fetch(t, code) /\ Continue /\ UNCHANGED <<created, delayed>>
      /\ thr' = [x \in Threads |->
                   IF x \in W
                   THEN [thr[x] EXCEPT !.waitingEvent = FALSE, !.scheduled = TRUE]
                   ELSE u[x]]
      /\ active' = IF waiters = <<>> THEN active ELSE Append(active, waiters)
      /\ waiters' = <<>>
  BY DEF Event
<1>2. Opened(t, code, u)
  BY <1>1, OpenedAt
<1> HIDE DEF u
<1>3. \A x \in W : u[x] = thr[x]
  <2> SUFFICES ASSUME NEW x \in W PROVE u[x] = thr[x]
    OBVIOUS
  <2>1. x \in Threads /\ u[x].waitingEvent
    BY <1>2 DEF Opened, Placed
  <2>2. x # t
    BY <1>2, <2>1 DEF Opened
  <2> QED BY <1>2, <2>1, <2>2 DEF Opened
<1>4. thr' = Roused(u, waiters)
  BY <1>1, <1>3 DEF Roused
<1>5. /\ Sound(u, t, created) /\ Room(u, t, created) /\ t \in Threads
      /\ Placed(u, active, rest, delayed, waiters)
  BY <1>2 DEF Opened
<1>6. LET v == Roused(u, waiters)
      IN  /\ Sound(v, t, created)
          /\ \A f : Room(u, f, created) => Room(v, f, created)
          /\ Placed(v, IF waiters = <<>> THEN active ELSE Append(active, waiters),
                    rest, delayed, <<>>)
  BY <1>5, RousedSound
<1>7. /\ Sound(thr', t, created) /\ Room(thr', t, created)
      /\ Placed(thr', active', rest, delayed, <<>>)
  BY <1>1, <1>4, <1>5, <1>6
<1> QED BY <1>1, <1>7, GoesOnParts DEF Continue

LEMMA OpcodeScopes ==
    ASSUME NEW x \in Opcodes
    PROVE  x.op \in {"fork", "disable"} => x.scope \in Scopes
BY DEF Opcodes, Op, Fork, Detach, Disable, Simple, Scopes

LEMMA ForkChildStep ==
    ASSUME Parts, NEW t, t = running, running # 0,
           NEW code \in NextCode(t), ForkChild(t, code)
    PROVE  Parts'
<1> DEFINE u == At(thr, t, code)
           sc == Head(code).scope
           c == created + 1
<1>1. /\ Fetch(t, code) /\ Continue /\ UNCHANGED <<delayed, waiters>>
      /\ Head(code).op = "fork" /\ created' = c
      /\ thr' = WithChild(u, t, c, sc)
      /\ active' = PushFront(active, c)
  BY DEF ForkChild, WithChild
<1>2. Opened(t, code, u)
  BY <1>1, OpenedAt
<1> HIDE DEF u
<1>3. sc \in Scopes
  BY <1>1, <1>2, OpcodeScopes DEF Opened
<1> HIDE DEF sc
<1>4. /\ Sound(u, t, created) /\ Room(u, t, c) /\ t \in Threads
      /\ Placed(u, active, rest, delayed, waiters)
      /\ created + 1 <= MaxThreads /\ ~ u[t].ended
  BY <1>1, <1>2 DEF Opened
<1>5. /\ Sound(thr', t, c) /\ Room(thr', t, c)
      /\ Placed(thr', active', rest, delayed, waiters)
  BY <1>1, <1>3, <1>4, ForkSound
<1> QED BY <1>1, <1>5, GoesOnParts DEF Continue

(* A step after which the threads have only faded.                         *)
LEMMA FadedParts ==
    ASSUME Parts, NEW t, t = running, running # 0,
           NEW code \in NextCode(t), Fetch(t, code), Continue,
           UNCHANGED <<created, active, delayed, waiters>>,
           NEW u, Opened(t, code, u), Typed(thr'), Fades(u, thr')
    PROVE  Parts'
<1>1. /\ Sound(u, t, created) /\ Room(u, t, created) /\ created \in 0..MaxThreads
      /\ Placed(u, active, rest, delayed, waiters)
  BY DEF Opened
<1>2. Sound(thr', t, created)
  BY <1>1, SoundFades
<1>3. Room(thr', t, created)
  BY <1>1, RoomFades
<1>4. Placed(thr', active, rest, delayed, waiters)
  BY <1>1, PlacedFades
<1> QED BY <1>2, <1>3, <1>4, GoesOnParts DEF Continue

LEMMA JoinEndedStep ==
    ASSUME Parts, NEW t, t = running, running # 0,
           NEW code \in NextCode(t), JoinEnded(t, code)
    PROVE  Parts'
<1> DEFINE u == At(thr, t, code)
<1>1. /\ Fetch(t, code) /\ Continue
      /\ UNCHANGED <<created, active, delayed, waiters>>
      /\ \E c \in EndedChildren(t) : thr' = Joined(u, t, c)
  BY DEF JoinEnded
<1>2. Opened(t, code, u)
  BY <1>1, OpenedAt
<1> HIDE DEF u
<1>3. PICK c \in EndedChildren(t) : thr' = Joined(u, t, c)
  BY <1>1
<1>4. c \in Threads /\ thr[c].ended
  <2>1. thr[t] \in ThreadState
    BY <1>2 DEF Opened, Parts, Sound, Typed
  <2> QED BY <2>1 DEF EndedChildren, ThreadState
<1>5. u[c].ended
  BY <1>2, <1>4 DEF Opened, Alike
<1>6. Typed(thr') /\ Fades(u, thr')
  BY <1>2, <1>3, <1>4, <1>5, JoinedFades DEF Opened
<1> QED BY <1>1, <1>2, <1>6, FadedParts

(* A disable fork that finds nobody goes on; otherwise it stays where it is *)
(* and one detached child, which is younger than it, is turned off.        *)
LEMMA DisableForkStep ==
    ASSUME Parts, NEW t, t = running, running # 0,
           NEW code \in NextCode(t), DisableFork(t, code)
    PROVE  Parts'
<1> DEFINE u == At(thr, t, code)
<1>1. /\ Fetch(t, code) /\ Continue
      /\ UNCHANGED <<created, active, delayed, waiters>>
      /\ \/ thr' = u
         \/ \E c \in thr[t].detached :
               thr' = WithCode(Reap(Disabled(thr, c), c), t, code)
  BY DEF DisableFork, WithCode
<1>2. Opened(t, code, u)
  BY <1>1, OpenedAt
<1> HIDE DEF u
<1>3. CASE thr' = u
  <2>1. Typed(thr') /\ Fades(u, thr')
    BY <1>2, <1>3, FadesReflexive DEF Opened
  <2> QED BY <1>1, <1>2, <2>1, FadedParts
<1>4. ASSUME NEW c \in thr[t].detached,
             thr' = WithCode(Reap(Disabled(thr, c), c), t, code)
      PROVE  Parts'
  <2>1. /\ t \in Threads /\ Sound(thr, t, created) /\ Room(thr, t, created)
        /\ Placed(thr, active, rest, delayed, waiters)
        /\ ~ thr[t].ended /\ Coded(code, created)
    BY <1>1, CodeOf
  <2>2. created \in 0..MaxThreads
    BY <2>1 DEF Sound, Born
  <2>3. c \in Threads /\ c > t /\ thr[c].parent \in {0, t}
    <3>1. thr[t] \in ThreadState
      BY <2>1 DEF Sound, Typed
    <3> QED BY <2>1, <3>1 DEF ThreadState, Sound, Kin
  <2>4. ~ thr[t].joining
    BY <2>1 DEF Sound, Single, OneReason
  <2> DEFINE d == Disabled(thr, c)
             r == Reap(d, c)
  <2>5. t < c
    BY <2>1, <2>3 DEF Threads
  <2>6. thr[c].parent = 0 \/ ~ thr[thr[c].parent].joining
    BY <2>3, <2>4
  <2>7. /\ d[t].ended = thr[t].ended /\ d[c].ended /\ Typed(d) /\ Fades(thr, d)
    BY <2>1, <2>3, <2>5, <2>6, DisabledEnds
  <2> HIDE DEF d
  <2>8. Typed(r) /\ Fades(d, r) /\ r[t].ended = d[t].ended
    BY <2>1, <2>3, <2>5, <2>7, ReapFades, ReapEnds DEF Threads
  <2> HIDE DEF r
  <2>9. Typed(thr)
    BY <2>1 DEF Sound
  <2>10. Fades(thr, r)
    BY <2>7, <2>8, <2>9, FadesTransitive
  <2>11. Sound(r, t, created) /\ Room(r, t, created)
    BY <2>1, <2>2, <2>8, <2>10, SoundFades, RoomFades
  <2>12. Placed(r, active, rest, delayed, waiters)
    BY <2>1, <2>10, PlacedFades
  <2>13. thr' = WithCode(r, t, code)
    BY <1>4 DEF r, d
  <2>14. code \in Codes
    BY <2>1 DEF Coded
  <2>15. /\ Typed(thr')
         /\ \A x \in Threads : Alike(r[x], thr'[x])
         /\ \A x \in Threads : x # t => thr'[x] = r[x]
         /\ thr'[t].code = code
    BY <2>1, <2>7, <2>8, <2>13, <2>14, CodeFields
  <2>16. /\ Sound(thr', t, created)
         /\ Placed(thr', active, rest, delayed, waiters)
    <3>1. \A x \in Threads : x # t => thr'[x].code = r[x].code
      BY <2>15
    <3> QED BY <2>1, <2>11, <2>12, <2>15, <3>1, AlikeSound
  <2>17. Room(thr', t, created)
    <3> SUFFICES ASSUME NEW x \in Threads
                 PROVE  \E n \in 0..2 :
                          /\ n <= Len(thr'[x].code) /\ ForksFirst(thr'[x].code, n)
                          /\ IF x = t THEN created + n <= MaxThreads ELSE n = 0
      BY DEF Room
    <3>1. CASE x = t
      BY <2>1, <2>15, <3>1 DEF Coded
    <3>2. CASE x # t
      BY <2>11, <2>15, <3>2 DEF Room
    <3> QED BY <3>1, <3>2
  <2> QED BY <1>1, <2>16, <2>17, GoesOnParts DEF Continue
<1> QED BY <1>1, <1>3, <1>4

LEMMA Untied ==
    ASSUME NEW y \in ThreadState, 0 \in 0..MaxThreads, <<>> \in Codes
    PROVE  [y EXCEPT !.parent = 0, !.inScope = FALSE, !.code = <<>>] \in ThreadState
<1> DEFINE A == 0..MaxThreads
<1>1. A = 0..MaxThreads
  OBVIOUS
<1> HIDE DEF A
<1> QED BY <1>1 DEF ThreadState

(* What of_JOIN_DETACH leaves: its children are reaped or detached.        *)
LEMMA DetachedSound ==
    ASSUME NEW s, NEW t \in Threads, NEW c \in 0..MaxThreads, Sound(s, t, c)
    PROVE  /\ Sound(Detached(s, t), t, c)
           /\ \A f : Room(s, f, c) => Room(Detached(s, t), f, c)
           /\ \A q, r, D, w : Placed(s, q, r, D, w)
                => Placed(Detached(s, t), q, r, D, w)
<1> DEFINE C == s[t].children
           E == {x \in C : s[x].ended}
           gone(x) == [s[x] EXCEPT !.parent = 0, !.inScope = FALSE, !.code = <<>>]
           det(x) == [s[x] EXCEPT !.isDetached = TRUE]
           own == [s[t] EXCEPT !.children = {}, !.detached = @ \cup (C \ E)]
           m == [x \in Threads |->
                   IF x \in E THEN Freed(gone(x))
                   ELSE IF x \in C THEN det(x)
                   ELSE IF x = t
                   THEN [s[x] EXCEPT !.children = {}, !.detached = @ \cup (C \ E)]
                   ELSE s[x]]
<1>1. Detached(s, t) = Released(m, E)
  BY DEF Detached
<1>2. Typed(s) /\ Kin(s) /\ Single(s, t) /\ Born(s, t, c)
  BY DEF Sound
<1>3. \A x \in Threads : s[x] \in ThreadState /\ (s[x].ended => s[x].code = <<>>)
  BY <1>2 DEF Typed
<1>4. C \subseteq Threads /\ t \notin C
  BY <1>2, <1>3 DEF ThreadState, Kin, Threads
<1>5. \A x \in C : /\ x <= c /\ x > t /\ s[x].parent \in {0, t}
                   /\ s[x].ended \/ (s[x].parent = t /\ ~ s[x].isDetached)
  BY <1>2, <1>4 DEF Kin, Born
(* The fields that every thread keeps. *)
<1> DEFINE Keeps(x) ==
             /\ m[x] \in ThreadState
             /\ m[x].scheduled = s[x].scheduled /\ m[x].waitingEvent = s[x].waitingEvent
             /\ m[x].joining = s[x].joining /\ m[x].waitingFork = s[x].waitingFork
             /\ m[x].ended = s[x].ended /\ m[x].code = s[x].code
<1>6. ASSUME NEW x \in E
      PROVE  /\ Keeps(x) /\ m[x].parent = 0 /\ m[x].isDetached = s[x].isDetached
             /\ m[x].children = s[x].children /\ m[x].detached = s[x].detached
  <2>1. x \in Threads /\ x \in C /\ s[x].ended /\ s[x].code = <<>>
    BY <1>3, <1>4
  <2>2. m[x] = Freed(gone(x))
    BY <2>1
  <2>3. gone(x) \in ThreadState
    <3>1. 0 \in 0..MaxThreads /\ FALSE \in BOOLEAN /\ <<>> \in Codes /\ s[x] \in ThreadState
      BY <1>3, <2>1, BoundsAssumption, EmptyCode
    <3> QED BY <3>1, Untied
  <2>4. /\ gone(x).parent = 0 /\ gone(x).isDetached = s[x].isDetached
        /\ gone(x).children = s[x].children /\ gone(x).detached = s[x].detached
        /\ gone(x).scheduled = s[x].scheduled
        /\ gone(x).waitingEvent = s[x].waitingEvent
        /\ gone(x).joining = s[x].joining /\ gone(x).waitingFork = s[x].waitingFork
        /\ gone(x).ended = s[x].ended /\ gone(x).code = s[x].code
    BY <1>3, <2>1 DEF ThreadState
  <2>5. /\ Freed(gone(x)) \in ThreadState
        /\ Freed(gone(x)).parent = gone(x).parent
        /\ Freed(gone(x)).isDetached = gone(x).isDetached
        /\ Freed(gone(x)).children = gone(x).children
        /\ Freed(gone(x)).detached = gone(x).detached
        /\ Freed(gone(x)).scheduled = gone(x).scheduled
        /\ Freed(gone(x)).waitingEvent = gone(x).waitingEvent
        /\ Freed(gone(x)).joining = gone(x).joining
        /\ Freed(gone(x)).waitingFork = gone(x).waitingFork
        /\ Freed(gone(x)).ended = gone(x).ended
        /\ Freed(gone(x)).code = gone(x).code
    <3> HIDE DEF gone
    <3> QED BY <2>3 DEF Freed, ThreadState
  <2> HIDE DEF m, gone
  <2> QED BY <2>2, <2>4, <2>5
<1>7. ASSUME NEW x \in C, x \notin E
      PROVE  /\ Keeps(x) /\ m[x].parent = s[x].parent
             /\ m[x].children = s[x].children /\ m[x].detached = s[x].detached
  <2>1. x \in Threads
    BY <1>4
  <2>2. m[x] = det(x)
    BY <1>7, <2>1
  <2>3. det(x) \in ThreadState
    BY <1>3, <2>1, ZenonT(30) DEF ThreadState
  <2>4. /\ det(x).parent = s[x].parent
        /\ det(x).children = s[x].children /\ det(x).detached = s[x].detached
        /\ det(x).scheduled = s[x].scheduled
        /\ det(x).waitingEvent = s[x].waitingEvent
        /\ det(x).joining = s[x].joining /\ det(x).waitingFork = s[x].waitingFork
        /\ det(x).ended = s[x].ended /\ det(x).code = s[x].code
    BY <1>3, <2>1 DEF ThreadState
  <2> HIDE DEF m, det
  <2> QED BY <2>2, <2>3, <2>4
<1>8. /\ Keeps(t) /\ m[t].parent = s[t].parent /\ m[t].isDetached = s[t].isDetached
      /\ m[t].children = {}
      /\ m[t].detached \subseteq s[t].children \cup s[t].detached
  <2>1. m[t] = own
    BY <1>4
  <2>2. own \in ThreadState
    <3> DEFINE Z == s[t].detached \cup (C \ E)
    <3>1. s[t] \in ThreadState
      BY <1>3
    <3>2. {} \in SUBSET Threads /\ Z \in SUBSET Threads
      BY <1>4, <3>1 DEF ThreadState
    <3> HIDE DEF C, E, Z
    <3>3. [s[t] EXCEPT !.children = {}, !.detached = Z] \in ThreadState
      BY <3>1, <3>2 DEF ThreadState
    <3> QED BY <3>3 DEF Z
  <2>3. /\ own.parent = s[t].parent /\ own.isDetached = s[t].isDetached
        /\ own.children = {} /\ own.detached = s[t].detached \cup (C \ E)
        /\ own.scheduled = s[t].scheduled
        /\ own.waitingEvent = s[t].waitingEvent
        /\ own.joining = s[t].joining /\ own.waitingFork = s[t].waitingFork
        /\ own.ended = s[t].ended /\ own.code = s[t].code
    BY <1>3 DEF ThreadState
  <2> HIDE DEF m, own
  <2> QED BY <2>1, <2>2, <2>3
<1>9. ASSUME NEW x \in Threads, x \notin C, x # t
      PROVE  m[x] = s[x]
  BY <1>9
<1>10. m = [x \in Threads |-> m[x]]
  OBVIOUS
<1>11. E \subseteq C /\ \A x \in C : x \notin E => ~ s[x].ended
  OBVIOUS
<1> HIDE DEF m, E, gone, det, own
<1>12. ASSUME NEW x \in Threads
       PROVE  /\ Keeps(x) /\ m[x].parent \in {0, s[x].parent}
              /\ m[x].children \subseteq s[x].children
              /\ m[x].children \cup m[x].detached
                   \subseteq s[x].children \cup s[x].detached
  <2>1. CASE x \in E
    BY <1>6, <2>1
  <2>2. CASE x \in C /\ x \notin E
    BY <1>7, <2>2
  <2>3. CASE x = t
    BY <1>8, <2>3
  <2>4. CASE x \notin C /\ x # t
    BY <1>3, <1>9, <2>4
  <2> QED BY <1>11, <2>1, <2>2, <2>3, <2>4
<1>13. Typed(m)
  <2>1. \A x \in Threads : m[x] \in ThreadState /\ (m[x].ended => m[x].code = <<>>)
    BY <1>3, <1>12
  <2>2. m \in [Threads -> ThreadState]
    BY <1>10, <2>1
  <2> QED BY <2>1, <2>2 DEF Typed
<1>14. Kin(m)
  <2>1. \A x \in Threads : m[x].parent < x
    BY <1>2, <1>12 DEF Kin, Threads
  <2>2. ASSUME NEW x \in Threads, m[x].isDetached, ~ m[x].ended
        PROVE  m[x].parent # 0
    <3>1. ~ s[x].ended
      BY <1>12, <2>2
    <3>2. CASE x \in C
      <4>1. x \notin E
        BY <1>6, <1>12, <3>1, <3>2 DEF E
      <4> QED BY <1>5, <1>7, <3>1, <3>2, <4>1 DEF Threads
    <3>3. CASE x = t
      BY <1>2, <1>8, <2>2, <3>1, <3>3 DEF Kin
    <3>4. CASE x \notin C /\ x # t
      BY <1>2, <1>9, <2>2, <3>4 DEF Kin
    <3> QED BY <3>2, <3>3, <3>4
  <2>3. ASSUME NEW x \in Threads, NEW y \in m[x].children \cup m[x].detached
        PROVE  y > x /\ m[y].parent \in {0, x}
    <3>1. y \in s[x].children \cup s[x].detached
      BY <1>12
    <3>2. y \in Threads /\ y > x /\ s[y].parent \in {0, x}
      BY <1>2, <1>3, <3>1 DEF Kin, ThreadState
    <3> QED BY <1>12, <3>2
  <2>4. ASSUME NEW x \in Threads, NEW y \in m[x].children
        PROVE  m[y].ended \/ (m[y].parent = x /\ ~ m[y].isDetached)
    <3>1. x # t /\ y \in s[x].children
      BY <1>8, <1>12
    <3>2. y \in Threads /\ (s[y].ended \/ (s[y].parent = x /\ ~ s[y].isDetached))
      BY <1>2, <1>3, <3>1 DEF Kin, ThreadState
    <3>3. CASE s[y].ended
      BY <1>12, <3>2, <3>3
    <3>4. CASE s[y].parent = x /\ ~ s[y].isDetached /\ ~ s[y].ended
      <4>1. y \notin C
        BY <1>5, <3>1, <3>4 DEF Threads
      <4> QED BY <1>8, <1>9, <3>2, <3>4, <4>1
    <3> QED BY <3>2, <3>3, <3>4
  <2> QED BY <2>1, <2>2, <2>3, <2>4 DEF Kin
<1>15. Single(m, t)
  BY <1>2, <1>12 DEF Single, OneReason
<1>16. Born(m, t, c)
  <2>1. \A x \in Threads : x > c => m[x] = s[x]
    <3> SUFFICES ASSUME NEW x \in Threads, x > c PROVE x \notin C /\ x # t
      BY <1>9
    <3>1. t <= c
      BY <1>2 DEF Born, Threads
    <3> QED BY <1>5, <3>1 DEF Threads
  <2>2. \A x \in Threads : \A y \in m[x].children \cup m[x].detached : y <= c
    BY <1>2, <1>12 DEF Born
  <2> QED BY <1>2, <2>1, <2>2 DEF Born
<1>17. Sound(m, t, c)
  BY <1>13, <1>14, <1>15, <1>16 DEF Sound
<1> DEFINE u == Released(m, E)
<1>18. Typed(u) /\ Fades(m, u)
  BY <1>13, ReleasedFades
<1> HIDE DEF u
<1>19. Sound(u, t, c)
  BY <1>17, <1>18, SoundFades
<1>20. ASSUME NEW f, Room(s, f, c) PROVE Room(u, f, c)
  <2>1. Room(m, f, c)
    BY <1>12, <1>20 DEF Room
  <2> QED BY <1>18, <2>1, RoomFades
<1>21. ASSUME NEW q, NEW r, NEW D, NEW w, Placed(s, q, r, D, w)
       PROVE  Placed(u, q, r, D, w)
  <2>1. {x \in Threads : m[x].scheduled} = {x \in Threads : s[x].scheduled}
        /\ {x \in Threads : m[x].waitingEvent} = {x \in Threads : s[x].waitingEvent}
    BY <1>12
  <2>2. Placed(m, q, r, D, w)
    BY <1>21, <2>1 DEF Placed
  <2> QED BY <1>18, <2>2, PlacedFades
<1> QED BY <1>1, <1>19, <1>20, <1>21 DEF u

LEMMA JoinDetachStep ==
    ASSUME Parts, NEW t, t = running, running # 0,
           NEW code \in NextCode(t), JoinDetach(t, code)
    PROVE  Parts'
<1> DEFINE u == At(thr, t, code)
<1>1. /\ Fetch(t, code) /\ Continue
      /\ UNCHANGED <<created, active, delayed, waiters>>
      /\ thr' = Detached(u, t)
  BY DEF JoinDetach
<1>2. Opened(t, code, u)
  BY <1>1, OpenedAt
<1> HIDE DEF u
<1>3. /\ t \in Threads /\ created \in 0..MaxThreads /\ Sound(u, t, created)
      /\ Room(u, t, created) /\ Placed(u, active, rest, delayed, waiters)
  BY <1>2 DEF Opened
<1>4. /\ Sound(thr', t, created) /\ Room(thr', t, created)
      /\ Placed(thr', active, rest, delayed, waiters)
  BY <1>1, <1>3, DetachedSound
<1> QED BY <1>1, <1>4, GoesOnParts DEF Continue

-----------------------------------------------------------------------------
(* %disable: the threads of the scope are turned off one after the other,  *)
(* and meanwhile the thread that executes it is not at any opcode.         *)
LEMMA BeginDisableStep ==
    ASSUME Parts, NEW t, t = running, running # 0,
           NEW code \in NextCode(t), BeginDisable(t, code)
    PROVE  Parts'
<1> DEFINE u == At(thr, t, code)
           sc == Head(code).scope
<1>1. /\ Fetch(t, code) /\ Head(code).op = "disable"
      /\ disabling' = [scope |-> sc, by |-> t, self |-> FALSE]
      /\ thr' = u /\ running' = running
      /\ UNCHANGED <<created, active, delayed, rest, waiters>>
  BY DEF BeginDisable
<1>2. Opened(t, code, u) /\ begun' \in 0..MaxStatements
  BY <1>1, OpenedAt
<1> HIDE DEF u
<1>3. sc \in Scopes
  BY <1>1, <1>2, OpcodeScopes DEF Opened
<1> HIDE DEF sc
<1>4. t \in 0..MaxThreads
  BY <1>2, BoundsAssumption DEF Opened
<1>5. DisablingType'
  BY <1>1, <1>3, <1>4 DEF DisablingType
<1>6. Forker' = 0
  BY <1>1, <1>3 DEF Forker, NotDisabling, Scopes
<1>7. /\ Sound(u, t, created) /\ Room(u, 0, created)
      /\ Placed(u, active, rest, delayed, waiters)
  BY <1>1, <1>2 DEF Opened
<1>8. /\ Sound(thr', running', created') /\ Room(thr', Forker', created')
      /\ Placed(thr', active', rest', delayed', waiters')
  BY <1>1, <1>6, <1>7
<1> QED BY <1>2, <1>5, <1>8 DEF Parts

LEMMA DisableNextStep ==
    ASSUME Parts, DisableNext
    PROVE  Parts'
<1>1. PICK t \in InScope :
        /\ thr' = Disabled(thr, t)
        /\ active' = AfterDisabled(active, thr, t)
        /\ disabling' = [disabling EXCEPT
                            !.self = @ \/ disabling.by \in Below(thr, t) \cup {t}]
  BY DEF DisableNext
<1>2. ~ NotDisabling /\ UNCHANGED <<created, delayed, running, rest, waiters, begun>>
  BY DEF DisableNext
<1>3. t \in Threads
  BY DEF InScope
<1>4. /\ Sound(thr, running, created) /\ Placed(thr, active, rest, delayed, waiters)
      /\ Room(thr, 0, created) /\ DisablingType /\ begun \in 0..MaxStatements
  BY <1>2 DEF Parts, Forker
<1>5. created \in 0..MaxThreads /\ Typed(thr)
  BY <1>4 DEF Sound, Born
<1> DEFINE b == disabling.by \in Below(thr, t) \cup {t}
<1>6. disabling'.scope = disabling.scope /\ DisablingType'
  <2>1. b \in BOOLEAN
    OBVIOUS
  <2>2. disabling' = [disabling EXCEPT !.self = @ \/ b]
    BY <1>1
  <2> HIDE DEF b
  <2> QED BY <1>4, <2>1, <2>2 DEF DisablingType
<1>7. Forker' = 0
  BY <1>2, <1>6 DEF Forker, NotDisabling
<1>8. /\ Typed(thr')
      /\ \/ /\ Fades(thr, thr')
            /\ \A q : AfterDisabled(q, thr, t) = q
         \/ /\ Wakes(thr, t, thr')
            /\ \A q : AfterDisabled(q, thr, t) = PushFront(q, thr[t].parent)
  BY <1>1, <1>3, <1>4, DisabledEffect
<1>9. CASE Fades(thr, thr') /\ \A q : AfterDisabled(q, thr, t) = q
  <2>1. active' = active
    BY <1>1, <1>9
  <2>2. Sound(thr', running, created) /\ Room(thr', 0, created)
        /\ Placed(thr', active, rest, delayed, waiters)
    BY <1>4, <1>5, <1>8, <1>9, SoundFades, RoomFades, PlacedFades
  <2> QED BY <1>2, <1>4, <1>6, <1>7, <2>1, <2>2 DEF Parts
<1>10. CASE /\ Wakes(thr, t, thr')
            /\ \A q : AfterDisabled(q, thr, t) = PushFront(q, thr[t].parent)
  <2> DEFINE p == thr[t].parent
             v == Woken(thr, p)
  <2>1. p \in Threads /\ thr[p].joining /\ Fades(v, thr')
    BY <1>10 DEF Wakes
  <2>2. active' = PushFront(active, p)
    BY <1>1, <1>10
  <2> HIDE DEF p, v
  <2>3. Sound(v, running, created) /\ ~ thr[p].scheduled
    BY <1>4, <2>1, SoundWoken DEF v
  <2>4. Placed(v, PushFront(active, p), rest, delayed, waiters)
    BY <1>4, <1>5, <2>1, <2>3, PlacedWoken DEF v
  <2>5. Room(v, 0, created)
    BY <1>4, <1>5, <2>1, RoomWoken DEF v
  <2>6. Sound(thr', running, created) /\ Room(thr', 0, created)
        /\ Placed(thr', PushFront(active, p), rest, delayed, waiters)
    BY <1>5, <1>8, <2>1, <2>3, <2>4, <2>5, SoundFades, RoomFades, PlacedFades
  <2> QED BY <1>2, <1>4, <1>6, <1>7, <2>2, <2>6 DEF Parts
<1> QED BY <1>8, <1>9, <1>10

LEMMA DisableDoneStep ==
    ASSUME Parts, DisableDone
    PROVE  Parts'
<1>1. /\ ~ NotDisabling /\ running' \in {0, running}
      /\ disabling' = [scope |-> "none", by |-> 0, self |-> FALSE]
      /\ UNCHANGED <<thr, created, active, delayed, rest, waiters, begun>>
  BY DEF DisableDone
<1>2. /\ Sound(thr, running, created) /\ Room(thr, 0, created)
  BY <1>1 DEF Parts, Forker
<1>3. created \in 0..MaxThreads
  BY <1>2 DEF Sound, Born
<1>4. Sound(thr, running', created)
  BY <1>1, <1>2, SoundIdle
<1>5. Room(thr, Forker', created)
  BY <1>2, <1>3, RoomFor
<1>6. DisablingType'
  BY <1>1, BoundsAssumption DEF DisablingType
<1> QED BY <1>1, <1>4, <1>5, <1>6 DEF Parts

-----------------------------------------------------------------------------
(* The end of a thread. *)
LEMMA EndFades ==
    ASSUME Typed(thr), NEW t \in Threads
    PROVE  Typed(EndState(t)) /\ Fades(thr, EndState(t)) /\ EndState(t)[t].ended
<1> DEFINE y == [thr[t] EXCEPT !.ended = TRUE, !.code = <<>>, !.detached = {}]
           s == [thr EXCEPT ![t].ended = TRUE, ![t].code = <<>>, ![t].detached = {}]
<1>1. thr[t] \in ThreadState
  BY DEF Typed
<1>2. y \in ThreadState
  BY <1>1, EmptyCode DEF ThreadState
<1>3. /\ y.ended /\ y.code = <<>> /\ y.detached = {}
      /\ y.scheduled = thr[t].scheduled /\ y.waitingEvent = thr[t].waitingEvent
      /\ y.joining = thr[t].joining /\ y.waitingFork = thr[t].waitingFork
      /\ y.parent = thr[t].parent /\ y.children = thr[t].children
      /\ y.isDetached = thr[t].isDetached
  BY <1>1 DEF ThreadState
<1>4. s = [thr EXCEPT ![t] = y]
  BY DEF Typed
<1>5. EndState(t) = Released(s, {t})
  BY DEF EndState
<1> HIDE DEF y, s
<1>6. FadesTo(thr[t], y)
  BY <1>3 DEF FadesTo
<1>7. Typed(s) /\ Fades(thr, s)
  BY <1>2, <1>3, <1>4, <1>6, OneFades
<1>8. s[t].ended
  BY <1>3, <1>4 DEF Typed
<1>9. Typed(Released(s, {t})) /\ Fades(s, Released(s, {t}))
  BY <1>7, ReleasedFades
<1>10. Released(s, {t})[t].ended
  BY <1>7, <1>8, ReleasedEnds
<1>11. Fades(thr, Released(s, {t}))
  BY <1>7, <1>9, FadesTransitive
<1> QED BY <1>5, <1>9, <1>10, <1>11

(* A running thread that is over leaves nothing but faded threads and       *)
(* perhaps a parent that was woken.                                        *)
Leaves(v, q) ==
    \/ v = thr /\ q = active
    \/ \E p \in Threads : /\ thr[p].joining \/ thr[p].waitingFork
                          /\ v = Woken(thr, p) /\ q = PushFront(active, p)

LEMMA LeaveParts ==
    ASSUME Parts, NotDisabling, NEW t, t = running, running # 0, Suspend,
           UNCHANGED <<created, delayed, waiters>>, begun' \in 0..MaxStatements,
           Typed(thr'), thr'[t].ended, NEW v, Leaves(v, active'), Fades(v, thr')
    PROVE  Parts'
<1>1. Forker = t /\ Forker' = 0
  BY DEF Forker, NotDisabling, Suspend
<1>2. /\ Sound(thr, t, created) /\ Room(thr, t, created)
      /\ Placed(thr, active, rest, delayed, waiters)
  BY <1>1 DEF Parts
<1>3. created \in 0..MaxThreads /\ t \in Threads /\ Typed(thr)
  BY <1>2, BoundsAssumption DEF Sound, Born, Threads
<1>4. /\ Sound(v, t, created) /\ Room(v, t, created)
      /\ Placed(v, active', rest, delayed, waiters)
  <2>1. CASE v = thr /\ active' = active
    BY <1>2, <2>1
  <2>2. ASSUME NEW p \in Threads, thr[p].joining \/ thr[p].waitingFork,
               v = Woken(thr, p), active' = PushFront(active, p)
        PROVE  /\ Sound(v, t, created) /\ Room(v, t, created)
               /\ Placed(v, active', rest, delayed, waiters)
    <3>1. Sound(v, t, created) /\ ~ thr[p].scheduled
      BY <1>2, <2>2, SoundWoken
    <3>2. Placed(v, PushFront(active, p), rest, delayed, waiters)
      BY <1>2, <1>3, <2>2, <3>1, PlacedWoken
    <3>3. Room(v, t, created)
      BY <1>2, <1>3, <2>2, RoomWoken
    <3> QED BY <2>2, <3>1, <3>2, <3>3
  <2> QED BY <2>1, <2>2 DEF Leaves
<1>5. Sound(thr', t, created) /\ Placed(thr', active', rest, delayed, waiters)
  BY <1>4, SoundFades, PlacedFades
<1>6. Sound(thr', 0, created)
  BY <1>5, SoundIdle
<1>7. thr'[t].code = <<>>
  BY <1>3 DEF Typed
<1>8. Room(thr', 0, created)
  BY <1>3, <1>4, <1>7, RoomEnds
<1>9. DisablingType'
  BY DEF Parts, Suspend, DisablingType
<1> QED BY <1>1, <1>5, <1>6, <1>8, <1>9 DEF Parts, Suspend

LEMMA ZombieStep ==
    ASSUME Parts, NEW t \in Threads, Zombie(t)
    PROVE  Parts'
<1> DEFINE y == [thr[t] EXCEPT !.mem = "deleted"]
<1>1. /\ running = t /\ running # 0 /\ NotDisabling /\ thr[t].ended /\ Suspend
      /\ UNCHANGED <<created, active, delayed, waiters, begun>>
      /\ thr' \in {thr, [thr EXCEPT ![t].mem = "deleted"]}
  BY DEF Zombie, Threads
<1>2. Typed(thr) /\ thr[t] \in ThreadState
  BY DEF Parts, Sound, Typed
<1>3. Typed(thr') /\ Fades(thr, thr')
  <2>1. CASE thr' = thr
    BY <1>2, <2>1, FadesReflexive
  <2>2. CASE thr' = [thr EXCEPT ![t].mem = "deleted"]
    <3>1. y \in ThreadState
      BY <1>2 DEF ThreadState
    <3>2. /\ y.scheduled = thr[t].scheduled /\ y.waitingEvent = thr[t].waitingEvent
          /\ y.joining = thr[t].joining /\ y.waitingFork = thr[t].waitingFork
          /\ y.parent = thr[t].parent /\ y.children = thr[t].children
          /\ y.detached = thr[t].detached /\ y.ended = thr[t].ended
          /\ y.isDetached = thr[t].isDetached /\ y.code = thr[t].code
      BY <1>2 DEF ThreadState
    <3>3. thr' = [thr EXCEPT ![t] = y]
      BY <1>2, <2>2 DEF Typed
    <3> HIDE DEF y
    <3>4. FadesTo(thr[t], y)
      BY <3>2 DEF FadesTo
    <3>5. y.ended => y.code = <<>>
      BY <1>2, <3>2 DEF Typed
    <3> QED BY <1>2, <3>1, <3>3, <3>4, <3>5, OneFades
  <2> QED BY <1>1, <2>1, <2>2
<1>4. thr'[t].ended
  BY <1>1, <1>3 DEF Fades, FadesTo
<1>5. Leaves(thr, active')
  BY <1>1 DEF Leaves
<1>6. begun' \in 0..MaxStatements
  BY <1>1 DEF Parts
<1> QED BY <1>1, <1>3, <1>4, <1>5, <1>6, LeaveParts

(* The end of a thread whose parent waits in a join for it.                *)
LEMMA EndJoinedEffect ==
    ASSUME NEW c, Sound(thr, running, c), NEW t \in Threads, ParentJoins(t), EndJoined(t)
    PROVE  /\ Typed(thr') /\ thr'[t].ended
           /\ \E v : Leaves(v, active') /\ Fades(v, thr')
<1> DEFINE p == thr[t].parent
           e == EndState(t)
           y == [e[p] EXCEPT !.joining = FALSE, !.scheduled = TRUE]
           s == [e EXCEPT ![p].joining = FALSE, ![p].scheduled = TRUE]
<1>1. Typed(e) /\ Fades(thr, e) /\ e[t].ended /\ Typed(thr)
  BY EndFades DEF Sound
<1>2. p \in Threads /\ p # t /\ thr[p].joining
  <2>1. p \in 0..MaxThreads /\ p < t /\ p # 0 /\ thr[p].joining
    BY DEF Sound, Typed, ThreadState, Kin, ParentJoins
  <2> HIDE DEF p
  <2> QED BY <2>1, BoundsAssumption DEF Threads
<1>3. CASE ~ Joinable(thr, p, t)
  <2>1. thr' = e /\ active' = active
    BY <1>3 DEF EndJoined
  <2>2. Leaves(thr, active') /\ Fades(thr, thr')
    BY <1>1, <2>1 DEF Leaves
  <2> QED BY <1>1, <2>1, <2>2
<1>4. CASE Joinable(thr, p, t)
  <2>1. thr' = Joined(s, p, t) /\ active' = PushFront(active, p)
    BY <1>4 DEF EndJoined
  <2>2. e[p] \in ThreadState /\ FadesTo(thr[p], e[p])
    BY <1>1, <1>2 DEF Typed, Fades
  <2>3. y \in ThreadState
    BY <2>2 DEF ThreadState
  <2>4. /\ y.scheduled /\ ~ y.joining
        /\ y.waitingEvent = e[p].waitingEvent /\ y.waitingFork = e[p].waitingFork
        /\ y.parent = e[p].parent /\ y.children = e[p].children
        /\ y.detached = e[p].detached /\ y.ended = e[p].ended
        /\ y.isDetached = e[p].isDetached /\ y.code = e[p].code
    BY <2>2 DEF ThreadState
  <2>5. s = [e EXCEPT ![p] = y]
    BY <1>1, <1>2 DEF Typed
  <2> HIDE DEF p
  <2> DEFINE v == Woken(thr, p)
  <2>6. /\ Typed(v) /\ \A x \in Threads : x # p => v[x] = thr[x]
        /\ ~ v[p].joining /\ ~ v[p].waitingFork /\ v[p].scheduled
        /\ v[p].waitingEvent = thr[p].waitingEvent /\ v[p].ended = thr[p].ended
        /\ v[p].parent = thr[p].parent /\ v[p].isDetached = thr[p].isDetached
        /\ v[p].children = thr[p].children /\ v[p].detached = thr[p].detached
        /\ v[p].code = thr[p].code
    BY <1>1, <1>2, WokenFields
  <2>7. ~ thr[p].waitingFork
    BY <1>2 DEF Sound, Single, OneReason
  <2>8. Leaves(v, active')
    BY <1>2, <2>1 DEF Leaves
  <2> HIDE DEF e, y, s, v
  <2>9. /\ s[p] = y /\ \A x \in Threads : x # p => s[x] = e[x]
        /\ s \in [Threads -> ThreadState]
    BY <1>1, <1>2, <2>3, <2>5 DEF Typed
  <2>10. Typed(s) /\ s[t].ended
    BY <1>1, <1>2, <2>4, <2>9 DEF Typed
  <2>11. y.scheduled = v[p].scheduled
    <3>1. v[p] \in ThreadState
      BY <1>2, <2>6 DEF Typed
    <3> QED BY <2>3, <2>4, <2>6, <3>1 DEF ThreadState
  <2>12. FadesTo(v[p], y)
    BY <2>2, <2>4, <2>6, <2>7, <2>11 DEF FadesTo
  <2>13. Fades(v, s)
    BY <1>1, <2>6, <2>9, <2>12 DEF Fades
  <2>14. Typed(thr') /\ Fades(s, thr')
    BY <1>2, <2>1, <2>10, JoinedFades
  <2>15. Fades(v, thr')
    BY <2>6, <2>10, <2>13, <2>14, FadesTransitive
  <2>16. thr'[t].ended
    BY <2>10, <2>14 DEF Fades, FadesTo
  <2> QED BY <2>8, <2>14, <2>15, <2>16
<1> QED BY <1>3, <1>4

(* The end of a detached thread, which may be the last its parent waits    *)
(* for.                                                                    *)
LEMMA EndDetachedEffect ==
    ASSUME NEW c, Sound(thr, running, c), NEW t \in Threads, thr[t].isDetached,
           ~ thr[t].ended, EndDetached(t)
    PROVE  /\ Typed(thr') /\ thr'[t].ended
           /\ \E v : Leaves(v, active') /\ Fades(v, thr')
<1> DEFINE p == thr[t].parent
           e == EndState(t)
           z == [e[p] EXCEPT !.detached = @ \ {t}]
           s1 == [e EXCEPT ![p].detached = @ \ {t}]
           a == [s1[t] EXCEPT !.isDetached = FALSE, !.parent = 0]
           s == [e EXCEPT ![p].detached = @ \ {t},
                          ![t].isDetached = FALSE, ![t].parent = 0]
           wakes == thr[p].waitingFork /\ s[p].detached = {}
           y == [s[p] EXCEPT !.waitingFork = @ /\ ~ wakes, !.scheduled = @ \/ wakes]
           u == [s EXCEPT ![p].waitingFork = @ /\ ~ wakes,
                          ![p].scheduled = @ \/ wakes]
<1>1. Typed(e) /\ Fades(thr, e) /\ e[t].ended /\ Typed(thr)
  BY EndFades DEF Sound
<1>2. p \in Threads /\ p # t
  <2>1. p \in 0..MaxThreads /\ p < t /\ p # 0
    BY DEF Sound, Typed, ThreadState, Kin
  <2> HIDE DEF p
  <2> QED BY <2>1, BoundsAssumption DEF Threads
<1>3. /\ thr' = Reap(u, t)
      /\ active' = IF wakes THEN PushFront(active, p) ELSE active
  BY DEF EndDetached
<1>4. e[p] \in ThreadState /\ e[t] \in ThreadState
  BY <1>1, <1>2 DEF Typed
<1>5. z \in ThreadState
  BY <1>4 DEF ThreadState
<1>6. /\ z.detached = e[p].detached \ {t} /\ z.scheduled = e[p].scheduled
      /\ z.waitingEvent = e[p].waitingEvent /\ z.joining = e[p].joining
      /\ z.waitingFork = e[p].waitingFork /\ z.parent = e[p].parent
      /\ z.children = e[p].children /\ z.ended = e[p].ended
      /\ z.isDetached = e[p].isDetached /\ z.code = e[p].code
  BY <1>4 DEF ThreadState
<1>7. s1 = [e EXCEPT ![p] = z] /\ s1[t] = e[t]
  BY <1>1, <1>2 DEF Typed
<1>8. s = [s1 EXCEPT ![t] = a]
  BY <1>1, <1>2 DEF Typed
<1>9. a \in ThreadState
  <2>1. 0 \in 0..MaxThreads
    BY BoundsAssumption
  <2> QED BY <1>4, <1>7, <2>1 DEF ThreadState
<1>10. /\ a.parent = 0 /\ ~ a.isDetached /\ a.ended = e[t].ended
       /\ a.scheduled = e[t].scheduled /\ a.waitingEvent = e[t].waitingEvent
       /\ a.joining = e[t].joining /\ a.waitingFork = e[t].waitingFork
       /\ a.children = e[t].children /\ a.detached = e[t].detached
       /\ a.code = e[t].code
  BY <1>4, <1>7 DEF ThreadState
<1> HIDE DEF p, e, z, a, s1
<1>11. Typed(s1) /\ Fades(e, s1)
  <2>1. FadesTo(e[p], z)
    BY <1>6 DEF FadesTo
  <2>2. z.ended => z.code = <<>>
    BY <1>1, <1>2, <1>6 DEF Typed
  <2> QED BY <1>1, <1>2, <1>5, <1>7, <2>1, <2>2, OneFades
<1>12. Typed(s) /\ Fades(s1, s) /\ s[t].ended
  <2>1. FadesTo(s1[t], a)
    BY <1>1, <1>7, <1>10 DEF FadesTo
  <2>2. a.ended => a.code = <<>>
    BY <1>1, <1>10 DEF Typed
  <2> HIDE DEF s
  <2>3. Typed(s) /\ Fades(s1, s)
    BY <1>8, <1>9, <1>11, <2>1, <2>2, OneFades
  <2> QED BY <1>1, <1>7, <2>3 DEF Fades, FadesTo
<1> HIDE DEF s
<1>13. Fades(thr, s)
  BY <1>1, <1>11, <1>12, FadesTransitive
<1>14. s[p] \in ThreadState /\ FadesTo(thr[p], s[p])
  BY <1>2, <1>12, <1>13 DEF Typed, Fades
<1>15. wakes \in BOOLEAN
  OBVIOUS
<1> HIDE DEF wakes
<1>16. y \in ThreadState
  BY <1>14, <1>15, ZenonT(30) DEF ThreadState
<1>17. /\ y.waitingFork = (s[p].waitingFork /\ ~ wakes)
       /\ y.scheduled = (s[p].scheduled \/ wakes)
       /\ y.waitingEvent = s[p].waitingEvent /\ y.joining = s[p].joining
       /\ y.parent = s[p].parent /\ y.children = s[p].children
       /\ y.detached = s[p].detached /\ y.ended = s[p].ended
       /\ y.isDetached = s[p].isDetached /\ y.code = s[p].code
  BY <1>14 DEF ThreadState
<1>18. u = [s EXCEPT ![p] = y]
  BY <1>2, <1>12 DEF Typed
<1> HIDE DEF y, u
<1>19. /\ u[p] = y /\ \A x \in Threads : x # p => u[x] = s[x]
       /\ u \in [Threads -> ThreadState]
  BY <1>2, <1>12, <1>16, <1>18 DEF Typed
<1>20. Typed(u) /\ u[t].ended
  BY <1>2, <1>12, <1>17, <1>19 DEF Typed
<1>21. Typed(thr') /\ Fades(u, thr')
  BY <1>3, <1>20, ReapFades
<1>22. thr'[t].ended
  BY <1>20, <1>21 DEF Fades, FadesTo
<1>23. CASE ~ wakes
  <2>1. y.scheduled = s[p].scheduled
    BY <1>14, <1>17, <1>23 DEF ThreadState
  <2>2. FadesTo(thr[p], y)
    BY <1>14, <1>17, <2>1 DEF FadesTo
  <2>3. Fades(thr, u)
    BY <1>13, <1>19, <2>2 DEF Fades
  <2>4. Fades(thr, thr')
    BY <1>1, <1>20, <1>21, <2>3, FadesTransitive
  <2>5. Leaves(thr, active')
    BY <1>3, <1>23 DEF Leaves
  <2> QED BY <1>21, <1>22, <2>4, <2>5
<1>24. CASE wakes
  <2>1. thr[p].waitingFork /\ ~ thr[p].joining
    <3>1. thr[p].waitingFork
      BY <1>24 DEF wakes
    <3> QED BY <1>2, <3>1 DEF Sound, Single, OneReason
  <2> DEFINE v == Woken(thr, p)
  <2>2. /\ Typed(v) /\ \A x \in Threads : x # p => v[x] = thr[x]
        /\ ~ v[p].joining /\ ~ v[p].waitingFork /\ v[p].scheduled
        /\ v[p].waitingEvent = thr[p].waitingEvent /\ v[p].ended = thr[p].ended
        /\ v[p].parent = thr[p].parent /\ v[p].isDetached = thr[p].isDetached
        /\ v[p].children = thr[p].children /\ v[p].detached = thr[p].detached
        /\ v[p].code = thr[p].code
    BY <1>1, <1>2, WokenFields
  <2>3. Leaves(v, active')
    BY <1>2, <1>3, <1>24, <2>1 DEF Leaves
  <2> HIDE DEF v
  <2>4. y.scheduled = v[p].scheduled
    <3>1. v[p] \in ThreadState
      BY <1>2, <2>2 DEF Typed
    <3> QED BY <1>16, <1>17, <1>24, <2>2, <3>1 DEF ThreadState
  <2>5. FadesTo(v[p], y)
    BY <1>14, <1>17, <1>24, <2>1, <2>2, <2>4 DEF FadesTo
  <2>6. Fades(v, u)
    BY <1>13, <1>19, <2>2, <2>5 DEF Fades
  <2>7. Fades(v, thr')
    BY <1>20, <1>21, <2>2, <2>6, FadesTransitive
  <2> QED BY <1>21, <1>22, <2>3, <2>7
<1> QED BY <1>23, <1>24

LEMMA EndStep ==
    ASSUME Parts, NEW t, t = running, running # 0,
           NEW code \in NextCode(t), End(t, code)
    PROVE  Parts'
<1>1. Fetch(t, code) /\ Suspend /\ UNCHANGED <<created, delayed, waiters>>
  BY DEF End
<1>2. /\ t \in Threads /\ NotDisabling /\ Sound(thr, running, created)
      /\ ~ thr[t].ended /\ begun' \in 0..MaxStatements
  BY <1>1, CodeOf
<1>3. Typed(thr)
  BY <1>2 DEF Sound
<1>4. /\ Typed(thr') /\ thr'[t].ended
      /\ \E v : Leaves(v, active') /\ Fades(v, thr')
  <2>1. CASE ParentJoins(t)
    BY <1>2, <2>1, EndJoinedEffect DEF End
  <2>2. CASE ~ ParentJoins(t) /\ thr[t].isDetached
    BY <1>2, <2>2, EndDetachedEffect DEF End
  <2>3. CASE ~ ParentJoins(t) /\ ~ thr[t].isDetached
    <3> DEFINE e == EndState(t)
    <3>1. active' = active /\ thr' \in {e, Reap(e, t)}
      BY <2>3 DEF End
    <3>2. Typed(e) /\ Fades(thr, e) /\ e[t].ended
      BY <1>2, <1>3, EndFades
    <3> HIDE DEF e
    <3>3. Typed(Reap(e, t)) /\ Fades(e, Reap(e, t))
      BY <1>2, <3>2, ReapFades
    <3>4. Fades(thr, Reap(e, t)) /\ Reap(e, t)[t].ended
      <4>1. Fades(thr, Reap(e, t))
        BY <1>3, <3>2, <3>3, FadesTransitive
      <4> QED BY <1>2, <3>2, <3>3, <4>1 DEF Fades, FadesTo
    <3>5. Leaves(thr, active')
      BY <3>1 DEF Leaves
    <3> QED BY <3>1, <3>2, <3>3, <3>4, <3>5
  <2> QED BY <2>1, <2>2, <2>3
<1>5. PICK v : Leaves(v, active') /\ Fades(v, thr')
  BY <1>4
<1> QED BY <1>1, <1>2, <1>4, <1>5, LeaveParts

-----------------------------------------------------------------------------
(***************************************************************************)
(* The theorems.                                                           *)
(***************************************************************************)
LEMMA OpcodeStep ==
    ASSUME Parts, running # 0, NEW code \in NextCode(running), Opcode(running, code)
    PROVE  Parts'
<1> DEFINE t == running
<1>1. CASE Delay(t, code)       BY <1>1, DelayStep
<1>2. CASE Yield(t, code)       BY <1>2, YieldStep
<1>3. CASE Wait(t, code)        BY <1>3, WaitStep
<1>4. CASE Event(t, code)       BY <1>4, EventStep
<1>5. CASE ForkChild(t, code)   BY <1>5, ForkChildStep
<1>6. CASE JoinEnded(t, code)   BY <1>6, JoinEndedStep
<1>7. CASE JoinWaits(t, code)   BY <1>7, JoinWaitsStep
<1>8. CASE JoinDetach(t, code)  BY <1>8, JoinDetachStep
<1>9. CASE WaitFork(t, code)    BY <1>9, WaitForkStep
<1>10. CASE DisableFork(t, code) BY <1>10, DisableForkStep
<1>11. CASE BeginDisable(t, code) BY <1>11, BeginDisableStep
<1>12. CASE End(t, code)        BY <1>12, EndStep
<1> QED BY <1>1, <1>2, <1>3, <1>4, <1>5, <1>6, <1>7, <1>8, <1>9, <1>10, <1>11,
           <1>12 DEF Opcode

LEMMA NextParts ==
    ASSUME Parts, [Next]_vars
    PROVE  Parts'
<1>1. CASE RunEvent
  BY <1>1, RunEventStep
<1>2. CASE RunNext
  BY <1>2, RunNextStep
<1>3. CASE Advance
  BY <1>3, AdvanceStep
<1>4. CASE running # 0 /\ \E code \in NextCode(running) : Opcode(running, code)
  BY <1>4, OpcodeStep
<1>5. CASE \E t \in Threads : Zombie(t)
  BY <1>5, ZombieStep
<1>6. CASE DisableNext
  BY <1>6, DisableNextStep
<1>7. CASE DisableDone
  BY <1>7, DisableDoneStep
<1>8. CASE UNCHANGED vars
  BY <1>8 DEF vars, Parts, Forker, NotDisabling, DisablingType
<1> QED BY <1>1, <1>2, <1>3, <1>4, <1>5, <1>6, <1>7, <1>8 DEF Next

(* The inductive invariant holds in every state: whatever the statements,   *)
(* a thread runs or has one reason not to, threads are younger than those  *)
(* they belong to, and no statement forks more than was counted for it     *)
(* (vthread.cc:594-760, 2282-2360, 2646-2780).                             *)
THEOREM Invariance == Spec => []IInv
<1>1. Init => Parts
  BY InitParts
<1>2. Parts /\ [Next]_vars => Parts'
  BY NextParts
<1>3. Parts => IInv
  BY IInvOfParts
<1> QED BY <1>1, <1>2, <1>3, PTL DEF Spec

(* Every variable has its type in every state, and an ended thread has no   *)
(* code left to run (vthread.cc:273-283, 6118-6120).                       *)
THEOREM TypeCorrect == Spec => []TypeOK
<1>1. IInv => TypeOK
  BY DEF IInv
<1> QED BY <1>1, Invariance, PTL

(* However many threads a program creates, a thread is in at most one       *)
(* event and at most once among the waiting ones, exactly where its flags  *)
(* say: the assertions of vthread_mark_scheduled and vthread_schedule_list  *)
(* never fail, whatever forks, joins, disables and wake-ups come between   *)
(* (vthread.cc:668-675, 732-740).                                          *)
THEOREM NeverQueuedTwice == Spec => []QueuedOnce
<1>1. IInv => QueuedOnce
  BY DEF IInv
<1> QED BY <1>1, Invariance, PTL
-----------------------------------------------------------------------------
(***************************************************************************)
(* Who belongs to whom, when the memory of a thread is given back, and     *)
(* why nobody waits in vain.                                               *)
(***************************************************************************)
(* The threads s, of which c were created and f runs, are families.        *)
Remembered(s, c, f) == \A t \in Threads : Memory(s[t], t <= c, t = f)
Linked(s)           == \A t \in Threads : Up(s, t) /\ Down(s, t)
Family(s, c, f)     == Remembered(s, c, f) /\ Linked(s)

(* A change that reaps the threads in E, ends those in O, which stay to be *)
(* joined, and releases the detached children of those in R.               *)
Gone(x, y) ==
    /\ y.ended /\ y.parent = 0 /\ ~ y.inScope /\ y.children = {} /\ y.code = <<>>
    /\ y.mem = IF x.scheduled \/ x.waitingEvent THEN "live" ELSE "deleted"
    /\ y.scheduled = x.scheduled /\ y.waitingEvent = x.waitingEvent

Over(x, y, E, releases) ==
    /\ y.ended /\ y.children = {} /\ y.code = <<>> /\ (y.inScope => x.inScope)
    /\ y.parent = x.parent /\ y.isDetached = x.isDetached /\ y.mem = x.mem
    /\ y.scheduled = x.scheduled /\ y.waitingEvent = x.waitingEvent
    /\ y.detached = IF releases THEN {} ELSE x.detached \ E

Kept(x, y, E, R) ==
    /\ y.scope = x.scope
    /\ y.mem = x.mem /\ y.ended = x.ended /\ y.inScope = x.inScope /\ y.code = x.code
    /\ y.scheduled = x.scheduled /\ y.waitingEvent = x.waitingEvent
    /\ y.joining = x.joining /\ y.waitingFork = x.waitingFork /\ y.tasks = x.tasks
    /\ IF x.isDetached /\ x.parent \in R THEN y.parent = 0 /\ ~ y.isDetached
       ELSE y.parent = x.parent /\ y.isDetached = x.isDetached
    /\ Attended(x) => y.children = x.children \ E /\ y.detached = x.detached \ E
    /\ x.children = {} => y.children = {}

Buried(s, u, E, O, R) ==
    \A x \in Threads :
        /\ x \in E => Gone(s[x], u[x])
        /\ x \in O => Over(s[x], u[x], E, x \in R)
        /\ x \notin E \cup O => Kept(s[x], u[x], E, R)

(* Whoever is not detached goes with its parent, and whoever stays to be   *)
(* joined has a parent.                                                    *)
Fits(s, c, E, O, R) ==
    /\ E \subseteq Threads /\ O \subseteq Threads /\ E \cap O = {}
    /\ E \subseteq R /\ R \subseteq E \cup O
    /\ \A x \in E : x <= c
    /\ \A x \in Threads : s[x].parent \in E \cup O /\ ~ s[x].isDetached => x \in E
    /\ \A x \in O : s[x].parent # 0 /\ ~ s[x].isDetached

LEMMA BuriedMemory ==
    ASSUME NEW s, NEW u, Typed(s), Typed(u), NEW c, NEW f, NEW g, Family(s, c, f),
           NEW E, NEW O, NEW R, Buried(s, u, E, O, R), Fits(s, c, E, O, R),
           f \in E \cup O \cup {0, g}
    PROVE  Remembered(u, c, g)
<1> SUFFICES ASSUME NEW x \in Threads PROVE Memory(u[x], x <= c, x = g)
  BY DEF Remembered
<1>1. Memory(s[x], x <= c, x = f)
  BY DEF Family, Remembered
<1>2. s[x] \in ThreadState /\ u[x] \in ThreadState
  BY DEF Typed
<1>3. CASE x \in E
  <2>1. Gone(s[x], u[x]) /\ x <= c
    BY <1>3 DEF Buried, Fits
  <2> QED BY <1>1, <1>2, <2>1 DEF Gone, Memory, Attended, ThreadState
<1>4. CASE x \in O
  <2>1. Over(s[x], u[x], E, x \in R) /\ s[x].parent # 0 /\ ~ s[x].isDetached
    BY <1>4 DEF Buried, Fits
  <2> QED BY <1>1, <1>2, <2>1 DEF Over, Memory, Attended, ThreadState
<1>5. CASE x \notin E \cup O
  <2>1. Kept(s[x], u[x], E, R)
    BY <1>5 DEF Buried
  <2>2. x = f => x = g
    BY <1>5 DEF Threads
  <2>3. (x = f) \in BOOLEAN /\ (x = g) \in BOOLEAN
    OBVIOUS
  <2>4. /\ u[x].mem = s[x].mem /\ u[x].ended = s[x].ended /\ u[x].inScope = s[x].inScope
        /\ u[x].scheduled = s[x].scheduled /\ u[x].waitingEvent = s[x].waitingEvent
        /\ u[x].parent # 0 => s[x].parent = u[x].parent
        /\ u[x].isDetached => s[x].isDetached
        /\ u[x].parent = 0 => s[x].parent = 0 \/ ~ s[x].ended
        /\ s[x].children = {} => u[x].children = {}
    <3>1. s[x].isDetached /\ s[x].parent # 0 => ~ s[x].ended
      BY <1>1 DEF Memory
    <3> QED BY <2>1, <3>1 DEF Kept
  <2> HIDE DEF Threads
  <2> QED BY <1>1, <2>2, <2>4 DEF Memory, Attended
<1> QED BY <1>3, <1>4, <1>5

LEMMA BuriedLinked ==
    ASSUME NEW s, NEW u, Typed(s), Typed(u), NEW c, NEW f, Family(s, c, f),
           NEW E, NEW O, NEW R, Buried(s, u, E, O, R), Fits(s, c, E, O, R)
    PROVE  Linked(u)
<1>1. ASSUME NEW x \in Threads
      PROVE  /\ s[x] \in ThreadState /\ Memory(s[x], x <= c, x = f) /\ Up(s, x) /\ Down(s, x)
             /\ s[x].parent # 0 => s[x].parent \in Threads
             /\ s[x].isDetached /\ s[x].parent # 0 => ~ s[x].ended
  <2>1. s[x] \in ThreadState /\ Memory(s[x], x <= c, x = f) /\ Up(s, x) /\ Down(s, x)
    BY DEF Typed, Family, Remembered, Linked
  <2>2. s[x].parent \in 0..MaxThreads
    BY <2>1 DEF ThreadState
  <2> QED BY <2>1, <2>2, BoundsAssumption DEF Threads, Memory
<1>2. ASSUME NEW x \in Threads PROVE Up(u, x)
  <2> DEFINE p == u[x].parent
  <2> SUFFICES ASSUME p # 0
               PROVE  /\ u[p].mem = "live" /\ Attended(u[p])
                      /\ x \in IF u[x].isDetached THEN u[p].detached ELSE u[p].children
    BY DEF Up
  <2>1. x \notin E /\ s[x].parent = p /\ u[x].isDetached = s[x].isDetached
    <3>1. x \notin E
      BY DEF Buried, Gone
    <3>2. CASE x \in O
      BY <3>1, <3>2 DEF Buried, Over
    <3>3. CASE x \notin O
      <4>1. Kept(s[x], u[x], E, R)
        BY <3>1, <3>3 DEF Buried
      <4> QED BY <3>1, <4>1 DEF Kept
    <3> QED BY <3>2, <3>3
  <2>2. p \in Threads
    BY <1>1, <2>1
  <2>3. /\ s[p].mem = "live" /\ Attended(s[p])
        /\ x \in IF s[x].isDetached THEN s[p].detached ELSE s[p].children
    BY <1>1, <2>1 DEF Up
  <2>4. s[x].isDetached => p \notin R
    <3>1. CASE x \in O
      BY <2>1, <3>1 DEF Fits
    <3>2. CASE x \notin O
      <4>1. Kept(s[x], u[x], E, R)
        BY <2>1, <3>2 DEF Buried
      <4> QED BY <2>1, <4>1 DEF Kept
    <3> QED BY <3>1, <3>2
  <2>5. ~ s[x].isDetached => p \notin E \cup O
    BY <2>1 DEF Fits
  <2>6. p \notin E
    BY <2>4, <2>5 DEF Fits
  <2> HIDE DEF p
  <2>7. CASE p \in O
    <3>1. Over(s[p], u[p], E, p \in R) /\ s[p].parent # 0
      BY <2>2, <2>7 DEF Buried, Fits
    <3>2. s[x].isDetached /\ p \notin R
      BY <2>4, <2>5, <2>7
    <3> QED BY <2>1, <2>3, <3>1, <3>2 DEF Over, Attended
  <2>8. CASE p \notin O
    <3>1. Kept(s[p], u[p], E, R)
      BY <2>2, <2>6, <2>8 DEF Buried
    <3>2. Attended(u[p])
      BY <1>1, <2>2, <2>3, <3>1 DEF Kept, Attended
    <3>3. u[p].mem = "live" /\ u[p].children = s[p].children \ E
          /\ u[p].detached = s[p].detached \ E
      BY <2>3, <3>1 DEF Kept
    <3> QED BY <2>1, <2>3, <3>2, <3>3
  <2> QED BY <2>7, <2>8
<1>3. ASSUME NEW x \in Threads PROVE Down(u, x)
  <2> SUFFICES ASSUME Attended(u[x])
               PROVE  /\ \A k \in u[x].children : u[k].parent = x /\ ~ u[k].isDetached
                      /\ \A k \in u[x].detached : u[k].parent = x /\ u[k].isDetached
    BY DEF Down
  <2>1. x \notin E
    BY DEF Buried, Gone, Attended
  <2>2. /\ Attended(s[x])
        /\ u[x].children \subseteq s[x].children \ E
        /\ u[x].detached \subseteq s[x].detached \ E
        /\ u[x].detached # {} => x \notin R
    <3>1. CASE x \in O
      <4>1. Over(s[x], u[x], E, x \in R) /\ s[x].parent # 0
        BY <3>1 DEF Buried, Fits
      <4> QED BY <4>1 DEF Over, Attended
    <3>2. CASE x \notin O
      <4>1. Kept(s[x], u[x], E, R)
        BY <2>1, <3>2 DEF Buried
      <4>2. Attended(s[x])
        BY <4>1 DEF Kept, Attended
      <4> QED BY <2>1, <3>2, <4>1, <4>2 DEF Kept, Fits
    <3> QED BY <3>1, <3>2
  <2>3. /\ \A k \in s[x].children : k \in Threads /\ s[k].parent = x /\ ~ s[k].isDetached
        /\ \A k \in s[x].detached : k \in Threads /\ s[k].parent = x /\ s[k].isDetached
    BY <1>1, <2>2 DEF Down, ThreadState
  <2>4. ASSUME NEW k \in u[x].children PROVE u[k].parent = x /\ ~ u[k].isDetached
    <3>1. k \in Threads /\ s[k].parent = x /\ ~ s[k].isDetached /\ k \notin E
      BY <2>2, <2>3
    <3>2. CASE k \in O
      BY <3>1, <3>2 DEF Buried, Over
    <3>3. CASE k \notin O
      <4>1. Kept(s[k], u[k], E, R)
        BY <3>1, <3>3 DEF Buried
      <4> QED BY <3>1, <4>1 DEF Kept
    <3> QED BY <3>2, <3>3
  <2>5. ASSUME NEW k \in u[x].detached PROVE u[k].parent = x /\ u[k].isDetached
    <3>1. k \in Threads /\ s[k].parent = x /\ s[k].isDetached /\ k \notin E /\ x \notin R
      BY <2>2, <2>3
    <3>2. k \notin O
      BY <3>1 DEF Fits
    <3>3. Kept(s[k], u[k], E, R)
      BY <3>1, <3>2 DEF Buried
    <3> QED BY <3>1, <3>3 DEF Kept
  <2> QED BY <2>4, <2>5
<1> QED BY <1>2, <1>3 DEF Linked

LEMMA Buries ==
    ASSUME NEW s, NEW u, Typed(s), Typed(u), NEW c, NEW f, NEW g, Family(s, c, f),
           NEW E, NEW O, NEW R, Buried(s, u, E, O, R), Fits(s, c, E, O, R),
           f \in E \cup O \cup {0, g}
    PROVE  Family(u, c, g)
BY BuriedMemory, BuriedLinked DEF Family

-----------------------------------------------------------------------------
(* What the operations do, thread by thread.                               *)

SameFlags(x, y) ==
    /\ y.scheduled = x.scheduled /\ y.waitingEvent = x.waitingEvent
    /\ y.scope = x.scope /\ y.tasks = x.tasks /\ y.waitingFork = x.waitingFork

ReleasedFrom(x, y, D) ==
    IF x.isDetached /\ x.parent \in D THEN y.parent = 0 /\ ~ y.isDetached
    ELSE y.parent = x.parent /\ y.isDetached = x.isDetached

LEMMA ReleasedEffect ==
    ASSUME NEW s, Typed(s), NEW D, NEW x \in Threads
    PROVE  LET y == Released(s, D)[x] IN
           /\ SameFlags(s[x], y) /\ ReleasedFrom(s[x], y, D)
           /\ y.mem = s[x].mem /\ y.ended = s[x].ended /\ y.inScope = s[x].inScope
           /\ y.code = s[x].code /\ y.joining = s[x].joining
           /\ y.children = s[x].children /\ y.detached = s[x].detached
<1>1. s[x] \in ThreadState
  BY DEF Typed
<1> DEFINE z == [s[x] EXCEPT !.parent = 0, !.isDetached = FALSE]
<1>2. /\ z.parent = 0 /\ ~ z.isDetached /\ SameFlags(s[x], z)
      /\ z.mem = s[x].mem /\ z.ended = s[x].ended /\ z.inScope = s[x].inScope
      /\ z.code = s[x].code /\ z.joining = s[x].joining
      /\ z.children = s[x].children /\ z.detached = s[x].detached
  BY <1>1 DEF ThreadState, SameFlags
<1>3. Released(s, D)[x] = IF s[x].isDetached /\ s[x].parent \in D THEN z ELSE s[x]
  BY DEF Released
<1> HIDE DEF z
<1> QED BY <1>2, <1>3 DEF ReleasedFrom, SameFlags

(* x is thread i, y the same after t, whose parent is p, was reaped.        *)
ReapedOne(x, y, i, t, p) ==
    /\ SameFlags(x, y) /\ y.ended = x.ended /\ y.joining = x.joining
    /\ i = t => /\ y.parent = 0 /\ ~ y.inScope /\ y.code = <<>>
                /\ y.mem = IF x.scheduled \/ x.waitingEvent THEN "live" ELSE "deleted"
                /\ y.children = x.children
    /\ i # t => /\ y.mem = x.mem /\ y.inScope = x.inScope /\ y.code = x.code
                /\ ReleasedFrom(x, y, {t})
                /\ y.children = IF i = p THEN x.children \ {t} ELSE x.children
                /\ y.detached = IF i = p THEN x.detached \ {t} ELSE x.detached

Reaped(s, u, t) == \A x \in Threads : ReapedOne(s[x], u[x], x, t, s[t].parent)

LEMMA ReapEffect ==
    ASSUME NEW s, Typed(s), NEW t \in Threads, s[t].parent # t
    PROVE  Reaped(s, Reap(s, t), t)
<1> DEFINE p  == s[t].parent
           s1 == Released(s, {t})
           s2 == IF p = 0 THEN s1
                 ELSE [s1 EXCEPT ![p].children = @ \ {t}, ![p].detached = @ \ {t}]
           y  == [s2[t] EXCEPT !.parent = 0, !.inScope = FALSE, !.code = <<>>]
           u  == [s2 EXCEPT ![t] = Freed(y)]
<1>1. Typed(s1)
  BY ReleasedFades
<1>2. p \in 0..MaxThreads /\ p # t /\ (p = 0 \/ p \in Threads)
  BY BoundsAssumption DEF Typed, ThreadState, Threads
<1>3. ASSUME NEW x \in Threads
      PROVE  /\ SameFlags(s[x], s1[x]) /\ ReleasedFrom(s[x], s1[x], {t})
             /\ s1[x].mem = s[x].mem /\ s1[x].ended = s[x].ended
             /\ s1[x].inScope = s[x].inScope
             /\ s1[x].code = s[x].code /\ s1[x].joining = s[x].joining
             /\ s1[x].children = s[x].children /\ s1[x].detached = s[x].detached
  BY ReleasedEffect
<1> HIDE DEF s1, p
<1>4. Typed(s2)
  <2>1. CASE p = 0
    BY <1>1, <2>1
  <2>2. CASE p # 0
    BY <1>1, <1>2, <2>2, ForgetFades
  <2> QED BY <2>1, <2>2
<1>5. ASSUME NEW x \in Threads
      PROVE  /\ SameFlags(s1[x], s2[x])
             /\ s2[x].parent = s1[x].parent /\ s2[x].isDetached = s1[x].isDetached
             /\ s2[x].mem = s1[x].mem /\ s2[x].ended = s1[x].ended
             /\ s2[x].inScope = s1[x].inScope
             /\ s2[x].code = s1[x].code /\ s2[x].joining = s1[x].joining
             /\ s2[x].children = IF x = p THEN s1[x].children \ {t} ELSE s1[x].children
             /\ s2[x].detached = IF x = p THEN s1[x].detached \ {t} ELSE s1[x].detached
  <2>1. s1[x] \in ThreadState /\ s1 \in [Threads -> ThreadState]
    BY <1>1 DEF Typed
  <2>2. CASE x = p
    <3> DEFINE z == [s1[x] EXCEPT !.children = @ \ {t}, !.detached = @ \ {t}]
    <3>1. p \in Threads /\ p # 0
      BY <2>2 DEF Threads
    <3>2. s2[x] = z
      BY <2>1, <2>2, <3>1 DEF ThreadState
    <3>3. /\ SameFlags(s1[x], z)
          /\ z.parent = s1[x].parent /\ z.isDetached = s1[x].isDetached
          /\ z.mem = s1[x].mem /\ z.ended = s1[x].ended
          /\ z.inScope = s1[x].inScope
          /\ z.code = s1[x].code /\ z.joining = s1[x].joining
          /\ z.children = s1[x].children \ {t} /\ z.detached = s1[x].detached \ {t}
      BY <2>1 DEF ThreadState, SameFlags
    <3> HIDE DEF z
    <3> QED BY <2>2, <3>2, <3>3
  <2>3. CASE x # p
    <3>1. s2[x] = s1[x]
      BY <2>1, <2>3, <1>2
    <3> QED BY <2>3, <3>1 DEF SameFlags
  <2> QED BY <2>2, <2>3
<1> HIDE DEF s2
<1>6. s2[t] \in ThreadState /\ s2 \in [Threads -> ThreadState]
  BY <1>4 DEF Typed
<1> DEFINE w == IF y.scheduled \/ y.waitingEvent THEN "live" ELSE "deleted"
<1>7. Freed(y) = [y EXCEPT !.mem = w]
  BY DEF Freed
<1>8. /\ SameFlags(s2[t], Freed(y)) /\ Freed(y).ended = s2[t].ended
      /\ Freed(y).joining = s2[t].joining
      /\ Freed(y).parent = 0 /\ ~ Freed(y).inScope /\ Freed(y).code = <<>>
      /\ Freed(y).mem = (IF s2[t].scheduled \/ s2[t].waitingEvent THEN "live" ELSE "deleted")
      /\ Freed(y).children = s2[t].children
  BY <1>6, <1>7 DEF ThreadState, SameFlags
<1>9. Reap(s, t) = u
  BY DEF Reap, u, y, s2, s1, p
<1> HIDE DEF y
<1>10. u[t] = Freed(y) /\ \A x \in Threads : x # t => u[x] = s2[x]
  BY <1>6
<1> HIDE DEF u
<1>11. ASSUME NEW x \in Threads
       PROVE  /\ SameFlags(s[x], s2[x])
              /\ s2[x].ended = s[x].ended /\ s2[x].joining = s[x].joining
              /\ s2[x].mem = s[x].mem /\ s2[x].inScope = s[x].inScope
              /\ s2[x].code = s[x].code /\ ReleasedFrom(s[x], s2[x], {t})
              /\ s2[x].children = IF x = p THEN s[x].children \ {t} ELSE s[x].children
              /\ s2[x].detached = IF x = p THEN s[x].detached \ {t} ELSE s[x].detached
  <2>1. SameFlags(s[x], s1[x]) /\ SameFlags(s1[x], s2[x])
    BY <1>3, <1>5
  <2>2. /\ s1[x].mem = s[x].mem /\ s1[x].ended = s[x].ended /\ s1[x].inScope = s[x].inScope
        /\ s1[x].code = s[x].code /\ s1[x].joining = s[x].joining
        /\ s1[x].children = s[x].children /\ s1[x].detached = s[x].detached
    BY <1>3
  <2>3. ReleasedFrom(s[x], s1[x], {t})
    BY <1>3
  <2>4. s2[x].parent = s1[x].parent /\ s2[x].isDetached = s1[x].isDetached
    BY <1>5
  <2>5. SameFlags(s[x], s2[x])
    BY <2>1 DEF SameFlags
  <2>6. ReleasedFrom(s[x], s2[x], {t})
    BY <2>3, <2>4 DEF ReleasedFrom
  <2> QED BY <1>5, <2>2, <2>5, <2>6
<1>12. SameFlags(s[t], u[t]) /\ u[t].ended = s[t].ended /\ u[t].joining = s[t].joining
  <2>1. SameFlags(s[t], s2[t]) /\ SameFlags(s2[t], u[t])
    BY <1>8, <1>10, <1>11
  <2>2. SameFlags(s[t], u[t])
    BY <2>1 DEF SameFlags
  <2> QED BY <1>8, <1>10, <1>11, <2>2
<1>13. /\ u[t].parent = 0 /\ ~ u[t].inScope /\ u[t].code = <<>>
       /\ u[t].mem = IF s[t].scheduled \/ s[t].waitingEvent THEN "live" ELSE "deleted"
       /\ u[t].children = s[t].children
  <2>1. SameFlags(s[t], s2[t]) /\ s2[t].children = s[t].children
    BY <1>2, <1>11
  <2>2. s2[t].scheduled = s[t].scheduled /\ s2[t].waitingEvent = s[t].waitingEvent
    BY <2>1 DEF SameFlags
  <2> QED BY <1>8, <1>10, <2>1, <2>2
<1>14. ASSUME NEW x \in Threads PROVE ReapedOne(s[x], u[x], x, t, p)
  <2>1. CASE x = t
    BY <1>12, <1>13, <2>1 DEF ReapedOne
  <2>2. CASE x # t
    <3>1. u[x] = s2[x]
      BY <1>10, <2>2
    <3> HIDE DEF p
    <3>2. ReapedOne(s[x], s2[x], x, t, p)
      BY <1>11, <2>2 DEF ReapedOne
    <3> QED BY <3>1, <3>2
  <2> QED BY <2>1, <2>2
<1> QED BY <1>9, <1>14 DEF Reaped, p

(* x is thread i, y the same after t was turned off, with those in D below. *)
TakenOne(x, y, i, t, D) ==
    /\ SameFlags(x, y)
    /\ i \in D \cup {t} => y.ended /\ ~ y.inScope /\ y.code = <<>> /\ y.children = {}
    /\ i \in D => /\ y.parent = 0
                  /\ y.mem = IF x.scheduled \/ x.waitingEvent THEN "live" ELSE "deleted"
    /\ i \notin D => y.mem = x.mem /\ y.detached = x.detached /\ ReleasedFrom(x, y, D)
    /\ i \notin D \cup {t} => /\ y.ended = x.ended /\ y.inScope = x.inScope /\ y.code = x.code
                              /\ y.joining = x.joining /\ y.children = x.children

LEMMA TurnedOffEffect ==
    ASSUME NEW s, Typed(s), NEW t \in Threads,
           \A x \in Below(s, t) : x \in Threads /\ x # t
    PROVE  \A x \in Threads : TakenOne(s[x], TurnedOff(s, t)[x], x, t, Below(s, t))
<1> DEFINE D == Below(s, t)
           Off(y) == [s[y] EXCEPT !.inScope = FALSE, !.code = <<>>, !.ended = TRUE,
                                  !.children = {},
                                  !.joining = @ /\ s[y].children = {}]
           r == [y \in Threads |-> IF y \in D THEN Freed([Off(y) EXCEPT !.parent = 0])
                                   ELSE IF y = t THEN Off(y) ELSE s[y]]
<1>1. TurnedOff(s, t) = Released(r, D)
  BY DEF TurnedOff
<1>2. 0 \notin D
  BY DEF Threads
<1> SUFFICES ASSUME NEW x \in Threads
             PROVE  TakenOne(s[x], Released(r, D)[x], x, t, D)
  BY <1>1
<1>3. s[x] \in ThreadState
  BY DEF Typed
<1> HIDE DEF D
<1>4. /\ SameFlags(s[x], Off(x)) /\ Off(x).ended /\ ~ Off(x).inScope /\ Off(x).code = <<>>
      /\ Off(x).children = {} /\ Off(x).mem = s[x].mem /\ Off(x).detached = s[x].detached
      /\ Off(x).parent = s[x].parent /\ Off(x).isDetached = s[x].isDetached
  BY <1>3 DEF ThreadState, SameFlags
<1>5. Off(x) \in ThreadState
  BY <1>3, EmptyCode DEF ThreadState
<1> HIDE DEF Off
<1> DEFINE g == [Off(x) EXCEPT !.parent = 0]
           w == IF g.scheduled \/ g.waitingEvent THEN "live" ELSE "deleted"
<1>6. /\ SameFlags(Off(x), Freed(g)) /\ Freed(g).ended = Off(x).ended
      /\ Freed(g).inScope = Off(x).inScope /\ Freed(g).code = Off(x).code
      /\ Freed(g).children = Off(x).children /\ Freed(g).parent = 0
      /\ Freed(g).mem = IF Off(x).scheduled \/ Off(x).waitingEvent THEN "live" ELSE "deleted"
  <2>1. Freed(g) = [g EXCEPT !.mem = w]
    BY DEF Freed
  <2> QED BY <1>5, <2>1 DEF ThreadState, SameFlags
<1>7. Released(r, D)[x] = IF r[x].isDetached /\ r[x].parent \in D
                          THEN [r[x] EXCEPT !.parent = 0, !.isDetached = FALSE]
                          ELSE r[x]
  BY DEF Released
<1>8. r[x] = IF x \in D THEN Freed(g) ELSE IF x = t THEN Off(x) ELSE s[x]
  OBVIOUS
<1> HIDE DEF r, g, w
<1>9. CASE x \in D
  <2>1. Released(r, D)[x] = Freed(g) /\ x # t
    BY <1>2, <1>6, <1>7, <1>8, <1>9 DEF D
  <2>2. SameFlags(s[x], Freed(g))
    BY <1>4, <1>6 DEF SameFlags
  <2>3. Freed(g).mem = IF s[x].scheduled \/ s[x].waitingEvent THEN "live" ELSE "deleted"
    BY <1>4, <1>6 DEF SameFlags
  <2> QED BY <1>4, <1>6, <1>9, <2>1, <2>2, <2>3 DEF TakenOne
<1>10. ASSUME x \notin D, NEW y \in ThreadState, r[x] = y
       PROVE  LET z == Released(r, D)[x] IN
              /\ SameFlags(y, z) /\ ReleasedFrom(y, z, D)
              /\ z.mem = y.mem /\ z.ended = y.ended /\ z.inScope = y.inScope
              /\ z.code = y.code /\ z.joining = y.joining
              /\ z.children = y.children /\ z.detached = y.detached
  <2> DEFINE z == [y EXCEPT !.parent = 0, !.isDetached = FALSE]
  <2>1. /\ z.parent = 0 /\ ~ z.isDetached /\ SameFlags(y, z)
        /\ z.mem = y.mem /\ z.ended = y.ended /\ z.inScope = y.inScope
        /\ z.code = y.code /\ z.joining = y.joining
        /\ z.children = y.children /\ z.detached = y.detached
    BY DEF ThreadState, SameFlags
  <2>2. Released(r, D)[x] = IF y.isDetached /\ y.parent \in D THEN z ELSE y
    BY <1>7, <1>10
  <2> HIDE DEF z
  <2> QED BY <2>1, <2>2 DEF ReleasedFrom, SameFlags
<1>11. CASE x \notin D /\ x = t
  <2>1. r[x] = Off(x)
    BY <1>8, <1>11
  <2> DEFINE z == Released(r, D)[x]
  <2>2. /\ SameFlags(Off(x), z) /\ ReleasedFrom(Off(x), z, D)
        /\ z.mem = Off(x).mem /\ z.ended = Off(x).ended /\ z.inScope = Off(x).inScope
        /\ z.code = Off(x).code /\ z.children = Off(x).children
        /\ z.detached = Off(x).detached
    BY <1>5, <1>10, <1>11, <2>1
  <2> HIDE DEF z
  <2>3. SameFlags(s[x], z)
    BY <1>4, <2>2 DEF SameFlags
  <2>4. ReleasedFrom(s[x], z, D)
    BY <1>4, <2>2 DEF ReleasedFrom
  <2> QED BY <1>4, <1>11, <2>2, <2>3, <2>4 DEF TakenOne, z
<1>12. CASE x \notin D /\ x # t
  <2>1. r[x] = s[x]
    BY <1>8, <1>12
  <2> DEFINE z == Released(r, D)[x]
  <2>2. /\ SameFlags(s[x], z) /\ ReleasedFrom(s[x], z, D)
        /\ z.mem = s[x].mem /\ z.ended = s[x].ended /\ z.inScope = s[x].inScope
        /\ z.code = s[x].code /\ z.joining = s[x].joining
        /\ z.children = s[x].children /\ z.detached = s[x].detached
    BY <1>3, <1>10, <1>12, <2>1
  <2> HIDE DEF z
  <2> QED BY <1>12, <2>2 DEF TakenOne, z
<1> QED BY <1>9, <1>11, <1>12

-----------------------------------------------------------------------------
(* The threads below t are the children of t and of those below t.         *)
LEMMA BelowTree ==
    ASSUME NEW s, Typed(s), Kin(s), NEW t \in Threads
    PROVE  /\ \A x \in Below(s, t) : x \in Threads /\ x > t
           /\ \A y \in Below(s, t) \cup {t} : s[y].children \subseteq Below(s, t)
           /\ \A x \in Below(s, t) : \E y \in Below(s, t) \cup {t} : x \in s[y].children
<1>0. MaxThreads \in Nat /\ MaxThreads >= 1 /\ t \in 1..MaxThreads /\ Threads = 1..MaxThreads
  BY BoundsAssumption DEF Threads
<1>1. PICK R \in [0..MaxThreads -> SUBSET Threads] :
        /\ R[0] = {t}
        /\ \A n \in 1..MaxThreads :
              R[n] = R[n - 1] \cup UNION {s[x].children : x \in R[n - 1]}
        /\ Below(s, t) = R[MaxThreads] \ {t}
  BY BelowWalk
<1>2. \A x \in Below(s, t) : x \in Threads /\ x > t
  BY BelowYounger
<1>3. \A x \in Threads : \A y \in s[x].children : y \in Threads /\ y > x
  BY DEF Kin, Typed, ThreadState
<1> DEFINE Far(n, y) == y >= t + n
           Old(n, y) == n >= 1 /\ y \in R[n - 1]
           Above(n, x) == \E y \in R[n] : x \in s[y].children
           S == {n \in Nat : n <= MaxThreads =>
                   \A y \in R[n] : /\ Far(n, y) \/ Old(n, y)
                                   /\ y = t \/ Above(n, y)}
<1>4. 0 \in S
  BY <1>0, <1>1
<1>5. ASSUME NEW n \in Nat, n \in S PROVE n + 1 \in S
  <2> SUFFICES ASSUME n + 1 <= MaxThreads, NEW y \in R[n + 1]
               PROVE  /\ Far(n + 1, y) \/ Old(n + 1, y)
                      /\ y = t \/ Above(n + 1, y)
    OBVIOUS
  <2>1. n + 1 \in 1..MaxThreads /\ n \in 0..MaxThreads /\ (n + 1) - 1 = n
    BY <1>0
  <2>2. R[n + 1] = R[n] \cup UNION {s[x].children : x \in R[n]}
    BY <1>1, <2>1
  <2>3. \A x \in R[n] : /\ x \in Threads /\ (Far(n, x) \/ Old(n, x))
                        /\ x = t \/ Above(n, x)
    BY <1>5, <2>1
  <2>4. CASE y \in R[n]
    <3>1. Old(n + 1, y)
      BY <2>1, <2>4
    <3>2. y = t \/ Above(n, y)
      BY <2>3, <2>4
    <3>3. Above(n, y) => Above(n + 1, y)
      BY <2>2
    <3> QED BY <3>1, <3>2, <3>3
  <2>5. CASE y \notin R[n]
    <3>1. PICK x \in R[n] : y \in s[x].children
      BY <2>2, <2>5
    <3>2. x \in Threads /\ y \in Threads /\ y > x
      BY <1>3, <2>3, <3>1
    <3>3. ~ Old(n, x)
      <4> SUFFICES ASSUME n >= 1, x \in R[n - 1] PROVE FALSE
        OBVIOUS
      <4>1. n \in 1..MaxThreads
        BY <2>1
      <4>2. R[n] = R[n - 1] \cup UNION {s[z].children : z \in R[n - 1]}
        BY <1>1, <4>1
      <4> QED BY <2>5, <3>1, <4>2
    <3>4. x >= t + n
      BY <2>3, <3>3
    <3>5. Far(n + 1, y)
      BY <1>0, <2>1, <3>2, <3>4
    <3>6. Above(n + 1, y)
      BY <2>2, <3>1
    <3> QED BY <3>5, <3>6
  <2> QED BY <2>4, <2>5
<1> HIDE DEF S
<1>6. Nat \subseteq S
  BY <1>4, <1>5, NatIsInductive
<1>7. \A y \in R[MaxThreads] : /\ y \in Threads /\ (Far(MaxThreads, y) \/ Old(MaxThreads, y))
                               /\ y = t \/ Above(MaxThreads, y)
  BY <1>0, <1>6 DEF S
<1>8. ASSUME NEW y \in R[MaxThreads] PROVE s[y].children \subseteq R[MaxThreads]
  <2>1. y \in Threads /\ (Far(MaxThreads, y) \/ Old(MaxThreads, y))
    BY <1>7
  <2>2. y \in R[MaxThreads - 1]
    BY <1>0, <2>1
  <2>3. MaxThreads \in 1..MaxThreads
    BY <1>0
  <2> QED BY <1>1, <2>2, <2>3
<1>9. t \in R[MaxThreads]
  <2> DEFINE T == {n \in Nat : n <= MaxThreads => t \in R[n]}
  <2>1. 0 \in T
    BY <1>1
  <2>2. ASSUME NEW n \in Nat, n \in T PROVE n + 1 \in T
    <3> SUFFICES ASSUME n + 1 <= MaxThreads PROVE t \in R[n + 1]
      OBVIOUS
    <3>1. n + 1 \in 1..MaxThreads /\ (n + 1) - 1 = n /\ t \in R[n]
      BY <1>0, <2>2
    <3> QED BY <1>1, <3>1
  <2> HIDE DEF T
  <2>3. Nat \subseteq T
    BY <2>1, <2>2, NatIsInductive
  <2> QED BY <1>0, <2>3 DEF T
<1>10. Below(s, t) \cup {t} = R[MaxThreads]
  BY <1>1, <1>9
<1>11. ASSUME NEW y \in Below(s, t) \cup {t} PROVE s[y].children \subseteq Below(s, t)
  <2>1. y \in Threads /\ y >= t
    BY <1>0, <1>2
  <2>2. t \notin s[y].children
    BY <1>0, <1>3, <2>1
  <2> QED BY <1>1, <1>8, <1>10, <2>2
<1>12. ASSUME NEW x \in Below(s, t)
       PROVE  \E y \in Below(s, t) \cup {t} : x \in s[y].children
  <2>1. x \in R[MaxThreads] /\ x # t
    BY <1>1
  <2>2. Above(MaxThreads, x)
    BY <1>7, <2>1
  <2> QED BY <1>10, <2>2
<1> QED BY <1>2, <1>11, <1>12

-----------------------------------------------------------------------------
(* Reaping, and turning off.                                               *)

(* Those in D, and t, are a tree of threads that are not detached.         *)
Subtree(s, c, t, D) ==
    /\ \A x \in D : /\ x \in Threads /\ x > t /\ x <= c
                    /\ s[x].parent \in D \cup {t} /\ ~ s[x].isDetached
    /\ \A x \in Threads : s[x].parent \in D \cup {t} /\ ~ s[x].isDetached => x \in D
    /\ \A x \in Threads : Attended(s[x]) => s[x].detached \cap D = {}
    /\ \A x \in Threads \ (D \cup {t}) : Attended(s[x]) => s[x].children \cap D = {}
    /\ \A x \in Threads \ {s[t].parent} : Attended(s[x])
          => t \notin s[x].children /\ t \notin s[x].detached
    /\ s[t].parent \notin D \cup {t}

LEMMA BelowSubtree ==
    ASSUME NEW s, Typed(s), Kin(s), NEW c, NEW f, Family(s, c, f), NEW t \in Threads
    PROVE  Subtree(s, c, t, Below(s, t))
<1> DEFINE D == Below(s, t)
<1>1. /\ \A x \in D : x \in Threads /\ x > t
      /\ \A y \in D \cup {t} : s[y].children \subseteq D
      /\ \A x \in D : \E y \in D \cup {t} : x \in s[y].children
  BY BelowTree
<1> HIDE DEF D
<1>2. \A x \in Threads : Memory(s[x], x <= c, x = f) /\ Up(s, x) /\ Down(s, x)
  BY DEF Family, Remembered, Linked
<1>3. ASSUME NEW x \in D
      PROVE  x <= c /\ s[x].parent \in D \cup {t} /\ ~ s[x].isDetached
  <2>1. PICK y \in D \cup {t} : x \in s[y].children
    BY <1>1
  <2>2. y \in Threads /\ x \in Threads
    BY <1>1
  <2>3. Attended(s[y])
    BY <1>2, <2>1, <2>2 DEF Memory, Attended
  <2>4. s[x].parent = y /\ ~ s[x].isDetached
    BY <1>2, <2>1, <2>2, <2>3 DEF Down
  <2>5. s[x].mem = "live"
    BY <1>2, <2>2, <2>4 DEF Memory, Threads
  <2>6. x <= c
    <3>1. Memory(s[x], x <= c, x = f)
      BY <1>2, <2>2
    <3> QED BY <2>5, <3>1 DEF Memory
  <2> QED BY <2>1, <2>4, <2>6
<1>4. ASSUME NEW x \in Threads, s[x].parent \in D \cup {t}, ~ s[x].isDetached
      PROVE  x \in D
  <2>1. s[x].parent # 0
    BY <1>1, <1>4 DEF Threads
  <2>2. x \in s[s[x].parent].children
    BY <1>2, <1>4, <2>1 DEF Up
  <2> QED BY <1>1, <1>4, <2>2
<1>5. ASSUME NEW x \in Threads, Attended(s[x])
      PROVE  /\ s[x].detached \cap D = {}
             /\ x \notin D \cup {t} => s[x].children \cap D = {}
             /\ x # s[t].parent => t \notin s[x].children /\ t \notin s[x].detached
  BY <1>2, <1>3, <1>5 DEF Down
<1>6. s[t].parent \notin D \cup {t}
  <2>1. s[t].parent < t /\ s[t].parent \in Int
    BY DEF Kin, Typed, ThreadState
  <2> QED BY <1>1, <2>1 DEF Threads
<1> QED BY <1>1, <1>3, <1>4, <1>5, <1>6 DEF Subtree, D

LEMMA ReapBuries ==
    ASSUME NEW s, Typed(s), NEW c, NEW f, Family(s, c, f), NEW t \in Threads,
           s[t].ended, t <= c, s[t].parent # t
    PROVE  /\ Buried(s, Reap(s, t), {t}, {}, {t})
           /\ Fits(s, c, {t}, {}, {t})
<1> DEFINE u == Reap(s, t)
           p == s[t].parent
<1>1. Reaped(s, u, t)
  BY ReapEffect
<1> HIDE DEF u
<1>2. \A x \in Threads : Memory(s[x], x <= c, x = f) /\ Up(s, x) /\ Down(s, x)
  BY DEF Family, Remembered, Linked
<1>3. s[t].children = {}
  BY <1>2 DEF Memory
<1>4. Gone(s[t], u[t])
  <2>1. ReapedOne(s[t], u[t], t, t, p)
    BY <1>1 DEF Reaped
  <2> QED BY <1>3, <2>1 DEF ReapedOne, Gone, SameFlags
<1>5. ASSUME NEW x \in Threads, x # t PROVE Kept(s[x], u[x], {t}, {t})
  <2>1. ReapedOne(s[x], u[x], x, t, p)
    BY <1>1 DEF Reaped
  <2>2. Attended(s[x]) /\ x # p => t \notin s[x].children /\ t \notin s[x].detached
    BY <1>2 DEF Down
  <2> HIDE DEF p
  <2>3. Attended(s[x]) => u[x].children = s[x].children \ {t}
                          /\ u[x].detached = s[x].detached \ {t}
    BY <1>5, <2>1, <2>2 DEF ReapedOne
  <2>4. s[x].children = {} => u[x].children = {}
    BY <1>5, <2>1 DEF ReapedOne
  <2> QED BY <1>5, <2>1, <2>3, <2>4 DEF ReapedOne, Kept, SameFlags, ReleasedFrom
<1>6. Buried(s, u, {t}, {}, {t})
  BY <1>4, <1>5 DEF Buried
<1>7. \A x \in Threads : s[x].parent = t /\ ~ s[x].isDetached => x = t
  BY <1>2, <1>3 DEF Up, Threads
<1> QED BY <1>6, <1>7 DEF Fits, u

LEMMA TurnedOffBuries ==
    ASSUME NEW s, Typed(s), Kin(s), NEW c, NEW f, Family(s, c, f), NEW t \in Threads,
           s[t].parent # 0, ~ s[t].isDetached
    PROVE  /\ Buried(s, TurnedOff(s, t), Below(s, t), {t}, Below(s, t))
           /\ Fits(s, c, Below(s, t), {t}, Below(s, t))
<1> DEFINE D == Below(s, t)
           u == TurnedOff(s, t)
<1>1. Subtree(s, c, t, D)
  BY BelowSubtree
<1>2. ASSUME NEW x \in Threads PROVE TakenOne(s[x], u[x], x, t, D)
  <2>1. \A y \in D : y \in Threads /\ y # t
    BY <1>1 DEF Subtree, Threads
  <2> QED BY <2>1, TurnedOffEffect
<1> HIDE DEF D, u
<1>3. t \notin D /\ D \subseteq Threads
  BY <1>1 DEF Subtree, Threads
<1>4. ASSUME NEW x \in D PROVE Gone(s[x], u[x])
  <2>1. TakenOne(s[x], u[x], x, t, D)
    BY <1>2, <1>3
  <2> QED BY <2>1 DEF TakenOne, Gone, SameFlags
<1>5. Over(s[t], u[t], D, t \in D)
  <2>1. TakenOne(s[t], u[t], t, t, D)
    BY <1>2
  <2>2. s[t].detached \cap D = {}
    BY <1>1 DEF Subtree, Attended
  <2>3. s[t].detached \ D = s[t].detached
    BY <2>2
  <2> QED BY <1>3, <2>1, <2>3 DEF TakenOne, Over, SameFlags, ReleasedFrom
<1>6. ASSUME NEW x \in Threads, x \notin D \cup {t} PROVE Kept(s[x], u[x], D, D)
  <2>1. TakenOne(s[x], u[x], x, t, D)
    BY <1>2
  <2>2. Attended(s[x]) => s[x].children \cap D = {} /\ s[x].detached \cap D = {}
    BY <1>1, <1>6 DEF Subtree
  <2>3. Attended(s[x]) => s[x].children \ D = s[x].children
                          /\ s[x].detached \ D = s[x].detached
    BY <2>2
  <2> QED BY <1>6, <2>1, <2>3 DEF TakenOne, Kept, SameFlags, ReleasedFrom
<1>7. Buried(s, u, D, {t}, D)
  BY <1>3, <1>4, <1>5, <1>6 DEF Buried
<1>8. Fits(s, c, D, {t}, D)
  BY <1>1, <1>3 DEF Fits, Subtree
<1> QED BY <1>7, <1>8 DEF D, u

(* x is thread i, y the same when the threads in D were turned off and taken *)
(* from their parents, and t, which has ended, is still to be reaped; the   *)
(* detached children of those in F are released.                           *)
Leaving(x, y, i, t, D, F) ==
    /\ y.scheduled = x.scheduled /\ y.waitingEvent = x.waitingEvent
    /\ i \in D \cup {t} => y.ended /\ y.children = {}
    /\ i = t => y.parent = x.parent
    /\ i \in D => /\ ~ y.inScope /\ y.code = <<>> /\ y.parent = 0
                  /\ y.mem = IF x.scheduled \/ x.waitingEvent THEN "live" ELSE "deleted"
    /\ i \notin D \cup {t} =>
          /\ SameFlags(x, y) /\ y.mem = x.mem /\ y.ended = x.ended
          /\ y.inScope = x.inScope /\ y.code = x.code /\ y.joining = x.joining
          /\ y.children = x.children /\ y.detached = x.detached
          /\ ReleasedFrom(x, y, F)

LEMMA TakenLeaves ==
    ASSUME NEW x, NEW y, NEW i, NEW t, NEW D, TakenOne(x, y, i, t, D),
           t \notin D, i = t => x.parent \notin D
    PROVE  Leaving(x, y, i, t, D, D)
<1>1. CASE i \in D
  BY <1>1 DEF TakenOne, Leaving, SameFlags
<1>2. CASE i = t
  BY <1>2 DEF TakenOne, Leaving, SameFlags, ReleasedFrom
<1>3. CASE i \notin D \cup {t}
  BY <1>3 DEF TakenOne, Leaving, SameFlags
<1> QED BY <1>1, <1>2, <1>3

LEMMA LeavingBuries ==
    ASSUME NEW v, NEW w, Typed(w), NEW c, NEW t \in Threads, t <= c,
           NEW D, NEW F, D \subseteq F, F \subseteq D \cup {t},
           Subtree(v, c, t, D), \A x \in Threads : Leaving(v[x], w[x], x, t, D, F)
    PROVE  /\ Buried(v, Reap(w, t), D \cup {t}, {}, D \cup {t})
           /\ Fits(v, c, D \cup {t}, {}, D \cup {t})
<1> DEFINE u == Reap(w, t)
           p == v[t].parent
           E == D \cup {t}
<1>1. t \notin D /\ D \subseteq Threads /\ p \notin E
  BY DEF Subtree, Threads
<1>2. w[t].parent = p
  <2>1. Leaving(v[t], w[t], t, t, D, F)
    OBVIOUS
  <2> QED BY <2>1 DEF Leaving
<1>3. Reaped(w, u, t)
  BY <1>1, <1>2, ReapEffect
<1>4. ASSUME NEW x \in Threads
      PROVE  Leaving(v[x], w[x], x, t, D, F) /\ ReapedOne(w[x], u[x], x, t, p)
  BY <1>2, <1>3 DEF Reaped
<1> HIDE DEF u
<1>5. ASSUME NEW x \in E PROVE Gone(v[x], u[x])
  <2>1. x \in Threads
    BY <1>1
  <2>2. Leaving(v[x], w[x], x, t, D, F) /\ ReapedOne(w[x], u[x], x, t, p)
    BY <1>4, <2>1
  <2> HIDE DEF p
  <2>3. /\ w[x].ended /\ w[x].children = {}
        /\ w[x].scheduled = v[x].scheduled /\ w[x].waitingEvent = v[x].waitingEvent
    BY <2>2 DEF Leaving
  <2>4. CASE x = t
    BY <2>2, <2>3, <2>4 DEF ReapedOne, Gone, SameFlags
  <2>5. CASE x # t
    <3>1. /\ w[x].parent = 0 /\ ~ w[x].inScope /\ w[x].code = <<>>
          /\ w[x].mem = IF v[x].scheduled \/ v[x].waitingEvent THEN "live" ELSE "deleted"
      BY <2>2, <2>5 DEF Leaving
    <3>2. u[x].parent = 0
      BY <2>2, <2>5, <3>1 DEF ReapedOne, ReleasedFrom
    <3>3. u[x].children = {}
      BY <2>2, <2>3, <2>5 DEF ReapedOne
    <3> QED BY <2>2, <2>3, <2>5, <3>1, <3>2, <3>3 DEF ReapedOne, Gone, SameFlags
  <2> QED BY <2>4, <2>5
<1>6. ASSUME NEW x \in Threads, x \notin E PROVE Kept(v[x], u[x], E, E)
  <2>1. Leaving(v[x], w[x], x, t, D, F) /\ ReapedOne(w[x], u[x], x, t, p)
    BY <1>4
  <2>2. Attended(v[x]) => /\ v[x].children \cap D = {} /\ v[x].detached \cap D = {}
                          /\ x # p => t \notin v[x].children /\ t \notin v[x].detached
    BY <1>6 DEF Subtree
  <2> HIDE DEF p
  <2>3. x \notin D /\ x # t
    BY <1>6
  <2>4. /\ SameFlags(v[x], w[x]) /\ w[x].mem = v[x].mem /\ w[x].ended = v[x].ended
        /\ w[x].inScope = v[x].inScope /\ w[x].code = v[x].code
        /\ w[x].joining = v[x].joining /\ w[x].children = v[x].children
        /\ w[x].detached = v[x].detached /\ ReleasedFrom(v[x], w[x], F)
    BY <2>1, <2>3 DEF Leaving
  <2>5. /\ SameFlags(w[x], u[x]) /\ u[x].mem = w[x].mem /\ u[x].ended = w[x].ended
        /\ u[x].inScope = w[x].inScope /\ u[x].code = w[x].code
        /\ u[x].joining = w[x].joining /\ ReleasedFrom(w[x], u[x], {t})
        /\ u[x].children = IF x = p THEN w[x].children \ {t} ELSE w[x].children
        /\ u[x].detached = IF x = p THEN w[x].detached \ {t} ELSE w[x].detached
    BY <2>1, <2>3 DEF ReapedOne
  <2>6. Attended(v[x]) => u[x].children = v[x].children \ E /\ u[x].detached = v[x].detached \ E
    BY <2>2, <2>4, <2>5
  <2>7. v[x].children = {} => u[x].children = {}
    BY <2>4, <2>5
  <2>8. IF v[x].isDetached /\ v[x].parent \in E THEN u[x].parent = 0 /\ ~ u[x].isDetached
        ELSE u[x].parent = v[x].parent /\ u[x].isDetached = v[x].isDetached
    BY <2>4, <2>5 DEF ReleasedFrom
  <2>9. SameFlags(v[x], u[x])
    BY <2>4, <2>5 DEF SameFlags
  <2> HIDE DEF E
  <2> QED BY <2>4, <2>5, <2>6, <2>7, <2>8, <2>9 DEF Kept, SameFlags
<1>7. Buried(v, u, E, {}, E)
  BY <1>5, <1>6 DEF Buried
<1>8. Fits(v, c, E, {}, E)
  BY <1>1 DEF Fits, Subtree
<1> QED BY <1>7, <1>8 DEF u

-----------------------------------------------------------------------------
(* What code has still to collect.                                         *)

Places(c, n) == {i \in DOMAIN c : c[i].op = n}

LEMMA CountTail ==
    ASSUME NEW c \in Seq(Opcodes), c # <<>>, NEW n
    PROVE  /\ IsFiniteSet(Places(c, n)) /\ IsFiniteSet(Places(Tail(c), n))
           /\ Cardinality(Places(Tail(c), n)) \in Nat
           /\ Cardinality(Places(c, n))
                = Cardinality(Places(Tail(c), n)) + (IF Head(c).op = n THEN 1 ELSE 0)
<1> DEFINE m == Len(c)
           T == Places(c, n)
           S == Places(Tail(c), n)
           f == [i \in S |-> i + 1]
<1>1. /\ m \in Nat /\ m > 0 /\ DOMAIN c = 1..m /\ Head(c) = c[1]
      /\ DOMAIN Tail(c) = 1..(m - 1)
      /\ \A i \in 1..(m - 1) : Tail(c)[i] = c[i + 1]
  OBVIOUS
<1> HIDE DEF m
<1>2. /\ \A i : i \in T <=> i \in 1..m /\ c[i].op = n
      /\ \A i : i \in S <=> i \in 1..(m - 1) /\ c[i + 1].op = n
  BY <1>1 DEF Places
<1> HIDE DEF T, S
<1>3. IsFiniteSet(T) /\ IsFiniteSet(S)
  <2>1. IsFiniteSet(1..m) /\ IsFiniteSet(1..(m - 1))
    BY <1>1, FS_Interval
  <2>2. T \in SUBSET (1..m) /\ S \in SUBSET (1..(m - 1))
    BY <1>2
  <2> QED BY <2>1, <2>2, FS_Subset
<1>4. f \in Bijection(S, T \ {1})
  <2>1. f \in [S -> T \ {1}]
    BY <1>1, <1>2
  <2>2. \A a, b \in S : f[a] = f[b] => a = b
    BY <1>2
  <2>3. ASSUME NEW b \in T \ {1} PROVE \E a \in S : f[a] = b
    <3>1. b - 1 \in S /\ f[b - 1] = b
      BY <1>1, <1>2
    <3> QED BY <3>1
  <2> HIDE DEF f
  <2> QED BY <2>1, <2>2, <2>3 DEF Bijection, Injection, Surjection, IsInjective
<1>5. Cardinality(T \ {1}) = Cardinality(S)
  <2>1. ExistsBijection(S, T \ {1})
    BY <1>4 DEF ExistsBijection
  <2> QED BY <1>3, <2>1, FS_Bijection
<1>6. Cardinality(T \ {1}) = IF 1 \in T THEN Cardinality(T) - 1 ELSE Cardinality(T)
  BY <1>3, FS_RemoveElement
<1>7. Cardinality(T) \in Nat /\ Cardinality(S) \in Nat
  BY <1>3, FS_CardinalityType
<1>8. 1 \in T <=> Head(c).op = n
  BY <1>1, <1>2
<1> QED BY <1>3, <1>5, <1>6, <1>7, <1>8 DEF T, S

(* A detach is the last opcode.                                            *)
Closed(c) == \A i \in DOMAIN c : c[i].op = "detach" => i = Len(c)
Detaches(c) == \E i \in DOMAIN c : c[i].op = "detach"

LEMMA OpcodeCounts ==
    ASSUME NEW x \in Opcodes
    PROVE  /\ x.op = "detach" => x.count \in {1, 2}
           /\ x.op = "fork" => x = Fork(x.scope)
BY DEF Opcodes, Op, Fork, Detach, Disable, Simple, Scopes

LEMMA EmptyCollected ==
    Forks(<<>>) = 0 /\ Collected(<<>>) = 0 /\ ~ Detaches(<<>>)
<1>1. Places(<<>>, "fork") = {} /\ Places(<<>>, "join") = {}
  BY DEF Places
<1>2. Forks(<<>>) = Cardinality(Places(<<>>, "fork"))
  BY DEF Forks, Places
<1>3. Collected(<<>>) = Cardinality(Places(<<>>, "join"))
                          + (IF Detaches(<<>>) THEN <<>>[Len(<<>>)].count ELSE 0)
  BY DEF Collected, Places, Detaches
<1>4. ~ Detaches(<<>>)
  BY DEF Detaches
<1>5. Cardinality(Places(<<>>, "fork")) = 0 /\ Cardinality(Places(<<>>, "join")) = 0
  BY <1>1, FS_EmptySet
<1>6. Collected(<<>>) = 0 + 0
  BY <1>3, <1>4, <1>5, Zenon
<1> QED BY <1>2, <1>4, <1>5, <1>6

LEMMA CollectTail ==
    ASSUME NEW c \in Seq(Opcodes), c # <<>>, Closed(c)
    PROVE  /\ Closed(Tail(c)) /\ Forks(c) \in Nat /\ Collected(c) \in Nat
           /\ Forks(Tail(c)) \in Nat /\ Collected(Tail(c)) \in Nat
           /\ Forks(c) = Forks(Tail(c)) + (IF Head(c).op = "fork" THEN 1 ELSE 0)
           /\ Head(c).op # "detach"
                => Collected(c) = Collected(Tail(c)) + (IF Head(c).op = "join" THEN 1 ELSE 0)
           /\ Head(c).op = "detach" => Tail(c) = <<>>
           /\ Detaches(Tail(c)) => Detaches(c)
<1> DEFINE d == Tail(c)
           m == Len(c)
           J(b) == Cardinality(Places(b, "join"))
<1>1. /\ m \in Nat /\ m > 0 /\ DOMAIN c = 1..m /\ Head(c) = c[1]
      /\ DOMAIN d = 1..(m - 1) /\ Len(d) = m - 1
      /\ \A i \in 1..(m - 1) : d[i] = c[i + 1]
      /\ \A i \in 1..m : c[i] \in Opcodes /\ d \in Seq(Opcodes)
  OBVIOUS
<1>13. m = 1 => d = <<>>
  <2>1. d \in Seq(Opcodes) /\ Len(d) = m - 1
    BY <1>1
  <2> HIDE DEF d, m
  <2> QED BY <2>1
<1>2. /\ J(c) = J(d) + (IF Head(c).op = "join" THEN 1 ELSE 0) /\ J(d) \in Nat
      /\ Forks(c) = Forks(d) + (IF Head(c).op = "fork" THEN 1 ELSE 0) /\ Forks(d) \in Nat
  <2>1. \A b : Forks(b) = Cardinality(Places(b, "fork"))
    BY DEF Forks, Places
  <2> QED BY <2>1, CountTail
<1>3. \A b : Collected(b) = J(b) + (IF Detaches(b) THEN b[Len(b)].count ELSE 0)
  BY DEF Collected, Places, Detaches
<1> HIDE DEF J, m, d
<1>4. \A i \in 1..m : c[i].op = "detach" => i = m
  BY <1>1 DEF Closed, m
<1>5. Closed(d)
  <2>1. \A i \in 1..(m - 1) : d[i].op = "detach" => i = m - 1
    BY <1>1, <1>4
  <2> QED BY <1>1, <2>1 DEF Closed
<1>6. Head(c).op # "detach" => (Detaches(d) <=> Detaches(c))
  <2>1. ASSUME NEW i \in 1..m, c[i].op = "detach", Head(c).op # "detach"
        PROVE  Detaches(d)
    <3>1. i # 1
      BY <1>1, <2>1
    <3>2. i - 1 \in DOMAIN d /\ d[i - 1].op = "detach"
      BY <1>1, <2>1, <3>1
    <3> QED BY <3>2 DEF Detaches
  <2>2. ASSUME NEW i \in 1..(m - 1), d[i].op = "detach"
        PROVE  Detaches(c)
    <3>1. i + 1 \in DOMAIN c /\ c[i + 1].op = "detach"
      BY <1>1, <2>2
    <3> QED BY <3>1 DEF Detaches
  <2> QED BY <1>1, <2>1, <2>2 DEF Detaches
<1>7. Head(c).op = "detach" => d = <<>>
  BY <1>1, <1>4, <1>13
<1>8. ASSUME NEW b \in {c, d}, Detaches(b)
      PROVE  b[Len(b)].count \in {1, 2} /\ b[Len(b)] = c[m]
  <2>1. CASE b = c
    <3>1. c[m].op = "detach" /\ c[m] \in Opcodes
      BY <1>1, <1>4, <1>8, <2>1 DEF Detaches
    <3> QED BY <2>1, <3>1, OpcodeCounts DEF m
  <2>2. CASE b = d
    <3>1. PICK i \in 1..(m - 1) : d[i].op = "detach"
      BY <1>1, <1>8, <2>2 DEF Detaches
    <3>2. c[i + 1].op = "detach" /\ i + 1 = m
      BY <1>1, <1>4, <3>1
    <3>3. d[m - 1] = c[m] /\ c[m] \in Opcodes /\ c[m].op = "detach"
      BY <1>1, <3>1, <3>2
    <3> QED BY <1>1, <2>2, <3>3, OpcodeCounts
  <2> QED BY <2>1, <2>2
<1>9. Collected(c) \in Nat /\ Collected(d) \in Nat
  <2>1. \A b \in {c, d} : (IF Detaches(b) THEN b[Len(b)].count ELSE 0) \in Nat
    BY <1>8
  <2>2. J(c) \in Nat
    BY <1>2
  <2> QED BY <1>2, <1>3, <2>1, <2>2
<1>10. Head(c).op # "detach"
         => Collected(c) = Collected(d) + (IF Head(c).op = "join" THEN 1 ELSE 0)
  <2> SUFFICES ASSUME Head(c).op # "detach"
               PROVE  Collected(c) = Collected(d) + (IF Head(c).op = "join" THEN 1 ELSE 0)
    OBVIOUS
  <2> DEFINE K(b) == IF Detaches(b) THEN b[Len(b)].count ELSE 0
  <2>1. K(c) = K(d) /\ K(d) \in Nat
    BY <1>6, <1>8
  <2>2. Collected(c) = J(c) + K(c) /\ Collected(d) = J(d) + K(d)
    BY <1>3
  <2> HIDE DEF K
  <2> QED BY <1>2, <2>1, <2>2
<1>11. Detaches(d) => Detaches(c)
  <2>1. Head(c).op = "detach" => ~ Detaches(d)
    BY <1>7, EmptyCollected
  <2> QED BY <1>6, <2>1
<1>12. Forks(c) \in Nat
  BY <1>2
<1> QED BY <1>2, <1>5, <1>7, <1>9, <1>10, <1>11, <1>12 DEF d

LEMMA CountPlaces ==
    ASSUME NEW c \in Seq(Opcodes), NEW n, NEW a \in Nat, NEW b \in Nat,
           a <= b, b <= Len(c),
           \A i \in 1..Len(c) : c[i].op = n <=> a < i /\ i <= b
    PROVE  Cardinality(Places(c, n)) = b - a
<1>1. DOMAIN c = 1..Len(c) /\ Len(c) \in Nat
  OBVIOUS
<1>2. Places(c, n) = (a + 1)..b
  BY <1>1 DEF Places
<1>3. a + 1 \in Int /\ b \in Int
  OBVIOUS
<1>4. Cardinality((a + 1)..b) = IF a + 1 > b THEN 0 ELSE b - (a + 1) + 1
  BY <1>3, FS_Interval
<1>5. (IF a + 1 > b THEN 0 ELSE b - (a + 1) + 1) = b - a
  OBVIOUS
<1> QED BY <1>2, <1>4, <1>5

(* A statement collects what it forks.                                     *)
Balanced(c) ==
    /\ Closed(c) /\ Forks(c) = Collected(c)
    /\ Detaches(c) => \E y \in Scopes :
          /\ y = "task" => TaskForks
          /\ \A i \in DOMAIN c : c[i].op = "fork" => c[i].scope = y

(* f forks, then j joins, then a detach of the others.                     *)
Formed(c, y, f, j) ==
    /\ \A i \in 1..Len(c) :
          /\ c[i].op = "fork" <=> i <= f
          /\ c[i].op = "join" <=> f < i /\ i <= f + j
          /\ c[i].op = "detach" => i = Len(c) /\ f # j
    /\ f + j <= Len(c) /\ j <= f
    /\ f # j => /\ Len(c) > f + j /\ c[Len(c)].op = "detach" /\ c[Len(c)].count = f - j
                /\ \A i \in 1..Len(c) : i <= f => c[i].scope = y
                /\ y = "task" => TaskForks

LEMMA BalancedCode ==
    ASSUME NEW c \in Seq(Opcodes), NEW y \in Scopes, NEW f \in 0..2, NEW j \in 0..2,
           Formed(c, y, f, j)
    PROVE  Balanced(c)
<1> DEFINE m == Len(c)
<1>0. /\ \A i \in 1..m : c[i].op = "fork" <=> i <= f
      /\ \A i \in 1..m : c[i].op = "join" <=> f < i /\ i <= f + j
      /\ \A i \in 1..m : c[i].op = "detach" => i = m /\ f # j
      /\ f + j <= m /\ j <= f
      /\ f # j => /\ m > f + j /\ c[m].op = "detach" /\ c[m].count = f - j
                  /\ \A i \in 1..m : i <= f => c[i].scope = y
                  /\ y = "task" => TaskForks
  BY DEF Formed
<1>1. DOMAIN c = 1..m /\ m \in Nat
  OBVIOUS
<1>8. f \in Nat /\ j \in Nat /\ f <= m /\ f + j \in Nat /\ f <= f + j
  <2>1. f + j <= m /\ m \in Nat
    BY <1>0, <1>1
  <2> HIDE DEF m
  <2> QED BY <2>1
<1> HIDE DEF m
<1>2. Cardinality(Places(c, "fork")) = f /\ Cardinality(Places(c, "join")) = j
  <2>1. Cardinality(Places(c, "fork")) = f - 0
    <3>1. \A i \in 1..m : c[i].op = "fork" <=> 0 < i /\ i <= f
      BY <1>0, <1>1
    <3>2. 0 \in Nat /\ 0 <= f
      BY <1>8
    <3> QED BY <1>8, <3>1, <3>2, CountPlaces DEF m
  <2>2. Cardinality(Places(c, "join")) = (f + j) - f
    <3> DEFINE k == f + j
    <3>1. /\ \A i \in 1..Len(c) : c[i].op = "join" <=> f < i /\ i <= k
          /\ k <= Len(c) /\ k \in Nat /\ f <= k /\ f \in Nat
      BY <1>0, <1>8 DEF m
    <3> HIDE DEF k
    <3>2. Cardinality(Places(c, "join")) = k - f
      BY <3>1, CountPlaces
    <3> QED BY <3>2 DEF k
  <2> QED BY <2>1, <2>2
<1>3. Forks(c) = f
  BY <1>2 DEF Forks, Places
<1>4. Collected(c) = j + (IF Detaches(c) THEN c[m].count ELSE 0)
  BY <1>2 DEF Collected, Places, Detaches, m
<1>5. Closed(c)
  BY <1>0, <1>1 DEF Closed, m
<1>6. CASE f = j
  <2>1. ~ Detaches(c)
    BY <1>0, <1>1, <1>6 DEF Detaches
  <2>2. Collected(c) = j + 0
    BY <1>4, <2>1, Zenon
  <2> QED BY <1>3, <1>5, <1>6, <2>1, <2>2 DEF Balanced
<1>7. CASE f # j
  <2>1. m \in DOMAIN c /\ c[m].op = "detach"
    BY <1>0, <1>1, <1>7
  <2>2. Detaches(c)
    BY <2>1 DEF Detaches
  <2>3. Collected(c) = j + c[m].count
    BY <1>4, <2>2, Zenon
  <2>4. Forks(c) = Collected(c)
    BY <1>0, <1>3, <1>7, <2>3
  <2>5. \A i \in DOMAIN c : c[i].op = "fork" => c[i].scope = y
    BY <1>0, <1>1, <1>7
  <2>6. y = "task" => TaskForks
    BY <1>0, <1>7
  <2> QED BY <1>5, <2>4, <2>5, <2>6 DEF Balanced
<1> QED BY <1>6, <1>7

LEMMA StatementBalanced ==
    ASSUME NEW x \in Scopes, NEW c \in Statements(x)
    PROVE  Balanced(c)
<1>0. "block" \in Scopes /\ "task" \in Scopes
  BY DEF Scopes
<1>1. c \in Seq(Opcodes)
  BY StatementShape DEF Shaped
<1>2. /\ \A y \in Simple : Op(y).op = y /\ y \notin {"fork", "join", "detach"}
      /\ Op("join").op = "join"
      /\ \A y : Fork(y).op = "fork" /\ Fork(y).scope = y
      /\ \A n : Detach(n).op = "detach" /\ Detach(n).count = n
      /\ \A y : Disable(y).op = "disable"
  BY DEF Op, Fork, Detach, Disable, Simple
<1>3. ASSUME NEW a, c = <<a>>, a.op \notin {"fork", "join", "detach"} PROVE Balanced(c)
  <2>1. Len(c) = 1 /\ c[1] = a
    BY <1>3
  <2>2. Formed(c, "block", 0, 0)
    BY <1>3, <2>1 DEF Formed
  <2> QED BY <1>0, <1>1, <2>2, BalancedCode
<1>4. ASSUME NEW y, c = SubThread(y) PROVE Balanced(c)
  <2>1. Len(c) = 2 /\ c[1] = Fork(y) /\ c[2] = Op("join")
    BY <1>4 DEF SubThread
  <2>2. Formed(c, "block", 1, 1)
    BY <1>2, <2>1 DEF Formed
  <2> QED BY <1>0, <1>1, <2>2, BalancedCode
<1>5. ASSUME NEW y \in Scopes, c \in ForkStatements(y), y = "task" => TaskForks
      PROVE  Balanced(c)
  <2> DEFINE b == Branches(y)
  <2>1. Len(b) = 2 /\ b[1] = Fork(y) /\ b[2] = Fork(y)
    BY DEF Branches
  <2>2. CASE c = b \o <<Op("join"), Op("join")>>
    <3>1. /\ Len(c) = 4 /\ c[1] = Fork(y) /\ c[2] = Fork(y)
          /\ c[3] = Op("join") /\ c[4] = Op("join")
      BY <2>2 DEF Branches
    <3>2. Formed(c, y, 2, 2)
      BY <1>2, <1>5, <3>1 DEF Formed
    <3> QED BY <1>1, <3>2, BalancedCode
  <2>3. CASE c = b \o <<Op("join"), Detach(1)>>
    <3>1. /\ Len(c) = 4 /\ c[1] = Fork(y) /\ c[2] = Fork(y)
          /\ c[3] = Op("join") /\ c[4] = Detach(1)
      BY <2>3 DEF Branches
    <3>2. Formed(c, y, 2, 1)
      BY <1>2, <1>5, <3>1 DEF Formed
    <3> QED BY <1>1, <3>2, BalancedCode
  <2>4. CASE c = b \o <<Detach(2)>>
    <3>1. Len(c) = 3 /\ c[1] = Fork(y) /\ c[2] = Fork(y) /\ c[3] = Detach(2)
      BY <2>4 DEF Branches
    <3>2. Formed(c, y, 2, 0)
      BY <1>2, <1>5, <3>1 DEF Formed
    <3> QED BY <1>1, <3>2, BalancedCode
  <2> QED BY <1>5, <2>2, <2>3, <2>4 DEF ForkStatements
<1>6. \/ \E y \in Simple : c = <<Op(y)>>
      \/ \E y \in {"task", "block"} : c = <<Disable(y)>>
      \/ \E y \in {"task", "block"} : c = SubThread(y)
      \/ c \in ForkStatements("block")
      \/ c \in ForkStatements(x) /\ (x = "task" => TaskForks)
  BY DEF Statements
<1>7. CASE \E y \in Simple : c = <<Op(y)>>
  BY <1>2, <1>3, <1>7
<1>8. CASE \E y \in {"task", "block"} : c = <<Disable(y)>>
  BY <1>2, <1>3, <1>8
<1> QED BY <1>0, <1>4, <1>5, <1>6, <1>7, <1>8

LEMMA CodeClosed ==
    ASSUME NEW c \in Codes
    PROVE  Closed(c)
<1>0. PICK x \in Scopes : \E d \in Statements(x) : \E i \in 1..(Len(d) + 1) :
                            c = SubSeq(d, i, Len(d))
  BY DEF Codes
<1>1. PICK d \in Statements(x) : \E i \in 1..(Len(d) + 1) : c = SubSeq(d, i, Len(d))
  BY <1>0
<1>2. PICK i \in 1..(Len(d) + 1) : c = SubSeq(d, i, Len(d))
  BY <1>1
<1>3. d \in Seq(Opcodes) /\ Closed(d)
  BY StatementShape, StatementBalanced DEF Shaped, Balanced
<1>4. /\ Len(d) \in Nat /\ c \in Seq(Opcodes) /\ Len(c) = Len(d) + 1 - i
      /\ \A k \in 1..(Len(d) + 1 - i) : c[k] = d[i + k - 1]
  BY <1>2, <1>3
<1>5. DOMAIN c = 1..(Len(d) + 1 - i) /\ DOMAIN d = 1..Len(d)
  BY <1>3, <1>4
<1>6. ASSUME NEW k \in 1..(Len(d) + 1 - i), c[k].op = "detach" PROVE k = Len(d) + 1 - i
  <2>1. i + k - 1 \in 1..Len(d) /\ d[i + k - 1].op = "detach"
    BY <1>4, <1>6
  <2>2. i + k - 1 = Len(d)
    BY <1>3, <1>5, <2>1 DEF Closed
  <2> QED BY <1>4, <2>2
<1> QED BY <1>4, <1>5, <1>6 DEF Closed

-----------------------------------------------------------------------------
(* What does not touch the families.                                       *)

Owing(s)   == \A x \in Threads : ~ s[x].ended => Owes(s[x], s[x].code)
Waiting(s) == \A x \in Threads : ~ s[x].ended => Waits(s, x)

SameTies(x, y) ==
    /\ y.mem = x.mem /\ y.parent = x.parent /\ y.ended = x.ended
    /\ y.inScope = x.inScope /\ y.scope = x.scope /\ y.isDetached = x.isDetached
    /\ y.children = x.children /\ y.detached = x.detached

SameWaits(x, y) ==
    /\ y.tasks = x.tasks /\ y.joining = x.joining /\ y.waitingFork = x.waitingFork
    /\ y.code = x.code

LEMMA TiesFamily ==
    ASSUME NEW s, NEW u, Typed(s), NEW c, NEW f, NEW g, Family(s, c, f),
           \A x \in Threads : SameTies(s[x], u[x]),
           \A x \in Threads : u[x].scheduled \/ u[x].waitingEvent => s[x].mem = "live",
           \A x \in Threads : s[x].mem = "live" /\ ~ Attended(s[x])
                => u[x].scheduled \/ u[x].waitingEvent \/ x = g
    PROVE  Family(u, c, g)
<1>1. ASSUME NEW x \in Threads PROVE Memory(u[x], x <= c, x = g)
  <2>1. Memory(s[x], x <= c, x = f) /\ SameTies(s[x], u[x])
    BY DEF Family, Remembered
  <2>2. /\ u[x].scheduled \/ u[x].waitingEvent => s[x].mem = "live"
        /\ s[x].mem = "live" /\ ~ Attended(s[x])
              => u[x].scheduled \/ u[x].waitingEvent \/ x = g
    OBVIOUS
  <2> QED BY <2>1, <2>2 DEF Memory, SameTies, Attended
<1>2. ASSUME NEW x \in Threads
      PROVE  /\ s[x] \in ThreadState /\ SameTies(s[x], u[x])
             /\ s[x].parent # 0 => s[x].parent \in Threads
  <2>1. s[x] \in ThreadState
    BY DEF Typed
  <2> QED BY <2>1, BoundsAssumption DEF ThreadState, Threads
<1>3. ASSUME NEW x \in Threads PROVE Up(u, x)
  <2> DEFINE p == s[x].parent
  <2>1. Up(s, x) /\ u[x].parent = p /\ u[x].isDetached = s[x].isDetached
    BY <1>2 DEF Family, Linked, SameTies
  <2>2. CASE p = 0
    BY <2>1, <2>2 DEF Up
  <2>3. CASE p # 0
    <3>1. SameTies(s[p], u[p])
      BY <1>2, <2>3
    <3>2. /\ s[p].mem = "live" /\ Attended(s[p])
          /\ x \in IF s[x].isDetached THEN s[p].detached ELSE s[p].children
      BY <2>1, <2>3 DEF Up
    <3> HIDE DEF p
    <3>3. /\ u[p].mem = "live" /\ Attended(u[p])
          /\ x \in IF s[x].isDetached THEN u[p].detached ELSE u[p].children
      BY <3>1, <3>2 DEF SameTies, Attended
    <3> QED BY <2>1, <3>3 DEF Up
  <2> QED BY <2>2, <2>3
<1>4. ASSUME NEW x \in Threads PROVE Down(u, x)
  <2>1. Down(s, x) /\ SameTies(s[x], u[x])
    BY <1>2 DEF Family, Linked
  <2>2. /\ Attended(u[x]) => Attended(s[x])
        /\ u[x].children = s[x].children /\ u[x].detached = s[x].detached
        /\ s[x].children \subseteq Threads /\ s[x].detached \subseteq Threads
    BY <1>2, <2>1 DEF SameTies, Attended, ThreadState
  <2>3. \A k \in Threads : u[k].parent = s[k].parent /\ u[k].isDetached = s[k].isDetached
    BY <1>2 DEF SameTies
  <2> QED BY <2>1, <2>2, <2>3 DEF Down
<1> QED BY <1>1, <1>3, <1>4 DEF Family, Remembered, Linked

LEMMA WaitsAlike ==
    ASSUME NEW s, NEW u, NEW x \in Threads, Waits(s, x), SameWaits(s[x], u[x]),
           u[x].children = s[x].children, u[x].detached = s[x].detached,
           \A k \in s[x].children : u[k].ended = s[k].ended
    PROVE  Waits(u, x)
<1>1. \A k \in s[x].children : Joinable(s, x, k) => Joinable(u, x, k)
  BY DEF Joinable, SameWaits
<1>2. /\ u[x].tasks = s[x].tasks /\ u[x].joining = s[x].joining
      /\ u[x].waitingFork = s[x].waitingFork /\ u[x].code = s[x].code
  BY DEF SameWaits
<1>3. u[x].joining => \E k \in u[x].children : ~ u[k].ended /\ Joinable(u, x, k)
  BY <1>1, <1>2 DEF Waits
<1> QED BY <1>2, <1>3 DEF Waits

LEMMA WaitsSame ==
    ASSUME NEW s, NEW u, Typed(s), NEW x \in Threads, Waits(s, x), SameWaits(s[x], u[x]),
           u[x].children = s[x].children, u[x].detached = s[x].detached,
           \A k \in Threads : u[k].ended = s[k].ended
    PROVE  Waits(u, x)
<1>1. s[x].children \subseteq Threads
  BY DEF Typed, ThreadState
<1>2. \A k \in s[x].children : u[k].ended = s[k].ended
  BY <1>1
<1> QED BY <1>2, WaitsAlike

LEMMA OwesSame ==
    ASSUME NEW x, NEW y, Owes(x, x.code), y.code = x.code, y.joining = x.joining,
           y.children = x.children
    PROVE  Owes(y, y.code)
BY DEF Owes

LEMMA Kids ==
    ASSUME NEW s, Typed(s), NEW x \in Threads
    PROVE  /\ s[x].children \subseteq Threads
           /\ IsFiniteSet(s[x].children) /\ Cardinality(s[x].children) \in Nat
           /\ Cardinality(s[x].children) = 0 <=> s[x].children = {}
<1>1. s[x].children \in SUBSET Threads
  BY DEF Typed, ThreadState
<1>2. IsFiniteSet(Threads)
  BY BoundsAssumption, FS_Interval DEF Threads
<1>3. IsFiniteSet(s[x].children)
  BY <1>1, <1>2, FS_Subset
<1> QED BY <1>1, <1>3, FS_CardinalityType, FS_EmptySet

-----------------------------------------------------------------------------
(* What burying does to those who wait for their children.                 *)

(* All of s but p collect what they fork; p collects t beside.              *)
OwingBut(s, p, t) ==
    /\ \A x \in Threads : ~ s[x].ended /\ x # p => Owes(s[x], s[x].code)
    /\ p # 0 => /\ p \in Threads /\ t \in s[p].children /\ ~ s[p].joining
                /\ Cardinality(s[p].children) + Forks(s[p].code) = Collected(s[p].code) + 1

LEMMA BuriedOwes ==
    ASSUME NEW s, NEW u, Typed(s), NEW c, NEW f, Family(s, c, f),
           NEW E, NEW O, NEW R, Buried(s, u, E, O, R), Fits(s, c, E, O, R),
           NEW p, NEW t, OwingBut(s, p, t), p # 0 => t \in E,
           \A x \in E : \/ s[x].parent \in E \cup O \cup {0}
                       \/ s[x].isDetached
                       \/ (p # 0 /\ x = t),
           \A x \in Threads : ~ s[x].ended => Forks(s[x].code) \in Nat /\ Collected(s[x].code) \in Nat
    PROVE  Owing(u)
<1> SUFFICES ASSUME NEW x \in Threads, ~ u[x].ended PROVE Owes(u[x], u[x].code)
  BY DEF Owing
<1>1. x \notin E \cup O
  BY DEF Buried, Gone, Over
<1>2. Kept(s[x], u[x], E, R)
  BY <1>1 DEF Buried
<1>3. ~ s[x].ended /\ u[x].joining = s[x].joining /\ u[x].code = s[x].code
  BY <1>2 DEF Kept
<1>4. u[x].children = s[x].children \ E
  BY <1>2, <1>3 DEF Kept, Attended
<1>5. \A k \in s[x].children : k \in Threads /\ s[k].parent = x /\ ~ s[k].isDetached
  <2>1. Down(s, x)
    BY DEF Family, Linked
  <2> QED BY <1>3, <2>1, Kids DEF Down, Attended
<1>6. \A k \in s[x].children : k \in E => p # 0 /\ k = t
  BY <1>1, <1>5 DEF Threads
<1>7. CASE x # p
  <2>1. p # 0 => t \notin s[x].children
    <3> SUFFICES ASSUME p # 0 PROVE t \notin s[x].children
      OBVIOUS
    <3>1. t \in s[p].children /\ p \in Threads
      BY DEF OwingBut
    <3>2. s[t].parent = p
      <4>1. Down(s, p) /\ Memory(s[p], p <= c, p = f)
        BY <3>1 DEF Family, Linked, Remembered
      <4> QED BY <3>1, <4>1 DEF Down, Memory, Attended
    <3> QED BY <1>5, <1>7, <3>2
  <2>2. u[x].children = s[x].children
    BY <1>4, <1>6, <2>1
  <2>3. Owes(s[x], s[x].code)
    BY <1>3, <1>7 DEF OwingBut
  <2> QED BY <1>3, <2>2, <2>3, OwesSame
<1>8. CASE x = p
  <2>1. /\ t \in s[x].children /\ ~ s[x].joining
        /\ Cardinality(s[x].children) + Forks(s[x].code) = Collected(s[x].code) + 1
    BY <1>8 DEF OwingBut, Threads
  <2>2. u[x].children = s[x].children \ {t}
    <3>1. t \in E
      BY <1>8 DEF Threads
    <3> QED BY <1>4, <1>6, <3>1
  <2>3. Cardinality(u[x].children) = Cardinality(s[x].children) - 1
        /\ Cardinality(s[x].children) \in Nat
    <3>1. IsFiniteSet(s[x].children) /\ Cardinality(s[x].children) \in Nat
      BY Kids
    <3>2. Cardinality(s[x].children \ {t}) = Cardinality(s[x].children) - 1
      BY <2>1, <3>1, FS_RemoveElement
    <3> QED BY <2>2, <3>1, <3>2
  <2>4. Forks(s[x].code) \in Nat /\ Collected(s[x].code) \in Nat
    BY <1>3
  <2>5. Cardinality(u[x].children) + Forks(s[x].code) = Collected(s[x].code)
    BY <2>1, <2>3, <2>4
  <2>6. (IF u[x].joining THEN 1 ELSE 0) = 0
    BY <1>3, <2>1
  <2> QED BY <1>3, <2>4, <2>5, <2>6 DEF Owes
<1> QED BY <1>7, <1>8

(* Whoever waits goes on waiting for somebody that is not buried.          *)
Spared(s, x, E, O) ==
    /\ s[x].tasks \subseteq s[x].children \ E
    /\ Detaches(s[x].code) => s[x].tasks = {} /\ Fork("task") \notin ToSet(s[x].code)
    /\ s[x].joining => \E k \in s[x].children : /\ ~ s[k].ended /\ Joinable(s, x, k)
                                               /\ k \notin E \cup O
    /\ s[x].waitingFork => s[x].detached \ E # {}

LEMMA BuriedWaits ==
    ASSUME NEW s, NEW u, Typed(s), NEW E, NEW O, NEW R, Buried(s, u, E, O, R),
           \A x \in Threads \ (E \cup O) : ~ s[x].ended => Spared(s, x, E, O)
    PROVE  Waiting(u)
<1> SUFFICES ASSUME NEW x \in Threads, ~ u[x].ended PROVE Waits(u, x)
  BY DEF Waiting
<1>1. x \notin E \cup O
  BY DEF Buried, Gone, Over
<1>2. Kept(s[x], u[x], E, R)
  BY <1>1 DEF Buried
<1>3. /\ ~ s[x].ended /\ u[x].joining = s[x].joining /\ u[x].code = s[x].code
      /\ u[x].tasks = s[x].tasks /\ u[x].waitingFork = s[x].waitingFork
      /\ u[x].children = s[x].children \ E /\ u[x].detached = s[x].detached \ E
  BY <1>2 DEF Kept, Attended
<1>4. Spared(s, x, E, O)
  BY <1>1, <1>3
<1>5. \A k \in s[x].children \ (E \cup O) : u[k].ended = s[k].ended
  <2>1. s[x].children \subseteq Threads
    BY Kids
  <2>2. ASSUME NEW k \in s[x].children \ (E \cup O) PROVE u[k].ended = s[k].ended
    <3>1. Kept(s[k], u[k], E, R)
      BY <2>1, <2>2 DEF Buried
    <3> QED BY <3>1 DEF Kept
  <2> QED BY <2>2
<1>6. \A k \in s[x].children : Joinable(s, x, k) => Joinable(u, x, k)
  BY <1>3 DEF Joinable
<1>7. u[x].joining => \E k \in u[x].children : ~ u[k].ended /\ Joinable(u, x, k)
  BY <1>3, <1>4, <1>5, <1>6 DEF Spared
<1> QED BY <1>3, <1>4, <1>7 DEF Spared, Waits, Detaches

(* They are spared when nobody in E belongs to them, and nobody in O is     *)
(* what they join.                                                         *)
LEMMA WaitsSpared ==
    ASSUME NEW s, NEW c, NEW f, Typed(s), Family(s, c, f), NEW E, NEW O,
           NEW x \in Threads \ (E \cup O), ~ s[x].ended, Waits(s, x),
           \A k \in E : s[k].parent # x,
           \A k \in O : s[k].parent = x /\ s[x].joining => ~ Joinable(s, x, k)
    PROVE  Spared(s, x, E, O)
<1>1. /\ \A k \in s[x].children : k \in Threads /\ s[k].parent = x
      /\ \A k \in s[x].detached : s[k].parent = x
  <2>1. Down(s, x)
    BY DEF Family, Linked
  <2> QED BY <2>1, Kids DEF Down, Attended
<1>2. s[x].children \cap E = {} /\ s[x].detached \cap E = {}
  BY <1>1 DEF Threads
<1>3. s[x].joining => \E k \in s[x].children : /\ ~ s[k].ended /\ Joinable(s, x, k)
                                              /\ k \notin E \cup O
  <2> SUFFICES ASSUME s[x].joining
               PROVE  \E k \in s[x].children : /\ ~ s[k].ended /\ Joinable(s, x, k)
                                              /\ k \notin E \cup O
    OBVIOUS
  <2>1. PICK k \in s[x].children : ~ s[k].ended /\ Joinable(s, x, k)
    BY DEF Waits
  <2>2. k \notin E /\ k \notin O
    BY <1>1, <1>2, <2>1
  <2> QED BY <2>1, <2>2
<1> QED BY <1>2, <1>3 DEF Waits, Spared, Detaches

-----------------------------------------------------------------------------
(***************************************************************************)
(* The invariants in terms of the operators above, and the steps.          *)
(***************************************************************************)
Held ==
    /\ Family(thr, created, Forker) /\ Owing(thr)
    /\ Forker # 0 => thr[Forker].mem = "live"
    /\ Disables

(* A step keeps it, and if no task forks, the reasons to wait too.         *)
Keeps == Held' /\ (~ TaskForks /\ Waiting(thr) => Waiting(thr'))

(* The running thread t was fetched code.                                  *)
Fetched(t, code) ==
    /\ t \in Threads /\ NotDisabling /\ Forker = t
    /\ Typed(thr) /\ Family(thr, created, t) /\ Owing(thr)
    /\ created \in 0..MaxThreads /\ t <= created
    /\ ~ thr[t].ended /\ thr[t].mem = "live" /\ ~ thr[t].joining /\ ~ thr[t].waitingFork
    /\ ~ thr[t].scheduled /\ ~ thr[t].waitingEvent
    /\ code \in Seq(Opcodes) /\ code \in Codes /\ code # <<>> /\ Closed(code)
    /\ Head(code) \in Opcodes
    /\ Cardinality(thr[t].children) + Forks(code) = Collected(code)
    /\ Forks(code) \in Nat /\ (Head(code).op # "fork" => Forks(code) = 0)
    /\ ~ TaskForks /\ Waiting(thr) =>
          /\ thr[t].tasks \subseteq thr[t].children
          /\ Detaches(code) => thr[t].tasks = {} /\ Fork("task") \notin ToSet(code)

LEMMA FetchFacts ==
    ASSUME Parts, Held, NEW t, t = running, running # 0,
           NEW code \in NextCode(t), Fetch(t, code)
    PROVE  Fetched(t, code)
<1>1. /\ t \in Threads /\ Forker = t /\ NotDisabling
      /\ Sound(thr, t, created) /\ ~ thr[t].ended /\ Coded(code, created)
  BY CodeOf
<1>2. Typed(thr) /\ thr[t] \in ThreadState /\ created \in 0..MaxThreads
  BY <1>1 DEF Sound, Typed, Born
<1>3. t <= created
  BY <1>1 DEF Sound, Born, Threads
<1>4. ~ thr[t].joining /\ ~ thr[t].waitingFork /\ ~ thr[t].scheduled /\ ~ thr[t].waitingEvent
  <2>1. OneReason(thr[t], TRUE)
    BY <1>1 DEF Sound, Single
  <2> QED BY <2>1 DEF OneReason
<1>5. Family(thr, created, t) /\ Owing(thr) /\ thr[t].mem = "live"
  BY <1>1 DEF Held, Threads
<1>6. /\ code \in Seq(Opcodes) /\ code \in Codes /\ code # <<>> /\ Closed(code)
      /\ Head(code) \in Opcodes
  BY <1>1, CodeClosed DEF Coded
<1>7. Forks(code) \in Nat /\ (Head(code).op # "fork" => Forks(code) = 0)
  <2>1. PICK n \in 0..2 : n <= Len(code) /\ ForksFirst(code, n)
    BY <1>1 DEF Coded
  <2>2. Forks(code) = n
    BY <1>6, <2>1, ForksCount
  <2>3. 1 \in DOMAIN code /\ Head(code) = code[1]
    BY <1>6
  <2>4. Head(code).op = "fork" <=> 1 <= n
    BY <2>1, <2>3 DEF ForksFirst
  <2> QED BY <2>2, <2>4
<1>8. Owes(thr[t], thr[t].code) /\ (IF thr[t].joining THEN 1 ELSE 0) = 0
  BY <1>1, <1>4, <1>5 DEF Owing
<1>9. Collected(code) \in Nat
  BY <1>6, CollectTail
<1>10. CASE thr[t].code # <<>>
  <2>1. code = thr[t].code
    BY <1>10 DEF NextCode
  <2>2. Cardinality(thr[t].children) + Forks(code) = Collected(code) + 0
    BY <1>8, <2>1, Zenon DEF Owes
  <2>3. Waiting(thr) => /\ thr[t].tasks \subseteq thr[t].children
                        /\ Detaches(code) => thr[t].tasks = {} /\ Fork("task") \notin ToSet(code)
    BY <1>1, <2>1 DEF Waiting, Waits, Detaches
  <2> QED BY <1>1, <1>2, <1>3, <1>4, <1>5, <1>6, <1>7, <1>9, <2>2, <2>3 DEF Fetched
<1>11. CASE thr[t].code = <<>>
  <2>1. code \in Statements(thr[t].scope) /\ thr[t].scope \in Scopes
    BY <1>2, <1>11 DEF NextCode, ThreadState
  <2>2. Balanced(code)
    BY <2>1, StatementBalanced
  <2>3. thr[t].children = {} /\ Cardinality(thr[t].children) = 0
    <3>1. Cardinality(thr[t].children) + 0 = 0 + 0
      BY <1>8, <1>11, EmptyCollected, Zenon DEF Owes
    <3>2. /\ Cardinality(thr[t].children) \in Nat
          /\ Cardinality(thr[t].children) = 0 <=> thr[t].children = {}
      BY <1>1, <1>2, Kids
    <3> QED BY <3>1, <3>2
  <2>4. Cardinality(thr[t].children) + Forks(code) = Collected(code)
    BY <1>7, <2>2, <2>3 DEF Balanced
  <2>5. ASSUME ~ TaskForks, Waiting(thr)
        PROVE  /\ thr[t].tasks \subseteq thr[t].children
               /\ Detaches(code) => thr[t].tasks = {} /\ Fork("task") \notin ToSet(code)
    <3>1. thr[t].tasks \subseteq thr[t].children
      BY <1>1, <2>5 DEF Waiting, Waits
    <3>2. ASSUME Detaches(code) PROVE Fork("task") \notin ToSet(code)
      <4>1. PICK y \in Scopes : /\ y = "task" => TaskForks
                                /\ \A i \in DOMAIN code : code[i].op = "fork" => code[i].scope = y
        BY <2>2, <3>2 DEF Balanced
      <4>2. Fork("task").op = "fork" /\ Fork("task").scope = "task"
        BY DEF Fork
      <4>3. \A i \in DOMAIN code : code[i] # Fork("task")
        BY <2>5, <4>1, <4>2
      <4> QED BY <4>3 DEF ToSet
    <3> QED BY <2>3, <3>1, <3>2
  <2> QED BY <1>1, <1>2, <1>3, <1>4, <1>5, <1>6, <1>7, <2>4, <2>5 DEF Fetched
<1> QED BY <1>10, <1>11

Rests(x, y) ==
    /\ SameTies(x, y) /\ SameWaits(x, y)
    /\ y.scheduled \/ y.waitingEvent <=> x.scheduled \/ x.waitingEvent

(* The opcodes that do not touch the families: the running thread goes from *)
(* x to y.                                                                 *)
Moves(x, y, t, code) ==
    /\ SameTies(x, y) /\ y.tasks = x.tasks /\ y.code = Tail(code)
    /\ Head(code).op \notin {"fork", "detach"}
    /\ y.joining \in BOOLEAN /\ (y.joining <=> Head(code).op = "join")
    /\ y.joining => EndedChildren(t) = {}
    /\ y.waitingFork => x.detached # {}

LEMMA MovesOn ==
    ASSUME NEW t, NEW code, Fetched(t, code), NEW u, Moves(thr[t], u[t], t, code),
           \A x \in Threads : x # t => Rests(thr[x], u[x]), NEW g \in {0, t}
    PROVE  /\ Family(u, created, g) /\ Owing(u) /\ u[t].mem = "live"
           /\ ~ TaskForks /\ Waiting(thr) => Waiting(u)
<1>1. /\ t \in Threads /\ Typed(thr) /\ Family(thr, created, t) /\ Owing(thr)
      /\ ~ thr[t].ended /\ thr[t].mem = "live"
  BY DEF Fetched
<1>2. \A x \in Threads : SameTies(thr[x], u[x])
  BY DEF Moves, Rests
<1>3. Family(u, created, g)
  <2>1. ASSUME NEW x \in Threads
        PROVE  /\ u[x].scheduled \/ u[x].waitingEvent => thr[x].mem = "live"
               /\ thr[x].mem = "live" /\ ~ Attended(thr[x])
                    => u[x].scheduled \/ u[x].waitingEvent \/ x = g
    <3>1. CASE x = t
      BY <1>1, <3>1 DEF Attended
    <3>2. CASE x # t
      <4>1. Memory(thr[x], x <= created, x = t) /\ Rests(thr[x], u[x])
        BY <1>1, <3>2 DEF Family, Remembered
      <4>2. /\ thr[x].scheduled \/ thr[x].waitingEvent => thr[x].mem = "live"
            /\ thr[x].mem = "live" /\ ~ Attended(thr[x])
                 => thr[x].scheduled \/ thr[x].waitingEvent
        BY <3>2, <4>1 DEF Memory
      <4> QED BY <4>1, <4>2 DEF Rests
    <3> QED BY <3>1, <3>2
  <2> QED BY <1>1, <1>2, <2>1, TiesFamily
<1>4. ASSUME NEW x \in Threads, ~ u[x].ended PROVE Owes(u[x], u[x].code)
  <2>1. CASE x # t
    <3>1. ~ thr[x].ended /\ Rests(thr[x], u[x])
      BY <1>2, <1>4, <2>1 DEF SameTies
    <3>2. Owes(thr[x], thr[x].code)
      BY <1>1, <3>1 DEF Owing
    <3> QED BY <3>1, <3>2, OwesSame DEF Rests, SameTies, SameWaits
  <2>2. CASE x = t
    <3>1. /\ code \in Seq(Opcodes) /\ code # <<>> /\ Closed(code)
          /\ Cardinality(thr[t].children) + Forks(code) = Collected(code)
      BY DEF Fetched
    <3>2. /\ u[t].children = thr[t].children /\ u[t].code = Tail(code)
          /\ u[t].joining \in BOOLEAN /\ (u[t].joining <=> Head(code).op = "join")
          /\ Head(code).op # "fork" /\ Head(code).op # "detach"
      BY DEF Moves, SameTies
    <3>3. /\ Forks(Tail(code)) \in Nat /\ Collected(Tail(code)) \in Nat
          /\ Forks(code) = Forks(Tail(code))
          /\ Collected(code) = Collected(Tail(code)) + (IF Head(code).op = "join" THEN 1 ELSE 0)
      BY <3>1, <3>2, CollectTail
    <3>4. Cardinality(thr[t].children) \in Nat
      BY <1>1, Kids
    <3>5. (IF u[t].joining THEN 1 ELSE 0) = (IF Head(code).op = "join" THEN 1 ELSE 0)
      BY <3>2
    <3> QED BY <2>2, <3>1, <3>2, <3>3, <3>4, <3>5 DEF Owes
  <2> QED BY <2>1, <2>2
<1>5. ASSUME ~ TaskForks, Waiting(thr), NEW x \in Threads, ~ u[x].ended
      PROVE  Waits(u, x)
  <2>1. \A k \in Threads : u[k].ended = thr[k].ended
    BY <1>2 DEF SameTies
  <2>2. CASE x # t
    <3>1. Waits(thr, x) /\ Rests(thr[x], u[x])
      BY <1>5, <2>1, <2>2 DEF Waiting
    <3> QED BY <1>1, <2>1, <3>1, WaitsSame DEF Rests, SameTies
  <2>3. CASE x = t
    <3>1. /\ thr[t].tasks \subseteq thr[t].children
          /\ Detaches(code) => thr[t].tasks = {} /\ Fork("task") \notin ToSet(code)
          /\ code \in Seq(Opcodes) /\ code # <<>> /\ Closed(code)
          /\ Cardinality(thr[t].children) + Forks(code) = Collected(code)
      BY <1>5 DEF Fetched
    <3>2. /\ u[t].tasks = thr[t].tasks /\ u[t].children = thr[t].children
          /\ u[t].detached = thr[t].detached /\ u[t].code = Tail(code)
          /\ u[t].waitingFork => thr[t].detached # {}
          /\ u[t].joining => Head(code).op = "join" /\ EndedChildren(t) = {}
      BY DEF Moves, SameTies
    <3>3. Detaches(u[t].code) => u[t].tasks = {} /\ Fork("task") \notin ToSet(u[t].code)
      <4>1. Detaches(Tail(code)) => Detaches(code)
        BY <3>1, CollectTail
      <4>2. ToSet(Tail(code)) \subseteq ToSet(code)
        BY <3>1, ToSetHeadTail
      <4> QED BY <3>1, <3>2, <4>1, <4>2
    <3>4. ASSUME u[t].joining
          PROVE  \E k \in u[t].children : ~ u[k].ended /\ Joinable(u, t, k)
      <4>1. \A k \in thr[t].children : thr[k].ended => ~ Joinable(thr, t, k)
        BY <3>2, <3>4 DEF EndedChildren
      <4>2. thr[t].children # {}
        <5>1. Forks(code) = 0 /\ Head(code).op = "join"
          BY <3>2, <3>4 DEF Fetched
        <5>2. Collected(code) = Collected(Tail(code)) + 1 /\ Collected(Tail(code)) \in Nat
          BY <3>1, <5>1, CollectTail
        <5>3. Cardinality(thr[t].children) # 0
          BY <3>1, <5>1, <5>2
        <5> QED BY <1>1, <5>3, Kids
      <4>3. \E k \in thr[t].children : Joinable(thr, t, k)
        BY <3>1, <4>2 DEF Joinable
      <4>4. \A k \in thr[t].children : k \in Threads /\ (Joinable(thr, t, k) => Joinable(u, t, k))
        BY <1>1, <3>2, Kids DEF Joinable
      <4> QED BY <2>1, <3>2, <4>1, <4>3, <4>4
    <3> QED BY <2>3, <3>1, <3>2, <3>3, <3>4 DEF Waits, Detaches
  <2> QED BY <2>2, <2>3
<1> QED BY <1>1, <1>2, <1>3, <1>4, <1>5 DEF Owing, Waiting, SameTies

(* What is left to show of an opcode. *)
LEMMA Settles ==
    ASSUME Parts, Held, NEW t, NEW code, Fetched(t, code), t = running,
           Continue \/ Suspend,
           \A g \in {0, t} : Continue \/ g = 0 => Family(thr', created', g),
           Owing(thr'), Continue => thr'[t].mem = "live",
           ~ TaskForks /\ Waiting(thr) => Waiting(thr')
    PROVE  Keeps
<1>1. NotDisabling /\ t \in Threads
  BY DEF Fetched
<1>2. NotDisabling' /\ disabling' = disabling
  BY <1>1 DEF Continue, Suspend, NotDisabling
<1>3. Disables'
  BY <1>2 DEF Disables
<1>4. Continue => Forker' = t
  BY <1>2 DEF Forker, Continue
<1>5. Suspend => Forker' = 0
  BY <1>2 DEF Forker, Suspend
<1> QED BY <1>1, <1>3, <1>4, <1>5 DEF Keeps, Held

LEMMA AtFields ==
    ASSUME NEW t, NEW code, Fetched(t, code)
    PROVE  LET u == At(thr, t, code) IN
           /\ Typed(u) /\ SameTies(thr[t], u[t]) /\ u[t].code = Tail(code)
           /\ u[t].tasks = thr[t].tasks /\ ~ u[t].joining /\ ~ u[t].waitingFork
           /\ ~ u[t].scheduled /\ ~ u[t].waitingEvent
           /\ \A x \in Threads : x # t => u[x] = thr[x]
<1> DEFINE d == Tail(code)
           y == [thr[t] EXCEPT !.code = d]
           u == At(thr, t, code)
<1>1. /\ t \in Threads /\ Typed(thr) /\ ~ thr[t].ended
      /\ ~ thr[t].joining /\ ~ thr[t].waitingFork
      /\ ~ thr[t].scheduled /\ ~ thr[t].waitingEvent
  BY DEF Fetched
<1>2. thr[t] \in ThreadState /\ thr \in [Threads -> ThreadState] /\ d \in Codes
  BY <1>1, CodeShape DEF Typed, Fetched
<1>3. u = WithCode(thr, t, d)
  BY DEF At, WithCode
<1>4. Typed(u)
  <2> HIDE DEF u, d
  <2> QED BY <1>1, <1>2, <1>3, CodeFields
<1> HIDE DEF d
<1>5. /\ y.code = d /\ y.tasks = thr[t].tasks
      /\ y.joining = thr[t].joining /\ y.waitingFork = thr[t].waitingFork
      /\ y.scheduled = thr[t].scheduled /\ y.waitingEvent = thr[t].waitingEvent
      /\ SameTies(thr[t], y)
  BY <1>2 DEF ThreadState, SameTies
<1>6. u[t] = y /\ \A x \in Threads : x # t => u[x] = thr[x]
  BY <1>1, <1>2, <1>3 DEF WithCode
<1> HIDE DEF y, u
<1> QED BY <1>1, <1>4, <1>5, <1>6 DEF d, u

LEMMA RestsAlike == ASSUME NEW x PROVE Rests(x, x)
BY DEF Rests, SameTies, SameWaits

(* u with one flag more of the thread t, r, says whether it joins and waits. *)
Sets(u, r, t, joins, waits) ==
    /\ SameTies(u[t], r[t]) /\ r[t].code = u[t].code /\ r[t].tasks = u[t].tasks
    /\ r[t].joining = joins /\ r[t].waitingFork = waits
    /\ \A x \in Threads : x # t => r[x] = u[x]

LEMMA FlagSet ==
    ASSUME NEW u, Typed(u), NEW t \in Threads, ~ u[t].joining, ~ u[t].waitingFork
    PROVE  /\ Sets(u, u, t, FALSE, FALSE)
           /\ Sets(u, WithScheduled(u, t, TRUE), t, FALSE, FALSE)
           /\ Sets(u, WithWaitingEvent(u, t), t, FALSE, FALSE)
           /\ Sets(u, WithJoining(u, t), t, TRUE, FALSE)
           /\ Sets(u, WithWaitingFork(u, t), t, FALSE, TRUE)
<1>1. u[t] \in ThreadState /\ u \in [Threads -> ThreadState]
  BY DEF Typed
<1>2. u[t].joining = FALSE /\ u[t].waitingFork = FALSE
  BY <1>1 DEF ThreadState
<1>3. Sets(u, u, t, FALSE, FALSE)
  BY <1>2 DEF Sets, SameTies
<1>4. Sets(u, WithScheduled(u, t, TRUE), t, FALSE, FALSE)
  <2> DEFINE y == [u[t] EXCEPT !.scheduled = TRUE]
             r == WithScheduled(u, t, TRUE)
  <2>1. /\ SameTies(u[t], y) /\ y.code = u[t].code /\ y.tasks = u[t].tasks
        /\ y.joining = u[t].joining /\ y.waitingFork = u[t].waitingFork
    BY <1>1 DEF ThreadState, SameTies
  <2>2. r[t] = y /\ \A x \in Threads : x # t => r[x] = u[x]
    BY <1>1 DEF WithScheduled
  <2> HIDE DEF y, r
  <2>3. Sets(u, r, t, FALSE, FALSE)
    BY <1>2, <2>1, <2>2 DEF Sets
  <2> QED BY <2>3 DEF r
<1>5. Sets(u, WithWaitingEvent(u, t), t, FALSE, FALSE)
  <2> DEFINE y == [u[t] EXCEPT !.waitingEvent = TRUE]
             r == WithWaitingEvent(u, t)
  <2>1. /\ SameTies(u[t], y) /\ y.code = u[t].code /\ y.tasks = u[t].tasks
        /\ y.joining = u[t].joining /\ y.waitingFork = u[t].waitingFork
    BY <1>1 DEF ThreadState, SameTies
  <2>2. r[t] = y /\ \A x \in Threads : x # t => r[x] = u[x]
    BY <1>1 DEF WithWaitingEvent
  <2> HIDE DEF y, r
  <2>3. Sets(u, r, t, FALSE, FALSE)
    BY <1>2, <2>1, <2>2 DEF Sets
  <2> QED BY <2>3 DEF r
<1>6. Sets(u, WithJoining(u, t), t, TRUE, FALSE)
  <2> DEFINE y == [u[t] EXCEPT !.joining = TRUE]
             r == WithJoining(u, t)
  <2>1. /\ SameTies(u[t], y) /\ y.code = u[t].code /\ y.tasks = u[t].tasks
        /\ y.joining = TRUE /\ y.waitingFork = u[t].waitingFork
    BY <1>1 DEF ThreadState, SameTies
  <2>2. r[t] = y /\ \A x \in Threads : x # t => r[x] = u[x]
    BY <1>1 DEF WithJoining
  <2> HIDE DEF y, r
  <2>3. Sets(u, r, t, TRUE, FALSE)
    BY <1>2, <2>1, <2>2 DEF Sets
  <2> QED BY <2>3 DEF r
<1>7. Sets(u, WithWaitingFork(u, t), t, FALSE, TRUE)
  <2> DEFINE y == [u[t] EXCEPT !.waitingFork = TRUE]
             r == WithWaitingFork(u, t)
  <2>1. /\ SameTies(u[t], y) /\ y.code = u[t].code /\ y.tasks = u[t].tasks
        /\ y.joining = u[t].joining /\ y.waitingFork = TRUE
    BY <1>1 DEF ThreadState, SameTies
  <2>2. r[t] = y /\ \A x \in Threads : x # t => r[x] = u[x]
    BY <1>1 DEF WithWaitingFork
  <2> HIDE DEF y, r
  <2>3. Sets(u, r, t, FALSE, TRUE)
    BY <1>2, <2>1, <2>2 DEF Sets
  <2> QED BY <2>3 DEF r
<1> QED BY <1>3, <1>4, <1>5, <1>6, <1>7

LEMMA SetMoves ==
    ASSUME NEW t, NEW code, Fetched(t, code), NEW joins \in BOOLEAN, NEW waits \in BOOLEAN,
           NEW r, Sets(At(thr, t, code), r, t, joins, waits),
           Head(code).op \notin {"fork", "detach"}, joins <=> Head(code).op = "join",
           joins => EndedChildren(t) = {}, waits => thr[t].detached # {}
    PROVE  /\ Moves(thr[t], r[t], t, code)
           /\ \A x \in Threads : x # t => Rests(thr[x], r[x])
<1> DEFINE u == At(thr, t, code)
<1>1. /\ SameTies(thr[t], u[t]) /\ u[t].code = Tail(code) /\ u[t].tasks = thr[t].tasks
      /\ \A x \in Threads : x # t => u[x] = thr[x]
  BY AtFields
<1>2. Sets(u, r, t, joins, waits)
  OBVIOUS
<1> HIDE DEF u
<1>3. /\ SameTies(u[t], r[t]) /\ r[t].code = u[t].code /\ r[t].tasks = u[t].tasks
      /\ r[t].joining = joins /\ r[t].waitingFork = waits
      /\ \A x \in Threads : x # t => r[x] = u[x]
  BY <1>2 DEF Sets
<1>4. SameTies(thr[t], r[t])
  BY <1>1, <1>3 DEF SameTies
<1>5. Moves(thr[t], r[t], t, code)
  BY <1>1, <1>3, <1>4 DEF Moves
<1>6. \A x \in Threads : x # t => Rests(thr[x], r[x])
  BY <1>1, <1>3, RestsAlike
<1> QED BY <1>5, <1>6

(* Delay, Yield, Wait, JoinWaits, and WaitFork and DisableFork.              *)
LEMMA SetKeeps ==
    ASSUME Parts, Held, NEW t, t = running, NEW code, Fetched(t, code),
           Continue \/ Suspend, created' = created,
           NEW joins \in BOOLEAN, NEW waits \in BOOLEAN,
           Sets(At(thr, t, code), thr', t, joins, waits),
           Head(code).op \notin {"fork", "detach"}, joins <=> Head(code).op = "join",
           joins => EndedChildren(t) = {}, waits => thr[t].detached # {}
    PROVE  Keeps
<1>1. /\ Moves(thr[t], thr'[t], t, code)
      /\ \A x \in Threads : x # t => Rests(thr[x], thr'[x])
  BY SetMoves
<1>2. /\ \A g \in {0, t} : Family(thr', created, g)
      /\ Owing(thr') /\ thr'[t].mem = "live"
      /\ ~ TaskForks /\ Waiting(thr) => Waiting(thr')
  BY <1>1, MovesOn
<1> QED BY <1>2, Settles

LEMMA DelayKeeps ==
    ASSUME Parts, Held, NEW t, t = running, running # 0,
           NEW code \in NextCode(t), Delay(t, code)
    PROVE  Keeps
<1> DEFINE u == At(thr, t, code)
<1>1. /\ Fetch(t, code) /\ Head(code).op = "delay" /\ Suspend /\ created' = created
      /\ thr' = WithScheduled(u, t, TRUE)
  BY DEF Delay, Marked, WithScheduled
<1>2. Fetched(t, code)
  BY <1>1, FetchFacts
<1>3. Typed(u) /\ ~ u[t].joining /\ ~ u[t].waitingFork /\ t \in Threads
  BY <1>2, AtFields DEF Fetched
<1> HIDE DEF u
<1>4. Sets(u, thr', t, FALSE, FALSE)
  BY <1>1, <1>3, FlagSet
<1> QED BY <1>1, <1>2, <1>4, SetKeeps DEF u

LEMMA YieldKeeps ==
    ASSUME Parts, Held, NEW t, t = running, running # 0,
           NEW code \in NextCode(t), Yield(t, code)
    PROVE  Keeps
<1> DEFINE u == At(thr, t, code)
<1>1. /\ Fetch(t, code) /\ Head(code).op = "yield" /\ Suspend /\ created' = created
      /\ thr' = WithScheduled(u, t, TRUE)
  BY DEF Yield, Marked, WithScheduled
<1>2. Fetched(t, code)
  BY <1>1, FetchFacts
<1>3. Typed(u) /\ ~ u[t].joining /\ ~ u[t].waitingFork /\ t \in Threads
  BY <1>2, AtFields DEF Fetched
<1> HIDE DEF u
<1>4. Sets(u, thr', t, FALSE, FALSE)
  BY <1>1, <1>3, FlagSet
<1> QED BY <1>1, <1>2, <1>4, SetKeeps DEF u

LEMMA WaitKeeps ==
    ASSUME Parts, Held, NEW t, t = running, running # 0,
           NEW code \in NextCode(t), Wait(t, code)
    PROVE  Keeps
<1> DEFINE u == At(thr, t, code)
<1>1. /\ Fetch(t, code) /\ Head(code).op = "wait" /\ Suspend /\ created' = created
      /\ thr' = WithWaitingEvent(u, t)
  BY DEF Wait, WithWaitingEvent
<1>2. Fetched(t, code)
  BY <1>1, FetchFacts
<1>3. Typed(u) /\ ~ u[t].joining /\ ~ u[t].waitingFork /\ t \in Threads
  BY <1>2, AtFields DEF Fetched
<1> HIDE DEF u
<1>4. Sets(u, thr', t, FALSE, FALSE)
  BY <1>1, <1>3, FlagSet
<1> QED BY <1>1, <1>2, <1>4, SetKeeps DEF u

LEMMA JoinWaitsKeeps ==
    ASSUME Parts, Held, NEW t, t = running, running # 0,
           NEW code \in NextCode(t), JoinWaits(t, code)
    PROVE  Keeps
<1> DEFINE u == At(thr, t, code)
<1>1. /\ Fetch(t, code) /\ Head(code).op = "join" /\ Suspend /\ created' = created
      /\ EndedChildren(t) = {} /\ thr' = WithJoining(u, t)
  BY DEF JoinWaits, WithJoining
<1>2. Fetched(t, code)
  BY <1>1, FetchFacts
<1>3. Typed(u) /\ ~ u[t].joining /\ ~ u[t].waitingFork /\ t \in Threads
  BY <1>2, AtFields DEF Fetched
<1> HIDE DEF u
<1>4. Sets(u, thr', t, TRUE, FALSE)
  BY <1>1, <1>3, FlagSet
<1> QED BY <1>1, <1>2, <1>4, SetKeeps DEF u

LEMMA WaitForkKeeps ==
    ASSUME Parts, Held, NEW t, t = running, running # 0,
           NEW code \in NextCode(t), WaitFork(t, code)
    PROVE  Keeps
<1> DEFINE u == At(thr, t, code)
<1>1. /\ Fetch(t, code) /\ Head(code).op = "waitfork" /\ created' = created
      /\ \/ thr' = u /\ Continue
         \/ thr[t].detached # {} /\ thr' = WithWaitingFork(u, t) /\ Suspend
  BY DEF WaitFork, WithWaitingFork
<1>2. Fetched(t, code)
  BY <1>1, FetchFacts
<1>3. Typed(u) /\ ~ u[t].joining /\ ~ u[t].waitingFork /\ t \in Threads
  BY <1>2, AtFields DEF Fetched
<1> HIDE DEF u
<1>4. CASE thr' = u /\ Continue
  <2>1. Sets(u, thr', t, FALSE, FALSE)
    BY <1>3, <1>4, FlagSet
  <2> QED BY <1>1, <1>2, <1>4, <2>1, SetKeeps DEF u
<1>5. CASE thr[t].detached # {} /\ thr' = WithWaitingFork(u, t) /\ Suspend
  <2>1. Sets(u, thr', t, FALSE, TRUE)
    BY <1>3, <1>5, FlagSet
  <2> QED BY <1>1, <1>2, <1>5, <2>1, SetKeeps DEF u
<1> QED BY <1>1, <1>4, <1>5

LEMMA EventKeeps ==
    ASSUME Parts, Held, NEW t, t = running, running # 0,
           NEW code \in NextCode(t), Event(t, code)
    PROVE  Keeps
<1> DEFINE u == At(thr, t, code)
           W == ToSet(waiters)
           Roused1(x) == [thr[x] EXCEPT !.waitingEvent = FALSE, !.scheduled = TRUE]
<1>1. /\ Fetch(t, code) /\ Head(code).op = "event" /\ Continue /\ created' = created
      /\ thr' = [x \in Threads |-> IF x \in W THEN Roused1(x) ELSE u[x]]
  BY DEF Event
<1>2. Fetched(t, code)
  BY <1>1, FetchFacts
<1>3. W = {x \in Threads : thr[x].waitingEvent}
  BY DEF Parts, Placed
<1>4. /\ t \in Threads /\ Typed(thr) /\ ~ thr[t].waitingEvent
  BY <1>2 DEF Fetched
<1>5. /\ Typed(u) /\ ~ u[t].joining /\ ~ u[t].waitingFork
      /\ \A x \in Threads : x # t => u[x] = thr[x]
  BY <1>2, AtFields
<1>6. thr'[t] = u[t]
  BY <1>1, <1>3, <1>4
<1>7. ASSUME NEW x \in Threads, x # t PROVE Rests(thr[x], thr'[x])
  <2>1. CASE x \in W
    <3>1. thr'[x] = Roused1(x) /\ thr[x].waitingEvent /\ thr[x] \in ThreadState
      BY <1>1, <1>3, <1>4, <2>1 DEF Typed
    <3>2. Rests(thr[x], Roused1(x))
      BY <3>1 DEF ThreadState, Rests, SameTies, SameWaits
    <3> QED BY <3>1, <3>2
  <2>2. CASE x \notin W
    <3>1. thr'[x] = thr[x]
      BY <1>1, <1>5, <1>7, <2>2
    <3> QED BY <3>1, RestsAlike
  <2> QED BY <2>1, <2>2
<1> HIDE DEF u
<1>8. Moves(thr[t], u[t], t, code)
  <2>1. Sets(u, u, t, FALSE, FALSE)
    BY <1>4, <1>5, FlagSet
  <2> QED BY <1>1, <1>2, <2>1, SetMoves DEF u
<1>9. /\ \A g \in {0, t} : Family(thr', created, g)
      /\ Owing(thr') /\ thr'[t].mem = "live"
      /\ ~ TaskForks /\ Waiting(thr) => Waiting(thr')
  <2>1. Moves(thr[t], thr'[t], t, code)
    BY <1>6, <1>8
  <2> QED BY <1>2, <1>7, <2>1, MovesOn
<1> QED BY <1>1, <1>2, <1>9, Settles

LEMMA BeginDisableKeeps ==
    ASSUME Parts, Held, ~ DisableDetached, NEW t, t = running, running # 0,
           NEW code \in NextCode(t), BeginDisable(t, code)
    PROVE  Keeps
<1> DEFINE u == At(thr, t, code)
           scope == Head(code).scope
<1>1. /\ Fetch(t, code) /\ Head(code).op = "disable" /\ created' = created
      /\ MayDisable(scope) /\ thr' = u /\ running' = running
      /\ disabling' = [scope |-> scope, by |-> t, self |-> FALSE]
  BY DEF BeginDisable
<1>2. Fetched(t, code)
  BY <1>1, FetchFacts
<1>3. /\ Typed(u) /\ ~ u[t].joining /\ ~ u[t].waitingFork /\ t \in Threads
      /\ SameTies(thr[t], u[t])
      /\ \A x \in Threads : x # t => u[x] = thr[x]
  BY <1>2, AtFields DEF Fetched
<1> HIDE DEF u
<1>4. /\ \A g \in {0, t} : Family(thr', created, g)
      /\ Owing(thr') /\ thr'[t].mem = "live"
      /\ ~ TaskForks /\ Waiting(thr) => Waiting(thr')
  <2>1. Sets(u, u, t, FALSE, FALSE)
    BY <1>3, FlagSet
  <2>2. Moves(thr[t], u[t], t, code)
    BY <1>1, <1>2, <2>1, SetMoves DEF u
  <2>3. \A x \in Threads : x # t => Rests(thr[x], u[x])
    BY <1>3, RestsAlike
  <2> QED BY <1>1, <1>2, <2>2, <2>3, MovesOn
<1>5. scope # "none"
  <2>1. Head(code) \in Opcodes
    BY <1>2 DEF Fetched
  <2>2. scope \in Scopes
    BY <1>1, <2>1, OpcodeScopes
  <2> QED BY <2>2 DEF Scopes
<1>6. ~ NotDisabling' /\ disabling.scope' = scope /\ disabling'.by = t
  BY <1>1, <1>5 DEF NotDisabling
<1>7. Forker' = 0
  BY <1>6 DEF Forker
<1>8. \A x \in Threads : SameTies(thr[x], thr'[x])
  BY <1>1, <1>3 DEF SameTies
<1>9. Disables'
  <2>1. ~ thr'[t].ended
    BY <1>2, <1>3, <1>8 DEF Fetched, SameTies
  <2>2. \A x \in InScope' : ~ thr'[x].isDetached
    <3>1. \A x \in Threads : thr[x].inScope /\ thr[x].scope = scope => ~ thr[x].isDetached
      BY <1>1 DEF MayDisable
    <3>2. \A x \in InScope' : x \in Threads /\ thr'[x].inScope /\ thr'[x].scope = scope
      BY <1>6 DEF InScope
    <3> QED BY <1>8, <3>1, <3>2 DEF SameTies
  <2> QED BY <1>1, <1>6, <2>1, <2>2 DEF Disables
<1>10. 0 \in {0, t}
  OBVIOUS
<1> QED BY <1>1, <1>4, <1>7, <1>9, <1>10 DEF Keeps, Held

-----------------------------------------------------------------------------
(* The scheduler. *)
LEMMA TiedRest ==
    ASSUME NEW s, NEW u, Typed(s), Owing(s),
           \A x \in Threads : SameTies(s[x], u[x]),
           \A x \in Threads : SameWaits(s[x], u[x])
    PROVE  Owing(u) /\ (Waiting(s) => Waiting(u))
<1>1. \A x \in Threads : u[x].ended = s[x].ended /\ u[x].children = s[x].children
                         /\ u[x].detached = s[x].detached
  BY DEF SameTies
<1>2. ASSUME NEW x \in Threads, ~ u[x].ended PROVE Owes(u[x], u[x].code)
  <2>1. Owes(s[x], s[x].code)
    BY <1>1, <1>2 DEF Owing
  <2>2. u[x].code = s[x].code /\ u[x].joining = s[x].joining
    BY DEF SameWaits
  <2> QED BY <1>1, <2>1, <2>2, OwesSame
<1>3. ASSUME Waiting(s), NEW x \in Threads, ~ u[x].ended PROVE Waits(u, x)
  <2>1. Waits(s, x)
    BY <1>1, <1>3 DEF Waiting
  <2> QED BY <1>1, <2>1, WaitsSame
<1> QED BY <1>2, <1>3 DEF Owing, Waiting

LEMMA IdleNotDisabling ==
    ASSUME Held, running = 0
    PROVE  NotDisabling /\ Forker = 0
BY DEF Held, Disables, Forker

LEMMA StartKeeps ==
    ASSUME Parts, Held, running = 0, NEW t \in Threads, thr[t].scheduled, Start(t),
           created' = created, disabling' = disabling
    PROVE  Keeps
<1>1. NotDisabling /\ Forker = 0 /\ Typed(thr) /\ running' = t
  BY IdleNotDisabling DEF Parts, Sound, Start
<1>2. Forker' = t /\ Disables' /\ t # 0
  BY <1>1 DEF Forker, NotDisabling, Disables, Threads
<1>3. /\ thr[t] \in ThreadState /\ Family(thr, created, 0) /\ Owing(thr)
      /\ thr \in [Threads -> ThreadState]
  BY <1>1 DEF Typed, Held
<1>4. \A x \in Threads : SameTies(thr[x], thr'[x]) /\ SameWaits(thr[x], thr'[x])
  <2> DEFINE y == [thr[t] EXCEPT !.scheduled = FALSE]
  <2>1. SameTies(thr[t], y) /\ SameWaits(thr[t], y)
    BY <1>3 DEF ThreadState, SameTies, SameWaits
  <2>2. thr' = [thr EXCEPT ![t] = y]
    BY DEF Start
  <2> HIDE DEF y
  <2>3. \A x \in Threads : thr'[x] = IF x = t THEN y ELSE thr[x]
    BY <1>3, <2>2
  <2>4. \A x \in Threads : SameTies(thr[x], thr[x]) /\ SameWaits(thr[x], thr[x])
    BY DEF SameTies, SameWaits
  <2> QED BY <2>1, <2>3, <2>4
<1>5. ASSUME NEW x \in Threads
      PROVE  /\ thr'[x].scheduled \/ thr'[x].waitingEvent => thr[x].mem = "live"
             /\ thr[x].mem = "live" /\ ~ Attended(thr[x])
                  => thr'[x].scheduled \/ thr'[x].waitingEvent \/ x = t
  <2>1. Memory(thr[x], x <= created, x = 0) /\ x # 0
    BY <1>3 DEF Family, Remembered, Threads
  <2>2. CASE x = t
    <3>1. thr[x].mem = "live"
      BY <2>1, <2>2 DEF Memory
    <3> QED BY <2>2, <3>1
  <2>3. CASE x # t
    <3>1. thr'[x] = thr[x]
      BY <1>3, <2>3 DEF Start
    <3> QED BY <2>1, <3>1 DEF Memory
  <2> QED BY <2>2, <2>3
<1>6. Family(thr', created, t)
  BY <1>1, <1>3, <1>4, <1>5, TiesFamily
<1>7. Owing(thr') /\ (Waiting(thr) => Waiting(thr'))
  BY <1>1, <1>3, <1>4, TiedRest
<1>8. thr'[t].mem = "live"
  <2>1. Memory(thr[t], t <= created, t = 0)
    BY <1>3 DEF Family, Remembered
  <2> QED BY <1>4, <2>1 DEF Memory, SameTies
<1> QED BY <1>2, <1>6, <1>7, <1>8 DEF Keeps, Held

LEMMA RunEventKeeps ==
    ASSUME Parts, Held, RunEvent
    PROVE  Keeps
<1>1. Placed(thr, active, <<>>, delayed, waiters)
  BY DEF Parts, RunEvent
<1>2. active # <<>>
  BY DEF RunEvent
<1>3. Head(Head(active)) \in Threads /\ thr[Head(Head(active))].scheduled
  BY <1>1, <1>2, PlacedHead
<1>4. /\ running = 0 /\ Start(Head(Head(active)))
      /\ created' = created /\ disabling' = disabling
  BY DEF RunEvent
<1> QED BY <1>3, <1>4, StartKeeps

LEMMA RunNextKeeps ==
    ASSUME Parts, Held, RunNext
    PROVE  Keeps
<1>1. Placed(thr, active, rest, delayed, waiters)
  BY DEF Parts
<1>2. /\ running = 0 /\ rest # <<>> /\ Start(Head(rest))
      /\ created' = created /\ disabling' = disabling
  BY DEF RunNext
<1>3. Head(rest) \in Threads /\ thr[Head(rest)].scheduled
  BY <1>1, <1>2, PlacedNext
<1> QED BY <1>2, <1>3, StartKeeps

LEMMA SameKeeps ==
    ASSUME Held, UNCHANGED <<thr, created, running, disabling>>
    PROVE  Keeps
<1>1. Forker' = Forker /\ (NotDisabling' <=> NotDisabling) /\ InScope' = InScope
  BY DEF Forker, NotDisabling, InScope
<1>2. Disables'
  BY <1>1 DEF Held, Disables
<1> QED BY <1>1, <1>2 DEF Held, Keeps

LEMMA AdvanceKeeps ==
    ASSUME Held, Advance
    PROVE  Keeps
<1>1. UNCHANGED <<thr, created, running, disabling>>
  BY DEF Advance
<1> QED BY <1>1, SameKeeps

LEMMA NowRuns ==
    ASSUME NEW s, Typed(s), NEW c, NEW f, NEW g, Family(s, c, f),
           f \in Threads /\ f # g => Attended(s[f])
    PROVE  Family(s, c, g)
<1>1. \A x \in Threads : SameTies(s[x], s[x])
  BY DEF SameTies
<1>2. ASSUME NEW x \in Threads
      PROVE  /\ s[x].scheduled \/ s[x].waitingEvent => s[x].mem = "live"
             /\ s[x].mem = "live" /\ ~ Attended(s[x])
                  => s[x].scheduled \/ s[x].waitingEvent \/ x = g
  <2>1. Memory(s[x], x <= c, x = f)
    BY DEF Family, Remembered
  <2> QED BY <2>1 DEF Memory
<1> QED BY <1>1, <1>2, TiesFamily

LEMMA ZombieKeeps ==
    ASSUME Parts, Held, NEW t \in Threads, Zombie(t)
    PROVE  Keeps
<1>1. /\ running = t /\ NotDisabling /\ thr[t].ended /\ running' = 0
      /\ disabling' = disabling /\ created' = created /\ Forker = t /\ Typed(thr)
  BY DEF Zombie, Suspend, Forker, Parts, Sound
<1>2. Forker' = 0 /\ Disables'
  BY <1>1 DEF Forker, NotDisabling, Disables
<1>3. /\ Family(thr, created, t) /\ Owing(thr)
      /\ Memory(thr[t], t <= created, TRUE)
      /\ thr[t] \in ThreadState /\ thr \in [Threads -> ThreadState]
  BY <1>1 DEF Held, Family, Remembered, Typed
<1>4. ~ thr[t].scheduled /\ ~ thr[t].waitingEvent
  <2>1. OneReason(thr[t], t = running)
    BY DEF Parts, Sound, Single
  <2> QED BY <1>1, <2>1 DEF OneReason
<1>5. thr' = IF thr[t].parent = 0 /\ thr[t].children = {}
             THEN [thr EXCEPT ![t].mem = "deleted"] ELSE thr
  BY DEF Zombie
<1>6. CASE thr[t].parent # 0
  <2>1. thr' = thr
    BY <1>5, <1>6
  <2>2. Family(thr, created, 0)
    BY <1>1, <1>3, <1>6, NowRuns DEF Attended
  <2> QED BY <1>1, <1>2, <1>3, <2>1, <2>2 DEF Keeps, Held
<1>7. CASE thr[t].parent = 0
  <2> DEFINE y == [thr[t] EXCEPT !.mem = "deleted"]
  <2>1. thr[t].children = {} /\ ~ thr[t].inScope
    BY <1>1, <1>3, <1>7 DEF Memory, Attended
  <2>2. thr' = [thr EXCEPT ![t] = y]
    BY <1>5, <1>7, <2>1
  <2>3. /\ y.mem = "deleted" /\ y.parent = thr[t].parent /\ y.ended = thr[t].ended
        /\ y.inScope = thr[t].inScope /\ y.isDetached = thr[t].isDetached
        /\ y.children = thr[t].children /\ y.detached = thr[t].detached
        /\ y.scheduled = thr[t].scheduled /\ y.waitingEvent = thr[t].waitingEvent
        /\ SameWaits(thr[t], y)
    BY <1>3 DEF ThreadState, SameWaits
  <2> HIDE DEF y
  <2>4. thr'[t] = y /\ \A x \in Threads : x # t => thr'[x] = thr[x]
    BY <1>3, <2>2
  <2>5. ASSUME NEW x \in Threads PROVE Memory(thr'[x], x <= created, x = 0)
    <3>1. CASE x = t
      <4>1. t <= created
        BY <1>1 DEF Parts, Sound, Born
      <4>2. Memory(y, t <= created, FALSE)
        BY <1>1, <1>3, <1>4, <1>7, <2>1, <2>3, <4>1 DEF Memory, Attended
      <4>3. ~ (t = 0)
        BY DEF Threads
      <4> QED BY <2>4, <3>1, <4>2, <4>3 DEF Memory
    <3>2. CASE x # t
      <4>1. Memory(thr[x], x <= created, x = t)
        BY <1>3 DEF Family, Remembered
      <4> QED BY <2>4, <3>2, <4>1 DEF Memory
    <3> QED BY <3>1, <3>2
  <2>6. ASSUME NEW x \in Threads PROVE Up(thr', x) /\ Down(thr', x)
    <3>1. Up(thr, x) /\ Down(thr, x) /\ thr[x] \in ThreadState
      BY <1>1, <1>3 DEF Family, Linked, Typed
    <3>2. /\ thr'[x].parent = thr[x].parent /\ thr'[x].isDetached = thr[x].isDetached
          /\ thr'[x].children = thr[x].children /\ thr'[x].detached = thr[x].detached
          /\ thr'[x].ended = thr[x].ended
      BY <2>3, <2>4
    <3>3. Up(thr', x)
      <4> SUFFICES ASSUME thr[x].parent # 0 PROVE Up(thr', x)
        BY <3>2 DEF Up
      <4>1. Attended(thr[thr[x].parent])
        BY <3>1 DEF Up
      <4>2. thr[x].parent # t
        BY <1>1, <1>7, <4>1 DEF Attended
      <4>3. thr[x].parent \in Threads
        BY <3>1, BoundsAssumption DEF ThreadState, Threads
      <4>4. thr'[thr[x].parent] = thr[thr[x].parent]
        BY <2>4, <4>2, <4>3
      <4> QED BY <3>1, <3>2, <4>4 DEF Up
    <3>4. Down(thr', x)
      <4>1. \A k \in Threads : thr'[k].parent = thr[k].parent
                               /\ thr'[k].isDetached = thr[k].isDetached
        BY <2>3, <2>4
      <4>2. thr[x].children \subseteq Threads /\ thr[x].detached \subseteq Threads
        BY <3>1 DEF ThreadState
      <4> QED BY <3>1, <3>2, <4>1, <4>2 DEF Down, Attended
    <3> QED BY <3>3, <3>4
  <2>7. Family(thr', created, 0)
    BY <2>5, <2>6 DEF Family, Remembered, Linked
  <2>8. \A x \in Threads : /\ SameWaits(thr[x], thr'[x])
                           /\ thr'[x].ended = thr[x].ended
                           /\ thr'[x].children = thr[x].children
                           /\ thr'[x].detached = thr[x].detached
    <3>1. \A x \in Threads : SameWaits(thr[x], thr[x])
      BY DEF SameWaits
    <3> QED BY <2>3, <2>4, <3>1
  <2>9. Owing(thr')
    <3> SUFFICES ASSUME NEW x \in Threads, ~ thr'[x].ended PROVE Owes(thr'[x], thr'[x].code)
      BY DEF Owing
    <3>1. Owes(thr[x], thr[x].code)
      BY <1>3, <2>8 DEF Owing
    <3> QED BY <2>8, <3>1, OwesSame DEF SameWaits
  <2>10. Waiting(thr) => Waiting(thr')
    <3> SUFFICES ASSUME Waiting(thr), NEW x \in Threads, ~ thr'[x].ended PROVE Waits(thr', x)
      BY DEF Waiting
    <3>1. Waits(thr, x)
      BY <2>8 DEF Waiting
    <3> QED BY <1>1, <2>8, <3>1, WaitsSame
  <2> QED BY <1>1, <1>2, <2>7, <2>9, <2>10 DEF Keeps, Held
<1> QED BY <1>6, <1>7

LEMMA DisableDoneKeeps ==
    ASSUME Parts, Held, DisableDone
    PROVE  Keeps
<1>1. /\ ~ NotDisabling /\ thr' = thr /\ created' = created
      /\ disabling' = [scope |-> "none", by |-> 0, self |-> FALSE]
      /\ running' = IF disabling.self THEN 0 ELSE running
  BY DEF DisableDone
<1>2. Forker = 0 /\ Typed(thr) /\ Family(thr, created, 0) /\ Owing(thr)
  BY <1>1 DEF Forker, Parts, Sound, Held
<1>3. NotDisabling' /\ Forker' = running' /\ Disables'
  BY <1>1 DEF NotDisabling, Forker, Disables
<1>4. running' # 0 => thr'[running'].mem = "live"
  <2> SUFFICES ASSUME ~ disabling.self, running # 0 PROVE thr[running].mem = "live"
    BY <1>1
  <2>1. running \in 0..created /\ created \in 0..MaxThreads
    BY DEF Parts, Sound, Born
  <2>2. running \in Threads /\ running <= created
    BY <2>1, BoundsAssumption DEF Threads
  <2>3. ~ thr[running].ended
    BY <1>1 DEF Held, Disables
  <2>4. Memory(thr[running], running <= created, running = 0) /\ thr[running] \in ThreadState
    BY <1>2, <2>2 DEF Family, Remembered, Typed
  <2> QED BY <2>2, <2>3, <2>4 DEF Memory, ThreadState
<1>5. Family(thr, created, running')
  <2>1. 0 \notin Threads
    BY DEF Threads
  <2> QED BY <1>2, <2>1, NowRuns
<1> QED BY <1>1, <1>2, <1>3, <1>4, <1>5 DEF Keeps, Held

-----------------------------------------------------------------------------
(* A new child c of t, in scope y.                                         *)
Bears(u, v, t, c, y) ==
    /\ v[c] = NewThread(y, t)
    /\ \A x \in Threads : x # t /\ x # c => v[x] = u[x]
    /\ v[t].mem = u[t].mem /\ v[t].parent = u[t].parent /\ v[t].ended = u[t].ended
    /\ v[t].inScope = u[t].inScope /\ v[t].isDetached = u[t].isDetached
    /\ v[t].children = u[t].children \cup {c} /\ v[t].detached = u[t].detached
    /\ v[t].tasks = IF y = "task" THEN u[t].tasks \cup {c} ELSE u[t].tasks
    /\ v[t].joining = u[t].joining /\ v[t].waitingFork = u[t].waitingFork
    /\ v[t].code = u[t].code
    /\ v[t].scheduled = u[t].scheduled /\ v[t].waitingEvent = u[t].waitingEvent

LEMMA ChildBorn ==
    ASSUME NEW u, Typed(u), NEW t \in Threads, NEW c \in Threads, c # t, NEW y
    PROVE  Bears(u, WithChild(u, t, c, y), t, c, y)
<1>1. u[t] \in ThreadState /\ u \in [Threads -> ThreadState]
  BY DEF Typed
<1> DEFINE z == [u[t] EXCEPT !.children = @ \cup {c},
                             !.tasks = IF y = "task" THEN @ \cup {c} ELSE @]
           v == WithChild(u, t, c, y)
<1>2. /\ v[c] = NewThread(y, t) /\ v[t] = z
      /\ \A x \in Threads : x # t /\ x # c => v[x] = u[x]
  BY <1>1 DEF WithChild
<1>3. /\ z.mem = u[t].mem /\ z.parent = u[t].parent /\ z.ended = u[t].ended
      /\ z.inScope = u[t].inScope /\ z.isDetached = u[t].isDetached
      /\ z.children = u[t].children \cup {c} /\ z.detached = u[t].detached
      /\ z.tasks = IF y = "task" THEN u[t].tasks \cup {c} ELSE u[t].tasks
      /\ z.joining = u[t].joining /\ z.waitingFork = u[t].waitingFork
      /\ z.code = u[t].code
      /\ z.scheduled = u[t].scheduled /\ z.waitingEvent = u[t].waitingEvent
  BY <1>1 DEF ThreadState
<1> HIDE DEF z, v
<1>4. Bears(u, v, t, c, y)
  BY <1>2, <1>3 DEF Bears
<1> QED BY <1>4 DEF v

LEMMA NewbornFields ==
    ASSUME NEW y, NEW t
    PROVE  LET x == NewThread(y, t) IN
           /\ x.mem = "live" /\ x.parent = t /\ ~ x.ended /\ ~ x.isDetached
           /\ x.children = {} /\ x.detached = {} /\ x.tasks = {}
           /\ ~ x.joining /\ ~ x.waitingFork /\ x.code = <<>>
BY DEF NewThread, Unused

LEMMA ForkChildKeeps ==
    ASSUME Parts, Held, NEW t, t = running, running # 0,
           NEW code \in NextCode(t), ForkChild(t, code)
    PROVE  Keeps
<1> DEFINE u == At(thr, t, code)
           c == created + 1
           y == Head(code).scope
<1>1. /\ Fetch(t, code) /\ Head(code).op = "fork" /\ Continue /\ created' = c
      /\ thr' = WithChild(u, t, c, y)
  BY DEF ForkChild, WithChild
<1>2. Fetched(t, code)
  BY <1>1, FetchFacts
<1>3. c <= MaxThreads
  BY <1>1, OpenedAt DEF Opened
<1>4. /\ t \in Threads /\ Typed(thr) /\ Family(thr, created, t) /\ Owing(thr)
      /\ created \in 0..MaxThreads /\ t <= created
      /\ ~ thr[t].ended /\ thr[t].mem = "live"
      /\ code \in Seq(Opcodes) /\ code # <<>> /\ Closed(code) /\ Head(code) \in Opcodes
      /\ Cardinality(thr[t].children) + Forks(code) = Collected(code)
      /\ ~ TaskForks /\ Waiting(thr) =>
            /\ thr[t].tasks \subseteq thr[t].children
            /\ Detaches(code) => thr[t].tasks = {} /\ Fork("task") \notin ToSet(code)
  BY <1>2 DEF Fetched
<1>5. c \in Threads /\ c # t
  BY <1>3, <1>4, BoundsAssumption DEF Threads
<1>6. /\ Typed(u) /\ SameTies(thr[t], u[t]) /\ u[t].code = Tail(code)
      /\ u[t].tasks = thr[t].tasks /\ ~ u[t].joining /\ ~ u[t].waitingFork
      /\ ~ u[t].scheduled /\ ~ u[t].waitingEvent
      /\ \A x \in Threads : x # t => u[x] = thr[x]
  BY <1>2, AtFields
<1> HIDE DEF u
<1>7. Bears(u, thr', t, c, y)
  BY <1>1, <1>4, <1>5, <1>6, ChildBorn
<1>8. /\ thr'[c].mem = "live" /\ thr'[c].parent = t /\ ~ thr'[c].ended
      /\ ~ thr'[c].isDetached
      /\ thr'[c].children = {} /\ thr'[c].detached = {} /\ thr'[c].tasks = {}
      /\ ~ thr'[c].joining /\ ~ thr'[c].waitingFork /\ thr'[c].code = <<>>
  <2>1. thr'[c] = NewThread(y, t)
    BY <1>7 DEF Bears
  <2> QED BY <2>1, NewbornFields
<1>9. /\ thr'[t].mem = "live" /\ ~ thr'[t].ended /\ thr'[t].ended = thr[t].ended
      /\ thr'[t].parent = thr[t].parent /\ thr'[t].isDetached = thr[t].isDetached
      /\ thr'[t].inScope = thr[t].inScope
      /\ thr'[t].children = thr[t].children \cup {c} /\ thr'[t].detached = thr[t].detached
      /\ thr'[t].tasks = IF y = "task" THEN thr[t].tasks \cup {c} ELSE thr[t].tasks
      /\ ~ thr'[t].joining /\ ~ thr'[t].waitingFork /\ thr'[t].code = Tail(code)
      /\ ~ thr'[t].scheduled /\ ~ thr'[t].waitingEvent
  BY <1>4, <1>6, <1>7 DEF Bears, SameTies
<1>10. \A x \in Threads : x # t /\ x # c => thr'[x] = thr[x]
  BY <1>6, <1>7 DEF Bears
<1>11. \A x \in Threads : x # c => /\ thr'[x].parent = thr[x].parent
                                   /\ thr'[x].isDetached = thr[x].isDetached
                                   /\ thr'[x].ended = thr[x].ended
  BY <1>4, <1>9, <1>10
<1>12. /\ thr[c].parent = 0 /\ thr[c].mem = "none"
  <2>1. Untouched(thr[c])
    BY <1>4, <1>5 DEF Parts, Sound, Born
  <2>2. Memory(thr[c], c <= created, c = t) /\ ~ (c <= created)
    BY <1>4, <1>5 DEF Family, Remembered
  <2> QED BY <2>1, <2>2 DEF Untouched, Memory
<1>13. ASSUME NEW x \in Threads
       PROVE  /\ thr[x] \in ThreadState /\ Memory(thr[x], x <= created, x = t)
              /\ Up(thr, x) /\ Down(thr, x)
              /\ thr[x].children \subseteq Threads /\ thr[x].detached \subseteq Threads
              /\ c \notin thr[x].children
              /\ thr[x].parent # 0 => thr[x].parent \in Threads
  <2>1. thr[x] \in ThreadState /\ Memory(thr[x], x <= created, x = t)
        /\ Up(thr, x) /\ Down(thr, x)
    BY <1>4 DEF Typed, Family, Remembered, Linked
  <2>2. \A k \in thr[x].children : k <= created
    BY DEF Parts, Sound, Born
  <2> QED BY <1>4, <1>5, <2>1, <2>2, BoundsAssumption DEF ThreadState, Threads
<1> HIDE DEF y
<1>14. ASSUME NEW x \in Threads PROVE Memory(thr'[x], x <= c, x = t)
  <2>1. CASE x = c
    <3>1. (x <= c) = TRUE
      BY <1>4, <2>1
    <3>2. thr'[x].parent # 0
      BY <1>8, <2>1, <1>4 DEF Threads
    <3> HIDE DEF c
    <3> QED BY <1>8, <2>1, <3>1, <3>2 DEF Memory, Attended
  <2>2. CASE x = t
    <3>1. (x <= c) = TRUE
      BY <1>4, <2>2 DEF Threads
    <3> HIDE DEF c
    <3> QED BY <1>9, <2>2, <3>1 DEF Memory, Attended
  <2>3. CASE x # c /\ x # t
    <3>1. (x <= c) = (x <= created)
      BY <1>4, <2>3 DEF Threads
    <3> QED BY <1>10, <1>13, <2>3, <3>1
  <2> QED BY <2>1, <2>2, <2>3
<1> HIDE DEF c
<1>15. ASSUME NEW x \in Threads PROVE Up(thr', x)
  <2>1. CASE x = c
    BY <1>8, <1>9, <2>1 DEF Up, Attended
  <2>2. CASE x # c
    <3> DEFINE p == thr[x].parent
    <3> SUFFICES ASSUME p # 0 PROVE Up(thr', x)
      BY <1>11, <2>2 DEF Up
    <3>1. /\ thr[p].mem = "live" /\ Attended(thr[p]) /\ p \in Threads
          /\ x \in IF thr[x].isDetached THEN thr[p].detached ELSE thr[p].children
      BY <1>13 DEF Up
    <3>2. p # c
      BY <1>12, <3>1
    <3>3. thr'[x].parent = p /\ thr'[x].isDetached = thr[x].isDetached
      BY <1>11, <2>2
    <3> HIDE DEF p
    <3>4. CASE p = t
      <4>1. x \in IF thr[x].isDetached THEN thr'[t].detached ELSE thr'[t].children
        BY <1>9, <3>1, <3>4
      <4> QED BY <1>9, <3>3, <3>4, <4>1 DEF Up, Attended
    <3>5. CASE p # t
      <4>1. thr'[p] = thr[p]
        BY <1>10, <3>1, <3>2, <3>5
      <4> QED BY <3>1, <3>3, <4>1 DEF Up
    <3> QED BY <3>4, <3>5
  <2> QED BY <2>1, <2>2
<1>16. ASSUME NEW x \in Threads PROVE Down(thr', x)
  <2>1. CASE x = c
    BY <1>8, <2>1 DEF Down
  <2>2. CASE x # c
    <3> SUFFICES ASSUME Attended(thr'[x]) PROVE Down(thr', x)
      BY DEF Down
    <3>1. Attended(thr[x])
      BY <1>11, <2>2 DEF Attended
    <3>2. /\ \A k \in thr[x].children : k \in Threads /\ thr[k].parent = x /\ ~ thr[k].isDetached
          /\ \A k \in thr[x].detached : k \in Threads /\ thr[k].parent = x /\ thr[k].isDetached
      BY <1>13, <3>1 DEF Down
    <3>3. \A k \in thr[x].children \cup thr[x].detached : k # c
      BY <1>12, <3>2 DEF Threads
    <3>4. /\ \A k \in thr[x].children : thr'[k].parent = x /\ ~ thr'[k].isDetached
          /\ \A k \in thr[x].detached : thr'[k].parent = x /\ thr'[k].isDetached
      BY <1>11, <3>2, <3>3
    <3>5. CASE x = t
      BY <1>8, <1>9, <3>4, <3>5 DEF Down
    <3>6. CASE x # t
      BY <1>10, <2>2, <3>4, <3>6 DEF Down
    <3> QED BY <3>5, <3>6
  <2> QED BY <2>1, <2>2
<1>17. Family(thr', c, t)
  BY <1>14, <1>15, <1>16 DEF Family, Remembered, Linked
<1>18. /\ Forks(Tail(code)) \in Nat /\ Collected(Tail(code)) \in Nat
       /\ Forks(code) = Forks(Tail(code)) + 1
       /\ Collected(code) = Collected(Tail(code)) + 0
       /\ Detaches(Tail(code)) => Detaches(code)
  BY <1>1, <1>4, CollectTail
<1>19. ASSUME NEW x \in Threads, ~ thr'[x].ended PROVE Owes(thr'[x], thr'[x].code)
  <2>1. CASE x = c
    <3>1. Cardinality(thr'[x].children) = 0
      BY <1>8, <2>1, FS_EmptySet
    <3>2. (IF thr'[x].joining THEN 1 ELSE 0) = 0
      BY <1>8, <2>1
    <3> QED BY <1>8, <2>1, <3>1, <3>2, EmptyCollected DEF Owes
  <2>2. CASE x = t
    <3>1. Cardinality(thr[t].children \cup {c}) = Cardinality(thr[t].children) + 1
          /\ Cardinality(thr[t].children) \in Nat
      <4>1. IsFiniteSet(thr[t].children) /\ Cardinality(thr[t].children) \in Nat
        BY <1>4, Kids
      <4>2. c \notin thr[t].children
        BY <1>4, <1>13
      <4>3. Cardinality(thr[t].children \cup {c})
              = IF c \in thr[t].children THEN Cardinality(thr[t].children)
                ELSE Cardinality(thr[t].children) + 1
        BY <4>1, FS_AddElement
      <4> QED BY <4>1, <4>2, <4>3
    <3>2. (IF thr'[x].joining THEN 1 ELSE 0) = 0
      BY <1>9, <2>2
    <3>3. Cardinality(thr'[t].children) + Forks(Tail(code)) = Collected(Tail(code)) + 0
      BY <1>4, <1>9, <1>18, <3>1
    <3> QED BY <1>9, <2>2, <3>2, <3>3 DEF Owes
  <2>3. CASE x # c /\ x # t
    <3>1. thr'[x] = thr[x]
      BY <1>10, <2>3
    <3> QED BY <1>4, <1>19, <3>1 DEF Owing
  <2> QED BY <2>1, <2>2, <2>3
<1>20. ASSUME ~ TaskForks, Waiting(thr), NEW x \in Threads, ~ thr'[x].ended
       PROVE  Waits(thr', x)
  <2>1. CASE x = c
    <3>1. ~ Detaches(<<>>) /\ Fork("task") \notin ToSet(<<>>)
      BY EmptyCollected DEF ToSet
    <3> QED BY <1>8, <2>1, <3>1 DEF Waits
  <2>2. CASE x = t
    <3>1. ASSUME Detaches(Tail(code))
          PROVE  thr'[t].tasks = {} /\ Fork("task") \notin ToSet(Tail(code))
      <4>1. thr[t].tasks = {} /\ Fork("task") \notin ToSet(code)
        BY <1>4, <1>18, <1>20, <3>1
      <4>2. ToSet(Tail(code)) \subseteq ToSet(code) /\ Head(code) \in ToSet(code)
        BY <1>4, ToSetHeadTail
      <4>3. Head(code) = Fork(y)
        BY <1>1, <1>4, OpcodeCounts DEF y
      <4>4. y # "task"
        BY <4>1, <4>2, <4>3
      <4> QED BY <1>9, <4>1, <4>2, <4>4
    <3>2. thr'[t].tasks \subseteq thr'[t].children
      BY <1>4, <1>9, <1>20
    <3> QED BY <1>9, <2>2, <3>1, <3>2 DEF Waits, Detaches
  <2>3. CASE x # c /\ x # t
    <3>1. thr'[x] = thr[x] /\ Waits(thr, x)
      BY <1>10, <1>20, <2>3 DEF Waiting
    <3>2. \A k \in thr[x].children : thr'[k].ended = thr[k].ended
      BY <1>11, <1>13
    <3>3. SameWaits(thr[x], thr'[x])
      BY <3>1 DEF SameWaits
    <3> QED BY <3>1, <3>2, <3>3, WaitsAlike
  <2> QED BY <2>1, <2>2, <2>3
<1>21. Typed(thr')
  <2>1. Sound(thr', running', created')
    BY ForkChildStep DEF Parts
  <2> QED BY <2>1 DEF Sound
<1>22. \A g \in {0, t} : Family(thr', created', g)
  <2>1. Attended(thr'[t])
    BY <1>9 DEF Attended
  <2> QED BY <1>1, <1>17, <1>21, <2>1, NowRuns
<1> QED BY <1>1, <1>2, <1>9, <1>19, <1>20, <1>22, Settles DEF Owing, Waiting

-----------------------------------------------------------------------------
(* The opcodes that bury. *)
LEMMA CodeCounts ==
    ASSUME NEW c \in Codes
    PROVE  Forks(c) \in Nat /\ Collected(c) \in Nat
<1>1. c \in Seq(Opcodes) /\ Closed(c)
  BY CodeShape, CodeClosed
<1>2. CASE c = <<>>
  BY <1>2, EmptyCollected
<1>3. CASE c # <<>>
  BY <1>1, <1>3, CollectTail
<1> QED BY <1>2, <1>3

LEMMA TypedCounts ==
    ASSUME NEW s, Typed(s)
    PROVE  \A x \in Threads : Forks(s[x].code) \in Nat /\ Collected(s[x].code) \in Nat
<1> SUFFICES ASSUME NEW x \in Threads
             PROVE  Forks(s[x].code) \in Nat /\ Collected(s[x].code) \in Nat
  OBVIOUS
<1>1. s[x].code \in Codes
  BY DEF Typed, ThreadState
<1> QED BY <1>1, CodeCounts

(* A thread that stays keeps its families, whoever runs.                   *)
LEMMA BuriesBoth ==
    ASSUME NEW s, NEW u, Typed(s), Typed(u), NEW c, NEW t \in Threads, Family(s, c, t),
           NEW E, NEW O, NEW R, Buried(s, u, E, O, R), Fits(s, c, E, O, R),
           t \notin E \cup O, ~ s[t].ended, NEW g \in {0, t}
    PROVE  Family(u, c, g) /\ u[t].mem = s[t].mem /\ ~ u[t].ended
<1>1. Family(u, c, t)
  BY Buries
<1>2. Kept(s[t], u[t], E, R)
  BY DEF Buried
<1>3. u[t].mem = s[t].mem /\ ~ u[t].ended
  BY <1>2 DEF Kept
<1>4. Family(u, c, 0)
  BY <1>1, <1>3, NowRuns DEF Attended
<1> QED BY <1>1, <1>3, <1>4

(* t has one task less, c, to join. *)
Untasked(u, t, c) == [u EXCEPT ![t].tasks = @ \ {c}]
Untasks(u, v, t, c) ==
    /\ Typed(v) /\ \A x \in Threads : x # t => v[x] = u[x]
    /\ SameTies(u[t], v[t]) /\ v[t].tasks = u[t].tasks \ {c}
    /\ v[t].joining = u[t].joining /\ v[t].waitingFork = u[t].waitingFork
    /\ v[t].code = u[t].code
    /\ v[t].scheduled = u[t].scheduled /\ v[t].waitingEvent = u[t].waitingEvent

LEMMA WithoutTask ==
    ASSUME NEW u, Typed(u), NEW t \in Threads, NEW c
    PROVE  Untasks(u, Untasked(u, t, c), t, c)
<1>1. u[t] \in ThreadState /\ u \in [Threads -> ThreadState]
  BY DEF Typed
<1> DEFINE y == [u[t] EXCEPT !.tasks = @ \ {c}]
           v == Untasked(u, t, c)
<1>2. /\ y \in ThreadState /\ SameTies(u[t], y) /\ y.tasks = u[t].tasks \ {c}
      /\ y.joining = u[t].joining /\ y.waitingFork = u[t].waitingFork
      /\ y.code = u[t].code /\ y.ended = u[t].ended
      /\ y.scheduled = u[t].scheduled /\ y.waitingEvent = u[t].waitingEvent
  BY <1>1 DEF ThreadState, SameTies
<1>3. v = [u EXCEPT ![t] = y]
  BY DEF Untasked
<1> HIDE DEF y, v
<1>4. v[t] = y /\ \A x \in Threads : x # t => v[x] = u[x]
  BY <1>1, <1>3
<1>5. Typed(v)
  <2>1. v \in [Threads -> ThreadState]
    BY <1>1, <1>2, <1>3
  <2>2. \A x \in Threads : v[x].ended => v[x].code = <<>>
    BY <1>2, <1>4 DEF Typed
  <2> QED BY <2>1, <2>2 DEF Typed
<1>6. Untasks(u, v, t, c)
  BY <1>2, <1>4, <1>5 DEF Untasks
<1> QED BY <1>6 DEF v

LEMMA JoinEndedKeeps ==
    ASSUME Parts, Held, NEW t, t = running, running # 0,
           NEW code \in NextCode(t), JoinEnded(t, code)
    PROVE  Keeps
<1> DEFINE u == At(thr, t, code)
<1>1. /\ Fetch(t, code) /\ Head(code).op = "join" /\ Continue /\ created' = created
  BY DEF JoinEnded
<1>2. PICK c \in EndedChildren(t) : thr' = Joined(u, t, c)
  BY DEF JoinEnded
<1> DEFINE v == Untasked(u, t, c)
<1>3. Fetched(t, code)
  BY <1>1, FetchFacts
<1>4. /\ t \in Threads /\ Typed(thr) /\ Family(thr, created, t) /\ Owing(thr)
      /\ ~ thr[t].ended /\ thr[t].mem = "live"
      /\ code \in Seq(Opcodes) /\ code # <<>> /\ Closed(code)
      /\ Cardinality(thr[t].children) + Forks(code) = Collected(code) /\ Forks(code) = 0
      /\ ~ thr[t].scheduled /\ ~ thr[t].waitingEvent
      /\ ~ TaskForks /\ Waiting(thr) =>
            /\ thr[t].tasks \subseteq thr[t].children
            /\ Detaches(code) => thr[t].tasks = {} /\ Fork("task") \notin ToSet(code)
  BY <1>1, <1>3 DEF Fetched
<1>5. /\ Typed(u) /\ SameTies(thr[t], u[t]) /\ u[t].code = Tail(code)
      /\ u[t].tasks = thr[t].tasks /\ ~ u[t].joining /\ ~ u[t].waitingFork
      /\ ~ u[t].scheduled /\ ~ u[t].waitingEvent
      /\ \A x \in Threads : x # t => u[x] = thr[x]
  BY <1>3, AtFields
<1>6. /\ c \in Threads /\ c \in thr[t].children /\ thr[c].ended /\ c # t /\ c <= created
      /\ thr[c].parent = t
  <2>1. c \in thr[t].children /\ thr[c].ended
    BY DEF EndedChildren
  <2>2. c \in Threads
    BY <1>4, <2>1, Kids
  <2>3. c <= created
    BY <1>4, <2>1 DEF Parts, Sound, Born
  <2>4. Down(thr, t)
    BY <1>4 DEF Family, Linked
  <2> QED BY <1>4, <2>1, <2>2, <2>3, <2>4 DEF Down, Attended
<1> HIDE DEF u
<1>7. /\ Typed(v) /\ \A x \in Threads : x # t => v[x] = u[x]
      /\ SameTies(u[t], v[t]) /\ v[t].tasks = u[t].tasks \ {c}
      /\ v[t].joining = u[t].joining /\ v[t].waitingFork = u[t].waitingFork
      /\ v[t].code = u[t].code
      /\ v[t].scheduled = u[t].scheduled /\ v[t].waitingEvent = u[t].waitingEvent
  <2>1. Untasks(u, v, t, c)
    BY <1>4, <1>5, WithoutTask
  <2> HIDE DEF v
  <2> QED BY <2>1 DEF Untasks
<1>8. thr' = Reap(v, c)
  BY <1>2 DEF Joined, Untasked
<1> HIDE DEF v
<1>9. /\ SameTies(thr[t], v[t]) /\ v[t].tasks = thr[t].tasks \ {c} /\ v[t].code = Tail(code)
      /\ ~ v[t].joining /\ ~ v[t].waitingFork /\ ~ v[t].scheduled /\ ~ v[t].waitingEvent
      /\ \A x \in Threads : x # t => v[x] = thr[x]
  BY <1>5, <1>7 DEF SameTies
<1>10. \A x \in Threads : SameTies(thr[x], v[x])
  BY <1>9 DEF SameTies
<1>11. Family(v, created, t)
  <2>1. ASSUME NEW x \in Threads
        PROVE  /\ v[x].scheduled \/ v[x].waitingEvent => thr[x].mem = "live"
               /\ thr[x].mem = "live" /\ ~ Attended(thr[x])
                    => v[x].scheduled \/ v[x].waitingEvent \/ x = t
    <3>1. CASE x = t
      BY <1>4, <1>9, <3>1
    <3>2. CASE x # t
      <4>1. Memory(thr[x], x <= created, x = t) /\ v[x] = thr[x]
        BY <1>4, <1>9, <3>2 DEF Family, Remembered
      <4> QED BY <4>1 DEF Memory
    <3> QED BY <3>1, <3>2
  <2> QED BY <1>4, <1>10, <2>1, TiesFamily
<1>12. /\ v[c].ended /\ v[c].parent = t /\ ~ v[t].ended /\ v[t].mem = "live"
       /\ v[t].children = thr[t].children
  BY <1>4, <1>6, <1>10 DEF SameTies
<1>13. Buried(v, thr', {c}, {}, {c}) /\ Fits(v, created, {c}, {}, {c})
  BY <1>6, <1>7, <1>8, <1>11, <1>12, ReapBuries
<1>14. Typed(thr')
  <2>1. Parts'
    BY JoinEndedStep
  <2> QED BY <2>1 DEF Parts, Sound
<1>15. \A g \in {0, t} : Family(thr', created, g) /\ thr'[t].mem = "live"
  BY <1>4, <1>6, <1>7, <1>11, <1>12, <1>13, <1>14, BuriesBoth
<1>16. /\ Forks(code) = Forks(Tail(code)) /\ Forks(Tail(code)) \in Nat
       /\ Collected(code) = Collected(Tail(code)) + 1 /\ Collected(Tail(code)) \in Nat
       /\ Detaches(Tail(code)) => Detaches(code)
  BY <1>1, <1>4, CollectTail
<1>17. Owing(thr')
  <2>1. OwingBut(v, t, c)
    <3>1. ASSUME NEW x \in Threads, ~ v[x].ended, x # t PROVE Owes(v[x], v[x].code)
      BY <1>4, <1>9, <3>1 DEF Owing
    <3>2. /\ c \in v[t].children /\ ~ v[t].joining
          /\ Cardinality(v[t].children) + Forks(v[t].code) = Collected(v[t].code) + 1
      BY <1>4, <1>6, <1>9, <1>12, <1>16
    <3> QED BY <1>4, <3>1, <3>2 DEF OwingBut
  <2>2. \A x \in Threads : Forks(v[x].code) \in Nat /\ Collected(v[x].code) \in Nat
    BY <1>7, TypedCounts
  <2>3. \A x \in {c} : t # 0 /\ x = c
    BY <1>4 DEF Threads
  <2>4. c \in {c}
    OBVIOUS
  <2> QED BY <1>7, <1>11, <1>13, <2>1, <2>2, <2>3, <2>4, BuriedOwes
<1>18. ASSUME ~ TaskForks, Waiting(thr) PROVE Waiting(thr')
  <2>1. ASSUME NEW x \in Threads \ ({c} \cup {}), ~ v[x].ended PROVE Spared(v, x, {c}, {})
    <3>1. CASE x = t
      <4>1. Detaches(Tail(code)) => thr[t].tasks = {} /\ Fork("task") \notin ToSet(Tail(code))
        <5>1. ToSet(Tail(code)) \subseteq ToSet(code)
          BY <1>4, ToSetHeadTail
        <5> QED BY <1>4, <1>16, <1>18, <5>1
      <4>2. v[t].tasks \subseteq v[t].children \ {c}
        BY <1>4, <1>9, <1>12, <1>18
      <4> QED BY <1>9, <3>1, <4>1, <4>2 DEF Spared
    <3>2. CASE x # t
      <4>1. v[x] = thr[x] /\ Waits(thr, x)
        BY <1>9, <1>18, <2>1, <3>2 DEF Waiting
      <4>2. \A k \in thr[x].children : v[k].ended = thr[k].ended
        BY <1>4, <1>10, Kids DEF SameTies
      <4>3. Waits(v, x)
        BY <4>1, <4>2, WaitsAlike DEF SameWaits
      <4>4. \A k \in {c} : v[k].parent # x
        BY <1>12, <3>2
      <4> QED BY <1>7, <1>11, <2>1, <4>3, <4>4, WaitsSpared
    <3> QED BY <3>1, <3>2
  <2> QED BY <1>7, <1>13, <2>1, BuriedWaits
<1> QED BY <1>1, <1>3, <1>15, <1>17, <1>18, Settles

(* The threads s when the children of t that run on were detached, those in *)
(* E, which have ended, were not.                                          *)
Split(s, t, E) ==
    [x \in Threads |->
        IF x \in s[t].children \ E THEN [s[x] EXCEPT !.isDetached = TRUE]
        ELSE IF x = t THEN [s[x] EXCEPT !.children = E,
                                        !.detached = @ \cup (s[t].children \ E)]
        ELSE s[x]]

SplitOne(x, y, i, t, C, E, own) ==
    /\ y.mem = x.mem /\ y.parent = x.parent /\ y.ended = x.ended /\ y.inScope = x.inScope
    /\ y.scope = x.scope /\ SameWaits(x, y)
    /\ y.scheduled = x.scheduled /\ y.waitingEvent = x.waitingEvent
    /\ y.isDetached = IF i \in C \ E THEN TRUE ELSE x.isDetached
    /\ y.children = IF i = t THEN E ELSE x.children
    /\ y.detached = IF i = t THEN own \cup (C \ E) ELSE x.detached

LEMMA SplitEffect ==
    ASSUME NEW s, Typed(s), NEW t \in Threads, NEW E \in SUBSET s[t].children,
           t \notin s[t].children
    PROVE  /\ Typed(Split(s, t, E))
           /\ \A x \in Threads :
                 SplitOne(s[x], Split(s, t, E)[x], x, t, s[t].children, E, s[t].detached)
<1> DEFINE C == s[t].children
           own == s[t].detached
           v == Split(s, t, E)
           W == own \cup (C \ E)
<1>1. \A x \in Threads : s[x] \in ThreadState
  BY DEF Typed
<1>2. E \in SUBSET Threads /\ W \in SUBSET Threads
  BY <1>1 DEF ThreadState
<1>3. ASSUME NEW x \in Threads
      PROVE  v[x] \in ThreadState /\ SplitOne(s[x], v[x], x, t, C, E, own)
  <2>1. CASE x \in C \ E
    <3> DEFINE y == [s[x] EXCEPT !.isDetached = TRUE]
    <3>0. s[x] \in ThreadState
      BY <1>1
    <3>1. y \in ThreadState
      BY <3>0, ZenonT(30) DEF ThreadState
    <3>2. /\ y.mem = s[x].mem /\ y.parent = s[x].parent /\ y.ended = s[x].ended
          /\ y.inScope = s[x].inScope /\ y.scope = s[x].scope /\ SameWaits(s[x], y)
          /\ y.scheduled = s[x].scheduled /\ y.waitingEvent = s[x].waitingEvent
          /\ y.isDetached = TRUE /\ y.children = s[x].children /\ y.detached = s[x].detached
      BY <3>0 DEF ThreadState, SameWaits
    <3>3. v[x] = y /\ x # t
      BY <2>1 DEF Split
    <3> HIDE DEF y, v, W, C, own
    <3> QED BY <2>1, <3>1, <3>2, <3>3 DEF SplitOne
  <2>2. CASE x = t
    <3> DEFINE y == [s[t] EXCEPT !.children = E, !.detached = W]
    <3>0. s[t] \in ThreadState
      BY <1>1
    <3>1. y \in ThreadState
      <4> HIDE DEF W, v, C, own
      <4> QED BY <3>0, <1>2 DEF ThreadState
    <3>2. /\ y.mem = s[t].mem /\ y.parent = s[t].parent /\ y.ended = s[t].ended
          /\ y.inScope = s[t].inScope /\ y.scope = s[t].scope /\ SameWaits(s[t], y)
          /\ y.scheduled = s[t].scheduled /\ y.waitingEvent = s[t].waitingEvent
          /\ y.isDetached = s[t].isDetached /\ y.children = E /\ y.detached = W
      <4> HIDE DEF W
      <4> QED BY <3>0 DEF ThreadState, SameWaits
    <3>3. v[t] = y
      BY DEF Split
    <3>4. t \notin C \ E
      OBVIOUS
    <3> HIDE DEF y, v, C, own
    <3>5. SplitOne(s[t], y, t, t, C, E, own)
      BY <3>2, <3>4 DEF SplitOne
    <3> QED BY <2>2, <3>1, <3>3, <3>5
  <2>3. CASE x \notin C \ E /\ x # t
    <3>1. v[x] = s[x]
      BY <2>3 DEF Split
    <3> HIDE DEF v, C, own
    <3>2. SameWaits(s[x], s[x])
      BY DEF SameWaits
    <3>3. SplitOne(s[x], s[x], x, t, C, E, own)
      BY <2>3, <3>2 DEF SplitOne
    <3> QED BY <1>1, <3>1, <3>3
  <2> QED BY <2>1, <2>2, <2>3
<1>4. Typed(v)
  <2>1. v = [x \in Threads |-> v[x]]
    BY DEF Split
  <2> HIDE DEF v
  <2>2. v \in [Threads -> ThreadState]
    BY <1>3, <2>1
  <2>3. \A x \in Threads : v[x].ended => v[x].code = <<>>
    BY <1>3 DEF Typed, SplitOne, SameWaits
  <2> QED BY <2>2, <2>3 DEF Typed
<1> QED BY <1>3, <1>4

(* A thread taken out of its family. *)
LEMMA UntiedFields ==
    ASSUME NEW x \in ThreadState
    PROVE  LET y == Freed([x EXCEPT !.parent = 0, !.inScope = FALSE, !.code = <<>>]) IN
           /\ y.parent = 0 /\ ~ y.inScope /\ y.code = <<>>
           /\ y.ended = x.ended /\ y.children = x.children
           /\ y.scheduled = x.scheduled /\ y.waitingEvent = x.waitingEvent
           /\ y.mem = IF x.scheduled \/ x.waitingEvent THEN "live" ELSE "deleted"
<1> DEFINE z == [x EXCEPT !.parent = 0, !.inScope = FALSE, !.code = <<>>]
           w == IF z.scheduled \/ z.waitingEvent THEN "live" ELSE "deleted"
<1>1. /\ z.parent = 0 /\ ~ z.inScope /\ z.code = <<>>
      /\ z.ended = x.ended /\ z.children = x.children
      /\ z.scheduled = x.scheduled /\ z.waitingEvent = x.waitingEvent
  BY DEF ThreadState
<1>2. z \in ThreadState
  <2>1. 0 \in 0..MaxThreads
    BY BoundsAssumption
  <2> QED BY <2>1, Untied, EmptyCode
<1>3. Freed(z) = [z EXCEPT !.mem = w]
  BY DEF Freed
<1> HIDE DEF z
<1>4. /\ Freed(z).parent = z.parent /\ Freed(z).inScope = z.inScope
      /\ Freed(z).code = z.code
      /\ Freed(z).ended = z.ended /\ Freed(z).children = z.children
      /\ Freed(z).scheduled = z.scheduled /\ Freed(z).waitingEvent = z.waitingEvent
      /\ Freed(z).mem = w
  BY <1>2, <1>3 DEF ThreadState
<1>5. w = IF x.scheduled \/ x.waitingEvent THEN "live" ELSE "deleted"
  BY <1>1
<1> HIDE DEF w
<1> QED BY <1>1, <1>4, <1>5 DEF z

LEMMA DetachedEffect ==
    ASSUME NEW s, Typed(s), NEW t \in Threads, t \notin s[t].children,
           NEW E, E = {x \in s[t].children : s[x].ended},
           \A x \in E : s[x].children = {},
           \A x \in Threads : Attended(s[x]) /\ x # t =>
              s[x].children \cap E = {} /\ s[x].detached \cap E = {},
           s[t].detached \cap E = {}
    PROVE  Buried(Split(s, t, E), Detached(s, t), E, {}, E)
<1> DEFINE C == s[t].children
           v == Split(s, t, E)
           gone(x) == [s[x] EXCEPT !.parent = 0, !.inScope = FALSE, !.code = <<>>]
           m == [x \in Threads |->
                   IF x \in E THEN Freed(gone(x))
                   ELSE IF x \in C THEN [s[x] EXCEPT !.isDetached = TRUE]
                   ELSE IF x = t
                   THEN [s[x] EXCEPT !.children = {}, !.detached = @ \cup (C \ E)]
                   ELSE s[x]]
           u == Detached(s, t)
           own == s[t].detached
<1>1. u = Released(m, E)
  BY DEF Detached
<1>2. ASSUME NEW x \in Threads
      PROVE  s[x] \in ThreadState /\ v[x] \in ThreadState
             /\ SplitOne(s[x], v[x], x, t, C, E, own)
  <2>1. E \in SUBSET C
    OBVIOUS
  <2>2. Typed(v) /\ SplitOne(s[x], v[x], x, t, C, E, own)
    BY <2>1, SplitEffect
  <2> QED BY <2>2 DEF Typed
<1>3. 0 \notin E /\ E \subseteq Threads /\ t \notin E
  BY <1>2 DEF ThreadState, Threads
<1>4. ASSUME NEW x \in Threads
      PROVE  u[x] = IF m[x].isDetached /\ m[x].parent \in E
                    THEN [m[x] EXCEPT !.parent = 0, !.isDetached = FALSE] ELSE m[x]
  BY <1>1 DEF Released
<1> HIDE DEF u
<1>5. ASSUME NEW x \in E PROVE Gone(v[x], u[x])
  <2>1. x \in Threads /\ s[x].ended /\ x \in C /\ x # t /\ s[x].children = {}
    BY <1>3
  <2> DEFINE y == gone(x)
  <2>2. s[x] \in ThreadState
    BY <1>2, <2>1
  <2>3. /\ Freed(y).parent = 0 /\ ~ Freed(y).inScope /\ Freed(y).code = <<>>
        /\ Freed(y).ended = s[x].ended /\ Freed(y).children = s[x].children
        /\ Freed(y).scheduled = s[x].scheduled /\ Freed(y).waitingEvent = s[x].waitingEvent
        /\ Freed(y).mem = IF s[x].scheduled \/ s[x].waitingEvent THEN "live" ELSE "deleted"
    BY <2>2, UntiedFields
  <2>4. m[x] = Freed(y)
    BY <2>1
  <2> HIDE DEF m, y, v
  <2>5. u[x] = Freed(y)
    BY <1>3, <1>4, <2>1, <2>3, <2>4
  <2>6. v[x].scheduled = s[x].scheduled /\ v[x].waitingEvent = s[x].waitingEvent
    BY <1>2, <2>1 DEF SplitOne
  <2> QED BY <2>1, <2>3, <2>5, <2>6 DEF Gone
<1>6. ASSUME NEW x \in Threads, x \notin E, x # t PROVE Kept(v[x], u[x], E, E)
  <2>1. m[x] = v[x]
    BY <1>6 DEF Split
  <2> HIDE DEF m, v, gone
  <2>2. u[x] = IF v[x].isDetached /\ v[x].parent \in E
               THEN [v[x] EXCEPT !.parent = 0, !.isDetached = FALSE] ELSE v[x]
    BY <1>4, <2>1
  <2> DEFINE y == v[x]
             z == [y EXCEPT !.parent = 0, !.isDetached = FALSE]
  <2>3. y \in ThreadState
    BY <1>2 DEF v
  <2>4. Attended(y) => y.children \cap E = {} /\ y.detached \cap E = {}
    <3>1. SplitOne(s[x], v[x], x, t, C, E, own)
      BY <1>2 DEF v
    <3>2. /\ y.ended = s[x].ended /\ y.parent = s[x].parent /\ y.children = s[x].children
          /\ y.detached = s[x].detached
      BY <1>6, <3>1 DEF SplitOne
    <3> QED BY <1>6, <3>2 DEF Attended
  <2>5. u[x] = IF y.isDetached /\ y.parent \in E THEN z ELSE y
    BY <2>2
  <2> HIDE DEF y
  <2>6. /\ z.parent = 0 /\ ~ z.isDetached /\ z.mem = y.mem /\ z.ended = y.ended
        /\ z.inScope = y.inScope /\ z.code = y.code /\ z.scheduled = y.scheduled
        /\ z.scope = y.scope /\ z.waitingEvent = y.waitingEvent /\ z.joining = y.joining
        /\ z.waitingFork = y.waitingFork /\ z.tasks = y.tasks
        /\ z.children = y.children /\ z.detached = y.detached
    BY <2>3 DEF ThreadState
  <2>7. Attended(y) => y.children = y.children \ E /\ y.detached = y.detached \ E
    BY <2>4
  <2> HIDE DEF z
  <2>8. Kept(y, u[x], E, E)
    BY <2>5, <2>6, <2>7 DEF Kept
  <2> QED BY <2>8 DEF y
<1>7. Kept(v[t], u[t], E, E)
  <2> DEFINE W == own \cup (C \ E)
             y == [s[t] EXCEPT !.children = {}, !.detached = W]
             a == v[t]
  <2>1. m[t] = y
    BY <1>3
  <2>2. s[t] \in ThreadState /\ SplitOne(s[t], a, t, t, C, E, own)
    BY <1>2
  <2>3. /\ a.mem = s[t].mem /\ a.parent = s[t].parent /\ a.ended = s[t].ended
        /\ a.inScope = s[t].inScope /\ a.scope = s[t].scope /\ SameWaits(s[t], a)
        /\ a.scheduled = s[t].scheduled /\ a.waitingEvent = s[t].waitingEvent
        /\ a.isDetached = s[t].isDetached /\ a.children = E /\ a.detached = W
    BY <2>2 DEF SplitOne
  <2> HIDE DEF W, v, m, a
  <2>4. /\ y.mem = s[t].mem /\ y.parent = s[t].parent /\ y.ended = s[t].ended
        /\ y.inScope = s[t].inScope /\ y.scope = s[t].scope /\ SameWaits(s[t], y)
        /\ y.scheduled = s[t].scheduled /\ y.waitingEvent = s[t].waitingEvent
        /\ y.isDetached = s[t].isDetached /\ y.children = {} /\ y.detached = W
        /\ y \in [mem : {"none", "live", "deleted"}, scope : Scopes, inScope : BOOLEAN,
                  parent : 0..MaxThreads, children : SUBSET Threads, detached : {W},
                  tasks : SUBSET Threads, joining : BOOLEAN, isDetached : BOOLEAN,
                  waitingFork : BOOLEAN, ended : BOOLEAN, waitingEvent : BOOLEAN,
                  scheduled : BOOLEAN, code : Codes]
    BY <2>2 DEF ThreadState, SameWaits
  <2> DEFINE z == [y EXCEPT !.parent = 0, !.isDetached = FALSE]
  <2>5. u[t] = IF y.isDetached /\ y.parent \in E THEN z ELSE y
    BY <1>4, <2>1
  <2>6. /\ z.parent = 0 /\ ~ z.isDetached /\ z.mem = y.mem /\ z.ended = y.ended
        /\ z.inScope = y.inScope /\ z.code = y.code /\ z.scheduled = y.scheduled
        /\ z.scope = y.scope /\ z.waitingEvent = y.waitingEvent /\ z.joining = y.joining
        /\ z.waitingFork = y.waitingFork /\ z.tasks = y.tasks
        /\ z.children = y.children /\ z.detached = y.detached
    <3> HIDE DEF y
    <3> QED BY <2>4
  <2>7. W \ E = W /\ E \ E = {}
    BY <1>3 DEF W
  <2> HIDE DEF y, z
  <2>8. Kept(a, u[t], E, E)
    <3>1. /\ u[t].mem = y.mem /\ u[t].ended = y.ended
          /\ u[t].inScope = y.inScope /\ u[t].code = y.code /\ u[t].scheduled = y.scheduled
          /\ u[t].scope = y.scope /\ u[t].waitingEvent = y.waitingEvent
          /\ u[t].joining = y.joining
          /\ u[t].waitingFork = y.waitingFork /\ u[t].tasks = y.tasks
          /\ u[t].children = y.children /\ u[t].detached = y.detached
      BY <2>5, <2>6
    <3>2. IF y.isDetached /\ y.parent \in E THEN u[t].parent = 0 /\ ~ u[t].isDetached
          ELSE u[t].parent = y.parent /\ u[t].isDetached = y.isDetached
      BY <2>5, <2>6
    <3> QED BY <2>3, <2>4, <2>7, <3>1, <3>2 DEF Kept, SameWaits
  <2> QED BY <2>8 DEF a
<1>8. \A x \in Threads : x \notin E => Kept(v[x], u[x], E, E)
  BY <1>6, <1>7
<1> HIDE DEF v
<1>9. Buried(v, u, E, {}, E)
  BY <1>5, <1>8 DEF Buried
<1> QED BY <1>9 DEF u, v

EndedOf(s, t, E) == E = {x \in s[t].children : s[x].ended}

LEMMA SplitFamily ==
    ASSUME NEW s, Typed(s), NEW t \in Threads, NEW c, Family(s, c, t), ~ s[t].ended,
           t \notin s[t].children, NEW E, EndedOf(s, t, E)
    PROVE  LET v == Split(s, t, E) IN
           /\ Family(v, c, t) /\ Fits(v, c, E, {}, E)
           /\ \A x \in E : x \in Threads /\ v[x].parent = t
           /\ Buried(v, Detached(s, t), E, {}, E)
<1> DEFINE C == s[t].children
           own == s[t].detached
           v == Split(s, t, E)
<1>0. E = {x \in s[t].children : s[x].ended}
  BY DEF EndedOf
<1>1. ASSUME NEW x \in Threads
      PROVE  /\ s[x] \in ThreadState /\ SplitOne(s[x], v[x], x, t, C, E, own)
             /\ Memory(s[x], x <= c, x = t) /\ Up(s, x) /\ Down(s, x)
             /\ s[x].children \subseteq Threads /\ s[x].detached \subseteq Threads
             /\ s[x].parent # 0 => s[x].parent \in Threads
  <2>1. E \in SUBSET C
    BY <1>0
  <2>2. SplitOne(s[x], v[x], x, t, C, E, own)
    BY <2>1, SplitEffect
  <2>3. s[x] \in ThreadState
    BY DEF Typed
  <2>4. s[x].parent # 0 => s[x].parent \in Threads
    BY <2>3, BoundsAssumption DEF ThreadState, Threads
  <2>5. s[x].children \subseteq Threads /\ s[x].detached \subseteq Threads
    BY <2>3 DEF ThreadState
  <2> QED BY <2>2, <2>3, <2>4, <2>5 DEF Family, Remembered, Linked
<1>2. /\ \A k \in C : k \in Threads /\ s[k].parent = t /\ ~ s[k].isDetached
      /\ \A k \in own : k \in Threads /\ s[k].parent = t /\ s[k].isDetached
  BY <1>1 DEF Down, Attended
<1>3. E \subseteq C /\ (\A k \in E : s[k].ended) /\ (\A k \in C \ E : ~ s[k].ended)
  BY <1>0
<1>4. \A k \in E : k \in Threads /\ s[k].children = {} /\ k # t /\ k <= c
  <2> SUFFICES ASSUME NEW k \in E PROVE k \in Threads /\ s[k].children = {} /\ k # t /\ k <= c
    OBVIOUS
  <2>1. k \in Threads /\ s[k].ended /\ s[k].parent = t
    BY <1>2, <1>3
  <2>2. Memory(s[k], k <= c, k = t)
    BY <1>1, <2>1
  <2>3. s[k].children = {} /\ k <= c
    BY <2>1, <2>2 DEF Memory, Threads
  <2> QED BY <1>3, <2>1, <2>3
<1>5. Buried(v, Detached(s, t), E, {}, E)
  <2>1. \A x \in E : s[x].children = {}
    BY <1>4
  <2>2. \A x \in Threads : Attended(s[x]) /\ x # t =>
              s[x].children \cap E = {} /\ s[x].detached \cap E = {}
    <3> SUFFICES ASSUME NEW x \in Threads, Attended(s[x]), x # t
                 PROVE  s[x].children \cap E = {} /\ s[x].detached \cap E = {}
      OBVIOUS
    <3>1. /\ \A k \in s[x].children : s[k].parent = x
          /\ \A k \in s[x].detached : s[k].parent = x
      BY <1>1 DEF Down
    <3>2. \A k \in E : s[k].parent = t
      BY <1>2, <1>3
    <3> QED BY <3>1, <3>2
  <2>3. s[t].detached \cap E = {}
    BY <1>2, <1>3
  <2> QED BY <1>0, <2>1, <2>2, <2>3, DetachedEffect
<1> HIDE DEF v, C, own
<1>6. ASSUME NEW x \in Threads PROVE Memory(v[x], x <= c, x = t)
  <2>1. SplitOne(s[x], v[x], x, t, C, E, own) /\ Memory(s[x], x <= c, x = t)
    BY <1>1
  <2>2. v[x].isDetached => s[x].isDetached \/ ~ s[x].ended
    BY <1>3, <2>1 DEF SplitOne
  <2>3. v[x].ended => v[x].children = {}
    BY <2>1 DEF SplitOne, Memory
  <2>4. /\ v[x].mem = s[x].mem /\ v[x].parent = s[x].parent /\ v[x].ended = s[x].ended
        /\ v[x].inScope = s[x].inScope
        /\ v[x].scheduled = s[x].scheduled /\ v[x].waitingEvent = s[x].waitingEvent
    BY <2>1 DEF SplitOne
  <2> QED BY <2>1, <2>2, <2>3, <2>4 DEF Memory, Attended
<1>7. ASSUME NEW x \in Threads PROVE Up(v, x)
  <2> DEFINE p == s[x].parent
  <2>1. /\ v[x].parent = p
        /\ v[x].isDetached = IF x \in C \ E THEN TRUE ELSE s[x].isDetached
    BY <1>1 DEF SplitOne
  <2> SUFFICES ASSUME p # 0 PROVE Up(v, x)
    BY <2>1 DEF Up
  <2>2. /\ s[p].mem = "live" /\ Attended(s[p]) /\ p \in Threads
        /\ x \in IF s[x].isDetached THEN s[p].detached ELSE s[p].children
    BY <1>1 DEF Up
  <2>3. /\ v[p].mem = s[p].mem /\ v[p].ended = s[p].ended /\ v[p].parent = s[p].parent
        /\ v[p].children = IF p = t THEN E ELSE s[p].children
        /\ v[p].detached = IF p = t THEN own \cup (C \ E) ELSE s[p].detached
    BY <1>1, <2>2 DEF SplitOne
  <2> HIDE DEF p
  <2>4. x \in IF v[x].isDetached THEN v[p].detached ELSE v[p].children
    <3>1. CASE p = t
      BY <1>2, <1>3, <2>1, <2>2, <2>3, <3>1 DEF C, own
    <3>2. CASE p # t
      <4>1. x \notin C
        BY <1>2, <3>2 DEF p
      <4> QED BY <2>1, <2>2, <2>3, <3>2, <4>1
    <3> QED BY <3>1, <3>2
  <2> QED BY <2>1, <2>2, <2>3, <2>4 DEF Up, Attended
<1>8. ASSUME NEW x \in Threads PROVE Down(v, x)
  <2> SUFFICES ASSUME Attended(v[x])
               PROVE  /\ \A k \in v[x].children : v[k].parent = x /\ ~ v[k].isDetached
                      /\ \A k \in v[x].detached : v[k].parent = x /\ v[k].isDetached
    BY DEF Down
  <2>1. /\ v[x].ended = s[x].ended /\ v[x].parent = s[x].parent
        /\ v[x].children = IF x = t THEN E ELSE s[x].children
        /\ v[x].detached = IF x = t THEN own \cup (C \ E) ELSE s[x].detached
    BY <1>1 DEF SplitOne
  <2>2. /\ \A k \in s[x].children : k \in Threads /\ s[k].parent = x /\ ~ s[k].isDetached
        /\ \A k \in s[x].detached : k \in Threads /\ s[k].parent = x /\ s[k].isDetached
    BY <1>1, <2>1 DEF Down, Attended
  <2>3. \A k \in Threads :
            /\ v[k].parent = s[k].parent
            /\ v[k].isDetached = IF k \in C \ E THEN TRUE ELSE s[k].isDetached
    BY <1>1 DEF SplitOne
  <2>4. CASE x = t
    <3>1. v[x].children = E /\ v[x].detached = own \cup (C \ E)
      BY <2>1, <2>4
    <3>2. ASSUME NEW k \in E PROVE v[k].parent = t /\ ~ v[k].isDetached
      <4>1. k \in Threads /\ k \in C /\ s[k].parent = t /\ ~ s[k].isDetached
        BY <1>2, <1>3
      <4> QED BY <2>3, <4>1
    <3>3. ASSUME NEW k \in own PROVE v[k].parent = t /\ v[k].isDetached
      <4>1. k \in Threads /\ s[k].parent = t /\ s[k].isDetached
        BY <1>2
      <4> QED BY <2>3, <4>1
    <3>4. ASSUME NEW k \in C \ E PROVE v[k].parent = t /\ v[k].isDetached
      <4>1. k \in Threads /\ s[k].parent = t
        BY <1>2
      <4> QED BY <2>3, <4>1
    <3> QED BY <2>4, <3>1, <3>2, <3>3, <3>4
  <2>5. CASE x # t
    <3>1. \A k \in s[x].children \cup s[x].detached : k \notin C
      BY <1>2, <2>2, <2>5
    <3> QED BY <2>1, <2>2, <2>3, <2>5, <3>1
  <2> QED BY <2>4, <2>5
<1>9. Family(v, c, t)
  BY <1>6, <1>7, <1>8 DEF Family, Remembered, Linked
<1>10. \A x \in E : x \in Threads /\ v[x].parent = t
  <2> SUFFICES ASSUME NEW x \in E PROVE x \in Threads /\ v[x].parent = t
    OBVIOUS
  <2>1. x \in Threads /\ s[x].parent = t
    BY <1>2, <1>3
  <2>2. SplitOne(s[x], v[x], x, t, C, E, own)
    BY <1>1, <2>1
  <2> QED BY <2>1, <2>2 DEF SplitOne
<1>11. Fits(v, c, E, {}, E)
  <2>1. ASSUME NEW x \in Threads, v[x].parent \in E, ~ v[x].isDetached PROVE FALSE
    <3> DEFINE p == v[x].parent
    <3>1. p \in Threads /\ s[p].children = {} /\ p # t
      BY <1>4, <2>1
    <3>2. Up(v, x) /\ p # 0
      BY <1>7, <3>1 DEF Threads
    <3>3. x \in v[p].children
      BY <2>1, <3>2 DEF Up
    <3> HIDE DEF p
    <3>4. v[p].children = s[p].children
      BY <1>1, <3>1 DEF SplitOne
    <3> QED BY <3>1, <3>3, <3>4
  <2> QED BY <1>4, <2>1 DEF Fits
<1> QED BY <1>5, <1>9, <1>10, <1>11 DEF v

LEMMA JoinDetachKeeps ==
    ASSUME Parts, Held, NEW t, t = running, running # 0,
           NEW code \in NextCode(t), JoinDetach(t, code)
    PROVE  Keeps
<1> DEFINE u == At(thr, t, code)
           E == {x \in u[t].children : u[x].ended}
           v == Split(u, t, E)
<1>1. /\ Fetch(t, code) /\ Head(code).op = "detach" /\ Continue /\ created' = created
      /\ thr' = Detached(u, t)
  BY DEF JoinDetach
<1>2. Fetched(t, code)
  BY <1>1, FetchFacts
<1>3. /\ t \in Threads /\ Typed(thr) /\ Family(thr, created, t) /\ Owing(thr)
      /\ ~ thr[t].ended /\ thr[t].mem = "live"
      /\ ~ thr[t].scheduled /\ ~ thr[t].waitingEvent
      /\ code \in Seq(Opcodes) /\ code # <<>> /\ Closed(code)
      /\ ~ TaskForks /\ Waiting(thr) => (Detaches(code) => thr[t].tasks = {})
  BY <1>2 DEF Fetched
<1>4. /\ Typed(u) /\ SameTies(thr[t], u[t]) /\ u[t].code = Tail(code)
      /\ u[t].tasks = thr[t].tasks /\ ~ u[t].joining /\ ~ u[t].waitingFork
      /\ ~ u[t].scheduled /\ ~ u[t].waitingEvent
      /\ \A x \in Threads : x # t => u[x] = thr[x]
  BY <1>2, AtFields
<1>5. Tail(code) = <<>> /\ Detaches(code)
  <2>1. 1 \in DOMAIN code /\ code[1] = Head(code)
    BY <1>3
  <2> QED BY <1>1, <1>3, <2>1, CollectTail DEF Detaches
<1> HIDE DEF u
<1>6. \A x \in Threads : SameTies(thr[x], u[x])
  BY <1>4 DEF SameTies
<1>7. Family(u, created, t)
  <2>1. ASSUME NEW x \in Threads
        PROVE  /\ u[x].scheduled \/ u[x].waitingEvent => thr[x].mem = "live"
               /\ thr[x].mem = "live" /\ ~ Attended(thr[x])
                    => u[x].scheduled \/ u[x].waitingEvent \/ x = t
    <3>1. CASE x = t
      BY <1>3, <1>4, <3>1
    <3>2. CASE x # t
      <4>1. Memory(thr[x], x <= created, x = t) /\ u[x] = thr[x]
        BY <1>3, <1>4, <3>2 DEF Family, Remembered
      <4> QED BY <4>1 DEF Memory
    <3> QED BY <3>1, <3>2
  <2> QED BY <1>3, <1>6, <2>1, TiesFamily
<1>8. ~ u[t].ended /\ u[t].mem = "live" /\ u[t].children = thr[t].children
      /\ t \notin u[t].children
  <2>1. \A c \in thr[t].children : c > t
    BY <1>3 DEF Parts, Sound, Kin
  <2>2. t \notin thr[t].children
    BY <1>3, <2>1 DEF Threads
  <2> QED BY <1>3, <1>4, <2>2 DEF SameTies
<1>21. EndedOf(u, t, E)
  BY DEF EndedOf
<1> HIDE DEF E, v
<1>9. /\ Family(v, created, t) /\ Fits(v, created, E, {}, E)
      /\ \A x \in E : x \in Threads /\ v[x].parent = t
      /\ Buried(v, thr', E, {}, E)
  BY <1>1, <1>3, <1>4, <1>7, <1>8, <1>21, SplitFamily DEF v
<1>10. /\ Typed(v)
       /\ \A x \in Threads :
             SplitOne(u[x], v[x], x, t, u[t].children, E, u[t].detached)
  <2>1. E \in SUBSET u[t].children
    BY <1>21 DEF EndedOf
  <2> QED BY <1>3, <1>4, <1>8, <2>1, SplitEffect DEF v
<1>11. t \notin E
  BY <1>8, <1>21 DEF EndedOf
<1>12. /\ ~ v[t].ended /\ v[t].ended = thr[t].ended /\ v[t].mem = "live" /\ v[t].children = E /\ v[t].code = <<>>
       /\ v[t].tasks = thr[t].tasks /\ ~ v[t].joining /\ ~ v[t].waitingFork
  <2>1. SplitOne(u[t], v[t], t, t, u[t].children, E, u[t].detached)
    BY <1>3, <1>10
  <2> QED BY <1>4, <1>5, <1>8, <2>1 DEF SplitOne, SameWaits, SameTies
<1>13. ASSUME NEW x \in Threads, x # t
       PROVE  /\ v[x].ended = thr[x].ended /\ v[x].children = thr[x].children
              /\ v[x].detached = thr[x].detached /\ SameWaits(thr[x], v[x])
  <2>1. SplitOne(u[x], v[x], x, t, u[t].children, E, u[t].detached) /\ u[x] = thr[x]
    BY <1>4, <1>10, <1>13
  <2> QED BY <1>13, <2>1 DEF SplitOne
<1>14. Typed(thr')
  <2>1. Parts'
    BY JoinDetachStep
  <2> QED BY <2>1 DEF Parts, Sound
<1>15. \A g \in {0, t} : Family(thr', created, g) /\ thr'[t].mem = "live"
  BY <1>3, <1>9, <1>10, <1>11, <1>12, <1>14, BuriesBoth
<1>16. ASSUME NEW x \in Threads, ~ v[x].ended, x # t
       PROVE  v[x].children \cap E = {}
  <2>1. Down(v, x)
    BY <1>9 DEF Family, Linked
  <2>2. \A k \in v[x].children : v[k].parent = x
    BY <1>16, <2>1 DEF Down, Attended
  <2> QED BY <1>9, <1>16, <2>2
<1>17. ASSUME NEW x \in Threads, ~ thr'[x].ended PROVE Owes(thr'[x], thr'[x].code)
  <2>1. x \notin E
    BY <1>9, <1>17 DEF Buried, Gone
  <2>2. Kept(v[x], thr'[x], E, E)
    BY <1>9, <2>1 DEF Buried
  <2>3. /\ ~ v[x].ended /\ thr'[x].joining = v[x].joining /\ thr'[x].code = v[x].code
        /\ thr'[x].children = v[x].children \ E
    BY <1>17, <2>2 DEF Kept, Attended
  <2>4. CASE x = t
    <3>1. thr'[t].children = {} /\ thr'[t].code = <<>>
      BY <1>12, <2>3, <2>4
    <3>2. Cardinality(thr'[t].children) = 0
      BY <3>1, FS_EmptySet
    <3>3. (IF thr'[t].joining THEN 1 ELSE 0) = 0
      BY <1>12, <2>3, <2>4
    <3> QED BY <2>4, <3>1, <3>2, <3>3, EmptyCollected DEF Owes
  <2>5. CASE x # t
    <3>1. thr'[x].children = v[x].children
      BY <1>16, <2>3, <2>5
    <3>2. Owes(thr[x], thr[x].code)
      BY <1>3, <1>13, <2>3, <2>5 DEF Owing
    <3>3. /\ thr'[x].children = thr[x].children /\ thr'[x].code = thr[x].code
          /\ thr'[x].joining = thr[x].joining
      BY <1>13, <2>3, <2>5, <3>1 DEF SameWaits
    <3> QED BY <3>2, <3>3, OwesSame
  <2> QED BY <2>4, <2>5
<1>18. ASSUME ~ TaskForks, Waiting(thr) PROVE Waiting(thr')
  <2>1. ASSUME NEW x \in Threads \ (E \cup {}), ~ v[x].ended PROVE Spared(v, x, E, {})
    <3>1. CASE x = t
      <4>1. v[t].tasks = {} /\ ~ Detaches(v[t].code)
        BY <1>3, <1>5, <1>12, <1>18, EmptyCollected
      <4> QED BY <1>12, <3>1, <4>1 DEF Spared
    <3>2. CASE x # t
      <4>1. Waits(thr, x)
        BY <1>13, <1>18, <2>1, <3>2 DEF Waiting
      <4>2. \A k \in thr[x].children : v[k].ended = thr[k].ended
        BY <1>3, <1>12, <1>13, Kids
      <4>3. Waits(v, x)
        BY <1>13, <3>2, <4>1, <4>2, WaitsAlike
      <4>4. \A k \in E : v[k].parent # x
        BY <1>9, <3>2
      <4> QED BY <1>9, <1>10, <2>1, <4>3, <4>4, WaitsSpared
    <3> QED BY <3>1, <3>2
  <2> QED BY <1>9, <1>10, <2>1, BuriedWaits
<1>19. Owing(thr')
  BY <1>17 DEF Owing
<1> QED BY <1>1, <1>2, <1>3, <1>15, <1>18, <1>19, Settles

(* Turning t off and reaping it. *)
LEMMA TakenBuries ==
    ASSUME NEW s, Typed(s), Kin(s), NEW c, NEW f, Family(s, c, f), NEW t \in Threads, t <= c
    PROVE  LET D == Below(s, t)
               u == Reap(TurnedOff(s, t), t)
           IN  /\ Subtree(s, c, t, D) /\ Typed(TurnedOff(s, t)) /\ Typed(u)
               /\ \A x \in Threads : TakenOne(s[x], TurnedOff(s, t)[x], x, t, D)
               /\ Buried(s, u, D \cup {t}, {}, D \cup {t})
               /\ Fits(s, c, D \cup {t}, {}, D \cup {t})
<1> DEFINE D == Below(s, t)
           w == TurnedOff(s, t)
<1>1. Subtree(s, c, t, D)
  BY BelowSubtree
<1>2. Typed(w) /\ w[t].ended
  BY TurnedOffFades
<1>3. Typed(Reap(w, t))
  BY <1>2, ReapFades
<1>4. \A x \in Threads : TakenOne(s[x], w[x], x, t, D)
  <2>1. \A y \in D : y \in Threads /\ y # t
    BY <1>1 DEF Subtree, Threads
  <2> QED BY <2>1, TurnedOffEffect
<1> HIDE DEF D, w
<1>5. \A x \in Threads : Leaving(s[x], w[x], x, t, D, D)
  <2>1. t \notin D /\ s[t].parent \notin D
    BY <1>1 DEF Subtree, Threads
  <2> QED BY <1>4, <2>1, TakenLeaves
<1>6. /\ Buried(s, Reap(w, t), D \cup {t}, {}, D \cup {t})
      /\ Fits(s, c, D \cup {t}, {}, D \cup {t})
  <2>1. D \subseteq D /\ D \subseteq D \cup {t}
    OBVIOUS
  <2> QED BY <1>1, <1>2, <1>5, <2>1, LeavingBuries
<1> QED BY <1>1, <1>2, <1>3, <1>4, <1>6 DEF D, w

LEMMA Recoded ==
    ASSUME NEW s, Typed(s), NEW t \in Threads, ~ s[t].ended, NEW d \in Codes
    PROVE  LET u == WithCode(s, t, d) IN
           /\ Typed(u) /\ SameTies(s[t], u[t]) /\ u[t].code = d
           /\ u[t].tasks = s[t].tasks /\ u[t].joining = s[t].joining
           /\ u[t].waitingFork = s[t].waitingFork
           /\ u[t].scheduled = s[t].scheduled /\ u[t].waitingEvent = s[t].waitingEvent
           /\ \A x \in Threads : x # t => u[x] = s[x]
<1> DEFINE y == [s[t] EXCEPT !.code = d]
           u == WithCode(s, t, d)
<1>1. s[t] \in ThreadState /\ s \in [Threads -> ThreadState]
  BY DEF Typed
<1>2. /\ y.code = d /\ y.tasks = s[t].tasks
      /\ y.joining = s[t].joining /\ y.waitingFork = s[t].waitingFork
      /\ y.scheduled = s[t].scheduled /\ y.waitingEvent = s[t].waitingEvent
      /\ SameTies(s[t], y)
  BY <1>1 DEF ThreadState, SameTies
<1>3. u[t] = y /\ \A x \in Threads : x # t => u[x] = s[x]
  BY <1>1 DEF WithCode
<1>4. Typed(u)
  BY CodeFields
<1> HIDE DEF y, u
<1> QED BY <1>2, <1>3, <1>4 DEF u

LEMMA DisableForkKeeps ==
    ASSUME Parts, Held, NEW t, t = running, running # 0,
           NEW code \in NextCode(t), DisableFork(t, code)
    PROVE  Keeps
<1> DEFINE u == At(thr, t, code)
<1>1. /\ Fetch(t, code) /\ Head(code).op = "disablefork" /\ Continue /\ created' = created
      /\ \/ thr' = u
         \/ \E c \in thr[t].detached :
               thr' = WithCode(Reap(Disabled(thr, c), c), t, code)
  BY DEF DisableFork, WithCode
<1>2. Fetched(t, code)
  BY <1>1, FetchFacts
<1>3. Typed(u) /\ ~ u[t].joining /\ ~ u[t].waitingFork /\ t \in Threads
  BY <1>2, AtFields DEF Fetched
<1> HIDE DEF u
<1>4. CASE thr' = u
  <2>1. Sets(u, thr', t, FALSE, FALSE)
    BY <1>3, <1>4, FlagSet
  <2> QED BY <1>1, <1>2, <1>4, <2>1, SetKeeps DEF u
<1>5. ASSUME NEW c \in thr[t].detached, thr' = WithCode(Reap(Disabled(thr, c), c), t, code)
      PROVE  Keeps
  <2> DEFINE w == TurnedOff(thr, c)
             r == Reap(w, c)
             D == Below(thr, c)
             E == D \cup {c}
  <2>1. /\ Typed(thr) /\ Family(thr, created, t) /\ Owing(thr)
        /\ ~ thr[t].ended /\ thr[t].mem = "live" /\ ~ thr[t].joining /\ ~ thr[t].waitingFork
        /\ code \in Codes /\ thr[t].children \subseteq Threads
        /\ Cardinality(thr[t].children) + Forks(code) = Collected(code)
        /\ ~ TaskForks /\ Waiting(thr) =>
              /\ thr[t].tasks \subseteq thr[t].children
              /\ Detaches(code) => thr[t].tasks = {} /\ Fork("task") \notin ToSet(code)
    BY <1>2, <1>3, Kids DEF Fetched
  <2>2. /\ c \in Threads /\ thr[c].parent = t /\ thr[c].isDetached
        /\ \A k \in thr[t].children : thr[k].parent = t /\ ~ thr[k].isDetached
    <3>1. Down(thr, t) /\ thr[t] \in ThreadState
      BY <1>3, <2>1 DEF Family, Linked, Typed
    <3> QED BY <2>1, <3>1 DEF Down, Attended, ThreadState
  <2>3. Kin(thr) /\ c <= created /\ t < c
    <3>1. Kin(thr) /\ c <= created
      BY <1>3 DEF Parts, Sound, Born
    <3> QED BY <1>3, <2>2, <3>1 DEF Kin, Threads
  <2>4. /\ Subtree(thr, created, c, D) /\ Typed(r)
        /\ \A x \in Threads : TakenOne(thr[x], w[x], x, c, D)
        /\ Buried(thr, r, E, {}, E) /\ Fits(thr, created, E, {}, E)
    BY <2>1, <2>2, <2>3, TakenBuries
  <2>5. t \notin E
    BY <1>3, <2>2, <2>3, <2>4 DEF Subtree, Threads
  <2>6. thr' = WithCode(r, t, code)
    <3>1. w[c].parent = t
      <4>1. TakenOne(thr[c], w[c], c, c, D) /\ c \notin D
        BY <2>2, <2>4 DEF Subtree, Threads
      <4> QED BY <2>2, <2>5, <4>1 DEF TakenOne, ReleasedFrom
    <3>2. ~ w[t].joining
      <4>1. TakenOne(thr[t], w[t], t, c, D)
        BY <1>3, <2>4
      <4> QED BY <2>1, <2>5, <4>1 DEF TakenOne
    <3>3. ~ WakesParent(w, c)
      BY <3>1, <3>2 DEF WakesParent
    <3>4. Disabled(thr, c) = w
      BY <1>3, <2>2, <3>3 DEF Disabled, Threads
    <3> QED BY <1>5, <3>4
  <2> HIDE DEF w, r, E
  <2>7. ASSUME NEW g \in {0, t}
        PROVE  Family(r, created, g) /\ r[t].mem = "live" /\ ~ r[t].ended
    <3> HIDE DEF D
    <3> QED BY <1>3, <2>1, <2>4, <2>5, <2>7, BuriesBoth
  <2>8. Kept(thr[t], r[t], E, E)
    BY <1>3, <2>4, <2>5 DEF Buried
  <2>9. /\ r[t].children = thr[t].children \ E /\ r[t].tasks = thr[t].tasks
        /\ r[t].joining = thr[t].joining /\ r[t].waitingFork = thr[t].waitingFork
    BY <2>1, <2>8 DEF Kept, Attended
  <2>10. thr[t].children \cap E = {}
    <3> SUFFICES ASSUME NEW k \in thr[t].children, k \in E PROVE FALSE
      OBVIOUS
    <3>1. thr[k].parent = t /\ ~ thr[k].isDetached
      BY <2>2
    <3>2. k # c
      BY <2>2, <3>1
    <3>3. thr[k].parent \in E
      BY <2>4, <3>2 DEF Subtree, E
    <3> QED BY <2>5, <3>1, <3>3
  <2>11. r[t].children = thr[t].children
    BY <2>9, <2>10
  <2>12. \A x \in E : thr[x].parent \in E \/ x = c
    BY <2>4 DEF Subtree, E
  <2>13. Owing(r)
    <3>1. OwingBut(thr, 0, 0)
      BY <2>1 DEF Owing, OwingBut
    <3>2. \A x \in E : \/ thr[x].parent \in E \cup {} \cup {0}
                       \/ thr[x].isDetached
                       \/ (0 # 0 /\ x = 0)
      BY <2>2, <2>12
    <3>3. \A x \in Threads : Forks(thr[x].code) \in Nat /\ Collected(thr[x].code) \in Nat
      BY <2>1, TypedCounts
    <3> QED BY <2>1, <2>4, <3>1, <3>2, <3>3, BuriedOwes
  <2>14. ASSUME ~ TaskForks, Waiting(thr) PROVE Waiting(r)
    <3>1. ASSUME NEW x \in Threads \ (E \cup {}), ~ thr[x].ended PROVE Spared(thr, x, E, {})
      <4>1. Waits(thr, x)
        BY <2>14, <3>1 DEF Waiting
      <4>2. CASE x = t
        BY <2>1, <2>10, <4>1, <4>2 DEF Waits, Spared, Detaches
      <4>3. CASE x # t
        <5>1. \A k \in E : thr[k].parent # x
          BY <2>2, <2>12, <3>1, <4>3
        <5> QED BY <2>1, <3>1, <4>1, <5>1, WaitsSpared
      <4> QED BY <4>2, <4>3
    <3> QED BY <2>1, <2>4, <3>1, BuriedWaits
  <2>15. /\ Typed(thr') /\ SameTies(r[t], thr'[t]) /\ thr'[t].code = code
         /\ thr'[t].tasks = r[t].tasks /\ thr'[t].joining = r[t].joining
         /\ thr'[t].waitingFork = r[t].waitingFork
         /\ thr'[t].scheduled = r[t].scheduled /\ thr'[t].waitingEvent = r[t].waitingEvent
         /\ \A x \in Threads : x # t => thr'[x] = r[x]
    <3>1. 0 \in {0, t}
      OBVIOUS
    <3> QED BY <1>3, <2>1, <2>4, <2>6, <2>7, <3>1, Recoded
  <2>16. \A x \in Threads : /\ SameTies(r[x], thr'[x])
                            /\ thr'[x].scheduled = r[x].scheduled
                            /\ thr'[x].waitingEvent = r[x].waitingEvent
    BY <2>15 DEF SameTies
  <2>17. ASSUME NEW g \in {0, t} PROVE Family(thr', created, g) /\ thr'[t].mem = "live"
    <3>1. Family(r, created, g) /\ r[t].mem = "live"
      BY <2>7
    <3>2. ASSUME NEW x \in Threads
          PROVE  /\ thr'[x].scheduled \/ thr'[x].waitingEvent => r[x].mem = "live"
                 /\ r[x].mem = "live" /\ ~ Attended(r[x])
                      => thr'[x].scheduled \/ thr'[x].waitingEvent \/ x = g
      <4>1. Memory(r[x], x <= created, x = g)
        BY <3>1 DEF Family, Remembered
      <4> QED BY <2>16, <4>1 DEF Memory
    <3>3. Family(thr', created, g)
      BY <2>4, <2>16, <3>1, <3>2, TiesFamily
    <3> QED BY <2>15, <3>1, <3>3 DEF SameTies
  <2>18. \A x \in Threads : /\ thr'[x].ended = r[x].ended
                            /\ thr'[x].children = r[x].children
                            /\ thr'[x].detached = r[x].detached
    BY <2>16 DEF SameTies
  <2>19. ASSUME NEW x \in Threads, ~ thr'[x].ended PROVE Owes(thr'[x], thr'[x].code)
    <3>1. CASE x = t
      <4>1. (IF thr'[t].joining THEN 1 ELSE 0) = 0
        BY <2>1, <2>9, <2>15
      <4>2. thr'[t].children = thr[t].children
        BY <1>3, <2>11, <2>18
      <4>3. Collected(code) \in Nat
        BY <2>1, CodeCounts
      <4> QED BY <2>1, <2>15, <3>1, <4>1, <4>2, <4>3 DEF Owes
    <3>2. CASE x # t
      <4>1. Owes(r[x], r[x].code)
        BY <2>13, <2>18, <2>19 DEF Owing
      <4> QED BY <2>15, <3>2, <4>1
    <3> QED BY <3>1, <3>2
  <2>20. ASSUME ~ TaskForks, Waiting(thr), NEW x \in Threads, ~ thr'[x].ended
         PROVE  Waits(thr', x)
    <3>1. Waits(r, x)
      BY <2>14, <2>18, <2>20 DEF Waiting
    <3>2. CASE x = t
      <4>1. thr'[t].children = thr[t].children /\ thr'[t].tasks = thr[t].tasks
            /\ ~ thr'[t].joining /\ ~ thr'[t].waitingFork /\ thr'[t].code = code
        BY <1>3, <2>1, <2>9, <2>11, <2>15, <2>18
      <4> QED BY <2>1, <2>20, <3>2, <4>1 DEF Waits, Detaches
    <3>3. CASE x # t
      <4>1. SameWaits(r[x], thr'[x])
        BY <2>15, <3>3 DEF SameWaits
      <4> QED BY <2>4, <2>18, <3>1, <4>1, WaitsSame
    <3> QED BY <3>2, <3>3
  <2>21. Owing(thr') /\ (~ TaskForks /\ Waiting(thr) => Waiting(thr'))
    BY <2>19, <2>20 DEF Owing, Waiting
  <2>22. \A g \in {0, t} : Family(thr', created', g) /\ thr'[t].mem = "live"
    BY <1>1, <2>17
  <2> QED BY <1>1, <1>2, <2>21, <2>22, Settles
<1> QED BY <1>1, <1>4, <1>5

(* Nobody waits for those that are buried. *)
LEMMA BuriedRest ==
    ASSUME NEW s, NEW u, Typed(s), NEW c, NEW f, Family(s, c, f), Owing(s),
           NEW E, NEW O, NEW R, Buried(s, u, E, O, R), Fits(s, c, E, O, R),
           \A x \in E : s[x].parent \in E \cup O \cup {0},
           \A x \in O : s[s[x].parent].joining => ~ Joinable(s, s[x].parent, x)
    PROVE  Owing(u) /\ (Waiting(s) => Waiting(u))
<1>1. Owing(u)
  <2>1. OwingBut(s, 0, 0)
    BY DEF Owing, OwingBut
  <2>2. \A x \in E : \/ s[x].parent \in E \cup O \cup {0}
                     \/ s[x].isDetached
                     \/ (0 # 0 /\ x = 0)
    OBVIOUS
  <2>3. \A x \in Threads : Forks(s[x].code) \in Nat /\ Collected(s[x].code) \in Nat
    BY TypedCounts
  <2> QED BY <2>1, <2>2, <2>3, BuriedOwes
<1>2. ASSUME Waiting(s) PROVE Waiting(u)
  <2>1. ASSUME NEW x \in Threads \ (E \cup O), ~ s[x].ended PROVE Spared(s, x, E, O)
    <3>1. Waits(s, x)
      BY <1>2, <2>1 DEF Waiting
    <3>2. \A k \in E : s[k].parent # x
      BY <2>1 DEF Threads
    <3>3. \A k \in O : s[k].parent = x /\ s[x].joining => ~ Joinable(s, x, k)
      OBVIOUS
    <3> QED BY <2>1, <3>1, <3>2, <3>3, WaitsSpared
  <2> QED BY <2>1, BuriedWaits
<1> QED BY <1>1, <1>2

LEMMA SubtreeTies ==
    ASSUME NEW s, NEW v, Typed(s), NEW c, NEW t \in Threads, NEW D, Subtree(s, c, t, D),
           \A x \in Threads : SameTies(s[x], v[x])
    PROVE  Subtree(v, c, t, D)
<1>1. \A x \in Threads :
        /\ v[x].parent = s[x].parent /\ v[x].isDetached = s[x].isDetached
        /\ v[x].children = s[x].children /\ v[x].detached = s[x].detached
        /\ (Attended(v[x]) => Attended(s[x]))
  BY DEF SameTies, Attended
<1> QED BY <1>1 DEF Subtree

(* p goes on, which joins t. *)
Called(s, p, t) ==
    [s EXCEPT ![p] = [s[p] EXCEPT !.joining = FALSE, !.scheduled = TRUE,
                                  !.tasks = s[p].tasks \ {t}]]

CalledTo(s, v, p, t) ==
    /\ Typed(v) /\ SameTies(s[p], v[p]) /\ v[p].tasks = s[p].tasks \ {t}
    /\ v[p].joining = FALSE /\ v[p].scheduled = TRUE
    /\ v[p].waitingFork = s[p].waitingFork /\ v[p].waitingEvent = s[p].waitingEvent
    /\ v[p].code = s[p].code
    /\ \A x \in Threads : x # p => v[x] = s[x]

LEMMA CalledFields ==
    ASSUME NEW s, Typed(s), NEW p \in Threads, NEW t
    PROVE  CalledTo(s, Called(s, p, t), p, t)
<1> DEFINE y == [s[p] EXCEPT !.joining = FALSE, !.scheduled = TRUE, !.tasks = @ \ {t}]
           v == Called(s, p, t)
<1>1. s[p] \in ThreadState /\ s \in [Threads -> ThreadState]
  BY DEF Typed
<1>2. y \in ThreadState
  BY <1>1 DEF ThreadState
<1>3. /\ SameTies(s[p], y) /\ y.tasks = s[p].tasks \ {t}
      /\ y.joining = FALSE /\ y.scheduled = TRUE
      /\ y.waitingFork = s[p].waitingFork /\ y.waitingEvent = s[p].waitingEvent
      /\ y.code = s[p].code /\ y.ended = s[p].ended
  BY <1>1 DEF ThreadState, SameTies
<1>4. v = [s EXCEPT ![p] = y]
  BY DEF Called
<1> HIDE DEF y, v
<1>5. v[p] = y /\ (\A x \in Threads : x # p => v[x] = s[x]) /\ v \in [Threads -> ThreadState]
  BY <1>1, <1>2, <1>4
<1>6. Typed(v)
  BY <1>3, <1>5 DEF Typed
<1>7. CalledTo(s, v, p, t)
  BY <1>3, <1>5, <1>6 DEF CalledTo
<1> QED BY <1>7 DEF v

LEMMA CalledLeaves ==
    ASSUME NEW s, NEW w, NEW v, NEW r, NEW p \in Threads, NEW t, NEW D, NEW F,
           CalledTo(s, v, p, t), CalledTo(w, r, p, t), p \notin D \cup {t},
           NEW x \in Threads, Leaving(s[x], w[x], x, t, D, F)
    PROVE  Leaving(v[x], r[x], x, t, D, F)
<1>1. CASE x # p
  BY <1>1 DEF CalledTo
<1>2. CASE x = p
  <2>1. /\ SameFlags(s[p], w[p]) /\ w[p].mem = s[p].mem /\ w[p].ended = s[p].ended
        /\ w[p].inScope = s[p].inScope /\ w[p].code = s[p].code
        /\ w[p].joining = s[p].joining
        /\ w[p].children = s[p].children /\ w[p].detached = s[p].detached
        /\ ReleasedFrom(s[p], w[p], F)
        /\ w[p].scheduled = s[p].scheduled /\ w[p].waitingEvent = s[p].waitingEvent
    BY <1>2 DEF Leaving
  <2>2. /\ SameTies(s[p], v[p]) /\ v[p].tasks = s[p].tasks \ {t}
        /\ v[p].joining = FALSE /\ v[p].scheduled = TRUE
        /\ v[p].waitingFork = s[p].waitingFork /\ v[p].waitingEvent = s[p].waitingEvent
        /\ v[p].code = s[p].code
    BY DEF CalledTo
  <2>3. /\ SameTies(w[p], r[p]) /\ r[p].tasks = w[p].tasks \ {t}
        /\ r[p].joining = FALSE /\ r[p].scheduled = TRUE
        /\ r[p].waitingFork = w[p].waitingFork /\ r[p].waitingEvent = w[p].waitingEvent
        /\ r[p].code = w[p].code
    BY DEF CalledTo
  <2>4. SameFlags(v[p], r[p])
    BY <2>1, <2>2, <2>3 DEF SameFlags, SameTies
  <2>5. ReleasedFrom(v[p], r[p], F)
    BY <2>1, <2>2, <2>3 DEF ReleasedFrom, SameTies
  <2>6. /\ r[p].mem = v[p].mem /\ r[p].ended = v[p].ended /\ r[p].inScope = v[p].inScope
        /\ r[p].code = v[p].code /\ r[p].joining = v[p].joining
        /\ r[p].children = v[p].children /\ r[p].detached = v[p].detached
        /\ r[p].scheduled = v[p].scheduled /\ r[p].waitingEvent = v[p].waitingEvent
    BY <2>1, <2>2, <2>3 DEF SameTies
  <2> QED BY <1>2, <2>4, <2>5, <2>6 DEF Leaving
<1> QED BY <1>1, <1>2

(* t is buried with those in D and its parent p, which joins it, goes on.   *)
AllLeaving(s, w, t, D, F) == \A x \in Threads : Leaving(s[x], w[x], x, t, D, F)

(* s, then v when p goes on, then u when those in E are buried.            *)
CalledOver(s, v, u, c, f, p, t, E) ==
    /\ CalledTo(s, v, p, t) /\ Family(v, c, f)
    /\ Buried(v, u, E, {}, E) /\ Fits(v, c, E, {}, E)
    /\ Owing(u) /\ (Waiting(s) => Waiting(u))

LEMMA CalledBuries ==
    ASSUME NEW s, Typed(s), NEW c, NEW f, Family(s, c, f), Owing(s),
           NEW t \in Threads, t <= c, NEW p \in Threads, s[t].parent = p, ~ s[t].isDetached,
           s[p].joining, ~ s[p].waitingFork,
           NEW D, NEW F, D \subseteq F, F \subseteq D \cup {t}, Subtree(s, c, t, D),
           NEW w, Typed(w), AllLeaving(s, w, t, D, F)
    PROVE  CalledOver(s, Called(s, p, t), Reap(Called(w, p, t), t), c, f, p, t, D \cup {t})
<1> DEFINE u == Reap(Called(w, p, t), t)
           v == Called(s, p, t)
           r == Called(w, p, t)
           E == D \cup {t}
<1>1. CalledTo(s, v, p, t) /\ CalledTo(w, r, p, t)
  BY CalledFields
<1>2. p \notin D \cup {t}
  BY DEF Subtree
<1>3. u = Reap(r, t)
  OBVIOUS
<1> HIDE DEF u, v, r
<1>4. Typed(v) /\ Typed(r)
  BY <1>1 DEF CalledTo
<1>5. \A x \in Threads : SameTies(s[x], v[x])
  <2>1. \A x \in Threads : SameTies(s[x], s[x])
    BY DEF SameTies
  <2> QED BY <1>1, <2>1 DEF CalledTo
<1>6. s[p].mem = "live" /\ t \in s[p].children /\ ~ s[p].ended
  <2>1. Up(s, t) /\ Memory(s[p], p <= c, p = f) /\ p # 0
    BY DEF Family, Linked, Remembered, Threads
  <2> QED BY <2>1 DEF Up, Memory
<1>7. Family(v, c, f)
  <2>1. ASSUME NEW x \in Threads
        PROVE  /\ v[x].scheduled \/ v[x].waitingEvent => s[x].mem = "live"
               /\ s[x].mem = "live" /\ ~ Attended(s[x])
                    => v[x].scheduled \/ v[x].waitingEvent \/ x = f
    <3>1. CASE x = p
      BY <1>6, <3>1 DEF Attended
    <3>2. CASE x # p
      <4>1. Memory(s[x], x <= c, x = f) /\ v[x] = s[x]
        BY <1>1, <3>2 DEF Family, Remembered, CalledTo
      <4> QED BY <4>1 DEF Memory
    <3> QED BY <3>1, <3>2
  <2> QED BY <1>5, <2>1, TiesFamily
<1>8. Subtree(v, c, t, D)
  BY <1>5, SubtreeTies
<1>9. \A x \in Threads : Leaving(v[x], r[x], x, t, D, F)
  <2> SUFFICES ASSUME NEW x \in Threads PROVE Leaving(v[x], r[x], x, t, D, F)
    OBVIOUS
  <2>1. Leaving(s[x], w[x], x, t, D, F)
    BY DEF AllLeaving
  <2> QED BY <1>1, <1>2, <2>1, CalledLeaves
<1>10. Buried(v, u, E, {}, E) /\ Fits(v, c, E, {}, E)
  BY <1>3, <1>4, <1>8, <1>9, LeavingBuries
<1>11. t \in E /\ p \notin E /\ E \subseteq Threads
  BY <1>2, <1>10 DEF Fits
<1>12. \A x \in E : v[x].parent \in E \/ x = t
  BY <1>8 DEF Subtree
<1> HIDE DEF E
<1>13. v[t].parent = p /\ v[p].children = s[p].children /\ v[p].ended = s[p].ended
  BY <1>5 DEF SameTies
<1>14. /\ v[p].joining = FALSE /\ v[p].code = s[p].code /\ v[p].tasks = s[p].tasks \ {t}
       /\ v[p].waitingFork = s[p].waitingFork
       /\ \A x \in Threads : x # p => v[x] = s[x]
  BY <1>1 DEF CalledTo
<1>15. Owing(u)
  <2>1. OwingBut(v, p, t)
    <3>1. ASSUME NEW x \in Threads, ~ v[x].ended, x # p PROVE Owes(v[x], v[x].code)
      BY <1>14, <3>1 DEF Owing
    <3>2. Owes(s[p], s[p].code) /\ (IF s[p].joining THEN 1 ELSE 0) = 1
      BY <1>6 DEF Owing
    <3>3. Cardinality(v[p].children) + Forks(v[p].code) = Collected(v[p].code) + 1
      BY <1>13, <1>14, <3>2, Zenon DEF Owes
    <3> QED BY <1>6, <1>13, <1>14, <3>1, <3>3 DEF OwingBut
  <2>2. \A x \in Threads : Forks(v[x].code) \in Nat /\ Collected(v[x].code) \in Nat
    BY <1>4, TypedCounts
  <2>3. \A x \in E : \/ v[x].parent \in E \cup {} \cup {0}
                     \/ v[x].isDetached
                     \/ (p # 0 /\ x = t)
    BY <1>12 DEF Threads
  <2> QED BY <1>4, <1>7, <1>10, <1>11, <2>1, <2>2, <2>3, BuriedOwes
<1>16. ASSUME Waiting(s) PROVE Waiting(u)
  <2>1. ASSUME NEW x \in Threads \ (E \cup {}), ~ v[x].ended PROVE Spared(v, x, E, {})
    <3>1. CASE x = p
      <4>1. Waits(s, p)
        BY <1>6, <1>16 DEF Waiting
      <4>2. \A k \in s[p].children : k \in E => k = t
        <5> SUFFICES ASSUME NEW k \in s[p].children, k \in E, k # t PROVE FALSE
          OBVIOUS
        <5>1. v[k].parent \in E
          BY <1>12
        <5>2. Down(v, p) /\ ~ v[p].ended
          BY <1>6, <1>7, <1>13 DEF Family, Linked
        <5>3. v[k].parent = p
          BY <1>13, <5>2 DEF Down, Attended
        <5> QED BY <1>11, <5>1, <5>3
      <4>3. v[p].tasks \subseteq v[p].children \ E
        BY <1>13, <1>14, <4>1, <4>2 DEF Waits
      <4>4. Detaches(v[p].code) => v[p].tasks = {} /\ Fork("task") \notin ToSet(v[p].code)
        BY <1>14, <4>1 DEF Waits, Detaches
      <4> QED BY <1>14, <3>1, <4>3, <4>4 DEF Spared
    <3>2. CASE x # p
      <4>1. Waits(s, x) /\ v[x] = s[x]
        BY <1>14, <1>16, <2>1, <3>2 DEF Waiting
      <4>2. \A k \in s[x].children : v[k].ended = s[k].ended
        BY <1>5, Kids DEF SameTies
      <4>3. Waits(v, x)
        BY <4>1, <4>2, WaitsAlike DEF SameWaits
      <4>4. \A k \in E : v[k].parent # x
        BY <1>12, <1>13, <2>1, <3>2
      <4> QED BY <1>4, <1>7, <2>1, <4>3, <4>4, WaitsSpared
    <3> QED BY <3>1, <3>2
  <2> QED BY <1>4, <1>10, <2>1, BuriedWaits
<1>17. CalledOver(s, v, u, c, f, p, t, E)
  BY <1>1, <1>7, <1>10, <1>15, <1>16 DEF CalledOver
<1> QED BY <1>17 DEF u, v, E

(* do_disable and of_END let p go on alike, if it has not ended.           *)
Resumed(w, p) ==
    [w EXCEPT ![p].joining = FALSE, ![p].scheduled = @ \/ ~ w[p].ended]
Rejoined(w, p) ==
    [w EXCEPT ![p].joining = FALSE, ![p].scheduled = TRUE]

LEMMA CalledIs ==
    ASSUME NEW w, Typed(w), NEW p \in Threads, ~ w[p].ended, NEW t
    PROVE  /\ Joined(Resumed(w, p), p, t) = Reap(Called(w, p, t), t)
           /\ Joined(Rejoined(w, p), p, t) = Reap(Called(w, p, t), t)
<1>1. w[p] \in ThreadState /\ w \in [Threads -> ThreadState]
  BY DEF Typed
<1> DEFINE y  == [w[p] EXCEPT !.joining = FALSE, !.scheduled = TRUE]
           z  == [w[p] EXCEPT !.joining = FALSE, !.scheduled = TRUE,
                              !.tasks = w[p].tasks \ {t}]
           v  == [w EXCEPT ![p] = y]
<1>2. Rejoined(w, p) = v
  BY DEF Rejoined
<1>3. Resumed(w, p) = v
  BY <1>1 DEF Resumed, ThreadState
<1>4. y.tasks = w[p].tasks /\ [y EXCEPT !.tasks = w[p].tasks \ {t}] = z
  BY <1>1 DEF ThreadState
<1>5. [v EXCEPT ![p].tasks = @ \ {t}] = [w EXCEPT ![p] = z]
  <2> HIDE DEF y, z
  <2>1. v[p] = y
    BY <1>1
  <2>2. [v EXCEPT ![p].tasks = @ \ {t}] = [v EXCEPT ![p] = [v[p] EXCEPT !.tasks = v[p].tasks \ {t}]]
    BY DEF v
  <2>3. [v EXCEPT ![p].tasks = @ \ {t}] = [v EXCEPT ![p] = z]
    BY <1>4, <2>1, <2>2
  <2> QED BY <1>1, <2>3
<1>6. [w EXCEPT ![p] = z] = Called(w, p, t)
  BY DEF Called
<1>7. \A r : Joined(r, p, t) = Reap([r EXCEPT ![p].tasks = @ \ {t}], t)
  BY DEF Joined
<1> HIDE DEF v, z
<1> QED BY <1>2, <1>3, <1>5, <1>6, <1>7

(* A thread that disables others goes on to do so, and those it has turned *)
(* off so far are buried.                                                  *)
LEMMA DisablesOn ==
    ASSUME Held, ~ NotDisabling, NEW v, NEW E, NEW O, NEW R,
           \A x \in Threads : SameTies(thr[x], v[x]),
           Typed(v), Typed(thr'), Family(v, created, 0),
           Buried(v, thr', E, O, R), Fits(v, created, E, O, R),
           Owing(thr'), Waiting(thr) => Waiting(thr'),
           UNCHANGED <<created, running>>, running \in Threads,
           disabling'.scope = disabling.scope, disabling'.by = disabling.by,
           ~ disabling'.self => ~ disabling.self /\ running \notin E \cup O
    PROVE  Keeps
<1>1. ~ NotDisabling' /\ Forker' = 0
  BY DEF NotDisabling, Forker
<1>2. Family(thr', created, 0)
  <2>1. 0 \in E \cup O \cup {0, 0}
    OBVIOUS
  <2> QED BY <2>1, Buries
<1>3. Disables
  BY DEF Held
<1>4. ~ disabling'.self => ~ thr'[running].ended
  <2> SUFFICES ASSUME ~ disabling.self, running \notin E \cup O PROVE ~ thr'[running].ended
    OBVIOUS
  <2>1. Kept(v[running], thr'[running], E, R)
    BY DEF Buried
  <2>2. v[running].ended = thr[running].ended
    BY DEF SameTies
  <2> QED BY <1>3, <2>1, <2>2 DEF Kept, Disables
<1>5. ASSUME NEW x \in InScope' PROVE ~ thr'[x].isDetached
  <2>1. x \in Threads /\ thr'[x].inScope /\ thr'[x].scope = disabling.scope
    BY DEF InScope
  <2>2. /\ v[x].inScope = thr[x].inScope /\ v[x].scope = thr[x].scope
        /\ v[x].isDetached = thr[x].isDetached
    BY <2>1 DEF SameTies
  <2>3. x \notin E
    BY <2>1 DEF Buried, Gone
  <2>4. CASE x \in O
    <3>1. Over(v[x], thr'[x], E, x \in R)
      BY <2>1, <2>4 DEF Buried
    <3>2. ~ v[x].isDetached
      BY <2>1, <2>4 DEF Fits
    <3> QED BY <3>1, <3>2 DEF Over
  <2>5. CASE x \notin E \cup O
    <3>1. Kept(v[x], thr'[x], E, R)
      BY <2>1, <2>5 DEF Buried
    <3>2. x \in InScope
      BY <2>1, <2>2, <3>1 DEF Kept, InScope
    <3>3. ~ v[x].isDetached
      BY <1>3, <2>2, <3>2 DEF Disables
    <3> QED BY <3>1, <3>3 DEF Kept
  <2> QED BY <2>3, <2>4, <2>5
<1>6. Disables'
  BY <1>3, <1>4, <1>5 DEF Disables
<1> QED BY <1>1, <1>2, <1>6 DEF Keeps, Held

LEMMA DisableNextKeeps ==
    ASSUME Parts, Held, DisableNext
    PROVE  Keeps
<1>1. PICK t \in InScope :
        /\ thr' = Disabled(thr, t)
        /\ disabling' = [disabling EXCEPT
                            !.self = @ \/ disabling.by \in Below(thr, t) \cup {t}]
  BY DEF DisableNext
<1>2. ~ NotDisabling /\ created' = created /\ running' = running
  BY DEF DisableNext
<1> DEFINE p == thr[t].parent
           D == Below(thr, t)
           E == D \cup {t}
           w == TurnedOff(thr, t)
           b == disabling.by \in E
<1>3. /\ Typed(thr) /\ Kin(thr) /\ created \in 0..MaxThreads /\ DisablingType
      /\ Family(thr, created, 0) /\ Owing(thr) /\ Disables
  BY <1>2 DEF Parts, Sound, Born, Held, Forker
<1>4. /\ t \in Threads /\ thr[t].inScope /\ ~ thr[t].isDetached /\ t <= created
      /\ thr[t].mem = "live" /\ (p # 0 => Attended(thr[p]) /\ t \in thr[p].children)
  <2>1. t \in Threads /\ thr[t].inScope /\ ~ thr[t].isDetached
    BY <1>2, <1>3 DEF InScope, Disables
  <2>2. Memory(thr[t], t <= created, t = 0) /\ Up(thr, t)
    BY <1>3, <2>1 DEF Family, Remembered, Linked
  <2> QED BY <2>1, <2>2 DEF Memory, Up
<1>5. running \in Threads
  <2>1. running \in 0..created /\ running # 0
    BY <1>2, <1>3 DEF Parts, Sound, Born, Disables
  <2> QED BY <1>3, <2>1, BoundsAssumption DEF Threads
<1>6. /\ disabling'.scope = disabling.scope /\ disabling'.by = disabling.by
      /\ ~ disabling'.self => ~ disabling.self /\ running \notin E
  <2>1. b \in BOOLEAN /\ running = disabling.by
    BY <1>2, <1>3 DEF Disables
  <2>2. disabling' = [disabling EXCEPT !.self = @ \/ b]
    BY <1>1
  <2> HIDE DEF b
  <2>3. /\ disabling'.scope = disabling.scope /\ disabling'.by = disabling.by
        /\ ~ disabling'.self => ~ disabling.self /\ ~ b
    BY <1>3, <2>1, <2>2 DEF DisablingType
  <2>4. ~ b => disabling.by \notin E
    BY DEF b
  <2> QED BY <2>1, <2>3, <2>4
<1>7. /\ Subtree(thr, created, t, D) /\ Typed(w)
      /\ \A x \in Threads : TakenOne(thr[x], w[x], x, t, D)
      /\ Buried(thr, Reap(w, t), E, {}, E) /\ Fits(thr, created, E, {}, E)
  BY <1>3, <1>4, TakenBuries
<1>8. Typed(thr')
  BY DisableNextStep DEF Parts, Sound
<1>9. Disabled(thr, t) =
        IF WakesParent(w, t)
        THEN Joined([w EXCEPT ![p].joining = FALSE,
                              ![p].scheduled = @ \/ ~ w[p].ended], p, t)
        ELSE IF p = 0 THEN Reap(w, t) ELSE w
  BY DEF Disabled
<1> HIDE DEF D, w
<1>10. p \notin E /\ t \notin D /\ D \subseteq Threads
  BY <1>7 DEF Subtree, Threads
<1>11. w[t].parent = p
  <2>1. TakenOne(thr[t], w[t], t, t, D)
    BY <1>4, <1>7
  <2> QED BY <1>4, <1>10, <2>1 DEF TakenOne, ReleasedFrom
<1>12. \A x \in E : thr[x].parent \in E \/ x = t
  BY <1>7 DEF Subtree
<1>13. \A x \in Threads : SameTies(thr[x], thr[x])
  BY DEF SameTies
<1>14. CASE p = 0
  <2>1. thr' = Reap(w, t)
    BY <1>1, <1>9, <1>11, <1>14 DEF WakesParent
  <2>2. \A x \in E : thr[x].parent \in E \cup {} \cup {0}
    BY <1>12, <1>14
  <2>3. Owing(thr') /\ (Waiting(thr) => Waiting(thr'))
    <3> HIDE DEF E
    <3> QED BY <1>3, <1>7, <2>1, <2>2, BuriedRest
  <2>4. running \notin E \cup {} <=> running \notin E
    OBVIOUS
  <2> HIDE DEF E
  <2> QED BY <1>2, <1>3, <1>5, <1>6, <1>7, <1>8, <1>13, <2>1, <2>3, <2>4, DisablesOn
<1>15. p # 0 => /\ p \in Threads /\ ~ thr[p].ended
                /\ w[p].joining = thr[p].joining /\ w[p].tasks = thr[p].tasks
                /\ w[p].ended = thr[p].ended
  <2> SUFFICES ASSUME p # 0 PROVE /\ p \in Threads /\ ~ thr[p].ended
                /\ w[p].joining = thr[p].joining /\ w[p].tasks = thr[p].tasks
                /\ w[p].ended = thr[p].ended
    OBVIOUS
  <2>1. p \in Threads
    BY <1>3, <1>4, BoundsAssumption DEF Typed, ThreadState, Threads
  <2>2. Memory(thr[p], p <= created, p = 0) /\ t \in thr[p].children
    BY <1>3, <1>4, <2>1 DEF Family, Remembered
  <2>3. TakenOne(thr[p], w[p], p, t, D)
    BY <1>7, <2>1
  <2> QED BY <1>10, <2>1, <2>2, <2>3 DEF Memory, TakenOne, SameFlags
<1>16. p # 0 => (WakesParent(w, t) <=> thr[p].joining /\ Joinable(thr, p, t))
  BY <1>11, <1>15 DEF WakesParent, Joinable
<1>17. CASE p # 0 /\ WakesParent(w, t)
  <2>1. p \in Threads /\ thr[p].joining /\ ~ w[p].ended /\ ~ thr[p].waitingFork
    <3>1. p \in Threads /\ thr[p].joining /\ ~ w[p].ended
      BY <1>15, <1>16, <1>17
    <3>2. OneReason(thr[p], p = running)
      BY <3>1 DEF Parts, Sound, Single
    <3> QED BY <3>1, <3>2 DEF OneReason
  <2>2. thr' = Reap(Called(w, p, t), t)
    <3>1. thr' = Joined(Resumed(w, p), p, t)
      BY <1>1, <1>9, <1>17 DEF Resumed
    <3> QED BY <1>7, <2>1, <3>1, CalledIs
  <2>3. AllLeaving(thr, w, t, D, D)
    BY <1>7, <1>10, TakenLeaves DEF AllLeaving
  <2> DEFINE v == Called(thr, p, t)
  <2>4. /\ CalledTo(thr, v, p, t) /\ Family(v, created, 0)
        /\ Buried(v, thr', E, {}, E) /\ Fits(v, created, E, {}, E)
        /\ Owing(thr') /\ (Waiting(thr) => Waiting(thr'))
    <3>1. D \subseteq D /\ D \subseteq D \cup {t}
      OBVIOUS
    <3> HIDE DEF p
    <3>2. thr[t].parent = p
      BY DEF p
    <3>3. CalledOver(thr, v, Reap(Called(w, p, t), t), created, 0, p, t, D \cup {t})
      BY <1>3, <1>4, <1>7, <2>1, <2>3, <3>1, <3>2, CalledBuries
    <3> QED BY <2>2, <3>3 DEF CalledOver
  <2> HIDE DEF v
  <2>5. \A x \in Threads : SameTies(thr[x], v[x])
    BY <1>13, <2>4 DEF CalledTo
  <2>6. Typed(v)
    BY <2>4 DEF CalledTo
  <2>7. running \notin E \cup {} <=> running \notin E
    OBVIOUS
  <2> HIDE DEF E
  <2> QED BY <1>2, <1>5, <1>6, <1>8, <2>4, <2>5, <2>6, <2>7, DisablesOn
<1>18. CASE p # 0 /\ ~ WakesParent(w, t)
  <2>1. thr' = w
    BY <1>1, <1>9, <1>18
  <2>2. Buried(thr, w, D, {t}, D) /\ Fits(thr, created, D, {t}, D)
    BY <1>3, <1>4, <1>18, TurnedOffBuries DEF D, w
  <2>3. \A x \in D : thr[x].parent \in D \cup {t} \cup {0}
    BY <1>10, <1>12
  <2>4. \A x \in {t} : thr[thr[x].parent].joining => ~ Joinable(thr, thr[x].parent, x)
    BY <1>16, <1>18
  <2>5. Owing(thr') /\ (Waiting(thr) => Waiting(thr'))
    BY <1>3, <2>1, <2>2, <2>3, <2>4, BuriedRest
  <2> QED BY <1>2, <1>3, <1>5, <1>6, <1>8, <1>13, <2>1, <2>2, <2>5, DisablesOn
<1> QED BY <1>14, <1>17, <1>18

-----------------------------------------------------------------------------
(* The end of a thread.  No statement goes on after it, so that the thread  *)
(* has collected all its children.                                         *)
LEMMA StatementEnds ==
    ASSUME NEW x \in Scopes, NEW c \in Statements(x), NEW k \in DOMAIN c, c[k].op = "end"
    PROVE  Len(c) = 1
<1>1. /\ \A y : Fork(y).op # "end" /\ Detach(y).op # "end" /\ Disable(y).op # "end"
      /\ Op("join").op # "end"
  BY DEF Op, Fork, Detach, Disable
<1>2. \/ \E y \in Simple : c = <<Op(y)>>
      \/ \E y \in {"task", "block"} : c = <<Disable(y)>>
      \/ \E y \in {"task", "block"} : c = SubThread(y)
      \/ \E y \in Scopes : c \in ForkStatements(y)
  BY DEF Statements, Scopes
<1>3. ASSUME NEW y, c = SubThread(y) PROVE FALSE
  <2>1. c = <<Fork(y), Op("join")>>
    BY <1>3 DEF SubThread
  <2>2. DOMAIN c = 1..2 /\ c[1] = Fork(y) /\ c[2] = Op("join")
    BY <2>1
  <2>3. k = 1 \/ k = 2
    BY <2>2
  <2> QED BY <1>1, <2>2, <2>3
<1>4. ASSUME NEW y \in Scopes, c \in ForkStatements(y) PROVE FALSE
  <2>1. CASE c = Branches(y) \o <<Op("join"), Op("join")>>
    <3>1. /\ DOMAIN c = 1..4 /\ c[1] = Fork(y) /\ c[2] = Fork(y)
          /\ c[3] = Op("join") /\ c[4] = Op("join")
      BY <2>1 DEF Branches
    <3>2. k = 1 \/ k = 2 \/ k = 3 \/ k = 4
      BY <3>1
    <3> QED BY <1>1, <3>1, <3>2
  <2>2. CASE c = Branches(y) \o <<Op("join"), Detach(1)>>
    <3>1. /\ DOMAIN c = 1..4 /\ c[1] = Fork(y) /\ c[2] = Fork(y)
          /\ c[3] = Op("join") /\ c[4] = Detach(1)
      BY <2>2 DEF Branches
    <3>2. k = 1 \/ k = 2 \/ k = 3 \/ k = 4
      BY <3>1
    <3> QED BY <1>1, <3>1, <3>2
  <2>3. CASE c = Branches(y) \o <<Detach(2)>>
    <3>1. DOMAIN c = 1..3 /\ c[1] = Fork(y) /\ c[2] = Fork(y) /\ c[3] = Detach(2)
      BY <2>3 DEF Branches
    <3>2. k = 1 \/ k = 2 \/ k = 3
      BY <3>1
    <3> QED BY <1>1, <3>1, <3>2
  <2> QED BY <1>4, <2>1, <2>2, <2>3 DEF ForkStatements
<1> QED BY <1>2, <1>3, <1>4

LEMMA EndIsLast ==
    ASSUME NEW c \in Codes, c # <<>>, Head(c).op = "end"
    PROVE  Tail(c) = <<>>
<1>1. PICK x \in Scopes : \E d \in Statements(x) : \E i \in 1..(Len(d) + 1) :
                            c = SubSeq(d, i, Len(d))
  BY DEF Codes
<1>2. PICK d \in Statements(x) : \E i \in 1..(Len(d) + 1) : c = SubSeq(d, i, Len(d))
  BY <1>1
<1>3. PICK i \in 1..(Len(d) + 1) : c = SubSeq(d, i, Len(d))
  BY <1>2
<1>4. d \in Seq(Opcodes)
  BY StatementShape DEF Shaped
<1>5. /\ Len(d) \in Nat /\ c \in Seq(Opcodes) /\ Len(c) = Len(d) + 1 - i
      /\ \A k \in 1..(Len(d) + 1 - i) : c[k] = d[i + k - 1]
  BY <1>3, <1>4
<1>6. Len(c) > 0 /\ Head(c) = c[1]
  BY <1>5
<1>7. 1 \in 1..(Len(d) + 1 - i) /\ i + 1 - 1 = i /\ i \in 1..Len(d)
  BY <1>5, <1>6
<1>8. c[1] = d[i] /\ i \in DOMAIN d
  BY <1>4, <1>5, <1>7
<1>9. Len(d) = 1
  BY <1>6, <1>8, StatementEnds
<1>10. Len(c) = 1
  BY <1>5, <1>7, <1>9
<1> DEFINE e == Tail(c)
<1>11. e \in Seq(Opcodes) /\ Len(e) = 0
  BY <1>5, <1>10
<1> HIDE DEF e
<1>12. e = <<>>
  BY <1>11
<1> QED BY <1>12 DEF e

EndedOne(x, y, i, t) ==
    /\ SameFlags(x, y) /\ y.mem = x.mem /\ y.inScope = x.inScope /\ y.joining = x.joining
    /\ y.children = x.children
    /\ i = t => /\ y.ended /\ y.code = <<>> /\ y.detached = {}
                /\ y.parent = x.parent /\ y.isDetached = x.isDetached
    /\ i # t => /\ y.ended = x.ended /\ y.code = x.code /\ y.detached = x.detached
                /\ ReleasedFrom(x, y, {t})

LEMMA EndEffect ==
    ASSUME Typed(thr), NEW t \in Threads, thr[t].parent # t
    PROVE  /\ Typed(EndState(t))
           /\ \A x \in Threads : EndedOne(thr[x], EndState(t)[x], x, t)
<1> DEFINE y == [thr[t] EXCEPT !.ended = TRUE, !.code = <<>>, !.detached = {}]
           s == [thr EXCEPT ![t].ended = TRUE, ![t].code = <<>>, ![t].detached = {}]
           u == EndState(t)
<1>1. thr[t] \in ThreadState /\ thr \in [Threads -> ThreadState]
  BY DEF Typed
<1>2. y \in ThreadState
  BY <1>1, EmptyCode DEF ThreadState
<1>3. /\ SameFlags(thr[t], y) /\ y.mem = thr[t].mem /\ y.inScope = thr[t].inScope
      /\ y.joining = thr[t].joining /\ y.children = thr[t].children
      /\ y.ended /\ y.code = <<>> /\ y.detached = {}
      /\ y.parent = thr[t].parent /\ y.isDetached = thr[t].isDetached
  BY <1>1 DEF ThreadState, SameFlags
<1>4. s = [thr EXCEPT ![t] = y]
  BY DEF Typed
<1>5. u = Released(s, {t})
  BY DEF EndState
<1> HIDE DEF y, s, u
<1>6. s[t] = y /\ (\A x \in Threads : x # t => s[x] = thr[x]) /\ s \in [Threads -> ThreadState]
  BY <1>1, <1>2, <1>4
<1>7. Typed(s)
  BY <1>3, <1>6 DEF Typed
<1>8. Typed(u)
  BY <1>5, <1>7, ReleasedFades
<1>9. ASSUME NEW x \in Threads PROVE EndedOne(thr[x], u[x], x, t)
  <2>1. /\ SameFlags(s[x], u[x]) /\ ReleasedFrom(s[x], u[x], {t})
        /\ u[x].mem = s[x].mem /\ u[x].ended = s[x].ended /\ u[x].inScope = s[x].inScope
        /\ u[x].code = s[x].code /\ u[x].joining = s[x].joining
        /\ u[x].children = s[x].children /\ u[x].detached = s[x].detached
    BY <1>5, <1>7, ReleasedEffect
  <2>2. CASE x = t
    BY <1>3, <1>6, <2>1, <2>2 DEF EndedOne, SameFlags, ReleasedFrom
  <2>3. CASE x # t
    BY <1>6, <2>1, <2>3 DEF EndedOne
  <2> QED BY <2>2, <2>3
<1> QED BY <1>8, <1>9 DEF u

(* What is known when t ends.                                              *)
Ends(t) ==
    /\ t \in Threads /\ t <= created /\ thr[t].parent # t
    /\ Typed(thr) /\ Family(thr, created, t) /\ Owing(thr)
    /\ ~ thr[t].ended /\ thr[t].mem = "live" /\ thr[t].children = {}
    /\ Subtree(thr, created, t, {}) /\ Typed(EndState(t))
    /\ \A x \in Threads : EndedOne(thr[x], EndState(t)[x], x, t)
    /\ thr[t].isDetached => thr[t].parent # 0
    /\ thr[t].parent # 0 =>
          /\ thr[t].parent \in Threads /\ thr[thr[t].parent].mem = "live"
          /\ Attended(thr[thr[t].parent])
          /\ t \in IF thr[t].isDetached THEN thr[thr[t].parent].detached
                   ELSE thr[thr[t].parent].children

LEMMA EndFacts ==
    ASSUME Parts, Held, NEW t, NEW code, Fetched(t, code), Head(code).op = "end"
    PROVE  Ends(t)
<1>1. /\ t \in Threads /\ t <= created /\ Typed(thr) /\ Family(thr, created, t)
      /\ Owing(thr) /\ ~ thr[t].ended /\ thr[t].mem = "live"
      /\ code \in Codes /\ code \in Seq(Opcodes) /\ code # <<>> /\ Closed(code)
      /\ Cardinality(thr[t].children) + Forks(code) = Collected(code) /\ Forks(code) = 0
  BY DEF Fetched
<1>2. thr[t].children = {}
  <2>1. Collected(code) = Collected(Tail(code)) + 0
    BY <1>1, CollectTail
  <2>2. Tail(code) = <<>>
    BY <1>1, EndIsLast
  <2>3. Collected(code) = 0 + 0
    BY <2>1, <2>2, EmptyCollected, Zenon
  <2>4. Cardinality(thr[t].children) + 0 = 0 + 0
    BY <1>1, <2>3, Zenon
  <2>5. /\ Cardinality(thr[t].children) \in Nat
        /\ Cardinality(thr[t].children) = 0 <=> thr[t].children = {}
    BY <1>1, Kids
  <2> QED BY <2>4, <2>5
<1>3. /\ Kin(thr) /\ thr[t] \in ThreadState /\ Up(thr, t)
      /\ \A x \in Threads : Up(thr, x) /\ Down(thr, x)
  BY <1>1 DEF Parts, Sound, Typed, Family, Linked
<1>4. thr[t].parent < t /\ thr[t].parent \in 0..MaxThreads
      /\ (thr[t].isDetached => thr[t].parent # 0)
  BY <1>1, <1>3 DEF Kin, ThreadState
<1>5. thr[t].parent # t /\ (thr[t].parent # 0 => thr[t].parent \in Threads)
  BY <1>1, <1>4, BoundsAssumption DEF Threads
<1>6. Subtree(thr, created, t, {})
  <2>2. ASSUME NEW x \in Threads, thr[x].parent = t, ~ thr[x].isDetached PROVE FALSE
    BY <1>1, <1>2, <1>3, <2>2 DEF Up, Threads
  <2>3. ASSUME NEW x \in Threads, x # thr[t].parent, Attended(thr[x])
        PROVE  t \notin thr[x].children /\ t \notin thr[x].detached
    BY <1>3, <2>3 DEF Down
  <2> QED BY <1>5, <2>2, <2>3 DEF Subtree
<1>7. Typed(EndState(t)) /\ \A x \in Threads : EndedOne(thr[x], EndState(t)[x], x, t)
  BY <1>1, <1>5, EndEffect
<1> QED BY <1>1, <1>2, <1>3, <1>4, <1>5, <1>6, <1>7 DEF Ends, Up

LEMMA EndLeaves ==
    ASSUME NEW t, Ends(t)
    PROVE  AllLeaving(thr, EndState(t), t, {}, {t})
<1> SUFFICES ASSUME NEW x \in Threads
             PROVE  Leaving(thr[x], EndState(t)[x], x, t, {}, {t})
  BY DEF AllLeaving
<1>1. EndedOne(thr[x], EndState(t)[x], x, t) /\ thr[t].children = {}
  BY DEF Ends
<1>2. CASE x = t
  BY <1>1, <1>2 DEF EndedOne, Leaving, SameFlags
<1>3. CASE x # t
  BY <1>1, <1>3 DEF EndedOne, Leaving, SameFlags
<1> QED BY <1>2, <1>3

LEMMA EndStays ==
    ASSUME NEW t, Ends(t), thr[t].parent # 0, ~ thr[t].isDetached
    PROVE  /\ Buried(thr, EndState(t), {}, {t}, {t})
           /\ Fits(thr, created, {}, {t}, {t})
<1>1. ASSUME NEW x \in Threads
      PROVE  /\ x = t => Over(thr[x], EndState(t)[x], {}, x \in {t})
             /\ x # t => Kept(thr[x], EndState(t)[x], {}, {t})
  <2>1. EndedOne(thr[x], EndState(t)[x], x, t) /\ thr[t].children = {}
    BY DEF Ends
  <2>2. thr[x].children \ {} = thr[x].children /\ thr[x].detached \ {} = thr[x].detached
    OBVIOUS
  <2>3. CASE x = t
    BY <2>1, <2>2, <2>3 DEF EndedOne, SameFlags, Over
  <2>4. CASE x # t
    BY <2>1, <2>2, <2>4 DEF EndedOne, SameFlags, ReleasedFrom, Kept
  <2> QED BY <2>3, <2>4
<1>2. Buried(thr, EndState(t), {}, {t}, {t})
  BY <1>1 DEF Buried
<1>3. Fits(thr, created, {}, {t}, {t})
  BY DEF Ends, Subtree, Fits
<1> QED BY <1>2, <1>3

(* The parent p of a detached thread that ends goes on if it was the last.  *)
Notified(s, p, wakes) ==
    [s EXCEPT ![p] = [s[p] EXCEPT !.waitingFork = s[p].waitingFork /\ ~ wakes,
                                  !.scheduled = s[p].scheduled \/ wakes]]

NotifiedTo(s, v, p, wakes) ==
    /\ Typed(v) /\ SameTies(s[p], v[p])
    /\ v[p].waitingFork = (s[p].waitingFork /\ ~ wakes)
    /\ v[p].scheduled = (s[p].scheduled \/ wakes)
    /\ v[p].tasks = s[p].tasks /\ v[p].joining = s[p].joining
    /\ v[p].waitingEvent = s[p].waitingEvent /\ v[p].code = s[p].code
    /\ \A x \in Threads : x # p => v[x] = s[x]

LEMMA NotifiedFields ==
    ASSUME NEW s, Typed(s), NEW p \in Threads, NEW wakes \in BOOLEAN
    PROVE  NotifiedTo(s, Notified(s, p, wakes), p, wakes)
<1> DEFINE y == [s[p] EXCEPT !.waitingFork = s[p].waitingFork /\ ~ wakes,
                             !.scheduled = s[p].scheduled \/ wakes]
           v == Notified(s, p, wakes)
<1>1. s[p] \in ThreadState /\ s \in [Threads -> ThreadState]
  BY DEF Typed
<1>2. y \in ThreadState
  BY <1>1, ZenonT(30) DEF ThreadState
<1>3. /\ y.waitingFork = (s[p].waitingFork /\ ~ wakes)
      /\ y.scheduled = (s[p].scheduled \/ wakes)
      /\ SameTies(s[p], y) /\ y.tasks = s[p].tasks /\ y.joining = s[p].joining
      /\ y.waitingEvent = s[p].waitingEvent /\ y.code = s[p].code
      /\ y.ended = s[p].ended
  BY <1>1 DEF ThreadState, SameTies
<1>4. v = [s EXCEPT ![p] = y]
  BY DEF Notified
<1> HIDE DEF y, v
<1>5. v[p] = y /\ (\A x \in Threads : x # p => v[x] = s[x]) /\ v \in [Threads -> ThreadState]
  BY <1>1, <1>2, <1>4
<1>6. Typed(v)
  BY <1>3, <1>5 DEF Typed
<1>7. NotifiedTo(s, v, p, wakes)
  BY <1>3, <1>5, <1>6 DEF NotifiedTo
<1> QED BY <1>7 DEF v

(* t, a detached child of p, leaves its parent.                            *)
Parted(s, p, t) ==
    [s EXCEPT ![p].detached = @ \ {t}, ![t].isDetached = FALSE, ![t].parent = 0]

PartedTo(s, v, p, t) ==
    /\ Typed(v)
    /\ SameFlags(s[p], v[p]) /\ v[p].detached = s[p].detached \ {t}
    /\ v[p].mem = s[p].mem /\ v[p].ended = s[p].ended /\ v[p].inScope = s[p].inScope
    /\ v[p].code = s[p].code /\ v[p].joining = s[p].joining
    /\ v[p].parent = s[p].parent /\ v[p].isDetached = s[p].isDetached
    /\ v[p].children = s[p].children
    /\ v[t].parent = 0 /\ v[t].ended = s[t].ended /\ v[t].children = s[t].children
    /\ v[t].scheduled = s[t].scheduled /\ v[t].waitingEvent = s[t].waitingEvent
    /\ \A x \in Threads : x # p /\ x # t => v[x] = s[x]

LEMMA PartedFields ==
    ASSUME NEW s, Typed(s), NEW p \in Threads, NEW t \in Threads, p # t
    PROVE  PartedTo(s, Parted(s, p, t), p, t)
<1> DEFINE y == [s[p] EXCEPT !.detached = s[p].detached \ {t}]
           z == [s[t] EXCEPT !.isDetached = FALSE, !.parent = 0]
           v == Parted(s, p, t)
<1>1. s[p] \in ThreadState /\ s[t] \in ThreadState /\ s \in [Threads -> ThreadState]
  BY DEF Typed
<1>2. y \in ThreadState
  BY <1>1 DEF ThreadState
<1>3. z \in ThreadState
  <2>1. 0 \in 0..MaxThreads
    BY BoundsAssumption
  <2> QED BY <1>1, <2>1 DEF ThreadState
<1>4. /\ SameFlags(s[p], y) /\ y.detached = s[p].detached \ {t}
      /\ y.mem = s[p].mem /\ y.ended = s[p].ended /\ y.inScope = s[p].inScope
      /\ y.code = s[p].code /\ y.joining = s[p].joining
      /\ y.parent = s[p].parent /\ y.isDetached = s[p].isDetached
      /\ y.children = s[p].children
  BY <1>1 DEF ThreadState, SameFlags
<1>5. /\ z.parent = 0 /\ z.ended = s[t].ended /\ z.children = s[t].children
      /\ z.scheduled = s[t].scheduled /\ z.waitingEvent = s[t].waitingEvent
      /\ z.code = s[t].code
  BY <1>1 DEF ThreadState
<1>6. v = [[s EXCEPT ![p] = y] EXCEPT ![t] = z]
  BY <1>1 DEF Parted
<1> HIDE DEF y, z, v
<1>7. /\ v[p] = y /\ v[t] = z /\ (\A x \in Threads : x # p /\ x # t => v[x] = s[x])
      /\ v \in [Threads -> ThreadState]
  BY <1>1, <1>2, <1>3, <1>6
<1>8. Typed(v)
  BY <1>4, <1>5, <1>7 DEF Typed
<1>9. PartedTo(s, v, p, t)
  BY <1>4, <1>5, <1>7, <1>8 DEF PartedTo
<1> QED BY <1>9 DEF v

(* A detached thread that ends is buried, once its parent, if it waited for *)
(* this one only, goes on.                                                 *)
LEMMA EndPartsEffect ==
    ASSUME NEW t, Ends(t), thr[t].isDetached, EndDetached(t)
    PROVE  \E wakes \in BOOLEAN :
              LET p == thr[t].parent
                  v == Notified(thr, p, wakes)
              IN  /\ wakes = (thr[p].waitingFork /\ thr[p].detached \ {t} = {})
                  /\ Typed(thr') /\ Buried(v, thr', {t}, {}, {t})
<1> DEFINE p == thr[t].parent
           e == EndState(t)
           s == Parted(e, p, t)
           wakes == thr[p].waitingFork /\ s[p].detached = {}
           u == [s EXCEPT ![p].waitingFork = @ /\ ~ wakes, ![p].scheduled = @ \/ wakes]
           v == Notified(thr, p, wakes)
<1>1. thr' = Reap(u, t)
  BY DEF EndDetached, Parted
<1>2. /\ t \in Threads /\ p \in Threads /\ p # t /\ Typed(thr) /\ Typed(e)
      /\ thr[t].children = {} /\ Attended(thr[p]) /\ t \in thr[p].detached
      /\ Subtree(thr, created, t, {})
      /\ \A x \in Threads : EndedOne(thr[x], e[x], x, t)
  BY DEF Ends
<1>3. \A x \in Threads : Up(thr, x) /\ Down(thr, x)
  BY DEF Ends, Family, Linked
<1> HIDE DEF p, e
<1>4. PartedTo(e, s, p, t)
  BY <1>2, PartedFields
<1>5. wakes \in BOOLEAN
  OBVIOUS
<1>6. EndedOne(thr[p], e[p], p, t) /\ EndedOne(thr[t], e[t], t, t)
  BY <1>2
<1>7. s[p].detached = thr[p].detached \ {t}
  BY <1>2, <1>4, <1>6 DEF PartedTo, EndedOne
<1>8. wakes = (thr[p].waitingFork /\ thr[p].detached \ {t} = {})
  BY <1>7
<1> HIDE DEF s
<1>9. u = Notified(s, p, wakes)
  <2> HIDE DEF wakes
  <2>1. s \in [Threads -> ThreadState]
    BY <1>4 DEF PartedTo, Typed
  <2>2. u = [[s EXCEPT ![p] = [s[p] EXCEPT !.waitingFork = s[p].waitingFork /\ ~ wakes]]
                EXCEPT ![p].scheduled = @ \/ wakes]
    OBVIOUS
  <2> QED BY <1>2, <2>1, <2>2 DEF Notified, ThreadState
<1> HIDE DEF wakes, u, v
<1>10. NotifiedTo(s, u, p, wakes) /\ NotifiedTo(thr, v, p, wakes)
  BY <1>2, <1>4, <1>5, <1>9, NotifiedFields DEF PartedTo, v
<1>11. /\ Typed(u) /\ u[t].parent = 0 /\ u[t].ended /\ u[t].children = {}
       /\ u[t].scheduled = thr[t].scheduled /\ u[t].waitingEvent = thr[t].waitingEvent
  <2>1. u[t] = s[t] /\ Typed(u)
    BY <1>2, <1>10 DEF NotifiedTo
  <2> QED BY <1>2, <1>4, <1>6, <2>1 DEF PartedTo, EndedOne, SameFlags
<1>12. Reaped(u, thr', t)
  <2>1. u[t].parent # t
    BY <1>2, <1>11 DEF Threads
  <2> QED BY <1>1, <1>2, <1>11, <2>1, ReapEffect
<1>13. \A x \in Threads : ReapedOne(u[x], thr'[x], x, t, 0)
  BY <1>11, <1>12 DEF Reaped
<1>14. Typed(thr')
  BY <1>1, <1>2, <1>11, ReapFades
<1>15. v[t] = thr[t]
  BY <1>2, <1>10 DEF NotifiedTo
<1>16. Gone(v[t], thr'[t])
  <2>1. ReapedOne(u[t], thr'[t], t, t, 0)
    BY <1>2, <1>13
  <2> QED BY <1>11, <1>15, <2>1 DEF ReapedOne, Gone, SameFlags
<1>17. ASSUME NEW x \in Threads, x # t, x # p PROVE Kept(v[x], thr'[x], {t}, {t})
  <2>1. v[x] = thr[x] /\ u[x] = e[x]
    BY <1>4, <1>10, <1>17 DEF NotifiedTo, PartedTo
  <2>2. ReapedOne(e[x], thr'[x], x, t, 0) /\ EndedOne(thr[x], e[x], x, t)
    BY <1>2, <1>13, <2>1
  <2>3. x # 0
    BY DEF Threads
  <2>4. Attended(thr[x]) => thr[x].children \ {t} = thr[x].children
                            /\ thr[x].detached \ {t} = thr[x].detached
    BY <1>2, <1>17 DEF Subtree, p
  <2> QED BY <1>17, <2>1, <2>2, <2>3, <2>4
             DEF ReapedOne, EndedOne, Kept, SameFlags, ReleasedFrom
<1>18. Kept(v[p], thr'[p], {t}, {t})
  <2>1. ReapedOne(u[p], thr'[p], p, t, 0) /\ p # 0
    BY <1>2, <1>13 DEF Threads
  <2>2. t \notin thr[p].children
    BY <1>2, <1>3 DEF Down
  <2>3. /\ SameTies(s[p], u[p])
        /\ u[p].waitingFork = (s[p].waitingFork /\ ~ wakes)
        /\ u[p].scheduled = (s[p].scheduled \/ wakes)
        /\ u[p].tasks = s[p].tasks /\ u[p].joining = s[p].joining
        /\ u[p].waitingEvent = s[p].waitingEvent /\ u[p].code = s[p].code
    BY <1>10 DEF NotifiedTo
  <2>4. /\ SameTies(thr[p], v[p])
        /\ v[p].waitingFork = (thr[p].waitingFork /\ ~ wakes)
        /\ v[p].scheduled = (thr[p].scheduled \/ wakes)
        /\ v[p].tasks = thr[p].tasks /\ v[p].joining = thr[p].joining
        /\ v[p].waitingEvent = thr[p].waitingEvent /\ v[p].code = thr[p].code
    BY <1>10 DEF NotifiedTo
  <2>5. /\ SameFlags(e[p], s[p]) /\ s[p].detached = thr[p].detached \ {t}
        /\ s[p].mem = e[p].mem /\ s[p].ended = e[p].ended /\ s[p].inScope = e[p].inScope
        /\ s[p].code = e[p].code /\ s[p].joining = e[p].joining
        /\ s[p].parent = e[p].parent /\ s[p].isDetached = e[p].isDetached
        /\ s[p].children = e[p].children
    BY <1>4, <1>7 DEF PartedTo
  <2>6. /\ SameFlags(v[p], u[p]) /\ u[p].detached = v[p].detached \ {t}
        /\ u[p].mem = v[p].mem /\ u[p].ended = v[p].ended /\ u[p].inScope = v[p].inScope
        /\ u[p].code = v[p].code /\ u[p].joining = v[p].joining
        /\ ReleasedFrom(v[p], u[p], {t}) /\ u[p].children = v[p].children
    BY <1>2, <1>6, <2>3, <2>4, <2>5 DEF EndedOne, SameFlags, SameTies, ReleasedFrom
  <2>7. v[p].children \ {t} = v[p].children
    BY <2>2, <2>4 DEF SameTies
  <2> QED BY <1>2, <2>1, <2>6, <2>7 DEF ReapedOne, Kept, SameFlags, ReleasedFrom
<1>19. Buried(v, thr', {t}, {}, {t})
  BY <1>16, <1>17, <1>18 DEF Buried
<1> QED BY <1>5, <1>8, <1>14, <1>19 DEF v, p

LEMMA EndPartsRest ==
    ASSUME NEW t, Ends(t), thr[t].isDetached, EndDetached(t)
    PROVE  /\ Family(thr', created, 0) /\ Owing(thr')
           /\ (Waiting(thr) => Waiting(thr'))
<1> DEFINE p == thr[t].parent
<1>1. PICK wakes \in BOOLEAN :
        /\ wakes = (thr[p].waitingFork /\ thr[p].detached \ {t} = {})
        /\ Typed(thr') /\ Buried(Notified(thr, p, wakes), thr', {t}, {}, {t})
  BY EndPartsEffect
<1> DEFINE v == Notified(thr, p, wakes)
<1>2. /\ t \in Threads /\ t <= created /\ p \in Threads /\ p # t /\ Typed(thr)
      /\ Family(thr, created, t) /\ Owing(thr)
      /\ thr[t].children = {} /\ thr[p].mem = "live" /\ Attended(thr[p])
  BY DEF Ends
<1>3. /\ \A x \in Threads : Up(thr, x) /\ Down(thr, x)
      /\ \A x \in Threads : Memory(thr[x], x <= created, x = t)
  BY <1>2 DEF Family, Linked, Remembered
<1> HIDE DEF p
<1>4. NotifiedTo(thr, v, p, wakes)
  BY <1>2, NotifiedFields
<1> HIDE DEF v
<1>5. \A x \in Threads : /\ SameTies(thr[x], v[x])
                         /\ v[x].code = thr[x].code /\ v[x].joining = thr[x].joining
                         /\ v[x].tasks = thr[x].tasks
  <2>1. \A x \in Threads : SameTies(thr[x], thr[x])
    BY DEF SameTies
  <2> QED BY <1>4, <2>1 DEF NotifiedTo
<1>6. Family(v, created, t)
  <2>1. ASSUME NEW x \in Threads
        PROVE  /\ v[x].scheduled \/ v[x].waitingEvent => thr[x].mem = "live"
               /\ thr[x].mem = "live" /\ ~ Attended(thr[x])
                    => v[x].scheduled \/ v[x].waitingEvent \/ x = t
    <3>1. CASE x = p
      BY <1>2, <3>1
    <3>2. CASE x # p
      BY <1>3, <1>4, <3>2 DEF Memory, NotifiedTo
    <3> QED BY <3>1, <3>2
  <2> QED BY <1>2, <1>5, <2>1, TiesFamily
<1>7. Typed(v)
  BY <1>4 DEF NotifiedTo
<1>8. \A x \in Threads : /\ v[x].parent = thr[x].parent
                         /\ v[x].isDetached = thr[x].isDetached
                         /\ v[x].children = thr[x].children
                         /\ v[x].detached = thr[x].detached
                         /\ v[x].ended = thr[x].ended
  BY <1>5 DEF SameTies
<1>9. Fits(v, created, {t}, {}, {t})
  <2>1. ASSUME NEW x \in Threads, v[x].parent = t, ~ v[x].isDetached PROVE FALSE
    BY <1>2, <1>3, <1>8, <2>1 DEF Up, Threads
  <2> QED BY <1>2, <2>1 DEF Fits
<1>10. Buried(v, thr', {t}, {}, {t}) /\ Typed(thr')
  BY <1>1 DEF v
<1>11. Family(thr', created, 0)
  <2>1. t \in {t} \cup {} \cup {0, 0}
    OBVIOUS
  <2> QED BY <1>6, <1>7, <1>9, <1>10, <2>1, Buries
<1>12. v[t].parent = p /\ v[t].isDetached
  BY <1>2, <1>8 DEF p
<1>13. Owing(thr')
  <2>1. OwingBut(v, 0, 0)
    <3>1. ASSUME NEW x \in Threads, ~ v[x].ended PROVE Owes(v[x], v[x].code)
      <4>1. Owes(thr[x], thr[x].code)
        BY <1>2, <1>8, <3>1 DEF Owing
      <4> QED BY <1>5, <1>8, <4>1, OwesSame
    <3> QED BY <3>1 DEF OwingBut
  <2>2. \A x \in {t} : \/ v[x].parent \in {t} \cup {} \cup {0}
                       \/ v[x].isDetached
                       \/ (0 # 0 /\ x = 0)
    BY <1>12
  <2>3. \A x \in Threads : Forks(v[x].code) \in Nat /\ Collected(v[x].code) \in Nat
    BY <1>7, TypedCounts
  <2> QED BY <1>6, <1>7, <1>9, <1>10, <2>1, <2>2, <2>3, BuriedOwes
<1>14. ASSUME Waiting(thr) PROVE Waiting(thr')
  <2>1. ASSUME NEW x \in Threads \ ({t} \cup {}), ~ v[x].ended PROVE Spared(v, x, {t}, {})
    <3>1. Waits(thr, x)
      BY <1>8, <1>14, <2>1 DEF Waiting
    <3>2. \A k \in thr[x].children : k \in Threads /\ v[k].ended = thr[k].ended
      BY <1>2, <1>8, Kids
    <3>3. CASE x = p
      <4>1. t \notin thr[p].children
        BY <1>2, <1>3, <1>8, <1>12 DEF Down
      <4>2. v[p].waitingFork => v[p].detached \ {t} # {}
        BY <1>1, <1>2, <1>4, <1>8 DEF NotifiedTo
      <4>3. v[p].tasks \subseteq v[p].children \ {t}
        BY <1>2, <1>5, <1>8, <3>1, <3>3, <4>1 DEF Waits
      <4>4. v[p].joining => \E k \in v[p].children :
               ~ v[k].ended /\ Joinable(v, p, k) /\ k \notin {t} \cup {}
        BY <1>2, <1>5, <1>8, <3>1, <3>2, <3>3, <4>1 DEF Waits, Joinable
      <4>5. Detaches(v[p].code) => v[p].tasks = {} /\ Fork("task") \notin ToSet(v[p].code)
        BY <1>2, <1>5, <3>1, <3>3 DEF Waits, Detaches
      <4> QED BY <3>3, <4>2, <4>3, <4>4, <4>5 DEF Spared
    <3>4. CASE x # p
      <4>1. v[x] = thr[x]
        BY <1>4, <2>1, <3>4 DEF NotifiedTo
      <4>2. Waits(v, x)
        BY <3>1, <3>2, <4>1, WaitsAlike DEF SameWaits
      <4>3. \A k \in {t} : v[k].parent # x
        BY <1>12, <3>4
      <4> QED BY <1>6, <1>7, <2>1, <4>2, <4>3, WaitsSpared
    <3> QED BY <3>3, <3>4
  <2> QED BY <1>7, <1>10, <2>1, BuriedWaits
<1> QED BY <1>11, <1>13, <1>14

LEMMA EndKeeps ==
    ASSUME Parts, Held, NEW t, t = running, running # 0,
           NEW code \in NextCode(t), End(t, code)
    PROVE  Keeps
<1> DEFINE p == thr[t].parent
           e == EndState(t)
<1>1. /\ Fetch(t, code) /\ Head(code).op = "end" /\ Suspend /\ created' = created
      /\ IF ParentJoins(t) THEN EndJoined(t)
         ELSE IF thr[t].isDetached THEN EndDetached(t)
         ELSE thr' = IF thr[t].parent = 0 THEN Reap(e, t) ELSE e
  BY DEF End
<1>2. Fetched(t, code) /\ Ends(t)
  BY <1>1, FetchFacts, EndFacts
<1>3. /\ t \in Threads /\ t <= created /\ Typed(thr) /\ Typed(e)
      /\ Family(thr, created, t) /\ Owing(thr) /\ Subtree(thr, created, t, {})
      /\ p # 0 /\ ~ thr[t].isDetached => /\ p \in Threads /\ p # t
                                         /\ t \in thr[p].children
      /\ \A x \in Threads : EndedOne(thr[x], e[x], x, t)
  BY <1>2 DEF Ends
<1>4. AllLeaving(thr, e, t, {}, {t})
  BY <1>2, EndLeaves
<1>5. Typed(thr')
  BY <1>1, EndStep DEF Parts, Sound
<1> HIDE DEF e
<1>6. ASSUME Family(thr', created, 0), Owing(thr'), Waiting(thr) => Waiting(thr')
      PROVE  Keeps
  <2>1. ~ Continue
    BY <1>1 DEF Continue, Suspend
  <2> QED BY <1>1, <1>2, <1>6, <2>1, Settles
<1>7. CASE p = 0 /\ ~ thr[t].isDetached
  <2> DEFINE E == {} \cup {t}
  <2>1. thr' = Reap(e, t)
    BY <1>1, <1>7 DEF ParentJoins
  <2>2. Buried(thr, thr', E, {}, E) /\ Fits(thr, created, E, {}, E)
    BY <1>3, <1>4, <2>1, LeavingBuries DEF AllLeaving
  <2>3. t \in E \cup {} \cup {0, 0} /\ \A x \in E : thr[x].parent \in E \cup {} \cup {0}
    BY <1>7
  <2> HIDE DEF E
  <2>4. Family(thr', created, 0)
    BY <1>3, <1>5, <2>2, <2>3, Buries
  <2>5. Owing(thr') /\ (Waiting(thr) => Waiting(thr'))
    BY <1>3, <2>2, <2>3, BuriedRest
  <2> QED BY <1>6, <2>4, <2>5
<1>8. CASE p # 0 /\ ~ thr[t].isDetached /\ thr[p].joining /\ Joinable(thr, p, t)
  <2>1. thr' = Joined(Rejoined(e, p), p, t)
    BY <1>1, <1>8 DEF ParentJoins, EndJoined, Rejoined, e
  <2>2. /\ p \in Threads /\ ~ e[p].ended /\ ~ thr[p].waitingFork
    <3>1. Memory(thr[p], p <= created, p = t) /\ EndedOne(thr[p], e[p], p, t)
      BY <1>3, <1>8 DEF Family, Remembered
    <3>2. OneReason(thr[p], p = running)
      BY <1>3, <1>8 DEF Parts, Sound, Single
    <3> QED BY <1>3, <1>8, <3>1, <3>2 DEF Memory, EndedOne, OneReason
  <2>3. thr' = Reap(Called(e, p, t), t)
    BY <1>3, <2>1, <2>2, CalledIs
  <2> DEFINE v == Called(thr, p, t)
             E == {} \cup {t}
  <2>4. CalledOver(thr, v, Reap(Called(e, p, t), t), created, t, p, t, E)
    <3>1. {} \subseteq {t} /\ {t} \subseteq {} \cup {t}
      OBVIOUS
    <3>2. thr[t].parent = p
      OBVIOUS
    <3> HIDE DEF p
    <3> QED BY <1>3, <1>4, <1>8, <2>2, <3>1, <3>2, CalledBuries
  <2>5. t \in E \cup {} \cup {0, 0}
    OBVIOUS
  <2> HIDE DEF v, E
  <2>6. /\ CalledTo(thr, v, p, t) /\ Family(v, created, t)
        /\ Buried(v, thr', E, {}, E) /\ Fits(v, created, E, {}, E)
        /\ Owing(thr') /\ (Waiting(thr) => Waiting(thr'))
    BY <2>3, <2>4 DEF CalledOver
  <2>7. Typed(v)
    BY <2>6 DEF CalledTo
  <2>8. Family(thr', created, 0)
    BY <1>5, <2>5, <2>6, <2>7, Buries
  <2> QED BY <1>6, <2>6, <2>8
<1>9. CASE p # 0 /\ ~ thr[t].isDetached /\ ~ (thr[p].joining /\ Joinable(thr, p, t))
  <2>1. thr' = e
    BY <1>1, <1>9 DEF ParentJoins, EndJoined, e
  <2>2. Buried(thr, thr', {}, {t}, {t}) /\ Fits(thr, created, {}, {t}, {t})
    BY <1>2, <1>9, <2>1, EndStays DEF e
  <2>3. Family(thr', created, 0)
    <3>1. t \in {} \cup {t} \cup {0, 0}
      OBVIOUS
    <3> QED BY <1>3, <1>5, <2>2, <3>1, Buries
  <2>4. \A x \in {t} : thr[thr[x].parent].joining => ~ Joinable(thr, thr[x].parent, x)
    BY <1>9
  <2>5. Owing(thr') /\ (Waiting(thr) => Waiting(thr'))
    BY <1>3, <2>2, <2>4, BuriedRest
  <2> QED BY <1>6, <2>3, <2>5
<1>10. CASE thr[t].isDetached
  <2>1. EndDetached(t)
    BY <1>1, <1>10 DEF ParentJoins
  <2>2. /\ Family(thr', created, 0) /\ Owing(thr')
        /\ (Waiting(thr) => Waiting(thr'))
    BY <1>2, <1>10, <2>1, EndPartsRest
  <2> QED BY <1>6, <2>2
<1> QED BY <1>7, <1>8, <1>9, <1>10

-----------------------------------------------------------------------------
(***************************************************************************)
(* The theorems.                                                           *)
(***************************************************************************)
LEMMA InitHeld ==
    ASSUME Init
    PROVE  Held /\ Waiting(thr)
<1> USE BoundsAssumption DEF Threads
<1> DEFINE N == NewThread("module", 0)
           U == Unused
<1>1. /\ \A t \in Threads : thr[t] = IF t <= 2 THEN N ELSE U
      /\ created = 2 /\ running = 0 /\ NotDisabling /\ Forker = 0
  BY DEF Init, NotDisabling, Forker
<1>2. /\ N.mem = "live" /\ N.scheduled /\ N.inScope
      /\ U.mem = "none" /\ ~ U.scheduled /\ ~ U.inScope
      /\ \A x \in {N, U} : /\ ~ x.ended /\ ~ x.waitingEvent /\ x.parent = 0
                           /\ x.children = {} /\ x.detached = {} /\ x.tasks = {}
                           /\ ~ x.joining /\ ~ x.waitingFork /\ ~ x.isDetached
                           /\ x.code = <<>>
  BY DEF NewThread, Unused
<1> HIDE DEF N, U
<1>3. ASSUME NEW t \in Threads PROVE Memory(thr[t], t <= created, t = 0)
  <2>1. CASE t <= 2
    BY <1>1, <1>2, <2>1 DEF Memory, Attended
  <2>2. CASE ~ (t <= 2)
    BY <1>1, <1>2, <2>2 DEF Memory, Attended
  <2> QED BY <2>1, <2>2
<1>4. \A t \in Threads : thr[t] \in {N, U}
  BY <1>1
<1>5. ASSUME NEW t \in Threads PROVE Up(thr, t) /\ Down(thr, t)
  <2>1. thr[t].parent = 0 /\ thr[t].children = {} /\ thr[t].detached = {}
    BY <1>2, <1>4
  <2> QED BY <2>1 DEF Up, Down
<1>6. ASSUME NEW t \in Threads PROVE Owes(thr[t], thr[t].code)
  <2>1. thr[t].children = {} /\ thr[t].code = <<>> /\ ~ thr[t].joining
    BY <1>2, <1>4
  <2>2. Cardinality({}) = 0 /\ Forks(<<>>) = 0 /\ Collected(<<>>) = 0
    BY EmptyCollected, FS_EmptySet
  <2>3. 0 + 0 = 0 + (IF thr[t].joining THEN 1 ELSE 0)
    BY <2>1
  <2> QED BY <2>1, <2>2, <2>3, Zenon DEF Owes
<1>7. ASSUME NEW t \in Threads PROVE Waits(thr, t)
  <2>1. /\ thr[t].tasks = {} /\ thr[t].code = <<>> /\ ~ thr[t].joining
        /\ ~ thr[t].waitingFork
    BY <1>2, <1>4
  <2>2. ~ Detaches(thr[t].code)
    BY <2>1, EmptyCollected
  <2> QED BY <2>1, <2>2 DEF Waits, Detaches
<1> QED BY <1>1, <1>3, <1>5, <1>6, <1>7
         DEF Held, Family, Remembered, Linked, Owing, Waiting, Disables

LEMMA OpcodeKeeps ==
    ASSUME Parts, Held, ~ DisableDetached, running # 0,
           NEW code \in NextCode(running), Opcode(running, code)
    PROVE  Keeps
<1> DEFINE t == running
<1>1. CASE Delay(t, code)       BY <1>1, DelayKeeps
<1>2. CASE Yield(t, code)       BY <1>2, YieldKeeps
<1>3. CASE Wait(t, code)        BY <1>3, WaitKeeps
<1>4. CASE Event(t, code)       BY <1>4, EventKeeps
<1>5. CASE ForkChild(t, code)   BY <1>5, ForkChildKeeps
<1>6. CASE JoinEnded(t, code)   BY <1>6, JoinEndedKeeps
<1>7. CASE JoinWaits(t, code)   BY <1>7, JoinWaitsKeeps
<1>8. CASE JoinDetach(t, code)  BY <1>8, JoinDetachKeeps
<1>9. CASE WaitFork(t, code)    BY <1>9, WaitForkKeeps
<1>10. CASE DisableFork(t, code) BY <1>10, DisableForkKeeps
<1>11. CASE BeginDisable(t, code) BY <1>11, BeginDisableKeeps
<1>12. CASE End(t, code)        BY <1>12, EndKeeps
<1> QED BY <1>1, <1>2, <1>3, <1>4, <1>5, <1>6, <1>7, <1>8, <1>9, <1>10, <1>11,
           <1>12 DEF Opcode

LEMMA NextKeeps ==
    ASSUME Parts, Held, ~ DisableDetached, [Next]_vars
    PROVE  Keeps
<1>1. CASE RunEvent
  BY <1>1, RunEventKeeps
<1>2. CASE RunNext
  BY <1>2, RunNextKeeps
<1>3. CASE Advance
  BY <1>3, AdvanceKeeps
<1>4. CASE running # 0 /\ \E code \in NextCode(running) : Opcode(running, code)
  BY <1>4, OpcodeKeeps
<1>5. CASE \E t \in Threads : Zombie(t)
  BY <1>5, ZombieKeeps
<1>6. CASE DisableNext
  BY <1>6, DisableNextKeeps
<1>7. CASE DisableDone
  BY <1>7, DisableDoneKeeps
<1>8. CASE UNCHANGED vars
  BY <1>8, SameKeeps DEF vars
<1> QED BY <1>1, <1>2, <1>3, <1>4, <1>5, <1>6, <1>7, <1>8 DEF Next

LEMMA HeldIsFamilyInv == Held => FamilyInv
<1> SUFFICES ASSUME Held PROVE FamilyInv
  OBVIOUS
<1>1. ASSUME NEW t \in Threads
      PROVE  Memory(thr[t], t <= created, t = running /\ NotDisabling)
  <2>1. Memory(thr[t], t <= created, t = Forker) /\ t # 0
    BY DEF Held, Family, Remembered, Threads
  <2>2. t = Forker => t = running /\ NotDisabling
    BY <2>1 DEF Forker
  <2> QED BY <2>1, <2>2 DEF Memory
<1>2. running # 0 /\ NotDisabling => thr[running].mem = "live"
  BY DEF Held, Forker
<1> QED BY <1>1, <1>2 DEF Held, Family, Linked, Owing, FamilyInv

LEMMA HandlesOf ==
    ASSUME IInv, Held
    PROVE  HandlesLive
<1>1. /\ \A t \in Threads : Memory(thr[t], t <= created, t = Forker)
      /\ \A t \in Threads : Up(thr, t) /\ Down(thr, t)
      /\ Typed(thr)
  BY PartsOfIInv DEF Held, Family, Remembered, Linked, Parts, Sound
<1>2. \A t \in InEvents \cup ToSet(waiters) : thr[t].mem = "live"
  <2>1. \A t \in InEvents \cup ToSet(waiters) :
           t \in Threads /\ (thr[t].scheduled \/ thr[t].waitingEvent)
    BY DEF IInv, QueuedOnce
  <2> QED BY <1>1, <2>1 DEF Memory
<1>3. running # 0 /\ NotDisabling => thr[running].mem = "live"
  BY DEF Held, Forker
<1>4. ASSUME NEW t \in Threads, Live(t) \/ thr[t].parent # 0,
             NEW x \in thr[t].children \cup thr[t].detached \cup ({thr[t].parent} \ {0})
      PROVE  thr[x].mem = "live"
  <2>1. CASE x = thr[t].parent /\ x # 0
    BY <1>1, <2>1 DEF Up
  <2>2. CASE x \in thr[t].children \cup thr[t].detached
    <3>1. thr[t] \in ThreadState /\ Attended(thr[t])
      BY <1>1, <1>4 DEF Typed, Live, Attended
    <3>2. x \in Threads
      BY <2>2, <3>1 DEF ThreadState
    <3>3. thr[x].parent = t /\ t # 0
      BY <1>1, <2>2, <3>1 DEF Down, Threads
    <3> QED BY <1>1, <3>2, <3>3 DEF Memory
  <2> QED BY <1>4, <2>1, <2>2
<1>5. ASSUME NEW t \in Threads, thr[t].mem = "live", thr[t].ended, thr[t].parent = 0
      PROVE  thr[t].scheduled \/ thr[t].waitingEvent \/ running = t
  <2>1. Memory(thr[t], t <= created, t = Forker) /\ t # 0
    BY <1>1 DEF Threads
  <2>2. t = Forker => t = running
    BY <2>1 DEF Forker
  <2> QED BY <1>5, <2>1, <2>2 DEF Memory, Attended
<1> QED BY <1>2, <1>3, <1>4, <1>5 DEF HandlesLive

LEMMA WakeUpsOf ==
    ASSUME Parts, Held, Waiting(thr)
    PROVE  NoLostWakeUp
<1> SUFFICES ASSUME NEW t \in Threads, Live(t)
             PROVE  /\ thr[t].joining =>
                          \E c \in thr[t].children : ~ thr[c].ended /\ Joinable(thr, t, c)
                    /\ thr[t].waitingFork => \E c \in thr[t].detached : ~ thr[c].ended
  BY DEF NoLostWakeUp
<1>1. Waits(thr, t) /\ ~ thr[t].ended
  BY DEF Waiting, Live
<1>2. ASSUME NEW c \in thr[t].detached PROVE ~ thr[c].ended
  <2>1. Down(thr, t) /\ Typed(thr) /\ t # 0
    BY DEF Held, Family, Linked, Parts, Sound, Threads
  <2>2. thr[c].parent = t /\ thr[c].isDetached /\ c \in Threads
    BY <1>1, <1>2, <2>1 DEF Down, Attended, Typed, ThreadState
  <2>3. Memory(thr[c], c <= created, c = Forker)
    BY <2>2 DEF Held, Family, Remembered
  <2> QED BY <2>1, <2>2, <2>3 DEF Memory
<1> QED BY <1>1, <1>2 DEF Waits

LEMMA AgreesOf ==
    ASSUME Parts, Held, Waiting(thr)
    PROVE  FamilyAgrees
<1> SUFFICES ASSUME NEW t \in Threads, Live(t)
             PROVE  /\ \A x \in Threads :
                        /\ x \in thr[t].children <=> thr[x].parent = t /\ ~ thr[x].isDetached
                        /\ x \in thr[t].detached <=> thr[x].parent = t /\ thr[x].isDetached
                    /\ Owes(thr[t], thr[t].code)
                    /\ thr[t].code # <<>> /\ Head(thr[t].code).op = "detach"
                          => thr[t].tasks = {}
  BY DEF FamilyAgrees, Owes
<1>1. ~ thr[t].ended /\ Waits(thr, t) /\ Owes(thr[t], thr[t].code) /\ t # 0
  BY DEF Live, Held, Owing, Waiting, Threads
<1>2. ASSUME NEW x \in Threads
      PROVE  /\ x \in thr[t].children <=> thr[x].parent = t /\ ~ thr[x].isDetached
             /\ x \in thr[t].detached <=> thr[x].parent = t /\ thr[x].isDetached
  <2>1. Up(thr, x) /\ Down(thr, t)
    BY DEF Held, Family, Linked
  <2> QED BY <1>1, <2>1 DEF Up, Down, Attended
<1>3. ASSUME thr[t].code # <<>>, Head(thr[t].code).op = "detach" PROVE thr[t].tasks = {}
  <2> DEFINE c == thr[t].code
  <2>1. c \in Codes
    BY DEF Parts, Sound, Typed, ThreadState
  <2>2. c \in Seq(Opcodes)
    BY <2>1, CodeShape
  <2> HIDE DEF c
  <2>3. 1 \in DOMAIN c /\ c[1].op = "detach"
    BY <1>3, <2>2 DEF c
  <2> QED BY <1>1, <2>3 DEF Waits, c
<1> QED BY <1>1, <1>2, <1>3

(* If no disable finds a detached thread in its scope, parents and children *)
(* point to each other, a thread is given back when it has ended and no    *)
(* pointer leads to it, and it collects exactly the children it forked:    *)
(* with any number of threads, whatever they fork, join, detach or disable *)
(* (vthread.cc:594-660, 2282-2360, 2646-2780, 3467-3468, 6118-6128).       *)
THEOREM Families == ASSUME ~ DisableDetached PROVE Spec => []FamilyInv
<1>1. Init => Parts /\ Held
  BY InitParts, InitHeld
<1>2. Parts /\ Held /\ [Next]_vars => (Parts /\ Held)'
  BY NextParts, NextKeeps DEF Keeps
<1>3. Parts /\ Held => FamilyInv
  BY HeldIsFamilyInv
<1> QED BY <1>1, <1>2, <1>3, PTL DEF Spec

(* Nothing the run time may still follow leads to a thread that was given   *)
(* back, and every thread that has ended and is not to be joined is given  *)
(* back, at the latest by its last event (vthread.cc:609-660, 6118-6128).  *)
THEOREM HandlesStayLive == ASSUME ~ DisableDetached PROVE Spec => []HandlesLive
<1>1. Init => Parts /\ Held
  BY InitParts, InitHeld
<1>2. Parts /\ Held /\ [Next]_vars => (Parts /\ Held)'
  BY NextParts, NextKeeps DEF Keeps
<1>3. Parts /\ Held => HandlesLive
  BY IInvOfParts, HandlesOf
<1> QED BY <1>1, <1>2, <1>3, PTL DEF Spec

(* If moreover no task forks in its own scope, the running tasks of a       *)
(* thread are among its children and joined before any other, and whoever  *)
(* waits for a child, or for all the detached ones, has one that runs      *)
(* (vthread.cc:2327-2340, 2734-2774, 3467-3468).                           *)
THEOREM Waitings ==
    ASSUME ~ DisableDetached, ~ TaskForks
    PROVE  Spec => []WaitInv
<1>1. Init => Parts /\ Held /\ Waiting(thr)
  BY InitParts, InitHeld
<1>2. Parts /\ Held /\ Waiting(thr) /\ [Next]_vars => (Parts /\ Held /\ Waiting(thr))'
  BY NextParts, NextKeeps DEF Keeps, Waiting
<1>3. Parts /\ Held /\ Waiting(thr) => WaitInv
  BY HeldIsFamilyInv DEF WaitInv, Waiting
<1> QED BY <1>1, <1>2, <1>3, PTL DEF Spec

(* No wake-up is lost: a thread in a join has a child whose end will end    *)
(* the wait, and one in wait fork a detached child that still runs         *)
(* (vthread.cc:2741-2757, 2327-2340, 2768-2774).                           *)
THEOREM WakeUpsKept ==
    ASSUME ~ DisableDetached, ~ TaskForks
    PROVE  Spec => []NoLostWakeUp
<1>1. Init => Parts /\ Held /\ Waiting(thr)
  BY InitParts, InitHeld
<1>2. Parts /\ Held /\ Waiting(thr) /\ [Next]_vars => (Parts /\ Held /\ Waiting(thr))'
  BY NextParts, NextKeeps DEF Keeps, Waiting
<1>3. Parts /\ Held /\ Waiting(thr) => NoLostWakeUp
  BY WakeUpsOf
<1> QED BY <1>1, <1>2, <1>3, PTL DEF Spec

(* Parents and children agree on who belongs to whom, every child is        *)
(* collected exactly once, and at a %join/detach no task is left to be     *)
(* joined: the assertions of of_JOIN_DETACH and of_END cannot fail         *)
(* (vthread.cc:2734-2736, 3467-3468).                                      *)
THEOREM FamiliesAgree ==
    ASSUME ~ DisableDetached, ~ TaskForks
    PROVE  Spec => []FamilyAgrees
<1>1. Init => Parts /\ Held /\ Waiting(thr)
  BY InitParts, InitHeld
<1>2. Parts /\ Held /\ Waiting(thr) /\ [Next]_vars => (Parts /\ Held /\ Waiting(thr))'
  BY NextParts, NextKeeps DEF Keeps, Waiting
<1>3. Parts /\ Held /\ Waiting(thr) => FamilyAgrees
  BY AgreesOf
<1> QED BY <1>1, <1>2, <1>3, PTL DEF Spec
=============================================================================
