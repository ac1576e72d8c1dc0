--------------------------- MODULE ScheduleProofs ---------------------------
(***************************************************************************)
(* Proofs about the event scheduler, Schedule.tla.                         *)
(***************************************************************************)
EXTENDS Schedule, Lemmas

(* The cells of a list, seen from time t: each is its delay after the one  *)
(* before it.  This is the part of CellsInOrder that is about the cells.   *)
Spaced(l, t) ==
    \A i \in 1..Len(l) :
        /\ l[i].at = (IF i = 1 THEN t ELSE l[i-1].at) + l[i].delay
        /\ i > 1 => l[i].delay > 0

-----------------------------------------------------------------------------
(* The time a cell's delay counts from. *)
Base(l, t, i) == IF i = 1 THEN t ELSE l[i-1].at

(* What is left of the delay at cell i is the time from the cell before it *)
(* to the time the event is due.                                           *)
LEMMA RemainingValue ==
    ASSUME NEW l \in Seq(Cell), NEW t \in Nat, NEW d \in Nat, Spaced(l, t)
    PROVE  \A i \in 1..Len(l) :
              Remaining(l, d)[i] = (t + d) - Base(l, t, i)
<1> DEFINE F(g) == [i \in 1..Len(l) |-> IF i = 1 THEN d ELSE g[i-1] - l[i-1].delay]
           G == [i \in 1..Len(l) |-> IF i = 1 THEN d ELSE (t + d) - l[i-1].at]
           r == CHOOSE g : g = F(g)
<1>0. /\ Len(l) \in Nat
      /\ \A i \in 1..Len(l) : l[i] \in Cell
  OBVIOUS
<1>1. \A i \in 1..Len(l) : l[i].at \in Nat /\ l[i].delay \in Nat
  BY <1>0 DEF Cell
<1>2. G = F(G)
  <2>1. SUFFICES ASSUME NEW i \in 1..Len(l) PROVE G[i] = F(G)[i]
    OBVIOUS
  <2>2. CASE i = 1
    BY <2>2
  <2>3. CASE i # 1
    <3>1. i - 1 \in 1..Len(l) /\ i \in Int
      BY <1>0, <2>3
    <3>2. F(G)[i] = G[i-1] - l[i-1].delay
      BY <2>3
    <3>3. CASE i = 2
      <4>1. l[1].at = t + l[1].delay
        BY <1>0, <3>1 DEF Spaced
      <4>2. G[1] = d
        BY <1>0, <3>1
      <4>3. l[1].at \in Nat /\ l[1].delay \in Nat
        BY <1>1, <3>1, <3>3
      <4>4. (t + d) - l[1].at = d - l[1].delay
        BY <4>1, <4>3
      <4> QED BY <2>3, <3>2, <3>3, <4>2, <4>4
    <3>4. CASE i # 2
      <4>1. i - 1 # 1 /\ (i - 1) - 1 = i - 2 /\ i - 2 \in 1..Len(l)
        BY <1>0, <2>3, <3>1, <3>4
      <4>2. l[i-1].at = l[i-2].at + l[i-1].delay
        BY <3>1, <4>1 DEF Spaced
      <4>3. G[i-1] = (t + d) - l[i-2].at
        BY <3>1, <4>1
      <4>4. l[i-1].at \in Nat /\ l[i-2].at \in Nat /\ l[i-1].delay \in Nat
        BY <1>1, <3>1, <4>1
      <4>5. (t + d) - l[i-1].at = ((t + d) - l[i-2].at) - l[i-1].delay
        BY <4>2, <4>4, SMTT(30)
      <4> QED BY <2>3, <3>2, <4>3, <4>5
    <3> QED BY <3>3, <3>4
  <2> QED BY <2>2, <2>3
<1>3. r = F(r)
  <2> HIDE DEF G, F
  <2> QED BY <1>2
<1>4. Remaining(l, d) = r
  BY DEF Remaining
<1> DEFINE S == {n \in Nat : n + 1 \in 1..Len(l) => r[n+1] = G[n+1]}
<1> HIDE DEF r
<1>5. 0 \in S
  <2>1. SUFFICES ASSUME 0 + 1 \in 1..Len(l) PROVE r[0+1] = G[0+1]
    OBVIOUS
  <2>2. 0 + 1 = 1 /\ 1 \in 1..Len(l)
    BY <2>1
  <2>3. F(r)[1] = d /\ G[1] = d
    BY <2>2
  <2>4. r[1] = d
    BY <1>3, <2>3
  <2> QED BY <2>2, <2>3, <2>4
<1>6. ASSUME NEW n \in Nat, n \in S PROVE n + 1 \in S
  <2>1. SUFFICES ASSUME (n + 1) + 1 \in 1..Len(l)
                 PROVE  r[(n+1)+1] = G[(n+1)+1]
    OBVIOUS
  <2> DEFINE i == (n + 1) + 1
  <2>2. i \in 1..Len(l) /\ i # 1 /\ i - 1 = n + 1 /\ n + 1 \in 1..Len(l)
    BY <1>0, <2>1
  <2>3. F(r)[i] = r[i-1] - l[i-1].delay
    BY <2>2
  <2>4. F(G)[i] = G[i-1] - l[i-1].delay
    BY <2>2
  <2>5. r[n+1] = G[n+1]
    BY <1>6, <2>2
  <2> HIDE DEF F, G, i
  <2>6. r[i] = G[i]
    BY <1>2, <1>3, <2>2, <2>3, <2>4, <2>5
  <2> QED BY <2>6 DEF i
<1> HIDE DEF S
<1>7. Nat \subseteq S
  BY <1>5, <1>6, NatIsInductive
<1>8. ASSUME NEW i \in 1..Len(l) PROVE r[i] = G[i]
  <2>1. i - 1 \in Nat /\ (i - 1) + 1 = i
    BY <1>0
  <2>2. i - 1 \in S
    BY <1>7, <2>1
  <2> QED BY <2>1, <2>2 DEF S
<1>9. \A i \in 1..Len(l) : G[i] = (t + d) - Base(l, t, i)
  BY DEF Base
<1> HIDE DEF G
<1> QED BY <1>4, <1>8, <1>9

(* The walk along the list ends. *)
LEMMA StopsAtProperties ==
    ASSUME NEW l \in Seq(Cell), l # <<>>, NEW rem
    PROVE  /\ StopsAt(l, rem) \in 1..Len(l)
           /\ ~ Passes(l, rem, StopsAt(l, rem))
           /\ \A i \in 1..(StopsAt(l, rem) - 1) : Passes(l, rem, i)
<1> DEFINE T == {i \in 1..Len(l) : ~ Passes(l, rem, i)}
<1>1. Len(l) \in Nat /\ Len(l) # 0
  OBVIOUS
<1>2. Len(l) \in T
  <2>1. ~ Passes(l, rem, Len(l))
    BY <1>1 DEF Passes
  <2> QED BY <1>1, <2>1
<1>3. T \in SUBSET Nat
  BY <1>1
<1> HIDE DEF T
<1>4. PICK k \in T : \A m \in T : k <= m
  BY <1>2, <1>3, LeastElement
<1>5. k \in 1..Len(l) /\ ~ Passes(l, rem, k)
  BY DEF T
<1>6. ASSUME NEW i \in 1..(k - 1) PROVE Passes(l, rem, i)
  <2>1. i \in 1..Len(l) /\ ~ (k <= i)
    BY <1>1, <1>5
  <2> QED BY <1>4, <2>1 DEF T
<1> QED BY <1>5, <1>6 DEF StopsAt

(* A cell with other queues. *)
LEMMA QueuesReplaced ==
    ASSUME NEW c \in Cell, NEW f \in [Regions -> Seq(Nat)]
    PROVE  /\ [c EXCEPT !.q = f] \in Cell
           /\ [c EXCEPT !.q = f].delay = c.delay
           /\ [c EXCEPT !.q = f].at = c.at
           /\ [c EXCEPT !.q = f].q = f
BY DEF Cell

(* The new cell of an event. *)
CellOf(e, r, d, when) == Enqueue(NewCell(d, when), r, e)

LEMMA CellOfProperties ==
    ASSUME NEW d \in Nat, NEW when \in Nat, NEW r \in Regions, NEW e \in Nat
    PROVE  /\ CellOf(e, r, d, when) \in Cell
           /\ CellOf(e, r, d, when).delay = d
           /\ CellOf(e, r, d, when).at = when
<1>1. NewCell(d, when) = [delay |-> d, at |-> when, q |-> [rr \in Regions |-> <<>>]]
  BY DEF NewCell
<1>2. Append(<<>>, e) = <<e>>
  OBVIOUS
<1>3. CellOf(e, r, d, when) =
        [delay |-> d, at |-> when,
         q |-> [rr \in Regions |-> IF rr = r THEN <<e>> ELSE <<>>]]
  BY <1>1, <1>2 DEF CellOf, Enqueue
<1>4. <<e>> \in Seq(Nat) /\ <<>> \in Seq(Nat)
  OBVIOUS
<1> QED BY <1>3, <1>4 DEF Cell

(* The event e, in queue r, as queue rr sees it. *)
Only(e, r, rr) == IF rr = r THEN {e} ELSE {}

LEMMA CellOfEvents ==
    ASSUME NEW d \in Nat, NEW when \in Nat, NEW r \in Regions, NEW e \in Nat,
           NEW rr \in Regions
    PROVE  ToSet(CellOf(e, r, d, when).q[rr]) = Only(e, r, rr)
<1>1. CellOf(e, r, d, when).q[rr] = IF rr = r THEN Append(<<>>, e) ELSE <<>>
  BY DEF CellOf, Enqueue, NewCell
<1>2. Append(<<>>, e) = <<e>>
  OBVIOUS
<1>3. ToSet(<<e>>) = {e} /\ ToSet(<<>>) = {}
  BY DEF ToSet
<1> QED BY <1>1, <1>2, <1>3 DEF Only

LEMMA EnqueueProperties ==
    ASSUME NEW c \in Cell, NEW r \in Regions, NEW e \in Nat
    PROVE  /\ Enqueue(c, r, e) \in Cell
           /\ Enqueue(c, r, e).delay = c.delay
           /\ Enqueue(c, r, e).at = c.at
           /\ \A rr \in Regions : Enqueue(c, r, e).q[rr] =
                    IF rr = r THEN Append(c.q[rr], e) ELSE c.q[rr]
<1> DEFINE f == [c.q EXCEPT ![r] = Append(c.q[r], e)]
           n == Enqueue(c, r, e)
<1>1. c.q \in [Regions -> Seq(Nat)]
  BY DEF Cell
<1>2. Append(c.q[r], e) \in Seq(Nat)
  BY <1>1
<1>3. /\ f \in [Regions -> Seq(Nat)]
      /\ \A rr \in Regions : f[rr] = IF rr = r THEN Append(c.q[rr], e) ELSE c.q[rr]
  BY <1>1, <1>2
<1>4. n = [c EXCEPT !.q = f]
  BY DEF Enqueue
<1> HIDE DEF f, n
<1>5. n \in Cell /\ n.delay = c.delay /\ n.at = c.at /\ n.q = f
  BY <1>3, <1>4, QueuesReplaced
<1> QED BY <1>3, <1>5 DEF n

LEMMA EnqueueDelay ==
    ASSUME NEW c \in Cell, NEW r \in Regions, NEW e \in Nat
    PROVE  Enqueue(c, r, e).delay = c.delay
BY EnqueueProperties

-----------------------------------------------------------------------------
(* Event x waits in queue r of a cell of l that stands for time a. *)
Holds(l, a, r, x) ==
    \E i \in 1..Len(l) : l[i].at = a /\ x \in ToSet(l[i].q[r])

(* The list m is the list l with cell c put in at position k, and the cell *)
(* behind it brought nearer.                                               *)
Inserted(l, k, c, m) ==
    /\ Len(m) = Len(l) + 1
    /\ \A i \in 1..(Len(l) + 1) :
        m[i] = IF i < k THEN l[i]
               ELSE IF i = k THEN c
               ELSE IF i = k + 1 THEN [l[k] EXCEPT !.delay = @ - c.delay]
               ELSE l[i-1]

(* Putting a cell in at its place keeps the list spaced, and adds exactly  *)
(* the events of that cell.                                                *)
LEMMA InsertedIsSpaced ==
    ASSUME NEW l \in Seq(Cell), NEW t \in Nat, Spaced(l, t),
           NEW k \in 1..(Len(l) + 1), NEW c \in Cell,
           c.at = Base(l, t, k) + c.delay,
           k > 1 => c.delay > 0,
           k <= Len(l) => c.delay < l[k].delay,
           NEW m \in Seq(Cell), Inserted(l, k, c, m)
    PROVE  /\ Spaced(m, t)
           /\ \A a, r, x : Holds(m, a, r, x) <=>
                (Holds(l, a, r, x) \/ (a = c.at /\ x \in ToSet(c.q[r])))
<1>0. /\ Len(l) \in Nat /\ Len(m) \in Nat /\ k \in Nat /\ Len(m) = Len(l) + 1
      /\ \A i \in 1..Len(l) : l[i] \in Cell
  BY DEF Inserted
<1>1. \A i \in 1..Len(l) : l[i].at \in Nat /\ l[i].delay \in Nat
  BY <1>0 DEF Cell
<1>2. c.at \in Nat /\ c.delay \in Nat
  BY DEF Cell
<1>3. \A i \in 1..Len(m) : i < k => i \in 1..Len(l) /\ m[i] = l[i]
  BY <1>0 DEF Inserted
<1>4. k \in 1..Len(m) /\ m[k] = c
  BY <1>0 DEF Inserted
<1>5. k <= Len(l) => /\ k + 1 \in 1..Len(m)
                     /\ m[k+1] = [l[k] EXCEPT !.delay = @ - c.delay]
  <2>1. k + 1 # k /\ ~ (k + 1 < k)
    BY <1>0
  <2> QED BY <1>0, <2>1 DEF Inserted
<1>6. k <= Len(l) => m[k+1].at = l[k].at /\ m[k+1].q = l[k].q
                     /\ m[k+1].delay = l[k].delay - c.delay
  <2> SUFFICES ASSUME k <= Len(l)
               PROVE  /\ m[k+1].at = l[k].at /\ m[k+1].q = l[k].q
                      /\ m[k+1].delay = l[k].delay - c.delay
    OBVIOUS
  <2>1. l[k] \in Cell
    BY <1>0
  <2> QED BY <1>5, <2>1 DEF Cell
<1>7. \A i \in 1..Len(m) : i > k + 1 => /\ i - 1 \in 1..Len(l) /\ i - 1 > k
                                        /\ m[i] = l[i-1]
  <2>1. ASSUME NEW i \in 1..Len(m), i > k + 1 
        PROVE  i - 1 \in 1..Len(l) /\ i - 1 > k /\ ~ (i < k) /\ i # k /\ i # k + 1
    BY <1>0, <2>1
  <2> QED BY <1>0, <2>1 DEF Inserted
<1>8. Spaced(m, t)
  <2>1. SUFFICES ASSUME NEW i \in 1..Len(m)
                 PROVE  /\ m[i].at = (IF i = 1 THEN t ELSE m[i-1].at) + m[i].delay
                        /\ i > 1 => m[i].delay > 0
    BY DEF Spaced
  <2>2. i \in Nat /\ i >= 1
    OBVIOUS
  <2>3. CASE i < k
    <3>1. i # 1 => i - 1 \in 1..Len(m) /\ i - 1 < k
      BY <1>0, <2>2, <2>3
    <3>2. m[i] = l[i] /\ i \in 1..Len(l) /\ (i # 1 => m[i-1] = l[i-1])
      BY <1>3, <2>3, <3>1
    <3> QED BY <3>2 DEF Spaced
  <2>4. CASE i = k
    <3>1. i # 1 => i - 1 \in 1..Len(m) /\ i - 1 < k
      BY <1>0, <2>2, <2>4
    <3>2. m[i] = c /\ (i # 1 => m[i-1] = l[i-1])
      BY <1>3, <1>4, <2>4, <3>1
    <3> QED BY <2>4, <3>2 DEF Base
  <2>5. CASE i = k + 1
    <3>1. k <= Len(l) /\ k \in 1..Len(l) /\ i # 1 /\ i - 1 = k
      BY <1>0, <2>5
    <3>2. l[k].at = Base(l, t, k) + l[k].delay
      BY <3>1 DEF Spaced, Base
    <3>3. Base(l, t, k) \in Nat
      <4>1. k # 1 => k - 1 \in 1..Len(l)
        BY <3>1, <1>0
      <4> QED BY <1>1, <4>1 DEF Base
    <3>4. l[k].at = c.at + (l[k].delay - c.delay) /\ l[k].delay - c.delay > 0
      BY <1>1, <1>2, <3>1, <3>2, <3>3, SMTT(30)
    <3> QED BY <1>4, <1>6, <2>5, <3>1, <3>4
  <2>6. CASE i > k + 1
    <3> DEFINE j == i - 1
    <3>1. j \in 1..Len(l) /\ j > k /\ m[i] = l[j] /\ j # 1 /\ i # 1 /\ j - 1 \in 1..Len(l)
      BY <1>0, <1>7, <2>6
    <3>2. l[j].at = l[j-1].at + l[j].delay /\ l[j].delay > 0
      BY <3>1, <1>0 DEF Spaced
    <3>3. m[j].at = l[j-1].at
      <4>1. CASE j = k + 1
        BY <1>0, <1>6, <3>1, <4>1
      <4>2. CASE j > k + 1
        BY <1>0, <1>7, <3>1, <4>2
      <4> QED BY <1>0, <3>1, <4>1, <4>2
    <3> QED BY <3>1, <3>2, <3>3
  <2> QED BY <1>0, <2>2, <2>3, <2>4, <2>5, <2>6
<1>9. ASSUME NEW a, NEW r, NEW x, Holds(m, a, r, x)
      PROVE  Holds(l, a, r, x) \/ (a = c.at /\ x \in ToSet(c.q[r]))
  <2>1. PICK i \in 1..Len(m) : m[i].at = a /\ x \in ToSet(m[i].q[r])
    BY <1>9 DEF Holds
  <2>2. CASE i < k
    BY <1>3, <2>1, <2>2 DEF Holds
  <2>3. CASE i = k
    BY <1>4, <2>1, <2>3
  <2>4. CASE i = k + 1
    <3>1. k \in 1..Len(l) /\ k <= Len(l)
      BY <1>0, <2>4
    <3> QED BY <1>6, <2>1, <2>4, <3>1 DEF Holds
  <2>5. CASE i > k + 1
    BY <1>7, <2>1, <2>5 DEF Holds
  <2>6. i < k \/ i = k \/ i = k + 1 \/ i > k + 1
    BY <1>0
  <2> QED BY <2>2, <2>3, <2>4, <2>5, <2>6
<1>10. ASSUME NEW a, NEW r, NEW x, a = c.at, x \in ToSet(c.q[r])
       PROVE  Holds(m, a, r, x)
  BY <1>4, <1>10 DEF Holds
<1>11. ASSUME NEW a, NEW r, NEW x, Holds(l, a, r, x)
       PROVE  Holds(m, a, r, x)
  <2>1. PICK i \in 1..Len(l) : l[i].at = a /\ x \in ToSet(l[i].q[r])
    BY <1>11 DEF Holds
  <2>2. CASE i < k
    <3>1. i \in 1..Len(m) /\ m[i] = l[i]
      BY <1>0, <1>3, <2>2
    <3> QED BY <2>1, <3>1 DEF Holds
  <2>3. CASE i = k
    BY <1>0, <1>5, <1>6, <2>1, <2>3 DEF Holds
  <2>4. CASE i > k
    <3>1. i + 1 \in 1..Len(m) /\ i + 1 > k + 1 /\ (i + 1) - 1 = i
      BY <1>0, <2>4
    <3>2. m[i+1] = l[i]
      BY <1>7, <3>1
    <3> QED BY <2>1, <3>1, <3>2 DEF Holds
  <2>5. i < k \/ i = k \/ i > k
    BY <1>0
  <2> QED BY <2>2, <2>3, <2>4, <2>5
<1> QED BY <1>8, <1>9, <1>10, <1>11

(* The ways schedule_event_ puts a new cell into the list. *)
LEMMA InFrontInserts ==
    ASSUME NEW l \in Seq(Cell), l # <<>>, NEW c \in Cell, c.delay < l[1].delay
    PROVE  InFront(l, c) \in Seq(Cell) /\ Inserted(l, 1, c, InFront(l, c))
<1> DEFINE y == [l[1] EXCEPT !.delay = @ - c.delay]
           n == [l EXCEPT ![1] = y]
<1>1. Len(l) \in Nat /\ Len(l) >= 1 /\ 1 \in 1..Len(l) /\ l[1] \in Cell
  OBVIOUS
<1>2. y \in Cell
  <2>1. l[1].delay - c.delay \in Nat
    BY <1>1 DEF Cell
  <2> QED BY <1>1, <2>1 DEF Cell
<1>3. InFront(l, c) = <<c>> \o n
  BY <1>1 DEF InFront
<1> HIDE DEF y
<1>4. n \in Seq(Cell) /\ Len(n) = Len(l)
      /\ \A i \in 1..Len(l) : n[i] = IF i = 1 THEN y ELSE l[i]
  BY <1>1, <1>2, ExceptSeq
<1> HIDE DEF n
<1>5. /\ <<c>> \o n \in Seq(Cell)
      /\ Len(<<c>> \o n) = Len(l) + 1
      /\ (<<c>> \o n)[1] = c
      /\ \A i \in 1..Len(l) : (<<c>> \o n)[i+1] = n[i]
  BY <1>1, <1>4
<1> DEFINE m == <<c>> \o n
<1> HIDE DEF m
<1>6. ASSUME NEW i \in 1..(Len(l) + 1), i # 1
      PROVE  m[i] = IF i = 2 THEN y ELSE l[i-1]
  <2>1. i - 1 \in 1..Len(l) /\ (i - 1) + 1 = i /\ (i - 1 = 1 <=> i = 2)
    BY <1>1, <1>6
  <2> QED BY <1>4, <1>5, <2>1 DEF m
<1>7. m[1] = c /\ Len(m) = Len(l) + 1 /\ m \in Seq(Cell)
  BY <1>5 DEF m
<1>8. \A i \in 1..(Len(l) + 1) : ~ (i < 1) /\ (i = 1 + 1 <=> i = 2)
  BY <1>1
<1> QED BY <1>3, <1>6, <1>7, <1>8 DEF Inserted, m, y

LEMMA BetweenInserts ==
    ASSUME NEW l \in Seq(Cell), NEW k \in 1..Len(l), NEW c \in Cell,
           c.delay < l[k].delay
    PROVE  Between(l, k, c) \in Seq(Cell) /\ Inserted(l, k, c, Between(l, k, c))
<1> DEFINE y == [l[k] EXCEPT !.delay = @ - c.delay]
           n == [l EXCEPT ![k] = y]
<1>1. Len(l) \in Nat /\ k \in Nat /\ l[k] \in Cell
  OBVIOUS
<1>2. y \in Cell
  <2>1. l[k].delay - c.delay \in Nat
    BY <1>1 DEF Cell
  <2> QED BY <1>1, <2>1 DEF Cell
<1>3. Between(l, k, c) = InsertAt(n, k, c)
  BY <1>1 DEF Between
<1> HIDE DEF y
<1>4. n \in Seq(Cell) /\ Len(n) = Len(l)
      /\ \A i \in 1..Len(l) : n[i] = IF i = k THEN y ELSE l[i]
  BY <1>1, <1>2, ExceptSeq
<1> HIDE DEF n
<1> DEFINE m == InsertAt(n, k, c)
<1>5. /\ m \in Seq(Cell) /\ Len(m) = Len(l) + 1
      /\ \A i \in 1..(Len(l) + 1) :
            m[i] = IF i < k THEN n[i] ELSE IF i = k THEN c ELSE n[i-1]
  <2>1. n \in Seq(Cell) /\ k \in 1..Len(n) /\ c \in Cell
    BY <1>1, <1>4
  <2>2. m \in Seq(Cell) /\ Widened(n, k, c, m)
    BY <2>1, InsertAtProperties
  <2> HIDE DEF m
  <2> QED BY <1>4, <2>2 DEF Widened
<1> HIDE DEF m
<1>6. ASSUME NEW i \in 1..(Len(l) + 1)
      PROVE  m[i] = IF i < k THEN l[i] ELSE IF i = k THEN c
                    ELSE IF i = k + 1 THEN y ELSE l[i-1]
  <2>1. CASE i < k
    <3>1. i \in 1..Len(l) /\ i # k /\ m[i] = n[i]
      BY <1>1, <1>5, <2>1
    <3>2. n[i] = l[i]
      BY <1>4, <3>1
    <3> QED BY <2>1, <3>1, <3>2
  <2>2. CASE i = k
    BY <1>1, <1>5, <2>2
  <2>3. CASE i > k
    <3>1. i - 1 \in 1..Len(l) /\ ~ (i < k) /\ i # k /\ (i = k + 1 <=> i - 1 = k)
      BY <1>1, <2>3
    <3>2. m[i] = n[i-1]
      BY <1>5, <3>1
    <3>3. n[i-1] = IF i - 1 = k THEN y ELSE l[i-1]
      BY <1>4, <3>1
    <3> QED BY <3>1, <3>2, <3>3
  <2> QED BY <1>1, <2>1, <2>2, <2>3
<1> QED BY <1>3, <1>5, <1>6 DEF Inserted, m, y

LEMMA AppendInserts ==
    ASSUME NEW l \in Seq(Cell), NEW c \in Cell
    PROVE  Append(l, c) \in Seq(Cell) /\ Inserted(l, Len(l) + 1, c, Append(l, c))
<1>1. /\ Len(l) \in Nat
      /\ Append(l, c) \in Seq(Cell)
      /\ Len(Append(l, c)) = Len(l) + 1
      /\ \A i \in 1..Len(l) : Append(l, c)[i] = l[i]
      /\ Append(l, c)[Len(l) + 1] = c
  BY AppendProperties
<1>2. \A i \in 1..(Len(l) + 1) : (i < Len(l) + 1 /\ i \in 1..Len(l)) \/ i = Len(l) + 1
  BY <1>1
<1> QED BY <1>1, <1>2 DEF Inserted

(* Cell k of l is replaced in m. *)
Replaced(l, k, c, m) == m = [l EXCEPT ![k] = c]

(* An event that joins a cell. *)
LEMMA JoinedIsSpaced ==
    ASSUME NEW l \in Seq(Cell), NEW t \in Nat, Spaced(l, t),
           NEW k \in 1..Len(l), NEW c \in Cell,
           c.delay = l[k].delay, c.at = l[k].at,
           NEW r \in Regions, NEW e \in Nat,
           \A rr \in Regions :
                ToSet(c.q[rr]) = ToSet(l[k].q[rr]) \cup Only(e, r, rr),
           NEW m, Replaced(l, k, c, m)
    PROVE  /\ m \in Seq(Cell)
           /\ Spaced(m, t)
           /\ \A a, x : \A rr \in Regions : Holds(m, a, rr, x) <=>
                (Holds(l, a, rr, x) \/ (a = l[k].at /\ rr = r /\ x = e))
<1>1. /\ Len(l) \in Nat /\ m \in Seq(Cell) /\ Len(m) = Len(l)
      /\ \A i \in 1..Len(l) : m[i] = IF i = k THEN c ELSE l[i]
  BY ExceptSeq DEF Replaced
<1>2. \A i \in 1..Len(l) : m[i].at = l[i].at /\ m[i].delay = l[i].delay
  BY <1>1
<1>3. \A i \in 1..Len(l) : i = 1 \/ i - 1 \in 1..Len(l)
  BY <1>1
<1>4. Spaced(m, t)
  <2>1. SUFFICES ASSUME NEW i \in 1..Len(l)
                 PROVE  /\ m[i].at = (IF i = 1 THEN t ELSE m[i-1].at) + m[i].delay
                        /\ i > 1 => m[i].delay > 0
    BY <1>1 DEF Spaced
  <2>2. /\ l[i].at = (IF i = 1 THEN t ELSE l[i-1].at) + l[i].delay
        /\ i > 1 => l[i].delay > 0
    BY DEF Spaced
  <2> QED BY <1>2, <1>3, <2>2
<1>5. ASSUME NEW a, NEW x, NEW rr \in Regions
      PROVE  Holds(m, a, rr, x) <=>
                (Holds(l, a, rr, x) \/ (a = l[k].at /\ rr = r /\ x = e))
  <2>1. \A i \in 1..Len(l) : x \in ToSet(m[i].q[rr]) <=>
                (x \in ToSet(l[i].q[rr]) \/ (i = k /\ rr = r /\ x = e))
    BY <1>1 DEF Only
  <2> QED BY <1>1, <1>2, <2>1 DEF Holds
<1> QED BY <1>1, <1>4, <1>5

(* A cell of the list after schedule_event_: one that was there, perhaps   *)
(* with the new event, or a cell for the new event alone.                  *)
MadeFrom(l, c, r, e) ==
    \/ \E j \in 1..Len(l) :
         c.at = l[j].at /\ (c.q = l[j].q \/ c.q = Enqueue(l[j], r, e).q)
    \/ c.q = CellOf(e, r, 0, 0).q

(***************************************************************************)
(* schedule_event_ keeps the cells spaced, adds the event at its due time  *)
(* and in its region, moves no other event to another time, and puts       *)
(* something into the first cell only when the event is for now.           *)
(***************************************************************************)
Listed(l, m, d, r, e, when) ==
    /\ m \in Seq(Cell) /\ m # <<>>
    /\ \A a, x : \A rr \in Regions :
        Holds(m, a, rr, x) <=> (Holds(l, a, rr, x) \/ (a = when /\ rr = r /\ x = e))
    /\ l # <<>> /\ l[1].delay = 0 =>
        m[1] = IF d = 0 THEN Enqueue(l[1], r, e) ELSE l[1]
    /\ \A i \in 1..Len(m) : MadeFrom(l, m[i], r, e)

\* Names for two equations, which the provers are not to rewrite with.
DueAfter(when, t, d) == when = t + d
IsListWith(m, l, d, r, e, when) == m = ListWith(l, d, r, e, when)

LEMMA ListWithProperties ==
    ASSUME NEW l \in Seq(Cell), NEW t \in Nat, Spaced(l, t), NEW d \in Nat,
           NEW r \in Regions, NEW e \in Nat
    PROVE  /\ Listed(l, ListWith(l, d, r, e, t + d), d, r, e, t + d)
           /\ Spaced(ListWith(l, d, r, e, t + d), t)
<1> SUFFICES ASSUME NEW when \in Nat, DueAfter(when, t, d),
                    NEW m, IsListWith(m, l, d, r, e, when)
             PROVE  Listed(l, m, d, r, e, when) /\ Spaced(m, t)
  BY t + d \in Nat DEF DueAfter, IsListWith
<1>1. ASSUME NEW x \in Nat
      PROVE  /\ CellOf(e, r, x, when) \in Cell
             /\ CellOf(e, r, x, when).delay = x
             /\ CellOf(e, r, x, when).at = when
             /\ \A rr \in Regions :
                    ToSet(CellOf(e, r, x, when).q[rr]) = Only(e, r, rr)
  <2>1. /\ CellOf(e, r, x, when) \in Cell
        /\ CellOf(e, r, x, when).delay = x
        /\ CellOf(e, r, x, when).at = when
    BY CellOfProperties, SMTT(30)
  <2>2. \A rr \in Regions :
            ToSet(CellOf(e, r, x, when).q[rr]) = Only(e, r, rr)
    BY CellOfEvents
  <2> QED BY <2>1, <2>2
<1>2. /\ Len(l) \in Nat
      /\ \A i \in 1..Len(l) : l[i] \in Cell /\ l[i].delay \in Nat /\ l[i].at \in Nat
  <2>1. /\ Len(l) \in Nat
        /\ \A i \in 1..Len(l) : l[i] \in Cell
    OBVIOUS
  <2> QED BY <2>1 DEF Cell
\* Reduces the goal to one of the three ways to insert a cell.
<1>3. ASSUME NEW k \in 1..(Len(l) + 1), NEW x \in Nat,
             when = Base(l, t, k) + x,
             k > 1 => x > 0,
             k <= Len(l) => x < l[k].delay,
             l # <<>> /\ l[1].delay = 0 => k > 1 /\ d > 0,
             m \in Seq(Cell), Inserted(l, k, CellOf(e, r, x, when), m)
      PROVE  Listed(l, m, d, r, e, when) /\ Spaced(m, t)
  <2>0. CellOf(e, r, x, when) \in Cell /\ CellOf(e, r, x, when).delay = x /\ CellOf(e, r, x, when).at = when
    BY <1>1
  <2> DEFINE c == CellOf(e, r, x, when)
  <2>1. \A rr \in Regions : ToSet(c.q[rr]) = Only(e, r, rr)
    BY <1>1
  <2> HIDE DEF c
  <2>2. c \in Cell /\ c.delay = x /\ c.at = when /\ Inserted(l, k, c, m)
    BY <1>3, <2>0 DEF c
  <2>3. /\ Spaced(m, t)
        /\ \A a, rr, y : Holds(m, a, rr, y) <=>
                (Holds(l, a, rr, y) \/ (a = c.at /\ y \in ToSet(c.q[rr])))
    BY <1>3, <2>2, InsertedIsSpaced, SMTT(30)
  <2>4. m # <<>>
    <3>1. Len(m) = Len(l) + 1
      BY <2>2 DEF Inserted
    <3> QED BY <1>2, <3>1
  <2>5. ASSUME l # <<>>, l[1].delay = 0
        PROVE  m[1] = IF d = 0 THEN Enqueue(l[1], r, e) ELSE l[1]
    <3>1. 1 \in 1..(Len(l) + 1) /\ 1 < k /\ d # 0
      BY <1>2, <1>3, <2>5
    <3>2. m[1] = l[1]
      BY <2>2, <3>1 DEF Inserted
    <3> QED BY <3>1, <3>2
  <2>6. \A a, y : \A rr \in Regions :
            Holds(m, a, rr, y) <=> (Holds(l, a, rr, y) \/ (a = when /\ rr = r /\ y = e))
    <3> SUFFICES ASSUME NEW a, NEW y, NEW rr \in Regions
                 PROVE  Holds(m, a, rr, y) <=>
                            (Holds(l, a, rr, y) \/ (a = when /\ rr = r /\ y = e))
      OBVIOUS
    <3>1. y \in ToSet(c.q[rr]) <=> (rr = r /\ y = e)
      BY <2>1 DEF Only
    <3>2. Holds(m, a, rr, y) <=> (Holds(l, a, rr, y) \/ (a = c.at /\ y \in ToSet(c.q[rr])))
      BY <2>3
    <3> QED BY <2>2, <3>1, <3>2
  <2>7. c.q = CellOf(e, r, 0, 0).q
    BY DEF c, CellOf, Enqueue, NewCell
  <2>8. ASSUME NEW i \in 1..Len(m) PROVE MadeFrom(l, m[i], r, e)
    <3>1. i \in 1..(Len(l) + 1)
      BY <2>2 DEF Inserted
    <3>2. m[i] = IF i < k THEN l[i]
                 ELSE IF i = k THEN c
                 ELSE IF i = k + 1 THEN [l[k] EXCEPT !.delay = @ - c.delay]
                 ELSE l[i-1]
      BY <2>2, <3>1 DEF Inserted
    <3>3. CASE i < k
      <4>1. i \in 1..Len(l) /\ m[i] = l[i]
        BY <1>2, <3>1, <3>2, <3>3
      <4> QED BY <4>1 DEF MadeFrom
    <3>4. CASE i = k
      <4>1. m[i] = c
        BY <3>2, <3>4
      <4> QED BY <2>7, <4>1 DEF MadeFrom
    <3>5. CASE i = k + 1
      <4>1. k \in 1..Len(l) /\ m[i] = [l[k] EXCEPT !.delay = @ - c.delay]
        BY <1>2, <3>1, <3>2, <3>5
      <4>2. l[k] \in Cell
        BY <4>1
      <4>3. m[i].at = l[k].at /\ m[i].q = l[k].q
        BY <4>1, <4>2 DEF Cell
      <4> QED BY <4>1, <4>3 DEF MadeFrom
    <3>6. CASE i > k + 1
      <4>1. i - 1 \in 1..Len(l) /\ m[i] = l[i-1]
        BY <1>2, <3>1, <3>2, <3>6
      <4> QED BY <4>1 DEF MadeFrom
    <3> QED BY <1>2, <3>1, <3>3, <3>4, <3>5, <3>6
  <2> QED BY <1>3, <2>3, <2>4, <2>5, <2>6, <2>8 DEF Listed
<1>4. CASE l = <<>>
  <2>1. m = <<CellOf(e, r, d, when)>>
    BY <1>4 DEF IsListWith, ListWith, CellOf
  <2>2. Len(l) = 0 /\ l = <<>>
    BY <1>4
  <2> DEFINE c == CellOf(e, r, d, when)
  <2>3. c \in Cell
    BY <1>1
  <2>4. m \in Seq(Cell) /\ Inserted(l, 1, c, m) /\ 1 \in 1..(Len(l) + 1)
    <3>0. m = <<c>>
      BY <2>1
    <3> HIDE DEF c
    <3>1. c \in Cell
      BY <2>3
    <3>2. Len(<<c>>) = 1 /\ <<c>>[1] = c /\ <<c>> \in Seq(Cell)
      BY <3>1
    <3>3. 1..(Len(l) + 1) = {1}
      BY <2>2
    <3>4. \A i \in 1..(Len(l) + 1) : i = 1 /\ ~ (1 < 1)
      BY <3>3
    <3>5. m \in Seq(Cell) /\ Len(m) = Len(l) + 1 /\ m[1] = c
      BY <2>2, <3>0, <3>2
    <3> QED BY <3>3, <3>4, <3>5 DEF Inserted
  <2>5. when = Base(l, t, 1) + d
    BY DEF Base, DueAfter
  <2> QED BY <1>3, <2>2, <2>4, <2>5
<1>5. CASE l # <<>> /\ l[1].delay > d
  <2>1. m = InFront(l, CellOf(e, r, d, when))
    BY <1>5 DEF IsListWith, ListWith, CellOf
  <2>2. CellOf(e, r, d, when) \in Cell /\ CellOf(e, r, d, when).delay < l[1].delay
    BY <1>1, <1>2, <1>5
  <2>3. m \in Seq(Cell) /\ Inserted(l, 1, CellOf(e, r, d, when), m)
    BY <1>5, <2>1, <2>2, InFrontInserts
  <2>4. when = Base(l, t, 1) + d
    BY DEF Base, DueAfter
  <2>5. Len(l) >= 1 /\ l[1].delay # 0 /\ d < l[1].delay
    BY <1>2, <1>5
  <2>6. 1 \in 1..(Len(l) + 1)
    BY <1>2
  <2> QED BY <1>3, <2>3, <2>4, <2>5, <2>6
<1>6. CASE l # <<>> /\ ~ (l[1].delay > d)
  <2>0. \A i \in 1..Len(l) : Remaining(l, d)[i] = (t + d) - Base(l, t, i)
    BY RemainingValue
  <2> DEFINE rem == Remaining(l, d)
             k   == StopsAt(l, rem)
  <2>1. m = IF l[k].delay > rem[k] THEN Between(l, k, CellOf(e, r, rem[k], when))
            ELSE IF l[k].delay = rem[k] THEN [l EXCEPT ![k] = Enqueue(@, r, e)]
            ELSE Append(l, CellOf(e, r, rem[k] - l[k].delay, when))
    BY <1>6 DEF IsListWith, ListWith, CellOf
  <2>2. \A i \in 1..Len(l) : rem[i] = when - Base(l, t, i)
    BY <2>0 DEF DueAfter
  <2> HIDE DEF rem
  <2>3. /\ k \in 1..Len(l)
        /\ ~ Passes(l, rem, k)
        /\ \A i \in 1..(k - 1) : Passes(l, rem, i)
    BY <1>6, StopsAtProperties
  <2> HIDE DEF k
  <2>4. k \in Nat /\ k >= 1 /\ l[k] \in Cell /\ l[k].delay \in Nat /\ l[k].at \in Nat
    BY <1>2, <2>3
  <2>5. Base(l, t, k) \in Nat /\ l[k].at = Base(l, t, k) + l[k].delay
        /\ (k > 1 => l[k].delay > 0)
    <3>1. k = 1 \/ k - 1 \in 1..Len(l)
      BY <1>2, <2>3
    <3> QED BY <1>2, <2>3, <3>1 DEF Base, Spaced
  <2>6. rem[k] = when - Base(l, t, k)
    BY <2>2, <2>3
  <2>7. rem[k] \in Int /\ when = Base(l, t, k) + rem[k]
    BY <2>5, <2>6
  \* The walk only passed cells that are due earlier.
  <2>8. k > 1 => rem[k] > 0 /\ d > 0
    <3> SUFFICES ASSUME k > 1 PROVE rem[k] > 0 /\ d > 0
      OBVIOUS
    <3>1. k - 1 \in 1..(k - 1) /\ k - 1 \in 1..Len(l) /\ 1 \in 1..(k - 1) /\ 1 \in 1..Len(l)
      BY <1>2, <2>3, <2>4
    <3>2. l[k-1].delay < rem[k-1] /\ l[1].delay < rem[1]
      BY <2>3, <3>1 DEF Passes
    <3>3. rem[1] = d
      BY <2>2, <3>1 DEF Base, DueAfter
    <3>4. rem[k-1] = when - Base(l, t, k - 1)
      BY <2>2, <3>1
    <3>5. l[k-1].at = Base(l, t, k - 1) + l[k-1].delay
      BY <3>1 DEF Spaced, Base
    <3>6. Base(l, t, k - 1) \in Nat
      <4>1. k - 1 = 1 \/ (k - 1) - 1 \in 1..Len(l)
        BY <1>2, <2>3, <2>4
      <4> QED BY <1>2, <4>1 DEF Base, DueAfter
    <3>7. Base(l, t, k) = l[k-1].at
      BY <2>4 DEF Base, DueAfter
    <3>8. l[k-1].delay \in Nat /\ l[1].delay \in Nat
      BY <1>2, <3>1
    <3>9. d > 0
      BY <3>2, <3>3, <3>8, SMTT(60)
    <3>10. rem[k] = rem[k-1] - l[k-1].delay
      BY <2>6, <2>7, <3>4, <3>5, <3>6, <3>7, <3>8, SMTT(60)
    <3>11. rem[k-1] \in Int
      BY <2>7, <3>4, <3>5, <3>6, <3>7, <3>8, SMTT(60)
    <3>12. rem[k] > 0
      BY <3>2, <3>8, <3>10, <3>11, SMTT(60)
    <3> QED BY <3>9, <3>12
  <2>9. k = 1 => rem[k] = d
    BY <2>2, <2>3 DEF Base, DueAfter
  <2>10. rem[k] \in Nat
    BY <2>4, <2>7, <2>8, <2>9
  <2>11. Len(l) >= 1 /\ 1 \in 1..Len(l) /\ l[1].delay \in Nat /\ l[1].delay <= d
    BY <1>2, <1>6
  <2>12. CASE l[k].delay > rem[k]
    <3>1. CellOf(e, r, rem[k], when) \in Cell /\ CellOf(e, r, rem[k], when).delay < l[k].delay
      BY <1>1, <2>4, <2>10, <2>12
    <3>2. m = Between(l, k, CellOf(e, r, rem[k], when))
      BY <2>1, <2>12
    <3>3. m \in Seq(Cell) /\ Inserted(l, k, CellOf(e, r, rem[k], when), m)
      BY <2>3, <3>1, <3>2, BetweenInserts
    <3>4. k > 1
      BY <2>4, <2>9, <2>11, <2>12
    <3>5. k \in 1..(Len(l) + 1)
      BY <1>2, <2>3
    <3>6. rem[k] < l[k].delay
      BY <2>4, <2>10, <2>12
    <3> QED BY <1>3, <2>7, <2>8, <2>10, <3>3, <3>4, <3>5, <3>6
  <2>13. CASE l[k].delay = rem[k]
    <3> DEFINE z == l[k]
               c == Enqueue(z, r, e)
    <3>1. m = [l EXCEPT ![k] = c]
      <4>1. ~ (l[k].delay > rem[k])
        BY <2>4, <2>10, <2>13
      <4>2. m = [l EXCEPT ![k] = Enqueue(@, r, e)]
        BY <2>1, <2>13, <4>1, Zenon
      <4> QED BY <2>3, <4>2, Zenon
    <3>0. z \in Cell
      BY <2>4
    <3> HIDE DEF z
    <3>2. /\ c \in Cell /\ c.delay = z.delay /\ c.at = z.at
          /\ \A rr \in Regions : c.q[rr] =
                IF rr = r THEN Append(z.q[rr], e) ELSE z.q[rr]
      BY <3>0, EnqueueProperties
    <3> HIDE DEF c
    <3>3. \A rr \in Regions : ToSet(c.q[rr]) = ToSet(z.q[rr]) \cup Only(e, r, rr)
      <4>1. \A rr \in Regions : z.q[rr] \in Seq(Nat)
        BY <3>0 DEF Cell
      <4>2. \A rr \in Regions : ToSet(Append(z.q[rr], e)) = ToSet(z.q[rr]) \cup {e}
        BY <4>1, ToSetAppend, ZenonT(30)
      <4> QED BY <3>2, <4>2 DEF Only
    <3>4. l[k].at = when
      BY <2>5, <2>7, <2>13
    <3>5. /\ m \in Seq(Cell) /\ Spaced(m, t)
          /\ \A a, y : \A rr \in Regions : Holds(m, a, rr, y) <=>
                (Holds(l, a, rr, y) \/ (a = when /\ rr = r /\ y = e))
      <4>1. c \in Cell /\ c.delay = l[k].delay /\ c.at = l[k].at
        BY <3>2 DEF z
      <4>2. \A rr \in Regions : ToSet(c.q[rr]) = ToSet(l[k].q[rr]) \cup Only(e, r, rr)
        BY <3>3 DEF z
      <4>3. /\ m \in Seq(Cell)
            /\ Spaced(m, t)
            /\ \A a, x : \A rr \in Regions : Holds(m, a, rr, x) <=>
                    (Holds(l, a, rr, x) \/ (a = l[k].at /\ rr = r /\ x = e))
        <5>1. Replaced(l, k, c, m)
          BY <3>1 DEF Replaced
        <5> QED BY <2>3, <4>1, <4>2, <5>1, JoinedIsSpaced, SMTT(30)
      <4> QED BY <3>4, <4>3
    <3>6. m # <<>> /\ \A i \in 1..Len(l) : m[i] = IF i = k THEN c ELSE l[i]
      BY <2>3, <2>11, <3>1
    <3>7. ASSUME l[1].delay = 0
          PROVE  m[1] = IF d = 0 THEN Enqueue(l[1], r, e) ELSE l[1]
      <4>1. k = 1 <=> d = 0
        BY <2>3, <2>4, <2>8, <2>9, <2>13, <3>7
      <4> QED BY <2>11, <3>6, <4>1 DEF c, z
    <3>8. ASSUME NEW i \in 1..Len(m) PROVE MadeFrom(l, m[i], r, e)
      <4>1. i \in 1..Len(l)
        BY <2>3, <3>1
      <4>2. CASE i = k
        <5>1. m[i].at = l[k].at /\ m[i].q = Enqueue(l[k], r, e).q
          BY <3>2, <3>6, <4>1, <4>2 DEF c, z
        <5> QED BY <2>3, <5>1 DEF MadeFrom
      <4>3. CASE i # k
        BY <3>6, <4>1, <4>3 DEF MadeFrom
      <4> QED BY <4>2, <4>3
    <3> QED BY <3>5, <3>6, <3>7, <3>8 DEF Listed
  <2>14. CASE l[k].delay < rem[k]
    <3> DEFINE x == rem[k] - l[k].delay
    <3>1. x \in Nat /\ x > 0
      BY <2>4, <2>10, <2>14
    <3>2. m = Append(l, CellOf(e, r, x, when))
      BY <2>1, <2>4, <2>10, <2>14, SMTT(30)
    <3>3. k = Len(l)
      BY <1>2, <2>3, <2>14 DEF Passes
    <3>4. CellOf(e, r, x, when) \in Cell
      BY <1>1, <3>1
    <3>5. when = l[Len(l)].at + x
      BY <2>4, <2>5, <2>7, <2>10, <3>3
    <3> HIDE DEF x
    <3>6. m \in Seq(Cell) /\ Inserted(l, Len(l) + 1, CellOf(e, r, x, when), m)
      BY <3>2, <3>4, AppendInserts
    <3>7. Base(l, t, Len(l) + 1) = l[Len(l)].at
      BY <1>2, <2>11 DEF Base, DueAfter
    <3>8. Len(l) + 1 > 1 /\ Len(l) + 1 \in 1..(Len(l) + 1) /\ ~ (Len(l) + 1 <= Len(l))
      BY <1>2, <2>11
    <3>9. l[1].delay = 0 => d > 0
      BY <2>8, <2>9, <2>4, <2>11, <2>10, <2>14
    <3> QED BY <1>3, <3>1, <3>5, <3>6, <3>7, <3>8, <3>9
  <2> QED BY <2>4, <2>10, <2>12, <2>13, <2>14
<1> QED BY <1>4, <1>5, <1>6

-----------------------------------------------------------------------------
(***************************************************************************)
(* The invariant, taken apart: the agenda (cells and what they hold), the  *)
(* flags, and the place the control is at.                                 *)
(***************************************************************************)
WellTimed(l, evs) ==
    \A i \in 1..Len(l) : \A r \in Regions : \A x \in ToSet(l[i].q[r]) :
        x \in 1..Len(evs) /\ evs[x].due = l[i].at

Cells ==
    /\ list \in Seq(Cell) /\ time \in Nat /\ ev \in Seq(EventRecord)
    /\ Spaced(list, time)
    /\ WellTimed(list, ev)

Flags ==
    /\ runnable \in BOOLEAN /\ stopped \in BOOLEAN /\ singleStep \in BOOLEAN
    /\ simStarted \in BOOLEAN /\ runFinals \in BOOLEAN
    /\ stops \in Nat

Control ==
    /\ pc \in Places
    /\ cur \in Nat /\ cur <= Len(ev)
    /\ ran \subseteq Ids
    /\ initList \in Seq(Nat) /\ finalList \in Seq(Nat)
    /\ ListsKnown
    /\ CellOpen
    /\ HandlerPlace
    /\ RunsOnTime

(* The second and third part of the invariant say the same of the cells.   *)
LEMMA CellsAreOrdered ==
    ASSUME list \in Seq(Cell), time \in Nat, ev \in Seq(EventRecord)
    PROVE  (CellsInOrder /\ Pending \subseteq Ids)
                <=> (Spaced(list, time) /\ WellTimed(list, ev))
<1>1. DOMAIN list = 1..Len(list) /\ Len(list) \in Nat
  OBVIOUS
<1>2. Pending \subseteq Ids <=>
        \A i \in 1..Len(list) : \A r \in Regions :
            \A x \in ToSet(list[i].q[r]) : x \in 1..Len(ev)
  BY <1>1 DEF Pending, CellEvents, Ids
<1>3. (\A i \in DOMAIN list :
        LET from == IF i = 1 THEN time ELSE list[i-1].at
        IN  /\ list[i].at = from + list[i].delay
            /\ i > 1 => list[i].delay > 0)  <=> Spaced(list, time)
  BY <1>1 DEF Spaced
<1>4. (\A i \in DOMAIN list, r \in Regions :
        \A e \in ToSet(list[i].q[r]) : ev[e].due = list[i].at) <=>
      (\A i \in 1..Len(list) : \A r \in Regions : \A e \in ToSet(list[i].q[r]) :
            ev[e].due = list[i].at)
  BY <1>1
<1>5. CellsInOrder <=>
        /\ Spaced(list, time)
        /\ \A i \in 1..Len(list) : \A r \in Regions : \A e \in ToSet(list[i].q[r]) :
                ev[e].due = list[i].at
  BY <1>3, <1>4 DEF CellsInOrder
<1> QED BY <1>2, <1>5 DEF WellTimed

LEMMA InvariantParts == Timing <=> (Cells /\ Flags /\ Control)
<1>1. CASE list \in Seq(Cell) /\ time \in Nat /\ ev \in Seq(EventRecord)
  <2>1. (CellsInOrder /\ Pending \subseteq Ids)
                <=> (Spaced(list, time) /\ WellTimed(list, ev))
    BY <1>1, CellsAreOrdered
  <2> QED BY <1>1, <2>1 DEF Timing, TypeOK, Cells, Flags, Control
<1>2. CASE ~ (list \in Seq(Cell) /\ time \in Nat /\ ev \in Seq(EventRecord))
  BY <1>2 DEF Timing, TypeOK, Cells
<1> QED BY <1>1, <1>2

-----------------------------------------------------------------------------
(* What the steps of the scheduler do to the cells. *)

(* A new event does not change what is known of the others. *)
LEMMA WellTimedMonotone ==
    ASSUME NEW l, NEW evs \in Seq(EventRecord), NEW x \in EventRecord,
           WellTimed(l, evs)
    PROVE  WellTimed(l, Append(evs, x))
<1>1. /\ Append(evs, x) \in Seq(EventRecord)
      /\ Len(Append(evs, x)) = Len(evs) + 1
      /\ Len(evs) \in Nat
      /\ \A i \in 1..Len(evs) : Append(evs, x)[i] = evs[i]
  BY AppendProperties
<1>2. \A i \in 1..Len(evs) : i \in 1..Len(Append(evs, x))
  BY <1>1
<1> QED BY <1>1, <1>2 DEF WellTimed

(* The first cell is exchanged for one of the same time. *)
LEMMA FirstCellReplaced ==
    ASSUME NEW l \in Seq(Cell), l # <<>>, NEW t \in Nat, Spaced(l, t),
           NEW evs, WellTimed(l, evs),
           NEW c \in Cell, c.delay = l[1].delay, c.at = l[1].at,
           \A r \in Regions : \A x \in ToSet(c.q[r]) :
                x \in 1..Len(evs) /\ evs[x].due = c.at,
           NEW m, Replaced(l, 1, c, m)
    PROVE  /\ m \in Seq(Cell) /\ m # <<>> /\ m[1] = c
           /\ Spaced(m, t)
           /\ WellTimed(m, evs)
<1>1. Len(l) \in Nat /\ Len(l) >= 1 /\ 1 \in 1..Len(l)
  OBVIOUS
<1>2. /\ m \in Seq(Cell) /\ Len(m) = Len(l)
      /\ \A i \in 1..Len(l) : m[i] = IF i = 1 THEN c ELSE l[i]
  BY <1>1, ExceptSeq DEF Replaced
<1>3. \A i \in 1..Len(l) : m[i].at = l[i].at /\ m[i].delay = l[i].delay
  BY <1>2
<1>4. \A i \in 1..Len(l) : i = 1 \/ i - 1 \in 1..Len(l)
  BY <1>1
<1>5. Spaced(m, t)
  <2>1. SUFFICES ASSUME NEW i \in 1..Len(l)
                 PROVE  /\ m[i].at = (IF i = 1 THEN t ELSE m[i-1].at) + m[i].delay
                        /\ i > 1 => m[i].delay > 0
    BY <1>2 DEF Spaced
  <2>2. /\ l[i].at = (IF i = 1 THEN t ELSE l[i-1].at) + l[i].delay
        /\ i > 1 => l[i].delay > 0
    BY DEF Spaced
  <2> QED BY <1>3, <1>4, <2>2
<1>6. WellTimed(m, evs)
  <2>1. SUFFICES ASSUME NEW i \in 1..Len(l), NEW r \in Regions, NEW x \in ToSet(m[i].q[r])
                 PROVE  x \in 1..Len(evs) /\ evs[x].due = m[i].at
    BY <1>2 DEF WellTimed
  <2>2. CASE i = 1
    BY <1>2, <2>2
  <2>3. CASE i # 1
    BY <1>2, <2>3 DEF WellTimed
  <2> QED BY <2>2, <2>3
<1>7. m # <<>> /\ m[1] = c
  BY <1>1, <1>2
<1> QED BY <1>2, <1>5, <1>6, <1>7

(* Time advances to the first cell. *)
LEMMA TimeAdvanced ==
    ASSUME NEW l \in Seq(Cell), l # <<>>, NEW t \in Nat, Spaced(l, t),
           NEW evs, WellTimed(l, evs)
    PROVE  LET m == [l EXCEPT ![1].delay = 0] IN
           /\ m \in Seq(Cell) /\ m # <<>> /\ m[1].delay = 0
           /\ t + l[1].delay \in Nat
           /\ Spaced(m, t + l[1].delay)
           /\ WellTimed(m, evs)
<1> DEFINE c == [l[1] EXCEPT !.delay = 0]
           m == [l EXCEPT ![1].delay = 0]
<1>1. Len(l) \in Nat /\ Len(l) >= 1 /\ 1 \in 1..Len(l) /\ l[1] \in Cell
  OBVIOUS
<1>2. c \in Cell /\ c.delay = 0 /\ c.at = l[1].at /\ c.q = l[1].q
  BY <1>1 DEF Cell
<1>3. m = [l EXCEPT ![1] = c]
  BY <1>1
<1> HIDE DEF c, m
<1>4. /\ m \in Seq(Cell) /\ Len(m) = Len(l)
      /\ \A i \in 1..Len(l) : m[i] = IF i = 1 THEN c ELSE l[i]
  BY <1>1, <1>2, <1>3, ExceptSeq
<1>5. l[1].at = t + l[1].delay /\ l[1].delay \in Nat
  BY <1>1 DEF Spaced, Cell
<1>6. Spaced(m, l[1].at)
  <2>1. SUFFICES ASSUME NEW i \in 1..Len(l)
                 PROVE  /\ m[i].at = (IF i = 1 THEN l[1].at ELSE m[i-1].at) + m[i].delay
                        /\ i > 1 => m[i].delay > 0
    BY <1>4 DEF Spaced
  <2>2. CASE i = 1
    <3>1. l[1].at \in Nat
      BY <1>1 DEF Cell
    <3> QED BY <1>2, <1>4, <2>2, <3>1
  <2>3. CASE i # 1
    <3>1. i > 1 /\ i - 1 \in 1..Len(l)
      BY <1>1, <2>3
    <3>2. l[i].at = l[i-1].at + l[i].delay /\ l[i].delay > 0
      BY <2>3, <3>1 DEF Spaced
    <3>3. m[i] = l[i] /\ m[i-1].at = l[i-1].at
      BY <1>2, <1>4, <2>3, <3>1
    <3> QED BY <2>3, <3>2, <3>3
  <2> QED BY <2>2, <2>3
<1>7. WellTimed(m, evs)
  <2>1. SUFFICES ASSUME NEW i \in 1..Len(l), NEW r \in Regions, NEW x \in ToSet(m[i].q[r])
                 PROVE  x \in 1..Len(evs) /\ evs[x].due = m[i].at
    BY <1>4 DEF WellTimed
  <2>2. m[i].q = l[i].q /\ m[i].at = l[i].at
    BY <1>2, <1>4
  <2> QED BY <2>2 DEF WellTimed
<1>8. m # <<>> /\ m[1].delay = 0
  BY <1>1, <1>2, <1>4
<1> QED BY <1>4, <1>5, <1>6, <1>7, <1>8 DEF m

(* The first cell, which is the current time, is deleted. *)
LEMMA FirstCellDropped ==
    ASSUME NEW l \in Seq(Cell), l # <<>>, NEW t \in Nat, Spaced(l, t),
           l[1].delay = 0, NEW evs, WellTimed(l, evs)
    PROVE  Tail(l) \in Seq(Cell) /\ Spaced(Tail(l), t) /\ WellTimed(Tail(l), evs)
<1> DEFINE m == Tail(l)
<1>1. /\ Len(l) \in Nat /\ Len(l) >= 1 /\ l[1] \in Cell
      /\ m \in Seq(Cell) /\ Len(m) = Len(l) - 1
      /\ \A i \in 1..Len(m) : m[i] = l[i+1]
  OBVIOUS
<1> HIDE DEF m
<1>2. l[1].at = t
  <2>1. l[1].at = t + l[1].delay
    BY <1>1 DEF Spaced
  <2> QED BY <2>1
<1>3. ASSUME NEW i \in 1..Len(m) PROVE i + 1 \in 1..Len(l) /\ i + 1 # 1 /\ i + 1 > 1 /\ (i + 1) - 1 = i
  BY <1>1
<1>4. Spaced(m, t)
  <2>1. SUFFICES ASSUME NEW i \in 1..Len(m)
                 PROVE  /\ m[i].at = (IF i = 1 THEN t ELSE m[i-1].at) + m[i].delay
                        /\ i > 1 => m[i].delay > 0
    BY DEF Spaced
  <2>2. l[i+1].at = l[i].at + l[i+1].delay /\ l[i+1].delay > 0
    BY <1>3 DEF Spaced
  <2>3. i # 1 => i - 1 \in 1..Len(m) /\ (i - 1) + 1 = i
    BY <1>1
  <2>4. l[i].at = IF i = 1 THEN t ELSE m[i-1].at
    BY <1>1, <1>2, <2>3
  <2> QED BY <1>1, <2>2, <2>4
<1>5. WellTimed(m, evs)
  <2>1. SUFFICES ASSUME NEW i \in 1..Len(m), NEW r \in Regions,
                        NEW x \in ToSet(m[i].q[r])
                 PROVE  x \in 1..Len(evs) /\ evs[x].due = m[i].at
    BY DEF WellTimed
  <2>2. m[i] = l[i+1] /\ i + 1 \in 1..Len(l)
    BY <1>1, <1>3
  <2> QED BY <2>2 DEF WellTimed
<1> QED BY <1>1, <1>4, <1>5 DEF m

(* An event is scheduled. *)
LEMMA EventListed ==
    ASSUME NEW l \in Seq(Cell), NEW t \in Nat, Spaced(l, t),
           NEW evs \in Seq(EventRecord), WellTimed(l, evs),
           NEW d \in Nat, NEW r \in Regions, NEW x \in EventRecord,
           x.due = t + d
    PROVE  /\ ListWith(l, d, r, Len(evs) + 1, t + d) \in Seq(Cell)
           /\ Spaced(ListWith(l, d, r, Len(evs) + 1, t + d), t)
           /\ WellTimed(ListWith(l, d, r, Len(evs) + 1, t + d), Append(evs, x))
           /\ l # <<>> /\ l[1].delay = 0 =>
                /\ ListWith(l, d, r, Len(evs) + 1, t + d) # <<>>
                /\ ListWith(l, d, r, Len(evs) + 1, t + d)[1].delay = 0
<1> DEFINE e == Len(evs) + 1
           m == ListWith(l, d, r, e, t + d)
<1>1. e \in Nat /\ t + d \in Nat /\ Len(evs) \in Nat
  OBVIOUS
<1>2. Listed(l, m, d, r, e, t + d) /\ Spaced(m, t)
  BY <1>1, ListWithProperties
<1>3. /\ Len(Append(evs, x)) = e
      /\ \A i \in 1..Len(evs) : Append(evs, x)[i] = evs[i]
      /\ Append(evs, x)[e] = x
  BY AppendProperties
<1> HIDE DEF m
<1>4. WellTimed(m, Append(evs, x))
  <2>1. SUFFICES ASSUME NEW i \in 1..Len(m), NEW rr \in Regions, NEW y \in ToSet(m[i].q[rr])
                 PROVE  y \in 1..e /\ Append(evs, x)[y].due = m[i].at
    BY <1>3 DEF WellTimed
  <2>2. Holds(m, m[i].at, rr, y)
    BY DEF Holds
  <2>3. Holds(l, m[i].at, rr, y) \/ (m[i].at = t + d /\ rr = r /\ y = e)
    BY <1>2, <2>2 DEF Listed
  <2>4. CASE Holds(l, m[i].at, rr, y)
    <3>1. y \in 1..Len(evs) /\ evs[y].due = m[i].at
      BY <2>4 DEF Holds, WellTimed
    <3> QED BY <1>1, <1>3, <3>1
  <2>5. CASE m[i].at = t + d /\ y = e
    BY <1>1, <1>3, <2>5
  <2> QED BY <2>3, <2>4, <2>5
<1>5. ASSUME l # <<>>, l[1].delay = 0 PROVE m # <<>> /\ m[1].delay = 0
  <2>1. m # <<>> /\ m[1] = IF d = 0 THEN Enqueue(l[1], r, e) ELSE l[1]
    BY <1>2, <1>5 DEF Listed
  <2>2. Enqueue(l[1], r, e).delay = l[1].delay
    <3> DEFINE z == l[1]
    <3>1. z \in Cell
      BY <1>5
    <3> HIDE DEF z, e
    <3>2. Enqueue(z, r, e).delay = z.delay
      BY <1>1, <3>1, EnqueueDelay
    <3> QED BY <3>2 DEF z
  <2> QED BY <1>5, <2>1, <2>2
<1>6. m \in Seq(Cell)
  BY <1>2 DEF Listed
<1> QED BY <1>2, <1>4, <1>5, <1>6 DEF m

-----------------------------------------------------------------------------
(***************************************************************************)
(* The inductive invariant: every step of the clients.                     *)
(***************************************************************************)
Parts == Cells /\ Flags /\ Control

LEMMA PartsHoldAtStart == Init => Parts
<1> SUFFICES ASSUME Init PROVE Parts
  OBVIOUS
<1>1. list = <<>> /\ Len(list) = 0 /\ list \in Seq(Cell)
      /\ ev = <<>> /\ Len(ev) = 0 /\ ev \in Seq(EventRecord)
  BY DEF Init
<1>2. 1..0 = {}
  OBVIOUS
<1>3. Cells
  BY <1>1, <1>2 DEF Init, Cells, Spaced, WellTimed
<1>4. Flags
  BY DEF Init, Flags
<1>5. ToSet(initList) = {} /\ ToSet(finalList) = {}
      /\ initList \in Seq(Nat) /\ finalList \in Seq(Nat)
  BY DEF Init, ToSet
<1>6. Control
  BY <1>1, <1>5 DEF Init, Control, Places, ListsKnown, CellOpen, HandlerPlace,
                    RunsOnTime
<1> QED BY <1>3, <1>4, <1>6 DEF Parts

(* The control is not disturbed by a request that appends one event.       *)
LEMMA EventAdded ==
    ASSUME Control, ev \in Seq(EventRecord), NEW x \in EventRecord,
           ev' = Append(ev, x), UNCHANGED <<time, pc, cur, ran>>,
           initList' \in Seq(Nat), finalList' \in Seq(Nat),
           ToSet(initList') \subseteq ToSet(initList) \cup {Len(ev) + 1},
           ToSet(finalList') \subseteq ToSet(finalList) \cup {Len(ev) + 1},
           CellOpen'
    PROVE  Control'
<1>1. /\ Len(ev) \in Nat /\ Len(ev') = Len(ev) + 1
      /\ \A i \in 1..Len(ev) : ev'[i] = ev[i]
  BY AppendProperties
<1>2. Ids \subseteq Ids' /\ Len(ev) + 1 \in Ids'
  BY <1>1 DEF Ids
<1>3. ListsKnown'
  BY <1>2 DEF Control, ListsKnown
<1>4. RunsOnTime'
  <2>1. SUFFICES ASSUME cur # 0, InStep PROVE ev'[cur].due = time
    BY DEF RunsOnTime, InStep
  <2>2. cur \in 1..Len(ev) /\ ev[cur].due = time
    BY <1>1, <2>1 DEF Control, RunsOnTime
  <2> QED BY <1>1, <2>2
<1>5. cur' <= Len(ev')
  BY <1>1 DEF Control
<1> QED BY <1>2, <1>3, <1>4, <1>5 DEF Control, HandlerPlace

LEMMA ScheduleKeepsParts ==
    ASSUME Parts, NEW d \in Delays, NEW r \in Regions, Schedule(d, r)
    PROVE  Parts'
<1> DEFINE x == [rgn |-> r, due |-> time + d, pushed |-> FALSE, late |-> TooLate(d, r)]
<1>1. d \in Nat /\ time \in Nat /\ time + d \in Nat
  BY DelaysAssumption DEF Parts, Cells
<1>2. x \in EventRecord /\ x.due = time + d
  BY <1>1 DEF EventRecord, TooLate
<1>3. ev' = Append(ev, x) /\ list' = ListWith(list, d, r, Len(ev) + 1, time + d)
      /\ UNCHANGED <<initList, finalList, time, pc, cur, ran>>
  BY DEF Schedule, New, control
<1>4. /\ ev' \in Seq(EventRecord) /\ list' \in Seq(Cell)
      /\ Spaced(list', time) /\ WellTimed(list', ev')
      /\ list # <<>> /\ list[1].delay = 0 => list' # <<>> /\ list'[1].delay = 0
  <2> HIDE DEF x
  <2>1. ev' \in Seq(EventRecord)
    BY <1>2, <1>3 DEF Parts, Cells
  <2> QED BY <1>1, <1>2, <1>3, <2>1, EventListed DEF Parts, Cells
<1>5. Cells'
  BY <1>1, <1>3, <1>4 DEF Cells
<1>6. Flags'
  BY DEF Parts, Flags, Schedule, flags, control
<1>7. CellOpen'
  BY <1>3, <1>4 DEF Parts, Control, CellOpen
<1>8. Control'
  <2> HIDE DEF x
  <2>1. initList' \in Seq(Nat) /\ finalList' \in Seq(Nat)
    BY <1>3 DEF Parts, Control
  <2> QED BY <1>2, <1>3, <1>7, <2>1, EventAdded DEF Parts, Cells
<1> QED BY <1>5, <1>6, <1>8 DEF Parts

(* One event put in front of the active queue of the first cell.           *)
LEMMA PushedInFront ==
    ASSUME NEW c \in Cell, NEW e \in Nat
    PROVE  LET n == [c EXCEPT !.q["active"] = <<e>> \o @] IN
           /\ n \in Cell /\ n.delay = c.delay /\ n.at = c.at
           /\ \A r \in Regions : ToSet(n.q[r]) = ToSet(c.q[r]) \cup Only(e, "active", r)
<1> DEFINE f == [c.q EXCEPT !["active"] = <<e>> \o c.q["active"]]
           n == [c EXCEPT !.q["active"] = <<e>> \o @]
<1>1. /\ c.q \in [Regions -> Seq(Nat)] /\ c.delay \in Nat /\ c.at \in Nat
      /\ c = [delay |-> c.delay, at |-> c.at, q |-> c.q]
      /\ "active" \in Regions
  BY DEF Cell, Regions
<1>2. c.q["active"] \in Seq(Nat) /\ <<e>> \o c.q["active"] \in Seq(Nat)
  BY <1>1
<1>3. ToSet(<<e>> \o c.q["active"]) = {e} \cup ToSet(c.q["active"])
  BY <1>2, ToSetCons
<1>4. f \in [Regions -> Seq(Nat)]
      /\ \A r \in Regions : f[r] = IF r = "active" THEN <<e>> \o c.q["active"]
                                   ELSE c.q[r]
  BY <1>1, <1>2
<1>5. n = [c EXCEPT !.q = f]
  OBVIOUS
<1> HIDE DEF f, n
<1>7. n \in Cell /\ n.delay = c.delay /\ n.at = c.at /\ n.q = f
  BY <1>4, <1>5, QueuesReplaced
<1>8. ASSUME NEW r \in Regions
      PROVE  ToSet(n.q[r]) = ToSet(c.q[r]) \cup Only(e, "active", r)
  <2>1. CASE r = "active"
    BY <1>3, <1>4, <1>7, <2>1 DEF Only
  <2>2. CASE r # "active"
    BY <1>4, <1>7, <2>2 DEF Only
  <2> QED BY <2>1, <2>2
<1> QED BY <1>7, <1>8 DEF n

LEMMA PushKeepsParts ==
    ASSUME Parts, Push
    PROVE  Parts'
<1> DEFINE x == [rgn |-> "active", due |-> time, pushed |-> TRUE,
                late |-> TooLate(0, "active")]
           e == Len(ev) + 1
<1>1. time \in Nat /\ time + 0 = time /\ e \in Nat /\ 0 \in Nat
      /\ "active" \in Regions /\ Len(ev) \in Nat
  BY DEF Parts, Cells, Regions
<1>2. x \in EventRecord /\ x.due = time
  BY <1>1 DEF EventRecord, TooLate
<1>3. ev' = Append(ev, x) /\ list' = ListPushed(list, e, time)
      /\ UNCHANGED <<initList, finalList, time, pc, cur, ran>>
  BY DEF Push, New, control
<1> HIDE DEF x
<1>4. ev' \in Seq(EventRecord)
  BY <1>2, <1>3 DEF Parts, Cells
<1>5. /\ list' \in Seq(Cell) /\ Spaced(list', time) /\ WellTimed(list', ev')
      /\ list # <<>> /\ list[1].delay = 0 => list' # <<>> /\ list'[1].delay = 0
  <2>1. CASE list = <<>> \/ list[1].delay > 0
    <3>1. list' = ListWith(list, 0, "active", e, time)
      BY <1>3, <2>1 DEF ListPushed
    <3>2. /\ ListWith(list, 0, "active", e, time + 0) \in Seq(Cell)
          /\ Spaced(ListWith(list, 0, "active", e, time + 0), time)
          /\ WellTimed(ListWith(list, 0, "active", e, time + 0), Append(ev, x))
      BY <1>1, <1>2, EventListed DEF Parts, Cells
    <3> QED BY <1>1, <1>3, <2>1, <3>1, <3>2
  <2>2. CASE list # <<>> /\ ~ (list[1].delay > 0)
    <3> DEFINE z == list[1]
               c == [z EXCEPT !.q["active"] = <<e>> \o @]
    <3>1. z \in Cell /\ 1 \in 1..Len(list)
      BY <2>2 DEF Parts, Cells
    <3>2. list' = [list EXCEPT ![1] = c]
      BY <1>3, <2>2, <3>1 DEF ListPushed
    <3> HIDE DEF z, e
    <3>3. /\ c \in Cell /\ c.delay = z.delay /\ c.at = z.at
          /\ \A r \in Regions : ToSet(c.q[r]) = ToSet(z.q[r]) \cup Only(e, "active", r)
      BY <1>1, <3>1, PushedInFront
    <3> HIDE DEF c
    <3>4. WellTimed(list, ev')
      BY <1>2, <1>3, WellTimedMonotone DEF Parts, Cells
    <3>5. z.at = time
      <4>1. list[1].at = time + list[1].delay
        BY <3>1 DEF Parts, Cells, Spaced
      <4>2. z.delay \in Nat /\ ~ (z.delay > 0)
        BY <2>2, <3>1 DEF Cell, z
      <4> QED BY <1>1, <4>1, <4>2 DEF z
    <3>6. e \in 1..Len(ev') /\ ev'[e].due = time
      BY <1>1, <1>2, <1>3, AppendProperties DEF e, Parts, Cells
    <3>7. ASSUME NEW r \in Regions, NEW y \in ToSet(c.q[r])
          PROVE  y \in 1..Len(ev') /\ ev'[y].due = c.at
      <4>1. CASE y = e
        BY <3>3, <3>5, <3>6, <4>1
      <4>2. CASE y \in ToSet(z.q[r])
        BY <3>1, <3>3, <3>4, <4>2 DEF WellTimed, z
      <4> QED BY <3>3, <4>1, <4>2 DEF Only
    <3>8. /\ list' \in Seq(Cell) /\ list' # <<>> /\ list'[1] = c
          /\ Spaced(list', time) /\ WellTimed(list', ev')
      <4>1. c.delay = list[1].delay /\ c.at = list[1].at
        BY <3>3 DEF z
      <4>2. Replaced(list, 1, c, list')
        BY <3>2 DEF Replaced
      <4> QED BY <2>2, <3>3, <3>4, <3>7, <4>1, <4>2, FirstCellReplaced DEF Parts, Cells
    <3> QED BY <3>3, <3>8 DEF z
  <2> QED BY <2>1, <2>2
<1>6. Cells'
  BY <1>1, <1>3, <1>4, <1>5 DEF Cells
<1>7. Flags'
  BY DEF Parts, Flags, Push, flags, control
<1>8. CellOpen'
  BY <1>3, <1>5 DEF Parts, Control, CellOpen
<1>9. Control'
  <2>1. initList' \in Seq(Nat) /\ finalList' \in Seq(Nat)
    BY <1>3 DEF Parts, Control
  <2> QED BY <1>2, <1>3, <1>8, <2>1, EventAdded DEF Parts, Cells
<1> QED BY <1>6, <1>7, <1>9 DEF Parts

LEMMA ScheduleInitKeepsParts ==
    ASSUME Parts, ScheduleInit
    PROVE  Parts'
<1> DEFINE x == [rgn |-> "init", due |-> 0, pushed |-> FALSE, late |-> (pc = "startsim")]
           e == Len(ev) + 1
<1>1. x \in EventRecord /\ e \in Nat
  BY DEF EventRecord, Parts, Cells
<1>2. ev' = Append(ev, x) /\ initList' = Append(initList, e)
      /\ UNCHANGED <<list, finalList, time, pc, cur, ran>>
  BY DEF ScheduleInit, New, control
<1> HIDE DEF x
<1>3. Cells'
  <2>1. WellTimed(list, ev')
    BY <1>1, <1>2, WellTimedMonotone DEF Parts, Cells
  <2> QED BY <1>1, <1>2, <2>1 DEF Parts, Cells
<1>4. Flags'
  BY DEF Parts, Flags, ScheduleInit, flags, control
<1>5. initList' \in Seq(Nat) /\ ToSet(initList') = ToSet(initList) \cup {e}
  <2> HIDE DEF e
  <2>1. initList \in Seq(Nat)
    BY DEF Parts, Control
  <2>2. Append(initList, e) \in Seq(Nat)
    BY <1>1, <2>1
  <2>3. ToSet(Append(initList, e)) = ToSet(initList) \cup {e}
    BY <1>1, <2>1, ToSetAppend
  <2> QED BY <1>2, <2>2, <2>3
<1>6. CellOpen'
  BY <1>2 DEF Parts, Control, CellOpen
<1>7. Control'
  <2>1. finalList' \in Seq(Nat)
    BY <1>2 DEF Parts, Control
  <2> QED BY <1>1, <1>2, <1>5, <1>6, <2>1, EventAdded DEF Parts, Cells
<1> QED BY <1>3, <1>4, <1>7 DEF Parts

LEMMA ScheduleFinalKeepsParts ==
    ASSUME Parts, ScheduleFinal
    PROVE  Parts'
<1> DEFINE x == [rgn |-> "final", due |-> 0, pushed |-> FALSE, late |-> FALSE]
           e == Len(ev) + 1
<1>1. x \in EventRecord /\ e \in Nat
  BY DEF EventRecord, Parts, Cells
<1>2. ev' = Append(ev, x) /\ finalList' = Append(finalList, e)
      /\ UNCHANGED <<list, initList, time, pc, cur, ran>>
  BY DEF ScheduleFinal, New, control
<1> HIDE DEF x
<1>3. Cells'
  <2>1. WellTimed(list, ev')
    BY <1>1, <1>2, WellTimedMonotone DEF Parts, Cells
  <2> QED BY <1>1, <1>2, <2>1 DEF Parts, Cells
<1>4. Flags'
  BY DEF Parts, Flags, ScheduleFinal, flags, control
<1>5. finalList' \in Seq(Nat) /\ ToSet(finalList') = ToSet(finalList) \cup {e}
  <2> HIDE DEF e
  <2>1. finalList \in Seq(Nat)
    BY DEF Parts, Control
  <2>2. Append(finalList, e) \in Seq(Nat)
    BY <1>1, <2>1
  <2>3. ToSet(Append(finalList, e)) = ToSet(finalList) \cup {e}
    BY <1>1, <2>1, ToSetAppend
  <2> QED BY <1>2, <2>2, <2>3
<1>6. CellOpen'
  BY <1>2 DEF Parts, Control, CellOpen
<1>7. Control'
  <2>1. initList' \in Seq(Nat)
    BY <1>2 DEF Parts, Control
  <2> QED BY <1>1, <1>2, <1>5, <1>6, <2>1, EventAdded DEF Parts, Cells
<1> QED BY <1>3, <1>4, <1>7 DEF Parts

(* $finish, $stop, interrupts and single stepping only set flags.          *)
LEMMA FlagsKeepParts ==
    ASSUME Parts, Finish \/ Stop \/ Step
    PROVE  Parts'
<1>1. UNCHANGED <<list, initList, finalList, time, pc, cur, ran, ev>>
  BY DEF Finish, Stop, Step, control
<1>2. Cells'
  BY <1>1 DEF Parts, Cells
<1>3. Flags'
  <2>1. CASE Finish
    BY <2>1 DEF Finish, Parts, Flags, control
  <2>2. CASE Stop
    BY <2>2 DEF Stop, Parts, Flags, control
  <2>3. CASE Step
    BY <2>3 DEF Step, Parts, Flags, control
  <2> QED BY <2>1, <2>2, <2>3
<1>4. Control'
  BY <1>1 DEF Parts, Control, Ids, ListsKnown, CellOpen, HandlerPlace,
              RunsOnTime, InStep
<1> QED BY <1>2, <1>3, <1>4 DEF Parts

LEMMA ClientKeepsParts ==
    ASSUME Parts, Client
    PROVE  Parts'
<1>1. ASSUME NEW d \in Delays, NEW r \in Regions, Schedule(d, r) PROVE Parts'
  BY <1>1, ScheduleKeepsParts
<1>2. CASE Push
  BY <1>2, PushKeepsParts
<1>3. CASE ScheduleInit
  BY <1>3, ScheduleInitKeepsParts
<1>4. CASE ScheduleFinal
  BY <1>4, ScheduleFinalKeepsParts
<1>5. CASE Finish \/ Stop \/ Step
  BY <1>5, FlagsKeepParts
<1> QED BY <1>1, <1>2, <1>3, <1>4, <1>5 DEF Client

-----------------------------------------------------------------------------
(***************************************************************************)
(* The steps of schedule_simulate.                                         *)
(***************************************************************************)

(* A step that goes from one place to another, and touches neither the     *)
(* events nor the handler that runs.                                       *)
Moves ==
    \/ EndOfCompile \/ InitDone \/ StartLoop \/ Empty \/ EnterStop \/ Resume
    \/ FinishFromStop \/ Break \/ NextSimTime \/ StartRosync \/ RosyncDone
    \/ FinalDone \/ Exit

LEMMA MovesKeepParts ==
    ASSUME Parts, Moves
    PROVE  Parts'
<1>1. UNCHANGED <<list, initList, finalList, time, cur, ran, ev>>
  BY DEF Moves, EndOfCompile, InitDone, StartLoop, Empty, EnterStop, Resume,
         FinishFromStop, Break, NextSimTime, StartRosync, RosyncDone,
         FinalDone, Exit, LeaveLoop, Goto
<1>2. Cells'
  BY <1>1 DEF Parts, Cells
<1>3. Flags'
  BY DEF Moves, EndOfCompile, InitDone, StartLoop, Empty, EnterStop, Resume,
         FinishFromStop, Break, NextSimTime, StartRosync, RosyncDone,
         FinalDone, Exit, LeaveLoop, Goto, flags, Parts, Flags
\* Nothing runs, and the first cell is open where it has to be.
<1>4. /\ cur = 0
      /\ pc' \in Places
      /\ pc' \in {"nextsim", "start", "run", "rosync", "delthr"} =>
            list # <<>> /\ list[1].delay = 0
  BY DEF Moves, EndOfCompile, InitDone, StartLoop, Empty, EnterStop, Resume,
         FinishFromStop, Break, NextSimTime, StartRosync, RosyncDone,
         FinalDone, Exit, LeaveLoop, Goto, Parts, Control, CellOpen,
         HandlerPlace, Places, Ready, AtTop
<1>5. Control'
  BY <1>1, <1>4 DEF Parts, Control, Ids, ListsKnown, CellOpen, HandlerPlace,
                    RunsOnTime
<1> QED BY <1>2, <1>3, <1>5 DEF Parts

LEMMA ReturnKeepsParts ==
    ASSUME Parts, Return
    PROVE  Parts'
<1>1. UNCHANGED <<list, initList, finalList, time, ran, ev>> /\ cur' = 0
      /\ pc' = IF pc = "run" THEN "top" ELSE pc
  BY DEF Return
<1>2. Cells'
  BY <1>1 DEF Parts, Cells
<1>3. Flags'
  BY DEF Return, Parts, Flags, flags
<1>4. Control'
  BY <1>1 DEF Parts, Control, Ids, ListsKnown, CellOpen, HandlerPlace,
              RunsOnTime, Places, Cells
<1> QED BY <1>2, <1>3, <1>4 DEF Parts

LEMMA AdvanceKeepsParts ==
    ASSUME Parts, Advance
    PROVE  Parts'
<1>1. /\ list # <<>> /\ pc = "top" /\ cur' = cur /\ ran' = ran /\ pc' = "nextsim"
      /\ time' = time + list[1].delay
      /\ list' = [list EXCEPT ![1].delay = 0]
      /\ UNCHANGED <<initList, finalList, ev>>
  BY DEF Advance, AtTop, Goto
<1>2. /\ list' \in Seq(Cell) /\ list' # <<>> /\ list'[1].delay = 0
      /\ time' \in Nat /\ Spaced(list', time') /\ WellTimed(list', ev)
  <2>1. LET m == [list EXCEPT ![1].delay = 0] IN
           /\ m \in Seq(Cell) /\ m # <<>> /\ m[1].delay = 0
           /\ time + list[1].delay \in Nat
           /\ Spaced(m, time + list[1].delay)
           /\ WellTimed(m, ev)
    BY <1>1, TimeAdvanced DEF Parts, Cells
  <2> QED BY <1>1, <2>1
<1>3. Cells'
  BY <1>1, <1>2 DEF Parts, Cells
<1>4. Flags'
  BY DEF Advance, Parts, Flags, flags
<1>5. cur = 0
  BY <1>1 DEF Parts, Control, HandlerPlace
<1>6. Control'
  BY <1>1, <1>2, <1>5 DEF Parts, Control, Ids, ListsKnown, CellOpen, HandlerPlace,
              RunsOnTime, Places
<1> QED BY <1>3, <1>4, <1>6 DEF Parts

LEMMA DropCellKeepsParts ==
    ASSUME Parts, DropCell
    PROVE  Parts'
<1>1. /\ list # <<>> /\ list[1].delay = 0
      /\ list' = Tail(list) /\ cur = 0 /\ pc' = "top"
      /\ UNCHANGED <<initList, finalList, time, cur, ran, ev>>
  BY DEF DropCell, Goto, Parts, Control, CellOpen
<1>2. list' \in Seq(Cell) /\ Spaced(list', time) /\ WellTimed(list', ev)
  <2>1. /\ Tail(list) \in Seq(Cell) /\ Spaced(Tail(list), time)
        /\ WellTimed(Tail(list), ev)
    BY <1>1, FirstCellDropped DEF Parts, Cells
  <2> QED BY <1>1, <2>1
<1>3. Cells'
  BY <1>1, <1>2 DEF Parts, Cells
<1>4. Flags'
  BY DEF DropCell, Parts, Flags, flags
<1>5. Control'
  BY <1>1 DEF Parts, Control, Ids, ListsKnown, CellOpen, HandlerPlace,
              RunsOnTime, Places
<1> QED BY <1>3, <1>4, <1>5 DEF Parts

(* The control when a known event starts to run, at its time when it was   *)
(* taken from a cell.                                                      *)
LEMMA EventStarts ==
    ASSUME Parts, NEW e \in 1..Len(ev), Run(e),
           UNCHANGED <<time, ev>>,
           pc' \in {"init", "final", "start", "run", "rosync", "delthr"},
           initList' \in Seq(Nat), finalList' \in Seq(Nat),
           ToSet(initList') \subseteq ToSet(initList),
           ToSet(finalList') \subseteq ToSet(finalList),
           pc' \in {"start", "run", "rosync", "delthr"} =>
                list' # <<>> /\ list'[1].delay = 0 /\ ev[e].due = time
    PROVE  Control'
<1>1. Len(ev) \in Nat /\ e \in Nat /\ e <= Len(ev)
  BY DEF Parts, Cells
<1>2. cur' = e /\ ran' = ran \cup {e}
  BY DEF Run
<1>3. ListsKnown'
  BY DEF Parts, Control, ListsKnown, Ids
<1>4. ran' \subseteq Ids'
  BY <1>2 DEF Parts, Control, Ids
<1>5. CellOpen' /\ HandlerPlace' /\ RunsOnTime' /\ pc' \in Places
  BY <1>2 DEF CellOpen, HandlerPlace, RunsOnTime, Places, InStep
<1> QED BY <1>1, <1>2, <1>3, <1>4, <1>5 DEF Control

LEMMA RunInitKeepsParts ==
    ASSUME Parts, RunInit
    PROVE  Parts'
<1>1. /\ pc = "init" /\ pc' = "init" /\ initList # <<>>
      /\ Run(Head(initList)) /\ initList' = Tail(initList)
      /\ UNCHANGED <<list, finalList, time, ev>>
  BY DEF RunInit
<1>2. initList \in Seq(Nat) /\ finalList' \in Seq(Nat)
  BY <1>1 DEF Parts, Control
<1>3. /\ initList' \in Seq(Nat)
      /\ ToSet(initList) = {Head(initList)} \cup ToSet(initList')
  BY <1>1, <1>2, ToSetHeadTail
<1>4. Head(initList) \in 1..Len(ev)
  BY <1>3 DEF Parts, Control, ListsKnown, Ids
<1>5. Cells'
  BY <1>1 DEF Parts, Cells
<1>6. Flags'
  BY DEF RunInit, Parts, Flags, flags
<1>7. Control'
  BY <1>1, <1>2, <1>3, <1>4, EventStarts
<1> QED BY <1>5, <1>6, <1>7 DEF Parts

LEMMA RunFinalKeepsParts ==
    ASSUME Parts, RunFinal
    PROVE  Parts'
<1>1. /\ pc = "final" /\ pc' = "final" /\ finalList # <<>>
      /\ Run(Head(finalList)) /\ finalList' = Tail(finalList)
      /\ UNCHANGED <<list, initList, time, ev>>
  BY DEF RunFinal
<1>2. finalList \in Seq(Nat) /\ initList' \in Seq(Nat)
  BY <1>1 DEF Parts, Control
<1>3. /\ finalList' \in Seq(Nat)
      /\ ToSet(finalList) = {Head(finalList)} \cup ToSet(finalList')
  BY <1>1, <1>2, ToSetHeadTail
<1>4. Head(finalList) \in 1..Len(ev)
  BY <1>3 DEF Parts, Control, ListsKnown, Ids
<1>5. Cells'
  BY <1>1 DEF Parts, Cells
<1>6. Flags'
  BY DEF RunFinal, Parts, Flags, flags
<1>7. Control'
  BY <1>1, <1>2, <1>3, <1>4, EventStarts
<1> QED BY <1>5, <1>6, <1>7 DEF Parts

(* The head of a queue of a cell is taken off.                             *)
LEMMA Dequeued ==
    ASSUME NEW c \in Cell, NEW r \in Regions, c.q[r] # <<>>
    PROVE  LET n == [c EXCEPT !.q[r] = Tail(c.q[r])] IN
           /\ n \in Cell /\ n.delay = c.delay /\ n.at = c.at
           /\ \A rr \in Regions : ToSet(n.q[rr]) \subseteq ToSet(c.q[rr])
           /\ Head(c.q[r]) \in ToSet(c.q[r])
<1> DEFINE f == [c.q EXCEPT ![r] = Tail(c.q[r])]
           n == [c EXCEPT !.q[r] = Tail(c.q[r])]
<1>1. /\ c.q \in [Regions -> Seq(Nat)] /\ c.delay \in Nat /\ c.at \in Nat
      /\ c = [delay |-> c.delay, at |-> c.at, q |-> c.q]
  BY DEF Cell
<1>2. /\ Tail(c.q[r]) \in Seq(Nat)
      /\ ToSet(c.q[r]) = {Head(c.q[r])} \cup ToSet(Tail(c.q[r]))
  <2>1. c.q[r] \in Seq(Nat)
    BY <1>1
  <2> QED BY <2>1, ToSetHeadTail
<1>3. f \in [Regions -> Seq(Nat)]
      /\ \A rr \in Regions : f[rr] = IF rr = r THEN Tail(c.q[r]) ELSE c.q[rr]
  BY <1>1, <1>2
<1>4. n = [c EXCEPT !.q = f]
  OBVIOUS
<1> HIDE DEF f, n
<1>6. n \in Cell /\ n.delay = c.delay /\ n.at = c.at /\ n.q = f
  BY <1>3, <1>4, QueuesReplaced
<1>7. ASSUME NEW rr \in Regions PROVE ToSet(n.q[rr]) \subseteq ToSet(c.q[rr])
  BY <1>2, <1>3, <1>6
<1> QED BY <1>2, <1>6, <1>7 DEF n

(* What is known of an event of the first cell when that cell is open.     *)
LEMMA FirstCellEvents ==
    ASSUME Cells, list # <<>>
    PROVE  /\ list[1] \in Cell /\ 1 \in 1..Len(list)
           /\ list[1].delay = 0 => list[1].at = time
           /\ \A r \in Regions : \A x \in ToSet(list[1].q[r]) :
                x \in 1..Len(ev) /\ ev[x].due = list[1].at
<1>1. 1 \in 1..Len(list) /\ list[1] \in Cell
  BY DEF Cells
<1>2. list[1].at = time + list[1].delay
  BY <1>1 DEF Cells, Spaced
<1> QED BY <1>1, <1>2 DEF Cells, WellTimed

(* The first cell is exchanged for one that holds no more, and one of the  *)
(* events it held starts to run.                                           *)
LEMMA EventTaken ==
    ASSUME Parts, list # <<>>, list[1].delay = 0,
           NEW c \in Cell, c.delay = list[1].delay, c.at = list[1].at,
           \A r \in Regions : \A x \in ToSet(c.q[r]) :
                \E rr \in Regions : x \in ToSet(list[1].q[rr]),
           NEW r0 \in Regions, NEW e \in ToSet(list[1].q[r0]),
           Run(e), Replaced(list, 1, c, list'),
           UNCHANGED <<initList, finalList, time, ev>>,
           pc' \in {"start", "run", "rosync", "delthr"}
    PROVE  Cells' /\ Control'
<1>1. /\ list[1] \in Cell /\ 1 \in 1..Len(list)
      /\ list[1].at = time
      /\ \A r \in Regions : \A x \in ToSet(list[1].q[r]) :
            x \in 1..Len(ev) /\ ev[x].due = list[1].at
  BY FirstCellEvents DEF Parts
<1>2. \A r \in Regions : \A x \in ToSet(c.q[r]) :
            x \in 1..Len(ev) /\ ev[x].due = c.at
  BY <1>1
<1>3. /\ list' \in Seq(Cell) /\ list' # <<>> /\ list'[1] = c
      /\ Spaced(list', time) /\ WellTimed(list', ev)
  BY <1>2, FirstCellReplaced DEF Parts, Cells
<1>4. Cells'
  BY <1>3 DEF Parts, Cells
<1>5. e \in 1..Len(ev) /\ ev[e].due = time
  BY <1>1
<1>6. initList' \in Seq(Nat) /\ finalList' \in Seq(Nat)
  BY DEF Parts, Control
<1>7. Control'
  BY <1>3, <1>5, <1>6, EventStarts
<1> QED BY <1>4, <1>7

LEMMA RunFromKeepsParts ==
    ASSUME Parts, NEW r \in Regions, pc \in {"start", "rosync", "delthr"},
           RunFrom(r),
           UNCHANGED <<initList, finalList, flags, time, simStarted, runFinals,
                       pc, ev>>
    PROVE  Parts'
<1> DEFINE z == list[1]
           c == [z EXCEPT !.q[r] = Tail(z.q[r])]
<1>1. list # <<>> /\ z.delay = 0 /\ z \in Cell /\ 1 \in 1..Len(list)
  BY FirstCellEvents DEF Parts, Control, CellOpen
<1>2. z.q[r] # <<>> /\ Run(Head(z.q[r])) /\ list' = [list EXCEPT ![1] = c]
  BY <1>1 DEF RunFrom
<1>3. Flags'
  BY DEF Parts, Flags, flags
<1> HIDE DEF z
<1>4. /\ c \in Cell /\ c.delay = z.delay /\ c.at = z.at
      /\ \A rr \in Regions : ToSet(c.q[rr]) \subseteq ToSet(z.q[rr])
      /\ Head(z.q[r]) \in ToSet(z.q[r])
  BY <1>1, <1>2, Dequeued
<1> HIDE DEF c
<1>5. Cells' /\ Control'
  <2>1. Replaced(list, 1, c, list')
    BY <1>2 DEF Replaced
  <2>2. pc' \in {"start", "run", "rosync", "delthr"}
    OBVIOUS
  <2>3. \A rr \in Regions : \A x \in ToSet(c.q[rr]) :
            \E r1 \in Regions : x \in ToSet(z.q[r1])
    BY <1>4
  <2> QED BY <1>1, <1>2, <1>4, <2>1, <2>2, <2>3, EventTaken DEF z
<1> QED BY <1>3, <1>5 DEF Parts

(* The queue the next event comes from is not empty. *)
LEMMA SourceProperties ==
    ASSUME NEW c \in Cell, Source(c) # "rosync"
    PROVE  Source(c) \in Regions /\ c.q[Source(c)] # <<>>
BY DEF Source, Regions

(* Promotion moves one queue, and changes nothing else.                    *)
LEMMA PromotedProperties ==
    ASSUME NEW c \in Cell, Source(c) # "rosync"
    PROVE  /\ Promoted(c) \in Cell
           /\ Promoted(c).delay = c.delay /\ Promoted(c).at = c.at
           /\ Promoted(c).q["active"] = c.q[Source(c)]
           /\ \A r \in Regions : \A x \in ToSet(Promoted(c).q[r]) :
                \E rr \in Regions : x \in ToSet(c.q[rr])
<1> DEFINE from == Source(c)
           f == [c.q EXCEPT !["active"] = c.q[from], ![from] = <<>>]
           n == [c EXCEPT !.q["active"] = c.q[from], !.q[from] = <<>>]
<1>1. /\ c.q \in [Regions -> Seq(Nat)] /\ c.delay \in Nat /\ c.at \in Nat
      /\ c = [delay |-> c.delay, at |-> c.at, q |-> c.q]
      /\ "active" \in Regions /\ from \in Regions
  BY SourceProperties DEF Cell, Regions
<1>2. CASE from = "active"
  BY <1>1, <1>2 DEF Promoted
<1>3. CASE from # "active"
  <2>1. Promoted(c) = n
    BY <1>3 DEF Promoted
  <2> HIDE DEF from
  <2>2. <<>> \in Seq(Nat) /\ c.q[from] \in Seq(Nat)
    BY <1>1
  <2>3. /\ f \in [Regions -> Seq(Nat)]
        /\ \A r \in Regions : f[r] = IF r = from THEN <<>>
                ELSE IF r = "active" THEN c.q[from] ELSE c.q[r]
    BY <1>1, <2>2
  <2>4. n = [c EXCEPT !.q = f]
    BY <1>1, <1>3
  <2> HIDE DEF f, n
  <2>7. n \in Cell /\ n.delay = c.delay /\ n.at = c.at /\ n.q = f
    BY <2>3, <2>4, QueuesReplaced
  <2>8. n.q["active"] = c.q[from]
    BY <1>1, <1>3, <2>3, <2>7
  <2>9. ASSUME NEW r \in Regions, NEW x \in ToSet(n.q[r])
        PROVE  \E rr \in Regions : x \in ToSet(c.q[rr])
    <3>1. CASE r = from
      <4>1. n.q[r] = <<>>
        BY <2>3, <2>7, <3>1
      <4>2. ToSet(<<>>) = {}
        BY DEF ToSet
      <4> QED BY <2>9, <4>1, <4>2
    <3>2. CASE r # from /\ r = "active"
      BY <1>1, <2>3, <2>7, <2>9, <3>2
    <3>3. CASE r # from /\ r # "active"
      BY <2>3, <2>7, <2>9, <3>3
    <3> QED BY <3>1, <3>2, <3>3
  <2> QED BY <2>1, <2>7, <2>8, <2>9 DEF from
<1> QED BY <1>2, <1>3

LEMMA SelectKeepsParts ==
    ASSUME Parts, Select
    PROVE  Parts'
<1> DEFINE z == list[1]
           p == Promoted(z)
           c == [p EXCEPT !.q["active"] = Tail(p.q["active"])]
<1>1. list # <<>> /\ z.delay = 0
  BY DEF Select, Ready, AtTop, Parts, Control, CellOpen
<1>2. z \in Cell /\ 1 \in 1..Len(list) /\ Source(z) # "rosync"
  BY <1>1, FirstCellEvents DEF Parts, Select
<1>3. /\ Run(Head(p.q["active"]))
      /\ list' = [list EXCEPT ![1] = c]
      /\ pc' = "run"
      /\ UNCHANGED <<initList, finalList, time, ev>>
  BY DEF Select
<1>4. Flags'
  BY DEF Parts, Flags, Select
<1> HIDE DEF z
<1>5. /\ p \in Cell /\ p.delay = z.delay /\ p.at = z.at
      /\ p.q["active"] = z.q[Source(z)]
      /\ \A r \in Regions : \A x \in ToSet(p.q[r]) :
            \E rr \in Regions : x \in ToSet(z.q[rr])
  BY <1>2, PromotedProperties
<1>6. "active" \in Regions /\ p.q["active"] # <<>>
  BY <1>2, <1>5, SourceProperties DEF Regions
<1> HIDE DEF p
<1>7. /\ c \in Cell /\ c.delay = p.delay /\ c.at = p.at
      /\ \A r \in Regions : ToSet(c.q[r]) \subseteq ToSet(p.q[r])
      /\ Head(p.q["active"]) \in ToSet(p.q["active"])
  BY <1>5, <1>6, Dequeued
<1> HIDE DEF c
<1>8. PICK r0 \in Regions : Head(p.q["active"]) \in ToSet(z.q[r0])
  BY <1>5, <1>6, <1>7, ZenonT(30)
<1>9. Cells' /\ Control'
  <2>1. Replaced(list, 1, c, list')
    BY <1>3 DEF Replaced
  <2>2. \A r \in Regions : \A x \in ToSet(c.q[r]) :
            \E rr \in Regions : x \in ToSet(z.q[rr])
    BY <1>5, <1>7
  <2>3. c.delay = z.delay /\ c.at = z.at
    BY <1>5, <1>7
  <2> QED BY <1>1, <1>3, <1>7, <1>8, <2>1, <2>2, <2>3, EventTaken DEF z
<1> QED BY <1>4, <1>9 DEF Parts

LEMMA SimulateKeepsParts ==
    ASSUME Parts, Simulate
    PROVE  Parts'
<1>1. CASE Moves
  BY <1>1, MovesKeepParts
<1>2. CASE Return
  BY <1>2, ReturnKeepsParts
<1>3. CASE RunInit
  BY <1>3, RunInitKeepsParts
<1>4. CASE Advance
  BY <1>4, AdvanceKeepsParts
<1>5. CASE RunStart
  <2>1. "start" \in Regions
    BY DEF Regions
  <2> QED BY <1>5, <2>1, RunFromKeepsParts DEF RunStart
<1>6. CASE Select
  BY <1>6, SelectKeepsParts
<1>7. CASE RunRosync
  <2>1. "rosync" \in Regions
    BY DEF Regions
  <2> QED BY <1>7, <2>1, RunFromKeepsParts DEF RunRosync
<1>8. CASE RunDelThr
  <2>1. "del_thr" \in Regions
    BY DEF Regions
  <2> QED BY <1>8, <2>1, RunFromKeepsParts DEF RunDelThr
<1>9. CASE DropCell
  BY <1>9, DropCellKeepsParts
<1>10. CASE RunFinal
  BY <1>10, RunFinalKeepsParts
<1> QED BY <1>1, <1>2, <1>3, <1>4, <1>5, <1>6, <1>7, <1>8, <1>9, <1>10
        DEF Simulate, Moves

-----------------------------------------------------------------------------
(***************************************************************************)
(* The theorems.                                                           *)
(***************************************************************************)

(* Types, the order of the cells, and where the loops of schedule_simulate *)
(* can be (schedule.cc:667-1190).                                          *)
THEOREM TimingHolds == Spec => []Timing
<1>1. Init => Parts
  BY PartsHoldAtStart
<1>2. Parts /\ [Next]_vars => Parts'
  <2> SUFFICES ASSUME Parts, [Next]_vars PROVE Parts'
    OBVIOUS
  <2>1. CASE Client
    BY <2>1, ClientKeepsParts
  <2>2. CASE Simulate
    BY <2>2, SimulateKeepsParts
  <2>3. CASE UNCHANGED vars
    BY <2>3 DEF vars, Parts, Cells, Flags, Control, Ids, ListsKnown, CellOpen,
                HandlerPlace, RunsOnTime, InStep
  <2> QED BY <2>1, <2>2, <2>3 DEF Next, Done
<1>3. Parts <=> Timing
  BY InvariantParts DEF Parts
<1> QED BY <1>1, <1>2, <1>3, PTL DEF Spec

(* Every variable keeps its type, and the lists name scheduled events only *)
(* (schedule.cc:557-578).                                                  *)
THEOREM TypeCorrect == Spec => []TypeOK
<1>1. Timing => TypeOK
  BY DEF Timing
<1> QED BY <1>1, TimingHolds, PTL

(* An event runs at the time it was scheduled for, for any delays and any  *)
(* number of events (schedule.cc:667-722, 1117-1127).                      *)
THEOREM OnTime == Spec => []RunsOnTime
<1>1. Timing => RunsOnTime
  BY DEF Timing
<1> QED BY <1>1, TimingHolds, PTL

(* The time cells stay sorted, each as far behind the one before it as its *)
(* delay says, and hold only events of their own time                      *)
(* (schedule.cc:672-722).                                                  *)
THEOREM InOrder == Spec => []CellsInOrder
<1>1. Timing => CellsInOrder
  BY DEF Timing
<1> QED BY <1>1, TimingHolds, PTL

-----------------------------------------------------------------------------
(***************************************************************************)
(* The order in which the events of a time step run: none is lost, read-   *)
(* only synchronization comes last, and the list of time cells implements  *)
(* the agenda, Agenda.tla.                                                 *)
(***************************************************************************)
Queues == [Regions -> Seq(Nat)]

(* Event x may run before event y, the events being evs: MayRunBefore of   *)
(* Schedule for any sequence of events.                                    *)
Follows(evs, x, y) ==
    /\ x # y
    /\ ~ (y < x /\ Rank(evs[y].rgn) <= Rank(evs[x].rgn) /\ ~ evs[x].pushed)

(* CellSorted of Schedule, in the same way, of the queues q of a cell.     *)
InLine(evs, q) ==
    \A r \in Regions :
        /\ \A j, k \in DOMAIN q[r] : j < k => Follows(evs, q[r][j], q[r][k])
        /\ \A s \in Regions : Rank(r) < Rank(s) =>
              \A x \in ToSet(q[r]), y \in ToSet(q[s]) : Follows(evs, x, y)
        /\ \A x \in ToSet(q[r]) : evs[x].rgn \in Regions /\ Rank(r) <= Rank(evs[x].rgn)

(* All the events queues hold, and that they have been scheduled.          *)
Queued(q) == UNION {ToSet(q[r]) : r \in Regions}

Known(evs, q) == \A r \in Regions : ToSet(q[r]) \subseteq 1..Len(evs)

-----------------------------------------------------------------------------
LEMMA RankValues ==
    /\ Rank("init") = 0 /\ Rank("start") = 1 /\ Rank("active") = 2
    /\ Rank("nbassign") = 3 /\ Rank("rwsync") = 4 /\ Rank("rosync") = 5
    /\ Rank("del_thr") = 6 /\ Rank("final") = 7
BY DEF Rank

LEMMA RankType ==
    /\ \A r \in Regions : Rank(r) \in 1..6
    /\ \A r \in Regions \cup {"init", "final"} : Rank(r) \in 0..7
    /\ \A r, s \in Regions : Rank(r) = Rank(s) => r = s
BY RankValues DEF Regions

(* The elements of a sequence are those at its places.                     *)
LEMMA ToSetPlaces ==
    ASSUME NEW S, NEW s \in Seq(S)
    PROVE  /\ Len(s) \in Nat /\ DOMAIN s = 1..Len(s)
           /\ \A x : x \in ToSet(s) <=> \E i \in 1..Len(s) : x = s[i]
           /\ \A i \in 1..Len(s) : s[i] \in ToSet(s) /\ s[i] \in S
           /\ s = <<>> <=> ToSet(s) = {}
<1>1. Len(s) \in Nat /\ DOMAIN s = 1..Len(s)
  OBVIOUS
<1>2. \A x : x \in ToSet(s) <=> \E i \in 1..Len(s) : x = s[i]
  BY <1>1 DEF ToSet
<1>3. s = <<>> <=> Len(s) = 0
  OBVIOUS
<1>4. ASSUME Len(s) # 0 PROVE ToSet(s) # {}
  <2>1. 1 \in 1..Len(s)
    BY <1>1, <1>4
  <2> QED BY <1>2, <2>1
<1>5. ASSUME Len(s) = 0 PROVE ToSet(s) = {}
  <2>1. 1..Len(s) = {}
    BY <1>5
  <2> QED BY <1>2, <2>1
<1> QED BY <1>1, <1>2, <1>3, <1>4, <1>5

(* A later event does not change what was said of the earlier ones.        *)
LEMMA InLineExtended ==
    ASSUME NEW evs \in Seq(EventRecord), NEW x \in EventRecord,
           NEW q \in Queues, Known(evs, q), InLine(evs, q)
    PROVE  InLine(Append(evs, x), q) /\ Known(Append(evs, x), q)
<1> DEFINE f == Append(evs, x)
<1>1. /\ Len(f) = Len(evs) + 1 /\ Len(evs) \in Nat
      /\ \A i \in 1..Len(evs) : f[i] = evs[i]
  BY AppendProperties
<1> HIDE DEF f
<1>2. \A r \in Regions : \A y \in ToSet(q[r]) : y \in 1..Len(evs) /\ f[y] = evs[y]
  BY <1>1 DEF Known
<1>3. \A r, s \in Regions : \A y \in ToSet(q[r]), z \in ToSet(q[s]) :
        Follows(evs, y, z) <=> Follows(f, y, z)
  BY <1>2 DEF Follows
<1>4. \A r \in Regions : \A j \in DOMAIN q[r] : q[r][j] \in ToSet(q[r])
  BY DEF ToSet
<1>5. InLine(f, q)
  <2> SUFFICES ASSUME NEW r \in Regions
               PROVE  /\ \A j, k \in DOMAIN q[r] : j < k => Follows(f, q[r][j], q[r][k])
                      /\ \A s \in Regions : Rank(r) < Rank(s) =>
                            \A y \in ToSet(q[r]), z \in ToSet(q[s]) : Follows(f, y, z)
                      /\ \A y \in ToSet(q[r]) :
                            f[y].rgn \in Regions /\ Rank(r) <= Rank(f[y].rgn)
    BY DEF InLine
  <2>1. \A j, k \in DOMAIN q[r] : j < k => Follows(f, q[r][j], q[r][k])
    BY <1>3, <1>4 DEF InLine
  <2>2. \A s \in Regions : Rank(r) < Rank(s) =>
            \A y \in ToSet(q[r]), z \in ToSet(q[s]) : Follows(f, y, z)
    BY <1>3 DEF InLine
  <2>3. \A y \in ToSet(q[r]) : f[y].rgn \in Regions /\ Rank(r) <= Rank(f[y].rgn)
    BY <1>2 DEF InLine
  <2> QED BY <2>1, <2>2, <2>3
<1>6. Known(f, q)
  <2>1. 1..Len(evs) \subseteq 1..Len(f)
    BY <1>1
  <2> QED BY <2>1 DEF Known
<1> QED BY <1>5, <1>6 DEF f

(* A new event may stand behind any other of its region, and it may run    *)
(* before those of the queues behind; a pushed one may stand in front.     *)
LEMMA NewEventFollows ==
    ASSUME NEW evs \in Seq(EventRecord), NEW x \in EventRecord,
           NEW y \in 1..Len(evs)
    PROVE  LET f == Append(evs, x)
               e == Len(evs) + 1
           IN  /\ Follows(f, y, e)
               /\ x.pushed => Follows(f, e, y)
               /\ Rank(x.rgn) < Rank(evs[y].rgn) => Follows(f, e, y)
<1> DEFINE f == Append(evs, x)
           e == Len(evs) + 1
<1>1. /\ Len(evs) \in Nat /\ f[y] = evs[y] /\ f[e] = x /\ y \in Nat
      /\ y < e /\ y # e /\ ~ (e < y)
  BY AppendProperties
<1>2. Rank(x.rgn) \in Nat /\ Rank(evs[y].rgn) \in Nat
  <2>1. x.rgn \in Regions \cup {"init", "final"} /\ evs[y].rgn \in Regions \cup {"init", "final"}
    <3>1. evs[y] \in EventRecord
      OBVIOUS
    <3> QED BY <3>1 DEF EventRecord
  <2> QED BY <2>1, RankType
<1> HIDE DEF f, e
<1>3. Follows(f, y, e) /\ (x.pushed => Follows(f, e, y))
  BY <1>1 DEF Follows
<1>4. Rank(x.rgn) < Rank(evs[y].rgn) => Follows(f, e, y)
  BY <1>1, <1>2 DEF Follows
<1> QED BY <1>3, <1>4 DEF f, e

LEMMA InLineEnqueued ==
    ASSUME NEW evs \in Seq(EventRecord), NEW x \in EventRecord,
           NEW q \in Queues, Known(evs, q), InLine(evs, q),
           NEW r \in Regions, x.rgn = r
    PROVE  InLine(Append(evs, x), [q EXCEPT ![r] = Append(@, Len(evs) + 1)])
<1> DEFINE f == Append(evs, x)
           e == Len(evs) + 1
           p == [q EXCEPT ![r] = Append(@, e)]
<1>1. InLine(f, q)
  BY InLineExtended
<1>2. /\ \A y \in 1..Len(evs) : Follows(f, y, e) /\ f[y] = evs[y]
      /\ \A y \in 1..Len(evs) : Rank(x.rgn) < Rank(evs[y].rgn) => Follows(f, e, y)
      /\ f[e] = x
  BY NewEventFollows, AppendProperties
<1>3. \A s \in Regions : q[s] \in Seq(Nat)
  BY DEF Queues
<1>4. e \in Nat /\ Len(evs) \in Nat
  OBVIOUS
<1>5. \A s \in Regions : p[s] = IF s = r THEN Append(q[r], e) ELSE q[s]
  BY DEF Queues
<1> HIDE DEF f, e, p
<1>6. \A s \in Regions : ToSet(p[s]) = IF s = r THEN ToSet(q[r]) \cup {e} ELSE ToSet(q[s])
  <2>1. ToSet(Append(q[r], e)) = ToSet(q[r]) \cup {e}
    BY <1>3, <1>4, ToSetAppend
  <2> QED BY <1>5, <2>1
<1> SUFFICES ASSUME NEW s \in Regions
             PROVE  /\ \A j, k \in DOMAIN p[s] : j < k => Follows(f, p[s][j], p[s][k])
                    /\ \A u \in Regions : Rank(s) < Rank(u) =>
                          \A y \in ToSet(p[s]), z \in ToSet(p[u]) : Follows(f, y, z)
                    /\ \A y \in ToSet(p[s]) :
                          f[y].rgn \in Regions /\ Rank(s) <= Rank(f[y].rgn)
  BY DEF InLine, f, e, p
<1>7. ASSUME NEW j \in DOMAIN p[s], NEW k \in DOMAIN p[s], j < k
      PROVE  Follows(f, p[s][j], p[s][k])
  <2>1. CASE s # r
    <3>1. p[s] = q[s]
      BY <1>5, <2>1
    <3> QED BY <1>1, <1>7, <3>1 DEF InLine
  <2>2. CASE s = r
    <3>0. q[r] \in Seq(Nat) /\ p[s] = Append(q[r], e)
      BY <1>3, <1>5, <2>2
    <3>1. /\ q[r] \in Seq(Nat) /\ Len(q[r]) \in Nat /\ DOMAIN q[r] = 1..Len(q[r])
          /\ p[s] = Append(q[r], e) /\ DOMAIN p[s] = 1..(Len(q[r]) + 1)
          /\ \A i \in 1..Len(q[r]) : p[s][i] = q[r][i]
          /\ p[s][Len(q[r]) + 1] = e
      BY <1>4, <3>0, AppendProperties
    <3>2. j \in 1..Len(q[r])
      BY <1>7, <3>1
    <3>3. CASE k = Len(q[r]) + 1
      <4>1. q[r][j] \in ToSet(q[r])
        BY <3>1, <3>2 DEF ToSet
      <4> QED BY <1>2, <3>1, <3>2, <3>3, <4>1 DEF Known
    <3>4. CASE k # Len(q[r]) + 1
      <4>1. k \in 1..Len(q[r])
        BY <1>7, <3>1, <3>4
      <4> QED BY <1>1, <1>7, <3>1, <3>2, <4>1 DEF InLine
    <3> QED BY <3>3, <3>4
  <2> QED BY <2>1, <2>2
<1>8. ASSUME NEW u \in Regions, Rank(s) < Rank(u),
             NEW y \in ToSet(p[s]), NEW z \in ToSet(p[u])
      PROVE  Follows(f, y, z)
  <2>1. CASE y \in ToSet(q[s]) /\ z \in ToSet(q[u])
    BY <1>1, <1>8, <2>1 DEF InLine
  <2>2. CASE y \in ToSet(q[s]) /\ z = e
    BY <1>2, <2>2 DEF Known
  <2>3. CASE y = e /\ s = r
    <3>1. u # r /\ z \in ToSet(q[u])
      <4>1. Rank(s) \in Nat
        BY RankType
      <4> QED BY <1>6, <1>8, <2>3, <4>1
    <3>2. z \in 1..Len(evs) /\ Rank(u) <= Rank(evs[z].rgn) /\ evs[z].rgn \in Regions
      BY <3>1 DEF Known, InLine
    <3>3. Rank(x.rgn) < Rank(evs[z].rgn)
      <4>1. Rank(x.rgn) \in Nat /\ Rank(u) \in Nat /\ Rank(evs[z].rgn) \in Nat
        BY <3>2, RankType
      <4> QED BY <1>8, <2>3, <3>2, <4>1
    <3> QED BY <1>2, <2>3, <3>2, <3>3
  <2> QED BY <1>6, <2>1, <2>2, <2>3
<1>9. ASSUME NEW y \in ToSet(p[s])
      PROVE  f[y].rgn \in Regions /\ Rank(s) <= Rank(f[y].rgn)
  <2>1. CASE y \in ToSet(q[s])
    BY <1>1, <2>1 DEF InLine
  <2>2. CASE y = e /\ s = r
    <3>1. Rank(r) <= Rank(r)
      BY RankType
    <3> QED BY <1>2, <2>2, <3>1
  <2> QED BY <1>6, <2>1, <2>2
<1> QED BY <1>7, <1>8, <1>9

LEMMA InLinePushed ==
    ASSUME NEW evs \in Seq(EventRecord), NEW x \in EventRecord,
           NEW q \in Queues, Known(evs, q), InLine(evs, q),
           x.rgn = "active", x.pushed
    PROVE  InLine(Append(evs, x), [q EXCEPT !["active"] = <<Len(evs) + 1>> \o @])
<1> DEFINE f == Append(evs, x)
           e == Len(evs) + 1
           r == "active"
           p == [q EXCEPT ![r] = <<e>> \o @]
<1>1. InLine(f, q)
  BY InLineExtended
<1>2. /\ \A y \in 1..Len(evs) : Follows(f, y, e) /\ Follows(f, e, y) /\ f[y] = evs[y]
      /\ f[e] = x
  BY NewEventFollows, AppendProperties
<1>3. r \in Regions /\ \A s \in Regions : q[s] \in Seq(Nat)
  BY DEF Queues, Regions
<1>4. e \in Nat /\ Len(evs) \in Nat
  OBVIOUS
<1>5. \A s \in Regions : p[s] = IF s = r THEN <<e>> \o q[r] ELSE q[s]
  BY DEF Queues
<1> HIDE DEF f, e, p
<1>6. \A s \in Regions : ToSet(p[s]) = IF s = r THEN ToSet(q[r]) \cup {e} ELSE ToSet(q[s])
  <2>1. ToSet(<<e>> \o q[r]) = ToSet(q[r]) \cup {e}
    BY <1>3, <1>4, ToSetCons
  <2> QED BY <1>5, <2>1
<1> SUFFICES ASSUME NEW s \in Regions
             PROVE  /\ \A j, k \in DOMAIN p[s] : j < k => Follows(f, p[s][j], p[s][k])
                    /\ \A u \in Regions : Rank(s) < Rank(u) =>
                          \A y \in ToSet(p[s]), z \in ToSet(p[u]) : Follows(f, y, z)
                    /\ \A y \in ToSet(p[s]) :
                          f[y].rgn \in Regions /\ Rank(s) <= Rank(f[y].rgn)
  BY DEF InLine, f, e, p
<1>7. ASSUME NEW j \in DOMAIN p[s], NEW k \in DOMAIN p[s], j < k
      PROVE  Follows(f, p[s][j], p[s][k])
  <2>1. CASE s # r
    <3>1. p[s] = q[s]
      BY <1>5, <2>1
    <3> QED BY <1>1, <1>7, <3>1 DEF InLine
  <2>2. CASE s = r
    <3>0. q[r] \in Seq(Nat) /\ p[s] = <<e>> \o q[r]
      BY <1>3, <1>5, <2>2
    <3>1. /\ Len(q[r]) \in Nat /\ DOMAIN q[r] = 1..Len(q[r])
          /\ DOMAIN p[s] = 1..(Len(q[r]) + 1)
          /\ \A i \in 1..Len(q[r]) : p[s][i + 1] = q[r][i]
          /\ p[s][1] = e
      BY <1>4, <3>0
    <3>2. k - 1 \in 1..Len(q[r]) /\ (k - 1) + 1 = k
      BY <1>7, <3>1
    <3>3. p[s][k] = q[r][k - 1] /\ q[r][k - 1] \in ToSet(q[r])
      BY <3>1, <3>2 DEF ToSet
    <3>4. CASE j = 1
      BY <1>2, <1>3, <3>1, <3>3, <3>4 DEF Known
    <3>5. CASE j # 1
      <4>1. j - 1 \in 1..Len(q[r]) /\ (j - 1) + 1 = j /\ j - 1 < k - 1
        BY <1>7, <3>1, <3>5
      <4>2. p[s][j] = q[r][j - 1]
        BY <3>1, <4>1
      <4> QED BY <1>1, <1>3, <3>1, <3>2, <3>3, <4>1, <4>2 DEF InLine
    <3> QED BY <3>4, <3>5
  <2> QED BY <2>1, <2>2
<1>8. ASSUME NEW u \in Regions, Rank(s) < Rank(u),
             NEW y \in ToSet(p[s]), NEW z \in ToSet(p[u])
      PROVE  Follows(f, y, z)
  <2>1. CASE y \in ToSet(q[s]) /\ z \in ToSet(q[u])
    BY <1>1, <1>8, <2>1 DEF InLine
  <2>2. CASE y \in ToSet(q[s]) /\ z = e
    BY <1>2, <2>2 DEF Known
  <2>3. CASE y = e /\ s = r
    <3>1. u # r
      <4>1. Rank(s) \in Nat
        BY RankType
      <4> QED BY <1>8, <2>3, <4>1
    <3>2. z \in ToSet(q[u])
      BY <1>6, <3>1
    <3> QED BY <1>2, <2>3, <3>2 DEF Known
  <2> QED BY <1>6, <2>1, <2>2, <2>3
<1>9. ASSUME NEW y \in ToSet(p[s])
      PROVE  f[y].rgn \in Regions /\ Rank(s) <= Rank(f[y].rgn)
  <2>1. CASE y \in ToSet(q[s])
    BY <1>1, <2>1 DEF InLine
  <2>2. CASE y = e /\ s = r
    <3>1. Rank(r) <= Rank(r)
      BY <1>3, RankType
    <3> QED BY <1>2, <1>3, <2>2, <3>1
  <2> QED BY <1>6, <2>1, <2>2
<1> QED BY <1>7, <1>8, <1>9

(* The queues before the one of a region hold only what was asked for too  *)
(* late.                                                                   *)
BeforeAreLate(evs, q, r) ==
    \A s \in Regions : Rank(s) < Rank(r) => \A y \in ToSet(q[s]) : evs[y].late

(* The event at the head of the first queue that is not too late may run   *)
(* before all the others that are not, and leaves them in line.            *)
LEMMA InLineHead ==
    ASSUME NEW evs, NEW q \in Queues, InLine(evs, q),
           NEW r \in Regions, q[r] # <<>>
    PROVE  LET h == Head(q[r])
               p == [q EXCEPT ![r] = Tail(@)]
           IN  /\ p \in Queues
               /\ InLine(evs, p)
               /\ Queued(q) = {h} \cup Queued(p)
               /\ BeforeAreLate(evs, q, r) =>
                    \A y \in Queued(p) : ~ evs[y].late => Follows(evs, h, y)
<1> DEFINE h == Head(q[r])
           p == [q EXCEPT ![r] = Tail(@)]
<1>1. \A s \in Regions : q[s] \in Seq(Nat)
  BY DEF Queues
<1>2. /\ Len(q[r]) \in Nat /\ DOMAIN q[r] = 1..Len(q[r]) /\ Len(q[r]) # 0
      /\ Tail(q[r]) \in Seq(Nat) /\ DOMAIN Tail(q[r]) = 1..(Len(q[r]) - 1)
      /\ \A i \in 1..(Len(q[r]) - 1) : Tail(q[r])[i] = q[r][i + 1]
      /\ h = q[r][1]
  BY <1>1
<1>3. ToSet(q[r]) = {h} \cup ToSet(Tail(q[r]))
  BY <1>1, ToSetHeadTail
<1>4. p \in Queues /\ \A s \in Regions : p[s] = IF s = r THEN Tail(q[r]) ELSE q[s]
  BY <1>2 DEF Queues
<1> HIDE DEF h, p
<1>5. \A s \in Regions : ToSet(p[s]) \subseteq ToSet(q[s])
  BY <1>3, <1>4
<1>6. InLine(evs, p)
  <2> SUFFICES ASSUME NEW s \in Regions
               PROVE  /\ \A j, k \in DOMAIN p[s] : j < k => Follows(evs, p[s][j], p[s][k])
                      /\ \A u \in Regions : Rank(s) < Rank(u) =>
                            \A y \in ToSet(p[s]), z \in ToSet(p[u]) : Follows(evs, y, z)
                      /\ \A y \in ToSet(p[s]) :
                            evs[y].rgn \in Regions /\ Rank(s) <= Rank(evs[y].rgn)
    BY DEF InLine
  <2>1. ASSUME NEW j \in DOMAIN p[s], NEW k \in DOMAIN p[s], j < k
        PROVE  Follows(evs, p[s][j], p[s][k])
    <3>1. CASE s # r
      BY <1>4, <2>1, <3>1 DEF InLine
    <3>2. CASE s = r
      <4>1. p[s] = Tail(q[r])
        BY <1>4, <3>2
      <4>2. /\ j \in 1..(Len(q[r]) - 1) /\ k \in 1..(Len(q[r]) - 1)
            /\ j + 1 \in 1..Len(q[r]) /\ k + 1 \in 1..Len(q[r]) /\ j + 1 < k + 1
        BY <1>2, <2>1, <4>1, SMTT(30)
      <4>3. p[s][j] = q[r][j + 1] /\ p[s][k] = q[r][k + 1]
        BY <1>2, <4>1, <4>2, SMTT(30)
      <4>4. \A i, n \in DOMAIN q[r] : i < n => Follows(evs, q[r][i], q[r][n])
        BY DEF InLine
      <4> QED BY <1>2, <4>2, <4>3, <4>4
    <3> QED BY <3>1, <3>2
  <2>2. \A u \in Regions : Rank(s) < Rank(u) =>
            \A y \in ToSet(p[s]), z \in ToSet(p[u]) : Follows(evs, y, z)
    BY <1>5 DEF InLine
  <2>3. \A y \in ToSet(p[s]) : evs[y].rgn \in Regions /\ Rank(s) <= Rank(evs[y].rgn)
    BY <1>5 DEF InLine
  <2> QED BY <2>1, <2>2, <2>3
<1>7. Queued(q) = {h} \cup Queued(p)
  <2>1. \A y : y \in Queued(q) <=> \E s \in Regions : y \in ToSet(q[s])
    BY DEF Queued
  <2>2. \A y : y \in Queued(p) <=> \E s \in Regions : y \in ToSet(p[s])
    BY DEF Queued
  <2>3. \A s \in Regions : ToSet(q[s]) = IF s = r THEN {h} \cup ToSet(p[s]) ELSE ToSet(p[s])
    BY <1>3, <1>4
  <2> QED BY <2>1, <2>2, <2>3
<1>8. ASSUME BeforeAreLate(evs, q, r),
             NEW y \in Queued(p), ~ evs[y].late
      PROVE  Follows(evs, h, y)
  <2>1. PICK s \in Regions : y \in ToSet(p[s])
    BY DEF Queued
  <2>2. CASE s = r
    <3>1. PICK i \in 1..(Len(q[r]) - 1) : y = q[r][i + 1]
      BY <1>2, <1>4, <2>1, <2>2 DEF ToSet
    <3>2. 1 \in DOMAIN q[r] /\ i + 1 \in DOMAIN q[r] /\ 1 < i + 1
      BY <1>2
    <3> QED BY <1>2, <3>1, <3>2 DEF InLine
  <2>3. CASE s # r
    <3>1. y \in ToSet(q[s]) /\ h \in ToSet(q[r])
      BY <1>3, <1>5, <2>1
    <3>3. Rank(r) < Rank(s)
      <4>1. Rank(r) \in Nat /\ Rank(s) \in Nat /\ Rank(r) # Rank(s) /\ ~ (Rank(s) < Rank(r))
        BY <1>8, <2>3, <3>1, RankType DEF BeforeAreLate
      <4> QED BY <4>1
    <3> QED BY <3>1, <3>3 DEF InLine
  <2> QED BY <2>2, <2>3
<1> QED BY <1>4, <1>6, <1>7, <1>8 DEF h, p

(* A queue that becomes the active queue, when all before it are empty.    *)
LEMMA InLinePromoted ==
    ASSUME NEW evs, NEW q \in Queues, InLine(evs, q),
           NEW from \in {"nbassign", "rwsync"}, q["active"] = <<>>,
           from = "rwsync" => q["nbassign"] = <<>>
    PROVE  LET p == [q EXCEPT !["active"] = q[from], ![from] = <<>>]
           IN  /\ p \in Queues
               /\ InLine(evs, p)
               /\ Queued(p) = Queued(q)
<1> DEFINE p == [q EXCEPT !["active"] = q[from], ![from] = <<>>]
<1>0. "active" \in Regions /\ from \in Regions /\ from # "active" /\ <<>> \in Seq(Nat)
  BY DEF Regions
<1>1. \A s \in Regions : q[s] \in Seq(Nat)
  BY DEF Queues
<1>2. p \in Queues
  BY <1>0, <1>1 DEF Queues
<1>3. \A s \in Regions : p[s] = IF s = "active" THEN q[from]
                                ELSE IF s = from THEN <<>> ELSE q[s]
  BY <1>0 DEF Queues
<1> HIDE DEF p
<1>4. ToSet(<<>>) = {} /\ DOMAIN <<>> = {}
  BY DEF ToSet
<1>5. InLine(evs, p)
  <2> SUFFICES ASSUME NEW s \in Regions
               PROVE  /\ \A j, k \in DOMAIN p[s] : j < k => Follows(evs, p[s][j], p[s][k])
                      /\ \A u \in Regions : Rank(s) < Rank(u) =>
                            \A y \in ToSet(p[s]), z \in ToSet(p[u]) : Follows(evs, y, z)
                      /\ \A y \in ToSet(p[s]) :
                            evs[y].rgn \in Regions /\ Rank(s) <= Rank(evs[y].rgn)
    BY DEF InLine
  <2>1. \A j, k \in DOMAIN p[s] : j < k => Follows(evs, p[s][j], p[s][k])
    <3>1. CASE p[s] = <<>>
      BY <1>4, <3>1
    <3>2. CASE \E u \in Regions : p[s] = q[u]
      BY <3>2 DEF InLine
    <3> QED BY <1>0, <1>3, <3>1, <3>2
  <2>2. ASSUME NEW u \in Regions, Rank(s) < Rank(u),
               NEW y \in ToSet(p[s]), NEW z \in ToSet(p[u])
        PROVE  Follows(evs, y, z)
    <3>1. CASE s = "active"
      <4>1. u # "active"
        BY <1>0, <2>2, <3>1, RankValues
      <4>2. z \in ToSet(q[u]) /\ y \in ToSet(q[from]) /\ u # from
        BY <1>3, <1>4, <2>2, <3>1, <4>1
      <4>3. Rank(from) < Rank(u)
        <5>1. q[u] # <<>>
          BY <1>1, <4>2, ToSetPlaces
        <5>2. u # "nbassign" \/ from # "rwsync"
          BY <5>1
        <5> QED BY <2>2, <3>1, <4>1, <4>2, <5>2, RankValues DEF Regions
      <4> QED BY <1>0, <4>2, <4>3 DEF InLine
    <3>2. CASE s # "active" /\ u = "active"
      <4>1. y \in ToSet(q[s]) /\ z \in ToSet(q[from])
        BY <1>3, <1>4, <2>2, <3>2
      <4>2. Rank(s) < Rank(from)
        BY <2>2, <3>2, RankValues DEF Regions
      <4> QED BY <1>0, <4>1, <4>2 DEF InLine
    <3>3. CASE s # "active" /\ u # "active"
      <4>1. y \in ToSet(q[s]) /\ z \in ToSet(q[u])
        BY <1>3, <1>4, <2>2, <3>3
      <4> QED BY <2>2, <4>1 DEF InLine
    <3> QED BY <3>1, <3>2, <3>3
  <2>3. ASSUME NEW y \in ToSet(p[s])
        PROVE  evs[y].rgn \in Regions /\ Rank(s) <= Rank(evs[y].rgn)
    <3>1. CASE s = "active"
      <4>1. evs[y].rgn \in Regions /\ Rank(from) <= Rank(evs[y].rgn)
        BY <1>0, <1>3, <2>3, <3>1 DEF InLine
      <4>2. Rank(evs[y].rgn) \in Nat
        BY <4>1, RankType
      <4> QED BY <3>1, <4>1, <4>2, RankValues
    <3>2. CASE s # "active"
      BY <1>3, <1>4, <2>3, <3>2 DEF InLine
    <3> QED BY <3>1, <3>2
  <2> QED BY <2>1, <2>2, <2>3
<1>6. Queued(p) = Queued(q)
  <2>1. ASSUME NEW y PROVE y \in Queued(q) <=> y \in Queued(p)
    <3>1. y \in Queued(q) <=> \E s \in Regions : y \in ToSet(q[s])
      BY DEF Queued
    <3>2. y \in Queued(p) <=> \E s \in Regions : y \in ToSet(p[s])
      BY DEF Queued
    <3>3. ASSUME NEW s \in Regions, y \in ToSet(q[s])
          PROVE  \E u \in Regions : y \in ToSet(p[u])
      BY <1>0, <1>3, <1>4, <3>3
    <3>4. ASSUME NEW s \in Regions, y \in ToSet(p[s])
          PROVE  \E u \in Regions : y \in ToSet(q[u])
      BY <1>0, <1>3, <1>4, <3>4
    <3> QED BY <3>1, <3>2, <3>3, <3>4
  <2> QED BY <2>1
<1> QED BY <1>2, <1>5, <1>6 DEF p

(* A cell made for one event.                                              *)
LEMMA InLineAlone ==
    ASSUME NEW evs \in Seq(EventRecord), NEW x \in EventRecord,
           NEW r \in Regions, x.rgn = r
    PROVE  LET q == CellOf(Len(evs) + 1, r, 0, 0).q
           IN  q \in Queues /\ InLine(Append(evs, x), q) /\ Queued(q) = {Len(evs) + 1}
<1> DEFINE f == Append(evs, x)
           e == Len(evs) + 1
           n == [s \in Regions |-> <<>>]
<1>1. n \in Queues /\ Known(evs, n) /\ InLine(evs, n)
  <2>1. n \in Queues
    BY DEF Queues
  <2>2. \A s \in Regions : ToSet(n[s]) = {} /\ DOMAIN n[s] = {}
    BY DEF ToSet
  <2> HIDE DEF n
  <2> QED BY <2>1, <2>2 DEF Known, InLine
<1>2. CellOf(e, r, 0, 0).q = [n EXCEPT ![r] = Append(@, e)]
  BY DEF CellOf, Enqueue, NewCell
<1>3. InLine(f, [n EXCEPT ![r] = Append(@, e)])
  <2> HIDE DEF n
  <2> QED BY <1>1, InLineEnqueued
<1>4. e \in Nat /\ 0 \in Nat
  OBVIOUS
<1>5. CellOf(e, r, 0, 0).q \in Queues
  <2>1. CellOf(e, r, 0, 0) \in Cell
    BY <1>4, CellOfProperties
  <2> QED BY <2>1 DEF Cell, Queues
<1> HIDE DEF e
<1>6. Queued(CellOf(e, r, 0, 0).q) = {e}
  <2>1. \A s \in Regions : ToSet(CellOf(e, r, 0, 0).q[s]) = Only(e, r, s)
    BY <1>4, CellOfEvents
  <2> QED BY <2>1 DEF Queued, Only
<1> QED BY <1>2, <1>3, <1>5, <1>6 DEF e

-----------------------------------------------------------------------------
(* The cells are due one after the other, none before the current time.    *)
LEMMA CellsApart ==
    ASSUME NEW l \in Seq(Cell), NEW t \in Nat, Spaced(l, t)
    PROVE  /\ \A i \in 1..Len(l) : l[i].at \in Nat /\ l[i].at >= t
           /\ \A i, j \in 1..Len(l) : i < j => l[i].at < l[j].at
<1>1. /\ Len(l) \in Nat
      /\ \A i \in 1..Len(l) : l[i].at \in Nat /\ l[i].delay \in Nat
  <2>1. Len(l) \in Nat /\ \A i \in 1..Len(l) : l[i] \in Cell
    OBVIOUS
  <2> QED BY <2>1 DEF Cell
<1>2. ASSUME NEW i \in 1..Len(l)
      PROVE  \A n \in Nat : i + n \in 1..Len(l) =>
                l[i].at <= l[i + n].at /\ (n > 0 => l[i].at < l[i + n].at)
  <2> DEFINE S == {n \in Nat : i + n \in 1..Len(l) =>
                      l[i].at <= l[i + n].at /\ (n > 0 => l[i].at < l[i + n].at)}
  <2>1. 0 \in S
    <3>1. i + 0 = i /\ l[i].at <= l[i].at
      BY <1>1
    <3> QED BY <3>1
  <2>2. ASSUME NEW n \in Nat, n \in S PROVE n + 1 \in S
    <3> SUFFICES ASSUME i + (n + 1) \in 1..Len(l)
                 PROVE  l[i].at < l[i + (n + 1)].at
      BY <1>1
    <3>1. /\ i + n \in 1..Len(l) /\ i + (n + 1) > 1 /\ i + (n + 1) # 1
          /\ (i + (n + 1)) - 1 = i + n
      BY <1>1
    <3>2. l[i].at <= l[i + n].at
      BY <2>2, <3>1
    <3>3. /\ l[i + (n + 1)].at = l[i + n].at + l[i + (n + 1)].delay
          /\ l[i + (n + 1)].delay > 0
      BY <3>1 DEF Spaced
    <3> QED BY <1>1, <3>1, <3>2, <3>3
  <2> HIDE DEF S
  <2>3. Nat \subseteq S
    BY <2>1, <2>2, NatIsInductive
  <2> QED BY <2>3 DEF S
<1>3. ASSUME NEW i \in 1..Len(l), NEW j \in 1..Len(l), i < j
      PROVE  l[i].at < l[j].at
  <2>1. j - i \in Nat /\ j - i > 0 /\ i + (j - i) = j
    BY <1>1, <1>3
  <2> QED BY <1>2, <2>1
<1>4. ASSUME NEW i \in 1..Len(l) PROVE l[i].at >= t
  <2>1. 1 \in 1..Len(l) /\ i - 1 \in Nat /\ 1 + (i - 1) = i
    BY <1>1
  <2>2. l[1].at <= l[i].at
    BY <1>2, <2>1
  <2>3. l[1].at = t + l[1].delay
    BY <2>1 DEF Spaced
  <2> QED BY <1>1, <2>1, <2>2, <2>3
<1> QED BY <1>1, <1>3, <1>4

(* CellsSorted and CellsUsed of Schedule, of any list and any events.      *)
Lines(l, evs) == \A i \in 1..Len(l) : InLine(evs, l[i].q)

Used(l) == \A i \in 1..Len(l) : i > 1 \/ l[i].delay > 0 => Queued(l[i].q) # {}

Waiting(l) == UNION {Queued(l[i].q) : i \in 1..Len(l)}

LEMMA QueuesOfCell ==
    ASSUME NEW c \in Cell
    PROVE  /\ c.q \in Queues /\ c.delay \in Nat /\ c.at \in Nat
           /\ \A r \in Regions, e \in Nat :
                Enqueue(c, r, e).q = [c.q EXCEPT ![r] = Append(@, e)]
BY DEF Cell, Queues, Enqueue

LEMMA CellsKnown ==
    ASSUME NEW l \in Seq(Cell), NEW evs, WellTimed(l, evs)
    PROVE  \A i \in 1..Len(l) : /\ l[i] \in Cell
                                /\ Known(evs, l[i].q)
                                /\ \A x \in Queued(l[i].q) : evs[x].due = l[i].at
BY DEF WellTimed, Known, Queued

(* The queues p hold what q hold, and event e besides, in region r.        *)
Gains(q, p, r, e) ==
    \A s \in Regions : ToSet(p[s]) = IF s = r THEN ToSet(q[s]) \cup {e} ELSE ToSet(q[s])

LEMMA QueuedMore ==
    ASSUME NEW q, NEW p, NEW r \in Regions, NEW e, Gains(q, p, r, e)
    PROVE  Queued(p) = Queued(q) \cup {e}
<1>1. \A s \in Regions : ToSet(p[s]) = IF s = r THEN ToSet(q[s]) \cup {e} ELSE ToSet(q[s])
  BY DEF Gains
<1>2. \A y : y \in Queued(q) <=> \E s \in Regions : y \in ToSet(q[s])
  BY DEF Queued
<1>3. \A y : y \in Queued(p) <=> \E s \in Regions : y \in ToSet(p[s])
  BY DEF Queued
<1>4. \A y : y \in Queued(p) <=> y \in Queued(q) \/ y = e
  BY <1>1, <1>2, <1>3
<1> QED BY <1>4

LEMMA EnqueuedEvents ==
    ASSUME NEW q \in Queues, NEW r \in Regions, NEW e \in Nat
    PROVE  Queued([q EXCEPT ![r] = Append(@, e)]) = Queued(q) \cup {e}
<1>1. q[r] \in Seq(Nat)
  BY DEF Queues
<1> DEFINE v == Append(q[r], e)
           p == [q EXCEPT ![r] = v]
<1>2. ToSet(v) = ToSet(q[r]) \cup {e}
  BY <1>1, ToSetAppend
<1> HIDE DEF v
<1>3. Gains(q, p, r, e)
  BY <1>2 DEF Queues, Gains
<1> HIDE DEF p
<1>4. Queued(p) = Queued(q) \cup {e}
  BY <1>3, QueuedMore
<1> QED BY <1>4 DEF p, v

LEMMA PushedEvents ==
    ASSUME NEW q \in Queues, NEW r \in Regions, NEW e \in Nat
    PROVE  Queued([q EXCEPT ![r] = <<e>> \o @]) = Queued(q) \cup {e}
<1>1. q[r] \in Seq(Nat)
  BY DEF Queues
<1> DEFINE v == <<e>> \o q[r]
           p == [q EXCEPT ![r] = v]
<1>2. ToSet(v) = ToSet(q[r]) \cup {e}
  BY <1>1, ToSetCons
<1> HIDE DEF v
<1>3. Gains(q, p, r, e)
  BY <1>2 DEF Queues, Gains
<1> HIDE DEF p
<1>4. Queued(p) = Queued(q) \cup {e}
  BY <1>3, QueuedMore
<1> QED BY <1>4 DEF p, v

(* What waits is what a queue of a cell of some time holds.                *)
LEMMA WaitingHeld ==
    ASSUME NEW l
    PROVE  \A z : z \in Waiting(l) <=> \E a : \E s \in Regions : Holds(l, a, s, z)
<1> SUFFICES ASSUME NEW z
             PROVE  z \in Waiting(l) <=> \E a : \E s \in Regions : Holds(l, a, s, z)
  OBVIOUS
<1>1. ASSUME z \in Waiting(l) PROVE \E a : \E s \in Regions : Holds(l, a, s, z)
  <2>1. PICK i \in 1..Len(l) : z \in Queued(l[i].q)
    BY <1>1 DEF Waiting
  <2>2. PICK s \in Regions : z \in ToSet(l[i].q[s])
    BY <2>1 DEF Queued
  <2>3. Holds(l, l[i].at, s, z)
    BY <2>2 DEF Holds
  <2> QED BY <2>3
<1>2. ASSUME NEW a, NEW s \in Regions, Holds(l, a, s, z) PROVE z \in Waiting(l)
  <2>1. PICK i \in 1..Len(l) : z \in ToSet(l[i].q[s])
    BY <1>2 DEF Holds
  <2>2. z \in Queued(l[i].q)
    BY <2>1 DEF Queued
  <2> QED BY <2>2 DEF Waiting
<1> QED BY <1>1, <1>2

(* schedule_event_ keeps the events of every cell in line.                 *)
LEMMA ListWithInLine ==
    ASSUME NEW l \in Seq(Cell), NEW t \in Nat, Spaced(l, t),
           NEW evs \in Seq(EventRecord), WellTimed(l, evs),
           Lines(l, evs), Used(l),
           NEW d \in Nat, NEW r \in Regions, NEW x \in EventRecord, x.rgn = r
    PROVE  LET m == ListWith(l, d, r, Len(evs) + 1, t + d)
           IN  /\ Lines(m, Append(evs, x))
               /\ Used(m)
               /\ Waiting(m) = Waiting(l) \cup {Len(evs) + 1}
<1> DEFINE e == Len(evs) + 1
           f == Append(evs, x)
           m == ListWith(l, d, r, e, t + d)
<1>1. e \in Nat
  OBVIOUS
<1>2. Listed(l, m, d, r, e, t + d) /\ Spaced(m, t)
  BY <1>1, ListWithProperties
<1> HIDE DEF m, e, f
<1>3. m \in Seq(Cell) /\ \A i \in 1..Len(m) : MadeFrom(l, m[i], r, e)
  BY <1>2 DEF Listed
<1>4. \A j \in 1..Len(l) : /\ l[j] \in Cell /\ l[j].q \in Queues
                           /\ Known(evs, l[j].q) /\ InLine(evs, l[j].q)
                           /\ Enqueue(l[j], r, e).q = [l[j].q EXCEPT ![r] = Append(@, e)]
  <2> SUFFICES ASSUME NEW j \in 1..Len(l)
               PROVE  /\ l[j] \in Cell /\ l[j].q \in Queues
                      /\ Known(evs, l[j].q) /\ InLine(evs, l[j].q)
                      /\ Enqueue(l[j], r, e).q = [l[j].q EXCEPT ![r] = Append(@, e)]
    OBVIOUS
  <2>1. l[j] \in Cell /\ Known(evs, l[j].q)
    BY CellsKnown
  <2>2. InLine(evs, l[j].q)
    BY DEF Lines
  <2>3. l[j].q \in Queues /\ Enqueue(l[j], r, e).q = [l[j].q EXCEPT ![r] = Append(@, e)]
    BY <2>1 DEF Cell, Queues, Enqueue
  <2> QED BY <2>1, <2>2, <2>3
<1>5. ASSUME NEW i \in 1..Len(m) PROVE InLine(f, m[i].q)
  <2>1. ASSUME NEW j \in 1..Len(l), m[i].q = l[j].q
        PROVE  InLine(f, m[i].q)
    <3> DEFINE q == l[j].q
    <3>1. q \in Queues /\ Known(evs, q) /\ InLine(evs, q)
      BY <1>4
    <3> HIDE DEF q
    <3>2. InLine(f, q)
      BY <3>1, InLineExtended DEF f
    <3> QED BY <2>1, <3>2 DEF q
  <2>2. ASSUME NEW j \in 1..Len(l), m[i].q = Enqueue(l[j], r, e).q
        PROVE  InLine(f, m[i].q)
    <3> DEFINE q == l[j].q
    <3>1. q \in Queues /\ Known(evs, q) /\ InLine(evs, q)
      BY <1>4
    <3>2. m[i].q = [q EXCEPT ![r] = Append(@, e)]
      BY <1>4, <2>2
    <3> HIDE DEF q
    <3>3. InLine(f, [q EXCEPT ![r] = Append(@, e)])
      BY <3>1, InLineEnqueued DEF f, e
    <3> QED BY <3>2, <3>3
  <2>3. CASE m[i].q = CellOf(e, r, 0, 0).q
    BY <2>3, InLineAlone DEF f, e
  <2> QED BY <1>3, <2>1, <2>2, <2>3 DEF MadeFrom
<1>6. ASSUME NEW i \in 1..Len(m), i > 1 \/ m[i].delay > 0
      PROVE  Queued(m[i].q) # {}
  <2>1. ASSUME NEW j \in 1..Len(l), m[i].q = l[j].q, m[i].at = l[j].at
        PROVE  Queued(m[i].q) # {}
    <3>1. CASE j > 1 \/ l[j].delay > 0
      BY <2>1, <3>1 DEF Used
    <3>2. CASE ~ (j > 1 \/ l[j].delay > 0)
      <4>1. j = 1 /\ l[j].delay = 0 /\ l[j].at = t
        <5>1. j = 1
          BY <3>2
        <5>2. l[j].delay \in Nat
          BY <1>4 DEF Cell
        <5> QED BY <3>2, <5>1, <5>2 DEF Spaced
      <4>2. /\ 1 \in 1..Len(m) /\ i > 1 => m[1].at < m[i].at
            /\ m[1].at >= t /\ m[1].at \in Nat /\ m[i].at \in Nat
        <5>1. 1 \in 1..Len(m) /\ Len(m) \in Nat
          BY <1>2, <1>3
        <5> QED BY <1>2, <1>3, <5>1, CellsApart
      <4>3. i = 1
        BY <2>1, <4>1, <4>2
      <4>4. m[1].at = t + m[1].delay
        BY <1>2, <4>2 DEF Spaced
      <4>5. m[1] \in Cell
        BY <1>3, <4>2, <4>3
      <4>6. m[1].delay \in Nat
        BY <4>5 DEF Cell
      <4> QED BY <1>6, <2>1, <4>1, <4>3, <4>4, <4>6
    <3> QED BY <3>1, <3>2
  <2>2. ASSUME NEW j \in 1..Len(l), m[i].q = Enqueue(l[j], r, e).q
        PROVE  Queued(m[i].q) # {}
    <3> DEFINE q == l[j].q
    <3>1. q \in Queues /\ m[i].q = [q EXCEPT ![r] = Append(@, e)]
      BY <1>4, <2>2
    <3> HIDE DEF q
    <3>2. Queued([q EXCEPT ![r] = Append(@, e)]) = Queued(q) \cup {e}
      BY <1>1, <3>1, EnqueuedEvents
    <3> QED BY <3>1, <3>2
  <2>3. CASE m[i].q = CellOf(e, r, 0, 0).q
    BY <2>3, InLineAlone DEF e
  <2> QED BY <1>3, <2>1, <2>2, <2>3 DEF MadeFrom
<1>7. Waiting(m) = Waiting(l) \cup {e}
  <2>1. \A a, z : \A s \in Regions :
            Holds(m, a, s, z) <=> (Holds(l, a, s, z) \/ (a = t + d /\ s = r /\ z = e))
    BY <1>2 DEF Listed
  <2>2. \A z : z \in Waiting(m) <=> z \in Waiting(l) \/ z = e
    BY <2>1, WaitingHeld
  <2> QED BY <2>2
<1> QED BY <1>5, <1>6, <1>7 DEF Lines, Used, m, e, f

-----------------------------------------------------------------------------
(* The events of the cells behind the first one are due later.             *)
Behind(l) == UNION {Queued(l[i].q) : i \in 2..Len(l)}

LEMMA BehindLater ==
    ASSUME NEW l \in Seq(Cell), l # <<>>, NEW t \in Nat, Spaced(l, t),
           NEW evs, WellTimed(l, evs)
    PROVE  /\ Waiting(l) = Queued(l[1].q) \cup Behind(l)
           /\ \A x \in Queued(l[1].q) : x \in 1..Len(evs) /\ evs[x].due = l[1].at
           /\ \A x \in Behind(l) : /\ x \in 1..Len(evs)
                                   /\ evs[x].due \in Nat /\ evs[x].due > l[1].at
           /\ l[1].at \in Nat /\ l[1].delay \in Nat /\ l[1].at = t + l[1].delay
<1>1. /\ 1 \in 1..Len(l) /\ Len(l) \in Nat
      /\ \A i \in 1..Len(l) : i = 1 \/ i \in 2..Len(l)
      /\ \A i \in 2..Len(l) : i \in 1..Len(l) /\ 1 < i
  OBVIOUS
<1>2. \A i \in 1..Len(l) : \A x \in Queued(l[i].q) : x \in 1..Len(evs) /\ evs[x].due = l[i].at
  BY DEF WellTimed, Queued
<1>3. \A i \in 2..Len(l) : l[i].at \in Nat /\ l[i].at > l[1].at /\ l[1].at \in Nat
  BY <1>1, CellsApart
<1>4. Waiting(l) = Queued(l[1].q) \cup Behind(l)
  BY <1>1 DEF Waiting, Behind
<1>5. ASSUME NEW x \in Behind(l)
      PROVE  x \in 1..Len(evs) /\ evs[x].due \in Nat /\ evs[x].due > l[1].at
  <2>1. PICK i \in 2..Len(l) : x \in Queued(l[i].q)
    BY DEF Behind
  <2> QED BY <1>1, <1>2, <1>3, <2>1
<1>6. l[1].at = t + l[1].delay
  BY <1>1 DEF Spaced
<1>7. l[1].at \in Nat /\ l[1].delay \in Nat
  <2>1. l[1] \in Cell
    BY <1>1
  <2> QED BY <2>1 DEF Cell
<1> QED BY <1>1, <1>2, <1>4, <1>5, <1>6, <1>7

(* The first cell is exchanged for another one of the current time.        *)
LEMMA FirstCellInLine ==
    ASSUME NEW l \in Seq(Cell), l # <<>>, l[1].delay = 0,
           NEW evs, Lines(l, evs), Used(l),
           NEW c \in Cell, c.delay = l[1].delay, InLine(evs, c.q),
           NEW m, Replaced(l, 1, c, m)
    PROVE  /\ Lines(m, evs) /\ Used(m)
           /\ Waiting(m) = Queued(c.q) \cup Behind(l)
           /\ m # <<>> /\ m[1] = c
<1>1. Len(l) \in Nat /\ Len(l) >= 1 /\ 1 \in 1..Len(l)
  OBVIOUS
<1>2. /\ m \in Seq(Cell) /\ Len(m) = Len(l)
      /\ \A i \in 1..Len(l) : m[i] = IF i = 1 THEN c ELSE l[i]
  BY <1>1, ExceptSeq DEF Replaced
<1>3. m # <<>> /\ m[1] = c
  BY <1>1, <1>2
<1>4. Lines(m, evs)
  BY <1>2 DEF Lines
<1>5. Used(m)
  <2> SUFFICES ASSUME NEW i \in 1..Len(l), i > 1 \/ m[i].delay > 0
               PROVE  Queued(m[i].q) # {}
    BY <1>2 DEF Used
  <2>1. i # 1 /\ i > 1
    BY <1>2
  <2> QED BY <1>2, <2>1 DEF Used
<1>6. Waiting(m) = Queued(c.q) \cup Behind(l)
  <2>1. \A i \in 2..Len(l) : i \in 1..Len(l) /\ i # 1 /\ m[i] = l[i]
    BY <1>1, <1>2
  <2>2. \A i \in 1..Len(l) : i = 1 \/ i \in 2..Len(l)
    BY <1>1
  <2>3. \A x : x \in Waiting(m) <=> \E i \in 1..Len(l) : x \in Queued(m[i].q)
    BY <1>2 DEF Waiting
  <2>4. \A x : x \in Behind(l) <=> \E i \in 2..Len(l) : x \in Queued(l[i].q)
    BY DEF Behind
  <2>5. \A x : x \in Waiting(m) <=> x \in Queued(c.q) \/ x \in Behind(l)
    BY <1>1, <1>2, <2>1, <2>2, <2>3, <2>4
  <2> QED BY <2>5
<1> QED BY <1>3, <1>4, <1>5, <1>6

LEMMA LinesExtended ==
    ASSUME NEW l \in Seq(Cell), NEW evs \in Seq(EventRecord), WellTimed(l, evs),
           Lines(l, evs), NEW x \in EventRecord
    PROVE  Lines(l, Append(evs, x))
<1> SUFFICES ASSUME NEW i \in 1..Len(l)
             PROVE  InLine(Append(evs, x), l[i].q)
  BY DEF Lines
<1> DEFINE q == l[i].q
<1>1. q \in Queues /\ Known(evs, q) /\ InLine(evs, q)
  <2>1. l[i] \in Cell /\ Known(evs, l[i].q)
    BY CellsKnown
  <2> QED BY <2>1, QueuesOfCell DEF Lines
<1> HIDE DEF q
<1>2. InLine(Append(evs, x), q)
  BY <1>1, InLineExtended
<1> QED BY <1>2 DEF q

(* The cells m hold nothing but what the cells l hold, and event e in      *)
(* region r.                                                               *)
HoldMore(l, m, r, e) ==
    \A a, y : \A s \in Regions :
        Holds(m, a, s, y) => Holds(l, a, s, y) \/ (s = r /\ y = e)

LEMMA FirstCellHoldsMore ==
    ASSUME NEW l \in Seq(Cell), 1 \in 1..Len(l), NEW c \in Cell, NEW m,
           Replaced(l, 1, c, m), NEW r \in Regions, NEW e, c.at = l[1].at,
           \A s \in Regions : ToSet(c.q[s]) \subseteq ToSet(l[1].q[s]) \cup Only(e, r, s)
    PROVE  HoldMore(l, m, r, e)
<1>1. /\ Len(m) = Len(l)
      /\ \A i \in 1..Len(l) : m[i] = IF i = 1 THEN c ELSE l[i]
  BY ExceptSeq DEF Replaced
<1> SUFFICES ASSUME NEW s \in Regions, NEW y, NEW i \in 1..Len(l), y \in ToSet(m[i].q[s])
             PROVE  Holds(l, m[i].at, s, y) \/ (s = r /\ y = e)
  BY <1>1 DEF HoldMore, Holds
<1>2. CASE i = 1
  BY <1>1, <1>2 DEF Holds, Only
<1>3. CASE i # 1
  BY <1>1, <1>3 DEF Holds
<1> QED BY <1>2, <1>3

(* schedule_event_push_ likewise. *)
LEMMA ListPushedInLine ==
    ASSUME NEW l \in Seq(Cell), NEW t \in Nat, Spaced(l, t),
           NEW evs \in Seq(EventRecord), WellTimed(l, evs),
           Lines(l, evs), Used(l),
           NEW x \in EventRecord, x.rgn = "active", x.pushed
    PROVE  LET m == ListPushed(l, Len(evs) + 1, t)
           IN  /\ Lines(m, Append(evs, x))
               /\ Used(m)
               /\ Waiting(m) = Waiting(l) \cup {Len(evs) + 1}
               /\ HoldMore(l, m, "active", Len(evs) + 1)
<1> DEFINE e == Len(evs) + 1
           f == Append(evs, x)
           m == ListPushed(l, e, t)
<1>1. e \in Nat /\ "active" \in Regions /\ t + 0 = t /\ 0 \in Nat
  BY DEF Regions
<1>2. CASE l = <<>> \/ l[1].delay > 0
  <2>1. m = ListWith(l, 0, "active", e, t + 0)
    BY <1>1, <1>2 DEF ListPushed
  <2>2. LET n == ListWith(l, 0, "active", e, t + 0)
        IN  Lines(n, f) /\ Used(n) /\ Waiting(n) = Waiting(l) \cup {e}
    BY <1>1, ListWithInLine
  <2> HIDE DEF m
  <2>3. HoldMore(l, m, "active", e)
    <3>1. Listed(l, m, 0, "active", e, t + 0)
      BY <1>1, <2>1, ListWithProperties
    <3> QED BY <3>1 DEF Listed, HoldMore
  <2> QED BY <2>1, <2>2, <2>3 DEF m
<1>3. CASE l # <<>> /\ ~ (l[1].delay > 0)
  <2> DEFINE z == l[1]
             q == z.q
             p == [q EXCEPT !["active"] = <<e>> \o @]
             c == [z EXCEPT !.q["active"] = <<e>> \o @]
  <2>1. 1 \in 1..Len(l) /\ z \in Cell
    BY <1>3
  <2>2. z.delay = 0 /\ q \in Queues
    BY <1>3, <2>1 DEF Cell, Queues
  <2>3. m = [l EXCEPT ![1] = c]
    BY <1>3, <2>1 DEF ListPushed
  <2>4. Known(evs, q) /\ InLine(evs, q)
    BY <2>1, CellsKnown DEF Lines
  <2>5. c.q = p
    BY <2>1 DEF Cell
  <2> HIDE DEF z, m, e
  <2>6. c \in Cell /\ c.delay = z.delay
    BY <1>1, <2>1, PushedInFront
  <2> HIDE DEF q, c
  <2>7. InLine(f, p) /\ Queued(p) = Queued(q) \cup {e}
    <3>1. InLine(f, p)
      BY <2>2, <2>4, InLinePushed DEF e
    <3>2. Queued(p) = Queued(q) \cup {e}
      BY <1>1, <2>2, PushedEvents
    <3> QED BY <3>1, <3>2
  <2>8. \A s \in Regions : ToSet(p[s]) \subseteq ToSet(q[s]) \cup Only(e, "active", s)
    <3>1. q["active"] \in Seq(Nat) /\ \A s \in Regions : p[s] = IF s = "active" THEN <<e>> \o q["active"] ELSE q[s]
      BY <1>1, <2>2 DEF Queues
    <3>2. ToSet(<<e>> \o q["active"]) = {e} \cup ToSet(q["active"])
      BY <1>1, <3>1, ToSetCons
    <3> QED BY <3>1, <3>2 DEF Only
  <2> HIDE DEF p, f
  <2>9. Lines(l, f)
    BY LinesExtended DEF f
  <2>10. Replaced(l, 1, c, m)
    BY <2>3 DEF Replaced
  <2>11. /\ Lines(m, f) /\ Used(m)
         /\ Waiting(m) = Queued(c.q) \cup Behind(l)
         /\ m # <<>> /\ m[1] = c
    BY <1>3, <2>2, <2>5, <2>6, <2>7, <2>9, <2>10, FirstCellInLine DEF z
  <2>12. Waiting(l) = Queued(q) \cup Behind(l)
    BY <1>3, BehindLater DEF q, z
  <2>13. Waiting(m) = Waiting(l) \cup {e}
    BY <2>5, <2>7, <2>11, <2>12
  <2>14. HoldMore(l, m, "active", e)
    <3>1. \A s \in Regions : ToSet(c.q[s]) \subseteq ToSet(l[1].q[s]) \cup Only(e, "active", s)
      BY <2>5, <2>8 DEF q, z
    <3>2. c.at = l[1].at
      BY <1>1, <2>1, PushedInFront DEF c, z, e
    <3> QED BY <1>1, <2>1, <2>6, <2>10, <3>1, <3>2, FirstCellHoldsMore
  <2> QED BY <2>11, <2>13, <2>14 DEF m, e, f
<1> QED BY <1>2, <1>3

Dequeues(q, r, p) == p = [q EXCEPT ![r] = Tail(@)]

(* The first event of a queue of the current cell is taken: q are the      *)
(* queues of the cell, or what they are when one was promoted, and every   *)
(* event before region r is late.                                          *)
Takes(l, t, evs, q, r, c) ==
    /\ l \in Seq(Cell) /\ l # <<>> /\ t \in Nat /\ Spaced(l, t) /\ l[1].delay = 0
    /\ WellTimed(l, evs) /\ Lines(l, evs) /\ Used(l)
    /\ q \in Queues /\ InLine(evs, q) /\ Queued(q) = Queued(l[1].q)
    /\ r \in Regions /\ q[r] # <<>>
    /\ BeforeAreLate(evs, q, r) /\ ~ evs[Head(q[r])].late
    /\ c \in Cell /\ c.delay = l[1].delay /\ Dequeues(q, r, c.q)

(* All that is left may run after the event.                               *)
IsTaken(l, t, evs, q, c, m, h) ==
    /\ Lines(m, evs) /\ Used(m)
    /\ m # <<>> /\ m[1] = c
    /\ \A s \in Regions : ToSet(c.q[s]) \subseteq ToSet(q[s])
    /\ h \in Waiting(l) /\ evs[h].due = t
    /\ Waiting(m) = Waiting(l) \ {h}
    /\ \A y \in Waiting(m) : evs[y].due = t /\ ~ evs[y].late => Follows(evs, h, y)

LEMMA EventTakenInLine ==
    ASSUME NEW l, NEW t, NEW evs, NEW q, NEW r, NEW c, NEW m,
           Takes(l, t, evs, q, r, c), Replaced(l, 1, c, m)
    PROVE  IsTaken(l, t, evs, q, c, m, Head(q[r]))
<1> USE DEF Takes
<1> DEFINE h == Head(q[r])
           p == [q EXCEPT ![r] = Tail(@)]
<1>1. /\ p \in Queues /\ InLine(evs, p)
      /\ Queued(q) = {h} \cup Queued(p)
      /\ \A y \in Queued(p) : ~ evs[y].late => Follows(evs, h, y)
  <2>1. /\ p \in Queues
        /\ InLine(evs, p)
        /\ Queued(q) = {h} \cup Queued(p)
        /\ BeforeAreLate(evs, q, r) =>
             \A y \in Queued(p) : ~ evs[y].late => Follows(evs, h, y)
    BY InLineHead, Zenon
  <2> HIDE DEF h, p
  <2> QED BY <2>1
<1>2. \A s \in Regions : ToSet(p[s]) \subseteq ToSet(q[s])
  <2>1. q[r] \in Seq(Nat) /\ \A s \in Regions : p[s] = IF s = r THEN Tail(q[r]) ELSE q[s]
    BY DEF Queues
  <2>2. ToSet(q[r]) = {Head(q[r])} \cup ToSet(Tail(q[r]))
    BY <2>1, ToSetHeadTail
  <2> QED BY <2>1, <2>2
<1>3. c.q = p
  BY DEF Dequeues
<1>0. ~ evs[h].late
  OBVIOUS
<1> HIDE DEF h, p
<1>4. /\ Lines(m, evs) /\ Used(m)
      /\ Waiting(m) = Queued(c.q) \cup Behind(l)
      /\ m # <<>> /\ m[1] = c
  BY <1>1, <1>3, FirstCellInLine
<1>5. /\ Waiting(l) = Queued(l[1].q) \cup Behind(l)
      /\ \A x \in Queued(l[1].q) : evs[x].due = t
      /\ \A x \in Behind(l) : evs[x].due # t
  <2>1. l[1].at = t /\ \A x \in Behind(l) : evs[x].due \in Nat /\ evs[x].due > l[1].at
    BY BehindLater
  <2> QED BY <2>1, BehindLater
<1>6. h \in Waiting(l) /\ evs[h].due = t
  BY <1>1, <1>5
<1>7. h \notin Queued(p)
  BY <1>0, <1>1 DEF Follows
<1>8. h \notin Behind(l)
  BY <1>5, <1>6
<1>9. Waiting(m) = Waiting(l) \ {h}
  BY <1>1, <1>3, <1>4, <1>5, <1>7, <1>8
<1>10. \A y \in Waiting(m) : evs[y].due = t /\ ~ evs[y].late => Follows(evs, h, y)
  BY <1>1, <1>3, <1>4, <1>5
<1> QED BY <1>2, <1>3, <1>4, <1>6, <1>9, <1>10 DEF h, IsTaken

(* Time advances to the first cell: what the cells hold is the same.       *)
LEMMA AdvanceInLine ==
    ASSUME NEW l \in Seq(Cell), l # <<>>, NEW evs, Lines(l, evs), Used(l)
    PROVE  LET m == [l EXCEPT ![1].delay = 0]
           IN  /\ Lines(m, evs) /\ Used(m) /\ Waiting(m) = Waiting(l)
               /\ m # <<>> /\ m[1].q = l[1].q
<1> DEFINE c == [l[1] EXCEPT !.delay = 0]
           m == [l EXCEPT ![1].delay = 0]
<1>1. Len(l) \in Nat /\ Len(l) >= 1 /\ 1 \in 1..Len(l) /\ l[1] \in Cell
  OBVIOUS
<1>2. c \in Cell /\ c.delay = 0 /\ c.q = l[1].q
  BY <1>1 DEF Cell
<1>3. m = [l EXCEPT ![1] = c]
  BY <1>1
<1> HIDE DEF c, m
<1>4. /\ m \in Seq(Cell) /\ Len(m) = Len(l)
      /\ \A i \in 1..Len(l) : m[i] = IF i = 1 THEN c ELSE l[i]
  BY <1>1, <1>2, <1>3, ExceptSeq
<1>5. \A i \in 1..Len(l) : m[i].q = l[i].q
  BY <1>2, <1>4
<1>6. m # <<>>
  BY <1>1, <1>4
<1>7. Lines(m, evs)
  BY <1>4, <1>5 DEF Lines
<1>8. Waiting(m) = Waiting(l)
  <2>1. \A x : x \in Waiting(m) <=> \E i \in 1..Len(l) : x \in Queued(m[i].q)
    BY <1>4 DEF Waiting
  <2>2. \A x : x \in Waiting(l) <=> \E i \in 1..Len(l) : x \in Queued(l[i].q)
    BY DEF Waiting
  <2>3. \A x : x \in Waiting(m) <=> x \in Waiting(l)
    BY <1>5, <2>1, <2>2
  <2> QED BY <2>3
<1>9. Used(m)
  <2> SUFFICES ASSUME NEW i \in 1..Len(l), i > 1 \/ m[i].delay > 0
               PROVE  Queued(m[i].q) # {}
    BY <1>4 DEF Used
  <2>1. i > 1
    <3>1. i # 1
      BY <1>2, <1>4
    <3> QED BY <3>1
  <2> QED BY <1>5, <2>1 DEF Used
<1> QED BY <1>1, <1>5, <1>6, <1>7, <1>8, <1>9 DEF m

(* The current cell is deleted with what it holds.                         *)
LEMMA DropInLine ==
    ASSUME NEW l \in Seq(Cell), l # <<>>, NEW evs, Lines(l, evs), Used(l)
    PROVE  /\ Lines(Tail(l), evs) /\ Used(Tail(l))
           /\ Waiting(Tail(l)) = Behind(l)
<1> DEFINE m == Tail(l)
<1>1. /\ Len(l) \in Nat /\ Len(l) >= 1
      /\ m \in Seq(Cell) /\ Len(m) = Len(l) - 1
      /\ \A i \in 1..Len(m) : m[i] = l[i+1]
  OBVIOUS
<1> HIDE DEF m
<1>2. \A i \in 1..Len(m) : i + 1 \in 1..Len(l) /\ i + 1 > 1 /\ i + 1 \in 2..Len(l)
  BY <1>1
<1>3. \A i \in 2..Len(l) : i - 1 \in 1..Len(m) /\ (i - 1) + 1 = i
  BY <1>1
<1>4. Lines(m, evs)
  BY <1>1, <1>2 DEF Lines
<1>5. Used(m)
  BY <1>1, <1>2 DEF Used
<1>6. Waiting(m) = Behind(l)
  <2>1. \A x : x \in Waiting(m) <=> \E i \in 1..Len(m) : x \in Queued(m[i].q)
    BY DEF Waiting
  <2>2. \A x : x \in Behind(l) <=> \E i \in 2..Len(l) : x \in Queued(l[i].q)
    BY DEF Behind
  <2>3. ASSUME NEW x, NEW i \in 2..Len(l), x \in Queued(l[i].q)
        PROVE  \E j \in 1..Len(m) : x \in Queued(m[j].q)
    <3>1. i - 1 \in 1..Len(m) /\ m[i - 1] = l[i]
      BY <1>1, <1>3
    <3> QED BY <2>3, <3>1
  <2>4. ASSUME NEW x, NEW i \in 1..Len(m), x \in Queued(m[i].q)
        PROVE  \E j \in 2..Len(l) : x \in Queued(l[j].q)
    BY <1>1, <1>2, <2>4
  <2>5. \A x : x \in Waiting(m) <=> x \in Behind(l)
    BY <2>1, <2>2, <2>3, <2>4
  <2> QED BY <2>5
<1> QED BY <1>4, <1>5, <1>6 DEF m

-----------------------------------------------------------------------------
(***************************************************************************)
(* What was asked for too late: StepDrained of Schedule, of any list l,    *)
(* events evs, time t and drained queues D.                                *)
(***************************************************************************)
LateDrained(l, evs, t, D) ==
    \A i \in 1..Len(l) : \A r \in Regions : \A x \in ToSet(l[i].q[r]) :
        evs[x].late <=> evs[x].due = t /\ r \in D

(* A request for a drained queue of the current time is one made too late. *)
LEMMA LateDrainedMore ==
    ASSUME NEW l \in Seq(Cell), NEW evs \in Seq(EventRecord), WellTimed(l, evs),
           NEW t, NEW D, LateDrained(l, evs, t, D),
           NEW x \in EventRecord, NEW r \in Regions,
           x.late <=> x.due = t /\ r \in D,
           NEW m, HoldMore(l, m, r, Len(evs) + 1)
    PROVE  LateDrained(m, Append(evs, x), t, D)
<1> DEFINE e == Len(evs) + 1
           f == Append(evs, x)
<1>1. f[e] = x /\ \A y \in 1..Len(evs) : f[y] = evs[y]
  BY AppendProperties
<1> HIDE DEF e, f
<1> SUFFICES ASSUME NEW i \in 1..Len(m), NEW s \in Regions, NEW y \in ToSet(m[i].q[s])
             PROVE  f[y].late <=> f[y].due = t /\ s \in D
  BY DEF LateDrained, f
<1>2. Holds(l, m[i].at, s, y) \/ (s = r /\ y = e)
  BY DEF HoldMore, Holds, e
<1>3. CASE s = r /\ y = e
  BY <1>1, <1>3
<1>4. CASE Holds(l, m[i].at, s, y)
  <2>1. PICK j \in 1..Len(l) : y \in ToSet(l[j].q[s])
    BY <1>4 DEF Holds
  <2>2. y \in 1..Len(evs)
    BY <2>1 DEF WellTimed
  <2> QED BY <1>1, <2>1, <2>2 DEF LateDrained
<1> QED BY <1>2, <1>3, <1>4

LEMMA LateDrainedExtended ==
    ASSUME NEW l \in Seq(Cell), NEW evs \in Seq(EventRecord), WellTimed(l, evs),
           NEW t, NEW D, LateDrained(l, evs, t, D), NEW x \in EventRecord
    PROVE  LateDrained(l, Append(evs, x), t, D)
<1>1. \A y \in 1..Len(evs) : Append(evs, x)[y] = evs[y]
  BY AppendProperties
<1> QED BY <1>1 DEF LateDrained, WellTimed

(* What waits behind the current cell is not late.                         *)
LEMMA BehindInTime ==
    ASSUME NEW l \in Seq(Cell), l # <<>>, NEW t \in Nat, Spaced(l, t),
           NEW evs, WellTimed(l, evs), NEW D, LateDrained(l, evs, t, D)
    PROVE  \A x \in Behind(l) : ~ evs[x].late /\ evs[x].due > t /\ evs[x].due \in Nat
<1> SUFFICES ASSUME NEW x \in Behind(l)
             PROVE  ~ evs[x].late /\ evs[x].due > t /\ evs[x].due \in Nat
  OBVIOUS
<1>1. evs[x].due \in Nat /\ evs[x].due > t
  <2>1. /\ evs[x].due \in Nat /\ evs[x].due > l[1].at
        /\ l[1].at \in Nat /\ l[1].delay \in Nat /\ l[1].at = t + l[1].delay
    BY BehindLater
  <2> QED BY <2>1
<1>2. PICK i \in 1..Len(l) : \E r \in Regions : x \in ToSet(l[i].q[r])
  BY DEF Behind, Queued
<1> QED BY <1>1, <1>2 DEF LateDrained

(* The current cell is exchanged, or more of its queues are drained.       *)
LEMMA LateDrainedFirst ==
    ASSUME NEW l \in Seq(Cell), l # <<>>, NEW t \in Nat, Spaced(l, t),
           NEW evs, WellTimed(l, evs), NEW D, LateDrained(l, evs, t, D),
           NEW c \in Cell, NEW m, Replaced(l, 1, c, m), NEW E,
           \A r \in Regions : \A x \in ToSet(c.q[r]) :
                evs[x].due = t /\ (evs[x].late <=> r \in E)
    PROVE  LateDrained(m, evs, t, E)
<1>1. /\ Len(m) = Len(l) /\ Len(l) \in Nat /\ 1 \in 1..Len(l)
      /\ \A i \in 1..Len(l) : m[i] = IF i = 1 THEN c ELSE l[i]
  BY ExceptSeq DEF Replaced
<1> SUFFICES ASSUME NEW i \in 1..Len(l), NEW r \in Regions, NEW x \in ToSet(m[i].q[r])
             PROVE  evs[x].late <=> evs[x].due = t /\ r \in E
  BY <1>1 DEF LateDrained
<1>2. CASE i = 1
  BY <1>1, <1>2
<1>3. CASE i # 1
  <2>1. i \in 2..Len(l) /\ x \in Queued(l[i].q)
    BY <1>1, <1>3 DEF Queued
  <2>2. ~ evs[x].late /\ evs[x].due > t /\ evs[x].due \in Nat
    BY <2>1, BehindInTime DEF Behind
  <2> QED BY <2>2
<1> QED BY <1>2, <1>3

LEMMA LateDrainedEmptied ==
    ASSUME NEW l \in Seq(Cell), l # <<>>, l[1].delay = 0, NEW t \in Nat, Spaced(l, t),
           NEW evs, WellTimed(l, evs), NEW D, LateDrained(l, evs, t, D),
           NEW E, D \subseteq E, \A r \in Regions : r \in E \ D => l[1].q[r] = <<>>
    PROVE  LateDrained(l, evs, t, E)
<1>1. l[1] \in Cell /\ 1 \in 1..Len(l) /\ l = [l EXCEPT ![1] = l[1]]
  OBVIOUS
<1>2. Replaced(l, 1, l[1], l)
  BY <1>1 DEF Replaced
<1>3. ToSet(<<>>) = {}
  BY DEF ToSet
<1>4. ASSUME NEW r \in Regions, NEW x \in ToSet(l[1].q[r])
      PROVE  evs[x].due = t /\ (evs[x].late <=> r \in E)
  <2>1. evs[x].due = l[1].at /\ l[1].at = t
    <3>1. l[1].at = t + l[1].delay
      BY <1>1 DEF Spaced
    <3> QED BY <1>1, <3>1 DEF WellTimed
  <2> QED BY <1>1, <1>3, <2>1 DEF LateDrained
<1> QED BY <1>1, <1>2, <1>4, LateDrainedFirst

-----------------------------------------------------------------------------
(***************************************************************************)
(* The second part of the inductive invariant, Sorted.                     *)
(***************************************************************************)
Ordered ==
    /\ Lines(list, ev) /\ Used(list)
    /\ LateDrained(list, ev, time, Drained)
    /\ InitFirst

LEMMA PendingWaits ==
    /\ list \in Seq(Cell) => Pending = Waiting(list)
    /\ list' \in Seq(Cell) => Pending' = Waiting(list')
BY DEF Pending, Waiting, CellEvents, Queued

LEMMA SortedOrdered ==
    ASSUME Cells
    PROVE  Sorted <=> Ordered
<1>1. DOMAIN list = 1..Len(list)
  BY DEF Cells
<1>2. \A x, y : MayRunBefore(x, y) <=> Follows(ev, x, y)
  BY DEF MayRunBefore, Precedes, Follows
<1>3. \A i \in 1..Len(list) : CellSorted(list[i]) <=> InLine(ev, list[i].q)
  BY <1>2 DEF CellSorted, InLine
<1>4. CellsSorted <=> Lines(list, ev)
  BY <1>1, <1>3 DEF CellsSorted, Lines
<1>5. \A i \in 1..Len(list) : CellEvents(list[i]) = Queued(list[i].q)
  BY DEF CellEvents, Queued
<1>6. CellsUsed <=> Used(list)
  BY <1>1, <1>5 DEF CellsUsed, Used
<1>7. StepDrained <=> LateDrained(list, ev, time, Drained)
  BY <1>1 DEF StepDrained, LateDrained
<1> QED BY <1>4, <1>6, <1>7 DEF Sorted, Ordered

(* What a client asks for too late it asks for in a drained queue.         *)
LEMMA TooLateDrained ==
    ASSUME CanSchedule, NEW d \in Nat, NEW r \in Regions, r = "del_thr" => d = 0
    PROVE  TooLate(d, r) <=> d = 0 /\ r \in Drained
BY DEF CanSchedule, ClientRuns, TooLate, Drained, Regions

(* A new event changes nothing that is said of the initialization events   *)
(* and of the final events.                                                *)
LEMMA InitFirstKept ==
    ASSUME Parts, InitFirst, NEW x \in EventRecord, ev' = Append(ev, x),
           UNCHANGED <<initList, finalList, pc, time, simStarted, ran>>
    PROVE  InitFirst'
<1>1. \A y \in 1..Len(ev) : ev'[y] = ev[y]
  BY AppendProperties DEF Parts, Cells
<1>2. ToSet(initList) \cup ToSet(finalList) \cup ran \subseteq 1..Len(ev)
  BY DEF Parts, Control, ListsKnown, Ids
<1> QED BY <1>1, <1>2 DEF InitFirst

LEMMA ScheduleOrders ==
    ASSUME Parts, Ordered, NEW d \in Delays, NEW r \in Regions, Schedule(d, r)
    PROVE  Ordered' /\ Waiting(list') = Waiting(list) \cup {Len(ev) + 1}
<1> DEFINE x == [rgn |-> r, due |-> time + d, pushed |-> FALSE, late |-> TooLate(d, r)]
<1>1. d \in Nat /\ time \in Nat /\ time + d \in Nat
  BY DelaysAssumption DEF Parts, Cells
<1>2. /\ x \in EventRecord /\ x.rgn = r
      /\ x.late <=> x.due = time /\ r \in Drained
  <2>1. x.late <=> d = 0 /\ r \in Drained
    BY <1>1, TooLateDrained DEF Schedule
  <2>2. x.due = time <=> d = 0
    BY <1>1
  <2>3. x \in EventRecord
    BY <1>1 DEF EventRecord, TooLate
  <2> QED BY <2>1, <2>2, <2>3
<1>3. ev' = Append(ev, x) /\ list' = ListWith(list, d, r, Len(ev) + 1, time + d)
      /\ UNCHANGED <<initList, finalList, pc, time, simStarted, ran>>
  BY DEF Schedule, New, control
<1> HIDE DEF x
<1>4. /\ list \in Seq(Cell) /\ Spaced(list, time) /\ ev \in Seq(EventRecord)
      /\ WellTimed(list, ev) /\ Lines(list, ev) /\ Used(list)
      /\ LateDrained(list, ev, time, Drained)
  BY DEF Parts, Cells, Ordered
<1>5. /\ Lines(list', ev') /\ Used(list')
      /\ Waiting(list') = Waiting(list) \cup {Len(ev) + 1}
  <2>1. LET m == ListWith(list, d, r, Len(ev) + 1, time + d)
        IN  Lines(m, Append(ev, x)) /\ Used(m) /\ Waiting(m) = Waiting(list) \cup {Len(ev) + 1}
    BY <1>1, <1>2, <1>4, ListWithInLine
  <2> QED BY <1>3, <2>1
<1>6. LateDrained(list', ev', time, Drained)
  <2>1. Listed(list, list', d, r, Len(ev) + 1, time + d)
    BY <1>1, <1>3, <1>4, ListWithProperties
  <2>2. HoldMore(list, list', r, Len(ev) + 1)
    BY <2>1 DEF Listed, HoldMore
  <2> QED BY <1>2, <1>3, <1>4, <2>2, LateDrainedMore
<1>7. Drained' = Drained
  BY <1>3 DEF Drained
<1>8. InitFirst'
  BY <1>2, <1>3, InitFirstKept DEF Ordered
<1> QED BY <1>3, <1>5, <1>6, <1>7, <1>8 DEF Ordered

LEMMA PushOrders ==
    ASSUME Parts, Ordered, Push
    PROVE  Ordered' /\ Waiting(list') = Waiting(list) \cup {Len(ev) + 1}
<1> DEFINE x == [rgn |-> "active", due |-> time, pushed |-> TRUE,
                late |-> TooLate(0, "active")]
           e == Len(ev) + 1
<1>1. time \in Nat /\ "active" \in Regions
  BY DEF Parts, Cells, Regions
<1>2. /\ x \in EventRecord /\ x.rgn = "active" /\ x.pushed
      /\ x.late <=> x.due = time /\ "active" \in Drained
  <2>1. TooLate(0, "active") <=> 0 = 0 /\ "active" \in Drained
    BY <1>1, TooLateDrained DEF Push
  <2>2. x \in EventRecord
    BY <1>1 DEF EventRecord, TooLate
  <2> QED BY <2>1, <2>2
<1>3. ev' = Append(ev, x) /\ list' = ListPushed(list, e, time)
      /\ UNCHANGED <<initList, finalList, pc, time, simStarted, ran>>
  BY DEF Push, New, control
<1> HIDE DEF x
<1>4. /\ list \in Seq(Cell) /\ Spaced(list, time) /\ ev \in Seq(EventRecord)
      /\ WellTimed(list, ev) /\ Lines(list, ev) /\ Used(list)
      /\ LateDrained(list, ev, time, Drained)
  BY DEF Parts, Cells, Ordered
<1>5. /\ Lines(list', ev') /\ Used(list')
      /\ Waiting(list') = Waiting(list) \cup {e}
      /\ HoldMore(list, list', "active", e)
  <2>1. LET m == ListPushed(list, Len(ev) + 1, time)
        IN  /\ Lines(m, Append(ev, x)) /\ Used(m)
            /\ Waiting(m) = Waiting(list) \cup {Len(ev) + 1}
            /\ HoldMore(list, m, "active", Len(ev) + 1)
    BY <1>1, <1>2, <1>4, ListPushedInLine, SMTT(40)
  <2> QED BY <1>3, <2>1
<1>6. LateDrained(list', ev', time, Drained)
  BY <1>1, <1>2, <1>3, <1>4, <1>5, LateDrainedMore
<1>7. Drained' = Drained
  BY <1>3 DEF Drained
<1>8. InitFirst'
  BY <1>2, <1>3, InitFirstKept DEF Ordered
<1> QED BY <1>3, <1>5, <1>6, <1>7, <1>8 DEF Ordered

LEMMA ScheduleInitOrders ==
    ASSUME Parts, Ordered, ScheduleInit
    PROVE  Ordered'
<1> DEFINE x == [rgn |-> "init", due |-> 0, pushed |-> FALSE, late |-> (pc = "startsim")]
           e == Len(ev) + 1
<1>1. x \in EventRecord /\ x.rgn = "init" /\ x.due = 0 /\ (x.late <=> pc = "startsim")
  BY DEF EventRecord
<1>2. /\ ev' = Append(ev, x) /\ initList' = Append(initList, e)
      /\ UNCHANGED <<list, finalList, pc, time, simStarted, ran>>
      /\ ~ simStarted
  BY DEF ScheduleInit, New, control
<1>3. /\ list \in Seq(Cell) /\ WellTimed(list, ev) /\ ev \in Seq(EventRecord)
      /\ Lines(list, ev) /\ Used(list) /\ LateDrained(list, ev, time, Drained)
      /\ initList \in Seq(Nat) /\ ToSet(initList) \subseteq 1..Len(ev)
      /\ ToSet(finalList) \subseteq 1..Len(ev) /\ ran \subseteq 1..Len(ev)
      /\ InitFirst
  BY DEF Parts, Cells, Control, ListsKnown, Ids, Ordered
<1> HIDE DEF x
<1>4. /\ \A y \in 1..Len(ev) : ev'[y] = ev[y] /\ y < e
      /\ ev'[e] = x /\ e \in Nat
  BY <1>1, <1>2, <1>3, AppendProperties
<1> HIDE DEF e
<1>5. Lines(list', ev') /\ Used(list')
  BY <1>1, <1>2, <1>3, LinesExtended
<1>6. LateDrained(list', ev', time, Drained) /\ Drained' = Drained
  BY <1>1, <1>2, <1>3, LateDrainedExtended DEF Drained
<1>7. \A y \in ToSet(initList') : /\ ev'[y].rgn = "init" /\ ev'[y].due = 0
                                 /\ (ev'[y].late <=> pc \notin {"compile", "init"})
  <2>1. ToSet(initList') = ToSet(initList) \cup {e}
    <3>1. initList \in Seq(Nat) /\ e \in Nat
      BY <1>3, <1>4
    <3>2. ToSet(Append(initList, e)) = ToSet(initList) \cup {e}
      BY <3>1, ToSetAppend
    <3> QED BY <1>2, <3>2
  <2>2. pc = "startsim" <=> pc \notin {"compile", "init"}
    BY <1>2, <1>3 DEF InitFirst
  <2> QED BY <1>1, <1>3, <1>4, <2>1, <2>2 DEF InitFirst
<1>8. ASSUME NEW j \in DOMAIN initList', NEW k \in DOMAIN initList', j < k
      PROVE  initList'[j] < initList'[k]
  <2> DEFINE n == Len(initList)
  <2>1. /\ n \in Nat /\ DOMAIN initList = 1..n /\ DOMAIN initList' = 1..(n + 1)
        /\ \A i \in 1..n : initList'[i] = initList[i] /\ initList[i] \in ToSet(initList)
        /\ initList'[n + 1] = e
    <3>1. \A i \in 1..n : initList[i] \in ToSet(initList)
      BY <1>3, ToSetPlaces
    <3> QED BY <1>2, <1>3, <1>4, <3>1, AppendProperties
  <2> HIDE DEF n
  <2>2. j \in 1..n
    BY <1>8, <2>1
  <2>3. CASE k = n + 1
    BY <1>3, <1>4, <2>1, <2>2, <2>3
  <2>4. CASE k # n + 1
    <3>1. k \in 1..n
      BY <1>8, <2>1, <2>4
    <3> QED BY <1>3, <1>8, <2>1, <2>2, <3>1 DEF InitFirst
  <2> QED BY <2>3, <2>4
<1>9. InitFirst'
  <2>1. \A y \in ToSet(finalList) : ev'[y].rgn = "final" /\ ~ ev'[y].late
    BY <1>3, <1>4 DEF InitFirst
  <2>2. \A y \in ran : ~ ev'[y].late
    BY <1>3, <1>4 DEF InitFirst
  <2>3. /\ ~ simStarted <=> pc \in {"compile", "init", "startsim"}
        /\ ~ simStarted => time = 0
    BY <1>3 DEF InitFirst
  <2>4. UNCHANGED <<finalList, ran, pc, time, simStarted>>
    BY <1>2
  <2>5. \A y \in ToSet(initList') : /\ ev'[y].rgn = "init" /\ ev'[y].due = 0
                                   /\ (ev'[y].late <=> pc' \notin {"compile", "init"})
    BY <1>7, <2>4
  <2>6. /\ \A y \in ToSet(finalList') : ev'[y].rgn = "final" /\ ~ ev'[y].late
        /\ \A y \in ran' : ~ ev'[y].late
    BY <2>1, <2>2, <2>4
  <2>7. /\ ~ simStarted' <=> pc' \in {"compile", "init", "startsim"}
        /\ ~ simStarted' => time' = 0
    BY <2>3, <2>4
  <2> QED BY <1>8, <2>5, <2>6, <2>7, Zenon DEF InitFirst
<1> QED BY <1>2, <1>5, <1>6, <1>9 DEF Ordered

LEMMA ScheduleFinalOrders ==
    ASSUME Parts, Ordered, ScheduleFinal
    PROVE  Ordered'
<1> DEFINE x == [rgn |-> "final", due |-> 0, pushed |-> FALSE, late |-> FALSE]
           e == Len(ev) + 1
<1>1. x \in EventRecord /\ x.rgn = "final" /\ ~ x.late
  BY DEF EventRecord
<1>2. /\ ev' = Append(ev, x) /\ finalList' = Append(finalList, e)
      /\ UNCHANGED <<list, initList, pc, time, simStarted, ran>>
  BY DEF ScheduleFinal, New, control
<1>3. /\ list \in Seq(Cell) /\ WellTimed(list, ev) /\ ev \in Seq(EventRecord)
      /\ Lines(list, ev) /\ Used(list) /\ LateDrained(list, ev, time, Drained)
      /\ ToSet(initList) \subseteq 1..Len(ev) /\ finalList \in Seq(Nat)
      /\ ToSet(finalList) \subseteq 1..Len(ev) /\ ran \subseteq 1..Len(ev)
      /\ InitFirst
  BY DEF Parts, Cells, Control, ListsKnown, Ids, Ordered
<1> HIDE DEF x
<1>4. /\ \A y \in 1..Len(ev) : ev'[y] = ev[y]
      /\ ev'[e] = x /\ e \in Nat
  BY <1>1, <1>2, <1>3, AppendProperties
<1> HIDE DEF e
<1>5. Lines(list', ev') /\ Used(list')
  BY <1>1, <1>2, <1>3, LinesExtended
<1>6. LateDrained(list', ev', time, Drained) /\ Drained' = Drained
  BY <1>1, <1>2, <1>3, LateDrainedExtended DEF Drained
<1>7. InitFirst'
  <2>1. ToSet(finalList') = ToSet(finalList) \cup {e}
    <3>1. finalList \in Seq(Nat) /\ e \in Nat
      BY <1>3, <1>4
    <3>2. ToSet(Append(finalList, e)) = ToSet(finalList) \cup {e}
      BY <3>1, ToSetAppend
    <3> QED BY <1>2, <3>2
  <2>2. \A y \in ToSet(finalList') : ev'[y].rgn = "final" /\ ~ ev'[y].late
    BY <1>1, <1>3, <1>4, <2>1 DEF InitFirst
  <2>3. \A y \in ToSet(initList) : /\ ev'[y].rgn = "init" /\ ev'[y].due = 0
                                  /\ (ev'[y].late <=> pc \notin {"compile", "init"})
    BY <1>3, <1>4 DEF InitFirst
  <2>4. \A y \in ran : ~ ev'[y].late
    BY <1>3, <1>4 DEF InitFirst
  <2>5. /\ ~ simStarted <=> pc \in {"compile", "init", "startsim"}
        /\ ~ simStarted => time = 0
        /\ \A j, k \in DOMAIN initList : j < k => initList[j] < initList[k]
    BY <1>3 DEF InitFirst
  <2>6. UNCHANGED <<initList, ran, pc, time, simStarted>>
    BY <1>2
  <2>7. \A y \in ToSet(initList') : /\ ev'[y].rgn = "init" /\ ev'[y].due = 0
                                   /\ (ev'[y].late <=> pc' \notin {"compile", "init"})
    BY <2>3, <2>6
  <2>8. \A y \in ran' : ~ ev'[y].late
    BY <2>4, <2>6
  <2>9. /\ ~ simStarted' <=> pc' \in {"compile", "init", "startsim"}
        /\ ~ simStarted' => time' = 0
        /\ \A j, k \in DOMAIN initList' : j < k => initList'[j] < initList'[k]
    BY <2>5, <2>6
  <2> QED BY <2>2, <2>7, <2>8, <2>9, Zenon DEF InitFirst
<1> QED BY <1>2, <1>5, <1>6, <1>7 DEF Ordered

LEMMA FlagsOrder ==
    ASSUME Ordered, Finish \/ Stop \/ Step \/ UNCHANGED vars
    PROVE  Ordered'
<1>1. UNCHANGED <<list, initList, finalList, time, pc, simStarted, ev, ran>>
  BY DEF Finish, Stop, Step, control, vars
<1> QED BY <1>1 DEF Ordered, Drained, InitFirst

(* What is drained when the scheduler goes from one place to another.      *)
LEMMA MovesOrder ==
    ASSUME Parts, Ordered, Moves
    PROVE  Ordered'
<1>1. UNCHANGED <<list, initList, finalList, time, ev, ran>>
  BY DEF Moves, EndOfCompile, InitDone, StartLoop, Empty, EnterStop, Resume,
         FinishFromStop, Break, NextSimTime, StartRosync, RosyncDone,
         FinalDone, Exit, LeaveLoop, Goto
<1>2. InitFirst'
  <2>1. CASE EndOfCompile
    BY <2>1 DEF EndOfCompile, Goto, Ordered, InitFirst
  <2>2. CASE InitDone
    <3>1. initList = <<>> /\ ToSet(<<>>) = {} /\ initList' = initList
      BY <2>2 DEF InitDone, ToSet
    <3> QED BY <1>1, <2>2, <3>1 DEF InitDone, Goto, Ordered, InitFirst
  <2>3. CASE StartLoop
    BY <2>3 DEF StartLoop, Goto, Ordered, InitFirst
  <2>4. CASE Empty \/ FinishFromStop \/ Break
    BY <2>4 DEF Empty, FinishFromStop, Break, LeaveLoop, AtTop, Goto, Ordered, InitFirst
  <2>5. CASE EnterStop \/ Resume
    BY <2>5 DEF EnterStop, Resume, Goto, Ordered, InitFirst
  <2>6. CASE NextSimTime \/ StartRosync \/ RosyncDone
    BY <2>6 DEF NextSimTime, StartRosync, RosyncDone, Ready, AtTop, Goto, Ordered, InitFirst
  <2>7. CASE FinalDone \/ Exit
    BY <2>7 DEF FinalDone, Exit, Goto, Ordered, InitFirst
  <2> QED BY <2>1, <2>2, <2>3, <2>4, <2>5, <2>6, <2>7 DEF Moves
<1>3. LateDrained(list, ev, time, Drained')
  <2>0. /\ list \in Seq(Cell) /\ Spaced(list, time) /\ time \in Nat
        /\ WellTimed(list, ev) /\ LateDrained(list, ev, time, Drained)
    BY DEF Parts, Cells, Ordered
  <2>1. CASE NextSimTime
    <3>1. Drained' = Drained
      BY <2>1 DEF NextSimTime, Goto, Drained
    <3> QED BY <2>0, <3>1
  <2>2. CASE StartRosync
    <3>1. /\ list[1].q["active"] = <<>> /\ list[1].q["nbassign"] = <<>>
          /\ list[1].q["rwsync"] = <<>>
      BY <2>2 DEF StartRosync, Source
    <3>2. list[1].q["start"] = <<>> \/ "start" \in Drained
      BY <2>2 DEF StartRosync, Ready, AtTop, Drained
    <3>3. Drained' = {"start", "active", "nbassign", "rwsync"} /\ Drained \subseteq {"start"}
      BY <2>2 DEF StartRosync, Ready, AtTop, Goto, Drained
    <3>4. list # <<>> /\ list[1].delay = 0
      BY <2>2 DEF StartRosync, Ready, AtTop, Parts, Control, CellOpen
    <3>5. Drained \subseteq Drained'
          /\ \A r \in Regions : r \in Drained' \ Drained => list[1].q[r] = <<>>
      BY <3>1, <3>2, <3>3
    <3> QED BY <2>0, <3>4, <3>5, LateDrainedEmptied
  <2>3. CASE RosyncDone
    <3>1. Drained' = Drained \cup {"rosync"} /\ list[1].q["rosync"] = <<>>
      BY <2>3 DEF RosyncDone, Goto, Drained
    <3>2. list # <<>> /\ list[1].delay = 0
      BY <2>3 DEF RosyncDone, Parts, Control, CellOpen
    <3>3. Drained \subseteq Drained'
          /\ \A r \in Regions : r \in Drained' \ Drained => list[1].q[r] = <<>>
      BY <3>1
    <3> QED BY <2>0, <3>2, <3>3, LateDrainedEmptied
  <2>4. CASE Moves /\ ~ (NextSimTime \/ StartRosync \/ RosyncDone)
    <3>1. Drained' = Drained
      BY <2>4 DEF Moves, EndOfCompile, InitDone, StartLoop, Empty, EnterStop,
                  Resume, FinishFromStop, Break, FinalDone, Exit, LeaveLoop,
                  Goto, AtTop, Drained
    <3> QED BY <2>0, <3>1
  <2> QED BY <2>1, <2>2, <2>3, <2>4
<1> QED BY <1>1, <1>2, <1>3 DEF Ordered

LEMMA ReturnOrders ==
    ASSUME Ordered, Return
    PROVE  Ordered'
<1>1. /\ UNCHANGED <<list, initList, finalList, time, ev, simStarted, ran>>
      /\ pc' = IF pc = "run" THEN "top" ELSE pc
  BY DEF Return
<1>2. Drained' = Drained
  BY <1>1 DEF Drained
<1>3. InitFirst'
  BY <1>1 DEF Ordered, InitFirst
<1> QED BY <1>1, <1>2, <1>3 DEF Ordered

LEMMA RunFinalOrders ==
    ASSUME Parts, Ordered, RunFinal
    PROVE  Ordered'
<1>1. /\ UNCHANGED <<list, initList, time, ev, simStarted, pc>>
      /\ finalList # <<>> /\ finalList' = Tail(finalList) /\ Run(Head(finalList))
  BY DEF RunFinal
<1>2. ToSet(finalList) = {Head(finalList)} \cup ToSet(finalList')
  BY <1>1, ToSetHeadTail DEF Parts, Control
<1>3. InitFirst'
  BY <1>1, <1>2 DEF Ordered, InitFirst, Run
<1>4. Drained' = Drained
  BY <1>1 DEF Drained
<1> QED BY <1>1, <1>3, <1>4 DEF Ordered

(* The initialization event that starts is the oldest one.                 *)
LEMMA RunInitOrders ==
    ASSUME Parts, Ordered, RunInit
    PROVE  LET h == Head(initList)
           IN  /\ Ordered'
               /\ Run(h) /\ ToSet(initList) = {h} \cup ToSet(initList')
               /\ \A y \in ToSet(initList') : h < y
               /\ ~ ev[h].late
<1> DEFINE h == Head(initList)
           n == Len(initList)
<1>1. /\ UNCHANGED <<list, finalList, time, ev, simStarted, pc>>
      /\ initList # <<>> /\ initList' = Tail(initList) /\ Run(h) /\ pc = "init"
  BY DEF RunInit
<1>2. initList \in Seq(Nat) /\ InitFirst
  BY DEF Parts, Control, Ordered
<1>3. ToSet(initList) = {h} \cup ToSet(initList')
  BY <1>1, <1>2, ToSetHeadTail
<1>4. /\ n \in Nat /\ n # 0 /\ DOMAIN initList = 1..n /\ h = initList[1]
      /\ initList' \in Seq(Nat) /\ DOMAIN initList' = 1..(n - 1)
      /\ \A i \in 1..(n - 1) : initList'[i] = initList[i + 1]
  BY <1>1, <1>2
<1> HIDE DEF h, n
<1>5. \A j, k \in DOMAIN initList : j < k => initList[j] < initList[k]
  BY <1>2 DEF InitFirst
<1>6. ASSUME NEW y \in ToSet(initList') PROVE h < y
  <2>1. PICK i \in 1..(n - 1) : y = initList[i + 1]
    BY <1>4 DEF ToSet
  <2>2. 1 \in 1..n /\ i + 1 \in 1..n /\ 1 < i + 1
    BY <1>4
  <2> QED BY <1>4, <1>5, <2>1, <2>2
<1>7. ASSUME NEW j \in DOMAIN initList', NEW k \in DOMAIN initList', j < k
      PROVE  initList'[j] < initList'[k]
  <2>1. j + 1 \in 1..n /\ k + 1 \in 1..n /\ j + 1 < k + 1
    BY <1>4, <1>7, SMTT(30)
  <2> QED BY <1>4, <1>5, <1>7, <2>1
<1>8. ~ ev[h].late
  BY <1>1, <1>2, <1>3 DEF InitFirst
<1>9. InitFirst'
  BY <1>1, <1>2, <1>3, <1>7, <1>8 DEF InitFirst, Run
<1>10. Lines(list', ev') /\ Used(list') /\ LateDrained(list', ev', time', Drained')
  <2>1. Drained' = Drained
    BY <1>1 DEF Drained
  <2> QED BY <1>1, <2>1 DEF Ordered
<1> QED BY <1>1, <1>3, <1>6, <1>8, <1>9, <1>10 DEF Ordered, h

(* An event h of the current time step starts, and leaves in the cells     *)
(* only events that may run after it, or that were asked for too late.     *)
Starts(h) ==
    /\ Run(h)
    /\ h \in Waiting(list) /\ ev[h].due = time /\ ~ ev[h].late
    /\ Waiting(list') = Waiting(list) \ {h}
    /\ \A y \in Waiting(list') : ev[y].due = time /\ ~ ev[y].late => Follows(ev, h, y)

LEMMA FirstCellNow ==
    ASSUME NEW l \in Seq(Cell), l # <<>>, l[1].delay = 0, NEW t \in Nat, Spaced(l, t)
    PROVE  l[1].at = t
<1>1. 1 \in 1..Len(l)
  OBVIOUS
<1>2. l[1].at = t + l[1].delay
  BY <1>1 DEF Spaced
<1> QED BY <1>2

(* What must hold of the queues behind the one that is run.                *)
LEMMA RunFromOrders ==
    ASSUME Parts, Ordered, NEW r \in Regions,
           pc \in {"start", "rosync", "delthr"}, cur = 0, RunFrom(r),
           \A s \in Regions : Rank(s) < Rank(r) => s \in Drained, r \notin Drained,
           UNCHANGED <<initList, finalList, time, simStarted, pc, ev>>
    PROVE  Ordered' /\ Starts(Head(list[1].q[r]))
<1> DEFINE z == list[1]
           q == z.q
           h == Head(q[r])
           c == [z EXCEPT !.q[r] = Tail(z.q[r])]
<1>1. list # <<>> /\ z.delay = 0 /\ z \in Cell /\ 1 \in 1..Len(list)
  BY FirstCellEvents DEF Parts, Control, CellOpen
<1>2. q[r] # <<>> /\ Run(h) /\ list' = [list EXCEPT ![1] = c]
  BY <1>1 DEF RunFrom
<1>3. /\ list \in Seq(Cell) /\ Spaced(list, time) /\ WellTimed(list, ev)
      /\ Lines(list, ev) /\ Used(list) /\ time \in Nat
  BY DEF Parts, Cells, Ordered
<1>4. \A s \in Regions : \A y \in ToSet(q[s]) : ev[y].due = time /\ (ev[y].late <=> s \in Drained)
  <2>1. z.at = time
    BY <1>1, FirstCellNow DEF Parts, Cells
  <2> QED BY <1>1, <2>1 DEF Parts, Cells, WellTimed, Ordered, LateDrained
<1>5. q \in Queues /\ InLine(ev, q)
  BY <1>1, <1>3, QueuesOfCell DEF Lines
<1>6. Dequeues(q, r, c.q)
  BY <1>1 DEF Cell, Dequeues
<1> HIDE DEF z
<1>7. c \in Cell /\ c.delay = z.delay
  BY <1>1, <1>2, Dequeued
<1>8. Replaced(list, 1, c, list')
  BY <1>2 DEF Replaced
<1> HIDE DEF c, q
<1>9. BeforeAreLate(ev, q, r) /\ ~ ev[h].late
  <2>1. h \in ToSet(q[r])
    BY <1>2, <1>5, ToSetHeadTail DEF Queues
  <2> QED BY <1>4, <2>1 DEF BeforeAreLate
<1>10. /\ Lines(list', ev) /\ Used(list')
       /\ list' # <<>> /\ list'[1] = c
       /\ \A s \in Regions : ToSet(c.q[s]) \subseteq ToSet(q[s])
       /\ h \in Waiting(list) /\ ev[h].due = time
       /\ Waiting(list') = Waiting(list) \ {h}
       /\ \A y \in Waiting(list') : ev[y].due = time /\ ~ ev[y].late => Follows(ev, h, y)
  <2>1. /\ Queued(q) = Queued(list[1].q)
        /\ list # <<>> /\ c.delay = list[1].delay /\ list[1].delay = 0
    BY <1>1, <1>7 DEF q, z
  <2>2. q[r] # <<>> /\ ~ ev[Head(q[r])].late
    BY <1>2, <1>9
  <2> HIDE DEF h
  <2>3. c \in Cell /\ BeforeAreLate(ev, q, r)
    BY <1>7, <1>9
  <2>4. Takes(list, time, ev, q, r, c)
    BY <1>3, <1>5, <1>6, <2>1, <2>2, <2>3 DEF Takes
  <2>5. IsTaken(list, time, ev, q, c, list', Head(q[r]))
    BY <1>8, <2>4, EventTakenInLine
  <2> QED BY <2>5 DEF IsTaken, h
<1>11. LateDrained(list', ev, time, Drained)
  <2>1. \A s \in Regions : \A y \in ToSet(c.q[s]) : ev[y].due = time /\ (ev[y].late <=> s \in Drained)
    BY <1>4, <1>10
  <2>2. LateDrained(list, ev, time, Drained)
    BY DEF Ordered
  <2> QED BY <1>1, <1>3, <1>7, <1>8, <2>1, <2>2, LateDrainedFirst
<1>12. InitFirst' /\ Drained' = Drained
  BY <1>2, <1>9 DEF Ordered, InitFirst, Run, Drained
<1> QED BY <1>2, <1>9, <1>10, <1>11, <1>12 DEF Ordered, Starts, h, q, z

LEMMA RunStartOrders ==
    ASSUME Parts, Ordered, RunStart
    PROVE  Ordered' /\ Starts(Head(list[1].q["start"]))
<1>1. /\ "start" \in Regions /\ pc = "start" /\ cur = 0 /\ RunFrom("start")
      /\ UNCHANGED <<initList, finalList, time, simStarted, pc, ev>>
  BY DEF RunStart, Regions
<1>2. \A s \in Regions : Rank(s) < Rank("start") => s \in Drained
  BY RankType, RankValues
<1>3. "start" \notin Drained
  BY <1>1 DEF Drained
<1> QED BY <1>1, <1>2, <1>3, RunFromOrders

LEMMA RunRosyncOrders ==
    ASSUME Parts, Ordered, RunRosync
    PROVE  Ordered' /\ Starts(Head(list[1].q["rosync"]))
<1>1. /\ "rosync" \in Regions /\ pc = "rosync" /\ cur = 0 /\ RunFrom("rosync")
      /\ UNCHANGED <<initList, finalList, time, simStarted, pc, ev>>
  BY DEF RunRosync, Regions
<1>2. \A s \in Regions : Rank(s) < Rank("rosync") => s \in Drained
  BY <1>1, RankValues DEF Regions, Drained
<1>3. "rosync" \notin Drained
  BY <1>1 DEF Drained
<1> QED BY <1>1, <1>2, <1>3, RunFromOrders

LEMMA RunDelThrOrders ==
    ASSUME Parts, Ordered, RunDelThr
    PROVE  Ordered' /\ Starts(Head(list[1].q["del_thr"]))
<1>1. /\ "del_thr" \in Regions /\ pc = "delthr" /\ cur = 0 /\ RunFrom("del_thr")
      /\ UNCHANGED <<initList, finalList, time, simStarted, pc, ev>>
  BY DEF RunDelThr, Regions
<1>2. \A s \in Regions : Rank(s) < Rank("del_thr") => s \in Drained
  BY <1>1, RankValues DEF Regions, Drained
<1>3. "del_thr" \notin Drained
  BY <1>1 DEF Drained
<1> QED BY <1>1, <1>2, <1>3, RunFromOrders

(* Promotion, and what is before the active queue.                         *)
LEMMA PromotedInLine ==
    ASSUME NEW evs, NEW c \in Cell, InLine(evs, c.q), Source(c) # "rosync"
    PROVE  /\ Promoted(c).q \in Queues /\ InLine(evs, Promoted(c).q)
           /\ Queued(Promoted(c).q) = Queued(c.q)
           /\ Promoted(c).q["active"] # <<>>
           /\ \A s \in Regions : \A y \in ToSet(Promoted(c).q[s]) :
                 \E u \in Regions : y \in ToSet(c.q[u]) /\ (u = "start" <=> s = "start")
<1> DEFINE q == c.q
           from == Source(c)
           p == [q EXCEPT !["active"] = q[from], ![from] = <<>>]
<1>1. q \in Queues
  BY QueuesOfCell
<1>2. from \in Regions /\ q[from] # <<>>
  BY SourceProperties
<1>3. CASE from = "active"
  BY <1>1, <1>2, <1>3 DEF Promoted
<1>4. CASE from # "active"
  <2>1. /\ from \in {"nbassign", "rwsync"} /\ q["active"] = <<>>
        /\ from = "rwsync" => q["nbassign"] = <<>>
    BY <1>4 DEF Source
  <2>2. Promoted(c).q = p
    BY <1>4 DEF Promoted, Cell
  <2> HIDE DEF from
  <2>3. /\ p["active"] = q[from]
        /\ \A s \in Regions : \A y \in ToSet(p[s]) :
              \E u \in Regions : y \in ToSet(q[u]) /\ (u = "start" <=> s = "start")
    <3>1. \A s \in Regions : p[s] = IF s = from THEN <<>> ELSE IF s = "active" THEN q[from] ELSE q[s]
      BY <1>1, <2>1 DEF Queues, Regions
    <3>2. ToSet(<<>>) = {}
      BY DEF ToSet
    <3>3. from # "active" /\ from # "start" /\ from \in Regions /\ "active" \in Regions
      BY <2>1 DEF Regions
    <3> QED BY <3>1, <3>2, <3>3
  <2> HIDE DEF q
  <2>4. p \in Queues /\ InLine(evs, p) /\ Queued(p) = Queued(q)
    <3>1. InLine(evs, q)
      BY DEF q
    <3> QED BY <1>1, <2>1, <3>1, InLinePromoted
  <2> HIDE DEF p
  <2> QED BY <1>2, <2>2, <2>3, <2>4 DEF q
<1> QED BY <1>3, <1>4

LEMMA SelectOrders ==
    ASSUME Parts, Ordered, Select
    PROVE  Ordered' /\ Starts(Head(Promoted(list[1]).q["active"]))
<1> DEFINE z == list[1]
           p == Promoted(z)
           q == p.q
           h == Head(q["active"])
           c == [p EXCEPT !.q["active"] = Tail(p.q["active"])]
<1>1. list # <<>> /\ z.delay = 0 /\ cur = 0
  BY DEF Select, Ready, AtTop, Parts, Control, CellOpen, HandlerPlace
<1>2. z \in Cell /\ 1 \in 1..Len(list) /\ Source(z) # "rosync"
  BY <1>1, FirstCellEvents DEF Parts, Select
<1>3. /\ Run(h) /\ list' = [list EXCEPT ![1] = c]
      /\ pc' = "run" /\ pc \in {"start", "top"}
      /\ UNCHANGED <<initList, finalList, time, simStarted, ev>>
  BY DEF Select, Ready, AtTop
<1>4. /\ list \in Seq(Cell) /\ Spaced(list, time) /\ WellTimed(list, ev)
      /\ Lines(list, ev) /\ Used(list) /\ time \in Nat
  BY DEF Parts, Cells, Ordered
<1>5. \A s \in Regions : \A y \in ToSet(z.q[s]) :
        ev[y].due = time /\ (ev[y].late <=> s = "start")
  <2>1. z.at = time
    BY <1>1, <1>4, FirstCellNow
  <2>2. \A s \in Regions : \A y \in ToSet(z.q[s]) : ev[y].due = time /\ (ev[y].late <=> s \in Drained)
    BY <1>2, <1>4, <2>1 DEF WellTimed, Ordered, LateDrained
  <2>3. CASE pc = "top"
    <3>1. Drained = {"start"}
      BY <2>3 DEF Drained
    <3> QED BY <2>2, <3>1
  <2>4. CASE pc = "start"
    <3>1. Drained = {} /\ z.q["start"] = <<>> /\ ToSet(<<>>) = {}
      BY <2>4 DEF Select, Ready, AtTop, Drained, ToSet
    <3> QED BY <2>2, <3>1
  <2> QED BY <1>3, <2>3, <2>4
<1>6. p \in Cell /\ p.delay = z.delay
  BY <1>2, PromotedProperties
<1>7. /\ q \in Queues /\ InLine(ev, q) /\ Queued(q) = Queued(z.q)
      /\ q["active"] # <<>>
      /\ \A s \in Regions : \A y \in ToSet(q[s]) :
            ev[y].due = time /\ (ev[y].late <=> s = "start")
  <2>1. /\ q \in Queues /\ InLine(ev, q) /\ Queued(q) = Queued(z.q)
        /\ q["active"] # <<>>
        /\ \A s \in Regions : \A y \in ToSet(q[s]) :
              \E u \in Regions : y \in ToSet(z.q[u]) /\ (u = "start" <=> s = "start")
    BY <1>2, <1>4, PromotedInLine DEF Lines
  <2> QED BY <1>5, <2>1
<1> HIDE DEF p, z
<1>8. "active" \in Regions /\ "start" \in Regions
  BY DEF Regions
<1>9. Dequeues(q, "active", c.q)
  BY <1>6, <1>8 DEF Cell, Dequeues
<1>10. c \in Cell /\ c.delay = p.delay
  BY <1>6, <1>7, <1>8, Dequeued
<1>11. Replaced(list, 1, c, list')
  BY <1>3 DEF Replaced
<1>12. BeforeAreLate(ev, q, "active") /\ ~ ev[h].late
  <2>1. h \in ToSet(q["active"])
    BY <1>7, <1>8, ToSetHeadTail DEF Queues
  <2>2. \A s \in Regions : Rank(s) < Rank("active") => s = "start"
    BY RankValues DEF Regions
  <2> QED BY <1>7, <1>8, <2>1, <2>2 DEF BeforeAreLate
<1> HIDE DEF c, q
<1>13. /\ Lines(list', ev) /\ Used(list')
       /\ list' # <<>> /\ list'[1] = c
       /\ \A s \in Regions : ToSet(c.q[s]) \subseteq ToSet(q[s])
       /\ h \in Waiting(list) /\ ev[h].due = time
       /\ Waiting(list') = Waiting(list) \ {h}
       /\ \A y \in Waiting(list') : ev[y].due = time /\ ~ ev[y].late => Follows(ev, h, y)
  <2>1. Queued(q) = Queued(list[1].q) /\ c.delay = list[1].delay /\ list[1].delay = 0
    BY <1>1, <1>6, <1>7, <1>10 DEF z
  <2>2. /\ q \in Queues /\ InLine(ev, q) /\ q["active"] # <<>>
        /\ ~ ev[Head(q["active"])].late
    BY <1>7, <1>12
  <2> HIDE DEF h
  <2>3. Takes(list, time, ev, q, "active", c)
    BY <1>1, <1>4, <1>8, <1>9, <1>10, <1>12, <2>1, <2>2 DEF Takes
  <2>4. IsTaken(list, time, ev, q, c, list', Head(q["active"]))
    BY <1>11, <2>3, EventTakenInLine
  <2> QED BY <2>4 DEF IsTaken, h
<1>14. LateDrained(list', ev, time, Drained')
  <2>1. Drained' = {"start"}
    BY <1>3 DEF Drained
  <2>2. \A s \in Regions : \A y \in ToSet(c.q[s]) : ev[y].due = time /\ (ev[y].late <=> s \in {"start"})
    BY <1>7, <1>13
  <2>3. LateDrained(list, ev, time, Drained)
    BY DEF Ordered
  <2> QED BY <1>1, <1>4, <1>10, <1>11, <2>1, <2>2, <2>3, LateDrainedFirst
<1>15. InitFirst'
  BY <1>3, <1>12 DEF Ordered, InitFirst, Run
<1> QED BY <1>3, <1>12, <1>13, <1>14, <1>15 DEF Ordered, Starts, h, q, p, z

(* Before time advances nothing that waits was asked for too late.         *)
LEMMA NothingLateYet ==
    ASSUME Parts, Ordered, list = <<>> \/ list[1].delay > 0
    PROVE  \A x \in Waiting(list) : ~ ev[x].late /\ ev[x].due > time /\ ev[x].due \in Nat
<1>1. /\ list \in Seq(Cell) /\ time \in Nat /\ Spaced(list, time)
      /\ WellTimed(list, ev) /\ LateDrained(list, ev, time, Drained)
  BY DEF Parts, Cells, Ordered
<1>2. CASE list = <<>>
  <2>1. 1..Len(list) = {}
    BY <1>2
  <2> QED BY <2>1 DEF Waiting
<1>3. CASE list # <<>> /\ list[1].delay > 0
  <2>1. /\ Waiting(list) = Queued(list[1].q) \cup Behind(list)
        /\ \A x \in Queued(list[1].q) : ev[x].due = list[1].at
        /\ list[1].at \in Nat /\ list[1].delay \in Nat /\ list[1].at = time + list[1].delay
    BY <1>1, <1>3, BehindLater
  <2>2. list[1].at > time /\ 1 \in 1..Len(list)
    BY <1>1, <1>3, <2>1
  <2>3. \A x \in Queued(list[1].q) : ~ ev[x].late /\ ev[x].due > time /\ ev[x].due \in Nat
    BY <1>1, <2>1, <2>2 DEF Queued, LateDrained
  <2> QED BY <1>1, <1>3, <2>1, <2>3, BehindInTime
<1> QED BY <1>2, <1>3

LEMMA AdvanceOrders ==
    ASSUME Parts, Ordered, Advance
    PROVE  Ordered' /\ Waiting(list') = Waiting(list)
<1>1. /\ list # <<>> /\ pc = "top" /\ pc' = "nextsim" /\ UNCHANGED <<simStarted, finalList, ran>>
      /\ list' = [list EXCEPT ![1].delay = 0] /\ time' = time + list[1].delay
      /\ list[1].delay > 0
      /\ UNCHANGED <<initList, ev>>
  BY DEF Advance, AtTop, Goto
<1>2. list \in Seq(Cell) /\ Lines(list, ev) /\ Used(list)
  BY DEF Parts, Cells, Ordered
<1>3. Lines(list', ev) /\ Used(list') /\ Waiting(list') = Waiting(list)
  <2>1. LET m == [list EXCEPT ![1].delay = 0]
        IN  Lines(m, ev) /\ Used(m) /\ Waiting(m) = Waiting(list)
    BY <1>1, <1>2, AdvanceInLine
  <2> QED BY <1>1, <2>1
<1>4. LateDrained(list', ev, time', Drained')
  <2>1. Drained' = {}
    BY <1>1 DEF Drained
  <2>2. \A x \in Waiting(list) : ~ ev[x].late
    BY <1>1, NothingLateYet
  <2>3. \A i \in 1..Len(list') : \A r \in Regions : \A x \in ToSet(list'[i].q[r]) : x \in Waiting(list)
    BY <1>3 DEF Waiting, Queued
  <2> QED BY <2>1, <2>2, <2>3 DEF LateDrained
<1>5. InitFirst'
  BY <1>1 DEF Ordered, InitFirst
<1> QED BY <1>1, <1>3, <1>4, <1>5 DEF Ordered

(* The events that were not asked for too late.                            *)
InTime(evs, W) == {x \in W : ~ evs[x].late}

(* The cell that is deleted holds only what was asked for too late.        *)
LEMMA DropCellOrders ==
    ASSUME Parts, Ordered, DropCell
    PROVE  Ordered' /\ InTime(ev, Waiting(list')) = InTime(ev, Waiting(list))
<1>1. /\ list # <<>> /\ list[1].delay = 0 /\ list[1].q["del_thr"] = <<>>
      /\ list' = Tail(list) /\ pc = "delthr" /\ pc' = "top"
      /\ UNCHANGED <<initList, finalList, time, ev, simStarted, ran>>
  BY DEF DropCell, Goto, Parts, Control, CellOpen
<1>2. /\ list \in Seq(Cell) /\ Lines(list, ev) /\ Used(list) /\ Spaced(list, time)
      /\ WellTimed(list, ev) /\ LateDrained(list, ev, time, Drained) /\ time \in Nat
  BY DEF Parts, Cells, Ordered
<1>3. \A x \in Queued(list[1].q) : ev[x].late
  <2>1. Regions \subseteq Drained \cup {"del_thr"}
    BY <1>1 DEF Drained, Regions
  <2>2. ToSet(<<>>) = {} /\ 1 \in 1..Len(list) /\ list[1].at = time
    BY <1>1, <1>2, FirstCellNow DEF ToSet
  <2> QED BY <1>1, <1>2, <2>1, <2>2 DEF Queued, LateDrained, WellTimed
<1>4. Lines(list', ev) /\ Used(list') /\ Waiting(list') = Behind(list)
  BY <1>1, <1>2, DropInLine
<1>5. InTime(ev, Waiting(list')) = InTime(ev, Waiting(list))
  <2>1. Waiting(list) = Queued(list[1].q) \cup Behind(list)
    BY <1>1, <1>2, BehindLater
  <2> QED BY <1>3, <1>4, <2>1 DEF InTime
<1>6. LateDrained(list', ev, time, Drained')
  <2>1. \A x \in Waiting(list') : ~ ev[x].late /\ ev[x].due > time /\ ev[x].due \in Nat
    BY <1>1, <1>2, <1>4, BehindInTime
  <2>2. \A i \in 1..Len(list') : \A r \in Regions : \A x \in ToSet(list'[i].q[r]) : x \in Waiting(list')
    BY DEF Waiting, Queued
  <2> QED BY <1>2, <2>1, <2>2 DEF LateDrained
<1>7. InitFirst'
  BY <1>1 DEF Ordered, InitFirst
<1> QED BY <1>1, <1>4, <1>5, <1>6, <1>7 DEF Ordered

LEMMA OrderedAtStart == Init => Ordered
<1> SUFFICES ASSUME Init PROVE Ordered
  OBVIOUS
<1>1. list = <<>> /\ 1..Len(list) = {}
  BY DEF Init
<1>2. Lines(list, ev) /\ Used(list) /\ LateDrained(list, ev, time, Drained)
  BY <1>1 DEF Lines, Used, LateDrained
<1>3. ToSet(initList) = {} /\ DOMAIN initList = {} /\ ToSet(finalList) = {} /\ ran = {}
  BY DEF Init, ToSet
<1>4. InitFirst
  BY <1>3 DEF Init, InitFirst
<1> QED BY <1>2, <1>4 DEF Ordered

LEMMA StepsOrder ==
    ASSUME Parts, Ordered, [Next]_vars
    PROVE  Ordered'
<1>1. ASSUME NEW d \in Delays, NEW r \in Regions, Schedule(d, r) PROVE Ordered'
  BY <1>1, ScheduleOrders
<1>2. CASE Push
  BY <1>2, PushOrders
<1>3. CASE ScheduleInit
  BY <1>3, ScheduleInitOrders
<1>4. CASE ScheduleFinal
  BY <1>4, ScheduleFinalOrders
<1>5. CASE Finish \/ Stop \/ Step \/ UNCHANGED vars
  BY <1>5, FlagsOrder
<1>6. CASE Moves
  BY <1>6, MovesOrder
<1>7. CASE Return
  BY <1>7, ReturnOrders
<1>8. CASE RunInit
  BY <1>8, RunInitOrders
<1>9. CASE RunFinal
  BY <1>9, RunFinalOrders
<1>10. CASE RunStart
  BY <1>10, RunStartOrders
<1>11. CASE Select
  BY <1>11, SelectOrders
<1>12. CASE RunRosync
  BY <1>12, RunRosyncOrders
<1>13. CASE RunDelThr
  BY <1>13, RunDelThrOrders
<1>14. CASE Advance
  BY <1>14, AdvanceOrders
<1>15. CASE DropCell
  BY <1>15, DropCellOrders
<1> QED BY <1>1, <1>2, <1>3, <1>4, <1>5, <1>6, <1>7, <1>8, <1>9, <1>10, <1>11,
           <1>12, <1>13, <1>14, <1>15
        DEF Next, Client, Simulate, Moves, Done

(* Parts of ScheduleProofs is Timing.                                      *)
LEMMA PartsHold == Spec => []Parts
<1>1. Timing => Parts
  BY InvariantParts DEF Parts
<1> QED BY <1>1, TimingHolds, PTL

LEMMA OrderHolds == Spec => []Ordered
<1>1. Init => Ordered
  BY OrderedAtStart
<1>2. Parts /\ Ordered /\ [Next]_vars => Ordered'
  BY StepsOrder
<1>3. Spec => []Parts
  BY PartsHold
<1> QED BY <1>1, <1>2, <1>3, PTL DEF Spec

-----------------------------------------------------------------------------
(***************************************************************************)
(* The theorems.                                                           *)
(***************************************************************************)

(* The inductive invariant of the scheduler holds for any delays and any   *)
(* number of requests, those made too late included: the time cells, the   *)
(* order in their queues, and that a queue which was drained for good      *)
(* holds only what was asked for too late (schedule.cc:667-853,            *)
(* 1019-1190).                                                             *)
THEOREM Invariance == Spec => []IInv
<1>1. Parts /\ Ordered => IInv
  BY InvariantParts, SortedOrdered DEF Parts, IInv
<1> QED BY <1>1, PartsHold, OrderHolds, PTL

(* When the read-only call-backs run everything else of the time step that *)
(* was asked for before has run, and nothing that they, or the handlers    *)
(* after them, ask for in the present time step ever does, whatever they   *)
(* ask for (schedule.cc:1009-1051).                                        *)
THEOREM ReadOnlySyncIsLast == Spec => []ReadOnlyLast
<1>1. Parts /\ Ordered => ReadOnlyLast
  <2> SUFFICES ASSUME Parts, Ordered PROVE ReadOnlyLast
    OBVIOUS
  <2>1. \A x \in ran : ~ ev[x].late
    BY DEF Ordered, InitFirst
  <2>2. ASSUME pc \in {"rosync", "delthr"},
               NEW e \in Pending, ev[e].due = time, ~ ev[e].late
        PROVE  ev[e].rgn \in {"rosync", "del_thr"}
    <3>1. PICK i \in 1..Len(list) : \E r \in Regions : e \in ToSet(list[i].q[r])
      BY PendingWaits DEF Waiting, Queued, Parts, Cells
    <3>2. PICK r \in Regions : e \in ToSet(list[i].q[r])
      BY <3>1
    <3>3. r \notin Drained
      BY <2>2, <3>2 DEF Ordered, LateDrained
    <3>4. r \in {"rosync", "del_thr"}
      BY <2>2, <3>3 DEF Drained, Regions
    <3>5. ev[e].rgn \in Regions /\ Rank(r) <= Rank(ev[e].rgn)
      BY <3>2 DEF Ordered, Lines, InLine
    <3> QED BY <3>4, <3>5, RankValues DEF Regions
  <2> QED BY <2>1, <2>2 DEF ReadOnlyLast
<1> QED BY <1>1, PartsHold, OrderHolds, PTL

(* An event that was not asked for too late has run or is in one of the    *)
(* lists.                                                                  *)
Somewhere == ran \cup Waiting(list) \cup ToSet(initList) \cup ToSet(finalList)

Kept == InTime(ev, Ids) \subseteq Somewhere

LEMMA KeptHolds == Spec => []Kept
<1>1. Init => Kept
  <2> SUFFICES ASSUME Init PROVE Kept
    OBVIOUS
  <2>1. Ids = {}
    BY DEF Init, Ids
  <2> QED BY <2>1 DEF Kept, InTime
<1>2. Parts /\ Ordered /\ Kept /\ [Next]_vars => Kept'
  <2> SUFFICES ASSUME Parts, Ordered, Kept, [Next]_vars PROVE Kept'
    OBVIOUS
  <2> DEFINE e == Len(ev) + 1
  <2>0. Len(ev) \in Nat /\ initList \in Seq(Nat) /\ finalList \in Seq(Nat) /\ e \in Nat
    BY DEF Parts, Cells, Control
  <2>1. ASSUME NEW x, ev' = Append(ev, x)
        PROVE  InTime(ev', Ids') \subseteq InTime(ev, Ids) \cup {e}
    <3>1. /\ Len(ev') = Len(ev) + 1
          /\ \A y \in 1..Len(ev) : ev'[y] = ev[y]
      BY <2>1 DEF Parts, Cells
    <3> QED BY <2>0, <3>1 DEF Ids, InTime
  <2> HIDE DEF e
  <2>2. ASSUME NEW d \in Delays, NEW r \in Regions, Schedule(d, r) PROVE Kept'
    <3>1. Waiting(list') = Waiting(list) \cup {e}
      BY <2>2, ScheduleOrders DEF e
    <3>2. /\ InTime(ev', Ids') \subseteq InTime(ev, Ids) \cup {e}
          /\ UNCHANGED <<ran, initList, finalList>>
      BY <2>1, <2>2 DEF Schedule, New, control
    <3> QED BY <3>1, <3>2 DEF Kept, Somewhere
  <2>3. CASE Push
    <3>1. Waiting(list') = Waiting(list) \cup {e}
      BY <2>3, PushOrders DEF e
    <3>2. /\ InTime(ev', Ids') \subseteq InTime(ev, Ids) \cup {e}
          /\ UNCHANGED <<ran, initList, finalList>>
      BY <2>1, <2>3 DEF Push, New, control
    <3> QED BY <3>1, <3>2 DEF Kept, Somewhere
  <2>4. CASE ScheduleInit
    <3>1. ToSet(Append(initList, e)) = ToSet(initList) \cup {e}
      BY <2>0, ToSetAppend, SMTT(40)
    <3>2. /\ InTime(ev', Ids') \subseteq InTime(ev, Ids) \cup {e}
          /\ UNCHANGED <<ran, list, finalList>>
          /\ initList' = Append(initList, e)
      BY <2>1, <2>4 DEF ScheduleInit, New, control, e
    <3> QED BY <3>1, <3>2 DEF Kept, Somewhere
  <2>5. CASE ScheduleFinal
    <3>1. ToSet(Append(finalList, e)) = ToSet(finalList) \cup {e}
      BY <2>0, ToSetAppend, SMTT(40)
    <3>2. /\ InTime(ev', Ids') \subseteq InTime(ev, Ids) \cup {e}
          /\ UNCHANGED <<ran, list, initList>>
          /\ finalList' = Append(finalList, e)
      BY <2>1, <2>5 DEF ScheduleFinal, New, control, e
    <3> QED BY <3>1, <3>2 DEF Kept, Somewhere
  <2>6. CASE Finish \/ Stop \/ Step \/ UNCHANGED vars
    <3>1. UNCHANGED <<ran, list, initList, finalList, ev>>
      BY <2>6 DEF Finish, Stop, Step, control, vars
    <3> QED BY <3>1 DEF Ids, Kept, Somewhere
  <2>7. CASE Moves \/ Return
    <3>1. UNCHANGED <<ran, list, initList, finalList, ev>>
      BY <2>7 DEF Moves, EndOfCompile, InitDone, StartLoop, Empty, EnterStop, Resume,
             FinishFromStop, Break, NextSimTime, StartRosync, RosyncDone,
             FinalDone, Exit, LeaveLoop, Goto, Return
    <3> QED BY <3>1 DEF Ids, Kept, Somewhere
  <2>8. CASE RunInit
    <3> DEFINE h == Head(initList)
    <3>1. Run(h) /\ ToSet(initList) = {h} \cup ToSet(initList')
      BY <2>8, RunInitOrders
    <3>2. UNCHANGED <<list, finalList, ev>>
      BY <2>8 DEF RunInit
    <3> HIDE DEF h
    <3> QED BY <3>1, <3>2 DEF Ids, Run, Kept, Somewhere
  <2>9. CASE RunFinal
    <3> DEFINE h == Head(finalList)
    <3>1. /\ Run(h) /\ finalList # <<>> /\ finalList' = Tail(finalList)
          /\ UNCHANGED <<list, initList, ev>>
      BY <2>9 DEF RunFinal
    <3>2. ToSet(finalList) = {h} \cup ToSet(finalList')
      BY <2>0, <3>1, ToSetHeadTail
    <3> HIDE DEF h
    <3> QED BY <3>1, <3>2 DEF Ids, Run, Kept, Somewhere
  <2>10. CASE RunStart \/ Select \/ RunRosync \/ RunDelThr
    <3>1. PICK h : Starts(h)
      BY <2>10, RunStartOrders, SelectOrders, RunRosyncOrders, RunDelThrOrders
    <3>2. UNCHANGED <<initList, finalList, ev>>
      BY <2>10 DEF RunStart, Select, RunRosync, RunDelThr
    <3> QED BY <3>1, <3>2 DEF Starts, Run, Ids, Kept, Somewhere
  <2>11. CASE Advance
    <3>1. Waiting(list') = Waiting(list) /\ UNCHANGED <<ran, initList, finalList, ev>>
      BY <2>11, AdvanceOrders DEF Advance, Goto
    <3> QED BY <3>1 DEF Ids, Kept, Somewhere
  <2>12. CASE DropCell
    <3>1. /\ InTime(ev, Waiting(list')) = InTime(ev, Waiting(list))
          /\ UNCHANGED <<ran, initList, finalList, ev>>
      BY <2>12, DropCellOrders DEF DropCell, Goto
    <3> QED BY <3>1 DEF Ids, Kept, Somewhere, InTime
  <2> QED BY <2>2, <2>3, <2>4, <2>5, <2>6, <2>7, <2>8, <2>9, <2>10, <2>11, <2>12
          DEF Next, Client, Simulate, Moves, Done
<1> QED BY <1>1, <1>2, PartsHold, OrderHolds, PTL DEF Spec

(* No event that was asked for in time is lost: it has run or is in a list *)
(* the scheduler still looks at.  In particular what is deleted with a     *)
(* time cell was asked for too late (schedule.cc:552-564, 1019-1051,       *)
(* 1071-1081, 1113-1163).                                                  *)
THEOREM NothingLost == Spec => []NoEventLost
<1>1. Parts /\ Ordered /\ Kept => NoEventLost
  <2> SUFFICES ASSUME Parts, Ordered, Kept, NEW e \in Ids, ~ ev[e].late
               PROVE  \/ e \in ran \cup Pending \cup ToSet(finalList)
                      \/ e \in ToSet(initList) /\ pc \in {"compile", "init"}
    BY DEF NoEventLost
  <2>1. e \in Somewhere
    BY DEF Kept, InTime
  <2>2. e \in ToSet(initList) => pc \in {"compile", "init"}
    BY DEF Ordered, InitFirst
  <2>3. Pending = Waiting(list)
    BY PendingWaits DEF Parts, Cells
  <2> QED BY <2>1, <2>2, <2>3 DEF Somewhere
<1> QED BY <1>1, PartsHold, OrderHolds, KeptHolds, PTL

(* $finish ends the simulation with the time step in which it was called:  *)
(* time stands still, and everything that is due, and was not asked for    *)
(* too late, has run when the loop is left, other than from the stop       *)
(* prompt (schedule.cc:1093-1163).                                         *)
THEOREM FinishCompletes == Spec => FinishEndsStep
<1> DEFINE AllRan == \A e \in Ids : ev[e].due <= time /\ ev[e].rgn # "final" /\ ~ ev[e].late
                        => e \in ran
           Good == /\ ~ runnable => time' = time
                   /\ pc = "top" /\ pc' = "final" => AllRan
<1>1. Parts /\ Ordered /\ Kept /\ [Next]_vars => [Good]_vars
  <2> SUFFICES ASSUME Parts, Ordered, Kept, Next, ~ UNCHANGED vars PROVE Good
    OBVIOUS
  <2>1. CASE Client
    <3>1. time' = time /\ pc' = pc
      BY <2>1 DEF Client, Schedule, Push, ScheduleInit, ScheduleFinal, Finish,
                  Stop, Step, control
    <3> QED BY <3>1
  <2>2. ASSUME pc = "top", list = <<>> \/ list[1].delay > 0 PROVE AllRan
    <3> SUFFICES ASSUME NEW e \in Ids, ev[e].due <= time, ev[e].rgn # "final", ~ ev[e].late
                 PROVE  e \in ran
      OBVIOUS
    <3>1. e \in Somewhere
      BY DEF Kept, InTime
    <3>2. e \notin Waiting(list)
      <4>1. time \in Nat
        BY DEF Parts, Cells
      <4> QED BY <2>2, <4>1, NothingLateYet
    <3>3. e \notin ToSet(initList) /\ e \notin ToSet(finalList)
      BY <2>2 DEF Ordered, InitFirst
    <3> QED BY <3>1, <3>2, <3>3 DEF Somewhere
  <2> HIDE DEF AllRan
  <2>3. CASE Empty \/ Break
    <3>1. /\ pc = "top" /\ time' = time
          /\ list = <<>> \/ list[1].delay > 0
      BY <2>3 DEF Empty, Break, AtTop, LeaveLoop
    <3> QED BY <2>2, <3>1
  <2>4. CASE Moves /\ ~ (Empty \/ Break)
    <3>1. time' = time /\ ~ (pc = "top" /\ pc' = "final")
      BY <2>4 DEF Moves, EndOfCompile, InitDone, StartLoop, EnterStop,
                  Resume, FinishFromStop, NextSimTime, StartRosync,
                  RosyncDone, FinalDone, Exit, LeaveLoop, Goto
    <3> QED BY <3>1
  <2>5. CASE Return \/ RunInit \/ RunStart \/ RunRosync \/ RunDelThr
             \/ RunFinal \/ Select \/ DropCell
    <3>1. time' = time /\ pc' \in {pc, "run", "top"}
      BY <2>5 DEF Return, RunInit, RunStart, RunRosync, RunDelThr, RunFinal,
                  Select, DropCell, Goto
    <3> QED BY <3>1
  <2>6. CASE Advance
    BY <2>6 DEF Advance, Goto
  <2> QED BY <2>1, <2>3, <2>4, <2>5, <2>6 DEF Next, Done, Simulate, Moves, vars
<1> QED BY <1>1, PartsHold, OrderHolds, KeptHolds, PTL DEF Spec, FinishEndsStep

-----------------------------------------------------------------------------
(***************************************************************************)
(* The list of time cells implements the agenda.                           *)
(***************************************************************************)

(* The agenda's view of events.                                            *)
Record(evs, e) ==
    [id |-> e, due |-> evs[e].due, rank |-> Rank(evs[e].rgn), pushed |-> evs[e].pushed]

Records(evs, W) == {Record(evs, e) : e \in W}

(* The events the agenda knows of, and that are left to do.                *)
Due == InTime(ev, Waiting(list) \cup ToSet(initList))

LEMMA TodoRecords ==
    /\ list \in Seq(Cell) => AgendaTodo = Records(ev, Due)
    /\ list' \in Seq(Cell) => AgendaTodo' = Records(ev', Due')
BY PendingWaits DEF AgendaTodo, AgendaEvent, Records, Record, Due, InTime

LEMMA RunningRecord ==
    /\ AgendaRunning = IF cur = 0 \/ pc = "final" THEN {} ELSE {Record(ev, cur)}
    /\ AgendaRunning' = IF cur' = 0 \/ pc' = "final" THEN {} ELSE {Record(ev', cur')}
BY DEF AgendaRunning, AgendaEvent, Record

LEMMA RecordFields ==
    ASSUME NEW evs, NEW e
    PROVE  /\ Record(evs, e).id = e /\ Record(evs, e).due = evs[e].due
           /\ Record(evs, e).rank = Rank(evs[e].rgn)
           /\ Record(evs, e).pushed = evs[e].pushed
BY DEF Record

LEMMA DueKnown ==
    ASSUME Parts
    PROVE  /\ Due \subseteq 1..Len(ev) /\ Len(ev) \in Nat
           /\ Waiting(list) \cup ToSet(initList) \subseteq 1..Len(ev)
<1>1. Waiting(list) \subseteq 1..Len(ev)
  <2>1. \A i \in 1..Len(list) : \A x \in Queued(list[i].q) : x \in 1..Len(ev)
    BY DEF Parts, Cells, WellTimed, Queued
  <2> QED BY <2>1 DEF Waiting
<1> QED BY <1>1 DEF Parts, Cells, Control, ListsKnown, Ids, Due, InTime

(* A request in time is an Add of the agenda.                              *)
LEMMA RequestAdds ==
    ASSUME Parts, NEW x \in EventRecord, x.due >= time, ev' = Append(ev, x),
           list' \in Seq(Cell), Due' = Due \cup {Len(ev) + 1},
           UNCHANGED <<time, cur, pc>>
    PROVE  A!Add
<1> DEFINE e == Len(ev) + 1
           n == Record(ev', e)
<1>1. /\ Due \subseteq 1..Len(ev) /\ Len(ev) \in Nat /\ e \in Nat
      /\ ev \in Seq(EventRecord) /\ list \in Seq(Cell)
  BY DueKnown DEF Parts, Cells
<1>2. /\ \A y \in 1..Len(ev) : ev'[y] = ev[y] /\ y < e
      /\ ev'[e] = x
  BY <1>1, AppendProperties
<1>3. \A y \in 1..Len(ev) : Record(ev', y) = Record(ev, y)
  BY <1>2 DEF Record
<1>4. n \in A!Event /\ n.due >= time /\ n.id = e
  <2>1. x.due \in Nat /\ Rank(x.rgn) \in Nat /\ x.pushed \in BOOLEAN
    <3>1. x.rgn \in Regions \cup {"init", "final"} /\ x.due \in Nat /\ x.pushed \in BOOLEAN
      BY DEF EventRecord
    <3>2. Rank(x.rgn) \in 0..7
      BY <3>1, RankType
    <3> QED BY <3>1, <3>2
  <2> QED BY <1>1, <1>2, <2>1 DEF A!Event, Record
<1> HIDE DEF n, e
<1>5. AgendaTodo' = AgendaTodo \cup {n}
  <2>1. AgendaTodo = Records(ev, Due) /\ AgendaTodo' = Records(ev', Due \cup {e})
    BY <1>1, TodoRecords DEF e
  <2>2. Records(ev', Due \cup {e}) = Records(ev', Due) \cup {n}
    BY DEF Records, n
  <2>3. Records(ev', Due) = Records(ev, Due)
    BY <1>1, <1>3 DEF Records
  <2> QED BY <2>1, <2>2, <2>3
<1>6. \A y \in AgendaTodo : y.id < n.id
  <2>1. AgendaTodo = Records(ev, Due)
    BY <1>1, TodoRecords
  <2> SUFFICES ASSUME NEW y \in Records(ev, Due) PROVE y.id < n.id
    BY <2>1
  <2>2. PICK z \in Due : y = Record(ev, z)
    BY DEF Records
  <2>3. y.id = z
    BY <2>2, RecordFields
  <2> QED BY <1>1, <1>2, <1>4, <2>3
<1>7. AgendaRunning' = AgendaRunning
  <2>1. cur # 0 => cur \in 1..Len(ev)
    BY <1>1 DEF Parts, Control
  <2> QED BY <1>3, <2>1, RunningRecord
<1> QED BY <1>4, <1>5, <1>6, <1>7 DEF A!Add

(* Any other event of the time can follow: Start of the agenda.            *)
LEMMA EventStartsAgenda ==
    ASSUME Parts, list' \in Seq(Cell), cur = 0, pc' # "final",
           UNCHANGED <<time, ev>>,
           NEW h \in Due, Run(h), ev[h].due = time, Due' = Due \ {h},
           \A y \in Due' : ev[y].due = time => Follows(ev, h, y)
    PROVE  A!Start
<1> DEFINE n == Record(ev, h)
<1>1. /\ Due \subseteq 1..Len(ev) /\ Len(ev) \in Nat /\ h \in Nat /\ h # 0
      /\ list \in Seq(Cell)
  BY DueKnown DEF Parts, Cells
<1>2. AgendaRunning = {} /\ AgendaRunning' = {n}
  BY <1>1, RunningRecord DEF Run
<1>3. AgendaTodo = Records(ev, Due) /\ AgendaTodo' = Records(ev, Due \ {h})
  BY <1>1, TodoRecords
<1>4. n \in AgendaTodo /\ n.due = time /\ n.id = h
  BY <1>3, RecordFields DEF Records
<1>5. AgendaTodo' = AgendaTodo \ {n}
  <2>1. \A y \in Due : Record(ev, y) = n => y = h
    BY RecordFields
  <2> QED BY <1>3, <2>1 DEF Records
<1>6. ASSUME NEW y \in AgendaTodo, A!Before(y, n) PROVE FALSE
  <2>1. PICK z \in Due : y = Record(ev, z)
    BY <1>3 DEF Records
  <2>2. /\ z < h /\ ev[z].due = ev[h].due
        /\ Rank(ev[z].rgn) <= Rank(ev[h].rgn) /\ ~ ev[h].pushed
    BY <1>6, <2>1, RecordFields DEF A!Before
  <2>3. z # h
    BY <1>1, <2>2
  <2>4. Follows(ev, h, z)
    BY <2>2, <2>3
  <2> QED BY <2>2, <2>4 DEF Follows
<1> QED BY <1>2, <1>4, <1>5, <1>6 DEF A!Start

(* The steps that the agenda does not see.                                 *)
LEMMA AgendaUnchanged ==
    ASSUME Parts, list' \in Seq(Cell), Due' = Due,
           \A y \in 1..Len(ev) : ev'[y] = ev[y],
           AgendaRunning' = AgendaRunning, UNCHANGED time
    PROVE  UNCHANGED <<time, AgendaTodo, AgendaRunning>>
<1>1. Due \subseteq 1..Len(ev) /\ list \in Seq(Cell)
  BY DueKnown DEF Parts, Cells
<1>2. \A y \in Due : Record(ev', y) = Record(ev, y)
  BY <1>1 DEF Record
<1>3. AgendaTodo = Records(ev, Due) /\ AgendaTodo' = Records(ev', Due)
  BY <1>1, TodoRecords
<1>4. Records(ev', Due) = Records(ev, Due)
  BY <1>2 DEF Records
<1> QED BY <1>3, <1>4

(* The agenda does not see a request that is made too late.                *)
LEMMA RequestSeen ==
    ASSUME Parts, NEW x \in EventRecord, x.due >= time, ev' = Append(ev, x),
           list' \in Seq(Cell), UNCHANGED <<time, cur, pc>>,
           Waiting(list') \cup ToSet(initList')
                = Waiting(list) \cup ToSet(initList) \cup {Len(ev) + 1}
    PROVE  A!Add \/ UNCHANGED A!avars
<1>1. /\ Waiting(list) \cup ToSet(initList) \subseteq 1..Len(ev)
      /\ \A y \in 1..Len(ev) : ev'[y] = ev[y]
      /\ ev'[Len(ev) + 1] = x
  BY DueKnown, AppendProperties DEF Parts, Cells
<1>2. Due' = IF x.late THEN Due ELSE Due \cup {Len(ev) + 1}
  BY <1>1 DEF Due, InTime
<1>3. CASE ~ x.late
  BY <1>2, <1>3, RequestAdds
<1>4. CASE x.late
  <2>1. AgendaRunning' = AgendaRunning
    <3>1. cur # 0 => ev'[cur] = ev[cur]
      BY <1>1 DEF Parts, Cells, Control
    <3> QED BY <3>1, RunningRecord DEF Record
  <2> QED BY <1>1, <1>2, <1>4, <2>1, AgendaUnchanged DEF A!avars
<1> QED BY <1>3, <1>4

LEMMA ClientRefines ==
    ASSUME Parts, Parts', Ordered, Client
    PROVE  A!Add \/ UNCHANGED A!avars
<1> DEFINE e == Len(ev) + 1
<1>0. list' \in Seq(Cell) /\ time \in Nat /\ initList \in Seq(Nat) /\ e \in Nat
  BY DEF Parts, Cells, Control
<1>1. ASSUME NEW d \in Delays, NEW r \in Regions, Schedule(d, r)
      PROVE  A!Add \/ UNCHANGED A!avars
  <2> DEFINE x == [rgn |-> r, due |-> time + d, pushed |-> FALSE, late |-> TooLate(d, r)]
  <2>1. x \in EventRecord /\ x.due >= time
    BY <1>0, DelaysAssumption DEF EventRecord, TooLate
  <2>2. ev' = Append(ev, x) /\ UNCHANGED <<initList, time, cur, pc>>
    BY <1>1 DEF Schedule, New, control
  <2>3. Waiting(list') = Waiting(list) \cup {e}
    BY <1>1, ScheduleOrders
  <2> HIDE DEF x
  <2> QED BY <1>0, <2>1, <2>2, <2>3, RequestSeen
<1>2. CASE Push
  <2> DEFINE x == [rgn |-> "active", due |-> time, pushed |-> TRUE,
                late |-> TooLate(0, "active")]
  <2>1. x \in EventRecord /\ x.due >= time
    BY <1>0 DEF EventRecord, Regions, TooLate
  <2>2. ev' = Append(ev, x) /\ UNCHANGED <<initList, time, cur, pc>>
    BY <1>2 DEF Push, New, control
  <2>3. Waiting(list') = Waiting(list) \cup {e}
    BY <1>2, PushOrders
  <2> HIDE DEF x
  <2> QED BY <1>0, <2>1, <2>2, <2>3, RequestSeen
<1>3. CASE ScheduleInit
  <2> DEFINE x == [rgn |-> "init", due |-> 0, pushed |-> FALSE, late |-> (pc = "startsim")]
  <2>1. time = 0
    BY <1>3 DEF ScheduleInit, Ordered, InitFirst
  <2>2. x \in EventRecord /\ x.due >= time
    BY <2>1 DEF EventRecord
  <2>3. /\ ev' = Append(ev, x) /\ UNCHANGED <<list, time, cur, pc>>
        /\ initList' = Append(initList, e)
    BY <1>3 DEF ScheduleInit, New, control
  <2>4. ToSet(Append(initList, e)) = ToSet(initList) \cup {e}
    BY <1>0, ToSetAppend
  <2> HIDE DEF x
  <2> QED BY <1>0, <2>2, <2>3, <2>4, RequestSeen
<1>4. CASE ScheduleFinal
  <2> DEFINE x == [rgn |-> "final", due |-> 0, pushed |-> FALSE, late |-> FALSE]
  <2>1. ev' = Append(ev, x) /\ UNCHANGED <<list, initList, time, cur, pc>>
    BY <1>4 DEF ScheduleFinal, New, control
  <2> HIDE DEF x
  <2>2. \A y \in 1..Len(ev) : ev'[y] = ev[y]
    BY <2>1 DEF Parts, Cells
  <2>3. cur # 0 => cur \in 1..Len(ev)
    BY <1>0 DEF Parts, Cells, Control
  <2>4. AgendaRunning' = AgendaRunning
    <3>1. cur # 0 => ev'[cur] = ev[cur]
      BY <2>2, <2>3
    <3> QED BY <2>1, <3>1, RunningRecord DEF Record
  <2>5. Due' = Due
    BY <2>1, <2>2, DueKnown DEF Due, InTime
  <2> QED BY <1>0, <2>1, <2>2, <2>4, <2>5, AgendaUnchanged DEF A!avars
<1>5. CASE Finish \/ Stop \/ Step
  <2>1. UNCHANGED <<list, initList, time, cur, pc, ev>>
    BY <1>5 DEF Finish, Stop, Step, control
  <2>2. AgendaRunning' = AgendaRunning /\ Due' = Due
    BY <2>1, RunningRecord DEF Due
  <2> QED BY <1>0, <2>1, <2>2, AgendaUnchanged DEF A!avars
<1> QED BY <1>1, <1>2, <1>3, <1>4, <1>5 DEF Client

(* The next due time is that of the first cell, which holds something.     *)
LEMMA AdvanceRefines ==
    ASSUME Parts, Parts', Ordered, Advance
    PROVE  A!Advance
<1>1. /\ list # <<>> /\ list[1].delay > 0 /\ pc = "top" /\ pc' = "nextsim"
      /\ time' = time + list[1].delay
      /\ UNCHANGED <<cur, ev, initList>>
  BY DEF Advance, AtTop, Goto
<1>2. cur = 0
  BY <1>1 DEF Parts, Control, HandlerPlace
<1>3. AgendaRunning = {} /\ AgendaRunning' = {}
  BY <1>1, <1>2, RunningRecord
<1>4. \A x \in ToSet(initList) : ev[x].late
  BY <1>1 DEF Ordered, InitFirst
<1>5. Due = Waiting(list) /\ Due' = Due
  BY <1>1, <1>4, AdvanceOrders, NothingLateYet DEF Due, InTime
<1>6. /\ list \in Seq(Cell) /\ list' \in Seq(Cell) /\ time \in Nat
      /\ Spaced(list, time) /\ WellTimed(list, ev) /\ Used(list)
  BY DEF Parts, Cells, Ordered
<1>7. AgendaTodo = Records(ev, Due) /\ AgendaTodo' = AgendaTodo
  BY <1>1, <1>5, <1>6, TodoRecords
<1>8. /\ Waiting(list) = Queued(list[1].q) \cup Behind(list)
      /\ \A x \in Queued(list[1].q) : x \in 1..Len(ev) /\ ev[x].due = list[1].at
      /\ \A x \in Behind(list) : /\ x \in 1..Len(ev)
                                 /\ ev[x].due \in Nat /\ ev[x].due > list[1].at
      /\ list[1].at \in Nat /\ list[1].delay \in Nat /\ list[1].at = time + list[1].delay
  BY <1>1, <1>6, BehindLater
<1>9. PICK h \in Queued(list[1].q) : TRUE
  <2>1. 1 \in 1..Len(list)
    BY <1>1, <1>6
  <2> QED BY <1>1, <1>6, <2>1 DEF Used
<1>10. /\ Record(ev, h) \in AgendaTodo
       /\ Record(ev, h).due = list[1].at
  BY <1>5, <1>7, <1>8, <1>9, RecordFields DEF Records
<1>11. ASSUME NEW y \in AgendaTodo PROVE y.due >= list[1].at
  <2>1. PICK z \in Waiting(list) : y = Record(ev, z)
    BY <1>5, <1>7 DEF Records
  <2>2. y.due = ev[z].due
    BY <2>1, RecordFields
  <2>3. ev[z].due >= list[1].at
    BY <1>8, <2>1
  <2> QED BY <2>2, <2>3
<1>12. /\ list[1].at > time
       /\ time' = list[1].at
  BY <1>1, <1>6, <1>8
<1> QED BY <1>3, <1>7, <1>10, <1>11, <1>12 DEF A!Advance

LEMMA RunInitRefines ==
    ASSUME Parts, Parts', Ordered, RunInit
    PROVE  A!Start
<1> DEFINE h == Head(initList)
<1>1. /\ pc = "init" /\ pc' = pc /\ cur = 0 /\ Run(h)
      /\ UNCHANGED <<list, time, ev>>
  BY DEF RunInit
<1>2. /\ ToSet(initList) = {h} \cup ToSet(initList')
      /\ (\A y \in ToSet(initList') : h < y) /\ ~ ev[h].late
  BY RunInitOrders
<1> HIDE DEF h
<1>3. ev[h].rgn = "init" /\ ev[h].due = 0 /\ time = 0
  <2>1. ~ simStarted /\ InitFirst
    BY <1>1 DEF Ordered, InitFirst
  <2> QED BY <1>2, <2>1 DEF InitFirst
<1>4. \A y \in Waiting(list) : ev[y].rgn \in Regions
  BY DEF Ordered, Lines, InLine, Waiting, Queued
<1>5. h \notin Waiting(list)
  BY <1>3, <1>4 DEF Regions
<1>6. h \notin ToSet(initList')
  <2>1. h \in Nat
    BY <1>2, DueKnown
  <2> QED BY <1>2, <2>1
<1>7. h \in Due /\ Due' = Due \ {h}
  BY <1>1, <1>2, <1>5, <1>6 DEF Due, InTime
<1>8. ASSUME NEW y \in Due' PROVE Follows(ev, h, y)
  <2>1. h \in Nat /\ y \in Nat /\ h # y
    BY <1>7, DueKnown
  <2>2. CASE y \in ToSet(initList')
    BY <1>2, <2>1, <2>2 DEF Follows
  <2>3. CASE y \in Waiting(list)
    <3>1. Rank(ev[y].rgn) \in 1..6 /\ Rank(ev[h].rgn) = 0
      BY <1>3, <1>4, <2>3, RankType, RankValues
    <3> QED BY <2>1, <3>1 DEF Follows
  <2> QED BY <1>1, <1>8, <2>2, <2>3 DEF Due, InTime
<1>9. list' \in Seq(Cell)
  BY DEF Parts, Cells
<1> QED BY <1>1, <1>3, <1>7, <1>8, <1>9, EventStartsAgenda

LEMMA StartsRefine ==
    ASSUME Parts, Parts', Ordered, RunStart \/ Select \/ RunRosync \/ RunDelThr
    PROVE  A!Start
<1>1. PICK h : Starts(h)
  BY RunStartOrders, SelectOrders, RunRosyncOrders, RunDelThrOrders
<1>2. /\ pc \in {"start", "top", "rosync", "delthr"} /\ pc' # "final"
      /\ UNCHANGED <<initList, time, ev>>
  BY DEF RunStart, Select, RunRosync, RunDelThr, Ready, AtTop
<1>3. cur = 0
  BY <1>2 DEF RunStart, Select, RunRosync, RunDelThr, Ready, AtTop,
              Parts, Control, HandlerPlace
<1>4. \A x \in ToSet(initList) : ev[x].late
  BY <1>2 DEF Ordered, InitFirst
<1>5. Due = InTime(ev, Waiting(list)) /\ Due' = InTime(ev, Waiting(list'))
  BY <1>2, <1>4 DEF Due, InTime
<1>6. list' \in Seq(Cell)
  BY DEF Parts, Cells
<1>7. /\ h \in Due /\ Due' = Due \ {h}
      /\ \A y \in Due' : ev[y].due = time => Follows(ev, h, y)
  BY <1>1, <1>5 DEF Starts, InTime
<1> QED BY <1>1, <1>2, <1>3, <1>6, <1>7, EventStartsAgenda DEF Starts

LEMMA OthersRefine ==
    ASSUME Parts, Parts', Ordered,
           Return \/ Moves \/ RunFinal \/ DropCell \/ UNCHANGED vars
    PROVE  A!Return \/ UNCHANGED A!avars
<1>0. list' \in Seq(Cell)
  BY DEF Parts, Cells
<1>1. ev' = ev /\ time' = time /\ Due' = Due
  <2>1. CASE Return \/ Moves \/ RunFinal \/ UNCHANGED vars
    <3>1. UNCHANGED <<list, initList, time, ev>>
      BY <2>1 DEF Moves, EndOfCompile, InitDone, StartLoop, Empty, EnterStop, Resume,
             FinishFromStop, Break, NextSimTime, StartRosync, RosyncDone,
             FinalDone, Exit, LeaveLoop, Goto, Return, RunFinal, vars
    <3> QED BY <3>1 DEF Due
  <2>2. CASE DropCell
    <3>1. UNCHANGED <<initList, ev, time>>
      BY <2>2 DEF DropCell
    <3>2. InTime(ev, Waiting(list')) = InTime(ev, Waiting(list))
      BY <2>2, DropCellOrders
    <3> QED BY <3>1, <3>2 DEF Due, InTime
  <2> QED BY <2>1, <2>2
<1>2. CASE Return /\ pc # "final"
  <2>1. cur # 0 /\ cur' = 0
    BY <1>2 DEF Return
  <2>2. AgendaRunning # {} /\ AgendaRunning' = {}
    BY <1>2, <2>1, RunningRecord
  <2>3. AgendaTodo' = AgendaTodo
    <3>1. list \in Seq(Cell)
      BY DEF Parts, Cells
    <3> QED BY <1>0, <1>1, <3>1, TodoRecords
  <2> QED BY <1>1, <2>2, <2>3 DEF A!Return
<1>3. CASE ~ (Return /\ pc # "final")
  <2>1. AgendaRunning' = AgendaRunning
    <3>1. CASE Return \/ RunFinal
      BY <1>3, <3>1, RunningRecord DEF Return, RunFinal
    <3>2. CASE Moves
      <4>1. cur = 0 /\ cur' = 0
        BY <3>2 DEF Moves, EndOfCompile, InitDone, StartLoop, Empty, EnterStop, Resume,
             FinishFromStop, Break, NextSimTime, StartRosync, RosyncDone,
             FinalDone, Exit, LeaveLoop, Goto, Ready, AtTop, Parts, Control, HandlerPlace
      <4> QED BY <4>1, RunningRecord
    <3>3. CASE DropCell
      BY <3>3, RunningRecord DEF DropCell, Goto
    <3>4. CASE UNCHANGED vars
      BY <3>4, RunningRecord DEF vars
    <3> QED BY <3>1, <3>2, <3>3, <3>4
  <2> QED BY <1>0, <1>1, <2>1, AgendaUnchanged DEF A!avars
<1> QED BY <1>2, <1>3

(* The list of time cells implements the agenda, for any delays and any    *)
(* number of requests: an event starts when it is due and nothing has to   *)
(* precede it, and time moves only to the next due time and only when      *)
(* nothing is left to do that was asked for in time (schedule.cc:667-853,  *)
(* 1061-1190).                                                             *)
THEOREM Refinement == Spec => ImplementsAgenda
<1>1. Init => A!AInit
  <2> SUFFICES ASSUME Init PROVE A!AInit
    OBVIOUS
  <2>1. list \in Seq(Cell) /\ Due = {}
    BY DEF Init, Due, Waiting, ToSet, InTime
  <2>2. AgendaTodo = {}
    BY <2>1, TodoRecords DEF Records
  <2> QED BY <2>2, RunningRecord DEF Init, A!AInit
<1>2. Parts /\ Parts' /\ Ordered /\ [Next]_vars => [A!ANext]_A!avars
  <2> SUFFICES ASSUME Parts, Parts', Ordered, [Next]_vars
               PROVE  A!ANext \/ UNCHANGED A!avars
    OBVIOUS
  <2>1. CASE Client
    BY <2>1, ClientRefines DEF A!ANext
  <2>2. CASE Advance
    BY <2>2, AdvanceRefines DEF A!ANext
  <2>3. CASE RunInit
    BY <2>3, RunInitRefines DEF A!ANext
  <2>4. CASE RunStart \/ Select \/ RunRosync \/ RunDelThr
    BY <2>4, StartsRefine DEF A!ANext
  <2>5. CASE Return \/ Moves \/ RunFinal \/ DropCell \/ UNCHANGED vars
    BY <2>5, OthersRefine DEF A!ANext
  <2> QED BY <2>1, <2>2, <2>3, <2>4, <2>5 DEF Next, Simulate, Moves, Done
<1>3. Spec => []Parts
  BY PartsHold
<1>4. Spec => []Ordered
  BY OrderHolds
<1> QED BY <1>1, <1>2, <1>3, <1>4, PTL DEF Spec, ImplementsAgenda, A!ASpec
=============================================================================
