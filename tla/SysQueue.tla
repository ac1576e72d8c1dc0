------------------------------ MODULE SysQueue ------------------------------
(***************************************************************************)
(* The queues of $q_initialize, $q_add, $q_remove, $q_full and $q_exam     *)
(* (vpi/sys_queue.c): rings of jobs, and statistics about their waiting    *)
(* times that are kept in words of a fixed size.  Words are scaled down;   *)
(* the sum of all waiting times takes two of them.                         *)
(***************************************************************************)
EXTENDS Integers, Sequences, SequencesExt, FiniteSetsExt

CONSTANTS
    WordBits,  \* the size of uint64_t
    HalfBits,  \* the size of uint32_t
    Ids,       \* the ids of queues; 0 stands for one with an x in it
    Types,     \* the types asked for
    Lengths,   \* the lengths asked for
    Times,     \* the simulation times at which tasks are called
    MaxAdds    \* how many jobs are ever added

VARIABLES
    base,      \* the vector of queues
    time,      \* simulation time
    log        \* auxiliary: the jobs added, present and given away

vars == <<base, time, log>>

WordsOK ==
    /\ WordBits \in Nat /\ HalfBits \in 1..WordBits
    /\ Times \subseteq 0..(2^WordBits - 1)

-----------------------------------------------------------------------------
Word == 2^WordBits
Half == 2^HalfBits

FIFO == 1
LIFO == 2

X == -1   \* a variable filled with x
Reply(status, value) == [status |-> status, value |-> value]

(* A queue as create_queue leaves it.  The elements are not initialized,   *)
(* so they may be anything; they are given a job and a time no call uses.  *)
NewQueue(id, type, length) ==
    [id |-> id, type |-> type, length |-> length, head |-> 0, elems |-> 0,
     queue |-> [i \in 0..(length - 1) |-> [job |-> X, time |-> X]],
     max |-> 0, shortest |-> Word - 1, first |-> 0, latest |-> 0,
     wait |-> [high |-> 0, low |-> 0], adds |-> 0, haveShortest |-> FALSE]

NewLog == [added |-> <<>>, present |-> <<>>, given |-> <<>>, most |-> 0]

Index(id)   == SelectInSeq(base, LAMBDA q : q.id = id)
Defined(id) == id # 0 /\ Index(id) # 0

-----------------------------------------------------------------------------
(***************************************************************************)
(* The sum of waiting times, and its average.                              *)
(***************************************************************************)
AddWaitTimeNoCarry(total, t) == [total EXCEPT !.low = (@ + t) % Word]

AddWaitTime(total, t) ==
    [high |-> total.high + (IF Word - 1 - total.low < t THEN 1 ELSE 0),
     low  |-> (total.low + t) % Word]

(* The two words move up by a bit; the top bit of the upper one is lost    *)
(* and remembered as carry.                                                *)
ShiftedUp(s) ==
    [s EXCEPT !.high  = ((2 * s.high) % Word) + ((2 * s.low) \div Word),
              !.low   = (2 * s.low) % Word,
              !.carry = s.high > (Word - 1) \div 2,
              !.bit   = s.bit - 1]

RECURSIVE Divided(_, _)
Divided(s, total) ==
    IF s.bit >= 0 /\ s.high < total /\ ~ s.carry THEN Divided(ShiftedUp(s), total)
    ELSE IF s.bit < 0 THEN s.result
    ELSE LET left == [s EXCEPT !.result = @ + 2^s.bit,
                               !.high   = (@ - total) % Word,
                               !.carry  = FALSE]
         IN  IF s.bit = 0 THEN left.result ELSE Divided(left, total)

AverageWaitTime(sum, total) ==
    IF sum.high = 0 THEN sum.low \div total
    ELSE Divided([high |-> sum.high, low |-> sum.low, bit |-> WordBits,
                  result |-> 0, carry |-> FALSE], total)

-----------------------------------------------------------------------------
Init == base = <<>> /\ log = <<>> /\ time = Min(Times)

(* $q_initialize.  What it refuses, it only tells in its status argument,  *)
(* and so it does when memory runs out.                                    *)
QInitialize(id, type, length) ==
    /\ id # 0 /\ type \in {FIFO, LIFO} /\ length > 0 /\ Index(id) = 0
    /\ base' = Append(base, NewQueue(id, type, length))
    /\ log' = Append(log, NewLog)
    /\ UNCHANGED time

(* Where add_to_queue puts a job. *)
PutAt(q) ==
    IF q.type = LIFO THEN q.elems ELSE (q.head + q.elems) % q.length

Added(q, job) ==
    [q EXCEPT !.elems  = @ + 1,
              !.queue[PutAt(q)] = [job |-> job, time |-> time],
              !.max    = IF @ = q.elems THEN @ + 1 ELSE @,
              !.adds   = @ + 1,
              !.first  = IF q.adds = 0 THEN time ELSE @,
              !.latest = time]

(* $q_add, unless the queue is full.  A job has its information with it.    *)
QAdd(id, job) ==
    LET i == Index(id)
    IN  /\ Defined(id)
        /\ base[i].elems < base[i].length
        /\ base' = [base EXCEPT ![i] = Added(@, job)]
        /\ log' = [log EXCEPT
             ![i].added   = Append(@, time),
             ![i].present = Append(@, [job |-> job, time |-> time]),
             ![i].most    = Max({@, Len(log[i].present) + 1})]
        /\ UNCHANGED time

(* Where remove_from_queue finds the job to give away. *)
TakenFrom(q) == IF q.type = LIFO THEN q.elems - 1 ELSE q.head

Removed(q) ==
    LET waited == time - q.queue[TakenFrom(q)].time
    IN  [q EXCEPT !.elems    = @ - 1,
                  !.head     = IF q.type = LIFO THEN @ ELSE (@ + 1) % q.length,
                  !.shortest = IF waited < @ THEN waited ELSE @,
                  !.haveShortest = TRUE,
                  !.wait     = AddWaitTime(@, waited)]

(* $q_remove, unless the queue is empty. *)
QRemove(id) ==
    LET i    == Index(id)
        q    == base[i]
        p    == log[i].present
        gone == IF q.type = FIFO THEN Head(p) ELSE Last(p)
    IN  /\ Defined(id)
        /\ q.elems > 0
        /\ base' = [base EXCEPT ![i] = Removed(@)]
        /\ log' = [log EXCEPT
             ![i].present = IF q.type = FIFO THEN Tail(@) ELSE Front(@),
             ![i].given   = Append(@, [job |-> gone.job, waited |-> time - gone.time,
                                       got |-> q.queue[TakenFrom(q)].job])]
        /\ UNCHANGED time

Advance ==
    /\ time' \in {t \in Times : t > time}
    /\ UNCHANGED <<base, log>>

(* How many jobs were added. *)
Jobs == FoldSeq(LAMBDA l, n : Len(l.added) + n, 0, log)

Next ==
    \/ \E id \in Ids, type \in Types, length \in Lengths : QInitialize(id, type, length)
    \/ \E id \in Ids : Jobs < MaxAdds /\ QAdd(id, Jobs + 1)
    \/ \E id \in Ids : QRemove(id)
    \/ Advance

-----------------------------------------------------------------------------
(***************************************************************************)
(* $q_full and $q_exam, which change nothing but their arguments.          *)
(***************************************************************************)
QFull(id) ==
    IF ~ Defined(id) THEN Reply("undefined id", X)
    ELSE LET q == base[Index(id)]
         IN  Reply("ok", IF q.elems >= q.length THEN 1 ELSE 0)

(* The time is rounded to the units of the module of the variable.          *)
Scaled(t, scale) ==
    (t \div scale) + (IF scale > 1 /\ t % scale >= scale \div 2 THEN 1 ELSE 0)

(* What a variable holds, as a number, after n is put into it.              *)
Held(var, n) ==
    LET cut == n % 2^var.size
    IN  IF var.signed /\ cut >= 2^(var.size - 1) THEN cut - 2^var.size ELSE cut

(* A time is put into a variable, or what is meant to be its largest value. *)
Fill(var, t) ==
    LET c     == Scaled(t, var.scale)
        sign  == IF var.signed THEN 1 ELSE 0
        upper == IF ~ var.signed THEN Half - 1
                 ELSE Half - 1 - (Half - 1) \div 2^(var.size - HalfBits)
    IN  IF var.size < WordBits /\ c >= 2^(var.size - sign)
        THEN Reply("overflowed",
                   Held(var, IF var.size <= HalfBits THEN 2^(HalfBits - sign) - 1
                             ELSE upper * Half + Half - 1))
        ELSE Reply("ok", Held(var, c))

(* The sum of the waiting times of all jobs, also of those that still wait. *)
RECURSIVE WaitOf(_, _, _, _)
WaitOf(q, total, loc, count) ==
    IF count = 0 THEN total
    ELSE WaitOf(q, AddWaitTime(total, time - q.queue[loc].time),
                (loc + 1) % q.length, count - 1)

(* $q_exam. *)
QExam(id, code, var) ==
    LET q    == base[Index(id)]
        none == Reply("no statistics", X)
    IN  CASE ~ Defined(id) -> Reply("undefined id", X)
          [] Defined(id) /\ code = "length"     -> Reply("ok", q.elems)
          [] Defined(id) /\ code = "max length" -> Reply("ok", q.max)
          [] Defined(id) /\ code = "mean" ->
                IF q.adds < 2 THEN none
                ELSE Fill(var, (q.latest - q.first) \div (q.adds - 1))
          [] Defined(id) /\ code = "shortest" ->
                IF ~ q.haveShortest THEN none ELSE Fill(var, q.shortest)
          [] Defined(id) /\ code = "longest" ->
                IF q.elems = 0 THEN none ELSE Fill(var, time - q.queue[q.head].time)
          [] Defined(id) /\ code = "average" ->
                IF q.adds = 0 THEN none
                ELSE Fill(var, AverageWaitTime(
                               WaitOf(q, q.wait, q.head, q.elems), q.adds))

-----------------------------------------------------------------------------
(***************************************************************************)
(* The properties.                                                         *)
(***************************************************************************)
(* The jobs in a ring, the first one that came first.                      *)
Contents(q) == [i \in 1..q.elems |-> q.queue[(q.head + i - 1) % q.length]]

Total(s) == FoldSeq(LAMBDA t, n : t + n, 0, s)

(* What $q_exam should tell of a queue: about the times of its jobs, and    *)
(* how long each of them waited or has been waiting.                       *)
Statistic(l, code) ==
    LET n       == Len(l.added)
        waits   == [i \in DOMAIN l.given |-> l.given[i].waited]
        waiting == [i \in DOMAIN l.present |-> time - l.present[i].time]
        any     == CASE code = "mean"     -> n > 1
                     [] code = "shortest" -> waits # <<>>
                     [] code = "longest"  -> waiting # <<>>
                     [] code = "average"  -> n > 0
                     [] OTHER             -> TRUE
        value   == CASE code = "length"     -> Len(l.present)
                     [] code = "max length" -> l.most
                     [] code = "mean"       -> (Last(l.added) - l.added[1]) \div (n - 1)
                     [] code = "shortest"   -> Min(Range(waits))
                     [] code = "longest"    -> Max(Range(waiting))
                     [] code = "average"    -> Total(waits \o waiting) \div n
    IN  IF any THEN Reply("ok", value) ELSE Reply("no statistics", X)

Codes == {"length", "mean", "max length", "shortest", "longest", "average"}

(* A variable that takes every time as it is. *)
WholeWord == [size |-> WordBits, signed |-> FALSE, scale |-> 1]

(* The division bit by bit is a division, for sums and numbers of jobs that *)
(* no short run reaches.                                                   *)
DividesRight ==
    LET some == {0, 1, 2, 3, Word \div 2 - 1, Word \div 2, Word - 2, Word - 1}
    IN  \A total \in some \ {0}, high, low \in some :
            high < total =>
                AverageWaitTime([high |-> high, low |-> low], total)
                    = (high * Word + low) \div total

(* A time is rounded, and is put into the variable if it fits; otherwise the *)
(* variable has its largest value.  (A signed variable of two words gets    *)
(* another value, and one of a whole word is not tested.)                    *)
FillsRight ==
    \A t \in 0..(Word - 1), size \in HalfBits..(WordBits + 1),
       signed \in BOOLEAN, scale \in {1, 10} :
        LET var  == [size |-> size, signed |-> signed, scale |-> scale]
            want == (t + scale \div 2) \div scale
            most == 2^(IF signed THEN size - 1 ELSE size) - 1
            got  == Fill(var, t)
        IN  /\ want <= most => got = Reply("ok", want)
            /\ want > most /\ ~ (signed /\ size = WordBits) => got.status = "overflowed"
            /\ want > most /\ (~ signed \/ size <= HalfBits + 1) => got.value = most

(* A queue gives its jobs away in the order of its type, is full when it     *)
(* says so, and every statistic is exact, although the ring wraps around    *)
(* and the sum of waiting times does not fit a word (sys_queue.c:60-109,    *)
(* 215-337, 360-459, 714-797).  Of the two functions, once.                  *)
QueueRight ==
    /\ base = <<>> => DividesRight /\ FillsRight
    /\ \A i \in DOMAIN base :
        LET q == base[i]
            l == log[i]
        IN  /\ Contents(q) = l.present
            /\ \A k \in DOMAIN l.given : l.given[k].got = l.given[k].job
            /\ QFull(q.id).value = (IF Len(l.present) = q.length THEN 1 ELSE 0)
            /\ \A code \in Codes : QExam(q.id, code, WholeWord) = Statistic(l, code)
=============================================================================
