------------------------------- MODULE Nexus -------------------------------
(***************************************************************************)
(* The nets of a design, net_link.cc and link_const.cc: the pins that are  *)
(* connected are links of one nexus, in a ring that the nexus enters at    *)
(* its last link; only that link points back to the nexus.  Pins are       *)
(* connected, unlinked and deleted all through elaboration and             *)
(* optimization, and every nexus keeps a guess of the constant that drives *)
(* it, which these operations have to take back in time.                   *)
(***************************************************************************)
EXTENDS Integers, FiniteSets, Sequences, SequencesExt

CONSTANTS
    Links,   \* the pins
    Sort     \* what each is: a constant ("const0", "const1", "constx" or
             \* "constz"), "supply0", "input", "wire" or "driver", which has no
             \* constant value

(* The links are numbered from 1; each has a nexus of its own that it uses *)
(* when it is the first of its net.                                        *)
NoLink == 0

(* A design has finitely many pins, and NoLink is no pin.                  *)
LinksOK == IsFiniteSet(Links) /\ NoLink \notin Links
ASSUME LinksAssumption == LinksOK

Guesses == {"none", "0", "1", "x", "z", "var"}
Unused == [last |-> NoLink, guess |-> "none"]

VARIABLES
    next_,     \* next_ of every link, NoLink when it is not connected
    nexus,    \* nexus_ of every link
    nexuses,  \* list_ and driven_ of every nexus
    nets      \* auxiliary: the nets as sets of links

nexusVars == <<next_, nexus, nexuses, nets>>

NexusInit ==
    /\ next_ = [l \in Links |-> NoLink]
    /\ nexus = [l \in Links |-> NoLink]
    /\ nexuses = [n \in Links |-> Unused]
    /\ nets = {}

Connected(l) == next_[l] # NoLink
InputOf(l)   == Sort[l] = "input"
Exists(n)    == nexuses[n].last # NoLink

(* find_nexus_: on around the ring, to the link that knows it.             *)
FindNexus(l) ==
    LET walk[i \in 0..Cardinality(Links)] ==
            IF i = 0 THEN l
            ELSE LET m == walk[i-1] IN IF nexus[m] # NoLink THEN m ELSE next_[m]
    IN  nexus[walk[Cardinality(Links)]]

(* The links of a ring from its first link on, as next_nlink goes.         *)
Ring(n) ==
    LET last == nexuses[n].last
        walk[i \in 1..Cardinality(Links)] ==
            IF i = 1 THEN <<next_[last]>>
            ELSE LET s == walk[i-1] IN IF Last(s) = last THEN s ELSE Append(s, next_[Last(s)])
    IN  walk[Cardinality(Links)]

NetOf(l) == CHOOSE s \in nets \cup {{l}} : l \in s /\ (\A t \in nets : l \in t => s = t)

-----------------------------------------------------------------------------
(* Nexus::Nexus: a link that is not connected gets a nexus and a ring.     *)
NewNexus(l, n) ==
    /\ next_' = [next_ EXCEPT ![l] = l]
    /\ nexus' = [nexus EXCEPT ![l] = n]
    /\ nexuses' = [nexuses EXCEPT ![n] = [last |-> l, guess |-> "none"]]

FreeNexus == CHOOSE n \in Links : ~ Exists(n)

(* Nexus::connect, with a link that is not connected: it becomes the last  *)
(* one; an input does not change the value.                                *)
AddLink(n, r) ==
    /\ nexus' = [nexus EXCEPT ![r] = n, ![nexuses[n].last] = NoLink]
    /\ next_' = [next_ EXCEPT ![r] = next_[nexuses[n].last], ![nexuses[n].last] = r]
    /\ nexuses' = [nexuses EXCEPT ![n].last = r,
                                  ![n].guess = IF InputOf(r) THEN @ ELSE "none"]

(* Mutant: it stays in any case.                                           *)
SpliceKeepsGuess(n, m) ==
    LET last == nexuses[n].last
        other == nexuses[m].last
    IN  /\ next_' = [next_ EXCEPT ![last] = next_[other], ![other] = next_[last]]
        /\ nexus' = [nexus EXCEPT ![last] = NoLink, ![other] = n]
        /\ nexuses' = [nexuses EXCEPT ![n].last = other, ![m] = Unused]

(* Nexus::connect, with a link of another nexus m: its ring is spliced in  *)
(* and the nexus deleted; the guess stays if the other net was found to be *)
(* driven with z, by nothing or by constants of z.                         *)
Splice(n, m) ==
    LET last == nexuses[n].last
        other == nexuses[m].last
    IN  /\ next_' = [next_ EXCEPT ![last] = next_[other], ![other] = next_[last]]
        /\ nexus' = [nexus EXCEPT ![last] = NoLink, ![other] = n]
        /\ nexuses' = [nexuses EXCEPT
                          ![n] = [last |-> other,
                                  guess |-> IF nexuses[m].guess = "z" THEN @.guess
                                            ELSE "none"],
                          ![m] = Unused]

(* connect: the nexus of l is used if there is one, then that of r.        *)
Connect(l, r) ==
    /\ l # r
    /\ nets' = (nets \ {NetOf(l), NetOf(r)}) \cup {NetOf(l) \cup NetOf(r)}
    /\ IF Connected(l)
       THEN IF ~ Connected(r) THEN AddLink(FindNexus(l), r)
            ELSE IF FindNexus(l) = FindNexus(r)
            THEN UNCHANGED <<next_, nexus, nexuses>>
            ELSE Splice(FindNexus(l), FindNexus(r))
       ELSE IF Connected(r) THEN AddLink(FindNexus(r), l)
       ELSE LET n == FreeNexus
            IN  /\ next_' = [next_ EXCEPT ![l] = r, ![r] = l]
                /\ nexus' = [nexus EXCEPT ![r] = n]
                /\ nexuses' = [nexuses EXCEPT ![n] = [last |-> r, guess |-> "none"]]

(* Link::nexus, which makes a nexus for a link that has none.              *)
UseNexus(l) ==
    /\ ~ Connected(l)
    /\ NewNexus(l, FreeNexus)
    /\ nets' = nets \cup {{l}}

(* Nexus::unlink *)
Removed(l) ==
    LET n == FindNexus(l)
        prev == CHOOSE p \in Links : next_[p] = l
    IN  IF next_[l] = l
        THEN /\ next_' = [next_ EXCEPT ![l] = NoLink]
             /\ nexus' = [nexus EXCEPT ![l] = NoLink]
             /\ nexuses' = [nexuses EXCEPT ![n] = Unused]
        ELSE /\ next_' = [next_ EXCEPT ![prev] = next_[l], ![l] = NoLink]
             /\ nexus' = IF nexuses[n].last = l
                         THEN [nexus EXCEPT ![prev] = n, ![l] = NoLink]
                         ELSE [nexus EXCEPT ![l] = NoLink]
             /\ nexuses' = [nexuses EXCEPT
                               ![n].last = IF @ = l THEN prev ELSE @,
                               ![n].guess = IF InputOf(l) THEN @ ELSE "none"]

(* Link::unlink, which leaves a link alone with its nexus as it is, and    *)
(* Link::~Link, which does not; the pin of another object takes its place. *)
Unlink(l) ==
    /\ Connected(l) /\ next_[l] # l
    /\ Removed(l)
    /\ nets' = (nets \ {NetOf(l)}) \cup {NetOf(l) \ {l}}

DeleteLink(l) ==
    /\ Connected(l)
    /\ Removed(l)
    /\ nets' = (nets \ {NetOf(l)}) \cup ({NetOf(l) \ {l}} \ {{}})

-----------------------------------------------------------------------------
(* Nexus::drivers_constant, then driven_value as in the optimizer: one     *)
(* constant driver at most, and the value it has, are looked up once.      *)
Drivers(s) == {l \in s : Sort[l] \notin {"input", "wire"}}

ConstantOf(s) ==
    IF \E l \in s : Sort[l] = "driver" THEN "var"
    ELSE IF Cardinality(Drivers(s)) > 1 THEN "var"
    ELSE IF Drivers(s) = {} THEN "z"
    ELSE IF \E l \in s : Sort[l] = "const1" THEN "1"
    ELSE IF \E l \in s : Sort[l] = "constx" THEN "x"
    ELSE IF \E l \in s : Sort[l] = "constz" THEN "z"
    ELSE "0"

(* A guess is kept when a net is spliced in that is driven with z, although *)
(* the constants of z in it count as drivers when the value is looked up.  *)
Silent == {l \in Links : Sort[l] = "constz"}
ConstantsOf(s) == {ConstantOf(s), ConstantOf(s \ Silent)}

Guess(n) ==
    /\ Exists(n) /\ nexuses[n].guess = "none"
    /\ nexuses' = [nexuses EXCEPT ![n].guess = ConstantOf(ToSet(Ring(n)))]
    /\ UNCHANGED <<next_, nexus, nets>>

NexusNext ==
    \/ \E l, r \in Links : Connect(l, r)
    \/ \E l \in Links : UseNexus(l) \/ Unlink(l) \/ DeleteLink(l)
    \/ \E n \in Links : Guess(n)

NexusSpec == NexusInit /\ [][NexusNext]_nexusVars

-----------------------------------------------------------------------------
NexusTypeOK ==
    /\ next_ \in [Links -> Links \cup {NoLink}] /\ nexus \in [Links -> Links \cup {NoLink}]
    /\ nexuses \in [Links -> [last : Links \cup {NoLink},
                              guess : Guesses]]
    /\ UNION nets \subseteq Links

(* Whatever is connected, unlinked and deleted, in whatever order: the     *)
(* rings are the nets that the connections make, every link of a ring      *)
(* finds the one nexus of the ring, which is entered at the last link, no  *)
(* nexus is left over, and the value a nexus remembers to be driven with   *)
(* is the one it would find now, or would find now if it had not the       *)
(* constants of z (net_link.cc:33-86, 137-144, 386-424;                    *)
(* link_const.cc:32-35, 139-202).                                          *)
RingsAreNets ==
    /\ NexusTypeOK
    /\ {ToSet(Ring(n)) : n \in {n \in Links : Exists(n)}} = nets
    /\ Cardinality({n \in Links : Exists(n)}) = Cardinality(nets)
    /\ \A l \in Links :
        /\ Connected(l) <=> \E s \in nets : l \in s
        /\ Connected(l) => Exists(FindNexus(l)) /\ l \in ToSet(Ring(FindNexus(l)))
        /\ nexus[l] # NoLink => Connected(l) /\ nexuses[nexus[l]].last = l
    /\ \A n \in Links : Exists(n) /\ nexuses[n].guess # "none" =>
        nexuses[n].guess \in ConstantsOf(ToSet(Ring(n)))
-----------------------------------------------------------------------------
(* The inductive invariant: every nexus has a sequence of links, empty for *)
(* one that is not used.  Each link is followed by the next, the last by   *)
(* the first, and only the last knows the nexus.                           *)
After(s, i) == s[IF i = Len(s) THEN 1 ELSE i + 1]

RingIn(n, s, nx, nu, x) ==
    /\ s \in Seq(Links) /\ IsInjective(s)
    /\ x[n].last = IF s = <<>> THEN NoLink ELSE s[Len(s)]
    /\ \A i \in DOMAIN s : nx[s[i]] = After(s, i)
    /\ \A i \in DOMAIN s : nu[s[i]] = IF i = Len(s) THEN n ELSE NoLink
    /\ s # <<>> => x[n].guess \in {"none"} \cup ConstantsOf(ToSet(s))

(* No link is in two rings, those in none are not connected, and the rings *)
(* are the nets.                                                           *)
RingsIn(R, nx, nu, x, N) ==
    /\ R \in [Links -> Seq(Links)]
    /\ \A n \in Links : RingIn(n, R[n], nx, nu, x)
    /\ \A n, m \in Links : n # m => ToSet(R[n]) \cap ToSet(R[m]) = {}
    /\ \A l \in Links : (\A n \in Links : l \notin ToSet(R[n])) => nx[l] = NoLink /\ nu[l] = NoLink
    /\ N = {ToSet(R[n]) : n \in {m \in Links : R[m] # <<>>}}

Rings == [n \in Links |-> IF Exists(n) THEN Ring(n) ELSE <<>>]

NexusInv == NexusTypeOK /\ RingsIn(Rings, next_, nexus, nexuses, nets)
=============================================================================
