----------------------------- MODULE SymbolTree -----------------------------
(***************************************************************************)
(* The symbol table of the vvp run time, vvp/symbols.cc: a B-tree whose    *)
(* leaves hold the keys in order and whose inner nodes name their children *)
(* only; the key of a child is the largest one below it.  A full leaf is   *)
(* split, and so are the full nodes above it, up to the root, which keeps  *)
(* its place.  Nodes know their parent, through which a split goes up.     *)
(***************************************************************************)
EXTENDS Integers, FiniteSets, Sequences, SequencesExt

CONSTANTS
    Keys,        \* the symbols, numbered in the order of their names
    Defined,     \* the values a symbol may be given; not 0
    LeafWidth,   \* leaf_width
    NodeWidth    \* node_width

WidthsOK ==
    /\ Keys \subseteq Nat /\ Defined \subseteq Nat \ {0}
    /\ LeafWidth \in Nat /\ LeafWidth >= 2
    /\ NodeWidth \in Nat /\ NodeWidth >= 3

VARIABLES
    tree,        \* the nodes, by the order in which they were made
    table        \* auxiliary: the map the tree stands for

vars == <<tree, table>>

Root == 1
Leaf(p, d) == [leaf |-> TRUE, parent |-> p, data |-> d]
Node(p, c) == [leaf |-> FALSE, parent |-> p, child |-> c]

Init == tree = <<Node(0, <<>>)>> /\ table = [k \in {} |-> 0]

-----------------------------------------------------------------------------
(* node_last_key: down the last children.                                  *)
LastKey(h, n) ==
    LET down[i \in 0..Len(h)] ==
            IF i = 0 THEN n
            ELSE LET m == down[i-1] IN IF h[m].leaf THEN m ELSE Last(h[m].child)
    IN  Last(h[down[Len(h)]].data).key

(* The binary search within an inner node, between min and max.            *)
ChildFor(h, n, key) ==
    LET child == h[n].child
        count == Len(child)
        search[min \in 0..count, max \in 0..count] ==
            LET idx  == min + (max - min) \div 2
                last == LastKey(h, child[idx + 1])
            IN  IF key = last THEN idx
                ELSE IF key > last
                THEN IF idx + 1 = count THEN idx
                     ELSE IF idx + 1 = max THEN max
                     ELSE search[idx + 1, max]
                ELSE IF idx = min THEN idx
                ELSE search[min, idx]
    IN  child[search[0, count] + 1]

(* find_value_, down to the leaf.                                          *)
LeafFor(h, key) ==
    LET down[i \in 0..Len(h)] ==
            IF i = 0 THEN Root
            ELSE LET m == down[i-1] IN IF h[m].leaf THEN m ELSE ChildFor(h, m, key)
    IN  down[Len(h)]

Holds(h, n, key) == \E i \in DOMAIN h[n].data : h[n].data[i].key = key

-----------------------------------------------------------------------------
(* A new node takes the last half of the entries of node cur.              *)
Half(s)    == Len(s) \div 2
Kept(s)    == SubSeq(s, 1, Len(s) - Half(s))
Moved(s)   == SubSeq(s, Len(s) - Half(s) + 1, Len(s))

(* The nodes in c get p as their parent.                                   *)
Adopted(h, c, p) ==
    [n \in DOMAIN h |-> IF n \in ToSet(c) THEN [h[n] EXCEPT !.parent = p] ELSE h[n]]

(* new comes after cur in the parent of cur.                               *)
Hooked(h, cur, new) ==
    LET p == h[cur].parent
        i == CHOOSE i \in DOMAIN h[p].child : h[p].child[i] = cur
    IN  [h EXCEPT ![p].child = InsertAt(@, i + 1, new)]

(* Mutant: the children that are moved keep their parent.                  *)
SplitNodeOrphans(h, cur) ==
    LET c   == h[cur].child
        new == Len(h) + 1
    IN  IF h[cur].parent = 0
        THEN [Adopted(h, Kept(c), new + 1) EXCEPT ![cur].child = <<new + 1, new>>]
                \o <<Node(cur, Moved(c)), Node(cur, Kept(c))>>
        ELSE Hooked([h EXCEPT ![cur].child = Kept(c)]
                        \o <<Node(h[cur].parent, Moved(c))>>, cur, new)

(* One turn of the loop of split_node_; the root becomes the parent of two *)
(* new nodes.                                                              *)
SplitNode(h, cur) ==
    LET c   == h[cur].child
        new == Len(h) + 1
        h1  == Adopted(h, Moved(c), new)
    IN  IF h[cur].parent = 0
        THEN [Adopted(h1, Kept(c), new + 1) EXCEPT ![cur].child = <<new + 1, new>>]
                \o <<Node(cur, Moved(c)), Node(cur, Kept(c))>>
        ELSE Hooked([h1 EXCEPT ![cur].child = Kept(c)]
                        \o <<Node(h[cur].parent, Moved(c))>>, cur, new)

(* split_node_: nodes are split while they are full, up to the root.       *)
SplitNodes(h, from) ==
    LET up[i \in 0..Len(h)] ==
            IF i = 0 THEN [tree |-> h, cur |-> from]
            ELSE LET s == up[i-1]
                 IN  IF s.cur = 0 \/ Len(s.tree[s.cur].child) < NodeWidth THEN s
                     ELSE [tree |-> SplitNode(s.tree, s.cur),
                           cur |-> s.tree[s.cur].parent]
    IN  up[Len(h)].tree

(* split_leaf_ *)
SplitLeaf(h, cur) ==
    LET d  == h[cur].data
        h1 == Hooked([h EXCEPT ![cur].data = Kept(d)]
                         \o <<Leaf(h[cur].parent, Moved(d))>>, cur, Len(h) + 1)
    IN  SplitNodes(h1, h[cur].parent)

(* The key goes before the first larger one.                               *)
Inserted(h, n, key, val) ==
    LET d  == h[n].data
        i  == Cardinality({j \in DOMAIN d : d[j].key < key}) + 1
        h1 == [h EXCEPT ![n].data = InsertAt(d, i, [key |-> key, val |-> val])]
    IN  IF Len(d) + 1 = LeafWidth THEN SplitLeaf(h1, n) ELSE h1

(* sym_set_value and sym_get_value: both enter a symbol that is not there, *)
(* the second with 0.                                                      *)
Entered(h, key, val, force) ==
    IF h[Root].leaf = FALSE /\ h[Root].child = <<>>
    THEN <<Node(0, <<2>>), Leaf(Root, <<[key |-> key, val |-> val]>>)>>
    ELSE LET n == LeafFor(h, key)
         IN  IF ~ Holds(h, n, key) THEN Inserted(h, n, key, val)
             ELSE [h EXCEPT ![n].data = [i \in DOMAIN @ |->
                    IF @[i].key = key /\ force THEN [@[i] EXCEPT !.val = val] ELSE @[i]]]

SetValue(key, val) ==
    /\ tree' = Entered(tree, key, val, TRUE)
    /\ table' = [k \in DOMAIN table \cup {key} |-> IF k = key THEN val ELSE table[k]]

GetValue(key) ==
    /\ tree' = Entered(tree, key, 0, FALSE)
    /\ table' = [k \in DOMAIN table \cup {key} |->
                    IF k \in DOMAIN table THEN table[k] ELSE 0]

Next == \E k \in Keys : GetValue(k) \/ \E v \in Defined : SetValue(k, v)

Spec == Init /\ [][Next]_vars

-----------------------------------------------------------------------------
(* No node is full or, but for the root, empty.                             *)
TypeOK ==
    \A n \in DOMAIN tree :
        /\ tree[n].parent \in 0..Len(tree)
        /\ IF tree[n].leaf
           THEN /\ tree[n].data \in Seq([key : Keys, val : {0} \cup Defined])
                /\ Len(tree[n].data) \in 1..(LeafWidth - 1)
           ELSE /\ tree[n].child \in Seq(2..Len(tree))
                /\ Len(tree[n].child) \in (IF n = Root THEN 0 ELSE 1)..(NodeWidth - 1)

(* The tree is the map: the search finds every symbol that was entered,    *)
(* with its value, and no other, in whatever order symbols were entered    *)
(* and however often nodes were split; a node is a child of its parent and *)
(* of no other (symbols.cc:127-294).                                       *)
TreeIsMap ==
    /\ TypeOK
    /\ \A k \in Keys : table # <<>> =>
        LET d == tree[LeafFor(tree, k)].data
        IN  IF k \in DOMAIN table
            THEN \E i \in DOMAIN d : d[i] = [key |-> k, val |-> table[k]]
            ELSE ~ \E i \in DOMAIN d : d[i].key = k
    /\ \A n \in DOMAIN tree \ {Root} :
        {p \in DOMAIN tree : ~ tree[p].leaf /\ n \in ToSet(tree[p].child)}
            = {tree[n].parent}
=============================================================================
