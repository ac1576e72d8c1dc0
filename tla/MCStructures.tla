---------------------------- MODULE MCStructures ----------------------------
(***************************************************************************)
(* The data structures that the compiler and the run time change while     *)
(* they are in use, each checked by itself: the lists of call-backs        *)
(* (VpiCallback), the symbol table (SymbolTree), the nets of a design      *)
(* (Nexus), the tree that resolves the drivers of a net (Resolver), the    *)
(* queues of $q_initialize (SysQueue), constant numbers (Verinum) and the  *)
(* values of the run time (Vector4).                                       *)
(* They share no state; a behaviour belongs to one of them.                *)
(***************************************************************************)
EXTENDS VpiCallback, Nexus

VARIABLES
    part,                                               \* the part that acts
    tree, table,
    kind, val, shown,
    queues, clock, jobs,
    left, right, operation, value,
    first, second, instruction, answer

treeVars       == <<tree, table>>
resolverVars   == <<kind, val, shown>>
queueVars      == <<queues, clock, jobs>>
constantVars   == <<left, right, operation, value>>
valueVars      == <<first, second, instruction, answer>>
structuresVars == <<part, vars, treeVars, nexusVars, resolverVars, queueVars, constantVars, valueVars>>

-----------------------------------------------------------------------------
(* Six symbols are enough for a tree of four levels when nodes are narrow; *)
(* in wide ones the binary search has choices to make.                     *)
Tree(width) == INSTANCE SymbolTree WITH
    Keys <- 1..6, Defined <- {1}, LeafWidth <- 2, NodeWidth <- width
Narrow == 3
Wide   == 5

ASSUME TreeAssumption == Tree(Narrow)!WidthsOK /\ Tree(Wide)!WidthsOK

(* Two constants, of which one is z, an input and a driver.                *)
MCSort == <<"constz", "const1", "input", "driver">>

(* Five drivers need a second level, and one of them is silent.  The others *)
(* drive z, strong 0, 1 and H and weak 1; nets are tri, tri0, triand and   *)
(* trior.                                                                  *)
Scalars == INSTANCE Resolver WITH
    Ports <- 0, Sending <- {}, Drives <- {}, Kinds <- {}
MCDrives ==
    {Scalars!HiZ, Scalars!Scalar("0", 6, 6), Scalars!Scalar("1", 6, 6),
     Scalars!Scalar("x", 0, 6), Scalars!Scalar("1", 3, 3)}
MCKinds ==
    {[class |-> "tri", pull |-> Scalars!HiZ],
     [class |-> "tri", pull |-> Scalars!Scalar("0", 5, 5)],
     [class |-> "and", pull |-> Scalars!HiZ], [class |-> "or", pull |-> Scalars!HiZ]}
Resolution == INSTANCE Resolver WITH
    Ports <- 5, Sending <- {1, 2, 4, 5}, Drives <- MCDrives, Kinds <- MCKinds

(* A word is 6 bits, so that the sum of two waiting times may need another, *)
(* and times are at its limits.                                            *)
Queues == INSTANCE SysQueue WITH
    WordBits <- 6, HalfBits <- 3, Ids <- 0..2, Types <- 1..3, Lengths <- {0, 2},
    Times <- {0, 20, 63}, MaxAdds <- 3, base <- queues, time <- clock, log <- jobs

(* Numbers are shorter than a machine word, as long, and longer. *)
Constants == INSTANCE Verinum WITH
    LongBits <- 3, IntegerWidth <- 3, Widths <- 1..4,
    l <- left, r <- right, op <- operation, result <- value

(* Values of one, two and three words, at and beside the ends of a word.   *)
Values4 == INSTANCE Vector4 WITH
    WordBits <- 4, IntBits <- 3, Sizes <- {3, 4, 7, 8, 9}, WordValues <- {0, 1, 8, 15},
    Unguarded <- {}, l <- first, r <- second, op <- instruction, result <- answer

ASSUME WordAssumption == Queues!WordsOK /\ Constants!ConstantsOK /\ Values4!WordsOK

-----------------------------------------------------------------------------
Parts == {"callbacks", "narrow", "wide", "nets", "drivers", "queues", "constants", "values"}

StructuresInit ==
    /\ part \in Parts
    /\ Init
    /\ Tree(Narrow)!Init
    /\ NexusInit
    /\ Resolution!Init
    /\ part # "drivers" => kind = [class |-> "tri", pull |-> Scalars!HiZ]
    /\ Queues!Init
    /\ Constants!Init
    /\ part # "constants" => left = Constants!Bit(0) /\ right = Constants!Bit(0)
    /\ IF part = "values" THEN Values4!Init
       ELSE /\ first = Values4!Nil /\ second = Values4!Nil
            /\ instruction = [do |-> "none"] /\ answer = <<>>

StructuresNext ==
    \/ part = "callbacks" /\ Next
       /\ UNCHANGED <<part, treeVars, nexusVars, resolverVars, queueVars, constantVars, valueVars>>
    \/ part = "narrow" /\ Tree(Narrow)!Next
       /\ UNCHANGED <<part, vars, nexusVars, resolverVars, queueVars, constantVars, valueVars>>
    \/ part = "wide" /\ Tree(Wide)!Next
       /\ UNCHANGED <<part, vars, nexusVars, resolverVars, queueVars, constantVars, valueVars>>
    \/ part = "nets" /\ NexusNext
       /\ UNCHANGED <<part, vars, treeVars, resolverVars, queueVars, constantVars, valueVars>>
    \/ part = "drivers" /\ Resolution!Next
       /\ UNCHANGED <<part, vars, treeVars, nexusVars, queueVars, constantVars, valueVars>>
    \/ part = "queues" /\ Queues!Next
       /\ UNCHANGED <<part, vars, treeVars, nexusVars, resolverVars, constantVars, valueVars>>
    \/ part = "constants" /\ Constants!Next
       /\ UNCHANGED <<part, vars, treeVars, nexusVars, resolverVars, queueVars, valueVars>>
    \/ part = "values" /\ Values4!Next
       /\ UNCHANGED <<part, vars, treeVars, nexusVars, resolverVars, queueVars, constantVars>>

StructuresSpec == StructuresInit /\ [][StructuresNext]_structuresVars

-----------------------------------------------------------------------------
(* The properties of the other parts, stated in their modules:             *)
(* the symbol table is a map (symbols.cc:126-344),                         *)
TreeIsMap ==
    /\ part = "narrow" => Tree(Narrow)!TreeIsMap
    /\ part = "wide"   => Tree(Wide)!TreeIsMap
(* a net shows what all its drivers give (resolv.cc:129-264),              *)
ResolvesRight == part = "drivers" => Resolution!ResolvesRight
(* queues keep their order and their statistics (sys_queue.c:60-109,       *)
(* 215-337, 360-459, 714-797),                                             *)
QueueRight == part = "queues" => Queues!QueueRight
(* a constant expression has the right value (verinum.cc:646-742,          *)
(* 826-1565, eval_tree.cc:134-238, 318-671, 1019-1119),                     *)
ConstantsRight == part = "constants" => Constants!ConstantsRight
(* and so has an operation of the run time (vvp_net.cc:838-1945,           *)
(* vthread.cc:2405-2689, arith.cc:173-900).                                 *)
VectorsRight == part = "values" => Values4!VectorsRight
=============================================================================
