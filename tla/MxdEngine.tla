----------------------------- MODULE MxdEngine -----------------------------
(***************************************************************************)
(* The engine of mxdcore in the steps it is made of: whatever an operation *)
(* does to the forest is a sequence of these, and a collection is run step *)
(* by step between two operations.                                         *)
(***************************************************************************)
EXTENDS MxdArena

CONSTANT Domain      \* numbers of states a variable may be declared with

ASSUME DomainAssumption == Domain \subseteq Nat \ {0}

VARIABLES
  forest,     \* MxdManager
  marked,     \* gc: the slots found live so far
  grey        \* gc: its stack

tracing == <<marked, grey>>
engine == <<forest, marked, grey>>

Idle == marked = {} /\ grey = {}

EngineInit == forest = NewForest /\ marked = {} /\ grey = {}

----------------------------------------------------------------------------
(* gc: mark, then sweep.  The order in which the stack is visited does not *)
(* matter, so one step handles all of it.                                  *)

(* A root beyond the arena `a` is ignored.                                 *)
StartMark(a, roots) ==
  /\ Idle
  /\ grey' = Terminals \cup (roots \cap Slots(a))
  /\ marked' = {}

Mark ==
  /\ grey # {}
  /\ marked' = marked \cup grey
  /\ grey' = (UNION {Kids(forest, i) : i \in grey}) \ (marked \cup grey)
  /\ UNCHANGED forest

Sweep ==
  /\ grey = {} /\ marked # {}
  /\ forest' = Swept(forest, marked)
  /\ marked' = {}
  /\ UNCHANGED grey

----------------------------------------------------------------------------
(* The steps of an operation.  Children are what earlier steps returned:   *)
(* slots in use, of the kind and below the level of the node.              *)

Usable(k, l) == {i \in Live(forest) : Fits(forest, i, k, l)}

Declare(n) == forest' = DefVar(forest, n)

CreateSetNode(l, children) == forest' = SetNode(forest, l, children)[2]

CreateRelNode(l, block) == forest' = RelNode(forest, l, block)[2]

FullRelation(l) ==
  /\ l > 0 => l - 1 \in DOMAIN forest.full
  /\ forest' = FullStep(forest, l)

CachePut(key, i) == forest' = Remember(forest, key, i)

EngineStep ==
  /\ Idle
  /\ UNCHANGED tracing
  /\ \/ \E n \in Domain : Declare(n)
     \/ \E l \in Levels(forest) :
          \/ \E children \in [States(forest, l) -> Usable("set", l)] : CreateSetNode(l, children)
          \/ \E block \in [Cells(forest, l) -> Usable("rel", l)] : CreateRelNode(l, block)
          \/ FullRelation(l)
     \/ \E f, g, i \in Live(forest) :
          \/ \E op \in SetOp : CachePut(<<op, f, g>>, i)
          \/ \E op \in RelOp, l \in Levels(forest) : CachePut(<<op, f, g, l>>, i)
     \/ forest' = ClearCache(forest)

EngineNext ==
  \/ EngineStep
  \/ \E roots \in SUBSET Live(forest) : StartMark(forest, roots) /\ UNCHANGED forest
  \/ Mark
  \/ Sweep

EngineSpec == EngineInit /\ [][EngineNext]_engine

----------------------------------------------------------------------------
(* What holds between any two steps.                                       *)

(* The arena is well-formed, reduced by the rule of each kind, hash-consed,*)
(* and no memo of it names a slot that a collection has taken away, however*)
(* sets, relations, declarations and collections alternate.                *)
ArenaInv == ArenaOK(forest)

(* While a collection marks, what is in use and has been reached leads only*)
(* to what has been or will be reached.                                    *)
TraceInv ==
  /\ marked \cup grey \subseteq Live(forest)
  /\ marked # {} => Terminals \subseteq marked
  /\ grey # {} => Terminals \subseteq marked \cup grey
  /\ \A i \in marked : Kids(forest, i) \subseteq marked \cup grey

(* Between two steps a slot in use keeps its node until it is swept, and a *)
(* sweep changes no node.                                                  *)
NodesKept ==
  [][\A i \in Live(forest) \cap Live(forest') : At(forest', i) = At(forest, i)]_engine
=============================================================================
