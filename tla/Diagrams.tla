------------------------------ MODULE Diagrams ------------------------------
(***************************************************************************)
(* Reduced diagrams as values.  Hash-consing makes a node id of the arena  *)
(* stand for the diagram below it (Canonical in BddForest), so for an      *)
(* operation that keeps every diagram it uses alive an id can be replaced  *)
(* by the diagram itself: a terminal, or a header with two diagrams.       *)
(***************************************************************************)
EXTENDS Integers, Sequences, FiniteSets, FiniteSetsExt

Zero == <<0>>
One == <<1>>
Undet == <<2>>
Nothing == <<>>         \* Option::None where a diagram is expected

IsInner(d) == Len(d) = 3
Header(d) == d[1]
Low(d) == d[2]
High(d) == d[3]

(* create_node: the BDD drops a node with equal children, the ZDD a node   *)
(* with the high child Zero.                                               *)
BddNode(h, lo, hi) == IF lo = hi THEN lo ELSE <<h, lo, hi>>
ZddNode(h, lo, hi) == IF hi = Zero THEN lo ELSE <<h, lo, hi>>

(* Every node of a diagram, terminals included.                            *)
RECURSIVE NodesOf(_)
NodesOf(d) == {d} \cup IF IsInner(d) THEN NodesOf(Low(d)) \cup NodesOf(High(d)) ELSE {}
=============================================================================
