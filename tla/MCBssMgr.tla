------------------------------ MODULE MCBssMgr ------------------------------
(* Values for TLC: every function of three variables and every monotone    *)
(* function of four.                                                       *)
EXTENDS StructureAnalyses

Antichains == {A \in SUBSET SUBSET Levels : \A s, t \in A : s \subseteq t => s = t}
UpSets == {{s \in SUBSET Levels : \E t \in A : t \subseteq s} : A \in Antichains}
MCStructures ==
  {BddOf(F, 2) : F \in SUBSET SUBSET (0 .. 2)} \cup {BddOf(F, 3) : F \in UpSets}

Variable(l) == BddNode(l, Zero, One)
MCLists == {<<>>, <<Variable(0), Variable(1), Variable(3)>>, <<Variable(2), Variable(2)>>}
MCReliability == {[l \in Levels |-> l], [l \in Levels |-> <<2, 3, 0, 1>>[l + 1]]}
=============================================================================
