-------------------------- MODULE StructureAnalyses --------------------------
(***************************************************************************)
(* What the analyses of bss promise, stated on the structure function      *)
(* itself: a set of working components s satisfies phi or not.  Nothing    *)
(* here refers to how a result is computed.                                *)
(***************************************************************************)
EXTENDS BssMgr

(* Does phi work when exactly the components of s do?                      *)
RECURSIVE Works(_, _)
Works(d, s) ==
  IF IsInner(d) THEN Works(IF Level(d) \in s THEN High(d) ELSE Low(d), s) ELSE d = One

States(d) == {s \in SUBSET Levels : Works(d, s)}
Monotone(F) == \A s \in F, l \in Levels : s \cup {l} \in F
Minimal(F) == {s \in F : \A l \in s : s \ {l} \notin F}

(* The reduced diagrams of a function and of a family, by expansion.       *)
RECURSIVE BddOf(_, _), ZddOf(_, _)
Without1(F, l) == {s \in F : l \notin s}
With1(F, l) == {s \ {l} : s \in {t \in F : l \in t}}
BddOf(F, l) ==
  IF l < 0 THEN (IF F = {} THEN Zero ELSE One)
  ELSE BddNode(l, BddOf(Without1(F, l), l - 1), BddOf(With1(F, l), l - 1))
ZddOf(F, l) ==
  IF l < 0 THEN (IF F = {} THEN Zero ELSE One)
  ELSE ZddNode(l, ZddOf(Without1(F, l), l - 1), ZddOf(With1(F, l), l - 1))

Top == Variables - 1
Called(call) == answer.call = call

(* minpath and mincut are Nothing exactly on non-monotone functions;       *)
(* otherwise they are the reduced diagrams of the minimal path sets and of *)
(* the minimal sets of components whose failure fails the system, although *)
(* they are computed in an arena with the other reduction rule and one     *)
(* node at a time.                                                         *)
Cuts == {s \in SUBSET Levels : ~ Works(phi, Levels \ s)}
Solutions(F) == IF Monotone(States(phi)) THEN ZddOf(Minimal(F), Top) ELSE Nothing

MinimalExact ==
  /\ Called("minpath") => answer.value = Solutions(States(phi))
  /\ Called("mincut") => answer.value = Solutions(Cuts)

(* dual is the complement of phi on complemented components, reduced; kofn *)
(* is true exactly where at least k of the given functions are.            *)
Enough(k, nodes, s) == Cardinality({n \in DOMAIN nodes : Works(nodes[n], s)}) >= k

TransformsExact ==
  /\ Called("dual") => answer.value = BddOf(Cuts, Top)
  /\ Called("kofn") =>
       answer.value =
         BddOf({s \in SUBSET Levels : Enough(answer.args[1], answer.args[2], s)}, Top)

(* bdd_count counts the assignments to the variables up to the root's.     *)
Wanted(ss) == {s \in SUBSET (0 .. Level(phi)) : Works(phi, s) \in ss}
CountExact == Called("bdd_count") => answer.value = Cardinality(Wanted(answer.args[1]))

(* The iterator returns every such assignment once, complete and in level  *)
(* order, and then ends.                                                   *)
Literals(s) == [k \in 1 .. Level(phi) + 1 |-> <<k - 1, k - 1 \in s>>]
PathsExact ==
  LET wanted == {Literals(s) : s \in Wanted(it.ss)}
  IN /\ Range(it.found) \subseteq wanted
     /\ Cardinality(Range(it.found)) = Len(it.found)
     /\ it.stack = <<>> => Range(it.found) = IF it = NoIteration THEN {} ELSE wanted

(* prob is the probability that phi is in a selected state, component by  *)
(* component independent; bmeas is Birnbaum's importance of every variable *)
(* phi depends on, the difference between phi with the component working   *)
(* and failed.                                                             *)
Weight(p, s) ==
  FoldFunction(LAMBDA a, b : a * b, 1, [l \in Levels |-> IF l \in s THEN p[l] ELSE Denominator - p[l]])
Expected(p, ss) == MapThenSumSet(LAMBDA s : Weight(p, s), {s \in SUBSET Levels : Works(phi, s) \in ss})
Importance(p, ss, l) ==
  Expected([p EXCEPT ![l] = Denominator], ss) - Expected([p EXCEPT ![l] = 0], ss)

ReliabilityExact ==
  /\ Called("prob") => answer.value = Expected(answer.args[1], answer.args[2])
  /\ Called("bmeas") =>
       \A l \in DOMAIN answer.value :
          answer.value[l] = Importance(answer.args[1], answer.args[2], l)
=============================================================================
