------------------------------- MODULE BssMgr -------------------------------
(***************************************************************************)
(* The analyses of a binary structure function: bss::bss::BssMgr (minpath, *)
(* mincut) and BddNode (dual, kofn, bdd_count, bdd_extract, prob, bmeas).  *)
(*                                                                         *)
(* Each is a recursion over one BDD that is held by a handle for its whole *)
(* duration and collects at most at its end, so diagrams are values here   *)
(* (see Diagrams); a header is its level.  The per-call memo tables only   *)
(* avoid repetition and are left out.  bdd_extract returns an iterator     *)
(* whose state is modelled pop by pop.                                     *)
(*                                                                         *)
(* Probabilities are exact: the number v stands for v / Unit.              *)
(***************************************************************************)
EXTENDS Diagrams, SequencesExt

CONSTANTS
  Variables,   \* number of variables; their levels are 0 .. Variables - 1
  Structures,  \* the BDDs a client asks about
  Lists,       \* lists of BDDs given to kofn
  Reliability, \* functions level -> probability, in units of 1 / Denominator
  Denominator

ASSUME BssConstants == Variables \in Nat /\ Denominator \in Nat \ {0}

VARIABLES
  phi,       \* the structure function
  answer,    \* the call just made and what it returned
  it         \* the path iterator

bssvars == <<phi, answer, it>>

NoAnswer == [call |-> "", args |-> <<>>, value |-> Nothing]

Levels == 0 .. Variables - 1
Unit == Denominator ^ Variables

Level(d) == IF IsInner(d) THEN Header(d) ELSE -1
Cofactor0(d, l) == IF Level(d) = l THEN Low(d) ELSE d
Cofactor1(d, l) == IF Level(d) = l THEN High(d) ELSE d

(* The engine's ite and and, which BddApply models step by step.           *)
RECURSIVE Ite(_, _, _), And(_, _)
Ite(f, g, h) ==
  IF f = One THEN g
  ELSE IF f = Zero THEN h
  ELSE IF g = h THEN g
  ELSE LET l == Max({Level(f), Level(g), Level(h)})
       IN BddNode(l, Ite(Cofactor0(f, l), Cofactor0(g, l), Cofactor0(h, l)),
                     Ite(Cofactor1(f, l), Cofactor1(g, l), Cofactor1(h, l)))

And(f, g) ==
  IF f = One \/ f = g THEN g
  ELSE IF g = One THEN f
  ELSE IF Zero \in {f, g} THEN Zero
  ELSE LET l == Max({Level(f), Level(g)})
       IN BddNode(l, And(Cofactor0(f, l), Cofactor0(g, l)),
                     And(Cofactor1(f, l), Cofactor1(g, l)))

----------------------------------------------------------------------------
(* dual and kofn.                                                          *)

RECURSIVE Dual(_)

Dual(d) ==
  IF IsInner(d) THEN BddNode(Level(d), Dual(High(d)), Dual(Low(d)))
  ELSE IF d = Zero THEN One ELSE Zero

RECURSIVE KofN(_, _)

(* Mutant: k nodes left are not enough.                                    *)
KofNShort(k, nodes) ==
  IF k = 0 THEN One
  ELSE IF k >= Len(nodes) THEN Zero
  ELSE Ite(Head(nodes), KofN(k - 1, Tail(nodes)), KofN(k, Tail(nodes)))

KofN(k, nodes) ==
  IF k = 0 THEN One
  ELSE IF k > Len(nodes) THEN Zero
  ELSE Ite(Head(nodes), KofN(k - 1, Tail(nodes)), KofN(k, Tail(nodes)))

----------------------------------------------------------------------------
(* minsol: a family of sets, kept in the BDD arena but read as a ZDD.      *)

RECURSIVE Without(_, _), Minsol(_)

(* Mutant: the family {{}} is expanded along both branches of g.           *)
WithoutExpanding(f, g) ==
  IF f = Zero THEN Zero
  ELSE IF g = Zero THEN f
  ELSE IF g = One THEN Zero
  ELSE IF f = One THEN BddNode(Level(g), Without(f, Low(g)), Without(f, High(g)))
  ELSE IF Level(f) < Level(g) THEN Without(f, Low(g))
  ELSE IF f = g THEN Zero
  ELSE LET l == Level(f)
       IN BddNode(l, Without(Low(f), Cofactor0(g, l)), Without(High(f), Cofactor1(g, l)))

(* The sets of f that do not satisfy g.  A set of f has no element above   *)
(* f's level, so g is then restricted to its low branch.                   *)
Without(f, g) ==
  IF f = Zero THEN Zero
  ELSE IF g = Zero THEN f
  ELSE IF g = One THEN Zero
  ELSE IF Level(f) < Level(g) THEN Without(f, Low(g))
  ELSE IF f = g THEN Zero
  ELSE LET l == Level(f)
       IN BddNode(l, Without(Low(f), Cofactor0(g, l)), Without(High(f), Cofactor1(g, l)))

(* Nothing when the function is not monotone.                              *)
Minsol(d) ==
  IF ~ IsInner(d) THEN d
  ELSE LET low == Minsol(Low(d))
           high == Minsol(High(d))
       IN IF low = Nothing \/ high = Nothing \/ And(Low(d), High(d)) # Low(d)
            THEN Nothing
            ELSE BddNode(Level(d), low, Without(high, Low(d)))

(* to_zdd: copied node by node into the ZDD forest.                        *)
RECURSIVE ToZdd(_)
ToZdd(d) ==
  IF IsInner(d) THEN ZddNode(Level(d), ToZdd(Low(d)), ToZdd(High(d))) ELSE d

PathFamily(d) == IF Minsol(d) = Nothing THEN Nothing ELSE ToZdd(Minsol(d))

----------------------------------------------------------------------------
(* Counting and probabilities.                                             *)

Selected(d, ss) == (d = One) \in ss

RECURSIVE BddCount(_, _)

(* Mutant: the levels skipped below a node are not multiplied in.          *)
BddCountSkipping(d, ss) ==
  IF IsInner(d) THEN BddCount(Low(d), ss) + BddCount(High(d), ss)
  ELSE IF Selected(d, ss) THEN 1 ELSE 0

(* bdd_count: assignments to the variables up to d's own level.            *)
BddCount(d, ss) ==
  IF IsInner(d)
    THEN LET skipped(c) == 2 ^ (Level(d) - Level(c) - 1)
         IN skipped(Low(d)) * BddCount(Low(d), ss) + skipped(High(d)) * BddCount(High(d), ss)
    ELSE IF Selected(d, ss) THEN 1 ELSE 0

RECURSIVE Prob(_, _, _)

Prob(d, p, ss) ==
  IF IsInner(d)
    THEN ((Denominator - p[Level(d)]) * Prob(Low(d), p, ss)
            + p[Level(d)] * Prob(High(d), p, ss)) \div Denominator
    ELSE IF Selected(d, ss) THEN Unit ELSE 0

(* topological_sort: depth first, each node after its children, reversed.  *)
RECURSIVE Visit(_, _)

(* Mutant: each node before its children.                                  *)
VisitParentLast(d, seen) ==
  IF \E k \in DOMAIN seen : seen[k] = d THEN seen
  ELSE IF IsInner(d) THEN Visit(High(d), Visit(Low(d), <<d>> \o seen))
  ELSE <<d>> \o seen

Visit(d, seen) ==
  IF \E k \in DOMAIN seen : seen[k] = d THEN seen
  ELSE IF IsInner(d) THEN Append(Visit(High(d), Visit(Low(d), seen)), d)
  ELSE Append(seen, d)

TopologicalSort(d) == Reverse(Visit(d, <<>>))

(* bmeas: the weight of every node, from the root down, and the sum over a *)
(* variable's nodes of weight times difference of their children.          *)
Bmeas(d, p, ss) ==
  LET inner == {n \in NodesOf(d) : IsInner(n)}
      start == [grad |-> [n \in NodesOf(d) |-> IF n = d THEN Unit ELSE 0],
                event |-> [l \in {Level(n) : n \in inner} |-> 0]]
      share(w, q) == (w * q) \div Denominator
      pass(s, n) ==
        LET w == s.grad[n]
            q == p[Level(n)]
            gain == Prob(High(n), p, ss) - Prob(Low(n), p, ss)
        IN IF IsInner(n)
             THEN [grad |-> [s.grad EXCEPT ![Low(n)] = @ + share(w, Denominator - q),
                                           ![High(n)] = @ + share(w, q)],
                   event |-> [s.event EXCEPT ![Level(n)] = @ + (w * gain) \div Unit]]
             ELSE s
  IN FoldLeft(pass, start, TopologicalSort(d)).event

----------------------------------------------------------------------------
(* The path iterator BddPath: a stack of what is still to be done, and the *)
(* literals of the path so far.  Level -1 is "no level left".              *)

ToVisit(l, d) == <<"node", l, d>>
Choose(l, b, d) == << <<"push", <<l, b>> >>, ToVisit(l - 1, d), <<"pop">> >>

NoIteration == [stack |-> <<>>, path |-> <<>>, found |-> <<>>, ss |-> {}]

Extract(ss) ==
  /\ answer = NoAnswer /\ it = NoIteration
  /\ it' = [NoIteration EXCEPT !.stack = <<ToVisit(Level(phi), phi)>>, !.ss = ss]
  /\ UNCHANGED <<phi, answer>>

Popped == Head(it.stack)
Rest == Tail(it.stack)

(* A node at the current level branches to its children; one below it, or  *)
(* a terminal above the last level, to itself on both values.              *)
PathBranch ==
  /\ it.stack # <<>> /\ Popped[1] = "node"
  /\ LET l == Popped[2]
         d == Popped[3]
     IN /\ l >= 0
        /\ it' = [it EXCEPT !.stack = Choose(l, FALSE, Cofactor0(d, l))
                                      \o Choose(l, TRUE, Cofactor1(d, l)) \o Rest]
  /\ UNCHANGED <<phi, answer>>

(* Mutant: skipped levels are not branched on.                             *)
PathYieldEarly ==
  /\ it.stack # <<>> /\ Popped[1] = "node" /\ ~ IsInner(Popped[3])
  /\ it' = [it EXCEPT !.stack = Rest,
                      !.found = IF Selected(Popped[3], it.ss) THEN Append(@, Reverse(it.path))
                                ELSE @]
  /\ UNCHANGED <<phi, answer>>

(* A terminal when no level is left: the path is returned if selected.     *)
PathYield ==
  /\ it.stack # <<>> /\ Popped[1] = "node" /\ Popped[2] = -1
  /\ it' = [it EXCEPT !.stack = Rest,
                      !.found = IF Selected(Popped[3], it.ss) THEN Append(@, Reverse(it.path))
                                ELSE @]
  /\ UNCHANGED <<phi, answer>>

PathPush ==
  /\ it.stack # <<>> /\ Popped[1] = "push"
  /\ it' = [it EXCEPT !.stack = Rest, !.path = Append(@, Popped[2])]
  /\ UNCHANGED <<phi, answer>>

PathPop ==
  /\ it.stack # <<>> /\ Popped[1] = "pop"
  /\ it' = [it EXCEPT !.stack = Rest, !.path = Front(@)]
  /\ UNCHANGED <<phi, answer>>

----------------------------------------------------------------------------
Init ==
  /\ phi \in Structures
  /\ answer = NoAnswer
  /\ it = NoIteration

Answer(call, args, value) ==
  /\ answer = NoAnswer /\ it = NoIteration
  /\ answer' = [call |-> call, args |-> args, value |-> value]
  /\ UNCHANGED <<phi, it>>

Minpath == Answer("minpath", <<>>, PathFamily(phi))
Mincut == Answer("mincut", <<>>, PathFamily(Dual(phi)))
CallDual == Answer("dual", <<>>, Dual(phi))
CallKofN(k, nodes) == Answer("kofn", <<k, nodes>>, KofN(k, nodes))
CallCount(ss) == Answer("bdd_count", <<ss>>, BddCount(phi, ss))
CallProb(p, ss) == Answer("prob", <<p, ss>>, Prob(phi, p, ss))
CallBmeas(p, ss) == Answer("bmeas", <<p, ss>>, Bmeas(phi, p, ss))

Selections == SUBSET BOOLEAN \ {{}}

Next ==
  \/ Minpath \/ Mincut \/ CallDual
  \/ \E nodes \in Lists, k \in 0 .. Variables + 1 : CallKofN(k, nodes \o <<phi>>)
  \/ \E ss \in Selections : CallCount(ss) \/ Extract(ss)
  \/ \E p \in Reliability, ss \in Selections : CallProb(p, ss) \/ CallBmeas(p, ss)
  \/ PathBranch \/ PathYield \/ PathPush \/ PathPop

Spec == Init /\ [][Next]_bssvars
=============================================================================
