------------------------------- MODULE MssMgr -------------------------------
(***************************************************************************)
(* The analyses of a multi-state structure function: mss::mss::MssMgr      *)
(* (minpath, mincut), mss::mdd::MddNode (mdd_count, mdd_extract, prob,     *)
(* bmeas) and the families of vectors of mss::zmdd::ZmddNode.              *)
(*                                                                         *)
(* As in BssMgr, diagrams are values, a header is its level, and per-call  *)
(* memo tables are left out, but for the one of the Boolean count, whose   *)
(* key is coarser than what its entries depend on.  Iterators are given by *)
(* the sequence they return.                                               *)
(*                                                                         *)
(* A structure function is <<d, bool>>: its diagram, without Undet, and    *)
(* whether it lives in the Boolean forest.  A family is <<d, cut>>.        *)
(***************************************************************************)
EXTENDS MultiDiagrams, FiniteSets, FiniteSetsExt, TLC

CONSTANTS
  States,       \* number of states of each variable, by level
  Structures,   \* the structure functions a client asks about
  Others,       \* functions whose families meet those of the first
  Reliability,  \* functions level -> list of probabilities, one per state
  Denominator,  \* probabilities are in units of 1 / Denominator
  Values,       \* levels of performance a client asks about
  Selections    \* sets of values a client selects by

Levels == DOMAIN States

ASSUME MssConstants ==
  /\ Levels = 0 .. Cardinality(Levels) - 1 /\ Levels # {}
  /\ \A l \in Levels : States[l] \in Nat \ {0, 1}
  /\ Denominator \in Nat \ {0}

VARIABLES
  phi,      \* the structure function
  family,   \* a family made from it, or Nothing
  answer    \* the call just made and what it returned

mssvars == <<phi, family, answer>>

NoAnswer == [call |-> ""]
Unit == Denominator ^ Cardinality(Levels)

----------------------------------------------------------------------------
(* minsol and maxsol.  up is TRUE for maxsol, whose vectors deviate from   *)
(* the top state of every variable instead of state 0.                     *)

(* min of the value forest, and of the Boolean forest, where neither       *)
(* operand has an undetermined value.                                      *)
RECURSIVE Meet(_, _)
Meet(f, g) ==
  IF IsTerminal(f) /\ IsTerminal(g) THEN Terminal(Min({f[1], g[1]}))
  ELSE LET l == Max({Level(f), Level(g)})
           part(d, i) == IF Level(d) = l THEN Edges(d)[i] ELSE d
       IN MddNode(l, [i \in 1 .. States[l] |-> Meet(part(f, i), part(g, i))])

(* The edge of a variable that deviates from nothing.                      *)
Base(d, up) == IF up THEN Last(Edges(d)) ELSE Head(Edges(d))

RECURSIVE VRemove(_, _, _), BRemove(_, _, _)

(* The vectors of family g that f does not map to their own label.  One    *)
(* with no variable at f's level is at the base there.                     *)
VRemove(f, g, up) ==
  IF f = Undet THEN g
  ELSE IF g = Undet \/ (IsTerminal(g) /\ f = g) THEN Undet
  ELSE IF IsTerminal(f) /\ IsTerminal(g) THEN g
  ELSE IF Level(f) > Level(g) THEN VRemove(Base(f, up), g, up)
  ELSE LET part(i) == IF Level(f) = Level(g) THEN Edges(f)[i] ELSE f
       IN MddNode(Level(g), [i \in DOMAIN Edges(g) |-> VRemove(part(i), Edges(g)[i], up)])

(* In the Boolean forest every member of a family has the label One: a     *)
(* path is removed where f is One, a cut where f is Zero.                  *)
BRemove(f, g, up) ==
  IF f \in {Undet, IF up THEN One ELSE Zero} THEN g
  ELSE IF IsTerminal(f) \/ g \in {Undet, Zero} THEN Undet
  ELSE IF Level(f) > Level(g) THEN BRemove(Base(f, up), g, up)
  ELSE LET part(i) == IF Level(f) = Level(g) THEN Edges(f)[i] ELSE f
       IN MddNode(Level(g), [i \in DOMAIN Edges(g) |-> BRemove(part(i), Edges(g)[i], up)])

Vwithout(f, g) == VRemove(f, g, FALSE)
Vupwithout(f, g) == VRemove(f, g, TRUE)
Bwithout(f, g) == BRemove(f, g, FALSE)

(* Mutant: the mirror image is taken of the edges but not of the terminals.*)
BupwithoutHalf(f, g) ==
  IF f \in {Undet, Zero} THEN g
  ELSE IF IsTerminal(f) \/ g \in {Undet, Zero} THEN Undet
  ELSE BRemove(f, g, TRUE)

Bupwithout(f, g) == BRemove(f, g, TRUE)

Subtract(f, g, bool, up) ==
  IF bool THEN (IF up THEN Bupwithout(f, g) ELSE Bwithout(f, g))
  ELSE IF up THEN Vupwithout(f, g) ELSE Vwithout(f, g)

(* A leaf of the Boolean forest as a family: {the base vector}, or empty.  *)
PathLeaf(d) == IF d = One THEN One ELSE Undet
CutLeaf(d) == IF d = Zero THEN One ELSE Undet

Ascending(edges) == \A i \in 2 .. Len(edges) : Meet(edges[i - 1], edges[i]) = edges[i - 1]

(* Nothing when the function is not monotone.                              *)
RECURSIVE Solutions(_, _, _)
Solutions(d, bool, up) ==
  IF ~ IsInner(d)
    THEN IF bool THEN (IF up THEN CutLeaf(d) ELSE PathLeaf(d)) ELSE d
    ELSE LET edges == Edges(d)
             base == IF up THEN Len(edges) ELSE 1
             nearer(i) == IF up THEN edges[i + 1] ELSE edges[i - 1]
             solved == [i \in DOMAIN edges |-> Solutions(edges[i], bool, up)]
         IN IF ~ Ascending(edges) \/ \E i \in DOMAIN edges : solved[i] = Nothing
              THEN Nothing
              ELSE MddNode(Level(d), [i \in DOMAIN edges |->
                     IF i = base THEN solved[i] ELSE Subtract(nearer(i), solved[i], bool, up)])

Minsol(p) == Solutions(p[1], p[2], FALSE)
Maxsol(p) == Solutions(p[1], p[2], TRUE)

----------------------------------------------------------------------------
(* minpath and mincut: the solutions copied into the ZMDD forest, those of *)
(* maxsol with their edges reversed, so that edge 0 is the base there too. *)

RECURSIVE ToZmdd(_, _, _)
ToZmdd(d, bool, reverse) ==
  IF IsInner(d)
    THEN LET edges == [i \in DOMAIN Edges(d) |-> ToZmdd(Edges(d)[i], bool, reverse)]
         IN ZmddNode(Level(d), IF reverse THEN Reverse(edges) ELSE edges)
    ELSE IF d = Undet \/ (bool /\ d = Zero) THEN Undet
    ELSE IF bool THEN (IF reverse THEN Zero ELSE One)
    ELSE d

(* The vector that deviates nowhere is put in, unless it has a label.      *)
RECURSIVE SetBaseline(_, _)
SetBaseline(d, v) ==
  IF IsInner(d) THEN ZmddNode(Level(d), [Edges(d) EXCEPT ![1] = SetBaseline(@, v)])
  ELSE IF d = Undet THEN Terminal(v)
  ELSE d

(* phi at the vector of all lowest, or all highest, states.                *)
RECURSIVE EvalExtreme(_, _)
EvalExtreme(d, top) ==
  IF IsInner(d) THEN EvalExtreme(Base(d, top), top) ELSE IF d = Undet THEN 0 ELSE d[1]

PathFamily(p) ==
  IF Minsol(p) = Nothing THEN Nothing
  ELSE <<SetBaseline(ToZmdd(Minsol(p), p[2], FALSE), EvalExtreme(p[1], FALSE)), FALSE>>

CutFamily(p) ==
  IF Maxsol(p) = Nothing THEN Nothing
  ELSE <<SetBaseline(ToZmdd(Maxsol(p), p[2], TRUE), EvalExtreme(p[1], TRUE)), TRUE>>

----------------------------------------------------------------------------
(* Reading a family.                                                       *)

Baseline(cut) == [l \in Levels |-> IF cut THEN States[l] - 1 ELSE 0]

(* The state that edge i of an n-state variable stands for.                *)
StateOf(i, n, cut) == IF cut THEN n - i ELSE i - 1

RECURSIVE Walk(_, _, _, _)
Walk(d, path, cut, ss) ==
  IF IsInner(d)
    THEN LET n == Len(Edges(d))
             along(i) == IF i = 1 THEN path ELSE [path EXCEPT ![Level(d)] = StateOf(i, n, cut)]
         IN FlattenSeq([i \in 1 .. n |-> Walk(Edges(d)[i], along(i), cut, ss)])
    ELSE IF d # Undet /\ d[1] \in ss THEN <<path>> ELSE <<>>

Extract(fam, ss) == Walk(fam[1], Baseline(fam[2]), fam[2], ss)

Labels(fam) == {d[1] : d \in {n \in NodesOf(fam[1]) : IsTerminal(n)}}

Below(x, y) == \A l \in Levels : x[l] <= y[l]

(* Mutant: the dominated vectors of nearer strata are kept.                *)
ExtractLevelUnfiltered(fam, v) ==
  Extract(fam, {w \in Labels(fam) : IF fam[2] THEN w <= v ELSE w >= v})

ExtractLevel(fam, v) ==
  LET found == Extract(fam, {w \in Labels(fam) : IF fam[2] THEN w <= v ELSE w >= v})
      dominates(y, x) == y # x /\ IF fam[2] THEN Below(x, y) ELSE Below(y, x)
  IN SelectSeq(found, LAMBDA x : \A k \in DOMAIN found : ~ dominates(found[k], x))

RECURSIVE ZmddCount(_, _)
ZmddCount(d, ss) ==
  IF IsInner(d) THEN FoldLeft(LAMBDA n, e : n + ZmddCount(e, ss), 0, Edges(d))
  ELSE IF d # Undet /\ d[1] \in ss THEN 1 ELSE 0

(* Set operations, label by label.  The operand without a variable has it  *)
(* at its base.                                                            *)
RECURSIVE Intersect(_, _), Setdiff(_, _)
Intersect(f, g) ==
  IF Undet \in {f, g} THEN Undet
  ELSE IF IsTerminal(f) /\ IsTerminal(g) THEN (IF f = g THEN f ELSE Undet)
  ELSE IF Level(f) > Level(g) THEN Intersect(Edges(f)[1], g)
  ELSE IF Level(f) < Level(g) THEN Intersect(f, Edges(g)[1])
  ELSE ZmddNode(Level(f), [i \in DOMAIN Edges(f) |-> Intersect(Edges(f)[i], Edges(g)[i])])

(* Mutant: g is subtracted from every branch of f.                         *)
SetdiffEverywhere(f, g) ==
  IF f = Undet \/ (IsTerminal(f) /\ f = g) THEN Undet
  ELSE IF g = Undet \/ (IsTerminal(f) /\ IsTerminal(g)) THEN f
  ELSE IF Level(f) < Level(g) THEN Setdiff(f, Edges(g)[1])
  ELSE LET part(i) == IF Level(f) = Level(g) THEN Edges(g)[i] ELSE g
       IN ZmddNode(Level(f), [i \in DOMAIN Edges(f) |-> Setdiff(Edges(f)[i], part(i))])

Setdiff(f, g) ==
  IF f = Undet \/ (IsTerminal(f) /\ f = g) THEN Undet
  ELSE IF g = Undet \/ (IsTerminal(f) /\ IsTerminal(g)) THEN f
  ELSE IF Level(f) < Level(g) THEN Setdiff(f, Edges(g)[1])
  ELSE IF Level(f) > Level(g)
    THEN ZmddNode(Level(f), [Edges(f) EXCEPT ![1] = Setdiff(@, g)])
  ELSE ZmddNode(Level(f), [i \in DOMAIN Edges(f) |-> Setdiff(Edges(f)[i], Edges(g)[i])])

----------------------------------------------------------------------------
(* Counting and enumerating the vectors whose value is selected.           *)

Selected(d, ss) == d # Undet /\ d[1] \in ss

RECURSIVE Vectors(_, _, _, _)
Vectors(d, l, path, ss) ==
  IF l > Level(d) /\ d # Undet
    THEN FlattenSeq([i \in 1 .. States[l] |-> Vectors(d, l - 1, [path EXCEPT ![l] = i - 1], ss)])
  ELSE IF IsInner(d)
    THEN FlattenSeq([i \in 1 .. States[l] |->
           Vectors(Edges(d)[i], l - 1, [path EXCEPT ![l] = i - 1], ss)])
  ELSE IF Selected(d, ss) THEN <<path>> ELSE <<>>

MddExtract(d, ss) == Vectors(d, Level(d), [l \in 0 .. Level(d) |-> 0], ss)

RECURSIVE VmddCount(_, _, _)

(* Mutant: the levels skipped below a node are not counted.                *)
VmddCountSkipping(d, l, ss) ==
  IF IsInner(d)
    THEN FoldLeft(LAMBDA n, e : n + VmddCount(e, Level(d) - 1, ss), 0, Edges(d))
  ELSE IF Selected(d, ss) THEN 1 ELSE 0

VmddCount(d, l, ss) ==
  IF l > Level(d) /\ d # Undet THEN States[l] * VmddCount(d, l - 1, ss)
  ELSE IF IsInner(d)
    THEN FoldLeft(LAMBDA n, e : n + VmddCount(e, l - 1, ss), 0, Edges(d))
  ELSE IF Selected(d, ss) THEN 1 ELSE 0

(* The Boolean count, with its memo table <<count, memo>>: it is looked up *)
(* by node only, although the count also depends on the level.             *)
RECURSIVE BmddCount(_, _, _, _)
BmddCount(d, l, ss, memo) ==
  IF d \in DOMAIN memo THEN <<memo[d], memo>>
  ELSE LET down(acc, e) ==
             LET r == BmddCount(e, l - 1, ss, acc[2]) IN <<acc[1] + r[1], r[2]>>
           found ==
             IF l > Level(d) /\ d # Undet
               THEN LET r == BmddCount(d, l - 1, ss, memo) IN <<States[l] * r[1], r[2]>>
             ELSE IF IsInner(d) THEN FoldLeft(down, <<0, memo>>, Edges(d))
             ELSE <<IF Selected(d, ss) THEN 1 ELSE 0, memo>>
       IN <<found[1], (d :> found[1]) @@ found[2]>>

MddCount(p, ss) ==
  IF ~ IsInner(p[1]) THEN 1
  ELSE IF p[2] THEN BmddCount(p[1], Level(p[1]), ss, <<>>)[1]
  ELSE VmddCount(p[1], Level(p[1]), ss)

----------------------------------------------------------------------------
(* Probabilities; the number v stands for v / Unit.                        *)

RECURSIVE Prob(_, _, _)
Prob(d, pv, ss) ==
  IF IsInner(d)
    THEN LET term(i) == pv[Level(d)][i] * Prob(Edges(d)[i], pv, ss)
         IN FoldLeft(LAMBDA n, i : n + term(i), 0, [i \in DOMAIN Edges(d) |-> i]) \div Denominator
    ELSE IF Selected(d, ss) THEN Unit ELSE 0

(* Every node after its children; the parents come first in the reverse.   *)
RECURSIVE Postorder(_, _)
Postorder(d, order) ==
  IF \E k \in DOMAIN order : order[k] = d THEN order
  ELSE IF IsInner(d)
    THEN Append(FoldLeft(LAMBDA o, e : Postorder(e, o), order, Edges(d)), d)
  ELSE Append(order, d)

RECURSIVE AddWeights(_, _, _, _)

(* Mutant: a node's weight is that of its last parent only.                *)
AddWeightsLast(grad, d, p, i) ==
  IF i > Len(Edges(d)) THEN grad
  ELSE AddWeights([grad EXCEPT ![Edges(d)[i]] = (grad[d] * p[i]) \div Denominator],
                  d, p, i + 1)

(* Edge by edge: an edge may lead to the same node as an earlier one.      *)
AddWeights(grad, d, p, i) ==
  IF i > Len(Edges(d)) THEN grad
  ELSE AddWeights([grad EXCEPT ![Edges(d)[i]] = @ + (grad[d] * p[i]) \div Denominator],
                  d, p, i + 1)

Bmeas(root, pv, ss) ==
  LET start == [grad |-> [n \in NodesOf(root) |-> IF n = root THEN Unit ELSE 0],
                event |-> [l \in {Level(n) : n \in {m \in NodesOf(root) : IsInner(m)}} |->
                             [j \in 1 .. States[l] - 1 |-> 0]]]
      gain(d, j) == Prob(Edges(d)[j + 1], pv, ss) - Prob(Edges(d)[j], pv, ss)
      pass(s, d) ==
        IF ~ IsInner(d) THEN s
        ELSE [grad |-> AddWeights(s.grad, d, pv[Level(d)], 1),
              event |-> [s.event EXCEPT ![Level(d)] =
                [j \in DOMAIN @ |-> @[j] + (s.grad[d] * gain(d, j)) \div Unit]]]
  IN FoldLeft(pass, start, Reverse(Postorder(root, <<>>))).event

----------------------------------------------------------------------------
Init ==
  /\ phi \in Structures
  /\ family = Nothing
  /\ answer = NoAnswer

Make(call, fam) ==
  /\ family = Nothing /\ answer = NoAnswer
  /\ family' = fam
  /\ answer' = [call |-> call]
  /\ UNCHANGED phi

Minpath == Make("minpath", PathFamily(phi))
Mincut == Make("mincut", CutFamily(phi))

Ask(call, arg, value) ==
  /\ answer' = [call |-> call, arg |-> arg, value |-> value]
  /\ UNCHANGED <<phi, family>>

Made == answer.call \in {"minpath", "mincut"} /\ family # Nothing

CallExtract(ss) == Made /\ Ask("extract", ss, Extract(family, ss))
CallExtractLevel(v) == Made /\ Ask("extract_level", v, ExtractLevel(family, v))
CallZmddCount(ss) == Made /\ Ask("count", ss, ZmddCount(family[1], ss))

(* With a family of the same kind: of paths, or of cuts.                   *)
Meeting(other) == IF family[2] THEN CutFamily(other) ELSE PathFamily(other)

CallIntersect(other) ==
  /\ Made /\ Meeting(other) # Nothing
  /\ Ask("intersect", Meeting(other), <<Intersect(family[1], Meeting(other)[1]), family[2]>>)

CallSetdiff(other) ==
  /\ Made /\ Meeting(other) # Nothing
  /\ Ask("setdiff", Meeting(other), <<Setdiff(family[1], Meeting(other)[1]), family[2]>>)

Fresh == family = Nothing /\ answer = NoAnswer

CallMddCount(ss) == Fresh /\ Ask("mdd_count", ss, MddCount(phi, ss))
CallMddExtract(ss) == Fresh /\ Ask("mdd_extract", ss, MddExtract(phi[1], ss))
CallProb(pv, ss) == Fresh /\ Ask("prob", <<pv, ss>>, Prob(phi[1], pv, ss))
CallBmeas(pv, ss) == Fresh /\ Ask("bmeas", <<pv, ss>>, Bmeas(phi[1], pv, ss))

Next ==
  \/ Minpath \/ Mincut
  \/ \E ss \in Selections :
       CallExtract(ss) \/ CallZmddCount(ss) \/ CallMddCount(ss) \/ CallMddExtract(ss)
  \/ \E v \in Values : CallExtractLevel(v)
  \/ \E other \in Others : CallIntersect(other) \/ CallSetdiff(other)
  \/ \E pv \in Reliability, ss \in Selections : CallProb(pv, ss) \/ CallBmeas(pv, ss)

Spec == Init /\ [][Next]_mssvars
=============================================================================
