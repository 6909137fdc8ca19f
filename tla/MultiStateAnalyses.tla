-------------------------- MODULE MultiStateAnalyses --------------------------
(***************************************************************************)
(* What the analyses of mss promise, stated on the structure function      *)
(* itself: a map from state vectors to values.  Nothing here refers to how *)
(* a result is computed.                                                   *)
(***************************************************************************)
EXTENDS MssMgr

Space(levels) ==
  {x \in [levels -> 0 .. Max({States[l] : l \in Levels}) - 1] : \A l \in levels : x[l] < States[l]}
Everything == Space(Levels)

(* The value of phi at a vector of states.                                 *)
RECURSIVE ValueAt(_, _)
ValueAt(d, x) == IF IsInner(d) THEN ValueAt(Edges(d)[x[Level(d)] + 1], x) ELSE d[1]
Phi(x) == ValueAt(phi[1], x)

Improved(x, l) == [x EXCEPT ![l] = @ + 1]
Monotone(d) ==
  \A x \in Everything, l \in Levels :
    x[l] + 1 < States[l] => ValueAt(d, x) <= ValueAt(d, Improved(x, l))

Minimal(S) == {x \in S : \A y \in S : Below(y, x) => y = x}
Maximal(S) == {x \in S : \A y \in S : Below(x, y) => y = x}
Extreme(S, cut) == IF cut THEN Maximal(S) ELSE Minimal(S)

(* The sequence returns every member of S once.                            *)
Enumerates(s, S) == Range(s) = S /\ Len(s) = Cardinality(S)

Called(call) == answer.call = call

(* The vectors a family holds, each with the label it is filed under.      *)
Members(fam) == UNION {{<<x, v>> : x \in Range(Extract(fam, {v}))} : v \in Labels(fam)}
Filed(S, cut) ==
  UNION {{<<x, v>> : x \in Extreme({y \in S : Phi(y) = v}, cut)} : v \in {Phi(x) : x \in S}}
IsFamily(fam, S) ==
  /\ Members(fam) = S
  /\ Len(Extract(fam, Labels(fam))) = Cardinality(S)

(* minpath and mincut are Nothing exactly on functions that are not        *)
(* monotone, and otherwise hold, once each and under its own value, every  *)
(* vector that is minimal, or maximal, among those of its value, although  *)
(* mincut stores its family with every variable's states reversed.         *)
Solved(cut) ==
  IF Monotone(phi[1]) THEN family # Nothing /\ IsFamily(family, Filed(Everything, cut))
  ELSE family = Nothing

MinimalExact ==
  /\ Called("minpath") => Solved(FALSE)
  /\ Called("mincut") => Solved(TRUE)

(* extract_level is the classical reading: the minimal vectors of value at *)
(* least v, or the maximal ones of value at most v, wherever they are      *)
(* filed and whether or not v is a value of phi.                           *)
LevelExact ==
  Called("extract_level") =>
    LET v == answer.arg
        cut == family[2]
        side == {x \in Everything : IF cut THEN Phi(x) <= v ELSE Phi(x) >= v}
    IN Enumerates(answer.value, Extreme(side, cut))

(* intersect and setdiff keep a vector by whether the other family files   *)
(* it under the same label, and count counts what extract enumerates.      *)
SetOpsExact ==
  /\ Called("intersect") =>
       IsFamily(answer.value, Members(family) \cap Members(answer.arg))
  /\ Called("setdiff") =>
       IsFamily(answer.value, Members(family) \ Members(answer.arg))
  /\ Called("count") => answer.value = Len(Extract(family, answer.arg))

(* mdd_extract returns once every vector over the variables up to the      *)
(* root's whose value is selected, and mdd_count of a value function that  *)
(* is not constant is their number.                                        *)
Wanted(ss) == {x \in Space(0 .. Level(phi[1])) : Phi(x) \in ss}
CountExact ==
  /\ Called("mdd_extract") => Enumerates(answer.value, Wanted(answer.arg))
  /\ Called("mdd_count") /\ ~ phi[2] /\ IsInner(phi[1]) =>
       answer.value = Cardinality(Wanted(answer.arg))

(* "count satisfying assignments, or enumerate paths"                      *)
(* (docs/developer-guide.md:139-140): mdd_count is that number.            *)
MddCountExact == Called("mdd_count") => answer.value = Cardinality(Wanted(answer.arg))

(* prob is the probability of the selected values, component by component  *)
(* independent; bmeas is its change between adjacent states, for exactly   *)
(* the variables phi depends on.                                           *)
Weight(pv, x) == FoldFunction(LAMBDA a, b : a * b, 1, [l \in Levels |-> pv[l][x[l] + 1]])
Expected(pv, ss) == MapThenSumSet(LAMBDA x : Weight(pv, x), {x \in Everything : Phi(x) \in ss})
Relevant ==
  {l \in Levels : \E x \in Everything : x[l] + 1 < States[l] /\ Phi(x) # Phi(Improved(x, l))}
Fixed(pv, l, j) == [pv EXCEPT ![l] = [i \in DOMAIN @ |-> IF i = j THEN Denominator ELSE 0]]
ReliabilityExact ==
  /\ Called("prob") => answer.value = Expected(answer.arg[1], answer.arg[2])
  /\ Called("bmeas") =>
       LET given(l, j) == Expected(Fixed(answer.arg[1], l, j), answer.arg[2])
       IN answer.value =
            [l \in Relevant |-> [j \in 1 .. States[l] - 1 |-> given(l, j + 1) - given(l, j)]]
=============================================================================
