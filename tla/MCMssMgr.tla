------------------------------ MODULE MCMssMgr ------------------------------
(* Values for TLC: every function of a two-state and a three-state         *)
(* variable to three values and to Booleans, and every monotone one of     *)
(* these and a third variable.                                             *)
EXTENDS MultiStateAnalyses

MCStates == [l \in 0 .. 2 |-> <<2, 3, 2>>[l + 1]]

RECURSIVE AllDiagrams(_, _)
AllDiagrams(l, T) ==
  IF l < 0 THEN T ELSE {MddNode(l, e) : e \in [1 .. MCStates[l] -> AllDiagrams(l - 1, T)]}

RECURSIVE Rising(_, _)
Rising(l, T) ==
  IF l < 0 THEN T
  ELSE {MddNode(l, e) : e \in {g \in [1 .. MCStates[l] -> Rising(l - 1, T)] : Ascending(g)}}

Three == {Terminal(v) : v \in 0 .. 2}
Two == {Zero, One}

MCStructures ==
  ((AllDiagrams(1, Three) \cup Rising(2, Three)) \X {FALSE})
    \cup ((AllDiagrams(1, Two) \cup Rising(2, Two)) \X {TRUE})
CountStructures == (AllDiagrams(1, Two) \ Two) \X {TRUE}

State(l) == MddNode(l, [i \in 1 .. MCStates[l] |-> Terminal(i - 1)])
MCOthers == {<<State(1), FALSE>>, <<Meet(State(0), State(2)), TRUE>>}

MCReliability ==
  {[l \in 0 .. 2 |-> <<<<1, 2>>, <<1, 1, 1>>, <<3, 0>>>>[l + 1]],
   [l \in 0 .. 2 |-> <<<<2, 1>>, <<0, 1, 2>>, <<1, 2>>>>[l + 1]]}

MCSelections == {{0}, {1}, {2}, {1, 2}}
=============================================================================
