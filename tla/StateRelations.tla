--------------------------- MODULE StateRelations ---------------------------
(***************************************************************************)
(* What the operations of mxdcore mean: sets of state vectors, and         *)
(* relations as sets of pairs of them.  Nothing here is translated from    *)
(* how mxdcore computes it.                                                *)
(***************************************************************************)
EXTENDS Integers, Sequences, FiniteSets

(* The state vectors of a system; d gives the states of every component.   *)
Omega(d) ==
  {x \in [DOMAIN d -> UNION {0 .. d[k] - 1 : k \in DOMAIN d}] : \A k \in DOMAIN d : x[k] < d[k]}

Pairs(d) == Omega(d) \X Omega(d)
Identity(d) == {<<x, x>> : x \in Omega(d)}
Converse(R) == {<<p[2], p[1]>> : p \in R}
Forward(S, R) == {p[2] : p \in {q \in R : q[1] \in S}}
Backward(S, R) == {p[1] : p \in {q \in R : q[2] \in S}}

(* The operations, what they take and what they give.                      *)
SetOperations == {"and_set", "or_set", "setdiff_set"}
RelOperations == {"and_rel", "or_rel", "setdiff_rel"}
Operations ==
  SetOperations \cup RelOperations \cup
  {"not_set", "not_rel", "transpose", "cross", "boundary",
   "sources", "targets", "post_image", "pre_image"}

Takes(op) ==
  CASE op \in SetOperations \cup {"cross"} -> <<"set", "set">>
    [] op \in RelOperations -> <<"rel", "rel">>
    [] op = "not_set" -> <<"set">>
    [] op \in {"not_rel", "transpose", "sources", "targets"} -> <<"rel">>
    [] op = "boundary" -> <<"set", "set", "rel">>
    [] op \in {"post_image", "pre_image"} -> <<"set", "rel">>

Result(op) ==
  IF op \in RelOperations \cup {"not_rel", "transpose", "cross", "boundary"} THEN "rel" ELSE "set"

Meaning(op, d, fns) ==
  CASE op \in {"and_set", "and_rel"} -> fns[1] \cap fns[2]
    [] op \in {"or_set", "or_rel"} -> fns[1] \cup fns[2]
    [] op \in {"setdiff_set", "setdiff_rel"} -> fns[1] \ fns[2]
    [] op = "not_set" -> Omega(d) \ fns[1]
    [] op = "not_rel" -> Pairs(d) \ fns[1]
    [] op = "transpose" -> Converse(fns[1])
    [] op = "cross" -> fns[1] \X fns[2]
    [] op = "boundary" -> {p \in fns[3] : p[1] \in fns[1] /\ p[2] \in fns[2]}
    [] op = "sources" -> {p[1] : p \in fns[1]}
    [] op = "targets" -> {p[2] : p \in fns[1]}
    [] op = "post_image" -> Forward(fns[1], fns[2])
    [] op = "pre_image" -> Backward(fns[1], fns[2])

----------------------------------------------------------------------------
(* The moves of one component with n states, and the relations built from  *)
(* them: exactly one component moves.                                      *)
Moves(name, n) ==
  LET s == 0 .. n - 1
  IN {c \in s \X s : CASE name = "degrade" -> c[2] = c[1] - 1
                       [] name = "repair" -> c[2] = c[1] + 1
                       [] name = "restart" -> c[1] < n - 1 /\ c[2] = n - 1
                       [] name = "fail" -> c[1] > 0 /\ c[2] = 0}

OnlyMoves(d, k, p) == \A j \in DOMAIN d \ {k} : p[1][j] = p[2][j]

StepsOf(d, name) ==
  {p \in Pairs(d) : \E k \in DOMAIN d :
     OnlyMoves(d, k, p) /\ <<p[1][k], p[2][k]>> \in Moves(name, d[k])}

SingleOf(d, k, s, t) == {p \in Pairs(d) : OnlyMoves(d, k, p) /\ p[1][k] = s /\ p[2][k] = t}

(* The value of a fold: from the last component to the first.              *)
FoldedValue(d, fold) ==
  LET folded[x \in Omega(d), k \in 0 .. Len(d)] ==
        IF k = Len(d) THEN fold.init ELSE fold.step[<<folded[x, k + 1], k, x[k + 1]>>]
  IN [x \in Omega(d) |-> fold.value[folded[x, 0]]]

(* A pattern leaves a component free or names its state.                   *)
Patterns(d) ==
  {src \in [DOMAIN d -> {<<"any">>} \cup {<<"val", s>> : s \in 0 .. 3}] :
     \A k \in DOMAIN d : Len(src[k]) = 2 => src[k][2] < d[k]}
=============================================================================
