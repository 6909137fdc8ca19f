------------------------------- MODULE MtMdd2 -------------------------------
(***************************************************************************)
(* mddcore::mtmdd2: the composite forest of MddForest with the operations  *)
(* that stay in one arena and those that read one and build in the other.  *)
(* An operation maps a forest to a pair <<result, forest>>.                *)
(***************************************************************************)
EXTENDS MddForest, SequencesExt

RECURSIVE Call(_, _, _)

(* One recursive call per state of the top variable, then create_node.     *)
Collected(acc, r) == <<Append(acc[1], r[1]), r[2]>>

Joined(side, l, done) ==
  Built(done[2], side, MakeNode(done[2][side], l, done[1]))

Expand(st, op, args) ==
  LET branch(acc, n) == Collected(acc, Call(acc[2], op, Cofactors(st, op, args, n)))
  IN Joined(ResultSide(op), Top(st, op, args),
            FoldLeft(branch, <<<<>>, st>>, [n \in 1 .. Width(st, op, args) |-> n]))

(* What an operation computes when its cache does not answer.              *)
Step(st, op, args) ==
  IF Settled(st, op, args) # NoId THEN <<Settled(st, op, args), st>>
  ELSE IF Negates(op, args) THEN Call(st, "not", OtherThanOne(args))
  ELSE IF Computes(st, op, args) THEN Built(st, "v", ComputedNode(st, op, args))
  ELSE Expand(st, op, args)

Remembered(op, args, r) == <<r[1], Remember(r[2], op, args, r[1])>>

Call(st, op, operands) ==
  LET args == Sorted(op, operands)
      key == <<op, args>>
  IN IF Chosen(op, args) # NoId THEN <<Chosen(op, args), st>>
     ELSE IF key \in DOMAIN Memo(st, op) THEN <<Memo(st, op)[key], st>>
     ELSE IF DividesByZero(st, op, args) THEN <<VUndet, st>>
     ELSE Remembered(op, args, Step(st, op, args))

----------------------------------------------------------------------------
(* The operations on tagged nodes: <<"b", slot>> or <<"v", slot>>.         *)

Bool(i) == <<"b", i>>
Value(i) == <<"v", i>>

(* The kind of both operands, "none" if they differ.                       *)
Kind(ns) == IF \A k \in DOMAIN ns : ns[k][1] = ns[1][1] THEN ns[1][1] ELSE "none"

Complement(r) == Call(r[2], "not", <<r[1]>>)

Compared(st, op, kind, f, g) ==
  Call(st, CASE kind = "b" -> "xor" [] kind = "v" /\ op \in {"eq", "neq"} -> "veq" [] OTHER -> "vlt",
       IF op \in {"gt", "lte"} THEN <<g, f>> ELSE <<f, g>>)

(* Mutant: <= is read as <, which loses the assignments where x = y.       *)
CompareStrictly(st, op, kind, f, g) ==
  IF op \in (IF kind = "b" THEN {"eq"} ELSE {"neq", "gte"})
    THEN Complement(Compared(st, op, kind, f, g))
    ELSE Compared(st, IF op = "lte" THEN "lt" ELSE op, kind, f, g)

(* <= is the complement of >, >= that of <, != that of ==; on Booleans ==  *)
(* is the complement of != (xor), and there is no order.                   *)
Compare(st, op, kind, f, g) ==
  IF op \in (IF kind = "b" THEN {"eq"} ELSE {"neq", "lte", "gte"})
    THEN Complement(Compared(st, op, kind, f, g))
    ELSE Compared(st, op, kind, f, g)

(* Operands of the wrong kind give the undetermined node of the result's   *)
(* kind.  (ite whose branches differ in kind panics.)                      *)
Fits(op, kind, ns) ==
  CASE op = "ite" -> ns[1][1] = "b"
    [] op \in Logic \ {"ite"} -> kind = "b"
    [] op \in {"eq", "neq"} -> kind # "none"
    [] OTHER -> kind = "v"

Tagged(side, r) == <<<<side, r[1]>>, r[2]>>

Operate(st, op, ns) ==
  LET ids == [k \in DOMAIN ns |-> ns[k][2]]
      kind == Kind(ns)
      side == CASE op = "ite" -> ns[2][1] [] op \in Arithmetic -> "v" [] OTHER -> "b"
  IN Tagged(side,
       IF ~ Fits(op, kind, ns) THEN <<IF side = "b" THEN BUndet ELSE VUndet, st>>
       ELSE IF op \in Comparison THEN Compare(st, op, kind, ids[1], ids[2])
       ELSE Call(st, IF op = "ite" /\ side = "v" THEN "vite" ELSE op, ids))

----------------------------------------------------------------------------
(* gc(roots): each arena is marked from its own roots and swept.           *)

RECURSIVE Marked(_, _)
Marked(a, live) ==
  LET next == live \cup UNION {Edges(a, i) : i \in live}
  IN IF next = live THEN live ELSE Marked(a, next)

LiveFrom(st, roots, side) ==
  Marked(st[side], Terminals(side) \cup {r[2] : r \in {n \in roots : n[1] = side}})

(* Mutant: the caches across the arenas are retained.                      *)
CollectKeepingCaches(st, roots) ==
  LET swept == Swept(st, [side \in {"b", "v"} |-> LiveFrom(st, roots, side)])
  IN [swept EXCEPT !.compared = st.compared, !.chosen = st.chosen]

(* Mutant: both arenas are marked from all roots, whatever their tag.      *)
CollectUntagged(st, roots) ==
  LET from(side) == {<<side, i>> : i \in {r[2] : r \in roots} \cap Slots(st[side])}
  IN Swept(st, [side \in {"b", "v"} |-> LiveFrom(st, from(side), side)])

Collect(st, roots) == Swept(st, [side \in {"b", "v"} |-> LiveFrom(st, roots, side)])
=============================================================================
