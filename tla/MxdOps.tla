------------------------------- MODULE MxdOps -------------------------------
(***************************************************************************)
(* mxdcore::mxd_ops, minterm and enumerate: the operations on sets and     *)
(* relations.  An operation maps a forest to a slot and a forest.          *)
(*                                                                         *)
(* An operation on sets recurs on the top level of its operands.  In every *)
(* other one a skipped level has a meaning that depends on how many levels *)
(* are left, so it carries the level, and its table is keyed by it.        *)
(***************************************************************************)
EXTENDS MxdArena, SequencesExt

TopLevel(a) == Len(a.domains) - 1

(* The states, and the pairs of states, in the order they are visited.     *)
StateSeq(a, l) == [k \in 1 .. a.domains[l + 1] |-> k - 1]
CellSeq(a, l) ==
  LET n == a.domains[l + 1] IN [k \in 1 .. n * n |-> <<(k - 1) \div n, (k - 1) % n>>]

----------------------------------------------------------------------------
(* full_relation: the levels that are not memoised yet, upwards.           *)
FullRelationUpTo(a, l) ==
  LET r == FoldLeft(FullStep, a, [k \in 1 .. l + 1 |-> k - 1]) IN <<r.full[l], r>>

RECURSIVE Call(_, _, _, _)

Collected(acc, c, r) == <<Extend(acc[1], c, r[1]), r[2]>>

Gathered(a, op, args, l, points) ==
  LET visit(acc, c) == Collected(acc, c, Call(acc[2], op, Operands(a, op, args, l, c), l - 1))
  IN FoldLeft(visit, <<<<>>, a>>, points)

(* The union over the states s of the images of one step into b.           *)
United(acc, r) == Call(r[2], "or_set", <<acc[1], r[1]>>, NoId)

ImageInto(a, op, args, l, b) ==
  LET add(acc, s) == United(acc, Call(acc[2], op, ImageOperands(acc[2], op, args, l, b, s), l - 1))
  IN FoldLeft(add, <<Zero, a>>, StateSeq(a, l))

Image(a, op, args, l) ==
  LET visit(acc, b) == Collected(acc, b, ImageInto(acc[2], op, args, l, b))
  IN FoldLeft(visit, <<<<>>, a>>, StateSeq(a, l))

AsSetNode(l, r) == SetNode(r[2], l, r[1])
AsRelNode(l, r) == RelNode(r[2], l, r[1])

Expand(a, op, args, l) ==
  CASE op \in SetOp ->
         LET top == TopOf(a, args)
         IN AsSetNode(top, Gathered(a, op, args, top, StateSeq(a, top)))
    [] op \in {"post_image", "pre_image"} -> AsSetNode(l, Image(a, op, args, l))
    [] OTHER -> AsRelNode(l, Gathered(a, op, args, l, CellSeq(a, l)))

Memoised(op, key, r) == <<r[1], IF op = "boundary" THEN r[2] ELSE Remember(r[2], key, r[1])>>

CallSorted(a, op, args, l) ==
  LET settled == Settled(op, args, l)
      key == Key(op, args, l)
  IN IF settled # NoId THEN <<settled, a>>
     ELSE IF op = "not_rel" /\ args[1] = Zero THEN FullRelationUpTo(a, l)
     ELSE IF key \in DOMAIN a.memo THEN <<a.memo[key], a>>
     ELSE Memoised(op, key, Expand(a, op, args, l))

Call(a, op, args, l) == CallSorted(a, op, Sorted(op, args), l)

(* The public operations start at the highest level there is.              *)
Apply(a, op, args) == Call(a, op, args, TopLevel(a))

(* f \ g is the intersection of f and the complement of g.                 *)
Without(a, not, and, f, g) ==
  LET ng == Apply(a, not, <<g>>) IN Apply(ng[2], and, <<f, ng[1]>>)

----------------------------------------------------------------------------
(* Minterms.  A pattern of sources and one of targets have an entry for    *)
(* every level: <<"val", s>>, <<"any">>, and for a target <<"same">>.      *)

AdmitsSource(src, s) == src[1] = "val" => s = src[2]

Admits(src, dst, c) ==
  /\ AdmitsSource(src, c[1])
  /\ dst[1] = "val" => c[2] = dst[2]
  /\ dst[1] = "same" => c[2] = c[1]

SetMinterm(a, src) ==
  LET add(acc, l) ==
        SetNode(acc[2], l, [s \in States(a, l) |->
                              IF AdmitsSource(src[l + 1], s) THEN acc[1] ELSE Zero])
  IN FoldLeft(add, <<One, a>>, [k \in DOMAIN a.domains |-> k - 1])

Singleton(a, src, dst) ==
  LET add(acc, l) ==
        RelNode(acc[2], l, [c \in Cells(a, l) |->
                              IF Admits(src[l + 1], dst[l + 1], c) THEN acc[1] ELSE Zero])
  IN FoldLeft(add, <<One, a>>, [k \in DOMAIN a.domains |-> k - 1])

----------------------------------------------------------------------------
(* What a diagram lists, and how much: enumerate_*, cardinality_*.         *)

Appended(prefixes, s) == [k \in DOMAIN prefixes |-> Append(prefixes[k], s)]

RECURSIVE VectorsTo(_, _, _)
VectorsTo(a, i, l) ==
  IF i = Zero THEN <<>>
  ELSE IF l < 0 THEN << <<>> >>
  ELSE FlattenSeq([k \in 1 .. a.domains[l + 1] |->
                     Appended(VectorsTo(a, SetChild(a, i, l, k - 1), l - 1), k - 1)])

Moved(prefixes, c) ==
  [k \in DOMAIN prefixes |-> <<Append(prefixes[k][1], c[1]), Append(prefixes[k][2], c[2])>>]

RECURSIVE PairsTo(_, _, _)
PairsTo(a, i, l) ==
  IF i = Zero THEN <<>>
  ELSE IF l < 0 THEN << << <<>>, <<>> >> >>
  ELSE LET cells == CellSeq(a, l)
       IN FlattenSeq([k \in DOMAIN cells |->
                        Moved(PairsTo(a, RelCell(a, i, l, cells[k]), l - 1), cells[k])])

(* A node of the other kind counts as a skipped level, as it does when     *)
(* children are listed.                                                    *)
RECURSIVE Count(_, _, _, _)
Count(a, i, l, kind) ==
  IF i = Zero THEN 0
  ELSE IF l < 0 THEN 1
  ELSE IF IsAt(a, i, l, kind)
    THEN MapThenSumSet(LAMBDA c : Count(a, Edges(a, i)[c], l - 1, kind), DOMAIN Edges(a, i))
    ELSE a.domains[l + 1] * Count(a, i, l - 1, kind)
=============================================================================
