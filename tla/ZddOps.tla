------------------------------- MODULE ZddOps -------------------------------
(***************************************************************************)
(* bddcore::zdd_ops and what bss does below a call: an operation maps a    *)
(* forest and its operands to <<slot, forest>>.  No collection runs inside *)
(* one, so the slots it passes around need no root.                        *)
(***************************************************************************)
EXTENDS ZddForest, SequencesExt

----------------------------------------------------------------------------
RECURSIVE Call(_, _, _, _)

(* Both branches by an operation, the low one first, under one header.     *)
Branches(a, op, h, low, high) ==
  LET r0 == Call(a, op, low[1], low[2])
      r1 == Call(r0[2], op, high[1], high[2])
  IN CreateNode(r1[2], h, r0[1], r1[1])

(* The low branch by an operation, the high one as it is.                  *)
LowBranch(a, op, h, low, high) ==
  LET r == Call(a, op, low[1], low[2]) IN CreateNode(r[2], h, r[1], high)

Pair(a, f, g) == <<Low(a, f), Low(a, g)>>

(* The top variable of f does not occur in g, or the other way round.      *)
(* Mutant: intersect follows the sets that have the variable.              *)
OnlyInFByHigh(a, op, f, g) ==
  CASE op \in {"intersect", "divide"} -> Call(a, op, High(a, f), g)
    [] op \in {"union", "setdiff"} -> LowBranch(a, op, HeaderOf(a, f), <<Low(a, f), g>>, High(a, f))
    [] op = "product" -> Branches(a, op, HeaderOf(a, f), <<Low(a, f), g>>, <<High(a, f), g>>)

OnlyInF(a, op, f, g) ==
  CASE op \in {"intersect", "divide"} -> Call(a, op, Low(a, f), g)
    [] op \in {"union", "setdiff"} -> LowBranch(a, op, HeaderOf(a, f), <<Low(a, f), g>>, High(a, f))
    [] op = "product" -> Branches(a, op, HeaderOf(a, f), <<Low(a, f), g>>, <<High(a, f), g>>)

OnlyInG(a, op, f, g) ==
  CASE op \in {"intersect", "setdiff"} -> Call(a, op, f, Low(a, g))
    [] op = "union" -> LowBranch(a, op, HeaderOf(a, g), <<f, Low(a, g)>>, High(a, g))
    [] op = "product" -> Branches(a, op, HeaderOf(a, g), <<f, Low(a, g)>>, <<f, High(a, g)>>)
    [] op = "divide" -> <<Undet, a>>

(* product: {s, t with the variable in either or both}.                    *)
Joined(r, f, g) ==
  LET p == Call(r[2], "product", f, g) IN Call(p[2], "union", r[1], p[1])

ProductNode(a, f, g) ==
  LET low == Call(a, "product", Low(a, f), Low(a, g))
      high == Call(low[2], "product", High(a, f), High(a, g))
      r == Joined(Joined(high, High(a, f), Low(a, g)), Low(a, f), High(a, g))
  IN CreateNode(r[2], HeaderOf(a, f), low[1], r[1])

QuotientNode(a, f, g) ==
  LET x == Call(a, "divide", Low(a, f), Low(a, g))
      y == Call(x[2], "divide", High(a, f), High(a, g))
  IN Call(y[2], "intersect", x[1], y[1])

(* The same level; the header is that of f.                                *)
InBoth(a, op, f, g) ==
  CASE op = "product" -> ProductNode(a, f, g)
    [] op = "divide" -> QuotientNode(a, f, g)
    [] OTHER -> Branches(a, op, HeaderOf(a, f), Pair(a, f, g), <<High(a, f), High(a, g)>>)

Expand(a, op, f, g) ==
  IF Settled(op, f, g) # NoId THEN <<Settled(op, f, g), a>>
  ELSE IF Level(a, f) > Level(a, g) THEN OnlyInF(a, op, f, g)
  ELSE IF Level(a, f) < Level(a, g) THEN OnlyInG(a, op, f, g)
  ELSE InBoth(a, op, f, g)

(* Mutant: the operands of every operation are put in order, as the BDD    *)
(* does for its commutative ones.                                          *)
KeyInOrder(op, f, g) == <<op, Min({f, g}), Max({f, g})>>

Key(op, f, g) == <<op, f, g>>

Memoised(key, r) == <<r[1], Remember(r[2], key, r[1])>>

Call(a, op, f, g) ==
  LET key == Key(op, f, g)
  IN IF Immediate(op, f, g) # NoId THEN <<Immediate(op, f, g), a>>
     ELSE IF key \in DOMAIN a.memo THEN <<a.memo[key], a>>
     ELSE Memoised(key, Expand(a, op, f, g))

----------------------------------------------------------------------------
(* gc: what the stack reaches from the roots.  A root beyond the arena is  *)
(* ignored.                                                                *)
RECURSIVE Reached(_, _)
Reached(a, live) ==
  LET more == live \cup UNION {Kids(a, i) : i \in live}
  IN IF more = live THEN live ELSE Reached(a, more)

Gc(a, roots) == Swept(a, Reached(a, Terminals \cup (roots \cap Slots(a))))

(* zdd_count with the default selection, the sets that are in the family.  *)
RECURSIVE Count(_, _)
Count(a, i) ==
  IF i \in Terminals THEN IF i = One THEN 1 ELSE 0
  ELSE Count(a, Low(a, i)) + Count(a, High(a, i))

----------------------------------------------------------------------------
(* to_zdd copies a minimal-solutions family, given as a set of sets of     *)
(* labels; order gives the level of a label.  headers are those the copy   *)
(* has made so far, by level: <<slot, forest, headers>> is returned.  A    *)
(* header that the copy makes for no node is left out.                     *)
HeaderFor(r, l, label) ==
  IF l \in DOMAIN r[3] THEN r
  ELSE <<r[1], CreateHeader(r[2], l, label), Extend(r[3], l, Len(r[2].headers))>>

RECURSIVE ToZdd(_, _, _, _)
ToZdd(a, order, F, headers) ==
  IF UNION F = {} THEN <<IF F = {} THEN Zero ELSE One, a, headers>>
  ELSE LET k == Max({j \in DOMAIN order : order[j] \in UNION F})
           x == order[k]
           low == ToZdd(a, order, {s \in F : x \notin s}, headers)
           high == ToZdd(low[2], order, {s \ {x} : s \in {t \in F : x \in t}}, low[3])
           made == HeaderFor(high, k - 1, x)
       IN CreateNode(made[2], made[3][k - 1], low[1], high[1]) \o <<made[3]>>

----------------------------------------------------------------------------
(* ZddPath::next: pops until a set is found, `set` is <<>> or <<set>>.     *)
Descend(a, i) ==
  << <<"pop">>, <<"node", High(a, i)>>, <<"push", LabelOf(a, i)>>, <<"node", Low(a, i)>> >>

RECURSIVE NextSet(_, _, _)
NextSet(a, stack, path) ==
  IF stack = <<>> THEN [stack |-> <<>>, path |-> path, set |-> <<>>]
  ELSE LET top == Last(stack)
           rest == Front(stack)
       IN CASE top[1] = "push" -> NextSet(a, rest, Append(path, top[2]))
            [] top[1] = "pop" -> NextSet(a, rest, Front(path))
            [] top = <<"node", One>> -> [stack |-> rest, path |-> path, set |-> <<Reverse(path)>>]
            [] top \in {<<"node", Zero>>, <<"node", Undet>>} -> NextSet(a, rest, path)
            [] OTHER -> NextSet(a, rest \o Descend(a, top[2]), path)
=============================================================================
