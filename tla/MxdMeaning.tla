----------------------------- MODULE MxdMeaning -----------------------------
(***************************************************************************)
(* What the nodes of MxdArena denote: a set of state vectors, a relation   *)
(* between them.                                                           *)
(***************************************************************************)
EXTENDS MxdEngine, StateRelations, Functions

(* Where a node sends a variable that goes from state s to state t; a set  *)
(* is asked about a vector that stays as it is.                            *)
Follow(a, i, s, t) == Edges(a, i)[IF Kind(a, i) = "set" THEN t ELSE <<s, t>>]

(* The slots that lead to One when the n lowest variables go from x to y:  *)
(* by an edge of the level or, where it has no node, without a change.     *)
NodesOn(a, l) == {i \in Live(a) : Level(a, i) = l}

Leading(a, x, y) ==
  LET leads[n \in 0 .. Len(a.domains)] ==
        IF n = 0 THEN {One}
        ELSE LET lower == leads[n - 1]
             IN (IF x[n] = y[n] THEN lower ELSE {})
                  \cup {i \in NodesOn(a, n - 1) : Follow(a, i, x[n], y[n]) \in lower}
  IN leads

(* Sets are asked about x = y alone.                                       *)
Asked(sort, d) == IF sort = "set" THEN Identity(d) ELSE Pairs(d)

(* What a node denotes over the n lowest levels, the higher ones free.     *)
Readings(a, sort, n) == {<<p, Leading(a, p[1], p[2])[n]>> : p \in Asked(sort, a.domains)}

DenotedIn(readings, i) == {r[1] : r \in {q \in readings : i \in q[2]}}

OfSort(a, sort) == {i \in Live(a) : Kind(a, i) \in {sort, "terminal"}}

(* Diagrams of one kind are canonical: two nodes of it in use that denote  *)
(* the same are one node, so two handles are equal exactly when they       *)
(* denote the same.                                                        *)
Canonical ==
  \A sort \in {"set", "rel"} :
    LET readings == Readings(forest, sort, Len(forest.domains))
    IN IsInjective([i \in OfSort(forest, sort) |-> DenotedIn(readings, i)])

(* A memoised full relation leads every pair of vectors to One.            *)
FullIsFull ==
  \A l \in DOMAIN forest.full : \A p \in Pairs(forest.domains) :
    forest.full[l] \in Leading(forest, p[1], p[2])[l + 1]

(* Slot r answers the operation on the slots args, over the n lowest levels*)
(* of the domains d: what it denotes is what the operation means.          *)
FamilyIn(read, sort, n, i) ==
  LET denoted == DenotedIn(read[sort][n], i)
  IN IF sort = "set" THEN {p[1] : p \in denoted} ELSE denoted

Answers(read, d, n, op, args, r) ==
  FamilyIn(read, Result(op), n, r) =
    Meaning(op, d, [k \in DOMAIN args |-> FamilyIn(read, Takes(op)[k], n, args[k])])

(* The levels an operation is about: a set has the same meaning over all.  *)
Depth(a, op, l) == IF op \in SetOp THEN Len(a.domains) ELSE l + 1

AllReadings(a) ==
  [sort \in {"set", "rel"} |-> [n \in 0 .. Len(a.domains) |-> Readings(a, sort, n)]]

(* Every entry of a computed table answers its operation, at the level in  *)
(* its key, and every memoised full relation is full: no hit revives a     *)
(* collected node, or the result of another level.                         *)
Given(key) == [k \in DOMAIN Takes(key[1]) |-> key[k + 1]]

TablesExact ==
  LET read == AllReadings(forest)
      d == forest.domains
  IN /\ \A key \in DOMAIN forest.memo :
          LET n == IF key[1] \in SetOp THEN Len(d) ELSE key[4] + 1
          IN Answers(read, d, n, key[1], Given(key), forest.memo[key])
     /\ \A l \in DOMAIN forest.full : FamilyIn(read, "rel", l + 1, forest.full[l]) = Pairs(d)

(* A slot that is in use and stays so denotes what it did, whatever is     *)
(* declared, built, memoised, collected and recycled beside it.            *)
MeaningsKept ==
  [][\A i \in Live(forest) \cap Live(forest') : \A p \in Pairs(forest.domains) :
       i \in Leading(forest', p[1], p[2])[Len(forest.domains)]
         <=> i \in Leading(forest, p[1], p[2])[Len(forest.domains)]]_engine
=============================================================================
