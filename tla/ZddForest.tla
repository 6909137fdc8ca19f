------------------------------ MODULE ZddForest ------------------------------
(***************************************************************************)
(* bddcore::zdd: the arena of the set families.                            *)
(*                                                                         *)
(* A forest is a record.  Node i is nodes[i + 1]; a node has a header, and *)
(* several headers may have one level, for every family converted from a   *)
(* BDD brings its own.  Levels fall from the root to the terminals; a node *)
(* whose high edge is Zero is left out, one with equal edges is not.       *)
(*                                                                         *)
(* The computed table never loses an entry by itself, the hardest case.    *)
(***************************************************************************)
EXTENDS Integers, Sequences, FiniteSets, FiniteSetsExt, SetFamilies

CONSTANT Label      \* what a header is labelled with

VARIABLE forest     \* ZddManager

Zero == 0
One == 1
Undet == 2
NoId == -1

Terminals == {Zero, One, Undet}
Terminal == [header |-> NoId, low |-> NoId, high |-> NoId]

ZddOp == {"intersect", "union", "setdiff", "product", "divide"}

NewForest ==
  [headers |-> <<>>,                 \* headers[h + 1]: level and label
   nodes |-> <<Terminal, Terminal, Terminal>>,
   free |-> {},                      \* freelist, kept in ascending order
   table |-> [n \in {} |-> NoId],    \* utable: a node -> its slot
   memo |-> [k \in {} |-> NoId]]     \* cache: <<operation, f, g>> -> a slot

Slots(a) == 0 .. Len(a.nodes) - 1
Live(a) == Slots(a) \ a.free
Inner(a) == Live(a) \ Terminals
LiveNodeCount(a) == Len(a.nodes) - Cardinality(a.free)
Headers(a) == 0 .. Len(a.headers) - 1
HeaderLevel(a, h) == a.headers[h + 1].level

At(a, i) == a.nodes[i + 1]
HeaderOf(a, i) == At(a, i).header
Low(a, i) == At(a, i).low
High(a, i) == At(a, i).high
LabelOf(a, i) == a.headers[At(a, i).header + 1].label

(* node_level; a terminal is below every variable.                         *)
Level(a, i) == IF i \in Terminals THEN -1 ELSE HeaderLevel(a, At(a, i).header)

(* Every operator below returns what has become of the forest, the ones    *)
(* that return a node as well <<slot, forest>>.                            *)
CreateHeader(a, l, label) ==
  [a EXCEPT !.headers = Append(@, [level |-> l, label |-> label])]

Extend(f, key, val) == [k \in DOMAIN f \cup {key} |-> IF k = key THEN val ELSE f[k]]

(* new_nonterminal takes the last free slot, which is the largest.         *)
NewSlot(a) == IF a.free = {} THEN Len(a.nodes) ELSE Max(a.free)

Store(a, n, slot) ==
  [a EXCEPT !.nodes = IF a.free = {} THEN Append(@, n) ELSE [@ EXCEPT ![slot + 1] = n],
            !.free = @ \ {slot},
            !.table = Extend(@, n, slot)]

HashCons(a, n) ==
  IF n \in DOMAIN a.table THEN <<a.table[n], a>> ELSE <<NewSlot(a), Store(a, n, NewSlot(a))>>

(* Mutant: the rule of the BDD, whose node code this is a copy of.         *)
CreateNodeAsBdd(a, h, low, high) ==
  IF low = high THEN <<low, a>> ELSE HashCons(a, [header |-> h, low |-> low, high |-> high])

CreateNode(a, h, low, high) ==
  IF high = Zero THEN <<low, a>> ELSE HashCons(a, [header |-> h, low |-> low, high |-> high])

Remember(a, key, i) == [a EXCEPT !.memo = Extend(@, key, i)]
ClearCache(a) == [a EXCEPT !.memo = [k \in {} |-> NoId]]

----------------------------------------------------------------------------
(* bddcore::zdd_ops: the arms of an operation that make no calls.          *)

Other(f, g, t) == IF f = t THEN g ELSE f

(* The answers that are given before the computed table is consulted, and  *)
(* not kept in it; NoId if there is none.                                  *)
Immediate(op, f, g) ==
  IF f # g \/ op \in {"product", "divide"} THEN NoId
  ELSE IF op \in {"intersect", "union"} \/ f = Undet THEN f
  ELSE Zero

(* The arms of an operation on terminals.                                  *)
Intersected(f, g) ==
  IF Undet \in {f, g} THEN Other(f, g, Undet)
  ELSE IF Zero \in {f, g} THEN Zero
  ELSE IF One \in {f, g} THEN Other(f, g, One) ELSE NoId

United(f, g) ==
  IF Undet \in {f, g} THEN Undet
  ELSE IF Zero \in {f, g} THEN Other(f, g, Zero) ELSE NoId

Subtracted(f, g) ==
  IF f \in {Undet, Zero} THEN f
  ELSE IF g \in {Undet, Zero} THEN f ELSE NoId

Multiplied(f, g) ==
  IF Undet \in {f, g} THEN Undet
  ELSE IF Zero \in {f, g} THEN Zero
  ELSE IF One \in {f, g} THEN Other(f, g, One) ELSE NoId

Divided(f, g) ==
  IF Undet \in {f, g} \/ g = Zero THEN Undet
  ELSE IF g = One THEN f
  ELSE IF f = Zero THEN Zero ELSE IF f = One THEN g ELSE NoId

Settled(op, f, g) ==
  CASE op = "intersect" -> Intersected(f, g)
    [] op = "union" -> United(f, g)
    [] op = "setdiff" -> Subtracted(f, g)
    [] op = "product" -> Multiplied(f, g)
    [] op = "divide" -> Divided(f, g)

----------------------------------------------------------------------------
(* gc, once the live slots are known.                                      *)

Kids(a, i) == IF i \in Terminals THEN {} ELSE {Low(a, i), High(a, i)}

RestrictTo(f, keys) == [k \in keys |-> f[k]]
LiveNodes(a, live) == {n \in DOMAIN a.table : a.table[n] \in live}
LiveEntries(a, live) == {k \in DOMAIN a.memo : {k[2], k[3], a.memo[k]} \subseteq live}

(* Mutant: the computed table is left as it was.                           *)
SweptKeepingMemo(a, live) ==
  [a EXCEPT !.table = RestrictTo(@, LiveNodes(a, live)), !.free = Slots(a) \ live]

Swept(a, live) ==
  [a EXCEPT !.table = RestrictTo(@, LiveNodes(a, live)),
            !.memo = RestrictTo(@, LiveEntries(a, live)),
            !.free = Slots(a) \ live]

----------------------------------------------------------------------------
(* What an operation or a collection does to the forest is a sequence of   *)
(* these steps.  Children, operands and results are slots in use; the      *)
(* children of a node are below its level.  A collection keeps the         *)
(* terminals and, with a slot, its children: see Reached in ZddOps.        *)

Fits(a, i, l) == i \in Live(a) /\ Level(a, i) < l

Closed(a, live) ==
  /\ Terminals \subseteq live /\ live \subseteq Live(a)
  /\ \A i \in live : Kids(a, i) \subseteq live

Step ==
  \/ \E l \in Nat, label \in Label : forest' = CreateHeader(forest, l, label)
  \/ \E h \in Headers(forest) : \E low, high \in Live(forest) :
       /\ Fits(forest, low, HeaderLevel(forest, h))
       /\ Fits(forest, high, HeaderLevel(forest, h))
       /\ forest' = CreateNode(forest, h, low, high)[2]
  \/ \E op \in ZddOp : \E f, g, i \in Live(forest) : forest' = Remember(forest, <<op, f, g>>, i)
  \/ forest' = ClearCache(forest)
  \/ \E live : Closed(forest, live) /\ forest' = Swept(forest, live)

ForestSpec == forest = NewForest /\ [][Step]_forest

----------------------------------------------------------------------------
(* What the arena promises.                                                *)

TerminalsInPlace(a) ==
  Terminals \subseteq Live(a) /\ \A t \in Terminals : At(a, t) = Terminal

(* A node has a header, and edges to nodes in use at lower levels.         *)
WellFormed(a) ==
  \A i \in Inner(a) :
    /\ At(a, i).header \in Headers(a)
    /\ Fits(a, Low(a, i), Level(a, i)) /\ Fits(a, High(a, i), Level(a, i))

Suppressed(a) == \A i \in Inner(a) : High(a, i) # Zero

(* The unique table holds exactly the nodes in use, each under its content.*)
TableExact(a) ==
  /\ \A i \in Inner(a) : At(a, i) \in DOMAIN a.table /\ a.table[At(a, i)] = i
  /\ \A n \in DOMAIN a.table : a.table[n] \in Inner(a) /\ At(a, a.table[n]) = n

(* No entry of the computed table names a slot that is not in use.         *)
MemoLive(a) == \A k \in DOMAIN a.memo : {k[2], k[3], a.memo[k]} \subseteq Live(a)

ArenaOK(a) ==
  TerminalsInPlace(a) /\ WellFormed(a) /\ Suppressed(a) /\ TableExact(a) /\ MemoLive(a)

(* However headers, nodes, results and collections alternate, the arena is *)
(* well-formed, zero-suppressed and hash-consed, and its tables name slots *)
(* in use only.                                                            *)
ArenaInv == ArenaOK(forest)

(* A slot that is in use and stays so keeps its node (new_nonterminal      *)
(* recycles only what a collection has reclaimed).                         *)
NodesKept ==
  [][\A i \in Live(forest) \cap Live(forest') : At(forest', i) = At(forest, i)]_forest

----------------------------------------------------------------------------
(* What the nodes denote: families of sets of labels.                      *)

(* The ways down from a node: the headers whose high edge a way takes, and *)
(* the terminal it comes to.  What comes to Zero is not listed.            *)
Taking(h, ways) == {<<w[1] \cup {h}, w[2]>> : w \in ways}

AllWays(a) ==
  LET ways[i \in Live(a)] ==
        IF i \in Terminals THEN IF i = Zero THEN {} ELSE {<<{}, i>>}
        ELSE ways[Low(a, i)] \cup Taking(At(a, i).header, ways[High(a, i)])
  IN ways
Ways(a, i) == AllWays(a)[i]

HeaderLabel(a, h) == a.headers[h + 1].label
Labelled(a, hs) == {HeaderLabel(a, h) : h \in hs}

(* The family a node denotes: a set for every way to One.                  *)
Sets(a, i) == {Labelled(a, w[1]) : w \in {v \in Ways(a, i) : v[2] = One}}

(* Nodes in use are canonical, headers told apart: no two of them have the *)
(* same ways, there are as many as nodes.                                  *)
Canonical == Cardinality({Ways(forest, i) : i \in Live(forest)}) = Cardinality(Live(forest))

(* A manager that gives every label one header.                            *)
OneHeaderEach(a) ==
  \A h, k \in Headers(a) : HeaderLabel(a, h) = HeaderLabel(a, k) => h = k

(* There a family has one node, if nothing is undetermined in it.          *)
Determined(a, i) == \A w \in Ways(a, i) : w[2] = One

OneNodeEach ==
  OneHeaderEach(forest) =>
    \A i, j \in {k \in Live(forest) : Determined(forest, k)} :
      Sets(forest, i) = Sets(forest, j) => i = j

(* A slot that is in use and stays so keeps the family it denotes, whatever*)
(* is built, memoised, collected and recycled beside it.                   *)
FamiliesKept ==
  [][\A i \in Live(forest) \cap Live(forest') : Sets(forest', i) = Sets(forest, i)]_forest
----------------------------------------------------------------------------
(* What the operations return.                                             *)

(* The undetermined node is no family: union and product keep it, setdiff  *)
(* keeps it on the left, intersect passes the other operand.               *)
WithUndet(op, f, g) ==
  CASE op = "intersect" -> Other(f, g, Undet)
    [] op = "setdiff" -> f
    [] OTHER -> Undet

(* Slot r is a result of the operation on the slots f and g, all in use.   *)
(* Nothing is said of what divide returns, which is not the quotient.      *)
Answers(a, op, f, g, r) ==
  /\ {f, g, r} \subseteq Live(a)
  /\ op # "divide" =>
       IF Undet \in {f, g} THEN r = WithUndet(op, f, g)
       ELSE /\ r # Undet
            /\ IF op = "intersect" THEN IntersectedWell(Sets(a, f), Sets(a, g), Sets(a, r))
               ELSE Sets(a, r) = Meaning(op, Sets(a, f), Sets(a, g))

(* Every entry of the computed table relates what its slots denote now, by *)
(* its operation: no hit revives a node that has been collected.           *)
TablesExact ==
  \A k \in DOMAIN forest.memo : Answers(forest, k[1], k[2], k[3], forest.memo[k])
=============================================================================
