------------------------------ MODULE MxdArena ------------------------------
(***************************************************************************)
(* mxdcore::mxd: one arena for sets of state vectors and for relations     *)
(* between them.                                                           *)
(*                                                                         *)
(* A forest is a record.  Its variables are numbered by level, the highest *)
(* nearest the root.  A set node has an edge for every state of its        *)
(* variable, a relation node one for every pair <<from, to>>.  The         *)
(* terminals Zero and One serve both kinds.  A level without a node means  *)
(* any state in a set and no change in a relation, so the two kinds are    *)
(* reduced by different rules.                                             *)
(*                                                                         *)
(* A header stands for a kind and a level; both are in the node here.  All *)
(* computed tables are one map, the operation is part of the key.  They    *)
(* never lose an entry by themselves, the hardest case.                    *)
(***************************************************************************)
EXTENDS Integers, Sequences, FiniteSets, FiniteSetsExt

Zero == 0
One == 1
NoId == -1

Terminals == {Zero, One}
Terminal == [kind |-> "terminal", level |-> -1, edges |-> <<>>]

SetOp == {"and_set", "or_set", "not_set"}
RelOp == {"and_rel", "or_rel", "not_rel", "cross", "transpose", "post_image", "pre_image"}

NewForest ==
  [domains |-> <<>>,    \* domains[l + 1]: the states of the variable of level l
   nodes |-> <<Terminal, Terminal>>,
   free |-> {},         \* freelist, kept in ascending order
   table |-> [n \in {} |-> NoId],    \* utable: a node -> its slot
   memo |-> [k \in {} |-> NoId],     \* the computed tables
   full |-> [l \in {} |-> NoId]]     \* full_rel

Slots(a) == 0 .. Len(a.nodes) - 1
Live(a) == Slots(a) \ a.free
Inner(a) == Live(a) \ Terminals
LiveNodeCount(a) == Len(a.nodes) - Cardinality(a.free)

At(a, i) == a.nodes[i + 1]
Kind(a, i) == At(a, i).kind
Level(a, i) == At(a, i).level
Edges(a, i) == At(a, i).edges
Kids(a, i) == {Edges(a, i)[c] : c \in DOMAIN Edges(a, i)}

Levels(a) == 0 .. Len(a.domains) - 1
States(a, l) == 0 .. a.domains[l + 1] - 1
Cells(a, l) == States(a, l) \X States(a, l)

DefVar(a, n) == [a EXCEPT !.domains = Append(@, n)]

----------------------------------------------------------------------------
(* Building nodes: every operator returns a slot and what has become of    *)
(* the forest.                                                             *)

Extend(f, key, val) == [k \in DOMAIN f \cup {key} |-> IF k = key THEN val ELSE f[k]]

(* new_nonterminal takes the last free slot, which is the largest.         *)
NewSlot(a) == IF a.free = {} THEN Len(a.nodes) ELSE Max(a.free)

Store(a, n, slot) ==
  [a EXCEPT !.nodes = IF a.free = {} THEN Append(@, n) ELSE [@ EXCEPT ![slot + 1] = n],
            !.free = @ \ {slot},
            !.table = Extend(@, n, slot)]

HashCons(a, n) ==
  IF n \in DOMAIN a.table THEN <<a.table[n], a>> ELSE <<NewSlot(a), Store(a, n, NewSlot(a))>>

IsConstant(children) == \A c, d \in DOMAIN children : children[c] = children[d]
IsEmptyBlock(block) == \A c \in DOMAIN block : block[c] = Zero
IsDiagonal(block) ==
  \A c \in DOMAIN block : block[c] = IF c[1] = c[2] THEN block[<<0, 0>>] ELSE Zero

(* create_set_node: all children equal means that any state will do.       *)
SetNode(a, l, children) ==
  IF IsConstant(children) THEN <<children[0], a>>
  ELSE HashCons(a, [kind |-> "set", level |-> l, edges |-> children])

(* Mutant: only the empty relation is reduced.                             *)
RelNodeUnreduced(a, l, block) ==
  IF IsEmptyBlock(block) THEN <<Zero, a>>
  ELSE HashCons(a, [kind |-> "rel", level |-> l, edges |-> block])

(* create_rel_node: a block with one child on its diagonal and nothing     *)
(* elsewhere means that the variable does not change.                      *)
RelNode(a, l, block) ==
  IF IsEmptyBlock(block) THEN <<Zero, a>>
  ELSE IF IsDiagonal(block) THEN <<block[<<0, 0>>], a>>
  ELSE HashCons(a, [kind |-> "rel", level |-> l, edges |-> block])

(* full_relation, one level: every pair of states, then the full relation  *)
(* of the levels below.                                                    *)
Below(a, l) == IF l = 0 THEN One ELSE a.full[l - 1]

FullNode(a, l) == RelNode(a, l, [c \in Cells(a, l) |-> Below(a, l)])

KeepFull(l, made) == [made[2] EXCEPT !.full = Extend(@, l, made[1])]

FullStep(a, l) == IF l \in DOMAIN a.full THEN a ELSE KeepFull(l, FullNode(a, l))

Remember(a, key, i) == [a EXCEPT !.memo = Extend(@, key, i)]

(* clear_cache leaves the full relations alone.                            *)
ClearCache(a) == [a EXCEPT !.memo = [k \in {} |-> NoId]]

----------------------------------------------------------------------------
(* The operations, without their recursion.                                *)

(* A node read at a level; a skipped level is expanded.                    *)
IsAt(a, i, l, kind) == Level(a, i) = l /\ Kind(a, i) = kind
SetChild(a, i, l, s) == IF IsAt(a, i, l, "set") THEN Edges(a, i)[s] ELSE i

RelCell(a, i, l, c) ==
  IF IsAt(a, i, l, "rel") THEN Edges(a, i)[c] ELSE IF c[1] = c[2] THEN i ELSE Zero

(* Results that need neither recursion nor a node, NoId if there is none.  *)
Among(args) == {args[k] : k \in DOMAIN args}
Other(args, t) == IF args[1] = t THEN args[2] ELSE args[1]

SettledSet(op, args) ==
  CASE op = "not_set" -> (IF args[1] \in Terminals THEN 1 - args[1] ELSE NoId)
    [] op # "not_set" /\ args[1] = args[2] -> args[1]
    [] op = "and_set" /\ args[1] # args[2] /\ Zero \in Among(args) -> Zero
    [] op = "or_set" /\ args[1] # args[2] /\ One \in Among(args) -> One
    [] OTHER -> LET unit == IF op = "and_set" THEN One ELSE Zero
                IN IF unit \in Among(args) THEN Other(args, unit) ELSE NoId

SettledRel(op, args, l) ==
  CASE op = "not_rel" ->
         (IF l >= 0 THEN NoId ELSE IF args[1] = Zero THEN One ELSE Zero)
    [] op = "or_rel" /\ Zero \in Among(args) -> Other(args, Zero)
    [] op \notin {"or_rel", "not_rel"} /\ Zero \in Among(args) -> Zero
    [] OTHER -> IF l < 0 THEN One
                ELSE IF op \in {"and_rel", "or_rel"} /\ args[1] = args[2] THEN args[1]
                ELSE NoId

Settled(op, args, l) == IF op \in SetOp THEN SettledSet(op, args) ELSE SettledRel(op, args, l)

(* and_*, or_* look their operands up in the order of their ids.           *)
Commutative == {"and_set", "or_set", "and_rel", "or_rel"}

Sorted(op, args) ==
  IF op \in Commutative /\ args[1] > args[2] THEN <<args[2], args[1]>> ELSE args

(* The key under which a result is memoised; boundary, with three operands,*)
(* has a table of its own that lives for one call.                         *)
Key(op, args, l) ==
  LET g == IF DOMAIN args = {1} THEN 0 ELSE args[2]
  IN IF op \in SetOp THEN <<op, args[1], g>> ELSE <<op, args[1], g, l>>

(* The operands of the recursive call for a state or a cell c.             *)
Operands(a, op, args, l, c) ==
  CASE op \in SetOp -> [k \in DOMAIN args |-> SetChild(a, args[k], l, c)]
    [] op \in {"and_rel", "or_rel", "not_rel"} ->
         [k \in DOMAIN args |-> RelCell(a, args[k], l, c)]
    [] op = "transpose" -> <<RelCell(a, args[1], l, <<c[2], c[1]>>)>>
    [] op = "cross" -> <<SetChild(a, args[1], l, c[1]), SetChild(a, args[2], l, c[2])>>
    [] op = "boundary" ->
         <<SetChild(a, args[1], l, c[1]), SetChild(a, args[2], l, c[2]), RelCell(a, args[3], l, c)>>

(* An image takes a set and a relation; b is the state that is kept, s the *)
(* one that is quantified away.                                            *)
ImageOperands(a, op, args, l, b, s) ==
  <<SetChild(a, args[1], l, s),
    RelCell(a, args[2], l, IF op = "post_image" THEN <<s, b>> ELSE <<b, s>>)>>

TopOf(a, args) == Max({Level(a, args[k]) : k \in DOMAIN args})

----------------------------------------------------------------------------
(* gc, once the live slots are known.  The set table keeps what names live *)
(* slots only; the relation tables, whose keys hold a level, and the full  *)
(* relations are dropped.                                                  *)

RestrictTo(f, keys) == [k \in keys |-> f[k]]

SetEntries(a, live) ==
  {k \in DOMAIN a.memo : k[1] \in SetOp /\ {k[2], k[3], a.memo[k]} \subseteq live}

(* Mutants: the relation tables are filtered as the set table is, whose    *)
(* first word is an operation and not a node; the full relations are kept. *)
SweptAlike(a, live) ==
  [a EXCEPT !.table = RestrictTo(@, {n \in DOMAIN a.table : a.table[n] \in live}),
            !.memo = RestrictTo(@, SetEntries(a, live) \cup
                       {k \in DOMAIN a.memo : /\ k[1] \notin SetOp
                                              /\ {k[3], k[4], a.memo[k]} \subseteq live}),
            !.full = [l \in {} |-> NoId],
            !.free = Slots(a) \ live]
SweptKeepingFull(a, live) ==
  [a EXCEPT !.table = RestrictTo(@, {n \in DOMAIN a.table : a.table[n] \in live}),
            !.memo = RestrictTo(@, SetEntries(a, live)),
            !.free = Slots(a) \ live]

Swept(a, live) ==
  [a EXCEPT !.table = RestrictTo(@, {n \in DOMAIN a.table : a.table[n] \in live}),
            !.memo = RestrictTo(@, SetEntries(a, live)),
            !.full = [l \in {} |-> NoId],
            !.free = Slots(a) \ live]

----------------------------------------------------------------------------
(* What the arena promises.                                                *)

TerminalsInPlace(a) ==
  /\ Terminals \subseteq Live(a)
  /\ \A t \in Terminals : At(a, t) = Terminal

(* A node is of one kind at one level, with the edges of that kind; its    *)
(* children are in use, nearer the terminals and of its own kind.          *)
Fits(a, i, k, l) ==
  /\ i \in Live(a)
  /\ Level(a, i) < l
  /\ Kind(a, i) \in {k, "terminal"}

WellFormed(a) ==
  \A i \in Inner(a) :
    /\ Kind(a, i) \in {"set", "rel"}
    /\ Level(a, i) \in Levels(a)
    /\ DOMAIN Edges(a, i) = IF Kind(a, i) = "set" THEN States(a, Level(a, i))
                            ELSE Cells(a, Level(a, i))
    /\ \A c \in DOMAIN Edges(a, i) : Fits(a, Edges(a, i)[c], Kind(a, i), Level(a, i))

(* No node that its kind's rule would leave out.                           *)
Reduced(a) ==
  \A i \in Inner(a) :
    IF Kind(a, i) = "set" THEN ~ IsConstant(Edges(a, i))
    ELSE ~ IsEmptyBlock(Edges(a, i)) /\ ~ IsDiagonal(Edges(a, i))

(* The unique table holds exactly the nodes in use, each under its content.*)
TableExact(a) ==
  /\ \A i \in Inner(a) : At(a, i) \in DOMAIN a.table /\ a.table[At(a, i)] = i
  /\ \A n \in DOMAIN a.table : a.table[n] \in Inner(a) /\ At(a, a.table[n]) = n

(* The full relation of a level is still the node that create_rel_node     *)
(* would return for it.                                                    *)
FullExact(a) ==
  \A l \in DOMAIN a.full :
    /\ l \in Levels(a)
    /\ l > 0 => l - 1 \in DOMAIN a.full
    /\ Fits(a, a.full[l], "rel", l + 1)
    /\ a.full[l] # Zero
    /\ IF a.domains[l + 1] = 1 THEN a.full[l] = Below(a, l)
       ELSE At(a, a.full[l]) =
              [kind |-> "rel", level |-> l, edges |-> [c \in Cells(a, l) |-> Below(a, l)]]

(* No table entry names a slot that is not in use.                         *)
MemoLive(a) ==
  \A k \in DOMAIN a.memo : {k[2], k[3], a.memo[k]} \subseteq Live(a)

ArenaOK(a) ==
  /\ TerminalsInPlace(a) /\ WellFormed(a) /\ Reduced(a)
  /\ TableExact(a) /\ FullExact(a) /\ MemoLive(a)
=============================================================================
