------------------------------ MODULE MddForest ------------------------------
(***************************************************************************)
(* mddcore: the two arenas of the composite forest, a Boolean MDD arena    *)
(* and a value MTMDD arena over the same variables, and the parts that the *)
(* recursive operations on them are made of.                               *)
(*                                                                         *)
(* A forest is a record: two arenas and the two caches whose keys and      *)
(* results lie in different arenas.  The memo tables here never lose an    *)
(* entry, which is the hardest case: the real ones may lose any (see       *)
(* HintTable).  utable and vtable are one function `table` from a node's   *)
(* contents to its slot.                                                   *)
(*                                                                         *)
(* A header id is its level: defvar gives every new header the next level. *)
(***************************************************************************)
EXTENDS Integers, Sequences, FiniteSets, FiniteSetsExt, Functions

CONSTANTS
  Label,      \* variable names
  States,     \* number of states of every variable
  Undet       \* the undetermined outcome, a terminal of both arenas

ASSUME VariableAssumption == States \in [Label -> Nat \ {0}]
ASSUME UndetAssumption == Undet \notin Int

NoId == -1
Zero == 0
One == 1
BUndet == 2     \* the slot of Undet in the Boolean arena
VUndet == 0     \* and in the value arena

Leaf(v) == [value |-> v]
Inner(l, edges) == [level |-> l, edges |-> edges]

Terminals(side) == IF side = "b" THEN {Zero, One, BUndet} ELSE {VUndet}
TerminalNodes(side) ==
  IF side = "b" THEN <<Leaf(0), Leaf(1), Leaf(Undet)>> ELSE <<Leaf(Undet)>>

NoEntries == [k \in {} |-> NoId]

NewArena(side) ==
  [nodes |-> TerminalNodes(side), free |-> {}, table |-> NoEntries, memo |-> NoEntries]

NewForest ==
  [b |-> NewArena("b"),
   v |-> NewArena("v"),
   compared |-> NoEntries,    \* bcache
   chosen |-> NoEntries]      \* vite_cache

At(a, i) == a.nodes[i + 1]
IsInner(a, i) == "edges" \in DOMAIN At(a, i)
Level(a, i) == IF IsInner(a, i) THEN At(a, i).level ELSE -1
Outcome(a, i) == At(a, i).value

Slots(a) == 0 .. Len(a.nodes) - 1
LiveSlots(a) == Slots(a) \ a.free
LiveNodeCount(st) == Cardinality(LiveSlots(st.b)) + Cardinality(LiveSlots(st.v))

----------------------------------------------------------------------------
(* Building nodes: every operator returns <<slot, arena>>.                 *)

Extend(f, key, val) == [k \in DOMAIN f \cup {key} |-> IF k = key THEN val ELSE f[k]]

(* alloc takes the last free slot; the list is kept in ascending order.    *)
NewSlot(a) == IF a.free = {} THEN Len(a.nodes) ELSE Max(a.free)

Store(a, n, slot) ==
  [a EXCEPT !.nodes = IF a.free = {} THEN Append(@, n) ELSE [@ EXCEPT ![slot + 1] = n],
            !.free = @ \ {slot},
            !.table = Extend(@, n, slot)]

Intern(a, n) ==
  IF n \in DOMAIN a.table THEN <<a.table[n], a>> ELSE <<NewSlot(a), Store(a, n, NewSlot(a))>>

Agree(edges) == \A n \in DOMAIN edges : edges[n] = edges[1]

(* Mutant: a node whose edges agree is built all the same.                 *)
MakeNodeUnreduced(a, l, edges) == Intern(a, Inner(l, edges))

(* create_node of either arena.                                            *)
MakeNode(a, l, edges) ==
  IF Agree(edges) THEN <<edges[1], a>> ELSE Intern(a, Inner(l, edges))

ValueNode(a, v) == Intern(a, Leaf(v))

(* The same on a forest: r is a slot and what has become of arena `side`.  *)
Built(st, side, r) == <<r[1], [st EXCEPT ![side] = r[2]]>>

----------------------------------------------------------------------------
(* The computed tables.                                                    *)

Logic == {"not", "and", "or", "xor", "ite"}
Arithmetic == {"add", "sub", "mul", "div", "min", "max"}
Comparison == {"eq", "neq", "lt", "lte", "gt", "gte"}
Operation == Logic \cup Arithmetic \cup Comparison

(* The operations that recurse; the comparisons are made of those.         *)
Crossing == {"veq", "vlt", "vite"}
Recursive == Logic \cup Arithmetic \cup Crossing
Commutative == {"and", "or", "xor", "add", "mul", "min", "max"}

Arity(op) == CASE op = "not" -> 1 [] op \in {"ite", "vite"} -> 3 [] OTHER -> 2

(* The arena an operation's k-th operand lies in, and its result.          *)
ArgSide(op, k) == IF op \in Logic \/ (op = "vite" /\ k = 1) THEN "b" ELSE "v"
ResultSide(op) == IF op \in Logic \cup {"veq", "vlt"} THEN "b" ELSE "v"

Memo(st, op) ==
  CASE op \in {"veq", "vlt"} -> st.compared
    [] op = "vite" -> st.chosen
    [] OTHER -> st[ResultSide(op)].memo

Remember(st, op, args, r) ==
  LET key == <<op, args>>
  IN CASE op \in {"veq", "vlt"} -> [st EXCEPT !.compared = Extend(@, key, r)]
       [] op = "vite" -> [st EXCEPT !.chosen = Extend(@, key, r)]
       [] OTHER -> [st EXCEPT ![ResultSide(op)].memo = Extend(@, key, r)]

(* A commutative operation looks its operands up in the order of their ids.*)
Sorted(op, args) ==
  IF op \in Commutative /\ args[1] > args[2] THEN <<args[2], args[1]>> ELSE args

----------------------------------------------------------------------------
(* The arms of the recursive operations, on slots.                         *)

(* Rust's integer division rounds towards zero.                            *)
Size(n) == IF n < 0 THEN -n ELSE n

Quotient(x, y) ==
  LET q == Size(x) \div Size(y)
  IN IF (x < 0) = (y < 0) THEN q ELSE -q

Compute(op, x, y) ==
  CASE op = "add" -> x + y
    [] op = "sub" -> x - y
    [] op = "mul" -> x * y
    [] op = "div" -> Quotient(x, y)
    [] op = "min" -> Min({x, y})
    [] op = "max" -> Max({x, y})

(* A choice decided by its condition, or between equal branches, or NoId.  *)
(* A choice looks here before it looks in its cache.                       *)
ChosenBy(f, g, h, undet) ==
  CASE f = One -> g
    [] f = Zero -> h
    [] f = BUndet -> undet
    [] OTHER -> IF g = h THEN g ELSE NoId

Chosen(op, args) ==
  CASE op = "ite" -> ChosenBy(args[1], args[2], args[3], BUndet)
    [] op = "vite" -> ChosenBy(args[1], args[2], args[3], VUndet)
    [] OTHER -> NoId

AllLeaves(st, op, args) == \A k \in DOMAIN args : ~ IsInner(st[ArgSide(op, k)], args[k])

(* A logical operation decided by one operand or by equal ones, or NoId.   *)
Negated(f) == CASE f = Zero -> One [] f = One -> Zero [] f = BUndet -> BUndet [] OTHER -> NoId

SettledLogic(op, f, g) ==
  LET other(t) == IF f = t THEN g ELSE f
  IN IF BUndet \in {f, g} THEN BUndet
     ELSE IF op = "and" /\ Zero \in {f, g} THEN Zero
     ELSE IF op = "and" /\ One \in {f, g} THEN other(One)
     ELSE IF op = "or" /\ One \in {f, g} THEN One
     ELSE IF op \in {"or", "xor"} /\ Zero \in {f, g} THEN other(Zero)
     ELSE IF f # g THEN NoId
     ELSE IF op = "xor" THEN Zero ELSE f

SettledComparison(st, op, f, g) ==
  IF VUndet \in {f, g} THEN Zero
  ELSE IF IsInner(st.v, f) \/ IsInner(st.v, g) THEN NoId
  ELSE LET x == Outcome(st.v, f)
           y == Outcome(st.v, g)
       IN IF IF op = "vlt" THEN x < y ELSE x = y THEN One ELSE Zero

(* Results that need no recursion and no new node, NoId if there is none.  *)
Settled(st, op, args) ==
  CASE op = "not" -> Negated(args[1])
    [] op \in {"and", "or", "xor"} -> SettledLogic(op, args[1], args[2])
    [] op \in Arithmetic -> (IF VUndet \in {args[1], args[2]} THEN VUndet ELSE NoId)
    [] op \in {"veq", "vlt"} -> SettledComparison(st, op, args[1], args[2])
    [] OTHER -> NoId

(* Division by the constant zero is undetermined, and is not remembered.   *)
DividesByZero(st, op, args) ==
  /\ op = "div"
  /\ \A k \in 1 .. 2 : ~ IsInner(st.v, args[k])
  /\ Outcome(st.v, args[1]) # Undet /\ Outcome(st.v, args[2]) = 0

(* xor with One is the negation of the other operand.                      *)
Negates(op, args) == op = "xor" /\ One \in {args[1], args[2]}
OtherThanOne(args) == <<IF args[1] = One THEN args[2] ELSE args[1]>>

(* Two leaves of the value arena.                                          *)
Computes(st, op, args) == op \in Arithmetic /\ AllLeaves(st, op, args)

ComputedNode(st, op, args) ==
  ValueNode(st.v, Compute(op, Outcome(st.v, args[1]), Outcome(st.v, args[2])))

(* The top level of the operands; an operand that lies below it is its own *)
(* cofactor for every state.                                               *)
OperandLevel(st, op, args, k) == Level(st[ArgSide(op, k)], args[k])

Top(st, op, args) == Max({OperandLevel(st, op, args, k) : k \in DOMAIN args})

CofactorAt(a, i, l, n) == IF Level(a, i) = l THEN At(a, i).edges[n] ELSE i

Cofactors(st, op, args, n) ==
  [k \in DOMAIN args |-> CofactorAt(st[ArgSide(op, k)], args[k], Top(st, op, args), n)]

Width(st, op, args) ==
  LET k == CHOOSE j \in DOMAIN args : OperandLevel(st, op, args, j) = Top(st, op, args)
  IN Len(At(st[ArgSide(op, k)], args[k]).edges)

----------------------------------------------------------------------------
(* gc, once the live slots of both arenas are known.                       *)

Edges(a, i) == IF IsInner(a, i) THEN Range(At(a, i).edges) ELSE {}

RestrictTo(f, keys) == [k \in keys |-> f[k]]
LiveNodes(a, live) == {n \in DOMAIN a.table : a.table[n] \in live}

(* A memoized result stays if it and its operands do; not has one operand. *)
LiveEntries(a, live) ==
  {key \in DOMAIN a.memo :
     a.memo[key] \in live /\ \A k \in DOMAIN key[2] : key[2][k] \in live}

SweptArena(a, live) ==
  [a EXCEPT !.free = Slots(a) \ live,
            !.table = RestrictTo(@, LiveNodes(a, live)),
            !.memo = RestrictTo(@, LiveEntries(a, live))]

(* The caches across the arenas are flushed.                               *)
Swept(st, live) ==
  [b |-> SweptArena(st.b, live["b"]), v |-> SweptArena(st.v, live["v"]),
   compared |-> NoEntries, chosen |-> NoEntries]

ClearCaches(st) ==
  [b |-> [st.b EXCEPT !.memo = NoEntries], v |-> [st.v EXCEPT !.memo = NoEntries],
   compared |-> NoEntries, chosen |-> NoEntries]
=============================================================================
