---------------------------- MODULE MddOutcomes -----------------------------
(***************************************************************************)
(* What the nodes of the composite forest stand for: the outcome at every  *)
(* assignment of states to the variables, an integer, a truth value (0 or  *)
(* 1) or Undet.  An operation on meanings is defined assignment by         *)
(* assignment, without diagrams, caches or recursion.                      *)
(*                                                                         *)
(* Where operands are Undet, four short cuts of the code look at diagrams  *)
(* instead of outcomes: f xor f is False, a choice between equal diagrams  *)
(* does not ask its condition, and the constants False and True decide     *)
(* `and` and `or` whatever the other operand.  Whether they apply depends  *)
(* on how the operands were built, so an operation allows a set of         *)
(* outcomes; it has one element wherever nothing is Undet.                 *)
(***************************************************************************)
EXTENDS MddForest

VARIABLES
  forest,      \* MtMdd2Manager
  order        \* the headers: the variable of every level

(* Assignments name all variables, those not declared yet included.        *)
Assignments ==
  {s \in [Label -> UNION {0 .. States[x] - 1 : x \in Label}] :
     \A x \in Label : s[x] < States[x]}

Truth(p) == IF p THEN 1 ELSE 0

(* The outcome of one operation on outcomes of the kinds it is made for.   *)
LogicOf(op, o) ==
  IF op = "ite" THEN (IF o[1] = Undet THEN Undet ELSE IF o[1] = 1 THEN o[2] ELSE o[3])
  ELSE IF \E k \in DOMAIN o : o[k] = Undet THEN Undet
  ELSE CASE op = "not" -> Truth(o[1] = 0)
         [] op = "and" -> Truth(o[1] = 1 /\ o[2] = 1)
         [] op = "or" -> Truth(o[1] = 1 \/ o[2] = 1)
         [] op \in {"xor", "neq"} -> Truth(o[1] # o[2])
         [] op = "eq" -> Truth(o[1] = o[2])

(* A quotient is the number of whole divisors in the dividend: what is     *)
(* left is smaller than the divisor and has the dividend's sign.           *)
Divided(x, y) ==
  CHOOSE q \in -Size(x) .. Size(x) :
    LET r == x - q * y
    IN Size(r) < Size(y) /\ (r = 0 \/ (r > 0) = (x > 0))

ArithmeticOf(op, x, y) ==
  IF x = Undet \/ y = Undet THEN Undet
  ELSE CASE op = "add" -> x + y
         [] op = "sub" -> x - y
         [] op = "mul" -> x * y
         [] op = "div" -> (IF y = 0 THEN Undet ELSE Divided(x, y))
         [] op = "min" -> (IF x < y THEN x ELSE y)
         [] op = "max" -> (IF x < y THEN y ELSE x)

(* Nothing equals or is below an undetermined value; the other comparisons *)
(* are the negations of these.                                             *)
ComparisonOf(op, x, y) ==
  LET known == x # Undet /\ y # Undet
  IN CASE op = "eq" -> Truth(known /\ x = y)
       [] op = "neq" -> Truth(~ known \/ x # y)
       [] op = "lt" -> Truth(known /\ x < y)
       [] op = "gt" -> Truth(known /\ x > y)
       [] op = "lte" -> Truth(~ known \/ x <= y)
       [] op = "gte" -> Truth(~ known \/ x >= y)

OutcomeOf(op, kinds, o) ==
  IF op = "ite" THEN (IF kinds[1] = "b" THEN LogicOf("ite", o) ELSE Undet)
  ELSE IF \A k \in DOMAIN kinds : kinds[k] = "b"
    THEN IF op \in Logic \cup {"eq", "neq"} THEN LogicOf(op, o) ELSE Undet
  ELSE IF \A k \in DOMAIN kinds : kinds[k] = "v"
    THEN IF op \in Arithmetic THEN ArithmeticOf(op, o[1], o[2])
         ELSE IF op \in Comparison THEN ComparisonOf(op, o[1], o[2])
         ELSE Undet
  ELSE Undet

(* The outcomes the short cuts add.                                        *)
ShortcutsOf(op, kinds, o) ==
  IF \E k \in DOMAIN kinds : kinds[k] # "b" /\ (op # "ite" \/ k = 1) THEN {}
  ELSE CASE op = "ite" /\ o[1] = Undet /\ o[2] = o[3] -> {o[2]}
         [] op \in {"xor", "neq", "eq"} /\ o[1] = Undet /\ o[2] = Undet -> {Truth(op = "eq")}
         [] op = "and" /\ (o[1] = 0 \/ o[2] = 0) -> {0}
         [] op = "or" /\ (o[1] = 1 \/ o[2] = 1) -> {1}
         [] OTHER -> {}

Allowed(op, kinds, o) == {OutcomeOf(op, kinds, o)} \cup ShortcutsOf(op, kinds, o)

----------------------------------------------------------------------------
(* The meaning of a handle: the outcomes it may have at every assignment.  *)
Always(o) == [s \in Assignments |-> {o}]
StateOf(x) == [s \in Assignments |-> {s[x]}]

(* The outcomes of operands that have these sets of outcomes.              *)
Tuples(sets) ==
  CASE Len(sets) = 1 -> {<<x>> : x \in sets[1]}
    [] Len(sets) = 2 -> sets[1] \X sets[2]
    [] Len(sets) = 3 -> sets[1] \X sets[2] \X sets[3]

Meaning(op, kinds, fns) ==
  [s \in Assignments |->
    UNION {Allowed(op, kinds, o) : o \in Tuples([k \in DOMAIN fns |-> fns[k][s]])}]

(* The node over variable x with these meanings at its states.             *)
Branching(x, fns) == [s \in Assignments |-> fns[s[x] + 1][s]]

(* The meaning with variable x held at state n.                            *)
HeldAt(fn, x, n) == [s \in Assignments |-> fn[[s EXCEPT ![x] = n]]]

----------------------------------------------------------------------------
(* Where a diagram leads; `ord` is the variable of each level.             *)

EdgeTaken(a, ord, i, s) == At(a, i).edges[s[ord[Level(a, i) + 1]] + 1]

Outcomes(a, ord, s) ==
  LET out[i \in LiveSlots(a)] ==
        IF IsInner(a, i) THEN out[EdgeTaken(a, ord, i, s)] ELSE Outcome(a, i)
  IN out
Follow(a, ord, i, s) == Outcomes(a, ord, s)[i]

OutcomeAt(node, s) == Follow(forest[node[1]], order, node[2], s)

(* No two live slots of an arena hold the same function: comparing ids is  *)
(* comparing functions, across collections that recycle slots.             *)
Canonical ==
  \A side \in {"b", "v"} :
    LET function == [i \in LiveSlots(forest[side]) |->
                       [s \in Assignments |-> OutcomeAt(<<side, i>>, s)]]
    IN IsInjective(function)

(* The operation on outcomes that a recursive operation computes.          *)
Defined(op) == CASE op = "veq" -> "eq" [] op = "vlt" -> "lt" [] op = "vite" -> "ite" [] OTHER -> op

Operands(op) == 1 .. Arity(op)
Kinds(op) == [k \in Operands(op) |-> ArgSide(op, k)]

(* Slot r is a result of the operation on the slots args: all of them in   *)
(* use, and its outcome allowed at every assignment.                       *)
Answers(op, args, r) ==
  LET result == <<ResultSide(op), r>>
      outcomes(s) == [k \in Operands(op) |-> OutcomeAt(<<ArgSide(op, k), args[k]>>, s)]
  IN /\ r \in LiveSlots(forest[ResultSide(op)])
     /\ \A k \in Operands(op) : args[k] \in LiveSlots(forest[ArgSide(op, k)])
     /\ \A s \in Assignments :
          OutcomeAt(result, s) \in Allowed(Defined(op), Kinds(op), outcomes(s))

(* Every computed-table entry, of one arena or across the two, names live  *)
(* slots only, and what they hold now is related by the operation: no hit  *)
(* returns the result of nodes that were collected and recycled.           *)
MemoSound ==
  \A op \in Recursive : \A key \in DOMAIN Memo(forest, op) :
    key[1] = op => Answers(op, key[2], Memo(forest, op)[key])
=============================================================================
