---------------------------- MODULE BddSemantics ----------------------------
(***************************************************************************)
(* What the nodes of the arena mean, and the correctness of BddMgr in      *)
(* those terms: the computed table only ever holds true results, equal     *)
(* handles are equal functions, collections reclaim exactly the garbage,   *)
(* and the manager implements StructureFunctions.                          *)
(*                                                                         *)
(* The theorems of BddSemantics_proofs and BddRefinement_proofs state them *)
(* for every number of variables, handles and calls.                       *)
(***************************************************************************)
EXTENDS BddInvariant

CONSTANT None

Assignment == [Var -> BOOLEAN]

(* The absence of a function is no function.                               *)
ASSUME NoneAssumption == None \notin [Assignment -> BOOLEAN]

(* The terminal that each node leads to under assignment x.  A reclaimed   *)
(* slot leads nowhere.                                                     *)
Valuation(x) ==
  LET v[i \in Slots] ==
        IF i \in Inner
          THEN IF x[headers[Level(i) + 1]] THEN v[High(i)] ELSE v[Low(i)]
          ELSE IF i \in Terminals THEN i ELSE Undet
  IN v
Value(i, x) == Valuation(x)[i]

(* The operations on terminals.  Undet is not reachable through bss.       *)
Bit(b) == IF b THEN One ELSE Zero
Scalar(op, a, b, c) ==
  CASE op = "not" -> Bit(a = Zero)
    [] op = "and" -> Bit(a = One /\ b = One)
    [] op = "or" -> Bit(a = One \/ b = One)
    [] op = "xor" -> Bit(a # b)
    [] op = "ite" -> IF a = One THEN b ELSE c

(* What op has to return for operands a, under assignment x.               *)
Applied(op, a, x) == Scalar(op, Value(a[1], x), Value(a[2], x), Value(a[3], x))

(* Node i denotes the function of op applied to a.                         *)
Denotes(i, op, a) == \A x \in Assignment : Value(i, x) = Applied(op, a, x)

FunctionOf(i) == [x \in Assignment |-> Value(i, x) = One]

Reachable(rs) ==
  LET step[n \in 0 .. Len(headers)] ==
        IF n = 0 THEN rs \cup Terminals ELSE step[n - 1] \cup Kids(step[n - 1])
  IN step[Len(headers)]

----------------------------------------------------------------------------
(* Every entry of the computed table is the result of the operation it is  *)
(* keyed on, for the nodes its ids designate now: collections and the      *)
(* reuse of slots never leave a stale entry behind.                        *)
CacheSound ==
  \A k \in DOMAIN cache : Denotes(cache[k], k[1], <<k[2], k[3], k[4]>>)

(* BddNode::eq compares ids; handles are equal exactly when the functions  *)
(* are.                                                                    *)
EqIsFunctionEquality ==
  \A i, j \in Held : i = j <=> FunctionOf(i) = FunctionOf(j)

(* A collection leaves exactly what a handle reaches: it neither reclaims  *)
(* a node in use nor leaks one.                                            *)
GcExact ==
  [][SweepStep => (Slots \ free)' = Reachable(DOMAIN roots)]_allvars

----------------------------------------------------------------------------
(* BddMgr implements StructureFunctions.                                   *)

(* The function the running call will return: that of the outermost apply  *)
(* or of its result, with the rest of the list still to be folded in.      *)
First(x) ==
  IF calls # <<>> THEN Applied(calls[1].op, calls[1].args, x) = One ELSE Value(ret, x) = One

Pending ==
  [x \in Assignment |->
     IF todo = <<>> THEN First(x)
     ELSE IF todo[1].op = "and"
       THEN First(x) /\ \A k \in DOMAIN todo : Value(todo[k].arg, x) = One
       ELSE First(x) \/ \E k \in DOMAIN todo : Value(todo[k].arg, x) = One]

FunctionOrNone(i) == IF i = NoId THEN None ELSE FunctionOf(i)

holdsBar == [h \in Handle |-> FunctionOrNone(handle[h])]
resultBar == IF pc \in {"op", "rpnop"} THEN Pending ELSE None
stackBar == [k \in DOMAIN rpn.stack |-> FunctionOf(rpn.stack[k])]
savedBar == [n \in Name |-> FunctionOrNone(rpn.saved[n])]

Abs == INSTANCE StructureFunctions WITH
  order <- headers, holds <- holdsBar, result <- resultBar,
  stack <- stackBar, saved <- savedBar

(* Node tables, reference counts, caches and collections are invisible: a  *)
(* client sees functions that stay what they are.                          *)
Implements == Abs!AbsSpec

(* A call that was made returns: the recursion ends, the worklist of a     *)
(* collection empties, an expression is read to its end.                   *)
CallsReturn == pc # "idle" ~> pc = "idle"

----------------------------------------------------------------------------
(* The inductive invariant behind these properties.                        *)

(* Nothing the library holds is Undet or leads to it: bss offers no way to *)
(* obtain it.                                                              *)
Defined ==
  /\ \A i \in Inner : Low(i) # Undet /\ High(i) # Undet
  /\ \A k \in DOMAIN cache : Undet \notin {k[2], k[3], k[4], cache[k]}
  /\ Undet \notin Held \cup RawIds

(* Every level belongs to a declared variable, and to no two.              *)
HeadersDistinct ==
  /\ \A l \in DOMAIN headers : vars[headers[l]] # NoId
  /\ \A l, m \in DOMAIN headers : headers[l] = headers[m] => l = m

(* What the callee of frame c has to return.                               *)
Awaited(c, x) ==
  CASE c.stage = "low" -> Applied(c.op, Cofactors0(c.args), x)
    [] c.stage = "high" -> Applied(c.op, Cofactors1(c.args), x)
    [] c.stage = "negate" -> Applied(c.op, c.args, x)

(* The results in the frames are what their operands ask for, and each     *)
(* frame waits for what its callee computes.                               *)
CallsMean ==
  /\ \A n \in DOMAIN calls : calls[n].stage = "high" =>
       Denotes(calls[n].low, calls[n].op, Cofactors0(calls[n].args))
  /\ \A n \in 1 .. Len(calls) - 1, x \in Assignment :
       Applied(calls[n + 1].op, calls[n + 1].args, x) = Awaited(calls[n], x)
  /\ calls # <<>> /\ ret # NoId => \A x \in Assignment : Value(ret, x) = Awaited(Top, x)

(* The rest of a list is folded by one operation.                          *)
OneFold == \A m, n \in DOMAIN todo : todo[m].op = todo[n].op

(* A collection marks nothing that no handle reaches.                      *)
MarkedReachable == marked \cup grey \subseteq Reachable(DOMAIN roots)

MeaningInv ==
  /\ IInv /\ Defined /\ HeadersDistinct /\ CacheSound /\ CallsMean
  /\ OneFold /\ MarkedReachable
=============================================================================
