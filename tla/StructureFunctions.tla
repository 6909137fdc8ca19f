------------------------- MODULE StructureFunctions -------------------------
(***************************************************************************)
(* What bss promises a client: handles hold binary structure functions and *)
(* stay as they are until they are dropped.  There are no nodes, no        *)
(* reference counts, no caches and no collections here.                    *)
(*                                                                         *)
(* The externally visible behaviour of bss::bdd::BddMgr: a call computes   *)
(* the function of its operands when it is made (`result`) and hands it    *)
(* out later; an rpn evaluates its tokens on a stack of functions.         *)
(***************************************************************************)
EXTENDS Integers, Sequences

CONSTANTS
  Var, Handle, Name,
  None,             \* no function: an empty handle, no call in progress
  MaxList           \* bound: longest list given to and(list), or(list)

(* Assignments give undeclared variables a value too; no function depends  *)
(* on it.                                                                  *)
Assignment == [Var -> BOOLEAN]

VARIABLES
  order,    \* declared variables, lowest level first
  holds,    \* handle -> function or None
  result,   \* function of the call in progress, or None
  stack,    \* functions on the stack of the rpn in progress
  saved     \* name -> function saved by the rpn in progress, or None

absvars == <<order, holds, result, stack, saved>>

Falsity == [x \in Assignment |-> FALSE]
Truth == [x \in Assignment |-> TRUE]
Projection(v) == [x \in Assignment |-> x[v]]
Mux(f, g, h) == [x \in Assignment |-> IF f[x] THEN g[x] ELSE h[x]]

(* The function of an operation; unused operands are ignored.              *)
Meaning(op, f, g, h) ==
  CASE op = "not" -> [x \in Assignment |-> ~ f[x]]
    [] op = "and" -> [x \in Assignment |-> f[x] /\ g[x]]
    [] op = "or" -> [x \in Assignment |-> f[x] \/ g[x]]
    [] op = "xor" -> [x \in Assignment |-> f[x] # g[x]]
    [] op = "ite" -> Mux(f, g, h)

Ops == {"not", "and", "or", "xor", "ite"}

Cofactor(f, v, b) == [x \in Assignment |-> f[[x EXCEPT ![v] = b]]]
DependsOn(f, v) == Cofactor(f, v, FALSE) # Cofactor(f, v, TRUE)
Support(f) == {k \in 1 .. Len(order) : DependsOn(f, order[k])}
TopVar(f) == order[CHOOSE k \in Support(f) : \A j \in Support(f) : j <= k]

Held == {holds[h] : h \in Handle} \ {None}
Unused == {h \in Handle : holds[h] = None}

AbsInit ==
  /\ order = <<>>
  /\ holds = [h \in Handle |-> None]
  /\ result = None
  /\ stack = <<>>
  /\ saved = [n \in Name |-> None]

Give(h, f) == h \in Unused /\ holds' = [holds EXCEPT ![h] = f]

Clone(h, g) ==
  /\ result = None
  /\ holds[h] # None
  /\ Give(g, holds[h])
  /\ UNCHANGED <<order, result, stack, saved>>

Drop(h) ==
  /\ result = None
  /\ holds[h] # None
  /\ holds' = [holds EXCEPT ![h] = None]
  /\ UNCHANGED <<order, result, stack, saved>>

Declared == {order[k] : k \in 1 .. Len(order)}
Declare(v) == order' = IF v \in Declared THEN order ELSE Append(order, v)

DefineVar(v, h) ==
  /\ result = None
  /\ Declare(v)
  /\ Give(h, Projection(v))
  /\ UNCHANGED <<result, stack, saved>>

(* get_children: the cofactors on the highest variable it depends on.      *)
Children(h, low, high) ==
  /\ result = None
  /\ holds[h] # None
  /\ Support(holds[h]) # {}
  /\ {low, high} \subseteq Unused /\ low # high
  /\ LET v == TopVar(holds[h])
     IN holds' = [holds EXCEPT ![low] = Cofactor(holds[h], v, FALSE),
                               ![high] = Cofactor(holds[h], v, TRUE)]
  /\ UNCHANGED <<order, result, stack, saved>>

(* The functions a call may have been asked for.                           *)
Requests ==
  {Falsity, Truth}
  \cup {Meaning(op, f, g, h) : op \in Ops, f \in Held, g \in Held, h \in Held}

Request ==
  /\ result = None
  /\ result' # None
  /\ result' \in Requests
  /\ UNCHANGED <<order, holds, stack, saved>>

(* create_node(h, x0, x1): a choice on the header's variable.              *)
RequestNode(v, lo, hi) ==
  /\ result = None
  /\ v \in Declared
  /\ result' = Mux(Projection(v), hi, lo)
  /\ UNCHANGED <<order, holds, stack, saved>>

(* and(list), or(list): of no function, the unit.                          *)
Conjunction(fs) == [x \in Assignment |-> \A k \in DOMAIN fs : fs[k][x]]
Disjunction(fs) == [x \in Assignment |-> \E k \in DOMAIN fs : fs[k][x]]

RequestList(fs) ==
  /\ result = None
  /\ result' \in {Conjunction(fs), Disjunction(fs)}
  /\ UNCHANGED <<order, holds, stack, saved>>

Respond(h) ==
  /\ result # None
  /\ Give(h, result)
  /\ result' = None
  /\ UNCHANGED <<order, stack, saved>>

----------------------------------------------------------------------------
(* rpn.                                                                    *)
Depth == Len(stack)
Operand(k) == stack[Depth + 1 - k]    \* counted from the top of the stack

Pushable == {Falsity, Truth} \cup ({saved[n] : n \in Name} \ {None})

TokenPush(f) ==
  /\ result = None
  /\ stack' = Append(stack, f)
  /\ UNCHANGED <<order, holds, result, saved>>

TokenVariable(v) ==
  /\ result = None
  /\ Declare(v)
  /\ stack' = Append(stack, Projection(v))
  /\ UNCHANGED <<holds, result, saved>>

(* The operands leave the stack; the result waits to be put back.          *)
TokenOperator(op) ==
  LET k == IF op = "not" THEN 1 ELSE IF op = "ite" THEN 3 ELSE 2
  IN /\ result = None
     /\ Depth >= k
     /\ result' = CASE op = "not" -> Meaning(op, Operand(1), Operand(1), Operand(1))
                    [] op = "ite" -> Mux(Operand(3), Operand(2), Operand(1))
                    [] OTHER -> Meaning(op, Operand(2), Operand(1), Operand(1))
     /\ stack' = SubSeq(stack, 1, Depth - k)
     /\ UNCHANGED <<order, holds, saved>>

TokenResult ==
  /\ result # None
  /\ stack' = Append(stack, result)
  /\ result' = None
  /\ UNCHANGED <<order, holds, saved>>

TokenSave(n) ==
  /\ result = None /\ Depth > 0
  /\ saved' = [saved EXCEPT ![n] = Operand(1)]
  /\ UNCHANGED <<order, holds, result, stack>>

EndOfExpression ==
  /\ result = None
  /\ result' \in IF Depth = 1 THEN {None, Operand(1)} ELSE {None}
  /\ stack' = <<>>
  /\ saved' = [n \in Name |-> None]
  /\ UNCHANGED <<order, holds>>

AbsNext ==
  \/ \E h, g \in Handle : Clone(h, g)
  \/ \E h \in Handle : Drop(h) \/ Respond(h)
  \/ \E v \in Var, h \in Handle : DefineVar(v, h)
  \/ \E h, low, high \in Handle : Children(h, low, high)
  \/ Request
  \/ \E v \in Declared, lo, hi \in Held : RequestNode(v, lo, hi)
  \/ \E n \in 0 .. MaxList : \E fs \in [1 .. n -> Held] : RequestList(fs)
  \/ \E f \in Pushable : TokenPush(f)
  \/ \E v \in Var : TokenVariable(v)
  \/ \E op \in Ops : TokenOperator(op)
  \/ TokenResult
  \/ \E n \in Name : TokenSave(n)
  \/ EndOfExpression

AbsSpec == AbsInit /\ [][AbsNext]_absvars
=============================================================================
