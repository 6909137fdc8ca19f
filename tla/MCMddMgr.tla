------------------------------ MODULE MCMddMgr ------------------------------
(* Values for TLC: a two-state and a three-state variable.                 *)
EXTENDS MddMgr

MCStates == [n \in Label |-> IF n = "x" THEN 2 ELSE 3]

x == <<"var", "x">>
y == <<"var", "y">>
Op(op) == <<"op", op>>
Int1 == <<"int", 1>>
False == <<"bool", 0>>
True == <<"bool", 1>>
Save == <<"save", "s">>
Load == <<"load", "s">>

(* The smaller of x and y; a comparison negated; an operator without its   *)
(* operands; an operand that is undetermined where x < y, beside False.    *)
MCExpressions == {
  <<x, y, Op("lt"), x, y, Op("ite")>>,
  <<y, Int1, Op("sub"), Save, x, Op("neq"), Op("not"), Load, x, Op("gte"), Op("or")>>,
  <<x, y, Op("eq"), Op("and")>>,
  <<x, y, Op("lt"), x, y, Op("and"), True, Op("ite"), False, Op("and")>> }
=============================================================================
