------------------------ MODULE BddRefinement_proofs ------------------------
(***************************************************************************)
(* BddMgr implements StructureFunctions, for every number of variables,    *)
(* handles and calls: each step of the manager is a step of the abstract   *)
(* specification on the functions of the nodes, or changes none of them.   *)
(*                                                                         *)
(* A collection, a step of a recursion and a step of a list being folded   *)
(* are invisible; every other action is the abstract action of its call.   *)
(***************************************************************************)
EXTENDS BddSemantics_proofs

----------------------------------------------------------------------------
(* The functions of the nodes.                                             *)

LEMMA NodesAreFunctions ==
  /\ \A i : FunctionOf(i) \in [Assignment -> BOOLEAN] /\ FunctionOf(i) # None
  /\ \A i : FunctionOf(i)' \in [Assignment -> BOOLEAN] /\ FunctionOf(i)' # None
<1>1. \A i : FunctionOf(i) \in [Assignment -> BOOLEAN]
  BY DEF FunctionOf
<1>2. \A i : FunctionOf(i)' \in [Assignment -> BOOLEAN]
  BY DEF FunctionOf
<1> QED BY <1>1, <1>2, NoneAssumption

LEMMA FunctionKept ==
  ASSUME Same, NEW i \in Alloc, i \in Alloc'
  PROVE  FunctionOf(i)' = FunctionOf(i)
BY DEF Same, FunctionOf

LEMMA FunctionIs ==
  ASSUME NEW i, NEW f \in [Assignment -> BOOLEAN],
         \A x \in Assignment : Value(i, x)' = One <=> f[x]
  PROVE  FunctionOf(i)' = f
BY DEF FunctionOf

(* What a call returns is a function too.                                  *)
LEMMA PendingIsFunction ==
  Pending \in [Assignment -> BOOLEAN] /\ Pending # None
<1>1. \A x : First(x) \in BOOLEAN
  BY DEF First
<1>2. Pending \in [Assignment -> BOOLEAN]
  BY <1>1 DEF Pending
<1> QED BY <1>2, NoneAssumption

LEMMA PendingIsFunctionNext ==
  Pending' \in [Assignment -> BOOLEAN] /\ Pending' # None
<1>1. \A x : First(x)' \in BOOLEAN
  BY DEF First
<1>2. Pending' \in [Assignment -> BOOLEAN]
  BY <1>1 DEF Pending
<1> QED BY <1>2, NoneAssumption

(* No call is in progress but while the manager computes.                  *)
LEMMA NoCall ==
  /\ pc \notin {"op", "rpnop"} <=> resultBar = None
  /\ pc' \notin {"op", "rpnop"} <=> resultBar' = None
BY PendingIsFunction, PendingIsFunctionNext DEF resultBar

----------------------------------------------------------------------------
(* What the client and a running rpn hold, before and after a step.        *)

Holdings == <<headers, holdsBar, stackBar, savedBar>>

LEMMA HoldsNow ==
  \A h \in Handle : /\ handle[h] = NoId => holdsBar[h] = None
                    /\ handle[h] # NoId => holdsBar[h] = FunctionOf(handle[h]) /\ holdsBar[h] # None
BY NodesAreFunctions DEF holdsBar, FunctionOrNone

LEMMA HoldsNext ==
  ASSUME NEW h \in Handle, NEW i, handle'[h] = i
  PROVE  holdsBar'[h] = IF i = NoId THEN None ELSE FunctionOf(i)'
BY DEF holdsBar, FunctionOrNone, FunctionOf, Value

LEMMA HandleKept ==
  ASSUME IInv, IInv', Same, NEW h \in Handle, handle'[h] = handle[h]
  PROVE  holdsBar'[h] = holdsBar[h]
<1>1. PICK i : i = handle[h] /\ i = handle'[h]
  OBVIOUS
<1>2. CASE i = NoId
  BY <1>1, <1>2, HoldsNow, HoldsNext
<1>3. CASE i # NoId
  <2>1. i \in Alloc /\ i \in Alloc'
    BY <1>1, <1>3 DEF IInv, Pinned, Held
  <2> QED BY <1>1, <1>3, <2>1, HoldsNow, HoldsNext, FunctionKept
<1> QED BY <1>2, <1>3

LEMMA HandlesKept ==
  ASSUME IInv, IInv', Same, handle' = handle
  PROVE  holdsBar' = holdsBar
<1>1. \A h \in Handle : holdsBar'[h] = holdsBar[h]
  BY HandleKept
<1>2. /\ holdsBar = [h \in Handle |-> holdsBar[h]]
      /\ holdsBar' = [h \in Handle |-> holdsBar'[h]]
  BY DEF holdsBar
<1> QED BY <1>1, <1>2

LEMMA HandleTakes ==
  ASSUME IInv, IInv', Same, NEW h \in Unused, NEW i, i # NoId,
         handle' = [handle EXCEPT ![h] = i]
  PROVE  Abs!Give(h, FunctionOf(i)')
<1>1. h \in Handle /\ handle[h] = NoId
  BY DEF Unused
<1>2. handle'[h] = i /\ \A g \in Handle : g # h => handle'[g] = handle[g]
  BY <1>1 DEF IInv, TypeOK
<1>3. holdsBar'[h] = FunctionOf(i)'
  BY <1>1, <1>2, HoldsNext
<1>4. \A g \in Handle : g # h => holdsBar'[g] = holdsBar[g]
  BY <1>2, HandleKept
<1>5. holdsBar' = [holdsBar EXCEPT ![h] = FunctionOf(i)']
  <2>1. /\ holdsBar = [g \in Handle |-> holdsBar[g]]
        /\ holdsBar' = [g \in Handle |-> holdsBar'[g]]
    BY DEF holdsBar
  <2> QED BY <1>1, <1>3, <1>4, <2>1
<1>6. h \in Abs!Unused
  BY <1>1, HoldsNow DEF Abs!Unused
<1> QED BY <1>5, <1>6 DEF Abs!Give

LEMMA FunctionsHeld ==
  \A i \in Held : FunctionOf(i) \in Abs!Held
<1> SUFFICES ASSUME NEW h \in Handle, handle[h] # NoId PROVE FunctionOf(handle[h]) \in Abs!Held
  BY DEF Held
<1> QED BY HoldsNow DEF Abs!Held

(* The stack of an rpn and the nodes it has saved.                         *)
StackIs ==
  /\ stackBar \in Seq([Assignment -> BOOLEAN])
  /\ Len(stackBar) = Len(rpn.stack) /\ DOMAIN stackBar = 1 .. Len(rpn.stack)
  /\ \A k \in 1 .. Len(rpn.stack) : stackBar[k] = FunctionOf(rpn.stack[k])

LEMMA StackNow == IInv => StackIs
<1> SUFFICES ASSUME IInv PROVE StackIs
  OBVIOUS
<1>1. rpn.stack \in Seq(Id)
  BY DEF IInv, TypeOK
<1>2. PICK n \in Nat : n = Len(rpn.stack) /\ DOMAIN rpn.stack = 1 .. n
  BY <1>1
<1>3. PICK f : f = stackBar /\ f = [k \in 1 .. n |-> FunctionOf(rpn.stack[k])]
  BY <1>2 DEF stackBar
<1>4. \A k \in 1 .. n : f[k] \in [Assignment -> BOOLEAN]
  BY <1>3, NodesAreFunctions
<1>5. f \in Seq([Assignment -> BOOLEAN]) /\ Len(f) = n /\ DOMAIN f = 1 .. n
  BY <1>3, <1>4
<1> QED BY <1>2, <1>3, <1>5 DEF StackIs

LEMMA StackNext == IInv' => StackIs'
BY StackNow, PTL

(* What is on the stack before and after a step is the same function.      *)
LEMMA ItemKept ==
  ASSUME IInv, IInv', Same,
         NEW k \in 1 .. Len(rpn.stack), NEW m \in 1 .. Len(rpn'.stack),
         rpn'.stack[m] = rpn.stack[k]
  PROVE  stackBar'[m] = stackBar[k]
<1>1. PICK i : i = rpn.stack[k] /\ i = rpn'.stack[m]
  OBVIOUS
<1>2. i \in Alloc
  <2>1. rpn.stack \in Seq(Id) /\ RawInv
    BY DEF IInv, TypeOK
  <2> QED BY <1>1, <2>1 DEF RawInv
<1>3. i \in Alloc'
  <2>1. rpn'.stack \in Seq(Id') /\ RawInv'
    BY DEF IInv, TypeOK
  <2> QED BY <1>1, <2>1 DEF RawInv
<1>4. stackBar[k] = FunctionOf(i)
  BY <1>1, StackNow DEF StackIs
<1>5. stackBar'[m] = FunctionOf(i)'
  <2>1. stackBar'[m] = FunctionOf(rpn.stack[m])'
    BY StackNext DEF StackIs
  <2>2. FunctionOf(rpn.stack[m])' = FunctionOf(i)'
    BY <1>1 DEF FunctionOf, Value
  <2> QED BY <2>1, <2>2
<1> QED BY <1>2, <1>3, <1>4, <1>5, FunctionKept

LEMMA StackKept ==
  ASSUME IInv, IInv', Same, rpn'.stack = rpn.stack
  PROVE  stackBar' = stackBar
<1>1. PICK n \in Nat : n = Len(rpn.stack) /\ n = Len(rpn'.stack)
  BY SMTT(30) DEF IInv, TypeOK
<1>2. \A k \in 1 .. n : stackBar'[k] = stackBar[k]
  BY <1>1, ItemKept
<1>3. /\ stackBar \in Seq([Assignment -> BOOLEAN]) /\ DOMAIN stackBar = 1 .. n
      /\ stackBar' \in Seq([Assignment -> BOOLEAN]) /\ DOMAIN stackBar' = 1 .. n
  BY <1>1, StackNow, StackNext DEF StackIs
<1> QED BY <1>2, <1>3

LEMMA StackPushed ==
  ASSUME IInv, IInv', Same, NEW i, rpn'.stack = Append(rpn.stack, i)
  PROVE  stackBar' = Append(stackBar, FunctionOf(i)')
<1>1. PICK n \in Nat : n = Len(rpn.stack) /\ rpn.stack \in Seq(Id)
  BY SMTT(30) DEF IInv, TypeOK
<1>2. /\ Len(rpn'.stack) = n + 1 /\ rpn'.stack[n + 1] = i
      /\ \A k \in 1 .. n : rpn'.stack[k] = rpn.stack[k] /\ k \in 1 .. n + 1
  BY <1>1
<1>3. \A k \in 1 .. n : stackBar'[k] = stackBar[k]
  BY <1>1, <1>2, ItemKept
<1>4. /\ stackBar \in Seq([Assignment -> BOOLEAN]) /\ Len(stackBar) = n
      /\ stackBar' \in Seq([Assignment -> BOOLEAN]) /\ Len(stackBar') = n + 1
      /\ stackBar'[n + 1] = FunctionOf(rpn.stack[n + 1])'
  BY <1>1, <1>2, StackNow, StackNext DEF StackIs
<1>5. FunctionOf(rpn.stack[n + 1])' = FunctionOf(i)'
  BY <1>2 DEF FunctionOf, Value
<1>6. PICK F, f, s, t :
        /\ F = [Assignment -> BOOLEAN] /\ f = FunctionOf(i)' /\ s = stackBar /\ t = stackBar' /\ f \in F
  BY NodesAreFunctions
<1> QED BY <1>3, <1>4, <1>5, <1>6

LEMMA StackPopped ==
  ASSUME IInv, IInv', Same, NEW n \in 0 .. Len(rpn.stack), rpn'.stack = SubSeq(rpn.stack, 1, n)
  PROVE  stackBar' = SubSeq(stackBar, 1, n)
<1>1. rpn.stack \in Seq(Id) /\ Len(rpn.stack) \in Nat
  BY DEF IInv, TypeOK
<1>2. /\ Len(rpn'.stack) = n
      /\ \A k \in 1 .. n : rpn'.stack[k] = rpn.stack[k] /\ k \in 1 .. Len(rpn.stack)
  BY <1>1
<1>3. \A k \in 1 .. n : stackBar'[k] = stackBar[k]
  BY <1>1, <1>2, ItemKept
<1>4. /\ stackBar \in Seq([Assignment -> BOOLEAN]) /\ Len(stackBar) = Len(rpn.stack)
      /\ stackBar' \in Seq([Assignment -> BOOLEAN]) /\ Len(stackBar') = n
  BY <1>1, <1>2, StackNow, StackNext DEF StackIs
<1> QED BY <1>1, <1>3, <1>4

LEMMA SavedNow ==
  \A n \in Name : /\ rpn.saved[n] = NoId => savedBar[n] = None
                  /\ rpn.saved[n] # NoId => savedBar[n] = FunctionOf(rpn.saved[n]) /\ savedBar[n] # None
BY NodesAreFunctions DEF savedBar, FunctionOrNone

LEMMA SavedNext ==
  ASSUME NEW n \in Name, NEW i, rpn'.saved[n] = i
  PROVE  savedBar'[n] = IF i = NoId THEN None ELSE FunctionOf(i)'
BY DEF savedBar, FunctionOrNone, FunctionOf, Value

LEMMA NameKept ==
  ASSUME IInv, IInv', Same, NEW n \in Name, rpn'.saved[n] = rpn.saved[n]
  PROVE  savedBar'[n] = savedBar[n]
<1>1. PICK i : i = rpn.saved[n] /\ i = rpn'.saved[n]
  OBVIOUS
<1>2. CASE i = NoId
  BY <1>1, <1>2, SavedNow, SavedNext
<1>3. CASE i # NoId
  <2>1. i \in Alloc /\ i \in Alloc'
    BY <1>1, <1>3 DEF IInv, RawInv
  <2> QED BY <1>1, <1>3, <2>1, SavedNow, SavedNext, FunctionKept
<1> QED BY <1>2, <1>3

LEMMA SavedKept ==
  ASSUME IInv, IInv', Same, rpn'.saved = rpn.saved
  PROVE  savedBar' = savedBar
<1>1. \A n \in Name : savedBar'[n] = savedBar[n]
  BY NameKept
<1>2. /\ savedBar = [n \in Name |-> savedBar[n]]
      /\ savedBar' = [n \in Name |-> savedBar'[n]]
  BY DEF savedBar
<1> QED BY <1>1, <1>2

(* A step that touches neither headers, handles nor the rpn.               *)
LEMMA HoldingsKept ==
  ASSUME IInv, IInv', Same, UNCHANGED <<headers, handle, rpn>>
  PROVE  UNCHANGED Holdings
<1>1. rpn'.stack = rpn.stack /\ rpn'.saved = rpn.saved
  OBVIOUS
<1> QED BY <1>1, HandlesKept, StackKept, SavedKept DEF Holdings

----------------------------------------------------------------------------
(* Calls that hand out what exists already.                                *)

LEMMA InitRefines ==
  ASSUME Init
  PROVE  Abs!AbsInit
<1>1. /\ headers = <<>> /\ pc = "idle" /\ rpn = NoRpn
      /\ handle = [h \in Handle |-> NoId]
  BY DEF Init, ForestInit
<1>2. holdsBar = [h \in Handle |-> None]
  <2>1. \A h \in Handle : handle[h] = NoId
    BY <1>1
  <2>2. \A h \in Handle : holdsBar[h] = None
    BY <2>1, HoldsNow
  <2> QED BY <2>2 DEF holdsBar
<1>3. stackBar = <<>>
  BY <1>1 DEF stackBar, NoRpn
<1>4. savedBar = [n \in Name |-> None]
  BY <1>1 DEF savedBar, NoRpn, FunctionOrNone
<1>5. resultBar = None
  BY <1>1, NoCall
<1> QED BY <1>1, <1>2, <1>3, <1>4, <1>5 DEF Abs!AbsInit

LEMMA CloneRefines ==
  ASSUME IInv, IInv', Same, NEW h \in Handle, NEW g \in Handle, CloneHandle(h, g)
  PROVE  Abs!Clone(h, g)
<1>1. /\ pc = "idle" /\ pc' = "idle" /\ handle[h] # NoId /\ g \in Unused
      /\ handle' = [handle EXCEPT ![g] = handle[h]] /\ UNCHANGED <<headers, rpn>>
  BY DEF CloneHandle, Ready, Hold, arena
<1>2. PICK i : i = handle[h] /\ i # NoId /\ i \in Alloc /\ i \in Alloc'
  <2>1. h # g /\ handle \in [Handle -> IdOrNone]
    BY <1>1 DEF Unused, IInv, TypeOK
  <2>2. handle'[h] = handle[h]
    BY <1>1, <2>1
  <2> QED BY <1>1, <2>2 DEF IInv, Pinned, Held
<1>3. Abs!Give(g, FunctionOf(i)')
  BY <1>1, <1>2, HandleTakes
<1>4. FunctionOf(i)' = FunctionOf(i) /\ holdsBar[h] = FunctionOf(i) /\ holdsBar[h] # None
  BY <1>2, FunctionKept, HoldsNow
<1>5. resultBar = None /\ resultBar' = None
  BY <1>1, NoCall
<1> QED BY <1>1, <1>3, <1>4, <1>5, StackKept, SavedKept DEF Abs!Clone

LEMMA DropRefines ==
  ASSUME IInv, IInv', Same, NEW h \in Handle, DropHandle(h)
  PROVE  Abs!Drop(h)
<1>1. /\ pc = "idle" /\ pc' = "idle" /\ handle[h] # NoId
      /\ handle' = [handle EXCEPT ![h] = NoId] /\ UNCHANGED <<headers, rpn>>
  BY DEF DropHandle, Hold, arena
<1>2. handle'[h] = NoId /\ \A g \in Handle : g # h => handle'[g] = handle[g]
  BY <1>1 DEF IInv, TypeOK
<1>3. holdsBar'[h] = None /\ \A g \in Handle : g # h => holdsBar'[g] = holdsBar[g]
  BY <1>2, HoldsNext, HandleKept
<1>4. holdsBar' = [holdsBar EXCEPT ![h] = None]
  <2>1. /\ holdsBar = [g \in Handle |-> holdsBar[g]]
        /\ holdsBar' = [g \in Handle |-> holdsBar'[g]]
    BY DEF holdsBar
  <2> QED BY <1>3, <2>1
<1>5. resultBar = None /\ resultBar' = None /\ holdsBar[h] # None
  BY <1>1, NoCall, HoldsNow
<1> QED BY <1>1, <1>4, <1>5, StackKept, SavedKept DEF Abs!Drop

(* A variable's node is its projection.                                    *)
LEMMA VariableMeans ==
  ASSUME MeaningInv, NEW v \in Var, vars[v] # NoId
  PROVE  FunctionOf(vars[v]) = Abs!Projection(v) /\ v \in Abs!Declared
<1>1. IInv /\ Sound
  BY MeaningParts, SoundNow DEF ForestMeans
<1>2. PICK l \in 0 .. Len(headers) - 1 :
        headers[l + 1] = v /\ nodes[vars[v] + 1] = <<l, Zero, One>>
  BY <1>1 DEF IInv, VariablesKept
<1>3. headers \in Seq(Var)
  BY <1>1 DEF Sound, ArenaTypeOK
<1>4. v \in Abs!Declared
  <2>1. l + 1 \in 1 .. Len(headers)
    BY <1>2, <1>3
  <2> QED BY <1>2, <2>1 DEF Abs!Declared
<1>5. vars[v] \in Inner /\ Level(vars[v]) = l /\ Low(vars[v]) = Zero /\ High(vars[v]) = One
  <2>1. vars[v] \in Alloc
    BY <1>1, VariablesGood DEF VarsGood, Good
  <2>2. \A t \in Terminals : Level(t) = NoLevel
    BY <1>1, SlotTypes DEF Sound
  <2>3. Level(vars[v]) = l /\ Low(vars[v]) = Zero /\ High(vars[v]) = One
    BY <1>2 DEF Level, Low, High
  <2>4. l # NoLevel
    BY <1>2 DEF NoLevel
  <2> QED BY <2>1, <2>2, <2>3, <2>4 DEF Inner
<1>6. \A x : Value(vars[v], x) = IF x[v] THEN One ELSE Zero
  BY <1>1, <1>2, <1>5, ValueUnfolds, GoodValues DEF Sound, Unfolds
<1>7. FunctionOf(vars[v]) = [x \in Assignment |-> x[v]]
  <2>1. \A x \in Assignment : x[v] \in BOOLEAN
    BY DEF Assignment
  <2>2. \A x \in Assignment : (Value(vars[v], x) = One) = x[v]
    BY <1>6, <2>1 DEF Zero, One
  <2> QED BY <2>2 DEF FunctionOf
<1> QED BY <1>4, <1>7 DEF Abs!Projection, Abs!Assignment, Assignment

(* A new variable, whoever asks for it.                                    *)
LEMMA DeclarationRefines ==
  ASSUME MeaningInv, IInv', Same, NEW v \in Var, DeclareVar(v), UNCHANGED cache,
         calls' = <<>>, ret' = NoId
  PROVE  /\ Abs!Declare(v)
         /\ \E i : i = vars'[v] /\ i # NoId /\ FunctionOf(i)' = Abs!Projection(v)
<1>1. /\ headers \in Seq(Var) /\ headers' = Append(headers, v)
      /\ v \notin {headers[k] : k \in DOMAIN headers}
      /\ vars'[v] \in Good'
      /\ \A x : Value(vars[v], x)' = IF x[v] THEN One ELSE Zero
  BY DeclarationMeans DEF NoId, Undet
<1>2. Abs!Declare(v)
  BY <1>1 DEF Abs!Declare, Abs!Declared
<1>3. PICK i : i = vars'[v]
  OBVIOUS
<1>4. \A x : Value(i, x)' = Value(vars[v], x)'
  BY <1>3 DEF Value
<1>5. FunctionOf(i)' = [x \in Assignment |-> x[v]]
  <2>1. \A x \in Assignment : x[v] \in BOOLEAN
    BY DEF Assignment
  <2>2. \A x \in Assignment : (Value(i, x)' = One) = x[v]
    BY <1>1, <1>4, <2>1 DEF Zero, One
  <2> QED BY <2>2 DEF FunctionOf
<1>6. i # NoId
  BY <1>1, <1>3, SlotTypesNext DEF IInv, TypeOK, Good, NoId
<1> QED BY <1>2, <1>3, <1>5, <1>6 DEF Abs!Projection, Abs!Assignment, Assignment

LEMMA DefineRefines ==
  ASSUME MeaningInv, IInv', Same, NEW v \in Var, NEW h \in Handle,
         DefVarNew(v, h) \/ DefVarKnown(v, h)
  PROVE  Abs!DefineVar(v, h)
<1>1. /\ pc = "idle" /\ pc' = "idle" /\ h \in Unused /\ rpn' = rpn /\ IInv
  BY DEF DefVarNew, DefVarKnown, Ready, MeaningInv
<1>2. resultBar = None /\ resultBar' = None /\ stackBar' = stackBar /\ savedBar' = savedBar
  BY <1>1, NoCall, StackKept, SavedKept
<1>3. CASE DefVarNew(v, h)
  <2>1. /\ DeclareVar(v) /\ UNCHANGED cache /\ calls' = <<>> /\ ret' = NoId
        /\ handle' = [handle EXCEPT ![h] = vars'[v]]
    BY <1>1, <1>3, NoRecursion DEF DefVarNew, engine, Hold
  <2>2. Abs!Declare(v)
    BY <2>1, DeclarationRefines
  <2>3. PICK i : i = vars'[v] /\ i # NoId /\ FunctionOf(i)' = Abs!Projection(v)
    BY <2>1, DeclarationRefines
  <2>4. Abs!Give(h, FunctionOf(i)')
    BY <1>1, <2>1, <2>3, HandleTakes
  <2> QED BY <1>2, <2>2, <2>3, <2>4 DEF Abs!DefineVar
<1>4. CASE DefVarKnown(v, h)
  <2>1. /\ vars[v] # NoId /\ UNCHANGED <<headers, vars>>
        /\ handle' = [handle EXCEPT ![h] = vars[v]]
    BY <1>4 DEF DefVarKnown, arena, Hold
  <2>2. PICK i : i = vars[v] /\ i # NoId /\ i \in Alloc /\ i \in Alloc'
    BY <1>1, <2>1 DEF IInv, Pinned
  <2>3. Abs!Give(h, FunctionOf(i)')
    BY <1>1, <2>1, <2>2, HandleTakes
  <2>4. FunctionOf(i)' = Abs!Projection(v) /\ v \in Abs!Declared
    BY <2>1, <2>2, FunctionKept, VariableMeans
  <2>5. Abs!Declare(v)
    BY <2>1, <2>4 DEF Abs!Declare
  <2> QED BY <1>2, <2>3, <2>4, <2>5 DEF Abs!DefineVar
<1> QED BY <1>3, <1>4

(* An assignment with one variable changed.                                *)
With(x, v, b) == [x EXCEPT ![v] = b]

LEMMA WithMeans ==
  ASSUME ArenaTypeOK, ArenaInv, OneLevelEach, NEW x \in Assignment
  PROVE  /\ \A v, b : b \in BOOLEAN => With(x, v, b) \in Assignment
         /\ \A i \in Inner : /\ Value(i, With(x, headers[Level(i) + 1], TRUE)) = Value(High(i), x)
                            /\ Value(i, With(x, headers[Level(i) + 1], FALSE)) = Value(Low(i), x)
         /\ \A l \in 0 .. Len(headers) - 1, b \in BOOLEAN : \A i \in Alloc :
              Level(i) < l => Value(i, With(x, headers[l + 1], b)) = Value(i, x)
<1>1. \A v, b : b \in BOOLEAN => With(x, v, b) \in Assignment
  BY DEF Assignment, With
<1>2. ASSUME NEW i \in Inner
      PROVE  /\ Value(i, With(x, headers[Level(i) + 1], TRUE)) = Value(High(i), x)
             /\ Value(i, With(x, headers[Level(i) + 1], FALSE)) = Value(Low(i), x)
  BY ValueCofactors DEF With
<1>3. ASSUME NEW l \in 0 .. Len(headers) - 1, NEW b \in BOOLEAN, NEW i \in Alloc, Level(i) < l
      PROVE  Value(i, With(x, headers[l + 1], b)) = Value(i, x)
  BY <1>3, ValueIndependent DEF With
<1> QED BY <1>1, <1>2, <1>3

(* The highest variable a node depends on is its level's, and its children *)
(* are its cofactors on it.                                                *)
LEMMA ChildrenAreCofactors ==
  ASSUME MeaningInv, NEW i \in Inner, i # Undet, NEW v, v = headers[Level(i) + 1]
  PROVE  /\ Abs!Support(FunctionOf(i)) # {} /\ Abs!TopVar(FunctionOf(i)) = v
         /\ Abs!Cofactor(FunctionOf(i), v, FALSE) = FunctionOf(Low(i))
         /\ Abs!Cofactor(FunctionOf(i), v, TRUE) = FunctionOf(High(i))
<1>1. /\ Sound /\ ArenaTypeOK /\ ArenaInv /\ NodesDefined /\ OneLevelEach
      /\ headers \in Seq(Var)
  BY MeaningParts, SoundNow DEF ForestMeans, HeadersDistinct, OneLevelEach, Sound, ArenaTypeOK
<1>2. PICK k \in 1 .. Len(headers) : k = Level(i) + 1 /\ v = headers[k] /\ v \in Var
  BY <1>1 DEF ArenaInv, Ordered
<1>3. i \in Good /\ Low(i) \in Good /\ High(i) \in Good /\ Low(i) # High(i)
  BY <1>1, GoodKids DEF Good, Inner, ArenaInv, Canonical
<1>4. PICK f \in [Assignment -> BOOLEAN] : f = FunctionOf(i)
  BY NodesAreFunctions
<1>5. \A x \in Assignment : \A b \in BOOLEAN : \A w : With(x, w, b) \in Assignment
  BY <1>1, WithMeans
<1>6. \A w, b : Abs!Cofactor(f, w, b) = [x \in Assignment |-> f[With(x, w, b)]]
  BY DEF Abs!Cofactor, Abs!Assignment, Assignment, With
<1>7. \A x \in Assignment : f[x] = (Value(i, x) = One)
  BY <1>4 DEF FunctionOf
<1>8. Abs!Cofactor(f, v, FALSE) = FunctionOf(Low(i))
  <2>1. ASSUME NEW x \in Assignment
        PROVE  f[With(x, v, FALSE)] = FunctionOf(Low(i))[x]
    <3>1. PICK y \in Assignment : y = With(x, v, FALSE)
      BY <1>5
    <3>2. Value(i, y) = Value(Low(i), x)
      BY <1>1, <3>1, WithMeans
    <3>3. f[y] = (Value(i, y) = One) /\ FunctionOf(Low(i))[x] = (Value(Low(i), x) = One)
      BY <1>7 DEF FunctionOf
    <3> QED BY <3>1, <3>2, <3>3
  <2>2. PICK g : g = FunctionOf(Low(i)) /\ g = [x \in Assignment |-> g[x]]
    BY DEF FunctionOf
  <2>3. PICK c : c = Abs!Cofactor(f, v, FALSE) /\ c = [x \in Assignment |-> f[With(x, v, FALSE)]]
    BY DEF Abs!Cofactor, Abs!Assignment, Assignment, With
  <2>4. \A x \in Assignment : c[x] = g[x]
    BY <2>1, <2>2, <2>3
  <2> QED BY <2>2, <2>3, <2>4
<1>9. Abs!Cofactor(f, v, TRUE) = FunctionOf(High(i))
  <2>1. ASSUME NEW x \in Assignment
        PROVE  f[With(x, v, TRUE)] = FunctionOf(High(i))[x]
    <3>1. PICK y \in Assignment : y = With(x, v, TRUE)
      BY <1>5
    <3>2. Value(i, y) = Value(High(i), x)
      BY <1>1, <3>1, WithMeans
    <3>3. f[y] = (Value(i, y) = One) /\ FunctionOf(High(i))[x] = (Value(High(i), x) = One)
      BY <1>7 DEF FunctionOf
    <3> QED BY <3>1, <3>2, <3>3
  <2>2. PICK g : g = FunctionOf(High(i)) /\ g = [x \in Assignment |-> g[x]]
    BY DEF FunctionOf
  <2>3. PICK c : c = Abs!Cofactor(f, v, TRUE) /\ c = [x \in Assignment |-> f[With(x, v, TRUE)]]
    BY DEF Abs!Cofactor, Abs!Assignment, Assignment, With
  <2>4. \A x \in Assignment : c[x] = g[x]
    BY <2>1, <2>2, <2>3
  <2> QED BY <2>2, <2>3, <2>4
<1>10. FunctionOf(Low(i)) # FunctionOf(High(i))
  <2> SUFFICES ASSUME FunctionOf(Low(i)) = FunctionOf(High(i)) PROVE FALSE
    OBVIOUS
  <2>1. ASSUME NEW x \in Assignment
        PROVE  Value(Low(i), x) = Value(High(i), x)
    <3>1. Value(Low(i), x) \in {Zero, One} /\ Value(High(i), x) \in {Zero, One}
      BY <1>1, <1>3, GoodValues
    <3>2. /\ FunctionOf(Low(i))[x] = (Value(Low(i), x) = One)
          /\ FunctionOf(High(i))[x] = (Value(High(i), x) = One)
      BY DEF FunctionOf
    <3>3. Value(Low(i), x) = One <=> Value(High(i), x) = One
      BY <3>2
    <3> QED BY <3>1, <3>3
  <2>2. SameFunction(Low(i), High(i))
    BY <2>1 DEF SameFunction
  <2> QED BY <1>1, <1>3, <2>2, Canonicity DEF Good
<1>11. k \in Abs!Support(f)
  BY <1>2, <1>8, <1>9, <1>10 DEF Abs!Support, Abs!DependsOn
<1>12. \A j \in Abs!Support(f) : j <= k
  <2> SUFFICES ASSUME NEW j \in 1 .. Len(headers), ~ (j <= k)
               PROVE  Abs!Cofactor(f, headers[j], FALSE) = Abs!Cofactor(f, headers[j], TRUE)
    BY DEF Abs!Support, Abs!DependsOn
  <2>1. PICK l \in 0 .. Len(headers) - 1 : l + 1 = j /\ Level(i) < l
    <3>1. Level(i) = k - 1
      BY <1>1, <1>2, SlotTypes DEF Inner, Alloc, Sound, ArenaInv, Ordered
    <3> QED BY <1>1, <1>2, <3>1
  <2>2. ASSUME NEW x \in Assignment, NEW b \in BOOLEAN
        PROVE  f[With(x, headers[j], b)] = f[x]
    <3>1. PICK y \in Assignment : y = With(x, headers[l + 1], b)
      BY <1>5
    <3>2. Value(i, y) = Value(i, x)
      BY <1>1, <1>3, <2>1, <3>1, WithMeans DEF Good
    <3>3. f[y] = (Value(i, y) = One) /\ f[x] = (Value(i, x) = One)
      BY <1>7
    <3> QED BY <2>1, <3>1, <3>2, <3>3
  <2>3. \A b \in BOOLEAN : Abs!Cofactor(f, headers[j], b) = [x \in Assignment |-> f[x]]
    BY <1>6, <2>2
  <2> QED BY <2>3
<1>13. Abs!TopVar(f) = v
  <2>1. \A j \in Abs!Support(f) : j \in 1 .. Len(headers)
    BY DEF Abs!Support
  <2>2. \A m \in Abs!Support(f) : (\A j \in Abs!Support(f) : j <= m) => m = k
    BY <1>1, <1>11, <1>12, <2>1
  <2>3. (CHOOSE m \in Abs!Support(f) : \A j \in Abs!Support(f) : j <= m) = k
    BY <1>11, <1>12, <2>2
  <2> QED BY <1>2, <2>3 DEF Abs!TopVar
<1> QED BY <1>4, <1>8, <1>9, <1>11, <1>13

LEMMA ChildrenRefine ==
  ASSUME MeaningInv, IInv', Same,
         NEW h \in Handle, NEW low \in Handle, NEW high \in Handle, GetChildren(h, low, high)
  PROVE  Abs!Children(h, low, high)
<1>1. /\ pc = "idle" /\ pc' = "idle" /\ handle[h] \notin Terminals \cup {NoId}
      /\ low \in Unused /\ high \in Unused /\ low # high
      /\ handle' = [handle EXCEPT ![low] = Low(handle[h]), ![high] = High(handle[h])]
      /\ UNCHANGED <<headers, rpn>> /\ nodes' = nodes
  BY DEF GetChildren, Ready, arena
<1>2. IInv /\ HoldingsMean /\ Sound
  BY MeaningParts, SoundNow DEF ForestMeans
<1>3. PICK i \in Good : i = handle[h] /\ i \in Inner
  BY <1>1, <1>2, HoldingsGood DEF Inner, Good
<1>4. PICK lo \in Good, hi \in Good : lo = Low(i) /\ hi = High(i) /\ lo # NoId /\ hi # NoId
  BY <1>2, <1>3, GoodKids, GoodValues DEF NoId
<1>5. /\ handle'[low] = lo /\ handle'[high] = hi
      /\ \A g \in Handle : g \notin {low, high} => handle'[g] = handle[g]
  BY <1>1, <1>2, <1>3, <1>4 DEF IInv, TypeOK
<1>6. lo \in Alloc' /\ hi \in Alloc' /\ lo \in Alloc /\ hi \in Alloc
  BY <1>4, <1>5 DEF IInv, Pinned, Held, Good
<1>7. /\ holdsBar'[low] = FunctionOf(lo) /\ holdsBar'[high] = FunctionOf(hi)
      /\ \A g \in Handle : g \notin {low, high} => holdsBar'[g] = holdsBar[g]
  BY <1>2, <1>4, <1>5, <1>6, HoldsNext, HandleKept, FunctionKept
<1>8. holdsBar' = [holdsBar EXCEPT ![low] = FunctionOf(lo), ![high] = FunctionOf(hi)]
  <2>1. /\ holdsBar = [g \in Handle |-> holdsBar[g]]
        /\ holdsBar' = [g \in Handle |-> holdsBar'[g]]
    BY DEF holdsBar
  <2> QED BY <1>1, <1>7, <2>1
<1>9. PICK v : v = headers[Level(i) + 1]
  OBVIOUS
<1>10. /\ holdsBar[h] = FunctionOf(i) /\ holdsBar[h] # None
       /\ low \in Abs!Unused /\ high \in Abs!Unused
  BY <1>1, <1>3, HoldsNow DEF Unused, Abs!Unused
<1>11. /\ Abs!Support(FunctionOf(i)) # {} /\ Abs!TopVar(FunctionOf(i)) = v
       /\ Abs!Cofactor(FunctionOf(i), v, FALSE) = FunctionOf(lo)
       /\ Abs!Cofactor(FunctionOf(i), v, TRUE) = FunctionOf(hi)
  BY <1>3, <1>4, <1>9, ChildrenAreCofactors DEF Good
<1>12. resultBar = None /\ resultBar' = None /\ stackBar' = stackBar /\ savedBar' = savedBar
  BY <1>1, <1>2, NoCall, StackKept, SavedKept
<1> QED BY <1>1, <1>8, <1>10, <1>11, <1>12 DEF Abs!Children

----------------------------------------------------------------------------
(* Calls that compute.                                                     *)

ResultOf(op, a) == [x \in Assignment |-> Applied(op, a, x) = One]

(* The operations on terminals are those on truth values.                  *)
LEMMA AppliedMeans ==
  ASSUME Sound, NEW op \in Ops, NEW a \in GoodTriple
  PROVE  ResultOf(op, a) = Abs!Meaning(op, FunctionOf(a[1]), FunctionOf(a[2]), FunctionOf(a[3]))
<1>1. PICK f, g, h : f = FunctionOf(a[1]) /\ g = FunctionOf(a[2]) /\ h = FunctionOf(a[3])
  OBVIOUS
<1>2. ASSUME NEW x \in Assignment
      PROVE  /\ f[x] = (Value(a[1], x) = One) /\ g[x] = (Value(a[2], x) = One)
             /\ h[x] = (Value(a[3], x) = One)
             /\ Value(a[1], x) \in {Zero, One} /\ Value(a[2], x) \in {Zero, One}
             /\ Value(a[3], x) \in {Zero, One}
  BY <1>1, GoodValues DEF FunctionOf, GoodTriple
<1>3. Zero # One
  BY DEF Zero, One
<1>4. ASSUME NEW x \in Assignment
      PROVE  /\ op = "not" => (Applied(op, a, x) = One <=> ~ f[x])
             /\ op = "and" => (Applied(op, a, x) = One <=> f[x] /\ g[x])
             /\ op = "or" => (Applied(op, a, x) = One <=> f[x] \/ g[x])
             /\ op = "xor" => (Applied(op, a, x) = One <=> f[x] # g[x])
             /\ op = "ite" => (Applied(op, a, x) = One <=> IF f[x] THEN g[x] ELSE h[x])
  BY <1>2, <1>3 DEF Applied, Scalar, Bit
<1>5. ASSUME NEW x \in Assignment
      PROVE  f[x] \in BOOLEAN /\ g[x] \in BOOLEAN /\ h[x] \in BOOLEAN
  BY <1>2
<1>6. CASE op = "not"
  BY <1>1, <1>4, <1>5, <1>6 DEF ResultOf, Abs!Meaning, Abs!Assignment, Assignment
<1>7. CASE op = "and"
  BY <1>1, <1>4, <1>5, <1>7 DEF ResultOf, Abs!Meaning, Abs!Assignment, Assignment
<1>8. CASE op = "or"
  BY <1>1, <1>4, <1>5, <1>8 DEF ResultOf, Abs!Meaning, Abs!Assignment, Assignment
<1>9. CASE op = "xor"
  BY <1>1, <1>4, <1>5, <1>9 DEF ResultOf, Abs!Meaning, Abs!Assignment, Assignment
<1>10. CASE op = "ite"
  BY <1>1, <1>4, <1>5, <1>10 DEF ResultOf, Abs!Meaning, Abs!Mux, Abs!Assignment, Assignment
<1> QED BY <1>6, <1>7, <1>8, <1>9, <1>10 DEF Ops

(* not, and, or and xor ignore the operands they do not have.              *)
LEMMA PaddingIgnored ==
  ASSUME NEW f, NEW g, NEW h
  PROVE  /\ Abs!Meaning("not", f, g, h) = Abs!Meaning("not", f, f, f)
         /\ \A op \in {"and", "or", "xor"} : Abs!Meaning(op, f, g, h) = Abs!Meaning(op, f, g, g)
BY DEF Abs!Meaning

LEMMA PendingReturned ==
  ASSUME todo' = <<>>, calls' = <<>>, NEW i, i = ret'
  PROVE  Pending' = FunctionOf(i)'
BY DEF Pending, First, FunctionOf, Value

LEMMA PendingCalled ==
  ASSUME todo' = <<>>, calls' # <<>>, NEW op, NEW a,
         \A x : Applied(calls[1].op, calls[1].args, x)' = Applied(op, a, x)
  PROVE  Pending' = ResultOf(op, a)
<1>1. ASSUME NEW x \in Assignment
      PROVE  First(x)' = (Applied(op, a, x) = One)
  BY DEF First
<1>2. Pending' = [x \in Assignment |-> First(x)']
  BY DEF Pending
<1> QED BY <1>1, <1>2 DEF ResultOf

(* A call that computes: the step sets nothing but the result.             *)
LEMMA Requested ==
  ASSUME IInv, IInv', Same, pc = "idle", pc' = "op", UNCHANGED <<headers, handle, rpn>>
  PROVE  /\ resultBar = None /\ resultBar' = Pending' /\ resultBar' # None
         /\ UNCHANGED <<headers, holdsBar, stackBar, savedBar>>
<1>1. resultBar = None /\ resultBar' = Pending' /\ resultBar' # None
  BY NoCall, PendingIsFunctionNext DEF resultBar
<1> QED BY <1>1, HoldingsKept DEF Holdings

(* The terminals are the constant functions.                               *)
LEMMA TerminalMeans ==
  ASSUME IInv', NEW t \in {Zero, One}
  PROVE  FunctionOf(t)' \in {Abs!Falsity, Abs!Truth}
<1>1. \A x \in Assignment : Value(t, x)' = t
  BY ValueUnfoldsNext DEF IInv, TypeOK, Unfolds, Terminals
<1>2. FunctionOf(t)' = [x \in Assignment |-> t = One]
  BY <1>1 DEF FunctionOf
<1>3. t = One \/ ~ (t = One)
  OBVIOUS
<1> QED BY <1>2, <1>3 DEF Abs!Falsity, Abs!Truth, Abs!Assignment, Assignment

LEMMA ConstantRefines ==
  ASSUME MeaningInv, IInv', Same, NEW t \in Terminals, Constant(t)
  PROVE  Abs!Request
<1>1. /\ IInv /\ pc = "idle" /\ pc' = "op" /\ UNCHANGED <<headers, handle, rpn>>
      /\ t \in {Zero, One} /\ ret' = t /\ todo' = <<>> /\ calls' = <<>>
  BY NoRecursion DEF Constant, CanBuild, Ready, arena, mgr, MeaningInv, IInv, PhaseInv
<1>2. Pending' = FunctionOf(t)'
  BY <1>1, PendingReturned
<1>3. FunctionOf(t)' \in {Abs!Falsity, Abs!Truth}
  BY <1>1, TerminalMeans
<1>4. /\ resultBar = None /\ resultBar' = Pending' /\ resultBar' # None
      /\ UNCHANGED <<headers, holdsBar, stackBar, savedBar>>
  BY <1>1, Requested
<1> QED BY <1>2, <1>3, <1>4 DEF Abs!Request, Abs!Requests

LEMMA InvokeRefines ==
  ASSUME MeaningInv, IInv', Same, NEW op \in Called, NEW args \in ArgTuples(op), Invoke(op, args)
  PROVE  Abs!Request
<1>1. /\ IInv /\ HoldingsMean /\ Sound /\ op \in Ops
      /\ pc = "idle" /\ pc' = "op" /\ UNCHANGED <<headers, handle, rpn>>
      /\ calls' = <<Call(op, args)>> /\ ret' = NoId /\ todo' = <<>>
      /\ UNCHANGED <<arena, cache, vars>>
  <2>1. IInv /\ HoldingsMean /\ Sound
    BY MeaningParts, SoundNow DEF ForestMeans
  <2> QED BY <2>1, NoRecursion, ConstantsAssumption
          DEF Invoke, CanBuild, Ready, arena, mgr, IInv, PhaseInv
<1>2. Held \subseteq Good /\ Zero \in Good
  BY <1>1, HoldingsGood, GoodValues
<1>3. args \in GoodTriple
  BY <1>1, <1>2 DEF ArgTuples, GoodTriple, Ops
<1>4. Pending' = ResultOf(op, args)
  BY <1>1, <1>3, OperationCalled, PendingCalled
<1>5. PICK f, g, h : f = FunctionOf(args[1]) /\ g = FunctionOf(args[2]) /\ h = FunctionOf(args[3])
  OBVIOUS
<1>6. /\ args[1] \in Held
      /\ op # "not" => args[2] \in Held
      /\ op = "ite" => args[3] \in Held
  BY <1>1 DEF ArgTuples, Ops
<1>7. \E u, v, w \in Abs!Held : Pending' = Abs!Meaning(op, u, v, w)
  <2>1. Pending' = Abs!Meaning(op, f, g, h)
    BY <1>1, <1>3, <1>4, <1>5, AppliedMeans
  <2>2. /\ f \in Abs!Held
        /\ op # "not" => g \in Abs!Held
        /\ op = "ite" => h \in Abs!Held
    BY <1>5, <1>6, FunctionsHeld
  <2>3. CASE op = "not"
    BY <2>1, <2>2, <2>3, PaddingIgnored
  <2>4. CASE op \in {"and", "or", "xor"}
    BY <2>1, <2>2, <2>4, PaddingIgnored
  <2>5. CASE op = "ite"
    BY <2>1, <2>2, <2>5
  <2> QED BY <1>1, <2>3, <2>4, <2>5 DEF Ops
<1>8. Pending' \in Abs!Requests
  BY <1>1, <1>7 DEF Abs!Requests, Abs!Ops, Ops
<1>9. /\ resultBar = None /\ resultBar' = Pending' /\ resultBar' # None
      /\ UNCHANGED <<headers, holdsBar, stackBar, savedBar>>
  BY <1>1, Requested
<1> QED BY <1>8, <1>9 DEF Abs!Request

LEMMA NodeRefines ==
  ASSUME MeaningInv, IInv', Same, NEW l \in 0 .. Len(headers) - 1,
         NEW lo \in Held, NEW hi \in Held, PublicCreateNode(l, lo, hi)
  PROVE  \E v \in Abs!Declared, f, g \in Abs!Held : Abs!RequestNode(v, f, g)
<1>1. /\ IInv /\ HoldingsMean /\ Sound /\ headers \in Seq(Var)
      /\ pc = "idle" /\ pc' = "op" /\ UNCHANGED <<headers, handle, rpn>>
      /\ todo' = <<>> /\ calls' = <<>>
      /\ Level(lo) < l /\ Level(hi) < l /\ CreateNode(l, lo, hi) /\ ret' = NodeFor(l, lo, hi)
  <2>1. IInv /\ HoldingsMean /\ Sound
    BY MeaningParts, SoundNow DEF ForestMeans
  <2> QED BY <2>1, NoRecursion
          DEF PublicCreateNode, CanBuild, Ready, mgr, IInv, PhaseInv, Sound, ArenaTypeOK
<1>2. PICK id : id = NodeFor(l, lo, hi)
  OBVIOUS
<1>3. Pending' = FunctionOf(id)'
  BY <1>1, <1>2, PendingReturned
<1>4. PICK v : v = headers[l + 1]
  OBVIOUS
<1>5. \A x : Value(id, x)' = IF x[v] THEN Value(hi, x) ELSE Value(lo, x)
  <2>1. /\ lo \in Good /\ hi \in Good /\ l \in Nat /\ headers' \in Seq(Var) /\ headers' = headers
        /\ Len(headers) <= Len(headers') /\ l < Len(headers')
    BY <1>1, HoldingsGood
  <2> QED BY <1>1, <1>2, <1>4, <2>1, NodeMeans
<1>6. v \in Abs!Declared /\ FunctionOf(lo) \in Abs!Held /\ FunctionOf(hi) \in Abs!Held
  <2>1. l + 1 \in 1 .. Len(headers)
    BY <1>1
  <2> QED BY <1>4, <2>1, FunctionsHeld DEF Abs!Declared
<1>7. PICK f, g : f = FunctionOf(lo) /\ g = FunctionOf(hi)
  OBVIOUS
<1>8. FunctionOf(id)' = Abs!Mux(Abs!Projection(v), g, f)
  <2>1. ASSUME NEW x \in Assignment
        PROVE  (Value(id, x)' = One) = IF x[v] THEN g[x] ELSE f[x]
    <3>1. g[x] = (Value(hi, x) = One) /\ f[x] = (Value(lo, x) = One)
      BY <1>7 DEF FunctionOf
    <3> QED BY <1>5, <3>1
  <2> QED BY <2>1 DEF FunctionOf, Abs!Mux, Abs!Projection, Abs!Assignment, Assignment
<1>9. /\ resultBar = None /\ resultBar' = Pending'
      /\ UNCHANGED <<headers, holdsBar, stackBar, savedBar>>
  BY <1>1, Requested
<1>10. Abs!RequestNode(v, f, g)
  BY <1>3, <1>6, <1>8, <1>9 DEF Abs!RequestNode
<1> QED BY <1>6, <1>7, <1>10

(* The operands of a list are the functions the client holds.              *)
LEMMA ListRefines ==
  ASSUME MeaningInv, IInv', Same, NEW op \in {"and", "or"}, NEW list \in Lists,
         InvokeList(op, list)
  PROVE  \E n \in 0 .. MaxList : \E fs \in [1 .. n -> Abs!Held] : Abs!RequestList(fs)
<1>1. /\ IInv /\ HoldingsMean
      /\ pc = "idle" /\ pc' = "op" /\ UNCHANGED <<headers, handle, rpn>> /\ calls' = <<>>
      /\ ret' = IF op = "and" THEN One ELSE Zero
      /\ todo' = [k \in DOMAIN list |-> [op |-> op, arg |-> list[k]]]
  <2>1. IInv /\ HoldingsMean
    BY MeaningParts
  <2> QED BY <2>1, NoRecursion DEF InvokeList, CanBuild, Ready, arena
<1>2. PICK n \in 0 .. MaxList : list \in [1 .. n -> Held]
  BY DEF Lists
<1>3. PICK fs : fs = [k \in 1 .. n |-> FunctionOf(list[k])]
  OBVIOUS
<1>4. fs \in [1 .. n -> Abs!Held] /\ DOMAIN fs = 1 .. n
  BY <1>2, <1>3, FunctionsHeld
<1>5. ASSUME NEW k \in 1 .. n, NEW x \in Assignment
      PROVE  (Value(todo[k].arg, x)' = One) = fs[k][x]
  <2>1. PICK i : i = list[k] /\ i = todo'[k].arg /\ i \in Alloc /\ i \in Alloc'
    <3>1. list[k] = todo'[k].arg /\ list[k] \in Held
      BY <1>1, <1>2
    <3>2. list[k] \in Alloc /\ list[k] \in Alloc'
      BY <1>1, <3>1 DEF IInv, Pinned, Held
    <3> QED BY <3>1, <3>2
  <2>2. Value(todo[k].arg, x)' = Value(i, x)'
    BY <2>1 DEF Value
  <2>3. Value(i, x)' = Value(i, x)
    BY <2>1 DEF Same
  <2>4. fs[k][x] = (Value(i, x) = One)
    BY <1>3, <2>1 DEF FunctionOf
  <2> QED BY <2>2, <2>3, <2>4
<1>6. ASSUME NEW x
      PROVE  First(x)' = (op = "and")
  <2>1. PICK t \in Terminals : t = ret' /\ (t = One <=> op = "and")
    BY <1>1 DEF Terminals, Zero, One
  <2>2. Value(t, x)' = t
    BY ValueUnfoldsNext DEF IInv, TypeOK, Unfolds
  <2>3. Value(ret, x)' = Value(t, x)'
    BY <2>1 DEF Value
  <2> QED BY <1>1, <2>1, <2>2, <2>3 DEF First
<1>7. DOMAIN todo' = 1 .. n /\ (n # 0 => todo'[1].op = op) /\ (todo' = <<>> <=> n = 0)
  <2>1. DOMAIN todo' = 1 .. n
    BY <1>1, <1>2
  <2>2. n # 0 => 1 \in DOMAIN list
    BY <1>2
  <2>3. todo' = <<>> <=> n = 0
    BY <2>1
  <2> QED BY <1>1, <2>1, <2>2, <2>3
<1>8. CASE op = "and"
  <2>1. Pending' = [x \in Assignment |-> \A k \in 1 .. n : fs[k][x]]
    <3>1. CASE n = 0
      <4>1. Pending' = [x \in Assignment |-> First(x)']
        BY <1>7, <3>1 DEF Pending
      <4>2. \A x \in Assignment : First(x)' = TRUE
        BY <1>6, <1>8
      <4>3. \A x \in Assignment : (\A k \in 1 .. n : fs[k][x]) = TRUE
        BY <3>1
      <4> QED BY <4>1, <4>2, <4>3
    <3>2. CASE n # 0
      BY <1>5, <1>6, <1>7, <1>8, <3>2 DEF Pending
    <3> QED BY <3>1, <3>2
  <2> QED BY <1>1, <1>4, <2>1, Requested DEF Abs!RequestList, Abs!Conjunction, Abs!Assignment, Assignment
<1>9. CASE op = "or"
  <2>1. Pending' = [x \in Assignment |-> \E k \in 1 .. n : fs[k][x]]
    <3>1. CASE n = 0
      <4>1. Pending' = [x \in Assignment |-> First(x)']
        BY <1>7, <3>1 DEF Pending
      <4>2. \A x \in Assignment : First(x)' = FALSE
        BY <1>6, <1>9
      <4>3. \A x \in Assignment : (\E k \in 1 .. n : fs[k][x]) = FALSE
        BY <3>1
      <4> QED BY <4>1, <4>2, <4>3
    <3>2. CASE n # 0
      BY <1>5, <1>6, <1>7, <1>9, <3>2 DEF Pending
    <3> QED BY <3>1, <3>2
  <2> QED BY <1>1, <1>4, <2>1, Requested DEF Abs!RequestList, Abs!Disjunction, Abs!Assignment, Assignment
<1> QED BY <1>8, <1>9

----------------------------------------------------------------------------
(* What a call does on its own.                                            *)

(* The function asked for, at one assignment: what the running apply adds  *)
(* to the rest of the list.                                                *)
Rest(op, x) ==
  IF op = "and" THEN \A k \in DOMAIN todo : Value(todo[k].arg, x) = One
                ELSE \E k \in DOMAIN todo : Value(todo[k].arg, x) = One

LEMMA PendingAt ==
  Pending = [x \in Assignment |->
    IF todo = <<>> THEN First(x)
    ELSE IF todo[1].op = "and" THEN First(x) /\ Rest("and", x) ELSE First(x) \/ Rest("or", x)]
BY DEF Pending, Rest

LEMMA PendingAtNext ==
  Pending' = [x \in Assignment |->
    IF todo' = <<>> THEN First(x)'
    ELSE IF todo'[1].op = "and" THEN First(x)' /\ Rest("and", x)' ELSE First(x)' \/ Rest("or", x)']
BY DEF Pending, Rest

(* The list still to be folded means what it meant.                        *)
LEMMA OperandKept ==
  ASSUME IInv, IInv', Same, NEW k \in DOMAIN todo, NEW m \in DOMAIN todo',
         todo'[m] = todo[k], NEW x
  PROVE  Value(todo[m].arg, x)' = Value(todo[k].arg, x)
<1>1. PICK i : i = todo[k].arg /\ i = todo'[m].arg
  OBVIOUS
<1>2. i \in Alloc /\ i \in Alloc'
  BY <1>1 DEF IInv, RawInv
<1>3. Value(i, x)' = Value(i, x)
  BY <1>2 DEF Same
<1>4. Value(todo[m].arg, x)' = Value(i, x)'
  BY <1>1 DEF Value
<1> QED BY <1>1, <1>3, <1>4

LEMMA ApplyInvisible ==
  ASSUME MeaningInv, IInv', Same, Apply
  PROVE  UNCHANGED <<Holdings, resultBar>>
<1>1. /\ IInv /\ RecursionMeans /\ OuterKept /\ todo' = todo /\ pc' = pc
      /\ UNCHANGED <<handle, rpn>> /\ calls # <<>> /\ calls \in Seq(Frame)
      /\ pc \in {"op", "rpnop"}
  <2>1. IInv /\ RecursionMeans /\ OuterKept
    BY MeaningParts, ApplyKeepsMeaning
  <2>2. calls # <<>>
    BY DEF Apply, mgr, ApplyStep, EnterShortcut, EnterHit, EnterTerminal, EnterNegate, EnterSplit,
           ResumeLow, ResumeHigh, ResumeNegate, NeedsLookup, Entering, Resuming
  <2> QED BY <2>1, <2>2 DEF Apply, mgr, IInv, TypeOK, EngineTypeOK
<1>2. Grows /\ headers' = headers
  BY <1>1, ApplyStepInv DEF Apply, IInv, TypeOK, EngineInv
<1>3. ASSUME NEW x \in Assignment
      PROVE  First(x)' = First(x)
  <2>1. PICK op, a : op = calls[1].op /\ a = calls[1].args
    OBVIOUS
  <2>2. a \in GoodTriple
    <3>1. 1 \in 1 .. Len(calls)
      BY <1>1
    <3> QED BY <1>1, <2>1, <3>1, GoodFrames DEF RecursionMeans, GoodFrame
  <2>3. First(x) = (Applied(op, a, x) = One)
    BY <1>1, <2>1 DEF First
  <2>4. CASE calls' = <<>>
    BY <1>1, <2>1, <2>3, <2>4 DEF First, OuterKept
  <2>5. CASE calls' # <<>>
    <3>1. calls'[1].op = op /\ calls'[1].args = a
      BY <1>1, <2>1, <2>5 DEF OuterKept
    <3>2. Applied(calls[1].op, calls[1].args, x)' = Applied(op, a, x)'
      BY <3>1 DEF Applied
    <3>3. Applied(op, a, x)' = Applied(op, a, x)
      BY <1>2, <2>2, AppliedKept
    <3> QED BY <2>3, <2>5, <3>2, <3>3 DEF First
  <2> QED BY <2>4, <2>5
<1>4. ASSUME NEW k \in DOMAIN todo, NEW x
      PROVE  Value(todo[k].arg, x)' = Value(todo[k].arg, x)
  BY <1>1, OperandKept
<1>5. \A x : Rest("and", x)' = Rest("and", x) /\ Rest("or", x)' = Rest("or", x)
  BY <1>1, <1>4 DEF Rest
<1>6. Pending' = Pending
  BY <1>1, <1>3, <1>5, PendingAt, PendingAtNext
<1>7. resultBar' = resultBar
  BY <1>1, <1>6 DEF resultBar
<1> QED BY <1>1, <1>2, <1>7, HoldingsKept

(* An operation taken off the list is folded into the running apply.       *)
LEMMA FoldInvisible ==
  ASSUME MeaningInv, IInv', Same, FoldNext
  PROVE  UNCHANGED <<Holdings, resultBar>>
<1>1. /\ IInv /\ HoldingsMean /\ RecursionMeans /\ Sound
      /\ pc = "op" /\ pc' = "op" /\ calls = <<>> /\ ret # NoId /\ calls' # <<>>
      /\ todo # <<>> /\ todo' = Tail(todo)
      /\ UNCHANGED <<headers, handle, rpn>>
  BY MeaningParts, SoundNow DEF FoldNext, ForestMeans, arena
<1>2. PICK n \in Nat :
                      /\ n >= 1 /\ DOMAIN todo = 1 .. n /\ DOMAIN todo' = 1 .. n - 1
                      /\ Head(todo) = todo[1]
                      /\ \A k \in 1 .. n - 1 : todo'[k] = todo[k + 1] /\ k + 1 \in 1 .. n
                      /\ (todo' = <<>> <=> n = 1)
  <2> DEFINE Item == [op : {"and", "or"}, arg : Id]
  <2>1. todo \in Seq(Item)
    BY <1>1 DEF IInv, TypeOK
  <2> HIDE DEF Item
  <2>2. PICK n \in Nat : n = Len(todo) /\ n >= 1
    BY <1>1, <2>1
  <2>3. todo' \in Seq(Item) /\ Len(todo') = n - 1
    BY <1>1, <2>1, <2>2
  <2>4. DOMAIN todo = 1 .. n /\ DOMAIN todo' = 1 .. n - 1 /\ Head(todo) = todo[1]
    BY <1>1, <2>1, <2>2, <2>3
  <2>5. ASSUME NEW k \in 1 .. n - 1
        PROVE  todo'[k] = todo[k + 1] /\ k + 1 \in 1 .. n
    BY <1>1, <2>1, <2>2
  <2>6. todo' = <<>> <=> n = 1
    BY <2>2, <2>3
  <2> QED BY <2>2, <2>4, <2>5, <2>6
<1>3. PICK op, a, b : op = todo[1].op /\ a = todo[1].arg /\ b = ret
  OBVIOUS
<1>4. /\ op \in {"and", "or"}
      /\ \A x : Applied(calls[1].op, calls[1].args, x)' = Applied(op, <<b, a, Zero>>, x)
  BY <1>2, <1>3, FoldNextMeans
<1>5. a \in Good /\ b \in Good
  BY <1>1, <1>2, <1>3, HoldingsGood, GoodFrames DEF RecursionMeans
<1>6. ASSUME NEW x \in Assignment
      PROVE  /\ First(x) = (Value(b, x) = One)
             /\ op = "and" => First(x)' = (Value(b, x) = One /\ Value(a, x) = One)
             /\ op = "or" => First(x)' = (Value(b, x) = One \/ Value(a, x) = One)
  <2>1. First(x) = (Value(b, x) = One)
    BY <1>1, <1>3 DEF First
  <2>2. First(x)' = (Applied(op, <<b, a, Zero>>, x) = One)
    BY <1>1, <1>4 DEF First
  <2>3. /\ op = "and" => Applied(op, <<b, a, Zero>>, x) = Bit(Value(b, x) = One /\ Value(a, x) = One)
        /\ op = "or" => Applied(op, <<b, a, Zero>>, x) = Bit(Value(b, x) = One \/ Value(a, x) = One)
    BY DEF Applied, Scalar
  <2> QED BY <2>1, <2>2, <2>3 DEF Bit, Zero, One
<1>7. ASSUME NEW k \in 1 .. n - 1, NEW x
      PROVE  Value(todo[k].arg, x)' = Value(todo[k + 1].arg, x)
  <2>1. PICK j \in DOMAIN todo : j = k + 1 /\ todo'[k] = todo[j] /\ k \in DOMAIN todo'
    BY <1>2
  <2> QED BY <1>1, <2>1, OperandKept
<1>8. ASSUME NEW x
      PROVE  /\ Rest("and", x) <=> (Value(a, x) = One /\ Rest("and", x)')
             /\ Rest("or", x) <=> (Value(a, x) = One \/ Rest("or", x)')
  <2>1. \A k \in 1 .. n : k = 1 \/ k - 1 \in 1 .. n - 1
    OBVIOUS
  <2>2. \A k \in 1 .. n : k # 1 => Value(todo[k].arg, x) = Value(todo[k - 1].arg, x)'
    BY <1>7, <2>1
  <2>3. 1 \in 1 .. n /\ \A k \in 1 .. n - 1 : k + 1 \in 1 .. n
    BY <1>2
  <2>4. /\ Rest("and", x) = (\A k \in 1 .. n : Value(todo[k].arg, x) = One)
        /\ Rest("or", x) = (\E k \in 1 .. n : Value(todo[k].arg, x) = One)
    BY <1>2 DEF Rest
  <2>5. /\ Rest("and", x)' = (\A k \in 1 .. n - 1 : Value(todo[k].arg, x)' = One)
        /\ Rest("or", x)' = (\E k \in 1 .. n - 1 : Value(todo[k].arg, x)' = One)
    BY <1>2 DEF Rest
  <2> QED BY <1>3, <1>7, <2>1, <2>2, <2>3, <2>4, <2>5, ZenonT(60)
<1>9. n # 1 => todo'[1].op = op
  BY <1>1, <1>2, <1>3 DEF HoldingsMean, OneFold
<1>10. ASSUME n = 1, NEW x
       PROVE  Rest("and", x)' = TRUE /\ Rest("or", x)' = FALSE
  BY <1>2, <1>10 DEF Rest
<1>11. Pending' = Pending
  <2>1. CASE op = "and"
    <3>1. ASSUME NEW x \in Assignment
          PROVE  (IF todo' = <<>> THEN First(x)' ELSE First(x)' /\ Rest("and", x)')
                   = (First(x) /\ Rest("and", x))
      BY <1>2, <1>6, <1>8, <1>10, <2>1, <3>1
    <3>2. Pending = [x \in Assignment |-> First(x) /\ Rest("and", x)]
      BY <1>1, <1>3, <2>1, PendingAt
    <3>3. Pending' = [x \in Assignment |->
                        IF todo' = <<>> THEN First(x)' ELSE First(x)' /\ Rest("and", x)']
      BY <1>2, <1>9, <2>1, PendingAtNext
    <3> QED BY <3>1, <3>2, <3>3
  <2>2. CASE op = "or"
    <3>1. ASSUME NEW x \in Assignment
          PROVE  (IF todo' = <<>> THEN First(x)' ELSE First(x)' \/ Rest("or", x)')
                   = (First(x) \/ Rest("or", x))
      BY <1>2, <1>6, <1>8, <1>10, <2>2, <3>1
    <3>2. Pending = [x \in Assignment |-> First(x) \/ Rest("or", x)]
      BY <1>1, <1>3, <2>2, PendingAt
    <3>3. Pending' = [x \in Assignment |->
                        IF todo' = <<>> THEN First(x)' ELSE First(x)' \/ Rest("or", x)']
      BY <1>2, <1>9, <2>2, PendingAtNext
    <3> QED BY <3>1, <3>2, <3>3
  <2> QED BY <1>4, <2>1, <2>2
<1>12. resultBar' = resultBar
  BY <1>1, <1>11 DEF resultBar
<1> QED BY <1>1, <1>12, HoldingsKept

(* Collections, thresholds and the computed table are invisible, and so    *)
(* are the start of an rpn and its panic.                                  *)
LEMMA OtherStepsInvisible ==
  ASSUME IInv, IInv', Same,
         \/ \E t \in Threshold : SetGcThreshold(t)
         \/ ClearCache
         \/ RpnStart
         \/ \E keep \in SUBSET Held : ExplicitGc(keep)
         \/ MarkStep
         \/ SweepStep
         \/ \E op \in Called : RpnUnderflow(op)
  PROVE  UNCHANGED <<Holdings, resultBar>>
<1>1. /\ UNCHANGED <<headers, handle, rpn>>
      /\ pc \notin {"op", "rpnop"} /\ pc' \notin {"op", "rpnop"}
  BY DEF SetGcThreshold, ClearCache, RpnStart, ExplicitGc, MarkStep, SweepStep, Sweep,
         RpnUnderflow, Reading, Ready, mgr, arena
<1> QED BY <1>1, NoCall, HoldingsKept

LEMMA StutterInvisible ==
  ASSUME IInv, IInv', Same, UNCHANGED allvars
  PROVE  UNCHANGED <<Holdings, resultBar>>
<1>1. UNCHANGED <<nodes, free, headers, handle, rpn, calls, ret, todo, pc>>
  BY DEF allvars, arena, engine, mgr
<1>2. \A x \in Assignment : First(x)' = First(x)
  BY <1>1 DEF First, Applied, Value, Valuation, Inner, Alloc, Slots, Level, Low, High
<1>3. \A x : Rest("and", x)' = Rest("and", x) /\ Rest("or", x)' = Rest("or", x)
  BY <1>1 DEF Rest, Value, Valuation, Inner, Alloc, Slots, Level, Low, High
<1>4. Pending' = Pending
  BY <1>1, <1>2, <1>3, PendingAt, PendingAtNext
<1> QED BY <1>1, <1>4, HoldingsKept DEF resultBar

(* The result gets a handle.                                               *)
LEMMA FinishRefines ==
  ASSUME MeaningInv, IInv', Same, NEW h \in Handle, Finish(h)
  PROVE  Abs!Respond(h)
<1>1. /\ IInv /\ RecursionMeans /\ pc = "op" /\ calls = <<>> /\ ret # NoId /\ todo = <<>>
      /\ h \in Unused /\ handle' = [handle EXCEPT ![h] = ret]
      /\ UNCHANGED <<headers, rpn>> /\ pc' \in {"idle", "autogc"}
  BY MeaningParts DEF Finish, Hold, arena
<1>2. PICK i : i = ret /\ i # NoId /\ i \in Alloc /\ i \in Alloc'
  <2>1. ret \in Alloc
    BY <1>1, GoodFrames DEF RecursionMeans, Good
  <2>2. handle'[h] = ret /\ h \in Handle
    BY <1>1 DEF IInv, TypeOK
  <2> QED BY <1>1, <2>1, <2>2 DEF IInv, Pinned, Held
<1>3. Abs!Give(h, FunctionOf(i)')
  BY <1>1, <1>2, HandleTakes
<1>4. Pending = FunctionOf(i) /\ FunctionOf(i)' = FunctionOf(i)
  BY <1>1, <1>2, FunctionKept DEF Pending, First, FunctionOf
<1>5. resultBar = Pending /\ resultBar # None /\ resultBar' = None
  BY <1>1, NoCall DEF resultBar
<1> QED BY <1>1, <1>3, <1>4, <1>5, StackKept, SavedKept DEF Abs!Respond

----------------------------------------------------------------------------
(* The tokens of an rpn.                                                   *)

(* What a push changes.                                                    *)
LEMMA PushMeans ==
  ASSUME IInv, IInv', Same, pc = "rpn", pc' = "rpn", NEW i, Push(i), UNCHANGED handle
  PROVE  /\ resultBar = None /\ resultBar' = None
         /\ holdsBar' = holdsBar /\ savedBar' = savedBar
         /\ stackBar' = Append(stackBar, FunctionOf(i)')
<1>1. rpn'.stack = Append(rpn.stack, i) /\ rpn'.saved = rpn.saved
  BY DEF Push, IInv, TypeOK
<1> QED BY <1>1, NoCall, HandlesKept, SavedKept, StackPushed

LEMMA RpnConstantRefines ==
  ASSUME IInv, IInv', Same, NEW t \in Terminals, RpnConstant(t)
  PROVE  \E f \in Abs!Pushable : Abs!TokenPush(f)
<1>1. /\ pc = "rpn" /\ pc' = "rpn" /\ t \in {Zero, One} /\ Push(t)
      /\ UNCHANGED handle /\ headers' = headers
  BY DEF RpnConstant, Reading, arena
<1>2. PICK f : f = FunctionOf(t)'
  OBVIOUS
<1>3. f \in Abs!Pushable
  BY <1>1, <1>2, TerminalMeans DEF Abs!Pushable
<1>4. Abs!TokenPush(f)
  BY <1>1, <1>2, PushMeans DEF Abs!TokenPush
<1> QED BY <1>3, <1>4

LEMMA RpnVariableRefines ==
  ASSUME MeaningInv, IInv', Same, NEW v \in Var, RpnNewVariable(v) \/ RpnKnownVariable(v)
  PROVE  Abs!TokenVariable(v)
<1>1. IInv /\ pc = "rpn" /\ pc' = "rpn" /\ UNCHANGED handle
  BY DEF RpnNewVariable, RpnKnownVariable, Reading, MeaningInv
<1>2. CASE RpnNewVariable(v)
  <2>1. DeclareVar(v) /\ UNCHANGED cache /\ calls' = <<>> /\ ret' = NoId /\ Push(vars'[v])
    BY <1>1, <1>2, NoRecursion DEF RpnNewVariable, engine
  <2>2. Abs!Declare(v)
    BY <2>1, DeclarationRefines
  <2>3. PICK i : i = vars'[v] /\ FunctionOf(i)' = Abs!Projection(v)
    BY <2>1, DeclarationRefines
  <2>4. Push(i)
    BY <2>1, <2>3
  <2> QED BY <1>1, <2>2, <2>3, <2>4, PushMeans DEF Abs!TokenVariable
<1>3. CASE RpnKnownVariable(v)
  <2>1. vars[v] # NoId /\ UNCHANGED <<headers, vars>> /\ Push(vars[v])
    BY <1>3 DEF RpnKnownVariable, arena
  <2>2. PICK i : i = vars[v] /\ i # NoId /\ i \in Alloc /\ i \in Alloc'
    BY <1>1, <2>1 DEF IInv, Pinned
  <2>3. FunctionOf(i)' = Abs!Projection(v) /\ v \in Abs!Declared
    BY <2>1, <2>2, FunctionKept, VariableMeans
  <2>4. Abs!Declare(v)
    BY <2>1, <2>3 DEF Abs!Declare
  <2>5. Push(i)
    BY <2>1, <2>2
  <2> QED BY <1>1, <2>3, <2>4, <2>5, PushMeans DEF Abs!TokenVariable
<1> QED BY <1>2, <1>3

LEMMA RpnLoadRefines ==
  ASSUME IInv, IInv', Same, NEW n \in Name, RpnLoad(n)
  PROVE  \E f \in Abs!Pushable : Abs!TokenPush(f)
<1>1. /\ pc = "rpn" /\ pc' = "rpn" /\ rpn.saved[n] # NoId /\ Push(rpn.saved[n])
      /\ UNCHANGED handle /\ headers' = headers
  BY DEF RpnLoad, Reading, arena
<1>2. PICK i : i = rpn.saved[n] /\ i \in Alloc
  BY <1>1 DEF IInv, RawInv
<1>3. i \in Alloc'
  <2>1. rpn'.saved[n] = i
    BY <1>1, <1>2 DEF Push, IInv, TypeOK
  <2> QED BY <1>1, <1>2, <2>1 DEF IInv, RawInv
<1>4. PICK f : f = FunctionOf(i) /\ f = FunctionOf(i)'
  BY <1>2, <1>3, FunctionKept
<1>5. f \in Abs!Pushable
  BY <1>1, <1>2, <1>4, SavedNow DEF Abs!Pushable
<1>6. Abs!TokenPush(f)
  BY <1>1, <1>2, <1>4, PushMeans DEF Abs!TokenPush
<1> QED BY <1>5, <1>6

LEMMA RpnSaveRefines ==
  ASSUME IInv, IInv', Same, NEW n \in Name, RpnSave(n)
  PROVE  Abs!TokenSave(n)
<1>1. /\ pc = "rpn" /\ pc' = "rpn" /\ rpn.stack # <<>>
      /\ rpn' = [rpn EXCEPT !.saved[n] = rpn.stack[Depth]]
      /\ UNCHANGED handle /\ headers' = headers
      /\ rpn \in [stack : Seq(Id), saved : [Name -> IdOrNone]]
  BY DEF RpnSave, Reading, arena, IInv, TypeOK
<1>0. rpn.stack \in Seq(Id)
  BY DEF IInv, TypeOK
<1>2. PICK m \in Nat : m = Len(rpn.stack) /\ m >= 1 /\ DOMAIN rpn.stack = 1 .. m
  BY <1>0, <1>1
<1>3. PICK i : i = rpn.stack[m]
  OBVIOUS
<1>4. /\ rpn'.stack = rpn.stack /\ rpn'.saved[n] = i
      /\ \A k \in Name : k # n => rpn'.saved[k] = rpn.saved[k]
  BY <1>1, <1>2, <1>3 DEF Depth
<1>5. i # NoId /\ i \in Alloc /\ i \in Alloc'
  <2>1. m \in DOMAIN rpn.stack /\ m \in DOMAIN rpn'.stack /\ rpn'.stack[m] = i
    BY <1>2, <1>3, <1>4
  <2>2. i \in Id
    BY <1>0, <1>3, <2>1
  <2> QED BY <1>3, <2>1, <2>2 DEF IInv, RawInv, Id, NoId
<1>6. PICK f : f = FunctionOf(i) /\ f = FunctionOf(i)'
  BY <1>5, FunctionKept
<1>7. savedBar' = [savedBar EXCEPT ![n] = f]
  <2>1. savedBar'[n] = f /\ \A k \in Name : k # n => savedBar'[k] = savedBar[k]
    BY <1>4, <1>5, <1>6, SavedNext, NameKept
  <2>2. /\ savedBar = [k \in Name |-> savedBar[k]]
        /\ savedBar' = [k \in Name |-> savedBar'[k]]
    BY DEF savedBar
  <2> QED BY <2>1, <2>2
<1>8. Abs!Depth = m /\ Abs!Operand(1) = f
  <2>1. Len(stackBar) = m /\ stackBar[m] = FunctionOf(rpn.stack[m])
    BY <1>2, StackNow DEF StackIs
  <2> QED BY <1>2, <1>3, <1>6, <2>1 DEF Abs!Depth, Abs!Operand
<1>9. /\ resultBar = None /\ resultBar' = None
      /\ holdsBar' = holdsBar /\ stackBar' = stackBar
  BY <1>1, <1>4, NoCall, HandlesKept, StackKept
<1>10. Abs!Depth > 0
  BY <1>2, <1>8
<1> QED BY <1>1, <1>7, <1>8, <1>9, <1>10 DEF Abs!TokenSave

(* The operands of an operator are the functions on top of the stack.      *)
LEMMA RpnOperatorRefines ==
  ASSUME MeaningInv, IInv', Same, NEW op \in Called, RpnOperator(op)
  PROVE  op \in Abs!Ops /\ Abs!TokenOperator(op)
<1>1. /\ IInv /\ HoldingsMean /\ Sound /\ op \in Ops
      /\ pc = "rpn" /\ pc' = "rpnop" /\ Depth >= Arity(op)
      /\ calls' = <<Call(op, OperatorArgs(op))>> /\ ret' = NoId /\ todo' = <<>>
      /\ UNCHANGED <<arena, cache, vars, handle>>
  <2>1. IInv /\ HoldingsMean /\ Sound
    BY MeaningParts, SoundNow DEF ForestMeans
  <2> QED BY <2>1, NoRecursion, ConstantsAssumption DEF RpnOperator, Reading, IInv, PhaseInv
<1>2. PICK a \in GoodTriple : a = OperatorArgs(op)
  BY <1>1, OperatorArgsGood
<1>3. Pending' = ResultOf(op, a)
  <2>1. calls' = <<Call(op, a)>>
    BY <1>1, <1>2
  <2> QED BY <1>1, <2>1, OperationCalled, PendingCalled
<1>4. PICK f, g, h : f = FunctionOf(a[1]) /\ g = FunctionOf(a[2]) /\ h = FunctionOf(a[3])
  OBVIOUS
<1>5. Pending' = Abs!Meaning(op, f, g, h)
  BY <1>1, <1>3, <1>4, AppliedMeans
<1>6. PICK m \in Nat : /\ m = Len(rpn.stack) /\ m = Depth /\ m >= Arity(op)
                      /\ Len(stackBar) = m
  BY <1>1, StackNow DEF Depth, StackIs, IInv, TypeOK
<1>7. /\ rpn'.stack = SubSeq(rpn.stack, 1, m - Arity(op)) /\ rpn'.saved = rpn.saved
      /\ m - Arity(op) \in 0 .. m
  <2>1. rpn' = [rpn EXCEPT !.stack = SubSeq(rpn.stack, 1, Depth - Arity(op))]
    BY DEF RpnOperator
  <2>2. DOMAIN rpn = {"stack", "saved"}
    BY <1>1 DEF IInv, TypeOK
  <2>3. Arity(op) \in 1 .. 3
    BY DEF Arity
  <2>4. m - Arity(op) \in 0 .. m
    BY <1>6, <2>3
  <2> QED BY <1>6, <2>1, <2>2, <2>4
<1>8. /\ resultBar = None /\ resultBar' = Pending' /\ headers' = headers
      /\ holdsBar' = holdsBar /\ savedBar' = savedBar
      /\ stackBar' = SubSeq(stackBar, 1, m - Arity(op))
  BY <1>1, <1>6, <1>7, NoCall, HandlesKept, SavedKept, StackPopped DEF resultBar, arena
<1>9. \A k \in 1 .. m : stackBar[k] = FunctionOf(rpn.stack[k])
  BY <1>1, <1>6, StackNow DEF StackIs
<1>10. \A k \in 1 .. m : Abs!Operand(k) = stackBar[m + 1 - k]
  BY <1>6 DEF Abs!Operand, Abs!Depth
<1>11. CASE op = "not"
  <2>1. a[1] = rpn.stack[m] /\ m \in 1 .. m /\ Arity(op) = 1 /\ 1 \in 1 .. m /\ m + 1 - 1 = m
    BY <1>2, <1>6, <1>11 DEF OperatorArgs, Arity
  <2>2. Abs!Operand(1) = f
    BY <1>4, <1>9, <1>10, <2>1
  <2>3. Pending' = Abs!Meaning(op, Abs!Operand(1), Abs!Operand(1), Abs!Operand(1))
    BY <1>5, <1>11, <2>2, PaddingIgnored
  <2> QED BY <1>1, <1>6, <1>8, <1>11, <2>1, <2>3 DEF Abs!TokenOperator, Abs!Depth, Abs!Ops
<1>12. CASE op = "ite"
  <2>1. /\ a[1] = rpn.stack[m - 2] /\ a[2] = rpn.stack[m - 1] /\ a[3] = rpn.stack[m]
        /\ m \in 1 .. m /\ m - 1 \in 1 .. m /\ m - 2 \in 1 .. m /\ Arity(op) = 3
        /\ 1 \in 1 .. m /\ 2 \in 1 .. m /\ 3 \in 1 .. m
        /\ m + 1 - 1 = m /\ m + 1 - 2 = m - 1 /\ m + 1 - 3 = m - 2
    BY <1>2, <1>6, <1>12 DEF OperatorArgs, Arity
  <2>2. Abs!Operand(3) = f /\ Abs!Operand(2) = g /\ Abs!Operand(1) = h
    BY <1>4, <1>9, <1>10, <2>1
  <2>3. Pending' = Abs!Mux(Abs!Operand(3), Abs!Operand(2), Abs!Operand(1))
    BY <1>5, <1>12, <2>2 DEF Abs!Meaning
  <2> QED BY <1>1, <1>6, <1>8, <1>12, <2>1, <2>3 DEF Abs!TokenOperator, Abs!Depth, Abs!Ops
<1>13. CASE op \in {"and", "or", "xor"}
  <2>1. /\ a[1] = rpn.stack[m - 1] /\ a[2] = rpn.stack[m]
        /\ m \in 1 .. m /\ m - 1 \in 1 .. m /\ Arity(op) = 2
        /\ 1 \in 1 .. m /\ 2 \in 1 .. m
        /\ m + 1 - 1 = m /\ m + 1 - 2 = m - 1
    BY <1>2, <1>6, <1>13 DEF OperatorArgs, Arity
  <2>2. Abs!Operand(2) = f /\ Abs!Operand(1) = g
    BY <1>4, <1>9, <1>10, <2>1
  <2>3. Pending' = Abs!Meaning(op, Abs!Operand(2), Abs!Operand(1), Abs!Operand(1))
    BY <1>5, <1>13, <2>2, PaddingIgnored
  <2> QED BY <1>1, <1>6, <1>8, <1>13, <2>1, <2>3 DEF Abs!TokenOperator, Abs!Depth, Abs!Ops
<1> QED BY <1>1, <1>11, <1>12, <1>13 DEF Ops

LEMMA RpnResultRefines ==
  ASSUME MeaningInv, IInv', Same, RpnResult
  PROVE  Abs!TokenResult
<1>1. /\ IInv /\ RecursionMeans /\ pc = "rpnop" /\ pc' = "rpn"
      /\ calls = <<>> /\ ret # NoId /\ todo = <<>> /\ Push(ret)
      /\ UNCHANGED <<headers, handle>>
  BY MeaningParts DEF RpnResult, arena, IInv, PhaseInv
<1>2. rpn'.stack = Append(rpn.stack, ret) /\ rpn'.saved = rpn.saved
  BY <1>1 DEF Push, IInv, TypeOK
<1>3. PICK i : i = ret /\ i \in Alloc
  BY <1>1, GoodFrames DEF RecursionMeans, Good
<1>4. i \in Alloc'
  <2>1. rpn.stack \in Seq(Id) /\ i \in Id
    BY <1>1, <1>3, SlotTypes DEF IInv, TypeOK, Id
  <2>2. Len(rpn.stack) + 1 \in DOMAIN rpn'.stack /\ rpn'.stack[Len(rpn.stack) + 1] = i
    BY <1>2, <1>3, <2>1
  <2> QED BY <2>2 DEF IInv, RawInv
<1>5. Pending = FunctionOf(i) /\ FunctionOf(i)' = FunctionOf(i)
  BY <1>1, <1>3, <1>4, FunctionKept DEF Pending, First, FunctionOf
<1>6. stackBar' = Append(stackBar, Pending)
  BY <1>1, <1>2, <1>3, <1>5, StackPushed
<1>7. resultBar = Pending /\ resultBar # None /\ resultBar' = None
  BY <1>1, NoCall DEF resultBar
<1> QED BY <1>1, <1>2, <1>6, <1>7, HandlesKept, SavedKept DEF Abs!TokenResult

(* The expression is read to its end, or the call ends without a handle.   *)
LEMMA RpnEndRefines ==
  ASSUME MeaningInv, IInv', Same, RpnAbort \/ RpnEnd
  PROVE  Abs!EndOfExpression
<1>1. /\ IInv /\ pc \notin {"op", "rpnop"} /\ rpn' = NoRpn /\ todo' = todo
      /\ calls' = <<>> /\ UNCHANGED <<headers, handle>>
  BY NoRecursion DEF RpnAbort, RpnEnd, MeaningInv, arena, engine
<1>2. resultBar = None /\ holdsBar' = holdsBar
  BY <1>1, NoCall, HandlesKept
<1>3. stackBar' = <<>> /\ savedBar' = [n \in Name |-> None]
  BY <1>1 DEF NoRpn, stackBar, savedBar, FunctionOrNone
<1>4. CASE RpnAbort
  <2>1. resultBar' = None
    BY <1>4, NoCall DEF RpnAbort
  <2> QED BY <1>1, <1>2, <1>3, <2>1 DEF Abs!EndOfExpression
<1>5. CASE RpnEnd
  <2>1. Depth = 1 /\ ret' = rpn.stack[1] /\ pc' = "op" /\ todo' = <<>>
    BY <1>1, <1>5 DEF RpnEnd, IInv, PhaseInv
  <2>2. rpn.stack \in Seq(Id) /\ 1 \in DOMAIN rpn.stack
    BY <1>1, <2>1 DEF Depth, IInv, TypeOK
  <2>3. PICK i : i = rpn.stack[1] /\ i = ret' /\ i \in Alloc /\ i \in Id
    BY <1>1, <2>1, <2>2 DEF IInv, RawInv
  <2>4. i \in Alloc'
    BY <2>3 DEF IInv, EngineInv, RetInv, Id, NoId
  <2>5. Pending' = FunctionOf(i)' /\ FunctionOf(i)' = FunctionOf(i)
    BY <1>1, <2>1, <2>3, <2>4, PendingReturned, FunctionKept
  <2>6. Abs!Depth = 1 /\ Abs!Operand(1) = FunctionOf(i)
    <3>1. Len(stackBar) = 1 /\ stackBar[1] = FunctionOf(rpn.stack[1])
      BY <1>1, <2>1, StackNow DEF StackIs, Depth
    <3> QED BY <2>3, <3>1 DEF Abs!Depth, Abs!Operand
  <2>7. resultBar' = Abs!Operand(1)
    BY <2>1, <2>5, <2>6 DEF resultBar
  <2> QED BY <1>1, <1>2, <1>3, <2>6, <2>7 DEF Abs!EndOfExpression
<1> QED BY <1>4, <1>5

----------------------------------------------------------------------------
(* The refinement.                                                         *)

LEMMA StepRefines ==
  ASSUME MeaningInv, [Next]_allvars
  PROVE  [Abs!AbsNext]_(Abs!absvars)
<1>1. IInv /\ IInv' /\ Same
  BY StepsKeepValues DEF MeaningInv
<1>2. UNCHANGED <<Holdings, resultBar>> => UNCHANGED Abs!absvars
  BY DEF Holdings, Abs!absvars
<1>3. CASE ClientCall
  <2>1. ASSUME NEW h \in Handle, NEW g \in Handle, CloneHandle(h, g)
        PROVE  Abs!AbsNext
    BY <1>1, <2>1, CloneRefines DEF Abs!AbsNext
  <2>2. ASSUME NEW h \in Handle, DropHandle(h)
        PROVE  Abs!AbsNext
    BY <1>1, <2>2, DropRefines DEF Abs!AbsNext
  <2>3. ASSUME NEW v \in Var, NEW h \in Handle, DefVarNew(v, h) \/ DefVarKnown(v, h)
        PROVE  Abs!AbsNext
    BY <1>1, <2>3, DefineRefines DEF Abs!AbsNext
  <2>4. ASSUME NEW h \in Handle, NEW low \in Handle, NEW high \in Handle,
               GetChildren(h, low, high)
        PROVE  Abs!AbsNext
    BY <1>1, <2>4, ChildrenRefine DEF Abs!AbsNext
  <2>5. ASSUME NEW t \in Terminals, Constant(t)
        PROVE  Abs!AbsNext
    BY <1>1, <2>5, ConstantRefines DEF Abs!AbsNext
  <2>6. ASSUME NEW l \in 0 .. Len(headers) - 1, NEW lo \in Held, NEW hi \in Held,
               PublicCreateNode(l, lo, hi)
        PROVE  Abs!AbsNext
    BY <1>1, <2>6, NodeRefines DEF Abs!AbsNext
  <2>7. ASSUME NEW op \in Called, NEW args \in ArgTuples(op), Invoke(op, args)
        PROVE  Abs!AbsNext
    BY <1>1, <2>7, InvokeRefines DEF Abs!AbsNext
  <2>8. ASSUME NEW op \in Called \cap {"and", "or"}, NEW list \in Lists, InvokeList(op, list)
        PROVE  Abs!AbsNext
    BY <1>1, <2>8, ListRefines DEF Abs!AbsNext
  <2>9. CASE \/ \E t \in Threshold : SetGcThreshold(t)
             \/ ClearCache
             \/ RpnStart
             \/ \E keep \in SUBSET Held : ExplicitGc(keep)
    BY <1>1, <1>2, <2>9, OtherStepsInvisible
  <2> QED BY <1>3, <2>1, <2>2, <2>3, <2>4, <2>5, <2>6, <2>7, <2>8, <2>9 DEF ClientCall
<1>4. CASE RpnToken
  <2>1. ASSUME NEW t \in Terminals, RpnConstant(t)
        PROVE  Abs!AbsNext
    BY <1>1, <2>1, RpnConstantRefines DEF Abs!AbsNext
  <2>2. ASSUME NEW v \in Var, RpnNewVariable(v) \/ RpnKnownVariable(v)
        PROVE  Abs!AbsNext
    BY <1>1, <2>2, RpnVariableRefines DEF Abs!AbsNext
  <2>3. ASSUME NEW op \in Called, RpnOperator(op)
        PROVE  Abs!AbsNext
    BY <1>1, <2>3, RpnOperatorRefines DEF Abs!AbsNext
  <2>4. ASSUME NEW op \in Called, RpnUnderflow(op)
        PROVE  UNCHANGED Abs!absvars
    BY <1>1, <1>2, <2>4, OtherStepsInvisible
  <2>5. ASSUME NEW n \in Name, RpnSave(n)
        PROVE  Abs!AbsNext
    BY <1>1, <2>5, RpnSaveRefines DEF Abs!AbsNext
  <2>6. ASSUME NEW n \in Name, RpnLoad(n)
        PROVE  Abs!AbsNext
    BY <1>1, <2>6, RpnLoadRefines DEF Abs!AbsNext
  <2> QED BY <1>4, <2>1, <2>2, <2>3, <2>4, <2>5, <2>6 DEF RpnToken
<1>5. CASE Progress
  <2>1. CASE Apply
    BY <1>1, <1>2, <2>1, ApplyInvisible
  <2>2. CASE FoldNext
    BY <1>1, <1>2, <2>2, FoldInvisible
  <2>3. ASSUME NEW h \in Handle, Finish(h)
        PROVE  Abs!AbsNext
    BY <1>1, <2>3, FinishRefines DEF Abs!AbsNext
  <2>4. CASE MarkStep \/ SweepStep
    BY <1>1, <1>2, <2>4, OtherStepsInvisible
  <2>5. CASE RpnResult
    BY <1>1, <2>5, RpnResultRefines DEF Abs!AbsNext
  <2>6. CASE RpnAbort \/ RpnEnd
    BY <1>1, <2>6, RpnEndRefines DEF Abs!AbsNext
  <2> QED BY <1>5, <2>1, <2>2, <2>3, <2>4, <2>5, <2>6 DEF Progress
<1>6. CASE UNCHANGED allvars
  BY <1>1, <1>2, <1>6, StutterInvisible
<1> QED BY <1>3, <1>4, <1>5, <1>6 DEF Next

(* BddMgr (src/bss/src/bdd.rs) implements StructureFunctions: whatever its *)
(* tables, reference counts and collections do, the functions a client     *)
(* gets are those of the operations it called, and they stay what they are *)
(* until it drops them.                                                    *)
THEOREM Implementation == Spec => Implements
<1>1. Init => Abs!AbsInit
  BY InitRefines
<1>2. MeaningInv /\ [Next]_allvars => [Abs!AbsNext]_(Abs!absvars)
  BY StepRefines
<1> QED BY <1>1, <1>2, MeaningInvariance, PTL DEF Spec, Implements, Abs!AbsSpec
=============================================================================
