------------------------ MODULE BddSemantics_proofs -------------------------
(***************************************************************************)
(* What the nodes mean, for every number of variables, handles and calls:  *)
(* MeaningInv is inductive, and with it the computed table is sound, equal *)
(* handles are equal functions and a collection is exact.                  *)
(***************************************************************************)
EXTENDS BddSemantics, BddMgr_proofs

----------------------------------------------------------------------------
(* The recursion that defines a node's value is well founded: edges lead   *)
(* to lower levels.                                                        *)

LEMMA ValuationDef ==
  ArenaTypeOK /\ ArenaInv =>
    \A x : Valuation(x) =
      [i \in Slots |->
         IF i \in Inner
           THEN IF x[headers[Level(i) + 1]] THEN Valuation(x)[High(i)] ELSE Valuation(x)[Low(i)]
           ELSE IF i \in Terminals THEN i ELSE Undet]
<1> SUFFICES ASSUME ArenaTypeOK, ArenaInv, NEW x
             PROVE  Valuation(x) =
                      [i \in Slots |->
                         IF i \in Inner
                           THEN IF x[headers[Level(i) + 1]] THEN Valuation(x)[High(i)]
                                ELSE Valuation(x)[Low(i)]
                           ELSE IF i \in Terminals THEN i ELSE Undet]
  OBVIOUS
<1> DEFINE At(v, i) ==
             IF i \in Inner
               THEN IF x[headers[Level(i) + 1]] THEN v[High(i)] ELSE v[Low(i)]
               ELSE IF i \in Terminals THEN i ELSE Undet
           Upto(n) == \E v \in [Slots -> Terminals] :
                        \A i \in Slots : Level(i) < n => v[i] = At(v, i)
           Height == Len(headers)
<1>1. Valuation(x) = CHOOSE v : v = [i \in Slots |-> At(v, i)]
  BY DEF Valuation
<1>2. /\ Height \in Nat
      /\ \A i \in Inner : /\ i \in Slots /\ Low(i) \in Slots /\ High(i) \in Slots
                          /\ Level(i) \in Nat /\ Level(i) < Height
                          /\ Level(Low(i)) < Level(i) /\ Level(High(i)) < Level(i)
      /\ \A i \in Slots : Level(i) \in Int
  BY SlotTypes DEF ArenaTypeOK, ArenaInv, Ordered, NoLevel
<1>3. Upto(0)
  <2> DEFINE v == [i \in Slots |-> IF i \in Terminals THEN i ELSE Undet]
  <2>1. v \in [Slots -> Terminals]
    BY DEF Terminals
  <2>2. \A i \in Slots : Level(i) < 0 => v[i] = At(v, i)
    BY <1>2
  <2> QED BY <2>1, <2>2
<1>4. ASSUME NEW n \in Nat, Upto(n)
      PROVE  Upto(n + 1)
  <2>1. PICK v \in [Slots -> Terminals] : \A i \in Slots : Level(i) < n => v[i] = At(v, i)
    BY <1>4
  <2> DEFINE w == [i \in Slots |-> At(v, i)]
  <2>2. w \in [Slots -> Terminals]
    BY <1>2 DEF Terminals
  <2>3. \A i \in Slots : Level(i) < n => w[i] = v[i]
    BY <2>1
  <2>4. \A i \in Slots : Level(i) < n + 1 => At(w, i) = At(v, i)
    <3> SUFFICES ASSUME NEW i \in Slots, Level(i) < n + 1, i \in Inner
                 PROVE  w[Low(i)] = v[Low(i)] /\ w[High(i)] = v[High(i)]
      OBVIOUS
    <3> QED BY <1>2, <2>3
  <2> QED BY <2>2, <2>4
<1>5. \A n \in Nat : Upto(n)
  <2> DEFINE Bad == {n \in Nat : ~ Upto(n)}
  <2> HIDE DEF Upto
  <2> SUFFICES ASSUME Bad # {} PROVE FALSE
    OBVIOUS
  <2>1. PICK m \in Bad : \A k \in Bad : m <= k
    BY LeastNumber
  <2>2. m # 0 /\ m - 1 \in Nat /\ m - 1 \notin Bad
    BY <1>3, <2>1
  <2> QED BY <1>4, <2>1, <2>2
<1>6. \E v : v = [i \in Slots |-> At(v, i)]
  <2>1. PICK v \in [Slots -> Terminals] : \A i \in Slots : Level(i) < Height => v[i] = At(v, i)
    BY <1>2, <1>5
  <2>2. \A i \in Slots : Level(i) >= Height => i \notin Inner
    BY <1>2
  <2> DEFINE w == [i \in Slots |-> At(v, i)]
  <2>3. \A i \in Slots : Level(i) < Height => w[i] = v[i]
    BY <2>1
  <2>4. \A i \in Slots : At(w, i) = At(v, i)
    <3> SUFFICES ASSUME NEW i \in Inner
                 PROVE  w[Low(i)] = v[Low(i)] /\ w[High(i)] = v[High(i)]
      OBVIOUS
    <3> QED BY <1>2, <2>3
  <2>5. w = [i \in Slots |-> At(w, i)]
    BY <2>4
  <2> QED BY <2>5
<1>7. Valuation(x) = [i \in Slots |-> At(Valuation(x), i)]
  <2> HIDE DEF At
  <2> QED BY <1>1, <1>6
<1> QED BY <1>7

(* What Value is, one level at a time.                                     *)
Unfolds ==
  /\ \A t \in Terminals : \A x : Value(t, x) = t
  /\ \A i \in Inner : \A x : Value(i, x) =
       IF x[headers[Level(i) + 1]] THEN Value(High(i), x) ELSE Value(Low(i), x)

LEMMA ValueUnfolds == ArenaTypeOK /\ ArenaInv => Unfolds
<1> SUFFICES ASSUME ArenaTypeOK, ArenaInv PROVE Unfolds
  OBVIOUS
<1>1. Terminals \subseteq Slots /\ Inner \subseteq Slots
  BY SlotTypes
<1>2. ASSUME NEW t \in Terminals, NEW x
      PROVE  Value(t, x) = t
  BY <1>1, ValuationDef DEF Value, Inner
<1>3. ASSUME NEW i \in Inner, NEW x
      PROVE  Value(i, x) =
               IF x[headers[Level(i) + 1]] THEN Value(High(i), x) ELSE Value(Low(i), x)
  BY <1>1, ValuationDef DEF Value
<1> QED BY <1>2, <1>3 DEF Unfolds

LEMMA ValueUnfoldsNext == ArenaTypeOK' /\ ArenaInv' => Unfolds'
BY ValueUnfolds, PTL

(* A nonempty set of inner nodes has a lowest one, below which there are   *)
(* only nodes outside the set.                                             *)
LEMMA LowestNode ==
  ASSUME ArenaTypeOK, ArenaInv, NEW B \in SUBSET Inner, B # {}
  PROVE  \E i \in B : /\ Low(i) \in Alloc \ B /\ High(i) \in Alloc \ B
                      /\ Level(i) \in 0 .. Len(headers) - 1
                      /\ Level(Low(i)) < Level(i) /\ Level(High(i)) < Level(i)
<1> DEFINE L == {Level(i) : i \in B}
<1>1. \A i \in B : /\ Low(i) \in Alloc /\ High(i) \in Alloc
                   /\ Level(i) \in 0 .. Len(headers) - 1
                   /\ Level(Low(i)) < Level(i) /\ Level(High(i)) < Level(i)
  BY DEF ArenaInv, Ordered
<1>2. L \in SUBSET Nat /\ L # {}
  <2>1. Len(headers) \in Nat
    BY DEF ArenaTypeOK
  <2> QED BY <1>1, <2>1
<1>3. PICK m \in L : \A k \in L : m <= k
  <2> HIDE DEF L
  <2> QED BY <1>2, LeastNumber
<1>4. PICK i \in B : Level(i) = m
  OBVIOUS
<1>5. Low(i) \notin B /\ High(i) \notin B
  <2>1. \A j \in B : Level(j) \in Nat /\ m <= Level(j)
    BY <1>2, <1>3
  <2> QED BY <1>1, <1>4, <2>1
<1> QED BY <1>1, <1>5

(* Without edges to Undet the value of a node is a truth value.            *)
NodesDefined == \A i \in Inner : Low(i) # Undet /\ High(i) # Undet

Boolean == \A i \in Alloc \ {Undet} : \A x : Value(i, x) \in {Zero, One}

LEMMA ValueBoolean == ArenaTypeOK /\ ArenaInv /\ NodesDefined => Boolean
<1> SUFFICES ASSUME ArenaTypeOK, ArenaInv, NodesDefined, NEW x
             PROVE  \A i \in Alloc \ {Undet} : Value(i, x) \in {Zero, One}
  BY DEF Boolean
<1> DEFINE B == {i \in Inner : Value(i, x) \notin {Zero, One}}
<1>1. \A t \in Terminals \ {Undet} : Value(t, x) \in {Zero, One}
  BY ValueUnfolds DEF Unfolds, Terminals
<1>2. ASSUME B # {} PROVE FALSE
  <2>1. PICK i \in B : Low(i) \in Alloc \ B /\ High(i) \in Alloc \ B
    <3>1. B \in SUBSET Inner
      OBVIOUS
    <3> HIDE DEF B
    <3> QED BY <1>2, <3>1, LowestNode
  <2>2. Low(i) # Undet /\ High(i) # Undet
    BY DEF NodesDefined
  <2>3. Value(Low(i), x) \in {Zero, One} /\ Value(High(i), x) \in {Zero, One}
    BY <1>1, <2>1, <2>2 DEF Inner
  <2> QED BY <2>3, ValueUnfolds DEF Unfolds
<1> QED BY <1>1, <1>2 DEF Inner

LEMMA ValueBooleanNext == ArenaTypeOK' /\ ArenaInv' /\ NodesDefined' => Boolean'
BY ValueBoolean, PTL

(* A node that stays allocated keeps its value: nodes are not overwritten, *)
(* and headers are only appended.                                          *)
Extended == /\ Len(headers) <= Len(headers')
            /\ \A l \in DOMAIN headers : headers'[l] = headers[l]
Same == \A i \in Alloc : i \in Alloc' => \A x : Value(i, x)' = Value(i, x)

LEMMA ValuesStay ==
  ASSUME ArenaTypeOK, ArenaInv, ArenaTypeOK', ArenaInv', Extended, Stable
  PROVE  Same
<1> SUFFICES ASSUME NEW x
             PROVE  \A i \in Alloc : i \in Alloc' => Value(i, x)' = Value(i, x)
  BY DEF Same
<1> DEFINE B == {i \in Inner : i \in Alloc' /\ Value(i, x)' # Value(i, x)}
<1>1. \A t \in Terminals : Value(t, x)' = Value(t, x)
  <2>1. \A t \in Terminals : Value(t, x)' = t
    BY ValueUnfoldsNext DEF Unfolds
  <2> QED BY <2>1, ValueUnfolds DEF Unfolds
<1>2. ASSUME B # {} PROVE FALSE
  <2>1. PICK i \in B : /\ Low(i) \in Alloc \ B /\ High(i) \in Alloc \ B
                       /\ Level(i) \in 0 .. Len(headers) - 1
    <3>1. B \in SUBSET Inner
      OBVIOUS
    <3> HIDE DEF B
    <3> QED BY <1>2, <3>1, LowestNode
  <2>2. nodes'[i + 1] = nodes[i + 1]
    BY <2>1 DEF Stable, Inner, Alloc
  <2>3. Level(i)' = Level(i) /\ Low(i)' = Low(i) /\ High(i)' = High(i) /\ i \in Inner'
    BY <2>1, <2>2 DEF Level, Low, High, Inner
  <2>4. Low(i) \in Alloc' /\ High(i) \in Alloc'
    BY <2>3 DEF ArenaInv, Ordered
  <2>5. headers'[Level(i) + 1] = headers[Level(i) + 1]
    BY <2>1 DEF Extended, ArenaTypeOK
  <2>6. PICK lo, hi : /\ lo = Low(i) /\ lo = Low(i)' /\ hi = High(i) /\ hi = High(i)'
                      /\ Value(lo, x)' = Value(lo, x) /\ Value(hi, x)' = Value(hi, x)
    BY <1>1, <2>1, <2>3, <2>4 DEF Inner
  <2>7. Value(i, x)' = IF x[headers[Level(i) + 1]] THEN Value(hi, x)' ELSE Value(lo, x)'
    BY <2>3, <2>5, <2>6, ValueUnfoldsNext DEF Unfolds
  <2>8. Value(i, x) = IF x[headers[Level(i) + 1]] THEN Value(hi, x) ELSE Value(lo, x)
    <3>1. i \in Inner
      OBVIOUS
    <3>2. Value(i, x) = IF x[headers[Level(i) + 1]] THEN Value(High(i), x) ELSE Value(Low(i), x)
      BY <3>1, ValueUnfolds DEF Unfolds
    <3> QED BY <2>6, <3>2
  <2>9. Value(i, x)' = Value(i, x)
    BY <2>6, <2>7, <2>8
  <2> QED BY <2>9
<1> QED BY <1>1, <1>2 DEF Inner

LEMMA StepsExtend ==
  ASSUME IInv, [Next]_allvars
  PROVE  Extended
<1>1. headers \in Seq(Var)
  BY DEF IInv, TypeOK, ArenaTypeOK
<1>2. CASE headers' = headers
  BY <1>1, <1>2 DEF Extended
<1>3. CASE \E v \in Var : headers' = Append(headers, v)
  BY <1>1, <1>3 DEF Extended
<1>4. headers' = headers \/ \E v \in Var : headers' = Append(headers, v)
  <2>1. CASE ClientCall
    BY <2>1 DEF ClientCall, CloneHandle, DropHandle, DefVarNew, DeclareVar, DefVarKnown,
                GetChildren, SetGcThreshold, ClearCache, Constant, PublicCreateNode, Invoke,
                InvokeList, ExplicitGc, RpnStart, arena
  <2>2. CASE RpnToken
    BY <2>2 DEF RpnToken, RpnConstant, RpnNewVariable, DeclareVar, RpnKnownVariable,
                RpnOperator, RpnUnderflow, RpnSave, RpnLoad, arena
  <2>3. CASE Progress
    BY <2>3 DEF Progress, Apply, ApplyStep, EnterShortcut, EnterHit, EnterTerminal,
                EnterNegate, EnterSplit, ResumeLow, ResumeHigh, ResumeNegate, FoldNext,
                Finish, MarkStep, SweepStep, Sweep, RpnResult, RpnAbort, RpnEnd, arena
  <2>4. CASE UNCHANGED allvars
    BY <2>4 DEF allvars, arena
  <2> QED BY <2>1, <2>2, <2>3, <2>4 DEF Next
<1> QED BY <1>2, <1>3, <1>4

(* So no step changes the value of a node that stays allocated.            *)
LEMMA StepsKeepValues ==
  ASSUME IInv, [Next]_allvars
  PROVE  IInv' /\ Same
<1>1. IInv'
  BY Inductive
<1>2. /\ ArenaTypeOK /\ ArenaInv
      /\ ArenaTypeOK' /\ ArenaInv'
  BY <1>1 DEF IInv, TypeOK
<1> QED BY <1>1, <1>2, StepsAreStable, StepsExtend, ValuesStay

----------------------------------------------------------------------------
(* Canonicity: nodes of the same function are the same node.               *)

OneLevelEach == \A l, m \in DOMAIN headers : headers[l] = headers[m] => l = m

(* A node does not depend on a variable above it.                          *)
LEMMA ValueIndependent ==
  ASSUME ArenaTypeOK, ArenaInv, OneLevelEach,
         NEW l \in 0 .. Len(headers) - 1, NEW x \in Assignment, NEW b \in BOOLEAN
  PROVE  \A i \in Alloc : Level(i) < l =>
           Value(i, [x EXCEPT ![headers[l + 1]] = b]) = Value(i, x)
<1> DEFINE y == [x EXCEPT ![headers[l + 1]] = b]
           B == {i \in Inner : Level(i) < l /\ Value(i, y) # Value(i, x)}
<1>1. \A t \in Terminals : Value(t, y) = Value(t, x)
  BY ValueUnfolds DEF Unfolds
<1>2. ASSUME B # {} PROVE FALSE
  <2>1. PICK i \in B : /\ Low(i) \in Alloc \ B /\ High(i) \in Alloc \ B
                       /\ Level(i) \in 0 .. Len(headers) - 1
                       /\ Level(Low(i)) < Level(i) /\ Level(High(i)) < Level(i)
    <3>1. B \in SUBSET Inner
      OBVIOUS
    <3> HIDE DEF B
    <3> QED BY <1>2, <3>1, LowestNode
  <2>2. i \in Inner /\ Level(i) < l /\ Value(i, y) # Value(i, x)
    BY <2>1
  <2>3. y[headers[Level(i) + 1]] = x[headers[Level(i) + 1]]
    <3>1. headers \in Seq(Var) /\ Level(i) + 1 \in DOMAIN headers /\ l + 1 \in DOMAIN headers
      BY <2>1 DEF ArenaTypeOK
    <3>2. headers[Level(i) + 1] # headers[l + 1]
      BY <2>1, <2>2, <3>1 DEF OneLevelEach
    <3>3. headers[Level(i) + 1] \in Var
      BY <3>1
    <3> QED BY <3>2, <3>3 DEF Assignment
  <2>4. \A k \in Alloc \ B : k \in Inner /\ Level(k) < l => Value(k, y) = Value(k, x)
    OBVIOUS
  <2>5. Level(Low(i)) < l /\ Level(High(i)) < l
    <3>1. Level(Low(i)) \in Int /\ Level(High(i)) \in Int
      BY <2>1, SlotTypes, SMTT(30) DEF NoLevel
    <3> QED BY <2>1, <2>2, <3>1
  <2>6. Value(Low(i), y) = Value(Low(i), x) /\ Value(High(i), y) = Value(High(i), x)
    <3> HIDE DEF B, y
    <3> QED BY <1>1, <2>1, <2>4, <2>5 DEF Inner
  <2> HIDE DEF B, y
  <2>7. /\ Value(i, x) = IF x[headers[Level(i) + 1]] THEN Value(High(i), x) ELSE Value(Low(i), x)
        /\ Value(i, y) = IF y[headers[Level(i) + 1]] THEN Value(High(i), y) ELSE Value(Low(i), y)
    BY <2>2, ValueUnfolds DEF Unfolds
  <2> QED BY <2>2, <2>3, <2>6, <2>7
<1> QED BY <1>1, <1>2 DEF Inner

(* The cofactors of a node on its own variable are its children.           *)
LEMMA ValueCofactors ==
  ASSUME ArenaTypeOK, ArenaInv, OneLevelEach, NEW i \in Inner, NEW x \in Assignment
  PROVE  /\ Value(i, [x EXCEPT ![headers[Level(i) + 1]] = TRUE]) = Value(High(i), x)
         /\ Value(i, [x EXCEPT ![headers[Level(i) + 1]] = FALSE]) = Value(Low(i), x)
<1>1. /\ Low(i) \in Alloc /\ High(i) \in Alloc /\ Level(i) \in 0 .. Len(headers) - 1
      /\ Level(Low(i)) < Level(i) /\ Level(High(i)) < Level(i)
  BY DEF ArenaInv, Ordered
<1>2. headers[Level(i) + 1] \in Var
  BY <1>1 DEF ArenaTypeOK
<1> DEFINE y(b) == [x EXCEPT ![headers[Level(i) + 1]] = b]
<1>3. \A b \in BOOLEAN : y(b)[headers[Level(i) + 1]] = b
  BY <1>2 DEF Assignment
<1>4. \A b \in BOOLEAN : Value(Low(i), y(b)) = Value(Low(i), x) /\ Value(High(i), y(b)) = Value(High(i), x)
  BY <1>1, ValueIndependent
<1> HIDE DEF y
<1>5. \A b \in BOOLEAN : Value(i, y(b)) =
        IF y(b)[headers[Level(i) + 1]] THEN Value(High(i), y(b)) ELSE Value(Low(i), y(b))
  BY ValueUnfolds DEF Unfolds
<1>6. Value(i, y(TRUE)) = Value(High(i), x) /\ Value(i, y(FALSE)) = Value(Low(i), x)
  BY <1>3, <1>4, <1>5
<1> QED BY <1>6 DEF y

SameFunction(i, j) == \A x \in Assignment : Value(i, x) = Value(j, x)

LEMMA Canonicity ==
  ASSUME ArenaTypeOK, ArenaInv, NodesDefined, OneLevelEach,
         NEW f \in Alloc \ {Undet}, NEW g \in Alloc \ {Undet}, SameFunction(f, g)
  PROVE  f = g
<1> DEFINE Good == Alloc \ {Undet}
           Upto(n) == \A i, j \in Good :
                        Level(i) < n /\ Level(j) < n /\ SameFunction(i, j) => i = j
           Height == Len(headers)
<1>1. /\ Height \in Nat
      /\ \A i \in Inner : /\ i \in Good /\ Low(i) \in Good /\ High(i) \in Good
                          /\ Level(i) \in 0 .. Height - 1
                          /\ Level(Low(i)) < Level(i) /\ Level(High(i)) < Level(i)
      /\ \A i \in Good : /\ Level(i) \in Int /\ Level(i) < Height
                         /\ Level(i) < 0 => i \in {Zero, One}
  <2>1. Height \in Nat
    BY DEF ArenaTypeOK
  <2>2. ASSUME NEW i \in Inner
        PROVE  /\ i \in Good /\ Low(i) \in Good /\ High(i) \in Good
               /\ Level(i) \in 0 .. Height - 1
               /\ Level(Low(i)) < Level(i) /\ Level(High(i)) < Level(i)
    BY DEF ArenaInv, Ordered, NodesDefined, Inner, Terminals
  <2>3. ASSUME NEW i \in Good
        PROVE  /\ Level(i) \in Int /\ Level(i) < Height
               /\ Level(i) < 0 => i \in {Zero, One}
    <3>1. CASE i \in Inner
      BY <2>1, <2>2, <3>1
    <3>2. CASE i \notin Inner
      <4>1. i \in {Zero, One}
        BY <3>2 DEF Inner, Terminals
      <4>2. Level(i) = -1
        BY <4>1, SlotTypes DEF Terminals, NoLevel
      <4> QED BY <2>1, <4>1, <4>2
    <3> QED BY <3>1, <3>2
  <2> QED BY <2>1, <2>2, <2>3
<1>2. Upto(0)
  <2> SUFFICES ASSUME NEW i \in {Zero, One}, NEW j \in {Zero, One}, SameFunction(i, j)
               PROVE  i = j
    BY <1>1
  <2>1. [v \in Var |-> TRUE] \in Assignment
    BY DEF Assignment
  <2>2. PICK x \in Assignment : Value(i, x) = Value(j, x)
    BY <2>1 DEF SameFunction
  <2>3. Value(i, x) = i /\ Value(j, x) = j
    BY ValueUnfolds DEF Unfolds, Terminals
  <2> QED BY <2>2, <2>3
<1>3. ASSUME NEW n \in Nat, Upto(n)
      PROVE  Upto(n + 1)
  \* A node of the new level is none of the lower ones.
  <2>1. ASSUME NEW i \in Inner, NEW j \in Good, Level(i) = n, Level(j) < n, SameFunction(i, j)
        PROVE  FALSE
    <3>1. ASSUME NEW x \in Assignment
          PROVE  Value(High(i), x) = Value(Low(i), x)
      <4> DEFINE y(b) == [x EXCEPT ![headers[Level(i) + 1]] = b]
      <4>1. ASSUME NEW b \in BOOLEAN
            PROVE  y(b) \in Assignment /\ Value(j, y(b)) = Value(j, x)
        <5>1. y(b) \in Assignment
          BY DEF Assignment
        <5>2. Level(i) \in 0 .. Height - 1 /\ j \in Alloc /\ Level(j) < Level(i)
          BY <1>1, <2>1
        <5> QED BY <5>1, <5>2, ValueIndependent
      <4>2. Value(i, y(TRUE)) = Value(High(i), x) /\ Value(i, y(FALSE)) = Value(Low(i), x)
        BY ValueCofactors
      <4> HIDE DEF y
      <4>3. \A b \in BOOLEAN : Value(i, y(b)) = Value(j, x)
        BY <2>1, <4>1 DEF SameFunction
      <4> QED BY <4>2, <4>3
    <3>2. SameFunction(High(i), Low(i))
      BY <3>1 DEF SameFunction
    <3>3. High(i) = Low(i)
      BY <1>1, <1>3, <2>1, <3>2
    <3> QED BY <3>3 DEF ArenaInv, Canonical
  \* Two nodes of the new level have the same children.
  <2>2. ASSUME NEW i \in Inner, NEW j \in Inner, Level(i) = n, Level(j) = n, SameFunction(i, j)
        PROVE  i = j
    <3>1. ASSUME NEW x \in Assignment
          PROVE  Value(High(i), x) = Value(High(j), x) /\ Value(Low(i), x) = Value(Low(j), x)
      <4> DEFINE y(b) == [x EXCEPT ![headers[n + 1]] = b]
      <4>1. \A b \in BOOLEAN : y(b) \in Assignment
        BY <2>2 DEF Assignment
      <4>2. /\ Value(i, y(TRUE)) = Value(High(i), x) /\ Value(i, y(FALSE)) = Value(Low(i), x)
            /\ Value(j, y(TRUE)) = Value(High(j), x) /\ Value(j, y(FALSE)) = Value(Low(j), x)
        BY <2>2, ValueCofactors
      <4> HIDE DEF y
      <4> QED BY <2>2, <4>1, <4>2 DEF SameFunction
    <3>2. SameFunction(High(i), High(j)) /\ SameFunction(Low(i), Low(j))
      BY <3>1 DEF SameFunction
    <3>3. High(i) = High(j) /\ Low(i) = Low(j)
      BY <1>1, <1>3, <2>2, <3>2
    <3>4. nodes[i + 1] = nodes[j + 1]
      BY <2>2, <3>3, SlotTypes DEF Inner, Alloc
    <3> QED BY <3>4 DEF ArenaInv, Canonical
  <2> SUFFICES ASSUME NEW i \in Good, NEW j \in Good,
                      Level(i) < n + 1, Level(j) < n + 1, SameFunction(i, j)
               PROVE  i = j
    OBVIOUS
  <2>3. SameFunction(j, i)
    BY DEF SameFunction
  <2>4. (Level(i) < n \/ Level(i) = n) /\ (Level(j) < n \/ Level(j) = n)
    BY <1>1
  <2>5. \A k \in Good : Level(k) = n => k \in Inner
    BY SlotTypes DEF Inner, Terminals, NoLevel
  <2> QED BY <1>3, <2>1, <2>2, <2>3, <2>4, <2>5
<1>4. \A n \in Nat : Upto(n)
  <2> DEFINE Bad == {n \in Nat : ~ Upto(n)}
  <2> HIDE DEF Upto
  <2> SUFFICES ASSUME Bad # {} PROVE FALSE
    OBVIOUS
  <2>1. PICK m \in Bad : \A k \in Bad : m <= k
    BY LeastNumber
  <2>2. m # 0 /\ m - 1 \in Nat /\ m - 1 \notin Bad
    BY <1>2, <2>1
  <2> QED BY <1>3, <2>1, <2>2
<1> QED BY <1>1, <1>4

----------------------------------------------------------------------------
(* What a set of nodes reaches is the least set that holds them and the    *)
(* terminals and is closed under edges.                                    *)

LEMMA ReachableIsClosure ==
  ASSUME ArenaTypeOK, ArenaInv, NEW rs \in SUBSET Alloc
  PROVE  /\ rs \cup Terminals \subseteq Reachable(rs)
         /\ Reachable(rs) \subseteq Alloc
         /\ Kids(Reachable(rs)) \subseteq Reachable(rs)
         /\ \A S \in SUBSET Alloc :
              rs \cup Terminals \subseteq S /\ Kids(S) \subseteq S => Reachable(rs) \subseteq S
<1> DEFINE Height == Len(headers)
           At(f, n) == IF n = 0 THEN rs \cup Terminals ELSE f[n - 1] \cup Kids(f[n - 1])
           Upto(m) == \E f \in [0 .. Height -> SUBSET Alloc] : \A n \in 0 .. m : f[n] = At(f, n)
<1>1. /\ Height \in Nat /\ Terminals \subseteq Alloc
      /\ \A i \in Alloc : /\ Low(i) \in Alloc /\ High(i) \in Alloc
                          /\ Level(i) \in Int /\ Level(i) < Height
                          /\ i \notin Terminals => Level(i) >= 0
                          /\ Level(Low(i)) < Level(i) \/ Low(i) = i
                          /\ Level(High(i)) < Level(i) \/ High(i) = i
  <2>1. Height \in Nat
    BY DEF ArenaTypeOK
  <2>2. ASSUME NEW i \in Inner
        PROVE  /\ Low(i) \in Alloc /\ High(i) \in Alloc
               /\ Level(i) \in Int /\ Level(i) < Height /\ Level(i) >= 0
               /\ Level(Low(i)) < Level(i) /\ Level(High(i)) < Level(i)
    BY <2>1 DEF ArenaInv, Ordered
  <2>3. ASSUME NEW t \in Terminals
        PROVE  t \in Alloc /\ Low(t) = t /\ High(t) = t /\ Level(t) = -1
    BY SlotTypes DEF NoLevel
  <2> QED BY <2>1, <2>2, <2>3 DEF Inner
<1>2. \A S \in SUBSET Alloc : Kids(S) \in SUBSET Alloc
  BY <1>1 DEF Kids
<1>3. \E f : f = [n \in 0 .. Height |-> At(f, n)]
  <2>1. Upto(0)
    <3> DEFINE f == [n \in 0 .. Height |-> rs \cup Terminals]
    <3>1. f \in [0 .. Height -> SUBSET Alloc] /\ f[0] = rs \cup Terminals
      BY <1>1
    <3> QED BY <3>1
  <2>2. ASSUME NEW m \in Nat, m < Height, Upto(m)
        PROVE  Upto(m + 1)
    <3>1. PICK f \in [0 .. Height -> SUBSET Alloc] : \A n \in 0 .. m : f[n] = At(f, n)
      BY <2>2
    <3> DEFINE g == [f EXCEPT ![m + 1] = f[m] \cup Kids(f[m])]
    <3>2. g \in [0 .. Height -> SUBSET Alloc]
      BY <1>1, <1>2, <2>2
    <3>3. /\ \A n \in 0 .. m : g[n] = f[n]
          /\ g[m + 1] = f[m] \cup Kids(f[m])
      BY <1>1, <2>2
    <3> HIDE DEF g
    <3>4. \A n \in 0 .. m + 1 : g[n] = At(g, n)
      <4> SUFFICES ASSUME NEW n \in 0 .. m + 1
                   PROVE  g[n] = At(g, n)
        OBVIOUS
      <4>1. CASE n = 0
        <5>1. 0 \in 0 .. m
          BY <2>2
        <5>2. f[0] = rs \cup Terminals /\ g[0] = f[0]
          BY <3>1, <3>3, <5>1
        <5> QED BY <4>1, <5>2
      <4>2. CASE n \in 1 .. m
        <5>1. n - 1 \in 0 .. m /\ n \in 0 .. m
          BY <4>2
        <5>2. g[n] = f[n] /\ g[n - 1] = f[n - 1] /\ f[n] = At(f, n)
          BY <3>1, <3>3, <5>1
        <5> QED BY <4>2, <5>2
      <4>3. CASE n = m + 1
        <5>1. m \in 0 .. m /\ n - 1 = m /\ n # 0
          BY <4>3
        <5>2. g[m] = f[m]
          BY <3>3, <5>1
        <5> QED BY <3>3, <4>3, <5>1, <5>2
      <4> QED BY <4>1, <4>2, <4>3
    <3> QED BY <3>2, <3>4
  <2>3. Upto(Height)
    <3> DEFINE Bad == {m \in 0 .. Height : ~ Upto(m)}
    <3> HIDE DEF Upto
    <3> SUFFICES ASSUME Height \in Bad PROVE FALSE
      BY <1>1
    <3>1. Bad \in SUBSET Nat /\ Bad # {}
      OBVIOUS
    <3>2. PICK m \in Bad : \A k \in Bad : m <= k
      <4> HIDE DEF Bad
      <4> QED BY <3>1, LeastNumber
    <3>3. m \in 0 .. Height /\ m # 0
      BY <2>1, <3>2
    <3>4. m - 1 \in Nat /\ m - 1 < Height /\ m - 1 \notin Bad /\ (m - 1) + 1 = m
      BY <1>1, <3>2, <3>3
    <3>5. Upto(m - 1)
      BY <3>3, <3>4
    <3> QED BY <2>2, <3>2, <3>4, <3>5
  <2>4. PICK f \in [0 .. Height -> SUBSET Alloc] : \A n \in 0 .. Height : f[n] = At(f, n)
    BY <2>3
  <2>5. f = [n \in 0 .. Height |-> At(f, n)]
    <3> HIDE DEF At
    <3> QED BY <2>4
  <2> QED BY <2>5
<1>4. PICK f : f = [n \in 0 .. Height |-> At(f, n)] /\ Reachable(rs) = f[Height]
  <2> DEFINE f == CHOOSE g : g = [n \in 0 .. Height |-> At(g, n)]
  <2>1. f = [n \in 0 .. Height |-> At(f, n)]
    <3> HIDE DEF At
    <3> QED BY <1>3
  <2>2. Reachable(rs) = f[Height]
    BY DEF Reachable
  <2> HIDE DEF f, At
  <2> QED BY <2>1, <2>2
<1>5. /\ f[0] = rs \cup Terminals
      /\ \A n \in 0 .. Height - 1 : f[n + 1] = f[n] \cup Kids(f[n])
  <2>1. 0 \in 0 .. Height
    BY <1>1
  <2>2. f[0] = rs \cup Terminals
    BY <1>4, <2>1
  <2>3. ASSUME NEW n \in 0 .. Height - 1
        PROVE  f[n + 1] = f[n] \cup Kids(f[n])
    <3>1. n + 1 \in 0 .. Height /\ n + 1 # 0 /\ (n + 1) - 1 = n
      BY <1>1
    <3>2. f[n + 1] = At(f, n + 1)
      <4> HIDE DEF At
      <4> QED BY <1>4, <3>1
    <3> QED BY <3>1, <3>2
  <2> QED BY <2>2, <2>3
<1>6. \A n \in 0 .. Height : rs \cup Terminals \subseteq f[n] /\ f[n] \subseteq Alloc
  <2> DEFINE Bad == {n \in 0 .. Height : ~ (rs \cup Terminals \subseteq f[n] /\ f[n] \subseteq Alloc)}
  <2> SUFFICES ASSUME Bad # {} PROVE FALSE
    OBVIOUS
  <2>1. PICK m \in Bad : \A k \in Bad : m <= k
    <3>1. Bad \in SUBSET Nat
      OBVIOUS
    <3> HIDE DEF Bad
    <3> QED BY <3>1, LeastNumber
  <2>2. m # 0 /\ m \in 0 .. Height
    BY <1>1, <1>5, <2>1
  <2>3. m - 1 \in 0 .. Height - 1 /\ m - 1 \in 0 .. Height /\ m - 1 \notin Bad /\ (m - 1) + 1 = m
    BY <1>1, <2>1, <2>2
  <2>4. f[m] = f[m - 1] \cup Kids(f[m - 1]) /\ f[m - 1] \in SUBSET Alloc
        /\ rs \cup Terminals \subseteq f[m - 1]
    BY <1>5, <2>3
  <2> QED BY <1>2, <2>1, <2>4
\* Level by level: after n steps every node less than n levels below the
\* top has its children.
<1>7. \A n \in 0 .. Height : \A i \in f[n] :
        Level(i) >= Height - n => Low(i) \in f[n] /\ High(i) \in f[n]
  <2> DEFINE Closed(n) == \A i \in f[n] :
                            Level(i) >= Height - n => Low(i) \in f[n] /\ High(i) \in f[n]
             Bad == {n \in 0 .. Height : ~ Closed(n)}
  <2> SUFFICES ASSUME Bad # {} PROVE FALSE
    OBVIOUS
  <2>1. PICK m \in Bad : \A k \in Bad : m <= k
    <3>1. Bad \in SUBSET Nat
      OBVIOUS
    <3> HIDE DEF Bad
    <3> QED BY <3>1, LeastNumber
  <2>2. m # 0 /\ m \in 0 .. Height
    <3>1. \A i \in f[0] : i \in Alloc /\ Level(i) < Height - 0 /\ Level(i) \in Int
      BY <1>1, <1>6
    <3>2. Closed(0)
      BY <1>1, <3>1
    <3> QED BY <2>1, <3>2
  <2>3. m - 1 \in 0 .. Height - 1 /\ m - 1 \in 0 .. Height /\ (m - 1) + 1 = m
    BY <1>1, <2>2
  <2>4. Closed(m - 1)
    BY <1>1, <2>1, <2>3
  <2>5. f[m] = f[m - 1] \cup Kids(f[m - 1]) /\ f[m - 1] \subseteq Alloc
    BY <1>5, <1>6, <2>3
  <2>6. ASSUME NEW i \in f[m], Level(i) >= Height - m
        PROVE  Low(i) \in f[m] /\ High(i) \in f[m]
    <3>1. CASE i \in f[m - 1]
      BY <2>5, <3>1 DEF Kids
    <3>2. CASE i \notin f[m - 1]
      <4>1. PICK p \in f[m - 1] : i = Low(p) \/ i = High(p)
        BY <2>5, <3>2 DEF Kids
      <4>2. p \in Alloc /\ i \in Alloc /\ Level(i) < Level(p)
        BY <1>1, <2>5, <3>2, <4>1
      <4>3. Level(p) >= Height - (m - 1)
        BY <1>1, <2>2, <2>6, <4>2
      <4> QED BY <2>4, <3>2, <4>1, <4>3
    <3> QED BY <3>1, <3>2
  <2> QED BY <2>1, <2>6
<1>8. Kids(f[Height]) \subseteq f[Height]
  <2> SUFFICES ASSUME NEW i \in f[Height]
               PROVE  Low(i) \in f[Height] /\ High(i) \in f[Height]
    BY DEF Kids
  <2>1. i \in Alloc
    BY <1>1, <1>6
  <2>2. CASE i \in Terminals
    BY <2>2, SlotTypes
  <2>3. CASE i \notin Terminals
    BY <1>1, <1>7, <2>1, <2>3
  <2> QED BY <2>2, <2>3
<1>9. ASSUME NEW S \in SUBSET Alloc, rs \cup Terminals \subseteq S, Kids(S) \subseteq S
      PROVE  \A n \in 0 .. Height : f[n] \subseteq S
  <2> DEFINE Bad == {n \in 0 .. Height : ~ (f[n] \subseteq S)}
  <2> SUFFICES ASSUME Bad # {} PROVE FALSE
    OBVIOUS
  <2>1. PICK m \in Bad : \A k \in Bad : m <= k
    <3>1. Bad \in SUBSET Nat
      OBVIOUS
    <3> HIDE DEF Bad
    <3> QED BY <3>1, LeastNumber
  <2>2. m # 0 /\ m \in 0 .. Height
    BY <1>5, <1>9, <2>1
  <2>3. m - 1 \in 0 .. Height - 1 /\ m - 1 \in 0 .. Height /\ m - 1 \notin Bad /\ (m - 1) + 1 = m
    BY <1>1, <2>1, <2>2
  <2>4. f[m] = f[m - 1] \cup Kids(f[m - 1]) /\ f[m - 1] \subseteq S
    BY <1>5, <2>3
  <2>5. Kids(f[m - 1]) \subseteq Kids(S)
    BY <2>4 DEF Kids
  <2> QED BY <1>9, <2>1, <2>4, <2>5
<1> DEFINE R == f[Height]
<1>10. /\ rs \cup Terminals \subseteq R /\ R \subseteq Alloc /\ Kids(R) \subseteq R
       /\ \A S \in SUBSET Alloc : rs \cup Terminals \subseteq S /\ Kids(S) \subseteq S => R \subseteq S
  <2>1. Height \in 0 .. Height
    BY <1>1
  <2> QED BY <1>6, <1>8, <1>9, <2>1
<1>11. R = Reachable(rs)
  BY <1>4
<1> HIDE DEF R
<1> QED BY <1>10, <1>11

----------------------------------------------------------------------------
(* The operations compute what they stand for.                             *)

Good == Alloc \ {Undet}
GoodTriple == Good \X Good \X Good

(* The arena is in order and its nodes have truth values.                  *)
Sound == ArenaTypeOK /\ ArenaInv /\ NodesDefined

LEMMA GoodValues ==
  ASSUME Sound
  PROVE  /\ \A i \in Good : \A x : Value(i, x) \in {Zero, One}
         /\ Zero \in Good /\ One \in Good
         /\ \A x : Value(Zero, x) = Zero /\ Value(One, x) = One
         /\ Good \subseteq Nat
<1>1. Terminals \subseteq Alloc /\ Alloc \subseteq Nat
  BY SlotTypes DEF Sound
<1>2. Zero # Undet /\ One # Undet /\ Zero \in Terminals /\ One \in Terminals
  BY DEF Zero, One, Undet, Terminals
<1> QED BY <1>1, <1>2, ValueBoolean, ValueUnfolds DEF Sound, Boolean, Unfolds, Good

(* Ordering the operands of a commutative operation changes nothing.       *)
LEMMA OperandsMean ==
  ASSUME Sound, NEW op \in Ops, NEW a \in GoodTriple, NEW x
  PROVE  Applied(op, Operands(op, a), x) = Applied(op, a, x)
<1>1. a = <<a[1], a[2], a[3]>>
  BY DEF GoodTriple
<1>2. CASE op \in Commutative /\ a[1] > a[2]
  <2>1. Operands(op, a) = <<a[2], a[1], a[3]>>
    BY <1>2 DEF Operands
  <2>2. Value(a[1], x) \in {Zero, One} /\ Value(a[2], x) \in {Zero, One}
    BY GoodValues DEF GoodTriple
  <2>3. op = "and" \/ op = "or" \/ op = "xor"
    BY <1>2 DEF Commutative
  <2> QED BY <2>1, <2>2, <2>3 DEF Applied, Scalar, Bit, Zero, One
<1>3. CASE ~ (op \in Commutative /\ a[1] > a[2])
  BY <1>3 DEF Operands
<1> QED BY <1>2, <1>3

LEMMA ShortcutMeans ==
  ASSUME Sound, NEW op \in Ops, NEW a \in GoodTriple, Shortcut(op, a) # NoId
  PROVE  /\ Shortcut(op, a) \in Good
         /\ \A x : Value(Shortcut(op, a), x) = Applied(op, a, x)
<1> DEFINE s == Shortcut(op, a)
<1>1. a[1] \in Good /\ a[2] \in Good /\ a[3] \in Good
  BY DEF GoodTriple
<1>2. a[1] # Undet
  BY <1>1 DEF Good
<1>3. \/ op = "and" /\ a[1] = a[2] /\ s = a[1]
      \/ op = "or" /\ a[1] = a[2] /\ s = a[1]
      \/ op = "xor" /\ a[1] = a[2] /\ s = Zero
      \/ op = "ite" /\ a[1] = One /\ s = a[2]
      \/ op = "ite" /\ a[1] = Zero /\ s = a[3]
      \/ op = "ite" /\ a[2] = a[3] /\ s = a[2]
  BY <1>2 DEF Shortcut, Ops
<1>4. s \in Good
  BY <1>1, <1>3, GoodValues
<1>5. ASSUME NEW x
      PROVE  Value(s, x) = Applied(op, a, x)
  <2> DEFINE u == Value(a[1], x)
             v == Value(a[2], x)
             w == Value(a[3], x)
  <2>1. /\ u \in {Zero, One} /\ v \in {Zero, One} /\ w \in {Zero, One}
        /\ Value(Zero, x) = Zero /\ Value(One, x) = One
    BY <1>1, GoodValues
  <2>2. Applied(op, a, x) = Scalar(op, u, v, w)
    BY DEF Applied
  <2>3. \/ op = "and" /\ u = v /\ Value(s, x) = u
        \/ op = "or" /\ u = v /\ Value(s, x) = u
        \/ op = "xor" /\ u = v /\ Value(s, x) = Zero
        \/ op = "ite" /\ u = One /\ Value(s, x) = v
        \/ op = "ite" /\ u = Zero /\ Value(s, x) = w
        \/ op = "ite" /\ v = w /\ Value(s, x) = v
    BY <1>3, <2>1
  <2> HIDE DEF u, v, w, s
  <2> QED BY <2>1, <2>2, <2>3 DEF Scalar, Bit, Zero, One
<1> QED BY <1>4, <1>5

LEMMA TerminalArmMeans ==
  ASSUME Sound, NEW op \in Ops, NEW a \in GoodTriple, TerminalArm(op, a) # NoId
  PROVE  /\ TerminalArm(op, a) \in Good
         /\ \A x : Value(TerminalArm(op, a), x) = Applied(op, a, x)
<1> DEFINE t == TerminalArm(op, a)
<1>1. a[1] \in Good /\ a[2] \in Good /\ a[3] \in Good
  BY DEF GoodTriple
<1>2. a[1] # Undet /\ a[2] # Undet
  BY <1>1 DEF Good
<1>3. \/ op = "not" /\ a[1] = Zero /\ t = One
      \/ op = "not" /\ a[1] = One /\ t = Zero
      \/ op \in {"and", "or", "xor"}
  <2>1. CASE op = "not"
    <3>1. t = NotArm(a[1])
      BY <2>1 DEF TerminalArm
    <3> QED BY <1>2, <2>1, <3>1 DEF NotArm
  <2>2. op # "ite"
    BY DEF TerminalArm
  <2> QED BY <2>1, <2>2 DEF Ops
<1>4. ASSUME op = "and"
      PROVE  \/ a[1] = One /\ t = a[2]
             \/ a[2] = One /\ t = a[1]
             \/ Zero \in {a[1], a[2]} /\ t = Zero
  <2>1. t = LatticeArm(One, a[1], a[2])
    BY <1>4 DEF TerminalArm
  <2> QED BY <1>2, <2>1 DEF LatticeArm, Zero, One
<1>5. ASSUME op = "or"
      PROVE  \/ a[1] = Zero /\ t = a[2]
             \/ a[2] = Zero /\ t = a[1]
             \/ One \in {a[1], a[2]} /\ t = One
  <2>1. t = LatticeArm(Zero, a[1], a[2])
    BY <1>5 DEF TerminalArm
  <2> QED BY <1>2, <2>1 DEF LatticeArm, Zero, One
<1>6. ASSUME op = "xor"
      PROVE  (a[1] = Zero /\ t = a[2]) \/ (a[2] = Zero /\ t = a[1])
  <2>1. t = XorArm(a[1], a[2])
    BY <1>6 DEF TerminalArm
  <2> QED BY <1>2, <2>1 DEF XorArm
<1>7. t \in Good
  BY <1>1, <1>3, <1>4, <1>5, <1>6, GoodValues
<1>8. ASSUME NEW x
      PROVE  Value(t, x) = Applied(op, a, x)
  <2> DEFINE u == Value(a[1], x)
             v == Value(a[2], x)
             w == Value(a[3], x)
  <2>1. /\ u \in {Zero, One} /\ v \in {Zero, One}
        /\ Value(Zero, x) = Zero /\ Value(One, x) = One
    BY <1>1, GoodValues
  <2>2. Applied(op, a, x) = Scalar(op, u, v, w)
    BY DEF Applied
  <2>3. \/ op = "not" /\ u = Zero /\ Value(t, x) = One
        \/ op = "not" /\ u = One /\ Value(t, x) = Zero
        \/ op = "and" /\ (\/ u = One /\ Value(t, x) = v
                          \/ v = One /\ Value(t, x) = u
                          \/ Zero \in {u, v} /\ Value(t, x) = Zero)
        \/ op = "or" /\ (\/ u = Zero /\ Value(t, x) = v
                         \/ v = Zero /\ Value(t, x) = u
                         \/ One \in {u, v} /\ Value(t, x) = One)
        \/ op = "xor" /\ (\/ u = Zero /\ Value(t, x) = v
                          \/ v = Zero /\ Value(t, x) = u)
    BY <1>3, <1>4, <1>5, <1>6, <2>1
  <2> HIDE DEF u, v, w, t
  <2> QED BY <2>1, <2>2, <2>3 DEF Scalar, Bit, Zero, One
<1> QED BY <1>7, <1>8

(* xor with One is the negation of the other operand.                      *)
LEMMA NegateMeans ==
  ASSUME Sound, NEW c, c.args \in GoodTriple, Negates(c)
  PROVE  /\ <<Negated(c), Zero, Zero>> \in GoodTriple
         /\ \A x : Applied("not", <<Negated(c), Zero, Zero>>, x) = Applied(c.op, c.args, x)
<1>1. /\ c.op = "xor"
      /\ \/ c.args[1] = One /\ Negated(c) = c.args[2]
         \/ c.args[2] = One /\ Negated(c) = c.args[1]
  BY DEF Negates, Negated
<1>2. c.args[1] \in Good /\ c.args[2] \in Good
  BY DEF GoodTriple
<1>3. <<Negated(c), Zero, Zero>> \in GoodTriple
  BY <1>1, <1>2, GoodValues DEF GoodTriple
<1>4. ASSUME NEW x
      PROVE  Applied("not", <<Negated(c), Zero, Zero>>, x) = Applied(c.op, c.args, x)
  <2> DEFINE u == Value(c.args[1], x)
             v == Value(c.args[2], x)
             n == Value(Negated(c), x)
  <2>1. /\ u \in {Zero, One} /\ v \in {Zero, One}
        /\ (u = One /\ n = v) \/ (v = One /\ n = u)
    BY <1>1, <1>2, GoodValues
  <2>2. /\ Applied(c.op, c.args, x) = Scalar("xor", u, v, Value(c.args[3], x))
        /\ Applied("not", <<Negated(c), Zero, Zero>>, x) = Scalar("not", n, Value(Zero, x), Value(Zero, x))
    BY <1>1 DEF Applied
  <2> HIDE DEF u, v, n
  <2> QED BY <2>1, <2>2 DEF Scalar, Bit, Zero, One
<1> QED BY <1>3, <1>4

(* Shannon expansion on the top variable of the operands.                  *)
LEMMA CofactorsMean ==
  ASSUME Sound, NEW op \in Ops, NEW a \in GoodTriple, TopLevel(a) >= 0
  PROVE  /\ Cofactors0(a) \in GoodTriple /\ Cofactors1(a) \in GoodTriple
         /\ TopLevel(a) \in 0 .. Len(headers) - 1
         /\ \A x : Applied(op, a, x) = IF x[headers[TopLevel(a) + 1]]
                                         THEN Applied(op, Cofactors1(a), x)
                                         ELSE Applied(op, Cofactors0(a), x)
<1> DEFINE l == TopLevel(a)
<1>1. a \in Triple
  BY DEF Triple, GoodTriple, Good
<1>2. l \in Int /\ l < Len(headers)
  BY <1>1, TopLevelBounds DEF Sound
<1>3. ASSUME NEW i \in Good
      PROVE  /\ Cofactor0(i, l) \in Good /\ Cofactor1(i, l) \in Good
             /\ \A x : Value(i, x) = IF x[headers[l + 1]] THEN Value(Cofactor1(i, l), x)
                                       ELSE Value(Cofactor0(i, l), x)
  <2>1. CASE Level(i) = l
    <3>1. i \in Inner
      BY <2>1, SlotTypes DEF Sound, NoLevel, Good, Inner
    <3>2. Low(i) \in Good /\ High(i) \in Good
      BY <3>1 DEF Sound, ArenaInv, Ordered, NodesDefined, Good
    <3>3. Cofactor0(i, l) = Low(i) /\ Cofactor1(i, l) = High(i)
      BY <2>1 DEF Cofactor0, Cofactor1
    <3>4. \A x : Value(i, x) = IF x[headers[Level(i) + 1]] THEN Value(High(i), x) ELSE Value(Low(i), x)
      BY <3>1, ValueUnfolds DEF Sound, Unfolds
    <3> HIDE DEF l
    <3> QED BY <2>1, <3>2, <3>3, <3>4
  <2>2. CASE Level(i) # l
    BY <2>2 DEF Cofactor0, Cofactor1
  <2> QED BY <2>1, <2>2
<1>4. /\ Cofactors0(a) = <<Cofactor0(a[1], l), Cofactor0(a[2], l), Cofactor0(a[3], l)>>
      /\ Cofactors1(a) = <<Cofactor1(a[1], l), Cofactor1(a[2], l), Cofactor1(a[3], l)>>
  BY DEF Cofactors0, Cofactors1
<1>5. a[1] \in Good /\ a[2] \in Good /\ a[3] \in Good
  BY DEF GoodTriple
<1> HIDE DEF l
<1>6. Cofactors0(a) \in GoodTriple /\ Cofactors1(a) \in GoodTriple
  BY <1>3, <1>4, <1>5 DEF GoodTriple
<1>7. ASSUME NEW x
      PROVE  Applied(op, a, x) = IF x[headers[l + 1]] THEN Applied(op, Cofactors1(a), x)
                                   ELSE Applied(op, Cofactors0(a), x)
  BY <1>3, <1>4, <1>5 DEF Applied
<1>8. l \in 0 .. Len(headers) - 1
  BY <1>2 DEF l, Sound, ArenaTypeOK
<1> QED BY <1>6, <1>7, <1>8 DEF l

----------------------------------------------------------------------------
(* What a step that leaves the nodes in use alone leaves of the meanings.  *)

LEMMA GoodKept ==
  ASSUME Grows
  PROVE  Good \subseteq Good'
BY DEF Grows, Good

LEMMA AppliedKept ==
  ASSUME Grows, Same, NEW op, NEW a \in GoodTriple, NEW x
  PROVE  Applied(op, a, x)' = Applied(op, a, x)
<1>1. \A i \in Good : Value(i, x)' = Value(i, x)
  BY DEF Grows, Same, Good
<1>2. a[1] \in Good /\ a[2] \in Good /\ a[3] \in Good
  BY DEF GoodTriple
<1> QED BY <1>1, <1>2 DEF Applied

LEMMA GoodKids ==
  ASSUME Sound
  PROVE  \A i \in Good : Low(i) \in Good /\ High(i) \in Good
<1>1. ASSUME NEW i \in Inner
      PROVE  Low(i) \in Good /\ High(i) \in Good
  BY DEF Sound, ArenaInv, Ordered, NodesDefined, Good
<1>2. \A t \in Terminals : Low(t) = t /\ High(t) = t
  BY SlotTypes DEF Sound
<1> QED BY <1>1, <1>2 DEF Good, Inner

LEMMA CofactorsGood ==
  ASSUME Sound, NEW a \in GoodTriple
  PROVE  Cofactors0(a) \in GoodTriple /\ Cofactors1(a) \in GoodTriple
<1>1. a[1] \in Good /\ a[2] \in Good /\ a[3] \in Good
  BY DEF GoodTriple
<1>2. \A i \in Good : \A l : Cofactor0(i, l) \in Good /\ Cofactor1(i, l) \in Good
  BY GoodKids DEF Cofactor0, Cofactor1
<1> QED BY <1>1, <1>2 DEF Cofactors0, Cofactors1, GoodTriple

LEMMA CofactorsKept ==
  ASSUME Sound, Grows, NEW a \in GoodTriple
  PROVE  Cofactors0(a)' = Cofactors0(a) /\ Cofactors1(a)' = Cofactors1(a)
<1>1. a[1] \in Alloc /\ a[2] \in Alloc /\ a[3] \in Alloc /\ a \in Triple
  BY DEF GoodTriple, Good, Triple
<1>2. PICK l : l = TopLevel(a) /\ l = TopLevel(a)'
  BY <1>1, LevelsKept DEF Sound
<1>3. \A i \in Alloc : Level(i)' = Level(i) /\ Low(i)' = Low(i) /\ High(i)' = High(i)
  BY DEF Grows, Level, Low, High
<1>4. \A i \in Alloc : Cofactor0(i, l)' = Cofactor0(i, l) /\ Cofactor1(i, l)' = Cofactor1(i, l)
  BY <1>3 DEF Cofactor0, Cofactor1
<1>5. /\ Cofactors0(a) = <<Cofactor0(a[1], l), Cofactor0(a[2], l), Cofactor0(a[3], l)>>
      /\ Cofactors1(a) = <<Cofactor1(a[1], l), Cofactor1(a[2], l), Cofactor1(a[3], l)>>
  BY <1>2 DEF Cofactors0, Cofactors1
<1>6. /\ Cofactors0(a)' = <<Cofactor0(a[1], l)', Cofactor0(a[2], l)', Cofactor0(a[3], l)'>>
      /\ Cofactors1(a)' = <<Cofactor1(a[1], l)', Cofactor1(a[2], l)', Cofactor1(a[3], l)'>>
  BY <1>2 DEF Cofactors0, Cofactors1
<1> QED BY <1>1, <1>4, <1>5, <1>6

(* A frame whose operands and intermediate result have truth values.       *)
GoodFrame(c) ==
  /\ c.op \in Ops /\ c.args \in GoodTriple
  /\ c.stage = "high" => c.low \in Good

LEMMA FrameMeaningKept ==
  ASSUME Sound, Grows, Same, NEW c, GoodFrame(c), NEW x
  PROVE  /\ Applied(c.op, c.args, x)' = Applied(c.op, c.args, x)
         /\ Awaited(c, x)' = Awaited(c, x)
         /\ Applied(c.op, Cofactors0(c.args), x)' = Applied(c.op, Cofactors0(c.args), x)
<1>1. PICK a \in GoodTriple : a = c.args
  BY DEF GoodFrame
<1>2. PICK a0 \in GoodTriple : a0 = Cofactors0(a) /\ a0 = Cofactors0(a)'
  BY CofactorsGood, CofactorsKept
<1>3. PICK a1 \in GoodTriple : a1 = Cofactors1(a) /\ a1 = Cofactors1(a)'
  BY CofactorsGood, CofactorsKept
<1>4. \A b \in GoodTriple : Applied(c.op, b, x)' = Applied(c.op, b, x)
  BY AppliedKept
<1>5. Applied(c.op, Cofactors0(a), x)' = Applied(c.op, a0, x)'
      /\ Applied(c.op, Cofactors1(a), x)' = Applied(c.op, a1, x)'
  BY <1>2, <1>3 DEF Applied
<1>6. /\ Applied(c.op, a, x)' = Applied(c.op, a, x)
      /\ Applied(c.op, Cofactors0(a), x)' = Applied(c.op, Cofactors0(a), x)
      /\ Applied(c.op, Cofactors1(a), x)' = Applied(c.op, Cofactors1(a), x)
  BY <1>2, <1>3, <1>4, <1>5
<1>7. Awaited(c, x)' = Awaited(c, x)
  BY <1>1, <1>6 DEF Awaited
<1> QED BY <1>1, <1>6, <1>7

----------------------------------------------------------------------------
(* MeaningInv in parts: the nodes, the computed table, the recursion, and  *)
(* what clients and calls hold.                                            *)
CacheDefined == \A k \in DOMAIN cache : Undet \notin {k[2], k[3], k[4], cache[k]}

FramesDefined ==
  /\ ret # Undet
  /\ \A n \in DOMAIN calls :
       Undet \notin {calls[n].args[1], calls[n].args[2], calls[n].args[3], calls[n].low}

HoldingsDefined ==
  /\ \A h \in Handle : handle[h] # Undet
  /\ \A n \in DOMAIN todo : todo[n].arg # Undet
  /\ \A n \in DOMAIN rpn.stack : rpn.stack[n] # Undet
  /\ \A n \in Name : rpn.saved[n] # Undet

ForestMeans == NodesDefined /\ HeadersDistinct
TableMeans == CacheDefined /\ CacheSound
RecursionMeans == FramesDefined /\ CallsMean
HoldingsMean == HoldingsDefined /\ OneFold

LEMMA DefinedParts ==
  Defined <=> NodesDefined /\ CacheDefined /\ FramesDefined /\ HoldingsDefined
<1>1. Undet # NoId
  BY DEF Undet, NoId
<1>2. Undet \notin Held <=> \A h \in Handle : handle[h] # Undet
  BY <1>1 DEF Held
<1>3. Undet \notin OperandIds <=>
        \A n \in DOMAIN calls :
          Undet \notin {calls[n].args[1], calls[n].args[2], calls[n].args[3], calls[n].low}
  BY DEF OperandIds
<1>4. Undet \notin RawIds <=>
        /\ Undet \notin OperandIds
        /\ ret # Undet
        /\ \A n \in DOMAIN todo : todo[n].arg # Undet
        /\ \A n \in DOMAIN rpn.stack : rpn.stack[n] # Undet
        /\ \A n \in Name : rpn.saved[n] # Undet
  BY <1>1 DEF RawIds
<1> QED BY <1>2, <1>3, <1>4 DEF Defined, NodesDefined, CacheDefined, FramesDefined, HoldingsDefined

LEMMA MeaningParts ==
  MeaningInv <=> /\ IInv /\ ForestMeans /\ TableMeans /\ RecursionMeans /\ HoldingsMean
                 /\ MarkedReachable
BY DefinedParts DEF MeaningInv, ForestMeans, TableMeans, RecursionMeans, HoldingsMean

LEMMA MeaningPartsNext ==
  MeaningInv' <=> /\ IInv' /\ ForestMeans' /\ TableMeans' /\ RecursionMeans' /\ HoldingsMean'
                  /\ MarkedReachable'
BY MeaningParts, PTL

LEMMA SoundNow == IInv /\ NodesDefined => Sound
BY DEF IInv, TypeOK, Sound

LEMMA SoundNext == IInv' /\ NodesDefined' => Sound'
BY SoundNow, PTL

(* Every frame of the call stack is a good one.                            *)
LEMMA GoodFrames ==
  ASSUME IInv, FramesDefined
  PROVE  /\ \A n \in 1 .. Len(calls) : GoodFrame(calls[n]) /\ calls[n] \in Frame
         /\ ret # NoId => ret \in Good
<1>1. calls \in Seq(Frame) /\ FrameInv /\ RetInv
  BY DEF IInv, TypeOK, EngineTypeOK, EngineInv
<1>2. ASSUME NEW n \in 1 .. Len(calls)
      PROVE  GoodFrame(calls[n]) /\ calls[n] \in Frame
  <2>1. calls[n] \in Frame /\ n \in DOMAIN calls /\ FrameOK(calls[n])
    BY <1>1 DEF FrameInv
  <2>2. PICK c \in Frame : c = calls[n] /\ FrameOK(c)
    BY <2>1
  <2>3. Undet \notin {c.args[1], c.args[2], c.args[3], c.low}
    BY <2>1, <2>2 DEF FramesDefined
  <2>4. c.op \in Ops /\ c.args = <<c.args[1], c.args[2], c.args[3]>>
    BY DEF Frame
  <2>5. GoodFrame(c)
    BY <2>2, <2>3, <2>4 DEF GoodFrame, FrameOK, GoodTriple, Good
  <2> QED BY <2>2, <2>5
<1>3. ret # NoId => ret \in Good
  BY <1>1 DEF RetInv, FramesDefined, Good
<1> QED BY <1>2, <1>3

----------------------------------------------------------------------------
(* The nodes.                                                              *)

LEMMA NodesRemain ==
  ASSUME ForestMeans, nodes' = nodes, Alloc' \subseteq Alloc, UNCHANGED <<headers, vars>>
  PROVE  ForestMeans'
BY DEF ForestMeans, NodesDefined, HeadersDistinct, Inner, Low, High

(* create_node over nodes that have truth values.                          *)
LEMMA NodeMeans ==
  ASSUME Sound, NEW l \in Nat, NEW lo \in Good, NEW hi \in Good,
         Level(lo) < l, Level(hi) < l,
         headers' \in Seq(Var), Len(headers) <= Len(headers'), l < Len(headers'),
         CreateNode(l, lo, hi), Same, NEW id, id = NodeFor(l, lo, hi)
  PROVE  /\ NodesDefined' /\ id \in Good'
         /\ \A x : Value(id, x)' = IF x[headers'[l + 1]] THEN Value(hi, x) ELSE Value(lo, x)
<1>1. /\ ArenaTypeOK' /\ ArenaInv' /\ Grows
      /\ id \in Alloc' /\ id \in Nat
      /\ lo # hi => nodes'[id + 1] = <<l, lo, hi>>
  BY CreateNodeStep DEF Sound, Good
<1>2. NodesDefined'
  <2> SUFFICES ASSUME NEW i \in Inner'
               PROVE  nodes'[i + 1][2] # Undet /\ nodes'[i + 1][3] # Undet
    BY DEF NodesDefined, Low, High
  <2>1. CASE i \in Alloc
    <3>1. i \in Inner /\ nodes'[i + 1] = nodes[i + 1]
      BY <1>1, <2>1 DEF Inner, Grows
    <3> QED BY <3>1 DEF Sound, NodesDefined, Low, High
  <2>2. CASE i \notin Alloc
    <3>1. IsNew(l, lo, hi)
      BY <2>2 DEF CreateNode, Inner, Alloc, Slots
    <3>2. Inner' = Inner \cup {NewSlot}
      BY <3>1, NewNodeParts DEF Sound, Good
    <3>3. i = id
      BY <2>2, <3>1, <3>2 DEF NodeFor, IsNew, Inner
    <3>4. nodes'[i + 1] = <<l, lo, hi>>
      BY <1>1, <3>1, <3>3 DEF IsNew
    <3> QED BY <3>4 DEF Good
  <2> QED BY <2>1, <2>2
<1>3. id \in Good'
  <2>1. CASE lo = hi
    BY <1>1, <2>1 DEF NodeFor, Good, Grows
  <2>2. CASE lo # hi
    <3>1. nodes'[id + 1] = <<l, lo, hi>>
      BY <1>1, <2>2
    <3>2. nodes'[Undet + 1] = <<NoLevel, Undet, Undet>>
      BY <1>1 DEF ArenaTypeOK, TerminalsInPlace, Terminals
    <3>3. id # Undet
      BY <3>1, <3>2 DEF NoLevel
    <3> QED BY <1>1, <3>3 DEF Good
  <2> QED BY <2>1, <2>2
<1>4. ASSUME NEW x
      PROVE  Value(id, x)' = IF x[headers'[l + 1]] THEN Value(hi, x) ELSE Value(lo, x)
  <2>1. Value(hi, x)' = Value(hi, x) /\ Value(lo, x)' = Value(lo, x)
    BY <1>1 DEF Same, Good, Grows
  <2>2. Value(id, x)' = IF x[headers'[l + 1]] THEN Value(hi, x)' ELSE Value(lo, x)'
    <3>1. CASE lo = hi
      BY <3>1 DEF NodeFor
    <3>2. CASE lo # hi
      <4>1. nodes'[id + 1] = <<l, lo, hi>>
        BY <1>1, <3>2
      <4>2. id \in Inner'
        <5>1. \A t \in Terminals : nodes'[t + 1] = <<NoLevel, t, t>>
          BY <1>1 DEF ArenaTypeOK, TerminalsInPlace
        <5> QED BY <1>1, <4>1, <5>1 DEF Inner, NoLevel
      <4>3. Level(id)' = l /\ Low(id)' = lo /\ High(id)' = hi
        BY <4>1 DEF Level, Low, High
      <4>4. Unfolds'
        BY <1>1, ValueUnfoldsNext
      <4>5. Value(id, x)' = IF x[headers[Level(id) + 1]]' THEN Value(High(id), x)' ELSE Value(Low(id), x)'
        BY <4>2, <4>4 DEF Unfolds
      <4>6. Value(High(id), x)' = Value(hi, x)' /\ Value(Low(id), x)' = Value(lo, x)'
        BY <4>3 DEF Value
      <4> QED BY <4>3, <4>5, <4>6
    <3> QED BY <3>1, <3>2
  <2> QED BY <2>1, <2>2
<1> QED BY <1>2, <1>3, <1>4

----------------------------------------------------------------------------
(* The computed table.                                                     *)

(* Entries that stay are still true: their nodes are allocated before and  *)
(* after.                                                                  *)
LEMMA EntriesRemain ==
  ASSUME IInv, TableMeans, IInv', Same,
         NEW k \in DOMAIN cache, k \in DOMAIN cache', cache'[k] = cache[k]
  PROVE  /\ Undet \notin {k[2], k[3], k[4], cache'[k]}
         /\ \A x \in Assignment : Value(cache[k], x)' = Applied(k[1], <<k[2], k[3], k[4]>>, x)'
<1>1. /\ {k[2], k[3], k[4], cache[k]} \subseteq Alloc
      /\ {k[2], k[3], k[4], cache'[k]} \subseteq Alloc'
  BY DEF IInv, EngineInv, CacheInv
<1>2. Undet \notin {k[2], k[3], k[4], cache'[k]}
  BY DEF TableMeans, CacheDefined
<1>3. ASSUME NEW x \in Assignment
      PROVE  Value(cache[k], x)' = Applied(k[1], <<k[2], k[3], k[4]>>, x)'
  <2>1. PICK i : i = cache[k] /\ i = cache'[k]
    OBVIOUS
  <2>2. Value(i, x) = Applied(k[1], <<k[2], k[3], k[4]>>, x)
    BY <2>1 DEF TableMeans, CacheSound, Denotes
  <2>3. Value(i, x)' = Value(i, x) /\ Value(k[2], x)' = Value(k[2], x)
        /\ Value(k[3], x)' = Value(k[3], x) /\ Value(k[4], x)' = Value(k[4], x)
    BY <1>1, <2>1 DEF Same
  <2>4. Applied(k[1], <<k[2], k[3], k[4]>>, x)' = Applied(k[1], <<k[2], k[3], k[4]>>, x)
    BY <2>3 DEF Applied
  <2>5. Value(cache[k], x)' = Value(i, x)'
    BY <2>1 DEF Value
  <2> QED BY <2>2, <2>3, <2>4, <2>5
<1> QED BY <1>2, <1>3

LEMMA TableShrinks ==
  ASSUME IInv, TableMeans, IInv', Same,
         DOMAIN cache' \subseteq DOMAIN cache, \A k \in DOMAIN cache' : cache'[k] = cache[k]
  PROVE  TableMeans'
<1>1. CacheDefined'
  BY EntriesRemain DEF CacheDefined
<1>2. CacheSound'
  BY EntriesRemain DEF CacheSound, Denotes
<1> QED BY <1>1, <1>2 DEF TableMeans

LEMMA TablePut ==
  ASSUME IInv, TableMeans, IInv', Grows, Same,
         NEW c \in Frame, GoodFrame(c), NEW id, id \in Good', CachePut(Key(c), id),
         \A x \in Assignment : Value(id, x)' = Applied(c.op, c.args, x)
  PROVE  TableMeans'
<1>1. PICK key : /\ key = Key(c)
                 /\ key[1] = c.op /\ key[2] = c.args[1] /\ key[3] = c.args[2] /\ key[4] = c.args[3]
  BY DEF Key
<1>2. /\ DOMAIN cache' = DOMAIN cache \cup {key} /\ cache'[key] = id
      /\ \A k \in DOMAIN cache' : k # key => k \in DOMAIN cache /\ cache'[k] = cache[k]
  BY <1>1 DEF CachePut
<1>3. PICK a \in GoodTriple : a = c.args /\ a = <<key[2], key[3], key[4]>>
  BY <1>1 DEF GoodFrame, GoodTriple
<1>4. Undet \notin {key[2], key[3], key[4], cache'[key]}
  BY <1>2, <1>3 DEF GoodTriple, Good
<1>5. ASSUME NEW x \in Assignment
      PROVE  Value(id, x)' = Applied(key[1], <<key[2], key[3], key[4]>>, x)'
  <2>1. Applied(key[1], a, x)' = Applied(key[1], a, x)
    BY AppliedKept
  <2>2. Value(id, x)' = Applied(key[1], a, x)
    BY <1>1, <1>3
  <2> QED BY <1>3, <2>1, <2>2
<1>6. CacheDefined'
  <2> SUFFICES ASSUME NEW k \in DOMAIN cache'
               PROVE  Undet \notin {k[2], k[3], k[4], cache'[k]}
    BY DEF CacheDefined
  <2>1. CASE k = key
    BY <1>4, <2>1
  <2>2. CASE k # key
    BY <1>2, <2>2, EntriesRemain
  <2> QED BY <2>1, <2>2
<1>7. CacheSound'
  <2> SUFFICES ASSUME NEW k \in DOMAIN cache', NEW x \in Assignment
               PROVE  Value(cache[k], x)' = Applied(k[1], <<k[2], k[3], k[4]>>, x)'
    BY DEF CacheSound, Denotes
  <2>1. CASE k = key
    <3>1. Value(cache[k], x)' = Value(id, x)'
      BY <1>2, <2>1 DEF Value
    <3> QED BY <1>5, <2>1, <3>1
  <2>2. CASE k # key
    BY <1>2, <2>2, EntriesRemain
  <2> QED BY <2>1, <2>2
<1> QED BY <1>6, <1>7 DEF TableMeans

----------------------------------------------------------------------------
(* The recursion.                                                          *)

(* No frame, or a call that is just being entered.                         *)
LEMMA RecursionStarts ==
  ASSUME calls' = <<>> \/ \E c : calls' = <<c>> /\ GoodFrame(c) /\ c.stage = "enter" /\ c.low = NoId,
         calls' # <<>> => ret' = NoId, ret' # Undet
  PROVE  RecursionMeans'
<1>1. CASE calls' = <<>>
  BY <1>1 DEF RecursionMeans, FramesDefined, CallsMean
<1>2. ASSUME NEW c, calls' = <<c>>, GoodFrame(c), c.stage = "enter", c.low = NoId
      PROVE  RecursionMeans'
  <2>1. DOMAIN calls' = {1} /\ calls'[1] = c /\ calls' # <<>> /\ Len(calls') = 1
    BY <1>2
  <2>2. 1 .. Len(calls') - 1 = {}
    BY <2>1
  <2>3. FramesDefined'
    <3>1. Undet \notin {c.args[1], c.args[2], c.args[3], c.low}
      BY <1>2 DEF GoodFrame, GoodTriple, Good, NoId, Undet
    <3> QED BY <2>1, <3>1 DEF FramesDefined
  <2>4. CallsMean'
    BY <1>2, <2>1, <2>2 DEF CallsMean
  <2> QED BY <2>3, <2>4 DEF RecursionMeans
<1> QED BY <1>1, <1>2

(* What the client asked for stays what the outermost frame asks for, and  *)
(* in the end is what was returned.                                        *)
OuterKept ==
  IF calls' = <<>>
    THEN ret' # NoId /\ \A x \in Assignment : Value(ret, x)' = Applied(calls[1].op, calls[1].args, x)
    ELSE calls'[1].op = calls[1].op /\ calls'[1].args = calls[1].args

(* What a frame asks for, before and after.                                *)
LEMMA FrameStays ==
  ASSUME IInv, NodesDefined, RecursionMeans, Grows, Same,
         NEW n \in 1 .. Len(calls), calls'[n] = calls[n]
  PROVE  /\ calls[n].stage = "high" => Denotes(calls[n].low, calls[n].op, Cofactors0(calls[n].args))'
         /\ \A x : /\ Awaited(calls[n], x)' = Awaited(calls[n], x)
                   /\ Applied(calls[n].op, calls[n].args, x)' = Applied(calls[n].op, calls[n].args, x)
<1>1. PICK c : c = calls[n] /\ c = calls'[n]
  OBVIOUS
<1>2. Sound /\ GoodFrame(c)
  BY <1>1, SoundNow, GoodFrames DEF RecursionMeans
<1>3. ASSUME NEW x
      PROVE  /\ Applied(c.op, c.args, x)' = Applied(c.op, c.args, x)
             /\ Awaited(c, x)' = Awaited(c, x)
             /\ Applied(c.op, Cofactors0(c.args), x)' = Applied(c.op, Cofactors0(c.args), x)
  BY <1>2, FrameMeaningKept
<1>4. ASSUME c.stage = "high", NEW x \in Assignment
      PROVE  Value(c.low, x)' = Applied(c.op, Cofactors0(c.args), x)'
  <2>1. Value(c.low, x) = Applied(c.op, Cofactors0(c.args), x)
    <3>1. n \in DOMAIN calls
      BY DEF IInv, TypeOK, EngineTypeOK
    <3> QED BY <1>1, <1>4, <3>1 DEF RecursionMeans, CallsMean, Denotes
  <2>2. Value(c.low, x)' = Value(c.low, x)
    BY <1>2, <1>4 DEF GoodFrame, Good, Grows, Same
  <2> QED BY <1>3, <2>1, <2>2
<1>5. c.stage = "high" => Denotes(c.low, c.op, Cofactors0(c.args))'
  BY <1>4 DEF Denotes
<1> QED BY <1>1, <1>3, <1>5

LEMMA ReturnMeans ==
  ASSUME IInv, NodesDefined, RecursionMeans, Grows, Same, calls # <<>>,
         NEW id \in Nat, id \in Good', Return(id),
         \A x \in Assignment : Value(id, x)' = Applied(Top.op, Top.args, x)
  PROVE  RecursionMeans' /\ OuterKept
<1>m. PICK m \in Nat : m = Len(calls) - 1
  BY BelowFrames DEF IInv, TypeOK
<1>1. /\ calls' \in Seq(Frame) /\ Len(calls') = m /\ DOMAIN calls' = 1 .. m /\ ret' = id
      /\ DOMAIN calls = 1 .. m + 1 /\ Len(calls) = m + 1 /\ Top = calls[m + 1]
      /\ \A n \in 1 .. m : calls'[n] = calls[n]
  BY <1>m, BelowFrames DEF Return, IInv, TypeOK, EngineTypeOK
<1>2. ASSUME NEW x
      PROVE  Value(ret, x)' = Value(id, x)'
  BY <1>1 DEF Value
<1>3. FramesDefined'
  <2>1. ret' # Undet
    BY <1>1 DEF Good
  <2>2. \A n \in 1 .. m : n \in DOMAIN calls
    BY <1>1
  <2> QED BY <1>1, <2>1, <2>2 DEF RecursionMeans, FramesDefined
<1>4. \A n \in 1 .. m : n \in 1 .. Len(calls)
  BY <1>1
<1>5. ASSUME NEW n \in 1 .. m, calls'[n].stage = "high"
      PROVE  Denotes(calls[n].low, calls[n].op, Cofactors0(calls[n].args))'
  BY <1>1, <1>4, <1>5, FrameStays
<1>6. ASSUME NEW n \in 1 .. m, NEW x \in Assignment
      PROVE  /\ n + 1 \in 1 .. m => Applied(calls[n + 1].op, calls[n + 1].args, x)' = Awaited(calls[n], x)'
             /\ n = m => Applied(Top.op, Top.args, x) = Awaited(calls[n], x)'
  <2>1. n \in 1 .. Len(calls) - 1
    BY <1>1
  <2>2. Applied(calls[n + 1].op, calls[n + 1].args, x) = Awaited(calls[n], x)
    BY <2>1 DEF RecursionMeans, CallsMean
  <2>3. Awaited(calls[n], x)' = Awaited(calls[n], x)
    BY <1>1, <1>4, FrameStays
  <2>4. n + 1 \in 1 .. m =>
          Applied(calls[n + 1].op, calls[n + 1].args, x)' = Applied(calls[n + 1].op, calls[n + 1].args, x)
    BY <1>1, <1>4, FrameStays
  <2> QED BY <1>1, <2>2, <2>3, <2>4
<1>7. CallsMean'
  <2>1. ASSUME calls' # <<>>, NEW x \in Assignment
        PROVE  Value(ret, x)' = Awaited(Top, x)'
    <3>1. m \in 1 .. m
      BY <1>1, <2>1
    <3>2. PICK c : c = Top' /\ c = calls'[m]
      BY <1>1 DEF Top
    <3>3. Awaited(Top, x)' = Awaited(c, x)' /\ Awaited(calls[m], x)' = Awaited(c, x)'
      BY <3>2
    <3>4. Applied(Top.op, Top.args, x) = Awaited(calls[m], x)'
      BY <1>6, <3>1
    <3> QED BY <1>2, <3>3, <3>4
  <2>2. \A n \in 1 .. Len(calls') - 1 : n \in 1 .. m /\ n + 1 \in 1 .. m
    BY <1>1
  <2> QED BY <1>1, <1>5, <1>6, <2>1, <2>2 DEF CallsMean
<1>8. OuterKept
  <2>1. CASE m = 0
    <3>1. calls' = <<>> /\ Top = calls[1] /\ ret' # NoId
      BY <1>1, <2>1 DEF NoId
    <3> QED BY <1>2, <3>1 DEF OuterKept
  <2>2. CASE m # 0
    <3>1. calls' # <<>> /\ calls'[1] = calls[1]
      BY <1>1, <2>2
    <3> QED BY <3>1 DEF OuterKept
  <2> QED BY <2>1, <2>2
<1> QED BY <1>3, <1>7, <1>8 DEF RecursionMeans

LEMMA RecurseMeans ==
  ASSUME IInv, NodesDefined, RecursionMeans, Grows, Same, calls # <<>>,
         NEW c, GoodFrame(c), c.low # Undet, c.op = Top.op, c.args = Top.args,
         NEW d, GoodFrame(d), d.low # Undet, d.stage = "enter",
         Recurse(c, d),
         c.stage = "high" => Denotes(c.low, c.op, Cofactors0(c.args)),
         \A x \in Assignment : Applied(d.op, d.args, x) = Awaited(c, x)
  PROVE  RecursionMeans' /\ OuterKept
<1>m. PICK m \in Nat : m = Len(calls) /\ m >= 1
  BY BelowFrames DEF IInv, TypeOK
<1>1. /\ DOMAIN calls = 1 .. m /\ calls[m] = Top
      /\ Len(calls') = m + 1 /\ DOMAIN calls' = 1 .. m + 1
      /\ \A n \in 1 .. m - 1 : calls'[n] = calls[n]
      /\ calls'[m] = c /\ calls'[m + 1] = d /\ ret' = NoId /\ calls' # <<>>
  <2>1. /\ calls[m] = Top
        /\ Len(Below) = m - 1 /\ DOMAIN Below = 1 .. m - 1 /\ DOMAIN calls = 1 .. m
        /\ \A n \in 1 .. m - 1 : Below[n] = calls[n]
        /\ Below \in Seq(Frame)
    BY <1>m, BelowFrames DEF IInv, TypeOK, EngineTypeOK
  <2>2. Below \in Seq({Below[n] : n \in 1 .. m - 1} \cup {c, d})
    BY <2>1
  <2> QED BY <2>1, <2>2 DEF Recurse
<1>2. Sound
  BY SoundNow
<1>3. ASSUME NEW x
      PROVE  /\ Awaited(c, x)' = Awaited(c, x)
             /\ Applied(c.op, c.args, x)' = Applied(c.op, c.args, x)
             /\ Applied(d.op, d.args, x)' = Applied(d.op, d.args, x)
             /\ Applied(c.op, Cofactors0(c.args), x)' = Applied(c.op, Cofactors0(c.args), x)
  BY <1>2, FrameMeaningKept
<1>4. FramesDefined'
  <2>1. /\ Undet \notin {c.args[1], c.args[2], c.args[3], c.low}
        /\ Undet \notin {d.args[1], d.args[2], d.args[3], d.low}
    BY DEF GoodFrame, GoodTriple, Good
  <2>2. ASSUME NEW n \in 1 .. m + 1
        PROVE  Undet \notin {calls'[n].args[1], calls'[n].args[2], calls'[n].args[3], calls'[n].low}
    <3>1. n \in 1 .. m - 1 \/ n = m \/ n = m + 1
      OBVIOUS
    <3>2. CASE n \in 1 .. m - 1
      <4>1. n \in DOMAIN calls /\ calls'[n] = calls[n]
        BY <1>1, <3>2
      <4> QED BY <4>1 DEF RecursionMeans, FramesDefined
    <3> QED BY <1>1, <2>1, <3>1, <3>2
  <2> QED BY <1>1, <2>2 DEF FramesDefined, NoId, Undet
<1>5. ASSUME NEW n \in 1 .. m + 1, calls'[n].stage = "high"
      PROVE  Denotes(calls[n].low, calls[n].op, Cofactors0(calls[n].args))'
  <2>1. n \in 1 .. m - 1 \/ n = m \/ n = m + 1
    OBVIOUS
  <2>2. CASE n \in 1 .. m - 1
    <3>1. n \in 1 .. Len(calls) /\ calls'[n] = calls[n]
      BY <1>m, <1>1, <2>2
    <3> QED BY <1>5, <3>1, FrameStays
  <2>3. CASE n = m
    <3>1. c.stage = "high" /\ c.low \in Alloc /\ c.low \in Alloc'
      BY <1>1, <1>5, <2>3 DEF GoodFrame, Good, Grows
    <3>2. ASSUME NEW x \in Assignment
          PROVE  Value(c.low, x)' = Applied(c.op, Cofactors0(c.args), x)'
      BY <1>3, <3>1 DEF Denotes, Same
    <3>3. Denotes(c.low, c.op, Cofactors0(c.args))'
      BY <3>2 DEF Denotes
    <3>4. PICK e : e = c /\ e = calls'[n]
      BY <1>1, <2>3
    <3> QED BY <3>3, <3>4
  <2>4. CASE n = m + 1
    BY <1>1, <1>5, <2>4
  <2> QED BY <2>1, <2>2, <2>3, <2>4
<1>6. ASSUME NEW n \in 1 .. m, NEW x \in Assignment
      PROVE  Applied(calls[n + 1].op, calls[n + 1].args, x)' = Awaited(calls[n], x)'
  <2>1. (n \in 1 .. m - 1 /\ n + 1 \in 1 .. m - 1) \/ (n \in 1 .. m - 1 /\ n + 1 = m) \/ n = m
    OBVIOUS
  <2>2. ASSUME n \in 1 .. m - 1
        PROVE  /\ Awaited(calls[n], x)' = Awaited(calls[n], x)
               /\ Applied(calls[n + 1].op, calls[n + 1].args, x) = Awaited(calls[n], x)
    <3>1. n \in 1 .. Len(calls) /\ n \in 1 .. Len(calls) - 1 /\ calls'[n] = calls[n]
      BY <1>m, <1>1, <2>2
    <3>2. Awaited(calls[n], x)' = Awaited(calls[n], x)
      BY <3>1, FrameStays
    <3> QED BY <3>1, <3>2 DEF RecursionMeans, CallsMean
  <2>3. CASE n \in 1 .. m - 1 /\ n + 1 \in 1 .. m - 1
    <3>1. n + 1 \in 1 .. Len(calls) /\ calls'[n + 1] = calls[n + 1]
      BY <1>m, <1>1, <2>3
    <3>2. Applied(calls[n + 1].op, calls[n + 1].args, x)' = Applied(calls[n + 1].op, calls[n + 1].args, x)
      BY <3>1, FrameStays
    <3> QED BY <2>2, <2>3, <3>2
  <2>4. CASE n \in 1 .. m - 1 /\ n + 1 = m
    <3>1. PICK e : e = c /\ e = calls'[n + 1]
      BY <1>1, <2>4
    <3>2. Applied(calls[n + 1].op, calls[n + 1].args, x)' = Applied(e.op, e.args, x)'
      BY <3>1 DEF Applied
    <3>3. calls[n + 1].op = e.op /\ calls[n + 1].args = e.args
      BY <1>1, <2>4, <3>1
    <3> QED BY <1>3, <2>2, <2>4, <3>1, <3>2, <3>3
  <2>5. CASE n = m
    <3>1. PICK e : e = d /\ e = calls'[n + 1]
      BY <1>1, <2>5
    <3>2. PICK b : b = c /\ b = calls'[n]
      BY <1>1, <2>5
    <3>3. Applied(calls[n + 1].op, calls[n + 1].args, x)' = Applied(e.op, e.args, x)'
      BY <3>1 DEF Applied
    <3>4. Awaited(calls[n], x)' = Awaited(b, x)'
      BY <3>2 DEF Awaited
    <3> QED BY <1>3, <3>1, <3>2, <3>3, <3>4
  <2> QED BY <2>1, <2>3, <2>4, <2>5
<1>7. CallsMean'
  <2>1. \A n \in 1 .. Len(calls') - 1 : n \in 1 .. m
    BY <1>1
  <2> QED BY <1>1, <1>5, <1>6, <2>1 DEF CallsMean
<1>8. OuterKept
  <2>1. calls'[1].op = calls[1].op /\ calls'[1].args = calls[1].args
    <3>1. CASE m = 1
      BY <1>1, <3>1
    <3>2. CASE m # 1
      <4>1. 1 \in 1 .. m - 1
        BY <1>1, <3>2
      <4> QED BY <1>1, <4>1
    <3> QED BY <3>1, <3>2
  <2> QED BY <1>1, <2>1 DEF OuterKept
<1> QED BY <1>4, <1>7, <1>8 DEF RecursionMeans

(* A new call asks for the operation on its operands.                      *)
LEMMA CallMeans ==
  ASSUME Sound, NEW op \in Ops, NEW a \in GoodTriple, NEW d, d = Call(op, a)
  PROVE  /\ GoodFrame(d) /\ d.stage = "enter" /\ d.low = NoId /\ d.low # Undet
         /\ \A x : Applied(d.op, d.args, x) = Applied(op, a, x)
<1>1. d.op = op /\ d.args = Operands(op, a) /\ d.stage = "enter" /\ d.low = NoId
  BY DEF Call
<1>2. Operands(op, a) \in GoodTriple
  BY DEF Operands, GoodTriple
<1>3. \A x : Applied(op, Operands(op, a), x) = Applied(op, a, x)
  BY OperandsMean
<1> QED BY <1>1, <1>2, <1>3 DEF GoodFrame, NoId, Undet

(* One step of a recursion computes what the recursion stands for.         *)
LEMMA ApplyMeans ==
  ASSUME IInv, ForestMeans, TableMeans, RecursionMeans, IInv', Same, Apply
  PROVE  ForestMeans' /\ TableMeans' /\ RecursionMeans' /\ OuterKept
<1>i. /\ ArenaTypeOK /\ ArenaInv /\ EngineTypeOK /\ EngineInv
      /\ CacheInv /\ FrameInv /\ RetInv /\ calls \in Seq(Frame) /\ ArenaTypeOK'
  BY DEF IInv, TypeOK, EngineInv, EngineTypeOK
<1>0. calls # <<>> /\ ApplyStep /\ vars' = vars
  BY DEF Apply, mgr, ApplyStep, EnterShortcut, EnterHit, EnterTerminal, EnterNegate, EnterSplit,
         ResumeLow, ResumeHigh, ResumeNegate, NeedsLookup, Entering, Resuming
<1>g. Grows /\ headers' = headers
  BY <1>0, <1>i, ApplyStepInv
<1>s. NodesDefined /\ Sound
  BY SoundNow DEF ForestMeans
<1>t. PICK c \in Frame : c = Top /\ GoodFrame(c) /\ FrameOK(c) /\ c.low # Undet
  <2>1. Top \in Frame /\ FrameOK(Top) /\ Top = calls[Len(calls)] /\ Len(calls) \in 1 .. Len(calls)
    BY <1>0, <1>i, TopFrame, BelowFrames
  <2>2. GoodFrame(Top) /\ Len(calls) \in DOMAIN calls
    BY <1>i, <2>1, GoodFrames DEF RecursionMeans
  <2> QED BY <2>1, <2>2 DEF RecursionMeans, FramesDefined
<1>a. PICK a \in GoodTriple : a = c.args /\ a = Top.args /\ c.op \in Ops /\ a \in Triple
  BY <1>t DEF GoodFrame, Frame, GoodTriple, Good, Triple
<1>w. ret # NoId => ret \in Good /\ \A x \in Assignment : Value(ret, x) = Awaited(c, x)
  BY <1>0, <1>t, GoodFrames DEF RecursionMeans, CallsMean
\* What the step returns without building a node.
<1>r. ASSUME NEW id \in Good, Return(id), UNCHANGED arena,
             cache' = cache \/ CachePut(Key(Top), id),
             \A x \in Assignment : Value(id, x) = Applied(c.op, a, x)
      PROVE  ForestMeans' /\ TableMeans' /\ RecursionMeans' /\ OuterKept
  <2>1. ForestMeans'
    BY <1>0, <1>r, NodesRemain DEF arena, Alloc, Slots
  <2>2. id \in Nat /\ id \in Good' /\ \A x : Value(id, x)' = Value(id, x)
    BY <1>g, <1>s, GoodValues, GoodKept DEF Same, Grows, Good
  <2>3. RecursionMeans' /\ OuterKept
    BY <1>0, <1>g, <1>s, <1>t, <1>a, <1>r, <2>2, ReturnMeans
  <2>4. \A x \in Assignment : Value(id, x)' = Applied(c.op, c.args, x)
    BY <1>a, <1>r, <2>2
  <2>5. TableMeans'
    <3>1. CASE cache' = cache
      BY <3>1, TableShrinks
    <3>2. CASE CachePut(Key(Top), id)
      BY <1>g, <1>t, <2>2, <2>4, <3>2, TablePut
    <3> QED BY <1>r, <3>1, <3>2
  <2> QED BY <2>1, <2>3, <2>5
\* What it calls.
<1>c. ASSUME NEW e, GoodFrame(e), e.low # Undet, e.op = c.op, e.args = c.args,
             NEW op \in Ops, NEW b \in GoodTriple, Recurse(e, Call(op, b)),
             UNCHANGED <<arena, cache>>,
             e.stage = "high" => Denotes(e.low, e.op, Cofactors0(e.args)),
             \A x \in Assignment : Applied(op, b, x) = Awaited(e, x)
      PROVE  ForestMeans' /\ TableMeans' /\ RecursionMeans' /\ OuterKept
  <2>1. ForestMeans'
    BY <1>0, <1>c, NodesRemain DEF arena, Alloc, Slots
  <2>2. TableMeans'
    BY <1>c, TableShrinks
  <2>3. PICK d : d = Call(op, b)
    OBVIOUS
  <2>4. /\ GoodFrame(d) /\ d.stage = "enter" /\ d.low # Undet
        /\ \A x : Applied(d.op, d.args, x) = Applied(op, b, x)
    BY <1>s, <2>3, CallMeans
  <2>5. Recurse(e, d) /\ \A x \in Assignment : Applied(d.op, d.args, x) = Awaited(e, x)
    BY <1>c, <2>3, <2>4
  <2>6. RecursionMeans' /\ OuterKept
    BY <1>0, <1>g, <1>s, <1>t, <1>c, <2>4, <2>5, RecurseMeans
  <2> QED BY <2>1, <2>2, <2>6
<1>1. CASE EnterShortcut
  <2>1. PICK id : id = Shortcut(c.op, a) /\ id # NoId /\ Return(id) /\ UNCHANGED <<arena, cache>>
    BY <1>1, <1>t, <1>a DEF EnterShortcut
  <2>2. id \in Good /\ \A x : Value(id, x) = Applied(c.op, a, x)
    BY <1>s, <1>a, <2>1, ShortcutMeans
  <2> QED BY <1>r, <2>1, <2>2
<1>2. CASE EnterHit
  <2> DEFINE key == <<c.op, a[1], a[2], a[3]>>
  <2>1. /\ key = Key(Top)
        /\ key[1] = c.op /\ key[2] = a[1] /\ key[3] = a[2] /\ key[4] = a[3]
    BY <1>t, <1>a DEF Key
  <2> HIDE DEF key
  <2>2. PICK id : id = cache[key] /\ Return(id) /\ UNCHANGED <<arena, cache>> /\ key \in DOMAIN cache
    BY <1>2, <2>1 DEF EnterHit
  <2>3. <<key[2], key[3], key[4]>> = a
    BY <2>1 DEF GoodTriple
  <2>4. id \in Good
    BY <1>i, <2>2 DEF TableMeans, CacheDefined, CacheInv, Good
  <2>5. \A x \in Assignment : Value(id, x) = Applied(c.op, a, x)
    BY <2>1, <2>2, <2>3 DEF TableMeans, CacheSound, Denotes
  <2> QED BY <1>r, <2>2, <2>4, <2>5
<1>3. CASE EnterTerminal
  <2>1. PICK id : id = TerminalArm(c.op, a) /\ id # NoId /\ Return(id)
                  /\ UNCHANGED arena /\ CachePut(Key(Top), id)
    BY <1>3, <1>t, <1>a DEF EnterTerminal
  <2>2. id \in Good /\ \A x : Value(id, x) = Applied(c.op, a, x)
    BY <1>s, <1>a, <2>1, TerminalArmMeans
  <2> QED BY <1>r, <2>1, <2>2
<1>4. CASE EnterNegate
  <2>1. PICK e : e = [c EXCEPT !.stage = "negate"]
    OBVIOUS
  <2>2. PICK b : b = <<Negated(c), Zero, Zero>>
    OBVIOUS
  <2>3. /\ Negates(c) /\ Recurse(e, Call("not", b)) /\ UNCHANGED <<arena, cache>>
    BY <1>4, <1>t, <2>1, <2>2 DEF EnterNegate
  <2>4. e.op = c.op /\ e.args = c.args /\ e.stage = "negate" /\ e.low = c.low
    BY <2>1 DEF Frame
  <2>5. GoodFrame(e) /\ e.low # Undet
    BY <1>t, <2>4 DEF GoodFrame
  <2>6. b \in GoodTriple /\ \A x : Applied("not", b, x) = Applied(c.op, c.args, x)
    BY <1>s, <1>a, <2>2, <2>3, NegateMeans
  <2>7. \A x : Awaited(e, x) = Applied(c.op, c.args, x)
    BY <2>4 DEF Awaited
  <2>8. "not" \in Ops /\ e.stage # "high"
    BY <2>4 DEF Ops
  <2> QED BY <1>c, <2>3, <2>4, <2>5, <2>6, <2>7, <2>8
<1>5. CASE EnterSplit
  <2>1. PICK e : e = [c EXCEPT !.stage = "low"]
    OBVIOUS
  <2>2. PICK b \in GoodTriple : b = Cofactors0(a)
    BY <1>s, CofactorsGood
  <2>3. Recurse(e, Call(c.op, b)) /\ UNCHANGED <<arena, cache>>
    BY <1>5, <1>t, <1>a, <2>1, <2>2 DEF EnterSplit
  <2>4. e.op = c.op /\ e.args = c.args /\ e.stage = "low" /\ e.low = c.low
    BY <2>1 DEF Frame
  <2>5. GoodFrame(e) /\ e.low # Undet
    BY <1>t, <2>4 DEF GoodFrame
  <2>6. \A x : Awaited(e, x) = Applied(c.op, b, x)
    BY <1>a, <2>2, <2>4 DEF Awaited
  <2> QED BY <1>c, <1>a, <2>3, <2>4, <2>5, <2>6
<1>6. CASE ResumeLow
  <2>0. ret # NoId /\ c.stage = "low"
    BY <1>6, <1>t DEF ResumeLow, Resuming
  <2>1. PICK e : e = [c EXCEPT !.stage = "high", !.low = ret]
    OBVIOUS
  <2>2. PICK b \in GoodTriple : b = Cofactors1(a)
    BY <1>s, CofactorsGood
  <2>3. Recurse(e, Call(c.op, b)) /\ UNCHANGED <<arena, cache>>
    BY <1>6, <1>t, <1>a, <2>1, <2>2 DEF ResumeLow
  <2>4. e.op = c.op /\ e.args = c.args /\ e.stage = "high" /\ e.low = ret
    BY <2>1 DEF Frame
  <2>5. GoodFrame(e) /\ e.low # Undet
    BY <1>t, <1>w, <2>0, <2>4 DEF GoodFrame, Good
  <2>6. \A x : Awaited(e, x) = Applied(c.op, b, x)
    BY <1>a, <2>2, <2>4 DEF Awaited
  <2>7. Denotes(e.low, e.op, Cofactors0(e.args))
    BY <1>w, <2>0, <2>4 DEF Denotes, Awaited
  <2> QED BY <1>c, <1>a, <2>3, <2>4, <2>5, <2>6, <2>7
<1>7. CASE ResumeHigh
  <2>0. ret # NoId /\ c.stage = "high"
    BY <1>7, <1>t DEF ResumeHigh, Resuming
  <2>1. PICK l, lo, hi, id : l = TopLevel(a) /\ lo = c.low /\ hi = ret /\ id = NodeFor(l, lo, hi)
    OBVIOUS
  <2>2. CreateNode(l, lo, hi) /\ CachePut(Key(c), id) /\ Return(id)
    BY <1>7, <1>t, <1>a, <2>1 DEF ResumeHigh
  <2>3. lo \in Good /\ hi \in Good
    BY <1>t, <1>w, <2>0, <2>1 DEF GoodFrame
  <2>4. Level(lo) < l /\ Level(hi) < l
    <3>1. Level(lo) < l
      BY <1>t, <1>a, <2>0, <2>1 DEF FrameOK
    <3>2. Level(hi) < l
      BY <1>0, <1>i, <1>t, <1>a, <2>0, <2>1 DEF RetInv, LevelFits
    <3> QED BY <3>1, <3>2
  <2>5. l \in Nat /\ l < Len(headers) /\ headers \in Seq(Var)
    <3>1. l \in Int /\ l < Len(headers)
      BY <1>i, <1>a, <2>1, TopLevelBounds
    <3>2. Level(hi) \in Int /\ Level(hi) >= -1
      <4>1. hi \in Slots
        BY <1>i, <2>3, SlotTypes DEF Good
      <4> QED BY <1>i, <4>1, SlotTypes DEF NoLevel
    <3>3. headers \in Seq(Var)
      BY <1>i DEF ArenaTypeOK
    <3> QED BY <2>4, <3>1, <3>2, <3>3
  <2>6. /\ NodesDefined' /\ id \in Good'
        /\ \A x : Value(id, x)' = IF x[headers[l + 1]] THEN Value(hi, x) ELSE Value(lo, x)
    <3>1. headers' \in Seq(Var) /\ Len(headers) <= Len(headers') /\ l < Len(headers')
      BY <1>g, <2>5
    <3>2. /\ NodesDefined' /\ id \in Good'
          /\ \A x : Value(id, x)' = IF x[headers'[l + 1]] THEN Value(hi, x) ELSE Value(lo, x)
      BY <1>s, <2>1, <2>2, <2>3, <2>4, <2>5, <3>1, NodeMeans
    <3> QED BY <1>g, <3>2
  <2>7. ForestMeans'
    BY <1>0, <1>g, <2>6 DEF ForestMeans, HeadersDistinct
  <2>8. ASSUME NEW x \in Assignment
        PROVE  Value(id, x)' = Applied(c.op, c.args, x)
    <3>1. Value(hi, x) = Applied(c.op, Cofactors1(a), x)
      BY <1>a, <1>w, <2>0, <2>1 DEF Awaited
    <3>2. Value(lo, x) = Applied(c.op, Cofactors0(a), x)
      <4>1. Len(calls) \in DOMAIN calls /\ calls[Len(calls)] = c
        BY <1>0, <1>i, <1>t, BelowFrames
      <4> QED BY <1>a, <2>0, <2>1, <4>1 DEF RecursionMeans, CallsMean, Denotes
    <3>3. Applied(c.op, a, x) = IF x[headers[l + 1]] THEN Applied(c.op, Cofactors1(a), x)
                                  ELSE Applied(c.op, Cofactors0(a), x)
      BY <1>s, <1>a, <2>1, <2>5, CofactorsMean
    <3> QED BY <1>a, <2>6, <3>1, <3>2, <3>3
  <2>9. TableMeans'
    BY <1>g, <1>t, <2>2, <2>6, <2>8, TablePut
  <2>10. RecursionMeans' /\ OuterKept
    <3>1. id \in Nat
      BY <1>i, <2>6, SlotTypesNext DEF Good
    <3> QED BY <1>0, <1>g, <1>s, <1>t, <2>2, <2>6, <2>8, <3>1, ReturnMeans
  <2> QED BY <2>7, <2>9, <2>10
<1>8. CASE ResumeNegate
  <2>1. ret # NoId /\ c.stage = "negate"
    BY <1>8, <1>t DEF ResumeNegate, Resuming
  <2>2. PICK id : id = ret /\ Return(id) /\ CachePut(Key(Top), id) /\ UNCHANGED arena
    BY <1>8 DEF ResumeNegate
  <2>3. id \in Good /\ \A x \in Assignment : Value(id, x) = Applied(c.op, a, x)
    BY <1>a, <1>w, <2>1, <2>2 DEF Awaited
  <2> QED BY <1>r, <2>2, <2>3
<1> QED BY <1>0, <1>1, <1>2, <1>3, <1>4, <1>5, <1>6, <1>7, <1>8 DEF ApplyStep

----------------------------------------------------------------------------
(* What clients and calls hold.                                            *)

LEMMA HoldingsGood ==
  ASSUME IInv, HoldingsMean
  PROVE  /\ \A h \in Handle : handle[h] # NoId => handle[h] \in Good
         /\ Held \subseteq Good
         /\ \A n \in DOMAIN todo : todo[n].arg \in Good
         /\ \A n \in DOMAIN rpn.stack : rpn.stack[n] \in Good
         /\ \A n \in Name : rpn.saved[n] # NoId => rpn.saved[n] \in Good
<1>1. \A h \in Handle : handle[h] # NoId => handle[h] \in Alloc
  BY IInvParts, PinnedIds
<1>2. \A h \in Handle : handle[h] # NoId => handle[h] \in Good
  BY <1>1 DEF HoldingsMean, HoldingsDefined, Good
<1>3. RawInv
  BY DEF IInv
<1>4. Held \subseteq Good
  BY <1>2 DEF Held
<1> QED BY <1>2, <1>3, <1>4 DEF RawInv, HoldingsMean, HoldingsDefined, Good

(* The manager's handles are nodes over the terminals.                     *)
VarsGood == \A v \in Var : vars[v] # Undet /\ (vars[v] # NoId => vars[v] \in Good)

LEMMA VariablesGood == IInv => VarsGood
<1> SUFFICES ASSUME IInv, NEW v \in Var, vars[v] # NoId
             PROVE  vars[v] # Undet /\ vars[v] \in Good
  BY DEF VarsGood, NoId, Undet
<1>1. PICK l \in 0 .. Len(headers) - 1 : nodes[vars[v] + 1] = <<l, Zero, One>>
  BY DEF IInv, VariablesKept
<1>2. nodes[Undet + 1] = <<NoLevel, Undet, Undet>>
  BY DEF IInv, TypeOK, ArenaTypeOK, TerminalsInPlace, Terminals
<1>3. vars[v] # Undet
  BY <1>1, <1>2 DEF NoLevel
<1>4. vars[v] \in Alloc
  BY IInvParts, PinnedIds
<1> QED BY <1>3, <1>4 DEF Good

LEMMA VariablesGoodNext == IInv' => VarsGood'
BY VariablesGood, PTL

(* No recursion runs but while a call computes.                            *)
LEMMA NoRecursion ==
  ASSUME IInv, pc \notin {"op", "rpnop"}
  PROVE  calls = <<>> /\ ret = NoId
BY DEF IInv, PhaseInv

LEMMA NoMarks ==
  IInv' /\ pc' \notin {"autogc", "gc"} => MarkedReachable'
BY DEF IInv, PhaseInv, MarkedReachable

(* A step outside the recursion that builds nothing.                       *)
LEMMA NothingComputed ==
  ASSUME MeaningInv, IInv', Same, UNCHANGED <<arena, cache, vars>>,
         calls' = <<>>, ret' # Undet
  PROVE  ForestMeans' /\ TableMeans' /\ RecursionMeans'
<1>1. ForestMeans'
  BY MeaningParts, NodesRemain DEF arena, Alloc, Slots
<1>2. TableMeans'
  BY MeaningParts, TableShrinks
<1> QED BY <1>1, <1>2, RecursionStarts

(* A step that calls an operation.                                         *)
LEMMA OperationCalled ==
  ASSUME MeaningInv, IInv', Same, UNCHANGED <<arena, cache, vars>>,
         NEW op \in Ops, NEW a \in GoodTriple, calls' = <<Call(op, a)>>, ret' = NoId
  PROVE  /\ ForestMeans' /\ TableMeans' /\ RecursionMeans'
         /\ \A x : Applied(calls[1].op, calls[1].args, x)' = Applied(op, a, x)
<1>1. ForestMeans'
  BY MeaningParts, NodesRemain DEF arena, Alloc, Slots
<1>2. TableMeans'
  BY MeaningParts, TableShrinks
<1>3. Sound /\ Grows
  BY MeaningParts, SoundNow DEF ForestMeans, arena, Grows, Alloc, Slots
<1>4. PICK d : d = Call(op, a)
  OBVIOUS
<1>5. /\ GoodFrame(d) /\ d.stage = "enter" /\ d.low = NoId
      /\ \A x : Applied(d.op, d.args, x) = Applied(op, a, x)
  BY <1>3, <1>4, CallMeans
<1>6. RecursionMeans'
  BY <1>4, <1>5, RecursionStarts DEF NoId, Undet
<1>7. ASSUME NEW x
      PROVE  Applied(calls[1].op, calls[1].args, x)' = Applied(op, a, x)
  <2>1. d = calls'[1]
    BY <1>4
  <2>2. Applied(d.op, d.args, x)' = Applied(d.op, d.args, x)
    BY <1>3, <1>5, AppliedKept DEF GoodFrame
  <2>3. Applied(calls[1].op, calls[1].args, x)' = Applied(d.op, d.args, x)'
    BY <2>1
  <2> QED BY <1>5, <2>2, <2>3
<1> QED BY <1>1, <1>2, <1>6, <1>7

(* A new variable: one more level, one more node over the terminals.       *)
LEMMA DeclarationMeans ==
  ASSUME MeaningInv, IInv', Same, NEW v \in Var, DeclareVar(v), UNCHANGED cache,
         calls' = <<>>, ret' # Undet
  PROVE  /\ ForestMeans' /\ TableMeans' /\ RecursionMeans'
         /\ vars'[v] \in Good' /\ headers \in Seq(Var) /\ headers' = Append(headers, v)
         /\ v \notin {headers[k] : k \in DOMAIN headers}
         /\ \A x : Value(vars[v], x)' = IF x[v] THEN One ELSE Zero
<1>0. headers \in Seq(Var) /\ headers' = Append(headers, v)
  BY DEF MeaningInv, IInv, TypeOK, ArenaTypeOK, DeclareVar
<1>1. PICK l \in Nat : l = Len(headers) /\ headers' = Append(headers, v) /\ headers \in Seq(Var)
  BY <1>0
<1>2. /\ headers' \in Seq(Var) /\ Len(headers') = l + 1 /\ headers'[l + 1] = v
      /\ DOMAIN headers = 1 .. l /\ DOMAIN headers' = 1 .. l + 1
      /\ \A k \in 1 .. l : headers'[k] = headers[k]
  BY <1>1
<1>3. PICK id : id = NodeFor(l, Zero, One)
  OBVIOUS
<1>4. CreateNode(l, Zero, One) /\ vars' = [vars EXCEPT ![v] = id] /\ vars[v] = NoId
  BY <1>1, <1>3 DEF DeclareVar
<1>5. Sound /\ Zero \in Good /\ One \in Good
  BY MeaningParts, SoundNow, GoodValues DEF ForestMeans
<1>6. Level(Zero) < l /\ Level(One) < l
  <2>1. Level(Zero) = -1 /\ Level(One) = -1
    BY <1>5, SlotTypes DEF Sound, Terminals, NoLevel
  <2> QED BY <2>1
<1>7. /\ NodesDefined' /\ id \in Good'
      /\ \A x : Value(id, x)' = IF x[headers'[l + 1]] THEN Value(One, x) ELSE Value(Zero, x)
  <2>1. Len(headers) <= Len(headers') /\ l < Len(headers')
    BY <1>1, <1>2
  <2> QED BY <1>2, <1>3, <1>4, <1>5, <1>6, <2>1, NodeMeans
<1>8. id = vars'[v] /\ id # NoId /\ vars \in [Var -> IdOrNone]
  <2>1. vars \in [Var -> IdOrNone]
    BY DEF MeaningInv, IInv, TypeOK
  <2>2. id \in Nat
    BY <1>7, SlotTypesNext DEF IInv, TypeOK, Good
  <2> QED BY <1>4, <2>1, <2>2 DEF NoId
<1>9. /\ \A k \in 1 .. l : headers[k] # v
      /\ \A k, m \in 1 .. l : headers[k] = headers[m] => k = m
      /\ \A k \in 1 .. l : vars[headers[k]] # NoId
  BY <1>2, <1>4 DEF MeaningInv, HeadersDistinct
<1>10. HeadersDistinct'
  <2>1. \A k \in 1 .. l + 1 : k \in 1 .. l \/ k = l + 1
    OBVIOUS
  <2>2. \A k \in 1 .. l + 1 : vars'[headers'[k]] # NoId
    <3> SUFFICES ASSUME NEW k \in 1 .. l + 1
                 PROVE  vars'[headers'[k]] # NoId
      OBVIOUS
    <3>1. CASE k = l + 1
      BY <1>2, <1>8, <3>1
    <3>2. CASE k \in 1 .. l
      BY <1>2, <1>4, <1>8, <1>9, <3>2
    <3> QED BY <2>1, <3>1, <3>2
  <2>3. \A k, m \in 1 .. l + 1 : headers'[k] = headers'[m] => k = m
    BY <1>2, <1>9, <2>1
  <2> QED BY <1>2, <2>2, <2>3 DEF HeadersDistinct
<1>11. TableMeans'
  BY MeaningParts, TableShrinks
<1>12. \A x : Value(vars[v], x)' = IF x[v] THEN One ELSE Zero
  <2>1. \A x : Value(vars[v], x)' = Value(id, x)'
    BY <1>8 DEF Value
  <2>2. \A x : Value(One, x) = One /\ Value(Zero, x) = Zero
    BY <1>5, GoodValues
  <2> QED BY <1>2, <1>7, <2>1, <2>2
<1>13. vars'[v] \in Good' /\ v \notin {headers[k] : k \in DOMAIN headers}
  BY <1>2, <1>7, <1>8, <1>9
<1> QED BY <1>1, <1>7, <1>10, <1>11, <1>12, <1>13, RecursionStarts DEF ForestMeans

----------------------------------------------------------------------------
(* The steps.                                                              *)

MeansNext ==
  ForestMeans' /\ TableMeans' /\ RecursionMeans' /\ HoldingsMean' /\ MarkedReachable'

LEMMA HandleCallsMean ==
  ASSUME MeaningInv, IInv', Same, pc = "idle", pc' = "idle",
         \/ \E h, g \in Handle : CloneHandle(h, g)
         \/ \E h \in Handle : DropHandle(h)
         \/ \E v \in Var, h \in Handle : DefVarNew(v, h) \/ DefVarKnown(v, h)
         \/ \E h, low, high \in Handle : GetChildren(h, low, high)
  PROVE  MeansNext
<1>1. /\ calls = <<>> /\ ret = NoId /\ NoId # Undet
      /\ IInv /\ HoldingsMean /\ Sound /\ MarkedReachable'
  BY MeaningParts, NoRecursion, NoMarks, SoundNow DEF ForestMeans, NoId, Undet
<1>2. handle \in [Handle -> IdOrNone] /\ vars \in [Var -> IdOrNone]
  BY <1>1 DEF IInv, TypeOK
<1>3. ASSUME UNCHANGED <<arena, cache, engine, vars, todo, rpn>>,
             \A h \in Handle : handle'[h] # Undet
      PROVE  MeansNext
  <2>1. HoldingsMean'
    BY <1>1, <1>3 DEF HoldingsMean, HoldingsDefined, OneFold
  <2>2. ForestMeans' /\ TableMeans' /\ RecursionMeans'
    BY <1>1, <1>3, NothingComputed DEF engine
  <2> QED BY <1>1, <2>1, <2>2 DEF MeansNext
<1>4. ASSUME NEW h \in Handle, NEW g \in Handle, CloneHandle(h, g)
      PROVE  MeansNext
  BY <1>1, <1>2, <1>3, <1>4 DEF CloneHandle, Hold, HoldingsMean, HoldingsDefined
<1>5. ASSUME NEW h \in Handle, DropHandle(h)
      PROVE  MeansNext
  BY <1>1, <1>2, <1>3, <1>5 DEF DropHandle, Hold, HoldingsMean, HoldingsDefined
<1>6. ASSUME NEW v \in Var, NEW h \in Handle, DefVarKnown(v, h)
      PROVE  MeansNext
  <2>1. vars[v] # Undet
    BY <1>1, VariablesGood DEF VarsGood
  <2> QED BY <1>1, <1>2, <1>3, <1>6, <2>1 DEF DefVarKnown, Hold, HoldingsMean, HoldingsDefined
<1>7. ASSUME NEW v \in Var, NEW h \in Handle, DefVarNew(v, h)
      PROVE  MeansNext
  <2>1. DeclareVar(v) /\ UNCHANGED <<cache, calls, ret, todo, rpn>>
        /\ handle' = [handle EXCEPT ![h] = vars'[v]]
    BY <1>7 DEF DefVarNew, engine, Hold
  <2>2. ForestMeans' /\ TableMeans' /\ RecursionMeans'
    BY <1>1, <2>1, DeclarationMeans
  <2>3. vars'[v] # Undet
    BY VariablesGoodNext DEF VarsGood
  <2>4. HoldingsMean'
    BY <1>1, <1>2, <2>1, <2>3 DEF HoldingsMean, HoldingsDefined, OneFold
  <2> QED BY <1>1, <2>2, <2>4 DEF MeansNext
<1>8. ASSUME NEW h \in Handle, NEW low \in Handle, NEW high \in Handle, GetChildren(h, low, high)
      PROVE  MeansNext
  <2>1. handle[h] \in Good
    BY <1>1, <1>8, HoldingsGood DEF GetChildren
  <2>2. Low(handle[h]) # Undet /\ High(handle[h]) # Undet
    BY <1>1, <2>1, GoodKids DEF Good
  <2>3. /\ handle' = [handle EXCEPT ![low] = Low(handle[h]), ![high] = High(handle[h])]
        /\ UNCHANGED <<arena, cache, engine, vars, todo, rpn>>
    BY <1>8 DEF GetChildren
  <2> QED BY <1>1, <1>2, <1>3, <2>2, <2>3 DEF HoldingsMean, HoldingsDefined
<1> QED BY <1>4, <1>5, <1>6, <1>7, <1>8

(* Calls that leave their result in ret.                                   *)
LEMMA BuildingCallsMean ==
  ASSUME MeaningInv, IInv', Same, CanBuild,
         \/ \E t \in Terminals : Constant(t)
         \/ \E l \in 0 .. Len(headers) - 1, lo, hi \in Held : PublicCreateNode(l, lo, hi)
         \/ \E op \in Called : \E args \in ArgTuples(op) : Invoke(op, args)
         \/ \E op \in Called \cap {"and", "or"}, list \in Lists : InvokeList(op, list)
  PROVE  MeansNext
<1>1. /\ calls = <<>> /\ ret = NoId /\ NoId # Undet
      /\ IInv /\ HoldingsMean /\ Sound /\ todo = <<>>
  BY MeaningParts, NoRecursion, SoundNow DEF ForestMeans, NoId, Undet, CanBuild, Ready, IInv, PhaseInv
<1>2. Held \subseteq Good /\ Zero \in Good /\ One \in Good
  BY <1>1, HoldingsGood, GoodValues
<1>3. ASSUME UNCHANGED <<handle, todo, rpn>>
      PROVE  HoldingsMean'
  BY <1>1, <1>3 DEF HoldingsMean, HoldingsDefined, OneFold
<1>4. ASSUME NEW t \in Terminals, Constant(t)
      PROVE  MeansNext
  <2>1. /\ t \in {Zero, One} /\ ret' = t /\ pc' = "op"
        /\ UNCHANGED <<arena, cache, vars, handle, todo, rpn, calls>>
    BY <1>4 DEF Constant, mgr
  <2>2. ForestMeans' /\ TableMeans' /\ RecursionMeans'
    BY <1>1, <1>2, <2>1, NothingComputed DEF Good
  <2> QED BY <1>3, <2>1, <2>2, NoMarks DEF MeansNext
<1>5. ASSUME NEW l \in 0 .. Len(headers) - 1, NEW lo \in Held, NEW hi \in Held,
             PublicCreateNode(l, lo, hi)
      PROVE  MeansNext
  <2>1. /\ Level(lo) < l /\ Level(hi) < l /\ CreateNode(l, lo, hi) /\ pc' = "op"
        /\ ret' = NodeFor(l, lo, hi) /\ UNCHANGED <<headers, cache, calls, vars, handle, todo, rpn>>
    BY <1>5 DEF PublicCreateNode, mgr
  <2>2. headers \in Seq(Var) /\ l \in Nat /\ l < Len(headers) /\ Len(headers) <= Len(headers')
    BY <1>1, <2>1 DEF Sound, ArenaTypeOK
  <2>3. PICK id : id = NodeFor(l, lo, hi)
    OBVIOUS
  <2>4. NodesDefined' /\ id \in Good'
    BY <1>1, <1>2, <2>1, <2>2, <2>3, NodeMeans
  <2>5. ForestMeans'
    BY <2>1, <2>4, MeaningParts DEF ForestMeans, HeadersDistinct
  <2>6. TableMeans'
    BY <2>1, MeaningParts, TableShrinks
  <2>7. RecursionMeans'
    BY <1>1, <2>1, <2>3, <2>4, RecursionStarts DEF Good
  <2> QED BY <1>3, <2>1, <2>5, <2>6, <2>7, NoMarks DEF MeansNext
<1>6. ASSUME NEW op \in Called, NEW args \in ArgTuples(op), Invoke(op, args)
      PROVE  MeansNext
  <2>1. op \in Ops
    BY ConstantsAssumption
  <2>2. args \in GoodTriple
    BY <1>2, <2>1 DEF ArgTuples, GoodTriple, Ops
  <2>3. /\ calls' = <<Call(op, args)>> /\ ret' = NoId /\ pc' = "op"
        /\ UNCHANGED <<arena, cache, vars, handle, todo, rpn>>
    BY <1>1, <1>6 DEF Invoke, mgr
  <2>4. ForestMeans' /\ TableMeans' /\ RecursionMeans'
    BY <2>1, <2>2, <2>3, OperationCalled
  <2> QED BY <1>3, <2>3, <2>4, NoMarks DEF MeansNext
<1>7. ASSUME NEW op \in {"and", "or"}, NEW list \in Lists, InvokeList(op, list)
      PROVE  MeansNext
  <2>1. /\ ret' \in {Zero, One} /\ pc' = "op"
        /\ todo' = [k \in DOMAIN list |-> [op |-> op, arg |-> list[k]]]
        /\ UNCHANGED <<arena, cache, vars, handle, rpn, calls>>
    BY <1>7 DEF InvokeList
  <2>2. ForestMeans' /\ TableMeans' /\ RecursionMeans'
    BY <1>1, <1>2, <2>1, NothingComputed DEF Good
  <2>3. \A k \in DOMAIN list : list[k] \in Held
    BY DEF Lists
  <2>4. HoldingsMean'
    <3>1. DOMAIN todo' = DOMAIN list
          /\ \A k \in DOMAIN list : todo'[k].arg = list[k] /\ todo'[k].op = op
      BY <2>1
    <3>2. \A k \in DOMAIN list : list[k] # Undet
      BY <1>2, <2>3 DEF Good
    <3> QED BY <1>1, <2>1, <3>1, <3>2 DEF HoldingsMean, HoldingsDefined, OneFold
  <2> QED BY <2>1, <2>2, <2>4, NoMarks DEF MeansNext
<1> QED BY <1>4, <1>5, <1>6, <1>7

(* The roots lie in what they reach, which is closed under edges and least *)
(* among such sets.                                                        *)
RootsReach ==
  /\ DOMAIN roots \cup Terminals \subseteq Reachable(DOMAIN roots)
  /\ Reachable(DOMAIN roots) \subseteq Alloc
  /\ Kids(Reachable(DOMAIN roots)) \subseteq Reachable(DOMAIN roots)
  /\ \A S \in SUBSET Alloc :
       DOMAIN roots \cup Terminals \subseteq S /\ Kids(S) \subseteq S
         => Reachable(DOMAIN roots) \subseteq S

LEMMA RootsReachNow == IInv => RootsReach
<1> SUFFICES ASSUME IInv PROVE RootsReach
  OBVIOUS
<1>1. ArenaTypeOK /\ ArenaInv /\ DOMAIN roots \in SUBSET Alloc
  BY DEF IInv, TypeOK, RootsExact
<1> QED BY <1>1, ReachableIsClosure DEF RootsReach

LEMMA RootsReachNext == IInv' => RootsReach'
BY RootsReachNow, PTL

LEMMA FoldNextMeans ==
  ASSUME MeaningInv, IInv', Same, FoldNext
  PROVE  /\ MeansNext
         /\ Head(todo).op \in {"and", "or"}
         /\ \A x : Applied(calls[1].op, calls[1].args, x)'
                     = Applied(Head(todo).op, <<ret, Head(todo).arg, Zero>>, x)
<1>1. IInv /\ HoldingsMean /\ Sound /\ RecursionMeans /\ todo # <<>>
  BY MeaningParts, SoundNow DEF ForestMeans, FoldNext
<1>2. /\ todo \in Seq([op : {"and", "or"}, arg : Id])
      /\ Head(todo) = todo[1] /\ 1 \in DOMAIN todo
      /\ Len(Tail(todo)) = Len(todo) - 1
      /\ \A n \in DOMAIN Tail(todo) : Tail(todo)[n] = todo[n + 1] /\ n + 1 \in DOMAIN todo
  BY <1>1 DEF IInv, TypeOK
<1>3. PICK op, a : op = Head(todo).op /\ a = <<ret, Head(todo).arg, Zero>>
  OBVIOUS
<1>4. op \in {"and", "or"} /\ op \in Ops
  <2> DEFINE Item == [op : {"and", "or"}, arg : Id]
  <2>0. todo \in Seq(Item) /\ 1 \in DOMAIN todo
    BY <1>2
  <2>1. Head(todo) \in Item
    <3> HIDE DEF Item
    <3> QED BY <1>2, <2>0
  <2>2. op \in {"and", "or"}
    BY <1>3, <2>1
  <2> QED BY <2>2 DEF Ops
<1>5. a \in GoodTriple
  <2>1. ret \in Good
    BY <1>1, GoodFrames DEF FoldNext, RecursionMeans
  <2>2. Head(todo).arg \in Good /\ Zero \in Good
    BY <1>1, <1>2, HoldingsGood, GoodValues
  <2> QED BY <1>3, <2>1, <2>2 DEF GoodTriple
<1>6. /\ calls' = <<Call(op, a)>> /\ ret' = NoId /\ todo' = Tail(todo) /\ pc' = "op"
      /\ UNCHANGED <<arena, cache, vars, handle, rpn>>
  BY <1>3 DEF FoldNext
<1>7. /\ ForestMeans' /\ TableMeans' /\ RecursionMeans'
      /\ \A x : Applied(calls[1].op, calls[1].args, x)' = Applied(op, a, x)
  BY <1>4, <1>5, <1>6, OperationCalled
<1>8. HoldingsMean'
  BY <1>1, <1>2, <1>6 DEF HoldingsMean, HoldingsDefined, OneFold
<1> QED BY <1>3, <1>4, <1>6, <1>7, <1>8, NoMarks DEF MeansNext

LEMMA FinishMeans ==
  ASSUME MeaningInv, IInv', Same, NEW h \in Handle, Finish(h)
  PROVE  MeansNext
<1>1. IInv /\ HoldingsMean /\ RecursionMeans
  BY MeaningParts
<1>2. ret # Undet /\ calls' = <<>> /\ ret' = NoId /\ NoId # Undet
      /\ handle' = [handle EXCEPT ![h] = ret]
      /\ UNCHANGED <<arena, cache, vars, todo, rpn>>
  BY <1>1 DEF Finish, Hold, RecursionMeans, FramesDefined, NoId, Undet
<1>3. ForestMeans' /\ TableMeans' /\ RecursionMeans'
  BY <1>2, NothingComputed
<1>4. HoldingsMean'
  <2>1. handle \in [Handle -> IdOrNone]
    BY <1>1 DEF IInv, TypeOK
  <2> QED BY <1>1, <1>2, <2>1 DEF HoldingsMean, HoldingsDefined, OneFold
<1>5. MarkedReachable'
  <2>1. CASE pc' = "idle"
    BY <2>1, NoMarks
  <2>2. CASE marked' = {} /\ grey' \subseteq Terminals \cup DOMAIN roots'
    BY <2>2, RootsReachNext DEF RootsReach, MarkedReachable
  <2> QED BY <2>1, <2>2 DEF Finish, StartMark
<1> QED BY <1>3, <1>4, <1>5 DEF MeansNext

(* What the roots reach does not change while they and the nodes do not.   *)
LEMMA ReachKept ==
  ASSUME IInv, IInv', UNCHANGED <<nodes, free, roots>>
  PROVE  Reachable(DOMAIN roots) \subseteq Reachable(DOMAIN roots)'
<1>1. PICK S : S = Reachable(DOMAIN roots)'
  OBVIOUS
<1>2. Alloc' = Alloc /\ Kids(S)' = Kids(S)
  BY DEF Alloc, Slots, Kids, Low, High
<1>3. S \in SUBSET Alloc /\ DOMAIN roots \cup Terminals \subseteq S /\ Kids(S)' \subseteq S
  BY <1>1, <1>2, RootsReachNext DEF RootsReach, Kids
<1>4. Reachable(DOMAIN roots) \subseteq S
  BY <1>2, <1>3, RootsReachNow DEF RootsReach
<1> QED BY <1>1, <1>4

LEMMA CollectionMeans ==
  ASSUME MeaningInv, IInv', Same,
         (\E keep \in SUBSET Held : ExplicitGc(keep)) \/ MarkStep \/ SweepStep
  PROVE  MeansNext
<1>1. IInv /\ HoldingsMean /\ ForestMeans /\ TableMeans /\ MarkedReachable /\ NoId # Undet
  BY MeaningParts DEF NoId, Undet
<1>2. calls = <<>> /\ ret = NoId /\ calls' = <<>> /\ ret' = NoId
  BY <1>1, NoRecursion DEF ExplicitGc, MarkStep, SweepStep, engine
<1>3. HoldingsMean'
  BY <1>1 DEF ExplicitGc, MarkStep, SweepStep, mgr, HoldingsMean, HoldingsDefined, OneFold
<1>4. ASSUME NEW keep \in SUBSET Held, ExplicitGc(keep)
      PROVE  MeansNext
  <2>1. ForestMeans' /\ TableMeans' /\ RecursionMeans'
    BY <1>1, <1>2, <1>4, NothingComputed DEF ExplicitGc, mgr
  <2>2. DOMAIN roots' = DOMAIN roots /\ Held \subseteq DOMAIN roots
    BY <1>1, <1>4 DEF ExplicitGc, mgr, gcstate, IInv, RootsExact, Pinned
  <2>3. marked' = {} /\ grey' \subseteq Terminals \cup DOMAIN roots'
    BY <1>4, <2>2 DEF ExplicitGc, StartMark
  <2>4. MarkedReachable'
    BY <2>3, RootsReachNext DEF RootsReach, MarkedReachable
  <2> QED BY <1>3, <2>1, <2>4 DEF MeansNext
<1>5. CASE MarkStep
  <2>1. ForestMeans' /\ TableMeans' /\ RecursionMeans'
    BY <1>1, <1>2, <1>5, NothingComputed DEF MarkStep, mgr
  <2>2. Reachable(DOMAIN roots) \subseteq Reachable(DOMAIN roots)'
    BY <1>1, <1>5, ReachKept DEF MarkStep, mgr, gcstate, arena
  <2>3. marked' \cup grey' \subseteq marked \cup grey \cup Kids(grey)
    BY <1>5 DEF MarkStep, Mark
  <2>4. grey \subseteq Reachable(DOMAIN roots) /\ marked \subseteq Reachable(DOMAIN roots)
    BY <1>1 DEF MarkedReachable
  <2>5. Kids(grey) \subseteq Kids(Reachable(DOMAIN roots))
    BY <2>4 DEF Kids
  <2>6. MarkedReachable'
    BY <1>1, <2>2, <2>3, <2>4, <2>5, RootsReachNow DEF RootsReach, MarkedReachable
  <2> QED BY <1>3, <2>1, <2>6 DEF MeansNext
<1>6. CASE SweepStep
  <2>1. ForestMeans'
    <3>1. marked \subseteq Alloc
      BY <1>1 DEF IInv, TraceInv
    <3>2. nodes' = nodes /\ headers' = headers /\ vars' = vars /\ free' = Slots \ marked
      BY <1>6 DEF SweepStep, Sweep
    <3>3. Alloc' \subseteq Alloc
      BY <3>1, <3>2 DEF Alloc, Slots
    <3> QED BY <1>1, <3>2, <3>3, NodesRemain
  <2>2. TableMeans'
    BY <1>1, <1>6, TableShrinks DEF SweepStep, Sweep
  <2>3. pc' = "idle"
    BY <1>6 DEF SweepStep
  <2> QED BY <1>1, <1>2, <1>3, <2>1, <2>2, <2>3, NoMarks, RecursionStarts DEF MeansNext
<1> QED BY <1>4, <1>5, <1>6

(* An rpn pushes what it holds: terminals, variables, saved nodes.         *)
LEMMA TokensMean ==
  ASSUME MeaningInv, IInv', Same, Reading, pc' = "rpn", HoldingsMean',
         UNCHANGED <<arena, cache, engine, vars>>
  PROVE  MeansNext
<1>1. calls = <<>> /\ ret = NoId /\ NoId # Undet
  BY MeaningParts, NoRecursion DEF Reading, NoId, Undet
<1>2. ForestMeans' /\ TableMeans' /\ RecursionMeans'
  BY <1>1, NothingComputed DEF engine
<1> QED BY <1>2, NoMarks DEF MeansNext

(* The stack after a push.                                                 *)
LEMMA PushHolds ==
  ASSUME HoldingsMean, rpn \in [stack : Seq(Id), saved : [Name -> IdOrNone]],
         NEW i, i # Undet, Push(i), UNCHANGED <<handle, todo>>
  PROVE  HoldingsMean' /\ rpn'.stack = Append(rpn.stack, i) /\ rpn'.saved = rpn.saved
<1>1. /\ rpn' = [rpn EXCEPT !.stack = Append(rpn.stack, i)]
      /\ rpn.stack \in Seq(Id)
  BY DEF Push
<1>2. rpn'.stack = Append(rpn.stack, i) /\ rpn'.saved = rpn.saved
  BY <1>1
<1>3. \A n \in DOMAIN rpn'.stack : rpn'.stack[n] # Undet
  BY <1>1, <1>2 DEF HoldingsMean, HoldingsDefined
<1> QED BY <1>2, <1>3 DEF HoldingsMean, HoldingsDefined, OneFold

LEMMA OperatorArgsGood ==
  ASSUME IInv, HoldingsMean, Sound, NEW op \in Ops, Depth >= Arity(op)
  PROVE  OperatorArgs(op) \in GoodTriple
<1>1. \A n \in 1 .. Len(rpn.stack) : rpn.stack[n] \in Good
  <2>1. rpn.stack \in Seq(Id)
    BY DEF IInv, TypeOK
  <2> QED BY <2>1, HoldingsGood
<1>2. PICK m \in Nat : m = Len(rpn.stack) /\ m = Depth
  BY DEF IInv, TypeOK, Depth
<1>3. Zero \in Good
  BY GoodValues
<1>4. CASE op = "not"
  <2>1. m \in 1 .. m
    BY <1>2, <1>4 DEF Arity
  <2> QED BY <1>1, <1>2, <1>3, <1>4, <2>1 DEF OperatorArgs, GoodTriple
<1>5. CASE op = "ite"
  <2>1. m \in 1 .. m /\ m - 1 \in 1 .. m /\ m - 2 \in 1 .. m
    BY <1>2, <1>5 DEF Arity
  <2>2. OperatorArgs(op) = <<rpn.stack[m - 2], rpn.stack[m - 1], rpn.stack[m]>>
    BY <1>2, <1>5 DEF OperatorArgs
  <2> QED BY <1>1, <1>2, <2>1, <2>2 DEF GoodTriple
<1>6. CASE op \notin {"not", "ite"}
  <2>1. m \in 1 .. m /\ m - 1 \in 1 .. m
    BY <1>2, <1>6 DEF Arity
  <2>2. OperatorArgs(op) = <<rpn.stack[m - 1], rpn.stack[m], Zero>>
    BY <1>2, <1>6 DEF OperatorArgs
  <2> QED BY <1>1, <1>2, <1>3, <2>1, <2>2 DEF GoodTriple
<1> QED BY <1>4, <1>5, <1>6

LEMMA RpnTokenMeans ==
  ASSUME MeaningInv, IInv', Same, RpnToken
  PROVE  MeansNext
<1>1. /\ IInv /\ HoldingsMean /\ Sound /\ Reading
      /\ calls = <<>> /\ ret = NoId /\ NoId # Undet /\ Zero # Undet /\ One # Undet
      /\ rpn \in [stack : Seq(Id), saved : [Name -> IdOrNone]]
  <2>1. Reading
    BY DEF RpnToken, RpnConstant, RpnNewVariable, RpnKnownVariable, RpnOperator, RpnUnderflow,
           RpnSave, RpnLoad
  <2>2. IInv /\ HoldingsMean /\ Sound
    BY MeaningParts, SoundNow DEF ForestMeans
  <2> QED BY <2>1, <2>2, NoRecursion, SMTT(30) DEF Reading, NoId, Undet, Zero, One, IInv, TypeOK
<1>2. ASSUME NEW t \in Terminals, RpnConstant(t)
      PROVE  MeansNext
  BY <1>1, <1>2, PushHolds, TokensMean DEF RpnConstant, Reading
<1>3. ASSUME NEW v \in Var, RpnKnownVariable(v)
      PROVE  MeansNext
  <2>1. vars[v] # Undet
    BY <1>1, VariablesGood DEF VarsGood
  <2> QED BY <1>1, <1>3, <2>1, PushHolds, TokensMean DEF RpnKnownVariable, Reading
<1>4. ASSUME NEW v \in Var, RpnNewVariable(v)
      PROVE  MeansNext
  <2>1. /\ DeclareVar(v) /\ Push(vars'[v]) /\ pc' = "rpn"
        /\ UNCHANGED <<cache, calls, ret, handle, todo>>
    BY <1>1, <1>4 DEF RpnNewVariable, engine, Reading
  <2>2. ForestMeans' /\ TableMeans' /\ RecursionMeans'
    BY <1>1, <2>1, DeclarationMeans
  <2>3. PICK i : i = vars'[v] /\ i # Undet
    BY VariablesGoodNext DEF VarsGood
  <2>4. HoldingsMean'
    BY <1>1, <2>1, <2>3, PushHolds
  <2> QED BY <2>1, <2>2, <2>4, NoMarks DEF MeansNext
<1>5. ASSUME NEW op \in Called, RpnOperator(op)
      PROVE  MeansNext
  <2>1. op \in Ops
    BY ConstantsAssumption
  <2>2. PICK a \in GoodTriple : a = OperatorArgs(op)
    BY <1>1, <1>5, <2>1, OperatorArgsGood DEF RpnOperator
  <2>3. /\ calls' = <<Call(op, a)>> /\ ret' = NoId /\ pc' = "rpnop"
        /\ rpn' = [rpn EXCEPT !.stack = SubSeq(rpn.stack, 1, Depth - Arity(op))]
        /\ UNCHANGED <<arena, cache, vars, handle, todo>>
    BY <1>1, <1>5, <2>2 DEF RpnOperator
  <2>4. ForestMeans' /\ TableMeans' /\ RecursionMeans'
    BY <2>1, <2>3, OperationCalled
  <2>5. HoldingsMean'
    <3>1. rpn'.saved = rpn.saved /\ rpn'.stack = SubSeq(rpn.stack, 1, Depth - Arity(op))
      BY <1>1, <2>3
    <3>2. PICK k \in Nat : k = Depth - Arity(op) /\ k <= Len(rpn.stack)
      BY <1>1, <1>5 DEF RpnOperator, Depth, Arity
    <3>3. \A n \in DOMAIN rpn'.stack : n \in DOMAIN rpn.stack /\ rpn'.stack[n] = rpn.stack[n]
      BY <1>1, <3>1, <3>2
    <3> QED BY <1>1, <2>3, <3>1, <3>3 DEF HoldingsMean, HoldingsDefined, OneFold
  <2> QED BY <2>3, <2>4, <2>5, NoMarks DEF MeansNext
<1>6. ASSUME NEW op \in Called, RpnUnderflow(op)
      PROVE  MeansNext
  <2>1. pc' = "unwinding" /\ UNCHANGED <<arena, cache, engine, vars, handle, todo, rpn>>
    BY <1>6 DEF RpnUnderflow, mgr
  <2>2. HoldingsMean'
    BY <1>1, <2>1 DEF HoldingsMean, HoldingsDefined, OneFold
  <2>3. ForestMeans' /\ TableMeans' /\ RecursionMeans'
    BY <1>1, <2>1, NothingComputed DEF engine
  <2> QED BY <2>1, <2>2, <2>3, NoMarks DEF MeansNext
<1>7. ASSUME NEW n \in Name, RpnSave(n)
      PROVE  MeansNext
  <2>1. /\ rpn.stack # <<>> /\ rpn' = [rpn EXCEPT !.saved[n] = rpn.stack[Depth]] /\ pc' = "rpn"
        /\ UNCHANGED <<arena, cache, engine, vars, handle, todo>>
    BY <1>1, <1>7 DEF RpnSave, Reading
  <2>2. rpn.stack[Depth] # Undet
    <3>1. rpn.stack \in Seq(Id) /\ Len(rpn.stack) \in DOMAIN rpn.stack
      BY <1>1, <2>1
    <3> QED BY <1>1, <3>1 DEF HoldingsMean, HoldingsDefined, Depth
  <2>3. rpn'.stack = rpn.stack /\ rpn'.saved = [rpn.saved EXCEPT ![n] = rpn.stack[Depth]]
    BY <1>1, <2>1
  <2>4. HoldingsMean'
    BY <1>1, <2>1, <2>2, <2>3 DEF HoldingsMean, HoldingsDefined, OneFold
  <2> QED BY <1>1, <2>1, <2>4, TokensMean
<1>8. ASSUME NEW n \in Name, RpnLoad(n)
      PROVE  MeansNext
  <2>1. rpn.saved[n] # Undet
    BY <1>1 DEF HoldingsMean, HoldingsDefined
  <2> QED BY <1>1, <1>8, <2>1, PushHolds, TokensMean DEF RpnLoad, Reading
<1> QED BY <1>2, <1>3, <1>4, <1>5, <1>6, <1>7, <1>8 DEF RpnToken

LEMMA RpnEndsMean ==
  ASSUME MeaningInv, IInv', Same, RpnResult \/ RpnAbort \/ RpnEnd
  PROVE  MeansNext
<1>1. /\ IInv /\ HoldingsMean /\ RecursionMeans /\ NoId # Undet
      /\ rpn \in [stack : Seq(Id), saved : [Name -> IdOrNone]]
  BY MeaningParts DEF IInv, TypeOK, NoId, Undet
<1>2. CASE RpnResult
  <2>1. /\ calls' = <<>> /\ ret' = NoId /\ pc' = "rpn" /\ Push(ret) /\ ret # Undet
        /\ UNCHANGED <<arena, cache, vars, handle, todo>>
    BY <1>1, <1>2 DEF RpnResult, RecursionMeans, FramesDefined
  <2>2. ForestMeans' /\ TableMeans' /\ RecursionMeans'
    BY <1>1, <2>1, NothingComputed
  <2>3. HoldingsMean'
    BY <1>1, <2>1, PushHolds
  <2> QED BY <2>1, <2>2, <2>3, NoMarks DEF MeansNext
<1>3. ASSUME rpn' = NoRpn, UNCHANGED <<handle, todo>>
      PROVE  HoldingsMean'
  BY <1>1, <1>3 DEF NoRpn, HoldingsMean, HoldingsDefined, OneFold
<1>4. CASE RpnAbort
  <2>1. /\ calls' = <<>> /\ ret' = NoId /\ pc' = "idle" /\ rpn' = NoRpn
        /\ UNCHANGED <<arena, cache, vars, handle, todo>>
    BY <1>1, <1>4, NoRecursion DEF RpnAbort, engine
  <2>2. ForestMeans' /\ TableMeans' /\ RecursionMeans'
    BY <1>1, <2>1, NothingComputed
  <2> QED BY <1>3, <2>1, <2>2, NoMarks DEF MeansNext
<1>5. CASE RpnEnd
  <2>1. /\ calls' = <<>> /\ ret' = rpn.stack[1] /\ pc' = "op" /\ rpn' = NoRpn
        /\ UNCHANGED <<arena, cache, vars, handle, todo>>
    BY <1>1, <1>5, NoRecursion DEF RpnEnd
  <2>2. ret' # Undet
    <3>1. 1 \in DOMAIN rpn.stack
      BY <1>1, <1>5 DEF RpnEnd, Depth
    <3> QED BY <1>1, <2>1, <3>1 DEF HoldingsMean, HoldingsDefined
  <2>3. ForestMeans' /\ TableMeans' /\ RecursionMeans'
    BY <1>1, <2>1, <2>2, NothingComputed
  <2> QED BY <1>3, <2>1, <2>3, NoMarks DEF MeansNext
<1> QED BY <1>2, <1>4, <1>5

LEMMA OtherStepsMean ==
  ASSUME MeaningInv, IInv', Same,
         \/ \E t \in Threshold : SetGcThreshold(t)
         \/ ClearCache
         \/ RpnStart
  PROVE  MeansNext
<1>1. /\ IInv /\ HoldingsMean /\ ForestMeans /\ TableMeans
      /\ calls = <<>> /\ ret = NoId /\ NoId # Undet
  BY MeaningParts, NoRecursion
     DEF SetGcThreshold, ClearCache, RpnStart, Ready, NoId, Undet
<1>2. /\ UNCHANGED <<arena, engine, vars, handle, todo, rpn>> /\ pc' \in {"idle", "rpn"}
      /\ DOMAIN cache' \subseteq DOMAIN cache /\ \A k \in DOMAIN cache' : cache'[k] = cache[k]
  BY DEF SetGcThreshold, ClearCache, RpnStart, mgr
<1>3. ForestMeans'
  BY <1>1, <1>2, NodesRemain DEF arena, Alloc, Slots
<1>4. TableMeans'
  BY <1>1, <1>2, TableShrinks
<1>5. RecursionMeans'
  BY <1>1, <1>2, RecursionStarts DEF engine
<1>6. HoldingsMean'
  BY <1>1, <1>2 DEF HoldingsMean, HoldingsDefined, OneFold
<1> QED BY <1>2, <1>3, <1>4, <1>5, <1>6, NoMarks DEF MeansNext

LEMMA MeaningInit == Init => MeaningInv
<1> SUFFICES ASSUME Init PROVE MeaningInv
  OBVIOUS
<1>1. IInv
  BY Inductive
<1>2. /\ DOMAIN cache = {} /\ calls = <<>> /\ ret = NoId /\ todo = <<>> /\ headers = <<>>
      /\ pc = "idle" /\ rpn = NoRpn /\ NoId # Undet /\ \A h \in Handle : handle[h] = NoId
  BY DEF Init, ForestInit, NoId, Undet
<1>3. Inner = {}
  <2>1. \A i \in Inner : Level(i) \in 0 .. Len(headers) - 1
    BY <1>1 DEF IInv, ArenaInv, Ordered
  <2>2. 0 .. Len(headers) - 1 = {}
    BY <1>2
  <2> QED BY <2>1, <2>2
<1>4. ForestMeans
  BY <1>2, <1>3 DEF ForestMeans, NodesDefined, HeadersDistinct
<1>5. TableMeans
  BY <1>2 DEF TableMeans, CacheDefined, CacheSound
<1>6. RecursionMeans
  BY <1>2 DEF RecursionMeans, FramesDefined, CallsMean
<1>7. HoldingsMean
  BY <1>2 DEF HoldingsMean, HoldingsDefined, OneFold, NoRpn
<1>8. MarkedReachable
  BY <1>1, <1>2 DEF IInv, PhaseInv, MarkedReachable
<1> QED BY <1>1, <1>4, <1>5, <1>6, <1>7, <1>8, MeaningParts

LEMMA ApplyKeepsMeaning ==
  ASSUME MeaningInv, IInv', Same, Apply
  PROVE  MeansNext /\ OuterKept
<1>1. ForestMeans' /\ TableMeans' /\ RecursionMeans' /\ OuterKept
  BY MeaningParts, ApplyMeans
<1>2. HoldingsMean'
  BY MeaningParts DEF Apply, mgr, HoldingsMean, HoldingsDefined, OneFold
<1>3. pc' \notin {"autogc", "gc"}
  BY DEF Apply
<1> QED BY <1>1, <1>2, <1>3, NoMarks DEF MeansNext

LEMMA StutterKeepsMeaning ==
  ASSUME MeaningInv, IInv', Same, UNCHANGED allvars
  PROVE  MeansNext
<1>1. /\ UNCHANGED <<arena, cache, calls, ret, vars, handle, roots, todo, rpn, marked, grey>>
      /\ UNCHANGED <<nodes, headers, free>>
  BY DEF allvars, arena, tracing, engine, mgr, gcstate
<1>2. /\ IInv /\ ForestMeans /\ TableMeans /\ RecursionMeans /\ HoldingsMean /\ MarkedReachable
      /\ NodesDefined
  BY MeaningParts DEF ForestMeans
<1>3. ForestMeans' /\ TableMeans' /\ Grows
  BY <1>1, <1>2, NodesRemain, TableShrinks DEF Alloc, Slots, Grows
<1>4. HoldingsMean'
  BY <1>1, <1>2 DEF HoldingsMean, HoldingsDefined, OneFold
<1>5. MarkedReachable'
  BY <1>1, <1>2, ReachKept DEF MarkedReachable
<1>6. RecursionMeans'
  <2>1. FramesDefined'
    BY <1>1, <1>2 DEF RecursionMeans, FramesDefined
  <2>2. PICK m \in Nat : /\ m = Len(calls) /\ m = Len(calls') /\ calls' = calls
                        /\ DOMAIN calls = 1 .. m /\ (calls # <<>> <=> m > 0)
    <3>1. calls \in Seq(Frame)
      BY <1>2 DEF IInv, TypeOK, EngineTypeOK
    <3> QED BY <1>1, <3>1
  <2>3. ASSUME NEW n \in 1 .. m
        PROVE  /\ calls[n].stage = "high" => Denotes(calls[n].low, calls[n].op, Cofactors0(calls[n].args))'
               /\ \A x : /\ Awaited(calls[n], x)' = Awaited(calls[n], x)
                         /\ Applied(calls[n].op, calls[n].args, x)' = Applied(calls[n].op, calls[n].args, x)
    BY <1>2, <1>3, <2>2, FrameStays
  <2>4. ASSUME NEW n \in 1 .. m - 1, NEW x \in Assignment
        PROVE  Applied(calls[n + 1].op, calls[n + 1].args, x)' = Awaited(calls[n], x)'
    <3>1. n \in 1 .. m /\ n + 1 \in 1 .. m
      OBVIOUS
    <3>2. Applied(calls[n + 1].op, calls[n + 1].args, x) = Awaited(calls[n], x)
      BY <1>2, <2>2 DEF RecursionMeans, CallsMean
    <3> QED BY <2>3, <3>1, <3>2
  <2>5. ASSUME m > 0, ret # NoId, NEW x \in Assignment
        PROVE  Value(ret, x)' = Awaited(calls[m], x)
    <3>1. PICK id : id = ret /\ id = ret' /\ id \in Alloc /\ id \in Alloc'
      BY <1>1, <1>2, <2>5 DEF IInv, EngineInv, RetInv, Alloc, Slots
    <3>2. Value(id, x) = Awaited(calls[m], x)
      BY <1>2, <2>2, <2>5, <3>1 DEF RecursionMeans, CallsMean, Top
    <3>3. Value(ret, x)' = Value(id, x)' /\ Value(id, x)' = Value(id, x)
      BY <3>1 DEF Same, Value
    <3> QED BY <3>2, <3>3
  <2>6. CallsMean'
    <3>1. ASSUME calls' # <<>>, ret' # NoId, NEW x \in Assignment
          PROVE  Value(ret, x)' = Awaited(Top, x)'
      <4>1. m \in 1 .. m
        BY <2>2, <3>1
      <4>2. PICK c : c = calls[m] /\ c = Top'
        BY <2>2 DEF Top
      <4>3. Awaited(c, x)' = Awaited(Top, x)'
        BY <4>2
      <4>4. Awaited(c, x)' = Awaited(calls[m], x)' /\ Awaited(calls[m], x)' = Awaited(calls[m], x)
        BY <2>2, <2>3, <4>1, <4>2
      <4> QED BY <1>1, <2>2, <2>5, <3>1, <4>1, <4>3, <4>4
    <3> QED BY <2>2, <2>3, <2>4, <3>1 DEF CallsMean
  <2> QED BY <2>1, <2>6 DEF RecursionMeans
<1> QED BY <1>3, <1>4, <1>5, <1>6 DEF MeansNext

(* MeaningInv is inductive.                                                *)
LEMMA MeaningInductive ==
  ASSUME MeaningInv, [Next]_allvars
  PROVE  MeaningInv'
<1>1. IInv /\ IInv' /\ Same
  BY StepsKeepValues DEF MeaningInv
<1>2. CASE ClientCall
  <2>1. CASE \/ \E h, g \in Handle : CloneHandle(h, g)
             \/ \E h \in Handle : DropHandle(h)
             \/ \E v \in Var, h \in Handle : DefVarNew(v, h) \/ DefVarKnown(v, h)
             \/ \E h, low, high \in Handle : GetChildren(h, low, high)
    <3>1. pc = "idle" /\ pc' = "idle"
      BY <2>1 DEF CloneHandle, DropHandle, DefVarNew, DefVarKnown, GetChildren, Ready
    <3> QED BY <1>1, <2>1, <3>1, HandleCallsMean, MeaningPartsNext DEF MeansNext
  <2>2. CASE \/ \E t \in Terminals : Constant(t)
             \/ \E l \in 0 .. Len(headers) - 1, lo, hi \in Held : PublicCreateNode(l, lo, hi)
             \/ \E op \in Called : \E args \in ArgTuples(op) : Invoke(op, args)
             \/ \E op \in Called \cap {"and", "or"}, list \in Lists : InvokeList(op, list)
    <3>1. CanBuild
      BY <2>2 DEF Constant, PublicCreateNode, Invoke, InvokeList
    <3> QED BY <1>1, <2>2, <3>1, BuildingCallsMean, MeaningPartsNext DEF MeansNext
  <2>3. CASE (\E t \in Threshold : SetGcThreshold(t)) \/ ClearCache \/ RpnStart
    BY <1>1, <2>3, OtherStepsMean, MeaningPartsNext DEF MeansNext
  <2>4. CASE \E keep \in SUBSET Held : ExplicitGc(keep)
    BY <1>1, <2>4, CollectionMeans, MeaningPartsNext DEF MeansNext
  <2> QED BY <1>2, <2>1, <2>2, <2>3, <2>4 DEF ClientCall
<1>3. CASE RpnToken
  BY <1>1, <1>3, RpnTokenMeans, MeaningPartsNext DEF MeansNext
<1>4. CASE Progress
  <2>1. CASE Apply
    BY <1>1, <2>1, ApplyKeepsMeaning, MeaningPartsNext DEF MeansNext
  <2>2. CASE FoldNext
    BY <1>1, <2>2, FoldNextMeans, MeaningPartsNext DEF MeansNext
  <2>3. CASE \E h \in Handle : Finish(h)
    BY <1>1, <2>3, FinishMeans, MeaningPartsNext DEF MeansNext
  <2>4. CASE MarkStep \/ SweepStep
    BY <1>1, <2>4, CollectionMeans, MeaningPartsNext DEF MeansNext
  <2>5. CASE RpnResult \/ RpnAbort \/ RpnEnd
    BY <1>1, <2>5, RpnEndsMean, MeaningPartsNext DEF MeansNext
  <2> QED BY <1>4, <2>1, <2>2, <2>3, <2>4, <2>5 DEF Progress
<1>5. CASE UNCHANGED allvars
  BY <1>1, <1>5, StutterKeepsMeaning, MeaningPartsNext DEF MeansNext
<1> QED BY <1>2, <1>3, <1>4, <1>5 DEF Next
----------------------------------------------------------------------------
(* What the diagrams mean is right in every reachable state: the inductive *)
(* invariant for every number of variables, handles, names and calls.      *)
THEOREM MeaningInvariance == Spec => []MeaningInv
<1>1. MeaningInv /\ [Next]_allvars => MeaningInv'
  BY MeaningInductive
<1> QED BY <1>1, MeaningInit, PTL DEF Spec

(* An entry of the computed table is the result of the operation it is     *)
(* keyed on, whatever was collected and whichever slots were reused since  *)
(* it was put there.                                                       *)
THEOREM TableIsSound == Spec => []CacheSound
<1>1. MeaningInv => CacheSound
  BY DEF MeaningInv
<1> QED BY <1>1, MeaningInvariance, PTL

(* BddNode::eq decides equality of functions: ids are compared, and one    *)
(* function has one id at a time.                                          *)
THEOREM EqualityIsExact == Spec => []EqIsFunctionEquality
<1>1. MeaningInv => EqIsFunctionEquality
  <2> SUFFICES ASSUME MeaningInv, NEW i \in Held, NEW j \in Held, FunctionOf(i) = FunctionOf(j)
               PROVE  i = j
    BY DEF EqIsFunctionEquality
  <2>1. IInv /\ Sound /\ HoldingsMean /\ OneLevelEach
    BY MeaningParts, SoundNow DEF ForestMeans, HeadersDistinct, OneLevelEach
  <2>2. i \in Good /\ j \in Good
    BY <2>1, HoldingsGood
  <2>3. ASSUME NEW x \in Assignment
        PROVE  Value(i, x) = Value(j, x)
    <3>1. Value(i, x) \in {Zero, One} /\ Value(j, x) \in {Zero, One}
      BY <2>1, <2>2, GoodValues
    <3>2. FunctionOf(i)[x] = (Value(i, x) = One) /\ FunctionOf(j)[x] = (Value(j, x) = One)
      BY DEF FunctionOf
    <3>3. Value(i, x) = One <=> Value(j, x) = One
      BY <3>2
    <3> QED BY <3>1, <3>3
  <2>4. SameFunction(i, j)
    BY <2>3 DEF SameFunction
  <2> QED BY <2>1, <2>2, <2>4, Canonicity DEF Sound, Good
<1> QED BY <1>1, MeaningInvariance, PTL

(* When the worklist is empty, the marked slots are those that a handle    *)
(* reaches: the sweep that follows keeps exactly them.                     *)
LEMMA SweepIsExact ==
  ASSUME MeaningInv, SweepStep
  PROVE  (Slots \ free)' = Reachable(DOMAIN roots)
<1>1. /\ IInv /\ TraceInv /\ MarkedReachable /\ marked \subseteq Slots
  BY DEF MeaningInv, IInv, TypeOK
<1>2. grey = {} /\ nodes' = nodes /\ free' = Slots \ marked /\ pc \in {"autogc", "gc"}
  BY DEF SweepStep, Sweep
<1>3. (Slots \ free)' = marked
  BY <1>1, <1>2 DEF Slots
<1>4. marked \in SUBSET Alloc /\ Terminals \cup DOMAIN roots \subseteq marked /\ Kids(marked) \subseteq marked
  BY <1>1, <1>2 DEF TraceInv
<1>5. Reachable(DOMAIN roots) \subseteq marked
  BY <1>1, <1>4, RootsReachNow DEF RootsReach
<1>6. marked \subseteq Reachable(DOMAIN roots)
  BY <1>1 DEF MarkedReachable
<1> QED BY <1>3, <1>5, <1>6

(* A collection keeps exactly what a handle reaches: it reclaims no node   *)
(* in use and leaks none.                                                  *)
THEOREM CollectionsAreExact == Spec => GcExact
<1>1. MeaningInv /\ [Next]_allvars => [SweepStep => (Slots \ free)' = Reachable(DOMAIN roots)]_allvars
  BY SweepIsExact
<1> QED BY <1>1, MeaningInvariance, PTL DEF Spec, GcExact
=============================================================================
