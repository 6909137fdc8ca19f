----------------------------- MODULE MxdAlgebra -----------------------------
(***************************************************************************)
(* The operations of mxdcore on sets and relations in steps: whatever they *)
(* and the collections do to the forest is a sequence of these.            *)
(*                                                                         *)
(* A recursive call is the step that ends it; what it returned stands in   *)
(* `known`, and the call it was made for reads it there.  Call of MxdOps   *)
(* takes exactly these steps, in the order of the recursion.  A call knows *)
(* the level it is made at, NoId for an operation on sets.                 *)
(***************************************************************************)
EXTENDS MxdMeaning

VARIABLE known      \* what calls returned: <<operation, operands, level, result>>

algebra == <<forest, marked, grey, known>>

AlgebraInit == EngineInit /\ known = {}

Images == {"post_image", "pre_image"}
Algebra == SetOp \cup RelOp \cup {"boundary"}
LevelsOf(op) == IF op \in SetOp THEN {NoId} ELSE {-1} \cup Levels(forest)

----------------------------------------------------------------------------
(* The end of a call.                                                      *)

Returned(op, args, l, r) == <<op, args, l, r>> \in known
Return(op, args, l, r) == known' = known \cup {<<op, args, l, r>>}

(* r is a slot and the forest it lies in; the result is remembered.        *)
Finished(op, args, l, r) ==
  /\ Return(op, args, l, r[1])
  /\ forest' = IF op = "boundary" THEN r[2] ELSE Remember(r[2], Key(op, args, l), r[1])

(* Commutative operations put their operands in order.                     *)
Swap(op, args, l) ==
  /\ Sorted(op, args) # args
  /\ \E r \in Live(forest) : Returned(op, Sorted(op, args), l, r) /\ Return(op, args, l, r)
  /\ UNCHANGED forest

Settle(op, args, l) ==
  /\ Settled(op, args, l) # NoId
  /\ Return(op, args, l, Settled(op, args, l))
  /\ UNCHANGED forest

(* The complement of the empty relation is the full one.                   *)
Fill(op, args, l) ==
  /\ op = "not_rel" /\ args[1] = Zero
  /\ l \in DOMAIN forest.full
  /\ Return(op, args, l, forest.full[l])
  /\ UNCHANGED forest

(* The table was asked when the call began, before the calls it made.      *)
Hit(op, args, l) ==
  /\ op # "boundary"
  /\ Key(op, args, l) \in DOMAIN forest.memo
  /\ Return(op, args, l, forest.memo[Key(op, args, l)])
  /\ UNCHANGED forest

(* An operation on sets, at the top level of its operands.                 *)
ExpandSet(op, args) ==
  LET top == TopOf(forest, args)
  IN \E children \in [States(forest, top) -> Live(forest)] :
       /\ \A s \in States(forest, top) :
            Returned(op, Operands(forest, op, args, top, s), NoId, children[s])
       /\ Finished(op, args, NoId, SetNode(forest, top, children))

ExpandRel(op, args, l) ==
  \E block \in [Cells(forest, l) -> Live(forest)] :
    /\ \A c \in Cells(forest, l) :
         Returned(op, Operands(forest, op, args, l, c), l - 1, block[c])
    /\ Finished(op, args, l, RelNode(forest, l, block))

(* into[<<b, s>>] is the union of the images of the states below s into b; *)
(* a state that the code skips, its cell or its set being Zero, adds Zero. *)
Gathers(op, args, l, into) ==
  \A b, s \in States(forest, l) : \E r \in Live(forest) :
    /\ Returned(op, ImageOperands(forest, op, args, l, b, s), l - 1, r)
    /\ Returned("or_set", <<into[<<b, s>>], r>>, NoId, into[<<b, s + 1>>])

ExpandImage(op, args, l) ==
  LET n == forest.domains[l + 1]
  IN \E into \in [States(forest, l) \X (0 .. n) -> Live(forest)] :
       /\ \A b \in States(forest, l) : into[<<b, 0>>] = Zero
       /\ Gathers(op, args, l, into)
       /\ Finished(op, args, l, SetNode(forest, l, [b \in States(forest, l) |-> into[<<b, n>>]]))

Expand(op, args, l) ==
  /\ Settled(op, args, l) = NoId
  /\ ~ (op = "not_rel" /\ args[1] = Zero)
  /\ \/ op \in SetOp /\ ExpandSet(op, args)
     \/ op \in Images /\ ExpandImage(op, args, l)
     \/ op \notin SetOp \cup Images /\ ExpandRel(op, args, l)

(* A call on slots in use, of the kinds the operation takes and no higher  *)
(* than the level it is made at.                                           *)
Fitting(a, op, args, n) == \A k \in DOMAIN args : Fits(a, args[k], Takes(op)[k], n)

Call(op, args, l) ==
  /\ Fitting(forest, op, args, Depth(forest, op, l))
  /\ \/ Swap(op, args, l)
     \/ /\ Sorted(op, args) = args
        /\ Settle(op, args, l) \/ Fill(op, args, l) \/ Hit(op, args, l) \/ Expand(op, args, l)

----------------------------------------------------------------------------
(* Everything else that builds, and the collection.                        *)

Build ==
  /\ UNCHANGED known
  /\ \/ \E n \in Domain : Declare(n)
     \/ \E l \in Levels(forest) :
          \/ \E children \in [States(forest, l) -> Usable("set", l)] : CreateSetNode(l, children)
          \/ \E block \in [Cells(forest, l) -> Usable("rel", l)] : CreateRelNode(l, block)
          \/ FullRelation(l)
     \/ forest' = ClearCache(forest)

Work ==
  /\ Idle /\ UNCHANGED tracing
  /\ \/ \E op \in Algebra : \E args \in [DOMAIN Takes(op) -> Live(forest)] :
          \E l \in LevelsOf(op) : Call(op, args, l)
     \/ Build

(* What is known of a slot that is given away is forgotten.                *)
Collection ==
  \/ \E roots \in SUBSET Live(forest) : StartMark(forest, roots) /\ UNCHANGED <<forest, known>>
  \/ Mark /\ UNCHANGED known
  \/ /\ Sweep
     /\ known' = {q \in known : q[4] \in marked /\ Among(q[2]) \subseteq marked}

AlgebraNext == Work \/ Collection

AlgebraSpec == AlgebraInit /\ [][AlgebraNext]_algebra

----------------------------------------------------------------------------
(* What a call returned answers it, at the level it was made at, as long as*)
(* the slots it names stay in use: whatever is declared, built, remembered,*)
(* collected and recycled.                                                 *)
KnownSound ==
  LET read == AllReadings(forest)
  IN \A q \in known :
       Answers(read, forest.domains, Depth(forest, q[1], q[3]), q[1], q[2], q[4])
=============================================================================
