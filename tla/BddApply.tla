------------------------------ MODULE BddApply ------------------------------
(***************************************************************************)
(* The recursive operations of bddcore::bdd_ops on the arena: not, and,    *)
(* or, xor and ite, with their computed table.                             *)
(*                                                                         *)
(* A recursive call is a frame of the call stack `calls`; `ret` is the     *)
(* value the call that just ended returned.  A call ends at once on a      *)
(* shortcut, on a hit in the computed table or in a terminal arm;          *)
(* otherwise it recurses on the two cofactors of its operands at their top *)
(* level, joins the two results with create_node and memoises the result.  *)
(*                                                                         *)
(* Operands are triples padded with Zero, as the code's cache keys are.    *)
(* The computed table is direct-mapped and overwrites on collision, so a   *)
(* lookup may miss an entry that was put: both outcomes are allowed.       *)
(***************************************************************************)
EXTENDS BddForest

VARIABLES
  calls,   \* call stack, innermost call last
  ret      \* id returned by the call that just ended, or NoId

Ops == {"not", "and", "or", "xor", "ite"}
Commutative == {"and", "or", "xor"}
Stages == {"enter", "low", "high", "negate"}

(* Commutative operations order their operands before the lookup.          *)
Operands(op, args) ==
  IF op \in Commutative /\ args[1] > args[2]
    THEN <<args[2], args[1], args[3]>> ELSE args

Call(op, args) ==
  [op |-> op, args |-> Operands(op, args), stage |-> "enter", low |-> NoId]

Top == calls[Len(calls)]
Key(c) == <<c.op, c.args[1], c.args[2], c.args[3]>>

----------------------------------------------------------------------------
(* Results that need neither the computed table nor a recursion.           *)
Shortcut(op, a) ==
  CASE op \in {"and", "or"} /\ a[1] = a[2] -> a[1]
    [] op = "xor" /\ a[1] = a[2] -> IF a[1] = Undet THEN Undet ELSE Zero
    [] op = "ite" /\ a[1] = One -> a[2]
    [] op = "ite" /\ a[1] = Zero -> a[3]
    [] op = "ite" /\ a[1] = Undet -> Undet
    [] op = "ite" /\ a[1] \notin Terminals /\ a[2] = a[3] -> a[2]
    [] OTHER -> NoId

(* The arms on a terminal operand, after the lookup missed.  The value is  *)
(* NoId when no arm applies and the call recurses.                         *)
NotArm(f) ==
  CASE f = Zero -> One [] f = One -> Zero [] f = Undet -> Undet [] OTHER -> NoId

(* and has unit One and zero Zero, or the other way round; the unit's arm  *)
(* comes first, Undet's last.                                              *)
LatticeArm(unit, f, g) ==
  LET absorbing == IF unit = One THEN Zero ELSE One
  IN CASE f = unit -> g
       [] g = unit -> f
       [] absorbing \in {f, g} -> absorbing
       [] Undet \in {f, g} /\ {unit, absorbing} \cap {f, g} = {} -> Undet
       [] OTHER -> NoId

XorArm(f, g) ==
  CASE f = Zero -> g [] g = Zero -> f
    [] One \notin {f, g} /\ Undet \in {f, g} -> Undet
    [] OTHER -> NoId

TerminalArm(op, a) ==
  CASE op = "not" -> NotArm(a[1])
    [] op = "and" -> LatticeArm(One, a[1], a[2])
    [] op = "or" -> LatticeArm(Zero, a[1], a[2])
    [] op = "xor" -> XorArm(a[1], a[2])
    [] OTHER -> NoId

(* xor with One is the negation of the other operand.                      *)
Negates(c) == c.op = "xor" /\ One \in {c.args[1], c.args[2]}
Negated(c) == IF c.args[1] = One THEN c.args[2] ELSE c.args[1]

Higher(l, m) == IF l >= m THEN l ELSE m
TopLevel(a) == Higher(Level(a[1]), Higher(Level(a[2]), Level(a[3])))

(* cofactor: an operand below the top level does not depend on it.         *)
Cofactor0(i, l) == IF Level(i) = l THEN Low(i) ELSE i
Cofactor1(i, l) == IF Level(i) = l THEN High(i) ELSE i
Cofactors0(a) == LET l == TopLevel(a)
                 IN <<Cofactor0(a[1], l), Cofactor0(a[2], l), Cofactor0(a[3], l)>>
Cofactors1(a) == LET l == TopLevel(a)
                 IN <<Cofactor1(a[1], l), Cofactor1(a[2], l), Cofactor1(a[3], l)>>

----------------------------------------------------------------------------
(* The steps of the recursion.                                             *)

Below == SubSeq(calls, 1, Len(calls) - 1)
Return(id) == calls' = Below /\ ret' = id
Recurse(c, callee) == calls' = Append(Append(Below, c), callee) /\ ret' = NoId

Entering == calls # <<>> /\ ret = NoId
Resuming(stage) == calls # <<>> /\ ret # NoId /\ Top.stage = stage
NeedsLookup == Entering /\ Shortcut(Top.op, Top.args) = NoId

EnterShortcut ==
  /\ Entering
  /\ Shortcut(Top.op, Top.args) # NoId
  /\ Return(Shortcut(Top.op, Top.args))
  /\ UNCHANGED <<arena, cache>>

EnterHit ==
  /\ NeedsLookup
  /\ Key(Top) \in DOMAIN cache
  /\ Return(cache[Key(Top)])
  /\ UNCHANGED <<arena, cache>>

EnterTerminal ==
  LET id == TerminalArm(Top.op, Top.args)
  IN /\ NeedsLookup
     /\ id # NoId
     /\ CachePut(Key(Top), id)
     /\ Return(id)
     /\ UNCHANGED arena

EnterNegate ==
  /\ NeedsLookup
  /\ TerminalArm(Top.op, Top.args) = NoId
  /\ Negates(Top)
  /\ Recurse([Top EXCEPT !.stage = "negate"], Call("not", <<Negated(Top), Zero, Zero>>))
  /\ UNCHANGED <<arena, cache>>

EnterSplit ==
  /\ NeedsLookup
  /\ TerminalArm(Top.op, Top.args) = NoId
  /\ ~ Negates(Top)
  /\ Recurse([Top EXCEPT !.stage = "low"], Call(Top.op, Cofactors0(Top.args)))
  /\ UNCHANGED <<arena, cache>>

ResumeLow ==
  /\ Resuming("low")
  /\ Recurse([Top EXCEPT !.stage = "high", !.low = ret],
             Call(Top.op, Cofactors1(Top.args)))
  /\ UNCHANGED <<arena, cache>>

ResumeHigh ==
  LET l == TopLevel(Top.args)
      id == NodeFor(l, Top.low, ret)
  IN /\ Resuming("high")
     /\ CreateNode(l, Top.low, ret)
     /\ CachePut(Key(Top), id)
     /\ Return(id)
     /\ UNCHANGED headers

ResumeNegate ==
  /\ Resuming("negate")
  /\ CachePut(Key(Top), ret)
  /\ Return(ret)
  /\ UNCHANGED arena

ApplyStep ==
  \/ EnterShortcut \/ EnterHit \/ EnterTerminal \/ EnterNegate \/ EnterSplit
  \/ ResumeLow \/ ResumeHigh \/ ResumeNegate

----------------------------------------------------------------------------
(* What holds between the steps of a recursion.                            *)

Frame == [op : Ops, args : Id \X Id \X Id, stage : Stages, low : IdOrNone]

EngineTypeOK ==
  /\ cache \in [DOMAIN cache -> Id] /\ DOMAIN cache \subseteq Ops \X Id \X Id \X Id
  /\ calls \in Seq(Frame) /\ ret \in IdOrNone

(* Memoised results designate allocated nodes, and never rise above their  *)
(* operands.                                                               *)
CacheInv ==
  \A k \in DOMAIN cache :
    /\ {k[2], k[3], k[4], cache[k]} \subseteq Alloc
    /\ Level(cache[k]) <= TopLevel(<<k[2], k[3], k[4]>>)

(* What an operation called or resumed from stage s at level l may return. *)
LevelFits(s, m, l) ==
  \/ s \in {"low", "high"} /\ m < l
  \/ s = "negate" /\ m <= l

FrameOK(c) ==
  /\ {c.args[1], c.args[2], c.args[3]} \subseteq Alloc
  /\ c.stage = "high" => c.low \in Alloc /\ Level(c.low) < TopLevel(c.args)
  /\ c.stage # "high" => c.low = NoId

(* d is the frame of the call that frame c waits for.                      *)
LinkOK(c, d) == LevelFits(c.stage, TopLevel(d.args), TopLevel(c.args))

FrameInv ==
  /\ \A n \in 1 .. Len(calls) : FrameOK(calls[n])
  /\ \A n \in 1 .. Len(calls) - 1 : LinkOK(calls[n], calls[n + 1])

RetInv ==
  /\ ret # NoId => ret \in Alloc
  /\ calls # <<>> /\ ret = NoId => Top.stage = "enter"
  /\ calls # <<>> /\ ret # NoId => LevelFits(Top.stage, Level(ret), TopLevel(Top.args))

EngineInv == CacheInv /\ FrameInv /\ RetInv
============================================================================
