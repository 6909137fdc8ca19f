------------------------------- MODULE BddMgr -------------------------------
(***************************************************************************)
(* bss::bdd::BddMgr and its BddNode handles over the arena and the apply   *)
(* engine.                                                                 *)
(*                                                                         *)
(* A BddNode is a node id that is pinned while the handle is alive: GcState*)
(* counts the handles of every id, and its keys are the roots of a         *)
(* collection.  A call that wraps its result pins it first and then runs   *)
(* maybe_gc.  Everything else the library holds is a raw, unpinned id: the *)
(* frames of a running apply, the list still to be folded by and(list),    *)
(* the stack and the saved nodes of a running rpn.  Their safety rests on  *)
(* no collection happening while they are in use.                          *)
(*                                                                         *)
(* A manager is single-threaded (Rc/RefCell), so one call runs at a time;  *)
(* its internal steps are modelled one by one.                             *)
(***************************************************************************)
EXTENDS BddApply, BagsExt

CONSTANTS
  Handle,       \* the BddNode handles a client can hold at the same time
  Name,         \* identifiers of save(id) and load(id)
  Threshold,    \* arguments of set_gc_threshold; one of them is GC_FLOOR
  GcFloor,      \* GC_FLOOR
  Called,       \* bound: operations called in this instance (all: Ops)
  MaxList,      \* bound: longest list given to and(list), or(list)
  MaxCalls,     \* bound: calls, other than rpn, that may build nodes
  MaxTokens     \* bound: tokens read by all rpn calls together

ASSUME ConstantsAssumption ==
  /\ IsFiniteSet(Var) /\ IsFiniteSet(Handle)
  /\ Threshold \subseteq Nat /\ GcFloor \in Threshold
  /\ Called \subseteq Ops
  /\ MaxList \in Nat /\ MaxCalls \in Nat /\ MaxTokens \in Nat

VARIABLES
  pc,          \* what the manager is doing
  vars,        \* BddMgr.vars: the manager's own handle of every variable
  handle,      \* the client's handles
  roots,       \* GcState.roots: node id -> number of handles
  threshold,   \* GcState.threshold
  floor,       \* GcState.floor
  todo,        \* and(list), or(list): operations still to be folded in
  rpn,         \* the running rpn: its stack and the nodes it has saved
  used         \* calls and tokens used so far, against the bounds

Pcs == {"idle", "op", "rpn", "rpnop", "unwinding", "autogc", "gc"}

NoRpn == [stack |-> <<>>, saved |-> [n \in Name |-> NoId]]

gcstate == <<roots, threshold, floor>>
engine == <<calls, ret>>
mgr == <<vars, handle, gcstate, todo, rpn>>
allvars == <<arena, cache, tracing, engine, pc, mgr, used>>

Init ==
  /\ ForestInit
  /\ calls = <<>>
  /\ ret = NoId
  /\ pc = "idle"
  /\ vars = [v \in Var |-> NoId]
  /\ handle = [h \in Handle |-> NoId]
  /\ roots = [i \in {} |-> 0]
  /\ threshold = GcFloor
  /\ floor = GcFloor
  /\ todo = <<>>
  /\ rpn = NoRpn
  /\ used = [calls |-> 0, tokens |-> 0]

----------------------------------------------------------------------------
(* Pinning: BddNode::from_weak, Clone and Drop.                            *)

(* The root table is a bag of ids.                                         *)
Count(r, i) == IF i \in DOMAIN r THEN r[i] ELSE 0
Pin(r, i) == BagAdd(r, i)

(* Mutant: dropping one handle forgets the node's other handles.           *)
UnpinAll(r, i) == BagRemoveAll(r, i)

Unpin(r, i) == BagRemove(r, i)

Held == {handle[h] : h \in Handle} \ {NoId}
Unused == {h \in Handle : handle[h] = NoId}

Hold(h, i) == handle' = [handle EXCEPT ![h] = i]

(* A client call starts when no other call runs and there is a handle for  *)
(* its result.                                                             *)
Ready == pc = "idle" /\ Unused # {}
CanBuild == Ready /\ used.calls < MaxCalls
CountCall == used' = [used EXCEPT !.calls = @ + 1]

----------------------------------------------------------------------------
(* Calls that pin their result but never collect.                          *)

(* Clone.                                                                  *)
CloneHandle(h, g) ==
  /\ Ready
  /\ handle[h] # NoId /\ g \in Unused
  /\ Hold(g, handle[h])
  /\ roots' = Pin(roots, handle[h])
  /\ UNCHANGED <<arena, cache, tracing, engine, pc, vars, threshold, floor, todo, rpn, used>>

DropHandle(h) ==
  /\ pc = "idle"
  /\ handle[h] # NoId
  /\ Hold(h, NoId)
  /\ roots' = Unpin(roots, handle[h])
  /\ UNCHANGED <<arena, cache, tracing, engine, pc, vars, threshold, floor, todo, rpn, used>>

(* A new variable gets the next level and a handle of the manager's own.   *)
DeclareVar(v) ==
  LET l == Len(headers)
      id == NodeFor(l, Zero, One)
  IN /\ vars[v] = NoId
     /\ headers' = Append(headers, v)
     /\ CreateNode(l, Zero, One)
     /\ vars' = [vars EXCEPT ![v] = id]

DefVarNew(v, h) ==
  /\ Ready /\ h \in Unused
  /\ DeclareVar(v)
  /\ Hold(h, vars'[v])
  /\ roots' = Pin(Pin(roots, vars'[v]), vars'[v])
  /\ UNCHANGED <<cache, tracing, engine, pc, threshold, floor, todo, rpn, used>>

DefVarKnown(v, h) ==
  /\ Ready /\ h \in Unused
  /\ vars[v] # NoId
  /\ Hold(h, vars[v])
  /\ roots' = Pin(roots, vars[v])
  /\ UNCHANGED <<arena, cache, tracing, engine, pc, vars, threshold, floor, todo, rpn, used>>

GetChildren(h, low, high) ==
  /\ Ready
  /\ handle[h] \notin Terminals \cup {NoId}
  /\ {low, high} \subseteq Unused /\ low # high
  /\ handle' = [handle EXCEPT ![low] = Low(handle[h]), ![high] = High(handle[h])]
  /\ roots' = Pin(Pin(roots, Low(handle[h])), High(handle[h]))
  /\ UNCHANGED <<arena, cache, tracing, engine, pc, vars, threshold, floor, todo, rpn, used>>

SetGcThreshold(t) ==
  /\ pc = "idle"
  /\ threshold' = t
  /\ floor' = t
  /\ UNCHANGED <<arena, cache, tracing, engine, pc, vars, handle, roots, todo, rpn, used>>

ClearCache ==
  /\ pc = "idle"
  /\ cache' = [k \in {} |-> NoId]
  /\ UNCHANGED <<arena, tracing, engine, pc, mgr, used>>

----------------------------------------------------------------------------
(* Calls that wrap their result: they leave it in `ret`, and Finish pins   *)
(* it and runs maybe_gc.                                                   *)

Constant(t) ==
  /\ CanBuild /\ CountCall
  /\ t \in {Zero, One}
  /\ ret' = t
  /\ pc' = "op"
  /\ UNCHANGED <<arena, cache, tracing, calls, mgr>>

(* create_node(h, x0, x1).  The header must be above both children: that   *)
(* is the caller's part of the contract, the code does not check it.       *)
PublicCreateNode(l, lo, hi) ==
  /\ CanBuild /\ CountCall
  /\ Level(lo) < l /\ Level(hi) < l
  /\ CreateNode(l, lo, hi)
  /\ ret' = NodeFor(l, lo, hi)
  /\ pc' = "op"
  /\ UNCHANGED <<headers, cache, tracing, calls, mgr>>

ArgTuples(op) ==
  CASE op = "not" -> {<<f, Zero, Zero>> : f \in Held}
    [] op = "ite" -> Held \X Held \X Held
    [] OTHER -> {<<f, g, Zero>> : f \in Held, g \in Held}

(* not, and, or, xor and ite of handles.                                   *)
Invoke(op, args) ==
  /\ CanBuild /\ CountCall
  /\ calls' = <<Call(op, args)>>
  /\ pc' = "op"
  /\ UNCHANGED <<arena, cache, tracing, ret, mgr>>

(* and(list) and or(list) fold the list, starting from the unit.           *)
Lists == UNION {[1 .. n -> Held] : n \in 0 .. MaxList}

InvokeList(op, list) ==
  /\ CanBuild /\ CountCall
  /\ ret' = IF op = "and" THEN One ELSE Zero
  /\ todo' = [k \in DOMAIN list |-> [op |-> op, arg |-> list[k]]]
  /\ pc' = "op"
  /\ UNCHANGED <<arena, cache, tracing, calls, vars, handle, gcstate, rpn>>

FoldNext ==
  /\ pc = "op" /\ calls = <<>> /\ ret # NoId
  /\ todo # <<>>
  /\ calls' = <<Call(Head(todo).op, <<ret, Head(todo).arg, Zero>>)>>
  /\ ret' = NoId
  /\ todo' = Tail(todo)
  /\ UNCHANGED <<arena, cache, tracing, pc, vars, handle, gcstate, rpn, used>>

(* One step of the running apply.                                          *)
Apply ==
  /\ pc \in {"op", "rpnop"}
  /\ ApplyStep
  /\ UNCHANGED <<tracing, pc, mgr, used>>

(* Mutant: the collection starts before the result is pinned.              *)
FinishTooLate(h) ==
  /\ pc = "op" /\ calls = <<>> /\ ret # NoId /\ todo = <<>>
  /\ h \in Unused
  /\ Hold(h, ret)
  /\ roots' = Pin(roots, ret)
  /\ ret' = NoId
  /\ IF LiveNodeCount < threshold
       THEN pc' = "idle" /\ UNCHANGED tracing
       ELSE pc' = "autogc" /\ StartMark(DOMAIN roots)
  /\ UNCHANGED <<arena, cache, calls, vars, threshold, floor, todo, rpn, used>>

(* wrap and rewrap: pin the result, then maybe_gc.                         *)
Finish(h) ==
  /\ pc = "op" /\ calls = <<>> /\ ret # NoId /\ todo = <<>>
  /\ h \in Unused
  /\ Hold(h, ret)
  /\ roots' = Pin(roots, ret)
  /\ ret' = NoId
  /\ IF LiveNodeCount < threshold
       THEN pc' = "idle" /\ UNCHANGED tracing
       ELSE pc' = "autogc" /\ StartMark(DOMAIN roots')
  /\ UNCHANGED <<arena, cache, calls, vars, threshold, floor, todo, rpn, used>>

----------------------------------------------------------------------------
(* Collections.                                                            *)

(* BddMgr::gc(keep): every pinned node is a root already.                  *)
ExplicitGc(keep) ==
  /\ pc = "idle"
  /\ StartMark(DOMAIN roots \cup keep)
  /\ pc' = "gc"
  /\ UNCHANGED <<arena, cache, engine, mgr, used>>

MarkStep ==
  /\ pc \in {"autogc", "gc"}
  /\ Mark
  /\ UNCHANGED <<arena, cache, engine, pc, mgr, used>>

(* The automatic collection re-arms its threshold, the explicit one not.   *)
SweepStep ==
  /\ pc \in {"autogc", "gc"}
  /\ Sweep
  /\ threshold' = IF pc = "autogc" THEN Higher(2 * Cardinality(marked), floor)
                  ELSE threshold
  /\ pc' = "idle"
  /\ UNCHANGED <<engine, vars, handle, roots, floor, todo, rpn, used>>

----------------------------------------------------------------------------
(* rpn(expr): one action per token.  Its stack holds raw ids.              *)

RpnStart ==
  /\ Ready
  /\ used.tokens < MaxTokens
  /\ pc' = "rpn"
  /\ UNCHANGED <<arena, cache, tracing, engine, mgr, used>>

Reading == pc = "rpn" /\ used.tokens < MaxTokens
CountToken == used' = [used EXCEPT !.tokens = @ + 1]

Depth == Len(rpn.stack)
Arity(op) == IF op = "not" THEN 1 ELSE IF op = "ite" THEN 3 ELSE 2
Push(i) == rpn' = [rpn EXCEPT !.stack = Append(@, i)]

RpnConstant(t) ==
  /\ Reading /\ CountToken
  /\ t \in {Zero, One}
  /\ Push(t)
  /\ UNCHANGED <<arena, cache, tracing, engine, pc, vars, handle, gcstate, todo>>

(* Mutant: a new variable is not pinned for the manager.                   *)
RpnNewVariableUnpinned(v) ==
  /\ Reading /\ CountToken
  /\ DeclareVar(v)
  /\ Push(vars'[v])
  /\ UNCHANGED <<cache, tracing, engine, pc, handle, gcstate, todo>>

(* A variable token declares the variable on first use.  The handle defvar *)
(* returns is dropped at the end of the token; only its id is kept.        *)
RpnNewVariable(v) ==
  /\ Reading /\ CountToken
  /\ DeclareVar(v)
  /\ roots' = Pin(roots, vars'[v])
  /\ Push(vars'[v])
  /\ UNCHANGED <<cache, tracing, engine, pc, handle, threshold, floor, todo>>

RpnKnownVariable(v) ==
  /\ Reading /\ CountToken
  /\ vars[v] # NoId
  /\ Push(vars[v])
  /\ UNCHANGED <<arena, cache, tracing, engine, pc, vars, handle, gcstate, todo>>

OperatorArgs(op) ==
  CASE op = "not" -> <<rpn.stack[Depth], Zero, Zero>>
    [] op = "ite" -> <<rpn.stack[Depth - 2], rpn.stack[Depth - 1], rpn.stack[Depth]>>
    [] OTHER -> <<rpn.stack[Depth - 1], rpn.stack[Depth], Zero>>

RpnOperator(op) ==
  /\ Reading /\ CountToken
  /\ Depth >= Arity(op)
  /\ rpn' = [rpn EXCEPT !.stack = SubSeq(rpn.stack, 1, Depth - Arity(op))]
  /\ calls' = <<Call(op, OperatorArgs(op))>>
  /\ pc' = "rpnop"
  /\ UNCHANGED <<arena, cache, tracing, ret, vars, handle, gcstate, todo>>

(* Mutant: a token's operator ends like a call, with a collection.         *)
RpnResultCollects ==
  /\ pc = "rpnop" /\ calls = <<>> /\ ret # NoId
  /\ Push(ret)
  /\ ret' = NoId
  /\ pc' = "gc"
  /\ StartMark(DOMAIN roots)
  /\ UNCHANGED <<arena, cache, calls, vars, handle, gcstate, todo, used>>

(* The operator's result goes back on the stack.                           *)
RpnResult ==
  /\ pc = "rpnop" /\ calls = <<>> /\ ret # NoId
  /\ Push(ret)
  /\ ret' = NoId
  /\ pc' = "rpn"
  /\ UNCHANGED <<arena, cache, tracing, calls, vars, handle, gcstate, todo, used>>

(* An operator pops an empty stack: unwrap panics.                         *)
RpnUnderflow(op) ==
  /\ Reading /\ CountToken
  /\ Depth < Arity(op)
  /\ pc' = "unwinding"
  /\ UNCHANGED <<arena, cache, tracing, engine, mgr>>

RpnSave(n) ==
  /\ Reading /\ CountToken
  /\ rpn.stack # <<>>
  /\ rpn' = [rpn EXCEPT !.saved[n] = rpn.stack[Depth]]
  /\ UNCHANGED <<arena, cache, tracing, engine, pc, vars, handle, gcstate, todo>>

RpnLoad(n) ==
  /\ Reading /\ CountToken
  /\ rpn.saved[n] # NoId
  /\ Push(rpn.saved[n])
  /\ UNCHANGED <<arena, cache, tracing, engine, pc, vars, handle, gcstate, todo>>

(* The call ends without a handle: Err for save(id) on an empty stack,     *)
(* load(id) of nothing saved, an expression that leaves other than one     *)
(* node; or the panic reaches the caller.                                  *)
RpnAbort ==
  /\ \/ pc = "rpn" /\ (Depth # 1 \/ \E n \in Name : rpn.saved[n] = NoId)
     \/ pc = "unwinding"
  /\ pc' = "idle"
  /\ rpn' = NoRpn
  /\ UNCHANGED <<arena, cache, tracing, engine, vars, handle, gcstate, todo, used>>

(* The expression ends with exactly one node, which is wrapped.            *)
RpnEnd ==
  /\ pc = "rpn" /\ Depth = 1
  /\ ret' = rpn.stack[1]
  /\ rpn' = NoRpn
  /\ pc' = "op"
  /\ UNCHANGED <<arena, cache, tracing, calls, vars, handle, gcstate, todo, used>>

----------------------------------------------------------------------------
ClientCall ==
  \/ \E h, g \in Handle : CloneHandle(h, g)
  \/ \E h \in Handle : DropHandle(h)
  \/ \E v \in Var, h \in Handle : DefVarNew(v, h) \/ DefVarKnown(v, h)
  \/ \E h, low, high \in Handle : GetChildren(h, low, high)
  \/ \E t \in Threshold : SetGcThreshold(t)
  \/ ClearCache
  \/ \E t \in Terminals : Constant(t)
  \/ \E l \in 0 .. Len(headers) - 1, lo, hi \in Held : PublicCreateNode(l, lo, hi)
  \/ \E op \in Called : \E args \in ArgTuples(op) : Invoke(op, args)
  \/ \E op \in Called \cap {"and", "or"}, list \in Lists : InvokeList(op, list)
  \/ \E keep \in SUBSET Held : ExplicitGc(keep)
  \/ RpnStart

RpnToken ==
  \/ \E t \in Terminals : RpnConstant(t)
  \/ \E v \in Var : RpnNewVariable(v) \/ RpnKnownVariable(v)
  \/ \E op \in Called : RpnOperator(op) \/ RpnUnderflow(op)
  \/ \E n \in Name : RpnSave(n) \/ RpnLoad(n)

(* What the running call does on its own.                                  *)
Progress ==
  \/ Apply \/ FoldNext
  \/ \E h \in Handle : Finish(h)
  \/ MarkStep \/ SweepStep
  \/ RpnResult \/ RpnAbort \/ RpnEnd

Next == ClientCall \/ RpnToken \/ Progress

Spec == Init /\ [][Next]_allvars

(* A call that was made runs to its end: the manager is single-threaded    *)
(* and nothing in it waits.  No client is obliged to call.                 *)
FairSpec == Spec /\ WF_allvars(Progress)
=============================================================================
