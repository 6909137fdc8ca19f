------------------------------- MODULE MddMgr -------------------------------
(***************************************************************************)
(* mss::mdd: MddMgr and its MddNode handles over the composite forest.     *)
(*                                                                         *)
(* A handle pins a tagged node; the pinned nodes are the roots of a        *)
(* collection of both arenas.  rpn keeps raw tagged nodes on its stack and *)
(* in its table of saved nodes.                                            *)
(*                                                                         *)
(* A manager is single-threaded and collects only at the end of a call, so *)
(* a call is one step here.  An rpn that panics midway is one too: what it *)
(* built and declared before stays.                                        *)
(*                                                                         *)
(* A node that is held is kept with its meaning, which no guard reads.     *)
(***************************************************************************)
EXTENDS MddOutcomes, MtMdd2, BagsExt

CONSTANTS
  Constant,     \* the values of value(v)
  Expressions,  \* the expressions given to rpn, sequences of tokens
  Threshold,    \* arguments of set_gc_threshold; one of them is GC_FLOOR
  GcFloor,      \* GC_FLOOR
  Called,       \* bound: operations called in this instance
  MaxCalls      \* bound: calls that hand out a handle

ASSUME MddConstants ==
  /\ Constant \subseteq Int
  /\ Threshold \subseteq Nat /\ GcFloor \in Threshold
  /\ Called \subseteq Operation
  /\ MaxCalls \in Nat

VARIABLES
  held,        \* the client's handles: a bag of nodes and their meanings
  roots,       \* GcState.roots: tagged node -> number of handles
  threshold,   \* GcState.threshold
  floor,       \* GcState.floor
  vars,        \* MddMgr.vars: the manager's own handle of every variable
  used         \* calls used so far, against the bound

mgrvars == <<forest, order, held, roots, threshold, floor, vars, used>>

None == [node |-> <<>>]

Init ==
  /\ forest = NewForest
  /\ order = <<>>
  /\ held = <<>>
  /\ roots = <<>>
  /\ threshold = GcFloor /\ floor = GcFloor
  /\ vars = [x \in Label |-> None]
  /\ used = 0

----------------------------------------------------------------------------
Entry(node, fn) == [node |-> node, fn |-> fn]

CountCall == used < MaxCalls /\ used' = used + 1

(* from_weak: one more handle of a node, on top of the pinned nodes r.     *)
PinAlso(e, r) ==
  /\ held' = BagAdd(held, e)
  /\ roots' = BagAdd(r, e.node)

Pin(e) == PinAlso(e, roots)

(* wrap and rewrap: pin the result, then maybe_gc.                         *)
WrapAlso(e, st, r) ==
  /\ PinAlso(e, r)
  /\ IF LiveNodeCount(st) < threshold
       THEN forest' = st /\ UNCHANGED threshold
       ELSE /\ forest' = Collect(st, DOMAIN roots')
            /\ threshold' = Max({2 * LiveNodeCount(forest'), floor})
  /\ UNCHANGED floor

Wrap(e, st) == WrapAlso(e, st, roots)

----------------------------------------------------------------------------
(* Calls that do not build.                                                *)

CloneHandle(e) ==
  /\ CountCall
  /\ Pin(e)
  /\ UNCHANGED <<forest, order, threshold, floor, vars>>

DropHandle(e) ==
  /\ held' = BagRemove(held, e)
  /\ roots' = BagRemove(roots, e.node)
  /\ UNCHANGED <<forest, order, threshold, floor, vars, used>>

(* get_children; the client keeps the child of one state and drops the     *)
(* others, which never collects.                                           *)
GetChild(e, n) ==
  LET side == e.node[1]
      node == At(forest[side], e.node[2])
  IN /\ CountCall
     /\ IsInner(forest[side], e.node[2])
     /\ n \in DOMAIN node.edges
     /\ Pin(Entry(<<side, node.edges[n]>>, HeldAt(e.fn, order[node.level + 1], n - 1)))
     /\ UNCHANGED <<forest, order, threshold, floor, vars>>

SetGcThreshold(t) ==
  /\ threshold' = t /\ floor' = t
  /\ UNCHANGED <<forest, order, held, roots, vars, used>>

ClearCache ==
  /\ forest' = ClearCaches(forest)
  /\ UNCHANGED <<order, held, roots, threshold, floor, vars, used>>

(* gc(keep): every handle is a root already, keep adds nothing to them.    *)
ExplicitGc ==
  /\ forest' = Collect(forest, DOMAIN roots)
  /\ UNCHANGED <<order, held, roots, threshold, floor, vars, used>>

----------------------------------------------------------------------------
(* defvar: the values of the states, a header in both arenas, and a node   *)
(* that the manager pins; m is what of the manager's state it changes.     *)

Now == [forest |-> forest, order |-> order, vars |-> vars, roots |-> roots]

Interned(acc, v) == Collected(acc, ValueNode(acc[2], v))

Declared(m, x, made) ==
  [m EXCEPT !.forest.v = made[2],
            !.order = Append(@, x),
            !.vars[x] = Entry(Value(made[1]), StateOf(x)),
            !.roots = BagAdd(@, Value(made[1]))]

VariableNode(m, leaves) == MakeNode(leaves[2], Len(m.order), leaves[1])

Declare(m, x) ==
  IF m.vars[x] # None THEN m
  ELSE Declared(m, x, VariableNode(m,
         FoldLeft(Interned, <<<<>>, m.forest.v>>, [n \in 1 .. States[x] |-> n - 1])))

(* The client keeps the handle that defvar returns, or drops it at once.   *)
DefVarNew(x) ==
  LET m == Declare(Now, x)
  IN /\ vars[x] = None
     /\ forest' = m.forest /\ order' = m.order /\ vars' = m.vars /\ roots' = m.roots
     /\ UNCHANGED <<held, threshold, floor, used>>

DefVarKnown(x) ==
  /\ CountCall
  /\ vars[x] # None
  /\ Pin(vars[x])
  /\ UNCHANGED <<forest, order, threshold, floor, vars>>

----------------------------------------------------------------------------
(* Calls that build.                                                       *)

Boolean(b) ==
  /\ CountCall
  /\ Wrap(Entry(Bool(b), Always(b)), forest)
  /\ UNCHANGED <<order, vars>>

ValueCall(v) ==
  LET r == ValueNode(forest.v, v)
  IN /\ CountCall
     /\ Wrap(Entry(Value(r[1]), Always(v)), [forest EXCEPT !.v = r[2]])
     /\ UNCHANGED <<order, vars>>

(* undet_boolean tags the slot of the value arena's Undet as Boolean; the  *)
(* Boolean arena has Zero in that slot, and False is what it stands for.   *)
UndetBoolean ==
  /\ CountCall
  /\ Wrap(Entry(Bool(VUndet), Always(0)), forest)
  /\ UNCHANGED <<order, vars>>

UndetValue ==
  /\ CountCall
  /\ Wrap(Entry(Value(VUndet), Always(Undet)), forest)
  /\ UNCHANGED <<order, vars>>

(* create_node of one kind of children, all of them below the header: that *)
(* is the caller's part of the contract, the code does not check it.       *)
CreateNode(x, children) ==
  LET l == IndexFirstSubSeq(<<x>>, order) - 1
      side == children[1].node[1]
      ids == [n \in DOMAIN children |-> children[n].node[2]]
      made == MakeNode(forest[side], l, ids)
  IN /\ CountCall
     /\ vars[x] # None
     /\ \A n \in DOMAIN children :
          children[n].node[1] = side /\ Level(forest[side], ids[n]) < l
     /\ Wrap(Entry(<<side, made[1]>>, Branching(x, [n \in DOMAIN children |-> children[n].fn])),
             [forest EXCEPT ![side] = made[2]])
     /\ UNCHANGED <<order, vars>>

(* ite of branches of different kinds panics before anything is changed.   *)
Accepted(op, es) == op = "ite" => es[2].node[1] = es[3].node[1]

Result(op, es, st) ==
  LET sides == [k \in DOMAIN es |-> es[k].node[1]]
      fn == Meaning(op, sides, [k \in DOMAIN es |-> es[k].fn])
      entry(r) == [entry |-> Entry(r[1], fn), forest |-> r[2]]
  IN entry(Operate(st, op, [k \in DOMAIN es |-> es[k].node]))

WrapResult(r) == Wrap(r.entry, r.forest)

Invoke(op, es) ==
  /\ CountCall
  /\ Accepted(op, es)
  /\ WrapResult(Result(op, es, forest))
  /\ UNCHANGED <<order, vars>>

(* and, or start from the unit; min, max from the first element.           *)
FoldList(op, list) ==
  LET step(acc, e) == Result(op, <<acc.entry, e>>, acc.forest)
      first == CASE op = "and" -> Entry(Bool(One), Always(1))
                 [] op = "or" -> Entry(Bool(Zero), Always(0))
                 [] OTHER -> Head(list)
  IN FoldLeft(step, [entry |-> first, forest |-> forest],
              IF op \in Logic THEN list ELSE Tail(list))

InvokeList(op, list) ==
  /\ CountCall
  /\ WrapResult(FoldList(op, list))
  /\ UNCHANGED <<order, vars>>

----------------------------------------------------------------------------
(* rpn(expr).  A token is a pair of its kind and what it names; save and   *)
(* load use one id.  m also has the stack, the saved node, and whether the *)
(* evaluation goes on.                                                     *)

Push(m, e) == [m EXCEPT !.stack = Append(@, e)]
Stop(m) == [m EXCEPT !.running = FALSE]

(* One token, or an error or panic.  A defvar's own handle is dropped at   *)
(* the end of its token.                                                   *)
PushNumber(m, v, r) == Push([m EXCEPT !.forest.v = r[2]], Entry(Value(r[1]), Always(v)))
PushVariable(m, x) == Push(m, m.vars[x])
PushResult(m, n, r) ==
  Push([m EXCEPT !.stack = SubSeq(@, 1, Len(@) - n), !.forest = r.forest], r.entry)

RpnToken(m, token) ==
  LET what == token[2]
      depth == Len(m.stack)
      operands == SubSeq(m.stack, depth - Arity(what) + 1, depth)
  IN IF ~ m.running THEN m
     ELSE CASE token[1] = "bool" -> Push(m, Entry(Bool(what), Always(what)))
            [] token[1] = "int" -> PushNumber(m, what, ValueNode(m.forest.v, what))
            [] token[1] = "var" -> PushVariable(Declare(m, what), what)
            [] token[1] = "save" ->
                 IF depth = 0 THEN Stop(m) ELSE [m EXCEPT !.saved = <<Last(m.stack)>>]
            [] token[1] = "load" ->
                 IF m.saved = <<>> THEN Stop(m) ELSE Push(m, m.saved[1])
            [] token[1] = "op" ->
                 IF depth < Arity(what) \/ ~ Accepted(what, operands) THEN Stop(m)
                 ELSE PushResult(m, Arity(what), Result(what, operands, m.forest))

Evaluated(expr) ==
  FoldLeft(RpnToken, Now @@ [stack |-> <<>>, saved |-> <<>>, running |-> TRUE], expr)

(* Err or a panic gives no handle, but what was built and declared stays.  *)
RpnEnd(m) ==
  /\ IF m.running /\ Len(m.stack) = 1
       THEN WrapAlso(m.stack[1], m.forest, m.roots)
       ELSE /\ forest' = m.forest /\ roots' = m.roots
            /\ UNCHANGED <<held, threshold, floor>>
  /\ order' = m.order /\ vars' = m.vars

Rpn(expr) == CountCall /\ RpnEnd(Evaluated(expr))

----------------------------------------------------------------------------
(* A client has its handles, and defvar gives it one of a variable any time. *)
AtHand == DOMAIN held \cup {vars[x] : x \in {v \in Label : vars[v] # None}}

(* A call that hands out a new handle.                                     *)
HandOut ==
  \/ \E b \in {0, 1} : Boolean(b)
  \/ \E v \in Constant : ValueCall(v)
  \/ UndetBoolean \/ UndetValue
  \/ \E x \in Label : DefVarKnown(x)
  \/ \E x \in Label : \E children \in [1 .. States[x] -> AtHand] : CreateNode(x, children)
  \/ \E op \in Called : \E es \in [1 .. Arity(op) -> AtHand] : Invoke(op, es)
  \/ \E op \in Called \cap {"and", "or", "min", "max"} :
       \E list \in [1 .. 2 -> AtHand] : InvokeList(op, list)
  \/ \E e \in DOMAIN held : CloneHandle(e)
  \/ \E e \in AtHand : \E n \in UNION {1 .. States[x] : x \in Label} : GetChild(e, n)
  \/ \E expr \in Expressions : Rpn(expr)

Next ==
  \/ HandOut
  \/ \E e \in DOMAIN held : DropHandle(e)
  \/ \E x \in Label : DefVarNew(x)
  \/ \E t \in Threshold : SetGcThreshold(t)
  \/ ClearCache \/ ExplicitGc

Spec == Init /\ [][Next]_mgrvars

----------------------------------------------------------------------------
(* What the manager promises.                                              *)

HeldEntries ==
  DOMAIN held \cup {vars[x] : x \in {y \in Label : vars[y] # None}}

(* Whatever nodes were built, shared, collected and recycled since, every  *)
(* node held by the client or by the manager still leads to the outcome    *)
(* that its operations, or its expression, define at every assignment.  It *)
(* fails if an operation, a collection or a cache confuses two nodes.      *)
HandleExact ==
  \A e \in HeldEntries : \A s \in Assignments : OutcomeAt(e.node, s) \in e.fn[s]

Pinned(side) == {n[2] : n \in {r \in DOMAIN roots : r[1] = side}}

(* After a collection a slot is in use only for a reason: it is a terminal,*)
(* it is pinned, or a slot in use leads to it.  What is in use keeps its   *)
(* contents, and nothing it leads to is given away.                        *)
CollectedExactly(side) ==
  LET before == forest[side]
      after == forest'[side]
      parents(i) == {p \in LiveSlots(after) : i \in Edges(after, p)}
  IN /\ \A i \in LiveSlots(after) : Edges(after, i) \subseteq LiveSlots(after)
     /\ \A i \in LiveSlots(after) \cap LiveSlots(before) : At(after, i) = At(before, i)
     /\ after.free \ before.free # {} =>
          \A i \in LiveSlots(after) :
            i \in Terminals(side) \/ i \in Pinned(side)' \/ parents(i) # {}

CollectExact == [][\A side \in {"b", "v"} : CollectedExactly(side)]_mgrvars
=============================================================================
