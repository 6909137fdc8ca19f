------------------------------- MODULE ZddMgr -------------------------------
(***************************************************************************)
(* bss::zdd: a manager of set families and the handles it gives out, alone *)
(* or inside a BssMgr, which hands it out by shared reference, so that no  *)
(* singleton can be made in it and its families come from minpath.         *)
(*                                                                         *)
(* A handle pins its node; the pinned nodes are the roots of a collection, *)
(* which may follow every call that wraps a result.  A call is one step.   *)
(* A node that is held is kept with the family it was made for, which no   *)
(* guard reads.                                                            *)
(***************************************************************************)
EXTENDS ZddOps, BagsExt

CONSTANTS
  VarOrder,     \* the variables of the BssMgr, in level order
  GcFloor,      \* GC_FLOOR
  Clients       \* the clients there may be

(* What a client may do: whether its manager is part of a BssMgr, and the  *)
(* bounds on its calls.  lists, minimal, elements and thresholds are what  *)
(* it gives to from_sets, finds by minpath, gives to singleton and to      *)
(* set_gc_threshold; calls are the others it makes, max is how many.       *)
ASSUME ZddConstants ==
  /\ ToSet(VarOrder) \subseteq Label /\ IsInjective(VarOrder)
  /\ GcFloor \in Nat
  /\ \A c \in Clients :
       /\ IF c.inBss THEN c.lists = {} /\ c.elements = {} ELSE c.minimal = {}
       /\ \A list \in c.lists : ToSet(FlattenSeq(list)) \subseteq Label
       /\ \A F \in c.minimal : Antichain(F) /\ UNION F \subseteq ToSet(VarOrder)
       /\ c.elements \subseteq Label /\ c.thresholds \subseteq Nat /\ c.max \in Nat

VARIABLES
  client,     \* the client, one of Clients
  vars,       \* label -> header
  roots,      \* GcState.roots: node -> number of handles
  threshold, floor,   \* GcState
  held,       \* the client's handles: a bag of nodes and their families
  paths,      \* the client's ZddPath and what it has listed, or None
  last,       \* the last intersect or divide: its operands and its result
  used        \* calls used so far, against the bound

zddvars == <<forest, client, vars, roots, threshold, floor, held, paths, last, used>>

None == [found |-> <<>>]
NoAnswer == [op |-> "none"]
Entry(node, fn) == [node |-> node, fn |-> fn]

Init ==
  /\ forest = NewForest
  /\ client \in Clients
  /\ vars = <<>> /\ roots = <<>>
  /\ threshold = GcFloor /\ floor = GcFloor
  /\ held = <<>> /\ paths = None /\ last = NoAnswer
  /\ used = 0

----------------------------------------------------------------------------
(* What a call does to the manager, m: each of these maps it to a manager, *)
(* or to <<node, manager>>.                                                *)

Manager == [forest |-> forest, vars |-> vars, roots |-> roots, threshold |-> threshold]

Becomes(m) ==
  forest' = m.forest /\ vars' = m.vars /\ roots' = m.roots /\ threshold' = m.threshold

Pinned(m, i) == [m EXCEPT !.roots = BagAdd(@, i)]
Dropped(m, i) == [m EXCEPT !.roots = BagRemove(@, i)]

Collected(m, a) == [m EXCEPT !.forest = a, !.threshold = Max({2 * LiveNodeCount(a), floor})]

MaybeGc(m) ==
  IF LiveNodeCount(m.forest) < m.threshold THEN m ELSE Collected(m, Gc(m.forest, DOMAIN m.roots))

(* wrap, rewrap: r is a slot and the forest it is in.                      *)
Wrap(r, m) == <<r[1], MaybeGc(Pinned([m EXCEPT !.forest = r[2]], r[1]))>>

Constant(i, m) == Wrap(<<i, m.forest>>, m)

(* singleton: a label gets a header, at the next level, when it is used    *)
(* for the first time.                                                     *)
(* Mutant: it gets another one every time.                                 *)
DeclaredAnew(m, label) ==
  [m EXCEPT !.forest = CreateHeader(@, Cardinality(DOMAIN m.vars), label),
            !.vars = Extend(@, label, Len(m.forest.headers))]

Declared(m, label) ==
  IF label \in DOMAIN m.vars THEN m
  ELSE [m EXCEPT !.forest = CreateHeader(@, Cardinality(DOMAIN m.vars), label),
                 !.vars = Extend(@, label, Len(m.forest.headers))]

Singleton(m, label) ==
  LET d == Declared(m, label) IN Wrap(CreateNode(d.forest, d.vars[label], Zero, One), d)

(* An operation on two handles.                                            *)
Combined(m, op, f, g) == Wrap(Call(m.forest, op, f, g), m)

(* from_sets: a handle that is assigned to drops what it held before.      *)
Times(r, label) ==
  LET single == Singleton(r[2], label)
      fam == Combined(single[2], "product", r[1], single[1])
  IN <<fam[1], Dropped(Dropped(fam[2], r[1]), single[1])>>

Plus(r, s) ==
  LET fam == FoldLeft(Times, Constant(One, r[2]), s)
      result == Combined(fam[2], "union", r[1], fam[1])
  IN <<result[1], Dropped(Dropped(result[2], r[1]), fam[1])>>

FromSets(m, list) == FoldLeft(Plus, Constant(Zero, m), list)

(* minpath: the family is copied with headers of its own, then wrapped.    *)
Minpath(m, F) == Wrap(ToZdd(m.forest, VarOrder, F, <<>>), m)

----------------------------------------------------------------------------
(* The client's calls.                                                     *)

CountCall == used < client.max /\ used' = used + 1

Hand(r, fn) ==
  /\ CountCall
  /\ Becomes(r[2])
  /\ held' = BagAdd(held, Entry(r[1], fn))
  /\ UNCHANGED <<client, floor, paths>>

Build(r, fn) == Hand(r, fn) /\ last' = NoAnswer

BuildConstant(i) == Build(Constant(i, Manager), IF i = One THEN {{}} ELSE {})
BuildSingleton(label) == ~ client.inBss /\ Build(Singleton(Manager, label), {{label}})

BuildFromSets(list) ==
  ~ client.inBss /\ Build(FromSets(Manager, list), {ToSet(list[k]) : k \in DOMAIN list})

BuildMinpath(F) == client.inBss /\ Build(Minpath(Manager, F), F)

Operate(op, e, d) ==
  op \in ExactOps /\ Build(Combined(Manager, op, e.node, d.node), Meaning(op, e.fn, d.fn))

Answer(op, e, d, r) ==
  last' = [op |-> op, f |-> e.fn, g |-> d.fn, result |-> Sets(r[2].forest, r[1])]

(* intersect is not the intersection of any two families: the handle is    *)
(* kept with what it denotes when it is made.                              *)
Intersect(e, d) ==
  LET r == Combined(Manager, "intersect", e.node, d.node)
  IN Hand(r, Sets(r[2].forest, r[1])) /\ Answer("intersect", e, d, r)

(* The client looks at a quotient and drops it.                            *)
Divide(e, d) ==
  LET r == Combined(Manager, "divide", e.node, d.node)
  IN /\ CountCall
     /\ Becomes(Dropped(r[2], r[1]))
     /\ Answer("divide", e, d, r)
     /\ UNCHANGED <<client, floor, held, paths>>

(* Two handles at once, and no collection.                                 *)
GetChildren(e) ==
  /\ CountCall
  /\ e.node \notin Terminals
  /\ LET low == Low(forest, e.node)
         high == High(forest, e.node)
         x == LabelOf(forest, e.node)
         without == {s \in e.fn : x \notin s}
     IN /\ roots' = BagAdd(BagAdd(roots, low), high)
        /\ held' = BagAdd(BagAdd(held, Entry(low, without)),
                          Entry(high, {s \ {x} : s \in e.fn \ without}))
  /\ last' = NoAnswer
  /\ UNCHANGED <<forest, client, vars, threshold, floor, paths>>

CloneHandle(e) ==
  /\ CountCall
  /\ roots' = BagAdd(roots, e.node)
  /\ held' = BagAdd(held, e)
  /\ last' = NoAnswer
  /\ UNCHANGED <<forest, client, vars, threshold, floor, paths>>

(* Mutant: the root goes with the first of several handles of a node.      *)
DropWithRoot(e) ==
  /\ held' = BagRemove(held, e)
  /\ roots' = [i \in DOMAIN roots \ {e.node} |-> roots[i]]
  /\ last' = NoAnswer
  /\ UNCHANGED <<forest, client, vars, threshold, floor, paths, used>>

DropHandle(e) ==
  /\ held' = BagRemove(held, e)
  /\ roots' = BagRemove(roots, e.node)
  /\ last' = NoAnswer
  /\ UNCHANGED <<forest, client, vars, threshold, floor, paths, used>>

SetGcThreshold(n) ==
  /\ threshold' = n /\ floor' = n
  /\ UNCHANGED <<forest, client, vars, roots, held, paths, last, used>>

ClearTheCache ==
  /\ CountCall
  /\ forest' = ClearCache(forest)
  /\ UNCHANGED <<client, vars, roots, threshold, floor, held, paths, last>>

----------------------------------------------------------------------------
(* extract: the iterator holds a handle of its own.                        *)

Listing(e) ==
  [node |-> e.node, fn |-> e.fn, stack |-> << <<"node", e.node>> >>, path |-> <<>>, found |-> <<>>]

(* Mutant: the iterator remembers the node, and pins nothing.              *)
ExtractUnpinned(e) ==
  /\ CountCall
  /\ paths = None
  /\ paths' = Listing(e)
  /\ last' = NoAnswer
  /\ UNCHANGED <<forest, client, vars, roots, threshold, floor, held>>

Extract(e) ==
  /\ CountCall
  /\ paths = None
  /\ roots' = BagAdd(roots, e.node)
  /\ paths' = Listing(e)
  /\ last' = NoAnswer
  /\ UNCHANGED <<forest, client, vars, threshold, floor, held>>

(* next, from one set to the next; when there is none the client drops it. *)
NextPath ==
  /\ paths # None
  /\ LET n == NextSet(forest, paths.stack, paths.path)
     IN paths' = [paths EXCEPT !.stack = n.stack, !.path = n.path, !.found = @ \o n.set]
  /\ UNCHANGED <<forest, client, vars, roots, threshold, floor, held, last, used>>

DropPaths ==
  /\ paths # None
  /\ roots' = BagRemove(roots, paths.node)
  /\ paths' = None
  /\ last' = NoAnswer
  /\ UNCHANGED <<forest, client, vars, threshold, floor, held, used>>

----------------------------------------------------------------------------
Calls(name) == name \in client.calls

Next ==
  \/ Calls("constants") /\ \E i \in {Zero, One} : BuildConstant(i)
  \/ \E label \in client.elements : BuildSingleton(label)
  \/ \E list \in client.lists : BuildFromSets(list)
  \/ \E F \in client.minimal : BuildMinpath(F)
  \/ \E e, d \in DOMAIN held :
       \/ \E op \in client.calls : Operate(op, e, d)
       \/ Calls("intersect") /\ Intersect(e, d)
       \/ Calls("divide") /\ Divide(e, d)
  \/ \E e \in DOMAIN held :
       \/ Calls("get_children") /\ GetChildren(e)
       \/ Calls("clone") /\ CloneHandle(e)
       \/ Calls("extract") /\ Extract(e)
       \/ DropHandle(e)
  \/ NextPath \/ DropPaths
  \/ \E n \in client.thresholds : SetGcThreshold(n)
  \/ Calls("clear_cache") /\ ClearTheCache

Spec == Init /\ [][Next]_zddvars

----------------------------------------------------------------------------
(* What the manager promises: handles that keep denoting the families they *)
(* were made for.                                                          *)

(* Whatever was built, shared, collected and recycled since, every handle  *)
(* denotes the family that its operations define, whatever headers its     *)
(* operands have, and count is the number of its sets.  In a manager of    *)
(* its own two handles are equal when their families are.  (Not so inside  *)
(* a BssMgr, where every minpath result has headers of its own.)           *)
FamiliesExact ==
  /\ \A e \in DOMAIN held :
       /\ Sets(forest, e.node) = e.fn
       /\ Count(forest, e.node) = Cardinality(e.fn)
  /\ ~ client.inBss => \A e, d \in DOMAIN held : e.fn = d.fn => e.node = d.node

(* intersect never loses a common set, invents none, and is exact where no *)
(* set of either family contains another, as minpath and mincut return it. *)
IntersectOnAntichains ==
  last.op = "intersect" => IntersectedWell(last.f, last.g, last.result)

(* The roots of a collection are the handles and the iterator, each node   *)
(* as often as it is held.                                                 *)
Holders(i) ==
  LET entries == {e \in DOMAIN held : e.node = i}
  IN MapThenSumSet(LAMBDA e : held[e], entries)
       + IF paths # None /\ paths.node = i THEN 1 ELSE 0

RootsExact ==
  \A i \in Live(forest) : Holders(i) = IF i \in DOMAIN roots THEN roots[i] ELSE 0

(* An iterator lists sets of its family only, each once and in the order   *)
(* of the levels, whatever is built and collected between two of them; one *)
(* that has come to its end has listed them all.                           *)
LevelOfLabel(x) ==
  CHOOSE l \in 0 .. Cardinality(Label) - 1 :
    \E h \in Headers(forest) : forest.headers[h + 1] = [level |-> l, label |-> x]

Rising(s) == \A k \in 1 .. Len(s) - 1 : LevelOfLabel(s[k]) < LevelOfLabel(s[k + 1])

EnumerationExact ==
  LET found == paths.found
      sets == {ToSet(found[k]) : k \in DOMAIN found}
  IN paths # None =>
       /\ \A k \in DOMAIN found : Rising(found[k])
       /\ Cardinality(sets) = Len(found)
       /\ sets \subseteq paths.fn
       /\ paths.stack = <<>> => sets = paths.fn

(* "Intersection of two set families." (bss/src/zdd.rs:276)                *)
IntersectExact == last.op = "intersect" => last.result = last.f \cap last.g

(* "Family quotient (`self / other`)." (bss/src/zdd.rs:300)                *)
DivideExact ==
  last.op = "divide" /\ last.g # {} => last.result = Quotient(last.f, last.g)
=============================================================================
