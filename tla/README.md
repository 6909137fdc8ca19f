# Verification of relib-rs

relib-rs is a family of Rust libraries for decision diagrams and system reliability: BDDs and
ZDDs (`bddcore`), multi-valued and multi-terminal diagrams (`mddcore`), matrix diagrams for sets
and relations (`mxdcore`), and two reliability layers on top (`bss` for two-state systems, `mss`
for multi-state systems). This directory holds TLA+ models of that code, the TLC configurations
that check them and TLAPS proofs about them.

## 1. Inventory

| Component | State | Operations | What makes it correct |
|---|---|---|---|
| Computed table (`common/compute_cache.rs`) | direct-mapped array of `[k0,k1,k2,val]`, length counter | get, put, grow, retain_live, retain_live3, clear | a hit is what was last put under that key; growth loses nothing; the counter is exact |
| BDD arena (`bddcore/bdd.rs`) | node vector, free list, unique table, two computed tables, headers | create_header, create_node, gc, clear_cache | ordered, reduced, hash-consed; surviving ids keep their meaning |
| BDD operations (`bddcore/bdd_ops.rs`) | the arena; recursion on the call stack | not, and, or, xor, ite | the result denotes the operation; memoised results stay true |
| BDD manager (`bss/bdd.rs`) | reference counts of handles, threshold and floor, variables | handle operators, clone, drop, defvar, rpn, and/or/kofn of lists, create_node, gc, set_gc_threshold, clear_cache | a handle never dangles; garbage is found; clients see functions |
| dual, kofn, minsol, conversion, minpath/mincut (`bss/bdd_*.rs`, `bss/bss.rs`, `bss/zdd_convert.rs`) | per-call memo tables | as named | the result is the dual, the threshold function, the family of minimal vectors |
| ZDD arena, algebra, manager (`bddcore/zdd*.rs`, `bss/zdd.rs`) | as for the BDD | union, intersect, setdiff, product, divide, singleton, from_sets, gc | results are the set-family operations |
| BDD and ZDD analyses (`bss/*_count.rs`, `*_path.rs`, `bdd_prob.rs`) | per-call memo, iterator stacks | count, extract, prob, bmeas, size | agree with the function and with each other |
| MDD, MTMDD (`mddcore/mdd*.rs`, `mtmdd*.rs`) | arenas with n-ary nodes, value terminals | arithmetic, comparisons, min, max, ite, gc | as for the BDD |
| Composite MTMDD (`mddcore/mtmdd2*.rs`) | two arenas, tagged ids, tables across both | the same over tagged nodes, gc by tag | a tag always names the arena of its id |
| ZMDD (`mddcore/zmdd*.rs`, `mss/zmdd*.rs`) | as for the ZDD, with value terminals | intersect, setdiff, set_baseline, conversion, count, extract, extract_level, gc | set families over state vectors |
| Multi-state manager (`mss/mdd.rs`, `mss/mss.rs`) | reference counts of tagged ids | operators, rpn, gc | as for the BDD manager |
| Multi-state analyses (`mss/mdd_*.rs`) | per-call memo, iterator stacks | minsol, maxsol, count, extract, prob, bmeas | agree with the function |
| MxD (`mxdcore/*.rs`) | arena of set and relation nodes, seven relation tables, memoised full relations | set and relation algebra, images, cross product, transpose, boundary, enumeration, gc | two opposite skip rules kept apart |
| Graphviz output, legacy stack engines, edge-valued MDD | - | - | not modelled (see section 9) |

How they interact. A manager (`BddMgr`, `ZddMgr`, `MddMgr`) owns an arena behind `Rc<RefCell>` and
hands out handles. A handle holds a weak pointer and a node id; creating, cloning and dropping it
changes the count of that id in `GcState`. Every call that wraps a result pins it and then may
collect: the keys of the count table are the roots. Inside a call everything is a raw id: the
frames of a recursion, the list being folded, the stack and the saved nodes of an rpn expression,
memo tables. `BssMgr` and `MssMgr` own a function forest and a family forest and copy minimal
solutions from the first into the second.

What is hard. Nothing runs concurrently and nothing is persisted: the managers are
single-threaded. The hard part is lifetime. A collection can happen at the end of almost any
call, ids are recycled without compaction or generation counters, and four kinds of derived
state (unique table, computed tables, memoised relations, raw ids) must be invalidated or still be
correct at that moment. With the default threshold of 65536 nodes ordinary tests never collect.
The second hard part is the case analysis of the recursive operations: terminal arms, level
comparisons against the terminals' sentinel level, and reductions that differ per diagram. The
list of hazards, each at its line, is in `PROJECT.json`.

## 2. Plan

Done, in this order:

1. the BDD core: arena, recursive operations, manager, and its refinement to a store of functions
   (`BddForest`, `BddApply`, `BddMgr`, `BddInvariant`, `BddSemantics`, `StructureFunctions`);
2. proofs of its inductive invariant (`BddMgr_proofs`), of what its nodes mean
   (`BddSemantics_proofs`) and of the refinement (`BddRefinement_proofs`);
3. the computed table as an array, its refinement to a lossy map, and the proof of it
   (`ComputeCache`, `HintTable`, `ComputeCache_proofs`);
4. two-state analyses over diagrams as values (`Diagrams`, `BssMgr`, `StructureAnalyses`);
5. multi-state analyses (`MultiDiagrams`, `MssMgr`, `MultiStateAnalyses`);
6. the composite forest and the multi-state manager (`MddForest`, `MtMdd2`, `MddOutcomes`,
   `MddMgr`), the forest's calls and collections as steps (`MddEngine`), and the proofs that its
   arenas are canonical and that calls and tables give the right answers (`MddEngine_proofs`);
7. the MxD forest, its operations and its handles (`MxdArena`, `MxdEngine`, `MxdOps`, `MxdSystem`,
   `StateRelations`), what its nodes denote (`MxdMeaning`), its operations as steps (`MxdAlgebra`),
   and the proofs of the arena's invariant, of its canonicity and of what the operations return and
   remember (`MxdEngine_proofs`);
8. the ZDD forest, its operations, its handles and its path iterator (`ZddForest`, `ZddOps`,
   `ZddMgr`, `SetFamilies`), its set algebra as steps (`ZddEngine`), and the proofs of the arena's
   invariant, of its canonicity and of what the algebra returns and remembers
   (`ZddForest_proofs`).

Left, most important first:

| Module (planned) | What it adds | Composed with | Promise it is checked against |
|---|---|---|---|
| `ZmddForest` | the arena of `ZddForest` with n-ary nodes and value terminals, handles | `MssMgr` | families of vectors that stay what they are |
| iterators | the path iterators of BDDs and MDDs across collections, as `ZddMgr` has that of ZDDs | `BddMgr`, `MddMgr` | every path once |
| two managers | handles of different forests and the checks that tell them apart | `BddMgr` | no result from ids of another forest |

Runs will stay at the present bounds (two or three variables, at most three handles, a floor of a
few nodes so that every call may collect). Theorems to add: the roots of the ZDD and MxD handles,
which need the counts in modules of their own, since the prover takes no module that reaches the
recursive operators.

## 3. Modules

| Module | Models | Correspondence |
|---|---|---|
| `BddForest` | `bddcore/src/bdd.rs` | `nodes[i + 1]` is the slot of id `i`, `<<level, low, high>>`; `utable` is the unique table, `cache` the computed table, `free` the free list, `headers` the labels by level. `CreateNode`, `Mark` and `Sweep` are `create_node` and the two halves of `gc`; a mark step takes one node off the worklist |
| `BddApply` | `bddcore/src/bdd_ops.rs` | `calls` is the call stack of the recursion; one step is one call, cache hit, terminal arm or return; `ret` is the value being returned |
| `BddMgr` | `bss/src/bdd.rs` | `handle` and `vars` are the live `BddNode`s of the client and of the manager, `roots` is `GcState.roots`; `pc` says which call runs. `ClientCall` starts a call, `RpnToken` reads a token, `Progress` is everything the manager does by itself until the call has returned, the collection included |
| `BddInvariant` | - | `NoDangling`, `RootsExact`, `VariablesKept`, `NodesStable` and the inductive invariant `IInv` |
| `BddSemantics` | - | what a node denotes; `CacheSound`, `EqIsFunctionEquality`, `GcExact`, `Implements`, `CallsReturn`; the refinement mapping; the inductive invariant `MeaningInv` behind them |
| `StructureFunctions` | the promise of `bss` to a client | handles hold Boolean functions; no node, count, table or collection occurs in it |
| `ComputeCache` | `common/src/compute_cache.rs` | `slots` is the array, indexed by the low bits of the hash; growing moves one slot per step |
| `HintTable` | the promise of `ComputeCache` | a map from keys to the last value put or nothing; a put may cost one other entry |
| `Diagrams`, `MultiDiagrams` | `create_node` of every kind of forest | a diagram as a value: equal diagrams are equal nodes, which is what hash-consing gives |
| `BssMgr` | `bss/src/bss.rs`, `bdd_*.rs`, `zdd_convert.rs` | one action per call of an analysis; the path iterator is one action per popped stack item |
| `StructureAnalyses` | - | what each analysis of `bss` means, on sets of working components |
| `ZddForest` | `bddcore/src/zdd.rs` | a forest is a record: `headers`, each with a level and a label, `nodes` the slots, `free` the free list, `table` the unique table, `memo` the computed table. `Step` is what an operation or a collection can do to it, `Swept` the second half of `gc`. The arms of an operation that make no calls (`Immediate`, `Settled`). What a node denotes, by the ways down from it; `Canonical`, `OneNodeEach`, `FamiliesKept`, `TablesExact` |
| `ZddOps` | `bddcore/src/zdd_ops.rs`, `bss/src/zdd_convert.rs`, `zdd_count.rs`, `zdd_path.rs` | the recursive operations, from a forest to a result and a forest; the mark of `gc` (`Reached`); one `NextSet` is one `next` of the iterator |
| `ZddEngine` | the same operations, as steps | a step is a header, a node, the arm that ends a recursive call, `clear_cache`, or a collection with any closed set of live slots; `known` is what calls have returned. `KnownSound`, `UndetAlone` |
| `ZddMgr` | `bss/src/zdd.rs` | `held` is the bag of the client's `ZddNode`s, each with its meaning, `roots` the count table, `vars` the headers by label, `paths` the client's `ZddPath`; one action per call. A manager inside a `BssMgr` gets its families from `minpath`, each with headers of its own. `FamiliesExact`, `IntersectOnAntichains`, `RootsExact`, `EnumerationExact` |
| `SetFamilies` | the promise of the set algebra | what each operation means, on families of sets |
| `MssMgr` | `mss/src/mss.rs`, `mdd_*.rs`, `zmdd*.rs`, `mddcore/src/zmdd_ops.rs` | a function knows which forest it lives in, a family whether its states are reversed; one action per call |
| `MultiStateAnalyses` | - | what each analysis of `mss` means, on state vectors |
| `MddForest` | `mddcore/src/mtmdd2.rs`, `mtmdd2_ops.rs`, `mdd*.rs`, `mtmdd*.rs` | a forest is a record of two arenas, `b` and `v`, and the caches across them, `compared` (`bcache`) and `chosen` (`vite_cache`). The tables of an arena are one map `memo`, keyed by operation and slots; `utable` and `vtable` are one map from contents to slot. `MakeNode` is `create_node`; the arms of an operation that need no recursion are operators of their own (`Chosen`, `Settled`, `ComputedNode`) |
| `MtMdd2` | the same, `mtmdd2_ops.rs` | the recursive operations, from a forest to a result and a forest, a node tagged with its arena; the mark of `gc` (`Marked`) |
| `MddOutcomes` | - | what the operations mean, as the set of outcomes at every assignment, and where a diagram leads; `Canonical`, `MemoSound` |
| `MddEngine` | the forest, as steps | a step is a header, a node, a value, the arm that ends a recursive call, `clear_cache`, or a collection with any closed sets of live slots; `known` is what calls have returned. `ArenaInv`, `KnownSound`, `OutcomesKept` |
| `MddMgr` | `mss/src/mdd.rs` | `held` is the bag of the client's `MddNode`s, each with its meaning, `roots` is `GcState.roots` over tagged nodes, `vars` the manager's own handles; one action per call, one of them a whole expression. `HandleExact`, `CollectExact` |
| `MxdArena` | `mxdcore/src/mxd.rs` | a forest is a record: `domains` the variables by level, `nodes` the slots, `free` the free list, `table` the unique table, `memo` the computed tables as one map keyed by operation, slots and, for relations, level, `full` the memoised full relations. `SetNode` and `RelNode` are the two `create_*_node`, each with its reduction. The arms of the operations that need no recursion (`Settled`, `Sorted`, `Key`, `Operands`) are operators of their own |
| `MxdEngine` | the same, as steps | what an operation does to the forest is a sequence of `EngineStep`s; `StartMark`, `Mark` and `Sweep` are `gc` |
| `MxdOps` | `mxd_ops.rs`, `minterm.rs`, `enumerate.rs`, images, boundary | the recursive operations, each from a forest to a result and a forest |
| `MxdSystem` | `analysis.rs` | `held` is the bag of `StateSet`s and `Transitions`, each with its meaning, `levels` the client's `Levels`, `roots` the count table; one action per call. `HandlesExact`, `RootsExact` |
| `StateRelations` | the promise of `mxdcore` | sets of state vectors and sets of pairs of them; no node occurs in it |
| `MxdMeaning` | - | the vectors of a set, the pairs of a relation, by the slots that lead to One; `Canonical`, `TablesExact`, `MeaningsKept`, `FullIsFull` |
| `MxdAlgebra` | `mxd_ops.rs`, as steps | a step is the arm that ends a recursive call (operands swapped, a terminal case, a full relation, a hit, a node over what the calls it made have returned), anything else that builds, or a step of `gc`; `known` is what calls have returned, with the level they were made at. `KnownSound` |
| `SlotLemmas`, `*_proofs` | - | the proofs (section 6) |
| `MC*` | - | values of the constants for TLC |

A call of the manager is not atomic in `BddMgr`: every recursive call and every step of a collection
is a step, so the invariants hold in the middle of an operation, where only raw ids exist. In
`BssMgr` and `MssMgr` a call is one step and diagrams are values. This is sound because
these analyses hold their operands by handle, never collect, and depend on an id only through the
node it designates; that nodes stay what they are meanwhile is what the core modules establish.
In `MddMgr` and `ZddMgr` a call is one step too, but over arenas with slots, tables and
collections: an operation of the arena never collects, and where a call makes several handles, as
`from_sets` does, the collection that may follow each is in the step, at its place. What a handle means is
kept beside it (no guard reads it), and `HandleExact` and
`FamiliesExact` follow the node and compare. `MxdSystem` is the same over
the MxD forest, except that the collection that follows a call runs step by step, by the actions
of `MxdEngine`; every operation of `MxdOps` changes the forest only through the operators that
are the steps of `MxdEngine`, which is how the theorems about those reach it, and its recursion is
the one that `MxdAlgebra` has in steps. The tables of
`MddForest`, `ZddForest` and `MxdArena` never lose an entry, which is the hardest case for
soundness. Four short cuts of the composite forest look at diagrams where operands may be
undetermined: f xor f, a choice between equal diagrams, a conjunction with False and a disjunction
with True. So an undetermined operand allows more than one outcome; determined operands allow one.

Memo tables that live for one call are left out where their key determines the entry; the Boolean
`mdd_count`, whose key does not, has its table in the model (`BmddCount`).

Every definition has its lines in `PROJECT.json` under `map`. Definitions whose comment starts with
`Mutant:` are variants of the code with a plausible mistake; each shows that one property can fail.

## 4. Runs

| Run | Question | Bounds |
|---|---|---|
| `calls` | Do handle calls interleaved with clones, drops and both kinds of collection keep the arena, the counts, the tables and equality right? | 2 variables, 3 handles, 2 building calls (`xor`, lists are empty, `create_node`), collection from 4 nodes on |
| `rpn` | Is an expression, well-formed or not, evaluated to its function, with raw ids staying valid, and does every call return? | 2 variables, 1 handle, every operator, 4 tokens, 1 name |
| `refines` | Can a client with several handles and lists of operands tell the manager from a store of functions? | 2 variables, 3 handles, `or` and `ite`, lists of 2, 1 building call |
| `compute_cache` | Is the direct-mapped array the lossy map its users assume? | 2 to 8 slots, keys that collide at every size, values that are also ids |
| `bss_analyses` | Is every two-state analysis what its name says? | all 256 functions of 3 variables, all 168 monotone ones of 4 |
| `zdd` | Do handles of set families, combined, shared, listed and dropped, with a collection in any call, keep denoting what their operations define? | 3 labels, collection from 5 nodes on; any two of the 20 antichains by `minpath` and any two of 6 lists by `from_sets` in 3 calls; clients of 4 and 5 calls with clones, children, the iterator, `clear_cache` and `set_gc_threshold` |
| `mss_analyses` | Is every multi-state analysis what its name says? | 2, 3 and 2 states: all functions of the first two variables to 3 values (729) and to Booleans (64), all monotone ones of the three |
| `mss_forest` | Do operations on handles and whole expressions keep every handle's function, every table entry and the canonicity of two arenas with one table of roots? | a variable of 2 and one of 3 states in either order, 2 building calls of 6 operators, lists of 2, `create_node`, 4 expressions, collection from 6 nodes on |
| `mxd` | Do sets and relations in one forest, with two reductions, level-keyed tables and collections after every operation, keep meaning what their handles were made for? | systems of 2 and 3, 2 and 2, 1 and 2, and three times 2 states, 3 calls, collection from 5 nodes on; each system has its own choice of calls, together all of them |
| `zdd_intersect`, `zdd_divide`, `mdd_count` | three disagreements, see section 8 | smallest that show them |

Why the bounds are enough. The reductions and the recursive cases of every operation compare two
levels and the terminals, so two or three levels meet all of them: above, below, equal, skipped at
the root, skipped below it, and constant. A collection can run at the end of every call because the
floor is four nodes instead of 65536; then slots are reused by the next call, which is the case
that ordinary tests do not reach. Two building calls are the least after which a stale table entry
could be read; three handles the least with which one id is pinned twice while another is dropped.
In the MxD forest a system with one state per component makes
the block of a relation a single cell, where the two reductions meet, and the uneven one has
blocks of different size by level. The table sizes 2, 4 and 8 include a growth in the middle of a put and the ceiling where the table
stops growing. Handles are interchangeable, and so are variables (a level is the order of
declaration, not of names); `calls` and `refines` use that symmetry. Both check safety only; `rpn`,
which checks liveness, does not.

Every bound is a constant: `MaxList`, `MaxCalls`, `MaxTokens`, `Called`, `Threshold` and `GcFloor`
of `BddMgr`, `Constant`, `Expressions`, `Called`, `Threshold`, `GcFloor` and `MaxCalls` of `MddMgr`,
`Systems`, `Structure`, `FoldStructure`, `Pattern`, `Called`, `GcFloor` and `MaxCalls` of
`MxdSystem`, `VarOrder`, `GcFloor` and `Clients` of `ZddMgr` (a client has its own choice of calls,
families, thresholds and number of calls, `max`), `Structures`, `Lists` and `Reliability` of the
analyses. Deadlock is checked for the manager and the table, and not for the analyses
(one question per behaviour, then nothing is left to ask).

## 5. Fairness

`FairSpec` assumes weak fairness of `Progress`, the steps the manager takes by itself inside a call.
The manager is single-threaded and nothing in it waits for anyone, so a call that has begun runs
on. No client action is fair: no client is obliged to call, to drop a handle, or to give another
token; an expression ends by a step of the manager. `CallsReturn` then says that the recursion,
the marking of a collection and the evaluation of an expression end.

## 6. Proofs

`BddMgr_proofs` proves `Spec => []IInv` and its consequences for every finite set of variables and
handles, every threshold and floor and every value of the bounds (`ConstantsAssumption` is all
it assumes). `IInv` is the conjunction of

- `TypeOK`, the types;
- `ArenaInv`: children are allocated and at lower levels, the unique table has exactly the
  allocated nodes, no node is redundant, free slots are not in the table;
- `EngineInv`: operands, partial results and table entries are allocated and every frame of the
  recursion is below its caller, so `create_node` is always called on a level above its children;
- `PhaseInv`: raw ids exist only while a call runs that cannot collect. Without it nothing would
  keep the ids of `todo`, `rpn` and `calls` alive when `gc` runs;
- `RawInv`: those ids are allocated;
- `TraceInv`: while a collection marks, the roots and the children of marked nodes are marked or on
  the worklist, so that the marked set is closed when the worklist is empty (`MarkClosure`) and
  the sweep leaves a closed arena (`SweepArena`);
- `RootsExact`, `VariablesKept` and `Pinned \subseteq Alloc`: counts are handles, and handles are
  allocated.

No part is inductive alone: that a result is allocated needs `EngineInv`, which needs the tables to
have no dead id, which needs the sweep to filter by the marked set, which needs `TraceInv`, which
needs the roots to be the handles. The first half of `BddMgr_proofs` has the arena's steps
(`CreateNodeStep`, `MarkClosure`, `SweepArena`) and the steps of the recursion (`ApplyStepInv`) for any
labels and ids, the second one lemma per action of the manager and the temporal theorems:
`TypeCorrectness`, `ArenaCorrectness`, `NothingDangles`, `RootsAreHandles`, `VariablesSurvive`,
`SlotsAreStable`.

`BddSemantics_proofs` proves what the nodes mean, from the same assumptions: `Spec => []MeaningInv`.
The run `calls` checks it too. To `IInv` it adds

- `Defined`: nothing that is held is undetermined. Otherwise the terminal arms, which look at
  diagrams, would not be the operations on values;
- `HeadersDistinct`: a level has a variable of its own. Otherwise two nodes of different levels
  could denote one function;
- `CacheSound`: a memoised result is the result of its operation now;
- `CallsMean`: a frame that has its low result has the right one, each frame waits for what its
  callee computes, and what is returned is what the top frame waits for. This carries the function
  of the call from its first step to its last through all that the recursion does in between;
- `OneFold`: a list is folded by one operation, so its pending function is what it started as;
- `MarkedReachable`: a collection marks nothing beyond what the roots reach.

The theorems that follow are `TableIsSound`, `CollectionsAreExact` (with `TraceInv` for the other
half) and `EqualityIsExact`. The last one is canonicity: of two different nodes with one function
take the higher level; there the children differ, or one node does not test the variable, and by
induction on the level some assignment tells the children apart. The valuation of a diagram is a
recursive function over the slots of the arena; the lemmas `ValuationDef` to `ValueIndependent` establish
once, by induction on levels, that it exists, unfolds along the edges and depends on nothing but
the nodes below. That lets a collection, a recycled slot and a new variable leave the function of
every other node what it was (`Same`).

`BddRefinement_proofs` proves `Spec => Implements`: the manager implements the store of functions
`StructureFunctions`. Every step is mapped on its own: a step of the recursion, of a folded list, of
a collection, a threshold or a cleared table changes no function a client holds; every other
action is the abstract action of its call, with the value that `MeaningInv` says it has. A result
of a call is fixed by its operands when it begins (`Pending`), so the return is the abstract return
whatever was created, found in a table or collected in between.

`ComputeCache_proofs` proves `CacheInvariance` and `CacheIsHint`, the refinement to `HintTable`, for
every set of keys, every hash and all sizes (`CacheConstants`). The part of the invariant that
matters is `NoClash`: when the table doubles, two entries of different old slots have different
new slots, so that a growth never overwrites. `LoadIsBounded` adds that below the largest size the
table is never more than one entry beyond three quarters full. While a growth runs its invariant
(`LoadInv`) counts the entries still to be moved with those that are there; the powers of two are
handled in one lemma (`PowerOfTwo`).

`MxdEngine_proofs` proves `EngineSpec => []EngineInv` for every set of domains (`DomainAssumption`:
numbers of states are positive), with any operation, declaration and collection in any order. It
is the conjunction of `ForestOK`, that is `ArenaInv` (well-formed nodes, each kind reduced by its own
rule, a unique table with exactly the nodes in use, memos that name only nodes in use) and
what the full relations need, and `TraceInv`. The memo of the full relations is why `ArenaInv` is
not inductive alone: an entry must fit the level it is kept for, or the node built on it would
not be below its level. There is one lemma per operator of the arena, over `StoreNode`
(a new or recycled slot leaves every other node what it was) and `SweptOK` (a closed set of marked
slots leaves a closed forest, and the filters leave no entry that mentions a reclaimed slot).
`ArenaInvariant`, `TraceInvariant` and `NodesAreKept` follow. That the marked set is closed when the
sweep begins is `TraceInv` with nothing grey. `SlotLemmas` has what all arenas need of finite sets of
slots: a largest element, a least one, and induction by counting up.

The same module proves what the nodes denote. `Leading` is, for two state vectors and a number of
levels, the set of slots that lead to One: a relation that skips a level keeps the state, a set is
asked only about a vector and itself. `DiagramsAreCanonical` proves `Canonical`, which the run `mxd`
checks: two sets in use with the same vectors are one slot, and two relations with the same pairs.
Different slots whose nodes are on one level have different edges, because the unique table has
each content once (`HashConsOK`); a node above the level of the other has two different children,
or it would have been reduced, and by its own kind's rule: a set with equal children, a relation
with an empty block or with one child along its diagonal (`ChildrenTellApart`). Either way two
different children are told apart by induction on levels (`MeaningsTellApart`). The induction works
for both kinds at once because a set node's edges are to sets and a relation node's to relations
(`ForestType`), which the invariant had to say. `MeaningsAreKept` says that no step changes what a
slot that stays in use denotes, `FullRelationsAreFull` that a memoised full relation is full up to
its level, and `SetNodeMeans` and `RelNodeMeans` what the two constructors return by each of their
branches.

The last part of the module proves what the operations on sets and relations return and remember,
over `AlgebraSpec` of `MxdAlgebra`: `TablesAreExact`, for the property `TablesExact` that the run
`mxd` checks, and `ResultsAreExact` for the results themselves, which hold until one of their slots
is given away. Its behaviours interleave the ends of recursive calls with declarations, nodes, full
relations, cleared tables and the steps of collections in any order; a call may look into its table
or not. The invariant `AlgebraInv` adds to `EngineInv` that every entry of the tables is the result of
a call with that key (`MemoSound`) and that what calls returned is right (`KnownOK`). To be right
(`Sound`) depends on how many levels one asks about. An operation on relations is right at the one
level it was made at: the complement or the full relation of other levels is another one, which is
why the level is in the key, and why the collection may not filter those tables as it does that of the
sets. An operation on sets is right over any number of levels that holds its operands (`RightAbove`),
because a set skips a level for any state; so its key has no level, and its entries survive
declarations. Without both halves the invariant is not inductive: a call on sets is made at the level
of its operands and its result used further up.

The steps of the proof are: what a skipped level means to each kind (`SetChildReads`,
`RelCellReads`), that a result stays right while the forest grows or a collection spares its slots
(`SoundKept`, where a declaration makes the vectors longer), one lemma for each arm that ends a call
(`SettledSound`, `SwappedSound`, `FilledSound`, `HitSound`, `ExpandSetSound`, `ExpandRelSound`,
`ExpandImageSound`), and that a key tells calls apart (`KeyTells`). A relation is taken apart by the
pair of states of its variable (`RelSplits`). An image quantifies one of them away (`ImageSplits`), and
`GatheredLeads` follows the unions the code makes over its states, by induction on their number. That
`Call` of `MxdOps` takes exactly these steps is again read off the text: both use the arms of
`MxdArena`.

`ZddForest_proofs` proves `ForestSpec => []ArenaInv` and `NodesAreKept` for any labels, without an
assumption on a constant. The invariant is `ForestOK`: the shape of the forest (`ForestType`) and
`ArenaOK`, five conjuncts that hold each other up. That a node's edges stay in use needs the sweep
to keep with every slot its children (`Closed`), that a recycled slot changes no other node needs
the free list to be what is not in use, and that no entry answers for a recycled slot needs the
filter of the computed table (`MemoLive`); `SameHeaders` and `FitsKept` carry levels over a step that
adds headers. The collection is proved for any closed set of live slots; that the mark gives
such a set is in the run, `Reached` being recursive.

What a node denotes is proved from the ways down from it (`Ways`): the headers whose high edge a way
takes, and the terminal other than Zero that it comes to. `NodesAreCanonical` proves `Canonical`,
which the run `zdd` checks: two slots in use have different ways. Every node but Zero has one
(`WaysExist`), which is the rule that suppresses a high edge to Zero; so a way takes the header of
the higher of two nodes and none comes from the lower (`WaysSplit`), and on one level the children
differ and are told apart (`WaysTellApart`). Headers are not labels: a `BssMgr` gives every `minpath`
headers of its own, and there equal families are different nodes. `OneNodeForEachFamily` states
what a manager of its own has, where every label has one header: nodes with the same family of
sets are one node. `FamiliesAreKept` says that no step changes the family of a slot that stays in
use, and `CreateNodeMeans` what `create_node` returns by each of its branches.

The last part of the module proves what the set algebra returns and remembers, over `EngineSpec` of
`ZddEngine`: `TablesAreExact`, for the property `TablesExact` that the run `zdd` checks, and
`ResultsAreExact` for the results themselves, which hold until one of their slots is given away. A
call may look into its table or not, so tables that lose entries are covered. The inductive
invariant `AlgebraOK` adds to `ForestOK`

- `LevelsLabelled`: headers of one level have one label and headers of one label have one level.
  The nodes that an operation takes apart together may come from different headers, and it gives
  the result the header of one; without this the variable of one node could occur below the other;
- `NoUndetBelow`: the undetermined node is under no other (`UndetStandsAlone`). Otherwise a result
  could be a family with an undetermined part, which the short cuts on `Undet` do not expect;
- `MemoSound` and `AllSound`: an entry of the table, and what a call returned, answers the operation
  (`Answers`) and is no higher than some operand. Without the bound on the level `create_node` could
  be given a child above its header.

Families are taken apart by the top label: those of a node are the sets of its low child and those of
its high child with the label added (`NodeSplits`), and the label is fresh below (`LabelIsFresh`).
`UnionSplits`, `DifferenceSplits`, `ProductSplits` and `IntersectionSplits` say how each operation
follows; the product needs the union of three products, which is what the code builds. There is one
lemma for each arm, and `MadeAnswers` for the node and the table entry that end one. What `intersect`
returns is claimed for antichains only, because it takes `{{}}` for its unit (section 8): an antichain
with the empty set in it has no other (`OneIsNeutral`), and the halves of an antichain are antichains.
Nothing is claimed of `divide` except that it returns slots in use and does no harm. That `Call` of
`ZddOps` takes exactly these steps is read off the text, as in the composite forest: the arms are the
same operators, and the recursion is beyond the prover.

`MddEngine_proofs` proves what the composite forest's operations compute, for every set of variables
with at least one state each (`VariableAssumption`) and any undetermined outcome that is no number
(`UndetAssumption`). Its behaviours (`EngineSpec`) are steps in any order: the arm by which a
recursive call ends, which may use what other calls have returned, and headers, nodes, values, cleared
caches and collections in between. A call never has to look into a table when it has an entry for
it, so tables that lose entries are covered. The inductive invariant `Inv` says, in this order,

- the shape of the forest (`IsForest`), and that each arena is well-formed, reduced and hash-consed
  (`ArenasGood`);
- every entry of the four tables is an answer (`MemoGood`), and so is everything calls have returned
  (`KnownGood`). An answer (`Sound`) leads at every assignment to an outcome the operation allows
  there, in the arena the operation says, and is no higher than some operand.

The bound on the level is why types are not enough: `Expand` builds a node above what its calls
returned, and it is ordered only if they are below its variable. And the answers are not inductive
without the arenas: that f min f is f, that x = x is True and that equal branches make a choice idle
is decided by slots. One lemma for each arm says that the answer is right (`DecideSound`, `SettleSound`,
`NegateSound`, `ComputeLeafMeans`, `ExpandMeans`; `QuotientIsDivided` for the division, which rounds to
zero); `SoundMoved` and `MovedAlike` carry every answer over a step that builds, and over a collection
that gives slots away and forgets what was known of them. Where a slot leads is a recursive function,
shown by induction on levels to exist and to unfold (`OutcomesDef`); `TellApart` is canonicity.
`ArenasAreWellFormed`, `DiagramsAreCanonical`, `MemoIsSound`, `AnswersAreSound` and `OutcomesAreKept`
follow. `Canonical` and `MemoSound` are what the run `mss_forest` checks on the manager. That `Call`,
`Expand` and `Step` of `MtMdd2` take exactly these steps is read off the text: both use the arms of
`MddForest`, but `MtMdd2` is recursive and the prover cannot reason about it.

## 7. What is only model-checked

- `CallsReturn`: liveness is outside the proof system's reach.
- everything in `BssMgr` and `MssMgr`: their operations are recursive operators.
- of `MddMgr` the handles (`HandleExact`) and the roots of a collection (`CollectExact`), and that its mark
  gives closed sets of slots (`Marked` of `MtMdd2`).
- of `ZddMgr` the handles (`FamiliesExact`, `IntersectOnAntichains`), the iterator (`EnumerationExact`) and
  the roots (`RootsExact`): from the steps of the algebra, which are proved, to the calls of a client.
- of `MxdSystem` the handles (`HandlesExact`) and the roots (`RootsExact`): from the steps of the
  operations, which are proved, to the calls of a client. `setdiff` and the minterms, which call the
  operations or build nodes, are among those.
- that the mark of the ZDD forest's collection gives a closed set of slots (`Reached`).

Proved, and in no run: `MeaningsKept` and `FullIsFull` (pairs of vectors for every slot in use, which
on the systems that the run `mxd` needs take TLC too long), and `KnownSound` of `MxdAlgebra`, of which
that run checks what a client sees, in `HandlesExact`; `OneNodeEach`, `FamiliesKept`, and
`KnownSound` and `UndetAlone` of `ZddEngine`, of which the run `zdd` checks what a client sees, in
`FamiliesExact`; `ArenaInv`, `KnownSound` and `OutcomesKept` of `MddEngine`, of which the run
`mss_forest` does, in `HandleExact`.

## 8. Findings

| Run | Source | Disagreement |
|---|---|---|
| `mdd_count` | `mss/src/mdd_count.rs:194` | The count of a Boolean multi-state function memoises on the node alone, although the result depends on the level it is entered at. The function true only at x0 = 1, x1 = 2 (2 and 3 states) has 5 vectors of value 0 and is counted as 6; the value forest's count, keyed on node and level, is right (`CountExact`). A constant counts as 1 whatever is selected. |
| `zdd_intersect` | `bddcore/src/zdd_ops.rs:28` | `intersect` takes the family of the empty set for a neutral element. It is exact on antichains (`IntersectOnAntichains`), which is what `minpath` and `mincut` return. |
| `zdd_divide` | `bddcore/src/zdd_ops.rs:234` | `divide` is not the family quotient. |

Four observations without a run. `ite` (`bddcore/src/bdd_ops.rs:235`) and the chain of operations
it replaced differ on undetermined operands, where its comment speaks of the same result; `bss`
never creates such operands. An operator with too few operands makes `rpn` panic
(`bss/src/bdd.rs:279`), where its comment lists other malformed expressions as `Err`; the model of
`BddMgr` has this as the `unwinding` of the call, which leaves the manager usable. `undet_boolean`
(`mddcore/src/mtmdd2.rs:89`) takes the slot of the value arena's undetermined node, 0, which in the
Boolean arena is `Zero`: the client receives False, and `MddMgr` has it so. Every result of
`minpath` has headers of its own (`bss/src/zdd_convert.rs:38`), so two equal families of one
`BssMgr` may be different nodes, and `eq` (`bss/src/zdd.rs:255`) is then false; in a manager of its own
equal families are one node (`FamiliesExact`, and the theorem `OneNodeForEachFamily`).

## 9. Not modelled

- The components the plan has left (section 2), and in the modelled ones: the node counts (`size`),
  `get_varorder`, the check that two handles come from one forest.
- Floating-point and interval arithmetic: `prob` and `bmeas` are checked in exact fractions, so
  rounding and the width of intervals are not covered. Counts are unbounded integers; the code's
  `u64` wraps or panics beyond 2^64.
- Hash functions: `ComputeCache` takes any hash as a constant. The unique table's own hash map is a
  function.
- 32-bit ids: node ids are unbounded; the tables store them as `u32`, so an arena beyond 2^32
  nodes is not covered.
- In the composite forest: `vif` and its table, `replace`, `rem`, `imp`, `nand`, `nor`, `xnor`, which
  the managers never call; values are unbounded integers, the code's `i32` wraps or panics.
- Undetermined values (`Undet`) in the two-state manager and in the multi-state analyses: the first
  cannot create them; functions given to `MssMgr` are determined.
- In the ZDD forest: the readers of a handle's header, level and label, and the selections of `count`
  and `extract` other than the default, the sets that are in the family.
- In the MxD forest: `from_meddly_sentinels` (a translation of the arguments of `mxd_singleton`), node
  counts, clones of `Levels`, the assertion that two handles come from one `System`, and the release
  of a `System`. Counts are unbounded; the code's `u128` wraps or panics.
- Graphviz output (formatting, no state), `bdd_stack.rs` and `zdd_stack.rs` (not compiled: no module
  declaration), `evmdd_core` (outside the workspace, used by nothing), benchmarks and examples.
