----------------------------- MODULE MxdSystem -----------------------------
(***************************************************************************)
(* mxdcore::analysis: a System, the handles it gives out (StateSet and     *)
(* Transitions), and the level sets of a structure function.               *)
(*                                                                         *)
(* A handle pins its node; the pinned nodes are the roots of a collection. *)
(* Only an operation on handles may collect, once its result is pinned: a  *)
(* System's own constructors never do.  A call is one step, the collection *)
(* that follows it is run step by step by MxdEngine.                       *)
(*                                                                         *)
(* A node that is held is kept with its meaning, which no guard reads.     *)
(***************************************************************************)
EXTENDS MxdEngine, MxdOps, StateRelations, BagsExt

CONSTANTS
  Systems,     \* the systems to choose from: sequences of numbers of states
  Structure,   \* structure functions given to levels_from_states, by system
  FoldStructure,  \* structure functions given to levels_from_fold, by system
  Pattern,     \* patterns given to state_pattern, by system
  GcFloor,     \* GC_FLOOR
  MaxCalls,    \* bound: calls that hand out a handle, by system
  Called       \* bound: the calls made in this instance, by system

ASSUME SystemConstants ==
  /\ \A d \in Systems : d # <<>> /\ ToSet(d) \subseteq Domain
  /\ \A d \in Systems : Pattern[d] \subseteq Patterns(d)
  /\ GcFloor \in Nat /\ \A d \in Systems : MaxCalls[d] \in Nat

VARIABLES
  held,        \* the client's handles: a bag of nodes and their meanings
  levels,      \* the client's Levels, or None
  roots,       \* GcState.roots: node -> number of handles
  threshold,   \* GcState.threshold
  collecting,  \* whether gc runs: "no", "auto" or "asked"
  used         \* calls used so far, against the bound

sysvars == <<forest, marked, grey, held, levels, roots, threshold, collecting, used>>

None == [upper |-> <<>>, lower |-> <<>>]

Domains == forest.domains

Init ==
  /\ \E d \in Systems : forest = FoldLeft(DefVar, NewForest, d)
  /\ marked = {} /\ grey = {}
  /\ held = <<>>
  /\ levels = None
  /\ roots = <<>>
  /\ threshold = GcFloor
  /\ collecting = "no"
  /\ used = 0

----------------------------------------------------------------------------
Entry(sort, node, fn) == [sort |-> sort, node |-> node, fn |-> fn]

NodesOf(entries) == [k \in DOMAIN entries |-> entries[k].node]
FnsOf(entries) == [k \in DOMAIN entries |-> entries[k].fn]

CountCall == collecting = "no" /\ used < MaxCalls[Domains] /\ used' = used + 1

(* from_weak: one more handle of a node.                                   *)
Pin(e) ==
  /\ held' = BagAdd(held, e)
  /\ roots' = BagAdd(roots, e.node)

(* maybe_gc: it begins to mark what is pinned by now.                      *)
MaybeGc(st) ==
  /\ forest' = st
  /\ IF LiveNodeCount(st) < threshold
       THEN UNCHANGED <<marked, grey, collecting>>
       ELSE StartMark(st, DOMAIN roots') /\ collecting' = "auto"

(* System::wrap_set, wrap_rel: a constructor's result is pinned, no more.  *)
Construct(sort, r, fn) ==
  /\ CountCall
  /\ Pin(Entry(sort, r[1], fn))
  /\ forest' = r[2]
  /\ UNCHANGED <<marked, grey, levels, threshold, collecting>>

(* Mutant: the collection comes before the result is pinned.               *)
RewrapLate(e, st) ==
  /\ CountCall
  /\ Pin(e)
  /\ forest' = st
  /\ IF LiveNodeCount(st) < threshold
       THEN UNCHANGED <<marked, grey, collecting>>
       ELSE StartMark(st, DOMAIN roots) /\ collecting' = "auto"
  /\ UNCHANGED <<levels, threshold>>

(* rewrap: the result of an operation on handles is pinned, then maybe_gc. *)
Rewrap(e, st) ==
  /\ CountCall
  /\ Pin(e)
  /\ MaybeGc(st)
  /\ UNCHANGED <<levels, threshold>>

----------------------------------------------------------------------------
(* A System's constructors.                                                *)

(* The moves that a component with n states can make.                      *)
MovesOf(name, n) ==
  CASE name = "degrade" -> {<<v, v - 1>> : v \in 1 .. n - 1}
    [] name = "repair" -> {<<v, v + 1>> : v \in 0 .. n - 2}
    [] name = "restart" -> {<<v, n - 1>> : v \in 0 .. n - 2}
    [] name = "fail" -> {<<v, 0>> : v \in 1 .. n - 1}

(* steps: one component makes one of the moves, the others hold.  `below`  *)
(* are the steps of the components so far.                                 *)
StepsBlock(a, l, moves, below) ==
  [c \in Cells(a, l) |->
     IF c[1] = c[2] THEN below ELSE IF c \in moves THEN One ELSE Zero]

Steps(a, name) ==
  LET add(acc, l) ==
        RelNode(acc[2], l, StepsBlock(a, l, MovesOf(name, a.domains[l + 1]), acc[1]))
  IN FoldLeft(add, <<Zero, a>>, [k \in DOMAIN a.domains |-> k - 1])

ComponentSteps(name) ==
  Construct("rel", Steps(forest, name), StepsOf(Domains, name))

AnyState(d) == [k \in DOMAIN d |-> <<"any">>]
NoChange(d) == [k \in DOMAIN d |-> <<"same">>]

(* single: the other components hold.                                      *)
Single(k, s, t) ==
  Construct("rel",
    Singleton(forest, [AnyState(Domains) EXCEPT ![k] = <<"val", s>>],
              [NoChange(Domains) EXCEPT ![k] = <<"val", t>>]),
    SingleOf(Domains, k, s, t))

Stay ==
  Construct("rel", Singleton(forest, AnyState(Domains), NoChange(Domains)), Identity(Domains))

NoTransitions == Construct("rel", <<Zero, forest>>, {})
AllStates == Construct("set", <<One, forest>>, Omega(Domains))
NoStates == Construct("set", <<Zero, forest>>, {})

(* state_pattern; state is the pattern without <<"any">>.                  *)
StatePattern(src) ==
  Construct("set", SetMinterm(forest, src),
            {x \in Omega(Domains) : \A k \in DOMAIN x : AdmitsSource(src[k], x[k])})

----------------------------------------------------------------------------
(* Level sets.  The two loops build one set after the other and pin both;  *)
(* nothing is collected in between.                                        *)

(* build_set: `x` are the states of the levels above l.                    *)
RECURSIVE BuildSet(_, _, _, _)
BuildSet(a, l, x, keep) ==
  IF l < 0 THEN <<IF x \in keep THEN One ELSE Zero, a>>
  ELSE LET visit(acc, s) == Collected(acc, s, BuildSet(acc[2], l - 1, <<s>> \o x, keep))
       IN AsSetNode(l, FoldLeft(visit, <<<<>>, a>>, StateSeq(a, l)))

(* fold_set, which memoises on the level and the accumulator.  A fold is a *)
(* record of its first accumulator, its step and its value.                *)
Kept(level, acc, r) == [r EXCEPT ![3] = Extend(@, <<level, acc>>, r[1])]

RECURSIVE SetOfFold(_, _, _, _, _, _)
SetOfFold(a, l, acc, fold, keep, memo) ==
  IF l < 0 THEN <<IF fold.value[acc] \in keep THEN One ELSE Zero, a, memo>>
  ELSE IF <<l, acc>> \in DOMAIN memo THEN <<memo[<<l, acc>>], a, memo>>
  ELSE LET add(m, s, r) == <<Extend(m[1], s, r[1]), r[2], r[3]>>
           visit(m, s) == add(m, s, SetOfFold(m[2], l - 1, fold.step[<<acc, l, s>>], fold, keep, m[3]))
           made(m) == AsSetNode(l, m) \o <<m[3]>>
       IN Kept(l, acc, made(FoldLeft(visit, <<<<>>, a, memo>>, StateSeq(a, l))))

BothSets(acc, u, l) ==
  [upper |-> Append(acc.upper, u[1]), lower |-> Append(acc.lower, l[1]), forest |-> l[2]]

NoSets == [upper |-> <<>>, lower |-> <<>>, forest |-> forest]

TableLevels(phi) ==
  LET top == TopLevel(forest)
      where(j, up) == {x \in DOMAIN phi : phi[x] >= j <=> up}
      lowerOf(acc, j, u) == BothSets(acc, u, BuildSet(u[2], top, <<>>, where(j, FALSE)))
      visit(acc, j) == lowerOf(acc, j, BuildSet(acc.forest, top, <<>>, where(j, TRUE)))
  IN FoldLeft(visit, NoSets, [k \in 1 .. Max({phi[x] : x \in DOMAIN phi}) + 1 |-> k - 1])

FoldLevels(fold, highest) ==
  LET top == TopLevel(forest)
      build(st, keep) == SetOfFold(st, top, fold.init, fold, keep, <<>>)
      lowerOf(acc, j, u) == BothSets(acc, u, build(u[2], 0 .. j - 1))
      visit(acc, j) == lowerOf(acc, j, build(acc.forest, j .. highest))
  IN FoldLeft(visit, NoSets, [k \in 1 .. highest + 1 |-> k - 1])

(* Both vectors of handles are pinned; phi tells what the sets are.        *)
MakeLevels(made, phi) ==
  LET entry(i, sets, up) ==
        Entry("set", sets[i], {x \in DOMAIN phi : phi[x] >= i - 1 <=> up})
      vector(sets, up) == [i \in DOMAIN sets |-> entry(i, sets, up)]
  IN /\ CountCall
     /\ levels = None
     /\ levels' = [upper |-> vector(made.upper, TRUE), lower |-> vector(made.lower, FALSE)]
     /\ roots' = FoldLeft(BagAdd, roots, made.upper \o made.lower)
     /\ forest' = made.forest
     /\ UNCHANGED <<marked, grey, held, threshold, collecting>>

LevelsFromStates(phi) == MakeLevels(TableLevels(phi), phi)

LevelsFromFold(fold) ==
  LET phi == FoldedValue(Domains, fold)
  IN MakeLevels(FoldLevels(fold, Max({phi[x] : x \in DOMAIN phi})), phi)

----------------------------------------------------------------------------
(* Operations on handles.                                                  *)

Perform(a, op, ns) ==
  CASE op = "setdiff_set" -> Without(a, "not_set", "and_set", ns[1], ns[2])
    [] op = "setdiff_rel" -> Without(a, "not_rel", "and_rel", ns[1], ns[2])
    [] op = "sources" -> Apply(a, "pre_image", <<One, ns[1]>>)
    [] op = "targets" -> Apply(a, "post_image", <<One, ns[1]>>)
    [] OTHER -> Apply(a, op, ns)

Handle(op, r, fns) == Rewrap(Entry(Result(op), r[1], Meaning(op, Domains, fns)), r[2])

Invoke(op, es) ==
  /\ [k \in DOMAIN es |-> es[k].sort] = Takes(op)
  /\ Handle(op, Perform(forest, op, NodesOf(es)), FnsOf(es))

(* boundary_up and boundary_down: the clones of the two level sets live as *)
(* long as the call, and pin nothing that is not pinned.                   *)
BoundaryAt(e, j, up) ==
  /\ e.sort = "rel"
  /\ j \in DOMAIN levels.upper
  /\ Invoke("boundary", IF up THEN <<levels.lower[j], levels.upper[j], e>>
                        ELSE <<levels.upper[j], levels.lower[j], e>>)

----------------------------------------------------------------------------
(* Handles come and go.                                                    *)

CloneHandle(e) ==
  /\ CountCall
  /\ Pin(e)
  /\ UNCHANGED <<forest, marked, grey, levels, threshold, collecting>>

DropHandle(e) ==
  /\ collecting = "no"
  /\ held' = BagRemove(held, e)
  /\ roots' = BagRemove(roots, e.node)
  /\ UNCHANGED <<forest, marked, grey, levels, threshold, collecting, used>>

(* Mutant: the roots of the lower sets stay.                               *)
DropUpperOnly ==
  /\ collecting = "no"
  /\ levels # None
  /\ levels' = None
  /\ roots' = FoldLeft(BagRemove, roots, NodesOf(levels.upper))
  /\ UNCHANGED <<forest, marked, grey, held, threshold, collecting, used>>

DropLevels ==
  /\ collecting = "no"
  /\ levels # None
  /\ levels' = None
  /\ roots' = FoldLeft(BagRemove, roots, NodesOf(levels.upper \o levels.lower))
  /\ UNCHANGED <<forest, marked, grey, held, threshold, collecting, used>>

(* System::gc.                                                             *)
ExplicitGc ==
  /\ collecting = "no"
  /\ StartMark(forest, DOMAIN roots)
  /\ collecting' = "asked"
  /\ UNCHANGED <<forest, held, levels, roots, threshold, used>>

Collect ==
  \/ /\ Mark
     /\ UNCHANGED <<held, levels, roots, threshold, collecting, used>>
  \/ /\ Sweep
     /\ collecting' = "no"
     /\ threshold' = IF collecting = "auto" THEN Max({2 * LiveNodeCount(forest'), GcFloor})
                     ELSE threshold
     /\ UNCHANGED <<held, levels, roots, used>>

----------------------------------------------------------------------------
Calls(name) == name \in Called[Domains]

Constructor ==
  \/ \E name \in {"degrade", "repair", "restart", "fail"} : Calls(name) /\ ComponentSteps(name)
  \/ Calls("single") /\ \E k \in DOMAIN Domains :
       \E s, t \in States(forest, k - 1) : Single(k, s, t)
  \/ Calls("stay") /\ Stay
  \/ Calls("constants") /\ (NoTransitions \/ AllStates \/ NoStates)
  \/ \E src \in Pattern[Domains] : StatePattern(src)
  \/ \E phi \in Structure[Domains] : LevelsFromStates(phi)
  \/ \E fold \in FoldStructure[Domains] : LevelsFromFold(fold)

Operation ==
  \/ \E op \in Operations : Calls(op) /\ \E es \in [1 .. Len(Takes(op)) -> DOMAIN held] : Invoke(op, es)
  \/ \E e \in DOMAIN held : \E j \in DOMAIN levels.upper : \E up \in BOOLEAN : BoundaryAt(e, j, up)
  \/ \E e \in DOMAIN held \cup ToSet(levels.upper) \cup ToSet(levels.lower) : CloneHandle(e)

Next ==
  \/ Constructor \/ Operation
  \/ \E e \in DOMAIN held : DropHandle(e)
  \/ DropLevels
  \/ ExplicitGc
  \/ Collect

Spec == Init /\ [][Next]_sysvars
----------------------------------------------------------------------------
(* What mxdcore promises.                                                  *)

Top == TopLevel(forest)
Listed(sort, i, l) == IF sort = "set" THEN VectorsTo(forest, i, l) ELSE PairsTo(forest, i, l)
InList(sort, i, l) == ToSet(Listed(sort, i, l))

Handles == DOMAIN held \cup ToSet(levels.upper) \cup ToSet(levels.lower)

(* A listing of vectors follows the order of the components, the last one  *)
(* first.                                                                  *)
Before(x, y) ==
  \E k \in DOMAIN x : x[k] < y[k] /\ \A j \in k + 1 .. Len(x) : x[j] = y[j]

(* Whatever was built, shared, collected and recycled since, every handle, *)
(* those inside Levels included, lists exactly the state vectors or the    *)
(* transitions that its operations define, each once, the vectors in       *)
(* order; its count, which enumerates nothing, is their number.            *)
HandlesExact ==
  \A e \in Handles :
    LET list == Listed(e.sort, e.node, Top)
    IN /\ ToSet(list) = e.fn
       /\ Len(list) = Cardinality(e.fn)
       /\ e.sort = "set" => \A k \in 1 .. Len(list) - 1 : Before(list[k], list[k + 1])
       /\ Count(forest, e.node, Top, e.sort) = Cardinality(e.fn)

(* The roots of a collection are the handles, those inside Levels          *)
(* included, each as often as it is held; sets and relations that share a  *)
(* terminal share its count.                                               *)
CountOf(i) ==
  LET inBag == {e \in DOMAIN held : e.node = i}
      inLevels == SelectSeq(levels.upper \o levels.lower, LAMBDA e : e.node = i)
  IN MapThenSumSet(LAMBDA e : held[e], inBag) + Len(inLevels)

RootsExact ==
  \A i \in Live(forest) : CountOf(i) = IF i \in DOMAIN roots THEN roots[i] ELSE 0
=============================================================================
