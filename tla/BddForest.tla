----------------------------- MODULE BddForest -----------------------------
(***************************************************************************)
(* The arena of a BDD forest: bddcore::bdd::BddManager.                    *)
(*                                                                         *)
(* Nodes live in a vector that never shrinks; a node id is an index into   *)
(* it.  Ids 0, 1 and 2 are the terminals.  create_node is hash-consed      *)
(* through a unique table; gc marks from a set of roots and puts every     *)
(* unmarked slot on a free list, whose slots create_node reuses.  Nothing  *)
(* is compacted and freed slots keep their stale content.                  *)
(*                                                                         *)
(* A node's header is identified with its level: bss declares one header   *)
(* per variable with level = number of variables declared before it, so    *)
(* header id and level coincide.  Terminals have level -1 here; the code   *)
(* gives them Level::MAX and excludes that value in every comparison.      *)
(***************************************************************************)
EXTENDS Integers, Sequences, FiniteSets, FiniteSetsExt

CONSTANT Var            \* the variable labels a client may declare

VARIABLES
  headers,   \* labels of the declared variables, in level order
  nodes,     \* node id i is nodes[i + 1] = <<level, low, high>>
  utable,    \* unique table: <<level, low, high>> -> node id
  free,      \* ids of the reclaimed slots (freelist)
  cache,     \* computed tables: <<op, f, g, h>> -> node id
  marked,    \* gc: slots marked live so far
  grey       \* gc: the worklist, slots reached but not yet marked

arena == <<headers, nodes, utable, free>>
tracing == <<marked, grey>>

Zero == 0
One == 1
Undet == 2
Terminals == {Zero, One, Undet}

NoId == -1
NoLevel == -1

Slots == 0 .. Len(nodes) - 1
Alloc == Slots \ free              \* the slots that hold a live or garbage node

Level(i) == nodes[i + 1][1]
Low(i) == nodes[i + 1][2]
High(i) == nodes[i + 1][3]

(* live_node_count: slots that are not on the free list.                   *)
LiveNodeCount == Len(nodes) - Cardinality(free)

ForestInit ==
  /\ headers = <<>>
  /\ nodes = << <<NoLevel, Zero, Zero>>,
                <<NoLevel, One, One>>,
                <<NoLevel, Undet, Undet>> >>
  /\ utable = [k \in {} |-> NoId]
  /\ free = {}
  /\ cache = [k \in {} |-> NoId]
  /\ marked = {}
  /\ grey = {}

----------------------------------------------------------------------------
(* create_node and new_nonterminal.                                        *)

(* The free list is rebuilt in ascending order and only ever popped from   *)
(* its end, so the slot reused next is the largest free one.               *)
LastFree == Max(free)
NewSlot == IF free = {} THEN Len(nodes) ELSE LastFree

(* A node is created only when it is neither redundant nor in the table.   *)
IsNew(l, lo, hi) == lo # hi /\ <<l, lo, hi>> \notin DOMAIN utable

(* The id create_node(l, lo, hi) returns.                                  *)
NodeFor(l, lo, hi) ==
  IF lo = hi THEN lo
  ELSE IF <<l, lo, hi>> \in DOMAIN utable THEN utable[<<l, lo, hi>>]
  ELSE NewSlot

(* Mutant: the write to a reused slot is off by one.                       *)
CreateNodeNextDoor(l, lo, hi) ==
  IF IsNew(l, lo, hi)
    THEN LET key == <<l, lo, hi>>
         IN /\ nodes' = IF free = {} THEN Append(nodes, key)
                        ELSE [nodes EXCEPT ![NewSlot] = key]
            /\ free' = free \ {NewSlot}
            /\ utable' = [k \in DOMAIN utable \cup {key} |->
                            IF k = key THEN NewSlot ELSE utable[k]]
    ELSE UNCHANGED <<nodes, free, utable>>

CreateNode(l, lo, hi) ==
  IF IsNew(l, lo, hi)
    THEN LET key == <<l, lo, hi>>
         IN /\ nodes' = IF free = {} THEN Append(nodes, key)
                        ELSE [nodes EXCEPT ![NewSlot + 1] = key]
            /\ free' = free \ {NewSlot}
            /\ utable' = [k \in DOMAIN utable \cup {key} |->
                            IF k = key THEN NewSlot ELSE utable[k]]
    ELSE UNCHANGED <<nodes, free, utable>>

(* cache_put / ite_cache_put.  The table is a lossy hint: that an entry    *)
(* may be lost is modelled where entries are looked up.                    *)
CachePut(key, id) ==
  cache' = [k \in DOMAIN cache \cup {key} |-> IF k = key THEN id ELSE cache[k]]

----------------------------------------------------------------------------
(* gc: mark, then sweep.  The order in which the worklist is visited does  *)
(* not matter, so one Mark step handles the whole worklist.                *)

Kids(S) == {Low(i) : i \in S} \cup {High(i) : i \in S}

StartMark(roots) ==
  /\ marked' = {}
  /\ grey' = Terminals \cup {r \in roots : r < Len(nodes)}

(* Mutant: only the low edge is followed.                                  *)
MarkLowOnly ==
  /\ grey # {}
  /\ marked' = marked \cup grey
  /\ grey' = {Low(i) : i \in grey} \ (marked \cup grey)

(* Mutant: the worklist does not skip what is marked already.              *)
MarkAgain ==
  /\ grey # {}
  /\ marked' = marked \cup grey
  /\ grey' = Kids(grey)

Mark ==
  /\ grey # {}
  /\ marked' = marked \cup grey
  /\ grey' = Kids(grey) \ (marked \cup grey)

(* Mutants: the sweep forgets the computed tables, the unique table, or    *)
(* drops the whole unique table.                                           *)
SweepWith(table, memo) ==
  /\ grey = {}
  /\ utable' = table
  /\ cache' = memo
  /\ free' = Slots \ marked
  /\ marked' = {}
  /\ UNCHANGED <<headers, nodes, grey>>
LiveTable == [k \in {x \in DOMAIN utable : utable[x] \in marked} |-> utable[k]]
SweepKeepsCache == SweepWith(LiveTable, cache)
SweepKeepsTable == SweepWith(utable, [k \in {} |-> NoId])
SweepClearsTable == SweepWith([k \in {} |-> NoId], [k \in {} |-> NoId])

(* Dead unique-table entries go, memoised results go when an operand or    *)
(* the result is dead, and the free list is rebuilt from every dead slot.  *)
Sweep ==
  /\ grey = {}
  /\ utable' = [k \in {x \in DOMAIN utable : utable[x] \in marked} |-> utable[k]]
  /\ cache' = [k \in {x \in DOMAIN cache :
                        /\ x[2] \in marked /\ x[3] \in marked /\ x[4] \in marked
                        /\ cache[x] \in marked} |-> cache[k]]
  /\ free' = Slots \ marked
  /\ marked' = {}
  /\ UNCHANGED <<headers, nodes, grey>>

----------------------------------------------------------------------------
(* What the arena promises.                                                *)

Inner == Alloc \ Terminals         \* allocated nonterminal slots

Id == Nat
IdOrNone == Nat \cup {NoId}

(* The terminals are where they were put and are never reclaimed.          *)
TerminalsInPlace ==
  /\ Len(nodes) >= 3
  /\ free \cap Terminals = {}
  /\ \A t \in Terminals : nodes[t + 1] = <<NoLevel, t, t>>

ArenaTypeOK ==
  /\ headers \in Seq(Var)
  /\ nodes \in Seq((Nat \cup {NoLevel}) \X Id \X Id)
  /\ TerminalsInPlace
  /\ free \subseteq Slots
  /\ utable \in [DOMAIN utable -> Id] /\ DOMAIN utable \subseteq Nat \X Id \X Id

(* No allocated node has an edge to a reclaimed slot, and levels decrease  *)
(* strictly along edges.                                                   *)
Ordered ==
  \A i \in Inner :
    /\ Low(i) \in Alloc /\ High(i) \in Alloc
    /\ Level(i) \in 0 .. Len(headers) - 1
    /\ Level(Low(i)) < Level(i) /\ Level(High(i)) < Level(i)

(* The unique table holds exactly the allocated nonterminals, each under   *)
(* its own content.                                                        *)
UtableExact ==
  /\ \A i \in Inner : nodes[i + 1] \in DOMAIN utable /\ utable[nodes[i + 1]] = i
  /\ \A k \in DOMAIN utable : utable[k] \in Inner /\ nodes[utable[k] + 1] = k

(* The diagram is reduced: no allocated node is redundant, and no two have *)
(* the same content, whatever create_node, gc and slot reuse did before.   *)
Canonical ==
  /\ \A i \in Inner : Low(i) # High(i)
  /\ \A i, j \in Inner : nodes[i + 1] = nodes[j + 1] => i = j

ArenaInv == Ordered /\ UtableExact /\ Canonical
============================================================================
