--------------------------- MODULE BddMgr_proofs ----------------------------
(***************************************************************************)
(* The safety of BddMgr, for every number of variables, handles, calls and *)
(* tokens: IInv is inductive, and the properties of BddInvariant follow    *)
(* from it.                                                                *)
(*                                                                         *)
(* First come lemmas about the arena: what create_node and a collection do *)
(* to it.  Then about the recursive operations: a step of a recursion only *)
(* adds to the arena, and what it returns never lies above its operands,   *)
(* which is what keeps the diagram ordered.  None of them depends on who   *)
(* calls.                                                                  *)
(***************************************************************************)
EXTENDS BddInvariant, SlotLemmas, SequenceTheorems, TLAPS

----------------------------------------------------------------------------
(* The arena and the recursive operations.                                 *)

(* What a step may do to the arena under the feet of those who hold ids:   *)
(* allocate, but neither reclaim nor overwrite.                            *)
Grows ==
  /\ Alloc \subseteq Alloc'
  /\ \A i \in Alloc : nodes'[i + 1] = nodes[i + 1]

(* The slot create_node takes next is not in use.                          *)
LEMMA NewSlotIsNotAllocated ==
  ASSUME ArenaTypeOK
  PROVE  /\ NewSlot \in Nat
         /\ free = {} => NewSlot = Len(nodes)
         /\ free # {} => NewSlot \in free
<1>1. Len(nodes) \in Nat
  BY DEF ArenaTypeOK
<1>2. free \in SUBSET (0 .. Len(nodes) - 1)
  BY DEF ArenaTypeOK, Slots
<1>3. CASE free = {}
  BY <1>1, <1>3 DEF NewSlot
<1>4. CASE free # {}
  <2>1. \E m \in free : \A j \in free : j <= m
    BY <1>1, <1>2, <1>4, MaxExists
  <2>2. LastFree \in free
    BY <1>1, <1>2, <2>1 DEF LastFree, Max
  <2>3. LastFree \in 0 .. Len(nodes) - 1
    BY <1>2, <2>2
  <2> QED BY <1>1, <1>4, <2>2, <2>3 DEF NewSlot
<1> QED BY <1>3, <1>4

(* Types of the parts of a slot.                                           *)
LEMMA SlotTypes ==
  ASSUME ArenaTypeOK
  PROVE  /\ Slots \subseteq Nat /\ Alloc \subseteq Slots /\ Terminals \subseteq Alloc
         /\ Inner \subseteq Alloc
         /\ \A i \in Slots : /\ nodes[i + 1] \in (Nat \cup {NoLevel}) \X Id \X Id
                             /\ Level(i) \in Nat \cup {NoLevel}
                             /\ Low(i) \in Nat /\ High(i) \in Nat
                             /\ nodes[i + 1] = <<Level(i), Low(i), High(i)>>
         /\ \A t \in Terminals : Level(t) = NoLevel /\ Low(t) = t /\ High(t) = t
<1>1. Slots \subseteq Nat /\ Alloc \subseteq Slots /\ Inner \subseteq Alloc
  BY DEF Slots, Alloc, Inner
<1>2. Terminals \subseteq Alloc
  BY DEF ArenaTypeOK, TerminalsInPlace, Terminals, Alloc, Slots, Zero, One, Undet
<1>3. ASSUME NEW i \in Slots
      PROVE  /\ nodes[i + 1] \in (Nat \cup {NoLevel}) \X Id \X Id
             /\ Level(i) \in Nat \cup {NoLevel}
             /\ Low(i) \in Nat /\ High(i) \in Nat
             /\ nodes[i + 1] = <<Level(i), Low(i), High(i)>>
  <2>1. i + 1 \in 1 .. Len(nodes)
    BY DEF Slots, ArenaTypeOK
  <2>2. nodes[i + 1] \in (Nat \cup {NoLevel}) \X Id \X Id
    BY <2>1 DEF ArenaTypeOK
  <2> QED BY <2>2 DEF Level, Low, High, Id
<1>4. \A t \in Terminals : Level(t) = NoLevel /\ Low(t) = t /\ High(t) = t
  BY DEF ArenaTypeOK, TerminalsInPlace, Level, Low, High
<1> QED BY <1>1, <1>2, <1>3, <1>4

(* What create_node does to the slots when it makes a new node.            *)
LEMMA NewNode ==
  ASSUME ArenaTypeOK,
         NEW l \in Nat, NEW lo \in Alloc, NEW hi \in Alloc,
         CreateNode(l, lo, hi), IsNew(l, lo, hi)
  PROVE  /\ NewSlot \in Nat /\ NewSlot \notin Alloc
         /\ nodes' \in Seq((Nat \cup {NoLevel}) \X Id \X Id)
         /\ Slots' = Slots \cup {NewSlot} /\ Alloc' = Alloc \cup {NewSlot}
         /\ free' \subseteq Slots'
         /\ nodes'[NewSlot + 1] = <<l, lo, hi>>
         /\ \A i \in Alloc : nodes'[i + 1] = nodes[i + 1]
         /\ NodeFor(l, lo, hi) = NewSlot
<1> DEFINE key == <<l, lo, hi>>
           Cell == (Nat \cup {NoLevel}) \X Id \X Id
<1>1. key \in Cell
  BY SlotTypes DEF Id
<1>2. NodeFor(l, lo, hi) = NewSlot
  BY DEF NodeFor, IsNew
<1>3. nodes \in Seq(Cell) /\ Len(nodes) \in Nat
  BY DEF ArenaTypeOK
<1>4. CASE free = {}
  <2>1. nodes' = Append(nodes, key) /\ free' = {} /\ NewSlot = Len(nodes)
    BY <1>4 DEF CreateNode, NewSlot
  <2>2. nodes' \in Seq(Cell) /\ Len(nodes') = Len(nodes) + 1
        /\ nodes'[Len(nodes) + 1] = key
        /\ \A k \in 1 .. Len(nodes) : nodes'[k] = nodes[k]
    BY <1>1, <1>3, <2>1
  <2>3. Slots' = Slots \cup {NewSlot}
    BY <1>3, <2>1, <2>2 DEF Slots
  <2> HIDE DEF Cell, key
  <2> QED BY <1>2, <1>3, <1>4, <2>1, <2>2, <2>3 DEF Alloc, Slots, Cell, key
<1>5. CASE free # {}
  <2>1. nodes' = [nodes EXCEPT ![NewSlot + 1] = key] /\ free' = free \ {NewSlot}
    BY <1>5 DEF CreateNode
  <2>2. NewSlot \in free /\ NewSlot + 1 \in 1 .. Len(nodes) /\ NewSlot \in Nat
    BY <1>3, <1>5, NewSlotIsNotAllocated DEF ArenaTypeOK, Slots
  <2>3. nodes' \in Seq(Cell) /\ Len(nodes') = Len(nodes)
        /\ nodes'[NewSlot + 1] = key
        /\ \A k \in 1 .. Len(nodes) : k # NewSlot + 1 => nodes'[k] = nodes[k]
    BY <1>1, <1>3, <2>1, <2>2
  <2>4. Slots' = Slots
    BY <2>3 DEF Slots
  <2> HIDE DEF Cell, key
  <2>5. Alloc' = Alloc \cup {NewSlot} /\ NewSlot \notin Alloc /\ NewSlot \in Slots
    BY <2>1, <2>2, <2>4 DEF Alloc, ArenaTypeOK
  <2>6. \A i \in Alloc : nodes'[i + 1] = nodes[i + 1]
    BY <1>3, <2>2, <2>3, <2>5, SMTT(30) DEF Alloc, Slots
  <2> QED BY <1>2, <2>1, <2>2, <2>3, <2>4, <2>5, <2>6 DEF Cell, key, ArenaTypeOK
<1> QED BY <1>4, <1>5

(* A new node is not a terminal, and the old ones keep their parts.        *)
LEMMA NewNodeParts ==
  ASSUME ArenaTypeOK,
         NEW l \in Nat, NEW lo \in Alloc, NEW hi \in Alloc,
         CreateNode(l, lo, hi), IsNew(l, lo, hi),
         NEW n, n = NewSlot
  PROVE  /\ Inner' = Inner \cup {n} /\ n \notin Inner
         /\ Level(n)' = l /\ Low(n)' = lo /\ High(n)' = hi
         /\ \A i \in Alloc : /\ Level(i)' = Level(i)
                             /\ Low(i)' = Low(i) /\ High(i)' = High(i)
<1>1. /\ n \in Nat /\ n \notin Alloc
      /\ Alloc' = Alloc \cup {n}
      /\ nodes'[n + 1] = <<l, lo, hi>>
      /\ \A i \in Alloc : nodes'[i + 1] = nodes[i + 1]
  BY NewNode
<1>2. n \notin Terminals
  BY <1>1, SlotTypes
<1>3. Inner' = Inner \cup {n} /\ n \notin Inner
  BY <1>1, <1>2 DEF Inner
<1>4. Level(n)' = l /\ Low(n)' = lo /\ High(n)' = hi
  BY <1>1 DEF Level, Low, High
<1>5. \A i \in Alloc : Level(i)' = Level(i) /\ Low(i)' = Low(i) /\ High(i)' = High(i)
  BY <1>1 DEF Level, Low, High
<1> QED BY <1>3, <1>4, <1>5

LEMMA CreateNodeStep ==
  ASSUME ArenaTypeOK, ArenaInv,
         NEW l \in Nat, NEW lo \in Alloc, NEW hi \in Alloc,
         Level(lo) < l, Level(hi) < l,
         headers' \in Seq(Var), Len(headers) <= Len(headers'), l < Len(headers'),
         CreateNode(l, lo, hi)
  PROVE  /\ ArenaTypeOK' /\ ArenaInv' /\ Grows
         /\ NodeFor(l, lo, hi) \in Alloc' /\ NodeFor(l, lo, hi) \in Nat
         /\ nodes'[NodeFor(l, lo, hi) + 1][1] <= l
         /\ lo # hi => nodes'[NodeFor(l, lo, hi) + 1] = <<l, lo, hi>>
<1> DEFINE key == <<l, lo, hi>>
<1>1. CASE ~ IsNew(l, lo, hi)
  <2>1. nodes' = nodes /\ free' = free /\ utable' = utable
    BY <1>1 DEF CreateNode
  <2>2. Slots' = Slots /\ Alloc' = Alloc /\ Inner' = Inner
    BY <2>1 DEF Slots, Alloc, Inner
  <2>3. \A i : Level(i)' = Level(i) /\ Low(i)' = Low(i) /\ High(i)' = High(i)
    BY <2>1 DEF Level, Low, High
  <2>4. ArenaTypeOK'
    BY <2>1, <2>2 DEF ArenaTypeOK, TerminalsInPlace
  <2>5. Ordered'
    <3>1. Len(headers) \in Nat /\ Len(headers') \in Nat
      BY DEF ArenaTypeOK
    <3>2. \A k \in 0 .. Len(headers) - 1 : k \in 0 .. Len(headers') - 1
      BY <3>1
    <3> QED BY <2>2, <2>3, <3>2 DEF ArenaInv, Ordered
  <2>6. UtableExact' /\ Canonical'
    BY <2>1, <2>2, <2>3 DEF ArenaInv, UtableExact, Canonical
  <2>7. /\ NodeFor(l, lo, hi) \in Alloc
        /\ Level(NodeFor(l, lo, hi)) <= l
        /\ lo # hi => nodes[NodeFor(l, lo, hi) + 1] = <<l, lo, hi>>
    <3>1. CASE lo = hi
      <4>1. Level(lo) \in Int
        BY SlotTypes DEF NoLevel
      <4> QED BY <3>1, <4>1 DEF NodeFor
    <3>2. CASE lo # hi
      <4>1. key \in DOMAIN utable /\ NodeFor(l, lo, hi) = utable[key]
        BY <1>1, <3>2 DEF IsNew, NodeFor
      <4>2. utable[key] \in Inner /\ nodes[utable[key] + 1] = key
        BY <4>1 DEF ArenaInv, UtableExact
      <4> QED BY <4>1, <4>2 DEF Inner, Level
    <3> QED BY <3>1, <3>2
  <2>8. NodeFor(l, lo, hi) \in Nat
    BY <2>7, SlotTypes
  <2> QED BY <2>1, <2>2, <2>4, <2>5, <2>6, <2>7, <2>8 DEF ArenaInv, Grows, Level
<1>2. CASE IsNew(l, lo, hi)
  <2>0. PICK n : n = NewSlot
    OBVIOUS
  <2>1. /\ n \in Nat /\ n \notin Alloc
        /\ nodes' \in Seq((Nat \cup {NoLevel}) \X Id \X Id)
        /\ Slots' = Slots \cup {n} /\ Alloc' = Alloc \cup {n}
        /\ free' \subseteq Slots'
        /\ nodes'[n + 1] = key
        /\ \A i \in Alloc : nodes'[i + 1] = nodes[i + 1]
        /\ NodeFor(l, lo, hi) = n
    BY <1>2, <2>0, NewNode
  <2>2. /\ Inner' = Inner \cup {n} /\ n \notin Inner
        /\ Level(n)' = l /\ Low(n)' = lo /\ High(n)' = hi
        /\ \A i \in Alloc : /\ Level(i)' = Level(i)
                            /\ Low(i)' = Low(i) /\ High(i)' = High(i)
    BY <1>2, <2>0, NewNodeParts
  <2>3. /\ DOMAIN utable' = DOMAIN utable \cup {key}
        /\ utable'[key] = n
        /\ \A k \in DOMAIN utable : k # key /\ utable'[k] = utable[k]
    BY <1>2, <2>0 DEF CreateNode, IsNew
  <2>4. ArenaTypeOK'
    <3>1. key \in Nat \X Id \X Id
      BY SlotTypes DEF Id
    <3>2. utable' \in [DOMAIN utable' -> Id] /\ DOMAIN utable' \subseteq Nat \X Id \X Id
      <4>1. utable' = [k \in DOMAIN utable \cup {key} |->
                         IF k = key THEN n ELSE utable[k]]
        BY <1>2, <2>0 DEF CreateNode
      <4>2. utable' \in [DOMAIN utable \cup {key} -> Id]
        <5> HIDE DEF key
        <5> QED BY <2>1, <4>1 DEF ArenaTypeOK, Id
      <4> QED BY <2>3, <3>1, <4>2 DEF ArenaTypeOK
    <3>3. TerminalsInPlace'
      <4>1. Len(nodes') \in Nat /\ Len(nodes) \in Nat
        BY <2>1 DEF ArenaTypeOK
      <4>2. Len(nodes') >= Len(nodes)
        <5>1. Slots \subseteq Slots'
          BY <2>1
        <5>2. Len(nodes) >= 3
          BY DEF ArenaTypeOK, TerminalsInPlace
        <5>3. Len(nodes) - 1 \in Slots
          BY <4>1, <5>2 DEF Slots
        <5> QED BY <4>1, <5>1, <5>3 DEF Slots
      <4>3. \A t \in Terminals : t \in Alloc /\ t \in Alloc'
        BY <2>1, SlotTypes
      <4>4. free' \cap Terminals = {}
        BY <4>3 DEF Alloc
      <4>5. \A t \in Terminals : nodes'[t + 1] = <<NoLevel, t, t>>
        BY <2>1, <4>3 DEF ArenaTypeOK, TerminalsInPlace
      <4> QED BY <4>1, <4>2, <4>4, <4>5 DEF ArenaTypeOK, TerminalsInPlace
    <3> QED BY <2>1, <3>2, <3>3 DEF ArenaTypeOK
  <2>5. Ordered'
    <3>1. Len(headers) \in Nat /\ Len(headers') \in Nat
      BY DEF ArenaTypeOK
    <3>2. \A k \in 0 .. Len(headers) - 1 : k \in 0 .. Len(headers') - 1
      BY <3>1
    <3>3. l \in 0 .. Len(headers') - 1
      BY <3>1
    <3>4. ASSUME NEW i \in Inner
          PROVE  /\ Low(i)' \in Alloc' /\ High(i)' \in Alloc'
                 /\ Level(i)' \in 0 .. Len(headers') - 1
                 /\ Level(Low(i))' < Level(i)' /\ Level(High(i))' < Level(i)'
      <4>1. i \in Alloc /\ Low(i) \in Alloc /\ High(i) \in Alloc
            /\ Level(i) \in 0 .. Len(headers) - 1
            /\ Level(Low(i)) < Level(i) /\ Level(High(i)) < Level(i)
        BY SlotTypes DEF ArenaInv, Ordered
      <4>2. Level(i)' = Level(i) /\ Low(i)' = Low(i) /\ High(i)' = High(i)
        BY <2>2, <4>1
      <4>3. Level(Low(i))' = Level(Low(i)) /\ Level(High(i))' = Level(High(i))
        BY <2>1, <4>1, <4>2 DEF Level
      <4> QED BY <2>1, <3>2, <4>1, <4>2, <4>3
    <3>5. /\ Low(n)' \in Alloc' /\ High(n)' \in Alloc'
          /\ nodes'[lo + 1][1] < l /\ nodes'[hi + 1][1] < l
      BY <2>1, <2>2 DEF Level
    <3>6. ASSUME NEW i \in Inner'
          PROVE  /\ Low(i)' \in Alloc' /\ High(i)' \in Alloc'
                 /\ Level(i)' \in 0 .. Len(headers') - 1
                 /\ Level(Low(i))' < Level(i)' /\ Level(High(i))' < Level(i)'
      <4>1. CASE i \in Inner
        BY <3>4, <4>1
      <4>2. CASE i = n
        BY <2>2, <3>3, <3>5, <4>2 DEF Level, Low, High
      <4> QED BY <2>2, <4>1, <4>2
    <3> QED BY <3>6 DEF Ordered
  <2>6. UtableExact'
    <3>1. \A i \in Inner : /\ nodes'[i + 1] \in DOMAIN utable'
                           /\ utable'[nodes'[i + 1]] = i
      BY <2>1, <2>3, SlotTypes DEF ArenaInv, UtableExact
    <3>2. ASSUME NEW k \in DOMAIN utable
          PROVE  utable'[k] \in Inner' /\ nodes'[utable'[k] + 1] = k
      <4>1. utable[k] \in Inner /\ nodes[utable[k] + 1] = k
        BY DEF ArenaInv, UtableExact
      <4>2. utable[k] \in Alloc /\ utable'[k] = utable[k]
        BY <2>3, <4>1, SlotTypes
      <4> QED BY <2>1, <2>2, <4>1, <4>2
    <3> HIDE DEF key
    <3> QED BY <2>1, <2>2, <2>3, <3>1, <3>2 DEF UtableExact
  <2>7. Canonical'
    <3>1. ASSUME NEW i \in Inner PROVE Low(i)' # High(i)'
      BY <2>2, SlotTypes DEF ArenaInv, Canonical
    <3>2. lo # hi
      BY <1>2 DEF IsNew
    <3>3. \A i, j \in Inner' : nodes'[i + 1] = nodes'[j + 1] => i = j
      BY <2>6 DEF UtableExact
    <3>4. \A i \in Inner' : Low(i)' # High(i)'
      BY <2>2, <3>1, <3>2 DEF Low, High
    <3> QED BY <3>3, <3>4 DEF Canonical
  <2> HIDE DEF key
  <2> QED BY <2>1, <2>4, <2>5, <2>6, <2>7 DEF ArenaInv, Grows, key
<1> QED BY <1>1, <1>2

(* A sweep of a closed set of marked slots leaves a well-formed arena that *)
(* consists of just these slots.                                           *)
LEMMA SweepArena ==
  ASSUME ArenaTypeOK, ArenaInv, Sweep,
         Terminals \subseteq marked, marked \subseteq Alloc, Kids(marked) \subseteq marked
  PROVE  /\ ArenaTypeOK' /\ ArenaInv'
         /\ Alloc' = marked /\ nodes' = nodes
<1>1. /\ nodes' = nodes /\ headers' = headers /\ free' = Slots \ marked
      /\ utable' = [k \in {x \in DOMAIN utable : utable[x] \in marked} |-> utable[k]]
  BY DEF Sweep
<1>2. Slots' = Slots /\ Alloc' = marked
  BY <1>1, SlotTypes DEF Alloc, Slots
<1>3. Inner' = marked \ Terminals /\ Inner' \subseteq Inner
  BY <1>2 DEF Inner
<1>4. \A i : Level(i)' = Level(i) /\ Low(i)' = Low(i) /\ High(i)' = High(i)
  BY <1>1 DEF Level, Low, High
<1>5. /\ DOMAIN utable' = {x \in DOMAIN utable : utable[x] \in marked}
      /\ \A k \in DOMAIN utable' : utable'[k] = utable[k]
  BY <1>1
<1>6. ArenaTypeOK'
  <2>1. utable' \in [DOMAIN utable' -> Id] /\ DOMAIN utable' \subseteq Nat \X Id \X Id
    BY <1>1, <1>5 DEF ArenaTypeOK
  <2>2. TerminalsInPlace'
    BY <1>1 DEF ArenaTypeOK, TerminalsInPlace
  <2> QED BY <1>1, <1>2, <2>1, <2>2 DEF ArenaTypeOK
<1>7. Ordered'
  <2> SUFFICES ASSUME NEW i \in Inner'
               PROVE  /\ Low(i) \in Alloc' /\ High(i) \in Alloc'
                      /\ Level(i) \in 0 .. Len(headers) - 1
                      /\ Level(Low(i)) < Level(i) /\ Level(High(i)) < Level(i)
    BY <1>1 DEF Ordered, Level, Low, High
  <2>1. Low(i) \in marked /\ High(i) \in marked
    BY <1>3 DEF Kids
  <2> QED BY <1>2, <1>3, <2>1 DEF ArenaInv, Ordered
<1>8. UtableExact'
  <2>1. ASSUME NEW i \in Inner'
        PROVE  nodes'[i + 1] \in DOMAIN utable' /\ utable'[nodes'[i + 1]] = i
    BY <1>1, <1>3, <1>5 DEF ArenaInv, UtableExact
  <2>2. ASSUME NEW k \in DOMAIN utable'
        PROVE  utable'[k] \in Inner' /\ nodes'[utable'[k] + 1] = k
    <3>1. utable[k] \in Inner /\ nodes[utable[k] + 1] = k /\ utable[k] \in marked
      BY <1>5 DEF ArenaInv, UtableExact
    <3> QED BY <1>1, <1>3, <1>5, <3>1 DEF Inner
  <2> QED BY <2>1, <2>2 DEF UtableExact
<1>9. Canonical'
  <2>1. \A i \in Inner' : Low(i)' # High(i)'
    BY <1>3, <1>4 DEF ArenaInv, Canonical
  <2>2. \A i, j \in Inner' : nodes'[i + 1] = nodes'[j + 1] => i = j
    BY <1>1, <1>3 DEF ArenaInv, Canonical
  <2> QED BY <2>1, <2>2 DEF Canonical
<1> QED BY <1>1, <1>2, <1>6, <1>7, <1>8, <1>9 DEF ArenaInv

(* One round of marking keeps to allocated slots and adds the children of  *)
(* what it marks to the worklist.                                          *)
LEMMA MarkClosure ==
  ASSUME ArenaTypeOK, ArenaInv, Mark, marked \cup grey \subseteq Alloc,
         Kids(marked) \subseteq marked \cup grey, UNCHANGED nodes
  PROVE  /\ marked \cup grey \subseteq marked' \cup grey'
         /\ marked' \cup grey' \subseteq Alloc
         /\ Kids(marked)' \subseteq marked' \cup grey'
<1>1. marked' = marked \cup grey /\ grey' = Kids(grey) \ (marked \cup grey)
  BY DEF Mark
<1>2. \A i \in Alloc : Low(i) \in Alloc /\ High(i) \in Alloc
  BY SlotTypes DEF ArenaInv, Ordered, Inner
<1>3. Kids(grey) \subseteq Alloc
  BY <1>2 DEF Kids
<1>4. Kids(marked)' = Kids(marked) \cup Kids(grey)
  BY <1>1 DEF Kids, Low, High
<1> QED BY <1>1, <1>3, <1>4

----------------------------------------------------------------------------

Triple == Alloc \X Alloc \X Alloc

(* The top level of allocated operands is a level or -1, and bounds theirs.*)
LEMMA TopLevelBounds ==
  ASSUME ArenaTypeOK, ArenaInv, NEW a \in Triple
  PROVE  /\ TopLevel(a) \in Int /\ TopLevel(a) >= -1
         /\ TopLevel(a) < Len(headers)
         /\ \A k \in 1 .. 3 : Level(a[k]) \in Int /\ -1 <= Level(a[k])
                              /\ Level(a[k]) <= TopLevel(a)
<1>1. \A i \in Alloc : Level(i) \in Int /\ Level(i) >= -1 /\ Level(i) < Len(headers)
  <2> SUFFICES ASSUME NEW i \in Alloc
               PROVE  Level(i) \in Int /\ Level(i) >= -1 /\ Level(i) < Len(headers)
    OBVIOUS
  <2>1. Len(headers) \in Nat
    BY DEF ArenaTypeOK
  <2>2. CASE i \in Terminals
    BY <2>1, <2>2, SlotTypes DEF NoLevel
  <2>3. CASE i \notin Terminals
    BY <2>1, <2>3 DEF ArenaInv, Ordered, Inner
  <2> QED BY <2>2, <2>3
<1>2. a[1] \in Alloc /\ a[2] \in Alloc /\ a[3] \in Alloc
  BY DEF Triple
<1>3. Len(headers) \in Nat
  BY DEF ArenaTypeOK
<1> QED BY <1>1, <1>2, <1>3 DEF TopLevel, Higher

(* Reordering the operands changes neither their set nor their top level.  *)
LEMMA OperandsKeepLevel ==
  ASSUME ArenaTypeOK, ArenaInv, NEW a \in Triple, NEW op
  PROVE  /\ Operands(op, a) \in Triple
         /\ TopLevel(Operands(op, a)) = TopLevel(a)
<1>1. a[1] \in Alloc /\ a[2] \in Alloc /\ a[3] \in Alloc /\ a = <<a[1], a[2], a[3]>>
  BY DEF Triple
<1>2. \A k \in 1 .. 3 : Level(a[k]) \in Int
  BY TopLevelBounds
<1>3. CASE Operands(op, a) = a
  BY <1>3
<1>4. CASE Operands(op, a) = <<a[2], a[1], a[3]>>
  BY <1>1, <1>2, <1>4 DEF Triple, TopLevel, Higher
<1> QED BY <1>3, <1>4 DEF Operands

(* The cofactors at the top level lie strictly below it.                   *)
LEMMA CofactorsBelow ==
  ASSUME ArenaTypeOK, ArenaInv, NEW a \in Triple, TopLevel(a) >= 0
  PROVE  /\ Cofactors0(a) \in Triple /\ TopLevel(Cofactors0(a)) < TopLevel(a)
         /\ Cofactors1(a) \in Triple /\ TopLevel(Cofactors1(a)) < TopLevel(a)
<1> DEFINE l == TopLevel(a)
<1>1. l \in Int /\ l >= 0
  BY TopLevelBounds
<1>2. ASSUME NEW k \in 1 .. 3
      PROVE  /\ Cofactor0(a[k], l) \in Alloc /\ Level(Cofactor0(a[k], l)) < l
             /\ Cofactor1(a[k], l) \in Alloc /\ Level(Cofactor1(a[k], l)) < l
             /\ Level(Cofactor0(a[k], l)) \in Int /\ Level(Cofactor1(a[k], l)) \in Int
  <2>1. a[k] \in Alloc /\ Level(a[k]) \in Int /\ Level(a[k]) <= l
    BY TopLevelBounds DEF Triple
  <2>2. CASE Level(a[k]) = l
    <3>1. a[k] \in Inner
      BY <1>1, <2>1, <2>2, SlotTypes DEF Inner, NoLevel
    <3>2. /\ Low(a[k]) \in Alloc /\ High(a[k]) \in Alloc
          /\ Level(Low(a[k])) < l /\ Level(High(a[k])) < l
      BY <2>2, <3>1 DEF ArenaInv, Ordered
    <3>3. \A i \in Alloc : Level(i) \in Int
      BY SlotTypes DEF NoLevel
    <3> QED BY <2>2, <3>2, <3>3 DEF Cofactor0, Cofactor1
  <2>3. CASE Level(a[k]) # l
    BY <1>1, <2>1, <2>3 DEF Cofactor0, Cofactor1
  <2> QED BY <2>2, <2>3
<1>3. Cofactors0(a) = <<Cofactor0(a[1], l), Cofactor0(a[2], l), Cofactor0(a[3], l)>>
      /\ Cofactors1(a) = <<Cofactor1(a[1], l), Cofactor1(a[2], l), Cofactor1(a[3], l)>>
  BY DEF Cofactors0, Cofactors1
<1> HIDE DEF l
<1>4. \A x \in Alloc \X Alloc \X Alloc :
        (\A k \in 1 .. 3 : Level(x[k]) \in Int /\ Level(x[k]) < l) => TopLevel(x) < l
  BY DEF TopLevel, Higher
<1>5. Cofactors0(a) \in Alloc \X Alloc \X Alloc /\ Cofactors1(a) \in Alloc \X Alloc \X Alloc
  BY <1>2, <1>3
<1>6. TopLevel(Cofactors0(a)) < l
  BY <1>2, <1>3, <1>4, <1>5
<1>7. TopLevel(Cofactors1(a)) < l
  BY <1>2, <1>3, <1>4, <1>5
<1> QED BY <1>5, <1>6, <1>7 DEF l, Triple

(* A shortcut or a terminal arm returns an operand or a terminal.          *)
LEMMA ImmediateResults ==
  ASSUME NEW op \in Ops, NEW a
  PROVE  /\ Shortcut(op, a) \in {NoId, a[1], a[2], a[3]} \cup Terminals
         /\ TerminalArm(op, a) \in {NoId, a[1], a[2]} \cup Terminals
<1>1. Shortcut(op, a) \in {NoId, a[1], a[2], a[3]} \cup Terminals
  BY DEF Shortcut, Terminals
<1>2. \A f : NotArm(f) \in {NoId} \cup Terminals
  BY DEF NotArm, Terminals
<1>3. \A unit \in {Zero, One} : \A f, g : LatticeArm(unit, f, g) \in {NoId, f, g} \cup Terminals
  BY DEF LatticeArm, Terminals
<1>4. \A f, g : XorArm(f, g) \in {NoId, f, g} \cup Terminals
  BY DEF XorArm, Terminals
<1>5. TerminalArm(op, a) \in {NoId, a[1], a[2]} \cup Terminals
  BY <1>2, <1>3, <1>4 DEF TerminalArm
<1> QED BY <1>1, <1>5

(* An operation that recurses on its cofactors has a nonterminal operand.  *)
LEMMA SplitHasLevel ==
  ASSUME ArenaTypeOK, ArenaInv, NEW c \in Frame, c.args \in Triple,
         Shortcut(c.op, c.args) = NoId, TerminalArm(c.op, c.args) = NoId, ~ Negates(c)
  PROVE  TopLevel(c.args) >= 0
<1> DEFINE f == c.args[1]
           g == c.args[2]
<1>0. f \in Nat /\ g \in Nat /\ f # NoId /\ g # NoId
  BY SlotTypes DEF Triple, NoId
<1>1. f \notin Terminals
  <2> SUFFICES ASSUME f \in Terminals PROVE FALSE
    OBVIOUS
  <2>1. CASE c.op = "not"
    <3>1. NotArm(f) = NoId
      BY <2>1 DEF TerminalArm
    <3> QED BY <3>1 DEF NotArm, Terminals, Zero, One, Undet, NoId
  <2>2. \A unit \in {Zero, One} : LatticeArm(unit, f, g) # NoId
    BY <1>0 DEF LatticeArm, Terminals, Zero, One, Undet, NoId
  <2>3. CASE c.op \in {"and", "or"}
    BY <2>2, <2>3 DEF TerminalArm
  <2>4. CASE c.op = "xor"
    <3>1. XorArm(f, g) = NoId /\ One \notin {f, g}
      BY <2>4 DEF TerminalArm, Negates
    <3> QED BY <1>0, <3>1 DEF XorArm, Terminals, Zero, One, Undet, NoId
  <2>5. CASE c.op = "ite"
    <3>1. f # One /\ f # Zero /\ f # Undet
      BY <1>0, <2>5, SlotTypes DEF Shortcut, Terminals, Triple, Zero, One, Undet, NoId
    <3> QED BY <3>1 DEF Terminals
  <2> QED BY <2>1, <2>3, <2>4, <2>5 DEF Frame, Ops
<1>2. f \in Inner
  BY <1>1 DEF Inner, Triple
<1>3. Level(f) \in Int /\ Level(f) >= 0
  BY <1>2 DEF ArenaInv, Ordered
<1> QED BY <1>3, TopLevelBounds

----------------------------------------------------------------------------
(* The call stack.                                                         *)

(* A growing arena keeps the levels of the nodes in use.                   *)
LEMMA LevelsKept ==
  ASSUME ArenaTypeOK, Grows, NEW a \in Triple
  PROVE  /\ a \in Triple' /\ TopLevel(a)' = TopLevel(a)
<1>1. a[1] \in Alloc /\ a[2] \in Alloc /\ a[3] \in Alloc
  BY DEF Triple
<1>2. \A i \in Alloc : Level(i)' = Level(i)
  BY DEF Grows, Level
<1>3. TopLevel(a)' = TopLevel(a)
  BY <1>1, <1>2 DEF TopLevel, Higher
<1>4. a \in Triple'
  BY DEF Triple, Grows
<1> QED BY <1>3, <1>4

LEMMA FrameArgs ==
  ASSUME NEW c \in Frame, FrameOK(c)
  PROVE  c.args \in Triple
BY DEF Frame, FrameOK, Triple

LEMMA FramesKept ==
  ASSUME ArenaTypeOK, Grows, NEW c \in Frame, FrameOK(c)
  PROVE  /\ FrameOK(c)'
         /\ \A d \in Frame : FrameOK(d) /\ LinkOK(c, d) => LinkOK(c, d)'
<1>1. c.args \in Triple
  BY FrameArgs
<1>2. TopLevel(c.args)' = TopLevel(c.args)
  BY <1>1, LevelsKept
<1>3. {c.args[1], c.args[2], c.args[3]} \subseteq Alloc'
  BY DEF FrameOK, Grows
<1>4. c.stage = "high" => c.low \in Alloc' /\ Level(c.low)' < TopLevel(c.args)'
  BY <1>2 DEF FrameOK, Grows, Level
<1>5. ASSUME NEW d \in Frame, FrameOK(d), LinkOK(c, d)
      PROVE  LinkOK(c, d)'
  <2>1. TopLevel(d.args)' = TopLevel(d.args)
    BY <1>5, FrameArgs, LevelsKept
  <2> QED BY <1>2, <1>5, <2>1 DEF LinkOK, LevelFits
<1> QED BY <1>3, <1>4, <1>5 DEF FrameOK

(* The call stack without its innermost frame.                             *)
LEMMA BelowFrames ==
  ASSUME EngineTypeOK, calls # <<>>
  PROVE  /\ Len(calls) \in Nat /\ Len(calls) >= 1
         /\ Top \in Frame /\ Top = calls[Len(calls)]
         /\ Below \in Seq(Frame) /\ Len(Below) = Len(calls) - 1
         /\ \A n \in 1 .. Len(Below) : Below[n] = calls[n] /\ calls[n] \in Frame
<1> DEFINE m == Len(calls) - 1
<1>1. calls \in Seq(Frame) /\ Len(calls) \in Nat /\ Len(calls) >= 1
  BY DEF EngineTypeOK
<1>2. Top \in Frame /\ Top = calls[Len(calls)]
  BY <1>1 DEF Top
<1>3. \A n \in 1 .. m : calls[n] \in Frame
  BY <1>1
<1>4. Below = [n \in 1 .. m |-> calls[n]]
  BY <1>1 DEF Below
<1>5. Below \in Seq(Frame) /\ Len(Below) = m
  BY <1>1, <1>3, <1>4
<1> QED BY <1>1, <1>2, <1>3, <1>4, <1>5

(* A call returns an id no higher than its operands.                       *)
LEMMA ReturnStep ==
  ASSUME ArenaTypeOK, ArenaInv, EngineTypeOK, FrameInv, Grows, calls # <<>>,
         NEW id \in Nat, id \in Alloc', nodes'[id + 1][1] \in Int,
         nodes'[id + 1][1] <= TopLevel(Top.args), Return(id)
  PROVE  /\ calls' \in Seq(Frame) /\ ret' \in IdOrNone
         /\ FrameInv' /\ RetInv'
<1> DEFINE m == Len(calls) - 1
<1>1. /\ m \in Nat /\ calls' \in Seq(Frame) /\ Len(calls') = m /\ ret' = id
      /\ \A n \in 1 .. m : calls'[n] = calls[n] /\ calls[n] \in Frame
  BY BelowFrames DEF Return
<1>2. \A n \in 1 .. m : FrameOK(calls[n])
  BY <1>1 DEF FrameInv
<1>3. ASSUME NEW n \in 1 .. m
      PROVE  FrameOK(calls[n])'
  <2>1. PICK c \in Frame : c = calls[n] /\ c = calls'[n] /\ FrameOK(c)
    BY <1>1, <1>2
  <2>2. FrameOK(c)'
    BY <2>1, FramesKept
  <2> QED BY <2>1, <2>2
<1>4. ASSUME NEW n \in 1 .. m - 1
      PROVE  LinkOK(calls[n], calls[n + 1])'
  <2>0. n \in 1 .. m /\ n + 1 \in 1 .. m /\ n \in 1 .. Len(calls) - 1
    BY <1>1
  <2>1. PICK c \in Frame : c = calls[n] /\ c = calls'[n] /\ FrameOK(c)
    BY <1>1, <1>2, <2>0
  <2>2. PICK d \in Frame : d = calls[n + 1] /\ d = calls'[n + 1] /\ FrameOK(d)
    BY <1>1, <1>2, <2>0
  <2>3. LinkOK(c, d)
    BY <2>0, <2>1, <2>2 DEF FrameInv
  <2>4. LinkOK(c, d)'
    BY <2>1, <2>2, <2>3, FramesKept
  <2> QED BY <2>1, <2>2, <2>4
<1>5. FrameInv'
  BY <1>1, <1>3, <1>4 DEF FrameInv
<1>6. RetInv'
  <2>1. ret' \in Alloc' /\ id # NoId
    BY <1>1 DEF NoId
  <2>2. ASSUME calls' # <<>>
        PROVE  LevelFits(Top.stage, Level(ret), TopLevel(Top.args))'
    <3>1. m \in 1 .. m /\ m \in 1 .. Len(calls) - 1
      BY <1>1, <2>2
    <3>2. PICK c \in Frame : c = calls[m] /\ c = calls'[m] /\ FrameOK(c)
      BY <1>1, <1>2, <3>1
    <3>3. PICK d : d = Top
      OBVIOUS
    <3>4. d \in Frame /\ d = calls[m + 1] /\ FrameOK(d)
      BY <1>1, <3>3, BelowFrames DEF FrameInv
    <3>5. LinkOK(c, d)
      BY <3>1, <3>2, <3>4 DEF FrameInv
    <3>6. TopLevel(c.args) \in Int /\ TopLevel(d.args) \in Int
      BY <3>2, <3>4, FrameArgs, TopLevelBounds
    <3>7. TopLevel(c.args)' = TopLevel(c.args)
      BY <3>2, FrameArgs, LevelsKept
    <3>8. LevelFits(c.stage, nodes'[id + 1][1], TopLevel(c.args))
      BY <3>3, <3>5, <3>6 DEF LinkOK, LevelFits
    <3>9. Top' = c
      BY <1>1, <3>2 DEF Top
    <3>10. Level(ret)' = nodes'[id + 1][1]
      BY <1>1 DEF Level
    <3>11. TopLevel(Top.args)' = TopLevel(c.args)'
      BY <3>9
    <3> QED BY <3>7, <3>8, <3>9, <3>10, <3>11 DEF LevelFits
  <2> QED BY <1>1, <2>1, <2>2 DEF RetInv
<1> QED BY <1>1, <1>5, <1>6 DEF IdOrNone, Id

(* A frame c, in place of the innermost one, calls d.                      *)
LEMMA RecurseStep ==
  ASSUME ArenaTypeOK, EngineTypeOK, FrameInv, calls # <<>>,
         UNCHANGED arena,
         NEW c \in Frame, FrameOK(c), c.args = Top.args,
         NEW d \in Frame, FrameOK(d), d.stage = "enter", LinkOK(c, d),
         Recurse(c, d)
  PROVE  /\ calls' \in Seq(Frame) /\ ret' \in IdOrNone
         /\ FrameInv' /\ RetInv'
<1> DEFINE m == Len(calls)
<1>1. /\ m \in Nat /\ m >= 1 /\ Len(Below) = m - 1 /\ Below \in Seq(Frame)
      /\ \A n \in 1 .. m - 1 : Below[n] = calls[n] /\ calls[n] \in Frame
      /\ calls[m] = Top
  BY BelowFrames
<1>2. /\ calls' \in Seq(Frame) /\ Len(calls') = m + 1
      /\ \A n \in 1 .. m - 1 : calls'[n] = calls[n]
      /\ calls'[m] = c /\ calls'[m + 1] = d
  BY <1>1 DEF Recurse
<1>3. ret' = NoId /\ calls' # <<>>
  BY <1>1, <1>2 DEF Recurse
<1>4. /\ Grows
      /\ \A e : FrameOK(e)' <=> FrameOK(e)
      /\ \A e, f : LinkOK(e, f)' <=> LinkOK(e, f)
  BY DEF arena, Grows, FrameOK, LinkOK, LevelFits, TopLevel, Level, Alloc, Slots
<1>5. ASSUME NEW n \in 1 .. m + 1
      PROVE  FrameOK(calls[n])'
  <2>1. n \in 1 .. m - 1 \/ n = m \/ n = m + 1
    BY <1>1
  <2>2. CASE n \in 1 .. m - 1
    <3>1. PICK e : e = calls[n] /\ e = calls'[n]
      BY <1>2, <2>2
    <3>2. n \in 1 .. Len(calls)
      BY <1>1, <2>2
    <3>3. FrameOK(e)
      BY <3>1, <3>2 DEF FrameInv
    <3> QED BY <1>4, <3>1, <3>3
  <2>3. CASE n = m
    BY <1>2, <1>4, <2>3
  <2>4. CASE n = m + 1
    BY <1>2, <1>4, <2>4
  <2> QED BY <2>1, <2>2, <2>3, <2>4
<1>6. ASSUME NEW n \in 1 .. m
      PROVE  LinkOK(calls[n], calls[n + 1])'
  <2>1. n \in 1 .. m - 2 \/ (n = m - 1 /\ m > 1) \/ n = m
    BY <1>1
  <2>2. CASE n \in 1 .. m - 2
    <3>1. PICK e : e = calls[n] /\ e = calls'[n]
      BY <1>1, <1>2, <2>2
    <3>2. PICK f : f = calls[n + 1] /\ f = calls'[n + 1]
      BY <1>1, <1>2, <2>2
    <3>3. n \in 1 .. Len(calls) - 1
      BY <1>1, <2>2
    <3>4. LinkOK(e, f)
      BY <3>1, <3>2, <3>3 DEF FrameInv
    <3> QED BY <1>4, <3>1, <3>2, <3>4
  <2>3. CASE n = m - 1 /\ m > 1
    <3>1. PICK e : e = calls[n] /\ e = calls'[n]
      BY <1>1, <1>2, <2>3
    <3>2. LinkOK(e, Top)
      <4>1. n \in 1 .. Len(calls) - 1 /\ n + 1 = m
        BY <1>1, <2>3
      <4> QED BY <1>1, <3>1, <4>1 DEF FrameInv
    <3>3. LinkOK(e, c)
      BY <3>2 DEF LinkOK
    <3>4. calls'[n + 1] = c
      BY <1>1, <1>2, <2>3
    <3> QED BY <1>4, <3>1, <3>3, <3>4
  <2>4. CASE n = m
    BY <1>2, <1>4, <2>4
  <2> QED BY <2>1, <2>2, <2>3, <2>4
<1>7. FrameInv'
  BY <1>1, <1>2, <1>5, <1>6 DEF FrameInv
<1>8. Top' = d
  BY <1>1, <1>2 DEF Top
<1>9. RetInv'
  BY <1>3, <1>8 DEF RetInv
<1> QED BY <1>2, <1>3, <1>7, <1>9 DEF IdOrNone

----------------------------------------------------------------------------
(* The computed table.                                                     *)

(* A growing arena keeps the table valid, also when the result of a call   *)
(* that lies no higher than its operands is added.                         *)
LEMMA CacheKept ==
  ASSUME ArenaTypeOK, EngineTypeOK, CacheInv, Grows, cache' = cache
  PROVE  CacheInv'
<1> SUFFICES ASSUME NEW k \in DOMAIN cache
             PROVE  /\ {k[2], k[3], k[4], cache[k]} \subseteq Alloc'
                    /\ Level(cache[k])' <= TopLevel(<<k[2], k[3], k[4]>>)'
  BY DEF CacheInv
<1>1. {k[2], k[3], k[4], cache[k]} \subseteq Alloc
      /\ Level(cache[k]) <= TopLevel(<<k[2], k[3], k[4]>>)
  BY DEF CacheInv
<1>2. TopLevel(<<k[2], k[3], k[4]>>)' = TopLevel(<<k[2], k[3], k[4]>>)
  BY <1>1, LevelsKept DEF Triple
<1>3. PICK i : i = cache[k] /\ i = cache'[k]
  OBVIOUS
<1>4. Level(i)' = Level(i)
  BY <1>1, <1>3 DEF Grows, Level
<1> QED BY <1>1, <1>2, <1>3, <1>4 DEF Grows

LEMMA CachePutStep ==
  ASSUME ArenaTypeOK, EngineTypeOK, CacheInv, Grows,
         NEW c \in Frame, c.args \in Triple,
         NEW id \in Nat, id \in Alloc', nodes'[id + 1][1] <= TopLevel(c.args),
         CachePut(Key(c), id)
  PROVE  /\ CacheInv'
         /\ cache' \in [DOMAIN cache' -> Id] /\ DOMAIN cache' \subseteq Ops \X Id \X Id \X Id
<1> DEFINE key == Key(c)
<1>1. /\ cache' = [k \in DOMAIN cache \cup {key} |-> IF k = key THEN id ELSE cache[k]]
      /\ DOMAIN cache' = DOMAIN cache \cup {key}
  BY DEF CachePut
<1>2. /\ key \in Ops \X Id \X Id \X Id
      /\ key[2] = c.args[1] /\ key[3] = c.args[2] /\ key[4] = c.args[3]
      /\ c.args = <<c.args[1], c.args[2], c.args[3]>>
  BY DEF Key, Frame
<1>3. cache' \in [DOMAIN cache' -> Id] /\ DOMAIN cache' \subseteq Ops \X Id \X Id \X Id
  BY <1>1, <1>2 DEF EngineTypeOK, Id
<1>4. ASSUME NEW k \in DOMAIN cache', k # key
      PROVE  /\ {k[2], k[3], k[4], cache'[k]} \subseteq Alloc'
             /\ nodes'[cache'[k] + 1][1] <= TopLevel(<<k[2], k[3], k[4]>>)'
  <2>1. k \in DOMAIN cache /\ cache'[k] = cache[k]
    BY <1>1, <1>4
  <2>2. {k[2], k[3], k[4], cache[k]} \subseteq Alloc
        /\ Level(cache[k]) <= TopLevel(<<k[2], k[3], k[4]>>)
    BY <2>1 DEF CacheInv
  <2>3. TopLevel(<<k[2], k[3], k[4]>>)' = TopLevel(<<k[2], k[3], k[4]>>)
    BY <2>2, LevelsKept DEF Triple
  <2>4. nodes'[cache[k] + 1] = nodes[cache[k] + 1]
    BY <2>2 DEF Grows
  <2> QED BY <2>1, <2>2, <2>3, <2>4 DEF Grows, Level
<1>5. /\ {key[2], key[3], key[4], cache'[key]} \subseteq Alloc'
      /\ nodes'[cache'[key] + 1][1] <= TopLevel(<<key[2], key[3], key[4]>>)'
  <2>1. cache'[key] = id
    BY <1>1
  <2>2. TopLevel(c.args)' = TopLevel(c.args)
    BY LevelsKept
  <2>3. TopLevel(<<key[2], key[3], key[4]>>)' = TopLevel(c.args)'
    BY <1>2
  <2>4. {key[2], key[3], key[4]} \subseteq Alloc'
    BY <1>2 DEF Grows, Triple
  <2> HIDE DEF key
  <2> QED BY <2>1, <2>2, <2>3, <2>4
<1>6. CacheInv'
  <2> HIDE DEF key
  <2> QED BY <1>4, <1>5 DEF CacheInv, Level
<1> QED BY <1>3, <1>6

----------------------------------------------------------------------------
(* The steps.                                                              *)

LEMMA OperandLevels ==
  ASSUME ArenaTypeOK, ArenaInv, NEW a \in Triple,
         NEW i \in {a[1], a[2], a[3]} \cup Terminals
  PROVE  i \in Alloc /\ i \in Nat /\ Level(i) \in Int /\ Level(i) <= TopLevel(a)
<1>1. TopLevel(a) \in Int /\ TopLevel(a) >= -1
  BY TopLevelBounds
<1>2. CASE i \in Terminals
  BY <1>1, <1>2, SlotTypes DEF NoLevel
<1>3. CASE i \in {a[1], a[2], a[3]}
  <2>1. PICK k \in 1 .. 3 : i = a[k]
    BY <1>3
  <2>2. i \in Alloc
    BY <1>3 DEF Triple
  <2> QED BY <2>1, <2>2, TopLevelBounds, SlotTypes
<1> QED BY <1>2, <1>3

(* The innermost frame.                                                    *)
LEMMA TopFrame ==
  ASSUME EngineTypeOK, FrameInv, calls # <<>>
  PROVE  Top \in Frame /\ FrameOK(Top) /\ Top.args \in Triple
<1>1. Top \in Frame /\ Top = calls[Len(calls)] /\ Len(calls) \in 1 .. Len(calls)
  BY BelowFrames
<1>2. FrameOK(Top)
  BY <1>1 DEF FrameInv
<1> QED BY <1>1, <1>2, FrameArgs

(* A new call.                                                             *)
LEMMA NewCall ==
  ASSUME ArenaTypeOK, ArenaInv, NEW op \in Ops, NEW a \in Triple
  PROVE  /\ Call(op, a) \in Frame /\ FrameOK(Call(op, a))
         /\ Call(op, a).stage = "enter"
         /\ TopLevel(Call(op, a).args) = TopLevel(a)
<1>1. Operands(op, a) \in Triple /\ TopLevel(Operands(op, a)) = TopLevel(a)
  BY OperandsKeepLevel
<1>2. Call(op, a) = [op |-> op, args |-> Operands(op, a), stage |-> "enter", low |-> NoId]
  BY DEF Call
<1>3. Operands(op, a) \in Id \X Id \X Id
  BY <1>1, SlotTypes DEF Triple, Id
<1>4. Call(op, a) \in Frame
  BY <1>2, <1>3 DEF Frame, Stages, IdOrNone
<1>5. FrameOK(Call(op, a))
  BY <1>1, <1>2 DEF FrameOK, Triple
<1> QED BY <1>1, <1>2, <1>4, <1>5

(* The arena and the table are left alone.                                 *)
LEMMA NothingBuilt ==
  ASSUME ArenaTypeOK, ArenaInv, EngineTypeOK, CacheInv, UNCHANGED <<arena, cache>>
  PROVE  /\ ArenaTypeOK' /\ ArenaInv' /\ Grows /\ headers' = headers
         /\ CacheInv'
         /\ cache' \in [DOMAIN cache' -> Id] /\ DOMAIN cache' \subseteq Ops \X Id \X Id \X Id
<1>1. Grows
  BY DEF arena, Grows, Alloc, Slots
<1>2. ArenaTypeOK' /\ ArenaInv'
  BY DEF arena, ArenaTypeOK, TerminalsInPlace, Slots, ArenaInv, Ordered, UtableExact,
         Canonical, Inner, Alloc, Level, Low, High
<1>3. CacheInv'
  BY <1>1, CacheKept
<1> QED BY <1>1, <1>2, <1>3 DEF arena, EngineTypeOK

(* A step of a recursion preserves what EngineInv says, and only adds to   *)
(* the arena.                                                              *)
LEMMA ApplyStepInv ==
  ASSUME ArenaTypeOK, ArenaInv, EngineTypeOK, EngineInv, ApplyStep
  PROVE  /\ ArenaTypeOK' /\ ArenaInv' /\ EngineTypeOK' /\ EngineInv'
         /\ Grows /\ headers' = headers
<1> USE DEF EngineInv
<1> DEFINE a == Top.args
<1>0. calls # <<>>
  BY DEF ApplyStep, EnterShortcut, EnterHit, EnterTerminal, EnterNegate, EnterSplit,
         ResumeLow, ResumeHigh, ResumeNegate, NeedsLookup, Entering, Resuming
<1>t. Top \in Frame /\ FrameOK(Top) /\ a \in Triple /\ Top.op \in Ops
  BY <1>0, TopFrame DEF Frame
<1>l. TopLevel(a) \in Int /\ TopLevel(a) >= -1 /\ TopLevel(a) < Len(headers)
  BY <1>t, TopLevelBounds
<1> HIDE DEF a
<1>r. ASSUME NEW id \in Nat, id \in Alloc, Level(id) \in Int, Level(id) <= TopLevel(a),
             Return(id), UNCHANGED arena,
             cache' = cache \/ CachePut(Key(Top), id)
      PROVE  /\ ArenaTypeOK' /\ ArenaInv' /\ EngineTypeOK' /\ EngineInv'
             /\ Grows /\ headers' = headers
  <2>1. Grows /\ headers' = headers /\ ArenaTypeOK' /\ ArenaInv'
    BY <1>r DEF arena, Grows, Alloc, Slots, ArenaTypeOK, TerminalsInPlace, ArenaInv,
                Ordered, UtableExact, Canonical, Inner, Level, Low, High
  <2>2. id \in Alloc' /\ nodes'[id + 1][1] \in Int /\ nodes'[id + 1][1] <= TopLevel(Top.args)
    BY <1>r, <2>1 DEF arena, Grows, Level, a
  <2>3. calls' \in Seq(Frame) /\ ret' \in IdOrNone /\ FrameInv' /\ RetInv'
    BY <1>0, <1>r, <2>1, <2>2, ReturnStep
  <2>4. /\ CacheInv'
        /\ cache' \in [DOMAIN cache' -> Id] /\ DOMAIN cache' \subseteq Ops \X Id \X Id \X Id
    <3>1. CASE cache' = cache
      BY <2>1, <3>1, CacheKept DEF EngineTypeOK
    <3>2. CASE CachePut(Key(Top), id)
      <4>1. PICK c \in Frame : c = Top
        BY <1>t
      <4> QED BY <1>t, <2>1, <2>2, <3>2, <4>1, CachePutStep DEF a
    <3> QED BY <1>r, <3>1, <3>2
  <2> QED BY <2>1, <2>3, <2>4 DEF EngineTypeOK
<1>c. ASSUME NEW c \in Frame, FrameOK(c), c.args = Top.args,
             NEW d \in Frame, FrameOK(d), d.stage = "enter", LinkOK(c, d),
             Recurse(c, d), UNCHANGED <<arena, cache>>
      PROVE  /\ ArenaTypeOK' /\ ArenaInv' /\ EngineTypeOK' /\ EngineInv'
             /\ Grows /\ headers' = headers
  <2>1. calls' \in Seq(Frame) /\ ret' \in IdOrNone /\ FrameInv' /\ RetInv'
    BY <1>0, <1>c, RecurseStep
  <2> QED BY <1>c, <2>1, NothingBuilt DEF EngineTypeOK
<1>1. CASE EnterShortcut
  <2>1. PICK id : id = Shortcut(Top.op, a) /\ id # NoId /\ Return(id)
                  /\ UNCHANGED <<arena, cache>>
    BY <1>1 DEF EnterShortcut, a
  <2>2. id \in {a[1], a[2], a[3]} \cup Terminals
    BY <1>t, <2>1, ImmediateResults
  <2>3. id \in Alloc /\ id \in Nat /\ Level(id) \in Int /\ Level(id) <= TopLevel(a)
    BY <1>t, <2>2, OperandLevels
  <2> QED BY <1>r, <2>1, <2>3
<1>2. CASE EnterHit
  <2>1. PICK id : id = cache[Key(Top)] /\ Return(id) /\ UNCHANGED <<arena, cache>>
                  /\ Key(Top) \in DOMAIN cache
    BY <1>2 DEF EnterHit
  <2>2. id \in Alloc /\ Level(id) <= TopLevel(<<a[1], a[2], a[3]>>)
    BY <2>1 DEF CacheInv, Key, a
  <2>3. <<a[1], a[2], a[3]>> = a
    BY <1>t DEF Triple
  <2>4. id \in Nat /\ Level(id) \in Int
    BY <2>2, SlotTypes DEF NoLevel
  <2> QED BY <1>r, <2>1, <2>2, <2>3, <2>4
<1>3. CASE EnterTerminal
  <2>1. PICK id : id = TerminalArm(Top.op, a) /\ id # NoId /\ Return(id)
                  /\ UNCHANGED arena /\ CachePut(Key(Top), id)
    BY <1>3 DEF EnterTerminal, a
  <2>2. id \in {a[1], a[2], a[3]} \cup Terminals
    BY <1>t, <2>1, ImmediateResults
  <2>3. id \in Alloc /\ id \in Nat /\ Level(id) \in Int /\ Level(id) <= TopLevel(a)
    BY <1>t, <2>2, OperandLevels
  <2> QED BY <1>r, <2>1, <2>3
<1>4. CASE EnterNegate
  <2>1. PICK c : c = [Top EXCEPT !.stage = "negate"]
    OBVIOUS
  <2>2. PICK b : b = <<Negated(Top), Zero, Zero>>
    OBVIOUS
  <2>3. Top.stage = "enter"
    BY <1>0, <1>4 DEF EnterNegate, NeedsLookup, Entering, RetInv
  <2>4. c \in Frame /\ FrameOK(c) /\ c.args = Top.args /\ c.stage = "negate"
    BY <1>t, <2>1, <2>3 DEF Frame, FrameOK, Stages
  <2>5. Negated(Top) \in {a[1], a[2], a[3]} \cup Terminals
        /\ Zero \in {a[1], a[2], a[3]} \cup Terminals
    BY DEF Negated, Terminals, a
  <2>6. b \in Triple /\ TopLevel(b) <= TopLevel(a)
    <3>1. /\ Negated(Top) \in Alloc /\ Level(Negated(Top)) \in Int
          /\ Level(Negated(Top)) <= TopLevel(a)
          /\ Zero \in Alloc /\ Level(Zero) \in Int /\ Level(Zero) <= TopLevel(a)
      BY <1>t, <2>5, OperandLevels
    <3> QED BY <1>l, <2>2, <3>1 DEF Triple, TopLevel, Higher
  <2>7. PICK d : d = Call("not", b)
    OBVIOUS
  <2>8. d \in Frame /\ FrameOK(d) /\ d.stage = "enter" /\ TopLevel(d.args) = TopLevel(b)
    BY <2>6, <2>7, NewCall DEF Ops
  <2>9. LinkOK(c, d)
    BY <2>4, <2>6, <2>8 DEF LinkOK, LevelFits, a
  <2> QED BY <1>4, <1>c, <2>1, <2>2, <2>4, <2>7, <2>8, <2>9 DEF EnterNegate
<1>5. CASE EnterSplit
  <2>1. PICK c : c = [Top EXCEPT !.stage = "low"]
    OBVIOUS
  <2>2. PICK b : b = Cofactors0(a)
    OBVIOUS
  <2>3. Top.stage = "enter"
    BY <1>0, <1>5 DEF EnterSplit, NeedsLookup, Entering, RetInv
  <2>4. c \in Frame /\ FrameOK(c) /\ c.args = Top.args /\ c.stage = "low" /\ c.op = Top.op
    BY <1>t, <2>1, <2>3 DEF Frame, FrameOK, Stages
  <2>5. TopLevel(a) >= 0
    BY <1>5, <1>t, SplitHasLevel DEF EnterSplit, NeedsLookup, a
  <2>6. b \in Triple /\ TopLevel(b) < TopLevel(a)
    BY <1>t, <2>2, <2>5, CofactorsBelow
  <2>7. PICK d : d = Call(Top.op, b)
    OBVIOUS
  <2>8. d \in Frame /\ FrameOK(d) /\ d.stage = "enter" /\ TopLevel(d.args) = TopLevel(b)
    BY <1>t, <2>6, <2>7, NewCall
  <2>9. LinkOK(c, d)
    BY <2>4, <2>6, <2>8 DEF LinkOK, LevelFits, a
  <2> QED BY <1>5, <1>c, <2>1, <2>2, <2>4, <2>7, <2>8, <2>9 DEF EnterSplit, a
<1>s. ASSUME ret # NoId, Top.stage \in {"low", "high"}
      PROVE  /\ ret \in Alloc /\ ret \in Nat /\ Level(ret) \in Int
             /\ Level(ret) < TopLevel(a) /\ TopLevel(a) >= 0
  <2>1. ret \in Alloc /\ Level(ret) < TopLevel(a)
    BY <1>0, <1>s DEF RetInv, LevelFits, a
  <2>2. Level(ret) \in Int /\ Level(ret) >= -1 /\ ret \in Nat
    BY <2>1, SlotTypes DEF NoLevel
  <2> QED BY <1>l, <2>1, <2>2
<1>6. CASE ResumeLow
  <2>0. ret # NoId /\ Top.stage = "low"
    BY <1>6 DEF ResumeLow, Resuming
  <2>1. PICK c : c = [Top EXCEPT !.stage = "high", !.low = ret]
    OBVIOUS
  <2>2. PICK b : b = Cofactors1(a)
    OBVIOUS
  <2>3. /\ ret \in Alloc /\ ret \in Nat /\ Level(ret) \in Int
        /\ Level(ret) < TopLevel(a) /\ TopLevel(a) >= 0
    BY <1>s, <2>0
  <2>4. c \in Frame /\ c.args = Top.args /\ c.stage = "high" /\ c.low = ret
    BY <1>t, <2>1, <2>3 DEF Frame, Stages, IdOrNone
  <2>5. FrameOK(c)
    BY <1>t, <2>3, <2>4 DEF FrameOK, a
  <2>6. b \in Triple /\ TopLevel(b) < TopLevel(a)
    BY <1>t, <2>2, <2>3, CofactorsBelow
  <2>7. PICK d : d = Call(Top.op, b)
    OBVIOUS
  <2>8. d \in Frame /\ FrameOK(d) /\ d.stage = "enter" /\ TopLevel(d.args) = TopLevel(b)
    BY <1>t, <2>6, <2>7, NewCall
  <2>9. LinkOK(c, d)
    BY <2>4, <2>6, <2>8 DEF LinkOK, LevelFits, a
  <2> QED BY <1>6, <1>c, <2>1, <2>2, <2>4, <2>5, <2>7, <2>8, <2>9 DEF ResumeLow, a
<1>7. CASE ResumeHigh
  <2>0. ret # NoId /\ Top.stage = "high"
    BY <1>7 DEF ResumeHigh, Resuming
  <2>1. PICK l : l = TopLevel(a)
    OBVIOUS
  <2>2. PICK lo : lo = Top.low
    OBVIOUS
  <2>3. PICK id : id = NodeFor(l, lo, ret)
    OBVIOUS
  <2>4. PICK hi : hi = ret
    OBVIOUS
  <2>5. /\ CreateNode(l, lo, hi) /\ CachePut(Key(Top), id) /\ Return(id)
        /\ headers' = headers
    BY <1>7, <2>1, <2>2, <2>3, <2>4 DEF ResumeHigh, a
  <2>6. hi \in Alloc /\ Level(hi) < l /\ l \in Nat /\ l < Len(headers)
    BY <1>l, <1>s, <2>0, <2>1, <2>4
  <2>7. lo \in Alloc /\ Level(lo) < l
    BY <1>t, <2>0, <2>1, <2>2 DEF FrameOK, a
  <2>8. headers' \in Seq(Var) /\ Len(headers) <= Len(headers') /\ l < Len(headers')
    BY <2>5, <2>6 DEF ArenaTypeOK
  <2>9. /\ ArenaTypeOK' /\ ArenaInv' /\ Grows
        /\ id \in Alloc' /\ id \in Nat /\ nodes'[id + 1][1] <= l
    BY <2>3, <2>4, <2>5, <2>6, <2>7, <2>8, CreateNodeStep
  <2>10. nodes'[id + 1][1] \in Int
    <3>1. \A i \in Slots' : nodes'[i + 1][1] \in Int
      <4>1. \A i \in Slots' : i + 1 \in 1 .. Len(nodes')
        BY <2>9 DEF Slots, ArenaTypeOK
      <4>2. nodes' \in Seq((Nat \cup {NoLevel}) \X Id \X Id)
        BY <2>9 DEF ArenaTypeOK
      <4> QED BY <4>1, <4>2 DEF NoLevel
    <3> QED BY <2>9, <3>1 DEF Alloc
  <2>11. calls' \in Seq(Frame) /\ ret' \in IdOrNone /\ FrameInv' /\ RetInv'
    BY <1>0, <2>1, <2>5, <2>9, <2>10, ReturnStep DEF a
  <2>12. /\ CacheInv'
         /\ cache' \in [DOMAIN cache' -> Id] /\ DOMAIN cache' \subseteq Ops \X Id \X Id \X Id
    <3>1. PICK c \in Frame : c = Top
      BY <1>t
    <3> QED BY <1>t, <2>1, <2>5, <2>9, <3>1, CachePutStep DEF a
  <2> QED BY <2>5, <2>9, <2>11, <2>12 DEF EngineTypeOK
<1>8. CASE ResumeNegate
  <2>1. ret # NoId /\ Top.stage = "negate"
    BY <1>8 DEF ResumeNegate, Resuming
  <2>2. ret \in Alloc /\ Level(ret) <= TopLevel(a)
    BY <1>0, <2>1 DEF RetInv, LevelFits, a
  <2>3. PICK id : id = ret
    OBVIOUS
  <2>4. id \in Nat /\ id \in Alloc /\ Level(id) \in Int /\ Level(id) <= TopLevel(a)
    BY <2>2, <2>3, SlotTypes DEF NoLevel
  <2> QED BY <1>8, <1>r, <2>3, <2>4 DEF ResumeNegate
<1> QED BY <1>1, <1>2, <1>3, <1>4, <1>5, <1>6, <1>7, <1>8 DEF ApplyStep

----------------------------------------------------------------------------
(* Counting handles.                                                       *)

(* Giving an empty slot s of f the value i adds one reference to i.        *)
LEMMA CountAdd ==
  ASSUME NEW S, IsFiniteSet(S), NEW f \in [S -> IdOrNone], NEW s \in S, f[s] = NoId,
         NEW i \in Nat, NEW j \in Nat, NEW g, g = [f EXCEPT ![s] = i]
  PROVE  /\ Cardinality({x \in S : f[x] = j}) \in Nat
         /\ Cardinality({x \in S : g[x] = j})
              = Cardinality({x \in S : f[x] = j}) + (IF j = i THEN 1 ELSE 0)
<1> DEFINE A == {x \in S : f[x] = j}
           B == {x \in S : g[x] = j}
<1>1. IsFiniteSet(A) /\ Cardinality(A) \in Nat
  BY FS_Subset, FS_CardinalityType
<1>2. CASE j = i
  <2>1. B = A \cup {s} /\ s \notin A
    BY <1>2 DEF NoId
  <2> QED BY <1>1, <1>2, <2>1, FS_AddElement
<1>3. CASE j # i
  <2>1. B = A
    BY <1>3 DEF NoId
  <2> QED BY <1>1, <1>3, <2>1
<1> QED BY <1>2, <1>3

(* Emptying a slot that holds i removes one.                               *)
LEMMA CountRemove ==
  ASSUME NEW S, IsFiniteSet(S), NEW f \in [S -> IdOrNone], NEW s \in S,
         NEW i \in Nat, f[s] = i, NEW j \in Nat
  PROVE  /\ Cardinality({x \in S : f[x] = j}) \in Nat
         /\ Cardinality({x \in S : [f EXCEPT ![s] = NoId][x] = j})
              = Cardinality({x \in S : f[x] = j}) - (IF j = i THEN 1 ELSE 0)
<1> DEFINE A == {x \in S : f[x] = j}
           B == {x \in S : [f EXCEPT ![s] = NoId][x] = j}
<1>1. IsFiniteSet(A) /\ Cardinality(A) \in Nat
  BY FS_Subset, FS_CardinalityType
<1>2. CASE j = i
  <2>1. B = A \ {s} /\ s \in A
    BY <1>2 DEF NoId
  <2> QED BY <1>1, <1>2, <2>1, FS_RemoveElement
<1>3. CASE j # i
  <2>1. B = A
    BY <1>3 DEF NoId
  <2> QED BY <1>1, <1>3, <2>1
<1> QED BY <1>2, <1>3

(* A root table r, the client's handles hs and the manager's handles vs,   *)
(* as plain parameters: RootsExact and Pinned speak of the three variables.*)
RefsIn(hs, vs, i) ==
  Cardinality({h \in Handle : hs[h] = i}) + Cardinality({v \in Var : vs[v] = i})
PinnedIn(hs, vs) == ({hs[h] : h \in Handle} \cup {vs[v] : v \in Var}) \ {NoId}
HoldersOK(r, hs, vs) ==
  /\ vs \in [Var -> IdOrNone] /\ hs \in [Handle -> IdOrNone]
  /\ r \in [DOMAIN r -> Nat \ {0}] /\ DOMAIN r \subseteq Nat
Exact(r, hs, vs) ==
  /\ DOMAIN r = PinnedIn(hs, vs)
  /\ \A i \in DOMAIN r : r[i] = RefsIn(hs, vs, i)

(* An id is held exactly when someone counts for it.                       *)
LEMMA PinnedIffReferenced ==
  ASSUME ConstantsAssumption, NEW hs \in [Handle -> IdOrNone], NEW vs \in [Var -> IdOrNone],
         NEW i \in Nat
  PROVE  RefsIn(hs, vs, i) \in Nat /\ (i \in PinnedIn(hs, vs) <=> RefsIn(hs, vs, i) > 0)
<1> DEFINE A == {h \in Handle : hs[h] = i}
           B == {v \in Var : vs[v] = i}
<1>1. IsFiniteSet(A) /\ IsFiniteSet(B) /\ Cardinality(A) \in Nat /\ Cardinality(B) \in Nat
  BY FS_Subset, FS_CardinalityType DEF ConstantsAssumption
<1>2. (Cardinality(A) = 0 <=> A = {}) /\ (Cardinality(B) = 0 <=> B = {})
  BY <1>1, FS_EmptySet
<1>3. i \in PinnedIn(hs, vs) <=> A # {} \/ B # {}
  BY DEF PinnedIn, NoId
<1> QED BY <1>1, <1>2, <1>3 DEF RefsIn

(* The root table is exact iff every count in it is.                       *)
LEMMA ExactByCount ==
  ASSUME ConstantsAssumption, NEW r, NEW hs, NEW vs, HoldersOK(r, hs, vs)
  PROVE  Exact(r, hs, vs) <=> \A i \in Nat : Count(r, i) = RefsIn(hs, vs, i)
<1>1. \A i \in Nat : RefsIn(hs, vs, i) \in Nat /\ (i \in PinnedIn(hs, vs) <=> RefsIn(hs, vs, i) > 0)
  BY PinnedIffReferenced DEF HoldersOK
<1>2. PinnedIn(hs, vs) \subseteq Nat
  BY DEF PinnedIn, HoldersOK, IdOrNone, NoId
<1>3. ASSUME Exact(r, hs, vs)
      PROVE  \A i \in Nat : Count(r, i) = RefsIn(hs, vs, i)
  BY <1>1, <1>3 DEF Exact, Count
<1>4. ASSUME \A i \in Nat : Count(r, i) = RefsIn(hs, vs, i)
      PROVE  Exact(r, hs, vs)
  <2>1. \A i \in Nat : i \in DOMAIN r <=> i \in PinnedIn(hs, vs)
    BY <1>1, <1>4 DEF Count, HoldersOK
  <2>2. DOMAIN r = PinnedIn(hs, vs)
    BY <1>2, <2>1 DEF HoldersOK
  <2> QED BY <1>2, <1>4, <2>2 DEF Count, Exact
<1> QED BY <1>3, <1>4

LEMMA PinCounts ==
  ASSUME NEW r, r \in [DOMAIN r -> Nat \ {0}], DOMAIN r \subseteq Nat, NEW i \in Nat
  PROVE  /\ Pin(r, i) \in [DOMAIN Pin(r, i) -> Nat \ {0}] /\ DOMAIN Pin(r, i) \subseteq Nat
         /\ DOMAIN Pin(r, i) = DOMAIN r \cup {i}
         /\ \A j \in Nat : Count(r, j) \in Nat /\
              Count(Pin(r, i), j) = Count(r, j) + (IF j = i THEN 1 ELSE 0)
BY DEF Pin, BagAdd, Count

LEMMA UnpinCounts ==
  ASSUME NEW r, r \in [DOMAIN r -> Nat \ {0}], DOMAIN r \subseteq Nat, NEW i \in DOMAIN r
  PROVE  /\ Unpin(r, i) \in [DOMAIN Unpin(r, i) -> Nat \ {0}] /\ DOMAIN Unpin(r, i) \subseteq Nat
         /\ \A j \in Nat : Count(r, j) \in Nat /\
              Count(Unpin(r, i), j) = Count(r, j) - (IF j = i THEN 1 ELSE 0)
BY DEF Unpin, BagRemove, Count

----------------------------------------------------------------------------
(* What taking and giving up a handle do to the root table.                *)

(* An empty handle h pins i.                                               *)
LEMMA HoldStep ==
  ASSUME ConstantsAssumption, NEW r, NEW hs, NEW vs, HoldersOK(r, hs, vs), Exact(r, hs, vs),
         NEW h \in Handle, hs[h] = NoId, NEW i \in Nat
  PROVE  /\ HoldersOK(Pin(r, i), [hs EXCEPT ![h] = i], vs)
         /\ Exact(Pin(r, i), [hs EXCEPT ![h] = i], vs)
         /\ PinnedIn([hs EXCEPT ![h] = i], vs) \subseteq PinnedIn(hs, vs) \cup {i}
<1> DEFINE r2 == Pin(r, i)
           hs2 == [hs EXCEPT ![h] = i]
<1>1. HoldersOK(r2, hs2, vs)
  <2>1. hs2 \in [Handle -> IdOrNone]
    BY DEF HoldersOK, IdOrNone
  <2>2. r2 \in [DOMAIN r2 -> Nat \ {0}] /\ DOMAIN r2 \subseteq Nat
    BY PinCounts DEF HoldersOK
  <2> QED BY <2>1, <2>2 DEF HoldersOK
<1>2. ASSUME NEW j \in Nat
      PROVE  Count(r2, j) = RefsIn(hs2, vs, j)
  <2>1. Count(r, j) = RefsIn(hs, vs, j)
    BY ExactByCount
  <2>2. Count(r2, j) = Count(r, j) + (IF j = i THEN 1 ELSE 0)
    BY PinCounts, ZenonT(60) DEF HoldersOK
  <2>3. /\ Cardinality({x \in Handle : hs[x] = j}) \in Nat
        /\ Cardinality({x \in Handle : hs2[x] = j})
             = Cardinality({x \in Handle : hs[x] = j}) + (IF j = i THEN 1 ELSE 0)
    <3>1. IsFiniteSet(Handle) /\ hs \in [Handle -> IdOrNone]
      BY DEF HoldersOK, ConstantsAssumption
    <3>2. IsFiniteSet(Handle) /\ hs \in [Handle -> IdOrNone] /\ h \in Handle /\ hs[h] = NoId
      BY <3>1
    <3>3. hs2 = [hs EXCEPT ![h] = i]
      OBVIOUS
    <3> HIDE DEF r2, hs2
    <3> QED BY <3>2, <3>3, CountAdd
  <2>4. Cardinality({v \in Var : vs[v] = j}) \in Nat
    BY FS_Subset, FS_CardinalityType DEF ConstantsAssumption
  <2> QED BY <2>1, <2>2, <2>3, <2>4 DEF RefsIn
<1>3. Exact(r2, hs2, vs)
  <2> HIDE DEF r2, hs2
  <2> QED BY <1>1, <1>2, ExactByCount
<1>4. PinnedIn(hs2, vs) \subseteq PinnedIn(hs, vs) \cup {i}
  BY DEF PinnedIn, HoldersOK
<1> QED BY <1>1, <1>3, <1>4

(* The manager's handle of a variable v, not declared so far, pins i.      *)
LEMMA DeclareStep ==
  ASSUME ConstantsAssumption, NEW r, NEW hs, NEW vs, HoldersOK(r, hs, vs), Exact(r, hs, vs),
         NEW v \in Var, vs[v] = NoId, NEW i \in Nat
  PROVE  /\ HoldersOK(Pin(r, i), hs, [vs EXCEPT ![v] = i])
         /\ Exact(Pin(r, i), hs, [vs EXCEPT ![v] = i])
         /\ PinnedIn(hs, [vs EXCEPT ![v] = i]) \subseteq PinnedIn(hs, vs) \cup {i}
<1> DEFINE r2 == Pin(r, i)
           vs2 == [vs EXCEPT ![v] = i]
<1>1. HoldersOK(r2, hs, vs2)
  <2>1. vs2 \in [Var -> IdOrNone]
    BY DEF HoldersOK, IdOrNone
  <2>2. r2 \in [DOMAIN r2 -> Nat \ {0}] /\ DOMAIN r2 \subseteq Nat
    BY PinCounts DEF HoldersOK
  <2> QED BY <2>1, <2>2 DEF HoldersOK
<1>2. ASSUME NEW j \in Nat
      PROVE  Count(r2, j) = RefsIn(hs, vs2, j)
  <2>1. Count(r, j) = RefsIn(hs, vs, j)
    BY ExactByCount
  <2>2. Count(r2, j) = Count(r, j) + (IF j = i THEN 1 ELSE 0)
    BY PinCounts, ZenonT(60) DEF HoldersOK
  <2>3. /\ Cardinality({x \in Var : vs[x] = j}) \in Nat
        /\ Cardinality({x \in Var : vs2[x] = j})
             = Cardinality({x \in Var : vs[x] = j}) + (IF j = i THEN 1 ELSE 0)
    <3>1. IsFiniteSet(Var) /\ vs \in [Var -> IdOrNone]
      BY DEF HoldersOK, ConstantsAssumption
    <3>2. IsFiniteSet(Var) /\ vs \in [Var -> IdOrNone] /\ v \in Var /\ vs[v] = NoId
      BY <3>1
    <3>3. vs2 = [vs EXCEPT ![v] = i]
      OBVIOUS
    <3> HIDE DEF r2, vs2
    <3> QED BY <3>2, <3>3, CountAdd
  <2>4. Cardinality({h \in Handle : hs[h] = j}) \in Nat
    BY FS_Subset, FS_CardinalityType DEF ConstantsAssumption
  <2> QED BY <2>1, <2>2, <2>3, <2>4 DEF RefsIn
<1>3. Exact(r2, hs, vs2)
  <2> HIDE DEF r2, vs2
  <2> QED BY <1>1, <1>2, ExactByCount
<1>4. PinnedIn(hs, vs2) \subseteq PinnedIn(hs, vs) \cup {i}
  BY DEF PinnedIn, HoldersOK
<1> QED BY <1>1, <1>3, <1>4

(* A handle is dropped.                                                    *)
LEMMA DropStep ==
  ASSUME ConstantsAssumption, NEW r, NEW hs, NEW vs, HoldersOK(r, hs, vs), Exact(r, hs, vs),
         NEW h \in Handle, hs[h] # NoId
  PROVE  /\ HoldersOK(Unpin(r, hs[h]), [hs EXCEPT ![h] = NoId], vs)
         /\ Exact(Unpin(r, hs[h]), [hs EXCEPT ![h] = NoId], vs)
         /\ PinnedIn([hs EXCEPT ![h] = NoId], vs) \subseteq PinnedIn(hs, vs)
<1>0. PICK i \in Nat : i = hs[h]
  BY DEF HoldersOK, IdOrNone
<1> DEFINE r2 == Unpin(r, i)
           hs2 == [hs EXCEPT ![h] = NoId]
<1>p. i \in DOMAIN r
  BY <1>0 DEF Exact, PinnedIn
<1>1. HoldersOK(r2, hs2, vs)
  <2>1. hs2 \in [Handle -> IdOrNone]
    BY DEF HoldersOK, IdOrNone
  <2>2. r2 \in [DOMAIN r2 -> Nat \ {0}] /\ DOMAIN r2 \subseteq Nat
    BY <1>p, UnpinCounts DEF HoldersOK
  <2> QED BY <2>1, <2>2 DEF HoldersOK
<1>2. ASSUME NEW j \in Nat
      PROVE  Count(r2, j) = RefsIn(hs2, vs, j)
  <2>1. Count(r, j) = RefsIn(hs, vs, j)
    BY ExactByCount
  <2>2. Count(r2, j) = Count(r, j) - (IF j = i THEN 1 ELSE 0)
    BY <1>p, UnpinCounts DEF HoldersOK
  <2>3. /\ Cardinality({x \in Handle : hs[x] = j}) \in Nat
        /\ Cardinality({x \in Handle : hs2[x] = j})
             = Cardinality({x \in Handle : hs[x] = j}) - (IF j = i THEN 1 ELSE 0)
    BY <1>0, CountRemove DEF HoldersOK, ConstantsAssumption
  <2>4. Cardinality({v \in Var : vs[v] = j}) \in Nat
    BY FS_Subset, FS_CardinalityType DEF ConstantsAssumption
  <2> QED BY <2>1, <2>2, <2>3, <2>4 DEF RefsIn
<1>3. Exact(r2, hs2, vs)
  <2> HIDE DEF r2, hs2
  <2> QED BY <1>1, <1>2, ExactByCount
<1>4. PinnedIn(hs2, vs) \subseteq PinnedIn(hs, vs)
  BY DEF PinnedIn, HoldersOK
<1> QED BY <1>0, <1>1, <1>3, <1>4

(* The three variables, before and after a step.                           *)
LEMMA HoldersNow ==
  /\ TypeOK => HoldersOK(roots, handle, vars)
  /\ RootsExact <=> Exact(roots, handle, vars)
  /\ Pinned = PinnedIn(handle, vars)
BY DEF TypeOK, HoldersOK, RootsExact, Exact, Pinned, PinnedIn, Held, Refs, RefsIn, Id

LEMMA HoldersNext ==
  /\ RootsExact' <=> Exact(roots', handle', vars')
  /\ Pinned' = PinnedIn(handle', vars')
BY DEF RootsExact, Exact, Pinned, PinnedIn, Held, Refs, RefsIn

----------------------------------------------------------------------------
(* IInv in three parts: the arena and the apply engine, the handles, and   *)
(* the call in progress.                                                   *)
CoreInv == ArenaTypeOK /\ ArenaInv /\ EngineTypeOK /\ EngineInv

HolderInv ==
  /\ HoldersOK(roots, handle, vars)
  /\ Exact(roots, handle, vars)
  /\ PinnedIn(handle, vars) \subseteq Alloc
  /\ VariablesKept

CallInv ==
  /\ marked \subseteq Slots /\ grey \subseteq Slots
  /\ pc \in Pcs
  /\ threshold \in Nat /\ floor \in Nat
  /\ todo \in Seq([op : {"and", "or"}, arg : Id])
  /\ rpn \in [stack : Seq(Id), saved : [Name -> IdOrNone]]
  /\ used \in [calls : Nat, tokens : Nat]
  /\ PhaseInv /\ RawInv /\ TraceInv

LEMMA IInvParts == IInv <=> CoreInv /\ HolderInv /\ CallInv
BY DEF IInv, TypeOK, CoreInv, HolderInv, CallInv, HoldersOK, Exact, PinnedIn, RootsExact,
       Pinned, Held, Refs, RefsIn, Id

LEMMA IInvPartsNext == CoreInv' /\ HolderInv' /\ CallInv' => IInv'
BY DEF IInv, TypeOK, CoreInv, HolderInv, CallInv, HoldersOK, Exact, PinnedIn, RootsExact,
       Pinned, Held, Refs, RefsIn, Id

----------------------------------------------------------------------------
(* The arena and the engine.                                               *)

LEMMA CoreKept ==
  ASSUME CoreInv, UNCHANGED <<arena, cache, engine>>
  PROVE  CoreInv' /\ Grows /\ headers' = headers
<1>1. /\ ArenaTypeOK' /\ ArenaInv' /\ Grows /\ headers' = headers
      /\ CacheInv'
      /\ cache' \in [DOMAIN cache' -> Id] /\ DOMAIN cache' \subseteq Ops \X Id \X Id \X Id
  BY NothingBuilt DEF CoreInv, EngineInv
<1>2. EngineTypeOK'
  BY <1>1 DEF EngineTypeOK, engine, CoreInv
<1>3. FrameInv' /\ RetInv'
  <2>1. /\ calls' = calls /\ ret' = ret /\ nodes' = nodes /\ free' = free
        /\ FrameInv /\ RetInv
    BY DEF CoreInv, EngineInv, engine, arena
  <2>2. FrameInv'
    <3>1. \A n \in 1 .. Len(calls) : FrameOK(calls[n])'
      BY <2>1 DEF FrameInv, FrameOK, TopLevel, Level, Alloc, Slots
    <3>2. \A n \in 1 .. Len(calls) - 1 : LinkOK(calls[n], calls[n + 1])'
      BY <2>1 DEF FrameInv, LinkOK, TopLevel, Level
    <3> QED BY <2>1, <3>1, <3>2 DEF FrameInv
  <2>3. RetInv'
    BY <2>1 DEF RetInv, LevelFits, Top, TopLevel, Higher, Level, Alloc, Slots
  <2> QED BY <2>2, <2>3
<1> QED BY <1>1, <1>2, <1>3 DEF CoreInv, EngineInv

(* No frame is left, and what was returned is allocated.                   *)
LEMMA CoreReturned ==
  ASSUME ArenaTypeOK', ArenaInv', CacheInv',
         cache' \in [DOMAIN cache' -> Id], DOMAIN cache' \subseteq Ops \X Id \X Id \X Id,
         calls' = <<>>, ret' = NoId \/ (ret' \in Alloc' /\ ret' \in Nat)
  PROVE  CoreInv'
<1>1. EngineTypeOK'
  BY DEF EngineTypeOK, IdOrNone
<1>2. FrameInv' /\ RetInv'
  BY DEF FrameInv, RetInv
<1> QED BY <1>1, <1>2 DEF CoreInv, EngineInv

LEMMA CoreIdle ==
  ASSUME CoreInv, UNCHANGED <<arena, cache>>, calls' = <<>>,
         ret' = NoId \/ (ret' \in Alloc /\ ret' \in Nat)
  PROVE  CoreInv' /\ Grows /\ headers' = headers
<1>1. /\ ArenaTypeOK' /\ ArenaInv' /\ Grows /\ headers' = headers
      /\ CacheInv'
      /\ cache' \in [DOMAIN cache' -> Id] /\ DOMAIN cache' \subseteq Ops \X Id \X Id \X Id
  BY NothingBuilt DEF CoreInv, EngineInv
<1>2. ret' = NoId \/ (ret' \in Alloc' /\ ret' \in Nat)
  BY <1>1 DEF Grows
<1> QED BY <1>1, <1>2, CoreReturned

(* A first call of operation op on allocated operands.                     *)
LEMMA CoreCalled ==
  ASSUME CoreInv, UNCHANGED <<arena, cache>>, NEW op \in Ops, NEW a \in Triple,
         calls' = <<Call(op, a)>>, ret' = NoId
  PROVE  CoreInv' /\ Grows /\ headers' = headers
<1>1. /\ ArenaTypeOK' /\ ArenaInv' /\ Grows /\ headers' = headers
      /\ CacheInv'
      /\ cache' \in [DOMAIN cache' -> Id] /\ DOMAIN cache' \subseteq Ops \X Id \X Id \X Id
  BY NothingBuilt DEF CoreInv, EngineInv
<1>2. PICK c \in Frame : c = Call(op, a) /\ FrameOK(c) /\ c.stage = "enter"
  BY NewCall DEF CoreInv
<1>3. calls' = <<c>> /\ Len(calls') = 1 /\ calls'[1] = c /\ calls' \in Seq(Frame)
  BY <1>2
<1>4. EngineTypeOK'
  BY <1>1, <1>3 DEF EngineTypeOK, IdOrNone
<1>5. FrameOK(c)'
  BY <1>2 DEF FrameOK, TopLevel, Level, Alloc, Slots, arena
<1>6. FrameInv'
  <2>1. \A n \in 1 .. Len(calls') : n = 1
    BY <1>3
  <2>2. \A n \in 1 .. Len(calls') - 1 : FALSE
    BY <1>3
  <2> QED BY <1>3, <1>5, <2>1, <2>2 DEF FrameInv
<1>7. RetInv'
  BY <1>2, <1>3 DEF RetInv, Top
<1> QED BY <1>1, <1>4, <1>6, <1>7 DEF CoreInv, EngineInv

(* defvar of a new variable: a new header and the node over the terminals. *)
LEMMA VariableDeclared ==
  ASSUME CoreInv, HolderInv, NEW v \in Var, DeclareVar(v), UNCHANGED <<cache, calls, ret>>,
         calls = <<>>, ret = NoId
  PROVE  /\ CoreInv' /\ Grows
         /\ vars[v] = NoId
         /\ vars'[v] \in Nat /\ vars'[v] \in Alloc' /\ vars' = [vars EXCEPT ![v] = vars'[v]]
         /\ VariablesKept'
<1> DEFINE l == Len(headers)
           id == NodeFor(l, Zero, One)
<1>1. l \in Nat /\ headers' = Append(headers, v) /\ headers \in Seq(Var)
  BY DEF CoreInv, ArenaTypeOK, DeclareVar
<1>2. headers' \in Seq(Var) /\ Len(headers') = l + 1 /\ headers'[l + 1] = v
      /\ \A n \in 1 .. l : headers'[n] = headers[n]
  BY <1>1
<1>3. /\ Zero \in Alloc /\ One \in Alloc /\ Zero # One
      /\ Level(Zero) < l /\ Level(One) < l
  <2>1. Level(Zero) = -1 /\ Level(One) = -1 /\ {Zero, One} \subseteq Alloc
    BY SlotTypes DEF CoreInv, Terminals, NoLevel
  <2> QED BY <1>1, <2>1 DEF Zero, One
<1>4. /\ ArenaTypeOK' /\ ArenaInv' /\ Grows
      /\ id \in Alloc' /\ id \in Nat /\ nodes'[id + 1] = <<l, Zero, One>>
  <2>1. CreateNode(l, Zero, One)
    BY DEF DeclareVar
  <2> QED BY <1>1, <1>2, <1>3, <2>1, CreateNodeStep DEF CoreInv
<1>5. PICK i \in Nat : i = id
  BY <1>4
<1>6. vars' = [vars EXCEPT ![v] = i] /\ vars \in [Var -> IdOrNone] /\ vars[v] = NoId
  BY <1>5 DEF DeclareVar, HolderInv, HoldersOK
<1>7. CoreInv'
  <2>1. CacheInv'
    BY <1>4, CacheKept DEF CoreInv, EngineInv
  <2>2. cache' \in [DOMAIN cache' -> Id] /\ DOMAIN cache' \subseteq Ops \X Id \X Id \X Id
    BY DEF CoreInv, EngineTypeOK
  <2>3. calls' = <<>> /\ ret' = NoId
    OBVIOUS
  <2>4. ArenaTypeOK' /\ ArenaInv'
    BY <1>4
  <2> QED BY <2>1, <2>2, <2>3, <2>4, CoreReturned
<1>8. VariablesKept'
  <2> SUFFICES ASSUME NEW w \in Var, vars'[w] # NoId
               PROVE  \E m \in 0 .. Len(headers') - 1 :
                        headers'[m + 1] = w /\ nodes'[vars'[w] + 1] = <<m, Zero, One>>
    BY DEF VariablesKept
  <2>1. CASE w = v
    <3>1. l \in 0 .. Len(headers') - 1 /\ headers'[l + 1] = w
      BY <1>1, <1>2, <2>1
    <3>2. vars'[w] = id
      BY <1>5, <1>6, <2>1
    <3>3. nodes'[vars'[w] + 1] = <<l, Zero, One>>
      BY <1>4, <3>2
    <3> QED BY <3>1, <3>3
  <2>2. CASE w # v
    <3>1. vars'[w] = vars[w] /\ vars[w] # NoId
      BY <1>6, <2>2
    <3>2. PICK m \in 0 .. Len(headers) - 1 :
            headers[m + 1] = w /\ nodes[vars[w] + 1] = <<m, Zero, One>>
      BY <3>1 DEF HolderInv, VariablesKept
    <3>3. vars[w] \in Alloc
      BY <3>1 DEF HolderInv, PinnedIn
    <3>4. nodes'[vars[w] + 1] = nodes[vars[w] + 1]
      BY <1>4, <3>3 DEF Grows
    <3>5. m \in 0 .. Len(headers') - 1 /\ headers'[m + 1] = headers[m + 1]
      BY <1>1, <1>2, <3>2
    <3> QED BY <3>1, <3>2, <3>4, <3>5
  <2> QED BY <2>1, <2>2
<1> QED BY <1>4, <1>5, <1>6, <1>7, <1>8

----------------------------------------------------------------------------
(* The handles.                                                            *)

LEMMA VariablesStay ==
  ASSUME HolderInv, Grows, UNCHANGED <<vars, headers>>
  PROVE  VariablesKept'
<1> SUFFICES ASSUME NEW w \in Var, vars[w] # NoId
             PROVE  \E m \in 0 .. Len(headers) - 1 :
                      headers[m + 1] = w /\ nodes'[vars[w] + 1] = <<m, Zero, One>>
  BY DEF VariablesKept
<1>1. vars[w] \in Alloc
  BY DEF HolderInv, PinnedIn
<1>2. nodes'[vars[w] + 1] = nodes[vars[w] + 1]
  BY <1>1 DEF Grows
<1> QED BY <1>2 DEF HolderInv, VariablesKept

LEMMA HoldersKept ==
  ASSUME HolderInv, Grows, UNCHANGED <<vars, handle, roots, headers>>
  PROVE  HolderInv'
<1>1. VariablesKept'
  BY VariablesStay
<1>2. PinnedIn(handle, vars) \subseteq Alloc'
  BY DEF HolderInv, Grows
<1> QED BY <1>1, <1>2 DEF HolderInv

(* An empty handle takes an allocated node.                                *)
LEMMA HandleTaken ==
  ASSUME HolderInv, Grows, UNCHANGED <<vars, headers>>,
         NEW h \in Handle, handle[h] = NoId, NEW i \in Nat, i \in Alloc',
         handle' = [handle EXCEPT ![h] = i], roots' = Pin(roots, i)
  PROVE  HolderInv'
<1>1. VariablesKept'
  BY VariablesStay
<1>2. /\ HoldersOK(roots', handle', vars) /\ Exact(roots', handle', vars)
      /\ PinnedIn(handle', vars) \subseteq PinnedIn(handle, vars) \cup {i}
  BY HoldStep, ConstantsAssumption DEF HolderInv
<1>3. PinnedIn(handle', vars) \subseteq Alloc'
  BY <1>2 DEF HolderInv, Grows
<1> QED BY <1>1, <1>2, <1>3 DEF HolderInv

(* A handle is dropped.                                                    *)
LEMMA HandleGiven ==
  ASSUME HolderInv, Grows, UNCHANGED <<vars, headers>>,
         NEW h \in Handle, handle[h] # NoId,
         handle' = [handle EXCEPT ![h] = NoId], roots' = Unpin(roots, handle[h])
  PROVE  HolderInv'
<1>1. VariablesKept'
  BY VariablesStay
<1>2. /\ HoldersOK(roots', handle', vars) /\ Exact(roots', handle', vars)
      /\ PinnedIn(handle', vars) \subseteq PinnedIn(handle, vars)
  BY DropStep, ConstantsAssumption DEF HolderInv
<1>3. PinnedIn(handle', vars) \subseteq Alloc'
  BY <1>2 DEF HolderInv, Grows
<1> QED BY <1>1, <1>2, <1>3 DEF HolderInv

(* Two empty handles take a node each.                                     *)
LEMMA TwoHandlesTaken ==
  ASSUME HolderInv, Grows, UNCHANGED <<vars, headers>>,
         NEW h \in Handle, NEW g \in Handle, h # g, handle[h] = NoId, handle[g] = NoId,
         NEW i \in Nat, i \in Alloc', NEW k \in Nat, k \in Alloc',
         handle' = [handle EXCEPT ![h] = i, ![g] = k], roots' = Pin(Pin(roots, i), k)
  PROVE  HolderInv'
<1>1. VariablesKept'
  BY VariablesStay
<1>2. PICK f : f = [handle EXCEPT ![h] = i]
  OBVIOUS
<1>3. PICK r : r = Pin(roots, i)
  OBVIOUS
<1>4. /\ HoldersOK(r, f, vars) /\ Exact(r, f, vars)
      /\ PinnedIn(f, vars) \subseteq PinnedIn(handle, vars) \cup {i}
  BY <1>2, <1>3, HoldStep, ConstantsAssumption DEF HolderInv
<1>5. f[g] = NoId /\ handle' = [f EXCEPT ![g] = k] /\ roots' = Pin(r, k)
  BY <1>2, <1>3 DEF HolderInv, HoldersOK
<1>6. /\ HoldersOK(roots', handle', vars) /\ Exact(roots', handle', vars)
      /\ PinnedIn(handle', vars) \subseteq PinnedIn(f, vars) \cup {k}
  <2>1. /\ HoldersOK(Pin(r, k), [f EXCEPT ![g] = k], vars)
        /\ Exact(Pin(r, k), [f EXCEPT ![g] = k], vars)
        /\ PinnedIn([f EXCEPT ![g] = k], vars) \subseteq PinnedIn(f, vars) \cup {k}
    <3>1. HoldersOK(r, f, vars) /\ Exact(r, f, vars) /\ f[g] = NoId
      BY <1>4, <1>5
    <3> QED BY <3>1, HoldStep, ConstantsAssumption
  <2> QED BY <1>5, <2>1
<1>7. PinnedIn(handle', vars) \subseteq Alloc'
  BY <1>4, <1>6 DEF HolderInv, Grows
<1> QED BY <1>1, <1>6, <1>7 DEF HolderInv

(* The manager's handle of a new variable, and possibly a client's.        *)
LEMMA VariableTaken ==
  ASSUME HolderInv, Grows, VariablesKept', NEW v \in Var, vars[v] = NoId,
         NEW i \in Nat, i \in Alloc', vars' = [vars EXCEPT ![v] = i],
         \/ handle' = handle /\ roots' = Pin(roots, i)
         \/ /\ roots' = Pin(Pin(roots, i), i)
            /\ \E h \in Handle : handle[h] = NoId /\ handle' = [handle EXCEPT ![h] = i]
  PROVE  HolderInv'
<1>1. PICK r : r = Pin(roots, i)
  OBVIOUS
<1>2. /\ HoldersOK(r, handle, vars') /\ Exact(r, handle, vars')
      /\ PinnedIn(handle, vars') \subseteq PinnedIn(handle, vars) \cup {i}
  BY <1>1, DeclareStep, ConstantsAssumption DEF HolderInv
<1>3. /\ HoldersOK(roots', handle', vars') /\ Exact(roots', handle', vars')
      /\ PinnedIn(handle', vars') \subseteq PinnedIn(handle, vars') \cup {i}
  <2>1. CASE handle' = handle /\ roots' = Pin(roots, i)
    BY <1>1, <1>2, <2>1
  <2>2. CASE /\ roots' = Pin(Pin(roots, i), i)
             /\ \E h \in Handle : handle[h] = NoId /\ handle' = [handle EXCEPT ![h] = i]
    <3>1. PICK h \in Handle : handle[h] = NoId /\ handle' = [handle EXCEPT ![h] = i]
      BY <2>2
    <3> QED BY <1>1, <1>2, <2>2, <3>1, HoldStep, ConstantsAssumption
  <2> QED BY <2>1, <2>2
<1>4. PinnedIn(handle', vars') \subseteq Alloc'
  BY <1>2, <1>3 DEF HolderInv, Grows
<1> QED BY <1>3, <1>4 DEF HolderInv

----------------------------------------------------------------------------
(* The call in progress.                                                   *)

LEMMA RawKept ==
  ASSUME CallInv, Grows, UNCHANGED <<todo, rpn>>
  PROVE  RawInv'
BY DEF CallInv, RawInv, Grows

(* What a step outside a collection has to show.                           *)
LEMMA CallOutsideGc ==
  ASSUME CallInv, pc \notin {"autogc", "gc"}, pc' \in Pcs \ {"autogc", "gc"},
         UNCHANGED tracing, threshold' \in Nat, floor' \in Nat,
         used' \in [calls : Nat, tokens : Nat],
         todo' \in Seq([op : {"and", "or"}, arg : Id]),
         rpn' \in [stack : Seq(Id), saved : [Name -> IdOrNone]],
         RawInv',
         pc' \notin {"op", "rpnop"} => calls' = <<>> /\ ret' = NoId,
         pc' # "op" => todo' = <<>>,
         pc' \notin {"rpn", "rpnop", "unwinding"} => rpn' = NoRpn
  PROVE  CallInv'
<1>1. marked' = {} /\ grey' = {}
  BY DEF CallInv, PhaseInv, tracing
<1>2. PhaseInv'
  BY <1>1 DEF PhaseInv
<1>3. TraceInv'
  BY <1>1 DEF TraceInv, Kids
<1> QED BY <1>1, <1>2, <1>3 DEF CallInv

(* The common case: the call, if any, goes on as before.                   *)
LEMMA CallKept ==
  ASSUME CallInv, Grows, pc \notin {"autogc", "gc"},
         UNCHANGED <<tracing, engine, pc, todo, rpn, used>>, threshold' \in Nat, floor' \in Nat
  PROVE  CallInv'
<1>1. RawInv'
  BY RawKept
<1>2. PhaseInv /\ engine' = engine /\ tracing' = tracing
  BY DEF CallInv
<1>3. /\ pc' \notin {"op", "rpnop"} => calls' = <<>> /\ ret' = NoId
      /\ pc' # "op" => todo' = <<>>
      /\ pc' \notin {"rpn", "rpnop", "unwinding"} => rpn' = NoRpn
  BY <1>2 DEF PhaseInv, engine
<1>4. pc' \in Pcs \ {"autogc", "gc"}
  BY DEF CallInv
<1> QED BY <1>1, <1>2, <1>3, <1>4, CallOutsideGc DEF CallInv, NoRpn

----------------------------------------------------------------------------
(* The actions, in the order of ClientCall, RpnToken and Progress.         *)

(* A handle's node and a variable's node are allocated.                    *)
LEMMA PinnedIds ==
  ASSUME CoreInv, HolderInv
  PROVE  /\ \A h \in Handle : handle[h] # NoId => handle[h] \in Nat /\ handle[h] \in Alloc
         /\ \A v \in Var : vars[v] # NoId => vars[v] \in Nat /\ vars[v] \in Alloc
         /\ Held \subseteq Alloc /\ Terminals \subseteq Alloc /\ Alloc \subseteq Nat
<1>1. /\ \A h \in Handle : handle[h] # NoId => handle[h] \in PinnedIn(handle, vars)
      /\ \A v \in Var : vars[v] # NoId => vars[v] \in PinnedIn(handle, vars)
      /\ Held \subseteq PinnedIn(handle, vars)
  BY DEF PinnedIn, Held
<1>2. Terminals \subseteq Alloc /\ Alloc \subseteq Nat
  BY SlotTypes DEF CoreInv
<1> QED BY <1>1, <1>2 DEF HolderInv

LEMMA AllocBelow ==
  ASSUME ArenaTypeOK
  PROVE  \A i \in Alloc : i < Len(nodes)
<1> SUFFICES ASSUME NEW i \in Alloc PROVE i < Len(nodes)
  OBVIOUS
<1>1. PICK n \in Nat : n = Len(nodes)
  BY DEF ArenaTypeOK
<1>2. i \in 0 .. n - 1
  BY <1>1 DEF Alloc, Slots
<1> QED BY <1>1, <1>2

LEMMA SlotTypesNext ==
  ArenaTypeOK' => Alloc' \subseteq Nat
BY DEF ArenaTypeOK, Alloc, Slots

LEMMA CloneHandlePreserves ==
  ASSUME CoreInv, HolderInv, CallInv, NEW h \in Handle, NEW g \in Handle, CloneHandle(h, g)
  PROVE  CoreInv' /\ HolderInv' /\ CallInv'
<1> USE DEF CloneHandle
<1>1. CoreInv' /\ Grows /\ headers' = headers
  BY CoreKept
<1>2. PICK i \in Nat : i = handle[h] /\ i \in Alloc
  BY PinnedIds
<1>3. HolderInv'
  BY <1>1, <1>2, HandleTaken DEF Hold, Unused, Grows
<1>4. CallInv'
  BY <1>1, CallKept DEF Ready, CallInv
<1> QED BY <1>1, <1>3, <1>4

LEMMA DropHandlePreserves ==
  ASSUME CoreInv, HolderInv, CallInv, NEW h \in Handle, DropHandle(h)
  PROVE  CoreInv' /\ HolderInv' /\ CallInv'
<1> USE DEF DropHandle
<1>1. CoreInv' /\ Grows /\ headers' = headers
  BY CoreKept
<1>2. HolderInv'
  BY <1>1, HandleGiven DEF Hold
<1>3. CallInv'
  BY <1>1, CallKept DEF CallInv
<1> QED BY <1>1, <1>2, <1>3

LEMMA DefVarNewPreserves ==
  ASSUME CoreInv, HolderInv, CallInv, NEW v \in Var, NEW h \in Handle, DefVarNew(v, h)
  PROVE  CoreInv' /\ HolderInv' /\ CallInv'
<1> USE DEF DefVarNew
<1>1. pc = "idle" /\ calls = <<>> /\ ret = NoId
      /\ UNCHANGED <<cache, calls, ret>> /\ DeclareVar(v)
  BY DEF Ready, CallInv, PhaseInv, engine
<1>2. /\ CoreInv' /\ Grows /\ vars[v] = NoId /\ VariablesKept'
      /\ vars'[v] \in Nat /\ vars'[v] \in Alloc' /\ vars' = [vars EXCEPT ![v] = vars'[v]]
  BY <1>1, VariableDeclared
<1>3. HolderInv'
  <2>1. PICK i \in Nat : i = vars'[v]
    BY <1>2
  <2>2. /\ roots' = Pin(Pin(roots, i), i)
        /\ handle[h] = NoId /\ handle' = [handle EXCEPT ![h] = i]
    BY <2>1 DEF Hold, Unused
  <2>3. i \in Alloc' /\ vars' = [vars EXCEPT ![v] = i]
    BY <1>2, <2>1
  <2> QED BY <1>2, <2>2, <2>3, VariableTaken
<1>4. CallInv'
  BY <1>1, <1>2, CallKept DEF CallInv
<1> QED BY <1>2, <1>3, <1>4

LEMMA DefVarKnownPreserves ==
  ASSUME CoreInv, HolderInv, CallInv, NEW v \in Var, NEW h \in Handle, DefVarKnown(v, h)
  PROVE  CoreInv' /\ HolderInv' /\ CallInv'
<1> USE DEF DefVarKnown
<1>1. CoreInv' /\ Grows /\ headers' = headers
  BY CoreKept
<1>2. PICK i \in Nat : i = vars[v] /\ i \in Alloc
  BY PinnedIds
<1>3. HolderInv'
  BY <1>1, <1>2, HandleTaken DEF Hold, Unused, Grows
<1>4. CallInv'
  BY <1>1, CallKept DEF Ready, CallInv
<1> QED BY <1>1, <1>3, <1>4

LEMMA GetChildrenPreserves ==
  ASSUME CoreInv, HolderInv, CallInv,
         NEW h \in Handle, NEW low \in Handle, NEW high \in Handle, GetChildren(h, low, high)
  PROVE  CoreInv' /\ HolderInv' /\ CallInv'
<1> USE DEF GetChildren
<1>1. CoreInv' /\ Grows /\ headers' = headers
  BY CoreKept
<1>2. handle[h] \in Inner
  BY PinnedIds DEF Inner
<1>3. Low(handle[h]) \in Alloc /\ High(handle[h]) \in Alloc
  BY <1>2 DEF CoreInv, ArenaInv, Ordered
<1>4. PICK i \in Nat : i = Low(handle[h]) /\ i \in Alloc
  BY <1>3, PinnedIds
<1>5. PICK k \in Nat : k = High(handle[h]) /\ k \in Alloc
  BY <1>3, PinnedIds
<1>6. HolderInv'
  <2>1. handle' = [handle EXCEPT ![low] = i, ![high] = k] /\ roots' = Pin(Pin(roots, i), k)
    BY <1>4, <1>5
  <2>2. low # high /\ handle[low] = NoId /\ handle[high] = NoId
    BY DEF Unused
  <2>3. i \in Alloc' /\ k \in Alloc'
    BY <1>1, <1>4, <1>5 DEF Grows
  <2>4. UNCHANGED <<vars, headers>>
    BY <1>1
  <2> HIDE DEF GetChildren
  <2> QED BY <1>1, <2>1, <2>2, <2>3, <2>4, TwoHandlesTaken
<1>7. CallInv'
  BY <1>1, CallKept DEF Ready, CallInv
<1> QED BY <1>1, <1>6, <1>7

LEMMA SetGcThresholdPreserves ==
  ASSUME CoreInv, HolderInv, CallInv, NEW t \in Threshold, SetGcThreshold(t)
  PROVE  CoreInv' /\ HolderInv' /\ CallInv'
<1> USE DEF SetGcThreshold
<1>1. CoreInv' /\ Grows /\ headers' = headers
  BY CoreKept
<1>2. HolderInv'
  BY <1>1, HoldersKept
<1>3. CallInv'
  BY <1>1, CallKept, ConstantsAssumption DEF ConstantsAssumption
<1> QED BY <1>1, <1>2, <1>3

LEMMA ClearCachePreserves ==
  ASSUME CoreInv, HolderInv, CallInv, ClearCache
  PROVE  CoreInv' /\ HolderInv' /\ CallInv'
<1> USE DEF ClearCache
<1>1. pc = "idle" /\ calls = <<>> /\ ret = NoId /\ calls' = <<>> /\ ret' = NoId
  BY DEF CallInv, PhaseInv, engine
<1>2. ArenaTypeOK' /\ ArenaInv' /\ Grows /\ headers' = headers
  <2>1. Grows /\ headers' = headers
    BY DEF arena, Grows, Alloc, Slots
  <2>2. ArenaTypeOK' /\ ArenaInv'
    BY DEF arena, ArenaTypeOK, TerminalsInPlace, Slots, ArenaInv, Ordered, UtableExact,
           Canonical, Inner, Alloc, Level, Low, High, CoreInv
  <2> QED BY <2>1, <2>2
<1>3. CoreInv'
  <2>1. /\ CacheInv'
        /\ cache' \in [DOMAIN cache' -> Id] /\ DOMAIN cache' \subseteq Ops \X Id \X Id \X Id
    BY DEF CacheInv
  <2> QED BY <1>1, <1>2, <2>1, CoreReturned
<1>4. UNCHANGED <<vars, handle, roots, threshold, floor, todo, rpn, headers>>
  BY DEF mgr, gcstate, arena
<1>5. HolderInv'
  BY <1>2, <1>4, HoldersKept
<1>6. CallInv'
  BY <1>1, <1>2, <1>4, CallKept DEF CallInv
<1> QED BY <1>3, <1>5, <1>6

LEMMA ConstantPreserves ==
  ASSUME CoreInv, HolderInv, CallInv, NEW t \in Terminals, Constant(t)
  PROVE  CoreInv' /\ HolderInv' /\ CallInv'
<1> USE DEF Constant
<1>1. pc = "idle" /\ calls' = <<>> /\ todo = <<>> /\ rpn = NoRpn
  BY DEF CanBuild, Ready, CallInv, PhaseInv
<1>2. t \in Nat /\ t \in Alloc
  BY PinnedIds DEF Terminals, Zero, One, Undet
<1>3. CoreInv' /\ Grows /\ headers' = headers
  BY <1>1, <1>2, CoreIdle
<1>4. UNCHANGED <<vars, handle, roots, threshold, floor, todo, rpn>>
  BY DEF mgr, gcstate
<1>5. HolderInv'
  BY <1>3, <1>4, HoldersKept
<1>6. CallInv'
  <2>1. RawInv'
    BY <1>3, <1>4, RawKept
  <2>2. used' \in [calls : Nat, tokens : Nat]
    BY DEF CountCall, CallInv
  <2> QED BY <1>1, <1>4, <2>1, <2>2, CallOutsideGc DEF CallInv, Pcs
<1> QED BY <1>3, <1>5, <1>6

LEMMA PublicCreateNodePreserves ==
  ASSUME CoreInv, HolderInv, CallInv, NEW l \in 0 .. Len(headers) - 1,
         NEW lo \in Held, NEW hi \in Held, PublicCreateNode(l, lo, hi)
  PROVE  CoreInv' /\ HolderInv' /\ CallInv'
<1> USE DEF PublicCreateNode
<1>1. pc = "idle" /\ calls' = <<>> /\ todo = <<>> /\ rpn = NoRpn
  BY DEF CanBuild, Ready, CallInv, PhaseInv
<1>2. lo \in Alloc /\ hi \in Alloc /\ l \in Nat
      /\ headers \in Seq(Var) /\ l < Len(headers)
  BY PinnedIds DEF CoreInv, ArenaTypeOK
<1>3. PICK id : id = NodeFor(l, lo, hi)
  OBVIOUS
<1>4. ArenaTypeOK' /\ ArenaInv' /\ Grows /\ id \in Alloc' /\ id \in Nat
  BY <1>2, <1>3, CreateNodeStep DEF CoreInv
<1>5. CoreInv'
  <2>1. CacheInv'
    BY <1>4, CacheKept DEF CoreInv, EngineInv
  <2>2. cache' \in [DOMAIN cache' -> Id] /\ DOMAIN cache' \subseteq Ops \X Id \X Id \X Id
    BY DEF CoreInv, EngineTypeOK
  <2>3. ret' = id
    BY <1>3
  <2> HIDE DEF PublicCreateNode
  <2> QED BY <1>1, <1>4, <2>1, <2>2, <2>3, CoreReturned
<1>6. UNCHANGED <<vars, handle, roots, threshold, floor, todo, rpn, headers>>
  BY DEF mgr, gcstate
<1>7. HolderInv'
  BY <1>4, <1>6, HoldersKept
<1>8. CallInv'
  <2>1. RawInv'
    BY <1>4, <1>6, RawKept
  <2>2. used' \in [calls : Nat, tokens : Nat]
    BY DEF CountCall, CallInv
  <2>3. UNCHANGED tracing /\ pc' = "op"
    OBVIOUS
  <2> HIDE DEF PublicCreateNode
  <2> QED BY <1>1, <1>6, <2>1, <2>2, <2>3, CallOutsideGc DEF CallInv, Pcs
<1> QED BY <1>5, <1>7, <1>8

LEMMA InvokePreserves ==
  ASSUME CoreInv, HolderInv, CallInv, NEW op \in Called, NEW args \in ArgTuples(op),
         Invoke(op, args)
  PROVE  CoreInv' /\ HolderInv' /\ CallInv'
<1> USE DEF Invoke
<1>1. pc = "idle" /\ ret' = NoId /\ todo = <<>> /\ rpn = NoRpn
  BY DEF CanBuild, Ready, CallInv, PhaseInv
<1>2. op \in Ops /\ args \in Triple
  <2>1. Held \subseteq Alloc /\ Zero \in Alloc
    BY PinnedIds DEF Terminals
  <2> QED BY <2>1, ConstantsAssumption DEF ConstantsAssumption, ArgTuples, Triple
<1>3. CoreInv' /\ Grows /\ headers' = headers
  BY <1>1, <1>2, CoreCalled
<1>4. UNCHANGED <<vars, handle, roots, threshold, floor, todo, rpn>>
  BY DEF mgr, gcstate
<1>5. HolderInv'
  BY <1>3, <1>4, HoldersKept
<1>6. CallInv'
  <2>1. RawInv'
    BY <1>3, <1>4, RawKept
  <2>2. used' \in [calls : Nat, tokens : Nat]
    BY DEF CountCall, CallInv
  <2> QED BY <1>1, <1>4, <2>1, <2>2, CallOutsideGc DEF CallInv, Pcs
<1> QED BY <1>3, <1>5, <1>6

LEMMA InvokeListPreserves ==
  ASSUME CoreInv, HolderInv, CallInv, NEW op \in {"and", "or"}, NEW list \in Lists,
         InvokeList(op, list)
  PROVE  CoreInv' /\ HolderInv' /\ CallInv'
<1> USE DEF InvokeList
<1>1. pc = "idle" /\ calls' = <<>> /\ rpn = NoRpn
  BY DEF CanBuild, Ready, CallInv, PhaseInv
<1>2. ret' \in Nat /\ ret' \in Alloc
  <2>1. {Zero, One} \subseteq Alloc /\ {Zero, One} \subseteq Nat
    BY PinnedIds DEF Terminals, Zero, One
  <2> QED BY <2>1
<1>3. CoreInv' /\ Grows /\ headers' = headers
  BY <1>1, <1>2, CoreIdle
<1>4. UNCHANGED <<vars, handle, roots, threshold, floor, rpn>>
  BY DEF gcstate
<1>5. HolderInv'
  BY <1>3, <1>4, HoldersKept
<1>6. PICK n \in Nat : list \in [1 .. n -> Alloc]
  <2>1. PICK n \in 0 .. MaxList : list \in [1 .. n -> Held]
    BY DEF Lists
  <2> QED BY <2>1, PinnedIds, ConstantsAssumption DEF ConstantsAssumption
<1>7. todo' = [k \in 1 .. n |-> [op |-> op, arg |-> list[k]]]
  BY <1>6
<1>8. CallInv'
  <2>1. todo' \in Seq([op : {"and", "or"}, arg : Id]) /\ \A k \in DOMAIN todo' : todo'[k].arg \in Alloc
    BY <1>6, <1>7, PinnedIds DEF Id
  <2>2. RawInv'
    BY <1>3, <1>4, <2>1 DEF RawInv, Grows, CallInv
  <2>3. used' \in [calls : Nat, tokens : Nat]
    BY DEF CountCall, CallInv
  <2> QED BY <1>1, <1>4, <2>1, <2>2, <2>3, CallOutsideGc DEF CallInv, Pcs
<1> QED BY <1>3, <1>5, <1>8

LEMMA FoldNextPreserves ==
  ASSUME CoreInv, HolderInv, CallInv, FoldNext
  PROVE  CoreInv' /\ HolderInv' /\ CallInv'
<1> USE DEF FoldNext
<1>1. PICK t : t = Head(todo)
  OBVIOUS
<1>2. /\ t.op \in Ops /\ t.arg \in Alloc
      /\ todo' \in Seq([op : {"and", "or"}, arg : Id])
      /\ \A n \in DOMAIN todo' : todo'[n].arg \in Alloc
  <2> DEFINE Item == [op : {"and", "or"}, arg : Id]
  <2>1. /\ todo \in Seq(Item) /\ todo # <<>> /\ todo' = Tail(todo)
        /\ \A n \in DOMAIN todo : todo[n].arg \in Alloc
    BY DEF CallInv, RawInv
  <2>2. /\ DOMAIN todo = 1 .. Len(todo) /\ 1 \in DOMAIN todo /\ t = todo[1]
        /\ todo' \in Seq(Item) /\ DOMAIN todo' = 1 .. Len(todo) - 1
        /\ \A n \in DOMAIN todo' : n + 1 \in DOMAIN todo /\ todo'[n] = todo[n + 1]
    <3> HIDE DEF Item, FoldNext
    <3> QED BY <1>1, <2>1
  <2>3. t \in Item
    <3> HIDE DEF Item
    <3> QED BY <2>1, <2>2
  <2> QED BY <2>1, <2>2, <2>3 DEF Ops
<1>3. PICK r : r = ret /\ r \in Alloc
  BY DEF CoreInv, EngineInv, RetInv
<1>4. <<r, t.arg, Zero>> \in Triple
  BY <1>2, <1>3, PinnedIds DEF Triple, Terminals
<1>5. calls' = <<Call(t.op, <<r, t.arg, Zero>>)>> /\ ret' = NoId
  BY <1>1, <1>3
<1>6. CoreInv' /\ Grows /\ headers' = headers
  <2>1. UNCHANGED <<arena, cache>>
    OBVIOUS
  <2> HIDE DEF FoldNext
  <2> QED BY <1>2, <1>4, <1>5, <2>1, CoreCalled
<1>7. UNCHANGED <<vars, handle, roots, threshold, floor, rpn>>
  BY DEF gcstate
<1>8. HolderInv'
  BY <1>6, <1>7, HoldersKept
<1>9. CallInv'
  <2>1. RawInv'
    BY <1>2, <1>6, <1>7 DEF RawInv, Grows, CallInv
  <2>2. rpn = NoRpn /\ pc = "op" /\ pc' = "op" /\ UNCHANGED tracing /\ used' = used
    BY DEF CallInv, PhaseInv
  <2> HIDE DEF FoldNext
  <2> QED BY <1>2, <1>5, <1>7, <2>1, <2>2, CallOutsideGc DEF CallInv, Pcs
<1> QED BY <1>6, <1>8, <1>9

(* One step of the running operation.                                      *)
LEMMA ApplyPreserves ==
  ASSUME CoreInv, HolderInv, CallInv, Apply
  PROVE  CoreInv' /\ HolderInv' /\ CallInv'
<1> USE DEF Apply
<1>1. CoreInv' /\ Grows /\ headers' = headers
  BY ApplyStepInv DEF CoreInv
<1>2. UNCHANGED <<vars, handle, roots, threshold, floor, todo, rpn>>
  BY DEF mgr, gcstate
<1>3. HolderInv'
  BY <1>1, <1>2, HoldersKept
<1>4. CallInv'
  <2>1. RawInv'
    BY <1>1, <1>2, RawKept
  <2>2. /\ pc' = pc /\ pc \in {"op", "rpnop"} /\ UNCHANGED tracing /\ used' = used
        /\ pc # "op" => todo' = <<>>
        /\ pc \notin {"rpn", "rpnop", "unwinding"} => rpn' = NoRpn
    BY <1>2 DEF CallInv, PhaseInv
  <2> HIDE DEF Apply
  <2> QED BY <1>2, <2>1, <2>2, CallOutsideGc DEF CallInv, Pcs
<1> QED BY <1>1, <1>3, <1>4

(* The result is pinned first; a collection may start after that, and its  *)
(* roots contain the result.                                               *)
LEMMA FinishPreserves ==
  ASSUME CoreInv, HolderInv, CallInv, NEW h \in Handle, Finish(h)
  PROVE  CoreInv' /\ HolderInv' /\ CallInv'
<1> USE DEF Finish
<1>1. calls' = <<>> /\ ret' = NoId /\ todo = <<>> /\ rpn = NoRpn
      /\ marked = {} /\ grey = {}
  BY DEF CallInv, PhaseInv
<1>2. CoreInv' /\ Grows /\ headers' = headers
  BY <1>1, CoreIdle
<1>3. PICK i \in Nat : i = ret /\ i \in Alloc
  BY PinnedIds DEF CoreInv, EngineInv, RetInv
<1>4. HolderInv'
  <2>1. i \in Alloc'
    BY <1>2, <1>3 DEF Grows
  <2>2. handle' = [handle EXCEPT ![h] = i] /\ handle[h] = NoId /\ roots' = Pin(roots, i)
    BY <1>3 DEF Hold, Unused
  <2>3. UNCHANGED <<vars, headers>>
    BY <1>2
  <2> HIDE DEF Finish
  <2> QED BY <1>2, <2>1, <2>2, <2>3, HandleTaken
<1>5. UNCHANGED <<threshold, floor, todo, rpn, used>>
  OBVIOUS
<1>6. RawInv'
  BY <1>2, <1>5, RawKept
<1>7. CallInv'
  <2>1. CASE pc' = "idle" /\ UNCHANGED tracing
    <3>1. /\ pc = "op" /\ calls' = <<>> /\ ret' = NoId /\ todo' = <<>> /\ rpn' = NoRpn
      BY <1>1
    <3> HIDE DEF Finish
    <3> QED BY <1>5, <1>6, <2>1, <3>1, CallOutsideGc DEF CallInv, Pcs
  <2>2. CASE pc' = "autogc" /\ StartMark(DOMAIN roots')
    <3>1. marked' = {} /\ grey' = Terminals \cup {r \in DOMAIN roots' : r < Len(nodes)}
      BY <2>2 DEF StartMark
    <3>2. DOMAIN roots' \subseteq Alloc' /\ Terminals \subseteq Alloc'
      BY <1>2, <1>4, PinnedIds DEF HolderInv, Exact, Grows
    <3>3. Alloc' \subseteq Slots' /\ Slots' = Slots /\ Slots = 0 .. Len(nodes) - 1
      BY DEF arena, Alloc, Slots
    <3>5. grey' = Terminals \cup DOMAIN roots'
      <4>1. \A r \in DOMAIN roots' : r < Len(nodes)
        <5>1. Alloc' = Alloc
          BY DEF arena, Alloc, Slots
        <5>2. DOMAIN roots' \subseteq Alloc
          BY <3>2, <5>1
        <5> QED BY <5>2, AllocBelow DEF CoreInv
      <4>2. {r \in DOMAIN roots' : r < Len(nodes)} = DOMAIN roots'
        BY <4>1, Zenon
      <4> QED BY <3>1, <4>2, Zenon
    <3>6. TraceInv' /\ marked' \subseteq Slots' /\ grey' \subseteq Slots'
      BY <3>1, <3>2, <3>3, <3>5 DEF TraceInv, Kids
    <3>7. PhaseInv'
      BY <1>1, <1>5, <2>2 DEF PhaseInv
    <3> QED BY <1>5, <1>6, <2>2, <3>6, <3>7 DEF CallInv, Pcs
  <2> QED BY <2>1, <2>2
<1> QED BY <1>2, <1>4, <1>7

LEMMA ExplicitGcPreserves ==
  ASSUME CoreInv, HolderInv, CallInv, NEW keep \in SUBSET Held, ExplicitGc(keep)
  PROVE  CoreInv' /\ HolderInv' /\ CallInv'
<1> USE DEF ExplicitGc
<1>1. CoreInv' /\ Grows /\ headers' = headers
  BY CoreKept
<1>2. UNCHANGED <<vars, handle, roots, threshold, floor, todo, rpn, used, calls, ret>>
  BY DEF mgr, gcstate, engine
<1>3. HolderInv'
  BY <1>1, <1>2, HoldersKept
<1>4. CallInv'
  <2>1. marked' = {} /\ grey' = Terminals \cup {r \in DOMAIN roots \cup keep : r < Len(nodes)}
    BY DEF StartMark
  <2>2. DOMAIN roots \cup keep \subseteq Alloc /\ Terminals \subseteq Alloc
    BY PinnedIds DEF HolderInv, Exact
  <2>3. Alloc \subseteq Slots /\ Slots' = Slots /\ Alloc' = Alloc /\ Slots = 0 .. Len(nodes) - 1
    BY DEF arena, Alloc, Slots
  <2>5. grey' = Terminals \cup DOMAIN roots \cup keep
    <3>1. \A r \in DOMAIN roots \cup keep : r < Len(nodes)
      BY <2>2, AllocBelow DEF CoreInv
    <3>2. {r \in DOMAIN roots \cup keep : r < Len(nodes)} = DOMAIN roots \cup keep
      BY <3>1, Zenon
    <3>3. grey' = Terminals \cup (DOMAIN roots \cup keep)
      BY <2>1, <3>2, Zenon
    <3> QED BY <3>3
  <2>6. TraceInv' /\ marked' \subseteq Slots' /\ grey' \subseteq Slots'
    BY <1>2, <2>1, <2>2, <2>3, <2>5 DEF TraceInv, Kids
  <2>7. PhaseInv'
    BY <1>2 DEF PhaseInv, CallInv
  <2>8. RawInv'
    BY <1>1, <1>2, RawKept
  <2> QED BY <1>2, <2>6, <2>7, <2>8 DEF CallInv, Pcs
<1> QED BY <1>1, <1>3, <1>4

LEMMA MarkStepPreserves ==
  ASSUME CoreInv, HolderInv, CallInv, MarkStep
  PROVE  CoreInv' /\ HolderInv' /\ CallInv'
<1> USE DEF MarkStep
<1>1. CoreInv' /\ Grows /\ headers' = headers
  BY CoreKept
<1>2. UNCHANGED <<vars, handle, roots, threshold, floor, todo, rpn, used, calls, ret, nodes, free, pc>>
  BY DEF mgr, gcstate, engine, arena
<1>3. HolderInv'
  BY <1>1, <1>2, HoldersKept
<1>4. /\ marked \cup grey \subseteq marked' \cup grey'
      /\ marked' \cup grey' \subseteq Alloc
      /\ Kids(marked)' \subseteq marked' \cup grey'
  BY <1>2, MarkClosure DEF CoreInv, CallInv, TraceInv
<1>5. Alloc' = Alloc /\ Slots' = Slots /\ Alloc \subseteq Slots
  BY <1>2 DEF Alloc, Slots
<1>6. CallInv'
  <2>1. TraceInv'
    BY <1>2, <1>4, <1>5 DEF CallInv, TraceInv
  <2>2. RawInv'
    BY <1>1, <1>2, RawKept
  <2>3. PhaseInv'
    BY <1>2 DEF PhaseInv, CallInv
  <2> QED BY <1>2, <1>4, <1>5, <2>1, <2>2, <2>3 DEF CallInv
<1> QED BY <1>1, <1>3, <1>6

(* The sweep keeps what the roots reach.  No raw id is in use.             *)
LEMMA SweepStepPreserves ==
  ASSUME CoreInv, HolderInv, CallInv, SweepStep
  PROVE  CoreInv' /\ HolderInv' /\ CallInv'
<1> USE DEF SweepStep
<1>1. /\ calls = <<>> /\ ret = NoId /\ todo = <<>> /\ rpn = NoRpn
      /\ calls' = <<>> /\ ret' = NoId /\ todo' = <<>> /\ rpn' = NoRpn
  BY DEF CallInv, PhaseInv, engine
<1>2. grey = {} /\ marked' = {} /\ grey' = {} /\ headers' = headers
  BY DEF Sweep
<1>3. Terminals \cup DOMAIN roots \subseteq marked /\ marked \subseteq Alloc
      /\ Kids(marked) \subseteq marked
  BY <1>2 DEF CallInv, TraceInv
<1>4. ArenaTypeOK' /\ ArenaInv' /\ Alloc' = marked /\ nodes' = nodes
  BY <1>3, SweepArena DEF CoreInv
<1>5. CoreInv'
  <2>1. cache' = [k \in {x \in DOMAIN cache :
                          /\ x[2] \in marked /\ x[3] \in marked /\ x[4] \in marked
                          /\ cache[x] \in marked} |-> cache[k]]
    BY DEF Sweep
  <2>2. cache' \in [DOMAIN cache' -> Id] /\ DOMAIN cache' \subseteq Ops \X Id \X Id \X Id
    BY <2>1 DEF CoreInv, EngineTypeOK
  <2>3. CacheInv'
    <3> SUFFICES ASSUME NEW k \in DOMAIN cache'
                 PROVE  /\ {k[2], k[3], k[4], cache'[k]} \subseteq Alloc'
                        /\ nodes'[cache'[k] + 1][1] <= TopLevel(<<k[2], k[3], k[4]>>)'
      BY DEF CacheInv, Level
    <3>1. k \in DOMAIN cache /\ cache'[k] = cache[k]
          /\ {k[2], k[3], k[4], cache[k]} \subseteq marked
      BY <2>1
    <3>2. Level(cache[k]) <= TopLevel(<<k[2], k[3], k[4]>>)
      BY <3>1 DEF CoreInv, EngineInv, CacheInv
    <3>3. TopLevel(<<k[2], k[3], k[4]>>)' = TopLevel(<<k[2], k[3], k[4]>>)
      BY <1>4 DEF TopLevel, Higher, Level
    <3> QED BY <1>4, <3>1, <3>2, <3>3 DEF Level
  <2> QED BY <1>1, <1>4, <2>2, <2>3, CoreReturned
<1>6. HolderInv'
  <2>1. VariablesKept'
    BY <1>2, <1>4 DEF HolderInv, VariablesKept
  <2>2. PinnedIn(handle', vars') \subseteq Alloc'
    BY <1>3, <1>4 DEF HolderInv, Exact
  <2> QED BY <2>1, <2>2 DEF HolderInv
<1>7. CallInv'
  <2>1. threshold' \in Nat
    <3>1. PICK n \in Nat : n = Len(nodes)
      BY DEF CoreInv, ArenaTypeOK
    <3>2. marked \subseteq 0 .. n - 1
      BY <1>3, <3>1 DEF Alloc, Slots
    <3>3. Cardinality(marked) \in Nat
      <4>1. IsFiniteSet(0 .. n - 1)
        BY <3>1, FS_Interval
      <4>2. IsFiniteSet(marked)
        BY <3>2, <4>1, FS_Subset
      <4> QED BY <4>2, FS_CardinalityType
    <3> QED BY <3>3 DEF CallInv, Higher
  <2>2. RawInv'
    BY <1>1 DEF RawInv, NoRpn
  <2>3. TraceInv' /\ marked' \subseteq Slots' /\ grey' \subseteq Slots'
    BY <1>2 DEF TraceInv, Kids
  <2>4. PhaseInv'
    BY <1>1, <1>2 DEF PhaseInv
  <2> QED BY <2>1, <2>2, <2>3, <2>4 DEF CallInv, Pcs
<1> QED BY <1>5, <1>6, <1>7

----------------------------------------------------------------------------
(* The steps of an rpn call.                                               *)

(* What the arena and the handles need when a token builds nothing.        *)
LEMMA NothingTouched ==
  ASSUME CoreInv, HolderInv, UNCHANGED <<arena, cache, engine, vars, handle, roots>>
  PROVE  CoreInv' /\ HolderInv' /\ Grows
<1>1. CoreInv' /\ Grows /\ headers' = headers
  BY CoreKept
<1> QED BY <1>1, HoldersKept

(* The stack and the saved nodes of a running rpn call hold allocated ids. *)
LEMMA RpnIds ==
  ASSUME CoreInv, CallInv
  PROVE  /\ rpn = [stack |-> rpn.stack, saved |-> rpn.saved]
         /\ rpn.stack \in Seq(Alloc) /\ Depth \in Nat
         /\ rpn.saved \in [Name -> Alloc \cup {NoId}]
         /\ Alloc \subseteq Nat
<1>1. rpn \in [stack : Seq(Id), saved : [Name -> IdOrNone]] /\ RawInv
  BY DEF CallInv
<1>2. rpn.stack \in Seq(Id) /\ \A n \in DOMAIN rpn.stack : rpn.stack[n] \in Alloc
  BY <1>1 DEF RawInv
<1>3. rpn.stack \in Seq(Alloc)
  BY <1>2
<1>4. Alloc \subseteq Nat
  BY SlotTypes DEF CoreInv
<1> QED BY <1>1, <1>2, <1>3, <1>4 DEF RawInv, Depth

(* A token leaves a stack and saved nodes that hold allocated ids.         *)
LEMMA TokenRead ==
  ASSUME CallInv, Alloc' \subseteq Nat, pc \in {"rpn", "rpnop"}, UNCHANGED <<tracing, todo>>,
         CountToken \/ used' = used, threshold' = threshold, floor' = floor,
         pc' \in {"rpn", "rpnop", "unwinding"},
         pc' # "rpnop" => calls' = <<>> /\ ret' = NoId,
         NEW s \in Seq(Alloc'), NEW d \in [Name -> Alloc' \cup {NoId}],
         rpn' = [stack |-> s, saved |-> d]
  PROVE  CallInv'
<1>0. PICK A : A = Alloc' /\ A \subseteq Nat
  OBVIOUS
<1>1. /\ \A n \in DOMAIN s : s[n] \in Alloc'
      /\ s \in Seq(Id) /\ d \in [Name -> IdOrNone]
  <2>1. s \in Seq(A) /\ d \in [Name -> A \cup {NoId}]
    BY <1>0
  <2>2. s \in Seq(Nat)
    BY <1>0, <2>1, SeqMonotonic
  <2>3. \A n \in DOMAIN s : s[n] \in A
    BY <2>1
  <2>4. d \in [Name -> Nat \cup {NoId}]
    BY <1>0, <2>1
  <2> QED BY <1>0, <2>2, <2>3, <2>4 DEF Id, IdOrNone
<1>2. rpn' \in [stack : Seq(Id), saved : [Name -> IdOrNone]]
  BY <1>1
<1>3. todo = <<>> /\ todo' = <<>>
  BY DEF CallInv, PhaseInv
<1>4. RawInv'
  BY <1>1, <1>3 DEF RawInv
<1>5. used' \in [calls : Nat, tokens : Nat]
  <2>1. used \in [calls : Nat, tokens : Nat]
    BY DEF CallInv
  <2> QED BY <2>1 DEF CountToken
<1>6. /\ pc \notin {"autogc", "gc"} /\ pc' \in Pcs \ {"autogc", "gc"}
      /\ pc' \notin {"op", "rpnop"} => calls' = <<>> /\ ret' = NoId
      /\ pc' # "op" => todo' = <<>>
      /\ pc' \notin {"rpn", "rpnop", "unwinding"} => rpn' = NoRpn
  BY <1>3 DEF Pcs
<1> QED BY <1>2, <1>3, <1>4, <1>5, <1>6, CallOutsideGc DEF CallInv

LEMMA RpnStartPreserves ==
  ASSUME CoreInv, HolderInv, CallInv, RpnStart
  PROVE  CoreInv' /\ HolderInv' /\ CallInv'
<1> USE DEF RpnStart
<1>1. CoreInv' /\ HolderInv' /\ Grows
  <2>1. UNCHANGED <<arena, cache, engine, vars, handle, roots>>
    BY DEF mgr, gcstate
  <2> QED BY <2>1, NothingTouched
<1>2. UNCHANGED <<threshold, floor, todo, rpn, used>> /\ pc = "idle"
      /\ todo = <<>> /\ calls' = <<>> /\ ret' = NoId
  BY DEF mgr, gcstate, Ready, CallInv, PhaseInv, engine
<1>3. RawInv'
  BY <1>1, <1>2, RawKept
<1>4. CallInv'
  BY <1>2, <1>3, CallOutsideGc DEF CallInv, Pcs
<1> QED BY <1>1, <1>4

(* Tokens that push an allocated id: a constant, a variable known already, *)
(* a saved node.                                                           *)
LEMMA PushPreserves ==
  ASSUME CoreInv, HolderInv, CallInv, Reading, CountToken, NEW i \in Nat, i \in Alloc, Push(i),
         UNCHANGED <<arena, cache, tracing, engine, pc, vars, handle, gcstate, todo>>
  PROVE  CoreInv' /\ HolderInv' /\ CallInv'
<1>1. CoreInv' /\ HolderInv' /\ Grows
  BY NothingTouched DEF gcstate
<1>2. PICK s : s = Append(rpn.stack, i)
  OBVIOUS
<1>3. /\ s \in Seq(Alloc') /\ rpn.saved \in [Name -> Alloc' \cup {NoId}]
      /\ rpn' = [stack |-> s, saved |-> rpn.saved]
  <2>1. /\ s \in Seq(Alloc) /\ rpn.saved \in [Name -> Alloc \cup {NoId}]
        /\ rpn' = [stack |-> s, saved |-> rpn.saved]
    <3>1. /\ rpn = [stack |-> rpn.stack, saved |-> rpn.saved]
          /\ rpn.stack \in Seq(Alloc) /\ rpn.saved \in [Name -> Alloc \cup {NoId}]
      BY RpnIds
    <3>2. rpn' = [rpn EXCEPT !.stack = s]
      BY <1>2 DEF Push
    <3>3. s \in Seq(Alloc)
      BY <1>2, <3>1
    <3>4. rpn' = [stack |-> s, saved |-> rpn.saved]
      BY <3>1, <3>2
    <3> QED BY <3>1, <3>3, <3>4
  <2>2. Alloc' = Alloc
    BY DEF arena, Alloc, Slots
  <2> QED BY <2>1, <2>2
<1>4. Alloc' \subseteq Nat
  <2>1. Alloc' = Alloc
    BY DEF arena, Alloc, Slots
  <2> QED BY <2>1, RpnIds
<1>5. calls' = <<>> /\ ret' = NoId /\ pc = "rpn" /\ pc' = "rpn"
      /\ threshold' = threshold /\ floor' = floor
  BY DEF Reading, CallInv, PhaseInv, engine, gcstate
<1>6. PICK d : d = rpn.saved
  OBVIOUS
<1>7. CallInv'
  BY <1>3, <1>4, <1>5, <1>6, TokenRead
<1> QED BY <1>1, <1>7

(* A new variable's node goes on the stack and to the manager.             *)
LEMMA RpnNewVariablePreserves ==
  ASSUME CoreInv, HolderInv, CallInv, NEW v \in Var, RpnNewVariable(v)
  PROVE  CoreInv' /\ HolderInv' /\ CallInv'
<1> USE DEF RpnNewVariable
<1>1. /\ pc = "rpn" /\ pc' = "rpn" /\ calls = <<>> /\ ret = NoId /\ calls' = <<>> /\ ret' = NoId
      /\ UNCHANGED <<cache, calls, ret>> /\ DeclareVar(v)
  BY DEF Reading, CallInv, PhaseInv, engine
<1>2. /\ CoreInv' /\ Grows /\ vars[v] = NoId /\ VariablesKept'
      /\ vars'[v] \in Nat /\ vars'[v] \in Alloc' /\ vars' = [vars EXCEPT ![v] = vars'[v]]
  BY <1>1, VariableDeclared
<1>3. PICK i \in Nat : i = vars'[v]
  BY <1>2
<1>4. i \in Alloc' /\ vars' = [vars EXCEPT ![v] = i] /\ handle' = handle
      /\ roots' = Pin(roots, i)
  BY <1>2, <1>3
<1>5. HolderInv'
  BY <1>2, <1>4, VariableTaken
<1>6. PICK A : A = Alloc' /\ A \subseteq Nat /\ Alloc \subseteq A /\ i \in A
  BY <1>2, <1>4, SlotTypesNext DEF Grows, CoreInv
<1>7. PICK s, d : s = Append(rpn.stack, i) /\ d = rpn.saved
  OBVIOUS
<1>8. s \in Seq(A) /\ d \in [Name -> A \cup {NoId}] /\ rpn' = [stack |-> s, saved |-> d]
  <2>1. rpn = [stack |-> rpn.stack, saved |-> d]
    BY <1>7, RpnIds
  <2>2. d \in [Name -> Alloc \cup {NoId}]
    BY <1>7, RpnIds
  <2>3. s \in Seq(A)
    <3>1. rpn.stack \in Seq(A)
      BY <1>6, RpnIds, SeqMonotonic
    <3> QED BY <1>6, <1>7, <3>1
  <2>4. rpn' = [rpn EXCEPT !.stack = s]
    BY <1>3, <1>7 DEF Push
  <2>5. rpn' = [stack |-> s, saved |-> d]
    BY <2>1, <2>4
  <2> QED BY <1>6, <2>2, <2>3, <2>5
<1>9. CallInv'
  <2>1. UNCHANGED <<tracing, todo>> /\ threshold' = threshold /\ floor' = floor /\ CountToken
    OBVIOUS
  <2> HIDE DEF RpnNewVariable
  <2> QED BY <1>1, <1>6, <1>8, <2>1, TokenRead
<1> QED BY <1>2, <1>5, <1>9

LEMMA RpnOperatorPreserves ==
  ASSUME CoreInv, HolderInv, CallInv, NEW op \in Called, RpnOperator(op)
  PROVE  CoreInv' /\ HolderInv' /\ CallInv'
<1> USE DEF RpnOperator
<1>1. PICK st : st = rpn.stack
  OBVIOUS
<1>2. /\ st \in Seq(Alloc) /\ Depth = Len(st) /\ Len(st) \in Nat /\ Len(st) >= Arity(op)
      /\ op \in Ops /\ Arity(op) \in 1 .. 3
  <2>1. op \in Ops
    BY ConstantsAssumption DEF ConstantsAssumption
  <2> QED BY <1>1, <2>1, RpnIds DEF Depth, Arity
<1>3. PICK a : a = OperatorArgs(op)
  OBVIOUS
<1>4. a \in Triple
  <2>1. Zero \in Alloc
    BY PinnedIds DEF Terminals
  <2>2. \A n \in 1 .. Len(st) : st[n] \in Alloc
    BY <1>2
  <2>3. CASE op = "not"
    BY <1>1, <1>2, <1>3, <2>1, <2>2, <2>3 DEF OperatorArgs, Triple, Arity
  <2>4. CASE op = "ite"
    <3>1. Len(st) - 2 \in 1 .. Len(st) /\ Len(st) - 1 \in 1 .. Len(st) /\ Len(st) \in 1 .. Len(st)
      BY <1>2, <2>4 DEF Arity
    <3>2. a = <<st[Len(st) - 2], st[Len(st) - 1], st[Len(st)]>>
      BY <1>1, <1>2, <1>3, <2>4 DEF OperatorArgs
    <3> QED BY <2>2, <3>1, <3>2 DEF Triple
  <2>5. CASE op # "not" /\ op # "ite"
    <3>1. Len(st) - 1 \in 1 .. Len(st) /\ Len(st) \in 1 .. Len(st)
      BY <1>2, <2>5 DEF Arity
    <3>2. a = <<st[Len(st) - 1], st[Len(st)], Zero>>
      BY <1>1, <1>2, <1>3, <2>5 DEF OperatorArgs
    <3> QED BY <2>1, <2>2, <3>1, <3>2 DEF Triple
  <2> QED BY <2>3, <2>4, <2>5
<1>5. /\ pc = "rpn" /\ pc' = "rpnop" /\ ret' = NoId /\ calls' = <<Call(op, a)>>
      /\ UNCHANGED <<arena, cache, tracing, vars, handle, roots, threshold, floor, todo>>
  BY <1>3 DEF Reading, CallInv, PhaseInv, gcstate
<1>6. CoreInv' /\ Grows /\ headers' = headers
  <2> HIDE DEF RpnOperator
  <2> QED BY <1>2, <1>4, <1>5, CoreCalled
<1>7. HolderInv'
  BY <1>5, <1>6, HoldersKept
<1>8. PICK A : A = Alloc' /\ A = Alloc /\ A \subseteq Nat
  BY RpnIds DEF arena, Alloc, Slots
<1>9. PICK s, d : s = SubSeq(st, 1, Len(st) - Arity(op)) /\ d = rpn.saved
  OBVIOUS
<1>10. s \in Seq(A) /\ d \in [Name -> A \cup {NoId}] /\ rpn' = [stack |-> s, saved |-> d]
  <2>1. rpn = [stack |-> st, saved |-> d]
    BY <1>1, <1>9, RpnIds
  <2>2. d \in [Name -> A \cup {NoId}]
    BY <1>8, <1>9, RpnIds
  <2>3. s \in Seq(A)
    <3>1. Len(st) - Arity(op) \in Int /\ \A n \in 1 .. Len(st) - Arity(op) : st[n] \in A
      BY <1>2, <1>8
    <3> QED BY <1>9, <3>1, SubSeqProperties
  <2>4. rpn' = [rpn EXCEPT !.stack = s]
    BY <1>1, <1>2, <1>9
  <2>5. rpn' = [stack |-> s, saved |-> d]
    BY <2>1, <2>4
  <2> QED BY <2>2, <2>3, <2>5
<1>11. CallInv'
  <2>1. CountToken
    OBVIOUS
  <2> HIDE DEF RpnOperator
  <2> QED BY <1>5, <1>8, <1>10, <2>1, TokenRead
<1> QED BY <1>6, <1>7, <1>11

LEMMA RpnUnderflowPreserves ==
  ASSUME CoreInv, HolderInv, CallInv, NEW op \in Called, RpnUnderflow(op)
  PROVE  CoreInv' /\ HolderInv' /\ CallInv'
<1> USE DEF RpnUnderflow
<1>1. UNCHANGED <<arena, cache, engine, vars, handle, roots, threshold, floor, todo, rpn>>
  BY DEF mgr, gcstate
<1>2. CoreInv' /\ HolderInv' /\ Grows
  BY <1>1, NothingTouched
<1>3. RawInv'
  BY <1>1, <1>2, RawKept
<1>4. /\ pc = "rpn" /\ pc' = "unwinding" /\ calls' = <<>> /\ ret' = NoId /\ todo' = <<>>
      /\ UNCHANGED tracing /\ used' \in [calls : Nat, tokens : Nat]
  BY <1>1 DEF Reading, CallInv, PhaseInv, engine, CountToken
<1>5. CallInv'
  BY <1>1, <1>3, <1>4, CallOutsideGc DEF CallInv, Pcs
<1> QED BY <1>2, <1>5

LEMMA RpnSavePreserves ==
  ASSUME CoreInv, HolderInv, CallInv, NEW n \in Name, RpnSave(n)
  PROVE  CoreInv' /\ HolderInv' /\ CallInv'
<1> USE DEF RpnSave
<1>1. /\ UNCHANGED <<arena, cache, tracing, engine, vars, handle, roots, threshold, floor, todo>>
      /\ pc = "rpn" /\ pc' = "rpn" /\ calls' = <<>> /\ ret' = NoId /\ CountToken
  BY DEF gcstate, Reading, CallInv, PhaseInv, engine
<1>2. CoreInv' /\ HolderInv' /\ Grows
  BY <1>1, NothingTouched
<1>3. PICK A : A = Alloc' /\ A = Alloc /\ A \subseteq Nat
  BY RpnIds DEF arena, Alloc, Slots
<1>4. PICK s, d : s = rpn.stack /\ d = [rpn.saved EXCEPT ![n] = rpn.stack[Depth]]
  OBVIOUS
<1>5. s \in Seq(A) /\ d \in [Name -> A \cup {NoId}] /\ rpn' = [stack |-> s, saved |-> d]
  <2>1. /\ rpn = [stack |-> rpn.stack, saved |-> rpn.saved] /\ s \in Seq(A)
        /\ rpn.saved \in [Name -> A \cup {NoId}]
    BY <1>3, <1>4, RpnIds
  <2>2. Depth \in 1 .. Len(s)
    BY <1>4, <2>1, EmptySeq DEF Depth
  <2>3. rpn.stack[Depth] \in A
    BY <1>4, <2>1, <2>2
  <2>4. d \in [Name -> A \cup {NoId}]
    BY <1>4, <2>1, <2>3
  <2>5. rpn' = [stack |-> s, saved |-> d]
    BY <1>4, <2>1
  <2> QED BY <2>1, <2>4, <2>5
<1>6. CallInv'
  <2> HIDE DEF RpnSave
  <2> QED BY <1>1, <1>3, <1>5, TokenRead
<1> QED BY <1>2, <1>6

LEMMA RpnResultPreserves ==
  ASSUME CoreInv, HolderInv, CallInv, RpnResult
  PROVE  CoreInv' /\ HolderInv' /\ CallInv'
<1> USE DEF RpnResult
<1>1. /\ UNCHANGED <<arena, cache, tracing, vars, handle, roots, threshold, floor, todo, used>>
      /\ pc = "rpnop" /\ pc' = "rpn" /\ calls' = <<>> /\ ret' = NoId
  BY DEF gcstate
<1>2. CoreInv' /\ Grows /\ headers' = headers
  BY <1>1, CoreIdle
<1>3. HolderInv'
  BY <1>1, <1>2, HoldersKept
<1>4. PICK A : A = Alloc' /\ A = Alloc /\ A \subseteq Nat
  BY RpnIds DEF arena, Alloc, Slots
<1>5. ret \in Alloc
  BY DEF CoreInv, EngineInv, RetInv
<1>6. PICK s, d : s = Append(rpn.stack, ret) /\ d = rpn.saved
  OBVIOUS
<1>7. s \in Seq(A) /\ d \in [Name -> A \cup {NoId}] /\ rpn' = [stack |-> s, saved |-> d]
  <2>1. /\ rpn = [stack |-> rpn.stack, saved |-> rpn.saved] /\ rpn.stack \in Seq(A)
        /\ rpn.saved \in [Name -> A \cup {NoId}]
    BY <1>4, RpnIds
  <2>2. s \in Seq(A)
    BY <1>4, <1>5, <1>6, <2>1
  <2>3. rpn' = [rpn EXCEPT !.stack = s]
    BY <1>6 DEF Push
  <2>4. rpn' = [stack |-> s, saved |-> rpn.saved]
    BY <2>1, <2>3
  <2> QED BY <1>6, <2>1, <2>2, <2>4
<1>8. CallInv'
  <2> HIDE DEF RpnResult
  <2> QED BY <1>1, <1>4, <1>7, TokenRead
<1> QED BY <1>2, <1>3, <1>8

LEMMA RpnAbortPreserves ==
  ASSUME CoreInv, HolderInv, CallInv, RpnAbort
  PROVE  CoreInv' /\ HolderInv' /\ CallInv'
<1> USE DEF RpnAbort
<1>1. UNCHANGED <<arena, cache, engine, vars, handle, roots, threshold, floor, todo>>
  BY DEF gcstate
<1>2. CoreInv' /\ HolderInv' /\ Grows
  BY <1>1, NothingTouched
<1>3. /\ pc \in {"rpn", "unwinding"} /\ pc' = "idle" /\ calls' = <<>> /\ ret' = NoId
      /\ todo = <<>> /\ todo' = <<>> /\ rpn' = NoRpn /\ UNCHANGED <<tracing, used>>
  BY <1>1 DEF CallInv, PhaseInv, engine
<1>4. RawInv' /\ rpn' \in [stack : Seq(Id), saved : [Name -> IdOrNone]]
  BY <1>3 DEF RawInv, NoRpn, IdOrNone
<1>5. CallInv'
  <2> HIDE DEF RpnAbort
  <2> QED BY <1>1, <1>3, <1>4, CallOutsideGc DEF CallInv, Pcs
<1> QED BY <1>2, <1>5

LEMMA RpnEndPreserves ==
  ASSUME CoreInv, HolderInv, CallInv, RpnEnd
  PROVE  CoreInv' /\ HolderInv' /\ CallInv'
<1> USE DEF RpnEnd
<1>1. /\ UNCHANGED <<arena, cache, tracing, vars, handle, roots, threshold, floor, used>>
      /\ pc = "rpn" /\ pc' = "op" /\ calls' = <<>> /\ todo = <<>> /\ todo' = <<>>
      /\ rpn' = NoRpn
  BY DEF gcstate, CallInv, PhaseInv
<1>2. ret' \in Alloc /\ ret' \in Nat
  <2>1. rpn.stack \in Seq(Alloc) /\ Len(rpn.stack) = 1 /\ Alloc \subseteq Nat
    BY RpnIds DEF Depth
  <2>2. rpn.stack[1] \in Alloc
    BY <2>1
  <2> QED BY <2>1, <2>2
<1>3. CoreInv' /\ Grows /\ headers' = headers
  BY <1>1, <1>2, CoreIdle
<1>4. HolderInv'
  BY <1>1, <1>3, HoldersKept
<1>5. RawInv' /\ rpn' \in [stack : Seq(Id), saved : [Name -> IdOrNone]]
  BY <1>1 DEF RawInv, NoRpn, IdOrNone
<1>6. CallInv'
  <2> HIDE DEF RpnEnd
  <2> QED BY <1>1, <1>5, CallOutsideGc DEF CallInv, Pcs
<1> QED BY <1>3, <1>4, <1>6

----------------------------------------------------------------------------
(* Every step of the manager.                                              *)

LEMMA ClientCallPreserves ==
  ASSUME CoreInv, HolderInv, CallInv, ClientCall
  PROVE  CoreInv' /\ HolderInv' /\ CallInv'
<1>1. CASE \E h, g \in Handle : CloneHandle(h, g)
  BY <1>1, CloneHandlePreserves
<1>2. CASE \E h \in Handle : DropHandle(h)
  BY <1>2, DropHandlePreserves
<1>3. CASE \E v \in Var, h \in Handle : DefVarNew(v, h) \/ DefVarKnown(v, h)
  BY <1>3, DefVarNewPreserves, DefVarKnownPreserves
<1>4. CASE \E h, low, high \in Handle : GetChildren(h, low, high)
  BY <1>4, GetChildrenPreserves
<1>5. CASE \E t \in Threshold : SetGcThreshold(t)
  BY <1>5, SetGcThresholdPreserves
<1>6. CASE ClearCache
  BY <1>6, ClearCachePreserves
<1>7. CASE \E t \in Terminals : Constant(t)
  BY <1>7, ConstantPreserves
<1>8. CASE \E l \in 0 .. Len(headers) - 1, lo, hi \in Held : PublicCreateNode(l, lo, hi)
  BY <1>8, PublicCreateNodePreserves
<1>9. CASE \E op \in Called : \E args \in ArgTuples(op) : Invoke(op, args)
  BY <1>9, InvokePreserves
<1>10. CASE \E op \in Called \cap {"and", "or"}, list \in Lists : InvokeList(op, list)
  BY <1>10, InvokeListPreserves
<1>11. CASE \E keep \in SUBSET Held : ExplicitGc(keep)
  BY <1>11, ExplicitGcPreserves
<1>12. CASE RpnStart
  BY <1>12, RpnStartPreserves
<1> QED BY <1>1, <1>2, <1>3, <1>4, <1>5, <1>6, <1>7, <1>8, <1>9, <1>10, <1>11, <1>12
        DEF ClientCall

LEMMA RpnTokenPreserves ==
  ASSUME CoreInv, HolderInv, CallInv, RpnToken
  PROVE  CoreInv' /\ HolderInv' /\ CallInv'
<1>1. ASSUME NEW t \in Terminals, RpnConstant(t)
      PROVE  CoreInv' /\ HolderInv' /\ CallInv'
  <2>1. t \in Nat /\ t \in Alloc
    BY PinnedIds DEF Terminals, Zero, One, Undet
  <2> QED BY <1>1, <2>1, PushPreserves DEF RpnConstant
<1>2. ASSUME NEW v \in Var, RpnKnownVariable(v)
      PROVE  CoreInv' /\ HolderInv' /\ CallInv'
  <2>1. PICK i \in Nat : i = vars[v] /\ i \in Alloc
    BY <1>2, PinnedIds DEF RpnKnownVariable
  <2> QED BY <1>2, <2>1, PushPreserves DEF RpnKnownVariable
<1>3. ASSUME NEW n \in Name, RpnLoad(n)
      PROVE  CoreInv' /\ HolderInv' /\ CallInv'
  <2>1. PICK i \in Nat : i = rpn.saved[n] /\ i \in Alloc
    BY <1>3, RpnIds DEF RpnLoad
  <2> QED BY <1>3, <2>1, PushPreserves DEF RpnLoad
<1>4. CASE \E v \in Var : RpnNewVariable(v)
  BY <1>4, RpnNewVariablePreserves
<1>5. CASE \E op \in Called : RpnOperator(op) \/ RpnUnderflow(op)
  BY <1>5, RpnOperatorPreserves, RpnUnderflowPreserves
<1>6. CASE \E n \in Name : RpnSave(n)
  BY <1>6, RpnSavePreserves
<1> QED BY <1>1, <1>2, <1>3, <1>4, <1>5, <1>6 DEF RpnToken

LEMMA ProgressPreserves ==
  ASSUME CoreInv, HolderInv, CallInv, Progress
  PROVE  CoreInv' /\ HolderInv' /\ CallInv'
<1>1. CASE Apply
  BY <1>1, ApplyPreserves
<1>2. CASE FoldNext
  BY <1>2, FoldNextPreserves
<1>3. CASE \E h \in Handle : Finish(h)
  BY <1>3, FinishPreserves
<1>4. CASE MarkStep
  BY <1>4, MarkStepPreserves
<1>5. CASE SweepStep
  BY <1>5, SweepStepPreserves
<1>6. CASE RpnResult
  BY <1>6, RpnResultPreserves
<1>7. CASE RpnAbort
  BY <1>7, RpnAbortPreserves
<1>8. CASE RpnEnd
  BY <1>8, RpnEndPreserves
<1> QED BY <1>1, <1>2, <1>3, <1>4, <1>5, <1>6, <1>7, <1>8 DEF Progress

LEMMA StutterPreserves ==
  ASSUME CoreInv, HolderInv, CallInv, UNCHANGED allvars
  PROVE  CoreInv' /\ HolderInv' /\ CallInv'
<1>1. UNCHANGED <<arena, cache, engine, vars, handle, roots>>
  BY DEF allvars, mgr, gcstate
<1>2. UNCHANGED <<marked, grey, calls, ret, nodes, free, pc, threshold, floor, todo, rpn, used, roots>>
  BY DEF allvars, mgr, gcstate, engine, tracing, arena
<1>3. CoreInv' /\ HolderInv' /\ Grows
  BY <1>1, NothingTouched
<1>4. CallInv'
  BY <1>2 DEF CallInv, PhaseInv, RawInv, TraceInv, Kids, Low, High, Alloc, Slots
<1> QED BY <1>3, <1>4

LEMMA InitEstablishes ==
  ASSUME Init
  PROVE  CoreInv /\ HolderInv /\ CallInv
<1> USE DEF Init, ForestInit
<1>1. /\ Len(nodes) = 3 /\ DOMAIN nodes = 1 .. 3
      /\ nodes[1] = <<NoLevel, Zero, Zero>> /\ nodes[2] = <<NoLevel, One, One>>
      /\ nodes[3] = <<NoLevel, Undet, Undet>>
  OBVIOUS
<1>2. Slots = Terminals /\ Alloc = Terminals /\ Inner = {} /\ Terminals = {0, 1, 2}
  <2>1. Slots = 0 .. 2 /\ Terminals = {0, 1, 2}
    BY <1>1 DEF Slots, Terminals, Zero, One, Undet
  <2> QED BY <2>1 DEF Alloc, Inner
<1>3. ArenaTypeOK
  <2>1. TerminalsInPlace
    BY <1>1, <1>2 DEF TerminalsInPlace, Zero, One, Undet
  <2>2. nodes \in Seq((Nat \cup {NoLevel}) \X Id \X Id)
    BY DEF Id, NoLevel, Zero, One, Undet
  <2> QED BY <2>1, <2>2 DEF ArenaTypeOK
<1>4. ArenaInv
  BY <1>2 DEF ArenaInv, Ordered, UtableExact, Canonical
<1>5. EngineTypeOK /\ EngineInv
  BY DEF EngineTypeOK, EngineInv, CacheInv, FrameInv, RetInv, IdOrNone
<1>6. HolderInv
  <2>1. PinnedIn(handle, vars) = {}
    BY DEF PinnedIn
  <2>2. HoldersOK(roots, handle, vars)
    BY DEF HoldersOK, IdOrNone
  <2>3. VariablesKept
    BY DEF VariablesKept
  <2> QED BY <2>1, <2>2, <2>3 DEF HolderInv, Exact
<1>7. CallInv
  <2>1. threshold \in Nat /\ floor \in Nat
    BY ConstantsAssumption DEF ConstantsAssumption
  <2>2. PhaseInv /\ RawInv /\ TraceInv
    BY DEF PhaseInv, RawInv, TraceInv, Kids, NoRpn
  <2>3. rpn \in [stack : Seq(Id), saved : [Name -> IdOrNone]]
    BY DEF NoRpn, IdOrNone
  <2> QED BY <2>1, <2>2, <2>3 DEF CallInv, Pcs
<1> QED BY <1>3, <1>4, <1>5, <1>6, <1>7 DEF CoreInv

(* IInv is inductive.                                                      *)
LEMMA Inductive ==
  /\ Init => IInv
  /\ IInv /\ [Next]_allvars => IInv'
<1>1. Init => IInv
  BY InitEstablishes, IInvParts
<1>2. ASSUME IInv, [Next]_allvars
      PROVE  IInv'
  <2>1. CoreInv /\ HolderInv /\ CallInv
    BY <1>2, IInvParts
  <2>2. CASE ClientCall
    BY <2>1, <2>2, ClientCallPreserves, IInvPartsNext
  <2>3. CASE RpnToken
    BY <2>1, <2>3, RpnTokenPreserves, IInvPartsNext
  <2>4. CASE Progress
    BY <2>1, <2>4, ProgressPreserves, IInvPartsNext
  <2>5. CASE UNCHANGED allvars
    BY <2>1, <2>5, StutterPreserves, IInvPartsNext
  <2> QED BY <1>2, <2>2, <2>3, <2>4, <2>5 DEF Next
<1> QED BY <1>1, <1>2

----------------------------------------------------------------------------
(* The results.                                                            *)

(* In every reachable state the whole inductive invariant holds.           *)
THEOREM Invariance == Spec => []IInv
BY Inductive, PTL DEF Spec

(* Every variable keeps its type, and the terminals keep their slots.      *)
THEOREM TypeCorrectness == Spec => []TypeOK
<1>1. IInv => TypeOK
  BY DEF IInv
<1> QED BY <1>1, Invariance, PTL

(* The diagram stays ordered, reduced and hash-consed, whatever sequence   *)
(* of calls, collections and slot reuses happened.                         *)
THEOREM ArenaCorrectness == Spec => []ArenaInv
<1>1. IInv => ArenaInv
  BY DEF IInv
<1> QED BY <1>1, Invariance, PTL

(* No id in use designates a reclaimed slot, although the operands of the  *)
(* running operation and the nodes of a running rpn are not roots.         *)
THEOREM NothingDangles == Spec => []NoDangling
<1>1. IInv => NoDangling
  <2> SUFFICES ASSUME IInv, NEW i \in Pinned \cup RawIds
               PROVE  i \in Alloc
    BY DEF NoDangling
  <2>1. Pinned \subseteq Alloc /\ FrameInv /\ RetInv /\ RawInv
        /\ calls \in Seq(Frame)
    BY DEF IInv, EngineInv, TypeOK, EngineTypeOK
  <2>2. CASE i \in OperandIds /\ i # NoId
    <3>1. PICK n \in 1 .. Len(calls) :
            i \in {calls[n].args[1], calls[n].args[2], calls[n].args[3], calls[n].low}
      BY <2>1, <2>2 DEF OperandIds
    <3>2. FrameOK(calls[n])
      BY <2>1, <3>1 DEF FrameInv
    <3> QED BY <2>2, <3>1, <3>2 DEF FrameOK
  <2>3. CASE i = ret /\ i # NoId
    BY <2>1, <2>3 DEF RetInv
  <2>4. CASE \E n \in DOMAIN todo : i = todo[n].arg
    BY <2>1, <2>4 DEF RawInv
  <2>5. CASE \E n \in DOMAIN rpn.stack : i = rpn.stack[n]
    BY <2>1, <2>5 DEF RawInv
  <2>6. CASE \E n \in Name : i = rpn.saved[n] /\ i # NoId
    BY <2>1, <2>6 DEF RawInv
  <2>7. i \in Pinned \/ i \in RawIds
    OBVIOUS
  <2> QED BY <2>1, <2>2, <2>3, <2>4, <2>5, <2>6, <2>7 DEF RawIds
<1> QED BY <1>1, Invariance, PTL

(* The collector's roots are exactly the live handles.                     *)
THEOREM RootsAreHandles == Spec => []RootsExact
<1>1. IInv => RootsExact
  BY DEF IInv
<1> QED BY <1>1, Invariance, PTL

(* A declared variable keeps its node for the manager's lifetime.          *)
THEOREM VariablesSurvive == Spec => []VariablesKept
<1>1. IInv => VariablesKept
  BY DEF IInv
<1> QED BY <1>1, Invariance, PTL

(* What no step does: overwrite a slot that is not reclaimed.              *)
Stable == \A i \in Alloc : i \notin free' => nodes'[i + 1] = nodes[i + 1]

LEMMA StepsAreStable ==
  ASSUME IInv, [Next]_allvars
  PROVE  Stable
<1> USE DEF Stable
<1>1. CoreInv /\ HolderInv /\ CallInv
  BY IInvParts
<1>2. CASE nodes' = nodes
  BY <1>2
<1>3. CASE Grows
  BY <1>3 DEF Grows
<1>4. ASSUME NEW v \in Var, DeclareVar(v), UNCHANGED <<cache, calls, ret>>,
             calls = <<>>, ret = NoId
      PROVE  Stable
  BY <1>1, <1>3, <1>4, VariableDeclared
<1>5. ASSUME NEW v \in Var, NEW h \in Handle, DefVarNew(v, h)
      PROVE  Stable
  BY <1>1, <1>4, <1>5 DEF DefVarNew, Ready, CallInv, PhaseInv, engine
<1>6. ASSUME NEW v \in Var, RpnNewVariable(v)
      PROVE  Stable
  BY <1>1, <1>4, <1>6 DEF RpnNewVariable, Reading, CallInv, PhaseInv, engine
<1>7. ASSUME NEW l \in 0 .. Len(headers) - 1, NEW lo \in Held, NEW hi \in Held,
             PublicCreateNode(l, lo, hi)
      PROVE  Stable
  <2>1. lo \in Alloc /\ hi \in Alloc /\ l \in Nat
        /\ headers' = headers /\ headers \in Seq(Var) /\ l < Len(headers)
    BY <1>1, <1>7, PinnedIds DEF CoreInv, ArenaTypeOK, PublicCreateNode
  <2>2. CreateNode(l, lo, hi) /\ Level(lo) < l /\ Level(hi) < l
    BY <1>7 DEF PublicCreateNode
  <2>3. Grows
    BY <1>1, <2>1, <2>2, CreateNodeStep DEF CoreInv
  <2> QED BY <1>3, <2>3
<1>8. CASE Apply
  BY <1>1, <1>3, <1>8, ApplyStepInv DEF Apply, CoreInv
<1>9. CASE ClientCall
  <2>1. \/ \E v \in Var, h \in Handle : DefVarNew(v, h)
        \/ \E l \in 0 .. Len(headers) - 1, lo, hi \in Held : PublicCreateNode(l, lo, hi)
        \/ nodes' = nodes
    BY <1>9 DEF ClientCall, CloneHandle, DropHandle, DefVarKnown, GetChildren,
                SetGcThreshold, ClearCache, Constant, Invoke, InvokeList, ExplicitGc,
                RpnStart, arena
  <2> QED BY <1>2, <1>5, <1>7, <2>1
<1>10. CASE RpnToken
  <2>1. (\E v \in Var : RpnNewVariable(v)) \/ nodes' = nodes
    BY <1>10 DEF RpnToken, RpnConstant, RpnKnownVariable, RpnOperator, RpnUnderflow,
                 RpnSave, RpnLoad, arena
  <2> QED BY <1>2, <1>6, <2>1
<1>11. CASE Progress
  <2>1. Apply \/ nodes' = nodes
    BY <1>11 DEF Progress, FoldNext, Finish, MarkStep, SweepStep, Sweep,
                 RpnResult, RpnAbort, RpnEnd, arena
  <2> QED BY <1>2, <1>8, <2>1
<1>12. CASE UNCHANGED allvars
  BY <1>2, <1>12 DEF allvars, arena
<1> QED BY <1>9, <1>10, <1>11, <1>12 DEF Next

(* A slot that is not reclaimed is never overwritten.                      *)
THEOREM SlotsAreStable == Spec => NodesStable
<1>1. IInv /\ [Next]_allvars => [Stable]_allvars
  BY StepsAreStable
<1> QED BY <1>1, Invariance, PTL DEF Spec, NodesStable, Stable
=============================================================================
