-------------------------- MODULE MddEngine_proofs --------------------------
(***************************************************************************)
(* Theorems about the composite forest, for any number of variables and    *)
(* states, every history of calls and every moment of collection: its      *)
(* arenas stay canonical, and what a call returned is what its operation   *)
(* defines, whether it was computed, decided or found in a table.          *)
(***************************************************************************)
EXTENDS MddEngine, SlotLemmas, TLAPS

(* The shape of an arena; what its nodes are follows from ArenaOK.         *)
Arena(n, f, t, m) == [nodes |-> n, free |-> f, table |-> t, memo |-> m]

ArenaType(a) ==
  /\ \E n, f, t, m : a = Arena(n, f, t, m)
  /\ \E S : a.nodes \in Seq(S)
  /\ a.free \subseteq Slots(a)

ArenaGood(side, a, ord) == ArenaType(a) /\ ArenaOK(side, a, ord)

(* b holds what a holds, in the same slots, and maybe more.                *)
Preserves(a, b) ==
  /\ LiveSlots(a) \subseteq LiveSlots(b)
  /\ \A i \in LiveSlots(a) : At(b, i) = At(a, i)

(* The nodes that may be made.                                             *)
Makable(side, a, ord, n) ==
  \/ \E l, edges : n = Inner(l, edges) /\ Edged(a, ord, l, edges) /\ ~ Agree(edges)
  \/ side = "v" /\ \E v \in Int : n = Leaf(v)

----------------------------------------------------------------------------
LEMMA SlotFacts ==
  ASSUME NEW a, ArenaType(a)
  PROVE  /\ Len(a.nodes) \in Nat
         /\ Slots(a) \subseteq Nat /\ LiveSlots(a) \subseteq Slots(a)
         /\ \A i : i \in Slots(a) <=> i \in Nat /\ i < Len(a.nodes)
  BY DEF ArenaType, Slots, LiveSlots

(* The slot taken next is not in use.                                      *)
LEMMA NewSlotIsFree ==
  ASSUME NEW a, ArenaType(a)
  PROVE  /\ NewSlot(a) \in Nat
         /\ a.free = {} => NewSlot(a) = Len(a.nodes)
         /\ a.free # {} => NewSlot(a) \in a.free
<1>1. Len(a.nodes) \in Nat /\ a.free \in SUBSET (0 .. Len(a.nodes) - 1)
  BY SlotFacts DEF ArenaType, Slots
<1>2. CASE a.free = {}
  BY <1>1, <1>2 DEF NewSlot
<1>3. CASE a.free # {}
  <2>1. \E m \in a.free : \A j \in a.free : j <= m
    BY <1>1, <1>3, MaxExists
  <2>2. Max(a.free) \in a.free
    BY <1>1, <2>1 DEF Max
  <2> QED BY <1>1, <1>3, <2>2 DEF NewSlot
<1> QED BY <1>2, <1>3

(* Storing a node adds its slot to those in use and moves no other.        *)
LEMMA StoreNode ==
  ASSUME NEW a, ArenaType(a), NEW n
  PROVE  LET s == NewSlot(a)
             b == Store(a, n, s)
         IN /\ ArenaType(b)
            /\ s \notin LiveSlots(a)
            /\ LiveSlots(b) = LiveSlots(a) \cup {s}
            /\ At(b, s) = n
            /\ \A i \in LiveSlots(a) : At(b, i) = At(a, i)
            /\ b.memo = a.memo
            /\ b.table = Extend(a.table, n, s)
<1> DEFINE s == NewSlot(a)
           b == Store(a, n, s)
           more == IF a.free = {} THEN Append(a.nodes, n) ELSE [a.nodes EXCEPT ![s + 1] = n]
<1>1. /\ Len(a.nodes) \in Nat
      /\ s \in Nat /\ (a.free = {} => s = Len(a.nodes)) /\ (a.free # {} => s \in a.free)
  BY SlotFacts, NewSlotIsFree
<1>2. PICK S : a.nodes \in Seq(S)
  BY DEF ArenaType
<1>3. /\ more \in Seq(S \cup {n})
      /\ Len(more) = IF a.free = {} THEN Len(a.nodes) + 1 ELSE Len(a.nodes)
      /\ more[s + 1] = n
      /\ \A i \in Slots(a) \ {s} : more[i + 1] = a.nodes[i + 1]
  <2>1. a.nodes \in Seq(S \cup {n})
    BY <1>2
  <2>2. CASE a.free = {}
    BY <1>1, <2>1, <2>2 DEF Slots
  <2>3. CASE a.free # {}
    <3>1. s + 1 \in 1 .. Len(a.nodes)
      BY <1>1, <2>3 DEF ArenaType, Slots
    <3> QED BY <1>1, <2>1, <2>3, <3>1 DEF Slots
  <2> QED BY <2>2, <2>3
<1>4. /\ b.nodes = more /\ b.free = a.free \ {s}
      /\ b.table = Extend(a.table, n, s) /\ b.memo = a.memo
      /\ \E ns, f, t, m : b = Arena(ns, f, t, m)
  <2>1. PICK ns, f, t, m : a = Arena(ns, f, t, m)
    BY DEF ArenaType
  <2>2. a.free = f /\ a.table = t /\ a.memo = m
    BY <2>1 DEF Arena
  <2> DEFINE y == f \ {s}
             z == Extend(t, n, s)
  <2>3. b = [a EXCEPT !.nodes = more, !.free = y, !.table = z]
    BY <2>2, Zenon DEF Store
  <2> HIDE DEF more, s, b, y, z
  <2>4. b = Arena(more, y, z, m)
    <3>1. [a EXCEPT !.nodes = more] = Arena(more, f, t, m)
      BY <2>1 DEF Arena
    <3>2. [Arena(more, f, t, m) EXCEPT !.free = y] = Arena(more, y, t, m)
      BY DEF Arena
    <3>3. [Arena(more, y, t, m) EXCEPT !.table = z] = Arena(more, y, z, m)
      BY DEF Arena
    <3> QED BY <2>3, <3>1, <3>2, <3>3, Zenon
  <2> QED BY <2>2, <2>4 DEF Arena, y, z
<1> HIDE DEF more, b, s
<1>5. Slots(b) = Slots(a) \cup {s}
  <2>1. CASE a.free = {}
    BY <1>1, <1>3, <1>4, <2>1 DEF Slots
  <2>2. CASE a.free # {}
    BY <1>1, <1>3, <1>4, <2>2 DEF Slots, ArenaType
  <2> QED BY <2>1, <2>2
<1>6. s \notin LiveSlots(a) /\ LiveSlots(b) = LiveSlots(a) \cup {s}
  BY <1>1, <1>4, <1>5 DEF LiveSlots, Slots, ArenaType
<1>7. At(b, s) = n /\ \A i \in LiveSlots(a) : At(b, i) = At(a, i)
  BY <1>3, <1>4, <1>6 DEF At, LiveSlots
<1>8. ArenaType(b)
  <2>1. b.free \subseteq Slots(b)
    BY <1>4, <1>5 DEF ArenaType
  <2>2. \E T : b.nodes \in Seq(T)
    BY <1>3, <1>4
  <2> QED BY <1>4, <2>1, <2>2 DEF ArenaType
<1> QED BY <1>4, <1>6, <1>7, <1>8 DEF b, s

----------------------------------------------------------------------------
(* What a node is depends on its contents alone.                           *)
LEMMA SameNode ==
  ASSUME NEW a, NEW b, NEW i, At(b, i) = At(a, i)
  PROVE  /\ IsInner(b, i) = IsInner(a, i) /\ Level(b, i) = Level(a, i)
         /\ Outcome(b, i) = Outcome(a, i) /\ Edges(b, i) = Edges(a, i)
  BY Zenon DEF IsInner, Level, Outcome, Edges

LEMMA NodeShapes ==
  /\ \A v : Leaf(v).value = v /\ "edges" \notin DOMAIN Leaf(v)
  /\ \A l, e : /\ Inner(l, e).level = l /\ Inner(l, e).edges = e
               /\ "edges" \in DOMAIN Inner(l, e)
  /\ \A v, l, e : Leaf(v) # Inner(l, e)
  /\ \A v, w : Leaf(v) = Leaf(w) => v = w
<1>1. \A v : DOMAIN Leaf(v) = {"value"} /\ Leaf(v).value = v
  BY DEF Leaf
<1>2. \A l, e : DOMAIN Inner(l, e) = {"level", "edges"} /\ Inner(l, e).level = l
                /\ Inner(l, e).edges = e
  BY DEF Inner
<1>3. \A v, l, e : Leaf(v) # Inner(l, e)
  BY DEF Leaf, Inner
<1> QED BY <1>1, <1>2, <1>3

(* Edges that fit in a fit in what preserves a, under more headers too.    *)
Extends(ord, more) ==
  /\ Len(ord) \in Nat /\ Len(more) \in Nat /\ Len(ord) <= Len(more)
  /\ \A l \in 1 .. Len(ord) : more[l] = ord[l]

LEMMA EdgedKept ==
  ASSUME NEW a, NEW b, Preserves(a, b), NEW ord, NEW more, Extends(ord, more),
         NEW l, NEW edges, Edged(a, ord, l, edges)
  PROVE  Edged(b, more, l, edges)
<1>1. l \in 0 .. Len(ord) - 1 /\ l \in 0 .. Len(more) - 1 /\ more[l + 1] = ord[l + 1]
  BY DEF Edged, Extends
<1>2. edges \in [1 .. States[ord[l + 1]] -> LiveSlots(b)]
  BY DEF Edged, Preserves
<1>3. \A n \in DOMAIN edges : edges[n] \in LiveSlots(a)
  BY DEF Edged
<1>4. \A n \in DOMAIN edges : Level(b, edges[n]) = Level(a, edges[n])
  BY <1>3, SameNode DEF Preserves
<1> QED BY <1>1, <1>2, <1>4 DEF Edged

LEMMA MadeKept ==
  ASSUME NEW side, NEW a, NEW b, Preserves(a, b), NEW ord, NEW more, Extends(ord, more),
         MadeWell(side, a, ord), NEW i \in Made(side, a)
  PROVE  IF IsInner(b, i)
           THEN /\ At(b, i) = Inner(At(b, i).level, At(b, i).edges)
                /\ Edged(b, more, At(b, i).level, At(b, i).edges)
                /\ ~ Agree(At(b, i).edges)
           ELSE side = "v" /\ Outcome(b, i) \in Int /\ At(b, i) = Leaf(Outcome(b, i))
<1>1. At(b, i) = At(a, i) /\ IsInner(b, i) = IsInner(a, i) /\ Outcome(b, i) = Outcome(a, i)
  BY SameNode DEF Preserves, Made
<1>2. CASE IsInner(a, i)
  BY <1>1, <1>2, EdgedKept DEF MadeWell
<1>3. CASE ~ IsInner(a, i)
  BY <1>1, <1>3 DEF MadeWell
<1> QED BY <1>2, <1>3

LEMMA ExtendsItself ==
  ASSUME NEW ord, Len(ord) \in Nat
  PROVE  Extends(ord, ord)
  BY DEF Extends

LEMMA TerminalsOf ==
  ASSUME NEW side \in Sides
  PROVE  /\ Terminals(side) \subseteq Nat
         /\ \A t \in Terminals(side) : \E v : TerminalNodes(side)[t + 1] = Leaf(v)
         /\ side = "b" => TerminalNodes(side) = <<Leaf(0), Leaf(1), Leaf(Undet)>>
         /\ side = "v" => TerminalNodes(side) = <<Leaf(Undet)>>
         /\ side = "b" => Terminals(side) = {0, 1, 2}
         /\ side = "v" => Terminals(side) = {0}
  BY DEF Sides, Terminals, TerminalNodes, Zero, One, BUndet, VUndet

(* A change of the computed table or of the headers alone.                 *)
LEMMA NodesStayOK ==
  ASSUME NEW side \in Sides, NEW a, NEW ord, NEW more, ArenaGood(side, a, ord),
         Extends(ord, more), NEW b,
         b.nodes = a.nodes, b.free = a.free, b.table = a.table,
         \E n, f, t, m : b = Arena(n, f, t, m)
  PROVE  ArenaGood(side, b, more) /\ LiveSlots(b) = LiveSlots(a) /\ \A i : At(b, i) = At(a, i)
<1>0. ArenaType(a) /\ TerminalsInPlace(side, a) /\ MadeWell(side, a, ord) /\ TableExact(side, a)
  BY DEF ArenaGood, ArenaOK
<1>1. Slots(b) = Slots(a) /\ LiveSlots(b) = LiveSlots(a) /\ \A i : At(b, i) = At(a, i)
  BY DEF Slots, LiveSlots, At
<1>2. Preserves(a, b) /\ Made(side, b) = Made(side, a)
  BY <1>1 DEF Preserves, Made
<1>3. ArenaType(b)
  BY <1>0, <1>1 DEF ArenaType
<1>4. TerminalsInPlace(side, b) /\ TableExact(side, b)
  BY <1>0, <1>1, <1>2 DEF TerminalsInPlace, TableExact
<1>5. MadeWell(side, b, more)
  BY <1>0, <1>2, MadeKept DEF MadeWell
<1> QED BY <1>1, <1>3, <1>4, <1>5 DEF ArenaGood, ArenaOK

(* A node that may be made: its slot is returned, nothing else changes.    *)
LEMMA InternOK ==
  ASSUME NEW side \in Sides, NEW a, NEW ord, Len(ord) \in Nat, ArenaGood(side, a, ord),
         NEW n, Makable(side, a, ord, n)
  PROVE  LET r == Intern(a, n)
         IN /\ ArenaGood(side, r[2], ord) /\ Preserves(a, r[2]) /\ r[2].memo = a.memo
            /\ r[1] \in LiveSlots(r[2]) /\ At(r[2], r[1]) = n
<1> DEFINE r == Intern(a, n)
<1>0. ArenaType(a) /\ TerminalsInPlace(side, a) /\ MadeWell(side, a, ord) /\ TableExact(side, a)
  BY DEF ArenaGood, ArenaOK
<1>1. CASE n \in DOMAIN a.table
  <2>1. r[1] = a.table[n] /\ r[2] = a
    BY <1>1 DEF Intern
  <2>2. a.table[n] \in LiveSlots(a) /\ At(a, a.table[n]) = n
    BY <1>0, <1>1 DEF TableExact, Made
  <2> HIDE DEF r
  <2> QED BY <2>1, <2>2 DEF Preserves, r
<1>2. CASE n \notin DOMAIN a.table
  <2> DEFINE s == NewSlot(a)
             b == Store(a, n, s)
  <2>1. r[1] = s /\ r[2] = b
    BY <1>2 DEF Intern
  <2>2. /\ ArenaType(b) /\ s \notin LiveSlots(a) /\ LiveSlots(b) = LiveSlots(a) \cup {s}
        /\ At(b, s) = n /\ \A i \in LiveSlots(a) : At(b, i) = At(a, i)
        /\ b.memo = a.memo /\ b.table = Extend(a.table, n, s)
    BY <1>0, StoreNode
  <2> HIDE DEF s, b, r
  <2>3. Preserves(a, b) /\ Extends(ord, ord)
    BY <2>2, ExtendsItself DEF Preserves
  <2>4. TerminalsInPlace(side, b) /\ Made(side, b) = Made(side, a) \cup {s}
    BY <1>0, <2>2 DEF TerminalsInPlace, Made
  <2>5. MadeWell(side, b, ord)
    <3>1. CASE \E l, edges : n = Inner(l, edges) /\ Edged(a, ord, l, edges) /\ ~ Agree(edges)
      <4>1. PICK l, edges : n = Inner(l, edges) /\ Edged(a, ord, l, edges) /\ ~ Agree(edges)
        BY <3>1
      <4>2. Edged(b, ord, l, edges)
        BY <2>3, <4>1, EdgedKept
      <4>3. /\ At(b, s).level = l /\ At(b, s).edges = edges /\ IsInner(b, s)
            /\ At(b, s) = Inner(l, edges)
        BY <2>2, <4>1, NodeShapes DEF IsInner
      <4> QED BY <1>0, <2>3, <2>4, <4>1, <4>2, <4>3, MadeKept DEF MadeWell
    <3>2. CASE side = "v" /\ \E v \in Int : n = Leaf(v)
      <4>1. PICK v \in Int : n = Leaf(v)
        BY <3>2
      <4>2. ~ IsInner(b, s) /\ Outcome(b, s) = v /\ At(b, s) = Leaf(v)
        BY <2>2, <4>1, NodeShapes DEF IsInner, Outcome
      <4> QED BY <1>0, <2>3, <2>4, <3>2, <4>2, MadeKept DEF MadeWell
    <3> QED BY <3>1, <3>2 DEF Makable
  <2>6. TableExact(side, b)
    <3>1. DOMAIN b.table = DOMAIN a.table \cup {n} /\ b.table[n] = s
          /\ \A x \in DOMAIN a.table : b.table[x] = a.table[x]
      BY <1>2, <2>2 DEF Extend
    <3>2. s \in Made(side, b)
      BY <2>4
    <3>3. \A i \in Made(side, b) : At(b, i) \in DOMAIN b.table /\ b.table[At(b, i)] = i
      BY <1>0, <2>2, <2>4, <3>1 DEF TableExact, Made
    <3>4. \A x \in DOMAIN b.table : b.table[x] \in Made(side, b) /\ At(b, b.table[x]) = x
      BY <1>0, <2>2, <2>4, <3>1, <3>2 DEF TableExact, Made
    <3> QED BY <3>3, <3>4 DEF TableExact
  <2> QED BY <2>1, <2>2, <2>3, <2>4, <2>5, <2>6 DEF ArenaGood, ArenaOK, r
<1> QED BY <1>1, <1>2

LEMMA MakeNodeOK ==
  ASSUME NEW side \in Sides, NEW a, NEW ord, Len(ord) \in Nat, ArenaGood(side, a, ord),
         NEW l, NEW edges, Edged(a, ord, l, edges), 1 \in DOMAIN edges
  PROVE  LET r == MakeNode(a, l, edges)
         IN /\ ArenaGood(side, r[2], ord) /\ Preserves(a, r[2]) /\ r[2].memo = a.memo
            /\ r[1] \in LiveSlots(r[2])
            /\ \/ Agree(edges) /\ r[1] = edges[1] /\ r[2] = a
               \/ At(r[2], r[1]) = Inner(l, edges)
<1> DEFINE r == MakeNode(a, l, edges)
<1>1. CASE Agree(edges)
  <2>1. r[1] = edges[1] /\ r[2] = a
    BY <1>1 DEF MakeNode
  <2>2. edges[1] \in LiveSlots(a)
    BY DEF Edged
  <2> HIDE DEF r
  <2> QED BY <1>1, <2>1, <2>2 DEF Preserves, r
<1>2. CASE ~ Agree(edges)
  <2>1. r = Intern(a, Inner(l, edges))
    BY <1>2 DEF MakeNode
  <2>2. Makable(side, a, ord, Inner(l, edges))
    BY <1>2 DEF Makable
  <2> QED BY <2>1, <2>2, InternOK
<1> QED BY <1>1, <1>2

LEMMA ValueNodeOK ==
  ASSUME NEW a, NEW ord, Len(ord) \in Nat, ArenaGood("v", a, ord), NEW v \in Int
  PROVE  LET r == ValueNode(a, v)
         IN /\ ArenaGood("v", r[2], ord) /\ Preserves(a, r[2]) /\ r[2].memo = a.memo
            /\ r[1] \in LiveSlots(r[2]) /\ At(r[2], r[1]) = Leaf(v)
<1>1. Makable("v", a, ord, Leaf(v)) /\ "v" \in Sides
  BY DEF Makable, Sides
<1> QED BY <1>1, InternOK DEF ValueNode

(* A sweep that keeps a closed set of slots leaves those as they are, and  *)
(* nothing that names another.                                             *)
LEMMA SweptArenaOK ==
  ASSUME NEW side \in Sides, NEW a, NEW ord, ArenaGood(side, a, ord), NEW live,
         Closed(side, a, live)
  PROVE  LET b == SweptArena(a, live)
         IN /\ ArenaGood(side, b, ord) /\ LiveSlots(b) = live /\ \A i : At(b, i) = At(a, i)
            /\ DOMAIN b.memo = LiveEntries(a, live)
            /\ \A key \in DOMAIN b.memo : b.memo[key] = a.memo[key]
<1> DEFINE b == SweptArena(a, live)
           table == RestrictTo(a.table, LiveNodes(a, live))
           memo == RestrictTo(a.memo, LiveEntries(a, live))
           free == Slots(a) \ live
<1>0. /\ ArenaType(a) /\ TerminalsInPlace(side, a) /\ MadeWell(side, a, ord) /\ TableExact(side, a)
      /\ Terminals(side) \subseteq live /\ live \subseteq LiveSlots(a)
      /\ \A i \in live : Edges(a, i) \subseteq live
  BY DEF ArenaGood, ArenaOK, Closed
<1>1. /\ b.nodes = a.nodes /\ b.free = free /\ b.table = table /\ b.memo = memo
      /\ \E n, f, t, m : b = Arena(n, f, t, m)
  <2>1. PICK n, f, t, m : a = Arena(n, f, t, m)
    BY <1>0 DEF ArenaType
  <2>2. b = [a EXCEPT !.free = free, !.table = table, !.memo = memo]
    BY Zenon DEF SweptArena
  <2> HIDE DEF table, memo, free, b
  <2>3. b = Arena(n, free, table, memo)
    <3>1. [a EXCEPT !.free = free] = Arena(n, free, t, m)
      BY <2>1 DEF Arena
    <3>2. [Arena(n, free, t, m) EXCEPT !.table = table] = Arena(n, free, table, m)
      BY DEF Arena
    <3>3. [Arena(n, free, table, m) EXCEPT !.memo = memo] = Arena(n, free, table, memo)
      BY DEF Arena
    <3> QED BY <2>2, <3>1, <3>2, <3>3, Zenon
  <2> QED BY <2>1, <2>3 DEF Arena
<1>2. /\ DOMAIN table = LiveNodes(a, live) /\ \A x \in DOMAIN table : table[x] = a.table[x]
      /\ DOMAIN memo = LiveEntries(a, live) /\ \A k \in DOMAIN memo : memo[k] = a.memo[k]
  BY DEF RestrictTo
<1> HIDE DEF b, table, memo
<1>3. /\ Slots(b) = Slots(a) /\ LiveSlots(b) = live /\ Made(side, b) = live \ Terminals(side)
      /\ Made(side, b) \subseteq Made(side, a) /\ \A i : At(b, i) = At(a, i)
  BY <1>0, <1>1 DEF Slots, LiveSlots, Made, At
<1>4. ArenaType(b)
  BY <1>0, <1>1, <1>3 DEF ArenaType, free
<1> HIDE DEF free
<1>5. TerminalsInPlace(side, b)
  BY <1>0, <1>3 DEF TerminalsInPlace
<1>6. MadeWell(side, b, ord)
  <2> SUFFICES ASSUME NEW i \in Made(side, b)
               PROVE  IF IsInner(b, i)
                        THEN /\ At(b, i) = Inner(At(b, i).level, At(b, i).edges)
                             /\ Edged(b, ord, At(b, i).level, At(b, i).edges)
                             /\ ~ Agree(At(b, i).edges)
                        ELSE side = "v" /\ Outcome(b, i) \in Int /\ At(b, i) = Leaf(Outcome(b, i))
    BY Zenon DEF MadeWell
  <2>1. i \in Made(side, a) /\ i \in live /\ At(b, i) = At(a, i) /\ IsInner(b, i) = IsInner(a, i)
        /\ Outcome(b, i) = Outcome(a, i)
    BY <1>3, SameNode
  <2>2. CASE ~ IsInner(a, i)
    BY <1>0, <2>1, <2>2 DEF MadeWell
  <2>3. CASE IsInner(a, i)
    <3> DEFINE l == At(a, i).level
               edges == At(a, i).edges
    <3>1. At(a, i) = Inner(l, edges) /\ Edged(a, ord, l, edges) /\ ~ Agree(edges)
      BY <1>0, <2>1, <2>3 DEF MadeWell
    <3> HIDE DEF l, edges
    <3>2. \A n \in DOMAIN edges : edges[n] \in live
      <4>1. Range(edges) \subseteq live
        BY <1>0, <2>1, <2>3 DEF Edges, edges
      <4> QED BY <4>1 DEF Range
    <3>3. \A n \in DOMAIN edges : Level(b, edges[n]) = Level(a, edges[n])
      BY <1>3, SameNode
    <3>4. Edged(b, ord, l, edges)
      BY <1>3, <3>1, <3>2, <3>3 DEF Edged
    <3> QED BY <2>1, <2>3, <3>1, <3>4 DEF l, edges
  <2> QED BY <2>2, <2>3
<1>7. TableExact(side, b)
  <2>1. \A i \in Made(side, b) : At(b, i) \in DOMAIN b.table /\ b.table[At(b, i)] = i
    BY <1>0, <1>1, <1>2, <1>3 DEF TableExact, LiveNodes
  <2>2. \A x \in DOMAIN b.table : b.table[x] \in Made(side, b) /\ At(b, b.table[x]) = x
    BY <1>0, <1>1, <1>2, <1>3 DEF TableExact, LiveNodes, Made
  <2> QED BY <2>1, <2>2 DEF TableExact
<1> QED BY <1>1, <1>2, <1>3, <1>4, <1>5, <1>6, <1>7 DEF ArenaGood, ArenaOK, b

----------------------------------------------------------------------------
(* What a well-formed arena says of one node.                              *)
Headers(ord) == ord \in Seq(Label) /\ IsInjective(ord)

OutcomesIn(side) == IF side = "b" THEN {0, 1, Undet} ELSE Int \cup {Undet}

LEMMA HeaderFacts ==
  ASSUME NEW ord, Headers(ord)
  PROVE  /\ Len(ord) \in Nat /\ Extends(ord, ord)
         /\ \A l \in 0 .. Len(ord) - 1 : ord[l + 1] \in Label
         /\ \A l \in 0 .. Len(ord) - 1 : \A k \in 0 .. Len(ord) - 1 :
              ord[l + 1] = ord[k + 1] => l = k
<1>1. Len(ord) \in Nat /\ DOMAIN ord = 1 .. Len(ord) /\ \A l \in 1 .. Len(ord) : ord[l] \in Label
  BY DEF Headers
<1>2. \A l \in 0 .. Len(ord) - 1 : l + 1 \in 1 .. Len(ord)
  BY <1>1
<1>3. \A l \in 0 .. Len(ord) - 1 : \A k \in 0 .. Len(ord) - 1 :
        ord[l + 1] = ord[k + 1] => l + 1 = k + 1
  BY <1>1, <1>2, Zenon DEF Headers, IsInjective
<1> QED BY <1>1, <1>2, <1>3, ExtendsItself

LEMMA StateFacts ==
  ASSUME NEW s \in Assignments, NEW x \in Label
  PROVE  /\ States[x] \in Nat \ {0} /\ s[x] \in 0 .. States[x] - 1
         /\ s[x] + 1 \in 1 .. States[x] /\ 1 \in 1 .. States[x]
         /\ \A n \in 1 .. States[x] :
              [s EXCEPT ![x] = n - 1] \in Assignments
<1>1. \A y \in Label : States[y] \in Nat \ {0}
  BY VariableAssumption
<1> DEFINE All == UNION {0 .. States[y] - 1 : y \in Label}
<1>2. All \subseteq Nat
  BY <1>1
<1>3. s \in [Label -> All] /\ \A y \in Label : s[y] < States[y]
  BY DEF Assignments
<1>4. ASSUME NEW n \in 1 .. States[x]
      PROVE  [s EXCEPT ![x] = n - 1] \in Assignments
  <2>1. n - 1 \in All /\ n - 1 < States[x]
    BY <1>1
  <2> DEFINE t == [s EXCEPT ![x] = n - 1]
  <2> HIDE DEF All
  <2>2. t \in [Label -> All]
    BY <1>3, <2>1
  <2>3. \A y \in Label : t[y] < States[y]
    BY <1>3, <2>1
  <2> HIDE DEF t
  <2> QED BY <2>2, <2>3 DEF Assignments, All, t
<1>5. s[x] \in Nat /\ s[x] < States[x]
  <2> HIDE DEF All
  <2> QED BY <1>2, <1>3
<1> QED BY <1>1, <1>4, <1>5

LEMMA NodeFacts ==
  ASSUME NEW side \in Sides, NEW a, NEW ord, Headers(ord), ArenaGood(side, a, ord)
  PROVE  /\ \A i \in LiveSlots(a) : /\ Level(a, i) \in Int /\ -1 <= Level(a, i)
                                    /\ Level(a, i) < Len(ord)
                                    /\ ~ IsInner(a, i) => Level(a, i) = -1
         /\ \A t \in Terminals(side) : /\ t \in LiveSlots(a) /\ ~ IsInner(a, t)
                                       /\ Level(a, t) = -1
                                       /\ At(a, t) = TerminalNodes(side)[t + 1]
         /\ \A i \in LiveSlots(a) : IsInner(a, i) =>
              /\ i \in Made(side, a) /\ Level(a, i) \in 0 .. Len(ord) - 1
              /\ ord[Level(a, i) + 1] \in Label
              /\ At(a, i) = Inner(Level(a, i), At(a, i).edges)
              /\ Edged(a, ord, Level(a, i), At(a, i).edges) /\ ~ Agree(At(a, i).edges)
<1>1. /\ TerminalsInPlace(side, a) /\ MadeWell(side, a, ord)
      /\ Len(ord) \in Nat /\ \A l \in 0 .. Len(ord) - 1 : ord[l + 1] \in Label
  BY HeaderFacts DEF ArenaGood, ArenaOK
<1>2. \A i : ~ IsInner(a, i) => Level(a, i) = -1
  BY DEF Level
<1>3. ASSUME NEW t \in Terminals(side)
      PROVE  t \in LiveSlots(a) /\ ~ IsInner(a, t) /\ At(a, t) = TerminalNodes(side)[t + 1]
  <2>1. t \in LiveSlots(a) /\ At(a, t) = TerminalNodes(side)[t + 1]
    BY <1>1 DEF TerminalsInPlace
  <2>2. \E v : At(a, t) = Leaf(v)
    BY <2>1, TerminalsOf
  <2> QED BY <2>1, <2>2, NodeShapes DEF IsInner
<1>4. ASSUME NEW i \in LiveSlots(a), IsInner(a, i)
      PROVE  /\ i \in Made(side, a) /\ Level(a, i) \in 0 .. Len(ord) - 1
             /\ At(a, i) = Inner(Level(a, i), At(a, i).edges)
             /\ Edged(a, ord, Level(a, i), At(a, i).edges) /\ ~ Agree(At(a, i).edges)
  <2>1. i \in Made(side, a)
    BY <1>3, <1>4 DEF Made
  <2>2. Level(a, i) = At(a, i).level
    BY <1>4 DEF Level
  <2>3. /\ At(a, i) = Inner(At(a, i).level, At(a, i).edges)
        /\ Edged(a, ord, At(a, i).level, At(a, i).edges) /\ ~ Agree(At(a, i).edges)
    BY <1>1, <1>4, <2>1 DEF MadeWell
  <2> QED BY <2>1, <2>2, <2>3 DEF Edged
<1>5. ASSUME NEW i \in LiveSlots(a)
      PROVE  Level(a, i) \in Int /\ -1 <= Level(a, i) /\ Level(a, i) < Len(ord)
  BY <1>1, <1>2, <1>4
<1> QED BY <1>1, <1>2, <1>3, <1>4, <1>5

(* The edges of a node in use lead to lower nodes in use.                  *)
LEMMA EdgeFacts ==
  ASSUME NEW side \in Sides, NEW a, NEW ord, Headers(ord), ArenaGood(side, a, ord),
         NEW i \in LiveSlots(a), IsInner(a, i)
  PROVE  /\ DOMAIN At(a, i).edges = 1 .. States[ord[Level(a, i) + 1]]
         /\ \A n \in DOMAIN At(a, i).edges : /\ At(a, i).edges[n] \in LiveSlots(a)
                                             /\ Level(a, At(a, i).edges[n]) < Level(a, i)
         /\ \A s \in Assignments : /\ EdgeTaken(a, ord, i, s) \in LiveSlots(a)
                                   /\ Level(a, EdgeTaken(a, ord, i, s)) < Level(a, i)
<1>1. ord[Level(a, i) + 1] \in Label /\ Edged(a, ord, Level(a, i), At(a, i).edges)
  BY NodeFacts
<1>2. /\ DOMAIN At(a, i).edges = 1 .. States[ord[Level(a, i) + 1]]
      /\ \A n \in DOMAIN At(a, i).edges : /\ At(a, i).edges[n] \in LiveSlots(a)
                                          /\ Level(a, At(a, i).edges[n]) < Level(a, i)
  BY <1>1 DEF Edged
<1>3. \A s \in Assignments : s[ord[Level(a, i) + 1]] + 1 \in DOMAIN At(a, i).edges
  BY <1>1, <1>2, StateFacts
<1> QED BY <1>2, <1>3 DEF EdgeTaken

(* Induction on levels: a set that holds a node as soon as it holds the    *)
(* lower ones holds every node in use.                                     *)
LEMMA FromBelow ==
  ASSUME NEW side \in Sides, NEW a, NEW ord, Headers(ord), ArenaGood(side, a, ord), NEW G,
         \A i \in LiveSlots(a) :
           (\A j \in LiveSlots(a) : Level(a, j) < Level(a, i) => j \in G) => i \in G
  PROVE  LiveSlots(a) \subseteq G
<1> SUFFICES ASSUME NEW i0 \in LiveSlots(a), i0 \notin G PROVE FALSE
  OBVIOUS
<1> DEFINE L == {Level(a, i) + 1 : i \in LiveSlots(a) \ G}
<1>1. \A i \in LiveSlots(a) : Level(a, i) \in Int /\ Level(a, i) + 1 \in Nat
  BY NodeFacts
<1>2. L \in SUBSET Nat /\ L # {}
  BY <1>1
<1>3. PICK m \in L : \A k \in L : m <= k
  <2> HIDE DEF L
  <2> QED BY <1>2, LeastNumber
<1>4. PICK i \in LiveSlots(a) \ G : Level(a, i) + 1 = m
  OBVIOUS
<1>5. \A j \in LiveSlots(a) \ G : m <= Level(a, j) + 1
  BY <1>3
<1>6. \A j \in LiveSlots(a) : Level(a, j) < Level(a, i) => j \in G
  <2> HIDE DEF L
  <2> QED BY <1>1, <1>4, <1>5
<1> QED BY <1>4, <1>6

(* The recursion that defines the outcomes is well founded.                *)
LEMMA OutcomesDef ==
  ASSUME NEW side \in Sides, NEW a, NEW ord, Headers(ord), ArenaGood(side, a, ord),
         NEW s \in Assignments
  PROVE  Outcomes(a, ord, s) =
           [i \in LiveSlots(a) |->
              IF IsInner(a, i) THEN Outcomes(a, ord, s)[EdgeTaken(a, ord, i, s)]
              ELSE Outcome(a, i)]
<1> DEFINE Def(v, i) == IF IsInner(a, i) THEN v[EdgeTaken(a, ord, i, s)] ELSE Outcome(a, i)
           Upto(n) == \E v : \A i \in LiveSlots(a) : Level(a, i) < n => v[i] = Def(v, i)
           Held == {n \in Nat : Upto(n)}
<1>1. Outcomes(a, ord, s) = CHOOSE v : v = [i \in LiveSlots(a) |-> Def(v, i)]
  BY DEF Outcomes
<1>2. ASSUME NEW v, NEW w, NEW n \in Int,
             \A i \in LiveSlots(a) : Level(a, i) < n => w[i] = v[i]
      PROVE  \A i \in LiveSlots(a) : Level(a, i) < n + 1 => Def(w, i) = Def(v, i)
  <2> SUFFICES ASSUME NEW i \in LiveSlots(a), Level(a, i) < n + 1, IsInner(a, i)
               PROVE  w[EdgeTaken(a, ord, i, s)] = v[EdgeTaken(a, ord, i, s)]
    OBVIOUS
  <2>1. EdgeTaken(a, ord, i, s) \in LiveSlots(a) /\ Level(a, EdgeTaken(a, ord, i, s)) < Level(a, i)
    BY EdgeFacts
  <2>2. Level(a, EdgeTaken(a, ord, i, s)) \in Int /\ Level(a, i) \in Int
    BY <2>1, NodeFacts
  <2> QED BY <1>2, <2>1, <2>2
<1>3. 0 \in Held
  <2> DEFINE v == [i \in LiveSlots(a) |-> Outcome(a, i)]
  <2>1. \A i \in LiveSlots(a) : Level(a, i) < 0 => v[i] = Def(v, i)
    BY NodeFacts
  <2> QED BY <2>1
<1>4. ASSUME NEW n \in Nat, n \in Held
      PROVE  n + 1 \in Held
  <2>1. PICK v : \A i \in LiveSlots(a) : Level(a, i) < n => v[i] = Def(v, i)
    BY <1>4
  <2> DEFINE w == [i \in LiveSlots(a) |-> Def(v, i)]
  <2>2. \A i \in LiveSlots(a) : w[i] = Def(v, i)
    OBVIOUS
  <2> HIDE DEF Def, w
  <2>3. \A i \in LiveSlots(a) : Level(a, i) < n => w[i] = v[i]
    BY <2>1, <2>2
  <2>4. \A i \in LiveSlots(a) : Level(a, i) < n + 1 => Def(w, i) = Def(v, i)
    BY <1>2, <2>3
  <2> QED BY <2>2, <2>4
<1>5. Len(ord) \in Nat /\ \A i \in LiveSlots(a) : Level(a, i) < Len(ord)
  BY HeaderFacts, NodeFacts
<1>6. Len(ord) \in Held
  <2> HIDE DEF Held
  <2>1. 0 .. Len(ord) \subseteq Held
    BY <1>3, <1>4, <1>5, CountingUp
  <2> QED BY <1>5, <2>1
<1>7. \E v : v = [i \in LiveSlots(a) |-> Def(v, i)]
  <2>1. PICK v : \A i \in LiveSlots(a) : v[i] = Def(v, i)
    BY <1>5, <1>6
  <2> DEFINE w == [i \in LiveSlots(a) |-> Def(v, i)]
  <2>2. \A i \in LiveSlots(a) : w[i] = v[i]
    BY <2>1
  <2> HIDE DEF w
  <2>3. \A i \in LiveSlots(a) : Def(w, i) = Def(v, i)
    BY <2>2, EdgeFacts
  <2>4. w = [i \in LiveSlots(a) |-> Def(w, i)]
    BY <2>3 DEF w
  <2> QED BY <2>4
<1>8. Outcomes(a, ord, s) = [i \in LiveSlots(a) |-> Def(Outcomes(a, ord, s), i)]
  <2> HIDE DEF Def
  <2> QED BY <1>1, <1>7
<1> QED BY <1>8

LEMMA FollowUnfold ==
  ASSUME NEW side \in Sides, NEW a, NEW ord, Headers(ord), ArenaGood(side, a, ord),
         NEW s \in Assignments, NEW i \in LiveSlots(a)
  PROVE  Follow(a, ord, i, s) = IF IsInner(a, i) THEN Follow(a, ord, EdgeTaken(a, ord, i, s), s)
                                ELSE Outcome(a, i)
<1> DEFINE out == Outcomes(a, ord, s)
<1>1. out = [j \in LiveSlots(a) |->
               IF IsInner(a, j) THEN out[EdgeTaken(a, ord, j, s)] ELSE Outcome(a, j)]
  BY OutcomesDef
<1> HIDE DEF out
<1>2. out[i] = IF IsInner(a, i) THEN out[EdgeTaken(a, ord, i, s)] ELSE Outcome(a, i)
  BY <1>1, Zenon
<1> QED BY <1>2 DEF Follow, out

----------------------------------------------------------------------------
(* What the outcomes of a node are, and what they depend on.               *)

(* A leaf in use, by its arena.                                            *)
LEMMA LeafFacts ==
  ASSUME NEW side \in Sides, NEW a, NEW ord, Headers(ord), ArenaGood(side, a, ord)
  PROVE  /\ \A i \in LiveSlots(a) : ~ IsInner(a, i) =>
              /\ Outcome(a, i) \in OutcomesIn(side) /\ At(a, i) = Leaf(Outcome(a, i))
              /\ side = "b" => i \in {0, 1, 2}
              /\ side = "v" /\ i # 0 => Outcome(a, i) \in Int
         /\ side = "b" => /\ {0, 1, 2} \subseteq LiveSlots(a)
                          /\ Outcome(a, 0) = 0 /\ Outcome(a, 1) = 1 /\ Outcome(a, 2) = Undet
         /\ side = "v" => 0 \in LiveSlots(a) /\ Outcome(a, 0) = Undet
<1>1. /\ \A v : Leaf(v).value = v
      /\ side = "b" => TerminalNodes(side) = <<Leaf(0), Leaf(1), Leaf(Undet)>>
      /\ side = "v" => TerminalNodes(side) = <<Leaf(Undet)>>
      /\ side = "b" => Terminals(side) = {0, 1, 2}
      /\ side = "v" => Terminals(side) = {0}
  BY NodeShapes, TerminalsOf
<1>2. \A t \in Terminals(side) : t \in LiveSlots(a) /\ At(a, t) = TerminalNodes(side)[t + 1]
  BY NodeFacts
<1>3. CASE side = "b"
  <2>1. {0, 1, 2} \subseteq LiveSlots(a)
    BY <1>1, <1>2, <1>3
  <2>2. At(a, 0) = Leaf(0) /\ At(a, 1) = Leaf(1) /\ At(a, 2) = Leaf(Undet)
    BY <1>1, <1>2, <1>3
  <2>3. Outcome(a, 0) = 0 /\ Outcome(a, 1) = 1 /\ Outcome(a, 2) = Undet
    BY <1>1, <2>2 DEF Outcome
  <2>4. \A i \in LiveSlots(a) : ~ IsInner(a, i) => i \in {0, 1, 2}
    BY <1>1, <1>3 DEF ArenaGood, ArenaOK, MadeWell, Made
  <2> QED BY <1>3, <2>1, <2>2, <2>3, <2>4 DEF OutcomesIn
<1>4. CASE side = "v"
  <2>1. 0 \in LiveSlots(a) /\ At(a, 0) = Leaf(Undet) /\ Outcome(a, 0) = Undet
    BY <1>1, <1>2, <1>4 DEF Outcome
  <2>2. \A i \in LiveSlots(a) : ~ IsInner(a, i) /\ i # 0 =>
          Outcome(a, i) \in Int /\ At(a, i) = Leaf(Outcome(a, i))
    BY <1>1, <1>4 DEF ArenaGood, ArenaOK, MadeWell, Made
  <2> QED BY <1>4, <2>1, <2>2 DEF OutcomesIn
<1> QED BY <1>3, <1>4 DEF Sides

LEMMA OutcomeKinds ==
  ASSUME NEW side \in Sides, NEW a, NEW ord, Headers(ord), ArenaGood(side, a, ord),
         NEW s \in Assignments
  PROVE  \A i \in LiveSlots(a) : Follow(a, ord, i, s) \in OutcomesIn(side)
<1> DEFINE G == {i \in LiveSlots(a) : Follow(a, ord, i, s) \in OutcomesIn(side)}
<1>1. ASSUME NEW i \in LiveSlots(a),
             \A j \in LiveSlots(a) : Level(a, j) < Level(a, i) => j \in G
      PROVE  i \in G
  <2>1. CASE IsInner(a, i)
    <3>1. EdgeTaken(a, ord, i, s) \in G
      BY <1>1, <2>1, EdgeFacts
    <3> QED BY <2>1, <3>1, FollowUnfold
  <2>2. CASE ~ IsInner(a, i)
    BY <2>2, FollowUnfold, LeafFacts
  <2> QED BY <2>1, <2>2
<1>2. LiveSlots(a) \subseteq G
  <2> HIDE DEF G
  <2> QED BY <1>1, FromBelow
<1> QED BY <1>2

(* Nodes that stay where they are lead where they led.                     *)
LEMMA FollowKept ==
  ASSUME NEW side \in Sides, NEW a, NEW ord, Headers(ord), ArenaGood(side, a, ord),
         NEW b, NEW more, Headers(more), ArenaGood(side, b, more),
         Preserves(a, b), Extends(ord, more) \/ Extends(more, ord),
         \A i \in LiveSlots(a) : Level(a, i) < Len(more),
         NEW s \in Assignments
  PROVE  \A i \in LiveSlots(a) : Follow(b, more, i, s) = Follow(a, ord, i, s)
<1> DEFINE G == {i \in LiveSlots(a) : Follow(b, more, i, s) = Follow(a, ord, i, s)}
<1>1. ASSUME NEW i \in LiveSlots(a),
             \A j \in LiveSlots(a) : Level(a, j) < Level(a, i) => j \in G
      PROVE  i \in G
  <2>1. i \in LiveSlots(b) /\ At(b, i) = At(a, i)
    BY DEF Preserves
  <2>2. IsInner(b, i) = IsInner(a, i) /\ Level(b, i) = Level(a, i) /\ Outcome(b, i) = Outcome(a, i)
    BY <2>1, SameNode
  <2>3. CASE IsInner(a, i)
    <3>1. Level(a, i) \in 0 .. Len(ord) - 1 /\ Level(a, i) < Len(more)
      BY <2>3, NodeFacts
    <3>2. more[Level(a, i) + 1] = ord[Level(a, i) + 1]
      BY <3>1, HeaderFacts DEF Extends
    <3>3. EdgeTaken(b, more, i, s) = EdgeTaken(a, ord, i, s)
      BY <2>1, <2>2, <3>2 DEF EdgeTaken
    <3>4. EdgeTaken(a, ord, i, s) \in G
      BY <1>1, <2>3, EdgeFacts
    <3>5. Follow(a, ord, i, s) = Follow(a, ord, EdgeTaken(a, ord, i, s), s)
      BY <2>3, FollowUnfold
    <3>6. Follow(b, more, i, s) = IF IsInner(b, i) THEN Follow(b, more, EdgeTaken(b, more, i, s), s)
                                  ELSE Outcome(b, i)
      BY <2>1, FollowUnfold, Zenon
    <3> QED BY <2>2, <2>3, <3>3, <3>4, <3>5, <3>6
  <2>4. CASE ~ IsInner(a, i)
    <3>1. Follow(b, more, i, s) = IF IsInner(b, i) THEN Follow(b, more, EdgeTaken(b, more, i, s), s)
                                  ELSE Outcome(b, i)
      BY <2>1, FollowUnfold, Zenon
    <3> QED BY <2>2, <2>4, <3>1, FollowUnfold
  <2> QED BY <2>3, <2>4
<1>2. LiveSlots(a) \subseteq G
  <2> HIDE DEF G
  <2> QED BY <1>1, FromBelow
<1> QED BY <1>2

(* A node does not ask the variables above its level.                      *)
SameUpTo(ord, l, s, t) ==
  \A k \in 0 .. Len(ord) - 1 : k <= l => s[ord[k + 1]] = t[ord[k + 1]]

LEMMA AsksBelow ==
  ASSUME NEW side \in Sides, NEW a, NEW ord, Headers(ord), ArenaGood(side, a, ord),
         NEW s \in Assignments, NEW t \in Assignments, NEW l \in Int, SameUpTo(ord, l, s, t)
  PROVE  \A i \in LiveSlots(a) : Level(a, i) <= l => Follow(a, ord, i, s) = Follow(a, ord, i, t)
<1> DEFINE G == {i \in LiveSlots(a) :
                   Level(a, i) <= l => Follow(a, ord, i, s) = Follow(a, ord, i, t)}
<1>1. ASSUME NEW i \in LiveSlots(a),
             \A j \in LiveSlots(a) : Level(a, j) < Level(a, i) => j \in G,
             Level(a, i) <= l
      PROVE  Follow(a, ord, i, s) = Follow(a, ord, i, t)
  <2>1. CASE IsInner(a, i)
    <3>1. Level(a, i) \in 0 .. Len(ord) - 1
      BY <2>1, NodeFacts
    <3>2. EdgeTaken(a, ord, i, s) = EdgeTaken(a, ord, i, t)
      BY <1>1, <3>1 DEF EdgeTaken, SameUpTo
    <3> DEFINE e == EdgeTaken(a, ord, i, s)
    <3>3. e \in LiveSlots(a) /\ Level(a, e) < Level(a, i)
      BY <2>1, EdgeFacts
    <3> HIDE DEF e
    <3>4. Level(a, e) \in Int /\ e \in G
      BY <1>1, <3>3, NodeFacts
    <3>5. Follow(a, ord, e, s) = Follow(a, ord, e, t)
      BY <1>1, <3>1, <3>3, <3>4
    <3> QED BY <2>1, <3>2, <3>5, FollowUnfold DEF e
  <2>2. CASE ~ IsInner(a, i)
    BY <2>2, FollowUnfold
  <2> QED BY <2>1, <2>2
<1>2. LiveSlots(a) \subseteq G
  <2>1. \A i \in LiveSlots(a) :
          (\A j \in LiveSlots(a) : Level(a, j) < Level(a, i) => j \in G) => i \in G
    BY <1>1
  <2> HIDE DEF G
  <2> QED BY <2>1, FromBelow
<1> QED BY <1>2

(* At a state of its variable a node leads where its edge leads; nodes     *)
(* below lead where they led.                                              *)
IsState(ord, l, m) == l \in 0 .. Len(ord) - 1 /\ m \in 1 .. States[ord[l + 1]]

LEMMA AtState ==
  ASSUME NEW side \in Sides, NEW a, NEW ord, Headers(ord), ArenaGood(side, a, ord),
         NEW s \in Assignments, NEW l, NEW m, IsState(ord, l, m)
  PROVE  \E t \in Assignments :
            /\ \A i \in LiveSlots(a) : Level(a, i) < l => Follow(a, ord, i, t) = Follow(a, ord, i, s)
            /\ \A i \in LiveSlots(a) : Level(a, i) = l =>
                 Follow(a, ord, i, t) = Follow(a, ord, At(a, i).edges[m], s)
<1> DEFINE x == ord[l + 1]
           t == [s EXCEPT ![x] = m - 1]
<1>0. l \in 0 .. Len(ord) - 1 /\ m \in 1 .. States[ord[l + 1]]
  BY DEF IsState
<1>1. x \in Label /\ States[x] \in Nat /\ s \in [Label -> UNION {0 .. States[y] - 1 : y \in Label}]
  BY <1>0, HeaderFacts, VariableAssumption DEF Assignments
<1>2. t \in Assignments
  BY <1>0, <1>1, StateFacts
<1>3. t[x] + 1 = m /\ \A y \in Label : y # x => t[y] = s[y]
  BY <1>0, <1>1
<1> HIDE DEF t
<1>4. SameUpTo(ord, l - 1, t, s)
  BY <1>0, <1>3, HeaderFacts DEF SameUpTo
<1>5. \A i \in LiveSlots(a) : Level(a, i) < l => Follow(a, ord, i, t) = Follow(a, ord, i, s)
  <2>1. \A i \in LiveSlots(a) : Level(a, i) <= l - 1 => Follow(a, ord, i, t) = Follow(a, ord, i, s)
    <3>1. l - 1 \in Int
      BY <1>0, HeaderFacts
    <3> QED BY <1>2, <1>4, <3>1, AsksBelow
  <2> QED BY <1>0, <2>1, NodeFacts
<1>6. ASSUME NEW i \in LiveSlots(a), Level(a, i) = l
      PROVE  Follow(a, ord, i, t) = Follow(a, ord, At(a, i).edges[m], s)
  <2>1. IsInner(a, i)
    BY <1>0, <1>6, NodeFacts
  <2>2. m \in DOMAIN At(a, i).edges
    BY <1>0, <1>6, <2>1, EdgeFacts
  <2>3. EdgeTaken(a, ord, i, t) = At(a, i).edges[m]
    BY <1>3, <1>6 DEF EdgeTaken
  <2> DEFINE e == At(a, i).edges[m]
  <2>4. e \in LiveSlots(a) /\ Level(a, e) < l
    BY <1>6, <2>1, <2>2, EdgeFacts
  <2> HIDE DEF e
  <2>5. Follow(a, ord, i, t) = Follow(a, ord, e, t)
    BY <1>2, <2>1, <2>3, FollowUnfold DEF e
  <2> QED BY <1>5, <2>2, <2>4, <2>5 DEF e
<1> QED BY <1>2, <1>5, <1>6

----------------------------------------------------------------------------
(* Nodes in use that lead to the same outcomes are the same node.          *)

LEMMA SomeAssignment == \E s : s \in Assignments
<1> DEFINE All == UNION {0 .. States[y] - 1 : y \in Label}
           s == [y \in Label |-> 0]
<1>1. \A y \in Label : States[y] \in Nat \ {0}
  BY VariableAssumption
<1>2. \A y \in Label : 0 \in All /\ s[y] < States[y]
  BY <1>1
<1> HIDE DEF All
<1>3. s \in [Label -> All]
  BY <1>2
<1> HIDE DEF s
<1> QED BY <1>2, <1>3 DEF Assignments, All

LEMMA OneSlot ==
  ASSUME NEW side \in Sides, NEW a, NEW ord, Headers(ord), ArenaGood(side, a, ord),
         NEW i \in LiveSlots(a), NEW j \in LiveSlots(a), At(a, i) = At(a, j)
  PROVE  i = j
<1>1. IsInner(a, i) = IsInner(a, j) /\ Outcome(a, i) = Outcome(a, j)
  BY DEF IsInner, Outcome
<1>2. \A k \in Made(side, a) : a.table[At(a, k)] = k
  BY DEF ArenaGood, ArenaOK, TableExact
<1>3. CASE IsInner(a, i)
  <2>1. i \in Made(side, a) /\ j \in Made(side, a)
    BY <1>1, <1>3, NodeFacts
  <2> QED BY <1>2, <2>1
<1>4. CASE ~ IsInner(a, i) /\ side = "b"
  <2>1. i \in {0, 1, 2} /\ j \in {0, 1, 2}
    BY <1>1, <1>4, LeafFacts
  <2>2. Outcome(a, 0) = 0 /\ Outcome(a, 1) = 1 /\ Outcome(a, 2) = Undet
    BY <1>4, LeafFacts
  <2> QED BY <1>1, <2>1, <2>2, UndetAssumption
<1>5. CASE ~ IsInner(a, i) /\ side = "v"
  <2>1. /\ i # 0 => Outcome(a, i) \in Int
        /\ j # 0 => Outcome(a, j) \in Int
        /\ Outcome(a, 0) = Undet
    BY <1>1, <1>5, LeafFacts
  <2>2. CASE i # 0 /\ j # 0
    <3>1. Terminals(side) = {0}
      BY <1>5, TerminalsOf
    <3>2. i \in Made(side, a) /\ j \in Made(side, a)
      BY <2>2, <3>1 DEF Made
    <3> QED BY <1>2, <3>2
  <2>3. CASE i = 0 \/ j = 0
    BY <1>1, <2>1, <2>3, UndetAssumption
  <2> QED BY <2>2, <2>3
<1> QED BY <1>3, <1>4, <1>5 DEF Sides

SameOutcomes(a, ord, i, j) == \A s \in Assignments : Follow(a, ord, i, s) = Follow(a, ord, j, s)

LEMMA TellApart ==
  ASSUME NEW side \in Sides, NEW a, NEW ord, Headers(ord), ArenaGood(side, a, ord)
  PROVE  \A i \in LiveSlots(a) : \A j \in LiveSlots(a) : SameOutcomes(a, ord, i, j) => i = j
<1> DEFINE Same(i, j) == SameOutcomes(a, ord, i, j)
           G == {i \in LiveSlots(a) :
                   \A j \in LiveSlots(a) : Level(a, j) <= Level(a, i) /\ Same(i, j) => i = j}
<1>0. \A i, j : Same(i, j) => Same(j, i)
  BY DEF SameOutcomes
<1>1. \A i \in LiveSlots(a) : Level(a, i) \in Int /\ -1 <= Level(a, i)
  BY NodeFacts
<1>2. ASSUME NEW i \in LiveSlots(a),
             \A j \in LiveSlots(a) : Level(a, j) < Level(a, i) => j \in G,
             NEW j \in LiveSlots(a), Level(a, j) <= Level(a, i), Same(i, j)
      PROVE  i = j
  <2>1. ASSUME NEW p \in LiveSlots(a), NEW q \in LiveSlots(a),
               Level(a, p) < Level(a, i), Level(a, q) < Level(a, i), Same(p, q)
        PROVE  p = q
    <3>1. p \in G /\ q \in G
      BY <1>2, <2>1
    <3>2. CASE Level(a, q) <= Level(a, p)
      BY <2>1, <3>1, <3>2
    <3>3. CASE Level(a, p) <= Level(a, q)
      BY <1>0, <2>1, <3>1, <3>3
    <3> QED BY <1>1, <3>2, <3>3
  <2>2. CASE ~ IsInner(a, i)
    <3>1. ~ IsInner(a, j)
      BY <1>1, <1>2, <2>2, NodeFacts
    <3>2. PICK s : s \in Assignments
      BY SomeAssignment
    <3>3. Follow(a, ord, i, s) = Outcome(a, i) /\ Follow(a, ord, j, s) = Outcome(a, j)
      BY <2>2, <3>1, <3>2, FollowUnfold
    <3>4. At(a, i) = Leaf(Outcome(a, i)) /\ At(a, j) = Leaf(Outcome(a, j))
      BY <2>2, <3>1, LeafFacts
    <3>5. At(a, i) = At(a, j)
      BY <1>2, <3>2, <3>3, <3>4 DEF SameOutcomes
    <3> QED BY <3>5, OneSlot
  <2>3. CASE IsInner(a, i)
    <3> DEFINE l == Level(a, i)
               e == At(a, i).edges
               d == At(a, j).edges
    <3>1. l \in 0 .. Len(ord) - 1 /\ At(a, i) = Inner(l, e) /\ ~ Agree(e)
          /\ Edged(a, ord, l, e)
      BY <2>3, NodeFacts
    <3>2. /\ DOMAIN e = 1 .. States[ord[l + 1]] /\ 1 \in DOMAIN e
          /\ \A m \in DOMAIN e : e[m] \in LiveSlots(a) /\ Level(a, e[m]) < l
      <4>1. ord[l + 1] \in Label
        BY <2>3, NodeFacts
      <4>2. States[ord[l + 1]] \in Nat \ {0}
        BY <4>1, VariableAssumption
      <4> QED BY <2>3, <4>2, EdgeFacts
    <3>5. Level(a, i) = l /\ At(a, i).edges = e /\ At(a, j).edges = d
      OBVIOUS
    <3> HIDE DEF l, e, d
    <3>3. CASE Level(a, j) < l
      <4>1. ASSUME NEW m \in DOMAIN e
            PROVE  e[m] = j
        <5>1. ASSUME NEW s \in Assignments
              PROVE  Follow(a, ord, e[m], s) = Follow(a, ord, j, s)
          <6>1. IsState(ord, l, m)
            BY <3>1, <3>2 DEF IsState
          <6>2. PICK t \in Assignments :
                  /\ \A k \in LiveSlots(a) : Level(a, k) < l =>
                       Follow(a, ord, k, t) = Follow(a, ord, k, s)
                  /\ \A k \in LiveSlots(a) : Level(a, k) = l =>
                       Follow(a, ord, k, t) = Follow(a, ord, At(a, k).edges[m], s)
            BY <6>1, AtState
          <6>3. /\ Follow(a, ord, j, t) = Follow(a, ord, j, s)
                /\ Follow(a, ord, i, t) = Follow(a, ord, e[m], s)
            BY <3>3, <3>5, <6>2
          <6> QED BY <1>2, <6>2, <6>3 DEF SameOutcomes
        <5>2. Same(e[m], j)
          BY <5>1 DEF SameOutcomes
        <5> HIDE DEF Same
        <5> QED BY <2>1, <3>2, <3>3, <3>5, <5>2
      <4> QED BY <3>1, <3>2, <4>1 DEF Agree
    <3>4. CASE Level(a, j) = l
      <4>1. IsInner(a, j)
        BY <3>1, <3>4, NodeFacts
      <4>2. At(a, j) = Inner(l, d) /\ Edged(a, ord, l, d)
        BY <3>4, <3>5, <4>1, NodeFacts
      <4>3. ASSUME NEW m \in DOMAIN e
            PROVE  e[m] = d[m]
        <5>0. d[m] \in LiveSlots(a) /\ Level(a, d[m]) < l
          BY <3>2, <3>4, <3>5, <4>1, EdgeFacts
        <5>1. ASSUME NEW s \in Assignments
              PROVE  Follow(a, ord, e[m], s) = Follow(a, ord, d[m], s)
          <6>1. IsState(ord, l, m)
            BY <3>1, <3>2 DEF IsState
          <6>2. PICK t \in Assignments :
                  /\ \A k \in LiveSlots(a) : Level(a, k) < l =>
                       Follow(a, ord, k, t) = Follow(a, ord, k, s)
                  /\ \A k \in LiveSlots(a) : Level(a, k) = l =>
                       Follow(a, ord, k, t) = Follow(a, ord, At(a, k).edges[m], s)
            BY <6>1, AtState
          <6>3. /\ Follow(a, ord, j, t) = Follow(a, ord, d[m], s)
                /\ Follow(a, ord, i, t) = Follow(a, ord, e[m], s)
            BY <3>4, <3>5, <6>2
          <6> QED BY <1>2, <6>2, <6>3 DEF SameOutcomes
        <5>2. Same(e[m], d[m])
          BY <5>1 DEF SameOutcomes
        <5> HIDE DEF Same
        <5> QED BY <2>1, <3>2, <3>5, <5>0, <5>2
      <4>4. e = d
        <5>1. /\ e \in [1 .. States[ord[l + 1]] -> LiveSlots(a)]
              /\ d \in [1 .. States[ord[l + 1]] -> LiveSlots(a)]
          BY <3>1, <4>2 DEF Edged
        <5>2. \A m \in 1 .. States[ord[l + 1]] : e[m] = d[m]
          BY <4>3, <5>1
        <5> DEFINE X == 1 .. States[ord[l + 1]]
        <5> HIDE DEF X
        <5>3. e = [m \in X |-> e[m]] /\ d = [m \in X |-> d[m]]
          BY <5>1 DEF X
        <5>4. \A m \in X : e[m] = d[m]
          BY <5>2 DEF X
        <5> QED BY <5>3, <5>4
      <4>5. At(a, i) = At(a, j)
        BY <3>1, <4>2, <4>4
      <4> QED BY <4>5, OneSlot
    <3> QED BY <1>1, <1>2, <3>1, <3>3, <3>4, <3>5
  <2> QED BY <2>2, <2>3
<1>3. LiveSlots(a) \subseteq G
  <2>1. \A i \in LiveSlots(a) :
          (\A j \in LiveSlots(a) : Level(a, j) < Level(a, i) => j \in G) => i \in G
    BY <1>2
  <2> HIDE DEF G
  <2> QED BY <2>1, FromBelow
<1>4. ASSUME NEW i \in LiveSlots(a), NEW j \in LiveSlots(a), Same(i, j)
      PROVE  i = j
  <2>1. i \in G /\ j \in G /\ Same(j, i)
    BY <1>0, <1>3, <1>4
  <2> QED BY <1>1, <1>4, <2>1
<1> QED BY <1>4

(* r is a slot and an arena that holds the node over these edges in it.    *)
Leads(side, a, ord, l, edges, r) ==
  /\ ArenaGood(side, r[2], ord) /\ Preserves(a, r[2]) /\ r[2].memo = a.memo
  /\ r[1] \in LiveSlots(r[2]) /\ Level(r[2], r[1]) <= l
  /\ \A s \in Assignments :
       Follow(r[2], ord, r[1], s) = Follow(a, ord, edges[s[ord[l + 1]] + 1], s)

(* create_node returns the node that leads where the edges lead.           *)
LEMMA MakeNodeMeans ==
  ASSUME NEW side \in Sides, NEW a, NEW ord, Headers(ord), ArenaGood(side, a, ord),
         NEW l, NEW edges, Edged(a, ord, l, edges)
  PROVE  Leads(side, a, ord, l, edges, MakeNode(a, l, edges))
<1> DEFINE r == MakeNode(a, l, edges)
           x == ord[l + 1]
<1>1. Len(ord) \in Nat /\ l \in 0 .. Len(ord) - 1 /\ x \in Label
  BY HeaderFacts DEF Edged
<1>2. /\ DOMAIN edges = 1 .. States[x] /\ 1 \in DOMAIN edges
      /\ \A n \in DOMAIN edges : edges[n] \in LiveSlots(a) /\ Level(a, edges[n]) < l
  <2>1. States[x] \in Nat \ {0}
    BY <1>1, VariableAssumption
  <2> QED BY <2>1 DEF Edged
<1>3. /\ ArenaGood(side, r[2], ord) /\ Preserves(a, r[2]) /\ r[2].memo = a.memo
      /\ r[1] \in LiveSlots(r[2])
      /\ \/ Agree(edges) /\ r[1] = edges[1] /\ r[2] = a
         \/ At(r[2], r[1]) = Inner(l, edges)
  <2>1. 1 \in DOMAIN edges /\ Len(ord) \in Nat
    BY <1>1, <1>2
  <2> QED BY <2>1, MakeNodeOK
<1>4. \A s \in Assignments : s[x] + 1 \in DOMAIN edges
  BY <1>1, <1>2, StateFacts
<1> HIDE DEF r
<1>5. CASE Agree(edges) /\ r[1] = edges[1] /\ r[2] = a
  <2>1. \A s \in Assignments : edges[s[x] + 1] = r[1]
    BY <1>4, <1>5 DEF Agree
  <2>2. Level(a, r[1]) <= l
    BY <1>1, <1>2, <1>5, NodeFacts
  <2> QED BY <1>3, <1>5, <2>1, <2>2 DEF r, Leads
<1>6. CASE At(r[2], r[1]) = Inner(l, edges)
  <2>1. IsInner(r[2], r[1]) /\ Level(r[2], r[1]) = l /\ At(r[2], r[1]).edges = edges
    BY <1>6, NodeShapes DEF IsInner, Level
  <2>2. ASSUME NEW s \in Assignments
        PROVE  Follow(r[2], ord, r[1], s) = Follow(a, ord, edges[s[x] + 1], s)
    <3>1. EdgeTaken(r[2], ord, r[1], s) = edges[s[x] + 1]
      BY <2>1 DEF EdgeTaken
    <3>2. Follow(r[2], ord, r[1], s) = Follow(r[2], ord, edges[s[x] + 1], s)
      BY <1>3, <2>1, <3>1, FollowUnfold
    <3>3. edges[s[x] + 1] \in LiveSlots(a)
      BY <1>2, <1>4
    <3>4. \A i \in LiveSlots(a) : Level(a, i) < Len(ord)
      BY NodeFacts
    <3> QED BY <1>3, <3>2, <3>3, <3>4, FollowKept, HeaderFacts
  <2>3. Level(r[2], r[1]) <= l
    BY <1>1, <2>1
  <2> QED BY <1>3, <2>2, <2>3 DEF r, Leads
<1> QED BY <1>3, <1>5, <1>6

(* value returns the leaf of the value.                                    *)
LEMMA ValueNodeMeans ==
  ASSUME NEW a, NEW ord, Headers(ord), ArenaGood("v", a, ord), NEW v \in Int
  PROVE  LET r == ValueNode(a, v)
         IN /\ ArenaGood("v", r[2], ord) /\ Preserves(a, r[2]) /\ r[2].memo = a.memo
            /\ r[1] \in LiveSlots(r[2]) /\ Level(r[2], r[1]) = -1
            /\ \A s \in Assignments : Follow(r[2], ord, r[1], s) = v
<1> DEFINE r == ValueNode(a, v)
<1>1. /\ ArenaGood("v", r[2], ord) /\ Preserves(a, r[2]) /\ r[2].memo = a.memo
      /\ r[1] \in LiveSlots(r[2]) /\ At(r[2], r[1]) = Leaf(v)
  BY ValueNodeOK, HeaderFacts
<1> HIDE DEF r
<1>2. ~ IsInner(r[2], r[1]) /\ Level(r[2], r[1]) = -1 /\ Outcome(r[2], r[1]) = v
  BY <1>1, NodeShapes DEF IsInner, Level, Outcome
<1>3. \A s \in Assignments : Follow(r[2], ord, r[1], s) = v
  BY <1>1, <1>2, FollowUnfold DEF Sides
<1> QED BY <1>1, <1>2, <1>3 DEF r

----------------------------------------------------------------------------
(* What each recursive operation allows, spelled out.                      *)
AllowedFor(op, o) == Allowed(Defined(op), Kinds(op), o)

Unless(p, w) == IF p THEN {w} ELSE {}

LEMMA OperandsOf ==
  /\ Operands("not") = {1}
  /\ \A op \in {"ite", "vite"} : Operands(op) = {1, 2, 3}
  /\ \A op \in Recursive \ {"not", "ite", "vite"} : Operands(op) = {1, 2}
<1>1. \A op \in Recursive : Arity(op) \in {1, 2, 3}
  BY DEF Arity
<1>2. Arity("not") = 1 /\ \A op \in {"ite", "vite"} : Arity(op) = 3
  BY DEF Arity
<1>3. \A op \in Recursive \ {"not", "ite", "vite"} : Arity(op) = 2
  BY DEF Arity
<1>4. 1 .. 1 = {1} /\ 1 .. 2 = {1, 2} /\ 1 .. 3 = {1, 2, 3}
  OBVIOUS
<1> QED BY <1>2, <1>3, <1>4 DEF Operands

LEMMA SidesOf ==
  /\ \A op \in Recursive : ResultSide(op) \in Sides /\ \A k : ArgSide(op, k) \in Sides
  /\ \A op \in Logic : ResultSide(op) = "b" /\ \A k : ArgSide(op, k) = "b"
  /\ \A op \in Arithmetic : ResultSide(op) = "v" /\ \A k : ArgSide(op, k) = "v"
  /\ \A op \in {"veq", "vlt"} : ResultSide(op) = "b" /\ \A k : ArgSide(op, k) = "v"
  /\ ResultSide("vite") = "v" /\ ArgSide("vite", 1) = "b"
  /\ ArgSide("vite", 2) = "v" /\ ArgSide("vite", 3) = "v"
  BY DEF ResultSide, ArgSide, Recursive, Logic, Arithmetic, Crossing, Sides

LEMMA AllowedByNot ==
  ASSUME NEW o, DOMAIN o = {1}
  PROVE  AllowedFor("not", o) = {IF o[1] = Undet THEN Undet ELSE Truth(o[1] = 0)}
<1>1. Kinds("not") = [k \in {1} |-> "b"] /\ Defined("not") = "not"
  BY OperandsOf, SidesOf DEF Kinds, Defined, Logic
<1>2. OutcomeOf("not", [k \in {1} |-> "b"], o) = LogicOf("not", o)
  BY DEF OutcomeOf, Logic
<1>3. LogicOf("not", o) = IF o[1] = Undet THEN Undet ELSE Truth(o[1] = 0)
  BY DEF LogicOf
<1>4. ShortcutsOf("not", [k \in {1} |-> "b"], o) = {}
  BY DEF ShortcutsOf
<1> QED BY <1>1, <1>2, <1>3, <1>4 DEF AllowedFor, Allowed

LEMMA AllowedByConnective ==
  ASSUME NEW o, DOMAIN o = {1, 2}
  PROVE  LET undet == o[1] = Undet \/ o[2] = Undet
         IN /\ AllowedFor("and", o) =
                 {IF undet THEN Undet ELSE Truth(o[1] = 1 /\ o[2] = 1)}
                   \cup Unless(o[1] = 0 \/ o[2] = 0, 0)
            /\ AllowedFor("or", o) =
                 {IF undet THEN Undet ELSE Truth(o[1] = 1 \/ o[2] = 1)}
                   \cup Unless(o[1] = 1 \/ o[2] = 1, 1)
            /\ AllowedFor("xor", o) =
                 {IF undet THEN Undet ELSE Truth(o[1] # o[2])}
                   \cup Unless(o[1] = Undet /\ o[2] = Undet, 0)
<1> DEFINE undet == o[1] = Undet \/ o[2] = Undet
           kinds == [k \in {1, 2} |-> "b"]
<1>1. \A op \in {"and", "or", "xor"} : Kinds(op) = kinds /\ Defined(op) = op
  BY OperandsOf, SidesOf DEF Kinds, Defined, Logic, Recursive
<1>2. \A op \in {"and", "or", "xor"} : OutcomeOf(op, kinds, o) = LogicOf(op, o)
  BY DEF OutcomeOf, Logic
<1>3. /\ LogicOf("and", o) = IF undet THEN Undet ELSE Truth(o[1] = 1 /\ o[2] = 1)
      /\ LogicOf("or", o) = IF undet THEN Undet ELSE Truth(o[1] = 1 \/ o[2] = 1)
      /\ LogicOf("xor", o) = IF undet THEN Undet ELSE Truth(o[1] # o[2])
  BY DEF LogicOf
<1>4. /\ ShortcutsOf("and", kinds, o) = Unless(o[1] = 0 \/ o[2] = 0, 0)
      /\ ShortcutsOf("or", kinds, o) = Unless(o[1] = 1 \/ o[2] = 1, 1)
      /\ ShortcutsOf("xor", kinds, o) = Unless(o[1] = Undet /\ o[2] = Undet, 0)
  BY DEF ShortcutsOf, Unless, Truth
<1> QED BY <1>1, <1>2, <1>3, <1>4 DEF AllowedFor, Allowed

LEMMA AllowedByChoice ==
  ASSUME NEW o, DOMAIN o = {1, 2, 3}, NEW op \in {"ite", "vite"}
  PROVE  AllowedFor(op, o) =
           {IF o[1] = Undet THEN Undet ELSE IF o[1] = 1 THEN o[2] ELSE o[3]}
             \cup Unless(o[1] = Undet /\ o[2] = o[3], o[2])
<1> DEFINE kinds == Kinds(op)
<1>1. DOMAIN kinds = {1, 2, 3} /\ kinds[1] = "b" /\ Defined(op) = "ite"
  BY OperandsOf, SidesOf DEF Kinds, Defined, Logic
<1> HIDE DEF kinds
<1>2. OutcomeOf("ite", kinds, o) = LogicOf("ite", o)
  BY <1>1 DEF OutcomeOf
<1>3. LogicOf("ite", o) = IF o[1] = Undet THEN Undet ELSE IF o[1] = 1 THEN o[2] ELSE o[3]
  BY DEF LogicOf
<1>4. ShortcutsOf("ite", kinds, o) = Unless(o[1] = Undet /\ o[2] = o[3], o[2])
  BY <1>1 DEF ShortcutsOf, Unless
<1> QED BY <1>1, <1>2, <1>3, <1>4 DEF AllowedFor, Allowed, kinds

LEMMA AllowedByValues ==
  ASSUME NEW o, DOMAIN o = {1, 2}
  PROVE  LET known2 == o[1] # Undet /\ o[2] # Undet
         IN /\ \A op \in Arithmetic : AllowedFor(op, o) = {ArithmeticOf(op, o[1], o[2])}
            /\ AllowedFor("veq", o) = {Truth(known2 /\ o[1] = o[2])}
            /\ AllowedFor("vlt", o) = {Truth(known2 /\ o[1] < o[2])}
<1> DEFINE known2 == o[1] # Undet /\ o[2] # Undet
           kinds == [k \in {1, 2} |-> "v"]
<1>1. /\ \A op \in Arithmetic : Kinds(op) = kinds /\ Defined(op) = op
      /\ Kinds("veq") = kinds /\ Defined("veq") = "eq"
      /\ Kinds("vlt") = kinds /\ Defined("vlt") = "lt"
  BY OperandsOf, SidesOf DEF Kinds, Defined, Arithmetic, Recursive, Crossing
<1>2. /\ \A op \in Arithmetic : OutcomeOf(op, kinds, o) = ArithmeticOf(op, o[1], o[2])
      /\ OutcomeOf("eq", kinds, o) = ComparisonOf("eq", o[1], o[2])
      /\ OutcomeOf("lt", kinds, o) = ComparisonOf("lt", o[1], o[2])
  BY DEF OutcomeOf, Arithmetic, Comparison
<1>3. \A op \in Arithmetic \cup {"eq", "lt"} : ShortcutsOf(op, kinds, o) = {}
  BY DEF ShortcutsOf, Arithmetic
<1>4. /\ ComparisonOf("eq", o[1], o[2]) = Truth(known2 /\ o[1] = o[2])
      /\ ComparisonOf("lt", o[1], o[2]) = Truth(known2 /\ o[1] < o[2])
  BY DEF ComparisonOf
<1> HIDE DEF kinds
<1> QED BY <1>1, <1>2, <1>3, <1>4 DEF AllowedFor, Allowed

----------------------------------------------------------------------------
(* Arithmetic: the rounding of a quotient, and the other operations.       *)

LEMMA SizeFacts ==
  /\ \A n \in Int : Size(n) \in Nat /\ (n # 0 => Size(n) >= 1)
  /\ \A n \in Int, y \in Int : n # 0 => Size(y) <= Size(n * y)
<1>1. \A n \in Int : Size(n) \in Nat /\ (n # 0 => Size(n) >= 1)
  BY DEF Size
<1>2. ASSUME NEW n \in Int, NEW y \in Int, n # 0
      PROVE  Size(y) <= Size(n * y)
  <2>1. \A p \in Nat, q \in Nat : p >= 1 => q <= p * q
    <3> SUFFICES ASSUME NEW p \in Nat, NEW q \in Nat, p >= 1 PROVE q <= p * q
      OBVIOUS
    <3>1. p * q = (p - 1) * q + q /\ (p - 1) * q >= 0
      OBVIOUS
    <3> QED BY <3>1
  <2>2. Size(n) \in Nat /\ Size(y) \in Nat /\ Size(n) >= 1
    BY <1>1, <1>2
  <2>3. Size(n * y) = Size(n) * Size(y)
    <3>1. /\ (-n) * y = -(n * y) /\ n * (-y) = -(n * y) /\ (-n) * (-y) = n * y
          /\ n * y \in Int
      OBVIOUS
    <3>2. /\ n >= 0 /\ y >= 0 => n * y >= 0
          /\ n < 0 /\ y < 0 => n * y >= 0
          /\ n >= 0 /\ y < 0 => n * y <= 0
          /\ n < 0 /\ y >= 0 => n * y <= 0
      OBVIOUS
    <3> QED BY <3>1, <3>2 DEF Size
  <2> QED BY <2>1, <2>2, <2>3
<1> QED BY <1>1, <1>2

(* What is left by the quotient.                                           *)
LeavesLittle(x, y, q) ==
  LET r == x - q * y IN Size(r) < Size(y) /\ (r = 0 \/ (r > 0) = (x > 0))

LEMMA QuotientLeavesLittle ==
  ASSUME NEW x \in Int, NEW y \in Int, y # 0
  PROVE  /\ Quotient(x, y) \in -Size(x) .. Size(x)
         /\ LeavesLittle(x, y, Quotient(x, y))
<1> DEFINE X == Size(x)
           Y == Size(y)
           d == X \div Y
           m == X % Y
<1>1. X \in Nat /\ Y \in Nat /\ Y >= 1
  BY SizeFacts
<1>2. d \in Nat /\ m \in 0 .. Y - 1 /\ X = Y * d + m
  <2> HIDE DEF X, Y
  <2> QED BY <1>1
<1>3. d <= X
  <2>1. Y * d >= d
    <3>1. Y * d = (Y - 1) * d + d /\ (Y - 1) * d >= 0
      <4> HIDE DEF X, Y, d, m
      <4> QED BY <1>1, <1>2
    <3> HIDE DEF X, Y, d, m
    <3> QED BY <1>1, <1>2, <3>1
  <2> HIDE DEF X, Y, d, m
  <2> QED BY <1>1, <1>2, <2>1
<1>4. Quotient(x, y) = IF (x < 0) = (y < 0) THEN d ELSE -d
  BY DEF Quotient
<1>5. /\ x = IF x < 0 THEN -X ELSE X
      /\ y = IF y < 0 THEN -Y ELSE Y
      /\ x > 0 <=> ~ (x < 0) /\ X # 0
  BY DEF Size
<1> DEFINE q == Quotient(x, y)
<1> HIDE DEF X, Y, d, m
<1>6. q \in Int /\ q * y = IF x < 0 THEN -(Y * d) ELSE Y * d
  <2>1. Y * d = d * Y /\ d * (-Y) = -(d * Y) /\ (-d) * Y = -(d * Y) /\ (-d) * (-Y) = d * Y
    BY <1>1, <1>2
  <2> HIDE DEF q
  <2>2. q = IF (x < 0) = (y < 0) THEN d ELSE -d
    BY <1>4 DEF q
  <2> QED BY <1>2, <1>5, <2>1, <2>2
<1>7. x - q * y = IF x < 0 THEN -m ELSE m
  <2> DEFINE p == Y * d
  <2>1. p \in Int
    BY <1>1, <1>2
  <2> HIDE DEF p, q
  <2> QED BY <1>2, <1>5, <1>6, <2>1 DEF p
<1>8. Size(x - q * y) = m
  BY <1>2, <1>7 DEF Size
<1>9. m # 0 => X # 0
  BY <1>1, <1>2, <1>3
<1> HIDE DEF q
<1>10. LeavesLittle(x, y, q)
  BY <1>1, <1>2, <1>5, <1>7, <1>8, <1>9 DEF LeavesLittle, Y
<1> QED BY <1>1, <1>2, <1>3, <1>4, <1>10 DEF q, X

LEMMA OneQuotient ==
  ASSUME NEW x \in Int, NEW y \in Int, y # 0, NEW p \in Int, NEW q \in Int,
         LeavesLittle(x, y, p), LeavesLittle(x, y, q)
  PROVE  p = q
<1> DEFINE u == x - p * y
           v == x - q * y
<1>1. p * y \in Int /\ q * y \in Int /\ (q - p) * y = q * y - p * y
  OBVIOUS
<1>2. u \in Int /\ v \in Int /\ (q - p) * y = u - v
  BY <1>1
<1>3. /\ Size(u) < Size(y) /\ (u = 0 \/ (u > 0) = (x > 0))
      /\ Size(v) < Size(y) /\ (v = 0 \/ (v > 0) = (x > 0))
  BY DEF LeavesLittle
<1> HIDE DEF u, v
<1>4. Size(u - v) < Size(y)
  BY <1>2, <1>3, SizeFacts DEF Size
<1> SUFFICES ASSUME p # q PROVE FALSE
  OBVIOUS
<1>5. q - p \in Int /\ q - p # 0
  OBVIOUS
<1>6. Size(y) <= Size((q - p) * y)
  BY <1>5, SizeFacts
<1>7. Size(y) \in Nat /\ Size(u - v) \in Nat
  BY <1>2, SizeFacts
<1> QED BY <1>2, <1>4, <1>6, <1>7

(* Rust's division is the mathematical one, rounded towards zero.          *)
LEMMA QuotientIsDivided ==
  ASSUME NEW x \in Int, NEW y \in Int, y # 0
  PROVE  Quotient(x, y) = Divided(x, y) /\ Divided(x, y) \in Int
<1> DEFINE span == -Size(x) .. Size(x)
<1>1. Quotient(x, y) \in span /\ LeavesLittle(x, y, Quotient(x, y))
  BY QuotientLeavesLittle
<1>2. Divided(x, y) = CHOOSE q \in span : LeavesLittle(x, y, q)
  BY DEF Divided, LeavesLittle
<1>3. span \subseteq Int
  BY SizeFacts
<1> HIDE DEF span
<1>4. Divided(x, y) \in span /\ LeavesLittle(x, y, Divided(x, y))
  BY <1>1, <1>2, Zenon
<1>5. Quotient(x, y) = Divided(x, y)
  BY <1>1, <1>3, <1>4, OneQuotient
<1> QED BY <1>3, <1>4, <1>5

LEMMA ComputeIsExact ==
  ASSUME NEW op \in Arithmetic, NEW x \in Int, NEW y \in Int, op = "div" => y # 0
  PROVE  Compute(op, x, y) \in Int /\ Compute(op, x, y) = ArithmeticOf(op, x, y)
<1>1. x # Undet /\ y # Undet
  BY UndetAssumption
<1>2. CASE op = "div"
  BY <1>1, <1>2, QuotientIsDivided DEF Compute, ArithmeticOf
<1>3. CASE op \in {"add", "sub", "mul"}
  BY <1>1, <1>3 DEF Compute, ArithmeticOf
<1>4. Min({x, y}) = (IF x < y THEN x ELSE y) /\ Max({x, y}) = (IF x < y THEN y ELSE x)
  BY DEF Min, Max
<1>5. CASE op = "min"
  BY <1>1, <1>4, <1>5 DEF Compute, ArithmeticOf
<1>6. CASE op = "max"
  BY <1>1, <1>4, <1>6 DEF Compute, ArithmeticOf
<1> QED BY <1>2, <1>3, <1>5, <1>6 DEF Arithmetic

----------------------------------------------------------------------------
(* Answers in a forest, with what keeps the recursion going: a result lies *)
(* no higher than some operand.                                            *)
ArenasGood(st, ord) ==
  Headers(ord) /\ \A side \in Sides : ArenaGood(side, st[side], ord)

InPlace(st, op, args) ==
  /\ DOMAIN args = Operands(op)
  /\ \A k \in Operands(op) : args[k] \in LiveSlots(st[ArgSide(op, k)])

OutcomesOf(st, ord, op, args, s) ==
  [k \in Operands(op) |-> Follow(st[ArgSide(op, k)], ord, args[k], s)]

Sound(st, ord, op, args, r) ==
  /\ InPlace(st, op, args)
  /\ r \in LiveSlots(st[ResultSide(op)])
  /\ \E k \in Operands(op) : Level(st[ResultSide(op)], r) <= OperandLevel(st, op, args, k)
  /\ \A s \in Assignments :
       Follow(st[ResultSide(op)], ord, r, s) \in AllowedFor(op, OutcomesOf(st, ord, op, args, s))

(* One forest becomes another: every arena only grows, or only loses slots.*)
Moved(st, ord, tt, more) ==
  /\ ArenasGood(st, ord) /\ ArenasGood(tt, more) /\ Extends(ord, more)
  /\ \A side \in Sides :
       Preserves(st[side], tt[side]) \/ (ord = more /\ Preserves(tt[side], st[side]))

(* A slot in use before and after is as it was and leads where it led.     *)
LEMMA MovedAlike ==
  ASSUME NEW st, NEW ord, NEW tt, NEW more, Moved(st, ord, tt, more), NEW side \in Sides,
         NEW i \in LiveSlots(st[side]) \cap LiveSlots(tt[side])
  PROVE  /\ Level(tt[side], i) = Level(st[side], i)
         /\ \A s \in Assignments : Follow(tt[side], more, i, s) = Follow(st[side], ord, i, s)
<1> DEFINE a == st[side]
           b == tt[side]
<1>1. /\ Headers(ord) /\ ArenaGood(side, a, ord) /\ Headers(more) /\ ArenaGood(side, b, more)
      /\ Extends(ord, more)
      /\ Preserves(a, b) \/ (ord = more /\ Preserves(b, a))
  BY DEF Moved, ArenasGood
<1> HIDE DEF a, b
<1>2. i \in LiveSlots(a) /\ i \in LiveSlots(b)
  BY DEF a, b
<1>3. At(b, i) = At(a, i)
  BY <1>1, <1>2 DEF Preserves
<1>4. Level(b, i) = Level(a, i)
  BY <1>3, SameNode
<1>5. ASSUME NEW s \in Assignments
      PROVE  Follow(b, more, i, s) = Follow(a, ord, i, s)
  <2>1. \A j \in LiveSlots(a) : Level(a, j) \in Int /\ Level(a, j) < Len(ord)
    BY <1>1, NodeFacts
  <2>2. \A j \in LiveSlots(b) : Level(b, j) < Len(more)
    BY <1>1, NodeFacts
  <2>3. CASE Preserves(a, b)
    <3>1. \A j \in LiveSlots(a) : Level(a, j) < Len(more)
      BY <1>1, <2>1 DEF Extends
    <3> QED BY <1>1, <1>2, <2>3, <3>1, FollowKept
  <2>4. CASE ord = more /\ Preserves(b, a)
    BY <1>1, <1>2, <2>2, <2>4, FollowKept
  <2> QED BY <1>1, <2>3, <2>4
<1> QED BY <1>4, <1>5 DEF a, b

(* So do operands that stay in use.                                        *)
LEMMA OperandsMoved ==
  ASSUME NEW st, NEW ord, NEW tt, NEW more, Moved(st, ord, tt, more), NEW op \in Recursive,
         NEW args, InPlace(st, op, args), InPlace(tt, op, args)
  PROVE  /\ \A k \in Operands(op) : OperandLevel(tt, op, args, k) = OperandLevel(st, op, args, k)
         /\ \A s \in Assignments : OutcomesOf(tt, more, op, args, s) = OutcomesOf(st, ord, op, args, s)
<1>1. \A k : ArgSide(op, k) \in Sides
  BY SidesOf
<1>2. \A k \in Operands(op) :
        args[k] \in LiveSlots(st[ArgSide(op, k)]) \cap LiveSlots(tt[ArgSide(op, k)])
  BY DEF InPlace
<1>3. \A k \in Operands(op) :
        /\ OperandLevel(tt, op, args, k) = OperandLevel(st, op, args, k)
        /\ \A s \in Assignments :
             Follow(tt[ArgSide(op, k)], more, args[k], s) = Follow(st[ArgSide(op, k)], ord, args[k], s)
  BY <1>1, <1>2, MovedAlike DEF OperandLevel
<1> QED BY <1>3 DEF OutcomesOf

(* An answer stays one while the slots it names stay in use.               *)
LEMMA SoundMoved ==
  ASSUME NEW st, NEW ord, NEW tt, NEW more, Moved(st, ord, tt, more), NEW op \in Recursive,
         NEW args, NEW r, Sound(st, ord, op, args, r), InPlace(tt, op, args),
         r \in LiveSlots(tt[ResultSide(op)])
  PROVE  Sound(tt, more, op, args, r)
<1>1. ResultSide(op) \in Sides /\ InPlace(st, op, args)
  BY SidesOf DEF Sound
<1>2. r \in LiveSlots(st[ResultSide(op)]) \cap LiveSlots(tt[ResultSide(op)])
  BY DEF Sound
<1>3. /\ Level(tt[ResultSide(op)], r) = Level(st[ResultSide(op)], r)
      /\ \A s \in Assignments :
           Follow(tt[ResultSide(op)], more, r, s) = Follow(st[ResultSide(op)], ord, r, s)
  BY <1>1, <1>2, MovedAlike
<1>4. /\ \A k \in Operands(op) : OperandLevel(tt, op, args, k) = OperandLevel(st, op, args, k)
      /\ \A s \in Assignments : OutcomesOf(tt, more, op, args, s) = OutcomesOf(st, ord, op, args, s)
  BY <1>1, OperandsMoved
<1> QED BY <1>3, <1>4 DEF Sound

(* What the terminals lead to, and what every operand leads to.            *)
LEMMA TerminalsLead ==
  ASSUME NEW st, NEW ord, ArenasGood(st, ord)
  PROVE  /\ {0, 1, 2} \subseteq LiveSlots(st.b) /\ 0 \in LiveSlots(st.v)
         /\ \A i \in {0, 1, 2} : Level(st.b, i) = -1
         /\ Level(st.v, 0) = -1
         /\ \A s \in Assignments : /\ Follow(st.b, ord, 0, s) = 0 /\ Follow(st.b, ord, 1, s) = 1
                                   /\ Follow(st.b, ord, 2, s) = Undet
                                   /\ Follow(st.v, ord, 0, s) = Undet
<1>1. "b" \in Sides /\ "v" \in Sides
  BY DEF Sides
<1>2. Headers(ord) /\ ArenaGood("b", st.b, ord) /\ ArenaGood("v", st.v, ord)
  BY <1>1 DEF ArenasGood
<1>3. /\ {0, 1, 2} \subseteq LiveSlots(st.b)
      /\ Outcome(st.b, 0) = 0 /\ Outcome(st.b, 1) = 1 /\ Outcome(st.b, 2) = Undet
      /\ 0 \in LiveSlots(st.v) /\ Outcome(st.v, 0) = Undet
  BY <1>1, <1>2, LeafFacts
<1>4. \A i \in {0, 1, 2} : ~ IsInner(st.b, i) /\ Level(st.b, i) = -1
  BY <1>1, <1>2, NodeFacts, TerminalsOf
<1>5. ~ IsInner(st.v, 0) /\ Level(st.v, 0) = -1
  BY <1>1, <1>2, NodeFacts, TerminalsOf
<1>6. \A s \in Assignments : \A i \in {0, 1, 2} : Follow(st.b, ord, i, s) = Outcome(st.b, i)
  BY <1>1, <1>2, <1>3, <1>4, FollowUnfold
<1>7. \A s \in Assignments : Follow(st.v, ord, 0, s) = Outcome(st.v, 0)
  BY <1>1, <1>2, <1>3, <1>5, FollowUnfold
<1> QED BY <1>3, <1>4, <1>5, <1>6, <1>7

LEMMA OperandFacts ==
  ASSUME NEW st, NEW ord, ArenasGood(st, ord), NEW op \in Recursive, NEW args,
         InPlace(st, op, args)
  PROVE  /\ \A k \in Operands(op) : /\ args[k] \in LiveSlots(st[ArgSide(op, k)])
                                    /\ OperandLevel(st, op, args, k) \in Int
                                    /\ -1 <= OperandLevel(st, op, args, k)
                                    /\ OperandLevel(st, op, args, k) < Len(ord)
         /\ 1 \in Operands(op) /\ Operands(op) \subseteq {1, 2, 3}
         /\ \A s \in Assignments :
              /\ DOMAIN OutcomesOf(st, ord, op, args, s) = Operands(op)
              /\ \A k \in Operands(op) :
                   /\ OutcomesOf(st, ord, op, args, s)[k] = Follow(st[ArgSide(op, k)], ord, args[k], s)
                   /\ OutcomesOf(st, ord, op, args, s)[k] \in OutcomesIn(ArgSide(op, k))
<1>1. \A k : ArgSide(op, k) \in Sides
  BY SidesOf
<1>2. Headers(ord) /\ \A side \in Sides : ArenaGood(side, st[side], ord)
  BY DEF ArenasGood
<1>3. 1 \in Operands(op) /\ Operands(op) \subseteq {1, 2, 3}
  BY OperandsOf
<1>4. \A k \in Operands(op) : args[k] \in LiveSlots(st[ArgSide(op, k)])
  BY DEF InPlace
<1>5. \A k \in Operands(op) : /\ OperandLevel(st, op, args, k) \in Int
                              /\ -1 <= OperandLevel(st, op, args, k)
                              /\ OperandLevel(st, op, args, k) < Len(ord)
  BY <1>1, <1>2, <1>4, NodeFacts DEF OperandLevel
<1>6. \A s \in Assignments : \A k \in Operands(op) :
        Follow(st[ArgSide(op, k)], ord, args[k], s) \in OutcomesIn(ArgSide(op, k))
  BY <1>1, <1>2, <1>4, OutcomeKinds
<1> QED BY <1>3, <1>4, <1>5, <1>6 DEF OutcomesOf

(* A commutative operation answers for its operands in either order.       *)
LEMMA AllowedSwapped ==
  ASSUME NEW op \in Commutative, NEW o, DOMAIN o = {1, 2}, NEW w, DOMAIN w = {1, 2},
         w[1] = o[2], w[2] = o[1],
         o[1] \in OutcomesIn(ArgSide(op, 1)), o[2] \in OutcomesIn(ArgSide(op, 2))
  PROVE  AllowedFor(op, w) = AllowedFor(op, o)
<1>1. CASE op \in {"and", "or", "xor"}
  BY <1>1, AllowedByConnective DEF Unless, Truth
<1>2. CASE op \in {"add", "mul", "min", "max"}
  <2>1. op \in Arithmetic
    BY <1>2 DEF Arithmetic
  <2>2. AllowedFor(op, w) = {ArithmeticOf(op, w[1], w[2])}
        /\ AllowedFor(op, o) = {ArithmeticOf(op, o[1], o[2])}
    BY <2>1, AllowedByValues
  <2>3. o[1] \in Int \cup {Undet} /\ o[2] \in Int \cup {Undet}
    BY <2>1, SidesOf DEF OutcomesIn
  <2>4. ArithmeticOf(op, o[2], o[1]) = ArithmeticOf(op, o[1], o[2])
    BY <1>2, <2>3 DEF ArithmeticOf
  <2> QED BY <2>2, <2>4
<1> QED BY <1>1, <1>2 DEF Commutative

LEMMA SoundSorted ==
  ASSUME NEW st, NEW ord, ArenasGood(st, ord), NEW op \in Recursive, NEW args,
         DOMAIN args = Operands(op), NEW r, Sound(st, ord, op, Sorted(op, args), r)
  PROVE  Sound(st, ord, op, args, r)
<1>1. CASE Sorted(op, args) = args
  BY <1>1
<1>2. CASE op \in Commutative /\ Sorted(op, args) = <<args[2], args[1]>>
  <2> DEFINE given == <<args[2], args[1]>>
             side == ArgSide(op, 1)
  <2>1. /\ Operands(op) = {1, 2} /\ ArgSide(op, 2) = side /\ side = ResultSide(op)
        /\ given[1] = args[2] /\ given[2] = args[1]
    BY <1>2, OperandsOf, SidesOf DEF Commutative, Logic, Arithmetic
  <2> HIDE DEF given, side
  <2>2. Sound(st, ord, op, given, r)
    BY <1>2 DEF given
  <2>3. InPlace(st, op, given)
    BY <2>2 DEF Sound
  <2>4. InPlace(st, op, args)
    BY <2>1, <2>3 DEF InPlace, side
  <2>5. OperandLevel(st, op, given, 1) = OperandLevel(st, op, args, 2)
        /\ OperandLevel(st, op, given, 2) = OperandLevel(st, op, args, 1)
    BY <2>1 DEF OperandLevel, side
  <2>6. ASSUME NEW s \in Assignments
        PROVE  AllowedFor(op, OutcomesOf(st, ord, op, given, s)) =
                 AllowedFor(op, OutcomesOf(st, ord, op, args, s))
    <3> DEFINE o == OutcomesOf(st, ord, op, args, s)
               w == OutcomesOf(st, ord, op, given, s)
    <3>1. /\ DOMAIN o = {1, 2} /\ DOMAIN w = {1, 2}
          /\ o[1] \in OutcomesIn(ArgSide(op, 1)) /\ o[2] \in OutcomesIn(ArgSide(op, 2))
      <4>1. /\ DOMAIN o = Operands(op) /\ DOMAIN w = Operands(op)
            /\ \A k \in Operands(op) : o[k] \in OutcomesIn(ArgSide(op, k))
        BY <2>3, <2>4, OperandFacts
      <4> QED BY <2>1, <4>1
    <3>2. w[1] = o[2] /\ w[2] = o[1]
      BY <2>1 DEF OutcomesOf, side
    <3> HIDE DEF o, w
    <3> QED BY <1>2, <3>1, <3>2, AllowedSwapped DEF o, w
  <2> QED BY <2>1, <2>2, <2>4, <2>5, <2>6 DEF Sound
<1> QED BY <1>1, <1>2 DEF Sorted

----------------------------------------------------------------------------
(* The arms of a call that decide at once.                                 *)

(* An operand, as the answer to a call.                                    *)
LEMMA OperandAnswers ==
  ASSUME NEW st, NEW ord, ArenasGood(st, ord), NEW op \in Recursive, NEW args,
         InPlace(st, op, args), NEW k \in Operands(op), ArgSide(op, k) = ResultSide(op),
         \A s \in Assignments :
           OutcomesOf(st, ord, op, args, s)[k] \in AllowedFor(op, OutcomesOf(st, ord, op, args, s))
  PROVE  Sound(st, ord, op, args, args[k])
<1>1. args[k] \in LiveSlots(st[ResultSide(op)]) /\ OperandLevel(st, op, args, k) \in Int
      /\ Level(st[ResultSide(op)], args[k]) = OperandLevel(st, op, args, k)
  BY OperandFacts DEF OperandLevel
<1>2. \A s \in Assignments :
        OutcomesOf(st, ord, op, args, s)[k] = Follow(st[ResultSide(op)], ord, args[k], s)
  BY OperandFacts
<1> QED BY <1>1, <1>2 DEF Sound

(* A terminal, as the answer to a call.                                    *)
LEMMA TerminalAnswers ==
  ASSUME NEW st, NEW ord, ArenasGood(st, ord), NEW op \in Recursive, NEW args,
         InPlace(st, op, args), NEW r, r \in LiveSlots(st[ResultSide(op)]),
         Level(st[ResultSide(op)], r) = -1,
         \A s \in Assignments :
           Follow(st[ResultSide(op)], ord, r, s) \in AllowedFor(op, OutcomesOf(st, ord, op, args, s))
  PROVE  Sound(st, ord, op, args, r)
<1>1. 1 \in Operands(op) /\ OperandLevel(st, op, args, 1) \in Int
      /\ -1 <= OperandLevel(st, op, args, 1)
  BY OperandFacts
<1> QED BY <1>1 DEF Sound

(* A choice decided by its condition, or between equal branches.           *)
LEMMA DecideSound ==
  ASSUME NEW st, NEW ord, ArenasGood(st, ord), NEW op \in Recursive, NEW args,
         InPlace(st, op, args), Chosen(op, args) # NoId
  PROVE  Sound(st, ord, op, args, Chosen(op, args))
<1> DEFINE r == Chosen(op, args)
           o(s) == OutcomesOf(st, ord, op, args, s)
           undet == IF op = "ite" THEN 2 ELSE 0
<1>1. op \in {"ite", "vite"} /\ r = ChosenBy(args[1], args[2], args[3], undet)
  BY DEF Chosen, BUndet, VUndet
<1>2. /\ Operands(op) = {1, 2, 3} /\ ArgSide(op, 1) = "b"
      /\ ArgSide(op, 2) = ResultSide(op) /\ ArgSide(op, 3) = ResultSide(op)
  BY <1>1, OperandsOf, SidesOf DEF Logic
<1>3. \A s \in Assignments :
        /\ o(s)[1] = Follow(st.b, ord, args[1], s)
        /\ o(s)[2] = Follow(st[ResultSide(op)], ord, args[2], s)
        /\ o(s)[3] = Follow(st[ResultSide(op)], ord, args[3], s)
        /\ o(s)[1] \in {0, 1, Undet}
        /\ AllowedFor(op, o(s)) =
             {IF o(s)[1] = Undet THEN Undet ELSE IF o(s)[1] = 1 THEN o(s)[2] ELSE o(s)[3]}
               \cup Unless(o(s)[1] = Undet /\ o(s)[2] = o(s)[3], o(s)[2])
  <2> SUFFICES ASSUME NEW s \in Assignments
               PROVE  /\ o(s)[1] = Follow(st.b, ord, args[1], s)
                      /\ o(s)[2] = Follow(st[ResultSide(op)], ord, args[2], s)
                      /\ o(s)[3] = Follow(st[ResultSide(op)], ord, args[3], s)
                      /\ o(s)[1] \in {0, 1, Undet}
                      /\ AllowedFor(op, o(s)) =
                           {IF o(s)[1] = Undet THEN Undet
                            ELSE IF o(s)[1] = 1 THEN o(s)[2] ELSE o(s)[3]}
                             \cup Unless(o(s)[1] = Undet /\ o(s)[2] = o(s)[3], o(s)[2])
    OBVIOUS
  <2>1. /\ DOMAIN o(s) = Operands(op)
        /\ \A k \in Operands(op) : o(s)[k] = Follow(st[ArgSide(op, k)], ord, args[k], s)
        /\ \A k \in Operands(op) : o(s)[k] \in OutcomesIn(ArgSide(op, k))
    BY OperandFacts
  <2> HIDE DEF o
  <2>2. DOMAIN o(s) = {1, 2, 3}
    BY <1>2, <2>1
  <2> QED BY <1>1, <1>2, <2>1, <2>2, AllowedByChoice DEF OutcomesIn
<1> HIDE DEF o, r
<1>4. /\ {0, 1, 2} \subseteq LiveSlots(st.b)
      /\ \A s \in Assignments : /\ Follow(st.b, ord, 0, s) = 0 /\ Follow(st.b, ord, 1, s) = 1
                                /\ Follow(st.b, ord, 2, s) = Undet
      /\ undet \in LiveSlots(st[ResultSide(op)]) /\ Level(st[ResultSide(op)], undet) = -1
      /\ \A s \in Assignments : Follow(st[ResultSide(op)], ord, undet, s) = Undet
  <2>1. ResultSide("ite") = "b" /\ ResultSide("vite") = "v"
    BY SidesOf DEF Logic
  <2> QED BY <1>1, <2>1, TerminalsLead
<1> HIDE DEF undet
<1>5. 0 # Undet /\ 1 # Undet
  BY UndetAssumption
<1>6. CASE args[1] = 1
  <2>1. r = args[2]
    BY <1>1, <1>6 DEF ChosenBy, One, Zero, BUndet
  <2>2. \A s \in Assignments : o(s)[2] \in AllowedFor(op, o(s))
    BY <1>3, <1>4, <1>5, <1>6
  <2> QED BY <1>2, <2>1, <2>2, OperandAnswers DEF o, r
<1>7. CASE args[1] = 0
  <2>1. r = args[3]
    BY <1>1, <1>7 DEF ChosenBy, One, Zero, BUndet
  <2>2. \A s \in Assignments : o(s)[3] \in AllowedFor(op, o(s))
    BY <1>3, <1>4, <1>5, <1>7
  <2> QED BY <1>2, <2>1, <2>2, OperandAnswers DEF o, r
<1>8. CASE args[1] = 2
  <2>1. r = undet
    BY <1>1, <1>8 DEF ChosenBy, One, Zero, BUndet
  <2>2. \A s \in Assignments : Undet \in AllowedFor(op, o(s))
    BY <1>3, <1>4, <1>8
  <2> QED BY <1>4, <2>1, <2>2, TerminalAnswers DEF o, r
<1>9. CASE args[1] \notin {0, 1, 2}
  <2>1. args[2] = args[3] /\ r = args[2]
    BY <1>1, <1>9 DEF ChosenBy, One, Zero, BUndet, r
  <2>2. \A s \in Assignments : o(s)[2] \in AllowedFor(op, o(s))
    BY <1>3, <1>5, <2>1 DEF Unless
  <2> QED BY <1>2, <2>1, <2>2, OperandAnswers DEF o, r
<1> QED BY <1>6, <1>7, <1>8, <1>9 DEF r

(* The two operands of an operation other than not and the choices.        *)
LEMMA TwoOperands ==
  ASSUME NEW st, NEW ord, ArenasGood(st, ord), NEW op \in Recursive \ {"not", "ite", "vite"},
         NEW args, InPlace(st, op, args), NEW s \in Assignments
  PROVE  LET side == ArgSide(op, 1)
             o == OutcomesOf(st, ord, op, args, s)
         IN /\ Operands(op) = {1, 2} /\ ArgSide(op, 2) = side /\ DOMAIN o = {1, 2}
            /\ args[1] \in LiveSlots(st[side]) /\ args[2] \in LiveSlots(st[side])
            /\ o[1] = Follow(st[side], ord, args[1], s) /\ o[1] \in OutcomesIn(side)
            /\ o[2] = Follow(st[side], ord, args[2], s) /\ o[2] \in OutcomesIn(side)
<1> DEFINE o == OutcomesOf(st, ord, op, args, s)
<1>1. Operands(op) = {1, 2}
  BY OperandsOf
<1>2. ArgSide(op, 2) = ArgSide(op, 1)
  BY SidesOf DEF Recursive, Crossing
<1>3. /\ DOMAIN o = Operands(op)
      /\ \A k \in Operands(op) : /\ args[k] \in LiveSlots(st[ArgSide(op, k)])
                                 /\ o[k] = Follow(st[ArgSide(op, k)], ord, args[k], s)
                                 /\ o[k] \in OutcomesIn(ArgSide(op, k))
  BY OperandFacts
<1> HIDE DEF o
<1> QED BY <1>1, <1>2, <1>3 DEF o

(* Division of a constant by the constant zero.                            *)
LEMMA DivideSound ==
  ASSUME NEW st, NEW ord, ArenasGood(st, ord), NEW op \in Recursive, NEW args,
         InPlace(st, op, args), DividesByZero(st, op, args)
  PROVE  Sound(st, ord, op, args, VUndet)
<1>1. /\ op = "div" /\ op \in Arithmetic /\ op \in Recursive \ {"not", "ite", "vite"}
      /\ ~ IsInner(st.v, args[2]) /\ Outcome(st.v, args[2]) = 0
      /\ ArgSide(op, 1) = "v" /\ ResultSide(op) = "v"
  BY SidesOf DEF DividesByZero, Arithmetic
<1>2. ASSUME NEW s \in Assignments
      PROVE  Undet \in AllowedFor(op, OutcomesOf(st, ord, op, args, s))
  <2> DEFINE o == OutcomesOf(st, ord, op, args, s)
  <2>1. DOMAIN o = {1, 2} /\ args[2] \in LiveSlots(st.v) /\ o[2] = Follow(st.v, ord, args[2], s)
    BY <1>1, TwoOperands
  <2> HIDE DEF o
  <2>2. Headers(ord) /\ "v" \in Sides /\ ArenaGood("v", st.v, ord)
    BY DEF ArenasGood, Sides
  <2>3. o[2] = 0
    BY <1>1, <2>1, <2>2, FollowUnfold
  <2>4. AllowedFor(op, o) = {ArithmeticOf(op, o[1], o[2])}
    BY <1>1, <2>1, AllowedByValues
  <2>5. ArithmeticOf(op, o[1], 0) = Undet
    BY <1>1 DEF ArithmeticOf
  <2> QED BY <2>3, <2>4, <2>5 DEF o
<1>3. 0 \in LiveSlots(st.v) /\ Level(st.v, 0) = -1
      /\ \A s \in Assignments : Follow(st.v, ord, 0, s) = Undet
  BY TerminalsLead
<1> QED BY <1>1, <1>2, <1>3, TerminalAnswers DEF VUndet

(* What one operand, or two equal ones, decide.                            *)
LEMMA SettleNotSound ==
  ASSUME NEW st, NEW ord, ArenasGood(st, ord), NEW args, InPlace(st, "not", args),
         Negated(args[1]) # NoId
  PROVE  Sound(st, ord, "not", args, Negated(args[1]))
<1> DEFINE r == Negated(args[1])
<1>1. "not" \in Recursive /\ ResultSide("not") = "b" /\ ArgSide("not", 1) = "b"
  BY SidesOf DEF Recursive, Logic
<1>2. \/ args[1] = 0 /\ r = 1
      \/ args[1] = 1 /\ r = 0
      \/ args[1] = 2 /\ r = 2
  BY DEF Negated, Zero, One, BUndet
<1> HIDE DEF r
<1>3. ASSUME NEW s \in Assignments
      PROVE  Follow(st.b, ord, r, s) \in AllowedFor("not", OutcomesOf(st, ord, "not", args, s))
  <2> DEFINE o == OutcomesOf(st, ord, "not", args, s)
  <2>1. DOMAIN o = {1} /\ o[1] = Follow(st.b, ord, args[1], s)
    <3>1. Operands("not") = {1}
      BY OperandsOf
    <3>2. /\ DOMAIN o = Operands("not")
          /\ \A k \in Operands("not") : o[k] = Follow(st[ArgSide("not", k)], ord, args[k], s)
      BY <1>1, OperandFacts
    <3> QED BY <1>1, <3>1, <3>2
  <2> HIDE DEF o
  <2>2. AllowedFor("not", o) = {IF o[1] = Undet THEN Undet ELSE Truth(o[1] = 0)}
    BY <2>1, AllowedByNot
  <2> QED BY <1>2, <2>1, <2>2, TerminalsLead, UndetAssumption DEF Truth, o
<1>4. r \in LiveSlots(st.b) /\ Level(st.b, r) = -1
  BY <1>2, TerminalsLead
<1> QED BY <1>1, <1>3, <1>4, TerminalAnswers DEF r

LEMMA SettleLogicSound ==
  ASSUME NEW st, NEW ord, ArenasGood(st, ord), NEW op \in {"and", "or", "xor"}, NEW args,
         InPlace(st, op, args), SettledLogic(op, args[1], args[2]) # NoId
  PROVE  Sound(st, ord, op, args, SettledLogic(op, args[1], args[2]))
<1> DEFINE f == args[1]
           g == args[2]
           r == SettledLogic(op, f, g)
           o(s) == OutcomesOf(st, ord, op, args, s)
<1>1. /\ op \in Recursive \ {"not", "ite", "vite"} /\ op \in Logic
      /\ ArgSide(op, 1) = "b" /\ ArgSide(op, 2) = "b" /\ ResultSide(op) = "b"
  BY SidesOf DEF Recursive, Logic
<1>2. \A s \in Assignments :
        /\ DOMAIN o(s) = {1, 2}
        /\ o(s)[1] = Follow(st.b, ord, f, s) /\ o(s)[1] \in {0, 1, Undet}
        /\ o(s)[2] = Follow(st.b, ord, g, s) /\ o(s)[2] \in {0, 1, Undet}
  <2> SUFFICES ASSUME NEW s \in Assignments
               PROVE  /\ DOMAIN o(s) = {1, 2}
                      /\ o(s)[1] = Follow(st.b, ord, f, s) /\ o(s)[1] \in {0, 1, Undet}
                      /\ o(s)[2] = Follow(st.b, ord, g, s) /\ o(s)[2] \in {0, 1, Undet}
    OBVIOUS
  <2>1. OutcomesIn("b") = {0, 1, Undet}
    BY DEF OutcomesIn
  <2> QED BY <1>1, <2>1, TwoOperands
<1> HIDE DEF o
<1>3. /\ 0 # Undet /\ 1 # Undet /\ {0, 1, 2} \subseteq LiveSlots(st.b)
      /\ \A i \in {0, 1, 2} : Level(st.b, i) = -1
      /\ \A s \in Assignments : /\ Follow(st.b, ord, 0, s) = 0 /\ Follow(st.b, ord, 1, s) = 1
                                /\ Follow(st.b, ord, 2, s) = Undet
  BY TerminalsLead, UndetAssumption
<1>4. /\ Operands(op) = {1, 2}
      /\ \A s \in Assignments :
           /\ LET undet == o(s)[1] = Undet \/ o(s)[2] = Undet
              IN /\ AllowedFor("and", o(s)) =
                      {IF undet THEN Undet ELSE Truth(o(s)[1] = 1 /\ o(s)[2] = 1)}
                        \cup Unless(o(s)[1] = 0 \/ o(s)[2] = 0, 0)
                 /\ AllowedFor("or", o(s)) =
                      {IF undet THEN Undet ELSE Truth(o(s)[1] = 1 \/ o(s)[2] = 1)}
                        \cup Unless(o(s)[1] = 1 \/ o(s)[2] = 1, 1)
                 /\ AllowedFor("xor", o(s)) =
                      {IF undet THEN Undet ELSE Truth(o(s)[1] # o(s)[2])}
                        \cup Unless(o(s)[1] = Undet /\ o(s)[2] = Undet, 0)
  BY <1>1, <1>2, AllowedByConnective, OperandsOf
(* An operand stands, if its outcomes are allowed; so does a terminal.     *)
<1>5. /\ (\A s \in Assignments : o(s)[1] \in AllowedFor(op, o(s))) => Sound(st, ord, op, args, f)
      /\ (\A s \in Assignments : o(s)[2] \in AllowedFor(op, o(s))) => Sound(st, ord, op, args, g)
  BY <1>1, <1>4, OperandAnswers DEF o
<1>6. ASSUME NEW t \in {0, 1, 2}, NEW w,
             \A s \in Assignments : Follow(st.b, ord, t, s) = w /\ w \in AllowedFor(op, o(s))
      PROVE  Sound(st, ord, op, args, t)
  BY <1>1, <1>3, <1>6, TerminalAnswers DEF o
<1> DEFINE other(t) == IF f = t THEN g ELSE f
<1>7. CASE 2 \in {f, g}
  <2>1. r = 2
    BY <1>7 DEF SettledLogic, BUndet, Zero, One
  <2>2. \A s \in Assignments : Undet \in AllowedFor(op, o(s))
    BY <1>2, <1>3, <1>4, <1>7
  <2> QED BY <1>3, <1>6, <2>1, <2>2
<1>8. CASE 2 \notin {f, g} /\ op = "and" /\ 0 \in {f, g}
  <2>1. r = 0
    BY <1>8 DEF SettledLogic, BUndet, Zero, One
  <2>2. \A s \in Assignments : 0 \in AllowedFor(op, o(s))
    BY <1>2, <1>3, <1>4, <1>8 DEF Unless
  <2> QED BY <1>3, <1>6, <2>1, <2>2
<1>9. CASE 2 \notin {f, g} /\ op = "and" /\ 0 \notin {f, g} /\ 1 \in {f, g}
  <2>1. r = other(1)
    BY <1>9 DEF SettledLogic, BUndet, Zero, One
  <2>2. CASE f = 1
    <3>1. \A s \in Assignments : o(s)[2] \in AllowedFor(op, o(s))
      BY <1>2, <1>3, <1>4, <1>9, <2>2 DEF Unless, Truth
    <3> QED BY <1>5, <2>1, <2>2, <3>1
  <2>3. CASE f # 1
    <3>1. \A s \in Assignments : o(s)[1] \in AllowedFor(op, o(s))
      BY <1>2, <1>3, <1>4, <1>9, <2>3 DEF Unless, Truth
    <3> QED BY <1>5, <2>1, <2>3, <3>1
  <2> QED BY <2>2, <2>3
<1>10. CASE 2 \notin {f, g} /\ op = "or" /\ 1 \in {f, g}
  <2>1. r = 1
    BY <1>10 DEF SettledLogic, BUndet, Zero, One
  <2>2. \A s \in Assignments : 1 \in AllowedFor(op, o(s))
    BY <1>2, <1>3, <1>4, <1>10 DEF Unless
  <2> QED BY <1>3, <1>6, <2>1, <2>2
<1>11. CASE 2 \notin {f, g} /\ op \in {"or", "xor"} /\ 0 \in {f, g} /\ ~ (op = "or" /\ 1 \in {f, g})
  <2>1. r = other(0)
    BY <1>11 DEF SettledLogic, BUndet, Zero, One
  <2>2. CASE f = 0
    <3>1. \A s \in Assignments : o(s)[2] \in AllowedFor(op, o(s))
      BY <1>2, <1>3, <1>4, <1>11, <2>2 DEF Unless, Truth
    <3> QED BY <1>5, <2>1, <2>2, <3>1
  <2>3. CASE f # 0
    <3>1. \A s \in Assignments : o(s)[1] \in AllowedFor(op, o(s))
      BY <1>2, <1>3, <1>4, <1>11, <2>3 DEF Unless, Truth
    <3> QED BY <1>5, <2>1, <2>3, <3>1
  <2> QED BY <2>2, <2>3
<1>12. CASE /\ 2 \notin {f, g} /\ ~ (op = "and" /\ (0 \in {f, g} \/ 1 \in {f, g}))
            /\ ~ (op = "or" /\ 1 \in {f, g}) /\ ~ (op \in {"or", "xor"} /\ 0 \in {f, g})
  <2>1. f = g /\ r = IF op = "xor" THEN 0 ELSE f
    BY <1>12 DEF SettledLogic, BUndet, Zero, One
  <2>2. CASE op = "xor"
    <3>1. \A s \in Assignments : 0 \in AllowedFor(op, o(s))
      BY <1>2, <1>3, <1>4, <2>1, <2>2 DEF Unless, Truth
    <3> QED BY <1>3, <1>6, <2>1, <2>2, <3>1
  <2>3. CASE op # "xor"
    <3>1. \A s \in Assignments : o(s)[1] \in AllowedFor(op, o(s))
      BY <1>2, <1>3, <1>4, <2>1, <2>3 DEF Unless, Truth
    <3> QED BY <1>5, <2>1, <2>3, <3>1
  <2> QED BY <2>2, <2>3
<1> QED BY <1>7, <1>8, <1>9, <1>10, <1>11, <1>12 DEF r

(* Two leaves of the value arena, or one that is undetermined, compared.   *)
LEMMA SettleComparisonSound ==
  ASSUME NEW st, NEW ord, ArenasGood(st, ord), NEW op \in {"veq", "vlt"}, NEW args,
         InPlace(st, op, args), SettledComparison(st, op, args[1], args[2]) # NoId
  PROVE  Sound(st, ord, op, args, SettledComparison(st, op, args[1], args[2]))
<1> DEFINE f == args[1]
           g == args[2]
           r == SettledComparison(st, op, f, g)
           o(s) == OutcomesOf(st, ord, op, args, s)
<1>1. /\ op \in Recursive \ {"not", "ite", "vite"}
      /\ ArgSide(op, 1) = "v" /\ ArgSide(op, 2) = "v" /\ ResultSide(op) = "b"
  BY SidesOf DEF Recursive, Crossing
<1>2. \A s \in Assignments :
        /\ DOMAIN o(s) = {1, 2} /\ f \in LiveSlots(st.v) /\ g \in LiveSlots(st.v)
        /\ o(s)[1] = Follow(st.v, ord, f, s) /\ o(s)[2] = Follow(st.v, ord, g, s)
  <2> SUFFICES ASSUME NEW s \in Assignments
               PROVE  /\ DOMAIN o(s) = {1, 2} /\ f \in LiveSlots(st.v) /\ g \in LiveSlots(st.v)
                      /\ o(s)[1] = Follow(st.v, ord, f, s) /\ o(s)[2] = Follow(st.v, ord, g, s)
    OBVIOUS
  <2> QED BY <1>1, TwoOperands
<1> HIDE DEF o
<1>3. /\ {0, 1, 2} \subseteq LiveSlots(st.b) /\ \A i \in {0, 1, 2} : Level(st.b, i) = -1
      /\ \A s \in Assignments : /\ Follow(st.b, ord, 0, s) = 0 /\ Follow(st.b, ord, 1, s) = 1
                                /\ Follow(st.v, ord, 0, s) = Undet
  BY TerminalsLead
<1>4. \A s \in Assignments :
        /\ AllowedFor("veq", o(s)) =
             {Truth((o(s)[1] # Undet /\ o(s)[2] # Undet) /\ o(s)[1] = o(s)[2])}
        /\ AllowedFor("vlt", o(s)) =
             {Truth((o(s)[1] # Undet /\ o(s)[2] # Undet) /\ o(s)[1] < o(s)[2])}
  BY <1>2, AllowedByValues
<1>5. ASSUME NEW t \in {0, 1}, \A s \in Assignments : t \in AllowedFor(op, o(s))
      PROVE  Sound(st, ord, op, args, t)
  <2>1. \A s \in Assignments : Follow(st.b, ord, t, s) = t
    BY <1>3
  <2> QED BY <1>1, <1>3, <1>5, <2>1, TerminalAnswers DEF o
<1>6. CASE 0 \in {f, g}
  <2>1. r = 0
    BY <1>6 DEF SettledComparison, VUndet, Zero
  <2>2. \A s \in Assignments : 0 \in AllowedFor(op, o(s))
    BY <1>2, <1>3, <1>4, <1>6 DEF Truth
  <2> QED BY <1>5, <2>1, <2>2
<1>7. CASE 0 \notin {f, g}
  <2> DEFINE x == Outcome(st.v, f)
             y == Outcome(st.v, g)
  <2>1. /\ ~ IsInner(st.v, f) /\ ~ IsInner(st.v, g)
        /\ r = IF IF op = "vlt" THEN x < y ELSE x = y THEN 1 ELSE 0
    BY <1>7 DEF SettledComparison, VUndet, Zero, One
  <2>2. Headers(ord) /\ "v" \in Sides /\ ArenaGood("v", st.v, ord)
    BY DEF ArenasGood, Sides
  <2>3. \A s \in Assignments : o(s)[1] = x /\ o(s)[2] = y /\ x \in Int /\ y \in Int
    BY <1>2, <1>7, <2>1, <2>2, FollowUnfold, LeafFacts
  <2> HIDE DEF x, y
  <2>4. r \in {0, 1} /\ \A s \in Assignments : r \in AllowedFor(op, o(s))
    BY <1>4, <2>1, <2>3, UndetAssumption DEF Truth
  <2> HIDE DEF r
  <2> QED BY <1>5, <2>4 DEF r
<1> QED BY <1>6, <1>7 DEF r

LEMMA SettleSound ==
  ASSUME NEW st, NEW ord, ArenasGood(st, ord), NEW op \in Recursive, NEW args,
         InPlace(st, op, args), Settled(st, op, args) # NoId
  PROVE  Sound(st, ord, op, args, Settled(st, op, args))
<1>1. CASE op = "not"
  <2>1. Settled(st, op, args) = Negated(args[1])
    BY <1>1 DEF Settled, Arithmetic
  <2> QED BY <1>1, <2>1, SettleNotSound
<1>2. CASE op \in {"and", "or", "xor"}
  <2>1. Settled(st, op, args) = SettledLogic(op, args[1], args[2])
    BY <1>2 DEF Settled, Arithmetic
  <2> QED BY <1>2, <2>1, SettleLogicSound
<1>3. CASE op \in {"veq", "vlt"}
  <2>1. Settled(st, op, args) = SettledComparison(st, op, args[1], args[2])
    BY <1>3 DEF Settled, Arithmetic
  <2> QED BY <1>3, <2>1, SettleComparisonSound
<1>4. CASE op \in Arithmetic
  <2>1. Settled(st, op, args) = VUndet /\ VUndet \in {args[1], args[2]}
    BY <1>4 DEF Settled, Arithmetic
  <2>2. /\ op \in Recursive \ {"not", "ite", "vite"}
        /\ ArgSide(op, 1) = "v" /\ ResultSide(op) = "v"
    BY <1>4, SidesOf DEF Arithmetic
  <2>3. 0 \in LiveSlots(st.v) /\ Level(st.v, 0) = -1
        /\ \A s \in Assignments : Follow(st.v, ord, 0, s) = Undet
    BY TerminalsLead
  <2>4. ASSUME NEW s \in Assignments
        PROVE  Undet \in AllowedFor(op, OutcomesOf(st, ord, op, args, s))
    <3> DEFINE o == OutcomesOf(st, ord, op, args, s)
    <3>1. /\ DOMAIN o = {1, 2}
          /\ o[1] = Follow(st.v, ord, args[1], s) /\ o[2] = Follow(st.v, ord, args[2], s)
      BY <2>2, TwoOperands
    <3> HIDE DEF o
    <3>2. o[1] = Undet \/ o[2] = Undet
      BY <2>1, <2>3, <3>1 DEF VUndet
    <3>3. AllowedFor(op, o) = {ArithmeticOf(op, o[1], o[2])}
      BY <1>4, <3>1, AllowedByValues
    <3> QED BY <3>2, <3>3 DEF ArithmeticOf, o
  <2> QED BY <2>1, <2>2, <2>3, <2>4, TerminalAnswers DEF VUndet
<1>5. CASE op \in {"ite", "vite"}
  BY <1>5 DEF Settled, Arithmetic
<1> QED BY <1>1, <1>2, <1>3, <1>4, <1>5 DEF Recursive, Logic, Crossing

----------------------------------------------------------------------------
(* The arms that ask other calls or build nodes.                           *)

LEMMA NegateSound ==
  ASSUME NEW st, NEW ord, ArenasGood(st, ord), NEW op \in Recursive, NEW args,
         InPlace(st, op, args), Negates(op, args), NEW r,
         Sound(st, ord, "not", OtherThanOne(args), r)
  PROVE  Sound(st, ord, op, args, r)
<1> DEFINE given == OtherThanOne(args)
           j == IF args[1] = 1 THEN 2 ELSE 1
           o(s) == OutcomesOf(st, ord, op, args, s)
           w(s) == OutcomesOf(st, ord, "not", given, s)
<1>1. /\ op = "xor" /\ op \in Recursive \ {"not", "ite", "vite"} /\ "not" \in Recursive
      /\ args[1] = 1 \/ args[2] = 1
      /\ ArgSide(op, 1) = "b" /\ ArgSide(op, 2) = "b" /\ ResultSide(op) = "b"
      /\ ArgSide("not", 1) = "b" /\ ResultSide("not") = "b"
      /\ Operands("not") = {1} /\ Operands(op) = {1, 2}
  BY SidesOf, OperandsOf DEF Negates, One, Recursive, Logic
<1>2. given[1] = args[j] /\ (args[1] = 1 \/ (args[2] = 1 /\ j = 1)) /\ j \in {1, 2}
  BY <1>1 DEF OtherThanOne, One
<1>3. \A s \in Assignments :
        /\ DOMAIN o(s) = {1, 2}
        /\ o(s)[1] = Follow(st.b, ord, args[1], s) /\ o(s)[1] \in {0, 1, Undet}
        /\ o(s)[2] = Follow(st.b, ord, args[2], s) /\ o(s)[2] \in {0, 1, Undet}
  <2> SUFFICES ASSUME NEW s \in Assignments
               PROVE  /\ DOMAIN o(s) = {1, 2}
                      /\ o(s)[1] = Follow(st.b, ord, args[1], s) /\ o(s)[1] \in {0, 1, Undet}
                      /\ o(s)[2] = Follow(st.b, ord, args[2], s) /\ o(s)[2] \in {0, 1, Undet}
    OBVIOUS
  <2>1. OutcomesIn("b") = {0, 1, Undet}
    BY DEF OutcomesIn
  <2> HIDE DEF given, j
  <2> QED BY <1>1, <2>1, TwoOperands
<1>4. \A s \in Assignments : DOMAIN w(s) = {1} /\ w(s)[1] = Follow(st.b, ord, args[j], s)
  <2> HIDE DEF given, j
  <2> QED BY <1>1, <1>2 DEF OutcomesOf
<1> HIDE DEF given, o, w, j
<1>5. ASSUME NEW s \in Assignments
      PROVE  AllowedFor("not", w(s)) \subseteq AllowedFor(op, o(s))
  <2>1. AllowedFor("not", w(s)) = {IF w(s)[1] = Undet THEN Undet ELSE Truth(w(s)[1] = 0)}
    BY <1>4, AllowedByNot
  <2>2. {IF o(s)[1] = Undet \/ o(s)[2] = Undet THEN Undet ELSE Truth(o(s)[1] # o(s)[2])}
          \subseteq AllowedFor(op, o(s))
    BY <1>1, <1>3, AllowedByConnective
  <2>3. /\ args[1] = 1 => o(s)[1] = 1
        /\ args[2] = 1 => o(s)[2] = 1
    BY <1>3, TerminalsLead
  <2>4. w(s)[1] = o(s)[j]
    BY <1>2, <1>3, <1>4
  <2>5. CASE args[1] = 1
    <3>1. j = 2
      BY <2>5 DEF j
    <3> QED BY <1>3, <2>1, <2>2, <2>3, <2>4, <2>5, <3>1, UndetAssumption DEF Truth
  <2>6. CASE args[2] = 1 /\ j = 1
    BY <1>3, <2>1, <2>2, <2>3, <2>4, <2>6, UndetAssumption DEF Truth
  <2> QED BY <1>2, <2>5, <2>6
<1>6. Sound(st, ord, "not", given, r)
  BY DEF given
<1>7. OperandLevel(st, "not", given, 1) = OperandLevel(st, op, args, j)
  BY <1>1, <1>2 DEF OperandLevel
<1>8. \A s \in Assignments : Follow(st.b, ord, r, s) \in AllowedFor(op, o(s))
  BY <1>1, <1>5, <1>6 DEF Sound, w
<1> QED BY <1>1, <1>2, <1>6, <1>7, <1>8 DEF Sound, o

(* Two values: the leaf of what the operation makes of them.               *)
LEMMA ComputeLeafMeans ==
  ASSUME NEW st, NEW ord, ArenasGood(st, ord), NEW op \in Recursive, NEW args,
         InPlace(st, op, args), Settled(st, op, args) = NoId, ~ DividesByZero(st, op, args),
         Computes(st, op, args)
  PROVE  LET r == ComputedNode(st, op, args)
         IN /\ ResultSide(op) = "v"
            /\ ArenaGood("v", r[2], ord) /\ Preserves(st.v, r[2]) /\ r[2].memo = st.v.memo
            /\ r[1] \in LiveSlots(r[2]) /\ Level(r[2], r[1]) = -1
            /\ \A s \in Assignments :
                 Follow(r[2], ord, r[1], s) \in AllowedFor(op, OutcomesOf(st, ord, op, args, s))
<1> DEFINE x == Outcome(st.v, args[1])
           y == Outcome(st.v, args[2])
           r == ComputedNode(st, op, args)
<1>1. /\ op \in Arithmetic /\ op \in Recursive \ {"not", "ite", "vite"}
      /\ ArgSide(op, 1) = "v" /\ ArgSide(op, 2) = "v" /\ ResultSide(op) = "v"
      /\ Operands(op) = {1, 2} /\ DOMAIN args = {1, 2}
  BY SidesOf, OperandsOf DEF Computes, Arithmetic, InPlace
<1>2. /\ ~ IsInner(st.v, args[1]) /\ ~ IsInner(st.v, args[2])
      /\ args[1] \in LiveSlots(st.v) /\ args[2] \in LiveSlots(st.v)
  BY <1>1 DEF Computes, AllLeaves, InPlace
<1>3. args[1] # 0 /\ args[2] # 0
  BY <1>1 DEF Settled, Arithmetic, VUndet, NoId
<1>4. Headers(ord) /\ "v" \in Sides /\ ArenaGood("v", st.v, ord)
  BY DEF ArenasGood, Sides
<1>5. x \in Int /\ y \in Int
  BY <1>2, <1>3, <1>4, LeafFacts
<1>6. op = "div" => y # 0
  <2>1. x # Undet
    BY <1>5, UndetAssumption
  <2> QED BY <1>2, <2>1 DEF DividesByZero
<1> HIDE DEF x, y
<1>7. Compute(op, x, y) \in Int /\ Compute(op, x, y) = ArithmeticOf(op, x, y)
  BY <1>1, <1>5, <1>6, ComputeIsExact
<1>8. r = ValueNode(st.v, Compute(op, x, y))
  BY DEF ComputedNode, x, y
<1> HIDE DEF r
<1>9. /\ ArenaGood("v", r[2], ord) /\ Preserves(st.v, r[2]) /\ r[2].memo = st.v.memo
      /\ r[1] \in LiveSlots(r[2]) /\ Level(r[2], r[1]) = -1
      /\ \A s \in Assignments : Follow(r[2], ord, r[1], s) = Compute(op, x, y)
  <2> DEFINE n == Compute(op, x, y)
  <2>1. n \in Int /\ r = ValueNode(st.v, n)
    BY <1>7, <1>8
  <2> HIDE DEF n
  <2>2. /\ ArenaGood("v", r[2], ord) /\ Preserves(st.v, r[2]) /\ r[2].memo = st.v.memo
        /\ r[1] \in LiveSlots(r[2]) /\ Level(r[2], r[1]) = -1
        /\ \A s \in Assignments : Follow(r[2], ord, r[1], s) = n
    BY <1>4, <2>1, ValueNodeMeans
  <2> QED BY <2>2 DEF n
<1>10. ASSUME NEW s \in Assignments
       PROVE  Compute(op, x, y) \in AllowedFor(op, OutcomesOf(st, ord, op, args, s))
  <2> DEFINE o == OutcomesOf(st, ord, op, args, s)
  <2>1. /\ DOMAIN o = {1, 2}
        /\ o[1] = Follow(st.v, ord, args[1], s) /\ o[2] = Follow(st.v, ord, args[2], s)
    BY <1>1, TwoOperands
  <2> HIDE DEF o
  <2>2. o[1] = x /\ o[2] = y
    BY <1>2, <1>4, <2>1, FollowUnfold DEF x, y
  <2>3. AllowedFor(op, o) = {ArithmeticOf(op, o[1], o[2])}
    BY <1>1, <2>1, AllowedByValues
  <2> QED BY <1>7, <2>2, <2>3 DEF o
<1> QED BY <1>1, <1>9, <1>10 DEF r

(* A call that gets as far as its own recursion has an operand with edges. *)
LEMMA SomeInner ==
  ASSUME NEW st, NEW ord, ArenasGood(st, ord), NEW op \in Recursive, NEW args,
         InPlace(st, op, args), Chosen(op, args) = NoId, Settled(st, op, args) = NoId,
         ~ Negates(op, args), ~ Computes(st, op, args)
  PROVE  \E k \in Operands(op) : IsInner(st[ArgSide(op, k)], args[k])
<1>1. Headers(ord) /\ "b" \in Sides /\ ArenaGood("b", st.b, ord)
  BY DEF ArenasGood, Sides
<1>2. \A i \in LiveSlots(st.b) : ~ IsInner(st.b, i) => i \in {0, 1, 2}
  BY <1>1, LeafFacts
<1>3. \A k \in Operands(op) : args[k] \in LiveSlots(st[ArgSide(op, k)])
  BY DEF InPlace
<1>4. CASE op = "not"
  <2>1. Operands(op) = {1} /\ ArgSide(op, 1) = "b" /\ Settled(st, op, args) = Negated(args[1])
    BY <1>4, OperandsOf, SidesOf DEF Logic, Settled, Arithmetic
  <2>2. args[1] \notin {0, 1, 2}
    BY <2>1 DEF Negated, NoId, Zero, One, BUndet
  <2> QED BY <1>2, <1>3, <2>1, <2>2
<1>5. CASE op \in {"and", "or", "xor"}
  <2>1. /\ Operands(op) = {1, 2} /\ ArgSide(op, 1) = "b" /\ ArgSide(op, 2) = "b"
        /\ Settled(st, op, args) = SettledLogic(op, args[1], args[2])
    BY <1>5, OperandsOf, SidesOf DEF Logic, Settled, Arithmetic
  <2>2. ~ (args[1] \in {0, 1, 2} /\ args[2] \in {0, 1, 2})
    BY <1>5, <2>1 DEF SettledLogic, NoId, Zero, One, BUndet, Negates
  <2> QED BY <1>2, <1>3, <2>1, <2>2
<1>6. CASE op \in {"ite", "vite"}
  <2>1. Operands(op) = {1, 2, 3} /\ ArgSide(op, 1) = "b"
    BY <1>6, OperandsOf, SidesOf DEF Logic
  <2>2. args[1] \in LiveSlots(st.b) /\ args[2] \in LiveSlots(st[ResultSide(op)])
        /\ args[3] \in LiveSlots(st[ResultSide(op)])
    BY <1>3, <1>6, <2>1, SidesOf DEF Logic
  <2>3. args[2] # NoId /\ args[3] # NoId
    <3>1. ArenaType(st[ResultSide(op)])
      BY SidesOf DEF ArenasGood, ArenaGood
    <3> QED BY <2>2, <3>1, SlotFacts DEF NoId
  <2>4. \E u \in {0, 2} : Chosen(op, args) = ChosenBy(args[1], args[2], args[3], u)
    BY <1>6 DEF Chosen, BUndet, VUndet
  <2>5. args[1] \notin {0, 1, 2}
    BY <2>3, <2>4 DEF ChosenBy, NoId, Zero, One, BUndet
  <2> QED BY <1>2, <2>1, <2>2, <2>5
<1>7. CASE op \in Arithmetic
  <2>1. DOMAIN args = Operands(op)
    BY DEF InPlace
  <2> QED BY <1>7, <2>1 DEF Computes, AllLeaves
<1>8. CASE op \in {"veq", "vlt"}
  <2>1. /\ Operands(op) = {1, 2} /\ ArgSide(op, 1) = "v" /\ ArgSide(op, 2) = "v"
        /\ Settled(st, op, args) = SettledComparison(st, op, args[1], args[2])
    BY <1>8, OperandsOf, SidesOf DEF Crossing, Recursive, Settled, Arithmetic
  <2> QED BY <2>1 DEF SettledComparison, NoId, Zero, One
<1> QED BY <1>4, <1>5, <1>6, <1>7, <1>8 DEF Recursive, Logic, Crossing

(* The top level is the highest level of an operand.                       *)
LEMMA TopFacts ==
  ASSUME NEW st, NEW ord, ArenasGood(st, ord), NEW op \in Recursive, NEW args,
         InPlace(st, op, args)
  PROVE  /\ Top(st, op, args) \in Int
         /\ \E k \in Operands(op) : OperandLevel(st, op, args, k) = Top(st, op, args)
         /\ \A k \in Operands(op) : OperandLevel(st, op, args, k) <= Top(st, op, args)
<1> DEFINE l(k) == OperandLevel(st, op, args, k)
           S == {l(k) : k \in Operands(op)}
<1>1. DOMAIN args = Operands(op) /\ \A k \in Operands(op) : l(k) \in Int
  BY OperandFacts DEF InPlace
<1>2. Top(st, op, args) = Max(S)
  BY <1>1 DEF Top
<1>3. Operands(op) \in {{1}, {1, 2}, {1, 2, 3}}
  BY OperandsOf
<1> HIDE DEF l
<1>4. \E m \in S : \A n \in S : m >= n
  <2>1. CASE Operands(op) = {1}
    BY <1>1, <2>1
  <2>2. CASE Operands(op) = {1, 2}
    BY <1>1, <2>2
  <2>3. CASE Operands(op) = {1, 2, 3}
    <3>1. l(1) \in Int /\ l(2) \in Int /\ l(3) \in Int /\ S = {l(1), l(2), l(3)}
      BY <1>1, <2>3
    <3> QED BY <3>1
  <2> QED BY <1>3, <2>1, <2>2, <2>3
<1>5. Max(S) \in S /\ \A n \in S : Max(S) >= n
  <2> HIDE DEF S
  <2> QED BY <1>4 DEF Max
<1> QED BY <1>1, <1>2, <1>5 DEF l

(* At the states of the top variable the cofactors stand for the operands. *)
LEMMA CofactorFacts ==
  ASSUME NEW side \in Sides, NEW a, NEW ord, Headers(ord), ArenaGood(side, a, ord),
         NEW i \in LiveSlots(a), NEW l, NEW n, IsState(ord, l, n), Level(a, i) <= l
  PROVE  /\ CofactorAt(a, i, l, n) \in LiveSlots(a) /\ Level(a, CofactorAt(a, i, l, n)) < l
         /\ \A s \in Assignments : s[ord[l + 1]] + 1 = n =>
              Follow(a, ord, CofactorAt(a, i, l, n), s) = Follow(a, ord, i, s)
<1>1. l \in 0 .. Len(ord) - 1 /\ n \in 1 .. States[ord[l + 1]] /\ Level(a, i) \in Int
      /\ Len(ord) \in Nat
  BY NodeFacts, HeaderFacts DEF IsState
<1>2. CASE Level(a, i) # l
  <2>1. CofactorAt(a, i, l, n) = i /\ Level(a, i) < l
    BY <1>1, <1>2 DEF CofactorAt
  <2> QED BY <2>1
<1>3. CASE Level(a, i) = l
  <2>1. IsInner(a, i) /\ CofactorAt(a, i, l, n) = At(a, i).edges[n]
    BY <1>1, <1>3, NodeFacts DEF CofactorAt
  <2>2. n \in DOMAIN At(a, i).edges
    BY <1>1, <1>3, <2>1, EdgeFacts
  <2>3. At(a, i).edges[n] \in LiveSlots(a) /\ Level(a, At(a, i).edges[n]) < l
    BY <1>3, <2>1, <2>2, EdgeFacts
  <2>4. ASSUME NEW s \in Assignments, s[ord[l + 1]] + 1 = n
        PROVE  Follow(a, ord, At(a, i).edges[n], s) = Follow(a, ord, i, s)
    <3>1. EdgeTaken(a, ord, i, s) = At(a, i).edges[n]
      BY <1>3, <2>4 DEF EdgeTaken
    <3> QED BY <2>1, <3>1, FollowUnfold
  <2> QED BY <2>1, <2>3, <2>4
<1> QED BY <1>2, <1>3

LEMMA WidthFacts ==
  ASSUME NEW st, NEW ord, ArenasGood(st, ord), NEW op \in Recursive, NEW args,
         InPlace(st, op, args), \E k \in Operands(op) : IsInner(st[ArgSide(op, k)], args[k])
  PROVE  /\ Top(st, op, args) \in 0 .. Len(ord) - 1
         /\ ord[Top(st, op, args) + 1] \in Label
         /\ Width(st, op, args) = States[ord[Top(st, op, args) + 1]]
<1> DEFINE top == Top(st, op, args)
           w == CHOOSE j \in DOMAIN args : OperandLevel(st, op, args, j) = top
<1>1. /\ Headers(ord) /\ Len(ord) \in Nat /\ \A side \in Sides : ArenaGood(side, st[side], ord)
      /\ \A k : ArgSide(op, k) \in Sides
  BY HeaderFacts, SidesOf DEF ArenasGood
<1>2. PICK k \in Operands(op) : IsInner(st[ArgSide(op, k)], args[k])
  OBVIOUS
<1>3. OperandLevel(st, op, args, k) \in 0 .. Len(ord) - 1
  <2>1. args[k] \in LiveSlots(st[ArgSide(op, k)])
    BY DEF InPlace
  <2> QED BY <1>1, <1>2, <2>1, NodeFacts DEF OperandLevel
<1>4. /\ \E j \in Operands(op) : OperandLevel(st, op, args, j) = top
      /\ OperandLevel(st, op, args, k) <= top /\ top \in Int
  BY TopFacts
<1> HIDE DEF top
<1>5. w \in Operands(op) /\ OperandLevel(st, op, args, w) = top
  <2>1. DOMAIN args = Operands(op)
    BY DEF InPlace
  <2> QED BY <1>4, <2>1
<1>6. Width(st, op, args) = Len(At(st[ArgSide(op, w)], args[w]).edges)
  BY DEF Width, top
<1> HIDE DEF w
<1> DEFINE a == st[ArgSide(op, w)]
           i == args[w]
           e == At(a, i).edges
<1>7. i \in LiveSlots(a) /\ Level(a, i) = top
  BY <1>5 DEF InPlace, OperandLevel
<1>8. top \in 0 .. Len(ord) - 1
  <2>1. \A j \in Operands(op) : OperandLevel(st, op, args, j) < Len(ord)
    BY OperandFacts
  <2> QED BY <1>1, <1>3, <1>4, <1>5, <2>1
<1> HIDE DEF a, i, e
<1>9. IsInner(a, i) /\ ord[top + 1] \in Label /\ Edged(a, ord, top, e)
  <2>1. ArgSide(op, w) \in Sides /\ ArenaGood(ArgSide(op, w), a, ord)
    BY <1>1 DEF a
  <2> QED BY <1>1, <1>7, <1>8, <2>1, NodeFacts DEF e
<1>10. Len(e) = States[ord[top + 1]]
  <2>1. States[ord[top + 1]] \in Nat
    BY <1>9, VariableAssumption
  <2> DEFINE n == States[ord[top + 1]]
  <2>2. e \in [1 .. n -> LiveSlots(a)] /\ n \in Nat
    BY <1>9, <2>1 DEF Edged
  <2> HIDE DEF n
  <2>3. e \in Seq(LiveSlots(a)) /\ DOMAIN e = 1 .. n
    BY <2>2
  <2>4. Len(e) \in Nat /\ DOMAIN e = 1 .. Len(e)
    BY <2>3
  <2>5. Len(e) = n
    BY <2>2, <2>3, <2>4
  <2> QED BY <2>5 DEF n
<1> QED BY <1>6, <1>8, <1>9, <1>10 DEF top, a, i, e

(* One answer for each state of the top variable: together they are the    *)
(* edges of a node whose outcomes the operation allows.                    *)
LEMMA ExpandMeans ==
  ASSUME NEW st, NEW ord, ArenasGood(st, ord), NEW op \in Recursive, NEW args,
         InPlace(st, op, args), \E k \in Operands(op) : IsInner(st[ArgSide(op, k)], args[k]),
         NEW results \in [1 .. Width(st, op, args) -> LiveSlots(st[ResultSide(op)])],
         \A n \in DOMAIN results : Sound(st, ord, op, Cofactors(st, op, args, n), results[n])
  PROVE  LET side == ResultSide(op)
             r == MakeNode(st[side], Top(st, op, args), results)
         IN /\ ArenaGood(side, r[2], ord) /\ Preserves(st[side], r[2])
            /\ r[2].memo = st[side].memo
            /\ r[1] \in LiveSlots(r[2]) /\ Level(r[2], r[1]) <= Top(st, op, args)
            /\ \A s \in Assignments :
                 Follow(r[2], ord, r[1], s) \in AllowedFor(op, OutcomesOf(st, ord, op, args, s))
<1> DEFINE side == ResultSide(op)
           a == st[side]
           top == Top(st, op, args)
           x == ord[top + 1]
           r == MakeNode(a, top, results)
<1>1. /\ side \in Sides /\ Headers(ord) /\ ArenaGood(side, a, ord)
      /\ \A k : ArgSide(op, k) \in Sides /\ ArenaGood(ArgSide(op, k), st[ArgSide(op, k)], ord)
  BY SidesOf DEF ArenasGood
<1>2. /\ top \in 0 .. Len(ord) - 1 /\ x \in Label
      /\ results \in [1 .. States[x] -> LiveSlots(a)]
  BY WidthFacts
<1>3. /\ DOMAIN args = Operands(op)
      /\ \A k \in Operands(op) : args[k] \in LiveSlots(st[ArgSide(op, k)])
                                 /\ Level(st[ArgSide(op, k)], args[k]) <= top
  BY TopFacts DEF InPlace, OperandLevel
<1> HIDE DEF top
<1>4. ASSUME NEW n \in 1 .. States[x]
      PROVE  /\ Level(a, results[n]) < top
             /\ \A s \in Assignments : s[x] + 1 = n =>
                  Follow(a, ord, results[n], s) \in AllowedFor(op, OutcomesOf(st, ord, op, args, s))
  <2> DEFINE c == Cofactors(st, op, args, n)
  <2>1. IsState(ord, top, n)
    BY <1>2 DEF IsState
  <2>2. \A k \in Operands(op) :
          /\ c[k] = CofactorAt(st[ArgSide(op, k)], args[k], top, n)
          /\ Level(st[ArgSide(op, k)], c[k]) < top
          /\ \A s \in Assignments : s[x] + 1 = n =>
               Follow(st[ArgSide(op, k)], ord, c[k], s) = Follow(st[ArgSide(op, k)], ord, args[k], s)
    <3> SUFFICES ASSUME NEW k \in Operands(op)
                 PROVE  /\ c[k] = CofactorAt(st[ArgSide(op, k)], args[k], top, n)
                        /\ Level(st[ArgSide(op, k)], c[k]) < top
                        /\ \A s \in Assignments : s[x] + 1 = n =>
                             Follow(st[ArgSide(op, k)], ord, c[k], s)
                               = Follow(st[ArgSide(op, k)], ord, args[k], s)
      OBVIOUS
    <3>1. c[k] = CofactorAt(st[ArgSide(op, k)], args[k], top, n)
      BY <1>3 DEF Cofactors, top
    <3> HIDE DEF c, x
    <3>2. /\ Level(st[ArgSide(op, k)], CofactorAt(st[ArgSide(op, k)], args[k], top, n)) < top
          /\ \A s \in Assignments : s[ord[top + 1]] + 1 = n =>
               Follow(st[ArgSide(op, k)], ord, CofactorAt(st[ArgSide(op, k)], args[k], top, n), s)
                 = Follow(st[ArgSide(op, k)], ord, args[k], s)
      BY <1>1, <1>3, <2>1, CofactorFacts
    <3> QED BY <3>1, <3>2 DEF x
  <2>3. Sound(st, ord, op, c, results[n])
    BY <1>2
  <2> HIDE DEF c
  <2>4. Level(a, results[n]) < top
    <3>1. PICK k \in Operands(op) : Level(a, results[n]) <= OperandLevel(st, op, c, k)
      BY <2>3 DEF Sound
    <3>2. OperandLevel(st, op, c, k) < top
      BY <2>2 DEF OperandLevel
    <3>3. Level(a, results[n]) \in Int /\ OperandLevel(st, op, c, k) \in Int /\ top \in Int
      <4>1. Level(a, results[n]) \in Int
        BY <1>1, <1>2, NodeFacts
      <4>2. InPlace(st, op, c)
        BY <2>3 DEF Sound
      <4>3. OperandLevel(st, op, c, k) \in Int
        BY <4>2, OperandFacts
      <4>4. top \in Int
        BY TopFacts DEF top
      <4> QED BY <4>1, <4>3, <4>4
    <3> QED BY <3>1, <3>2, <3>3
  <2>5. ASSUME NEW s \in Assignments, s[x] + 1 = n
        PROVE  Follow(a, ord, results[n], s) \in AllowedFor(op, OutcomesOf(st, ord, op, args, s))
    <3>1. OutcomesOf(st, ord, op, c, s) = OutcomesOf(st, ord, op, args, s)
      BY <2>2, <2>5 DEF OutcomesOf
    <3>2. Follow(a, ord, results[n], s) \in AllowedFor(op, OutcomesOf(st, ord, op, c, s))
      BY <2>3 DEF Sound
    <3> QED BY <3>1, <3>2
  <2> QED BY <2>4, <2>5
<1>5. Edged(a, ord, top, results)
  BY <1>2, <1>4 DEF Edged
<1>6. /\ ArenaGood(side, r[2], ord) /\ Preserves(a, r[2]) /\ r[2].memo = a.memo
      /\ r[1] \in LiveSlots(r[2]) /\ Level(r[2], r[1]) <= top
      /\ \A s \in Assignments : Follow(r[2], ord, r[1], s) = Follow(a, ord, results[s[x] + 1], s)
  <2> HIDE DEF side, a
  <2>1. side \in Sides /\ Headers(ord) /\ ArenaGood(side, a, ord)
    BY <1>1
  <2>2. Leads(side, a, ord, top, results, r)
    BY <1>5, <2>1, MakeNodeMeans
  <2> HIDE DEF r
  <2> QED BY <2>2 DEF Leads
<1>7. \A s \in Assignments : s[x] + 1 \in 1 .. States[x]
  BY <1>2, StateFacts
<1> HIDE DEF r, x
<1>8. \A s \in Assignments :
        Follow(r[2], ord, r[1], s) \in AllowedFor(op, OutcomesOf(st, ord, op, args, s))
  BY <1>4, <1>6, <1>7
<1> QED BY <1>6, <1>8 DEF r, top, side, a

----------------------------------------------------------------------------
(* The forest as a record, and what the steps do to it.                    *)
Forest(b, v, c, h) == [b |-> b, v |-> v, compared |-> c, chosen |-> h]

IsForest(st) == \E b, v, c, h : st = Forest(b, v, c, h)

(* The forest only gains: slots, nodes, headers.                           *)
Grown(st, ord, tt, more) ==
  /\ ArenasGood(st, ord) /\ ArenasGood(tt, more) /\ Extends(ord, more)
  /\ \A side \in Sides : Preserves(st[side], tt[side])

SameMemos(st, tt) == \A op \in Recursive : Memo(tt, op) = Memo(st, op)

LEMMA GrownIsMoved ==
  ASSUME NEW st, NEW ord, NEW tt, NEW more, Grown(st, ord, tt, more)
  PROVE  Moved(st, ord, tt, more)
  BY DEF Grown, Moved

LEMMA GrownItself ==
  ASSUME NEW st, NEW ord, ArenasGood(st, ord)
  PROVE  Grown(st, ord, st, ord)
<1>1. Extends(ord, ord)
  BY HeaderFacts DEF ArenasGood
<1> QED BY <1>1 DEF Grown, Preserves

LEMMA GrownTwice ==
  ASSUME NEW st, NEW tt, NEW uu, NEW ord, Grown(st, ord, tt, ord), Grown(tt, ord, uu, ord)
  PROVE  Grown(st, ord, uu, ord)
<1>1. \A side \in Sides : Preserves(st[side], tt[side]) /\ Preserves(tt[side], uu[side])
  BY DEF Grown
<1>2. \A side \in Sides : Preserves(st[side], uu[side])
  BY <1>1 DEF Preserves
<1> QED BY <1>2 DEF Grown

(* Operands stay in use, and answers stay answers.                         *)
LEMMA SoundGrown ==
  ASSUME NEW st, NEW ord, NEW tt, NEW more, Grown(st, ord, tt, more), NEW op \in Recursive,
         NEW args
  PROVE  /\ InPlace(st, op, args) => InPlace(tt, op, args)
         /\ \A r : Sound(st, ord, op, args, r) => Sound(tt, more, op, args, r)
<1>1. \A side \in Sides : LiveSlots(st[side]) \subseteq LiveSlots(tt[side])
  BY DEF Grown, Preserves
<1>2. ResultSide(op) \in Sides /\ \A k : ArgSide(op, k) \in Sides
  BY SidesOf
<1>3. InPlace(st, op, args) => InPlace(tt, op, args)
  BY <1>1, <1>2 DEF InPlace
<1>4. ASSUME NEW r, Sound(st, ord, op, args, r)
      PROVE  Sound(tt, more, op, args, r)
  <2>1. InPlace(st, op, args) /\ r \in LiveSlots(st[ResultSide(op)])
    BY <1>4 DEF Sound
  <2>2. InPlace(tt, op, args) /\ r \in LiveSlots(tt[ResultSide(op)])
    BY <1>1, <1>2, <1>3, <2>1
  <2> QED BY <1>4, <2>2, GrownIsMoved, SoundMoved
<1> QED BY <1>3, <1>4

LEMMA WhichMemo ==
  /\ \A op \in Recursive : \/ op \in {"veq", "vlt"} \/ op = "vite" \/ op \in Logic \cup Arithmetic
  /\ \A st : Memo(st, "veq") = st.compared /\ Memo(st, "vlt") = st.compared
             /\ Memo(st, "vite") = st.chosen
  /\ \A st : \A op \in Logic \cup Arithmetic :
       op \in Recursive /\ Memo(st, op) = st[ResultSide(op)].memo
  BY DEF Recursive, Crossing, Logic, Arithmetic, Memo

(* A slot and an arena that has become of one of the two.                  *)
LEMMA BuiltForest ==
  ASSUME NEW st, IsForest(st), NEW side \in Sides, NEW r, r[2].memo = st[side].memo
  PROVE  LET tt == Built(st, side, r)[2]
         IN /\ Built(st, side, r)[1] = r[1] /\ IsForest(tt)
            /\ tt[side] = r[2] /\ \A other \in Sides \ {side} : tt[other] = st[other]
            /\ SameMemos(st, tt)
<1> DEFINE tt == Built(st, side, r)[2]
<1>1. PICK b, v, c, h : st = Forest(b, v, c, h)
  BY DEF IsForest
<1>2. tt = [st EXCEPT ![side] = r[2]] /\ Built(st, side, r)[1] = r[1]
  BY DEF Built
<1> HIDE DEF tt
<1>3. CASE side = "b"
  <2>1. tt = Forest(r[2], v, c, h)
    BY <1>1, <1>2, <1>3 DEF Forest
  <2>2. tt.b = r[2] /\ tt.v = st.v /\ tt.compared = st.compared /\ tt.chosen = st.chosen
    BY <1>1, <2>1 DEF Forest
  <2>3. \A s \in Sides : tt[s].memo = st[s].memo
    BY <1>3, <2>2 DEF Sides
  <2>4. SameMemos(st, tt)
    BY <2>2, <2>3, WhichMemo, SidesOf DEF SameMemos
  <2> QED BY <1>2, <1>3, <2>1, <2>2, <2>4 DEF tt, IsForest, Sides
<1>4. CASE side = "v"
  <2>1. tt = Forest(b, r[2], c, h)
    BY <1>1, <1>2, <1>4 DEF Forest
  <2>2. tt.v = r[2] /\ tt.b = st.b /\ tt.compared = st.compared /\ tt.chosen = st.chosen
    BY <1>1, <2>1 DEF Forest
  <2>3. \A s \in Sides : tt[s].memo = st[s].memo
    BY <1>4, <2>2 DEF Sides
  <2>4. SameMemos(st, tt)
    BY <2>2, <2>3, WhichMemo, SidesOf DEF SameMemos
  <2> QED BY <1>2, <1>4, <2>1, <2>2, <2>4 DEF tt, IsForest, Sides
<1> QED BY <1>3, <1>4 DEF Sides

LEMMA BuiltGrows ==
  ASSUME NEW st, NEW ord, IsForest(st), ArenasGood(st, ord), NEW side \in Sides, NEW r,
         ArenaGood(side, r[2], ord), Preserves(st[side], r[2]), r[2].memo = st[side].memo
  PROVE  LET tt == Built(st, side, r)[2]
         IN /\ Built(st, side, r)[1] = r[1] /\ IsForest(tt) /\ tt[side] = r[2]
            /\ SameMemos(st, tt) /\ Grown(st, ord, tt, ord)
<1> DEFINE tt == Built(st, side, r)[2]
<1>1. /\ Built(st, side, r)[1] = r[1] /\ IsForest(tt) /\ SameMemos(st, tt)
      /\ tt[side] = r[2] /\ \A other \in Sides \ {side} : tt[other] = st[other]
  BY BuiltForest
<1> HIDE DEF tt
<1>2. \A other \in Sides : ArenaGood(other, tt[other], ord)
  BY <1>1 DEF ArenasGood
<1>3. \A other \in Sides : Preserves(st[other], tt[other])
  BY <1>1 DEF Preserves
<1>4. Extends(ord, ord)
  BY HeaderFacts DEF ArenasGood
<1>5. Grown(st, ord, tt, ord)
  BY <1>2, <1>3, <1>4 DEF Grown, ArenasGood
<1> QED BY <1>1, <1>5 DEF tt

(* The caches change, the arenas keep their nodes.                         *)
SameNodes(a, b) ==
  /\ b.nodes = a.nodes /\ b.free = a.free /\ b.table = a.table
  /\ \E n, f, t, m : b = Arena(n, f, t, m)

LEMMA SameNodesGrow ==
  ASSUME NEW st, NEW ord, NEW tt, NEW more, ArenasGood(st, ord), Headers(more),
         Extends(ord, more), \A side \in Sides : SameNodes(st[side], tt[side])
  PROVE  Grown(st, ord, tt, more)
<1>1. ASSUME NEW side \in Sides
      PROVE  ArenaGood(side, tt[side], more) /\ Preserves(st[side], tt[side])
  <2> DEFINE a == st[side]
             b == tt[side]
  <2>1. SameNodes(a, b) /\ ArenaGood(side, a, ord)
    BY DEF ArenasGood
  <2> HIDE DEF a, b
  <2>2. ArenaGood(side, b, more) /\ LiveSlots(b) = LiveSlots(a) /\ \A i : At(b, i) = At(a, i)
    BY <2>1, NodesStayOK DEF SameNodes
  <2>3. ArenaGood(side, b, more) /\ Preserves(a, b)
    BY <2>2 DEF Preserves
  <2> QED BY <2>3 DEF a, b
<1> QED BY <1>1 DEF Grown, ArenasGood

----------------------------------------------------------------------------
(* What the computed tables and the calls say.                             *)
MemoGood(st, ord) ==
  \A op \in Recursive : \A key \in DOMAIN Memo(st, op) :
    key[1] = op => Sound(st, ord, op, key[2], Memo(st, op)[key])

KnownGood(st, ord, kn) ==
  \A f \in kn : f[1] \in Recursive /\ Sound(st, ord, f[1], f[2], f[3])

Inv(st, ord, kn) ==
  IsForest(st) /\ ArenasGood(st, ord) /\ MemoGood(st, ord) /\ KnownGood(st, ord, kn)

EngineInv == Inv(forest, order, known)

LEMMA MemoGrown ==
  ASSUME NEW st, NEW ord, NEW tt, NEW more, Grown(st, ord, tt, more), SameMemos(st, tt),
         MemoGood(st, ord)
  PROVE  MemoGood(tt, more)
  BY SoundGrown DEF MemoGood, SameMemos

LEMMA KnownGrown ==
  ASSUME NEW st, NEW ord, NEW tt, NEW more, Grown(st, ord, tt, more), NEW kn,
         KnownGood(st, ord, kn)
  PROVE  KnownGood(tt, more, kn)
  BY SoundGrown DEF KnownGood

LEMMA RememberForest ==
  ASSUME NEW st, NEW ord, IsForest(st), ArenasGood(st, ord), NEW op \in Recursive, NEW args, NEW r
  PROVE  LET tt == Remember(st, op, args, r)
             key == <<op, args>>
         IN /\ IsForest(tt) /\ \A side \in Sides : SameNodes(st[side], tt[side])
            /\ \A o \in Recursive : \/ Memo(tt, o) = Memo(st, o)
                                    \/ Memo(tt, o) = Extend(Memo(st, o), key, r)
<1> DEFINE tt == Remember(st, op, args, r)
           key == <<op, args>>
<1>1. PICK b, v, c, h : st = Forest(b, v, c, h)
  BY DEF IsForest
<1>2. st.b = b /\ st.v = v /\ st.compared = c /\ st.chosen = h /\ st["b"] = b /\ st["v"] = v
  BY <1>1 DEF Forest
<1>3. PICK n1, f1, t1, m1 : b = Arena(n1, f1, t1, m1)
  <2>1. ArenaType(st["b"])
    BY DEF ArenasGood, ArenaGood, Sides
  <2> QED BY <1>2, <2>1 DEF ArenaType
<1>4. PICK n2, f2, t2, m2 : v = Arena(n2, f2, t2, m2)
  <2>1. ArenaType(st["v"])
    BY DEF ArenasGood, ArenaGood, Sides
  <2> QED BY <1>2, <2>1 DEF ArenaType
<1>5. SameNodes(b, b) /\ SameNodes(v, v)
  BY <1>3, <1>4 DEF SameNodes
<1>6. CASE op \in {"veq", "vlt"}
  <2>1. tt = [st EXCEPT !.compared = Extend(@, key, r)]
    BY <1>6 DEF Remember
  <2> HIDE DEF tt, key
  <2>2. tt = Forest(b, v, Extend(c, key, r), h)
    BY <1>1, <2>1 DEF Forest
  <2>3. tt.b = b /\ tt.v = v /\ tt.compared = Extend(c, key, r) /\ tt.chosen = h
    BY <2>2 DEF Forest
  <2>4. \A side \in Sides : SameNodes(st[side], tt[side]) /\ tt[side] = st[side]
    BY <1>2, <1>5, <2>3 DEF Sides
  <2>5. \A o \in Recursive : \/ Memo(tt, o) = Memo(st, o)
                             \/ Memo(tt, o) = Extend(Memo(st, o), key, r)
    BY <1>2, <2>3, <2>4, WhichMemo, SidesOf
  <2> QED BY <2>2, <2>4, <2>5 DEF tt, key, IsForest
<1>7. CASE op = "vite"
  <2>1. tt = [st EXCEPT !.chosen = Extend(@, key, r)]
    BY <1>7 DEF Remember
  <2> HIDE DEF tt, key
  <2>2. tt = Forest(b, v, c, Extend(h, key, r))
    BY <1>1, <2>1 DEF Forest
  <2>3. tt.b = b /\ tt.v = v /\ tt.compared = c /\ tt.chosen = Extend(h, key, r)
    BY <2>2 DEF Forest
  <2>4. \A side \in Sides : SameNodes(st[side], tt[side]) /\ tt[side] = st[side]
    BY <1>2, <1>5, <2>3 DEF Sides
  <2>5. \A o \in Recursive : \/ Memo(tt, o) = Memo(st, o)
                             \/ Memo(tt, o) = Extend(Memo(st, o), key, r)
    BY <1>2, <2>3, <2>4, WhichMemo, SidesOf
  <2> QED BY <2>2, <2>4, <2>5 DEF tt, key, IsForest
<1>8. CASE op \in Logic \cup Arithmetic
  <2>1. tt = [st EXCEPT ![ResultSide(op)].memo = Extend(@, key, r)]
    BY <1>8 DEF Remember, Logic, Arithmetic
  <2> HIDE DEF key
  <2>2. CASE ResultSide(op) = "b"
    <3>1. tt = [st EXCEPT !["b"].memo = Extend(@, key, r)]
      BY <2>1, <2>2
    <3> HIDE DEF tt
    <3> DEFINE b2 == Arena(n1, f1, t1, Extend(m1, key, r))
    <3>2. tt = Forest(b2, v, c, h)
      BY <1>1, <1>3, <3>1 DEF Forest, Arena
    <3>3. SameNodes(b, b2) /\ b2.memo = Extend(b.memo, key, r)
      BY <1>3 DEF SameNodes, Arena
    <3> HIDE DEF b2
    <3>4. tt.b = b2 /\ tt.v = v /\ tt.compared = c /\ tt.chosen = h /\ tt["b"] = b2 /\ tt["v"] = v
      BY <3>2 DEF Forest
    <3>5. \A side \in Sides : SameNodes(st[side], tt[side])
      BY <1>2, <1>5, <3>3, <3>4 DEF Sides
    <3>6. \A o \in Recursive : \/ Memo(tt, o) = Memo(st, o)
                               \/ Memo(tt, o) = Extend(Memo(st, o), key, r)
      <4>1. \A side \in Sides : \/ tt[side].memo = st[side].memo
                                \/ tt[side].memo = Extend(st[side].memo, key, r)
        BY <1>2, <3>3, <3>4 DEF Sides
      <4> QED BY <1>2, <3>4, <4>1, WhichMemo, SidesOf
    <3> QED BY <3>2, <3>5, <3>6 DEF tt, key, IsForest
  <2>3. CASE ResultSide(op) = "v"
    <3>1. tt = [st EXCEPT !["v"].memo = Extend(@, key, r)]
      BY <2>1, <2>3
    <3> HIDE DEF tt
    <3> DEFINE v2 == Arena(n2, f2, t2, Extend(m2, key, r))
    <3>2. tt = Forest(b, v2, c, h)
      BY <1>1, <1>4, <3>1 DEF Forest, Arena
    <3>3. SameNodes(v, v2) /\ v2.memo = Extend(v.memo, key, r)
      BY <1>4 DEF SameNodes, Arena
    <3> HIDE DEF v2
    <3>4. tt.b = b /\ tt.v = v2 /\ tt.compared = c /\ tt.chosen = h /\ tt["b"] = b /\ tt["v"] = v2
      BY <3>2 DEF Forest
    <3>5. \A side \in Sides : SameNodes(st[side], tt[side])
      BY <1>2, <1>5, <3>3, <3>4 DEF Sides
    <3>6. \A o \in Recursive : \/ Memo(tt, o) = Memo(st, o)
                               \/ Memo(tt, o) = Extend(Memo(st, o), key, r)
      <4>1. \A side \in Sides : \/ tt[side].memo = st[side].memo
                                \/ tt[side].memo = Extend(st[side].memo, key, r)
        BY <1>2, <3>3, <3>4 DEF Sides
      <4> QED BY <1>2, <3>4, <4>1, WhichMemo, SidesOf
    <3> QED BY <3>2, <3>5, <3>6 DEF tt, key, IsForest
  <2> QED BY <2>2, <2>3, SidesOf DEF Sides
<1> QED BY <1>6, <1>7, <1>8, WhichMemo

(* A call remembers an answer to the operands it looked up.                *)
LEMMA RememberSound ==
  ASSUME NEW st, NEW ord, IsForest(st), ArenasGood(st, ord), MemoGood(st, ord),
         NEW op \in Recursive, NEW args, NEW r, Sound(st, ord, op, args, r)
  PROVE  LET tt == Remember(st, op, args, r)
         IN IsForest(tt) /\ Grown(st, ord, tt, ord) /\ MemoGood(tt, ord)
<1> DEFINE tt == Remember(st, op, args, r)
           key == <<op, args>>
<1>1. /\ IsForest(tt) /\ \A side \in Sides : SameNodes(st[side], tt[side])
      /\ \A o \in Recursive : \/ Memo(tt, o) = Memo(st, o)
                              \/ Memo(tt, o) = Extend(Memo(st, o), key, r)
  BY RememberForest
<1> HIDE DEF tt
<1>2. Grown(st, ord, tt, ord)
  BY <1>1, SameNodesGrow, HeaderFacts DEF ArenasGood
<1>3. ASSUME NEW o \in Recursive, NEW k \in DOMAIN Memo(tt, o), k[1] = o
      PROVE  Sound(tt, ord, o, k[2], Memo(tt, o)[k])
  <2>1. CASE k = key /\ Memo(tt, o)[k] = r
    <3>1. o = op /\ k[2] = args
      BY <1>3, <2>1
    <3> QED BY <1>2, <2>1, <3>1, SoundGrown
  <2>2. CASE k \in DOMAIN Memo(st, o) /\ Memo(tt, o)[k] = Memo(st, o)[k]
    BY <1>2, <1>3, <2>2, SoundGrown DEF MemoGood
  <2>3. \/ k = key /\ Memo(tt, o)[k] = r
        \/ k \in DOMAIN Memo(st, o) /\ Memo(tt, o)[k] = Memo(st, o)[k]
    <3> DEFINE m == Memo(st, o)
    <3> HIDE DEF key, m
    <3>1. Memo(tt, o) = m \/ Memo(tt, o) = Extend(m, key, r)
      BY <1>1 DEF m
    <3>2. CASE Memo(tt, o) = m
      BY <1>3, <3>2 DEF m
    <3>3. CASE Memo(tt, o) = Extend(m, key, r)
      <4>1. k \in DOMAIN m \cup {key} /\ Memo(tt, o)[k] = IF k = key THEN r ELSE m[k]
        BY <1>3, <3>3 DEF Extend
      <4> QED BY <4>1 DEF m
    <3> QED BY <3>1, <3>2, <3>3
  <2> QED BY <2>1, <2>2, <2>3
<1> QED BY <1>1, <1>2, <1>3 DEF tt, MemoGood

(* A slot that was built for a call is the answer in the forest it is in.  *)
LEMMA BuiltSound ==
  ASSUME NEW st, NEW ord, IsForest(st), ArenasGood(st, ord), NEW op \in Recursive, NEW args,
         InPlace(st, op, args), NEW r, ArenaGood(ResultSide(op), r[2], ord),
         Preserves(st[ResultSide(op)], r[2]), r[2].memo = st[ResultSide(op)].memo,
         r[1] \in LiveSlots(r[2]),
         \E k \in Operands(op) : Level(r[2], r[1]) <= OperandLevel(st, op, args, k),
         \A s \in Assignments :
           Follow(r[2], ord, r[1], s) \in AllowedFor(op, OutcomesOf(st, ord, op, args, s))
  PROVE  LET w == Built(st, ResultSide(op), r)
         IN /\ IsForest(w[2]) /\ SameMemos(st, w[2]) /\ Grown(st, ord, w[2], ord)
            /\ Sound(w[2], ord, op, args, w[1])
<1> DEFINE side == ResultSide(op)
           w == Built(st, side, r)
           tt == w[2]
<1>1. side \in Sides
  BY SidesOf
<1>2. w[1] = r[1] /\ IsForest(tt) /\ tt[side] = r[2] /\ SameMemos(st, tt) /\ Grown(st, ord, tt, ord)
  <2> HIDE DEF side
  <2> QED BY <1>1, BuiltGrows DEF side
<1> HIDE DEF w, tt
<1>3. InPlace(tt, op, args)
  BY <1>2, SoundGrown
<1>4. /\ \A k \in Operands(op) : OperandLevel(tt, op, args, k) = OperandLevel(st, op, args, k)
      /\ \A s \in Assignments : OutcomesOf(tt, ord, op, args, s) = OutcomesOf(st, ord, op, args, s)
  BY <1>2, <1>3, GrownIsMoved, OperandsMoved
<1>5. Sound(tt, ord, op, args, r[1])
  BY <1>2, <1>3, <1>4 DEF Sound
<1> QED BY <1>2, <1>5 DEF w, tt

LEMMA SortedInPlace ==
  ASSUME NEW st, NEW op \in Recursive, NEW args, InPlace(st, op, args)
  PROVE  InPlace(st, op, Sorted(op, args))
<1>1. CASE Sorted(op, args) = args
  BY <1>1
<1>2. CASE op \in Commutative /\ Sorted(op, args) = <<args[2], args[1]>>
  <2>1. Operands(op) = {1, 2} /\ ArgSide(op, 1) = ArgSide(op, 2)
    BY <1>2, OperandsOf, SidesOf DEF Commutative, Logic, Arithmetic
  <2>2. DOMAIN <<args[2], args[1]>> = {1, 2}
    OBVIOUS
  <2>3. <<args[2], args[1]>>[1] = args[2] /\ <<args[2], args[1]>>[2] = args[1]
    OBVIOUS
  <2> QED BY <1>2, <2>1, <2>2, <2>3 DEF InPlace
<1> QED BY <1>1, <1>2 DEF Sorted

----------------------------------------------------------------------------
(* Every step keeps the invariant, and moves the forest.                   *)
Stepped == EngineInv' /\ Moved(forest, order, forest', order')

LEMMA AnswerKept ==
  ASSUME EngineInv, NEW op \in Recursive, NEW operands, NEW r,
         order' = order, known' = known \cup {<<op, operands, r>>},
         IsForest(forest'), MemoGood(forest', order), Grown(forest, order, forest', order),
         Sound(forest', order, op, operands, r)
  PROVE  Stepped
<1>1. KnownGood(forest, order, known)
  BY DEF EngineInv, Inv
<1>2. KnownGood(forest', order, known)
  BY <1>1, KnownGrown
<1>3. \A f \in {<<op, operands, r>>} :
        f[1] \in Recursive /\ Sound(forest', order, f[1], f[2], f[3])
  OBVIOUS
<1>4. KnownGood(forest', order, known')
  BY <1>2, <1>3 DEF KnownGood
<1>5. ArenasGood(forest', order)
  BY DEF Grown
<1> QED BY <1>4, <1>5, GrownIsMoved DEF Stepped, EngineInv, Inv

LEMMA ImmediateStep ==
  ASSUME EngineInv, NEW op \in Recursive, NEW operands, DOMAIN operands = Operands(op), NEW r,
         Sound(forest, order, op, Sorted(op, operands), r), Immediate(op, operands, r)
  PROVE  Stepped
<1>1. /\ forest' = forest /\ order' = order /\ known' = known \cup {<<op, operands, r>>}
      /\ IsForest(forest) /\ ArenasGood(forest, order) /\ MemoGood(forest, order)
  BY DEF Immediate, Return, EngineInv, Inv
<1>2. Sound(forest, order, op, operands, r) /\ Grown(forest, order, forest, order)
  BY <1>1, SoundSorted, GrownItself
<1>3. IsForest(forest') /\ MemoGood(forest', order) /\ Grown(forest, order, forest', order)
      /\ Sound(forest', order, op, operands, r)
  BY <1>1, <1>2
<1> QED BY <1>1, <1>3, AnswerKept

LEMMA FinishedStep ==
  ASSUME EngineInv, NEW op \in Recursive, NEW operands, DOMAIN operands = Operands(op), NEW r,
         IsForest(r[2]), SameMemos(forest, r[2]), Grown(forest, order, r[2], order),
         Sound(r[2], order, op, Sorted(op, operands), r[1]),
         Finished(op, operands, Sorted(op, operands), r)
  PROVE  Stepped
<1> DEFINE args == Sorted(op, operands)
           tt == r[2]
           uu == Remember(tt, op, args, r[1])
<1> HIDE DEF args
<1>1. /\ forest' = uu /\ order' = order /\ known' = known \cup {<<op, operands, r[1]>>}
      /\ MemoGood(forest, order)
  BY DEF Finished, Return, EngineInv, Inv, args
<1>2. ArenasGood(tt, order) /\ MemoGood(tt, order) /\ Sound(tt, order, op, args, r[1])
  BY <1>1, MemoGrown DEF Grown, args
<1>3. IsForest(uu) /\ Grown(tt, order, uu, order) /\ MemoGood(uu, order)
  <2> HIDE DEF tt
  <2> QED BY <1>2, RememberSound DEF tt
<1>4. Grown(forest, order, uu, order)
  BY <1>3, GrownTwice
<1>5. ArenasGood(uu, order) /\ Sound(uu, order, op, args, r[1])
  BY <1>2, <1>3, SoundGrown DEF Grown
<1>6. Sound(uu, order, op, operands, r[1])
  BY <1>5, SoundSorted DEF args
<1> HIDE DEF uu
<1> QED BY <1>1, <1>3, <1>4, <1>6, AnswerKept

LEMMA NegateStep ==
  ASSUME EngineInv, NEW op \in Recursive, NEW operands, InPlace(forest, op, operands),
         Negate(op, operands, Sorted(op, operands))
  PROVE  Stepped
<1> DEFINE args == Sorted(op, operands)
<1>0. InPlace(forest, op, args)
  BY SortedInPlace
<1> HIDE DEF args
<1>1. IsForest(forest) /\ ArenasGood(forest, order) /\ KnownGood(forest, order, known)
  BY DEF EngineInv, Inv
<1>2. PICK r : /\ <<"not", OtherThanOne(args), r>> \in known
               /\ Finished(op, operands, args, <<r, forest>>)
  BY DEF Negate, args
<1>3. Sound(forest, order, "not", OtherThanOne(args), r)
  <2>1. \A f \in known : Sound(forest, order, f[1], f[2], f[3])
    BY <1>1 DEF KnownGood
  <2> QED BY <1>2, <2>1
<1>4. Negates(op, args)
  BY DEF Negate, args
<1>5. Sound(forest, order, op, args, r)
  BY <1>0, <1>1, <1>3, <1>4, NegateSound
<1>6. SameMemos(forest, forest) /\ Grown(forest, order, forest, order)
  BY <1>1, GrownItself DEF SameMemos
<1>7. DOMAIN operands = Operands(op)
  BY DEF InPlace
<1> DEFINE w == <<r, forest>>
<1>8. w[1] = r /\ w[2] = forest
  OBVIOUS
<1>9. Finished(op, operands, args, w)
  BY <1>2
<1> HIDE DEF w
<1> QED BY <1>1, <1>5, <1>6, <1>7, <1>8, <1>9, FinishedStep DEF args

LEMMA SettleStep ==
  ASSUME EngineInv, NEW op \in Recursive, NEW operands, InPlace(forest, op, operands),
         Settle(op, operands, Sorted(op, operands))
  PROVE  Stepped
<1> DEFINE args == Sorted(op, operands)
           r == Settled(forest, op, args)
           w == <<r, forest>>
<1>0. InPlace(forest, op, args)
  BY SortedInPlace
<1> HIDE DEF args
<1>1. IsForest(forest) /\ ArenasGood(forest, order)
  BY DEF EngineInv, Inv
<1>2. r # NoId /\ Finished(op, operands, args, w)
  BY DEF Settle, args
<1>3. Sound(forest, order, op, args, r)
  BY <1>0, <1>1, <1>2, SettleSound
<1>4. SameMemos(forest, forest) /\ Grown(forest, order, forest, order)
  BY <1>1, GrownItself DEF SameMemos
<1>5. DOMAIN operands = Operands(op)
  BY DEF InPlace
<1>6. w[1] = r /\ w[2] = forest
  OBVIOUS
<1> HIDE DEF w, r
<1> QED BY <1>1, <1>2, <1>3, <1>4, <1>5, <1>6, FinishedStep DEF args

LEMMA ComputeLeafStep ==
  ASSUME EngineInv, NEW op \in Recursive, NEW operands, InPlace(forest, op, operands),
         ComputeLeaf(op, operands, Sorted(op, operands))
  PROVE  Stepped
<1> DEFINE args == Sorted(op, operands)
           r == ComputedNode(forest, op, args)
           w == Built(forest, "v", r)
<1>0. InPlace(forest, op, args)
  BY SortedInPlace
<1> HIDE DEF args
<1>1. IsForest(forest) /\ ArenasGood(forest, order)
  BY DEF EngineInv, Inv
<1>2. /\ Settled(forest, op, args) = NoId /\ ~ DividesByZero(forest, op, args)
      /\ Computes(forest, op, args) /\ Finished(op, operands, args, w)
  BY DEF ComputeLeaf, Proceeds, args
<1>3. /\ ResultSide(op) = "v"
      /\ ArenaGood("v", r[2], order) /\ Preserves(forest.v, r[2]) /\ r[2].memo = forest.v.memo
      /\ r[1] \in LiveSlots(r[2]) /\ Level(r[2], r[1]) = -1
      /\ \A s \in Assignments :
           Follow(r[2], order, r[1], s) \in AllowedFor(op, OutcomesOf(forest, order, op, args, s))
  BY <1>0, <1>1, <1>2, ComputeLeafMeans
<1> HIDE DEF r
<1>4. \E k \in Operands(op) : Level(r[2], r[1]) <= OperandLevel(forest, op, args, k)
  BY <1>0, <1>1, <1>3, OperandFacts
<1>5. /\ IsForest(w[2]) /\ SameMemos(forest, w[2]) /\ Grown(forest, order, w[2], order)
      /\ Sound(w[2], order, op, args, w[1])
  BY <1>0, <1>1, <1>3, <1>4, BuiltSound
<1>6. DOMAIN operands = Operands(op)
  BY DEF InPlace
<1> HIDE DEF w
<1> QED BY <1>2, <1>5, <1>6, FinishedStep DEF args

LEMMA ExpandStep ==
  ASSUME EngineInv, NEW op \in Recursive, NEW operands, InPlace(forest, op, operands),
         Expand(op, operands, Sorted(op, operands))
  PROVE  Stepped
<1> DEFINE args == Sorted(op, operands)
           side == ResultSide(op)
<1>0. InPlace(forest, op, args)
  BY SortedInPlace
<1> HIDE DEF args
<1>1. /\ IsForest(forest) /\ ArenasGood(forest, order)
      /\ KnownGood(forest, order, known)
  BY DEF EngineInv, Inv
<1>2. /\ Chosen(op, args) = NoId /\ Settled(forest, op, args) = NoId
      /\ ~ Negates(op, args) /\ ~ Computes(forest, op, args)
  BY DEF Expand, Proceeds, args
<1>3. PICK results \in [1 .. Width(forest, op, args) -> LiveSlots(forest[side])] :
        /\ \A n \in DOMAIN results :
             <<op, Cofactors(forest, op, args, n), results[n]>> \in known
        /\ Finished(op, operands, args, ExpandOn(op, args, results))
  BY DEF Expand, args
<1>4. \A n \in DOMAIN results : Sound(forest, order, op, Cofactors(forest, op, args, n), results[n])
  <2>1. \A f \in known : Sound(forest, order, f[1], f[2], f[3])
    BY <1>1 DEF KnownGood
  <2> QED BY <1>3, <2>1
<1>5. \E k \in Operands(op) : IsInner(forest[ArgSide(op, k)], args[k])
  BY <1>0, <1>1, <1>2, SomeInner
<1> DEFINE r == MakeNode(forest[side], Top(forest, op, args), results)
           w == Built(forest, side, r)
<1>6. /\ ArenaGood(side, r[2], order) /\ Preserves(forest[side], r[2])
      /\ r[2].memo = forest[side].memo
      /\ r[1] \in LiveSlots(r[2]) /\ Level(r[2], r[1]) <= Top(forest, op, args)
      /\ \A s \in Assignments :
           Follow(r[2], order, r[1], s) \in AllowedFor(op, OutcomesOf(forest, order, op, args, s))
  BY <1>0, <1>1, <1>3, <1>4, <1>5, ExpandMeans
<1>7. Finished(op, operands, args, w)
  BY <1>3 DEF ExpandOn
<1> HIDE DEF r
<1>8. \E k \in Operands(op) : Level(r[2], r[1]) <= OperandLevel(forest, op, args, k)
  <2>1. \E k \in Operands(op) : OperandLevel(forest, op, args, k) = Top(forest, op, args)
    BY <1>0, <1>1, TopFacts
  <2> QED BY <1>6, <2>1
<1>9. /\ IsForest(w[2]) /\ SameMemos(forest, w[2]) /\ Grown(forest, order, w[2], order)
      /\ Sound(w[2], order, op, args, w[1])
  BY <1>0, <1>1, <1>6, <1>8, BuiltSound
<1>10. DOMAIN operands = Operands(op)
  BY DEF InPlace
<1> HIDE DEF w
<1> QED BY <1>7, <1>9, <1>10, FinishedStep DEF args

LEMMA CallStep ==
  ASSUME EngineInv, NEW op \in Recursive, NEW operands \in [Operands(op) -> AnySlots],
         InUse(op, operands), Call(op, operands)
  PROVE  Stepped
<1> DEFINE args == Sorted(op, operands)
<1>1. InPlace(forest, op, operands) /\ DOMAIN operands = Operands(op)
  BY DEF InUse, InPlace
<1>2. InPlace(forest, op, args)
  BY <1>1, SortedInPlace
<1>3. ArenasGood(forest, order) /\ MemoGood(forest, order)
  BY DEF EngineInv, Inv
<1>4. CASE Decide(op, operands, args)
  <2>1. Chosen(op, args) # NoId /\ Immediate(op, operands, Chosen(op, args))
    BY <1>4 DEF Decide
  <2> HIDE DEF args
  <2>2. Sound(forest, order, op, args, Chosen(op, args))
    BY <1>2, <1>3, <2>1, DecideSound
  <2> QED BY <1>1, <2>1, <2>2, ImmediateStep DEF args
<1>5. CASE Hit(op, operands, args)
  <2> DEFINE r == Memo(forest, op)[<<op, args>>]
  <2>1. <<op, args>> \in DOMAIN Memo(forest, op) /\ Immediate(op, operands, r)
    BY <1>5 DEF Hit
  <2> HIDE DEF args
  <2>2. Sound(forest, order, op, args, r)
    BY <1>3, <2>1 DEF MemoGood
  <2> HIDE DEF r
  <2> QED BY <1>1, <2>1, <2>2, ImmediateStep DEF args
<1>6. CASE DivideByZero(op, operands, args)
  <2>1. DividesByZero(forest, op, args) /\ Immediate(op, operands, VUndet)
    BY <1>6 DEF DivideByZero
  <2> HIDE DEF args
  <2>2. Sound(forest, order, op, args, VUndet)
    BY <1>2, <1>3, <2>1, DivideSound
  <2> QED BY <1>1, <2>1, <2>2, ImmediateStep DEF args
<1>7. CASE Settle(op, operands, args)
  BY <1>1, <1>7, SettleStep
<1>8. CASE Negate(op, operands, args)
  BY <1>1, <1>8, NegateStep
<1>9. CASE ComputeLeaf(op, operands, args)
  BY <1>1, <1>9, ComputeLeafStep
<1>10. CASE Expand(op, operands, args)
  BY <1>1, <1>10, ExpandStep
<1> QED BY <1>4, <1>5, <1>6, <1>7, <1>8, <1>9, <1>10 DEF Call

LEMMA CreateHeaderStep ==
  ASSUME EngineInv, NEW x \in Label, CreateHeader(x)
  PROVE  Stepped
<1>1. /\ x \notin Range(order) /\ order' = Append(order, x) /\ forest' = forest /\ known' = known
      /\ IsForest(forest) /\ ArenasGood(forest, order) /\ MemoGood(forest, order)
      /\ KnownGood(forest, order, known) /\ Headers(order)
  BY DEF CreateHeader, EngineInv, Inv, ArenasGood
<1> DEFINE more == Append(order, x)
<1>2. /\ order \in Seq(Label) /\ more \in Seq(Label) /\ Len(more) = Len(order) + 1
      /\ Len(order) \in Nat /\ DOMAIN order = 1 .. Len(order) /\ DOMAIN more = 1 .. Len(order) + 1
      /\ more[Len(order) + 1] = x /\ \A i \in 1 .. Len(order) : more[i] = order[i]
  BY <1>1 DEF Headers
<1>3. \A i \in 1 .. Len(order) : order[i] # x
  BY <1>1, <1>2 DEF Range
<1>4. Headers(more)
  <2>1. \A i, j \in 1 .. Len(order) : order[i] = order[j] => i = j
    BY <1>1, <1>2 DEF Headers, IsInjective
  <2> HIDE DEF more
  <2>2. \A i, j \in DOMAIN more : more[i] = more[j] => i = j
    <3> SUFFICES ASSUME NEW i \in DOMAIN more, NEW j \in DOMAIN more, more[i] = more[j]
                 PROVE  i = j
      OBVIOUS
    <3>1. i \in 1 .. Len(order) \/ i = Len(order) + 1
      BY <1>2
    <3>2. j \in 1 .. Len(order) \/ j = Len(order) + 1
      BY <1>2
    <3> QED BY <1>2, <1>3, <2>1, <3>1, <3>2
  <2> QED BY <1>2, <2>2 DEF Headers, IsInjective
<1>5. Extends(order, more)
  BY <1>2 DEF Extends
<1> HIDE DEF more
<1>6. \A side \in Sides : SameNodes(forest[side], forest[side])
  BY <1>1 DEF ArenasGood, ArenaGood, ArenaType, SameNodes
<1>7. Grown(forest, order, forest, more)
  BY <1>1, <1>4, <1>5, <1>6, SameNodesGrow
<1>8. MemoGood(forest, more) /\ KnownGood(forest, more, known)
  BY <1>1, <1>7, MemoGrown, KnownGrown DEF SameMemos
<1>9. forest' = forest /\ order' = more /\ known' = known
  BY <1>1 DEF more
<1> QED BY <1>1, <1>7, <1>8, <1>9, GrownIsMoved DEF Stepped, EngineInv, Inv, Grown

(* A node or a value was built, and nothing was asked.                     *)
LEMMA BuiltStep ==
  ASSUME EngineInv, NEW side \in Sides, NEW r,
         ArenaGood(side, r[2], order), Preserves(forest[side], r[2]),
         r[2].memo = forest[side].memo,
         forest' = Built(forest, side, r)[2], order' = order, known' = known
  PROVE  Stepped
<1> DEFINE tt == Built(forest, side, r)[2]
<1>1. /\ IsForest(forest) /\ ArenasGood(forest, order) /\ MemoGood(forest, order)
      /\ KnownGood(forest, order, known)
  BY DEF EngineInv, Inv
<1>2. IsForest(tt) /\ SameMemos(forest, tt) /\ Grown(forest, order, tt, order)
  BY <1>1, BuiltGrows
<1>3. forest' = tt
  OBVIOUS
<1> HIDE DEF tt
<1>4. MemoGood(tt, order) /\ KnownGood(tt, order, known)
  BY <1>1, <1>2, MemoGrown, KnownGrown
<1> QED BY <1>2, <1>3, <1>4, GrownIsMoved DEF Stepped, EngineInv, Inv, Grown

LEMMA CreateNodeStep ==
  ASSUME EngineInv, NEW side \in Sides, NEW l, NEW edges, CreateNode(side, l, edges)
  PROVE  Stepped
<1> DEFINE a == forest[side]
           r == MakeNode(a, l, edges)
<1>1. Headers(order) /\ ArenaGood(side, a, order) /\ Edged(a, order, l, edges)
      /\ forest' = Built(forest, side, r)[2] /\ order' = order /\ known' = known
  BY DEF EngineInv, Inv, ArenasGood, CreateNode
<1> HIDE DEF a
<1>2. Leads(side, a, order, l, edges, r)
  BY <1>1, MakeNodeMeans
<1> HIDE DEF r
<1>3. ArenaGood(side, r[2], order) /\ Preserves(a, r[2]) /\ r[2].memo = a.memo
  BY <1>2 DEF Leads
<1> QED BY <1>1, <1>3, BuiltStep DEF a

LEMMA CreateValueStep ==
  ASSUME EngineInv, NEW v \in Int, CreateValue(v)
  PROVE  Stepped
<1> DEFINE r == ValueNode(forest.v, v)
<1>1. /\ "v" \in Sides /\ Headers(order) /\ ArenaGood("v", forest.v, order)
      /\ forest' = Built(forest, "v", r)[2] /\ order' = order /\ known' = known
  BY DEF EngineInv, Inv, ArenasGood, CreateValue, Sides
<1>2. ArenaGood("v", r[2], order) /\ Preserves(forest.v, r[2]) /\ r[2].memo = forest.v.memo
  BY <1>1, ValueNodeMeans
<1> HIDE DEF r
<1> QED BY <1>1, <1>2, BuiltStep

LEMMA ClearCacheStep ==
  ASSUME EngineInv, ClearCache
  PROVE  Stepped
<1> DEFINE tt == ClearCaches(forest)
<1>1. /\ ArenasGood(forest, order) /\ KnownGood(forest, order, known)
      /\ forest' = tt /\ order' = order /\ known' = known
  BY DEF EngineInv, Inv, ClearCache
<1>2. tt = Forest([forest.b EXCEPT !.memo = NoEntries], [forest.v EXCEPT !.memo = NoEntries],
                  NoEntries, NoEntries)
  BY DEF ClearCaches, Forest
<1> HIDE DEF tt
<1>3. /\ tt.b = [forest.b EXCEPT !.memo = NoEntries] /\ tt.v = [forest.v EXCEPT !.memo = NoEntries]
      /\ tt.compared = NoEntries /\ tt.chosen = NoEntries
  BY <1>2 DEF Forest
<1>4. ASSUME NEW side \in Sides
      PROVE  SameNodes(forest[side], tt[side]) /\ tt[side].memo = NoEntries
  <2> DEFINE a == forest[side]
             b == tt[side]
  <2>1. b = [a EXCEPT !.memo = NoEntries]
    BY <1>3 DEF Sides
  <2>2. \E n, f, t, m : a = Arena(n, f, t, m)
    BY <1>1 DEF ArenasGood, ArenaGood, ArenaType
  <2> HIDE DEF a, b
  <2>3. PICK n, f, t, m : a = Arena(n, f, t, m)
    BY <2>2
  <2>4. b = Arena(n, f, t, NoEntries)
    BY <2>1, <2>3 DEF Arena
  <2>5. b.nodes = a.nodes /\ b.free = a.free /\ b.table = a.table /\ b.memo = NoEntries
    BY <2>3, <2>4 DEF Arena
  <2> QED BY <2>4, <2>5 DEF SameNodes, a, b
<1>5. Grown(forest, order, tt, order)
  BY <1>1, <1>4, SameNodesGrow, HeaderFacts DEF ArenasGood
<1>6. \A op \in Recursive : Memo(tt, op) = NoEntries
  BY <1>3, <1>4, WhichMemo, SidesOf
<1>7. DOMAIN NoEntries = {}
  BY DEF NoEntries
<1>8. MemoGood(tt, order)
  BY <1>6, <1>7 DEF MemoGood
<1>9. KnownGood(tt, order, known) /\ IsForest(tt)
  BY <1>1, <1>2, <1>5, KnownGrown DEF IsForest
<1> QED BY <1>1, <1>5, <1>8, <1>9, GrownIsMoved DEF Stepped, EngineInv, Inv, Grown

(* A collection: what is still said is said of slots that stay.            *)
LEMMA CollectStep ==
  ASSUME EngineInv, NEW live, Collect(live)
  PROVE  Stepped
<1> DEFINE tt == Swept(forest, live)
<1>1. /\ Headers(order) /\ ArenasGood(forest, order) /\ MemoGood(forest, order)
      /\ KnownGood(forest, order, known)
      /\ forest' = tt /\ order' = order /\ known' = StillNamed(live)
      /\ \A side \in Sides : Closed(side, forest[side], live[side])
  BY DEF EngineInv, Inv, ArenasGood, Collect
<1>2. tt = Forest(SweptArena(forest.b, live["b"]), SweptArena(forest.v, live["v"]),
                  NoEntries, NoEntries)
  BY DEF Swept, Forest
<1> HIDE DEF tt
<1>3. /\ tt["b"] = SweptArena(forest["b"], live["b"]) /\ tt["v"] = SweptArena(forest["v"], live["v"])
      /\ tt.compared = NoEntries /\ tt.chosen = NoEntries
  BY <1>2 DEF Forest
<1>4. ASSUME NEW side \in Sides
      PROVE  /\ ArenaGood(side, tt[side], order) /\ LiveSlots(tt[side]) = live[side]
             /\ Preserves(tt[side], forest[side])
             /\ DOMAIN tt[side].memo = LiveEntries(forest[side], live[side])
             /\ \A key \in DOMAIN tt[side].memo : tt[side].memo[key] = forest[side].memo[key]
  <2> DEFINE a == forest[side]
             b == tt[side]
             keep == live[side]
  <2>1. b = SweptArena(a, keep) /\ ArenaGood(side, a, order) /\ Closed(side, a, keep)
    BY <1>1, <1>3 DEF Sides, ArenasGood
  <2> HIDE DEF a, b, keep
  <2>2. /\ ArenaGood(side, b, order) /\ LiveSlots(b) = keep /\ \A i : At(b, i) = At(a, i)
        /\ DOMAIN b.memo = LiveEntries(a, keep)
        /\ \A key \in DOMAIN b.memo : b.memo[key] = a.memo[key]
    BY <2>1, SweptArenaOK
  <2>3. Preserves(b, a)
    BY <2>1, <2>2 DEF Preserves, Closed
  <2> QED BY <2>2, <2>3 DEF a, b, keep
<1>5. Moved(forest, order, tt, order)
  BY <1>1, <1>4, HeaderFacts DEF Moved, ArenasGood
<1>6. ASSUME NEW op \in Recursive, NEW args, InPlace(forest, op, args),
             \A k \in Operands(op) : args[k] \in live[ArgSide(op, k)]
      PROVE  InPlace(tt, op, args)
  BY <1>4, <1>6, SidesOf DEF InPlace
<1>7. ASSUME NEW op \in Recursive, NEW key \in DOMAIN Memo(tt, op), key[1] = op
      PROVE  Sound(tt, order, op, key[2], Memo(tt, op)[key])
  <2>1. CASE op \in Logic \cup Arithmetic
    <3> DEFINE side == ResultSide(op)
               r == Memo(tt, op)[key]
    <3>1. /\ side \in Sides /\ Memo(tt, op) = tt[side].memo /\ Memo(forest, op) = forest[side].memo
          /\ \A k : ArgSide(op, k) = side
      BY <2>1, SidesOf, WhichMemo
    <3> HIDE DEF side
    <3>2. key \in LiveEntries(forest[side], live[side]) /\ r = forest[side].memo[key]
      BY <1>4, <1>7, <3>1
    <3>3. /\ key \in DOMAIN Memo(forest, op) /\ r = Memo(forest, op)[key]
          /\ r \in live[side] /\ \A k \in DOMAIN key[2] : key[2][k] \in live[side]
      BY <3>1, <3>2 DEF LiveEntries
    <3> HIDE DEF r
    <3>4. Sound(forest, order, op, key[2], r)
      BY <1>1, <1>7, <3>3 DEF MemoGood
    <3>5. InPlace(forest, op, key[2]) /\ DOMAIN key[2] = Operands(op)
      BY <3>4 DEF Sound, InPlace
    <3>6. InPlace(tt, op, key[2])
      BY <1>6, <3>1, <3>3, <3>5
    <3>7. r \in LiveSlots(tt[ResultSide(op)])
      BY <1>4, <3>1, <3>3 DEF side
    <3> QED BY <1>5, <3>4, <3>6, <3>7, SoundMoved DEF r
  <2>2. CASE op \in {"veq", "vlt", "vite"}
    <3>1. Memo(tt, op) = NoEntries
      BY <1>3, <2>2, WhichMemo
    <3>2. DOMAIN NoEntries = {}
      BY DEF NoEntries
    <3> QED BY <1>7, <3>1, <3>2
  <2> QED BY <2>1, <2>2, WhichMemo
<1>8. ASSUME NEW f \in StillNamed(live)
      PROVE  f[1] \in Recursive /\ Sound(tt, order, f[1], f[2], f[3])
  <2>1. /\ f \in known /\ f[3] \in live[ResultSide(f[1])]
        /\ \A k \in Operands(f[1]) : f[2][k] \in live[ArgSide(f[1], k)]
    BY DEF StillNamed
  <2>2. f[1] \in Recursive /\ Sound(forest, order, f[1], f[2], f[3])
    BY <1>1, <2>1 DEF KnownGood
  <2> DEFINE op == f[1]
             args == f[2]
             r == f[3]
  <2>3. InPlace(forest, op, args) /\ ResultSide(op) \in Sides
    BY <2>2, SidesOf DEF Sound
  <2>4. InPlace(tt, op, args)
    BY <1>6, <2>1, <2>2, <2>3
  <2>5. r \in LiveSlots(tt[ResultSide(op)])
    BY <1>4, <2>1, <2>3
  <2> QED BY <1>5, <2>2, <2>4, <2>5, SoundMoved
<1>9. IsForest(tt) /\ MemoGood(tt, order) /\ KnownGood(tt, order, known')
  BY <1>1, <1>2, <1>7, <1>8 DEF IsForest, MemoGood, KnownGood
<1> QED BY <1>1, <1>5, <1>9 DEF Stepped, EngineInv, Inv, Moved

----------------------------------------------------------------------------
(* The invariant.                                                          *)
LEMMA EngineInitially ==
  ASSUME EngineInit
  PROVE  EngineInv
<1> DEFINE b == NewArena("b")
           v == NewArena("v")
<1>1. forest = NewForest /\ order = <<>> /\ known = {}
  BY DEF EngineInit
<1>2. NewForest = Forest(b, v, NoEntries, NoEntries)
  BY DEF NewForest, Forest
<1>3. DOMAIN NoEntries = {}
  BY DEF NoEntries
<1>4. ASSUME NEW side \in Sides
      PROVE  ArenaGood(side, NewArena(side), <<>>) /\ NewArena(side).memo = NoEntries
  <2> DEFINE a == NewArena(side)
             nodes == TerminalNodes(side)
  <2>1. /\ a = Arena(nodes, {}, NoEntries, NoEntries)
        /\ a.nodes = nodes /\ a.free = {} /\ a.table = NoEntries /\ a.memo = NoEntries
    BY DEF NewArena, Arena
  <2> HIDE DEF a
  <2>2. \E S : nodes \in Seq(S)
    <3>1. <<Leaf(0), Leaf(1), Leaf(Undet)>> \in Seq({Leaf(0), Leaf(1), Leaf(Undet)})
      OBVIOUS
    <3>2. <<Leaf(Undet)>> \in Seq({Leaf(Undet)})
      OBVIOUS
    <3> QED BY <3>1, <3>2, TerminalsOf DEF Sides
  <2>3. Slots(a) = Terminals(side)
    <3>1. Len(<<Leaf(0), Leaf(1), Leaf(Undet)>>) = 3 /\ Len(<<Leaf(Undet)>>) = 1
      OBVIOUS
    <3>2. 0 .. 3 - 1 = {0, 1, 2} /\ 0 .. 1 - 1 = {0}
      OBVIOUS
    <3>3. side = "b" => Slots(a) = {0, 1, 2}
      BY <2>1, <3>1, <3>2, TerminalsOf DEF Slots
    <3>4. side = "v" => Slots(a) = {0}
      BY <2>1, <3>1, <3>2, TerminalsOf DEF Slots
    <3> QED BY <3>3, <3>4, TerminalsOf DEF Sides
  <2> HIDE DEF nodes
  <2>4. LiveSlots(a) = Terminals(side) /\ Made(side, a) = {}
    BY <2>1, <2>3 DEF LiveSlots, Made
  <2>5. ArenaType(a)
    BY <2>1, <2>2 DEF ArenaType
  <2>6. TerminalsInPlace(side, a)
    BY <2>1, <2>4 DEF TerminalsInPlace, At, nodes
  <2>7. MadeWell(side, a, <<>>) /\ TableExact(side, a)
    BY <1>3, <2>1, <2>4 DEF MadeWell, TableExact
  <2> QED BY <2>1, <2>5, <2>6, <2>7 DEF ArenaGood, ArenaOK, a
<1>5. Headers(<<>>)
  BY DEF Headers, IsInjective
<1>6. NewForest["b"] = b /\ NewForest["v"] = v /\ NewForest.compared = NoEntries
      /\ NewForest.chosen = NoEntries
  BY <1>2 DEF Forest
<1>7. ArenasGood(NewForest, <<>>)
  BY <1>4, <1>5, <1>6 DEF ArenasGood, Sides
<1>8. \A op \in Recursive : Memo(NewForest, op) = NoEntries
  <2>1. \A side \in Sides : NewForest[side].memo = NoEntries
    BY <1>4, <1>6 DEF Sides
  <2> QED BY <1>6, <2>1, WhichMemo, SidesOf
<1>9. MemoGood(NewForest, <<>>)
  BY <1>3, <1>8 DEF MemoGood
<1>10. IsForest(NewForest)
  BY <1>2 DEF IsForest
<1>11. KnownGood(NewForest, <<>>, {})
  BY DEF KnownGood
<1> QED BY <1>1, <1>7, <1>9, <1>10, <1>11 DEF EngineInv, Inv

LEMMA NextStep ==
  ASSUME EngineInv, EngineNext
  PROVE  Stepped
<1>1. ASSUME NEW x \in Label, CreateHeader(x)
      PROVE  Stepped
  BY <1>1, CreateHeaderStep
<1>2. ASSUME NEW side \in Sides, NEW l \in 0 .. Len(order) - 1,
             NEW edges \in [1 .. States[order[l + 1]] -> LiveSlots(forest[side])],
             CreateNode(side, l, edges)
      PROVE  Stepped
  BY <1>2, CreateNodeStep
<1>3. ASSUME NEW v \in Int, CreateValue(v)
      PROVE  Stepped
  BY <1>3, CreateValueStep
<1>4. ASSUME NEW op \in Recursive, NEW operands \in [Operands(op) -> AnySlots],
             InUse(op, operands), Call(op, operands)
      PROVE  Stepped
  BY <1>4, CallStep
<1>5. CASE ClearCache
  BY <1>5, ClearCacheStep
<1>6. ASSUME NEW live \in [Sides -> SUBSET AnySlots], Collect(live)
      PROVE  Stepped
  BY <1>6, CollectStep
<1> QED BY <1>1, <1>2, <1>3, <1>4, <1>5, <1>6 DEF EngineNext

LEMMA EngineInvHolds == EngineSpec => []EngineInv
<1>1. EngineInit => EngineInv
  BY EngineInitially
<1>2. EngineInv /\ [EngineNext]_engine => EngineInv'
  <2>1. ASSUME EngineInv, EngineNext
        PROVE  EngineInv'
    BY <2>1, NextStep DEF Stepped
  <2>2. ASSUME EngineInv, UNCHANGED engine
        PROVE  EngineInv'
    BY <2>2 DEF engine, EngineInv
  <2> QED BY <2>1, <2>2
<1> QED BY <1>1, <1>2, PTL DEF EngineSpec

(* In every state a history of headers, nodes, calls, cleared caches and   *)
(* collections can reach, both arenas hold their terminals, and otherwise  *)
(* only nodes that create_node or value may build, each once and each      *)
(* under its own content in the unique table.                              *)
THEOREM ArenasAreWellFormed == EngineSpec => []ArenaInv
<1>1. EngineInv => ArenaInv
  BY DEF EngineInv, Inv, ArenasGood, ArenaGood, ArenaInv
<1> QED BY <1>1, EngineInvHolds, PTL

(* Two slots in use that lead to the same outcome at every assignment are  *)
(* one slot: eq on handles, f = g in the short cuts and the lookup of      *)
(* create_node decide the equality of functions, also after any number of  *)
(* collections and recycled slots.                                         *)
THEOREM DiagramsAreCanonical == EngineSpec => []Canonical
<1>1. ASSUME EngineInv
      PROVE  Canonical
  <2> SUFFICES ASSUME NEW side \in Sides
               PROVE  LET function == [i \in LiveSlots(forest[side]) |->
                                         [s \in Assignments |-> OutcomeAt(<<side, i>>, s)]]
                      IN IsInjective(function)
    BY DEF Canonical, Sides
  <2> DEFINE a == forest[side]
             function == [i \in LiveSlots(a) |-> [s \in Assignments |-> OutcomeAt(<<side, i>>, s)]]
  <2>1. Headers(order) /\ ArenaGood(side, a, order)
    BY <1>1 DEF EngineInv, Inv, ArenasGood
  <2>2. ASSUME NEW i \in LiveSlots(a), NEW j \in LiveSlots(a), function[i] = function[j]
        PROVE  i = j
    <3>1. \A s \in Assignments : function[i][s] = Follow(a, order, i, s)
                                 /\ function[j][s] = Follow(a, order, j, s)
      BY DEF OutcomeAt
    <3> HIDE DEF function
    <3>2. SameOutcomes(a, order, i, j)
      BY <2>2, <3>1 DEF SameOutcomes
    <3> QED BY <2>1, <3>2, TellApart
  <2> QED BY <2>2 DEF IsInjective
<1> QED BY <1>1, EngineInvHolds, PTL

(* An answer in the sense of the invariant is one in that of MddOutcomes.  *)
LEMMA SoundAnswers ==
  ASSUME NEW op \in Recursive, NEW args, NEW r, Sound(forest, order, op, args, r)
  PROVE  Answers(op, args, r)
<1>1. /\ r \in LiveSlots(forest[ResultSide(op)])
      /\ \A k \in Operands(op) : args[k] \in LiveSlots(forest[ArgSide(op, k)])
      /\ \A s \in Assignments : Follow(forest[ResultSide(op)], order, r, s) \in
                                  AllowedFor(op, OutcomesOf(forest, order, op, args, s))
  BY DEF Sound, InPlace
<1>2. \A s \in Assignments :
        /\ OutcomeAt(<<ResultSide(op), r>>, s) = Follow(forest[ResultSide(op)], order, r, s)
        /\ [k \in Operands(op) |-> OutcomeAt(<<ArgSide(op, k), args[k]>>, s)]
             = OutcomesOf(forest, order, op, args, s)
  BY DEF OutcomeAt, OutcomesOf
<1> QED BY <1>1, <1>2 DEF Answers, AllowedFor

(* Every entry of every computed table, of an arena or across the two,     *)
(* names slots in use, and its result leads to an outcome its operation    *)
(* allows at every assignment: no hit returns what collected nodes once    *)
(* stood for.                                                              *)
THEOREM MemoIsSound == EngineSpec => []MemoSound
<1>1. ASSUME EngineInv
      PROVE  MemoSound
  BY <1>1, SoundAnswers DEF EngineInv, Inv, MemoGood, MemoSound
<1> QED BY <1>1, EngineInvHolds, PTL

(* So is what any call returned: by a short cut, a hit, a leaf, a negation *)
(* or a node over recursive results, for all fourteen recursive operations *)
(* and operands that share any of their nodes.                             *)
THEOREM AnswersAreSound == EngineSpec => []KnownSound
<1>1. ASSUME EngineInv
      PROVE  KnownSound
  BY <1>1, SoundAnswers DEF EngineInv, Inv, KnownGood, KnownSound
<1> QED BY <1>1, EngineInvHolds, PTL

(* A slot that is in use before a step and after it leads to the same      *)
(* outcome at every assignment: a handle that is held never changes its    *)
(* meaning, whatever is declared, built, computed or collected.            *)
THEOREM OutcomesAreKept == EngineSpec => OutcomesKept
<1>1. ASSUME EngineInv, EngineNext
      PROVE  \A side \in Sides : \A i \in LiveSlots(forest[side]) \cap LiveSlots(forest'[side]) :
               \A s \in Assignments :
                 Follow(forest'[side], order', i, s) = Follow(forest[side], order, i, s)
  BY <1>1, NextStep, MovedAlike DEF Stepped
<1>2. EngineInv /\ [EngineNext]_engine =>
        [\A side \in Sides : \A i \in LiveSlots(forest[side]) \cap LiveSlots(forest'[side]) :
           \A s \in Assignments :
             Follow(forest'[side], order', i, s) = Follow(forest[side], order, i, s)]_engine
  BY <1>1
<1> QED BY <1>2, EngineInvHolds, PTL DEF EngineSpec, OutcomesKept
=============================================================================
