-------------------------- MODULE MxdEngine_proofs --------------------------
(***************************************************************************)
(* Lemmas about the forest of sets and relations: what building a node, a  *)
(* full relation, a table entry and a sweep do to it, whoever calls; then  *)
(* the theorems about the engine of mxdcore, for every number of levels    *)
(* and states, every history of operations and every moment of collection. *)
(***************************************************************************)
EXTENDS MxdAlgebra, SlotLemmas, TLAPS

(* The shape of a forest; what its nodes are follows from ArenaOK.         *)
Forest(d, n, f, t, m, u) ==
  [domains |-> d, nodes |-> n, free |-> f, table |-> t, memo |-> m, full |-> u]

IsNode(n) ==
  /\ n = [kind |-> n.kind, level |-> n.level, edges |-> n.edges]
  /\ n.edges = [c \in DOMAIN n.edges |-> n.edges[c]]

ForestType(a) ==
  /\ \E d, n, f, t, m, u : a = Forest(d, n, f, t, m, u)
  /\ a.domains \in Seq(Nat \ {0})
  /\ \E S : a.nodes \in Seq(S)
  /\ a.free \subseteq Slots(a)
  /\ \A i \in Inner(a) : IsNode(At(a, i))

ForestOK(a) == ForestType(a) /\ ArenaOK(a)

(* b holds what a holds, in the same slots, and maybe more.                *)
Preserves(a, b) ==
  /\ Live(a) \subseteq Live(b)
  /\ \A i \in Live(a) : At(b, i) = At(a, i)

(* The lists that a node may have as its edges.                            *)
Edged(a, k, l, edges) ==
  /\ edges = [c \in DOMAIN edges |-> edges[c]]
  /\ DOMAIN edges = IF k = "set" THEN States(a, l) ELSE Cells(a, l)
  /\ \A c \in DOMAIN edges : Fits(a, edges[c], k, l)

----------------------------------------------------------------------------
LEMMA SlotFacts ==
  ASSUME NEW a, ForestType(a)
  PROVE  /\ Len(a.nodes) \in Nat /\ Len(a.domains) \in Nat
         /\ Slots(a) \subseteq Nat /\ Live(a) \subseteq Slots(a)
         /\ Inner(a) \subseteq Live(a) /\ Inner(a) \cap Terminals = {}
         /\ \A i : i \in Slots(a) <=> i \in Nat /\ i < Len(a.nodes)
  BY DEF ForestType, Slots, Live, Inner

(* The slot taken next is not in use.                                      *)
LEMMA NewSlotIsFree ==
  ASSUME NEW a, ForestType(a)
  PROVE  /\ NewSlot(a) \in Nat
         /\ a.free = {} => NewSlot(a) = Len(a.nodes)
         /\ a.free # {} => NewSlot(a) \in a.free
<1>1. Len(a.nodes) \in Nat /\ a.free \in SUBSET (0 .. Len(a.nodes) - 1)
  BY SlotFacts DEF ForestType, Slots
<1>2. CASE a.free = {}
  BY <1>1, <1>2 DEF NewSlot
<1>3. CASE a.free # {}
  <2>1. \E m \in a.free : \A j \in a.free : j <= m
    BY <1>1, <1>3, MaxExists
  <2>2. Max(a.free) \in a.free
    BY <1>1, <2>1 DEF Max
  <2> QED BY <1>1, <1>3, <2>2 DEF NewSlot
<1> QED BY <1>2, <1>3

(* Storing a node adds its slot to those in use and moves no other.        *)
LEMMA StoreNode ==
  ASSUME NEW a, ForestType(a), NEW n, IsNode(n)
  PROVE  LET s == NewSlot(a)
             b == Store(a, n, s)
         IN /\ ForestType(b)
            /\ s \notin Live(a)
            /\ Live(b) = Live(a) \cup {s}
            /\ At(b, s) = n
            /\ \A i \in Live(a) : At(b, i) = At(a, i)
            /\ b.domains = a.domains /\ b.memo = a.memo /\ b.full = a.full
            /\ b.table = Extend(a.table, n, s)
<1> DEFINE s == NewSlot(a)
           b == Store(a, n, s)
           more == IF a.free = {} THEN Append(a.nodes, n) ELSE [a.nodes EXCEPT ![s + 1] = n]
<1>1. /\ Len(a.nodes) \in Nat
      /\ s \in Nat /\ (a.free = {} => s = Len(a.nodes)) /\ (a.free # {} => s \in a.free)
  BY SlotFacts, NewSlotIsFree
<1>2. PICK S : a.nodes \in Seq(S)
  BY DEF ForestType
<1>3. /\ more \in Seq(S \cup {n})
      /\ Len(more) = IF a.free = {} THEN Len(a.nodes) + 1 ELSE Len(a.nodes)
      /\ more[s + 1] = n
      /\ \A i \in Slots(a) \ {s} : more[i + 1] = a.nodes[i + 1]
  <2>1. a.nodes \in Seq(S \cup {n})
    BY <1>2
  <2>2. CASE a.free = {}
    BY <1>1, <2>1, <2>2 DEF Slots
  <2>3. CASE a.free # {}
    <3>1. s + 1 \in 1 .. Len(a.nodes)
      BY <1>1, <2>3 DEF ForestType, Slots
    <3> QED BY <1>1, <2>1, <2>3, <3>1 DEF Slots
  <2> QED BY <2>2, <2>3
<1>4. /\ b.domains = a.domains /\ b.nodes = more /\ b.free = a.free \ {s}
      /\ b.table = Extend(a.table, n, s) /\ b.memo = a.memo /\ b.full = a.full
      /\ \E d, ns, f, t, m, u : b = Forest(d, ns, f, t, m, u)
  <2>1. PICK d, ns, f, t, m, u : a = Forest(d, ns, f, t, m, u)
    BY DEF ForestType
  <2>2. /\ a.domains = d /\ a.free = f /\ a.table = t /\ a.memo = m /\ a.full = u
    BY <2>1 DEF Forest
  <2> DEFINE y == f \ {s}
             z == Extend(t, n, s)
  <2>3. b = [a EXCEPT !.nodes = more, !.free = y, !.table = z]
    BY <2>2, Zenon DEF Store
  <2> HIDE DEF more, s, b, y, z
  <2>4. b = Forest(d, more, y, z, m, u)
    <3>1. [a EXCEPT !.nodes = more] = Forest(d, more, f, t, m, u)
      BY <2>1 DEF Forest
    <3>2. [Forest(d, more, f, t, m, u) EXCEPT !.free = y] = Forest(d, more, y, t, m, u)
      BY DEF Forest
    <3>3. [Forest(d, more, y, t, m, u) EXCEPT !.table = z] = Forest(d, more, y, z, m, u)
      BY DEF Forest
    <3> QED BY <2>3, <3>1, <3>2, <3>3, Zenon
  <2> QED BY <2>2, <2>4 DEF Forest, y, z
<1> HIDE DEF more, b, s
<1>5. Slots(b) = Slots(a) \cup {s}
  <2>1. CASE a.free = {}
    BY <1>1, <1>3, <1>4, <2>1 DEF Slots
  <2>2. CASE a.free # {}
    BY <1>1, <1>3, <1>4, <2>2 DEF Slots, ForestType
  <2> QED BY <2>1, <2>2
<1>6. s \notin Live(a) /\ Live(b) = Live(a) \cup {s}
  BY <1>1, <1>4, <1>5 DEF Live, Slots, ForestType
<1>7. At(b, s) = n /\ \A i \in Live(a) : At(b, i) = At(a, i)
  BY <1>3, <1>4, <1>6 DEF At, Live
<1>8. ForestType(b)
  <2>1. b.free \subseteq Slots(b)
    BY <1>4, <1>5 DEF ForestType
  <2>2. \E T : b.nodes \in Seq(T)
    BY <1>3, <1>4
  <2>3. \A i \in Inner(b) : IsNode(At(b, i))
    BY <1>6, <1>7 DEF ForestType, Inner
  <2> QED BY <1>4, <2>1, <2>2, <2>3 DEF ForestType
<1> QED BY <1>4, <1>6, <1>7, <1>8 DEF b, s

----------------------------------------------------------------------------
(* What is preserved when nodes stay where they are.                       *)

LEMMA FitsKept ==
  ASSUME NEW a, NEW b, Preserves(a, b), NEW i, NEW k, NEW l, Fits(a, i, k, l)
  PROVE  Fits(b, i, k, l)
  BY DEF Preserves, Fits, Kind, Level

(* Domains that agree wherever a level of the first is concerned.          *)
Redeclares(a, b) ==
  /\ Levels(a) \subseteq Levels(b)
  /\ \A l \in Levels(a) : b.domains[l + 1] = a.domains[l + 1]

LEMMA FullKept ==
  ASSUME NEW a, NEW b, FullExact(a), Preserves(a, b), Redeclares(a, b), b.full = a.full
  PROVE  FullExact(b)
<1> SUFFICES ASSUME NEW l \in DOMAIN a.full
             PROVE  /\ l \in Levels(b)
                    /\ l > 0 => l - 1 \in DOMAIN b.full
                    /\ Fits(b, b.full[l], "rel", l + 1)
                    /\ b.full[l] # Zero
                    /\ IF b.domains[l + 1] = 1 THEN b.full[l] = Below(b, l)
                       ELSE At(b, b.full[l]) = [kind |-> "rel", level |-> l,
                              edges |-> [c \in Cells(b, l) |-> Below(b, l)]]
  BY DEF FullExact
<1>1. /\ l \in Levels(a)
      /\ l > 0 => l - 1 \in DOMAIN a.full
      /\ Fits(a, a.full[l], "rel", l + 1)
      /\ a.full[l] # Zero
      /\ IF a.domains[l + 1] = 1 THEN a.full[l] = Below(a, l)
         ELSE At(a, a.full[l]) =
                [kind |-> "rel", level |-> l, edges |-> [c \in Cells(a, l) |-> Below(a, l)]]
  BY DEF FullExact
<1>2. Fits(b, b.full[l], "rel", l + 1)
  BY <1>1, FitsKept
<1>3. Below(b, l) = Below(a, l)
  BY DEF Below
<1>4. b.domains[l + 1] = a.domains[l + 1] /\ Cells(b, l) = Cells(a, l)
  BY <1>1 DEF Redeclares, Cells, States
<1>5. At(b, a.full[l]) = At(a, a.full[l])
  BY <1>1 DEF Fits, Preserves
<1> QED BY <1>1, <1>2, <1>3, <1>4, <1>5 DEF Redeclares

(* A change of the domains, the tables or the full relations alone.        *)
LEMMA SameNodes ==
  ASSUME NEW a, NEW b, b.nodes = a.nodes, b.free = a.free
  PROVE  /\ Slots(b) = Slots(a) /\ Live(b) = Live(a) /\ Inner(b) = Inner(a)
         /\ \A i : At(b, i) = At(a, i)
         /\ Preserves(a, b)
  BY DEF Slots, Live, Inner, At, Preserves

LEMMA NodesStayOK ==
  ASSUME NEW a, NEW b, ArenaOK(a), Redeclares(a, b),
         b.nodes = a.nodes, b.free = a.free, b.table = a.table
  PROVE  TerminalsInPlace(b) /\ WellFormed(b) /\ Reduced(b) /\ TableExact(b)
<1>1. /\ Live(b) = Live(a) /\ Inner(b) = Inner(a) /\ Preserves(a, b)
      /\ \A i : At(b, i) = At(a, i)
  BY SameNodes
<1>2. TerminalsInPlace(b)
  BY <1>1 DEF ArenaOK, TerminalsInPlace
<1>3. WellFormed(b)
  <2> SUFFICES ASSUME NEW i \in Inner(a)
               PROVE  /\ Kind(b, i) \in {"set", "rel"}
                      /\ Level(b, i) \in Levels(b)
                      /\ DOMAIN Edges(b, i) = IF Kind(b, i) = "set" THEN States(b, Level(b, i))
                                              ELSE Cells(b, Level(b, i))
                      /\ \A c \in DOMAIN Edges(b, i) :
                           Fits(b, Edges(b, i)[c], Kind(b, i), Level(b, i))
    BY <1>1 DEF WellFormed
  <2>1. Kind(b, i) = Kind(a, i) /\ Level(b, i) = Level(a, i) /\ Edges(b, i) = Edges(a, i)
    BY <1>1 DEF Kind, Level, Edges
  <2>2. /\ Kind(a, i) \in {"set", "rel"} /\ Level(a, i) \in Levels(a)
        /\ DOMAIN Edges(a, i) = IF Kind(a, i) = "set" THEN States(a, Level(a, i))
                                ELSE Cells(a, Level(a, i))
        /\ \A c \in DOMAIN Edges(a, i) : Fits(a, Edges(a, i)[c], Kind(a, i), Level(a, i))
    BY DEF ArenaOK, WellFormed
  <2>3. \A c \in DOMAIN Edges(a, i) : Fits(b, Edges(a, i)[c], Kind(a, i), Level(a, i))
    BY <1>1, <2>2, FitsKept
  <2>4. /\ Level(a, i) \in Levels(b)
        /\ States(b, Level(a, i)) = States(a, Level(a, i))
        /\ Cells(b, Level(a, i)) = Cells(a, Level(a, i))
    BY <2>2 DEF Redeclares, States, Cells
  <2> QED BY <2>1, <2>2, <2>3, <2>4
<1>4. Reduced(b)
  BY <1>1 DEF ArenaOK, Reduced, Kind, Edges
<1>5. TableExact(b)
  BY <1>1 DEF ArenaOK, TableExact
<1> QED BY <1>2, <1>3, <1>4, <1>5

----------------------------------------------------------------------------
(* A new node.                                                             *)

(* What create_set_node and create_rel_node do not intern.                 *)
Reducible(k, edges) ==
  IF k = "set" THEN IsConstant(edges) ELSE IsEmptyBlock(edges) \/ IsDiagonal(edges)

(* Interning a node that its kind's rule would keep leaves the forest in   *)
(* order: a node of that content is returned, and nothing else changes.    *)
LEMMA HashConsOK ==
  ASSUME NEW a, ForestOK(a), NEW k \in {"set", "rel"}, NEW l \in Levels(a), NEW edges,
         Edged(a, k, l, edges), ~ Reducible(k, edges)
  PROVE  LET n == [kind |-> k, level |-> l, edges |-> edges]
             r == HashCons(a, n)
         IN /\ ForestOK(r[2]) /\ Preserves(a, r[2])
            /\ r[1] \in Inner(r[2]) /\ At(r[2], r[1]) = n
            /\ r[2].domains = a.domains /\ r[2].full = a.full
<1> DEFINE n == [kind |-> k, level |-> l, edges |-> edges]
           r == HashCons(a, n)
<1>0. /\ ForestType(a) /\ TerminalsInPlace(a) /\ WellFormed(a) /\ Reduced(a)
      /\ TableExact(a) /\ FullExact(a) /\ MemoLive(a)
  BY DEF ForestOK, ArenaOK
<1>a. n.kind = k /\ n.level = l /\ n.edges = edges /\ IsNode(n)
  BY DEF IsNode, Edged
<1> HIDE DEF n
<1>1. CASE n \in DOMAIN a.table
  <2>1. r[1] = a.table[n] /\ r[2] = a
    BY <1>1 DEF HashCons
  <2>2. a.table[n] \in Inner(a) /\ At(a, a.table[n]) = n
    BY <1>0, <1>1 DEF TableExact
  <2>3. Preserves(a, a)
    BY DEF Preserves
  <2> QED BY <2>1, <2>2, <2>3 DEF n
<1>2. CASE n \notin DOMAIN a.table
  <2> DEFINE s == NewSlot(a)
             b == Store(a, n, s)
  <2>1. r[1] = s /\ r[2] = b
    BY <1>2 DEF HashCons
  <2>2. /\ ForestType(b) /\ s \notin Live(a) /\ Live(b) = Live(a) \cup {s}
        /\ At(b, s) = n /\ \A i \in Live(a) : At(b, i) = At(a, i)
        /\ b.domains = a.domains /\ b.memo = a.memo /\ b.full = a.full
        /\ b.table = Extend(a.table, n, s)
    BY <1>0, <1>a, StoreNode
  <2> HIDE DEF s, b
  <2>3. Preserves(a, b) /\ Redeclares(a, b) /\ Levels(b) = Levels(a)
    BY <2>2 DEF Preserves, Redeclares, Levels
  <2>4. TerminalsInPlace(b) /\ Inner(b) = Inner(a) \cup {s}
    BY <1>0, <2>2 DEF TerminalsInPlace, Inner
  <2>5. WellFormed(b)
    <3>1. \A j : States(b, j) = States(a, j) /\ Cells(b, j) = Cells(a, j)
      BY <2>2 DEF States, Cells
    <3>2. ASSUME NEW i \in Inner(b)
          PROVE  /\ Kind(b, i) \in {"set", "rel"} /\ Level(b, i) \in Levels(b)
                 /\ DOMAIN Edges(b, i) = IF Kind(b, i) = "set" THEN States(b, Level(b, i))
                                         ELSE Cells(b, Level(b, i))
                 /\ \A c \in DOMAIN Edges(b, i) :
                      Fits(b, Edges(b, i)[c], Kind(b, i), Level(b, i))
      <4>1. CASE i \in Inner(a)
        <5>1. At(b, i) = At(a, i)
          BY <2>2, <4>1 DEF Inner
        <5>2. Kind(b, i) = Kind(a, i) /\ Level(b, i) = Level(a, i) /\ Edges(b, i) = Edges(a, i)
          BY <5>1 DEF Kind, Level, Edges
        <5>3. /\ Kind(a, i) \in {"set", "rel"} /\ Level(a, i) \in Levels(a)
              /\ DOMAIN Edges(a, i) = IF Kind(a, i) = "set" THEN States(a, Level(a, i))
                                      ELSE Cells(a, Level(a, i))
              /\ \A c \in DOMAIN Edges(a, i) : Fits(a, Edges(a, i)[c], Kind(a, i), Level(a, i))
          BY <1>0, <4>1 DEF WellFormed
        <5>4. \A c \in DOMAIN Edges(a, i) : Fits(b, Edges(a, i)[c], Kind(a, i), Level(a, i))
          BY <2>3, <5>3, FitsKept
        <5> QED BY <2>3, <3>1, <5>2, <5>3, <5>4
      <4>2. CASE i = s
        <5>1. Kind(b, i) = k /\ Level(b, i) = l /\ Edges(b, i) = edges
          BY <1>a, <2>2, <4>2 DEF Kind, Level, Edges
        <5>2. DOMAIN edges = IF k = "set" THEN States(b, l) ELSE Cells(b, l)
          BY <3>1 DEF Edged
        <5>3. \A c \in DOMAIN edges : Fits(b, edges[c], k, l)
          BY <2>3, FitsKept DEF Edged
        <5> QED BY <2>3, <5>1, <5>2, <5>3
      <4> QED BY <2>4, <4>1, <4>2
    <3> QED BY <3>2 DEF WellFormed
  <2>6. Reduced(b)
    <3>1. ASSUME NEW i \in Inner(b)
          PROVE  IF Kind(b, i) = "set" THEN ~ IsConstant(Edges(b, i))
                 ELSE ~ IsEmptyBlock(Edges(b, i)) /\ ~ IsDiagonal(Edges(b, i))
      <4>1. CASE i \in Inner(a)
        BY <1>0, <2>2, <4>1 DEF Reduced, Inner, Kind, Edges
      <4>2. CASE i = s
        BY <1>a, <2>2, <4>2 DEF Reducible, Kind, Edges
      <4> QED BY <2>4, <4>1, <4>2
    <3> QED BY <3>1 DEF Reduced
  <2>7. TableExact(b)
    <3>1. DOMAIN b.table = DOMAIN a.table \cup {n} /\ b.table[n] = s
          /\ \A x \in DOMAIN a.table : b.table[x] = a.table[x]
      BY <1>2, <2>2 DEF Extend
    <3>2. \A i \in Inner(b) : At(b, i) \in DOMAIN b.table /\ b.table[At(b, i)] = i
      BY <1>0, <2>2, <2>4, <3>1 DEF TableExact, Inner
    <3>3. \A x \in DOMAIN b.table : b.table[x] \in Inner(b) /\ At(b, b.table[x]) = x
      BY <1>0, <2>2, <2>4, <3>1 DEF TableExact, Inner
    <3> QED BY <3>2, <3>3 DEF TableExact
  <2>8. FullExact(b) /\ MemoLive(b)
    <3>1. FullExact(b)
      BY <1>0, <2>2, <2>3, FullKept
    <3>2. MemoLive(b)
      BY <1>0, <2>2 DEF MemoLive
    <3> QED BY <3>1, <3>2
  <2>9. s \in Inner(b)
    BY <2>4
  <2> QED BY <2>1, <2>2, <2>3, <2>4, <2>5, <2>6, <2>7, <2>8, <2>9 DEF ForestOK, ArenaOK, n
<1> QED BY <1>1, <1>2

LEMMA LevelFacts ==
  ASSUME NEW a, ForestOK(a)
  PROVE  /\ \A l \in Levels(a) : l \in Nat /\ a.domains[l + 1] \in Nat \ {0}
         /\ \A l \in Levels(a) : 0 \in States(a, l) /\ <<0, 0>> \in Cells(a, l)
         /\ \A i \in Live(a) : Level(a, i) \in Int
         /\ \A i \in Terminals : \A k, l : l \in Nat => Fits(a, i, k, l)
<1>1. \A l \in Levels(a) : l \in Nat /\ a.domains[l + 1] \in Nat \ {0}
  BY SlotFacts DEF ForestOK, ForestType, Levels
<1>2. \A l \in Levels(a) : 0 \in States(a, l) /\ <<0, 0>> \in Cells(a, l)
  BY <1>1 DEF States, Cells
<1>3. \A i \in Terminals : i \in Live(a) /\ Level(a, i) = -1 /\ Kind(a, i) = "terminal"
  BY DEF ForestOK, ArenaOK, TerminalsInPlace, Terminal, Level, Kind
<1>4. \A i \in Live(a) : Level(a, i) \in Int
  <2>1. \A i \in Inner(a) : Level(a, i) \in Levels(a)
    BY DEF ForestOK, ArenaOK, WellFormed
  <2> QED BY <1>1, <1>3, <2>1 DEF Inner
<1>5. \A i \in Terminals : \A k, l : l \in Nat => Fits(a, i, k, l)
  BY <1>3 DEF Fits
<1> QED BY <1>1, <1>2, <1>4, <1>5

(* The two reduction rules: what they return may be a child one level up.  *)
LEMMA SetNodeOK ==
  ASSUME NEW a, ForestOK(a), NEW l \in Levels(a), NEW children, Edged(a, "set", l, children)
  PROVE  LET r == SetNode(a, l, children)
         IN ForestOK(r[2]) /\ Preserves(a, r[2]) /\ Fits(r[2], r[1], "set", l + 1)
<1> DEFINE n == [kind |-> "set", level |-> l, edges |-> children]
           r == SetNode(a, l, children)
<1>1. CASE IsConstant(children)
  <2>1. r[1] = children[0] /\ r[2] = a
    BY <1>1 DEF SetNode
  <2>2. Fits(a, children[0], "set", l)
    BY LevelFacts DEF Edged
  <2>3. Fits(a, children[0], "set", l + 1)
    BY <2>2, LevelFacts DEF Fits
  <2>4. Preserves(a, a)
    BY DEF Preserves
  <2> QED BY <2>1, <2>3, <2>4
<1>2. CASE ~ IsConstant(children)
  <2>1. r = HashCons(a, n)
    BY <1>2 DEF SetNode
  <2>2. ~ Reducible("set", children)
    BY <1>2 DEF Reducible
  <2>3. /\ ForestOK(r[2]) /\ Preserves(a, r[2])
        /\ r[1] \in Inner(r[2]) /\ At(r[2], r[1]) = n
    BY <2>1, <2>2, HashConsOK
  <2>4. n.level = l /\ n.kind = "set" /\ l \in Nat
    BY LevelFacts
  <2>5. Fits(r[2], r[1], "set", l + 1)
    BY <2>3, <2>4 DEF Fits, Inner, Level, Kind
  <2> QED BY <2>3, <2>5
<1> QED BY <1>1, <1>2

LEMMA RelNodeOK ==
  ASSUME NEW a, ForestOK(a), NEW l \in Levels(a), NEW block, Edged(a, "rel", l, block)
  PROVE  LET r == RelNode(a, l, block)
         IN ForestOK(r[2]) /\ Preserves(a, r[2]) /\ Fits(r[2], r[1], "rel", l + 1)
<1> DEFINE n == [kind |-> "rel", level |-> l, edges |-> block]
           r == RelNode(a, l, block)
<1>0. l \in Nat /\ Preserves(a, a)
  BY LevelFacts DEF Preserves
<1>1. CASE IsEmptyBlock(block)
  <2>1. r[1] = Zero /\ r[2] = a
    BY <1>1 DEF RelNode
  <2>2. Fits(a, Zero, "rel", l + 1)
    BY <1>0, LevelFacts DEF Terminals
  <2> QED BY <1>0, <2>1, <2>2
<1>2. CASE ~ IsEmptyBlock(block) /\ IsDiagonal(block)
  <2>1. r[1] = block[<<0, 0>>] /\ r[2] = a
    BY <1>2 DEF RelNode
  <2>2. Fits(a, block[<<0, 0>>], "rel", l)
    BY LevelFacts DEF Edged
  <2>3. Fits(a, block[<<0, 0>>], "rel", l + 1)
    BY <1>0, <2>2, LevelFacts DEF Fits
  <2> QED BY <1>0, <2>1, <2>3
<1>3. CASE ~ IsEmptyBlock(block) /\ ~ IsDiagonal(block)
  <2>1. r = HashCons(a, n)
    BY <1>3 DEF RelNode
  <2>2. ~ Reducible("rel", block)
    BY <1>3 DEF Reducible
  <2>3. /\ ForestOK(r[2]) /\ Preserves(a, r[2])
        /\ r[1] \in Inner(r[2]) /\ At(r[2], r[1]) = n
    BY <2>1, <2>2, HashConsOK
  <2>4. n.level = l /\ n.kind = "rel"
    OBVIOUS
  <2>5. Fits(r[2], r[1], "rel", l + 1)
    BY <1>0, <2>3, <2>4 DEF Fits, Inner, Level, Kind
  <2> QED BY <2>3, <2>5
<1> QED BY <1>1, <1>2, <1>3

----------------------------------------------------------------------------
(* The steps that replace one field.                                       *)

LEMMA NewForestOK == ForestOK(NewForest)
<1> DEFINE a == NewForest
<1>1. /\ a.domains = <<>> /\ a.nodes = <<Terminal, Terminal>> /\ a.free = {}
      /\ DOMAIN a.table = {} /\ DOMAIN a.memo = {} /\ DOMAIN a.full = {}
      /\ \E d, n, f, t, m, u : a = Forest(d, n, f, t, m, u)
  BY DEF NewForest, Forest
<1> HIDE DEF a
<1>2. Live(a) = Terminals /\ Inner(a) = {}
  <2>1. Len(a.nodes) = 2
    BY <1>1
  <2> QED BY <1>1, <2>1 DEF Live, Inner, Slots, Terminals, Zero, One
<1>3. ForestType(a)
  <2>1. \E S : a.nodes \in Seq(S)
    <3>1. a.nodes \in Seq({Terminal})
      BY <1>1
    <3> QED BY <3>1
  <2> QED BY <1>1, <1>2, <2>1 DEF ForestType
<1>4. \A t \in Terminals : At(a, t) = Terminal
  BY <1>1 DEF Terminals, Zero, One, At
<1>5. ArenaOK(a)
  BY <1>1, <1>2, <1>4 DEF ArenaOK, TerminalsInPlace, WellFormed, Reduced, TableExact,
     FullExact, MemoLive
<1> QED BY <1>3, <1>5 DEF ForestOK, a

LEMMA DefVarOK ==
  ASSUME NEW a, ForestOK(a), NEW n \in Nat \ {0}
  PROVE  ForestOK(DefVar(a, n)) /\ Preserves(a, DefVar(a, n))
<1> DEFINE b == DefVar(a, n)
           more == Append(a.domains, n)
<1>1. /\ b.domains = more /\ b.nodes = a.nodes /\ b.free = a.free
      /\ b.table = a.table /\ b.memo = a.memo /\ b.full = a.full
      /\ \E d, ns, f, t, m, u : b = Forest(d, ns, f, t, m, u)
  <2>1. PICK d, ns, f, t, m, u : a = Forest(d, ns, f, t, m, u)
    BY DEF ForestOK, ForestType
  <2>2. b = [a EXCEPT !.domains = more]
    BY DEF DefVar
  <2> HIDE DEF more, b
  <2>3. b = Forest(more, ns, f, t, m, u)
    BY <2>1, <2>2 DEF Forest
  <2> QED BY <2>1, <2>3 DEF Forest
<1>2. /\ a.domains \in Seq(Nat \ {0}) /\ more \in Seq(Nat \ {0})
      /\ Len(more) = Len(a.domains) + 1
      /\ \A l \in Levels(a) : more[l + 1] = a.domains[l + 1]
  BY DEF ForestOK, ForestType, Levels
<1> HIDE DEF b, more
<1>3. Redeclares(a, b)
  BY <1>1, <1>2, SlotFacts DEF Redeclares, Levels, ForestOK
<1>4. Slots(b) = Slots(a) /\ Live(b) = Live(a) /\ Preserves(a, b)
      /\ Inner(b) = Inner(a) /\ \A i : At(b, i) = At(a, i)
  BY <1>1, SameNodes
<1>5. TerminalsInPlace(b) /\ WellFormed(b) /\ Reduced(b) /\ TableExact(b)
  BY <1>1, <1>3, NodesStayOK DEF ForestOK
<1>6. FullExact(b)
  BY <1>1, <1>3, <1>4, FullKept DEF ForestOK, ArenaOK
<1>7. MemoLive(b)
  BY <1>1, <1>4 DEF ForestOK, ArenaOK, MemoLive
<1>8. ForestType(b)
  BY <1>1, <1>2, <1>4 DEF ForestOK, ForestType
<1> QED BY <1>4, <1>5, <1>6, <1>7, <1>8 DEF ForestOK, ArenaOK, b

(* A table whose entries name slots in use may replace the memo.           *)
LEMMA MemoReplacedOK ==
  ASSUME NEW a, ForestOK(a), NEW memo,
         \A k \in DOMAIN memo : {k[2], k[3], memo[k]} \subseteq Live(a)
  PROVE  ForestOK([a EXCEPT !.memo = memo]) /\ Preserves(a, [a EXCEPT !.memo = memo])
<1> DEFINE b == [a EXCEPT !.memo = memo]
<1>1. /\ b.domains = a.domains /\ b.nodes = a.nodes /\ b.free = a.free
      /\ b.table = a.table /\ b.memo = memo /\ b.full = a.full
      /\ \E d, ns, f, t, m, u : b = Forest(d, ns, f, t, m, u)
  <2>1. PICK d, ns, f, t, m, u : a = Forest(d, ns, f, t, m, u)
    BY DEF ForestOK, ForestType
  <2>2. b = Forest(d, ns, f, t, memo, u)
    BY <2>1 DEF Forest
  <2> HIDE DEF b
  <2> QED BY <2>1, <2>2 DEF Forest
<1> HIDE DEF b
<1>2. Redeclares(a, b)
  BY <1>1 DEF Redeclares, Levels
<1>3. Slots(b) = Slots(a) /\ Live(b) = Live(a) /\ Preserves(a, b)
      /\ Inner(b) = Inner(a) /\ \A i : At(b, i) = At(a, i)
  BY <1>1, SameNodes
<1>4. TerminalsInPlace(b) /\ WellFormed(b) /\ Reduced(b) /\ TableExact(b)
  BY <1>1, <1>2, NodesStayOK DEF ForestOK
<1>5. FullExact(b)
  BY <1>1, <1>2, <1>3, FullKept DEF ForestOK, ArenaOK
<1>6. MemoLive(b)
  BY <1>1, <1>3 DEF MemoLive
<1>7. ForestType(b)
  BY <1>1, <1>3 DEF ForestOK, ForestType
<1> QED BY <1>3, <1>4, <1>5, <1>6, <1>7 DEF ForestOK, ArenaOK, b

LEMMA RememberOK ==
  ASSUME NEW a, ForestOK(a), NEW key, NEW i, {key[2], key[3], i} \subseteq Live(a)
  PROVE  ForestOK(Remember(a, key, i)) /\ Preserves(a, Remember(a, key, i))
<1> DEFINE memo == Extend(a.memo, key, i)
<1>1. \A k \in DOMAIN memo : {k[2], k[3], memo[k]} \subseteq Live(a)
  BY DEF ForestOK, ArenaOK, MemoLive, Extend
<1>2. Remember(a, key, i) = [a EXCEPT !.memo = memo]
  BY DEF Remember
<1> HIDE DEF memo
<1> QED BY <1>1, <1>2, MemoReplacedOK

LEMMA ClearCacheOK ==
  ASSUME NEW a, ForestOK(a)
  PROVE  ForestOK(ClearCache(a)) /\ Preserves(a, ClearCache(a))
<1> DEFINE memo == [k \in {} |-> NoId]
<1>1. \A k \in DOMAIN memo : {k[2], k[3], memo[k]} \subseteq Live(a)
  OBVIOUS
<1>2. ClearCache(a) = [a EXCEPT !.memo = memo]
  BY DEF ClearCache
<1> HIDE DEF memo
<1> QED BY <1>1, <1>2, MemoReplacedOK

(* What the full relation of a level stands on.                            *)
LEMMA BelowFits ==
  ASSUME NEW a, ForestOK(a), NEW l \in Levels(a), l > 0 => l - 1 \in DOMAIN a.full
  PROVE  Fits(a, Below(a, l), "rel", l) /\ Below(a, l) # Zero
<1> DEFINE below == Below(a, l)
<1>0. l \in Nat
  BY LevelFacts
<1>1. CASE l = 0
  <2>1. below = One /\ One \in Terminals
    BY <1>1 DEF Below, Terminals
  <2> QED BY <1>0, <2>1, LevelFacts DEF Zero, One
<1>2. CASE l # 0
  <2>1. l - 1 \in DOMAIN a.full /\ below = a.full[l - 1]
    BY <1>0, <1>2 DEF Below
  <2>2. Fits(a, a.full[l - 1], "rel", (l - 1) + 1) /\ a.full[l - 1] # Zero
    BY <2>1 DEF ForestOK, ArenaOK, FullExact
  <2>3. (l - 1) + 1 = l
    BY <1>0
  <2> QED BY <2>1, <2>2, <2>3
<1> QED BY <1>1, <1>2

(* full_relation, one level: the level below has its full relation.        *)
LEMMA FullStepOK ==
  ASSUME NEW a, ForestOK(a), NEW l \in Levels(a), l > 0 => l - 1 \in DOMAIN a.full
  PROVE  ForestOK(FullStep(a, l)) /\ Preserves(a, FullStep(a, l))
<1> DEFINE below == Below(a, l)
           block == [c \in Cells(a, l) |-> below]
           n == [kind |-> "rel", level |-> l, edges |-> block]
           r == RelNode(a, l, block)
           a2 == r[2]
           b == KeepFull(l, r)
<1>0. /\ l \in Nat /\ a.domains[l + 1] \in Nat \ {0}
      /\ <<0, 0>> \in Cells(a, l) /\ Preserves(a, a)
  BY LevelFacts DEF Preserves
<1>1. Fits(a, below, "rel", l) /\ below # Zero
  BY BelowFits
<1>2. Edged(a, "rel", l, block) /\ DOMAIN block = Cells(a, l)
      /\ \A c \in Cells(a, l) : block[c] = below
  BY <1>1 DEF Edged
<1>3. ~ IsEmptyBlock(block)
  BY <1>0, <1>1, <1>2 DEF IsEmptyBlock
<1> HIDE DEF block, below
<1>4. /\ ForestOK(a2) /\ Preserves(a, a2) /\ Fits(a2, r[1], "rel", l + 1)
      /\ a2.domains = a.domains /\ a2.full = a.full /\ r[1] # Zero
      /\ IF a.domains[l + 1] = 1 THEN r[1] = below ELSE At(a2, r[1]) = n
  <2>1. ForestOK(a2) /\ Preserves(a, a2) /\ Fits(a2, r[1], "rel", l + 1)
    BY <1>2, RelNodeOK
  <2>2. CASE IsDiagonal(block)
    <3>1. r[1] = below /\ a2 = a
      BY <1>0, <1>2, <1>3, <2>2 DEF RelNode
    <3>2. a.domains[l + 1] = 1
      <4> SUFFICES ASSUME a.domains[l + 1] # 1 PROVE FALSE
        OBVIOUS
      <4>1. <<0, 1>> \in Cells(a, l)
        BY <1>0 DEF Cells, States
      <4>2. block[<<0, 1>>] = Zero
        BY <1>2, <2>2, <4>1 DEF IsDiagonal
      <4> QED BY <1>1, <1>2, <4>1, <4>2
    <3> QED BY <1>1, <2>1, <3>1, <3>2
  <2>3. CASE ~ IsDiagonal(block)
    <3>1. r = HashCons(a, n)
      BY <1>3, <2>3 DEF RelNode
    <3>2. ~ Reducible("rel", block)
      BY <1>3, <2>3 DEF Reducible
    <3>3. /\ r[1] \in Inner(a2) /\ At(a2, r[1]) = n
          /\ a2.domains = a.domains /\ a2.full = a.full
      BY <1>2, <3>1, <3>2, HashConsOK
    <3>4. a.domains[l + 1] # 1
      <4> SUFFICES ASSUME a.domains[l + 1] = 1 PROVE FALSE
        OBVIOUS
      <4>1. \A c \in Cells(a, l) : c = <<0, 0>>
        BY DEF Cells, States
      <4>2. IsDiagonal(block)
        BY <1>2, <4>1 DEF IsDiagonal
      <4> QED BY <2>3, <4>2
    <3>5. r[1] # Zero
      BY <3>3 DEF Inner, Terminals
    <3> QED BY <2>1, <3>3, <3>4, <3>5
  <2> QED BY <2>2, <2>3
<1>5. CASE l \in DOMAIN a.full
  BY <1>0, <1>5 DEF FullStep
<1>6. CASE l \notin DOMAIN a.full
  <2>1. FullStep(a, l) = b
    BY <1>6 DEF FullStep, FullNode, block, below
  <2> HIDE DEF r
  <2>2. /\ b.domains = a.domains /\ b.nodes = a2.nodes /\ b.free = a2.free
        /\ b.table = a2.table /\ b.memo = a2.memo /\ b.full = Extend(a.full, l, r[1])
        /\ \E d, ns, f, t, m, u : b = Forest(d, ns, f, t, m, u)
    <3> DEFINE full == Extend(a2.full, l, r[1])
    <3>1. PICK d, ns, f, t, m, u : a2 = Forest(d, ns, f, t, m, u)
      BY <1>4 DEF ForestOK, ForestType
    <3>2. b = [a2 EXCEPT !.full = full]
      BY DEF KeepFull
    <3> HIDE DEF full, b, a2
    <3>3. b = Forest(d, ns, f, t, m, full)
      BY <3>1, <3>2 DEF Forest
    <3>4. full = Extend(a.full, l, r[1])
      BY <1>4 DEF full
    <3> QED BY <1>4, <3>1, <3>3, <3>4 DEF Forest
  <2>3. Redeclares(a2, b) /\ Levels(b) = Levels(a)
    BY <1>4, <2>2 DEF Redeclares, Levels
  <2>4. /\ Slots(b) = Slots(a2) /\ Live(b) = Live(a2) /\ Preserves(a2, b)
        /\ Inner(b) = Inner(a2) /\ \A i : At(b, i) = At(a2, i)
    BY <2>2, SameNodes
  <2>5. TerminalsInPlace(b) /\ WellFormed(b) /\ Reduced(b) /\ TableExact(b)
    BY <1>4, <2>2, <2>3, NodesStayOK DEF ForestOK
  <2>6. MemoLive(b)
    BY <1>4, <2>2, <2>4 DEF ForestOK, ArenaOK, MemoLive
  <2>7. FullExact(b)
    <3>1. /\ DOMAIN b.full = DOMAIN a.full \cup {l} /\ b.full[l] = r[1]
          /\ \A j \in DOMAIN a.full : b.full[j] = a.full[j]
      BY <1>6, <2>2 DEF Extend
    <3>2. \A j \in DOMAIN a.full : /\ j \in Levels(a) /\ j \in Nat
                                   /\ j > 0 => j - 1 \in DOMAIN a.full
      BY LevelFacts DEF ForestOK, ArenaOK, FullExact
    <3>3. \A j \in DOMAIN b.full : Below(b, j) = Below(a, j)
      BY <1>0, <3>1, <3>2 DEF Below
    <3>4. \A j : Cells(b, j) = Cells(a, j)
      BY <1>4, <2>2 DEF Cells, States
    <3>5. ASSUME NEW j \in DOMAIN b.full
          PROVE  /\ j \in Levels(b) /\ (j > 0 => j - 1 \in DOMAIN b.full)
                 /\ Fits(b, b.full[j], "rel", j + 1) /\ b.full[j] # Zero
                 /\ IF b.domains[j + 1] = 1 THEN b.full[j] = Below(b, j)
                    ELSE At(b, b.full[j]) = [kind |-> "rel", level |-> j,
                           edges |-> [c \in Cells(b, j) |-> Below(b, j)]]
      <4>1. CASE j = l
        <5>1. Fits(b, r[1], "rel", l + 1)
          BY <1>4, <2>4, FitsKept
        <5>2. n = [kind |-> "rel", level |-> l,
                   edges |-> [c \in Cells(b, l) |-> Below(b, l)]]
          BY <3>3, <3>4, <4>1 DEF block, below
        <5> HIDE DEF n
        <5>3. l - 1 \in DOMAIN b.full \/ ~ l > 0
          BY <3>1
        <5> QED BY <1>4, <2>2, <2>3, <2>4, <3>1, <3>3, <4>1, <5>1, <5>2, <5>3 DEF below
      <4>2. CASE j \in DOMAIN a.full
        <5>1. /\ Fits(a, a.full[j], "rel", j + 1) /\ a.full[j] # Zero
              /\ IF a.domains[j + 1] = 1 THEN a.full[j] = Below(a, j)
                 ELSE At(a, a.full[j]) = [kind |-> "rel", level |-> j,
                        edges |-> [c \in Cells(a, j) |-> Below(a, j)]]
          BY <4>2 DEF ForestOK, ArenaOK, FullExact
        <5>2. Fits(b, a.full[j], "rel", j + 1)
          BY <1>4, <2>4, <5>1, FitsKept
        <5>3. At(b, a.full[j]) = At(a, a.full[j])
          BY <1>4, <2>4, <5>1 DEF Preserves, Fits
        <5> QED BY <1>4, <2>2, <2>3, <3>1, <3>2, <3>3, <3>4, <4>2, <5>1, <5>2, <5>3
      <4> QED BY <3>1, <4>1, <4>2
    <3> QED BY <3>5 DEF FullExact
  <2>8. ForestType(b)
    BY <1>4, <2>2, <2>4 DEF ForestOK, ForestType
  <2>9. Preserves(a, b)
    BY <1>4, <2>4 DEF Preserves
  <2> QED BY <2>1, <2>5, <2>6, <2>7, <2>8, <2>9 DEF ForestOK, ArenaOK
<1> QED BY <1>5, <1>6

----------------------------------------------------------------------------
(* Kids of a slot in use are in use.                                       *)
LEMMA KidsLive ==
  ASSUME NEW a, ForestOK(a), NEW i \in Live(a)
  PROVE  Kids(a, i) \subseteq Live(a)
<1>1. CASE i \in Terminals
  <2>1. Edges(a, i) = <<>>
    BY <1>1 DEF ForestOK, ArenaOK, TerminalsInPlace, Terminal, Edges
  <2> QED BY <2>1 DEF Kids
<1>2. CASE i \in Inner(a)
  BY <1>2 DEF ForestOK, ArenaOK, WellFormed, Fits, Kids
<1> QED BY <1>1, <1>2 DEF Inner

(* A sweep that keeps a set of slots closed under children leaves those    *)
(* slots as they are and nothing that names another.                       *)
LEMMA SweptOK ==
  ASSUME NEW a, ForestOK(a), NEW live, live \subseteq Live(a), Terminals \subseteq live,
         \A i \in live : Kids(a, i) \subseteq live
  PROVE  LET b == Swept(a, live)
         IN /\ ForestOK(b) /\ Live(b) = live
            /\ \A i : At(b, i) = At(a, i)
<1> DEFINE b == Swept(a, live)
           kept == {x \in DOMAIN a.table : a.table[x] \in live}
           table == RestrictTo(a.table, kept)
           memo == RestrictTo(a.memo, SetEntries(a, live))
           full == [l \in {} |-> NoId]
           free == Slots(a) \ live
<1>0. /\ TerminalsInPlace(a) /\ WellFormed(a) /\ Reduced(a) /\ TableExact(a) /\ MemoLive(a)
  BY DEF ForestOK, ArenaOK
<1>1. /\ b.domains = a.domains /\ b.nodes = a.nodes /\ b.free = free
      /\ b.table = table /\ b.memo = memo /\ b.full = full
      /\ \E d, ns, f, t, m, u : b = Forest(d, ns, f, t, m, u)
  <2>1. PICK d, ns, f, t, m, u : a = Forest(d, ns, f, t, m, u)
    BY DEF ForestOK, ForestType
  <2>2. b = [a EXCEPT !.table = table, !.memo = memo, !.full = full, !.free = free]
    BY Zenon DEF Swept
  <2> HIDE DEF table, memo, full, free, b
  <2>3. b = Forest(d, ns, free, table, memo, full)
    <3>1. [a EXCEPT !.table = table] = Forest(d, ns, f, table, m, u)
      BY <2>1 DEF Forest
    <3>2. [Forest(d, ns, f, table, m, u) EXCEPT !.memo = memo] = Forest(d, ns, f, table, memo, u)
      BY DEF Forest
    <3>3. [Forest(d, ns, f, table, memo, u) EXCEPT !.full = full]
            = Forest(d, ns, f, table, memo, full)
      BY DEF Forest
    <3>4. [Forest(d, ns, f, table, memo, full) EXCEPT !.free = free]
            = Forest(d, ns, free, table, memo, full)
      BY DEF Forest
    <3> QED BY <2>2, <3>1, <3>2, <3>3, <3>4, Zenon
  <2> QED BY <2>1, <2>3 DEF Forest
<1>2. /\ DOMAIN table = kept /\ \A x \in kept : table[x] = a.table[x]
      /\ DOMAIN memo = SetEntries(a, live) /\ \A k \in DOMAIN memo : memo[k] = a.memo[k]
      /\ DOMAIN full = {}
  BY DEF RestrictTo
<1> HIDE DEF b, table, memo, full
<1>3. /\ Slots(b) = Slots(a) /\ Live(b) = live /\ Inner(b) = live \ Terminals
      /\ Inner(b) \subseteq Inner(a) /\ \A i : At(b, i) = At(a, i)
  BY <1>1 DEF Slots, Live, Inner, At
<1> HIDE DEF free
<1>4. \A i : Kind(b, i) = Kind(a, i) /\ Level(b, i) = Level(a, i) /\ Edges(b, i) = Edges(a, i)
  BY <1>3 DEF Kind, Level, Edges
<1>5. TerminalsInPlace(b)
  BY <1>0, <1>3 DEF TerminalsInPlace
<1>6. WellFormed(b)
  <2>1. Levels(b) = Levels(a) /\ \A j : States(b, j) = States(a, j) /\ Cells(b, j) = Cells(a, j)
    BY <1>1 DEF Levels, States, Cells
  <2>2. ASSUME NEW i \in Inner(b)
        PROVE  /\ Kind(a, i) \in {"set", "rel"} /\ Level(a, i) \in Levels(a)
               /\ DOMAIN Edges(a, i) = IF Kind(a, i) = "set" THEN States(a, Level(a, i))
                                       ELSE Cells(a, Level(a, i))
               /\ \A c \in DOMAIN Edges(a, i) : Fits(b, Edges(a, i)[c], Kind(a, i), Level(a, i))
    <3>1. /\ Kind(a, i) \in {"set", "rel"} /\ Level(a, i) \in Levels(a)
          /\ DOMAIN Edges(a, i) = IF Kind(a, i) = "set" THEN States(a, Level(a, i))
                                  ELSE Cells(a, Level(a, i))
          /\ \A c \in DOMAIN Edges(a, i) : Fits(a, Edges(a, i)[c], Kind(a, i), Level(a, i))
      BY <1>0, <1>3 DEF WellFormed
    <3>2. \A c \in DOMAIN Edges(a, i) : Edges(a, i)[c] \in live
      BY <1>3 DEF Kids
    <3>3. \A c \in DOMAIN Edges(a, i) : Fits(b, Edges(a, i)[c], Kind(a, i), Level(a, i))
      BY <1>3, <1>4, <3>1, <3>2 DEF Fits
    <3> QED BY <3>1, <3>3
  <2> QED BY <1>4, <2>1, <2>2 DEF WellFormed
<1>7. Reduced(b)
  BY <1>0, <1>3, <1>4 DEF Reduced
<1>8. TableExact(b)
  <2>1. \A i \in Inner(b) : At(b, i) \in DOMAIN b.table /\ b.table[At(b, i)] = i
    BY <1>0, <1>1, <1>2, <1>3 DEF TableExact, Inner
  <2>2. \A x \in DOMAIN b.table : b.table[x] \in Inner(b) /\ At(b, b.table[x]) = x
    BY <1>0, <1>1, <1>2, <1>3 DEF TableExact, Inner
  <2> QED BY <2>1, <2>2 DEF TableExact
<1>9. FullExact(b) /\ MemoLive(b)
  BY <1>1, <1>2, <1>3 DEF FullExact, MemoLive, SetEntries
<1>10. ForestType(b)
  BY <1>1, <1>3 DEF ForestOK, ForestType, free
<1> QED BY <1>3, <1>5, <1>6, <1>7, <1>8, <1>9, <1>10 DEF ForestOK, ArenaOK, b

----------------------------------------------------------------------------

(* The inductive invariant.                                                *)
EngineInv == ForestOK(forest) /\ TraceInv

----------------------------------------------------------------------------
LEMMA InitHolds == EngineInit => EngineInv
<1> SUFFICES ASSUME EngineInit PROVE EngineInv
  OBVIOUS
<1>1. ForestOK(forest)
  BY NewForestOK DEF EngineInit
<1>2. TraceInv
  BY DEF EngineInit, TraceInv
<1> QED BY <1>1, <1>2 DEF EngineInv

(* A step of an operation moves no node.                                   *)
LEMMA StepKeeps ==
  ASSUME EngineInv, EngineStep
  PROVE  ForestOK(forest') /\ Preserves(forest, forest')
<1>0. ForestOK(forest)
  BY DEF EngineInv
<1>1. ASSUME NEW n \in Domain, Declare(n)
      PROVE  ForestOK(forest') /\ Preserves(forest, forest')
  BY <1>0, <1>1, DomainAssumption, DefVarOK DEF Declare
<1>2. ASSUME NEW l \in Levels(forest),
             NEW children \in [States(forest, l) -> Usable("set", l)],
             CreateSetNode(l, children)
      PROVE  ForestOK(forest') /\ Preserves(forest, forest')
  <2>1. Edged(forest, "set", l, children)
    BY DEF Edged, Usable
  <2> QED BY <1>0, <1>2, <2>1, SetNodeOK DEF CreateSetNode
<1>3. ASSUME NEW l \in Levels(forest),
             NEW block \in [Cells(forest, l) -> Usable("rel", l)],
             CreateRelNode(l, block)
      PROVE  ForestOK(forest') /\ Preserves(forest, forest')
  <2>1. Edged(forest, "rel", l, block)
    BY DEF Edged, Usable
  <2> QED BY <1>0, <1>3, <2>1, RelNodeOK DEF CreateRelNode
<1>4. ASSUME NEW l \in Levels(forest), FullRelation(l)
      PROVE  ForestOK(forest') /\ Preserves(forest, forest')
  BY <1>0, <1>4, FullStepOK DEF FullRelation
<1>5. ASSUME NEW f \in Live(forest), NEW g \in Live(forest), NEW i \in Live(forest),
             NEW op, CachePut(<<op, f, g>>, i)
      PROVE  ForestOK(forest') /\ Preserves(forest, forest')
  <2> DEFINE key == <<op, f, g>>
  <2>1. key[2] = f /\ key[3] = g
    OBVIOUS
  <2> HIDE DEF key
  <2>2. forest' = Remember(forest, key, i)
    BY <1>5 DEF CachePut, key
  <2> QED BY <1>0, <2>1, <2>2, RememberOK
<1>6. ASSUME NEW f \in Live(forest), NEW g \in Live(forest), NEW i \in Live(forest),
             NEW op, NEW l, CachePut(<<op, f, g, l>>, i)
      PROVE  ForestOK(forest') /\ Preserves(forest, forest')
  <2> DEFINE key == <<op, f, g, l>>
  <2>1. key[2] = f /\ key[3] = g
    OBVIOUS
  <2> HIDE DEF key
  <2>2. forest' = Remember(forest, key, i)
    BY <1>6 DEF CachePut, key
  <2> QED BY <1>0, <2>1, <2>2, RememberOK
<1>7. ASSUME forest' = ClearCache(forest)
      PROVE  ForestOK(forest') /\ Preserves(forest, forest')
  BY <1>0, <1>7, ClearCacheOK
<1> QED BY <1>1, <1>2, <1>3, <1>4, <1>5, <1>6, <1>7 DEF EngineStep

(* What a collection has marked when its stack is empty may be kept alone. *)
LEMMA SweepKeeps ==
  ASSUME EngineInv, Sweep
  PROVE  /\ ForestOK(forest') /\ Live(forest') = marked
         /\ \A i : At(forest', i) = At(forest, i)
<1>1. /\ marked \subseteq Live(forest) /\ Terminals \subseteq marked
      /\ \A i \in marked : Kids(forest, i) \subseteq marked
  BY DEF EngineInv, TraceInv, Sweep
<1> QED BY <1>1, SweptOK DEF EngineInv, Sweep

LEMMA NextKeeps == EngineInv /\ [EngineNext]_engine => EngineInv'
<1> SUFFICES ASSUME EngineInv, [EngineNext]_engine PROVE EngineInv'
  OBVIOUS
<1>0. ForestOK(forest) /\ TraceInv
  BY DEF EngineInv
<1>1. CASE EngineStep
  <2>1. ForestOK(forest')
    BY <1>1, StepKeeps
  <2>2. marked' = {} /\ grey' = {}
    BY <1>1 DEF EngineStep, Idle, tracing
  <2> QED BY <2>1, <2>2 DEF EngineInv, TraceInv
<1>2. ASSUME NEW roots \in SUBSET Live(forest), StartMark(forest, roots), UNCHANGED forest
      PROVE  EngineInv'
  <2>1. Terminals \subseteq Live(forest)
    BY <1>0 DEF ForestOK, ArenaOK, TerminalsInPlace
  <2>2. marked' = {} /\ Terminals \subseteq grey' /\ grey' \subseteq Live(forest)
    BY <1>2, <2>1 DEF StartMark
  <2> QED BY <1>0, <1>2, <2>2 DEF EngineInv, TraceInv
<1>3. CASE Mark
  <2> DEFINE below == UNION {Kids(forest, i) : i \in grey}
  <2>0. /\ \A i \in grey : Kids(forest, i) \subseteq below
        /\ (\A i \in grey : Kids(forest, i) \subseteq Live(forest)) => below \subseteq Live(forest)
    BY Zenon
  <2>1. /\ forest' = forest /\ marked' = marked \cup grey
        /\ grey' = below \ (marked \cup grey)
    BY <1>3, Zenon DEF Mark
  <2> HIDE DEF below
  <2>2. marked' \cup grey' \subseteq Live(forest)
    <3>1. \A i \in grey : Kids(forest, i) \subseteq Live(forest)
      BY <1>0, KidsLive DEF TraceInv
    <3> QED BY <1>0, <2>0, <2>1, <3>1 DEF TraceInv
  <2>3. Terminals \subseteq marked'
    BY <1>0, <1>3, <2>1 DEF TraceInv, Mark
  <2>4. \A i \in marked' : Kids(forest, i) \subseteq marked' \cup grey'
    <3> SUFFICES ASSUME NEW x \in marked' PROVE Kids(forest, x) \subseteq marked' \cup grey'
      OBVIOUS
    <3>1. CASE x \in marked
      BY <1>0, <2>1, <3>1 DEF TraceInv
    <3>2. CASE x \in grey
      BY <2>0, <2>1, <3>2
    <3> QED BY <2>1, <3>1, <3>2
  <2>5. TraceInv'
    BY <2>1, <2>2, <2>3, <2>4 DEF TraceInv
  <2> QED BY <1>0, <2>1, <2>5 DEF EngineInv
<1>4. CASE Sweep
  <2>1. ForestOK(forest')
    BY <1>4, SweepKeeps
  <2>2. marked' = {} /\ grey' = {}
    BY <1>4 DEF Sweep
  <2> QED BY <2>1, <2>2 DEF EngineInv, TraceInv
<1>5. CASE UNCHANGED engine
  BY <1>0, <1>5 DEF engine, EngineInv, TraceInv
<1> QED BY <1>1, <1>2, <1>3, <1>4, <1>5 DEF EngineNext

(* A slot that is in use and stays so keeps its node.                      *)
LEMMA NextKeepsNodes ==
  ASSUME EngineInv, EngineNext
  PROVE  \A i \in Live(forest) \cap Live(forest') : At(forest', i) = At(forest, i)
<1> DEFINE Kept == \A i \in Live(forest) \cap Live(forest') : At(forest', i) = At(forest, i)
<1>1. CASE EngineStep
  BY <1>1, StepKeeps DEF Preserves
<1>2. ASSUME NEW roots \in SUBSET Live(forest), StartMark(forest, roots), UNCHANGED forest
      PROVE  Kept
  BY <1>2
<1>3. CASE Mark
  BY <1>3 DEF Mark
<1>4. CASE Sweep
  BY <1>4, SweepKeeps
<1> QED BY <1>1, <1>2, <1>3, <1>4 DEF EngineNext

LEMMA EngineInvHolds == EngineSpec => []EngineInv
<1> QED BY InitHolds, NextKeeps, PTL DEF EngineSpec

----------------------------------------------------------------------------
(* Every forest the engine can build is well-formed, reduced by the rule   *)
(* of each kind and hash-consed, and neither a memo nor a full relation of *)
(* it names a slot that a collection has freed (mxd.rs: create_set_node,   *)
(* create_rel_node, full_relation, gc).                                    *)
THEOREM ArenaInvariant == EngineSpec => []ArenaInv
<1>1. EngineInv => ArenaInv
  BY DEF EngineInv, ForestOK, ArenaInv
<1> QED BY <1>1, EngineInvHolds, PTL

(* A collection marks all that its roots reach before it sweeps (mxd.rs:   *)
(* gc): nothing it has marked leads to a slot it will take away.           *)
THEOREM TraceInvariant == EngineSpec => []TraceInv
<1>1. EngineInv => TraceInv
  BY DEF EngineInv
<1> QED BY <1>1, EngineInvHolds, PTL

(* An id that survives keeps its meaning: no step of the engine changes    *)
(* the node of a slot that was in use and still is, so a NodeId held       *)
(* across an operation or a collection that keeps it stays valid (mxd.rs:  *)
(* new_nonterminal reuses freed slots only).                               *)
THEOREM NodesAreKept == EngineSpec => NodesKept
<1> DEFINE Kept == \A i \in Live(forest) \cap Live(forest') : At(forest', i) = At(forest, i)
<1>1. EngineInv /\ [EngineNext]_engine => [Kept]_engine
  BY NextKeepsNodes
<1>2. EngineSpec => [][Kept]_engine
  BY <1>1, EngineInvHolds, PTL DEF EngineSpec
<1> QED BY <1>2 DEF NodesKept

----------------------------------------------------------------------------
(* What the nodes denote.                                                  *)

Top(a) == Len(a.domains)

LEMMA LeadingDef ==
  ASSUME NEW a, ForestOK(a), NEW x, NEW y
  PROVE  Leading(a, x, y) =
           [n \in 0 .. Top(a) |->
              IF n = 0 THEN {One}
              ELSE (IF x[n] = y[n] THEN Leading(a, x, y)[n - 1] ELSE {})
                     \cup {i \in NodesOn(a, n - 1) :
                             Follow(a, i, x[n], y[n]) \in Leading(a, x, y)[n - 1]}]
<1> DEFINE Def(v, n) == IF n = 0 THEN {One}
                        ELSE (IF x[n] = y[n] THEN v[n - 1] ELSE {})
                               \cup {i \in NodesOn(a, n - 1) : Follow(a, i, x[n], y[n]) \in v[n - 1]}
           N == Top(a)
           Good == {k \in 0 .. N : \E v : \A n \in 0 .. k : v[n] = Def(v, n)}
<1>0. N \in Nat
  BY SlotFacts DEF ForestOK, Top
<1>1. Leading(a, x, y) = CHOOSE v : v = [n \in 0 .. N |-> Def(v, n)]
  BY DEF Leading, Top
<1>2. \A v, w, n : v[n - 1] = w[n - 1] => Def(v, n) = Def(w, n)
  OBVIOUS
<1>3. 0 \in Good
  <2> DEFINE v == [n \in {0} |-> {One}]
  <2>1. \A n \in 0 .. 0 : v[n] = Def(v, n)
    OBVIOUS
  <2> HIDE DEF v, Def
  <2> QED BY <1>0, <2>1
<1> HIDE DEF Def, N
<1>4. ASSUME NEW k \in 0 .. N - 1, k \in Good PROVE k + 1 \in Good
  <2>1. PICK v : \A n \in 0 .. k : v[n] = Def(v, n)
    BY <1>4
  <2> DEFINE w == [n \in 0 .. k + 1 |-> Def(v, n)]
  <2>2. \A n \in 0 .. k + 1 : w[n] = Def(v, n)
    BY <1>0
  <2> HIDE DEF w
  <2>3. \A n \in 0 .. k : w[n] = v[n]
    BY <1>0, <2>1, <2>2
  <2>4. \A n \in 1 .. k + 1 : Def(w, n) = Def(v, n)
    <3> SUFFICES ASSUME NEW n \in 1 .. k + 1 PROVE Def(w, n) = Def(v, n)
      OBVIOUS
    <3>1. n - 1 \in 0 .. k
      BY <1>0
    <3> QED BY <1>2, <2>3, <3>1
  <2>5. Def(w, 0) = Def(v, 0)
    BY DEF Def
  <2>6. \A n \in 0 .. k + 1 : w[n] = Def(w, n)
    <3> SUFFICES ASSUME NEW n \in 0 .. k + 1 PROVE w[n] = Def(w, n)
      OBVIOUS
    <3>1. n = 0 \/ n \in 1 .. k + 1
      BY <1>0
    <3> QED BY <2>2, <2>4, <2>5, <3>1
  <2>7. k + 1 \in 0 .. N
    BY <1>0
  <2> QED BY <2>6, <2>7
<1>5. N \in Good
  <2>1. 0 .. N \subseteq Good
    <3> HIDE DEF Good
    <3> QED BY <1>0, <1>3, <1>4, CountingUp
  <2> QED BY <1>0, <2>1
<1>6. \E v : v = [n \in 0 .. N |-> Def(v, n)]
  <2>1. PICK v : \A n \in 0 .. N : v[n] = Def(v, n)
    BY <1>5
  <2> DEFINE w == [n \in 0 .. N |-> Def(v, n)]
  <2>2. \A n \in 0 .. N : w[n] = v[n]
    BY <2>1
  <2>3. \A n \in 0 .. N : Def(w, n) = Def(v, n)
    <3> SUFFICES ASSUME NEW n \in 0 .. N PROVE Def(w, n) = Def(v, n)
      OBVIOUS
    <3>1. CASE n = 0
      BY <3>1 DEF Def
    <3>2. CASE n # 0
      <4>1. n - 1 \in 0 .. N
        BY <1>0, <3>2
      <4> HIDE DEF w
      <4> QED BY <1>2, <2>2, <4>1
    <3> QED BY <3>1, <3>2
  <2>4. w = [n \in 0 .. N |-> Def(w, n)]
    BY <2>3
  <2> QED BY <2>4
<1>7. Leading(a, x, y) = [n \in 0 .. N |-> Def(Leading(a, x, y), n)]
  BY <1>1, <1>6
<1> QED BY <1>7 DEF Def, N

LEMMA LeadingUnfold ==
  ASSUME NEW a, ForestOK(a), NEW x, NEW y
  PROVE  /\ Top(a) \in Nat
         /\ Leading(a, x, y)[0] = {One}
         /\ \A n \in 0 .. Top(a) - 1 :
              Leading(a, x, y)[n + 1] =
                (IF x[n + 1] = y[n + 1] THEN Leading(a, x, y)[n] ELSE {})
                  \cup {i \in NodesOn(a, n) :
                          Follow(a, i, x[n + 1], y[n + 1]) \in Leading(a, x, y)[n]}
<1> DEFINE f == Leading(a, x, y)
           N == Top(a)
           Def(n) == IF n = 0 THEN {One}
                     ELSE (IF x[n] = y[n] THEN f[n - 1] ELSE {})
                            \cup {i \in NodesOn(a, n - 1) : Follow(a, i, x[n], y[n]) \in f[n - 1]}
<1>1. N \in Nat
  BY SlotFacts DEF ForestOK, Top
<1>2. \A n \in 0 .. N : f[n] = Def(n)
  <2>1. f = [n \in 0 .. N |-> Def(n)]
    BY LeadingDef
  <2> HIDE DEF f, N, Def
  <2> QED BY <2>1
<1>3. f[0] = {One}
  <2>1. 0 \in 0 .. N /\ Def(0) = {One}
    BY <1>1
  <2> HIDE DEF f, N, Def
  <2> QED BY <1>2, <2>1
<1>4. ASSUME NEW n \in 0 .. N - 1
      PROVE  f[n + 1] = (IF x[n + 1] = y[n + 1] THEN f[n] ELSE {})
                          \cup {i \in NodesOn(a, n) : Follow(a, i, x[n + 1], y[n + 1]) \in f[n]}
  <2>1. n + 1 \in 0 .. N /\ n + 1 # 0 /\ (n + 1) - 1 = n
    BY <1>1
  <2>2. f[n + 1] = Def(n + 1)
    BY <1>2, <2>1
  <2> HIDE DEF f, N
  <2> QED BY <2>1, <2>2
<1> QED BY <1>1, <1>3, <1>4

(* Only nodes of the levels read lead to One, and Zero never does.         *)
LEMMA LeadingShape ==
  ASSUME NEW a, ForestOK(a), NEW x, NEW y
  PROVE  \A n \in 0 .. Top(a) : \A i \in Leading(a, x, y)[n] :
           i \in Live(a) /\ Level(a, i) < n /\ i # Zero
<1> DEFINE f == Leading(a, x, y)
           N == Top(a)
           Good == {n \in 0 .. N : \A i \in f[n] : i \in Live(a) /\ Level(a, i) < n /\ i # Zero}
<1>0. /\ N \in Nat /\ f[0] = {One}
      /\ \A i \in Live(a) : Level(a, i) \in Int
      /\ Terminals \subseteq Live(a) /\ \A t \in Terminals : Level(a, t) = -1
  BY LeadingUnfold, LevelFacts DEF ForestOK, ArenaOK, TerminalsInPlace, Level, Terminal
<1>1. 0 \in Good
  BY <1>0 DEF Terminals, Zero, One
<1>2. ASSUME NEW n \in 0 .. N - 1, n \in Good PROVE n + 1 \in Good
  <2>1. \A i \in f[n + 1] : i \in f[n] \/ i \in NodesOn(a, n)
    BY LeadingUnfold
  <2>2. n + 1 \in 0 .. N
    BY <1>0
  <2>3. ASSUME NEW i \in NodesOn(a, n) PROVE i \in Live(a) /\ Level(a, i) < n + 1 /\ i # Zero
    BY <1>0 DEF NodesOn, Terminals
  <2>4. ASSUME NEW i \in f[n] PROVE i \in Live(a) /\ Level(a, i) < n + 1 /\ i # Zero
    BY <1>0, <1>2
  <2> HIDE DEF f
  <2> QED BY <2>1, <2>2, <2>3, <2>4
<1>3. 0 .. N \subseteq Good
  <2> HIDE DEF Good, N, f
  <2> QED BY <1>0, <1>1, <1>2, CountingUp
<1> QED BY <1>3

(* What the levels below n read depends on the states below n alone.       *)
LEMMA LeadingAgrees ==
  ASSUME NEW a, ForestOK(a), NEW x, NEW y, NEW v, NEW w, NEW n \in 0 .. Top(a),
         \A k \in 1 .. n : v[k] = x[k] /\ w[k] = y[k]
  PROVE  Leading(a, v, w)[n] = Leading(a, x, y)[n]
<1> DEFINE f == Leading(a, x, y)
           g == Leading(a, v, w)
           Good == {k \in 0 .. n : g[k] = f[k]}
<1>0. Top(a) \in Nat /\ n \in Nat /\ f[0] = {One} /\ g[0] = {One}
  BY LeadingUnfold
<1>1. 0 \in Good
  BY <1>0
<1>2. ASSUME NEW k \in 0 .. n - 1, k \in Good PROVE k + 1 \in Good
  <2>1. v[k + 1] = x[k + 1] /\ w[k + 1] = y[k + 1] /\ k \in 0 .. Top(a) - 1 /\ k + 1 \in 0 .. n
    BY <1>0
  <2> DEFINE Read(s, t, lower) == (IF s = t THEN lower ELSE {})
                                    \cup {i \in NodesOn(a, k) : Follow(a, i, s, t) \in lower}
  <2>2. f[k + 1] = Read(x[k + 1], y[k + 1], f[k])
    BY <2>1, LeadingUnfold
  <2>3. g[k + 1] = Read(v[k + 1], w[k + 1], g[k])
    BY <2>1, LeadingUnfold
  <2>4. g[k] = f[k]
    BY <1>2
  <2> HIDE DEF f, g, Read
  <2> QED BY <2>1, <2>2, <2>3, <2>4
<1>3. 0 .. n \subseteq Good
  <2> HIDE DEF Good
  <2> QED BY <1>0, <1>1, <1>2, CountingUp
<1> QED BY <1>0, <1>3

(* The state vectors are those of the levels declared.                     *)
LEMMA OmegaFacts ==
  ASSUME NEW a, ForestOK(a)
  PROVE  /\ DOMAIN a.domains = 1 .. Top(a)
         /\ \A n \in 0 .. Top(a) - 1 : n \in Levels(a) /\ States(a, n) = 0 .. a.domains[n + 1] - 1
         /\ \A x : x \in Omega(a.domains) <=>
                     x \in [1 .. Top(a) -> Nat] /\ \A k \in 1 .. Top(a) : x[k] < a.domains[k]
<1> DEFINE d == a.domains
           N == Top(a)
           E == UNION {0 .. d[k] - 1 : k \in DOMAIN d}
<1>1. d \in Seq(Nat \ {0}) /\ N \in Nat /\ DOMAIN d = 1 .. N /\ \A k \in 1 .. N : d[k] \in Nat
  BY DEF ForestOK, ForestType, Top
<1>2. \A n \in 0 .. N - 1 : n \in Levels(a) /\ States(a, n) = 0 .. d[n + 1] - 1
  BY <1>1 DEF Levels, States, Top
<1>3. Omega(d) = {x \in [1 .. N -> E] : \A k \in 1 .. N : x[k] < d[k]}
  BY <1>1 DEF Omega
<1>4. E \subseteq Nat
  <2> SUFFICES ASSUME NEW k \in DOMAIN d, NEW s \in 0 .. d[k] - 1 PROVE s \in Nat
    OBVIOUS
  <2> QED BY <1>1
<1>5. \A k \in 1 .. N : \A s \in Nat : s < d[k] => s \in E
  BY <1>1
<1> HIDE DEF d, N, E
<1>6. ASSUME NEW x \in [1 .. N -> Nat], \A k \in 1 .. N : x[k] < d[k]
      PROVE  x \in [1 .. N -> E]
  BY <1>5, <1>6
<1>7. ASSUME NEW x \in [1 .. N -> E] PROVE x \in [1 .. N -> Nat]
  BY <1>4
<1> QED BY <1>1, <1>2, <1>3, <1>6, <1>7 DEF d, N

(* The moves of one variable that a node of each kind has edges for, and   *)
(* where a node sends them, skipped levels included.                       *)
MovesOf(a, sort, l) == IF sort = "set" THEN {<<s, s>> : s \in States(a, l)} ELSE Cells(a, l)

Child(a, i, l, s, t) ==
  IF Level(a, i) = l THEN Follow(a, i, s, t) ELSE IF s = t THEN i ELSE Zero

Turned(p, k, s, t) == <<[p[1] EXCEPT ![k] = s], [p[2] EXCEPT ![k] = t]>>

LEMMA SortFacts ==
  ASSUME NEW a, ForestOK(a), NEW sort \in {"set", "rel"}
  PROVE  /\ Terminals \subseteq OfSort(a, sort)
         /\ \A i \in OfSort(a, sort) :
              /\ i \in Live(a) /\ Level(a, i) \in Int /\ Level(a, i) < Top(a)
              /\ i \notin Terminals =>
                   /\ i \in Inner(a) /\ Kind(a, i) = sort /\ Level(a, i) \in 0 .. Top(a) - 1
                   /\ DOMAIN Edges(a, i) =
                        IF sort = "set" THEN States(a, Level(a, i)) ELSE Cells(a, Level(a, i))
                   /\ \A c \in DOMAIN Edges(a, i) :
                        Edges(a, i)[c] \in OfSort(a, sort) /\ Level(a, Edges(a, i)[c]) < Level(a, i)
         /\ \A t \in Terminals : Level(a, t) = -1
<1>0. TerminalsInPlace(a) /\ WellFormed(a) /\ Top(a) \in Nat
  BY LeadingUnfold DEF ForestOK, ArenaOK
<1>1. \A t \in Terminals : t \in Live(a) /\ Level(a, t) = -1 /\ Kind(a, t) = "terminal"
  BY <1>0 DEF TerminalsInPlace, Level, Kind, Terminal
<1>2. ASSUME NEW i \in OfSort(a, sort), i \notin Terminals
      PROVE  /\ i \in Inner(a) /\ Kind(a, i) = sort /\ Level(a, i) \in 0 .. Top(a) - 1
             /\ DOMAIN Edges(a, i) =
                  IF sort = "set" THEN States(a, Level(a, i)) ELSE Cells(a, Level(a, i))
             /\ \A c \in DOMAIN Edges(a, i) :
                  Edges(a, i)[c] \in OfSort(a, sort) /\ Level(a, Edges(a, i)[c]) < Level(a, i)
  <2>1. i \in Inner(a)
    BY <1>2 DEF OfSort, Inner
  <2>2. Kind(a, i) = sort
    BY <1>0, <2>1 DEF OfSort, WellFormed
  <2>3. /\ Level(a, i) \in 0 .. Top(a) - 1
        /\ DOMAIN Edges(a, i) =
             IF sort = "set" THEN States(a, Level(a, i)) ELSE Cells(a, Level(a, i))
        /\ \A c \in DOMAIN Edges(a, i) : Fits(a, Edges(a, i)[c], sort, Level(a, i))
    BY <1>0, <2>1, <2>2 DEF WellFormed, Levels, Top
  <2> QED BY <2>1, <2>2, <2>3 DEF Fits, OfSort
<1>3. Terminals \subseteq OfSort(a, sort)
  BY <1>1 DEF OfSort
<1>4. ASSUME NEW i \in OfSort(a, sort)
      PROVE  i \in Live(a) /\ Level(a, i) \in Int /\ Level(a, i) < Top(a)
  <2>1. CASE i \in Terminals
    BY <1>0, <1>1, <2>1
  <2>2. CASE i \notin Terminals
    BY <1>0, <1>2, <2>2 DEF Inner
  <2> QED BY <2>1, <2>2
<1> QED BY <1>1, <1>2, <1>3, <1>4

(* Reading one level.                                                      *)
LEMMA ChildReads ==
  ASSUME NEW a, ForestOK(a), NEW sort \in {"set", "rel"}, NEW n \in 0 .. Top(a) - 1,
         NEW i \in OfSort(a, sort), Level(a, i) < n + 1,
         NEW p \in Asked(sort, a.domains), NEW s, NEW t, <<s, t>> \in MovesOf(a, sort, n)
  PROVE  LET q == Turned(p, n + 1, s, t)
         IN /\ q \in Asked(sort, a.domains)
            /\ Child(a, i, n, s, t) \in OfSort(a, sort)
            /\ Level(a, Child(a, i, n, s, t)) < n
            /\ i \in Leading(a, q[1], q[2])[n + 1]
                 <=> Child(a, i, n, s, t) \in Leading(a, p[1], p[2])[n]
<1> DEFINE d == a.domains
           N == Top(a)
           x == p[1]
           y == p[2]
           v == [x EXCEPT ![n + 1] = s]
           w == [y EXCEPT ![n + 1] = t]
           q == Turned(p, n + 1, s, t)
           j == Child(a, i, n, s, t)
<1>0. N \in Nat /\ n \in Nat /\ n + 1 \in 1 .. N
  BY LeadingUnfold
<1>1. x \in Omega(d) /\ y \in Omega(d) /\ (sort = "set" => x = y) /\ p = <<x, y>>
  BY DEF Asked, Identity, Pairs
<1>2. /\ s \in States(a, n) /\ t \in States(a, n) /\ (sort = "set" => s = t)
      /\ sort = "rel" => <<s, t>> \in Cells(a, n)
  BY DEF MovesOf, Cells
<1>3. /\ x \in [1 .. N -> Nat] /\ y \in [1 .. N -> Nat]
      /\ \A k \in 1 .. N : x[k] < d[k] /\ y[k] < d[k]
  BY <1>1, OmegaFacts
<1>4. s \in Nat /\ t \in Nat /\ s < d[n + 1] /\ t < d[n + 1]
  <2>1. States(a, n) = 0 .. d[n + 1] - 1
    BY OmegaFacts
  <2>2. d[n + 1] \in Nat
    BY <1>0 DEF ForestOK, ForestType, Top
  <2> QED BY <1>2, <2>1, <2>2
<1>5. /\ v \in [1 .. N -> Nat] /\ w \in [1 .. N -> Nat]
      /\ v[n + 1] = s /\ w[n + 1] = t
      /\ \A k \in 1 .. N : k # n + 1 => v[k] = x[k] /\ w[k] = y[k]
  BY <1>0, <1>3, <1>4
<1>6. q = <<v, w>> /\ (sort = "set" => v = w)
  BY <1>1, <1>2 DEF Turned
<1> HIDE DEF v, w, q
<1>7. v \in Omega(d) /\ w \in Omega(d)
  <2>1. \A k \in 1 .. N : v[k] < d[k] /\ w[k] < d[k]
    BY <1>3, <1>4, <1>5
  <2> HIDE DEF x, y
  <2> QED BY <1>5, <2>1, OmegaFacts
<1>8. q \in Asked(sort, d)
  BY <1>6, <1>7 DEF Asked, Identity, Pairs
<1>9. j \in OfSort(a, sort) /\ Level(a, j) < n
  <2>1. CASE Level(a, i) = n
    <3>1. i \notin Terminals
      BY <1>0, <2>1, SortFacts
    <3>2. /\ Kind(a, i) = sort
          /\ DOMAIN Edges(a, i) = IF sort = "set" THEN States(a, n) ELSE Cells(a, n)
          /\ \A c \in DOMAIN Edges(a, i) :
               Edges(a, i)[c] \in OfSort(a, sort) /\ Level(a, Edges(a, i)[c]) < n
      BY <2>1, <3>1, SortFacts
    <3>3. j = Edges(a, i)[IF sort = "set" THEN t ELSE <<s, t>>]
      BY <2>1, <3>2 DEF Child, Follow
    <3> HIDE DEF j
    <3> QED BY <1>2, <3>2, <3>3
  <2>2. CASE Level(a, i) # n
    <3>1. Level(a, i) < n
      BY <1>0, <2>2, SortFacts
    <3>2. Zero \in OfSort(a, sort) /\ Level(a, Zero) = -1
      BY SortFacts DEF Terminals
    <3> QED BY <1>0, <2>2, <3>1, <3>2 DEF Child
  <2> QED BY <2>1, <2>2
<1>10. Leading(a, v, w)[n] = Leading(a, x, y)[n]
  <2>1. \A k \in 1 .. n : v[k] = x[k] /\ w[k] = y[k]
    BY <1>0, <1>5
  <2>2. n \in 0 .. N
    BY <1>0
  <2> HIDE DEF x, y
  <2> QED BY <2>1, <2>2, LeadingAgrees
<1>11. i \in Leading(a, v, w)[n + 1] <=>
         (s = t /\ i \in Leading(a, x, y)[n])
           \/ (i \in NodesOn(a, n) /\ Follow(a, i, s, t) \in Leading(a, x, y)[n])
  <2>1. Leading(a, v, w)[n + 1] =
          (IF v[n + 1] = w[n + 1] THEN Leading(a, v, w)[n] ELSE {})
            \cup {k \in NodesOn(a, n) : Follow(a, k, v[n + 1], w[n + 1]) \in Leading(a, v, w)[n]}
    BY LeadingUnfold
  <2> HIDE DEF x, y
  <2> QED BY <1>5, <1>10, <2>1
<1>12. i \in Leading(a, v, w)[n + 1] <=> j \in Leading(a, x, y)[n]
  <2>0. /\ i \in Live(a) /\ Level(a, i) \in Int
        /\ \A k \in Leading(a, x, y)[n] : Level(a, k) < n /\ k # Zero
    <3>1. n \in 0 .. N
      BY <1>0
    <3> HIDE DEF x, y
    <3> QED BY <3>1, SortFacts, LeadingShape
  <2>1. CASE Level(a, i) = n
    <3>1. i \in NodesOn(a, n) /\ i \notin Leading(a, x, y)[n] /\ j = Follow(a, i, s, t)
      BY <1>0, <2>0, <2>1 DEF NodesOn, Child
    <3> QED BY <1>11, <3>1
  <2>2. CASE Level(a, i) # n
    <3>1. i \notin NodesOn(a, n) /\ j = IF s = t THEN i ELSE Zero
      BY <2>2 DEF NodesOn, Child
    <3>2. Zero \notin Leading(a, x, y)[n]
      BY <2>0
    <3> HIDE DEF j, x, y
    <3> QED BY <1>11, <3>1, <3>2
  <2> QED BY <2>1, <2>2
<1> QED BY <1>6, <1>8, <1>9, <1>12 DEF q

(* Nodes of one kind that the same vectors, or pairs of them, lead to One. *)
ReadAlike(a, sort, n, i, j) ==
  \A p \in Asked(sort, a.domains) :
    i \in Leading(a, p[1], p[2])[n] <=> j \in Leading(a, p[1], p[2])[n]

LEMMA SomeAsked ==
  ASSUME NEW a, ForestOK(a), NEW sort \in {"set", "rel"}
  PROVE  Asked(sort, a.domains) # {}
<1> DEFINE z == [k \in 1 .. Top(a) |-> 0]
<1>1. \A k \in 1 .. Top(a) : a.domains[k] \in Nat \ {0}
  BY DEF ForestOK, ForestType, Top
<1>2. z \in [1 .. Top(a) -> Nat] /\ \A k \in 1 .. Top(a) : z[k] < a.domains[k]
  BY <1>1
<1> HIDE DEF z
<1>3. z \in Omega(a.domains)
  BY <1>2, OmegaFacts
<1>4. <<z, z>> \in Asked(sort, a.domains)
  BY <1>3 DEF Asked, Identity, Pairs
<1> QED BY <1>4

(* Two nodes all of whose children are the same are the same node.         *)
LEMMA ChildrenTellApart ==
  ASSUME NEW a, ForestOK(a), NEW sort \in {"set", "rel"}, NEW n \in 0 .. Top(a) - 1,
         NEW i \in OfSort(a, sort), NEW j \in OfSort(a, sort),
         Level(a, i) < n + 1, Level(a, j) < n + 1,
         \A s, t : <<s, t>> \in MovesOf(a, sort, n) => Child(a, i, n, s, t) = Child(a, j, n, s, t)
  PROVE  i = j
<1>0. Top(a) \in Nat /\ n \in Levels(a)
  BY LeadingUnfold, OmegaFacts
<1>1. /\ \A s \in States(a, n) : <<s, s>> \in MovesOf(a, sort, n)
      /\ sort = "rel" => \A c \in Cells(a, n) : <<c[1], c[2]>> \in MovesOf(a, sort, n) /\ c = <<c[1], c[2]>>
      /\ 0 \in States(a, n) /\ <<0, 0>> \in Cells(a, n)
  BY <1>0, LevelFacts DEF MovesOf, Cells
<1>2. \A k \in OfSort(a, sort) : Level(a, k) = n =>
        /\ k \in Inner(a) /\ Kind(a, k) = sort
        /\ DOMAIN Edges(a, k) = IF sort = "set" THEN States(a, n) ELSE Cells(a, n)
        /\ sort = "set" => \A s \in States(a, n) : Child(a, k, n, s, s) = Edges(a, k)[s]
        /\ sort = "rel" => \A c \in Cells(a, n) : Child(a, k, n, c[1], c[2]) = Edges(a, k)[c]
  <2> SUFFICES ASSUME NEW k \in OfSort(a, sort), Level(a, k) = n
               PROVE  /\ k \in Inner(a) /\ Kind(a, k) = sort
                      /\ DOMAIN Edges(a, k) = IF sort = "set" THEN States(a, n) ELSE Cells(a, n)
                      /\ sort = "set" =>
                           \A s \in States(a, n) : Child(a, k, n, s, s) = Edges(a, k)[s]
                      /\ sort = "rel" =>
                           \A c \in Cells(a, n) : Child(a, k, n, c[1], c[2]) = Edges(a, k)[c]
    OBVIOUS
  <2>1. /\ k \in Inner(a) /\ Kind(a, k) = sort
        /\ DOMAIN Edges(a, k) = IF sort = "set" THEN States(a, n) ELSE Cells(a, n)
    BY <1>0, SortFacts
  <2>2. sort = "set" => \A s \in States(a, n) : Child(a, k, n, s, s) = Edges(a, k)[s]
    BY <2>1 DEF Child, Follow
  <2>3. sort = "rel" => \A c \in Cells(a, n) : Child(a, k, n, c[1], c[2]) = Edges(a, k)[c]
    BY <1>1, <2>1 DEF Child, Follow
  <2> QED BY <2>1, <2>2, <2>3
<1>3. CASE Level(a, i) = n /\ Level(a, j) = n
  <2>1. ASSUME NEW c \in DOMAIN Edges(a, i) PROVE Edges(a, i)[c] = Edges(a, j)[c]
    <3>1. CASE sort = "set"
      <4>1. c \in States(a, n) /\ Edges(a, i)[c] = Child(a, i, n, c, c)
        BY <1>2, <1>3, <3>1
      <4>2. Edges(a, j)[c] = Child(a, j, n, c, c)
        BY <1>2, <1>3, <3>1, <4>1
      <4>3. <<c, c>> \in MovesOf(a, sort, n)
        BY <1>1, <4>1
      <4> QED BY <4>1, <4>2, <4>3
    <3>2. CASE sort = "rel"
      <4>1. c \in Cells(a, n) /\ Edges(a, i)[c] = Child(a, i, n, c[1], c[2])
        BY <1>2, <1>3, <3>2
      <4>2. Edges(a, j)[c] = Child(a, j, n, c[1], c[2])
        BY <1>2, <1>3, <3>2, <4>1
      <4>3. <<c[1], c[2]>> \in MovesOf(a, sort, n)
        BY <1>1, <3>2, <4>1
      <4> QED BY <4>1, <4>2, <4>3
    <3> QED BY <3>1, <3>2
  <2>2. DOMAIN Edges(a, i) = DOMAIN Edges(a, j) /\ Kind(a, i) = Kind(a, j)
    BY <1>2, <1>3
  <2>3. IsNode(At(a, i)) /\ IsNode(At(a, j))
    BY <1>2, <1>3 DEF ForestOK, ForestType
  <2>4. Edges(a, i) = Edges(a, j)
    BY <2>1, <2>2, <2>3 DEF IsNode, Edges
  <2>5. At(a, i) = At(a, j)
    BY <1>3, <2>2, <2>3, <2>4 DEF IsNode, Edges, Kind, Level
  <2>6. a.table[At(a, i)] = i /\ a.table[At(a, j)] = j
    BY <1>2, <1>3 DEF ForestOK, ArenaOK, TableExact
  <2> QED BY <2>5, <2>6
<1>4. ASSUME NEW k \in OfSort(a, sort), NEW m \in OfSort(a, sort), Level(a, k) = n, Level(a, m) # n,
             \A s, t : <<s, t>> \in MovesOf(a, sort, n) =>
                         Child(a, k, n, s, t) = Child(a, m, n, s, t)
      PROVE  FALSE
  <2>1. \A s, t : Child(a, m, n, s, t) = IF s = t THEN m ELSE Zero
    BY <1>4 DEF Child
  <2>2. CASE sort = "set"
    <3>1. ASSUME NEW s \in States(a, n) PROVE Edges(a, k)[s] = m
      <4>1. Edges(a, k)[s] = Child(a, k, n, s, s)
        BY <1>2, <1>4, <2>2
      <4>2. <<s, s>> \in MovesOf(a, sort, n)
        BY <1>1
      <4>3. Child(a, k, n, s, s) = Child(a, m, n, s, s)
        BY <1>4, <4>2
      <4> QED BY <2>1, <4>1, <4>3
    <3>2. IsConstant(Edges(a, k))
      BY <1>2, <1>4, <2>2, <3>1 DEF IsConstant
    <3> QED BY <1>2, <1>4, <2>2, <3>2 DEF ForestOK, ArenaOK, Reduced
  <2>3. CASE sort = "rel"
    <3>1. ASSUME NEW c \in Cells(a, n)
          PROVE  Edges(a, k)[c] = IF c[1] = c[2] THEN m ELSE Zero
      <4>1. Edges(a, k)[c] = Child(a, k, n, c[1], c[2])
        BY <1>2, <1>4, <2>3
      <4>2. <<c[1], c[2]>> \in MovesOf(a, sort, n)
        BY <1>1, <2>3
      <4>3. Child(a, k, n, c[1], c[2]) = Child(a, m, n, c[1], c[2])
        BY <1>4, <4>2
      <4> QED BY <2>1, <4>1, <4>3
    <3>2. Edges(a, k)[<<0, 0>>] = m
      BY <1>1, <3>1
    <3>3. IsDiagonal(Edges(a, k))
      BY <1>2, <1>4, <2>3, <3>1, <3>2 DEF IsDiagonal
    <3> QED BY <1>2, <1>4, <2>3, <3>3 DEF ForestOK, ArenaOK, Reduced
  <2> QED BY <2>2, <2>3
<1>5. CASE Level(a, i) # n /\ Level(a, j) # n
  <2>1. Child(a, i, n, 0, 0) = Child(a, j, n, 0, 0)
    BY <1>1
  <2> QED BY <1>5, <2>1 DEF Child
<1> QED BY <1>3, <1>4, <1>5

LEMMA MeaningsTellApart ==
  ASSUME NEW a, ForestOK(a), NEW sort \in {"set", "rel"}
  PROVE  \A i, j \in OfSort(a, sort) : ReadAlike(a, sort, Top(a), i, j) => i = j
<1> DEFINE N == Top(a)
           Good == {n \in 0 .. N : \A i, j \in OfSort(a, sort) :
                      Level(a, i) < n /\ Level(a, j) < n /\ ReadAlike(a, sort, n, i, j) => i = j}
<1>0. N \in Nat
  BY LeadingUnfold
<1>1. 0 \in Good
  <2> SUFFICES ASSUME NEW i \in OfSort(a, sort), NEW j \in OfSort(a, sort),
                      Level(a, i) < 0, Level(a, j) < 0, ReadAlike(a, sort, 0, i, j)
               PROVE  i = j
    BY <1>0
  <2>1. i \in Terminals /\ j \in Terminals
    BY <1>0, SortFacts
  <2>2. PICK p \in Asked(sort, a.domains) : TRUE
    BY SomeAsked
  <2>3. Leading(a, p[1], p[2])[0] = {One}
    BY LeadingUnfold
  <2>4. i = One <=> j = One
    BY <2>2, <2>3 DEF ReadAlike
  <2> QED BY <2>1, <2>4 DEF Terminals
<1>2. ASSUME NEW n \in 0 .. N - 1, n \in Good PROVE n + 1 \in Good
  <2>1. ASSUME NEW i \in OfSort(a, sort), NEW j \in OfSort(a, sort),
               Level(a, i) < n + 1, Level(a, j) < n + 1, ReadAlike(a, sort, n + 1, i, j)
        PROVE  i = j
    <3>1. ASSUME NEW s, NEW t, <<s, t>> \in MovesOf(a, sort, n)
          PROVE  Child(a, i, n, s, t) = Child(a, j, n, s, t)
      <4> DEFINE k == Child(a, i, n, s, t)
                 m == Child(a, j, n, s, t)
      <4>1. PICK o \in Asked(sort, a.domains) : TRUE
        BY SomeAsked
      <4>2. k \in OfSort(a, sort) /\ m \in OfSort(a, sort) /\ Level(a, k) < n /\ Level(a, m) < n
        BY <2>1, <3>1, <4>1, ChildReads
      <4>3. ASSUME NEW p \in Asked(sort, a.domains)
            PROVE  k \in Leading(a, p[1], p[2])[n] <=> m \in Leading(a, p[1], p[2])[n]
        <5> DEFINE q == Turned(p, n + 1, s, t)
        <5>1. /\ q \in Asked(sort, a.domains)
              /\ i \in Leading(a, q[1], q[2])[n + 1] <=> k \in Leading(a, p[1], p[2])[n]
          BY <2>1, <3>1, ChildReads
        <5>2. j \in Leading(a, q[1], q[2])[n + 1] <=> m \in Leading(a, p[1], p[2])[n]
          BY <2>1, <3>1, ChildReads
        <5> HIDE DEF q, k, m
        <5>3. i \in Leading(a, q[1], q[2])[n + 1] <=> j \in Leading(a, q[1], q[2])[n + 1]
          BY <2>1, <5>1 DEF ReadAlike
        <5> QED BY <5>1, <5>2, <5>3
      <4>4. ReadAlike(a, sort, n, k, m)
        BY <4>3 DEF ReadAlike
      <4> HIDE DEF k, m
      <4>5. k = m
        BY <1>2, <4>2, <4>4
      <4> QED BY <4>5 DEF k, m
    <3> QED BY <2>1, <3>1, ChildrenTellApart
  <2>2. n + 1 \in 0 .. N
    BY <1>0
  <2> QED BY <2>1, <2>2
<1>3. N \in Good
  <2>1. 0 .. N \subseteq Good
    <3> HIDE DEF Good
    <3> QED BY <1>0, <1>1, <1>2, CountingUp
  <2> QED BY <1>0, <2>1
<1>4. \A i \in OfSort(a, sort) : Level(a, i) < N
  BY SortFacts
<1> HIDE DEF N
<1> QED BY <1>3, <1>4 DEF N

(* What a slot denotes, vector by vector or pair by pair.                  *)
LEMMA DenotedReads ==
  ASSUME NEW a, NEW sort, NEW n, NEW i
  PROVE  /\ DenotedIn(Readings(a, sort, n), i) \subseteq Asked(sort, a.domains)
         /\ \A p \in Asked(sort, a.domains) :
              p \in DenotedIn(Readings(a, sort, n), i) <=> i \in Leading(a, p[1], p[2])[n]
<1> DEFINE L(p) == Leading(a, p[1], p[2])[n]
           R == {<<p, L(p)>> : p \in Asked(sort, a.domains)}
           D == DenotedIn(Readings(a, sort, n), i)
<1>1. D = {r[1] : r \in {o \in R : i \in o[2]}}
  BY DEF DenotedIn, Readings
<1> HIDE DEF D, L
<1>2. ASSUME NEW p \in Asked(sort, a.domains), i \in L(p) PROVE p \in D
  <2> DEFINE r == <<p, L(p)>>
  <2>1. r \in R /\ r[2] = L(p) /\ r[1] = p
    OBVIOUS
  <2> HIDE DEF r, R
  <2> QED BY <1>1, <1>2, <2>1
<1>3. ASSUME NEW p \in D PROVE p \in Asked(sort, a.domains) /\ i \in L(p)
  <2>1. PICK r \in R : i \in r[2] /\ r[1] = p
    BY <1>1, <1>3
  <2>2. PICK o \in Asked(sort, a.domains) : r = <<o, L(o)>>
    BY <2>1
  <2> QED BY <2>1, <2>2
<1> QED BY <1>2, <1>3 DEF D, L

(* The diagrams of each kind are canonical, whatever was built, shared by  *)
(* both kinds, collected and recycled (mxd.rs: create_set_node,            *)
(* create_rel_node, utable, gc): two nodes in use that denote the same set,*)
(* or the same relation, are one node, so handles may be compared by id.   *)
THEOREM DiagramsAreCanonical == EngineSpec => []Canonical
<1>1. ASSUME EngineInv PROVE Canonical
  <2> DEFINE N == Len(forest.domains)
             D(sort, i) == DenotedIn(Readings(forest, sort, N), i)
  <2> SUFFICES ASSUME NEW sort \in {"set", "rel"}
               PROVE  IsInjective([i \in OfSort(forest, sort) |-> D(sort, i)])
    BY DEF Canonical
  <2>1. ForestOK(forest)
    BY <1>1 DEF EngineInv
  <2>2. ASSUME NEW i \in OfSort(forest, sort), NEW j \in OfSort(forest, sort), D(sort, i) = D(sort, j)
        PROVE  i = j
    <3>1. ReadAlike(forest, sort, N, i, j)
      BY <2>2, DenotedReads DEF ReadAlike
    <3> QED BY <2>1, <3>1, MeaningsTellApart DEF Top
  <2> HIDE DEF D
  <2> QED BY <2>2 DEF IsInjective
<1> QED BY <1>1, EngineInvHolds, PTL

----------------------------------------------------------------------------
(* What building a node means, and that meanings are kept.                 *)

LEMMA OneLevelMore ==
  ASSUME NEW a, ForestOK(a), NEW x, NEW y, NEW n \in 0 .. Top(a) - 1, NEW i \in Live(a)
  PROVE  IF Level(a, i) = n
         THEN i \in Leading(a, x, y)[n + 1] <=>
                Follow(a, i, x[n + 1], y[n + 1]) \in Leading(a, x, y)[n]
         ELSE i \in Leading(a, x, y)[n + 1] <=> x[n + 1] = y[n + 1] /\ i \in Leading(a, x, y)[n]
<1>1. Leading(a, x, y)[n + 1] =
        (IF x[n + 1] = y[n + 1] THEN Leading(a, x, y)[n] ELSE {})
          \cup {k \in NodesOn(a, n) : Follow(a, k, x[n + 1], y[n + 1]) \in Leading(a, x, y)[n]}
  BY LeadingUnfold
<1>2. n \in 0 .. Top(a) /\ n \in Nat
  BY LeadingUnfold
<1>3. i \in Leading(a, x, y)[n] => Level(a, i) < n
  BY <1>2, LeadingShape
<1>4. i \in NodesOn(a, n) <=> Level(a, i) = n
  BY DEF NodesOn
<1> QED BY <1>1, <1>2, <1>3, <1>4

LEMMA OmegaStates ==
  ASSUME NEW a, ForestOK(a), NEW x \in Omega(a.domains), NEW n \in 0 .. Top(a) - 1
  PROVE  x[n + 1] \in States(a, n)
<1>0. Top(a) \in Nat
  BY LeadingUnfold
<1>1. n + 1 \in 1 .. Top(a)
  BY <1>0
<1>2. x[n + 1] \in Nat /\ x[n + 1] < a.domains[n + 1]
  <2>1. x \in [1 .. Top(a) -> Nat] /\ \A k \in 1 .. Top(a) : x[k] < a.domains[k]
    BY OmegaFacts, Zenon
  <2> QED BY <1>1, <2>1
<1>3. States(a, n) = 0 .. a.domains[n + 1] - 1 /\ a.domains[n + 1] \in Nat
  BY <1>1, OmegaFacts DEF ForestOK, ForestType, Top
<1> QED BY <1>2, <1>3

(* An edge that a pair of vectors takes leads to a slot in use.            *)
LEMMA FollowedIsLive ==
  ASSUME NEW a, ForestOK(a), NEW x \in Omega(a.domains), NEW y \in Omega(a.domains),
         NEW n \in 0 .. Top(a) - 1, NEW i \in Live(a), Level(a, i) = n
  PROVE  Follow(a, i, x[n + 1], y[n + 1]) \in Live(a)
<1>1. i \in Inner(a)
  <2>1. \A t \in Terminals : Level(a, t) = -1
    BY DEF ForestOK, ArenaOK, TerminalsInPlace, Level, Terminal
  <2>2. Top(a) \in Nat
    BY LeadingUnfold
  <2> QED BY <2>1, <2>2 DEF Inner
<1>2. x[n + 1] \in States(a, n) /\ y[n + 1] \in States(a, n)
  BY OmegaStates
<1>3. /\ DOMAIN Edges(a, i) = IF Kind(a, i) = "set" THEN States(a, n) ELSE Cells(a, n)
      /\ \A c \in DOMAIN Edges(a, i) : Edges(a, i)[c] \in Live(a)
  BY <1>1 DEF ForestOK, ArenaOK, WellFormed, Fits
<1> QED BY <1>2, <1>3 DEF Follow, Cells

LEMMA LeadingKept ==
  ASSUME NEW a, NEW b, ForestOK(a), ForestOK(b), Redeclares(a, b),
         \A i \in Live(a) \cap Live(b) : At(b, i) = At(a, i),
         NEW x \in Omega(a.domains), NEW y \in Omega(a.domains)
  PROVE  \A n \in 0 .. Top(a) : \A i \in Live(a) \cap Live(b) :
           i \in Leading(b, x, y)[n] <=> i \in Leading(a, x, y)[n]
<1> DEFINE f == Leading(a, x, y)
           g == Leading(b, x, y)
           N == Top(a)
           Good == {n \in 0 .. N : \A i \in Live(a) \cap Live(b) : i \in g[n] <=> i \in f[n]}
<1>0. /\ N \in Nat /\ Top(b) \in Nat /\ f[0] = {One} /\ g[0] = {One} /\ N <= Top(b)
  <2>1. N \in Nat /\ Top(b) \in Nat /\ f[0] = {One} /\ g[0] = {One}
    BY LeadingUnfold
  <2>2. 0 .. N - 1 \subseteq 0 .. Top(b) - 1
    BY DEF Redeclares, Levels, Top
  <2>3. N = 0 \/ N - 1 \in 0 .. Top(b) - 1
    BY <2>1, <2>2
  <2> QED BY <2>1, <2>3
<1>1. 0 \in Good
  BY <1>0
<1>2. ASSUME NEW n \in 0 .. N - 1, n \in Good PROVE n + 1 \in Good
  <2>0. n \in 0 .. Top(b) - 1 /\ n + 1 \in 0 .. N
    BY <1>0
  <2>1. ASSUME NEW i \in Live(a) \cap Live(b) PROVE i \in g[n + 1] <=> i \in f[n + 1]
    <3>1. Level(b, i) = Level(a, i) /\ \A s, t : Follow(b, i, s, t) = Follow(a, i, s, t)
      BY DEF Level, Follow, Edges, Kind
    <3>2. CASE Level(a, i) = n
      <4>1. Follow(a, i, x[n + 1], y[n + 1]) \in Live(a)
        BY <3>2, FollowedIsLive
      <4>2. Follow(b, i, x[n + 1], y[n + 1]) \in Live(b)
        <5>1. i \in Inner(b)
          <6>1. \A t \in Terminals : Level(b, t) = -1
            BY DEF ForestOK, ArenaOK, TerminalsInPlace, Level, Terminal
          <6> QED BY <1>0, <3>1, <3>2, <6>1 DEF Inner
        <5>2. \A c \in DOMAIN Edges(b, i) : Edges(b, i)[c] \in Live(b)
          BY <5>1 DEF ForestOK, ArenaOK, WellFormed, Fits
        <5>3. i \in Inner(a)
          BY <5>1 DEF Inner
        <5>4. /\ DOMAIN Edges(a, i) = IF Kind(a, i) = "set" THEN States(a, n) ELSE Cells(a, n)
              /\ Edges(b, i) = Edges(a, i) /\ Kind(b, i) = Kind(a, i)
          BY <3>2, <5>3 DEF ForestOK, ArenaOK, WellFormed, Edges, Kind
        <5>5. x[n + 1] \in States(a, n) /\ y[n + 1] \in States(a, n)
          BY OmegaStates
        <5> QED BY <5>2, <5>4, <5>5 DEF Follow, Cells
      <4>3. i \in f[n + 1] <=> Follow(a, i, x[n + 1], y[n + 1]) \in f[n]
        BY <3>2, OneLevelMore
      <4>4. i \in g[n + 1] <=> Follow(b, i, x[n + 1], y[n + 1]) \in g[n]
        BY <2>0, <3>1, <3>2, OneLevelMore
      <4> HIDE DEF f, g
      <4> QED BY <1>2, <3>1, <4>1, <4>2, <4>3, <4>4
    <3>3. CASE Level(a, i) # n
      <4>1. i \in f[n + 1] <=> x[n + 1] = y[n + 1] /\ i \in f[n]
        BY <3>3, OneLevelMore
      <4>2. i \in g[n + 1] <=> x[n + 1] = y[n + 1] /\ i \in g[n]
        BY <2>0, <3>1, <3>3, OneLevelMore
      <4> HIDE DEF f, g
      <4> QED BY <1>2, <4>1, <4>2
    <3> QED BY <3>2, <3>3
  <2> HIDE DEF f, g
  <2> QED BY <2>0, <2>1
<1>3. 0 .. N \subseteq Good
  <2> HIDE DEF Good, N
  <2> QED BY <1>0, <1>1, <1>2, CountingUp
<1> QED BY <1>3

(* No step takes a declaration back.                                       *)
LEMMA NextRedeclares ==
  ASSUME ForestOK(forest), EngineNext
  PROVE  Redeclares(forest, forest')
<1>0. PICK d, ns, f, t, m, u : forest = Forest(d, ns, f, t, m, u)
  BY DEF ForestOK, ForestType
<1>1. ASSUME forest'.domains = forest.domains PROVE Redeclares(forest, forest')
  BY <1>1 DEF Redeclares, Levels
<1>2. ASSUME NEW n \in Domain, Declare(n) PROVE Redeclares(forest, forest')
  <2>1. forest'.domains = Append(forest.domains, n)
    BY <1>0, <1>2 DEF Declare, DefVar, Forest
  <2>2. n \in Nat \ {0} /\ forest.domains \in Seq(Nat \ {0})
    BY DomainAssumption DEF ForestOK, ForestType
  <2>3. /\ Len(forest'.domains) = Len(forest.domains) + 1 /\ Len(forest.domains) \in Nat
        /\ \A k \in 1 .. Len(forest.domains) : forest'.domains[k] = forest.domains[k]
    BY <2>1, <2>2
  <2> QED BY <2>3 DEF Redeclares, Levels
<1>3. \A n : HashCons(forest, n)[2].domains = forest.domains
  BY <1>0 DEF HashCons, Store, Forest
<1>4. ASSUME NEW l, NEW children, CreateSetNode(l, children)
      PROVE  forest'.domains = forest.domains
  BY <1>3, <1>4 DEF CreateSetNode, SetNode
<1>5. \A l, block : RelNode(forest, l, block)[2].domains = forest.domains
  BY <1>3 DEF RelNode
<1>6. ASSUME NEW l, NEW block, CreateRelNode(l, block)
      PROVE  forest'.domains = forest.domains
  BY <1>5, <1>6 DEF CreateRelNode
<1>7. ASSUME NEW l \in Levels(forest), FullRelation(l)
      PROVE  Redeclares(forest, forest')
  <2>1. CASE l \in DOMAIN forest.full
    BY <1>1, <1>7, <2>1 DEF FullRelation, FullStep
  <2>2. CASE l \notin DOMAIN forest.full
    <3> DEFINE r == FullNode(forest, l)
    <3>1. forest' = KeepFull(l, r)
      BY <1>7, <2>2 DEF FullRelation, FullStep
    <3>2. r[2].domains = forest.domains
      BY <1>5 DEF FullNode
    <3>3. Edged(forest, "rel", l, [c \in Cells(forest, l) |-> Below(forest, l)])
      <4>1. Fits(forest, Below(forest, l), "rel", l)
        BY <1>7, BelowFits DEF FullRelation
      <4> QED BY <4>1 DEF Edged
    <3>4. \E d2, ns2, f2, t2, m2, u2 : r[2] = Forest(d2, ns2, f2, t2, m2, u2)
      BY <3>3, RelNodeOK DEF FullNode, ForestOK, ForestType
    <3> HIDE DEF r
    <3>5. forest'.domains = r[2].domains
      BY <3>1, <3>4 DEF KeepFull, Forest
    <3> QED BY <1>1, <3>2, <3>5
  <2> QED BY <2>1, <2>2
<1>8. ASSUME NEW key, NEW i, CachePut(key, i) PROVE forest'.domains = forest.domains
  BY <1>0, <1>8 DEF CachePut, Remember, Forest
<1>9. forest' = ClearCache(forest) => forest'.domains = forest.domains
  BY <1>0 DEF ClearCache, Forest
<1>10. Sweep => forest'.domains = forest.domains
  BY <1>0 DEF Sweep, Swept, Forest
<1>11. EngineStep => Redeclares(forest, forest')
  BY <1>1, <1>2, <1>4, <1>6, <1>7, <1>8, <1>9 DEF EngineStep
<1>12. forest' = forest => Redeclares(forest, forest')
  BY <1>1
<1> QED BY <1>1, <1>10, <1>11, <1>12 DEF EngineNext, Mark

(* A set or a relation that is kept stays what it was (mxd.rs: def_var,    *)
(* new_nonterminal, clear_cache, gc): no declaration, and no slot recycled *)
(* elsewhere, reaches it.                                                  *)
THEOREM MeaningsAreKept == EngineSpec => MeaningsKept
<1> DEFINE Kept == \A i \in Live(forest) \cap Live(forest') : \A p \in Pairs(forest.domains) :
                     i \in Leading(forest', p[1], p[2])[Len(forest.domains)]
                       <=> i \in Leading(forest, p[1], p[2])[Len(forest.domains)]
<1>1. EngineInv /\ [EngineNext]_engine => [Kept]_engine
  <2> SUFFICES ASSUME EngineInv, EngineNext PROVE Kept
    OBVIOUS
  <2>1. ForestOK(forest) /\ ForestOK(forest')
    BY NextKeeps DEF EngineInv
  <2>2. Redeclares(forest, forest')
    BY <2>1, NextRedeclares
  <2>3. \A i \in Live(forest) \cap Live(forest') : At(forest', i) = At(forest, i)
    BY NextKeepsNodes
  <2>4. \A p \in Pairs(forest.domains) : p[1] \in Omega(forest.domains) /\ p[2] \in Omega(forest.domains)
    BY DEF Pairs
  <2>5. Len(forest.domains) \in 0 .. Top(forest)
    BY <2>1, LeadingUnfold DEF Top
  <2> QED BY <2>1, <2>2, <2>3, <2>4, <2>5, LeadingKept
<1>2. EngineSpec => [][Kept]_engine
  BY <1>1, EngineInvHolds, PTL DEF EngineSpec
<1> QED BY <1>2 DEF MeaningsKept

(* A memoised full relation is full (mxd.rs: full_relation, clear_cache,   *)
(* gc): hits after declarations, clearings and collections included.       *)
LEMMA FullLeads ==
  ASSUME NEW a, ForestOK(a), NEW x \in Omega(a.domains), NEW y \in Omega(a.domains)
  PROVE  \A l \in DOMAIN a.full : a.full[l] \in Leading(a, x, y)[l + 1]
<1> DEFINE f == Leading(a, x, y)
           N == Top(a)
           Good == {n \in 0 .. N : n = 0 \/ n - 1 \in DOMAIN a.full => Below(a, n) \in f[n]}
<1>0. /\ N \in Nat /\ f[0] = {One} /\ DOMAIN a.full \subseteq 0 .. N - 1
      /\ \A l \in DOMAIN a.full : l > 0 => l - 1 \in DOMAIN a.full
  <2>1. N \in Nat /\ f[0] = {One}
    BY LeadingUnfold
  <2>2. \A l \in DOMAIN a.full : l \in Levels(a) /\ (l > 0 => l - 1 \in DOMAIN a.full)
    BY DEF ForestOK, ArenaOK, FullExact
  <2> QED BY <2>1, <2>2 DEF Levels, Top
<1>1. 0 \in Good
  BY <1>0 DEF Below
<1>2. ASSUME NEW n \in 0 .. N - 1, n \in Good PROVE n + 1 \in Good
  <2>0. n + 1 \in 0 .. N /\ n + 1 # 0 /\ (n + 1) - 1 = n
    BY <1>0
  <2>1. ASSUME n \in DOMAIN a.full PROVE a.full[n] \in f[n + 1]
    <3>1. Below(a, n) \in f[n]
      <4>1. n = 0 \/ n - 1 \in DOMAIN a.full
        BY <1>0, <2>1
      <4> QED BY <1>2, <4>1
    <3>2. /\ Fits(a, a.full[n], "rel", n + 1)
          /\ IF a.domains[n + 1] = 1 THEN a.full[n] = Below(a, n)
             ELSE At(a, a.full[n]) =
                    [kind |-> "rel", level |-> n, edges |-> [c \in Cells(a, n) |-> Below(a, n)]]
      BY <2>1 DEF ForestOK, ArenaOK, FullExact
    <3>3. /\ x[n + 1] \in States(a, n) /\ y[n + 1] \in States(a, n)
          /\ States(a, n) = 0 .. a.domains[n + 1] - 1
      BY OmegaStates, OmegaFacts
    <3>4. CASE a.domains[n + 1] = 1
      <4>1. x[n + 1] = y[n + 1]
        BY <3>3, <3>4
      <4>2. f[n] \subseteq f[n + 1]
        BY <4>1, LeadingUnfold
      <4> HIDE DEF f
      <4> QED BY <3>1, <3>2, <3>4, <4>2
    <3>5. CASE a.domains[n + 1] # 1
      <4> DEFINE i == a.full[n]
      <4>1. i \in Live(a)
        BY <3>2 DEF Fits
      <4>2. /\ Level(a, i) = n /\ Kind(a, i) = "rel"
            /\ Edges(a, i) = [c \in Cells(a, n) |-> Below(a, n)]
        BY <3>2, <3>5 DEF Level, Kind, Edges
      <4>3. Follow(a, i, x[n + 1], y[n + 1]) = Below(a, n)
        BY <3>3, <4>2 DEF Follow, Cells
      <4> HIDE DEF i
      <4>4. i \in f[n + 1] <=> Follow(a, i, x[n + 1], y[n + 1]) \in f[n]
        BY <4>1, <4>2, OneLevelMore
      <4> HIDE DEF f
      <4> QED BY <3>1, <4>3, <4>4 DEF i
    <3> QED BY <3>4, <3>5
  <2>2. n \in DOMAIN a.full => Below(a, n + 1) = a.full[n]
    BY <2>0 DEF Below
  <2> HIDE DEF f
  <2> QED BY <2>0, <2>1, <2>2
<1>3. 0 .. N \subseteq Good
  <2> HIDE DEF Good, N
  <2> QED BY <1>0, <1>1, <1>2, CountingUp
<1> SUFFICES ASSUME NEW l \in DOMAIN a.full PROVE a.full[l] \in f[l + 1]
  OBVIOUS
<1>4. l + 1 \in 0 .. N /\ (l + 1) - 1 = l /\ l + 1 # 0
  BY <1>0
<1>5. l + 1 \in Good
  BY <1>3, <1>4
<1>6. Below(a, l + 1) = a.full[l]
  BY <1>4 DEF Below
<1> HIDE DEF f
<1> QED BY <1>4, <1>5, <1>6

THEOREM FullRelationsAreFull == EngineSpec => []FullIsFull
<1>1. EngineInv => FullIsFull
  <2> SUFFICES ASSUME ForestOK(forest), NEW l \in DOMAIN forest.full, NEW p \in Pairs(forest.domains)
               PROVE  forest.full[l] \in Leading(forest, p[1], p[2])[l + 1]
    BY DEF EngineInv, FullIsFull
  <2>1. p[1] \in Omega(forest.domains) /\ p[2] \in Omega(forest.domains)
    BY DEF Pairs
  <2> QED BY <2>1, FullLeads
<1> QED BY <1>1, EngineInvHolds, PTL

(* What create_set_node returns leads a vector to One exactly when the     *)
(* child for its state does, by whichever branch the node came.            *)
THEOREM SetNodeMeans ==
  ASSUME NEW a, ForestOK(a), NEW l \in Levels(a), NEW children, Edged(a, "set", l, children),
         NEW x \in Omega(a.domains)
  PROVE  LET r == SetNode(a, l, children)
         IN r[1] \in Leading(r[2], x, x)[l + 1]
              <=> children[x[l + 1]] \in Leading(a, x, x)[l]
<1> DEFINE n == [kind |-> "set", level |-> l, edges |-> children]
           r == SetNode(a, l, children)
<1>0. /\ l \in 0 .. Top(a) - 1 /\ Top(a) \in Nat /\ x[l + 1] \in States(a, l) /\ 0 \in States(a, l)
      /\ DOMAIN children = States(a, l) /\ \A c \in States(a, l) : Fits(a, children[c], "set", l)
  <2>1. l \in 0 .. Top(a) - 1
    BY DEF Levels, Top
  <2>2. Top(a) \in Nat
    BY LeadingUnfold
  <2> QED BY <2>1, <2>2, OmegaStates, LevelFacts DEF Edged
<1>1. CASE IsConstant(children)
  <2>1. r[1] = children[0] /\ r[2] = a
    BY <1>1 DEF SetNode
  <2>2. children[x[l + 1]] = children[0]
    BY <1>0, <1>1 DEF IsConstant
  <2>3. children[0] \in Live(a) /\ Level(a, children[0]) # l
    BY <1>0, LevelFacts DEF Fits
  <2>4. children[0] \in Leading(a, x, x)[l + 1] <=> children[0] \in Leading(a, x, x)[l]
    BY <1>0, <2>3, OneLevelMore
  <2> HIDE DEF r
  <2> QED BY <2>1, <2>2, <2>4 DEF r
<1>2. CASE ~ IsConstant(children)
  <2>1. r = HashCons(a, n) /\ ~ Reducible("set", children)
    BY <1>2 DEF SetNode, Reducible
  <2>2. /\ ForestOK(r[2]) /\ Preserves(a, r[2]) /\ r[1] \in Inner(r[2]) /\ At(r[2], r[1]) = n
        /\ r[2].domains = a.domains
    BY <2>1, HashConsOK
  <2>3. n.kind = "set" /\ n.level = l /\ n.edges = children
    OBVIOUS
  <2> HIDE DEF r, n
  <2>4. /\ r[1] \in Live(r[2]) /\ Level(r[2], r[1]) = l
        /\ Follow(r[2], r[1], x[l + 1], x[l + 1]) = children[x[l + 1]]
    BY <2>2, <2>3 DEF Inner, Level, Kind, Edges, Follow
  <2>5. /\ Redeclares(a, r[2]) /\ Top(r[2]) = Top(a) /\ children[x[l + 1]] \in Live(a)
        /\ Live(a) \subseteq Live(r[2]) /\ l \in 0 .. Top(a)
        /\ \A i \in Live(a) : At(r[2], i) = At(a, i)
    BY <1>0, <2>2 DEF Redeclares, Levels, Top, Fits, Preserves
  <2>6. r[1] \in Leading(r[2], x, x)[l + 1]
          <=> Follow(r[2], r[1], x[l + 1], x[l + 1]) \in Leading(r[2], x, x)[l]
    BY <1>0, <2>2, <2>4, <2>5, OneLevelMore
  <2>7. children[x[l + 1]] \in Leading(r[2], x, x)[l] <=> children[x[l + 1]] \in Leading(a, x, x)[l]
    BY <2>2, <2>5, LeadingKept
  <2> QED BY <2>4, <2>6, <2>7 DEF r
<1> QED BY <1>1, <1>2

(* What create_rel_node returns leads a pair to One exactly when the child *)
(* for its two states does: an empty block, a block that is one child along*)
(* its diagonal, and any other.                                            *)
THEOREM RelNodeMeans ==
  ASSUME NEW a, ForestOK(a), NEW l \in Levels(a), NEW block, Edged(a, "rel", l, block),
         NEW x \in Omega(a.domains), NEW y \in Omega(a.domains)
  PROVE  LET r == RelNode(a, l, block)
         IN r[1] \in Leading(r[2], x, y)[l + 1]
              <=> block[<<x[l + 1], y[l + 1]>>] \in Leading(a, x, y)[l]
<1> DEFINE n == [kind |-> "rel", level |-> l, edges |-> block]
           r == RelNode(a, l, block)
           s == x[l + 1]
           t == y[l + 1]
           c == <<s, t>>
<1>0. /\ l \in 0 .. Top(a) - 1 /\ Top(a) \in Nat /\ c \in Cells(a, l) /\ <<0, 0>> \in Cells(a, l)
      /\ DOMAIN block = Cells(a, l) /\ \A k \in Cells(a, l) : Fits(a, block[k], "rel", l)
  <2>1. l \in 0 .. Top(a) - 1
    BY DEF Levels, Top
  <2>2. Top(a) \in Nat
    BY LeadingUnfold
  <2>3. s \in States(a, l) /\ t \in States(a, l)
    BY <2>1, OmegaStates
  <2> QED BY <2>1, <2>2, <2>3, LevelFacts DEF Edged, Cells
<1>1. c[1] = s /\ c[2] = t
  OBVIOUS
<1> HIDE DEF c, s, t
<1>2. \A k \in 0 .. Top(a) : Zero \notin Leading(a, x, y)[k]
  BY LeadingShape
<1>3. l \in 0 .. Top(a) /\ l + 1 \in 0 .. Top(a)
  BY <1>0
<1>4. CASE IsEmptyBlock(block)
  <2>1. r[1] = Zero /\ r[2] = a
    BY <1>4 DEF RelNode
  <2>2. block[c] = Zero
    BY <1>0, <1>4 DEF IsEmptyBlock
  <2> HIDE DEF r
  <2> QED BY <1>2, <1>3, <2>1, <2>2 DEF r, c, s, t
<1>5. CASE ~ IsEmptyBlock(block) /\ IsDiagonal(block)
  <2> DEFINE k == block[<<0, 0>>]
  <2>1. r[1] = k /\ r[2] = a
    BY <1>5 DEF RelNode
  <2>2. block[c] = IF s = t THEN k ELSE Zero
    BY <1>0, <1>1, <1>5 DEF IsDiagonal
  <2>3. k \in Live(a) /\ Level(a, k) # l
    BY <1>0, LevelFacts DEF Fits
  <2> HIDE DEF k, r
  <2>4. k \in Leading(a, x, y)[l + 1] <=> s = t /\ k \in Leading(a, x, y)[l]
    BY <1>0, <2>3, OneLevelMore DEF s, t
  <2>5. k \in Leading(a, x, y)[l + 1] <=> block[c] \in Leading(a, x, y)[l]
    BY <1>2, <1>3, <2>2, <2>4
  <2> QED BY <2>1, <2>5 DEF r, c, s, t
<1>6. CASE ~ IsEmptyBlock(block) /\ ~ IsDiagonal(block)
  <2>1. r = HashCons(a, n) /\ ~ Reducible("rel", block)
    BY <1>6 DEF RelNode, Reducible
  <2>2. /\ ForestOK(r[2]) /\ Preserves(a, r[2]) /\ r[1] \in Inner(r[2]) /\ At(r[2], r[1]) = n
        /\ r[2].domains = a.domains
    BY <2>1, HashConsOK
  <2>3. n.kind = "rel" /\ n.level = l /\ n.edges = block
    OBVIOUS
  <2> HIDE DEF r, n
  <2>4. /\ r[1] \in Live(r[2]) /\ Level(r[2], r[1]) = l /\ Follow(r[2], r[1], s, t) = block[c]
    BY <2>2, <2>3 DEF Inner, Level, Kind, Edges, Follow, c
  <2>5. /\ Redeclares(a, r[2]) /\ Top(r[2]) = Top(a) /\ block[c] \in Live(a)
        /\ Live(a) \subseteq Live(r[2])
        /\ \A i \in Live(a) : At(r[2], i) = At(a, i)
    BY <1>0, <2>2 DEF Redeclares, Levels, Top, Fits, Preserves
  <2>6. r[1] \in Leading(r[2], x, y)[l + 1] <=> Follow(r[2], r[1], s, t) \in Leading(r[2], x, y)[l]
    BY <1>0, <2>2, <2>4, <2>5, OneLevelMore DEF s, t
  <2>7. block[c] \in Leading(r[2], x, y)[l] <=> block[c] \in Leading(a, x, y)[l]
    BY <1>3, <2>2, <2>5, LeadingKept
  <2> QED BY <2>4, <2>6, <2>7 DEF r, c, s, t
<1> QED BY <1>4, <1>5, <1>6

----------------------------------------------------------------------------
(* The operations, read one vector or one pair of vectors at a time.       *)

Leads(a, i, n, x, y) == i \in Leading(a, x, y)[n]

(* What an operation means of the slots args over the n lowest levels; an  *)
(* operation that gives a set is asked about x = y.                        *)
Holds(a, op, args, n, x, y) ==
  CASE op \in {"and_set", "and_rel"} -> Leads(a, args[1], n, x, y) /\ Leads(a, args[2], n, x, y)
    [] op \in {"or_set", "or_rel"} -> Leads(a, args[1], n, x, y) \/ Leads(a, args[2], n, x, y)
    [] op \in {"not_set", "not_rel"} -> ~ Leads(a, args[1], n, x, y)
    [] op = "transpose" -> Leads(a, args[1], n, y, x)
    [] op = "cross" -> Leads(a, args[1], n, x, x) /\ Leads(a, args[2], n, y, y)
    [] op = "boundary" ->
         /\ Leads(a, args[3], n, x, y)
         /\ Leads(a, args[1], n, x, x) /\ Leads(a, args[2], n, y, y)
    [] op = "post_image" ->
         \E w \in Omega(a.domains) : Leads(a, args[1], n, w, w) /\ Leads(a, args[2], n, w, x)
    [] op = "pre_image" ->
         \E w \in Omega(a.domains) : Leads(a, args[1], n, w, w) /\ Leads(a, args[2], n, x, w)

Posed(op, x, y) == Result(op) = "set" => x = y

Right(a, op, args, n, r) ==
  /\ Fits(a, r, Result(op), n)
  /\ \A x, y \in Omega(a.domains) :
       Posed(op, x, y) => (Leads(a, r, n, x, y) <=> Holds(a, op, args, n, x, y))

(* A call that an operation may be asked to make.                          *)
Proper(a, op, args, l) ==
  /\ op \in Algebra
  /\ IF op \in SetOp THEN l = NoId ELSE l \in -1 .. Top(a) - 1
  /\ args \in [DOMAIN Takes(op) -> Live(a)]
  /\ Fitting(a, op, args, Depth(a, op, l))

(* r is right for the call at every number of levels it is about: an       *)
(* operation on sets is about all of them, from its operands upwards.      *)
Depths(a, op, l) == IF op \in SetOp THEN 0 .. Top(a) ELSE {l + 1}

Sound(a, op, args, l, r) ==
  /\ Proper(a, op, args, l)
  /\ \A n \in Depths(a, op, l) : Fitting(a, op, args, n) => Right(a, op, args, n, r)

(* The operations one by one.                                              *)
LEMMA HoldsFor ==
  ASSUME NEW a, NEW args, NEW n, NEW x, NEW y
  PROVE  /\ \A op \in {"and_set", "and_rel"} :
              Holds(a, op, args, n, x, y) <=>
                Leads(a, args[1], n, x, y) /\ Leads(a, args[2], n, x, y)
         /\ \A op \in {"or_set", "or_rel"} :
              Holds(a, op, args, n, x, y) <=>
                Leads(a, args[1], n, x, y) \/ Leads(a, args[2], n, x, y)
         /\ \A op \in {"not_set", "not_rel"} :
              Holds(a, op, args, n, x, y) <=> ~ Leads(a, args[1], n, x, y)
         /\ Holds(a, "transpose", args, n, x, y) <=> Leads(a, args[1], n, y, x)
         /\ Holds(a, "cross", args, n, x, y) <=>
              Leads(a, args[1], n, x, x) /\ Leads(a, args[2], n, y, y)
         /\ Holds(a, "boundary", args, n, x, y) <=>
              /\ Leads(a, args[3], n, x, y)
              /\ Leads(a, args[1], n, x, x) /\ Leads(a, args[2], n, y, y)
         /\ Holds(a, "post_image", args, n, x, y) <=>
              \E w \in Omega(a.domains) : Leads(a, args[1], n, w, w) /\ Leads(a, args[2], n, w, x)
         /\ Holds(a, "pre_image", args, n, x, y) <=>
              \E w \in Omega(a.domains) : Leads(a, args[1], n, w, w) /\ Leads(a, args[2], n, x, w)
<1>1. \A op \in {"and_set", "and_rel"} :
        Holds(a, op, args, n, x, y) <=> Leads(a, args[1], n, x, y) /\ Leads(a, args[2], n, x, y)
  BY DEF Holds
<1>2. \A op \in {"or_set", "or_rel"} :
        Holds(a, op, args, n, x, y) <=> Leads(a, args[1], n, x, y) \/ Leads(a, args[2], n, x, y)
  BY DEF Holds
<1>3. \A op \in {"not_set", "not_rel"} :
        Holds(a, op, args, n, x, y) <=> ~ Leads(a, args[1], n, x, y)
  BY DEF Holds
<1>4. /\ Holds(a, "transpose", args, n, x, y) <=> Leads(a, args[1], n, y, x)
      /\ Holds(a, "cross", args, n, x, y) <=>
           Leads(a, args[1], n, x, x) /\ Leads(a, args[2], n, y, y)
      /\ Holds(a, "boundary", args, n, x, y) <=>
           /\ Leads(a, args[3], n, x, y)
           /\ Leads(a, args[1], n, x, x) /\ Leads(a, args[2], n, y, y)
  BY DEF Holds
<1>5. /\ Holds(a, "post_image", args, n, x, y) <=>
           \E w \in Omega(a.domains) : Leads(a, args[1], n, w, w) /\ Leads(a, args[2], n, w, x)
      /\ Holds(a, "pre_image", args, n, x, y) <=>
           \E w \in Omega(a.domains) : Leads(a, args[1], n, w, w) /\ Leads(a, args[2], n, x, w)
  BY DEF Holds
<1> QED BY <1>1, <1>2, <1>3, <1>4, <1>5

(* What the operations take and give.                                      *)
LEMMA Signatures ==
  /\ Takes("and_set") = <<"set", "set">> /\ Result("and_set") = "set"
  /\ Takes("or_set") = <<"set", "set">> /\ Result("or_set") = "set"
  /\ Takes("not_set") = <<"set">> /\ Result("not_set") = "set"
  /\ Takes("and_rel") = <<"rel", "rel">> /\ Result("and_rel") = "rel"
  /\ Takes("or_rel") = <<"rel", "rel">> /\ Result("or_rel") = "rel"
  /\ Takes("not_rel") = <<"rel">> /\ Result("not_rel") = "rel"
  /\ Takes("cross") = <<"set", "set">> /\ Result("cross") = "rel"
  /\ Takes("transpose") = <<"rel">> /\ Result("transpose") = "rel"
  /\ Takes("boundary") = <<"set", "set", "rel">> /\ Result("boundary") = "rel"
  /\ Takes("post_image") = <<"set", "rel">> /\ Result("post_image") = "set"
  /\ Takes("pre_image") = <<"set", "rel">> /\ Result("pre_image") = "set"
  BY DEF Takes, Result, SetOperations, RelOperations

LEMMA Arities ==
  /\ \A op \in {"not_set", "not_rel", "transpose"} : DOMAIN Takes(op) = {1}
  /\ \A op \in {"and_set", "or_set", "and_rel", "or_rel", "cross", "post_image", "pre_image"} :
       DOMAIN Takes(op) = {1, 2}
  /\ DOMAIN Takes("boundary") = {1, 2, 3}
<1>1. DOMAIN <<"set">> = {1} /\ DOMAIN <<"rel">> = {1}
  OBVIOUS
<1>2. /\ DOMAIN <<"set", "set">> = {1, 2} /\ DOMAIN <<"rel", "rel">> = {1, 2}
      /\ DOMAIN <<"set", "rel">> = {1, 2}
  OBVIOUS
<1>3. DOMAIN <<"set", "set", "rel">> = {1, 2, 3}
  OBVIOUS
<1> QED BY <1>1, <1>2, <1>3, Signatures, Zenon

(* One is any state unchanged, Zero nothing; over no level there is no     *)
(* other slot.                                                             *)
LEMMA TerminalsLead ==
  ASSUME NEW a, ForestOK(a), NEW n \in 0 .. Top(a), NEW x, NEW y
  PROVE  /\ ~ Leads(a, Zero, n, x, y)
         /\ Leads(a, One, n, x, x)
         /\ \A i : Leads(a, i, 0, x, y) <=> i = One
         /\ \A i, k : Fits(a, i, k, 0) => i \in Terminals
<1>1. ~ Leads(a, Zero, n, x, y)
  BY LeadingShape DEF Leads
<1>2. \A i : Leads(a, i, 0, x, y) <=> i = One
  BY LeadingUnfold DEF Leads
<1>3. Leads(a, One, n, x, x)
  <2> DEFINE Good == {k \in 0 .. n : Leads(a, One, k, x, x)}
  <2>0. n \in Nat /\ Top(a) \in Nat
    BY LeadingUnfold
  <2>1. 0 \in Good
    BY <2>0, LeadingUnfold DEF Leads
  <2>2. ASSUME NEW k \in 0 .. n - 1, k \in Good PROVE k + 1 \in Good
    <3>1. k \in 0 .. Top(a) - 1 /\ k + 1 \in 0 .. n
      BY <2>0
    <3>2. One \in Live(a) /\ Level(a, One) # k
      BY <3>1 DEF ForestOK, ArenaOK, TerminalsInPlace, Level, Terminal, Terminals
    <3>3. One \in Leading(a, x, x)[k + 1] <=> One \in Leading(a, x, x)[k]
      BY <3>1, <3>2, OneLevelMore
    <3> QED BY <2>2, <3>1, <3>3 DEF Leads
  <2>3. 0 .. n \subseteq Good
    <3> HIDE DEF Good
    <3> QED BY <2>0, <2>1, <2>2, CountingUp
  <2> QED BY <2>0, <2>3
<1>4. \A i, k : Fits(a, i, k, 0) => i \in Terminals
  BY DEF Fits, Inner, ForestOK, ArenaOK, WellFormed, Levels
<1> QED BY <1>1, <1>2, <1>3, <1>4

(* Above its level a slot denotes the same set.                            *)
LEMMA SetSkips ==
  ASSUME NEW a, ForestOK(a), NEW n \in 0 .. Top(a), NEW m \in 0 .. Top(a), n <= m,
         NEW i \in Live(a), Level(a, i) < n, NEW x
  PROVE  Leads(a, i, m, x, x) <=> Leads(a, i, n, x, x)
<1> DEFINE Good == {k \in 0 .. m - n : Leads(a, i, n + k, x, x) <=> Leads(a, i, n, x, x)}
<1>0. n \in Nat /\ m \in Nat /\ Top(a) \in Nat /\ m - n \in Nat /\ n + 0 = n /\ Level(a, i) \in Int
  BY LeadingUnfold, LevelFacts
<1>1. 0 \in Good
  BY <1>0
<1>2. ASSUME NEW k \in 0 .. (m - n) - 1, k \in Good PROVE k + 1 \in Good
  <2>1. n + k \in 0 .. Top(a) - 1 /\ k + 1 \in 0 .. m - n /\ n + (k + 1) = (n + k) + 1
    BY <1>0
  <2>2. Level(a, i) # n + k
    BY <1>0
  <2>3. i \in Leading(a, x, x)[(n + k) + 1] <=> i \in Leading(a, x, x)[n + k]
    BY <2>1, <2>2, OneLevelMore
  <2> QED BY <1>2, <2>1, <2>3 DEF Leads
<1>3. 0 .. m - n \subseteq Good
  <2> HIDE DEF Good
  <2> QED BY <1>0, <1>1, <1>2, CountingUp
<1>4. m - n \in Good /\ n + (m - n) = m
  BY <1>0, <1>3
<1> QED BY <1>4

(* A child, a cell: what a node denotes one level further down.            *)
LEMMA SetChildReads ==
  ASSUME NEW a, ForestOK(a), NEW l \in Levels(a), NEW i, Fits(a, i, "set", l + 1),
         NEW x \in Omega(a.domains)
  PROVE  Leads(a, i, l + 1, x, x) <=> Leads(a, SetChild(a, i, l, x[l + 1]), l, x, x)
<1>1. l \in 0 .. Top(a) - 1 /\ i \in Live(a)
  BY DEF Levels, Top, Fits
<1>2. CASE Level(a, i) = l
  <2>1. Kind(a, i) = "set"
    <3>1. i \notin Terminals
      BY <1>1, <1>2 DEF ForestOK, ArenaOK, TerminalsInPlace, Level, Terminal, Terminals
    <3> QED BY <1>1, <3>1 DEF Fits, Inner, ForestOK, ArenaOK, WellFormed
  <2>2. SetChild(a, i, l, x[l + 1]) = Follow(a, i, x[l + 1], x[l + 1])
    BY <1>2, <2>1 DEF SetChild, IsAt, Follow
  <2> QED BY <1>1, <1>2, <2>2, OneLevelMore DEF Leads
<1>3. CASE Level(a, i) # l
  <2>1. SetChild(a, i, l, x[l + 1]) = i
    BY <1>3 DEF SetChild, IsAt
  <2> QED BY <1>1, <1>3, <2>1, OneLevelMore DEF Leads
<1> QED BY <1>2, <1>3

LEMMA RelCellReads ==
  ASSUME NEW a, ForestOK(a), NEW l \in Levels(a), NEW i, Fits(a, i, "rel", l + 1),
         NEW x \in Omega(a.domains), NEW y \in Omega(a.domains)
  PROVE  Leads(a, i, l + 1, x, y)
           <=> Leads(a, RelCell(a, i, l, <<x[l + 1], y[l + 1]>>), l, x, y)
<1> DEFINE s == x[l + 1]
           t == y[l + 1]
           c == <<s, t>>
<1>1. l \in 0 .. Top(a) - 1 /\ i \in Live(a) /\ l \in 0 .. Top(a)
  BY DEF Levels, Top, Fits
<1>a. c[1] = s /\ c[2] = t
  OBVIOUS
<1>2. CASE Level(a, i) = l
  <2>1. Kind(a, i) = "rel"
    <3>1. i \notin Terminals
      BY <1>1, <1>2 DEF ForestOK, ArenaOK, TerminalsInPlace, Level, Terminal, Terminals
    <3> QED BY <1>1, <3>1 DEF Fits, Inner, ForestOK, ArenaOK, WellFormed
  <2>2. RelCell(a, i, l, c) = Follow(a, i, s, t)
    BY <1>2, <2>1 DEF RelCell, IsAt, Follow
  <2> QED BY <1>1, <1>2, <2>2, OneLevelMore DEF Leads
<1>3. CASE Level(a, i) # l
  <2>1. RelCell(a, i, l, c) = IF s = t THEN i ELSE Zero
    BY <1>3, <1>a DEF RelCell, IsAt
  <2>2. Leads(a, i, l + 1, x, y) <=> s = t /\ Leads(a, i, l, x, y)
    BY <1>1, <1>3, OneLevelMore DEF Leads
  <2>3. ~ Leads(a, Zero, l, x, y)
    BY <1>1, TerminalsLead
  <2> HIDE DEF c, s, t
  <2> QED BY <2>1, <2>2, <2>3 DEF c, s, t
<1> QED BY <1>2, <1>3

(* From one vector or pair at a time to what is asked of a result.         *)
LEMMA FamilyReads ==
  ASSUME NEW a, ForestOK(a), NEW n \in 0 .. Top(a), NEW i
  PROVE  /\ \A x : x \in FamilyIn(AllReadings(a), "set", n, i)
                     <=> x \in Omega(a.domains) /\ Leads(a, i, n, x, x)
         /\ \A p : p \in FamilyIn(AllReadings(a), "rel", n, i)
                     <=> p \in Pairs(a.domains) /\ Leads(a, i, n, p[1], p[2])
<1> DEFINE D(sort) == DenotedIn(Readings(a, sort, n), i)
<1>1. /\ FamilyIn(AllReadings(a), "set", n, i) = {p[1] : p \in D("set")}
      /\ FamilyIn(AllReadings(a), "rel", n, i) = D("rel")
  <2>1. \A sort \in {"set", "rel"} : AllReadings(a)[sort][n] = Readings(a, sort, n)
    BY DEF AllReadings, Top
  <2>2. /\ FamilyIn(AllReadings(a), "set", n, i)
             = {p[1] : p \in DenotedIn(AllReadings(a)["set"][n], i)}
        /\ FamilyIn(AllReadings(a), "rel", n, i) = DenotedIn(AllReadings(a)["rel"][n], i)
    BY DEF FamilyIn
  <2> QED BY <2>1, <2>2
<1>2. \A sort : \A p : p \in D(sort) <=> p \in Asked(sort, a.domains) /\ Leads(a, i, n, p[1], p[2])
  BY DenotedReads DEF Leads
<1> HIDE DEF D
<1>3. Asked("rel", a.domains) = Pairs(a.domains)
  BY DEF Asked
<1>4. Asked("set", a.domains) = {<<x, x>> : x \in Omega(a.domains)}
  BY DEF Asked, Identity
<1>5. ASSUME NEW x, x \in Omega(a.domains), Leads(a, i, n, x, x)
      PROVE  x \in {p[1] : p \in D("set")}
  <2> DEFINE p == <<x, x>>
  <2>1. p[1] = x /\ p[2] = x /\ p \in Asked("set", a.domains)
    BY <1>4, <1>5
  <2> HIDE DEF p
  <2> QED BY <1>2, <1>5, <2>1
<1>6. ASSUME NEW x, x \in {p[1] : p \in D("set")}
      PROVE  x \in Omega(a.domains) /\ Leads(a, i, n, x, x)
  <2>1. PICK p \in D("set") : x = p[1]
    BY <1>6
  <2>2. p \in Asked("set", a.domains) /\ Leads(a, i, n, p[1], p[2])
    BY <1>2, <2>1
  <2>3. PICK v \in Omega(a.domains) : p = <<v, v>>
    BY <1>4, <2>2
  <2> QED BY <2>1, <2>2, <2>3
<1> QED BY <1>1, <1>2, <1>3, <1>5, <1>6

(* The reference definitions, one by one.                                  *)
LEMMA MeaningFor ==
  ASSUME NEW d, NEW F
  PROVE  /\ \A op \in {"and_set", "and_rel"} : Meaning(op, d, F) = F[1] \cap F[2]
         /\ \A op \in {"or_set", "or_rel"} : Meaning(op, d, F) = F[1] \cup F[2]
         /\ Meaning("not_set", d, F) = Omega(d) \ F[1]
         /\ Meaning("not_rel", d, F) = Pairs(d) \ F[1]
         /\ Meaning("transpose", d, F) = Converse(F[1])
         /\ Meaning("cross", d, F) = F[1] \X F[2]
         /\ Meaning("boundary", d, F) = {p \in F[3] : p[1] \in F[1] /\ p[2] \in F[2]}
         /\ Meaning("post_image", d, F) = Forward(F[1], F[2])
         /\ Meaning("pre_image", d, F) = Backward(F[1], F[2])
  BY DEF Meaning

(* A right result answers its operation.                                   *)
LEMMA RightAnswers ==
  ASSUME NEW a, ForestOK(a), NEW op \in Algebra, NEW args \in [DOMAIN Takes(op) -> Live(a)],
         NEW n \in 0 .. Top(a), NEW r, Right(a, op, args, n, r)
  PROVE  Answers(AllReadings(a), a.domains, n, op, args, r)
<1> DEFINE d == a.domains
           Fam(sort, i) == FamilyIn(AllReadings(a), sort, n, i)
           F == [k \in DOMAIN args |-> Fam(Takes(op)[k], args[k])]
<1>1. \A i, x : x \in Fam("set", i) <=> x \in Omega(d) /\ Leads(a, i, n, x, x)
  BY FamilyReads
<1>2. \A i, p : p \in Fam("rel", i) <=> p \in Pairs(d) /\ Leads(a, i, n, p[1], p[2])
  BY FamilyReads
<1>3. \A k \in DOMAIN Takes(op) : F[k] = Fam(Takes(op)[k], args[k])
  OBVIOUS
<1>4. SUFFICES Fam(Result(op), r) = Meaning(op, d, F)
  BY DEF Answers
<1>5. \A x, y \in Omega(d) : Posed(op, x, y) => (Leads(a, r, n, x, y) <=> Holds(a, op, args, n, x, y))
  BY DEF Right
<1>6. Pairs(d) = Omega(d) \X Omega(d)
  BY DEF Pairs
<1> HIDE DEF d, Fam, F
<1>7. CASE op \in {"and_set", "or_set", "not_set"}
  <2>1. /\ Result(op) = "set" /\ F[1] = Fam("set", args[1])
        /\ op # "not_set" => F[2] = Fam("set", args[2])
    <3>1. CASE op = "not_set"
      BY <1>3, <3>1, Signatures, Arities
    <3>2. CASE op = "and_set"
      BY <1>3, <3>2, Signatures, Arities
    <3>3. CASE op = "or_set"
      BY <1>3, <3>3, Signatures, Arities
    <3> QED BY <1>7, <3>1, <3>2, <3>3
  <2>2. \A x \in Omega(d) : Leads(a, r, n, x, x) <=> Holds(a, op, args, n, x, x)
    BY <1>5 DEF Posed
  <2>3. CASE op = "and_set"
    <3>1. \A x : Holds(a, op, args, n, x, x) <=> Leads(a, args[1], n, x, x) /\ Leads(a, args[2], n, x, x)
      BY <2>3, HoldsFor
    <3>2. Meaning(op, d, F) = F[1] \cap F[2]
      BY <2>3, MeaningFor
    <3> QED BY <1>1, <2>1, <2>2, <2>3, <3>1, <3>2
  <2>4. CASE op = "or_set"
    <3>1. \A x : Holds(a, op, args, n, x, x) <=> Leads(a, args[1], n, x, x) \/ Leads(a, args[2], n, x, x)
      BY <2>4, HoldsFor
    <3>2. Meaning(op, d, F) = F[1] \cup F[2]
      BY <2>4, MeaningFor
    <3> QED BY <1>1, <2>1, <2>2, <2>4, <3>1, <3>2
  <2>5. CASE op = "not_set"
    <3>1. \A x : Holds(a, op, args, n, x, x) <=> ~ Leads(a, args[1], n, x, x)
      BY <2>5, HoldsFor
    <3>2. Meaning(op, d, F) = Omega(d) \ F[1]
      BY <2>5, MeaningFor
    <3> QED BY <1>1, <2>1, <2>2, <3>1, <3>2
  <2> QED BY <1>7, <2>3, <2>4, <2>5
<1>8. CASE op \in {"post_image", "pre_image"}
  <2>1. Result(op) = "set" /\ F[1] = Fam("set", args[1]) /\ F[2] = Fam("rel", args[2])
    <3>1. CASE op = "post_image"
      BY <1>3, <3>1, Signatures, Arities
    <3>2. CASE op = "pre_image"
      BY <1>3, <3>2, Signatures, Arities
    <3> QED BY <1>8, <3>1, <3>2
  <2>2. \A x \in Omega(d) : Leads(a, r, n, x, x) <=> Holds(a, op, args, n, x, x)
    BY <1>5, <2>1 DEF Posed
  <2>a. \A w, x : <<w, x>>[1] = w /\ <<w, x>>[2] = x
    OBVIOUS
  <2>b. \A w, x : <<w, x>> \in F[2] <=> w \in Omega(d) /\ x \in Omega(d) /\ Leads(a, args[2], n, w, x)
    BY <1>2, <1>6, <2>1
  <2>c. \A p \in F[2] : p = <<p[1], p[2]>>
    BY <1>2, <1>6, <2>1
  <2>d. \A w : w \in F[1] <=> w \in Omega(d) /\ Leads(a, args[1], n, w, w)
    BY <1>1, <2>1
  <2>3. CASE op = "post_image"
    <3>1. \A x : Holds(a, op, args, n, x, x) <=>
            \E w \in Omega(d) : Leads(a, args[1], n, w, w) /\ Leads(a, args[2], n, w, x)
      BY <2>3, HoldsFor DEF d
    <3>2. Meaning(op, d, F) = {p[2] : p \in {q \in F[2] : q[1] \in F[1]}}
      BY <2>3, MeaningFor DEF Forward
    <3>3. \A x : x \in Meaning(op, d, F) <=> \E w : <<w, x>> \in F[2] /\ w \in F[1]
      <4> SUFFICES ASSUME NEW x
                   PROVE  (\E p \in F[2] : p[1] \in F[1] /\ x = p[2])
                            <=> \E w : <<w, x>> \in F[2] /\ w \in F[1]
        BY <3>2
      <4> QED BY <2>a, <2>c, Zenon
    <3> QED BY <1>1, <2>1, <2>2, <2>b, <2>d, <3>1, <3>3
  <2>4. CASE op = "pre_image"
    <3>1. \A x : Holds(a, op, args, n, x, x) <=>
            \E w \in Omega(d) : Leads(a, args[1], n, w, w) /\ Leads(a, args[2], n, x, w)
      BY <2>4, HoldsFor DEF d
    <3>2. Meaning(op, d, F) = {p[1] : p \in {q \in F[2] : q[2] \in F[1]}}
      BY <2>4, MeaningFor DEF Backward
    <3>3. \A x : x \in Meaning(op, d, F) <=> \E w : <<x, w>> \in F[2] /\ w \in F[1]
      <4>1. \A x : x \in Meaning(op, d, F) <=> \E p \in F[2] : p[2] \in F[1] /\ x = p[1]
        BY <3>2
      <4>2. ASSUME NEW p \in F[2], p[2] \in F[1]
            PROVE  \E w : <<p[1], w>> \in F[2] /\ w \in F[1]
        BY <2>c, <4>2, Zenon
      <4>3. ASSUME NEW x, NEW w, <<x, w>> \in F[2], w \in F[1]
            PROVE  \E p \in F[2] : p[2] \in F[1] /\ x = p[1]
        BY <2>a, <4>3
      <4> QED BY <4>1, <4>2, <4>3
    <3> QED BY <1>1, <2>1, <2>2, <2>b, <2>d, <3>1, <3>3
  <2> QED BY <1>8, <2>3, <2>4
<1>9. ASSUME op \in {"and_rel", "or_rel", "not_rel", "transpose", "cross", "boundary"}
      PROVE  Fam(Result(op), r) = Meaning(op, d, F)
  <2>1. Result(op) = "rel"
    BY <1>9, Signatures
  <2>2. \A x, y \in Omega(d) : Leads(a, r, n, x, y) <=> Holds(a, op, args, n, x, y)
    BY <1>5, <2>1 DEF Posed
  <2>3. SUFFICES /\ \A p \in Meaning(op, d, F) : p \in Pairs(d)
                 /\ \A x, y \in Omega(d) :
                      <<x, y>> \in Meaning(op, d, F) <=> Holds(a, op, args, n, x, y)
    <3>1. \A p \in Pairs(d) : p = <<p[1], p[2]>> /\ p[1] \in Omega(d) /\ p[2] \in Omega(d)
      BY <1>6
    <3>2. \A p \in Pairs(d) : p \in Fam(Result(op), r) <=> p \in Meaning(op, d, F)
      BY <1>2, <2>1, <2>2, <3>1
    <3>3. \A p \in Fam(Result(op), r) : p \in Pairs(d)
      BY <1>2, <2>1
    <3> QED BY <3>2, <3>3, Zenon
  <2>a. \A x, y : <<x, y>>[1] = x /\ <<x, y>>[2] = y
    OBVIOUS
  <2>b. \A i : \A x, y \in Omega(d) : <<x, y>> \in Fam("rel", i) <=> Leads(a, i, n, x, y)
    BY <1>2, <1>6
  <2>4. CASE op = "and_rel"
    <3>1. F[1] = Fam("rel", args[1]) /\ F[2] = Fam("rel", args[2])
      BY <1>3, <2>4, Signatures, Arities
    <3>2. Meaning(op, d, F) = F[1] \cap F[2]
      BY <2>4, MeaningFor
    <3>3. \A x, y : Holds(a, op, args, n, x, y) <=> Leads(a, args[1], n, x, y) /\ Leads(a, args[2], n, x, y)
      BY <2>4, HoldsFor
    <3> QED BY <1>2, <2>b, <3>1, <3>2, <3>3
  <2>5. CASE op = "or_rel"
    <3>1. F[1] = Fam("rel", args[1]) /\ F[2] = Fam("rel", args[2])
      BY <1>3, <2>5, Signatures, Arities
    <3>2. Meaning(op, d, F) = F[1] \cup F[2]
      BY <2>5, MeaningFor
    <3>3. \A x, y : Holds(a, op, args, n, x, y) <=> Leads(a, args[1], n, x, y) \/ Leads(a, args[2], n, x, y)
      BY <2>5, HoldsFor
    <3> QED BY <1>2, <2>b, <3>1, <3>2, <3>3
  <2>6. CASE op = "not_rel"
    <3>1. F[1] = Fam("rel", args[1])
      BY <1>3, <2>6, Signatures, Arities
    <3>2. Meaning(op, d, F) = Pairs(d) \ F[1]
      BY <2>6, MeaningFor
    <3>3. \A x, y : Holds(a, op, args, n, x, y) <=> ~ Leads(a, args[1], n, x, y)
      BY <2>6, HoldsFor
    <3> QED BY <1>6, <2>b, <3>1, <3>2, <3>3
  <2>7. CASE op = "transpose"
    <3>1. F[1] = Fam("rel", args[1])
      BY <1>3, <2>7, Signatures, Arities
    <3>2. Meaning(op, d, F) = {<<p[2], p[1]>> : p \in F[1]}
      BY <2>7, MeaningFor DEF Converse
    <3>3. \A x, y : Holds(a, op, args, n, x, y) <=> Leads(a, args[1], n, y, x)
      BY <2>7, HoldsFor
    <3>4. \A p \in F[1] : p = <<p[1], p[2]>> /\ p[1] \in Omega(d) /\ p[2] \in Omega(d)
      BY <1>2, <1>6, <3>1
    <3>5. \A x, y : <<x, y>> \in Meaning(op, d, F) <=> <<y, x>> \in F[1]
      <4>1. ASSUME NEW x, NEW y, <<x, y>> \in Meaning(op, d, F) PROVE <<y, x>> \in F[1]
        <5>1. PICK p \in F[1] : <<x, y>> = <<p[2], p[1]>>
          BY <3>2, <4>1
        <5>2. x = p[2] /\ y = p[1]
          BY <5>1
        <5> QED BY <3>4, <5>2
      <4>2. ASSUME NEW x, NEW y, <<y, x>> \in F[1] PROVE <<x, y>> \in Meaning(op, d, F)
        <5> DEFINE p == <<y, x>>
        <5>1. p \in F[1] /\ p[1] = y /\ p[2] = x
          BY <4>2
        <5> HIDE DEF p
        <5> QED BY <3>2, <5>1
      <4> QED BY <4>1, <4>2
    <3>6. \A p \in Meaning(op, d, F) : p \in Pairs(d)
      BY <1>6, <3>2, <3>4
    <3> QED BY <2>b, <3>1, <3>3, <3>5, <3>6
  <2>8. CASE op = "cross"
    <3>1. F[1] = Fam("set", args[1]) /\ F[2] = Fam("set", args[2])
      BY <1>3, <2>8, Signatures, Arities
    <3>2. Meaning(op, d, F) = F[1] \X F[2]
      BY <2>8, MeaningFor
    <3>3. \A x, y : Holds(a, op, args, n, x, y) <=> Leads(a, args[1], n, x, x) /\ Leads(a, args[2], n, y, y)
      BY <2>8, HoldsFor
    <3>4. F[1] \subseteq Omega(d) /\ F[2] \subseteq Omega(d)
      BY <1>1, <3>1
    <3> QED BY <1>1, <1>6, <3>1, <3>2, <3>3, <3>4
  <2>9. CASE op = "boundary"
    <3>1. /\ F[1] = Fam("set", args[1]) /\ F[2] = Fam("set", args[2])
          /\ F[3] = Fam("rel", args[3])
      BY <1>3, <2>9, Signatures, Arities
    <3>2. Meaning(op, d, F) = {p \in F[3] : p[1] \in F[1] /\ p[2] \in F[2]}
      BY <2>9, MeaningFor
    <3>3. \A x, y : Holds(a, op, args, n, x, y) <=>
            Leads(a, args[3], n, x, y) /\ Leads(a, args[1], n, x, x) /\ Leads(a, args[2], n, y, y)
      BY <2>9, HoldsFor
    <3> QED BY <1>1, <1>2, <2>a, <2>b, <3>1, <3>2, <3>3
  <2> QED BY <1>9, <2>4, <2>5, <2>6, <2>7, <2>8, <2>9
<1>10. Algebra = {"and_set", "or_set", "not_set", "post_image", "pre_image", "and_rel", "or_rel",
                  "not_rel", "transpose", "cross", "boundary"}
  BY DEF Algebra, SetOp, RelOp
<1> QED BY <1>7, <1>8, <1>9, <1>10

----------------------------------------------------------------------------
(* What was right stays right, as long as the slots it names stay in use.  *)

Continues(a, b) ==
  /\ ForestOK(a) /\ ForestOK(b) /\ Redeclares(a, b)
  /\ \A i \in Live(a) \cap Live(b) : At(b, i) = At(a, i)

Agree(a, x, v) == \A k \in 1 .. Top(a) : x[k] = v[k]

(* A declaration makes vectors longer.                                     *)
LEMMA VectorsMoved ==
  ASSUME NEW a, NEW b, Continues(a, b)
  PROVE  /\ Top(a) \in Nat /\ Top(b) \in Nat /\ Top(a) <= Top(b)
         /\ \A x \in Omega(b.domains) : \E v \in Omega(a.domains) : Agree(a, x, v)
         /\ \A v \in Omega(a.domains) : \E x \in Omega(b.domains) : Agree(a, x, v)
<1>1. Top(a) \in Nat /\ Top(b) \in Nat
  BY LeadingUnfold DEF Continues
<1>2. /\ \A n \in Levels(a) : n \in Levels(b) /\ b.domains[n + 1] = a.domains[n + 1]
      /\ Levels(a) = 0 .. Top(a) - 1 /\ Levels(b) = 0 .. Top(b) - 1
  BY DEF Continues, Redeclares, Levels, Top
<1>3. Top(a) <= Top(b)
  <2>1. CASE Top(a) = 0
    BY <1>1, <2>1
  <2>2. CASE Top(a) # 0
    <3>1. Top(a) - 1 \in 0 .. Top(a) - 1
      BY <1>1, <2>2
    <3> QED BY <1>1, <1>2, <3>1
  <2> QED BY <2>1, <2>2
<1>4. \A k \in 1 .. Top(a) : b.domains[k] = a.domains[k] /\ k \in 1 .. Top(b)
  <2> SUFFICES ASSUME NEW k \in 1 .. Top(a) PROVE b.domains[k] = a.domains[k] /\ k \in 1 .. Top(b)
    OBVIOUS
  <2>1. k - 1 \in 0 .. Top(a) - 1 /\ (k - 1) + 1 = k
    BY <1>1
  <2> QED BY <1>1, <1>2, <1>3, <2>1
<1>5. \A k \in 1 .. Top(b) : b.domains[k] \in Nat \ {0}
  BY <1>1 DEF Continues, ForestOK, ForestType, Top
<1>6. ASSUME NEW x \in Omega(b.domains)
      PROVE  \E v \in Omega(a.domains) : Agree(a, x, v)
  <2>1. x \in [1 .. Top(b) -> Nat] /\ \A k \in 1 .. Top(b) : x[k] < b.domains[k]
    BY <1>6, OmegaFacts DEF Continues
  <2> DEFINE v == [k \in 1 .. Top(a) |-> x[k]]
  <2>2. v \in [1 .. Top(a) -> Nat] /\ \A k \in 1 .. Top(a) : v[k] < a.domains[k]
    BY <1>4, <2>1
  <2>3. Agree(a, x, v)
    BY DEF Agree
  <2> HIDE DEF v
  <2>4. v \in Omega(a.domains)
    BY <2>2, OmegaFacts DEF Continues
  <2> QED BY <2>3, <2>4
<1>7. ASSUME NEW v \in Omega(a.domains)
      PROVE  \E x \in Omega(b.domains) : Agree(a, x, v)
  <2>1. v \in [1 .. Top(a) -> Nat] /\ \A k \in 1 .. Top(a) : v[k] < a.domains[k]
    BY <1>7, OmegaFacts DEF Continues
  <2> DEFINE x == [k \in 1 .. Top(b) |-> IF k \in 1 .. Top(a) THEN v[k] ELSE 0]
  <2>2. x \in [1 .. Top(b) -> Nat]
    BY <2>1
  <2>3. \A k \in 1 .. Top(b) : x[k] < b.domains[k]
    BY <1>4, <1>5, <2>1
  <2>4. Agree(a, x, v)
    BY <1>4 DEF Agree
  <2> HIDE DEF x
  <2>5. x \in Omega(b.domains)
    BY <2>2, <2>3, OmegaFacts DEF Continues
  <2> QED BY <2>4, <2>5
<1> QED BY <1>1, <1>3, <1>6, <1>7

LEMMA LeadsMoved ==
  ASSUME NEW a, NEW b, Continues(a, b), NEW n \in 0 .. Top(a),
         NEW v \in Omega(a.domains), NEW w \in Omega(a.domains), NEW x, NEW y,
         Agree(a, x, v), Agree(a, y, w), NEW i \in Live(a), i \in Live(b)
  PROVE  Leads(b, i, n, x, y) <=> Leads(a, i, n, v, w)
<1>1. n \in 0 .. Top(b) /\ n \in Nat /\ Top(a) \in Nat
  BY VectorsMoved
<1>2. \A k \in 1 .. n : x[k] = v[k] /\ y[k] = w[k]
  BY <1>1 DEF Agree
<1>3. Leading(b, x, y)[n] = Leading(b, v, w)[n]
  BY <1>1, <1>2, LeadingAgrees DEF Continues
<1>4. i \in Leading(b, v, w)[n] <=> i \in Leading(a, v, w)[n]
  BY LeadingKept DEF Continues
<1> QED BY <1>3, <1>4 DEF Leads

LEMMA FitsMoved ==
  ASSUME NEW a, NEW b, Continues(a, b), NEW i \in Live(a), i \in Live(b), NEW k, NEW n
  PROVE  Fits(b, i, k, n) <=> Fits(a, i, k, n)
<1>1. At(b, i) = At(a, i)
  BY DEF Continues
<1> QED BY <1>1 DEF Fits, Kind, Level

LEMMA HoldsMoved ==
  ASSUME NEW a, NEW b, Continues(a, b), NEW op \in Algebra,
         NEW args \in [DOMAIN Takes(op) -> Live(a)], args \in [DOMAIN Takes(op) -> Live(b)],
         NEW n \in 0 .. Top(a),
         NEW v \in Omega(a.domains), NEW w \in Omega(a.domains),
         NEW x \in Omega(b.domains), NEW y \in Omega(b.domains),
         Agree(a, x, v), Agree(a, y, w)
  PROVE  Holds(b, op, args, n, x, y) <=> Holds(a, op, args, n, v, w)
<1>1. \A k \in DOMAIN Takes(op) :
        /\ Leads(b, args[k], n, x, y) <=> Leads(a, args[k], n, v, w)
        /\ Leads(b, args[k], n, y, x) <=> Leads(a, args[k], n, w, v)
        /\ Leads(b, args[k], n, x, x) <=> Leads(a, args[k], n, v, v)
        /\ Leads(b, args[k], n, y, y) <=> Leads(a, args[k], n, w, w)
  <2> SUFFICES ASSUME NEW k \in DOMAIN Takes(op)
               PROVE  /\ Leads(b, args[k], n, x, y) <=> Leads(a, args[k], n, v, w)
                      /\ Leads(b, args[k], n, y, x) <=> Leads(a, args[k], n, w, v)
                      /\ Leads(b, args[k], n, x, x) <=> Leads(a, args[k], n, v, v)
                      /\ Leads(b, args[k], n, y, y) <=> Leads(a, args[k], n, w, w)
    OBVIOUS
  <2>1. args[k] \in Live(a) /\ args[k] \in Live(b)
    OBVIOUS
  <2> QED BY <2>1, LeadsMoved
<1>2. \A k \in DOMAIN Takes(op) : \A s \in Omega(a.domains) : \A t : Agree(a, t, s) =>
        /\ Leads(b, args[k], n, t, t) <=> Leads(a, args[k], n, s, s)
        /\ Leads(b, args[k], n, t, x) <=> Leads(a, args[k], n, s, v)
        /\ Leads(b, args[k], n, x, t) <=> Leads(a, args[k], n, v, s)
  <2> SUFFICES ASSUME NEW k \in DOMAIN Takes(op), NEW s \in Omega(a.domains), NEW t, Agree(a, t, s)
               PROVE  /\ Leads(b, args[k], n, t, t) <=> Leads(a, args[k], n, s, s)
                      /\ Leads(b, args[k], n, t, x) <=> Leads(a, args[k], n, s, v)
                      /\ Leads(b, args[k], n, x, t) <=> Leads(a, args[k], n, v, s)
    OBVIOUS
  <2>1. args[k] \in Live(a) /\ args[k] \in Live(b)
    OBVIOUS
  <2> QED BY <2>1, LeadsMoved
<1>3. /\ \A t \in Omega(b.domains) : \E s \in Omega(a.domains) : Agree(a, t, s)
      /\ \A s \in Omega(a.domains) : \E t \in Omega(b.domains) : Agree(a, t, s)
  BY VectorsMoved
<1>4. CASE op \in {"and_set", "and_rel", "or_set", "or_rel"}
  <2>1. 1 \in DOMAIN Takes(op) /\ 2 \in DOMAIN Takes(op)
    BY <1>4, Arities
  <2> QED BY <1>1, <1>4, <2>1, HoldsFor
<1>5. CASE op \in {"not_set", "not_rel", "transpose"}
  <2>1. 1 \in DOMAIN Takes(op)
    BY <1>5, Arities
  <2> QED BY <1>1, <1>5, <2>1, HoldsFor
<1>6. CASE op = "cross"
  <2>1. 1 \in DOMAIN Takes(op) /\ 2 \in DOMAIN Takes(op)
    BY <1>6, Arities
  <2> QED BY <1>1, <1>6, <2>1, HoldsFor
<1>7. CASE op = "boundary"
  <2>1. 1 \in DOMAIN Takes(op) /\ 2 \in DOMAIN Takes(op) /\ 3 \in DOMAIN Takes(op)
    BY <1>7, Arities
  <2> QED BY <1>1, <1>7, <2>1, HoldsFor
<1>8. CASE op = "post_image"
  <2>1. 1 \in DOMAIN Takes(op) /\ 2 \in DOMAIN Takes(op)
    BY <1>8, Arities
  <2>2. /\ Holds(b, op, args, n, x, y) <=> \E t \in Omega(b.domains) :
             Leads(b, args[1], n, t, t) /\ Leads(b, args[2], n, t, x)
        /\ Holds(a, op, args, n, v, w) <=> \E s \in Omega(a.domains) :
             Leads(a, args[1], n, s, s) /\ Leads(a, args[2], n, s, v)
    BY <1>8, HoldsFor
  <2> QED BY <1>2, <1>3, <2>1, <2>2
<1>9. CASE op = "pre_image"
  <2>1. 1 \in DOMAIN Takes(op) /\ 2 \in DOMAIN Takes(op)
    BY <1>9, Arities
  <2>2. /\ Holds(b, op, args, n, x, y) <=> \E t \in Omega(b.domains) :
             Leads(b, args[1], n, t, t) /\ Leads(b, args[2], n, x, t)
        /\ Holds(a, op, args, n, v, w) <=> \E s \in Omega(a.domains) :
             Leads(a, args[1], n, s, s) /\ Leads(a, args[2], n, v, s)
    BY <1>9, HoldsFor
  <2> QED BY <1>2, <1>3, <2>1, <2>2
<1> QED BY <1>4, <1>5, <1>6, <1>7, <1>8, <1>9 DEF Algebra, SetOp, RelOp

(* An operation on sets that is right over enough levels is right over     *)
(* more.                                                                   *)
LEMMA RightAbove ==
  ASSUME NEW a, ForestOK(a), NEW op \in SetOp, NEW args \in [DOMAIN Takes(op) -> Live(a)],
         NEW n \in 0 .. Top(a), NEW m \in 0 .. Top(a), n <= m,
         Fitting(a, op, args, n), NEW r, Right(a, op, args, n, r)
  PROVE  Right(a, op, args, m, r)
<1>1. r \in Live(a) /\ Level(a, r) < n /\ \A k \in DOMAIN args : args[k] \in Live(a) /\ Level(a, args[k]) < n
  BY DEF Right, Fitting, Fits
<1>2. \A x : Leads(a, r, m, x, x) <=> Leads(a, r, n, x, x)
  BY <1>1, SetSkips
<1>3. \A k \in DOMAIN args : \A x : Leads(a, args[k], m, x, x) <=> Leads(a, args[k], n, x, x)
  BY <1>1, SetSkips
<1>4. \A x : Holds(a, op, args, m, x, x) <=> Holds(a, op, args, n, x, x)
  <2>1. CASE op \in {"and_set", "or_set"}
    <3>1. 1 \in DOMAIN args /\ 2 \in DOMAIN args
      BY <2>1, Arities
    <3> QED BY <1>3, <2>1, <3>1, HoldsFor
  <2>2. CASE op = "not_set"
    <3>1. 1 \in DOMAIN args
      BY <2>2, Arities
    <3> QED BY <1>3, <2>2, <3>1, HoldsFor
  <2> QED BY <2>1, <2>2 DEF SetOp
<1>5. Fits(a, r, Result(op), m)
  <2>1. Level(a, r) \in Int /\ n \in Int /\ m \in Int /\ Top(a) \in Nat
    BY <1>1, LevelFacts, LeadingUnfold
  <2> QED BY <1>1, <2>1 DEF Right, Fits
<1>6. Result(op) = "set"
  BY Signatures DEF SetOp
<1>7. \A x, y \in Omega(a.domains) :
        Posed(op, x, y) => (Leads(a, r, m, x, y) <=> Holds(a, op, args, m, x, y))
  BY <1>2, <1>4, <1>6 DEF Right, Posed
<1> QED BY <1>5, <1>7 DEF Right

(* Results are kept, by declarations, by whatever is built beside them and *)
(* by the collections that spare them.                                     *)
LEMMA SoundKept ==
  ASSUME NEW a, NEW b, Continues(a, b), NEW op, NEW args, NEW l, NEW r, Sound(a, op, args, l, r),
         Among(args) \subseteq Live(b), r \in Live(b)
  PROVE  Sound(b, op, args, l, r)
<1>0. /\ ForestOK(a) /\ ForestOK(b)
      /\ Top(a) \in Nat /\ Top(b) \in Nat /\ Top(a) <= Top(b) /\ Top(a) \in 0 .. Top(b)
  BY VectorsMoved DEF Continues
<1>1. /\ op \in Algebra /\ args \in [DOMAIN Takes(op) -> Live(a)]
      /\ IF op \in SetOp THEN l = NoId ELSE l \in -1 .. Top(a) - 1
      /\ Fitting(a, op, args, Depth(a, op, l))
      /\ \A n \in Depths(a, op, l) : Fitting(a, op, args, n) => Right(a, op, args, n, r)
  BY DEF Sound, Proper
<1>2. args \in [DOMAIN Takes(op) -> Live(b)]
  <2>1. \A k \in DOMAIN args : args[k] \in Live(b)
    BY DEF Among
  <2> QED BY <1>1, <2>1
<1>3. \A n : Fitting(b, op, args, n) <=> Fitting(a, op, args, n)
  <2>1. \A k \in DOMAIN args : \A n : Fits(b, args[k], Takes(op)[k], n) <=> Fits(a, args[k], Takes(op)[k], n)
    BY <1>1, <1>2, FitsMoved
  <2> QED BY <2>1 DEF Fitting
<1>4. Depth(a, op, l) \in Depths(a, op, l) /\ Depth(a, op, l) \in 0 .. Top(a)
  BY <1>0, <1>1 DEF Depth, Depths, Top
<1>5. r \in Live(a)
  BY <1>1, <1>4 DEF Right, Fits
<1>6. ASSUME NEW n \in 0 .. Top(a), Right(a, op, args, n, r) PROVE Right(b, op, args, n, r)
  <2>1. Fits(b, r, Result(op), n)
    BY <1>5, <1>6, FitsMoved DEF Right
  <2>2. ASSUME NEW x \in Omega(b.domains), NEW y \in Omega(b.domains), Posed(op, x, y)
        PROVE  Leads(b, r, n, x, y) <=> Holds(b, op, args, n, x, y)
    <3>1. PICK v \in Omega(a.domains) : Agree(a, x, v)
      BY VectorsMoved
    <3>2. PICK w \in Omega(a.domains) : Agree(a, y, w) /\ (x = y => w = v)
      <4>1. CASE x = y
        BY <3>1, <4>1
      <4>2. CASE x # y
        BY <4>2, VectorsMoved
      <4> QED BY <4>1, <4>2
    <3>3. Posed(op, v, w)
      BY <2>2, <3>2 DEF Posed
    <3>4. Leads(a, r, n, v, w) <=> Holds(a, op, args, n, v, w)
      BY <1>6, <3>3 DEF Right
    <3>5. Leads(b, r, n, x, y) <=> Leads(a, r, n, v, w)
      BY <1>5, <3>1, <3>2, LeadsMoved
    <3>6. Holds(b, op, args, n, x, y) <=> Holds(a, op, args, n, v, w)
      BY <1>1, <1>2, <3>1, <3>2, HoldsMoved
    <3> QED BY <3>4, <3>5, <3>6
  <2> QED BY <2>1, <2>2 DEF Right
<1>7. Proper(b, op, args, l)
  <2>1. Depth(b, op, l) = Depth(a, op, l) \/ (Depth(a, op, l) = Top(a) /\ Depth(b, op, l) = Top(b))
    BY DEF Depth, Top
  <2>2. \A k \in DOMAIN args : Level(a, args[k]) \in Int
    BY <1>0, <1>1, LevelFacts
  <2>3. Fitting(a, op, args, Depth(b, op, l))
    BY <1>0, <1>1, <2>1, <2>2 DEF Fitting, Fits
  <2> QED BY <1>0, <1>1, <1>2, <1>3, <2>3 DEF Proper
<1>8. ASSUME NEW n \in Depths(b, op, l), Fitting(b, op, args, n) PROVE Right(b, op, args, n, r)
  <2>1. CASE n \in Depths(a, op, l)
    <3>1. n \in 0 .. Top(a)
      BY <1>0, <1>1, <2>1 DEF Depths
    <3> QED BY <1>1, <1>3, <1>6, <1>8, <2>1, <3>1
  <2>2. CASE n \notin Depths(a, op, l)
    <3>1. op \in SetOp /\ n \in 0 .. Top(b) /\ Top(a) <= n
      BY <1>0, <1>8, <2>2 DEF Depths
    <3>2. Depth(a, op, l) = Top(a)
      BY <3>1 DEF Depth, Top
    <3>3. Right(b, op, args, Top(a), r) /\ Fitting(b, op, args, Top(a))
      BY <1>1, <1>3, <1>4, <1>6, <3>2
    <3> QED BY <1>0, <1>2, <3>1, <3>3, RightAbove
  <2> QED BY <2>1, <2>2
<1> QED BY <1>7, <1>8 DEF Sound

----------------------------------------------------------------------------
(* The ways a call ends.                                                   *)

(* Operands in the shape that the operations take them.                    *)
LEMMA OperandsOf ==
  ASSUME NEW a, NEW op \in Algebra, NEW args \in [DOMAIN Takes(op) -> Live(a)],
         NEW n, Fitting(a, op, args, n)
  PROVE  /\ args[1] \in Live(a) /\ args[1] \in Among(args) /\ Fits(a, args[1], Takes(op)[1], n)
         /\ op \in {"not_set", "not_rel", "transpose"} => Among(args) = {args[1]}
         /\ op \notin {"not_set", "not_rel", "transpose"} =>
              /\ args[2] \in Live(a) /\ args[2] \in Among(args)
              /\ Fits(a, args[2], Takes(op)[2], n)
         /\ op \in Commutative => Among(args) = {args[1], args[2]} /\ Takes(op)[1] = Takes(op)[2]
         /\ op \in {"cross", "post_image", "pre_image"} => Among(args) = {args[1], args[2]}
         /\ op = "boundary" =>
              /\ Among(args) = {args[1], args[2], args[3]}
              /\ args[3] \in Live(a) /\ Fits(a, args[3], Takes(op)[3], n)
<1>0. \A k \in DOMAIN Takes(op) : args[k] \in Live(a) /\ args[k] \in Among(args) /\ Fits(a, args[k], Takes(op)[k], n)
  BY DEF Fitting, Among
<1>a. Among(args) = {args[k] : k \in DOMAIN Takes(op)}
  BY DEF Among
<1>1. CASE op \in {"not_set", "not_rel", "transpose"}
  <2>1. DOMAIN Takes(op) = {1}
    BY <1>1, Arities
  <2> QED BY <1>0, <1>a, <1>1, <2>1 DEF Commutative
<1>2. CASE op = "boundary"
  <2>1. DOMAIN Takes(op) = {1, 2, 3}
    BY <1>2, Arities
  <2> QED BY <1>0, <1>a, <1>2, <2>1 DEF Commutative
<1>3. CASE op \in {"and_set", "or_set", "and_rel", "or_rel", "cross", "post_image", "pre_image"}
  <2>1. DOMAIN Takes(op) = {1, 2}
    BY <1>3, Arities
  <2>2. op \in Commutative => Takes(op)[1] = Takes(op)[2]
    BY Signatures DEF Commutative
  <2> QED BY <1>0, <1>a, <1>3, <2>1, <2>2
<1> QED BY <1>1, <1>2, <1>3 DEF Algebra, SetOp, RelOp

LEMMA SettledSetRight ==
  ASSUME NEW a, ForestOK(a), NEW op \in SetOp, NEW args \in [DOMAIN Takes(op) -> Live(a)],
         NEW n \in 0 .. Top(a), Fitting(a, op, args, n), SettledSet(op, args) # NoId
  PROVE  Right(a, op, args, n, SettledSet(op, args))
<1> DEFINE r == SettledSet(op, args)
<1>0. /\ Result(op) = "set" /\ Takes(op)[1] = "set" /\ op \in Algebra
      /\ \A t \in Terminals : Fits(a, t, "set", n)
      /\ Zero # One /\ Terminals = {Zero, One}
  BY Signatures, LevelFacts DEF Algebra, SetOp, Zero, One, Terminals
<1>1. /\ Fits(a, args[1], "set", n)
      /\ op # "not_set" => Fits(a, args[2], "set", n) /\ Among(args) = {args[1], args[2]}
  BY <1>0, OperandsOf DEF Commutative, SetOp
<1>2. \A x : ~ Leads(a, Zero, n, x, x) /\ Leads(a, One, n, x, x)
  BY TerminalsLead
<1>3. SUFFICES Fits(a, r, "set", n) /\ \A x : Leads(a, r, n, x, x) <=> Holds(a, op, args, n, x, x)
  BY <1>0 DEF Right, Posed
<1>4. CASE op = "not_set"
  <2>1. args[1] \in Terminals /\ r = 1 - args[1]
    BY <1>4 DEF SettledSet
  <2>2. r = (IF args[1] = Zero THEN One ELSE Zero)
    BY <2>1 DEF Zero, One, Terminals
  <2>3. \A x : Holds(a, op, args, n, x, x) <=> ~ Leads(a, args[1], n, x, x)
    BY <1>4, HoldsFor
  <2> HIDE DEF r
  <2> QED BY <1>0, <1>2, <2>1, <2>2, <2>3
<1>5. CASE op = "and_set"
  <2>1. \A x : Holds(a, op, args, n, x, x) <=> Leads(a, args[1], n, x, x) /\ Leads(a, args[2], n, x, x)
    BY <1>5, HoldsFor
  <2>2. \/ args[1] = args[2] /\ r = args[1]
        \/ Zero \in {args[1], args[2]} /\ r = Zero
        \/ args[1] = One /\ r = args[2]
        \/ args[2] = One /\ r = args[1]
    BY <1>1, <1>5 DEF SettledSet, Other
  <2> HIDE DEF r
  <2> QED BY <1>0, <1>1, <1>2, <1>5, <2>1, <2>2
<1>6. CASE op = "or_set"
  <2>1. \A x : Holds(a, op, args, n, x, x) <=> Leads(a, args[1], n, x, x) \/ Leads(a, args[2], n, x, x)
    BY <1>6, HoldsFor
  <2>2. \/ args[1] = args[2] /\ r = args[1]
        \/ One \in {args[1], args[2]} /\ r = One
        \/ args[1] = Zero /\ r = args[2]
        \/ args[2] = Zero /\ r = args[1]
    BY <1>1, <1>6 DEF SettledSet, Other
  <2> HIDE DEF r
  <2> QED BY <1>0, <1>1, <1>2, <1>6, <2>1, <2>2
<1> QED BY <1>4, <1>5, <1>6 DEF SetOp

LEMMA SettledRelRight ==
  ASSUME NEW a, ForestOK(a), NEW op \in Algebra, op \notin SetOp,
         NEW args \in [DOMAIN Takes(op) -> Live(a)], NEW l \in -1 .. Top(a) - 1,
         Fitting(a, op, args, l + 1), SettledRel(op, args, l) # NoId
  PROVE  Right(a, op, args, l + 1, SettledRel(op, args, l))
<1> DEFINE r == SettledRel(op, args, l)
           n == l + 1
<1>0. /\ n \in 0 .. Top(a) /\ n \in Nat /\ l \in Int /\ Top(a) \in Nat /\ (l < 0 => n = 0)
      /\ Zero # One /\ Terminals = {Zero, One}
  BY LeadingUnfold DEF Zero, One, Terminals
<1>1. \A t \in Terminals : \A k : Fits(a, t, k, n)
  BY <1>0, LevelFacts
<1>2. /\ \A x, y : ~ Leads(a, Zero, n, x, y)
      /\ \A x : Leads(a, One, n, x, x)
      /\ \A x, y : n = 0 => Leads(a, One, n, x, y)
      /\ n = 0 => \A i, k : Fits(a, i, k, n) => i \in Terminals
  BY <1>0, TerminalsLead
<1>3. /\ args[1] \in Live(a) /\ args[1] \in Among(args) /\ Fits(a, args[1], Takes(op)[1], n)
      /\ op \in {"not_rel", "transpose"} => Among(args) = {args[1]}
      /\ op \in {"and_rel", "or_rel", "cross", "post_image", "pre_image"} =>
           Among(args) = {args[1], args[2]} /\ Fits(a, args[2], Takes(op)[2], n)
      /\ op = "boundary" =>
           /\ Among(args) = {args[1], args[2], args[3]}
           /\ Fits(a, args[2], Takes(op)[2], n) /\ Fits(a, args[3], Takes(op)[3], n)
  BY OperandsOf DEF Commutative
<1> HIDE DEF n
<1>4. SUFFICES /\ Fits(a, r, Result(op), n)
               /\ \A x, y \in Omega(a.domains) :
                    Posed(op, x, y) => (Leads(a, r, n, x, y) <=> Holds(a, op, args, n, x, y))
  BY DEF Right, n
<1>5. CASE op = "not_rel"
  <2>1. l < 0 /\ r = (IF args[1] = Zero THEN One ELSE Zero)
    BY <1>5 DEF SettledRel
  <2>2. \A x, y : Holds(a, op, args, n, x, y) <=> ~ Leads(a, args[1], n, x, y)
    BY <1>5, HoldsFor
  <2> HIDE DEF r
  <2>3. args[1] \in {Zero, One} /\ r \in Terminals
    BY <1>0, <1>2, <1>3, <2>1
  <2> QED BY <1>0, <1>1, <1>2, <2>1, <2>2, <2>3
<1>6. CASE op = "or_rel"
  <2>1. \A x, y : Holds(a, op, args, n, x, y) <=> Leads(a, args[1], n, x, y) \/ Leads(a, args[2], n, x, y)
    BY <1>6, HoldsFor
  <2>2. \/ args[1] = Zero /\ r = args[2]
        \/ args[2] = Zero /\ r = args[1]
        \/ Zero \notin {args[1], args[2]} /\ l < 0 /\ r = One
        \/ args[1] = args[2] /\ r = args[1]
    BY <1>3, <1>6 DEF SettledRel, Other
  <2>3. Takes(op)[1] = "rel" /\ Takes(op)[2] = "rel" /\ Result(op) = "rel"
    BY <1>6, Signatures
  <2>4. n = 0 => args[1] \in {Zero, One} /\ args[2] \in {Zero, One}
    BY <1>0, <1>2, <1>3, <1>6
  <2> HIDE DEF r
  <2> QED BY <1>0, <1>1, <1>2, <1>3, <1>6, <2>1, <2>2, <2>3, <2>4
<1>7. CASE op \notin {"not_rel", "or_rel"}
  <2>1. \/ Zero \in Among(args) /\ r = Zero
        \/ Zero \notin Among(args) /\ l < 0 /\ r = One
        \/ op = "and_rel" /\ args[1] = args[2] /\ r = args[1]
    BY <1>7 DEF SettledRel
  <2> HIDE DEF r
  <2>2. CASE op = "and_rel" /\ args[1] = args[2] /\ r = args[1]
    <3>1. \A x, y : Holds(a, op, args, n, x, y) <=> Leads(a, args[1], n, x, y) /\ Leads(a, args[2], n, x, y)
      BY <2>2, HoldsFor
    <3>2. Takes(op)[1] = "rel" /\ Result(op) = "rel"
      BY <2>2, Signatures
    <3> QED BY <1>3, <2>2, <3>1, <3>2
  <2>3. CASE r \in Terminals /\ (Zero \in Among(args) <=> r = Zero) /\ (r = One => l < 0)
    <3>1. Fits(a, r, Result(op), n)
      BY <1>1, <2>3
    <3>2. ASSUME NEW x \in Omega(a.domains), NEW y \in Omega(a.domains), Zero \in Among(args)
          PROVE  ~ Holds(a, op, args, n, x, y)
      <4>1. CASE op \in {"and_rel", "cross"}
        BY <1>2, <1>3, <3>2, <4>1, HoldsFor
      <4>2. CASE op = "transpose"
        BY <1>2, <1>3, <3>2, <4>2, HoldsFor
      <4>3. CASE op = "boundary"
        BY <1>2, <1>3, <3>2, <4>3, HoldsFor
      <4>4. CASE op \in {"post_image", "pre_image"}
        BY <1>2, <1>3, <3>2, <4>4, HoldsFor
      <4> QED BY <1>7, <4>1, <4>2, <4>3, <4>4 DEF Algebra, RelOp
    <3>3. ASSUME NEW x \in Omega(a.domains), NEW y \in Omega(a.domains), Zero \notin Among(args), n = 0
          PROVE  Holds(a, op, args, n, x, y)
      <4>0. \A u, v : Leads(a, One, n, u, v)
        BY <1>2, <3>3
      <4>1. CASE op \in {"and_rel", "cross"}
        <5>1. args[1] = One /\ args[2] = One
          BY <1>0, <1>2, <1>3, <3>3, <4>1
        <5> QED BY <4>0, <4>1, <5>1, HoldsFor
      <4>2. CASE op = "transpose"
        <5>1. args[1] = One
          BY <1>0, <1>2, <1>3, <3>3, <4>2
        <5> QED BY <4>0, <4>2, <5>1, HoldsFor
      <4>3. CASE op = "boundary"
        <5>1. args[1] = One /\ args[2] = One /\ args[3] = One
          BY <1>0, <1>2, <1>3, <3>3, <4>3
        <5> QED BY <4>0, <4>3, <5>1, HoldsFor
      <4>4. CASE op \in {"post_image", "pre_image"}
        <5>1. args[1] = One /\ args[2] = One
          BY <1>0, <1>2, <1>3, <3>3, <4>4
        <5>2. Leads(a, args[1], n, x, x) /\ Leads(a, args[2], n, x, x)
          BY <4>0, <5>1
        <5>3. CASE op = "post_image"
          <6>1. \E w \in Omega(a.domains) : Leads(a, args[1], n, w, w) /\ Leads(a, args[2], n, w, x)
            BY <5>2
          <6> QED BY <5>3, <6>1, HoldsFor
        <5>4. CASE op = "pre_image"
          <6>1. \E w \in Omega(a.domains) : Leads(a, args[1], n, w, w) /\ Leads(a, args[2], n, x, w)
            BY <5>2
          <6> QED BY <5>4, <6>1, HoldsFor
        <5> QED BY <4>4, <5>3, <5>4
      <4> QED BY <1>7, <4>1, <4>2, <4>3, <4>4 DEF Algebra, RelOp
    <3> QED BY <1>0, <1>2, <2>3, <3>1, <3>2, <3>3
  <2> QED BY <1>0, <2>1, <2>2, <2>3
<1> QED BY <1>5, <1>6, <1>7

LEMMA SettledSound ==
  ASSUME NEW a, ForestOK(a), NEW op, NEW args, NEW l, Proper(a, op, args, l),
         Settled(op, args, l) # NoId
  PROVE  Sound(a, op, args, l, Settled(op, args, l))
<1>0. op \in Algebra /\ args \in [DOMAIN Takes(op) -> Live(a)]
  BY DEF Proper
<1>1. CASE op \in SetOp
  <2>1. Settled(op, args, l) = SettledSet(op, args)
    BY <1>1 DEF Settled
  <2> QED BY <1>0, <1>1, <2>1, SettledSetRight DEF Sound, Depths
<1>2. CASE op \notin SetOp
  <2>1. Settled(op, args, l) = SettledRel(op, args, l) /\ l \in -1 .. Top(a) - 1
    BY <1>2 DEF Settled, Proper
  <2> QED BY <1>0, <1>2, <2>1, SettledRelRight DEF Sound, Depths
<1> QED BY <1>1, <1>2

(* A commutative operation may put its operands in order.                  *)
LEMMA SwappedSound ==
  ASSUME NEW a, ForestOK(a), NEW op, NEW args, NEW l, Proper(a, op, args, l),
         Sorted(op, args) # args, NEW r, Sound(a, op, Sorted(op, args), l, r)
  PROVE  Sound(a, op, args, l, r)
<1> DEFINE brgs == <<args[2], args[1]>>
<1>1. op \in Commutative /\ Sorted(op, args) = brgs
  BY DEF Sorted
<1>2. brgs[1] = args[2] /\ brgs[2] = args[1] /\ DOMAIN brgs = {1, 2}
  OBVIOUS
<1>3. DOMAIN args = {1, 2} /\ Takes(op)[1] = Takes(op)[2]
  BY <1>1, Arities, Signatures DEF Commutative, Proper
<1> HIDE DEF brgs
<1>4. \A n : Fitting(a, op, args, n) => Fitting(a, op, brgs, n)
  BY <1>2, <1>3 DEF Fitting
<1>5. \A n, x, y : Holds(a, op, args, n, x, y) <=> Holds(a, op, brgs, n, x, y)
  <2>1. CASE op \in {"and_set", "and_rel"}
    BY <1>2, <2>1, HoldsFor
  <2>2. CASE op \in {"or_set", "or_rel"}
    BY <1>2, <2>2, HoldsFor
  <2> QED BY <1>1, <2>1, <2>2 DEF Commutative
<1>6. \A n : Right(a, op, brgs, n, r) => Right(a, op, args, n, r)
  BY <1>5 DEF Right
<1> QED BY <1>1, <1>4, <1>6 DEF Sound

(* The complement of the empty relation is a memoised full relation.       *)
LEMMA FilledSound ==
  ASSUME NEW a, ForestOK(a), NEW args, NEW l, Proper(a, "not_rel", args, l), args[1] = Zero,
         l \in DOMAIN a.full
  PROVE  Sound(a, "not_rel", args, l, a.full[l])
<1>1. /\ Result("not_rel") = "rel" /\ "not_rel" \notin SetOp /\ l \in -1 .. Top(a) - 1
      /\ l + 1 \in 0 .. Top(a)
  <2>1. Top(a) \in Nat
    BY LeadingUnfold
  <2> QED BY <2>1, Signatures DEF SetOp, Proper
<1>2. Fits(a, a.full[l], "rel", l + 1)
  BY DEF ForestOK, ArenaOK, FullExact
<1>3. \A x, y \in Omega(a.domains) : Leads(a, a.full[l], l + 1, x, y)
  BY FullLeads DEF Leads
<1>4. \A x, y : Holds(a, "not_rel", args, l + 1, x, y)
  BY <1>1, HoldsFor, TerminalsLead
<1> QED BY <1>1, <1>2, <1>3, <1>4 DEF Sound, Right, Depths

(* What the tables hold.                                                   *)
MemoSound(a) ==
  \A key \in DOMAIN a.memo :
    \E op \in SetOp \cup RelOp : \E args, l :
      key = Key(op, args, l) /\ Sound(a, op, args, l, a.memo[key])

(* A key tells calls apart.                                                *)
LEMMA KeyTells ==
  ASSUME NEW a, NEW op \in SetOp \cup RelOp, NEW args, NEW l, Proper(a, op, args, l),
         NEW pp \in SetOp \cup RelOp, NEW brgs, NEW m, Proper(a, pp, brgs, m),
         Key(op, args, l) = Key(pp, brgs, m)
  PROVE  op = pp /\ args = brgs /\ l = m
<1> DEFINE g == IF DOMAIN args = {1} THEN 0 ELSE args[2]
           h == IF DOMAIN brgs = {1} THEN 0 ELSE brgs[2]
<1>1. Key(op, args, l) = IF op \in SetOp THEN <<op, args[1], g>> ELSE <<op, args[1], g, l>>
  BY DEF Key
<1>2. Key(pp, brgs, m) = IF pp \in SetOp THEN <<pp, brgs[1], h>> ELSE <<pp, brgs[1], h, m>>
  BY DEF Key
<1> HIDE DEF g, h
<1>3. op = pp /\ args[1] = brgs[1] /\ g = h /\ (op \notin SetOp => l = m)
  <2>1. Key(op, args, l)[1] = op /\ Key(op, args, l)[2] = args[1] /\ Key(op, args, l)[3] = g
    BY <1>1
  <2>2. Key(pp, brgs, m)[1] = pp /\ Key(pp, brgs, m)[2] = brgs[1] /\ Key(pp, brgs, m)[3] = h
    BY <1>2
  <2>3. op \notin SetOp => Key(op, args, l)[4] = l
    BY <1>1
  <2>4. pp \notin SetOp => Key(pp, brgs, m)[4] = m
    BY <1>2
  <2> QED BY <2>1, <2>2, <2>3, <2>4
<1>4. l = m
  BY <1>3 DEF Proper
<1>5. /\ args \in [DOMAIN Takes(op) -> Live(a)] /\ brgs \in [DOMAIN Takes(op) -> Live(a)]
      /\ DOMAIN Takes(op) = {1} \/ DOMAIN Takes(op) = {1, 2}
  BY <1>3, Arities DEF Proper, SetOp, RelOp
<1>6. \A k \in DOMAIN Takes(op) : args[k] = brgs[k]
  BY <1>3, <1>5 DEF g, h
<1> QED BY <1>3, <1>4, <1>5, <1>6

LEMMA HitSound ==
  ASSUME NEW a, MemoSound(a), NEW op, NEW args, NEW l, Proper(a, op, args, l), op # "boundary",
         Key(op, args, l) \in DOMAIN a.memo
  PROVE  Sound(a, op, args, l, a.memo[Key(op, args, l)])
<1>1. op \in SetOp \cup RelOp
  BY DEF Proper, Algebra
<1>2. PICK pp, brgs, m :
        /\ pp \in SetOp \cup RelOp
        /\ Key(op, args, l) = Key(pp, brgs, m)
        /\ Sound(a, pp, brgs, m, a.memo[Key(op, args, l)])
  BY DEF MemoSound
<1>3. op = pp /\ args = brgs /\ l = m
  BY <1>1, <1>2, KeyTells DEF Sound
<1> QED BY <1>2, <1>3

----------------------------------------------------------------------------
(* The end of a call that builds a node.                                   *)

(* A result that is right one level above the children is right.           *)
LEMMA NewSound ==
  ASSUME NEW a, NEW b, Continues(a, b), Live(a) \subseteq Live(b), b.domains = a.domains,
         NEW op, NEW args, NEW l, Proper(a, op, args, l),
         NEW n \in Depths(a, op, l), Fitting(a, op, args, n),
         \A m \in Depths(a, op, l) : Fitting(a, op, args, m) => n <= m,
         NEW r, Fits(b, r, Result(op), n),
         \A x, y \in Omega(a.domains) :
           Posed(op, x, y) => (Leads(b, r, n, x, y) <=> Holds(a, op, args, n, x, y))
  PROVE  Sound(b, op, args, l, r)
<1>0. /\ ForestOK(b) /\ Top(a) \in Nat /\ Top(b) = Top(a)
      /\ Depths(b, op, l) = Depths(a, op, l) /\ Depth(b, op, l) = Depth(a, op, l)
  BY VectorsMoved DEF Continues, Top, Depths, Depth
<1>1. /\ op \in Algebra /\ args \in [DOMAIN Takes(op) -> Live(a)]
      /\ args \in [DOMAIN Takes(op) -> Live(b)]
      /\ IF op \in SetOp THEN l = NoId ELSE l \in -1 .. Top(a) - 1
      /\ n \in 0 .. Top(a)
  BY <1>0 DEF Proper, Depths
<1>2. \A m : Fitting(b, op, args, m) <=> Fitting(a, op, args, m)
  <2>1. \A k \in DOMAIN args : \A m : Fits(b, args[k], Takes(op)[k], m) <=> Fits(a, args[k], Takes(op)[k], m)
    BY <1>1, FitsMoved
  <2> QED BY <2>1 DEF Fitting
<1>3. Proper(b, op, args, l)
  BY <1>0, <1>1, <1>2 DEF Proper
<1>4. Right(b, op, args, n, r)
  <2>1. ASSUME NEW x \in Omega(b.domains), NEW y \in Omega(b.domains)
        PROVE  Holds(b, op, args, n, x, y) <=> Holds(a, op, args, n, x, y)
    <3>1. Agree(a, x, x) /\ Agree(a, y, y)
      BY DEF Agree
    <3> QED BY <1>1, <3>1, HoldsMoved
  <2> QED BY <2>1 DEF Right
<1>5. \A m \in Depths(b, op, l) : Fitting(b, op, args, m) => Right(b, op, args, m, r)
  <2>1. CASE op \in SetOp
    BY <1>0, <1>1, <1>2, <1>4, <2>1, RightAbove DEF Depths
  <2>2. CASE op \notin SetOp
    BY <1>0, <1>4, <2>2 DEF Depths
  <2> QED BY <2>1, <2>2
<1> QED BY <1>3, <1>5 DEF Sound

(* Building a node touches neither the declarations nor the tables.        *)
LEMMA NodeAdds ==
  ASSUME NEW a, ForestOK(a), NEW l, NEW edges
  PROVE  /\ SetNode(a, l, edges)[2].domains = a.domains
         /\ SetNode(a, l, edges)[2].memo = a.memo
         /\ RelNode(a, l, edges)[2].domains = a.domains
         /\ RelNode(a, l, edges)[2].memo = a.memo
<1>1. PICK d, ns, f, t, m, u : a = Forest(d, ns, f, t, m, u)
  BY DEF ForestOK, ForestType
<1>2. \A n : HashCons(a, n)[2].domains = a.domains /\ HashCons(a, n)[2].memo = a.memo
  BY <1>1 DEF HashCons, Store, Forest
<1> QED BY <1>2 DEF SetNode, RelNode

LEMMA PreservedContinues ==
  ASSUME NEW a, NEW b, ForestOK(a), ForestOK(b), Preserves(a, b), b.domains = a.domains
  PROVE  Continues(a, b) /\ Live(a) \subseteq Live(b)
  BY DEF Continues, Redeclares, Preserves, Levels

LEMMA SetChildFits ==
  ASSUME NEW a, ForestOK(a), NEW l \in Levels(a), NEW i, Fits(a, i, "set", l + 1),
         NEW s \in States(a, l)
  PROVE  Fits(a, SetChild(a, i, l, s), "set", l)
<1>1. i \in Live(a) /\ Level(a, i) \in Int /\ l \in Nat /\ Level(a, i) < l + 1
  BY LevelFacts DEF Fits
<1>2. CASE IsAt(a, i, l, "set")
  <2>1. i \in Inner(a)
    BY <1>1, <1>2 DEF IsAt, Inner, ForestOK, ArenaOK, TerminalsInPlace, Kind, Terminal, Terminals
  <2> QED BY <1>2, <2>1 DEF IsAt, SetChild, ForestOK, ArenaOK, WellFormed
<1>3. CASE ~ IsAt(a, i, l, "set")
  <2>1. Level(a, i) # l
    <3>1. Kind(a, i) = "set" \/ i \in Terminals
      BY <1>1 DEF Fits, Inner, ForestOK, ArenaOK, WellFormed
    <3>2. i \in Terminals => Level(a, i) = -1
      BY DEF ForestOK, ArenaOK, TerminalsInPlace, Level, Terminal
    <3> QED BY <1>1, <1>3, <3>1, <3>2 DEF IsAt
  <2> QED BY <1>1, <1>3, <2>1 DEF SetChild, Fits
<1> QED BY <1>2, <1>3

(* The operands of the calls that are made for a state or a cell.          *)
LEMMA SetOperands ==
  ASSUME NEW a, NEW op \in SetOp, NEW args, NEW l, NEW c
  PROVE  /\ DOMAIN Operands(a, op, args, l, c) = DOMAIN args
         /\ \A k \in DOMAIN args : Operands(a, op, args, l, c)[k] = SetChild(a, args[k], l, c)
BY DEF Operands, SetOp

LEMMA RelOperands ==
  ASSUME NEW a, NEW op \in {"and_rel", "or_rel", "not_rel"}, NEW args, NEW l, NEW c
  PROVE  \A k \in DOMAIN args : Operands(a, op, args, l, c)[k] = RelCell(a, args[k], l, c)
BY DEF Operands, SetOp

LEMMA TransposeOperands ==
  ASSUME NEW a, NEW args, NEW l, NEW s, NEW t
  PROVE  Operands(a, "transpose", args, l, <<s, t>>)[1] = RelCell(a, args[1], l, <<t, s>>)
BY DEF Operands, SetOp

LEMMA CrossOperands ==
  ASSUME NEW a, NEW op, op = "cross" \/ op = "boundary", NEW args, NEW l, NEW c
  PROVE  LET brgs == Operands(a, op, args, l, c)
         IN /\ brgs[1] = SetChild(a, args[1], l, c[1])
            /\ brgs[2] = SetChild(a, args[2], l, c[2])
            /\ op = "boundary" => brgs[3] = RelCell(a, args[3], l, c)
<1> DEFINE first == SetChild(a, args[1], l, c[1])
           second == SetChild(a, args[2], l, c[2])
           third == RelCell(a, args[3], l, c)
<1>1. /\ op = "cross" => Operands(a, op, args, l, c) = <<first, second>>
      /\ op = "boundary" => Operands(a, op, args, l, c) = <<first, second, third>>
  BY DEF Operands, SetOp
<1> HIDE DEF first, second, third
<1> QED BY <1>1 DEF first, second, third

LEMMA ExpandSetSound ==
  ASSUME NEW a, ForestOK(a), NEW op \in SetOp, NEW args, Proper(a, op, args, NoId),
         Settled(op, args, NoId) = NoId,
         NEW children \in [States(a, TopOf(a, args)) -> Live(a)],
         \A s \in States(a, TopOf(a, args)) :
           Sound(a, op, Operands(a, op, args, TopOf(a, args), s), NoId, children[s])
  PROVE  LET r == SetNode(a, TopOf(a, args), children)
         IN /\ ForestOK(r[2]) /\ Preserves(a, r[2])
            /\ Sound(r[2], op, args, NoId, r[1])
<1> DEFINE top == TopOf(a, args)
           r == SetNode(a, top, children)
<1>0. /\ op \in Algebra /\ args \in [DOMAIN Takes(op) -> Live(a)]
      /\ Fitting(a, op, args, Top(a)) /\ Top(a) \in Nat /\ Result(op) = "set"
  BY LeadingUnfold, Signatures DEF Proper, Depth, Top, SetOp
<1>1. DOMAIN args = DOMAIN Takes(op) /\ \A k \in DOMAIN Takes(op) : Takes(op)[k] = "set"
  BY <1>0, Signatures, Arities DEF SetOp
<1>2. \A k \in DOMAIN args : args[k] \notin Terminals
  <2>1. SettledSet(op, args) = NoId /\ Terminals = {Zero, One} /\ Zero # NoId /\ One # NoId
    BY DEF Settled, Terminals, Zero, One, NoId
  <2>2. CASE op = "not_set"
    <3>1. DOMAIN args = {1}
      BY <1>1, <2>2, Arities
    <3>2. args[1] \in Terminals => 1 - args[1] # NoId
      BY DEF Terminals, Zero, One, NoId
    <3> QED BY <2>1, <2>2, <3>1, <3>2 DEF SettledSet
  <2>3. CASE op # "not_set"
    <3>1. DOMAIN args = {1, 2}
      BY <1>1, <2>3, Arities DEF SetOp
    <3>2. Among(args) = {args[1], args[2]} /\ args[1] \in Nat /\ args[2] \in Nat /\ NoId \notin Nat
      BY <1>0, <3>1, SlotFacts DEF Among, ForestOK, NoId
    <3> QED BY <2>1, <2>3, <3>1, <3>2 DEF SettledSet, Other, SetOp
  <2> QED BY <2>2, <2>3
<1>3. \A k \in DOMAIN args : args[k] \in Live(a) /\ Level(a, args[k]) \in Levels(a)
  BY <1>0, <1>2 DEF Inner, ForestOK, ArenaOK, WellFormed
<1>4. /\ top \in Levels(a)
      /\ \A k \in DOMAIN args : Level(a, args[k]) <= top
      /\ \E k \in DOMAIN args : Level(a, args[k]) = top
  <2> DEFINE S == {Level(a, args[k]) : k \in DOMAIN args}
  <2>1. \E m \in S : \A j \in S : m >= j
    <3>1. \A k \in DOMAIN args : Level(a, args[k]) \in Int
      BY <1>3 DEF Levels
    <3>2. CASE op = "not_set"
      <4>1. DOMAIN args = {1}
        BY <1>1, <3>2, Arities
      <4> QED BY <3>1, <4>1
    <3>3. CASE op # "not_set"
      <4>1. DOMAIN args = {1, 2}
        BY <1>1, <3>3, Arities DEF SetOp
      <4>2. S = {Level(a, args[1]), Level(a, args[2])}
        BY <4>1
      <4> QED BY <3>1, <4>1, <4>2
    <3> QED BY <3>2, <3>3
  <2>2. top = Max(S)
    BY DEF TopOf
  <2>3. top \in S /\ \A j \in S : top >= j
    <3> HIDE DEF S
    <3> QED BY <2>1, <2>2 DEF Max
  <2> QED BY <1>3, <2>3 DEF Levels
<1> HIDE DEF top, r
<1>5. top \in Nat /\ top + 1 \in 0 .. Top(a) /\ top \in 0 .. Top(a)
  BY <1>0, <1>4 DEF Levels, Top
<1>6. \A k \in DOMAIN args : Fits(a, args[k], "set", top + 1)
  <2>1. \A k \in DOMAIN args : Level(a, args[k]) \in Int
    BY <1>3 DEF Levels
  <2>2. \A k \in DOMAIN args : Fits(a, args[k], "set", Top(a))
    BY <1>0, <1>1 DEF Fitting
  <2> QED BY <1>4, <1>5, <2>1, <2>2 DEF Fits
<1>7. ASSUME NEW s \in States(a, top)
      PROVE  Right(a, op, Operands(a, op, args, top, s), top, children[s])
  <2> DEFINE brgs == Operands(a, op, args, top, s)
  <2>1. Sound(a, op, brgs, NoId, children[s])
    BY DEF top
  <2>2. Fitting(a, op, brgs, top)
    <3>1. \A k \in DOMAIN args : Fits(a, SetChild(a, args[k], top, s), "set", top)
      BY <1>4, <1>6, SetChildFits
    <3>2. DOMAIN brgs = DOMAIN args /\ \A k \in DOMAIN args : brgs[k] = SetChild(a, args[k], top, s)
      BY SetOperands
    <3> HIDE DEF brgs
    <3> QED BY <1>1, <3>1, <3>2 DEF Fitting
  <2> HIDE DEF brgs
  <2> QED BY <1>5, <2>1, <2>2 DEF Sound, Depths, brgs
<1>8. Edged(a, "set", top, children)
  BY <1>0, <1>7 DEF Edged, Right, top
<1>9. ForestOK(r[2]) /\ Preserves(a, r[2]) /\ Fits(r[2], r[1], "set", top + 1)
  BY <1>4, <1>8, SetNodeOK DEF r
<1>10. r[2].domains = a.domains
  BY NodeAdds DEF r
<1>11. ASSUME NEW x \in Omega(a.domains)
       PROVE  Leads(r[2], r[1], top + 1, x, x) <=> Holds(a, op, args, top + 1, x, x)
  <2> DEFINE s == x[top + 1]
             brgs == Operands(a, op, args, top, s)
  <2>1. s \in States(a, top)
    BY <1>4, OmegaStates DEF Levels, Top
  <2>2. Leads(r[2], r[1], top + 1, x, x) <=> Leads(a, children[s], top, x, x)
    BY <1>4, <1>8, SetNodeMeans DEF Leads, r
  <2>3. Leads(a, children[s], top, x, x) <=> Holds(a, op, brgs, top, x, x)
    BY <1>7, <2>1 DEF Right, Posed
  <2>4. \A k \in DOMAIN args : Leads(a, args[k], top + 1, x, x) <=> Leads(a, brgs[k], top, x, x)
    <3>1. \A k \in DOMAIN args : brgs[k] = SetChild(a, args[k], top, s)
      BY SetOperands
    <3> HIDE DEF brgs
    <3> QED BY <1>4, <1>6, <3>1, SetChildReads
  <2> HIDE DEF brgs, s
  <2>5. Holds(a, op, brgs, top, x, x) <=> Holds(a, op, args, top + 1, x, x)
    <3>1. CASE op \in {"and_set", "or_set"}
      <4>1. 1 \in DOMAIN args /\ 2 \in DOMAIN args
        BY <1>1, <3>1, Arities
      <4> QED BY <2>4, <3>1, <4>1, HoldsFor
    <3>2. CASE op = "not_set"
      <4>1. 1 \in DOMAIN args
        BY <1>1, <3>2, Arities
      <4> QED BY <2>4, <3>2, <4>1, HoldsFor
    <3> QED BY <3>1, <3>2 DEF SetOp
  <2> QED BY <2>2, <2>3, <2>5
<1>12. Continues(a, r[2]) /\ Live(a) \subseteq Live(r[2])
  BY <1>9, <1>10, PreservedContinues
<1>13. Fitting(a, op, args, top + 1)
  BY <1>1, <1>6 DEF Fitting
<1>14. \A m \in Depths(a, op, NoId) : Fitting(a, op, args, m) => top + 1 <= m
  <2> SUFFICES ASSUME NEW m \in 0 .. Top(a), Fitting(a, op, args, m) PROVE top + 1 <= m
    BY DEF Depths
  <2>1. PICK k \in DOMAIN args : Level(a, args[k]) = top
    BY <1>4
  <2>2. top < m
    BY <2>1 DEF Fitting, Fits
  <2> QED BY <1>5, <2>2
<1>15. Sound(r[2], op, args, NoId, r[1])
  <2>1. top + 1 \in Depths(a, op, NoId)
    BY <1>5 DEF Depths
  <2>2. \A x, y \in Omega(a.domains) : Posed(op, x, y) =>
          (Leads(r[2], r[1], top + 1, x, y) <=> Holds(a, op, args, top + 1, x, y))
    BY <1>0, <1>11 DEF Posed
  <2>3. Fits(r[2], r[1], Result(op), top + 1)
    BY <1>0, <1>9
  <2> QED BY <1>10, <1>12, <1>13, <1>14, <2>1, <2>2, <2>3, NewSound
<1> QED BY <1>9, <1>15 DEF r, top

(* What an operation on relations means, one level down.                   *)
LEMMA RelSplits ==
  ASSUME NEW a, ForestOK(a), NEW op \in Algebra, op \notin SetOp \cup Images,
         NEW args \in [DOMAIN Takes(op) -> Live(a)], NEW l \in Levels(a),
         Fitting(a, op, args, l + 1), NEW x \in Omega(a.domains), NEW y \in Omega(a.domains)
  PROVE  Holds(a, op, args, l + 1, x, y)
           <=> Holds(a, op, Operands(a, op, args, l, <<x[l + 1], y[l + 1]>>), l, x, y)
<1> DEFINE s == x[l + 1]
           t == y[l + 1]
           c == <<s, t>>
           brgs == Operands(a, op, args, l, c)
<1>1. \A k \in DOMAIN Takes(op) : Fits(a, args[k], Takes(op)[k], l + 1)
  BY DEF Fitting
<1>c. c[1] = s /\ c[2] = t
  OBVIOUS
<1> HIDE DEF brgs, c, s, t
<1>3. CASE op \in {"and_rel", "or_rel", "not_rel"}
  <2>1. \A k \in DOMAIN Takes(op) : brgs[k] = RelCell(a, args[k], l, c)
    <3>1. DOMAIN args = DOMAIN Takes(op)
      OBVIOUS
    <3> QED BY <1>3, <3>1, RelOperands DEF brgs
  <2>2. \A k \in DOMAIN Takes(op) : Takes(op)[k] = "rel"
    BY <1>3, Signatures, Arities
  <2>3. \A k \in DOMAIN Takes(op) : Leads(a, args[k], l + 1, x, y) <=> Leads(a, brgs[k], l, x, y)
    BY <1>1, <2>1, <2>2, RelCellReads DEF c, s, t
  <2>4. CASE op \in {"and_rel", "or_rel"}
    <3>1. 1 \in DOMAIN Takes(op) /\ 2 \in DOMAIN Takes(op)
      BY <2>4, Arities
    <3> QED BY <2>3, <2>4, <3>1, HoldsFor DEF brgs, c, s, t
  <2>5. CASE op = "not_rel"
    <3>1. 1 \in DOMAIN Takes(op)
      BY <2>5, Arities
    <3> QED BY <2>3, <2>5, <3>1, HoldsFor DEF brgs, c, s, t
  <2> QED BY <1>3, <2>4, <2>5
<1>4. CASE op = "transpose"
  <2>1. brgs[1] = RelCell(a, args[1], l, <<t, s>>)
    BY <1>4, TransposeOperands DEF brgs, c
  <2>2. Fits(a, args[1], "rel", l + 1)
    BY <1>1, <1>4, Signatures, Arities
  <2>3. Leads(a, args[1], l + 1, y, x) <=> Leads(a, brgs[1], l, y, x)
    BY <2>1, <2>2, RelCellReads DEF c, s, t
  <2> QED BY <1>4, <2>3, HoldsFor DEF brgs, c, s, t
<1>5. CASE op = "cross"
  <2>1. brgs[1] = SetChild(a, args[1], l, s) /\ brgs[2] = SetChild(a, args[2], l, t)
    BY <1>5, <1>c, CrossOperands DEF brgs
  <2>2. Fits(a, args[1], "set", l + 1) /\ Fits(a, args[2], "set", l + 1)
    BY <1>1, <1>5, Signatures, Arities
  <2>3. /\ Leads(a, args[1], l + 1, x, x) <=> Leads(a, brgs[1], l, x, x)
        /\ Leads(a, args[2], l + 1, y, y) <=> Leads(a, brgs[2], l, y, y)
    BY <2>1, <2>2, SetChildReads DEF s, t
  <2> QED BY <1>5, <2>3, HoldsFor DEF brgs, c, s, t
<1>6. CASE op = "boundary"
  <2>1. /\ brgs[1] = SetChild(a, args[1], l, s) /\ brgs[2] = SetChild(a, args[2], l, t)
        /\ brgs[3] = RelCell(a, args[3], l, c)
    BY <1>6, <1>c, CrossOperands DEF brgs
  <2>2. /\ Fits(a, args[1], "set", l + 1) /\ Fits(a, args[2], "set", l + 1)
        /\ Fits(a, args[3], "rel", l + 1)
    BY <1>1, <1>6, Signatures, Arities
  <2>3. /\ Leads(a, args[1], l + 1, x, x) <=> Leads(a, brgs[1], l, x, x)
        /\ Leads(a, args[2], l + 1, y, y) <=> Leads(a, brgs[2], l, y, y)
        /\ Leads(a, args[3], l + 1, x, y) <=> Leads(a, brgs[3], l, x, y)
    BY <2>1, <2>2, SetChildReads, RelCellReads DEF c, s, t
  <2> QED BY <1>6, <2>3, HoldsFor DEF brgs, c, s, t
<1> QED BY <1>3, <1>4, <1>5, <1>6 DEF Algebra, SetOp, RelOp, Images

(* Other than on sets, a call that is not settled is about some level.     *)
LEMMA UnsettledLevel ==
  ASSUME NEW a, ForestOK(a), NEW op, op \notin SetOp, NEW args, NEW l, Proper(a, op, args, l),
         Settled(op, args, l) = NoId
  PROVE  l \in Levels(a) /\ l \in Nat /\ l + 1 \in 0 .. Top(a) /\ l \in 0 .. Top(a)
<1>1. l \in -1 .. Top(a) - 1 /\ Top(a) \in Nat
  BY LeadingUnfold DEF Proper
<1>2. SettledRel(op, args, l) = NoId
  BY DEF Settled
<1>3. l >= 0
  <2> SUFFICES ASSUME l < 0 PROVE FALSE
    BY <1>1
  <2>1. CASE op = "not_rel"
    <3>1. ~ (l >= 0)
      BY <1>1
    <3> QED BY <1>2, <2>1, <3>1 DEF SettledRel, Zero, One, NoId
  <2>2. CASE op = "or_rel" /\ Zero \in Among(args)
    <3>1. SettledRel(op, args, l) = Other(args, Zero)
      BY <2>2 DEF SettledRel
    <3>2. args[1] \in Live(a) /\ args[2] \in Live(a)
      BY <2>2, OperandsOf DEF Proper
    <3>3. Live(a) \subseteq Nat
      BY SlotFacts DEF ForestOK
    <3> QED BY <1>2, <3>1, <3>2, <3>3 DEF Other, NoId
  <2>3. CASE op # "not_rel" /\ ~ (op = "or_rel" /\ Zero \in Among(args))
    BY <1>2, <2>3 DEF SettledRel, Zero, One, NoId
  <2> QED BY <2>1, <2>2, <2>3
<1> QED BY <1>1, <1>3 DEF Levels, Top

LEMMA ExpandRelSound ==
  ASSUME NEW a, ForestOK(a), NEW op, op \notin SetOp \cup Images, NEW args, NEW l,
         Proper(a, op, args, l), Settled(op, args, l) = NoId,
         NEW block \in [Cells(a, l) -> Live(a)],
         \A c \in Cells(a, l) : Sound(a, op, Operands(a, op, args, l, c), l - 1, block[c])
  PROVE  LET r == RelNode(a, l, block)
         IN /\ ForestOK(r[2]) /\ Preserves(a, r[2])
            /\ Sound(r[2], op, args, l, r[1])
<1> DEFINE r == RelNode(a, l, block)
<1>0. /\ op \in Algebra /\ op \notin SetOp /\ args \in [DOMAIN Takes(op) -> Live(a)]
      /\ Fitting(a, op, args, l + 1)
      /\ l \in Levels(a) /\ l \in Nat /\ l + 1 \in 0 .. Top(a) /\ l \in 0 .. Top(a)
      /\ (l - 1) + 1 = l
  BY UnsettledLevel DEF Proper, Depth
<1>1. Result(op) = "rel"
  BY <1>0, Signatures DEF Algebra, SetOp, RelOp, Images
<1>2. \A c \in Cells(a, l) : Right(a, op, Operands(a, op, args, l, c), l, block[c])
  <2> SUFFICES ASSUME NEW c \in Cells(a, l)
               PROVE  Right(a, op, Operands(a, op, args, l, c), l, block[c])
    OBVIOUS
  <2> DEFINE brgs == Operands(a, op, args, l, c)
  <2>1. Sound(a, op, brgs, l - 1, block[c])
    OBVIOUS
  <2> HIDE DEF brgs
  <2>2. Depth(a, op, l - 1) = l /\ Depths(a, op, l - 1) = {l}
    BY <1>0 DEF Depth, Depths
  <2>3. Fitting(a, op, brgs, l)
    BY <2>1, <2>2 DEF Sound, Proper
  <2> QED BY <2>1, <2>2, <2>3 DEF Sound, brgs
<1>3. Edged(a, "rel", l, block)
  BY <1>1, <1>2 DEF Edged, Right
<1>4. ForestOK(r[2]) /\ Preserves(a, r[2]) /\ Fits(r[2], r[1], "rel", l + 1)
  BY <1>0, <1>3, RelNodeOK
<1>5. r[2].domains = a.domains
  BY NodeAdds
<1>6. Continues(a, r[2]) /\ Live(a) \subseteq Live(r[2])
  BY <1>4, <1>5, PreservedContinues
<1>7. ASSUME NEW x \in Omega(a.domains), NEW y \in Omega(a.domains)
      PROVE  Leads(r[2], r[1], l + 1, x, y) <=> Holds(a, op, args, l + 1, x, y)
  <2> DEFINE c == <<x[l + 1], y[l + 1]>>
  <2>1. c \in Cells(a, l)
    <3>1. x[l + 1] \in States(a, l) /\ y[l + 1] \in States(a, l)
      BY <1>0, OmegaStates DEF Levels, Top
    <3> QED BY <3>1 DEF Cells
  <2>2. Leads(r[2], r[1], l + 1, x, y) <=> Leads(a, block[c], l, x, y)
    BY <1>0, <1>3, RelNodeMeans DEF Leads
  <2>3. Leads(a, block[c], l, x, y) <=> Holds(a, op, Operands(a, op, args, l, c), l, x, y)
    BY <1>1, <1>2, <2>1 DEF Right, Posed
  <2>4. Holds(a, op, args, l + 1, x, y) <=> Holds(a, op, Operands(a, op, args, l, c), l, x, y)
    BY <1>0, RelSplits
  <2> QED BY <2>2, <2>3, <2>4
<1> HIDE DEF r
<1>8. Sound(r[2], op, args, l, r[1])
  <2>1. Depths(a, op, l) = {l + 1}
    BY <1>0 DEF Depths
  <2>2. \A m \in Depths(a, op, l) : l + 1 <= m
    BY <1>0, <2>1
  <2> QED BY <1>0, <1>1, <1>4, <1>5, <1>6, <1>7, <2>1, <2>2, NewSound
<1> QED BY <1>4, <1>8 DEF r

(* A vector may take any state at a level without a change below it.       *)
LEMMA Turning ==
  ASSUME NEW a, ForestOK(a), NEW l \in Levels(a), NEW x \in Omega(a.domains),
         NEW s \in States(a, l)
  PROVE  \E w \in Omega(a.domains) :
           /\ w[l + 1] = s
           /\ \A i, v : /\ Leads(a, i, l, w, w) <=> Leads(a, i, l, x, x)
                        /\ Leads(a, i, l, w, v) <=> Leads(a, i, l, x, v)
                        /\ Leads(a, i, l, v, w) <=> Leads(a, i, l, v, x)
<1> DEFINE w == [x EXCEPT ![l + 1] = s]
<1>0. l \in Nat /\ l \in 0 .. Top(a) /\ l + 1 \in 1 .. Top(a) /\ Top(a) \in Nat
  BY LeadingUnfold DEF Levels, Top
<1>1. x \in [1 .. Top(a) -> Nat] /\ \A k \in 1 .. Top(a) : x[k] < a.domains[k]
  BY OmegaFacts
<1>2. s \in Nat /\ s < a.domains[l + 1]
  BY LevelFacts DEF States
<1>3. w \in [1 .. Top(a) -> Nat] /\ w[l + 1] = s /\ \A k \in 1 .. Top(a) : k # l + 1 => w[k] = x[k]
  BY <1>0, <1>1, <1>2
<1> HIDE DEF w
<1>4. \A k \in 1 .. Top(a) : w[k] < a.domains[k]
  BY <1>1, <1>2, <1>3
<1>5. w \in Omega(a.domains)
  BY <1>3, <1>4, OmegaFacts
<1>6. \A k \in 1 .. l : w[k] = x[k]
  BY <1>0, <1>3
<1>7. ASSUME NEW v
      PROVE  /\ Leading(a, w, w)[l] = Leading(a, x, x)[l]
             /\ Leading(a, w, v)[l] = Leading(a, x, v)[l]
             /\ Leading(a, v, w)[l] = Leading(a, v, x)[l]
  <2>1. Leading(a, w, w)[l] = Leading(a, x, x)[l]
    BY <1>0, <1>6, LeadingAgrees
  <2>2. Leading(a, w, v)[l] = Leading(a, x, v)[l]
    BY <1>0, <1>6, LeadingAgrees
  <2>3. Leading(a, v, w)[l] = Leading(a, v, x)[l]
    BY <1>0, <1>6, LeadingAgrees
  <2> QED BY <2>1, <2>2, <2>3
<1> QED BY <1>3, <1>5, <1>7 DEF Leads

(* An image is a union over the states that are quantified away.           *)
LEMMA ImageSplits ==
  ASSUME NEW a, ForestOK(a), NEW op \in Images, NEW args \in [DOMAIN Takes(op) -> Live(a)],
         NEW l \in Levels(a), Fitting(a, op, args, l + 1), NEW x \in Omega(a.domains)
  PROVE  Holds(a, op, args, l + 1, x, x) <=>
           \E s \in States(a, l) :
             Holds(a, op, ImageOperands(a, op, args, l, x[l + 1], s), l, x, x)
<1> DEFINE b == x[l + 1]
           B(s) == ImageOperands(a, op, args, l, b, s)
           Cell(s) == IF op = "post_image" THEN <<s, b>> ELSE <<b, s>>
<1>1. Fits(a, args[1], "set", l + 1) /\ Fits(a, args[2], "rel", l + 1)
  <2>1. Takes(op)[1] = "set" /\ Takes(op)[2] = "rel"
    BY Signatures DEF Images
  <2>2. DOMAIN Takes(op) = {1, 2}
    BY Arities DEF Images
  <2> QED BY <2>1, <2>2 DEF Fitting
<1>2. \A s : B(s)[1] = SetChild(a, args[1], l, s) /\ B(s)[2] = RelCell(a, args[2], l, Cell(s))
  BY DEF ImageOperands
<1>a. \A w \in Omega(a.domains) : w[l + 1] \in States(a, l)
  BY OmegaStates DEF Levels, Top
<1> HIDE DEF B, Cell
<1>b. \A w \in Omega(a.domains) :
        Leads(a, args[1], l + 1, w, w) <=> Leads(a, B(w[l + 1])[1], l, w, w)
  BY <1>1, <1>2, SetChildReads
<1>3. CASE op = "post_image"
  <2>1. \A n, brgs : Holds(a, op, brgs, n, x, x) <=>
          \E w \in Omega(a.domains) : Leads(a, brgs[1], n, w, w) /\ Leads(a, brgs[2], n, w, x)
    BY <1>3, HoldsFor
  <2>2. \A w \in Omega(a.domains) :
          Leads(a, args[2], l + 1, w, x) <=> Leads(a, B(w[l + 1])[2], l, w, x)
    BY <1>1, <1>2, <1>3, RelCellReads DEF Cell
  <2>3. ASSUME NEW w \in Omega(a.domains),
               Leads(a, args[1], l + 1, w, w), Leads(a, args[2], l + 1, w, x)
        PROVE  \E s \in States(a, l) : Holds(a, op, B(s), l, x, x)
    BY <1>a, <1>b, <2>1, <2>2, <2>3
  <2>4. ASSUME NEW s \in States(a, l), NEW v \in Omega(a.domains),
               Leads(a, B(s)[1], l, v, v), Leads(a, B(s)[2], l, v, x)
        PROVE  \E w \in Omega(a.domains) :
                 Leads(a, args[1], l + 1, w, w) /\ Leads(a, args[2], l + 1, w, x)
    <3>1. PICK w \in Omega(a.domains) :
            /\ w[l + 1] = s
            /\ \A i, u : /\ Leads(a, i, l, w, w) <=> Leads(a, i, l, v, v)
                         /\ Leads(a, i, l, w, u) <=> Leads(a, i, l, v, u)
      BY Turning
    <3>2. Leads(a, B(s)[1], l, w, w) /\ Leads(a, B(s)[2], l, w, x)
      BY <2>4, <3>1
    <3> QED BY <1>b, <2>2, <3>1, <3>2
  <2>5. Holds(a, op, args, l + 1, x, x) => \E s \in States(a, l) : Holds(a, op, B(s), l, x, x)
    BY <2>1, <2>3
  <2>6. (\E s \in States(a, l) : Holds(a, op, B(s), l, x, x)) => Holds(a, op, args, l + 1, x, x)
    BY <2>1, <2>4
  <2> QED BY <2>5, <2>6 DEF B
<1>4. CASE op = "pre_image"
  <2>1. \A n, brgs : Holds(a, op, brgs, n, x, x) <=>
          \E w \in Omega(a.domains) : Leads(a, brgs[1], n, w, w) /\ Leads(a, brgs[2], n, x, w)
    BY <1>4, HoldsFor
  <2>2. \A w \in Omega(a.domains) :
          Leads(a, args[2], l + 1, x, w) <=> Leads(a, B(w[l + 1])[2], l, x, w)
    <3>1. \A s : Cell(s) = <<b, s>>
      BY <1>4 DEF Cell
    <3> QED BY <1>1, <1>2, <3>1, RelCellReads
  <2>3. ASSUME NEW w \in Omega(a.domains),
               Leads(a, args[1], l + 1, w, w), Leads(a, args[2], l + 1, x, w)
        PROVE  \E s \in States(a, l) : Holds(a, op, B(s), l, x, x)
    BY <1>a, <1>b, <2>1, <2>2, <2>3
  <2>4. ASSUME NEW s \in States(a, l), NEW v \in Omega(a.domains),
               Leads(a, B(s)[1], l, v, v), Leads(a, B(s)[2], l, x, v)
        PROVE  \E w \in Omega(a.domains) :
                 Leads(a, args[1], l + 1, w, w) /\ Leads(a, args[2], l + 1, x, w)
    <3>1. PICK w \in Omega(a.domains) :
            /\ w[l + 1] = s
            /\ \A i, u : /\ Leads(a, i, l, w, w) <=> Leads(a, i, l, v, v)
                         /\ Leads(a, i, l, u, w) <=> Leads(a, i, l, u, v)
      BY Turning
    <3>2. Leads(a, B(s)[1], l, w, w) /\ Leads(a, B(s)[2], l, x, w)
      BY <2>4, <3>1
    <3> QED BY <1>b, <2>2, <3>1, <3>2
  <2>5. Holds(a, op, args, l + 1, x, x) => \E s \in States(a, l) : Holds(a, op, B(s), l, x, x)
    BY <2>1, <2>3
  <2>6. (\E s \in States(a, l) : Holds(a, op, B(s), l, x, x)) => Holds(a, op, args, l + 1, x, x)
    BY <2>1, <2>4
  <2> QED BY <2>5, <2>6 DEF B
<1> QED BY <1>3, <1>4 DEF Images

(* A union of two sets that the operation on sets returned.                *)
LEMMA UnionLeads ==
  ASSUME NEW a, NEW n \in 0 .. Top(a), NEW i, NEW j, NEW r,
         Fits(a, i, "set", n), Fits(a, j, "set", n),
         Sound(a, "or_set", <<i, j>>, NoId, r)
  PROVE  /\ Fits(a, r, "set", n)
         /\ \A x \in Omega(a.domains) :
              Leads(a, r, n, x, x) <=> Leads(a, i, n, x, x) \/ Leads(a, j, n, x, x)
<1> DEFINE args == <<i, j>>
<1>1. args[1] = i /\ args[2] = j /\ DOMAIN args = {1, 2}
  OBVIOUS
<1>2. Sound(a, "or_set", args, NoId, r)
  OBVIOUS
<1> HIDE DEF args
<1>3. Takes("or_set")[1] = "set" /\ Takes("or_set")[2] = "set" /\ Result("or_set") = "set"
  BY Signatures
<1>4. Fitting(a, "or_set", args, n)
  BY <1>1, <1>3 DEF Fitting
<1>5. n \in Depths(a, "or_set", NoId)
  BY DEF Depths, SetOp
<1>6. Right(a, "or_set", args, n, r)
  BY <1>2, <1>4, <1>5 DEF Sound
<1>7. \A x : Holds(a, "or_set", args, n, x, x) <=> Leads(a, i, n, x, x) \/ Leads(a, j, n, x, x)
  BY <1>1, HoldsFor
<1> QED BY <1>3, <1>6, <1>7 DEF Right, Posed

(* The unions that an image gathers for one state that it keeps.           *)
LEMMA GatheredLeads ==
  ASSUME NEW a, ForestOK(a), NEW op \in Images, NEW args, NEW l \in Levels(a),
         NEW b, NEW n \in Nat,
         NEW into, into[<<b, 0>>] = Zero,
         \A s \in 0 .. n - 1 : \E r :
           /\ Sound(a, op, ImageOperands(a, op, args, l, b, s), l - 1, r)
           /\ Sound(a, "or_set", <<into[<<b, s>>], r>>, NoId, into[<<b, s + 1>>])
  PROVE  /\ Fits(a, into[<<b, n>>], "set", l)
         /\ \A x \in Omega(a.domains) : Leads(a, into[<<b, n>>], l, x, x) <=>
              \E s \in 0 .. n - 1 : Holds(a, op, ImageOperands(a, op, args, l, b, s), l, x, x)
<1> DEFINE B(s) == ImageOperands(a, op, args, l, b, s)
           upto(k) == into[<<b, k>>]
           Good(k) ==
             /\ Fits(a, upto(k), "set", l)
             /\ \A x \in Omega(a.domains) :
                  Leads(a, upto(k), l, x, x) <=> \E s \in 0 .. k - 1 : Holds(a, op, B(s), l, x, x)
           S == {k \in 0 .. n : Good(k)}
<1>0. /\ l \in Nat /\ l \in 0 .. Top(a) /\ (l - 1) + 1 = l
      /\ op \notin SetOp /\ op \in Algebra /\ Result(op) = "set"
  BY LeadingUnfold, Signatures DEF Levels, Top, Images, SetOp, RelOp, Algebra
<1>a. \A s \in 0 .. n - 1 : \E r :
        Sound(a, op, B(s), l - 1, r) /\ Sound(a, "or_set", <<upto(s), r>>, NoId, upto(s + 1))
  OBVIOUS
<1>b. upto(0) = Zero
  OBVIOUS
<1> HIDE DEF B, upto
<1>1. Good(0)
  <2>1. Fits(a, Zero, "set", l)
    BY <1>0, LevelFacts DEF Terminals
  <2>2. \A x : ~ Leads(a, Zero, l, x, x)
    BY <1>0, TerminalsLead
  <2> QED BY <1>b, <2>1, <2>2
<1>2. ASSUME NEW k \in 0 .. n - 1, Good(k) PROVE Good(k + 1)
  <2>1. PICK r : Sound(a, op, B(k), l - 1, r) /\ Sound(a, "or_set", <<upto(k), r>>, NoId, upto(k + 1))
    BY <1>a
  <2>2. Right(a, op, B(k), l, r)
    <3>1. Depth(a, op, l - 1) = l /\ Depths(a, op, l - 1) = {l}
      BY <1>0 DEF Depth, Depths
    <3> QED BY <2>1, <3>1 DEF Sound, Proper
  <2>3. /\ Fits(a, r, "set", l)
        /\ \A x \in Omega(a.domains) : Leads(a, r, l, x, x) <=> Holds(a, op, B(k), l, x, x)
    BY <1>0, <2>2 DEF Right, Posed
  <2>4. /\ Fits(a, upto(k + 1), "set", l)
        /\ \A x \in Omega(a.domains) :
             Leads(a, upto(k + 1), l, x, x) <=> Leads(a, upto(k), l, x, x) \/ Leads(a, r, l, x, x)
    BY <1>0, <1>2, <2>1, <2>3, UnionLeads
  <2>5. \A s : s \in 0 .. (k + 1) - 1 <=> s \in 0 .. k - 1 \/ s = k
    OBVIOUS
  <2> QED BY <1>2, <2>3, <2>4, <2>5
<1>3. 0 .. n \subseteq S
  <2> HIDE DEF Good
  <2>1. 0 \in S /\ \A k \in 0 .. n - 1 : k \in S => k + 1 \in S
    BY <1>1, <1>2
  <2> HIDE DEF S
  <2> QED BY <2>1, CountingUp
<1>4. Good(n)
  BY <1>3
<1> QED BY <1>4 DEF upto, B

(* What the calls of an image returned, and the unions made of them.       *)
Unions(a, op, args, l, into) ==
  /\ \A b \in States(a, l) : into[<<b, 0>>] = Zero
  /\ \A b, s \in States(a, l) : \E r :
       /\ Sound(a, op, ImageOperands(a, op, args, l, b, s), l - 1, r)
       /\ Sound(a, "or_set", <<into[<<b, s>>], r>>, NoId, into[<<b, s + 1>>])

LEMMA ExpandImageSound ==
  ASSUME NEW a, ForestOK(a), NEW op \in Images, NEW args, NEW l,
         Proper(a, op, args, l), Settled(op, args, l) = NoId,
         NEW into, Unions(a, op, args, l, into),
         NEW children, children = [b \in States(a, l) |-> into[<<b, a.domains[l + 1]>>]]
  PROVE  LET r == SetNode(a, l, children)
         IN /\ ForestOK(r[2]) /\ Preserves(a, r[2])
            /\ Sound(r[2], op, args, l, r[1])
<1> DEFINE r == SetNode(a, l, children)
           n == a.domains[l + 1]
<1>0. /\ op \in Algebra /\ op \notin SetOp /\ args \in [DOMAIN Takes(op) -> Live(a)]
      /\ Fitting(a, op, args, l + 1) /\ Result(op) = "set"
      /\ l \in Levels(a) /\ l \in Nat /\ l + 1 \in 0 .. Top(a) /\ l \in 0 .. Top(a)
      /\ n \in Nat /\ States(a, l) = 0 .. n - 1
  <2>1. op \notin SetOp /\ Result(op) = "set"
    BY Signatures DEF Images, SetOp
  <2>2. l \in Levels(a) /\ l \in Nat /\ l + 1 \in 0 .. Top(a) /\ l \in 0 .. Top(a)
    BY <2>1, UnsettledLevel
  <2> QED BY <2>1, <2>2, LevelFacts DEF Proper, Depth, States
<1>n. children = [b \in States(a, l) |-> into[<<b, n>>]]
  OBVIOUS
<1> HIDE DEF n
<1>1. \A b \in States(a, l) :
        /\ Fits(a, children[b], "set", l)
        /\ \A x \in Omega(a.domains) : Leads(a, children[b], l, x, x) <=>
             \E s \in States(a, l) : Holds(a, op, ImageOperands(a, op, args, l, b, s), l, x, x)
  <2> SUFFICES ASSUME NEW b \in States(a, l)
               PROVE  /\ Fits(a, into[<<b, n>>], "set", l)
                      /\ \A x \in Omega(a.domains) : Leads(a, into[<<b, n>>], l, x, x) <=>
                           \E s \in States(a, l) :
                             Holds(a, op, ImageOperands(a, op, args, l, b, s), l, x, x)
    BY <1>n
  <2> QED BY <1>0, GatheredLeads DEF Unions
<1>2. children = [b \in DOMAIN children |-> children[b]] /\ DOMAIN children = States(a, l)
  BY <1>n
<1>3. Edged(a, "set", l, children)
  BY <1>1, <1>2 DEF Edged
<1>4. ForestOK(r[2]) /\ Preserves(a, r[2]) /\ Fits(r[2], r[1], "set", l + 1)
  BY <1>0, <1>3, SetNodeOK
<1>5. r[2].domains = a.domains
  BY NodeAdds
<1>6. Continues(a, r[2]) /\ Live(a) \subseteq Live(r[2])
  BY <1>4, <1>5, PreservedContinues
<1>7. ASSUME NEW x \in Omega(a.domains)
      PROVE  Leads(r[2], r[1], l + 1, x, x) <=> Holds(a, op, args, l + 1, x, x)
  <2>1. x[l + 1] \in States(a, l)
    BY <1>0, OmegaStates DEF Levels, Top
  <2>2. Leads(r[2], r[1], l + 1, x, x) <=> Leads(a, children[x[l + 1]], l, x, x)
    BY <1>0, <1>3, SetNodeMeans DEF Leads
  <2>3. Holds(a, op, args, l + 1, x, x) <=>
          \E s \in States(a, l) : Holds(a, op, ImageOperands(a, op, args, l, x[l + 1], s), l, x, x)
    BY <1>0, ImageSplits
  <2> QED BY <1>1, <2>1, <2>2, <2>3
<1> HIDE DEF r
<1>8. Sound(r[2], op, args, l, r[1])
  <2>1. Depths(a, op, l) = {l + 1}
    BY <1>0 DEF Depths
  <2>2. \A m \in Depths(a, op, l) : l + 1 <= m
    BY <1>0, <2>1
  <2>3. \A x, y \in Omega(a.domains) : Posed(op, x, y) =>
          (Leads(r[2], r[1], l + 1, x, y) <=> Holds(a, op, args, l + 1, x, y))
    BY <1>0, <1>7 DEF Posed
  <2> QED BY <1>0, <1>4, <1>5, <1>6, <2>1, <2>2, <2>3, NewSound
<1> QED BY <1>4, <1>8 DEF r

----------------------------------------------------------------------------
(* The invariant of the operations.                                        *)

KnownOK(a, K) == \A q \in K : Sound(a, q[1], q[2], q[3], q[4])
AlgebraInv == EngineInv /\ MemoSound(forest) /\ KnownOK(forest, known)

LEMMA SoundLives ==
  ASSUME NEW a, ForestOK(a), NEW op, NEW args, NEW l, NEW r, Sound(a, op, args, l, r)
  PROVE  r \in Live(a) /\ Among(args) \subseteq Live(a)
<1>1. Depth(a, op, l) \in Depths(a, op, l)
  BY LeadingUnfold DEF Depth, Depths, Top
<1> QED BY <1>1 DEF Sound, Proper, Right, Fits, Among

LEMMA GrownKeeps ==
  ASSUME NEW a, NEW b, Continues(a, b), Live(a) \subseteq Live(b)
  PROVE  /\ \A op, args, l, r : Sound(a, op, args, l, r) => Sound(b, op, args, l, r)
         /\ \A K : KnownOK(a, K) => KnownOK(b, K)
         /\ MemoSound(a) /\ b.memo = a.memo => MemoSound(b)
<1>1. ASSUME NEW op, NEW args, NEW l, NEW r, Sound(a, op, args, l, r) PROVE Sound(b, op, args, l, r)
  BY <1>1, SoundLives, SoundKept DEF Continues
<1>2. \A K : KnownOK(a, K) => KnownOK(b, K)
  BY <1>1 DEF KnownOK
<1>3. MemoSound(a) /\ b.memo = a.memo => MemoSound(b)
  BY <1>1 DEF MemoSound
<1> QED BY <1>1, <1>2, <1>3

(* What a key names.                                                       *)
LEMMA KeyFor ==
  ASSUME NEW op \in SetOp \cup RelOp, NEW args, DOMAIN args = DOMAIN Takes(op), NEW l
  PROVE  LET key == Key(op, args, l)
         IN /\ key[1] = op /\ key[2] = args[1]
            /\ DOMAIN args = {1} => key[3] = 0
            /\ DOMAIN args # {1} => key[3] = args[2]
            /\ op \notin SetOp => key[4] = l
            /\ DOMAIN args = {1} \/ DOMAIN args = {1, 2}
<1> DEFINE g == IF DOMAIN args = {1} THEN 0 ELSE args[2]
<1>1. Key(op, args, l) = IF op \in SetOp THEN <<op, args[1], g>> ELSE <<op, args[1], g, l>>
  BY DEF Key
<1>2. DOMAIN args = {1} \/ DOMAIN args = {1, 2}
  BY Arities DEF SetOp, RelOp
<1> HIDE DEF g
<1>3. /\ Key(op, args, l)[1] = op /\ Key(op, args, l)[2] = args[1] /\ Key(op, args, l)[3] = g
      /\ op \notin SetOp => Key(op, args, l)[4] = l
  BY <1>1
<1> QED BY <1>2, <1>3 DEF g

(* Remembering a result that is right.                                     *)
LEMMA RememberKeeps ==
  ASSUME NEW a, ForestOK(a), MemoSound(a), NEW op \in SetOp \cup RelOp, NEW args, NEW l, NEW r,
         Sound(a, op, args, l, r)
  PROVE  LET b == Remember(a, Key(op, args, l), r)
         IN Continues(a, b) /\ Live(a) \subseteq Live(b) /\ MemoSound(b)
<1> DEFINE key == Key(op, args, l)
           b == Remember(a, key, r)
<1>1. r \in Live(a) /\ Among(args) \subseteq Live(a) /\ DOMAIN args = DOMAIN Takes(op)
  BY SoundLives DEF Sound, Proper
<1>2. {key[2], key[3], r} \subseteq Live(a)
  <2>1. 0 \in Live(a)
    BY DEF ForestOK, ArenaOK, TerminalsInPlace, Terminals, Zero
  <2>2. \A k \in DOMAIN args : args[k] \in Live(a)
    BY <1>1 DEF Among
  <2> HIDE DEF key
  <2>3. /\ key[2] = args[1]
        /\ DOMAIN args = {1} => key[3] = 0
        /\ DOMAIN args # {1} => key[3] = args[2]
        /\ DOMAIN args = {1} \/ DOMAIN args = {1, 2}
    BY <1>1, KeyFor DEF key
  <2> QED BY <1>1, <2>1, <2>2, <2>3
<1>3. b.domains = a.domains /\ b.memo = Extend(a.memo, key, r)
  <2>1. PICK d, ns, f, t, m, u : a = Forest(d, ns, f, t, m, u)
    BY DEF ForestOK, ForestType
  <2> HIDE DEF key
  <2> QED BY <2>1 DEF Remember, Forest
<1> HIDE DEF key
<1>4. ForestOK(b) /\ Preserves(a, b)
  BY <1>2, RememberOK
<1>5. Continues(a, b) /\ Live(a) \subseteq Live(b)
  BY <1>3, <1>4, PreservedContinues
<1> HIDE DEF b
<1>6. ASSUME NEW k \in DOMAIN b.memo
      PROVE  \E o \in SetOp \cup RelOp : \E as, m :
               k = Key(o, as, m) /\ Sound(b, o, as, m, b.memo[k])
  <2>1. CASE k = key
    <3>1. b.memo[k] = r
      BY <1>3, <2>1 DEF Extend
    <3> QED BY <1>5, <2>1, <3>1, GrownKeeps DEF key
  <2>2. CASE k # key
    <3>1. k \in DOMAIN a.memo /\ b.memo[k] = a.memo[k]
      BY <1>3, <2>2 DEF Extend
    <3> QED BY <1>5, <3>1, GrownKeeps DEF MemoSound
  <2> QED BY <2>1, <2>2
<1> QED BY <1>5, <1>6 DEF MemoSound, b, key

LEMMA ContinuesOn ==
  ASSUME NEW a, NEW b, NEW c, Continues(a, b), Live(a) \subseteq Live(b),
         Continues(b, c), Live(b) \subseteq Live(c)
  PROVE  Continues(a, c) /\ Live(a) \subseteq Live(c)
  BY DEF Continues, Redeclares, Levels

(* What a call that returns leaves behind.                                 *)
LEMMA ReturnKeeps ==
  ASSUME NEW a, NEW b, Continues(a, b), Live(a) \subseteq Live(b), NEW K, KnownOK(a, K),
         NEW op, NEW args, NEW l, NEW r, Sound(b, op, args, l, r)
  PROVE  KnownOK(b, K \cup {<<op, args, l, r>>})
<1>1. KnownOK(b, K)
  BY GrownKeeps
<1> DEFINE q == <<op, args, l, r>>
<1>2. q[1] = op /\ q[2] = args /\ q[3] = l /\ q[4] = r
  OBVIOUS
<1> HIDE DEF q
<1> QED BY <1>1, <1>2 DEF KnownOK, q

LEMMA FinishedKeeps ==
  ASSUME NEW a, ForestOK(a), MemoSound(a), NEW K, KnownOK(a, K), NEW op \in Algebra, NEW args, NEW l,
         NEW r, NEW b, Continues(a, b), Live(a) \subseteq Live(b), b.memo = a.memo,
         Sound(b, op, args, l, r)
  PROVE  LET c == IF op = "boundary" THEN b ELSE Remember(b, Key(op, args, l), r)
         IN ForestOK(c) /\ MemoSound(c) /\ KnownOK(c, K \cup {<<op, args, l, r>>})
<1> DEFINE c == IF op = "boundary" THEN b ELSE Remember(b, Key(op, args, l), r)
<1>0. ForestOK(b) /\ MemoSound(b)
  BY GrownKeeps DEF Continues
<1>1. Continues(b, c) /\ Live(b) \subseteq Live(c) /\ MemoSound(c)
  <2>1. CASE op = "boundary"
    BY <1>0, <2>1 DEF Continues, Redeclares
  <2>2. CASE op # "boundary"
    BY <1>0, <2>2, RememberKeeps DEF Algebra
  <2> QED BY <2>1, <2>2
<1> HIDE DEF c
<1>2. Sound(c, op, args, l, r)
  BY <1>1, GrownKeeps
<1>3. Continues(a, c) /\ Live(a) \subseteq Live(c)
  BY <1>1, ContinuesOn
<1> QED BY <1>1, <1>2, <1>3, ReturnKeeps DEF Continues, c

(* A call keeps the invariant, by whichever way it ends.                   *)
LEMMA ReturnedSound ==
  ASSUME KnownOK(forest, known)
  PROVE  \A op, args, l, r : Returned(op, args, l, r) => Sound(forest, op, args, l, r)
<1> SUFFICES ASSUME NEW op, NEW args, NEW l, NEW r, Returned(op, args, l, r)
             PROVE  Sound(forest, op, args, l, r)
  OBVIOUS
<1> DEFINE q == <<op, args, l, r>>
<1>1. q[1] = op /\ q[2] = args /\ q[3] = l /\ q[4] = r /\ q \in known
  BY DEF Returned
<1> HIDE DEF q
<1> QED BY <1>1 DEF KnownOK

KeptOK == ForestOK(forest') /\ MemoSound(forest') /\ KnownOK(forest', known')

LEMMA SoundReturn ==
  ASSUME ForestOK(forest), MemoSound(forest), KnownOK(forest, known), UNCHANGED forest,
         NEW op, NEW args, NEW l, NEW r, Return(op, args, l, r), Sound(forest, op, args, l, r)
  PROVE  KeptOK
<1>1. Continues(forest, forest)
  BY DEF Continues, Redeclares
<1> QED BY <1>1, ReturnKeeps DEF Return, KeptOK

LEMMA SoundFinish ==
  ASSUME ForestOK(forest), MemoSound(forest), KnownOK(forest, known),
         NEW op \in Algebra, NEW args, NEW l, NEW r, Finished(op, args, l, r),
         ForestOK(r[2]), Preserves(forest, r[2]), r[2].domains = forest.domains,
         r[2].memo = forest.memo, Sound(r[2], op, args, l, r[1])
  PROVE  KeptOK
<1> DEFINE i == r[1]
           b == r[2]
           c == IF op = "boundary" THEN b ELSE Remember(b, Key(op, args, l), i)
<1>1. forest' = c /\ known' = known \cup {<<op, args, l, i>>}
  BY DEF Finished, Return
<1>2. Continues(forest, b) /\ Live(forest) \subseteq Live(b)
  BY PreservedContinues
<1>3. Sound(b, op, args, l, i) /\ b.memo = forest.memo
  OBVIOUS
<1> HIDE DEF i, b
<1>4. ForestOK(c) /\ MemoSound(c) /\ KnownOK(c, known \cup {<<op, args, l, i>>})
  BY <1>2, <1>3, FinishedKeeps
<1> HIDE DEF c
<1> QED BY <1>1, <1>4 DEF KeptOK

LEMMA ExpandKeeps ==
  ASSUME ForestOK(forest), MemoSound(forest), KnownOK(forest, known),
         NEW op, NEW args, NEW l, Proper(forest, op, args, l), Expand(op, args, l)
  PROVE  KeptOK
<1>0. /\ op \in Algebra /\ Settled(op, args, l) = NoId
      /\ op \in SetOp => l = NoId
  BY DEF Proper, Expand
<1>a. \A p, brgs, m, r : Returned(p, brgs, m, r) => Sound(forest, p, brgs, m, r)
  BY ReturnedSound
<1>1. CASE op \in SetOp /\ ExpandSet(op, args)
  <2> DEFINE top == TopOf(forest, args)
  <2>1. PICK children \in [States(forest, top) -> Live(forest)] :
          /\ \A s \in States(forest, top) :
               Returned(op, Operands(forest, op, args, top, s), NoId, children[s])
          /\ Finished(op, args, NoId, SetNode(forest, top, children))
    BY <1>1 DEF ExpandSet
  <2> DEFINE r == SetNode(forest, top, children)
  <2>2. \A s \in States(forest, top) :
          Sound(forest, op, Operands(forest, op, args, top, s), NoId, children[s])
    BY <1>a, <2>1
  <2>3. Proper(forest, op, args, NoId) /\ Settled(op, args, NoId) = NoId
    BY <1>0, <1>1
  <2>4. ForestOK(r[2]) /\ Preserves(forest, r[2]) /\ Sound(r[2], op, args, NoId, r[1])
    BY <1>1, <2>2, <2>3, ExpandSetSound
  <2>5. r[2].domains = forest.domains /\ r[2].memo = forest.memo
    BY NodeAdds
  <2>6. Finished(op, args, NoId, r)
    BY <2>1
  <2> HIDE DEF r
  <2> QED BY <1>0, <2>4, <2>5, <2>6, SoundFinish
<1>2. CASE op \in Images /\ ExpandImage(op, args, l)
  <2> DEFINE n == forest.domains[l + 1]
  <2>1. PICK into \in [States(forest, l) \X (0 .. n) -> Live(forest)] :
          /\ \A b \in States(forest, l) : into[<<b, 0>>] = Zero
          /\ Gathers(op, args, l, into)
          /\ Finished(op, args, l,
                      SetNode(forest, l, [b \in States(forest, l) |-> into[<<b, n>>]]))
    BY <1>2 DEF ExpandImage
  <2> DEFINE children == [b \in States(forest, l) |-> into[<<b, n>>]]
             r == SetNode(forest, l, children)
  <2>2. \A b, s \in States(forest, l) : \E i :
          /\ Sound(forest, op, ImageOperands(forest, op, args, l, b, s), l - 1, i)
          /\ Sound(forest, "or_set", <<into[<<b, s>>], i>>, NoId, into[<<b, s + 1>>])
    <3> SUFFICES ASSUME NEW b \in States(forest, l), NEW s \in States(forest, l)
                 PROVE  \E i :
                   /\ Sound(forest, op, ImageOperands(forest, op, args, l, b, s), l - 1, i)
                   /\ Sound(forest, "or_set", <<into[<<b, s>>], i>>, NoId, into[<<b, s + 1>>])
      OBVIOUS
    <3>1. PICK i \in Live(forest) :
            /\ Returned(op, ImageOperands(forest, op, args, l, b, s), l - 1, i)
            /\ Returned("or_set", <<into[<<b, s>>], i>>, NoId, into[<<b, s + 1>>])
      BY <2>1 DEF Gathers
    <3> QED BY <1>a, <3>1
  <2>3. ForestOK(r[2]) /\ Preserves(forest, r[2]) /\ Sound(r[2], op, args, l, r[1])
    <3>1. children = [b \in States(forest, l) |-> into[<<b, forest.domains[l + 1]>>]]
      OBVIOUS
    <3>2. Unions(forest, op, args, l, into)
      BY <2>1, <2>2 DEF Unions
    <3> HIDE DEF children
    <3> QED BY <1>0, <1>2, <3>1, <3>2, ExpandImageSound
  <2>4. r[2].domains = forest.domains /\ r[2].memo = forest.memo
    BY NodeAdds
  <2>5. Finished(op, args, l, r)
    BY <2>1
  <2> HIDE DEF r
  <2> QED BY <1>0, <2>3, <2>4, <2>5, SoundFinish
<1>3. CASE op \notin SetOp \cup Images /\ ExpandRel(op, args, l)
  <2>1. PICK block \in [Cells(forest, l) -> Live(forest)] :
          /\ \A c \in Cells(forest, l) :
               Returned(op, Operands(forest, op, args, l, c), l - 1, block[c])
          /\ Finished(op, args, l, RelNode(forest, l, block))
    BY <1>3 DEF ExpandRel
  <2> DEFINE r == RelNode(forest, l, block)
  <2>2. \A c \in Cells(forest, l) :
          Sound(forest, op, Operands(forest, op, args, l, c), l - 1, block[c])
    BY <1>a, <2>1
  <2>3. ForestOK(r[2]) /\ Preserves(forest, r[2]) /\ Sound(r[2], op, args, l, r[1])
    BY <1>0, <1>3, <2>2, ExpandRelSound
  <2>4. r[2].domains = forest.domains /\ r[2].memo = forest.memo
    BY NodeAdds
  <2>5. Finished(op, args, l, r)
    BY <2>1
  <2> HIDE DEF r
  <2> QED BY <1>0, <2>3, <2>4, <2>5, SoundFinish
<1> QED BY <1>1, <1>2, <1>3 DEF Expand

LEMMA CallKeeps ==
  ASSUME ForestOK(forest), MemoSound(forest), KnownOK(forest, known),
         NEW op \in Algebra, NEW args \in [DOMAIN Takes(op) -> Live(forest)],
         NEW l \in LevelsOf(op), Call(op, args, l)
  PROVE  KeptOK
<1>0. Proper(forest, op, args, l)
  <2>1. op \notin SetOp => l \in -1 .. Top(forest) - 1
    BY LeadingUnfold DEF LevelsOf, Levels, Top
  <2> QED BY <2>1 DEF Proper, Call, LevelsOf
<1>1. CASE Swap(op, args, l)
  <2>1. PICK r : Returned(op, Sorted(op, args), l, r) /\ Return(op, args, l, r)
    BY <1>1 DEF Swap
  <2>2. Sorted(op, args) # args /\ UNCHANGED forest
    BY <1>1 DEF Swap
  <2>3. Sound(forest, op, args, l, r)
    BY <1>0, <2>1, <2>2, ReturnedSound, SwappedSound
  <2> QED BY <2>1, <2>2, <2>3, SoundReturn
<1>2. CASE Settle(op, args, l)
  <2>1. Sound(forest, op, args, l, Settled(op, args, l))
    BY <1>0, <1>2, SettledSound DEF Settle
  <2> QED BY <1>2, <2>1, SoundReturn DEF Settle
<1>3. CASE Fill(op, args, l)
  <2>1. Sound(forest, op, args, l, forest.full[l])
    BY <1>0, <1>3, FilledSound DEF Fill
  <2> QED BY <1>3, <2>1, SoundReturn DEF Fill
<1>4. CASE Hit(op, args, l)
  <2>1. Sound(forest, op, args, l, forest.memo[Key(op, args, l)])
    BY <1>0, <1>4, HitSound DEF Hit
  <2> QED BY <1>4, <2>1, SoundReturn DEF Hit
<1>5. CASE Expand(op, args, l)
  BY <1>0, <1>5, ExpandKeeps
<1> QED BY <1>1, <1>2, <1>3, <1>4, <1>5 DEF Call

(* What else is built leaves the tables alone, or empties them.            *)
LEMMA BuildKeepsMemo ==
  ASSUME ForestOK(forest), Build
  PROVE  forest'.memo = forest.memo \/ forest' = ClearCache(forest)
<1>0. PICK d, ns, f, t, m, u : forest = Forest(d, ns, f, t, m, u)
  BY DEF ForestOK, ForestType
<1>1. ASSUME NEW n \in Domain, Declare(n) PROVE forest'.memo = forest.memo
  BY <1>0, <1>1 DEF Declare, DefVar, Forest
<1>2. ASSUME NEW l, NEW children, CreateSetNode(l, children) PROVE forest'.memo = forest.memo
  BY <1>2, NodeAdds DEF CreateSetNode
<1>3. ASSUME NEW l, NEW block, CreateRelNode(l, block) PROVE forest'.memo = forest.memo
  BY <1>3, NodeAdds DEF CreateRelNode
<1>4. ASSUME NEW l \in Levels(forest), FullRelation(l) PROVE forest'.memo = forest.memo
  <2>1. CASE l \in DOMAIN forest.full
    BY <1>4, <2>1 DEF FullRelation, FullStep
  <2>2. CASE l \notin DOMAIN forest.full
    <3> DEFINE r == FullNode(forest, l)
    <3>1. forest' = KeepFull(l, r)
      BY <1>4, <2>2 DEF FullRelation, FullStep
    <3>2. r[2].memo = forest.memo
      BY NodeAdds DEF FullNode
    <3>3. Edged(forest, "rel", l, [c \in Cells(forest, l) |-> Below(forest, l)])
      <4>1. Fits(forest, Below(forest, l), "rel", l)
        BY <1>4, BelowFits DEF FullRelation
      <4> QED BY <4>1 DEF Edged
    <3>4. \E d2, ns2, f2, t2, m2, u2 : r[2] = Forest(d2, ns2, f2, t2, m2, u2)
      BY <3>3, RelNodeOK DEF FullNode, ForestOK, ForestType
    <3> HIDE DEF r
    <3>5. forest'.memo = r[2].memo
      BY <3>1, <3>4 DEF KeepFull, Forest
    <3> QED BY <3>2, <3>5
  <2> QED BY <2>1, <2>2
<1> QED BY <1>1, <1>2, <1>3, <1>4 DEF Build

LEMMA BuildKeeps ==
  ASSUME EngineInv, MemoSound(forest), KnownOK(forest, known), Idle, UNCHANGED tracing, Build
  PROVE  KeptOK
<1>0. ForestOK(forest) /\ known' = known
  BY DEF EngineInv, Build
<1>1. EngineStep
  BY DEF EngineStep, Build
<1>2. ForestOK(forest') /\ Preserves(forest, forest') /\ Redeclares(forest, forest')
  BY <1>0, <1>1, StepKeeps, NextRedeclares DEF EngineNext
<1>3. Continues(forest, forest') /\ Live(forest) \subseteq Live(forest')
  BY <1>0, <1>2 DEF Continues, Preserves
<1>4. MemoSound(forest')
  <2>1. CASE forest'.memo = forest.memo
    BY <1>3, <2>1, GrownKeeps
  <2>2. CASE forest' = ClearCache(forest)
    <3>1. PICK d, ns, f, t, m, u : forest = Forest(d, ns, f, t, m, u)
      BY <1>0 DEF ForestOK, ForestType
    <3>2. DOMAIN forest'.memo = {}
      BY <2>2, <3>1 DEF ClearCache, Forest
    <3> QED BY <3>2 DEF MemoSound
  <2> QED BY <1>0, <2>1, <2>2, BuildKeepsMemo
<1> QED BY <1>0, <1>2, <1>3, <1>4, GrownKeeps DEF KeptOK

(* A collection forgets what it gives away and spares all that names what  *)
(* it keeps.                                                               *)
LEMMA SweepKeepsSound ==
  ASSUME EngineInv, MemoSound(forest), KnownOK(forest, known), Sweep,
         known' = {q \in known : q[4] \in marked /\ Among(q[2]) \subseteq marked}
  PROVE  KeptOK
<1>0. ForestOK(forest)
  BY DEF EngineInv
<1>1. ForestOK(forest') /\ Live(forest') = marked /\ \A i : At(forest', i) = At(forest, i)
  BY SweepKeeps
<1>2. /\ forest'.domains = forest.domains
      /\ forest'.memo = RestrictTo(forest.memo, SetEntries(forest, marked))
  <2>1. PICK d, ns, f, t, m, u : forest = Forest(d, ns, f, t, m, u)
    BY <1>0 DEF ForestOK, ForestType
  <2> QED BY <2>1 DEF Sweep, Swept, Forest
<1>3. Continues(forest, forest')
  BY <1>0, <1>1, <1>2 DEF Continues, Redeclares, Levels
<1>4. KnownOK(forest', known')
  BY <1>1, <1>3, SoundKept DEF KnownOK
<1>5. ASSUME NEW key \in DOMAIN forest'.memo
      PROVE  \E op \in SetOp \cup RelOp : \E args, l :
               key = Key(op, args, l) /\ Sound(forest', op, args, l, forest'.memo[key])
  <2>1. /\ key \in DOMAIN forest.memo /\ key[1] \in SetOp
        /\ {key[2], key[3], forest.memo[key]} \subseteq marked
        /\ forest'.memo[key] = forest.memo[key]
    BY <1>2 DEF RestrictTo, SetEntries
  <2>2. PICK op, args, l :
          /\ op \in SetOp \cup RelOp
          /\ key = Key(op, args, l) /\ Sound(forest, op, args, l, forest.memo[key])
    BY <2>1 DEF MemoSound
  <2>3. DOMAIN args = DOMAIN Takes(op)
    BY <2>2 DEF Sound, Proper
  <2>4. /\ key[2] = args[1]
        /\ DOMAIN args # {1} => key[3] = args[2]
        /\ DOMAIN args = {1} \/ DOMAIN args = {1, 2}
    BY <2>2, <2>3, KeyFor
  <2>5. Among(args) \subseteq marked
    BY <2>1, <2>4 DEF Among
  <2> QED BY <1>1, <1>3, <2>1, <2>2, <2>5, SoundKept
<1> QED BY <1>1, <1>4, <1>5 DEF KeptOK, MemoSound

LEMMA AlgebraInitHolds == AlgebraInit => AlgebraInv
<1> SUFFICES ASSUME AlgebraInit PROVE AlgebraInv
  OBVIOUS
<1>1. EngineInv
  BY InitHolds DEF AlgebraInit
<1>2. DOMAIN forest.memo = {} /\ known = {}
  BY DEF AlgebraInit, EngineInit, NewForest
<1> QED BY <1>1, <1>2 DEF AlgebraInv, MemoSound, KnownOK

LEMMA AlgebraNextKeeps == AlgebraInv /\ [AlgebraNext]_algebra => AlgebraInv'
<1> SUFFICES ASSUME AlgebraInv, [AlgebraNext]_algebra PROVE AlgebraInv'
  OBVIOUS
<1>0. /\ EngineInv /\ ForestOK(forest) /\ TraceInv
      /\ MemoSound(forest) /\ KnownOK(forest, known)
  BY DEF AlgebraInv, EngineInv
<1>1. CASE Work
  <2>1. KeptOK
    <3>1. CASE Build
      BY <1>0, <1>1, <3>1, BuildKeeps DEF Work
    <3>2. CASE ~ Build
      BY <1>0, <1>1, <3>2, CallKeeps DEF Work
    <3> QED BY <3>1, <3>2
  <2>2. marked' = {} /\ grey' = {}
    BY <1>1 DEF Work, Idle, tracing
  <2> QED BY <2>1, <2>2 DEF KeptOK, AlgebraInv, EngineInv, TraceInv
<1>2. CASE Collection
  <2>1. EngineInv'
    BY <1>0, <1>2, NextKeeps DEF Collection, EngineNext
  <2>2. CASE UNCHANGED <<forest, known>>
    BY <1>0, <2>1, <2>2 DEF AlgebraInv
  <2>3. CASE Sweep /\ known' = {q \in known : q[4] \in marked /\ Among(q[2]) \subseteq marked}
    BY <1>0, <2>1, <2>3, SweepKeepsSound DEF KeptOK, AlgebraInv
  <2> QED BY <1>2, <2>2, <2>3 DEF Collection, Mark
<1>3. CASE UNCHANGED algebra
  BY <1>0, <1>3 DEF algebra, AlgebraInv, EngineInv, TraceInv
<1> QED BY <1>1, <1>2, <1>3 DEF AlgebraNext

LEMMA AlgebraInvHolds == AlgebraSpec => []AlgebraInv
<1> QED BY AlgebraInitHolds, AlgebraNextKeeps, PTL DEF AlgebraSpec

----------------------------------------------------------------------------
(* What a call returned answers it (mxd_ops.rs: the recursion of every     *)
(* operation; mxd.rs: boundary's own table).                               *)
LEMMA SoundAnswers ==
  ASSUME NEW a, ForestOK(a), NEW op, NEW args, NEW l, NEW r, Sound(a, op, args, l, r)
  PROVE  Answers(AllReadings(a), a.domains, Depth(a, op, l), op, args, r)
<1>1. Depth(a, op, l) \in Depths(a, op, l) /\ Depth(a, op, l) \in 0 .. Top(a)
  BY LeadingUnfold DEF Depth, Depths, Top, Sound, Proper
<1> QED BY <1>1, RightAnswers DEF Sound, Proper

(* Every operation on sets and relations answers what its definition says  *)
(* (mxd_ops.rs: and_set .. boundary_at, mxd.rs: full_relation, gc,         *)
(* clear_cache): whichever way a call ends, by a terminal case, a hit of a *)
(* computed table or its own recursion, and whatever has been declared,    *)
(* built, cleared, collected and recycled in between.                      *)
THEOREM ResultsAreExact == AlgebraSpec => []KnownSound
<1>1. AlgebraInv => KnownSound
  <2> SUFFICES ASSUME AlgebraInv PROVE KnownSound
    OBVIOUS
  <2> QED BY SoundAnswers DEF AlgebraInv, EngineInv, KnownOK, KnownSound
<1> QED BY <1>1, AlgebraInvHolds, PTL

(* The tables never lie (mxd.rs: set_cache, rel_cache, full_rel, gc,       *)
(* clear_cache): an entry answers the operation in its key, a relation's at*)
(* the level in its key, and a memoised full relation is full, as long as  *)
(* it is there to be hit.                                                  *)
THEOREM TablesAreExact == AlgebraSpec => []TablesExact
<1>1. AlgebraInv => TablesExact
  <2> SUFFICES ASSUME ForestOK(forest), MemoSound(forest) PROVE TablesExact
    BY DEF AlgebraInv, EngineInv
  <2> DEFINE read == AllReadings(forest)
             d == forest.domains
  <2>1. ASSUME NEW key \in DOMAIN forest.memo
        PROVE  Answers(read, d, IF key[1] \in SetOp THEN Len(d) ELSE key[4] + 1,
                       key[1], Given(key), forest.memo[key])
    <3>1. PICK op, args, l :
            /\ op \in SetOp \cup RelOp
            /\ key = Key(op, args, l) /\ Sound(forest, op, args, l, forest.memo[key])
      BY DEF MemoSound
    <3>2. args = [k \in DOMAIN Takes(op) |-> args[k]] /\ DOMAIN args = DOMAIN Takes(op)
      BY <3>1 DEF Sound, Proper
    <3>3. /\ key[1] = op /\ key[2] = args[1]
          /\ DOMAIN args # {1} => key[3] = args[2]
          /\ op \notin SetOp => key[4] = l
          /\ DOMAIN args = {1} \/ DOMAIN args = {1, 2}
      BY <3>1, <3>2, KeyFor
    <3>4. Given(key) = args
      <4>1. \A k \in DOMAIN Takes(op) : key[k + 1] = args[k]
        BY <3>2, <3>3
      <4>2. Given(key) = [k \in DOMAIN Takes(op) |-> key[k + 1]]
        BY <3>3 DEF Given
      <4> QED BY <3>2, <4>1, <4>2
    <3>5. (IF key[1] \in SetOp THEN Len(d) ELSE key[4] + 1) = Depth(forest, op, l)
      BY <3>3 DEF Depth
    <3> QED BY <3>1, <3>3, <3>4, <3>5, SoundAnswers
  <2>2. ASSUME NEW l \in DOMAIN forest.full
        PROVE  FamilyIn(read, "rel", l + 1, forest.full[l]) = Pairs(d)
    <3>0. l \in Levels(forest) /\ Top(forest) \in Nat
      BY LeadingUnfold DEF ForestOK, ArenaOK, FullExact
    <3>1. l + 1 \in 0 .. Top(forest)
      BY <3>0 DEF Levels, Top
    <3>2. \A p \in Pairs(d) : Leads(forest, forest.full[l], l + 1, p[1], p[2])
      BY FullLeads DEF Leads, Pairs
    <3> DEFINE n == l + 1
               i == forest.full[l]
    <3>3. n \in 0 .. Top(forest) /\ \A p \in Pairs(d) : Leads(forest, i, n, p[1], p[2])
      BY <3>1, <3>2
    <3> HIDE DEF n, i
    <3>4. \A p : p \in FamilyIn(read, "rel", n, i) <=> p \in Pairs(d) /\ Leads(forest, i, n, p[1], p[2])
      BY <3>3, FamilyReads
    <3>5. FamilyIn(read, "rel", n, i) = Pairs(d)
      BY <3>3, <3>4
    <3> QED BY <3>5 DEF n, i
  <2> QED BY <2>1, <2>2 DEF TablesExact
<1> QED BY <1>1, AlgebraInvHolds, PTL
=============================================================================
