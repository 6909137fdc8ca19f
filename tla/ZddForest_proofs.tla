-------------------------- MODULE ZddForest_proofs --------------------------
(***************************************************************************)
(* Theorems about the arena of set families, for every number of headers   *)
(* and nodes, every history of operations and every moment of collection.  *)
(***************************************************************************)
EXTENDS ZddEngine, SlotLemmas, TLAPS

(* The shape of a forest; what its edges lead to follows from ArenaOK.     *)
IsNode(n) == n = [header |-> n.header, low |-> n.low, high |-> n.high]
Forest(hs, n, f, t, m) == [headers |-> hs, nodes |-> n, free |-> f, table |-> t, memo |-> m]

ForestType(a) ==
  /\ \E hs, n, f, t, m : a = Forest(hs, n, f, t, m)
  /\ a.headers \in Seq([level : Nat, label : Label])
  /\ \E S : a.nodes \in Seq(S)
  /\ a.free \subseteq Slots(a)
  /\ \A i \in Inner(a) : IsNode(At(a, i))

(* The inductive invariant.                                                *)
ForestOK(a) == ForestType(a) /\ ArenaOK(a)

(* b holds what a holds, in the same slots, and maybe more.                *)
Preserves(a, b) ==
  /\ Live(a) \subseteq Live(b)
  /\ \A i \in Live(a) : At(b, i) = At(a, i)

SameHeaders(a, b) ==
  /\ Headers(a) \subseteq Headers(b)
  /\ \A h \in Headers(a) : HeaderLevel(b, h) = HeaderLevel(a, h)

----------------------------------------------------------------------------
LEMMA SlotFacts ==
  ASSUME NEW a, ForestType(a)
  PROVE  /\ Len(a.nodes) \in Nat /\ Len(a.headers) \in Nat
         /\ Slots(a) \subseteq Nat /\ Live(a) \subseteq Slots(a)
         /\ Inner(a) \subseteq Live(a) /\ Inner(a) \cap Terminals = {}
  BY DEF ForestType, Slots, Live, Inner

(* The slot taken next is not in use.                                      *)
LEMMA NewSlotIsFree ==
  ASSUME NEW a, ForestType(a)
  PROVE  /\ NewSlot(a) \in Nat
         /\ a.free = {} => NewSlot(a) = Len(a.nodes)
         /\ a.free # {} => NewSlot(a) \in a.free
<1>1. Len(a.nodes) \in Nat /\ a.free \in SUBSET (0 .. Len(a.nodes) - 1)
  BY SlotFacts DEF ForestType, Slots
<1>2. CASE a.free = {}
  BY <1>1, <1>2 DEF NewSlot
<1>3. CASE a.free # {}
  <2>1. \E m \in a.free : \A j \in a.free : j <= m
    BY <1>1, <1>3, MaxExists
  <2>2. Max(a.free) \in a.free
    BY <1>1, <2>1 DEF Max
  <2> QED BY <1>1, <1>3, <2>2 DEF NewSlot
<1> QED BY <1>2, <1>3

(* Storing a node adds its slot to those in use and moves no other.        *)
LEMMA StoreNode ==
  ASSUME NEW a, ForestType(a), NEW n, IsNode(n)
  PROVE  LET s == NewSlot(a)
             b == Store(a, n, s)
         IN /\ ForestType(b)
            /\ s \notin Live(a)
            /\ Live(b) = Live(a) \cup {s}
            /\ At(b, s) = n
            /\ \A i \in Live(a) : At(b, i) = At(a, i)
            /\ b.headers = a.headers /\ b.memo = a.memo
            /\ b.table = Extend(a.table, n, s)
<1> DEFINE s == NewSlot(a)
           b == Store(a, n, s)
           more == IF a.free = {} THEN Append(a.nodes, n) ELSE [a.nodes EXCEPT ![s + 1] = n]
<1>1. /\ Len(a.nodes) \in Nat
      /\ s \in Nat /\ (a.free = {} => s = Len(a.nodes)) /\ (a.free # {} => s \in a.free)
  BY SlotFacts, NewSlotIsFree
<1>2. PICK S : a.nodes \in Seq(S)
  BY DEF ForestType
<1>3. /\ more \in Seq(S \cup {n})
      /\ Len(more) = IF a.free = {} THEN Len(a.nodes) + 1 ELSE Len(a.nodes)
      /\ more[s + 1] = n
      /\ \A i \in Slots(a) \ {s} : more[i + 1] = a.nodes[i + 1]
  <2>1. a.nodes \in Seq(S \cup {n})
    BY <1>2
  <2>2. CASE a.free = {}
    BY <1>1, <2>1, <2>2 DEF Slots
  <2>3. CASE a.free # {}
    <3>1. s + 1 \in 1 .. Len(a.nodes)
      BY <1>1, <2>3 DEF ForestType, Slots
    <3> QED BY <1>1, <2>1, <2>3, <3>1 DEF Slots
  <2> QED BY <2>2, <2>3
<1>4. /\ b.headers = a.headers /\ b.nodes = more /\ b.free = a.free \ {s}
      /\ b.table = Extend(a.table, n, s) /\ b.memo = a.memo
      /\ \E hs, ns, f, t, m : b = Forest(hs, ns, f, t, m)
  <2>1. PICK hs, ns, f, t, m : a = Forest(hs, ns, f, t, m)
    BY DEF ForestType
  <2>2. a.headers = hs /\ a.free = f /\ a.table = t /\ a.memo = m
    BY <2>1 DEF Forest
  <2> DEFINE y == f \ {s}
             z == Extend(t, n, s)
  <2>3. b = [a EXCEPT !.nodes = more, !.free = y, !.table = z]
    BY <2>2, Zenon DEF Store
  <2> HIDE DEF more, s, b, y, z
  <2>4. b = Forest(hs, more, y, z, m)
    <3>1. [a EXCEPT !.nodes = more] = Forest(hs, more, f, t, m)
      BY <2>1 DEF Forest
    <3>2. [Forest(hs, more, f, t, m) EXCEPT !.free = y] = Forest(hs, more, y, t, m)
      BY DEF Forest
    <3>3. [Forest(hs, more, y, t, m) EXCEPT !.table = z] = Forest(hs, more, y, z, m)
      BY DEF Forest
    <3> QED BY <2>3, <3>1, <3>2, <3>3, Zenon
  <2> QED BY <2>2, <2>4 DEF Forest, y, z
<1> HIDE DEF more, b, s
<1>5. Slots(b) = Slots(a) \cup {s}
  <2>1. CASE a.free = {}
    BY <1>1, <1>3, <1>4, <2>1 DEF Slots
  <2>2. CASE a.free # {}
    BY <1>1, <1>3, <1>4, <2>2 DEF Slots, ForestType
  <2> QED BY <2>1, <2>2
<1>6. s \notin Live(a) /\ Live(b) = Live(a) \cup {s}
  BY <1>1, <1>4, <1>5 DEF Live, Slots, ForestType
<1>7. At(b, s) = n /\ \A i \in Live(a) : At(b, i) = At(a, i)
  BY <1>3, <1>4, <1>6 DEF At, Live
<1>8. ForestType(b)
  <2>1. b.free \subseteq Slots(b)
    BY <1>4, <1>5 DEF ForestType
  <2>2. \E T : b.nodes \in Seq(T)
    BY <1>3, <1>4
  <2>3. \A i \in Inner(b) : IsNode(At(b, i))
    BY <1>6, <1>7 DEF ForestType, Inner
  <2> QED BY <1>4, <2>1, <2>2, <2>3 DEF ForestType
<1> QED BY <1>4, <1>6, <1>7, <1>8 DEF b, s

----------------------------------------------------------------------------
(* What is preserved when nodes and headers stay where they are.           *)

LEMMA FitsKept ==
  ASSUME NEW a, NEW b, WellFormed(a), Preserves(a, b), SameHeaders(a, b)
  PROVE  /\ \A i \in Live(a) : Level(b, i) = Level(a, i)
         /\ \A i, l : Fits(a, i, l) => Fits(b, i, l)
<1>1. ASSUME NEW i \in Live(a) PROVE Level(b, i) = Level(a, i)
  <2>1. CASE i \in Terminals
    BY <2>1 DEF Level
  <2>2. CASE i \notin Terminals
    <3>1. At(a, i).header \in Headers(a)
      BY <2>2 DEF WellFormed, Inner
    <3> QED BY <2>2, <3>1 DEF Preserves, SameHeaders, Level
  <2> QED BY <2>1, <2>2
<1> QED BY <1>1 DEF Preserves, Fits

(* A node of b that was already in a.                                      *)
LEMMA NodeKept ==
  ASSUME NEW a, NEW b, WellFormed(a), Preserves(a, b), SameHeaders(a, b), NEW i \in Inner(a)
  PROVE  /\ At(b, i).header \in Headers(b)
         /\ Fits(b, Low(b, i), Level(b, i)) /\ Fits(b, High(b, i), Level(b, i))
<1>1. i \in Live(a)
  BY DEF Inner
<1>2. At(b, i) = At(a, i) /\ Level(b, i) = Level(a, i)
  BY <1>1, FitsKept DEF Preserves
<1>3. /\ At(a, i).header \in Headers(a)
      /\ Fits(a, Low(a, i), Level(a, i)) /\ Fits(a, High(a, i), Level(a, i))
  BY DEF WellFormed
<1>4. Fits(b, Low(a, i), Level(a, i)) /\ Fits(b, High(a, i), Level(a, i))
  BY <1>3, FitsKept
<1> QED BY <1>2, <1>3, <1>4 DEF SameHeaders, Low, High

(* A change of the headers or of the computed table alone.                 *)
LEMMA NodesStayOK ==
  ASSUME NEW a, NEW b, ForestOK(a), SameHeaders(a, b), MemoLive(b),
         b.nodes = a.nodes, b.free = a.free, b.table = a.table,
         b.headers \in Seq([level : Nat, label : Label]),
         \E hs, n, f, t, m : b = Forest(hs, n, f, t, m)
  PROVE  ForestOK(b) /\ Preserves(a, b)
<1>0. TerminalsInPlace(a) /\ WellFormed(a) /\ Suppressed(a) /\ TableExact(a)
  BY DEF ForestOK, ArenaOK
<1>1. /\ Slots(b) = Slots(a) /\ Live(b) = Live(a) /\ Inner(b) = Inner(a)
      /\ \A i : At(b, i) = At(a, i)
  BY DEF Slots, Live, Inner, At
<1>2. Preserves(a, b)
  BY <1>1 DEF Preserves
<1>3. ForestType(b)
  BY <1>1 DEF ForestOK, ForestType
<1>4. TerminalsInPlace(b) /\ Suppressed(b) /\ TableExact(b)
  BY <1>0, <1>1 DEF TerminalsInPlace, Suppressed, TableExact, High
<1>5. WellFormed(b)
  BY <1>0, <1>1, <1>2, NodeKept DEF WellFormed
<1> QED BY <1>2, <1>3, <1>4, <1>5 DEF ForestOK, ArenaOK

----------------------------------------------------------------------------
(* The steps.                                                              *)

LEMMA NewForestOK == ForestOK(NewForest)
<1> DEFINE a == NewForest
<1>1. /\ a.headers = <<>> /\ a.nodes = <<Terminal, Terminal, Terminal>> /\ a.free = {}
      /\ DOMAIN a.table = {} /\ DOMAIN a.memo = {}
      /\ \E hs, n, f, t, m : a = Forest(hs, n, f, t, m)
  BY DEF NewForest, Forest
<1> HIDE DEF a
<1>3. Slots(a) = 0 .. 2 /\ Live(a) = 0 .. 2 /\ Terminals = 0 .. 2
  <2>1. Len(a.nodes) = 3
    BY <1>1
  <2>2. Slots(a) = 0 .. 2
    BY <2>1 DEF Slots
  <2>3. Terminals = 0 .. 2
    BY DEF Terminals, Zero, One, Undet
  <2> QED BY <1>1, <2>2, <2>3 DEF Live
<1>4. \A i \in 0 .. 2 : At(a, i) = Terminal
  BY <1>1 DEF At
<1>5. Inner(a) = {}
  BY <1>3 DEF Inner
<1>2. ForestType(a)
  <2>1. \E S : a.nodes \in Seq(S)
    <3>1. a.nodes \in Seq({Terminal})
      BY <1>1
    <3> QED BY <3>1
  <2> QED BY <1>1, <1>5, <2>1 DEF ForestType
<1>6. ArenaOK(a)
  BY <1>1, <1>3, <1>4, <1>5
  DEF ArenaOK, TerminalsInPlace, WellFormed, Suppressed, TableExact, MemoLive
<1> QED BY <1>2, <1>6 DEF ForestOK, a

LEMMA CreateHeaderOK ==
  ASSUME NEW a, ForestOK(a), NEW l \in Nat, NEW label \in Label
  PROVE  ForestOK(CreateHeader(a, l, label)) /\ Preserves(a, CreateHeader(a, l, label))
<1> DEFINE x == [level |-> l, label |-> label]
           more == Append(a.headers, x)
           b == CreateHeader(a, l, label)
<1>1. /\ b.headers = more /\ b.nodes = a.nodes /\ b.free = a.free
      /\ b.table = a.table /\ b.memo = a.memo
      /\ \E hs, n, f, t, m : b = Forest(hs, n, f, t, m)
  <2>1. PICK hs, n, f, t, m : a = Forest(hs, n, f, t, m)
    BY DEF ForestOK, ForestType
  <2>2. b = [a EXCEPT !.headers = more]
    BY DEF CreateHeader
  <2> HIDE DEF more, b
  <2>3. b = Forest(more, n, f, t, m)
    BY <2>1, <2>2 DEF Forest
  <2> QED BY <2>1, <2>3 DEF Forest
<1>2. x \in [level : Nat, label : Label]
  OBVIOUS
<1> HIDE DEF b, x
<1>3. /\ a.headers \in Seq([level : Nat, label : Label])
      /\ more \in Seq([level : Nat, label : Label]) /\ Len(more) = Len(a.headers) + 1
      /\ \A k \in 1 .. Len(a.headers) : more[k] = a.headers[k]
  BY <1>2 DEF ForestOK, ForestType
<1> HIDE DEF more
<1>4. SameHeaders(a, b)
  <2>1. Len(a.headers) \in Nat
    BY <1>3
  <2>2. Headers(a) \subseteq Headers(b)
    BY <1>1, <1>3, <2>1 DEF Headers
  <2>3. \A h \in Headers(a) : h + 1 \in 1 .. Len(a.headers)
    BY <2>1 DEF Headers
  <2> QED BY <1>1, <1>3, <2>2, <2>3 DEF SameHeaders, HeaderLevel
<1>5. MemoLive(b)
  BY <1>1 DEF ForestOK, ArenaOK, MemoLive, Live, Slots
<1> QED BY <1>1, <1>3, <1>4, <1>5, NodesStayOK DEF b

(* A node whose high edge is not Zero, below which its children fit: its   *)
(* slot is returned, and nothing else changes.                             *)
LEMMA HashConsOK ==
  ASSUME NEW a, ForestOK(a), NEW h \in Headers(a), NEW low, NEW high,
         Fits(a, low, HeaderLevel(a, h)), Fits(a, high, HeaderLevel(a, h)), high # Zero
  PROVE  LET n == [header |-> h, low |-> low, high |-> high]
             r == HashCons(a, n)
         IN ForestOK(r[2]) /\ Preserves(a, r[2]) /\ r[1] \in Inner(r[2]) /\ At(r[2], r[1]) = n
<1> DEFINE n == [header |-> h, low |-> low, high |-> high]
           r == HashCons(a, n)
<1>0. /\ ForestType(a) /\ TerminalsInPlace(a) /\ WellFormed(a) /\ Suppressed(a)
      /\ TableExact(a) /\ MemoLive(a)
  BY DEF ForestOK, ArenaOK
<1>a. n.header = h /\ n.low = low /\ n.high = high /\ IsNode(n)
  BY DEF IsNode
<1> HIDE DEF n
<1>1. CASE n \in DOMAIN a.table
  <2>1. r[1] = a.table[n] /\ r[2] = a
    BY <1>1 DEF HashCons
  <2>2. a.table[n] \in Inner(a) /\ At(a, a.table[n]) = n
    BY <1>0, <1>1 DEF TableExact
  <2>3. Preserves(a, a)
    BY DEF Preserves
  <2> QED BY <2>1, <2>2, <2>3 DEF n
<1>2. CASE n \notin DOMAIN a.table
  <2> DEFINE s == NewSlot(a)
             b == Store(a, n, s)
  <2>1. r[1] = s /\ r[2] = b
    BY <1>2 DEF HashCons
  <2>2. /\ ForestType(b) /\ s \notin Live(a) /\ Live(b) = Live(a) \cup {s}
        /\ At(b, s) = n /\ \A i \in Live(a) : At(b, i) = At(a, i)
        /\ b.headers = a.headers /\ b.memo = a.memo
        /\ b.table = Extend(a.table, n, s)
    BY <1>0, <1>a, StoreNode
  <2> HIDE DEF s, b
  <2>3. Preserves(a, b) /\ SameHeaders(a, b)
    BY <2>2 DEF Preserves, SameHeaders, Headers, HeaderLevel
  <2>4. TerminalsInPlace(b) /\ Inner(b) = Inner(a) \cup {s} /\ s \notin Terminals
    BY <1>0, <2>2 DEF TerminalsInPlace, Inner
  <2>5. WellFormed(b)
    <3>1. /\ At(b, s).header \in Headers(b)
          /\ Fits(b, Low(b, s), Level(b, s)) /\ Fits(b, High(b, s), Level(b, s))
      <4>1. At(b, s).header = h /\ Low(b, s) = low /\ High(b, s) = high
        BY <1>a, <2>2 DEF Low, High
      <4>2. Level(b, s) = HeaderLevel(a, h) /\ h \in Headers(b)
        BY <2>3, <2>4, <4>1 DEF Level, SameHeaders
      <4>3. Fits(b, low, HeaderLevel(a, h)) /\ Fits(b, high, HeaderLevel(a, h))
        BY <1>0, <2>3, FitsKept
      <4> QED BY <4>1, <4>2, <4>3
    <3>2. \A i \in Inner(a) :
            /\ At(b, i).header \in Headers(b)
            /\ Fits(b, Low(b, i), Level(b, i)) /\ Fits(b, High(b, i), Level(b, i))
      BY <1>0, <2>3, NodeKept
    <3> QED BY <2>4, <3>1, <3>2 DEF WellFormed
  <2>6. Suppressed(b)
    BY <1>0, <1>a, <2>2, <2>4 DEF Suppressed, High, Inner
  <2>7. TableExact(b)
    <3>1. DOMAIN b.table = DOMAIN a.table \cup {n} /\ b.table[n] = s
          /\ \A x \in DOMAIN a.table : b.table[x] = a.table[x]
      BY <1>2, <2>2 DEF Extend
    <3>2. \A i \in Inner(b) : At(b, i) \in DOMAIN b.table /\ b.table[At(b, i)] = i
      BY <1>0, <2>2, <2>4, <3>1 DEF TableExact, Inner
    <3>3. \A x \in DOMAIN b.table : b.table[x] \in Inner(b) /\ At(b, b.table[x]) = x
      BY <1>0, <2>2, <2>4, <3>1 DEF TableExact, Inner
    <3> QED BY <3>2, <3>3 DEF TableExact
  <2>8. MemoLive(b)
    BY <1>0, <2>2 DEF MemoLive
  <2>9. s \in Inner(b)
    BY <2>4
  <2> QED BY <2>1, <2>2, <2>3, <2>4, <2>5, <2>6, <2>7, <2>8, <2>9 DEF ForestOK, ArenaOK, n
<1> QED BY <1>1, <1>2

(* create_node, suppressing or not: the slot it returns is in use.         *)
LEMMA CreateNodeOK ==
  ASSUME NEW a, ForestOK(a), NEW h \in Headers(a), NEW low, NEW high,
         Fits(a, low, HeaderLevel(a, h)), Fits(a, high, HeaderLevel(a, h))
  PROVE  LET r == CreateNode(a, h, low, high)
         IN ForestOK(r[2]) /\ Preserves(a, r[2]) /\ r[1] \in Live(r[2])
<1> DEFINE r == CreateNode(a, h, low, high)
<1>1. CASE high = Zero
  <2>1. r[1] = low /\ r[2] = a
    BY <1>1 DEF CreateNode
  <2> QED BY <2>1 DEF Preserves, Fits
<1>2. CASE high # Zero
  <2> DEFINE n == [header |-> h, low |-> low, high |-> high]
             q == HashCons(a, n)
  <2>1. r = q
    BY <1>2 DEF CreateNode
  <2>2. ForestOK(q[2]) /\ Preserves(a, q[2]) /\ q[1] \in Inner(q[2])
    BY <1>2, HashConsOK
  <2> QED BY <2>1, <2>2 DEF Inner
<1> QED BY <1>1, <1>2

(* A table whose entries name slots in use may replace the memo.           *)
LEMMA MemoReplacedOK ==
  ASSUME NEW a, ForestOK(a), NEW memo,
         \A k \in DOMAIN memo : {k[2], k[3], memo[k]} \subseteq Live(a)
  PROVE  ForestOK([a EXCEPT !.memo = memo]) /\ Preserves(a, [a EXCEPT !.memo = memo])
<1> DEFINE b == [a EXCEPT !.memo = memo]
<1>1. /\ b.headers = a.headers /\ b.nodes = a.nodes /\ b.free = a.free
      /\ b.table = a.table /\ b.memo = memo
      /\ \E hs, n, f, t, m : b = Forest(hs, n, f, t, m)
  <2>1. PICK hs, n, f, t, m : a = Forest(hs, n, f, t, m)
    BY DEF ForestOK, ForestType
  <2>2. b = Forest(hs, n, f, t, memo)
    BY <2>1 DEF Forest
  <2> HIDE DEF b
  <2> QED BY <2>1, <2>2 DEF Forest
<1> HIDE DEF b
<1>2. SameHeaders(a, b)
  BY <1>1 DEF SameHeaders, Headers, HeaderLevel
<1>3. MemoLive(b)
  BY <1>1 DEF MemoLive, Live, Slots
<1>4. b.headers \in Seq([level : Nat, label : Label])
  BY <1>1 DEF ForestOK, ForestType
<1> QED BY <1>1, <1>2, <1>3, <1>4, NodesStayOK DEF b

LEMMA RememberOK ==
  ASSUME NEW a, ForestOK(a), NEW key, NEW i, {key[2], key[3], i} \subseteq Live(a)
  PROVE  ForestOK(Remember(a, key, i)) /\ Preserves(a, Remember(a, key, i))
<1> DEFINE memo == Extend(a.memo, key, i)
<1>1. \A k \in DOMAIN memo : {k[2], k[3], memo[k]} \subseteq Live(a)
  BY DEF ForestOK, ArenaOK, MemoLive, Extend
<1>2. Remember(a, key, i) = [a EXCEPT !.memo = memo]
  BY DEF Remember
<1> HIDE DEF memo
<1> QED BY <1>1, <1>2, MemoReplacedOK

LEMMA ClearCacheOK ==
  ASSUME NEW a, ForestOK(a)
  PROVE  ForestOK(ClearCache(a)) /\ Preserves(a, ClearCache(a))
<1> DEFINE memo == [k \in {} |-> NoId]
<1>1. \A k \in DOMAIN memo : {k[2], k[3], memo[k]} \subseteq Live(a)
  OBVIOUS
<1>2. ClearCache(a) = [a EXCEPT !.memo = memo]
  BY DEF ClearCache
<1> HIDE DEF memo
<1> QED BY <1>1, <1>2, MemoReplacedOK

(* A sweep that keeps a closed set of slots leaves those as they are, and  *)
(* nothing that names another.                                             *)
LEMMA SweptOK ==
  ASSUME NEW a, ForestOK(a), NEW live, Closed(a, live)
  PROVE  LET b == Swept(a, live)
         IN ForestOK(b) /\ Live(b) = live /\ \A i : At(b, i) = At(a, i)
<1> DEFINE b == Swept(a, live)
           table == RestrictTo(a.table, LiveNodes(a, live))
           memo == RestrictTo(a.memo, LiveEntries(a, live))
           free == Slots(a) \ live
<1>0. /\ TerminalsInPlace(a) /\ WellFormed(a) /\ Suppressed(a) /\ TableExact(a) /\ MemoLive(a)
      /\ Terminals \subseteq live /\ live \subseteq Live(a)
      /\ \A i \in live : Kids(a, i) \subseteq live
  BY DEF ForestOK, ArenaOK, Closed
<1>1. /\ b.headers = a.headers /\ b.nodes = a.nodes /\ b.free = free
      /\ b.table = table /\ b.memo = memo
      /\ \E hs, n, f, t, m : b = Forest(hs, n, f, t, m)
  <2>1. PICK hs, n, f, t, m : a = Forest(hs, n, f, t, m)
    BY DEF ForestOK, ForestType
  <2>2. b = [a EXCEPT !.table = table, !.memo = memo, !.free = free]
    BY Zenon DEF Swept
  <2> HIDE DEF table, memo, free, b
  <2>3. b = Forest(hs, n, free, table, memo)
    <3>1. [a EXCEPT !.table = table] = Forest(hs, n, f, table, m)
      BY <2>1 DEF Forest
    <3>2. [Forest(hs, n, f, table, m) EXCEPT !.memo = memo] = Forest(hs, n, f, table, memo)
      BY DEF Forest
    <3>3. [Forest(hs, n, f, table, memo) EXCEPT !.free = free] = Forest(hs, n, free, table, memo)
      BY DEF Forest
    <3> QED BY <2>2, <3>1, <3>2, <3>3, Zenon
  <2> QED BY <2>1, <2>3 DEF Forest
<1>2. /\ DOMAIN table = LiveNodes(a, live) /\ \A x \in DOMAIN table : table[x] = a.table[x]
      /\ DOMAIN memo = LiveEntries(a, live) /\ \A k \in DOMAIN memo : memo[k] = a.memo[k]
  BY DEF RestrictTo
<1> HIDE DEF b, table, memo
<1>3. /\ Slots(b) = Slots(a) /\ Live(b) = live /\ Inner(b) = live \ Terminals
      /\ Inner(b) \subseteq Inner(a) /\ \A i : At(b, i) = At(a, i)
  BY <1>0, <1>1 DEF Slots, Live, Inner, At
<1> HIDE DEF free
<1>4. /\ Headers(b) = Headers(a)
      /\ \A i : Level(b, i) = Level(a, i) /\ Low(b, i) = Low(a, i) /\ High(b, i) = High(a, i)
  BY <1>1, <1>3 DEF Headers, HeaderLevel, Level, Low, High
<1>5. TerminalsInPlace(b) /\ Suppressed(b)
  BY <1>0, <1>3, <1>4 DEF TerminalsInPlace, Suppressed
<1>6. WellFormed(b)
  <2> SUFFICES ASSUME NEW i \in Inner(b)
               PROVE  /\ At(b, i).header \in Headers(b)
                      /\ Fits(b, Low(b, i), Level(b, i)) /\ Fits(b, High(b, i), Level(b, i))
    BY DEF WellFormed
  <2>1. /\ At(a, i).header \in Headers(a)
        /\ Fits(a, Low(a, i), Level(a, i)) /\ Fits(a, High(a, i), Level(a, i))
    BY <1>0, <1>3 DEF WellFormed
  <2>2. Low(a, i) \in live /\ High(a, i) \in live
    <3>1. i \in live /\ i \notin Terminals
      BY <1>3
    <3> QED BY <1>0, <3>1 DEF Kids
  <2> QED BY <1>3, <1>4, <2>1, <2>2 DEF Fits
<1>7. TableExact(b)
  <2>1. \A i \in Inner(b) : At(b, i) \in DOMAIN b.table /\ b.table[At(b, i)] = i
    BY <1>0, <1>1, <1>2, <1>3 DEF TableExact, LiveNodes
  <2>2. \A x \in DOMAIN b.table : b.table[x] \in Inner(b) /\ At(b, b.table[x]) = x
    BY <1>0, <1>1, <1>2, <1>3 DEF TableExact, LiveNodes, Inner
  <2> QED BY <2>1, <2>2 DEF TableExact
<1>8. MemoLive(b)
  BY <1>1, <1>2, <1>3 DEF MemoLive, LiveEntries
<1>9. ForestType(b)
  BY <1>1, <1>3 DEF ForestOK, ForestType, free
<1> QED BY <1>3, <1>5, <1>6, <1>7, <1>8, <1>9 DEF ForestOK, ArenaOK, b

----------------------------------------------------------------------------
(* Every step leaves the forest in order; the nodes it keeps stay as they  *)
(* are.                                                                    *)
Kept == \A i \in Live(forest) \cap Live(forest') : At(forest', i) = At(forest, i)

LEMMA StepKeeps ==
  ASSUME ForestOK(forest), Step
  PROVE  ForestOK(forest') /\ Kept
<1>1. ASSUME NEW l \in Nat, NEW label \in Label, forest' = CreateHeader(forest, l, label)
      PROVE  ForestOK(forest') /\ Kept
  BY <1>1, CreateHeaderOK DEF Kept, Preserves
<1>2. ASSUME NEW h \in Headers(forest), NEW low, NEW high,
             Fits(forest, low, HeaderLevel(forest, h)),
             Fits(forest, high, HeaderLevel(forest, h)),
             forest' = CreateNode(forest, h, low, high)[2]
      PROVE  ForestOK(forest') /\ Kept
  BY <1>2, CreateNodeOK DEF Kept, Preserves
<1>3. ASSUME NEW op, NEW f \in Live(forest), NEW g \in Live(forest), NEW i \in Live(forest),
             forest' = Remember(forest, <<op, f, g>>, i)
      PROVE  ForestOK(forest') /\ Kept
  <2> DEFINE key == <<op, f, g>>
  <2>1. key[2] = f /\ key[3] = g /\ forest' = Remember(forest, key, i)
    BY <1>3
  <2> HIDE DEF key
  <2> QED BY <2>1, RememberOK DEF Kept, Preserves
<1>4. ASSUME forest' = ClearCache(forest)
      PROVE  ForestOK(forest') /\ Kept
  BY <1>4, ClearCacheOK DEF Kept, Preserves
<1>5. ASSUME NEW live, Closed(forest, live), forest' = Swept(forest, live)
      PROVE  ForestOK(forest') /\ Kept
  BY <1>5, SweptOK DEF Kept
<1> QED BY <1>1, <1>2, <1>3, <1>4, <1>5 DEF Step

LEMMA ForestOKHolds == ForestSpec => []ForestOK(forest)
<1>1. forest = NewForest => ForestOK(forest)
  BY NewForestOK
<1>2. ForestOK(forest) /\ [Step]_forest => ForestOK(forest)'
  <2> SUFFICES ASSUME ForestOK(forest), [Step]_forest PROVE ForestOK(forest')
    OBVIOUS
  <2> QED BY StepKeeps
<1> QED BY <1>1, <1>2, PTL DEF ForestSpec

(* Every forest that headers, nodes, table entries and collections can     *)
(* build is well-formed, zero-suppressed and hash-consed, and its tables   *)
(* name slots in use only (zdd.rs: create_node, cache_put, gc).            *)
THEOREM ArenaInvariant == ForestSpec => []ArenaInv
<1>1. ForestOK(forest) => ArenaInv
  BY DEF ForestOK, ArenaInv
<1> QED BY <1>1, ForestOKHolds, PTL

(* A slot that survives keeps its node (zdd.rs: new_nonterminal recycles   *)
(* reclaimed slots only), so what a handle or an iterator holds across     *)
(* calls stays the diagram it was.                                         *)
THEOREM NodesAreKept == ForestSpec => NodesKept
<1>1. ForestOK(forest) /\ [Step]_forest => [Kept]_forest
  BY StepKeeps
<1>2. ForestSpec => [][Kept]_forest
  BY <1>1, ForestOKHolds, PTL DEF ForestSpec
<1> QED BY <1>2 DEF NodesKept, Kept

----------------------------------------------------------------------------
(* What the nodes denote.                                                  *)

LEMMA NodeFacts ==
  ASSUME NEW a, ForestOK(a)
  PROVE  /\ Terminals \subseteq Live(a)
         /\ \A t \in Terminals : Level(a, t) = -1
         /\ \A i \in Live(a) : i \in Nat /\ Level(a, i) \in Int /\ -1 <= Level(a, i)
         /\ \A i \in Live(a) : i \notin Terminals => i \in Inner(a)
         /\ \A i \in Inner(a) :
              /\ i \in Live(a) /\ i \notin Terminals
              /\ At(a, i).header \in Headers(a)
              /\ Level(a, i) = HeaderLevel(a, At(a, i).header) /\ Level(a, i) \in Nat
              /\ Low(a, i) \in Live(a) /\ Level(a, Low(a, i)) < Level(a, i)
              /\ High(a, i) \in Live(a) /\ Level(a, High(a, i)) < Level(a, i)
              /\ High(a, i) # Zero
<1>1. /\ ForestType(a) /\ TerminalsInPlace(a) /\ WellFormed(a) /\ Suppressed(a)
  BY DEF ForestOK, ArenaOK
<1>2. ASSUME NEW h \in Headers(a) PROVE HeaderLevel(a, h) \in Nat
  <2>1. a.headers \in Seq([level : Nat, label : Label]) /\ h + 1 \in 1 .. Len(a.headers)
    BY <1>1 DEF ForestType, Headers
  <2>2. \A X : \A s \in Seq(X) : \A k \in 1 .. Len(s) : s[k] \in X
    OBVIOUS
  <2>3. a.headers[h + 1] \in [level : Nat, label : Label]
    BY <2>1, <2>2, Zenon
  <2> QED BY <2>3 DEF HeaderLevel
<1>3. \A t \in Terminals : Level(a, t) = -1
  BY DEF Level
<1>4. ASSUME NEW i \in Inner(a)
      PROVE  /\ i \in Live(a) /\ i \notin Terminals
             /\ At(a, i).header \in Headers(a)
             /\ Level(a, i) = HeaderLevel(a, At(a, i).header) /\ Level(a, i) \in Nat
             /\ Low(a, i) \in Live(a) /\ Level(a, Low(a, i)) < Level(a, i)
             /\ High(a, i) \in Live(a) /\ Level(a, High(a, i)) < Level(a, i)
             /\ High(a, i) # Zero
  <2>1. i \in Live(a) /\ i \notin Terminals /\ At(a, i).header \in Headers(a)
    BY <1>1 DEF Inner, WellFormed
  <2>2. Level(a, i) = HeaderLevel(a, At(a, i).header)
    BY <2>1 DEF Level
  <2> QED BY <1>1, <1>2, <2>1, <2>2 DEF WellFormed, Suppressed, Fits
<1>5. \A i \in Live(a) : i \in Nat /\ (i \notin Terminals => i \in Inner(a))
  BY <1>1, SlotFacts DEF Inner
<1>6. \A i \in Live(a) : Level(a, i) \in Int /\ -1 <= Level(a, i)
  BY <1>3, <1>4, <1>5
<1> QED BY <1>1, <1>3, <1>4, <1>5, <1>6 DEF TerminalsInPlace

(* A nonempty set of inner nodes has one whose children are not in it.     *)
LEMMA LowestNode ==
  ASSUME NEW a, ForestOK(a), NEW B \in SUBSET Inner(a), B # {}
  PROVE  \E i \in B : Low(a, i) \in Live(a) \ B /\ High(a, i) \in Live(a) \ B
<1> DEFINE L == {Level(a, i) : i \in B}
<1>1. L \in SUBSET Nat /\ L # {}
  BY NodeFacts
<1>2. PICK m \in L : \A k \in L : m <= k
  <2> HIDE DEF L
  <2> QED BY <1>1, LeastNumber
<1>3. PICK i \in B : Level(a, i) = m
  OBVIOUS
<1>4. \A j \in B : m <= Level(a, j)
  BY <1>2
<1>5. /\ Low(a, i) \in Live(a) /\ Level(a, Low(a, i)) < m
      /\ High(a, i) \in Live(a) /\ Level(a, High(a, i)) < m
      /\ Level(a, Low(a, i)) \in Int /\ Level(a, High(a, i)) \in Int /\ m \in Nat
  BY <1>3, NodeFacts
<1> QED BY <1>4, <1>5

(* The levels of the nodes have a bound.                                   *)
LEMMA LevelsBounded ==
  ASSUME NEW a, ForestOK(a)
  PROVE  \E m \in Nat : \A i \in Live(a) : Level(a, i) < m
<1> DEFINE Upto(n) == \E m \in Nat : \A i \in Live(a) : i < n => Level(a, i) < m
           Bad == {n \in Nat : ~ Upto(n)}
<1>1. Upto(0)
  BY NodeFacts
<1>2. ASSUME NEW n \in Nat, Upto(n)
      PROVE  Upto(n + 1)
  <2>1. PICK m \in Nat : \A i \in Live(a) : i < n => Level(a, i) < m
    BY <1>2
  <2>2. CASE n \in Live(a)
    <3> DEFINE k == IF Level(a, n) < m THEN m ELSE Level(a, n) + 1
    <3>1. k \in Nat /\ m <= k /\ Level(a, n) < k
      BY <2>2, NodeFacts
    <3>2. \A i \in Live(a) : i < n + 1 => Level(a, i) < k
      <4> HIDE DEF k
      <4> QED BY <2>1, <3>1, NodeFacts
    <3> HIDE DEF k
    <3> QED BY <3>1, <3>2
  <2>3. CASE n \notin Live(a)
    <3>1. \A i \in Live(a) : i < n + 1 => i < n
      BY <2>3, NodeFacts
    <3> QED BY <2>1, <3>1
  <2> QED BY <2>2, <2>3
<1>3. \A n \in Nat : Upto(n)
  <2> HIDE DEF Upto
  <2> SUFFICES ASSUME Bad # {} PROVE FALSE
    OBVIOUS
  <2>1. PICK m \in Bad : \A k \in Bad : m <= k
    BY LeastNumber
  <2>2. m # 0 /\ m - 1 \in Nat /\ m - 1 \notin Bad
    BY <1>1, <2>1
  <2> QED BY <1>2, <2>1, <2>2
<1>4. Len(a.nodes) \in Nat /\ \A i \in Live(a) : i < Len(a.nodes)
  BY SlotFacts DEF ForestOK, Slots
<1> QED BY <1>3, <1>4

(* The recursion that defines the ways is well founded.                    *)
LEMMA WaysDef ==
  ASSUME NEW a, ForestOK(a)
  PROVE  AllWays(a) =
           [i \in Live(a) |->
              IF i \in Terminals THEN IF i = Zero THEN {} ELSE {<<{}, i>>}
              ELSE AllWays(a)[Low(a, i)]
                     \cup Taking(At(a, i).header, AllWays(a)[High(a, i)])]
<1> DEFINE Def(v, i) == IF i \in Terminals THEN IF i = Zero THEN {} ELSE {<<{}, i>>}
                        ELSE v[Low(a, i)] \cup Taking(At(a, i).header, v[High(a, i)])
           Upto(n) == \E v : \A i \in Live(a) : Level(a, i) < n => v[i] = Def(v, i)
           Bad == {n \in Nat : ~ Upto(n)}
<1>1. AllWays(a) = CHOOSE v : v = [i \in Live(a) |-> Def(v, i)]
  BY DEF AllWays
<1>2. ASSUME NEW v, NEW w, NEW n \in Int,
             \A i \in Live(a) : Level(a, i) < n => w[i] = v[i]
      PROVE  \A i \in Live(a) : Level(a, i) < n + 1 => Def(w, i) = Def(v, i)
  <2> SUFFICES ASSUME NEW i \in Live(a), Level(a, i) < n + 1, i \notin Terminals
               PROVE  w[Low(a, i)] = v[Low(a, i)] /\ w[High(a, i)] = v[High(a, i)]
    OBVIOUS
  <2>1. /\ Low(a, i) \in Live(a) /\ Level(a, Low(a, i)) < n
        /\ High(a, i) \in Live(a) /\ Level(a, High(a, i)) < n
    BY NodeFacts
  <2> QED BY <1>2, <2>1
<1>3. Upto(0)
  <2> DEFINE v == [i \in Live(a) |-> IF i = Zero THEN {} ELSE {<<{}, i>>}]
  <2>1. \A i \in Live(a) : Level(a, i) < 0 => v[i] = Def(v, i)
    BY NodeFacts
  <2> QED BY <2>1
<1>4. ASSUME NEW n \in Nat, Upto(n)
      PROVE  Upto(n + 1)
  <2>1. PICK v : \A i \in Live(a) : Level(a, i) < n => v[i] = Def(v, i)
    BY <1>4
  <2> DEFINE w == [i \in Live(a) |-> Def(v, i)]
  <2>2. \A i \in Live(a) : w[i] = Def(v, i)
    OBVIOUS
  <2> HIDE DEF Def, w
  <2>3. \A i \in Live(a) : Level(a, i) < n => w[i] = v[i]
    BY <2>1, <2>2
  <2>4. \A i \in Live(a) : Level(a, i) < n + 1 => Def(w, i) = Def(v, i)
    BY <1>2, <2>3
  <2> QED BY <2>2, <2>4
<1>5. \A n \in Nat : Upto(n)
  <2> HIDE DEF Upto
  <2> SUFFICES ASSUME Bad # {} PROVE FALSE
    OBVIOUS
  <2>1. PICK m \in Bad : \A k \in Bad : m <= k
    BY LeastNumber
  <2>2. m # 0 /\ m - 1 \in Nat /\ m - 1 \notin Bad
    BY <1>3, <2>1
  <2> QED BY <1>4, <2>1, <2>2
<1>6. \E v : v = [i \in Live(a) |-> Def(v, i)]
  <2>1. PICK m \in Nat : \A i \in Live(a) : Level(a, i) < m
    BY LevelsBounded
  <2>2. PICK v : \A i \in Live(a) : Level(a, i) < m => v[i] = Def(v, i)
    BY <1>5
  <2> DEFINE w == [i \in Live(a) |-> Def(v, i)]
  <2>3. \A i \in Live(a) : w[i] = Def(v, i)
    OBVIOUS
  <2> HIDE DEF Def, w
  <2>4. \A i \in Live(a) : Level(a, i) < m + 1 => Def(w, i) = Def(v, i)
    BY <1>2, <2>2, <2>3
  <2>5. \A i \in Live(a) : Def(w, i) = Def(v, i)
    BY <2>1, <2>4, NodeFacts
  <2>6. w = [i \in Live(a) |-> Def(w, i)]
    BY <2>5 DEF w
  <2> QED BY <2>6
<1>7. AllWays(a) = [i \in Live(a) |-> Def(AllWays(a), i)]
  <2> HIDE DEF Def
  <2> QED BY <1>1, <1>6
<1> QED BY <1>7

LEMMA WaysUnfold ==
  ASSUME NEW a, ForestOK(a)
  PROVE  /\ Ways(a, Zero) = {}
         /\ \A i \in {One, Undet} : Ways(a, i) = {<<{}, i>>}
         /\ \A i \in Inner(a) :
              Ways(a, i) = Ways(a, Low(a, i)) \cup Taking(At(a, i).header, Ways(a, High(a, i)))
<1>1. /\ Terminals \subseteq Live(a)
      /\ \A i \in Inner(a) : i \in Live(a) /\ i \notin Terminals
  BY NodeFacts
<1>2. \A i \in Live(a) :
        Ways(a, i) = IF i \in Terminals THEN IF i = Zero THEN {} ELSE {<<{}, i>>}
                     ELSE Ways(a, Low(a, i)) \cup Taking(At(a, i).header, Ways(a, High(a, i)))
  BY WaysDef, Zenon DEF Ways
<1>3. Zero \in Terminals /\ {One, Undet} \subseteq Terminals /\ Zero \notin {One, Undet}
  BY DEF Terminals, Zero, One, Undet
<1>4. Zero \in Live(a) /\ One \in Live(a) /\ Undet \in Live(a)
  BY <1>1, <1>3
<1>5. Ways(a, Zero) = {}
  BY <1>2, <1>3, <1>4, Zenon
<1>6. \A i \in {One, Undet} : Ways(a, i) = {<<{}, i>>}
  BY <1>2, <1>3, <1>4
<1>7. \A i \in Inner(a) :
        Ways(a, i) = Ways(a, Low(a, i)) \cup Taking(At(a, i).header, Ways(a, High(a, i)))
  BY <1>1, <1>2, Zenon
<1> QED BY <1>5, <1>6, <1>7

LEMMA HeaderFacts ==
  ASSUME NEW a, ForestOK(a)
  PROVE  \A h \in Headers(a) : HeaderLevel(a, h) \in Nat
<1>1. \A h \in Headers(a) : h + 1 \in 1 .. Len(a.headers)
  BY DEF ForestOK, ForestType, Headers
<1>2. a.headers \in Seq([level : Nat, label : Label])
  BY DEF ForestOK, ForestType
<1>3. \A X : \A s \in Seq(X) : \A k \in 1 .. Len(s) : s[k] \in X
  OBVIOUS
<1>4. \A h \in Headers(a) : a.headers[h + 1] \in [level : Nat, label : Label]
  BY <1>1, <1>2, <1>3, Zenon
<1> QED BY <1>4 DEF HeaderLevel

(* A way lists headers, none above the node it starts from, and ends in a  *)
(* terminal other than Zero.                                               *)
IsWay(a, l, w) ==
  /\ w = <<w[1], w[2]>> /\ w[2] \in {One, Undet}
  /\ w[1] \subseteq Headers(a) /\ \A h \in w[1] : HeaderLevel(a, h) <= l

LEMMA WaysShape ==
  ASSUME NEW a, ForestOK(a)
  PROVE  \A i \in Live(a) : \A w \in Ways(a, i) : IsWay(a, Level(a, i), w)
<1> DEFINE Good(i) == \A w \in Ways(a, i) : IsWay(a, Level(a, i), w)
           B == {i \in Inner(a) : ~ Good(i)}
<1>0. \A h \in Headers(a) : HeaderLevel(a, h) \in Int
  BY HeaderFacts
<1>1. \A i \in Terminals : Good(i)
  <2>1. \A i \in {One, Undet} : IsWay(a, Level(a, i), <<{}, i>>)
    BY DEF IsWay
  <2> QED BY <2>1, WaysUnfold DEF Terminals
<1>2. ASSUME NEW i \in Inner(a), Good(Low(a, i)), Good(High(a, i))
      PROVE  Good(i)
  <2> DEFINE h == At(a, i).header
  <2>1. /\ Level(a, Low(a, i)) < Level(a, i) /\ Level(a, Low(a, i)) \in Int
        /\ Level(a, High(a, i)) < Level(a, i) /\ Level(a, High(a, i)) \in Int
        /\ h \in Headers(a) /\ Level(a, i) = HeaderLevel(a, h) /\ Level(a, i) \in Int
    BY NodeFacts
  <2>2. ASSUME NEW w \in Ways(a, Low(a, i)) PROVE IsWay(a, Level(a, i), w)
    BY <1>0, <1>2, <2>1 DEF IsWay
  <2>3. ASSUME NEW w \in Ways(a, High(a, i))
        PROVE  IsWay(a, Level(a, i), <<w[1] \cup {h}, w[2]>>)
    <3>1. IsWay(a, Level(a, High(a, i)), w)
      BY <1>2
    <3> QED BY <1>0, <2>1, <3>1 DEF IsWay
  <2>4. \A w \in Taking(h, Ways(a, High(a, i))) : IsWay(a, Level(a, i), w)
    BY <2>3 DEF Taking
  <2>5. \A w \in Ways(a, i) : w \in Ways(a, Low(a, i)) \/ w \in Taking(h, Ways(a, High(a, i)))
    BY WaysUnfold
  <2> QED BY <2>2, <2>4, <2>5
<1> HIDE DEF Good
<1>3. B = {}
  <2> SUFFICES ASSUME B # {} PROVE FALSE
    OBVIOUS
  <2>1. PICK i \in B : Low(a, i) \in Live(a) \ B /\ High(a, i) \in Live(a) \ B
    BY LowestNode
  <2>2. \A j \in Live(a) \ B : Good(j)
    BY <1>1 DEF Inner
  <2> QED BY <1>2, <2>1, <2>2
<1>4. \A i \in Live(a) : Good(i)
  BY <1>1, <1>3 DEF Inner
<1> QED BY <1>4 DEF Good

(* Only Zero has no ways.                                                  *)
LEMMA WaysExist ==
  ASSUME NEW a, ForestOK(a)
  PROVE  \A i \in Live(a) : i # Zero => Ways(a, i) # {}
<1> DEFINE B == {i \in Inner(a) : Ways(a, i) = {}}
<1>1. B = {}
  <2> SUFFICES ASSUME B # {} PROVE FALSE
    OBVIOUS
  <2>1. PICK i \in B : High(a, i) \in Live(a) \ B
    BY LowestNode
  <2>2. High(a, i) # Zero
    BY NodeFacts
  <2>3. Ways(a, High(a, i)) # {}
    BY <2>1, <2>2, WaysUnfold DEF Inner, Terminals
  <2>4. Taking(At(a, i).header, Ways(a, High(a, i))) # {}
    BY <2>3 DEF Taking
  <2> QED BY <2>4, WaysUnfold
<1>2. \A i \in {One, Undet} : Ways(a, i) # {}
  BY WaysUnfold
<1> QED BY <1>1, <1>2 DEF Inner, Terminals

(* The ways of a node tell its children's apart.                           *)
Without(h, ways) == {w \in ways : h \notin w[1]}
Beyond(h, ways) == {<<w[1] \ {h}, w[2]>> : w \in {v \in ways : h \in v[1]}}

LEMMA WaysSplit ==
  ASSUME NEW a, ForestOK(a), NEW i \in Inner(a)
  PROVE  LET h == At(a, i).header
         IN /\ Ways(a, Low(a, i)) = Without(h, Ways(a, i))
            /\ Ways(a, High(a, i)) = Beyond(h, Ways(a, i))
            /\ \E w \in Ways(a, i) : h \in w[1]
            /\ \A w \in Ways(a, i) : \A k \in w[1] :
                 k # h => HeaderLevel(a, k) < HeaderLevel(a, h)
<1> DEFINE h == At(a, i).header
           L == Ways(a, Low(a, i))
           H == Ways(a, High(a, i))
           N == Ways(a, i)
<1>0. /\ Low(a, i) \in Live(a) /\ Level(a, Low(a, i)) < HeaderLevel(a, h)
      /\ High(a, i) \in Live(a) /\ Level(a, High(a, i)) < HeaderLevel(a, h)
      /\ Level(a, Low(a, i)) \in Int /\ Level(a, High(a, i)) \in Int
      /\ HeaderLevel(a, h) \in Int /\ High(a, i) # Zero
      /\ \A k \in Headers(a) : HeaderLevel(a, k) \in Int
  <2>1. /\ Low(a, i) \in Live(a) /\ Level(a, Low(a, i)) < Level(a, i)
        /\ High(a, i) \in Live(a) /\ Level(a, High(a, i)) < Level(a, i)
        /\ High(a, i) # Zero /\ Level(a, i) = HeaderLevel(a, h) /\ Level(a, i) \in Nat
    BY NodeFacts
  <2>2. \A j \in Live(a) : Level(a, j) \in Int
    BY NodeFacts
  <2>3. \A k \in Headers(a) : HeaderLevel(a, k) \in Int
    BY HeaderFacts
  <2> QED BY <2>1, <2>2, <2>3
<1>1. N = L \cup Taking(h, H)
  BY WaysUnfold
<1>2. \A w \in L \cup H : /\ w = <<w[1], w[2]>> /\ h \notin w[1]
                          /\ \A k \in w[1] : HeaderLevel(a, k) < HeaderLevel(a, h)
  <2>1. ASSUME NEW j \in {Low(a, i), High(a, i)}, NEW w \in Ways(a, j)
        PROVE  /\ w = <<w[1], w[2]>> /\ h \notin w[1]
               /\ \A k \in w[1] : HeaderLevel(a, k) < HeaderLevel(a, h)
    <3>1. IsWay(a, Level(a, j), w)
      BY <1>0, WaysShape
    <3>2. \A k \in w[1] : HeaderLevel(a, k) < HeaderLevel(a, h)
      BY <1>0, <3>1 DEF IsWay
    <3> QED BY <1>0, <3>1, <3>2 DEF IsWay
  <2> QED BY <2>1
<1>3. H # {}
  BY <1>0, WaysExist
<1> HIDE DEF h, L, H, N
<1>4. L = Without(h, N)
  <2>1. \A w \in L : w \in Without(h, N)
    BY <1>1, <1>2 DEF Without
  <2>2. \A w \in Without(h, N) : w \in L
    BY <1>1 DEF Without, Taking
  <2> QED BY <2>1, <2>2
<1>5. H = Beyond(h, N)
  <2>1. ASSUME NEW w \in H PROVE w \in Beyond(h, N)
    <3> DEFINE v == <<w[1] \cup {h}, w[2]>>
    <3>1. v \in N /\ h \in v[1]
      BY <1>1 DEF Taking
    <3>2. <<v[1] \ {h}, v[2]>> = w
      <4>1. w[1] = (w[1] \cup {h}) \ {h}
        BY <1>2
      <4> QED BY <1>2, <4>1
    <3> QED BY <3>1, <3>2 DEF Beyond
  <2>2. ASSUME NEW w \in Beyond(h, N) PROVE w \in H
    <3>1. PICK v \in N : h \in v[1] /\ w = <<v[1] \ {h}, v[2]>>
      BY DEF Beyond
    <3>2. PICK u \in H : v = <<u[1] \cup {h}, u[2]>>
      BY <1>1, <1>2, <3>1 DEF Taking
    <3>3. v[1] \ {h} = u[1]
      BY <1>2, <3>2
    <3> QED BY <1>2, <3>1, <3>2, <3>3
  <2> QED BY <2>1, <2>2
<1>6. \E w \in N : h \in w[1]
  <2>1. PICK u \in H : TRUE
    BY <1>3
  <2> DEFINE w == <<u[1] \cup {h}, u[2]>>
  <2>2. w \in N /\ h \in w[1]
    BY <1>1 DEF Taking
  <2> QED BY <2>2
<1>7. \A w \in N : \A k \in w[1] : k # h => HeaderLevel(a, k) < HeaderLevel(a, h)
  BY <1>1, <1>2 DEF Taking
<1> QED BY <1>4, <1>5, <1>6, <1>7 DEF h, L, H, N

LEMMA WaysTellApart ==
  ASSUME NEW a, ForestOK(a)
  PROVE  \A i, j \in Live(a) : Ways(a, i) = Ways(a, j) => i = j
<1> DEFINE Upto(n) == \A i, j \in Live(a) :
                        Level(a, i) < n /\ Level(a, j) < n /\ Ways(a, i) = Ways(a, j) => i = j
           Bad == {n \in Nat : ~ Upto(n)}
<1>1. \A i, j \in Terminals : Ways(a, i) = Ways(a, j) => i = j
  <2>1. /\ Ways(a, Zero) = {} /\ Ways(a, One) = {<<{}, One>>}
        /\ Ways(a, Undet) = {<<{}, Undet>>}
    BY WaysUnfold
  <2>2. <<{}, One>> # <<{}, Undet>>
    BY DEF One, Undet
  <2>3. \A x, y : {x} # {} /\ ({x} = {y} => x = y)
    OBVIOUS
  <2>4. /\ Ways(a, Zero) # Ways(a, One) /\ Ways(a, Zero) # Ways(a, Undet)
        /\ Ways(a, One) # Ways(a, Undet)
    BY <2>1, <2>2, <2>3, Zenon
  <2> QED BY <2>4, Zenon DEF Terminals
<1>2. ASSUME NEW i \in Inner(a), NEW j \in Terminals
      PROVE  Ways(a, i) # Ways(a, j)
  <2>1. \E w \in Ways(a, i) : w[1] # {}
    BY WaysSplit
  <2>2. \A w \in Ways(a, j) : w[1] = {}
    BY WaysUnfold DEF Terminals
  <2> QED BY <2>1, <2>2
<1>3. ASSUME NEW i \in Inner(a), NEW j \in Inner(a), Ways(a, i) = Ways(a, j),
             NEW n \in Nat, Upto(n), Level(a, i) < n + 1
      PROVE  i = j
  <2> DEFINE h == At(a, i).header
             k == At(a, j).header
  <2>1. h \in Headers(a) /\ k \in Headers(a)
    BY NodeFacts
  <2>2. HeaderLevel(a, h) \in Nat /\ HeaderLevel(a, k) \in Nat
    BY <2>1, HeaderFacts
  <2>3. h = k
    <3>1. h # k => HeaderLevel(a, h) < HeaderLevel(a, k)
      BY <1>3, WaysSplit
    <3>2. h # k => HeaderLevel(a, k) < HeaderLevel(a, h)
      BY <1>3, WaysSplit
    <3> QED BY <2>2, <3>1, <3>2
  <2>4. Ways(a, Low(a, i)) = Ways(a, Low(a, j)) /\ Ways(a, High(a, i)) = Ways(a, High(a, j))
    BY <1>3, <2>3, WaysSplit
  <2>5. /\ {Low(a, i), Low(a, j), High(a, i), High(a, j)} \subseteq Live(a)
        /\ Level(a, Low(a, i)) < n /\ Level(a, High(a, i)) < n
        /\ Level(a, Low(a, j)) < n /\ Level(a, High(a, j)) < n
    <3>1. Level(a, j) = Level(a, i) /\ Level(a, i) \in Nat
      BY <2>3, NodeFacts
    <3>2. \A x \in Live(a) : Level(a, x) \in Int
      BY NodeFacts
    <3>3. \A x \in {i, j} : /\ Low(a, x) \in Live(a) /\ Level(a, Low(a, x)) < Level(a, x)
                            /\ High(a, x) \in Live(a) /\ Level(a, High(a, x)) < Level(a, x)
      BY NodeFacts
    <3> QED BY <1>3, <3>1, <3>2, <3>3
  <2>6. Low(a, i) = Low(a, j) /\ High(a, i) = High(a, j)
    BY <1>3, <2>4, <2>5
  <2>7. At(a, i) = At(a, j)
    <3>1. IsNode(At(a, i)) /\ IsNode(At(a, j))
      BY DEF ForestOK, ForestType
    <3> QED BY <2>3, <2>6, <3>1 DEF IsNode, Low, High
  <2>8. a.table[At(a, i)] = i /\ a.table[At(a, j)] = j
    BY DEF ForestOK, ArenaOK, TableExact
  <2> QED BY <2>7, <2>8
<1>4. \A i \in Live(a) : i \in Inner(a) \/ i \in Terminals
  BY DEF Inner
<1>5. Upto(0)
  <2>1. \A i \in Live(a) : Level(a, i) < 0 => i \in Terminals
    BY <1>4, NodeFacts
  <2> QED BY <1>1, <2>1
<1>6. ASSUME NEW n \in Nat, Upto(n)
      PROVE  Upto(n + 1)
  <2> SUFFICES ASSUME NEW i \in Live(a), NEW j \in Live(a), Ways(a, i) = Ways(a, j),
                      Level(a, i) < n + 1, Level(a, j) < n + 1
               PROVE  i = j
    OBVIOUS
  <2>1. CASE i \in Inner(a) /\ j \in Inner(a)
    <3> HIDE DEF Upto
    <3> QED BY <1>3, <1>6, <2>1
  <2> HIDE DEF Upto
  <2> QED BY <1>1, <1>2, <1>4, <2>1
<1>7. \A n \in Nat : Upto(n)
  <2> HIDE DEF Upto
  <2> SUFFICES ASSUME Bad # {} PROVE FALSE
    OBVIOUS
  <2>1. PICK m \in Bad : \A k \in Bad : m <= k
    BY LeastNumber
  <2>2. m # 0 /\ m - 1 \in Nat /\ m - 1 \notin Bad
    BY <1>5, <2>1
  <2> QED BY <1>6, <2>1, <2>2
<1>8. PICK m \in Nat : \A i \in Live(a) : Level(a, i) < m
  BY LevelsBounded
<1> QED BY <1>7, <1>8

(* The nodes in use are canonical, whatever was built, shared between      *)
(* managers' families, collected and rebuilt (zdd.rs: create_node, utable, *)
(* gc): no two have the same ways.                                         *)
THEOREM NodesAreCanonical == ForestSpec => []Canonical
<1>1. ASSUME ForestOK(forest) PROVE Canonical
  <2> DEFINE S == Live(forest)
             T == {Ways(forest, i) : i \in S}
             f == [i \in S |-> Ways(forest, i)]
  <2>1. IsFiniteSet(S)
    <3>1. Len(forest.nodes) \in Nat /\ S \subseteq 0 .. Len(forest.nodes) - 1
      BY <1>1, SlotFacts DEF ForestOK, Slots
    <3> HIDE DEF S
    <3>2. IsFiniteSet(0 .. Len(forest.nodes) - 1)
      BY <3>1, FS_Interval
    <3> QED BY <3>1, <3>2, FS_Subset, Zenon
  <2>2. \A i, j \in S : Ways(forest, i) = Ways(forest, j) => i = j
    BY <1>1, WaysTellApart
  <2>3. f \in Bijection(S, T)
    BY <2>2 DEF Bijection, Injection, Surjection, IsInjective
  <2>4. Cardinality(T) = Cardinality(S)
    <3> HIDE DEF S, T, f
    <3> QED BY <2>1, <2>3, FS_Bijection DEF ExistsBijection
  <2> QED BY <2>4 DEF Canonical
<1> QED BY <1>1, ForestOKHolds, PTL

(* Where every label has one header, equal families are one node, so the   *)
(* comparison of two handles by their slots is exact (zdd.rs: create_node; *)
(* zdd_ops.rs memoises on slots).                                          *)
THEOREM OneNodeForEachFamily == ForestSpec => []OneNodeEach
<1>1. ASSUME ForestOK(forest) PROVE OneNodeEach
  <2> SUFFICES ASSUME OneHeaderEach(forest), NEW i \in Live(forest), NEW j \in Live(forest),
                      Determined(forest, i), Determined(forest, j),
                      Sets(forest, i) = Sets(forest, j)
               PROVE  i = j
    BY DEF OneNodeEach
  <2>1. ASSUME NEW x \in Live(forest), NEW y \in Live(forest),
               Determined(forest, x), Determined(forest, y),
               Sets(forest, x) = Sets(forest, y), NEW w \in Ways(forest, x)
        PROVE  w \in Ways(forest, y)
    <3>1. w[2] = One /\ Labelled(forest, w[1]) \in Sets(forest, y)
      BY <2>1 DEF Determined, Sets
    <3>2. PICK v \in Ways(forest, y) : v[2] = One /\ Labelled(forest, v[1]) = Labelled(forest, w[1])
      BY <3>1 DEF Sets
    <3>3. /\ w = <<w[1], w[2]>> /\ w[1] \subseteq Headers(forest)
          /\ v = <<v[1], v[2]>> /\ v[1] \subseteq Headers(forest)
      BY <1>1, WaysShape DEF IsWay
    <3>4. v[1] = w[1]
      <4>1. ASSUME NEW s \in SUBSET Headers(forest), NEW t \in SUBSET Headers(forest),
                   Labelled(forest, s) = Labelled(forest, t)
            PROVE  s \subseteq t
        <5> SUFFICES ASSUME NEW h \in s PROVE h \in t
          OBVIOUS
        <5>1. HeaderLabel(forest, h) \in Labelled(forest, t)
          BY <4>1 DEF Labelled
        <5>2. PICK k \in t : HeaderLabel(forest, k) = HeaderLabel(forest, h)
          BY <5>1 DEF Labelled
        <5> QED BY <5>2 DEF OneHeaderEach
      <4> QED BY <3>2, <3>3, <4>1
    <3> QED BY <3>1, <3>2, <3>3, <3>4
  <2>2. Ways(forest, i) = Ways(forest, j)
    BY <2>1
  <2> QED BY <1>1, <2>2, WaysTellApart
<1> QED BY <1>1, ForestOKHolds, PTL

(* Headers are added at the end and never change.                          *)
HeadersKept(a, b) ==
  Headers(a) \subseteq Headers(b) /\ \A h \in Headers(a) : b.headers[h + 1] = a.headers[h + 1]

LEMMA StepKeepsHeaders ==
  ASSUME ForestOK(forest), Step
  PROVE  HeadersKept(forest, forest')
<1>0. PICK hs, n, f, t, m : forest = Forest(hs, n, f, t, m)
  BY DEF ForestOK, ForestType
<1>1. ASSUME NEW l, NEW label \in Label, l \in Nat, forest' = CreateHeader(forest, l, label)
      PROVE  HeadersKept(forest, forest')
  <2> DEFINE x == [level |-> l, label |-> label]
  <2>1. forest'.headers = Append(forest.headers, x)
    BY <1>0, <1>1 DEF CreateHeader, Forest
  <2>2. x \in [level : Nat, label : Label]
    BY <1>1
  <2>3. forest.headers \in Seq([level : Nat, label : Label])
    BY DEF ForestOK, ForestType
  <2> HIDE DEF x
  <2>4. /\ Len(forest'.headers) = Len(forest.headers) + 1
        /\ \A k \in 1 .. Len(forest.headers) : forest'.headers[k] = forest.headers[k]
    BY <2>1, <2>2, <2>3
  <2>5. Len(forest.headers) \in Nat
    BY <2>3
  <2>6. Headers(forest) \subseteq Headers(forest')
    BY <2>4, <2>5 DEF Headers
  <2>7. \A h \in Headers(forest) : h + 1 \in 1 .. Len(forest.headers)
    BY <2>5 DEF Headers
  <2> QED BY <2>4, <2>6, <2>7 DEF HeadersKept
<1>2. ASSUME forest'.headers = forest.headers PROVE HeadersKept(forest, forest')
  BY <1>2 DEF HeadersKept, Headers
<1>3. ASSUME NEW h, NEW low, NEW high, forest' = CreateNode(forest, h, low, high)[2]
      PROVE  forest'.headers = forest.headers
  BY <1>0, <1>3 DEF CreateNode, HashCons, Store, Forest
<1>4. ASSUME NEW key, NEW i, forest' = Remember(forest, key, i)
      PROVE  forest'.headers = forest.headers
  BY <1>0, <1>4 DEF Remember, Forest
<1>5. forest' = ClearCache(forest) => forest'.headers = forest.headers
  BY <1>0 DEF ClearCache, Forest
<1>6. ASSUME NEW live, forest' = Swept(forest, live)
      PROVE  forest'.headers = forest.headers
  BY <1>0, <1>6 DEF Swept, Forest
<1> QED BY <1>1, <1>2, <1>3, <1>4, <1>5, <1>6 DEF Step

(* Nodes in use in both forests have the same ways in both.                *)
LEMMA WaysKept ==
  ASSUME NEW a, NEW b, ForestOK(a), ForestOK(b),
         \A i \in Live(a) \cap Live(b) : At(b, i) = At(a, i)
  PROVE  \A i \in Live(a) \cap Live(b) : Ways(b, i) = Ways(a, i)
<1> DEFINE B == {i \in Inner(a) \cap Live(b) : Ways(b, i) # Ways(a, i)}
<1>1. \A i \in Terminals : Ways(b, i) = Ways(a, i)
  BY WaysUnfold DEF Terminals
<1>2. B = {}
  <2> SUFFICES ASSUME B # {} PROVE FALSE
    OBVIOUS
  <2>1. B \in SUBSET Inner(a)
    OBVIOUS
  <2>2. PICK i \in B : Low(a, i) \in Live(a) \ B /\ High(a, i) \in Live(a) \ B
    <3> HIDE DEF B
    <3> QED BY <2>1, LowestNode
  <2>3. i \in Inner(b) /\ At(b, i) = At(a, i)
    BY DEF Inner
  <2>4. Low(b, i) \in Live(b) /\ High(b, i) \in Live(b)
    BY <2>3, NodeFacts
  <2>5. Low(b, i) = Low(a, i) /\ High(b, i) = High(a, i)
    BY <2>3 DEF Low, High
  <2>6. Ways(b, Low(a, i)) = Ways(a, Low(a, i)) /\ Ways(b, High(a, i)) = Ways(a, High(a, i))
    BY <1>1, <2>2, <2>4, <2>5 DEF Inner
  <2>7. Ways(b, i) = Ways(a, Low(a, i)) \cup Taking(At(a, i).header, Ways(a, High(a, i)))
    BY <2>3, <2>5, <2>6, WaysUnfold
  <2>8. Ways(a, i) = Ways(a, Low(a, i)) \cup Taking(At(a, i).header, Ways(a, High(a, i)))
    BY WaysUnfold
  <2>9. Ways(b, i) # Ways(a, i)
    OBVIOUS
  <2> QED BY <2>7, <2>8, <2>9, Zenon
<1> QED BY <1>1, <1>2 DEF Inner

(* And, if the headers are still there, the same family.                   *)
LEMMA SetsKept ==
  ASSUME NEW a, NEW b, ForestOK(a), ForestOK(b), HeadersKept(a, b),
         \A i \in Live(a) \cap Live(b) : At(b, i) = At(a, i)
  PROVE  \A i \in Live(a) \cap Live(b) : Sets(b, i) = Sets(a, i)
<1> SUFFICES ASSUME NEW i \in Live(a), i \in Live(b) PROVE Sets(b, i) = Sets(a, i)
  OBVIOUS
<1>1. Ways(b, i) = Ways(a, i)
  BY WaysKept
<1>2. \A w \in Ways(a, i) : w[1] \subseteq Headers(a)
  BY WaysShape DEF IsWay
<1>3. ASSUME NEW s \in SUBSET Headers(a)
      PROVE  Labelled(b, s) = Labelled(a, s)
  <2>1. \A h \in s : HeaderLabel(b, h) = HeaderLabel(a, h)
    BY DEF HeadersKept, HeaderLabel
  <2> QED BY <2>1 DEF Labelled
<1>4. \A w \in Ways(a, i) : Labelled(b, w[1]) = Labelled(a, w[1])
  BY <1>2, <1>3
<1> QED BY <1>1, <1>4 DEF Sets

(* A family that is kept stays what it was: neither new headers nor a slot *)
(* recycled elsewhere reach it (zdd.rs: create_header, new_nonterminal,    *)
(* gc).                                                                    *)
SameFamilies == \A i \in Live(forest) \cap Live(forest') : Sets(forest', i) = Sets(forest, i)

THEOREM FamiliesAreKept == ForestSpec => FamiliesKept
<1>1. ASSUME ForestOK(forest), Step PROVE SameFamilies
  <2>1. ForestOK(forest') /\ Kept /\ HeadersKept(forest, forest')
    BY <1>1, StepKeeps, StepKeepsHeaders
  <2> QED BY <1>1, <2>1, SetsKept DEF SameFamilies, Kept
<1>2. ForestOK(forest) /\ [Step]_forest => [SameFamilies]_forest
  BY <1>1
<1>3. ForestSpec => [][SameFamilies]_forest
  BY <1>2, ForestOKHolds, PTL DEF ForestSpec
<1> QED BY <1>3 DEF FamiliesKept, SameFamilies

(* The node create_node returns has the ways its children have, those of   *)
(* the high one with the header, whether the node was left out, found in   *)
(* the unique table or stored in a recycled slot.                          *)
THEOREM CreateNodeMeans ==
  ASSUME NEW a, ForestOK(a), NEW h \in Headers(a), NEW low, NEW high,
         Fits(a, low, HeaderLevel(a, h)), Fits(a, high, HeaderLevel(a, h))
  PROVE  LET r == CreateNode(a, h, low, high)
         IN Ways(r[2], r[1]) = Ways(a, low) \cup Taking(h, Ways(a, high))
<1> DEFINE r == CreateNode(a, h, low, high)
<1>1. CASE high = Zero
  <2>1. r[1] = low /\ r[2] = a
    BY <1>1 DEF CreateNode
  <2>2. Ways(a, high) = {}
    BY <1>1, WaysUnfold
  <2>3. Taking(h, Ways(a, high)) = {}
    BY <2>2 DEF Taking
  <2> HIDE DEF r
  <2>4. Ways(a, low) = Ways(a, low) \cup Taking(h, Ways(a, high))
    BY <2>3
  <2> QED BY <2>1, <2>4 DEF r
<1>2. CASE high # Zero
  <2> DEFINE n == [header |-> h, low |-> low, high |-> high]
             q == HashCons(a, n)
  <2>1. r = q
    BY <1>2 DEF CreateNode
  <2>2. /\ ForestOK(q[2]) /\ Preserves(a, q[2])
        /\ q[1] \in Inner(q[2]) /\ At(q[2], q[1]) = n
    BY <1>2, HashConsOK
  <2> HIDE DEF r, q
  <2>3. Low(q[2], q[1]) = low /\ High(q[2], q[1]) = high /\ At(q[2], q[1]).header = h
    BY <2>2 DEF Low, High
  <2>4. low \in Live(a) /\ high \in Live(a)
    BY DEF Fits
  <2>5. \A i \in Live(a) : Ways(q[2], i) = Ways(a, i)
    BY <2>2, WaysKept DEF Preserves
  <2>6. Ways(q[2], q[1]) = Ways(q[2], low) \cup Taking(h, Ways(q[2], high))
    BY <2>2, <2>3, WaysUnfold
  <2> QED BY <2>1, <2>4, <2>5, <2>6 DEF r
<1> QED BY <1>1, <1>2

----------------------------------------------------------------------------
(* Families of sets: those without x, and those with it.                   *)

Added(x, F) == {s \cup {x} : s \in F}

SplitBy(F, x, F0, F1) ==
  /\ F = F0 \cup Added(x, F1)
  /\ \A s \in F0 : x \notin s
  /\ \A s \in F1 : x \notin s

LEMMA AddedOnce ==
  ASSUME NEW x, NEW s, NEW t, x \notin s, x \notin t, s \cup {x} = t \cup {x}
  PROVE  s = t
  OBVIOUS

LEMMA UnionSplits ==
  ASSUME NEW x, NEW F, NEW F0, NEW F1, NEW G, NEW G0, NEW G1,
         SplitBy(F, x, F0, F1), SplitBy(G, x, G0, G1)
  PROVE  SplitBy(F \cup G, x, F0 \cup G0, F1 \cup G1)
<1>1. Added(x, F1 \cup G1) = Added(x, F1) \cup Added(x, G1)
  BY DEF Added
<1> HIDE DEF Added
<1> QED BY <1>1 DEF SplitBy

LEMMA DifferenceSplits ==
  ASSUME NEW x, NEW F, NEW F0, NEW F1, NEW G, NEW G0, NEW G1,
         SplitBy(F, x, F0, F1), SplitBy(G, x, G0, G1)
  PROVE  SplitBy(F \ G, x, F0 \ G0, F1 \ G1)
<1>1. \A s \in F0 : s \notin Added(x, G1)
  BY DEF SplitBy, Added
<1>2. \A s \in G0 : s \notin Added(x, F1)
  BY DEF SplitBy, Added
<1>3. \A s \in F1 : s \cup {x} \in Added(x, G1) => s \in G1
  <2> SUFFICES ASSUME NEW s \in F1, s \cup {x} \in Added(x, G1) PROVE s \in G1
    OBVIOUS
  <2>1. PICK t \in G1 : s \cup {x} = t \cup {x}
    BY DEF Added
  <2>2. s = t
    BY <2>1, AddedOnce DEF SplitBy
  <2> QED BY <2>2
<1>4. Added(x, F1) \ Added(x, G1) = Added(x, F1 \ G1)
  <2>1. \A u : u \in Added(x, F1) \ Added(x, G1) => u \in Added(x, F1 \ G1)
    BY DEF Added
  <2>2. \A u : u \in Added(x, F1 \ G1) => u \in Added(x, F1) \ Added(x, G1)
    <3> SUFFICES ASSUME NEW s \in F1 \ G1
                 PROVE  s \cup {x} \in Added(x, F1) \ Added(x, G1)
      BY DEF Added
    <3>1. s \cup {x} \in Added(x, F1)
      BY DEF Added
    <3> QED BY <1>3, <3>1
  <2> QED BY <2>1, <2>2
<1> HIDE DEF Added
<1> QED BY <1>1, <1>2, <1>4 DEF SplitBy

Products(F, G) == {s \cup t : s \in F, t \in G}

LEMMA ProductOfTwo ==
  ASSUME NEW F, NEW G, NEW u \in F, NEW v \in G
  PROVE  u \cup v \in Products(F, G)
  BY DEF Products

LEMMA ProductSplits ==
  ASSUME NEW x, NEW F, NEW F0, NEW F1, NEW G, NEW G0, NEW G1,
         SplitBy(F, x, F0, F1), SplitBy(G, x, G0, G1)
  PROVE  SplitBy(Products(F, G), x, Products(F0, G0),
                 (Products(F1, G1) \cup Products(F1, G0)) \cup Products(F0, G1))
<1> DEFINE H == (Products(F1, G1) \cup Products(F1, G0)) \cup Products(F0, G1)
<1>1. ASSUME NEW s \in F, NEW t \in G
      PROVE  s \cup t \in Products(F0, G0) \cup Added(x, H)
  <2>1. CASE s \in F0 /\ t \in G0
    BY <2>1 DEF Products
  <2>2. ASSUME NEW u \in F1 \cup F0, NEW v \in G1 \cup G0, s \cup t = (u \cup v) \cup {x},
               u \in F1 \/ v \in G1
        PROVE  s \cup t \in Added(x, H)
    <3>1. u \cup v \in H
      BY <2>2 DEF Products
    <3> QED BY <2>2, <3>1 DEF Added
  <2>3. CASE s \notin F0
    <3>1. PICK u \in F1 : s = u \cup {x}
      BY <2>3 DEF SplitBy, Added
    <3>2. t \in G0 \/ \E v \in G1 : t = v \cup {x}
      BY DEF SplitBy, Added
    <3>3. CASE t \in G0
      <4>1. s \cup t = (u \cup t) \cup {x}
        BY <3>1
      <4> QED BY <2>2, <3>3, <4>1
    <3>4. CASE \E v \in G1 : t = v \cup {x}
      <4>1. PICK v \in G1 : t = v \cup {x}
        BY <3>4
      <4>2. s \cup t = (u \cup v) \cup {x}
        BY <3>1, <4>1
      <4> QED BY <2>2, <4>2
    <3> QED BY <3>2, <3>3, <3>4
  <2>4. CASE s \in F0 /\ t \notin G0
    <3>1. PICK v \in G1 : t = v \cup {x}
      BY <2>4 DEF SplitBy, Added
    <3>2. s \cup t = (s \cup v) \cup {x}
      BY <3>1
    <3> QED BY <2>2, <2>4, <3>2
  <2> QED BY <2>1, <2>3, <2>4
<1>2. ASSUME NEW s \in F0, NEW t \in G0
      PROVE  s \cup t \in Products(F, G)
  BY DEF SplitBy, Products
<1>3. ASSUME NEW w \in H
      PROVE  w \cup {x} \in Products(F, G)
  <2>1. \A u \in F1 : u \cup {x} \in F
    BY DEF SplitBy, Added
  <2>2. \A v \in G1 : v \cup {x} \in G
    BY DEF SplitBy, Added
  <2>3. CASE w \in Products(F1, G1)
    <3>1. PICK u \in F1, v \in G1 : w = u \cup v
      BY <2>3 DEF Products
    <3>2. w \cup {x} = (u \cup {x}) \cup (v \cup {x})
      BY <3>1
    <3> QED BY <2>1, <2>2, <3>2, ProductOfTwo, Zenon
  <2>4. CASE w \in Products(F1, G0)
    <3>1. PICK u \in F1, v \in G0 : w = u \cup v
      BY <2>4 DEF Products
    <3>2. w \cup {x} = (u \cup {x}) \cup v /\ v \in G
      BY <3>1 DEF SplitBy
    <3> QED BY <2>1, <3>2, ProductOfTwo, Zenon
  <2>5. CASE w \in Products(F0, G1)
    <3>1. PICK u \in F0, v \in G1 : w = u \cup v
      BY <2>5 DEF Products
    <3>2. w \cup {x} = u \cup (v \cup {x}) /\ u \in F
      BY <3>1 DEF SplitBy
    <3> QED BY <2>2, <3>2, ProductOfTwo, Zenon
  <2> QED BY <2>3, <2>4, <2>5
<1>4. \A w \in Products(F, G) : w \in Products(F0, G0) \cup Added(x, H)
  <2> HIDE DEF H
  <2> QED BY <1>1 DEF Products
<1>5. \A w \in Products(F0, G0) : w \in Products(F, G)
  BY <1>2 DEF Products
<1>6. \A w \in Added(x, H) : w \in Products(F, G)
  <2> HIDE DEF H
  <2> QED BY <1>3 DEF Added
<1>7. (\A w \in Products(F0, G0) : x \notin w) /\ \A w \in H : x \notin w
  BY DEF Products, SplitBy
<1> HIDE DEF H
<1>8. Products(F, G) = Products(F0, G0) \cup Added(x, H)
  BY <1>4, <1>5, <1>6
<1>9. SplitBy(Products(F, G), x, Products(F0, G0), H)
  BY <1>7, <1>8 DEF SplitBy
<1> QED BY <1>9 DEF H

(* What intersect is held to passes from the parts to the whole.           *)
LEMMA AntichainSplits ==
  ASSUME NEW x, NEW F, NEW F0, NEW F1, NEW G, NEW G0, NEW G1,
         SplitBy(F, x, F0, F1), SplitBy(G, x, G0, G1), Antichain(F \cup G)
  PROVE  Antichain(F0 \cup G0) /\ Antichain(F1 \cup G1)
<1>1. Antichain(F0 \cup G0)
  BY DEF SplitBy, Antichain
<1>2. Antichain(F1 \cup G1)
  <2> SUFFICES ASSUME NEW s \in F1 \cup G1, NEW t \in F1 \cup G1, s \subseteq t
               PROVE  s = t
    BY DEF Antichain
  <2>1. \A u \in F1 \cup G1 : u \cup {x} \in F \cup G
    BY DEF SplitBy, Added
  <2>2. s \cup {x} \in F \cup G /\ t \cup {x} \in F \cup G
    BY <2>1
  <2>3. s \cup {x} = t \cup {x}
    <3> DEFINE u == s \cup {x}
               v == t \cup {x}
    <3>1. u \in F \cup G /\ v \in F \cup G /\ u \subseteq v
      BY <2>2
    <3> HIDE DEF u, v
    <3>2. u = v
      BY <3>1, Zenon DEF Antichain
    <3> QED BY <3>2 DEF u, v
  <2> QED BY <2>3, AddedOnce DEF SplitBy
<1> QED BY <1>1, <1>2

LEMMA CommonSplits ==
  ASSUME NEW x, NEW F, NEW F0, NEW F1, NEW G, NEW G0, NEW G1,
         SplitBy(F, x, F0, F1), SplitBy(G, x, G0, G1)
  PROVE  SplitBy(F \cap G, x, F0 \cap G0, F1 \cap G1)
<1>1. SplitBy(F \ G, x, F0 \ G0, F1 \ G1)
  BY DifferenceSplits, Zenon
<1>2. SplitBy(F \ (F \ G), x, F0 \ (F0 \ G0), F1 \ (F1 \ G1))
  BY <1>1, DifferenceSplits, Zenon
<1>3. \A X, Y : X \ (X \ Y) = X \cap Y
  OBVIOUS
<1> QED BY <1>2, <1>3, Zenon

LEMMA AddedGrows ==
  ASSUME NEW x, NEW F, NEW G, F \subseteq G
  PROVE  Added(x, F) \subseteq Added(x, G)
  BY DEF Added

LEMMA IntersectionSplits ==
  ASSUME NEW x, NEW F, NEW F0, NEW F1, NEW G, NEW G0, NEW G1, NEW R0, NEW R1,
         SplitBy(F, x, F0, F1), SplitBy(G, x, G0, G1),
         IntersectedWell(F0, G0, R0), IntersectedWell(F1, G1, R1)
  PROVE  IntersectedWell(F, G, R0 \cup Added(x, R1))
<1> DEFINE R == R0 \cup Added(x, R1)
<1>1. F \cap G = (F0 \cap G0) \cup Added(x, F1 \cap G1)
  <2>1. SplitBy(F \cap G, x, F0 \cap G0, F1 \cap G1)
    BY CommonSplits, Zenon
  <2> QED BY <2>1 DEF SplitBy
<1>2. F \cup G = (F0 \cup G0) \cup Added(x, F1 \cup G1)
  <2>1. SplitBy(F \cup G, x, F0 \cup G0, F1 \cup G1)
    BY UnionSplits, Zenon
  <2> QED BY <2>1 DEF SplitBy
<1>3. /\ Added(x, F1 \cap G1) \subseteq Added(x, R1)
      /\ Added(x, R1) \subseteq Added(x, F1 \cup G1)
  BY AddedGrows DEF IntersectedWell
<1>4. F \cap G \subseteq R /\ R \subseteq F \cup G
  <2> HIDE DEF Added
  <2> QED BY <1>1, <1>2, <1>3 DEF IntersectedWell
<1>5. ASSUME Antichain(F \cup G) PROVE R = F \cap G
  <2>1. Antichain(F0 \cup G0) /\ Antichain(F1 \cup G1)
    BY <1>5, AntichainSplits
  <2>2. R0 = F0 \cap G0 /\ R1 = F1 \cap G1
    BY <2>1 DEF IntersectedWell
  <2> QED BY <1>1, <2>2
<1> QED BY <1>4, <1>5 DEF IntersectedWell

(* One family has the variable, and intersect follows the sets without it. *)
LEMMA IntersectionSkips ==
  ASSUME NEW x, NEW F, NEW F0, NEW F1, NEW G, NEW R,
         SplitBy(F, x, F0, F1), \A s \in G : x \notin s, IntersectedWell(F0, G, R)
  PROVE  IntersectedWell(F, G, R) /\ IntersectedWell(G, F, R)
<1>1. F0 \subseteq F /\ F \cap G = F0 \cap G
  BY DEF SplitBy, Added
<1>2. Antichain(F \cup G) => Antichain(F0 \cup G)
  BY <1>1 DEF Antichain
<1>3. IntersectedWell(F, G, R)
  BY <1>1, <1>2 DEF IntersectedWell
<1>4. F \cap G = G \cap F /\ F \cup G = G \cup F
  OBVIOUS
<1> QED BY <1>3, <1>4 DEF IntersectedWell

----------------------------------------------------------------------------
(* What a node denotes, by its label and its edges.                        *)

(* A level has one label, and a label one level.                           *)
LevelsLabelled(a) ==
  \A h, k \in Headers(a) :
    HeaderLevel(a, h) = HeaderLevel(a, k) <=> HeaderLabel(a, h) = HeaderLabel(a, k)

NoUndetBelow(a) == \A i \in Inner(a) : Undet \notin Kids(a, i)

(* The forests of the set algebra.                                         *)
FamiliesOK(a) == ForestOK(a) /\ LevelsLabelled(a) /\ NoUndetBelow(a)

NodeLabel(a, i) == HeaderLabel(a, HeaderOf(a, i))

FamilyOf(a, ways) == {Labelled(a, w[1]) : w \in {v \in ways : v[2] = One}}

LEMMA SetsOfWays ==
  ASSUME NEW a, NEW h, NEW L, NEW H,
         \A w \in H : w = <<w[1], w[2]>>
  PROVE  FamilyOf(a, L \cup Taking(h, H)) =
           FamilyOf(a, L) \cup Added(HeaderLabel(a, h), FamilyOf(a, H))
<1> DEFINE N == L \cup Taking(h, H)
           SL == {Labelled(a, w[1]) : w \in {v \in L : v[2] = One}}
           SH == {Labelled(a, w[1]) : w \in {v \in H : v[2] = One}}
           SN == {Labelled(a, w[1]) : w \in {v \in N : v[2] = One}}
           x == HeaderLabel(a, h)
<1>1. \A s : Labelled(a, s \cup {h}) = Labelled(a, s) \cup {x}
  BY DEF Labelled
<1> HIDE DEF x
<1>2. ASSUME NEW w \in N, w[2] = One PROVE Labelled(a, w[1]) \in SL \cup Added(x, SH)
  <2>1. CASE w \in L
    BY <1>2, <2>1
  <2>2. CASE w \in Taking(h, H)
    <3>1. PICK v \in H : w = <<v[1] \cup {h}, v[2]>>
      BY <2>2 DEF Taking
    <3>2. v[2] = One /\ w[1] = v[1] \cup {h}
      BY <1>2, <3>1
    <3>3. Labelled(a, v[1]) \in SH
      BY <3>2
    <3>4. Labelled(a, w[1]) = Labelled(a, v[1]) \cup {x}
      BY <1>1, <3>2
    <3> HIDE DEF SH
    <3> QED BY <3>3, <3>4 DEF Added
  <2> QED BY <2>1, <2>2
<1>3. ASSUME NEW w \in H, w[2] = One PROVE Labelled(a, w[1]) \cup {x} \in SN
  <2> DEFINE v == <<w[1] \cup {h}, w[2]>>
  <2>1. v \in N /\ v[2] = One /\ v[1] = w[1] \cup {h}
    BY <1>3 DEF Taking
  <2>2. Labelled(a, v[1]) = Labelled(a, w[1]) \cup {x}
    BY <1>1, <2>1
  <2> HIDE DEF v, N
  <2> QED BY <2>1, <2>2
<1>4. SL \subseteq SN
  OBVIOUS
<1>5. SN \subseteq SL \cup Added(x, SH)
  <2> HIDE DEF N, SL, SH
  <2> QED BY <1>2 DEF SN
<1>6. Added(x, SH) \subseteq SN
  <2> SUFFICES ASSUME NEW s \in SH PROVE s \cup {x} \in SN
    <3> HIDE DEF SH, SN
    <3> QED BY DEF Added
  <2>1. PICK w \in H : w[2] = One /\ s = Labelled(a, w[1])
    OBVIOUS
  <2> HIDE DEF SN
  <2> QED BY <1>3, <2>1
<1>7. SN = SL \cup Added(x, SH)
  <2> HIDE DEF SN, SL, SH
  <2> QED BY <1>4, <1>5, <1>6
<1> QED BY <1>7, Zenon DEF x, FamilyOf

LEMMA SetsUnfold ==
  ASSUME NEW a, ForestOK(a)
  PROVE  /\ Sets(a, Zero) = {} /\ Sets(a, One) = {{}} /\ Sets(a, Undet) = {}
         /\ \A i \in Inner(a) :
              Sets(a, i) = Sets(a, Low(a, i)) \cup Added(NodeLabel(a, i), Sets(a, High(a, i)))
<1>1. Sets(a, Zero) = {}
  BY WaysUnfold DEF Sets
<1>2. Sets(a, One) = {{}}
  <2>1. Ways(a, One) = {<<{}, One>>}
    BY WaysUnfold
  <2>2. {v \in Ways(a, One) : v[2] = One} = {<<{}, One>>}
    BY <2>1
  <2>3. Sets(a, One) = {Labelled(a, <<{}, One>>[1])}
    BY <2>2 DEF Sets
  <2>4. Labelled(a, {}) = {}
    BY DEF Labelled
  <2> QED BY <2>3, <2>4
<1>3. Sets(a, Undet) = {}
  <2>1. Ways(a, Undet) = {<<{}, Undet>>}
    BY WaysUnfold
  <2> QED BY <2>1 DEF Sets, One, Undet
<1>4. ASSUME NEW i \in Inner(a)
      PROVE  Sets(a, i) = Sets(a, Low(a, i)) \cup Added(NodeLabel(a, i), Sets(a, High(a, i)))
  <2>1. Ways(a, i) = Ways(a, Low(a, i)) \cup Taking(HeaderOf(a, i), Ways(a, High(a, i)))
    BY WaysUnfold DEF HeaderOf
  <2>2. High(a, i) \in Live(a)
    BY NodeFacts
  <2>3. \A w \in Ways(a, High(a, i)) : w = <<w[1], w[2]>>
    BY <2>2, WaysShape DEF IsWay
  <2>4. \A j : Sets(a, j) = FamilyOf(a, Ways(a, j))
    BY DEF Sets, FamilyOf
  <2> DEFINE L == Ways(a, Low(a, i))
             H == Ways(a, High(a, i))
             h == HeaderOf(a, i)
  <2>5. \A w \in H : w = <<w[1], w[2]>>
    BY <2>3
  <2>6. FamilyOf(a, L \cup Taking(h, H)) =
          FamilyOf(a, L) \cup Added(HeaderLabel(a, h), FamilyOf(a, H))
    <3> HIDE DEF L, H, h
    <3> QED BY <2>5, SetsOfWays
  <2>7. Sets(a, i) = FamilyOf(a, L \cup Taking(h, H))
    BY <2>1, <2>4, Zenon
  <2> QED BY <2>4, <2>6, <2>7, Zenon DEF NodeLabel
<1> QED BY <1>1, <1>2, <1>3, <1>4

(* The labels in the sets of a node have its level or a lower one.         *)
LEMMA LabelsBelow ==
  ASSUME NEW a, ForestOK(a), NEW i \in Live(a), NEW s \in Sets(a, i), NEW y \in s
  PROVE  \E h \in Headers(a) : HeaderLabel(a, h) = y /\ HeaderLevel(a, h) <= Level(a, i)
<1>1. PICK w \in Ways(a, i) : s = Labelled(a, w[1])
  BY DEF Sets
<1>2. IsWay(a, Level(a, i), w)
  BY WaysShape
<1>3. PICK h \in w[1] : y = HeaderLabel(a, h)
  BY <1>1 DEF Labelled
<1> QED BY <1>2, <1>3 DEF IsWay

LEMMA LabelIsFresh ==
  ASSUME NEW a, ForestOK(a), LevelsLabelled(a), NEW h \in Headers(a), NEW j \in Live(a),
         Level(a, j) < HeaderLevel(a, h)
  PROVE  \A s \in Sets(a, j) : HeaderLabel(a, h) \notin s
<1> SUFFICES ASSUME NEW s \in Sets(a, j), HeaderLabel(a, h) \in s PROVE FALSE
  OBVIOUS
<1>1. PICK k \in Headers(a) :
        HeaderLabel(a, k) = HeaderLabel(a, h) /\ HeaderLevel(a, k) <= Level(a, j)
  BY LabelsBelow
<1>2. HeaderLevel(a, k) = HeaderLevel(a, h)
  BY <1>1 DEF LevelsLabelled
<1>3. HeaderLevel(a, k) \in Nat /\ Level(a, j) \in Int
  BY HeaderFacts, NodeFacts
<1> QED BY <1>1, <1>2, <1>3

(* A node splits its family by its label, and so may any family below it.  *)
LEMMA NodeSplits ==
  ASSUME NEW a, ForestOK(a), LevelsLabelled(a), NEW i \in Inner(a)
  PROVE  SplitBy(Sets(a, i), NodeLabel(a, i), Sets(a, Low(a, i)), Sets(a, High(a, i)))
<1> DEFINE h == HeaderOf(a, i)
<1>1. /\ h \in Headers(a) /\ Level(a, i) = HeaderLevel(a, h)
      /\ Low(a, i) \in Live(a) /\ Level(a, Low(a, i)) < Level(a, i)
      /\ High(a, i) \in Live(a) /\ Level(a, High(a, i)) < Level(a, i)
  BY NodeFacts DEF HeaderOf
<1>2. /\ \A s \in Sets(a, Low(a, i)) : HeaderLabel(a, h) \notin s
      /\ \A s \in Sets(a, High(a, i)) : HeaderLabel(a, h) \notin s
  BY <1>1, LabelIsFresh
<1>3. Sets(a, i) = Sets(a, Low(a, i)) \cup Added(NodeLabel(a, i), Sets(a, High(a, i)))
  BY SetsUnfold
<1> QED BY <1>2, <1>3 DEF SplitBy, NodeLabel

LEMMA LowerSplits ==
  ASSUME NEW a, ForestOK(a), LevelsLabelled(a), NEW i \in Inner(a), NEW j \in Live(a),
         Level(a, j) < Level(a, i)
  PROVE  SplitBy(Sets(a, j), NodeLabel(a, i), Sets(a, j), {})
<1>1. HeaderOf(a, i) \in Headers(a) /\ Level(a, i) = HeaderLevel(a, HeaderOf(a, i))
  BY NodeFacts DEF HeaderOf
<1>2. \A s \in Sets(a, j) : NodeLabel(a, i) \notin s
  BY <1>1, LabelIsFresh DEF NodeLabel
<1> QED BY <1>2 DEF SplitBy, Added

LEMMA SameLevelSameLabel ==
  ASSUME NEW a, ForestOK(a), LevelsLabelled(a), NEW i \in Inner(a), NEW j \in Inner(a),
         Level(a, i) = Level(a, j)
  PROVE  NodeLabel(a, i) = NodeLabel(a, j)
<1>1. /\ HeaderOf(a, i) \in Headers(a) /\ Level(a, i) = HeaderLevel(a, HeaderOf(a, i))
      /\ HeaderOf(a, j) \in Headers(a) /\ Level(a, j) = HeaderLevel(a, HeaderOf(a, j))
  BY NodeFacts DEF HeaderOf
<1> QED BY <1>1 DEF LevelsLabelled, NodeLabel

(* Every node but Zero and Undet denotes some set.                         *)
LEMMA SetsExist ==
  ASSUME NEW a, FamiliesOK(a)
  PROVE  \A i \in Live(a) : i \notin {Zero, Undet} => Sets(a, i) # {}
<1> DEFINE B == {i \in Inner(a) : Sets(a, i) = {}}
<1>0. ForestOK(a)
  BY DEF FamiliesOK
<1>1. B = {}
  <2> SUFFICES ASSUME B # {} PROVE FALSE
    OBVIOUS
  <2>1. B \in SUBSET Inner(a)
    OBVIOUS
  <2>2. PICK i \in B : High(a, i) \in Live(a) \ B
    <3> HIDE DEF B
    <3> QED BY <1>0, <2>1, LowestNode
  <2>3. High(a, i) # Zero /\ High(a, i) # Undet
    BY <1>0, NodeFacts DEF FamiliesOK, NoUndetBelow, Kids
  <2>4. Sets(a, High(a, i)) # {}
    <3>1. CASE High(a, i) = One
      BY <1>0, <3>1, SetsUnfold
    <3>2. CASE High(a, i) # One
      BY <2>2, <2>3, <3>2 DEF Inner, Terminals
    <3> QED BY <3>1, <3>2
  <2>5. Added(NodeLabel(a, i), Sets(a, High(a, i))) # {}
    BY <2>4 DEF Added
  <2> QED BY <1>0, <2>5, SetsUnfold
<1>2. Sets(a, One) # {}
  BY <1>0, SetsUnfold
<1> QED BY <1>1, <1>2 DEF Inner, Terminals

----------------------------------------------------------------------------
(* What calls return.                                                      *)

(* The result is an answer, and a call never returns a node above its      *)
(* operands (divide aside, on whose result no node is built).              *)
NoHigher(a, f, g, r) == Level(a, r) <= Level(a, f) \/ Level(a, r) <= Level(a, g)

Sound(a, op, f, g, r) ==
  /\ op \in ZddOp
  /\ Answers(a, op, f, g, r)
  /\ op # "divide" => NoHigher(a, f, g, r)

Holds(op, F, G, R) == IF op = "intersect" THEN IntersectedWell(F, G, R) ELSE R = Meaning(op, F, G)

Grown(a, b) == FamiliesOK(b) /\ Preserves(a, b) /\ HeadersKept(a, b) /\ b.memo = a.memo

LEMMA HoldsFor ==
  ASSUME NEW F, NEW G, NEW R
  PROVE  /\ R = F \cup G => Holds("union", F, G, R)
         /\ R = F \ G => Holds("setdiff", F, G, R)
         /\ R = Products(F, G) => Holds("product", F, G, R)
         /\ IntersectedWell(F, G, R) => Holds("intersect", F, G, R)
  BY DEF Holds, Meaning, Products

LEMMA SoundMeans ==
  ASSUME NEW a, NEW op, NEW f, NEW g, NEW r,
         Sound(a, op, f, g, r), op # "divide", f # Undet, g # Undet
  PROVE  /\ r \in Live(a) /\ r # Undet /\ NoHigher(a, f, g, r)
         /\ Holds(op, Sets(a, f), Sets(a, g), Sets(a, r))
  BY DEF Sound, Answers, Holds

LEMMA MeansSound ==
  ASSUME NEW a, NEW op \in ZddOp, NEW f \in Live(a), NEW g \in Live(a), NEW r \in Live(a),
         f # Undet, g # Undet, r # Undet, NoHigher(a, f, g, r),
         Holds(op, Sets(a, f), Sets(a, g), Sets(a, r))
  PROVE  Sound(a, op, f, g, r)
  BY DEF Sound, Answers, Holds

(* Slots that are in use before and after keep their level.                *)
LEMMA LevelsKept ==
  ASSUME NEW a, NEW b, ForestOK(a), ForestOK(b), HeadersKept(a, b),
         \A i \in Live(a) \cap Live(b) : At(b, i) = At(a, i)
  PROVE  \A i \in Live(a) \cap Live(b) : Level(b, i) = Level(a, i)
<1> SUFFICES ASSUME NEW i \in Live(a), i \in Live(b), i \notin Terminals
             PROVE  Level(b, i) = Level(a, i)
  BY DEF Level
<1>1. i \in Inner(a)
  BY DEF Inner
<1>2. At(a, i).header \in Headers(a)
  BY <1>1, NodeFacts
<1>3. HeaderLevel(b, At(a, i).header) = HeaderLevel(a, At(a, i).header)
  BY <1>2 DEF HeadersKept, HeaderLevel
<1> QED BY <1>3 DEF Level

(* An answer stays one while its slots stay in use.                        *)
LEMMA SoundKept ==
  ASSUME NEW a, NEW b, FamiliesOK(a), FamiliesOK(b), HeadersKept(a, b),
         \A i \in Live(a) \cap Live(b) : At(b, i) = At(a, i),
         NEW op, NEW f, NEW g, NEW r, Sound(a, op, f, g, r), {f, g, r} \subseteq Live(b)
  PROVE  Sound(b, op, f, g, r)
<1>0. ForestOK(a) /\ ForestOK(b)
  BY DEF FamiliesOK
<1>1. f \in Live(a) /\ g \in Live(a) /\ r \in Live(a)
  BY DEF Sound, Answers
<1>2. Sets(b, f) = Sets(a, f) /\ Sets(b, g) = Sets(a, g) /\ Sets(b, r) = Sets(a, r)
  BY <1>0, <1>1, SetsKept
<1>3. Level(b, f) = Level(a, f) /\ Level(b, g) = Level(a, g) /\ Level(b, r) = Level(a, r)
  BY <1>0, <1>1, LevelsKept
<1>4. Answers(b, op, f, g, r)
  BY <1>2, Zenon DEF Sound, Answers
<1> QED BY <1>3, <1>4 DEF Sound, NoHigher

----------------------------------------------------------------------------
(* The arms without calls.                                                 *)

LEMMA TerminalFacts ==
  ASSUME NEW a, ForestOK(a)
  PROVE  /\ Zero \in Live(a) /\ One \in Live(a) /\ Undet \in Live(a)
         /\ Level(a, Zero) = -1 /\ Level(a, One) = -1 /\ Level(a, Undet) = -1
         /\ \A i \in Live(a) : i # NoId /\ Level(a, i) \in Int /\ -1 <= Level(a, i)
  BY NodeFacts DEF Terminals, NoId

LEMMA DecideSound ==
  ASSUME NEW a, FamiliesOK(a), NEW op \in ZddOp, NEW f \in Live(a), NEW g \in Live(a),
         Immediate(op, f, g) # NoId
  PROVE  Sound(a, op, f, g, Immediate(op, f, g))
<1>0. ForestOK(a)
  BY DEF FamiliesOK
<1>1. f = g /\ op \in {"intersect", "union", "setdiff"}
  BY DEF Immediate, ZddOp
<1>2. Level(a, f) \in Int /\ -1 <= Level(a, f) /\ Zero \in Live(a) /\ Level(a, Zero) = -1
  BY <1>0, TerminalFacts
<1>3. CASE f = Undet
  <2>1. Immediate(op, f, g) = Undet
    BY <1>1, <1>3 DEF Immediate
  <2>2. WithUndet(op, f, g) = Undet
    BY <1>1, <1>3 DEF WithUndet, Other
  <2> QED BY <1>1, <1>2, <1>3, <2>1, <2>2 DEF Sound, Answers, NoHigher
<1>4. CASE f # Undet /\ op \in {"intersect", "union"}
  <2>1. Immediate(op, f, g) = f
    BY <1>1, <1>4 DEF Immediate
  <2>2. Holds(op, Sets(a, f), Sets(a, f), Sets(a, f))
    <3>1. IntersectedWell(Sets(a, f), Sets(a, f), Sets(a, f))
      BY DEF IntersectedWell
    <3>2. Sets(a, f) = Sets(a, f) \cup Sets(a, f)
      OBVIOUS
    <3> QED BY <1>4, <3>1, <3>2, HoldsFor
  <2> QED BY <1>1, <1>2, <1>4, <2>1, <2>2, MeansSound DEF NoHigher
<1>5. CASE f # Undet /\ op = "setdiff"
  <2>1. Immediate(op, f, g) = Zero
    BY <1>1, <1>5 DEF Immediate
  <2>2. Sets(a, Zero) = {}
    BY <1>0, SetsUnfold
  <2>3. Holds(op, Sets(a, f), Sets(a, f), Sets(a, Zero))
    <3>1. Sets(a, Zero) = Sets(a, f) \ Sets(a, f)
      BY <2>2
    <3> QED BY <1>5, <3>1, HoldsFor
  <2>4. Zero # Undet
    BY DEF Zero, Undet
  <2> QED BY <1>1, <1>2, <1>5, <2>1, <2>3, <2>4, MeansSound DEF NoHigher
<1> QED BY <1>1, <1>3, <1>4, <1>5

(* intersect takes {{}} for neutral; antichains do not notice.             *)
LEMMA OneIsNeutral ==
  ASSUME NEW F, F # {}
  PROVE  IntersectedWell({{}}, F, F) /\ IntersectedWell(F, {{}}, F)
<1>1. ASSUME Antichain({{}} \cup F) PROVE F = {{}}
  <2>1. \A s \in F : {} = s
    <3> SUFFICES ASSUME NEW s \in F PROVE {} = s
      OBVIOUS
    <3>1. {} \in {{}} \cup F /\ s \in {{}} \cup F /\ {} \subseteq s
      OBVIOUS
    <3> QED BY <1>1, <3>1, Zenon DEF Antichain
  <2> QED BY <2>1
<1>2. {{}} \cup F = F \cup {{}} /\ {{}} \cap F = F \cap {{}}
  OBVIOUS
<1>3. Antichain({{}} \cup F) => F = {{}} \cap F
  BY <1>1
<1>4. {{}} \cap F \subseteq F /\ F \subseteq {{}} \cup F
  OBVIOUS
<1>5. IntersectedWell({{}}, F, F)
  BY <1>3, <1>4 DEF IntersectedWell
<1>6. IntersectedWell(F, {{}}, F)
  BY <1>2, <1>3, <1>4 DEF IntersectedWell
<1> QED BY <1>5, <1>6

LEMMA OneMultiplies ==
  ASSUME NEW F
  PROVE  Products({{}}, F) = F /\ Products(F, {{}}) = F
<1>1. \A s : {} \cup s = s /\ s \cup {} = s
  OBVIOUS
<1> QED BY <1>1 DEF Products

LEMMA SettleSound ==
  ASSUME NEW a, FamiliesOK(a), NEW op \in ZddOp, NEW f \in Live(a), NEW g \in Live(a),
         Settled(op, f, g) # NoId
  PROVE  Sound(a, op, f, g, Settled(op, f, g))
<1> DEFINE r == Settled(op, f, g)
<1>0. ForestOK(a)
  BY DEF FamiliesOK
<1>1. /\ Zero \in Live(a) /\ One \in Live(a) /\ Undet \in Live(a)
      /\ Level(a, Zero) = -1 /\ Level(a, One) = -1 /\ Level(a, Undet) = -1
      /\ Level(a, f) \in Int /\ -1 <= Level(a, f) /\ Level(a, g) \in Int /\ -1 <= Level(a, g)
      /\ f # NoId /\ g # NoId
  BY <1>0, TerminalFacts
<1>2. Zero # Undet /\ One # Undet /\ Zero # One
  BY DEF Zero, One, Undet
<1>3. Sets(a, Zero) = {} /\ Sets(a, One) = {{}}
  BY <1>0, SetsUnfold
<1>4. /\ f \notin {Zero, Undet} => Sets(a, f) # {}
      /\ g \notin {Zero, Undet} => Sets(a, g) # {}
  BY SetsExist
<1>5. r \in {f, g, Zero, Undet}
  BY DEF Settled, Intersected, United, Subtracted, Multiplied, Divided, Other, ZddOp
<1>6. r \in Live(a) /\ NoHigher(a, f, g, r)
  BY <1>1, <1>5 DEF NoHigher
<1>7. CASE op = "divide"
  BY <1>6, <1>7 DEF Sound, Answers
<1>8. CASE op # "divide" /\ Undet \in {f, g}
  <2>1. r = WithUndet(op, f, g)
    BY <1>2, <1>8 DEF Settled, Intersected, United, Subtracted, Multiplied, Other, WithUndet, ZddOp
  <2> QED BY <1>6, <1>8, <2>1 DEF Sound, Answers
<1>9. CASE op = "intersect" /\ Undet \notin {f, g}
  <2>1. \/ Zero \in {f, g} /\ r = Zero
        \/ Zero \notin {f, g} /\ f = One /\ r = g
        \/ Zero \notin {f, g} /\ g = One /\ r = f
    BY <1>9 DEF Settled, Intersected, Other
  <2>2. Holds(op, Sets(a, f), Sets(a, g), Sets(a, r))
    <3>1. CASE Zero \in {f, g} /\ r = Zero
      BY <1>3, <1>9, <3>1 DEF Holds, IntersectedWell
    <3>2. CASE Zero \notin {f, g} /\ f = One /\ r = g
      BY <1>3, <1>4, <1>9, <3>2, OneIsNeutral DEF Holds
    <3>3. CASE Zero \notin {f, g} /\ g = One /\ r = f
      BY <1>3, <1>4, <1>9, <3>3, OneIsNeutral DEF Holds
    <3> QED BY <2>1, <3>1, <3>2, <3>3
  <2> QED BY <1>2, <1>6, <1>9, <2>1, <2>2, MeansSound
<1>10. CASE op = "union" /\ Undet \notin {f, g}
  <2>1. (f = Zero /\ r = g) \/ (g = Zero /\ r = f)
    BY <1>10 DEF Settled, United, Other
  <2>2. Holds(op, Sets(a, f), Sets(a, g), Sets(a, r))
    <3>1. Sets(a, r) = Sets(a, f) \cup Sets(a, g)
      BY <1>3, <2>1
    <3> QED BY <1>10, <3>1, HoldsFor
  <2> QED BY <1>6, <1>10, <2>1, <2>2, MeansSound
<1>11. CASE op = "setdiff" /\ Undet \notin {f, g}
  <2>1. Zero \in {f, g} /\ r = f
    BY <1>11 DEF Settled, Subtracted
  <2>2. Holds(op, Sets(a, f), Sets(a, g), Sets(a, r))
    <3>1. Sets(a, r) = Sets(a, f) \ Sets(a, g)
      BY <1>3, <2>1
    <3> QED BY <1>11, <3>1, HoldsFor
  <2> QED BY <1>6, <1>11, <2>1, <2>2, MeansSound
<1>12. CASE op = "product" /\ Undet \notin {f, g}
  <2>1. \/ Zero \in {f, g} /\ r = Zero
        \/ f = One /\ r = g
        \/ g = One /\ r = f
    BY <1>12 DEF Settled, Multiplied, Other
  <2>2. Products(Sets(a, f), Sets(a, g)) = Sets(a, r)
    <3>1. CASE Zero \in {f, g} /\ r = Zero
      BY <1>3, <3>1 DEF Products
    <3>2. CASE f = One /\ r = g
      BY <1>3, <3>2, OneMultiplies
    <3>3. CASE g = One /\ r = f
      BY <1>3, <3>3, OneMultiplies
    <3> QED BY <2>1, <3>1, <3>2, <3>3
  <2>3. Holds(op, Sets(a, f), Sets(a, g), Sets(a, r))
    BY <1>12, <2>2, HoldsFor
  <2> QED BY <1>2, <1>6, <1>12, <2>1, <2>3, MeansSound
<1> QED BY <1>7, <1>8, <1>9, <1>10, <1>11, <1>12 DEF ZddOp

----------------------------------------------------------------------------
(* The arms that make a node.                                              *)

LEMMA HashConsAdds ==
  ASSUME NEW a, ForestOK(a), NEW h \in Headers(a), NEW low, NEW high
  PROVE  LET n == [header |-> h, low |-> low, high |-> high]
             r == HashCons(a, n)
         IN /\ r[2].headers = a.headers /\ r[2].memo = a.memo
            /\ Live(r[2]) \subseteq Live(a) \cup {r[1]}
<1> DEFINE n == [header |-> h, low |-> low, high |-> high]
           r == HashCons(a, n)
<1>1. CASE n \in DOMAIN a.table
  <2>1. r[2] = a
    BY <1>1 DEF HashCons
  <2> HIDE DEF r
  <2> QED BY <2>1 DEF r
<1>2. CASE n \notin DOMAIN a.table
  <2>1. r[1] = NewSlot(a) /\ r[2] = Store(a, n, NewSlot(a))
    BY <1>2 DEF HashCons
  <2>2. IsNode(n) /\ ForestType(a)
    BY DEF IsNode, ForestOK
  <2> HIDE DEF n, r
  <2>3. LET s == NewSlot(a)
            b == Store(a, n, s)
        IN Live(b) = Live(a) \cup {s} /\ b.headers = a.headers /\ b.memo = a.memo
    BY <2>2, StoreNode
  <2> QED BY <2>1, <2>3 DEF r, n
<1> QED BY <1>1, <1>2

LEMMA SetsOfNode ==
  ASSUME NEW a, ForestOK(a), NEW i \in Inner(a), NEW h, NEW low, NEW high,
         At(a, i) = [header |-> h, low |-> low, high |-> high]
  PROVE  /\ Sets(a, i) = Sets(a, low) \cup Added(HeaderLabel(a, h), Sets(a, high))
         /\ Level(a, i) = HeaderLevel(a, h)
         /\ Kids(a, i) = {low, high}
<1>1. Low(a, i) = low /\ High(a, i) = high /\ HeaderOf(a, i) = h
  BY DEF Low, High, HeaderOf
<1>2. Sets(a, i) = Sets(a, Low(a, i)) \cup Added(NodeLabel(a, i), Sets(a, High(a, i)))
  BY SetsUnfold
<1>3. i \notin Terminals
  BY DEF Inner
<1>4. Level(a, i) = HeaderLevel(a, h)
  BY <1>1, <1>3 DEF Level, HeaderOf
<1>5. Kids(a, i) = {low, high}
  BY <1>1, <1>3 DEF Kids
<1> QED BY <1>1, <1>2, <1>4, <1>5 DEF NodeLabel

LEMMA MadeGrows ==
  ASSUME NEW a, FamiliesOK(a), NEW h \in Headers(a), NEW low, NEW high,
         Fits(a, low, HeaderLevel(a, h)), Fits(a, high, HeaderLevel(a, h)),
         Undet \notin {low, high}
  PROVE  LET r == CreateNode(a, h, low, high)
         IN /\ Grown(a, r[2])
            /\ r[1] \in Live(r[2]) /\ r[1] # Undet
            /\ Level(r[2], r[1]) <= HeaderLevel(a, h)
            /\ Sets(r[2], r[1]) = Sets(a, low) \cup Added(HeaderLabel(a, h), Sets(a, high))
<1> DEFINE r == CreateNode(a, h, low, high)
<1>0. ForestOK(a) /\ low \in Live(a) /\ high \in Live(a)
  BY DEF FamiliesOK, Fits
<1>1. CASE high = Zero
  <2>1. r[1] = low /\ r[2] = a
    BY <1>1 DEF CreateNode
  <2>2. Grown(a, a)
    BY DEF Grown, Preserves, HeadersKept
  <2>3. Level(a, low) \in Int /\ HeaderLevel(a, h) \in Int
    BY <1>0, NodeFacts, HeaderFacts
  <2>4. Level(a, low) <= HeaderLevel(a, h)
    BY <2>3 DEF Fits
  <2>5. Sets(a, high) = {}
    BY <1>0, <1>1, SetsUnfold
  <2>6. Sets(a, low) = Sets(a, low) \cup Added(HeaderLabel(a, h), Sets(a, high))
    BY <2>5 DEF Added
  <2> HIDE DEF r
  <2> QED BY <1>0, <2>1, <2>2, <2>4, <2>6, Zenon DEF r
<1>2. CASE high # Zero
  <2> DEFINE n == [header |-> h, low |-> low, high |-> high]
             q == HashCons(a, n)
             b == q[2]
             i == q[1]
  <2>1. r = q
    BY <1>2 DEF CreateNode
  <2>2. ForestOK(b) /\ Preserves(a, b) /\ i \in Inner(b) /\ At(b, i) = n
    <3> HIDE DEF q, n
    <3> QED BY <1>0, <1>2, HashConsOK DEF n, q
  <2>3. b.headers = a.headers /\ b.memo = a.memo /\ Live(b) \subseteq Live(a) \cup {i}
    <3> HIDE DEF q, n
    <3> QED BY <1>0, HashConsAdds DEF n, q
  <2> HIDE DEF q
  <2>4. HeadersKept(a, b) /\ LevelsLabelled(b)
    BY <2>3 DEF HeadersKept, FamiliesOK, LevelsLabelled, Headers, HeaderLevel, HeaderLabel
  <2>5. /\ Sets(b, i) = Sets(b, low) \cup Added(HeaderLabel(b, h), Sets(b, high))
        /\ Level(b, i) = HeaderLevel(b, h)
        /\ Kids(b, i) = {low, high}
    <3> HIDE DEF b, i
    <3> QED BY <2>2, SetsOfNode
  <2>6. HeaderLabel(b, h) = HeaderLabel(a, h) /\ HeaderLevel(b, h) = HeaderLevel(a, h)
    BY <2>3 DEF HeaderLabel, HeaderLevel
  <2>7. \A j \in Live(a) \cap Live(b) : At(b, j) = At(a, j)
    BY <2>2 DEF Preserves
  <2>8. low \in Live(b) /\ high \in Live(b)
    BY <1>0, <2>2 DEF Preserves
  <2>9. Sets(b, low) = Sets(a, low) /\ Sets(b, high) = Sets(a, high)
    BY <1>0, <2>2, <2>4, <2>7, <2>8, SetsKept
  <2>10. NoUndetBelow(b)
    <3> SUFFICES ASSUME NEW j \in Inner(b), j # i PROVE Undet \notin Kids(b, j)
      BY <2>5 DEF NoUndetBelow
    <3>1. j \in Inner(a) /\ At(b, j) = At(a, j)
      BY <2>3, <2>7 DEF Inner
    <3>2. Kids(b, j) = Kids(a, j)
      BY <3>1 DEF Kids, Low, High
    <3> QED BY <3>1, <3>2 DEF FamiliesOK, NoUndetBelow
  <2>11. i \in Live(b) /\ i # Undet
    BY <2>2 DEF Inner, Terminals
  <2>12. HeaderLevel(a, h) \in Int
    BY <1>0, HeaderFacts
  <2>13. Level(b, i) <= HeaderLevel(a, h)
    BY <2>5, <2>6, <2>12
  <2>14. Grown(a, b)
    BY <2>2, <2>3, <2>4, <2>10 DEF Grown, FamiliesOK
  <2>15. Sets(b, i) = Sets(a, low) \cup Added(HeaderLabel(a, h), Sets(a, high))
    BY <2>5, <2>6, <2>9
  <2> HIDE DEF r
  <2> QED BY <2>1, <2>11, <2>13, <2>14, <2>15 DEF r
<1> QED BY <1>1, <1>2

(* The node of an arm answers its call, if the families of its edges do.   *)
LEMMA MadeAnswers ==
  ASSUME NEW a, FamiliesOK(a), NEW op \in ZddOp, NEW f \in Live(a), NEW g \in Live(a),
         f # Undet, g # Undet, NEW h \in Headers(a), NEW low, NEW high,
         HeaderLevel(a, h) <= Level(a, f) \/ HeaderLevel(a, h) <= Level(a, g),
         Fits(a, low, HeaderLevel(a, h)), Fits(a, high, HeaderLevel(a, h)),
         Undet \notin {low, high},
         Holds(op, Sets(a, f), Sets(a, g),
               Sets(a, low) \cup Added(HeaderLabel(a, h), Sets(a, high)))
  PROVE  LET r == CreateNode(a, h, low, high)
         IN Grown(a, r[2]) /\ Sound(r[2], op, f, g, r[1])
<1> DEFINE r == CreateNode(a, h, low, high)
           b == r[2]
           i == r[1]
<1>1. /\ Grown(a, b) /\ i \in Live(b) /\ i # Undet /\ Level(b, i) <= HeaderLevel(a, h)
      /\ Sets(b, i) = Sets(a, low) \cup Added(HeaderLabel(a, h), Sets(a, high))
  BY MadeGrows
<1> HIDE DEF r
<1>2. ForestOK(a) /\ ForestOK(b) /\ HeadersKept(a, b) /\ Live(a) \subseteq Live(b)
      /\ \A j \in Live(a) \cap Live(b) : At(b, j) = At(a, j)
  BY <1>1 DEF Grown, FamiliesOK, Preserves
<1>3. f \in Live(b) /\ g \in Live(b)
  BY <1>2
<1>4. Sets(b, f) = Sets(a, f) /\ Sets(b, g) = Sets(a, g)
  BY <1>2, <1>3, SetsKept
<1>5. Level(b, f) = Level(a, f) /\ Level(b, g) = Level(a, g)
  BY <1>2, <1>3, LevelsKept
<1>6. /\ HeaderLevel(a, h) \in Int /\ Level(a, f) \in Int /\ Level(a, g) \in Int
      /\ Level(b, i) \in Int
  BY <1>1, <1>2, HeaderFacts, NodeFacts
<1>7. NoHigher(b, f, g, i)
  BY <1>1, <1>5, <1>6 DEF NoHigher
<1>8. Holds(op, Sets(b, f), Sets(b, g), Sets(b, i))
  BY <1>1, <1>4
<1>9. Sound(b, op, f, g, i)
  BY <1>1, <1>3, <1>7, <1>8, MeansSound
<1> QED BY <1>1, <1>9 DEF r

----------------------------------------------------------------------------
(* The arms with calls, on the families they split.                        *)

LEMMA HoldsSplits ==
  ASSUME NEW op \in {"intersect", "union", "setdiff"},
         NEW x, NEW F, NEW F0, NEW F1, NEW G, NEW G0, NEW G1, NEW R0, NEW R1,
         SplitBy(F, x, F0, F1), SplitBy(G, x, G0, G1),
         Holds(op, F0, G0, R0), Holds(op, F1, G1, R1)
  PROVE  Holds(op, F, G, R0 \cup Added(x, R1))
<1>1. CASE op = "intersect"
  <2>1. IntersectedWell(F0, G0, R0) /\ IntersectedWell(F1, G1, R1)
    BY <1>1 DEF Holds
  <2>2. IntersectedWell(F, G, R0 \cup Added(x, R1))
    BY <2>1, IntersectionSplits, Zenon
  <2> QED BY <1>1, <2>2, HoldsFor
<1>2. CASE op = "union"
  <2>1. R0 = F0 \cup G0 /\ R1 = F1 \cup G1
    BY <1>2 DEF Holds, Meaning
  <2>2. SplitBy(F \cup G, x, F0 \cup G0, F1 \cup G1)
    BY UnionSplits, Zenon
  <2>3. R0 \cup Added(x, R1) = F \cup G
    BY <2>1, <2>2, Zenon DEF SplitBy
  <2> QED BY <1>2, <2>3, HoldsFor
<1>3. CASE op = "setdiff"
  <2>1. R0 = F0 \ G0 /\ R1 = F1 \ G1
    BY <1>3 DEF Holds, Meaning
  <2>2. SplitBy(F \ G, x, F0 \ G0, F1 \ G1)
    BY DifferenceSplits, Zenon
  <2>3. R0 \cup Added(x, R1) = F \ G
    BY <2>1, <2>2, Zenon DEF SplitBy
  <2> QED BY <1>3, <2>3, HoldsFor
<1> QED BY <1>1, <1>2, <1>3

LEMMA ProductHolds ==
  ASSUME NEW x, NEW F, NEW F0, NEW F1, NEW G, NEW G0, NEW G1, NEW R0, NEW R1,
         SplitBy(F, x, F0, F1), SplitBy(G, x, G0, G1),
         R0 = Products(F0, G0),
         R1 = (Products(F1, G1) \cup Products(F1, G0)) \cup Products(F0, G1)
  PROVE  Holds("product", F, G, R0 \cup Added(x, R1))
<1>1. SplitBy(Products(F, G), x, R0, R1)
  BY ProductSplits, Zenon
<1>2. R0 \cup Added(x, R1) = Products(F, G)
  BY <1>1, Zenon DEF SplitBy
<1> QED BY <1>2, HoldsFor

LEMMA ProductIs ==
  ASSUME NEW F, NEW G, NEW R, Holds("product", F, G, R)
  PROVE  R = Products(F, G)
  BY DEF Holds, Meaning, Products

LEMMA TopFacts ==
  ASSUME NEW a, FamiliesOK(a), NEW i \in Inner(a)
  PROVE  /\ HeaderOf(a, i) \in Headers(a) /\ Level(a, i) = HeaderLevel(a, HeaderOf(a, i))
         /\ Low(a, i) \in Live(a) /\ Low(a, i) # Undet /\ Level(a, Low(a, i)) < Level(a, i)
         /\ High(a, i) \in Live(a) /\ High(a, i) # Undet /\ Level(a, High(a, i)) < Level(a, i)
         /\ SplitBy(Sets(a, i), NodeLabel(a, i), Sets(a, Low(a, i)), Sets(a, High(a, i)))
         /\ \A j \in Live(a) : Level(a, j) < Level(a, i) =>
              SplitBy(Sets(a, j), NodeLabel(a, i), Sets(a, j), {})
<1>1. ForestOK(a) /\ LevelsLabelled(a) /\ i \notin Terminals
  BY DEF FamiliesOK, Inner
<1>2. /\ HeaderOf(a, i) \in Headers(a) /\ Level(a, i) = HeaderLevel(a, HeaderOf(a, i))
      /\ Low(a, i) \in Live(a) /\ Level(a, Low(a, i)) < Level(a, i)
      /\ High(a, i) \in Live(a) /\ Level(a, High(a, i)) < Level(a, i)
  BY <1>1, NodeFacts DEF HeaderOf
<1>3. Low(a, i) # Undet /\ High(a, i) # Undet
  BY <1>1 DEF FamiliesOK, NoUndetBelow, Kids
<1>4. SplitBy(Sets(a, i), NodeLabel(a, i), Sets(a, Low(a, i)), Sets(a, High(a, i)))
  BY <1>1, NodeSplits
<1>5. \A j \in Live(a) : Level(a, j) < Level(a, i) =>
        SplitBy(Sets(a, j), NodeLabel(a, i), Sets(a, j), {})
  BY <1>1, LowerSplits
<1> QED BY <1>2, <1>3, <1>4, <1>5

(* A node under the header of an operand.                                  *)
LEMMA ArmAnswers ==
  ASSUME NEW a, FamiliesOK(a), NEW op \in ZddOp, NEW f \in Live(a), NEW g \in Live(a),
         f # Undet, g # Undet, NEW i \in Inner(a), i \in {f, g},
         NEW low \in Live(a), NEW high \in Live(a), low # Undet, high # Undet,
         Level(a, low) < Level(a, i), Level(a, high) < Level(a, i),
         Holds(op, Sets(a, f), Sets(a, g), Sets(a, low) \cup Added(NodeLabel(a, i), Sets(a, high)))
  PROVE  LET r == CreateNode(a, HeaderOf(a, i), low, high)
         IN Grown(a, r[2]) /\ Sound(r[2], op, f, g, r[1])
<1> DEFINE h == HeaderOf(a, i)
<1>1. h \in Headers(a) /\ Level(a, i) = HeaderLevel(a, h)
  BY TopFacts
<1>2. Level(a, i) \in Int
  BY NodeFacts DEF FamiliesOK
<1>3. HeaderLevel(a, h) <= Level(a, f) \/ HeaderLevel(a, h) <= Level(a, g)
  BY <1>1, <1>2
<1>4. Fits(a, low, HeaderLevel(a, h)) /\ Fits(a, high, HeaderLevel(a, h))
  BY <1>1 DEF Fits
<1> HIDE DEF h
<1>5. Holds(op, Sets(a, f), Sets(a, g), Sets(a, low) \cup Added(HeaderLabel(a, h), Sets(a, high)))
  BY DEF NodeLabel, h
<1>6. LET r == CreateNode(a, h, low, high)
      IN Grown(a, r[2]) /\ Sound(r[2], op, f, g, r[1])
  BY <1>1, <1>3, <1>4, <1>5, MadeAnswers
<1> QED BY <1>6 DEF h

(* Levels of results.                                                      *)
LEMMA ResultFits ==
  ASSUME NEW a, ForestOK(a), NEW f \in Live(a), NEW g \in Live(a), NEW r \in Live(a), NEW l \in Int,
         NoHigher(a, f, g, r), Level(a, f) < l, Level(a, g) < l
  PROVE  Level(a, r) < l
<1>1. Level(a, f) \in Int /\ Level(a, g) \in Int /\ Level(a, r) \in Int
  BY NodeFacts
<1> QED BY <1>1 DEF NoHigher

(* A call on slots below a level returns one below it.                     *)
LEMMA CallReturns ==
  ASSUME NEW a, FamiliesOK(a), NEW op, op # "divide", NEW f, NEW g, NEW r, NEW l \in Int,
         Sound(a, op, f, g, r), f # Undet, g # Undet, Level(a, f) < l, Level(a, g) < l
  PROVE  /\ r \in Live(a) /\ r # Undet /\ Level(a, r) < l
         /\ Holds(op, Sets(a, f), Sets(a, g), Sets(a, r))
<1>1. /\ r \in Live(a) /\ r # Undet /\ NoHigher(a, f, g, r)
      /\ Holds(op, Sets(a, f), Sets(a, g), Sets(a, r))
  BY SoundMeans
<1>2. f \in Live(a) /\ g \in Live(a) /\ ForestOK(a)
  BY DEF Sound, Answers, FamiliesOK
<1>3. Level(a, r) < l
  BY <1>1, <1>2, ResultFits
<1> QED BY <1>1, <1>3

----------------------------------------------------------------------------
(* The variable is only in f, only in g, in both.                          *)

LEMMA OnlyInFPassed ==
  ASSUME NEW a, FamiliesOK(a), NEW f \in Inner(a), NEW g \in Live(a), g # Undet,
         Level(a, g) < Level(a, f), NEW r, Sound(a, "intersect", Low(a, f), g, r)
  PROVE  Sound(a, "intersect", f, g, r)
<1>1. f \in Live(a) /\ f # Undet /\ Level(a, f) \in Int /\ Level(a, g) \in Int
  BY NodeFacts DEF Inner, Terminals, FamiliesOK
<1>2. /\ Low(a, f) # Undet /\ Level(a, Low(a, f)) < Level(a, f)
      /\ SplitBy(Sets(a, f), NodeLabel(a, f), Sets(a, Low(a, f)), Sets(a, High(a, f)))
      /\ SplitBy(Sets(a, g), NodeLabel(a, f), Sets(a, g), {})
  BY TopFacts
<1>3. /\ r \in Live(a) /\ r # Undet /\ Level(a, r) < Level(a, f)
      /\ Holds("intersect", Sets(a, Low(a, f)), Sets(a, g), Sets(a, r))
  BY <1>1, <1>2, CallReturns
<1>4. IntersectedWell(Sets(a, Low(a, f)), Sets(a, g), Sets(a, r))
  BY <1>3 DEF Holds
<1>5. IntersectedWell(Sets(a, f), Sets(a, g), Sets(a, r))
  <2>1. \A s \in Sets(a, g) : NodeLabel(a, f) \notin s
    BY <1>2 DEF SplitBy
  <2> QED BY <1>2, <1>4, <2>1, IntersectionSkips, Zenon
<1>6. Holds("intersect", Sets(a, f), Sets(a, g), Sets(a, r))
  BY <1>5, HoldsFor
<1>7. Level(a, r) \in Int
  BY <1>3, NodeFacts DEF FamiliesOK
<1>8. NoHigher(a, f, g, r)
  BY <1>1, <1>3, <1>7 DEF NoHigher
<1> QED BY <1>1, <1>3, <1>6, <1>8, MeansSound DEF ZddOp

LEMMA OnlyInFMade ==
  ASSUME NEW a, FamiliesOK(a), NEW f \in Inner(a), NEW g \in Live(a), g # Undet,
         Level(a, g) < Level(a, f), NEW op \in {"union", "setdiff"}, NEW r,
         Sound(a, op, Low(a, f), g, r)
  PROVE  LET n == CreateNode(a, HeaderOf(a, f), r, High(a, f))
         IN Grown(a, n[2]) /\ Sound(n[2], op, f, g, n[1])
<1>1. f \in Live(a) /\ f # Undet /\ Level(a, f) \in Int
  BY NodeFacts DEF Inner, Terminals, FamiliesOK
<1>2. /\ Low(a, f) # Undet /\ Level(a, Low(a, f)) < Level(a, f)
      /\ High(a, f) \in Live(a) /\ High(a, f) # Undet /\ Level(a, High(a, f)) < Level(a, f)
      /\ SplitBy(Sets(a, f), NodeLabel(a, f), Sets(a, Low(a, f)), Sets(a, High(a, f)))
      /\ SplitBy(Sets(a, g), NodeLabel(a, f), Sets(a, g), {})
  BY TopFacts
<1>3. /\ r \in Live(a) /\ r # Undet /\ Level(a, r) < Level(a, f)
      /\ Holds(op, Sets(a, Low(a, f)), Sets(a, g), Sets(a, r))
  BY <1>1, <1>2, CallReturns
<1>4. Holds(op, Sets(a, High(a, f)), {}, Sets(a, High(a, f)))
  <2>1. \A F : F = F \cup {} /\ F = F \ {}
    OBVIOUS
  <2> QED BY <2>1, HoldsFor
<1>5. Holds(op, Sets(a, f), Sets(a, g),
            Sets(a, r) \cup Added(NodeLabel(a, f), Sets(a, High(a, f))))
  BY <1>2, <1>3, <1>4, HoldsSplits
<1>6. op \in ZddOp
  BY DEF ZddOp
<1> QED BY <1>1, <1>2, <1>3, <1>5, <1>6, ArmAnswers

LEMMA OnlyInFMultiplied ==
  ASSUME NEW a, FamiliesOK(a), NEW f \in Inner(a), NEW g \in Live(a), g # Undet,
         Level(a, g) < Level(a, f), NEW r, NEW s,
         Sound(a, "product", Low(a, f), g, r), Sound(a, "product", High(a, f), g, s)
  PROVE  LET n == CreateNode(a, HeaderOf(a, f), r, s)
         IN Grown(a, n[2]) /\ Sound(n[2], "product", f, g, n[1])
<1>1. f \in Live(a) /\ f # Undet /\ Level(a, f) \in Int
  BY NodeFacts DEF Inner, Terminals, FamiliesOK
<1>2. /\ Low(a, f) # Undet /\ Level(a, Low(a, f)) < Level(a, f)
      /\ High(a, f) # Undet /\ Level(a, High(a, f)) < Level(a, f)
      /\ SplitBy(Sets(a, f), NodeLabel(a, f), Sets(a, Low(a, f)), Sets(a, High(a, f)))
      /\ SplitBy(Sets(a, g), NodeLabel(a, f), Sets(a, g), {})
  BY TopFacts
<1>3. /\ r \in Live(a) /\ r # Undet /\ Level(a, r) < Level(a, f)
      /\ Holds("product", Sets(a, Low(a, f)), Sets(a, g), Sets(a, r))
  BY <1>1, <1>2, CallReturns
<1>4. /\ s \in Live(a) /\ s # Undet /\ Level(a, s) < Level(a, f)
      /\ Holds("product", Sets(a, High(a, f)), Sets(a, g), Sets(a, s))
  BY <1>1, <1>2, CallReturns
<1>5. /\ Sets(a, r) = Products(Sets(a, Low(a, f)), Sets(a, g))
      /\ Sets(a, s) = Products(Sets(a, High(a, f)), Sets(a, g))
  BY <1>3, <1>4, ProductIs
<1>6. Sets(a, s) = (Products(Sets(a, High(a, f)), {}) \cup Products(Sets(a, High(a, f)), Sets(a, g)))
                     \cup Products(Sets(a, Low(a, f)), {})
  <2>1. \A F : Products(F, {}) = {}
    BY DEF Products
  <2> QED BY <1>5, <2>1
<1>7. Holds("product", Sets(a, f), Sets(a, g), Sets(a, r) \cup Added(NodeLabel(a, f), Sets(a, s)))
  BY <1>2, <1>5, <1>6, ProductHolds
<1> QED BY <1>1, <1>3, <1>4, <1>7, ArmAnswers DEF ZddOp

LEMMA OnlyInGPassed ==
  ASSUME NEW a, FamiliesOK(a), NEW f \in Live(a), NEW g \in Inner(a), f # Undet,
         Level(a, f) < Level(a, g), NEW op \in {"intersect", "setdiff"}, NEW r,
         Sound(a, op, f, Low(a, g), r)
  PROVE  Sound(a, op, f, g, r)
<1>1. g \in Live(a) /\ g # Undet /\ Level(a, g) \in Int /\ Level(a, f) \in Int
  BY NodeFacts DEF Inner, Terminals, FamiliesOK
<1>2. /\ Low(a, g) \in Live(a) /\ Low(a, g) # Undet /\ Level(a, Low(a, g)) < Level(a, g)
      /\ SplitBy(Sets(a, g), NodeLabel(a, g), Sets(a, Low(a, g)), Sets(a, High(a, g)))
      /\ SplitBy(Sets(a, f), NodeLabel(a, g), Sets(a, f), {})
  BY TopFacts
<1>3. /\ r \in Live(a) /\ r # Undet /\ NoHigher(a, f, Low(a, g), r)
      /\ Holds(op, Sets(a, f), Sets(a, Low(a, g)), Sets(a, r))
  BY <1>2, SoundMeans
<1>4. Holds(op, Sets(a, f), Sets(a, g), Sets(a, r))
  <2>1. CASE op = "intersect"
    <3>1. IntersectedWell(Sets(a, f), Sets(a, Low(a, g)), Sets(a, r))
      BY <1>3, <2>1 DEF Holds
    <3>2. IntersectedWell(Sets(a, Low(a, g)), Sets(a, f), Sets(a, r))
      <4>1. \A X, Y : X \cap Y = Y \cap X /\ X \cup Y = Y \cup X
        OBVIOUS
      <4> QED BY <3>1, <4>1, Zenon DEF IntersectedWell
    <3>3. \A s \in Sets(a, f) : NodeLabel(a, g) \notin s
      BY <1>2 DEF SplitBy
    <3>4. IntersectedWell(Sets(a, f), Sets(a, g), Sets(a, r))
      BY <1>2, <3>2, <3>3, IntersectionSkips, Zenon
    <3> QED BY <2>1, <3>4, HoldsFor
  <2>2. CASE op = "setdiff"
    <3>1. \A X : {} = {} \ X
      OBVIOUS
    <3>2. Holds(op, {}, Sets(a, High(a, g)), {})
      BY <2>2, <3>1, HoldsFor
    <3>3. Holds(op, Sets(a, f), Sets(a, g), Sets(a, r) \cup Added(NodeLabel(a, g), {}))
      BY <1>2, <1>3, <2>2, <3>2, HoldsSplits
    <3>4. Sets(a, r) \cup Added(NodeLabel(a, g), {}) = Sets(a, r)
      BY DEF Added
    <3> QED BY <3>3, <3>4
  <2> QED BY <2>1, <2>2
<1>5. Level(a, r) \in Int /\ Level(a, Low(a, g)) \in Int
  BY <1>2, <1>3, NodeFacts DEF FamiliesOK
<1>6. NoHigher(a, f, g, r)
  BY <1>1, <1>2, <1>3, <1>5 DEF NoHigher
<1> QED BY <1>1, <1>3, <1>4, <1>6, MeansSound DEF ZddOp

LEMMA OnlyInGMade ==
  ASSUME NEW a, FamiliesOK(a), NEW f \in Live(a), NEW g \in Inner(a), f # Undet,
         Level(a, f) < Level(a, g), NEW r, Sound(a, "union", f, Low(a, g), r)
  PROVE  LET n == CreateNode(a, HeaderOf(a, g), r, High(a, g))
         IN Grown(a, n[2]) /\ Sound(n[2], "union", f, g, n[1])
<1>1. g \in Live(a) /\ g # Undet /\ Level(a, g) \in Int
  BY NodeFacts DEF Inner, Terminals, FamiliesOK
<1>2. /\ Low(a, g) # Undet /\ Level(a, Low(a, g)) < Level(a, g)
      /\ High(a, g) \in Live(a) /\ High(a, g) # Undet /\ Level(a, High(a, g)) < Level(a, g)
      /\ SplitBy(Sets(a, g), NodeLabel(a, g), Sets(a, Low(a, g)), Sets(a, High(a, g)))
      /\ SplitBy(Sets(a, f), NodeLabel(a, g), Sets(a, f), {})
  BY TopFacts
<1>3. /\ r \in Live(a) /\ r # Undet /\ Level(a, r) < Level(a, g)
      /\ Holds("union", Sets(a, f), Sets(a, Low(a, g)), Sets(a, r))
  BY <1>1, <1>2, CallReturns
<1>4. Holds("union", {}, Sets(a, High(a, g)), Sets(a, High(a, g)))
  <2>1. \A F : F = {} \cup F
    OBVIOUS
  <2> QED BY <2>1, HoldsFor
<1>5. Holds("union", Sets(a, f), Sets(a, g),
            Sets(a, r) \cup Added(NodeLabel(a, g), Sets(a, High(a, g))))
  BY <1>2, <1>3, <1>4, HoldsSplits
<1> QED BY <1>1, <1>2, <1>3, <1>5, ArmAnswers DEF ZddOp

LEMMA OnlyInGMultiplied ==
  ASSUME NEW a, FamiliesOK(a), NEW f \in Live(a), NEW g \in Inner(a), f # Undet,
         Level(a, f) < Level(a, g), NEW r, NEW s,
         Sound(a, "product", f, Low(a, g), r), Sound(a, "product", f, High(a, g), s)
  PROVE  LET n == CreateNode(a, HeaderOf(a, g), r, s)
         IN Grown(a, n[2]) /\ Sound(n[2], "product", f, g, n[1])
<1>1. g \in Live(a) /\ g # Undet /\ Level(a, g) \in Int
  BY NodeFacts DEF Inner, Terminals, FamiliesOK
<1>2. /\ Low(a, g) # Undet /\ Level(a, Low(a, g)) < Level(a, g)
      /\ High(a, g) # Undet /\ Level(a, High(a, g)) < Level(a, g)
      /\ SplitBy(Sets(a, g), NodeLabel(a, g), Sets(a, Low(a, g)), Sets(a, High(a, g)))
      /\ SplitBy(Sets(a, f), NodeLabel(a, g), Sets(a, f), {})
  BY TopFacts
<1>3. /\ r \in Live(a) /\ r # Undet /\ Level(a, r) < Level(a, g)
      /\ Holds("product", Sets(a, f), Sets(a, Low(a, g)), Sets(a, r))
  BY <1>1, <1>2, CallReturns
<1>4. /\ s \in Live(a) /\ s # Undet /\ Level(a, s) < Level(a, g)
      /\ Holds("product", Sets(a, f), Sets(a, High(a, g)), Sets(a, s))
  BY <1>1, <1>2, CallReturns
<1>5. /\ Sets(a, r) = Products(Sets(a, f), Sets(a, Low(a, g)))
      /\ Sets(a, s) = Products(Sets(a, f), Sets(a, High(a, g)))
  BY <1>3, <1>4, ProductIs
<1>6. Sets(a, s) = (Products({}, Sets(a, High(a, g))) \cup Products({}, Sets(a, Low(a, g))))
                     \cup Products(Sets(a, f), Sets(a, High(a, g)))
  <2>1. \A F : Products({}, F) = {}
    BY DEF Products
  <2> QED BY <1>5, <2>1
<1>7. Holds("product", Sets(a, f), Sets(a, g), Sets(a, r) \cup Added(NodeLabel(a, g), Sets(a, s)))
  BY <1>2, <1>5, <1>6, ProductHolds
<1> QED BY <1>1, <1>3, <1>4, <1>7, ArmAnswers DEF ZddOp

LEMMA PairwiseMade ==
  ASSUME NEW a, FamiliesOK(a), NEW f \in Inner(a), NEW g \in Inner(a),
         Level(a, f) = Level(a, g), NEW op \in {"intersect", "union", "setdiff"}, NEW r, NEW s,
         Sound(a, op, Low(a, f), Low(a, g), r), Sound(a, op, High(a, f), High(a, g), s)
  PROVE  LET n == CreateNode(a, HeaderOf(a, f), r, s)
         IN Grown(a, n[2]) /\ Sound(n[2], op, f, g, n[1])
<1>1. /\ f \in Live(a) /\ f # Undet /\ g \in Live(a) /\ g # Undet /\ Level(a, f) \in Int
      /\ NodeLabel(a, g) = NodeLabel(a, f)
  BY NodeFacts, SameLevelSameLabel DEF Inner, Terminals, FamiliesOK
<1>2. /\ Low(a, f) # Undet /\ Level(a, Low(a, f)) < Level(a, f)
      /\ High(a, f) # Undet /\ Level(a, High(a, f)) < Level(a, f)
      /\ SplitBy(Sets(a, f), NodeLabel(a, f), Sets(a, Low(a, f)), Sets(a, High(a, f)))
  BY TopFacts
<1>3. /\ Low(a, g) # Undet /\ Level(a, Low(a, g)) < Level(a, f)
      /\ High(a, g) # Undet /\ Level(a, High(a, g)) < Level(a, f)
      /\ SplitBy(Sets(a, g), NodeLabel(a, f), Sets(a, Low(a, g)), Sets(a, High(a, g)))
  BY <1>1, TopFacts
<1>4. /\ r \in Live(a) /\ r # Undet /\ Level(a, r) < Level(a, f)
      /\ Holds(op, Sets(a, Low(a, f)), Sets(a, Low(a, g)), Sets(a, r))
  BY <1>1, <1>2, <1>3, CallReturns
<1>5. /\ s \in Live(a) /\ s # Undet /\ Level(a, s) < Level(a, f)
      /\ Holds(op, Sets(a, High(a, f)), Sets(a, High(a, g)), Sets(a, s))
  BY <1>1, <1>2, <1>3, CallReturns
<1>6. Holds(op, Sets(a, f), Sets(a, g), Sets(a, r) \cup Added(NodeLabel(a, f), Sets(a, s)))
  BY <1>2, <1>3, <1>4, <1>5, HoldsSplits
<1>7. op \in ZddOp
  BY DEF ZddOp
<1> QED BY <1>1, <1>4, <1>5, <1>6, <1>7, ArmAnswers

LEMMA UnionReturns ==
  ASSUME NEW a, FamiliesOK(a), NEW f, NEW g, NEW r, NEW l \in Int,
         Sound(a, "union", f, g, r), f # Undet, g # Undet, Level(a, f) < l, Level(a, g) < l
  PROVE  /\ r \in Live(a) /\ r # Undet /\ Level(a, r) < l
         /\ Sets(a, r) = Sets(a, f) \cup Sets(a, g)
<1>1. /\ r \in Live(a) /\ r # Undet /\ Level(a, r) < l
      /\ Holds("union", Sets(a, f), Sets(a, g), Sets(a, r))
  BY CallReturns
<1> QED BY <1>1 DEF Holds, Meaning

LEMMA ProductReturns ==
  ASSUME NEW a, FamiliesOK(a), NEW f, NEW g, NEW r, NEW l \in Int,
         Sound(a, "product", f, g, r), f # Undet, g # Undet, Level(a, f) < l, Level(a, g) < l
  PROVE  /\ r \in Live(a) /\ r # Undet /\ Level(a, r) < l
         /\ Sets(a, r) = Products(Sets(a, f), Sets(a, g))
<1>1. /\ r \in Live(a) /\ r # Undet /\ Level(a, r) < l
      /\ Holds("product", Sets(a, f), Sets(a, g), Sets(a, r))
  BY CallReturns
<1> QED BY <1>1, ProductIs

LEMMA MultipliedMade ==
  ASSUME NEW a, FamiliesOK(a), NEW f \in Inner(a), NEW g \in Inner(a),
         Level(a, f) = Level(a, g),
         NEW low, NEW both, NEW inF, NEW inG, NEW more, NEW high,
         Sound(a, "product", Low(a, f), Low(a, g), low),
         Sound(a, "product", High(a, f), High(a, g), both),
         Sound(a, "product", High(a, f), Low(a, g), inF),
         Sound(a, "union", both, inF, more),
         Sound(a, "product", Low(a, f), High(a, g), inG),
         Sound(a, "union", more, inG, high)
  PROVE  LET n == CreateNode(a, HeaderOf(a, f), low, high)
         IN Grown(a, n[2]) /\ Sound(n[2], "product", f, g, n[1])
<1> DEFINE l == Level(a, f)
           Good(r) == r \in Live(a) /\ r # Undet /\ Level(a, r) < l
<1>1. /\ f \in Live(a) /\ f # Undet /\ g \in Live(a) /\ g # Undet /\ l \in Int
      /\ NodeLabel(a, g) = NodeLabel(a, f)
  BY NodeFacts, SameLevelSameLabel DEF Inner, Terminals, FamiliesOK
<1>2. /\ Good(Low(a, f)) /\ Good(High(a, f))
      /\ SplitBy(Sets(a, f), NodeLabel(a, f), Sets(a, Low(a, f)), Sets(a, High(a, f)))
  BY TopFacts
<1>3. /\ Good(Low(a, g)) /\ Good(High(a, g))
      /\ SplitBy(Sets(a, g), NodeLabel(a, f), Sets(a, Low(a, g)), Sets(a, High(a, g)))
  BY <1>1, TopFacts
<1>4. Good(low) /\ Sets(a, low) = Products(Sets(a, Low(a, f)), Sets(a, Low(a, g)))
  BY <1>1, <1>2, <1>3, ProductReturns
<1>5. Good(both) /\ Sets(a, both) = Products(Sets(a, High(a, f)), Sets(a, High(a, g)))
  BY <1>1, <1>2, <1>3, ProductReturns
<1>6. Good(inF) /\ Sets(a, inF) = Products(Sets(a, High(a, f)), Sets(a, Low(a, g)))
  BY <1>1, <1>2, <1>3, ProductReturns
<1>7. Good(inG) /\ Sets(a, inG) = Products(Sets(a, Low(a, f)), Sets(a, High(a, g)))
  BY <1>1, <1>2, <1>3, ProductReturns
<1>8. Good(more) /\ Sets(a, more) = Sets(a, both) \cup Sets(a, inF)
  BY <1>1, <1>5, <1>6, UnionReturns
<1>9. Good(high) /\ Sets(a, high) = Sets(a, more) \cup Sets(a, inG)
  BY <1>1, <1>7, <1>8, UnionReturns
<1>10. Sets(a, high) =
         (Products(Sets(a, High(a, f)), Sets(a, High(a, g)))
            \cup Products(Sets(a, High(a, f)), Sets(a, Low(a, g))))
          \cup Products(Sets(a, Low(a, f)), Sets(a, High(a, g)))
  BY <1>5, <1>6, <1>7, <1>8, <1>9
<1>11. Holds("product", Sets(a, f), Sets(a, g),
             Sets(a, low) \cup Added(NodeLabel(a, f), Sets(a, high)))
  BY <1>2, <1>3, <1>4, <1>10, ProductHolds
<1> QED BY <1>1, <1>4, <1>9, <1>11, ArmAnswers DEF ZddOp

(* What divide returns is in use; no more is said of it.                   *)
LEMMA DivideSound ==
  ASSUME NEW a, NEW f \in Live(a), NEW g \in Live(a), NEW r \in Live(a)
  PROVE  Sound(a, "divide", f, g, r)
  BY DEF Sound, Answers, ZddOp

----------------------------------------------------------------------------
(* The steps of the set algebra.                                           *)

MemoSound(a) == \A k \in DOMAIN a.memo : Sound(a, k[1], k[2], k[3], a.memo[k])
AllSound(a, kn) == \A q \in kn : Sound(a, q[1], q[2], q[3], q[4])

(* The inductive invariant.                                                *)
AlgebraOK(a, kn) == FamiliesOK(a) /\ MemoSound(a) /\ AllSound(a, kn)

LEMMA GrownKeeps ==
  ASSUME NEW a, NEW b, NEW kn, AlgebraOK(a, kn), Grown(a, b)
  PROVE  AlgebraOK(b, kn)
<1>1. /\ FamiliesOK(a) /\ FamiliesOK(b) /\ HeadersKept(a, b) /\ Live(a) \subseteq Live(b)
      /\ \A i \in Live(a) \cap Live(b) : At(b, i) = At(a, i)
      /\ b.memo = a.memo
  BY DEF AlgebraOK, Grown, Preserves
<1>2. ASSUME NEW op, NEW f, NEW g, NEW r, Sound(a, op, f, g, r)
      PROVE  Sound(b, op, f, g, r)
  <2>1. {f, g, r} \subseteq Live(b)
    BY <1>1, <1>2 DEF Sound, Answers
  <2> QED BY <1>1, <1>2, <2>1, SoundKept
<1>3. MemoSound(b)
  BY <1>1, <1>2 DEF AlgebraOK, MemoSound
<1>4. AllSound(b, kn)
  BY <1>2 DEF AlgebraOK, AllSound
<1> QED BY <1>1, <1>3, <1>4 DEF AlgebraOK

(* The same nodes under the same headers, whatever the memo is.            *)
LEMMA SameGraph ==
  ASSUME NEW a, NEW b, FamiliesOK(a), ForestOK(b), b.headers = a.headers,
         Live(b) \subseteq Live(a), \A i : At(b, i) = At(a, i)
  PROVE  FamiliesOK(b) /\ HeadersKept(a, b)
<1>1. HeadersKept(a, b) /\ LevelsLabelled(b)
  BY DEF FamiliesOK, LevelsLabelled, HeadersKept, Headers, HeaderLevel, HeaderLabel
<1>2. \A i \in Inner(b) : i \in Inner(a) /\ Kids(b, i) = Kids(a, i)
  BY DEF Inner, Kids, Low, High
<1> QED BY <1>1, <1>2 DEF FamiliesOK, NoUndetBelow

LEMMA MemoReplaced ==
  ASSUME NEW a, NEW memo, FamiliesOK(a),
         \A k \in DOMAIN memo : {k[2], k[3], memo[k]} \subseteq Live(a)
  PROVE  LET b == [a EXCEPT !.memo = memo]
         IN /\ FamiliesOK(b) /\ b.memo = memo /\ Live(b) = Live(a)
            /\ \A op, f, g, r : Sound(a, op, f, g, r) => Sound(b, op, f, g, r)
<1> DEFINE b == [a EXCEPT !.memo = memo]
<1>0. PICK hs, n, f, t, m : a = Forest(hs, n, f, t, m)
  BY DEF FamiliesOK, ForestOK, ForestType
<1>1. /\ b.headers = a.headers /\ b.nodes = a.nodes /\ b.free = a.free /\ b.memo = memo
  BY <1>0 DEF Forest
<1>2. ForestOK(b)
  BY MemoReplacedOK DEF FamiliesOK
<1> HIDE DEF b
<1>3. Live(b) = Live(a) /\ \A i : At(b, i) = At(a, i)
  BY <1>1 DEF Live, Slots, At
<1>4. FamiliesOK(b) /\ HeadersKept(a, b)
  BY <1>1, <1>2, <1>3, SameGraph
<1>5. ASSUME NEW op, NEW f1, NEW g, NEW r, Sound(a, op, f1, g, r)
      PROVE  Sound(b, op, f1, g, r)
  <2>1. {f1, g, r} \subseteq Live(b)
    BY <1>3, <1>5 DEF Sound, Answers
  <2> QED BY <1>3, <1>4, <1>5, <2>1, SoundKept
<1> QED BY <1>1, <1>3, <1>4, <1>5 DEF b

LEMMA RememberKeeps ==
  ASSUME NEW a, NEW kn, AlgebraOK(a, kn), NEW op, NEW f, NEW g, NEW r, Sound(a, op, f, g, r)
  PROVE  AlgebraOK(Remember(a, <<op, f, g>>, r), kn \cup {<<op, f, g, r>>})
<1> DEFINE key == <<op, f, g>>
           memo == Extend(a.memo, key, r)
           b == [a EXCEPT !.memo = memo]
<1>1. \A k \in DOMAIN memo :
        (k \in DOMAIN a.memo /\ memo[k] = a.memo[k]) \/ (k = key /\ memo[k] = r)
  BY DEF Extend
<1>2. \A k \in DOMAIN memo : Sound(a, k[1], k[2], k[3], memo[k])
  <2>1. key[1] = op /\ key[2] = f /\ key[3] = g
    OBVIOUS
  <2> HIDE DEF key, memo
  <2> QED BY <1>1, <2>1 DEF AlgebraOK, MemoSound
<1>3. \A k \in DOMAIN memo : {k[2], k[3], memo[k]} \subseteq Live(a)
  <2> HIDE DEF memo
  <2> QED BY <1>2 DEF Sound, Answers
<1>4. FamiliesOK(a)
  BY DEF AlgebraOK
<1>5. /\ FamiliesOK(b) /\ b.memo = memo
      /\ \A o, x, y, z : Sound(a, o, x, y, z) => Sound(b, o, x, y, z)
  <2> HIDE DEF memo
  <2> QED BY <1>3, <1>4, MemoReplaced
<1>6. Remember(a, key, r) = b
  BY DEF Remember
<1> HIDE DEF b, memo
<1>7. MemoSound(b)
  BY <1>2, <1>5 DEF MemoSound
<1>8. AllSound(b, kn \cup {<<op, f, g, r>>})
  <2>1. \A q \in kn : Sound(b, q[1], q[2], q[3], q[4])
    BY <1>5 DEF AlgebraOK, AllSound
  <2>2. Sound(b, op, f, g, r)
    BY <1>5
  <2> QED BY <2>1, <2>2 DEF AllSound
<1> QED BY <1>5, <1>6, <1>7, <1>8 DEF AlgebraOK

(* The ends of a call.                                                     *)
LEMMA ReturnKeeps ==
  ASSUME NEW op, NEW f, NEW g, NEW r, AlgebraOK(forest, known),
         Sound(forest, op, f, g, r), Return(op, f, g, r), forest' = forest
  PROVE  AlgebraOK(forest, known)'
<1>1. AllSound(forest, known \cup {<<op, f, g, r>>})
  BY DEF AlgebraOK, AllSound
<1>2. AlgebraOK(forest, known')
  BY <1>1 DEF AlgebraOK, Return
<1> QED BY <1>2

LEMMA FinishKeeps ==
  ASSUME NEW op, NEW f, NEW g, NEW r, AlgebraOK(forest, known), Finished(op, f, g, r),
         Grown(forest, r[2]), Sound(r[2], op, f, g, r[1])
  PROVE  AlgebraOK(forest, known)'
<1>1. AlgebraOK(r[2], known)
  BY GrownKeeps
<1>2. AlgebraOK(Remember(r[2], <<op, f, g>>, r[1]), known \cup {<<op, f, g, r[1]>>})
  BY <1>1, RememberKeeps
<1> QED BY <1>2 DEF Finished, Return

LEMMA PassKeeps ==
  ASSUME NEW op, NEW f, NEW g, NEW r, AlgebraOK(forest, known), Passed(op, f, g, r),
         Sound(forest, op, f, g, r)
  PROVE  AlgebraOK(forest, known)'
<1>1. AlgebraOK(Remember(forest, <<op, f, g>>, r), known \cup {<<op, f, g, r>>})
  BY RememberKeeps
<1>2. /\ forest' = Remember(forest, <<op, f, g>>, r)
      /\ known' = known \cup {<<op, f, g, r>>}
  BY DEF Passed, Finished, Return
<1> QED BY <1>1, <1>2

LEMMA MakeKeeps ==
  ASSUME NEW op, NEW f, NEW g, NEW h, NEW low, NEW high, AlgebraOK(forest, known),
         Made(op, f, g, h, low, high),
         LET n == CreateNode(forest, h, low, high)
         IN Grown(forest, n[2]) /\ Sound(n[2], op, f, g, n[1])
  PROVE  AlgebraOK(forest, known)'
<1> DEFINE n == CreateNode(forest, h, low, high)
<1>1. Grown(forest, n[2]) /\ Sound(n[2], op, f, g, n[1]) /\ Finished(op, f, g, n)
  BY DEF Made
<1> HIDE DEF n
<1> QED BY <1>1, FinishKeeps

(* What was returned is sound.                                             *)
LEMMA ReturnedSound ==
  ASSUME AlgebraOK(forest, known), NEW op, NEW f, NEW g, NEW r, Returned(op, f, g, r)
  PROVE  Sound(forest, op, f, g, r)
  BY DEF AlgebraOK, AllSound, Returned

----------------------------------------------------------------------------
(* One lemma for each arm that recurses.                                   *)

Operands(f, g) == f \in Live(forest) /\ g \in Live(forest)

LEMMA OnlyInFKeeps ==
  ASSUME AlgebraOK(forest, known), NEW op \in ZddOp, NEW f, NEW g, Operands(f, g),
         Undet \notin {f, g}, OnlyInF(op, f, g)
  PROVE  AlgebraOK(forest, known)'
<1>0. FamiliesOK(forest) /\ f \in Live(forest) /\ g \in Live(forest) /\ g # Undet
  BY DEF AlgebraOK, Operands
<1>1. f \in Inner(forest) /\ Level(forest, g) < Level(forest, f)
  <2>1. ForestOK(forest)
    BY <1>0 DEF FamiliesOK
  <2>2. /\ Level(forest, f) \in Int /\ Level(forest, g) \in Int /\ -1 <= Level(forest, g)
        /\ \A t \in Terminals : Level(forest, t) = -1
    BY <1>0, <2>1, NodeFacts
  <2>3. Level(forest, f) > Level(forest, g)
    BY DEF OnlyInF
  <2> QED BY <1>0, <2>2, <2>3 DEF Inner
<1>2. CASE op = "intersect"
  <2>1. PICK r \in Live(forest) : Returned(op, Low(forest, f), g, r) /\ Passed(op, f, g, r)
    BY <1>2 DEF OnlyInF
  <2>2. Sound(forest, "intersect", Low(forest, f), g, r)
    BY <1>2, <2>1, ReturnedSound
  <2>3. Sound(forest, "intersect", f, g, r)
    BY <1>0, <1>1, <2>2, OnlyInFPassed
  <2> QED BY <1>2, <2>1, <2>3, PassKeeps
<1>3. CASE op = "divide"
  <2>1. PICK r \in Live(forest) : Passed(op, f, g, r)
    BY <1>3 DEF OnlyInF
  <2>2. Sound(forest, "divide", f, g, r)
    BY <1>0, DivideSound
  <2> QED BY <1>3, <2>1, <2>2, PassKeeps
<1>4. CASE op \in {"union", "setdiff"}
  <2>1. PICK r \in Live(forest) :
          /\ Returned(op, Low(forest, f), g, r)
          /\ Made(op, f, g, HeaderOf(forest, f), r, High(forest, f))
    BY <1>4 DEF OnlyInF
  <2>2. Sound(forest, op, Low(forest, f), g, r)
    BY <2>1, ReturnedSound
  <2>3. LET n == CreateNode(forest, HeaderOf(forest, f), r, High(forest, f))
        IN Grown(forest, n[2]) /\ Sound(n[2], op, f, g, n[1])
    BY <1>0, <1>1, <1>4, <2>2, OnlyInFMade
  <2> QED BY <2>1, <2>3, MakeKeeps
<1>5. CASE op = "product"
  <2>1. PICK r \in Live(forest), s \in Live(forest) :
          /\ Returned(op, Low(forest, f), g, r) /\ Returned(op, High(forest, f), g, s)
          /\ Made(op, f, g, HeaderOf(forest, f), r, s)
    BY <1>5 DEF OnlyInF
  <2>2. /\ Sound(forest, "product", Low(forest, f), g, r)
        /\ Sound(forest, "product", High(forest, f), g, s)
    BY <1>5, <2>1, ReturnedSound
  <2>3. LET n == CreateNode(forest, HeaderOf(forest, f), r, s)
        IN Grown(forest, n[2]) /\ Sound(n[2], "product", f, g, n[1])
    BY <1>0, <1>1, <2>2, OnlyInFMultiplied
  <2> QED BY <1>5, <2>1, <2>3, MakeKeeps
<1> QED BY <1>2, <1>3, <1>4, <1>5 DEF ZddOp

LEMMA OnlyInGKeeps ==
  ASSUME AlgebraOK(forest, known), NEW op \in ZddOp, NEW f, NEW g, Operands(f, g),
         Undet \notin {f, g}, OnlyInG(op, f, g)
  PROVE  AlgebraOK(forest, known)'
<1>0. FamiliesOK(forest) /\ f \in Live(forest) /\ g \in Live(forest) /\ f # Undet
  BY DEF AlgebraOK, Operands
<1>1. g \in Inner(forest) /\ Level(forest, f) < Level(forest, g)
  <2>1. ForestOK(forest)
    BY <1>0 DEF FamiliesOK
  <2>2. /\ Level(forest, f) \in Int /\ Level(forest, g) \in Int /\ -1 <= Level(forest, f)
        /\ \A t \in Terminals : Level(forest, t) = -1
    BY <1>0, <2>1, NodeFacts
  <2>3. Level(forest, f) < Level(forest, g)
    BY DEF OnlyInG
  <2> QED BY <1>0, <2>2, <2>3 DEF Inner
<1>2. CASE op \in {"intersect", "setdiff"}
  <2>1. PICK r \in Live(forest) : Returned(op, f, Low(forest, g), r) /\ Passed(op, f, g, r)
    BY <1>2 DEF OnlyInG
  <2>2. Sound(forest, op, f, Low(forest, g), r)
    BY <2>1, ReturnedSound
  <2>3. Sound(forest, op, f, g, r)
    BY <1>0, <1>1, <1>2, <2>2, OnlyInGPassed
  <2> QED BY <2>1, <2>3, PassKeeps
<1>3. CASE op = "divide"
  <2>1. Passed(op, f, g, Undet)
    BY <1>3 DEF OnlyInG
  <2>2. Undet \in Live(forest)
    BY <1>0, TerminalFacts DEF FamiliesOK
  <2>3. Sound(forest, "divide", f, g, Undet)
    BY <1>0, <2>2, DivideSound
  <2> QED BY <1>3, <2>1, <2>3, PassKeeps
<1>4. CASE op = "union"
  <2>1. PICK r \in Live(forest) :
          /\ Returned(op, f, Low(forest, g), r)
          /\ Made(op, f, g, HeaderOf(forest, g), r, High(forest, g))
    BY <1>4 DEF OnlyInG
  <2>2. Sound(forest, "union", f, Low(forest, g), r)
    BY <1>4, <2>1, ReturnedSound
  <2>3. LET n == CreateNode(forest, HeaderOf(forest, g), r, High(forest, g))
        IN Grown(forest, n[2]) /\ Sound(n[2], "union", f, g, n[1])
    BY <1>0, <1>1, <2>2, OnlyInGMade
  <2> QED BY <1>4, <2>1, <2>3, MakeKeeps
<1>5. CASE op = "product"
  <2>1. PICK r \in Live(forest), s \in Live(forest) :
          /\ Returned(op, f, Low(forest, g), r) /\ Returned(op, f, High(forest, g), s)
          /\ Made(op, f, g, HeaderOf(forest, g), r, s)
    BY <1>5 DEF OnlyInG
  <2>2. /\ Sound(forest, "product", f, Low(forest, g), r)
        /\ Sound(forest, "product", f, High(forest, g), s)
    BY <1>5, <2>1, ReturnedSound
  <2>3. LET n == CreateNode(forest, HeaderOf(forest, g), r, s)
        IN Grown(forest, n[2]) /\ Sound(n[2], "product", f, g, n[1])
    BY <1>0, <1>1, <2>2, OnlyInGMultiplied
  <2> QED BY <1>5, <2>1, <2>3, MakeKeeps
<1> QED BY <1>2, <1>3, <1>4, <1>5 DEF ZddOp

(* Two terminals never get as far as the levels.                           *)
LEMMA SettledTerminals ==
  ASSUME NEW op \in ZddOp, NEW f \in Terminals, NEW g \in Terminals,
         Immediate(op, f, g) = NoId, Settled(op, f, g) = NoId
  PROVE  FALSE
<1>1. f \in {0, 1, 2} /\ g \in {0, 1, 2}
  BY DEF Terminals, Zero, One, Undet
<1>2. CASE f = g /\ op \notin {"product", "divide"}
  BY <1>1, <1>2 DEF Immediate, NoId, Zero, Undet
<1>3. CASE f # g \/ op \in {"product", "divide"}
  BY <1>1, <1>3 DEF Settled, Intersected, United, Subtracted, Multiplied, Divided, Other, NoId,
                    Zero, One, Undet, ZddOp
<1> QED BY <1>2, <1>3

LEMMA InBothKeeps ==
  ASSUME AlgebraOK(forest, known), NEW op \in ZddOp, NEW f, NEW g, Operands(f, g),
         Immediate(op, f, g) = NoId, Settled(op, f, g) = NoId, InBoth(op, f, g)
  PROVE  AlgebraOK(forest, known)'
<1>0. FamiliesOK(forest) /\ f \in Live(forest) /\ g \in Live(forest)
  BY DEF AlgebraOK, Operands
<1>1. f \in Inner(forest) /\ g \in Inner(forest) /\ Level(forest, f) = Level(forest, g)
  <2>1. ForestOK(forest)
    BY <1>0 DEF FamiliesOK
  <2>2. /\ \A t \in Terminals : Level(forest, t) = -1
        /\ \A i \in Live(forest) : i \notin Terminals => Level(forest, i) \in Nat
    BY <2>1, NodeFacts
  <2>3. Level(forest, f) = Level(forest, g)
    BY DEF InBoth
  <2>4. f \in Terminals <=> g \in Terminals
    BY <1>0, <2>2, <2>3
  <2>5. f \notin Terminals
    BY <2>4, SettledTerminals
  <2> QED BY <1>0, <2>3, <2>4, <2>5 DEF Inner
<1>2. CASE Pairwise(op, f, g)
  <2>1. PICK r \in Live(forest), s \in Live(forest) :
          /\ Returned(op, Low(forest, f), Low(forest, g), r)
          /\ Returned(op, High(forest, f), High(forest, g), s)
          /\ Made(op, f, g, HeaderOf(forest, f), r, s)
    BY <1>2 DEF Pairwise
  <2>2. op \in {"intersect", "union", "setdiff"}
    BY <1>2 DEF Pairwise
  <2>3. /\ Sound(forest, op, Low(forest, f), Low(forest, g), r)
        /\ Sound(forest, op, High(forest, f), High(forest, g), s)
    BY <2>1, ReturnedSound
  <2>4. LET n == CreateNode(forest, HeaderOf(forest, f), r, s)
        IN Grown(forest, n[2]) /\ Sound(n[2], op, f, g, n[1])
    BY <1>0, <1>1, <2>2, <2>3, PairwiseMade
  <2> QED BY <2>1, <2>4, MakeKeeps
<1>3. CASE op = "product" /\ Multiply(f, g)
  <2>1. PICK low \in Live(forest), both \in Live(forest), inF \in Live(forest),
             inG \in Live(forest), more \in Live(forest), high \in Live(forest) :
          /\ Returned("product", Low(forest, f), Low(forest, g), low)
          /\ Returned("product", High(forest, f), High(forest, g), both)
          /\ Returned("product", High(forest, f), Low(forest, g), inF)
          /\ Returned("union", both, inF, more)
          /\ Returned("product", Low(forest, f), High(forest, g), inG)
          /\ Returned("union", more, inG, high)
          /\ Made("product", f, g, HeaderOf(forest, f), low, high)
    BY <1>3 DEF Multiply
  <2>2. /\ Sound(forest, "product", Low(forest, f), Low(forest, g), low)
        /\ Sound(forest, "product", High(forest, f), High(forest, g), both)
        /\ Sound(forest, "product", High(forest, f), Low(forest, g), inF)
        /\ Sound(forest, "union", both, inF, more)
        /\ Sound(forest, "product", Low(forest, f), High(forest, g), inG)
        /\ Sound(forest, "union", more, inG, high)
    BY <2>1, ReturnedSound
  <2>3. LET n == CreateNode(forest, HeaderOf(forest, f), low, high)
        IN Grown(forest, n[2]) /\ Sound(n[2], "product", f, g, n[1])
    BY <1>0, <1>1, <2>2, MultipliedMade
  <2> QED BY <1>3, <2>1, <2>3, MakeKeeps
<1>4. CASE op = "divide" /\ Divide(f, g)
  <2>1. PICK r \in Live(forest) : Passed("divide", f, g, r)
    BY <1>4 DEF Divide
  <2>2. Sound(forest, "divide", f, g, r)
    BY <1>0, DivideSound
  <2> QED BY <1>4, <2>1, <2>2, PassKeeps
<1> QED BY <1>2, <1>3, <1>4 DEF InBoth

LEMMA CallKeeps ==
  ASSUME AlgebraOK(forest, known), NEW op \in ZddOp, NEW f, NEW g, Operands(f, g), Call(op, f, g)
  PROVE  AlgebraOK(forest, known)'
<1>0. FamiliesOK(forest) /\ f \in Live(forest) /\ g \in Live(forest)
  BY DEF AlgebraOK, Operands
<1>1. CASE Decide(op, f, g)
  <2>1. Sound(forest, op, f, g, Immediate(op, f, g))
    BY <1>0, <1>1, DecideSound DEF Decide
  <2> QED BY <1>1, <2>1, ReturnKeeps DEF Decide
<1>2. CASE Hit(op, f, g)
  <2> DEFINE key == <<op, f, g>>
  <2>1. key \in DOMAIN forest.memo /\ key[1] = op /\ key[2] = f /\ key[3] = g
    BY <1>2 DEF Hit
  <2> HIDE DEF key
  <2>2. Sound(forest, op, f, g, forest.memo[key])
    BY <2>1 DEF AlgebraOK, MemoSound
  <2>3. Return(op, f, g, forest.memo[key]) /\ forest' = forest
    BY <1>2 DEF Hit, key
  <2> QED BY <2>2, <2>3, ReturnKeeps
<1>3. CASE Settle(op, f, g)
  <2>1. Sound(forest, op, f, g, Settled(op, f, g))
    BY <1>0, <1>3, SettleSound DEF Settle
  <2> QED BY <1>3, <2>1, PassKeeps DEF Settle
<1>4. CASE Expand(op, f, g)
  <2>1. Immediate(op, f, g) = NoId /\ Settled(op, f, g) = NoId
    BY <1>4 DEF Expand
  <2>2. Undet \notin {f, g}
    <3>1. f # NoId /\ Undet # NoId /\ Zero # NoId
      BY <1>0, TerminalFacts DEF FamiliesOK, Undet, Zero, NoId
    <3>2. g # NoId
      BY <1>0, TerminalFacts DEF FamiliesOK
    <3> QED BY <2>1, <3>1, <3>2
         DEF Settled, Intersected, United, Subtracted, Multiplied, Divided, Other, ZddOp
  <2>3. OnlyInF(op, f, g) \/ OnlyInG(op, f, g) \/ InBoth(op, f, g)
    BY <1>4 DEF Expand
  <2> QED BY <2>1, <2>2, <2>3, OnlyInFKeeps, OnlyInGKeeps, InBothKeeps
<1> QED BY <1>1, <1>2, <1>3, <1>4 DEF Call

----------------------------------------------------------------------------
(* Headers, nodes, a cleared table, a collection.                          *)

LEMMA NewHeaderKeeps ==
  ASSUME AlgebraOK(forest, known), NEW l \in Nat, NEW label \in Label, NewHeader(l, label)
  PROVE  AlgebraOK(forest, known)'
<1> DEFINE a == forest
           b == CreateHeader(a, l, label)
           x == [level |-> l, label |-> label]
<1>0. ForestOK(a) /\ FamiliesOK(a)
  BY DEF AlgebraOK, FamiliesOK
<1>1. ForestOK(b) /\ Preserves(a, b)
  BY <1>0, CreateHeaderOK
<1>2. PICK hs, n, f, t, m : a = Forest(hs, n, f, t, m)
  BY <1>0 DEF ForestOK, ForestType
<1>3. b.headers = Append(a.headers, x) /\ b.memo = a.memo /\ b.nodes = a.nodes /\ b.free = a.free
  BY <1>2 DEF CreateHeader, Forest
<1>4. a.headers \in Seq([level : Nat, label : Label])
  BY <1>0 DEF ForestOK, ForestType
<1>5. Len(a.headers) \in Nat /\ Len(b.headers) = Len(a.headers) + 1
  BY <1>3, <1>4
<1>6. \A k \in 1 .. Len(a.headers) : b.headers[k] = a.headers[k]
  BY <1>3, <1>4
<1>7. b.headers[Len(a.headers) + 1] = x
  BY <1>3, <1>4
<1> HIDE DEF a, b
<1>8. HeadersKept(a, b)
  <2>1. Headers(a) \subseteq Headers(b)
    BY <1>5 DEF Headers
  <2>2. \A h \in Headers(a) : h + 1 \in 1 .. Len(a.headers)
    BY <1>5 DEF Headers
  <2> QED BY <1>6, <2>1, <2>2 DEF HeadersKept
<1>9. \A h \in Headers(b) : h \in Headers(a) \/ h = Len(a.headers)
  BY <1>5 DEF Headers
<1>10. \A h \in Headers(a) : HeaderLevel(b, h) = HeaderLevel(a, h) /\ HeaderLabel(b, h) = HeaderLabel(a, h)
  BY <1>8 DEF HeadersKept, HeaderLevel, HeaderLabel
<1>11. HeaderLevel(b, Len(a.headers)) = l /\ HeaderLabel(b, Len(a.headers)) = label
  BY <1>7 DEF HeaderLevel, HeaderLabel
<1>12. \A h \in Headers(a) : HeaderLevel(a, h) = l <=> HeaderLabel(a, h) = label
  BY DEF NewHeader, a
<1>13. LevelsLabelled(b)
  BY <1>0, <1>9, <1>10, <1>11, <1>12 DEF FamiliesOK, LevelsLabelled
<1>14. NoUndetBelow(b)
  <2>1. Inner(b) = Inner(a) /\ \A i : Kids(b, i) = Kids(a, i)
    BY <1>3 DEF Inner, Live, Slots, Kids, Low, High, At
  <2> QED BY <1>0, <2>1 DEF FamiliesOK, NoUndetBelow
<1>15. Grown(a, b)
  BY <1>1, <1>3, <1>8, <1>13, <1>14 DEF Grown, FamiliesOK
<1>16. AlgebraOK(b, known)
  BY <1>15, GrownKeeps DEF a
<1>17. forest' = b /\ known' = known
  BY DEF NewHeader, a, b
<1> QED BY <1>16, <1>17

LEMMA NewNodeKeeps ==
  ASSUME AlgebraOK(forest, known), NEW h \in Headers(forest), NEW low, NEW high,
         NewNode(h, low, high)
  PROVE  AlgebraOK(forest, known)'
<1> DEFINE n == CreateNode(forest, h, low, high)
<1>1. Grown(forest, n[2])
  BY MadeGrows DEF NewNode, AlgebraOK
<1>2. forest' = n[2] /\ known' = known
  BY DEF NewNode
<1> HIDE DEF n
<1>3. AlgebraOK(n[2], known)
  BY <1>1, GrownKeeps
<1> QED BY <1>2, <1>3

LEMMA ForgetKeeps ==
  ASSUME AlgebraOK(forest, known), ForgetMemo
  PROVE  AlgebraOK(forest, known)'
<1> DEFINE memo == [k \in {} |-> NoId]
           b == [forest EXCEPT !.memo = memo]
<1>1. /\ FamiliesOK(b) /\ b.memo = memo
      /\ \A o, x, y, z : Sound(forest, o, x, y, z) => Sound(b, o, x, y, z)
  <2>1. \A k \in DOMAIN memo : {k[2], k[3], memo[k]} \subseteq Live(forest)
    OBVIOUS
  <2> HIDE DEF memo
  <2> QED BY <2>1, MemoReplaced DEF AlgebraOK
<1>2. forest' = b /\ known' = known
  BY DEF ForgetMemo, ClearCache
<1> HIDE DEF b
<1>3. MemoSound(b)
  BY <1>1 DEF MemoSound
<1>4. AllSound(b, known)
  BY <1>1 DEF AlgebraOK, AllSound
<1>5. AlgebraOK(b, known)
  BY <1>1, <1>3, <1>4 DEF AlgebraOK
<1> QED BY <1>2, <1>5

LEMMA CollectKeeps ==
  ASSUME AlgebraOK(forest, known), NEW live, Collect(live)
  PROVE  AlgebraOK(forest, known)'
<1> DEFINE a == forest
           b == Swept(a, live)
           kn == {q \in known : {q[2], q[3], q[4]} \subseteq live}
<1>0. ForestOK(a) /\ FamiliesOK(a) /\ Closed(a, live)
  BY DEF AlgebraOK, FamiliesOK, Collect
<1>1. ForestOK(b) /\ Live(b) = live /\ \A i : At(b, i) = At(a, i)
  BY <1>0, SweptOK
<1>2. PICK hs, n, f, t, m : a = Forest(hs, n, f, t, m)
  BY <1>0 DEF ForestOK, ForestType
<1>3. b.headers = a.headers /\ b.memo = RestrictTo(a.memo, LiveEntries(a, live))
  BY <1>2 DEF Swept, Forest
<1>4. live \subseteq Live(a)
  BY <1>0 DEF Closed
<1> HIDE DEF a, b
<1>5. FamiliesOK(b) /\ HeadersKept(a, b)
  BY <1>0, <1>1, <1>3, <1>4, SameGraph
<1>6. ASSUME NEW op, NEW f1, NEW g, NEW r, Sound(a, op, f1, g, r), {f1, g, r} \subseteq live
      PROVE  Sound(b, op, f1, g, r)
  BY <1>0, <1>1, <1>5, <1>6, SoundKept
<1>7. MemoSound(b)
  <2> SUFFICES ASSUME NEW k \in DOMAIN b.memo PROVE Sound(b, k[1], k[2], k[3], b.memo[k])
    BY DEF MemoSound
  <2>1. k \in LiveEntries(a, live) /\ b.memo[k] = a.memo[k]
    BY <1>3 DEF RestrictTo
  <2>2. k \in DOMAIN a.memo /\ {k[2], k[3], a.memo[k]} \subseteq live
    BY <2>1 DEF LiveEntries
  <2>3. Sound(a, k[1], k[2], k[3], a.memo[k])
    BY <2>2 DEF AlgebraOK, MemoSound, a
  <2> QED BY <1>6, <2>1, <2>2, <2>3
<1>8. AllSound(b, kn)
  <2> SUFFICES ASSUME NEW q \in known, {q[2], q[3], q[4]} \subseteq live
               PROVE  Sound(b, q[1], q[2], q[3], q[4])
    BY DEF AllSound
  <2>1. Sound(a, q[1], q[2], q[3], q[4])
    BY DEF AlgebraOK, AllSound, a
  <2> QED BY <1>6, <2>1
<1> HIDE DEF kn
<1>9. AlgebraOK(b, kn)
  BY <1>5, <1>7, <1>8 DEF AlgebraOK
<1>10. forest' = b /\ known' = kn
  BY DEF Collect, a, b, kn
<1> QED BY <1>9, <1>10

LEMMA NewAlgebraOK == AlgebraOK(NewForest, {})
<1>1. ForestOK(NewForest)
  BY NewForestOK
<1>2. NewForest.headers = <<>> /\ NewForest.memo = [k \in {} |-> NoId] /\ Len(NewForest.nodes) = 3
  BY DEF NewForest
<1>3. Inner(NewForest) = {}
  BY <1>2 DEF Inner, Live, Slots, Terminals, Zero, One, Undet
<1>4. Headers(NewForest) = {}
  BY <1>2 DEF Headers
<1>5. FamiliesOK(NewForest)
  BY <1>1, <1>3, <1>4 DEF FamiliesOK, LevelsLabelled, NoUndetBelow
<1> QED BY <1>2, <1>5 DEF AlgebraOK, MemoSound, AllSound

LEMMA EngineKeeps ==
  ASSUME AlgebraOK(forest, known), [EngineNext]_engine
  PROVE  AlgebraOK(forest, known)'
<1>1. CASE \E l \in Nat, label \in Label : NewHeader(l, label)
  BY <1>1, NewHeaderKeeps
<1>2. CASE \E h \in Headers(forest) : \E low, high \in Live(forest) : NewNode(h, low, high)
  BY <1>2, NewNodeKeeps
<1>3. CASE \E op \in ZddOp : \E f, g \in Live(forest) : Call(op, f, g)
  <2>1. PICK op \in ZddOp, f \in Live(forest), g \in Live(forest) : Call(op, f, g)
    BY <1>3
  <2>2. Operands(f, g)
    BY DEF Operands
  <2> QED BY <2>1, <2>2, CallKeeps
<1>4. CASE ForgetMemo
  BY <1>4, ForgetKeeps
<1>5. CASE \E live \in SUBSET Live(forest) : Collect(live)
  BY <1>5, CollectKeeps
<1>6. CASE UNCHANGED engine
  BY <1>6 DEF engine
<1> QED BY <1>1, <1>2, <1>3, <1>4, <1>5, <1>6 DEF EngineNext

LEMMA AlgebraHolds == EngineSpec => []AlgebraOK(forest, known)
<1>1. EngineInit => AlgebraOK(forest, known)
  BY NewAlgebraOK DEF EngineInit
<1>2. AlgebraOK(forest, known) /\ [EngineNext]_engine => AlgebraOK(forest, known)'
  BY EngineKeeps
<1> QED BY <1>1, <1>2, PTL DEF EngineSpec

(* Every entry of the computed table is a result of its operation on the   *)
(* families its slots denote now, whatever headers they have and whatever  *)
(* was collected and recycled since (zdd_ops.rs: union, intersect, setdiff,*)
(* product; zdd.rs: gc).                                                   *)
THEOREM TablesAreExact == EngineSpec => []TablesExact
<1>1. AlgebraOK(forest, known) => TablesExact
  BY DEF AlgebraOK, MemoSound, Sound, TablesExact
<1> QED BY <1>1, AlgebraHolds, PTL

(* What any call returns, from the table or by its arms, is a result of    *)
(* its operation, as long as the slots it names are not given away.        *)
THEOREM ResultsAreExact == EngineSpec => []KnownSound
<1>1. AlgebraOK(forest, known) => KnownSound
  BY DEF AlgebraOK, AllSound, Sound, KnownSound
<1> QED BY <1>1, AlgebraHolds, PTL

(* No operation puts the undetermined node under another one, so what is   *)
(* not that node itself denotes a family.                                  *)
THEOREM UndetStandsAlone == EngineSpec => []UndetAlone
<1>1. AlgebraOK(forest, known) => UndetAlone
  BY DEF AlgebraOK, FamiliesOK, NoUndetBelow, UndetAlone
<1> QED BY <1>1, AlgebraHolds, PTL
=============================================================================
