------------------------ MODULE ComputeCache_proofs ------------------------
(***************************************************************************)
(* ComputeCache keeps its counter exact and its entries at home, and is a  *)
(* HintTable, for every set of keys, every hash and every size.            *)
(***************************************************************************)
EXTENDS ComputeCache, FiniteSetTheorems, TLAPS

(* A key has a slot in a table of any size.                                *)
LEMMA HomeIsSlot ==
  ASSUME NEW k \in Key, NEW b \in 0 .. MaxBits
  PROVE  Home(k, b) \in Names(b)
BY CacheConstants DEF Home, Names

(* Keys that share a slot shared one before the table was doubled.         *)
LEMMA HomeLow ==
  ASSUME NEW k \in Key, NEW m \in Key, NEW b \in Nat,
         Home(k, b + 1) = Home(m, b + 1)
  PROVE  Home(k, b) = Home(m, b)
<1>1. \A j \in 0 .. b - 1 : Hash[k][j] = Hash[m][j]
  <2> TAKE j \in 0 .. b - 1
  <2>1. j \in 0 .. b + 1 - 1
    OBVIOUS
  <2>2. Home(k, b + 1)[j] = Hash[k][j] /\ Home(m, b + 1)[j] = Hash[m][j]
    BY <2>1 DEF Home
  <2> QED
    BY <2>2
<1> QED
  BY <1>1 DEF Home

(* Storing an entry keeps the slots well-formed and the counter exact.     *)
LEMMA StoreStep ==
  ASSUME CacheTypeOK, LenExact, NEW e \in Entry, PutNoGrow(e),
         \A i \in DOMAIN slots : slots[i] # None => i = Home(slots[i].key, bits)
  PROVE  /\ Home(e.key, bits) \in DOMAIN slots
         /\ slots' \in [Names(bits) -> Entry \cup {None}]
         /\ slots'[Home(e.key, bits)] = e
         /\ \A i \in DOMAIN slots : i # Home(e.key, bits) => slots'[i] = slots[i]
         /\ \A i \in DOMAIN slots' : slots'[i] # None => i = Home(slots'[i].key, bits)
         /\ len' \in Nat
         /\ IsFiniteSet(Occupied') /\ len' = Cardinality(Occupied')
<1> DEFINE h == Home(e.key, bits)
<1>1. e.key \in Key /\ bits \in 0 .. MaxBits
  BY CacheConstants DEF Entry, CacheTypeOK
<1>2. h \in Names(bits) /\ DOMAIN slots = Names(bits)
  BY <1>1, HomeIsSlot DEF CacheTypeOK
<1>3. slots' = [slots EXCEPT ![h] = e]
  BY DEF PutNoGrow
<1>4. e # None
  BY CacheConstants DEF Entry
<1>5. Occupied' = Occupied \cup {h}
  BY <1>2, <1>3, <1>4 DEF Occupied, CacheTypeOK
<1>6. /\ IsFiniteSet(Occupied \cup {h})
      /\ Cardinality(Occupied \cup {h})
           = IF h \in Occupied THEN Cardinality(Occupied) ELSE Cardinality(Occupied) + 1
  BY FS_AddElement DEF LenExact
<1>7. h \in Occupied <=> slots[h] # None
  BY <1>2 DEF Occupied
<1>8. len' = Cardinality(Occupied')
  BY <1>5, <1>6, <1>7 DEF PutNoGrow, LenExact
<1>9. len' \in Nat
  BY <1>7 DEF PutNoGrow, CacheTypeOK
<1> QED
  BY <1>1, <1>2, <1>3, <1>5, <1>6, <1>8, <1>9 DEF CacheTypeOK

(* Removing entries, and telling the counter how many, keeps it exact.     *)
LEMMA RemoveStep ==
  ASSUME CacheInvariant, NEW D \in SUBSET Occupied,
         slots' = [i \in DOMAIN slots |-> IF i \in D THEN None ELSE slots[i]],
         len' = len - Cardinality(D),
         UNCHANGED <<bits, rest, putting>>, Idle
  PROVE  CacheInvariant'
<1> USE DEF CacheInvariant
<1>1. DOMAIN slots' = DOMAIN slots /\ \A i \in DOMAIN slots' : slots'[i] \in {slots[i], None}
  OBVIOUS
<1>2. Occupied' = Occupied \ D
  BY DEF Occupied
<1>3. /\ IsFiniteSet(D) /\ IsFiniteSet(Occupied \ D)
      /\ Cardinality(Occupied \ D) = Cardinality(Occupied) - Cardinality(Occupied \cap D)
  BY FS_Subset, FS_Difference DEF LenExact
<1>4. Occupied \cap D = D
  OBVIOUS
<1>5. Cardinality(Occupied \ D) \in Nat
  BY <1>3, FS_CardinalityType
<1>6. LenExact' /\ len' \in Nat
  BY <1>2, <1>3, <1>4, <1>5 DEF LenExact
<1>7. CacheTypeOK'
  BY <1>1, <1>6 DEF CacheTypeOK
<1>8. AtHome'
  BY <1>1 DEF AtHome
<1>9. NoClash'
  BY DEF NoClash, CacheTypeOK
<1> QED
  BY <1>6, <1>7, <1>8, <1>9

----------------------------------------------------------------------------
(* The invariant.                                                          *)

LEMMA CacheInitInv == CacheInit => CacheInvariant
<1> SUFFICES ASSUME CacheInit PROVE CacheInvariant
  OBVIOUS
<1> USE DEF CacheInit, CacheInvariant
<1>1. Occupied = {}
  BY DEF Occupied, WithBits
<1>2. LenExact
  BY <1>1, FS_EmptySet DEF LenExact
<1>3. CacheTypeOK
  BY CacheConstants DEF CacheTypeOK, WithBits, Nothing
<1>4. AtHome /\ NoClash
  BY DEF AtHome, NoClash, WithBits, Nothing
<1> QED
  BY <1>2, <1>3, <1>4

LEMMA PutInv ==
  ASSUME CacheInvariant, NEW e \in Entry, Put(e)
  PROVE  CacheInvariant'
<1> USE DEF CacheInvariant, Put
<1>1. \A i \in DOMAIN slots : slots[i] # None => i = Home(slots[i].key, bits)
  BY DEF AtHome
<1>2. /\ slots' \in [Names(bits) -> Entry \cup {None}] /\ len' \in Nat
      /\ \A i \in DOMAIN slots' : slots'[i] # None => i = Home(slots'[i].key, bits)
      /\ IsFiniteSet(Occupied') /\ len' = Cardinality(Occupied')
  BY <1>1, StoreStep
<1>3. DOMAIN rest = {} /\ rest' = rest /\ bits' = bits /\ putting' = putting
  BY DEF CacheTypeOK
<1>4. CacheTypeOK'
  BY <1>2, <1>3 DEF CacheTypeOK, Idle
<1>5. AtHome' /\ NoClash'
  BY <1>2, <1>3 DEF AtHome, NoClash
<1> QED
  BY <1>2, <1>4, <1>5 DEF LenExact

LEMMA GrowInv ==
  ASSUME CacheInvariant, NEW e \in Entry, Grow(e)
  PROVE  CacheInvariant'
<1> USE DEF CacheInvariant, Grow
<1>1. bits \in InitBits .. MaxBits - 1 /\ bits' = bits + 1 /\ bits' - 1 = bits
  BY CacheConstants DEF CacheTypeOK, Full
<1>2. Occupied' = {}
  BY DEF Occupied, WithBits
<1>3. LenExact'
  BY <1>2, FS_EmptySet DEF LenExact
<1>4. e # None
  BY CacheConstants DEF Entry
<1>5. slots' = [i \in Names(bits') |-> None] /\ rest' = slots /\ putting' = e /\ len' = 0
  BY DEF WithBits
<1>6. CacheTypeOK'
  <2>1. slots \in [Names(bits) -> Entry \cup {None}]
    BY DEF CacheTypeOK
  <2>2. rest' \in [DOMAIN rest' -> Entry \cup {None}] /\ DOMAIN rest' = Names(bits' - 1)
    BY <1>1, <1>5, <2>1
  <2>3. slots' \in [Names(bits') -> Entry \cup {None}]
    BY <1>5
  <2>4. bits' \in InitBits .. MaxBits /\ bits' > InitBits
    BY <1>1, CacheConstants
  <2>5. putting' \in Entry /\ ~ Idle' /\ len' \in Nat
    BY <1>4, <1>5 DEF Idle
  <2> QED
    BY <2>2, <2>3, <2>4, <2>5 DEF CacheTypeOK
<1>7. AtHome'
  BY <1>1, <1>5 DEF AtHome
<1>8. NoClash'
  <2>1. \A i \in DOMAIN rest' : rest'[i] # None => Home(rest'[i].key, bits') \in Names(bits')
    BY <1>1, <1>5, HomeIsSlot, CacheConstants DEF CacheTypeOK, Entry
  <2> QED
    BY <2>1, <1>5 DEF NoClash
<1> QED
  BY <1>3, <1>6, <1>7, <1>8

LEMMA RehashInv ==
  ASSUME CacheInvariant, NEW i \in DOMAIN rest, Rehash(i)
  PROVE  CacheInvariant'
<1> USE DEF CacheInvariant
<1>1. /\ rest' = [j \in DOMAIN rest \ {i} |-> rest[j]]
      /\ bits' = bits /\ putting' = putting
  BY DEF Rehash, Restrict
<1>2. bits - 1 \in Nat /\ bits - 1 + 1 = bits /\ bits \in InitBits .. MaxBits
  BY CacheConstants DEF CacheTypeOK
<1>3. CASE rest[i] = None
  <2>1. slots' = slots /\ len' = len
    BY <1>3 DEF Rehash
  <2>2. CacheTypeOK'
    BY <1>1, <2>1 DEF CacheTypeOK, Idle
  <2>3. AtHome' /\ NoClash'
    BY <1>1, <2>1 DEF AtHome, NoClash
  <2>4. LenExact'
    BY <2>1 DEF LenExact, Occupied
  <2> QED
    BY <2>2, <2>3, <2>4
<1>4. CASE rest[i] # None
  <2> DEFINE h == Home(rest[i].key, bits)
  <2>1. rest[i] \in Entry /\ PutNoGrow(rest[i])
    BY <1>4 DEF CacheTypeOK, Rehash
  <2>2. \A j \in DOMAIN slots : slots[j] # None => j = Home(slots[j].key, bits)
    BY DEF AtHome
  <2>3. /\ slots' \in [Names(bits) -> Entry \cup {None}] /\ len' \in Nat
        /\ \A j \in DOMAIN slots : j # h => slots'[j] = slots[j]
        /\ \A j \in DOMAIN slots' : slots'[j] # None => j = Home(slots'[j].key, bits)
        /\ IsFiniteSet(Occupied') /\ len' = Cardinality(Occupied')
    BY <2>1, <2>2, StoreStep
  <2>4. CacheTypeOK'
    BY <1>1, <2>3 DEF CacheTypeOK, Idle
  <2>5. AtHome'
    BY <1>1, <2>3 DEF AtHome
  <2>6. ASSUME NEW j \in DOMAIN rest, j # i, rest[j] # None
        PROVE  Home(rest[j].key, bits) # h
    <3>1. rest[j].key \in Key /\ rest[i].key \in Key
      BY <1>4, <2>6 DEF CacheTypeOK, Entry
    <3>2. j = Home(rest[j].key, bits - 1) /\ i = Home(rest[i].key, bits - 1)
      BY <1>4, <2>6 DEF AtHome
    <3> QED
      BY <3>1, <3>2, <2>6, <1>2, HomeLow
  <2>7. NoClash'
    <3> SUFFICES ASSUME NEW j \in DOMAIN rest, j # i, rest[j] # None
                 PROVE  slots'[Home(rest[j].key, bits)] = None
      BY <1>1 DEF NoClash
    <3>1. Home(rest[j].key, bits) # h
      BY <2>6
    <3>2. Home(rest[j].key, bits) \in DOMAIN slots
      BY <1>2, HomeIsSlot, CacheConstants DEF CacheTypeOK, Entry
    <3>3. slots[Home(rest[j].key, bits)] = None
      BY DEF NoClash
    <3> QED
      BY <2>3, <3>1, <3>2, <3>3
  <2> QED
    BY <2>3, <2>4, <2>5, <2>7 DEF LenExact
<1> QED
  BY <1>3, <1>4

LEMMA PutGrownInv ==
  ASSUME CacheInvariant, PutGrown
  PROVE  CacheInvariant'
<1> USE DEF CacheInvariant, PutGrown
<1>1. putting \in Entry
  BY DEF CacheTypeOK, Idle
<1>2. \A i \in DOMAIN slots : slots[i] # None => i = Home(slots[i].key, bits)
  BY DEF AtHome
<1>3. /\ slots' \in [Names(bits) -> Entry \cup {None}] /\ len' \in Nat
      /\ \A i \in DOMAIN slots' : slots'[i] # None => i = Home(slots'[i].key, bits)
      /\ IsFiniteSet(Occupied') /\ len' = Cardinality(Occupied')
  BY <1>1, <1>2, StoreStep
<1>4. CacheTypeOK'
  BY <1>3 DEF CacheTypeOK, Idle
<1>5. AtHome' /\ NoClash'
  BY <1>3 DEF AtHome, NoClash
<1> QED
  BY <1>3, <1>4, <1>5 DEF LenExact

LEMMA RetainInv ==
  ASSUME CacheInvariant, NEW live \in SUBSET Val, RetainLive(live) \/ RetainLive3(live)
  PROVE  CacheInvariant'
<1>1. CASE RetainLive(live)
  <2> DEFINE D == Dead(Operands, live)
  <2>1. D \in SUBSET Occupied
    BY DEF Dead, Occupied
  <2>2. /\ slots' = [i \in DOMAIN slots |-> IF i \in D THEN None ELSE slots[i]]
        /\ len' = len - Cardinality(D) /\ Idle /\ UNCHANGED <<bits, rest, putting>>
    BY <1>1 DEF RetainLive, Retain
  <2> QED
    BY <2>1, <2>2, RemoveStep
<1>2. CASE RetainLive3(live)
  <2> DEFINE D == Dead(AllIds, live)
  <2>1. D \in SUBSET Occupied
    BY DEF Dead, Occupied
  <2>2. /\ slots' = [i \in DOMAIN slots |-> IF i \in D THEN None ELSE slots[i]]
        /\ len' = len - Cardinality(D) /\ Idle /\ UNCHANGED <<bits, rest, putting>>
    BY <1>2 DEF RetainLive3, Retain
  <2> QED
    BY <2>1, <2>2, RemoveStep
<1> QED
  BY <1>1, <1>2

LEMMA ClearInv ==
  ASSUME CacheInvariant, Clear
  PROVE  CacheInvariant'
<1> USE DEF CacheInvariant, Clear
<1>1. Occupied' = {}
  BY DEF Occupied
<1>2. LenExact'
  BY <1>1, FS_EmptySet DEF LenExact
<1>3. CacheTypeOK'
  BY DEF CacheTypeOK, Idle
<1>4. AtHome' /\ NoClash'
  BY DEF AtHome, NoClash, CacheTypeOK, Idle
<1> QED
  BY <1>2, <1>3, <1>4

LEMMA CacheStepInv ==
  ASSUME CacheInvariant, [CacheNext]_cachevars
  PROVE  CacheInvariant'
<1>1. ASSUME UNCHANGED cachevars
      PROVE  CacheInvariant'
  BY <1>1 DEF cachevars, CacheInvariant, CacheTypeOK, AtHome, NoClash, LenExact, Occupied, Idle
<1>2. ASSUME NEW e \in Entry, Put(e) \/ Grow(e)
      PROVE  CacheInvariant'
  BY <1>2, PutInv, GrowInv
<1>3. ASSUME NEW i \in DOMAIN rest, Rehash(i)
      PROVE  CacheInvariant'
  BY <1>3, RehashInv
<1>4. ASSUME NEW live \in SUBSET Val, RetainLive(live) \/ RetainLive3(live)
      PROVE  CacheInvariant'
  BY <1>4, RetainInv
<1> QED
  BY <1>1, <1>2, <1>3, <1>4, PutGrownInv, ClearInv DEF CacheNext

(* The counter is exact and every entry is where a lookup finds it, through*)
(* growth, overwriting, filters and clears, for any hash.                  *)
THEOREM CacheInvariance == CacheSpec => []CacheInvariant
<1>1. CacheInit => CacheInvariant
  BY CacheInitInv
<1>2. CacheInvariant /\ [CacheNext]_cachevars => CacheInvariant'
  BY CacheStepInv
<1> QED
  BY <1>1, <1>2, PTL DEF CacheSpec

----------------------------------------------------------------------------
(* The refinement.                                                         *)

(* When no old table is left a lookup sees the whole memo.                 *)
LEMMA MemoIsGet ==
  ASSUME DOMAIN rest = {}, NEW k \in Key
  PROVE  Memo(k) = Get(k)
BY DEF Memo

(* Storing an entry is a Store of the hint.                                *)
LEMMA StoreIsStore ==
  ASSUME CacheInvariant, CacheInvariant', NEW e \in Entry, PutNoGrow(e),
         DOMAIN rest = {}, rest' = rest, bits' = bits
  PROVE  Hint!Store(e.key, e.val)
<1> USE DEF CacheInvariant
<1> DEFINE k == e.key
           h == Home(k, bits)
           lost == IF slots[h] # None THEN slots[h].key ELSE k
<1>1. k \in Key /\ e.val \in Val /\ e # None
  BY CacheConstants DEF Entry
<1>2. /\ h \in DOMAIN slots /\ slots'[h] = e
      /\ \A i \in DOMAIN slots : i # h => slots'[i] = slots[i]
  BY StoreStep DEF AtHome
<1>3. \A x \in Key : Home(x, bits) \in DOMAIN slots
  BY HomeIsSlot, CacheConstants DEF CacheTypeOK
<1>4. \A x \in Key : Memo(x) = Get(x) /\ Memo(x)' = Get(x)'
  <2> TAKE x \in Key
  <2>1. Memo(x) = Get(x)
    BY MemoIsGet
  <2>2. Memo(x)' = Get(x)'
    BY DEF Memo
  <2> QED
    BY <2>1, <2>2
<1>5. \A x \in Key : Get(x)' \in Val \cup {None}
  <2> TAKE x \in Key
  <2>1. slots'[Home(x, bits)] \in Entry \cup {None}
    BY <1>3 DEF CacheTypeOK
  <2> QED
    BY <2>1 DEF Get, Entry
<1>6. Get(k)' = e.val
  BY <1>1, <1>2 DEF Get
<1>7. \A x \in Key \ {k} : Get(x)' \in {Get(x), None}
  <2> TAKE x \in Key \ {k}
  <2>1. CASE Home(x, bits) = h
    BY <2>1, <1>2 DEF Get
  <2>2. CASE Home(x, bits) # h
    BY <2>2, <1>2, <1>3 DEF Get
  <2> QED
    BY <2>1, <2>2
<1>8. lost \in Key
  BY <1>1, <1>2 DEF CacheTypeOK, Entry
<1>9. \A x \in Key \ {k, lost} : Get(x)' = Get(x)
  <2> TAKE x \in Key \ {k, lost}
  <2>1. CASE Home(x, bits) = h
    <3>1. Get(x)' = None
      BY <2>1, <1>2 DEF Get
    <3>2. Get(x) = None
      BY <2>1 DEF Get
    <3> QED
      BY <3>1, <3>2
  <2>2. CASE Home(x, bits) # h
    BY <2>2, <1>2, <1>3 DEF Get
  <2> QED
    BY <2>1, <2>2
<1> HIDE DEF lost, k
<1>10. \A x \in Key : [m \in Key |-> Memo(m)]'[x] = Get(x)' /\ [m \in Key |-> Memo(m)][x] = Get(x)
  BY <1>4
<1>11. [m \in Key |-> Memo(m)]' \in [Key -> Val \cup {None}]
  BY <1>4, <1>5
<1>12. [m \in Key |-> Memo(m)]'[k] = e.val
  BY <1>1, <1>6, <1>10 DEF k
<1>13. \A x \in Key \ {k, lost} : [m \in Key |-> Memo(m)]'[x] = [m \in Key |-> Memo(m)][x]
  BY <1>9, <1>10
<1>14. \A x \in Key \ {k} : [m \in Key |-> Memo(m)]'[x] \in {[m \in Key |-> Memo(m)][x], None}
  BY <1>7, <1>10
<1> QED
  BY <1>8, <1>11, <1>12, <1>13, <1>14 DEF Hint!Store, k

(* Growing is invisible: the old table still answers.                      *)
LEMMA GrowIsStutter ==
  ASSUME CacheInvariant, NEW e \in Entry, Grow(e), NEW x \in Key
  PROVE  Memo(x)' = Memo(x)
<1> USE DEF CacheInvariant
<1>1. bits' - 1 = bits /\ rest' = slots /\ slots' = [i \in Names(bits') |-> None]
  BY DEF Grow, CacheTypeOK, WithBits
<1>2. bits \in 0 .. MaxBits /\ bits' \in 0 .. MaxBits /\ DOMAIN rest = {}
  BY CacheConstants DEF CacheTypeOK, Grow, Full
<1>3. Home(x, bits) \in DOMAIN slots
  BY <1>2, HomeIsSlot DEF CacheTypeOK
<1>4. Home(x, bits') \in Names(bits')
  BY <1>2, HomeIsSlot
<1>5. Get(x)' = None
  BY <1>1, <1>4 DEF Get
<1>6. Memo(x) = Get(x)
  BY <1>2, MemoIsGet
<1>7. Memo(x)' = IF slots[Home(x, bits)] # None /\ slots[Home(x, bits)].key = x
                   THEN slots[Home(x, bits)].val ELSE Get(x)'
  BY <1>1, <1>3 DEF Memo
<1> QED
  BY <1>5, <1>6, <1>7 DEF Get

(* So is storing an old entry again.                                       *)
LEMMA RehashIsStutter ==
  ASSUME CacheInvariant, NEW i \in DOMAIN rest, Rehash(i), NEW x \in Key
  PROVE  Memo(x)' = Memo(x)
<1> USE DEF CacheInvariant
<1>1. /\ rest' = [j \in DOMAIN rest \ {i} |-> rest[j]] /\ bits' = bits
  BY DEF Rehash, Restrict
<1>2. bits - 1 \in Nat /\ bits - 1 + 1 = bits /\ bits \in 0 .. MaxBits
  BY CacheConstants DEF CacheTypeOK
<1> DEFINE old == Home(x, bits - 1)
           new == Home(x, bits)
<1>3. new \in DOMAIN slots
  BY <1>2, HomeIsSlot DEF CacheTypeOK
<1>4. CASE rest[i] = None
  <2>1. slots' = slots
    BY <1>4 DEF Rehash
  <2>2. Get(x)' = Get(x)
    BY <2>1, <1>1 DEF Get
  <2> QED
    BY <2>2, <1>1, <1>4 DEF Memo
<1>5. CASE rest[i] # None
  <2> DEFINE h == Home(rest[i].key, bits)
  <2>1. rest[i] \in Entry /\ PutNoGrow(rest[i]) /\ rest[i].key \in Key
    BY <1>5 DEF CacheTypeOK, Rehash, Entry
  <2>2. /\ slots'[h] = rest[i] /\ h \in DOMAIN slots
        /\ \A j \in DOMAIN slots : j # h => slots'[j] = slots[j]
    BY <2>1, StoreStep DEF AtHome
  <2>3. i = Home(rest[i].key, bits - 1)
    BY <1>5 DEF AtHome
  <2>4. slots[h] = None
    BY <1>5 DEF NoClash
  <2>5. CASE rest[i].key = x
    <3>1. Memo(x) = rest[i].val
      BY <2>3, <2>5, <1>5 DEF Memo
    <3>2. Get(x)' = rest[i].val
      BY <2>2, <2>5, <1>1, <1>5 DEF Get
    <3>3. Memo(x)' = Get(x)'
      BY <2>3, <2>5, <1>1 DEF Memo
    <3> QED
      BY <3>1, <3>2, <3>3
  <2>6. CASE rest[i].key # x
    <3>1. Get(x)' = Get(x)
      <4>1. CASE new = h
        BY <4>1, <2>2, <2>4, <2>6, <1>1 DEF Get
      <4>2. CASE new # h
        BY <4>2, <2>2, <1>1, <1>3 DEF Get
      <4> QED
        BY <4>1, <4>2
    <3> QED
      BY <3>1, <2>6, <1>1 DEF Memo
  <2> QED
    BY <2>5, <2>6
<1> QED
  BY <1>4, <1>5

(* A filter removes exactly the entries whose ids are not all live: stated *)
(* of one key, whose ids are ks.                                           *)
LEMMA FilterOne ==
  ASSUME CacheInvariant, NEW live \in SUBSET Val, NEW k \in Key, NEW ks,
         DOMAIN rest = {}, rest' = rest, bits' = bits,
         \A i \in DOMAIN slots : slots'[i] \in {slots[i], None},
         \A i \in DOMAIN slots : slots[i] # None /\ slots[i].key = k =>
           slots'[i] = IF ks \cup {slots[i].val} \subseteq live THEN slots[i] ELSE None
  PROVE  Memo(k)' = IF ks \cup {Memo(k)} \subseteq live THEN Memo(k) ELSE None
<1> USE DEF CacheInvariant
<1> DEFINE h == Home(k, bits)
<1>1. h \in DOMAIN slots
  BY HomeIsSlot, CacheConstants DEF CacheTypeOK
<1>2. Memo(k) = Get(k)
  BY MemoIsGet
<1>3. Memo(k)' = Get(k)'
  BY DEF Memo
<1>4. CASE slots[h] # None /\ slots[h].key = k
  <2>1. Get(k) = slots[h].val
    BY <1>4 DEF Get
  <2>2. slots'[h] = IF ks \cup {slots[h].val} \subseteq live THEN slots[h] ELSE None
    BY <1>1, <1>4
  <2>3. Get(k)' = IF ks \cup {slots[h].val} \subseteq live THEN slots[h].val ELSE None
    BY <1>1, <1>4, <2>2 DEF Get
  <2> QED
    BY <1>2, <1>3, <2>1, <2>2, <2>3
<1>5. CASE ~ (slots[h] # None /\ slots[h].key = k)
  <2>1. Get(k) = None /\ Get(k)' = None
    BY <1>1, <1>5 DEF Get
  <2> QED
    BY <1>2, <1>3, <2>1
<1> QED
  BY <1>4, <1>5

LEMMA RetainIsRetain ==
  ASSUME CacheInvariant, NEW live \in SUBSET Val, RetainLive(live) \/ RetainLive3(live)
  PROVE  Hint!Retain(Operands, live) \/ Hint!Retain(AllIds, live)
<1>0. DOMAIN rest = {} /\ rest' = rest /\ bits' = bits
  BY DEF RetainLive, RetainLive3, Retain, CacheInvariant, CacheTypeOK
<1>1. CASE RetainLive(live)
  <2> DEFINE D == Dead(Operands, live)
  <2>1. slots' = [i \in DOMAIN slots |-> IF i \in D THEN None ELSE slots[i]]
    BY <1>1 DEF RetainLive, Retain
  <2>2. \A i \in DOMAIN slots : slots[i] # None =>
          (i \in D <=> ~ Operands(slots[i].key) \cup {slots[i].val} \subseteq live)
    BY DEF Dead
  <2>3. ASSUME NEW k \in Key
        PROVE  Memo(k)' = IF Operands(k) \cup {Memo(k)} \subseteq live THEN Memo(k) ELSE None
    <3> PICK ks : ks = Operands(k)
      OBVIOUS
    <3>1. \A i \in DOMAIN slots : slots[i] # None /\ slots[i].key = k =>
            slots'[i] = IF ks \cup {slots[i].val} \subseteq live THEN slots[i] ELSE None
      BY <2>1, <2>2
    <3>2. \A i \in DOMAIN slots : slots'[i] \in {slots[i], None}
      BY <2>1
    <3>3. Memo(k)' = IF ks \cup {Memo(k)} \subseteq live THEN Memo(k) ELSE None
      BY <1>0, <3>1, <3>2, FilterOne
    <3> QED
      BY <3>3
  <2>4. Hint!Retain(Operands, live)
    BY <2>3 DEF Hint!Retain
  <2> QED
    BY <2>4
<1>2. CASE RetainLive3(live)
  <2> DEFINE D == Dead(AllIds, live)
  <2>1. slots' = [i \in DOMAIN slots |-> IF i \in D THEN None ELSE slots[i]]
    BY <1>2 DEF RetainLive3, Retain
  <2>2. \A i \in DOMAIN slots : slots[i] # None =>
          (i \in D <=> ~ AllIds(slots[i].key) \cup {slots[i].val} \subseteq live)
    BY DEF Dead
  <2>3. ASSUME NEW k \in Key
        PROVE  Memo(k)' = IF AllIds(k) \cup {Memo(k)} \subseteq live THEN Memo(k) ELSE None
    <3> PICK ks : ks = AllIds(k)
      OBVIOUS
    <3>1. \A i \in DOMAIN slots : slots[i] # None /\ slots[i].key = k =>
            slots'[i] = IF ks \cup {slots[i].val} \subseteq live THEN slots[i] ELSE None
      BY <2>1, <2>2
    <3>2. \A i \in DOMAIN slots : slots'[i] \in {slots[i], None}
      BY <2>1
    <3>3. Memo(k)' = IF ks \cup {Memo(k)} \subseteq live THEN Memo(k) ELSE None
      BY <1>0, <3>1, <3>2, FilterOne
    <3> QED
      BY <3>3
  <2>4. Hint!Retain(AllIds, live)
    BY <2>3 DEF Hint!Retain
  <2> QED
    BY <2>4
<1> QED
  BY <1>1, <1>2

LEMMA ClearIsClear ==
  ASSUME CacheInvariant, Clear
  PROVE  Hint!Clear
<1>1. DOMAIN rest = {} /\ rest' = rest /\ bits' = bits
  BY DEF Clear, CacheInvariant, CacheTypeOK
<1>2. ASSUME NEW k \in Key PROVE Memo(k)' = None
  <2>1. Home(k, bits) \in DOMAIN slots
    BY HomeIsSlot, CacheConstants DEF CacheInvariant, CacheTypeOK
  <2>2. Get(k)' = None
    BY <1>1, <2>1 DEF Clear, Get
  <2> QED
    BY <1>1, <2>2 DEF Memo
<1> QED
  BY <1>2 DEF Hint!Clear

LEMMA InitIsInit == CacheInit => Hint!HintInit
<1> SUFFICES ASSUME CacheInit PROVE Hint!HintInit
  OBVIOUS
<1>1. ASSUME NEW k \in Key PROVE Memo(k) = None
  <2>1. Home(k, bits) \in DOMAIN slots
    BY HomeIsSlot, CacheConstants DEF CacheInit, WithBits
  <2>2. Get(k) = None /\ DOMAIN rest = {}
    BY <2>1 DEF CacheInit, WithBits, Nothing, Get
  <2> QED
    BY <2>2, MemoIsGet
<1> QED
  BY <1>1 DEF Hint!HintInit

LEMMA StepIsStep ==
  ASSUME CacheInvariant, CacheInvariant', [CacheNext]_cachevars
  PROVE  [Hint!HintNext]_([k \in Key |-> Memo(k)])
<1> DEFINE Same == \A x \in Key : Memo(x)' = Memo(x)
<1>0. Same => UNCHANGED [k \in Key |-> Memo(k)]
  OBVIOUS
<1>1. ASSUME UNCHANGED cachevars PROVE Same
  BY <1>1 DEF cachevars, Memo, Get
<1>2. ASSUME NEW e \in Entry, Put(e) PROVE Hint!HintNext
  <2>1. PutNoGrow(e) /\ DOMAIN rest = {} /\ rest' = rest /\ bits' = bits
    BY <1>2 DEF Put, CacheInvariant, CacheTypeOK
  <2>2. Hint!Store(e.key, e.val)
    BY <2>1, StoreIsStore
  <2>3. e.key \in Key /\ e.val \in Val
    BY DEF Entry
  <2> QED
    BY <2>2, <2>3 DEF Hint!HintNext
<1>3. ASSUME NEW e \in Entry, Grow(e) PROVE Same
  BY <1>3, GrowIsStutter
<1>4. ASSUME NEW i \in DOMAIN rest, Rehash(i) PROVE Same
  BY <1>4, RehashIsStutter
<1>5. ASSUME PutGrown PROVE Hint!HintNext
  <2> DEFINE e == putting
  <2>1. e \in Entry
    BY <1>5 DEF PutGrown, CacheInvariant, CacheTypeOK, Idle
  <2>2. PutNoGrow(e) /\ DOMAIN rest = {} /\ rest' = rest /\ bits' = bits
    BY <1>5 DEF PutGrown
  <2> PICK v \in Entry : v = e
    BY <2>1
  <2>3. PutNoGrow(v)
    BY <2>2
  <2>4. Hint!Store(v.key, v.val)
    BY <2>2, <2>3, StoreIsStore
  <2>5. v.key \in Key /\ v.val \in Val
    BY DEF Entry
  <2> QED
    BY <2>4, <2>5 DEF Hint!HintNext
<1>6. ASSUME NEW live \in SUBSET Val, RetainLive(live) \/ RetainLive3(live)
      PROVE  Hint!HintNext
  BY <1>6, RetainIsRetain DEF Hint!HintNext
<1>7. ASSUME Clear PROVE Hint!HintNext
  BY <1>7, ClearIsClear DEF Hint!HintNext
<1> HIDE DEF Same
<1> QED
  BY <1>0, <1>1, <1>2, <1>3, <1>4, <1>5, <1>6, <1>7 DEF CacheNext

(* What a user of the table may rely on: a lookup answers the last value   *)
(* stored under the key or nothing, growing is invisible, and a filter     *)
(* removes exactly the entries that mention a dead id.                     *)
THEOREM CacheIsHint == CacheSpec => IsHint
<1>1. CacheInit => Hint!HintInit
  BY InitIsInit
<1>2. CacheInvariant /\ CacheInvariant' /\ [CacheNext]_cachevars
        => [Hint!HintNext]_([k \in Key |-> Memo(k)])
  BY StepIsStep
<1>3. CacheSpec => []CacheInvariant
  BY CacheInvariance
<1> QED
  BY <1>1, <1>2, <1>3, PTL DEF CacheSpec, IsHint, Hint!HintSpec
----------------------------------------------------------------------------
(* The load.                                                               *)

(* A set with one more element has twice as many subsets.                  *)
LEMMA PowerOfTwo ==
  ASSUME NEW n \in Nat
  PROVE  2 ^ n \in Nat /\ 2 ^ n >= 1 /\ 2 ^ (n + 1) = 2 * 2 ^ n
<1> DEFINE N == 1 .. n
           M == 1 .. n + 1
           S == SUBSET N
           With(A) == A \cup {n + 1}
           T == {With(A) : A \in S}
<1>1. IsFiniteSet(N) /\ Cardinality(N) = n /\ IsFiniteSet(M) /\ Cardinality(M) = n + 1
  BY FS_Interval
<1>2. /\ IsFiniteSet(S) /\ Cardinality(S) = 2 ^ n
      /\ IsFiniteSet(SUBSET M) /\ Cardinality(SUBSET M) = 2 ^ (n + 1)
  BY <1>1, FS_SUBSET
<1>3. SUBSET M = S \cup T /\ S \cap T = {}
  <2>1. M = N \cup {n + 1} /\ n + 1 \notin N
    OBVIOUS
  <2> HIDE DEF N, M
  <2>2. ASSUME NEW B \in SUBSET M PROVE B \in S \cup T
    <3>1. CASE n + 1 \notin B
      BY <2>1, <3>1
    <3>2. CASE n + 1 \in B
      <4>1. B \ {n + 1} \in S /\ B = With(B \ {n + 1})
        BY <2>1, <3>2
      <4> QED BY <4>1
    <3> QED BY <3>1, <3>2
  <2>3. S \subseteq SUBSET M /\ T \subseteq SUBSET M
    BY <2>1
  <2>4. S \cap T = {}
    BY <2>1
  <2> QED BY <2>2, <2>3, <2>4
<1>4. IsFiniteSet(T) /\ Cardinality(T) = Cardinality(S)
  <2> DEFINE f == [A \in S |-> With(A)]
  <2>1. n + 1 \notin N
    OBVIOUS
  <2> HIDE DEF N
  <2>2. f \in Bijection(S, T)
    <3>1. \A A, B \in S : With(A) = With(B) => A = B
      BY <2>1
    <3>2. f \in [S -> T] /\ \A A \in S : f[A] = With(A)
      OBVIOUS
    <3>3. \A t \in T : \E A \in S : t = With(A)
      OBVIOUS
    <3> HIDE DEF f, S, T, With
    <3>4. \A A, B \in S : f[A] = f[B] => A = B
      BY <3>1, <3>2
    <3>5. \A t \in T : \E A \in S : f[A] = t
      BY <3>2, <3>3
    <3> QED BY <3>2, <3>4, <3>5 DEF Bijection, Injection, Surjection, IsInjective
  <2>3. ExistsBijection(S, T)
    BY <2>2 DEF ExistsBijection
  <2> HIDE DEF f, S, T
  <2> QED BY <1>2, <2>3, FS_Bijection
<1>5. Cardinality(S \cup T) = Cardinality(S) + Cardinality(T) - Cardinality(S \cap T)
  <2> HIDE DEF S, T
  <2> QED BY <1>2, <1>4, FS_Union
<1>6. Cardinality(S) \in Nat /\ Cardinality({}) = 0
  <2> HIDE DEF S
  <2> QED BY <1>2, FS_CardinalityType, FS_EmptySet
<1>7. 2 ^ (n + 1) = Cardinality(S) + Cardinality(S)
  <2>1. 2 ^ (n + 1) = Cardinality(S \cup T)
    BY <1>2, <1>3
  <2>2. Cardinality(S \cap T) = 0
    BY <1>3, <1>6
  <2> HIDE DEF S, T
  <2> QED BY <1>4, <1>5, <1>6, <2>1, <2>2
<1>8. Cardinality(S) >= 1
  <2>1. {} \in S
    OBVIOUS
  <2> HIDE DEF S
  <2> QED BY <1>2, <1>6, <2>1, FS_EmptySet
<1> HIDE DEF S
<1> QED BY <1>2, <1>6, <1>7, <1>8

(* The load stays bounded because a growing table is emptier than it was,  *)
(* the entries that wait and the one that is put included.                 *)
Waiting == {i \in DOMAIN rest : rest[i] # None}

LoadInv ==
  /\ IsFiniteSet(Waiting)
  /\ bits < MaxBits =>
       IF Idle THEN 4 * (len - 1) < 3 * 2 ^ bits
               ELSE 4 * (len + Cardinality(Waiting)) < 3 * 2 ^ bits

LEMMA LoadInit == CacheInit => LoadInv
<1> SUFFICES ASSUME CacheInit PROVE LoadInv
  OBVIOUS
<1>1. Waiting = {} /\ Idle /\ len = 0 /\ bits \in Nat
  BY CacheConstants DEF CacheInit, Waiting, Nothing, Idle
<1>2. 2 ^ bits \in Nat /\ 2 ^ bits >= 1
  BY <1>1, PowerOfTwo
<1> QED BY <1>1, <1>2, FS_EmptySet DEF LoadInv

LEMMA OneMore ==
  ASSUME NEW m \in Int, NEW n \in Nat, NEW q \in Nat, 4 * m < 3 * q, n <= m + 1
  PROVE  4 * (n - 1) < 3 * q
OBVIOUS

LEMMA LoadStep ==
  ASSUME CacheInvariant, CacheInvariant', LoadInv, [CacheNext]_cachevars
  PROVE  LoadInv'
<1>1. /\ bits \in Nat /\ len \in Nat /\ len' \in Nat /\ Cardinality(Waiting) \in Nat
      /\ CacheTypeOK /\ MaxBits \in Nat
      /\ Idle => Waiting = {}
  BY CacheConstants, FS_CardinalityType DEF CacheInvariant, CacheTypeOK, LoadInv, Waiting
<1>2. PICK p \in Nat : p = 2 ^ bits /\ p >= 1 /\ 2 ^ (bits + 1) = 2 * p
  BY <1>1, PowerOfTwo
<1>3. ASSUME NEW e \in Entry, Put(e)
      PROVE  LoadInv'
  <2>1. /\ Idle /\ Idle' /\ Waiting' = Waiting /\ bits' = bits
        /\ (len * 4 >= p * 3 => bits >= MaxBits) /\ len' <= len + 1
    BY <1>1, <1>2, <1>3 DEF Put, PutNoGrow, Full, Idle, Waiting
  <2>2. bits < MaxBits => 4 * (len' - 1) < 3 * p
    <3> SUFFICES ASSUME bits < MaxBits PROVE 4 * (len' - 1) < 3 * p
      OBVIOUS
    <3>1. 4 * len < 3 * p /\ len \in Int
      BY <1>1, <2>1
    <3> QED BY <1>1, <2>1, <3>1, OneMore
  <2> QED BY <1>2, <2>1, <2>2 DEF LoadInv
<1>4. ASSUME NEW e \in Entry, Grow(e)
      PROVE  LoadInv'
  <2>1. /\ Idle /\ ~ Idle' /\ bits' = bits + 1 /\ len' = 0 /\ bits < MaxBits
        /\ Waiting' = Occupied
    BY <1>4, CacheConstants DEF Grow, Full, Idle, Entry, Waiting, Occupied
  <2>2. IsFiniteSet(Waiting') /\ Cardinality(Waiting') = len
    BY <2>1 DEF CacheInvariant, LenExact
  <2>3. 4 * (len - 1) < 3 * p
    BY <1>2, <2>1 DEF LoadInv
  <2>4. 4 * len < 3 * (2 * p)
    <3>1. CASE p = 1
      <4>1. 4 * len < 7
        BY <1>1, <2>3, <3>1
      <4>2. len <= 1
        BY <1>1, <4>1
      <4> QED BY <1>1, <3>1, <4>2
    <3>2. CASE p # 1
      BY <1>1, <1>2, <2>3, <3>2
    <3> QED BY <3>1, <3>2
  <2>5. 4 * (len' + Cardinality(Waiting')) < 3 * 2 ^ bits'
    BY <1>1, <1>2, <2>1, <2>2, <2>4
  <2> QED BY <2>1, <2>2, <2>5 DEF LoadInv
<1>5. ASSUME NEW i \in DOMAIN rest, Rehash(i)
      PROVE  LoadInv'
  <2>1. /\ rest' = [j \in DOMAIN rest \ {i} |-> rest[j]] /\ bits' = bits /\ putting' = putting
        /\ len' <= len + 1 /\ (rest[i] = None => len' = len)
    BY <1>1, <1>5 DEF Rehash, Restrict, PutNoGrow
  <2>2. Waiting' = Waiting \ {i} /\ (i \in Waiting <=> rest[i] # None)
    BY <2>1 DEF Waiting
  <2>3. /\ IsFiniteSet(Waiting')
        /\ Cardinality(Waiting') = IF i \in Waiting THEN Cardinality(Waiting) - 1 ELSE Cardinality(Waiting)
    BY <2>2, FS_RemoveElement DEF LoadInv
  <2>4. ~ Idle /\ ~ Idle'
    BY <1>1, <2>1 DEF CacheTypeOK, Idle
  <2>5. len' + Cardinality(Waiting') <= len + Cardinality(Waiting)
    BY <1>1, <2>1, <2>2, <2>3
  <2>6. Cardinality(Waiting') \in Nat
    BY <2>3, FS_CardinalityType
  <2>7. bits < MaxBits => 4 * (len' + Cardinality(Waiting')) < 3 * p
    BY <1>1, <1>2, <2>4, <2>5, <2>6 DEF LoadInv
  <2> QED BY <1>2, <2>1, <2>3, <2>4, <2>7 DEF LoadInv
<1>6. CASE PutGrown
  <2>1. /\ ~ Idle /\ Idle' /\ bits' = bits /\ Waiting = {} /\ Waiting' = {} /\ len' <= len + 1
    BY <1>1, <1>6 DEF PutGrown, PutNoGrow, Idle, Waiting
  <2>2. bits < MaxBits => 4 * (len' - 1) < 3 * p
    <3> SUFFICES ASSUME bits < MaxBits PROVE 4 * (len' - 1) < 3 * p
      OBVIOUS
    <3>1. 4 * (len + Cardinality(Waiting)) < 3 * p /\ Cardinality(Waiting) = 0
      BY <1>2, <2>1, FS_EmptySet DEF LoadInv
    <3>2. 4 * len < 3 * p /\ len \in Int
      BY <1>1, <3>1
    <3> QED BY <1>1, <2>1, <3>2, OneMore
  <2> QED BY <1>2, <2>1, <2>2, FS_EmptySet DEF LoadInv
<1>7. ASSUME len' <= len, UNCHANGED <<bits, rest, putting>>, Idle
      PROVE  LoadInv'
  <2>1. bits < MaxBits => 4 * (len' - 1) < 3 * p
    <3> SUFFICES ASSUME bits < MaxBits PROVE 4 * (len' - 1) < 3 * p
      OBVIOUS
    <3>1. 4 * (len - 1) < 3 * p
      BY <1>2, <1>7 DEF LoadInv
    <3>2. len - 1 \in Int /\ len' <= len - 1 + 1
      BY <1>1, <1>7
    <3> QED BY <1>1, <3>1, <3>2, OneMore
  <2>2. Idle' /\ Waiting' = Waiting
    BY <1>7 DEF Idle, Waiting
  <2> QED BY <1>2, <1>7, <2>1, <2>2 DEF LoadInv
<1>8. ASSUME NEW live \in SUBSET Val, RetainLive(live) \/ RetainLive3(live)
      PROVE  LoadInv'
  <2>1. PICK D \in SUBSET Occupied :
          len' = len - Cardinality(D) /\ Idle /\ UNCHANGED <<bits, rest, putting>>
    <3>1. Dead(Operands, live) \subseteq Occupied /\ Dead(AllIds, live) \subseteq Occupied
      BY DEF Dead, Occupied
    <3> QED BY <1>8, <3>1 DEF RetainLive, RetainLive3, Retain
  <2>2. Cardinality(D) \in Nat
    BY FS_Subset, FS_CardinalityType DEF CacheInvariant, LenExact
  <2>3. len' <= len
    BY <1>1, <2>1, <2>2
  <2> QED BY <1>7, <2>1, <2>3
<1>9. CASE Clear
  BY <1>1, <1>7, <1>9 DEF Clear
<1>10. CASE UNCHANGED cachevars
  BY <1>10 DEF cachevars, LoadInv, Waiting, Idle
<1> QED BY <1>3, <1>4, <1>5, <1>6, <1>8, <1>9, <1>10 DEF CacheNext

(* Below the ceiling the table never fills up: a put finds a load of at    *)
(* most 3/4 and one entry, whatever the hash and the sizes.                *)
THEOREM LoadIsBounded == CacheSpec => []LoadBounded
<1>1. CacheInit => CacheInvariant /\ LoadInv
  BY CacheInitInv, LoadInit
<1>2. CacheInvariant /\ LoadInv /\ [CacheNext]_cachevars => CacheInvariant' /\ LoadInv'
  BY CacheStepInv, LoadStep
<1>3. CacheInvariant /\ LoadInv => LoadBounded
  <2> SUFFICES ASSUME CacheInvariant, LoadInv, bits < MaxBits
               PROVE  4 * (len - 1) < 3 * 2 ^ bits
    BY DEF LoadBounded
  <2>1. bits \in Nat /\ len \in Nat /\ Cardinality(Waiting) \in Nat
    BY CacheConstants, FS_CardinalityType DEF CacheInvariant, CacheTypeOK, LoadInv
  <2>2. PICK p \in Nat : p = 2 ^ bits
    BY <2>1, PowerOfTwo
  <2> QED BY <2>1, <2>2 DEF LoadInv
<1> QED BY <1>1, <1>2, <1>3, PTL DEF CacheSpec
=============================================================================
