--------------------------- MODULE ComputeCache ---------------------------
(***************************************************************************)
(* common::compute_cache::ComputeCache: a direct-mapped table of 2^bits    *)
(* slots.  A key's slot is named by the low bits of its hash; a put        *)
(* overwrites whatever is there.  At a load of 3/4 a put first doubles the *)
(* table and stores every entry again, up to a ceiling.  `len` counts the  *)
(* occupied slots and alone decides when to grow.                          *)
(*                                                                         *)
(* The rehash is modelled slot by slot, in any order.  A slot that was     *)
(* emptied keeps its key words in the code; nothing reads them, so an      *)
(* empty slot is just None here.                                           *)
(***************************************************************************)
EXTENDS Integers, FiniteSets, Functions

CONSTANTS
  Key,         \* the triples of words used as keys
  Val,         \* node ids: the words of keys and the values are among them
  None,        \* no entry, no value
  Hash,        \* key -> the bits of its hash, lowest first
  InitBits,    \* INIT_BITS
  MaxBits      \* MAX_BITS

ASSUME CacheConstants ==
  /\ InitBits \in Nat /\ MaxBits \in Nat /\ InitBits <= MaxBits
  /\ Hash \in [Key -> [0 .. MaxBits - 1 -> BOOLEAN]]
  /\ None \notin Val /\ \A k \in Key, v \in Val : None # [key |-> k, val |-> v]

VARIABLES
  bits,      \* the table has 2^bits slots
  slots,     \* slot -> entry or None
  len,       \* the length counter
  rest,      \* grow: slots of the old table that are still to be stored again
  putting    \* put: the entry to store when the table has grown, or None

cachevars == <<bits, slots, len, rest, putting>>

Entry == [key : Key, val : Val]
Names(b) == [0 .. b - 1 -> BOOLEAN]

(* index: the hash under the mask.                                         *)
Home(k, b) == [j \in 0 .. b - 1 |-> Hash[k][j]]

WithBits(b) == [i \in Names(b) |-> None]
Nothing == [i \in {} |-> None]

CacheInit ==
  /\ bits = InitBits
  /\ slots = WithBits(InitBits)
  /\ len = 0
  /\ rest = Nothing
  /\ putting = None

Idle == putting = None

(* Mutant: the last key word is not compared.                              *)
GetByTwoWords(k) ==
  LET e == slots[Home(k, bits)]
  IN IF e # None /\ e.key[1] = k[1] /\ e.key[2] = k[2] THEN e.val ELSE None

(* get.                                                                    *)
Get(k) ==
  LET e == slots[Home(k, bits)]
  IN IF e # None /\ e.key = k THEN e.val ELSE None

(* put_nogrow.                                                             *)
PutNoGrow(e) ==
  LET i == Home(e.key, bits)
  IN /\ slots' = [slots EXCEPT ![i] = e]
     /\ len' = IF slots[i] = None THEN len + 1 ELSE len

(* Mutant: only a table without an empty slot is full.                      *)
FullToTheBrim == len >= 2 ^ bits /\ bits < MaxBits

Full == len * 4 >= 2 ^ bits * 3 /\ bits < MaxBits

Put(e) ==
  /\ Idle
  /\ ~ Full
  /\ PutNoGrow(e)
  /\ UNCHANGED <<bits, rest, putting>>

(* Mutant: the length counter is carried over to the new table.            *)
GrowKeepsLen(e) ==
  /\ Idle
  /\ Full
  /\ bits' = bits + 1
  /\ slots' = WithBits(bits + 1)
  /\ rest' = slots
  /\ putting' = e
  /\ UNCHANGED len

Grow(e) ==
  /\ Idle
  /\ Full
  /\ bits' = bits + 1
  /\ slots' = WithBits(bits + 1)
  /\ len' = 0
  /\ rest' = slots
  /\ putting' = e

Rehash(i) ==
  /\ i \in DOMAIN rest
  /\ IF rest[i] = None THEN UNCHANGED <<slots, len>> ELSE PutNoGrow(rest[i])
  /\ rest' = Restrict(rest, DOMAIN rest \ {i})
  /\ UNCHANGED <<bits, putting>>

PutGrown ==
  /\ ~ Idle
  /\ DOMAIN rest = {}
  /\ PutNoGrow(putting)
  /\ putting' = None
  /\ UNCHANGED <<bits, rest>>

(* retain_live reads the last two words of a key as ids, retain_live3 all  *)
(* three; both read the value as one.                                      *)
Operands(k) == {k[2], k[3]}
AllIds(k) == {k[1], k[2], k[3]}

Dead(ids(_), live) ==
  {i \in DOMAIN slots : slots[i] # None
                        /\ ~ ids(slots[i].key) \cup {slots[i].val} \subseteq live}

Retain(ids(_), live) ==
  /\ Idle
  /\ slots' = [i \in DOMAIN slots |-> IF i \in Dead(ids, live) THEN None ELSE slots[i]]
  /\ len' = len - Cardinality(Dead(ids, live))
  /\ UNCHANGED <<bits, rest, putting>>

RetainLive(live) == Retain(Operands, live)
RetainLive3(live) == Retain(AllIds, live)

Clear ==
  /\ Idle
  /\ slots' = [i \in DOMAIN slots |-> None]
  /\ len' = 0
  /\ UNCHANGED <<bits, rest, putting>>

CacheNext ==
  \/ \E e \in Entry : Put(e) \/ Grow(e)
  \/ \E i \in DOMAIN rest : Rehash(i)
  \/ PutGrown
  \/ \E live \in SUBSET Val : RetainLive(live) \/ RetainLive3(live)
  \/ Clear

CacheSpec == CacheInit /\ [][CacheNext]_cachevars

----------------------------------------------------------------------------
CacheTypeOK ==
  /\ bits \in InitBits .. MaxBits
  /\ slots \in [Names(bits) -> Entry \cup {None}]
  /\ len \in Nat
  /\ rest \in [DOMAIN rest -> Entry \cup {None}]
  /\ DOMAIN rest # {} => bits > InitBits /\ DOMAIN rest \subseteq Names(bits - 1)
  /\ putting \in Entry \cup {None}
  /\ Idle => DOMAIN rest = {}

(* Every entry is in its key's slot, of the table it is in.                *)
AtHome ==
  /\ \A i \in DOMAIN slots : slots[i] # None => i = Home(slots[i].key, bits)
  /\ \A i \in DOMAIN rest : rest[i] # None => i = Home(rest[i].key, bits - 1)

(* No entry of the old table and none of the new one compete for a slot    *)
(* while the table grows.                                                  *)
NoClash ==
  \A i \in DOMAIN rest : rest[i] # None => slots[Home(rest[i].key, bits)] = None

(* The counter is the number of occupied slots, through growth, filters    *)
(* and overwriting.                                                        *)
Occupied == {i \in DOMAIN slots : slots[i] # None}
LenExact == IsFiniteSet(Occupied) /\ len = Cardinality(Occupied)

(* Below the ceiling the load never exceeds 3/4 by more than one entry, so *)
(* one doubling per put is enough.                                         *)
LoadBounded == bits < MaxBits => 4 * (len - 1) < 3 * 2 ^ bits

CacheInvariant == CacheTypeOK /\ AtHome /\ NoClash /\ LenExact

(* A put loses at most the one entry it overwrites, growing loses none,    *)
(* and a filter removes exactly the entries that mention a dead id.        *)
Memo(k) ==
  LET old == Home(k, bits - 1)
  IN IF old \in DOMAIN rest /\ rest[old] # None /\ rest[old].key = k
       THEN rest[old].val ELSE Get(k)

Hint == INSTANCE HintTable WITH memo <- [k \in Key |-> Memo(k)]
IsHint == Hint!HintSpec
=============================================================================
