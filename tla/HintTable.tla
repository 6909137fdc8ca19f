----------------------------- MODULE HintTable -----------------------------
(***************************************************************************)
(* What common::ComputeCache promises its users: a hint.  A lookup returns *)
(* the value last stored under the key, or nothing.  Storing a value may   *)
(* cost one other entry and no more; a filter removes exactly the entries  *)
(* it should.                                                              *)
(***************************************************************************)
EXTENDS FiniteSets

CONSTANTS
  Key, Val, None,
  Operands(_),      \* the ids a key of an operation's table mentions
  AllIds(_)         \* the ids a key mentions when all its words are ids

VARIABLE memo       \* key -> value or None

HintInit == memo = [k \in Key |-> None]

Store(k, v) ==
  /\ memo' \in [Key -> Val \cup {None}]
  /\ memo'[k] = v
  /\ \E lost \in Key : \A x \in Key \ {k, lost} : memo'[x] = memo[x]
  /\ \A x \in Key \ {k} : memo'[x] \in {memo[x], None}

(* Only entries whose ids, the value included, are all in live remain.     *)
Retain(ids(_), live) ==
  memo' = [k \in Key |-> IF ids(k) \cup {memo[k]} \subseteq live THEN memo[k] ELSE None]

Clear == memo' = [k \in Key |-> None]

HintNext ==
  \/ \E k \in Key, v \in Val : Store(k, v)
  \/ \E live \in SUBSET Val : Retain(Operands, live) \/ Retain(AllIds, live)
  \/ Clear

HintSpec == HintInit /\ [][HintNext]_memo
=============================================================================
