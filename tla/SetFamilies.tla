---------------------------- MODULE SetFamilies ----------------------------
(***************************************************************************)
(* What the operations of ZddMgr mean, on families of sets of labels.      *)
(* Nothing here is translated from how they are computed.                  *)
(***************************************************************************)
EXTENDS FiniteSets

Antichain(F) == \A s, t \in F : s \subseteq t => s = t

(* Operations that are exact, whatever the families.                       *)
ExactOps == {"union", "setdiff", "product"}

Meaning(op, F, G) ==
  CASE op = "union" -> F \cup G
    [] op = "setdiff" -> F \ G
    [] op = "product" -> {s \cup t : s \in F, t \in G}

(* The sets that are disjoint from every set of G and whose union with     *)
(* each of them is in F.                                                   *)
Quotient(F, G) ==
  {s \in SUBSET UNION F : \A t \in G : s \cap t = {} /\ s \cup t \in F}

(* What intersect is held to: it loses no common set, invents none, and is *)
(* exact where no set of either family contains another.                   *)
IntersectedWell(F, G, R) ==
  /\ F \cap G \subseteq R /\ R \subseteq F \cup G
  /\ Antichain(F \cup G) => R = F \cap G
=============================================================================
