------------------------------ MODULE MCBddMgr ------------------------------
(* Values for TLC.                                                         *)
EXTENDS BddSemantics, TLC

(* Handles are interchangeable, and so are variables: their order is that  *)
(* of their declaration, not one of their names.                           *)
Symmetry == Permutations(Handle) \cup Permutations(Var)
=============================================================================
