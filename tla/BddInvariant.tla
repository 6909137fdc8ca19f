---------------------------- MODULE BddInvariant ----------------------------
(***************************************************************************)
(* The safety properties of BddMgr that speak of ids, counts and levels    *)
(* only, and the inductive invariant they follow from.  BddMgr_proofs      *)
(* proves them for every number of variables, handles and calls.           *)
(***************************************************************************)
EXTENDS BddMgr

(* Every variable has its type, and the three terminals are where they     *)
(* were put.                                                               *)
TypeOK ==
  /\ ArenaTypeOK
  /\ EngineTypeOK
  /\ marked \subseteq Slots /\ grey \subseteq Slots
  /\ pc \in Pcs
  /\ vars \in [Var -> IdOrNone] /\ handle \in [Handle -> IdOrNone]
  /\ roots \in [DOMAIN roots -> Nat \ {0}] /\ DOMAIN roots \subseteq Id
  /\ threshold \in Nat /\ floor \in Nat
  /\ todo \in Seq([op : {"and", "or"}, arg : Id])
  /\ rpn \in [stack : Seq(Id), saved : [Name -> IdOrNone]]
  /\ used \in [calls : Nat, tokens : Nat]

----------------------------------------------------------------------------
(* Ids in use.                                                             *)
Pinned == Held \cup ({vars[v] : v \in Var} \ {NoId})

OperandIds == UNION {{calls[n].args[1], calls[n].args[2], calls[n].args[3], calls[n].low} :
                       n \in DOMAIN calls}
RawIds ==
  (OperandIds \cup {ret}
   \cup {todo[n].arg : n \in DOMAIN todo}
   \cup {rpn.stack[n] : n \in DOMAIN rpn.stack}
   \cup {rpn.saved[n] : n \in Name}) \ {NoId}

(* No id that a handle, a frame of a running operation, a list still to be *)
(* folded or a running rpn holds designates a reclaimed slot, although     *)
(* only the handles are roots.                                             *)
NoDangling == Pinned \cup RawIds \subseteq Alloc

(* The collector's roots are exactly the live handles: a node is a root    *)
(* while a handle holds it, and its count is the number of those handles.  *)
Refs(i) ==
  Cardinality({h \in Handle : handle[h] = i}) + Cardinality({v \in Var : vars[v] = i})

RootsExact ==
  /\ DOMAIN roots = Pinned
  /\ \A i \in DOMAIN roots : roots[i] = Refs(i)

(* A declared variable's node stays what defvar made it for the manager's  *)
(* lifetime, whatever is dropped and collected.                            *)
VariablesKept ==
  \A v \in Var : vars[v] # NoId =>
    \E l \in 0 .. Len(headers) - 1 :
      headers[l + 1] = v /\ nodes[vars[v] + 1] = <<l, Zero, One>>

(* A node that is not reclaimed is never overwritten: an id keeps its      *)
(* meaning for as long as someone may use it.                              *)
NodesStable ==
  [][\A i \in Alloc : i \notin free' => nodes'[i + 1] = nodes[i + 1]]_allvars

----------------------------------------------------------------------------
(* The inductive invariant.                                                *)

(* Raw ids exist only while a call runs that does not collect.             *)
PhaseInv ==
  /\ pc \notin {"op", "rpnop"} => calls = <<>> /\ ret = NoId
  /\ pc # "op" => todo = <<>>
  /\ pc \notin {"rpn", "rpnop", "unwinding"} => rpn = NoRpn
  /\ pc \notin {"autogc", "gc"} => marked = {} /\ grey = {}

RawInv ==
  /\ \A n \in DOMAIN todo : todo[n].arg \in Alloc
  /\ \A n \in DOMAIN rpn.stack : rpn.stack[n] \in Alloc
  /\ \A n \in Name : rpn.saved[n] # NoId => rpn.saved[n] \in Alloc

(* The roots and the children of every marked node are marked or about to  *)
(* be.                                                                     *)
TraceInv ==
  /\ marked \cup grey \subseteq Alloc
  /\ pc \in {"autogc", "gc"} => Terminals \cup DOMAIN roots \subseteq marked \cup grey
  /\ Kids(marked) \subseteq marked \cup grey

IInv ==
  /\ TypeOK /\ ArenaInv /\ EngineInv /\ PhaseInv /\ RawInv
  /\ TraceInv /\ RootsExact /\ VariablesKept
  /\ Pinned \subseteq Alloc
=============================================================================
