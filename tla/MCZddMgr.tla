------------------------------ MODULE MCZddMgr ------------------------------
(* Values for TLC: clients that combine any two families of a kind, and    *)
(* clients that go on for longer with a few.                               *)
EXTENDS ZddMgr

CONSTANTS u, v, w
MCVarOrder == <<u, v, w>>

Antichains == {F \in SUBSET SUBSET {u, v, w} : Antichain(F)}
Algebra == {"union", "setdiff", "product", "intersect", "divide"}

(* Repeated elements and sets, the empty set, labels in either order.      *)
MCLists ==
  {<<>>, << <<>> >>, << <<w>>, <<u, w>> >>, << <<v, u, v>>, <<>>, <<u, v>> >>,
   << <<u>>, <<v>>, <<w>>, <<w, v>> >>, << <<v, w>>, <<u, v, w>> >>}

OfBss(minimal, thresholds, calls, max) ==
  [inBss |-> TRUE, lists |-> {}, minimal |-> minimal, elements |-> {},
   thresholds |-> thresholds, calls |-> calls, max |-> max]
Alone(lists, elements, thresholds, calls, max) ==
  [inBss |-> FALSE, lists |-> lists, minimal |-> {}, elements |-> elements,
   thresholds |-> thresholds, calls |-> calls, max |-> max]

(* Every two families that minpath can find, and every two of the lists.   *)
AnyTwo == {OfBss(Antichains, {}, Algebra, 3), Alone(MCLists, {}, {}, Algebra, 3)}

(* Handles that come and go for longer.                                    *)
Lasting ==
  {OfBss({{{u}, {v}}, {{u, w}, {v, w}}}, {}, {"union", "extract"}, 5),
   Alone({}, {u, v}, {4}, {"constants", "product", "union", "get_children"}, 4),
   Alone({<< <<v>>, <<u, w>> >>}, {v}, {4}, {"setdiff", "clone", "clear_cache", "extract"}, 4)}

MCClients == AnyTwo \cup Lasting
=============================================================================
