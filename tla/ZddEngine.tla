----------------------------- MODULE ZddEngine -----------------------------
(***************************************************************************)
(* The set algebra of bddcore::zdd_ops in steps: whatever operations and   *)
(* collections do to the forest is a sequence of these.                    *)
(*                                                                         *)
(* A recursive call is the step that ends it; what it returned stands in   *)
(* `known`, and the call it was made for reads it there.  Call of ZddOps   *)
(* takes exactly these steps, in the order of the recursion.               *)
(***************************************************************************)
EXTENDS ZddForest

VARIABLE known      \* what calls returned: <<operation, f, g, result>>

engine == <<forest, known>>

EngineInit == forest = NewForest /\ known = {}

----------------------------------------------------------------------------
(* Headers and nodes.  singleton and to_zdd give a label one level and a   *)
(* level one label, in as many headers as they like, and no caller builds  *)
(* on the undetermined node.                                               *)

NewHeader(l, label) ==
  /\ \A h \in Headers(forest) : HeaderLevel(forest, h) = l <=> HeaderLabel(forest, h) = label
  /\ forest' = CreateHeader(forest, l, label)
  /\ UNCHANGED known

NewNode(h, low, high) ==
  /\ Fits(forest, low, HeaderLevel(forest, h)) /\ Fits(forest, high, HeaderLevel(forest, h))
  /\ Undet \notin {low, high}
  /\ forest' = CreateNode(forest, h, low, high)[2]
  /\ UNCHANGED known

----------------------------------------------------------------------------
(* The end of a call of operation op on f and g.                           *)

Returned(op, f, g, r) == <<op, f, g, r>> \in known
Return(op, f, g, r) == known' = known \cup {<<op, f, g, r>>}

(* r is a slot and the forest it lies in; the result is remembered.        *)
Finished(op, f, g, r) ==
  /\ Return(op, f, g, r[1])
  /\ forest' = Remember(r[2], <<op, f, g>>, r[1])

Passed(op, f, g, r) == Finished(op, f, g, <<r, forest>>)
Made(op, f, g, h, low, high) == Finished(op, f, g, CreateNode(forest, h, low, high))

Decide(op, f, g) ==
  /\ Immediate(op, f, g) # NoId
  /\ Return(op, f, g, Immediate(op, f, g))
  /\ UNCHANGED forest

(* The table was asked when the call began, before the calls it made.      *)
Hit(op, f, g) ==
  /\ <<op, f, g>> \in DOMAIN forest.memo
  /\ Return(op, f, g, forest.memo[<<op, f, g>>])
  /\ UNCHANGED forest

Settle(op, f, g) ==
  /\ Immediate(op, f, g) = NoId
  /\ Settled(op, f, g) # NoId
  /\ Passed(op, f, g, Settled(op, f, g))

(* The top variable of f does not occur in g.                              *)
OnlyInF(op, f, g) ==
  LET low == Low(forest, f)
      high == High(forest, f)
      h == HeaderOf(forest, f)
  IN /\ Level(forest, f) > Level(forest, g)
     /\ \/ /\ op \in {"intersect", "divide"}
           /\ \E r \in Live(forest) : Returned(op, low, g, r) /\ Passed(op, f, g, r)
        \/ /\ op \in {"union", "setdiff"}
           /\ \E r \in Live(forest) : Returned(op, low, g, r) /\ Made(op, f, g, h, r, high)
        \/ /\ op = "product"
           /\ \E r, s \in Live(forest) :
                /\ Returned(op, low, g, r) /\ Returned(op, high, g, s)
                /\ Made(op, f, g, h, r, s)

(* That of g does not occur in f.                                          *)
OnlyInG(op, f, g) ==
  LET low == Low(forest, g)
      high == High(forest, g)
      h == HeaderOf(forest, g)
  IN /\ Level(forest, f) < Level(forest, g)
     /\ \/ /\ op \in {"intersect", "setdiff"}
           /\ \E r \in Live(forest) : Returned(op, f, low, r) /\ Passed(op, f, g, r)
        \/ /\ op = "union"
           /\ \E r \in Live(forest) : Returned(op, f, low, r) /\ Made(op, f, g, h, r, high)
        \/ /\ op = "product"
           /\ \E r, s \in Live(forest) :
                /\ Returned(op, f, low, r) /\ Returned(op, f, high, s)
                /\ Made(op, f, g, h, r, s)
        \/ op = "divide" /\ Passed(op, f, g, Undet)

(* Both have it; a node gets the header of f.                              *)
Pairwise(op, f, g) ==
  /\ op \in {"intersect", "union", "setdiff"}
  /\ \E r, s \in Live(forest) :
       /\ Returned(op, Low(forest, f), Low(forest, g), r)
       /\ Returned(op, High(forest, f), High(forest, g), s)
       /\ Made(op, f, g, HeaderOf(forest, f), r, s)

(* product: sets with the variable from both, from f or from g.            *)
Multiply(f, g) ==
  \E low, both, inF, inG, more, high \in Live(forest) :
    /\ Returned("product", Low(forest, f), Low(forest, g), low)
    /\ Returned("product", High(forest, f), High(forest, g), both)
    /\ Returned("product", High(forest, f), Low(forest, g), inF)
    /\ Returned("union", both, inF, more)
    /\ Returned("product", Low(forest, f), High(forest, g), inG)
    /\ Returned("union", more, inG, high)
    /\ Made("product", f, g, HeaderOf(forest, f), low, high)

Divide(f, g) ==
  \E x, y, r \in Live(forest) :
    /\ Returned("divide", Low(forest, f), Low(forest, g), x)
    /\ Returned("divide", High(forest, f), High(forest, g), y)
    /\ Returned("intersect", x, y, r)
    /\ Passed("divide", f, g, r)

InBoth(op, f, g) ==
  /\ Level(forest, f) = Level(forest, g)
  /\ \/ Pairwise(op, f, g)
     \/ op = "product" /\ Multiply(f, g)
     \/ op = "divide" /\ Divide(f, g)

Expand(op, f, g) ==
  /\ Immediate(op, f, g) = NoId /\ Settled(op, f, g) = NoId
  /\ OnlyInF(op, f, g) \/ OnlyInG(op, f, g) \/ InBoth(op, f, g)

Call(op, f, g) ==
  Decide(op, f, g) \/ Hit(op, f, g) \/ Settle(op, f, g) \/ Expand(op, f, g)

----------------------------------------------------------------------------
(* clear_cache, and gc once it has marked.  What is known of a slot that   *)
(* is given away is forgotten.                                             *)

ForgetMemo == forest' = ClearCache(forest) /\ UNCHANGED known

Collect(live) ==
  /\ Closed(forest, live)
  /\ forest' = Swept(forest, live)
  /\ known' = {q \in known : {q[2], q[3], q[4]} \subseteq live}

EngineNext ==
  \/ \E l \in Nat, label \in Label : NewHeader(l, label)
  \/ \E h \in Headers(forest) : \E low, high \in Live(forest) : NewNode(h, low, high)
  \/ \E op \in ZddOp : \E f, g \in Live(forest) : Call(op, f, g)
  \/ ForgetMemo
  \/ \E live \in SUBSET Live(forest) : Collect(live)

EngineSpec == EngineInit /\ [][EngineNext]_engine

----------------------------------------------------------------------------
(* What holds between any two steps.                                       *)

(* What a call returned answers it, as long as the slots it names stay in  *)
(* use, whatever is built, remembered, collected and recycled.             *)
KnownSound == \A q \in known : Answers(forest, q[1], q[2], q[3], q[4])

(* Nothing leads to the undetermined node: divide is the one operation     *)
(* that makes it of families, and no operation puts it under a node.       *)
UndetAlone == \A i \in Inner(forest) : Undet \notin Kids(forest, i)
=============================================================================
