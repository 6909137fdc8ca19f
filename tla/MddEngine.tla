------------------------------ MODULE MddEngine ------------------------------
(***************************************************************************)
(* The composite forest of mddcore in the steps it is made of: whatever    *)
(* calls and collections do to it is a sequence of these.                  *)
(*                                                                         *)
(* A recursive call is the step that ends it; what it returned stands in   *)
(* `known`, and the call it was made for reads it there.  Call, Expand and *)
(* Step of MtMdd2 take exactly these steps, in the order of the recursion. *)
(***************************************************************************)
EXTENDS MddOutcomes

VARIABLE known      \* what calls returned: <<operation, operands, result>>

engine == <<forest, order, known>>

Sides == {"b", "v"}

EngineInit == forest = NewForest /\ order = <<>> /\ known = {}

----------------------------------------------------------------------------
(* create_header in both arenas, create_node and value.                    *)

Edged(a, ord, l, edges) ==
  /\ l \in 0 .. Len(ord) - 1
  /\ edges \in [1 .. States[ord[l + 1]] -> LiveSlots(a)]
  /\ \A n \in DOMAIN edges : Level(a, edges[n]) < l

CreateHeader(x) ==
  /\ x \notin Range(order)
  /\ order' = Append(order, x)
  /\ UNCHANGED <<forest, known>>

CreateNode(side, l, edges) ==
  /\ Edged(forest[side], order, l, edges)
  /\ forest' = Built(forest, side, MakeNode(forest[side], l, edges))[2]
  /\ UNCHANGED <<order, known>>

CreateValue(v) ==
  /\ forest' = Built(forest, "v", ValueNode(forest.v, v))[2]
  /\ UNCHANGED <<order, known>>

----------------------------------------------------------------------------
(* The end of a call of operation op on operands, looked up as args.       *)

Return(op, operands, r) == known' = known \cup {<<op, operands, r>>}

Immediate(op, operands, r) ==
  /\ Return(op, operands, r)
  /\ UNCHANGED <<forest, order>>

(* r is a slot and the forest it lies in; the result is remembered.        *)
Finished(op, operands, args, r) ==
  /\ Return(op, operands, r[1])
  /\ forest' = Remember(r[2], op, args, r[1])
  /\ UNCHANGED order

Decide(op, operands, args) ==
  /\ Chosen(op, args) # NoId
  /\ Immediate(op, operands, Chosen(op, args))

Hit(op, operands, args) ==
  /\ <<op, args>> \in DOMAIN Memo(forest, op)
  /\ Immediate(op, operands, Memo(forest, op)[<<op, args>>])

DivideByZero(op, operands, args) ==
  /\ DividesByZero(forest, op, args)
  /\ Immediate(op, operands, VUndet)

(* The caches were asked when the call began, before the calls it made.    *)
Proceeds(op, args) == Chosen(op, args) = NoId /\ ~ DividesByZero(forest, op, args)

Settle(op, operands, args) ==
  /\ Proceeds(op, args)
  /\ Settled(forest, op, args) # NoId
  /\ Finished(op, operands, args, <<Settled(forest, op, args), forest>>)

Negate(op, operands, args) ==
  /\ Proceeds(op, args)
  /\ Settled(forest, op, args) = NoId /\ Negates(op, args)
  /\ \E r \in LiveSlots(forest.b) :
       /\ <<"not", OtherThanOne(args), r>> \in known
       /\ Finished(op, operands, args, <<r, forest>>)

ComputeLeaf(op, operands, args) ==
  /\ Proceeds(op, args)
  /\ Settled(forest, op, args) = NoId /\ Computes(forest, op, args)
  /\ Finished(op, operands, args, Built(forest, "v", ComputedNode(forest, op, args)))

(* One recursive call for each state of the top variable, then create_node.*)
ExpandOn(op, args, results) ==
  LET side == ResultSide(op)
  IN Built(forest, side, MakeNode(forest[side], Top(forest, op, args), results))

Expand(op, operands, args) ==
  /\ Proceeds(op, args)
  /\ Settled(forest, op, args) = NoId
  /\ ~ Negates(op, args) /\ ~ Computes(forest, op, args)
  /\ \E results \in [1 .. Width(forest, op, args) -> LiveSlots(forest[ResultSide(op)])] :
       /\ \A n \in DOMAIN results :
            <<op, Cofactors(forest, op, args, n), results[n]>> \in known
       /\ Finished(op, operands, args, ExpandOn(op, args, results))

Call(op, operands) ==
  LET args == Sorted(op, operands)
  IN \/ Decide(op, operands, args) \/ Hit(op, operands, args)
     \/ DivideByZero(op, operands, args) \/ Settle(op, operands, args)
     \/ Negate(op, operands, args) \/ ComputeLeaf(op, operands, args)
     \/ Expand(op, operands, args)

AnySlots == LiveSlots(forest.b) \cup LiveSlots(forest.v)

InUse(op, operands) ==
  \A k \in Operands(op) : operands[k] \in LiveSlots(forest[ArgSide(op, k)])

----------------------------------------------------------------------------
(* clear_cache, and gc once it has marked: see Marked in MtMdd2.  What is  *)
(* known of a slot that is given away is forgotten.                        *)

ClearCache ==
  /\ forest' = ClearCaches(forest)
  /\ UNCHANGED <<order, known>>

Closed(side, a, live) ==
  /\ Terminals(side) \subseteq live /\ live \subseteq LiveSlots(a)
  /\ \A i \in live : Edges(a, i) \subseteq live

StillNamed(live) ==
  {f \in known : /\ f[3] \in live[ResultSide(f[1])]
                 /\ \A k \in Operands(f[1]) : f[2][k] \in live[ArgSide(f[1], k)]}

Collect(live) ==
  /\ \A side \in Sides : Closed(side, forest[side], live[side])
  /\ forest' = Swept(forest, live)
  /\ known' = StillNamed(live)
  /\ UNCHANGED order

EngineNext ==
  \/ \E x \in Label : CreateHeader(x)
  \/ \E side \in Sides, l \in 0 .. Len(order) - 1 :
       \E edges \in [1 .. States[order[l + 1]] -> LiveSlots(forest[side])] :
         CreateNode(side, l, edges)
  \/ \E v \in Int : CreateValue(v)
  \/ \E op \in Recursive : \E operands \in [Operands(op) -> AnySlots] :
       InUse(op, operands) /\ Call(op, operands)
  \/ ClearCache
  \/ \E live \in [Sides -> SUBSET AnySlots] : Collect(live)

EngineSpec == EngineInit /\ [][EngineNext]_engine

----------------------------------------------------------------------------
(* What holds between any two steps.                                       *)

TerminalsInPlace(side, a) ==
  \A t \in Terminals(side) : t \in LiveSlots(a) /\ At(a, t) = TerminalNodes(side)[t + 1]

(* The nodes that were made: values in the value arena, and nodes with     *)
(* edges to lower nodes in use that do not all agree.                      *)
Made(side, a) == LiveSlots(a) \ Terminals(side)

MadeWell(side, a, ord) ==
  \A i \in Made(side, a) :
    IF IsInner(a, i)
      THEN /\ At(a, i) = Inner(At(a, i).level, At(a, i).edges)
           /\ Edged(a, ord, At(a, i).level, At(a, i).edges)
           /\ ~ Agree(At(a, i).edges)
      ELSE side = "v" /\ Outcome(a, i) \in Int /\ At(a, i) = Leaf(Outcome(a, i))

(* The unique table holds exactly the made nodes, each under its content.  *)
TableExact(side, a) ==
  /\ \A i \in Made(side, a) : At(a, i) \in DOMAIN a.table /\ a.table[At(a, i)] = i
  /\ \A n \in DOMAIN a.table : a.table[n] \in Made(side, a) /\ At(a, a.table[n]) = n

ArenaOK(side, a, ord) ==
  TerminalsInPlace(side, a) /\ MadeWell(side, a, ord) /\ TableExact(side, a)

(* However headers, nodes, results and collections alternate, both arenas  *)
(* are well-formed, reduced and hash-consed.                               *)
ArenaInv == \A side \in Sides : ArenaOK(side, forest[side], order)

(* What a call returned is an answer to it, as long as the slots it names  *)
(* stay in use, whatever is built, remembered, collected and recycled.     *)
KnownSound == \A f \in known : Answers(f[1], f[2], f[3])

(* A slot that is in use and stays so leads to the same outcome.           *)
OutcomesKept ==
  [][\A side \in Sides : \A i \in LiveSlots(forest[side]) \cap LiveSlots(forest'[side]) :
       \A s \in Assignments :
         Follow(forest'[side], order', i, s) = Follow(forest[side], order, i, s)]_engine
=============================================================================
