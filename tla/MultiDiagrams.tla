---------------------------- MODULE MultiDiagrams ----------------------------
(***************************************************************************)
(* Multi-valued diagrams as values, for operations that keep all they use  *)
(* alive (see Diagrams for two-valued ones): Undet, a terminal, or a level *)
(* with one diagram per state of its variable, state 0 first.  The Boolean *)
(* forest's Zero and One are the terminals 0 and 1: the code gives them    *)
(* these values wherever it selects terminals by value.                    *)
(***************************************************************************)
EXTENDS Integers, Sequences, SequencesExt

Undet == <<>>
Terminal(v) == <<v>>
Zero == Terminal(0)
One == Terminal(1)
Nothing == <<0, 0, 0>>      \* Option::None where a diagram is expected

IsInner(d) == Len(d) = 2
IsTerminal(d) == Len(d) = 1
Level(d) == IF IsInner(d) THEN d[1] ELSE -1
Edges(d) == d[2]

(* create_node: the MDD and MTMDD forests drop a node whose edges are all  *)
(* equal, the ZMDD forest one whose edges other than the first are Undet.  *)
MddNode(l, edges) ==
  IF \A i \in DOMAIN edges : edges[i] = edges[1] THEN edges[1] ELSE <<l, edges>>
ZmddNode(l, edges) ==
  IF \A i \in DOMAIN edges \ {1} : edges[i] = Undet THEN edges[1] ELSE <<l, edges>>

RECURSIVE NodesOf(_)
NodesOf(d) == {d} \cup IF IsInner(d) THEN UNION {NodesOf(e) : e \in Range(Edges(d))} ELSE {}
=============================================================================
