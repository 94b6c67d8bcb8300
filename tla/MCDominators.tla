---------------------------- MODULE MCDominators ----------------------------
(***************************************************************************)
(* computeDominators as analyzeControlFlowGraph calls it: forward from     *)
(* block 0 on every graph whose nodes have at most two successors, and     *)
(* backward from the synthetic exit, the last node, of every such graph    *)
(* with one node less.  A root outside the graph completes the inputs.     *)
(***************************************************************************)
EXTENDS Dominators

AtMostTwo(nodes) == {S \in SUBSET nodes : Cardinality(S) <= 2}

Forward == [Node -> AtMostTwo(Node)] \X {0}

Blocks == 0 .. Size - 2

(* graph_analysis.cpp:273-284                                              *)
ReversedWithExit(graph_) ==
  [n \in Node |-> {m \in Blocks : IF n \in Blocks THEN n \in graph_[m]
                                                 ELSE graph_[m] = {}}]

Backward == {<<ReversedWithExit(g), Size - 1>> : g \in [Blocks -> AtMostTwo(Blocks)]}

CallsMade == Forward \cup Backward \cup {<<[n \in Node |-> {}], Size>>}
=============================================================================
