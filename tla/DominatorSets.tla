--------------------------- MODULE DominatorSets ---------------------------
(***************************************************************************)
(* The operators computeDominators and reachableFrom are made of           *)
(* (src/graph_analysis.cpp:34-139).  A graph is a function from its nodes  *)
(* to the set of their successors; a bit row is the set of its true bits.  *)
(***************************************************************************)
EXTENDS Integers, FiniteSets

PredecessorsIn(graph, n) == {p \in DOMAIN graph : n \in graph[p]}

(* Mutant of StartSets: every node starts with itself alone.               *)
StartSingletons(graph, root, live) == [n \in DOMAIN graph |-> {n}]

(* What the sweeps start from: everything reachable dominates a reachable  *)
(* node, nothing but itself the root and the nodes out of reach.           *)
StartSets(graph, root, live) ==
  [n \in DOMAIN graph |-> IF n \in live /\ n # root THEN live ELSE {n}]

(* Mutant of MeetAt: a node keeps what ANY of its predecessors is          *)
(* dominated by.                                                           *)
JoinAt(graph, live, sets, n) ==
  LET from == PredecessorsIn(graph, n) \cap live
  IN  {n} \cup {d \in DOMAIN graph : \E p \in from : d \in sets[p]}

(* What dominates all reachable predecessors of n, and n itself.           *)
MeetAt(graph, live, sets, n) ==
  LET from == PredecessorsIn(graph, n) \cap live
  IN  {n} \cup {d \in DOMAIN graph : from # {} /\ \A p \in from : d \in sets[p]}

(* The sweep leaves the root and the nodes out of reach alone.             *)
Updates(root, live, n) == n \in live /\ n # root

(* Mutant of ClosestDominator: the dominator with the FEWEST dominators.   *)
FarthestDominator(sets, n) ==
  LET strict == sets[n] \ {n}
      depth(d) == Cardinality(sets[d])
  IN  CHOOSE d \in strict : \A e \in strict :
        depth(d) < depth(e) \/ (depth(d) = depth(e) /\ d <= e)

(* Of the strict dominators of n the one with most dominators of its own;  *)
(* between equals the lowest, for only a greater depth replaces the best.  *)
ClosestDominator(sets, n) ==
  LET strict == sets[n] \ {n}
      depth(d) == Cardinality(sets[d])
  IN  CHOOSE d \in strict : \A e \in strict :
        depth(d) > depth(e) \/ (depth(d) = depth(e) /\ d <= e)

(* The immediate dominators; a node without strict dominator has none.     *)
ImmediateOf(graph, root, live, sets, none) ==
  [n \in DOMAIN graph |->
     IF Updates(root, live, n) /\ sets[n] \ {n} # {}
     THEN ClosestDominator(sets, n) ELSE none]
=============================================================================
