---------------------------- MODULE Dominators -----------------------------
(***************************************************************************)
(* computeDominators (src/graph_analysis.cpp:64-139) as it runs: flood     *)
(* from the root, then sweep over the nodes in order, meeting the sets of  *)
(* the predecessors in place, until a whole sweep changes nothing, then    *)
(* pick the immediate dominators.  analyzeControlFlowGraph calls it on the *)
(* graph from block 0 and on the reversed graph from the synthetic exit.   *)
(*                                                                         *)
(* The flood keeps its pending nodes on a stack; here any pending node may *)
(* be next, so that the result is shown not to depend on the order.        *)
(***************************************************************************)
EXTENDS DominatorSets

CONSTANTS Size,     \* number of nodes
          None,     \* std::nullopt
          Inputs    \* the pairs of a graph and a root it may be called with

Node == 0 .. Size - 1

ASSUME SizeAssumption == Size \in Nat
ASSUME NoneAssumption == None \notin Node
ASSUME InputsAssumption == Inputs \subseteq [Node -> SUBSET Node] \X (0 .. Size)

VARIABLES graph, root, pc, pending, reachable, sets, node, changed, immediate

input == <<graph, root>>
vars == <<graph, root, pc, pending, reachable, sets, node, changed, immediate>>

(* A root outside the graph returns at once, with empty sets.              *)
Init ==
  /\ \E call \in Inputs : graph = call[1] /\ root = call[2]
  /\ pc = IF root \in Node THEN "flood" ELSE "done"
  /\ pending = {root} \cap Node
  /\ reachable = {root} \cap Node
  /\ sets = [n \in Node |-> {}]
  /\ node = 0
  /\ changed = FALSE
  /\ immediate = [n \in Node |-> None]

(* Mutant of Flood: what is marked is not pushed.                           *)
FloodWithoutPush(n) ==
  /\ pc = "flood"
  /\ n \in pending
  /\ reachable' = reachable \cup graph[n]
  /\ pending' = pending \ {n}
  /\ UNCHANGED <<input, pc, sets, node, changed, immediate>>

Flood(n) ==
  /\ pc = "flood"
  /\ n \in pending
  /\ reachable' = reachable \cup graph[n]
  /\ pending' = (pending \ {n}) \cup (graph[n] \ reachable)
  /\ UNCHANGED <<input, pc, sets, node, changed, immediate>>

StartSweeps ==
  /\ pc = "flood"
  /\ pending = {}
  /\ sets' = StartSets(graph, root, reachable)
  /\ pc' = "sweep"
  /\ UNCHANGED <<input, pending, reachable, node, changed, immediate>>

(* Mutant of Visit: the loop runs one node too far.                         *)
VisitOnePastTheEnd ==
  /\ pc = "sweep"
  /\ node <= Size
  /\ node' = node + 1
  /\ UNCHANGED <<input, pc, pending, reachable, sets, changed, immediate>>

(* Mutant of Visit: a set counts as changed when it is written.             *)
VisitAlwaysChanges ==
  /\ pc = "sweep"
  /\ node \in Node
  /\ IF Updates(root, reachable, node)
     THEN /\ sets' = [sets EXCEPT ![node] = MeetAt(graph, reachable, sets, node)]
          /\ changed' = TRUE
     ELSE UNCHANGED <<sets, changed>>
  /\ node' = node + 1
  /\ UNCHANGED <<input, pc, pending, reachable, immediate>>

(* One turn of the loop over the nodes.                                    *)
Visit ==
  /\ pc = "sweep"
  /\ node \in Node
  /\ LET next == MeetAt(graph, reachable, sets, node) IN
       IF Updates(root, reachable, node) /\ next # sets[node]
       THEN sets' = [sets EXCEPT ![node] = next] /\ changed' = TRUE
       ELSE UNCHANGED <<sets, changed>>
  /\ node' = node + 1
  /\ UNCHANGED <<input, pc, pending, reachable, immediate>>

Again ==
  /\ pc = "sweep"
  /\ node = Size
  /\ changed
  /\ node' = 0
  /\ changed' = FALSE
  /\ UNCHANGED <<input, pc, pending, reachable, sets, immediate>>

PickImmediate ==
  /\ pc = "sweep"
  /\ node = Size
  /\ ~changed
  /\ immediate' = ImmediateOf(graph, root, reachable, sets, None)
  /\ pc' = "done"
  /\ UNCHANGED <<input, pending, reachable, sets, node, changed>>

Next == \/ \E n \in Node : Flood(n)
        \/ StartSweeps \/ Visit \/ Again \/ PickImmediate

Spec == Init /\ [][Next]_vars

(* The code is one sequential function: it takes a step whenever it can.   *)
FairSpec == Spec /\ WF_vars(Next)
-----------------------------------------------------------------------------
TypeOK ==
  /\ graph \in [Node -> SUBSET Node]
  /\ root \in 0 .. Size
  /\ pc \in {"flood", "sweep", "done"}
  /\ pending \in SUBSET Node
  /\ reachable \in SUBSET Node
  /\ sets \in [Node -> SUBSET Node]
  /\ node \in 0 .. Size
  /\ changed \in BOOLEAN
  /\ immediate \in [Node -> Node \cup {None}]

(* A set of nodes that a walk from the root cannot leave without meeting d *)
ClosedAvoiding(S, d) ==
  /\ root # d => root \in S
  /\ \A m \in S : \A k \in graph[m] : k # d => k \in S

(* d dominates n: no walk from the root reaches n without meeting d, that  *)
(* is, n is outside of some set such walks cannot leave.                   *)
Dominates(d, n) == \E S \in SUBSET Node : ClosedAvoiding(S, d) /\ n \notin S

(* A set of nodes that no walk from the root can leave at all.             *)
ClosedUnderEdges(S) ==
  root \in S /\ \A m \in S : graph[m] \subseteq S

(* graph_analysis.cpp:44-62.  The flood marks exactly the nodes that walks *)
(* from the root reach: the least set they cannot leave.                   *)
ReachableIsExact ==
  pc # "flood" /\ root \in Node =>
    /\ ClosedUnderEdges(reachable)
    /\ \A S \in SUBSET Node : ClosedUnderEdges(S) => reachable \subseteq S

(* graph_analysis.cpp:87-118.  While the sweeps run, no dominator is ever  *)
(* lost: every intermediate result errs on the side of too many.           *)
NoDominatorIsLost ==
  pc # "flood" =>
    \A n \in reachable : \A d \in Node : Dominates(d, n) => d \in sets[n]

(* graph_analysis.cpp:87-118.  When a sweep changes nothing, what is left  *)
(* are the dominators and no other node.                                   *)
SetsAreTheDominators ==
  pc = "done" =>
    \A n \in reachable : \A d \in Node : d \in sets[n] <=> Dominates(d, n)

(* Both: the nodes that count, and their dominators (44-118).              *)
DominatorsAreExact == ReachableIsExact /\ SetsAreTheDominators

(* graph_analysis.cpp:120-137.  Counting bits finds the closest strict     *)
(* dominator: it is dominated by every other one; only the root has none.  *)
ImmediateIsClosest ==
  pc = "done" =>
    \A n \in Node :
      IF n \in reachable \ {root}
      THEN /\ immediate[n] # n /\ Dominates(immediate[n], n)
           /\ \A d \in Node \ {n} : Dominates(d, n) => Dominates(d, immediate[n])
      ELSE immediate[n] = None

(* graph_analysis.cpp:113-116.  A sweep only ever removes candidates; this *)
(* is why the loop without an iteration limit comes to an end.             *)
SetsOnlyShrink ==
  [][pc = "sweep" => \A n \in Node : sets'[n] \subseteq sets[n]]_vars

(* graph_analysis.cpp:88.  The unbounded loop ends.                        *)
Terminates == <>(pc = "done")
=============================================================================
