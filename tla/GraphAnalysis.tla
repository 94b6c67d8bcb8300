--------------------------- MODULE GraphAnalysis ---------------------------
(***************************************************************************)
(* analyzeControlFlowGraph (src/graph_analysis.cpp:24-62, 141-406): what   *)
(* the structurer is told about a control-flow graph.  A vector of blocks  *)
(* the code keeps sorted is a set; where the order of a result carries     *)
(* meaning (finish order, latches) it is a sequence.                       *)
(***************************************************************************)
EXTENDS ControlFlow, DominatorSets

CONSTANT None   \* std::nullopt

ASSUME NoneAssumption == None \notin Nat

(* adjacencyOf: a target is listed once per edge.                          *)
Adjacency(cfg) ==
  [b \in DOMAIN cfg |-> [i \in DOMAIN cfg[b].successors |-> cfg[b].successors[i].target]]

EdgeSets(adjacency) == [b \in DOMAIN adjacency |-> ToSet(adjacency[b])]

Reversed(graph) == [b \in DOMAIN graph |-> PredecessorsIn(graph, b)]

reachableFrom(graph, root) == Flooded(graph, DOMAIN graph, {root})

(* One pass over the nodes in ascending order, updating in place.          *)
Sweep(graph, root, live, sets) ==
  ForUpTo(LAMBDA s, n : IF Updates(root, live, n)
                        THEN [s EXCEPT ![n] = MeetAt(graph, live, s, n)] ELSE s,
          sets, Cardinality(DOMAIN graph))

(* As many passes as nodes: after so many a further one changes nothing.   *)
Swept(graph, root, live) ==
  Iterate(LAMBDA s : Sweep(graph, root, live, s),
          StartSets(graph, root, live), Cardinality(DOMAIN graph))

(* The result of Dominators' run, whose module has its steps.              *)
computeDominators(graph, root) ==
  LET live == reachableFrom(graph, root)
      sets == Swept(graph, root, live)
  IN  [reachable |-> live, sets |-> sets,
       immediate |-> ImmediateOf(graph, root, live, sets, None)]

(* The frames a depth-first walk goes through: a node and the number of    *)
(* its successors tried so far.                                            *)
Frames(adjacency) ==
  UNION {{[node |-> n, successor |-> i] : i \in 0 .. Len(adjacency[n])} :
           n \in DOMAIN adjacency}

(* The top frame tries its next successor, and enters it unless it was     *)
(* seen.                                                                   *)
Tried(adjacency, walk) ==
  LET top == Last(walk.stack)
      successor == adjacency[top.node][top.successor + 1]
      tried == Append(Front(walk.stack), [top EXCEPT !.successor = @ + 1])
  IN  IF successor \in walk.seen THEN [walk EXCEPT !.stack = tried]
      ELSE [walk EXCEPT !.seen = @ \cup {successor},
                        !.stack = Append(tried, [node |-> successor, successor |-> 0])]

(* Mutant of Turn: a node is appended before its successors are tried.     *)
AppendedFirst(adjacency, walk) ==
  LET top == Last(walk.stack)
      listed == IF top.successor = 0 THEN [walk EXCEPT !.order = Append(@, top.node)] ELSE walk
  IN  IF walk.stack = << >> THEN walk
      ELSE IF top.successor < Len(adjacency[top.node]) THEN Tried(adjacency, listed)
      ELSE [listed EXCEPT !.stack = Front(@)]

(* One turn of the inner loop: when all successors of the top frame were   *)
(* tried, it is left and its node appended.                                *)
Turn(adjacency, walk) ==
  LET top == Last(walk.stack)
  IN  IF walk.stack = << >> THEN walk
      ELSE IF top.successor < Len(adjacency[top.node]) THEN Tried(adjacency, walk)
      ELSE [walk EXCEPT !.stack = Front(@), !.order = Append(@, top.node)]

(* A walk from each node that those before did not come to, until its      *)
(* stack is empty: no frame comes up twice.                                *)
WalkFrom(adjacency, walk, root) ==
  IF root \in walk.seen THEN walk
  ELSE Iterate(LAMBDA w : Turn(adjacency, w),
               [walk EXCEPT !.seen = @ \cup {root},
                            !.stack = << [node |-> root, successor |-> 0] >>],
               Cardinality(Frames(adjacency)))

finishOrder(adjacency) ==
  ForUpTo(LAMBDA w, root : WalkFrom(adjacency, w, root),
          [seen |-> {}, stack |-> << >>, order |-> << >>],
          Cardinality(DOMAIN adjacency)).order

(* The reachable blocks, latest finished first.                            *)
ReversePostorder(cfg, finish) ==
  ForUpTo(LAMBDA order, k :
            LET node == finish[Len(finish) - k]
            IN  IF cfg[node].reachable THEN Append(order, node) ELSE order,
          << >>, Len(finish))

(* Mutant of computeSccs: the second pass follows the edges forward.       *)
ForwardSccs(adjacency) ==
  LET edges == EdgeSets(adjacency)
      finish == finishOrder(adjacency)
      take(found, k) ==
        LET root == finish[Len(finish) - k] IN
        IF root \in UNION found THEN found
        ELSE found \cup {Flooded(edges, DOMAIN edges \ UNION found, {root})}
  IN  ForUpTo(take, {}, Len(finish))

(* Mutant of computeSccs: the second pass enters components it has found.  *)
OverlappingSccs(adjacency) ==
  LET back == Reversed(EdgeSets(adjacency))
      finish == finishOrder(adjacency)
      take(found, k) ==
        LET root == finish[Len(finish) - k] IN
        IF root \in UNION found THEN found
        ELSE found \cup {Flooded(back, DOMAIN back, {root})}
  IN  ForUpTo(take, {}, Len(finish))

(* Kosaraju's second pass: against the edges, latest finished first.       *)
computeSccs(adjacency) ==
  LET back == Reversed(EdgeSets(adjacency))
      finish == finishOrder(adjacency)
      take(found, k) ==
        LET root == finish[Len(finish) - k] IN
        IF root \in UNION found THEN found
        ELSE found \cup {Flooded(back, DOMAIN back \ UNION found, {root})}
  IN  ForUpTo(take, {}, Len(finish))

(* The walk up a tree of immediate (post)dominators from n: n itself, its  *)
(* parent and so on, up to but without stop.                               *)
Runners(immediate, n, stop) ==
  LET tree == DOMAIN immediate \ {stop}
  IN  Flooded([m \in tree |-> {immediate[m]}], tree, {n} \cap tree)

(* Mutant of Frontier: the walk stops at the block, not at its immediate   *)
(* dominator.                                                              *)
FrontierStopsAtBlock(cfg, immediate) ==
  [r \in DOMAIN cfg |->
     {b \in DOMAIN cfg :
        /\ cfg[b].reachable /\ Len(cfg[b].predecessors) >= 2
        /\ \E i \in DOMAIN cfg[b].predecessors :
             LET p == cfg[b].predecessors[i] IN
               cfg[p].reachable /\ r \in Runners(immediate, p, b)}]

(* For every block with several predecessors, walk from each reachable one *)
(* to the immediate dominator of the block.                                *)
Frontier(cfg, immediate) ==
  [r \in DOMAIN cfg |->
     {b \in DOMAIN cfg :
        /\ cfg[b].reachable /\ Len(cfg[b].predecessors) >= 2
        /\ \E i \in DOMAIN cfg[b].predecessors :
             LET p == cfg[b].predecessors[i] IN
               cfg[p].reachable /\ r \in Runners(immediate, p, immediate[b])}]

(* Mutant of ReverseWithExit: only the last block leads to the exit.       *)
LastBlockExits(adjacency) ==
  LET exit == Cardinality(DOMAIN adjacency)
      graph == EdgeSets(adjacency)
  IN  [n \in 0 .. exit |-> IF n = exit THEN {exit - 1} ELSE PredecessorsIn(graph, n)]

(* The graph against its edges, from a synthetic exit that every block     *)
(* without successor leads to.                                             *)
ReverseWithExit(adjacency) ==
  LET exit == Cardinality(DOMAIN adjacency)
      graph == EdgeSets(adjacency)
  IN  [n \in 0 .. exit |->
         IF n = exit THEN {b \in DOMAIN graph : graph[b] = {}} ELSE PredecessorsIn(graph, n)]

(* Mutant of ControlDependents: the walk runs to the exit.                 *)
DependentsToTheExit(graph, post) ==
  [s \in DOMAIN graph |->
     UNION {Runners([b \in DOMAIN graph |-> post.immediate[b]], t, None) :
              t \in {u \in graph[s] \cap post.reachable :
                       s \in post.reachable /\ u \notin post.sets[s]}}]

(* Ferrante's walk: along an edge to a block that does not postdominate    *)
(* its source, up the postdominator tree to the source's own parent.       *)
ControlDependents(graph, post) ==
  [s \in DOMAIN graph |->
     UNION {Runners([b \in DOMAIN graph |-> post.immediate[b]], t, post.immediate[s]) :
              t \in {u \in graph[s] \cap post.reachable :
                       s \in post.reachable /\ u \notin post.sets[s]}}]

BackEdges(cfg, graph, sets) ==
  {e \in (DOMAIN cfg) \X (DOMAIN cfg) :
     cfg[e[1]].reachable /\ e[2] \in graph[e[1]] \cap sets[e[1]]}

(* Mutant of LoopMembers: the flood runs through the header.               *)
MembersThroughHeader(cfg, graph, sets, latches, header) ==
  {header} \cup Flooded(Reversed(graph), {p \in DOMAIN cfg : cfg[p].reachable}, latches)

(* Against the edges from the latches, not past the header and only over   *)
(* blocks that the header dominates.                                       *)
LoopMembers(cfg, graph, sets, latches, header) ==
  {header} \cup
    Flooded([b \in DOMAIN graph |-> IF b = header /\ b \notin latches
                                    THEN {} ELSE PredecessorsIn(graph, b)],
            {p \in DOMAIN cfg : cfg[p].reachable /\ header \in sets[p]}, latches)

NaturalLoops(cfg, graph, sets) ==
  LET edges == BackEdges(cfg, graph, sets)
      loop(h) == LET latches == {e[1] : e \in {x \in edges : x[2] = h}} IN
                 [header |-> h, latches |-> latches,
                  members |-> LoopMembers(cfg, graph, sets, latches, h)]
  IN  {loop(e[2]) : e \in edges}

(* Mutant of ParentLoop: a largest loop around it is taken.                *)
OutermostLoop(loops, inner) ==
  LET around == {l \in loops : inner.members \subseteq l.members /\ inner.members # l.members}
  IN  IF around = {} THEN None
      ELSE (CHOOSE l \in around : \A m \in around :
              \/ Cardinality(l.members) > Cardinality(m.members)
              \/ Cardinality(l.members) = Cardinality(m.members) /\ l.header <= m.header).header

(* The smallest loop with strictly more members, the first of equals;      *)
(* loops are named by their headers.                                       *)
ParentLoop(loops, inner) ==
  LET around == {l \in loops : inner.members \subseteq l.members /\ inner.members # l.members}
  IN  IF around = {} THEN None
      ELSE (CHOOSE l \in around : \A m \in around :
              \/ Cardinality(l.members) < Cardinality(m.members)
              \/ Cardinality(l.members) = Cardinality(m.members) /\ l.header <= m.header).header

Entries(cfg, graph, component) ==
  (component \cap {0}) \cup
    {m \in component : \E p \in PredecessorsIn(graph, m) \ component : cfg[p].reachable}

(* Mutant of IrreducibleRegions: the entry from outside the function is    *)
(* forgotten.                                                              *)
RegionsWithoutFunctionEntry(cfg, graph, sets, sccs) ==
  {c \in sccs :
     /\ Cardinality(c) > 1 \/ \E b \in c : b \in graph[b]
     /\ \E b \in c : cfg[b].reachable
     /\ LET in == Entries(cfg, graph, c) \ {0} IN
          Cardinality(in) # 1 \/ \E h \in in : \E m \in c : h \notin sets[m]}

(* Cyclic components that are not entered through one block dominating     *)
(* them all.                                                               *)
IrreducibleRegions(cfg, graph, sets, sccs) ==
  {c \in sccs :
     /\ Cardinality(c) > 1 \/ \E b \in c : b \in graph[b]
     /\ \E b \in c : cfg[b].reachable
     /\ LET in == Entries(cfg, graph, c) IN
          Cardinality(in) # 1 \/ \E h \in in : \E m \in c : h \notin sets[m]}

analyzeControlFlowGraph(cfg) ==
  LET adjacency == Adjacency(cfg)
      graph == EdgeSets(adjacency)
      dom == computeDominators(graph, 0)
      exit == Cardinality(DOMAIN cfg)
      post == computeDominators(ReverseWithExit(adjacency), exit)
      sccs == computeSccs(adjacency)
      loops == NaturalLoops(cfg, graph, dom.sets)
  IN  [reverse_postorder       |-> ReversePostorder(cfg, finishOrder(adjacency)),
       sccs                    |-> sccs,
       dominators              |-> dom.sets,
       immediate_dominator     |-> dom.immediate,
       dominance_frontier      |-> Frontier(cfg, dom.immediate),
       can_reach_exit          |-> post.reachable \ {exit},
       postdominators          |-> post.sets,
       immediate_postdominator |-> post.immediate,
       control_dependents      |-> ControlDependents(graph, post),
       natural_loops           |-> {[header |-> l.header, latches |-> l.latches,
                                     members |-> l.members,
                                     parent |-> ParentLoop(loops, l)] : l \in loops},
       irreducible_regions     |-> IrreducibleRegions(cfg, graph, dom.sets, sccs)]

reducible(analysis) == analysis.irreducible_regions = {}
=============================================================================
