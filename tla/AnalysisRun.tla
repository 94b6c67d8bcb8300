---------------------------- MODULE AnalysisRun ----------------------------
(***************************************************************************)
(* The driver of tools/movescape.cpp for `analyze`: build the graph, then  *)
(* analyze it; and what each part of the result is for, defined from walks *)
(* of the graph alone.                                                     *)
(***************************************************************************)
EXTENDS GraphAnalysis

CONSTANT Programs   \* code units that buildControlFlowGraph accepts

ASSUME ProgramsAssumption ==
  \A c \in Programs :
    /\ IsFiniteSet(DOMAIN c) /\ 0 \in DOMAIN c /\ DOMAIN c = 0 .. Size(c) - 1
    /\ \A i \in DOMAIN c : c[i].op \in Opcodes
    /\ ~CfgRejects(c)

VARIABLES code, cfg, analysis

vars == <<code, cfg, analysis>>

Init == /\ code \in Programs
        /\ cfg = << >>
        /\ analysis = << >>

Build ==
  /\ cfg = << >>
  /\ cfg' = buildControlFlowGraph(code)
  /\ UNCHANGED <<code, analysis>>

Analyze ==
  /\ cfg # << >> /\ analysis = << >>
  /\ analysis' = analyzeControlFlowGraph(cfg)
  /\ UNCHANGED <<code, cfg>>

Next == Build \/ Analyze

Spec == Init /\ [][Next]_vars
-----------------------------------------------------------------------------
Block == DOMAIN cfg
Live == {b \in Block : cfg[b].reachable}
Edges == [b \in Block |-> Targets(cfg[b].successors)]
Analyzed == analysis # << >>

(* The blocks that walks from b reach without entering a block of avoid;   *)
(* b itself counts, unless it is to be avoided.                            *)
WalksFrom(b, avoid) ==
  IF b \in avoid THEN {} ELSE Flooded(Edges, Block \ avoid, {b})

(* ... in at least one step.                                               *)
WalksOn(b, avoid) == UNION {WalksFrom(s, avoid) : s \in Edges[b]}

Dominates(d, n) == n \notin WalksFrom(0, {d})

Exits == {b \in Block : Edges[b] = {}}

Escapes(b, avoid) == WalksFrom(b, avoid) \cap Exits # {}

Postdominates(p, b) == ~Escapes(b, {p})

(* graph_analysis.cpp:141-170, 227-232.  The reverse postorder lists every *)
(* reachable block once, and no block before one that dominates it, so     *)
(* one forward pass sees a block after its dominators.                     *)
OrderFollowsDominators ==
  Analyzed =>
    LET order == analysis.reverse_postorder IN
      /\ ToSet(order) = Live /\ IsInjective(order)
      /\ \A i, j \in DOMAIN order : Dominates(order[i], order[j]) => i <= j

(* graph_analysis.cpp:172-208.  Components are the classes of blocks that  *)
(* walks connect both ways.                                                *)
ComponentsAreMutual ==
  Analyzed =>
    analysis.sccs = {{c \in WalksFrom(b, {}) : b \in WalksFrom(c, {})} : b \in Block}

(* Both of them: the order is that of one walk over the graph, and the     *)
(* components those of that walk and one back (141-208).                   *)
WalksAreExact == OrderFollowsDominators /\ ComponentsAreMutual

(* graph_analysis.cpp:251-271.  Of the blocks with several predecessors    *)
(* the frontier of r has exactly those where its dominance ends: r         *)
(* dominates a predecessor, but not strictly the block.                    *)
FrontierIsWhereDominanceEnds ==
  Analyzed =>
    \A r \in Live :
      analysis.dominance_frontier[r] =
        {b \in Live :
           LET from == {p \in Live : b \in Edges[p]} IN
             /\ Cardinality({p \in Block : b \in Edges[p]}) >= 2
             /\ \E p \in from : Dominates(r, p)
             /\ r = b \/ ~Dominates(r, b)}

(* graph_analysis.cpp:273-295.  Of a block that can finish, the            *)
(* postdominators are the blocks on all walks to an exit, and the          *)
(* immediate one is the first of them; a block that cannot has none.       *)
PostdominatorsGuardTheExit ==
  Analyzed =>
    /\ analysis.can_reach_exit = {b \in Block : Escapes(b, {})}
    /\ \A b \in analysis.can_reach_exit :
         LET strict == {p \in Block \ {b} : Postdominates(p, b)}
             first == analysis.immediate_postdominator[b]
         IN  /\ analysis.postdominators[b] = strict \cup {b, Cardinality(Block)}
             /\ IF strict = {} THEN first = Cardinality(Block)
                ELSE first \in strict /\ \A p \in strict : Postdominates(p, first)
    /\ \A b \in Block \ analysis.can_reach_exit :
         analysis.immediate_postdominator[b] = None

(* graph_analysis.cpp:297-322.  A block depends on a branch when one way   *)
(* out of it, other than a loop on itself, runs into the block for sure    *)
(* and another can miss it.                                                *)
DependentsAreDecidedByTheBranch ==
  Analyzed =>
    \A s \in analysis.can_reach_exit :
      analysis.control_dependents[s] =
        {b \in analysis.can_reach_exit :
           /\ \E t \in (Edges[s] \cap analysis.can_reach_exit) \ {s} : Postdominates(b, t)
           /\ b = s \/ ~Postdominates(b, s)}

(* graph_analysis.cpp:324-359.  A natural loop is what can come round to   *)
(* its header again through a latch, and is entered at the header only.    *)
LoopsAreEnteredAtTheHeader ==
  Analyzed =>
    \A l \in analysis.natural_loops :
      /\ l.members = {l.header} \cup
           {b \in Live : WalksFrom(b, {l.header}) \cap l.latches # {}}
      /\ l.latches = {b \in Live : l.header \in Edges[b] /\ Dominates(l.header, b)}
      /\ \A b \in Live \ l.members : Edges[b] \cap l.members \subseteq {l.header}

(* graph_analysis.cpp:360-370.  Two loops are apart or one is inside the   *)
(* other, and the parent is the innermost loop around.                     *)
LoopsNest ==
  Analyzed =>
    \A l \in analysis.natural_loops :
      LET around == {m \in analysis.natural_loops : l.header \in m.members /\ m # l} IN
        /\ \A m \in around : l.members \subseteq m.members
        /\ IF around = {} THEN l.parent = None
           ELSE \E p \in around : p.header = l.parent
                                  /\ \A m \in around : p.members \subseteq m.members

(* Both of them, of every loop that is reported (graph_analysis.cpp:324-   *)
(* 370).                                                                   *)
LoopsAreNatural == LoopsAreEnteredAtTheHeader /\ LoopsNest

(* graph_analysis.cpp:372-405.  A region is reported irreducible when, and *)
(* only when, a cyclic component can be entered at two blocks.             *)
ReportedRegionsHaveTwoEntries ==
  Analyzed =>
    analysis.irreducible_regions =
      {c \in analysis.sccs :
         /\ c \cap Live # {} /\ \E b \in c : b \in WalksOn(b, {})
         /\ \E a, b \in c : /\ a # b
                            /\ WalksFrom(0, c \ {a}) \cap c = {a}
                            /\ WalksFrom(0, c \ {b}) \cap c = {b}}
=============================================================================
