----------------------------- MODULE MCLocalRun -----------------------------
(***************************************************************************)
(* Functions of three blocks: all graphs of them that have no more than    *)
(* two edges from a block and one block that jumps to itself, a block that *)
(* nothing reaches having an edge, with up to one access to a single local *)
(* in each block and one that reads; and, with the rest of the             *)
(* blocks unreachable, two blocks of up to two and one accesses and one    *)
(* block of up to three accesses, in any order, to two locals.  After its  *)
(* accesses each block has an instruction that makes none.                 *)
(***************************************************************************)
EXTENDS LocalRun, Sequences, FiniteSets
LOCAL INSTANCE FiniteSetsExt

Touching(locals) == [kind : {"Read", "Move", "Write"}, local : locals]

UpTo(n, locals) == UNION {[1 .. k -> Touching(locals)] : k \in 0 .. n}

(* Where each block begins, with the end of the last.                      *)
Starts(body) == [b \in 0 .. BlockCount |-> MapThenSumSet(LAMBDA c : Len(body[c]) + 1, 0 .. b - 1)]

CodeOf(body, start) ==
  [i \in 0 .. start[BlockCount] - 1 |->
     LET b == CHOOSE c \in Block : i \in start[c] .. start[c + 1] - 1
         k == i - start[b] + 1
     IN  IF k \in DOMAIN body[b] THEN body[b][k] ELSE [kind |-> "Other", local |-> 0]]

BlocksOf(graph, start) ==
  LET marked == Flooded(graph, Block, {0})
  IN  [b \in Block |-> [begin |-> start[b], end |-> start[b + 1],
                        successors |-> graph[b], reachable |-> b \in marked]]

FunctionsOf(graphs, bodies, locals) ==
  UNION {LET start == Starts(body)
             code == CodeOf(body, start)
             blocks == {BlocksOf(graph, start) : graph \in graphs}
         IN  [code : {code}, blocks : blocks, parameters : 0 .. locals] : body \in bodies}

Graphs ==
  {graph \in [Block -> {S \in SUBSET Block : Cardinality(S) <= 2}] :
     /\ Cardinality({b \in Block : b \in graph[b]}) <= 1
     /\ \A b \in Block \ Flooded(graph, Block, {0}) : graph[b] # {}}

(* Some access reads the local.                                            *)
Bodies == {body \in [Block -> UpTo(1, {0})] :
             \E b \in Block : \E i \in DOMAIN body[b] : body[b][i].kind # "Write"}

(* The graphs of n blocks in which all of these are reachable.             *)
GraphsWithin(n) ==
  {graph \in [Block -> SUBSET (0 .. n - 1)] :
     /\ \A b \in Block : b >= n => graph[b] = {}
     /\ Flooded(graph, Block, {0}) = 0 .. n - 1}

SmallFunctions ==
  FunctionsOf(Graphs, Bodies, 1)
    \cup FunctionsOf(GraphsWithin(2), {[b \in Block |-> IF b = 0 THEN x ELSE IF b = 1 THEN y ELSE << >>] :
                                   x \in UpTo(2, Local), y \in UpTo(1, Local)}, 2)
    \cup FunctionsOf(GraphsWithin(1), {[b \in Block |-> IF b = 0 THEN x ELSE << >>] :
                                   x \in UpTo(3, Local)}, 2)
=============================================================================
