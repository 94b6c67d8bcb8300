----------------------------- MODULE LocalCheck -----------------------------
(***************************************************************************)
(* Whether analyzeLocals (src/local_analysis.cpp) accepts the code of a    *)
(* function with a graph from cfg.cpp.  LocalAnalysis models how it comes  *)
(* to that, block by block; here only the outcome is wanted.               *)
(***************************************************************************)
EXTENDS StacklessLift

(* Mutant of AfterInstruction: a local that is moved keeps its value.      *)
AfterInstructionKept(have, i) == IF i.op = "StLoc" THEN have \cup {i.arg} ELSE have

(* What instructions leave of the locals that have a value.                *)
AfterInstruction(have, i) ==
  CASE i.op = "StLoc" -> have \cup {i.arg} [] i.op = "MoveLoc" -> have \ {i.arg} [] OTHER -> have
Available(instructions, have) ==
  LET available[k \in 0 .. Len(instructions)] ==
        IF k = 0 THEN have ELSE AfterInstruction(available[k - 1], instructions[k])
  IN  available
AvailableAfter(instructions, have) == Available(instructions, have)[Len(instructions)]

ReadsFindValues(instructions, have) ==
  \A k \in DOMAIN instructions :
    instructions[k].op \in Locals => instructions[k].arg \in Available(instructions, have)[k - 1]

(* Of such pairs of a block and a local, those that no way into the block  *)
(* speaks against.                                                         *)
Kept(f, graph, pairs) ==
  LET in(b) == {p[2] : p \in {q \in pairs : q[1] = b}}
      out == UNION {{<<b, l>> : l \in AvailableAfter(BlockCode(f.code, graph[b]), in(b))} : b \in DOMAIN graph}
  IN  {p \in pairs : /\ p[1] = 0 => p[2] < f.parameters
                     /\ \A b \in DOMAIN graph :
                          graph[b].reachable /\ p[1] \in Targets(graph[b].successors) => <<b, p[2]>> \in out}

(* The locals that have a value on every way into a block: the largest     *)
(* such pairs.                                                             *)
MustAvailable(f, graph) ==
  LET all == (DOMAIN graph) \X (DOMAIN f.locals)
      must == Iterate(LAMBDA pairs : Kept(f, graph, pairs), all, Cardinality(all))
  IN  [b \in DOMAIN graph |-> {p[2] : p \in {q \in must : q[1] = b}}]

LocalsRefused(f, graph) ==
  LET must == MustAvailable(f, graph)
  IN  \E b \in DOMAIN graph :
        graph[b].reachable /\ ~ ReadsFindValues(BlockCode(f.code, graph[b]), must[b])
=============================================================================
