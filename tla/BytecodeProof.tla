--------------------------- MODULE BytecodeProof ---------------------------
(***************************************************************************)
(* Proofs about the control-flow graph: for every code unit, the run of    *)
(* the bytecode is a walk of the graph that is built of it.                *)
(***************************************************************************)
EXTENDS BytecodeRun, ControlFlowProof

(* What holds of a run: it is in the code, beside the graph built of it.   *)
RunInv ==
  /\ DOMAIN code = {} \/ (Unit(code) /\ pc \in DOMAIN code)
  /\ status \in {"build", "run", "empty", "rejected", "Return", "Abort", "FallOff"}
  /\ status = "build" => pc = 0
  /\ status = "empty" => DOMAIN code = {}
  /\ status \in {"run", "Return", "Abort", "FallOff"} => DOMAIN code # {}
  /\ status \notin {"build", "rejected"} => ~CfgRejects(code) /\ cfg = buildControlFlowGraph(code)

(* Code is empty or starts with instruction 0.                             *)
LEMMA RunInitially == Init => RunInv
<1> SUFFICES ASSUME Init PROVE RunInv  OBVIOUS
<1>1. code \in Programs /\ pc = 0 /\ status = "build"  BY DEF Init
<1>2. /\ IsFiniteSet(DOMAIN code) /\ DOMAIN code = 0 .. Size(code) - 1
      /\ \A i \in DOMAIN code : code[i].op \in Opcodes
  BY <1>1, ProgramsAssumption
<1>3. Size(code) \in Nat  BY <1>2, FS_CardinalityType DEF Size
<1>4. DOMAIN code = {} \/ 0 \in DOMAIN code  BY <1>2, <1>3
<1> QED  BY <1>1, <1>2, <1>4 DEF RunInv, Unit

(* A unit without code has a graph without blocks.                         *)
LEMMA NoCodeNoBlocks ==
  ASSUME NEW c, DOMAIN c = {}
  PROVE  DOMAIN buildControlFlowGraph(c) = {}
<1>1. Leaders(c) = {}  BY DEF Leaders
<1>2. BlockIds(c) = {}  BY <1>1, FS_EmptySet DEF BlockIds
<1> QED  BY <1>2 DEF buildControlFlowGraph

(* One with code has a first block.                                        *)
LEMMA CodeHasBlocks ==
  ASSUME NEW c, Accepted(c)
  PROVE  DOMAIN buildControlFlowGraph(c) # {}
<1>1. 0 \in BlockIds(c)  BY StartsInFirstBlock, BlockOfIsABlock
<1> QED  BY <1>1 DEF buildControlFlowGraph

LEMMA RunStays == RunInv /\ [Next]_vars => RunInv'
<1> SUFFICES ASSUME RunInv, [Next]_vars PROVE RunInv'  OBVIOUS
<1> USE DEF RunInv
<1>1. CASE Build  BY <1>1 DEF Build
<1>2. CASE Reject  BY <1>2 DEF Reject
<1>3. CASE StepPlain  BY <1>3 DEF StepPlain, Running
<1>4. CASE Jump  BY <1>4 DEF Jump, Running, CfgRejects, TargetOK, Branches
<1>5. CASE Finish  BY <1>5 DEF Finish, Running
<1>6. ASSUME NEW value \in BOOLEAN, Test(value) PROVE RunInv'
  BY <1>6 DEF Test, Running, CfgRejects, TargetOK, Branches, Conditional
<1>7. CASE UNCHANGED vars  BY <1>7 DEF vars
<1> QED  BY <1>1, <1>2, <1>3, <1>4, <1>5, <1>6, <1>7 DEF Next

(* The walk's block at a running machine.                                  *)
At == IF status \in {"build", "rejected", "empty"} THEN 0 ELSE BlockOf(code, pc)

(* The block of pc, as the graph has it.                                   *)
LEMMA BlockInGraph ==
  ASSUME RunInv, status = "run"
  PROVE  /\ At = BlockOf(code, pc) /\ At \in DOMAIN cfg
         /\ cfg[At].successors = SuccessorsOf(code, At)
         /\ cfg[At].exit = ExitKindOf(code, At)
<1>1. Accepted(code) /\ pc \in DOMAIN code  BY DEF RunInv, Accepted
<1>2. BlockOf(code, pc) \in BlockIds(code)  BY <1>1, InstructionsAreNatural, BlockOfIsABlock
<1>3. At = BlockOf(code, pc)  BY DEF At
<1>4. cfg = buildControlFlowGraph(code)  BY DEF RunInv
<1> QED  BY <1>2, <1>3, <1>4 DEF buildControlFlowGraph

(* Every step is one of the walk of the graph (cfg.cpp 71-169): a step     *)
(* within a block is none of the walk, and one to another block takes the  *)
(* edge of its kind.                                                       *)
LEMMA StepsFollowTheGraph ==
  RunInv /\ RunInv' /\ [Next]_vars => [Walk!Next]_(Walk!walkVars)
<1> SUFFICES ASSUME RunInv, RunInv', [Next]_vars PROVE [Walk!Next]_(Walk!walkVars)  OBVIOUS
<1>1. CASE Build
  <2>0. status = "build" /\ pc = 0 /\ UNCHANGED <<code, pc, cond>> /\ cfg' = buildControlFlowGraph(code)
    BY <1>1 DEF Build, RunInv
  <2>1. CASE DOMAIN code = {}
    <3>1. DOMAIN cfg' = {} /\ status' = "empty"  BY <1>1, <2>0, <2>1, NoCodeNoBlocks DEF Build
    <3> QED  BY <2>0, <3>1 DEF Walk!Next, Walk!Built
  <2>2. CASE DOMAIN code # {}
    <3>1. Accepted(code)  BY <1>1, <2>2 DEF Build, RunInv, Accepted
    <3>2. BlockOf(code, pc) = 0  BY <2>0, <3>1, StartsInFirstBlock
    <3>3. DOMAIN cfg' # {} /\ status' = "run"  BY <1>1, <2>0, <2>2, <3>1, CodeHasBlocks DEF Build
    <3> QED  BY <2>0, <3>2, <3>3 DEF Walk!Next, Walk!Built
  <2> QED  BY <2>1, <2>2
<1>2. CASE Reject  BY <1>2 DEF Reject, Walk!Next, Walk!Rejected
<1>3. CASE StepPlain
  <2>0. status = "run" /\ code[pc].op = "Plain" /\ Accepted(code) /\ pc \in DOMAIN code
    BY <1>3 DEF StepPlain, Running, RunInv, Accepted
  <2>1. CASE pc + 1 \in DOMAIN code /\ pc + 1 \notin Leaders(code)
    BY <1>3, <2>0, <2>1, BlockGoesOn, InstructionsAreNatural DEF StepPlain, Walk!walkVars
  <2>2. CASE pc + 1 \in Leaders(code)
    <3>1. BlockEnd(code, At) - 1 = pc
      BY <2>0, <2>2, BlockEndsThere, BlockInGraph, InstructionsAreNatural
    <3>2. pc + 1 \in DOMAIN code  BY <2>0, <2>2, LeadersAreInstructions
    <3>3. cfg[At].successors = << Edge(BlockOf(code, pc + 1), "Fallthrough") >>
      BY <2>0, <3>1, <3>2, BlockInGraph DEF SuccessorsOf
    <3> QED  BY <1>3, <2>0, <3>2, <3>3, BlockInGraph DEF StepPlain, Edge, At, Walk!Next, Walk!Follow
  <2>3. CASE pc + 1 \notin DOMAIN code
    <3>1. BlockEnd(code, At) - 1 = pc
      BY <2>0, <2>3, BlockEndsThere, BlockInGraph, InstructionsAreNatural
    <3>2. cfg[At].exit = "FallOff"  BY <2>0, <2>3, <3>1, BlockInGraph DEF ExitKindOf
    <3> QED  BY <1>3, <2>0, <2>3, <3>2 DEF StepPlain, At, Walk!Next, Walk!Leave
  <2> QED  BY <2>1, <2>2, <2>3
<1>4. CASE Jump
  <2>0. status = "run" /\ code[pc].op = "Branch" /\ Accepted(code) /\ pc \in DOMAIN code
    BY <1>4 DEF Jump, Running, RunInv, Accepted
  <2>1. BlockEnd(code, At) - 1 = pc  BY <2>0, TerminatorsEndBlocks, BlockInGraph DEF Terminator
  <2>2. cfg[At].successors = << Edge(BlockOf(code, code[pc].target), "Branch") >>
    BY <2>0, <2>1, BlockInGraph DEF SuccessorsOf
  <2> QED  BY <1>4, <2>0, <2>2 DEF Jump, Edge, At, Walk!Next, Walk!Follow
<1>5. CASE Finish
  <2>0. status = "run" /\ code[pc].op \in {"Ret", "Abort"} /\ Accepted(code) /\ pc \in DOMAIN code
    BY <1>5 DEF Finish, Running, RunInv, Accepted
  <2>1. BlockEnd(code, At) - 1 = pc  BY <2>0, TerminatorsEndBlocks, BlockInGraph DEF Terminator
  <2>2. cfg[At].exit = IF code[pc].op = "Ret" THEN "Return" ELSE "Abort"
    BY <2>0, <2>1, BlockInGraph DEF ExitKindOf
  <2> QED  BY <1>5, <2>0, <2>2 DEF Finish, At, Walk!Next, Walk!Leave
<1>6. ASSUME NEW value \in BOOLEAN, Test(value) PROVE Walk!Next
  <2>0. status = "run" /\ code[pc].op \in {"BrTrue", "BrFalse"} /\ Accepted(code) /\ pc \in DOMAIN code
    BY <1>6 DEF Test, Running, RunInv, Accepted
  <2>1. BlockEnd(code, At) - 1 = pc  BY <2>0, TerminatorsEndBlocks, BlockInGraph DEF Terminator
  <2>2. cfg[At].successors =
          IF code[pc].op = "BrTrue"
          THEN << Edge(BlockOf(code, code[pc].target), "True"), Edge(BlockOf(code, pc + 1), "False") >>
          ELSE << Edge(BlockOf(code, code[pc].target), "False"), Edge(BlockOf(code, pc + 1), "True") >>
    BY <2>0, <2>1, BlockInGraph DEF SuccessorsOf
  <2>3. PICK i \in DOMAIN cfg[At].successors :
          cfg[At].successors[i] = Edge(BlockOf(code, pc'), IF value THEN "True" ELSE "False")
    BY <1>6, <2>0, <2>2 DEF Test
  <2> QED  BY <1>6, <2>0, <2>3 DEF Test, Edge, At, Walk!Next, Walk!Follow
<1>7. CASE UNCHANGED vars  BY <1>7 DEF vars, Walk!walkVars
<1> QED  BY <1>1, <1>2, <1>3, <1>4, <1>5, <1>6, <1>7 DEF Next

(* Every run of a code unit is a walk of the graph built of it (cfg.cpp    *)
(* 71-169).                                                                *)
THEOREM RunsWalkTheGraph == Spec => ImplementsBlockWalk
<1>1. Init => Walk!Init  BY DEF Init, Walk!Init
<1> QED  BY <1>1, StepsFollowTheGraph, RunInitially, RunStays, PTL DEF Spec, ImplementsBlockWalk, Walk!Spec

(* The graph's blocks partition the code, none is empty, they are entered  *)
(* and left only at their ends, and name their predecessors once (cfg.cpp  *)
(* 75-103, 149-153).                                                       *)
THEOREM GraphsHaveBasicBlocks == Spec => []BlocksAreBasic
<1>0. ASSUME RunInv, status = "empty" PROVE BlocksAreBasic
  <2>1. DOMAIN code = {} /\ DOMAIN cfg = {}  BY <1>0, NoCodeNoBlocks DEF RunInv
  <2> QED  BY <2>1 DEF BlocksAreBasic
<1>1. RunInv => BlocksAreBasic
  <2> SUFFICES ASSUME RunInv, status = "run" PROVE BlocksAreBasic  BY <1>0 DEF BlocksAreBasic
  <2>0. Accepted(code) /\ cfg = buildControlFlowGraph(code)  BY DEF RunInv, Accepted
  <2> DEFINE succ == [b \in BlockIds(code) |-> SuccessorsOf(code, b)]
  <2>1. /\ DOMAIN cfg = BlockIds(code)
        /\ \A b \in BlockIds(code) :
             /\ cfg[b].begin = BlockStart(code, b) /\ cfg[b].end = BlockEnd(code, b)
             /\ cfg[b].successors = SuccessorsOf(code, b) /\ cfg[b].exit = ExitKindOf(code, b)
             /\ cfg[b].predecessors = PredecessorsOf(succ, b)
    BY <2>0 DEF buildControlFlowGraph
  <2>2. ASSUME NEW i \in DOMAIN code
        PROVE  \E b \in DOMAIN cfg :
                 /\ i \in cfg[b].begin .. cfg[b].end - 1
                 /\ \A c \in DOMAIN cfg \ {b} : i \notin cfg[c].begin .. cfg[c].end - 1
                 /\ Terminator(code[i].op) => i = cfg[b].end - 1
                 /\ Branches(code[i].op) => \E c \in DOMAIN cfg : cfg[c].begin = code[i].target
    <3> DEFINE own == BlockOf(code, i)
    <3>1. own \in DOMAIN cfg  BY <2>0, <2>1, InstructionsAreNatural, BlockOfIsABlock
    <3>2. i \in cfg[own].begin .. cfg[own].end - 1  BY <2>0, <2>1, <3>1, BlocksPartition
    <3>3. \A c \in DOMAIN cfg \ {own} : i \notin cfg[c].begin .. cfg[c].end - 1
      BY <2>0, <2>1, BlocksPartition
    <3>4. Terminator(code[i].op) => i = cfg[own].end - 1  BY <2>0, <2>1, <3>1, TerminatorsEndBlocks
    <3>5. ASSUME Branches(code[i].op) PROVE \E c \in DOMAIN cfg : cfg[c].begin = code[i].target
      <4>1. code[i].target \in Leaders(code)  BY <3>5 DEF Leaders
      <4>2. BlockOf(code, code[i].target) \in DOMAIN cfg
        BY <2>0, <2>1, <4>1, LeadersAreInstructions, BlockOfIsABlock
      <4> QED  BY <2>0, <2>1, <4>1, <4>2, LeaderStartsItsBlock
    <3> QED  BY <3>1, <3>2, <3>3, <3>4, <3>5
  <2>3. ASSUME NEW b \in DOMAIN cfg
        PROVE  /\ ToSet(cfg[b].predecessors) = {p \in DOMAIN cfg : b \in Successor(p)}
               /\ IsInjective(cfg[b].predecessors)
    <3> DEFINE P == {p \in DOMAIN cfg : b \in Successor(p)}
    <3>1. P = {p \in DOMAIN succ : b \in Targets(succ[p])}  BY <2>1 DEF Successor
    <3>2. cfg[b].predecessors = Ascending(P)  BY <2>1, <3>1 DEF PredecessorsOf
    <3>3. IsFiniteSet(DOMAIN cfg) /\ DOMAIN cfg \subseteq Int
      BY <2>0, <2>1, LeadersAreInstructions, FS_Interval DEF BlockIds
    <3>4. IsFiniteSet(P) /\ P \subseteq Int  BY <3>3, FS_Subset
    <3> QED  BY <3>2, <3>4, AscendingListsAll
  <2>4. ASSUME NEW b \in DOMAIN cfg
        PROVE  (cfg[b].exit = "None") <=> (cfg[b].successors # << >>)
    <3>1. BlockEnd(code, b) - 1 \in DOMAIN code  BY <2>0, <2>1, BlocksEndInTheCode
    <3>2. code[BlockEnd(code, b) - 1].op \in Opcodes  BY <2>0, <3>1 DEF Accepted, Unit
    <3>3. CASE code[BlockEnd(code, b) - 1].op = "Plain"
      <4>2. CASE BlockEnd(code, b) - 1 + 1 \in DOMAIN code
        <5>1. SuccessorsOf(code, b) =
                << Edge(BlockOf(code, BlockEnd(code, b) - 1 + 1), "Fallthrough") >>
          BY <3>3, <4>2 DEF SuccessorsOf
        <5>2. ExitKindOf(code, b) = "None"  BY <3>3, <4>2 DEF ExitKindOf
        <5>3. SuccessorsOf(code, b) # << >>  BY <5>1
        <5>4. cfg[b].exit = "None" /\ cfg[b].successors # << >>  BY <2>1, <5>2, <5>3
        <5> QED  BY <5>4
      <4>3. CASE BlockEnd(code, b) - 1 + 1 \notin DOMAIN code
        <5>1. SuccessorsOf(code, b) = << >>  BY <3>3, <4>3 DEF SuccessorsOf
        <5>2. ExitKindOf(code, b) = "FallOff"  BY <3>3, <4>3 DEF ExitKindOf
        <5> QED  BY <2>1, <5>1, <5>2
      <4> QED  BY <4>2, <4>3
    <3>4. CASE code[BlockEnd(code, b) - 1].op \in {"Branch", "BrTrue", "BrFalse"}
      <4>0. ASSUME NEW e, NEW f PROVE << e >> # << >> /\ << e, f >> # << >>  OBVIOUS
      <4>1. SuccessorsOf(code, b) # << >>  BY <3>4, <4>0 DEF SuccessorsOf
      <4>2. ExitKindOf(code, b) = "None"  BY <3>4 DEF ExitKindOf
      <4> QED  BY <2>1, <4>1, <4>2
    <3>5. CASE code[BlockEnd(code, b) - 1].op \in {"Ret", "Abort"}
      <4>1. SuccessorsOf(code, b) = << >>  BY <3>5 DEF SuccessorsOf
      <4>2. ExitKindOf(code, b) # "None"  BY <3>5 DEF ExitKindOf
      <4> QED  BY <2>1, <4>1, <4>2
    <3> QED  BY <3>2, <3>3, <3>4, <3>5 DEF Opcodes
  <2>5. ASSUME NEW b \in DOMAIN cfg
        PROVE  cfg[b].begin \in DOMAIN code /\ cfg[b].begin < cfg[b].end
    <3>1. BlockStart(code, b) \in DOMAIN code /\ BlockStart(code, b) \in Nat
      BY <2>0, <2>1, BlocksHaveLeaders, LeadersAreInstructions
    <3>2. BlockStart(code, b) \in BlockStart(code, b) .. BlockEnd(code, b) - 1
      BY <2>0, <2>1, <3>1, BlocksHaveLeaders, BlocksPartition
    <3>3. BlockEnd(code, b) \in Int
      BY <2>0, <2>1, BlocksHaveLeaders, LeadersAreInstructions, SizeIsNatural DEF BlockEnd, Accepted
    <3>4. BlockStart(code, b) < BlockEnd(code, b)  BY <3>1, <3>2, <3>3
    <3> QED  BY <2>1, <3>1, <3>4
  <2> QED  BY <2>2, <2>3, <2>4, <2>5 DEF BlocksAreBasic
<1> QED  BY <1>1, RunInitially, RunStays, PTL DEF Spec

-----------------------------------------------------------------------------
Marked == {b \in DOMAIN cfg : cfg[b].reachable}

(* A run stays in marked blocks.                                           *)
RunsMarked == status = "run" => BlockOf(code, pc) \in Marked

LEMMA MarkedStays == RunInv /\ RunInv' /\ RunsMarked /\ [Next]_vars => RunsMarked'
<1> SUFFICES ASSUME RunInv, RunInv', RunsMarked, [Next]_vars, status' = "run"
             PROVE  BlockOf(code', pc') \in DOMAIN cfg' /\ cfg'[BlockOf(code', pc')].reachable
  BY DEF RunsMarked, Marked
<1>1. Accepted(code') /\ cfg' = buildControlFlowGraph(code')  BY DEF RunInv, Accepted
<1>2. CASE status = "build"
  <2>1. Build  BY <1>2 DEF Next, Build, Reject, StepPlain, Jump, Test, Finish, Running, vars
  <2>2. pc' = 0 /\ BlockOf(code', pc') = 0  BY <1>1, <2>1, StartsInFirstBlock DEF Build, RunInv
  <2> QED  BY <1>1, <2>2, FloodedGraph
<1>3. CASE status # "build"
  <2>1. status = "run" /\ cfg' = cfg /\ code' = code
    BY <1>3 DEF Next, Build, Reject, StepPlain, Jump, Test, Finish, Running, vars
  <2>2. At = BlockOf(code, pc) /\ At' = BlockOf(code', pc')  BY <2>1 DEF At
  <2>3. At' = At \/ At' \in Targets(cfg[At].successors)
    BY <2>1, StepsFollowTheGraph DEF At, Targets, Walk!Next, Walk!Built, Walk!Rejected, Walk!Follow, Walk!Leave, Walk!walkVars
  <2>4. At \in Marked  BY <2>1, <2>2 DEF RunsMarked
  <2> QED  BY <1>1, <2>1, <2>2, <2>3, <2>4, FloodedGraph DEF Marked
<1> QED  BY <1>2, <1>3

(* cfg.cpp:155-166.  The flood marks the least set of blocks that holds    *)
(* block 0 and that edges do not leave, and no run of any code unit enters *)
(* a block outside of it.                                                  *)
THEOREM ReachabilityExact == Spec => []ReachabilityIsExact
<1>1. Init => RunsMarked  BY DEF Init, RunsMarked
<1>2. RunInv /\ RunsMarked => ReachabilityIsExact
  <2> SUFFICES ASSUME RunInv, RunsMarked, status = "run" PROVE ReachabilityIsExact
    BY DEF ReachabilityIsExact
  <2>1. Accepted(code) /\ cfg = buildControlFlowGraph(code)  BY DEF RunInv, Accepted
  <2>2. BlockOf(code, pc) \in Marked  BY DEF RunsMarked
  <2>3. KeepsRunsInside(Marked)
    BY <2>1, FloodedGraph DEF KeepsRunsInside, Marked, Successor
  <2>4. \A S \in SUBSET DOMAIN cfg : KeepsRunsInside(S) => Marked \subseteq S
    BY <2>1, FloodedGraph DEF KeepsRunsInside, Marked, Successor
  <2>5. Marked = {b \in DOMAIN cfg : cfg[b].reachable}  BY DEF Marked
  <2> HIDE DEF Marked
  <2> QED  BY <2>2, <2>3, <2>4, <2>5, Zenon DEF ReachabilityIsExact
<1> QED  BY <1>1, <1>2, RunInitially, RunStays, MarkedStays, PTL DEF Spec
=============================================================================
