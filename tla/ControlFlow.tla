---------------------------- MODULE ControlFlow ----------------------------
(***************************************************************************)
(* src/cfg.cpp: how a code unit is cut into basic blocks.                  *)
(*                                                                         *)
(* A code unit is a function from 0 .. n-1 to instructions, as the C++     *)
(* vector is.  Of an instruction only its opcode class and its branch      *)
(* target matter here: "Plain" stands for every opcode that is neither a   *)
(* branch, a return nor an abort.                                          *)
(***************************************************************************)
EXTENDS Integers, FiniteSets, Sequences, SequencesExt, Iteration

Opcodes == {"Plain", "Branch", "BrTrue", "BrFalse", "Ret", "Abort"}

CONSTANT NoTarget   \* the operand list of an instruction is empty

ASSUME NoTargetAssumption == NoTarget \notin Nat

Size(code) == Cardinality(DOMAIN code)

Conditional(op) == op \in {"BrTrue", "BrFalse"}

Branches(op) == Conditional(op) \/ op = "Branch"

Terminator(op) == op # "Plain"

(* branchTarget refuses a missing operand and a target outside the code.   *)
TargetOK(code, i) == code[i].target \in DOMAIN code

(* Every invalidCfg of buildControlFlowGraph: a bad target, or a           *)
(* conditional branch as the last instruction.                             *)
CfgRejects(code) ==
  \E i \in DOMAIN code :
    \/ Branches(code[i].op) /\ ~TargetOK(code, i)
    \/ Conditional(code[i].op) /\ i + 1 \notin DOMAIN code

(* Mutant of Leaders: the instruction after a terminator starts no block.   *)
LeadersAreTargetsOnly(code) ==
  ({0} \cap DOMAIN code) \cup {code[i].target : i \in {j \in DOMAIN code : Branches(code[j].op)}}

(* The first instruction, every branch target, and the instruction after   *)
(* every terminator start a block; a unit without code has none.           *)
Leaders(code) ==
  ({0} \cap DOMAIN code)
      \cup {code[i].target : i \in {j \in DOMAIN code : Branches(code[j].op)}}
      \cup {i + 1 : i \in {j \in DOMAIN code :
                             Terminator(code[j].op) /\ j + 1 \in DOMAIN code}}

(* The numbers of S in ascending order, by how many there are up to each.  *)
Ascending(S) ==
  [i \in 1 .. Cardinality(S) |-> CHOOSE x \in S : Cardinality({y \in S : y <= x}) = i]

(* Blocks are numbered from 0 in the order of their leaders.               *)
BlockStart(code, b) == Ascending(Leaders(code))[b + 1]

BlockIds(code) == 0 .. Cardinality(Leaders(code)) - 1

BlockEnd(code, b) ==
  IF b + 1 \in BlockIds(code) THEN BlockStart(code, b + 1) ELSE Size(code)

(* The block whose range holds i: as many leaders up to i, less one.        *)
BlockOf(code, i) == Cardinality({l \in Leaders(code) : l <= i}) - 1

Edge(target, kind) == [target |-> target, kind |-> kind]

(* Mutant of SuccessorsOf: both conditional branches go to their target on  *)
(* true.                                                                   *)
SuccessorsIgnoreSense(code, b) ==
  LET last == BlockEnd(code, b) - 1
      goes(i, kind) == Edge(BlockOf(code, i), kind)
  IN  IF Conditional(code[last].op)
      THEN << goes(code[last].target, "True"), goes(last + 1, "False") >>
      ELSE IF code[last].op = "Branch" THEN << goes(code[last].target, "Branch") >>
      ELSE IF code[last].op = "Plain" /\ last + 1 \in DOMAIN code
           THEN << goes(last + 1, "Fallthrough") >>
           ELSE << >>

(* Successors in the order the code pushes them: a conditional branch      *)
(* lists its target before the instruction after it, whichever of the two  *)
(* is the true side.                                                       *)
SuccessorsOf(code, b) ==
  LET last == BlockEnd(code, b) - 1
      goes(i, kind) == Edge(BlockOf(code, i), kind)
      ins == code[last]
  IN  CASE ins.op = "Branch"  -> << goes(ins.target, "Branch") >>
        [] ins.op = "BrTrue"  -> << goes(ins.target, "True"), goes(last + 1, "False") >>
        [] ins.op = "BrFalse" -> << goes(ins.target, "False"), goes(last + 1, "True") >>
        [] ins.op \in {"Ret", "Abort"} -> << >>
        [] ins.op = "Plain" -> IF last + 1 \in DOMAIN code
                               THEN << goes(last + 1, "Fallthrough") >>
                               ELSE << >>

ExitKindOf(code, b) ==
  LET last == BlockEnd(code, b) - 1 IN
  CASE code[last].op = "Ret" -> "Return"
    [] code[last].op = "Abort" -> "Abort"
    [] code[last].op = "Plain" /\ last + 1 \notin DOMAIN code -> "FallOff"
    [] OTHER -> "None"

Targets(successors) == {successors[i].target : i \in DOMAIN successors}

(* appendPredecessor: sources in ascending order, each once even when a    *)
(* conditional branch reaches the block on both of its edges.              *)
PredecessorsOf(successors, b) ==
  Ascending({p \in DOMAIN successors : b \in Targets(successors[p])})

(* Mutant of ReachableBlocks: only the first edge of a block is followed.   *)
ReachableByFirstEdge(successors) ==
  Flooded([b \in DOMAIN successors |->
             {successors[b][i].target : i \in {1} \cap DOMAIN successors[b]}],
          DOMAIN successors, {0})

(* Mutant of ReachableBlocks: every block that some edge enters.            *)
ReachableByAnyEdge(successors) ==
  {0} \cup UNION {Targets(successors[b]) : b \in DOMAIN successors}

(* The breadth-first flood from block 0.                                   *)
ReachableBlocks(successors) ==
  Flooded([b \in DOMAIN successors |-> Targets(successors[b])], DOMAIN successors, {0})

buildControlFlowGraph(code) ==
  LET ids == BlockIds(code)
      succ == [b \in ids |-> SuccessorsOf(code, b)]
      live == ReachableBlocks(succ)
  IN  [b \in ids |-> [begin        |-> BlockStart(code, b),
                      end          |-> BlockEnd(code, b),
                      successors   |-> succ[b],
                      predecessors |-> PredecessorsOf(succ, b),
                      exit         |-> ExitKindOf(code, b),
                      reachable    |-> b \in live]]

(* The instructions TLC draws code units from: each opcode class with each *)
(* target it may carry, the invalid ones included.                         *)
Instructions(n) ==
  {[op |-> op, target |-> NoTarget] : op \in Opcodes}
    \cup [op : {"Branch", "BrTrue", "BrFalse"}, target : 0 .. n]

CodeUnits(n) == [0 .. n - 1 -> Instructions(n)]
=============================================================================
