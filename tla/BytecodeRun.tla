---------------------------- MODULE BytecodeRun ----------------------------
(***************************************************************************)
(* The Move virtual machine running a code unit, as far as control flow    *)
(* goes, beside the graph that buildControlFlowGraph made of it.  The      *)
(* machine is not under src/: it is the meaning the graph has to keep, and *)
(* knows nothing of blocks.                                                *)
(***************************************************************************)
EXTENDS ControlFlow

CONSTANT Programs   \* the code units that may be loaded

ASSUME ProgramsAssumption ==
  \A c \in Programs :
    /\ IsFiniteSet(DOMAIN c) /\ DOMAIN c = 0 .. Size(c) - 1
    /\ \A i \in DOMAIN c : c[i].op \in Opcodes

VARIABLES code, cfg, pc, cond, status

vars == <<code, cfg, pc, cond, status>>

Init == /\ code \in Programs
        /\ cfg = << >>
        /\ pc = 0
        /\ cond = FALSE
        /\ status = "build"

(* Without code there is nothing to run.                                   *)
Build ==
  /\ status = "build"
  /\ ~CfgRejects(code)
  /\ cfg' = buildControlFlowGraph(code)
  /\ status' = IF DOMAIN code = {} THEN "empty" ELSE "run"
  /\ UNCHANGED <<code, pc, cond>>

Reject ==
  /\ status = "build"
  /\ CfgRejects(code)
  /\ status' = "rejected"
  /\ UNCHANGED <<code, cfg, pc, cond>>

Running(ops) == status = "run" /\ code[pc].op \in ops

StepPlain ==
  /\ Running({"Plain"})
  /\ IF pc + 1 \in DOMAIN code
     THEN pc' = pc + 1 /\ UNCHANGED status
     ELSE status' = "FallOff" /\ UNCHANGED pc
  /\ UNCHANGED <<code, cfg, cond>>

Jump ==
  /\ Running({"Branch"})
  /\ pc' = code[pc].target
  /\ UNCHANGED <<code, cfg, cond, status>>

Test(value) ==
  /\ Running({"BrTrue", "BrFalse"})
  /\ cond' = value
  /\ pc' = IF value = (code[pc].op = "BrTrue") THEN code[pc].target ELSE pc + 1
  /\ UNCHANGED <<code, cfg, status>>

Finish ==
  /\ Running({"Ret", "Abort"})
  /\ status' = IF code[pc].op = "Ret" THEN "Return" ELSE "Abort"
  /\ UNCHANGED <<code, cfg, pc, cond>>

Next == \/ Build \/ Reject \/ StepPlain \/ Jump \/ Finish
        \/ \E value \in BOOLEAN : Test(value)

Spec == Init /\ [][Next]_vars

-----------------------------------------------------------------------------
Successor(b) == Targets(cfg[b].successors)

(* cfg.cpp:71-169.  The graph is a faithful abstraction of the code: every *)
(* run of the bytecode is a walk of it, on the edge the condition picks,   *)
(* and ends where and how the graph says it may; a graph has a block to    *)
(* start in whenever there is code.                                        *)
Walk == INSTANCE BlockWalk WITH at <- IF status \in {"build", "rejected", "empty"}
                                      THEN 0 ELSE BlockOf(code, pc)
ImplementsBlockWalk == Walk!Spec

(* A set of blocks that begins where the function does and that no edge    *)
(* leaves.                                                                 *)
KeepsRunsInside(S) == 0 \in S /\ \A b \in S : Successor(b) \subseteq S

(* cfg.cpp:155-166.  The flood marks the blocks that edges join to block   *)
(* 0, and no other: they are the least set that edges do not lead out of.  *)
(* No run enters a block left unmarked: the analyses skip those, so a run  *)
(* inside one would be a run of code nobody analysed.                      *)
ReachabilityIsExact ==
  status = "run" =>
    LET marked == {b \in DOMAIN cfg : cfg[b].reachable}
    IN  /\ BlockOf(code, pc) \in marked
        /\ KeepsRunsInside(marked)
        /\ \A S \in SUBSET DOMAIN cfg : KeepsRunsInside(S) => marked \subseteq S

(* cfg.cpp:75-103, 149-153.  The blocks partition the code, none is empty, *)
(* control enters one only at its first and leaves it only at its last     *)
(* instruction, and the predecessor lists are the successor lists          *)
(* reversed, without repetition.  A unit of no code has no block.          *)
BlocksAreBasic ==
  status = "empty" \/ (status = "run" /\ pc = 0) =>
    /\ \A i \in DOMAIN code : \E b \in DOMAIN cfg :
         /\ i \in cfg[b].begin .. cfg[b].end - 1
         /\ \A c \in DOMAIN cfg \ {b} : i \notin cfg[c].begin .. cfg[c].end - 1
         /\ Terminator(code[i].op) => i = cfg[b].end - 1
         /\ Branches(code[i].op) =>
              \E c \in DOMAIN cfg : cfg[c].begin = code[i].target
    /\ \A b \in DOMAIN cfg :
         /\ cfg[b].begin \in DOMAIN code /\ cfg[b].begin < cfg[b].end
         /\ ToSet(cfg[b].predecessors) = {p \in DOMAIN cfg : b \in Successor(p)}
         /\ IsInjective(cfg[b].predecessors)
         /\ (cfg[b].exit = "None") <=> (cfg[b].successors # << >>)

=============================================================================
