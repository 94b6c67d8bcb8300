---------------------------- MODULE StacklessLift ----------------------------
(***************************************************************************)
(* src/stackless_ir.cpp: every instruction of a block is given the values  *)
(* it takes from the operand stack and new ones for those it leaves there. *)
(*                                                                         *)
(* An instruction is a record of its opcode, an argument (a local, a       *)
(* target) and its arity: how many values the tables of the module say it  *)
(* takes and leaves, where the opcode alone does not.  The generic form of *)
(* an opcode is the opcode itself here.                                    *)
(***************************************************************************)
EXTENDS ControlFlow

CONSTANT LastValue   \* the largest ValueId

ASSUME LastValueAssumption == LastValue \in Nat

Loads == {"LdU8", "LdU16", "LdU32", "LdU64", "LdU128", "LdU256",
          "LdI8", "LdI16", "LdI32", "LdI64", "LdI128", "LdI256", "LdTrue", "LdFalse"}
Casts == {"CastU8", "CastU16", "CastU32", "CastU64", "CastU128", "CastU256",
          "CastI8", "CastI16", "CastI32", "CastI64", "CastI128", "CastI256"}
Locals == {"CopyLoc", "MoveLoc", "MutBorrowLoc", "ImmBorrowLoc"}
Arithmetic == {"Add", "Sub", "Mul", "Mod", "Div", "Shl", "Shr"}
BitOps == {"BitOr", "BitAnd", "Xor"}
Comparisons == {"Eq", "Neq", "Lt", "Gt", "Le", "Ge"}
Borrows == {"MutBorrowGlobal", "ImmBorrowGlobal", "MutBorrowField", "ImmBorrowField",
            "MutBorrowVariantField", "ImmBorrowVariantField"}

Consumers == {"Pop", "BrTrue", "BrFalse", "StLoc", "Abort"}
Producers == Loads \cup Locals \cup {"LdConst"}
OneForOne == Casts \cup Borrows \cup {"Not", "Negate", "FreezeRef", "ReadRef", "Exists", "TestVariant",
                                      "MoveFrom", "VecLen", "VecPopBack"}
OneForTwo == Arithmetic \cup BitOps \cup Comparisons \cup {"Or", "And", "VecImmBorrow", "VecMutBorrow"}
PairConsumers == {"MoveTo", "WriteRef", "VecPushBack", "AbortMsg"}
AsTablesSay == {"Ret", "Call", "CallClosure", "Pack", "PackVariant", "PackClosure", "VecPack",
                "Unpack", "UnpackVariant", "VecUnpack"}

AllOps == Consumers \cup Producers \cup OneForOne \cup OneForTwo \cup PairConsumers \cup AsTablesSay
          \cup {"VecSwap", "Branch", "Nop"}

(* instructionStackEffect: <<pops, pushes>>.                               *)
StackEffect(i) ==
  CASE i.op \in Consumers -> <<1, 0>>
    [] i.op \in Producers -> <<0, 1>>
    [] i.op \in OneForOne -> <<1, 1>>
    [] i.op \in OneForTwo -> <<2, 1>>
    [] i.op \in PairConsumers -> <<2, 0>>
    [] i.op = "VecSwap" -> <<3, 0>>
    [] i.op \in {"Branch", "Nop"} -> <<0, 0>>
    [] i.op \in AsTablesSay -> i.arity

(* What cfg.cpp sees of an instruction.                                    *)
FlowOf(code) ==
  [i \in DOMAIN code |->
     [target |-> IF code[i].op \in {"Branch", "BrTrue", "BrFalse"} THEN code[i].arg ELSE NoTarget,
      op |-> CASE code[i].op \in Opcodes -> code[i].op
               [] code[i].op = "AbortMsg" -> "Abort"
               [] OTHER -> "Plain"]]

(* An instruction with facts of it added.                                  *)
Annotated(i, facts) == [x \in DOMAIN i \cup DOMAIN facts |-> IF x \in DOMAIN i THEN i[x] ELSE facts[x]]

BlockCode(code, block) ==
  [k \in 1 .. block.end - block.begin |-> Annotated(code[block.begin + k - 1], [at |-> block.begin + k - 1])]

(* The height of the stack after so many instructions of a block, or -1    *)
(* once it has underflown.                                                 *)
Heights(instructions) ==
  LET height[k \in 0 .. Len(instructions)] ==
        IF k = 0 THEN 0
        ELSE LET before == height[k - 1]
                 effect == StackEffect(instructions[k])
             IN  IF before < effect[1] THEN -1 ELSE before - effect[1] + effect[2]
  IN  height
HeightAfter(instructions) == Heights(instructions)[Len(instructions)]

(* Mutant of StackUsageOK: what is left on the stack is not looked at.     *)
StackUsageLoose(code, cfg) == \A b \in DOMAIN cfg : HeightAfter(BlockCode(code, cfg[b])) >= 0

(* validateStackUsage: no block underflows or leaves values for the next.  *)
StackUsageOK(code, cfg) == \A b \in DOMAIN cfg : HeightAfter(BlockCode(code, cfg[b])) = 0

NewValues(next, count) == [k \in 1 .. count |-> next + k - 1]

LiftInstruction(s, i) ==
  LET pops == StackEffect(i)[1]
      kept == Len(s.stack) - pops
      outputs == NewValues(s.next, StackEffect(i)[2])
  IN  [stack |-> SubSeq(s.stack, 1, kept) \o outputs,
       next  |-> s.next + Len(outputs),
       done  |-> Append(s.done, Annotated(i, [inputs  |-> SubSeq(s.stack, kept + 1, Len(s.stack)),
                                               outputs |-> outputs]))]

(* A block of liftToStackless: values are numbered on from next.           *)
LiftBlock(instructions, next) ==
  FoldLeft(LiftInstruction, [stack |-> << >>, next |-> next, done |-> << >>], instructions)
=============================================================================
