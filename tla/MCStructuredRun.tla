-------------------------- MODULE MCStructuredRun --------------------------
(***************************************************************************)
(* Functions for StructuredRun.  Each instruction of the unit is a block;  *)
(* what else the block holds is chosen beside it.                          *)
(***************************************************************************)
EXTENDS StructuredRun

CONSTANT MaxBlocks

(* The instructions a block of a unit of n blocks may end in.              *)
Ends(n, exits) ==
  {i \in Instructions(n) : \/ i.op \in exits /\ i.target = NoTarget
                           \/ i.op \in {"Branch", "BrTrue"} /\ i.target \in 0 .. n - 1}

Follows(c, b) ==
  ({c[b].target} \ {NoTarget}) \cup (IF c[b].op = "BrTrue" THEN {b + 1} ELSE {})

(* The units of n blocks, all of them reachable.                           *)
UnitsOf(n, exits) ==
  {c \in [0 .. n - 1 -> Ends(n, exits)] :
     /\ ~Conditional(c[n - 1].op)
     /\ \A closed \in SUBSET DOMAIN c :
          0 \in closed /\ (\A b \in closed : Follows(c, b) \subseteq closed)
            => closed = DOMAIN c}

(* expression_ir.cpp:1078-1135: the terminator of block b.                 *)
Terminated(code, b, values, condition) ==
  LET i == code[b] IN
  CASE i.op = "Ret" -> [kind |-> "Return", values |-> values]
    [] i.op = "Abort" -> [kind |-> "Abort", values |-> <<Atom(b)>>]
    [] i.op = "Branch" -> [kind |-> "Goto", values |-> << >>, true_target |-> i.target]
    [] i.op = "BrTrue" -> [kind |-> "Conditional", values |-> <<condition>>,
                           true_target |-> i.target, false_target |-> b + 1]

(* Blocks with or without an effect, tests that are atoms, returns without *)
(* a value.  The five blocks of a loop all have their effects.             *)
ControlBodies(c) ==
  {[b \in DOMAIN c |->
      [statements |-> IF b \in busy THEN <<Effect(b)>> ELSE << >>,
       terminator |-> Terminated(c, b, << >>, Atom(b))]] :
     busy \in IF Cardinality(DOMAIN c) = 5 THEN {DOMAIN c} ELSE SUBSET DOMAIN c}

SmallUnits == UNION {UnitsOf(n, {"Ret"}) : n \in 1 .. MaxBlocks}

(* Five blocks, the last of which goes back to the first.                  *)
LoopsOfFive ==
  {c \in UnitsOf(5, {"Ret"}) : c[4] = [op |-> "Branch", target |-> 0]}

ControlUnits == SmallUnits \cup LoopsOfFive
-----------------------------------------------------------------------------
(* Units the arms of whose conditionals may fold: all of fewer blocks, and *)
(* those without a loop of that many.                                      *)
FoldUnits ==
  {c \in UNION {UnitsOf(n, {"Ret", "Abort"}) : n \in 1 .. MaxBlocks} :
     Cardinality(DOMAIN c) = MaxBlocks =>
       \A b \in DOMAIN c : c[b].target # NoTarget => c[b].target > b}

(* Atom(9) is a call that several blocks make.                             *)
Returns(arity) ==
  IF arity = 1 THEN {<<CopyLoc>>, <<booleanLiteral(TRUE)>>, <<booleanLiteral(FALSE)>>, <<Atom(9)>>}
  ELSE {<<booleanLiteral(TRUE), Atom(9)>>, <<Atom(9), CopyLoc>>, <<booleanLiteral(TRUE), CopyLoc>>}

(* What a busy block does: keep an enum test in the local before a         *)
(* conditional, assign to it before a jump, before a return call or drop   *)
(* the reference that block 0 tests.                                       *)
Doing(c, b, drops) ==
  CASE c[b].op = "BrTrue" -> AssignLocal(TestVariant(b))
    [] c[b].op = "Branch" -> AssignLocal(booleanLiteral(b = 1))
    [] c[b].op = "Ret" /\ drops -> Discard(0)
    [] OTHER -> Effect(b)

Blocks(c, op) == {b \in DOMAIN c : c[b].op = op}

FoldBodies(c) ==
  {[b \in DOMAIN c |->
      [statements |-> IF b \in busy THEN <<Doing(c, b, drops)>> ELSE << >>,
       terminator |-> Terminated(c, b, IF c[b].op = "Ret" THEN values[b] ELSE << >>,
                                 IF b \in onLocal THEN CopyLoc ELSE Atom(b))]] :
     busy \in SUBSET DOMAIN c,
     drops \in IF Cardinality(DOMAIN c) < MaxBlocks THEN BOOLEAN ELSE {FALSE}, onLocal \in SUBSET Blocks(c, "BrTrue"),
     values \in UNION {[Blocks(c, "Ret") -> Returns(arity)] : arity \in 1 .. 2}}
AllUnits == ControlUnits \cup FoldUnits
AllBodies(c) ==
  (IF c \in ControlUnits THEN ControlBodies(c) ELSE {}) \cup (IF c \in FoldUnits THEN FoldBodies(c) ELSE {})
-----------------------------------------------------------------------------
(* Single functions, for what goes wrong.                                  *)
Ret == [op |-> "Ret", target |-> NoTarget]
Goto(b) == [op |-> "Branch", target |-> b]
IfTrue(b) == [op |-> "BrTrue", target |-> b]

Unit(instructions) == [b \in 0 .. Len(instructions) - 1 |-> instructions[b + 1]]

(* An enum test is kept, tested, and returned after the arms.              *)
Diamond == {Unit(<<IfTrue(2), Goto(3), Goto(3), Ret>>)}

KeptTest(c) ==
  {[b \in DOMAIN c |->
      [statements |-> CASE b = 0 -> <<AssignLocal(TestVariant(0))>>
                        [] b \in 1 .. 2 -> <<Effect(b)>>
                        [] OTHER -> << >>,
       terminator |-> Terminated(c, b, IF b = 3 THEN <<CopyLoc>> ELSE << >>, CopyLoc)]]}

(* A loop on the way from another loop to the block that follows both.     *)
LoopOnTheWayOut == {Unit(<<IfTrue(3), IfTrue(0), Ret, IfTrue(2), Goto(3)>>)}
=============================================================================
