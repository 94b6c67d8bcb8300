------------------------- MODULE ExpressionRecovery -------------------------
(***************************************************************************)
(* src/expression_ir.cpp: the stackless instructions of a block become     *)
(* statements over expression trees, and these are written as source.      *)
(***************************************************************************)
EXTENDS StacklessLift

CONSTANT NoValue   \* an expression that is not the name of a value

(* effectOf.  A call, a move_from or a pop_back counts as MayAbort.        *)
effectOf(op) ==
  CASE op \in Loads \cup Locals \cup Casts \cup BitOps \cup Comparisons
              \cup {"FreezeRef", "Not", "Negate", "Or", "And"} -> "Pure"
    [] op \in Arithmetic \cup Borrows
              \cup {"LdConst", "ReadRef", "Call", "CallClosure", "Pack", "PackVariant", "Unpack", "UnpackVariant",
                    "TestVariant", "PackClosure", "VecPack", "VecLen", "VecImmBorrow", "VecMutBorrow",
                    "VecPopBack", "VecUnpack", "Exists", "MoveFrom"} -> "MayAbort"
    [] OTHER -> "SideEffect"

Expression(i, operands) ==
  [op |-> i.op, at |-> i.at, arg |-> i.arg, arity |-> StackEffect(i), operands |-> operands,
   effect |-> effectOf(i.op), atom |-> NoValue]

ValueName(v, at) ==
  [op |-> "Nop", at |-> at, arg |-> NoTarget, arity |-> <<0, 1>>, operands |-> << >>,
   effect |-> "Pure", atom |-> v]

Statement(kind, i, values, e) == [kind |-> kind, at |-> i.at, arg |-> i.arg, values |-> values, expression |-> e]

Started == [pending |-> << >>, statements |-> << >>, terminator |-> << >>, failed |-> FALSE]

(* Outputs that are given names at once: those of unpacking.               *)
Materializes(i) == i.op \in {"Unpack", "UnpackVariant", "VecUnpack"}

StatementBoundary(i) == i.outputs = << >> \/ Materializes(i) \/ Len(i.outputs) > 1

(* Mutant of Spilled: only the top one of the values that stay is bound.   *)
SpilledTop(r, values, i) ==
  LET open == SelectSeq(SubSeq(r.pending, 1, Len(r.pending) - Len(i.inputs)),
                        LAMBDA v : values[v].atom = NoValue)
  IN  IF open = << >> THEN open ELSE <<Last(open)>>

(* Before a statement, the values it leaves on the stack are bound, the    *)
(* oldest first, unless they have a name already.                          *)
Spilled(r, values, i) ==
  SelectSeq(SubSeq(r.pending, 1, Len(r.pending) - Len(i.inputs)), LAMBDA v : values[v].atom = NoValue)

Edges(cfg, b, kind) == {e \in ToSet(cfg[b].successors) : e.kind = kind}

(* What ends a block: its last instruction, or the edge out of it.         *)
TerminatorOf(cfg, b, i, operands) ==
  CASE i.op = "Ret" -> [kind |-> "Return", values |-> operands]
    [] i.op \in {"Abort", "AbortMsg"} -> [kind |-> "Abort", values |-> operands]
    [] i.op = "Branch" -> [kind |-> "Goto", values |-> << >>, true_target |-> cfg[b].successors[1].target]
    [] i.op \in {"BrTrue", "BrFalse"} ->
         [kind |-> "Conditional", values |-> operands,
          true_target  |-> (CHOOSE e \in Edges(cfg, b, "True") : TRUE).target,
          false_target |-> (CHOOSE e \in Edges(cfg, b, "False") : TRUE).target]

FallsThrough(cfg, b) ==
  IF Len(cfg[b].successors) = 1
  THEN [kind |-> "Goto", values |-> << >>, true_target |-> cfg[b].successors[1].target]
  ELSE << >>

(* One round of the loop of recoverExpressions.  r is what has been        *)
(* recovered of the block, values the expressions of all values.           *)
Recover(cfg, b, r, values, i) ==
  LET kept == Len(r.pending) - Len(i.inputs)
      disagrees == kept < 0 \/ SubSeq(r.pending, kept + 1, Len(r.pending)) # i.inputs
      spilled == IF StatementBoundary(i) THEN Spilled(r, values, i) ELSE << >>
      named == [v \in ToSet(spilled) |-> ValueName(v, i.at)] @@ values
      operands == [k \in DOMAIN i.inputs |-> named[i.inputs[k]]]
      e == Expression(i, operands)
      bound == r.statements \o [k \in DOMAIN spilled |-> Statement("BindTemporary", i, <<spilled[k]>>, values[spilled[k]])]
      keep == SubSeq(r.pending, 1, kept)
      inline == ~ StatementBoundary(i)
      stated(kind, x) == Append(bound, Statement(kind, i, i.outputs, x))
  IN  IF disagrees THEN [r |-> [r EXCEPT !.failed = TRUE], values |-> values]
      ELSE [values |-> (IF inline THEN i.outputs[1] :> e
                        ELSE [v \in ToSet(i.outputs) |-> ValueName(v, i.at)]) @@ named,
            r |-> [r EXCEPT
                     !.pending = keep \o i.outputs,
                     !.statements =
                       CASE inline \/ i.op = "Nop" \/ Terminator(FlowOf(<<i>>)[1].op) -> bound
                         [] i.outputs # << >> -> stated("Destructure", e)
                         [] i.op = "StLoc" -> stated("AssignLocal", operands[1])
                         [] i.op = "Pop" -> stated("Discard", operands[1])
                         [] OTHER -> stated("Effect", e),
                     !.terminator = IF Terminator(FlowOf(<<i>>)[1].op) THEN TerminatorOf(cfg, b, i, operands) ELSE @]]

(* The end of a block: nothing may remain on the stack.                    *)
Ended(cfg, b, r) ==
  [r EXCEPT !.failed = @ \/ r.pending # << >>,
            !.terminator = IF @ = << >> THEN FallsThrough(cfg, b) ELSE @]
-----------------------------------------------------------------------------
(* How an expression is written: which booleans are evaluated eagerly, and *)
(* where parentheses stand.                                                *)
Symbols == Arithmetic \cup BitOps \cup Comparisons \cup {"Or", "And"}

binaryPrecedence(op) ==
  CASE op = "Or" -> 1 [] op = "And" -> 2 [] op \in Comparisons -> 3 [] op = "BitOr" -> 4 [] op = "Xor" -> 5
    [] op = "BitAnd" -> 6 [] op \in {"Shl", "Shr"} -> 7 [] op \in {"Add", "Sub"} -> 8
    [] op \in {"Mul", "Mod", "Div"} -> 9

RECURSIVE hasObservableEvaluation(_)
hasObservableEvaluation(e) ==
  e.effect # "Pure" \/ \E k \in DOMAIN e.operands : hasObservableEvaluation(e.operands[k])

(* Mutant of rendersAsInfixBinary: only the operands themselves count, not *)
(* what they are made of.                                                  *)
rendersAsInfixShallow(e) ==
  /\ e.op \in Symbols
  /\ e.op \in {"And", "Or"} => \A k \in DOMAIN e.operands : e.operands[k].effect = "Pure"

(* No expression of this stage is short_circuit: that comes of structuring. *)
rendersAsInfixBinary(e) ==
  /\ e.op \in Symbols
  /\ e.op \in {"And", "Or"} => \A k \in DOMAIN e.operands : ~ hasObservableEvaluation(e.operands[k])

Parenthesized(tokens) == <<"(">> \o tokens \o <<")">>

(* Mutant of NeedsParentheses: a right operand of the same rank has none.  *)
NeedsParenthesesLoose(rank, parent, right) == rank < parent

NeedsParentheses(rank, parent, right) == rank < parent \/ (right /\ rank = parent)

RECURSIVE Written(_), Infix(_, _, _)
Infix(e, parent, right) ==
  LET rank == binaryPrecedence(e.op)
      child(k) == IF rendersAsInfixBinary(e.operands[k]) THEN Infix(e.operands[k], rank, k = 2)
                  ELSE Written(e.operands[k])
      tokens == child(1) \o <<e.op>> \o child(2)
  IN  IF NeedsParentheses(rank, parent, right) THEN Parenthesized(tokens) ELSE tokens

(* What an expression is written as, down to the names, calls, casts and   *)
(* block expressions, which stand for themselves.                          *)
Written(e) ==
  CASE rendersAsInfixBinary(e) -> Infix(e, 0, FALSE)
    [] e.op \in {"Not", "Negate"} ->
         LET operand == e.operands[1]
             tokens == Written(operand)
         IN  <<e.op>> \o (IF operand.op \in Symbols \/ (e.op = "Negate" /\ operand.op = "Negate")
                         THEN Parenthesized(tokens) ELSE tokens)
    [] OTHER -> <<"term">>
=============================================================================
