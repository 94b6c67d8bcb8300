----------------------------- MODULE RecoveryRun -----------------------------
(***************************************************************************)
(* A function from its code to the source of its blocks - graph, stack     *)
(* check, stackless lift, expression recovery - and then both run, block   *)
(* by block, against the same environment: it decides the outcome of every *)
(* test and which instruction aborts.                                      *)
(***************************************************************************)
EXTENDS ExpressionRecovery

CONSTANTS Programs,   \* the functions: their code, and whether it is run
          LocalIds,
          LogBound    \* a block is entered while fewer effects are logged

VARIABLES code, runs, cfg,
          lifted, next,         \* blocks lifted so far, and the next value
          block, at, r, values, \* what is being recovered
          recovered,            \* blocks recovered so far
          machine, source,      \* the two runs
          phase

vars == <<code, runs, cfg, lifted, next, block, at, r, values, recovered, machine, source, phase>>

-----------------------------------------------------------------------------
(* The meaning of instructions (external).  A value is a tuple that tells  *)
(* what made it: "T" and "F" are truth values.                             *)
Flag(truth) == IF truth THEN <<"T">> ELSE <<"F">>
Truth(v) == v[1] = "T"
Made(i, k, args) == <<"V", i.at, k, args>>

Tests == Comparisons \cup {"TestVariant", "Exists"}
Mutates == {"Call", "CallClosure", "WriteRef", "VecPushBack", "VecPopBack", "VecSwap", "MoveFrom", "MoveTo"}
CanAbort(op) == effectOf(op) # "Pure" \/ op \in Casts \cup {"Negate"}
Predicate == 0   \* the argument of a call whose result is a truth value
Decides(i) == i.op \in Tests \/ (i.op = "Call" /\ i.arg = Predicate)

(* What a run is: its locals, the names it has bound, what it did so far,  *)
(* the last write to memory, and how it ended.                             *)
Begin == [block |-> 0, locals |-> [l \in LocalIds |-> Made([at |-> l], 0, << >>)], names |-> << >>, log |-> << >>,
          memory |-> NoTarget, stopped |-> FALSE, values |-> << >>]

(* Instruction i on its arguments: the run after it, with the results in   *)
(* its values.  Reading a local tells what memory it was read under.       *)
Perform(i, args, s, answers) ==
  LET results ==
        CASE i.op = "LdTrue" -> <<Flag(TRUE)>>
          [] i.op = "LdFalse" -> <<Flag(FALSE)>>
          [] i.op \in {"CopyLoc", "MoveLoc"} -> <<IF s.locals[i.arg][1] = "V" THEN Made(i, s.memory, s.locals[i.arg]) ELSE s.locals[i.arg]>>
          [] i.op = "Not" -> <<Flag(~ Truth(args[1]))>>
          [] i.op = "And" -> <<Flag(Truth(args[1]) /\ Truth(args[2]))>>
          [] i.op = "Or" -> <<Flag(Truth(args[1]) \/ Truth(args[2]))>>
          [] Decides(i) -> <<Flag(i.at \in answers.true)>>
          [] OTHER -> [k \in 1 .. i.arity[2] |-> Made(i, k, args)]
      aborts == i.at = answers.aborts
  IN  [s EXCEPT !.values = results,
                !.stopped = aborts,
                !.memory = IF i.op \in Mutates THEN i.at ELSE @,
                !.log = IF aborts \/ effectOf(i.op) # "Pure" THEN Append(@, [what |-> i.op, at |-> i.at, values |-> args]) ELSE @]

(* A bytecode instruction: it takes its arguments from the stack.          *)
Step(s, i, answers) ==
  LET effect == StackEffect(i)
      kept == Len(s.stack) - effect[1]
      args == SubSeq(s.stack, kept + 1, Len(s.stack))
      below == SubSeq(s.stack, 1, kept)
  IN  IF s.run.stopped \/ i.op \in {"Nop", "Branch"} THEN s
      ELSE CASE i.op = "Pop" -> [s EXCEPT !.stack = below]
             [] i.op = "StLoc" -> [run |-> [s.run EXCEPT !.locals[i.arg] = args[1]], stack |-> below]
             [] i.op \in {"Ret", "BrTrue", "BrFalse"} -> [run |-> [s.run EXCEPT !.values = args], stack |-> below]
             [] OTHER -> LET done == Perform(i @@ [arity |-> effect], args, s.run, answers)
                         IN  [run |-> done, stack |-> below \o done.values]

(* Where control goes after a block, or what the function gives back.      *)
Leave(run, kind, target) ==
  IF run.stopped THEN run
  ELSE CASE kind = "Return" -> [run EXCEPT !.stopped = TRUE, !.log = Append(@, [what |-> "Return", at |-> NoTarget, values |-> run.values])]
         [] kind = "Abort" -> [run EXCEPT !.stopped = TRUE, !.log = Append(@, [what |-> "Abort", at |-> NoTarget, values |-> run.values])]
         [] OTHER -> [run EXCEPT !.block = target]

RunBytecode(run, answers) ==
  LET instructions == BlockCode(code, cfg[run.block])
      last == Last(instructions)
      plain == IF last.op \in {"Abort", "AbortMsg"} THEN Front(instructions) ELSE instructions
      end == FoldLeft(LAMBDA s, i : Step(s, i, answers), [run |-> run, stack |-> << >>], plain)
      taken == Truth(end.run.values[1]) = (last.op = "BrTrue")
  IN  CASE last.op = "Ret" -> Leave(end.run, "Return", 0)
        [] last.op \in {"Abort", "AbortMsg"} -> Leave([end.run EXCEPT !.values = end.stack], "Abort", 0)
        [] last.op = "Branch" -> Leave(end.run, "Goto", BlockOf(FlowOf(code), last.arg))
        [] last.op \in {"BrTrue", "BrFalse"} /\ ~ end.run.stopped ->
             Leave(end.run, "Goto", BlockOf(FlowOf(code), IF taken THEN last.arg ELSE last.at + 1))
        [] OTHER -> Leave(end.run, "Goto", run.block + 1)

(* The meaning of source (external): operands from left to right, && and   *)
(* || only as far as needed, what a closure captures when it is called.    *)
Postponed(e) == e.op = "PackClosure" /\ \E k \in DOMAIN e.operands : hasObservableEvaluation(e.operands[k])

RECURSIVE Eval(_, _, _), EvalAll(_, _, _)
EvalAll(es, s, answers) ==
  IF es = << >> THEN [s EXCEPT !.values = << >>]
  ELSE LET first == Eval(Head(es), s, answers)
           rest == EvalAll(Tail(es), first, answers)
       IN  IF first.stopped \/ rest.stopped THEN [rest EXCEPT !.stopped = TRUE]
           ELSE [rest EXCEPT !.values = <<first.values[1]>> \o @]

Eval(e, s, answers) ==
  IF s.stopped THEN s
  ELSE IF e.atom # NoValue THEN [s EXCEPT !.values = <<s.names[e.atom]>>]
  ELSE IF Postponed(e) THEN [s EXCEPT !.values = <<Made(e, 1, << >>)>>]
  ELSE IF e.op \in {"And", "Or"} /\ rendersAsInfixBinary(e)
       THEN LET left == Eval(e.operands[1], s, answers)
            IN  IF left.stopped \/ Truth(left.values[1]) = (e.op = "Or") THEN left
                ELSE LET right == Eval(e.operands[2], left, answers)
                     IN  IF right.stopped THEN right ELSE [right EXCEPT !.values = <<Flag(Truth(right.values[1]))>>]
  ELSE LET ready == EvalAll(e.operands, s, answers)
       IN  IF ready.stopped THEN ready ELSE Perform(e, ready.values, ready, answers)

Do(s, statement, answers) ==
  IF s.stopped THEN s
  ELSE LET done == Eval(statement.expression, s, answers)
           bind == [k \in ToSet(statement.values) |-> done.values[IndexFirstSubSeq(<<k>>, statement.values)]] @@ done.names
       IN  IF done.stopped THEN done
           ELSE CASE statement.kind \in {"BindTemporary", "Destructure"} -> [done EXCEPT !.names = bind]
                  [] statement.kind = "AssignLocal" -> [done EXCEPT !.locals[statement.arg] = done.values[1]]
                  [] statement.kind \in {"Discard", "Effect"} -> done

RunSource(run, answers) ==
  LET recoveredBlock == recovered[run.block]
      terminator == recoveredBlock.terminator
      done == FoldLeft(LAMBDA s, statement : Do(s, statement, answers), run, recoveredBlock.statements)
      end == IF done.stopped THEN done ELSE EvalAll(terminator.values, done, answers)
      target == IF terminator.kind = "Conditional" /\ ~ end.stopped /\ ~ Truth(end.values[1])
                THEN terminator.false_target ELSE terminator.true_target
  IN  Leave(end, terminator.kind, IF terminator.kind \in {"Return", "Abort"} THEN 0 ELSE target)
-----------------------------------------------------------------------------
Init ==
  /\ \E p \in Programs : code = p.code /\ runs = p.runs
  /\ cfg = << >> /\ lifted = << >> /\ next = 0
  /\ block = 0 /\ at = 1 /\ r = Started /\ values = << >> /\ recovered = << >>
  /\ machine = << >> /\ source = << >>
  /\ phase = "build"

Build ==
  /\ phase = "build"
  /\ cfg' = buildControlFlowGraph(FlowOf(code))
  /\ phase' = IF StackUsageOK(code, cfg') THEN "lift" ELSE "refused"
  /\ UNCHANGED <<code, runs, lifted, next, block, at, r, values, recovered, machine, source>>

Lift ==
  /\ phase = "lift"
  /\ LET done == LiftBlock(BlockCode(code, cfg[block]), next) IN
       IF done.next > LastValue + 1
       THEN phase' = "refused" /\ UNCHANGED <<lifted, next, block>>
       ELSE /\ lifted' = lifted @@ (block :> done.done)
            /\ next' = done.next
            /\ IF block + 1 \in DOMAIN cfg
               THEN block' = block + 1 /\ UNCHANGED phase
               ELSE block' = 0 /\ phase' = "recover"
  /\ UNCHANGED <<code, runs, cfg, at, r, values, recovered, machine, source>>

RecoverInstruction ==
  /\ phase = "recover" /\ at \in DOMAIN lifted[block]
  /\ LET done == Recover(cfg, block, r, values, lifted[block][at]) IN
       /\ r' = done.r /\ values' = done.values
       /\ phase' = IF done.r.failed THEN "failed" ELSE phase
  /\ at' = at + 1
  /\ UNCHANGED <<code, runs, cfg, lifted, next, block, recovered, machine, source>>

RecoverEnd ==
  /\ phase = "recover" /\ at \notin DOMAIN lifted[block]
  /\ LET done == Ended(cfg, block, r) IN
       IF done.failed
       THEN phase' = "failed" /\ UNCHANGED <<block, at, r, recovered>>
       ELSE /\ recovered' = recovered @@ (block :> done)
            /\ block' = block + 1 /\ at' = 1 /\ r' = Started
            /\ phase' = IF block + 1 \in DOMAIN cfg THEN phase ELSE "written"
  /\ UNCHANGED <<code, runs, cfg, lifted, next, values, machine, source>>

Enter ==
  /\ phase = "written" /\ runs
  /\ machine' = Begin /\ source' = Begin
  /\ phase' = "run"
  /\ UNCHANGED <<code, runs, cfg, lifted, next, block, at, r, values, recovered>>

BlockInstructions == ToSet(BlockCode(code, cfg[machine.block]))

RunBlock(answers) ==
  /\ phase = "run" /\ ~ machine.stopped /\ ~ source.stopped /\ machine.block = source.block
  /\ Len(machine.log) < LogBound
  /\ machine' = RunBytecode(machine, answers)
  /\ source' = RunSource(source, answers)
  /\ UNCHANGED <<code, runs, cfg, lifted, next, block, at, r, values, recovered, phase>>

Run ==
  \E true \in SUBSET {i.at : i \in {j \in BlockInstructions : Decides(j)}} :
  \E aborts \in {NoTarget} \cup {i.at : i \in {j \in BlockInstructions : CanAbort(j.op)}} :
    RunBlock([true |-> true, aborts |-> aborts])

Next == Build \/ Lift \/ RecoverInstruction \/ RecoverEnd \/ Enter \/ (phase = "run" /\ Run)

Spec == Init /\ [][Next]_vars
-----------------------------------------------------------------------------
RECURSIVE Parts(_)
Parts(e) == {e} \cup UNION {Parts(e.operands[k]) : k \in DOMAIN e.operands}

Expressions ==
  UNION {UNION {Parts(s.expression) : s \in ToSet(recovered[b].statements)}
           \cup UNION {Parts(e) : e \in ToSet(recovered[b].terminator.values)} : b \in DOMAIN recovered}

(* expression_ir.cpp:923-932, 975, 1113; stackless_ir.cpp:300.  A function *)
(* whose use of the stack was accepted is recovered: none of the checks of *)
(* expression recovery fires.  And no two values of it have one name.      *)
AcceptedIsRecovered ==
  /\ phase # "failed"
  /\ phase = "recover" =>
       LET outputs == FlattenSeq([b \in 1 .. Cardinality(DOMAIN lifted) |->
                                    FlattenSeq([k \in DOMAIN lifted[b - 1] |-> lifted[b - 1][k].outputs])])
       IN  IsInjective(outputs)

(* What expression_ir.cpp is known to get wrong: an operand of an eager    *)
(* && or || that casts or negates may abort, but is written as one that    *)
(* may be left out (312-316, 25-73); what a closure captures is evaluated  *)
(* when it is called, not where it was packed (527-557).                   *)
AbortSkipped ==
  \E e \in Expressions : /\ e.op \in {"And", "Or"} /\ rendersAsInfixBinary(e)
                         /\ \E p \in Parts(e.operands[2]) : p.op \in Casts \cup {"Negate"}
CapturePostponed == \E e \in Expressions : Postponed(e)

SameSoFar == /\ machine.log = source.log /\ machine.stopped = source.stopped
             /\ ~ machine.stopped => machine.block = source.block /\ machine.locals = source.locals

(* Apart from these, what was accepted is recovered and the source of the  *)
(* blocks does what the bytecode does: the same effects on the same values *)
(* in the same order, the same aborts, the same successor, the same locals *)
(* (expression_ir.cpp:898-1132).                                           *)
RecoveredDoesWhatBytecodeDoesElse ==
  /\ AcceptedIsRecovered
  /\ phase = "run" /\ ~ AbortSkipped /\ ~ CapturePostponed => SameSoFar

(* tests/expression_ir_tests.cpp:164                                       *)
(* "direct_boolean_bytecode_preserves_eager_operand_evaluation": what an   *)
(* operand of a boolean instruction does is done in the source as well.    *)
RecoveredDoesWhatBytecodeDoes ==
  phase = "run" /\ ~ CapturePostponed => SameSoFar

(* Move's grammar (external): the ranks of its operators, all of them      *)
(* grouping to the left, and unary ones before any.                        *)
Rank(op) ==
  CASE op = "Or" -> 2 [] op = "And" -> 3 [] op \in Comparisons -> 4 [] op = "BitOr" -> 6 [] op = "Xor" -> 7
    [] op = "BitAnd" -> 8 [] op \in {"Shl", "Shr"} -> 9 [] op \in {"Add", "Sub"} -> 10
    [] op \in {"Mul", "Mod", "Div"} -> 11

RECURSIVE ReadUnary(_), ReadBinary(_, _), ReadOn(_, _, _)
ReadUnary(tokens) ==
  CASE Head(tokens) = "(" ->
         LET inner == ReadBinary(Tail(tokens), 0) IN [tree |-> inner.tree, rest |-> Tail(inner.rest)]
    [] Head(tokens) \in {"Not", "Negate"} ->
         LET inner == ReadUnary(Tail(tokens)) IN [tree |-> <<Head(tokens), inner.tree>>, rest |-> inner.rest]
    [] OTHER -> [tree |-> <<Head(tokens)>>, rest |-> Tail(tokens)]
ReadOn(left, tokens, rank) ==
  IF tokens = << >> \/ Head(tokens) = ")" \/ Rank(Head(tokens)) <= rank THEN [tree |-> left, rest |-> tokens]
  ELSE LET right == ReadBinary(Tail(tokens), Rank(Head(tokens)))
       IN  ReadOn(<<Head(tokens), left, right.tree>>, right.rest, rank)
ReadBinary(tokens, rank) ==
  LET first == ReadUnary(tokens) IN ReadOn(first.tree, first.rest, rank)

RECURSIVE Tree(_)
Tree(e) ==
  IF rendersAsInfixBinary(e) THEN <<e.op, Tree(e.operands[1]), Tree(e.operands[2])>>
  ELSE IF e.op \in {"Not", "Negate"} THEN <<e.op, Tree(e.operands[1])>>
  ELSE <<"term">>

(* expression_ir.cpp:255-339, 1163-1171.  What is written for an           *)
(* expression, read by the rules of Move, is that expression again.        *)
SourceReadsBack ==
  phase = "written" =>
    \A e \in Expressions : ReadBinary(Written(e), 0) = [tree |-> Tree(e), rest |-> << >>]
=============================================================================
