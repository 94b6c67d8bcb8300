--------------------------- MODULE StructuredRun ---------------------------
(***************************************************************************)
(* A function and the source emitted for it, structured or dispatched, run *)
(* side by side.  Both are tasks on a stack; a task either rewrites the stack, out *)
(* of sight, or waits with an event: the test or call of an atom, an       *)
(* effect, a return with its values, an abort.  The environment answers    *)
(* atoms; both runs get the same answer.                                   *)
(***************************************************************************)
EXTENDS Emitter

CONSTANTS Units,     \* code units
          Bodies(_)  \* of a unit: what its blocks may hold, see Structurer

VARIABLES function,  \* [code, blocks]: a unit and what its blocks hold
          g,         \* the structurer's inputs (see Structurer)
          tree,      \* what structureControlFlow returned; its root, what is emitted
          bytecode, source,   \* the two runs: [todo, local, state]
          phase

vars == <<function, g, tree, bytecode, source, phase>>

(* --- the meaning of blocks, regions and expressions (external) --------- *)

Task(kind, fields) == [kind |-> kind] @@ fields

Block(b) == Task("Block", [block |-> b])

(* Evaluate e, then go on with yes or no.                                  *)
Test(e, yes, no) == Task("Test", [expression |-> e, yes |-> yes, no |-> no])

Assign(e) == Task("Assign", [expression |-> e])

(* Return the values known so far and those still to be evaluated.         *)
Returning(known, rest) == Task("Returning", [known |-> known, rest |-> rest])

Aborting(code) == Task("Aborting", [code |-> code])

Repeat(loop) == Task("Repeat", [loop |-> loop])

Literal(e) == e.op \in {"LdTrue", "LdFalse"}

(* To drop a reference shows nothing.                                      *)
StatementTasks(statements) ==
  LET seen == SelectSeq(statements, LAMBDA s : s.kind # "Discard") IN
    [i \in DOMAIN seen |->
       IF seen[i].kind = "AssignLocal" THEN Assign(seen[i].expression)
       ELSE Task("Effect", [id |-> seen[i].expression.id])]

BlockTasks(blocks, b) ==
  LET t == blocks[b].terminator
  IN  Append(StatementTasks(blocks[b].statements),
             CASE t.kind = "Return" -> Returning(<< >>, t.values)
               [] t.kind = "Abort" -> Aborting(t.values)
               [] t.kind = "Goto" -> Block(t.true_target)
               [] t.kind = "Conditional" ->
                    Test(t.values[1], <<Block(t.true_target)>>, <<Block(t.false_target)>>))

(* One round of a loop, as renderRegion writes it.                         *)
LoopTasks(r) ==
  CASE r.kind = "Loop" -> r.children \o <<Repeat(r)>>
    [] r.kind = "While" -> <<Test(r.condition, r.children \o <<Repeat(r)>>, << >>)>>
    [] r.kind = "PostTestLoop" ->
         r.children \o <<Test(r.condition, << >>, <<Repeat(r)>>)>>

(* Break drops the innermost Repeat and what is above it, Continue only    *)
(* what is above it.  In a loop whose test follows the body, the Repeat is *)
(* within the test.                                                        *)
IsRepeat(task) ==
  task.kind = "Repeat" \/ (task.kind = "Test" /\ Len(task.no) = 1 /\ task.no[1].kind = "Repeat")

AfterLoop(rest, outcome) ==
  LET i == SelectInSeq(rest, IsRepeat)
      loop == IF rest[i].kind = "Repeat" THEN rest[i] ELSE rest[i].no[1]
  IN  (IF outcome = "Break" THEN << >> ELSE <<loop>>) \o SubSeq(rest, i + 1, Len(rest))

(* A one-armed If prints its arm as the then-arm.                          *)
Arm(r, i) == IF i \in DOMAIN r.children THEN <<r.children[i]>> ELSE << >>

(* The run is over, or the task on top is an event.                        *)
AtEvent(run) ==
  \/ run.todo = << >>
  \/ LET task == Head(run.todo) IN
       \/ task.kind \in {"Effect", "Aborting", "Spin"}
       \/ task.kind = "Returning" /\ task.rest = << >>
       \/ task.kind = "Test" /\ task.expression.op \in {"Atom", "TestVariant"}

(* One step out of sight.                                                  *)
Silent(blocks, run) ==
  LET task == Head(run.todo)
      rest == Tail(run.todo)
      to(todo) == [run EXCEPT !.todo = todo]
  IN
       CASE task.kind = "Block" -> to(BlockTasks(blocks, task.block) \o rest)
         [] task.kind = "Sequence" -> to(task.children \o rest)
         [] task.kind = "BasicBlock" -> to(StatementTasks(task.statements) \o rest)
         [] task.kind = "Transition" -> [run EXCEPT !.todo = rest, !.state = task.block]
         [] task.kind = "If" -> to(<<Test(task.condition, Arm(task, 1), Arm(task, 2))>> \o rest)
         [] task.kind = "Assert" ->
              to(<<Test(task.condition, << >>, <<Aborting(task.values)>>)>> \o rest)
         [] task.kind \in {"Loop", "While", "PostTestLoop"} -> to(LoopTasks(task) \o rest)
         [] task.kind = "Repeat" -> to(LoopTasks(task.loop) \o rest)
         [] task.kind \in {"Break", "Continue"} -> to(AfterLoop(rest, task.kind))
         [] task.kind = "Return" -> to(<<Returning(<< >>, task.values)>> \o rest)
         [] task.kind = "Abort" -> to(<<Aborting(task.values)>> \o rest)
         [] task.kind = "Returning" ->
              LET e == Head(task.rest)
                  later(v) == <<Returning(Append(task.known, v), Tail(task.rest))>>
              IN  to(IF Literal(e) THEN later(e.op = "LdTrue") \o rest
                     ELSE <<Test(e, later(TRUE), later(FALSE))>> \o rest)
         [] task.kind = "Assign" ->
              IF Literal(task.expression)
              THEN [run EXCEPT !.todo = rest, !.local = task.expression.op = "LdTrue"]
              ELSE to(<<Test(task.expression, <<Assign(booleanLiteral(TRUE))>>,
                                              <<Assign(booleanLiteral(FALSE))>>)>> \o rest)
         [] task.kind = "Test" ->
              LET e == task.expression
                  go(f, yes, no) == <<Test(f, yes, no)>>
                  arg(i) == e.operands[i]
              IN  to((CASE e.op = "LdTrue" -> task.yes
                        [] e.op = "LdFalse" -> task.no
                        [] e.op = "CopyLoc" -> IF run.local THEN task.yes ELSE task.no
                        [] e.op = "StateIs" -> IF run.state = e.id THEN task.yes ELSE task.no
                        [] e.op = "Not" -> go(arg(1), task.no, task.yes)
                        [] e.op = "And" -> go(arg(1), go(arg(2), task.yes, task.no), task.no)
                        [] e.op = "Or" -> go(arg(1), task.yes, go(arg(2), task.yes, task.no))
                        [] e.op = "Conditional" ->
                             go(arg(1), go(arg(2), task.yes, task.no),
                                        go(arg(3), task.yes, task.no))) \o rest)

(* Run on to the next event; a run that comes round without one is over.   *)
RECURSIVE Settled(_, _, _)
Settled(blocks, run, seen) ==
  IF AtEvent(run) THEN run
  ELSE IF run \in seen THEN [run EXCEPT !.todo = <<Task("Spin", << >>)>>]
  ELSE Settled(blocks, Silent(blocks, run), seen \cup {run})

Event(run) ==
  IF run.todo = << >> THEN <<"End">>
  ELSE LET task == Head(run.todo) IN
         CASE task.kind = "Test" -> <<"Test", task.expression>>
           [] task.kind = "Effect" -> <<"Effect", task.id>>
           [] task.kind = "Returning" -> <<"Return", task.known>>
           [] task.kind = "Aborting" -> <<"Abort", task.code>>
           [] task.kind = "Spin" -> <<"Spin">>

(* The run after its event, an atom having the given value.                *)
Past(blocks, run, value) ==
  LET task == Head(run.todo)
      rest == Tail(run.todo)
      next == IF task.kind = "Test" THEN (IF value THEN task.yes ELSE task.no) \o rest ELSE rest
  IN  Settled(blocks, [run EXCEPT !.todo = next], {})
-----------------------------------------------------------------------------
Init == /\ \E code \in Units : \E blocks \in Bodies(code) :
             function = [code |-> code, blocks |-> blocks]
        /\ g = << >>
        /\ tree = << >>
        /\ bytecode = << >> /\ source = << >>
        /\ phase = "build"

(* tools/movescape.cpp:540-549: the stages of `structure`, one by one.     *)
Build ==
  /\ phase = "build"
  /\ g' = [cfg |-> buildControlFlowGraph(function.code), analysis |-> << >>,
           blocks |-> function.blocks]
  /\ phase' = "analyze"
  /\ UNCHANGED <<function, tree, bytecode, source>>

Analyze ==
  /\ phase = "analyze"
  /\ g' = [g EXCEPT !.analysis = analyzeControlFlowGraph(g.cfg)]
  /\ phase' = "structure"
  /\ UNCHANGED <<function, tree, bytecode, source>>

Structure ==
  /\ phase = "structure"
  /\ tree' = structureControlFlow(g)
  /\ phase' = IF tree'.returns THEN "emit" ELSE "endless"
  /\ UNCHANGED <<function, g, bytecode, source>>

(* move_emitter.cpp:841-866, for a function that is plain or not (see      *)
(* Emitter): a dispatcher comes before the tree, which comes before none.  *)
Emit(plain) ==
  /\ phase = "emit"
  /\ LET use_typed_dispatcher == ~reducible(g.analysis) /\ canRenderTypedDispatcher(g, plain)
     IN  IF use_typed_dispatcher
         THEN tree' = [tree EXCEPT !.root = typedDispatcher(g)] /\ phase' = "enter"
         ELSE /\ phase' = IF tree.complete /\ sourceSemanticsComplete(tree.root) THEN "enter" ELSE "refused"
              /\ UNCHANGED tree
  /\ UNCHANGED <<function, g, bytecode, source>>

(* Both runs start with the same value of the local.                       *)
Enter(value) ==
  /\ phase = "enter"
  /\ bytecode' = Settled(g.blocks, [todo |-> <<Block(0)>>, local |-> value, state |-> None], {})
  /\ source' = Settled(g.blocks, [todo |-> <<tree.root>>, local |-> value, state |-> None], {})
  /\ phase' = "run"
  /\ UNCHANGED <<function, g, tree>>

(* Both runs are at the same event and go past it.                         *)
Go(kinds, value) ==
  /\ phase = "run"
  /\ Event(bytecode) = Event(source)
  /\ Event(bytecode)[1] \in kinds
  /\ bytecode' = Past(g.blocks, bytecode, value)
  /\ source' = Past(g.blocks, source, value)
  /\ UNCHANGED <<function, g, tree, phase>>

Next == \/ Build \/ Analyze \/ Structure
        \/ \E plain \in BOOLEAN : Emit(plain)
        \/ \E value \in BOOLEAN : Enter(value)
        \/ \E value \in BOOLEAN : Go({"Test"}, value)
        \/ Go({"Effect"}, TRUE)

Spec == Init /\ [][Next]_vars
-----------------------------------------------------------------------------
(* region.cpp:797-944, move_emitter.cpp:841-852.  A function is given up   *)
(* only for a real reason: edges that do not lead back to a dominator form *)
(* a cycle.                                                                *)
Onward(b) ==
  {s \in Targets(g.cfg[b].successors) : s \notin g.analysis.dominators[b]}

Tangled ==
  \E knot \in SUBSET {b \in DOMAIN g.cfg : g.cfg[b].reachable} \ {{}} :
    \A b \in knot : Onward(b) \cap knot # {}

RefusesOnlyTangledFunctions == phase = "refused" => Tangled

(* region.cpp:797-944.  Structuring ends with a result, unless a loop      *)
(* within a loop is left for the outer one at another block than the one   *)
(* that follows it.                                                        *)
LeavesBesideFollow ==
  \E inner, outer \in g.analysis.natural_loops :
    /\ inner.header \in outer.members /\ inner # outer
    /\ \E b \in inner.members :
         (Targets(g.cfg[b].successors) \cap outer.members)
           \ (inner.members \cup {loopFollow(g, inner)}) # {}

StructuringEndsElse == phase = "endless" => LeavesBesideFollow

(* What region.cpp is known to get wrong: a conditional whose true arm was *)
(* empty keeps its false arm in the true arm's place (region.cpp:24-28); a *)
(* condition folded into the values of a return is evaluated for each      *)
(* value that differs, or for none (533-590); a loop on the way out of a   *)
(* loop takes the place of the break from the outer one (811-813).         *)
ArmMoved == \E r \in Regions(tree.root) :
              r.kind = "If" /\ "TrueArm" \in r.defects /\ Len(r.children) = 1

BreakLost == "Break" \in Defects(tree.root)

ConditionMoved == "Condition" \in Defects(tree.root)

(* And an enum test is no longer kept in the local where a block after the *)
(* arms of the test reads it (328-334): only the arms are searched.        *)
Assigns(b) ==
  \E i \in DOMAIN g.blocks[b].statements : g.blocks[b].statements[i].kind = "AssignLocal"

(* Block b reads the local that it was entered with.                       *)
ReadsLocal(b) ==
  LET ss == g.blocks[b].statements
      first == SelectInSeq(ss, LAMBDA s : s.kind = "AssignLocal")
  IN  \/ \E i \in DOMAIN ss : /\ first = 0 \/ i <= first
                             /\ expressionUsesLocal(ss[i].expression)
      \/ first = 0 /\ \E i \in DOMAIN g.blocks[b].terminator.values :
                        expressionUsesLocal(g.blocks[b].terminator.values[i])

(* The blocks that the assignment of block b reaches.                      *)
RECURSIVE ReachedBy(_)
ReachedBy(found) ==
  LET more == found \cup UNION {Targets(g.cfg[b].successors) : b \in {x \in found : ~Assigns(x)}}
  IN  IF more = found THEN found ELSE ReachedBy(more)

BlocksWithin(r) == {x.block : x \in {y \in Regions(r) : y.kind = "BasicBlock"}}

KeptValueReadLater ==
  \E r \in Regions(foldEnumConditionTemporaries(build(g, 0, None, None, {}, {}))) :
    \E i \in DOMAIN r.children :
      /\ r.children[i].kind = "BasicBlock" /\ r.children[i].statements = << >>
      /\ Assigns(r.children[i].block)
      /\ \E b \in ReachedBy(Targets(g.cfg[r.children[i].block].successors)) :
           ReadsLocal(b) /\ b \notin BlocksWithin(r.children[i + 1])

(* Apart from these, a source that is called complete tests, does and      *)
(* returns what the bytecode does, in the same order, for all answers of   *)
(* its environment.                                                        *)
SourceDoesWhatBytecodeDoesElse ==
  phase = "run" =>
    \/ Event(source) = Event(bytecode)
    \/ ArmMoved \/ ConditionMoved \/ BreakLost \/ KeptValueReadLater

(* The source, run against the same answers, does at every moment what the *)
(* bytecode does.  README.md:8: "The goal is to recover the program        *)
(* represented by the bytecode without quietly changing control flow."     *)
SourceDoesWhatBytecodeDoes ==
  phase = "run" => Event(source) = Event(bytecode)

(* region.cpp:833-836 gives up with a fallback on a block it has been      *)
(* through: structuring is meant to end with a result for every function.  *)
StructuringEnds == phase # "endless"
=============================================================================
