# A verification of movescape

movescape reads Aptos Move bytecode and writes Move source. Its `README.md`
promises "to recover the program represented by the bytecode without quietly
changing control flow". These modules model the passes that promise rests on,
from the bytes of the file to the source of a function body, the checks a module
must pass first and the comparison that judges what was recovered; TLC runs the
bytecode beside what each pass makes of it, and the proofs show for every input
what the rest relies on. The one part of movescape that has more than one
process, the test runs by which a recovered package is judged, is modelled and
proved too.

Line numbers are those of the repository's files: `cfg.cpp` is `src/cfg.cpp`,
`region.cpp` is `src/region.cpp`, and so on.

## 1. The system

    file --> loader (envelope) --> module_loader (tables, code) --> Module --> validator
                                                      |
        per function:   CodeUnit --> cfg --> ControlFlowGraph
                                              |-- graph_analysis --> GraphAnalysis
                                              |-- stackless_ir --> StacklessFunction
                                              |       |-- type_analysis, local_analysis, borrow_analysis (accept or reject)
                                              |       '-- expression_ir --> ExpressionFunction
                                              '-- region (graph, analysis, expressions) --> StructuredFunction
                                                      '-- move_emitter --> source, dispatcher or refusal
    round_trip: emitted source --> Aptos compiler (child process) --> bytecode --> comparison

Each pass is a function of the results of earlier passes; they share no mutable
state and call each other only forward. What is hard is inside them: grammars
whose counts and offsets come from the file, fixed points over arbitrary graphs,
a mutual recursion over loops and joins, rewriting passes that have to preserve
evaluation order. Only `round_trip` has more than one process.

| component | state | operations | must hold | modelled by |
|---|---|---|---|---|
| reader and envelope loader (`binary_reader.cpp`, `loader.cpp`) | cursor, table list | `readUleb128`, `parseEnvelope`, `validateTables` | no read outside the table, numbers keep their bits, tables neither overlap nor leave a gap | MoveFormat, ModuleReader, ReaderProof |
| module loader (`module_loader.cpp`) | the item being read | one parser per table, type, opcode | what is accepted was read whole and in one way only | MoveFormat, ModuleReader, ReaderProof |
| control-flow graph (`cfg.cpp`) | blocks, edges, reachability | `buildControlFlowGraph`, printing | the machine moves only along its edges; what it reaches is marked | ControlFlow, BlockWalk, BytecodeRun, ControlFlowProof, BytecodeProof |
| dominators (`graph_analysis.cpp` 24-139) | reachable, sets, round | `reachableFrom`, `computeDominators` | ends, with exactly the dominators | DominatorSets, Dominators, DominatorsProof |
| graph analysis (`graph_analysis.cpp`) | orders, frontiers, loops, components, irreducible regions | `analyzeControlFlowGraph`, printing | every result is what its name says in terms of paths | GraphAnalysis, AnalysisRun, AnalysisProof |
| stackless lifting (`stackless_ir.cpp`) | stack height, next value id | `validateStackUsage`, `liftToStackless` | values are defined once, before use, and do not cross blocks | StacklessLift, in RecoveryRun and VerifiedRun |
| type analysis (`type_analysis.cpp`) | type per value | `inferAndValidateStacklessTypes` | values are what their types say when the function runs | TypeAnalysis, VerifiedRun |
| local analysis (`local_analysis.cpp`) | reaching definitions, availability, liveness | `analyzeLocals` | the fixed points are those of the paths; an accepted function reads no local without a value | LocalAnalysis, LocalRun, LocalProof; LocalCheck |
| borrow analysis (`borrow_analysis.cpp`) | borrow graph per block | `validateBorrowSafety` | the rounds converge; no reference dangles or is written past another | BorrowGraph, BorrowAnalysis, VerifiedRun |
| expression recovery (`expression_ir.cpp`) | symbolic stack per block, statements | `recoverExpressions`, rendering | effects keep their order; nothing is evaluated twice or never; parentheses are enough | ExpressionRecovery, RecoveryRun |
| structurer (`region.cpp`) | region tree, active loop, path, `used_fallback_` | `structureControlFlow`, four folding passes, rendering | a result called complete does what the bytecode does; the others are refused | Structurer, StructuredRun |
| emitter (`move_emitter.cpp`) | text | `emitMoveModule` | structured, dispatched or refused, never emitted incomplete | Emitter, StructuredRun: function bodies |
| validator (`validator.cpp`) | none | `validateModule` | abilities hold for all a value contains; types and instances are finite; resources are declared; bodies are sound | Validator, ModuleRun, ModuleInvariants, ModuleProof: tables and untyped checks of code; VerifiedRun: bodies |
| round trip (`round_trip.cpp`) | child process, log, deadline | `invokeAptos`, `runBehavioralTests`, package and harness checks | the call ends and leaves nothing behind; success and equal outcomes are real | CompilerProcess, BehaviorTests, CompilerProof; not the checks before the runs |
| comparisons (`semantic`, `body_compare`, `module_compare`; `behavior`) | index renaming, canonical order | `compareModuleInterfaces`, `compareModuleBodies` | modules that differ in layout and numbering are equal; equal modules do the same | ModuleComparison, ModuleRun; `behavior` with the round trip |
| metadata, source maps, names | none | decoding | names only | not modelled |
| package loader | none | manifest and directory scan | | not modelled: text |
| command line (`tools/movescape.cpp`) | none | one command per pass | order of passes | stages of the run modules |

The hazards of each, with their lines and the properties that cover them, are
listed in `PROJECT.json`.

## 2. The modules

### The file

**MoveFormat** (`module_loader.cpp`) is the grammar: for each thing that is read,
how many bytes it has or how large a number it may be, what is read after it and
from which version on. Opcodes are listed with their operands, types with their
arguments. **ModuleReader** (`loader.cpp`, `binary_reader.cpp`,
`module_loader.cpp`) reads a file item by item; `todo` stands for the stack of
calls of the parsers. A ULEB128 is read digit by digit, in a width. The module
that is built from the values is not kept: what was read, where, is. Properties:

- `StaysInside`: tables found to be contiguous lie apart in the file, and every
  read is inside the table it belongs to.
- `EveryByteIsAccountedFor`: writing the items of an accepted file at their places
  gives the file: no byte is skipped, read twice or written in a second way.
- `NumbersAreExact`: a number is accepted exactly if it fits and is not padded.
- `WrittenFilesAreRead`: files of every kind of entry are accepted from the version
  on that brought it, and refused before; scripts have no tables of a module.

### Control flow

**ControlFlow** (`cfg.cpp` 17-169) is `buildControlFlowGraph` as an operator. An
instruction is reduced to its effect on control and a target. `CfgRejects` are the
errors it throws; `Leaders`, `SuccessorsOf` (in the order edges are added),
`ExitKindOf`, `PredecessorsOf` and `ReachableBlocks` are the parts of the graph. A
unit of no code has a graph without blocks, as in lines 75 and 155.

**BlockWalk** is what a graph promises: execution is a walk along its edges that
ends in blocks with a fitting exit kind. **BytecodeRun** executes the code unit,
instruction by instruction, beside the graph and implements BlockWalk
(`ImplementsBlockWalk`) with the current block as the walk's position; a graph
without blocks is walked by nobody (`"empty"`). The machine
is the Move VM and external to the repository; only how control moves is modelled,
and a condition may be either value whenever it is tested. `BlocksAreBasic` and
`ReachabilityIsExact` are about the graph alone: no jump into the middle of a block,
no live block marked unreachable or the reverse.

**Iteration** has the two forms of loop the passes are written with, until nothing
changes and over a range of indices, and `Flooded`, the flood over successors that
many of them are. They are recursive functions, not RECURSIVE operators, so that what
they come to can be proved (ControlFlowProof).

**DominatorSets** has the steps of `computeDominators` as operators. **Dominators**
(`graph_analysis.cpp` 44-139) is the computation step by step. `pending` is the
stack of `reachableFrom`, taken as a set: any order of taking is allowed, which
includes the code's. `Visit` is one iteration of the loop over nodes, `Again` the
end of a sweep with changes, `PickImmediate` the rest. The code calls it twice, for
the graph from block 0 and for the reversed graph from the synthetic exit.

**GraphAnalysis** (`graph_analysis.cpp` 141-406) is `analyzeControlFlowGraph` as
operators, and **AnalysisRun** the two stages build and analyze with the
definitions by paths that the results are compared with. All they share with the
results is `Flooded`, which is proved to be the least set that holds where it begins
and that edges do not leave. `PostdominatorsGuardTheExit` covers blocks that never reach an
exit; `DependentsAreDecidedByTheBranch` leaves out that a self-loop is not
dependent on itself, and `FrontierIsWhereDominanceEnds` that only blocks with two
predecessors enter a frontier, as the code has it (251-271, 297-322).

### Statements and source

**StacklessLift** (`stackless_ir.cpp`) gives every instruction the values it takes
and leaves. An instruction is an opcode, an argument and, where the tables of the
module decide, its arity. **ExpressionRecovery** (`expression_ir.cpp`) turns these
blocks into statements over expression trees: which values stay on the symbolic
stack, which are spilled before an effect or a write, where a block ends, and when
a binary expression is written infix and with parentheses. **RecoveryRun** does the
passes in their order and then runs bytecode and statements block by block against
one environment, which decides every test and which instruction aborts.

- `RecoveredDoesWhatBytecodeDoesElse`: the same effects on the same values in the
  same order, the same aborts, successors and locals, apart from the two defects
  named in section 5 (`AbortSkipped`, `CapturePostponed`). Part of it
  (`AcceptedIsRecovered`) is that what the stack check accepts never fails the checks
  of expression recovery (923-932, 975, 1113) and no two values have one name.
- `SourceReadsBack`: what is written for an expression is read back as that
  expression by a reader of Move's grammar of binary operators.

**Structurer** (`region.cpp`) is `structureControlFlow`: `build`, `branch`,
`loopRegion` (both tested forms and the plain loop), `joinOf`, `loopFollow`,
`partialJoin`, the folds in their order, coverage and `complete`. A region is a
record with the fields of `struct Region` a property can tell apart, and one more,
`defects`, that the code has no part in: where a step does one of the things listed
in section 5, the region is labelled. Calls of `build` carry the arguments of the
calls under way; one that recurs stands for a recursion that does not end.
**Emitter** (`move_emitter.cpp`) decides what is written for the result: the
structured source, a dispatcher over the blocks, or nothing.

**StructuredRun** runs bytecode and what is emitted against each other. Both are
stacks of tasks. A task either rewrites the stack or waits at an event: a test
or call (an atom), an effect, a return with its values, an abort. Atoms are
answered by the environment, the same for both, so all ways through are taken.
`Silent` gives each region the meaning of the statement `renderRegion` prints
for it (1031-1152).

- `RefusesOnlyTangledFunctions`: a result is called incomplete only when the
  edges that do not lead back to a dominator form a cycle. Together with
  `SourceDoesWhatBytecodeDoesElse` it leaves the structurer no way out: it may
  not refuse what is reducible, and what is emitted must run alike.
- `StructuringEndsElse` and `SourceDoesWhatBytecodeDoesElse` say what holds apart
  from the defects of section 5. Each exclusion is a condition on the function or
  the tree, named in StructuredRun, and no wider than the defect: an arm that took the
  place of the other (`ArmMoved`); a condition that shows something, folded into no
  value, into several, or behind a value that shows something (`ConditionMoved`); an
  enum test no longer kept in a local which a block outside the arms of the test reads
  before it is assigned again (`KeptValueReadLater`); a loop where the break should be
  (`BreakLost`); `LeavesBesideFollow`. A local forgotten that an arm reads, however
  deep, a return rewritten to the other value or a condition folded in the wrong sense
  are in none of them. All else is held to equality of events.

### What a function body must satisfy

**LocalAnalysis** (`local_analysis.cpp` 23-302) has the transfer and meet operators
of the three fixed points of `analyzeLocals` and the recorded uses, and is the pass,
one visit of a block per step: `Reach` (reaching definitions), `Provide`
(availability), `RecordUses` or `Reject`, `Need` (liveness), with `Again` at the end
of a round in which something changed.
**LocalRun** runs the accepted function in the Move VM (external) and remembers
for each local the definition whose value it holds; a run may drop, at any point,
the value of a local that is not live there. Its second half defines what a way
through the function can do, place by place, by a flood over places and what a local holds there;
it shares neither the transfer nor the meet of the fixed points.
`definition_uses` is the uses read the other way round and is left out.

- `ReadsFindAValue`, `UsesListWhatIsHeld` and `DeadIsNeverRead` follow a value
  through a whole run: a local read has one, its definition is in the list the
  analysis recorded for that read, and what was called dead is not missed.
- `SetsAreExact` is the other direction: nothing is listed, available or live for
  which there is no way through the function.

**TypeAnalysis** (`type_analysis.cpp`) infers the types of values and checks what
each group of opcodes demands of them; **BorrowGraph** and **BorrowAnalysis**
(`borrow_analysis.cpp`) are the graph of references with strong and weak edges,
what every opcode does to it, canonical names and joins; **LocalCheck** is the
outcome of the local analysis as an operator. **VerifiedRun** makes the checks in
the order of `validator.cpp` 1187-1196, the rounds of the borrow analysis block by
block, and then runs what was accepted. The run knows of each reference the root
(a local, a resource, a parameter) and the path of fields it points along.

- `ReferencesStaySafeElse`: no reference is left that points inside what a write
  replaces, sees a write while immutable, or outlives what it points into.
- `OperandsFit`: values and locals are references, mutable or not, where their
  types say so, and every local read has a value.
- `AliasesAreKnown`: when a block is entered, the graph computed for it knows of
  every two locals whose references overlap, and of what is borrowed.
- `RoundsConverge` (action property): from round to round a block finds fewer
  references and more loans, and the rounds end within `MaxRounds`, far below the
  10,000 of the code.

### The module

**Validator** (`validator.cpp`) is `validateModule` as a sequence of checks. A module
is a record of tables: struct handles, functions, and for each kind of thing an
instruction can name (function, struct, field, field of variants, variant) its
entries and their instances. A signature stands where the code has the index of one.
`typeAbilities`, `NestedConstraintsOK`, `TypeIsValid`, `PhantomsOK` are the
functions of these names; `NonRecursive` peels struct definitions as the code does;
`LoopsOK` builds the graph of type parameters of all functions, with an edge for
each parameter that a generic call passes on, and asks for a constructing edge
within a component; `AcquiresOK` is the last pass. `CodeOK` makes the checks of a
code unit; `UseIsAllowed` is `requireAbilityConstraints` of `type_analysis.cpp`,
which lifting calls, and where the constraints of an instance are asked again with
the abilities the caller's parameters really have.

**ModuleComparison** is `buildSemanticModel` (names for table entries, offsets of
the fields of variants), `normalizeModuleInterface` and `normalizeModuleBodies`: the
canonical order of blocks, the naming of locals across them, what is written for an
instruction. A local that is not a parameter is named by its first turn: the place of
the first instruction that names it, blocks taken in canonical order (`FirstTurns`),
which is the number a counter gives that goes through the blocks in this order. A
qualified name is a tuple and a normalized instruction a record.

A type is a tree of a depth that the module loader bounds (`MaximumTypeDepth`, 256 in
`module_loader.cpp` 40), so that there is a set of all types (`Types`) and what is
computed over types can be a recursive function. `Loadable` is what the loader hands
on: tables of entries with types and abilities, code with known opcodes (a generic one
has an argument), numbered from 0. Whether an index leads anywhere is left to the
validator. `Linked` says what neither module's file holds: both are compiled against
the same packages, so a function of another module takes and returns as much in both,
and so does an instruction that states its own arity because its argument stands for
it (`OwnArity`).

**ModuleRun** validates two modules, compares them as `runRoundTrip` does
(`round_trip.cpp` 574-575) and, if they count as the same, runs them in lockstep in
the Move VM (external). A step runs both to their next event: a test, or any
instruction whose effect does not stay in locals and stack, with what it works on and
the values it takes. Answers of tests and results of other instructions are the
same for both. Calls enter functions of the module itself.

- `AbilitiesHoldInside`: abilities are computed from declarations and arguments;
  `Really` looks through all fields of a value instead. What the code grants a type
  of an accepted module is borne out by all that is in it, and every instance of a
  struct or function that is reached meets the constraints it is declared with.
- `InstantiationIsFinite`: values of an accepted module's types end and its generic
  calls lead to types of bounded depth; and only modules whose calls do make types
  grow are refused for it.
- `AcceptedCodeRuns`: whenever a run takes or borrows a resource, every function of
  the module on the call stack declares that it acquires it (`TouchesAreDeclared`);
  every instruction finds the values it takes on the stack of its own call, the
  locals it reads have one, and nothing is left over when a call returns
  (`OperandsAreThere`).
- `EqualModulesRunAlike`: modules found equal show the same events for all answers.
- `RelaidModulesAreEqual`: the same functions with their blocks in another order,
  tests turned round to fit, locals and all tables renumbered, are never told apart.
  With the property before it this is the comparison from both sides: it may not
  accept what differs nor refuse what does not.

Where the checks are on the cautious side: the comparison tells a jump to the next
block from falling into it, although the jump itself is left out of the normal form,
so a layout in which one became the other differs (the layouts that count as
`relaid` write every jump out); a struct named in a phantom argument of a field
counts as contained in `NonRecursive`. On the other side, `AcquiresOK` does not look
at closures.

### Processes

**CompilerProcess** (`round_trip.cpp` 228-342) is `invokeAptos`. Parent, child,
a helper the compiler may start and the deadline take steps in any order from
`fork` on. A `waitpid` interrupted by a signal is repeated and changes nothing,
so it is no step. `ignored` is the case that movescape was started with SIGCHLD
ignored, where a status may be lost and the call throws. The compiler is
external: it prints lines, builds modules, exits or crashes; sizes are counted
in lines, and the resource limit ends it when it writes past the log's limit. The
same limit applies to the bytecode files it writes; modules are taken to be
smaller. The kill reaches all of a group in one step, and a helper stays in its
group. **BehaviorTests** (983-1014) makes two such attempts and compares what the
logs say, with the verdicts of `round_trip.hpp` 86-186.

- `NobodyIsLeft`, `SuccessIsReal`, `TruncationIsTold`: whichever of parent, child
  and deadline comes first, a call that is over has reaped its child, killed the
  group if it timed out, and reports as success only a compiler that was executed
  and exited with 0, as completed only one that exited, and as timed out every child
  that was killed for its time and none before it. (A compiler that ends by itself
  between the last look and the kill is reported as timed out too: 308-309.)
  `EqualOutcomesAreReal` needs all of it twice: outcomes are
  called equivalent only if both runs were complete, output included.
  `ComparisonEnds` says that no order leaves the parent waiting for ever.

### The runs

| run | module | shows |
|---|---|---|
| `bytecode` | MCBytecodeRun | all code units of none to four instructions, targets one past the end included: rejected, or executed along the graph |
| `dominators` | MCDominators | all graphs of four nodes with at most two edges each, all reversed three-block graphs with their exit, and a root outside: exact results, and the computation ends |
| `analysis` | MCAnalysisRun | every result of the analysis against its definition |
| `structured` | MCStructuredRun | loops, joins, breaks, dispatchers and the four folds: source and bytecode in lockstep |
| `locals` | MCLocalRun | the local analysis against all ways through the function, and every run of what it accepts |
| `behavior_tests` | BehaviorTests | two test runs, all orders of parent, child, helper and deadline |
| `reader` | MCModuleReader | files of every table, at their boundaries, cut, lengthened and changed |
| `recovery` | MCRecoveryRun | bodies as statements beside the bytecode, and expressions read back |
| `verified` | MCVerifiedRun | functions checked by types, locals and borrows, and run when accepted |
| `modules` | MCModuleRun | modules validated, compared and run side by side when equal |
| `arm_moved`, `eager_cast` | | one disagreement each, section 5 |

`CHECK_DEADLOCK FALSE` everywhere: a run ends when the function returns, the
pass has its result, the file is refused or the call is over.

### Bounds

- `bytecode`: four instructions make blocks with zero to three plain instructions,
  loops, unreachable blocks, both senses of both branches, targets into the middle
  of straight-line code and past the end. The unit of no code is one of them.
- `dominators`: four nodes with two edges each are enough for a sweep that has to be
  repeated and for two nested loops; a block has at most two edges, so `AtMostTwo`
  loses nothing but the size. Reversed graphs may have any number.
- `analysis`: five-block units that begin with a test and end in a jump and a
  return have nested and crossing cycles; an irreducible region needs three blocks.
- `structured` takes every reachable function of at most four blocks, with and
  without statements in each (all blocks have some if it never returns), and of five
  those whose last block goes back to the first: two loops with a conditional inside
  need five. For the folds it takes functions of up to three blocks, loops included,
  and of four without loops (folds look at conditionals only), whose blocks assign,
  return or abort; blocks of the smaller ones may drop the reference whose variant
  was tested, which the fold of an enum test clears away. Values are one atom shared by several returns, one local, the two
  literals; tuples have two values. One local is enough for enum temporaries; more
  would only add copies of it.
- `locals`: three blocks in every graph with at most two edges a block and one
  self-loop, one local, at most one access in a block and one that reads, which
  covers values that come around a loop or along two ways; blocks that nothing
  reaches are included if they have an edge. Two blocks and one block with two
  locals and up to three accesses, for the order of reads, moves and writes
  within a block. Two locals never influence each other but for the list of uses.
- `behavior_tests`: two lines are kept, three fit into the log, four may be
  printed: output that fits, that is cut by the reader, and that ends the
  compiler. One module and one helper; more would be alike.
- `reader`: numbers have at most three bytes (`MaxBytes`) of which the last carries
  one bit (`LastMax`), as the tenth of a 64-bit number does, so every shift, limit
  and overflow occurs; `Limits` are small, so each is met and passed. Samples hold an
  entry of every kind; the layouts of two tables take all offsets and sizes.
- `recovery`: all well-typed bodies up to five or six instructions over several
  small alphabets (calls, effects, locals, references, closures), forks and loops of
  such blocks, and all nestings of three binary operators. `LogBound` ends loops.
- `verified`: bodies are put together from phrases that borrow, write, read, call,
  store and move, straight on, on two ways that join, or round a loop; 918 of the
  functions are accepted. `MaxEdgesPerPair` (2) and `MaxPathLength` (1) are the
  code's 10 and 32 made small enough to be met; `PathBound` is how deep a call
  reaches into its arguments.

- `modules`: one family of modules for each thing that can go wrong. Two structs over
  one parameter, phantom or not and constrained or not, in each other's fields or
  their own; two functions with two type parameters and every pair of generic calls
  with arguments that pass on, drop, exchange or wrap them; generic calls under
  constraints; three functions that may take a resource and call one another in
  circles; graphs of four blocks (a test, then blocks that join, test again, go back or
  end) in all their layouts; 16 small functions that test one way round, each with 32
  that test either way; handles to fields of variants over two orders of an enum; and
  entries that name what is not there. Each module is also compared with itself with
  every table reversed. A run is followed for `MaxEvents` (8) events and `MaxCalls` (3)
  calls, which is more than one way round any of its loops.

### Fairness

`dominators` assumes `WF_vars(Next)` and `locals` `WF_vars(Analyze)`: a pass is a
sequential function, and a function that has a next step takes it; the run of
the accepted function need not go on. `behavior_tests` assumes that the parent
is scheduled and that time passes, and nothing of the child: a compiler may hang
at any point, the setup before `exec` included. Nothing else is assumed: the other
runs check safety and action properties.

## 3. Proofs

Proved, for every value of the constants: all properties of `dominators`, `bytecode`,
`analysis`, `locals` and `behavior_tests` but the two about termination, those of
`reader` about files in general, and of `modules` that accepted code runs
(`AcceptedCodeRuns`) and that its abilities are real (`AbilitiesHoldInside`).

**ControlFlowProof** begins with what the other proofs know of loops. A recursive function is a
CHOOSE over its own equation, so that there is one to choose has to be proved, which
needs induction over the rounds. It is done by least counterexample
(`NatClosed`, from the well-foundedness of the natural numbers): `IterationExists`,
`LoopToExists`, each for every set of results and every step given as a function. As
a flood can grow only as often as there are nodes, `FloodIsClosed` and `FloodIsLeast`
follow: its result is the least set that holds the start and that edges do not leave.
A set shown to be closed therefore holds all that walks reach, which is how walks
are reasoned about in every proof here.

**DominatorsProof** proves, for every finite set of nodes, graph and root, each
safety property the `dominators` run checks; `DominatorsExact` puts what the flood
(`FloodIsExact`) and the sweeps (`ComputesDominators`) leave together. The inductive
invariant `IInv` has these parts.

- `FloodInv`, `OnlyWalks`: marked nodes lie in every set that contains the root
  and is closed under edges; successors of a marked node are marked unless it is
  pending. At the end of the flood the marks are closed: `FloodIsExact`.
- `NoDominatorIsLost`: a set never drops below the true dominators. `Dominates`
  is defined by a closed set that leaves the node out, the way an induction over
  paths can be stated without one.
- `MeetBelow`: a set is never below the meet of its predecessors' sets. This is
  what makes `Visit` only remove (`SweepsOnlyRemove`), and since a removal at
  one node lowers the meet at others it is preserved by monotonicity of the meet
  (`MeetIsMonotone`).
- `Settled`: in a sweep without changes so far, the nodes already visited equal
  their meet; at the end all do. `FixedPointIsSound` then shows that a set in a
  fixed point holds only dominators: if d is in the set of n, the nodes whose
  sets lack d are closed under edges away from d.
- `Picked`: the immediate dominator is what counting chooses. That counting
  finds the closest needs that dominators of a node form a chain
  (`DominatorsFormAChain`, `DominanceIsTransitive`) and cardinalities
  (`DeepestIsClosest`).

Assumptions: `SizeAssumption`, `NoneAssumption`, `InputsAssumption` of Dominators,
that nodes are numbered, None is not a node and edges stay in the graph.

**BytecodeProof** proves `ImplementsBlockWalk`,
`BlocksAreBasic` and `ReachabilityIsExact` for code units of every length, none
included (`ProgramsAssumption`: instructions numbered from 0, with known
opcodes). A finite set of integers is listed by `Ascending` once each: the place of a
number (`Rank`) is an injection into as many places, hence onto them. So `BlockOf`,
which counts leaders, is the block that holds an instruction, blocks partition the
code, and predecessor lists are the successor lists reversed. `RunInv` keeps the
program counter in the code and the graph the one built of it; each step then maps
to a step of BlockWalk or, within a block, to a stutter. `FloodedGraph` applies the
flood lemmas to the graph built, and since a run enters blocks along edges it stays
among the marked ones: `ReachabilityExact`.

**AnalysisProof** proves every property of `analysis`, for every code unit that
`buildControlFlowGraph` accepts. The state machine is two steps, so its invariant is
only that graph and results are what the operators returned, a lemma; all the work is
in what the operators of GraphAnalysis return, for every graph.

- `SweptIsExact`, `ClosestIsLast`: the sweeps leave the dominators and counting the
  closest one, here for the operator, whose rounds are bounded by how much a sweep
  can remove. Applied to the graph and to the reversed graph with its exit
  (`BackIsGraph`, `PostdominatorsAreGuards`): `PostdominatorsExact`.
- `RunnersAreExact`: walking up the tree of immediate dominators from one node to
  one above it passes what dominates the first and not the second. It gives
  `FrontierExact` and, on the tree of the postdominators, `DependentsExact`.
- `FloodsTheBody`, `LoopsAreApart`: the members of a loop are what reaches a latch
  without passing the header; two bodies with a common block are nested, because
  dominators of a block form a chain (`DomsAreAChain`): `LoopsExact`.
- `Sound`: the depth-first walk with its explicit stack, turn by turn. The stack is
  a walk of the graph, and a successor of a finished block finished too or leads on to
  what finished last (`FinishedBelow`). The frames that came up and do not come up
  again (`Behind`) get more with every turn, so the number of turns that the
  operator takes is enough for the stack to be empty (`WalkEnds`). From the finish order
  come the reverse postorder (`DominatorsFinishLater`, `OrderIsExact`) and, by
  `LaterLeadsToEarlier`, that a flood of the reversed graph from the latest block left
  takes exactly its component (`FloodFindsTheClass`): `WalksExact`.
- `TwoEntries`: a component that can be entered at one block only is dominated by
  it, and the other way round: `RegionsExact`.

Assumptions: `ProgramsAssumption` of AnalysisRun and `NoneAssumption` of
GraphAnalysis.

**LocalProof** proves, for every function and graph, the safety properties of
LocalRun. Its invariant has three layers. While a fixed point is computed, each
set lies on its own side of what its neighbours make of it (below for the sets
that grow, above for must-be-available), which monotonicity of the transfer and
meet operators preserves: `SetsOnlyMoveOneWay`. A round without changes has
settled the blocks it visited, so at its end the sets are a fixed point. And a
run stays, at the point it is at, within the sets of that point: what a local
holds is among the definitions that reach, a must-be-available local holds
something, what was dropped is not live. The last layer is what a step of the
run preserves because the sets are a fixed point: `AcceptedReadsFindAValue`,
`UsesAreComplete`, `DeadLocalsAreNeverRead`.

`SetsExact` adds the converse, that nothing is listed, available or live without a
way that bears it out, and with it that the sets are exactly those of the ways. Its
invariant `RealInv` is kept by every visit: each definition in a set comes to that
place along some way, each local missing from the must-be-available set is without a
value on one, and so on (`DefinitionsAreReal`, `MissingAreReal`, `MaybesAreReal`,
`NeedsAreReal`). Ways are floods over places, so a visit extends them by the
instructions of one block. It rests on the marked blocks being the ones edges lead to
(`MarksOnlyReached`), without which the analysis of an unreachable block would be
compared with no way at all.
Assumptions: `CountsAssumption`, `NoneAssumption` and `FunctionsAssumption` of
LocalAnalysis; the last says of a function what `buildControlFlowGraph` guarantees
(`Analyzable`), as BytecodeProof shows it does.

**ReaderProof** proves, for every file, format and width, `StaysInside`, that a
number under way fits its width and loses no bit (`ReaderKeepsBits`),
`NumbersAreExact` and `EveryByteIsAccountedFor`. The invariant goes by stages: in the
header, tables read so far are entries only; the check of their layout adds up the
ones found contiguous, which therefore lie apart below `total`; from then on every
item is read between `pos` and the `end` of its table.

- `NumbersExact`. `UnderWay`: whatever bytes come next, the number they complete is
  what is kept so far plus what those add, shifted by what was taken. A number's
  written form unfolds group by group, and is the only sequence of bytes of that shape
  and value (`Shaped`, `WrittenAsRead`, `ReadAsWritten`). So what is accepted is
  what would be written, and what is refused is padded, too large or cut
  (`OneNumber`, `NoneAcceptable`).
- `EveryByteAccounted`. `Accounted`: the bytes of the items read so far are exactly
  the bytes left behind (`Behind`), each of one item, and each item written again
  is what stands there. While tables are read these are the header, the tables
  finished and the beginning of the current one; that nothing between is missed is
  that the tables cover everything up to `total` (`Covered`), which the layout check
  adds up to and no other part of the invariant says.

Assumptions: `JobsAssumption` (bytes are bytes), `NumberAssumption` (a ULEB128 has at
least two bytes, the last one smaller, and a weight for each) and `FormatAssumption`
of MoveFormat (the tables of the grammar name one another's entries).

**CompilerProof** proves, for every limit on the output, all safety properties of
`behavior_tests`. The invariant says where parent and child can be at the same
time; that the child has its own group wherever the parent may kill it, because
either of the two calls of `setpgid` came first (`Processes`); that a status is
never one of a child that did not run, unless it is 126, 127 or a kill, and that
who was killed was late and is noted as timed out (`Endings`); that the log is the printed lines as far as there was room
(`Logged`), and so the output their beginning; and all that `Kept` says of the
reference attempt while the candidate runs. A summary is the last line, so an
output in which it is seen is whole (`SummaryIsLast`): `EqualOutcomes`.
Assumptions: `LimitsAssumption` (the limit is not 0, as 234-236 requires) and
`NoneAssumption` of CompilerProcess.

**ModuleProof** proves, for all modules that the loader may hand on, `ModuleRunTyped`,
`CodeThatIsAcceptedRuns`, `AbilitiesAreSound` and `EqualModulesBehaveAlike`. What is
said of states is in **ModuleInvariants**. The invariant `IInv` has three parts beside
types: the checks that the module under validation has passed so far, so that
from the comparison on both modules passed all of them (`CheckedSoFar`, `Sound`); and,
of the two machines, `MachinesSorted`:

- `Ready`: a call is at an instruction that its graph reaches, its stack is as high as
  the stack check computed for that place (`HeightAt`), and the locals that the local
  analysis takes to have a value there (`HaveAt`) have one. A fixed point of the
  analysis that refuses nothing is what keeps a step `Ready`, silent ones included
  (`SettledIsReady`).
- `Sorted`: below the top, each call waits for as many results as the next one
  returns, and declares to acquire what the next one does. That is why nothing
  touched at the top is undeclared further down.

The abilities need no invariant over steps: they say something of what the validator's
operators compute. Types are trees of bounded depth, `Types` is the set of all of them,
and what is computed over a type is a function on that set. Such a function exists depth
after depth (`TypesUnfold`, `TypesByDepth`), and what holds of a type whenever it
holds of its arguments holds of all (`TypeInduction`). The types that have an ability
(`Having`) are closed under what their values hold, as a field of a struct was checked
with parameters that have everything: what remains to be asked of an argument is what
`StructAbilities` asks (`FilledHasAbilities`, `ContentsHave`). So looking further
inside finds nothing that lacks it (`AbilitiesAreReal`). In the same way types whose
nested constraints hold are closed under what they hold (`Fine`, `ContentsAreFine`), and
an instance of a function passes on types with the abilities that its formals ask for
(`CalledFit`), whatever the caller was instantiated with.

That modules found equal show the same events (`EqualModulesBehaveAlike`) is argued in
three steps, all about modules that passed every check and whose normalized interfaces
and bodies are the same sets.

- What is written of a function determines it up to numbering. Functions of one name
  with code (`Companions`) have the same normal form (`Twins`). The canonical order
  holds every block (`OrderHasAll`), so the blocks at one place of both orders
  correspond, instruction by instruction without the Nops (`Matched`). Names keep
  apart what they name: locals (`LocalsNamed`), and entries of the tables as far as
  an instruction uses them (`FieldFound`, `VariantFieldFound`, `StructsOfOneName`).
- So instructions written alike do alike: they work on the same, with the same types,
  take and leave as much, and call `Companions` (`WorksAlike`, `TypesAlike`,
  `EffectsAlike`, `CallsAlike`). Two places are the `SamePlace` if what follows the
  Nops there is `Matched`. Silent instructions lead from one such pair to the next, so
  that both machines get to an event together or both go round forever
  (`SettledAlike`).
- `RunsAlike` is the invariant over the steps, beside `IInv`: as many calls on both
  stacks, those below the top returning to the `SamePlace` with equal values in
  locals of one name (`Paired`), those at the top `Met` at an event or both endless
  (`MachinesAlike`). Events of such machines are the same (`EventsAlike`), and an event
  with one answer keeps them so (`AfterEventAlike`, `SettleKeepsAlike`).

It needs `IInv`: without the height of the stack and the locals that have a value, an
instruction written alike could still find something else below what it takes.

Assumptions: `JobsAssumption` (`Loadable`, `Linked`), `BoundsAssumption` and
`DepthAssumption`, beside those of the control-flow modules.

TLC evaluates all of these assumptions in the runs of the modules that make them.

Only model-checked, and why:

- `Terminates` and `ComparisonEnds`: liveness is beyond the prover. What makes the
  passes end is proved (`SweepsOnlyRemove`, `SetsOnlyMoveOneWay`).
- `WrittenFilesAreRead`: it is about the samples of MCModuleReader, as
  `RelaidModulesAreEqual` is about the layouts of MCModuleRun.
- The properties of `structured`, `recovery` and `verified`. Structurer,
  ExpressionRecovery and TypeAnalysis recurse over trees of no bounded depth
  (regions, expressions, signatures), of which there is no set for a recursive function
  to have as its domain, so they are RECURSIVE operators, and what they compute would
  take induction over data; both are beyond the prover. `ImplementsBlockWalk` and the
  results of AnalysisProof are what these passes rest on.
- `InstantiationIsFinite`: how deep it looks (`Levels`, `Depth`) fits the modules that are
  run. Types of an accepted module end in general, but not after so many levels: a
  struct may hold the one before it twice over, and their number doubles each time.

## 4. Not modelled

Metadata, source maps, the choice of source names and the package loader have no
module: they decode or scan text on which nothing else here depends. Of the validator
the pools of identifiers, addresses, signatures and constants (whose values are
decoded), friends, access specifiers, the signatures of vector and closure
instructions, the limit of 255 locals, native structs and `validateScript` are left
out; of the comparison visibility, entry, attributes and access specifiers, which are
compared as they are, and the list of differences. The types of ModuleRun are
`u64`, vectors, references, structs and parameters. Within the other components:
printing and names; in the structurer the rendering of two assigning arms as one conditional
expression (`region.cpp` 998-1029), which means the same, and `duplicated_blocks`,
which is computed but decides nothing; in expression recovery the types printed with
casts, vectors and byte strings as literals; in the emitter declarations, signatures
and aliases; in the round trip the checks of packages and harnesses before the test
runs. In the type analysis types nest one level and constants are given by their
type. The values the module reader found are not put together to a module.

## 5. Where code and intent part

Those with a run end in a counterexample there. Others can be seen by checking the
invariant named, with the constants given, in the configuration named. All up to the
timeout were reproduced with the compiled functions, on the same graph or, for that
one, with a `setpgid` that keeps the child for longer than the deadline.

| run, or how to see it | where | what happens |
|---|---|---|
| `arm_moved` | `region.cpp` 24-28, 921-924, 1046-1071 | an empty true arm is dropped and the false arm runs when the condition is true |
| none | 533-536, 583 | `if (f()) v else v` becomes `v`: the call is gone |
| none | 577-584 | `if (f()) (a, b) else (c, d)` calls `f` twice |
| `ArmMoved.cfg` with `MaxBlocks = 4`, `Units <- Diamond`, `Bodies <- KeptTest` | 328-333 | the store of an enum test disappears although the local is read after the arms |
| `ArmMoved.cfg` with `MaxBlocks = 5`, `Units <- LoopOnTheWayOut` | 811-813, 976-977 | a loop on the way out of a loop suppresses the outer `break` |
| `StructuringEnds` in `Structured.cfg` | 797-944 | endless recursion when an inner loop is left for the outer one beside its follow |
| none | `graph_analysis.cpp` 372-405 | a cycle with two entries inside a natural loop is not reported |
| none | `round_trip.cpp` 163-167, 256, 337 | a child killed at the deadline before it has created the log: the call throws "unable to read compiler log" instead of reporting the timeout |
| `eager_cast` | `expression_ir.cpp` 27-73, 308 | a cast that aborts in the second operand of an eager `And` is written behind `&&` and no longer evaluated: `x < x && (y as u8) < x` with `x: u8`, and `y: u64` above 255 |
| none | 527-560 | a captured argument with an effect is evaluated where the closure is called, not where it was packed |
| `NestedReferencesAreRefused` in `Verified.cfg`, `FunctionBodies <- NestedBodies` | `type_analysis.cpp` 366-370 | borrowing a local that holds a reference is accepted; `tests/verifier_parity_tests.cpp` 80 has references to references refused |

The first trees are `complete`, so the emitter prints them. On the cycle that
is not reported the structurer either falls back or does not end, so no wrong
source comes of it. A condition lost or repeated is what `ConditionMoved` excludes
from `SourceDoesWhatBytecodeDoesElse`, and a store that disappears what
`KeptValueReadLater` does; `AbortSkipped` and `CapturePostponed` are the
exclusions of `RecoveredDoesWhatBytecodeDoesElse`, and a function with nested
references that of `ReferencesStaySafeElse`.

Two more observations, harmless on their own: `Eq` and `Neq` release their first
operand before the second is checked, and the local analysis does not ask whether a
local that is overwritten or left may be dropped.

## 6. Plan

Done, in this order: ControlFlow/BlockWalk/BytecodeRun and its proofs;
DominatorSets/Dominators and its proofs; GraphAnalysis/AnalysisRun and its proofs;
Structurer/StructuredRun/Emitter; LocalAnalysis/LocalRun and
its proofs; CompilerProcess/BehaviorTests and its proofs; MoveFormat/ModuleReader
and its proofs; StacklessLift/ExpressionRecovery/RecoveryRun;
TypeAnalysis/BorrowGraph/BorrowAnalysis/VerifiedRun;
Validator/ModuleComparison/ModuleRun and their proofs.

Next: the pools and constants of the validator and `validateScript`; metadata and
source maps as a grammar of their own for ModuleReader. Proofs: that what the stack
check accepts is lifted without a missing operand and each value defined once; that
an edge added to the borrow graph is covered by it and a join covers both sides.
