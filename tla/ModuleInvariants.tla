-------------------------- MODULE ModuleInvariants --------------------------
(***************************************************************************)
(* What the proofs about accepted modules say of them: IInv, which holds   *)
(* of each run, and RunsAlike, which holds of the runs of two modules that *)
(* compare as equal; and the terms they are stated in.                     *)
(***************************************************************************)
EXTENDS ModuleRun

(* A module that the loader has made and the validator lets pass.          *)
Sound(m) == Loadable(m) /\ \A k \in DOMAIN Checks : Passes(m, Checks[k])

(* The code of a function, and its control flow.                           *)
CodeOf(m, f) == Body(m, f).code
FlowIn(m, f) == FlowOf(CodeOf(m, f))
GraphIn(m, f) == buildControlFlowGraph(FlowIn(m, f))

(* The code of a function that the loader has made.                        *)
Coded(f) ==
  /\ IsFiniteSet(DOMAIN f.code) /\ DOMAIN f.code = 0 .. Size(f.code) - 1
  /\ \A i \in Range(f.code) :
       /\ {"op", "arg", "generic"} \subseteq DOMAIN i /\ "at" \notin DOMAIN i
       /\ i.op \in AllOps /\ i.arg \in Nat /\ i.generic \in BOOLEAN
       /\ i.generic => KindOf(i.op) # "none"
       /\ "arity" \in DOMAIN i <=> i.op \in OwnArity
       /\ i.op \in OwnArity => i.arity[1] \in Nat /\ i.arity[2] \in Nat

(* d is a function of a sound module that has code.                        *)
HasCode(m, d) == Sound(m) /\ d \in DOMAIN m.functions /\ ~ IsNative(m.functions[d])
-----------------------------------------------------------------------------
(* The operand stack over a block (stackless_ir.cpp, instructionStackEffect *)
(* and validateStackUsage).                                                *)
Effects(I) == \A k \in 1 .. Len(I) : StackEffect(I[k])[1] \in Nat /\ StackEffect(I[k])[2] \in Nat

AfterEffect(height, effect) == IF height < effect[1] THEN -1 ELSE height - effect[1] + effect[2]

(* What the instructions of a block are, with their places.                *)
BlockIn(m, f, at) == GraphIn(m, f)[BlockOf(FlowIn(m, f), at)]
CodeIn(m, f, at) == BlockCode(CodeOf(m, f), BlockIn(m, f, at))

(* I is the code of a block of c, and leaves the stack as it finds it.     *)
BlockFits(c, block, I) ==
  /\ block.begin \in Nat /\ block.end \in Nat /\ block.begin < block.end
  /\ Len(I) = block.end - block.begin /\ Effects(I) /\ HeightAfter(I) = 0
  /\ \A k \in 1 .. Len(I) :
       /\ block.begin + k - 1 \in DOMAIN c
       /\ I[k].op = c[block.begin + k - 1].op /\ I[k].arg = c[block.begin + k - 1].arg
       /\ StackEffect(I[k]) = StackEffect(c[block.begin + k - 1])

(* How high the stack is before an instruction.                            *)
HeightAt(m, f, at) == Heights(CodeIn(m, f, at))[at - BlockIn(m, f, at).begin]

(* The locals that a block begins with, of the pairs of blocks and locals. *)
Of(pairs, b) == {p[2] : p \in {q \in pairs : q[1] = b}}

(* The places that are reached, and the locals that have a value there.    *)
Spots(m, f) == {at \in DOMAIN f.code : BlockIn(m, f, at).reachable}
MustIn(m, f) == MustAvailable(Body(m, f), GraphIn(m, f))
HaveAt(m, f, at) ==
  Available(CodeIn(m, f, at), MustIn(m, f)[BlockOf(FlowIn(m, f), at)])[at - BlockIn(m, f, at).begin]
-----------------------------------------------------------------------------
(* Calls of functions while the code runs.                                 *)
Values == ({"constant", "argument"} \X Nat) \cup ({"event"} \X Nat \X Nat)
NoValue == <<"none">>

(* A call whose stack is what the checks say of the place it is at, but    *)
(* for the results that the call it made still owes it, and that has       *)
(* values in the locals that have one there.                               *)
IsFrame(frame) ==
  frame = [function |-> frame.function, types |-> frame.types, pc |-> frame.pc,
           stack |-> frame.stack, locals |-> frame.locals]
Ready(m, frame, owed) ==
  LET f == m.functions[frame.function] IN
  /\ HasCode(m, frame.function) /\ IsFrame(frame)
  /\ frame.pc \in Spots(m, f)
  /\ frame.stack \in Seq(Values) /\ Len(frame.stack) + owed = HeightAt(m, f, frame.pc)
  /\ frame.locals \in [DOMAIN Body(m, f).locals -> Values \cup {NoValue}]
  /\ \A l \in HaveAt(m, f, frame.pc) : l \in DOMAIN frame.locals /\ frame.locals[l] \in Values

(* The calls of a machine: each waits for the results of the next, and     *)
(* acquires what the next does.                                            *)
Returns(m, frame) == Len(m.table.function[m.functions[frame.function].handle].returns)
Acquires(m, frame) == ToSet(m.functions[frame.function].acquires)
Sorted(m, machine) ==
  /\ IsList(machine)
  /\ \A k \in 1 .. Len(machine) :
       Ready(m, machine[k], IF k = Len(machine) THEN 0 ELSE Returns(m, machine[k + 1]))
  /\ \A k \in 1 .. Len(machine) - 1 : Acquires(m, machine[k + 1]) \subseteq Acquires(m, machine[k])

(* What is known of the modules so far: the checks that came before this   *)
(* one passed, and from the comparison on both modules are sound.          *)
CheckedSoFar ==
  /\ phase = "reference" => \A k \in 1 .. check - 1 : Passes(job.reference, Checks[k])
  /\ phase = "candidate" => /\ Sound(job.reference)
                            /\ \A k \in 1 .. check - 1 : Passes(job.candidate, Checks[k])
  /\ phase \in {"compare", "same", "different", "run"} => Sound(job.reference) /\ Sound(job.candidate)
  /\ phase \in {"same", "run"} => Interface(job.reference) = Interface(job.candidate)

(* What is known of the machines: none has calls before they run, and then *)
(* each has the sorted calls of its module.                                *)
MachinesSorted ==
  /\ DOMAIN machines = Roles
  /\ phase # "run" => \A r \in Roles : machines[r] = << >>
  /\ phase = "run" => \A r \in Roles : Sorted(Module[r], machines[r])
  /\ \A r \in Roles : Len(machines[r]) <= MaxCalls + 1

(* What holds of every state of a run of a module that was accepted.       *)
IInv == TypeOK /\ CheckedSoFar /\ MachinesSorted
-----------------------------------------------------------------------------
(* Types: what the recursive definitions over them come to.  They are      *)
(* functions over the types of some depth, and exist one depth after the   *)
(* other.                                                                  *)
TypeLevel(g, n) == IF n = 0 THEN {} ELSE [kind : TypeKinds, index : Nat, arguments : Seq(g[n - 1])]

IsType(t, deeper) ==
  /\ t.kind \in TypeKinds /\ t.index \in Nat /\ t.arguments \in Seq(deeper)
  /\ t = Type(t.kind, t.index, t.arguments)

(* What a recursive definition g gives the arguments of a type.            *)
OfArguments(g, t) == [k \in DOMAIN t.arguments |-> g[t.arguments[k]]]

(* The abilities of a type from those of its arguments.                    *)
AbilitiesFrom(m, t, context, held) ==
  CASE t.kind = "U64" -> {"copy", "drop", "store"}
    [] t.kind = "Reference" -> {"copy", "drop"}
    [] t.kind = "TypeParameter" -> IF t.index \in DOMAIN context THEN context[t.index] ELSE {}
    [] t.kind = "Vector" -> {"copy", "drop", "store"} \cap held[1]
    [] t.kind = "Struct" -> StructAbilities(m.structHandles[t.index], held)
HeldBelow(m, t, context) == [k \in DOMAIN t.arguments |-> typeAbilities(m, t.arguments[k], context)]

(* A type with its parameters replaced, from its arguments so treated.     *)
FilledFrom(t, arguments, below) ==
  IF t.kind = "TypeParameter" THEN arguments[t.index] ELSE [t EXCEPT !.arguments = below]
FilledBelow(t, arguments) == [k \in DOMAIN t.arguments |-> Filled(t.arguments[k], arguments)]

(* What validateType asks of each part of a type that is no reference.     *)
ValidPart(m, u, parameters) ==
  /\ u.kind # "Reference"
  /\ u.kind = "Struct" => u.index \in DOMAIN m.structHandles
                          /\ Len(u.arguments) = Len(m.structHandles[u.index].typeParameters)
  /\ u.kind = "TypeParameter" => u.index \in 1 .. parameters /\ u.arguments = << >>
  /\ u.kind = "Vector" => Len(u.arguments) = 1
  /\ u.kind = "U64" => u.arguments = << >>
Valid(m, t, parameters) == TypeIsValid(m, t, parameters, FALSE)

(* The constraints that a struct puts on its arguments, part by part.      *)
Constrained(m, u, context) ==
  u.kind = "Struct" =>
    \A k \in DOMAIN u.arguments :
      m.structHandles[u.index].typeParameters[k].constraints \subseteq typeAbilities(m, u.arguments[k], context)

(* Types that are put in place of n type parameters.                       *)
Replaces(m, arguments, n) == \A k \in 1 .. n : arguments[k] \in Types /\ Valid(m, arguments[k], 0)

(* Types without type parameters: those that have an ability, and those in *)
(* which the constraints of structs hold.                                  *)
Having(m, a) == {t \in Types : Valid(m, t, 0) /\ a \in typeAbilities(m, t, << >>)}
Fine(m) == {t \in Types : Valid(m, t, 0) /\ NestedConstraintsOK(m, t, << >>)}

(* An instance of a function: a type for each type parameter, with the     *)
(* abilities that it is constrained to have.                               *)
InstanceFits(m, d, types) ==
  /\ DOMAIN types = DOMAIN Formals(m, d)
  /\ \A k \in DOMAIN types : /\ Valid(m, types[k], 0)
                             /\ Formals(m, d)[k] \subseteq typeAbilities(m, types[k], << >>)
AllInstances(m) == {x \in (DOMAIN m.functions) \X Seq(Types) : InstanceFits(m, x[1], x[2])}
-----------------------------------------------------------------------------
(* Where control goes from the end of a block, with an answer to a test.   *)
Goes(c, at, answer) ==
  IF c[at].op = "Branch" \/ (Conditional(c[at].op) /\ answer = (c[at].op = "BrTrue")) THEN c[at].target ELSE at + 1

LastOf(c, b) == BlockEnd(c, b) - 1

(* A list of all blocks that begins with the first.                        *)
IsOrder(order, ids) ==
  /\ order \in Seq(ids) /\ 1 \in DOMAIN order /\ order[1] = 0
  /\ \A b \in ids : \E p \in DOMAIN order : order[p] = b

(* The canonical order of a function, and the turns that come of it.       *)
OrderIn(m, f) == canonicalBlockOrder(GraphIn(m, f))
TurnsIn(m, f) == FirstTurns(m, f, OrderIn(m, f))

(* What is compared of a function: its blocks in their order, what is seen *)
(* of each, and what each of its instructions is called.                   *)
Flow(m, d) == FlowIn(m, m.functions[d])
Order(m, d) == OrderIn(m, m.functions[d])
Code(m, d) == m.functions[d].code
Seen(m, d, b) == {at \in BlockStart(Flow(m, d), b) .. LastOf(Flow(m, d), b) : Code(m, d)[at].op \notin LayoutOnly}
Called(m, d, at) == Normalized(m, m.functions[d], TurnsIn(m, m.functions[d]), Code(m, d)[at])
Leading(m, d, b) == NormalSuccessors(GraphIn(m, m.functions[d]), Order(m, d), b)

(* Functions whose normal forms agree.                                     *)
Twins(m, d, n, e) ==
  HasCode(m, d) /\ HasCode(n, e) /\ NormalizedBody(m, m.functions[d]) = NormalizedBody(n, n.functions[e])

(* Blocks of twins that have the same place in the order.                  *)
Facing(m, d, n, e, b, c) == \E p \in DOMAIN Order(m, d) : Order(m, d)[p] = b /\ Order(n, e)[p] = c
Fallen == {"Ret", "Abort"}

(* Their ends are of one kind and lead to such blocks again.               *)
EndsLike(m, d, n, e, k, l) ==
  LET w == Flow(m, d)
      v == Flow(n, e)
  IN  /\ k \in DOMAIN w /\ l \in DOMAIN v /\ w[k].op \in Opcodes /\ v[l].op \in Opcodes
      /\ w[k].op \in Fallen <=> v[l].op \in Fallen
      /\ w[k].op = "Plain" <=> v[l].op = "Plain"
      /\ w[k].op = "Branch" <=> v[l].op = "Branch"
      /\ Conditional(w[k].op) <=> Conditional(v[l].op)
      /\ w[k].op \notin Fallen => \A answer \in BOOLEAN :
           Facing(m, d, n, e, BlockOf(w, Goes(w, k, answer)), BlockOf(v, Goes(v, l, answer)))

(* The next instruction from a place on that is more than a gap.           *)
Stops(m, d, at, a) ==
  /\ at \in DOMAIN Code(m, d) /\ a \in DOMAIN Code(m, d) /\ at <= a /\ Code(m, d)[a].op # "Nop"
  /\ \A k \in at .. a - 1 : Code(m, d)[k].op = "Nop"

(* What is known of a block: gaps are between what is seen of it, and only *)
(* its end leads elsewhere.                                                *)
BlockHolds(m, d, b) ==
  LET w == Flow(m, d)
      begin == BlockStart(w, b)
      last == LastOf(w, b)
      seen == Seen(m, d, b)
  IN  /\ begin \in DOMAIN Code(m, d) /\ last \in DOMAIN Code(m, d) /\ begin <= last
      /\ BlockOf(w, begin) = b /\ BlockOf(w, last) = b
      /\ IsFiniteSet(seen) /\ seen \subseteq Int /\ seen \subseteq DOMAIN Code(m, d)
      /\ \A at \in begin .. last - 1 : at \notin seen => Code(m, d)[at].op = "Nop"
      /\ \A at \in begin .. last : at \in seen <=> Code(m, d)[at].op \notin LayoutOnly
      /\ \A at \in begin .. last - 1 : w[at].op = "Plain"
      /\ w[last].op = "Plain" => last + 1 \in DOMAIN Code(m, d) /\ last + 1 = BlockStart(w, BlockOf(w, last + 1))
      /\ Branches(w[last].op) => w[last].target = BlockStart(w, BlockOf(w, w[last].target))
      /\ Conditional(w[last].op) => last + 1 = BlockStart(w, BlockOf(w, last + 1))

(* Instructions of twins that answer one another: both seen, at one place  *)
(* of blocks that do, or branches at the ends of these.                    *)
Matched(m, d, n, e, a1, a2) ==
  \E p \in DOMAIN Order(m, d) :
    LET b == Order(m, d)[p]
        c == Order(n, e)[p]
    IN  \/ \E k \in 1 .. Cardinality(Seen(m, d, b)) :
             a1 = Ascending(Seen(m, d, b))[k] /\ a2 = Ascending(Seen(n, e, c))[k]
        \/ /\ a1 = LastOf(Flow(m, d), b) /\ a2 = LastOf(Flow(n, e), c)
           /\ Branches(Flow(m, d)[a1].op) /\ Branches(Flow(n, e)[a2].op)
SamePlace(m, d, n, e, x, y) ==
  \E a1 \in DOMAIN Code(m, d), a2 \in DOMAIN Code(n, e) :
    Stops(m, d, x, a1) /\ Stops(n, e, y, a2) /\ Matched(m, d, n, e, a1, a2)

(* Twins from instructions that answer one another on.                     *)
GoesOnLike(m, d, n, e, a1, a2) ==
  /\ a1 \in DOMAIN Code(m, d) /\ a2 \in DOMAIN Code(n, e)
  /\ \/ Called(m, d, a1) = Called(n, e, a2) /\ ~ Branches(Flow(m, d)[a1].op) /\ ~ Branches(Flow(n, e)[a2].op)
     \/ Flow(m, d)[a1].op = "Branch" /\ Flow(n, e)[a2].op = "Branch"
     \/ Conditional(Flow(m, d)[a1].op) /\ Conditional(Flow(n, e)[a2].op)
  /\ Flow(m, d)[a1].op \notin Fallen => \A answer \in BOOLEAN :
       SamePlace(m, d, n, e, Goes(Flow(m, d), a1, answer), Goes(Flow(n, e), a2, answer))
-----------------------------------------------------------------------------
(* What of types is compared, and what they are when code runs.            *)
NamedFrom(m, t, below) ==
  [kind |-> t.kind, of |-> IF t.kind = "Struct" THEN m.structHandles[t.index].name ELSE t.index, arguments |-> below]
NamedBelow(m, t) == [k \in DOMAIN t.arguments |-> typeName(m, t.arguments[k])]

RealFrom(m, t, types, below) ==
  IF t.kind = "TypeParameter" THEN types[t.index] ELSE [typeName(m, t) EXCEPT !.arguments = below]
RealBelow(m, t, types) == [k \in DOMAIN t.arguments |-> RunTimeType(m, t.arguments[k], types)]

(* Lists of types that have one name.                                      *)
SignaturesAlike(m, n, p, q) == signatureName(m, p) = signatureName(n, q)

(* What fields are called (field_symbols, src/semantic.cpp).               *)
FieldSymbols(m, d, fields, variant) == [k \in DOMAIN fields |-> <<StructName(m, d)>> \o variant \o <<fields[k].name>>]
SymbolsOf(m, d, v) ==
  LET variant == m.table.struct[d].variants[v] IN FieldSymbols(m, d, variant.fields, <<variant.name>>)

(* The fields of a definition one variant after the other.                 *)
FieldChain(m, d, q) ==
  LET V == Len(m.table.struct[d].variants)
  IN  /\ q[0] = FieldSymbols(m, d, m.table.struct[d].fields, << >>)
      /\ \A k \in 0 .. V - 1 : q[k + 1] = q[k] \o SymbolsOf(m, d, k + 1)
      /\ \A k \in 0 .. V : q[k] \in Seq(Range(q[k]))
      /\ DefinitionFields(m, d) = q[V]

(* Sound modules that compare as equal.                                    *)
Equal(m, n) ==
  Sound(m) /\ Sound(n) /\ Interface(m) = Interface(n) /\ Bodies(m) = Bodies(n) /\ Linked(m, n)

(* Functions of one name that have code.                                   *)
Companions(m, d, n, e) ==
  /\ Equal(m, n) /\ HasCode(m, d) /\ HasCode(n, e)
  /\ FunctionName(m, m.functions[d]) = FunctionName(n, n.functions[e])

(* What is declared of a struct, in two modules.                           *)
FieldsAlike(a, b) ==
  /\ DOMAIN a = DOMAIN b /\ Len(a) = Len(b) /\ \A k \in DOMAIN a : a[k].name = b[k].name
StructsAlike(m, d, n, e) ==
  LET a == m.table.struct[d]
      b == n.table.struct[e]
  IN  /\ FieldsAlike(a.fields, b.fields)
      /\ DOMAIN a.variants = DOMAIN b.variants
      /\ \A v \in DOMAIN a.variants : a.variants[v].name = b.variants[v].name /\ FieldsAlike(a.variants[v].fields, b.variants[v].fields)
-----------------------------------------------------------------------------
(* Instructions that name the same things.                                 *)
NamedAlike(m, n, i, j) ==
  /\ i.op = j.op
  /\ KindOf(i.op) # "none" => /\ NameOf(m, KindOf(i.op), UseOf(m, i).of) = NameOf(n, KindOf(i.op), UseOf(n, j).of)
                              /\ SignaturesAlike(m, n, UseOf(m, i).arguments, UseOf(n, j).arguments)
                              /\ i.op = "PackClosure" => i.captured = j.captured
  /\ KindOf(i.op) = "none" /\ i.op \notin LocalOps => i.arg = j.arg
Local(m, d, l) == LocalName(m, m.functions[d], TurnsIn(m, m.functions[d]), l)

(* The function, struct, field or variant that an instruction names.       *)
EntryOf(m, i) == m.table[KindOf(i.op)][UseOf(m, i).of]

(* The locals that names are made for: parameters, and those that some     *)
(* instruction is on.                                                      *)
Params(m, d) == Len(m.table.function[m.functions[d].handle].parameters)
Slots(m, d) == (0 .. Params(m, d) - 1) \cup OwnLocals(m, m.functions[d])

(* When an instruction has its turn.                                       *)
Turns(m, d) == TurnsIn(m, m.functions[d])

(* Where control goes after an instruction, by its opcode.                 *)
Follows(m, d, at, answer) ==
  LET i == Code(m, d)[at]
  IN  IF i.op = "Branch" \/ (i.op \in Tests /\ answer = (i.op = "BrTrue")) THEN i.arg ELSE at + 1

(* Instructions of companions that answer one another, by their opcodes.   *)
Partners(m, d, n, e, a1, a2) ==
  LET i == Code(m, d)[a1]
      j == Code(n, e)[a2]
  IN  /\ a1 \in DOMAIN Code(m, d) /\ a2 \in DOMAIN Code(n, e)
      /\ \/ i.op \notin {"Branch", "BrTrue", "BrFalse"} /\ Called(m, d, a1) = Called(n, e, a2)
         \/ i.op = "Branch" /\ j.op = "Branch"
         \/ i.op \in Tests /\ j.op \in Tests
      /\ i.op \notin {"Ret", "Abort", "AbortMsg"} => \A answer \in BOOLEAN :
           SamePlace(m, d, n, e, Follows(m, d, a1, answer), Follows(n, e, a2, answer))
-----------------------------------------------------------------------------
(* Calls of companions: of one instance, with the same on their stacks and *)
(* in locals of one name; then also at places that answer one another.     *)
LocalsAlike(m, d, n, e, v, w) ==
  \A k \in Slots(m, d), l \in Slots(n, e) : Local(m, d, k) = Local(n, e, l) => v[k] = w[l]
FramesAlike(m, n, x, y) ==
  /\ Companions(m, x.function, n, y.function) /\ x.types = y.types
  /\ LocalsAlike(m, x.function, n, y.function, x.locals, y.locals)
Paired(m, n, x, y) ==
  FramesAlike(m, n, x, y) /\ x.stack = y.stack /\ SamePlace(m, x.function, n, y.function, x.pc, y.pc)
Met(m, n, x, y) ==
  FramesAlike(m, n, x, y) /\ x.stack = y.stack /\ Matched(m, x.function, n, y.function, x.pc, y.pc)

(* Going on from a frame over what is silent, without an end.              *)
IsSilent(m, x) == InstructionAt(m, x).op \in Silent
GoneOn(m, x) == IF IsSilent(m, x) THEN AfterSilent(x, InstructionAt(m, x)) ELSE x
Chain(m, x, r) ==
  /\ r[0] = x
  /\ \A k \in Nat : Ready(m, r[k], 0) /\ r[k].function = x.function /\ r[k + 1] = GoneOn(m, r[k])

(* The rounds of settling.                                                 *)
RoundsOf(m, x, done) ==
  /\ done[0] = [frame |-> x, met |-> {}]
  /\ \A k \in Nat : done[k + 1] = FrameGoesOn(m, done[k])
  /\ SettledFrame(m, x) = done[Size(Code(m, x.function))].frame

(* Where a chain has come round, or come to something that is seen.        *)
PlacesOf(r, j) == {r[i].pc : i \in 0 .. j - 1}
Come(m, r, j) ==
  (\A i \in 0 .. j - 1 : IsSilent(m, r[i])) /\ (~ IsSilent(m, r[j]) \/ r[j].pc \in PlacesOf(r, j))

(* A gap on one side changes nothing.                                      *)
IsGap(m, x) == Code(m, x.function)[x.pc].op = "Nop"

(* What is in a local when a call is entered.                              *)
Entering(arguments, l) == IF l < Len(arguments) THEN arguments[l + 1] ELSE NoValue

(* Two machines whose calls are companions at places that answer one       *)
(* another, before and after they have gone on to their next events.       *)
MachinesPaired(m, n, s, t) == Len(s) = Len(t) /\ \A k \in 1 .. Len(s) : Paired(m, n, s[k], t[k])
TopsAlike(m, n, x, y) ==
  (IsSilent(m, x) <=> IsSilent(n, y)) /\ (~ IsSilent(m, x) => Met(m, n, x, y))
MachinesAlike(m, n, s, t) ==
  /\ Len(s) = Len(t) /\ \A k \in 1 .. Len(s) - 1 : Paired(m, n, s[k], t[k])
  /\ s # << >> => TopsAlike(m, n, Top(s), Top(t))

(* Instructions that are seen, at places that answer one another: they do  *)
(* the same, and go on to such places.                                     *)
Onward(x, i, answer) == IF i.op \in Tests /\ answer = (i.op = "BrTrue") THEN i.arg ELSE x.pc + 1
ActAlike(m, n, x, y) ==
  LET a == InstructionAt(m, x)
      b == InstructionAt(n, y)
  IN  /\ a.op \in Tests <=> b.op \in Tests
      /\ a.op \notin Tests =>
           /\ a.op = b.op /\ StackEffect(a) = StackEffect(b)
           /\ WorksOn(m, x, a) = WorksOn(n, y, b) /\ TypesOf(m, x, a) = TypesOf(n, y, b)
           /\ Entered(m, a) = {} <=> Entered(n, b) = {}
           /\ \A v \in Entered(m, a), w \in Entered(n, b) : Companions(m, v, n, w)
      /\ a.op \notin {"Ret", "Abort", "AbortMsg"} =>
           \A answer \in BOOLEAN : SamePlace(m, x.function, n, y.function, Onward(x, a, answer), Onward(y, b, answer))

(* Equal modules that run are alike, call by call.                         *)
RunsAlike ==
  /\ phase \in {"same", "run"} => Bodies(job.reference) = Bodies(job.candidate)
  /\ phase = "run" => MachinesAlike(job.reference, job.candidate, machines["reference"], machines["candidate"])
=============================================================================
