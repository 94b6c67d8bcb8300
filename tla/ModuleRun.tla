------------------------------ MODULE ModuleRun ------------------------------
(***************************************************************************)
(* Two modules validated, compared and, when they count as the same, run   *)
(* side by side: one step is one event of both, with the same answers.     *)
(***************************************************************************)
EXTENDS ModuleComparison

CONSTANTS Jobs,        \* [reference, candidate, relaid]
          MaxEvents,   \* how many events of a run are looked at
          MaxCalls     \* how deep its calls go

(* What the loader hands on (src/module_loader.cpp): tables of entries that *)
(* have their types and abilities, and code numbered from 0.  Whether an   *)
(* index leads anywhere is for the validator to say.                       *)
IsList(s) == s \in Seq(Range(s))
StructsLoadable(m) ==
  /\ IsList(m.structHandles)
  /\ \A h \in Range(m.structHandles) :
       /\ h.own \in BOOLEAN /\ h.abilities \subseteq All
       /\ h.typeParameters \in Seq([phantom : BOOLEAN, constraints : SUBSET All])
  /\ \A d \in Range(m.table.struct) :
       /\ IsList(d.fields) /\ \A f \in Range(d.fields) : f.type \in Types
       /\ IsList(d.variants)
       /\ \A v \in Range(d.variants) : IsList(v.fields) /\ \A f \in Range(v.fields) : f.type \in Types
FunctionsLoadable(m) ==
  /\ \A h \in Range(m.table.function) :
       h.parameters \in Seq(Types) /\ h.returns \in Seq(Types) /\ h.typeParameters \in Seq(SUBSET All)
  /\ IsList(m.functions)
  /\ \A f \in Range(m.functions) :
       /\ f.locals \in Seq(Types) /\ IsList(f.acquires)
       /\ IsFiniteSet(DOMAIN f.code) /\ DOMAIN f.code = 0 .. Size(f.code) - 1
       /\ \A i \in Range(f.code) :
            /\ {"op", "arg", "generic"} \subseteq DOMAIN i /\ "at" \notin DOMAIN i
            /\ i.op \in AllOps /\ i.arg \in Nat
            /\ i.generic \in BOOLEAN /\ (i.generic => KindOf(i.op) # "none")
            /\ "arity" \in DOMAIN i <=> i.op \in OwnArity
            /\ i.op \in OwnArity => i.arity[1] \in Nat /\ i.arity[2] \in Nat
Loadable(m) ==
  /\ StructsLoadable(m) /\ FunctionsLoadable(m)
  /\ \A kind \in Kinds : /\ IsList(m.table[kind]) /\ IsList(m.instances[kind])
                         /\ \A use \in Range(m.instances[kind]) : use.arguments \in Seq(Types)

(* Both are compiled against the same packages: a function of another      *)
(* module takes and returns as much in both, and so does an instruction    *)
(* that says itself how much, which its argument stands for.               *)
Imported(m) == {h \in DOMAIN m.table.function : DefinitionsNamed(m, h) = {}}
CodeOfAll(m) == UNION {Range(f.code) : f \in Range(m.functions)}
Linked(m, n) ==
  /\ \A h \in Imported(m), g \in Imported(n) :
       LET x == m.table.function[h]
           y == n.table.function[g]
       IN  x.name = y.name => Len(x.parameters) = Len(y.parameters) /\ Len(x.returns) = Len(y.returns)
  /\ \A i \in CodeOfAll(m), j \in CodeOfAll(n) :
       i.op \in OwnArity /\ i.op = j.op /\ i.arg = j.arg => i.arity = j.arity

ASSUME JobsAssumption ==
  \A j \in Jobs : Loadable(j.reference) /\ Loadable(j.candidate) /\ Linked(j.reference, j.candidate) /\ j.relaid \in BOOLEAN
ASSUME BoundsAssumption == MaxEvents \in Nat /\ MaxCalls \in Nat

VARIABLES job, phase, check, machines, events

vars == <<job, phase, check, machines, events>>

Module == [reference |-> job.reference, candidate |-> job.candidate]
Roles == {"reference", "candidate"}
Refusal == [reference |-> "referenceRefused", candidate |-> "candidateRefused"]

Init ==
  /\ job \in Jobs
  /\ phase = "reference" /\ check = 1
  /\ machines = [r \in Roles |-> << >>] /\ events = 0

(* One check of the module that is validated.                              *)
Check ==
  /\ phase \in Roles
  /\ LET passed == Passes(Module[phase], Checks[check])
         last == check = Len(Checks)
     IN  /\ check' = CASE ~ passed -> check [] passed /\ last -> 1 [] OTHER -> check + 1
         /\ phase' = CASE ~ passed -> Refusal[phase]
                       [] passed /\ ~ last -> phase
                       [] passed /\ last /\ phase = "reference" -> "candidate"
                       [] OTHER -> "compare"
  /\ UNCHANGED <<job, machines, events>>

Compare ==
  /\ phase = "compare"
  /\ phase' = IF Equivalent(job.reference, job.candidate) THEN "same" ELSE "different"
  /\ UNCHANGED <<job, check, machines, events>>
-----------------------------------------------------------------------------
(* The Move VM (external).  A value is a constant, or the event it came    *)
(* from with its place among the results.                                  *)
RunTimeType(m, t, types) ==
  LET real[u \in Types] ==
        IF u.kind = "TypeParameter" THEN types[u.index]
        ELSE [typeName(m, u) EXCEPT !.arguments = [k \in DOMAIN u.arguments |-> real[u.arguments[k]]]]
  IN  real[t]
TypesOf(m, frame, i) == [k \in DOMAIN UseOf(m, i).arguments |-> RunTimeType(m, UseOf(m, i).arguments[k], frame.types)]

(* What an instruction works on when it runs: a function or struct of some *)
(* name, a field or variant by its number in it, what a local holds.       *)
WorksOn(m, frame, i) ==
  LET of == UseOf(m, i).of
      entry == m.table[KindOf(i.op)][of]
  IN  CASE KindOf(i.op) = "function" -> <<entry.name>>
        [] KindOf(i.op) = "struct" -> <<StructName(m, of)>>
        [] KindOf(i.op) = "field" -> <<StructName(m, entry.owner), entry.field>>
        [] KindOf(i.op) = "variant" -> <<StructName(m, entry.owner), entry.variant>>
        [] KindOf(i.op) = "variantField" -> <<StructName(m, entry.owner), ToSet(entry.variants), entry.field>>
        [] i.op \in Locals -> <<frame.locals[i.arg]>>
        [] OTHER -> <<i.arg>>

Top(machine) == Last(machine)
FunctionOf(m, frame) == m.functions[frame.function]
InstructionAt(m, frame) == Body(m, FunctionOf(m, frame)).code[frame.pc]
Taken(frame, n) == SubSeq(frame.stack, Len(frame.stack) - n + 1, Len(frame.stack))
Rest(frame, n) == SubSeq(frame.stack, 1, Len(frame.stack) - n)
WithTop(machine, frame) == [machine EXCEPT ![Len(machine)] = frame]

(* Instructions that nobody sees.                                          *)
Silent == {"Nop", "Branch", "CopyLoc", "MoveLoc", "StLoc", "Pop", "LdConst"}
AfterSilent(frame, i) ==
  [frame EXCEPT
     !.pc = IF i.op = "Branch" THEN i.arg ELSE @ + 1,
     !.locals = IF i.op = "StLoc" THEN [@ EXCEPT ![i.arg] = Last(frame.stack)] ELSE @,
     !.stack = CASE i.op \in {"CopyLoc", "MoveLoc"} -> Append(@, frame.locals[i.arg])
                 [] i.op = "LdConst" -> Append(@, <<"constant", i.arg>>)
                 [] i.op \in {"StLoc", "Pop"} -> Front(@)
                 [] OTHER -> @]

(* Up to the next instruction that is seen; round such instructions only,  *)
(* it never comes.                                                         *)
FrameGoesOn(m, s) ==
  LET i == InstructionAt(m, s.frame) IN
  IF s.frame.pc \in s.met \/ i.op \notin Silent THEN s
  ELSE [frame |-> AfterSilent(s.frame, i), met |-> s.met \cup {s.frame.pc}]
SettledFrame(m, frame) ==
  Iterate(LAMBDA s : FrameGoesOn(m, s), [frame |-> frame, met |-> {}], Size(FunctionOf(m, frame).code)).frame
Settle(m, machine) == IF machine = << >> THEN machine ELSE WithTop(machine, SettledFrame(m, Top(machine)))

Tests == {"BrTrue", "BrFalse"}
EventOf(m, machine) ==
  IF machine = << >> THEN <<"end">>
  ELSE LET frame == Top(machine)
           i == InstructionAt(m, frame)
       IN  CASE i.op \in Silent -> <<"endless">>
             [] i.op \in Tests -> <<"test", Last(frame.stack)>>
             [] OTHER -> <<i.op, WorksOn(m, frame, i), TypesOf(m, frame, i), Taken(frame, StackEffect(i)[1])>>

Frame(m, d, types, arguments) ==
  [function |-> d, types |-> types, pc |-> 0, stack |-> << >>,
   locals |-> [l \in 0 .. Len(LocalTypes(m, m.functions[d])) - 1 |->
                 IF l < Len(arguments) THEN arguments[l + 1] ELSE <<"none">>]]

(* The functions of the module itself that a call enters.                  *)
Entered(m, i) ==
  IF i.op = "Call" THEN {d \in DefinitionsNamed(m, UseOf(m, i).of) : ~ IsNative(m.functions[d])} ELSE {}

(* After its event, which is the n-th; a test has the given answer.        *)
AfterEvent(m, machine, n, answer) ==
  LET frame == Top(machine)
      i == InstructionAt(m, frame)
      taken == Taken(frame, StackEffect(i)[1])
      results == [k \in 1 .. StackEffect(i)[2] |-> <<"event", n, k>>]
      next(stack) == WithTop(machine, [frame EXCEPT !.pc = @ + 1, !.stack = stack])
  IN  CASE i.op \in Tests ->
             WithTop(machine, [frame EXCEPT !.pc = IF answer = (i.op = "BrTrue") THEN i.arg ELSE @ + 1, !.stack = Front(@)])
        [] i.op \in {"Abort", "AbortMsg"} -> << >>
        [] i.op = "Ret" -> IF Len(machine) = 1 THEN << >>
                           ELSE WithTop(Front(machine), [Top(Front(machine)) EXCEPT !.stack = @ \o taken])
        [] Entered(m, i) # {} ->
             Append(next(Rest(frame, StackEffect(i)[1])),
                    Frame(m, CHOOSE d \in Entered(m, i) : TRUE, TypesOf(m, frame, i), taken))
        [] OTHER -> next(Rest(frame, StackEffect(i)[1]) \o results)

(* A function of the module is called from outside.                        *)
Call ==
  /\ phase = "same"
  /\ \E f \in {g \in ToSet(job.reference.functions) : ~ IsNative(g)} :
       LET handle == job.reference.table.function[f.handle]
           types == [k \in DOMAIN handle.typeParameters |-> typeName(job.reference, u64)]
           arguments == [k \in DOMAIN handle.parameters |-> <<"argument", k>>]
       IN  machines' = [r \in Roles |->
             LET m == Module[r]
                 d == CHOOSE e \in DOMAIN m.functions : FunctionName(m, m.functions[e]) = handle.name
             IN  Settle(m, <<Frame(m, d, types, arguments)>>)]
  /\ phase' = "run"
  /\ UNCHANGED <<job, check, events>>

Event(r) == EventOf(Module[r], machines[r])
Going(r) == Event(r) \notin {<<"end">>, <<"endless">>} /\ Len(machines[r]) <= MaxCalls

Step ==
  /\ phase = "run" /\ events < MaxEvents
  /\ Event("reference") = Event("candidate") /\ \A r \in Roles : Going(r)
  /\ \E answer \in (IF Event("reference")[1] = "test" THEN BOOLEAN ELSE {TRUE}) :
       machines' = [r \in Roles |-> Settle(Module[r], AfterEvent(Module[r], machines[r], events, answer))]
  /\ events' = events + 1
  /\ UNCHANGED <<job, phase, check>>

Next == Check \/ Compare \/ Call \/ Step

Spec == Init /\ [][Next]_vars
-----------------------------------------------------------------------------
(* Types without parameters that the structs of a module make.             *)
Closed(m, arguments) ==
  {t \in UNION {{Struct(h, a) : a \in [DOMAIN m.structHandles[h].typeParameters -> arguments]} : h \in DOMAIN m.structHandles} :
     t \in Types /\ NestedConstraintsOK(m, t, << >>)}
PlainTypes(m) == {u64} \cup Closed(m, {})
ClosedTypes(m) == PlainTypes(m) \cup Closed(m, PlainTypes(m))

Filled(t, arguments) ==
  LET filled[u \in Types] ==
        IF u.kind = "TypeParameter" THEN arguments[u.index]
        ELSE [u EXCEPT !.arguments = [k \in DOMAIN u.arguments |-> filled[u.arguments[k]]]]
  IN  filled[t]

(* What a value of such a type holds, as far as types go; of other         *)
(* modules' structs, only what they declare is known.                      *)
IsOwn(m, t) == t.kind = "Struct" /\ m.structHandles[t.index].own
FieldTypes(m, h) ==
  UNION {{f.type : f \in ToSet(d.fields) \cup UNION {ToSet(v.fields) : v \in ToSet(d.variants)}} :
           d \in {e \in ToSet(m.table.struct) : e.handle = h}}
Contents(m, t) ==
  IF IsOwn(m, t) THEN {u \in {Filled(f, t.arguments) : f \in FieldTypes(m, t.index)} : u \in Types}
  ELSE {t.arguments[k] : k \in {j \in DOMAIN t.arguments :
                                  t.kind = "Struct" => ~ m.structHandles[t.index].typeParameters[j].phantom}}

(* All that is in it, up to a depth that the structs of a module can only  *)
(* go beyond by holding themselves.                                        *)
HeldBy(m, types) == UNION {Contents(m, t) : t \in types}
Levels(m) == 4 * Len(m.structHandles) + 4
Inside(m, t) == Iterate(LAMBDA types : types \cup HeldBy(m, types), {t}, Levels(m))
Ends(m, t) == Iterate(LAMBDA types : HeldBy(m, types), {t}, Levels(m)) = {}

(* A value can really be copied, dropped, stored or kept under a key if    *)
(* that may be done to all it holds.                                       *)
Can(m, t, a) == a \in (IF t.kind = "Struct" THEN m.structHandles[t.index].abilities ELSE {"copy", "drop", "store"})
Really(m, t, a) == Can(m, t, a) /\ \A u \in UNION {Inside(m, v) : v \in Contents(m, t)} : Can(m, u, Required(a))

TypeDepth(t) ==
  LET depth[u \in Types] == 1 + Max({0} \cup {depth[v] : v \in ToSet(u.arguments)}) IN depth[t]

(* The instances of functions that calls lead to: those of a call, filled. *)
Meets(m, t, constraints) == \A a \in constraints : Really(m, t, a)
RootInstances(m) ==
  UNION {{<<d, types>> : types \in {a \in [DOMAIN Formals(m, d) -> PlainTypes(m)] :
                                      \A k \in DOMAIN a : Meets(m, a[k], Formals(m, d)[k])}} :
           d \in DOMAIN m.functions}
CalledInstances(m, instance) ==
  {x \in {<<call.callee, [k \in DOMAIN call.arguments |-> Filled(call.arguments[k], instance[2])]>> :
             call \in {c \in GenericCalls(m) : c.caller = instance[1]}} : x[2] \in Seq(Types)}

(* Only calls that go round, with a larger type each time, lead deeper     *)
(* than this; a round goes through no more calls than there are type       *)
(* parameters, and so many rounds are looked at.                           *)
Depth(m) == 2 + 2 * Cardinality(InstantiationNodes(m))
TooDeep(m, instance) == \E t \in ToSet(instance[2]) : TypeDepth(t) > Depth(m)
CallsFrom(m, s) ==
  LET called == UNION {CalledInstances(m, x) : x \in {y \in s.new : ~ TooDeep(m, y)}} \ s.known
  IN  [known |-> s.known \cup called, new |-> called]
Instances(m) ==
  Iterate(LAMBDA s : CallsFrom(m, s), [known |-> RootInstances(m), new |-> RootInstances(m)],
          Cardinality(InstantiationNodes(m)) * (Depth(m) + 1)).known
-----------------------------------------------------------------------------
IsAccepted == phase = "candidate" /\ check = 1
Refused(why) == phase = "referenceRefused" /\ Checks[check] = why
m1 == job.reference

TypeOK ==
  /\ job \in Jobs /\ check \in 1 .. Len(Checks) /\ events \in 0 .. MaxEvents
  /\ phase \in Roles \cup {Refusal[r] : r \in Roles} \cup {"compare", "same", "different", "run"}
  /\ DOMAIN machines = Roles /\ \A r \in Roles : Len(machines[r]) <= MaxCalls + 1

(* validator.cpp:83-254, 359-380: the abilities of a type are worked out   *)
(* from what its struct declares and from its arguments, never from its    *)
(* fields: what is in the fields of an accepted module bears them out, the *)
(* types in them meet the constraints of their structs, and those of every *)
(* instance of a function its own.                                         *)
AbilitiesHoldInside ==
  IsAccepted =>
    /\ \A t \in ClosedTypes(m1) :
         /\ \A a \in typeAbilities(m1, t, << >>) : Really(m1, t, a)
         /\ \A u \in Inside(m1, t) : u.kind = "Struct" =>
              \A k \in DOMAIN u.arguments : Meets(m1, u.arguments[k], m1.structHandles[u.index].typeParameters[k].constraints)
    /\ \A x \in Instances(m1) : \A k \in DOMAIN x[2] : Meets(m1, x[2][k], Formals(m1, x[1])[k])

(* validator.cpp:382-556: values of an accepted module's types end, and    *)
(* calls lead to types of bounded depth; a module that is refused for its  *)
(* instantiations really has calls that lead to larger and larger types.   *)
InstantiationIsFinite ==
  /\ IsAccepted => /\ \A t \in ClosedTypes(m1) : Ends(m1, t)
                 /\ \A x \in Instances(m1) : ~ TooDeep(m1, x)
  /\ Refused("loops") => \E x \in Instances(m1) : TooDeep(m1, x)

(* validator.cpp, acquires: a resource is taken or borrowed only while all *)
(* functions whose calls led there declare that they acquire it.           *)
TouchesAreDeclared ==
  \A r \in {q \in Roles : machines[q] # << >>} :
    LET m == Module[r]
        i == InstructionAt(m, Top(machines[r]))
    IN  i.op # "Call" => \A frame \in ToSet(machines[r]) : Touched(m, i) \subseteq ToSet(FunctionOf(m, frame).acquires)

(* stackless_ir.cpp, local_analysis.cpp: an instruction finds the operands  *)
(* it takes on the stack of its own call, and a value in the local that it *)
(* reads; nothing is left over when a call returns.                        *)
OperandsAreThere ==
  \A r \in {q \in Roles : machines[q] # << >>} :
    LET frame == Top(machines[r])
        i == InstructionAt(Module[r], frame)
        height == Len(frame.stack)
    IN  /\ IF i.op = "Ret" THEN height = StackEffect(i)[1] ELSE height >= StackEffect(i)[1]
        /\ i.op \in Locals => frame.locals[i.arg] # <<"none">>

(* Both of them, of the runs of accepted modules.                          *)
AcceptedCodeRuns == TouchesAreDeclared /\ OperandsAreThere

(* body_compare.cpp: functions whose normal forms agree do the same, test  *)
(* by test and call by call, with the same values.                         *)
EqualModulesRunAlike == phase = "run" => Event("reference") = Event("candidate")

(* body_compare.cpp:131-165, module_compare.cpp: locals and tables in      *)
(* another order make no difference, nor do blocks in another order or a   *)
(* test turned round, as long as every jump stays written out (the kind of *)
(* an edge is compared, 417).                                              *)
RelaidModulesAreEqual == job.relaid => phase \notin {"candidateRefused", "different"}
=============================================================================
