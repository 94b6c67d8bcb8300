------------------------------ MODULE Validator ------------------------------
(***************************************************************************)
(* validateModule (src/validator.cpp): what the tables of a module must    *)
(* satisfy before anything is made of it.                                  *)
(*                                                                         *)
(* A module m has its struct handles, its functions (definitions) and, for *)
(* each kind of thing an instruction may name, a table and the instances   *)
(* of its generic entries; tables are numbered from 1, blocks and code     *)
(* from 0.  A signature stands where the code has its index.  An           *)
(* instruction has an opcode, an argument and whether it is the generic    *)
(* form: then the argument is an instance.                                 *)
(***************************************************************************)
EXTENDS GraphAnalysis, LocalCheck

Kinds == {"function", "struct", "field", "variantField", "variant"}
KindOf(op) ==
  CASE op \in {"Call", "PackClosure"} -> "function"
    [] op \in {"Pack", "Unpack", "Exists", "MutBorrowGlobal", "ImmBorrowGlobal", "MoveFrom", "MoveTo"} -> "struct"
    [] op \in {"MutBorrowField", "ImmBorrowField"} -> "field"
    [] op \in {"MutBorrowVariantField", "ImmBorrowVariantField"} -> "variantField"
    [] op \in {"PackVariant", "UnpackVariant", "TestVariant"} -> "variant"
    [] OTHER -> "none"

Instance(of, arguments) == [of |-> of, arguments |-> arguments]
UseOf(m, i) == IF i.generic THEN m.instances[KindOf(i.op)][i.arg] ELSE Instance(i.arg, << >>)

DefinitionOf(m, kind, of) == IF kind = "struct" THEN of ELSE m.table[kind][of].owner
HandleOf(m, definition) == m.structHandles[m.table.struct[definition].handle]
ConstraintsOf(parameters) == [k \in DOMAIN parameters |-> parameters[k].constraints]
FormalsOf(m, kind, of) ==
  IF kind = "function" THEN m.table.function[of].typeParameters
  ELSE ConstraintsOf(HandleOf(m, DefinitionOf(m, kind, of)).typeParameters)
-----------------------------------------------------------------------------
(* Types: trees, of a depth that the loader admits.  The instantiation of  *)
(* a struct without type parameters is the struct itself.                  *)
CONSTANT MaximumTypeDepth   \* kMaximumTypeDepth

ASSUME DepthAssumption == MaximumTypeDepth \in Nat \ {0}

TypeKinds == {"U64", "TypeParameter", "Vector", "Reference", "Struct"}
TypesUpTo[n \in 0 .. MaximumTypeDepth] ==
  IF n = 0 THEN {} ELSE [kind : TypeKinds, index : Nat, arguments : Seq(TypesUpTo[n - 1])]
Types == TypesUpTo[MaximumTypeDepth]

Type(kind, index, arguments) == [kind |-> kind, index |-> index, arguments |-> arguments]
u64 == Type("U64", 0, << >>)
TypeParameter(k) == Type("TypeParameter", k, << >>)
Vector(t) == Type("Vector", 0, <<t>>)
Reference(t) == Type("Reference", 0, <<t>>)
Struct(handle, arguments) == Type("Struct", handle, arguments)

All == {"copy", "drop", "store", "key"}
Everything(parameters) == [k \in DOMAIN parameters |-> All]

(* What is required of an argument or a field, and of what has ability a.  *)
Required(a) == IF a = "key" THEN "store" ELSE a
requiredByDeclaredAbilities(declared) == {Required(a) : a \in declared}

(* Mutant of StructAbilities: key stays when an argument cannot be stored. *)
KeyWithoutStore(handle, held) ==
  {a \in handle.abilities : a = "key" \/ \A k \in DOMAIN held : handle.typeParameters[k].phantom \/ a \in held[k]}

(* What a struct declares, as far as its arguments hold up.                *)
StructAbilities(handle, held) ==
  {a \in handle.abilities : \A k \in DOMAIN held : handle.typeParameters[k].phantom \/ Required(a) \in held[k]}

(* typeAbilities: context has the abilities of the type parameters.        *)
typeAbilities(m, t, context) ==
  LET abilities[u \in Types] ==
        LET held == [k \in DOMAIN u.arguments |-> abilities[u.arguments[k]]]
        IN  CASE u.kind = "U64" -> {"copy", "drop", "store"}
              [] u.kind = "Reference" -> {"copy", "drop"}
              [] u.kind = "TypeParameter" -> IF u.index \in DOMAIN context THEN context[u.index] ELSE {}
              [] u.kind = "Vector" -> {"copy", "drop", "store"} \cap held[1]
              [] u.kind = "Struct" -> StructAbilities(m.structHandles[u.index], held)
  IN  abilities[t]

(* The types in a type, with itself, wherever the code goes down into it.  *)
Parts(t) ==
  LET parts[u \in Types] == {u} \cup UNION {parts[v] : v \in ToSet(u.arguments)} IN parts[t]

(* validateNestedTypeConstraints.                                          *)
NestedConstraintsOK(m, t, context) ==
  \A u \in Parts(t) : u.kind = "Struct" =>
    \A k \in DOMAIN u.arguments :
      m.structHandles[u.index].typeParameters[k].constraints \subseteq typeAbilities(m, u.arguments[k], context)

(* validateType: a reference is nowhere but outside.                       *)
TypeIsValid(m, t, parameters, allowReference) ==
  \A u \in Parts(t) :
    CASE u.kind = "Struct" -> /\ u.index \in DOMAIN m.structHandles
                              /\ Len(u.arguments) = Len(m.structHandles[u.index].typeParameters)
      [] u.kind = "TypeParameter" -> u.index \in 1 .. parameters /\ u.arguments = << >>
      [] u.kind = "Reference" -> allowReference /\ u = t /\ Len(u.arguments) = 1
      [] u.kind = "Vector" -> Len(u.arguments) = 1
      [] u.kind = "U64" -> u.arguments = << >>

(* As many type parameters as a table index can tell apart.                *)
AnyCount == 65536

SignatureOK(m, signature, parameters, context) ==
  \A t \in ToSet(signature) : TypeIsValid(m, t, parameters, TRUE) /\ NestedConstraintsOK(m, t, context)

(* validateInstantiationArguments: type parameters are taken to have all   *)
(* abilities; whether they do is asked where the instance is used.         *)
ArgumentsOK(m, arguments, constraints) ==
  /\ Len(arguments) = Len(constraints)
  /\ \A k \in DOMAIN arguments :
       LET context == [p \in 1 .. AnyCount |-> All] IN
       /\ TypeIsValid(m, arguments[k], AnyCount, FALSE)
       /\ NestedConstraintsOK(m, arguments[k], context)
       /\ constraints[k] \subseteq typeAbilities(m, arguments[k], context)
-----------------------------------------------------------------------------
(* validateCanonicalPools.                                                 *)
Distinct(table) == \A j, k \in DOMAIN table : table[j] = table[k] => j = k
NamesOf(table) == [k \in DOMAIN table |-> table[k].name]
PoolsOK(m) ==
  /\ Distinct(NamesOf(m.structHandles)) /\ Distinct(NamesOf(m.table.function))
  /\ \A kind \in {"field", "variantField", "variant"} : Distinct(m.table[kind])
  /\ \A kind \in Kinds : Distinct(m.instances[kind])

HandlesOK(m) ==
  \A h \in ToSet(m.table.function) :
    SignatureOK(m, h.parameters \o h.returns, Len(h.typeParameters), h.typeParameters)

InstancesOK(m) ==
  \A kind \in Kinds : \A use \in ToSet(m.instances[kind]) :
    use.of \in DOMAIN m.table[kind] /\ ArgumentsOK(m, use.arguments, FormalsOf(m, kind, use.of))

Phantom(t, parameters) == t.kind = "TypeParameter" /\ t.index \in DOMAIN parameters /\ parameters[t.index].phantom

(* Mutant of PhantomsOK: only a field that is a parameter is looked at.    *)
PhantomsOutside(m, t, parameters) == ~ Phantom(t, parameters)

(* validatePhantomPositions: parameters are those of the declaration.      *)
PhantomsOK(m, t, parameters) ==
  /\ ~ Phantom(t, parameters)
  /\ \A u \in Parts(t) : \A k \in DOMAIN u.arguments :
       Phantom(u.arguments[k], parameters) =>
         u.kind = "Struct" /\ m.structHandles[u.index].typeParameters[k].phantom

(* Mutant of FieldOK: constraints inside a field are asked of parameters   *)
(* that have all abilities.                                                *)
FieldOKTrusting(m, handle, t) ==
  /\ TypeIsValid(m, t, Len(handle.typeParameters), FALSE)
  /\ NestedConstraintsOK(m, t, Everything(handle.typeParameters))
  /\ requiredByDeclaredAbilities(handle.abilities) \subseteq typeAbilities(m, t, Everything(handle.typeParameters))
  /\ PhantomsOK(m, t, handle.typeParameters)

FieldOK(m, handle, t) ==
  /\ TypeIsValid(m, t, Len(handle.typeParameters), FALSE)
  /\ NestedConstraintsOK(m, t, ConstraintsOf(handle.typeParameters))
  /\ requiredByDeclaredAbilities(handle.abilities) \subseteq typeAbilities(m, t, Everything(handle.typeParameters))
  /\ PhantomsOK(m, t, handle.typeParameters)

FieldsOK(m, handle, fields) ==
  Distinct(NamesOf(fields)) /\ \A f \in ToSet(fields) : FieldOK(m, handle, f.type)
AllFields(definition) == definition.fields \o FlattenSeq([v \in DOMAIN definition.variants |-> definition.variants[v].fields])

(* Every struct of the module's own is defined once.                       *)
DefinedOnce(handles, definitions) ==
  /\ Distinct([k \in DOMAIN definitions |-> definitions[k].handle])
  /\ {d.handle : d \in ToSet(definitions)} = {k \in DOMAIN handles : handles[k].own}

StructsOK(m) ==
  /\ DefinedOnce(m.structHandles, m.table.struct)
  /\ \A d \in ToSet(m.table.struct) :
       LET handle == m.structHandles[d.handle] IN
       /\ d.fields # << >> \/ d.variants # << >>
       /\ FieldsOK(m, handle, d.fields)
       /\ Distinct(NamesOf(d.variants)) /\ \A v \in ToSet(d.variants) : FieldsOK(m, handle, v.fields)

(* Field handles; those of variants name a field all of them have with one *)
(* type.                                                                   *)
FieldHandlesOK(m) ==
  /\ \A h \in ToSet(m.table.field) :
       h.owner \in DOMAIN m.table.struct /\ h.field \in DOMAIN m.table.struct[h.owner].fields
  /\ \A h \in ToSet(m.table.variantField) :
       /\ h.owner \in DOMAIN m.table.struct
       /\ LET variants == m.table.struct[h.owner].variants IN
            /\ variants # << >> /\ h.variants # << >> /\ Distinct(h.variants)
            /\ \A v \in ToSet(h.variants) : v \in DOMAIN variants /\ h.field \in DOMAIN variants[v].fields
            /\ Cardinality({variants[v].fields[h.field].type : v \in ToSet(h.variants)}) = 1
  /\ \A h \in ToSet(m.table.variant) :
       h.owner \in DOMAIN m.table.struct /\ h.variant \in DOMAIN m.table.struct[h.owner].variants
-----------------------------------------------------------------------------
(* A function has its handle, what it acquires, the types of its locals    *)
(* and its code, none if it is native.                                     *)
LocalTypes(m, f) == m.table.function[f.handle].parameters \o f.locals
IsNative(f) == DOMAIN f.code = {}
DefinitionsNamed(m, handle) == {d \in DOMAIN m.functions : m.functions[d].handle = handle}

(* validateInstruction: what is named exists, and the form is the generic  *)
(* one exactly if it has type parameters.                                  *)
InstructionOK(m, f, i) ==
  LET kind == KindOf(i.op) IN
  /\ i.op \in Locals \cup {"StLoc"} => i.arg + 1 \in DOMAIN LocalTypes(m, f)
  /\ kind # "none" => /\ i.arg \in DOMAIN (IF i.generic THEN m.instances[kind] ELSE m.table[kind])
                      /\ i.generic <=> FormalsOf(m, kind, UseOf(m, i).of) # << >>
  /\ i.op = "PackClosure" => i.captured \subseteq DOMAIN m.table.function[UseOf(m, i).of].parameters

(* What the tables say an instruction takes and leaves; these say it       *)
(* themselves.                                                             *)
OwnArity == {"CallClosure", "VecPack", "VecUnpack"}
TableArity(m, f, i) ==
  LET of == UseOf(m, i).of
      definition == m.table.struct[DefinitionOf(m, KindOf(i.op), of)]
      fields == IF KindOf(i.op) = "struct" THEN Len(definition.fields)
                ELSE Len(definition.variants[m.table.variant[of].variant].fields)
  IN  CASE i.op = "Ret" -> <<Len(m.table.function[f.handle].returns), 0>>
        [] i.op = "Call" -> <<Len(m.table.function[of].parameters), Len(m.table.function[of].returns)>>
        [] i.op = "PackClosure" -> <<Cardinality(i.captured), 1>>
        [] i.op \in {"Pack", "PackVariant"} -> <<fields, 1>>
        [] i.op \in {"Unpack", "UnpackVariant"} -> <<1, fields>>
        [] OTHER -> <<0, 0>>
Body(m, f) ==
  [code |-> [at \in DOMAIN f.code |-> Annotated(f.code[at], [arity |-> TableArity(m, f, f.code[at])])],
   parameters |-> Len(m.table.function[f.handle].parameters),
   locals |-> [l \in 0 .. Len(LocalTypes(m, f)) - 1 |-> LocalTypes(m, f)[l + 1]]]

(* Mutant of UseIsAllowed: the constraints are left to the instance.       *)
UseIsValid(m, f, i) ==
  \A t \in ToSet(UseOf(m, i).arguments) : TypeIsValid(m, t, Len(m.table.function[f.handle].typeParameters), FALSE)

(* requireAbilityConstraints of type_analysis.cpp, with the abilities the  *)
(* type parameters of the caller really have.                              *)
UseIsAllowed(m, f, i) ==
  LET use == UseOf(m, i)
      formals == FormalsOf(m, KindOf(i.op), use.of)
      context == m.table.function[f.handle].typeParameters
  IN  \A k \in DOMAIN use.arguments :
        /\ TypeIsValid(m, use.arguments[k], Len(context), FALSE)
        /\ formals[k] \subseteq typeAbilities(m, use.arguments[k], context)

(* The checks of a code unit.  Types and borrows are those of VerifiedRun. *)
CodeOK(m, f) ==
  LET context == m.table.function[f.handle].typeParameters
      body == Body(m, f)
      graph == buildControlFlowGraph(FlowOf(body.code))
  IN  /\ SignatureOK(m, f.locals, Len(context), context)
      /\ \A at \in DOMAIN f.code : InstructionOK(m, f, f.code[at])
      /\ ~ CfgRejects(FlowOf(body.code))
      /\ \A b \in DOMAIN graph : graph[b].exit # "FallOff"
      /\ StackUsageOK(body.code, graph)
      /\ \A at \in DOMAIN f.code : f.code[at].generic => UseIsAllowed(m, f, f.code[at])
      /\ ~ LocalsRefused(body, graph)

FunctionsOK(m) ==
  /\ DefinedOnce(m.table.function, m.functions)
  /\ \A f \in ToSet(m.functions) :
       /\ Distinct(f.acquires)
       /\ \A d \in ToSet(f.acquires) : d \in DOMAIN m.table.struct /\ "key" \in HandleOf(m, d).abilities
       /\ ~ IsNative(f) => CodeOK(m, f)
-----------------------------------------------------------------------------
(* collectDefinedStructDependencies.                                       *)
StructsIn(t) == {u.index : u \in {v \in Parts(t) : v.kind = "Struct"}}
Dependencies(m, d) ==
  LET named == UNION {StructsIn(f.type) : f \in ToSet(AllFields(m.table.struct[d]))}
  IN  {e \in DOMAIN m.table.struct : m.table.struct[e].handle \in named}

(* What is left when definitions that no other one left needs are taken    *)
(* away, again and again.                                                  *)
Peeled(edges, all) ==
  Iterate(LAMBDA left : {d \in left : \E e \in left : d \in edges[e]}, all, Cardinality(all))

(* Mutant of NonRecursive: only a struct in a field of its own is seen.    *)
NotInItself(m) == \A d \in DOMAIN m.table.struct : d \notin Dependencies(m, d)

(* validateNonRecursiveStructDefinitions.                                  *)
NonRecursive(m) ==
  Peeled([d \in DOMAIN m.table.struct |-> Dependencies(m, d)], DOMAIN m.table.struct) = {}

containsTypeParameter(t, k) == TypeParameter(k) \in Parts(t)

(* The type parameters of all functions, numbered one after the other.     *)
Formals(m, d) == m.table.function[m.functions[d].handle].typeParameters
NodeBase(m, d) == ForUpTo(LAMBDA sum, e : sum + Len(Formals(m, e + 1)), 0, d - 1)
InstantiationNodes(m) == 0 .. NodeBase(m, Len(m.functions) + 1) - 1

GenericCalls(m) ==
  UNION {UNION {[caller : {d}, callee : DefinitionsNamed(m, UseOf(m, i).of), arguments : {UseOf(m, i).arguments}] :
                  i \in {j \in Range(m.functions[d].code) : j.generic /\ KindOf(j.op) = "function"}} :
           d \in DOMAIN m.functions}

(* From a type parameter of the caller to each of the callee it is part    *)
(* of: as it is, or constructed into a larger type.                        *)
InstantiationEdges(m) ==
  UNION {{[from |-> NodeBase(m, call.caller) + p[1] - 1, to |-> NodeBase(m, call.callee) + p[2] - 1,
           constructed |-> call.arguments[p[2]] # TypeParameter(p[1])] :
            p \in {q \in (DOMAIN Formals(m, call.caller)) \X (DOMAIN call.arguments) :
                      containsTypeParameter(call.arguments[q[2]], q[1])}} : call \in GenericCalls(m)}

(* Mutant of LoopsOK: only a parameter that grows in one call is seen.     *)
LoopsOKBetween(m) ==
  \A e \in InstantiationEdges(m) : e.constructed => e.from # e.to

(* validateInstantiationLoops.                                             *)
LoopsOK(m) ==
  LET edges == InstantiationEdges(m)
      adjacency == [n \in InstantiationNodes(m) |-> SetToSortSeq({e.to : e \in {x \in edges : x.from = n}}, <)]
      components == computeSccs(adjacency)
  IN  \A e \in edges : e.constructed => \A c \in components : ~ {e.from, e.to} \subseteq c
-----------------------------------------------------------------------------
(* Mutant of Touched: what a callee acquires is left to the callee.        *)
TouchedDirectly(m, i) ==
  IF i.op \in {"MoveFrom", "MutBorrowGlobal", "ImmBorrowGlobal"} THEN {UseOf(m, i).of} ELSE {}

(* The resources an instruction needs its function to acquire.             *)
Touched(m, i) ==
  CASE i.op \in {"MoveFrom", "MutBorrowGlobal", "ImmBorrowGlobal"} -> {UseOf(m, i).of}
    [] i.op = "Call" -> UNION {ToSet(m.functions[d].acquires) : d \in DefinitionsNamed(m, UseOf(m, i).of)}
    [] OTHER -> {}
AcquiresOK(m) ==
  \A f \in ToSet(m.functions) : \A i \in Range(f.code) : Touched(m, i) \subseteq ToSet(f.acquires)

(* validateModule, check by check.                                         *)
Checks == <<"pools", "handles", "structs", "fields", "instances", "functions", "recursion", "loops", "acquires">>
Passes(m, check) ==
  CASE check = "pools" -> PoolsOK(m)
    [] check = "handles" -> HandlesOK(m)
    [] check = "structs" -> StructsOK(m)
    [] check = "fields" -> FieldHandlesOK(m)
    [] check = "instances" -> InstancesOK(m)
    [] check = "functions" -> FunctionsOK(m)
    [] check = "recursion" -> NonRecursive(m)
    [] check = "loops" -> LoopsOK(m)
    [] check = "acquires" -> AcquiresOK(m)
=============================================================================
