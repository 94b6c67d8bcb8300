--------------------------- MODULE ModuleComparison ---------------------------
(***************************************************************************)
(* When two modules count as the same: their tables are resolved to names  *)
(* (src/semantic.cpp), and their declarations (src/module_compare.cpp) and *)
(* bodies (src/body_compare.cpp) are compared in a normal form that does   *)
(* not depend on the order of tables and locals, nor on that of blocks as  *)
(* long as none is fallen into that was jumped to: edges keep their kind.  *)
(***************************************************************************)
EXTENDS Validator

StructName(m, definition) == HandleOf(m, definition).name

typeName(m, t) ==
  LET named[u \in Types] ==
        [kind |-> u.kind, of |-> IF u.kind = "Struct" THEN m.structHandles[u.index].name ELSE u.index,
         arguments |-> [k \in DOMAIN u.arguments |-> named[u.arguments[k]]]]
  IN  named[t]
signatureName(m, signature) == [k \in DOMAIN signature |-> typeName(m, signature[k])]

(* fields_by_definition: the fields of a definition under their qualified  *)
(* names, those of its variants after one another.                         *)
DefinitionFields(m, d) ==
  LET definition == m.table.struct[d]
      symbols(fields, variant) == [k \in DOMAIN fields |-> <<StructName(m, d)>> \o variant \o <<fields[k].name>>]
  IN  ForUpTo(LAMBDA known, v : known \o symbols(definition.variants[v + 1].fields, <<definition.variants[v + 1].name>>),
              symbols(definition.fields, << >>), Len(definition.variants))

(* Mutant of VariantFieldBase: every variant begins where the first does.  *)
VariantFieldBaseFirst(definition, v) == Len(definition.fields)

(* variant_field_bases: how many fields come before those of variant v.    *)
VariantFieldBase(definition, v) ==
  ForUpTo(LAMBDA base, w : base + Len(definition.variants[w + 1].fields), Len(definition.fields), v - 1)

(* The name of what an instruction names.                                  *)
NameOf(m, kind, of) ==
  LET entry == m.table[kind][of]
      definition == m.table.struct[entry.owner]
  IN  CASE kind = "function" -> entry.name
        [] kind = "struct" -> StructName(m, of)
        [] kind = "field" -> DefinitionFields(m, entry.owner)[entry.field]
        [] kind = "variant" -> <<StructName(m, entry.owner), definition.variants[entry.variant].name>>
        [] kind = "variantField" ->
             [k \in DOMAIN entry.variants |->
                DefinitionFields(m, entry.owner)[VariantFieldBase(definition, entry.variants[k]) + entry.field]]
-----------------------------------------------------------------------------
edgeRank(kind) == CASE kind = "True" -> 0 [] kind = "False" -> 1 [] kind = "Branch" -> 2 [] kind = "Fallthrough" -> 3

(* Mutant of SortedSuccessors: in the order they were pushed.              *)
SuccessorsAsPushed(graph, b) == graph[b].successors

Precedes(d, e) == IF d.kind = e.kind THEN d.target < e.target ELSE edgeRank(d.kind) < edgeRank(e.kind)

(* A block has two at most.                                                *)
SortedSuccessors(graph, b) ==
  LET edges == graph[b].successors
  IN  IF Len(edges) = 2 /\ Precedes(edges[2], edges[1]) THEN <<edges[2], edges[1]>> ELSE edges

(* Blocks wait in the order they are met in; the k-th one's turn comes,    *)
(* and those met with it first are met last.                               *)
MeetSuccessors(graph, met, k) ==
  LET edges == SortedSuccessors(graph, met[k])
      new == {j \in DOMAIN edges : edges[j].target \notin ToSet(met) \cup {edges[i].target : i \in 1 .. j - 1}}
  IN  IF k \in DOMAIN met THEN met \o [j \in 1 .. Cardinality(new) |-> edges[Ascending(new)[j]].target] ELSE met

(* canonicalBlockOrder: breadth first, then the blocks not met.            *)
canonicalBlockOrder(graph) ==
  LET met == ForUpTo(LAMBDA known, k : MeetSuccessors(graph, known, k + 1), <<0>>, Cardinality(DOMAIN graph))
  IN  met \o Ascending(DOMAIN graph \ ToSet(met))

Position(order, b) == CHOOSE p \in DOMAIN order : order[p] = b

(* InstructionNormalizer: one of them goes through all blocks of a         *)
(* function in this order, and numbers locals, parameters aside, as it     *)
(* meets them.  When that is, for each that it meets:                      *)
LocalOps == Locals \cup {"StLoc"}
OnLocal(f, l) == {at \in DOMAIN f.code : f.code[at].op \in LocalOps /\ f.code[at].arg = l}
OwnLocals(m, f) == {l \in Len(m.table.function[f.handle].parameters) .. Len(LocalTypes(m, f)) - 1 : OnLocal(f, l) # {}}
TurnOf(f, order, at) == Position(order, BlockOf(FlowOf(f.code), at)) * Size(f.code) + at

FirstTurns(m, f, order) == [l \in OwnLocals(m, f) |-> Min({TurnOf(f, order, at) : at \in OnLocal(f, l)})]

(* Mutant of LocalName: a local goes by its index.                         *)
LocalIndexName(m, f, turns, l) == <<"local", l, typeName(m, LocalTypes(m, f)[l + 1])>>

(* Mutant of LocalName: one name for all locals of a type.                 *)
LocalTypeName(m, f, turns, l) ==
  IF l < Len(m.table.function[f.handle].parameters) THEN <<"arg", l, typeName(m, LocalTypes(m, f)[l + 1])>>
  ELSE <<"local", 0, typeName(m, LocalTypes(m, f)[l + 1])>>

(* A local is called by how many were met before it.                       *)
LocalName(m, f, turns, l) ==
  IF l < Len(m.table.function[f.handle].parameters) THEN <<"arg", l, typeName(m, LocalTypes(m, f)[l + 1])>>
  ELSE <<"local", Cardinality({k \in DOMAIN turns : turns[k] < turns[l]}), typeName(m, LocalTypes(m, f)[l + 1])>>

Operand(m, f, turns, i) ==
  CASE i.op \in LocalOps -> LocalName(m, f, turns, i.arg)
    [] KindOf(i.op) # "none" -> <<NameOf(m, KindOf(i.op), UseOf(m, i).of), signatureName(m, UseOf(m, i).arguments)>>
                                \o (IF i.op = "PackClosure" THEN <<i.captured>> ELSE << >>)
    [] OTHER -> <<i.arg>>
Normalized(m, f, turns, i) == [op |-> i.op, generic |-> i.generic, operand |-> Operand(m, f, turns, i)]

(* Mutant of NormalSuccessors: as they were pushed, without their kinds.   *)
SuccessorsUnsigned(graph, order, b) ==
  [k \in DOMAIN graph[b].successors |-> <<"Branch", Position(order, graph[b].successors[k].target)>>]

NormalSuccessors(graph, order, b) ==
  LET edges == SortedSuccessors(graph, b)
  IN  [k \in DOMAIN edges |-> <<edges[k].kind, Position(order, edges[k].target)>>]

(* What a block does, and where it leads: which of its instructions only   *)
(* make up the layout is seen from its successors.                         *)
LayoutOnly == {"Nop", "BrTrue", "BrFalse", "Branch"}
Shown(f, block) == Ascending({at \in block.begin .. block.end - 1 : f.code[at].op \notin LayoutOnly})
NormalizedBlock(m, f, graph, order, turns, b) ==
  LET shown == Shown(f, graph[b])
  IN  [instructions |-> [k \in DOMAIN shown |-> Normalized(m, f, turns, f.code[shown[k]])],
       exit |-> graph[b].exit, successors |-> NormalSuccessors(graph, order, b)]

NormalizedBody(m, f) ==
  IF IsNative(f) THEN <<"native">>
  ELSE LET graph == buildControlFlowGraph(FlowOf(f.code))
           order == canonicalBlockOrder(graph)
           turns == FirstTurns(m, f, order)
       IN  [p \in DOMAIN order |-> NormalizedBlock(m, f, graph, order, turns, order[p])]

(* normalizeModuleBodies, as bodyMap has them.                             *)
FunctionName(m, f) == m.table.function[f.handle].name
Bodies(m) == {<<FunctionName(m, f), NormalizedBody(m, f)>> : f \in ToSet(m.functions)}
-----------------------------------------------------------------------------
(* structValue and functionValue (src/module_compare.cpp).                 *)
FieldValues(m, fields) == [k \in DOMAIN fields |-> <<fields[k].name, typeName(m, fields[k].type)>>]
StructValue(m, d) ==
  LET handle == HandleOf(m, d)
      definition == m.table.struct[d]
  IN  [abilities |-> handle.abilities, typeParameters |-> handle.typeParameters, fields |-> FieldValues(m, definition.fields),
       variants |-> [v \in DOMAIN definition.variants |-> <<definition.variants[v].name, FieldValues(m, definition.variants[v].fields)>>]]
FunctionValue(m, f) ==
  LET handle == m.table.function[f.handle] IN
  [native |-> IsNative(f), typeParameters |-> handle.typeParameters,
   parameters |-> signatureName(m, handle.parameters), returns |-> signatureName(m, handle.returns),
   acquires |-> [k \in DOMAIN f.acquires |-> StructName(m, f.acquires[k])]]

(* normalizeModuleInterface, as declarationMap has it.                     *)
Interface(m) ==
  {<<"struct", StructName(m, d), StructValue(m, d)>> : d \in DOMAIN m.table.struct}
  \cup {<<"function", FunctionName(m, f), FunctionValue(m, f)>> : f \in ToSet(m.functions)}

(* compareModuleInterfaces and compareModuleBodies find no difference.     *)
Equivalent(reference, candidate) ==
  Interface(reference) = Interface(candidate) /\ Bodies(reference) = Bodies(candidate)
=============================================================================
