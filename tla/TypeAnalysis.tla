---------------------------- MODULE TypeAnalysis ----------------------------
(***************************************************************************)
(* src/type_analysis.cpp: the types of the values of a stackless function, *)
(* and what its instructions demand of them.                               *)
(*                                                                         *)
(* The tables of the module are resolved: an instruction has the type      *)
(* arguments of its instantiation (none if it is not generic), a function  *)
(* its signatures, a struct its abilities beside its fields.  An ability   *)
(* set is a set.                                                           *)
(***************************************************************************)
EXTENDS StacklessLift

CONSTANTS Structs,    \* [abilities, type_parameters, fields, variants]
          Callables   \* [parameters, returns, type_parameters, persistent, field, acquires]

Type(kind, index, arguments, results, abilities) ==
  [kind |-> kind, index |-> index, arguments |-> arguments, results |-> results, abilities |-> abilities]
simple(kind) == Type(kind, 0, << >>, << >>, {})
compound(kind, inner) == Type(kind, 0, <<inner>>, << >>, {})
materializeStruct(handle, arguments) == Type("Struct", handle, arguments, << >>, {})

Unsigned == {"U8", "U16", "U32", "U64", "U128", "U256"}
Signed == {"I8", "I16", "I32", "I64", "I128", "I256"}
isUnsignedInteger(t) == t.kind \in Unsigned
isSignedInteger(t) == t.kind \in Signed
isInteger(t) == isUnsignedInteger(t) \/ isSignedInteger(t)
isReference(t) == t.kind \in {"Reference", "MutableReference"}

(* abilitiesOf: f is the function whose type parameters are in scope.      *)
RECURSIVE abilitiesOf(_, _)
abilitiesOf(f, t) ==
  CASE t.kind \in Unsigned \cup Signed \cup {"Bool", "Address"} -> {"copy", "drop", "store"}
    [] t.kind = "Signer" -> {"drop"}
    [] isReference(t) -> {"copy", "drop"}
    [] t.kind = "Function" -> t.abilities
    [] t.kind = "TypeParameter" -> IF t.index \in DOMAIN f.type_parameters THEN f.type_parameters[t.index] ELSE {}
    [] t.kind = "Vector" -> {"copy", "drop", "store"} \cap abilitiesOf(f, t.arguments[1])
    [] t.kind = "Struct" ->
         LET handle == Structs[t.index]
             real == {k \in DOMAIN t.arguments \cap DOMAIN handle.type_parameters : ~ handle.type_parameters[k].phantom}
             needed(a) == IF a = "key" THEN "store" ELSE a
         IN  {a \in handle.abilities : \A k \in real : needed(a) \in abilitiesOf(f, t.arguments[k])}

RECURSIVE inScope(_, _)
inScope(f, t) ==
  /\ t.kind = "TypeParameter" => t.index \in DOMAIN f.type_parameters
  /\ \A u \in ToSet(t.arguments) \cup ToSet(t.results) : inScope(f, u)

(* requireAbilityConstraints.                                              *)
Satisfies(f, arguments, constraints) ==
  /\ Len(arguments) = Len(constraints)
  /\ \A k \in DOMAIN arguments : inScope(f, arguments[k]) /\ constraints[k] \subseteq abilitiesOf(f, arguments[k])

RECURSIVE substituteType(_, _)
substituteType(t, arguments) ==
  IF t.kind = "TypeParameter" /\ arguments # << >> THEN arguments[t.index]
  ELSE [t EXCEPT !.arguments = [k \in DOMAIN @ |-> substituteType(@[k], arguments)],
                 !.results = [k \in DOMAIN @ |-> substituteType(@[k], arguments)]]

substituteSignature(signature, arguments) == [k \in DOMAIN signature |-> substituteType(signature[k], arguments)]

(* Mutant of isTypeAssignable: a mutable reference is taken for another    *)
(* one, unfrozen.                                                          *)
RECURSIVE isTypeAssignableUnfrozen(_, _)
isTypeAssignableUnfrozen(expected, actual) ==
  IF expected.kind = "Function" /\ actual.kind = "Function"
  THEN [expected EXCEPT !.abilities = {}] = [actual EXCEPT !.abilities = {}] /\ expected.abilities \subseteq actual.abilities
  ELSE IF expected.kind = "Reference" /\ isReference(actual)
       THEN isTypeAssignableUnfrozen(expected.arguments[1], actual.arguments[1])
       ELSE expected = actual

RECURSIVE isTypeAssignable(_, _)
isTypeAssignable(expected, actual) ==
  IF expected.kind = "Function" /\ actual.kind = "Function"
  THEN [expected EXCEPT !.abilities = {}] = [actual EXCEPT !.abilities = {}] /\ expected.abilities \subseteq actual.abilities
  ELSE IF expected.kind = "Reference" /\ actual.kind = "Reference"
       THEN isTypeAssignable(expected.arguments[1], actual.arguments[1])
       ELSE expected = actual

(* requireInputs.                                                          *)
Are(actual, expected) == actual = expected
AreAssignable(actual, expected) ==
  Len(actual) = Len(expected) /\ \A k \in DOMAIN actual : isTypeAssignable(expected[k], actual[k])
-----------------------------------------------------------------------------
Generic(i) == i.type_arguments # << >>
ConstraintsOf(struct) == [k \in DOMAIN struct.type_parameters |-> struct.type_parameters[k].constraints]

(* structUse and functionUse: the arguments of a generic instruction meet  *)
(* the constraints.                                                        *)
StructUseOK(f, i) == Generic(i) => Satisfies(f, i.type_arguments, ConstraintsOf(Structs[i.arg]))
FunctionUseOK(f, i) == Generic(i) => Satisfies(f, i.type_arguments, Callables[i.arg].type_parameters)

StructOf(i) == materializeStruct(i.arg, i.type_arguments)

(* fieldsOf: of a variant, or of the struct itself.                        *)
fieldsOf(i) ==
  substituteSignature(IF i.op \in {"PackVariant", "UnpackVariant"} THEN Structs[i.arg].variants[i.part] ELSE Structs[i.arg].fields,
                      i.type_arguments)

(* The type of a borrowed field; of a variant field, that of the first     *)
(* variant the handle lists.                                               *)
FieldOf(i) ==
  substituteType(IF i.op \in {"MutBorrowVariantField", "ImmBorrowVariantField"}
                 THEN Structs[i.arg].variants[1][i.part] ELSE Structs[i.arg].fields[i.part], i.type_arguments)

Parameters(i) == substituteSignature(Callables[i.arg].parameters, i.type_arguments)
Returns(i) == substituteSignature(Callables[i.arg].returns, i.type_arguments)
Captured(i) == SetToSortSeq(i.captured, <)
Remaining(i) == SetToSortSeq(DOMAIN Callables[i.arg].parameters \ i.captured, <)

(* instructionStackEffect, where the tables decide.                        *)
TableEffect(f, i) ==
  CASE i.op = "Ret" -> <<Len(f.returns), 0>>
    [] i.op = "Call" -> <<Len(Callables[i.arg].parameters), Len(Callables[i.arg].returns)>>
    [] i.op = "CallClosure" -> <<Len(i.type.arguments) + 1, Len(i.type.results)>>
    [] i.op = "PackClosure" -> <<Cardinality(i.captured), 1>>
    [] i.op \in {"Pack", "PackVariant"} -> <<Len(fieldsOf(i)), 1>>
    [] i.op \in {"Unpack", "UnpackVariant"} -> <<1, Len(fieldsOf(i))>>
    [] i.op = "VecPack" -> <<i.part, 1>>
    [] i.op = "VecUnpack" -> <<1, i.part>>
    [] OTHER -> <<0, 0>>
-----------------------------------------------------------------------------
bool == simple("Bool")
u64 == simple("U64")
Copies(f, t) == "copy" \in abilitiesOf(f, t)
Drops(f, t) == "drop" \in abilitiesOf(f, t)

(* referenced: t is a reference (a mutable one) to something with P.       *)
Refers(t, mutable) == t.kind = "MutableReference" \/ (t.kind = "Reference" /\ ~ mutable)
To(t) == t.arguments[1]
RefersToVector(t, mutable, element) == Refers(t, mutable) /\ To(t) = compound("Vector", element)
Borrowed(mutable, t) == compound(IF mutable THEN "MutableReference" ELSE "Reference", t)
Mutably(op) == op \in {"MutBorrowLoc", "MutBorrowGlobal", "MutBorrowField", "MutBorrowVariantField", "VecMutBorrow"}

ClosureOf(f, i, in) ==
  [Type("Function", 0, [k \in DOMAIN Remaining(i) |-> Parameters(i)[Remaining(i)[k]]], Returns(i),
        {"copy", "drop"} \cup (IF Callables[i.arg].persistent THEN {"store"} ELSE {}))
     EXCEPT !.abilities = {a \in @ : \A k \in DOMAIN in : a \in abilitiesOf(f, in[k])}]

(* inferOperation, the checks of the operations on structs and resources.  *)
StructAdmits(f, i, in) ==
  CASE i.op \in {"Pack", "PackVariant"} -> StructUseOK(f, i) /\ AreAssignable(in, fieldsOf(i))
    [] i.op \in {"Unpack", "UnpackVariant"} -> StructUseOK(f, i) /\ Are(in, <<StructOf(i)>>)
    [] i.op = "TestVariant" -> StructUseOK(f, i) /\ Refers(in[1], FALSE) /\ To(in[1]) = StructOf(i)
    [] i.op \in {"Exists", "MoveFrom", "MutBorrowGlobal", "ImmBorrowGlobal"} ->
         StructUseOK(f, i) /\ "key" \in abilitiesOf(f, StructOf(i)) /\ Are(in, <<simple("Address")>>)
    [] i.op = "MoveTo" ->
         /\ StructUseOK(f, i) /\ "key" \in abilitiesOf(f, StructOf(i))
         /\ AreAssignable(in, <<Borrowed(FALSE, simple("Signer")), StructOf(i)>>)
    [] i.op \in {"MutBorrowField", "ImmBorrowField", "MutBorrowVariantField", "ImmBorrowVariantField"} ->
         Refers(in[1], Mutably(i.op)) /\ To(in[1]) = StructOf(i)
    [] OTHER -> TRUE

(* Those on vectors.                                                       *)
VectorAdmits(i, in) ==
  CASE i.op = "VecPack" -> \A k \in DOMAIN in : isTypeAssignable(i.type, in[k])
    [] i.op = "VecUnpack" -> Are(in, <<compound("Vector", i.type)>>)
    [] i.op = "VecLen" -> RefersToVector(in[1], FALSE, i.type)
    [] i.op \in {"VecImmBorrow", "VecMutBorrow"} -> RefersToVector(in[1], Mutably(i.op), i.type) /\ in[2] = u64
    [] i.op = "VecPushBack" -> RefersToVector(in[1], TRUE, i.type) /\ isTypeAssignable(i.type, in[2])
    [] i.op = "VecPopBack" -> RefersToVector(in[1], TRUE, i.type)
    [] i.op = "VecSwap" -> RefersToVector(in[1], TRUE, i.type) /\ in[2] = u64 /\ in[3] = u64
    [] OTHER -> TRUE

(* inferOperation, the checks: what instruction i demands of the types in  *)
(* of its inputs.                                                          *)
Admits(f, i, in) ==
  CASE i.op = "Pop" -> Drops(f, in[1])
    [] i.op \in {"BrTrue", "BrFalse", "Not"} -> Are(in, <<bool>>)
    [] i.op = "StLoc" -> AreAssignable(in, <<f.locals[i.arg]>>)
    [] i.op = "Abort" -> Are(in, <<u64>>)
    [] i.op = "AbortMsg" -> Are(in, <<u64, compound("Vector", simple("U8"))>>)
    [] i.op = "Ret" -> AreAssignable(in, f.returns)
    [] i.op = "CopyLoc" -> Copies(f, f.locals[i.arg])
    [] i.op = "FreezeRef" -> Refers(in[1], TRUE)
    [] i.op = "ReadRef" -> Refers(in[1], FALSE) /\ Copies(f, To(in[1]))
    [] i.op = "WriteRef" -> Refers(in[2], TRUE) /\ isTypeAssignable(To(in[2]), in[1]) /\ Drops(f, To(in[2]))
    [] i.op \in Casts -> isInteger(in[1])
    [] i.op \in {"Add", "Sub", "Mul", "Mod", "Div", "Lt", "Gt", "Le", "Ge"} -> isInteger(in[1]) /\ in[1] = in[2]
    [] i.op \in BitOps -> isUnsignedInteger(in[1]) /\ in[1] = in[2]
    [] i.op = "Negate" -> isSignedInteger(in[1])
    [] i.op \in {"Shl", "Shr"} -> isUnsignedInteger(in[1]) /\ in[2].kind = "U8"
    [] i.op \in {"Or", "And"} -> Are(in, <<bool, bool>>)
    [] i.op \in {"Eq", "Neq"} -> in[1] = in[2] /\ Drops(f, in[1])
    [] i.op = "Call" -> FunctionUseOK(f, i) /\ AreAssignable(in, Parameters(i))
    [] i.op = "CallClosure" -> i.type.kind = "Function" /\ AreAssignable(in, Append(i.type.arguments, i.type))
    [] i.op = "PackClosure" ->
         FunctionUseOK(f, i) /\ AreAssignable(in, [k \in DOMAIN Captured(i) |-> Parameters(i)[Captured(i)[k]]])
    [] OTHER -> StructAdmits(f, i, in) /\ VectorAdmits(i, in)

(* The kind of the integer a load or a cast makes.                         *)
Made(i, prefix) == simple(CHOOSE kind \in Unsigned \cup Signed : i.op = prefix \o kind)

(* inferOperation, the results.                                            *)
Results(f, i, in) ==
  CASE i.op \in {"LdTrue", "LdFalse", "Or", "And", "Not", "TestVariant", "Exists"} \cup Comparisons -> <<bool>>
    [] i.op \in Loads \ {"LdTrue", "LdFalse"} -> <<Made(i, "Ld")>>
    [] i.op = "LdConst" -> <<i.type>>
    [] i.op \in {"CopyLoc", "MoveLoc"} -> <<f.locals[i.arg]>>
    [] i.op \in {"MutBorrowLoc", "ImmBorrowLoc"} -> <<Borrowed(Mutably(i.op), f.locals[i.arg])>>
    [] i.op = "FreezeRef" -> <<Borrowed(FALSE, To(in[1]))>>
    [] i.op = "ReadRef" -> <<To(in[1])>>
    [] i.op \in Casts -> <<Made(i, "Cast")>>
    [] i.op \in Arithmetic \cup BitOps \cup {"Negate"} -> <<in[1]>>
    [] i.op = "Call" -> Returns(i)
    [] i.op = "CallClosure" -> i.type.results
    [] i.op = "PackClosure" -> <<ClosureOf(f, i, in)>>
    [] i.op \in {"Pack", "PackVariant", "MoveFrom"} -> <<StructOf(i)>>
    [] i.op \in {"Unpack", "UnpackVariant"} -> fieldsOf(i)
    [] i.op \in {"MutBorrowGlobal", "ImmBorrowGlobal"} -> <<Borrowed(Mutably(i.op), StructOf(i))>>
    [] i.op \in {"MutBorrowField", "ImmBorrowField", "MutBorrowVariantField", "ImmBorrowVariantField"} ->
         <<Borrowed(Mutably(i.op), FieldOf(i))>>
    [] i.op = "VecPack" -> <<compound("Vector", i.type)>>
    [] i.op = "VecUnpack" -> [k \in 1 .. i.part |-> i.type]
    [] i.op = "VecLen" -> <<u64>>
    [] i.op \in {"VecImmBorrow", "VecMutBorrow"} -> <<Borrowed(Mutably(i.op), i.type)>>
    [] i.op = "VecPopBack" -> <<i.type>>
    [] OTHER -> << >>

(* One instruction of inferAndValidateStacklessTypes.                      *)
Infer(f, inferred, i) ==
  LET in == [k \in DOMAIN i.inputs |-> inferred.types[i.inputs[k]]]
      out == Results(f, i, in)
  IN  IF ~ inferred.ok \/ ~ Admits(f, i, in) \/ Len(out) # Len(i.outputs)
      THEN [inferred EXCEPT !.ok = FALSE]
      ELSE [inferred EXCEPT !.types = [v \in ToSet(i.outputs) |-> out[v - i.outputs[1] + 1]] @@ @]

InferTypes(f, instructions) ==
  FoldLeft(LAMBDA inferred, i : Infer(f, inferred, i), [ok |-> TRUE, types |-> << >>], instructions)
=============================================================================
