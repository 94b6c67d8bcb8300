--------------------------- MODULE MCVerifiedRun ---------------------------
(***************************************************************************)
(* Small functions for VerifiedRun.  A body is put together from phrases,  *)
(* each of which leaves the stack as it found it: straight on, on one of   *)
(* two ways, or round a loop.                                              *)
(***************************************************************************)
EXTENDS VerifiedRun

NoJump == -1

S == materializeStruct(1, << >>)      \* two fields, a number each
R == materializeStruct(2, << >>)      \* a resource
Vec == compound("Vector", u64)
Mut(t) == compound("MutableReference", t)
Imm(t) == compound("Reference", t)

Everything == {"copy", "drop", "store"}
MCStructs == <<[abilities |-> Everything, type_parameters |-> << >>, fields |-> <<u64, u64>>, variants |-> << >>],
               [abilities |-> {"key", "drop"}, type_parameters |-> << >>, fields |-> <<u64>>, variants |-> << >>],
               [abilities |-> Everything, type_parameters |-> << >>, fields |-> << >>, variants |-> <<<<u64>>, <<u64, u64>>>>]>>

Function(parameters, returns) ==
  [parameters |-> parameters, returns |-> returns, type_parameters |-> << >>, persistent |-> FALSE,
   field |-> << >>, acquires |-> {}]
MCCallables ==
  <<Function(<<Mut(S)>>, <<Mut(u64)>>),                       \* something in what it is given
    Function(<<Mut(S), Imm(u64)>>, << >>),
    [Function(<<Mut(S)>>, <<Mut(u64)>>) EXCEPT !.field = <<1>>], \* its first field
    [Function(<< >>, << >>) EXCEPT !.acquires = {2}],
    Function(<<Mut(u64), Mut(u64)>>, << >>),
    Function(<<u64, u64>>, <<u64>>)>>

Make(op) == [op |-> op, arg |-> NoJump, part |-> 0, captured |-> {}, type |-> u64, type_arguments |-> << >>]
On(op, arg) == [Make(op) EXCEPT !.arg = arg]
Field(op, k) == [Make(op) EXCEPT !.arg = 1, !.part = k]

Copy(l) == On("CopyLoc", l)
Move(l) == On("MoveLoc", l)
Store(l) == On("StLoc", l)
Number == Make("LdU64")

Write(l) == <<Number, Copy(l), Make("WriteRef")>>
WriteLast(l) == <<Number, Move(l), Make("WriteRef")>>
Read(l) == <<Copy(l), Make("ReadRef"), Make("Pop")>>
Keep(op, from, to) == <<On(op, from), Store(to)>>
KeepField(take, op, k, to) == <<take, Field(op, k), Store(to)>>

(* The bodies over a frame: its locals and how many are parameters.        *)
Frame(locals, parameters, returns) ==
  [locals |-> [l \in 0 .. Len(locals) - 1 |-> locals[l + 1]], parameters |-> parameters, returns |-> returns,
   type_parameters |-> << >>]
Body(frame, code) == frame @@ [code |-> [k \in 0 .. Len(code) - 1 |-> code[k + 1]]]

Straight(frame, phrases, n, last) ==
  {Body(frame, FlattenSeq(p) \o last) : p \in [1 .. n -> phrases]}
Forked(frame, before, ways, after, last) ==
  {Body(frame, a \o <<Make("LdTrue"), On("BrTrue", Len(a) + Len(b) + 3)>> \o b
                 \o <<On("Branch", Len(a) + Len(b) + Len(c) + 3)>> \o c \o d \o last) :
     a \in before, b \in ways, c \in ways, d \in after}
Looping(frame, before, again, after, last) ==
  {Body(frame, a \o <<Make("LdTrue"), On("BrFalse", Len(a) + Len(b) + 3)>> \o b \o <<On("Branch", Len(a))>> \o d \o last) :
     a \in before, b \in again, d \in after}

Ret == <<Make("Ret")>>

(* 0: &mut S, 1: &mut S, 2, 3: &mut u64, 4: &u64.                          *)
Fields == Frame(<<Mut(S), Mut(S), Mut(u64), Mut(u64), Imm(u64)>>, 1, << >>)
FieldPhrases ==
  {Keep("CopyLoc", 0, 1), Keep("MoveLoc", 1, 0), Keep("CopyLoc", 2, 4), KeepField(Copy(0), "MutBorrowField", 1, 2),
   KeepField(Copy(0), "MutBorrowField", 2, 3), KeepField(Copy(1), "MutBorrowField", 1, 3),
   KeepField(Move(0), "ImmBorrowField", 1, 4), KeepField(Copy(1), "ImmBorrowField", 1, 4),
   <<Move(2), Make("FreezeRef"), Store(4)>>, Write(2), WriteLast(3), Read(4),
   <<Copy(0), On("Call", 1), Store(2)>>, <<Copy(0), On("Call", 3), Store(3)>>,
   <<Copy(0), Copy(4), On("Call", 2)>>, <<Copy(2), Copy(3), On("Call", 5)>>,
   <<Number, Number, On("Pack", 1), Copy(0), Make("WriteRef")>>,
   <<Copy(2), Copy(3), Make("Eq"), Make("Pop")>>}
FieldWays == {<< >>, Keep("CopyLoc", 0, 1), KeepField(Copy(0), "MutBorrowField", 1, 2),
              KeepField(Copy(0), "MutBorrowField", 2, 2), <<Move(2), Make("Pop")>>, Keep("MoveLoc", 3, 2)}

(* 0: S, 1: &mut S, 2: &mut u64, 3: &S.                                    *)
Owned == Frame(<<S, Mut(S), Mut(u64), Imm(S)>>, 1, << >>)
OwnedPhrases ==
  {Keep("MutBorrowLoc", 0, 1), Keep("ImmBorrowLoc", 0, 3), KeepField(Copy(1), "MutBorrowField", 1, 2),
   KeepField(Move(1), "MutBorrowField", 2, 2), KeepField(On("MutBorrowLoc", 0), "MutBorrowField", 1, 2),
   <<Move(1), Make("FreezeRef"), Store(3)>>, Write(2), Read(3), <<Move(3), Make("Pop")>>,
   <<Move(0), On("Unpack", 1), Make("Pop"), Make("Pop")>>, <<Number, Number, On("Pack", 1), Store(0)>>,
   <<Copy(0), Make("Pop")>>, <<Number, Number, On("Pack", 1), Move(1), Make("WriteRef")>>}
OwnedWays == {<< >>, Keep("MutBorrowLoc", 0, 1), Keep("ImmBorrowLoc", 0, 3), <<Move(1), Make("Pop")>>,
              KeepField(Copy(1), "MutBorrowField", 1, 2)}

(* 0: a vector, 1: &mut vector, 2, 3: &mut u64, 4: &u64.                   *)
VectorOf(op) == Make(op)
Vectors == Frame(<<Vec, Mut(Vec), Mut(u64), Mut(u64), Imm(u64)>>, 1, << >>)
VectorPhrases ==
  {Keep("MutBorrowLoc", 0, 1), <<Copy(1), Number, VectorOf("VecMutBorrow"), Store(2)>>,
   <<Move(1), Number, VectorOf("VecMutBorrow"), Store(3)>>,
   <<On("ImmBorrowLoc", 0), Number, VectorOf("VecImmBorrow"), Store(4)>>,
   <<Copy(1), Number, VectorOf("VecImmBorrow"), Store(4)>>,
   <<Copy(1), Number, VectorOf("VecPushBack")>>, <<Move(1), VectorOf("VecPopBack"), Make("Pop")>>,
   <<On("MutBorrowLoc", 0), Number, Number, VectorOf("VecSwap")>>, <<On("ImmBorrowLoc", 0), VectorOf("VecLen"), Make("Pop")>>,
   Write(2), Write(3), Read(4), Keep("CopyLoc", 2, 3)}

(* 0: an address, 1: &mut R, 2: &R, 3: &mut u64.                           *)
Globals == Frame(<<simple("Address"), Mut(R), Imm(R), Mut(u64)>>, 1, << >>)
Global(op) == <<Copy(0), On(op, 2)>>
GlobalPhrases ==
  {Global("MutBorrowGlobal") \o <<Store(1)>>, Global("ImmBorrowGlobal") \o <<Store(2)>>,
   Global("MoveFrom") \o <<On("Unpack", 2), Make("Pop")>>, Global("Exists") \o <<Make("Pop")>>,
   <<On("Call", 4)>>, <<Copy(1), [Field("MutBorrowField", 1) EXCEPT !.arg = 2], Store(3)>>,
   <<Move(1), Make("Pop")>>, <<Move(1), Make("FreezeRef"), Store(2)>>, Write(3), <<Move(3), Make("Pop")>>, <<Move(2), Make("Pop")>>}

(* 0: &signer, 1: an enum, 2: &mut u64, 3: a function.                     *)
Partial == Type("Function", 0, <<u64>>, <<u64>>, {"copy", "drop"})
Variants == Frame(<<Imm(simple("Signer")), materializeStruct(3, << >>), Mut(u64), Partial>>, 1, << >>)
Variant(op) == [Field(op, 1) EXCEPT !.arg = 3]
VariantPhrases ==
  {<<Number, Variant("PackVariant"), Store(1)>>, <<On("ImmBorrowLoc", 1), Variant("TestVariant"), Make("Pop")>>,
   <<On("MutBorrowLoc", 1), Variant("MutBorrowVariantField"), Store(2)>>, Write(2),
   <<Move(1), Variant("UnpackVariant"), Make("Pop")>>, <<Copy(0), Number, On("Pack", 2), On("MoveTo", 2)>>,
   <<Number, [On("PackClosure", 6) EXCEPT !.captured = {1}], Store(3)>>,
   <<Number, Copy(3), [Make("CallClosure") EXCEPT !.type = Partial], Make("Pop")>>,
   <<Number, Number, [Make("VecPack") EXCEPT !.part = 2], [Make("VecUnpack") EXCEPT !.part = 2], Make("Add"), Make("CastU8"), Make("Pop")>>,
   <<Make("LdTrue"), Make("LdFalse"), Make("Or"), Make("Not"), Make("Pop")>>}

(* What is given back: into the parameter, or into a local.                *)
Returning ==
  {Body(Frame(<<Mut(S), S, Mut(u64)>>, 2, <<Mut(u64)>>), a \o b \o <<Make("Ret")>>) :
     a \in {<< >>, KeepField(Copy(0), "MutBorrowField", 1, 2), KeepField(On("MutBorrowLoc", 1), "MutBorrowField", 1, 2)},
     b \in {<<Copy(0), Field("MutBorrowField", k)>> : k \in {1, 2}} \cup {<<Move(2)>>, <<Copy(2)>>}
            \cup {<<On("MutBorrowLoc", 1), Field("MutBorrowField", 1)>>, <<Move(0), On("Call", 1)>>}}
  \cup {Body(Frame(<<Mut(S)>>, 1, <<Mut(u64), Mut(u64)>>), <<Copy(0), Field("MutBorrowField", j), t, Field("MutBorrowField", k), Make("Ret")>>) :
          j, k \in {1, 2}, t \in {Copy(0), Move(0)}}

MCBodies ==
  Straight(Fields, FieldPhrases, 2, Ret)
  \cup Straight(Owned, OwnedPhrases, 3, Ret)
  \cup Straight(Vectors, VectorPhrases, 3, Ret)
  \cup Straight(Globals, GlobalPhrases, 3, Ret)
  \cup Straight(Variants, VariantPhrases, 3, Ret)
  \cup Forked(Fields, {<< >>, KeepField(Copy(0), "MutBorrowField", 1, 2)}, FieldWays, FieldPhrases, Ret)
  \cup Forked(Owned, {<< >>, Keep("MutBorrowLoc", 0, 1)}, OwnedWays, OwnedPhrases, Ret)
  \cup Looping(Fields, {<< >>, KeepField(Copy(0), "MutBorrowField", 1, 2)}, FieldPhrases, FieldWays, Ret)
  \cup Looping(Owned, {<< >>, Keep("MutBorrowLoc", 0, 1)}, OwnedPhrases, OwnedWays, Ret)
  \cup Returning

(* A local that holds a reference is borrowed, and read through that.      *)
NestedBodies ==
  {Body(Frame(<<Imm(u64), Imm(u64)>>, 1, << >>), <<On(op, 0), Make("ReadRef"), Store(1)>> \o Ret) :
     op \in {"ImmBorrowLoc", "CopyLoc"}}
=============================================================================
