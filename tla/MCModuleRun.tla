---------------------------- MODULE MCModuleRun ----------------------------
(***************************************************************************)
(* Modules for ModuleRun, one family for each thing that tables and bodies *)
(* can get wrong; every module has only what its family varies.            *)
(***************************************************************************)
EXTENDS ModuleRun

StructHandle(name, own, abilities, parameters) ==
  [name |-> name, own |-> own, abilities |-> abilities, typeParameters |-> parameters]
Parameter(phantom, constraints) == [phantom |-> phantom, constraints |-> constraints]
Field(name, type) == [name |-> name, type |-> type]
Definition(handle, fields) == [handle |-> handle, fields |-> fields, variants |-> << >>]
FunctionHandle(name, own, parameters, returns, typeParameters) ==
  [name |-> name, own |-> own, parameters |-> parameters, returns |-> returns, typeParameters |-> typeParameters]
Function(handle, acquires, locals, code) ==
  [handle |-> handle, acquires |-> acquires, locals |-> locals, code |-> [k \in 0 .. Len(code) - 1 |-> code[k + 1]]]

Nothing == [kind \in Kinds |-> << >>]
Tables(structHandles, structs, functionHandles, functions) ==
  [structHandles |-> structHandles, functions |-> functions, instances |-> Nothing,
   table |-> [Nothing EXCEPT !["struct"] = structs, !["function"] = functionHandles]]

(* A module with every table in the opposite order.                        *)
RECURSIVE RenumberedType(_, _)
RenumberedType(m, t) ==
  [t EXCEPT !.index = IF t.kind = "Struct" THEN Len(m.structHandles) + 1 - @ ELSE @,
            !.arguments = [k \in DOMAIN @ |-> RenumberedType(m, @[k])]]
RenumberedSignature(m, s) == [k \in DOMAIN s |-> RenumberedType(m, s[k])]
RenumberedFields(m, fields) == [k \in DOMAIN fields |-> [fields[k] EXCEPT !.type = RenumberedType(m, @)]]
RenumberedCode(m, code) ==
  [at \in DOMAIN code |->
     LET kind == KindOf(code[at].op) IN
     IF kind = "none" THEN code[at]
     ELSE [code[at] EXCEPT !.arg = Len(IF code[at].generic THEN m.instances[kind] ELSE m.table[kind]) + 1 - @]]
Each(table, Of(_)) == Reverse([k \in DOMAIN table |-> Of(table[k])])
Renumbered(m) ==
  LET owned(h) == [h EXCEPT !.owner = Len(m.table.struct) + 1 - @]
      instance(kind, x) == [of |-> Len(m.table[kind]) + 1 - x.of, arguments |-> RenumberedSignature(m, x.arguments)]
      struct(d) == [handle |-> Len(m.structHandles) + 1 - d.handle, fields |-> RenumberedFields(m, d.fields),
                    variants |-> [v \in DOMAIN d.variants |-> [d.variants[v] EXCEPT !.fields = RenumberedFields(m, @)]]]
      signed(h) == [h EXCEPT !.parameters = RenumberedSignature(m, @), !.returns = RenumberedSignature(m, @)]
      function(f) == [handle |-> Len(m.table.function) + 1 - f.handle,
                      acquires |-> [k \in DOMAIN f.acquires |-> Len(m.table.struct) + 1 - f.acquires[k]],
                      locals |-> RenumberedSignature(m, f.locals), code |-> RenumberedCode(m, f.code)]
  IN  [structHandles |-> Reverse(m.structHandles), functions |-> Each(m.functions, function),
       instances |-> [kind \in Kinds |-> Each(m.instances[kind], LAMBDA x : instance(kind, x))],
       table |-> [kind \in Kinds |-> CASE kind = "struct" -> Each(m.table.struct, struct)
                                       [] kind = "function" -> Each(m.table.function, signed)
                                       [] OTHER -> Each(m.table[kind], owned)]]

Alone(m) == [reference |-> m, candidate |-> Renumbered(m), relaid |-> TRUE]

On(op, arg) == [op |-> op, arg |-> arg, generic |-> FALSE]
Generic(op, arg) == [On(op, arg) EXCEPT !.generic = TRUE]
Make(op) == On(op, 0)
T0 == TypeParameter(1)
T1 == TypeParameter(2)
-----------------------------------------------------------------------------
(* Two structs over one parameter, in each other's fields or in their own, *)
(* with a struct that can do nothing and one that holds its parameter.     *)
Nought == Struct(3, << >>)
A(t) == Struct(1, <<t>>)
B(t) == Struct(2, <<t>>)
Box(t) == Struct(4, <<t>>)
Plain == {"copy", "drop", "store"}
StructModules ==
  {Tables(<<StructHandle("A", TRUE, a, p), StructHandle("B", TRUE, b, q),
            StructHandle("Nought", FALSE, {}, << >>), StructHandle("Box", FALSE, All, <<Parameter(FALSE, {})>>)>>,
          <<Definition(1, <<Field("f", s)>>), Definition(2, <<Field("g", t)>>)>>, << >>, << >>) :
     a \in {{"drop"}, {"key"}, Plain}, b \in {{}, Plain, {"key", "store"}},
     p \in {<<Parameter(phantom, c)>> : phantom \in BOOLEAN, c \in {{}, {"drop"}}},
     q \in {<<Parameter(phantom, c)>> : phantom \in BOOLEAN, c \in {{}, {"drop"}}},
     s \in {T0, Vector(T0), A(u64), B(T0), B(B(T0)), B(Box(T0))},
     t \in {u64, T0, Vector(T0), Nought, A(T0)}}
-----------------------------------------------------------------------------
(* Two functions, one generic call each, to each other or to themselves;   *)
(* and a generic call under constraints.                                   *)
Calling(name, callee, arity) ==
  Function(name, << >>, << >>, <<Generic("Call", callee), Make("Ret")>>)
GenericModule(handles, structHandles, first, second) ==
  [Tables(structHandles, << >>, handles, <<Calling(1, 1, 0), Calling(2, IF second = first THEN 1 ELSE 2, 0)>>)
   EXCEPT !.instances["function"] = IF second = first THEN <<first>> ELSE <<first, second>>]

TwoParameters(name) == FunctionHandle(name, TRUE, << >>, << >>, <<{}, {}>>)
GrowingModules ==
  LET instances == {Instance(of, <<s, t>>) : of \in 1 .. 2, s \in {T0, T1, Vector(T0), u64}, t \in {T0, T1, Vector(T0), Vector(T1)}}
  IN  {GenericModule(<<TwoParameters("f"), TwoParameters("g")>>, << >>, first, second) : first, second \in instances}

ConstrainedModules ==
  LET handles == <<StructHandle("Nought", FALSE, {}, << >>), StructHandle("Box", FALSE, All, <<Parameter(FALSE, {})>>)>>
      one(name, constraints) == FunctionHandle(name, TRUE, << >>, << >>, <<constraints>>)
  IN  {GenericModule(<<one("f", c), one("g", d)>>, handles, Instance(2, <<s>>), Instance(2, <<t>>)) :
         c, d \in {{}, {"copy"}, {"key"}, {"store", "drop"}},
         s, t \in {T0, u64, Vector(T0), Struct(1, << >>), Struct(2, <<T0>>), Struct(2, <<Struct(1, << >>)>>)}}
-----------------------------------------------------------------------------
(* Three functions that may take a resource and may call one another.      *)
Resource == StructHandle("R", TRUE, {"key", "drop"}, << >>)
Taking == {<< >>, <<Make("LdConst"), On("MoveFrom", 1), Make("Pop")>>, <<Make("LdConst"), On("Exists", 1), Make("Pop")>>}
Acting(handle, acquires, takes, call, last) ==
  Function(handle, acquires, << >>, (IF last THEN call \o takes ELSE takes \o call) \o <<Make("Ret")>>)
Procedure(name) == FunctionHandle(name, TRUE, << >>, << >>, << >>)
AcquiringModules ==
  {Tables(<<Resource>>, <<Definition(1, <<Field("f", u64)>>)>>, <<Procedure("f"), Procedure("g"), Procedure("h")>>,
          <<Acting(1, a, << >>, <<On("Call", 2)>>, FALSE), Acting(2, b, x, y, last), Acting(3, c, z, w, FALSE)>>) :
     a, b, c \in {<< >>, <<1>>}, x, z \in Taking, y \in {<< >>, <<On("Call", 3)>>, <<On("Call", 1)>>},
     w \in {<< >>, <<On("Call", 2)>>}, last \in BOOLEAN}
-----------------------------------------------------------------------------
(* Bodies: what a block does, and where it goes.                           *)
(* Blocks laid out in an order: a test is written so that its other way    *)
(* follows, a jump is written out.                                         *)
Goes(b) == [kind |-> "goto", to |-> <<b>>]
Asks(b, c) == [kind |-> "test", to |-> <<b, c>>]
Returns == [kind |-> "return", to |-> << >>]
Place(order, b) == CHOOSE k \in DOMAIN order : order[k] = b
NextTo(order, b) == IF Place(order, b) < Len(order) THEN order[Place(order, b) + 1] ELSE 0
Written(g, order, b, true) ==
  g[b].does \o CASE g[b].ends.kind = "return" -> <<Make("Ret")>>
                 [] g[b].ends.kind = "goto" -> <<On("Branch", 0)>>
                 [] g[b].ends.kind = "test" -> <<On("CopyLoc", 0), Make(IF true[b] THEN "BrTrue" ELSE "BrFalse")>>
Goal(g, b, true) ==
  CASE g[b].ends.kind = "test" -> g[b].ends.to[IF true[b] THEN 1 ELSE 2]
    [] g[b].ends.kind = "goto" -> g[b].ends.to[1]
    [] OTHER -> 0
Start(g, order, true, b) ==
  Len(FlattenSeq([k \in 1 .. Place(order, b) - 1 |-> Written(g, order, order[k], true)]))
LaidOut(g, order, true) ==
  FlattenSeq([k \in DOMAIN order |->
    LET b == order[k]
        written == Written(g, order, b, true)
        target == Goal(g, b, true)
    IN  IF target = 0 THEN written ELSE [written EXCEPT ![Len(written)].arg = Start(g, order, true, target)]])

(* The ways to lay out a graph of blocks 1 .. n, every jump written out.   *)
Fits(g, order, true) ==
  \A b \in DOMAIN g : g[b].ends.kind = "test" => NextTo(order, b) = g[b].ends.to[IF true[b] THEN 2 ELSE 1]
Layouts(g) ==
  {l \in {p \in [DOMAIN g -> DOMAIN g] : p[1] = 1 /\ IsInjective(p)} \X [DOMAIN g -> BOOLEAN] :
     /\ \A b \in DOMAIN g : g[b].ends.kind # "test" => l[2][b]
     /\ Fits(g, l[1], l[2])}

(* A block stores in a local or reads one and calls an external function.  *)
Writes(l) == <<IF l = 1 THEN On("CopyLoc", 0) ELSE Make("LdConst"), On("StLoc", l)>>
Reads(l, function) == <<On("CopyLoc", l), On("Call", function)>>
BodyModule(code, locals) ==
  Tables(<< >>, << >>,
         <<FunctionHandle("f", TRUE, <<u64>>, << >>, << >>), FunctionHandle("x", FALSE, <<u64>>, << >>, << >>),
           FunctionHandle("y", FALSE, <<u64>>, << >>, << >>)>>,
         <<Function(1, << >>, locals, code)>>)

(* The same code over locals in the opposite order.                        *)
SwapLocals(code) ==
  [k \in DOMAIN code |->
     IF code[k].op \in LocalOps /\ code[k].arg > 0 THEN [code[k] EXCEPT !.arg = 3 - @] ELSE code[k]]

(* Graphs of four blocks: a test, then blocks that may join, test again,   *)
(* go back or end.                                                         *)
Does == {Reads(0, 2), Writes(1) \o Reads(1, 2), Writes(2) \o Writes(1) \o Reads(2, 3)}
Block(does, ends) == [does |-> does, ends |-> ends]
Graphs4 ==
  {<<Block(Writes(1) \o Writes(2), Asks(2, 3)), Block(d, x), Block(e, y), Block(Reads(2, 2), z)>> :
     d \in Does, e \in {Reads(0, 2), Writes(2) \o Writes(1) \o Reads(2, 3)}, x \in {Goes(4), Asks(4, 2), Asks(3, 4)},
     y \in {Goes(4), Asks(4, 1), Returns}, z \in {Returns, Goes(3)}}
RelaidJobs ==
  UNION {LET first == CHOOSE l \in Layouts(g) : TRUE
         IN  {[reference |-> BodyModule(LaidOut(g, first[1], first[2]), <<u64, Vector(u64)>>),
               candidate |-> Renumbered(BodyModule(SwapLocals(LaidOut(g, l[1], l[2])), <<Vector(u64), u64>>)),
               relaid |-> TRUE] : l \in Layouts(g)} :
           g \in {h \in Graphs4 : Layouts(h) # {}}}

(* Small functions, in pairs.                                              *)
PairDoes == {Writes(1), Reads(1, 2), Reads(2, 2), Reads(0, 3)}
PairModules(branches) ==
  {BodyModule(Writes(1) \o Writes(2) \o Reads(0, 2) \o code, locals) :
     code \in {<<On("CopyLoc", 0), On(branch, to), Make("Nop")>> \o d \o <<Make("Ret")>> :
                 branch \in branches, to \in {4, 9}, d \in PairDoes},
     locals \in {<<u64, u64>>, <<u64, Vector(u64)>>}}
PairJobs ==
  {[reference |-> x, candidate |-> y, relaid |-> FALSE] :
     x \in PairModules({"BrTrue"}), y \in PairModules({"BrTrue", "BrFalse"})}
-----------------------------------------------------------------------------
(* An enum whose variants have fields of one or two names, in two orders.  *)
Enum == StructHandle("E", TRUE, {"copy", "drop"}, << >>)
VariantsOf(p) ==
  LET all == <<[name |-> "V", fields |-> <<Field("a", u64), Field("b", u64)>>],
               [name |-> "W", fields |-> <<Field("c", u64), Field("a", u64)>>],
               [name |-> "X", fields |-> <<Field("b", u64)>>]>>
  IN  [k \in DOMAIN p |-> all[p[k]]]
Selecting(handle, variants) ==
  [Tables(<<Enum>>, <<[handle |-> 1, fields |-> << >>, variants |-> variants]>>,
          <<FunctionHandle("f", TRUE, <<Reference(Struct(1, << >>))>>, << >>, << >>)>>,
          <<Function(1, << >>, << >>, <<On("CopyLoc", 0), On("ImmBorrowVariantField", 1), Make("Pop"), Make("Ret")>>)>>)
   EXCEPT !.table["variantField"] = <<handle>>]
Selections == {[owner |-> 1, variants |-> v, field |-> k] : v \in {<<1>>, <<2>>, <<3>>, <<1, 2>>, <<2, 3>>, <<1, 4>>}, k \in 1 .. 2}
EnumJobs ==
  {[reference |-> Selecting(h, VariantsOf(<<1, 2, 3>>)), candidate |-> Selecting(g, VariantsOf(p)), relaid |-> FALSE] :
     h, g \in Selections, p \in {<<1, 2, 3>>, <<2, 1, 3>>}}
-----------------------------------------------------------------------------
(* Entries that name what is not there.                                    *)
OutOfRange ==
  {Tables(<<Resource>>, <<Definition(1, <<Field("f", Struct(2, << >>))>>)>>, << >>, << >>),
   Tables(<<Resource>>, << >>, << >>, << >>),
   Tables(<<Resource, Resource>>, <<Definition(1, <<Field("f", u64)>>), Definition(2, <<Field("f", u64)>>)>>, << >>, << >>),
   Tables(<< >>, << >>, <<Procedure("f")>>, <<Function(1, <<1>>, << >>, <<Make("Ret")>>)>>),
   Tables(<< >>, << >>, <<Procedure("f")>>, <<Function(1, << >>, << >>, <<On("CopyLoc", 0), Make("Pop"), Make("Ret")>>)>>),
   Tables(<< >>, << >>, <<FunctionHandle("f", TRUE, <<Vector(Reference(u64))>>, << >>, << >>)>>,
          <<Function(1, << >>, << >>, <<Make("Ret")>>)>>)}

MCJobs ==
  {Alone(m) : m \in StructModules \cup GrowingModules \cup ConstrainedModules \cup AcquiringModules \cup OutOfRange}
  \cup RelaidJobs \cup PairJobs \cup EnumJobs
=============================================================================
