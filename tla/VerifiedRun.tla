----------------------------- MODULE VerifiedRun -----------------------------
(***************************************************************************)
(* The checks validateModule makes of a function body (src/validator.cpp:  *)
(* 1187-1196) - graph, stack, types, locals, borrows - and then a run of   *)
(* what they accepted: where its references point, instruction by          *)
(* instruction.                                                            *)
(***************************************************************************)
EXTENDS BorrowAnalysis, LocalCheck

CONSTANTS FunctionBodies,   \* [code, parameters, locals, returns, type_parameters]
          MaxRounds,        \* the rounds the borrow analysis may take
          PathBound         \* how deep the calls of a run reach into what they are given

VARIABLES function, cfg, lifted, types, phase,
          block, changed, rounds, incoming, outgoing,   \* the borrow analysis
          machine

vars == <<function, cfg, lifted, types, phase, block, changed, rounds, incoming, outgoing, machine>>
borrowVars == <<block, changed, rounds, incoming, outgoing>>

Code(f) == [k \in DOMAIN f.code |-> f.code[k] @@ [arity |-> TableEffect(f, f.code[k])]]

(* liftToStackless: the blocks in order.                                   *)
LiftAll(code, graph) ==
  FoldLeft(LAMBDA s, b : LET done == LiftBlock(BlockCode(code, graph[b]), s.next)
                         IN  [next |-> done.next, blocks |-> s.blocks @@ (b :> done.done)],
           [next |-> 0, blocks |-> << >>], SetToSortSeq(DOMAIN graph, <))
-----------------------------------------------------------------------------
Init ==
  /\ function \in FunctionBodies
  /\ cfg = << >> /\ lifted = << >> /\ types = << >> /\ phase = "build"
  /\ block = 0 /\ changed = FALSE /\ rounds = 1 /\ incoming = << >> /\ outgoing = << >>
  /\ machine = << >>

Build ==
  /\ phase = "build"
  /\ LET flow == FlowOf(function.code) IN
       IF CfgRejects(flow) THEN phase' = "refused" /\ UNCHANGED cfg
       ELSE /\ cfg' = buildControlFlowGraph(flow)
            /\ phase' = IF \E b \in DOMAIN cfg' : cfg'[b].exit = "FallOff" THEN "refused" ELSE "lift"
  /\ UNCHANGED <<function, lifted, types, borrowVars, machine>>

Lift ==
  /\ phase = "lift"
  /\ IF StackUsageOK(Code(function), cfg)
     THEN lifted' = LiftAll(Code(function), cfg).blocks /\ phase' = "types"
     ELSE phase' = "refused" /\ UNCHANGED lifted
  /\ UNCHANGED <<function, cfg, types, borrowVars, machine>>

InferAll ==
  /\ phase = "types"
  /\ LET inferred == InferTypes(function, FlattenSeq([b \in 1 .. Cardinality(DOMAIN cfg) |-> lifted[b - 1]])) IN
       /\ types' = inferred.types
       /\ phase' = IF inferred.ok /\ ~ LocalsRefused(function, cfg) THEN "borrow" ELSE "refused"
  /\ incoming' = [b \in DOMAIN cfg |-> << >>] /\ outgoing' = [b \in DOMAIN cfg |-> << >>]
  /\ UNCHANGED <<function, cfg, lifted, block, changed, rounds, machine>>

(* One block of a round.                                                   *)
BorrowBlock ==
  /\ phase = "borrow" /\ block \in DOMAIN cfg
  /\ LET in == IF cfg[block].reachable THEN IncomingState(cfg, function, outgoing, block) ELSE << >> IN
       IF in = << >> THEN UNCHANGED <<phase, incoming, outgoing, changed>>
       ELSE LET out == ExecuteBlock(in[1], lifted[block], types) IN
            /\ phase' = IF in[1].graph.ok /\ out.graph.ok THEN phase ELSE "refused"
            /\ incoming' = [incoming EXCEPT ![block] = in]
            /\ outgoing' = [outgoing EXCEPT ![block] = <<out>>]
            /\ changed' = (changed \/ incoming[block] # in \/ outgoing[block] # <<out>>)
  /\ block' = block + 1
  /\ UNCHANGED <<function, cfg, lifted, types, rounds, machine>>

(* After a round that changed something comes another one.                 *)
BorrowRound ==
  /\ phase = "borrow" /\ block \notin DOMAIN cfg
  /\ phase' = CASE ~ changed -> "accepted"
                [] changed /\ rounds = MaxRounds -> "limit"
                [] OTHER -> phase
  /\ block' = 0 /\ changed' = FALSE /\ rounds' = rounds + 1
  /\ UNCHANGED <<function, cfg, lifted, types, incoming, outgoing, machine>>
-----------------------------------------------------------------------------
(* The Move VM (external).  A reference points to a path into a local of   *)
(* the function, into what a parameter referred to from outside, or into a *)
(* global resource; resources are all at one address.                      *)
Points(root, path, mutable) == [root |-> root, path |-> path, mutable |-> mutable]
Value == Points(<<"Value", 0>>, << >>, FALSE)
Absent == Points(<<"Absent", 0>>, << >>, FALSE)
IsReference(v) == v.root[1] \in {"Local", "Parameter", "Global"}

Overlap(p, q) == p.root = q.root /\ (IsPrefix(p.path, q.path) \/ IsPrefix(q.path, p.path))
Inside(p, q) == p.root = q.root /\ IsPrefix(q.path, p.path) /\ p.path # q.path

Top(m, i) == SubSeq(m.stack, Len(m.stack) - Len(i.inputs) + 1, Len(m.stack))
Below(m, i) == SubSeq(m.stack, 1, Len(m.stack) - Len(i.inputs))
Here(m) == lifted[m.block][m.at]

(* What a call may give back for result v: a place in what it was given.   *)
Given(args, mutable) ==
  UNION {{Points(a.root, path, mutable) : path \in {a.path} \cup (IF Len(a.path) < PathBound THEN {Append(a.path, FieldLabel(1))} ELSE {})} :
           a \in {x \in args : IsReference(x) /\ (mutable => x.mutable)}}
CallOutcomes(args, outputs) ==
  LET choices == [k \in DOMAIN outputs |->
                    IF isReference(types[outputs[k]]) THEN Given(args, types[outputs[k]].kind = "MutableReference") ELSE {Value}]
  IN  {r \in [DOMAIN outputs -> UNION {choices[k] : k \in DOMAIN choices}] :
         /\ \A k \in DOMAIN outputs : r[k] \in choices[k]
         /\ \A j, k \in DOMAIN outputs : j # k /\ r[j].mutable => ~ Overlap(r[j], r[k])}

(* The results instruction i may have on args.                             *)
ResultsOf(m, i, args) ==
  CASE i.op \in {"CopyLoc", "MoveLoc"} -> {<<m.locals[i.arg]>>}
    [] i.op \in {"MutBorrowLoc", "ImmBorrowLoc"} -> {<<Points(<<"Local", i.arg>>, << >>, Mutably(i.op))>>}
    [] i.op \in {"MutBorrowGlobal", "ImmBorrowGlobal"} -> {<<Points(<<"Global", i.arg>>, << >>, Mutably(i.op))>>}
    [] i.op = "FreezeRef" -> {<<[args[1] EXCEPT !.mutable = FALSE]>>}
    [] i.op = "ReadRef" -> {<<IF args[1].root[1] = "Local" /\ args[1].path = << >> THEN m.locals[args[1].root[2]] ELSE Value>>}
    [] i.op \in {"MutBorrowField", "ImmBorrowField", "MutBorrowVariantField", "ImmBorrowVariantField"} ->
         {<<[args[1] EXCEPT !.path = Append(@, FieldLabel(i.part)), !.mutable = Mutably(i.op)]>>}
    [] i.op \in {"VecImmBorrow", "VecMutBorrow"} ->
         {<<[args[1] EXCEPT !.path = Append(@, <<"Element", k>>), !.mutable = Mutably(i.op)]>> : k \in {0, 1}}
    [] i.op = "Call" /\ Callables[i.arg].field # << >> ->
         {<<[args[1] EXCEPT !.path = Append(@, FieldLabel(Callables[i.arg].field[1]))]>>}
    [] i.op \in {"Call", "CallClosure"} -> CallOutcomes(ToSet(args), i.outputs)
    [] OTHER -> {[k \in DOMAIN i.outputs |-> Value]}

CallFunction ==
  /\ phase = "accepted"
  /\ phase' = "run"
  /\ machine' = [block |-> 0, at |-> 1, stack |-> << >>,
                 locals |-> [l \in DOMAIN function.locals |->
                    CASE l >= function.parameters -> Absent
                      [] l < function.parameters /\ isReference(function.locals[l]) ->
                           Points(<<"Parameter", l>>, << >>, function.locals[l].kind = "MutableReference")
                      [] OTHER -> Value]]
  /\ UNCHANGED <<function, cfg, lifted, types, borrowVars>>

Step ==
  /\ phase = "run" /\ machine.at \in DOMAIN lifted[machine.block]
  /\ LET i == Here(machine) IN
       \E results \in ResultsOf(machine, i, Top(machine, i)) :
         machine' = [machine EXCEPT
                       !.at = @ + 1,
                       !.stack = Below(machine, i) \o results,
                       !.locals = CASE i.op = "MoveLoc" -> [@ EXCEPT ![i.arg] = Absent]
                                    [] i.op = "StLoc" -> [@ EXCEPT ![i.arg] = Top(machine, i)[1]]
                                    [] OTHER -> @]
  /\ UNCHANGED <<function, cfg, lifted, types, phase, borrowVars>>

(* A reference that only some ways bring along is over: it may be written  *)
(* over, but nothing reads it any more.                                    *)
Follow ==
  /\ phase = "run" /\ machine.at \notin DOMAIN lifted[machine.block]
  /\ \E s \in Targets(cfg[machine.block].successors) :
       LET over == {l \in DOMAIN function.locals \ MustAvailable(function, cfg)[s] : IsReference(machine.locals[l])}
       IN  machine' = [machine EXCEPT !.block = s, !.at = 1,
                                      !.locals = [l \in DOMAIN @ |-> IF l \in over THEN Absent ELSE @[l]]]
  /\ UNCHANGED <<function, cfg, lifted, types, phase, borrowVars>>

Next ==
  \/ Build \/ Lift \/ InferAll \/ BorrowBlock \/ BorrowRound
  \/ CallFunction \/ Step \/ Follow

Spec == Init /\ [][Next]_vars
-----------------------------------------------------------------------------
(* The references that are live, by where they are held.                   *)
Places(m) == {<<"local", l>> : l \in DOMAIN m.locals} \cup {<<"stack", k>> : k \in DOMAIN m.stack}
At(m, place) == IF place[1] = "local" THEN m.locals[place[2]] ELSE m.stack[place[2]]
Live(m) == {p \in Places(m) : IsReference(At(m, p))}
InputPlace(m, i, k) == <<"stack", Len(m.stack) - Len(i.inputs) + k>>

(* Written through the reference at place: no other one points inside what *)
(* is written, and no immutable one sees it change.                        *)
WritesAlone(m, place) ==
  \A p \in Live(m) \ {place} :
    /\ ~ Inside(At(m, p), At(m, place))
    /\ ~ At(m, p).mutable => ~ Overlap(At(m, p), At(m, place))

PassesAlone(m, i, count) ==
  \A k \in 1 .. count : At(m, InputPlace(m, i, k)).mutable =>
    /\ WritesAlone(m, InputPlace(m, i, k))
    /\ \A j \in 1 .. count : j # k => ~ Overlap(At(m, InputPlace(m, i, j)), At(m, InputPlace(m, i, k)))

NobodyIn(m, root) == \A p \in Live(m) : At(m, p).root # root
NobodyWrites(m, root) == \A p \in Live(m) : At(m, p).root = root => ~ At(m, p).mutable

StepIsSafe(m, i) ==
  CASE i.op = "WriteRef" -> WritesAlone(m, InputPlace(m, i, 2))
    [] i.op \in {"VecPushBack", "VecPopBack", "VecSwap"} -> WritesAlone(m, InputPlace(m, i, 1))
    [] i.op = "Call" /\ Callables[i.arg].field = << >> ->
         PassesAlone(m, i, Len(i.inputs)) /\ \A r \in Callables[i.arg].acquires : NobodyIn(m, <<"Global", r>>)
    [] i.op = "CallClosure" -> PassesAlone(m, i, Len(i.inputs) - 1)
    [] i.op \in {"MoveFrom", "MutBorrowGlobal"} -> NobodyIn(m, <<"Global", i.arg>>)
    [] i.op = "ImmBorrowGlobal" -> NobodyWrites(m, <<"Global", i.arg>>)
    [] i.op = "Ret" ->
         \A k \in DOMAIN i.inputs : LET v == At(m, InputPlace(m, i, k)) IN
           /\ IsReference(v) => v.root[1] = "Parameter"
           /\ \A j \in DOMAIN i.inputs \ {k} : v.mutable => ~ Overlap(v, At(m, InputPlace(m, i, j)))
    [] OTHER -> TRUE

(* type_analysis.cpp:366 takes a borrow of a local that holds a reference, *)
(* and what is read through it is not followed any more.                   *)
NestedReference == \E v \in DOMAIN types : isReference(types[v]) /\ isReference(To(types[v]))

(* borrow_analysis.cpp:430-900.  In what was accepted, no write, call,     *)
(* move or return catches another reference: none is left that points      *)
(* inside what a write replaces, none that is immutable sees a write, none *)
(* outlives the local or the resource it points into.                      *)
ReferencesStaySafeElse ==
  phase = "run" /\ ~ NestedReference =>
    /\ \A p \in Live(machine) : At(machine, p).root[1] = "Local" => machine.locals[At(machine, p).root[2]] = Value
    /\ machine.at \in DOMAIN lifted[machine.block] => StepIsSafe(machine, Here(machine))

(* type_analysis.cpp:289-795, local_analysis.cpp.  In what was accepted,   *)
(* values and locals are references, mutable or not, where their types say *)
(* so, and every local that is read has a value.                           *)
OperandsFit ==
  LET fits(v, t) == IsReference(v) = isReference(t) /\ v.mutable = (t.kind = "MutableReference") /\ v # Absent
  IN  /\ phase = "run" =>
           \A l \in DOMAIN machine.locals : machine.locals[l] # Absent => fits(machine.locals[l], function.locals[l])
      /\ phase = "run" /\ machine.at \in DOMAIN lifted[machine.block] =>
           LET i == Here(machine)
           IN  /\ Len(i.inputs) <= Len(machine.stack)
               /\ \A k \in DOMAIN i.inputs : fits(Top(machine, i)[k], types[i.inputs[k]])
               /\ i.op \in Locals => machine.locals[i.arg] # Absent

Held(s) == {l \in DOMAIN s.locals : s.locals[l] # NoReference}

(* borrow_analysis.cpp:79-330.  When a block is entered, the graph found   *)
(* for it knows every two locals whose references overlap, one of them     *)
(* mutable: if one points inside the other, it borrows from it by way of   *)
(* that field.  And it knows of a local or resource that it is borrowed.   *)
Borrowers(g, id) ==
  LET from[k \in Nat] == IF k = 0 THEN {id} ELSE from[k - 1] \cup {e.child : e \in {x \in g.edges : x.parent \in from[k - 1]}}
  IN  from[Cardinality(DOMAIN g.references)]
BorrowedBy(g, parent, label, id) ==
  \E e \in g.edges : e.parent = parent /\ Meets(e, label) /\ id \in Borrowers(g, e.child)
AliasesAreKnown ==
  phase = "run" /\ machine.at = 1 /\ ~ NestedReference =>
    LET s == incoming[machine.block][1]
        held(l) == machine.locals[l]
        live == {l \in Held(s) : IsReference(held(l))}
    IN  /\ \A l, m \in live : l # m /\ (held(l).mutable \/ held(m).mutable) /\ Overlap(held(l), held(m)) =>
              CASE Inside(held(m), held(l)) -> BorrowedBy(s.graph, l, held(m).path[Len(held(l).path) + 1], m)
                [] Inside(held(l), held(m)) -> BorrowedBy(s.graph, m, held(l).path[Len(held(m).path) + 1], l)
                [] OTHER -> m \in Borrowers(s.graph, l) \/ l \in Borrowers(s.graph, m)
        /\ \A l \in live : held(l).root[1] \in {"Local", "Global"} => BorrowedBy(s.graph, frameRoot(s), held(l).root, l)

(* borrow_analysis.cpp:333-343, :866-894.  From round to round a block     *)
(* finds fewer references and more loans between those it still finds, up  *)
(* to the names the references have: this is why the rounds come to an     *)
(* end.  They do so within a few, far from the limit of 10,000.            *)
SaysNoLess(new, old) ==
  /\ Held(new) \subseteq Held(old)
  /\ \A e \in old.graph.edges :
       e.child \in Held(new) /\ e.parent \in Held(new) \cup {frameRoot(new)} => \E c \in new.graph.edges : edgeCovers(c, e)
RoundsConverge ==
  [][/\ phase' # "limit"
     /\ \A b \in DOMAIN incoming :
          incoming[b] # << >> /\ phase' = "borrow" =>
            incoming'[b] # << >> /\ SaysNoLess(incoming'[b][1], incoming[b][1])]_vars

(* tests/verifier_parity_tests.cpp:80 "verifier_parity_rejects_nested_     *)
(* references": no value of an accepted function refers to a reference.    *)
NestedReferencesAreRefused == phase \in {"accepted", "run"} => ~ NestedReference
=============================================================================
