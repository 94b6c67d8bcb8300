--------------------------- MODULE BorrowAnalysis ---------------------------
(***************************************************************************)
(* validateBorrowSafety (src/borrow_analysis.cpp): what a block makes of   *)
(* the references its locals hold, and how the states of several ways in   *)
(* are joined.  A state s has the reference of each local, the graph, the  *)
(* next id, and within a block the references of its values.               *)
(***************************************************************************)
EXTENDS TypeAnalysis, BorrowGraph

CONSTANT NoReference   \* std::nullopt

LocalsOf(f) == DOMAIN f.locals
frameRoot(s) == Cardinality(DOMAIN s.locals)

LocalLabel(l) == <<"Local", l>>
GlobalLabel(r) == <<"Global", r>>
FieldLabel(k) == <<"Field", k>>

localBorrowed(s, l) == hasConsistentBorrows(s.graph, frameRoot(s), LocalLabel(l))
localMutablyBorrowed(s, l) == hasConsistentMutableBorrows(s.graph, frameRoot(s), LocalLabel(l))
globalBorrowed(s, r) == hasConsistentBorrows(s.graph, frameRoot(s), GlobalLabel(r))
globalMutablyBorrowed(s, r) == hasConsistentMutableBorrows(s.graph, frameRoot(s), GlobalLabel(r))

(* initialState: locals are numbered from 0, parameters first.             *)
initialState(f) ==
  LET held == {l \in LocalsOf(f) : l < f.parameters /\ isReference(f.locals[l])}
      root == Cardinality(LocalsOf(f))
  IN  [locals |-> [l \in LocalsOf(f) |-> IF l \in held THEN l ELSE NoReference],
       graph |-> [NoReferences EXCEPT
                    !.references = [x \in held \cup {root} |-> x = root \/ f.locals[x].kind = "MutableReference"]],
       next |-> root + 1]

(* canonicalize: the reference a local holds is named after the local, and *)
(* only locals hold any.                                                   *)
canonicalize(s) ==
  LET holders == {l \in DOMAIN s.locals : s.locals[l] # NoReference}
      ids == [x \in {s.locals[l] : l \in holders} \cup {frameRoot(s)} |->
                IF x = frameRoot(s) THEN x ELSE CHOOSE l \in holders : s.locals[l] = x]
      shared == \E l, m \in holders : l # m /\ s.locals[l] = s.locals[m]
  IN  [locals |-> [l \in DOMAIN s.locals |-> IF l \in holders THEN l ELSE NoReference],
       graph |-> IF shared THEN Refused(s.graph) ELSE remap(s.graph, ids),
       next |-> frameRoot(s) + 1]

(* Mutant of joinStates: a reference only one way holds is kept.           *)
joinStatesKeep(left, right) ==
  [left EXCEPT !.locals = [l \in DOMAIN @ |-> IF @[l] = NoReference THEN right.locals[l] ELSE @[l]],
               !.graph = [references |-> left.graph.references @@ right.graph.references,
                          edges |-> left.graph.edges \cup right.graph.edges, ok |-> TRUE]]

(* joinStates: a reference only one way holds is released.                 *)
joinStates(left, right) ==
  LET held(s) == {l \in DOMAIN s.locals : s.locals[l] # NoReference}
      both == held(left) \cap held(right)
      without(s) == releaseAllOf(s.graph, {s.locals[l] : l \in held(s) \ both})
  IN  [left EXCEPT !.locals = [l \in DOMAIN @ |-> IF l \in both THEN @[l] ELSE NoReference],
                   !.graph = join(without(left), without(right))]
-----------------------------------------------------------------------------
(* The pieces of Transfer.execute.                                         *)
Bad(s) == [s EXCEPT !.graph = Refused(@)]
Demand(s, condition) == IF condition THEN s ELSE Bad(s)

In(s, i, k) == s.values[i.inputs[k]]
Reference(s, i, k) == In(s, i, k) # NoReference
GivesValues(s, i) == [s EXCEPT !.values = [v \in ToSet(i.outputs) |-> NoReference] @@ @]
Gives(s, i, id) == [s EXCEPT !.values = (i.outputs[1] :> id) @@ @]
Drop(s, id) == IF id = NoReference THEN s ELSE [s EXCEPT !.graph = release(@, id)]

(* A new reference, borrowed as lend says from the others.                 *)
Lend(s, i, mutable, lend(_, _)) ==
  Gives([s EXCEPT !.graph = lend(newReference(@, s.next, mutable), s.next), !.next = @ + 1], i, s.next)

CopyLoc(s, i) ==
  LET stored == s.locals[i.arg]
  IN  IF stored # NoReference
      THEN Lend(s, i, isMutable(s.graph, stored), LAMBDA g, id : addStrongBorrow(g, stored, id))
      ELSE GivesValues(Demand(s, ~ localMutablyBorrowed(s, i.arg)), i)

MoveLoc(s, i) ==
  LET stored == s.locals[i.arg]
  IN  [Gives(Demand(s, stored = NoReference => ~ localBorrowed(s, i.arg)), i, stored)
         EXCEPT !.locals[i.arg] = NoReference]

StLoc(s, i) ==
  LET old == s.locals[i.arg]
  IN  [Drop(Demand(s, old = NoReference => ~ localBorrowed(s, i.arg)), old) EXCEPT !.locals[i.arg] = In(s, i, 1)]

FreezeRef(s, i) ==
  LET parent == In(s, i, 1)
  IN  IF ~ Reference(s, i, 1) THEN Bad(s)
      ELSE Drop(Lend(Demand(s, freezable(s.graph, parent, AnyLabel)), i, FALSE,
                     LAMBDA g, id : addStrongBorrow(g, parent, id)), parent)

(* The first operand is released before the second is looked at.           *)
Compare(s, i) ==
  LET one(t, k) == IF Reference(t, i, k) THEN Drop(Demand(t, readable(t.graph, In(t, i, k), AnyLabel)), In(t, i, k)) ELSE t
  IN  GivesValues(one(one(s, 1), 2), i)

(* An operation through its input k that needs what allowed says of it.    *)
Through1(s, i, k, allowed(_, _)) ==
  IF ~ Reference(s, i, k) THEN Bad(s)
  ELSE GivesValues(Drop(Demand(s, allowed(s.graph, In(s, i, k))), In(s, i, k)), i)

Reads(g, id) == readable(g, id, AnyLabel)

BorrowLoc(s, i) ==
  LET root == frameRoot(s)
  IN  Lend(Demand(s, IF Mutably(i.op) THEN ~ hasFullBorrows(s.graph, root) ELSE ~ localMutablyBorrowed(s, i.arg)),
           i, Mutably(i.op), LAMBDA g, id : addStrongFieldBorrow(g, root, LocalLabel(i.arg), id))

(* Also the call of a function that only borrows a field mutably.          *)
BorrowFieldOf(s, i, field, mutable) ==
  LET parent == In(s, i, 1)
      free == IF mutable THEN ~ hasFullBorrows(s.graph, parent) ELSE readable(s.graph, parent, FieldLabel(field))
  IN  IF ~ Reference(s, i, 1) THEN Bad(s)
      ELSE Drop(Lend(Demand(s, free), i, mutable, LAMBDA g, id : addStrongFieldBorrow(g, parent, FieldLabel(field), id)), parent)

BorrowGlobal(s, i) ==
  Lend(Demand(s, ~ (Mutably(i.op) /\ globalBorrowed(s, i.arg)) /\ ~ globalMutablyBorrowed(s, i.arg)),
       i, Mutably(i.op), LAMBDA g, id : addWeakFieldBorrow(g, frameRoot(s), GlobalLabel(i.arg), id))

BorrowElement(s, i) ==
  LET parent == In(s, i, 1)
      free == IF Mutably(i.op) THEN writable(s.graph, parent) ELSE readable(s.graph, parent, AnyLabel)
  IN  IF ~ Reference(s, i, 1) THEN Bad(s)
      ELSE Drop(Lend(Demand(s, free), i, Mutably(i.op), LAMBDA g, id : addWeakBorrow(g, parent, id)), parent)

(* createCallResults: a mutable result may point into what a mutable       *)
(* argument points to, another one into what any does.                     *)
CallResults(s, i, types, arguments) ==
  FoldLeft(LAMBDA t, v :
             LET mutable == types[v].kind = "MutableReference"
                 parents == {id \in arguments : mutable => isMutable(s.graph, id)}
                 lent == FoldSet(LAMBDA p, g : addWeakBorrow(g, p, t.next), newReference(t.graph, t.next, mutable), parents)
             IN  IF ~ isReference(types[v]) THEN [t EXCEPT !.values = (v :> NoReference) @@ @]
                 ELSE [t EXCEPT !.values = (v :> t.next) @@ @, !.next = @ + 1, !.graph = lent],
           s, i.outputs)

(* call: on the first count of its inputs; acquires is known of functions  *)
(* of this module only.                                                    *)
Call(s, i, types, count, acquires) ==
  LET arguments == {In(s, i, k) : k \in 1 .. count} \ {NoReference}
      free == /\ \A id \in arguments : isMutable(s.graph, id) => writable(s.graph, id)
              /\ \A r \in acquires : ~ globalBorrowed(s, r)
      done == CallResults(Demand(s, free), i, types, arguments)
  IN  [done EXCEPT !.graph = releaseAllOf(@, arguments)]

Return(s, i) ==
  LET g == releaseAllOf(s.graph, {s.locals[l] : l \in DOMAIN s.locals} \ {NoReference})
      returned == {In(s, i, k) : k \in DOMAIN i.inputs} \ {NoReference}
      free == /\ ~ hasConsistentBorrows(g, frameRoot(s), AnyLabel)
              /\ \A id \in returned : isMutable(g, id) => writable(g, id)
  IN  [Demand(s, free) EXCEPT !.graph = IF free THEN releaseAllOf(g, returned) ELSE Refused(@),
                              !.locals = [l \in DOMAIN @ |-> NoReference]]

(* Everything else handles no reference.                                   *)
ValuesOnly(s, i, types) ==
  GivesValues(Demand(s, /\ \A k \in DOMAIN i.inputs : ~ Reference(s, i, k)
                        /\ \A v \in ToSet(i.outputs) : ~ isReference(types[v])), i)

(* Transfer.execute.                                                       *)
Execute(s, i, types) ==
  CASE ~ s.graph.ok \/ i.op \in {"BrTrue", "BrFalse", "Branch", "Abort", "AbortMsg", "Nop"} -> s
    [] i.op \in {"Pop", "MoveTo"} -> Drop(s, In(s, i, 1))
    [] i.op = "CopyLoc" -> CopyLoc(s, i)
    [] i.op = "MoveLoc" -> MoveLoc(s, i)
    [] i.op = "StLoc" -> StLoc(s, i)
    [] i.op = "FreezeRef" -> FreezeRef(s, i)
    [] i.op \in {"Eq", "Neq"} -> Compare(s, i)
    [] i.op \in {"ReadRef", "TestVariant"} -> Through1(s, i, 1, Reads)
    [] i.op = "VecLen" -> Through1(s, i, 1, LAMBDA g, id : TRUE)
    [] i.op = "WriteRef" -> Through1(s, i, 2, writable)
    [] i.op \in {"VecPushBack", "VecPopBack", "VecSwap"} -> Through1(s, i, 1, writable)
    [] i.op \in {"MutBorrowLoc", "ImmBorrowLoc"} -> BorrowLoc(s, i)
    [] i.op \in {"MutBorrowField", "ImmBorrowField", "MutBorrowVariantField", "ImmBorrowVariantField"} ->
         BorrowFieldOf(s, i, i.part, Mutably(i.op))
    [] i.op \in {"MutBorrowGlobal", "ImmBorrowGlobal"} -> BorrowGlobal(s, i)
    [] i.op \in {"VecImmBorrow", "VecMutBorrow"} -> BorrowElement(s, i)
    [] i.op = "MoveFrom" -> GivesValues(Demand(s, ~ globalBorrowed(s, i.arg)), i)
    [] i.op = "Call" -> IF Callables[i.arg].field # << >> THEN BorrowFieldOf(s, i, Callables[i.arg].field[1], TRUE)
                        ELSE Call(s, i, types, Len(i.inputs), Callables[i.arg].acquires)
    [] i.op = "CallClosure" -> Call(s, i, types, Len(i.inputs) - 1, {})
    [] i.op = "Ret" -> Return(s, i)
    [] i.op = "PackClosure" -> GivesValues(Demand(s, \A k \in DOMAIN i.inputs : ~ Reference(s, i, k)), i)
    [] OTHER -> ValuesOnly(s, i, types)

(* executeBlock.                                                           *)
ExecuteBlock(s, instructions, types) ==
  canonicalize(FoldLeft(LAMBDA t, i : Execute(t, i, types), s @@ [values |-> << >>], instructions))

(* What comes in to block b, from the way in and from what went out of     *)
(* blocks already seen; a sequence that is empty if nothing does.          *)
IncomingState(cfg, f, outgoing, b) ==
  LET known == SelectSeq(cfg[b].predecessors, LAMBDA p : cfg[p].reachable /\ outgoing[p] # << >>)
      states == (IF b = 0 THEN <<initialState(f)>> ELSE << >>) \o [k \in DOMAIN known |-> outgoing[known[k]][1]]
  IN  IF states = << >> THEN << >> ELSE <<FoldLeft(joinStates, Head(states), Tail(states))>>
=============================================================================
