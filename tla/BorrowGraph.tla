----------------------------- MODULE BorrowGraph -----------------------------
(***************************************************************************)
(* BorrowGraph of src/borrow_analysis.cpp: which reference was borrowed    *)
(* from which, along which path of fields.  A strong edge knows the whole  *)
(* path, a weak one the beginning of it.                                   *)
(*                                                                         *)
(* A graph has its references, a function from ids to whether they are     *)
(* mutable, and its edges.  What the code refuses makes it not ok.         *)
(***************************************************************************)
EXTENDS Integers, FiniteSets, Sequences, SequencesExt

CONSTANTS MaxEdgesPerPair, MaxPathLength

ASSUME LimitsAssumption == MaxEdgesPerPair \in Nat \ {0} /\ MaxPathLength \in Nat

Loan(parent, child, strong, path) == [parent |-> parent, child |-> child, strong |-> strong, path |-> path]

NoReferences == [references |-> << >>, edges |-> {}, ok |-> TRUE]

Refused(g) == [g EXCEPT !.ok = FALSE]

newReference(g, id, mutable) ==
  IF id \in DOMAIN g.references THEN Refused(g) ELSE [g EXCEPT !.references = (id :> mutable) @@ @]

isMutable(g, id) == g.references[id]

edgeCovers(cover, e) ==
  /\ cover.parent = e.parent /\ cover.child = e.child
  /\ cover = e \/ (~ cover.strong /\ IsPrefix(cover.path, e.path))

Between(edges, e) == {x \in edges : x.parent = e.parent /\ x.child = e.child}

(* addEdge: nothing is kept that another edge says already, and too many   *)
(* edges, or too long a path, become one that says the least.              *)
addEdge(g, edge) ==
  LET e == IF Len(edge.path) > MaxPathLength THEN [edge EXCEPT !.strong = FALSE, !.path = << >>] ELSE edge
      kept == {x \in g.edges : ~ edgeCovers(e, x)} \cup {e}
  IN  CASE e.parent = e.child -> g
        [] e.parent # e.child /\ {e.parent, e.child} \subseteq DOMAIN g.references ->
             IF \E x \in g.edges : edgeCovers(x, e) THEN g
             ELSE [g EXCEPT !.edges =
                     IF Cardinality(Between(kept, e)) <= MaxEdgesPerPair THEN kept
                     ELSE (kept \ Between(kept, e)) \cup {Loan(e.parent, e.child, FALSE, << >>)}]
        [] OTHER -> Refused(g)

addEdges(g, edges) == FoldSet(LAMBDA e, h : addEdge(h, e), g, edges)

(* Mutant of factor: those who borrowed from parent before stay with it.   *)
factorNothing(g, parent, path, intermediate) == addEdge(g, Loan(parent, intermediate, TRUE, path))

(* factor: who borrowed from parent along path now does so from the new    *)
(* reference in between.                                                   *)
factor(g, parent, path, intermediate) ==
  LET moved == {e \in g.edges : e.parent = parent /\ IsPrefix(path, e.path)}
  IN  addEdge(addEdges([g EXCEPT !.edges = @ \ moved],
                       {Loan(intermediate, e.child, e.strong, SubSeq(e.path, Len(path) + 1, Len(e.path))) : e \in moved}),
              Loan(parent, intermediate, TRUE, path))

addStrongBorrow(g, parent, child) == factor(g, parent, << >>, child)
addStrongFieldBorrow(g, parent, label, child) == factor(g, parent, <<label>>, child)
addWeakBorrow(g, parent, child) == addEdge(g, Loan(parent, child, FALSE, << >>))
addWeakFieldBorrow(g, parent, label, child) == addEdge(g, Loan(parent, child, FALSE, <<label>>))

(* What an edge into a reference and one out of it say together.           *)
Through(in, out) ==
  Loan(in.parent, out.child, in.strong /\ out.strong, IF in.strong THEN in.path \o out.path ELSE in.path)

(* Mutant of release: who borrowed from id borrows from nobody now.        *)
releaseAll(g, id) ==
  IF id \notin DOMAIN g.references THEN Refused(g)
  ELSE [g EXCEPT !.references = [x \in DOMAIN @ \ {id} |-> @[x]],
                 !.edges = {e \in @ : e.parent # id /\ e.child # id}]

release(g, id) ==
  IF id \notin DOMAIN g.references THEN Refused(g)
  ELSE addEdges([g EXCEPT !.references = [x \in DOMAIN @ \ {id} |-> @[x]],
                          !.edges = {e \in @ : e.parent # id /\ e.child # id}],
                UNION {{Through(in, out) : in \in {e \in g.edges : e.child = id /\ e.parent # out.child}} :
                         out \in {e \in g.edges : e.parent = id}})

releaseAllOf(g, ids) == FoldSet(LAMBDA id, h : release(h, id), g, ids)
-----------------------------------------------------------------------------
hasFullBorrows(g, id) == \E e \in g.edges : e.parent = id /\ e.path = << >>

(* A label that is none of them: any field.                                *)
AnyLabel == << >>
Meets(e, label) == e.path = << >> \/ label = AnyLabel \/ e.path[1] = label

hasConsistentBorrows(g, id, label) == \E e \in g.edges : e.parent = id /\ Meets(e, label)

hasConsistentMutableBorrows(g, id, label) ==
  \E e \in g.edges : e.parent = id /\ isMutable(g, e.child) /\ Meets(e, label)

(* Mutant of writable: only who borrowed the whole counts.                 *)
writableFields(g, id) == isMutable(g, id) /\ ~ hasFullBorrows(g, id)

writable(g, id) == isMutable(g, id) /\ ~ hasConsistentBorrows(g, id, AnyLabel)
freezable(g, id, label) == isMutable(g, id) /\ ~ hasConsistentMutableBorrows(g, id, label)
readable(g, id, label) == ~ isMutable(g, id) \/ freezable(g, id, label)
-----------------------------------------------------------------------------
(* remap: the references get the names ids gives them, and all have one.   *)
remap(g, ids) ==
  IF ~ DOMAIN g.references \subseteq DOMAIN ids THEN Refused(g)
  ELSE addEdges([g EXCEPT !.references = [n \in {ids[x] : x \in DOMAIN @} |-> @[CHOOSE x \in DOMAIN @ : ids[x] = n]],
                          !.edges = {}],
                {[e EXCEPT !.parent = ids[@], !.child = ids[e.child]] : e \in g.edges})

(* Mutant of join: what the way on the right borrowed is forgotten.        *)
joinLeft(left, right) == IF left.references # right.references THEN Refused(left) ELSE left

join(left, right) == IF left.references # right.references THEN Refused(left) ELSE addEdges(left, right.edges)
=============================================================================
