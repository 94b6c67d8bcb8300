----------------------------- MODULE Iteration -----------------------------
(***************************************************************************)
(* The loops that run until nothing changes, as a number of rounds that is *)
(* enough for them to: once nothing changes, a further round does nothing. *)
(***************************************************************************)
EXTENDS Integers, FiniteSets

(* start, after that many steps.                                           *)
Iterate(step(_), start, times) ==
  LET after[k \in Nat] == IF k = 0 THEN start ELSE step(after[k - 1])
  IN  after[times]

(* start, after a loop over the numbers from 0 to times - 1.               *)
ForUpTo(step(_, _), start, times) ==
  LET after[k \in 0 .. times] == IF k = 0 THEN start ELSE step(after[k - 1], k - 1)
  IN  after[times]

(* What a flood over the successor sets marks from the marked nodes, kept  *)
(* to the nodes within.                                                    *)
Flooded(graph, within, marked) ==
  Iterate(LAMBDA m : m \cup (within \cap UNION {graph[b] : b \in m}),
          marked, Cardinality(within))
=============================================================================
