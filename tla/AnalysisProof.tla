--------------------------- MODULE AnalysisProof ---------------------------
(***************************************************************************)
(* Proofs about the graph analysis: for every code unit, what is reported  *)
(* of its graph agrees with the walks of the graph.                        *)
(***************************************************************************)
EXTENDS AnalysisRun, ControlFlowProof, SequenceTheorems

IsGraph(g) == IsFiniteSet(DOMAIN g) /\ \A n \in DOMAIN g : g[n] \subseteq DOMAIN g

(* What walks from b reach in g without entering a node of avoid.          *)
From(g, b, avoid) ==
  IF b \in avoid THEN {} ELSE Flooded(g, DOMAIN g \ avoid, {b})

LEMMA FromIsClosed ==
  ASSUME NEW g, IsGraph(g), NEW b \in DOMAIN g, NEW avoid
  PROVE  /\ From(g, b, avoid) \subseteq DOMAIN g \ avoid
         /\ b \notin avoid => b \in From(g, b, avoid)
         /\ \A m \in From(g, b, avoid) : \A k \in g[m] : k \notin avoid => k \in From(g, b, avoid)
<1> DEFINE within == DOMAIN g \ avoid
<1>1. CASE b \in avoid  BY <1>1 DEF From
<1>2. CASE b \notin avoid
  <2>1. IsFiniteSet(within)  BY FS_Subset DEF IsGraph
  <2>2. From(g, b, avoid) = Flooded(g, within, {b})  BY <1>2 DEF From
  <2>3. /\ {b} \subseteq Flooded(g, within, {b})
        /\ Flooded(g, within, {b}) \subseteq {b} \cup within
        /\ \A m \in Flooded(g, within, {b}) : g[m] \cap within \subseteq Flooded(g, within, {b})
    BY <2>1, FloodIsClosed
  <2>4. \A m \in Flooded(g, within, {b}) : g[m] \subseteq DOMAIN g  BY <1>2, <2>3 DEF IsGraph
  <2> QED  BY <1>2, <2>2, <2>3, <2>4
<1> QED  BY <1>1, <1>2

LEMMA FromIsLeast ==
  ASSUME NEW g, IsGraph(g), NEW b \in DOMAIN g, NEW avoid, NEW S,
         b \notin avoid => b \in S,
         \A m \in S : m \in DOMAIN g \ avoid => \A k \in g[m] : k \notin avoid => k \in S
  PROVE  From(g, b, avoid) \subseteq S
<1>1. CASE b \in avoid  BY <1>1 DEF From
<1>2. CASE b \notin avoid
  <2> DEFINE within == DOMAIN g \ avoid
             T == S \cap within
  <2>1. IsFiniteSet(within)  BY FS_Subset DEF IsGraph
  <2>2. From(g, b, avoid) = Flooded(g, within, {b})  BY <1>2 DEF From
  <2>3. {b} \subseteq T /\ \A m \in T : g[m] \cap within \subseteq T  BY <1>2
  <2>4. Flooded(g, within, {b}) \subseteq T
    <3> HIDE DEF T, within
    <3> QED  BY <2>1, <2>3, FloodIsLeast
  <2> QED  BY <2>2, <2>4
<1> QED  BY <1>1, <1>2

(* A walk goes on where another one ends.                                  *)
LEMMA FromGoesOn ==
  ASSUME NEW g, IsGraph(g), NEW b \in DOMAIN g, NEW avoid,
         NEW m \in From(g, b, avoid)
  PROVE  m \in DOMAIN g /\ From(g, m, avoid) \subseteq From(g, b, avoid)
<1>1. m \in DOMAIN g  BY FromIsClosed
<1>2. From(g, m, avoid) \subseteq From(g, b, avoid)
  BY <1>1, FromIsClosed, FromIsLeast
<1> QED  BY <1>1, <1>2

(* Avoiding more, walks reach less.                                        *)
LEMMA FromAvoidsLess ==
  ASSUME NEW g, IsGraph(g), NEW b \in DOMAIN g, NEW avoid, NEW less, less \subseteq avoid
  PROVE  From(g, b, avoid) \subseteq From(g, b, less)
BY FromIsClosed, FromIsLeast

(* Against the edges, walks go back to where they come from.               *)
LEMMA ReversedIsGraph ==
  ASSUME NEW g, IsGraph(g)
  PROVE  /\ IsGraph(Reversed(g)) /\ DOMAIN Reversed(g) = DOMAIN g
         /\ \A m, n \in DOMAIN g : n \in Reversed(g)[m] <=> m \in g[n]
BY DEF IsGraph, Reversed, PredecessorsIn

LEMMA WalksGoBack ==
  ASSUME NEW g, IsGraph(g), NEW x \in DOMAIN g, NEW avoid, NEW y \in From(g, x, avoid)
  PROVE  x \in From(Reversed(g), y, avoid)
<1> DEFINE back == Reversed(g)
           S == {z \in DOMAIN g \ avoid : x \in From(back, z, avoid)}
<1>0. /\ IsGraph(back) /\ DOMAIN back = DOMAIN g
      /\ \A m, n \in DOMAIN g : n \in back[m] <=> m \in g[n]
  BY ReversedIsGraph
<1> HIDE DEF back
<1>1. x \notin avoid => x \in S  BY <1>0, FromIsClosed
<1>2. ASSUME NEW m \in S, NEW k \in g[m], k \notin avoid PROVE k \in S
  <2>1. m \in DOMAIN g /\ k \in DOMAIN g /\ m \notin avoid  BY <1>2 DEF IsGraph
  <2>2. m \in back[k]  BY <1>0, <2>1
  <2>3. m \in From(back, k, avoid)  BY <1>0, <1>2, <2>1, <2>2, FromIsClosed
  <2>4. From(back, m, avoid) \subseteq From(back, k, avoid)  BY <1>0, <2>1, <2>3, FromGoesOn
  <2> QED  BY <1>2, <2>1, <2>4
<1>3. From(g, x, avoid) \subseteq S
  <2> HIDE DEF S
  <2> QED  BY <1>1, <1>2, FromIsLeast
<1> QED  BY <1>3 DEF back
-----------------------------------------------------------------------------
(* d is on all walks from r to n.                                          *)
Dom(g, r, d, n) == n \notin From(g, r, {d})

(* All of these are about a graph and what walks from r reach.             *)
LEMMA DomItself ==
  ASSUME NEW g, IsGraph(g), NEW r \in DOMAIN g, NEW d
  PROVE  Dom(g, r, d, d) /\ \A n : Dom(g, r, r, n)
<1>1. Dom(g, r, d, d)  BY FromIsClosed DEF Dom
<1>2. \A n : Dom(g, r, r, n)  BY DEF Dom, From
<1> QED  BY <1>1, <1>2

LEMMA OnlyRootDomsRoot ==
  ASSUME NEW g, IsGraph(g), NEW r \in DOMAIN g, NEW d, Dom(g, r, d, r)
  PROVE  d = r
BY FromIsClosed DEF Dom

LEMMA DomsAreReached ==
  ASSUME NEW g, IsGraph(g), NEW r \in DOMAIN g, NEW n \in From(g, r, {}), NEW d, Dom(g, r, d, n)
  PROVE  d \in From(g, r, {})
<1> SUFFICES ASSUME d \notin From(g, r, {}) PROVE FALSE  OBVIOUS
<1>1. From(g, r, {}) \subseteq From(g, r, {d})  BY FromIsClosed, FromIsLeast
<1> QED  BY <1>1 DEF Dom

LEMMA DomGoesUp ==
  ASSUME NEW g, IsGraph(g), NEW r \in DOMAIN g, NEW a, NEW d, NEW e,
         Dom(g, r, a, d), Dom(g, r, d, e)
  PROVE  Dom(g, r, a, e)
<1>1. From(g, r, {a}) \subseteq From(g, r, {d})
  <2> DEFINE S == From(g, r, {a}) \cap From(g, r, {d})
  <2>1. r \notin {a} => r \in S  BY FromIsClosed DEF Dom
  <2>2. ASSUME NEW m \in S, NEW k \in g[m], k \notin {a} PROVE k \in S
    BY <2>2, FromIsClosed DEF Dom
  <2>3. From(g, r, {a}) \subseteq S  
    <3> HIDE DEF S
    <3> QED  BY <2>1, <2>2, FromIsLeast
  <2> QED  BY <2>3
<1> QED  BY <1>1 DEF Dom

(* Of two on the way to a node one is on the way to the other ...          *)
LEMMA DomsAreAChain ==
  ASSUME NEW g, IsGraph(g), NEW r \in DOMAIN g, NEW n \in From(g, r, {}), NEW d, NEW e,
         Dom(g, r, d, n), Dom(g, r, e, n), ~Dom(g, r, d, e)
  PROVE  Dom(g, r, e, d)
<1> SUFFICES ASSUME ~Dom(g, r, e, d) PROVE FALSE  OBVIOUS
<1> DEFINE S == From(g, r, {d}) \cup From(g, r, {e})
<1>1. e \in From(g, r, {d}) /\ d \in From(g, r, {e})  BY DEF Dom
<1>2. r \notin {} => r \in S  BY <1>1, FromIsClosed
<1>3. ASSUME NEW m \in S, NEW k \in g[m], k \notin {} PROVE k \in S
  <2>1. CASE m \in From(g, r, {d})  BY <1>1, <1>3, <2>1, FromIsClosed
  <2>2. CASE m \in From(g, r, {e})  BY <1>1, <1>3, <2>2, FromIsClosed
  <2> QED  BY <1>3, <2>1, <2>2
<1>4. From(g, r, {}) \subseteq S
  <2> HIDE DEF S
  <2> QED  BY <1>2, <1>3, FromIsLeast
<1> QED  BY <1>4 DEF Dom

(* ... and never each on the way to the other.                             *)
LEMMA DomsDiffer ==
  ASSUME NEW g, IsGraph(g), NEW r \in DOMAIN g, NEW d \in From(g, r, {}), NEW e,
         Dom(g, r, d, e), Dom(g, r, e, d)
  PROVE  d = e
<1> SUFFICES ASSUME d # e PROVE FALSE  OBVIOUS
<1> DEFINE S == From(g, r, {d}) \cap From(g, r, {e})
<1>1. r # d /\ r # e
  <2>1. r # d  BY OnlyRootDomsRoot
  <2>2. r # e  BY OnlyRootDomsRoot
  <2> QED  BY <2>1, <2>2
<1>2. r \notin {} => r \in S  BY <1>1, FromIsClosed
<1>3. ASSUME NEW m \in S, NEW k \in g[m], k \notin {} PROVE k \in S
  <2>1. k # d  
    <3> SUFFICES ASSUME k = d PROVE FALSE  OBVIOUS
    <3>1. k \in From(g, r, {e})  BY <1>3, FromIsClosed
    <3> QED  BY <3>1 DEF Dom
  <2>2. k # e  
    <3> SUFFICES ASSUME k = e PROVE FALSE  OBVIOUS
    <3>1. k \in From(g, r, {d})  BY <1>3, FromIsClosed
    <3> QED  BY <3>1 DEF Dom
  <2> QED  BY <1>3, <2>1, <2>2, FromIsClosed
<1>4. From(g, r, {}) \subseteq S
  <2> HIDE DEF S
  <2> QED  BY <1>2, <1>3, FromIsLeast
<1> QED  BY <1>4, FromIsClosed

(* What is on the way to a node is on the way to what leads there.         *)
LEMMA DomsOfPredecessor ==
  ASSUME NEW g, IsGraph(g), NEW r \in DOMAIN g, NEW p \in From(g, r, {}), NEW n \in g[p],
         NEW d, d # n, Dom(g, r, d, n)
  PROVE  Dom(g, r, d, p)
BY FromIsClosed DEF Dom
-----------------------------------------------------------------------------
Rows(g) == [DOMAIN g -> SUBSET DOMAIN g]

(* One turn of a pass, the passes so far, and the turns of the next one.   *)
VisitOf(g, r, live, s, n) ==
  IF Updates(r, live, n) THEN [s EXCEPT ![n] = MeetAt(g, live, s, n)] ELSE s

Visits(g, r, live, sets) ==
  CHOOSE v : v = [k \in 0 .. Cardinality(DOMAIN g) |->
                    IF k = 0 THEN sets ELSE VisitOf(g, r, live, v[k - 1], k - 1)]

(* v goes through the rows of a pass, and past it.                         *)
Visiting(v, g, r, live, sets) ==
  /\ v \in [Nat -> Rows(g)] /\ v[0] = sets
  /\ \A k \in Nat : v[k + 1] = VisitOf(g, r, live, v[k], k)
  /\ Sweep(g, r, live, sets) = v[Cardinality(DOMAIN g)]

Passes(g, r, live) ==
  CHOOSE v : v = [k \in Nat |-> IF k = 0 THEN StartSets(g, r, live)
                                ELSE Sweep(g, r, live, v[k - 1])]

LEMMA VisitType ==
  ASSUME NEW g, NEW r, NEW live, NEW s \in Rows(g), NEW n
  PROVE  VisitOf(g, r, live, s, n) \in Rows(g)
<1>1. n \in DOMAIN g => MeetAt(g, live, s, n) \in SUBSET DOMAIN g  BY DEF MeetAt
<1> QED  BY <1>1 DEF VisitOf, Rows

LEMMA SweepUnfolds ==
  ASSUME NEW g, IsFiniteSet(DOMAIN g), NEW r, NEW live, NEW sets \in Rows(g)
  PROVE  \E v : Visiting(v, g, r, live, sets)
<1> DEFINE S == Rows(g)
           N == Cardinality(DOMAIN g)
           step == [p \in S \X Nat |-> VisitOf(g, r, live, p[1], p[2])]
           Eq(v) == v = [k \in 0 .. N |-> IF k = 0 THEN sets
                                          ELSE VisitOf(g, r, live, v[k - 1], k - 1)]
           v == Visits(g, r, live, sets)
<1>0. N \in Nat  BY FS_CardinalityType
<1>1. step \in [S \X Nat -> S]
  <2>1. \A p \in S \X Nat : VisitOf(g, r, live, p[1], p[2]) \in S  BY VisitType
  <2> QED  BY <2>1
<1>2. PICK f : Loops(f, S, step, sets)
  <2> HIDE DEF S, step
  <2> QED  BY <1>1, LoopExists DEF S
<1>3. f \in [Nat -> S] /\ f[0] = sets /\ \A k \in Nat : f[k + 1] = VisitOf(g, r, live, f[k], k)
  <2>1. f \in [Nat -> S] /\ f[0] = sets /\ \A k \in Nat : f[k + 1] = step[<<f[k], k>>]
    BY <1>2 DEF Loops
  <2>2. \A k \in Nat : step[<<f[k], k>>] = VisitOf(g, r, live, f[k], k)
    <3> HIDE DEF S
    <3> QED  BY <2>1
  <2> QED  BY <2>1, <2>2
<1> HIDE DEF step, N
<1> DEFINE h == [k \in 0 .. N |-> f[k]]
<1>4. Eq(h)
  <2>1. ASSUME NEW k \in 0 .. N
        PROVE  h[k] = IF k = 0 THEN sets ELSE VisitOf(g, r, live, h[k - 1], k - 1)
    <3>1. CASE k = 0  BY <1>3, <3>1
    <3>2. CASE k # 0
      <4>1. k - 1 \in Nat /\ k - 1 \in 0 .. N /\ k - 1 + 1 = k  BY <1>0, <3>2
      <4> QED  BY <1>3, <3>2, <4>1
    <3> QED  BY <3>1, <3>2
  <2>2. h = [k \in 0 .. N |-> h[k]]  OBVIOUS
  <2> HIDE DEF h
  <2> QED  BY <2>1, <2>2
<1>5. Eq(v)
  <2>1. v = CHOOSE w : Eq(w)  BY DEF Visits, N
  <2> HIDE DEF Eq, v, h
  <2> QED  BY <1>4, <2>1
<1>6. v[N] = f[N]
  <2> DEFINE T == {k \in 0 .. N : v[k] = f[k]}
  <2> HIDE DEF v
  <2>0. v = [k \in 0 .. N |-> IF k = 0 THEN sets ELSE VisitOf(g, r, live, v[k - 1], k - 1)]
    BY <1>5
  <2>1. 0 \in T  BY <1>0, <1>3, <2>0
  <2>2. ASSUME NEW k \in 0 .. N - 1, k \in T PROVE k + 1 \in T
    <3>1. k \in Nat /\ k + 1 \in 0 .. N /\ k + 1 # 0 /\ k + 1 - 1 = k  BY <1>0
    <3> DEFINE m == k + 1
    <3>2. v[m] = IF m = 0 THEN sets ELSE VisitOf(g, r, live, v[m - 1], m - 1)
      <4> HIDE DEF m
      <4> QED  BY <2>0, <3>1 DEF m
    <3> QED  BY <1>3, <2>2, <3>1, <3>2
  <2>3. N \in 0 .. N  BY <1>0
  <2> HIDE DEF T
  <2>4. N \in T  BY <1>0, <2>1, <2>2, <2>3, ClosedUpTo
  <2> QED  BY <2>4 DEF T
<1>7. Sweep(g, r, live, sets) = v[N]
  BY Zenon DEF Sweep, ForUpTo, Visits, VisitOf, N
<1>8. Visiting(f, g, r, live, sets)  BY <1>3, <1>6, <1>7 DEF Visiting, N
<1> QED  BY <1>8

(* The reached nodes whose row lacks d, on the way to empty rows.          *)
Lacks(live, s, d) == {n \in live : d \notin s[n]}

(* What every turn of the passes keeps: no dominator is lost, and rows are *)
(* never below the meet of their predecessors' rows.                       *)
Shrinking(g, r, live, s) ==
  /\ s \in Rows(g) /\ s[r] = {r} /\ \A n \in DOMAIN g \ live : s[n] = {n}
  /\ \A d \in DOMAIN g : Lacks(live, s, d) \subseteq From(g, r, {d})
  /\ \A n \in live \ {r} : MeetAt(g, live, s, n) \subseteq s[n]

LEMMA ReachedFromReached ==
  ASSUME NEW g, IsGraph(g), NEW r \in DOMAIN g, NEW n \in From(g, r, {}), n # r
  PROVE  PredecessorsIn(g, n) \cap From(g, r, {}) # {}
<1> DEFINE S == From(g, r, {}) \ {n}
<1> SUFFICES ASSUME PredecessorsIn(g, n) \cap From(g, r, {}) = {} PROVE FALSE  OBVIOUS
<1>1. r \notin {} => r \in S  BY FromIsClosed
<1>2. ASSUME NEW m \in S, NEW k \in g[m], k \notin {} PROVE k \in S
  BY <1>2, FromIsClosed DEF PredecessorsIn
<1>3. From(g, r, {}) \subseteq S
  <2> HIDE DEF S
  <2> QED  BY <1>1, <1>2, FromIsLeast
<1> QED  BY <1>3

LEMMA StartShrinking ==
  ASSUME NEW g, IsGraph(g), NEW r \in DOMAIN g, NEW live, live = From(g, r, {})
  PROVE  Shrinking(g, r, live, StartSets(g, r, live))
<1> DEFINE s == StartSets(g, r, live)
<1>1. live \subseteq DOMAIN g /\ r \in live  BY FromIsClosed
<1>2. \A n \in DOMAIN g : s[n] = IF n \in live /\ n # r THEN live ELSE {n}  BY DEF StartSets
<1>3. s \in Rows(g)  BY <1>1 DEF StartSets, Rows
<1> HIDE DEF s
<1>4. ASSUME NEW d \in DOMAIN g, NEW n \in Lacks(live, s, d) PROVE n \in From(g, r, {d})
  <2>1. n \in live /\ d \notin s[n]  BY <1>4 DEF Lacks
  <2>2. CASE n = r
    <3>1. d # r  BY <1>1, <1>2, <2>1, <2>2
    <3> QED  BY <2>2, <3>1, FromIsClosed
  <2>3. CASE n # r
    <3>1. d \notin live  BY <1>1, <1>2, <2>1, <2>3
    <3> QED  BY <2>1, <3>1, DomsAreReached DEF Dom
  <2> QED  BY <2>2, <2>3
<1>5. ASSUME NEW n \in live \ {r} PROVE MeetAt(g, live, s, n) \subseteq s[n]
  <2>1. s[n] = live  BY <1>1, <1>2
  <2>2. \A p \in live : s[p] \subseteq live  BY <1>1, <1>2
  <2> QED  BY <2>1, <2>2 DEF MeetAt
<1>6. s[r] = {r} /\ \A n \in DOMAIN g \ live : s[n] = {n}  BY <1>2
<1> QED  BY <1>3, <1>4, <1>5, <1>6 DEF Shrinking, s

(* Smaller rows have smaller meets.                                        *)
LEMMA MeetShrinks ==
  ASSUME NEW g, NEW live, NEW s, NEW t, NEW n, \A p \in DOMAIN g : t[p] \subseteq s[p]
  PROVE  MeetAt(g, live, t, n) \subseteq MeetAt(g, live, s, n)
BY DEF MeetAt, PredecessorsIn

LEMMA VisitShrinks ==
  ASSUME NEW g, IsGraph(g), NEW r \in DOMAIN g, NEW live, live = From(g, r, {}),
         NEW s, Shrinking(g, r, live, s), NEW n
  PROVE  /\ Shrinking(g, r, live, VisitOf(g, r, live, s, n))
         /\ \A m \in DOMAIN g : VisitOf(g, r, live, s, n)[m] \subseteq s[m]
<1> DEFINE t == VisitOf(g, r, live, s, n)
<1>0. s \in Rows(g) /\ live \subseteq DOMAIN g  BY FromIsClosed DEF Shrinking
<1>1. CASE ~Updates(r, live, n)
  <2>1. t = s  BY <1>1 DEF VisitOf
  <2> QED  BY <2>1
<1>2. CASE Updates(r, live, n)
  <2>1. n \in live /\ n # r /\ n \in DOMAIN g  BY <1>0, <1>2 DEF Updates
  <2>2. t = [s EXCEPT ![n] = MeetAt(g, live, s, n)]  BY <1>2 DEF VisitOf
  <2>3. /\ t \in Rows(g) /\ t[n] = MeetAt(g, live, s, n)
        /\ \A m \in DOMAIN g \ {n} : t[m] = s[m]
    <3>1. t \in Rows(g)  BY <1>0, VisitType
    <3> QED  BY <1>0, <2>1, <2>2, <3>1 DEF Rows
  <2> HIDE DEF t
  <2>4. \A m \in DOMAIN g : t[m] \subseteq s[m]  BY <2>1, <2>3 DEF Shrinking
  <2>5. ASSUME NEW m \in live \ {r} PROVE MeetAt(g, live, t, m) \subseteq t[m]
    <3>1. MeetAt(g, live, t, m) \subseteq MeetAt(g, live, s, m)  BY <2>4, MeetShrinks
    <3>2. CASE m = n  BY <2>3, <3>1, <3>2
    <3>3. CASE m # n  BY <1>0, <2>3, <3>1, <3>3 DEF Shrinking
    <3> QED  BY <3>2, <3>3
  <2>6. ASSUME NEW d \in DOMAIN g, NEW m \in Lacks(live, t, d) PROVE m \in From(g, r, {d})
    <3>1. CASE m # n
      <4>1. m \in Lacks(live, s, d)  BY <1>0, <2>3, <2>6, <3>1 DEF Lacks
      <4> QED  BY <4>1 DEF Shrinking
    <3>2. CASE m = n
      <4>1. d \notin MeetAt(g, live, s, n)  BY <2>3, <2>6, <3>2 DEF Lacks
      <4>2. PredecessorsIn(g, n) \cap live # {}  BY <2>1, ReachedFromReached
      <4>3. PICK p \in PredecessorsIn(g, n) \cap live : d \notin s[p]
        BY <2>6, <4>1, <4>2 DEF MeetAt
      <4>4. d # n /\ n \in g[p]  BY <4>1 DEF MeetAt, PredecessorsIn
      <4>5. p \in From(g, r, {d})  BY <2>6, <4>3 DEF Lacks, Shrinking
      <4> QED  BY <3>2, <4>4, <4>5, FromIsClosed
    <3> QED  BY <3>1, <3>2
  <2>7. t[r] = {r} /\ \A m \in DOMAIN g \ live : t[m] = {m}
    BY <2>1, <2>3 DEF Shrinking
  <2> QED  BY <2>3, <2>4, <2>5, <2>6, <2>7 DEF Shrinking, t
<1> QED  BY <1>1, <1>2

NodesOf(g) == DOMAIN g = 0 .. Cardinality(DOMAIN g) - 1

(* A pass keeps all that, and takes d from every row that an edge leads to *)
(* from a row without it.                                                  *)
LEMMA SweepShrinks ==
  ASSUME NEW g, IsGraph(g), NodesOf(g), NEW r \in DOMAIN g, NEW live, live = From(g, r, {}),
         NEW s, Shrinking(g, r, live, s)
  PROVE  /\ Shrinking(g, r, live, Sweep(g, r, live, s))
         /\ \A m \in DOMAIN g : Sweep(g, r, live, s)[m] \subseteq s[m]
         /\ \A d \in DOMAIN g : \A p \in Lacks(live, s, d) : \A n \in g[p] :
              n # d => n \in Lacks(live, Sweep(g, r, live, s), d)
<1> DEFINE N == Cardinality(DOMAIN g)
           end == Sweep(g, r, live, s)
<1>0. N \in Nat /\ live \subseteq DOMAIN g  BY FS_CardinalityType, FromIsClosed DEF IsGraph
<1>01. PICK v : Visiting(v, g, r, live, s)  BY SweepUnfolds DEF Shrinking, IsGraph
<1>1. /\ v[0] = s /\ end = v[N]
      /\ \A k \in Nat : v[k + 1] = VisitOf(g, r, live, v[k], k)
  BY <1>01 DEF Visiting
<1> HIDE DEF end
<1> DEFINE T == {k \in Nat : Shrinking(g, r, live, v[k])}
<1>2. \A k \in Nat : Shrinking(g, r, live, v[k])
  <2>1. 0 \in T  BY <1>1
  <2>2. \A k \in Nat : k \in T => k + 1 \in T  BY <1>1, VisitShrinks
  <2> HIDE DEF T
  <2> QED  BY <2>1, <2>2, NatClosed DEF T
<1>3. \A k \in Nat : \A m \in DOMAIN g : v[k + 1][m] \subseteq v[k][m]
  BY <1>1, <1>2, VisitShrinks
<1>4. \A j \in Nat : \A m \in DOMAIN g : v[j][m] \subseteq v[0][m]
  <2> DEFINE U == {j \in Nat : \A m \in DOMAIN g : v[j][m] \subseteq v[0][m]}
  <2>1. 0 \in U  OBVIOUS
  <2>2. \A j \in Nat : j \in U => j + 1 \in U  BY <1>3
  <2> HIDE DEF U
  <2> QED  BY <2>1, <2>2, NatClosed DEF U
<1>5. ASSUME NEW i \in Nat
      PROVE  \A j \in Nat : \A m \in DOMAIN g : v[i + j][m] \subseteq v[i][m]
  <2> DEFINE U == {j \in Nat : \A m \in DOMAIN g : v[i + j][m] \subseteq v[i][m]}
  <2>1. 0 \in U  OBVIOUS
  <2>2. ASSUME NEW j \in Nat, j \in U PROVE j + 1 \in U
    <3>1. i + j \in Nat /\ i + (j + 1) = (i + j) + 1  OBVIOUS
    <3>2. \A m \in DOMAIN g : v[i + (j + 1)][m] \subseteq v[i + j][m]  BY <1>3, <3>1
    <3> QED  BY <2>2, <3>2
  <2> HIDE DEF U
  <2> QED  BY <2>1, <2>2, NatClosed DEF U
<1>6. ASSUME NEW d \in DOMAIN g, NEW p \in Lacks(live, s, d), NEW n \in g[p], n # d
      PROVE  n \in Lacks(live, end, d)
  <2>1. p \in live /\ p \in DOMAIN g /\ d \notin s[p]  BY <1>0, <1>6 DEF Lacks
  <2>2. n \in live /\ n \in DOMAIN g  BY <1>0, <1>6, <2>1, FromIsClosed
  <2>3. CASE n = r
    <3>1. end[r] = {r}  BY <1>0, <1>1, <1>2 DEF Shrinking
    <3> QED  BY <1>6, <2>2, <2>3, <3>1 DEF Lacks
  <2>4. CASE n # r
    <3>1. n \in Nat /\ n + 1 \in Nat /\ N - (n + 1) \in Nat /\ (n + 1) + (N - (n + 1)) = N
      <4>1. n \in 0 .. N - 1  BY <2>2 DEF NodesOf
      <4> QED  BY <1>0, <4>1
    <3>2. Updates(r, live, n)  BY <2>2, <2>4 DEF Updates
    <3>3. v[n + 1] = [v[n] EXCEPT ![n] = MeetAt(g, live, v[n], n)]
      BY <1>1, <3>1, <3>2 DEF VisitOf
    <3>4. DOMAIN v[n] = DOMAIN g  BY <1>2, <3>1 DEF Shrinking, Rows
    <3>5. v[n + 1][n] = MeetAt(g, live, v[n], n)  BY <2>2, <3>3, <3>4
    <3>6. d \notin v[n][p]  BY <1>1, <1>4, <2>1, <3>1
    <3>7. p \in PredecessorsIn(g, n) \cap live  BY <1>6, <2>1 DEF PredecessorsIn
    <3>8. d \notin MeetAt(g, live, v[n], n)  BY <1>6, <3>6, <3>7 DEF MeetAt
    <3>9. v[(n + 1) + (N - (n + 1))][n] \subseteq v[n + 1][n]  BY <1>5, <2>2, <3>1
    <3>10. v[N][n] \subseteq v[n + 1][n]  BY <3>1, <3>9
    <3> QED  BY <1>1, <2>2, <3>5, <3>8, <3>10 DEF Lacks
  <2> QED  BY <2>3, <2>4
<1>7. Shrinking(g, r, live, end) /\ \A m \in DOMAIN g : end[m] \subseteq s[m]
  BY <1>0, <1>1, <1>2, <1>4
<1> HIDE DEF N
<1> QED  BY <1>6, <1>7 DEF end

LEMMA SweptUnfolds ==
  ASSUME NEW g, IsFiniteSet(DOMAIN g), NEW r, NEW live, StartSets(g, r, live) \in Rows(g)
  PROVE  /\ Passes(g, r, live)[0] = StartSets(g, r, live)
         /\ \A k \in Nat : Passes(g, r, live)[k + 1] = Sweep(g, r, live, Passes(g, r, live)[k])
         /\ Swept(g, r, live) = Passes(g, r, live)[Cardinality(DOMAIN g)]
<1> DEFINE S == Rows(g)
           start == StartSets(g, r, live)
           step == [s \in S |-> Sweep(g, r, live, s)]
           Eq(v) == v = [k \in Nat |-> IF k = 0 THEN start ELSE Sweep(g, r, live, v[k - 1])]
           v == Passes(g, r, live)
<1>1. step \in [S -> S]
  <2>1. ASSUME NEW s \in S PROVE Sweep(g, r, live, s) \in S
    <3>1. PICK w : Visiting(w, g, r, live, s)  BY <2>1, SweepUnfolds
    <3>2. Cardinality(DOMAIN g) \in Nat  BY FS_CardinalityType
    <3> QED  BY <3>1, <3>2 DEF Visiting
  <2> QED  BY <2>1
<1>2. PICK f : Iterates(f, S, step, start)
  <2> HIDE DEF S, step, start
  <2> QED  BY <1>1, IterationExists DEF S, start
<1>3. f \in [Nat -> S] /\ f[0] = start /\ \A k \in Nat : f[k + 1] = Sweep(g, r, live, f[k])
  <2>1. f \in [Nat -> S] /\ f[0] = start /\ \A k \in Nat : f[k + 1] = step[f[k]]
    BY <1>2 DEF Iterates
  <2> HIDE DEF S
  <2> QED  BY <2>1
<1> HIDE DEF step
<1>4. Eq(f)
  <2>1. ASSUME NEW k \in Nat
        PROVE  f[k] = IF k = 0 THEN start ELSE Sweep(g, r, live, f[k - 1])
    <3>1. CASE k = 0  BY <1>3, <3>1
    <3>2. CASE k # 0
      <4>1. k - 1 \in Nat /\ k - 1 + 1 = k  BY <3>2
      <4> QED  BY <1>3, <3>2, <4>1
    <3> QED  BY <3>1, <3>2
  <2> HIDE DEF S, start
  <2> QED  BY <1>3, <2>1
<1>5. Eq(v)
  <2>1. v = CHOOSE w : Eq(w)  BY DEF Passes
  <2> HIDE DEF Eq, v
  <2> QED  BY <1>4, <2>1
<1>6. Swept(g, r, live) = v[Cardinality(DOMAIN g)]
  BY Zenon DEF Swept, Iterate, Passes
<1>7. v[0] = start /\ \A k \in Nat : v[k + 1] = Sweep(g, r, live, v[k])
  <2> HIDE DEF v, start
  <2>1. v[0] = start  BY <1>5
  <2>2. ASSUME NEW k \in Nat PROVE v[k + 1] = Sweep(g, r, live, v[k])
    <3>1. k + 1 \in Nat /\ k + 1 # 0 /\ k + 1 - 1 = k  OBVIOUS
    <3>2. v[k + 1] = Sweep(g, r, live, v[k + 1 - 1])  BY <1>5, <3>1
    <3> QED  BY <3>1, <3>2
  <2> QED  BY <2>1, <2>2
<1> QED  BY <1>6, <1>7

(* After as many passes as nodes the rows of the reached nodes hold their  *)
(* dominators and nothing else: in each pass, d leaves the rows of all     *)
(* nodes that a walk around d reaches in one more step.                    *)
LEMMA SweptIsExact ==
  ASSUME NEW g, IsGraph(g), NodesOf(g), NEW r \in DOMAIN g, NEW live, live = From(g, r, {})
  PROVE  /\ Swept(g, r, live) \in Rows(g)
         /\ \A n \in live : \A d \in DOMAIN g : d \in Swept(g, r, live)[n] <=> Dom(g, r, d, n)
<1> DEFINE v == Passes(g, r, live)
           N == Cardinality(DOMAIN g)
           end == Swept(g, r, live)
<1>0. N \in Nat /\ live \subseteq DOMAIN g /\ r \in live
  BY FS_CardinalityType, FromIsClosed DEF IsGraph
<1>1. Shrinking(g, r, live, StartSets(g, r, live))  BY StartShrinking
<1>2. /\ v[0] = StartSets(g, r, live) /\ end = v[N]
      /\ \A k \in Nat : v[k + 1] = Sweep(g, r, live, v[k])
  BY <1>1, SweptUnfolds DEF Shrinking, IsGraph
<1> HIDE DEF v, end
<1>3. \A k \in Nat : Shrinking(g, r, live, v[k])
  <2> DEFINE T == {k \in Nat : Shrinking(g, r, live, v[k])}
  <2>1. 0 \in T  BY <1>1, <1>2
  <2>2. \A k \in Nat : k \in T => k + 1 \in T  BY <1>2, SweepShrinks
  <2> HIDE DEF T
  <2> QED  BY <2>1, <2>2, NatClosed DEF T
<1>4. ASSUME NEW k \in Nat
      PROVE  /\ \A m \in DOMAIN g : v[k + 1][m] \subseteq v[k][m]
             /\ \A d \in DOMAIN g : \A p \in Lacks(live, v[k], d) : \A n \in g[p] :
                  n # d => n \in Lacks(live, v[k + 1], d)
  BY <1>2, <1>3, SweepShrinks
<1>5. ASSUME NEW d \in DOMAIN g, d # r PROVE From(g, r, {d}) \subseteq Lacks(live, end, d)
  <2> DEFINE within == DOMAIN g \ {d}
             rounds == Rounds(g, within, {r})
             T == {k \in Nat : rounds[k] \subseteq Lacks(live, v[k], d)}
             n1 == Cardinality(within)
  <2>1. /\ rounds[0] = {r} /\ Flooded(g, within, {r}) = rounds[n1]
        /\ \A k \in Nat : rounds[k + 1] = Spread(g, within, rounds[k])
    BY FloodUnfolds
  <2>2. From(g, r, {d}) = Flooded(g, within, {r})  BY <1>5 DEF From
  <2>3. IsFiniteSet(within) /\ n1 \in Nat /\ N = n1 + 1
    BY <1>0, FS_RemoveElement, FS_CardinalityType, FS_Subset DEF IsGraph
  <2> HIDE DEF rounds, n1, N
  <2>4. 0 \in T
    <3>1. v[0][r] = {r}  BY <1>3 DEF Shrinking
    <3>2. r \in Lacks(live, v[0], d)  BY <1>0, <1>5, <3>1 DEF Lacks
    <3> QED  BY <2>1, <3>2
  <2>5. ASSUME NEW k \in Nat, k \in T PROVE k + 1 \in T
    <3>1. ASSUME NEW m \in rounds[k] PROVE m \in Lacks(live, v[k + 1], d)
      <4>1. m \in live /\ d \notin v[k][m]  BY <2>5, <3>1 DEF Lacks
      <4> QED  BY <1>0, <1>4, <4>1 DEF Lacks
    <3>2. ASSUME NEW p \in rounds[k], NEW n \in g[p], n \in within
          PROVE  n \in Lacks(live, v[k + 1], d)
      BY <1>4, <2>5, <3>2
    <3>3. Spread(g, within, rounds[k]) \subseteq Lacks(live, v[k + 1], d)
      BY <3>1, <3>2 DEF Spread
    <3>4. rounds[k + 1] \subseteq Lacks(live, v[k + 1], d)
      <4> HIDE DEF within
      <4> QED  BY <2>1, <3>3
    <3> QED  BY <3>4
  <2>6. rounds[n1] \subseteq Lacks(live, v[n1], d)
    <3> HIDE DEF T
    <3>1. Nat \subseteq T  BY <2>4, <2>5, NatClosed
    <3> QED  BY <2>3, <3>1 DEF T
  <2>7. Lacks(live, v[n1], d) \subseteq Lacks(live, v[N], d)
    BY <1>0, <1>4, <2>3 DEF Lacks
  <2> QED  BY <1>2, <2>1, <2>2, <2>6, <2>7
<1>6. ASSUME NEW d \in DOMAIN g PROVE Lacks(live, end, d) \subseteq From(g, r, {d})
  BY <1>0, <1>2, <1>3 DEF Shrinking
<1>7. ASSUME NEW n \in live, NEW d \in DOMAIN g PROVE d \in end[n] <=> Dom(g, r, d, n)
  <2>1. CASE d = r
    <3>1. n \notin From(g, r, {d})  BY <2>1 DEF From
    <3> QED  BY <1>6, <1>7, <3>1 DEF Dom, Lacks
  <2>2. CASE d # r  BY <1>5, <1>6, <1>7, <2>2 DEF Dom, Lacks
  <2> QED  BY <2>1, <2>2
<1>8. end \in Rows(g)  BY <1>0, <1>2, <1>3 DEF Shrinking
<1> QED  BY <1>7, <1>8 DEF end

(* Of the nodes on the way to n, n apart, the one with the most on its own *)
(* way comes last: all others are on the way to it.                        *)
LEMMA ClosestIsLast ==
  ASSUME NEW g, IsGraph(g), NodesOf(g), NEW r \in DOMAIN g, NEW live, live = From(g, r, {}),
         NEW sets \in Rows(g),
         \A n \in live : \A d \in DOMAIN g : d \in sets[n] <=> Dom(g, r, d, n),
         NEW n \in live, n # r
  PROVE  LET i == ClosestDominator(sets, n) IN
           /\ i \in live /\ i # n /\ Dom(g, r, i, n) /\ sets[n] \ {n} # {}
           /\ \A d \in DOMAIN g : d # n /\ Dom(g, r, d, n) => Dom(g, r, d, i)
<1> DEFINE strict == sets[n] \ {n}
           depth(d) == Cardinality(sets[d])
           N == Cardinality(DOMAIN g)
           Gaps == {N - depth(d) : d \in strict}
           Chosen(d) == \A e \in strict :
                 depth(d) > depth(e) \/ (depth(d) = depth(e) /\ d <= e)
           i == ClosestDominator(sets, n)
<1>0. /\ N \in Nat /\ IsFiniteSet(DOMAIN g) /\ DOMAIN g \subseteq Nat
      /\ live \subseteq DOMAIN g /\ r \in live /\ n \in DOMAIN g
  <2>1. N \in Nat /\ IsFiniteSet(DOMAIN g)  BY FS_CardinalityType DEF IsGraph
  <2>2. DOMAIN g \subseteq Nat  BY <2>1 DEF NodesOf
  <2>3. live \subseteq DOMAIN g /\ r \in live  BY FromIsClosed
  <2> QED  BY <2>1, <2>2, <2>3
<1>1. strict \subseteq DOMAIN g /\ r \in strict
  <2>1. Dom(g, r, r, n)  BY DomItself
  <2> QED  BY <1>0, <2>1 DEF Rows
<1>2. \A d \in DOMAIN g : IsFiniteSet(sets[d]) /\ depth(d) \in Nat /\ depth(d) <= N
  BY <1>0, FS_Subset, FS_CardinalityType DEF Rows
<1>3. Gaps \in SUBSET Nat /\ Gaps # {}
  BY <1>0, <1>1, <1>2
<1>4. PICK gap \in Gaps : \A h \in Gaps : gap <= h
  <2> HIDE DEF Gaps
  <2> QED  BY <1>3, LeastExists
<1> DEFINE Best == {d \in strict : N - depth(d) = gap}
<1>5. PICK b \in Best : \A c \in Best : b <= c
  <2>1. Best \in SUBSET Nat /\ Best # {}  BY <1>0, <1>1, <1>4
  <2> HIDE DEF Best
  <2> QED  BY <2>1, LeastExists
<1>6. b \in strict /\ Chosen(b)
  <2>1. ASSUME NEW e \in strict
        PROVE  depth(b) > depth(e) \/ (depth(b) = depth(e) /\ b <= e)
    <3>1. gap <= N - depth(e) /\ N - depth(b) = gap /\ b \in strict
      BY <1>4, <1>5, <2>1
    <3>2. depth(b) \in Nat /\ depth(e) \in Nat  BY <1>1, <1>2, <3>1
    <3>3. CASE depth(b) = depth(e)
      <4>1. e \in Best  BY <2>1, <3>1, <3>3
      <4> QED  BY <1>5, <3>3, <4>1
    <3>4. CASE depth(b) # depth(e)
      <4> HIDE DEF N
      <4> QED  BY <1>0, <3>1, <3>2, <3>4
    <3> QED  BY <3>3, <3>4
  <2> QED  BY <1>5, <2>1
<1>7. i \in strict /\ Chosen(i)
  <2>1. i = CHOOSE d \in strict : Chosen(d)  BY DEF ClosestDominator
  <2> HIDE DEF Chosen, strict, i
  <2> QED  BY <1>6, <2>1, Zenon
<1> HIDE DEF i
<1>8. i \in DOMAIN g /\ i # n /\ Dom(g, r, i, n) /\ i \in live
  <2>1. i \in DOMAIN g /\ i # n /\ Dom(g, r, i, n)  BY <1>1, <1>7
  <2> QED  BY <2>1, DomsAreReached
<1>9. ASSUME NEW d \in DOMAIN g, d # n, Dom(g, r, d, n) PROVE Dom(g, r, d, i)
  <2> SUFFICES ASSUME ~Dom(g, r, d, i) PROVE FALSE  OBVIOUS
  <2>1. d \in live  BY <1>9, DomsAreReached
  <2>2. Dom(g, r, i, d)  BY <1>8, <1>9, DomsAreAChain
  <2>3. sets[i] \subseteq sets[d]
    <3>1. ASSUME NEW a \in sets[i] PROVE a \in sets[d]
      <4>1. a \in DOMAIN g  BY <1>8, <3>1 DEF Rows
      <4>2. Dom(g, r, a, i)  BY <1>8, <3>1, <4>1
      <4>3. Dom(g, r, a, d)  BY <2>2, <4>2, DomGoesUp
      <4> QED  BY <2>1, <4>1, <4>3
    <3> QED  BY <3>1
  <2>4. d \notin sets[i]  BY <1>8, <1>9
  <2>5. d \in sets[d]  BY <1>9, <2>1, DomItself
  <2>6. depth(i) < depth(d)
    <3>1. depth(i) <= depth(d) /\ depth(i) # depth(d)
      BY <1>2, <1>9, <2>3, <2>4, <2>5, FS_Subset
    <3> QED  BY <1>2, <1>8, <1>9, <3>1
  <2>7. d \in strict  BY <1>0, <1>9
  <2>8. depth(i) > depth(d) \/ depth(i) = depth(d)  BY <1>7, <2>7
  <2>9. depth(i) \in Nat /\ depth(d) \in Nat  BY <1>2, <1>8, <1>9
  <2> QED  BY <2>6, <2>8, <2>9
<1> QED  BY <1>1, <1>8, <1>9 DEF i
-----------------------------------------------------------------------------
(* What computeDominators is for: c has, of the nodes that walks from r    *)
(* reach, exactly the dominators, and the closest of them.                 *)
Computed(c, g, r) ==
  /\ c.reachable = From(g, r, {}) /\ c.sets \in Rows(g)
  /\ c.immediate = [n \in DOMAIN g |-> c.immediate[n]]
  /\ \A n \in c.reachable : \A d \in DOMAIN g : d \in c.sets[n] <=> Dom(g, r, d, n)
  /\ \A n \in c.reachable \ {r} :
       /\ c.immediate[n] \in c.reachable \ {n} /\ Dom(g, r, c.immediate[n], n)
       /\ \A d \in DOMAIN g : d # n /\ Dom(g, r, d, n) => Dom(g, r, d, c.immediate[n])
  /\ c.immediate[r] = None /\ \A n \in DOMAIN g \ c.reachable : c.immediate[n] = None

LEMMA FlowsFromRoot ==
  ASSUME NEW g, NEW r
  PROVE  reachableFrom(g, r) = From(g, r, {})
<1>1. DOMAIN g \ {} = DOMAIN g  OBVIOUS
<1> QED  BY <1>1 DEF reachableFrom, From

LEMMA ComputedDominators ==
  ASSUME NEW g, IsGraph(g), NodesOf(g), NEW r \in DOMAIN g
  PROVE  Computed(computeDominators(g, r), g, r)
<1> DEFINE live == From(g, r, {})
           sets == Swept(g, r, live)
           c == computeDominators(g, r)
<1>1. c = [reachable |-> live, sets |-> sets, immediate |-> ImmediateOf(g, r, live, sets, None)]
  BY FlowsFromRoot DEF computeDominators
<1>2. /\ sets \in Rows(g)
      /\ \A n \in live : \A d \in DOMAIN g : d \in sets[n] <=> Dom(g, r, d, n)
  BY SweptIsExact
<1>3. live \subseteq DOMAIN g  BY FromIsClosed
<1> HIDE DEF c
<1>4. c.reachable = live /\ c.sets = sets /\ c.immediate = ImmediateOf(g, r, live, sets, None)
  BY <1>1
<1> HIDE DEF sets
<1>5. /\ c.immediate = [n \in DOMAIN g |-> c.immediate[n]]
      /\ \A n \in DOMAIN g : c.immediate[n] = IF n \in live /\ n # r /\ sets[n] \ {n} # {}
                                              THEN ClosestDominator(sets, n) ELSE None
  BY <1>4 DEF ImmediateOf, Updates
<1>6. ASSUME NEW n \in live, n # r
      PROVE  /\ c.immediate[n] \in live \ {n} /\ Dom(g, r, c.immediate[n], n)
             /\ \A d \in DOMAIN g : d # n /\ Dom(g, r, d, n) => Dom(g, r, d, c.immediate[n])
  <2> DEFINE i == ClosestDominator(sets, n)
  <2>1. /\ i \in live /\ i # n /\ Dom(g, r, i, n) /\ sets[n] \ {n} # {}
        /\ \A d \in DOMAIN g : d # n /\ Dom(g, r, d, n) => Dom(g, r, d, i)
    <3> HIDE DEF live
    <3> QED  BY <1>2, <1>6, ClosestIsLast DEF live
  <2> HIDE DEF i, live
  <2>2. c.immediate[n] = i  BY <1>3, <1>5, <1>6, <2>1 DEF i
  <2> QED  BY <2>1, <2>2
<1>7. c.immediate[r] = None /\ \A n \in DOMAIN g \ live : c.immediate[n] = None  BY <1>5
<1> HIDE DEF live
<1> QED  BY <1>2, <1>4, <1>5, <1>6, <1>7 DEF Computed, live, c

(* The walk from p stops where above begins: past the root, or at a node   *)
(* that dominates p.                                                       *)
StopsBelow(g, r, c, p, stop, above, D) ==
  \/ stop \notin DOMAIN g /\ above = {} /\ D = DOMAIN g
  \/ /\ stop \in c.reachable /\ Dom(g, r, stop, p) /\ DOMAIN g \ {r} \subseteq D
     /\ above = {d \in c.reachable : Dom(g, r, d, stop)}

(* The walk up from a node to one above it, or to the top, passes exactly  *)
(* what dominates the one but not the other.                               *)
LEMMA RunnersAreExact ==
  ASSUME NEW g, IsGraph(g), NodesOf(g), NEW r \in DOMAIN g, NEW c, Computed(c, g, r),
         NEW p \in c.reachable, NEW stop, NEW above, NEW D \in SUBSET DOMAIN g,
         StopsBelow(g, r, c, p, stop, above, D)
  PROVE  Runners([m \in D |-> c.immediate[m]], p, stop)
           = {d \in c.reachable : Dom(g, r, d, p)} \ above
<1> DEFINE live == c.reachable
           tree == D \ {stop}
           up == [m \in D |-> c.immediate[m]]
           parents == [m \in tree |-> {up[m]}]
           seeds == {p} \cap tree
           R == Flooded(parents, tree, seeds)
           Goal == {d \in live : Dom(g, r, d, p)} \ above
<1> USE DEF StopsBelow
<1>1. Runners(up, p, stop) = R  BY DEF Runners
<1>2. IsFiniteSet(tree) /\ live \subseteq DOMAIN g
  BY FS_Subset, FromIsClosed DEF IsGraph, Computed
<1>3. /\ seeds \subseteq R /\ R \subseteq tree
      /\ \A m \in R : parents[m] \cap tree \subseteq R
  <2> HIDE DEF tree, parents
  <2> QED  BY <1>2, FloodIsClosed
<1>4. \A m \in tree : parents[m] = {c.immediate[m]}  OBVIOUS
<1>5. ASSUME stop \in live, NEW x \in live, Dom(g, r, x, stop), Dom(g, r, stop, x) PROVE x = stop
  BY <1>5, DomsDiffer DEF Computed
<1>6. \A m \in live : m # r =>
         /\ c.immediate[m] \in live /\ c.immediate[m] # m /\ Dom(g, r, c.immediate[m], m)
         /\ \A d \in DOMAIN g : d # m /\ Dom(g, r, d, m) => Dom(g, r, d, c.immediate[m])
  BY DEF Computed
<1>7. None \notin DOMAIN g
  <2>1. Cardinality(DOMAIN g) \in Nat  BY FS_CardinalityType DEF IsGraph
  <2> QED  BY <2>1, NoneAssumption DEF NodesOf
<1> HIDE DEF tree, up, parents, seeds, R
<1>8. R \subseteq Goal \cap tree
  <2>1. seeds \subseteq Goal \cap tree
    <3> SUFFICES ASSUME p \in tree PROVE p \in Goal  BY DEF seeds
    <3>1. Dom(g, r, p, p)  BY DomItself
    <3>2. p \notin above  BY <1>5, <3>1 DEF tree
    <3> QED  BY <3>1, <3>2
  <2>2. ASSUME NEW m \in Goal \cap tree, NEW x \in parents[m], x \in tree PROVE x \in Goal
    <3>1. x = c.immediate[m]  BY <1>4, <2>2
    <3>2. x \in DOMAIN g /\ m \in live /\ Dom(g, r, m, p)  BY <2>2 DEF tree
    <3>3. m # r  BY <1>7, <3>1, <3>2 DEF Computed
    <3>4. x \in live /\ Dom(g, r, x, m)  BY <1>6, <3>1, <3>2, <3>3
    <3>5. Dom(g, r, x, p)  BY <3>2, <3>4, DomGoesUp
    <3>6. x \notin above
      <4> SUFFICES ASSUME x \in above PROVE FALSE  OBVIOUS
      <4>1. /\ stop \in live /\ Dom(g, r, stop, p) /\ Dom(g, r, x, stop) /\ ~Dom(g, r, m, stop)
        BY <2>2, <3>2
      <4>2. Dom(g, r, stop, m)  BY <3>2, <4>1, DomsAreAChain DEF Computed
      <4>3. stop # m  BY <4>1, DomItself
      <4>4. Dom(g, r, stop, x)  BY <1>2, <1>6, <3>1, <3>2, <3>3, <4>1, <4>2, <4>3
      <4>5. x = stop  BY <1>5, <3>4, <4>1, <4>4
      <4> QED  BY <2>2, <4>5 DEF tree
    <3> QED  BY <3>4, <3>5, <3>6
  <2>3. \A m \in Goal \cap tree : parents[m] \cap tree \subseteq Goal \cap tree  BY <2>2
  <2> HIDE DEF Goal
  <2> QED  BY <1>2, <2>1, <2>3, FloodIsLeast DEF R
<1>9. ASSUME NEW d \in Goal, d \notin R PROVE FALSE
  <2> DEFINE B == {m \in R : Dom(g, r, d, m)}
             depth(m) == Cardinality(c.sets[m])
             Depths == {depth(m) : m \in B}
  <2>0. d \in live /\ Dom(g, r, d, p) /\ d \notin above  BY <1>9
  <2>1. p \in B
    <3>1. p # stop  BY <1>2, <2>0
    <3>2. p \in D
      <4> SUFFICES ASSUME p = r, stop \in live, Dom(g, r, stop, p) PROVE FALSE  BY <1>2
      <4> QED  BY <3>1, OnlyRootDomsRoot
    <3> QED  BY <1>3, <2>0, <3>1, <3>2 DEF seeds, tree
  <2>2. \A m \in DOMAIN g : IsFiniteSet(c.sets[m]) /\ depth(m) \in Nat
    BY FS_Subset, FS_CardinalityType DEF Computed, Rows, IsGraph
  <2>3. B \subseteq live  BY <1>8
  <2>4. Depths \in SUBSET Nat /\ Depths # {}  BY <1>2, <2>1, <2>2, <2>3
  <2>5. PICK m \in B : \A k \in B : depth(m) <= depth(k)
    <3>1. PICK least \in Depths : \A k \in Depths : least <= k
      <4> HIDE DEF Depths
      <4> QED  BY <2>4, LeastExists
    <3> QED  BY <3>1
  <2>6. m \in live /\ m \in R /\ Dom(g, r, d, m) /\ m # d  BY <1>9, <2>3, <2>5
  <2>7. m # r  BY <2>6, OnlyRootDomsRoot
  <2> DEFINE x == c.immediate[m]
  <2>8. x \in live /\ x # m /\ Dom(g, r, x, m) /\ Dom(g, r, d, x)  BY <1>2, <1>6, <2>0, <2>6, <2>7
  <2> HIDE DEF x
  <2>9. x # stop  BY <1>2, <2>0, <2>8
  <2>10. x \in D
    <3> SUFFICES ASSUME x = r, stop \in live PROVE FALSE  BY <1>2, <2>8
    <3>1. d = r  BY <2>8, OnlyRootDomsRoot
    <3>2. Dom(g, r, d, stop)  BY <3>1, DomItself
    <3>3. stop \in DOMAIN g  BY <1>2
    <3> QED  BY <2>0, <3>2, <3>3
  <2>11. x \in B
    <3>1. x \in parents[m] /\ x \in tree  BY <1>3, <1>4, <2>6, <2>9, <2>10 DEF tree, x
    <3> QED  BY <1>3, <2>6, <2>8, <3>1
  <2>12. depth(x) < depth(m)
    <3>1. c.sets[x] \subseteq c.sets[m]
      <4>1. ASSUME NEW a \in c.sets[x] PROVE a \in c.sets[m]
        <5>1. a \in DOMAIN g  BY <1>2, <2>8, <4>1 DEF Computed, Rows
        <5>2. Dom(g, r, a, x)  BY <2>8, <4>1, <5>1 DEF Computed
        <5>3. Dom(g, r, a, m)  BY <2>8, <5>2, DomGoesUp
        <5> QED  BY <2>6, <5>1, <5>3 DEF Computed
      <4> QED  BY <4>1
    <3>2. m \in c.sets[m] /\ m \notin c.sets[x]
      <4>1. Dom(g, r, m, m)  BY DomItself
      <4>2. ~Dom(g, r, m, x)  BY <2>6, <2>8, DomsDiffer DEF Computed
      <4> QED  BY <1>2, <2>6, <2>8, <4>1, <4>2 DEF Computed
    <3>3. depth(x) <= depth(m) /\ depth(x) # depth(m)
      BY <1>2, <2>2, <2>6, <3>1, <3>2, FS_Subset
    <3> QED  BY <1>2, <2>2, <2>6, <2>8, <3>3
  <2>13. depth(x) \in Nat /\ depth(m) \in Nat  BY <1>2, <2>2, <2>6, <2>8
  <2> HIDE DEF B
  <2> QED  BY <2>5, <2>11, <2>12, <2>13
<1> HIDE DEF Goal
<1>10. R = Goal  BY <1>8, <1>9
<1> QED  BY <1>1, <1>10 DEF Goal, up

(* Above a node that an edge leads to p walks up to, without the node's    *)
(* own parent, what dominates p but not strictly the node.                 *)
LEMMA RunnersStop ==
  ASSUME NEW g, IsGraph(g), NodesOf(g), NEW r \in DOMAIN g, NEW c, Computed(c, g, r),
         NEW p \in c.reachable, NEW n \in g[p], NEW D \in SUBSET DOMAIN g,
         DOMAIN g \ {r} \subseteq D, n = r => D = DOMAIN g, NEW d
  PROVE  d \in Runners([m \in D |-> c.immediate[m]], p, c.immediate[n])
           <=> d \in c.reachable /\ Dom(g, r, d, p) /\ (d = n \/ ~Dom(g, r, d, n))
<1> DEFINE live == c.reachable
           stop == c.immediate[n]
           run == Runners([m \in D |-> c.immediate[m]], p, stop)
<1>1. live \subseteq DOMAIN g /\ n \in live
  BY FromIsClosed DEF Computed
<1>2. CASE n = r
  <2>1. stop \notin DOMAIN g
    <3>1. Cardinality(DOMAIN g) \in Nat  BY FS_CardinalityType DEF IsGraph
    <3> QED  BY <1>2, <3>1, NoneAssumption DEF Computed, NodesOf
  <2>2. run = {e \in live : Dom(g, r, e, p)} \ {}
    <3>1. StopsBelow(g, r, c, p, stop, {}, D)  BY <1>2, <2>1 DEF StopsBelow
    <3> HIDE DEF stop
    <3> QED  BY <3>1, RunnersAreExact
  <2>3. Dom(g, r, d, n) => d = n  BY <1>2, OnlyRootDomsRoot
  <2> QED  BY <2>2, <2>3
<1>3. CASE n # r
  <2> DEFINE above == {e \in live : Dom(g, r, e, stop)}
  <2>1. /\ stop \in live /\ stop # n /\ Dom(g, r, stop, n)
        /\ \A e \in DOMAIN g : e # n /\ Dom(g, r, e, n) => Dom(g, r, e, stop)
    BY <1>1, <1>3 DEF Computed
  <2>2. Dom(g, r, stop, p)  BY <2>1, DomsOfPredecessor DEF Computed
  <2>3. run = {e \in live : Dom(g, r, e, p)} \ above
    <3>1. StopsBelow(g, r, c, p, stop, above, D)  BY <2>1, <2>2 DEF StopsBelow
    <3> HIDE DEF stop, above
    <3> QED  BY <3>1, RunnersAreExact
  <2>4. d \in live => (d \in above <=> d # n /\ Dom(g, r, d, n))
    <3>1. ASSUME Dom(g, r, d, stop) PROVE d # n /\ Dom(g, r, d, n)
      <4>1. Dom(g, r, d, n)  BY <2>1, <3>1, DomGoesUp
      <4>2. d # n  BY <2>1, <3>1, DomsDiffer DEF Computed
      <4> QED  BY <4>1, <4>2
    <3> QED  BY <1>1, <2>1, <3>1
  <2> QED  BY <2>3, <2>4
<1> QED  BY <1>2, <1>3
-----------------------------------------------------------------------------
EdgesOf(g) == [b \in DOMAIN g |-> Targets(g[b].successors)]

LeadingTo(g, b) == {p \in DOMAIN g : b \in EdgesOf(g)[p]}

(* What the analysis needs to know of the graph it is given.               *)
Drawn(g) ==
  /\ 0 \in DOMAIN g /\ IsGraph(EdgesOf(g)) /\ NodesOf(EdgesOf(g))
  /\ \A b \in DOMAIN g :
       /\ g[b].reachable <=> b \in From(EdgesOf(g), 0, {})
       /\ Len(g[b].predecessors) = Cardinality(LeadingTo(g, b))
       /\ ToSet(g[b].predecessors) = LeadingTo(g, b)

LEMMA AscendingIsList ==
  ASSUME NEW S, IsFiniteSet(S), S \subseteq Int
  PROVE  Ascending(S) \in Seq(S) /\ Len(Ascending(S)) = Cardinality(S)
<1> DEFINE n == Cardinality(S)
           A == Ascending(S)
<1>1. n \in Nat  BY FS_CardinalityType
<1>2. \A i \in 1 .. n : A[i] \in S  BY AscendingListsAll
<1>3. A = [i \in 1 .. n |-> A[i]]  BY DEF Ascending
<1> HIDE DEF A, n
<1>4. A \in [1 .. n -> S]  BY <1>2, <1>3
<1>5. A \in Seq(S) /\ Len(A) = n  BY <1>1, <1>4
<1> QED  BY <1>5 DEF A, n

LEMMA BuiltIsDrawn ==
  ASSUME NEW c, Accepted(c), NEW g, g = buildControlFlowGraph(c)
  PROVE  Drawn(g)
<1> DEFINE ids == BlockIds(c)
           succ == [b \in ids |-> SuccessorsOf(c, b)]
           E == EdgesOf(g)
<1>1. DOMAIN g = ids /\ \A b \in ids : /\ g[b].successors = succ[b]
                                       /\ g[b].predecessors = PredecessorsOf(succ, b)
  BY DEF buildControlFlowGraph
<1>2. IsFiniteSet(ids) /\ Cardinality(Leaders(c)) \in Nat /\ ids \subseteq Int
  BY LeadersAreInstructions, FS_Interval DEF BlockIds
<1>3. DOMAIN E = ids /\ \A b \in ids : E[b] = Targets(succ[b]) /\ E[b] \subseteq ids
  BY <1>1, EdgesStayInTheGraph DEF EdgesOf
<1>4. NodesOf(E)
  <2>1. ids = 0 .. Cardinality(Leaders(c)) - 1  BY DEF BlockIds
  <2>2. Cardinality(0 .. Cardinality(Leaders(c)) - 1) = Cardinality(Leaders(c))
    BY <1>2, FS_Interval
  <2> HIDE DEF ids
  <2> QED  BY <1>3, <2>1, <2>2 DEF NodesOf
<1>5. IsGraph(E)  BY <1>2, <1>3 DEF IsGraph
<1> HIDE DEF E
<1>6. 0 \in DOMAIN g  BY FloodedGraph
<1>7. ASSUME NEW b \in DOMAIN g PROVE g[b].reachable <=> b \in From(E, 0, {})
  <2> DEFINE marked == {m \in DOMAIN g : g[m].reachable}
  <2>1. From(E, 0, {}) \subseteq marked
    <3>1. 0 \in marked  BY FloodedGraph
    <3>2. ASSUME NEW m \in marked, NEW k \in E[m] PROVE k \in marked
      <4>1. m \in DOMAIN g /\ g[m].reachable  BY <3>2
      <4>2. k \in Targets(g[m].successors)  BY <1>1, <1>3, <3>2, <4>1
      <4> QED  BY <4>1, <4>2, FloodedGraph
    <3> HIDE DEF marked
    <3> QED  BY <1>1, <1>3, <1>5, <1>6, <3>1, <3>2, FromIsLeast
  <2>2. ASSUME g[b].reachable PROVE b \in From(E, 0, {})
    <3>1. From(E, 0, {}) \in SUBSET DOMAIN g /\ 0 \in From(E, 0, {})
      BY <1>1, <1>3, <1>5, <1>6, FromIsClosed
    <3>2. ASSUME NEW m \in From(E, 0, {}), NEW k \in Targets(g[m].successors)
          PROVE  k \in From(E, 0, {})
      <4>1. m \in ids /\ k \in E[m]  BY <1>1, <1>3, <3>1, <3>2
      <4> QED  BY <1>1, <1>3, <1>5, <1>6, <3>2, <4>1, FromIsClosed
    <3> QED  BY <2>2, <3>1, <3>2, FloodedGraph
  <2>3. b \in From(E, 0, {}) => g[b].reachable
    <3>1. b \in From(E, 0, {}) => b \in marked  BY <2>1
    <3> QED  BY <3>1
  <2> QED  BY <2>2, <2>3
<1>8. ASSUME NEW b \in DOMAIN g
      PROVE  /\ Len(g[b].predecessors) = Cardinality(LeadingTo(g, b))
             /\ ToSet(g[b].predecessors) = LeadingTo(g, b)
  <2>1. LeadingTo(g, b) = {p \in DOMAIN succ : b \in Targets(succ[p])}
    BY <1>1, <1>3 DEF LeadingTo, E
  <2>2. g[b].predecessors = Ascending(LeadingTo(g, b))
    BY <1>1, <2>1 DEF PredecessorsOf
  <2>3. IsFiniteSet(LeadingTo(g, b)) /\ LeadingTo(g, b) \subseteq Int
    BY <1>1, <1>2, FS_Subset DEF LeadingTo
  <2> QED  BY <2>2, <2>3, AscendingIsList, AscendingListsAll
<1> QED  BY <1>4, <1>5, <1>6, <1>7, <1>8 DEF Drawn, E

LEMMA EdgesAreThose ==
  ASSUME NEW g
  PROVE  DOMAIN Adjacency(g) = DOMAIN g /\ EdgeSets(Adjacency(g)) = EdgesOf(g)
<1>1. \A b \in DOMAIN g :
        Adjacency(g)[b] = [i \in DOMAIN g[b].successors |-> g[b].successors[i].target]
  BY DEF Adjacency
<1>2. \A b \in DOMAIN g : ToSet(Adjacency(g)[b]) = Targets(g[b].successors)
  BY <1>1 DEF ToSet, Targets
<1>3. DOMAIN Adjacency(g) = DOMAIN g  BY DEF Adjacency
<1> QED  BY <1>2, <1>3 DEF EdgeSets, EdgesOf

(* The frontier, from the dominators.                                      *)
LEMMA FrontierIsExact ==
  ASSUME NEW g, Drawn(g), NEW c, Computed(c, EdgesOf(g), 0), NEW r \in c.reachable,
         NEW b \in DOMAIN g
  PROVE  b \in Frontier(g, c.immediate)[r]
           <=> /\ b \in c.reachable /\ Cardinality(LeadingTo(g, b)) >= 2
               /\ \E p \in LeadingTo(g, b) \cap c.reachable : Dom(EdgesOf(g), 0, r, p)
               /\ r = b \/ ~Dom(EdgesOf(g), 0, r, b)
<1> DEFINE E == EdgesOf(g)
           preds == g[b].predecessors
<1>1. /\ DOMAIN E = DOMAIN g /\ IsGraph(E) /\ NodesOf(E) /\ 0 \in DOMAIN E
      /\ c.reachable \subseteq DOMAIN g /\ c.reachable = From(E, 0, {})
  <2>1. DOMAIN E = DOMAIN g /\ IsGraph(E) /\ NodesOf(E) /\ 0 \in DOMAIN E
    BY DEF EdgesOf, Drawn
  <2> HIDE DEF E
  <2>2. c.reachable = From(E, 0, {})  BY DEF Computed, E
  <2> QED  BY <2>1, <2>2, FromIsClosed
<1>2. \A m \in DOMAIN g : g[m].reachable <=> m \in c.reachable
  <2>1. \A m \in DOMAIN g : g[m].reachable <=> m \in From(E, 0, {})  BY DEF Drawn
  <2> QED  BY <1>1, <2>1, Zenon
<1>3. Len(preds) = Cardinality(LeadingTo(g, b)) /\ ToSet(preds) = LeadingTo(g, b)
  BY DEF Drawn
<1>4. c.immediate = [m \in DOMAIN g |-> c.immediate[m]]  BY <1>1 DEF Computed
<1>5. ASSUME NEW p \in LeadingTo(g, b), p \in c.reachable
      PROVE  r \in Runners(c.immediate, p, c.immediate[b])
               <=> Dom(E, 0, r, p) /\ (r = b \/ ~Dom(E, 0, r, b))
  <2>1. b \in E[p]  BY <1>5 DEF LeadingTo
  <2> DEFINE D == DOMAIN g
  <2>2. D \in SUBSET DOMAIN E /\ DOMAIN E \ {0} \subseteq D /\ D = DOMAIN E  BY <1>1
  <2>3. c.immediate = [m \in D |-> c.immediate[m]]  BY <1>4
  <2> HIDE DEF D, E
  <2>4. Computed(c, E, 0)  BY DEF E
  <2>5. r \in Runners([m \in D |-> c.immediate[m]], p, c.immediate[b])
          <=> Dom(E, 0, r, p) /\ (r = b \/ ~Dom(E, 0, r, b))
    BY <1>1, <1>5, <2>1, <2>2, <2>4, RunnersStop
  <2> QED  BY <2>3, <2>5
<1>6. Frontier(g, c.immediate)[r] =
        {k \in DOMAIN g :
           /\ g[k].reachable /\ Len(g[k].predecessors) >= 2
           /\ \E i \in DOMAIN g[k].predecessors :
                g[g[k].predecessors[i]].reachable
                  /\ r \in Runners(c.immediate, g[k].predecessors[i], c.immediate[k])}
  BY <1>1 DEF Frontier
<1>7. b \in Frontier(g, c.immediate)[r] <=>
        /\ b \in c.reachable /\ Len(preds) >= 2
        /\ \E p \in ToSet(preds) : g[p].reachable /\ r \in Runners(c.immediate, p, c.immediate[b])
  <2>1. b \in Frontier(g, c.immediate)[r] <=>
           /\ g[b].reachable /\ Len(preds) >= 2
           /\ \E i \in DOMAIN preds :
                g[preds[i]].reachable /\ r \in Runners(c.immediate, preds[i], c.immediate[b])
    BY <1>6, Zenon
  <2>2. ToSet(preds) = {preds[i] : i \in DOMAIN preds}  BY DEF ToSet
  <2>3. g[b].reachable <=> b \in c.reachable  BY <1>2
  <2> HIDE DEF preds
  <2> QED  BY <2>1, <2>2, <2>3, Zenon
<1>8. LeadingTo(g, b) \subseteq DOMAIN g  BY DEF LeadingTo
<1>9. b \in Frontier(g, c.immediate)[r] <=>
        /\ b \in c.reachable /\ Cardinality(LeadingTo(g, b)) >= 2
        /\ \E p \in LeadingTo(g, b) :
             p \in c.reachable /\ r \in Runners(c.immediate, p, c.immediate[b])
  BY <1>2, <1>3, <1>7, <1>8, Zenon
<1> HIDE DEF E
<1>10. b \in Frontier(g, c.immediate)[r] <=>
        /\ b \in c.reachable /\ Cardinality(LeadingTo(g, b)) >= 2
        /\ \E p \in LeadingTo(g, b) :
             p \in c.reachable /\ Dom(E, 0, r, p) /\ (r = b \/ ~Dom(E, 0, r, b))
  BY <1>5, <1>9, Zenon
<1> QED  BY <1>10, Zenon DEF E
-----------------------------------------------------------------------------
(* What holds of a run: the graph is that of the code, and what is         *)
(* reported is its analysis.                                               *)
AInv ==
  /\ Accepted(code) /\ cfg \in {<< >>, buildControlFlowGraph(code)}
  /\ Analyzed => cfg = buildControlFlowGraph(code) /\ analysis = analyzeControlFlowGraph(cfg)

LEMMA AnalysisInitially == Init => AInv
BY ProgramsAssumption DEF Init, AInv, Analyzed, Accepted, Unit

LEMMA AnalysisStays == AInv /\ [Next]_vars => AInv'
<1> SUFFICES ASSUME AInv, [Next]_vars PROVE AInv'  OBVIOUS
<1>1. CASE Build  BY <1>1 DEF Build, AInv, Analyzed
<1>2. CASE Analyze  BY <1>2 DEF Analyze, AInv, Analyzed
<1>3. CASE UNCHANGED vars  BY <1>3 DEF vars, AInv, Analyzed
<1> QED  BY <1>1, <1>2, <1>3 DEF Next

(* Every state has the code unit that the run began with, the graph built  *)
(* of it once it is built, and its analysis once that is made.             *)
LEMMA AnalysisInvariance == Spec => []AInv
<1>1. Init => AInv  BY AnalysisInitially
<1>2. AInv /\ [Next]_vars => AInv'  BY AnalysisStays
<1> QED  BY <1>1, <1>2, PTL DEF Spec

(* The two runs of computeDominators.                                      *)
Dominated == computeDominators(EdgesOf(cfg), 0)

Postdominated ==
  computeDominators(ReverseWithExit(Adjacency(cfg)), Cardinality(DOMAIN cfg))

(* What an analysis is made of, and the walks of the properties.           *)
LEMMA AnalysedGraph ==
  ASSUME AInv, Analyzed
  PROVE  /\ Drawn(cfg) /\ Edges = EdgesOf(cfg) /\ Block = DOMAIN cfg
         /\ Live = From(EdgesOf(cfg), 0, {}) /\ Computed(Dominated, EdgesOf(cfg), 0)
         /\ \A b, avoid : WalksFrom(b, avoid) = From(Edges, b, avoid)
<1>1. Drawn(cfg)  BY BuiltIsDrawn DEF AInv
<1>2. Edges = EdgesOf(cfg) /\ Block = DOMAIN cfg  BY DEF Edges, EdgesOf, Block
<1>3. Live = From(EdgesOf(cfg), 0, {})
  <2> DEFINE E == EdgesOf(cfg)
  <2>1. DOMAIN E = DOMAIN cfg /\ IsGraph(E) /\ 0 \in DOMAIN E  BY <1>1 DEF Drawn, EdgesOf
  <2>2. From(E, 0, {}) \subseteq DOMAIN cfg  
    <3> HIDE DEF E
    <3> QED  BY <2>1, FromIsClosed
  <2>3. \A b \in DOMAIN cfg : cfg[b].reachable <=> b \in From(E, 0, {})  BY <1>1 DEF Drawn
  <2> HIDE DEF E
  <2>4. Live = {b \in DOMAIN cfg : cfg[b].reachable}  BY DEF Live, Block
  <2>5. ASSUME NEW b PROVE b \in Live <=> b \in From(E, 0, {})
    BY <2>2, <2>3, <2>4, Zenon
  <2> QED  BY <2>5, Zenon DEF E
<1>4. Computed(Dominated, EdgesOf(cfg), 0)
  <2>1. 0 \in DOMAIN EdgesOf(cfg)  BY <1>1 DEF Drawn, EdgesOf
  <2> QED  BY <1>1, <2>1, ComputedDominators DEF Drawn, Dominated
<1>5. ASSUME NEW b, NEW avoid PROVE WalksFrom(b, avoid) = From(Edges, b, avoid)
  <2>1. DOMAIN Edges = Block  BY DEF Edges
  <2> QED  BY <2>1 DEF WalksFrom, From
<1> QED  BY <1>1, <1>2, <1>3, <1>4, <1>5

LEMMA ReportedFrontier ==
  ASSUME AInv, Analyzed
  PROVE  /\ analysis.dominance_frontier = Frontier(cfg, Dominated.immediate)
         /\ analysis.dominators = Dominated.sets
<1>1. analysis = analyzeControlFlowGraph(cfg)  BY DEF AInv
<1>2. EdgeSets(Adjacency(cfg)) = EdgesOf(cfg)  BY EdgesAreThose
<1> QED  BY <1>1, <1>2 DEF analyzeControlFlowGraph, Dominated

(* graph_analysis.cpp:251-271.  The dominance frontier of every reachable  *)
(* block is where its dominance ends, whatever the code unit.              *)
THEOREM FrontierExact == Spec => []FrontierIsWhereDominanceEnds
<1>1. ASSUME AInv PROVE FrontierIsWhereDominanceEnds
  <2> SUFFICES ASSUME Analyzed, NEW r \in Live
      PROVE  analysis.dominance_frontier[r] =
               {b \in Live :
                  /\ Cardinality({p \in Block : b \in Edges[p]}) >= 2
                  /\ \E p \in {p \in Live : b \in Edges[p]} : Dominates(r, p)
                  /\ r = b \/ ~Dominates(r, b)}
    BY DEF FrontierIsWhereDominanceEnds
  <2> DEFINE c == Dominated
             E == EdgesOf(cfg)
             F == Frontier(cfg, c.immediate)
  <2>1. /\ Drawn(cfg) /\ Edges = E /\ Block = DOMAIN cfg
        /\ Live = From(E, 0, {}) /\ Computed(c, E, 0)
        /\ \A b, avoid : WalksFrom(b, avoid) = From(E, b, avoid)
    BY <1>1, AnalysedGraph
  <2>2. \A d, n : Dominates(d, n) <=> Dom(E, 0, d, n)  BY <2>1 DEF Dominates, Dom
  <2>3. analysis.dominance_frontier = F  BY <1>1, ReportedFrontier
  <2>4. c.reachable = Live  BY <2>1 DEF Computed
  <2>5. Live \subseteq DOMAIN cfg  BY <2>1 DEF Live
  <2>6. F[r] \subseteq DOMAIN cfg  BY <2>5 DEF Frontier
  <2> HIDE DEF c
  <2>7. ASSUME NEW b \in DOMAIN cfg
        PROVE  b \in F[r] <=>
                 /\ b \in Live /\ Cardinality(LeadingTo(cfg, b)) >= 2
                 /\ \E p \in LeadingTo(cfg, b) \cap Live : Dom(E, 0, r, p)
                 /\ r = b \/ ~Dom(E, 0, r, b)
    BY <2>1, <2>4, FrontierIsExact
  <2>8. \A b : LeadingTo(cfg, b) = {p \in Block : b \in Edges[p]}
               /\ LeadingTo(cfg, b) \cap Live = {p \in Live : b \in Edges[p]}
    BY <2>1, <2>5 DEF LeadingTo
  <2> HIDE DEF E, F
  <2>9. ASSUME NEW b
        PROVE  b \in F[r] <=>
                 /\ b \in Live /\ Cardinality({p \in Block : b \in Edges[p]}) >= 2
                 /\ \E p \in {p \in Live : b \in Edges[p]} : Dominates(r, p)
                 /\ r = b \/ ~Dominates(r, b)
    BY <2>2, <2>5, <2>6, <2>7, <2>8, Zenon
  <2> QED  BY <2>3, <2>9, Zenon
<1> QED  BY <1>1, AnalysisInvariance, PTL
-----------------------------------------------------------------------------
(* The graph against its edges with its synthetic exit.                    *)
Back(g) == ReverseWithExit(Adjacency(g))

ExitOf(g) == Cardinality(DOMAIN g)

Ends(g) == {b \in DOMAIN g : EdgesOf(g)[b] = {}}

LEMMA BackIsGraph ==
  ASSUME NEW g, Drawn(g)
  PROVE  /\ IsGraph(Back(g)) /\ NodesOf(Back(g)) /\ DOMAIN Back(g) = DOMAIN g \cup {ExitOf(g)}
         /\ ExitOf(g) \notin DOMAIN g /\ Back(g)[ExitOf(g)] = Ends(g)
         /\ \A m \in DOMAIN g : Back(g)[m] = {n \in DOMAIN g : m \in EdgesOf(g)[n]}
<1> DEFINE E == EdgesOf(g)
           N == ExitOf(g)
           G == Back(g)
<1>1. DOMAIN E = DOMAIN g /\ IsFiniteSet(DOMAIN g) /\ DOMAIN g = 0 .. N - 1 /\ N \in Nat
  <2>1. DOMAIN E = DOMAIN g  BY DEF EdgesOf
  <2>2. IsFiniteSet(DOMAIN g) /\ DOMAIN g = 0 .. N - 1
    <3> HIDE DEF E
    <3> QED  BY <2>1 DEF Drawn, IsGraph, NodesOf, ExitOf, E
  <2> QED  BY <2>1, <2>2, FS_CardinalityType DEF ExitOf
<1>2. DOMAIN Adjacency(g) = DOMAIN g /\ EdgeSets(Adjacency(g)) = E  BY EdgesAreThose
<1> HIDE DEF E
<1>3. G = [n \in 0 .. N |-> IF n = N THEN {b \in DOMAIN g : E[b] = {}}
                            ELSE {p \in DOMAIN g : n \in E[p]}]
  BY <1>1, <1>2 DEF Back, ReverseWithExit, ExitOf, PredecessorsIn
<1> HIDE DEF G
<1>4. DOMAIN G = 0 .. N /\ 0 .. N = DOMAIN g \cup {N} /\ N \notin DOMAIN g  
  <2> HIDE DEF N
  <2> QED  BY <1>1, <1>3
<1>5. G[N] = Ends(g) /\ \A m \in DOMAIN g : G[m] = {n \in DOMAIN g : m \in E[n]}
  <2> HIDE DEF N
  <2> QED  BY <1>3, <1>4 DEF Ends, E
<1>6. IsGraph(G)
  <2>1. IsFiniteSet(DOMAIN G)  BY <1>1, <1>4, FS_Interval
  <2>2. \A n \in DOMAIN G : G[n] \subseteq DOMAIN g  BY <1>3, <1>4
  <2> QED  BY <1>4, <2>1, <2>2 DEF IsGraph
<1>7. NodesOf(G)
  <2>1. Cardinality(0 .. N) = N + 1  
    <3> HIDE DEF N
    <3> QED  BY <1>1, FS_Interval
  <2>2. 0 .. N = 0 .. (N + 1) - 1
    <3> HIDE DEF N
    <3> QED  BY <1>1
  <2> QED  BY <1>4, <2>1, <2>2 DEF NodesOf
<1> QED  BY <1>4, <1>5, <1>6, <1>7 DEF G, E

(* Against the edges the exit comes to the blocks from which a walk ends.  *)
LEMMA EscapesAreReached ==
  ASSUME NEW g, Drawn(g), NEW avoid, ExitOf(g) \notin avoid, NEW b \in DOMAIN g
  PROVE  b \in From(Back(g), ExitOf(g), avoid) <=> From(EdgesOf(g), b, avoid) \cap Ends(g) # {}
<1> DEFINE E == EdgesOf(g)
           G == Back(g)
           x == ExitOf(g)
           S == {x} \cup {m \in DOMAIN g : From(E, m, avoid) \cap Ends(g) # {}}
           T == From(G, x, avoid)
<1>1. DOMAIN E = DOMAIN g /\ IsGraph(E)  BY DEF EdgesOf, Drawn
<1>2. /\ IsGraph(G) /\ DOMAIN G = DOMAIN g \cup {x} /\ x \notin DOMAIN g /\ G[x] = Ends(g)
      /\ \A m \in DOMAIN g : G[m] = {n \in DOMAIN g : m \in E[n]}
  BY BackIsGraph
<1>3. Ends(g) \subseteq DOMAIN g  BY DEF Ends
<1> HIDE DEF E, G
<1>4. ASSUME b \in T PROVE From(E, b, avoid) \cap Ends(g) # {}
  <2>1. ASSUME NEW m \in S, m \in DOMAIN G \ avoid, NEW k \in G[m], k \notin avoid
        PROVE  k \in S
    <3>1. CASE m = x
      <4>1. k \in Ends(g) /\ k \in DOMAIN g  BY <1>2, <1>3, <2>1, <3>1
      <4>2. k \in From(E, k, avoid)  BY <1>1, <2>1, <4>1, FromIsClosed
      <4> QED  BY <4>1, <4>2
    <3>2. CASE m # x
      <4>1. m \in DOMAIN g /\ k \in DOMAIN g /\ m \in E[k]  BY <1>2, <2>1, <3>2
      <4>2. m \in From(E, k, avoid)  BY <1>1, <2>1, <4>1, FromIsClosed
      <4>3. From(E, m, avoid) \subseteq From(E, k, avoid)  BY <1>1, <4>1, <4>2, FromGoesOn
      <4>4. From(E, m, avoid) \cap Ends(g) # {}  BY <2>1, <3>2
      <4> QED  BY <4>1, <4>3, <4>4
    <3> QED  BY <3>1, <3>2
  <2>2. x \in S /\ x \in DOMAIN G  BY <1>2
  <2>3. T \subseteq S
    <3> HIDE DEF S, x
    <3> QED  BY <1>2, <2>1, <2>2, FromIsLeast
  <2> QED  BY <1>2, <1>4, <2>3
<1>5. ASSUME NEW e \in From(E, b, avoid) \cap Ends(g) PROVE b \in T
  <2> DEFINE R == Reversed(E)
  <2>0. e \in DOMAIN g /\ e \notin avoid  BY <1>1, <1>5, FromIsClosed
  <2>1. e \in T
    <3>1. x \in T /\ x \in DOMAIN G /\ e \in G[x]  BY <1>2, <1>5, FromIsClosed
    <3> QED  BY <1>2, <2>0, <3>1, FromIsClosed
  <2>2. b \in From(R, e, avoid)  BY <1>1, <1>5, WalksGoBack
  <2>3. /\ IsGraph(R) /\ DOMAIN R = DOMAIN g
        /\ \A m, n \in DOMAIN g : n \in R[m] <=> m \in E[n]
    BY <1>1, ReversedIsGraph
  <2> HIDE DEF R
  <2>4. ASSUME NEW m \in T, m \in DOMAIN R \ avoid, NEW k \in R[m], k \notin avoid PROVE k \in T
    <3>1. m \in DOMAIN g /\ k \in DOMAIN g  BY <2>3, <2>4 DEF IsGraph
    <3>2. k \in G[m] /\ x \in DOMAIN G  BY <1>2, <2>3, <2>4, <3>1
    <3> QED  BY <1>2, <2>4, <3>2, FromIsClosed
  <2>5. From(R, e, avoid) \subseteq T
    <3> HIDE DEF T
    <3> QED  BY <2>0, <2>1, <2>3, <2>4, FromIsLeast
  <2> QED  BY <2>2, <2>5
<1> QED  BY <1>4, <1>5 DEF E, G

(* p is on all walks from b to an end.                                     *)
Guards(g, p, b) == From(EdgesOf(g), b, {p}) \cap Ends(g) = {}

LEMMA PostdominatorsAreGuards ==
  ASSUME NEW g, Drawn(g), NEW b \in DOMAIN g
  PROVE  /\ \A p \in DOMAIN g : Dom(Back(g), ExitOf(g), p, b) <=> Guards(g, p, b)
         /\ Dom(Back(g), ExitOf(g), ExitOf(g), b)
         /\ b \in From(Back(g), ExitOf(g), {}) <=> From(EdgesOf(g), b, {}) \cap Ends(g) # {}
<1>1. ASSUME NEW p \in DOMAIN g PROVE Dom(Back(g), ExitOf(g), p, b) <=> Guards(g, p, b)
  <2>1. ExitOf(g) \notin {p}  BY BackIsGraph
  <2> QED  BY <2>1, EscapesAreReached DEF Dom, Guards
<1>2. Dom(Back(g), ExitOf(g), ExitOf(g), b)
  <2>1. IsGraph(Back(g)) /\ ExitOf(g) \in DOMAIN Back(g)  BY BackIsGraph
  <2> QED  BY <2>1, DomItself
<1> QED  BY <1>1, <1>2, EscapesAreReached

LEMMA AnalysedBack ==
  ASSUME AInv, Analyzed
  PROVE  /\ Computed(Postdominated, Back(cfg), ExitOf(cfg))
         /\ analysis.postdominators = Postdominated.sets
         /\ analysis.immediate_postdominator = Postdominated.immediate
         /\ analysis.can_reach_exit = Postdominated.reachable \ {ExitOf(cfg)}
         /\ analysis.control_dependents = ControlDependents(EdgesOf(cfg), Postdominated)
<1>1. analysis = analyzeControlFlowGraph(cfg)  BY DEF AInv
<1>2. EdgeSets(Adjacency(cfg)) = EdgesOf(cfg)  BY EdgesAreThose
<1>3. Drawn(cfg)  BY AnalysedGraph
<1>4. Computed(Postdominated, Back(cfg), ExitOf(cfg))
  <2>1. IsGraph(Back(cfg)) /\ NodesOf(Back(cfg)) /\ ExitOf(cfg) \in DOMAIN Back(cfg)
    BY <1>3, BackIsGraph
  <2>2. Postdominated = computeDominators(Back(cfg), ExitOf(cfg))
    BY DEF Postdominated, Back, ExitOf
  <2> QED  BY <2>1, <2>2, ComputedDominators
<1> QED  BY <1>1, <1>2, <1>4 DEF analyzeControlFlowGraph, Postdominated, ExitOf

(* graph_analysis.cpp:273-295.  The postdominators reported of a block are *)
(* the blocks on all its walks to an exit, and the immediate one is the    *)
(* first of them, whatever the code unit.                                  *)
THEOREM PostdominatorsExact == Spec => []PostdominatorsGuardTheExit
<1>1. ASSUME AInv PROVE PostdominatorsGuardTheExit
  <2> SUFFICES ASSUME Analyzed PROVE PostdominatorsGuardTheExit
    BY DEF PostdominatorsGuardTheExit
  <2> DEFINE c == Postdominated
             x == ExitOf(cfg)
             G == Back(cfg)
             E == EdgesOf(cfg)
  <2>1. /\ Drawn(cfg) /\ Edges = E /\ Block = DOMAIN cfg
        /\ \A b, avoid : WalksFrom(b, avoid) = From(E, b, avoid)
    BY <1>1, AnalysedGraph
  <2>2. /\ Computed(c, G, x) /\ analysis.postdominators = c.sets
        /\ analysis.immediate_postdominator = c.immediate
        /\ analysis.can_reach_exit = c.reachable \ {x}
    BY <1>1, AnalysedBack
  <2>3. /\ IsGraph(G) /\ DOMAIN G = Block \cup {x} /\ x \notin Block
    BY <2>1, BackIsGraph
  <2>4. Exits = Ends(cfg)  BY <2>1 DEF Exits, Ends
  <2>5. \A p, b : Postdominates(p, b) <=> Guards(cfg, p, b)
    BY <2>1, <2>4 DEF Postdominates, Escapes, Guards
  <2>6. \A b \in Block : /\ Dom(G, x, x, b)
                         /\ \A p \in Block : Dom(G, x, p, b) <=> Postdominates(p, b)
    BY <2>1, <2>5, PostdominatorsAreGuards
  <2>7. c.reachable = From(G, x, {}) /\ c.reachable \subseteq Block \cup {x}
    BY <2>2, <2>3, FromIsClosed DEF Computed
  <2>8. \A b \in Block : b \in c.reachable <=> Escapes(b, {})
    BY <2>1, <2>4, <2>7, PostdominatorsAreGuards DEF Escapes
  <2> HIDE DEF c, x, G, E
  <2>9. analysis.can_reach_exit = {b \in Block : Escapes(b, {})}
    BY <2>2, <2>3, <2>7, <2>8
  <2>10. ASSUME NEW b \in analysis.can_reach_exit
         PROVE  LET strict == {p \in Block \ {b} : Postdominates(p, b)}
                    first == analysis.immediate_postdominator[b]
                IN  /\ analysis.postdominators[b] = strict \cup {b, x}
                    /\ IF strict = {} THEN first = x
                       ELSE first \in strict /\ \A p \in strict : Postdominates(p, first)
    <3> DEFINE strict == {p \in Block \ {b} : Postdominates(p, b)}
               first == c.immediate[b]
    <3>1. b \in c.reachable /\ b # x /\ b \in Block /\ b \in DOMAIN G
      BY <2>2, <2>3, <2>7, <2>10
    <3>2. c.sets[b] = strict \cup {b, x}
      <4>1. c.sets[b] \subseteq Block \cup {x}  BY <2>2, <2>3, <3>1 DEF Computed, Rows
      <4>2. \A d \in Block \cup {x} : d \in c.sets[b] <=> Dom(G, x, d, b)
        BY <2>2, <2>3, <3>1 DEF Computed
      <4>3. Dom(G, x, b, b)  BY <2>3, DomItself
      <4> QED  BY <2>6, <3>1, <4>1, <4>2, <4>3
    <3>3. /\ first \in Block \cup {x} /\ first # b /\ Dom(G, x, first, b)
          /\ \A d \in Block : d # b /\ Dom(G, x, d, b) => Dom(G, x, d, first)
      BY <2>2, <2>3, <2>7, <3>1 DEF Computed
    <3> HIDE DEF first
    <3>4. first \in Block => first \in strict  BY <2>6, <3>1, <3>3
    <3>5. ASSUME NEW p \in strict PROVE first \in Block /\ Postdominates(p, first)
      <4>1. p \in Block /\ p # b /\ Dom(G, x, p, b)  BY <2>6, <3>1, <3>5
      <4>2. Dom(G, x, p, first)  BY <3>3, <4>1
      <4>3. first # x
        <5>1. x \in DOMAIN G  BY <2>3
        <5> QED  BY <2>3, <4>1, <4>2, <5>1, OnlyRootDomsRoot
      <4> QED  BY <2>6, <3>3, <4>1, <4>2, <4>3
    <3>6. strict = {} => first = x  BY <3>3, <3>4
    <3>7. strict # {} => first \in strict /\ \A p \in strict : Postdominates(p, first)
      BY <3>4, <3>5
    <3> HIDE DEF strict
    <3> QED  BY <2>2, <3>2, <3>6, <3>7 DEF first, strict
  <2>11. \A b \in Block \ analysis.can_reach_exit : analysis.immediate_postdominator[b] = None
    BY <2>2, <2>3, <2>7 DEF Computed
  <2>12. Cardinality(Block) = x  BY <2>1 DEF x, ExitOf
  <2> QED  BY <2>9, <2>10, <2>11, <2>12 DEF PostdominatorsGuardTheExit
<1> QED  BY <1>1, AnalysisInvariance, PTL

(* graph_analysis.cpp:297-322.  The control dependents reported of a block *)
(* are the blocks that one way out of it runs into for sure and another    *)
(* can miss, whatever the code unit.                                       *)
THEOREM DependentsExact == Spec => []DependentsAreDecidedByTheBranch
<1>1. ASSUME AInv PROVE DependentsAreDecidedByTheBranch
  <2> DEFINE c == Postdominated
             x == ExitOf(cfg)
             G == Back(cfg)
             E == EdgesOf(cfg)
             D == DOMAIN E
             up == [m \in D |-> c.immediate[m]]
  <2> SUFFICES ASSUME Analyzed, NEW s \in analysis.can_reach_exit
      PROVE  analysis.control_dependents[s] =
               {b \in analysis.can_reach_exit :
                  /\ \E t \in (Edges[s] \cap analysis.can_reach_exit) \ {s} : Postdominates(b, t)
                  /\ b = s \/ ~Postdominates(b, s)}
    BY DEF DependentsAreDecidedByTheBranch
  <2>1. /\ Drawn(cfg) /\ Edges = E /\ Block = DOMAIN cfg
        /\ \A b, avoid : WalksFrom(b, avoid) = From(E, b, avoid)
    BY <1>1, AnalysedGraph
  <2>2. /\ Computed(c, G, x) /\ analysis.can_reach_exit = c.reachable \ {x}
        /\ analysis.control_dependents = ControlDependents(E, c)
    BY <1>1, AnalysedBack
  <2>3. /\ IsGraph(G) /\ NodesOf(G) /\ DOMAIN G = Block \cup {x} /\ x \notin Block
        /\ \A m \in Block : G[m] = {n \in Block : m \in E[n]}
    BY <2>1, BackIsGraph
  <2>4. Exits = Ends(cfg)  BY <2>1 DEF Exits, Ends
  <2>5. \A p, b : Postdominates(p, b) <=> Guards(cfg, p, b)
    BY <2>1, <2>4 DEF Postdominates, Escapes, Guards
  <2>6. \A b \in Block : /\ Dom(G, x, x, b)
                         /\ \A p \in Block : Dom(G, x, p, b) <=> Postdominates(p, b)
    BY <2>1, <2>5, PostdominatorsAreGuards
  <2>7. c.reachable = From(G, x, {}) /\ c.reachable \subseteq Block \cup {x}
    BY <2>2, <2>3, FromIsClosed DEF Computed
  <2>8. DOMAIN E = Block /\ \A b \in Block : E[b] \subseteq Block
    <3>1. DOMAIN E = DOMAIN cfg /\ IsGraph(E)  BY <2>1 DEF Drawn, EdgesOf
    <3> QED  BY <2>1, <3>1 DEF IsGraph
  <2> DEFINE ways == {u \in E[s] \cap c.reachable : s \in c.reachable /\ u \notin c.sets[s]}
  <2>9. analysis.control_dependents[s] = UNION {Runners(up, t, c.immediate[s]) : t \in ways}
    <3>1. s \in DOMAIN E  BY <2>2, <2>7, <2>8
    <3> QED  BY <2>2, <3>1 DEF ControlDependents
  <2>10. s \in c.reachable /\ s # x /\ s \in Block /\ D \in SUBSET DOMAIN G
         /\ DOMAIN G \ {x} \subseteq D
    BY <2>2, <2>3, <2>7, <2>8
  <2> HIDE DEF c, x, G, E, D
  <2>11. \A t \in ways : t \in c.reachable /\ t \in Block /\ t \in E[s] /\ ~Dom(G, x, t, s)
    BY <2>2, <2>3, <2>8, <2>10 DEF Computed
  <2>12. \A t \in E[s] \cap c.reachable : ~Dom(G, x, t, s) => t \in ways
    BY <2>2, <2>3, <2>8, <2>10 DEF Computed
  <2>13. ASSUME NEW t \in ways, NEW b
         PROVE  b \in Runners(up, t, c.immediate[s])
                  <=> b \in c.reachable /\ Dom(G, x, b, t) /\ (b = s \/ ~Dom(G, x, b, s))
    <3>1. t \in c.reachable /\ s \in G[t]  BY <2>3, <2>10, <2>11
    <3>2. x \in DOMAIN G  BY <2>3
    <3> HIDE DEF ways
    <3> QED  BY <2>2, <2>3, <2>10, <3>1, <3>2, RunnersStop
  <2> HIDE DEF ways, up
  <2>14. ASSUME NEW t \in ways, NEW b \in Runners(up, t, c.immediate[s])
         PROVE  /\ b \in c.reachable \ {x} /\ (b = s \/ ~Postdominates(b, s))
                /\ t \in (E[s] \cap (c.reachable \ {x})) \ {s} /\ Postdominates(b, t)
    <3>1. b \in c.reachable /\ Dom(G, x, b, t) /\ (b = s \/ ~Dom(G, x, b, s))  BY <2>13, <2>14
    <3>2. b # x /\ b \in Block  BY <2>3, <2>6, <2>7, <2>10, <3>1
    <3>3. t \in c.reachable /\ t # x /\ t \in E[s] /\ t \in Block /\ ~Dom(G, x, t, s)
      BY <2>3, <2>11
    <3>4. t # s
      <4>1. x \in DOMAIN G  BY <2>3
      <4> QED  BY <2>3, <3>3, <4>1, DomItself
    <3> QED  BY <2>6, <2>10, <3>1, <3>2, <3>3, <3>4
  <2>15. ASSUME NEW b \in c.reachable \ {x}, b = s \/ ~Postdominates(b, s),
                NEW t \in (E[s] \cap (c.reachable \ {x})) \ {s}, Postdominates(b, t)
         PROVE  t \in ways /\ b \in Runners(up, t, c.immediate[s])
    <3>1. b \in Block /\ t \in Block /\ x \in DOMAIN G  BY <2>3, <2>7, <2>15
    <3>2. Dom(G, x, b, t) /\ (b = s \/ ~Dom(G, x, b, s))  BY <2>6, <2>10, <2>15, <3>1
    <3>3. ~Dom(G, x, t, s)
      <4> SUFFICES ASSUME Dom(G, x, t, s) PROVE FALSE  OBVIOUS
      <4>1. Dom(G, x, b, s)  BY <2>3, <3>1, <3>2, DomGoesUp
      <4>2. b = s  BY <3>2, <4>1
      <4>3. t = s  BY <2>3, <2>7, <2>15, <3>1, <3>2, <4>2, DomsDiffer
      <4> QED  BY <2>15, <4>3
    <3> QED  BY <2>12, <2>13, <2>15, <3>2, <3>3
  <2>16. ASSUME NEW b
         PROVE  b \in analysis.control_dependents[s] <=>
                  /\ b \in c.reachable \ {x}
                  /\ \E t \in (E[s] \cap (c.reachable \ {x})) \ {s} : Postdominates(b, t)
                  /\ b = s \/ ~Postdominates(b, s)
    <3>1. b \in analysis.control_dependents[s]
            <=> \E t \in ways : b \in Runners(up, t, c.immediate[s])
      BY <2>9
    <3> QED  BY <2>14, <2>15, <3>1
  <2> QED  BY <2>1, <2>2, <2>16
<1> QED  BY <1>1, AnalysisInvariance, PTL
-----------------------------------------------------------------------------
(* The blocks with an edge back to h, which dominates them, and the loop   *)
(* they make: what walks come to one of them from, without passing h.      *)
Latching(e, h) == {b \in From(e, 0, {}) : h \in e[b] /\ Dom(e, 0, h, b)}

Body(e, h) == {h} \cup {b \in From(e, 0, {}) : From(e, b, {h}) \cap Latching(e, h) # {}}

Heads(e) == {h \in DOMAIN e : Latching(e, h) # {}}

LEMMA HeadsAreLive ==
  ASSUME NEW e, IsGraph(e), 0 \in DOMAIN e, NEW h \in Heads(e)
  PROVE  h \in From(e, 0, {})
BY FromIsClosed DEF Heads, Latching

LEMMA HeadDominatesBody ==
  ASSUME NEW e, IsGraph(e), 0 \in DOMAIN e, NEW h \in Heads(e), NEW b \in Body(e, h)
  PROVE  b \in From(e, 0, {}) /\ Dom(e, 0, h, b)
<1>1. CASE b = h  BY <1>1, HeadsAreLive, DomItself
<1>2. CASE b # h
  <2>1. b \in From(e, 0, {}) /\ From(e, b, {h}) \cap Latching(e, h) # {}  BY <1>2 DEF Body
  <2>2. PICK l \in From(e, b, {h}) : l \in Latching(e, h)  BY <2>1
  <2>3. l \notin From(e, 0, {h})  BY <2>2 DEF Latching, Dom
  <2>4. b \notin From(e, 0, {h})  BY <2>2, <2>3, FromGoesOn
  <2> QED  BY <2>1, <2>4 DEF Dom
<1> QED  BY <1>1, <1>2

(* A loop whose head another one has is inside it, and has not the head of *)
(* that one.                                                               *)
LEMMA LoopsAreInside ==
  ASSUME NEW e, IsGraph(e), 0 \in DOMAIN e, NEW k \in Heads(e), NEW h \in Heads(e),
         h \in Body(e, k), h # k
  PROVE  Body(e, h) \subseteq Body(e, k) /\ k \notin Body(e, h)
<1>1. Dom(e, 0, k, h) /\ k \in From(e, 0, {}) /\ h \in From(e, 0, {})
  BY HeadDominatesBody, HeadsAreLive
<1>2. k \notin Body(e, h)
  <2> SUFFICES ASSUME k \in Body(e, h) PROVE FALSE  OBVIOUS
  <2>1. Dom(e, 0, h, k)  BY HeadDominatesBody
  <2> QED  BY <1>1, <2>1, DomsDiffer
<1>3. From(e, k, {h}) \cap Latching(e, h) = {}  BY <1>1, <1>2 DEF Body
<1>4. From(e, h, {k}) \cap Latching(e, k) # {}  BY DEF Body
<1>5. ASSUME NEW b \in Body(e, h) PROVE b \in Body(e, k)
  <2>1. CASE b = h  BY <2>1
  <2>2. CASE b # h
    <3>1. b \in From(e, 0, {}) /\ From(e, b, {h}) \cap Latching(e, h) # {}
      BY <1>5, <2>2 DEF Body
    <3>2. PICK l \in From(e, b, {h}) : l \in Latching(e, h)  BY <3>1
    <3>3. b \in DOMAIN e /\ b # k  BY <1>2, <1>5, <3>1, FromIsClosed
    <3> DEFINE lost == {z \in DOMAIN e : From(e, z, {h}) \cap Latching(e, h) = {}}
               S == From(e, b, {k}) \cup lost
    <3>4. b \in S  BY <3>3, FromIsClosed
    <3>5. ASSUME NEW m \in S, m \in DOMAIN e \ {h}, NEW n \in e[m], n \notin {h} PROVE n \in S
      <4>1. n \in DOMAIN e  BY <3>5 DEF IsGraph
      <4>2. CASE m \in lost
        <5>1. n \in From(e, m, {h})  BY <3>5, FromIsClosed
        <5>2. From(e, n, {h}) \subseteq From(e, m, {h})  BY <3>5, <5>1, FromGoesOn
        <5> QED  BY <4>1, <4>2, <5>2
      <4>3. CASE m \in From(e, b, {k})
        <5>1. CASE n = k  BY <1>3, <4>1, <5>1
        <5>2. CASE n # k  BY <3>3, <3>5, <4>3, <5>2, FromIsClosed
        <5> QED  BY <5>1, <5>2
      <4> QED  BY <3>5, <4>2, <4>3
    <3>6. From(e, b, {h}) \subseteq S
      <4> HIDE DEF S
      <4> QED  BY <3>3, <3>4, <3>5, FromIsLeast
    <3>7. l \in DOMAIN e /\ l \in From(e, l, {h})
      <4>1. l \in DOMAIN e /\ l \notin {h}  BY <3>2, <3>3, FromIsClosed
      <4> QED  BY <4>1, FromIsClosed
    <3>8. l \in From(e, b, {k})  BY <3>2, <3>6, <3>7
    <3>9. h \in From(e, b, {k})  BY <3>2, <3>3, <3>8, FromIsClosed DEF Latching
    <3>10. From(e, h, {k}) \subseteq From(e, b, {k})  BY <3>3, <3>9, FromGoesOn
    <3> QED  BY <1>4, <3>1, <3>10 DEF Body
  <2> QED  BY <2>1, <2>2
<1> QED  BY <1>2, <1>5

(* Below one of two heads, the lower, a walk need not pass the upper.      *)
LEMMA BelowIsReached ==
  ASSUME NEW e, IsGraph(e), 0 \in DOMAIN e, NEW h \in From(e, 0, {}), NEW k \in From(e, 0, {}),
         h # k, Dom(e, 0, h, k), NEW x \in From(e, 0, {}), Dom(e, 0, k, x)
  PROVE  x \in From(e, k, {h})
<1> DEFINE U == From(e, 0, {k}) \cup From(e, k, {h})
<1>1. k \in DOMAIN e /\ h \in DOMAIN e  BY FromIsClosed
<1>2. 0 \in U
  <2>1. 0 # k  BY OnlyRootDomsRoot
  <2> QED  BY <2>1, FromIsClosed
<1>3. h \in From(e, 0, {k})
  <2>1. ~Dom(e, 0, k, h)  BY DomsDiffer
  <2> QED  BY <2>1 DEF Dom
<1>4. ASSUME NEW m \in U, NEW n \in e[m], n \notin {} PROVE n \in U
  <2>1. CASE m \in From(e, 0, {k})
    <3>1. CASE n = k  BY <1>1, <3>1, FromIsClosed
    <3>2. CASE n # k  BY <1>4, <2>1, <3>2, FromIsClosed
    <3> QED  BY <3>1, <3>2
  <2>2. CASE m \in From(e, k, {h})
    <3>1. CASE n = h  BY <1>3, <3>1
    <3>2. CASE n # h  BY <1>1, <1>4, <2>2, <3>2, FromIsClosed
    <3> QED  BY <3>1, <3>2
  <2> QED  BY <1>4, <2>1, <2>2
<1>5. From(e, 0, {}) \subseteq U
  <2> HIDE DEF U
  <2> QED  BY <1>2, <1>4, FromIsLeast
<1> QED  BY <1>5 DEF Dom

(* Of two loops with a block in common one has the head of the other.      *)
LEMMA LoopsAreApart ==
  ASSUME NEW e, IsGraph(e), 0 \in DOMAIN e, NEW k \in Heads(e), NEW h \in Heads(e),
         NEW x \in Body(e, h), x \in Body(e, k)
  PROVE  h \in Body(e, k) \/ k \in Body(e, h)
<1> DEFINE live == From(e, 0, {})
<1>1. x \in live /\ Dom(e, 0, h, x) /\ Dom(e, 0, k, x) /\ h \in live /\ k \in live
  BY HeadDominatesBody, HeadsAreLive
<1>2. ASSUME NEW a \in Heads(e), NEW b \in Heads(e), a # b, Dom(e, 0, a, b),
             x \in Body(e, a), x \in Body(e, b)
      PROVE  a \in Body(e, b) \/ b \in Body(e, a)
  <2>1. CASE x = a  BY <1>2, <2>1
  <2>2. CASE x # a
    <3>1. a \in live /\ b \in live /\ x \in live /\ Dom(e, 0, b, x)
      BY <1>2, HeadDominatesBody, HeadsAreLive
    <3>2. x \in From(e, b, {a})  
      <4> HIDE DEF live
      <4> QED  BY <1>2, <3>1, BelowIsReached DEF live
    <3>3. b \in DOMAIN e  BY DEF Heads
    <3>4. From(e, x, {a}) \subseteq From(e, b, {a})  BY <3>2, <3>3, FromGoesOn
    <3>5. From(e, x, {a}) \cap Latching(e, a) # {}  BY <1>2, <2>2 DEF Body
    <3> QED  BY <3>1, <3>4, <3>5 DEF Body
  <2> QED  BY <2>1, <2>2
<1>3. CASE h = k  BY <1>3 DEF Body
<1>4. CASE h # k
  <2>1. Dom(e, 0, h, k) \/ Dom(e, 0, k, h)  BY <1>1, DomsAreAChain
  <2> QED  BY <1>2, <1>4, <2>1
<1> QED  BY <1>3, <1>4

IsFlood(graph, within, marked, F) ==
  /\ marked \subseteq F /\ F \subseteq marked \cup within
  /\ \A b \in F : graph[b] \cap within \subseteq F

LEMMA FloodMarks ==
  ASSUME NEW graph, NEW within, IsFiniteSet(within), NEW marked
  PROVE  IsFlood(graph, within, marked, Flooded(graph, within, marked))
BY FloodIsClosed, Zenon DEF IsFlood

(* The flood of the code marks that loop.                                  *)
LEMMA FloodsTheBody ==
  ASSUME NEW e, IsGraph(e), 0 \in DOMAIN e, NEW h \in Heads(e), NEW W, NEW L,
         L = Latching(e, h), W = {p \in From(e, 0, {}) : Dom(e, 0, h, p)}
  PROVE  {h} \cup Flooded([b \in DOMAIN e |-> IF b = h /\ b \notin L THEN {}
                                              ELSE PredecessorsIn(e, b)], W, L)
           = Body(e, h)
<1> DEFINE live == From(e, 0, {})
           into == [b \in DOMAIN e |-> IF b = h /\ b \notin L THEN {} ELSE PredecessorsIn(e, b)]
           F == Flooded(into, W, L)
           R == Reversed(e)
           M == {b \in W : b = h \/ From(e, b, {h}) \cap L # {}}
<1>1. live \subseteq DOMAIN e /\ h \in DOMAIN e /\ h \in live
  BY FromIsClosed, HeadsAreLive DEF Heads
<1>2. IsFiniteSet(W) /\ L \subseteq W /\ W \subseteq live
  <2>1. IsFiniteSet(live)  BY <1>1, FS_Subset DEF IsGraph
  <2> QED  BY <2>1, FS_Subset DEF Latching
<1>3. L \subseteq F /\ F \subseteq L \cup W /\ \A b \in F : into[b] \cap W \subseteq F
  <2>1. IsFiniteSet(W)  BY <1>2
  <2> HIDE DEF into
  <2>2. IsFlood(into, W, L, F)  BY <2>1, FloodMarks
  <2> HIDE DEF F
  <2> QED  BY <2>2 DEF IsFlood
<1>4. \A b \in DOMAIN e : into[b] = IF b = h /\ b \notin L THEN {}
                                    ELSE {p \in DOMAIN e : b \in e[p]}
  BY DEF PredecessorsIn
<1> HIDE DEF into
<1>5. L \subseteq M
  <2> SUFFICES ASSUME NEW b \in L, b # h PROVE From(e, b, {h}) \cap L # {}  BY <1>2
  <2>1. b \in From(e, b, {h})  BY <1>1, <1>2, FromIsClosed
  <2> QED  BY <2>1
<1>6. ASSUME NEW b \in M, NEW k \in into[b] \cap W PROVE k \in M
  <2>1. b \in DOMAIN e /\ k \in DOMAIN e /\ b \in e[k] /\ ~(b = h /\ b \notin L)
    BY <1>1, <1>2, <1>4, <1>6
  <2>2. CASE b = h
    <3>1. k \in L  BY <1>6, <2>1, <2>2 DEF Latching
    <3> QED  BY <1>5, <3>1
  <2>3. CASE b # h /\ k # h
    <3>1. b \in From(e, k, {h})  BY <2>1, <2>3, FromIsClosed
    <3>2. From(e, b, {h}) \subseteq From(e, k, {h})  BY <2>1, <3>1, FromGoesOn
    <3>3. From(e, b, {h}) \cap L # {}  BY <1>6, <2>3
    <3> QED  BY <1>6, <3>2, <3>3
  <2> QED  BY <1>6, <2>2, <2>3
<1>7. F \subseteq M
  <2>1. \A b \in M : into[b] \cap W \subseteq M  BY <1>6
  <2> HIDE DEF M
  <2> QED  BY <1>2, <1>5, <2>1, FloodIsLeast
<1>8. {h} \cup F \subseteq Body(e, h)  BY <1>2, <1>7 DEF Body
<1>9. ASSUME NEW b \in live, NEW l \in From(e, b, {h}), l \in L PROVE b \in F
  <2> DEFINE S == F \cup (DOMAIN e \ live)
  <2>1. b \in DOMAIN e /\ l \in DOMAIN e /\ l \notin {h}  BY <1>1, <1>9, FromIsClosed
  <2>2. b \in From(R, l, {h})  BY <2>1, <1>9, WalksGoBack
  <2>3. /\ IsGraph(R) /\ DOMAIN R = DOMAIN e
        /\ \A m, n \in DOMAIN e : n \in R[m] <=> m \in e[n]
    BY ReversedIsGraph
  <2> HIDE DEF R, F
  <2>4. l \in S  BY <1>3, <1>9
  <2>5. ASSUME NEW m \in S, m \in DOMAIN R \ {h}, NEW k \in R[m], k \notin {h} PROVE k \in S
    <3>1. k \in DOMAIN e /\ m \in e[k]  BY <2>3, <2>5 DEF IsGraph
    <3>2. CASE k \in live
      <4>1. m \in live
        <5>1. 0 \in DOMAIN e /\ m \notin {}  OBVIOUS
        <5> QED  BY <3>1, <3>2, <5>1, FromIsClosed
      <4>2. m \in F /\ m \in W  BY <1>2, <1>3, <2>5, <4>1
      <4>3. Dom(e, 0, h, k)  BY <2>5, <3>1, <3>2, <4>2, DomsOfPredecessor
      <4>4. k \in W  BY <3>2, <4>3
      <4>5. k \in into[m]  BY <1>4, <2>3, <2>5, <3>1
      <4> QED  BY <1>3, <4>2, <4>4, <4>5
    <3> QED  BY <3>1, <3>2
  <2>6. From(R, l, {h}) \subseteq S
    <3> HIDE DEF S
    <3> QED  BY <2>1, <2>3, <2>4, <2>5, FromIsLeast
  <2> QED  BY <1>9, <2>2, <2>6
<1>10. Body(e, h) \subseteq {h} \cup F
  <2> SUFFICES ASSUME NEW b \in Body(e, h), b # h PROVE b \in F  OBVIOUS
  <2>1. b \in live /\ From(e, b, {h}) \cap L # {}  BY DEF Body
  <2> HIDE DEF F, live
  <2> QED  BY <1>9, <2>1
<1>11. {h} \cup F = Body(e, h)  BY <1>8, <1>10
<1> QED  BY <1>11 DEF into

(* The loops found, before each is given its parent.                       *)
LoopAt(e, h) == [header |-> h, latches |-> Latching(e, h), members |-> Body(e, h)]

LEMMA LoopsAreThose ==
  ASSUME NEW g, Drawn(g), NEW c, Computed(c, EdgesOf(g), 0)
  PROVE  NaturalLoops(g, EdgesOf(g), c.sets) = {LoopAt(EdgesOf(g), h) : h \in Heads(EdgesOf(g))}
<1> DEFINE E == EdgesOf(g)
           live == From(E, 0, {})
           back == BackEdges(g, E, c.sets)
           latches(h) == {x[1] : x \in {y \in back : y[2] = h}}
           loop(h) == [header |-> h, latches |-> latches(h),
                       members |-> LoopMembers(g, E, c.sets, latches(h), h)]
<1>1. /\ DOMAIN E = DOMAIN g /\ IsGraph(E) /\ 0 \in DOMAIN E
      /\ \A b \in DOMAIN g : g[b].reachable <=> b \in live
  <2>1. \A b \in DOMAIN g : g[b].reachable <=> b \in live  BY DEF Drawn
  <2>2. DOMAIN E = DOMAIN g /\ IsGraph(E) /\ 0 \in DOMAIN E  BY DEF EdgesOf, Drawn
  <2> QED  BY <2>1, <2>2, Zenon
<1> HIDE DEF E
<1>2. live \subseteq DOMAIN g  BY <1>1, FromIsClosed
<1>3. \A n \in live : \A d \in DOMAIN g : d \in c.sets[n] <=> Dom(E, 0, d, n)
  <2>1. Computed(c, E, 0)  BY DEF E
  <2> QED  BY <1>1, <2>1 DEF Computed
<1>4. ASSUME NEW x
      PROVE  x \in back <=> /\ x \in (DOMAIN g) \X (DOMAIN g)
                            /\ x[1] \in Latching(E, x[2])
  <2>1. x \in back <=> x \in (DOMAIN g) \X (DOMAIN g) /\ g[x[1]].reachable
                        /\ x[2] \in E[x[1]] \cap c.sets[x[1]]
    BY Zenon DEF BackEdges
  <2> SUFFICES ASSUME x \in (DOMAIN g) \X (DOMAIN g)
      PROVE  g[x[1]].reachable /\ x[2] \in E[x[1]] \cap c.sets[x[1]] <=> x[1] \in Latching(E, x[2])
    BY <2>1, Zenon
  <2>2. x[1] \in DOMAIN g /\ x[2] \in DOMAIN g  OBVIOUS
  <2>3. g[x[1]].reachable <=> x[1] \in live  BY <1>1, <2>2, Zenon
  <2>4. x[1] \in live => (x[2] \in c.sets[x[1]] <=> Dom(E, 0, x[2], x[1]))  BY <1>3, <2>2
  <2>5. x[1] \in Latching(E, x[2]) <=> x[1] \in live /\ x[2] \in E[x[1]] /\ Dom(E, 0, x[2], x[1])
    BY DEF Latching
  <2> HIDE DEF live
  <2> QED  BY <2>3, <2>4, <2>5, Zenon
<1>5. ASSUME NEW h \in DOMAIN g PROVE latches(h) = Latching(E, h)
  <2>1. Latching(E, h) \subseteq DOMAIN g  BY <1>2 DEF Latching
  <2>2. ASSUME NEW l \in Latching(E, h) PROVE l \in latches(h)
    <3>1. <<l, h>> \in back  BY <1>4, <2>1, <2>2
    <3> HIDE DEF back
    <3> QED  BY <3>1
  <2>3. ASSUME NEW l \in latches(h) PROVE l \in Latching(E, h)
    <3>1. PICK x \in back : x[2] = h /\ l = x[1]  BY <2>3
    <3> HIDE DEF back
    <3> QED  BY <1>4, <3>1
  <2> QED  BY <2>2, <2>3
<1>6. ASSUME NEW h \in Heads(E) PROVE loop(h) = LoopAt(E, h)
  <2>1. h \in DOMAIN g /\ latches(h) = Latching(E, h)  BY <1>1, <1>5 DEF Heads
  <2> DEFINE W == {p \in DOMAIN g : g[p].reachable /\ h \in c.sets[p]}
  <2>2. W = {p \in live : Dom(E, 0, h, p)}
    <3>1. ASSUME NEW p PROVE p \in W <=> p \in live /\ Dom(E, 0, h, p)
      <4>1. p \in DOMAIN g => (g[p].reachable <=> p \in live)  BY <1>1, Zenon
      <4>2. p \in live => p \in DOMAIN g /\ (h \in c.sets[p] <=> Dom(E, 0, h, p))
        BY <1>2, <1>3, <2>1
      <4> HIDE DEF live
      <4> QED  BY <4>1, <4>2, Zenon
    <3> HIDE DEF W
    <3> QED  BY <3>1
  <2>3. LoopMembers(g, E, c.sets, Latching(E, h), h)
          = {h} \cup Flooded([b \in DOMAIN E |-> IF b = h /\ b \notin Latching(E, h) THEN {}
                                                 ELSE PredecessorsIn(E, b)], W, Latching(E, h))
    BY DEF LoopMembers
  <2> HIDE DEF W
  <2>4. LoopMembers(g, E, c.sets, Latching(E, h), h) = Body(E, h)
    BY <1>1, <2>2, <2>3, FloodsTheBody
  <2> HIDE DEF latches
  <2> QED  BY <2>1, <2>4 DEF LoopAt
<1>7. NaturalLoops(g, E, c.sets) = {loop(x[2]) : x \in back}  BY DEF NaturalLoops
<1>8. {x[2] : x \in back} = Heads(E)
  <2>1. ASSUME NEW x \in back PROVE x[2] \in Heads(E)  
    <3> HIDE DEF back
    <3> QED  BY <1>1, <1>4, <2>1 DEF Heads
  <2>2. ASSUME NEW h \in Heads(E) PROVE \E x \in back : h = x[2]
    <3>1. h \in DOMAIN g /\ Latching(E, h) # {}  BY <1>1 DEF Heads
    <3>2. PICK l \in Latching(E, h) : TRUE  BY <3>1
    <3>3. l \in DOMAIN g  BY <1>2, <3>2 DEF Latching
    <3>4. <<l, h>> \in back  BY <1>4, <3>1, <3>2, <3>3
    <3> HIDE DEF back
    <3> QED  BY <3>4
  <2> HIDE DEF back
  <2> QED  BY <2>1, <2>2
<1> HIDE DEF back, loop
<1>9. NaturalLoops(g, E, c.sets) = {loop(h) : h \in Heads(E)}  BY <1>7, <1>8
<1>10. NaturalLoops(g, E, c.sets) = {LoopAt(E, h) : h \in Heads(E)}  BY <1>6, <1>9
<1> QED  BY <1>10 DEF E

(* The heads of the other loops that have h.                               *)
Around(e, h) == {k \in Heads(e) : h \in Body(e, k) /\ k # h}

(* The parent that is chosen is the innermost of them.                     *)
LEMMA ParentIsInnermost ==
  ASSUME NEW e, IsGraph(e), NodesOf(e), 0 \in DOMAIN e, NEW h \in Heads(e),
         NEW loops, loops = {LoopAt(e, k) : k \in Heads(e)}, NEW p,
         p = ParentLoop(loops, LoopAt(e, h))
  PROVE  /\ Around(e, h) = {} => p = None
         /\ Around(e, h) # {} => p \in Around(e, h)
                                 /\ \A k \in Around(e, h) : Body(e, p) \subseteq Body(e, k)
<1> DEFINE inner == LoopAt(e, h)
           A == {l \in loops : inner.members \subseteq l.members /\ inner.members # l.members}
           Least(l) == \A m \in A :
              \/ Cardinality(l.members) < Cardinality(m.members)
              \/ Cardinality(l.members) = Cardinality(m.members) /\ l.header <= m.header
           q == CHOOSE l \in A : Least(l)
<1>1. \A k : LoopAt(e, k).header = k /\ LoopAt(e, k).members = Body(e, k)  BY DEF LoopAt
<1>2. \A k \in Heads(e) : k \in Around(e, h) <=> Body(e, h) \subseteq Body(e, k) /\ Body(e, h) # Body(e, k)
  <2> TAKE k \in Heads(e)
  <2>1. ASSUME k \in Around(e, h) PROVE Body(e, h) \subseteq Body(e, k) /\ Body(e, h) # Body(e, k)
    <3>1. Body(e, h) \subseteq Body(e, k) /\ k \notin Body(e, h)
      BY <2>1, LoopsAreInside DEF Around
    <3>2. k \in Body(e, k)  BY DEF Body
    <3> QED  BY <3>1, <3>2
  <2>2. ASSUME Body(e, h) \subseteq Body(e, k), Body(e, h) # Body(e, k) PROVE k \in Around(e, h)
    <3>1. h \in Body(e, h)  BY DEF Body
    <3> QED  BY <2>2, <3>1 DEF Around
  <2> QED  BY <2>1, <2>2
<1>3. A = {LoopAt(e, k) : k \in Around(e, h)}
  <2>1. Around(e, h) \subseteq Heads(e)  BY DEF Around
  <2>2. ASSUME NEW l PROVE l \in A <=> \E k \in Around(e, h) : l = LoopAt(e, k)
    BY <1>1, <1>2, <2>1
  <2> HIDE DEF A
  <2> QED  BY <2>2
<1>4. p = IF A = {} THEN None ELSE q.header  BY DEF ParentLoop
<1> HIDE DEF A, inner
<1>5. Around(e, h) = {} => p = None  BY <1>3, <1>4
<1>6. ASSUME Around(e, h) # {}
      PROVE  p \in Around(e, h) /\ \A k \in Around(e, h) : Body(e, p) \subseteq Body(e, k)
  <2> DEFINE size(k) == Cardinality(Body(e, k))
             Sizes == {size(k) : k \in Around(e, h)}
  <2>1. \A k \in Around(e, h) : k \in Heads(e) /\ IsFiniteSet(Body(e, k)) /\ size(k) \in Nat
    <3>1. ASSUME NEW k \in Around(e, h) PROVE IsFiniteSet(Body(e, k)) /\ size(k) \in Nat
      <4>1. k \in Heads(e)  BY DEF Around
      <4>2. Body(e, k) \subseteq DOMAIN e  BY <4>1, HeadDominatesBody, FromIsClosed
      <4> QED  BY <4>2, FS_Subset, FS_CardinalityType DEF IsGraph
    <3> QED  BY <3>1 DEF Around
  <2>2. Around(e, h) \subseteq Nat
    <3>1. DOMAIN e \subseteq Nat
      <4>1. Cardinality(DOMAIN e) \in Nat  BY FS_CardinalityType DEF IsGraph
      <4> QED  BY <4>1 DEF NodesOf
    <3> QED  BY <3>1 DEF Around, Heads
  <2>3. Sizes \in SUBSET Nat /\ Sizes # {}  BY <1>6, <2>1
  <2>4. PICK least \in Sizes : \A k \in Sizes : least <= k
    <3> HIDE DEF Sizes
    <3> QED  BY <2>3, LeastExists
  <2> DEFINE Firsts == {k \in Around(e, h) : size(k) = least}
  <2>5. Firsts \in SUBSET Nat /\ Firsts # {}  BY <2>2, <2>4
  <2>6. PICK first \in Firsts : \A k \in Firsts : first <= k
    <3> HIDE DEF Firsts
    <3> QED  BY <2>5, LeastExists
  <2>7. \A k \in Around(e, h) : size(first) < size(k) \/ (size(first) = size(k) /\ first <= k)
    <3> TAKE k \in Around(e, h)
    <3>1. size(first) = least /\ first \in Around(e, h)  BY <2>6
    <3>2. least <= size(k) /\ size(k) \in Nat /\ least \in Nat  BY <2>1, <2>3, <2>4
    <3>3. size(k) = least => first <= k  BY <2>6
    <3> HIDE DEF size
    <3> QED  BY <3>1, <3>2, <3>3
  <2>8. first \in Around(e, h) /\ LoopAt(e, first) \in A  BY <1>3, <2>6
  <2>9. Least(LoopAt(e, first))
    <3> SUFFICES ASSUME NEW m \in A
        PROVE \/ Cardinality(LoopAt(e, first).members) < Cardinality(m.members)
              \/ /\ Cardinality(LoopAt(e, first).members) = Cardinality(m.members)
                 /\ LoopAt(e, first).header <= m.header
      OBVIOUS
    <3>1. PICK k \in Around(e, h) : m = LoopAt(e, k)  BY <1>3
    <3> QED  BY <1>1, <2>7, <3>1
  <2> HIDE DEF Least
  <2>10. q \in A /\ Least(q)  BY <2>8, <2>9
  <2> HIDE DEF q
  <2>11. PICK b \in Around(e, h) : q = LoopAt(e, b)  BY <1>3, <2>10
  <2>12. p = b
    <3>1. A # {}  BY <2>10
    <3> QED  BY <1>1, <1>4, <2>11, <3>1
  <2>13. ASSUME NEW k \in Around(e, h) PROVE size(b) <= size(k)
    <3>1. LoopAt(e, k) \in A  BY <1>3
    <3>2. size(b) < size(k) \/ size(b) = size(k)
      BY <1>1, <2>10, <2>11, <3>1 DEF Least
    <3>3. size(b) \in Nat /\ size(k) \in Nat  BY <2>1
    <3> HIDE DEF size
    <3> QED  BY <3>2, <3>3
  <2>14. ASSUME NEW k \in Around(e, h) PROVE Body(e, b) \subseteq Body(e, k)
    <3>1. CASE k = b  BY <3>1
    <3>2. CASE k # b /\ b \in Body(e, k)  BY <2>1, <3>2, LoopsAreInside
    <3>3. CASE k # b /\ k \in Body(e, b)
      <4>1. Body(e, k) \subseteq Body(e, b) /\ b \notin Body(e, k) /\ b \in Body(e, b)
        BY <2>1, <3>3, LoopsAreInside DEF Body
      <4>2. size(k) <= size(b) /\ size(k) # size(b)  BY <2>1, <4>1, FS_Subset
      <4>3. size(b) <= size(k) /\ size(b) \in Nat /\ size(k) \in Nat  BY <2>1, <2>13
      <4> HIDE DEF size
      <4> QED  BY <4>2, <4>3
    <3>4. h \in Body(e, k) /\ h \in Body(e, b)  BY DEF Around
    <3>5. b \in Body(e, k) \/ k \in Body(e, b)  BY <2>1, <3>4, LoopsAreApart
    <3> QED  BY <3>1, <3>2, <3>3, <3>5
  <2> QED  BY <2>12, <2>14
<1> QED  BY <1>5, <1>6

(* What is reported of a graph's loops.                                    *)
ReportedLoop(e, loops, h) ==
  [header |-> h, latches |-> Latching(e, h), members |-> Body(e, h),
   parent |-> ParentLoop(loops, LoopAt(e, h))]

LEMMA ReportedLoops ==
  ASSUME AInv, Analyzed, NEW loops, loops = {LoopAt(Edges, h) : h \in Heads(Edges)}
  PROVE  analysis.natural_loops = {ReportedLoop(Edges, loops, h) : h \in Heads(Edges)}
<1>1. analysis = analyzeControlFlowGraph(cfg)  BY DEF AInv
<1>2. EdgeSets(Adjacency(cfg)) = EdgesOf(cfg)  BY EdgesAreThose
<1>3. Drawn(cfg) /\ Edges = EdgesOf(cfg) /\ Computed(Dominated, EdgesOf(cfg), 0)
  BY AnalysedGraph
<1>4. NaturalLoops(cfg, EdgesOf(cfg), Dominated.sets) = loops  BY <1>3, LoopsAreThose
<1> DEFINE reported(l) == [header |-> l.header, latches |-> l.latches, members |-> l.members,
                           parent |-> ParentLoop(loops, l)]
<1>5. analysis.natural_loops = {reported(l) : l \in loops}
  BY <1>1, <1>2, <1>4 DEF analyzeControlFlowGraph, Dominated
<1>6. \A h : reported(LoopAt(Edges, h)) = ReportedLoop(Edges, loops, h)
  BY DEF LoopAt, ReportedLoop
<1> HIDE DEF reported
<1>7. ASSUME NEW x
      PROVE  x \in analysis.natural_loops
               <=> x \in {ReportedLoop(Edges, loops, h) : h \in Heads(Edges)}
  <2>1. x \in analysis.natural_loops <=> \E l \in loops : x = reported(l)  BY <1>5
  <2>2. (\E l \in loops : x = reported(l)) <=> \E h \in Heads(Edges) : x = reported(LoopAt(Edges, h))
    OBVIOUS
  <2> QED  BY <1>6, <2>1, <2>2
<1> QED  BY <1>7, Zenon

(* graph_analysis.cpp:324-370.  Every loop reported is all that comes      *)
(* round to its header, is entered there only, and lies apart from or      *)
(* inside every other, its parent the innermost around, whatever the code  *)
(* unit.                                                                   *)
THEOREM LoopsExact == Spec => []LoopsAreNatural
<1>1. ASSUME AInv PROVE LoopsAreNatural
  <2> SUFFICES ASSUME Analyzed PROVE LoopsAreNatural
    BY DEF LoopsAreNatural, LoopsAreEnteredAtTheHeader, LoopsNest
  <2> DEFINE e == Edges
             loops == {LoopAt(e, h) : h \in Heads(e)}
             N == analysis.natural_loops
  <2>1. /\ Drawn(cfg) /\ e = EdgesOf(cfg) /\ Block = DOMAIN cfg /\ Live = From(EdgesOf(cfg), 0, {})
        /\ \A b, avoid : WalksFrom(b, avoid) = From(e, b, avoid)
    BY <1>1, AnalysedGraph
  <2>2. N = {ReportedLoop(e, loops, h) : h \in Heads(e)}  BY <1>1, ReportedLoops
  <2>3. \A h : /\ ReportedLoop(e, loops, h).header = h
               /\ ReportedLoop(e, loops, h).latches = Latching(e, h)
               /\ ReportedLoop(e, loops, h).members = Body(e, h)
               /\ ReportedLoop(e, loops, h).parent = ParentLoop(loops, LoopAt(e, h))
    BY DEF ReportedLoop
  <2> HIDE DEF e, loops, N
  <2>4. IsGraph(e) /\ NodesOf(e) /\ 0 \in DOMAIN e /\ Live = From(e, 0, {}) /\ DOMAIN e = Block
    BY <2>1 DEF Drawn, EdgesOf
  <2>5. \A d, n : Dominates(d, n) <=> Dom(e, 0, d, n)  BY <2>1 DEF Dominates, Dom
  <2>6. LoopsAreEnteredAtTheHeader
    <3> SUFFICES ASSUME NEW l \in N
        PROVE  /\ l.members = {l.header} \cup
                      {b \in Live : WalksFrom(b, {l.header}) \cap l.latches # {}}
               /\ l.latches = {b \in Live : l.header \in Edges[b] /\ Dominates(l.header, b)}
               /\ \A b \in Live \ l.members : Edges[b] \cap l.members \subseteq {l.header}
      BY DEF LoopsAreEnteredAtTheHeader, N
    <3>1. PICK h \in Heads(e) : l = ReportedLoop(e, loops, h)  BY <2>2
    <3>2. l.header = h /\ l.latches = Latching(e, h) /\ l.members = Body(e, h)  BY <2>3, <3>1
    <3>3. Body(e, h) = {h} \cup {b \in Live : WalksFrom(b, {h}) \cap Latching(e, h) # {}}
      BY <2>1, <2>4 DEF Body
    <3>4. Latching(e, h) = {b \in Live : h \in Edges[b] /\ Dominates(h, b)}
      BY <2>4, <2>5 DEF Latching, e
    <3>5. ASSUME NEW b \in Live \ Body(e, h), NEW k \in e[b], k \in Body(e, h), k # h PROVE FALSE
      <4>1. b # h /\ h \in Body(e, h) /\ b \in DOMAIN e  BY <2>4, <3>5, FromIsClosed DEF Body
      <4>2. k \in From(e, b, {h})  BY <2>4, <3>5, <4>1, FromIsClosed
      <4>3. From(e, k, {h}) \subseteq From(e, b, {h})  BY <2>4, <4>1, <4>2, FromGoesOn
      <4>4. From(e, k, {h}) \cap Latching(e, h) # {}  BY <3>5 DEF Body
      <4> QED  BY <2>4, <3>5, <4>3, <4>4 DEF Body
    <3>6. \A b \in Live \ Body(e, h) : Edges[b] \cap Body(e, h) \subseteq {h}
      <4> SUFFICES ASSUME NEW b \in Live \ Body(e, h), NEW k \in Edges[b] \cap Body(e, h)
          PROVE k = h
        OBVIOUS
      <4> QED  BY <3>5 DEF e
    <3> QED  BY <3>2, <3>3, <3>4, <3>6, Zenon
  <2>7. LoopsNest
    <3> SUFFICES ASSUME NEW l \in N
        PROVE  LET around == {m \in N : l.header \in m.members /\ m # l} IN
                 /\ \A m \in around : l.members \subseteq m.members
                 /\ IF around = {} THEN l.parent = None
                    ELSE \E p \in around : p.header = l.parent
                                           /\ \A m \in around : p.members \subseteq m.members
      BY DEF LoopsNest, N
    <3> DEFINE around == {m \in N : l.header \in m.members /\ m # l}
               loop(k) == ReportedLoop(e, loops, k)
    <3>1. PICK h \in Heads(e) : l = loop(h)  BY <2>2
    <3>2. \A k : loop(k).header = k /\ loop(k).members = Body(e, k)  BY <2>3
    <3>3. l.parent = ParentLoop(loops, LoopAt(e, h))  BY <2>3, <3>1
    <3> HIDE DEF loop
    <3>4. around = {loop(k) : k \in Around(e, h)}
      <4>1. \A k \in Heads(e) : loop(k) \in N  BY <2>2 DEF loop
      <4>2. \A m \in N : \E k \in Heads(e) : m = loop(k)  BY <2>2 DEF loop
      <4>3. \A k \in Heads(e) : loop(k) = l => k = h  BY <3>1, <3>2
      <4>4. ASSUME NEW m PROVE m \in around <=> \E k \in Around(e, h) : m = loop(k)
        BY <3>1, <3>2, <4>1, <4>2, <4>3 DEF Around
      <4> HIDE DEF around
      <4> QED  BY <4>4
    <3> HIDE DEF around
    <3>5. \A m \in around : l.members \subseteq m.members
      <4> SUFFICES ASSUME NEW k \in Around(e, h) PROVE Body(e, h) \subseteq Body(e, k)
        BY <3>1, <3>2, <3>4
      <4> QED  BY <2>4, LoopsAreInside DEF Around
    <3>6. /\ Around(e, h) = {} => l.parent = None
          /\ Around(e, h) # {} => l.parent \in Around(e, h)
               /\ \A k \in Around(e, h) : Body(e, l.parent) \subseteq Body(e, k)
      BY <2>4, <3>3, ParentIsInnermost DEF loops
    <3>7. around = {} => l.parent = None  BY <3>4, <3>6
    <3>8. ASSUME around # {}
          PROVE  \E p \in around : p.header = l.parent
                                   /\ \A m \in around : p.members \subseteq m.members
      <4>1. l.parent \in Around(e, h)  BY <3>4, <3>6, <3>8
      <4>2. loop(l.parent) \in around /\ loop(l.parent).header = l.parent  BY <3>2, <3>4, <4>1
      <4>3. \A m \in around : loop(l.parent).members \subseteq m.members
        BY <3>2, <3>4, <3>6, <4>1
      <4> QED  BY <4>2, <4>3
    <3> QED  BY <3>5, <3>7, <3>8 DEF around
  <2> QED  BY <2>6, <2>7 DEF LoopsAreNatural
<1> QED  BY <1>1, AnalysisInvariance, PTL
-----------------------------------------------------------------------------
IsAdjacency(adj) ==
  IsFiniteSet(DOMAIN adj) /\ \A n \in DOMAIN adj : adj[n] \in Seq(DOMAIN adj)

FramesOn(adj) == [node : DOMAIN adj, successor : Nat]

WalksOf(adj) ==
  [seen : SUBSET DOMAIN adj, stack : Seq(FramesOn(adj)), order : Seq(DOMAIN adj)]

(* The three things a turn can do with the frame on top.                   *)
Passed(adj, w, t) ==
  LET n == Len(w.stack)
      s == adj[w.stack[n].node][w.stack[n].successor + 1]
  IN  /\ n > 0 /\ w.stack[n].successor < Len(adj[w.stack[n].node]) /\ s \in w.seen
      /\ t.seen = w.seen /\ t.order = w.order /\ Len(t.stack) = n
      /\ \A a \in 1 .. n - 1 : t.stack[a] = w.stack[a]
      /\ t.stack[n] = [node |-> w.stack[n].node, successor |-> w.stack[n].successor + 1]

Entered(adj, w, t) ==
  LET n == Len(w.stack)
      s == adj[w.stack[n].node][w.stack[n].successor + 1]
  IN  /\ n > 0 /\ w.stack[n].successor < Len(adj[w.stack[n].node]) /\ s \notin w.seen
      /\ t.seen = w.seen \cup {s} /\ t.order = w.order /\ Len(t.stack) = n + 1
      /\ \A a \in 1 .. n - 1 : t.stack[a] = w.stack[a]
      /\ t.stack[n] = [node |-> w.stack[n].node, successor |-> w.stack[n].successor + 1]
      /\ t.stack[n + 1] = [node |-> s, successor |-> 0]

Left(adj, w, t) ==
  LET n == Len(w.stack)
  IN  /\ n > 0 /\ w.stack[n].successor >= Len(adj[w.stack[n].node])
      /\ t.seen = w.seen /\ t.order = Append(w.order, w.stack[n].node) /\ Len(t.stack) = n - 1
      /\ \A a \in 1 .. n - 1 : t.stack[a] = w.stack[a]

LEMMA TurnIsOneOfThree ==
  ASSUME NEW adj, IsAdjacency(adj), NEW w \in WalksOf(adj), NEW t, t = Turn(adj, w)
  PROVE  /\ t \in WalksOf(adj)
         /\ w.stack = << >> => t = w
         /\ w.stack # << >> => Passed(adj, w, t) \/ Entered(adj, w, t) \/ Left(adj, w, t)
<1> DEFINE n == Len(w.stack)
           top == w.stack[n]
           under == SubSeq(w.stack, 1, n - 1)
           F == FramesOn(adj)
<1>1. w.seen \subseteq DOMAIN adj /\ w.stack \in Seq(F) /\ w.order \in Seq(DOMAIN adj)
      /\ w = [seen |-> w.seen, stack |-> w.stack, order |-> w.order]
  BY DEF WalksOf
<1>2. CASE w.stack = << >>
  <2>1. t = w  BY <1>2 DEF Turn
  <2> QED  BY <1>2, <2>1
<1>3. CASE w.stack # << >>
  <2>1. n \in Nat /\ n > 0 /\ top \in F
    <3> HIDE DEF F
    <3> QED  BY <1>1, <1>3
  <2>2. top.node \in DOMAIN adj /\ top.successor \in Nat /\ adj[top.node] \in Seq(DOMAIN adj)
        /\ top = [node |-> top.node, successor |-> top.successor]
    BY <2>1 DEF FramesOn, IsAdjacency
  <2>3. under \in Seq(F) /\ Len(under) = n - 1 /\ \A a \in 1 .. n - 1 : under[a] = w.stack[a]
    <3>1. 1 \in Int /\ n - 1 \in Int /\ \A a \in 1 .. n - 1 : w.stack[a] \in F
      <4> HIDE DEF F
      <4> QED  BY <1>1, <2>1
    <3> HIDE DEF n, F
    <3>2. /\ under \in Seq(F) /\ Len(under) = IF 1 <= n - 1 THEN n - 1 - 1 + 1 ELSE 0
          /\ \A a \in 1 .. n - 1 - 1 + 1 : under[a] = w.stack[1 + a - 1]
      BY <3>1, SubSeqProperties
    <3>3. n - 1 - 1 + 1 = n - 1 /\ \A a \in 1 .. n - 1 : 1 + a - 1 = a  BY <2>1
    <3> HIDE DEF under
    <3> QED  BY <2>1, <3>2, <3>3
  <2>4. Front(w.stack) = under /\ Last(w.stack) = top  BY DEF Front, Last
  <2> HIDE DEF under, top, F
  <2>5. CASE top.successor < Len(adj[top.node])
    <3> DEFINE s == adj[top.node][top.successor + 1]
               next == [node |-> top.node, successor |-> top.successor + 1]
               tried == Append(under, next)
    <3>1. s \in DOMAIN adj  BY <2>2, <2>5
    <3>2. next \in F  BY <2>2 DEF F, FramesOn
    <3>3. [top EXCEPT !.successor = @ + 1] = next  BY <2>2
    <3> HIDE DEF next
    <3>4. /\ tried \in Seq(F) /\ Len(tried) = n /\ tried[n] = next
          /\ \A a \in 1 .. n - 1 : tried[a] = w.stack[a]
      BY <2>1, <2>3, <3>2
    <3>5. t = IF s \in w.seen THEN [w EXCEPT !.stack = tried]
              ELSE [w EXCEPT !.seen = @ \cup {s},
                             !.stack = Append(tried, [node |-> s, successor |-> 0])]
      BY <1>3, <2>4, <2>5, <3>3 DEF Turn, Tried
    <3> HIDE DEF s, tried
    <3>6. CASE s \in w.seen
      <4>1. t = [seen |-> w.seen, stack |-> tried, order |-> w.order]  BY <1>1, <3>5, <3>6
      <4>2. t \in WalksOf(adj)  BY <1>1, <3>4, <4>1 DEF WalksOf, F
      <4>3. t.seen = w.seen /\ t.order = w.order /\ t.stack = tried  BY <4>1
      <4>4. Passed(adj, w, t)  BY <2>1, <2>5, <3>4, <3>6, <4>3 DEF Passed, s, top, next
      <4> QED  BY <1>3, <4>2, <4>4
    <3>7. CASE s \notin w.seen
      <4> DEFINE fresh == [node |-> s, successor |-> 0]
                 deeper == Append(tried, fresh)
      <4>1. fresh \in F  BY <3>1 DEF F, FramesOn
      <4>2. t = [seen |-> w.seen \cup {s}, stack |-> deeper, order |-> w.order]
        BY <1>1, <3>5, <3>7
      <4> HIDE DEF fresh
      <4>3. /\ deeper \in Seq(F) /\ Len(deeper) = n + 1 /\ deeper[n + 1] = fresh /\ deeper[n] = next
            /\ \A a \in 1 .. n - 1 : deeper[a] = w.stack[a]
        BY <2>1, <3>4, <4>1
      <4> HIDE DEF deeper
      <4>4. t \in WalksOf(adj)  BY <1>1, <3>1, <4>2, <4>3 DEF WalksOf, F
      <4>5. t.seen = w.seen \cup {s} /\ t.order = w.order /\ t.stack = deeper  BY <4>2
      <4>6. Entered(adj, w, t)
        BY <2>1, <2>5, <3>7, <4>3, <4>5 DEF Entered, s, top, next, fresh
      <4> QED  BY <1>3, <4>4, <4>6
    <3> QED  BY <3>6, <3>7
  <2>6. CASE ~(top.successor < Len(adj[top.node]))
    <3>1. t = [w EXCEPT !.stack = under, !.order = Append(@, top.node)]
      BY <1>3, <2>4, <2>6 DEF Turn
    <3>2. t = [seen |-> w.seen, stack |-> under, order |-> Append(w.order, top.node)]
      BY <1>1, <3>1
    <3>3. t \in WalksOf(adj)  BY <1>1, <2>2, <2>3, <3>2 DEF WalksOf, F
    <3>4. t.seen = w.seen /\ t.order = Append(w.order, top.node) /\ t.stack = under  BY <3>2
    <3>5. top.successor >= Len(adj[top.node])  
      <4>1. Len(adj[top.node]) \in Nat  BY <2>2
      <4> QED  BY <2>2, <2>6, <4>1
    <3>6. Left(adj, w, t)  BY <2>1, <2>3, <3>4, <3>5 DEF Left, top
    <3> QED  BY <1>3, <3>3, <3>6
  <2> QED  BY <2>5, <2>6
<1> QED  BY <1>2, <1>3

(* What every turn keeps.  A node that was seen is on the stack or in the  *)
(* order, once.                                                            *)
SeenOnce(w) ==
  /\ w.seen = {w.order[i] : i \in 1 .. Len(w.order)}
                \cup {w.stack[a].node : a \in 1 .. Len(w.stack)}
  /\ \A a, b \in 1 .. Len(w.stack) : w.stack[a].node = w.stack[b].node => a = b
  /\ \A i, j \in 1 .. Len(w.order) : w.order[i] = w.order[j] => i = j
  /\ \A a \in 1 .. Len(w.stack) : \A i \in 1 .. Len(w.order) : w.stack[a].node # w.order[i]

(* Successors that were tried have been seen, which all are of a node in   *)
(* the order.                                                              *)
TriedAreSeen(adj, w) ==
  /\ \A a \in 1 .. Len(w.stack) :
       /\ w.stack[a].successor <= Len(adj[w.stack[a].node])
       /\ \A i \in 1 .. w.stack[a].successor : adj[w.stack[a].node][i] \in w.seen
  /\ \A i \in 1 .. Len(w.order) : EdgeSets(adj)[w.order[i]] \subseteq w.seen

(* The stack is a walk from its root r, which comes to each node of it     *)
(* past none but those below.                                              *)
StackIsAWalk(e, r, w) ==
  /\ \A b \in 1 .. Len(w.stack) : \A a \in 1 .. b :
       w.stack[b].node \in From(e, w.stack[a].node, {})
  /\ \A a \in 1 .. Len(w.stack) : \A x :
       (\A b \in 1 .. a : w.stack[b].node # x) => w.stack[a].node \in From(e, r, {x})

(* Edges from the nodes up to a place in the order lead to such nodes, or  *)
(* to one that was on the stack below the node there: it leads to that     *)
(* node, and a walk comes to it without.                                   *)
FinishedBelow(e, order) ==
  \A j \in 1 .. Len(order) : \A i \in 1 .. j : \A z \in e[order[i]] :
    \/ \E m \in 1 .. j : order[m] = z
    \/ /\ order[j] \in From(e, z, {})
       /\ order[j] \in From(e, 0, {}) => z \in From(e, 0, {order[j]})

Sound(adj, r, w) ==
  /\ w \in WalksOf(adj) /\ SeenOnce(w) /\ TriedAreSeen(adj, w)
  /\ StackIsAWalk(EdgeSets(adj), r, w) /\ FinishedBelow(EdgeSets(adj), w.order)
  /\ r # 0 => From(EdgeSets(adj), 0, {}) \subseteq {w.order[i] : i \in 1 .. Len(w.order)}

LEMMA EdgeSetsIsGraph ==
  ASSUME NEW adj, IsAdjacency(adj)
  PROVE  /\ IsGraph(EdgeSets(adj)) /\ DOMAIN EdgeSets(adj) = DOMAIN adj
         /\ \A n \in DOMAIN adj : EdgeSets(adj)[n] = {adj[n][i] : i \in 1 .. Len(adj[n])}
<1>1. DOMAIN EdgeSets(adj) = DOMAIN adj  BY DEF EdgeSets
<1>2. ASSUME NEW n \in DOMAIN adj
      PROVE  /\ EdgeSets(adj)[n] = {adj[n][i] : i \in 1 .. Len(adj[n])}
             /\ EdgeSets(adj)[n] \subseteq DOMAIN adj
  <2>1. adj[n] \in Seq(DOMAIN adj)  BY DEF IsAdjacency
  <2>2. EdgeSets(adj)[n] = {adj[n][i] : i \in DOMAIN adj[n]}  BY DEF EdgeSets, ToSet
  <2> QED  BY <2>1, <2>2
<1> QED  BY <1>1, <1>2 DEF IsGraph, IsAdjacency

LEMMA WalkTypes ==
  ASSUME NEW adj, NEW w \in WalksOf(adj)
  PROVE  /\ w.seen \subseteq DOMAIN adj /\ Len(w.stack) \in Nat /\ Len(w.order) \in Nat
         /\ w.order \in Seq(DOMAIN adj)
         /\ \A a \in 1 .. Len(w.stack) :
              w.stack[a].node \in DOMAIN adj /\ w.stack[a].successor \in Nat
         /\ \A i \in 1 .. Len(w.order) : w.order[i] \in DOMAIN adj
<1>1. w.seen \subseteq DOMAIN adj /\ w.stack \in Seq(FramesOn(adj)) /\ w.order \in Seq(DOMAIN adj)
  BY DEF WalksOf
<1>2. \A a \in 1 .. Len(w.stack) : w.stack[a] \in FramesOn(adj)
  <2> DEFINE F == FramesOn(adj)
  <2> HIDE DEF F
  <2>1. w.stack \in Seq(F)  BY <1>1 DEF F
  <2>2. \A a \in 1 .. Len(w.stack) : w.stack[a] \in F  BY <2>1
  <2> QED  BY <2>2 DEF F
<1>3. Len(w.stack) \in Nat  BY <1>1
<1> QED  BY <1>1, <1>2, <1>3 DEF FramesOn

LEMMA PassedIsSound ==
  ASSUME NEW adj, IsAdjacency(adj), NEW r \in DOMAIN adj, NEW w, Sound(adj, r, w),
         NEW t \in WalksOf(adj), Passed(adj, w, t)
  PROVE  Sound(adj, r, t)
<1> DEFINE n == Len(w.stack)
           e == EdgeSets(adj)
<1>1. n \in Nat /\ n > 0 /\ Len(t.stack) = n /\ t.seen = w.seen /\ t.order = w.order
  BY WalkTypes DEF Passed, Sound
<1>2. \A a \in 1 .. n : /\ t.stack[a].node = w.stack[a].node
                        /\ a # n => t.stack[a].successor = w.stack[a].successor
  BY <1>1 DEF Passed
<1>3. SeenOnce(t)
  <2>1. {t.stack[a].node : a \in 1 .. Len(t.stack)} = {w.stack[a].node : a \in 1 .. n}
    BY <1>1, <1>2
  <2>2. SeenOnce(w)  BY DEF Sound
  <2> QED  BY <1>1, <1>2, <2>1, <2>2 DEF SeenOnce
<1>4. TriedAreSeen(adj, t)
  <2> SUFFICES ASSUME NEW a \in 1 .. n
               PROVE  /\ t.stack[a].successor <= Len(adj[t.stack[a].node])
                      /\ \A i \in 1 .. t.stack[a].successor : adj[t.stack[a].node][i] \in t.seen
    BY <1>1 DEF TriedAreSeen, Sound
  <2>1. /\ w.stack[a].successor <= Len(adj[w.stack[a].node]) /\ w.stack[a].successor \in Nat
        /\ \A i \in 1 .. w.stack[a].successor : adj[w.stack[a].node][i] \in w.seen
        /\ Len(adj[w.stack[a].node]) \in Nat
    <3>1. w.stack[a].node \in DOMAIN adj /\ w.stack[a].successor \in Nat  BY WalkTypes DEF Sound
    <3>2. adj[w.stack[a].node] \in Seq(DOMAIN adj)  BY <3>1 DEF IsAdjacency
    <3> QED  BY <3>1, <3>2 DEF TriedAreSeen, Sound
  <2>2. CASE a # n  BY <1>1, <1>2, <2>1, <2>2
  <2>3. CASE a = n
    <3> DEFINE m == w.stack[n].node
               k == w.stack[n].successor
    <3>1. t.stack[n].successor = k + 1 /\ k < Len(adj[m]) /\ adj[m][k + 1] \in w.seen
      BY DEF Passed
    <3>2. /\ k \in Nat /\ Len(adj[m]) \in Nat /\ \A i \in 1 .. k : adj[m][i] \in w.seen
          /\ t.stack[a].node = m /\ t.stack[a].successor = k + 1
      BY <1>2, <2>1, <2>3, <3>1
    <3> HIDE DEF m, k
    <3>3. \A i \in 1 .. k + 1 : i \in 1 .. k \/ i = k + 1  BY <3>2
    <3> QED  BY <1>1, <3>1, <3>2, <3>3
  <2> QED  BY <2>2, <2>3
<1>5. StackIsAWalk(e, r, t)
  <2>1. StackIsAWalk(e, r, w)  BY DEF Sound
  <2>2. ASSUME NEW b \in 1 .. n, NEW a \in 1 .. b
        PROVE  t.stack[b].node \in From(e, t.stack[a].node, {})
    BY <1>1, <1>2, <2>1 DEF StackIsAWalk
  <2>3. ASSUME NEW a \in 1 .. n, NEW x, \A b \in 1 .. a : t.stack[b].node # x
        PROVE  t.stack[a].node \in From(e, r, {x})
    <3>1. \A b \in 1 .. a : b \in 1 .. n  BY <1>1, <2>3
    <3>2. \A b \in 1 .. a : w.stack[b].node # x  BY <1>2, <2>3, <3>1
    <3>3. w.stack[a].node \in From(e, r, {x})  BY <2>1, <2>3, <3>2 DEF StackIsAWalk
    <3> QED  BY <1>2, <2>3, <3>3
  <2> QED  BY <1>1, <2>2, <2>3 DEF StackIsAWalk
<1> QED  BY <1>1, <1>3, <1>4, <1>5 DEF Sound

LEMMA EnteredIsSound ==
  ASSUME NEW adj, IsAdjacency(adj), NEW r \in DOMAIN adj, NEW w, Sound(adj, r, w),
         NEW t \in WalksOf(adj), Entered(adj, w, t)
  PROVE  Sound(adj, r, t)
<1> DEFINE n == Len(w.stack)
           e == EdgeSets(adj)
           top == w.stack[n].node
           s == adj[top][w.stack[n].successor + 1]
<1>1. /\ n \in Nat /\ n > 0 /\ Len(t.stack) = n + 1 /\ t.seen = w.seen \cup {s}
      /\ t.order = w.order /\ s \notin w.seen
  BY WalkTypes DEF Entered, Sound
<1>2. /\ t.stack[n + 1].node = s /\ t.stack[n + 1].successor = 0
      /\ t.stack[n].successor = w.stack[n].successor + 1
      /\ \A a \in 1 .. n : /\ t.stack[a].node = w.stack[a].node
                           /\ a # n => t.stack[a].successor = w.stack[a].successor
  <2>1. /\ \A a \in 1 .. n - 1 : t.stack[a] = w.stack[a]
        /\ t.stack[n] = [node |-> w.stack[n].node, successor |-> w.stack[n].successor + 1]
        /\ t.stack[n + 1] = [node |-> s, successor |-> 0]
    BY DEF Entered
  <2>2. \A a \in 1 .. n : a = n \/ a \in 1 .. n - 1  BY <1>1
  <2>3. t.stack[n + 1].node = s /\ t.stack[n + 1].successor = 0  BY <2>1
  <2>4. t.stack[n].node = w.stack[n].node /\ t.stack[n].successor = w.stack[n].successor + 1
    BY <2>1
  <2> HIDE DEF n, s
  <2> QED  BY <2>1, <2>2, <2>3, <2>4
<1>3. /\ IsGraph(e) /\ DOMAIN e = DOMAIN adj
      /\ \A m \in DOMAIN adj : e[m] = {adj[m][i] : i \in 1 .. Len(adj[m])}
  BY EdgeSetsIsGraph
<1>4. top \in DOMAIN adj /\ s \in e[top] /\ s \in DOMAIN adj
  <2>1. n \in 1 .. n  BY <1>1
  <2>2. top \in DOMAIN adj /\ w.stack[n].successor \in Nat  BY <2>1, WalkTypes DEF Sound
  <2>3. Len(adj[top]) \in Nat /\ w.stack[n].successor < Len(adj[top])
    <3>1. adj[top] \in Seq(DOMAIN adj)  BY <2>2 DEF IsAdjacency
    <3> QED  BY <3>1 DEF Entered
  <2>4. w.stack[n].successor + 1 \in 1 .. Len(adj[top])  BY <2>2, <2>3
  <2>5. s \in e[top]  BY <1>3, <2>2, <2>4
  <2> QED  BY <1>3, <2>2, <2>5 DEF IsGraph
<1>5. SeenOnce(w) /\ TriedAreSeen(adj, w) /\ StackIsAWalk(e, r, w)  BY DEF Sound
<1> HIDE DEF s, top, e
<1>6. 1 .. n + 1 = (1 .. n) \cup {n + 1} /\ n \in 1 .. n  BY <1>1
<1>7. SeenOnce(t)
  <2>1. {t.stack[a].node : a \in 1 .. n + 1} = {w.stack[a].node : a \in 1 .. n} \cup {s}
    BY <1>2, <1>6
  <2>2. t.seen = {t.order[i] : i \in 1 .. Len(t.order)}
                   \cup {t.stack[a].node : a \in 1 .. Len(t.stack)}
    <3>1. w.seen = {w.order[i] : i \in 1 .. Len(w.order)} \cup {w.stack[a].node : a \in 1 .. n}
      BY <1>5 DEF SeenOnce
    <3>2. t.seen = {w.order[i] : i \in 1 .. Len(w.order)}
                     \cup {t.stack[a].node : a \in 1 .. n + 1}
      BY <1>1, <2>1, <3>1
    <3>3. t.order = w.order /\ Len(t.stack) = n + 1  BY <1>1
    <3> HIDE DEF n
    <3> QED  BY <3>2, <3>3
  <2>3. /\ \A a \in 1 .. n : w.stack[a].node # s
        /\ \A i \in 1 .. Len(w.order) : w.order[i] # s
    BY <1>1, <1>5 DEF SeenOnce
  <2>4. ASSUME NEW a \in 1 .. n + 1, NEW b \in 1 .. n + 1, t.stack[a].node = t.stack[b].node
        PROVE  a = b
    <3>1. \A k \in 1 .. n : t.stack[k].node = w.stack[k].node /\ w.stack[k].node # s
      BY <1>2, <2>3
    <3>2. CASE a = n + 1 \/ b = n + 1  BY <1>2, <1>6, <2>4, <3>1, <3>2
    <3>3. CASE a \in 1 .. n /\ b \in 1 .. n  BY <1>5, <2>4, <3>1, <3>3 DEF SeenOnce
    <3> QED  BY <1>6, <3>2, <3>3
  <2>5. \A a \in 1 .. n + 1 : \A i \in 1 .. Len(w.order) : t.stack[a].node # w.order[i]
    BY <1>1, <1>2, <1>5, <1>6, <2>3 DEF SeenOnce
  <2> QED  BY <1>1, <1>5, <2>2, <2>4, <2>5 DEF SeenOnce
<1>8. TriedAreSeen(adj, t)
  <2>1. ASSUME NEW a \in 1 .. n + 1
        PROVE  /\ t.stack[a].successor <= Len(adj[t.stack[a].node])
               /\ \A i \in 1 .. t.stack[a].successor : adj[t.stack[a].node][i] \in t.seen
    <3>1. CASE a = n + 1
      <4>1. adj[s] \in Seq(DOMAIN adj)  BY <1>4 DEF IsAdjacency
      <4> QED  BY <1>2, <3>1, <4>1
    <3>2. CASE a # n + 1
      <4>0. a \in 1 .. n  BY <1>6, <3>2
      <4>1. /\ w.stack[a].successor <= Len(adj[w.stack[a].node]) /\ w.stack[a].successor \in Nat
            /\ \A i \in 1 .. w.stack[a].successor : adj[w.stack[a].node][i] \in w.seen
            /\ Len(adj[w.stack[a].node]) \in Nat
        <5>1. w.stack[a].node \in DOMAIN adj /\ w.stack[a].successor \in Nat
          BY <4>0, WalkTypes DEF Sound
        <5>2. adj[w.stack[a].node] \in Seq(DOMAIN adj)  BY <5>1 DEF IsAdjacency
        <5> QED  BY <1>5, <4>0, <5>1, <5>2 DEF TriedAreSeen
      <4>2. CASE a # n  BY <1>1, <1>2, <4>0, <4>1, <4>2
      <4>3. CASE a = n
        <5> DEFINE k == w.stack[n].successor
        <5>1. k < Len(adj[top]) /\ adj[top][k + 1] = s /\ w.stack[n].node = top
          BY DEF Entered, s, top
        <5>2. /\ k \in Nat /\ Len(adj[top]) \in Nat /\ \A i \in 1 .. k : adj[top][i] \in w.seen
              /\ t.stack[a].node = top /\ t.stack[a].successor = k + 1
          BY <1>2, <4>0, <4>1, <4>3, <5>1
        <5> HIDE DEF k
        <5>3. \A i \in 1 .. k + 1 : i \in 1 .. k \/ i = k + 1  BY <5>2
        <5> QED  BY <1>1, <5>1, <5>2, <5>3
      <4> QED  BY <4>2, <4>3
    <3> QED  BY <3>1, <3>2
  <2>2. \A i \in 1 .. Len(t.order) : EdgeSets(adj)[t.order[i]] \subseteq t.seen
    BY <1>1, <1>5 DEF TriedAreSeen
  <2> QED  BY <1>1, <2>1, <2>2 DEF TriedAreSeen
<1>9. StackIsAWalk(e, r, t)
  <2>1. ASSUME NEW b \in 1 .. n + 1, NEW a \in 1 .. b
        PROVE  t.stack[b].node \in From(e, t.stack[a].node, {})
    <3>1. CASE b # n + 1
      <4>1. a \in 1 .. n /\ b \in 1 .. n  BY <1>1, <1>6, <3>1
      <4> QED  BY <1>2, <1>5, <4>1 DEF StackIsAWalk
    <3>2. CASE b = n + 1 /\ a = n + 1  BY <1>2, <1>3, <1>4, <3>2, FromIsClosed
    <3>3. CASE b = n + 1 /\ a # n + 1
      <4>1. a \in 1 .. n  BY <1>1, <3>3
      <4>2. w.stack[a].node \in DOMAIN e  BY <1>3, <4>1, WalkTypes DEF Sound
      <4>3. top \in From(e, w.stack[a].node, {})  BY <1>5, <1>6, <4>1 DEF StackIsAWalk, top
      <4>4. s \in From(e, w.stack[a].node, {})  BY <1>3, <1>4, <4>2, <4>3, FromIsClosed
      <4> QED  BY <1>2, <3>3, <4>1, <4>4
    <3> QED  BY <3>1, <3>2, <3>3
  <2>2. ASSUME NEW a \in 1 .. n + 1, NEW x, \A b \in 1 .. a : t.stack[b].node # x
        PROVE  t.stack[a].node \in From(e, r, {x})
    <3>1. CASE a # n + 1
      <4>1. a \in 1 .. n /\ \A b \in 1 .. a : b \in 1 .. n  BY <1>1, <1>6, <3>1
      <4> QED  BY <1>2, <1>5, <2>2, <4>1 DEF StackIsAWalk
    <3>2. CASE a = n + 1
      <4>1. x # s /\ \A b \in 1 .. n : w.stack[b].node # x  BY <1>1, <1>2, <1>6, <2>2, <3>2
      <4>2. top \in From(e, r, {x})  BY <1>5, <1>6, <4>1 DEF StackIsAWalk, top
      <4>3. s \in From(e, r, {x})  BY <1>3, <1>4, <4>1, <4>2, FromIsClosed
      <4> QED  BY <1>2, <3>2, <4>3
    <3> QED  BY <3>1, <3>2
  <2> QED  BY <1>1, <2>1, <2>2 DEF StackIsAWalk
<1> QED  BY <1>1, <1>7, <1>8, <1>9 DEF Sound, e

LEMMA LeftIsSound ==
  ASSUME NEW adj, IsAdjacency(adj), NEW r \in DOMAIN adj, NEW w, Sound(adj, r, w),
         NEW t \in WalksOf(adj), Left(adj, w, t)
  PROVE  Sound(adj, r, t)
<1> DEFINE n == Len(w.stack)
           l == Len(w.order)
           e == EdgeSets(adj)
           top == w.stack[n].node
           live == From(e, 0, {})
<1>0. /\ w \in WalksOf(adj) /\ SeenOnce(w) /\ TriedAreSeen(adj, w) /\ StackIsAWalk(e, r, w)
      /\ FinishedBelow(e, w.order)
      /\ r # 0 => live \subseteq {w.order[i] : i \in 1 .. l}
  BY DEF Sound
<1>1. /\ n \in Nat /\ n > 0 /\ Len(t.stack) = n - 1 /\ t.seen = w.seen
      /\ \A a \in 1 .. n - 1 : t.stack[a] = w.stack[a]
      /\ t.order = Append(w.order, top)
  BY <1>0, WalkTypes DEF Left
<1>2. /\ 1 .. n = (1 .. n - 1) \cup {n} /\ n \in 1 .. n /\ n \notin 1 .. n - 1
      /\ \A a \in 1 .. n - 1 : \A b \in 1 .. a : b \in 1 .. n - 1
  BY <1>1
<1>3. /\ l \in Nat /\ w.order \in Seq(DOMAIN adj) /\ top \in DOMAIN adj
      /\ w.stack[n].successor \in Nat
  BY <1>0, <1>2, WalkTypes
<1> HIDE DEF top, e, n
<1>4. Len(t.order) = l + 1 /\ t.order[l + 1] = top /\ \A i \in 1 .. l : t.order[i] = w.order[i]
  BY <1>1, <1>3
<1>5. 1 .. l + 1 = (1 .. l) \cup {l + 1} /\ l + 1 \notin 1 .. l  BY <1>3
<1> HIDE DEF l
<1>6. {t.order[i] : i \in 1 .. l + 1} = {w.order[i] : i \in 1 .. l} \cup {top}
  BY <1>4, <1>5
<1>7. {w.stack[a].node : a \in 1 .. n} = {t.stack[a].node : a \in 1 .. n - 1} \cup {top}
  BY <1>1, <1>2 DEF top
<1>8. /\ \A a \in 1 .. n - 1 : w.stack[a].node # top
      /\ \A i \in 1 .. l : w.order[i] # top
  BY <1>0, <1>2 DEF SeenOnce, top, n, l
<1>9. SeenOnce(t)
  <2>1. t.seen = {t.order[i] : i \in 1 .. Len(t.order)}
                   \cup {t.stack[a].node : a \in 1 .. Len(t.stack)}
    BY <1>0, <1>1, <1>4, <1>6, <1>7 DEF SeenOnce, n, l
  <2>2. \A a, b \in 1 .. n - 1 : t.stack[a].node = t.stack[b].node => a = b
    BY <1>0, <1>1, <1>2 DEF SeenOnce, n
  <2>3. ASSUME NEW i \in 1 .. l + 1, NEW j \in 1 .. l + 1, t.order[i] = t.order[j] PROVE i = j
    <3>1. CASE i = l + 1 \/ j = l + 1  BY <1>4, <1>5, <1>8, <2>3, <3>1
    <3>2. CASE i \in 1 .. l /\ j \in 1 .. l  BY <1>0, <1>4, <2>3, <3>2 DEF SeenOnce, l
    <3> QED  BY <1>5, <3>1, <3>2
  <2>4. ASSUME NEW a \in 1 .. n - 1, NEW i \in 1 .. l + 1 PROVE t.stack[a].node # t.order[i]
    <3>1. CASE i = l + 1  BY <1>1, <1>4, <1>8, <3>1
    <3>2. CASE i \in 1 .. l
      <4>1. a \in 1 .. n /\ t.stack[a] = w.stack[a] /\ t.order[i] = w.order[i]
        BY <1>1, <1>2, <1>4, <3>2
      <4>2. w.stack[a].node # w.order[i]  BY <1>0, <3>2, <4>1 DEF SeenOnce, n, l
      <4> QED  BY <4>1, <4>2
    <3> QED  BY <1>5, <3>1, <3>2
  <2> QED  BY <1>1, <1>4, <2>1, <2>2, <2>3, <2>4 DEF SeenOnce
<1>10. TriedAreSeen(adj, t)
  <2>1. ASSUME NEW a \in 1 .. n - 1
        PROVE  /\ t.stack[a].successor <= Len(adj[t.stack[a].node])
               /\ \A i \in 1 .. t.stack[a].successor : adj[t.stack[a].node][i] \in t.seen
    BY <1>0, <1>1, <1>2 DEF TriedAreSeen, n
  <2>2. e[top] \subseteq w.seen
    <3> DEFINE k == w.stack[n].successor
    <3>1. e[top] = {adj[top][i] : i \in 1 .. Len(adj[top])} /\ Len(adj[top]) \in Nat
      <4>1. adj[top] \in Seq(DOMAIN adj)  BY <1>3 DEF IsAdjacency
      <4> QED  BY <1>3, <4>1, EdgeSetsIsGraph DEF e
    <3>2. k <= Len(adj[top]) /\ \A i \in 1 .. k : adj[top][i] \in w.seen
      BY <1>0, <1>2 DEF TriedAreSeen, n, top
    <3>3. k >= Len(adj[top])  BY DEF Left, top, n
    <3>4. k = Len(adj[top])  BY <1>3, <3>1, <3>2, <3>3
    <3> HIDE DEF k
    <3> QED  BY <3>1, <3>2, <3>4
  <2>3. ASSUME NEW i \in 1 .. l + 1 PROVE e[t.order[i]] \subseteq t.seen
    <3>1. CASE i = l + 1  BY <1>1, <1>4, <2>2, <3>1
    <3>2. CASE i \in 1 .. l  BY <1>0, <1>1, <1>4, <3>2 DEF TriedAreSeen, l, e
    <3> QED  BY <1>5, <3>1, <3>2
  <2> QED  BY <1>1, <1>4, <2>1, <2>3 DEF TriedAreSeen, e
<1>11. StackIsAWalk(e, r, t)
  <2>1. ASSUME NEW b \in 1 .. n - 1, NEW a \in 1 .. b
        PROVE  t.stack[b].node \in From(e, t.stack[a].node, {})
    BY <1>0, <1>1, <1>2 DEF StackIsAWalk, n
  <2>2. ASSUME NEW a \in 1 .. n - 1, NEW x, \A b \in 1 .. a : t.stack[b].node # x
        PROVE  t.stack[a].node \in From(e, r, {x})
    <3>1. \A b \in 1 .. a : w.stack[b].node # x  BY <1>1, <1>2, <2>2
    <3>2. w.stack[a].node \in From(e, r, {x})  BY <1>0, <1>2, <3>1 DEF StackIsAWalk, n
    <3> QED  BY <1>1, <3>2
  <2> QED  BY <1>1, <2>1, <2>2 DEF StackIsAWalk
<1>12. FinishedBelow(e, t.order)
  <2> SUFFICES ASSUME NEW j \in 1 .. l + 1, NEW i \in 1 .. j, NEW z \in e[t.order[i]]
               PROVE  \/ \E m \in 1 .. j : t.order[m] = z
                      \/ /\ t.order[j] \in From(e, z, {})
                         /\ t.order[j] \in live => z \in From(e, 0, {t.order[j]})
    BY <1>4 DEF FinishedBelow
  <2>1. CASE j \in 1 .. l
    <3>1. \A m \in 1 .. j : m \in 1 .. l /\ t.order[m] = w.order[m]  BY <1>3, <1>4, <2>1
    <3>2. \/ \E m \in 1 .. j : w.order[m] = z
          \/ /\ w.order[j] \in From(e, z, {})
             /\ w.order[j] \in live => z \in From(e, 0, {w.order[j]})
      BY <1>0, <2>1, <3>1 DEF FinishedBelow, l
    <3> QED  BY <1>4, <2>1, <3>1, <3>2
  <2>2. CASE j = l + 1
    <3>1. z \in t.seen  BY <1>4, <1>10, <2>2 DEF TriedAreSeen, e
    <3>2. CASE z \in {t.order[m] : m \in 1 .. l + 1}  BY <2>2, <3>2
    <3>3. CASE z \in {t.stack[a].node : a \in 1 .. n - 1}
      <4>1. PICK a \in 1 .. n - 1 : z = w.stack[a].node  BY <1>1, <3>3
      <4>2. a \in 1 .. n /\ n \in 1 .. n  BY <1>2, <4>1
      <4>3. top \in From(e, z, {})  BY <1>0, <4>1, <4>2 DEF StackIsAWalk, n, top
      <4>4. ASSUME top \in live PROVE z \in From(e, 0, {top})
        <5>1. r = 0  BY <1>0, <1>8, <4>4
        <5>2. \A b \in 1 .. a : w.stack[b].node # top  BY <1>2, <1>8, <4>1
        <5>3. w.stack[a].node \in From(e, r, {top})  BY <1>0, <4>2, <5>2 DEF StackIsAWalk, n
        <5> QED  BY <4>1, <5>1, <5>3
      <4> QED  BY <1>4, <2>2, <4>3, <4>4
    <3> QED  BY <1>1, <1>4, <1>9, <3>1, <3>2, <3>3 DEF SeenOnce
  <2> QED  BY <1>5, <2>1, <2>2
<1>13. r # 0 => live \subseteq {t.order[i] : i \in 1 .. Len(t.order)}  BY <1>0, <1>4, <1>6 DEF l
<1> QED  BY <1>9, <1>10, <1>11, <1>12, <1>13 DEF Sound, e

LEMMA TurnsAreSound ==
  ASSUME NEW adj, IsAdjacency(adj), NEW r \in DOMAIN adj, NEW w, Sound(adj, r, w)
  PROVE  Sound(adj, r, Turn(adj, w))
<1> DEFINE t == Turn(adj, w)
<1>1. w \in WalksOf(adj)  BY DEF Sound
<1>2. /\ t \in WalksOf(adj)
      /\ w.stack = << >> => t = w
      /\ w.stack # << >> => Passed(adj, w, t) \/ Entered(adj, w, t) \/ Left(adj, w, t)
  BY <1>1, TurnIsOneOfThree
<1> HIDE DEF t
<1>3. ASSUME w.stack = << >> PROVE Sound(adj, r, t)  BY <1>2, <1>3
<1>4. ASSUME Passed(adj, w, t) PROVE Sound(adj, r, t)  BY <1>2, <1>4, PassedIsSound
<1>5. ASSUME Entered(adj, w, t) PROVE Sound(adj, r, t)  BY <1>2, <1>5, EnteredIsSound
<1>6. ASSUME Left(adj, w, t) PROVE Sound(adj, r, t)  BY <1>2, <1>6, LeftIsSound
<1>7. Sound(adj, r, t)  BY <1>2, <1>3, <1>4, <1>5, <1>6
<1> QED  BY <1>7 DEF t

-----------------------------------------------------------------------------
LEMMA ImageIsFinite ==
  ASSUME NEW S, IsFiniteSet(S), NEW f, DOMAIN f = S
  PROVE  IsFiniteSet({f[x] : x \in S})
<1> DEFINE T == {f[x] : x \in S}
           h == [x \in S |-> f[x]]
<1>1. h \in Surjection(S, T)  BY DEF Surjection
<1> HIDE DEF T, h
<1>2. IsFiniteSet(T)  BY <1>1, FS_Surjection
<1> QED  BY <1>2 DEF T

LEMMA FramesAreFinite ==
  ASSUME NEW adj, IsAdjacency(adj)
  PROVE  IsFiniteSet(Frames(adj)) /\ Cardinality(Frames(adj)) \in Nat
<1> DEFINE row == [n \in DOMAIN adj |->
                     {[node |-> n, successor |-> i] : i \in 0 .. Len(adj[n])}]
<1>1. ASSUME NEW n \in DOMAIN adj PROVE IsFiniteSet(row[n])
  <2> DEFINE S == 0 .. Len(adj[n])
             f == [i \in S |-> [node |-> n, successor |-> i]]
  <2>1. Len(adj[n]) \in Int
    <3>1. adj[n] \in Seq(DOMAIN adj)  BY DEF IsAdjacency
    <3> QED  BY <3>1
  <2>2. IsFiniteSet(S)  BY <2>1, FS_Interval
  <2>3. IsFiniteSet({f[i] : i \in S})
    <3> HIDE DEF S
    <3>1. DOMAIN f = S  OBVIOUS
    <3> HIDE DEF f
    <3> QED  BY <2>2, <3>1, ImageIsFinite
  <2>4. row[n] = {f[i] : i \in S}  OBVIOUS
  <2> QED  BY <2>3, <2>4
<1>2. IsFiniteSet({row[n] : n \in DOMAIN adj})
  <2>1. DOMAIN row = DOMAIN adj /\ IsFiniteSet(DOMAIN adj)  BY DEF IsAdjacency
  <2> HIDE DEF row
  <2> QED  BY <2>1, ImageIsFinite
<1>3. \A T \in {row[n] : n \in DOMAIN adj} : IsFiniteSet(T)
  <2> HIDE DEF row
  <2> QED  BY <1>1
<1>4. Frames(adj) = UNION {row[n] : n \in DOMAIN adj}  BY DEF Frames
<1>5. IsFiniteSet(Frames(adj))
  <2> HIDE DEF row
  <2> QED  BY <1>2, <1>3, <1>4, FS_UNION
<1> QED  BY <1>5, FS_CardinalityType

(* The frames that came up already: they do not come up again.             *)
Behind(adj, w) ==
  {f \in Frames(adj) :
     \/ \E i \in 1 .. Len(w.order) : w.order[i] = f.node
     \/ \E a \in 1 .. Len(w.stack) :
          w.stack[a].node = f.node /\ f.successor < w.stack[a].successor}

LEMMA TopComesUp ==
  ASSUME NEW adj, IsAdjacency(adj), NEW r \in DOMAIN adj, NEW w, Sound(adj, r, w),
         w.stack # << >>
  PROVE  /\ w.stack[Len(w.stack)] \in Frames(adj) \ Behind(adj, w)
         /\ Behind(adj, w) \subseteq Behind(adj, Turn(adj, w))
         /\ w.stack[Len(w.stack)] \in Behind(adj, Turn(adj, w))
<1> DEFINE n == Len(w.stack)
           top == w.stack[n]
           k == top.successor
           l == Len(w.order)
           t == Turn(adj, w)
<1>0. w \in WalksOf(adj) /\ SeenOnce(w) /\ TriedAreSeen(adj, w)  BY DEF Sound
<1>1. n \in Nat /\ n > 0 /\ n \in 1 .. n /\ l \in Nat
  <2>1. w.stack \in Seq(FramesOn(adj))  BY <1>0 DEF WalksOf
  <2> DEFINE F == FramesOn(adj)
  <2> HIDE DEF F
  <2>2. w.stack \in Seq(F)  BY <2>1 DEF F
  <2>3. n \in Nat /\ n > 0  BY <2>2
  <2> QED  BY <1>0, <2>3, WalkTypes
<1> HIDE DEF n, l
<1>2. /\ top.node \in DOMAIN adj /\ k \in Nat /\ k <= Len(adj[top.node])
      /\ Len(adj[top.node]) \in Nat /\ top = [node |-> top.node, successor |-> k]
  <2>1. top.node \in DOMAIN adj /\ k \in Nat  BY <1>0, <1>1, WalkTypes DEF n
  <2>2. adj[top.node] \in Seq(DOMAIN adj)  BY <2>1 DEF IsAdjacency
  <2>3. k <= Len(adj[top.node])  BY <1>0, <1>1 DEF TriedAreSeen, n
  <2>4. top \in FramesOn(adj)
    <3>1. w.stack \in Seq(FramesOn(adj))  BY <1>0 DEF WalksOf
    <3> DEFINE F == FramesOn(adj)
    <3> HIDE DEF F
    <3>2. w.stack \in Seq(F)  BY <3>1 DEF F
    <3>3. top \in F  BY <1>1, <3>2 DEF n
    <3> QED  BY <3>3 DEF F
  <2> QED  BY <2>1, <2>2, <2>3, <2>4 DEF FramesOn
<1>3. top \in Frames(adj)
  <2>1. k \in 0 .. Len(adj[top.node])  BY <1>2
  <2> HIDE DEF top, k
  <2> QED  BY <1>2, <2>1 DEF Frames
<1>4. top \notin Behind(adj, w)
  <2>1. \A i \in 1 .. l : w.order[i] # top.node  BY <1>0, <1>1 DEF SeenOnce, n, l
  <2>2. \A a \in 1 .. n : w.stack[a].node = top.node => a = n
    BY <1>0, <1>1 DEF SeenOnce, n
  <2>3. ~ (k < k)  BY <1>2
  <2> QED  BY <2>1, <2>2, <2>3 DEF Behind, n, l
<1>5. Passed(adj, w, t) \/ Entered(adj, w, t) \/ Left(adj, w, t)  BY <1>0, TurnIsOneOfThree
<1> HIDE DEF t
<1>6. ASSUME NEW f \in Frames(adj), f \in Behind(adj, w) PROVE f.successor \in Nat
  BY <1>6 DEF Frames
<1>7. ASSUME Passed(adj, w, t) \/ Entered(adj, w, t)
      PROVE  Behind(adj, w) \subseteq Behind(adj, t) /\ top \in Behind(adj, t)
  <2>1. /\ t.order = w.order /\ Len(t.stack) \in Nat /\ Len(t.stack) >= n
        /\ \A a \in 1 .. n - 1 : t.stack[a] = w.stack[a]
        /\ t.stack[n] = [node |-> top.node, successor |-> k + 1]
    BY <1>1, <1>7 DEF Passed, Entered, n
  <2>2. 1 .. n = (1 .. n - 1) \cup {n} /\ 1 .. n \subseteq 1 .. Len(t.stack)  BY <1>1, <2>1
  <2>3. top \in Behind(adj, t)
    <3>1. t.stack[n].node = top.node /\ t.stack[n].successor = k + 1 /\ k < k + 1
      BY <1>2, <2>1
    <3> QED  BY <1>1, <1>3, <2>2, <3>1 DEF Behind
  <2>4. ASSUME NEW f \in Behind(adj, w) PROVE f \in Behind(adj, t)
    <3>1. f \in Frames(adj) /\ f.successor \in Nat  BY <1>6 DEF Behind
    <3>2. CASE \E i \in 1 .. Len(w.order) : w.order[i] = f.node
      BY <2>1, <3>1, <3>2 DEF Behind
    <3>3. ASSUME NEW a \in 1 .. n, w.stack[a].node = f.node, f.successor < w.stack[a].successor
          PROVE  f \in Behind(adj, t)
      <4>1. CASE a = n
        <5>1. t.stack[a].node = f.node /\ f.successor < t.stack[a].successor
          <6>1. f.successor < k  BY <3>3, <4>1
          <6>2. t.stack[a].node = top.node /\ t.stack[a].successor = k + 1  BY <2>1, <4>1
          <6> QED  BY <1>2, <3>1, <3>3, <4>1, <6>1, <6>2
        <5> QED  BY <2>2, <3>1, <5>1 DEF Behind
      <4>2. CASE a # n
        <5>1. t.stack[a] = w.stack[a] /\ a \in 1 .. Len(t.stack)  BY <2>1, <2>2, <4>2
        <5> QED  BY <3>1, <3>3, <5>1 DEF Behind
      <4> QED  BY <4>1, <4>2
    <3> QED  BY <3>2, <3>3 DEF Behind, n
  <2> QED  BY <2>3, <2>4
<1>8. ASSUME Left(adj, w, t)
      PROVE  Behind(adj, w) \subseteq Behind(adj, t) /\ top \in Behind(adj, t)
  <2>1. /\ t.order = Append(w.order, top.node) /\ Len(t.stack) = n - 1
        /\ \A a \in 1 .. n - 1 : t.stack[a] = w.stack[a]
    BY <1>8 DEF Left, n
  <2>2. /\ Len(t.order) = l + 1 /\ t.order[l + 1] = top.node
        /\ \A i \in 1 .. l : t.order[i] = w.order[i]
    <3>1. w.order \in Seq(DOMAIN adj)  BY <1>0, WalkTypes
    <3> HIDE DEF top
    <3> QED  BY <1>2, <2>1, <3>1 DEF l
  <2>3. l + 1 \in 1 .. Len(t.order) /\ 1 .. l \subseteq 1 .. Len(t.order)  BY <1>1, <2>2
  <2>4. \A f \in Frames(adj) : f.node = top.node => f \in Behind(adj, t)
    BY <2>2, <2>3 DEF Behind
  <2>5. ASSUME NEW f \in Behind(adj, w) PROVE f \in Behind(adj, t)
    <3>1. f \in Frames(adj)  BY DEF Behind
    <3>2. CASE \E i \in 1 .. l : w.order[i] = f.node
      <4>1. \E i \in 1 .. Len(t.order) : t.order[i] = f.node  BY <2>2, <2>3, <3>2
      <4> QED  BY <3>1, <4>1 DEF Behind
    <3>3. ASSUME NEW a \in 1 .. n, w.stack[a].node = f.node, f.successor < w.stack[a].successor
          PROVE  f \in Behind(adj, t)
      <4>1. CASE a = n  BY <2>4, <3>1, <3>3, <4>1
      <4>2. CASE a # n
        <5>1. a \in 1 .. n - 1  BY <1>1, <4>2
        <5>2. t.stack[a] = w.stack[a] /\ a \in 1 .. Len(t.stack)  BY <2>1, <5>1
        <5> QED  BY <3>1, <3>3, <5>2 DEF Behind
      <4> QED  BY <4>1, <4>2
    <3> QED  BY <3>2, <3>3 DEF Behind, n, l
  <2> QED  BY <1>3, <2>4, <2>5
<1>9. Behind(adj, w) \subseteq Behind(adj, t) /\ top \in Behind(adj, t)  BY <1>5, <1>7, <1>8
<1> QED  BY <1>3, <1>4, <1>9 DEF t, n

(* The walk from a root before its first turn.                             *)
StartAt(walk, root) ==
  [walk EXCEPT !.seen = @ \cup {root}, !.stack = << [node |-> root, successor |-> 0] >>]

Turns(adj, start) ==
  CHOOSE v : v = [k \in Nat |-> IF k = 0 THEN start ELSE Turn(adj, v[k - 1])]

LEMMA WalkUnfolds ==
  ASSUME NEW adj, IsAdjacency(adj), NEW walk, NEW root, StartAt(walk, root) \in WalksOf(adj),
         root \notin walk.seen
  PROVE  /\ Turns(adj, StartAt(walk, root))[0] = StartAt(walk, root)
         /\ \A k \in Nat : Turns(adj, StartAt(walk, root))[k + 1]
                             = Turn(adj, Turns(adj, StartAt(walk, root))[k])
         /\ WalkFrom(adj, walk, root) = Turns(adj, StartAt(walk, root))[Cardinality(Frames(adj))]
<1> DEFINE S == WalksOf(adj)
           start == StartAt(walk, root)
           step == [w \in S |-> Turn(adj, w)]
           Eq(v) == v = [k \in Nat |-> IF k = 0 THEN start ELSE Turn(adj, v[k - 1])]
           v == Turns(adj, start)
<1>1. step \in [S -> S]
  <2>1. \A w \in S : Turn(adj, w) \in S  BY TurnIsOneOfThree
  <2> QED  BY <2>1
<1>2. PICK f : Iterates(f, S, step, start)
  <2> HIDE DEF S, step, start
  <2> QED  BY <1>1, IterationExists DEF S, start
<1>3. f \in [Nat -> S] /\ f[0] = start /\ \A k \in Nat : f[k + 1] = Turn(adj, f[k])
  <2>1. f \in [Nat -> S] /\ f[0] = start /\ \A k \in Nat : f[k + 1] = step[f[k]]
    BY <1>2 DEF Iterates
  <2> HIDE DEF S
  <2> QED  BY <2>1
<1> HIDE DEF step
<1>4. Eq(f)
  <2>1. ASSUME NEW k \in Nat
        PROVE  f[k] = IF k = 0 THEN start ELSE Turn(adj, f[k - 1])
    <3>1. CASE k = 0  BY <1>3, <3>1
    <3>2. CASE k # 0
      <4>1. k - 1 \in Nat /\ k - 1 + 1 = k  BY <3>2
      <4> QED  BY <1>3, <3>2, <4>1
    <3> QED  BY <3>1, <3>2
  <2> HIDE DEF S, start
  <2> QED  BY <1>3, <2>1
<1>5. Eq(v)
  <2>1. v = CHOOSE w : Eq(w)  BY DEF Turns
  <2> HIDE DEF Eq, v
  <2> QED  BY <1>4, <2>1
<1>6. WalkFrom(adj, walk, root) = v[Cardinality(Frames(adj))]
  BY Zenon DEF WalkFrom, Iterate, Turns, StartAt
<1>7. v[0] = start /\ \A k \in Nat : v[k + 1] = Turn(adj, v[k])
  <2> HIDE DEF v, start
  <2>1. v[0] = start  BY <1>5
  <2>2. ASSUME NEW k \in Nat PROVE v[k + 1] = Turn(adj, v[k])
    <3>1. k + 1 \in Nat /\ k + 1 # 0 /\ k + 1 - 1 = k  OBVIOUS
    <3>2. \A m \in Nat : m # 0 => v[m] = Turn(adj, v[m - 1])  BY <1>5
    <3> QED  BY <3>1, <3>2
  <2> QED  BY <2>1, <2>2
<1> QED  BY <1>6, <1>7

(* No frame comes up twice, so that as many turns as there are frames end  *)
(* the walk.                                                               *)
LEMMA WalkEnds ==
  ASSUME NEW adj, IsAdjacency(adj), NEW r \in DOMAIN adj, NEW v, Sound(adj, r, v[0]),
         \A k \in Nat : v[k + 1] = Turn(adj, v[k])
  PROVE  /\ Sound(adj, r, v[Cardinality(Frames(adj))])
         /\ v[Cardinality(Frames(adj))].stack = << >>
         /\ v[0].seen \subseteq v[Cardinality(Frames(adj))].seen
<1> DEFINE M == Cardinality(Frames(adj))
           T == {k \in Nat : /\ Sound(adj, r, v[k]) /\ v[0].seen \subseteq v[k].seen
                             /\ v[k].stack # << >> => Cardinality(Behind(adj, v[k])) >= k}
<1>0. IsFiniteSet(Frames(adj)) /\ M \in Nat  BY FramesAreFinite
<1>1. ASSUME NEW w
      PROVE  /\ Behind(adj, w) \in SUBSET Frames(adj) /\ IsFiniteSet(Behind(adj, w))
             /\ Cardinality(Behind(adj, w)) \in Nat
  <2>1. Behind(adj, w) \in SUBSET Frames(adj)  BY DEF Behind
  <2>2. IsFiniteSet(Behind(adj, w))  BY <1>0, <2>1, FS_Subset
  <2> QED  BY <2>1, <2>2, FS_CardinalityType
<1>2. 0 \in T  BY <1>1
<1>3. ASSUME NEW k \in Nat, k \in T PROVE k + 1 \in T
  <2> DEFINE w == v[k]
             t == Turn(adj, w)
  <2>1. Sound(adj, r, w) /\ w \in WalksOf(adj)  BY <1>3 DEF Sound
  <2>2. v[k + 1] = t /\ Sound(adj, r, t)  BY <2>1, TurnsAreSound
  <2>3. /\ w.stack = << >> => t = w
        /\ w.stack # << >> => Passed(adj, w, t) \/ Entered(adj, w, t) \/ Left(adj, w, t)
    BY <2>1, TurnIsOneOfThree
  <2> HIDE DEF t, w
  <2>4. w.seen \subseteq t.seen  BY <2>3 DEF Passed, Entered, Left
  <2>5. ASSUME t.stack # << >> PROVE Cardinality(Behind(adj, t)) >= k + 1
    <3>1. w.stack # << >>  BY <2>3, <2>5
    <3> DEFINE A == Behind(adj, w)
               B == Behind(adj, t)
    <3>2. A \subseteq B /\ A # B  BY <2>1, <3>1, TopComesUp DEF t
    <3>3. /\ IsFiniteSet(B) /\ Cardinality(B) \in Nat /\ Cardinality(A) \in Nat  BY <1>1
    <3>4. Cardinality(A) >= k  BY <1>3, <3>1 DEF w
    <3> HIDE DEF A, B
    <3>5. Cardinality(A) <= Cardinality(B) /\ Cardinality(A) # Cardinality(B)
      BY <3>2, <3>3, FS_Subset
    <3>6. Cardinality(B) >= k + 1  BY <3>3, <3>4, <3>5
    <3> QED  BY <3>6 DEF B
  <2>6. v[0].seen \subseteq t.seen  BY <1>3, <2>4 DEF w
  <2> QED  BY <2>2, <2>5, <2>6
<1> HIDE DEF T, M
<1>4. M \in T  BY <1>0, <1>2, <1>3, NatClosed
<1>5. v[M].stack = << >>
  <2> SUFFICES ASSUME v[M].stack # << >> PROVE FALSE  OBVIOUS
  <2> DEFINE B == Behind(adj, v[M])
  <2>1. Sound(adj, r, v[M]) /\ Cardinality(B) >= M  BY <1>4 DEF T
  <2>2. v[M].stack[Len(v[M].stack)] \in Frames(adj) \ B  BY <2>1, TopComesUp
  <2>3. B \in SUBSET Frames(adj) /\ Cardinality(B) \in Nat  BY <1>1
  <2> HIDE DEF B
  <2>4. Cardinality(B) <= M /\ (M = Cardinality(B) => Frames(adj) = B)
    BY <1>0, <2>3, FS_Subset DEF M
  <2>5. Frames(adj) = B  BY <1>0, <2>1, <2>3, <2>4
  <2> QED  BY <2>2, <2>5
<1> QED  BY <1>4, <1>5 DEF T, M

(* Between walks the stack is empty, and all that was seen is in the order.*)
Idle(adj, k, w) ==
  /\ w \in WalksOf(adj) /\ w.stack = << >> /\ SeenOnce(w) /\ TriedAreSeen(adj, w)
  /\ FinishedBelow(EdgeSets(adj), w.order) /\ 0 .. k - 1 \subseteq w.seen

LEMMA IdleIsListed ==
  ASSUME NEW adj, IsAdjacency(adj), NEW k, NEW w, Idle(adj, k, w)
  PROVE  /\ w.seen = {w.order[i] : i \in 1 .. Len(w.order)}
         /\ \A m \in w.seen : EdgeSets(adj)[m] \subseteq w.seen
<1>1. Len(w.stack) = 0 /\ 1 .. 0 = {}  BY DEF Idle
<1>2. w.seen = {w.order[i] : i \in 1 .. Len(w.order)}
  BY <1>1 DEF Idle, SeenOnce
<1> QED  BY <1>2 DEF Idle, TriedAreSeen

LEMMA StartIsSound ==
  ASSUME NEW adj, IsAdjacency(adj), NEW k \in DOMAIN adj, k \in Nat, NEW w, Idle(adj, k, w),
         k \notin w.seen
  PROVE  Sound(adj, k, StartAt(w, k))
<1> DEFINE e == EdgeSets(adj)
           top == [node |-> k, successor |-> 0]
           t == StartAt(w, k)
<1>1. w \in WalksOf(adj) /\ w = [seen |-> w.seen, stack |-> w.stack, order |-> w.order]
  BY DEF Idle, WalksOf
<1>2. t = [seen |-> w.seen \cup {k}, stack |-> <<top>>, order |-> w.order]
  <2>1. PICK A, B, C : w = [seen |-> A, stack |-> B, order |-> C]  BY <1>1
  <2> DEFINE first == <<top>>
  <2>2. t = [w EXCEPT !.seen = @ \cup {k}, !.stack = first]  BY DEF StartAt
  <2> HIDE DEF first, t
  <2>3. t = [seen |-> A \cup {k}, stack |-> first, order |-> C]  BY <2>1, <2>2
  <2> QED  BY <2>1, <2>3 DEF first
<1>3. t \in WalksOf(adj)
  <2>1. top \in FramesOn(adj)  BY DEF FramesOn
  <2> HIDE DEF top
  <2>2. <<top>> \in Seq(FramesOn(adj))  BY <2>1
  <2> QED  BY <1>1, <1>2, <2>2 DEF WalksOf
<1>4. t.seen = w.seen \cup {k} /\ t.stack = <<top>> /\ t.order = w.order  BY <1>2
<1> HIDE DEF t
<1>5. Len(t.stack) = 1 /\ t.stack[1].node = k /\ t.stack[1].successor = 0 /\ 1 .. 1 = {1}
  BY <1>4
<1>6. /\ w.seen = {w.order[i] : i \in 1 .. Len(w.order)}
      /\ \A m \in w.seen : e[m] \subseteq w.seen
  BY IdleIsListed
<1>7. SeenOnce(t)
  <2>1. {t.stack[a].node : a \in 1 .. 1} = {k}  BY <1>5
  <2>2. \A i \in 1 .. Len(w.order) : w.order[i] # k  BY <1>6
  <2> QED  BY <1>4, <1>5, <1>6, <2>1, <2>2 DEF Idle, SeenOnce
<1>8. TriedAreSeen(adj, t)
  <2>1. Len(adj[k]) \in Nat
    <3>1. adj[k] \in Seq(DOMAIN adj)  BY DEF IsAdjacency
    <3> QED  BY <3>1
  <2>2. 1 .. 0 = {}  OBVIOUS
  <2>3. \A a \in 1 .. 1 : /\ t.stack[a].successor <= Len(adj[t.stack[a].node])
                          /\ \A i \in 1 .. t.stack[a].successor : adj[t.stack[a].node][i] \in t.seen
    BY <1>5, <2>1, <2>2
  <2> QED  BY <1>4, <1>5, <2>3 DEF Idle, TriedAreSeen
<1>9. IsGraph(e) /\ DOMAIN e = DOMAIN adj  BY EdgeSetsIsGraph
<1> HIDE DEF e
<1>10. StackIsAWalk(e, k, t)
  <2>1. k \in From(e, k, {})  BY <1>9, FromIsClosed
  <2>2. \A x : k # x => k \in From(e, k, {x})  BY <1>9, FromIsClosed
  <2> QED  BY <1>5, <2>1, <2>2 DEF StackIsAWalk
<1>11. k # 0 => From(e, 0, {}) \subseteq {t.order[i] : i \in 1 .. Len(t.order)}
  <2> SUFFICES ASSUME k # 0 PROVE From(e, 0, {}) \subseteq w.seen  BY <1>4, <1>6
  <2>1. 0 \in 0 .. k - 1  OBVIOUS
  <2>2. 0 \in w.seen /\ w.seen \subseteq DOMAIN adj  BY <2>1, <1>1 DEF Idle, WalksOf
  <2> DEFINE S == w.seen
  <2>3. 0 \in DOMAIN e /\ 0 \in S  BY <1>9, <2>2
  <2>4. \A m \in S : m \in DOMAIN e \ {} => \A z \in e[m] : z \notin {} => z \in S
    BY <1>6
  <2> HIDE DEF S
  <2>5. From(e, 0, {}) \subseteq S  BY <1>9, <2>3, <2>4, FromIsLeast
  <2> QED  BY <2>5 DEF S
<1> QED  BY <1>3, <1>4, <1>7, <1>8, <1>10, <1>11 DEF Idle, Sound, e, t

(* So a walk from the next root leaves off as the walks before did.        *)
LEMMA IdleGoesOn ==
  ASSUME NEW adj, IsAdjacency(adj), NEW k \in DOMAIN adj, k \in Nat, NEW w, Idle(adj, k, w)
  PROVE  Idle(adj, k + 1, WalkFrom(adj, w, k))
<1>1. 0 .. k + 1 - 1 = (0 .. k - 1) \cup {k}  OBVIOUS
<1>2. CASE k \in w.seen
  <2>1. WalkFrom(adj, w, k) = w  BY <1>2 DEF WalkFrom
  <2> QED  BY <1>1, <1>2, <2>1 DEF Idle
<1>3. CASE k \notin w.seen
  <2> DEFINE start == StartAt(w, k)
             v == Turns(adj, start)
             M == Cardinality(Frames(adj))
  <2>1. Sound(adj, k, start) /\ start \in WalksOf(adj)  BY <1>3, StartIsSound DEF Sound
  <2>2. v[0] = start /\ (\A i \in Nat : v[i + 1] = Turn(adj, v[i])) /\ WalkFrom(adj, w, k) = v[M]
    BY <1>3, <2>1, WalkUnfolds
  <2>3. start.seen = w.seen \cup {k}
    <3>1. w = [seen |-> w.seen, stack |-> w.stack, order |-> w.order]  BY DEF Idle, WalksOf
    <3> QED  BY <3>1 DEF StartAt
  <2> HIDE DEF v, start
  <2>4. Sound(adj, k, v[M]) /\ v[M].stack = << >> /\ start.seen \subseteq v[M].seen
    BY <2>1, <2>2, WalkEnds
  <2> DEFINE t == v[M]
  <2>5. Sound(adj, k, t) /\ t.stack = << >> /\ WalkFrom(adj, w, k) = t  BY <2>2, <2>4
  <2>6. 0 .. k + 1 - 1 \subseteq t.seen  BY <1>1, <2>3, <2>4 DEF Idle
  <2> HIDE DEF t
  <2> QED  BY <2>5, <2>6 DEF Idle, Sound
<1> QED  BY <1>2, <1>3

Unseen == [seen |-> {}, stack |-> << >>, order |-> << >>]

Walks(adj) ==
  CHOOSE v : v = [k \in 0 .. Cardinality(DOMAIN adj) |->
                    IF k = 0 THEN Unseen ELSE WalkFrom(adj, v[k - 1], k - 1)]

LEMMA UnseenIsIdle ==
  ASSUME NEW adj, IsAdjacency(adj)
  PROVE  Idle(adj, 0, Unseen)
<1>1. Unseen \in WalksOf(adj)  BY DEF Unseen, WalksOf
<1>2. Unseen.seen = {} /\ Unseen.stack = << >> /\ Unseen.order = << >>  BY DEF Unseen
<1>3. Len(Unseen.stack) = 0 /\ Len(Unseen.order) = 0 /\ 1 .. 0 = {} /\ 0 .. 0 - 1 = {}  BY <1>2
<1>4. SeenOnce(Unseen)  BY <1>2, <1>3 DEF SeenOnce
<1>5. TriedAreSeen(adj, Unseen)  BY <1>2, <1>3 DEF TriedAreSeen
<1>6. FinishedBelow(EdgeSets(adj), Unseen.order)  BY <1>3 DEF FinishedBelow
<1> QED  BY <1>1, <1>2, <1>3, <1>4, <1>5, <1>6 DEF Idle

(* The finish order is that of a walk which saw every node.                *)
LEMMA FinishUnfolds ==
  ASSUME NEW adj, IsAdjacency(adj), NodesOf(adj)
  PROVE  \E w : Idle(adj, Cardinality(DOMAIN adj), w) /\ finishOrder(adj) = w.order
<1> DEFINE S == WalksOf(adj)
           N == Cardinality(DOMAIN adj)
           step == [p \in S \X (0 .. N - 1) |->
                      IF Idle(adj, p[2], p[1]) THEN WalkFrom(adj, p[1], p[2]) ELSE p[1]]
           Eq(v) == v = [k \in 0 .. N |-> IF k = 0 THEN Unseen ELSE WalkFrom(adj, v[k - 1], k - 1)]
           v == Walks(adj)
<1>0. N \in Nat /\ DOMAIN adj = 0 .. N - 1  BY FS_CardinalityType DEF IsAdjacency, NodesOf
<1>1. step \in [S \X (0 .. N - 1) -> S] /\ Unseen \in S
  <2>1. ASSUME NEW p \in S \X (0 .. N - 1) PROVE step[p] \in S
    <3>1. p[1] \in S /\ p[2] \in 0 .. N - 1  BY <2>1
    <3>2. p[2] \in Nat /\ p[2] \in DOMAIN adj  BY <1>0, <3>1
    <3>3. Idle(adj, p[2], p[1]) => WalkFrom(adj, p[1], p[2]) \in S
      BY <3>2, IdleGoesOn DEF Idle
    <3> HIDE DEF S, N
    <3> QED  BY <3>1, <3>3
  <2>2. Unseen \in S  BY UnseenIsIdle DEF Idle
  <2> HIDE DEF S
  <2> QED  BY <2>1, <2>2
<1> HIDE DEF S, N
<1>2. PICK f : LoopsTo(f, N, S, step, Unseen)
  <2> HIDE DEF step
  <2> QED  BY <1>0, <1>1, LoopToExists
<1>3. f \in [0 .. N -> S] /\ f[0] = Unseen /\ \A k \in 0 .. N - 1 : f[k + 1] = step[<<f[k], k>>]
  BY <1>2 DEF LoopsTo
<1>4. \A k \in 0 .. N - 1 : Idle(adj, k, f[k]) => f[k + 1] = WalkFrom(adj, f[k], k)
  <2> TAKE k \in 0 .. N - 1
  <2>1. k \in 0 .. N  BY <1>0
  <2>2. <<f[k], k>> \in S \X (0 .. N - 1)  BY <1>3, <2>1
  <2> QED  BY <1>3, <2>2
<1> HIDE DEF step
<1>5. \A k \in 0 .. N : Idle(adj, k, f[k])
  <2> DEFINE T == {k \in 0 .. N : Idle(adj, k, f[k])}
  <2>1. 0 \in T  BY <1>0, <1>3, UnseenIsIdle
  <2>2. ASSUME NEW k \in 0 .. N - 1, k \in T PROVE k + 1 \in T
    <3>1. k \in Nat /\ k \in DOMAIN adj /\ k + 1 \in 0 .. N  BY <1>0
    <3>2. Idle(adj, k + 1, WalkFrom(adj, f[k], k))  BY <2>2, <3>1, IdleGoesOn
    <3> QED  BY <1>4, <2>2, <3>1, <3>2
  <2> HIDE DEF T
  <2>3. 0 .. N \subseteq T  BY <1>0, <2>1, <2>2, ClosedUpTo
  <2> QED  BY <2>3 DEF T
<1>6. Eq(f)
  <2>1. ASSUME NEW k \in 0 .. N
        PROVE  f[k] = IF k = 0 THEN Unseen ELSE WalkFrom(adj, f[k - 1], k - 1)
    <3>1. CASE k = 0  BY <1>3, <3>1
    <3>2. CASE k # 0
      <4>1. k - 1 \in 0 .. N - 1 /\ k - 1 \in 0 .. N /\ k - 1 + 1 = k  BY <1>0, <3>2
      <4> QED  BY <1>4, <1>5, <3>2, <4>1
    <3> QED  BY <3>1, <3>2
  <2> QED  BY <1>3, <2>1
<1>7. Eq(v)
  <2>1. v = CHOOSE w : Eq(w)  BY DEF Walks, N
  <2> HIDE DEF Eq, v
  <2> QED  BY <1>6, <2>1
<1>8. finishOrder(adj) = v[N].order
  BY Zenon DEF finishOrder, ForUpTo, Walks, Unseen, N
<1>9. v[N] = f[N]
  <2> DEFINE T == {k \in 0 .. N : v[k] = f[k]}
  <2> HIDE DEF v
  <2>0. \A k \in 0 .. N : v[k] = IF k = 0 THEN Unseen ELSE WalkFrom(adj, v[k - 1], k - 1)
    BY <1>7
  <2>1. 0 \in T  BY <1>0, <1>3, <2>0
  <2>2. ASSUME NEW k \in 0 .. N - 1, k \in T PROVE k + 1 \in T
    <3>1. k \in 0 .. N /\ k + 1 \in 0 .. N /\ k + 1 # 0 /\ k + 1 - 1 = k  BY <1>0
    <3>2. v[k + 1] = WalkFrom(adj, v[k + 1 - 1], k + 1 - 1)  BY <2>0, <3>1
    <3> QED  BY <1>4, <1>5, <2>2, <3>1, <3>2
  <2>3. N \in 0 .. N  BY <1>0
  <2> HIDE DEF T
  <2>4. N \in T  BY <1>0, <2>1, <2>2, <2>3, ClosedUpTo
  <2> QED  BY <2>4 DEF T
<1>10. N \in 0 .. N  BY <1>0
<1> QED  BY <1>5, <1>8, <1>9, <1>10 DEF N

(* What it is worth: every node is in it once, and no edge leaves what     *)
(* comes up to a place, except to where that place can be reached from.    *)
Finished(e, order) ==
  /\ order \in Seq(DOMAIN e) /\ DOMAIN order = 1 .. Len(order) /\ Len(order) \in Nat
  /\ DOMAIN e = {order[i] : i \in 1 .. Len(order)}
  /\ \A i, j \in 1 .. Len(order) : order[i] = order[j] => i = j
  /\ FinishedBelow(e, order)

LEMMA FinishOrderIsFinished ==
  ASSUME NEW adj, IsAdjacency(adj), NodesOf(adj)
  PROVE  Finished(EdgeSets(adj), finishOrder(adj))
<1> DEFINE N == Cardinality(DOMAIN adj)
<1>1. PICK w : Idle(adj, N, w) /\ finishOrder(adj) = w.order  BY FinishUnfolds
<1>2. w.seen = {w.order[i] : i \in 1 .. Len(w.order)}  BY <1>1, IdleIsListed
<1>3. DOMAIN EdgeSets(adj) = DOMAIN adj  BY EdgeSetsIsGraph
<1>4. w.order \in Seq(DOMAIN adj) /\ Len(w.order) \in Nat /\ w.seen \subseteq DOMAIN adj
  BY <1>1, WalkTypes DEF Idle
<1>5. DOMAIN w.order = 1 .. Len(w.order)  BY <1>4
<1>6. DOMAIN adj \subseteq w.seen  BY <1>1 DEF Idle, NodesOf
<1> DEFINE order == w.order
           e == EdgeSets(adj)
<1>7. \A i, j \in 1 .. Len(order) : order[i] = order[j] => i = j  BY <1>1 DEF Idle, SeenOnce
<1>8. FinishedBelow(e, order)  BY <1>1 DEF Idle
<1>9. order \in Seq(DOMAIN e) /\ DOMAIN order = 1 .. Len(order) /\ Len(order) \in Nat
  BY <1>3, <1>4, <1>5
<1>10. DOMAIN e = {order[i] : i \in 1 .. Len(order)}
  <2>1. DOMAIN e = w.seen  BY <1>3, <1>4, <1>6
  <2> QED  BY <1>2, <2>1
<1> HIDE DEF order, e
<1>11. Finished(e, order)  BY <1>7, <1>8, <1>9, <1>10 DEF Finished
<1> QED  BY <1>1, <1>11 DEF order, e

LEMMA SuccessorsAreAList ==
  ASSUME NEW c, Accepted(c), NEW b \in BlockIds(c)
  PROVE  \E n \in Nat : DOMAIN SuccessorsOf(c, b) = 1 .. n
<1> DEFINE last == BlockEnd(c, b) - 1
           s == SuccessorsOf(c, b)
<1>1. c[last].op \in Opcodes
  BY BlocksEndInTheCode, InstructionsAreNatural DEF Accepted, Unit
<1>2. \/ s = << >>
      \/ \E x : s = <<x>>
      \/ \E x, y : s = <<x, y>>
  <2>1. CASE c[last].op = "Branch"
    <3>1. s = << Edge(BlockOf(c, c[last].target), "Branch") >>  BY <2>1 DEF SuccessorsOf, last
    <3> QED  BY <3>1
  <2>2. CASE c[last].op = "BrTrue"
    <3>1. s = << Edge(BlockOf(c, c[last].target), "True"), Edge(BlockOf(c, last + 1), "False") >>
      BY <2>2 DEF SuccessorsOf, last
    <3> QED  BY <3>1
  <2>3. CASE c[last].op = "BrFalse"
    <3>1. s = << Edge(BlockOf(c, c[last].target), "False"), Edge(BlockOf(c, last + 1), "True") >>
      BY <2>3 DEF SuccessorsOf, last
    <3> QED  BY <3>1
  <2>4. CASE c[last].op \in {"Ret", "Abort"}
    <3>1. s = << >>  BY <2>4 DEF SuccessorsOf, last
    <3> QED  BY <3>1
  <2>5. CASE c[last].op = "Plain"
    <3>1. s = IF last + 1 \in DOMAIN c
              THEN << Edge(BlockOf(c, last + 1), "Fallthrough") >> ELSE << >>
      BY <2>5 DEF SuccessorsOf, last
    <3> HIDE DEF s, last
    <3> QED  BY <3>1
  <2> HIDE DEF s, last
  <2> QED  BY <1>1, <2>1, <2>2, <2>3, <2>4, <2>5 DEF Opcodes
<1> HIDE DEF s
<1>3. DOMAIN s = {} \/ DOMAIN s = {1} \/ DOMAIN s = {1, 2}  BY <1>2
<1>4. 1 .. 0 = {} /\ 1 .. 1 = {1} /\ 1 .. 2 = {1, 2}  OBVIOUS
<1>5. \E n \in Nat : DOMAIN s = 1 .. n  BY <1>3, <1>4
<1> QED  BY <1>5 DEF s

LEMMA AdjacencyIsLists ==
  ASSUME NEW c, Accepted(c), NEW g, g = buildControlFlowGraph(c)
  PROVE  /\ IsAdjacency(Adjacency(g)) /\ NodesOf(Adjacency(g))
         /\ Finished(EdgesOf(g), finishOrder(Adjacency(g)))
<1> DEFINE ids == BlockIds(c)
           adj == Adjacency(g)
<1>1. DOMAIN g = ids /\ \A b \in ids : g[b].successors = SuccessorsOf(c, b)
  BY DEF buildControlFlowGraph
<1>2. DOMAIN adj = ids /\ DOMAIN EdgesOf(g) = ids /\ EdgeSets(adj) = EdgesOf(g)
  BY <1>1, EdgesAreThose DEF EdgesOf
<1>3. Drawn(g)  BY BuiltIsDrawn
<1>4. IsFiniteSet(ids) /\ NodesOf(adj)
  BY <1>2, <1>3 DEF Drawn, IsGraph, NodesOf
<1>5. ASSUME NEW b \in ids PROVE adj[b] \in Seq(ids)
  <2>1. PICK n \in Nat : DOMAIN SuccessorsOf(c, b) = 1 .. n  BY SuccessorsAreAList
  <2>2. adj[b] = [i \in 1 .. n |-> g[b].successors[i].target]  BY <1>1, <2>1 DEF Adjacency
  <2>3. \A i \in 1 .. n : g[b].successors[i].target \in ids
    <3>1. Targets(SuccessorsOf(c, b)) \subseteq ids  BY EdgesStayInTheGraph
    <3> QED  BY <1>1, <2>1, <3>1 DEF Targets
  <2> HIDE DEF ids, adj
  <2> QED  BY <2>1, <2>2, <2>3
<1>6. IsAdjacency(adj)
  <2> HIDE DEF ids, adj
  <2> QED  BY <1>2, <1>4, <1>5 DEF IsAdjacency
<1>7. Finished(EdgesOf(g), finishOrder(adj))
  <2> HIDE DEF adj, ids
  <2> QED  BY <1>2, <1>4, <1>6, FinishOrderIsFinished
<1> QED  BY <1>4, <1>6, <1>7

(* What comes up to d's place, and what walks reach around d, is all that  *)
(* walks reach.                                                            *)
LEMMA DominatorsFinishLater ==
  ASSUME NEW e, IsGraph(e), 0 \in DOMAIN e, NEW order, Finished(e, order),
         NEW i \in 1 .. Len(order), NEW j \in 1 .. Len(order),
         order[i] \in From(e, 0, {}), order[j] \in From(e, 0, {}), Dom(e, 0, order[i], order[j])
  PROVE  j <= i
<1> DEFINE d == order[i]
           around == From(e, 0, {d})
           T == {order[a] : a \in 1 .. i} \cup around
<1>0. /\ Len(order) \in Nat /\ 1 .. i \subseteq 1 .. Len(order) /\ i \in 1 .. i
      /\ \A a \in 1 .. Len(order) : order[a] \in DOMAIN e
  BY DEF Finished
<1>1. 0 \in T
  <2>1. CASE d = 0  BY <1>0, <2>1
  <2>2. CASE d # 0  BY <2>2, FromIsClosed
  <2> QED  BY <2>1, <2>2
<1>2. ASSUME NEW m \in T, NEW z \in e[m] PROVE z \in T
  <2>1. CASE m \in around
    <3>1. z # d => z \in around  BY <1>2, <2>1, FromIsClosed
    <3>2. d \in T  BY <1>0
    <3> QED  BY <3>1, <3>2
  <2>2. CASE m \notin around
    <3>1. PICK a \in 1 .. i : m = order[a]  BY <2>2
    <3>2. \/ \E b \in 1 .. i : order[b] = z
          \/ d \in From(e, 0, {}) => z \in around
      BY <1>2, <3>1 DEF Finished, FinishedBelow
    <3> QED  BY <3>2
  <2> QED  BY <2>1, <2>2
<1> HIDE DEF T
<1>3. From(e, 0, {}) \subseteq T  BY <1>1, <1>2, FromIsLeast
<1>4. order[j] \in T /\ order[j] \notin around  BY <1>3 DEF Dom
<1>5. PICK a \in 1 .. i : order[j] = order[a]  BY <1>4 DEF T
<1>6. j = a  BY <1>0, <1>5 DEF Finished
<1> QED  BY <1>5, <1>6

-----------------------------------------------------------------------------
RelistedBy(g, finish, o, k) ==
  LET node == finish[Len(finish) - k] IN IF g[node].reachable THEN Append(o, node) ELSE o

Relistings(g, finish) ==
  CHOOSE v : v = [k \in 0 .. Len(finish) |->
                    IF k = 0 THEN << >> ELSE RelistedBy(g, finish, v[k - 1], k - 1)]

LEMMA RelistingUnfolds ==
  ASSUME NEW g, NEW D, NEW finish \in Seq(D)
  PROVE  \E v \in [0 .. Len(finish) -> Seq(D)] :
           /\ v[0] = << >> /\ ReversePostorder(g, finish) = v[Len(finish)]
           /\ \A k \in 0 .. Len(finish) - 1 : v[k + 1] = RelistedBy(g, finish, v[k], k)
<1> DEFINE S == Seq(D)
           N == Len(finish)
           step == [p \in S \X (0 .. N - 1) |-> RelistedBy(g, finish, p[1], p[2])]
           Eq(v) == v = [k \in 0 .. N |-> IF k = 0 THEN << >>
                                          ELSE RelistedBy(g, finish, v[k - 1], k - 1)]
           v == Relistings(g, finish)
<1>0. N \in Nat /\ \A i \in 1 .. N : finish[i] \in D  OBVIOUS
<1>1. step \in [S \X (0 .. N - 1) -> S] /\ << >> \in S
  <2>1. ASSUME NEW p \in S \X (0 .. N - 1) PROVE step[p] \in S
    <3>1. p[1] \in S /\ p[2] \in 0 .. N - 1  OBVIOUS
    <3>2. N - p[2] \in 1 .. N  BY <1>0, <3>1
    <3>3. finish[N - p[2]] \in D  BY <1>0, <3>2
    <3>4. Append(p[1], finish[N - p[2]]) \in S  BY <3>1, <3>3
    <3>5. RelistedBy(g, finish, p[1], p[2]) \in {p[1], Append(p[1], finish[N - p[2]])}
      BY Zenon DEF RelistedBy, N
    <3>6. step[p] = RelistedBy(g, finish, p[1], p[2])  OBVIOUS
    <3> HIDE DEF step, S
    <3> QED  BY <3>1, <3>4, <3>5, <3>6
  <2> QED  BY <2>1
<1> HIDE DEF S, N
<1>2. PICK f : LoopsTo(f, N, S, step, << >>)
  <2> HIDE DEF step
  <2> QED  BY <1>0, <1>1, LoopToExists
<1>3. /\ f \in [0 .. N -> S] /\ f[0] = << >>
      /\ \A k \in 0 .. N - 1 : f[k + 1] = RelistedBy(g, finish, f[k], k)
  <2>1. /\ f \in [0 .. N -> S] /\ f[0] = << >>
        /\ \A k \in 0 .. N - 1 : f[k + 1] = step[<<f[k], k>>]
    BY <1>2 DEF LoopsTo
  <2>2. ASSUME NEW k \in 0 .. N - 1 PROVE step[<<f[k], k>>] = RelistedBy(g, finish, f[k], k)
    <3>1. k \in 0 .. N  BY <1>0
    <3>2. <<f[k], k>> \in S \X (0 .. N - 1)  BY <2>1, <3>1
    <3> QED  BY <3>2
  <2> QED  BY <2>1, <2>2
<1> HIDE DEF step
<1>4. Eq(f)
  <2>1. ASSUME NEW k \in 0 .. N
        PROVE  f[k] = IF k = 0 THEN << >> ELSE RelistedBy(g, finish, f[k - 1], k - 1)
    <3>1. CASE k = 0  BY <1>3, <3>1
    <3>2. CASE k # 0
      <4>1. k - 1 \in 0 .. N - 1 /\ k - 1 + 1 = k  BY <1>0, <3>2
      <4> QED  BY <1>3, <3>2, <4>1
    <3> QED  BY <3>1, <3>2
  <2> QED  BY <1>3, <2>1
<1>5. Eq(v)
  <2>1. v = CHOOSE w : Eq(w)  BY DEF Relistings, N
  <2> HIDE DEF Eq, v
  <2> QED  BY <1>4, <2>1
<1>6. ReversePostorder(g, finish) = v[N]
  BY Zenon DEF ReversePostorder, ForUpTo, Relistings, RelistedBy, N
<1>7. v[N] = f[N]
  <2> DEFINE T == {k \in 0 .. N : v[k] = f[k]}
  <2> HIDE DEF v
  <2>0. \A k \in 0 .. N : v[k] = IF k = 0 THEN << >> ELSE RelistedBy(g, finish, v[k - 1], k - 1)
    BY <1>5
  <2>1. 0 \in T  BY <1>0, <1>3, <2>0
  <2>2. ASSUME NEW k \in 0 .. N - 1, k \in T PROVE k + 1 \in T
    <3>1. k \in 0 .. N /\ k + 1 \in 0 .. N /\ k + 1 # 0 /\ k + 1 - 1 = k  BY <1>0
    <3>2. v[k + 1] = RelistedBy(g, finish, v[k + 1 - 1], k + 1 - 1)  BY <2>0, <3>1
    <3> QED  BY <1>3, <2>2, <3>1, <3>2
  <2>3. N \in 0 .. N  BY <1>0
  <2> HIDE DEF T
  <2>4. N \in T  BY <1>0, <2>1, <2>2, <2>3, ClosedUpTo
  <2> QED  BY <2>4 DEF T
<1> QED  BY <1>3, <1>6, <1>7 DEF N, S

(* The last k of the finish order that are live, latest first, are o.      *)
Relisted(finish, live, k, o) ==
  LET n == Len(finish) IN
  /\ \A a \in 1 .. Len(o) : o[a] \in live /\ \E i \in n - k + 1 .. n : finish[i] = o[a]
  /\ \A i \in n - k + 1 .. n : finish[i] \in live => \E a \in 1 .. Len(o) : o[a] = finish[i]
  /\ \A a, b \in 1 .. Len(o) : a < b =>
       \E i, j \in n - k + 1 .. n : j < i /\ finish[i] = o[a] /\ finish[j] = o[b]

LEMMA RelistingGoesOn ==
  ASSUME NEW D, NEW finish \in Seq(D), NEW live, NEW k \in 0 .. Len(finish) - 1,
         NEW o \in Seq(D), Relisted(finish, live, k, o)
  PROVE  LET x == finish[Len(finish) - k] IN
         /\ x \in live => Relisted(finish, live, k + 1, Append(o, x))
         /\ x \notin live => Relisted(finish, live, k + 1, o)
<1> DEFINE n == Len(finish)
           m == n - k
           x == finish[m]
           later == n - k + 1 .. n
           now == n - (k + 1) + 1 .. n
           l == Len(o)
           next == Append(o, x)
<1>0. n \in Nat /\ l \in Nat /\ m \in 1 .. n /\ x \in D  OBVIOUS
<1>1. now = later \cup {m} /\ \A i \in later : m < i  BY <1>0
<1>2. /\ \A a \in 1 .. l : o[a] \in live /\ \E i \in later : finish[i] = o[a]
      /\ \A i \in later : finish[i] \in live => \E a \in 1 .. l : o[a] = finish[i]
      /\ \A a, b \in 1 .. l : a < b =>
           \E i, j \in later : j < i /\ finish[i] = o[a] /\ finish[j] = o[b]
  BY DEF Relisted
<1>3. /\ Len(next) = l + 1 /\ next[l + 1] = x /\ \A a \in 1 .. l : next[a] = o[a]
      /\ 1 .. l + 1 = (1 .. l) \cup {l + 1} /\ l + 1 \notin 1 .. l
  BY <1>0
<1> HIDE DEF next, now, later, l
<1>4. ASSUME x \in live PROVE Relisted(finish, live, k + 1, next)
  <2>1. ASSUME NEW a \in 1 .. l + 1
        PROVE  next[a] \in live /\ \E i \in now : finish[i] = next[a]
    <3>1. CASE a = l + 1  BY <1>1, <1>3, <1>4, <3>1 DEF x
    <3>2. CASE a \in 1 .. l  BY <1>1, <1>2, <1>3, <3>2
    <3> QED  BY <1>3, <3>1, <3>2
  <2>2. ASSUME NEW i \in now, finish[i] \in live PROVE \E a \in 1 .. l + 1 : next[a] = finish[i]
    <3>1. CASE i = m
      <4>1. l + 1 \in 1 .. l + 1 /\ next[l + 1] = finish[i]  BY <1>3, <3>1
      <4> QED  BY <4>1
    <3>2. CASE i \in later
      <4>1. PICK a \in 1 .. l : o[a] = finish[i]  BY <1>2, <2>2, <3>2
      <4> QED  BY <1>3, <4>1
    <3> QED  BY <1>1, <3>1, <3>2
  <2>3. ASSUME NEW a \in 1 .. l + 1, NEW b \in 1 .. l + 1, a < b
        PROVE  \E i, j \in now : j < i /\ finish[i] = next[a] /\ finish[j] = next[b]
    <3>0. a \in 1 .. l  BY <1>0, <2>3 DEF l
    <3>1. CASE b = l + 1
      <4>1. PICK i \in later : finish[i] = o[a]  BY <1>2, <3>0
      <4>2. i \in now /\ m \in now /\ m < i /\ finish[i] = next[a] /\ finish[m] = next[b]
        BY <1>1, <1>3, <3>0, <3>1, <4>1
      <4> QED  BY <4>2
    <3>2. CASE b \in 1 .. l
      <4>1. PICK i \in later, j \in later : j < i /\ finish[i] = o[a] /\ finish[j] = o[b]
        BY <1>2, <2>3, <3>0, <3>2
      <4>2. i \in now /\ j \in now /\ finish[i] = next[a] /\ finish[j] = next[b]
        BY <1>1, <1>3, <3>0, <3>2, <4>1
      <4> QED  BY <4>1, <4>2
    <3> QED  BY <1>3, <3>1, <3>2
  <2> QED  BY <1>3, <2>1, <2>2, <2>3 DEF Relisted, now
<1>5. ASSUME x \notin live PROVE Relisted(finish, live, k + 1, o)
  <2>1. \A a \in 1 .. l : o[a] \in live /\ \E i \in now : finish[i] = o[a]  BY <1>1, <1>2
  <2>2. \A i \in now : finish[i] \in live => \E a \in 1 .. l : o[a] = finish[i]
    BY <1>1, <1>2, <1>5
  <2>3. \A a, b \in 1 .. l : a < b =>
          \E i, j \in now : j < i /\ finish[i] = o[a] /\ finish[j] = o[b]
    BY <1>1, <1>2
  <2> QED  BY <2>1, <2>2, <2>3 DEF Relisted, now, l
<1> QED  BY <1>4, <1>5 DEF next

LEMMA ReverseIsRelisted ==
  ASSUME NEW g, NEW D, NEW finish \in Seq(D), NEW live, \A b \in D : g[b].reachable <=> b \in live
  PROVE  /\ ReversePostorder(g, finish) \in Seq(D)
         /\ Relisted(finish, live, Len(finish), ReversePostorder(g, finish))
<1> DEFINE N == Len(finish)
<1>1. PICK v \in [0 .. N -> Seq(D)] :
        /\ v[0] = << >> /\ ReversePostorder(g, finish) = v[N]
        /\ \A k \in 0 .. N - 1 : v[k + 1] = RelistedBy(g, finish, v[k], k)
  BY RelistingUnfolds
<1>2. N \in Nat /\ \A i \in 1 .. N : finish[i] \in D  OBVIOUS
<1>3. \A k \in 0 .. N : v[k] \in Seq(D)  BY <1>1
<1> DEFINE T == {k \in 0 .. N : Relisted(finish, live, k, v[k])}
<1>4. 0 \in T
  <2>1. N - 0 + 1 .. N = {} /\ 1 .. Len(<< >>) = {}  BY <1>2
  <2>2. Relisted(finish, live, 0, << >>)  BY <2>1 DEF Relisted
  <2> QED  BY <1>1, <1>2, <2>2
<1>5. ASSUME NEW k \in 0 .. N - 1, k \in T PROVE k + 1 \in T
  <2> DEFINE x == finish[N - k]
             o == v[k]
  <2>1. k \in 0 .. N /\ k + 1 \in 0 .. N /\ N - k \in 1 .. N  BY <1>2
  <2>2. x \in D /\ o \in Seq(D)  BY <1>2, <1>3, <2>1
  <2>3. /\ x \in live => Relisted(finish, live, k + 1, Append(o, x))
        /\ x \notin live => Relisted(finish, live, k + 1, o)
    BY <1>5, <2>2, RelistingGoesOn
  <2>4. v[k + 1] = RelistedBy(g, finish, o, k)  BY <1>1
  <2>5. x \in live => v[k + 1] = Append(o, x)  BY <2>2, <2>4, Zenon DEF RelistedBy
  <2>6. x \notin live => v[k + 1] = o  BY <2>2, <2>4, Zenon DEF RelistedBy
  <2>7. Relisted(finish, live, k + 1, v[k + 1])  BY <2>3, <2>5, <2>6
  <2> QED  BY <2>1, <2>7
<1> HIDE DEF T, N
<1>6. N \in 0 .. N /\ N \in T
  <2>1. N \in Nat /\ N \in 0 .. N  BY <1>2
  <2>2. 0 .. N \subseteq T  BY <1>4, <1>5, <2>1, ClosedUpTo
  <2> QED  BY <2>1, <2>2
<1> QED  BY <1>1, <1>3, <1>6 DEF T, N

LEMMA OrderIsExact ==
  ASSUME AInv
  PROVE  OrderFollowsDominators
<1> SUFFICES ASSUME Analyzed PROVE OrderFollowsDominators  BY DEF OrderFollowsDominators
<1> DEFINE e == EdgesOf(cfg)
           finish == finishOrder(Adjacency(cfg))
           order == analysis.reverse_postorder
           n == Len(finish)
<1>1. analysis = analyzeControlFlowGraph(cfg) /\ Accepted(code) /\ cfg = buildControlFlowGraph(code)
  BY DEF AInv
<1>2. order = ReversePostorder(cfg, finish)  BY <1>1 DEF analyzeControlFlowGraph
<1>3. Finished(e, finish)  BY <1>1, AdjacencyIsLists
<1>4. /\ Drawn(cfg) /\ Edges = e /\ DOMAIN e = DOMAIN cfg /\ Live = From(e, 0, {})
      /\ \A b, avoid : WalksFrom(b, avoid) = From(Edges, b, avoid)
      /\ IsGraph(e) /\ 0 \in DOMAIN e
  BY AnalysedGraph DEF EdgesOf, Drawn
<1> HIDE DEF finish, e, order
<1>5. \A b \in DOMAIN e : cfg[b].reachable <=> b \in Live
  <2>1. \A b \in DOMAIN e : cfg[b].reachable <=> b \in From(e, 0, {})  BY <1>4 DEF Drawn, e
  <2> QED  BY <1>4, <2>1, Zenon
<1>6. finish \in Seq(DOMAIN e) /\ n \in Nat /\ n - n + 1 .. n = 1 .. n  BY <1>3 DEF Finished
<1>7. order \in Seq(DOMAIN e) /\ Relisted(finish, Live, n, order)
  <2> DEFINE live == Live
  <2> HIDE DEF live
  <2>1. \A b \in DOMAIN e : cfg[b].reachable <=> b \in live  BY <1>5 DEF live
  <2>2. order \in Seq(DOMAIN e) /\ Relisted(finish, live, n, order)
    BY <1>2, <1>6, <2>1, ReverseIsRelisted
  <2> QED  BY <2>2 DEF live
<1>8. DOMAIN order = 1 .. Len(order) /\ Len(order) \in Nat  BY <1>7
<1> HIDE DEF n
<1>9. /\ \A a \in DOMAIN order : order[a] \in Live /\ \E i \in 1 .. n : finish[i] = order[a]
      /\ \A i \in 1 .. n : finish[i] \in Live => \E a \in DOMAIN order : order[a] = finish[i]
      /\ \A a, b \in DOMAIN order : a < b =>
           \E i, j \in 1 .. n : j < i /\ finish[i] = order[a] /\ finish[j] = order[b]
  <2> DEFINE all == n - n + 1 .. n
             places == 1 .. Len(order)
  <2>1. /\ \A a \in places : order[a] \in Live /\ \E i \in all : finish[i] = order[a]
        /\ \A i \in all : finish[i] \in Live => \E a \in places : order[a] = finish[i]
        /\ \A a, b \in places : a < b =>
             \E i, j \in all : j < i /\ finish[i] = order[a] /\ finish[j] = order[b]
    BY <1>7, Zenon DEF Relisted, n
  <2>2. all = 1 .. n /\ DOMAIN order = places  BY <1>6, <1>8
  <2> HIDE DEF all, places
  <2> QED  BY <2>1, <2>2
<1>10. ToSet(order) = Live
  <2>1. \A b \in Live : \E i \in 1 .. n : finish[i] = b
    <3>1. Live \subseteq DOMAIN e  BY <1>4, FromIsClosed
    <3> QED  BY <1>3, <3>1 DEF Finished, n
  <2>2. \A b \in Live : \E a \in DOMAIN order : order[a] = b  BY <1>9, <2>1
  <2> QED  BY <1>9, <2>2 DEF ToSet
<1>11. ASSUME NEW a \in DOMAIN order, NEW b \in DOMAIN order, a < b
       PROVE  order[a] # order[b] /\ ~Dominates(order[b], order[a])
  <2>1. PICK i \in 1 .. n, j \in 1 .. n : j < i /\ finish[i] = order[a] /\ finish[j] = order[b]
    BY <1>9, <1>11
  <2>2. ~(i <= j) /\ i # j  BY <1>6, <2>1
  <2>3. finish[i] # finish[j]  BY <1>3, <2>2 DEF Finished, n
  <2>4. ~Dom(e, 0, finish[j], finish[i])
    <3>1. finish[i] \in From(e, 0, {}) /\ finish[j] \in From(e, 0, {})  BY <1>4, <1>9, <2>1
    <3>2. Dom(e, 0, finish[j], finish[i]) => i <= j
      BY <1>3, <1>4, <3>1, DominatorsFinishLater DEF n
    <3> QED  BY <2>2, <3>2
  <2> QED  BY <1>4, <2>1, <2>3, <2>4 DEF Dominates, Dom
<1>12. IsInjective(order)
  <2>1. \A a, b \in DOMAIN order : a # b => a < b \/ b < a  BY <1>8
  <2> QED  BY <1>11, <2>1 DEF IsInjective
<1>13. \A i, j \in DOMAIN order : Dominates(order[i], order[j]) => i <= j
  <2>1. \A i, j \in DOMAIN order : i <= j \/ j < i  BY <1>8
  <2> QED  BY <1>11, <2>1
<1> QED  BY <1>10, <1>12, <1>13 DEF OrderFollowsDominators, order

-----------------------------------------------------------------------------
(* The nodes that walks connect with b both ways.                          *)
Class(e, b) == {c \in From(e, b, {}) : b \in From(e, c, {})}

LEMMA ClassesPartition ==
  ASSUME NEW e, IsGraph(e), NEW b \in DOMAIN e
  PROVE  /\ b \in Class(e, b) /\ Class(e, b) \subseteq DOMAIN e
         /\ \A c \in Class(e, b) : Class(e, c) = Class(e, b)
<1>1. b \in Class(e, b) /\ Class(e, b) \subseteq DOMAIN e  BY FromIsClosed DEF Class
<1>2. ASSUME NEW x \in DOMAIN e, NEW c \in Class(e, x) PROVE Class(e, c) \subseteq Class(e, x)
  <2> SUFFICES ASSUME NEW z \in Class(e, c) PROVE z \in Class(e, x)  OBVIOUS
  <2>1. c \in From(e, x, {}) /\ x \in From(e, c, {}) /\ c \in DOMAIN e
    BY FromIsClosed DEF Class
  <2>2. z \in From(e, c, {}) /\ c \in From(e, z, {}) /\ z \in DOMAIN e
    BY <2>1, FromIsClosed DEF Class
  <2>3. z \in From(e, x, {})  BY <2>1, <2>2, FromGoesOn
  <2>4. x \in From(e, z, {})  BY <2>1, <2>2, FromGoesOn
  <2> QED  BY <2>3, <2>4 DEF Class
<1>3. ASSUME NEW c \in Class(e, b) PROVE Class(e, c) = Class(e, b)
  <2>1. c \in DOMAIN e /\ b \in Class(e, c)  BY <1>1 DEF Class
  <2> QED  BY <1>2, <2>1
<1> QED  BY <1>1, <1>3

(* What leads to root outside of U, walks from root come to as well: of    *)
(* such nodes, one that comes up before root leads out of what comes up    *)
(* before it, to a later one that leads back to it.                        *)
LEMMA LaterLeadsToEarlier ==
  ASSUME NEW e, IsGraph(e), NEW order, Finished(e, order), NEW U, NEW p \in 1 .. Len(order),
         \A i \in p + 1 .. Len(order) : order[i] \in U, order[p] \notin U,
         NEW c \in DOMAIN e, order[p] \in From(e, c, U)
  PROVE  c \in From(e, order[p], {})
<1> DEFINE root == order[p]
           n == Len(order)
           Good(i) == root \in From(e, order[i], U) => order[i] \in From(e, root, {})
<1>0. /\ n \in Nat /\ p \in Nat /\ 1 <= p /\ p <= n
      /\ \A i \in 1 .. n : order[i] \in DOMAIN e
      /\ \A m \in DOMAIN e : \E i \in 1 .. n : order[i] = m
  BY DEF Finished
<1>1. \A m : root \in From(e, m, U) => m \notin U  BY DEF From
<1>2. root \in DOMAIN e /\ root \in From(e, root, U)  BY <1>0, FromIsClosed
<1> HIDE DEF n
<1>3. ASSUME NEW j \in 1 .. p, \A i \in 1 .. p : j < i => Good(i) PROVE Good(j)
  <2> SUFFICES ASSUME root \in From(e, order[j], U), j # p
               PROVE  order[j] \in From(e, root, {})
    BY <1>2, FromIsClosed
  <2> DEFINE v == order[j]
             below == {order[i] : i \in 1 .. j}
             T == below \cup {m \in DOMAIN e : root \notin From(e, m, U)}
  <2>1. j \in 1 .. n /\ j \in 1 .. j /\ v \in DOMAIN e /\ v \in below
        /\ \A i \in 1 .. j : i \in 1 .. n /\ order[i] \in DOMAIN e
    BY <1>0
  <2>2. root \notin below
    <3>1. \A i \in 1 .. j : i # p  BY <1>0
    <3>2. \A i \in 1 .. j : order[i] # order[p]  BY <1>0, <2>1, <3>1 DEF Finished, n
    <3> QED  BY <3>2
  <2>3. PICK x \in below : \E z \in e[x] : z \notin below /\ root \in From(e, z, U)
    <3> SUFFICES ASSUME \A x \in below : \A z \in e[x] : z \notin below => root \notin From(e, z, U)
                 PROVE  FALSE
      OBVIOUS
    <3>1. ASSUME NEW x \in T, x \in DOMAIN e \ U, NEW z \in e[x], z \notin U PROVE z \in T
      <4>1. z \in DOMAIN e  BY <3>1 DEF IsGraph
      <4>2. CASE x \in below  BY <4>1, <4>2
      <4>3. CASE x \notin below
        <5>1. root \notin From(e, x, U)  BY <3>1, <4>3
        <5>2. z \in From(e, x, U)  BY <3>1, FromIsClosed
        <5>3. From(e, z, U) \subseteq From(e, x, U)  BY <3>1, <5>2, FromGoesOn
        <5> QED  BY <4>1, <5>1, <5>3
      <4> QED  BY <4>2, <4>3
    <3>2. v \in T  BY <2>1
    <3> HIDE DEF T, v
    <3>3. From(e, v, U) \subseteq T  BY <2>1, <3>1, <3>2, FromIsLeast
    <3>4. root \in T  BY <3>3 DEF v
    <3> QED  BY <1>2, <2>2, <3>4 DEF T
  <2>31. PICK z \in e[x] : z \notin below /\ root \in From(e, z, U)  BY <2>3
  <2>4. PICK a \in 1 .. j : x = order[a]  BY <2>3
  <2>5. z \in DOMAIN e  BY <2>1, <2>31, <2>4 DEF IsGraph
  <2>6. v \in From(e, z, {})
    <3>1. \/ \E m \in 1 .. j : order[m] = z
          \/ v \in From(e, z, {})
      BY <2>1, <2>31, <2>4 DEF Finished, FinishedBelow, n
    <3> QED  BY <2>31, <3>1
  <2>7. PICK i \in 1 .. n : order[i] = z  BY <1>0, <2>5
  <2>8. z \notin U  BY <1>1, <2>31
  <2>9. i \in 1 .. p /\ j < i
    <3>1. i \notin p + 1 .. n  BY <2>7, <2>8 DEF n
    <3>2. i \notin 1 .. j  BY <2>31, <2>7
    <3> QED  BY <1>0, <2>1, <3>1, <3>2
  <2>10. z \in From(e, root, {})  BY <1>3, <2>31, <2>7, <2>9
  <2> HIDE DEF v, root
  <2>11. v \in From(e, root, {})  BY <1>2, <2>6, <2>10, FromGoesOn
  <2> QED  BY <2>11 DEF v
<1> HIDE DEF Good
<1>4. \A i \in 1 .. p : Good(i)
  <2> DEFINE T == {k \in 0 .. p : \A i \in 1 .. p : i > p - k => Good(i)}
  <2>0. p \in Nat /\ 1 <= p  BY <1>0
  <2>1. 0 \in T  BY <2>0
  <2>2. ASSUME NEW k \in 0 .. p - 1, k \in T PROVE k + 1 \in T
    <3> DEFINE j == p - k
    <3>1. k + 1 \in 0 .. p /\ j \in 1 .. p  BY <2>0
    <3>2. \A i \in 1 .. p : j < i => Good(i)  BY <2>2
    <3> HIDE DEF j
    <3>3. Good(j)  BY <1>3, <3>1, <3>2
    <3> USE DEF j
    <3>4. \A i \in 1 .. p : i > p - (k + 1) => i = p - k \/ i > p - k  BY <2>0
    <3> QED  BY <3>1, <3>2, <3>3, <3>4
  <2> HIDE DEF T
  <2>3. 0 .. p \subseteq T  BY <2>0, <2>1, <2>2, ClosedUpTo
  <2>4. p \in T  BY <2>0, <2>3
  <2>5. \A i \in 1 .. p : i > p - p  BY <2>0
  <2> QED  BY <2>4, <2>5 DEF T
<1>5. PICK i \in 1 .. n : order[i] = c  BY <1>0
<1>6. i \in 1 .. p
  <2>1. i \notin p + 1 .. n  BY <1>1, <1>5 DEF n
  <2> QED  BY <1>0, <2>1
<1> QED  BY <1>4, <1>5, <1>6 DEF Good

(* A flood against the edges from a root that comes up last of those       *)
(* outside of U finds the class of the root, when U is made of classes.    *)
LEMMA FloodFindsTheClass ==
  ASSUME NEW e, IsGraph(e), NEW order, Finished(e, order), NEW U, NEW p \in 1 .. Len(order),
         \A i \in p + 1 .. Len(order) : order[i] \in U, order[p] \notin U,
         \A x \in U \cap DOMAIN e : Class(e, x) \subseteq U
  PROVE  Flooded(Reversed(e), DOMAIN Reversed(e) \ U, {order[p]}) = Class(e, order[p])
<1> DEFINE root == order[p]
           back == Reversed(e)
<1>0. root \in DOMAIN e  BY DEF Finished
<1>1. /\ IsGraph(back) /\ DOMAIN back = DOMAIN e
      /\ \A m, n \in DOMAIN e : n \in back[m] <=> m \in e[n]
  BY ReversedIsGraph
<1>2. Flooded(back, DOMAIN back \ U, {root}) = From(back, root, U)  BY DEF From
<1> HIDE DEF back
<1>3. From(back, root, U) \subseteq DOMAIN e  BY <1>0, <1>1, FromIsClosed
<1>4. \A c \in DOMAIN e : c \in From(back, root, U) <=> root \in From(e, c, U)
  <2> TAKE c \in DOMAIN e
  <2>1. root \in From(e, c, U) => c \in From(back, root, U)  BY WalksGoBack DEF back
  <2>2. c \in From(back, root, U) => root \in From(Reversed(back), c, U)
    BY <1>0, <1>1, WalksGoBack
  <2>3. From(Reversed(back), c, U) \subseteq From(e, c, U)
    <3>1. /\ DOMAIN Reversed(back) = DOMAIN back
          /\ \A m, n \in DOMAIN back : n \in Reversed(back)[m] <=> m \in back[n]
          /\ IsGraph(Reversed(back))
      BY <1>1, ReversedIsGraph
    <3> DEFINE again == Reversed(back)
    <3> HIDE DEF again
    <3>2. IsGraph(again) /\ DOMAIN again = DOMAIN e  BY <1>1, <3>1 DEF again
    <3>3. ASSUME NEW m \in DOMAIN e, NEW z \in again[m] PROVE z \in e[m]
      <4>1. z \in DOMAIN e  BY <3>2, <3>3 DEF IsGraph
      <4> QED  BY <1>1, <3>1, <3>3, <4>1 DEF again
    <3>4. From(again, c, U) \subseteq From(e, c, U)
      BY <3>2, <3>3, FromIsClosed, FromIsLeast
    <3> QED  BY <3>4 DEF again
  <2> QED  BY <2>1, <2>2, <2>3
<1> HIDE DEF root
<1>5. ASSUME NEW c \in DOMAIN e, root \in From(e, c, U) PROVE c \in Class(e, root)
  <2>1. c \in From(e, root, {})  BY <1>5, LaterLeadsToEarlier DEF root
  <2>2. root \in From(e, c, {})  BY <1>5, FromAvoidsLess
  <2> QED  BY <2>1, <2>2 DEF Class
<1>6. ASSUME NEW c \in Class(e, root) PROVE root \in From(e, c, U)
  <2>1. c \in DOMAIN e /\ c \in From(e, root, {}) /\ root \in From(e, c, {})
    BY <1>0, FromIsClosed DEF Class
  <2>2. \A z \in U \cap DOMAIN e : root \notin Class(e, z)  BY DEF root
  <2>3. c \notin U  BY <2>1, <2>2 DEF Class
  <2> DEFINE T == From(e, c, U) \cup {m \in DOMAIN e : root \notin From(e, m, {})}
  <2>4. c \in T  BY <2>1, <2>3, FromIsClosed
  <2>5. ASSUME NEW m \in T, m \in DOMAIN e, NEW z \in e[m] PROVE z \in T
    <3>1. z \in DOMAIN e  BY <2>5 DEF IsGraph
    <3>2. z \in From(e, m, {})  BY <2>5, FromIsClosed
    <3>3. CASE root \notin From(e, m, {})
      <4>1. From(e, z, {}) \subseteq From(e, m, {})  BY <2>5, <3>2, FromGoesOn
      <4> QED  BY <3>1, <3>3, <4>1
    <3>4. CASE m \in From(e, c, U) /\ z \notin U  BY <2>1, <2>5, <3>4, FromIsClosed
    <3>5. CASE m \in From(e, c, U) /\ z \in U
      <4>1. m \in From(e, c, {})  BY <2>1, <3>5, FromAvoidsLess
      <4>2. z \in From(e, c, {})  BY <2>1, <3>2, <4>1, FromGoesOn
      <4>3. z \in From(e, root, {})  BY <1>0, <2>1, <4>2, FromGoesOn
      <4>4. root \notin From(e, z, {})  BY <2>2, <3>1, <3>5, <4>3 DEF Class
      <4> QED  BY <3>1, <4>4
    <3> QED  BY <2>5, <3>3, <3>4, <3>5
  <2> HIDE DEF T
  <2>6. From(e, c, {}) \subseteq T  BY <2>1, <2>4, <2>5, FromIsLeast
  <2>7. root \in T  BY <2>1, <2>6
  <2>8. root \in From(e, root, {})  BY <1>0, FromIsClosed
  <2> QED  BY <2>7, <2>8 DEF T
<1>7. Class(e, root) \subseteq DOMAIN e  BY <1>0, ClassesPartition
<1>8. \A c : c \in From(back, root, U) <=> c \in Class(e, root)  BY <1>3, <1>4, <1>5, <1>6, <1>7
<1>9. From(back, root, U) = Class(e, root)  BY <1>8
<1> QED  BY <1>2, <1>9 DEF back, root

TakenBy(back, finish, found, k) ==
  LET root == finish[Len(finish) - k] IN
  IF root \in UNION found THEN found
  ELSE found \cup {Flooded(back, DOMAIN back \ UNION found, {root})}

Takings(back, finish) ==
  CHOOSE v : v = [k \in 0 .. Len(finish) |->
                    IF k = 0 THEN {} ELSE TakenBy(back, finish, v[k - 1], k - 1)]

(* v goes through what was found.                                          *)
Taking(v, adj, back, finish) ==
  /\ v[0] = {} /\ computeSccs(adj) = v[Len(finish)]
  /\ \A k \in 0 .. Len(finish) - 1 : v[k + 1] = TakenBy(back, finish, v[k], k)

LEMMA TakingUnfolds ==
  ASSUME NEW adj, NEW back, back = Reversed(EdgeSets(adj)), IsGraph(back),
         NEW finish, finish = finishOrder(adj), finish \in Seq(DOMAIN back)
  PROVE  \E v : Taking(v, adj, back, finish)
<1> DEFINE D == DOMAIN back
           S == SUBSET SUBSET D
           N == Len(finish)
           step == [p \in S \X (0 .. N - 1) |-> TakenBy(back, finish, p[1], p[2])]
           Eq(v) == v = [k \in 0 .. N |-> IF k = 0 THEN {}
                                          ELSE TakenBy(back, finish, v[k - 1], k - 1)]
           v == Takings(back, finish)
<1>0. N \in Nat /\ (\A i \in 1 .. N : finish[i] \in D) /\ IsFiniteSet(D)  BY DEF IsGraph
<1> HIDE DEF N
<1>1. step \in [S \X (0 .. N - 1) -> S] /\ {} \in S
  <2>1. ASSUME NEW p \in S \X (0 .. N - 1) PROVE step[p] \in S
    <3> DEFINE found == p[1]
               root == finish[N - p[2]]
               within == D \ UNION found
               comp == Flooded(back, within, {root})
    <3>1. found \in S /\ p[2] \in 0 .. N - 1  OBVIOUS
    <3>2. N - p[2] \in 1 .. N  BY <1>0, <3>1
    <3>3. root \in D  BY <1>0, <3>2
    <3>4. comp \subseteq {root} \cup within
      <4>1. IsFiniteSet(within)  BY <1>0, FS_Subset
      <4> HIDE DEF within, root
      <4> QED  BY <4>1, FloodIsClosed
    <3>5. step[p] = IF root \in UNION found THEN found ELSE found \cup {comp}
      BY DEF TakenBy, N
    <3>6. comp \subseteq D  BY <3>3, <3>4
    <3> HIDE DEF step, comp, found
    <3> QED  BY <3>1, <3>5, <3>6
  <2> QED  BY <2>1
<1> HIDE DEF S
<1>2. PICK f : LoopsTo(f, N, S, step, {})
  <2> HIDE DEF step
  <2> QED  BY <1>0, <1>1, LoopToExists
<1>3. /\ f \in [0 .. N -> S] /\ f[0] = {}
      /\ \A k \in 0 .. N - 1 : f[k + 1] = TakenBy(back, finish, f[k], k)
  <2>1. /\ f \in [0 .. N -> S] /\ f[0] = {}
        /\ \A k \in 0 .. N - 1 : f[k + 1] = step[<<f[k], k>>]
    BY <1>2 DEF LoopsTo
  <2>2. ASSUME NEW k \in 0 .. N - 1 PROVE step[<<f[k], k>>] = TakenBy(back, finish, f[k], k)
    <3>1. k \in 0 .. N  BY <1>0
    <3>2. <<f[k], k>> \in S \X (0 .. N - 1)  BY <2>1, <3>1
    <3> QED  BY <3>2
  <2> QED  BY <2>1, <2>2
<1> HIDE DEF step
<1>4. Eq(f)
  <2>1. ASSUME NEW k \in 0 .. N
        PROVE  f[k] = IF k = 0 THEN {} ELSE TakenBy(back, finish, f[k - 1], k - 1)
    <3>1. CASE k = 0  BY <1>3, <3>1
    <3>2. CASE k # 0
      <4>1. k - 1 \in 0 .. N - 1 /\ k - 1 + 1 = k  BY <1>0, <3>2
      <4> QED  BY <1>3, <3>2, <4>1
    <3> QED  BY <3>1, <3>2
  <2> QED  BY <1>3, <2>1
<1>5. Eq(v)
  <2>1. v = CHOOSE w : Eq(w)  BY DEF Takings, N
  <2> HIDE DEF Eq, v
  <2> QED  BY <1>4, <2>1
<1>6. computeSccs(adj) = v[N]
  BY Zenon DEF computeSccs, ForUpTo, Takings, TakenBy, N
<1>7. v[0] = {} /\ \A k \in 0 .. N - 1 : v[k + 1] = TakenBy(back, finish, v[k], k)
  <2> HIDE DEF v
  <2>0. \A k \in 0 .. N : v[k] = IF k = 0 THEN {} ELSE TakenBy(back, finish, v[k - 1], k - 1)
    BY <1>5
  <2>1. v[0] = {}
    <3>1. 0 \in 0 .. N  BY <1>0
    <3> QED  BY <2>0, <3>1
  <2>2. ASSUME NEW k \in 0 .. N - 1 PROVE v[k + 1] = TakenBy(back, finish, v[k], k)
    <3>1. k + 1 \in 0 .. N /\ k + 1 # 0 /\ k + 1 - 1 = k  BY <1>0
    <3>2. v[k + 1] = TakenBy(back, finish, v[k + 1 - 1], k + 1 - 1)  BY <2>0, <3>1
    <3> QED  BY <3>1, <3>2
  <2> QED  BY <2>1, <2>2
<1>8. Taking(v, adj, back, finish)  BY <1>6, <1>7 DEF N, Taking
<1> QED  BY <1>8

(* The components are the classes.                                         *)
LEMMA ComponentsAreClasses ==
  ASSUME NEW adj, IsAdjacency(adj), NodesOf(adj)
  PROVE  computeSccs(adj) = {Class(EdgeSets(adj), b) : b \in DOMAIN adj}
<1> DEFINE e == EdgeSets(adj)
           back == Reversed(e)
           finish == finishOrder(adj)
           N == Len(finish)
           late(k) == {Class(e, finish[i]) : i \in N - k + 1 .. N}
<1>1. IsGraph(e) /\ DOMAIN e = DOMAIN adj /\ Finished(e, finish)
  BY EdgeSetsIsGraph, FinishOrderIsFinished
<1>2. IsGraph(back) /\ DOMAIN back = DOMAIN e
  <2> HIDE DEF e
  <2> QED  BY <1>1, ReversedIsGraph
<1>3. finish \in Seq(DOMAIN back) /\ N \in Nat  BY <1>1, <1>2 DEF Finished
<1>40. PICK v : Taking(v, adj, back, finish)
  <2>1. back = Reversed(EdgeSets(adj)) /\ finish = finishOrder(adj)  OBVIOUS
  <2> HIDE DEF back, finish, e
  <2> QED  BY <1>2, <1>3, <2>1, TakingUnfolds
<1>4. /\ v[0] = {} /\ computeSccs(adj) = v[N]
      /\ \A k \in 0 .. N - 1 : v[k + 1] = TakenBy(back, finish, v[k], k)
  BY <1>40 DEF Taking
<1>5. \A i \in 1 .. N : finish[i] \in DOMAIN e  BY <1>1 DEF Finished
<1>6. {finish[i] : i \in 1 .. N} = DOMAIN e  BY <1>1 DEF Finished
<1> HIDE DEF e, back, finish
<1>7. \A k \in 0 .. N : v[k] = late(k)
  <2> DEFINE T == {k \in 0 .. N : v[k] = late(k)}
  <2>1. 0 \in T
    <3>1. N - 0 + 1 .. N = {}  BY <1>3
    <3> QED  BY <1>3, <1>4, <3>1
  <2>2. ASSUME NEW k \in 0 .. N - 1, k \in T PROVE k + 1 \in T
    <3> DEFINE p == N - k
               U == UNION v[k]
               root == finish[p]
    <3>1. /\ p \in 1 .. N /\ k + 1 \in 0 .. N /\ k \in 0 .. N
          /\ N - (k + 1) + 1 .. N = {p} \cup (N - k + 1 .. N)
          /\ N - k + 1 = p + 1 /\ \A i \in N - k + 1 .. N : i \in 1 .. N
      BY <1>3
    <3>2. v[k] = late(k) /\ late(k + 1) = late(k) \cup {Class(e, root)}
      <4>1. v[k] = late(k)  BY <2>2
      <4>2. late(k + 1) = late(k) \cup {Class(e, root)}
        <5> DEFINE later == N - k + 1 .. N
                   now == N - (k + 1) + 1 .. N
        <5>1. now = {p} \cup later  BY <3>1
        <5> HIDE DEF later, now, p
        <5>2. {Class(e, finish[i]) : i \in now}
                = {Class(e, finish[i]) : i \in later} \cup {Class(e, finish[p])}
          BY <5>1
        <5> QED  BY <5>2 DEF later, now, p
      <4> QED  BY <4>1, <4>2
    <3>3. v[k + 1] = IF root \in U THEN v[k]
                     ELSE v[k] \cup {Flooded(back, DOMAIN back \ U, {root})}
      BY <1>4 DEF TakenBy
    <3>4. \A i \in p + 1 .. N : finish[i] \in U
      <4> TAKE i \in p + 1 .. N
      <4>1. i \in N - k + 1 .. N /\ i \in 1 .. N  BY <3>1
      <4>2. finish[i] \in Class(e, finish[i])  BY <1>1, <1>5, <4>1, ClassesPartition
      <4>3. Class(e, finish[i]) \in v[k]  BY <3>2, <4>1
      <4> QED  BY <4>2, <4>3
    <3>5. ASSUME NEW x \in U PROVE x \in DOMAIN e /\ Class(e, x) \in v[k]
      <4>1. PICK i \in N - k + 1 .. N : x \in Class(e, finish[i])  BY <3>2
      <4>2. finish[i] \in DOMAIN e /\ Class(e, finish[i]) \in v[k]  BY <1>5, <3>1, <3>2
      <4>3. x \in DOMAIN e /\ Class(e, x) = Class(e, finish[i])
        BY <1>1, <4>1, <4>2, ClassesPartition
      <4> QED  BY <4>2, <4>3
    <3> HIDE DEF U, root, p
    <3>6. CASE root \in U
      <4>1. Class(e, root) \in v[k]  BY <3>5, <3>6
      <4>2. v[k + 1] = late(k + 1)  BY <3>2, <3>3, <3>6, <4>1
      <4> QED  BY <3>1, <4>2
    <3>7. CASE root \notin U
      <4>1. \A x \in U \cap DOMAIN e : Class(e, x) \subseteq U  BY <3>5 DEF U
      <4>2. Flooded(back, DOMAIN back \ U, {root}) = Class(e, root)
        BY <1>1, <3>1, <3>4, <3>7, <4>1, FloodFindsTheClass DEF back, root
      <4>3. v[k + 1] = late(k + 1)  BY <3>2, <3>3, <3>7, <4>2
      <4> QED  BY <3>1, <4>3
    <3> QED  BY <3>6, <3>7
  <2> HIDE DEF T, late
  <2>3. 0 .. N \subseteq T  BY <1>3, <2>1, <2>2, ClosedUpTo
  <2> QED  BY <2>3 DEF T
<1>8. N \in 0 .. N /\ N - N + 1 .. N = 1 .. N  BY <1>3
<1>9. computeSccs(adj) = {Class(e, finish[i]) : i \in 1 .. N}
  <2>1. computeSccs(adj) = late(N)  BY <1>4, <1>7, <1>8
  <2> QED  BY <1>8, <2>1
<1> HIDE DEF N
<1>10. {Class(e, finish[i]) : i \in 1 .. N} = {Class(e, b) : b \in DOMAIN e}
  BY <1>6
<1> QED  BY <1>1, <1>9, <1>10 DEF e

LEMMA ComponentsAreExact ==
  ASSUME AInv
  PROVE  ComponentsAreMutual
<1> SUFFICES ASSUME Analyzed PROVE ComponentsAreMutual  BY DEF ComponentsAreMutual
<1> DEFINE e == EdgesOf(cfg)
<1>1. analysis = analyzeControlFlowGraph(cfg) /\ Accepted(code) /\ cfg = buildControlFlowGraph(code)
  BY DEF AInv
<1>2. analysis.sccs = computeSccs(Adjacency(cfg))  BY <1>1 DEF analyzeControlFlowGraph
<1>3. /\ IsAdjacency(Adjacency(cfg)) /\ NodesOf(Adjacency(cfg))
      /\ EdgeSets(Adjacency(cfg)) = e /\ DOMAIN Adjacency(cfg) = DOMAIN cfg
  BY <1>1, AdjacencyIsLists, EdgesAreThose
<1>4. analysis.sccs = {Class(e, b) : b \in DOMAIN cfg}  BY <1>2, <1>3, ComponentsAreClasses
<1>5. /\ Edges = e /\ Block = DOMAIN cfg
      /\ \A b, avoid : WalksFrom(b, avoid) = From(e, b, avoid)
  BY AnalysedGraph
<1> HIDE DEF e
<1>6. \A b : {c \in WalksFrom(b, {}) : b \in WalksFrom(c, {})} = Class(e, b)  BY <1>5 DEF Class
<1> DEFINE both == {{c \in WalksFrom(b, {}) : b \in WalksFrom(c, {})} : b \in Block}
<1>7. ASSUME NEW x PROVE x \in both <=> x \in analysis.sccs
  <2>1. x \in both <=> \E b \in Block : x = Class(e, b)  BY <1>6
  <2>2. x \in analysis.sccs <=> \E b \in Block : x = Class(e, b)  BY <1>4, <1>5
  <2> QED  BY <2>1, <2>2
<1>8. analysis.sccs = both
  <2> HIDE DEF both
  <2>1. \E A : A = analysis.sccs /\ \A x : x \in both <=> x \in A  BY <1>7
  <2> QED  BY <2>1
<1> QED  BY <1>8, Zenon DEF ComponentsAreMutual

(* graph_analysis.cpp:141-208, 227-232.  The reverse postorder lists the   *)
(* reachable blocks, dominators first, and the components are the classes  *)
(* of blocks on common cycles, whatever the code unit.                     *)
THEOREM WalksExact == Spec => []WalksAreExact
<1>1. AInv => WalksAreExact  BY OrderIsExact, ComponentsAreExact DEF WalksAreExact
<1> QED  BY <1>1, AnalysisInvariance, PTL
-----------------------------------------------------------------------------
(* What a walk reaches other than its start, a successor of it reaches.    *)
LEMMA FirstStep ==
  ASSUME NEW e, IsGraph(e), NEW x \in DOMAIN e, NEW y \in From(e, x, {}), y # x
  PROVE  \E s \in e[x] : y \in From(e, s, {})
<1> DEFINE S == {x} \cup UNION {From(e, s, {}) : s \in e[x]}
<1>1. e[x] \subseteq DOMAIN e  BY DEF IsGraph
<1>2. ASSUME NEW m \in S, NEW k \in e[m] PROVE k \in S
  <2>1. CASE m = x
    <3>1. k \in e[x]  BY <1>2, <2>1
    <3>2. k \in From(e, k, {})  BY <1>1, <3>1, FromIsClosed
    <3> QED  BY <3>1, <3>2
  <2>2. CASE m # x
    <3>1. PICK s \in e[x] : m \in From(e, s, {})  BY <1>2, <2>2
    <3>2. k \in From(e, s, {})  BY <1>1, <1>2, <3>1, FromIsClosed
    <3> QED  BY <3>2
  <2> QED  BY <2>1, <2>2
<1>3. From(e, x, {}) \subseteq S
  <2>1. x \in S  OBVIOUS
  <2> HIDE DEF S
  <2> QED  BY <1>2, <2>1, FromIsLeast
<1> QED  BY <1>3

LEMMA ManyIsTwo ==
  ASSUME NEW S, IsFiniteSet(S), NEW a \in S
  PROVE  /\ Cardinality(S) # 1 <=> \E b \in S : b # a
         /\ Cardinality(S) > 1 <=> \E b \in S : b # a
<1>1. Cardinality(S) \in Nat /\ Cardinality(S) # 0  BY FS_CardinalityType, FS_EmptySet
<1>2. IsFiniteSet(S \ {a}) /\ Cardinality(S \ {a}) = Cardinality(S) - 1  BY FS_RemoveElement
<1>3. Cardinality(S \ {a}) = 0 <=> S \ {a} = {}  BY <1>2, FS_EmptySet
<1> QED  BY <1>1, <1>2, <1>3

(* A class of several nodes, or of one that leads to itself, is one that   *)
(* walks come round in.                                                    *)
LEMMA CyclesAreClasses ==
  ASSUME NEW e, IsGraph(e), NEW x \in DOMAIN e
  PROVE  (Cardinality(Class(e, x)) > 1 \/ \E b \in Class(e, x) : b \in e[b])
           <=> \E b \in Class(e, x) : b \in UNION {From(e, s, {}) : s \in e[b]}
<1> DEFINE C == Class(e, x)
<1>1. /\ x \in C /\ C \subseteq DOMAIN e /\ IsFiniteSet(C)
      /\ \A b \in C : e[b] \subseteq DOMAIN e
  BY ClassesPartition, FS_Subset DEF IsGraph
<1>2. \A b, c \in C : c \in From(e, b, {})
  BY ClassesPartition DEF Class
<1>3. ASSUME Cardinality(C) > 1
      PROVE  \E b \in C : b \in UNION {From(e, s, {}) : s \in e[b]}
  <2>1. PICK c \in C : c # x  
    <3> HIDE DEF C
    <3> QED  BY <1>1, <1>3, ManyIsTwo
  <2> HIDE DEF C
  <2>2. PICK s \in e[x] : c \in From(e, s, {})  BY <1>2, <1>1, <2>1, FirstStep
  <2>3. x \in From(e, s, {})  BY <1>1, <1>2, <2>2, FromGoesOn
  <2> QED  BY <1>1, <2>3
<1>4. ASSUME NEW b \in C, b \in e[b] PROVE b \in UNION {From(e, s, {}) : s \in e[b]}
  <2>1. b \in From(e, b, {})  BY <1>1, FromIsClosed
  <2> QED  BY <1>4, <2>1
<1>5. ASSUME NEW b \in C, NEW s \in e[b], b \in From(e, s, {}), b # s
      PROVE  Cardinality(C) > 1
  <2>1. b \in DOMAIN e /\ s \in DOMAIN e  BY <1>1, <1>5
  <2>2. s \in From(e, b, {})  BY <2>1, FromIsClosed
  <2>3. s \in Class(e, b)  BY <1>5, <2>2 DEF Class
  <2>4. s \in C  BY <2>3, ClassesPartition
  <2> HIDE DEF C
  <2> QED  BY <1>1, <1>5, <2>4, ManyIsTwo
<1>6. ASSUME NEW b \in C, b \in UNION {From(e, s, {}) : s \in e[b]}
      PROVE  Cardinality(C) > 1 \/ \E c \in C : c \in e[c]
  <2>1. PICK s \in e[b] : b \in From(e, s, {})  BY <1>6
  <2>2. CASE s = b  BY <2>1, <2>2
  <2>3. CASE s # b  BY <1>5, <2>1, <2>3
  <2> QED  BY <2>2, <2>3
<1> HIDE DEF C
<1>7. (Cardinality(C) > 1 \/ \E b \in C : b \in e[b])
           <=> \E b \in C : b \in UNION {From(e, s, {}) : s \in e[b]}
  BY <1>3, <1>4, <1>6
<1> QED  BY <1>7 DEF C

(* Where walks from r come into C: at r itself, or from outside.           *)
Into(e, r, C) == {a \in C : a = r \/ \E p \in From(e, r, {}) \ C : a \in e[p]}

(* It is entered there by walks that have not been in it before.           *)
LEMMA EntriesAreEntered ==
  ASSUME NEW e, IsGraph(e), NEW r \in DOMAIN e, NEW x \in DOMAIN e, NEW a \in Class(e, x)
  PROVE  a \in Into(e, r, Class(e, x))
           <=> From(e, r, Class(e, x) \ {a}) \cap Class(e, x) = {a}
<1> DEFINE C == Class(e, x)
           others == C \ {a}
           in == From(e, r, others)
<1>1. C \subseteq DOMAIN e /\ a \in DOMAIN e /\ e[a] \subseteq DOMAIN e
  BY ClassesPartition DEF IsGraph
<1>2. in \subseteq DOMAIN e \ others /\ in \subseteq From(e, r, {})
  BY FromIsClosed, FromAvoidsLess
<1>3. ASSUME a \in in PROVE a = r \/ \E p \in From(e, r, {}) \ C : a \in e[p]
  <2> SUFFICES ASSUME a # r, \A p \in From(e, r, {}) \ C : a \notin e[p] PROVE FALSE
    OBVIOUS
  <2> DEFINE S == in \ {a}
  <2>1. r \notin others => r \in S  BY FromIsClosed
  <2>2. ASSUME NEW m \in S, NEW k \in e[m], k \notin others PROVE k \in S
    <3>1. k \in in  BY <2>2, FromIsClosed
    <3>2. m \in From(e, r, {}) \ C  BY <1>2, <2>2
    <3>3. k # a  BY <3>2
    <3> QED  BY <3>1, <3>3
  <2>3. in \subseteq S
    <3> HIDE DEF S, others
    <3> QED  BY <2>1, <2>2, FromIsLeast
  <2> QED  BY <1>3, <2>3
<1>4. ASSUME a = r PROVE a \in in
  <2>1. r \notin others  BY <1>4
  <2> HIDE DEF others
  <2> QED  BY <1>4, <2>1, FromIsClosed
<1>5. ASSUME NEW p \in From(e, r, {}), p \notin C, a \in e[p] PROVE a \in in
  <2>1. p \in DOMAIN e /\ a \in From(e, p, {})  BY <1>1, <1>5, FromIsClosed
  <2>2. ASSUME NEW y \in C PROVE p \notin From(e, y, {})
    <3> SUFFICES ASSUME p \in From(e, y, {}) PROVE FALSE  OBVIOUS
    <3>1. y \in Class(e, a) /\ y \in DOMAIN e  BY <1>1, ClassesPartition
    <3>2. y \in From(e, a, {})  BY <3>1 DEF Class
    <3>3. y \in From(e, p, {})  BY <2>1, <3>2, FromGoesOn
    <3>4. p \in Class(e, y)  BY <3>3 DEF Class
    <3>5. p \in C  BY <3>4, ClassesPartition
    <3> QED  BY <1>5, <3>5
  <2> HIDE DEF C
  <2> DEFINE T == in \cup {m \in DOMAIN e : p \notin From(e, m, {})}
  <2>3. r \in T
    <3>1. CASE r \in C  BY <2>2, <3>1
    <3>2. CASE r \notin C
      <4>1. r \notin others  BY <3>2
      <4> HIDE DEF others
      <4> QED  BY <4>1, FromIsClosed
    <3> QED  BY <3>1, <3>2
  <2>4. ASSUME NEW m \in T, NEW k \in e[m] PROVE k \in T
    <3>1. m \in DOMAIN e /\ k \in DOMAIN e  BY <1>2, <2>4 DEF IsGraph
    <3>2. CASE m \in in
      <4>1. CASE k \in others  BY <2>2, <3>1, <4>1
      <4>2. CASE k \notin others
        <5> HIDE DEF others
        <5> QED  BY <3>2, <4>2, <2>4, FromIsClosed
      <4> QED  BY <4>1, <4>2
    <3>3. CASE p \notin From(e, m, {})
      <4>1. k \in From(e, m, {})  BY <2>4, <3>1, FromIsClosed
      <4>2. From(e, k, {}) \subseteq From(e, m, {})  BY <3>1, <4>1, FromGoesOn
      <4> QED  BY <3>1, <3>3, <4>2
    <3> QED  BY <2>4, <3>2, <3>3
  <2>5. From(e, r, {}) \subseteq T
    <3> HIDE DEF T
    <3> QED  BY <2>3, <2>4, FromIsLeast
  <2>6. p \in From(e, p, {})  BY <2>1, FromIsClosed
  <2>7. p \in in  BY <1>5, <2>5, <2>6
  <2>8. a \notin others  OBVIOUS
  <2> HIDE DEF others
  <2> QED  BY <1>5, <2>7, <2>8, FromIsClosed
<1>6. in \cap C = {a} <=> a \in in  BY <1>2
<1>7. a \in Into(e, r, C) <=> a = r \/ \E p \in From(e, r, {}) \ C : a \in e[p]
  BY DEF Into
<1> HIDE DEF C, in
<1>8. a \in Into(e, r, C) <=> in \cap C = {a}  BY <1>3, <1>4, <1>5, <1>6, <1>7
<1> QED  BY <1>8 DEF C, in

(* What walks reach of C they come into C for.                             *)
LEMMA ReachedIsEntered ==
  ASSUME NEW e, IsGraph(e), NEW r \in DOMAIN e, NEW C, C \cap From(e, r, {}) # {}
  PROVE  Into(e, r, C) # {}
<1> SUFFICES ASSUME Into(e, r, C) = {} PROVE FALSE  OBVIOUS
<1> DEFINE S == From(e, r, {}) \ C
<1>1. r \in S  BY FromIsClosed DEF Into
<1>2. ASSUME NEW m \in S, NEW k \in e[m] PROVE k \in S
  <2>1. k \in From(e, r, {})  BY <1>2, FromIsClosed
  <2>2. k \notin C  BY <1>2 DEF Into
  <2> QED  BY <2>1, <2>2
<1>3. From(e, r, {}) \subseteq S
  <2> HIDE DEF S
  <2> QED  BY <1>1, <1>2, FromIsLeast
<1> QED  BY <1>3

(* A way in that is the only one dominates everything inside.              *)
LEMMA OnlyEntryDominates ==
  ASSUME NEW e, IsGraph(e), NEW r \in DOMAIN e, NEW C, NEW h, Into(e, r, C) = {h}, NEW m \in C
  PROVE  Dom(e, r, h, m)
<1> DEFINE S == From(e, r, {}) \ C
<1>1. r \notin {h} => r \in S  BY FromIsClosed DEF Into
<1>2. ASSUME NEW n \in S, NEW k \in e[n], k \notin {h} PROVE k \in S
  <2>1. k \in From(e, r, {})  BY <1>2, FromIsClosed
  <2>2. k \notin C  BY <1>2 DEF Into
  <2> QED  BY <2>1, <2>2
<1>3. From(e, r, {h}) \subseteq S
  <2> HIDE DEF S
  <2> QED  BY <1>1, <1>2, FromIsLeast
<1> QED  BY <1>3 DEF Dom

(* Having one way in that dominates what is inside is having no two.       *)
LEMMA TwoEntries ==
  ASSUME NEW e, IsGraph(e), NEW r \in DOMAIN e, NEW C, C \subseteq DOMAIN e,
         C \cap From(e, r, {}) # {}
  PROVE  (\/ Cardinality(Into(e, r, C)) # 1
          \/ \E h \in Into(e, r, C) : \E m \in C : ~Dom(e, r, h, m))
           <=> \E a, b \in Into(e, r, C) : a # b
<1> DEFINE in == Into(e, r, C)
<1>1. in \subseteq C  BY DEF Into
<1>2. IsFiniteSet(in)  BY <1>1, FS_Subset DEF IsGraph
<1>3. PICK a : a \in in  BY ReachedIsEntered
<1> HIDE DEF in
<1>4. Cardinality(in) # 1 <=> \E b \in in : b # a  BY <1>2, <1>3, ManyIsTwo
<1>5. ASSUME NEW h \in in, NEW m \in C, ~Dom(e, r, h, m) PROVE \E b, c \in in : b # c
  <2> SUFFICES ASSUME in = {h} PROVE FALSE  BY <1>5
  <2> QED  BY <1>5, OnlyEntryDominates DEF in
<1>6. (Cardinality(in) # 1 \/ \E h \in in : \E m \in C : ~Dom(e, r, h, m))
        <=> \E b, c \in in : b # c
  BY <1>3, <1>4, <1>5
<1> QED  BY <1>6 DEF in

(* The walks' own account of an irreducible region of e, c.                *)
TwoWaysIn(e, r, c) ==
  /\ c \cap From(e, r, {}) # {} /\ \E b \in c : b \in UNION {From(e, s, {}) : s \in e[b]}
  /\ \E a, b \in c : /\ a # b
                     /\ From(e, r, c \ {a}) \cap c = {a}
                     /\ From(e, r, c \ {b}) \cap c = {b}

LEMMA EntriesAreThose ==
  ASSUME NEW g, Drawn(g), NEW c, c \subseteq DOMAIN g
  PROVE  Entries(g, EdgesOf(g), c) = Into(EdgesOf(g), 0, c)
<1> DEFINE E == EdgesOf(g)
<1>1. DOMAIN E = DOMAIN g /\ IsGraph(E) /\ 0 \in DOMAIN E  BY DEF EdgesOf, Drawn
<1>2. \A m \in DOMAIN g : g[m].reachable <=> m \in From(E, 0, {})  BY DEF Drawn
<1> HIDE DEF E
<1>3. From(E, 0, {}) \subseteq DOMAIN g  BY <1>1, FromIsClosed
<1>4. \A m : PredecessorsIn(E, m) = {p \in DOMAIN g : m \in E[p]}
  BY <1>1 DEF PredecessorsIn
<1>5. ASSUME NEW m \in c
      PROVE  (\E p \in PredecessorsIn(E, m) \ c : g[p].reachable)
               <=> \E p \in From(E, 0, {}) \ c : m \in E[p]
  <2>1. ASSUME NEW p PROVE (p \in PredecessorsIn(E, m) \ c /\ g[p].reachable)
                             <=> (p \in From(E, 0, {}) \ c /\ m \in E[p])
    <3>1. p \in PredecessorsIn(E, m) <=> p \in DOMAIN g /\ m \in E[p]  BY <1>4
    <3>2. p \in From(E, 0, {}) => p \in DOMAIN g  BY <1>3
    <3>3. p \in DOMAIN g => (g[p].reachable <=> p \in From(E, 0, {}))  BY <1>2
    <3> QED  BY <3>1, <3>2, <3>3, Zenon
  <2> QED  BY <2>1, Zenon
<1>6. Entries(g, E, c) =
        (c \cap {0}) \cup {m \in c : \E p \in PredecessorsIn(E, m) \ c : g[p].reachable}
  BY DEF Entries
<1>7. {m \in c : \E p \in PredecessorsIn(E, m) \ c : g[p].reachable}
        = {m \in c : \E p \in From(E, 0, {}) \ c : m \in E[p]}
  BY <1>5, Zenon
<1>8. Entries(g, E, c) = (c \cap {0}) \cup {m \in c : \E p \in From(E, 0, {}) \ c : m \in E[p]}
  BY <1>6, <1>7
<1> QED  BY <1>8 DEF Into, E

LEMMA RegionsAreThose ==
  ASSUME NEW g, Drawn(g), NEW dom, Computed(dom, EdgesOf(g), 0), NEW sccs,
         sccs = {Class(EdgesOf(g), b) : b \in DOMAIN g}, NEW c \in sccs
  PROVE  c \in IrreducibleRegions(g, EdgesOf(g), dom.sets, sccs) <=> TwoWaysIn(EdgesOf(g), 0, c)
<1> DEFINE E == EdgesOf(g)
           in == Into(E, 0, c)
<1>1. DOMAIN E = DOMAIN g /\ IsGraph(E) /\ 0 \in DOMAIN E  BY DEF EdgesOf, Drawn
<1>2. \A m \in DOMAIN g : g[m].reachable <=> m \in From(E, 0, {})  BY DEF Drawn
<1> HIDE DEF E
<1>3. PICK x \in DOMAIN g : c = Class(E, x)  BY DEF E
<1>4. c \subseteq DOMAIN g  BY <1>1, <1>3, ClassesPartition
<1>5. (Cardinality(c) > 1 \/ \E b \in c : b \in E[b])
        <=> \E b \in c : b \in UNION {From(E, s, {}) : s \in E[b]}
  BY <1>1, <1>3, CyclesAreClasses
<1>6. (\E b \in c : g[b].reachable) <=> c \cap From(E, 0, {}) # {}
  <2>1. \A b : b \in c /\ g[b].reachable <=> b \in c /\ b \in From(E, 0, {})
    BY <1>2, <1>4, Zenon
  <2> QED  BY <2>1, Zenon
<1>7. Entries(g, E, c) = in  BY <1>4, EntriesAreThose DEF E
<1>8. \A a \in c : a \in in <=> From(E, 0, c \ {a}) \cap c = {a}
  BY <1>1, <1>3, EntriesAreEntered
<1>9. in \subseteq c  BY DEF Into
<1>10. ASSUME c \cap From(E, 0, {}) # {}
       PROVE  (Cardinality(in) # 1 \/ \E h \in in : \E m \in c : h \notin dom.sets[m])
                <=> \E a, b \in in : a # b
  <2>1. c \subseteq From(E, 0, {})
    <3>1. PICK y \in c : y \in From(E, 0, {})  BY <1>10
    <3>2. y \in DOMAIN E /\ c = Class(E, y)  BY <1>1, <1>3, <1>4, ClassesPartition
    <3>3. From(E, y, {}) \subseteq From(E, 0, {})  BY <1>1, <3>1, FromGoesOn
    <3> QED  BY <3>2, <3>3 DEF Class
  <2>2. dom.reachable = From(E, 0, {})  BY DEF Computed, E
  <2>3. \A m \in dom.reachable : \A h \in DOMAIN E : h \in dom.sets[m] <=> Dom(E, 0, h, m)
    BY DEF Computed, E
  <2>4. \A h \in in : \A m \in c : h \notin dom.sets[m] <=> ~Dom(E, 0, h, m)
    BY <1>1, <1>4, <1>9, <2>1, <2>2, <2>3
  <2>5. (Cardinality(in) # 1 \/ \E h \in in : \E m \in c : ~Dom(E, 0, h, m))
          <=> \E a, b \in in : a # b
    BY <1>1, <1>4, <1>10, TwoEntries
  <2> HIDE DEF in
  <2> QED  BY <2>4, <2>5
<1>11. (\E a, b \in in : a # b) <=>
         \E a, b \in c : /\ a # b
                         /\ From(E, 0, c \ {a}) \cap c = {a}
                         /\ From(E, 0, c \ {b}) \cap c = {b}
  <2> HIDE DEF in
  <2> QED  BY <1>8, <1>9, Zenon
<1>12. c \in IrreducibleRegions(g, E, dom.sets, sccs) <=>
         /\ Cardinality(c) > 1 \/ \E b \in c : b \in E[b]
         /\ \E b \in c : g[b].reachable
         /\ \/ Cardinality(Entries(g, E, c)) # 1
            \/ \E h \in Entries(g, E, c) : \E m \in c : h \notin dom.sets[m]
  BY Zenon DEF IrreducibleRegions
<1> HIDE DEF in
<1>13. c \in IrreducibleRegions(g, E, dom.sets, sccs) <=>
         /\ Cardinality(c) > 1 \/ \E b \in c : b \in E[b]
         /\ \E b \in c : g[b].reachable
         /\ Cardinality(in) # 1 \/ \E h \in in : \E m \in c : h \notin dom.sets[m]
  BY <1>7, <1>12, Zenon
<1>14. c \in IrreducibleRegions(g, E, dom.sets, sccs) <=>
         /\ \E b \in c : b \in UNION {From(E, s, {}) : s \in E[b]}
         /\ c \cap From(E, 0, {}) # {}
         /\ \E a, b \in in : a # b
  BY <1>5, <1>6, <1>10, <1>13, Zenon
<1>15. TwoWaysIn(E, 0, c) <=>
         /\ \E b \in c : b \in UNION {From(E, s, {}) : s \in E[b]}
         /\ c \cap From(E, 0, {}) # {}
         /\ \E a, b \in in : a # b
  BY <1>11, Zenon DEF TwoWaysIn
<1> QED  BY <1>14, <1>15, Zenon DEF E

(* graph_analysis.cpp:372-405.  The cyclic components reported irreducible *)
(* are those that can be entered at two blocks, whatever the code unit.    *)
THEOREM RegionsExact == Spec => []ReportedRegionsHaveTwoEntries
<1>1. ASSUME AInv PROVE ReportedRegionsHaveTwoEntries
  <2> SUFFICES ASSUME Analyzed
      PROVE  analysis.irreducible_regions =
               {c \in analysis.sccs :
                  /\ c \cap Live # {} /\ \E b \in c : b \in WalksOn(b, {})
                  /\ \E a, b \in c : /\ a # b
                                     /\ WalksFrom(0, c \ {a}) \cap c = {a}
                                     /\ WalksFrom(0, c \ {b}) \cap c = {b}}
    BY DEF ReportedRegionsHaveTwoEntries
  <2> DEFINE E == EdgesOf(cfg)
             sccs == analysis.sccs
             regions == IrreducibleRegions(cfg, E, Dominated.sets, sccs)
  <2>1. /\ Drawn(cfg) /\ Edges = E /\ Live = From(E, 0, {}) /\ Computed(Dominated, E, 0)
        /\ \A b, avoid : WalksFrom(b, avoid) = From(E, b, avoid)
    BY <1>1, AnalysedGraph
  <2>2. analysis.irreducible_regions = regions
    <3>1. analysis = analyzeControlFlowGraph(cfg)  BY <1>1 DEF AInv
    <3>2. EdgeSets(Adjacency(cfg)) = E  BY EdgesAreThose
    <3> QED  BY <3>1, <3>2 DEF analyzeControlFlowGraph, Dominated
  <2>3. sccs = {Class(E, b) : b \in DOMAIN cfg}
    <3>1. /\ analysis = analyzeControlFlowGraph(cfg) /\ Accepted(code)
          /\ cfg = buildControlFlowGraph(code)
      BY <1>1 DEF AInv
    <3>2. sccs = computeSccs(Adjacency(cfg))  BY <3>1 DEF analyzeControlFlowGraph
    <3>3. /\ IsAdjacency(Adjacency(cfg)) /\ NodesOf(Adjacency(cfg))
          /\ EdgeSets(Adjacency(cfg)) = E /\ DOMAIN Adjacency(cfg) = DOMAIN cfg
      BY <3>1, AdjacencyIsLists, EdgesAreThose
    <3> QED  BY <3>2, <3>3, ComponentsAreClasses
  <2> HIDE DEF E, sccs
  <2>4. \A c \in sccs : c \in regions <=> TwoWaysIn(E, 0, c)
    BY <2>1, <2>3, RegionsAreThose DEF E
  <2>5. regions \subseteq sccs  BY DEF IrreducibleRegions
  <2>6. regions = {c \in sccs : TwoWaysIn(E, 0, c)}
    <3> HIDE DEF regions
    <3> QED  BY <2>4, <2>5
  <2>7. \A b : WalksOn(b, {}) = UNION {From(E, s, {}) : s \in E[b]}  BY <2>1 DEF WalksOn
  <2>8. \A c : TwoWaysIn(E, 0, c) <=>
          /\ c \cap Live # {} /\ \E b \in c : b \in WalksOn(b, {})
          /\ \E a, b \in c : /\ a # b
                             /\ WalksFrom(0, c \ {a}) \cap c = {a}
                             /\ WalksFrom(0, c \ {b}) \cap c = {b}
    <3> SUFFICES ASSUME NEW c
                 PROVE  TwoWaysIn(E, 0, c) <=>
                          /\ c \cap Live # {} /\ \E b \in c : b \in WalksOn(b, {})
                          /\ \E a, b \in c : /\ a # b
                                             /\ WalksFrom(0, c \ {a}) \cap c = {a}
                                             /\ WalksFrom(0, c \ {b}) \cap c = {b}
      OBVIOUS
    <3>1. (\E b \in c : b \in WalksOn(b, {}))
            <=> \E b \in c : b \in UNION {From(E, s, {}) : s \in E[b]}
      BY <2>7
    <3>2. \A a : WalksFrom(0, c \ {a}) = From(E, 0, c \ {a})  BY <2>1
    <3>3. (\E a, b \in c : /\ a # b
                           /\ WalksFrom(0, c \ {a}) \cap c = {a}
                           /\ WalksFrom(0, c \ {b}) \cap c = {b})
            <=> \E a, b \in c : /\ a # b
                                /\ From(E, 0, c \ {a}) \cap c = {a}
                                /\ From(E, 0, c \ {b}) \cap c = {b}
      <4> DEFINE walk(a) == WalksFrom(0, c \ {a}) \cap c = {a}
                 from(a) == From(E, 0, c \ {a}) \cap c = {a}
      <4>1. \A a : walk(a) <=> from(a)  BY <3>2
      <4> HIDE DEF walk, from
      <4>2. (\E a, b \in c : a # b /\ walk(a) /\ walk(b))
              <=> \E a, b \in c : a # b /\ from(a) /\ from(b)
        BY <4>1
      <4> QED  BY <4>2 DEF walk, from
    <3> QED  BY <2>1, <3>1, <3>3 DEF TwoWaysIn
  <2> HIDE DEF regions
  <2> DEFINE reported == {c \in sccs :
                  /\ c \cap Live # {} /\ \E b \in c : b \in WalksOn(b, {})
                  /\ \E a, b \in c : /\ a # b
                                     /\ WalksFrom(0, c \ {a}) \cap c = {a}
                                     /\ WalksFrom(0, c \ {b}) \cap c = {b}}
  <2>9. \A c : c \in reported <=> c \in sccs /\ TwoWaysIn(E, 0, c)  BY <2>8, Zenon
  <2>10. analysis.irreducible_regions = reported
    <3> HIDE DEF reported
    <3> QED  BY <2>2, <2>6, <2>9
  <2> QED  BY <2>10 DEF sccs
<1> QED  BY <1>1, AnalysisInvariance, PTL
=============================================================================
