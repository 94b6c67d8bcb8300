-------------------------- MODULE DominatorsProof --------------------------
(***************************************************************************)
(* For every graph, however large: computeDominators computes exactly the  *)
(* nodes on all walks from the root, and the closest of them.              *)
(***************************************************************************)
EXTENDS Dominators, FiniteSetTheorems, WellFoundedInduction, TLAPS

(* The nodes whose set the sweeps maintain.                                *)
Swept == reachable \ {root}

Meet(n) == MeetAt(graph, reachable, sets, n)

(* During the flood: what is marked is reachable, and only the successors  *)
(* of pending nodes may be unmarked.                                       *)
FloodInv ==
  pc = "flood" =>
    /\ node = 0
    /\ root \in reachable
    /\ pending \subseteq reachable
    /\ \A m \in reachable \ pending : graph[m] \subseteq reachable

OnlyWalks == \A S \in SUBSET Node : ClosedUnderEdges(S) => reachable \subseteq S

RootInv ==
  /\ root \notin Node => pc = "done" /\ reachable = {}
  /\ root \in Node /\ pc # "flood" =>
       ClosedUnderEdges(reachable) /\ sets[root] = {root}

(* No set is below the meet of its predecessors' sets ...                  *)
MeetBelow == pc # "flood" => \A n \in Swept : Meet(n) \subseteq sets[n]

(* ... and the nodes visited since the last change have reached it.        *)
Settled ==
  /\ pc = "sweep" /\ ~changed => \A n \in Swept : n < node => sets[n] = Meet(n)
  /\ pc = "done" => \A n \in Swept : sets[n] = Meet(n)

Picked ==
  pc = "done" =>
    immediate = IF root \in Node THEN ImmediateOf(graph, root, reachable, sets, None)
                ELSE [n \in Node |-> None]

IInv == /\ TypeOK /\ FloodInv /\ OnlyWalks /\ RootInv
        /\ MeetBelow /\ NoDominatorIsLost /\ Settled /\ Picked
-----------------------------------------------------------------------------
(* A node other than the root that a walk reaches is reached through a     *)
(* marked predecessor.                                                     *)
LEMMA HasPredecessor ==
  ASSUME TypeOK, OnlyWalks, RootInv, root \in Node, pc # "flood",
         NEW n \in Swept
  PROVE  PredecessorsIn(graph, n) \cap reachable # {}
<1> DEFINE S == reachable \ {n}
<1> SUFFICES ASSUME PredecessorsIn(graph, n) \cap reachable = {} PROVE FALSE
  OBVIOUS
<1>1. S \in SUBSET Node /\ root \in S
  BY DEF TypeOK, Swept, RootInv, ClosedUnderEdges
<1>2. \A m \in S : graph[m] \subseteq S
  BY DEF TypeOK, RootInv, ClosedUnderEdges, PredecessorsIn
<1>3. reachable \subseteq S
  BY <1>1, <1>2 DEF OnlyWalks, ClosedUnderEdges
<1>4. QED
  BY <1>3 DEF Swept

(* A dominator of n other than n dominates every marked predecessor of n.  *)
LEMMA DominatesPredecessors ==
  ASSUME TypeOK, NEW n \in Node, NEW d \in Node, d # n, Dominates(d, n),
         NEW p \in PredecessorsIn(graph, n)
  PROVE  Dominates(d, p)
<1>1. PICK S \in SUBSET Node : ClosedAvoiding(S, d) /\ n \notin S
  BY DEF Dominates
<1>2. p \notin S
  BY <1>1 DEF ClosedAvoiding, PredecessorsIn
<1>3. QED
  BY <1>1, <1>2 DEF Dominates

(* Only the root dominates the root.                                       *)
LEMMA RootDominators ==
  ASSUME NEW d \in Node, root \in Node, Dominates(d, root)
  PROVE  d = root
BY DEF Dominates, ClosedAvoiding

(* At a fixed point, every member of a set is a dominator: the nodes whose *)
(* set lacks d are a region that walks avoiding d cannot leave.            *)
LEMMA FixedPointIsSound ==
  ASSUME TypeOK, RootInv, root \in Node, pc # "flood",
         \A n \in Swept : sets[n] = Meet(n),
         NEW n \in reachable, NEW d \in Node, d \in sets[n]
  PROVE  Dominates(d, n)
<1> DEFINE S == {m \in reachable : d \notin sets[m]}
<1>1. S \in SUBSET Node /\ n \notin S
  BY DEF TypeOK
<1>2. root # d => root \in S
  BY DEF RootInv, ClosedUnderEdges
<1>3. ASSUME NEW m \in S, NEW k \in graph[m], k # d
      PROVE  k \in S
  <2>1. k \in reachable /\ k \in Node /\ m \in Node
    BY DEF TypeOK, RootInv, ClosedUnderEdges
  <2>2. CASE k = root
    BY <2>1, <2>2, <1>3, <1>2
  <2>3. CASE k # root
    <3>1. m \in PredecessorsIn(graph, k) \cap reachable
      BY <1>3, <2>1 DEF TypeOK, PredecessorsIn
    <3>2. sets[k] = Meet(k)
      BY <2>1, <2>3 DEF Swept
    <3>3. d \notin sets[k]
      BY <3>1, <3>2, <1>3 DEF Meet, MeetAt
    <3>4. QED
      BY <2>1, <3>3
  <2>4. QED
    BY <2>2, <2>3
<1>4. ClosedAvoiding(S, d)
  BY <1>2, <1>3 DEF ClosedAvoiding
<1>5. QED
  BY <1>1, <1>4 DEF Dominates
-----------------------------------------------------------------------------
(* A nonempty set of natural numbers has a least element.                  *)
LEMMA LeastExists ==
  ASSUME NEW S \in SUBSET Nat, S # {}
  PROVE  \E m \in S : \A k \in S : m <= k
<1> DEFINE Less == OpToRel(<, Nat)
<1>1. PICK m \in S : \A k \in S : ~ (<<k, m>> \in Less)
  BY WFMin, NatLessThanWellFounded, Zenon
<1>2. ASSUME NEW j \in Nat, NEW k \in Nat, j < k
      PROVE  <<j, k>> \in Less
  <2> DEFINE pair == <<j, k>>
  <2>1. pair \in Nat \X Nat /\ pair[1] = j /\ pair[2] = k
    OBVIOUS
  <2>2. pair[1] < pair[2]
    BY <2>1, <1>2
  <2> HIDE DEF pair
  <2>3. pair \in Less
    BY <2>1, <2>2 DEF OpToRel
  <2>4. QED
    BY <2>3 DEF pair
<1> HIDE DEF Less
<1>3. ASSUME NEW k \in S PROVE m <= k
  <2>1. k \in Nat /\ m \in Nat
    OBVIOUS
  <2>2. ~ (k < m)
    BY <1>1, <1>2, <2>1
  <2>3. QED
    BY <2>1, <2>2
<1>4. QED
  BY <1>3

(* A nonempty set of nodes has a member of greatest depth, and among those *)
(* a lowest one: the choice in ClosestDominator always succeeds.           *)
LEMMA ClosestExists ==
  ASSUME TypeOK, NEW n \in Node, sets[n] \ {n} # {}
  PROVE  /\ ClosestDominator(sets, n) \in sets[n] \ {n}
         /\ \A e \in sets[n] \ {n} :
              Cardinality(sets[e]) <= Cardinality(sets[ClosestDominator(sets, n)])
<1> DEFINE strict == sets[n] \ {n}
           depth(d) == Cardinality(sets[d])
           Gaps == {Size - depth(d) : d \in strict}
<1>1. strict \subseteq Node
  BY DEF TypeOK
<1>2. IsFiniteSet(Node) /\ Cardinality(Node) = Size
  <2>1. 0 \in Int /\ Size - 1 \in Int
    BY SizeAssumption
  <2>2. QED
    BY <2>1, FS_Interval, SizeAssumption DEF Node
<1>3. \A d \in Node : depth(d) \in Nat /\ depth(d) <= Size
  BY <1>2, FS_Subset, FS_CardinalityType DEF TypeOK
<1>4. Gaps \subseteq Nat /\ Gaps # {}
  BY <1>1, <1>3, SizeAssumption
<1> HIDE DEF Gaps
<1>5. PICK g \in Gaps : \A h \in Gaps : g <= h
  BY <1>4, LeastExists
<1> DEFINE Best == {d \in strict : Size - depth(d) = g}
<1>6. Best # {}
  BY <1>5 DEF Gaps
<1>7. Best \subseteq Nat
  BY <1>1, SizeAssumption DEF Node
<1> HIDE DEF Best
<1>8. PICK b \in Best : \A c \in Best : b <= c
  BY <1>6, <1>7, LeastExists
<1>10. ASSUME NEW e \in strict
       PROVE  depth(b) > depth(e) \/ (depth(b) = depth(e) /\ b <= e)
  <2>1. Size - depth(e) \in Gaps
    BY DEF Gaps
  <2>2. g <= Size - depth(e) /\ Size - depth(b) = g /\ b \in strict
    BY <2>1, <1>5, <1>8 DEF Best
  <2>3. CASE depth(b) = depth(e)
    <3>1. e \in Best
      BY <2>2, <2>3 DEF Best
    <3>2. QED
      BY <2>3, <3>1, <1>8
  <2>4. CASE depth(b) # depth(e)
    <3>1. depth(b) \in Nat /\ depth(e) \in Nat
      BY <1>1, <1>3, <2>2
    <3>2. QED
      BY <2>2, <2>4, <3>1, SizeAssumption
  <2>5. QED
    BY <2>3, <2>4
<1>11. b \in strict
  BY <1>8 DEF Best
<1>12. /\ ClosestDominator(sets, n) \in strict
       /\ \A e \in strict :
            \/ depth(ClosestDominator(sets, n)) > depth(e)
            \/ depth(ClosestDominator(sets, n)) = depth(e) /\ ClosestDominator(sets, n) <= e
  <2> DEFINE Chosen(d) == \A e \in strict :
                 depth(d) > depth(e) \/ (depth(d) = depth(e) /\ d <= e)
  <2>1. Chosen(b)
    BY <1>10
  <2>2. ClosestDominator(sets, n) = CHOOSE d \in strict : Chosen(d)
    BY DEF ClosestDominator
  <2> HIDE DEF Chosen
  <2>3. ClosestDominator(sets, n) \in strict /\ Chosen(ClosestDominator(sets, n))
    BY <2>1, <2>2, <1>11, Zenon
  <2>4. QED
    BY <2>3 DEF Chosen
<1>13. QED
  BY <1>12, <1>1, <1>3
-----------------------------------------------------------------------------
(* Two closed regions together, when each holds the other's avoided node,  *)
(* are closed under all edges.                                             *)
LEMMA DominatorsFormAChain ==
  ASSUME TypeOK, OnlyWalks, root \in Node,
         NEW n \in reachable, NEW d \in Node, NEW e \in Node,
         Dominates(d, n), Dominates(e, n), ~Dominates(d, e)
  PROVE  Dominates(e, d)
<1> SUFFICES ASSUME ~Dominates(e, d) PROVE FALSE
  OBVIOUS
<1>1. PICK S \in SUBSET Node : ClosedAvoiding(S, d) /\ n \notin S
  BY DEF Dominates
<1>2. PICK T \in SUBSET Node : ClosedAvoiding(T, e) /\ n \notin T
  BY DEF Dominates
<1>3. e \in S /\ d \in T
  BY <1>1, <1>2 DEF Dominates
<1> DEFINE U == S \cup T
<1>4. root \in U
  BY <1>1, <1>2, <1>3 DEF ClosedAvoiding
<1>5. \A m \in U : graph[m] \subseteq U
  BY <1>1, <1>2, <1>3 DEF ClosedAvoiding
<1>6. reachable \subseteq U
  BY <1>4, <1>5 DEF OnlyWalks, ClosedUnderEdges
<1>7. QED
  BY <1>1, <1>2, <1>6

(* Dominance is transitive.                                                *)
LEMMA DominanceIsTransitive ==
  ASSUME NEW a \in Node, NEW d \in Node, NEW e \in Node,
         Dominates(a, d), Dominates(d, e)
  PROVE  Dominates(a, e)
<1>1. PICK S \in SUBSET Node : ClosedAvoiding(S, a) /\ d \notin S
  BY DEF Dominates
<1>2. PICK T \in SUBSET Node : ClosedAvoiding(T, d) /\ e \notin T
  BY DEF Dominates
<1> DEFINE U == S \cap T
<1>3. ASSUME root # a PROVE root \in U
  <2>1. root \in S
    BY <1>1, <1>3 DEF ClosedAvoiding
  <2>2. root # d
    BY <2>1, <1>1
  <2>3. QED
    BY <2>1, <2>2, <1>2 DEF ClosedAvoiding
<1>4. ASSUME NEW m \in U, NEW k \in graph[m], k # a PROVE k \in U
  <2>1. k \in S
    BY <1>1, <1>4 DEF ClosedAvoiding
  <2>2. k # d
    BY <2>1, <1>1
  <2>3. QED
    BY <2>1, <2>2, <1>2 DEF ClosedAvoiding
<1>5. ClosedAvoiding(U, a) /\ e \notin U /\ U \in SUBSET Node
  BY <1>2, <1>3, <1>4 DEF ClosedAvoiding
<1>6. QED
  BY <1>5 DEF Dominates

(* A dominator of a reachable node is reachable.                           *)
LEMMA DominatorsAreReachable ==
  ASSUME TypeOK, OnlyWalks, root \in Node, ClosedUnderEdges(reachable),
         NEW n \in reachable, NEW d \in Node, Dominates(d, n)
  PROVE  d \in reachable
<1> SUFFICES ASSUME d \notin reachable PROVE FALSE
  OBVIOUS
<1>1. PICK S \in SUBSET Node : ClosedAvoiding(S, d) /\ n \notin S
  BY DEF Dominates
<1> DEFINE U == S \cap reachable
<1>2. ClosedUnderEdges(U)
  BY <1>1 DEF ClosedUnderEdges, ClosedAvoiding
<1>3. reachable \subseteq U
  BY <1>2, U \in SUBSET Node DEF OnlyWalks
<1>4. QED
  BY <1>1, <1>3

(* Smaller sets have smaller meets.                                        *)
LEMMA MeetIsMonotone ==
  ASSUME NEW g, NEW live, NEW s, NEW t, NEW n,
         \A p \in DOMAIN g : t[p] \subseteq s[p]
  PROVE  MeetAt(g, live, t, n) \subseteq MeetAt(g, live, s, n)
BY DEF MeetAt, PredecessorsIn

(* A meet is a set of nodes.                                               *)
LEMMA MeetType ==
  ASSUME TypeOK, NEW n \in Node
  PROVE  Meet(n) \in SUBSET Node
BY DEF TypeOK, Meet, MeetAt
-----------------------------------------------------------------------------
LEMMA InitEstablishesIInv == Init => IInv
<1> SUFFICES ASSUME Init PROVE IInv
  OBVIOUS
<1>1. TypeOK
  <2>1. PICK call \in Inputs : graph = call[1] /\ root = call[2]
    BY DEF Init
  <2>2. graph \in [Node -> SUBSET Node] /\ root \in 0 .. Size
    BY <2>1, InputsAssumption
  <2>3. node \in 0 .. Size
    BY SizeAssumption DEF Init
  <2>4. QED
    BY <2>2, <2>3 DEF Init, TypeOK
<1>2. FloodInv /\ RootInv
  BY DEF Init, FloodInv, RootInv
<1>3. OnlyWalks
  BY DEF Init, OnlyWalks, ClosedUnderEdges
<1>4. MeetBelow /\ NoDominatorIsLost /\ Settled
  BY DEF Init, MeetBelow, NoDominatorIsLost, Settled, Swept
<1>5. Picked
  BY DEF Init, Picked
<1>6. QED
  BY <1>1, <1>2, <1>3, <1>4, <1>5 DEF IInv

(* Dominance speaks of the inputs alone, which no step changes.            *)
LEMMA DominanceIsStable ==
  ASSUME UNCHANGED input, NEW d, NEW n
  PROVE  Dominates(d, n)' <=> Dominates(d, n)
BY DEF input, Dominates, ClosedAvoiding

LEMMA FloodKeepsIInv ==
  ASSUME IInv, NEW n \in Node, Flood(n)
  PROVE  IInv'
<1> USE DEF IInv, Flood, input
<1>1. TypeOK'
  BY DEF TypeOK
<1>2. root \in Node
  BY DEF RootInv
<1>3. FloodInv'
  BY DEF FloodInv, TypeOK
<1>4. OnlyWalks'
  BY DEF OnlyWalks, ClosedUnderEdges, FloodInv
<1>5. RootInv'
  BY <1>2 DEF RootInv
<1>6. MeetBelow' /\ NoDominatorIsLost' /\ Settled' /\ Picked'
  BY DEF MeetBelow, NoDominatorIsLost, Settled, Picked
<1>7. QED
  BY <1>1, <1>3, <1>4, <1>5, <1>6

LEMMA StartSweepsKeepsIInv ==
  ASSUME IInv, StartSweeps
  PROVE  IInv'
<1> USE DEF IInv, StartSweeps, input
<1>1. root \in Node
  BY DEF RootInv
<1>2. TypeOK'
  BY DEF TypeOK, StartSets, Updates
<1>3. ClosedUnderEdges(reachable)
  BY DEF FloodInv, ClosedUnderEdges
<1>4. /\ sets'[root] = {root}
      /\ \A n \in Swept : sets'[n] = reachable
      /\ \A n \in reachable : sets'[n] \subseteq reachable
  BY <1>1, <1>3 DEF TypeOK, StartSets, Swept, ClosedUnderEdges
<1>5. FloodInv' /\ Picked'
  BY DEF FloodInv, Picked
<1>6. OnlyWalks' /\ RootInv'
  BY <1>1, <1>3, <1>4 DEF OnlyWalks, RootInv, ClosedUnderEdges
<1>7. MeetBelow'
  <2>1. ASSUME NEW n \in Swept
        PROVE  MeetAt(graph, reachable, sets', n) \subseteq reachable
    BY <1>4 DEF MeetAt, Swept
  <2>2. QED
    BY <2>1, <1>4 DEF MeetBelow, Meet, Swept
<1>8. NoDominatorIsLost'
  <2>1. ASSUME NEW n \in reachable, NEW d \in Node, Dominates(d, n)
        PROVE  d \in sets'[n]
    <3>1. CASE n = root
      BY <3>1, <2>1, <1>1, <1>4, RootDominators
    <3>2. CASE n # root
      BY <3>2, <2>1, <1>1, <1>3, <1>4, DominatorsAreReachable DEF Swept
    <3>3. QED
      BY <3>1, <3>2
  <2>2. QED
    BY <2>1, DominanceIsStable DEF NoDominatorIsLost
<1>9. Settled'
  <2>1. node = 0 /\ Swept' = Swept /\ Swept \subseteq Node
    BY DEF FloodInv, Swept, TypeOK
  <2>2. \A n \in Swept : ~ (n < 0)
    BY <2>1, SizeAssumption DEF Node
  <2>3. QED
    BY <2>1, <2>2 DEF Settled
<1>10. QED
  BY <1>2, <1>5, <1>6, <1>7, <1>8, <1>9

(* A visited node takes its meet, and the meets of the others only shrink. *)
LEMMA VisitKeepsIInv ==
  ASSUME IInv, Visit
  PROVE  IInv'
<1> USE DEF IInv, Visit, input
<1> DEFINE next == MeetAt(graph, reachable, sets, node)
<1>1. root \in Node /\ node \in Node
  BY DEF RootInv
<1>2. next = Meet(node) /\ next \in SUBSET Node
  BY <1>1, MeetType DEF Meet
<1> HIDE DEF next
<1>3. \/ /\ node \in Swept
         /\ sets' = [sets EXCEPT ![node] = next]
         /\ changed' = TRUE
      \/ /\ node \in Swept => next = sets[node]
         /\ UNCHANGED <<sets, changed>>
  BY DEF Swept, Updates, next
<1>4. /\ UNCHANGED <<graph, root, pc, pending, reachable, immediate>>
      /\ Swept' = Swept
      /\ pc = "sweep" /\ node' = node + 1
  BY DEF Swept
<1>5. \A n \in Node : sets'[n] \subseteq sets[n]
  BY <1>1, <1>2, <1>3 DEF TypeOK, MeetBelow
<1>6. TypeOK'
  <2>1. node + 1 \in 0 .. Size
    BY <1>1, SizeAssumption DEF Node
  <2>2. QED
    BY <1>1, <1>2, <1>3, <1>4, <2>1 DEF TypeOK
<1>7. FloodInv' /\ OnlyWalks' /\ Picked'
  BY <1>4 DEF FloodInv, OnlyWalks, ClosedUnderEdges, Picked
<1>8. RootInv'
  BY <1>1, <1>3, <1>4 DEF RootInv, ClosedUnderEdges, Swept, TypeOK
<1>9. MeetBelow'
  <2>1. ASSUME NEW n \in Swept
        PROVE  MeetAt(graph, reachable, sets', n) \subseteq sets'[n]
    <3>1. MeetAt(graph, reachable, sets', n) \subseteq Meet(n)
      BY <1>5, MeetIsMonotone DEF TypeOK, Meet
    <3>2. Meet(n) \subseteq sets'[n]
      BY <1>2, <1>3, <1>4 DEF MeetBelow, TypeOK, Swept
    <3>3. QED
      BY <3>1, <3>2
  <2>2. QED
    BY <2>1, <1>4 DEF MeetBelow, Meet
<1>10. NoDominatorIsLost'
  <2>1. ASSUME NEW n \in reachable, NEW d \in Node, Dominates(d, n)
        PROVE  d \in sets'[n]
    <3>1. d \in sets[n] /\ n \in Node
      BY <1>4, <2>1 DEF NoDominatorIsLost, TypeOK
    <3>2. CASE node = n /\ node \in Swept
      <4>1. CASE d = n
        BY <4>1, <3>2, <1>2, <1>3, <3>1 DEF Meet, MeetAt, TypeOK
      <4>2. CASE d # n
        <5>1. \A p \in PredecessorsIn(graph, n) \cap reachable : d \in sets[p]
          BY <2>1, <3>1, <4>2, <1>4, DominatesPredecessors
             DEF NoDominatorIsLost, TypeOK
        <5>2. PredecessorsIn(graph, n) \cap reachable # {}
          BY <3>2, <1>1, <1>4, HasPredecessor
        <5>3. d \in Meet(n)
          BY <5>1, <5>2 DEF Meet, MeetAt, TypeOK
        <5>4. QED
          BY <5>3, <3>1, <3>2, <1>2, <1>3 DEF TypeOK
      <4>3. QED
        BY <4>1, <4>2
    <3>3. CASE ~(node = n /\ node \in Swept)
      BY <3>1, <3>3, <1>3 DEF TypeOK
    <3>4. QED
      BY <3>2, <3>3
  <2>2. QED
    BY <2>1, <1>4, DominanceIsStable DEF NoDominatorIsLost
<1>11. Settled'
  <2>1. ASSUME ~changed', NEW n \in Swept, n < node + 1
        PROVE  sets'[n] = MeetAt(graph, reachable, sets', n)
    <3>1. ~changed /\ sets' = sets /\ (node \in Swept => next = sets[node])
      BY <2>1, <1>3
    <3>2. n \in Node /\ node \in Node
      BY <1>1 DEF Swept, TypeOK
    <3>3. n = node \/ n < node
      BY <2>1, <3>2, SizeAssumption DEF Node
    <3>4. CASE n = node
      BY <3>4, <3>1, <1>2, <2>1 DEF Meet
    <3>5. CASE n < node
      BY <3>5, <3>1, <1>4, <2>1 DEF Settled, Meet
    <3>6. QED
      BY <3>3, <3>4, <3>5
  <2>2. QED
    BY <2>1, <1>4 DEF Settled, Meet
<1>12. QED
  BY <1>6, <1>7, <1>8, <1>9, <1>10, <1>11

LEMMA AgainKeepsIInv ==
  ASSUME IInv, Again
  PROVE  IInv'
<1> USE DEF IInv, Again, input
<1>1. TypeOK'
  <2>1. 0 \in 0 .. Size
    BY SizeAssumption
  <2>2. QED
    BY <2>1 DEF TypeOK
<1>2. FloodInv' /\ OnlyWalks' /\ RootInv' /\ Picked'
  BY DEF FloodInv, OnlyWalks, RootInv, ClosedUnderEdges, Picked
<1>3. MeetBelow'
  BY DEF MeetBelow, Meet, Swept
<1>4. NoDominatorIsLost'
  BY DominanceIsStable DEF NoDominatorIsLost
<1>5. Settled'
  <2>1. Swept' = Swept /\ \A n \in Swept : ~ (n < 0)
    BY SizeAssumption DEF Swept, TypeOK, Node
  <2>2. QED
    BY <2>1 DEF Settled
<1>6. QED
  BY <1>1, <1>2, <1>3, <1>4, <1>5

LEMMA PickImmediateKeepsIInv ==
  ASSUME IInv, PickImmediate
  PROVE  IInv'
<1> USE DEF IInv, PickImmediate, input
<1>1. root \in Node
  BY DEF RootInv
<1>2. TypeOK'
  <2>1. ASSUME NEW n \in Node
        PROVE  ImmediateOf(graph, root, reachable, sets, None)[n] \in Node \cup {None}
    <3>1. CASE Updates(root, reachable, n) /\ sets[n] \ {n} # {}
      BY <3>1, <2>1, ClosestExists DEF ImmediateOf, TypeOK
    <3>2. CASE ~(Updates(root, reachable, n) /\ sets[n] \ {n} # {})
      BY <3>2, <2>1 DEF ImmediateOf, TypeOK
    <3>3. QED
      BY <3>1, <3>2
  <2>2. ImmediateOf(graph, root, reachable, sets, None) \in [Node -> Node \cup {None}]
    BY <2>1 DEF ImmediateOf, TypeOK
  <2>3. QED
    BY <2>2 DEF TypeOK
<1>3. FloodInv' /\ OnlyWalks' /\ RootInv' /\ Picked'
  BY <1>1 DEF FloodInv, OnlyWalks, RootInv, ClosedUnderEdges, Picked
<1>4. MeetBelow'
  BY DEF MeetBelow, Meet, Swept
<1>5. NoDominatorIsLost'
  BY DominanceIsStable DEF NoDominatorIsLost
<1>6. Settled'
  <2>1. Swept' = Swept /\ \A n \in Swept : n < node
    BY SizeAssumption DEF Swept, TypeOK, Node
  <2>2. QED
    BY <2>1 DEF Settled, Meet
<1>7. QED
  BY <1>2, <1>3, <1>4, <1>5, <1>6

LEMMA StutterKeepsIInv ==
  ASSUME IInv, UNCHANGED vars
  PROVE  IInv'
BY DEF IInv, vars, input, TypeOK, FloodInv, OnlyWalks, RootInv, MeetBelow,
       NoDominatorIsLost, Settled, Picked, Swept, Meet, ClosedUnderEdges,
       Dominates, ClosedAvoiding
-----------------------------------------------------------------------------
(* graph_analysis.cpp:64-139.  The inductive invariant holds of every run. *)
THEOREM Invariance == Spec => []IInv
<1>1. Init => IInv
  BY InitEstablishesIInv
<1>2. IInv /\ [Next]_vars => IInv'
  BY FloodKeepsIInv, StartSweepsKeepsIInv, VisitKeepsIInv, AgainKeepsIInv,
     PickImmediateKeepsIInv, StutterKeepsIInv DEF Next
<1>3. QED
  BY <1>1, <1>2, PTL DEF Spec

(* Every variable keeps its type; among others, an immediate dominator is  *)
(* always a node of the graph or absent (graph_analysis.cpp:120-137).      *)
THEOREM TypeCorrect == Spec => []TypeOK
BY Invariance, PTL DEF IInv

(* graph_analysis.cpp:44-62.  The flood marks exactly what walks reach.    *)
THEOREM FloodIsExact == Spec => []ReachableIsExact
<1>1. IInv => ReachableIsExact
  BY DEF IInv, ReachableIsExact, RootInv, OnlyWalks
<1>2. QED
  BY <1>1, Invariance, PTL

(* graph_analysis.cpp:87-118.  In no state of the sweeps does a node lack  *)
(* a dominator: stopping early would err on the side of too many.          *)
THEOREM SweepsLoseNothing == Spec => []NoDominatorIsLost
BY Invariance, PTL DEF IInv

(* At the end the sets hold the dominators and nothing else.               *)
LEMMA FinalSets == IInv => SetsAreTheDominators
<1> SUFFICES ASSUME IInv, pc = "done", NEW n \in reachable, NEW d \in Node
             PROVE  d \in sets[n] <=> Dominates(d, n)
  BY DEF SetsAreTheDominators
<1>1. root \in Node
  BY DEF IInv, RootInv
<1>2. \A m \in Swept : sets[m] = Meet(m)
  BY DEF IInv, Settled
<1>3. d \in sets[n] => Dominates(d, n)
  BY <1>1, <1>2, FixedPointIsSound DEF IInv
<1>4. Dominates(d, n) => d \in sets[n]
  BY DEF IInv, NoDominatorIsLost
<1>5. QED
  BY <1>3, <1>4

(* graph_analysis.cpp:64-118.  The result, for every graph and root.       *)
THEOREM ComputesDominators == Spec => []SetsAreTheDominators
BY FinalSets, Invariance, PTL

(* graph_analysis.cpp:44-118.  In every state the flood is exact, and at   *)
(* the end so are the sets of the nodes it marks.                          *)
THEOREM DominatorsExact == Spec => []DominatorsAreExact
BY FloodIsExact, ComputesDominators, PTL DEF DominatorsAreExact

(* The deepest strict dominator is dominated by all others: of two         *)
(* dominators of n one dominates the other, and the dominated one has the  *)
(* larger set.                                                             *)
LEMMA DeepestIsClosest ==
  ASSUME IInv, pc = "done", root \in Node,
         NEW n \in Swept, NEW i \in sets[n] \ {n},
         \A e \in sets[n] \ {n} : Cardinality(sets[e]) <= Cardinality(sets[i]),
         NEW d \in Node \ {n}, Dominates(d, n)
  PROVE  Dominates(d, i)
<1> SUFFICES ASSUME ~Dominates(d, i) PROVE FALSE
  OBVIOUS
<1> USE DEF IInv
<1>1. n \in reachable /\ n \in Node /\ i \in Node
  BY DEF Swept, TypeOK
<1>2. SetsAreTheDominators /\ ClosedUnderEdges(reachable)
  BY FinalSets DEF RootInv
<1>3. Dominates(i, n) /\ d \in sets[n] \ {n}
  BY <1>1, <1>2 DEF SetsAreTheDominators
<1>4. Dominates(i, d)
  BY <1>1, <1>3, DominatorsFormAChain
<1>5. d \in reachable /\ i \in reachable
  BY <1>1, <1>2, <1>3, DominatorsAreReachable
<1>6. sets[i] \subseteq sets[d]
  <2>1. ASSUME NEW a \in sets[i] PROVE a \in sets[d]
    <3>1. a \in Node /\ Dominates(a, i)
      BY <1>1, <1>2, <1>5 DEF SetsAreTheDominators, TypeOK
    <3>2. Dominates(a, d)
      BY <3>1, <1>1, <1>4, DominanceIsTransitive
    <3>3. QED
      BY <3>1, <3>2, <1>2, <1>5 DEF SetsAreTheDominators
  <2>2. QED
    BY <2>1
<1>7. d \notin sets[i]
  BY <1>2, <1>5 DEF SetsAreTheDominators
<1>8. d \in sets[d]
  <2>1. ClosedAvoiding(Node \ {d}, d)
    BY DEF TypeOK, ClosedAvoiding
  <2>2. Dominates(d, d)
    BY <2>1 DEF Dominates
  <2>3. QED
    BY <2>2, <1>2, <1>5 DEF SetsAreTheDominators
<1>9. IsFiniteSet(sets[d]) /\ Cardinality(sets[d]) \in Nat /\ Cardinality(sets[i]) \in Nat
  <2>1. IsFiniteSet(Node)
    BY FS_Interval, SizeAssumption DEF Node
  <2>2. QED
    BY <2>1, <1>1, FS_Subset, FS_CardinalityType DEF TypeOK
<1>10. Cardinality(sets[i]) <= Cardinality(sets[d]) /\ Cardinality(sets[i]) # Cardinality(sets[d])
  BY <1>6, <1>7, <1>8, <1>9, FS_Subset
<1>11. Cardinality(sets[d]) <= Cardinality(sets[i])
  BY <1>3
<1>12. QED
  BY <1>9, <1>10, <1>11

(* graph_analysis.cpp:120-137.  Counting bits picks the immediate          *)
(* dominator, for every graph and root.                                    *)
THEOREM PicksImmediateDominators == Spec => []ImmediateIsClosest
<1>1. ASSUME IInv, pc = "done", NEW n \in Swept
      PROVE  /\ immediate[n] # n /\ Dominates(immediate[n], n)
             /\ \A d \in Node \ {n} : Dominates(d, n) => Dominates(d, immediate[n])
  <2> USE <1>1 DEF IInv
  <2>1. root \in Node /\ n \in reachable /\ n \in Node
    BY DEF RootInv, Swept, TypeOK
  <2>2. SetsAreTheDominators
    BY FinalSets
  <2>3. root \in sets[n] \ {n}
    <3>1. Dominates(root, n)
      <4>1. ClosedAvoiding({}, root) /\ {} \in SUBSET Node
        BY DEF ClosedAvoiding
      <4>2. QED
        BY <4>1 DEF Dominates
    <3>2. QED
      BY <3>1, <2>1, <2>2 DEF SetsAreTheDominators, Swept
  <2> DEFINE i == ClosestDominator(sets, n)
  <2>4. immediate[n] = i
    BY <2>1, <2>3 DEF Picked, ImmediateOf, Updates, Swept, TypeOK
  <2>5. /\ i \in sets[n] \ {n}
        /\ \A e \in sets[n] \ {n} : Cardinality(sets[e]) <= Cardinality(sets[i])
    BY <2>1, <2>3, ClosestExists
  <2> HIDE DEF i
  <2>6. Dominates(i, n)
    BY <2>1, <2>2, <2>5 DEF SetsAreTheDominators, TypeOK
  <2>7. \A d \in Node \ {n} : Dominates(d, n) => Dominates(d, i)
    BY <2>1, <2>5, DeepestIsClosest
  <2>8. QED
    BY <2>4, <2>5, <2>6, <2>7
<1>2. ASSUME IInv, pc = "done", NEW n \in Node \ Swept
      PROVE  immediate[n] = None
  BY <1>2 DEF IInv, Picked, ImmediateOf, Updates, Swept, TypeOK, RootInv
<1>3. IInv => ImmediateIsClosest
  BY <1>1, <1>2 DEF ImmediateIsClosest, Swept
<1>4. QED
  BY <1>3, Invariance, PTL

(* graph_analysis.cpp:113-116.  The sweeps only remove candidates.         *)
THEOREM SweepsOnlyRemove == Spec => SetsOnlyShrink
<1>1. ASSUME IInv, [Next]_vars, pc = "sweep", NEW n \in Node
      PROVE  sets'[n] \subseteq sets[n]
  <2> USE <1>1
  <2>1. CASE Visit
    BY <2>1 DEF Visit, IInv, TypeOK, MeetBelow, Meet, Updates, Swept
  <2>2. CASE ~Visit
    BY <2>2 DEF Next, Flood, StartSweeps, Again, PickImmediate, vars
  <2>3. QED
    BY <2>1, <2>2
<1>2. IInv /\ [Next]_vars => (pc = "sweep" => \A n \in Node : sets'[n] \subseteq sets[n])
  BY <1>1
<1>3. QED
  BY <1>2, Invariance, PTL DEF Spec, SetsOnlyShrink
=============================================================================
