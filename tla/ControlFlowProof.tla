-------------------------- MODULE ControlFlowProof --------------------------
(***************************************************************************)
(* What every component's proofs rest on: what the floods and sweeps of    *)
(* the analyses come to, and what buildControlFlowGraph makes of a code    *)
(* unit that it accepts, for every such unit; and facts about lists.       *)
(*                                                                         *)
(* A recursive function is a CHOOSE over its own equation: that there is a *)
(* function to choose is proved first, for every set of results and every  *)
(* step.                                                                   *)
(***************************************************************************)
EXTENDS ControlFlow, FiniteSetTheorems, SequenceTheorems, WellFoundedInduction, TLAPS

(* A nonempty set of natural numbers has a least element.                  *)
LEMMA LeastExists ==
  ASSUME NEW S \in SUBSET Nat, S # {}
  PROVE  \E m \in S : \A k \in S : m <= k
<1> DEFINE Less == OpToRel(<, Nat)
<1>1. PICK m \in S : \A k \in S : ~ (<<k, m>> \in Less)
  BY WFMin, NatLessThanWellFounded, Zenon
<1>2. ASSUME NEW j \in Nat, NEW k \in Nat, j < k
      PROVE  <<j, k>> \in Less
  <2> DEFINE pair == <<j, k>>
  <2>1. pair \in Nat \X Nat /\ pair[1] = j /\ pair[2] = k
    OBVIOUS
  <2>2. pair[1] < pair[2]
    BY <2>1, <1>2
  <2> HIDE DEF pair
  <2>3. pair \in Less
    BY <2>1, <2>2 DEF OpToRel
  <2>4. QED
    BY <2>3 DEF pair
<1> HIDE DEF Less
<1>3. ASSUME NEW k \in S PROVE m <= k
  <2>1. k \in Nat /\ m \in Nat
    OBVIOUS
  <2>2. ~ (k < m)
    BY <1>1, <1>2, <2>1
  <2>3. QED
    BY <2>1, <2>2
<1>4. QED
  BY <1>3

(* Induction, of a set in place of a predicate: a set with 0 and with the  *)
(* successor of each of its numbers holds them all.                        *)
LEMMA NatClosed ==
  ASSUME NEW T, 0 \in T, \A k \in Nat : k \in T => k + 1 \in T
  PROVE  Nat \subseteq T
<1> SUFFICES ASSUME Nat \ T # {} PROVE FALSE  OBVIOUS
<1>1. PICK m \in Nat \ T : \A k \in Nat \ T : m <= k  BY LeastExists
<1>2. m # 0  OBVIOUS
<1>3. m - 1 \in Nat /\ m - 1 + 1 = m  BY <1>2
<1>4. m - 1 \in T
  <2>1. ~ (m <= m - 1)  OBVIOUS
  <2> QED  BY <1>1, <1>3, <2>1
<1> QED  BY <1>3, <1>4

(* g runs through the results of the first n steps.                        *)
Runs(g, n, S, step, start) ==
  /\ g \in [0 .. n -> S] /\ g[0] = start
  /\ \A k \in 1 .. n : g[k] = step[g[k - 1]]

LEMMA RunsExist ==
  ASSUME NEW S, NEW step \in [S -> S], NEW start \in S, NEW n \in Nat
  PROVE  \E g : Runs(g, n, S, step, start)
<1> DEFINE T == {m \in Nat : \E g : Runs(g, m, S, step, start)}
<1>1. 0 \in T
  <2>1. Runs([k \in 0 .. 0 |-> start], 0, S, step, start)  BY DEF Runs
  <2> QED  BY <2>1
<1>2. ASSUME NEW m \in Nat, m \in T PROVE m + 1 \in T
  <2>1. PICK g : Runs(g, m, S, step, start)  BY <1>2
  <2> DEFINE h == [k \in 0 .. m + 1 |-> IF k = m + 1 THEN step[g[m]] ELSE g[k]]
  <2>2. g \in [0 .. m -> S] /\ m \in 0 .. m  BY <2>1 DEF Runs
  <2>3. h \in [0 .. m + 1 -> S]
    <3>1. ASSUME NEW k \in 0 .. m + 1 PROVE h[k] \in S
      <4>1. CASE k = m + 1  BY <2>2, <4>1
      <4>2. CASE k # m + 1
        <5>1. k \in 0 .. m  BY <4>2
        <5> QED  BY <2>2, <4>2, <5>1
      <4> QED  BY <4>1, <4>2
    <3> QED  BY <3>1
  <2>4. h[0] = start  BY <2>1 DEF Runs
  <2>5. ASSUME NEW k \in 1 .. m + 1 PROVE h[k] = step[h[k - 1]]
    <3>1. CASE k = m + 1
      <4>1. k - 1 = m /\ h[k - 1] = g[m] /\ h[k] = step[g[m]]  BY <3>1
      <4> QED  BY <4>1
    <3>2. CASE k # m + 1
      <4>1. k \in 1 .. m /\ k - 1 \in 0 .. m  BY <3>2
      <4>2. h[k] = g[k] /\ h[k - 1] = g[k - 1]  BY <4>1
      <4> QED  BY <2>1, <4>1, <4>2 DEF Runs
    <3> QED  BY <3>1, <3>2
  <2> HIDE DEF h
  <2>6. Runs(h, m + 1, S, step, start)  BY <2>3, <2>4, <2>5 DEF Runs
  <2> QED  BY <2>6
<1> HIDE DEF T
<1>3. Nat \subseteq T  BY <1>1, <1>2, NatClosed
<1> QED  BY <1>3 DEF T

(* Two of them agree as far as both go.                                    *)
LEMMA RunsAgree ==
  ASSUME NEW S, NEW step, NEW start, NEW m \in Nat, NEW n \in Nat, m <= n,
         NEW g, Runs(g, m, S, step, start), NEW h, Runs(h, n, S, step, start)
  PROVE  g[m] = h[m]
<1> DEFINE T == {k \in Nat : k <= m => g[k] = h[k]}
<1>1. 0 \in T  BY DEF Runs
<1>2. ASSUME NEW k \in Nat, k \in T PROVE k + 1 \in T
  <2> SUFFICES ASSUME k + 1 <= m PROVE g[k + 1] = h[k + 1]  OBVIOUS
  <2>1. k + 1 \in 1 .. m /\ k + 1 \in 1 .. n /\ k + 1 - 1 = k  OBVIOUS
  <2>2. g[k] = h[k]  BY <1>2
  <2> QED  BY <2>1, <2>2 DEF Runs
<1> HIDE DEF T
<1>3. Nat \subseteq T  BY <1>1, <1>2, NatClosed
<1> QED  BY <1>3 DEF T

Iterates(f, S, step, start) ==
  f \in [Nat -> S] /\ f[0] = start /\ \A k \in Nat : f[k + 1] = step[f[k]]

(* So for every set of results and every step there is the function of the *)
(* number of steps.                                                        *)
LEMMA IterationExists ==
  ASSUME NEW S, NEW step \in [S -> S], NEW start \in S
  PROVE  \E f : Iterates(f, S, step, start)
<1> DEFINE run(n) == CHOOSE g : Runs(g, n, S, step, start)
           f == [n \in Nat |-> run(n)[n]]
<1>1. ASSUME NEW n \in Nat PROVE Runs(run(n), n, S, step, start)
  <2>1. \E g : Runs(g, n, S, step, start)  BY RunsExist
  <2> QED  BY <2>1
<1> HIDE DEF run
<1>2. \A n \in Nat : f[n] \in S
  <2> TAKE n \in Nat
  <2>1. run(n) \in [0 .. n -> S] /\ n \in 0 .. n  BY <1>1 DEF Runs
  <2> QED  BY <2>1
<1>3. f[0] = start  BY <1>1 DEF Runs
<1>4. ASSUME NEW k \in Nat PROVE f[k + 1] = step[f[k]]
  <2>1. k + 1 \in Nat /\ k + 1 \in 1 .. k + 1 /\ k + 1 - 1 = k /\ k <= k + 1  OBVIOUS
  <2>2. run(k + 1)[k + 1] = step[run(k + 1)[k]]  BY <1>1, <2>1 DEF Runs
  <2>3. run(k)[k] = run(k + 1)[k]  BY <1>1, <2>1, RunsAgree
  <2> QED  BY <2>2, <2>3
<1> HIDE DEF f
<1>5. f \in [Nat -> S]  BY <1>2 DEF f
<1> QED  BY <1>3, <1>4, <1>5 DEF Iterates
(* The same of a loop that counts: its step is told the number.            *)
Loops(f, S, step, start) ==
  f \in [Nat -> S] /\ f[0] = start /\ \A k \in Nat : f[k + 1] = step[<<f[k], k>>]

LEMMA LoopExists ==
  ASSUME NEW S, NEW step \in [S \X Nat -> S], NEW start \in S
  PROVE  \E f : Loops(f, S, step, start)
<1> DEFINE P == S \X Nat
           counted == [p \in P |-> <<step[p], p[2] + 1>>]
<1>1. counted \in [P -> P] /\ <<start, 0>> \in P
  <2>1. \A p \in P : <<step[p], p[2] + 1>> \in P  OBVIOUS
  <2> QED  BY <2>1
<1>2. PICK g : Iterates(g, P, counted, <<start, 0>>)
  <2> HIDE DEF P, counted
  <2> QED  BY <1>1, IterationExists
<1>3. /\ g \in [Nat -> P] /\ g[0] = <<start, 0>>
      /\ \A k \in Nat : g[k + 1] = counted[g[k]]
  BY <1>2 DEF Iterates
<1>4. \A k \in Nat : g[k + 1] = <<step[g[k]], g[k][2] + 1>>
  <2>1. \A k \in Nat : g[k] \in P  BY <1>3
  <2> HIDE DEF P
  <2> QED  BY <1>3, <2>1
<1> DEFINE T == {k \in Nat : g[k][2] = k}
<1>5. 0 \in T /\ \A k \in Nat : k \in T => k + 1 \in T  BY <1>3, <1>4
<1> HIDE DEF T
<1>6. \A k \in Nat : g[k][2] = k  BY <1>5, NatClosed DEF T
<1> DEFINE f == [k \in Nat |-> g[k][1]]
<1>7. ASSUME NEW k \in Nat PROVE g[k] = <<f[k], k>> /\ f[k] \in S
  BY <1>3, <1>6
<1>8. ASSUME NEW k \in Nat PROVE f[k + 1] = step[<<f[k], k>>]
  <2>1. k + 1 \in Nat  OBVIOUS
  <2>2. f[k + 1] = g[k + 1][1]  BY <2>1
  <2>3. g[k + 1][1] = step[g[k]]  BY <1>4
  <2> QED  BY <1>7, <2>2, <2>3
<1>9. f[0] = start  BY <1>3
<1> HIDE DEF f
<1>10. f \in [Nat -> S]
  <2>1. f = [k \in Nat |-> f[k]]  BY DEF f
  <2> QED  BY <1>7, <2>1
<1> QED  BY <1>8, <1>9, <1>10 DEF Loops

(* A loop over the numbers below n.                                        *)
LoopsTo(f, n, S, step, start) ==
  /\ f \in [0 .. n -> S] /\ f[0] = start
  /\ \A k \in 0 .. n - 1 : f[k + 1] = step[<<f[k], k>>]

LEMMA LoopToExists ==
  ASSUME NEW n \in Nat, NEW S, NEW step \in [S \X (0 .. n - 1) -> S], NEW start \in S
  PROVE  \E f : LoopsTo(f, n, S, step, start)
<1> DEFINE on == [p \in S \X Nat |-> IF p[2] < n THEN step[p] ELSE p[1]]
<1>1. on \in [S \X Nat -> S]
  <2>1. ASSUME NEW p \in S \X Nat PROVE on[p] \in S
    <3>1. p = <<p[1], p[2]>> /\ p[1] \in S /\ p[2] \in Nat  OBVIOUS
    <3>2. p[2] < n => p \in S \X (0 .. n - 1)  BY <3>1
    <3> QED  BY <3>1, <3>2
  <2> QED  BY <2>1
<1>2. PICK f : Loops(f, S, on, start)
  <2> HIDE DEF on
  <2> QED  BY <1>1, LoopExists
<1> DEFINE h == [k \in 0 .. n |-> f[k]]
<1>3. h \in [0 .. n -> S] /\ h[0] = start  BY <1>2 DEF Loops
<1>4. ASSUME NEW k \in 0 .. n - 1 PROVE h[k + 1] = step[<<h[k], k>>]
  <2>1. k \in Nat /\ k < n /\ k \in 0 .. n /\ k + 1 \in 0 .. n  OBVIOUS
  <2>2. f[k] \in S /\ f[k + 1] = on[<<f[k], k>>]  BY <1>2, <2>1 DEF Loops
  <2>3. <<f[k], k>> \in S \X Nat  BY <2>1, <2>2
  <2>4. on[<<f[k], k>>] = step[<<f[k], k>>]  BY <2>1, <2>3
  <2> QED  BY <2>1, <2>2, <2>4
<1> HIDE DEF h
<1>5. LoopsTo(h, n, S, step, start)  BY <1>3, <1>4 DEF LoopsTo
<1> QED  BY <1>5

(* Induction up to a bound.                                                *)
LEMMA ClosedUpTo ==
  ASSUME NEW n \in Nat, NEW T, 0 \in T, \A k \in 0 .. n - 1 : k \in T => k + 1 \in T
  PROVE  0 .. n \subseteq T
<1> DEFINE U == {k \in Nat : k <= n => k \in T}
<1>1. 0 \in U  OBVIOUS
<1>2. ASSUME NEW k \in Nat, k \in U PROVE k + 1 \in U
  <2> SUFFICES ASSUME k + 1 <= n PROVE k + 1 \in T  OBVIOUS
  <2>1. k \in 0 .. n - 1 /\ k <= n  OBVIOUS
  <2> QED  BY <1>2, <2>1
<1> HIDE DEF U
<1>3. Nat \subseteq U  BY <1>1, <1>2, NatClosed
<1> QED  BY <1>3 DEF U
-----------------------------------------------------------------------------
(* One round of a flood.                                                   *)
Spread(graph, within, m) == m \cup (within \cap UNION {graph[b] : b \in m})

Rounds(graph, within, marked) ==
  CHOOSE r : r = [k \in Nat |-> IF k = 0 THEN marked ELSE Spread(graph, within, r[k - 1])]

(* The rounds of a flood follow each other as its definition says.         *)
LEMMA FloodUnfolds ==
  ASSUME NEW graph, NEW within, NEW marked
  PROVE  /\ Rounds(graph, within, marked)[0] = marked
         /\ \A k \in Nat : Rounds(graph, within, marked)[k + 1]
                            = Spread(graph, within, Rounds(graph, within, marked)[k])
         /\ Flooded(graph, within, marked) = Rounds(graph, within, marked)[Cardinality(within)]
<1> DEFINE S == SUBSET (marked \cup within)
           step == [m \in S |-> Spread(graph, within, m)]
<1> DEFINE Eq(r) == r = [k \in Nat |-> IF k = 0 THEN marked ELSE Spread(graph, within, r[k - 1])]
           r == Rounds(graph, within, marked)
<1>1. step \in [S -> S] /\ marked \in S
  <2>1. \A m \in S : Spread(graph, within, m) \in S  BY DEF Spread
  <2> QED  BY <2>1
<1>2. PICK f : Iterates(f, S, step, marked)
  <2> HIDE DEF S, step
  <2> QED  BY <1>1, IterationExists
<1>3. Eq(f)
  <2>1. ASSUME NEW k \in Nat
        PROVE  f[k] = IF k = 0 THEN marked ELSE Spread(graph, within, f[k - 1])
    <3>1. CASE k = 0  BY <1>2, <3>1 DEF Iterates
    <3>2. CASE k # 0
      <4>1. k - 1 \in Nat /\ k - 1 + 1 = k  BY <3>2
      <4>2. f[k] = step[f[k - 1]] /\ f[k - 1] \in S  BY <1>2, <4>1 DEF Iterates
      <4> QED  BY <3>2, <4>2
    <3> QED  BY <3>1, <3>2
  <2> HIDE DEF S
  <2> QED  BY <1>2, <2>1 DEF Iterates
<1>4. Eq(r)
  <2>1. r = CHOOSE g : Eq(g)  BY DEF Rounds
  <2> HIDE DEF Eq, r
  <2> QED  BY <1>3, <2>1
<1>5. Flooded(graph, within, marked) = r[Cardinality(within)]
  BY Zenon DEF Flooded, Iterate, Rounds, Spread
<1>6. r[0] = marked  BY <1>4
<1>7. \A k \in Nat : r[k + 1] = Spread(graph, within, r[k])
  <2> HIDE DEF r
  <2> TAKE k \in Nat
  <2>1. k + 1 \in Nat /\ k + 1 # 0 /\ k + 1 - 1 = k  OBVIOUS
  <2>2. r[k + 1] = Spread(graph, within, r[k + 1 - 1])  BY <1>4, <2>1
  <2> QED  BY <2>1, <2>2
<1> QED  BY <1>5, <1>6, <1>7

(* No round leaves a set that holds the seeds and that edges into within   *)
(* do not leave.                                                           *)
LEMMA RoundsStayInside ==
  ASSUME NEW graph, NEW within, NEW marked, NEW S, marked \subseteq S,
         \A b \in S : graph[b] \cap within \subseteq S
  PROVE  \A k \in Nat : Rounds(graph, within, marked)[k] \subseteq S
<1> DEFINE r == Rounds(graph, within, marked)
           T == {k \in Nat : r[k] \subseteq S}
<1>1. 0 \in T  BY FloodUnfolds
<1>2. ASSUME NEW k \in Nat, k \in T PROVE k + 1 \in T
  <2>1. r[k + 1] = Spread(graph, within, r[k])  BY FloodUnfolds
  <2>2. Spread(graph, within, r[k]) \subseteq S  BY <1>2 DEF Spread
  <2> QED  BY <2>1, <2>2
<1> HIDE DEF T
<1>3. Nat \subseteq T  BY <1>1, <1>2, NatClosed
<1> QED  BY <1>3 DEF T

(* A flood is the least set with its seeds that edges into within do not   *)
(* leave: the number of rounds is enough for every finite set.             *)
LEMMA FloodIsLeast ==
  ASSUME NEW graph, NEW within, NEW marked, NEW S, IsFiniteSet(within), marked \subseteq S,
         \A b \in S : graph[b] \cap within \subseteq S
  PROVE  Flooded(graph, within, marked) \subseteq S
<1>1. Cardinality(within) \in Nat  BY FS_CardinalityType
<1>2. \A k \in Nat : Rounds(graph, within, marked)[k] \subseteq S  BY RoundsStayInside
<1> QED  BY <1>1, <1>2, FloodUnfolds

LEMMA FloodIsClosed ==
  ASSUME NEW graph, NEW within, NEW marked, IsFiniteSet(within)
  PROVE  /\ marked \subseteq Flooded(graph, within, marked)
         /\ Flooded(graph, within, marked) \subseteq marked \cup within
         /\ \A b \in Flooded(graph, within, marked) :
              graph[b] \cap within \subseteq Flooded(graph, within, marked)
<1> DEFINE r == Rounds(graph, within, marked)
           N == Cardinality(within)
           new(k) == (r[k] \ marked) \cap within
<1>0. N \in Nat  BY FS_CardinalityType
<1>1. \A k \in Nat : r[k] \subseteq marked \cup within  BY RoundsStayInside
<1>2. \A k \in Nat : r[k + 1] = Spread(graph, within, r[k])  BY FloodUnfolds
<1>3. r[0] = marked /\ Flooded(graph, within, marked) = r[N]  BY FloodUnfolds
<1> HIDE DEF r, N
<1>4. \A k \in Nat : marked \subseteq r[k]
  <2> DEFINE T == {k \in Nat : marked \subseteq r[k]}
  <2>1. 0 \in T /\ \A k \in Nat : k \in T => k + 1 \in T  BY <1>2, <1>3 DEF Spread
  <2> HIDE DEF T
  <2>2. Nat \subseteq T  BY <2>1, NatClosed
  <2> QED  BY <2>2 DEF T
<1>5. \A k \in Nat : IsFiniteSet(new(k)) /\ Cardinality(new(k)) \in Nat /\ Cardinality(new(k)) <= N
  BY FS_Subset, FS_CardinalityType DEF N
<1>6. \A k \in Nat : r[k + 1] # r[k] => Cardinality(new(k + 1)) > Cardinality(new(k))
  <2> SUFFICES ASSUME NEW k \in Nat, r[k + 1] # r[k]
               PROVE  Cardinality(new(k + 1)) > Cardinality(new(k))
    OBVIOUS
  <2>1. PICK b \in within : b \in r[k + 1] /\ b \notin r[k]  BY <1>2 DEF Spread
  <2>2. b \in new(k + 1) /\ b \notin new(k) /\ new(k) \subseteq new(k + 1)
    BY <1>2, <1>4, <2>1 DEF Spread
  <2>3. k + 1 \in Nat  OBVIOUS
  <2> HIDE DEF new
  <2> QED  BY <1>5, <2>2, <2>3, FS_Subset
<1> HIDE DEF new
<1>7. r[N + 1] = r[N]
  <2> DEFINE T == {k \in Nat : k <= N => r[k + 1] = r[k] \/ Cardinality(new(k + 1)) > k}
  <2>1. 0 \in T  BY <1>5, <1>6
  <2>2. ASSUME NEW k \in Nat, k \in T PROVE k + 1 \in T
    <3> SUFFICES ASSUME k + 1 <= N, r[k + 1 + 1] # r[k + 1]
                 PROVE  Cardinality(new(k + 1 + 1)) > k + 1
      OBVIOUS
    <3>1. r[k + 1] # r[k]  BY <1>2
    <3>2. k <= N  BY <1>0
    <3>3. Cardinality(new(k + 1)) > k  BY <2>2, <3>1, <3>2
    <3>4. Cardinality(new(k + 1 + 1)) > Cardinality(new(k + 1))  BY <1>6
    <3>5. Cardinality(new(k + 1)) \in Nat /\ Cardinality(new(k + 1 + 1)) \in Nat
      <4>1. k + 1 \in Nat /\ k + 1 + 1 \in Nat  OBVIOUS
      <4> QED  BY <1>5, <4>1
    <3> QED  BY <3>3, <3>4, <3>5
  <2> HIDE DEF T
  <2>3. N \in T  BY <1>0, <2>1, <2>2, NatClosed
  <2>4. N <= N /\ N + 1 \in Nat  BY <1>0
  <2>5. ~ (Cardinality(new(N + 1)) > N)  BY <1>0, <1>5, <2>4
  <2> QED  BY <2>3, <2>4, <2>5 DEF T
<1>8. \A b \in r[N] : graph[b] \cap within \subseteq r[N]  BY <1>0, <1>2, <1>7 DEF Spread
<1> QED  BY <1>0, <1>1, <1>3, <1>4, <1>8
-----------------------------------------------------------------------------
(* The graph of a code unit.                                               *)
Unit(c) ==
  /\ IsFiniteSet(DOMAIN c) /\ 0 \in DOMAIN c /\ DOMAIN c = 0 .. Size(c) - 1
  /\ \A i \in DOMAIN c : c[i].op \in Opcodes

Accepted(c) == Unit(c) /\ ~CfgRejects(c)

(* The leaders up to an instruction, which BlockOf counts.                 *)
UpTo(c, i) == {l \in Leaders(c) : l <= i}

(* The place of a number among those of S.                                 *)
Rank(S, x) == Cardinality({y \in S : y <= x})

LEMMA RankIsAPlace ==
  ASSUME NEW S, IsFiniteSet(S), S \subseteq Int, NEW x \in S
  PROVE  Rank(S, x) \in 1 .. Cardinality(S)
<1> DEFINE T == {y \in S : y <= x}
<1>1. T \in SUBSET S /\ x \in T  OBVIOUS
<1>2. IsFiniteSet(T) /\ Cardinality(T) <= Cardinality(S)  BY <1>1, FS_Subset
<1>3. Cardinality(T) \in Nat /\ Cardinality(T) # 0 /\ Cardinality(S) \in Nat
  BY <1>1, <1>2, FS_CardinalityType, FS_EmptySet
<1> QED  BY <1>2, <1>3 DEF Rank

LEMMA RanksDiffer ==
  ASSUME NEW S, IsFiniteSet(S), S \subseteq Int, NEW x \in S, NEW y \in S, Rank(S, x) = Rank(S, y)
  PROVE  x = y
<1>1. ASSUME NEW u \in S, NEW v \in S, u < v, Rank(S, u) = Rank(S, v) PROVE FALSE
  <2> DEFINE T == {z \in S : z <= u}
             U == {z \in S : z <= v}
  <2>0. u \in Int /\ v \in Int /\ \A z \in S : z \in Int  OBVIOUS
  <2>1. U \in SUBSET S /\ T \in SUBSET U
    <3>1. \A z \in S : z <= u => z <= v  BY <1>1, <2>0
    <3> QED  BY <3>1
  <2>2. v \in U /\ v \notin T  BY <1>1
  <2>3. IsFiniteSet(U)  BY <2>1, FS_Subset
  <2>4. Cardinality(T) = Cardinality(U)  BY <1>1 DEF Rank
  <2>5. T = U  BY <2>1, <2>3, <2>4, FS_Subset
  <2> QED  BY <2>2, <2>5
<1> QED  BY <1>1

(* The list in ascending order holds each number once, at its place.       *)
LEMMA AscendingListsAll ==
  ASSUME NEW S, IsFiniteSet(S), S \subseteq Int
  PROVE  /\ \A i \in 1 .. Cardinality(S) :
              Ascending(S)[i] \in S /\ Rank(S, Ascending(S)[i]) = i
         /\ \A x \in S : Ascending(S)[Rank(S, x)] = x
         /\ ToSet(Ascending(S)) = S /\ IsInjective(Ascending(S))
<1> DEFINE n == Cardinality(S)
           f == [x \in S |-> Rank(S, x)]
           A == Ascending(S)
<1>1. n \in Nat /\ IsFiniteSet(1 .. n) /\ Cardinality(1 .. n) = n
  BY FS_CardinalityType, FS_Interval
<1>2. f \in Injection(S, 1 .. n)
  BY RankIsAPlace, RanksDiffer DEF Injection, IsInjective
<1>3. f \in Surjection(S, 1 .. n)  BY <1>1, <1>2, FS_Injection
<1>4. \A i \in 1 .. n : \E x \in S : Rank(S, x) = i  BY <1>3 DEF Surjection
<1>5. A = [i \in 1 .. n |-> CHOOSE x \in S : Rank(S, x) = i]  BY DEF Ascending, Rank
<1>6. \A i \in 1 .. n : A[i] \in S /\ Rank(S, A[i]) = i  BY <1>4, <1>5
<1>7. \A x \in S : Rank(S, x) \in 1 .. n /\ A[Rank(S, x)] = x  BY <1>6, RankIsAPlace, RanksDiffer
<1>8. DOMAIN A = 1 .. n  BY <1>5
<1> HIDE DEF A, n
<1>9. ToSet(A) = S  BY <1>6, <1>7, <1>8 DEF ToSet
<1>10. IsInjective(A)  BY <1>6, <1>8 DEF IsInjective
<1> QED  BY <1>6, <1>7, <1>9, <1>10 DEF A, n

LEMMA SizeIsNatural ==
  ASSUME NEW c, Unit(c)
  PROVE  Size(c) \in Nat /\ Size(c) > 0
<1>1. Size(c) \in Nat  BY FS_CardinalityType DEF Unit, Size
<1> QED  BY <1>1 DEF Unit

LEMMA InstructionsAreNatural ==
  ASSUME NEW c, Accepted(c)
  PROVE  DOMAIN c \subseteq Nat /\ Size(c) \in Nat
<1>1. Unit(c)  BY DEF Accepted
<1>2. Size(c) \in Nat  BY <1>1, SizeIsNatural
<1> QED  BY <1>1, <1>2 DEF Unit

(* Leaders are instructions, the first among them.                         *)
LEMMA LeadersAreInstructions ==
  ASSUME NEW c, Accepted(c)
  PROVE  /\ Leaders(c) \subseteq DOMAIN c /\ 0 \in Leaders(c)
         /\ Leaders(c) \subseteq Nat
         /\ IsFiniteSet(Leaders(c)) /\ Cardinality(Leaders(c)) \in Nat
<1>1. Leaders(c) \subseteq DOMAIN c /\ 0 \in Leaders(c)
  BY DEF Accepted, Unit, Leaders, CfgRejects, TargetOK
<1>2. DOMAIN c \subseteq Nat  BY InstructionsAreNatural
<1>3. IsFiniteSet(Leaders(c))  BY <1>1, FS_Subset DEF Accepted, Unit
<1> QED  BY <1>1, <1>2, <1>3, FS_CardinalityType

LEMMA UpToIsFinite ==
  ASSUME NEW c, Accepted(c), NEW i \in Nat
  PROVE  /\ IsFiniteSet(UpTo(c, i)) /\ Cardinality(UpTo(c, i)) \in Nat
         /\ Cardinality(UpTo(c, i)) <= Cardinality(Leaders(c))
         /\ Cardinality(UpTo(c, i)) > 0
         /\ BlockOf(c, i) = Cardinality(UpTo(c, i)) - 1
<1>1. UpTo(c, i) \subseteq Leaders(c)  BY DEF UpTo
<1>2. /\ IsFiniteSet(UpTo(c, i)) /\ Cardinality(UpTo(c, i)) \in Nat
      /\ Cardinality(UpTo(c, i)) <= Cardinality(Leaders(c))
  BY <1>1, FS_Subset, FS_CardinalityType, LeadersAreInstructions
<1>3. 0 \in UpTo(c, i)  BY LeadersAreInstructions DEF UpTo
<1>4. UpTo(c, i) # {}  BY <1>3
<1>5. Cardinality(UpTo(c, i)) # 0  BY <1>2, <1>4, FS_EmptySet
<1>6. BlockOf(c, i) = Cardinality(UpTo(c, i)) - 1  BY DEF BlockOf, UpTo
<1> QED  BY <1>2, <1>5, <1>6

LEMMA StartsInFirstBlock ==
  ASSUME NEW c, Accepted(c)
  PROVE  BlockOf(c, 0) = 0
<1>1. UpTo(c, 0) = {0}  BY LeadersAreInstructions DEF UpTo
<1>2. Cardinality({0}) = 1  BY FS_Singleton
<1>3. BlockOf(c, 0) = Cardinality(UpTo(c, 0)) - 1  BY UpToIsFinite
<1> QED  BY <1>1, <1>2, <1>3

(* The block of an instruction is one of the blocks.                       *)
LEMMA BlockOfIsABlock ==
  ASSUME NEW c, Accepted(c), NEW i \in Nat
  PROVE  BlockOf(c, i) \in BlockIds(c)
BY UpToIsFinite, LeadersAreInstructions DEF BlockIds

(* A leader starts the block it is in.                                     *)
LEMMA LeaderStartsItsBlock ==
  ASSUME NEW c, Accepted(c), NEW l \in Leaders(c)
  PROVE  BlockStart(c, BlockOf(c, l)) = l
<1>1. IsFiniteSet(Leaders(c)) /\ Leaders(c) \subseteq Int /\ l \in Nat  BY LeadersAreInstructions
<1>2. Rank(Leaders(c), l) \in Nat /\ Ascending(Leaders(c))[Rank(Leaders(c), l)] = l
  BY <1>1, AscendingListsAll, RankIsAPlace, FS_CardinalityType
<1>3. BlockOf(c, l) + 1 = Rank(Leaders(c), l)  BY <1>2 DEF BlockOf, Rank
<1> QED  BY <1>2, <1>3 DEF BlockStart

(* Behind an instruction that no leader follows, its block goes on.        *)
LEMMA BlockGoesOn ==
  ASSUME NEW c, Accepted(c), NEW i \in Nat, i + 1 \notin Leaders(c)
  PROVE  BlockOf(c, i + 1) = BlockOf(c, i)
<1>1. UpTo(c, i + 1) = UpTo(c, i)  BY LeadersAreInstructions DEF UpTo
<1> QED  BY <1>1, UpToIsFinite

(* An instruction that a leader, or nothing, follows is the last of its    *)
(* block.                                                                  *)
LEMMA BlockEndsThere ==
  ASSUME NEW c, Accepted(c), NEW i \in DOMAIN c, i + 1 \in Leaders(c) \/ i + 1 \notin DOMAIN c
  PROVE  BlockEnd(c, BlockOf(c, i)) = i + 1
<1>0. i \in Nat /\ Size(c) \in Nat  BY InstructionsAreNatural
<1>1. CASE i + 1 \in Leaders(c)
  <2>1. UpTo(c, i + 1) = UpTo(c, i) \cup {i + 1}  BY <1>0, <1>1, LeadersAreInstructions DEF UpTo
  <2>2. i + 1 \notin UpTo(c, i)  BY <1>0 DEF UpTo
  <2>3. Cardinality(UpTo(c, i + 1)) = Cardinality(UpTo(c, i)) + 1
    BY <1>0, <2>1, <2>2, UpToIsFinite, FS_AddElement
  <2>4. BlockOf(c, i + 1) = BlockOf(c, i) + 1  BY <1>0, <2>3, UpToIsFinite
  <2>5. BlockOf(c, i) + 1 \in BlockIds(c)  BY <1>0, <2>4, BlockOfIsABlock
  <2>6. BlockStart(c, BlockOf(c, i) + 1) = i + 1  BY <1>1, <2>4, LeaderStartsItsBlock
  <2> QED  BY <2>5, <2>6 DEF BlockEnd
<1>2. CASE i + 1 \notin DOMAIN c
  <2>1. i + 1 = Size(c)  BY <1>0, <1>2 DEF Accepted, Unit
  <2>2. UpTo(c, i) = Leaders(c)  BY <1>0, <2>1, LeadersAreInstructions DEF UpTo, Accepted, Unit
  <2>3. BlockOf(c, i) = Cardinality(Leaders(c)) - 1  BY <1>0, <2>2, UpToIsFinite
  <2>4. BlockOf(c, i) + 1 \notin BlockIds(c)  BY <2>3, LeadersAreInstructions DEF BlockIds
  <2> QED  BY <2>1, <2>4 DEF BlockEnd
<1> QED  BY <1>1, <1>2

(* So a terminator is the last of its block.                               *)
LEMMA TerminatorsEndBlocks ==
  ASSUME NEW c, Accepted(c), NEW i \in DOMAIN c, Terminator(c[i].op)
  PROVE  BlockEnd(c, BlockOf(c, i)) - 1 = i
<1>0. i \in Nat  BY InstructionsAreNatural
<1>1. i + 1 \in Leaders(c) \/ i + 1 \notin DOMAIN c  BY DEF Leaders
<1> QED  BY <1>0, <1>1, BlockEndsThere

(* Leaders lie in the order of their blocks.                               *)
LEMMA BlocksAreInOrder ==
  ASSUME NEW c, Accepted(c), NEW l \in Leaders(c), NEW i \in Nat
  PROVE  l <= i <=> BlockOf(c, l) <= BlockOf(c, i)
<1>0. l \in Nat  BY LeadersAreInstructions
<1>1. ASSUME l <= i PROVE BlockOf(c, l) <= BlockOf(c, i)
  <2>1. UpTo(c, l) \subseteq UpTo(c, i)  BY <1>0, <1>1, LeadersAreInstructions DEF UpTo
  <2> QED  BY <1>0, <2>1, UpToIsFinite, FS_Subset
<1>2. ASSUME i < l PROVE BlockOf(c, i) < BlockOf(c, l)
  <2>1. UpTo(c, i) \subseteq UpTo(c, l)  BY <1>0, <1>2, LeadersAreInstructions DEF UpTo
  <2>2. l \in UpTo(c, l) /\ l \notin UpTo(c, i)  BY <1>0, <1>2 DEF UpTo
  <2>3. Cardinality(UpTo(c, i)) # Cardinality(UpTo(c, l))
    BY <1>0, <2>1, <2>2, UpToIsFinite, FS_Subset
  <2>4. Cardinality(UpTo(c, i)) <= Cardinality(UpTo(c, l))  BY <1>0, <2>1, UpToIsFinite, FS_Subset
  <2> QED  BY <1>0, <2>3, <2>4, UpToIsFinite
<1>3. BlockOf(c, l) \in Int /\ BlockOf(c, i) \in Int  BY <1>0, UpToIsFinite
<1> QED  BY <1>0, <1>1, <1>2, <1>3

(* Every block has its leader: as many leaders as blocks, told apart.      *)
LEMMA BlocksHaveLeaders ==
  ASSUME NEW c, Accepted(c), NEW b \in BlockIds(c)
  PROVE  BlockStart(c, b) \in Leaders(c) /\ BlockOf(c, BlockStart(c, b)) = b
<1>1. b \in Nat /\ b + 1 \in 1 .. Cardinality(Leaders(c))
  BY LeadersAreInstructions DEF BlockIds
<1>2. IsFiniteSet(Leaders(c)) /\ Leaders(c) \subseteq Int  BY LeadersAreInstructions
<1>3. /\ Ascending(Leaders(c))[b + 1] \in Leaders(c)
      /\ Rank(Leaders(c), Ascending(Leaders(c))[b + 1]) = b + 1
  BY <1>1, <1>2, AscendingListsAll
<1> QED  BY <1>1, <1>3 DEF BlockStart, BlockOf, Rank

(* The blocks partition the code: an instruction is in one of them.        *)
LEMMA BlocksPartition ==
  ASSUME NEW c, Accepted(c), NEW i \in DOMAIN c, NEW b \in BlockIds(c)
  PROVE  i \in BlockStart(c, b) .. BlockEnd(c, b) - 1 <=> b = BlockOf(c, i)
<1>0. /\ i \in Nat /\ Size(c) \in Nat /\ i < Size(c) /\ b \in Nat
      /\ Cardinality(Leaders(c)) \in Nat
  <2>1. Size(c) \in Nat /\ DOMAIN c = 0 .. Size(c) - 1  BY InstructionsAreNatural DEF Accepted, Unit
  <2>2. b \in 0 .. Cardinality(Leaders(c)) - 1 /\ Cardinality(Leaders(c)) \in Nat
    BY LeadersAreInstructions DEF BlockIds
  <2> QED  BY <2>1, <2>2
<1>1. BlockOf(c, i) \in BlockIds(c) /\ BlockOf(c, i) \in Nat
  BY <1>0, BlockOfIsABlock DEF BlockIds
<1>2. BlockStart(c, b) \in Nat  BY BlocksHaveLeaders, LeadersAreInstructions
<1>3. BlockStart(c, b) <= i <=> b <= BlockOf(c, i)  BY <1>0, BlocksHaveLeaders, BlocksAreInOrder
<1>4. CASE b + 1 \in BlockIds(c)
  <2>1. BlockStart(c, b + 1) \in Nat  BY <1>4, BlocksHaveLeaders, LeadersAreInstructions
  <2>2. BlockStart(c, b + 1) <= i <=> b + 1 <= BlockOf(c, i)
    BY <1>0, <1>4, BlocksHaveLeaders, BlocksAreInOrder
  <2>3. BlockEnd(c, b) = BlockStart(c, b + 1)  BY <1>4 DEF BlockEnd
  <2> QED  BY <1>0, <1>1, <1>2, <1>3, <2>1, <2>2, <2>3
<1>5. CASE b + 1 \notin BlockIds(c)
  <2>1. BlockOf(c, i) <= b  BY <1>0, <1>1, <1>5 DEF BlockIds
  <2>2. BlockEnd(c, b) = Size(c)  BY <1>5 DEF BlockEnd
  <2> QED  BY <1>0, <1>1, <1>2, <1>3, <2>1, <2>2
<1> QED  BY <1>4, <1>5

(* The last instruction of a block is one.                                 *)
LEMMA BlocksEndInTheCode ==
  ASSUME NEW c, Accepted(c), NEW b \in BlockIds(c)
  PROVE  BlockEnd(c, b) - 1 \in DOMAIN c
<1>0. /\ Size(c) \in Nat /\ Size(c) > 0 /\ DOMAIN c = 0 .. Size(c) - 1 /\ b \in Nat
  <2>1. Size(c) \in Nat /\ Size(c) > 0 /\ DOMAIN c = 0 .. Size(c) - 1
    BY SizeIsNatural DEF Accepted, Unit
  <2>2. b \in 0 .. Cardinality(Leaders(c)) - 1 /\ Cardinality(Leaders(c)) \in Nat
    BY LeadersAreInstructions DEF BlockIds
  <2> QED  BY <2>1, <2>2
<1>1. CASE b + 1 \in BlockIds(c)
  <2>1. BlockStart(c, b + 1) \in DOMAIN c /\ BlockOf(c, BlockStart(c, b + 1)) = b + 1
    BY <1>1, BlocksHaveLeaders, LeadersAreInstructions
  <2>2. BlockStart(c, b + 1) # 0  BY <1>0, <2>1, StartsInFirstBlock
  <2> QED  BY <1>0, <1>1, <2>1, <2>2 DEF BlockEnd
<1>2. CASE b + 1 \notin BlockIds(c)  BY <1>0, <1>2 DEF BlockEnd
<1> QED  BY <1>1, <1>2
-----------------------------------------------------------------------------
(* Edges lead to blocks.                                                   *)
LEMMA EdgesStayInTheGraph ==
  ASSUME NEW c, Accepted(c), NEW b \in BlockIds(c)
  PROVE  Targets(SuccessorsOf(c, b)) \subseteq BlockIds(c)
<1> DEFINE last == BlockEnd(c, b) - 1
<1>1. last \in DOMAIN c /\ last \in Nat /\ c[last].op \in Opcodes
  BY BlocksEndInTheCode, InstructionsAreNatural DEF Accepted, Unit
<1>2. Branches(c[last].op) => c[last].target \in Nat
  BY <1>1, InstructionsAreNatural DEF Accepted, CfgRejects, TargetOK
<1> HIDE DEF last
<1>3. last + 1 \in Nat /\ BlockOf(c, last + 1) \in BlockIds(c)  BY <1>1, BlockOfIsABlock
<1>4. Branches(c[last].op) => BlockOf(c, c[last].target) \in BlockIds(c)
  BY <1>2, BlockOfIsABlock
<1>5. ASSUME NEW i \in DOMAIN SuccessorsOf(c, b)
      PROVE  SuccessorsOf(c, b)[i].target \in BlockIds(c)
  <2>1. CASE c[last].op = "Branch"
    <3>1. SuccessorsOf(c, b) = << Edge(BlockOf(c, c[last].target), "Branch") >>
      BY <2>1 DEF SuccessorsOf, last
    <3> QED  BY <1>4, <2>1, <3>1, <1>5 DEF Edge, Branches
  <2>2. CASE c[last].op = "BrTrue"
    <3>1. SuccessorsOf(c, b) = << Edge(BlockOf(c, c[last].target), "True"), Edge(BlockOf(c, last + 1), "False") >>
      BY <2>2 DEF SuccessorsOf, last
    <3> QED  BY <1>3, <1>4, <2>2, <3>1, <1>5 DEF Edge, Branches, Conditional
  <2>3. CASE c[last].op = "BrFalse"
    <3>1. SuccessorsOf(c, b) = << Edge(BlockOf(c, c[last].target), "False"), Edge(BlockOf(c, last + 1), "True") >>
      BY <2>3 DEF SuccessorsOf, last
    <3> QED  BY <1>3, <1>4, <2>3, <3>1, <1>5 DEF Edge, Branches, Conditional
  <2>4. CASE c[last].op \in {"Ret", "Abort"}
    <3>1. SuccessorsOf(c, b) = << >>  BY <2>4 DEF SuccessorsOf, last
    <3> QED  BY <3>1, <1>5
  <2>5. CASE c[last].op = "Plain"
    <3>1. SuccessorsOf(c, b) = IF last + 1 \in DOMAIN c
                               THEN << Edge(BlockOf(c, last + 1), "Fallthrough") >> ELSE << >>
      BY <2>5 DEF SuccessorsOf, last
    <3> QED  BY <1>3, <3>1, <1>5 DEF Edge
  <2> QED  BY <1>1, <2>1, <2>2, <2>3, <2>4, <2>5 DEF Opcodes
<1> QED  BY <1>5 DEF Targets

(* The blocks that the flood marks, in a graph built of a code unit: block *)
(* 0 is one of them, and they are the least set with it that edges do not  *)
(* lead out of.                                                            *)
LEMMA FloodedGraph ==
  ASSUME NEW c, Accepted(c), NEW g, g = buildControlFlowGraph(c)
  PROVE  /\ 0 \in DOMAIN g /\ g[0].reachable
         /\ \A b \in DOMAIN g : g[b].reachable =>
              \A s \in Targets(g[b].successors) : s \in DOMAIN g /\ g[s].reachable
         /\ \A S \in SUBSET DOMAIN g :
              0 \in S /\ (\A b \in S : Targets(g[b].successors) \subseteq S)
                => \A b \in DOMAIN g : g[b].reachable => b \in S
<1> DEFINE ids == BlockIds(c)
           succ == [b \in ids |-> SuccessorsOf(c, b)]
           edges == [b \in ids |-> Targets(succ[b])]
           live == Flooded(edges, ids, {0})
<1>1. IsFiniteSet(ids) /\ 0 \in ids
  <2>1. Cardinality(Leaders(c)) \in Nat /\ IsFiniteSet(ids)
    BY LeadersAreInstructions, FS_Interval DEF BlockIds
  <2>2. BlockOf(c, 0) \in ids /\ BlockOf(c, 0) = 0  BY BlockOfIsABlock, StartsInFirstBlock
  <2> QED  BY <2>1, <2>2
<1>2. DOMAIN succ = ids  OBVIOUS
<1>3. ReachableBlocks(succ) = live
  <2>1. ReachableBlocks(succ) = Flooded([b \in DOMAIN succ |-> Targets(succ[b])], DOMAIN succ, {0})
    BY DEF ReachableBlocks
  <2>2. [b \in DOMAIN succ |-> Targets(succ[b])] = edges  BY <1>2
  <2> HIDE DEF succ, edges, ids
  <2> QED  BY <1>2, <2>1, <2>2 DEF live
<1>4. DOMAIN g = ids /\ \A b \in ids : g[b].successors = succ[b] /\ (g[b].reachable <=> b \in live)
  <2>1. g = [b \in ids |-> [begin        |-> BlockStart(c, b),
                            end          |-> BlockEnd(c, b),
                            successors   |-> succ[b],
                            predecessors |-> PredecessorsOf(succ, b),
                            exit         |-> ExitKindOf(c, b),
                            reachable    |-> b \in ReachableBlocks(succ)]]
    BY DEF buildControlFlowGraph
  <2> HIDE DEF succ, ids, live
  <2>2. ASSUME NEW b \in ids
        PROVE  g[b].successors = succ[b] /\ g[b].reachable = (b \in ReachableBlocks(succ))
    BY <2>1
  <2> QED  BY <1>3, <2>1, <2>2
<1>5. \A b \in ids : Targets(g[b].successors) = edges[b] /\ edges[b] \subseteq ids
  BY <1>4, EdgesStayInTheGraph
<1> HIDE DEF ids, succ, edges, live
<1>6. /\ {0} \subseteq live /\ live \subseteq {0} \cup ids
      /\ \A b \in live : edges[b] \cap ids \subseteq live
  BY <1>1, FloodIsClosed DEF live
<1>7. ASSUME NEW S \in SUBSET DOMAIN g, 0 \in S, \A b \in S : Targets(g[b].successors) \subseteq S
      PROVE  live \subseteq S
  <2>1. {0} \subseteq S /\ \A b \in S : edges[b] \cap ids \subseteq S
    BY <1>4, <1>5, <1>7
  <2> QED  BY <1>1, <2>1, FloodIsLeast DEF live
<1>8. 0 \in DOMAIN g /\ g[0].reachable
  <2>1. 0 \in live  BY <1>6
  <2> QED  BY <1>1, <1>4, <2>1, Zenon
<1>9. ASSUME NEW b \in DOMAIN g, g[b].reachable, NEW s \in Targets(g[b].successors)
      PROVE  s \in DOMAIN g /\ g[s].reachable
  <2>1. b \in ids /\ b \in live  BY <1>4, <1>9, Zenon
  <2>2. s \in ids /\ s \in live  BY <1>5, <1>6, <1>9, <2>1
  <2> QED  BY <1>4, <2>2, Zenon
<1>10. ASSUME NEW S \in SUBSET DOMAIN g, 0 \in S, \A b \in S : Targets(g[b].successors) \subseteq S,
              NEW b \in DOMAIN g, g[b].reachable
       PROVE  b \in S
  <2>1. b \in live  BY <1>4, <1>10, Zenon
  <2>2. live \subseteq S  BY <1>7, <1>10
  <2> QED  BY <2>1, <2>2
<1> QED  BY <1>8, <1>9, <1>10
-----------------------------------------------------------------------------
(* A set that only loses members settles in as many rounds as it has.      *)
LEMMA LosingSettles ==
  ASSUME NEW A, IsFiniteSet(A), NEW step \in [SUBSET A -> SUBSET A], \A X \in SUBSET A : step[X] \subseteq X,
         NEW r, Iterates(r, SUBSET A, step, A)
  PROVE  r[Cardinality(A)] \in SUBSET A /\ step[r[Cardinality(A)]] = r[Cardinality(A)]
<1> DEFINE N == Cardinality(A)
<1>1. N \in Nat  BY FS_CardinalityType
<1>2. /\ \A k \in Nat : r[k] \in SUBSET A /\ r[k + 1] = step[r[k]]
      /\ r[0] = A
  BY DEF Iterates
<1>3. \A k \in Nat : IsFiniteSet(r[k]) /\ Cardinality(r[k]) \in Nat
  <2> TAKE k \in Nat
  <2>1. IsFiniteSet(r[k])  BY <1>2, FS_Subset
  <2> QED  BY <2>1, FS_CardinalityType
<1>4. ASSUME NEW k \in Nat, r[k + 1] # r[k] PROVE Cardinality(r[k + 1]) < Cardinality(r[k])
  <2>1. r[k + 1] \in SUBSET r[k] /\ k + 1 \in Nat  BY <1>2
  <2> QED  BY <1>3, <1>4, <2>1, FS_Subset
<1> DEFINE T == {k \in Nat : k <= N => r[k + 1] = r[k] \/ Cardinality(r[k + 1]) < N - k}
<1>5. 0 \in T  BY <1>1, <1>2, <1>4
<1>6. ASSUME NEW k \in Nat, k \in T PROVE k + 1 \in T
  <2> SUFFICES ASSUME k + 1 <= N, r[k + 1 + 1] # r[k + 1]
               PROVE  Cardinality(r[k + 1 + 1]) < N - (k + 1)
    OBVIOUS
  <2>1. k + 1 \in Nat /\ k + 1 + 1 \in Nat /\ k <= N  BY <1>1
  <2>2. r[k + 1] # r[k]  BY <1>2, <2>1
  <2>3. Cardinality(r[k + 1]) < N - k  BY <1>6, <2>1, <2>2
  <2>4. Cardinality(r[k + 1 + 1]) < Cardinality(r[k + 1])  BY <1>4, <2>1
  <2>5. Cardinality(r[k + 1]) \in Nat /\ Cardinality(r[k + 1 + 1]) \in Nat  BY <1>3, <2>1
  <2> QED  BY <1>1, <2>3, <2>4, <2>5
<1> HIDE DEF T
<1>7. N \in T  BY <1>1, <1>5, <1>6, NatClosed
<1>8. r[N + 1] = r[N]
  <2>1. N + 1 \in Nat /\ N <= N  BY <1>1
  <2>2. Cardinality(r[N + 1]) \in Nat  BY <1>3, <2>1
  <2> QED  BY <1>1, <1>7, <2>1, <2>2 DEF T
<1> HIDE DEF N
<1>9. r[N] \in SUBSET A /\ r[N + 1] = step[r[N]]  BY <1>1, <1>2
<1>10. r[N] \in SUBSET A /\ step[r[N]] = r[N]  BY <1>8, <1>9
<1> QED  BY <1>10 DEF N

(* Where control can be after an instruction.                              *)
NextPlaces(c, i) ==
  (IF Branches(c[i].op) THEN {c[i].target} ELSE {})
    \cup (IF c[i].op \in {"Plain", "BrTrue", "BrFalse"} THEN {i + 1} ELSE {})

(* It goes on in the block, or starts the block at the end of an edge      *)
(* (cfg.cpp 71-169), when no block falls off the end.                      *)
LEMMA PlacesFollowEdges ==
  ASSUME NEW c, Accepted(c), \A b \in BlockIds(c) : ExitKindOf(c, b) # "FallOff",
         NEW i \in DOMAIN c, NEW j \in NextPlaces(c, i)
  PROVE  /\ j \in DOMAIN c
         /\ \/ /\ j = i + 1 /\ BlockOf(c, j) = BlockOf(c, i)
            \/ /\ BlockEnd(c, BlockOf(c, i)) = i + 1 /\ BlockStart(c, BlockOf(c, j)) = j
               /\ BlockOf(c, j) \in Targets(SuccessorsOf(c, BlockOf(c, i)))
<1> DEFINE b == BlockOf(c, i)
<1>0. i \in Nat /\ b \in BlockIds(c) /\ c[i].op \in Opcodes
  BY InstructionsAreNatural, BlockOfIsABlock DEF Accepted, Unit
<1>1. Leaders(c) \subseteq DOMAIN c  BY LeadersAreInstructions
<1>2. CASE c[i].op = "Plain"
  <2>1. j = i + 1  BY <1>2 DEF NextPlaces, Branches, Conditional
  <2>2. j \in DOMAIN c
    <3> SUFFICES ASSUME j \notin DOMAIN c PROVE FALSE  OBVIOUS
    <3>1. BlockEnd(c, b) = i + 1  BY <2>1, BlockEndsThere
    <3>2. ExitKindOf(c, b) = "FallOff"  BY <1>0, <1>2, <2>1, <3>1 DEF ExitKindOf
    <3> QED  BY <1>0, <3>2
  <2>3. CASE j \in Leaders(c)
    <3>1. BlockEnd(c, b) = i + 1  BY <2>1, <2>3, BlockEndsThere
    <3>2. BlockStart(c, BlockOf(c, j)) = j  BY <2>3, LeaderStartsItsBlock
    <3>3. SuccessorsOf(c, b) = << Edge(BlockOf(c, j), "Fallthrough") >>
      BY <1>0, <1>2, <2>1, <2>2, <3>1 DEF SuccessorsOf
    <3>4. BlockOf(c, j) \in Targets(SuccessorsOf(c, b))  BY <3>3 DEF Targets, Edge
    <3> QED  BY <2>2, <3>1, <3>2, <3>4
  <2>4. CASE j \notin Leaders(c)  BY <1>0, <2>1, <2>2, <2>4, BlockGoesOn
  <2> QED  BY <2>3, <2>4
<1>3. CASE c[i].op \in {"Branch", "BrTrue", "BrFalse"}
  <2>1. Branches(c[i].op) /\ Terminator(c[i].op)  BY <1>3 DEF Branches, Conditional, Terminator
  <2>2. c[i].target \in DOMAIN c /\ (Conditional(c[i].op) => i + 1 \in DOMAIN c)
    BY <2>1 DEF Accepted, CfgRejects, TargetOK
  <2>3. BlockEnd(c, b) - 1 = i /\ BlockEnd(c, b) = i + 1
    <3>1. BlockEnd(c, b) - 1 = i /\ BlockEnd(c, b) - 1 \in DOMAIN c
      BY <1>0, <2>1, TerminatorsEndBlocks, BlocksEndInTheCode
    <3>2. BlockEnd(c, b) = i + 1
      BY <1>0, <2>1, <2>2, BlockEndsThere DEF Leaders
    <3> QED  BY <3>1, <3>2
  <2>4. c[i].target \in Leaders(c) /\ (Conditional(c[i].op) => i + 1 \in Leaders(c))
    BY <2>1, <2>2 DEF Leaders
  <2>5. j = c[i].target \/ (Conditional(c[i].op) /\ j = i + 1)
    BY <1>3 DEF NextPlaces, Conditional
  <2>6. j \in Leaders(c) /\ BlockStart(c, BlockOf(c, j)) = j
    BY <2>4, <2>5, LeaderStartsItsBlock
  <2>7. BlockOf(c, j) \in Targets(SuccessorsOf(c, b))
    <3>1. CASE c[i].op = "Branch"
      <4>1. SuccessorsOf(c, b) = << Edge(BlockOf(c, j), "Branch") >>
        BY <2>3, <2>5, <3>1 DEF SuccessorsOf, Conditional
      <4> QED  BY <4>1 DEF Targets, Edge
    <3>2. CASE c[i].op = "BrTrue"
      <4>1. SuccessorsOf(c, b) = << Edge(BlockOf(c, c[i].target), "True"), Edge(BlockOf(c, i + 1), "False") >>
        BY <2>3, <3>2 DEF SuccessorsOf
      <4> QED  BY <2>5, <4>1 DEF Targets, Edge
    <3>3. CASE c[i].op = "BrFalse"
      <4>1. SuccessorsOf(c, b) = << Edge(BlockOf(c, c[i].target), "False"), Edge(BlockOf(c, i + 1), "True") >>
        BY <2>3, <3>3 DEF SuccessorsOf
      <4> QED  BY <2>5, <4>1 DEF Targets, Edge
    <3> QED  BY <1>3, <3>1, <3>2, <3>3
  <2> QED  BY <1>1, <2>3, <2>6, <2>7
<1>4. CASE c[i].op \in {"Ret", "Abort"}  BY <1>4 DEF NextPlaces, Branches, Conditional
<1> QED  BY <1>0, <1>2, <1>3, <1>4 DEF Opcodes

(* A list in ascending order grows.                                        *)
LEMMA AscendingGrows ==
  ASSUME NEW S, IsFiniteSet(S), S \subseteq Int,
         NEW i \in 1 .. Cardinality(S), NEW k \in 1 .. Cardinality(S)
  PROVE  Ascending(S)[i] <= Ascending(S)[k] <=> i <= k
<1> DEFINE A == Ascending(S)
<1>1. A[i] \in S /\ A[k] \in S /\ Rank(S, A[i]) = i /\ Rank(S, A[k]) = k  BY AscendingListsAll
<1>2. A[i] \in Int /\ A[k] \in Int /\ i \in Int /\ k \in Int
  <2>1. A[i] \in Int /\ A[k] \in Int  BY <1>1
  <2>2. Cardinality(S) \in Nat  BY FS_CardinalityType
  <2> QED  BY <2>1, <2>2
<1> HIDE DEF A
<1>3. \A x, y \in S : x <= y => Rank(S, x) <= Rank(S, y)
  <2> TAKE x, y \in S
  <2> HAVE x <= y
  <2>1. \A z \in S : z \in Int  OBVIOUS
  <2>a. x \in Int /\ y \in Int  BY <2>1
  <2>2. {z \in S : z <= x} \subseteq {z \in S : z <= y}
    <3>1. \A z \in S : z <= x => z <= y  BY <2>1, <2>a
    <3> QED  BY <3>1
  <2>3. IsFiniteSet({z \in S : z <= y})  BY FS_Subset
  <2> QED  BY <2>2, <2>3, FS_Subset DEF Rank
<1>4. A[i] <= A[k] => i <= k  BY <1>1, <1>3
<1>5. A[k] <= A[i] => k <= i  BY <1>1, <1>3
<1>6. i = k => A[i] = A[k]  OBVIOUS
<1> QED  BY <1>1, <1>2, <1>4, <1>5, <1>6 DEF A

(* Two numbers in one.                                                     *)
LEMMA SameTurn ==
  ASSUME NEW size \in Nat, NEW p \in Nat, NEW q \in Nat, NEW a \in 0 .. size - 1, NEW b \in 0 .. size - 1,
         p * size + a = q * size + b
  PROVE  a = b
<1>1. ASSUME NEW r \in Nat, NEW s \in Nat, r < s PROVE r * size + size <= s * size
  <2>1. PICK t \in Nat : s = r + 1 + t  BY <1>1
  <2>2. s * size = r * size + size + t * size  BY <2>1
  <2>3. t * size \in Nat  OBVIOUS
  <2>4. r * size \in Nat  OBVIOUS
  <2> QED  BY <2>2, <2>3, <2>4
<1> DEFINE u == p * size
           v == q * size
<1>2. u \in Nat /\ v \in Nat  OBVIOUS
<1>3. (p < q => u + size <= v) /\ (q < p => v + size <= u) /\ (p = q => u = v)  BY <1>1
<1>4. u + a = v + b  OBVIOUS
<1> HIDE DEF u, v
<1>5. p < q \/ q < p \/ p = q  OBVIOUS
<1> QED  BY <1>2, <1>3, <1>4, <1>5
-----------------------------------------------------------------------------
(* Lists of at most two.                                                   *)
LEMMA ShortLists ==
  ASSUME NEW s, NEW x, NEW y
  PROVE  /\ s = << >> => DOMAIN s = {}
         /\ s = <<x>> => DOMAIN s = {1} /\ s[1] = x
         /\ s = <<x, y>> => DOMAIN s = {1, 2} /\ s[1] = x /\ s[2] = y
OBVIOUS

(* A list that is made of another.                                         *)
LEMMA ListOver ==
  ASSUME NEW s, NEW f, s \in Seq(Range(s)), f = [k \in DOMAIN s |-> f[k]]
  PROVE  f \in Seq(Range(f)) /\ Len(f) = Len(s)
<1> DEFINE n == Len(s)
<1>1. DOMAIN s = 1 .. n /\ n \in Nat  BY LenProperties
<1> HIDE DEF n
<1>2. DOMAIN f = 1 .. n  BY <1>1
<1>3. f \in [1 .. n -> Range(f)]  BY <1>1, <1>2 DEF Range
<1>4. f \in Seq(Range(f)) /\ Len(f) = n  BY <1>1, <1>3
<1> QED  BY <1>4 DEF n

(* One list behind another.                                                *)
Joined(s, t, u) ==
  /\ Len(s) \in Nat /\ Len(t) \in Nat /\ DOMAIN s = 1 .. Len(s) /\ DOMAIN t = 1 .. Len(t)
  /\ Len(u) = Len(s) + Len(t)
  /\ \A i \in 1 .. Len(s) : u[i] = s[i]
  /\ \A i \in 1 .. Len(t) : u[Len(s) + i] = t[i]

(* Joining two lists gives one that joins them.                            *)
LEMMA JoinedLists ==
  ASSUME NEW s, NEW t, s \in Seq(Range(s)), t \in Seq(Range(t))
  PROVE  Joined(s, t, s \o t)
<1> DEFINE A == Range(s) \cup Range(t)
<1>1. s \in Seq(A) /\ t \in Seq(A)
  <2> DEFINE B == Range(s)
             C == Range(t)
  <2>1. s \in Seq(B) /\ t \in Seq(C)  OBVIOUS
  <2> HIDE DEF B, C
  <2>2. s \in Seq(B \cup C) /\ t \in Seq(B \cup C)  BY <2>1
  <2> QED  BY <2>2 DEF B, C
<1> HIDE DEF A
<1> DEFINE u == s \o t
           a == Len(s)
           b == Len(t)
<1>2. a \in Nat /\ b \in Nat /\ DOMAIN s = 1 .. a /\ DOMAIN t = 1 .. b  BY <1>1, LenProperties
<1>3. Len(u) = a + b /\ \A i \in 1 .. a + b : u[i] = IF i <= a THEN s[i] ELSE t[i - a]  BY <1>1
<1> HIDE DEF u, a, b
<1>4. \A i \in 1 .. a : i \in 1 .. a + b /\ i <= a  BY <1>2
<1>5. \A i \in 1 .. a : u[i] = s[i]  BY <1>3, <1>4
<1>6. ASSUME NEW i \in 1 .. b PROVE u[a + i] = t[i]
  <2> DEFINE k == a + i
  <2>1. k \in 1 .. a + b /\ ~ k <= a /\ k - a = i  BY <1>2
  <2> HIDE DEF k
  <2>2. u[k] = t[k - a]  BY <1>3, <2>1
  <2> QED  BY <2>1, <2>2 DEF k
<1> QED  BY <1>2, <1>3, <1>5, <1>6 DEF Joined, u, a, b

(* Lists of two and of three, put together from their parts.               *)
LEMMA JoinedNames ==
  ASSUME NEW a, NEW b, NEW c
  PROVE  /\ LET t == <<a>> \o << >> \o <<b>> IN Len(t) = 2 /\ t[1] = a /\ t[2] = b
         /\ LET t == <<a>> \o <<b>> \o <<c>> IN Len(t) = 3 /\ t[1] = a /\ t[2] = b /\ t[3] = c
         /\ LET t == <<a, b>> \o << >> IN t[1] = a /\ t[2] = b
         /\ LET t == <<a, b>> \o <<c>> IN t[1] = a /\ t[2] = b /\ t[3] = c
<1> DEFINE X == {a, b, c}
<1>1. \A s, t \in Seq(X) : /\ s \o t \in Seq(X) /\ Len(s \o t) = Len(s) + Len(t)
                          /\ \A i \in 1 .. Len(s) + Len(t) : (s \o t)[i] = IF i <= Len(s) THEN s[i] ELSE t[i - Len(s)]
  BY ConcatProperties
<1>2. /\ << >> \in Seq(X) /\ Len(<< >>) = 0
      /\ \A x \in X : <<x>> \in Seq(X) /\ Len(<<x>>) = 1 /\ <<x>>[1] = x
      /\ <<a, b>> \in Seq(X) /\ Len(<<a, b>>) = 2 /\ <<a, b>>[1] = a /\ <<a, b>>[2] = b
  OBVIOUS
<1>3. a \in X /\ b \in X /\ c \in X  OBVIOUS
<1> HIDE DEF X
<1>4. \A x \in X : /\ <<x>> \o << >> \in Seq(X) /\ Len(<<x>> \o << >>) = 1 /\ (<<x>> \o << >>)[1] = x
  BY <1>1, <1>2
<1>5. \A x, y \in X : /\ <<x>> \o <<y>> \in Seq(X) /\ Len(<<x>> \o <<y>>) = 2
                     /\ (<<x>> \o <<y>>)[1] = x /\ (<<x>> \o <<y>>)[2] = y
  BY <1>1, <1>2
<1>6. \A s \in Seq(X), y \in X : /\ Len(s \o <<y>>) = Len(s) + 1 /\ (s \o <<y>>)[Len(s) + 1] = y
                                /\ \A i \in 1 .. Len(s) : (s \o <<y>>)[i] = s[i]
  <2> TAKE s \in Seq(X), y \in X
  <2>1. Len(s) \in Nat /\ <<y>> \in Seq(X) /\ Len(<<y>>) = 1 /\ <<y>>[1] = y  BY <1>2, LenProperties
  <2> DEFINE t == <<y>>
             n == Len(s)
  <2>2. n \in Nat /\ t \in Seq(X) /\ Len(t) = 1 /\ t[1] = y  BY <2>1
  <2> HIDE DEF t
  <2>3. Len(s \o t) = n + 1 /\ \A i \in 1 .. n + 1 : (s \o t)[i] = IF i <= n THEN s[i] ELSE t[i - n]
    BY <1>1, <2>2
  <2> HIDE DEF n
  <2>4. n + 1 \in 1 .. n + 1 /\ ~ n + 1 <= n /\ n + 1 - n = 1 /\ \A i \in 1 .. n : i \in 1 .. n + 1 /\ i <= n
    BY <2>2
  <2> QED  BY <2>2, <2>3, <2>4 DEF n, t
<1>7. LET t == <<a>> \o << >> \o <<b>> IN Len(t) = 2 /\ t[1] = a /\ t[2] = b  BY <1>3, <1>4, <1>6
<1>8. LET t == <<a>> \o <<b>> \o <<c>> IN Len(t) = 3 /\ t[1] = a /\ t[2] = b /\ t[3] = c
  <2> DEFINE s == <<a>> \o <<b>>
  <2>1. s \in Seq(X) /\ Len(s) = 2 /\ s[1] = a /\ s[2] = b  BY <1>3, <1>5
  <2> HIDE DEF s
  <2> DEFINE u == s \o <<c>>
  <2>2. Len(u) = Len(s) + 1 /\ u[Len(s) + 1] = c /\ \A i \in 1 .. Len(s) : u[i] = s[i]  BY <1>3, <1>6, <2>1, Zenon
  <2> HIDE DEF u
  <2>3. Len(u) = 3 /\ u[1] = a /\ u[2] = b /\ u[3] = c  BY <2>1, <2>2
  <2> QED  BY <2>3 DEF s, u
<1>9. LET t == <<a, b>> \o << >> IN t[1] = a /\ t[2] = b  BY <1>1, <1>2
<1>10. LET t == <<a, b>> \o <<c>> IN t[1] = a /\ t[2] = b /\ t[3] = c
  <2> DEFINE s == <<a, b>>
  <2>1. s \in Seq(X) /\ Len(s) = 2 /\ s[1] = a /\ s[2] = b  BY <1>2
  <2> HIDE DEF s
  <2> DEFINE u == s \o <<c>>
  <2>2. Len(u) = Len(s) + 1 /\ u[Len(s) + 1] = c /\ \A i \in 1 .. Len(s) : u[i] = s[i]  BY <1>3, <1>6, <2>1, Zenon
  <2> HIDE DEF u
  <2>3. u[1] = a /\ u[2] = b /\ u[3] = c  BY <2>1, <2>2
  <2> QED  BY <2>3 DEF s, u
<1> QED  BY <1>7, <1>8, <1>9, <1>10
=============================================================================
