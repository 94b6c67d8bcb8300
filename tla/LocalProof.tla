----------------------------- MODULE LocalProof -----------------------------
(***************************************************************************)
(* For every function, whatever its graph: a function that analyzeLocals   *)
(* accepts never reads a local without a value, every read finds the value *)
(* of a definition listed for it, and no value is read that the analysis   *)
(* called dead.  Nor is anything listed, available or live that no way     *)
(* through the function bears out.                                         *)
(***************************************************************************)
EXTENDS LocalRun, ControlFlowProof

Begin(b) == function.blocks[b].begin

(* What every visit keeps: each set is on its side of what its neighbours  *)
(* would make of it now.                                                   *)
ReachBelow == \A b \in Block : Reachable(function, b) =>
  /\ reaching_in[b] \subseteq IncomingDefinitions(function, reaching_out, b)
  /\ reaching_out[b] \subseteq DefinitionsAt(function, b, reaching_in[b], End(b))

MustAbove == \A b \in Block : Reachable(function, b) =>
  /\ IncomingMust(function, must_out, b) \subseteq must_in[b]
  /\ AvailableAt(function, b, must_in[b], End(b)) \subseteq must_out[b]

MayBelow == \A b \in Block : Reachable(function, b) =>
  /\ may_in[b] \subseteq IncomingMay(function, may_out, b)
  /\ may_out[b] \subseteq AvailableAt(function, b, may_in[b], End(b))

LiveBelow == \A b \in Block : Reachable(function, b) =>
  /\ live_out[b] \subseteq OutgoingLive(function, live_in, b)
  /\ live_in[b] \subseteq LiveAt(function, b, live_out[b], Begin(b))

Bounded == ReachBelow /\ MustAbove /\ MayBelow /\ LiveBelow

(* The other side, which only a round without a change gives.              *)
ReachSettled(b) ==
  /\ IncomingDefinitions(function, reaching_out, b) \subseteq reaching_in[b]
  /\ DefinitionsAt(function, b, reaching_in[b], End(b)) \subseteq reaching_out[b]

MustSettled(b) ==
  /\ must_in[b] \subseteq IncomingMust(function, must_out, b)
  /\ must_out[b] \subseteq AvailableAt(function, b, must_in[b], End(b))

LiveSettled(b) ==
  /\ OutgoingLive(function, live_in, b) \subseteq live_out[b]
  /\ LiveAt(function, b, live_out[b], Begin(b)) \subseteq live_in[b]

(* While a round has changed nothing, the blocks it visited are settled;   *)
(* after the last round all are.                                           *)
ReachRounds == \A b \in Block :
  Reachable(function, b) /\ (pc = "reaching" => ~changed /\ b < block) => ReachSettled(b)

MustRounds == \A b \in Block :
  /\ Reachable(function, b)
  /\ pc # "reaching"
  /\ pc = "availability" => ~changed /\ b < block
  => MustSettled(b)

LiveRounds == \A b \in Block :
  /\ Reachable(function, b)
  /\ pc \in {"liveness", "done"}
  /\ pc = "liveness" => ~changed /\ BlockCount - 1 - block < b
  => LiveSettled(b)

Recorded ==
  /\ pc = "uses" => block = 0
  /\ pc \in {"liveness", "done"} =>
       ~MayReadUnavailable(function, must_in) /\ uses = UsesOf(function, reaching_in)

PassInv == PassTypeOK /\ Bounded /\ ReachRounds /\ MustRounds /\ LiveRounds /\ Recorded

(* The run is within what the analysis says of the point it is at.         *)
RunInv ==
  /\ here = None => dropped = {}
  /\ here # None =>
       /\ \A l \in Local : holds[l] # None =>
            /\ holds[l] \in DefinitionsAt(function, here, reaching_in[here], next)
            /\ holds[l].local = l
       /\ \A l \in AvailableAt(function, here, must_in[here], next) : holds[l] # None
       /\ dropped \cap LiveAt(function, here, live_out[here], next) = {}

IInv == TypeOK /\ PassInv /\ RunInv
-----------------------------------------------------------------------------
(* More before a block never means less within or after it.                *)
LEMMA DefinitionsAtGrows ==
  \A f, b, i, X, Y : X \subseteq Y => DefinitionsAt(f, b, X, i) \subseteq DefinitionsAt(f, b, Y, i)
BY DEF DefinitionsAt

LEMMA AvailableAtGrows ==
  \A f, b, i, X, Y : X \subseteq Y => AvailableAt(f, b, X, i) \subseteq AvailableAt(f, b, Y, i)
BY DEF AvailableAt

LEMMA LiveAtGrows ==
  \A f, b, i, X, Y : X \subseteq Y => LiveAt(f, b, X, i) \subseteq LiveAt(f, b, Y, i)
BY DEF LiveAt

(* More in the neighbours never means less from them.                      *)
LEMMA IncomingDefinitionsGrows ==
  ASSUME NEW f, NEW b, NEW out, NEW more, \A p \in Block : out[p] \subseteq more[p]
  PROVE  IncomingDefinitions(f, out, b) \subseteq IncomingDefinitions(f, more, b)
BY DEF IncomingDefinitions, LivePredecessors

LEMMA IncomingMustGrows ==
  ASSUME NEW f, NEW b, NEW out, NEW more, \A p \in Block : out[p] \subseteq more[p]
  PROVE  IncomingMust(f, out, b) \subseteq IncomingMust(f, more, b)
BY DEF IncomingMust, LivePredecessors

LEMMA IncomingMayGrows ==
  ASSUME NEW f, NEW b, NEW out, NEW more, \A p \in Block : out[p] \subseteq more[p]
  PROVE  IncomingMay(f, out, b) \subseteq IncomingMay(f, more, b)
BY DEF IncomingMay, LivePredecessors

LEMMA OutgoingLiveGrows ==
  ASSUME NEW f, Analyzable(f), NEW b \in Block, NEW in, NEW more,
         \A s \in Block : in[s] \subseteq more[s]
  PROVE  OutgoingLive(f, in, b) \subseteq OutgoingLive(f, more, b)
BY DEF OutgoingLive, LiveSuccessors, Analyzable, BasicBlock

(* The types of what a visit computes.                                     *)
LEMMA VisitTypes ==
  ASSUME NEW f, NEW b \in Block, NEW X, NEW i
  PROVE  /\ DefinitionsAt(f, b, X, i) \subseteq Definitions(f)
         /\ AvailableAt(f, b, X, i) \subseteq Local
         /\ LiveAt(f, b, X, i) \subseteq Local
         /\ IncomingMust(f, X, b) \subseteq Local
BY DEF DefinitionsAt, AvailableAt, LiveAt, IncomingMust

LEMMA NeighbourTypes ==
  ASSUME NEW f, Analyzable(f), NEW b \in Block
  PROVE  /\ \A out \in [Block -> SUBSET Definitions(f)] :
              IncomingDefinitions(f, out, b) \subseteq Definitions(f)
         /\ \A out \in [Block -> SUBSET Local] : IncomingMay(f, out, b) \subseteq Local
         /\ \A in \in [Block -> SUBSET Local] : OutgoingLive(f, in, b) \subseteq Local
<1>1. ASSUME NEW out \in [Block -> SUBSET Definitions(f)]
      PROVE  IncomingDefinitions(f, out, b) \subseteq Definitions(f)
  BY DEF IncomingDefinitions, Definitions, LivePredecessors
<1>2. ASSUME NEW out \in [Block -> SUBSET Local]
      PROVE  IncomingMay(f, out, b) \subseteq Local
  BY DEF IncomingMay, Parameters, LivePredecessors
<1>3. ASSUME NEW in \in [Block -> SUBSET Local]
      PROVE  OutgoingLive(f, in, b) \subseteq Local
  BY DEF OutgoingLive, LiveSuccessors, Analyzable, BasicBlock
<1>4. QED BY <1>1, <1>2, <1>3

LEMMA BlockBounds == Block \subseteq Int /\ BlockCount \in Int /\ 0 \in Block
BY CountsAssumption DEF Block
-----------------------------------------------------------------------------
LEMMA InitEstablishesPassInv == PassInit => PassInv
<1> SUFFICES ASSUME PassInit PROVE PassInv
  OBVIOUS
<1>1. PassTypeOK
  <2>1. Analyzable(function)
    BY FunctionsAssumption DEF PassInit
  <2>2. block \in 0 .. BlockCount
    BY CountsAssumption DEF PassInit
  <2>3. /\ reaching_in \in [Block -> SUBSET Definitions(function)]
        /\ reaching_out \in [Block -> SUBSET Definitions(function)]
    BY DEF PassInit
  <2>4. QED BY <2>1, <2>2, <2>3 DEF PassTypeOK, PassInit
<1>2. Bounded
  BY VisitTypes DEF PassInit, Bounded, ReachBelow, MustAbove, MayBelow, LiveBelow
<1>3. ReachRounds /\ MustRounds /\ LiveRounds
  BY DEF PassInit, ReachRounds, MustRounds, LiveRounds, Block
<1>4. Recorded
  BY DEF PassInit, Recorded
<1>5. QED BY <1>1, <1>2, <1>3, <1>4 DEF PassInv
-----------------------------------------------------------------------------
(* Skip: the block passed over is not reachable, so nothing is claimed of it. *)
LEMMA SkipKeepsPassInv == PassInv /\ Skip => PassInv'
<1> SUFFICES ASSUME PassInv, Skip PROVE PassInv'
  OBVIOUS
<1> USE BlockBounds
<1>1. UNCHANGED <<function, pc, changed, reaching_in, reaching_out, must_in, must_out,
                  may_in, may_out, uses, live_in, live_out>>
  BY DEF Skip, reaching, available, live
<1>2. /\ block \in 0 .. BlockCount /\ block < BlockCount /\ block' = block + 1
      /\ ~Reachable(function, Visited)
  BY DEF PassInv, PassTypeOK, Skip
<1>3. PassTypeOK'
  BY <1>1, <1>2 DEF PassInv, PassTypeOK
<1>4. Bounded'
  BY <1>1 DEF PassInv, Bounded, ReachBelow, MustAbove, MayBelow, LiveBelow, End, Begin
<1>5. ReachRounds'
  <2> SUFFICES ASSUME NEW b \in Block, Reachable(function, b),
                      pc = "reaching" => ~changed /\ b < block + 1
               PROVE  ReachSettled(b)
    BY <1>1, <1>2 DEF ReachRounds, ReachSettled, End
  <2>1. pc = "reaching" => b < block
    BY <1>2 DEF Visited
  <2>2. QED BY <2>1 DEF PassInv, ReachRounds
<1>6. MustRounds'
  <2> SUFFICES ASSUME NEW b \in Block, Reachable(function, b), pc # "reaching",
                      pc = "availability" => ~changed /\ b < block + 1
               PROVE  MustSettled(b)
    BY <1>1, <1>2 DEF MustRounds, MustSettled, End
  <2>1. pc = "availability" => b < block
    BY <1>2 DEF Visited
  <2>2. QED BY <2>1 DEF PassInv, MustRounds
<1>7. LiveRounds'
  <2> SUFFICES ASSUME NEW b \in Block, Reachable(function, b), pc \in {"liveness", "done"},
                      pc = "liveness" => ~changed /\ BlockCount - 1 - (block + 1) < b
               PROVE  LiveSettled(b)
    BY <1>1, <1>2 DEF LiveRounds, LiveSettled, Begin
  <2>1. pc = "liveness" => BlockCount - 1 - block < b
    BY <1>2 DEF Visited
  <2>2. QED BY <2>1 DEF PassInv, LiveRounds
<1>8. Recorded'
  BY <1>1 DEF PassInv, Recorded, Skip
<1>9. QED BY <1>3, <1>4, <1>5, <1>6, <1>7, <1>8 DEF PassInv

(* A visit of the reaching definitions: what it computes is no less than   *)
(* what was there, and the same if nothing changed.                        *)
LEMMA ReachGrows ==
  ASSUME PassInv, Reach
  PROVE  /\ reaching_in' \in [Block -> SUBSET Definitions(function)]
         /\ reaching_out' \in [Block -> SUBSET Definitions(function)]
         /\ \A b \in Block : /\ reaching_in[b] \subseteq reaching_in'[b]
                             /\ reaching_out[b] \subseteq reaching_out'[b]
         /\ \A b \in Block \ {block} : /\ reaching_in'[b] = reaching_in[b]
                                       /\ reaching_out'[b] = reaching_out[b]
         /\ reaching_in'[block] = IncomingDefinitions(function, reaching_out, block)
         /\ reaching_out'[block] = DefinitionsAt(function, block, reaching_in'[block], End(block))
         /\ ~changed' => ~changed /\ reaching_in' = reaching_in /\ reaching_out' = reaching_out
<1> DEFINE incoming == IncomingDefinitions(function, reaching_out, block)
           outgoing == DefinitionsAt(function, block, incoming, End(block))
<1>1. block \in Block
  BY CountsAssumption DEF PassInv, PassTypeOK, Reach, Block
<1>2. /\ changed' = (changed \/ incoming # reaching_in[block] \/ outgoing # reaching_out[block])
      /\ reaching_in' = [reaching_in EXCEPT ![block] = incoming]
      /\ reaching_out' = [reaching_out EXCEPT ![block] = outgoing]
  BY DEF Reach
<1>3. /\ reaching_in \in [Block -> SUBSET Definitions(function)]
      /\ reaching_out \in [Block -> SUBSET Definitions(function)]
      /\ Analyzable(function)
  BY DEF PassInv, PassTypeOK
<1>4. incoming \subseteq Definitions(function) /\ outgoing \subseteq Definitions(function)
  BY <1>1, <1>3, VisitTypes, NeighbourTypes
<1>5. reaching_in[block] \subseteq incoming /\ reaching_out[block] \subseteq outgoing
  <2>1. /\ reaching_in[block] \subseteq incoming
        /\ reaching_out[block] \subseteq DefinitionsAt(function, block, reaching_in[block], End(block))
    BY <1>1 DEF PassInv, Bounded, ReachBelow, Reach
  <2>2. QED BY <2>1, DefinitionsAtGrows
<1> HIDE DEF incoming, outgoing
<1>6. QED
  <2>1. reaching_in'[block] = incoming /\ reaching_out'[block] = outgoing
    BY <1>1, <1>2, <1>3
  <2>2. QED BY <1>1, <1>2, <1>3, <1>4, <1>5, <2>1 DEF incoming, outgoing

LEMMA ReachKeepsPassInv == PassInv /\ Reach => PassInv'
<1> SUFFICES ASSUME PassInv, Reach PROVE PassInv'
  OBVIOUS
<1> USE BlockBounds
<1>1. /\ UNCHANGED <<function, pc, must_in, must_out, may_in, may_out, uses, live_in, live_out>>
      /\ pc = "reaching" /\ block' = block + 1 /\ block < BlockCount /\ changed' \in BOOLEAN
  BY DEF Reach, available, live
<1>2. block \in Block /\ block \in 0 .. BlockCount /\ Analyzable(function)
  BY <1>1, CountsAssumption DEF PassInv, PassTypeOK, Block
<1>3. PassTypeOK'
  BY <1>1, <1>2, ReachGrows DEF PassInv, PassTypeOK
<1>4. ReachBelow'
  <2> SUFFICES ASSUME NEW b \in Block, Reachable(function, b)
               PROVE  /\ reaching_in'[b] \subseteq IncomingDefinitions(function, reaching_out', b)
                      /\ reaching_out'[b] \subseteq
                           DefinitionsAt(function, b, reaching_in'[b], End(b))
    BY <1>1 DEF ReachBelow, End
  <2>1. IncomingDefinitions(function, reaching_out, b)
          \subseteq IncomingDefinitions(function, reaching_out', b)
    BY ReachGrows, IncomingDefinitionsGrows
  <2>2. CASE b = block
    BY <2>1, <2>2, ReachGrows
  <2>3. CASE b # block
    BY <2>1, <2>3, ReachGrows DEF PassInv, Bounded, ReachBelow
  <2>4. QED BY <2>2, <2>3
<1>5. (MustAbove /\ MayBelow /\ LiveBelow)'
  BY <1>1 DEF PassInv, Bounded, MustAbove, MayBelow, LiveBelow, End, Begin
<1>6. ReachRounds'
  <2> SUFFICES ASSUME NEW b \in Block, Reachable(function, b), ~changed', b < block + 1
               PROVE  ReachSettled(b)'
    BY <1>1 DEF ReachRounds
  <2>1. ~changed /\ reaching_in' = reaching_in /\ reaching_out' = reaching_out
    BY ReachGrows
  <2>2. ReachSettled(b)
    <3>1. CASE b = block
      BY <2>1, <3>1, ReachGrows DEF ReachSettled
    <3>2. CASE b # block
      BY <1>1, <1>2, <2>1, <3>2 DEF PassInv, ReachRounds
    <3>3. QED BY <3>1, <3>2
  <2>3. QED BY <1>1, <2>1, <2>2 DEF ReachSettled, End
<1>7. MustRounds' /\ LiveRounds' /\ Recorded'
  BY <1>1 DEF MustRounds, LiveRounds, Recorded
<1>8. QED BY <1>3, <1>4, <1>5, <1>6, <1>7 DEF PassInv, Bounded

(* A visit of the availability: what must be there shrinks, what may be    *)
(* there grows.                                                            *)
LEMMA ProvideMoves ==
  ASSUME PassInv, Provide
  PROVE  /\ must_in' \in [Block -> SUBSET Local] /\ must_out' \in [Block -> SUBSET Local]
         /\ may_in' \in [Block -> SUBSET Local] /\ may_out' \in [Block -> SUBSET Local]
         /\ \A b \in Block : /\ must_in'[b] \subseteq must_in[b]
                             /\ must_out'[b] \subseteq must_out[b]
                             /\ may_in[b] \subseteq may_in'[b]
                             /\ may_out[b] \subseteq may_out'[b]
         /\ \A b \in Block \ {block} :
              /\ must_in'[b] = must_in[b] /\ must_out'[b] = must_out[b]
              /\ may_in'[b] = may_in[b] /\ may_out'[b] = may_out[b]
         /\ must_in'[block] = IncomingMust(function, must_out, block)
         /\ must_out'[block] = AvailableAt(function, block, must_in'[block], End(block))
         /\ may_in'[block] = IncomingMay(function, may_out, block)
         /\ may_out'[block] = AvailableAt(function, block, may_in'[block], End(block))
         /\ ~changed' => /\ ~changed /\ must_in' = must_in /\ must_out' = must_out
                         /\ may_in' = may_in /\ may_out' = may_out
<1> DEFINE must == IncomingMust(function, must_out, block)
           may == IncomingMay(function, may_out, block)
           next_must == AvailableAt(function, block, must, End(block))
           next_may == AvailableAt(function, block, may, End(block))
<1>1. block \in Block
  BY CountsAssumption DEF PassInv, PassTypeOK, Provide, Block
<1>2. /\ changed' = (changed \/ must # must_in[block] \/ may # may_in[block]
                       \/ next_must # must_out[block] \/ next_may # may_out[block])
      /\ must_in' = [must_in EXCEPT ![block] = must]
      /\ must_out' = [must_out EXCEPT ![block] = next_must]
      /\ may_in' = [may_in EXCEPT ![block] = may]
      /\ may_out' = [may_out EXCEPT ![block] = next_may]
  BY DEF Provide
<1>3. /\ must_in \in [Block -> SUBSET Local] /\ must_out \in [Block -> SUBSET Local]
      /\ may_in \in [Block -> SUBSET Local] /\ may_out \in [Block -> SUBSET Local]
      /\ Analyzable(function)
  BY DEF PassInv, PassTypeOK
<1>4. /\ must \subseteq Local /\ may \subseteq Local
      /\ next_must \subseteq Local /\ next_may \subseteq Local
  BY <1>1, <1>3, VisitTypes, NeighbourTypes
<1>5. must \subseteq must_in[block] /\ next_must \subseteq must_out[block]
  <2>1. /\ must \subseteq must_in[block]
        /\ AvailableAt(function, block, must_in[block], End(block)) \subseteq must_out[block]
    BY <1>1 DEF PassInv, Bounded, MustAbove, Provide
  <2>2. QED BY <2>1, AvailableAtGrows
<1>6. may_in[block] \subseteq may /\ may_out[block] \subseteq next_may
  <2>1. /\ may_in[block] \subseteq may
        /\ may_out[block] \subseteq AvailableAt(function, block, may_in[block], End(block))
    BY <1>1 DEF PassInv, Bounded, MayBelow, Provide
  <2>2. QED BY <2>1, AvailableAtGrows
<1> HIDE DEF must, may, next_must, next_may
<1>7. /\ must_in'[block] = must /\ must_out'[block] = next_must
      /\ may_in'[block] = may /\ may_out'[block] = next_may
  BY <1>1, <1>2, <1>3
<1>8. \A b \in Block \ {block} :
        /\ must_in'[b] = must_in[b] /\ must_out'[b] = must_out[b]
        /\ may_in'[b] = may_in[b] /\ may_out'[b] = may_out[b]
  BY <1>2, <1>3
<1>9. \A b \in Block : /\ must_in'[b] \subseteq must_in[b] /\ must_out'[b] \subseteq must_out[b]
                       /\ may_in[b] \subseteq may_in'[b] /\ may_out[b] \subseteq may_out'[b]
  <2> SUFFICES ASSUME NEW b \in Block
               PROVE  /\ must_in'[b] \subseteq must_in[b] /\ must_out'[b] \subseteq must_out[b]
                      /\ may_in[b] \subseteq may_in'[b] /\ may_out[b] \subseteq may_out'[b]
    OBVIOUS
  <2>1. CASE b = block
    BY <2>1, <1>5, <1>6, <1>7
  <2>2. CASE b # block
    BY <2>2, <1>8
  <2>3. QED BY <2>1, <2>2
<1>10. /\ must_in' \in [Block -> SUBSET Local] /\ must_out' \in [Block -> SUBSET Local]
       /\ may_in' \in [Block -> SUBSET Local] /\ may_out' \in [Block -> SUBSET Local]
  BY <1>2, <1>3, <1>4
<1>11. ~changed' => /\ ~changed /\ must_in' = must_in /\ must_out' = must_out
                    /\ may_in' = may_in /\ may_out' = may_out
  BY <1>1, <1>2, <1>3
<1>12. QED BY <1>7, <1>8, <1>9, <1>10, <1>11 DEF must, may, next_must, next_may

LEMMA ProvideKeepsPassInv == PassInv /\ Provide => PassInv'
<1> SUFFICES ASSUME PassInv, Provide PROVE PassInv'
  OBVIOUS
<1> USE BlockBounds
<1>1. /\ UNCHANGED <<function, pc, reaching_in, reaching_out, uses, live_in, live_out>>
      /\ pc = "availability" /\ block' = block + 1 /\ block < BlockCount /\ changed' \in BOOLEAN
  BY DEF Provide, reaching, live
<1>2. block \in Block /\ block \in 0 .. BlockCount /\ Analyzable(function)
  BY <1>1, CountsAssumption DEF PassInv, PassTypeOK, Block
<1>3. PassTypeOK'
  BY <1>1, <1>2, ProvideMoves DEF PassInv, PassTypeOK
<1>4. MustAbove'
  <2> SUFFICES ASSUME NEW b \in Block, Reachable(function, b)
               PROVE  /\ IncomingMust(function, must_out', b) \subseteq must_in'[b]
                      /\ AvailableAt(function, b, must_in'[b], End(b)) \subseteq must_out'[b]
    BY <1>1 DEF MustAbove, End
  <2>1. IncomingMust(function, must_out', b) \subseteq IncomingMust(function, must_out, b)
    BY ProvideMoves, IncomingMustGrows
  <2>2. CASE b = block
    BY <2>1, <2>2, ProvideMoves
  <2>3. CASE b # block
    BY <2>1, <2>3, ProvideMoves DEF PassInv, Bounded, MustAbove
  <2>4. QED BY <2>2, <2>3
<1>5. MayBelow'
  <2> SUFFICES ASSUME NEW b \in Block, Reachable(function, b)
               PROVE  /\ may_in'[b] \subseteq IncomingMay(function, may_out', b)
                      /\ may_out'[b] \subseteq AvailableAt(function, b, may_in'[b], End(b))
    BY <1>1 DEF MayBelow, End
  <2>1. IncomingMay(function, may_out, b) \subseteq IncomingMay(function, may_out', b)
    BY ProvideMoves, IncomingMayGrows
  <2>2. CASE b = block
    BY <2>1, <2>2, ProvideMoves
  <2>3. CASE b # block
    BY <2>1, <2>3, ProvideMoves DEF PassInv, Bounded, MayBelow
  <2>4. QED BY <2>2, <2>3
<1>6. (ReachBelow /\ LiveBelow)'
  BY <1>1 DEF PassInv, Bounded, ReachBelow, LiveBelow, End, Begin
<1>7. MustRounds'
  <2> SUFFICES ASSUME NEW b \in Block, Reachable(function, b), ~changed', b < block + 1
               PROVE  MustSettled(b)'
    BY <1>1 DEF MustRounds
  <2>1. ~changed /\ must_in' = must_in /\ must_out' = must_out
    BY ProvideMoves
  <2>2. MustSettled(b)
    <3>1. CASE b = block
      BY <2>1, <3>1, ProvideMoves DEF MustSettled
    <3>2. CASE b # block
      BY <1>1, <1>2, <2>1, <3>2 DEF PassInv, MustRounds
    <3>3. QED BY <3>1, <3>2
  <2>3. QED BY <1>1, <2>1, <2>2 DEF MustSettled, End
<1>8. ReachRounds'
  BY <1>1 DEF PassInv, ReachRounds, ReachSettled, End
<1>9. LiveRounds' /\ Recorded'
  BY <1>1 DEF LiveRounds, Recorded
<1>10. QED BY <1>3, <1>4, <1>5, <1>6, <1>7, <1>8, <1>9 DEF PassInv, Bounded

(* A visit of the liveness, from the last block to the first.              *)
LEMMA NeedGrows ==
  ASSUME PassInv, Need
  PROVE  /\ live_in' \in [Block -> SUBSET Local] /\ live_out' \in [Block -> SUBSET Local]
         /\ Visited \in Block
         /\ \A b \in Block : live_in[b] \subseteq live_in'[b] /\ live_out[b] \subseteq live_out'[b]
         /\ \A b \in Block \ {Visited} : live_in'[b] = live_in[b] /\ live_out'[b] = live_out[b]
         /\ live_out'[Visited] = OutgoingLive(function, live_in, Visited)
         /\ live_in'[Visited] = LiveAt(function, Visited, live_out'[Visited], Begin(Visited))
         /\ ~changed' => ~changed /\ live_in' = live_in /\ live_out' = live_out
<1> DEFINE v == Visited
           outgoing == OutgoingLive(function, live_in, v)
           incoming == LiveAt(function, v, outgoing, function.blocks[v].begin)
<1>1. v \in Block
  BY CountsAssumption DEF PassInv, PassTypeOK, Need, Block, Visited
<1>2. /\ changed' = (changed \/ incoming # live_in[v] \/ outgoing # live_out[v])
      /\ live_in' = [live_in EXCEPT ![v] = incoming]
      /\ live_out' = [live_out EXCEPT ![v] = outgoing]
  BY DEF Need
<1>3. /\ live_in \in [Block -> SUBSET Local] /\ live_out \in [Block -> SUBSET Local]
      /\ Analyzable(function)
  BY DEF PassInv, PassTypeOK
<1>4. incoming \subseteq Local /\ outgoing \subseteq Local
  BY <1>1, <1>3, VisitTypes, NeighbourTypes
<1>5. live_in[v] \subseteq incoming /\ live_out[v] \subseteq outgoing
  <2>1. /\ live_out[v] \subseteq outgoing
        /\ live_in[v] \subseteq LiveAt(function, v, live_out[v], function.blocks[v].begin)
    BY <1>1 DEF PassInv, Bounded, LiveBelow, Need, Begin
  <2>2. QED BY <2>1, LiveAtGrows
<1> HIDE DEF v, incoming, outgoing
<1>6. live_in'[v] = incoming /\ live_out'[v] = outgoing
  BY <1>1, <1>2, <1>3
<1>7. QED BY <1>1, <1>2, <1>3, <1>4, <1>5, <1>6 DEF v, incoming, outgoing, Begin

LEMMA NeedKeepsPassInv == PassInv /\ Need => PassInv'
<1> SUFFICES ASSUME PassInv, Need PROVE PassInv'
  OBVIOUS
<1> USE BlockBounds
<1>1. /\ UNCHANGED <<function, pc, reaching_in, reaching_out,
                     must_in, must_out, may_in, may_out, uses>>
      /\ pc = "liveness" /\ block' = block + 1 /\ block < BlockCount /\ changed' \in BOOLEAN
  BY DEF Need, reaching, available
<1>2. /\ block \in 0 .. BlockCount /\ Analyzable(function)
      /\ Visited = BlockCount - 1 - block
  BY <1>1 DEF PassInv, PassTypeOK, Visited
<1>3. PassTypeOK'
  BY <1>1, <1>2, NeedGrows DEF PassInv, PassTypeOK
<1>4. LiveBelow'
  <2> SUFFICES ASSUME NEW b \in Block, Reachable(function, b)
               PROVE  /\ live_out'[b] \subseteq OutgoingLive(function, live_in', b)
                      /\ live_in'[b] \subseteq LiveAt(function, b, live_out'[b], Begin(b))
    BY <1>1 DEF LiveBelow, Begin
  <2>1. OutgoingLive(function, live_in, b) \subseteq OutgoingLive(function, live_in', b)
    BY <1>2, NeedGrows, OutgoingLiveGrows
  <2>2. CASE b = Visited
    BY <2>1, <2>2, NeedGrows
  <2>3. CASE b # Visited
    BY <2>1, <2>3, NeedGrows DEF PassInv, Bounded, LiveBelow
  <2>4. QED BY <2>2, <2>3
<1>5. (ReachBelow /\ MustAbove /\ MayBelow)'
  BY <1>1 DEF PassInv, Bounded, ReachBelow, MustAbove, MayBelow, End
<1>6. LiveRounds'
  <2> SUFFICES ASSUME NEW b \in Block, Reachable(function, b), ~changed',
                      BlockCount - 1 - (block + 1) < b
               PROVE  LiveSettled(b)'
    BY <1>1 DEF LiveRounds
  <2>1. ~changed /\ live_in' = live_in /\ live_out' = live_out
    BY NeedGrows
  <2>2. LiveSettled(b)
    <3>1. CASE b = Visited
      BY <2>1, <3>1, NeedGrows DEF LiveSettled
    <3>2. CASE b # Visited
      BY <1>1, <1>2, <2>1, <3>2 DEF PassInv, LiveRounds
    <3>3. QED BY <3>1, <3>2
  <2>3. QED BY <1>1, <2>1, <2>2 DEF LiveSettled, Begin
<1>7. ReachRounds' /\ MustRounds'
  BY <1>1 DEF PassInv, ReachRounds, ReachSettled, MustRounds, MustSettled, End
<1>8. Recorded'
  BY <1>1 DEF PassInv, Recorded
<1>9. QED BY <1>3, <1>4, <1>5, <1>6, <1>7, <1>8 DEF PassInv, Bounded

(* The end of a round that changed nothing settles all blocks.             *)
LEMMA AgainKeepsPassInv == PassInv /\ Again => PassInv'
<1> SUFFICES ASSUME PassInv, Again PROVE PassInv'
  OBVIOUS
<1> USE BlockBounds
<1>1. UNCHANGED <<function, reaching_in, reaching_out, must_in, must_out,
                  may_in, may_out, uses, live_in, live_out>>
  BY DEF Again, reaching, available, live
<1>2. /\ pc \in {"reaching", "availability", "liveness"}
      /\ block = BlockCount /\ block' = 0 /\ ~changed'
      /\ changed \in BOOLEAN
  BY DEF PassInv, PassTypeOK, Again
<1>3. /\ changed => pc' = pc
      /\ ~changed /\ pc = "reaching" => pc' = "availability"
      /\ ~changed /\ pc = "availability" => pc' = "uses"
      /\ ~changed /\ pc = "liveness" => pc' = "done"
  BY <1>2 DEF Again
<1>4. PassTypeOK'
  <2>1. block' \in 0 .. BlockCount
    BY <1>2, CountsAssumption
  <2>2. changed' \in BOOLEAN
    BY DEF Again
  <2>3. pc' \in {"reaching", "availability", "uses", "rejected", "liveness", "done"}
    BY <1>2, <1>3
  <2>4. QED BY <1>1, <2>1, <2>2, <2>3 DEF PassInv, PassTypeOK
<1>5. Bounded'
  BY <1>1 DEF PassInv, Bounded, ReachBelow, MustAbove, MayBelow, LiveBelow, End, Begin
<1>6. \A b \in Block : b < BlockCount /\ -1 < b /\ ~(b < 0) /\ ~(BlockCount - 1 < b)
  BY CountsAssumption DEF Block
<1>7. ReachRounds'
  <2> SUFFICES ASSUME NEW b \in Block, Reachable(function, b), pc' # "reaching"
               PROVE  ReachSettled(b)
    BY <1>1, <1>2, <1>6 DEF ReachRounds, ReachSettled, End
  <2>1. pc = "reaching" => ~changed /\ b < block
    BY <1>2, <1>3, <1>6
  <2>2. QED BY <2>1 DEF PassInv, ReachRounds
<1>8. MustRounds'
  <2> SUFFICES ASSUME NEW b \in Block, Reachable(function, b),
                      pc' \notin {"reaching", "availability"}
               PROVE  MustSettled(b)
    BY <1>1, <1>2, <1>6 DEF MustRounds, MustSettled, End
  <2>1. pc # "reaching" /\ (pc = "availability" => ~changed /\ b < block)
    BY <1>2, <1>3, <1>6
  <2>2. QED BY <2>1 DEF PassInv, MustRounds
<1>9. LiveRounds'
  <2> SUFFICES ASSUME NEW b \in Block, Reachable(function, b), pc' = "done"
               PROVE  LiveSettled(b)
    BY <1>1, <1>2, <1>6 DEF LiveRounds, LiveSettled, Begin
  <2>1. pc = "liveness" /\ ~changed /\ BlockCount - 1 - block < b
    BY <1>2, <1>3, <1>6
  <2>2. QED BY <2>1 DEF PassInv, LiveRounds
<1>10. Recorded'
  BY <1>1, <1>2, <1>3 DEF PassInv, Recorded
<1>11. QED BY <1>4, <1>5, <1>7, <1>8, <1>9, <1>10 DEF PassInv

LEMMA RecordUsesKeepsPassInv == PassInv /\ RecordUses => PassInv'
<1> SUFFICES ASSUME PassInv, RecordUses PROVE PassInv'
  OBVIOUS
<1>1. /\ UNCHANGED <<function, block, changed, reaching_in, reaching_out, must_in, must_out,
                     may_in, may_out, live_in, live_out>>
      /\ pc = "uses" /\ pc' = "liveness" /\ block = 0
      /\ ~MayReadUnavailable(function, must_in)
      /\ uses' = UsesOf(function, reaching_in)
  BY DEF PassInv, Recorded, RecordUses, reaching, available, live
<1>2. PassTypeOK'
  <2>1. ASSUME NEW u \in uses'
        PROVE  u.reaching_definitions \subseteq {d \in Definitions(function) : d.local = u.local}
    <3>1. PICK b \in Block : \E i \in Reads(function, b) : u = Use(function, b, reaching_in[b], i)
      BY <1>1 DEF UsesOf
    <3>2. QED BY <3>1, VisitTypes DEF Use
  <2>2. QED BY <1>1, <2>1 DEF PassInv, PassTypeOK
<1>3. Bounded'
  BY <1>1 DEF PassInv, Bounded, ReachBelow, MustAbove, MayBelow, LiveBelow, End, Begin
<1>4. ReachRounds' /\ MustRounds'
  BY <1>1 DEF PassInv, ReachRounds, ReachSettled, MustRounds, MustSettled, End
<1>5. LiveRounds'
  BY <1>1, CountsAssumption DEF LiveRounds, Block
<1>6. Recorded'
  BY <1>1 DEF Recorded
<1>7. QED BY <1>2, <1>3, <1>4, <1>5, <1>6 DEF PassInv

LEMMA RejectKeepsPassInv == PassInv /\ Reject => PassInv'
<1> SUFFICES ASSUME PassInv, Reject PROVE PassInv'
  OBVIOUS
<1>1. /\ UNCHANGED <<function, block, changed, reaching_in, reaching_out, must_in, must_out,
                     may_in, may_out, uses, live_in, live_out>>
      /\ pc = "uses" /\ pc' = "rejected"
  BY DEF Reject, reaching, available, live
<1>2. PassTypeOK'
  BY <1>1 DEF PassInv, PassTypeOK
<1>3. Bounded'
  BY <1>1 DEF PassInv, Bounded, ReachBelow, MustAbove, MayBelow, LiveBelow, End, Begin
<1>4. ReachRounds' /\ MustRounds'
  BY <1>1 DEF PassInv, ReachRounds, ReachSettled, MustRounds, MustSettled, End
<1>5. LiveRounds' /\ Recorded'
  BY <1>1 DEF LiveRounds, Recorded
<1>6. QED BY <1>2, <1>3, <1>4, <1>5 DEF PassInv

LEMMA UnchangedKeepsPassInv == PassInv /\ UNCHANGED passVars => PassInv'
<1> SUFFICES ASSUME PassInv, UNCHANGED passVars PROVE PassInv'
  OBVIOUS
<1> USE DEF passVars
<1>1. PassTypeOK'
  BY DEF PassInv, PassTypeOK
<1>2. Bounded'
  BY DEF PassInv, Bounded, ReachBelow, MustAbove, MayBelow, LiveBelow, End, Begin
<1>3. ReachRounds' /\ MustRounds' /\ LiveRounds'
  BY DEF PassInv, ReachRounds, ReachSettled, MustRounds, MustSettled, LiveRounds, LiveSettled,
         End, Begin
<1>4. Recorded'
  BY DEF PassInv, Recorded
<1>5. QED BY <1>1, <1>2, <1>3, <1>4 DEF PassInv

LEMMA PassKeepsPassInv == PassInv /\ Pass => PassInv'
BY SkipKeepsPassInv, ReachKeepsPassInv, ProvideKeepsPassInv, NeedKeepsPassInv,
   AgainKeepsPassInv, RecordUsesKeepsPassInv, RejectKeepsPassInv DEF Pass

(* What a step of the analysis does to the sets.                           *)
MovesOneWay ==
  \A b \in Block :
    /\ reaching_in[b] \subseteq reaching_in'[b] /\ reaching_out[b] \subseteq reaching_out'[b]
    /\ must_in'[b] \subseteq must_in[b] /\ must_out'[b] \subseteq must_out[b]
    /\ may_in[b] \subseteq may_in'[b] /\ may_out[b] \subseteq may_out'[b]
    /\ live_in[b] \subseteq live_in'[b] /\ live_out[b] \subseteq live_out'[b]

LEMMA PassMovesOneWay == PassInv /\ Pass => MovesOneWay
<1> SUFFICES ASSUME PassInv, Pass PROVE MovesOneWay
  OBVIOUS
<1>1. CASE Reach
  BY <1>1, ReachGrows DEF MovesOneWay, Reach, available, live
<1>2. CASE Provide
  BY <1>2, ProvideMoves DEF MovesOneWay, Provide, reaching, live
<1>3. CASE Need
  BY <1>3, NeedGrows DEF MovesOneWay, Need, reaching, available
<1>4. CASE Skip \/ Again \/ RecordUses \/ Reject
  BY <1>4 DEF MovesOneWay, Skip, Again, RecordUses, Reject, reaching, available, live
<1>5. QED BY <1>1, <1>2, <1>3, <1>4 DEF Pass
-----------------------------------------------------------------------------
(* From one instruction of a block to the next.                            *)
LEMMA DefinitionsAtStep ==
  ASSUME NEW f, Analyzable(f), NEW b \in Block, NEW X,
         NEW i \in From(f, b, f.blocks[b].begin)
  PROVE  /\ \A d \in DefinitionsAt(f, b, X, i) :
              ~Ends(f, i, d.local) => d \in DefinitionsAt(f, b, X, i + 1)
         /\ f.code[i].kind = "Write" =>
              Definition(i, f.code[i].local) \in DefinitionsAt(f, b, X, i + 1)
<1>1. /\ f.blocks[b].begin \in Nat /\ f.blocks[b].end \in Nat /\ i \in Nat
      /\ f.blocks[b].begin <= i /\ i \in DOMAIN f.code
  BY DEF Analyzable, BasicBlock, From
<1>2. \A k \in Before(f, b, i + 1) : k = i \/ k \in Before(f, b, i)
  BY <1>1 DEF Before
<1>3. Before(f, b, i) \subseteq Before(f, b, i + 1) /\ i \in Before(f, b, i + 1)
  BY <1>1 DEF Before
<1>4. \A k \in Before(f, b, i + 1) : ~(k > i)
  BY <1>1 DEF Before
<1>5. ASSUME NEW d \in DefinitionsAt(f, b, X, i), ~Ends(f, i, d.local)
      PROVE  d \in DefinitionsAt(f, b, X, i + 1)
  BY <1>2, <1>3, <1>5 DEF DefinitionsAt
<1>6. ASSUME f.code[i].kind = "Write"
      PROVE  Definition(i, f.code[i].local) \in DefinitionsAt(f, b, X, i + 1)
  <2>1. Definition(i, f.code[i].local) \in Definitions(f)
    BY <1>1, <1>6 DEF Definitions
  <2>2. Definition(i, f.code[i].local).instruction = i
    BY DEF Definition
  <2>3. QED BY <1>3, <1>4, <2>1, <2>2 DEF DefinitionsAt
<1>7. QED BY <1>5, <1>6

LEMMA AvailableAtStep ==
  ASSUME NEW f, Analyzable(f), NEW b \in Block, NEW X,
         NEW i \in From(f, b, f.blocks[b].begin),
         NEW l \in AvailableAt(f, b, X, i + 1)
  PROVE  localWrite(f, i, l) \/ (l \in AvailableAt(f, b, X, i) /\ ~Ends(f, i, l))
<1>1. f.blocks[b].begin \in Nat /\ i \in Nat /\ f.blocks[b].begin <= i
  BY DEF Analyzable, BasicBlock, From
<1>2. \A k \in Before(f, b, i + 1) : k = i \/ k \in Before(f, b, i)
  BY <1>1 DEF Before
<1>3. Before(f, b, i) \subseteq Before(f, b, i + 1) /\ i \in Before(f, b, i + 1)
  BY <1>1 DEF Before
<1>4. \A k \in Before(f, b, i) : i > k
  BY <1>1 DEF Before
<1>5. QED BY <1>2, <1>3, <1>4 DEF AvailableAt

LEMMA LiveAtStep ==
  ASSUME NEW f, Analyzable(f), NEW b \in Block, NEW X,
         NEW i \in From(f, b, f.blocks[b].begin)
  PROVE  /\ \A l \in LiveAt(f, b, X, i + 1) :
              ~localWrite(f, i, l) => l \in LiveAt(f, b, X, i)
         /\ \A l \in Local : localRead(f, i, l) => l \in LiveAt(f, b, X, i)
<1>1. /\ f.blocks[b].begin \in Nat /\ f.blocks[b].end \in Nat /\ i \in Nat
      /\ i < f.blocks[b].end
  BY DEF Analyzable, BasicBlock, From
<1>2. \A k \in From(f, b, i) : k = i \/ k \in From(f, b, i + 1)
  BY <1>1 DEF From
<1>3. From(f, b, i + 1) \subseteq From(f, b, i) /\ i \in From(f, b, i)
  BY <1>1 DEF From
<1>4. \A k \in From(f, b, i) : ~(k < i)
  BY <1>1 DEF From
<1>5. ASSUME NEW l \in LiveAt(f, b, X, i + 1), ~localWrite(f, i, l)
      PROVE  l \in LiveAt(f, b, X, i)
  BY <1>2, <1>3, <1>5 DEF LiveAt
<1>6. ASSUME NEW l \in Local, localRead(f, i, l)
      PROVE  l \in LiveAt(f, b, X, i)
  BY <1>3, <1>4, <1>6 DEF LiveAt
<1>7. QED BY <1>5, <1>6

(* At the two ends of a block.                                             *)
LEMMA BlockEnds ==
  ASSUME NEW f, Analyzable(f), NEW b \in Block
  PROVE  /\ \A X \in SUBSET Definitions(f) : X \subseteq DefinitionsAt(f, b, X, f.blocks[b].begin)
         /\ \A X : AvailableAt(f, b, X, f.blocks[b].begin) \subseteq X
         /\ \A X \in SUBSET Local : X \subseteq LiveAt(f, b, X, f.blocks[b].end)
<1>1. f.blocks[b].begin \in Nat /\ f.blocks[b].end \in Nat
  BY DEF Analyzable, BasicBlock
<1>2. Before(f, b, f.blocks[b].begin) = {} /\ From(f, b, f.blocks[b].end) = {}
  BY <1>1 DEF Before, From
<1>3. QED BY <1>2 DEF DefinitionsAt, AvailableAt, LiveAt

(* What is settled at the end of the analysis.                             *)
LEMMA DoneSettles ==
  ASSUME PassInv, pc = "done", NEW b \in Block, Reachable(function, b)
  PROVE  ReachSettled(b) /\ MustSettled(b) /\ LiveSettled(b)
BY DEF PassInv, ReachRounds, MustRounds, LiveRounds

(* A definition is not None.                                               *)
LEMMA DefinitionIsNotNone ==
  ASSUME NEW i \in Int \cup {None}, NEW l \in Local
  PROVE  /\ Definition(i, l) # None
         /\ Definition(i, l).local = l
<1>1. Definition(i, l) \in [instruction : Int \cup {None}, local : Local]
  BY DEF Definition
<1>2. QED BY <1>1, NoneAssumption DEF Definition
-----------------------------------------------------------------------------
(* The analysis is over before the run begins.                             *)
LEMMA AnalyzeKeepsIInv == IInv /\ Analyze => IInv'
<1> SUFFICES ASSUME IInv, Analyze PROVE IInv'
  OBVIOUS
<1>1. PassInv'
  BY PassKeepsPassInv DEF IInv, Analyze
<1>2. UNCHANGED <<function, here, next, holds, dropped>>
  BY DEF Analyze, runVars, Pass, Skip, Reach, Provide, Need, Again, RecordUses, Reject
<1>3. here = None
  <2>1. pc # "done"
    BY DEF Analyze, Pass, Skip, Reach, Provide, Need, Again, RecordUses, Reject
  <2>2. QED BY <2>1 DEF IInv, TypeOK
<1>4. TypeOK'
  BY <1>1, <1>2, <1>3 DEF IInv, TypeOK, PassInv
<1>5. RunInv'
  BY <1>2, <1>3 DEF IInv, RunInv
<1>6. QED BY <1>1, <1>4, <1>5 DEF IInv

(* The caller's values are the definitions that enter the first block.     *)
LEMMA CallKeepsIInv == IInv /\ Call => IInv'
<1> SUFFICES ASSUME IInv, Call PROVE IInv'
  OBVIOUS
<1>1. /\ UNCHANGED passVars /\ UNCHANGED dropped /\ pc = "done" /\ here = None
      /\ here' = 0 /\ next' = Begin(0)
      /\ holds' = [l \in Local |->
                     IF l \in Parameters(function) THEN Definition(None, l) ELSE None]
  BY DEF Call, Begin
<1>2. /\ function' = function /\ pc' = pc /\ reaching_in' = reaching_in
      /\ must_in' = must_in /\ live_out' = live_out
  BY <1>1 DEF passVars
<1>3. PassInv'
  BY <1>1, UnchangedKeepsPassInv DEF IInv
<1>4. Analyzable(function) /\ 0 \in Block /\ Reachable(function, 0)
  BY BlockBounds DEF IInv, PassInv, PassTypeOK, Analyzable, Reachable
<1>5. 0 # None
  BY NoneAssumption
<1>6. TypeOK'
  <2>1. next' \in Begin(0) .. End(0)
    BY <1>1, <1>4 DEF Analyzable, BasicBlock, Begin, End
  <2>2. \A l \in Parameters(function) : Definition(None, l) \in Definitions(function)
    BY DEF Definitions, entry_definitions
  <2>3. holds' \in [Local -> Definitions(function) \cup {None}]
    BY <1>1, <2>2
  <2>4. QED BY <1>1, <1>2, <1>3, <1>4, <2>1, <2>3 DEF IInv, TypeOK, PassInv, Begin, End
<1>7. ReachSettled(0) /\ MustSettled(0)
  BY <1>1, <1>4, DoneSettles DEF IInv
<1>8. ASSUME NEW l \in Local, holds'[l] # None
      PROVE  /\ holds'[l] \in DefinitionsAt(function, 0, reaching_in[0], Begin(0))
             /\ holds'[l].local = l
  <2>1. l \in Parameters(function) /\ holds'[l] = Definition(None, l)
    BY <1>1, <1>8
  <2>2. Definition(None, l) \in reaching_in[0]
    BY <1>7, <2>1 DEF ReachSettled, IncomingDefinitions, entry_definitions
  <2>3. reaching_in[0] \in SUBSET Definitions(function)
    BY <1>4 DEF IInv, PassInv, PassTypeOK
  <2>4. QED BY <1>4, <2>1, <2>2, <2>3, BlockEnds, DefinitionIsNotNone DEF Begin
<1>9. ASSUME NEW l \in AvailableAt(function, 0, must_in[0], Begin(0))
      PROVE  holds'[l] # None
  <2>1. l \in must_in[0]
    BY <1>4, BlockEnds DEF Begin
  <2>2. l \in Local /\ l \in Parameters(function)
    BY <1>7, <2>1 DEF MustSettled, IncomingMust
  <2>3. QED BY <1>1, <2>2, DefinitionIsNotNone
<1>10. dropped' = {}
  BY <1>1 DEF IInv, RunInv
<1>11. RunInv'
  BY <1>1, <1>2, <1>5, <1>8, <1>9, <1>10 DEF RunInv
<1>12. QED BY <1>3, <1>6, <1>11 DEF IInv

(* One instruction changes what is held as it changes the sets.            *)
LEMMA ExecuteKeepsIInv == IInv /\ Execute => IInv'
<1> SUFFICES ASSUME IInv, Execute PROVE IInv'
  OBVIOUS
<1>1. /\ UNCHANGED passVars /\ here' = here /\ next' = next + 1
      /\ here # None /\ next < End(here)
  BY DEF Execute, Within
<1>2. /\ function' = function /\ pc' = pc /\ reaching_in' = reaching_in
      /\ must_in' = must_in /\ live_out' = live_out
  BY <1>1 DEF passVars
<1>3. PassInv'
  BY <1>1, UnchangedKeepsPassInv DEF IInv
<1>4. /\ Analyzable(function) /\ here \in Block /\ Reachable(function, here) /\ pc = "done"
      /\ next \in Begin(here) .. End(here)
      /\ holds \in [Local -> Definitions(function) \cup {None}] /\ dropped \subseteq Local
  BY <1>1 DEF IInv, TypeOK, PassTypeOK, Begin
<1>5. Begin(here) \in Nat /\ End(here) \in Nat /\ next \in Nat
  BY <1>4 DEF Analyzable, BasicBlock, Begin, End
<1>6. next \in From(function, here, function.blocks[here].begin)
  BY <1>1, <1>4, <1>5 DEF From, Begin, End
<1>7. next \in DOMAIN function.code /\ function.code[next] \in Instruction
  BY <1>4, <1>6 DEF Analyzable, From
<1> DEFINE i == function.code[next]
<1>8. /\ i.kind \in {"Read", "Move", "Write", "Other"} /\ i.local \in Local
  BY <1>7 DEF Instruction
<1>9. /\ i.kind = "Write" =>
           holds' = [holds EXCEPT ![i.local] = Definition(next, i.local)]
      /\ i.kind = "Move" => holds' = [holds EXCEPT ![i.local] = None]
      /\ i.kind \notin {"Write", "Move"} => holds' = holds
      /\ dropped' = IF i.kind = "Write" THEN dropped \ {i.local} ELSE dropped
  BY <1>8 DEF Execute
<1>10. Definition(next, i.local) # None /\ Definition(next, i.local).local = i.local
  BY <1>5, <1>8, DefinitionIsNotNone
<1>11. i.kind = "Write" => Definition(next, i.local) \in Definitions(function)
  BY <1>7 DEF Definitions
<1>12. holds' \in [Local -> Definitions(function) \cup {None}]
  BY <1>4, <1>9, <1>11
<1>13. TypeOK'
  <2>1. next' \in Begin(here) .. End(here)
    BY <1>1, <1>4, <1>5
  <2>2. dropped' \subseteq Local
    BY <1>4, <1>9
  <2>3. QED BY <1>1, <1>2, <1>3, <1>4, <1>12, <2>1, <2>2 DEF IInv, TypeOK, PassInv, Begin, End
<1> HIDE DEF i
<1>14. ASSUME NEW l \in Local, holds'[l] # None
       PROVE  /\ holds'[l] \in DefinitionsAt(function, here, reaching_in[here], next + 1)
              /\ holds'[l].local = l
  <2>1. CASE i.kind = "Write" /\ i.local = l
    <3>1. holds'[l] = Definition(next, l)
      BY <1>4, <1>9, <2>1
    <3>2. QED BY <1>4, <1>6, <1>10, <2>1, <3>1, DefinitionsAtStep DEF i
  <2>2. CASE ~(i.kind \in {"Write", "Move"} /\ i.local = l)
    <3>1. holds'[l] = holds[l]
      BY <1>4, <1>8, <1>9, <2>2
    <3>2. /\ holds[l] \in DefinitionsAt(function, here, reaching_in[here], next)
          /\ holds[l].local = l
      BY <1>1, <1>14, <3>1 DEF IInv, RunInv
    <3>3. ~Ends(function, next, l)
      BY <2>2 DEF Ends, i
    <3>4. QED BY <1>4, <1>6, <3>1, <3>2, <3>3, DefinitionsAtStep
  <2>3. CASE i.kind = "Move" /\ i.local = l
    BY <1>4, <1>9, <1>14, <2>3
  <2>4. QED BY <2>1, <2>2, <2>3
<1>15. ASSUME NEW l \in AvailableAt(function, here, must_in[here], next + 1)
       PROVE  holds'[l] # None
  <2>1. l \in Local
    BY <1>4, VisitTypes
  <2>2. CASE localWrite(function, next, l)
    BY <1>4, <1>9, <1>10, <2>1, <2>2 DEF localWrite, i
  <2>3. CASE l \in AvailableAt(function, here, must_in[here], next) /\ ~Ends(function, next, l)
    <3>1. holds[l] # None
      BY <1>1, <2>3 DEF IInv, RunInv
    <3>2. ~(i.kind \in {"Write", "Move"} /\ i.local = l)
      BY <2>3 DEF Ends, i
    <3>3. holds'[l] = holds[l]
      BY <1>4, <1>8, <1>9, <2>1, <3>2
    <3>4. QED BY <3>1, <3>3
  <2>4. QED BY <1>4, <1>6, <2>2, <2>3, AvailableAtStep
<1>16. ASSUME NEW l \in dropped' PROVE l \notin LiveAt(function, here, live_out[here], next + 1)
  <2>1. l \in dropped /\ ~localWrite(function, next, l)
    BY <1>9 DEF localWrite, i
  <2>2. l \notin LiveAt(function, here, live_out[here], next)
    BY <1>1, <2>1 DEF IInv, RunInv
  <2>3. QED BY <1>4, <1>6, <2>1, <2>2, LiveAtStep
<1>17. RunInv'
  BY <1>1, <1>2, <1>14, <1>15, <1>16 DEF RunInv
<1>18. QED BY <1>3, <1>13, <1>17 DEF IInv

(* Along an edge what is held leaves one block's sets and enters the       *)
(* next's.                                                                 *)
LEMMA FollowKeepsIInv == ASSUME NEW s \in Block PROVE IInv /\ Follow(s) => IInv'
<1> SUFFICES ASSUME IInv, Follow(s) PROVE IInv'
  OBVIOUS
<1>1. /\ UNCHANGED passVars /\ UNCHANGED <<holds, dropped>>
      /\ here # None /\ next = End(here) /\ s \in function.blocks[here].successors
      /\ here' = s /\ next' = Begin(s)
  BY DEF Follow, Begin
<1>2. /\ function' = function /\ pc' = pc /\ reaching_in' = reaching_in
      /\ must_in' = must_in /\ live_out' = live_out
  BY <1>1 DEF passVars
<1>3. PassInv'
  BY <1>1, UnchangedKeepsPassInv DEF IInv
<1>4. /\ Analyzable(function) /\ here \in Block /\ Reachable(function, here) /\ pc = "done"
      /\ PassInv
  BY <1>1 DEF IInv, TypeOK, PassTypeOK
<1>5. Reachable(function, s)
  BY <1>1, <1>4 DEF Analyzable, Reachable
<1>6. TypeOK'
  <2>1. next' \in Begin(s) .. End(s)
    BY <1>1, <1>4 DEF Analyzable, BasicBlock, Begin, End
  <2>2. QED BY <1>1, <1>2, <1>3, <1>4, <1>5, <2>1 DEF IInv, TypeOK, PassInv, Begin, End
<1>7. /\ ReachSettled(here) /\ MustSettled(here) /\ LiveSettled(here)
      /\ ReachSettled(s) /\ MustSettled(s) /\ LiveSettled(s)
  BY <1>4, <1>5, DoneSettles
<1>8. here \in LivePredecessors(function, s) /\ s \in LiveSuccessors(function, here)
  BY <1>1, <1>4, <1>5 DEF LivePredecessors, LiveSuccessors
<1>9. ASSUME NEW l \in Local, holds[l] # None
      PROVE  /\ holds[l] \in DefinitionsAt(function, s, reaching_in[s], Begin(s))
             /\ holds[l].local = l
  <2>1. /\ holds[l] \in DefinitionsAt(function, here, reaching_in[here], End(here))
        /\ holds[l].local = l
    BY <1>1, <1>9 DEF IInv, RunInv
  <2>2. holds[l] \in reaching_out[here]
    BY <1>7, <2>1 DEF ReachSettled
  <2>3. holds[l] \in reaching_in[s]
    BY <1>7, <1>8, <2>2 DEF ReachSettled, IncomingDefinitions
  <2>4. reaching_in[s] \in SUBSET Definitions(function)
    BY <1>4 DEF PassInv, PassTypeOK
  <2>5. QED BY <1>4, <2>1, <2>3, <2>4, BlockEnds DEF Begin
<1>10. ASSUME NEW l \in AvailableAt(function, s, must_in[s], Begin(s))
       PROVE  holds[l] # None
  <2>1. l \in must_in[s]
    BY <1>4, BlockEnds DEF Begin
  <2>2. l \in must_out[here]
    BY <1>7, <1>8, <2>1 DEF MustSettled, IncomingMust
  <2>3. l \in AvailableAt(function, here, must_in[here], End(here))
    BY <1>7, <2>2 DEF MustSettled
  <2>4. QED BY <1>1, <2>3 DEF IInv, RunInv
<1>11. ASSUME NEW l \in LiveAt(function, s, live_out[s], Begin(s))
       PROVE  l \notin dropped
  <2>1. l \in live_in[s]
    BY <1>7 , <1>11 DEF LiveSettled
  <2>2. l \in live_out[here]
    BY <1>7, <1>8, <2>1 DEF LiveSettled, OutgoingLive
  <2>3. live_out[here] \in SUBSET Local
    BY <1>4 DEF PassInv, PassTypeOK
  <2>4. l \in LiveAt(function, here, live_out[here], End(here))
    BY <1>4, <2>2, <2>3, BlockEnds DEF End
  <2>5. QED BY <1>1, <2>4 DEF IInv, RunInv
<1>12. s # None
  BY NoneAssumption, BlockBounds
<1>13. RunInv'
  BY <1>1, <1>2, <1>9, <1>10, <1>11, <1>12 DEF RunInv
<1>14. QED BY <1>3, <1>6, <1>13 DEF IInv

LEMMA DropKeepsIInv == ASSUME NEW l \in Local PROVE IInv /\ Drop(l) => IInv'
<1> SUFFICES ASSUME IInv, Drop(l) PROVE IInv'
  OBVIOUS
<1>1. /\ UNCHANGED passVars /\ UNCHANGED <<here, next, holds>> /\ here # None
      /\ l \notin LiveAt(function, here, live_out[here], next)
      /\ dropped' = dropped \cup {l}
  BY DEF Drop
<1>2. PassInv'
  BY <1>1, UnchangedKeepsPassInv DEF IInv
<1>3. /\ function' = function /\ pc' = pc /\ reaching_in' = reaching_in
      /\ must_in' = must_in /\ live_out' = live_out
  BY <1>1 DEF passVars
<1>4. TypeOK'
  BY <1>1, <1>2, <1>3 DEF IInv, TypeOK, PassInv, End
<1>5. RunInv'
  BY <1>1, <1>3 DEF IInv, RunInv
<1>6. QED BY <1>2, <1>4, <1>5 DEF IInv

LEMMA UnchangedKeepsIInv == IInv /\ UNCHANGED vars => IInv'
<1> SUFFICES ASSUME IInv, UNCHANGED vars PROVE IInv'
  OBVIOUS
<1>1. PassInv'
  BY UnchangedKeepsPassInv DEF IInv, vars
<1>2. TypeOK' /\ RunInv'
  BY <1>1 DEF IInv, TypeOK, RunInv, PassInv, vars, passVars, runVars, End
<1>3. QED BY <1>1, <1>2 DEF IInv

LEMMA InitEstablishesIInv == Init => IInv
<1> SUFFICES ASSUME Init PROVE IInv
  OBVIOUS
<1>1. PassInv
  BY InitEstablishesPassInv DEF Init
<1>2. TypeOK /\ RunInv
  BY <1>1 DEF Init, TypeOK, RunInv, PassInv
<1>3. QED BY <1>1, <1>2 DEF IInv

(* local_analysis.cpp:52-319.  What every visit of the analysis and every  *)
(* step of a run of what it accepts keeps.                                 *)
THEOREM Inductive == Spec => []IInv
<1>1. IInv /\ [Next]_vars => IInv'
  BY AnalyzeKeepsIInv, CallKeepsIInv, ExecuteKeepsIInv, FollowKeepsIInv, DropKeepsIInv,
     UnchangedKeepsIInv DEF Next
<1>2. QED BY InitEstablishesIInv, <1>1, PTL DEF Spec
-----------------------------------------------------------------------------
(* A read of an accepted function was looked at, and listed.               *)
LEMMA ReadIsKnown ==
  ASSUME IInv, NEW l \in Local, ReadsNext(l)
  PROVE  /\ here \in Block /\ Reachable(function, here) /\ Analyzable(function)
         /\ next \in Reads(function, here) /\ function.code[next].local = l
         /\ ~MayReadUnavailable(function, must_in) /\ uses = UsesOf(function, reaching_in)
<1>1. /\ here # None /\ next < End(here) /\ localRead(function, next, l)
  BY DEF ReadsNext, Within
<1>2. /\ here \in Block /\ Reachable(function, here) /\ Analyzable(function)
      /\ next \in Begin(here) .. End(here) /\ pc = "done"
  BY <1>1 DEF IInv, TypeOK, PassTypeOK, Begin
<1>3. next \in From(function, here, function.blocks[here].begin)
  BY <1>1, <1>2 DEF From, Analyzable, BasicBlock, Begin, End
<1>4. QED BY <1>1, <1>2, <1>3 DEF Reads, localRead, IInv, PassInv, Recorded

(* local_analysis.cpp:52-319.  The types of the analysis and of the run.   *)
THEOREM TypeCorrect == Spec => []TypeOK
BY Inductive, PTL DEF IInv

(* local_analysis.cpp:226-230.  No accepted function reads a local that    *)
(* holds no value.                                                         *)
THEOREM AcceptedReadsFindAValue == Spec => []ReadsFindAValue
<1>1. IInv => ReadsFindAValue
  <2> SUFFICES ASSUME IInv, NEW l \in Local, ReadsNext(l) PROVE holds[l] # None
    BY DEF ReadsFindAValue
  <2>1. l \in AvailableAt(function, here, must_in[here], next)
    BY ReadIsKnown DEF MayReadUnavailable
  <2>2. QED BY <2>1 DEF IInv, RunInv, ReadsNext, Within
<1>2. QED BY <1>1, Inductive, PTL

(* local_analysis.cpp:93-238.  Every read finds the value of a definition  *)
(* listed for it.                                                          *)
THEOREM UsesAreComplete == Spec => []UsesListWhatIsHeld
<1>1. IInv => UsesListWhatIsHeld
  <2> SUFFICES ASSUME IInv, NEW l \in Local, ReadsNext(l)
               PROVE  \E u \in uses : /\ u.instruction = next /\ u.local = l
                                      /\ holds[l] \in u.reaching_definitions
    BY DEF UsesListWhatIsHeld
  <2>1. l \in AvailableAt(function, here, must_in[here], next)
    BY ReadIsKnown DEF MayReadUnavailable
  <2>2. /\ holds[l] \in DefinitionsAt(function, here, reaching_in[here], next)
        /\ holds[l].local = l
    BY <2>1 DEF IInv, RunInv, ReadsNext, Within
  <2> DEFINE u == Use(function, here, reaching_in[here], next)
  <2>3. u \in uses
    BY ReadIsKnown DEF UsesOf
  <2>4. /\ u.instruction = next /\ u.local = l /\ holds[l] \in u.reaching_definitions
    BY <2>2, ReadIsKnown DEF Use
  <2>5. QED BY <2>3, <2>4
<1>2. QED BY <1>1, Inductive, PTL

(* local_analysis.cpp:266-301.  A local called dead is not read before it  *)
(* is written.                                                             *)
THEOREM DeadLocalsAreNeverRead == Spec => []DeadIsNeverRead
<1>1. IInv => DeadIsNeverRead
  <2> SUFFICES ASSUME IInv, NEW l \in dropped, ReadsNext(l) PROVE FALSE
    BY DEF DeadIsNeverRead
  <2>1. l \in Local
    BY DEF IInv, TypeOK
  <2>2. next \in From(function, here, function.blocks[here].begin)
    BY <2>1, ReadIsKnown DEF Reads
  <2>3. l \in LiveAt(function, here, live_out[here], next)
    BY <2>1, <2>2, ReadIsKnown, LiveAtStep DEF ReadsNext
  <2>4. QED BY <2>3 DEF IInv, RunInv, ReadsNext, Within
<1>2. QED BY <1>1, Inductive, PTL

(* local_analysis.cpp:117-301.  The sets only ever move one way, so the    *)
(* rounds, over finite sets, come to an end.                               *)
THEOREM SetsOnlyMoveOneWay == Spec => SetsMoveOneWay
<1>1. IInv /\ [Next]_vars => [MovesOneWay]_passVars
  <2> SUFFICES ASSUME IInv, [Next]_vars PROVE [MovesOneWay]_passVars
    OBVIOUS
  <2>1. CASE Analyze
    BY <2>1, PassMovesOneWay DEF IInv, Analyze
  <2>2. CASE UNCHANGED passVars
    BY <2>2
  <2>3. QED BY <2>1, <2>2 DEF Next, Call, Execute, Follow, Drop, vars
<1>2. [][MovesOneWay]_passVars => SetsMoveOneWay
  BY PTL DEF MovesOneWay, SetsMoveOneWay
<1>3. QED BY <1>1, <1>2, Inductive, PTL DEF Spec
-----------------------------------------------------------------------------
(* Induction along the instructions of a block.                            *)
LEMMA AlongTheBlock ==
  ASSUME NEW a \in Nat, NEW n \in Nat, a <= n, NEW T, a \in T,
         \A i \in a .. n - 1 : i \in T => i + 1 \in T
  PROVE  a .. n \subseteq T
<1> DEFINE U == {k \in 0 .. n - a : a + k \in T}
<1>1. n - a \in Nat /\ 0 \in U  OBVIOUS
<1>2. ASSUME NEW k \in 0 .. (n - a) - 1, k \in U PROVE k + 1 \in U
  <2>1. a + k \in a .. n - 1 /\ a + k \in T  BY <1>2
  <2>2. (a + k) + 1 \in T  BY <2>1
  <2>3. (a + k) + 1 = a + (k + 1)  OBVIOUS
  <2> QED  BY <2>2, <2>3
<1> HIDE DEF U
<1>3. 0 .. n - a \subseteq U  BY <1>1, <1>2, ClosedUpTo
<1>4. ASSUME NEW i \in a .. n PROVE i \in T
  <2>1. i - a \in U  BY <1>3
  <2>2. a + (i - a) \in T  BY <2>1 DEF U
  <2> QED  BY <2>2
<1> QED  BY <1>4

LEMMA BackAlongTheBlock ==
  ASSUME NEW a \in Nat, NEW n \in Nat, a <= n, NEW T, n \in T,
         \A i \in a .. n - 1 : i + 1 \in T => i \in T
  PROVE  a .. n \subseteq T
<1> DEFINE U == {k \in 0 .. n - a : n - k \in T}
<1>1. n - a \in Nat /\ 0 \in U  OBVIOUS
<1>2. ASSUME NEW k \in 0 .. (n - a) - 1, k \in U PROVE k + 1 \in U
  <2>1. n - (k + 1) \in a .. n - 1 /\ n - k \in T  BY <1>2
  <2>2. (n - (k + 1)) + 1 = n - k  OBVIOUS
  <2>3. n - (k + 1) \in T  BY <2>1, <2>2
  <2> QED  BY <2>3
<1> HIDE DEF U
<1>3. 0 .. n - a \subseteq U  BY <1>1, <1>2, ClosedUpTo
<1>4. ASSUME NEW i \in a .. n PROVE i \in T
  <2>1. n - i \in U  BY <1>3
  <2>2. n - (n - i) \in T  BY <2>1 DEF U
  <2> QED  BY <2>2
<1> QED  BY <1>4

LEMMA BlockTypes ==
  ASSUME NEW f, Analyzable(f), NEW b \in Block
  PROVE  /\ f.blocks[b].begin \in Nat /\ f.blocks[b].end \in Nat
         /\ f.blocks[b].begin <= f.blocks[b].end /\ f.blocks[b].successors \subseteq Block
         /\ \A i \in f.blocks[b].begin .. f.blocks[b].end - 1 :
              /\ i \in DOMAIN f.code /\ i \in Nat /\ i \in From(f, b, f.blocks[b].begin)
              /\ f.code[i].kind \in {"Read", "Move", "Write", "Other"}
              /\ f.code[i].local \in Local
<1>1. f.blocks[b] \in BasicBlock /\ f.code \in [DOMAIN f.code -> Instruction]
  BY DEF Analyzable
<1>2. f.blocks[b].begin <= f.blocks[b].end
      /\ f.blocks[b].begin .. f.blocks[b].end - 1 \subseteq DOMAIN f.code
  BY DEF Analyzable
<1> QED  BY <1>1, <1>2 DEF BasicBlock, Instruction, From

(* A definition, by what it was made by.                                   *)
LEMMA DefinitionsAre ==
  ASSUME NEW f, Analyzable(f), NEW d \in Definitions(f)
  PROVE  /\ d # None /\ d.local \in Local
         /\ \A i \in Nat : d.instruction = i =>
              i \in DOMAIN f.code /\ f.code[i].kind = "Write" /\ f.code[i].local = d.local
                /\ d = Definition(i, d.local)
<1>1. CASE d \in entry_definitions(f)
  <2>1. PICK l \in Local : d = Definition(None, l)
    BY <1>1 DEF entry_definitions, Parameters
  <2>2. d # None /\ d.local = l  BY <2>1, DefinitionIsNotNone
  <2>3. d.instruction = None  BY <2>1 DEF Definition
  <2> QED  BY <2>2, <2>3, NoneAssumption
<1>2. CASE d \notin entry_definitions(f)
  <2>1. PICK j \in DOMAIN f.code : f.code[j].kind = "Write" /\ d = Definition(j, f.code[j].local)
    BY <1>2 DEF Definitions
  <2>2. f.code[j].local \in Local /\ j \in Nat  BY <2>1 DEF Analyzable, Instruction
  <2>3. d = [instruction |-> j, local |-> f.code[j].local]  BY <2>1 DEF Definition
  <2>4. d.instruction = j /\ d.local = f.code[j].local  BY <2>3
  <2>5. d # None
    <3>1. d \in [instruction : Int \cup {None}, local : Local]  BY <2>2, <2>3
    <3> QED  BY <3>1, NoneAssumption
  <2> QED  BY <2>1, <2>2, <2>4, <2>5
<1> QED  BY <1>1, <1>2
-----------------------------------------------------------------------------
LEMMA PlacesAreFinite ==
  ASSUME NEW f, Analyzable(f)
  PROVE  IsFiniteSet(Places(f)) /\ IsFiniteSet(Holdings(f))
<1> DEFINE of(b) == {<<b, i>> : i \in f.blocks[b].begin .. f.blocks[b].end}
           all == {of(b) : b \in Block}
           ends == {f.blocks[b].end : b \in Block}
<1>1. IsFiniteSet(Block) /\ BlockCount \in Nat  BY CountsAssumption, FS_Interval DEF Block
<1>2. \E n \in Nat : \A b \in Block : f.blocks[b].end <= n
  <2> DEFINE T == {k \in 0 .. BlockCount : \E n \in Nat : \A b \in 0 .. k - 1 : f.blocks[b].end <= n}
  <2>1. 0 \in T  BY <1>1
  <2>2. ASSUME NEW k \in 0 .. BlockCount - 1, k \in T PROVE k + 1 \in T
    <3>1. PICK n \in Nat : \A b \in 0 .. k - 1 : f.blocks[b].end <= n  BY <2>2
    <3>2. k \in Block  BY DEF Block
    <3>3. f.blocks[k].end \in Nat  BY <3>2, BlockTypes
    <3> DEFINE m == IF f.blocks[k].end <= n THEN n ELSE f.blocks[k].end
    <3>4. m \in Nat /\ n <= m /\ f.blocks[k].end <= m  BY <3>3
    <3>5. ASSUME NEW b \in 0 .. (k + 1) - 1 PROVE f.blocks[b].end <= m
      <4>1. b = k \/ b \in 0 .. k - 1  OBVIOUS
      <4>2. b \in Block  BY <1>1 DEF Block
      <4>3. f.blocks[b].end \in Nat  BY <4>2, BlockTypes
      <4> HIDE DEF m
      <4> QED  BY <3>1, <3>4, <4>1, <4>3
    <3>6. k + 1 \in 0 .. BlockCount  BY <1>1
    <3> HIDE DEF m
    <3> QED  BY <3>4, <3>5, <3>6
  <2> HIDE DEF T
  <2>3. BlockCount \in T  BY <1>1, <2>1, <2>2, ClosedUpTo
  <2> QED  BY <2>3 DEF T, Block
<1>3. PICK n \in Nat : \A b \in Block : f.blocks[b].end <= n  BY <1>2
<1>4. Places(f) \subseteq Block \X (0 .. n)
  <2> SUFFICES ASSUME NEW p \in Places(f) PROVE p \in Block \X (0 .. n)  OBVIOUS
  <2>1. PICK b \in Block : p \in {<<b, i>> : i \in f.blocks[b].begin .. f.blocks[b].end}
    BY DEF Places
  <2>2. PICK i \in f.blocks[b].begin .. f.blocks[b].end : p = <<b, i>>  BY <2>1
  <2>3. f.blocks[b].begin \in Nat /\ f.blocks[b].end \in Nat /\ f.blocks[b].end <= n
    BY <1>3, BlockTypes
  <2>4. i \in 0 .. n  BY <2>3
  <2> QED  BY <2>2, <2>4
<1>5. IsFiniteSet(Block \X (0 .. n))
  <2>1. IsFiniteSet(0 .. n)  BY FS_Interval
  <2> QED  BY <1>1, <2>1, FS_Product
<1>6. IsFiniteSet(Places(f))  BY <1>4, <1>5, FS_Subset
<1>7. IsFiniteSet(Definitions(f) \cup {None})
  <2> DEFINE makers == DOMAIN f.code \cup {None}
             fields == makers \X Local
  <2>1. IsFiniteSet(fields)
    <3>1. IsFiniteSet(makers)  BY FS_AddElement DEF Analyzable
    <3>2. IsFiniteSet(Local)  BY CountsAssumption, FS_Interval DEF Local
    <3> QED  BY <3>1, <3>2, FS_Product
  <2> DEFINE pair(d) == <<d.instruction, d.local>>
             F == [d \in Definitions(f) |-> pair(d)]
  <2>2. F \in Injection(Definitions(f), fields)
    <3>1. ASSUME NEW d \in Definitions(f)
          PROVE  /\ d.instruction \in makers /\ d.local \in Local
                 /\ d = Definition(d.instruction, d.local)
      <4>1. CASE d \in entry_definitions(f)
        <5>1. PICK l \in Local : d = Definition(None, l)
          BY <4>1 DEF entry_definitions, Parameters
        <5> QED  BY <5>1 DEF Definition
      <4>2. CASE d \notin entry_definitions(f)
        <5>1. PICK j \in DOMAIN f.code : d = Definition(j, f.code[j].local)
          BY <4>2 DEF Definitions
        <5>2. f.code[j].local \in Local  BY <5>1 DEF Analyzable, Instruction
        <5> QED  BY <5>1, <5>2 DEF Definition
      <4> QED  BY <4>1, <4>2
    <3>2. F \in [Definitions(f) -> fields]  BY <3>1
    <3>3. ASSUME NEW a \in Definitions(f), NEW b \in Definitions(f), F[a] = F[b] PROVE a = b
      BY <3>1, <3>3
    <3> QED  BY <3>2, <3>3 DEF Injection, IsInjective
  <2> HIDE DEF F, fields
  <2>3. IsFiniteSet(Definitions(f))  BY <2>1, <2>2, FS_Injection
  <2> QED  BY <2>3, FS_AddElement
<1> QED  BY <1>6, <1>7, FS_Product DEF Holdings

(* Some way comes to instruction i of block b, or its end, with local l    *)
(* holding v.                                                              *)
ComesTo(f, l, b, i, v) == <<<<b, i>>, v>> \in Ways(f, l)

(* What l holds past instruction i.                                        *)
HeldPast(f, l, i, v) ==
  IF localWrite(f, i, l) THEN Definition(i, l) ELSE IF Ends(f, i, l) THEN None ELSE v

LEMMA HeldIsHeldPast ==
  ASSUME NEW f, Analyzable(f), NEW b \in Block, NEW l, NEW v,
         NEW i \in f.blocks[b].begin .. f.blocks[b].end - 1
  PROVE  /\ Held(f, l, <<b, i>>, v) = HeldPast(f, l, i, v)
         /\ localWrite(f, i, l) => HeldPast(f, l, i, v) \in Definitions(f)
<1>1. /\ i \in DOMAIN f.code /\ i \in Nat /\ i < f.blocks[b].end
      /\ f.code[i].kind \in {"Read", "Move", "Write", "Other"}
  BY BlockTypes
<1>2. At(f, <<b, i>>)  BY <1>1 DEF At
<1>3. Held(f, l, <<b, i>>, v) = HeldPast(f, l, i, v)
  BY <1>1, <1>2 DEF Held, HeldPast, localWrite, Ends
<1>4. localWrite(f, i, l) => Definition(i, l) \in Definitions(f)
  BY <1>1 DEF localWrite, Definitions
<1> QED  BY <1>3, <1>4 DEF HeldPast

(* A place is before an instruction or at an end.                          *)
LEMMA PlacesAre ==
  ASSUME NEW f, Analyzable(f)
  PROVE  /\ \A p \in Places(f) : /\ p = <<p[1], p[2]>> /\ p[1] \in Block
                                 /\ p[2] \in f.blocks[p[1]].begin .. f.blocks[p[1]].end
         /\ \A b \in Block : \A i \in f.blocks[b].begin .. f.blocks[b].end : <<b, i>> \in Places(f)
         /\ \A p \in Places(f) : Onward(f, p) \subseteq Places(f)
<1>1. ASSUME NEW p \in Places(f)
      PROVE  /\ p = <<p[1], p[2]>> /\ p[1] \in Block
             /\ p[2] \in f.blocks[p[1]].begin .. f.blocks[p[1]].end
  <2>1. PICK b \in Block : p \in {<<b, i>> : i \in f.blocks[b].begin .. f.blocks[b].end}
    BY DEF Places
  <2>2. PICK i \in f.blocks[b].begin .. f.blocks[b].end : p = <<b, i>>  BY <2>1
  <2> QED  BY <2>2
<1>2. ASSUME NEW b \in Block, NEW i \in f.blocks[b].begin .. f.blocks[b].end
      PROVE  <<b, i>> \in Places(f)
  BY DEF Places
<1>3. ASSUME NEW p \in Places(f), NEW q \in Onward(f, p) PROVE q \in Places(f)
  <2>1. /\ p[1] \in Block /\ p[2] \in f.blocks[p[1]].begin .. f.blocks[p[1]].end
        /\ f.blocks[p[1]].begin \in Nat /\ f.blocks[p[1]].end \in Nat
        /\ f.blocks[p[1]].successors \subseteq Block
    BY <1>1, BlockTypes
  <2>2. CASE p[2] = f.blocks[p[1]].end
    <3>1. PICK s \in f.blocks[p[1]].successors : q = <<s, f.blocks[s].begin>>
      BY <1>3, <2>2 DEF Onward
    <3>2. s \in Block  BY <2>1
    <3>3. f.blocks[s].begin \in f.blocks[s].begin .. f.blocks[s].end  BY <3>2, BlockTypes
    <3> QED  BY <1>2, <3>1, <3>2, <3>3
  <2>3. CASE p[2] # f.blocks[p[1]].end
    <3>1. q = <<p[1], p[2] + 1>>  BY <1>3, <2>3 DEF Onward
    <3>2. p[2] + 1 \in f.blocks[p[1]].begin .. f.blocks[p[1]].end  BY <2>1, <2>3
    <3> QED  BY <1>2, <2>1, <3>1, <3>2
  <2> QED  BY <2>2, <2>3
<1> QED  BY <1>1, <1>2, <1>3

LEMMA StartIsAHolding ==
  ASSUME NEW f, Analyzable(f), NEW l \in Local
  PROVE  Start(f, l) \in Holdings(f)
<1>1. 0 \in Block  BY BlockBounds
<1>2. f.blocks[0].begin \in f.blocks[0].begin .. f.blocks[0].end  BY <1>1, BlockTypes
<1>3. <<0, f.blocks[0].begin>> \in Places(f)  BY <1>1, <1>2, PlacesAre
<1>4. l \in Parameters(f) => Definition(None, l) \in Definitions(f)
  BY DEF Definitions, entry_definitions
<1> QED  BY <1>3, <1>4 DEF Start, Holdings

(* Where ways come to, and that they come to nothing else.                 *)
LEMMA WaysGoOn ==
  ASSUME NEW f, Analyzable(f), NEW l \in Local
  PROVE  /\ Ways(f, l) \subseteq Holdings(f)
         /\ Start(f, l) \in Ways(f, l)
         /\ \A b \in Block : \A v :
              /\ \A i \in f.blocks[b].begin .. f.blocks[b].end - 1 :
                   ComesTo(f, l, b, i, v) => ComesTo(f, l, b, i + 1, HeldPast(f, l, i, v))
              /\ \A s \in f.blocks[b].successors :
                   ComesTo(f, l, b, f.blocks[b].end, v) => ComesTo(f, l, s, f.blocks[s].begin, v)
<1> DEFINE all == Holdings(f)
           to == Steps(f, l)
           ways == Flooded(to, all, {Start(f, l)})
<1>1. IsFiniteSet(all)  BY PlacesAreFinite
<1>2. to = [x \in all |-> {<<p, Held(f, l, x[1], x[2])>> : p \in Onward(f, x[1])}]
  BY DEF Steps
<1>3. ways = Ways(f, l)  BY DEF Ways
<1>4. Start(f, l) \in all  BY StartIsAHolding
<1> HIDE DEF all, to, ways
<1>5. /\ {Start(f, l)} \subseteq ways /\ ways \subseteq {Start(f, l)} \cup all
      /\ \A x \in ways : to[x] \cap all \subseteq ways
  BY <1>1, FloodIsClosed DEF ways
<1>6. ways \subseteq all  BY <1>4, <1>5
<1>7. ASSUME NEW x \in ways, NEW p \in Onward(f, x[1]), Held(f, l, x[1], x[2]) \in Definitions(f) \cup {None}
      PROVE  <<p, Held(f, l, x[1], x[2])>> \in ways
  <2>1. x[1] \in Places(f)  BY <1>6 DEF all, Holdings
  <2>2. p \in Places(f)  BY <2>1, PlacesAre
  <2>3. <<p, Held(f, l, x[1], x[2])>> \in all  BY <1>7, <2>2 DEF all, Holdings
  <2>4. <<p, Held(f, l, x[1], x[2])>> \in to[x]  BY <1>2, <1>6
  <2> QED  BY <1>5, <2>3, <2>4
<1>8. ASSUME NEW b \in Block, NEW v, NEW i \in f.blocks[b].begin .. f.blocks[b].end - 1,
             <<<<b, i>>, v>> \in ways
      PROVE  <<<<b, i + 1>>, HeldPast(f, l, i, v)>> \in ways
  <2> DEFINE x == <<<<b, i>>, v>>
  <2>1. x[1] = <<b, i>> /\ x[2] = v /\ x \in ways  BY <1>8
  <2> HIDE DEF x
  <2>2. v \in Definitions(f) \cup {None}
    <3>1. x \in all  BY <1>6, <2>1
    <3> QED  BY <2>1, <3>1 DEF all, Holdings
  <2>3. /\ Held(f, l, <<b, i>>, v) = HeldPast(f, l, i, v)
        /\ localWrite(f, i, l) => HeldPast(f, l, i, v) \in Definitions(f)
    BY HeldIsHeldPast
  <2>4. HeldPast(f, l, i, v) \in Definitions(f) \cup {None}
    <3>1. ~localWrite(f, i, l) => HeldPast(f, l, i, v) \in {v, None}  BY DEF HeldPast
    <3> QED  BY <2>2, <2>3, <3>1
  <2>5. <<b, i + 1>> \in Onward(f, <<b, i>>)
    <3>1. i # f.blocks[b].end  BY BlockTypes
    <3> QED  BY <3>1 DEF Onward
  <2> QED  BY <1>7, <2>1, <2>3, <2>4, <2>5
<1>9. ASSUME NEW b \in Block, NEW v, NEW s \in f.blocks[b].successors,
             <<<<b, f.blocks[b].end>>, v>> \in ways
      PROVE  <<<<s, f.blocks[s].begin>>, v>> \in ways
  <2> DEFINE i == f.blocks[b].end
             x == <<<<b, i>>, v>>
  <2>1. x[1] = <<b, i>> /\ x[2] = v /\ x \in ways  BY <1>9
  <2>2. i \in Nat  BY BlockTypes
  <2>3. <<s, f.blocks[s].begin>> \in Onward(f, <<b, i>>)  BY DEF Onward
  <2>4. ~At(f, <<b, i>>)  BY <2>2 DEF At
  <2> HIDE DEF x, i
  <2>5. v \in Definitions(f) \cup {None}
    <3>1. x \in all  BY <1>6, <2>1
    <3> QED  BY <2>1, <3>1 DEF all, Holdings
  <2>6. Held(f, l, <<b, i>>, v) = v  BY <2>4 DEF Held
  <2> QED  BY <1>7, <2>1, <2>3, <2>5, <2>6
<1>10. Ways(f, l) \subseteq Holdings(f) /\ Start(f, l) \in Ways(f, l)
  BY <1>3, <1>5, <1>6 DEF all
<1>11. ASSUME NEW b \in Block, NEW v
       PROVE  /\ \A i \in f.blocks[b].begin .. f.blocks[b].end - 1 :
                   ComesTo(f, l, b, i, v) => ComesTo(f, l, b, i + 1, HeldPast(f, l, i, v))
              /\ \A s \in f.blocks[b].successors :
                   ComesTo(f, l, b, f.blocks[b].end, v) => ComesTo(f, l, s, f.blocks[s].begin, v)
  BY <1>3, <1>8, <1>9 DEF ComesTo
<1> QED  BY <1>10, <1>11

(* Every place of a reachable block is on some way.                        *)
LEMMA MarkedIsReached ==
  ASSUME NEW f, Analyzable(f), NEW S, 0 \in S,
         \A b \in S \cap Block : f.blocks[b].successors \subseteq S
  PROVE  \A b \in Block : Reachable(f, b) => b \in S
<1> DEFINE graph == [b \in Block |-> f.blocks[b].successors]
           inside == S \cap Block
<1>1. IsFiniteSet(Block) /\ 0 \in Block  BY CountsAssumption, FS_Interval DEF Block
<1>2. \A b \in inside : graph[b] \cap Block \subseteq inside  OBVIOUS
<1>3. {0} \subseteq inside  BY <1>1
<1> HIDE DEF graph, inside
<1>4. Flooded(graph, Block, {0}) \subseteq inside  BY <1>1, <1>2, <1>3, FloodIsLeast
<1>5. {b \in Block : f.blocks[b].reachable} \subseteq Flooded(graph, Block, {0})
  BY DEF graph, Analyzable, MarksOnlyReached
<1>6. ASSUME NEW b \in Block, Reachable(f, b) PROVE b \in S
  <2>1. b \in {c \in Block : f.blocks[c].reachable}
    <3>1. f.blocks[b].reachable  BY <1>6 DEF Reachable
    <3> QED  BY <3>1, Zenon
  <2> QED  BY <1>4, <1>5, <2>1 DEF inside
<1> QED  BY <1>6

LEMMA SuccessorsAreReachable ==
  ASSUME NEW f, Analyzable(f), NEW b \in Block, Reachable(f, b), NEW s \in f.blocks[b].successors
  PROVE  s \in Block /\ Reachable(f, s) /\ b \in LivePredecessors(f, s) /\ s \in LiveSuccessors(f, b)
<1>1. s \in Block  BY BlockTypes
<1>2. f.blocks[b].reachable  BY DEF Reachable
<1>3. f.blocks[s].reachable
  <2>1. f.blocks[b].reachable => \A t \in f.blocks[b].successors : f.blocks[t].reachable
    BY Zenon DEF Analyzable
  <2> QED  BY <1>2, <2>1, Zenon
<1>4. Reachable(f, s)  BY <1>3 DEF Reachable
<1> QED  BY <1>1, <1>4 DEF LivePredecessors, LiveSuccessors

LEMMA EntryIsReachable ==
  ASSUME NEW f, Analyzable(f)
  PROVE  0 \in Block /\ Reachable(f, 0)
<1>1. 0 \in Block  BY BlockBounds
<1>2. f.blocks[0].reachable  BY DEF Analyzable
<1> QED  BY <1>1, <1>2 DEF Reachable

LEMMA EnteredFromSomewhere ==
  ASSUME NEW f, Analyzable(f), NEW b \in Block, Reachable(f, b), b # 0
  PROVE  LivePredecessors(f, b) # {}
<1> DEFINE S == {c \in Block : Reachable(f, c) /\ (c = 0 \/ LivePredecessors(f, c) # {})}
<1>1. 0 \in S  BY EntryIsReachable
<1>2. ASSUME NEW c \in S \cap Block, NEW s \in f.blocks[c].successors PROVE s \in S
  BY <1>2, SuccessorsAreReachable
<1> HIDE DEF S
<1>3. b \in S  BY <1>1, <1>2, MarkedIsReached
<1> QED  BY <1>3 DEF S

LEMMA PlacesAreReached ==
  ASSUME NEW f, Analyzable(f), NEW l \in Local, NEW b \in Block, Reachable(f, b),
         NEW i \in f.blocks[b].begin .. f.blocks[b].end
  PROVE  \E v : ComesTo(f, l, b, i, v)
<1> DEFINE T(c) == {k \in Nat : \E v : ComesTo(f, l, c, k, v)}
           S == {c \in Block : f.blocks[c].begin \in T(c)}
<1>1. ASSUME NEW c \in Block, f.blocks[c].begin \in T(c)
      PROVE  f.blocks[c].begin .. f.blocks[c].end \subseteq T(c)
  <2>1. /\ f.blocks[c].begin \in Nat /\ f.blocks[c].end \in Nat
        /\ f.blocks[c].begin <= f.blocks[c].end
    BY BlockTypes
  <2>2. ASSUME NEW k \in f.blocks[c].begin .. f.blocks[c].end - 1, k \in T(c)
        PROVE  k + 1 \in T(c)
    <3>1. PICK v : ComesTo(f, l, c, k, v)  BY <2>2
    <3>2. ComesTo(f, l, c, k + 1, HeldPast(f, l, k, v))  BY <3>1, WaysGoOn
    <3>3. k + 1 \in Nat  BY <2>1
    <3> QED  BY <3>2, <3>3
  <2> DEFINE a == f.blocks[c].begin
             n == f.blocks[c].end
             U == T(c)
  <2>3. a \in Nat /\ n \in Nat /\ a <= n /\ a \in U /\ \A k \in a .. n - 1 : k \in U => k + 1 \in U
    BY <1>1, <2>1, <2>2
  <2> HIDE DEF T, U, a, n
  <2>4. a .. n \subseteq U  BY <2>3, AlongTheBlock
  <2> QED  BY <2>4 DEF U, a, n
<1>2. 0 \in S
  <2>1. ComesTo(f, l, 0, f.blocks[0].begin, Start(f, l)[2])
    BY WaysGoOn DEF ComesTo, Start
  <2>2. 0 \in Block  BY EntryIsReachable
  <2>3. f.blocks[0].begin \in Nat  BY <2>2, BlockTypes
  <2> QED  BY <2>1, <2>2, <2>3
<1>3. ASSUME NEW c \in S \cap Block, NEW s \in f.blocks[c].successors PROVE s \in S
  <2>1. f.blocks[c].end \in f.blocks[c].begin .. f.blocks[c].end /\ s \in Block
    BY BlockTypes
  <2>2. f.blocks[c].end \in T(c)
    <3>1. f.blocks[c].begin \in T(c)  OBVIOUS
    <3> HIDE DEF T
    <3> QED  BY <1>1, <2>1, <3>1
  <2>3. PICK v : ComesTo(f, l, c, f.blocks[c].end, v)  BY <2>2
  <2>4. ComesTo(f, l, s, f.blocks[s].begin, v)  BY <2>3, WaysGoOn
  <2>5. f.blocks[s].begin \in Nat  BY <2>1, BlockTypes
  <2> QED  BY <2>1, <2>4, <2>5
<1>4. b \in S
  <2> HIDE DEF S
  <2> QED  BY <1>2, <1>3, MarkedIsReached
<1>5. i \in T(b)
  <2>1. f.blocks[b].begin \in T(b)  BY <1>4
  <2> HIDE DEF T
  <2> QED  BY <1>1, <2>1
<1> QED  BY <1>5
-----------------------------------------------------------------------------
(* What is said before the next instruction was said before this one or    *)
(* comes of it.                                                            *)
LEMMA DefinitionsAtBack ==
  ASSUME NEW f, Analyzable(f), NEW b \in Block, NEW X,
         NEW i \in From(f, b, f.blocks[b].begin), NEW d \in DefinitionsAt(f, b, X, i + 1)
  PROVE  (d \in DefinitionsAt(f, b, X, i) /\ ~Ends(f, i, d.local)) \/ d.instruction = i
<1>1. f.blocks[b].begin \in Nat /\ i \in Nat /\ f.blocks[b].begin <= i
  BY DEF Analyzable, BasicBlock, From
<1>2. \A k \in Before(f, b, i + 1) : k = i \/ k \in Before(f, b, i)
  BY <1>1 DEF Before
<1>3. Before(f, b, i) \subseteq Before(f, b, i + 1) /\ i \in Before(f, b, i + 1)
  BY <1>1 DEF Before
<1>4. \A k \in Before(f, b, i) : i > k
  BY <1>1 DEF Before
<1> QED  BY <1>2, <1>3, <1>4 DEF DefinitionsAt

LEMMA AvailableAtForth ==
  ASSUME NEW f, Analyzable(f), NEW b \in Block, NEW X,
         NEW i \in From(f, b, f.blocks[b].begin), NEW l \in Local,
         localWrite(f, i, l) \/ (l \in AvailableAt(f, b, X, i) /\ ~Ends(f, i, l))
  PROVE  l \in AvailableAt(f, b, X, i + 1)
<1>1. f.blocks[b].begin \in Nat /\ i \in Nat /\ f.blocks[b].begin <= i
  BY DEF Analyzable, BasicBlock, From
<1>2. \A k \in Before(f, b, i + 1) : k = i \/ k \in Before(f, b, i)
  BY <1>1 DEF Before
<1>3. Before(f, b, i) \subseteq Before(f, b, i + 1) /\ i \in Before(f, b, i + 1)
  BY <1>1 DEF Before
<1>4. \A k \in Before(f, b, i + 1) : ~(k > i)
  BY <1>1 DEF Before
<1>5. CASE localWrite(f, i, l)  BY <1>3, <1>4, <1>5 DEF AvailableAt
<1>6. CASE l \in AvailableAt(f, b, X, i) /\ ~Ends(f, i, l)
  BY <1>2, <1>3, <1>6 DEF AvailableAt
<1> QED  BY <1>5, <1>6

LEMMA LiveAtBack ==
  ASSUME NEW f, Analyzable(f), NEW b \in Block, NEW X,
         NEW i \in From(f, b, f.blocks[b].begin), NEW l \in LiveAt(f, b, X, i)
  PROVE  localRead(f, i, l) \/ (l \in LiveAt(f, b, X, i + 1) /\ ~localWrite(f, i, l))
<1>1. /\ f.blocks[b].begin \in Nat /\ f.blocks[b].end \in Nat /\ i \in Nat
      /\ i < f.blocks[b].end
  BY DEF Analyzable, BasicBlock, From
<1>2. \A k \in From(f, b, i) : k = i \/ k \in From(f, b, i + 1)
  BY <1>1 DEF From
<1>3. From(f, b, i + 1) \subseteq From(f, b, i) /\ i \in From(f, b, i)
  BY <1>1 DEF From
<1>4. \A k \in From(f, b, i + 1) : i < k
  BY <1>1 DEF From
<1> QED  BY <1>2, <1>3, <1>4 DEF LiveAt

LEMMA BlockEndsExactly ==
  ASSUME NEW f, Analyzable(f), NEW b \in Block
  PROVE  /\ \A X : DefinitionsAt(f, b, X, f.blocks[b].begin) \subseteq X
         /\ \A X \in SUBSET Local : AvailableAt(f, b, X, f.blocks[b].begin) = X
         /\ \A X : LiveAt(f, b, X, f.blocks[b].end) \subseteq X
<1>1. f.blocks[b].begin \in Nat /\ f.blocks[b].end \in Nat
  BY DEF Analyzable, BasicBlock
<1>2. Before(f, b, f.blocks[b].begin) = {} /\ From(f, b, f.blocks[b].end) = {}
  BY <1>1 DEF Before, From
<1> QED  BY <1>2 DEF DefinitionsAt, AvailableAt, LiveAt
-----------------------------------------------------------------------------
(* Some way comes here with a value in l.                                  *)
ComesWithValue(f, l, b, i) == \E v \in Definitions(f) : ComesTo(f, l, b, i, v)

(* From here a run may come to a read of l with no write before.           *)
ReadAhead(f, l, b, i) == \E q \in Unwritten(f, l, <<b, i>>) : ReadAt(f, l, q)

(* If some way brings what is said before a block, some way brings what is *)
(* said at each instruction of it.                                         *)
LEMMA DefinitionsAtIsReal ==
  ASSUME NEW f, Analyzable(f), NEW b \in Block, Reachable(f, b), NEW X,
         \A d \in X : ComesTo(f, d.local, b, f.blocks[b].begin, d)
  PROVE  \A i \in f.blocks[b].begin .. f.blocks[b].end :
           \A d \in DefinitionsAt(f, b, X, i) : ComesTo(f, d.local, b, i, d)
<1> DEFINE begin == f.blocks[b].begin
           end == f.blocks[b].end
           T == {i \in begin .. end :
                   \A d \in DefinitionsAt(f, b, X, i) : ComesTo(f, d.local, b, i, d)}
<1>1. begin \in Nat /\ end \in Nat /\ begin <= end  BY BlockTypes
<1>2. begin \in T
  <2>1. begin \in begin .. end  BY <1>1
  <2>2. DefinitionsAt(f, b, X, begin) \subseteq X  BY BlockEndsExactly
  <2> QED  BY <2>1, <2>2
<1>3. ASSUME NEW i \in begin .. end - 1, i \in T PROVE i + 1 \in T
  <2>1. i \in From(f, b, begin) /\ i \in Nat /\ i \in begin .. end /\ i + 1 \in begin .. end
    BY <1>1, BlockTypes
  <2>2. ASSUME NEW d \in DefinitionsAt(f, b, X, i + 1) PROVE ComesTo(f, d.local, b, i + 1, d)
    <3>1. d \in Definitions(f) /\ d.local \in Local
      BY <2>2, DefinitionsAre DEF DefinitionsAt
    <3>2. CASE d \in DefinitionsAt(f, b, X, i) /\ ~Ends(f, i, d.local)
      <4>1. ComesTo(f, d.local, b, i, d)  BY <1>3, <3>2
      <4>2. HeldPast(f, d.local, i, d) = d
        BY <3>2 DEF HeldPast, Ends, localWrite
      <4>3. ComesTo(f, d.local, b, i + 1, HeldPast(f, d.local, i, d))
        BY <3>1, <4>1, WaysGoOn
      <4> QED  BY <4>2, <4>3
    <3>3. CASE d.instruction = i
      <4>1. /\ f.code[i].kind = "Write" /\ f.code[i].local = d.local /\ d = Definition(i, d.local)
        BY <2>1, <3>1, <3>3, DefinitionsAre
      <4>2. PICK v : ComesTo(f, d.local, b, i, v)
        BY <2>1, <3>1, PlacesAreReached
      <4>3. HeldPast(f, d.local, i, v) = d
        <5>1. localWrite(f, i, d.local)  BY <4>1 DEF localWrite
        <5> QED  BY <4>1, <5>1 DEF HeldPast
      <4>4. ComesTo(f, d.local, b, i + 1, HeldPast(f, d.local, i, v))
        BY <3>1, <4>2, WaysGoOn
      <4> QED  BY <4>3, <4>4
    <3> QED  BY <2>1, <2>2, <3>2, <3>3, DefinitionsAtBack
  <2> QED  BY <2>1, <2>2
<1> HIDE DEF T, begin, end
<1>4. begin .. end \subseteq T  BY <1>1, <1>2, <1>3, AlongTheBlock
<1> QED  BY <1>4 DEF T, begin, end

LEMMA MissingAtIsReal ==
  ASSUME NEW f, Analyzable(f), NEW b \in Block, Reachable(f, b), NEW X \in SUBSET Local,
         \A l \in Local \ X : ComesTo(f, l, b, f.blocks[b].begin, None)
  PROVE  \A i \in f.blocks[b].begin .. f.blocks[b].end :
           \A l \in Local \ AvailableAt(f, b, X, i) : ComesTo(f, l, b, i, None)
<1> DEFINE begin == f.blocks[b].begin
           end == f.blocks[b].end
           T == {i \in begin .. end :
                   \A l \in Local \ AvailableAt(f, b, X, i) : ComesTo(f, l, b, i, None)}
<1>1. begin \in Nat /\ end \in Nat /\ begin <= end  BY BlockTypes
<1>2. begin \in T
  <2>1. begin \in begin .. end  BY <1>1
  <2>2. AvailableAt(f, b, X, begin) = X  BY BlockEndsExactly
  <2> QED  BY <2>1, <2>2
<1>3. ASSUME NEW i \in begin .. end - 1, i \in T PROVE i + 1 \in T
  <2>1. i \in From(f, b, begin) /\ i \in Nat /\ i \in begin .. end /\ i + 1 \in begin .. end
    BY <1>1, BlockTypes
  <2>2. ASSUME NEW l \in Local, l \notin AvailableAt(f, b, X, i + 1)
        PROVE  ComesTo(f, l, b, i + 1, None)
    <3>1. ~localWrite(f, i, l) /\ (l \in AvailableAt(f, b, X, i) => Ends(f, i, l))
      BY <2>1, <2>2, AvailableAtForth
    <3>2. PICK v : ComesTo(f, l, b, i, v) /\ HeldPast(f, l, i, v) = None
      <4>1. CASE Ends(f, i, l)
        <5>1. PICK v : ComesTo(f, l, b, i, v)  BY <2>1, PlacesAreReached
        <5> QED  BY <3>1, <4>1, <5>1 DEF HeldPast
      <4>2. CASE ~Ends(f, i, l)
        <5>1. ComesTo(f, l, b, i, None)  BY <1>3, <3>1, <4>2
        <5> QED  BY <3>1, <4>2, <5>1 DEF HeldPast
      <4> QED  BY <4>1, <4>2
    <3>3. ComesTo(f, l, b, i + 1, HeldPast(f, l, i, v))  BY <3>2, WaysGoOn
    <3> QED  BY <3>2, <3>3
  <2> QED  BY <2>1, <2>2
<1> HIDE DEF T, begin, end
<1>4. begin .. end \subseteq T  BY <1>1, <1>2, <1>3, AlongTheBlock
<1> QED  BY <1>4 DEF T, begin, end

LEMMA MaybeAtIsReal ==
  ASSUME NEW f, Analyzable(f), NEW b \in Block, Reachable(f, b), NEW X \in SUBSET Local,
         \A l \in X : ComesWithValue(f, l, b, f.blocks[b].begin)
  PROVE  \A i \in f.blocks[b].begin .. f.blocks[b].end :
           \A l \in AvailableAt(f, b, X, i) : ComesWithValue(f, l, b, i)
<1> DEFINE begin == f.blocks[b].begin
           end == f.blocks[b].end
           T == {i \in begin .. end :
                   \A l \in AvailableAt(f, b, X, i) : ComesWithValue(f, l, b, i)}
<1>1. begin \in Nat /\ end \in Nat /\ begin <= end  BY BlockTypes
<1>2. begin \in T
  <2>1. begin \in begin .. end  BY <1>1
  <2>2. AvailableAt(f, b, X, begin) = X  BY BlockEndsExactly
  <2> QED  BY <2>1, <2>2
<1>3. ASSUME NEW i \in begin .. end - 1, i \in T PROVE i + 1 \in T
  <2>1. i \in From(f, b, begin) /\ i \in Nat /\ i \in begin .. end /\ i + 1 \in begin .. end
    BY <1>1, BlockTypes
  <2>2. ASSUME NEW l \in AvailableAt(f, b, X, i + 1) PROVE ComesWithValue(f, l, b, i + 1)
    <3>0. l \in Local  BY VisitTypes
    <3>1. PICK v : ComesTo(f, l, b, i, v) /\ HeldPast(f, l, i, v) \in Definitions(f)
      <4>1. CASE localWrite(f, i, l)
        <5>1. PICK v : ComesTo(f, l, b, i, v)  BY <2>1, <3>0, PlacesAreReached
        <5>2. HeldPast(f, l, i, v) \in Definitions(f)  BY <4>1, HeldIsHeldPast
        <5> QED  BY <5>1, <5>2
      <4>2. CASE l \in AvailableAt(f, b, X, i) /\ ~Ends(f, i, l)
        <5>1. PICK v \in Definitions(f) : ComesTo(f, l, b, i, v)
          BY <1>3, <4>2 DEF ComesWithValue
        <5>2. HeldPast(f, l, i, v) = v  BY <4>2 DEF HeldPast, Ends, localWrite
        <5> QED  BY <5>1, <5>2
      <4> QED  BY <2>1, <2>2, <4>1, <4>2, AvailableAtStep
    <3>2. ComesTo(f, l, b, i + 1, HeldPast(f, l, i, v))  BY <3>0, <3>1, WaysGoOn
    <3> QED  BY <3>1, <3>2 DEF ComesWithValue
  <2> QED  BY <2>1, <2>2
<1> HIDE DEF T, begin, end
<1>4. begin .. end \subseteq T  BY <1>1, <1>2, <1>3, AlongTheBlock
<1> QED  BY <1>4 DEF T, begin, end

(* Where a run may be without having written l, from here and from what    *)
(* comes next.                                                             *)
LEMMA UnwrittenIsFlood ==
  ASSUME NEW f, Analyzable(f), NEW l, NEW p \in Places(f)
  PROVE  /\ p \in Unwritten(f, l, p) /\ Unwritten(f, l, p) \subseteq Places(f)
         /\ \A q \in Unwritten(f, l, p) :
              ~(At(f, q) /\ localWrite(f, q[2], l)) => Onward(f, q) \subseteq Unwritten(f, l, p)
         /\ \A S \in SUBSET Places(f) :
              /\ p \in S
              /\ \A q \in S : ~(At(f, q) /\ localWrite(f, q[2], l)) => Onward(f, q) \subseteq S
              => Unwritten(f, l, p) \subseteq S
<1> DEFINE all == Places(f)
           graph == [q \in all |-> IF At(f, q) /\ localWrite(f, q[2], l) THEN {} ELSE Onward(f, q)]
<1>1. IsFiniteSet(all)  BY PlacesAreFinite
<1>2. \A q \in all : /\ Onward(f, q) \subseteq all
                     /\ graph[q] = IF At(f, q) /\ localWrite(f, q[2], l) THEN {} ELSE Onward(f, q)
  BY PlacesAre
<1>3. Unwritten(f, l, p) = Flooded(graph, all, {p})  BY DEF Unwritten
<1> HIDE DEF graph, all
<1>4. /\ {p} \subseteq Unwritten(f, l, p) /\ Unwritten(f, l, p) \subseteq {p} \cup all
      /\ \A q \in Unwritten(f, l, p) : graph[q] \cap all \subseteq Unwritten(f, l, p)
  <2> DEFINE seeds == {p}
             flood == Flooded(graph, all, seeds)
  <2> HIDE DEF seeds
  <2>1. /\ seeds \subseteq flood /\ flood \subseteq seeds \cup all
        /\ \A q \in flood : graph[q] \cap all \subseteq flood
    BY <1>1, FloodIsClosed
  <2>2. flood = Unwritten(f, l, p)  BY <1>3 DEF seeds
  <2> HIDE DEF flood
  <2> QED  BY <2>1, <2>2 DEF seeds
<1>5. p \in all  BY DEF all
<1>6. ASSUME NEW q \in Unwritten(f, l, p), ~(At(f, q) /\ localWrite(f, q[2], l))
      PROVE  Onward(f, q) \subseteq Unwritten(f, l, p)
  BY <1>2, <1>4, <1>5, <1>6
<1>7. ASSUME NEW S \in SUBSET all, p \in S,
             \A q \in S : ~(At(f, q) /\ localWrite(f, q[2], l)) => Onward(f, q) \subseteq S
      PROVE  Unwritten(f, l, p) \subseteq S
  <2>1. \A q \in S : graph[q] \cap all \subseteq S  BY <1>2, <1>7
  <2>2. {p} \subseteq S  BY <1>7
  <2> QED  BY <1>1, <1>3, <2>1, <2>2, FloodIsLeast
<1> QED  BY <1>4, <1>5, <1>6, <1>7 DEF all

LEMMA ReadAheadGoesBack ==
  ASSUME NEW f, Analyzable(f), NEW l \in Local, NEW b \in Block
  PROVE  /\ \A i \in f.blocks[b].begin .. f.blocks[b].end - 1 :
              /\ localRead(f, i, l) => ReadAhead(f, l, b, i)
              /\ ReadAhead(f, l, b, i + 1) /\ ~localWrite(f, i, l) => ReadAhead(f, l, b, i)
         /\ \A s \in f.blocks[b].successors :
              ReadAhead(f, l, s, f.blocks[s].begin) => ReadAhead(f, l, b, f.blocks[b].end)
<1>1. /\ f.blocks[b].begin \in Nat /\ f.blocks[b].end \in Nat
      /\ f.blocks[b].begin <= f.blocks[b].end
  BY BlockTypes
<1>2. ASSUME NEW p \in Places(f), NEW q \in Onward(f, p), ~(At(f, p) /\ localWrite(f, p[2], l))
      PROVE  Unwritten(f, l, q) \subseteq Unwritten(f, l, p)
  <2>1. q \in Places(f)  BY PlacesAre
  <2>2. /\ Unwritten(f, l, p) \in SUBSET Places(f) /\ q \in Unwritten(f, l, p)
        /\ \A r \in Unwritten(f, l, p) :
             ~(At(f, r) /\ localWrite(f, r[2], l)) => Onward(f, r) \subseteq Unwritten(f, l, p)
    BY <1>2, UnwrittenIsFlood
  <2> QED  BY <2>1, <2>2, UnwrittenIsFlood
<1>3. ASSUME NEW i \in f.blocks[b].begin .. f.blocks[b].end - 1
      PROVE  /\ localRead(f, i, l) => ReadAhead(f, l, b, i)
             /\ ReadAhead(f, l, b, i + 1) /\ ~localWrite(f, i, l) => ReadAhead(f, l, b, i)
  <2>1. i \in f.blocks[b].begin .. f.blocks[b].end /\ i < f.blocks[b].end
        /\ i # f.blocks[b].end
    BY <1>1
  <2>2. <<b, i>> \in Places(f)  BY <2>1, PlacesAre
  <2>3. At(f, <<b, i>>) /\ Onward(f, <<b, i>>) = {<<b, i + 1>>}  BY <2>1 DEF At, Onward
  <2>4. localRead(f, i, l) => ReadAhead(f, l, b, i)
    BY <2>2, <2>3, UnwrittenIsFlood DEF ReadAhead, ReadAt
  <2>5. ASSUME ReadAhead(f, l, b, i + 1), ~localWrite(f, i, l) PROVE ReadAhead(f, l, b, i)
    <3>1. Unwritten(f, l, <<b, i + 1>>) \subseteq Unwritten(f, l, <<b, i>>)
      BY <1>2, <2>2, <2>3, <2>5
    <3> QED  BY <2>5, <3>1 DEF ReadAhead
  <2> QED  BY <2>4, <2>5
<1>4. ASSUME NEW s \in f.blocks[b].successors, ReadAhead(f, l, s, f.blocks[s].begin)
      PROVE  ReadAhead(f, l, b, f.blocks[b].end)
  <2>1. <<b, f.blocks[b].end>> \in Places(f)  BY <1>1, PlacesAre
  <2>2. /\ ~At(f, <<b, f.blocks[b].end>>)
        /\ <<s, f.blocks[s].begin>> \in Onward(f, <<b, f.blocks[b].end>>)
    BY <1>1 DEF At, Onward
  <2>3. Unwritten(f, l, <<s, f.blocks[s].begin>>) \subseteq Unwritten(f, l, <<b, f.blocks[b].end>>)
    BY <1>2, <2>1, <2>2
  <2> QED  BY <1>4, <2>3 DEF ReadAhead
<1> QED  BY <1>3, <1>4

LEMMA LiveAtIsReal ==
  ASSUME NEW f, Analyzable(f), NEW b \in Block, NEW X \in SUBSET Local,
         \A l \in X : ReadAhead(f, l, b, f.blocks[b].end)
  PROVE  \A i \in f.blocks[b].begin .. f.blocks[b].end :
           \A l \in LiveAt(f, b, X, i) : ReadAhead(f, l, b, i)
<1> DEFINE begin == f.blocks[b].begin
           end == f.blocks[b].end
           T == {i \in begin .. end : \A l \in LiveAt(f, b, X, i) : ReadAhead(f, l, b, i)}
<1>1. begin \in Nat /\ end \in Nat /\ begin <= end  BY BlockTypes
<1>2. end \in T
  <2>1. end \in begin .. end  BY <1>1
  <2>2. LiveAt(f, b, X, end) \subseteq X  BY BlockEndsExactly
  <2> QED  BY <2>1, <2>2
<1>3. ASSUME NEW i \in begin .. end - 1, i + 1 \in T PROVE i \in T
  <2>1. i \in From(f, b, begin) /\ i \in Nat /\ i \in begin .. end
    BY <1>1, BlockTypes
  <2>2. ASSUME NEW l \in LiveAt(f, b, X, i) PROVE ReadAhead(f, l, b, i)
    <3>1. l \in Local  BY VisitTypes
    <3>2. localRead(f, i, l) \/ (l \in LiveAt(f, b, X, i + 1) /\ ~localWrite(f, i, l))
      BY <2>1, LiveAtBack
    <3>3. l \in LiveAt(f, b, X, i + 1) => ReadAhead(f, l, b, i + 1)  BY <1>3
    <3> QED  BY <3>1, <3>2, <3>3, ReadAheadGoesBack
  <2> QED  BY <2>1, <2>2
<1> HIDE DEF T, begin, end
<1>4. begin .. end \subseteq T  BY <1>1, <1>2, <1>3, BackAlongTheBlock
<1> QED  BY <1>4 DEF T, begin, end
-----------------------------------------------------------------------------
(* What comes in from the neighbours is real if theirs is.                 *)
LEMMA IncomingDefinitionsAreReal ==
  ASSUME NEW f, Analyzable(f), NEW b \in Block, Reachable(f, b), NEW out,
         \A p \in LivePredecessors(f, b) :
           /\ out[p] \subseteq Definitions(f)
           /\ \A d \in out[p] : ComesTo(f, d.local, p, f.blocks[p].end, d)
  PROVE  \A d \in IncomingDefinitions(f, out, b) : ComesTo(f, d.local, b, f.blocks[b].begin, d)
<1> SUFFICES ASSUME NEW d \in IncomingDefinitions(f, out, b)
             PROVE  ComesTo(f, d.local, b, f.blocks[b].begin, d)
  OBVIOUS
<1>1. CASE b = 0 /\ d \in entry_definitions(f)
  <2>1. PICK l \in Parameters(f) : d = Definition(None, l)  BY <1>1 DEF entry_definitions
  <2>2. l \in Local /\ d.local = l  BY <2>1 DEF Parameters, Definition
  <2>3. Start(f, l) = <<<<0, f.blocks[0].begin>>, d>>  BY <2>1 DEF Start
  <2> QED  BY <1>1, <2>2, <2>3, WaysGoOn DEF ComesTo
<1>2. ASSUME NEW p \in LivePredecessors(f, b), d \in out[p]
      PROVE  ComesTo(f, d.local, b, f.blocks[b].begin, d)
  <2>1. ComesTo(f, d.local, p, f.blocks[p].end, d)  BY <1>2
  <2>2. p \in Block /\ b \in f.blocks[p].successors  BY DEF LivePredecessors
  <2>3. d.local \in Local  BY <1>2, DefinitionsAre
  <2> QED  BY <2>1, <2>2, <2>3, WaysGoOn
<1> QED  BY <1>1, <1>2 DEF IncomingDefinitions

LEMMA MissingIncomingIsReal ==
  ASSUME NEW f, Analyzable(f), NEW b \in Block, Reachable(f, b), NEW out,
         \A p \in LivePredecessors(f, b) :
           \A l \in Local \ out[p] : ComesTo(f, l, p, f.blocks[p].end, None)
  PROVE  \A l \in Local \ IncomingMust(f, out, b) : ComesTo(f, l, b, f.blocks[b].begin, None)
<1> SUFFICES ASSUME NEW l \in Local, l \notin IncomingMust(f, out, b)
             PROVE  ComesTo(f, l, b, f.blocks[b].begin, None)
  OBVIOUS
<1>1. b = 0 \/ LivePredecessors(f, b) # {}  BY EnteredFromSomewhere
<1>2. CASE b = 0 /\ l \notin Parameters(f)
  BY <1>2, WaysGoOn DEF ComesTo, Start
<1>3. ASSUME NEW p \in LivePredecessors(f, b), l \notin out[p]
      PROVE  ComesTo(f, l, b, f.blocks[b].begin, None)
  <2>1. p \in Block /\ b \in f.blocks[p].successors  BY DEF LivePredecessors
  <2> QED  BY <1>3, <2>1, WaysGoOn
<1> QED  BY <1>1, <1>2, <1>3 DEF IncomingMust

LEMMA MaybeIncomingIsReal ==
  ASSUME NEW f, Analyzable(f), NEW b \in Block, Reachable(f, b), NEW out,
         \A p \in LivePredecessors(f, b) :
           /\ out[p] \subseteq Local
           /\ \A l \in out[p] : ComesWithValue(f, l, p, f.blocks[p].end)
  PROVE  \A l \in IncomingMay(f, out, b) : ComesWithValue(f, l, b, f.blocks[b].begin)
<1> SUFFICES ASSUME NEW l \in IncomingMay(f, out, b)
             PROVE  ComesWithValue(f, l, b, f.blocks[b].begin)
  OBVIOUS
<1>1. CASE b = 0 /\ l \in Parameters(f)
  <2>1. l \in Local /\ Definition(None, l) \in Definitions(f)
    BY <1>1 DEF Parameters, Definitions, entry_definitions
  <2>2. Start(f, l) = <<<<0, f.blocks[0].begin>>, Definition(None, l)>>  BY <1>1 DEF Start
  <2> QED  BY <1>1, <2>1, <2>2, WaysGoOn DEF ComesTo, ComesWithValue
<1>2. ASSUME NEW p \in LivePredecessors(f, b), l \in out[p]
      PROVE  ComesWithValue(f, l, b, f.blocks[b].begin)
  <2>1. p \in Block /\ b \in f.blocks[p].successors /\ l \in Local
    BY <1>2 DEF LivePredecessors
  <2>2. ComesWithValue(f, l, p, f.blocks[p].end)  BY <1>2
  <2> QED  BY <2>1, <2>2, WaysGoOn DEF ComesWithValue
<1> QED  BY <1>1, <1>2 DEF IncomingMay

LEMMA OutgoingLiveIsReal ==
  ASSUME NEW f, Analyzable(f), NEW b \in Block, NEW in,
         \A s \in LiveSuccessors(f, b) :
           /\ in[s] \subseteq Local
           /\ \A l \in in[s] : ReadAhead(f, l, s, f.blocks[s].begin)
  PROVE  \A l \in OutgoingLive(f, in, b) : ReadAhead(f, l, b, f.blocks[b].end)
<1> SUFFICES ASSUME NEW s \in LiveSuccessors(f, b), NEW l \in in[s]
             PROVE  ReadAhead(f, l, b, f.blocks[b].end)
  BY DEF OutgoingLive
<1>1. s \in f.blocks[b].successors /\ l \in Local  BY DEF LiveSuccessors
<1> QED  BY <1>1, ReadAheadGoesBack
-----------------------------------------------------------------------------
(* What the sets name, some way bears out: all along, from the first round *)
(* on, not only when they have settled.                                    *)
DefinitionsAreReal(f, in, out) == \A b \in Block : Reachable(f, b) =>
  /\ \A d \in in[b] : ComesTo(f, d.local, b, f.blocks[b].begin, d)
  /\ \A d \in out[b] : ComesTo(f, d.local, b, f.blocks[b].end, d)

MissingAreReal(f, in, out) == \A b \in Block : Reachable(f, b) =>
  /\ \A l \in Local \ in[b] : ComesTo(f, l, b, f.blocks[b].begin, None)
  /\ \A l \in Local \ out[b] : ComesTo(f, l, b, f.blocks[b].end, None)

MaybesAreReal(f, in, out) == \A b \in Block : Reachable(f, b) =>
  /\ \A l \in in[b] : ComesWithValue(f, l, b, f.blocks[b].begin)
  /\ \A l \in out[b] : ComesWithValue(f, l, b, f.blocks[b].end)

NeedsAreReal(f, in, out) == \A b \in Block : Reachable(f, b) =>
  /\ \A l \in in[b] : ReadAhead(f, l, b, f.blocks[b].begin)
  /\ \A l \in out[b] : ReadAhead(f, l, b, f.blocks[b].end)

(* Like MustSettled and MustRounds, for what may be available.             *)
MaySettled(b) ==
  /\ IncomingMay(function, may_out, b) \subseteq may_in[b]
  /\ AvailableAt(function, b, may_in[b], End(b)) \subseteq may_out[b]

MayRounds == \A b \in Block :
  /\ Reachable(function, b)
  /\ pc # "reaching"
  /\ pc = "availability" => ~changed /\ b < block
  => MaySettled(b)

RealInv ==
  /\ DefinitionsAreReal(function, reaching_in, reaching_out)
  /\ MissingAreReal(function, must_in, must_out)
  /\ MaybesAreReal(function, may_in, may_out)
  /\ NeedsAreReal(function, live_in, live_out)
  /\ MayRounds

(* The types that these lemmas keep needing.                               *)
LEMMA PassTypes ==
  ASSUME PassInv
  PROVE  /\ Analyzable(function) /\ \A b \in Block : End(b) = function.blocks[b].end
         /\ reaching_out \in [Block -> SUBSET Definitions(function)]
         /\ must_out \in [Block -> SUBSET Local] /\ may_out \in [Block -> SUBSET Local]
         /\ live_in \in [Block -> SUBSET Local]
         /\ must_in \in [Block -> SUBSET Local] /\ may_in \in [Block -> SUBSET Local]
         /\ live_out \in [Block -> SUBSET Local]
BY DEF PassInv, PassTypeOK, End

LEMMA ReachKeepsReal ==
  ASSUME PassInv, RealInv, Reach
  PROVE  DefinitionsAreReal(function, reaching_in', reaching_out')
<1>1. block \in Block /\ Reachable(function, block)
  BY CountsAssumption DEF PassInv, PassTypeOK, Reach, Block
<1>2. \A b \in Block : Reachable(function, b) =>
        /\ \A d \in reaching_in[b] : ComesTo(function, d.local, b, function.blocks[b].begin, d)
        /\ \A d \in reaching_out[b] : ComesTo(function, d.local, b, function.blocks[b].end, d)
  BY DEF RealInv, DefinitionsAreReal
<1>3. /\ \A b \in Block \ {block} : /\ reaching_in'[b] = reaching_in[b]
                                    /\ reaching_out'[b] = reaching_out[b]
      /\ reaching_in'[block] = IncomingDefinitions(function, reaching_out, block)
      /\ reaching_out'[block] = DefinitionsAt(function, block, reaching_in'[block], End(block))
  BY ReachGrows
<1>4. \A p \in LivePredecessors(function, block) :
        /\ reaching_out[p] \subseteq Definitions(function)
        /\ \A d \in reaching_out[p] : ComesTo(function, d.local, p, function.blocks[p].end, d)
  BY <1>2, PassTypes DEF LivePredecessors
<1>5. \A d \in reaching_in'[block] :
        ComesTo(function, d.local, block, function.blocks[block].begin, d)
  BY <1>1, <1>3, <1>4, PassTypes, IncomingDefinitionsAreReal
<1>6. \A d \in reaching_out'[block] :
        ComesTo(function, d.local, block, function.blocks[block].end, d)
  <2>1. function.blocks[block].end \in function.blocks[block].begin .. function.blocks[block].end
    BY <1>1, PassTypes, BlockTypes
  <2>2. \A i \in function.blocks[block].begin .. function.blocks[block].end :
          \A d \in DefinitionsAt(function, block, reaching_in'[block], i) :
            ComesTo(function, d.local, block, i, d)
    BY <1>1, <1>5, PassTypes, DefinitionsAtIsReal
  <2> QED  BY <1>1, <1>3, <2>1, <2>2, PassTypes
<1> QED  BY <1>2, <1>3, <1>5, <1>6 DEF DefinitionsAreReal

LEMMA ProvideKeepsReal ==
  ASSUME PassInv, RealInv, Provide
  PROVE  /\ MissingAreReal(function, must_in', must_out')
         /\ MaybesAreReal(function, may_in', may_out')
<1>1. block \in Block /\ Reachable(function, block)
  BY CountsAssumption DEF PassInv, PassTypeOK, Provide, Block
<1>2. \A b \in Block : Reachable(function, b) =>
        /\ \A l \in Local \ must_in[b] : ComesTo(function, l, b, function.blocks[b].begin, None)
        /\ \A l \in Local \ must_out[b] : ComesTo(function, l, b, function.blocks[b].end, None)
  BY DEF RealInv, MissingAreReal
<1>3. \A b \in Block : Reachable(function, b) =>
        /\ \A l \in may_in[b] : ComesWithValue(function, l, b, function.blocks[b].begin)
        /\ \A l \in may_out[b] : ComesWithValue(function, l, b, function.blocks[b].end)
  BY DEF RealInv, MaybesAreReal
<1>4. /\ \A b \in Block \ {block} :
           /\ must_in'[b] = must_in[b] /\ must_out'[b] = must_out[b]
           /\ may_in'[b] = may_in[b] /\ may_out'[b] = may_out[b]
      /\ must_in'[block] = IncomingMust(function, must_out, block)
      /\ must_out'[block] = AvailableAt(function, block, must_in'[block], End(block))
      /\ may_in'[block] = IncomingMay(function, may_out, block)
      /\ may_out'[block] = AvailableAt(function, block, may_in'[block], End(block))
      /\ must_in'[block] \in SUBSET Local /\ may_in'[block] \in SUBSET Local
  BY <1>1, ProvideMoves
<1>5. function.blocks[block].end \in function.blocks[block].begin .. function.blocks[block].end
  BY <1>1, PassTypes, BlockTypes
<1>6. \A l \in Local \ must_in'[block] :
        ComesTo(function, l, block, function.blocks[block].begin, None)
  <2>1. \A p \in LivePredecessors(function, block) :
          \A l \in Local \ must_out[p] : ComesTo(function, l, p, function.blocks[p].end, None)
    BY <1>2 DEF LivePredecessors
  <2> QED  BY <1>1, <1>4, <2>1, PassTypes, MissingIncomingIsReal
<1>7. \A l \in Local \ must_out'[block] :
        ComesTo(function, l, block, function.blocks[block].end, None)
  <2>1. \A i \in function.blocks[block].begin .. function.blocks[block].end :
          \A l \in Local \ AvailableAt(function, block, must_in'[block], i) :
            ComesTo(function, l, block, i, None)
    BY <1>1, <1>4, <1>6, PassTypes, MissingAtIsReal
  <2> QED  BY <1>1, <1>4, <1>5, <2>1, PassTypes
<1>8. \A l \in may_in'[block] : ComesWithValue(function, l, block, function.blocks[block].begin)
  <2>1. \A p \in LivePredecessors(function, block) :
          /\ may_out[p] \subseteq Local
          /\ \A l \in may_out[p] : ComesWithValue(function, l, p, function.blocks[p].end)
    BY <1>3, PassTypes DEF LivePredecessors
  <2> QED  BY <1>1, <1>4, <2>1, PassTypes, MaybeIncomingIsReal
<1>9. \A l \in may_out'[block] : ComesWithValue(function, l, block, function.blocks[block].end)
  <2>1. \A i \in function.blocks[block].begin .. function.blocks[block].end :
          \A l \in AvailableAt(function, block, may_in'[block], i) :
            ComesWithValue(function, l, block, i)
    BY <1>1, <1>4, <1>8, PassTypes, MaybeAtIsReal
  <2> QED  BY <1>1, <1>4, <1>5, <2>1, PassTypes
<1>10. MissingAreReal(function, must_in', must_out')
  BY <1>2, <1>4, <1>6, <1>7 DEF MissingAreReal
<1>11. MaybesAreReal(function, may_in', may_out')
  BY <1>3, <1>4, <1>8, <1>9 DEF MaybesAreReal
<1> QED  BY <1>10, <1>11

LEMMA NeedKeepsReal ==
  ASSUME PassInv, RealInv, Need
  PROVE  NeedsAreReal(function, live_in', live_out')
<1>1. Visited \in Block  BY NeedGrows
<1>2. \A b \in Block : Reachable(function, b) =>
        /\ \A l \in live_in[b] : ReadAhead(function, l, b, function.blocks[b].begin)
        /\ \A l \in live_out[b] : ReadAhead(function, l, b, function.blocks[b].end)
  BY DEF RealInv, NeedsAreReal
<1>3. /\ \A b \in Block \ {Visited} : live_in'[b] = live_in[b] /\ live_out'[b] = live_out[b]
      /\ live_out'[Visited] = OutgoingLive(function, live_in, Visited)
      /\ live_in'[Visited]
           = LiveAt(function, Visited, live_out'[Visited], function.blocks[Visited].begin)
      /\ live_out'[Visited] \in SUBSET Local
  BY <1>1, NeedGrows DEF Begin
<1>4. \A l \in live_out'[Visited] :
        ReadAhead(function, l, Visited, function.blocks[Visited].end)
  <2>1. \A s \in LiveSuccessors(function, Visited) :
          /\ live_in[s] \subseteq Local
          /\ \A l \in live_in[s] : ReadAhead(function, l, s, function.blocks[s].begin)
    <3>1. LiveSuccessors(function, Visited) \subseteq Block
      BY <1>1, PassTypes, BlockTypes DEF LiveSuccessors
    <3> QED  BY <1>2, <3>1, PassTypes DEF LiveSuccessors
  <2> QED  BY <1>1, <1>3, <2>1, PassTypes, OutgoingLiveIsReal
<1>5. \A l \in live_in'[Visited] :
        ReadAhead(function, l, Visited, function.blocks[Visited].begin)
  <2>1. function.blocks[Visited].begin
          \in function.blocks[Visited].begin .. function.blocks[Visited].end
    BY <1>1, PassTypes, BlockTypes
  <2>2. \A i \in function.blocks[Visited].begin .. function.blocks[Visited].end :
          \A l \in LiveAt(function, Visited, live_out'[Visited], i) :
            ReadAhead(function, l, Visited, i)
    BY <1>1, <1>3, <1>4, PassTypes, LiveAtIsReal
  <2> QED  BY <1>3, <2>1, <2>2
<1> QED  BY <1>2, <1>3, <1>4, <1>5 DEF NeedsAreReal

(* A round that changes nothing settles what may be available, too.        *)
LEMMA PassKeepsMayRounds ==
  ASSUME PassInv, MayRounds, Pass
  PROVE  MayRounds'
<1> USE BlockBounds
<1>1. block \in 0 .. BlockCount /\ changed \in BOOLEAN /\ \A b \in Block : b < BlockCount /\ ~(b < 0)
  BY CountsAssumption DEF PassInv, PassTypeOK, Block
<1>2. CASE Skip
  <2>1. UNCHANGED <<function, pc, changed, may_in, may_out>> /\ block' = block + 1
    BY <1>2 DEF Skip, available
  <2> SUFFICES ASSUME NEW b \in Block, Reachable(function, b), pc # "reaching",
                      pc = "availability" => ~changed /\ b < block + 1
               PROVE  MaySettled(b)
    BY <2>1 DEF MayRounds, MaySettled, End
  <2>2. pc = "availability" => b # block  BY <1>2 DEF Skip, Visited
  <2>3. pc = "availability" => ~changed /\ b < block  BY <1>1, <2>2
  <2> QED  BY <2>3 DEF MayRounds
<1>3. CASE Provide
  <2>1. UNCHANGED <<function, pc>> /\ pc = "availability" /\ block' = block + 1 /\ block < BlockCount
    BY <1>3 DEF Provide
  <2> SUFFICES ASSUME NEW b \in Block, Reachable(function, b), ~changed', b < block + 1
               PROVE  MaySettled(b)'
    BY <2>1 DEF MayRounds
  <2>2. ~changed /\ may_in' = may_in /\ may_out' = may_out
    BY <1>3, ProvideMoves
  <2>3. MaySettled(b)
    <3>1. CASE b = block
      BY <1>3, <2>2, <3>1, ProvideMoves DEF MaySettled
    <3>2. CASE b # block
      BY <1>1, <2>1, <2>2, <3>2 DEF MayRounds
    <3> QED  BY <3>1, <3>2
  <2> QED  BY <2>1, <2>2, <2>3 DEF MaySettled, End
<1>4. CASE Again
  <2>1. UNCHANGED <<function, may_in, may_out>>  BY <1>4 DEF Again, available
  <2>2. /\ pc \in {"reaching", "availability", "liveness"}
        /\ block = BlockCount /\ block' = 0 /\ ~changed'
        /\ changed => pc' = pc
        /\ ~changed /\ pc = "reaching" => pc' = "availability"
    BY <1>4 DEF Again
  <2> SUFFICES ASSUME NEW b \in Block, Reachable(function, b),
                      pc' \notin {"reaching", "availability"}
               PROVE  MaySettled(b)
    BY <1>1, <2>1, <2>2 DEF MayRounds, MaySettled, End
  <2>3. pc # "reaching" /\ (pc = "availability" => ~changed /\ b < block)
    BY <1>1, <2>2
  <2> QED  BY <2>3 DEF MayRounds
<1>5. CASE Reach \/ Need
  BY <1>5 DEF Reach, Need, available, MayRounds, MaySettled, End
<1>6. CASE RecordUses \/ Reject
  BY <1>6 DEF RecordUses, Reject, available, MayRounds, MaySettled, End
<1> QED  BY <1>2, <1>3, <1>4, <1>5, <1>6 DEF Pass

LEMMA PassKeepsRealInv == PassInv /\ RealInv /\ Pass => RealInv'
<1> SUFFICES ASSUME PassInv, RealInv, Pass PROVE RealInv'
  OBVIOUS
<1>1. /\ MayRounds' /\ function' = function
      /\ DefinitionsAreReal(function, reaching_in, reaching_out)
      /\ MissingAreReal(function, must_in, must_out)
      /\ MaybesAreReal(function, may_in, may_out)
      /\ NeedsAreReal(function, live_in, live_out)
  BY PassKeepsMayRounds DEF RealInv, Pass, Skip, Reach, Provide, Need, Again, RecordUses, Reject
<1>2. CASE Reach
  <2>1. UNCHANGED <<must_in, must_out, may_in, may_out, live_in, live_out>>
    BY <1>2 DEF Reach, available, live
  <2> QED  BY <1>1, <1>2, <2>1, ReachKeepsReal DEF RealInv
<1>3. CASE Provide
  <2>1. UNCHANGED <<reaching_in, reaching_out, live_in, live_out>>
    BY <1>3 DEF Provide, reaching, live
  <2> QED  BY <1>1, <1>3, <2>1, ProvideKeepsReal DEF RealInv
<1>4. CASE Need
  <2>1. UNCHANGED <<reaching_in, reaching_out, must_in, must_out, may_in, may_out>>
    BY <1>4 DEF Need, reaching, available
  <2> QED  BY <1>1, <1>4, <2>1, NeedKeepsReal DEF RealInv
<1>5. CASE Skip \/ Again \/ RecordUses \/ Reject
  <2>1. UNCHANGED <<reaching_in, reaching_out, must_in, must_out, may_in, may_out,
                    live_in, live_out>>
    BY <1>5 DEF Skip, Again, RecordUses, Reject, reaching, available, live
  <2> QED  BY <1>1, <2>1 DEF RealInv
<1> QED  BY <1>2, <1>3, <1>4, <1>5 DEF Pass

LEMMA InitEstablishesRealInv == PassInit => RealInv
<1> SUFFICES ASSUME PassInit PROVE RealInv
  OBVIOUS
<1>1. /\ DefinitionsAreReal(function, reaching_in, reaching_out)
      /\ MissingAreReal(function, must_in, must_out)
      /\ MaybesAreReal(function, may_in, may_out)
      /\ NeedsAreReal(function, live_in, live_out)
  BY DEF PassInit, DefinitionsAreReal, MissingAreReal, MaybesAreReal, NeedsAreReal
<1>2. MayRounds  BY DEF PassInit, MayRounds
<1> QED  BY <1>1, <1>2 DEF RealInv

LEMMA StepKeepsRealInv == IInv /\ RealInv /\ [Next]_vars => RealInv'
<1> SUFFICES ASSUME IInv, RealInv, [Next]_vars PROVE RealInv'
  OBVIOUS
<1>1. CASE Analyze
  BY <1>1, PassKeepsRealInv DEF IInv, Analyze
<1>2. CASE UNCHANGED passVars
  BY <1>2 DEF passVars, RealInv, MayRounds, MaySettled, End
<1> QED  BY <1>1, <1>2 DEF Next, Call, Execute, Follow, Drop, vars
-----------------------------------------------------------------------------
(* A set that holds where ways begin and that no step leaves holds all of  *)
(* what the ways come to.                                                  *)
LEMMA WaysAreLeast ==
  ASSUME NEW f, Analyzable(f), NEW l \in Local, NEW S \in SUBSET Holdings(f), Start(f, l) \in S,
         \A x \in S : \A p \in Onward(f, x[1]) :
           <<p, Held(f, l, x[1], x[2])>> \in Holdings(f) => <<p, Held(f, l, x[1], x[2])>> \in S
  PROVE  Ways(f, l) \subseteq S
<1> DEFINE all == Holdings(f)
           to == Steps(f, l)
           seeds == {Start(f, l)}
<1>1. IsFiniteSet(all)  BY PlacesAreFinite
<1>2. \A x \in S : to[x] \cap all \subseteq S
  <2>1. \A x \in all : to[x] = {<<p, Held(f, l, x[1], x[2])>> : p \in Onward(f, x[1])}
    BY DEF Steps
  <2> HIDE DEF to
  <2> QED  BY <2>1
<1>3. seeds \subseteq S  OBVIOUS
<1>4. Ways(f, l) = Flooded(to, all, seeds)  BY DEF Ways
<1> HIDE DEF all, to, seeds
<1> QED  BY <1>1, <1>2, <1>3, <1>4, FloodIsLeast

(* What l may hold at instruction i of block b, after the availability has *)
(* settled.                                                                *)
Fits(l, b, i, v) ==
  /\ Reachable(function, b)
  /\ v = None => l \notin AvailableAt(function, b, must_in[b], i)
  /\ v # None => l \in AvailableAt(function, b, may_in[b], i)

LEMMA FitsAlong ==
  ASSUME PassInv, NEW l \in Local, NEW b \in Block,
         NEW i \in function.blocks[b].begin .. function.blocks[b].end - 1, NEW v, Fits(l, b, i, v)
  PROVE  Fits(l, b, i + 1, HeldPast(function, l, i, v))
<1>1. Analyzable(function)  BY PassTypes
<1>2. i \in From(function, b, function.blocks[b].begin) /\ i \in Nat  BY <1>1, BlockTypes
<1>3. Definition(i, l) # None  BY <1>2, DefinitionIsNotNone
<1>4. localWrite(function, i, l) => Ends(function, i, l)  BY DEF localWrite, Ends
<1>5. CASE HeldPast(function, l, i, v) = None
  <2>1. ~localWrite(function, i, l) /\ (Ends(function, i, l) \/ v = None)
    BY <1>3, <1>5 DEF HeldPast
  <2>2. l \notin AvailableAt(function, b, must_in[b], i + 1)
    BY <1>1, <1>2, <2>1, AvailableAtStep DEF Fits
  <2> QED  BY <1>5, <2>2 DEF Fits
<1>6. CASE HeldPast(function, l, i, v) # None
  <2>1. localWrite(function, i, l) \/ (~Ends(function, i, l) /\ v # None)
    BY <1>6 DEF HeldPast
  <2>2. l \in AvailableAt(function, b, may_in[b], i + 1)
    BY <1>1, <1>2, <2>1, AvailableAtForth DEF Fits
  <2> QED  BY <1>6, <2>2 DEF Fits
<1> QED  BY <1>5, <1>6

LEMMA FitsOnward ==
  ASSUME PassInv, MayRounds, pc = "uses", NEW l \in Local, NEW b \in Block,
         NEW s \in function.blocks[b].successors, NEW v, Fits(l, b, function.blocks[b].end, v)
  PROVE  Fits(l, s, function.blocks[s].begin, v)
<1>1. Analyzable(function) /\ \A c \in Block : End(c) = function.blocks[c].end  BY PassTypes
<1>2. Reachable(function, b)  BY DEF Fits
<1>3. s \in Block /\ Reachable(function, s) /\ b \in LivePredecessors(function, s)
  BY <1>1, <1>2, SuccessorsAreReachable
<1>4. /\ MustSettled(b) /\ MustSettled(s) /\ MaySettled(b) /\ MaySettled(s)
  BY <1>2, <1>3 DEF PassInv, MustRounds, MayRounds
<1>5. must_in[s] \in SUBSET Local /\ may_in[s] \in SUBSET Local  BY <1>3, PassTypes
<1>6. /\ AvailableAt(function, s, must_in[s], function.blocks[s].begin) = must_in[s]
      /\ AvailableAt(function, s, may_in[s], function.blocks[s].begin) = may_in[s]
  BY <1>1, <1>3, <1>5, BlockEndsExactly
<1>7. ASSUME v = None PROVE l \notin must_in[s]
  <2>1. l \notin must_out[b]  BY <1>1, <1>4, <1>7 DEF Fits, MustSettled
  <2>2. l \notin IncomingMust(function, must_out, s)  BY <1>3, <2>1 DEF IncomingMust
  <2> QED  BY <1>4, <2>2 DEF MustSettled
<1>8. ASSUME v # None PROVE l \in may_in[s]
  <2>1. l \in may_out[b]  BY <1>1, <1>4, <1>8 DEF Fits, MaySettled
  <2>2. l \in IncomingMay(function, may_out, s)  BY <1>3, <2>1 DEF IncomingMay
  <2> QED  BY <1>4, <2>2 DEF MaySettled
<1> QED  BY <1>3, <1>6, <1>7, <1>8 DEF Fits

LEMMA WaysFit ==
  ASSUME PassInv, MayRounds, pc = "uses", NEW l \in Local
  PROVE  \A x \in Ways(function, l) : Fits(l, x[1][1], x[1][2], x[2])
<1> DEFINE f == function
           S == {x \in Holdings(f) : Fits(l, x[1][1], x[1][2], x[2])}
<1>1. Analyzable(f)  BY PassTypes
<1>2. Start(f, l) \in S
  <2>1. Start(f, l) \in Holdings(f)  BY <1>1, StartIsAHolding
  <2>2. 0 \in Block /\ Reachable(f, 0)  BY <1>1, EntryIsReachable
  <2>3. must_in[0] \in SUBSET Local /\ may_in[0] \in SUBSET Local  BY <2>2, PassTypes
  <2>4. /\ AvailableAt(f, 0, must_in[0], f.blocks[0].begin) = must_in[0]
        /\ AvailableAt(f, 0, may_in[0], f.blocks[0].begin) = may_in[0]
    BY <1>1, <2>2, <2>3, BlockEndsExactly
  <2>5. MustSettled(0) /\ MaySettled(0)  BY <2>2 DEF PassInv, MustRounds, MayRounds
  <2>6. Definition(None, l) # None  BY DefinitionIsNotNone
  <2>7. l \notin Parameters(f) => l \notin must_in[0]
    BY <2>5 DEF MustSettled, IncomingMust
  <2>8. l \in Parameters(f) => l \in may_in[0]
    BY <2>5 DEF MaySettled, IncomingMay
  <2>9. Fits(l, 0, f.blocks[0].begin, IF l \in Parameters(f) THEN Definition(None, l) ELSE None)
    BY <2>2, <2>4, <2>6, <2>7, <2>8 DEF Fits
  <2> QED  BY <2>1, <2>9 DEF Start
<1>3. ASSUME NEW x \in S, NEW p \in Onward(f, x[1]),
             <<p, Held(f, l, x[1], x[2])>> \in Holdings(f)
      PROVE  <<p, Held(f, l, x[1], x[2])>> \in S
  <2> DEFINE b == x[1][1]
             i == x[1][2]
             v == x[2]
  <2>1. x[1] \in Places(f)  BY DEF Holdings
  <2>2. x[1] = <<b, i>> /\ b \in Block /\ i \in f.blocks[b].begin .. f.blocks[b].end
    BY <1>1, <2>1, PlacesAre
  <2>3. Fits(l, b, i, v)  OBVIOUS
  <2>4. /\ f.blocks[b].begin \in Nat /\ f.blocks[b].end \in Nat  BY <1>1, <2>2, BlockTypes
  <2> HIDE DEF b, i, v
  <2>5. CASE i = f.blocks[b].end
    <3>1. PICK s \in f.blocks[b].successors : p = <<s, f.blocks[s].begin>>
      BY <2>2, <2>5 DEF Onward
    <3>2. ~At(f, <<b, i>>)  BY <2>4, <2>5 DEF At
    <3>3. Held(f, l, x[1], v) = v  BY <2>2, <3>2 DEF Held
    <3>4. Fits(l, s, f.blocks[s].begin, v)  BY <2>2, <2>3, <2>5, FitsOnward
    <3> QED  BY <1>3, <3>1, <3>3, <3>4 DEF v
  <2>6. CASE i # f.blocks[b].end
    <3>1. p = <<b, i + 1>>  BY <2>2, <2>6 DEF Onward
    <3>2. i \in f.blocks[b].begin .. f.blocks[b].end - 1  BY <2>2, <2>4, <2>6
    <3>3. Held(f, l, x[1], v) = HeldPast(f, l, i, v)  BY <1>1, <2>2, <3>2, HeldIsHeldPast
    <3>4. Fits(l, b, i + 1, HeldPast(f, l, i, v))  BY <2>2, <2>3, <3>2, FitsAlong
    <3> QED  BY <1>3, <3>1, <3>3, <3>4 DEF v
  <2> QED  BY <2>5, <2>6
<1> HIDE DEF S, f
<1>4. Ways(f, l) \subseteq S
  <2>1. S \in SUBSET Holdings(f)  BY DEF S
  <2> QED  BY <1>1, <1>2, <1>3, <2>1, WaysAreLeast
<1> QED  BY <1>4 DEF S, f

LEMMA AvailabilityHolds ==
  ASSUME PassInv, RealInv, pc = "uses"
  PROVE  AvailabilityIsExact
<1> SUFFICES ASSUME NEW l \in Local, NEW b \in LiveBlocks
             PROVE  LET ways == Ways(function, l)
                        here_held == {way[2] : way \in {w \in ways :
                                        w[1] = <<b, function.blocks[b].begin>>}}
                    IN  /\ l \in must_in[b] <=> None \notin here_held
                        /\ l \in may_in[b] <=> here_held \ {None} # {}
  BY DEF AvailabilityIsExact
<1> DEFINE ways == Ways(function, l)
           here_held == {way[2] : way \in {w \in ways : w[1] = <<b, function.blocks[b].begin>>}}
<1>1. b \in Block /\ Reachable(function, b) /\ Analyzable(function)  BY PassTypes DEF LiveBlocks
<1>2. must_in[b] \in SUBSET Local /\ may_in[b] \in SUBSET Local  BY <1>1, PassTypes
<1>3. ASSUME NEW v \in here_held
      PROVE  (v = None => l \notin must_in[b]) /\ (v # None => l \in may_in[b])
  <2>1. PICK way \in ways : way[1] = <<b, function.blocks[b].begin>> /\ way[2] = v  OBVIOUS
  <2>2. Fits(l, way[1][1], way[1][2], way[2])  BY WaysFit DEF RealInv
  <2>3. Fits(l, b, function.blocks[b].begin, v)  BY <2>1, <2>2
  <2>4. /\ AvailableAt(function, b, must_in[b], function.blocks[b].begin) = must_in[b]
        /\ AvailableAt(function, b, may_in[b], function.blocks[b].begin) = may_in[b]
    BY <1>1, <1>2, BlockEndsExactly
  <2> QED  BY <2>3, <2>4 DEF Fits
<1>4. ASSUME NEW v, ComesTo(function, l, b, function.blocks[b].begin, v) PROVE v \in here_held
  BY <1>4 DEF ComesTo
<1>5. l \notin must_in[b] => None \in here_held
  <2> HIDE DEF here_held
  <2> QED  BY <1>1, <1>4 DEF RealInv, MissingAreReal
<1>6. ASSUME l \in may_in[b] PROVE here_held \ {None} # {}
  <2> HIDE DEF here_held
  <2>1. PICK v \in Definitions(function) : ComesTo(function, l, b, function.blocks[b].begin, v)
    BY <1>1, <1>6 DEF RealInv, MaybesAreReal, ComesWithValue
  <2>2. v # None  BY <1>1, DefinitionsAre
  <2> QED  BY <1>4, <2>1, <2>2
<1> HIDE DEF here_held
<1>7. (l \in must_in[b] <=> None \notin here_held) /\ (l \in may_in[b] <=> here_held \ {None} # {})
  BY <1>3, <1>5, <1>6
<1> QED  BY <1>7 DEF here_held

LEMMA UsesHold ==
  ASSUME PassInv, RealInv, pc = "liveness"
  PROVE  UsesAreReal
<1> SUFFICES ASSUME NEW u \in uses, NEW d \in u.reaching_definitions
             PROVE  \E way \in Ways(function, u.local) :
                      way[1][2] = u.instruction /\ At(function, way[1]) /\ way[2] = d
  BY DEF UsesAreReal
<1>1. uses = UsesOf(function, reaching_in) /\ Analyzable(function)
  BY PassTypes DEF PassInv, Recorded
<1>2. PICK b \in {c \in Block : Reachable(function, c)} :
        u \in {Use(function, b, reaching_in[b], i) : i \in Reads(function, b)}
  BY <1>1 DEF UsesOf
<1>3. PICK i \in Reads(function, b) : u = Use(function, b, reaching_in[b], i)  BY <1>2
<1>4. /\ u.instruction = i /\ u.local = function.code[i].local
      /\ d \in DefinitionsAt(function, b, reaching_in[b], i) /\ d.local = u.local
  BY <1>3 DEF Use
<1>5. b \in Block /\ Reachable(function, b)  OBVIOUS
<1>6. function.blocks[b].begin \in Nat /\ function.blocks[b].end \in Nat  BY <1>1, <1>5, BlockTypes
<1>7. i \in function.blocks[b].begin .. function.blocks[b].end /\ i < function.blocks[b].end
  BY <1>6 DEF Reads, From
<1>8. \A e \in reaching_in[b] : ComesTo(function, e.local, b, function.blocks[b].begin, e)
  BY <1>5 DEF RealInv, DefinitionsAreReal
<1>9. ComesTo(function, d.local, b, i, d)
  <2>1. \A k \in function.blocks[b].begin .. function.blocks[b].end :
          \A e \in DefinitionsAt(function, b, reaching_in[b], k) : ComesTo(function, e.local, b, k, e)
    BY <1>1, <1>5, <1>8, DefinitionsAtIsReal
  <2> QED  BY <1>4, <1>7, <2>1
<1>10. At(function, <<b, i>>)  BY <1>7 DEF At
<1> DEFINE way == <<<<b, i>>, d>>
<1>11. way \in Ways(function, u.local)  BY <1>4, <1>9 DEF ComesTo
<1>12. way[1][2] = u.instruction /\ At(function, way[1]) /\ way[2] = d  BY <1>4, <1>10
<1> QED  BY <1>11, <1>12

(* After the liveness has settled, where l is not said to be live no read  *)
(* of it lies ahead.                                                       *)
LEMMA NothingReadAhead ==
  ASSUME PassInv, pc = "done", NEW l \in Local, NEW b \in Block, Reachable(function, b),
         l \notin live_in[b]
  PROVE  \A p \in Unwritten(function, l, <<b, function.blocks[b].begin>>) : ~ReadAt(function, l, p)
<1> DEFINE f == function
           S == {p \in Places(f) : /\ Reachable(f, p[1])
                                   /\ l \notin LiveAt(f, p[1], live_out[p[1]], p[2])}
           place == <<b, f.blocks[b].begin>>
<1>1. Analyzable(f)  BY PassTypes
<1>2. \A c \in Block : Reachable(f, c) =>
        /\ OutgoingLive(f, live_in, c) \subseteq live_out[c]
        /\ LiveAt(f, c, live_out[c], f.blocks[c].begin) \subseteq live_in[c]
        /\ live_out[c] \in SUBSET Local
  BY DoneSettles, PassTypes DEF LiveSettled, Begin
<1>3. place \in Places(f) /\ place \in S
  <2>1. f.blocks[b].begin \in f.blocks[b].begin .. f.blocks[b].end  BY <1>1, BlockTypes
  <2>2. place \in Places(f)  BY <1>1, <2>1, PlacesAre
  <2> QED  BY <1>2, <2>2
<1>4. ASSUME NEW p \in S, ~(At(f, p) /\ localWrite(f, p[2], l)), NEW q \in Onward(f, p)
      PROVE  q \in S
  <2> DEFINE c == p[1]
             i == p[2]
  <2>1. p = <<c, i>> /\ c \in Block /\ i \in f.blocks[c].begin .. f.blocks[c].end
    BY <1>1, PlacesAre
  <2>2. f.blocks[c].begin \in Nat /\ f.blocks[c].end \in Nat  BY <1>1, <2>1, BlockTypes
  <2>3. Reachable(f, c) /\ l \notin LiveAt(f, c, live_out[c], i)  OBVIOUS
  <2>4. q \in Places(f)  BY <1>1, PlacesAre
  <2> HIDE DEF c, i
  <2>5. CASE i = f.blocks[c].end
    <3>1. PICK s \in f.blocks[c].successors : q = <<s, f.blocks[s].begin>>
      BY <2>1, <2>5, <1>4 DEF Onward
    <3>2. s \in Block /\ Reachable(f, s) /\ s \in LiveSuccessors(f, c)
      BY <1>1, <2>1, <2>3, SuccessorsAreReachable
    <3>3. l \notin live_out[c]
      <4>1. live_out[c] \subseteq LiveAt(f, c, live_out[c], f.blocks[c].end)
        BY <1>1, <1>2, <2>1, <2>3, BlockEnds
      <4> QED  BY <2>3, <2>5, <4>1
    <3>4. l \notin live_in[s]  BY <1>2, <2>1, <2>3, <3>2, <3>3 DEF OutgoingLive
    <3>5. l \notin LiveAt(f, s, live_out[s], f.blocks[s].begin)  BY <1>2, <3>2, <3>4
    <3> QED  BY <2>4, <3>1, <3>2, <3>5
  <2>6. CASE i # f.blocks[c].end
    <3>1. q = <<c, i + 1>>  BY <2>1, <2>6, <1>4 DEF Onward
    <3>2. i \in f.blocks[c].begin .. f.blocks[c].end - 1 /\ i < f.blocks[c].end
      BY <2>1, <2>2, <2>6
    <3>3. At(f, p)  BY <2>1, <3>2 DEF At
    <3>4. ~localWrite(f, i, l)  BY <1>4, <3>3 DEF i
    <3>5. i \in From(f, c, f.blocks[c].begin)  BY <1>1, <2>1, <3>2, BlockTypes
    <3>6. l \notin LiveAt(f, c, live_out[c], i + 1)
      BY <1>1, <2>1, <2>3, <3>4, <3>5, LiveAtStep
    <3> QED  BY <2>3, <2>4, <3>1, <3>6
  <2> QED  BY <2>5, <2>6
<1>5. ASSUME NEW p \in S PROVE ~ReadAt(f, l, p)
  <2> SUFFICES ASSUME ReadAt(f, l, p) PROVE FALSE  OBVIOUS
  <2>1. /\ p[1] \in Block /\ p[2] \in f.blocks[p[1]].begin .. f.blocks[p[1]].end
        /\ p[2] < f.blocks[p[1]].end /\ localRead(f, p[2], l)
    BY <1>1, PlacesAre DEF ReadAt, At
  <2>2. f.blocks[p[1]].begin \in Nat /\ f.blocks[p[1]].end \in Nat  BY <1>1, <2>1, BlockTypes
  <2>3. p[2] \in f.blocks[p[1]].begin .. f.blocks[p[1]].end - 1  BY <2>1, <2>2
  <2>4. p[2] \in From(f, p[1], f.blocks[p[1]].begin)  BY <1>1, <2>1, <2>3, BlockTypes
  <2>5. l \in LiveAt(f, p[1], live_out[p[1]], p[2])  BY <1>1, <2>1, <2>4, LiveAtStep
  <2> QED  BY <2>5
<1>6. Unwritten(f, l, place) \subseteq S
  <2>1. S \in SUBSET Places(f)  OBVIOUS
  <2> HIDE DEF S, place, f
  <2> QED  BY <1>1, <1>3, <1>4, <2>1, UnwrittenIsFlood
<1> HIDE DEF S, f
<1> QED  BY <1>5, <1>6 DEF f

LEMMA LiveHolds ==
  ASSUME PassInv, RealInv, pc = "done"
  PROVE  LiveIsRead
<1> SUFFICES ASSUME NEW b \in LiveBlocks, NEW l \in Local
             PROVE  l \in live_in[b] <=>
                      \E p \in Unwritten(function, l, <<b, function.blocks[b].begin>>) :
                        ReadAt(function, l, p)
  BY DEF LiveIsRead
<1>1. b \in Block /\ Reachable(function, b)  BY DEF LiveBlocks
<1>2. l \in live_in[b] => ReadAhead(function, l, b, function.blocks[b].begin)
  BY <1>1 DEF RealInv, NeedsAreReal
<1>3. l \notin live_in[b] =>
        \A p \in Unwritten(function, l, <<b, function.blocks[b].begin>>) : ~ReadAt(function, l, p)
  BY <1>1, NothingReadAhead
<1> QED  BY <1>2, <1>3 DEF ReadAhead

(* local_analysis.cpp:93-301.  What the analysis says of reads, of the     *)
(* locals that are available and of those that are live is what all ways   *)
(* through the function bear out, no more and no less, for every function. *)
THEOREM SetsExact == Spec => []SetsAreExact
<1>1. Init => RealInv
  BY InitEstablishesRealInv DEF Init
<1>2. IInv /\ IInv' /\ RealInv /\ [Next]_vars => RealInv'
  BY StepKeepsRealInv
<1>3. IInv /\ RealInv => SetsAreExact
  <2> SUFFICES ASSUME PassInv, RealInv PROVE SetsAreExact
    BY DEF IInv
  <2>1. UsesAreReal
    <3>1. CASE pc = "liveness"  BY <3>1, UsesHold
    <3>2. CASE pc # "liveness"  BY <3>2 DEF UsesAreReal
    <3> QED  BY <3>1, <3>2
  <2>2. AvailabilityIsExact
    <3>1. CASE pc = "uses"  BY <3>1, AvailabilityHolds
    <3>2. CASE pc # "uses"  BY <3>2 DEF AvailabilityIsExact
    <3> QED  BY <3>1, <3>2
  <2>3. LiveIsRead
    <3>1. CASE pc = "done"  BY <3>1, LiveHolds
    <3>2. CASE pc # "done"  BY <3>2 DEF LiveIsRead
    <3> QED  BY <3>1, <3>2
  <2> QED  BY <2>1, <2>2, <2>3 DEF SetsAreExact
<1> QED  BY <1>1, <1>2, <1>3, Inductive, PTL DEF Spec
=============================================================================
