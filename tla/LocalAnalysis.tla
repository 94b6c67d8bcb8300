--------------------------- MODULE LocalAnalysis ---------------------------
(***************************************************************************)
(* analyzeLocals (src/local_analysis.cpp:52-319): the sets it computes     *)
(* with, that is what a block makes of what holds before it (or, for       *)
(* liveness, after it) and what comes in from its neighbours; and how it   *)
(* runs: reaching definitions, then availability, both forward over the    *)
(* blocks in order until a whole round changes nothing; then every read is *)
(* looked at and listed, or the function rejected; then liveness,          *)
(* backward.                                                               *)
(*                                                                         *)
(* A function f has its code, blocks and number of parameters.  An         *)
(* instruction is what it does to a local: "Read" is CopyLoc and the two   *)
(* borrows, "Move" is MoveLoc, "Write" is StLoc.                           *)
(***************************************************************************)
EXTENDS Integers, FiniteSets, Iteration

CONSTANTS BlockCount,   \* number of blocks
          LocalCount,
          None,         \* std::nullopt
          Functions     \* the functions analyzed

Block == 0 .. BlockCount - 1
Local == 0 .. LocalCount - 1

Instruction == [kind : {"Read", "Move", "Write", "Other"}, local : Local]

BasicBlock == [begin : Nat, end : Nat, successors : SUBSET Block, reachable : BOOLEAN]

ASSUME CountsAssumption == BlockCount \in Nat \ {0} /\ LocalCount \in Nat
ASSUME NoneAssumption == /\ None \notin Int
                         /\ None \notin [instruction : Int \cup {None}, local : Local]

(* Every block marked reachable is one that edges lead to from block 0.    *)
MarksOnlyReached(f) ==
  {b \in Block : f.blocks[b].reachable}
    \subseteq Flooded([b \in Block |-> f.blocks[b].successors], Block, {0})

(* What buildControlFlowGraph guarantees of a graph and its code.          *)
Analyzable(f) ==
  /\ IsFiniteSet(DOMAIN f.code) /\ DOMAIN f.code \subseteq Nat
  /\ f.code \in [DOMAIN f.code -> Instruction]
  /\ f.blocks \in [Block -> BasicBlock]
  /\ f.parameters \in 0 .. LocalCount
  /\ f.blocks[0].reachable /\ MarksOnlyReached(f)
  /\ \A b \in Block :
       /\ f.blocks[b].begin <= f.blocks[b].end
       /\ f.blocks[b].begin .. f.blocks[b].end - 1 \subseteq DOMAIN f.code
       /\ f.blocks[b].reachable =>
            \A s \in f.blocks[b].successors : f.blocks[s].reachable

Reachable(f, b) == f.blocks[b].reachable

LivePredecessors(f, b) == {p \in Block : Reachable(f, p) /\ b \in f.blocks[p].successors}

LiveSuccessors(f, b) == {s \in f.blocks[b].successors : Reachable(f, s)}

(* The instructions of block b before, and from, instruction i.            *)
Before(f, b, i) == f.blocks[b].begin .. i - 1
From(f, b, i) == i .. f.blocks[b].end - 1
-----------------------------------------------------------------------------
localRead(f, i, l) == f.code[i].local = l /\ f.code[i].kind \in {"Read", "Move"}
localWrite(f, i, l) == f.code[i].local = l /\ f.code[i].kind = "Write"

(* A definition: a parameter, or an instruction that writes.               *)
Definition(i, l) == [instruction |-> i, local |-> l]

Parameters(f) == {l \in Local : l < f.parameters}

entry_definitions(f) == {Definition(None, l) : l \in Parameters(f)}

Definitions(f) == entry_definitions(f) \cup
  {Definition(i, f.code[i].local) : i \in {j \in DOMAIN f.code : f.code[j].kind = "Write"}}

(* Mutant of Ends: a move leaves the definition where it was.              *)
EndsByWriteOnly(f, i, l) == localWrite(f, i, l)

(* After instruction i, local l no longer holds what it held.              *)
Ends(f, i, l) == f.code[i].local = l /\ f.code[i].kind \in {"Write", "Move"}

(* What the loops over a block's instructions come to, up to instruction i *)
(* (backward: down to it): what holds before the block and is not ended,   *)
(* and what the block itself adds and does not end again.                  *)
DefinitionsAt(f, b, incoming, i) ==
  {d \in Definitions(f) :
     \/ d \in incoming /\ \A k \in Before(f, b, i) : ~Ends(f, k, d.local)
     \/ /\ d.instruction \in Before(f, b, i)
        /\ \A k \in Before(f, b, i) : k > d.instruction => ~Ends(f, k, d.local)}

AvailableAt(f, b, incoming, i) ==
  {l \in Local :
     \/ l \in incoming /\ \A k \in Before(f, b, i) : ~Ends(f, k, l)
     \/ \E j \in Before(f, b, i) :
          /\ localWrite(f, j, l)
          /\ \A k \in Before(f, b, i) : k > j => ~Ends(f, k, l)}

(* Mutant of LiveAt: a write after the read counts too.                    *)
LiveUnlessWritten(f, b, outgoing, i) ==
  {l \in Local : /\ \A k \in From(f, b, i) : ~localWrite(f, k, l)
                 /\ \/ l \in outgoing
                    \/ \E k \in From(f, b, i) : localRead(f, k, l)}

LiveAt(f, b, outgoing, i) ==
  {l \in Local :
     \/ l \in outgoing /\ \A k \in From(f, b, i) : ~localWrite(f, k, l)
     \/ \E j \in From(f, b, i) :
          /\ localRead(f, j, l)
          /\ \A k \in From(f, b, i) : k < j => ~localWrite(f, k, l)}
-----------------------------------------------------------------------------
(* Mutant of IncomingDefinitions: one way in loses what another brings.    *)
DefinitionsOnAllWays(f, out, b) ==
  (IF b = 0 THEN entry_definitions(f) ELSE {})
    \cup {d \in Definitions(f) : \A p \in LivePredecessors(f, b) : d \in out[p]}

IncomingDefinitions(f, out, b) ==
  (IF b = 0 THEN entry_definitions(f) ELSE {})
    \cup UNION {out[p] : p \in LivePredecessors(f, b)}

(* Mutant of IncomingMust: available on some way in.                       *)
MustOnSomeWay(f, out, b) ==
  {l \in Local : \/ b = 0 /\ l \in Parameters(f)
                 \/ \E p \in LivePredecessors(f, b) : l \in out[p]}

(* Mutant of IncomingMust: the way in from the caller is forgotten.        *)
MustWithoutEntry(f, out, b) ==
  {l \in Local : /\ b = 0 \/ LivePredecessors(f, b) # {}
                 /\ b = 0 /\ LivePredecessors(f, b) = {} => l \in Parameters(f)
                 /\ \A p \in LivePredecessors(f, b) : l \in out[p]}

IncomingMust(f, out, b) ==
  {l \in Local : /\ b = 0 \/ LivePredecessors(f, b) # {}
                 /\ b = 0 => l \in Parameters(f)
                 /\ \A p \in LivePredecessors(f, b) : l \in out[p]}

IncomingMay(f, out, b) ==
  (IF b = 0 THEN Parameters(f) ELSE {}) \cup UNION {out[p] : p \in LivePredecessors(f, b)}

(* Mutant of OutgoingLive: live if all successors need it.                 *)
LiveInAll(f, in, b) ==
  {l \in Local : LiveSuccessors(f, b) # {} /\ \A s \in LiveSuccessors(f, b) : l \in in[s]}

OutgoingLive(f, in, b) == UNION {in[s] : s \in LiveSuccessors(f, b)}
-----------------------------------------------------------------------------
Reads(f, b) ==
  {i \in From(f, b, f.blocks[b].begin) : f.code[i].kind \in {"Read", "Move"}}

(* Mutant of Use: the definitions of the other locals are listed too.      *)
UseOfAnyLocal(f, b, incoming, i) ==
  [instruction |-> i, local |-> f.code[i].local,
   reaching_definitions |-> DefinitionsAt(f, b, incoming, i)]

(* What is recorded for the read by instruction i of block b.              *)
Use(f, b, incoming, i) ==
  [instruction |-> i, local |-> f.code[i].local,
   reaching_definitions |->
     {d \in DefinitionsAt(f, b, incoming, i) : d.local = f.code[i].local}]

UsesOf(f, in) ==
  UNION {{Use(f, b, in[b], i) : i \in Reads(f, b)} : b \in {c \in Block : Reachable(f, c)}}

(* A read of a local that some way to it leaves without a value.           *)
MayReadUnavailable(f, must) ==
  \E b \in Block : Reachable(f, b) /\
    \E i \in Reads(f, b) : f.code[i].local \notin AvailableAt(f, b, must[b], i)
-----------------------------------------------------------------------------
ASSUME FunctionsAssumption == \A f \in Functions : Analyzable(f)

VARIABLES function, pc, block, changed,
          reaching_in, reaching_out, must_in, must_out, may_in, may_out,
          uses, live_in, live_out

reaching == <<reaching_in, reaching_out>>
available == <<must_in, must_out, may_in, may_out>>
live == <<live_in, live_out>>
passVars == <<function, pc, block, changed, reaching_in, reaching_out,
              must_in, must_out, may_in, may_out, uses, live_in, live_out>>

(* Mutant of PassInit: nothing is available at first.                      *)
PassInitPessimistic ==
  /\ function \in Functions
  /\ pc = "reaching" /\ block = 0 /\ changed = FALSE
  /\ reaching_in = [b \in Block |-> {}] /\ reaching_out = [b \in Block |-> {}]
  /\ must_in = [b \in Block |-> {}] /\ must_out = [b \in Block |-> {}]
  /\ may_in = [b \in Block |-> {}] /\ may_out = [b \in Block |-> {}]
  /\ uses = {}
  /\ live_in = [b \in Block |-> {}] /\ live_out = [b \in Block |-> {}]

PassInit ==
  /\ function \in Functions
  /\ pc = "reaching" /\ block = 0 /\ changed = FALSE
  /\ reaching_in = [b \in Block |-> {}] /\ reaching_out = [b \in Block |-> {}]
  /\ must_in = [b \in Block |-> Local] /\ must_out = [b \in Block |-> Local]
  /\ may_in = [b \in Block |-> {}] /\ may_out = [b \in Block |-> {}]
  /\ uses = {}
  /\ live_in = [b \in Block |-> {}] /\ live_out = [b \in Block |-> {}]

End(b) == function.blocks[b].end

(* Each round visits the blocks in order, liveness in reverse order.       *)
Visited == IF pc = "liveness" THEN BlockCount - 1 - block ELSE block

Skip ==
  /\ pc \in {"reaching", "availability", "liveness"}
  /\ block < BlockCount
  /\ ~Reachable(function, Visited)
  /\ block' = block + 1
  /\ UNCHANGED <<function, pc, changed, reaching, available, uses, live>>

Reach ==
  /\ pc = "reaching" /\ block < BlockCount /\ Reachable(function, block)
  /\ LET incoming == IncomingDefinitions(function, reaching_out, block)
         outgoing == DefinitionsAt(function, block, incoming, End(block))
     IN  /\ changed' = (changed \/ incoming # reaching_in[block]
                                \/ outgoing # reaching_out[block])
         /\ reaching_in' = [reaching_in EXCEPT ![block] = incoming]
         /\ reaching_out' = [reaching_out EXCEPT ![block] = outgoing]
  /\ block' = block + 1
  /\ UNCHANGED <<function, pc, available, uses, live>>

Provide ==
  /\ pc = "availability" /\ block < BlockCount /\ Reachable(function, block)
  /\ LET must == IncomingMust(function, must_out, block)
         may == IncomingMay(function, may_out, block)
         next_must == AvailableAt(function, block, must, End(block))
         next_may == AvailableAt(function, block, may, End(block))
     IN  /\ changed' = (changed \/ must # must_in[block] \/ may # may_in[block]
                          \/ next_must # must_out[block] \/ next_may # may_out[block])
         /\ must_in' = [must_in EXCEPT ![block] = must]
         /\ must_out' = [must_out EXCEPT ![block] = next_must]
         /\ may_in' = [may_in EXCEPT ![block] = may]
         /\ may_out' = [may_out EXCEPT ![block] = next_may]
  /\ block' = block + 1
  /\ UNCHANGED <<function, pc, reaching, uses, live>>

Need ==
  /\ pc = "liveness" /\ block < BlockCount /\ Reachable(function, Visited)
  /\ LET outgoing == OutgoingLive(function, live_in, Visited)
         incoming == LiveAt(function, Visited, outgoing, function.blocks[Visited].begin)
     IN  /\ changed' = (changed \/ incoming # live_in[Visited]
                                \/ outgoing # live_out[Visited])
         /\ live_in' = [live_in EXCEPT ![Visited] = incoming]
         /\ live_out' = [live_out EXCEPT ![Visited] = outgoing]
  /\ block' = block + 1
  /\ UNCHANGED <<function, pc, reaching, available, uses>>

(* Mutant of Again: changed is not reset.                                  *)
AgainAndAgain ==
  /\ pc \in {"reaching", "availability", "liveness"}
  /\ block = BlockCount
  /\ block' = 0
  /\ UNCHANGED changed
  /\ pc' = IF changed THEN pc
           ELSE CASE pc = "reaching" -> "availability"
                  [] pc = "availability" -> "uses"
                  [] pc = "liveness" -> "done"
  /\ UNCHANGED <<function, reaching, available, uses, live>>

(* The end of a round: another one if something changed.                   *)
Again ==
  /\ pc \in {"reaching", "availability", "liveness"}
  /\ block = BlockCount
  /\ block' = 0
  /\ changed' = FALSE
  /\ pc' = IF changed THEN pc
           ELSE CASE pc = "reaching" -> "availability"
                  [] pc = "availability" -> "uses"
                  [] pc = "liveness" -> "done"
  /\ UNCHANGED <<function, reaching, available, uses, live>>

RecordUses ==
  /\ pc = "uses"
  /\ ~MayReadUnavailable(function, must_in)
  /\ uses' = UsesOf(function, reaching_in)
  /\ pc' = "liveness"
  /\ UNCHANGED <<function, block, changed, reaching, available, live>>

Reject ==
  /\ pc = "uses"
  /\ MayReadUnavailable(function, must_in)
  /\ pc' = "rejected"
  /\ UNCHANGED <<function, block, changed, reaching, available, uses, live>>

Pass == Skip \/ Reach \/ Provide \/ Need \/ Again \/ RecordUses \/ Reject
-----------------------------------------------------------------------------
PassTypeOK ==
  /\ Analyzable(function)
  /\ pc \in {"reaching", "availability", "uses", "rejected", "liveness", "done"}
  /\ block \in 0 .. BlockCount /\ changed \in BOOLEAN
  /\ reaching_in \in [Block -> SUBSET Definitions(function)]
  /\ reaching_out \in [Block -> SUBSET Definitions(function)]
  /\ must_in \in [Block -> SUBSET Local] /\ must_out \in [Block -> SUBSET Local]
  /\ may_in \in [Block -> SUBSET Local] /\ may_out \in [Block -> SUBSET Local]
  /\ live_in \in [Block -> SUBSET Local] /\ live_out \in [Block -> SUBSET Local]
  /\ \A u \in uses :
       u.reaching_definitions \subseteq {d \in Definitions(function) : d.local = u.local}

(* local_analysis.cpp:117-144, 166-201, 268-301: what once reaches, may be *)
(* available or is live stays so, and what once may be missing stays so.   *)
(* This is what makes the rounds end.                                      *)
SetsMoveOneWay ==
  [][\A b \in Block :
       /\ reaching_in[b] \subseteq reaching_in'[b] /\ reaching_out[b] \subseteq reaching_out'[b]
       /\ must_in'[b] \subseteq must_in[b] /\ must_out'[b] \subseteq must_out[b]
       /\ may_in[b] \subseteq may_in'[b] /\ may_out[b] \subseteq may_out'[b]
       /\ live_in[b] \subseteq live_in'[b] /\ live_out[b] \subseteq live_out'[b]]_passVars
=============================================================================
