------------------------------ MODULE LocalRun ------------------------------
(***************************************************************************)
(* A function that analyzeLocals accepted, run by the Move VM: which       *)
(* definition each local holds, as the run goes from block to block.  The  *)
(* run may lose, unnoticed, the value of a local the analysis calls dead:  *)
(* dropped are the locals that lost theirs.  And what the results mean, by *)
(* all ways through the function, instruction by instruction.              *)
(***************************************************************************)
EXTENDS LocalAnalysis

VARIABLES here, next,   \* block and instruction
          holds,        \* of each local: a definition or None
          dropped

runVars == <<here, next, holds, dropped>>
vars == <<passVars, runVars>>

Init ==
  /\ PassInit
  /\ here = None /\ next = 0
  /\ holds = [l \in Local |-> None]
  /\ dropped = {}

Analyze == Pass /\ UNCHANGED runVars

(* validator.cpp:1195: what was not rejected may be called.                *)
Call ==
  /\ pc = "done" /\ here = None
  /\ here' = 0 /\ next' = function.blocks[0].begin
  /\ holds' = [l \in Local |-> IF l \in Parameters(function) THEN Definition(None, l) ELSE None]
  /\ UNCHANGED <<passVars, dropped>>

Within == here # None /\ next < End(here)

Execute ==
  /\ Within
  /\ LET i == function.code[next] IN
       /\ holds' = CASE i.kind = "Write" -> [holds EXCEPT ![i.local] = Definition(next, i.local)]
                     [] i.kind = "Move" -> [holds EXCEPT ![i.local] = None]
                     [] OTHER -> holds
       /\ dropped' = IF i.kind = "Write" THEN dropped \ {i.local} ELSE dropped
  /\ next' = next + 1
  /\ UNCHANGED <<passVars, here>>

Follow(s) ==
  /\ here # None /\ next = End(here)
  /\ s \in function.blocks[here].successors
  /\ here' = s /\ next' = function.blocks[s].begin
  /\ UNCHANGED <<passVars, holds, dropped>>

Drop(l) ==
  /\ here # None
  /\ l \notin LiveAt(function, here, live_out[here], next)
  /\ dropped' = dropped \cup {l}
  /\ UNCHANGED <<passVars, here, next, holds>>

Next == Analyze \/ Call \/ Execute \/ (\E s \in Block : Follow(s)) \/ (\E l \in Local : Drop(l))

Spec == Init /\ [][Next]_vars

(* The pass is a sequential function: it takes a step whenever it can.     *)
FairSpec == Spec /\ WF_vars(Analyze)
-----------------------------------------------------------------------------
TypeOK ==
  /\ PassTypeOK
  /\ here \in Block \cup {None}
  /\ here # None => pc = "done" /\ Reachable(function, here)
                   /\ next \in function.blocks[here].begin .. End(here)
  /\ holds \in [Local -> Definitions(function) \cup {None}]
  /\ dropped \subseteq Local

(* Where the run reads local l next.                                       *)
ReadsNext(l) == Within /\ localRead(function, next, l)

(* local_analysis.cpp:146-225, for validator.cpp:1195.  Code that was      *)
(* accepted reads no local that has no value, whatever way it took.        *)
ReadsFindAValue == \A l \in Local : ReadsNext(l) => holds[l] # None

(* local_analysis.cpp:93-238.  The value a read finds was put there by one *)
(* of the definitions listed for the read.                                 *)
UsesListWhatIsHeld ==
  \A l \in Local : ReadsNext(l) =>
    \E u \in uses : u.instruction = next /\ u.local = l /\ holds[l] \in u.reaching_definitions

(* local_analysis.cpp:266-301.  A value thrown away while its local was    *)
(* called dead is not read any more.                                       *)
DeadIsNeverRead == \A l \in dropped : ~ReadsNext(l)

(* local_analysis.cpp:117-301.  The analysis ends, for every function.     *)
Terminates == <>(pc \in {"done", "rejected"})
-----------------------------------------------------------------------------
(* The places of f: before each instruction of a block, and at its end.    *)
Places(f) == UNION {{<<b, i>> : i \in f.blocks[b].begin .. f.blocks[b].end} : b \in Block}

Onward(f, place) ==
  LET b == place[1]  i == place[2]
  IN  IF i = f.blocks[b].end THEN {<<s, f.blocks[s].begin>> : s \in f.blocks[b].successors}
      ELSE {<<b, i + 1>>}

At(f, place) == place[2] < f.blocks[place[1]].end

(* What local l, which held d, holds past the place.                       *)
Held(f, l, place, d) ==
  IF ~At(f, place) \/ f.code[place[2]].local # l THEN d
  ELSE CASE f.code[place[2]].kind = "Write" -> Definition(place[2], l)
         [] f.code[place[2]].kind = "Move" -> None
         [] OTHER -> d

(* A place and what a local holds there.                                   *)
Holdings(f) == Places(f) \X (Definitions(f) \cup {None})

Start(f, l) ==
  <<<<0, f.blocks[0].begin>>, IF l \in Parameters(f) THEN Definition(None, l) ELSE None>>

Steps(f, l) ==
  [x \in Holdings(f) |-> {<<p, Held(f, l, x[1], x[2])>> : p \in Onward(f, x[1])}]

(* All ways, each seen as the places it comes to and what l holds there.   *)
Ways(f, l) == Flooded(Steps(f, l), Holdings(f), {Start(f, l)})

(* Where a run may be from place on without having written l.              *)
Unwritten(f, l, place) ==
  Flooded([p \in Places(f) |-> IF At(f, p) /\ localWrite(f, p[2], l) THEN {} ELSE Onward(f, p)],
          Places(f), {place})

ReadAt(f, l, place) == At(f, place) /\ localRead(f, place[2], l)

LiveBlocks == {b \in Block : Reachable(function, b)}
-----------------------------------------------------------------------------
(* local_analysis.cpp:93-144, 220-238.  A definition listed for a read is  *)
(* what the local holds there on some way.                                 *)
UsesAreReal ==
  pc = "liveness" /\ block = 0 =>
    \A u \in uses : \A d \in u.reaching_definitions :
      \E way \in Ways(function, u.local) :
        way[1][2] = u.instruction /\ At(function, way[1]) /\ way[2] = d

(* local_analysis.cpp:146-218.  A local is available where it holds a      *)
(* value on every way, and maybe available where it does on some.          *)
AvailabilityIsExact ==
  pc = "uses" =>
    \A l \in Local : LET ways == Ways(function, l) IN
      \A b \in LiveBlocks :
        LET here_held == {way[2] : way \in {w \in ways : w[1] = <<b, function.blocks[b].begin>>}}
        IN  /\ l \in must_in[b] <=> None \notin here_held
            /\ l \in may_in[b] <=> here_held \ {None} # {}

(* local_analysis.cpp:266-301.  A local is live where some way leads to a  *)
(* read of it with no write before.                                        *)
LiveIsRead ==
  pc = "done" =>
    \A b \in LiveBlocks, l \in Local :
      l \in live_in[b] <=> \E p \in Unwritten(function, l, <<b, function.blocks[b].begin>>) :
                             ReadAt(function, l, p)

(* All three: what the analysis says names neither more nor less than the  *)
(* ways through the function (local_analysis.cpp:93-301).                  *)
SetsAreExact == UsesAreReal /\ AvailabilityIsExact /\ LiveIsRead
=============================================================================
