----------------------------- MODULE BlockWalk -----------------------------
(***************************************************************************)
(* What a control-flow graph promises: a run of the function it was built  *)
(* from is a walk from block 0 along edges of the graph, a conditional     *)
(* edge being taken for the value its kind names, until a block with an    *)
(* exit kind ends the run in that way.                                     *)
(***************************************************************************)
EXTENDS Integers, Sequences

VARIABLES cfg,      \* the graph, empty until it is built
          at,       \* the block the run is in
          cond,     \* the value of the last condition tested
          status    \* "build", "run", "empty", "rejected" or how the run ended

walkVars == <<cfg, at, cond, status>>

Init == /\ cfg = << >>
        /\ at = 0
        /\ cond = FALSE
        /\ status = "build"

(* Any graph may be built; from then on it does not change.  A run needs a *)
(* block to start in.                                                      *)
Built ==
  /\ status = "build"
  /\ status' = IF DOMAIN cfg' = {} THEN "empty" ELSE "run"
  /\ UNCHANGED <<at, cond>>

Rejected ==
  /\ status = "build"
  /\ status' = "rejected"
  /\ UNCHANGED <<cfg, at, cond>>

Follow ==
  /\ status = "run"
  /\ \E i \in DOMAIN cfg[at].successors :
       LET edge == cfg[at].successors[i] IN
         /\ at' = edge.target
         /\ CASE edge.kind = "True"  -> cond' = TRUE
              [] edge.kind = "False" -> cond' = FALSE
              [] OTHER -> cond' = cond
  /\ UNCHANGED <<cfg, status>>

Leave ==
  /\ status = "run"
  /\ cfg[at].exit # "None"
  /\ status' = cfg[at].exit
  /\ UNCHANGED <<cfg, at, cond>>

Next == Built \/ Rejected \/ Follow \/ Leave

Spec == Init /\ [][Next]_walkVars
=============================================================================
