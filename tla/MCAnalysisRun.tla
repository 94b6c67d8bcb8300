--------------------------- MODULE MCAnalysisRun ---------------------------
(***************************************************************************)
(* Every graph of at most four blocks, and of five those that begin with a *)
(* test and end in a jump and a return: units in which each instruction    *)
(* ends a block.                                                           *)
(* BrFalse and Abort add no graph to those of BrTrue and Ret.              *)
(***************************************************************************)
EXTENDS AnalysisRun

OneBlockEach(n) ==
  {i \in Instructions(n) : \/ i.op = "Ret" /\ i.target = NoTarget
                           \/ i.op \in {"Branch", "BrTrue"} /\ i.target \in 0 .. n - 1}

UnitsOf(n) == {c \in [0 .. n - 1 -> OneBlockEach(n)] : ~Conditional(c[n - 1].op)}

FiveBlocks ==
  LET Some(op) == {i \in OneBlockEach(5) : i.op = op} IN
    {c0 @@ c1 @@ c3 @@ (4 :> [op |-> "Ret", target |-> NoTarget]) :
       c0 \in [{0} -> Some("BrTrue")], c1 \in [1 .. 2 -> OneBlockEach(5)],
       c3 \in [{3} -> Some("Branch")]}

GraphsOfUnits == UNION {UnitsOf(n) : n \in 1 .. 4} \cup FiveBlocks
=============================================================================
