--------------------------- MODULE MCBytecodeRun ---------------------------
(***************************************************************************)
(* Every code unit of fewer than MaxSize instructions, the empty one and   *)
(* malformed ones included, and the well-formed ones of MaxSize            *)
(* instructions without an abort (which a return stands for).              *)
(***************************************************************************)
EXTENDS BytecodeRun

CONSTANT MaxSize

WellTargeted(n) ==
  {i \in Instructions(n) : Branches(i.op) <=> i.target \in 0 .. n - 1}

AllCodeUnits ==
  UNION {CodeUnits(n) : n \in 0 .. MaxSize - 1}
    \cup {c \in [0 .. MaxSize - 1 -> {i \in WellTargeted(MaxSize) : i.op # "Abort"}] :
            ~Conditional(c[MaxSize - 1].op)}
=============================================================================
