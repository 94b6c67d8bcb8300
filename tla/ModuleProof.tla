----------------------------- MODULE ModuleProof -----------------------------
(***************************************************************************)
(* Proofs about modules that the validator accepts: what they may touch is *)
(* declared, their code finds its operands, the abilities that types are   *)
(* given hold of all that is in them, and those that compare as equal run  *)
(* alike.                                                                  *)
(***************************************************************************)
EXTENDS ModuleInvariants, ControlFlowProof, SequenceTheorems

(* An instruction beside what the tables say of it.                        *)
LEMMA CodeInstruction ==
  ASSUME NEW m, NEW f, Coded(f), NEW at \in DOMAIN f.code
  PROVE  /\ DOMAIN CodeOf(m, f) = DOMAIN f.code
         /\ CodeOf(m, f)[at].op = f.code[at].op
         /\ CodeOf(m, f)[at].arg = f.code[at].arg
         /\ CodeOf(m, f)[at].generic = f.code[at].generic
         /\ CodeOf(m, f)[at].arity = IF f.code[at].op \in OwnArity THEN f.code[at].arity
                                     ELSE TableArity(m, f, f.code[at])
         /\ {"op", "arg", "generic", "arity"} \subseteq DOMAIN CodeOf(m, f)[at]
         /\ "at" \notin DOMAIN CodeOf(m, f)[at]
<1> DEFINE i == f.code[at]
           a == [arity |-> TableArity(m, f, i)]
<1>1. DOMAIN CodeOf(m, f) = DOMAIN f.code /\ CodeOf(m, f)[at] = Annotated(i, a)  BY DEF CodeOf, Body
<1>2. /\ {"op", "arg", "generic"} \subseteq DOMAIN i /\ "at" \notin DOMAIN i
      /\ "arity" \in DOMAIN i <=> i.op \in OwnArity
  BY DEF Coded, Range
<1> HIDE DEF i
<1>3. DOMAIN a = {"arity"} /\ a["arity"] = TableArity(m, f, i)  OBVIOUS
<1> HIDE DEF a
<1>4. /\ Annotated(i, a)["op"] = i["op"] /\ Annotated(i, a)["arg"] = i["arg"]
      /\ Annotated(i, a)["generic"] = i["generic"]
      /\ Annotated(i, a)["arity"] = IF "arity" \in DOMAIN i THEN i["arity"] ELSE a["arity"]
      /\ DOMAIN Annotated(i, a) = (DOMAIN i) \cup {"arity"}
  BY <1>2, <1>3 DEF Annotated
<1> QED  BY <1>1, <1>2, <1>3, <1>4 DEF i

(* All that the validator checks.                                          *)
LEMMA SoundPasses ==
  ASSUME NEW m, Sound(m)
  PROVE  /\ PoolsOK(m) /\ HandlesOK(m) /\ StructsOK(m) /\ FieldHandlesOK(m) /\ InstancesOK(m)
         /\ FunctionsOK(m) /\ NonRecursive(m) /\ LoopsOK(m) /\ AcquiresOK(m)
<1>1. 1 .. 9 \subseteq DOMAIN Checks  BY DEF Checks
<1>2. \A k \in 1 .. 9 : Passes(m, Checks[k])  BY <1>1 DEF Sound
<1>3. /\ Checks[1] = "pools" /\ Checks[2] = "handles" /\ Checks[3] = "structs" /\ Checks[4] = "fields"
      /\ Checks[5] = "instances" /\ Checks[6] = "functions" /\ Checks[7] = "recursion" /\ Checks[8] = "loops"
      /\ Checks[9] = "acquires"
  BY DEF Checks
<1>4. /\ Passes(m, "pools") /\ Passes(m, "handles") /\ Passes(m, "structs") /\ Passes(m, "fields")
      /\ Passes(m, "instances") /\ Passes(m, "functions") /\ Passes(m, "recursion") /\ Passes(m, "loops")
      /\ Passes(m, "acquires")
  BY <1>2, <1>3
<1> QED  BY <1>4 DEF Passes

LEMMA CodeIsAccepted ==
  ASSUME NEW m, NEW d, HasCode(m, d)
  PROVE  LET f == m.functions[d] IN
         /\ f \in ToSet(m.functions) /\ f \in Range(m.functions) /\ Coded(f) /\ CodeOK(m, f)
         /\ f.handle \in DOMAIN m.table.function
         /\ DOMAIN CodeOf(m, f) = DOMAIN f.code /\ DOMAIN FlowIn(m, f) = DOMAIN f.code
         /\ \A at \in DOMAIN f.code : FlowIn(m, f)[at].op \in Opcodes
         /\ Accepted(FlowIn(m, f))
<1> DEFINE f == m.functions[d]
<1>1. f \in ToSet(m.functions) /\ f \in Range(m.functions) /\ DOMAIN f.code # {}
  BY DEF HasCode, ToSet, Range, IsNative
<1>2. Loadable(m) /\ FunctionsOK(m)  BY SoundPasses DEF HasCode, Sound
<1>3. Coded(f)  BY <1>1, <1>2 DEF Loadable, FunctionsLoadable, Coded
<1>4. CodeOK(m, f)  BY <1>1, <1>2 DEF FunctionsOK, IsNative
<1>5. f.handle \in DOMAIN m.table.function
  <2>1. f.handle \in {e.handle : e \in ToSet(m.functions)}  BY <1>1
  <2> QED  BY <1>2, <2>1 DEF FunctionsOK, DefinedOnce
<1> HIDE DEF f
<1>6. DOMAIN CodeOf(m, f) = DOMAIN f.code  BY <1>1, <1>3, CodeInstruction
<1>7. DOMAIN FlowIn(m, f) = DOMAIN f.code  BY <1>6 DEF FlowIn, FlowOf
<1>8. ASSUME NEW at \in DOMAIN f.code PROVE FlowIn(m, f)[at].op \in Opcodes
  BY <1>6 DEF FlowIn, FlowOf, Opcodes
<1>9. ~ CfgRejects(FlowIn(m, f))  BY <1>4 DEF CodeOK, FlowIn, CodeOf
<1>10. Unit(FlowIn(m, f))
  <2>1. Size(FlowIn(m, f)) = Size(f.code)  BY <1>7 DEF Size
  <2>2. 0 \in DOMAIN f.code
    <3>1. Size(f.code) \in Nat  BY <1>3, FS_CardinalityType DEF Coded, Size
    <3> QED  BY <1>1, <1>3, <3>1 DEF Coded
  <2> QED  BY <1>3, <1>7, <1>8, <2>1, <2>2 DEF Unit, Coded
<1> QED  BY <1>1, <1>3, <1>4, <1>5, <1>6, <1>7, <1>8, <1>9, <1>10 DEF Accepted, f
-----------------------------------------------------------------------------
LEMMA HeightsUnfold ==
  ASSUME NEW I, Len(I) \in Nat, Effects(I)
  PROVE  /\ Heights(I) \in [0 .. Len(I) -> Int] /\ Heights(I)[0] = 0
         /\ \A k \in 1 .. Len(I) : Heights(I)[k] = AfterEffect(Heights(I)[k - 1], StackEffect(I[k]))
<1> DEFINE n == Len(I)
           step == [p \in Int \X (0 .. n - 1) |-> AfterEffect(p[1], StackEffect(I[p[2] + 1]))]
           Eq(h) == h = [k \in 0 .. n |-> IF k = 0 THEN 0 ELSE AfterEffect(h[k - 1], StackEffect(I[k]))]
<1>1. step \in [Int \X (0 .. n - 1) -> Int]
  <2>1. ASSUME NEW p \in Int \X (0 .. n - 1) PROVE step[p] \in Int
    <3>1. p[1] \in Int /\ p[2] + 1 \in 1 .. n  OBVIOUS
    <3>2. StackEffect(I[p[2] + 1])[1] \in Nat /\ StackEffect(I[p[2] + 1])[2] \in Nat  BY <3>1 DEF Effects
    <3> QED  BY <3>1, <3>2 DEF AfterEffect
  <2> QED  BY <2>1
<1>2. PICK f : LoopsTo(f, n, Int, step, 0)
  <2>1. n \in Nat /\ 0 \in Int  OBVIOUS
  <2> HIDE DEF step, n
  <2> QED  BY <1>1, <2>1, LoopToExists
<1>3. Eq(f)
  <2>1. f \in [0 .. n -> Int] /\ f[0] = 0  BY <1>2 DEF LoopsTo
  <2>2. ASSUME NEW k \in 1 .. n PROVE f[k] = AfterEffect(f[k - 1], StackEffect(I[k]))
    <3>1. k - 1 \in 0 .. n - 1 /\ k - 1 + 1 = k /\ f[k - 1] \in Int  BY <2>1
    <3>2. f[k] = step[<<f[k - 1], k - 1>>]  BY <1>2, <3>1 DEF LoopsTo
    <3> QED  BY <3>1, <3>2
  <2> QED  BY <2>1, <2>2
<1>4. Heights(I) = CHOOSE h : Eq(h)  BY DEF Heights, AfterEffect
<1> HIDE DEF Eq
<1>5. Eq(Heights(I))  BY <1>3, <1>4
<1>6. /\ DOMAIN Heights(I) = 0 .. n /\ Heights(I)[0] = 0
      /\ \A k \in 1 .. n : Heights(I)[k] = AfterEffect(Heights(I)[k - 1], StackEffect(I[k]))
  BY <1>5 DEF Eq
<1>7. \A k \in 0 .. n : Heights(I)[k] \in Int
  <2> DEFINE T == {k \in 0 .. n : Heights(I)[k] \in Int}
  <2>1. 0 \in T  BY <1>6
  <2>2. ASSUME NEW k \in 0 .. n - 1, k \in T PROVE k + 1 \in T
    <3>1. k + 1 \in 1 .. n /\ k + 1 - 1 = k  OBVIOUS
    <3>2. StackEffect(I[k + 1])[1] \in Nat /\ StackEffect(I[k + 1])[2] \in Nat  BY <3>1 DEF Effects
    <3> QED  BY <1>6, <2>2, <3>1, <3>2 DEF AfterEffect
  <2> HIDE DEF T
  <2>3. 0 .. n \subseteq T  BY <2>1, <2>2, ClosedUpTo
  <2> QED  BY <2>3 DEF T
<1>8. Heights(I) = [k \in 0 .. n |-> Heights(I)[k]]  BY <1>5 DEF Eq
<1> QED  BY <1>6, <1>7, <1>8

(* A block whose height comes to 0 never finds too little.                 *)
LEMMA NothingUnderflows ==
  ASSUME NEW I, Len(I) \in Nat, Effects(I), HeightAfter(I) = 0, NEW k \in 1 .. Len(I)
  PROVE  LET effect == StackEffect(I[k]) IN
         /\ Heights(I)[k - 1] \in Nat /\ Heights(I)[k - 1] >= effect[1]
         /\ Heights(I)[k] = Heights(I)[k - 1] - effect[1] + effect[2]
<1> DEFINE n == Len(I)
           H == Heights(I)
           effect == StackEffect(I[k])
<1>1. /\ \A j \in 0 .. n : H[j] \in Int
      /\ \A j \in 1 .. n : H[j] = AfterEffect(H[j - 1], StackEffect(I[j]))
      /\ H[n] = 0
  BY HeightsUnfold DEF HeightAfter
<1> HIDE DEF H
<1>2. ASSUME NEW j \in 0 .. n, H[j] < 0 PROVE FALSE
  <2> DEFINE T == {x \in Nat : j + x <= n => H[j + x] < 0}
  <2>1. 0 \in T  BY <1>2
  <2>2. ASSUME NEW x \in Nat, x \in T PROVE x + 1 \in T
    <3> SUFFICES ASSUME j + (x + 1) <= n PROVE H[j + (x + 1)] < 0  OBVIOUS
    <3>1. j + (x + 1) \in 1 .. n /\ j + (x + 1) - 1 = j + x /\ j + x <= n  OBVIOUS
    <3>2. StackEffect(I[j + (x + 1)])[1] \in Nat  BY <3>1 DEF Effects
    <3>3. H[j + x] < 0 /\ H[j + x] \in Int  BY <1>1, <2>2, <3>1
    <3>4. H[j + (x + 1)] = AfterEffect(H[j + x], StackEffect(I[j + (x + 1)]))  BY <1>1, <3>1
    <3> QED  BY <3>2, <3>3, <3>4 DEF AfterEffect
  <2> HIDE DEF T
  <2>3. Nat \subseteq T  BY <2>1, <2>2, NatClosed
  <2>4. n - j \in Nat /\ j + (n - j) = n /\ n <= n  OBVIOUS
  <2>5. n - j \in T  BY <2>3, <2>4
  <2>6. H[n] < 0  BY <2>4, <2>5 DEF T
  <2> QED  BY <1>1, <2>6
<1>3. k - 1 \in 0 .. n /\ k \in 0 .. n /\ effect[1] \in Nat /\ effect[2] \in Nat  BY DEF Effects
<1>4. H[k - 1] \in Int /\ H[k] \in Int /\ ~ H[k - 1] < 0 /\ ~ H[k] < 0  BY <1>1, <1>2, <1>3
<1>5. H[k] = AfterEffect(H[k - 1], effect)  BY <1>1
<1> HIDE DEF effect
<1>6. ~ H[k - 1] < effect[1]  BY <1>4, <1>5 DEF AfterEffect
<1>7. H[k] = H[k - 1] - effect[1] + effect[2]  BY <1>5, <1>6 DEF AfterEffect
<1> QED  BY <1>3, <1>4, <1>6, <1>7 DEF H, effect
-----------------------------------------------------------------------------
(* What an instruction takes and leaves are numbers (validator.cpp checks  *)
(* every index that the tables are read at).                               *)
LEMMA UsesExist ==
  ASSUME NEW m, NEW d, HasCode(m, d), NEW at \in DOMAIN m.functions[d].code,
         KindOf(m.functions[d].code[at].op) # "none"
  PROVE  LET i == m.functions[d].code[at] IN
         /\ KindOf(i.op) \in Kinds
         /\ UseOf(m, i).of \in DOMAIN m.table[KindOf(i.op)]
<1> DEFINE f == m.functions[d]
           i == f.code[at]
           kind == KindOf(i.op)
<1> SUFFICES kind \in Kinds /\ UseOf(m, i).of \in DOMAIN m.table[kind]  OBVIOUS
<1>1. kind \in Kinds  BY DEF KindOf, Kinds
<1>2. InstructionOK(m, f, i)  BY CodeIsAccepted DEF CodeOK
<1>3. i.arg \in DOMAIN (IF i.generic THEN m.instances[kind] ELSE m.table[kind])
  BY <1>2 DEF InstructionOK
<1> HIDE DEF i
<1>4. CASE i.generic
  <2>1. UseOf(m, i) \in ToSet(m.instances[kind])  BY <1>3, <1>4 DEF UseOf, ToSet
  <2>2. InstancesOK(m)  BY SoundPasses DEF HasCode
  <2> QED  BY <1>1, <2>1, <2>2 DEF InstancesOK
<1>5. CASE ~ i.generic
  <2>1. UseOf(m, i).of = i.arg  BY <1>5 DEF UseOf, Instance
  <2> QED  BY <1>1, <1>3, <1>5, <2>1
<1> QED  BY <1>4, <1>5

LEMMA Arities ==
  ASSUME NEW m, NEW d, HasCode(m, d), NEW at \in DOMAIN m.functions[d].code
  PROVE  LET effect == StackEffect(CodeOf(m, m.functions[d])[at]) IN effect[1] \in Nat /\ effect[2] \in Nat
<1> DEFINE f == m.functions[d]
           i == f.code[at]
           c == CodeOf(m, f)[at]
           A == TableArity(m, f, i)
<1> SUFFICES StackEffect(c)[1] \in Nat /\ StackEffect(c)[2] \in Nat  OBVIOUS
<1>1. /\ Coded(f) /\ f.handle \in DOMAIN m.table.function /\ InstructionOK(m, f, i)
  BY CodeIsAccepted DEF CodeOK
<1>2. c.op = i.op /\ c.arity = IF i.op \in OwnArity THEN i.arity ELSE A  BY <1>1, CodeInstruction
<1>3. i.op \in AllOps /\ (i.op \in OwnArity => i.arity[1] \in Nat /\ i.arity[2] \in Nat)
  BY <1>1 DEF Coded, Range
<1>4. KindOf(i.op) # "none" => UseOf(m, i).of \in DOMAIN m.table[KindOf(i.op)]  BY UsesExist
<1>5. Loadable(m) /\ FieldHandlesOK(m)  BY SoundPasses DEF HasCode, Sound
<1>6. \A h \in DOMAIN m.table.function :
        /\ Len(m.table.function[h].parameters) \in Nat /\ Len(m.table.function[h].returns) \in Nat
        /\ DOMAIN m.table.function[h].parameters = 1 .. Len(m.table.function[h].parameters)
  <2> TAKE h \in DOMAIN m.table.function
  <2>1. m.table.function[h] \in Range(m.table.function)  BY DEF Range
  <2>2. m.table.function[h].parameters \in Seq(Types) /\ m.table.function[h].returns \in Seq(Types)
    BY <1>5, <2>1 DEF Loadable, FunctionsLoadable
  <2> QED  BY <2>2
<1>7. \A e \in DOMAIN m.table.struct :
        /\ Len(m.table.struct[e].fields) \in Nat
        /\ \A v \in DOMAIN m.table.struct[e].variants : Len(m.table.struct[e].variants[v].fields) \in Nat
  <2> TAKE e \in DOMAIN m.table.struct
  <2>1. m.table.struct[e] \in Range(m.table.struct)  BY DEF Range
  <2>2. Len(m.table.struct[e].fields) \in Nat
    BY <1>5, <2>1, LenProperties DEF Loadable, StructsLoadable, IsList
  <2>3. ASSUME NEW v \in DOMAIN m.table.struct[e].variants
        PROVE  Len(m.table.struct[e].variants[v].fields) \in Nat
    <3>1. m.table.struct[e].variants[v] \in Range(m.table.struct[e].variants)  BY DEF Range
    <3>2. IsList(m.table.struct[e].variants[v].fields)
      BY <1>5, <2>1, <3>1 DEF Loadable, StructsLoadable
    <3> QED  BY <3>2, LenProperties DEF IsList
  <2> QED  BY <2>2, <2>3
<1> DEFINE of == UseOf(m, i).of
<1> HIDE DEF i, c, f
<1>8. CASE i.op \in AsTablesSay
  <2>1. StackEffect(c) = c.arity
    BY <1>2, <1>8 DEF StackEffect, AsTablesSay, Consumers, Producers, OneForOne, OneForTwo, PairConsumers,
       Loads, Locals, Casts, Borrows, Arithmetic, BitOps, Comparisons
  <2>2. CASE i.op \in OwnArity  BY <1>2, <1>3, <2>1, <2>2
  <2>3. CASE i.op \notin OwnArity
    <3>0. StackEffect(c) = A  BY <1>2, <2>1, <2>3
    <3>1. CASE i.op = "Ret"
      <4>1. A = <<Len(m.table.function[f.handle].returns), 0>>  BY <3>1 DEF TableArity
      <4> QED  BY <1>1, <1>6, <3>0, <4>1
    <3>2. CASE i.op = "Call"
      <4>1. A = <<Len(m.table.function[of].parameters), Len(m.table.function[of].returns)>>
        BY <3>2 DEF TableArity
      <4>2. of \in DOMAIN m.table.function  BY <1>4, <3>2 DEF KindOf
      <4> QED  BY <1>6, <3>0, <4>1, <4>2
    <3>3. CASE i.op = "PackClosure"
      <4>1. A = <<Cardinality(i.captured), 1>>  BY <3>3 DEF TableArity
      <4>2. of \in DOMAIN m.table.function  BY <1>4, <3>3 DEF KindOf
      <4>3. i.captured \subseteq DOMAIN m.table.function[of].parameters
        BY <1>1, <3>3 DEF InstructionOK
      <4>4. IsFiniteSet(i.captured)
        <5>1. \A n \in Nat : IsFiniteSet(1 .. n)  BY FS_Interval
        <5>2. IsFiniteSet(DOMAIN m.table.function[of].parameters)  BY <1>6, <4>2, <5>1
        <5> QED  BY <4>3, <5>2, FS_Subset
      <4>5. Cardinality(i.captured) \in Nat  BY <4>4, FS_CardinalityType
      <4> QED  BY <3>0, <4>1, <4>5
    <3>4. CASE i.op \in {"Pack", "Unpack"}
      <4>1. KindOf(i.op) = "struct"  BY <3>4 DEF KindOf
      <4>2. of \in DOMAIN m.table.struct  BY <1>4, <4>1
      <4>3. A = IF i.op = "Pack" THEN <<Len(m.table.struct[of].fields), 1>> ELSE <<1, Len(m.table.struct[of].fields)>>
        BY <3>4, <4>1 DEF TableArity, DefinitionOf
      <4> QED  BY <1>7, <3>0, <4>2, <4>3
    <3>5. CASE i.op \in {"PackVariant", "UnpackVariant"}
      <4>1. KindOf(i.op) = "variant"  BY <3>5 DEF KindOf
      <4>2. of \in DOMAIN m.table.variant  BY <1>4, <4>1
      <4> DEFINE h == m.table.variant[of]
                 n == Len(m.table.struct[h.owner].variants[h.variant].fields)
      <4>3. h.owner \in DOMAIN m.table.struct /\ h.variant \in DOMAIN m.table.struct[h.owner].variants
        BY <1>5, <4>2 DEF FieldHandlesOK, ToSet
      <4>4. A = IF i.op = "PackVariant" THEN <<n, 1>> ELSE <<1, n>>
        BY <3>5, <4>1 DEF TableArity, DefinitionOf
      <4>5. n \in Nat  BY <1>7, <4>3
      <4> HIDE DEF n
      <4> QED  BY <3>0, <4>4, <4>5
    <3> QED  BY <1>8, <2>3, <3>1, <3>2, <3>3, <3>4, <3>5 DEF AsTablesSay, OwnArity
  <2> QED  BY <2>2, <2>3
<1>9. CASE i.op \notin AsTablesSay
  <2>1. StackEffect(c) \in {<<1, 0>>, <<0, 1>>, <<1, 1>>, <<2, 1>>, <<2, 0>>, <<3, 0>>, <<0, 0>>}
    BY <1>2, <1>3, <1>9 DEF StackEffect, AllOps
  <2> QED  BY <2>1
<1> QED  BY <1>8, <1>9 DEF f, i, c
-----------------------------------------------------------------------------
LEMMA GraphBlocks ==
  ASSUME NEW m, NEW f
  PROVE  /\ DOMAIN GraphIn(m, f) = BlockIds(FlowIn(m, f))
         /\ \A b \in BlockIds(FlowIn(m, f)) :
              /\ GraphIn(m, f)[b].begin = BlockStart(FlowIn(m, f), b)
              /\ GraphIn(m, f)[b].end = BlockEnd(FlowIn(m, f), b)
              /\ GraphIn(m, f)[b].successors = SuccessorsOf(FlowIn(m, f), b)
              /\ GraphIn(m, f)[b].exit = ExitKindOf(FlowIn(m, f), b)
<1> DEFINE c == FlowIn(m, f)
           ids == BlockIds(c)
           succ == [b \in ids |-> SuccessorsOf(c, b)]
           live == ReachableBlocks(succ)
<1>1. GraphIn(m, f) = [b \in ids |-> [begin        |-> BlockStart(c, b),
                                      end          |-> BlockEnd(c, b),
                                      successors   |-> succ[b],
                                      predecessors |-> PredecessorsOf(succ, b),
                                      exit         |-> ExitKindOf(c, b),
                                      reachable    |-> b \in live]]
  BY DEF GraphIn, buildControlFlowGraph
<1>2. \A b \in ids : succ[b] = SuccessorsOf(c, b)  OBVIOUS
<1> HIDE DEF succ, live, ids
<1>3. DOMAIN GraphIn(m, f) = ids  BY <1>1
<1>4. ASSUME NEW b \in ids
      PROVE  /\ GraphIn(m, f)[b].begin = BlockStart(c, b) /\ GraphIn(m, f)[b].end = BlockEnd(c, b)
             /\ GraphIn(m, f)[b].successors = SuccessorsOf(c, b) /\ GraphIn(m, f)[b].exit = ExitKindOf(c, b)
  BY <1>1, <1>2
<1> QED  BY <1>3, <1>4 DEF ids

LEMMA BlocksOfCode ==
  ASSUME NEW m, NEW d, HasCode(m, d), NEW b \in DOMAIN GraphIn(m, m.functions[d])
  PROVE  LET f == m.functions[d] IN
         BlockFits(CodeOf(m, f), GraphIn(m, f)[b], BlockCode(CodeOf(m, f), GraphIn(m, f)[b]))
<1> DEFINE f == m.functions[d]
           c == CodeOf(m, f)
           w == FlowIn(m, f)
           block == GraphIn(m, f)[b]
           I == BlockCode(c, block)
<1>1. /\ Coded(f) /\ DOMAIN c = DOMAIN f.code /\ DOMAIN w = DOMAIN f.code /\ Accepted(w) /\ CodeOK(m, f)
  BY CodeIsAccepted
<1>2. b \in BlockIds(w) /\ block.begin = BlockStart(w, b) /\ block.end = BlockEnd(w, b)  BY GraphBlocks
<1>3. /\ block.begin \in DOMAIN w /\ block.begin \in Nat /\ BlockOf(w, block.begin) = b
      /\ block.end - 1 \in DOMAIN w
  BY <1>1, <1>2, BlocksHaveLeaders, LeadersAreInstructions, BlocksEndInTheCode
<1>4. Size(w) \in Nat /\ DOMAIN w = 0 .. Size(w) - 1  BY <1>1, InstructionsAreNatural DEF Accepted, Unit
<1>5. block.begin \in block.begin .. block.end - 1  BY <1>1, <1>2, <1>3, BlocksPartition
<1>6. block.end \in Int
  <2>1. CASE b + 1 \in BlockIds(w)
    BY <1>1, <1>2, <2>1, BlocksHaveLeaders, LeadersAreInstructions DEF BlockEnd
  <2>2. CASE b + 1 \notin BlockIds(w)  BY <1>2, <1>4, <2>2 DEF BlockEnd
  <2> QED  BY <2>1, <2>2
<1>7. block.end \in Nat /\ block.begin < block.end  BY <1>3, <1>5, <1>6
<1>8. block.begin .. block.end - 1 \subseteq DOMAIN f.code  BY <1>1, <1>3, <1>4, <1>6
<1> HIDE DEF c, w, block
<1>9. /\ DOMAIN I = 1 .. block.end - block.begin
      /\ \A k \in DOMAIN I : I[k] = Annotated(c[block.begin + k - 1], [at |-> block.begin + k - 1])
  BY DEF BlockCode
<1>10. Len(I) = block.end - block.begin  BY <1>3, <1>7, <1>9
<1> HIDE DEF I
<1>11. ASSUME NEW k \in 1 .. Len(I)
       PROVE  /\ block.begin + k - 1 \in DOMAIN f.code
              /\ I[k].op = c[block.begin + k - 1].op /\ I[k].arg = c[block.begin + k - 1].arg
              /\ StackEffect(I[k]) = StackEffect(c[block.begin + k - 1])
              /\ StackEffect(I[k])[1] \in Nat /\ StackEffect(I[k])[2] \in Nat
  <2> DEFINE at == block.begin + k - 1
             i == c[at]
             a == [at |-> at]
  <2>1. at \in DOMAIN f.code  BY <1>3, <1>7, <1>8, <1>10
  <2>2. {"op", "arg", "generic", "arity"} \subseteq DOMAIN i /\ "at" \notin DOMAIN i
    BY <1>1, <2>1, CodeInstruction DEF c
  <2>3. I[k] = Annotated(i, a)  BY <1>9, <1>10
  <2>4. StackEffect(i)[1] \in Nat /\ StackEffect(i)[2] \in Nat  BY <2>1, Arities DEF c
  <2> HIDE DEF a, i, at
  <2>5. I[k]["op"] = i["op"] /\ I[k]["arg"] = i["arg"] /\ I[k]["arity"] = i["arity"]
    BY <2>2, <2>3 DEF Annotated
  <2>6. StackEffect(I[k]) = StackEffect(i)  BY <2>5 DEF StackEffect
  <2> QED  BY <2>1, <2>4, <2>5, <2>6 DEF at, i
<1>12. HeightAfter(I) = 0
  BY <1>1, <1>2, GraphBlocks DEF CodeOK, StackUsageOK, I, c, block, CodeOf, GraphIn, FlowIn
<1>13. BlockFits(c, block, I)  BY <1>1, <1>3, <1>7, <1>10, <1>11, <1>12 DEF BlockFits, Effects, c
<1> QED  BY <1>13 DEF c, block, I

(* An instruction in the code of its block.                                *)
LEMMA PlaceInBlock ==
  ASSUME NEW m, NEW d, HasCode(m, d), NEW at \in DOMAIN m.functions[d].code
  PROVE  LET f == m.functions[d]
             B == BlockIn(m, f, at)
             I == CodeIn(m, f, at)
             k == at - B.begin + 1
         IN  /\ at \in Nat /\ B.begin \in Nat /\ B.end \in Nat
             /\ BlockOf(FlowIn(m, f), at) \in DOMAIN GraphIn(m, f)
             /\ Len(I) \in Nat /\ Effects(I) /\ HeightAfter(I) = 0 /\ k \in 1 .. Len(I)
             /\ I[k].op = CodeOf(m, f)[at].op /\ I[k].arg = CodeOf(m, f)[at].arg
             /\ StackEffect(I[k]) = StackEffect(CodeOf(m, f)[at])
             /\ at + 1 = B.end => k = Len(I)
<1> DEFINE f == m.functions[d]
           w == FlowIn(m, f)
           b == BlockOf(w, at)
           B == BlockIn(m, f, at)
           I == CodeIn(m, f, at)
           k == at - B.begin + 1
<1>1. DOMAIN w = DOMAIN f.code /\ Accepted(w)  BY CodeIsAccepted
<1>2. at \in Nat /\ b \in BlockIds(w)  BY <1>1, InstructionsAreNatural, BlockOfIsABlock
<1>3. b \in DOMAIN GraphIn(m, f) /\ B.begin = BlockStart(w, b) /\ B.end = BlockEnd(w, b)
  BY <1>2, GraphBlocks DEF BlockIn
<1>4. /\ B.begin \in Nat /\ B.end \in Nat /\ Len(I) = B.end - B.begin /\ Effects(I) /\ HeightAfter(I) = 0
      /\ \A j \in 1 .. Len(I) :
           /\ I[j].op = CodeOf(m, f)[B.begin + j - 1].op /\ I[j].arg = CodeOf(m, f)[B.begin + j - 1].arg
           /\ StackEffect(I[j]) = StackEffect(CodeOf(m, f)[B.begin + j - 1])
  <2>1. B = GraphIn(m, f)[b] /\ I = BlockCode(CodeOf(m, f), GraphIn(m, f)[b])  BY DEF BlockIn, CodeIn
  <2> HIDE DEF b, B, I
  <2>2. BlockFits(CodeOf(m, f), GraphIn(m, f)[b], BlockCode(CodeOf(m, f), GraphIn(m, f)[b]))
    BY <1>3, BlocksOfCode
  <2>3. BlockFits(CodeOf(m, f), B, I)  BY <2>1, <2>2
  <2> QED  BY <2>3 DEF BlockFits
<1>5. at \in B.begin .. B.end - 1  BY <1>1, <1>2, <1>3, BlocksPartition
<1> HIDE DEF B, I, w, f
<1>6. /\ k \in 1 .. Len(I) /\ B.begin + k - 1 = at /\ Len(I) \in Nat
      /\ at + 1 = B.end => k = Len(I)
  BY <1>2, <1>4, <1>5
<1>7. /\ I[k].op = CodeOf(m, f)[at].op /\ I[k].arg = CodeOf(m, f)[at].arg
      /\ StackEffect(I[k]) = StackEffect(CodeOf(m, f)[at])
  BY <1>4, <1>6
<1> QED  BY <1>2, <1>3, <1>4, <1>6, <1>7 DEF B, I, w, f

(* Where control goes next, seen from the blocks: on in the block, or from *)
(* the end of it to the beginning of one that an edge leads to.            *)
LEMMA PlacesInBlocks ==
  ASSUME NEW m, NEW d, HasCode(m, d), NEW at \in DOMAIN m.functions[d].code,
         NEW j \in NextPlaces(FlowIn(m, m.functions[d]), at)
  PROVE  LET f == m.functions[d]
             B == BlockIn(m, f, at)
         IN  /\ j \in DOMAIN f.code
             /\ \/ j = at + 1 /\ BlockOf(FlowIn(m, f), j) = BlockOf(FlowIn(m, f), at)
                \/ /\ at + 1 = B.end /\ j = BlockIn(m, f, j).begin
                   /\ BlockOf(FlowIn(m, f), j) \in Targets(B.successors)
<1> DEFINE f == m.functions[d]
           w == FlowIn(m, f)
<1>1. DOMAIN w = DOMAIN f.code /\ Accepted(w) /\ CodeOK(m, f)  BY CodeIsAccepted
<1>2. at \in Nat /\ BlockOf(w, at) \in BlockIds(w)  BY <1>1, InstructionsAreNatural, BlockOfIsABlock
<1>3. \A b \in BlockIds(w) : ExitKindOf(w, b) # "FallOff"
  <2>1. \A b \in DOMAIN GraphIn(m, f) : GraphIn(m, f)[b].exit # "FallOff"
    BY <1>1 DEF CodeOK, GraphIn, FlowIn, CodeOf
  <2> QED  BY <2>1, GraphBlocks
<1>4. /\ j \in DOMAIN w
      /\ \/ /\ j = at + 1 /\ BlockOf(w, j) = BlockOf(w, at)
         \/ /\ BlockEnd(w, BlockOf(w, at)) = at + 1 /\ BlockStart(w, BlockOf(w, j)) = j
            /\ BlockOf(w, j) \in Targets(SuccessorsOf(w, BlockOf(w, at)))
  BY <1>1, <1>3, PlacesFollowEdges
<1>5. BlockOf(w, j) \in BlockIds(w)  BY <1>1, <1>4, InstructionsAreNatural, BlockOfIsABlock
<1> QED  BY <1>1, <1>2, <1>4, <1>5, GraphBlocks DEF BlockIn

HeightsGoOn(m, f, at) ==
  \A j \in NextPlaces(FlowIn(m, f), at) :
    HeightAt(m, f, j) = HeightAt(m, f, at) - StackEffect(CodeOf(m, f)[at])[1] + StackEffect(CodeOf(m, f)[at])[2]

LEMMA HeightsFit ==
  ASSUME NEW m, NEW d, HasCode(m, d), NEW at \in DOMAIN m.functions[d].code
  PROVE  LET f == m.functions[d]
             i == CodeOf(m, f)[at]
             effect == StackEffect(i)
         IN  /\ effect[1] \in Nat /\ effect[2] \in Nat
             /\ HeightAt(m, f, at) \in Nat /\ HeightAt(m, f, at) >= effect[1]
             /\ i.op = "Ret" => HeightAt(m, f, at) = effect[1]
             /\ HeightsGoOn(m, f, at)
<1> DEFINE f == m.functions[d]
           i == CodeOf(m, f)[at]
           effect == StackEffect(i)
           B == BlockIn(m, f, at)
           I == CodeIn(m, f, at)
           k == at - B.begin + 1
<1>1. /\ at \in Nat /\ B.begin \in Nat /\ B.end \in Nat /\ Len(I) \in Nat
      /\ Effects(I) /\ HeightAfter(I) = 0 /\ k \in 1 .. Len(I)
      /\ StackEffect(I[k]) = effect /\ (at + 1 = B.end => k = Len(I))
  BY PlaceInBlock
<1>2. effect[1] \in Nat /\ effect[2] \in Nat  BY Arities
<1>3. HeightAt(m, f, at) = Heights(I)[k - 1]
  <2>1. k - 1 = at - B.begin  BY <1>1
  <2> QED  BY <2>1 DEF HeightAt
<1> HIDE DEF I, k, effect
<1>4. /\ Heights(I)[k - 1] \in Nat /\ Heights(I)[k - 1] >= effect[1]
      /\ Heights(I)[k] = Heights(I)[k - 1] - effect[1] + effect[2]
  BY <1>1, NothingUnderflows
<1>5. ASSUME i.op = "Ret" PROVE HeightAt(m, f, at) = effect[1]
  <2>1. /\ Coded(f) /\ Accepted(FlowIn(m, f)) /\ DOMAIN FlowIn(m, f) = DOMAIN f.code
        /\ i.op = f.code[at].op /\ DOMAIN CodeOf(m, f) = DOMAIN f.code
    BY CodeIsAccepted, CodeInstruction
  <2>2. effect[2] = 0
    <3>1. i.arity = TableArity(m, f, f.code[at])  BY <1>5, <2>1, CodeInstruction DEF OwnArity
    <3>2. TableArity(m, f, f.code[at])[2] = 0  BY <1>5, <2>1 DEF TableArity
    <3>3. effect = i.arity
      BY <1>5 DEF effect, StackEffect, AsTablesSay, Consumers, Producers, OneForOne, OneForTwo, PairConsumers,
         Loads, Locals, Casts, Borrows, Arithmetic, BitOps, Comparisons
    <3> QED  BY <3>1, <3>2, <3>3
  <2>3. FlowIn(m, f)[at].op = "Ret"  BY <1>5, <2>1 DEF FlowIn, FlowOf, Opcodes
  <2>4. BlockEnd(FlowIn(m, f), BlockOf(FlowIn(m, f), at)) - 1 = at
    BY <2>1, <2>3, TerminatorsEndBlocks DEF Terminator
  <2>5. BlockEnd(FlowIn(m, f), BlockOf(FlowIn(m, f), at)) = B.end
    BY <2>1, InstructionsAreNatural, BlockOfIsABlock, GraphBlocks DEF BlockIn
  <2>6. at + 1 = B.end  BY <1>1, <2>4, <2>5
  <2>7. Heights(I)[k] = 0  BY <1>1, <2>6 DEF HeightAfter
  <2> QED  BY <1>2, <1>3, <1>4, <2>2, <2>7
<1>6. ASSUME NEW j \in NextPlaces(FlowIn(m, f), at)
      PROVE  HeightAt(m, f, j) = HeightAt(m, f, at) - effect[1] + effect[2]
  <2>1. CASE j = at + 1 /\ BlockOf(FlowIn(m, f), j) = BlockOf(FlowIn(m, f), at)
    <3>1. BlockIn(m, f, j) = B /\ CodeIn(m, f, j) = I  BY <2>1 DEF BlockIn, CodeIn, I
    <3>2. j - B.begin = k  BY <1>1, <2>1 DEF k
    <3> QED  BY <1>3, <1>4, <3>1, <3>2 DEF HeightAt
  <2>2. CASE at + 1 = B.end /\ j = BlockIn(m, f, j).begin
    <3>1. Heights(I)[k] = 0  BY <1>1, <2>2 DEF HeightAfter
    <3>2. j \in DOMAIN f.code  BY PlacesInBlocks
    <3>3. /\ j \in Nat /\ Len(CodeIn(m, f, j)) \in Nat /\ Effects(CodeIn(m, f, j))
          /\ j - BlockIn(m, f, j).begin = 0
      <4>1. j \in Nat /\ Len(CodeIn(m, f, j)) \in Nat /\ Effects(CodeIn(m, f, j))  BY <3>2, PlaceInBlock
      <4> QED  BY <2>2, <4>1
    <3>4. Heights(CodeIn(m, f, j))[0] = 0  BY <3>3, HeightsUnfold
    <3> QED  BY <1>3, <1>4, <3>1, <3>3, <3>4 DEF HeightAt
  <2> QED  BY <2>1, <2>2, PlacesInBlocks
<1>7. HeightsGoOn(m, f, at)
  BY <1>6 DEF HeightsGoOn, effect
<1> QED  BY <1>2, <1>3, <1>4, <1>5, <1>7 DEF effect

(* The code is entered with nothing on the stack.                          *)
LEMMA EntryHeight ==
  ASSUME NEW m, NEW d, HasCode(m, d)
  PROVE  /\ 0 \in DOMAIN m.functions[d].code /\ BlockIn(m, m.functions[d], 0).begin = 0
         /\ HeightAt(m, m.functions[d], 0) = 0
<1> DEFINE f == m.functions[d]
           w == FlowIn(m, f)
<1>1. DOMAIN w = DOMAIN f.code /\ Accepted(w)  BY CodeIsAccepted
<1>2. 0 \in Leaders(w) /\ 0 \in DOMAIN w  BY <1>1, LeadersAreInstructions
<1>3. BlockStart(w, BlockOf(w, 0)) = 0 /\ BlockOf(w, 0) \in BlockIds(w)
  BY <1>1, <1>2, LeaderStartsItsBlock, BlockOfIsABlock
<1>4. BlockIn(m, f, 0).begin = 0  BY <1>3, GraphBlocks DEF BlockIn
<1>5. Len(CodeIn(m, f, 0)) \in Nat /\ Effects(CodeIn(m, f, 0))  BY <1>1, <1>2, PlaceInBlock
<1>6. Heights(CodeIn(m, f, 0))[0] = 0  BY <1>5, HeightsUnfold
<1>7. HeightAt(m, f, 0) = Heights(CodeIn(m, f, 0))[0]  BY <1>4 DEF HeightAt
<1> QED  BY <1>1, <1>2, <1>4, <1>6, <1>7
-----------------------------------------------------------------------------
(* The locals that have a value, instruction by instruction.               *)
LEMMA AvailableUnfolds ==
  ASSUME NEW I, Len(I) \in Nat, NEW have
  PROVE  /\ Available(I, have)[0] = have
         /\ \A k \in 1 .. Len(I) : Available(I, have)[k] = AfterInstruction(Available(I, have)[k - 1], I[k])
<1> DEFINE n == Len(I)
           S == SUBSET (have \cup {I[k].arg : k \in 1 .. n})
           step == [p \in S \X (0 .. n - 1) |-> AfterInstruction(p[1], I[p[2] + 1])]
           Eq(h) == h = [k \in 0 .. n |-> IF k = 0 THEN have ELSE AfterInstruction(h[k - 1], I[k])]
<1>1. step \in [S \X (0 .. n - 1) -> S] /\ have \in S
  <2>1. ASSUME NEW p \in S \X (0 .. n - 1) PROVE AfterInstruction(p[1], I[p[2] + 1]) \in S
    <3>1. p[1] \in S /\ p[2] + 1 \in 1 .. n  OBVIOUS
    <3> QED  BY <3>1 DEF AfterInstruction
  <2> QED  BY <2>1
<1>2. PICK f : LoopsTo(f, n, S, step, have)
  <2>1. n \in Nat  OBVIOUS
  <2> HIDE DEF step, n, S
  <2> QED  BY <1>1, <2>1, LoopToExists
<1>3. Eq(f)
  <2>1. f \in [0 .. n -> S] /\ f[0] = have  BY <1>2 DEF LoopsTo
  <2>2. ASSUME NEW k \in 1 .. n PROVE f[k] = AfterInstruction(f[k - 1], I[k])
    <3>1. k - 1 \in 0 .. n - 1 /\ k - 1 + 1 = k /\ f[k - 1] \in S  BY <2>1
    <3>2. f[k] = step[<<f[k - 1], k - 1>>]  BY <1>2, <3>1 DEF LoopsTo
    <3> HIDE DEF S
    <3> QED  BY <3>1, <3>2
  <2> HIDE DEF S
  <2> QED  BY <2>1, <2>2
<1>4. Available(I, have) = CHOOSE h : Eq(h)  BY DEF Available
<1> HIDE DEF Eq
<1>5. Eq(Available(I, have))  BY <1>3, <1>4
<1>6. 0 \in 0 .. n /\ 1 .. n \subseteq 0 .. n /\ \A k \in 1 .. n : k # 0  OBVIOUS
<1> QED  BY <1>5, <1>6 DEF Eq

(* What MustAvailable comes to is kept by a further round: in the first    *)
(* block no more than the parameters, and in any other what every block    *)
(* that leads to it leaves (local_analysis.cpp, the fixed point).          *)
LEMMA MustIsKept ==
  ASSUME NEW f, NEW g, IsFiniteSet(DOMAIN g), IsFiniteSet(DOMAIN f.locals)
  PROVE  LET must == MustAvailable(f, g) IN
         /\ DOMAIN must = DOMAIN g
         /\ \A b \in DOMAIN g : must[b] \subseteq DOMAIN f.locals
         /\ 0 \in DOMAIN g => \A l \in must[0] : l < f.parameters
         /\ \A b \in DOMAIN g : g[b].reachable =>
              \A s \in Targets(g[b].successors) \cap DOMAIN g :
                must[s] \subseteq AvailableAfter(BlockCode(f.code, g[b]), must[b])
<1> DEFINE all == (DOMAIN g) \X (DOMAIN f.locals)
           step == [pairs \in SUBSET all |-> Kept(f, g, pairs)]
           Eq(h) == h = [k \in Nat |-> IF k = 0 THEN all ELSE Kept(f, g, h[k - 1])]
           last == Iterate(LAMBDA pairs : Kept(f, g, pairs), all, Cardinality(all))
           must == MustAvailable(f, g)
<1>1. IsFiniteSet(all)  BY FS_Product
<1>2. ASSUME NEW X \in SUBSET all PROVE Kept(f, g, X) \in SUBSET X  BY DEF Kept
<1>3. step \in [SUBSET all -> SUBSET all] /\ \A X \in SUBSET all : step[X] \subseteq X
  <2>1. \A X \in SUBSET all : Kept(f, g, X) \in SUBSET all  BY <1>2
  <2> HIDE DEF all
  <2> QED  BY <1>2, <2>1
<1>4. PICK r : Iterates(r, SUBSET all, step, all)
  <2>1. all \in SUBSET all  OBVIOUS
  <2> HIDE DEF all, step
  <2> QED  BY <1>3, <2>1, IterationExists
<1> DEFINE done == CHOOSE h : Eq(h)
<1>5. last = done[Cardinality(all)]  BY DEF Iterate
<1> HIDE DEF all, last
<1>6. Eq(r)
  <2>1. ASSUME NEW k \in Nat PROVE r[k] = IF k = 0 THEN all ELSE Kept(f, g, r[k - 1])
    <3>1. CASE k = 0  BY <1>4, <3>1 DEF Iterates
    <3>2. CASE k # 0
      <4>1. k - 1 \in Nat /\ k - 1 + 1 = k  BY <3>2
      <4>2. r[k] = step[r[k - 1]] /\ r[k - 1] \in SUBSET all  BY <1>4, <4>1 DEF Iterates
      <4> QED  BY <3>2, <4>2
    <3> QED  BY <3>1, <3>2
  <2> QED  BY <1>4, <2>1 DEF Iterates
<1>7. Iterates(done, SUBSET all, step, all)
  <2> HIDE DEF Eq, step
  <2>1. Eq(done)  BY <1>6
  <2>2. ASSUME NEW k \in Nat PROVE done[k] = r[k]
    <3> DEFINE T == {j \in Nat : done[j] = r[j]}
    <3>1. 0 \in T  BY <1>6, <2>1 DEF Eq
    <3>2. ASSUME NEW j \in Nat, j \in T PROVE j + 1 \in T
      <4>1. j + 1 \in Nat /\ j + 1 # 0 /\ j + 1 - 1 = j  OBVIOUS
      <4>2. done[j + 1] = Kept(f, g, done[j]) /\ r[j + 1] = Kept(f, g, r[j])
        BY <1>6, <2>1, <4>1 DEF Eq
      <4> QED  BY <3>2, <4>1, <4>2
    <3> HIDE DEF T
    <3>3. k \in T  BY <3>1, <3>2, NatClosed
    <3> QED  BY <3>3 DEF T
  <2>3. DOMAIN done = Nat /\ DOMAIN r = Nat /\ done = [k \in Nat |-> done[k]] /\ r = [k \in Nat |-> r[k]]
    BY <1>4, <1>6, <2>1 DEF Eq, Iterates
  <2> HIDE DEF done
  <2>4. done = r  BY <2>2, <2>3
  <2> QED  BY <1>4, <2>4
<1> HIDE DEF step, done
<1>8. last \in SUBSET all /\ step[last] = last  BY <1>1, <1>3, <1>5, <1>7, LosingSettles
<1>9. Kept(f, g, last) = last  BY <1>8 DEF step
<1>10. must = [b \in DOMAIN g |-> Of(last, b)]  BY DEF MustAvailable, Of, last, all
<1>11. \A b \in DOMAIN g : must[b] = Of(last, b)  BY <1>10
<1>12. ASSUME NEW b \in DOMAIN g, NEW l PROVE l \in must[b] <=> <<b, l>> \in last
  <2>1. ASSUME l \in must[b] PROVE <<b, l>> \in last
    <3>1. PICK p \in last : p[1] = b /\ l = p[2]  BY <1>11, <2>1 DEF Of
    <3>2. p = <<b, l>>  BY <1>8, <3>1 DEF all
    <3> QED  BY <3>1, <3>2
  <2>2. ASSUME <<b, l>> \in last PROVE l \in must[b]
    <3>1. <<b, l>>[1] = b /\ <<b, l>>[2] = l  OBVIOUS
    <3> QED  BY <1>11, <2>2, <3>1 DEF Of
  <2> QED  BY <2>1, <2>2
<1>13. ASSUME NEW b \in DOMAIN g, NEW l \in must[b] PROVE l \in DOMAIN f.locals
  <2>1. <<b, l>> \in all  BY <1>8, <1>12
  <2> QED  BY <2>1 DEF all
<1> DEFINE out == UNION {{<<b, l>> : l \in AvailableAfter(BlockCode(f.code, g[b]), Of(last, b))} : b \in DOMAIN g}
<1>14. last = {p \in last : /\ p[1] = 0 => p[2] < f.parameters
                            /\ \A b \in DOMAIN g :
                                 g[b].reachable /\ p[1] \in Targets(g[b].successors) => <<b, p[2]>> \in out}
  BY <1>9 DEF Kept, Of
<1>15. ASSUME 0 \in DOMAIN g, NEW l \in must[0] PROVE l < f.parameters
  <2>1. <<0, l>> \in last  BY <1>12, <1>15
  <2>2. <<0, l>>[1] = 0 /\ <<0, l>>[2] = l  OBVIOUS
  <2> HIDE DEF out
  <2> QED  BY <1>14, <2>1, <2>2
<1>16. ASSUME NEW b \in DOMAIN g, g[b].reachable, NEW s \in Targets(g[b].successors) \cap DOMAIN g,
              NEW l \in must[s]
       PROVE  l \in AvailableAfter(BlockCode(f.code, g[b]), must[b])
  <2>1. <<s, l>> \in last  BY <1>12
  <2>2. <<s, l>>[1] = s /\ <<s, l>>[2] = l  OBVIOUS
  <2>3. <<b, l>> \in out
    <3> HIDE DEF out
    <3> QED  BY <1>14, <1>16, <2>1, <2>2
  <2>4. PICK e \in DOMAIN g :
          <<b, l>> \in {<<e, x>> : x \in AvailableAfter(BlockCode(f.code, g[e]), Of(last, e))}
    BY <2>3
  <2>5. e = b /\ l \in AvailableAfter(BlockCode(f.code, g[b]), Of(last, b))  BY <2>4
  <2> QED  BY <1>11, <2>5
<1> HIDE DEF out, must
<1>17. DOMAIN must = DOMAIN g  BY <1>10
<1> QED  BY <1>13, <1>15, <1>16, <1>17 DEF must

LEMMA LocalsAreCounted ==
  ASSUME NEW m, NEW d, HasCode(m, d)
  PROVE  LET f == m.functions[d]
             n == Len(LocalTypes(m, f))
         IN  /\ n \in Nat /\ Len(m.table.function[f.handle].parameters) \in 0 .. n
             /\ DOMAIN LocalTypes(m, f) = 1 .. n
             /\ DOMAIN Body(m, f).locals = 0 .. n - 1 /\ IsFiniteSet(DOMAIN Body(m, f).locals)
             /\ Body(m, f).parameters = Len(m.table.function[f.handle].parameters)
             /\ Body(m, f).code = CodeOf(m, f)
<1> DEFINE f == m.functions[d]
           p == m.table.function[f.handle].parameters
           n == Len(LocalTypes(m, f))
<1>1. /\ Loadable(m) /\ f \in Range(m.functions) /\ f.handle \in DOMAIN m.table.function
  BY CodeIsAccepted DEF HasCode, Sound
<1>2. m.table.function[f.handle] \in Range(m.table.function)  BY <1>1 DEF Range
<1>3. p \in Seq(Types) /\ f.locals \in Seq(Types)  BY <1>1, <1>2 DEF Loadable, FunctionsLoadable
<1>4. LocalTypes(m, f) = p \o f.locals  BY DEF LocalTypes
<1> HIDE DEF p, f
<1>5. /\ n \in Nat /\ Len(p) \in 0 .. n /\ DOMAIN LocalTypes(m, f) = 1 .. n
  BY <1>3, <1>4, ConcatProperties, LenProperties
<1>6. \A k \in Nat : IsFiniteSet(0 .. k - 1)  BY FS_Interval
<1>7. DOMAIN Body(m, f).locals = 0 .. n - 1 /\ Body(m, f).parameters = Len(p) /\ Body(m, f).code = CodeOf(m, f)
  BY DEF Body, CodeOf, p
<1> QED  BY <1>5, <1>6, <1>7 DEF p, f

LEMMA HavesFit ==
  ASSUME NEW m, NEW d, HasCode(m, d), NEW at \in Spots(m, m.functions[d])
  PROVE  LET f == m.functions[d]
             i == CodeOf(m, f)[at]
         IN  /\ i.op \in Locals => i.arg \in HaveAt(m, f, at)
             /\ \A j \in NextPlaces(FlowIn(m, f), at) :
                  j \in Spots(m, f) /\ HaveAt(m, f, j) \subseteq AfterInstruction(HaveAt(m, f, at), i)
<1> DEFINE f == m.functions[d]
           i == CodeOf(m, f)[at]
           w == FlowIn(m, f)
           g == GraphIn(m, f)
           b == BlockOf(w, at)
           B == BlockIn(m, f, at)
           I == CodeIn(m, f, at)
           k == at - B.begin + 1
           must == MustIn(m, f)
           have == Available(I, must[b])
<1>0. at \in DOMAIN f.code /\ B.reachable  BY DEF Spots
<1>1. /\ at \in Nat /\ B.begin \in Nat /\ Len(I) \in Nat /\ k \in 1 .. Len(I) /\ b \in DOMAIN g
      /\ I[k].op = i.op /\ I[k].arg = i.arg /\ (at + 1 = B.end => k = Len(I))
  BY <1>0, PlaceInBlock
<1>2. Accepted(w) /\ CodeOK(m, f) /\ DOMAIN w = DOMAIN f.code  BY CodeIsAccepted
<1>3. B = g[b] /\ I = BlockCode(CodeOf(m, f), g[b])  BY DEF BlockIn, CodeIn
<1>4. DOMAIN g = BlockIds(w) /\ IsFiniteSet(DOMAIN g)
  <2>1. Cardinality(Leaders(w)) \in Nat  BY <1>2, LeadersAreInstructions
  <2>2. \A n \in Nat : IsFiniteSet(0 .. n - 1)  BY FS_Interval
  <2>3. DOMAIN g = BlockIds(w)  BY GraphBlocks
  <2> QED  BY <2>1, <2>2, <2>3 DEF BlockIds
<1>5. \A s \in Targets(g[b].successors) \cap DOMAIN g : must[s] \subseteq AvailableAfter(I, must[b])
  <2>1. IsFiniteSet(DOMAIN Body(m, f).locals) /\ Body(m, f).code = CodeOf(m, f)  BY LocalsAreCounted
  <2>2. \A e \in DOMAIN g : g[e].reachable =>
          \A s \in Targets(g[e].successors) \cap DOMAIN g :
            must[s] \subseteq AvailableAfter(BlockCode(Body(m, f).code, g[e]), must[e])
    BY <1>4, <2>1, MustIsKept DEF MustIn
  <2> QED  BY <1>0, <1>1, <1>3, <2>1, <2>2
<1>6. ReadsFindValues(I, must[b])
  <2>1. ~ LocalsRefused(Body(m, f), g)  BY <1>2 DEF CodeOK, GraphIn, FlowIn, CodeOf
  <2>2. Body(m, f).code = CodeOf(m, f)  BY LocalsAreCounted
  <2>3. \A e \in DOMAIN g : g[e].reachable => ReadsFindValues(BlockCode(Body(m, f).code, g[e]), must[e])
    BY <2>1 DEF LocalsRefused, MustIn
  <2> QED  BY <1>0, <1>1, <1>3, <2>2, <2>3
<1>7. /\ b \in DOMAIN g /\ g[b].reachable
      /\ \A s \in Targets(g[b].successors) : s \in DOMAIN g /\ g[s].reachable
  <2>1. g = buildControlFlowGraph(w)  BY DEF GraphIn
  <2>2. b \in DOMAIN g /\ g[b].reachable  BY <1>0, <1>1, <1>3
  <2> HIDE DEF g, w, b
  <2> QED  BY <1>2, <2>1, <2>2, FloodedGraph
<1>8. HaveAt(m, f, at) = have[k - 1]
  <2>1. k - 1 = at - B.begin  BY <1>1
  <2> QED  BY <2>1 DEF HaveAt
<1>9. /\ have[0] = must[b]
      /\ have[k] = AfterInstruction(have[k - 1], I[k])
  BY <1>1, AvailableUnfolds
<1>10. AfterInstruction(have[k - 1], I[k]) = AfterInstruction(have[k - 1], i)  BY <1>1 DEF AfterInstruction
<1>11. ASSUME i.op \in Locals PROVE i.arg \in have[k - 1]
  <2>1. k \in DOMAIN I
    <3>1. DOMAIN I = 1 .. B.end - B.begin  BY <1>3 DEF BlockCode
    <3>2. Len(I) = B.end - B.begin
      <4>1. BlockFits(CodeOf(m, f), g[b], BlockCode(CodeOf(m, f), g[b]))  BY <1>1, BlocksOfCode
      <4> QED  BY <1>3, <4>1 DEF BlockFits
    <3> QED  BY <1>1, <3>1, <3>2
  <2> QED  BY <1>1, <1>6, <1>11, <2>1 DEF ReadsFindValues
<1>12. ASSUME NEW j \in NextPlaces(w, at)
       PROVE  j \in Spots(m, f) /\ HaveAt(m, f, j) \subseteq AfterInstruction(have[k - 1], i)
  <2>0. j \in DOMAIN f.code  BY <1>0, PlacesInBlocks
  <2>1. CASE j = at + 1 /\ BlockOf(w, j) = b
    <3>1. BlockIn(m, f, j) = B /\ CodeIn(m, f, j) = I  BY <2>1 DEF BlockIn, CodeIn
    <3>2. j - B.begin = k  BY <1>1, <2>1
    <3>3. HaveAt(m, f, j) = have[k]  BY <2>1, <3>1, <3>2 DEF HaveAt
    <3>4. j \in Spots(m, f)  BY <1>0, <2>0, <3>1 DEF Spots
    <3> QED  BY <1>9, <1>10, <3>3, <3>4
  <2>2. CASE at + 1 = B.end /\ j = BlockIn(m, f, j).begin /\ BlockOf(w, j) \in Targets(B.successors)
    <3> DEFINE s == BlockOf(w, j)
               J == CodeIn(m, f, j)
    <3>1. s \in DOMAIN g /\ g[s].reachable  BY <1>3, <1>7, <2>2
    <3>2. j \in Spots(m, f)  BY <2>0, <3>1 DEF Spots, BlockIn
    <3>3. j \in Nat /\ Len(J) \in Nat /\ j - BlockIn(m, f, j).begin = 0
      <4>1. j \in Nat /\ Len(J) \in Nat  BY <2>0, PlaceInBlock
      <4> QED  BY <2>2, <4>1
    <3>4. HaveAt(m, f, j) = must[s]  BY <3>3, AvailableUnfolds DEF HaveAt
    <3>5. must[s] \subseteq AvailableAfter(I, must[b])  BY <1>3, <1>5, <2>2, <3>1
    <3>6. AvailableAfter(I, must[b]) = have[k]  BY <1>1, <2>2 DEF AvailableAfter
    <3> QED  BY <1>9, <1>10, <3>2, <3>4, <3>5, <3>6
  <2> QED  BY <1>0, <2>1, <2>2, PlacesInBlocks
<1> HIDE DEF have, k, I, i, w
<1> QED  BY <1>8, <1>11, <1>12 DEF i, w

(* A function is entered with values in its parameters only.               *)
LEMMA EntryHas ==
  ASSUME NEW m, NEW d, HasCode(m, d)
  PROVE  LET f == m.functions[d] IN
         /\ 0 \in Spots(m, f)
         /\ \A l \in HaveAt(m, f, 0) : l \in DOMAIN Body(m, f).locals /\ l < Body(m, f).parameters
<1> DEFINE f == m.functions[d]
           w == FlowIn(m, f)
           g == GraphIn(m, f)
<1>1. Accepted(w) /\ DOMAIN w = DOMAIN f.code  BY CodeIsAccepted
<1>2. 0 \in DOMAIN f.code /\ BlockIn(m, f, 0).begin = 0  BY EntryHeight
<1>3. BlockOf(w, 0) = 0  BY <1>1, StartsInFirstBlock
<1>4. 0 \in DOMAIN g /\ g[0].reachable
  <2>1. g = buildControlFlowGraph(w)  BY DEF GraphIn
  <2> HIDE DEF g, w
  <2> QED  BY <1>1, <2>1, FloodedGraph
<1>5. 0 \in Spots(m, f)  BY <1>2, <1>3, <1>4 DEF Spots, BlockIn
<1>6. Len(CodeIn(m, f, 0)) \in Nat  BY <1>2, PlaceInBlock
<1>7. HaveAt(m, f, 0) = MustIn(m, f)[0]  BY <1>2, <1>3, <1>6, AvailableUnfolds DEF HaveAt
<1>8. IsFiniteSet(DOMAIN g)
  <2>1. Cardinality(Leaders(w)) \in Nat  BY <1>1, LeadersAreInstructions
  <2>2. \A n \in Nat : IsFiniteSet(0 .. n - 1)  BY FS_Interval
  <2>3. DOMAIN g = BlockIds(w)  BY GraphBlocks
  <2> QED  BY <2>1, <2>2, <2>3 DEF BlockIds
<1>9. IsFiniteSet(DOMAIN Body(m, f).locals)  BY LocalsAreCounted
<1>10. MustIn(m, f)[0] \subseteq DOMAIN Body(m, f).locals /\ \A l \in MustIn(m, f)[0] : l < Body(m, f).parameters
  BY <1>4, <1>8, <1>9, MustIsKept DEF MustIn
<1> QED  BY <1>5, <1>7, <1>10
-----------------------------------------------------------------------------
LEMMA NoValueIsNone ==
  NoValue \notin Values
<1>1. Len(NoValue) = 1  BY DEF NoValue
<1>2. \A v \in {"constant", "argument"} \X Nat : Len(v) = 2
  <2> TAKE v \in {"constant", "argument"} \X Nat
  <2>1. v = <<v[1], v[2]>>  OBVIOUS
  <2> QED  BY <2>1
<1>3. \A v \in {"event"} \X Nat \X Nat : Len(v) = 3
  <2> TAKE v \in {"event"} \X Nat \X Nat
  <2>1. v = <<v[1], v[2], v[3]>>  OBVIOUS
  <2> QED  BY <2>1
<1> QED  BY <1>1, <1>2, <1>3 DEF Values

(* Where control goes, by the opcode.                                      *)
LEMMA PlacesOfOps ==
  ASSUME NEW m, NEW d, HasCode(m, d), NEW at \in DOMAIN m.functions[d].code
  PROVE  LET f == m.functions[d]
             i == CodeOf(m, f)[at]
         IN  /\ i.op \in {"Branch", "BrTrue", "BrFalse"} => i.arg \in NextPlaces(FlowIn(m, f), at)
             /\ i.op \notin {"Branch", "Ret", "Abort", "AbortMsg"} => at + 1 \in NextPlaces(FlowIn(m, f), at)
<1> DEFINE f == m.functions[d]
           c == CodeOf(m, f)
           i == c[at]
           flow == FlowIn(m, f)[at]
<1>1. at \in DOMAIN c  BY CodeIsAccepted
<1> HIDE DEF c
<1>2. /\ flow.target = IF i.op \in {"Branch", "BrTrue", "BrFalse"} THEN i.arg ELSE NoTarget
      /\ flow.op = CASE i.op \in Opcodes -> i.op [] i.op = "AbortMsg" -> "Abort" [] OTHER -> "Plain"
  BY <1>1 DEF FlowIn, FlowOf, c
<1>3. ASSUME i.op \in {"Branch", "BrTrue", "BrFalse"} PROVE i.arg \in NextPlaces(FlowIn(m, f), at)
  BY <1>2, <1>3 DEF Opcodes, NextPlaces, Branches, Conditional
<1>4. ASSUME i.op \notin {"Branch", "Ret", "Abort", "AbortMsg"} PROVE at + 1 \in NextPlaces(FlowIn(m, f), at)
  BY <1>2, <1>4 DEF Opcodes, NextPlaces
<1> QED  BY <1>3, <1>4 DEF c

(* A step of the code leaves a call ready, if it does to stack and locals  *)
(* what the instruction does.                                              *)
LEMMA Moves ==
  ASSUME NEW m, NEW frame, Ready(m, frame, 0), NEW x, NEW owed \in Nat, IsFrame(x),
         x.function = frame.function,
         x.pc \in NextPlaces(FlowIn(m, m.functions[frame.function]), frame.pc),
         x.stack \in Seq(Values),
         Len(x.stack) + owed = Len(frame.stack) - StackEffect(InstructionAt(m, frame))[1]
                                 + StackEffect(InstructionAt(m, frame))[2],
         x.locals \in [DOMAIN Body(m, m.functions[frame.function]).locals -> Values \cup {NoValue}],
         \A l \in AfterInstruction(HaveAt(m, m.functions[frame.function], frame.pc), InstructionAt(m, frame)) :
           l \in DOMAIN x.locals /\ x.locals[l] \in Values
  PROVE  Ready(m, x, owed)
<1> DEFINE d == frame.function
           f == m.functions[d]
           i == CodeOf(m, f)[frame.pc]
<1>1. HasCode(m, d) /\ frame.pc \in Spots(m, f) /\ Len(frame.stack) + 0 = HeightAt(m, f, frame.pc)
      /\ Len(frame.stack) \in Nat
  BY DEF Ready
<1>2. InstructionAt(m, frame) = i  BY DEF InstructionAt, FunctionOf, CodeOf
<1>3. frame.pc \in DOMAIN f.code  BY <1>1 DEF Spots
<1>4. /\ HeightAt(m, f, x.pc) = HeightAt(m, f, frame.pc) - StackEffect(i)[1] + StackEffect(i)[2]
  <2>1. HeightsGoOn(m, f, frame.pc)  BY <1>1, <1>3, HeightsFit
  <2> QED  BY <2>1 DEF HeightsGoOn
<1>5. x.pc \in Spots(m, f) /\ HaveAt(m, f, x.pc) \subseteq AfterInstruction(HaveAt(m, f, frame.pc), i)
  BY <1>1, HavesFit
<1>6. Len(x.stack) + owed = HeightAt(m, f, x.pc)  BY <1>1, <1>2, <1>4
<1>7. \A l \in HaveAt(m, f, x.pc) : l \in DOMAIN x.locals /\ x.locals[l] \in Values  BY <1>2, <1>5
<1> QED  BY <1>1, <1>5, <1>6, <1>7 DEF Ready

(* What the silent instructions and those that end a call take and leave.  *)
LEMMA EffectsOfOps ==
  ASSUME NEW i
  PROVE  /\ i.op \in {"Nop", "Branch"} => StackEffect(i) = <<0, 0>>
         /\ i.op \in {"CopyLoc", "MoveLoc", "LdConst"} => StackEffect(i) = <<0, 1>>
         /\ i.op \in {"StLoc", "Pop", "BrTrue", "BrFalse"} => StackEffect(i) = <<1, 0>>
         /\ i.op \in {"Ret", "Call"} => StackEffect(i) = i.arity
<1>1. i.op \in {"Nop", "Branch", "Ret", "Call"} =>
        i.op \notin Consumers \cup Producers \cup OneForOne \cup OneForTwo \cup PairConsumers \cup {"VecSwap"}
  BY DEF Consumers, Producers, OneForOne, OneForTwo, PairConsumers, Loads, Locals, Casts, Borrows,
     Arithmetic, BitOps, Comparisons
<1>2. i.op \in {"CopyLoc", "MoveLoc", "LdConst"} => i.op \in Producers /\ i.op \notin Consumers
  BY DEF Producers, Locals, Consumers
<1>3. i.op \in {"StLoc", "Pop", "BrTrue", "BrFalse"} => i.op \in Consumers
  BY DEF Consumers
<1>4. i.op \in {"Ret", "Call"} => i.op \in AsTablesSay  BY DEF AsTablesSay
<1>5. ASSUME i.op \in {"Nop", "Branch"} PROVE StackEffect(i) = <<0, 0>>
  BY <1>1, <1>5 DEF StackEffect, AsTablesSay
<1>6. ASSUME i.op \in {"CopyLoc", "MoveLoc", "LdConst"} PROVE StackEffect(i) = <<0, 1>>
  <2>1. /\ i.op \notin {"VecSwap", "Branch", "Nop"} /\ i.op \notin AsTablesSay
        /\ i.op \notin OneForOne \cup OneForTwo \cup PairConsumers
    BY <1>6 DEF AsTablesSay, OneForOne, OneForTwo, PairConsumers, Casts, Borrows,
       Arithmetic, BitOps, Comparisons
  <2> QED  BY <1>2, <1>6, <2>1 DEF StackEffect
<1>7. ASSUME i.op \in {"StLoc", "Pop", "BrTrue", "BrFalse"} PROVE StackEffect(i) = <<1, 0>>
  <2>1. /\ i.op \notin {"VecSwap", "Branch", "Nop"} /\ i.op \notin AsTablesSay
        /\ i.op \notin Producers \cup OneForOne \cup OneForTwo \cup PairConsumers
    BY <1>7 DEF AsTablesSay, OneForOne, OneForTwo, PairConsumers, Casts, Borrows,
       Arithmetic, BitOps, Comparisons, Producers, Loads, Locals
  <2> QED  BY <1>3, <1>7, <2>1 DEF StackEffect
<1>8. ASSUME i.op \in {"Ret", "Call"} PROVE StackEffect(i) = i.arity
  BY <1>1, <1>4, <1>8 DEF StackEffect
<1> QED  BY <1>5, <1>6, <1>7, <1>8

LEMMA SilentIsReady ==
  ASSUME NEW m, NEW frame, Ready(m, frame, 0), InstructionAt(m, frame).op \in Silent
  PROVE  LET x == AfterSilent(frame, InstructionAt(m, frame)) IN
         Ready(m, x, 0) /\ x.function = frame.function /\ x.types = frame.types
<1> DEFINE i == InstructionAt(m, frame)
           d == frame.function
           f == m.functions[d]
           n == DOMAIN Body(m, f).locals
           have == HaveAt(m, f, frame.pc)
           P == IF i.op = "Branch" THEN i.arg ELSE frame.pc + 1
           L == IF i.op = "StLoc" THEN [frame.locals EXCEPT ![i.arg] = Last(frame.stack)] ELSE frame.locals
           K == CASE i.op \in {"CopyLoc", "MoveLoc"} -> Append(frame.stack, frame.locals[i.arg])
                  [] i.op = "LdConst" -> Append(frame.stack, <<"constant", i.arg>>)
                  [] i.op \in {"StLoc", "Pop"} -> Front(frame.stack)
                  [] OTHER -> frame.stack
           x == AfterSilent(frame, i)
<1>1. /\ HasCode(m, d) /\ IsFrame(frame) /\ frame.pc \in Spots(m, f) /\ frame.stack \in Seq(Values)
      /\ Len(frame.stack) = HeightAt(m, f, frame.pc) /\ Len(frame.stack) \in Nat
      /\ frame.locals \in [n -> Values \cup {NoValue}]
      /\ \A l \in have : l \in DOMAIN frame.locals /\ frame.locals[l] \in Values
  BY DEF Ready
<1>2. frame.pc \in DOMAIN f.code /\ i = CodeOf(m, f)[frame.pc]
  BY <1>1 DEF Spots, InstructionAt, FunctionOf, CodeOf
<1>3. i.op = f.code[frame.pc].op /\ i.arg = f.code[frame.pc].arg /\ i.arg \in Nat
      /\ InstructionOK(m, f, f.code[frame.pc])
  BY <1>1, <1>2, CodeIsAccepted, CodeInstruction DEF Coded, Range, CodeOK
<1>4. /\ x = [frame EXCEPT !.pc = P, !.locals = L, !.stack = K]
  BY DEF AfterSilent
<1> HIDE DEF P, L, K, x
<1>5. /\ IsFrame(x) /\ x.function = d /\ x.types = frame.types /\ x.pc = P /\ x.locals = L /\ x.stack = K
  BY <1>1, <1>4 DEF IsFrame
<1>6. P \in NextPlaces(FlowIn(m, f), frame.pc)
  <2>1. i.op = "Branch" => i.arg \in NextPlaces(FlowIn(m, f), frame.pc)  BY <1>1, <1>2, PlacesOfOps
  <2>2. i.op # "Branch" => frame.pc + 1 \in NextPlaces(FlowIn(m, f), frame.pc)
    BY <1>1, <1>2, PlacesOfOps DEF Silent
  <2> QED  BY <2>1, <2>2 DEF P
<1>7. /\ i.op \in Locals => i.arg \in have
      /\ Len(frame.stack) >= StackEffect(i)[1]
  BY <1>1, <1>2, HavesFit, HeightsFit
<1>8. i.op = "StLoc" => i.arg \in n
  <2>1. i.op = "StLoc" => i.arg + 1 \in DOMAIN LocalTypes(m, f)  BY <1>3 DEF InstructionOK
  <2>2. DOMAIN LocalTypes(m, f) = 1 .. Len(LocalTypes(m, f)) /\ n = 0 .. Len(LocalTypes(m, f)) - 1
        /\ Len(LocalTypes(m, f)) \in Nat
    BY <1>1, LocalsAreCounted
  <2> HIDE DEF n
  <2> QED  BY <1>3, <2>1, <2>2
<1> HIDE DEF i, n, have, f, d
<1>9. i.op \in {"StLoc", "Pop"} =>
        /\ Last(frame.stack) \in Values
        /\ Front(frame.stack) \in Seq(Values) /\ Len(Front(frame.stack)) = Len(frame.stack) - 1
  <2> SUFFICES ASSUME i.op \in {"StLoc", "Pop"}
               PROVE  /\ Last(frame.stack) \in Values
                      /\ Front(frame.stack) \in Seq(Values) /\ Len(Front(frame.stack)) = Len(frame.stack) - 1
    OBVIOUS
  <2>1. Len(frame.stack) >= 1  BY <1>7, EffectsOfOps
  <2>2. \A k \in 1 .. Len(frame.stack) : frame.stack[k] \in Values  BY <1>1
  <2>3. Last(frame.stack) \in Values  BY <1>1, <2>1, <2>2 DEF Last
  <2>4. \A k \in 1 .. Len(frame.stack) - 1 : frame.stack[k] \in Values  BY <1>1, <2>2
  <2> DEFINE last == Len(frame.stack) - 1
  <2>5. /\ last \in Int /\ (1 <= last => last - 1 + 1 = last) /\ (~ 1 <= last => last = 0)
        /\ \A k \in 1 .. last : frame.stack[k] \in Values
    BY <1>1, <2>1, <2>4
  <2> HIDE DEF last
  <2>6. SubSeq(frame.stack, 1, last) \in Seq(Values) /\ Len(SubSeq(frame.stack, 1, last)) = last
    BY <2>5, SubSeqProperties
  <2> QED  BY <2>3, <2>6 DEF Front, last
<1>10. K \in Seq(Values) /\ Len(K) = Len(frame.stack) - StackEffect(i)[1] + StackEffect(i)[2]
  <2>1. CASE i.op \in {"CopyLoc", "MoveLoc"}
    <3>1. frame.locals[i.arg] \in Values  BY <1>1, <1>7, <2>1 DEF Locals
    <3>2. K = Append(frame.stack, frame.locals[i.arg])  BY <2>1 DEF K
    <3>3. StackEffect(i) = <<0, 1>>  BY <2>1, EffectsOfOps
    <3> QED  BY <1>1, <3>1, <3>2, <3>3, AppendProperties
  <2>2. CASE i.op = "LdConst"
    <3>1. <<"constant", i.arg>> \in Values  BY <1>3 DEF Values
    <3>2. K = Append(frame.stack, <<"constant", i.arg>>)  BY <2>2 DEF K
    <3>3. StackEffect(i) = <<0, 1>>  BY <2>2, EffectsOfOps
    <3> QED  BY <1>1, <3>1, <3>2, <3>3, AppendProperties
  <2>3. CASE i.op \in {"StLoc", "Pop"}
    <3>1. K = Front(frame.stack)  BY <2>3 DEF K
    <3>2. StackEffect(i) = <<1, 0>>  BY <2>3, EffectsOfOps
    <3> QED  BY <1>1, <1>9, <2>3, <3>1, <3>2
  <2>4. CASE i.op \in {"Nop", "Branch"}
    <3>1. K = frame.stack  BY <2>4 DEF K
    <3>2. StackEffect(i) = <<0, 0>>  BY <2>4, EffectsOfOps
    <3> QED  BY <1>1, <3>1, <3>2
  <2>5. i.op \in Silent  BY DEF i
  <2> QED  BY <2>1, <2>2, <2>3, <2>4, <2>5 DEF Silent
<1>11. L \in [n -> Values \cup {NoValue}]  BY <1>1, <1>9 DEF L
<1>12. \A l \in AfterInstruction(have, i) : l \in DOMAIN L /\ L[l] \in Values
  <2> TAKE l \in AfterInstruction(have, i)
  <2>1. CASE i.op = "StLoc"
    <3>1. l = i.arg \/ l \in have  BY <2>1 DEF AfterInstruction
    <3> QED  BY <1>1, <1>8, <1>9, <2>1, <3>1 DEF L
  <2>2. CASE i.op # "StLoc"
    <3>1. l \in have  BY <2>2 DEF AfterInstruction
    <3> QED  BY <1>1, <2>2, <3>1 DEF L
  <2> QED  BY <2>1, <2>2
<1>13. Len(x.stack) + 0 = Len(frame.stack) - StackEffect(i)[1] + StackEffect(i)[2]
  BY <1>1, <1>5, <1>10
<1>14. Ready(m, x, 0)
  <2>1. x.pc \in NextPlaces(FlowIn(m, m.functions[frame.function]), frame.pc)  BY <1>5, <1>6 DEF f, d
  <2>2. x.locals \in [DOMAIN Body(m, m.functions[frame.function]).locals -> Values \cup {NoValue}]
    BY <1>5, <1>11 DEF n, f, d
  <2>3. \A l \in AfterInstruction(HaveAt(m, m.functions[frame.function], frame.pc), InstructionAt(m, frame)) :
          l \in DOMAIN x.locals /\ x.locals[l] \in Values
    BY <1>5, <1>12 DEF have, i, f, d
  <2>4. x.stack \in Seq(Values) /\ x.function = frame.function  BY <1>5, <1>10 DEF d
  <2> QED  BY <1>5, <1>13, <2>1, <2>2, <2>3, <2>4, Moves DEF i
<1> QED  BY <1>5, <1>14 DEF x, i, d

(* So does going on over all that is silent.                               *)
LEMMA SettledIsReady ==
  ASSUME NEW m, NEW frame, Ready(m, frame, 0)
  PROVE  /\ Ready(m, SettledFrame(m, frame), 0)
         /\ SettledFrame(m, frame).function = frame.function
<1> DEFINE d == frame.function
           n == DOMAIN Body(m, m.functions[d]).locals
           X == {x \in [function : {d}, types : {frame.types}, pc : Nat, stack : Seq(Values),
                        locals : [n -> Values \cup {NoValue}]] : Ready(m, x, 0)}
           S == [frame : X, met : SUBSET Nat]
           start == [frame |-> frame, met |-> {}]
           step == [s \in S |-> FrameGoesOn(m, s)]
           Eq(h) == h = [k \in Nat |-> IF k = 0 THEN start ELSE FrameGoesOn(m, h[k - 1])]
           done == CHOOSE h : Eq(h)
           size == Size(FunctionOf(m, frame).code)
<1>1. HasCode(m, d) /\ IsFrame(frame) /\ frame.pc \in Spots(m, m.functions[d])  BY DEF Ready
<1>2. \A at \in DOMAIN m.functions[d].code : at \in Nat
  BY <1>1, PlaceInBlock
<1>3. \A x : Ready(m, x, 0) /\ x.function = d /\ x.types = frame.types => x \in X
  <2> TAKE x
  <2> HAVE Ready(m, x, 0) /\ x.function = d /\ x.types = frame.types
  <2>1. x.pc \in Nat  BY <1>2 DEF Ready, Spots
  <2>2. x.stack \in Seq(Values) /\ x.locals \in [n -> Values \cup {NoValue}] /\ IsFrame(x)  BY DEF Ready
  <2> HIDE DEF n, d
  <2>3. x \in [function : {d}, types : {frame.types}, pc : Nat, stack : Seq(Values),
               locals : [n -> Values \cup {NoValue}]]
    BY <2>1, <2>2 DEF IsFrame
  <2> QED  BY <2>3
<1>4. ASSUME NEW s \in S PROVE FrameGoesOn(m, s) \in S
  <2>1. s.frame \in X /\ Ready(m, s.frame, 0) /\ s.frame.function = d /\ s.frame.types = frame.types
        /\ s.met \in SUBSET Nat /\ s.frame.pc \in Nat
    OBVIOUS
  <2> DEFINE i == InstructionAt(m, s.frame)
  <2>2. CASE s.frame.pc \in s.met \/ i.op \notin Silent  BY <2>2 DEF FrameGoesOn
  <2>3. CASE s.frame.pc \notin s.met /\ i.op \in Silent
    <3>1. AfterSilent(s.frame, i) \in X  BY <1>3, <2>1, <2>3, SilentIsReady
    <3>2. FrameGoesOn(m, s) = [frame |-> AfterSilent(s.frame, i), met |-> s.met \cup {s.frame.pc}]
      BY <2>3 DEF FrameGoesOn
    <3> HIDE DEF X, i
    <3> QED  BY <2>1, <3>1, <3>2
  <2> QED  BY <2>2, <2>3
<1>5. start \in S  BY <1>3
<1> HIDE DEF X, start
<1>6. step \in [S -> S]
  <2> HIDE DEF S
  <2> QED  BY <1>4
<1>7. PICK f : Iterates(f, S, step, start)
  <2> HIDE DEF S, step
  <2> QED  BY <1>5, <1>6, IterationExists
<1>8. Eq(f)
  <2>1. ASSUME NEW k \in Nat PROVE f[k] = IF k = 0 THEN start ELSE FrameGoesOn(m, f[k - 1])
    <3>1. CASE k = 0  BY <1>7, <3>1 DEF Iterates
    <3>2. CASE k # 0
      <4>1. k - 1 \in Nat /\ k - 1 + 1 = k  BY <3>2
      <4> HIDE DEF S
      <4>2. f[k] = step[f[k - 1]] /\ f[k - 1] \in S  BY <1>7, <4>1 DEF Iterates
      <4> QED  BY <3>2, <4>2
    <3> QED  BY <3>1, <3>2
  <2> HIDE DEF S
  <2> QED  BY <1>7, <2>1 DEF Iterates
<1>9. SettledFrame(m, frame) = done[size].frame
  BY DEF SettledFrame, Iterate, start
<1> HIDE DEF Eq, S
<1>10. Eq(done)  BY <1>8
<1> HIDE DEF done
<1>11. \A k \in Nat : done[k] \in S
  <2> DEFINE T == {k \in Nat : done[k] \in S}
  <2>1. 0 \in T  BY <1>5, <1>10 DEF Eq
  <2>2. ASSUME NEW k \in Nat, k \in T PROVE k + 1 \in T
    <3>1. k + 1 \in Nat /\ k + 1 # 0 /\ k + 1 - 1 = k  OBVIOUS
    <3>2. done[k + 1] = FrameGoesOn(m, done[k])  BY <1>10, <3>1 DEF Eq
    <3> QED  BY <1>4, <2>2, <3>1, <3>2
  <2> HIDE DEF T
  <2>3. Nat \subseteq T  BY <2>1, <2>2, NatClosed
  <2> QED  BY <2>3 DEF T
<1>12. size \in Nat
  <2>1. Coded(m.functions[d])  BY <1>1, CodeIsAccepted
  <2> QED  BY <2>1, FS_CardinalityType DEF Coded, Size, FunctionOf
<1> HIDE DEF size
<1>13. done[size].frame \in X  BY <1>11, <1>12 DEF S
<1> QED  BY <1>9, <1>13 DEF X
-----------------------------------------------------------------------------
LEMMA EmptyIsSorted ==
  ASSUME NEW m PROVE Sorted(m, << >>) /\ Len(<< >>) = 0
BY EmptySeq DEF Sorted, IsList

(* Changing the call at the top, adding one, and ending one.               *)
LEMMA TopReplaced ==
  ASSUME NEW s, IsList(s), s # << >>, NEW x
  PROVE  /\ Len(s) \in Nat \ {0} /\ IsList(WithTop(s, x)) /\ Len(WithTop(s, x)) = Len(s)
         /\ WithTop(s, x) # << >>
         /\ \A k \in 1 .. Len(s) : WithTop(s, x)[k] = IF k = Len(s) THEN x ELSE s[k]
<1> DEFINE S == Range(s) \cup {x}
           t == WithTop(s, x)
<1>1. s \in Seq(S)  BY SeqMonotonic DEF IsList
<1>2. Len(s) \in Nat \ {0} /\ Len(s) \in 1 .. Len(s)  BY <1>1, EmptySeq
<1> HIDE DEF S
<1>3. /\ t \in Seq(S) /\ Len(t) = Len(s)
      /\ \A k \in 1 .. Len(s) : t[k] = IF k = Len(s) THEN x ELSE s[k]
  <2>1. x \in S  BY DEF S
  <2> QED  BY <1>1, <1>2, <2>1, ExceptSeq DEF WithTop
<1>4. IsList(t)  BY <1>3, SeqOfRange DEF IsList
<1>5. t # << >>
  <2>1. Len(<< >>) = 0  BY EmptySeq
  <2> QED  BY <1>2, <1>3, <2>1
<1> QED  BY <1>2, <1>3, <1>4, <1>5

LEMMA CallAdded ==
  ASSUME NEW s, IsList(s), NEW x
  PROVE  /\ IsList(Append(s, x)) /\ Len(Append(s, x)) = Len(s) + 1 /\ Len(s) \in Nat
         /\ \A k \in 1 .. Len(s) : Append(s, x)[k] = s[k]
         /\ Append(s, x)[Len(s) + 1] = x
<1> DEFINE S == Range(s) \cup {x}
<1>1. s \in Seq(S) /\ x \in S  BY SeqMonotonic DEF IsList
<1> HIDE DEF S
<1>2. /\ Append(s, x) \in Seq(S) /\ Len(Append(s, x)) = Len(s) + 1 /\ Len(s) \in Nat
      /\ \A k \in 1 .. Len(s) : Append(s, x)[k] = s[k]
      /\ Append(s, x)[Len(s) + 1] = x
  BY <1>1, AppendProperties, LenProperties
<1>3. IsList(Append(s, x))  BY <1>2, SeqOfRange DEF IsList
<1> QED  BY <1>2, <1>3

LEMMA CallEnded ==
  ASSUME NEW s, IsList(s), Len(s) > 1
  PROVE  /\ IsList(Front(s)) /\ Len(Front(s)) = Len(s) - 1 /\ Front(s) # << >> /\ Len(s) \in Nat
         /\ \A k \in 1 .. Len(s) - 1 : Front(s)[k] = s[k]
<1> DEFINE n == Len(s) - 1
<1>1. s \in Seq(Range(s)) /\ Len(s) \in Nat  BY LenProperties DEF IsList
<1>2. n \in Nat /\ n >= 1 /\ n - 1 + 1 = n /\ \A k \in 1 .. n : 1 + k - 1 = k  BY <1>1
<1>3. \A k \in 1 .. n : s[k] \in Range(s)  BY <1>1, ElementOfSeq
<1> HIDE DEF n
<1>4. /\ SubSeq(s, 1, n) \in Seq(Range(s)) /\ Len(SubSeq(s, 1, n)) = n
      /\ \A k \in 1 .. n - 1 + 1 : SubSeq(s, 1, n)[k] = s[1 + k - 1]
  BY <1>2, <1>3, SubSeqProperties
<1>5. Front(s) = SubSeq(s, 1, n)  BY DEF Front, n
<1>6. IsList(Front(s)) /\ Len(Front(s)) = n  BY <1>4, <1>5, SeqOfRange DEF IsList
<1>7. Front(s) # << >>
  <2>1. Len(<< >>) = 0  BY EmptySeq
  <2> QED  BY <1>2, <1>6, <2>1
<1>8. \A k \in 1 .. n : Front(s)[k] = s[k]  BY <1>2, <1>4, <1>5
<1> QED  BY <1>1, <1>6, <1>7, <1>8 DEF n

LEMMA TopIsReady ==
  ASSUME NEW m, NEW s, Sorted(m, s), s # << >>
  PROVE  Len(s) \in Nat \ {0} /\ Top(s) = s[Len(s)] /\ Ready(m, Top(s), 0)
<1>1. Len(s) \in Nat \ {0}  BY TopReplaced DEF Sorted
<1> QED  BY <1>1 DEF Sorted, Top, Last

LEMMA TopGoesOn ==
  ASSUME NEW m, NEW s, Sorted(m, s), s # << >>,
         NEW x, Ready(m, x, 0), x.function = Top(s).function
  PROVE  Sorted(m, WithTop(s, x)) /\ Len(WithTop(s, x)) = Len(s)
<1> DEFINE t == WithTop(s, x)
           n == Len(s)
<1>1. /\ n \in Nat \ {0} /\ IsList(t) /\ Len(t) = n
      /\ \A k \in 1 .. n : t[k] = IF k = n THEN x ELSE s[k]
  BY TopReplaced DEF Sorted
<1>2. x.function = s[n].function  BY TopIsReady
<1>3. \A k \in 1 .. n : Returns(m, t[k]) = Returns(m, s[k]) /\ Acquires(m, t[k]) = Acquires(m, s[k])
  BY <1>1, <1>2 DEF Returns, Acquires
<1> HIDE DEF t, n
<1>4. ASSUME NEW k \in 1 .. n PROVE Ready(m, t[k], IF k = n THEN 0 ELSE Returns(m, t[k + 1]))
  <2>1. CASE k = n  BY <1>1, <2>1
  <2>2. CASE k # n
    <3>1. k + 1 \in 1 .. n /\ t[k] = s[k]  BY <1>1, <2>2
    <3>2. Ready(m, s[k], Returns(m, s[k + 1]))  BY <2>2 DEF Sorted, n
    <3> QED  BY <1>3, <2>2, <3>1, <3>2
  <2> QED  BY <2>1, <2>2
<1>5. ASSUME NEW k \in 1 .. n - 1 PROVE Acquires(m, t[k + 1]) \subseteq Acquires(m, t[k])
  <2>1. k \in 1 .. n /\ k + 1 \in 1 .. n  BY <1>1
  <2>2. Acquires(m, s[k + 1]) \subseteq Acquires(m, s[k])  BY DEF Sorted, n
  <2> QED  BY <1>3, <2>1, <2>2
<1>6. Sorted(m, t)  BY <1>1, <1>4, <1>5 DEF Sorted
<1> QED  BY <1>1, <1>6 DEF t, n

LEMMA CallIsMade ==
  ASSUME NEW m, NEW s, Sorted(m, s), s # << >>,
         NEW x, NEW y, Ready(m, x, Returns(m, y)), x.function = Top(s).function,
         Ready(m, y, 0), Acquires(m, y) \subseteq Acquires(m, x)
  PROVE  Sorted(m, Append(WithTop(s, x), y)) /\ Len(Append(WithTop(s, x), y)) = Len(s) + 1
<1> DEFINE u == WithTop(s, x)
           t == Append(u, y)
           n == Len(s)
<1>1. /\ n \in Nat \ {0} /\ IsList(u) /\ Len(u) = n
      /\ \A k \in 1 .. n : u[k] = IF k = n THEN x ELSE s[k]
  BY TopReplaced DEF Sorted
<1>2. /\ IsList(t) /\ Len(t) = Len(u) + 1 /\ \A k \in 1 .. Len(u) : t[k] = u[k]
      /\ t[Len(u) + 1] = y
  BY <1>1, CallAdded
<1>3. x.function = s[n].function  BY TopIsReady
<1>4. \A k \in 1 .. n : /\ t[k] = IF k = n THEN x ELSE s[k]
                        /\ Returns(m, t[k]) = Returns(m, s[k]) /\ Acquires(m, t[k]) = Acquires(m, s[k])
  BY <1>1, <1>2, <1>3 DEF Returns, Acquires
<1>5. Len(t) = n + 1 /\ t[n + 1] = y  BY <1>1, <1>2
<1> HIDE DEF t, n, u
<1>6. ASSUME NEW k \in 1 .. n + 1 PROVE Ready(m, t[k], IF k = n + 1 THEN 0 ELSE Returns(m, t[k + 1]))
  <2>1. CASE k = n + 1  BY <1>1, <1>5, <2>1
  <2>2. CASE k = n
    <3>1. t[k] = x /\ k # n + 1 /\ t[k + 1] = y  BY <1>1, <1>4, <1>5, <2>2
    <3> QED  BY <3>1
  <2>3. CASE k # n /\ k # n + 1
    <3>1. k \in 1 .. n /\ k + 1 \in 1 .. n /\ t[k] = s[k]  BY <1>1, <1>4, <2>3
    <3>2. Ready(m, s[k], Returns(m, s[k + 1]))  BY <2>3, <3>1 DEF Sorted, n
    <3> QED  BY <1>4, <2>3, <3>1, <3>2
  <2> QED  BY <2>1, <2>2, <2>3
<1>7. ASSUME NEW k \in 1 .. n PROVE Acquires(m, t[k + 1]) \subseteq Acquires(m, t[k])
  <2>1. CASE k = n
    <3>1. t[k] = x /\ t[k + 1] = y  BY <1>1, <1>4, <1>5, <2>1
    <3> QED  BY <3>1
  <2>2. CASE k # n
    <3>1. k \in 1 .. n - 1 /\ k + 1 \in 1 .. n  BY <1>1, <2>2
    <3>2. Acquires(m, s[k + 1]) \subseteq Acquires(m, s[k])  BY <3>1 DEF Sorted, n
    <3> QED  BY <1>4, <3>1, <3>2
  <2> QED  BY <2>1, <2>2
<1>8. n + 1 - 1 = n  BY <1>1
<1>9. Sorted(m, t)
  <2>1. Len(t) = n + 1 /\ Len(t) - 1 = n /\ IsList(t)  BY <1>1, <1>2, <1>5
  <2>2. \A k \in 1 .. Len(t) : Ready(m, t[k], IF k = Len(t) THEN 0 ELSE Returns(m, t[k + 1]))
    BY <1>6, <2>1, Zenon
  <2>3. \A k \in 1 .. Len(t) - 1 : Acquires(m, t[k + 1]) \subseteq Acquires(m, t[k])
    BY <1>7, <2>1
  <2> QED  BY <2>1, <2>2, <2>3 DEF Sorted
<1> QED  BY <1>5, <1>9 DEF t, n, u

LEMMA CallIsLeft ==
  ASSUME NEW m, NEW s, Sorted(m, s), Len(s) > 1
  PROVE  LET u == Front(s) IN
         /\ u # << >> /\ IsList(u) /\ Len(u) = Len(s) - 1 /\ Len(s) \in Nat
         /\ Ready(m, Top(u), Returns(m, Top(s)))
         /\ \A x : Ready(m, x, 0) /\ x.function = Top(u).function
              => Sorted(m, WithTop(u, x)) /\ Len(WithTop(u, x)) = Len(s) - 1
<1> DEFINE u == Front(s)
           n == Len(s) - 1
<1>1. /\ IsList(u) /\ Len(u) = n /\ u # << >> /\ Len(s) \in Nat
      /\ \A k \in 1 .. n : u[k] = s[k]
  BY CallEnded DEF Sorted
<1>2. n \in Nat /\ n > 0 /\ Top(u) = s[n] /\ Top(s) = s[n + 1]  BY <1>1 DEF Top, Last
<1>3. Ready(m, Top(u), Returns(m, Top(s)))
  <2>1. n \in 1 .. Len(s) /\ n # Len(s)  BY <1>1, <1>2
  <2>2. Ready(m, s[n], Returns(m, s[n + 1]))  BY <2>1 DEF Sorted
  <2> QED  BY <1>2, <2>2
<1>4. ASSUME NEW x, Ready(m, x, 0), x.function = Top(u).function
      PROVE  Sorted(m, WithTop(u, x)) /\ Len(WithTop(u, x)) = Len(s) - 1
  <2> DEFINE t == WithTop(u, x)
  <2>1. /\ IsList(t) /\ Len(t) = n
        /\ \A k \in 1 .. n : t[k] = IF k = n THEN x ELSE s[k]
    BY <1>1, TopReplaced
  <2>2. \A k \in 1 .. n : Returns(m, t[k]) = Returns(m, s[k]) /\ Acquires(m, t[k]) = Acquires(m, s[k])
    BY <1>2, <1>4, <2>1 DEF Returns, Acquires
  <2>3. n + 1 = Len(s)  BY <1>1
  <2> HIDE DEF t, n, u
  <2>4. ASSUME NEW k \in 1 .. n PROVE Ready(m, t[k], IF k = n THEN 0 ELSE Returns(m, t[k + 1]))
    <3>1. CASE k = n  BY <1>4, <2>1, <3>1
    <3>2. CASE k # n
      <4>1. k \in 1 .. Len(s) /\ k # Len(s) /\ k + 1 \in 1 .. n /\ t[k] = s[k]  BY <1>2, <2>1, <2>3, <3>2
      <4>2. Ready(m, s[k], Returns(m, s[k + 1]))  BY <4>1 DEF Sorted
      <4> QED  BY <2>2, <3>2, <4>1, <4>2
    <3> QED  BY <3>1, <3>2
  <2>5. ASSUME NEW k \in 1 .. n - 1 PROVE Acquires(m, t[k + 1]) \subseteq Acquires(m, t[k])
    <3>1. k \in 1 .. Len(s) - 1 /\ k \in 1 .. n /\ k + 1 \in 1 .. n  BY <1>2, <2>3
    <3>2. Acquires(m, s[k + 1]) \subseteq Acquires(m, s[k])  BY <3>1 DEF Sorted
    <3> QED  BY <2>2, <3>1, <3>2
  <2>6. Sorted(m, t)  BY <2>1, <2>4, <2>5 DEF Sorted
  <2> QED  BY <2>1, <2>6 DEF t, n, u
<1> QED  BY <1>1, <1>3, <1>4

(* Going on to the next event.                                             *)
LEMMA SettledIsSorted ==
  ASSUME NEW m, NEW s, Sorted(m, s)
  PROVE  Sorted(m, Settle(m, s)) /\ Len(Settle(m, s)) = Len(s)
<1>1. CASE s = << >>  BY <1>1 DEF Settle
<1>2. CASE s # << >>
  <2>1. Ready(m, SettledFrame(m, Top(s)), 0) /\ SettledFrame(m, Top(s)).function = Top(s).function
    BY <1>2, TopIsReady, SettledIsReady
  <2> QED  BY <1>2, <2>1, TopGoesOn DEF Settle
<1> QED  BY <1>1, <1>2

(* The operands of an instruction, and what is left of the stack.          *)
LEMMA StackIsSplit ==
  ASSUME NEW frame, frame.stack \in Seq(Values), NEW n \in Nat, n <= Len(frame.stack)
  PROVE  /\ Taken(frame, n) \in Seq(Values) /\ Len(Taken(frame, n)) = n
         /\ Rest(frame, n) \in Seq(Values) /\ Len(Rest(frame, n)) = Len(frame.stack) - n
<1> DEFINE s == frame.stack
           len == Len(s)
           low == len - n + 1
           kept == len - n
<1>1. len \in Nat /\ \A k \in 1 .. len : s[k] \in Values  BY ElementOfSeq
<1>2. low \in Int /\ len \in Int /\ kept \in Int /\ \A k \in low .. len : s[k] \in Values  BY <1>1
<1>3. \A k \in 1 .. kept : s[k] \in Values  BY <1>1
<1>4. /\ (IF low <= len THEN len - low + 1 ELSE 0) = n
      /\ (IF 1 <= kept THEN kept - 1 + 1 ELSE 0) = kept
  BY <1>1
<1> HIDE DEF len, low, kept, s
<1>5. SubSeq(s, low, len) \in Seq(Values) /\ Len(SubSeq(s, low, len)) = n
  BY <1>2, <1>4, SubSeqProperties
<1>6. SubSeq(s, 1, kept) \in Seq(Values) /\ Len(SubSeq(s, 1, kept)) = kept
  BY <1>2, <1>3, <1>4, SubSeqProperties
<1> QED  BY <1>5, <1>6 DEF Taken, Rest, s, len, low, kept

(* A call of a function with values for its parameters.                    *)
LEMMA EntryIsReady ==
  ASSUME NEW m, NEW d, HasCode(m, d), NEW types, NEW arguments \in Seq(Values),
         Len(arguments) = Len(m.table.function[m.functions[d].handle].parameters)
  PROVE  Ready(m, Frame(m, d, types, arguments), 0) /\ Frame(m, d, types, arguments).function = d
<1> DEFINE f == m.functions[d]
           n == Len(LocalTypes(m, f))
           L == [l \in 0 .. n - 1 |-> IF l < Len(arguments) THEN arguments[l + 1] ELSE <<"none">>]
           x == Frame(m, d, types, arguments)
<1>1. x = [function |-> d, types |-> types, pc |-> 0, stack |-> << >>, locals |-> L]  BY DEF Frame
<1>2. /\ n \in Nat /\ DOMAIN Body(m, f).locals = 0 .. n - 1
      /\ Body(m, f).parameters = Len(arguments)
  BY LocalsAreCounted
<1>3. Len(arguments) \in Nat /\ \A k \in 1 .. Len(arguments) : arguments[k] \in Values
  <2> HIDE DEF f, n, L, x
  <2>1. Len(arguments) \in Nat /\ DOMAIN arguments = 1 .. Len(arguments)  BY LenProperties
  <2>2. \A k \in DOMAIN arguments : arguments[k] \in Values  BY <2>1, ElementOfSeq
  <2> QED  BY <2>1, <2>2
<1>4. ASSUME NEW l \in 0 .. n - 1
      PROVE  L[l] \in Values \cup {NoValue} /\ (l < Len(arguments) => L[l] \in Values)
  <2>1. l < Len(arguments) => l + 1 \in 1 .. Len(arguments)  BY <1>2, <1>3
  <2> QED  BY <1>3, <2>1 DEF NoValue
<1> HIDE DEF L
<1>5. L \in [DOMAIN Body(m, f).locals -> Values \cup {NoValue}] /\ DOMAIN L = 0 .. n - 1
  BY <1>2, <1>4 DEF L
<1>6. /\ 0 \in Spots(m, f)
      /\ \A l \in HaveAt(m, f, 0) : l \in DOMAIN Body(m, f).locals /\ l < Body(m, f).parameters
  BY EntryHas
<1>7. \A l \in HaveAt(m, f, 0) : l \in DOMAIN L /\ L[l] \in Values  BY <1>2, <1>4, <1>5, <1>6
<1>8. << >> \in Seq(Values) /\ Len(<< >>) + 0 = HeightAt(m, f, 0)
  <2>1. HeightAt(m, f, 0) = 0  BY EntryHeight
  <2> QED  BY <2>1
<1> HIDE DEF f, x
<1>9. IsFrame(x) /\ x.function = d /\ x.pc = 0 /\ x.stack = << >> /\ x.locals = L  BY <1>1 DEF IsFrame
<1>10. Ready(m, x, 0)  BY <1>5, <1>6, <1>7, <1>8, <1>9 DEF Ready, f
<1> QED  BY <1>9, <1>10 DEF x

(* What a frame is after its place and its stack have changed.             *)
Changed(frame, pc, stack) == [frame EXCEPT !.pc = pc, !.stack = stack]
LEMMA FrameChanged ==
  ASSUME NEW frame, IsFrame(frame), NEW pc, NEW stack
  PROVE  LET x == Changed(frame, pc, stack) IN
         /\ IsFrame(x) /\ x.function = frame.function /\ x.types = frame.types
         /\ x.pc = pc /\ x.stack = stack /\ x.locals = frame.locals
<1> DEFINE y == [frame EXCEPT !.pc = pc]
           x == [y EXCEPT !.stack = stack]
<1>1. /\ IsFrame(y) /\ y.function = frame.function /\ y.types = frame.types
      /\ y.pc = pc /\ y.stack = frame.stack /\ y.locals = frame.locals
  BY DEF IsFrame
<1> HIDE DEF y
<1>2. /\ IsFrame(x) /\ x.function = frame.function /\ x.types = frame.types
      /\ x.pc = pc /\ x.stack = stack /\ x.locals = frame.locals
  BY <1>1 DEF IsFrame
<1>3. Changed(frame, pc, stack) = x  BY DEF y, Changed
<1> HIDE DEF x
<1> QED  BY <1>2, <1>3

LEMMA StackChanged ==
  ASSUME NEW frame, IsFrame(frame), NEW stack
  PROVE  LET x == [frame EXCEPT !.stack = stack] IN
         /\ IsFrame(x) /\ x.function = frame.function /\ x.types = frame.types
         /\ x.pc = frame.pc /\ x.stack = stack /\ x.locals = frame.locals
BY DEF IsFrame

(* The calls after an event, by what the event is.                         *)
AfterTest(s, i, answer) ==
  WithTop(s, Changed(Top(s), IF answer = (i.op = "BrTrue") THEN i.arg ELSE Top(s).pc + 1, Front(Top(s).stack)))
Onwards(s, stack) == WithTop(s, Changed(Top(s), Top(s).pc + 1, stack))
LEMMA AfterEventByCase ==
  ASSUME NEW m, NEW s, NEW n, NEW answer
  PROVE  LET frame == Top(s)
             i == InstructionAt(m, frame)
             e == StackEffect(i)
             after == AfterEvent(m, s, n, answer)
         IN  /\ i.op \in {"BrTrue", "BrFalse"} => after = AfterTest(s, i, answer)
             /\ i.op \in {"Abort", "AbortMsg"} \/ (i.op = "Ret" /\ Len(s) = 1) => after = << >>
             /\ i.op = "Ret" /\ Len(s) # 1 =>
                  after = WithTop(Front(s), [Top(Front(s)) EXCEPT !.stack = Top(Front(s)).stack \o Taken(frame, e[1])])
             /\ i.op \notin {"BrTrue", "BrFalse", "Abort", "AbortMsg", "Ret"} =>
                  /\ Entered(m, i) = {} =>
                       after = Onwards(s, Rest(frame, e[1]) \o [k \in 1 .. e[2] |-> <<"event", n, k>>])
                  /\ Entered(m, i) # {} =>
                       after = Append(Onwards(s, Rest(frame, e[1])),
                                      Frame(m, CHOOSE d \in Entered(m, i) : TRUE, TypesOf(m, frame, i), Taken(frame, e[1])))
<1> DEFINE frame == Top(s)
           i == InstructionAt(m, frame)
           e == StackEffect(i)
           after == AfterEvent(m, s, n, answer)
           tested == AfterTest(s, i, answer)
           left == WithTop(Front(s), [Top(Front(s)) EXCEPT !.stack = Top(Front(s)).stack \o Taken(frame, e[1])])
           on == Onwards(s, Rest(frame, e[1]) \o [k \in 1 .. e[2] |-> <<"event", n, k>>])
           deeper == Append(Onwards(s, Rest(frame, e[1])),
                            Frame(m, CHOOSE d \in Entered(m, i) : TRUE, TypesOf(m, frame, i), Taken(frame, e[1])))
           none == Entered(m, i) = {}
<1>1. after = CASE i.op \in {"BrTrue", "BrFalse"} -> tested
                [] i.op \in {"Abort", "AbortMsg"} -> << >>
                [] i.op = "Ret" -> IF Len(s) = 1 THEN << >> ELSE left
                [] ~ none -> deeper
                [] OTHER -> on
  BY DEF AfterEvent, Tests, AfterTest, Onwards, Changed
<1>0. i.op # "Call" => none  BY DEF Entered
<1> HIDE DEF after, tested, left, on, deeper, none, i
<1>2. i.op \in {"BrTrue", "BrFalse"} => after = tested  BY <1>0, <1>1
<1>3. i.op \in {"Abort", "AbortMsg"} \/ (i.op = "Ret" /\ Len(s) = 1) => after = << >>  BY <1>0, <1>1
<1>4. i.op = "Ret" /\ Len(s) # 1 => after = left  BY <1>0, <1>1
<1> QED  BY <1>1, <1>2, <1>3, <1>4 DEF after, tested, left, on, deeper, none, i

(* An event leaves the calls sorted: a test goes one way or the other, a   *)
(* return hands over what the caller waits for, a call enters a function   *)
(* with its parameters, and all else leaves values of the event.           *)
LEMMA AfterEventIsSorted ==
  ASSUME NEW m, NEW s, Sorted(m, s), s # << >>, InstructionAt(m, Top(s)).op \notin Silent,
         NEW n \in Nat, NEW answer \in BOOLEAN
  PROVE  Sorted(m, AfterEvent(m, s, n, answer)) /\ Len(AfterEvent(m, s, n, answer)) <= Len(s) + 1
<1> DEFINE frame == Top(s)
           d == frame.function
           f == m.functions[d]
           i == InstructionAt(m, frame)
           e == StackEffect(i)
           taken == Taken(frame, e[1])
           rest == Rest(frame, e[1])
           results == [k \in 1 .. e[2] |-> <<"event", n, k>>]
           moved(stack) == Changed(frame, frame.pc + 1, stack)
           after == AfterEvent(m, s, n, answer)
           left == WithTop(Front(s), [Top(Front(s)) EXCEPT !.stack = Top(Front(s)).stack \o taken])
           new == Frame(m, CHOOSE c \in Entered(m, i) : TRUE, TypesOf(m, frame, i), taken)
<1>0. /\ i.op \in {"BrTrue", "BrFalse"} => after = AfterTest(s, i, answer)
      /\ i.op \in {"Abort", "AbortMsg"} \/ (i.op = "Ret" /\ Len(s) = 1) => after = << >>
      /\ i.op = "Ret" /\ Len(s) # 1 => after = left
      /\ i.op \notin {"BrTrue", "BrFalse", "Abort", "AbortMsg", "Ret"} =>
           /\ Entered(m, i) = {} => after = Onwards(s, rest \o results)
           /\ Entered(m, i) # {} => after = Append(Onwards(s, rest), new)
  BY AfterEventByCase
<1> SUFFICES Sorted(m, after) /\ Len(after) <= Len(s) + 1
  OBVIOUS
<1> HIDE DEF after, left, new
<1>1. /\ HasCode(m, d) /\ IsFrame(frame) /\ frame.pc \in Spots(m, f) /\ frame.stack \in Seq(Values)
      /\ Len(frame.stack) = HeightAt(m, f, frame.pc) /\ Len(frame.stack) \in Nat
      /\ frame.locals \in [DOMAIN Body(m, f).locals -> Values \cup {NoValue}]
      /\ \A l \in HaveAt(m, f, frame.pc) : l \in DOMAIN frame.locals /\ frame.locals[l] \in Values
      /\ Ready(m, frame, 0) /\ Len(s) \in Nat \ {0}
  BY TopIsReady DEF Ready
<1>2. frame.pc \in DOMAIN f.code /\ i = CodeOf(m, f)[frame.pc]
  BY <1>1 DEF Spots, InstructionAt, FunctionOf, CodeOf
<1>3. /\ Coded(f) /\ f.handle \in DOMAIN m.table.function /\ AcquiresOK(m) /\ FunctionsOK(m) /\ Loadable(m)
      /\ f \in ToSet(m.functions) /\ InstructionOK(m, f, f.code[frame.pc])
  BY <1>1, <1>2, CodeIsAccepted, SoundPasses DEF HasCode, Sound, CodeOK
<1>4. /\ i.op = f.code[frame.pc].op /\ i.arg = f.code[frame.pc].arg /\ i.arg \in Nat
      /\ i.generic = f.code[frame.pc].generic
      /\ i.op \in {"Ret", "Call"} => i.arity = TableArity(m, f, f.code[frame.pc])
  <2>1. f.code[frame.pc] \in Range(f.code)  BY <1>2 DEF Range
  <2>2. {"Ret", "Call"} \cap OwnArity = {}  BY DEF OwnArity
  <2> HIDE DEF f, i, frame
  <2>3. f.code[frame.pc].arg \in Nat  BY <1>3, <2>1 DEF Coded
  <2> QED  BY <1>2, <1>3, <2>2, <2>3, CodeInstruction
<1>5. /\ e[1] \in Nat /\ e[2] \in Nat /\ Len(frame.stack) >= e[1]
      /\ i.op = "Ret" => Len(frame.stack) = e[1]
  BY <1>1, <1>2, HeightsFit
<1>6. /\ i.op \in {"BrTrue", "BrFalse"} => i.arg \in NextPlaces(FlowIn(m, f), frame.pc)
      /\ i.op \notin {"Branch", "Ret", "Abort", "AbortMsg"} => frame.pc + 1 \in NextPlaces(FlowIn(m, f), frame.pc)
  BY <1>1, <1>2, PlacesOfOps
<1>7. \A l \in AfterInstruction(HaveAt(m, f, frame.pc), i) : l \in DOMAIN frame.locals /\ frame.locals[l] \in Values
  BY <1>1 DEF AfterInstruction, Silent
<1> HIDE DEF e, i, frame
<1>8. /\ taken \in Seq(Values) /\ Len(taken) = e[1]
      /\ rest \in Seq(Values) /\ Len(rest) = Len(frame.stack) - e[1]
  BY <1>1, <1>5, StackIsSplit
<1>9. results \in Seq(Values) /\ Len(results) = e[2]
  <2>1. \A k \in 1 .. e[2] : <<"event", n, k>> \in Values  BY <1>5 DEF Values
  <2> QED  BY <1>5, <2>1
<1> HIDE DEF f, d, taken, rest, results
<1>10. ASSUME NEW x, NEW owed \in Nat, IsFrame(x), x.function = d,
              x.pc \in NextPlaces(FlowIn(m, f), frame.pc), x.stack \in Seq(Values),
              Len(x.stack) + owed = Len(frame.stack) - e[1] + e[2], x.locals = frame.locals
       PROVE  Ready(m, x, owed)
  <2>1. x.function = frame.function /\ x.pc \in NextPlaces(FlowIn(m, m.functions[frame.function]), frame.pc)
    BY <1>10 DEF f, d
  <2>2. x.locals \in [DOMAIN Body(m, m.functions[frame.function]).locals -> Values \cup {NoValue}]
    BY <1>1, <1>10 DEF f, d
  <2>3. \A l \in AfterInstruction(HaveAt(m, m.functions[frame.function], frame.pc), InstructionAt(m, frame)) :
          l \in DOMAIN x.locals /\ x.locals[l] \in Values
    BY <1>7, <1>10 DEF i, f, d, frame
  <2>4. Len(x.stack) + owed = Len(frame.stack) - StackEffect(InstructionAt(m, frame))[1]
                                + StackEffect(InstructionAt(m, frame))[2]
    BY <1>10 DEF e, i, frame
  <2>5. Ready(m, frame, 0) /\ IsFrame(x) /\ x.stack \in Seq(Values)  BY <1>1, <1>10
  <2> QED  BY <1>10, <2>1, <2>2, <2>3, <2>4, <2>5, Moves
<1>11. ASSUME NEW stack
       PROVE  /\ IsFrame(moved(stack)) /\ moved(stack).function = d /\ moved(stack).pc = frame.pc + 1
              /\ moved(stack).stack = stack /\ moved(stack).locals = frame.locals
              /\ Onwards(s, stack) = WithTop(s, moved(stack))
  BY <1>1, FrameChanged DEF d, Onwards, frame
<1> HIDE DEF moved
<1>12. CASE i.op \in {"BrTrue", "BrFalse"}
  <2> DEFINE P == IF answer = (i.op = "BrTrue") THEN i.arg ELSE frame.pc + 1
             z == Changed(frame, P, Front(frame.stack))
  <2>1. after = WithTop(s, z)  BY <1>0, <1>12 DEF AfterTest, frame
  <2>2. /\ IsFrame(z) /\ z.function = d /\ z.locals = frame.locals /\ z.stack = Front(frame.stack)
        /\ z.pc = P
    <3> HIDE DEF P
    <3> QED  BY <1>1, FrameChanged DEF d
  <2> HIDE DEF z
  <2>3. z.pc \in NextPlaces(FlowIn(m, f), frame.pc)  BY <1>6, <1>12, <2>2
  <2>4. e = <<1, 0>>  BY <1>12, EffectsOfOps DEF e
  <2>5. Front(frame.stack) = rest  BY <2>4 DEF Front, Rest, rest
  <2>6. Ready(m, z, 0)
    <3>1. Len(z.stack) + 0 = Len(frame.stack) - e[1] + e[2] /\ z.stack \in Seq(Values)
      BY <1>1, <1>8, <2>2, <2>4, <2>5
    <3> QED  BY <1>10, <2>2, <2>3, <3>1
  <2>7. Sorted(m, after) /\ Len(after) = Len(s)  BY <2>1, <2>2, <2>6, TopGoesOn DEF frame, d
  <2> QED  BY <1>1, <2>7
<1>13. CASE i.op \in {"Abort", "AbortMsg"} \/ (i.op = "Ret" /\ Len(s) = 1)
  <2>1. after = << >>  BY <1>0, <1>13
  <2> QED  BY <1>1, <2>1, EmptyIsSorted
<1>14. CASE i.op = "Ret" /\ Len(s) # 1
  <2> DEFINE u == Front(s)
             y == Top(u)
             z == [y EXCEPT !.stack = y.stack \o taken]
  <2>1. after = WithTop(u, z)  BY <1>0, <1>14 DEF left
  <2>2. /\ Ready(m, y, Returns(m, frame))
        /\ \A w : Ready(m, w, 0) /\ w.function = y.function
             => Sorted(m, WithTop(u, w)) /\ Len(WithTop(u, w)) = Len(s) - 1
    <3>1. Len(s) > 1
      <4> DEFINE k == Len(s)
      <4>1. k \in Nat \ {0} /\ k # 1  BY <1>1, <1>14
      <4> HIDE DEF k
      <4>2. k > 1  BY <4>1
      <4> QED  BY <4>2 DEF k
    <3> QED  BY <3>1, CallIsLeft DEF frame
  <2> HIDE DEF y, u
  <2>3. /\ IsFrame(y) /\ y.stack \in Seq(Values)
        /\ Len(y.stack) + Returns(m, frame) = HeightAt(m, m.functions[y.function], y.pc)
    BY <2>2 DEF Ready
  <2>4. Returns(m, frame) = e[1]
    <3>1. e = TableArity(m, f, f.code[frame.pc])  BY <1>4, <1>14, EffectsOfOps DEF e
    <3>2. TableArity(m, f, f.code[frame.pc]) = <<Len(m.table.function[f.handle].returns), 0>>
      BY <1>4, <1>14 DEF TableArity
    <3> QED  BY <3>1, <3>2 DEF Returns, f, d
  <2>5. y.stack \o taken \in Seq(Values) /\ Len(y.stack \o taken) + 0 = Len(y.stack) + Returns(m, frame)
    <3>1. Len(y.stack \o taken) = Len(y.stack) + e[1] /\ y.stack \o taken \in Seq(Values)
      BY <1>8, <2>3, ConcatProperties
    <3>2. Len(y.stack) \in Nat  BY <2>3
    <3> QED  BY <1>5, <2>4, <3>1, <3>2
  <2>6. /\ IsFrame(z) /\ z.function = y.function /\ z.pc = y.pc /\ z.locals = y.locals
        /\ z.stack = y.stack \o taken
    BY <2>3, StackChanged
  <2> HIDE DEF z
  <2>7. Ready(m, z, 0)  BY <2>2, <2>3, <2>5, <2>6 DEF Ready
  <2>8. Sorted(m, after) /\ Len(after) = Len(s) - 1  BY <2>1, <2>2, <2>6, <2>7
  <2> QED  BY <1>1, <2>8
<1>15. CASE i.op \notin {"BrTrue", "BrFalse", "Abort", "AbortMsg", "Ret"}
  <2>0. frame.pc + 1 \in NextPlaces(FlowIn(m, f), frame.pc)
    <3>1. i.op # "Branch"  BY DEF i, frame, Silent
    <3> QED  BY <1>6, <1>15, <3>1
  <2>1. CASE Entered(m, i) = {}
    <3>1. after = Onwards(s, rest \o results)
      BY <1>0, <1>15, <2>1
    <3>2. rest \o results \in Seq(Values) /\ Len(rest \o results) + 0 = Len(frame.stack) - e[1] + e[2]
      <4>1. rest \o results \in Seq(Values) /\ Len(rest \o results) = Len(rest) + Len(results)
        BY <1>8, <1>9, ConcatProperties
      <4> QED  BY <1>1, <1>5, <1>8, <1>9, <4>1
    <3> DEFINE z == moved(rest \o results)
    <3>3. /\ IsFrame(z) /\ z.function = d /\ z.pc = frame.pc + 1
          /\ z.stack = rest \o results /\ z.locals = frame.locals
      BY <1>11
    <3>4. after = WithTop(s, z)  BY <1>11, <3>1
    <3> HIDE DEF z
    <3>5. Ready(m, z, 0)  BY <1>10, <2>0, <3>2, <3>3
    <3>6. Sorted(m, after) /\ Len(after) = Len(s)  BY <3>3, <3>4, <3>5, TopGoesOn DEF frame, d
    <3> QED  BY <1>1, <3>6
  <2>2. CASE Entered(m, i) # {}
    <3> DEFINE c == CHOOSE c \in Entered(m, i) : TRUE
               of == UseOf(m, i).of
               z == moved(rest)
               y == Frame(m, c, TypesOf(m, frame, i), taken)
    <3>1. after = Append(Onwards(s, rest), y)
      BY <1>0, <1>15, <2>2 DEF new
    <3>2. /\ IsFrame(z) /\ z.function = d /\ z.pc = frame.pc + 1 /\ z.stack = rest /\ z.locals = frame.locals
          /\ after = Append(WithTop(s, z), y)
      BY <1>11, <3>1
    <3>3. c \in Entered(m, i)  BY <2>2
    <3> HIDE DEF z, c
    <3>4. /\ i.op = "Call" /\ c \in DefinitionsNamed(m, of) /\ ~ IsNative(m.functions[c])
      BY <3>3 DEF Entered
    <3>5. /\ c \in DOMAIN m.functions /\ m.functions[c].handle = of /\ HasCode(m, c)
      BY <1>1, <3>4 DEF DefinitionsNamed, HasCode
    <3>6. e = <<Len(m.table.function[of].parameters), Len(m.table.function[of].returns)>>
      <4>1. e = TableArity(m, f, f.code[frame.pc])  BY <1>4, <3>4, EffectsOfOps DEF e
      <4>2. UseOf(m, f.code[frame.pc]) = UseOf(m, i)  BY <1>4 DEF UseOf
      <4> QED  BY <1>4, <3>4, <4>1, <4>2 DEF TableArity
    <3>7. Ready(m, y, 0) /\ y.function = c
      <4>1. Len(taken) = Len(m.table.function[m.functions[c].handle].parameters)  BY <1>8, <3>5, <3>6
      <4> QED  BY <1>8, <3>5, <4>1, EntryIsReady
    <3> HIDE DEF y
    <3>8. Returns(m, y) = e[2]  BY <3>5, <3>6, <3>7 DEF Returns
    <3>9. Ready(m, z, Returns(m, y))
      <4>1. Len(rest) + Returns(m, y) = Len(frame.stack) - e[1] + e[2] /\ Returns(m, y) \in Nat
        BY <1>1, <1>5, <1>8, <3>8
      <4> QED  BY <1>8, <1>10, <2>0, <3>2, <4>1
    <3>10. Acquires(m, y) \subseteq Acquires(m, z)
      <4>1. f.code[frame.pc] \in Range(f.code)  BY <1>2 DEF Range
      <4>2. Touched(m, f.code[frame.pc]) \subseteq ToSet(f.acquires)  BY <1>3, <4>1 DEF AcquiresOK
      <4>3. UseOf(m, f.code[frame.pc]).of = of  BY <1>4 DEF UseOf
      <4>4. Touched(m, f.code[frame.pc]) = UNION {ToSet(m.functions[q].acquires) : q \in DefinitionsNamed(m, of)}
        BY <1>4, <3>4, <4>3 DEF Touched
      <4>5. ToSet(m.functions[c].acquires) \subseteq ToSet(f.acquires)  BY <3>4, <4>2, <4>4
      <4> QED  BY <3>2, <3>7, <4>5 DEF Acquires, f
    <3>11. Sorted(m, after) /\ Len(after) = Len(s) + 1
      BY <3>1, <3>2, <3>7, <3>9, <3>10, CallIsMade DEF frame, d
    <3> QED  BY <1>1, <3>11
  <2> QED  BY <2>1, <2>2
<1> QED  BY <1>12, <1>13, <1>14, <1>15
(* Every call of a machine acquires what the last of them does.            *)
LEMMA AcquiredBelow ==
  ASSUME NEW m, NEW s, Sorted(m, s), NEW k \in 1 .. Len(s)
  PROVE  Acquires(m, s[Len(s)]) \subseteq Acquires(m, s[k])
<1> DEFINE n == Len(s)
           T == {j \in Nat : j < n => Acquires(m, s[n]) \subseteq Acquires(m, s[n - j])}
<1>1. n \in Nat  BY LenProperties DEF Sorted, IsList
<1>2. 0 \in T  BY <1>1
<1>3. ASSUME NEW j \in Nat, j \in T PROVE j + 1 \in T
  <2>1. SUFFICES ASSUME j + 1 < n PROVE Acquires(m, s[n]) \subseteq Acquires(m, s[n - (j + 1)])
    OBVIOUS
  <2> DEFINE l == n - (j + 1)
  <2>2. l \in 1 .. n - 1 /\ l + 1 = n - j /\ j < n  BY <1>1, <2>1
  <2> HIDE DEF l
  <2>3. Acquires(m, s[l + 1]) \subseteq Acquires(m, s[l])  BY <2>2 DEF Sorted, n
  <2>4. Acquires(m, s[n]) \subseteq Acquires(m, s[n - j])  BY <1>3, <2>2
  <2> QED  BY <2>2, <2>3, <2>4 DEF l
<1> HIDE DEF T
<1>4. Nat \subseteq T  BY <1>2, <1>3, NatClosed
<1>5. n - k \in Nat /\ n - k < n /\ n - (n - k) = k  BY <1>1
<1>6. n - k \in T  BY <1>4, <1>5
<1> QED  BY <1>5, <1>6 DEF T

(* What the last call touches is acquired by all of them, and it finds     *)
(* its operands.                                                           *)
LEMMA SortedMachineIsFine ==
  ASSUME NEW m, NEW s, Sorted(m, s), s # << >>
  PROVE  LET frame == Top(s)
             i == InstructionAt(m, frame)
             height == Len(frame.stack)
         IN  /\ i.op # "Call" => \A x \in ToSet(s) : Touched(m, i) \subseteq ToSet(FunctionOf(m, x).acquires)
             /\ IF i.op = "Ret" THEN height = StackEffect(i)[1] ELSE height >= StackEffect(i)[1]
             /\ i.op \in Locals => frame.locals[i.arg] # <<"none">>
<1> DEFINE frame == Top(s)
           d == frame.function
           f == m.functions[d]
           i == InstructionAt(m, frame)
           c == f.code[frame.pc]
<1>1. /\ HasCode(m, d) /\ IsFrame(frame) /\ frame.pc \in Spots(m, f) /\ frame.stack \in Seq(Values)
      /\ Len(frame.stack) = HeightAt(m, f, frame.pc)
      /\ \A l \in HaveAt(m, f, frame.pc) : l \in DOMAIN frame.locals /\ frame.locals[l] \in Values
      /\ Len(s) \in Nat \ {0} /\ Top(s) = s[Len(s)]
  BY TopIsReady DEF Ready
<1>2. frame.pc \in DOMAIN f.code /\ i = CodeOf(m, f)[frame.pc]
  BY <1>1 DEF Spots, InstructionAt, FunctionOf, CodeOf
<1>3. /\ i.op \in Locals => i.arg \in HaveAt(m, f, frame.pc)
      /\ Len(frame.stack) >= StackEffect(i)[1]
      /\ i.op = "Ret" => Len(frame.stack) = StackEffect(i)[1]
  <2> DEFINE at == frame.pc
  <2>1. at \in Spots(m, f) /\ at \in DOMAIN f.code /\ HasCode(m, d)  BY <1>1, <1>2
  <2> HIDE DEF at, d
  <2>2. CodeOf(m, f)[at].op \in Locals => CodeOf(m, f)[at].arg \in HaveAt(m, f, at)
    BY <2>1, HavesFit
  <2>3. LET e == StackEffect(CodeOf(m, f)[at]) IN
        /\ HeightAt(m, f, at) >= e[1]
        /\ CodeOf(m, f)[at].op = "Ret" => HeightAt(m, f, at) = e[1]
    BY <2>1, HeightsFit
  <2>4. i = CodeOf(m, f)[at] /\ Len(frame.stack) = HeightAt(m, f, at)  BY <1>1, <1>2 DEF at
  <2> HIDE DEF i, frame, f
  <2> QED  BY <2>2, <2>3, <2>4 DEF at
<1>4. Coded(f) /\ AcquiresOK(m) /\ f \in ToSet(m.functions)
  BY <1>1, CodeIsAccepted, SoundPasses DEF HasCode
<1>5. i.op = c.op /\ i.arg = c.arg /\ i.generic = c.generic  BY <1>2, <1>4, CodeInstruction
<1>6. ASSUME i.op # "Call", NEW x \in ToSet(s) PROVE Touched(m, i) \subseteq ToSet(FunctionOf(m, x).acquires)
  <2>1. c \in Range(f.code)  BY <1>2 DEF Range
  <2>2. Touched(m, c) \subseteq Acquires(m, frame)  BY <1>4, <2>1 DEF AcquiresOK, Acquires
  <2>3. UseOf(m, i) = UseOf(m, c)  BY <1>5 DEF UseOf
  <2> HIDE DEF i, c, f, frame
  <2>4. Touched(m, i) = Touched(m, c)  BY <1>5, <2>3 DEF Touched
  <2>5. PICK k \in 1 .. Len(s) : x = s[k]
    <3>1. DOMAIN s = 1 .. Len(s)  BY LenProperties DEF Sorted, IsList
    <3> QED  BY <3>1 DEF ToSet
  <2>6. Acquires(m, frame) \subseteq Acquires(m, x)  BY <1>1, <2>5, AcquiredBelow DEF frame
  <2> QED  BY <2>2, <2>4, <2>6 DEF Acquires, FunctionOf
<1>7. i.op \in Locals => frame.locals[i.arg] # <<"none">>  BY <1>1, <1>3, NoValueIsNone DEF NoValue
<1> QED  BY <1>3, <1>6, <1>7

(* The definition of a module that has the name of one of its functions.   *)
LEMMA NamedIsIt ==
  ASSUME NEW m, Sound(m), NEW e \in DOMAIN m.functions
  PROVE  LET named == CHOOSE d \in DOMAIN m.functions : FunctionName(m, m.functions[d]) = FunctionName(m, m.functions[e])
         IN  named = e
<1> DEFINE P(d) == FunctionName(m, m.functions[d]) = FunctionName(m, m.functions[e])
<1>1. PoolsOK(m) /\ FunctionsOK(m)  BY SoundPasses
<1>2. \A d \in DOMAIN m.functions : m.functions[d].handle \in DOMAIN m.table.function
  BY <1>1 DEF FunctionsOK, DefinedOnce, ToSet
<1>3. ASSUME NEW d \in DOMAIN m.functions, P(d) PROVE d = e
  <2>1. NamesOf(m.table.function)[m.functions[d].handle] = NamesOf(m.table.function)[m.functions[e].handle]
    BY <1>2, <1>3 DEF NamesOf, FunctionName
  <2>2. m.functions[d].handle = m.functions[e].handle
    BY <1>1, <1>2, <2>1 DEF PoolsOK, Distinct, NamesOf
  <2> DEFINE h == [k \in DOMAIN m.functions |-> m.functions[k].handle]
  <2>3. Distinct(h)  BY <1>1 DEF FunctionsOK, DefinedOnce
  <2>4. h[d] = h[e] /\ d \in DOMAIN h /\ e \in DOMAIN h  BY <2>2
  <2> HIDE DEF h
  <2> QED  BY <2>3, <2>4 DEF Distinct
<1>4. P(e)  OBVIOUS
<1> HIDE DEF P
<1>5. (CHOOSE d \in DOMAIN m.functions : P(d)) = e  BY <1>3, <1>4
<1> QED  BY <1>5 DEF P

(* Equal modules: a function of one that has code has it in the other,     *)
(* with as many parameters.                                                *)
Namesake(n, name) == CHOOSE x \in DOMAIN n.functions : FunctionName(n, n.functions[x]) = name
LEMMA EqualModulesHaveCode ==
  ASSUME NEW m, NEW n, Sound(m), Sound(n), Interface(m) = Interface(n),
         NEW e \in DOMAIN m.functions, ~ IsNative(m.functions[e])
  PROVE  LET d == Namesake(n, FunctionName(m, m.functions[e]))
         IN  /\ HasCode(n, d)
             /\ Len(n.table.function[n.functions[d].handle].parameters)
                  = Len(m.table.function[m.functions[e].handle].parameters)
<1> DEFINE f == m.functions[e]
           name == FunctionName(m, f)
           value == FunctionValue(m, f)
           d == Namesake(n, name)
<1>1. f \in ToSet(m.functions)  BY DEF ToSet
<1>2. <<"function", name, value>> \in Interface(n)  BY <1>1 DEF Interface
<1> HIDE DEF name, value
<1>3. <<"function", name, value>>
        \in {<<"function", FunctionName(n, g), FunctionValue(n, g)>> : g \in ToSet(n.functions)}
  <2>1. <<"function", name, value>> \notin {<<"struct", StructName(n, x), StructValue(n, x)>> : x \in DOMAIN n.table.struct}
    OBVIOUS
  <2> QED  BY <1>2, <2>1 DEF Interface
<1>4. PICK g \in ToSet(n.functions) : <<"function", name, value>> = <<"function", FunctionName(n, g), FunctionValue(n, g)>>
  BY <1>3
<1>5. name = FunctionName(n, g) /\ value = FunctionValue(n, g)  BY <1>4
<1>6. PICK x \in DOMAIN n.functions : g = n.functions[x]  BY DEF ToSet
<1>7. d = x  BY <1>5, <1>6, NamedIsIt DEF Namesake
<1> HIDE DEF d
<1> DEFINE p == m.table.function[f.handle].parameters
           q == n.table.function[g.handle].parameters
<1>8. /\ value.native = IsNative(f) /\ value.parameters = signatureName(m, p)
      /\ FunctionValue(n, g).native = IsNative(g) /\ FunctionValue(n, g).parameters = signatureName(n, q)
  BY DEF value, FunctionValue
<1>9. HasCode(n, d)  BY <1>5, <1>6, <1>7, <1>8 DEF HasCode, IsNative
<1>10. DOMAIN p = DOMAIN q  BY <1>5, <1>8 DEF signatureName
<1>11. p \in Seq(Types) /\ q \in Seq(Types)
  <2>1. HasCode(m, e)  BY DEF HasCode
  <2>2. f.handle \in DOMAIN m.table.function /\ g.handle \in DOMAIN n.table.function
    BY <1>6, <1>7, <1>9, <2>1, CodeIsAccepted
  <2>3. FunctionsLoadable(m) /\ FunctionsLoadable(n)  BY DEF Sound, Loadable
  <2> QED  BY <2>2, <2>3 DEF FunctionsLoadable, Range
<1> HIDE DEF p, q
<1>12. Len(p) = Len(q)  BY <1>10, <1>11, LenProperties
<1>13. Len(n.table.function[n.functions[d].handle].parameters) = Len(m.table.function[m.functions[e].handle].parameters)
  BY <1>6, <1>7, <1>12 DEF p, q
<1> QED  BY <1>9, <1>13 DEF d, name
-----------------------------------------------------------------------------
LEMMA InitIsSorted ==
  Init => IInv
<1> SUFFICES ASSUME Init PROVE IInv  OBVIOUS
<1> USE DEF Init
<1>1. TypeOK
  <2>1. 1 \in 1 .. Len(Checks)  BY DEF Checks
  <2>2. Len(<< >>) <= MaxCalls + 1  BY BoundsAssumption, EmptySeq
  <2> QED  BY <2>1, <2>2, BoundsAssumption DEF TypeOK, Roles
<1>2. CheckedSoFar  BY DEF CheckedSoFar
<1>3. MachinesSorted
  <2>1. Len(<< >>) <= MaxCalls + 1  BY BoundsAssumption, EmptySeq
  <2> QED  BY <2>1 DEF MachinesSorted, Roles
<1> QED  BY <1>1, <1>2, <1>3 DEF IInv

LEMMA JobsAreLoadable ==
  ASSUME TypeOK PROVE Loadable(job.reference) /\ Loadable(job.candidate)
BY JobsAssumption DEF TypeOK

(* The checks one after another.                                           *)
LEMMA CheckKeepsSorted ==
  ASSUME IInv, Check PROVE IInv'
<1> DEFINE passed == Passes(Module[phase], Checks[check])
           last == check = Len(Checks)
<1>1. /\ phase \in Roles /\ job' = job /\ machines' = machines /\ events' = events
      /\ check' = CASE ~ passed -> check [] passed /\ last -> 1 [] OTHER -> check + 1
      /\ phase' = CASE ~ passed -> Refusal[phase]
                    [] passed /\ ~ last -> phase
                    [] passed /\ last /\ phase = "reference" -> "candidate"
                    [] OTHER -> "compare"
  BY DEF Check
<1>2. /\ check \in 1 .. Len(Checks) /\ Len(Checks) \in Nat /\ DOMAIN Checks = 1 .. Len(Checks)
      /\ DOMAIN machines = Roles /\ \A r \in Roles : machines[r] = << >> /\ Len(machines[r]) <= MaxCalls + 1
  BY <1>1 DEF IInv, TypeOK, MachinesSorted, Checks, Roles
<1>3. Module["reference"] = job.reference /\ Module["candidate"] = job.candidate  BY DEF Module
<1>4. /\ phase = "reference" => \A k \in 1 .. check - 1 : Passes(job.reference, Checks[k])
      /\ phase = "candidate" => /\ Sound(job.reference)
                                /\ \A k \in 1 .. check - 1 : Passes(job.candidate, Checks[k])
  BY DEF IInv, CheckedSoFar
<1>5. Loadable(job.reference) /\ Loadable(job.candidate)  BY JobsAreLoadable DEF IInv
<1>6. Refusal[phase] \in {"referenceRefused", "candidateRefused"} /\ \E r \in Roles : Refusal[phase] = Refusal[r]
  BY <1>1 DEF Roles, Refusal
<1> DEFINE m == Module[phase]
           length == Len(Checks)
<1>7. /\ passed => \A k \in 1 .. check : Passes(m, Checks[k])
      /\ passed /\ last => Sound(m)
  <2>1. \A k \in 1 .. check - 1 : Passes(m, Checks[k])  BY <1>1, <1>3, <1>4 DEF Roles
  <2>2. passed => \A k \in 1 .. check : Passes(m, Checks[k])
    <3> SUFFICES ASSUME passed, NEW k \in 1 .. check PROVE Passes(m, Checks[k])  OBVIOUS
    <3>1. k = check \/ k \in 1 .. check - 1  BY <1>2
    <3> QED  BY <2>1, <3>1
  <2>3. Loadable(m)  BY <1>1, <1>3, <1>5 DEF Roles
  <2> QED  BY <1>2, <2>2, <2>3 DEF Sound
<1> HIDE DEF passed, m, last
<1>8. CASE ~ passed
  <2>1. check' = check /\ phase' = Refusal[phase]  BY <1>1, <1>8
  <2>2. TypeOK'  BY <1>1, <1>6, <2>1 DEF TypeOK, IInv
  <2>3. CheckedSoFar'  BY <1>6, <2>1 DEF CheckedSoFar
  <2>4. MachinesSorted'  BY <1>1, <1>2, <1>6, <2>1 DEF MachinesSorted
  <2> QED  BY <2>2, <2>3, <2>4 DEF IInv
<1>9. CASE passed /\ ~ last
  <2>1. check' = check + 1 /\ phase' = phase  BY <1>1, <1>9
  <2>2. check + 1 \in 1 .. Len(Checks) /\ check' - 1 = check
    <3> DEFINE N == Len(Checks)
    <3>1. check \in 1 .. N /\ N \in Nat /\ check # N  BY <1>2, <1>9 DEF last
    <3> HIDE DEF N
    <3>2. check + 1 \in 1 .. N /\ check' - 1 = check  BY <2>1, <3>1
    <3> QED  BY <3>2 DEF N
  <2>3. TypeOK'  BY <1>1, <2>1, <2>2 DEF TypeOK, IInv
  <2>4. CheckedSoFar'
    <3>1. \A k \in 1 .. check' - 1 : Passes(m, Checks[k])  BY <1>7, <1>9, <2>2
    <3>2. phase = "reference" => m = job'.reference  BY <1>1, <1>3 DEF m
    <3>3. phase = "candidate" => m = job'.candidate /\ Sound(job'.reference)  BY <1>1, <1>3, <1>4 DEF m
    <3> QED  BY <1>1, <2>1, <3>1, <3>2, <3>3 DEF CheckedSoFar, Roles
  <2>5. MachinesSorted'  BY <1>1, <1>2, <2>1 DEF MachinesSorted, Roles
  <2> QED  BY <2>3, <2>4, <2>5 DEF IInv
<1>10. CASE passed /\ last
  <2>1. check' = 1 /\ phase' = IF phase = "reference" THEN "candidate" ELSE "compare"  BY <1>1, <1>10
  <2>2. 1 \in 1 .. Len(Checks) /\ \A k \in 1 .. 1 - 1 : FALSE  BY <1>2
  <2>3. TypeOK'  BY <1>1, <2>1, <2>2 DEF TypeOK, IInv, Roles
  <2>4. CheckedSoFar'
    <3>1. phase = "reference" => Sound(job'.reference)  BY <1>1, <1>3, <1>7, <1>10 DEF m
    <3>2. phase = "candidate" => Sound(job'.candidate) /\ Sound(job'.reference)
      BY <1>1, <1>3, <1>4, <1>7, <1>10 DEF m
    <3> QED  BY <1>1, <2>1, <2>2, <3>1, <3>2 DEF CheckedSoFar, Roles
  <2>5. MachinesSorted'  BY <1>1, <1>2, <2>1 DEF MachinesSorted, Roles
  <2> QED  BY <2>3, <2>4, <2>5 DEF IInv
<1> QED  BY <1>8, <1>9, <1>10

LEMMA CompareKeepsSorted ==
  ASSUME IInv, Compare PROVE IInv'
<1>1. /\ phase = "compare" /\ phase' \in {"same", "different"} /\ UNCHANGED <<job, check, machines, events>>
      /\ phase' = "same" => Interface(job.reference) = Interface(job.candidate)
  BY DEF Compare, Equivalent
<1>2. TypeOK'  BY <1>1 DEF IInv, TypeOK
<1>3. CheckedSoFar'  BY <1>1 DEF IInv, CheckedSoFar
<1>4. MachinesSorted'  BY <1>1 DEF IInv, MachinesSorted
<1> QED  BY <1>2, <1>3, <1>4 DEF IInv

(* A machine that is entered from outside.                                 *)
LEMMA EnteredIsSorted ==
  ASSUME NEW m, NEW d, HasCode(m, d), NEW types, NEW arguments \in Seq(Values),
         Len(arguments) = Len(m.table.function[m.functions[d].handle].parameters)
  PROVE  LET machine == Settle(m, <<Frame(m, d, types, arguments)>>)
         IN  Sorted(m, machine) /\ Len(machine) = 1
<1> DEFINE x == Frame(m, d, types, arguments)
<1>1. Ready(m, x, 0)  BY EntryIsReady
<1> HIDE DEF x
<1>2. Len(<<x>>) = 1 /\ <<x>>[1] = x /\ <<x>> \in Seq({x}) /\ Range(<<x>>) = {x}  BY DEF Range
<1>3. IsList(<<x>>)  BY <1>2 DEF IsList
<1>4. Sorted(m, <<x>>)
  <2>1. \A k \in 1 .. Len(<<x>>) :
          Ready(m, <<x>>[k], IF k = Len(<<x>>) THEN 0 ELSE Returns(m, <<x>>[k + 1]))
    BY <1>1, <1>2
  <2>2. \A k \in 1 .. Len(<<x>>) - 1 : FALSE  BY <1>2
  <2> QED  BY <1>3, <2>1, <2>2 DEF Sorted
<1>5. Sorted(m, Settle(m, <<x>>)) /\ Len(Settle(m, <<x>>)) = 1  BY <1>2, <1>4, SettledIsSorted
<1> QED  BY <1>5 DEF x

LEMMA CallKeepsSorted ==
  ASSUME IInv, Call PROVE IInv'
<1>1. phase = "same" /\ phase' = "run" /\ job' = job /\ check' = check /\ events' = events
  BY DEF Call
<1> DEFINE m == job.reference
           handle(f) == m.table.function[f.handle]
           types(f) == [k \in DOMAIN handle(f).typeParameters |-> typeName(m, u64)]
           arguments(f) == [k \in DOMAIN handle(f).parameters |-> <<"argument", k>>]
           entry(r, f) == Namesake(Module[r], handle(f).name)
<1>2. PICK f \in {g \in ToSet(m.functions) : ~ IsNative(g)} :
        machines' = [r \in Roles |-> Settle(Module[r], <<Frame(Module[r], entry(r, f), types(f), arguments(f))>>)]
  BY DEF Call, Namesake
<1>3. PICK e \in DOMAIN m.functions : f = m.functions[e]  BY DEF ToSet
<1>4. Sound(m) /\ Sound(job.candidate) /\ Interface(m) = Interface(job.candidate)
  BY <1>1 DEF IInv, CheckedSoFar
<1>5. HasCode(m, e)  BY <1>2, <1>3, <1>4 DEF HasCode
<1>6. arguments(f) \in Seq(Values) /\ Len(arguments(f)) = Len(handle(f).parameters)
  <2> DEFINE p == handle(f).parameters
             n == Len(p)
  <2>1. FunctionsLoadable(m) /\ f.handle \in DOMAIN m.table.function
    BY <1>3, <1>4, <1>5, CodeIsAccepted DEF Sound, Loadable
  <2>2. p \in Seq(Types)  BY <2>1 DEF FunctionsLoadable, Range
  <2> HIDE DEF p
  <2>3. n \in Nat /\ DOMAIN p = 1 .. n  BY <2>2, LenProperties
  <2> HIDE DEF n
  <2>4. [k \in 1 .. n |-> <<"argument", k>>] \in [1 .. n -> Values]
    <3>1. \A k \in 1 .. n : <<"argument", k>> \in Values  BY <2>3 DEF Values
    <3> QED  BY <3>1
  <2>5. /\ [k \in 1 .. n |-> <<"argument", k>>] \in Seq(Values)
        /\ Len([k \in 1 .. n |-> <<"argument", k>>]) = n
    BY <2>3, <2>4
  <2> QED  BY <2>3, <2>5 DEF p, n
<1>7. ASSUME NEW r \in Roles
      PROVE  LET machine == Settle(Module[r], <<Frame(Module[r], entry(r, f), types(f), arguments(f))>>)
             IN  Sorted(Module[r], machine) /\ Len(machine) = 1
  <2>1. Sound(Module[r]) /\ Interface(m) = Interface(Module[r])  BY <1>4 DEF Module, Roles
  <2> DEFINE n == Module[r]
             d == entry(r, f)
  <2>2. d = Namesake(n, FunctionName(m, m.functions[e]))  BY <1>3 DEF FunctionName
  <2>3. /\ HasCode(n, d)
        /\ Len(n.table.function[n.functions[d].handle].parameters) = Len(handle(f).parameters)
    <3> HIDE DEF n
    <3>1. Sound(n) /\ Interface(m) = Interface(n) /\ ~ IsNative(m.functions[e])  BY <1>2, <1>3, <2>1 DEF n
    <3> DEFINE c == Namesake(n, FunctionName(m, m.functions[e]))
    <3> HIDE DEF m
    <3>2. /\ HasCode(n, c)
          /\ Len(n.table.function[n.functions[c].handle].parameters)
               = Len(m.table.function[m.functions[e].handle].parameters)
      BY <1>4, <3>1, EqualModulesHaveCode
    <3> HIDE DEF c, d
    <3>3. d = c  BY <2>2 DEF c
    <3> QED  BY <1>3, <3>2, <3>3
  <2> HIDE DEF n, d, types, arguments, handle
  <2>4. Len(arguments(f)) = Len(n.table.function[n.functions[d].handle].parameters)
    BY <1>6, <2>3
  <2>5. Sorted(n, Settle(n, <<Frame(n, d, types(f), arguments(f))>>))
        /\ Len(Settle(n, <<Frame(n, d, types(f), arguments(f))>>)) = 1
    BY <1>6, <2>3, <2>4, EnteredIsSorted
  <2> QED  BY <2>5 DEF n, d
<1> DEFINE machine(r) == Settle(Module[r], <<Frame(Module[r], entry(r, f), types(f), arguments(f))>>)
<1>8. \A r \in Roles : Sorted(Module[r], machine(r)) /\ Len(machine(r)) = 1  BY <1>7
<1>9. machines' = [r \in Roles |-> machine(r)]  BY <1>2
<1> HIDE DEF machine
<1>10. DOMAIN machines' = Roles /\ \A r \in Roles : machines'[r] = machine(r)  BY <1>9
<1>11. Module' = Module  BY <1>1 DEF Module
<1>12. \A r \in Roles : Len(machines'[r]) <= MaxCalls + 1
  <2>1. 1 <= MaxCalls + 1  BY BoundsAssumption
  <2> QED  BY <1>8, <1>10, <2>1
<1>13. TypeOK'  BY <1>1, <1>10, <1>12 DEF IInv, TypeOK
<1>14. CheckedSoFar'  BY <1>1, <1>4 DEF CheckedSoFar
<1>15. MachinesSorted'  BY <1>1, <1>8, <1>10, <1>11, <1>12 DEF MachinesSorted
<1> QED  BY <1>13, <1>14, <1>15 DEF IInv

LEMMA StepKeepsSorted ==
  ASSUME IInv, Step PROVE IInv'
<1>1. /\ phase = "run" /\ events < MaxEvents /\ \A r \in Roles : Going(r)
      /\ events' = events + 1 /\ job' = job /\ phase' = phase /\ check' = check
  BY DEF Step
<1>2. PICK answer \in BOOLEAN :
        machines' = [r \in Roles |-> Settle(Module[r], AfterEvent(Module[r], machines[r], events, answer))]
  BY DEF Step
<1>3. /\ \A r \in Roles : Sorted(Module[r], machines[r])
      /\ events \in Nat /\ CheckedSoFar /\ TypeOK
  BY <1>1 DEF IInv, MachinesSorted, TypeOK
<1>4. ASSUME NEW r \in Roles
      PROVE  LET x == Settle(Module[r], AfterEvent(Module[r], machines[r], events, answer))
             IN  Sorted(Module[r], x) /\ Len(x) <= MaxCalls + 1
  <2> DEFINE s == machines[r]
             m == Module[r]
             i == InstructionAt(m, Top(s))
             y == AfterEvent(m, s, events, answer)
  <2>1. Event(r) \notin {<<"end">>, <<"endless">>} /\ Len(s) <= MaxCalls  BY <1>1 DEF Going
  <2>2. s # << >>  BY <2>1 DEF Event, EventOf
  <2>3. i.op \notin Silent
    <3> SUFFICES ASSUME i.op \in Silent PROVE FALSE  OBVIOUS
    <3>1. i.op \notin Tests
      <4> HIDE DEF i
      <4> QED  BY DEF Tests, Silent
    <3>2. EventOf(m, s) = <<"endless">>
      <4> DEFINE other == <<i.op, WorksOn(m, Top(s), i), TypesOf(m, Top(s), i), Taken(Top(s), StackEffect(i)[1])>>
                 test == <<"test", Last(Top(s).stack)>>
      <4>1. EventOf(m, s) = CASE i.op \in Silent -> <<"endless">> [] i.op \in Tests -> test [] OTHER -> other
        BY <2>2 DEF EventOf
      <4> HIDE DEF i, other, test
      <4> QED  BY <3>1, <4>1
    <3> QED  BY <2>1, <3>2 DEF Event
  <2>4. Sorted(m, s)  BY <1>3
  <2> HIDE DEF m, s, y
  <2>5. Sorted(m, y) /\ Len(y) <= Len(s) + 1  BY <1>3, <2>2, <2>3, <2>4, AfterEventIsSorted DEF y
  <2>6. Sorted(m, Settle(m, y)) /\ Len(Settle(m, y)) = Len(y)  BY <2>5, SettledIsSorted
  <2>7. Len(y) \in Nat /\ Len(s) \in Nat  BY <2>4, <2>5, LenProperties DEF Sorted, IsList
  <2>8. Len(y) <= MaxCalls + 1  BY <2>1, <2>5, <2>7, BoundsAssumption DEF s
  <2> QED  BY <2>6, <2>8 DEF y, m, s
<1> DEFINE machine(r) == Settle(Module[r], AfterEvent(Module[r], machines[r], events, answer))
<1>5. \A r \in Roles : Sorted(Module[r], machine(r)) /\ Len(machine(r)) <= MaxCalls + 1  BY <1>4
<1>6. machines' = [r \in Roles |-> machine(r)]  BY <1>2
<1> HIDE DEF machine
<1>7. DOMAIN machines' = Roles /\ \A r \in Roles : machines'[r] = machine(r)  BY <1>6
<1>8. Module' = Module  BY <1>1 DEF Module
<1>9. events' \in 0 .. MaxEvents  BY <1>1, <1>3, BoundsAssumption
<1>10. TypeOK'  BY <1>1, <1>3, <1>5, <1>7, <1>9 DEF TypeOK
<1>11. CheckedSoFar'  BY <1>1, <1>3 DEF CheckedSoFar
<1>12. MachinesSorted'  BY <1>1, <1>5, <1>7, <1>8 DEF MachinesSorted
<1> QED  BY <1>10, <1>11, <1>12 DEF IInv

(* What validation and comparison establish is kept by every step, and no  *)
(* call of a running module is ever out of order.                          *)
LEMMA StaysSorted ==
  Spec => []IInv
<1>1. ASSUME IInv, [Next]_vars PROVE IInv'
  <2>1. CASE UNCHANGED vars
    BY <1>1, <2>1 DEF vars, IInv, TypeOK, CheckedSoFar, MachinesSorted, Module
  <2> QED  BY <1>1, <2>1, CheckKeepsSorted, CompareKeepsSorted, CallKeepsSorted, StepKeepsSorted DEF Next
<1> QED  BY <1>1, InitIsSorted, PTL DEF Spec

(* validator.cpp, module_loader.cpp: the state of a validation and of a    *)
(* run has its shape, whatever modules are validated and compared, and     *)
(* calls go no deeper than they are looked at.                             *)
THEOREM ModuleRunTyped ==
  Spec => []TypeOK
BY StaysSorted, PTL DEF IInv

(* validator.cpp: code of modules that were validated touches only the     *)
(* resources that all functions on the way to it declare to acquire, finds *)
(* its operands on the stack of its own call and values in the locals that *)
(* it reads, and leaves nothing when it returns: for all modules, of any   *)
(* size, and runs of any length and depth.                                 *)
THEOREM CodeThatIsAcceptedRuns ==
  Spec => []AcceptedCodeRuns
<1>1. IInv => AcceptedCodeRuns
  <2> SUFFICES ASSUME IInv PROVE AcceptedCodeRuns  OBVIOUS
  <2>1. ASSUME NEW r \in Roles, machines[r] # << >>
        PROVE  Sorted(Module[r], machines[r])
    BY <2>1 DEF IInv, MachinesSorted
  <2>2. TouchesAreDeclared  BY <2>1, SortedMachineIsFine DEF TouchesAreDeclared
  <2>3. OperandsAreThere  BY <2>1, SortedMachineIsFine DEF OperandsAreThere
  <2> QED  BY <2>2, <2>3 DEF AcceptedCodeRuns
<1> QED  BY <1>1, StaysSorted, PTL
-----------------------------------------------------------------------------
LEMMA TypesUnfold ==
  TypesUpTo = [n \in 0 .. MaximumTypeDepth |-> TypeLevel(TypesUpTo, n)]
<1> DEFINE Eq(g, top) == g = [n \in 0 .. top |-> TypeLevel(g, n)]
           T == {top \in Nat : \E g : Eq(g, top)}
<1>1. 0 \in T
  <2> DEFINE g == [n \in 0 .. 0 |-> {}]
  <2>1. \A n \in 0 .. 0 : TypeLevel(g, n) = {}  BY DEF TypeLevel
  <2>2. Eq(g, 0)  BY <2>1
  <2> QED  BY <2>2
<1>2. ASSUME NEW top \in Nat, top \in T PROVE top + 1 \in T
  <2>1. PICK g : Eq(g, top)  BY <1>2
  <2> DEFINE h == [n \in 0 .. top + 1 |-> TypeLevel(g, n)]
  <2>2. ASSUME NEW n \in 0 .. top + 1 PROVE TypeLevel(h, n) = TypeLevel(g, n)
    <3>1. CASE n = 0  BY <3>1 DEF TypeLevel
    <3>2. CASE n # 0
      <4>1. n - 1 \in 0 .. top /\ n - 1 \in 0 .. top + 1  BY <3>2
      <4>2. g[n - 1] = TypeLevel(g, n - 1)  BY <2>1, <4>1
      <4>3. h[n - 1] = g[n - 1]  BY <4>1, <4>2
      <4> QED  BY <3>2, <4>3 DEF TypeLevel
    <3> QED  BY <3>1, <3>2
  <2>3. Eq(h, top + 1)  BY <2>2
  <2> HIDE DEF Eq, h
  <2> QED  BY <2>3
<1>3. MaximumTypeDepth \in T
  <2> HIDE DEF T
  <2> QED  BY <1>1, <1>2, NatClosed, DepthAssumption
<1>4. \E g : Eq(g, MaximumTypeDepth)  BY <1>3
<1>5. TypesUpTo = CHOOSE g : Eq(g, MaximumTypeDepth)  BY DEF TypesUpTo, TypeLevel
<1> HIDE DEF Eq
<1>6. Eq(TypesUpTo, MaximumTypeDepth)  BY <1>4, <1>5
<1> QED  BY <1>6 DEF Eq

(* What a depth adds to the one before.                                    *)
LEMMA TypesByDepth ==
  /\ TypesUpTo[0] = {} /\ Types = TypesUpTo[MaximumTypeDepth]
  /\ \A n \in 0 .. MaximumTypeDepth - 1 :
       /\ n \in 0 .. MaximumTypeDepth /\ n + 1 \in 0 .. MaximumTypeDepth
       /\ TypesUpTo[n] \subseteq TypesUpTo[n + 1]
       /\ \A t : t \in TypesUpTo[n + 1] <=> IsType(t, TypesUpTo[n])
<1>1. MaximumTypeDepth \in Nat /\ 0 \in 0 .. MaximumTypeDepth  BY DepthAssumption
<1>2. \A n \in 0 .. MaximumTypeDepth : TypesUpTo[n] = TypeLevel(TypesUpTo, n)
  <2> DEFINE f == TypesUpTo
             level(n) == TypeLevel(f, n)
  <2>1. f = [n \in 0 .. MaximumTypeDepth |-> level(n)]  BY TypesUnfold
  <2> HIDE DEF f, level
  <2>2. \A n \in 0 .. MaximumTypeDepth : f[n] = level(n)  BY <2>1
  <2> QED  BY <2>2 DEF f, level
<1>3. TypesUpTo[0] = {}  BY <1>1, <1>2 DEF TypeLevel
<1>4. ASSUME NEW n \in 0 .. MaximumTypeDepth - 1
      PROVE  /\ n \in Nat /\ n \in 0 .. MaximumTypeDepth /\ n + 1 \in 0 .. MaximumTypeDepth
             /\ TypesUpTo[n + 1] = [kind : TypeKinds, index : Nat, arguments : Seq(TypesUpTo[n])]
             /\ \A t : t \in TypesUpTo[n + 1] <=> IsType(t, TypesUpTo[n])
  <2>1. n \in Nat /\ n \in 0 .. MaximumTypeDepth /\ n + 1 \in 0 .. MaximumTypeDepth /\ n + 1 - 1 = n /\ n + 1 # 0  BY <1>1
  <2>2. TypesUpTo[n + 1] = TypeLevel(TypesUpTo, n + 1)  BY <1>2, <2>1
  <2>3. TypesUpTo[n + 1] = [kind : TypeKinds, index : Nat, arguments : Seq(TypesUpTo[n])]
    <3> DEFINE next == n + 1
    <3>1. next # 0 /\ next - 1 = n /\ TypesUpTo[next] = TypeLevel(TypesUpTo, next)  BY <2>1, <2>2
    <3> HIDE DEF next
    <3>2. TypesUpTo[next] = [kind : TypeKinds, index : Nat, arguments : Seq(TypesUpTo[n])]  BY <3>1 DEF TypeLevel
    <3> QED  BY <3>2 DEF next
  <2>4. \A t : t \in [kind : TypeKinds, index : Nat, arguments : Seq(TypesUpTo[n])] <=> IsType(t, TypesUpTo[n])
    BY DEF IsType, Type
  <2> QED  BY <2>1, <2>3, <2>4
<1> DEFINE T == {n \in Nat : n \in 0 .. MaximumTypeDepth - 1 => TypesUpTo[n] \subseteq TypesUpTo[n + 1]}
<1>5. 0 \in T  BY <1>3
<1>6. ASSUME NEW n \in Nat, n \in T PROVE n + 1 \in T
  <2> SUFFICES ASSUME n + 1 \in 0 .. MaximumTypeDepth - 1 PROVE TypesUpTo[n + 1] \subseteq TypesUpTo[n + 1 + 1]
    OBVIOUS
  <2>1. n \in 0 .. MaximumTypeDepth - 1  BY <1>1
  <2>2. TypesUpTo[n] \subseteq TypesUpTo[n + 1]  BY <1>6, <2>1
  <2>3. Seq(TypesUpTo[n]) \subseteq Seq(TypesUpTo[n + 1])  BY <2>2, SeqMonotonic
  <2>4. ASSUME NEW t \in TypesUpTo[n + 1] PROVE t \in TypesUpTo[n + 1 + 1]
    <3>1. IsType(t, TypesUpTo[n])  BY <1>4, <2>1
    <3>2. IsType(t, TypesUpTo[n + 1])  BY <2>3, <3>1 DEF IsType
    <3> QED  BY <1>4, <3>2
  <2> QED  BY <2>4
<1> HIDE DEF T
<1>7. Nat \subseteq T  BY <1>5, <1>6, NatClosed
<1>8. \A n \in 0 .. MaximumTypeDepth - 1 : TypesUpTo[n] \subseteq TypesUpTo[n + 1]  BY <1>4, <1>7 DEF T
<1> QED  BY <1>3, <1>4, <1>8 DEF Types

(* A type, and those it has as arguments.                                  *)
LEMMA TypesFit ==
  ASSUME NEW t \in Types
  PROVE  IsType(t, Types) /\ DOMAIN t.arguments = 1 .. Len(t.arguments) /\ Len(t.arguments) \in Nat
         /\ \A k \in DOMAIN t.arguments : t.arguments[k] \in Types
<1> DEFINE n == MaximumTypeDepth - 1
<1>1. n \in 0 .. MaximumTypeDepth - 1 /\ n + 1 = MaximumTypeDepth  BY DepthAssumption
<1>2. IsType(t, TypesUpTo[n]) /\ TypesUpTo[n] \subseteq Types  BY <1>1, TypesByDepth
<1> HIDE DEF n
<1>3. t.arguments \in Seq(Types)
  <2>1. Seq(TypesUpTo[n]) \subseteq Seq(Types)  BY <1>2, SeqMonotonic
  <2> QED  BY <1>2, <2>1 DEF IsType
<1>4. IsType(t, Types)  BY <1>2, <1>3 DEF IsType
<1>5. DOMAIN t.arguments = 1 .. Len(t.arguments) /\ Len(t.arguments) \in Nat  BY <1>3, LenProperties
<1>6. \A k \in DOMAIN t.arguments : t.arguments[k] \in Types  BY <1>3, <1>5, ElementOfSeq
<1> QED  BY <1>4, <1>5, <1>6

(* What holds of a type when it holds of its arguments holds of all types. *)
LEMMA TypeInduction ==
  ASSUME NEW P, \A t \in Types : (\A k \in DOMAIN t.arguments : t.arguments[k] \in P) => t \in P
  PROVE  Types \subseteq P
<1> DEFINE T == {n \in Nat : n \in 0 .. MaximumTypeDepth => TypesUpTo[n] \subseteq P /\ TypesUpTo[n] \subseteq Types}
<1> DEFINE U == {n \in Nat : n \in 0 .. MaximumTypeDepth => TypesUpTo[MaximumTypeDepth - n] \subseteq Types}
<1>1. MaximumTypeDepth \in Nat  BY DepthAssumption
<1>2. 0 \in U /\ \A n \in Nat : n \in U => n + 1 \in U
  <2>1. 0 \in U  BY <1>1, TypesByDepth
  <2>2. ASSUME NEW n \in Nat, n \in U PROVE n + 1 \in U
    <3> SUFFICES ASSUME n + 1 \in 0 .. MaximumTypeDepth
                 PROVE  TypesUpTo[MaximumTypeDepth - (n + 1)] \subseteq Types
      OBVIOUS
    <3> DEFINE d == MaximumTypeDepth - (n + 1)
    <3>1. d \in 0 .. MaximumTypeDepth - 1 /\ d + 1 = MaximumTypeDepth - n /\ n \in 0 .. MaximumTypeDepth  BY <1>1
    <3>2. TypesUpTo[d + 1] \subseteq Types  BY <2>2, <3>1
    <3> HIDE DEF d
    <3>3. TypesUpTo[d] \subseteq Types  BY <3>1, <3>2, TypesByDepth
    <3> QED  BY <3>3 DEF d
  <2> QED  BY <2>1, <2>2
<1> HIDE DEF U
<1>3. \A n \in 0 .. MaximumTypeDepth : TypesUpTo[n] \subseteq Types
  <2>1. Nat \subseteq U  BY <1>2, NatClosed
  <2> TAKE n \in 0 .. MaximumTypeDepth
  <2>2. MaximumTypeDepth - n \in Nat /\ MaximumTypeDepth - n \in 0 .. MaximumTypeDepth
        /\ MaximumTypeDepth - (MaximumTypeDepth - n) = n
    BY <1>1
  <2> QED  BY <2>1, <2>2 DEF U
<1>4. 0 \in T  BY TypesByDepth
<1>5. ASSUME NEW n \in Nat, n \in T PROVE n + 1 \in T
  <2> SUFFICES ASSUME n + 1 \in 0 .. MaximumTypeDepth, NEW t \in TypesUpTo[n + 1] PROVE t \in P
    BY <1>3
  <2>1. n \in 0 .. MaximumTypeDepth - 1 /\ n \in 0 .. MaximumTypeDepth  BY <1>1
  <2>2. IsType(t, TypesUpTo[n]) /\ t \in Types  BY <1>3, <2>1, TypesByDepth
  <2>3. ASSUME NEW k \in DOMAIN t.arguments PROVE t.arguments[k] \in P
    <3>1. t.arguments[k] \in TypesUpTo[n]  BY <2>2, ElementOfSeq, LenProperties DEF IsType
    <3> QED  BY <1>5, <2>1, <3>1
  <2> QED  BY <2>2, <2>3
<1> HIDE DEF T
<1>6. MaximumTypeDepth \in T  BY <1>1, <1>4, <1>5, NatClosed
<1> QED  BY <1>1, <1>6, TypesByDepth DEF T

LEMMA SameOfArguments ==
  ASSUME NEW n \in 0 .. MaximumTypeDepth - 1, NEW t \in TypesUpTo[n + 1], NEW g, NEW h,
         \A u \in TypesUpTo[n] : g[u] = h[u]
  PROVE  OfArguments(g, t) = OfArguments(h, t)
<1>1. IsType(t, TypesUpTo[n])  BY TypesByDepth
<1>2. \A k \in DOMAIN t.arguments : t.arguments[k] \in TypesUpTo[n]
  BY <1>1, ElementOfSeq, LenProperties DEF IsType
<1>3. \A k \in DOMAIN t.arguments : g[t.arguments[k]] = h[t.arguments[k]]  BY <1>2
<1> QED  BY <1>3 DEF OfArguments

LEMMA AbilitiesUnfold ==
  ASSUME NEW m, NEW context, NEW t \in Types
  PROVE  typeAbilities(m, t, context) = AbilitiesFrom(m, t, context, HeldBelow(m, t, context))
<1> DEFINE step(u, g) == AbilitiesFrom(m, u, context, OfArguments(g, u))
           Eq(g, S) == g = [u \in S |-> step(u, g)]
           T == {n \in Nat : n \in 0 .. MaximumTypeDepth => \E g : Eq(g, TypesUpTo[n])}
           r == CHOOSE g : Eq(g, Types)
<1>1. 0 \in T
  <2> DEFINE g == [u \in TypesUpTo[0] |-> u]
  <2>1. \A u \in TypesUpTo[0] : u = step(u, g)  BY TypesByDepth
  <2>2. Eq(g, TypesUpTo[0])  BY <2>1
  <2> HIDE DEF Eq, g
  <2> QED  BY <2>2
<1>2. ASSUME NEW n \in Nat, n \in T PROVE n + 1 \in T
  <2> SUFFICES ASSUME n + 1 \in 0 .. MaximumTypeDepth PROVE \E g : Eq(g, TypesUpTo[n + 1])
    OBVIOUS
  <2>1. n \in 0 .. MaximumTypeDepth - 1 /\ n \in 0 .. MaximumTypeDepth  BY DepthAssumption
  <2>2. PICK g : Eq(g, TypesUpTo[n])  BY <1>2, <2>1
  <2> DEFINE h == [u \in TypesUpTo[n + 1] |-> step(u, g)]
  <2>3. \A u \in TypesUpTo[n] : g[u] = h[u]
    <3> HIDE DEF step
    <3> QED  BY <2>1, <2>2, TypesByDepth
  <2>4. ASSUME NEW u \in TypesUpTo[n + 1] PROVE step(u, g) = step(u, h)
    <3> HIDE DEF h
    <3>1. OfArguments(g, u) = OfArguments(h, u)  BY <2>1, <2>3, SameOfArguments
    <3> QED  BY <3>1
  <2> HIDE DEF step
  <2>5. Eq(h, TypesUpTo[n + 1])  BY <2>4
  <2> HIDE DEF Eq, h
  <2> QED  BY <2>5
<1>3. \E g : Eq(g, Types)
  <2> HIDE DEF Eq
  <2> DEFINE U == T
  <2>1. Nat \subseteq U
    <3> HIDE DEF U
    <3>1. 0 \in U /\ \A n \in Nat : n \in U => n + 1 \in U  BY <1>1, <1>2 DEF U
    <3> QED  BY <3>1, NatClosed
  <2> QED  BY <2>1, DepthAssumption, TypesByDepth
<1>4. Eq(r, Types)
  <2> HIDE DEF Eq
  <2> QED  BY <1>3
<1>5. \A u : typeAbilities(m, u, context) = r[u]  BY DEF typeAbilities, AbilitiesFrom, OfArguments
<1> HIDE DEF r
<1>6. r[t] = step(t, r)
  <2> HIDE DEF step
  <2> QED  BY <1>4
<1>7. OfArguments(r, t) = HeldBelow(m, t, context)  BY <1>5 DEF OfArguments, HeldBelow
<1> QED  BY <1>5, <1>6, <1>7

LEMMA FilledUnfold ==
  ASSUME NEW arguments, NEW t \in Types
  PROVE  Filled(t, arguments) = FilledFrom(t, arguments, FilledBelow(t, arguments))
<1> DEFINE step(u, g) == FilledFrom(u, arguments, OfArguments(g, u))
           Eq(g, S) == g = [u \in S |-> step(u, g)]
           T == {n \in Nat : n \in 0 .. MaximumTypeDepth => \E g : Eq(g, TypesUpTo[n])}
           r == CHOOSE g : Eq(g, Types)
<1>1. 0 \in T
  <2> DEFINE g == [u \in TypesUpTo[0] |-> u]
  <2>1. \A u \in TypesUpTo[0] : u = step(u, g)  BY TypesByDepth
  <2>2. Eq(g, TypesUpTo[0])  BY <2>1
  <2> HIDE DEF Eq, g
  <2> QED  BY <2>2
<1>2. ASSUME NEW n \in Nat, n \in T PROVE n + 1 \in T
  <2> SUFFICES ASSUME n + 1 \in 0 .. MaximumTypeDepth PROVE \E g : Eq(g, TypesUpTo[n + 1])
    OBVIOUS
  <2>1. n \in 0 .. MaximumTypeDepth - 1 /\ n \in 0 .. MaximumTypeDepth  BY DepthAssumption
  <2>2. PICK g : Eq(g, TypesUpTo[n])  BY <1>2, <2>1
  <2> DEFINE h == [u \in TypesUpTo[n + 1] |-> step(u, g)]
  <2>3. \A u \in TypesUpTo[n] : g[u] = h[u]
    <3> HIDE DEF step
    <3> QED  BY <2>1, <2>2, TypesByDepth
  <2>4. ASSUME NEW u \in TypesUpTo[n + 1] PROVE step(u, g) = step(u, h)
    <3> HIDE DEF h
    <3>1. OfArguments(g, u) = OfArguments(h, u)  BY <2>1, <2>3, SameOfArguments
    <3> QED  BY <3>1
  <2> HIDE DEF step
  <2>5. Eq(h, TypesUpTo[n + 1])  BY <2>4
  <2> HIDE DEF Eq, h
  <2> QED  BY <2>5
<1>3. \E g : Eq(g, Types)
  <2> HIDE DEF Eq
  <2> DEFINE U == T
  <2>1. Nat \subseteq U
    <3> HIDE DEF U
    <3>1. 0 \in U /\ \A n \in Nat : n \in U => n + 1 \in U  BY <1>1, <1>2 DEF U
    <3> QED  BY <3>1, NatClosed
  <2> QED  BY <2>1, DepthAssumption, TypesByDepth
<1>4. Eq(r, Types)
  <2> HIDE DEF Eq
  <2> QED  BY <1>3
<1>5. \A u : Filled(u, arguments) = r[u]  BY DEF Filled, FilledFrom, OfArguments
<1> HIDE DEF r
<1>6. r[t] = step(t, r)
  <2> HIDE DEF step
  <2> QED  BY <1>4
<1>7. OfArguments(r, t) = FilledBelow(t, arguments)  BY <1>5 DEF OfArguments, FilledBelow
<1> QED  BY <1>5, <1>6, <1>7

(* The parts of a type, from those of its arguments.                       *)
PartsFrom(t, g) == {t} \cup UNION {g[v] : v \in ToSet(t.arguments)}
LEMMA PartsFromArguments ==
  ASSUME NEW t, NEW g, NEW h, OfArguments(g, t) = OfArguments(h, t)
  PROVE  PartsFrom(t, g) = PartsFrom(t, h)
<1>1. \A k \in DOMAIN t.arguments : g[t.arguments[k]] = h[t.arguments[k]]  BY DEF OfArguments
<1>2. \A v \in ToSet(t.arguments) : g[v] = h[v]  BY <1>1 DEF ToSet
<1> QED  BY <1>2 DEF PartsFrom

LEMMA PartsUnfold ==
  ASSUME NEW t \in Types
  PROVE  Parts(t) = {t} \cup UNION {Parts(t.arguments[k]) : k \in DOMAIN t.arguments}
<1> DEFINE step(u, g) == PartsFrom(u, g)
           Eq(g, S) == g = [u \in S |-> step(u, g)]
           T == {n \in Nat : n \in 0 .. MaximumTypeDepth => \E g : Eq(g, TypesUpTo[n])}
           r == CHOOSE g : Eq(g, Types)
<1>1. 0 \in T
  <2> DEFINE g == [u \in TypesUpTo[0] |-> u]
  <2>1. \A u \in TypesUpTo[0] : u = step(u, g)  BY TypesByDepth
  <2>2. Eq(g, TypesUpTo[0])  BY <2>1
  <2> HIDE DEF Eq, g
  <2> QED  BY <2>2
<1>2. ASSUME NEW n \in Nat, n \in T PROVE n + 1 \in T
  <2> SUFFICES ASSUME n + 1 \in 0 .. MaximumTypeDepth PROVE \E g : Eq(g, TypesUpTo[n + 1])
    OBVIOUS
  <2>1. n \in 0 .. MaximumTypeDepth - 1 /\ n \in 0 .. MaximumTypeDepth  BY DepthAssumption
  <2>2. PICK g : Eq(g, TypesUpTo[n])  BY <1>2, <2>1
  <2> DEFINE h == [u \in TypesUpTo[n + 1] |-> step(u, g)]
  <2>3. \A u \in TypesUpTo[n] : g[u] = h[u]
    <3> HIDE DEF step
    <3> QED  BY <2>1, <2>2, TypesByDepth
  <2>4. ASSUME NEW u \in TypesUpTo[n + 1] PROVE step(u, g) = step(u, h)
    <3> HIDE DEF h
    <3>1. OfArguments(g, u) = OfArguments(h, u)  BY <2>1, <2>3, SameOfArguments
    <3> QED  BY <3>1, PartsFromArguments
  <2> HIDE DEF step
  <2>5. Eq(h, TypesUpTo[n + 1])  BY <2>4
  <2> HIDE DEF Eq, h
  <2> QED  BY <2>5
<1>3. \E g : Eq(g, Types)
  <2> HIDE DEF Eq
  <2> DEFINE U == T
  <2>1. Nat \subseteq U
    <3> HIDE DEF U
    <3>1. 0 \in U /\ \A n \in Nat : n \in U => n + 1 \in U  BY <1>1, <1>2 DEF U
    <3> QED  BY <3>1, NatClosed
  <2> QED  BY <2>1, DepthAssumption, TypesByDepth
<1>4. Eq(r, Types)
  <2> HIDE DEF Eq
  <2> QED  BY <1>3
<1>5. \A u : Parts(u) = r[u]  BY DEF Parts, PartsFrom
<1> HIDE DEF r
<1>6. r[t] = step(t, r)
  <2> HIDE DEF step
  <2> QED  BY <1>4
<1>7. r[t] = {t} \cup UNION {r[v] : v \in ToSet(t.arguments)}  BY <1>6 DEF PartsFrom
<1>8. ToSet(t.arguments) = {t.arguments[k] : k \in DOMAIN t.arguments}  BY DEF ToSet
<1> QED  BY <1>5, <1>7, <1>8

LEMMA PartsFit ==
  ASSUME NEW t \in Types
  PROVE  /\ t \in Parts(t) /\ Parts(t) \subseteq Types
         /\ \A k \in DOMAIN t.arguments : Parts(t.arguments[k]) \subseteq Parts(t)
         /\ \A u \in Parts(t) : u = t \/ \E k \in DOMAIN t.arguments : u \in Parts(t.arguments[k])
<1> DEFINE P == {s \in Types : Parts(s) \subseteq Types}
<1>1. ASSUME NEW s \in Types, \A k \in DOMAIN s.arguments : s.arguments[k] \in P PROVE s \in P
  <2>1. Parts(s) = {s} \cup UNION {Parts(s.arguments[k]) : k \in DOMAIN s.arguments}  BY PartsUnfold
  <2> QED  BY <1>1, <2>1
<1> HIDE DEF P
<1>2. Types \subseteq P  BY <1>1, TypeInduction
<1>3. Parts(t) = {t} \cup UNION {Parts(t.arguments[k]) : k \in DOMAIN t.arguments}  BY PartsUnfold
<1> QED  BY <1>2, <1>3 DEF P

LEMMA ValidUnfolds ==
  ASSUME NEW m, NEW parameters, NEW t \in Types
  PROVE  Valid(m, t, parameters) <=> /\ ValidPart(m, t, parameters)
                                     /\ \A k \in DOMAIN t.arguments : Valid(m, t.arguments[k], parameters)
<1>1. ASSUME NEW s \in Types
      PROVE  Valid(m, s, parameters) <=> \A u \in Parts(s) : ValidPart(m, u, parameters)
  <2>1. ASSUME NEW u \in Parts(s)
        PROVE  (CASE u.kind = "Struct" -> /\ u.index \in DOMAIN m.structHandles
                                          /\ Len(u.arguments) = Len(m.structHandles[u.index].typeParameters)
                  [] u.kind = "TypeParameter" -> u.index \in 1 .. parameters /\ u.arguments = << >>
                  [] u.kind = "Reference" -> FALSE /\ u = s /\ Len(u.arguments) = 1
                  [] u.kind = "Vector" -> Len(u.arguments) = 1
                  [] u.kind = "U64" -> u.arguments = << >>) <=> ValidPart(m, u, parameters)
    <3>1. u.kind \in TypeKinds  BY PartsFit, TypesFit DEF IsType
    <3> DEFINE kind == u.kind
               handle == m.structHandles[u.index].typeParameters
               struct == u.index \in DOMAIN m.structHandles /\ Len(u.arguments) = Len(handle)
               parameter == u.index \in 1 .. parameters /\ u.arguments = << >>
               one == Len(u.arguments) = 1
               none == u.arguments = << >>
               itself == u = s
    <3>2. kind \in {"U64", "TypeParameter", "Vector", "Reference", "Struct"}  BY <3>1 DEF TypeKinds
    <3>3. ValidPart(m, u, parameters) <=>
            /\ kind # "Reference" /\ (kind = "Struct" => struct) /\ (kind = "TypeParameter" => parameter)
            /\ (kind = "Vector" => one) /\ (kind = "U64" => none)
      BY DEF ValidPart
    <3> HIDE DEF kind, struct, parameter, one, none, itself
    <3>4. (CASE kind = "Struct" -> struct [] kind = "TypeParameter" -> parameter
             [] kind = "Reference" -> FALSE /\ itself /\ one [] kind = "Vector" -> one [] kind = "U64" -> none)
          <=> /\ kind # "Reference" /\ (kind = "Struct" => struct) /\ (kind = "TypeParameter" => parameter)
              /\ (kind = "Vector" => one) /\ (kind = "U64" => none)
      BY <3>2
    <3> QED  BY <3>3, <3>4 DEF kind, struct, parameter, one, none, itself
  <2> QED  BY <2>1 DEF Valid, TypeIsValid
<1>2. t \in Parts(t) /\ Parts(t) = {t} \cup UNION {Parts(t.arguments[k]) : k \in DOMAIN t.arguments}
  BY PartsFit, PartsUnfold
<1>3. \A k \in DOMAIN t.arguments :
        Valid(m, t.arguments[k], parameters) <=> \A u \in Parts(t.arguments[k]) : ValidPart(m, u, parameters)
  BY <1>1, TypesFit
<1> QED  BY <1>1, <1>2, <1>3

LEMMA NestedUnfolds ==
  ASSUME NEW m, NEW context, NEW t \in Types
  PROVE  NestedConstraintsOK(m, t, context) <=>
           /\ Constrained(m, t, context)
           /\ \A k \in DOMAIN t.arguments : NestedConstraintsOK(m, t.arguments[k], context)
<1>1. \A s : NestedConstraintsOK(m, s, context) <=> \A u \in Parts(s) : Constrained(m, u, context)
  BY DEF NestedConstraintsOK, Constrained
<1>2. Parts(t) = {t} \cup UNION {Parts(t.arguments[k]) : k \in DOMAIN t.arguments}  BY PartsUnfold
<1> QED  BY <1>1, <1>2

LEMMA PhantomsUnfold ==
  ASSUME NEW m, NEW parameters, NEW t \in Types, PhantomsOK(m, t, parameters)
  PROVE  /\ ~ Phantom(t, parameters)
         /\ \A k \in DOMAIN t.arguments :
              IF Phantom(t.arguments[k], parameters)
              THEN t.kind = "Struct" /\ m.structHandles[t.index].typeParameters[k].phantom
              ELSE PhantomsOK(m, t.arguments[k], parameters)
<1>1. t \in Parts(t) /\ \A k \in DOMAIN t.arguments : Parts(t.arguments[k]) \subseteq Parts(t)  BY PartsFit
<1> QED  BY <1>1 DEF PhantomsOK

(* A type whose parameters are replaced is of the same kind, if it is not  *)
(* one of them.                                                            *)
LEMMA FilledFits ==
  ASSUME NEW arguments, NEW t \in Types, Filled(t, arguments) \in Types
  PROVE  IF t.kind = "TypeParameter" THEN Filled(t, arguments) = arguments[t.index]
         ELSE LET u == Filled(t, arguments) IN
              /\ u.kind = t.kind /\ u.index = t.index
              /\ DOMAIN u.arguments = DOMAIN t.arguments /\ Len(u.arguments) = Len(t.arguments)
              /\ t.arguments = << >> => u.arguments = << >>
              /\ \A k \in DOMAIN t.arguments : /\ u.arguments[k] = Filled(t.arguments[k], arguments)
                                               /\ u.arguments[k] \in Types
<1>1. Filled(t, arguments) = FilledFrom(t, arguments, FilledBelow(t, arguments))  BY FilledUnfold
<1>2. CASE t.kind = "TypeParameter"  BY <1>1, <1>2 DEF FilledFrom
<1>3. CASE t.kind # "TypeParameter"
  <2> DEFINE below == FilledBelow(t, arguments)
             u == Filled(t, arguments)
  <2>1. DOMAIN below = DOMAIN t.arguments
        /\ \A k \in DOMAIN t.arguments : below[k] = Filled(t.arguments[k], arguments)
    BY DEF FilledBelow
  <2> HIDE DEF below
  <2>2. u = [t EXCEPT !.arguments = below]  BY <1>1, <1>3 DEF FilledFrom, below
  <2>3. IsType(t, Types) /\ DOMAIN t.arguments = 1 .. Len(t.arguments) /\ Len(t.arguments) \in Nat  BY TypesFit
  <2>4. t = Type(t.kind, t.index, t.arguments)  BY <2>3 DEF IsType
  <2>5. u.kind = t.kind /\ u.index = t.index /\ u.arguments = below
    <3> HIDE DEF u
    <3>1. ASSUME NEW kind, NEW index, NEW s, t = Type(kind, index, s)
          PROVE  u.kind = kind /\ u.index = index /\ u.arguments = below
      BY <2>2, <3>1 DEF Type
    <3> QED  BY <2>4, <3>1 DEF Type
  <2>6. u.arguments \in Seq(Types) /\ DOMAIN u.arguments = 1 .. Len(u.arguments) /\ Len(u.arguments) \in Nat
        /\ \A k \in DOMAIN u.arguments : u.arguments[k] \in Types
    BY TypesFit DEF IsType
  <2> HIDE DEF u
  <2>7. Len(u.arguments) = Len(t.arguments)  BY <2>1, <2>3, <2>5, <2>6
  <2>8. t.arguments = << >> => u.arguments = << >>
    <3>1. t.arguments = << >> => Len(t.arguments) = 0  OBVIOUS
    <3> QED  BY <2>6, <2>7, <3>1, EmptySeq
  <2> QED  BY <1>3, <2>1, <2>5, <2>6, <2>7, <2>8 DEF u
<1> QED  BY <1>2, <1>3

(* Then a valid type is one without type parameters.                       *)
LEMMA FilledIsValid ==
  ASSUME NEW m, NEW n, NEW arguments, Replaces(m, arguments, n),
         NEW t \in Types, Valid(m, t, n), Filled(t, arguments) \in Types
  PROVE  Valid(m, Filled(t, arguments), 0)
<1> DEFINE P == {s \in Types : Valid(m, s, n) /\ Filled(s, arguments) \in Types => Valid(m, Filled(s, arguments), 0)}
<1>1. ASSUME NEW s \in Types, \A k \in DOMAIN s.arguments : s.arguments[k] \in P PROVE s \in P
  <2> SUFFICES ASSUME Valid(m, s, n), Filled(s, arguments) \in Types PROVE Valid(m, Filled(s, arguments), 0)
    OBVIOUS
  <2>1. ValidPart(m, s, n) /\ \A k \in DOMAIN s.arguments : Valid(m, s.arguments[k], n)  BY ValidUnfolds
  <2>2. CASE s.kind = "TypeParameter"
    <3>1. s.index \in 1 .. n  BY <2>1, <2>2 DEF ValidPart
    <3>2. Filled(s, arguments) = arguments[s.index]  BY <2>2, FilledFits
    <3> QED  BY <3>1, <3>2 DEF Replaces
  <2>3. CASE s.kind # "TypeParameter"
    <3> DEFINE u == Filled(s, arguments)
    <3>1. /\ u.kind = s.kind /\ u.index = s.index /\ DOMAIN u.arguments = DOMAIN s.arguments
          /\ Len(u.arguments) = Len(s.arguments) /\ (s.arguments = << >> => u.arguments = << >>)
          /\ \A k \in DOMAIN s.arguments : u.arguments[k] = Filled(s.arguments[k], arguments) /\ u.arguments[k] \in Types
      BY <2>3, FilledFits
    <3>2. \A k \in DOMAIN u.arguments : Valid(m, u.arguments[k], 0)  BY <1>1, <2>1, <3>1
    <3> HIDE DEF u
    <3>3. ValidPart(m, u, 0)  BY <2>1, <2>3, <3>1 DEF ValidPart
    <3>4. Valid(m, u, 0)  BY <3>2, <3>3, ValidUnfolds DEF u
    <3> QED  BY <3>4 DEF u
  <2> QED  BY <2>2, <2>3
<1> HIDE DEF P
<1>2. Types \subseteq P  BY <1>1, TypeInduction
<1> QED  BY <1>2 DEF P

(* The abilities of a type, one kind after the other.                      *)
LEMMA AbilitiesByKind ==
  ASSUME NEW m, NEW context, NEW t \in Types
  PROVE  LET abilities == typeAbilities(m, t, context)
             held == HeldBelow(m, t, context)
         IN  /\ t.kind = "U64" => abilities = {"copy", "drop", "store"}
             /\ t.kind = "Reference" => abilities = {"copy", "drop"}
             /\ t.kind = "TypeParameter" => abilities = IF t.index \in DOMAIN context THEN context[t.index] ELSE {}
             /\ t.kind = "Vector" => abilities = {"copy", "drop", "store"} \cap held[1]
             /\ t.kind = "Struct" => abilities = StructAbilities(m.structHandles[t.index], held)
<1> DEFINE abilities == typeAbilities(m, t, context)
           held == HeldBelow(m, t, context)
           named == IF t.index \in DOMAIN context THEN context[t.index] ELSE {}
           struct == StructAbilities(m.structHandles[t.index], held)
           kind == t.kind
<1>1. abilities = CASE kind = "U64" -> {"copy", "drop", "store"} [] kind = "Reference" -> {"copy", "drop"}
                    [] kind = "TypeParameter" -> named [] kind = "Vector" -> {"copy", "drop", "store"} \cap held[1]
                    [] kind = "Struct" -> struct
  BY AbilitiesUnfold DEF AbilitiesFrom
<1> HIDE DEF abilities, held, named, struct, kind
<1>2. /\ kind = "U64" => abilities = {"copy", "drop", "store"}
      /\ kind = "Reference" => abilities = {"copy", "drop"}
      /\ kind = "TypeParameter" => abilities = named
      /\ kind = "Vector" => abilities = {"copy", "drop", "store"} \cap held[1]
      /\ kind = "Struct" => abilities = struct
  BY <1>1
<1> QED  BY <1>2 DEF abilities, held, named, struct, kind

LEMMA MoreHeldMoreAbilities ==
  ASSUME NEW handle, NEW held, NEW more, DOMAIN more = DOMAIN held,
         \A k \in DOMAIN held : held[k] \subseteq more[k]
  PROVE  StructAbilities(handle, held) \subseteq StructAbilities(handle, more)
BY DEF StructAbilities

LEMMA HeldFits ==
  ASSUME NEW m, NEW context, NEW t
  PROVE  /\ DOMAIN HeldBelow(m, t, context) = DOMAIN t.arguments
         /\ \A k \in DOMAIN t.arguments : HeldBelow(m, t, context)[k] = typeAbilities(m, t.arguments[k], context)
BY DEF HeldBelow

LEMMA VectorHasOne ==
  ASSUME NEW m, NEW n, NEW t \in Types, Valid(m, t, n), t.kind = "Vector"
  PROVE  1 \in DOMAIN t.arguments
BY ValidUnfolds, TypesFit DEF ValidPart

(* A type has the abilities that it had when each of its parameters had    *)
(* those of the type now in its place, or fewer.                           *)
LEMMA FilledHasAbilities ==
  ASSUME NEW m, NEW n, NEW arguments, Replaces(m, arguments, n),
         NEW context, \A k \in 1 .. n : context[k] \subseteq typeAbilities(m, arguments[k], << >>),
         NEW t \in Types, Valid(m, t, n), Filled(t, arguments) \in Types
  PROVE  typeAbilities(m, t, context) \subseteq typeAbilities(m, Filled(t, arguments), << >>)
<1> DEFINE now(s) == typeAbilities(m, Filled(s, arguments), << >>)
           P == {s \in Types : Valid(m, s, n) /\ Filled(s, arguments) \in Types => typeAbilities(m, s, context) \subseteq now(s)}
<1>1. ASSUME NEW s \in Types, \A k \in DOMAIN s.arguments : s.arguments[k] \in P PROVE s \in P
  <2> SUFFICES ASSUME Valid(m, s, n), Filled(s, arguments) \in Types PROVE typeAbilities(m, s, context) \subseteq now(s)
    OBVIOUS
  <2> DEFINE u == Filled(s, arguments)
             held == HeldBelow(m, s, context)
             more == HeldBelow(m, u, << >>)
  <2>1. ValidPart(m, s, n) /\ \A k \in DOMAIN s.arguments : Valid(m, s.arguments[k], n)  BY ValidUnfolds
  <2>2. CASE s.kind = "TypeParameter"
    <3>1. s.index \in 1 .. n  BY <2>1, <2>2 DEF ValidPart
    <3>2. u = arguments[s.index]  BY <2>2, FilledFits
    <3>3. typeAbilities(m, s, context) = IF s.index \in DOMAIN context THEN context[s.index] ELSE {}
      BY <2>2, AbilitiesByKind
    <3> QED  BY <3>1, <3>2, <3>3
  <2>3. CASE s.kind # "TypeParameter"
    <3>1. /\ u.kind = s.kind /\ u.index = s.index /\ DOMAIN u.arguments = DOMAIN s.arguments
          /\ \A k \in DOMAIN s.arguments : u.arguments[k] = Filled(s.arguments[k], arguments) /\ u.arguments[k] \in Types
      BY <2>3, FilledFits
    <3>2. DOMAIN more = DOMAIN held /\ \A k \in DOMAIN held : held[k] \subseteq more[k]
      <4>1. DOMAIN held = DOMAIN s.arguments /\ DOMAIN more = DOMAIN s.arguments  BY <3>1, HeldFits
      <4>2. ASSUME NEW k \in DOMAIN s.arguments PROVE held[k] \subseteq more[k]
        <5>1. typeAbilities(m, s.arguments[k], context) \subseteq now(s.arguments[k])  BY <1>1, <2>1, <3>1
        <5>2. held[k] = typeAbilities(m, s.arguments[k], context)  BY HeldFits
        <5>3. more[k] = now(s.arguments[k])  BY <3>1, HeldFits
        <5> QED  BY <5>1, <5>2, <5>3
      <4> QED  BY <4>1, <4>2
    <3>3. u.kind \in TypeKinds /\ u \in Types  BY TypesFit DEF IsType
    <3>4. s.kind = "Vector" => 1 \in DOMAIN held  BY VectorHasOne, HeldFits
    <3> HIDE DEF u, held, more
    <3>5. typeAbilities(m, s, context) \subseteq typeAbilities(m, u, << >>)
      <4>1. CASE s.kind = "U64"  BY <3>1, <3>3, <4>1, AbilitiesByKind
      <4>2. CASE s.kind = "Reference"  BY <3>1, <3>3, <4>2, AbilitiesByKind
      <4>3. CASE s.kind = "Vector"
        <5>1. /\ typeAbilities(m, s, context) = {"copy", "drop", "store"} \cap held[1]
              /\ typeAbilities(m, u, << >>) = {"copy", "drop", "store"} \cap more[1]
          BY <3>1, <3>3, <4>3, AbilitiesByKind DEF held, more
        <5> QED  BY <3>2, <3>4, <4>3, <5>1
      <4>4. CASE s.kind = "Struct"
        <5>1. /\ typeAbilities(m, s, context) = StructAbilities(m.structHandles[s.index], held)
              /\ typeAbilities(m, u, << >>) = StructAbilities(m.structHandles[s.index], more)
          BY <3>1, <3>3, <4>4, AbilitiesByKind DEF held, more
        <5> QED  BY <3>2, <5>1, MoreHeldMoreAbilities
      <4> QED  BY <2>3, <3>1, <3>3, <4>1, <4>2, <4>3, <4>4 DEF TypeKinds
    <3> QED  BY <3>5 DEF u
  <2> QED  BY <2>2, <2>3
<1> HIDE DEF P
<1>2. Types \subseteq P  BY <1>1, TypeInduction
<1> QED  BY <1>2 DEF P

(* An ability that a field has when all parameters have it is left to it   *)
(* by the types in their places, those of phantom parameters aside.        *)
LEMMA FilledKeepsAbility ==
  ASSUME NEW m, NEW n, NEW arguments, Replaces(m, arguments, n),
         NEW parameters, DOMAIN parameters = 1 .. n, NEW a, a # "key",
         \A k \in 1 .. n : ~ parameters[k].phantom => a \in typeAbilities(m, arguments[k], << >>),
         NEW t \in Types, Valid(m, t, n), PhantomsOK(m, t, parameters),
         a \in typeAbilities(m, t, Everything(parameters)), Filled(t, arguments) \in Types
  PROVE  a \in typeAbilities(m, Filled(t, arguments), << >>)
<1> DEFINE context == Everything(parameters)
           Fit(s) == Valid(m, s, n) /\ PhantomsOK(m, s, parameters) /\ a \in typeAbilities(m, s, context)
           P == {s \in Types : Fit(s) /\ Filled(s, arguments) \in Types => a \in typeAbilities(m, Filled(s, arguments), << >>)}
<1>1. ASSUME NEW s \in Types, \A k \in DOMAIN s.arguments : s.arguments[k] \in P PROVE s \in P
  <2> SUFFICES ASSUME Fit(s), Filled(s, arguments) \in Types PROVE a \in typeAbilities(m, Filled(s, arguments), << >>)
    OBVIOUS
  <2> DEFINE u == Filled(s, arguments)
             held == HeldBelow(m, s, context)
             more == HeldBelow(m, u, << >>)
  <2>1. ValidPart(m, s, n) /\ \A k \in DOMAIN s.arguments : Valid(m, s.arguments[k], n)  BY ValidUnfolds
  <2>2. /\ ~ Phantom(s, parameters)
        /\ \A k \in DOMAIN s.arguments :
             IF Phantom(s.arguments[k], parameters)
             THEN s.kind = "Struct" /\ m.structHandles[s.index].typeParameters[k].phantom
             ELSE PhantomsOK(m, s.arguments[k], parameters)
    BY PhantomsUnfold
  <2>3. CASE s.kind = "TypeParameter"
    <3>1. s.index \in 1 .. n  BY <2>1, <2>3 DEF ValidPart
    <3>2. u = arguments[s.index]  BY <2>3, FilledFits
    <3>3. ~ parameters[s.index].phantom  BY <2>2, <2>3, <3>1 DEF Phantom
    <3> QED  BY <3>1, <3>2, <3>3
  <2>4. CASE s.kind # "TypeParameter"
    <3>1. /\ u.kind = s.kind /\ u.index = s.index /\ DOMAIN u.arguments = DOMAIN s.arguments
          /\ \A k \in DOMAIN s.arguments : u.arguments[k] = Filled(s.arguments[k], arguments) /\ u.arguments[k] \in Types
      BY <2>4, FilledFits
    <3>2. /\ DOMAIN held = DOMAIN s.arguments /\ DOMAIN more = DOMAIN s.arguments
          /\ \A k \in DOMAIN s.arguments :
               /\ held[k] = typeAbilities(m, s.arguments[k], context)
               /\ more[k] = typeAbilities(m, Filled(s.arguments[k], arguments), << >>)
      BY <3>1, HeldFits
    <3>3. \A k \in DOMAIN s.arguments : ~ Phantom(s.arguments[k], parameters) /\ a \in held[k] => a \in more[k]
      BY <1>1, <2>1, <2>2, <3>1, <3>2
    <3>4. u.kind \in TypeKinds /\ u \in Types  BY TypesFit DEF IsType
    <3>5. s.kind = "Vector" => 1 \in DOMAIN s.arguments  BY VectorHasOne
    <3>6. a \in typeAbilities(m, s, context)  OBVIOUS
    <3> HIDE DEF u, held, more
    <3>7. a \in typeAbilities(m, u, << >>)
      <4>1. CASE s.kind = "U64"  BY <3>1, <3>4, <3>6, <4>1, AbilitiesByKind
      <4>2. CASE s.kind = "Reference"  BY <3>1, <3>4, <3>6, <4>2, AbilitiesByKind
      <4>3. CASE s.kind = "Vector"
        <5>1. /\ typeAbilities(m, s, context) = {"copy", "drop", "store"} \cap held[1]
              /\ typeAbilities(m, u, << >>) = {"copy", "drop", "store"} \cap more[1]
          BY <3>1, <3>4, <4>3, AbilitiesByKind DEF held, more
        <5>2. ~ Phantom(s.arguments[1], parameters)  BY <2>2, <3>5, <4>3
        <5> QED  BY <3>3, <3>5, <3>6, <4>3, <5>1, <5>2
      <4>4. CASE s.kind = "Struct"
        <5> DEFINE handle == m.structHandles[s.index]
        <5>1. /\ typeAbilities(m, s, context) = StructAbilities(handle, held)
              /\ typeAbilities(m, u, << >>) = StructAbilities(handle, more)
          BY <3>1, <3>4, <4>4, AbilitiesByKind DEF held, more
        <5>2. \A k \in DOMAIN s.arguments : Phantom(s.arguments[k], parameters) => handle.typeParameters[k].phantom
          BY <2>2
        <5> HIDE DEF handle
        <5>3. a \in handle.abilities /\ \A k \in DOMAIN held : handle.typeParameters[k].phantom \/ a \in held[k]
          BY <3>6, <5>1 DEF StructAbilities, Required
        <5>4. \A k \in DOMAIN more : handle.typeParameters[k].phantom \/ a \in more[k]
          BY <3>2, <3>3, <5>2, <5>3
        <5> QED  BY <5>1, <5>3, <5>4 DEF StructAbilities, Required
      <4> QED  BY <2>4, <3>1, <3>4, <4>1, <4>2, <4>3, <4>4 DEF TypeKinds
    <3> QED  BY <3>7 DEF u
  <2> QED  BY <2>3, <2>4
<1> HIDE DEF P
<1>2. Types \subseteq P  BY <1>1, TypeInduction
<1> QED  BY <1>2 DEF P

(* The constraints inside a type hold when its parameters are replaced.    *)
LEMMA FilledIsNested ==
  ASSUME NEW m, NEW n, NEW arguments, Replaces(m, arguments, n),
         \A k \in 1 .. n : NestedConstraintsOK(m, arguments[k], << >>),
         NEW context, \A k \in 1 .. n : context[k] \subseteq typeAbilities(m, arguments[k], << >>),
         NEW t \in Types, Valid(m, t, n), NestedConstraintsOK(m, t, context), Filled(t, arguments) \in Types
  PROVE  NestedConstraintsOK(m, Filled(t, arguments), << >>)
<1> DEFINE Fit(s) == Valid(m, s, n) /\ NestedConstraintsOK(m, s, context)
           P == {s \in Types : Fit(s) /\ Filled(s, arguments) \in Types => NestedConstraintsOK(m, Filled(s, arguments), << >>)}
<1>1. ASSUME NEW s \in Types, \A k \in DOMAIN s.arguments : s.arguments[k] \in P PROVE s \in P
  <2> SUFFICES ASSUME Fit(s), Filled(s, arguments) \in Types PROVE NestedConstraintsOK(m, Filled(s, arguments), << >>)
    OBVIOUS
  <2> DEFINE u == Filled(s, arguments)
  <2>1. ValidPart(m, s, n) /\ \A k \in DOMAIN s.arguments : Valid(m, s.arguments[k], n)  BY ValidUnfolds
  <2>2. Constrained(m, s, context) /\ \A k \in DOMAIN s.arguments : NestedConstraintsOK(m, s.arguments[k], context)
    BY NestedUnfolds
  <2>3. CASE s.kind = "TypeParameter"
    <3>1. s.index \in 1 .. n  BY <2>1, <2>3 DEF ValidPart
    <3> QED  BY <2>3, <3>1, FilledFits
  <2>4. CASE s.kind # "TypeParameter"
    <3>1. /\ u.kind = s.kind /\ u.index = s.index /\ DOMAIN u.arguments = DOMAIN s.arguments
          /\ \A k \in DOMAIN s.arguments : u.arguments[k] = Filled(s.arguments[k], arguments) /\ u.arguments[k] \in Types
      BY <2>4, FilledFits
    <3>2. \A k \in DOMAIN u.arguments : NestedConstraintsOK(m, u.arguments[k], << >>)  BY <1>1, <2>1, <2>2, <3>1
    <3>3. \A k \in DOMAIN s.arguments :
            typeAbilities(m, s.arguments[k], context) \subseteq typeAbilities(m, u.arguments[k], << >>)
      <4> TAKE k \in DOMAIN s.arguments
      <4> DEFINE v == s.arguments[k]
      <4>1. v \in Types /\ Valid(m, v, n) /\ Filled(v, arguments) \in Types  BY <2>1, <3>1, TypesFit
      <4> HIDE DEF v
      <4>2. typeAbilities(m, v, context) \subseteq typeAbilities(m, Filled(v, arguments), << >>)
        BY <4>1, FilledHasAbilities
      <4> QED  BY <3>1, <4>2 DEF v
    <3> HIDE DEF u
    <3>4. Constrained(m, u, << >>)  BY <2>2, <3>1, <3>3 DEF Constrained
    <3>5. NestedConstraintsOK(m, u, << >>)  BY <3>2, <3>4, NestedUnfolds DEF u
    <3> QED  BY <3>5 DEF u
  <2> QED  BY <2>3, <2>4
<1> HIDE DEF P
<1>2. Types \subseteq P  BY <1>1, TypeInduction
<1> QED  BY <1>2 DEF P

LEMMA FieldsAreChecked ==
  ASSUME NEW m, Sound(m), NEW h, NEW f \in FieldTypes(m, h)
  PROVE  f \in Types /\ FieldOK(m, m.structHandles[h], f)
<1>1. StructsOK(m) /\ StructsLoadable(m)  BY SoundPasses DEF Sound, Loadable
<1>2. PICK d \in ToSet(m.table.struct) :
        d.handle = h /\ f \in {g.type : g \in ToSet(d.fields) \cup UNION {ToSet(v.fields) : v \in ToSet(d.variants)}}
  BY DEF FieldTypes
<1>3. \A s : ToSet(s) = Range(s)  BY DEF ToSet, Range
<1>4. /\ \A g \in ToSet(d.fields) : g.type \in Types
      /\ \A v \in ToSet(d.variants) : \A g \in ToSet(v.fields) : g.type \in Types
  BY <1>1, <1>2, <1>3 DEF StructsLoadable
<1>5. /\ FieldsOK(m, m.structHandles[h], d.fields)
      /\ \A v \in ToSet(d.variants) : FieldsOK(m, m.structHandles[h], v.fields)
  BY <1>1, <1>2 DEF StructsOK
<1> QED  BY <1>2, <1>4, <1>5 DEF FieldsOK

(* What a struct says of its arguments fits the arguments.                 *)
LEMMA HandleFits ==
  ASSUME NEW m, Sound(m), NEW t \in Types, Valid(m, t, 0), t.kind = "Struct"
  PROVE  LET parameters == m.structHandles[t.index].typeParameters
             n == Len(t.arguments)
         IN  /\ n \in Nat /\ DOMAIN t.arguments = 1 .. n
             /\ Len(parameters) = n /\ DOMAIN parameters = 1 .. n
             /\ Replaces(m, t.arguments, n)
<1> DEFINE parameters == m.structHandles[t.index].typeParameters
           n == Len(t.arguments)
<1>1. t.index \in DOMAIN m.structHandles /\ n = Len(parameters)
      /\ \A k \in DOMAIN t.arguments : Valid(m, t.arguments[k], 0)
  BY ValidUnfolds DEF ValidPart
<1>2. n \in Nat /\ DOMAIN t.arguments = 1 .. n /\ \A k \in DOMAIN t.arguments : t.arguments[k] \in Types  BY TypesFit
<1>3. parameters \in Seq([phantom : BOOLEAN, constraints : SUBSET All])
  BY <1>1 DEF Sound, Loadable, StructsLoadable, Range
<1>4. DOMAIN parameters = 1 .. n  BY <1>1, <1>3, LenProperties
<1>5. Replaces(m, t.arguments, n)  BY <1>1, <1>2 DEF Replaces
<1> QED  BY <1>1, <1>2, <1>4, <1>5

(* A type that has an ability may be treated so, and all that it holds has *)
(* the ability that this requires.                                         *)
LEMMA ContentsHave ==
  ASSUME NEW m, Sound(m), NEW a, NEW t \in Having(m, a)
  PROVE  Can(m, t, a) /\ Contents(m, t) \subseteq Having(m, Required(a))
<1> DEFINE held == HeldBelow(m, t, << >>)
           handle == m.structHandles[t.index]
           r == Required(a)
<1>1. t \in Types /\ Valid(m, t, 0) /\ a \in typeAbilities(m, t, << >>) /\ t.kind \in TypeKinds
  BY TypesFit DEF Having, IsType
<1>2. ValidPart(m, t, 0) /\ \A k \in DOMAIN t.arguments : Valid(m, t.arguments[k], 0)  BY <1>1, ValidUnfolds
<1>3. t.kind # "Reference" /\ t.kind # "TypeParameter"  BY <1>2 DEF ValidPart
<1>4. DOMAIN held = DOMAIN t.arguments
      /\ \A k \in DOMAIN t.arguments : held[k] = typeAbilities(m, t.arguments[k], << >>)
  BY HeldFits
<1>5. \A k \in DOMAIN t.arguments : r \in held[k] => t.arguments[k] \in Having(m, r)
  BY <1>1, <1>2, <1>4, TypesFit DEF Having
<1>6. CASE t.kind = "U64"
  <2>1. t.arguments = << >> /\ ~ IsOwn(m, t)  BY <1>2, <1>6 DEF ValidPart, IsOwn
  <2>2. DOMAIN t.arguments = {}  BY <2>1
  <2>3. a \in {"copy", "drop", "store"}  BY <1>1, <1>6, AbilitiesByKind
  <2> QED  BY <1>6, <2>1, <2>2, <2>3 DEF Contents, Can
<1>7. CASE t.kind = "Vector"
  <2>1. a \in {"copy", "drop", "store"} /\ a \in held[1]  BY <1>1, <1>7, AbilitiesByKind
  <2>2. r = a /\ ~ IsOwn(m, t)  BY <1>7, <2>1 DEF Required, IsOwn
  <2>3. DOMAIN t.arguments = {1}
    <3>1. Len(t.arguments) = 1 /\ DOMAIN t.arguments = 1 .. Len(t.arguments)  BY <1>1, <1>2, <1>7, TypesFit DEF ValidPart
    <3> QED  BY <3>1
  <2>4. Contents(m, t) \subseteq Having(m, r)
    <3> HIDE DEF r, held
    <3> QED  BY <1>5, <2>1, <2>2, <2>3 DEF Contents
  <2> QED  BY <1>7, <2>1, <2>4 DEF Can
<1>8. CASE t.kind = "Struct"
  <2> DEFINE parameters == handle.typeParameters
             n == Len(t.arguments)
  <2>1. /\ DOMAIN t.arguments = 1 .. n /\ DOMAIN parameters = 1 .. n /\ Len(parameters) = n
        /\ Replaces(m, t.arguments, n)
    BY <1>1, <1>8, HandleFits
  <2>2. a \in StructAbilities(handle, held)  BY <1>1, <1>8, AbilitiesByKind
  <2>3. a \in handle.abilities /\ \A k \in DOMAIN t.arguments : parameters[k].phantom \/ r \in held[k]
    BY <1>4, <2>2 DEF StructAbilities
  <2>4. ASSUME IsOwn(m, t), NEW f \in FieldTypes(m, t.index), Filled(f, t.arguments) \in Types
        PROVE  Filled(f, t.arguments) \in Having(m, r)
    <3>1. f \in Types /\ FieldOK(m, handle, f)  BY <2>4, FieldsAreChecked
    <3>2. /\ Valid(m, f, n) /\ PhantomsOK(m, f, parameters)
          /\ r \in typeAbilities(m, f, Everything(parameters))
      BY <2>1, <2>3, <3>1 DEF FieldOK, Valid, requiredByDeclaredAbilities
    <3>3. r # "key"  BY DEF Required
    <3>4. \A k \in 1 .. n : ~ parameters[k].phantom => r \in typeAbilities(m, t.arguments[k], << >>)
      BY <1>4, <2>1, <2>3
    <3> HIDE DEF r, parameters, n
    <3>5. r \in typeAbilities(m, Filled(f, t.arguments), << >>)
      BY <2>1, <2>4, <3>1, <3>2, <3>3, <3>4, FilledKeepsAbility
    <3>6. Valid(m, Filled(f, t.arguments), 0)  BY <2>1, <2>4, <3>1, <3>2, FilledIsValid
    <3> QED  BY <2>4, <3>5, <3>6 DEF Having
  <2>5. Contents(m, t) \subseteq Having(m, r)
    <3> HIDE DEF r, held
    <3>1. CASE IsOwn(m, t)  BY <2>4, <3>1 DEF Contents
    <3>2. CASE ~ IsOwn(m, t)  BY <1>5, <1>8, <2>3, <3>2 DEF Contents
    <3> QED  BY <3>1, <3>2
  <2> QED  BY <1>8, <2>3, <2>5 DEF Can
<1> QED  BY <1>1, <1>3, <1>6, <1>7, <1>8 DEF TypeKinds

(* The constraints of structs hold in all that a type holds, if they do in *)
(* the type.                                                               *)
LEMMA ContentsAreFine ==
  ASSUME NEW m, Sound(m), NEW t \in Fine(m)
  PROVE  Contents(m, t) \subseteq Fine(m)
<1>1. t \in Types /\ Valid(m, t, 0) /\ NestedConstraintsOK(m, t, << >>)  BY DEF Fine
<1>2. Constrained(m, t, << >>) /\ \A k \in DOMAIN t.arguments : NestedConstraintsOK(m, t.arguments[k], << >>)
  BY <1>1, NestedUnfolds
<1>3. \A k \in DOMAIN t.arguments : t.arguments[k] \in Fine(m)
  BY <1>1, <1>2, ValidUnfolds, TypesFit DEF Fine
<1>4. CASE ~ IsOwn(m, t)  BY <1>3, <1>4 DEF Contents
<1>5. CASE IsOwn(m, t)
  <2> DEFINE handle == m.structHandles[t.index]
             parameters == handle.typeParameters
             n == Len(t.arguments)
  <2>1. t.kind = "Struct"  BY <1>5 DEF IsOwn
  <2>2. /\ DOMAIN t.arguments = 1 .. n /\ DOMAIN parameters = 1 .. n /\ Len(parameters) = n
        /\ Replaces(m, t.arguments, n)
    BY <1>1, <2>1, HandleFits
  <2>3. \A k \in 1 .. n : ConstraintsOf(parameters)[k] \subseteq typeAbilities(m, t.arguments[k], << >>)
    BY <1>2, <2>1, <2>2 DEF Constrained, ConstraintsOf
  <2>4. ASSUME NEW f \in FieldTypes(m, t.index), Filled(f, t.arguments) \in Types
        PROVE  Filled(f, t.arguments) \in Fine(m)
    <3>1. f \in Types /\ FieldOK(m, handle, f)  BY <2>4, FieldsAreChecked
    <3>2. Valid(m, f, n) /\ NestedConstraintsOK(m, f, ConstraintsOf(parameters))
      BY <2>2, <3>1 DEF FieldOK, Valid
    <3>3. \A k \in 1 .. n : NestedConstraintsOK(m, t.arguments[k], << >>)  BY <1>2, <2>2
    <3> HIDE DEF parameters, n
    <3>4. NestedConstraintsOK(m, Filled(f, t.arguments), << >>)
      BY <2>2, <2>3, <2>4, <3>1, <3>2, <3>3, FilledIsNested
    <3>5. Valid(m, Filled(f, t.arguments), 0)  BY <2>2, <2>4, <3>1, <3>2, FilledIsValid
    <3> QED  BY <2>4, <3>4, <3>5 DEF Fine
  <2> QED  BY <1>5, <2>4 DEF Contents
<1> QED  BY <1>4, <1>5

(* What keeps to all that the types of a set hold, keeps to the set.       *)
LEMMA InsideStays ==
  ASSUME NEW m, Sound(m), NEW G, \A t \in G : Contents(m, t) \subseteq G, NEW t \in G
  PROVE  Inside(m, t) \subseteq G
<1> DEFINE S == SUBSET G
           on(s) == s \cup HeldBy(m, s)
           step == [s \in S |-> on(s)]
           start == {t}
           Eq(h) == h = [k \in Nat |-> IF k = 0 THEN start ELSE on(h[k - 1])]
           done == CHOOSE h : Eq(h)
           levels == Levels(m)
<1>1. \A s \in S : on(s) \in S  BY DEF HeldBy
<1>2. Inside(m, t) = done[levels]  BY DEF Inside, Iterate
<1>3. levels \in Nat
  <2>1. m.structHandles \in Seq(Range(m.structHandles))  BY DEF Sound, Loadable, StructsLoadable, IsList
  <2>2. Len(m.structHandles) \in Nat  BY <2>1, LenProperties
  <2> QED  BY <2>2 DEF Levels
<1>4. start \in S  OBVIOUS
<1> HIDE DEF on, start, levels
<1>5. step \in [S -> S]
  <2> HIDE DEF S
  <2> QED  BY <1>1
<1>6. PICK f : Iterates(f, S, step, start)
  <2> HIDE DEF S, step
  <2> QED  BY <1>4, <1>5, IterationExists
<1>7. Eq(f)
  <2>1. ASSUME NEW k \in Nat PROVE f[k] = IF k = 0 THEN start ELSE on(f[k - 1])
    <3>1. CASE k = 0  BY <1>6, <3>1 DEF Iterates
    <3>2. CASE k # 0
      <4>1. k - 1 \in Nat /\ k - 1 + 1 = k  BY <3>2
      <4> HIDE DEF S
      <4>2. f[k] = step[f[k - 1]] /\ f[k - 1] \in S  BY <1>6, <4>1 DEF Iterates
      <4> QED  BY <3>2, <4>2
    <3> QED  BY <3>1, <3>2
  <2> HIDE DEF S
  <2> QED  BY <1>6, <2>1 DEF Iterates
<1> HIDE DEF Eq, S
<1>8. Eq(done)  BY <1>7
<1> HIDE DEF done
<1> DEFINE T == {k \in Nat : done[k] \in S}
<1>9. 0 \in T  BY <1>4, <1>8 DEF Eq
<1>10. ASSUME NEW k \in Nat, k \in T PROVE k + 1 \in T
  <2>1. k + 1 \in Nat /\ k + 1 # 0 /\ k + 1 - 1 = k  OBVIOUS
  <2>2. done[k + 1] = on(done[k])  BY <1>8, <2>1 DEF Eq
  <2> QED  BY <1>1, <1>10, <2>1, <2>2
<1> HIDE DEF T
<1>11. levels \in T  BY <1>3, <1>9, <1>10, NatClosed
<1> QED  BY <1>2, <1>11 DEF T, S

(* An ability that a type is given it really has.                          *)
LEMMA AbilitiesAreReal ==
  ASSUME NEW m, Sound(m), NEW a, NEW t \in Having(m, a)
  PROVE  Really(m, t, a)
<1> DEFINE r == Required(a)
<1>1. Can(m, t, a) /\ Contents(m, t) \subseteq Having(m, r)  BY ContentsHave
<1>2. Required(r) = r  BY DEF Required
<1>3. \A u \in Having(m, r) : Can(m, u, r) /\ Contents(m, u) \subseteq Having(m, r)
  BY <1>2, ContentsHave
<1> HIDE DEF r
<1>4. \A v \in Contents(m, t) : Inside(m, v) \subseteq Having(m, r)  BY <1>1, <1>3, InsideStays
<1> QED  BY <1>1, <1>3, <1>4 DEF Really, r

LEMMA U64Fits ==
  ASSUME NEW m, NEW context
  PROVE  /\ u64 \in Types /\ u64.kind = "U64" /\ u64.arguments = << >> /\ DOMAIN u64.arguments = {}
         /\ Valid(m, u64, 0) /\ NestedConstraintsOK(m, u64, context)
<1>1. u64.kind = "U64" /\ u64.index = 0 /\ u64.arguments = << >> /\ DOMAIN u64.arguments = {}  BY DEF u64, Type
<1>2. u64 \in Types
  <2> DEFINE n == MaximumTypeDepth - 1
  <2>1. n \in 0 .. MaximumTypeDepth - 1 /\ n + 1 = MaximumTypeDepth  BY DepthAssumption
  <2> HIDE DEF n
  <2>2. u64 = Type(u64.kind, u64.index, u64.arguments)  BY <1>1 DEF u64
  <2>3. u64.arguments \in Seq(TypesUpTo[n])  BY <1>1, EmptySeq
  <2>4. IsType(u64, TypesUpTo[n])  BY <1>1, <2>2, <2>3 DEF IsType, TypeKinds
  <2> QED  BY <2>1, <2>4, TypesByDepth
<1>3. ValidPart(m, u64, 0)  BY <1>1 DEF ValidPart
<1>4. Constrained(m, u64, context)  BY <1>1 DEF Constrained
<1>5. Valid(m, u64, 0)  BY <1>1, <1>2, <1>3, ValidUnfolds
<1>6. NestedConstraintsOK(m, u64, context)  BY <1>1, <1>2, <1>4, NestedUnfolds
<1> QED  BY <1>1, <1>2, <1>5, <1>6

(* The types that structs make of types of a set.                          *)
LEMMA ClosedFits ==
  ASSUME NEW m, Sound(m), NEW A, A \subseteq Fine(m), NEW t \in Closed(m, A)
  PROVE  /\ t \in Fine(m) /\ t.kind = "Struct"
         /\ A = {} => t.arguments = << >>
<1>1. PICK h \in DOMAIN m.structHandles :
        \E a \in [DOMAIN m.structHandles[h].typeParameters -> A] : t = Struct(h, a)
  BY DEF Closed
<1> DEFINE parameters == m.structHandles[h].typeParameters
<1>2. PICK a \in [DOMAIN parameters -> A] : t = Struct(h, a)  BY <1>1
<1>3. t \in Types /\ NestedConstraintsOK(m, t, << >>)  BY DEF Closed
<1>4. t.kind = "Struct" /\ t.index = h /\ t.arguments = a  BY <1>2 DEF Struct, Type
<1>5. parameters \in Seq([phantom : BOOLEAN, constraints : SUBSET All])
  BY <1>2 DEF Sound, Loadable, StructsLoadable, Range
<1>6. DOMAIN parameters = 1 .. Len(parameters) /\ Len(parameters) \in Nat  BY <1>5, LenProperties
<1>7. DOMAIN a = 1 .. Len(a) /\ Len(a) \in Nat /\ a \in Seq(Types)  BY <1>3, <1>4, TypesFit DEF IsType
<1>8. DOMAIN a = DOMAIN parameters /\ \A k \in DOMAIN a : a[k] \in A  BY <1>2
<1> HIDE DEF parameters
<1>9. Len(a) = Len(parameters)  BY <1>6, <1>7, <1>8
<1>10. ValidPart(m, t, 0)  BY <1>2, <1>4, <1>9 DEF ValidPart, parameters
<1>11. Valid(m, t, 0)  BY <1>3, <1>4, <1>8, <1>10, ValidUnfolds DEF Fine
<1>12. A = {} => t.arguments = << >>
  <2>1. A = {} => Len(a) = 0
    <3> DEFINE n == Len(a)
    <3>1. 1 <= n => 1 \in DOMAIN a  BY <1>7
    <3>2. n \in Nat  BY <1>7
    <3> HIDE DEF n
    <3>3. A = {} => n = 0  BY <1>8, <3>1, <3>2
    <3> QED  BY <3>3 DEF n
  <2> QED  BY <1>4, <1>7, <2>1, EmptySeq
<1> QED  BY <1>3, <1>4, <1>11, <1>12 DEF Fine

LEMMA ClosedTypesAreFine ==
  ASSUME NEW m, Sound(m)
  PROVE  /\ PlainTypes(m) \subseteq Fine(m) /\ ClosedTypes(m) \subseteq Fine(m)
         /\ \A t \in PlainTypes(m) : t.kind \in {"U64", "Struct"} /\ t.arguments = << >>
<1>1. u64 \in Fine(m)  BY U64Fits DEF Fine
<1>2. Closed(m, {}) \subseteq Fine(m) /\ \A t \in Closed(m, {}) : t.kind = "Struct" /\ t.arguments = << >>
  BY ClosedFits
<1>3. PlainTypes(m) \subseteq Fine(m)  BY <1>1, <1>2 DEF PlainTypes
<1>4. Closed(m, PlainTypes(m)) \subseteq Fine(m)  BY <1>3, ClosedFits
<1> QED  BY <1>2, <1>3, <1>4, U64Fits DEF ClosedTypes, PlainTypes

(* A type without arguments is given every ability that it really has.     *)
LEMMA PlainTypesHave ==
  ASSUME NEW m, Sound(m), NEW t \in PlainTypes(m), NEW a, Really(m, t, a)
  PROVE  a \in typeAbilities(m, t, << >>)
<1>1. t \in Types /\ t.kind \in {"U64", "Struct"} /\ t.arguments = << >>  BY ClosedTypesAreFine DEF Fine
<1>2. Can(m, t, a)  BY DEF Really
<1>3. CASE t.kind = "U64"  BY <1>1, <1>2, <1>3, AbilitiesByKind DEF Can
<1>4. CASE t.kind = "Struct"
  <2> DEFINE held == HeldBelow(m, t, << >>)
  <2>1. typeAbilities(m, t, << >>) = StructAbilities(m.structHandles[t.index], held)  BY <1>1, <1>4, AbilitiesByKind
  <2>2. DOMAIN held = {}  BY <1>1, HeldFits
  <2> HIDE DEF held
  <2>3. a \in m.structHandles[t.index].abilities  BY <1>2, <1>4 DEF Can
  <2> QED  BY <2>1, <2>2, <2>3 DEF StructAbilities
<1> QED  BY <1>1, <1>3, <1>4

LEMMA InstanceIsIn ==
  ASSUME NEW m, NEW d \in DOMAIN m.functions, NEW types \in Seq(Types), InstanceFits(m, d, types)
  PROVE  <<d, types>> \in AllInstances(m)
<1> DEFINE x == <<d, types>>
<1>1. x \in (DOMAIN m.functions) \X Seq(Types) /\ x[1] = d /\ x[2] = types  OBVIOUS
<1> HIDE DEF x
<1>2. x \in AllInstances(m)  BY <1>1 DEF AllInstances
<1> QED  BY <1>2 DEF x

LEMMA FormalsFit ==
  ASSUME NEW m, Sound(m), NEW d \in DOMAIN m.functions
  PROVE  /\ Formals(m, d) \in Seq(SUBSET All) /\ Len(Formals(m, d)) \in Nat
         /\ DOMAIN Formals(m, d) = 1 .. Len(Formals(m, d))
<1>1. m.functions[d] \in ToSet(m.functions)  BY DEF ToSet
<1>2. m.functions[d].handle \in DOMAIN m.table.function
  <2>1. m.functions[d].handle \in {e.handle : e \in ToSet(m.functions)}  BY <1>1
  <2> QED  BY <2>1, SoundPasses DEF FunctionsOK, DefinedOnce
<1>3. Formals(m, d) \in Seq(SUBSET All)  BY <1>2 DEF Sound, Loadable, FunctionsLoadable, Range, Formals
<1> QED  BY <1>3, LenProperties

LEMMA RootsFit ==
  ASSUME NEW m, Sound(m)
  PROVE  RootInstances(m) \subseteq AllInstances(m)
<1> SUFFICES ASSUME NEW x \in RootInstances(m) PROVE x \in AllInstances(m)  OBVIOUS
<1>1. PICK d \in DOMAIN m.functions :
        \E types \in [DOMAIN Formals(m, d) -> PlainTypes(m)] :
          x = <<d, types>> /\ \A k \in DOMAIN types : Meets(m, types[k], Formals(m, d)[k])
  BY DEF RootInstances
<1>2. PICK types \in [DOMAIN Formals(m, d) -> PlainTypes(m)] :
        x = <<d, types>> /\ \A k \in DOMAIN types : Meets(m, types[k], Formals(m, d)[k])
  BY <1>1
<1>3. \A k \in DOMAIN types : types[k] \in PlainTypes(m) /\ types[k] \in Types /\ Valid(m, types[k], 0)
  BY ClosedTypesAreFine DEF Fine
<1>4. ASSUME NEW k \in DOMAIN types PROVE Formals(m, d)[k] \subseteq typeAbilities(m, types[k], << >>)
  BY <1>2, <1>3, PlainTypesHave DEF Meets
<1>5. types \in Seq(Types)
  <2> DEFINE n == Len(Formals(m, d))
  <2>1. n \in Nat /\ DOMAIN types = 1 .. n  BY FormalsFit
  <2> HIDE DEF n
  <2>2. types \in [1 .. n -> Types]  BY <1>3, <2>1
  <2> QED  BY <2>1, <2>2, SeqDef
<1>6. InstanceFits(m, d, types)  BY <1>3, <1>4 DEF InstanceFits
<1> QED  BY <1>2, <1>5, <1>6, InstanceIsIn

(* A generic call has as many arguments as the function it calls has type  *)
(* parameters, and they have the abilities that these must have.           *)
LEMMA CallsAreAllowed ==
  ASSUME NEW m, Sound(m), NEW call \in GenericCalls(m)
  PROVE  /\ call.caller \in DOMAIN m.functions /\ call.callee \in DOMAIN m.functions
         /\ DOMAIN call.arguments = DOMAIN Formals(m, call.callee)
         /\ \A k \in DOMAIN call.arguments :
              /\ call.arguments[k] \in Types
              /\ Valid(m, call.arguments[k], Len(Formals(m, call.caller)))
              /\ Formals(m, call.callee)[k] \subseteq typeAbilities(m, call.arguments[k], Formals(m, call.caller))
<1>1. PICK d \in DOMAIN m.functions :
        \E i \in {j \in Range(m.functions[d].code) : j.generic /\ KindOf(j.op) = "function"} :
          call \in [caller : {d}, callee : DefinitionsNamed(m, UseOf(m, i).of), arguments : {UseOf(m, i).arguments}]
  BY DEF GenericCalls
<1>2. PICK i \in Range(m.functions[d].code) :
        /\ i.generic /\ KindOf(i.op) = "function"
        /\ call \in [caller : {d}, callee : DefinitionsNamed(m, UseOf(m, i).of), arguments : {UseOf(m, i).arguments}]
  BY <1>1
<1> DEFINE use == UseOf(m, i)
           f == m.functions[d]
<1>3. call.caller = d /\ call.callee \in DefinitionsNamed(m, use.of) /\ call.arguments = use.arguments
  BY <1>2
<1>4. call.callee \in DOMAIN m.functions /\ Formals(m, call.callee) = m.table.function[use.of].typeParameters
  BY <1>3 DEF DefinitionsNamed, Formals
<1>5. PICK at \in DOMAIN f.code : i = f.code[at]  BY <1>2 DEF Range
<1>6. HasCode(m, d)  BY <1>5 DEF HasCode, IsNative
<1>7. CodeOK(m, f)  BY <1>6, CodeIsAccepted
<1>8. UseIsAllowed(m, f, i) /\ InstructionOK(m, f, i)  BY <1>2, <1>5, <1>7 DEF CodeOK
<1>9. "function" \in Kinds /\ FormalsOf(m, "function", use.of) = m.table.function[use.of].typeParameters
  BY DEF Kinds, FormalsOf
<1>10. use = m.instances["function"][i.arg] /\ i.arg \in DOMAIN m.instances["function"]
  <2> HIDE DEF f
  <2>1. i.arg \in DOMAIN (IF i.generic THEN m.instances[KindOf(i.op)] ELSE m.table[KindOf(i.op)])
    BY <1>2, <1>8 DEF InstructionOK
  <2> QED  BY <1>2, <2>1 DEF UseOf
<1>11. use \in ToSet(m.instances["function"]) /\ use \in Range(m.instances["function"])  BY <1>10 DEF ToSet, Range
<1>12. use.arguments \in Seq(Types)  BY <1>9, <1>11 DEF Sound, Loadable
<1>13. Len(use.arguments) = Len(Formals(m, call.callee))
  BY <1>4, <1>9, <1>11, SoundPasses DEF InstancesOK, ArgumentsOK
<1>14. DOMAIN use.arguments = DOMAIN Formals(m, call.callee)  BY <1>4, <1>12, <1>13, FormalsFit, LenProperties
<1>15. \A k \in DOMAIN use.arguments :
         /\ Valid(m, use.arguments[k], Len(Formals(m, d)))
         /\ Formals(m, call.callee)[k] \subseteq typeAbilities(m, use.arguments[k], Formals(m, d))
  BY <1>2, <1>4, <1>8, <1>9 DEF UseIsAllowed, Formals, Valid
<1>16. \A k \in DOMAIN use.arguments : use.arguments[k] \in Types  BY <1>12, ElementOfSeq, LenProperties
<1> HIDE DEF use
<1> QED  BY <1>3, <1>4, <1>14, <1>15, <1>16

LEMMA CalledFit ==
  ASSUME NEW m, Sound(m), NEW x \in AllInstances(m)
  PROVE  CalledInstances(m, x) \subseteq AllInstances(m)
<1> SUFFICES ASSUME NEW y \in CalledInstances(m, x) PROVE y \in AllInstances(m)  OBVIOUS
<1>1. /\ x[1] \in DOMAIN m.functions /\ x[2] \in Seq(Types)
      /\ DOMAIN x[2] = DOMAIN Formals(m, x[1])
      /\ \A k \in DOMAIN x[2] : /\ Valid(m, x[2][k], 0)
                                /\ Formals(m, x[1])[k] \subseteq typeAbilities(m, x[2][k], << >>)
  BY DEF AllInstances, InstanceFits
<1>2. PICK call \in GenericCalls(m) :
        /\ call.caller = x[1] /\ y[2] \in Seq(Types)
        /\ y = <<call.callee, [k \in DOMAIN call.arguments |-> Filled(call.arguments[k], x[2])]>>
  BY DEF CalledInstances
<1> DEFINE n == Len(Formals(m, x[1]))
           types == [k \in DOMAIN call.arguments |-> Filled(call.arguments[k], x[2])]
           formals == Formals(m, call.callee)
           context == Formals(m, x[1])
<1>3. call.callee \in DOMAIN m.functions /\ types \in Seq(Types) /\ y = <<call.callee, types>>
  BY <1>2, CallsAreAllowed
<1>4. DOMAIN types = DOMAIN formals  BY CallsAreAllowed
<1>5. \A k \in DOMAIN types :
        /\ call.arguments[k] \in Types /\ Valid(m, call.arguments[k], n)
        /\ formals[k] \subseteq typeAbilities(m, call.arguments[k], context)
  BY <1>2, CallsAreAllowed
<1>6. DOMAIN x[2] = 1 .. n  BY <1>1, FormalsFit
<1>7. Replaces(m, x[2], n)
  <2>1. \A k \in DOMAIN x[2] : x[2][k] \in Types  BY <1>1, ElementOfSeq, LenProperties
  <2> QED  BY <1>1, <1>6, <2>1 DEF Replaces
<1>8. \A k \in 1 .. n : context[k] \subseteq typeAbilities(m, x[2][k], << >>)  BY <1>1, <1>6
<1>9. \A k \in DOMAIN types : types[k] = Filled(call.arguments[k], x[2])  OBVIOUS
<1> HIDE DEF types, n, context, formals
<1>10. \A k \in DOMAIN types : types[k] \in Types  BY <1>3, ElementOfSeq, LenProperties
<1>11. ASSUME NEW k \in DOMAIN types
       PROVE  Valid(m, types[k], 0) /\ formals[k] \subseteq typeAbilities(m, types[k], << >>)
  <2> DEFINE t == call.arguments[k]
  <2>1. t \in Types /\ Valid(m, t, n) /\ formals[k] \subseteq typeAbilities(m, t, context)  BY <1>5
  <2>2. types[k] = Filled(t, x[2]) /\ Filled(t, x[2]) \in Types  BY <1>9, <1>10
  <2> HIDE DEF t
  <2>3. Valid(m, Filled(t, x[2]), 0)  BY <1>7, <2>1, <2>2, FilledIsValid
  <2>4. typeAbilities(m, t, context) \subseteq typeAbilities(m, Filled(t, x[2]), << >>)
    BY <1>7, <1>8, <2>1, <2>2, FilledHasAbilities
  <2> QED  BY <2>1, <2>2, <2>3, <2>4
<1>12. InstanceFits(m, call.callee, types)  BY <1>4, <1>11 DEF InstanceFits, formals
<1> QED  BY <1>3, <1>12, InstanceIsIn

(* Type parameters of functions are counted with numbers.                  *)
LEMMA NodesAreCounted ==
  ASSUME NEW m, Sound(m)
  PROVE  Cardinality(InstantiationNodes(m)) \in Nat
<1> DEFINE n == Len(m.functions)
           counted(sum, e) == sum + Len(Formals(m, e + 1))
           step == [p \in Nat \X (0 .. n - 1) |-> counted(p[1], p[2])]
           Eq(g) == g = [k \in 0 .. n |-> IF k = 0 THEN 0 ELSE counted(g[k - 1], k - 1)]
           r == CHOOSE g : Eq(g)
<1>1. n \in Nat /\ DOMAIN m.functions = 1 .. n
  <2>1. m.functions \in Seq(Range(m.functions))  BY DEF Sound, Loadable, FunctionsLoadable, IsList
  <2> QED  BY <2>1, LenProperties
<1> HIDE DEF n
<1>2. \A sum \in Nat, e \in 0 .. n - 1 : counted(sum, e) \in Nat
  <2> TAKE sum \in Nat, e \in 0 .. n - 1
  <2>1. e + 1 \in DOMAIN m.functions  BY <1>1
  <2>2. Len(Formals(m, e + 1)) \in Nat  BY <2>1, FormalsFit
  <2> QED  BY <2>2
<1> HIDE DEF counted
<1>3. step \in [Nat \X (0 .. n - 1) -> Nat]  BY <1>2
<1>4. PICK g : LoopsTo(g, n, Nat, step, 0)
  <2> HIDE DEF step
  <2> QED  BY <1>1, <1>3, LoopToExists
<1>5. g \in [0 .. n -> Nat] /\ g[0] = 0 /\ \A k \in 0 .. n - 1 : g[k + 1] = step[<<g[k], k>>]
  BY <1>4 DEF LoopsTo
<1>6. Eq(g)
  <2>1. ASSUME NEW k \in 0 .. n PROVE g[k] = IF k = 0 THEN 0 ELSE counted(g[k - 1], k - 1)
    <3>1. CASE k = 0  BY <1>5, <3>1
    <3>2. CASE k # 0
      <4>1. k - 1 \in 0 .. n - 1 /\ k - 1 \in 0 .. n /\ k - 1 + 1 = k  BY <1>1, <3>2
      <4>2. g[k] = step[<<g[k - 1], k - 1>>] /\ g[k - 1] \in Nat  BY <1>5, <4>1
      <4> QED  BY <3>2, <4>1, <4>2
    <3> QED  BY <3>1, <3>2
  <2> QED  BY <1>5, <2>1
<1>7. NodeBase(m, n + 1) = r[n]
  <2> DEFINE d == n + 1
  <2>1. d - 1 = n  BY <1>1
  <2> HIDE DEF d
  <2>2. NodeBase(m, d) = r[n]  BY <2>1 DEF NodeBase, ForUpTo, counted
  <2> QED  BY <2>2 DEF d
<1> HIDE DEF Eq
<1>8. Eq(r)  BY <1>6
<1> HIDE DEF r
<1> DEFINE T == {k \in 0 .. n : r[k] \in Nat}
<1>9. 0 \in T  BY <1>1, <1>8 DEF Eq
<1>10. ASSUME NEW k \in 0 .. n - 1, k \in T PROVE k + 1 \in T
  <2>1. k + 1 \in 0 .. n /\ k + 1 # 0 /\ k + 1 - 1 = k  BY <1>1
  <2> DEFINE next == k + 1
  <2>2. next \in 0 .. n /\ next # 0 /\ next - 1 = k  BY <2>1
  <2> HIDE DEF next
  <2>3. r[next] = counted(r[next - 1], next - 1)  BY <1>8, <2>2 DEF Eq
  <2>4. counted(r[k], k) \in Nat  BY <1>2, <1>10
  <2> QED  BY <2>2, <2>3, <2>4 DEF next
<1> HIDE DEF T
<1>11. n \in T
  <2>1. 0 .. n \subseteq T  BY <1>1, <1>9, <1>10, ClosedUpTo
  <2> QED  BY <1>1, <2>1
<1>12. NodeBase(m, n + 1) \in Nat  BY <1>7, <1>11 DEF T
<1>13. IsFiniteSet(InstantiationNodes(m))
  <2>1. NodeBase(m, n + 1) - 1 \in Int  BY <1>12
  <2> QED  BY <2>1, FS_Interval DEF InstantiationNodes, n
<1> QED  BY <1>13, FS_CardinalityType

LEMMA InstancesFit ==
  ASSUME NEW m, Sound(m)
  PROVE  Instances(m) \subseteq AllInstances(m)
<1> DEFINE A == AllInstances(m)
           S == [known : SUBSET A, new : SUBSET A]
           on(s) == CallsFrom(m, s)
           step == [s \in S |-> on(s)]
           start == [known |-> RootInstances(m), new |-> RootInstances(m)]
           Eq(h) == h = [k \in Nat |-> IF k = 0 THEN start ELSE on(h[k - 1])]
           done == CHOOSE h : Eq(h)
           times == Cardinality(InstantiationNodes(m)) * (Depth(m) + 1)
<1>1. \A s \in S : on(s) \in S
  <2> TAKE s \in S
  <2> DEFINE called == UNION {CalledInstances(m, x) : x \in {y \in s.new : ~ TooDeep(m, y)}} \ s.known
  <2>1. s.known \subseteq A /\ s.new \subseteq A  OBVIOUS
  <2>2. called \subseteq A  BY <2>1, CalledFit
  <2>3. on(s) = [known |-> s.known \cup called, new |-> called]  BY DEF CallsFrom
  <2> HIDE DEF called, A, on
  <2> QED  BY <2>1, <2>2, <2>3
<1>2. Instances(m) = done[times].known  BY DEF Instances, Iterate
<1>3. times \in Nat
  <2> DEFINE nodes == Cardinality(InstantiationNodes(m))
  <2>1. nodes \in Nat  BY NodesAreCounted
  <2>2. times = nodes * (2 + 2 * nodes + 1)  BY DEF Depth
  <2> HIDE DEF nodes, times
  <2> QED  BY <2>1, <2>2
<1>4. start \in S  BY RootsFit
<1> HIDE DEF on, start, times, A
<1>5. step \in [S -> S]
  <2> HIDE DEF S
  <2> QED  BY <1>1
<1>6. PICK f : Iterates(f, S, step, start)
  <2> HIDE DEF S, step
  <2> QED  BY <1>4, <1>5, IterationExists
<1>7. Eq(f)
  <2>1. ASSUME NEW k \in Nat PROVE f[k] = IF k = 0 THEN start ELSE on(f[k - 1])
    <3>1. CASE k = 0  BY <1>6, <3>1 DEF Iterates
    <3>2. CASE k # 0
      <4>1. k - 1 \in Nat /\ k - 1 + 1 = k  BY <3>2
      <4> HIDE DEF S
      <4>2. f[k] = step[f[k - 1]] /\ f[k - 1] \in S  BY <1>6, <4>1 DEF Iterates
      <4> QED  BY <3>2, <4>2
    <3> QED  BY <3>1, <3>2
  <2> HIDE DEF S
  <2> QED  BY <1>6, <2>1 DEF Iterates
<1> HIDE DEF Eq, S
<1>8. Eq(done)  BY <1>7
<1> HIDE DEF done
<1> DEFINE T == {k \in Nat : done[k] \in S}
<1>9. 0 \in T  BY <1>4, <1>8 DEF Eq
<1>10. ASSUME NEW k \in Nat, k \in T PROVE k + 1 \in T
  <2>1. k + 1 \in Nat /\ k + 1 # 0 /\ k + 1 - 1 = k  OBVIOUS
  <2>2. done[k + 1] = on(done[k])  BY <1>8, <2>1 DEF Eq
  <2> QED  BY <1>1, <1>10, <2>1, <2>2
<1> HIDE DEF T
<1>11. times \in T  BY <1>3, <1>9, <1>10, NatClosed
<1>12. done[times].known \subseteq A  BY <1>11 DEF T, S
<1> QED  BY <1>2, <1>12 DEF A

(* The constraints on an argument of a struct, and on one of a function,   *)
(* are really met.                                                         *)
LEMMA ConstraintsAreMet ==
  ASSUME NEW m, Sound(m)
  PROVE  /\ \A t \in Fine(m) : t.kind = "Struct" =>
              \A k \in DOMAIN t.arguments : Meets(m, t.arguments[k], m.structHandles[t.index].typeParameters[k].constraints)
         /\ \A x \in Instances(m) : \A k \in DOMAIN x[2] : Meets(m, x[2][k], Formals(m, x[1])[k])
<1>1. ASSUME NEW u \in Types, Valid(m, u, 0), NEW constraints, constraints \subseteq typeAbilities(m, u, << >>)
      PROVE  Meets(m, u, constraints)
  <2>1. \A a \in constraints : u \in Having(m, a)  BY <1>1 DEF Having
  <2> QED  BY <2>1, AbilitiesAreReal DEF Meets
<1>2. ASSUME NEW t \in Fine(m), t.kind = "Struct", NEW k \in DOMAIN t.arguments
      PROVE  Meets(m, t.arguments[k], m.structHandles[t.index].typeParameters[k].constraints)
  <2>1. t \in Types /\ Valid(m, t, 0) /\ Constrained(m, t, << >>)  BY NestedUnfolds DEF Fine
  <2>2. t.arguments[k] \in Types /\ Valid(m, t.arguments[k], 0)  BY <2>1, TypesFit, ValidUnfolds
  <2>3. m.structHandles[t.index].typeParameters[k].constraints \subseteq typeAbilities(m, t.arguments[k], << >>)
    BY <1>2, <2>1 DEF Constrained
  <2> QED  BY <1>1, <2>2, <2>3
<1>3. ASSUME NEW x \in Instances(m), NEW k \in DOMAIN x[2] PROVE Meets(m, x[2][k], Formals(m, x[1])[k])
  <2>1. x[2] \in Seq(Types) /\ InstanceFits(m, x[1], x[2])  BY InstancesFit DEF AllInstances
  <2>2. x[2][k] \in Types  BY <2>1, ElementOfSeq, LenProperties
  <2> QED  BY <1>1, <2>1, <2>2 DEF InstanceFits
<1> QED  BY <1>2, <1>3

(* validator.cpp:83-254, 359-380: in every module that is accepted, of any *)
(* size, the abilities worked out for a type without looking into its      *)
(* fields really hold of all that its values hold, down to every depth;    *)
(* the types in them meet the constraints of their structs; and so do the  *)
(* type arguments of every instance of a function that calls lead to.      *)
THEOREM AbilitiesAreSound ==
  Spec => []AbilitiesHoldInside
<1>1. IInv => AbilitiesHoldInside
  <2> SUFFICES ASSUME IInv, IsAccepted PROVE AbilitiesHoldInside  BY DEF AbilitiesHoldInside
  <2>1. Sound(m1)  BY DEF IInv, CheckedSoFar, IsAccepted, m1
  <2>2. ASSUME NEW t \in ClosedTypes(m1), NEW a \in typeAbilities(m1, t, << >>) PROVE Really(m1, t, a)
    <3>1. t \in Having(m1, a)  BY <2>1, ClosedTypesAreFine DEF Fine, Having
    <3> QED  BY <2>1, <3>1, AbilitiesAreReal
  <2>3. ASSUME NEW t \in ClosedTypes(m1), NEW u \in Inside(m1, t), u.kind = "Struct", NEW k \in DOMAIN u.arguments
        PROVE  Meets(m1, u.arguments[k], m1.structHandles[u.index].typeParameters[k].constraints)
    <3>1. t \in Fine(m1)  BY <2>1, ClosedTypesAreFine
    <3>2. \A v \in Fine(m1) : Contents(m1, v) \subseteq Fine(m1)  BY <2>1, ContentsAreFine
    <3>3. u \in Fine(m1)  BY <2>1, <3>1, <3>2, InsideStays
    <3> QED  BY <2>1, <2>3, <3>3, ConstraintsAreMet
  <2>4. \A x \in Instances(m1) : \A k \in DOMAIN x[2] : Meets(m1, x[2][k], Formals(m1, x[1])[k])
    BY <2>1, ConstraintsAreMet
  <2> QED  BY <2>2, <2>3, <2>4 DEF AbilitiesHoldInside
<1> QED  BY <1>1, StaysSorted, PTL
-----------------------------------------------------------------------------
(* Equal modules.  What cfg.cpp sees of code is not what tables say of it. *)
LEMMA SameFlow ==
  ASSUME NEW m, NEW f, Coded(f)
  PROVE  FlowOf(f.code) = FlowIn(m, f) /\ buildControlFlowGraph(FlowOf(f.code)) = GraphIn(m, f)
<1>1. DOMAIN CodeOf(m, f) = DOMAIN f.code  BY DEF CodeOf, Body
<1>2. \A at \in DOMAIN f.code : CodeOf(m, f)[at].op = f.code[at].op /\ CodeOf(m, f)[at].arg = f.code[at].arg
  BY CodeInstruction
<1> DEFINE code == CodeOf(m, f)
<1> HIDE DEF code
<1>3. FlowOf(f.code) = FlowOf(code)  BY <1>1, <1>2 DEF FlowOf, code
<1> QED  BY <1>3 DEF FlowIn, GraphIn, code

(* The edges out of a block, in the order in which they are compared.      *)
LEMMA EdgesSorted ==
  ASSUME NEW m, NEW d, HasCode(m, d), NEW b \in BlockIds(FlowIn(m, m.functions[d]))
  PROVE  LET w == FlowIn(m, m.functions[d])
             edges == SortedSuccessors(GraphIn(m, m.functions[d]), b)
             last == LastOf(w, b)
             to(answer, kind) == Edge(BlockOf(w, Goes(w, last, answer)), kind)
         IN  /\ last \in DOMAIN w /\ w[last].op \in Opcodes
             /\ w[last].op = "Branch" => edges = <<to(TRUE, "Branch")>>
             /\ Conditional(w[last].op) => edges = <<to(TRUE, "True"), to(FALSE, "False")>>
             /\ w[last].op = "Plain" => edges = <<to(TRUE, "Fallthrough")>>
             /\ w[last].op \in {"Ret", "Abort"} => edges = << >>
<1> DEFINE f == m.functions[d]
           w == FlowIn(m, f)
           last == LastOf(w, b)
           edges == GraphIn(m, f)[b].successors
           sorted == SortedSuccessors(GraphIn(m, f), b)
           to(answer, kind) == Edge(BlockOf(w, Goes(w, last, answer)), kind)
           goes(i, kind) == Edge(BlockOf(w, i), kind)
<1>1. /\ Accepted(w) /\ DOMAIN w = DOMAIN f.code /\ CodeOK(m, f)
      /\ \A at \in DOMAIN f.code : w[at].op \in Opcodes
  BY CodeIsAccepted
<1>2. last \in DOMAIN w  BY <1>1, BlocksEndInTheCode DEF LastOf
<1>3. /\ edges = SuccessorsOf(w, b) /\ ExitKindOf(w, b) # "FallOff"
  <2>1. \A a \in DOMAIN GraphIn(m, f) : GraphIn(m, f)[a].exit # "FallOff"
    BY <1>1 DEF CodeOK, GraphIn, FlowIn, CodeOf
  <2> QED  BY <2>1, GraphBlocks
<1>4. sorted = IF Len(edges) = 2 /\ Precedes(edges[2], edges[1]) THEN <<edges[2], edges[1]>> ELSE edges
  BY DEF SortedSuccessors
<1>5. /\ w[last].op = "Branch" => edges = <<goes(w[last].target, "Branch")>>
      /\ w[last].op = "BrTrue" => edges = <<goes(w[last].target, "True"), goes(last + 1, "False")>>
      /\ w[last].op = "BrFalse" => edges = <<goes(w[last].target, "False"), goes(last + 1, "True")>>
      /\ w[last].op \in {"Ret", "Abort"} => edges = << >>
      /\ w[last].op = "Plain" => edges = IF last + 1 \in DOMAIN w THEN <<goes(last + 1, "Fallthrough")>> ELSE << >>
  BY <1>3 DEF SuccessorsOf, LastOf
<1>6. w[last].op = "Plain" => last + 1 \in DOMAIN w
  BY <1>3 DEF ExitKindOf, LastOf
<1> HIDE DEF edges, sorted, w, last, f
<1>7. /\ w[last].op = "Branch" => to(TRUE, "Branch") = goes(w[last].target, "Branch")
      /\ w[last].op = "BrTrue" => to(TRUE, "True") = goes(w[last].target, "True") /\ to(FALSE, "False") = goes(last + 1, "False")
      /\ w[last].op = "BrFalse" => to(FALSE, "False") = goes(w[last].target, "False") /\ to(TRUE, "True") = goes(last + 1, "True")
      /\ w[last].op = "Plain" => to(TRUE, "Fallthrough") = goes(last + 1, "Fallthrough")
  BY DEF Goes, Conditional
<1>8. \A x, y : ~ Precedes(goes(x, "False"), goes(y, "True")) /\ Precedes(goes(x, "True"), goes(y, "False"))
  BY DEF Precedes, Edge, edgeRank
<1> HIDE DEF to, goes
<1>9. CASE w[last].op = "BrTrue"
  <2>1. edges = <<goes(w[last].target, "True"), goes(last + 1, "False")>>  BY <1>5, <1>9
  <2>2. Len(edges) = 2 /\ edges[1] = goes(w[last].target, "True") /\ edges[2] = goes(last + 1, "False")  BY <2>1
  <2>3. sorted = edges  BY <1>4, <1>8, <2>2
  <2> QED  BY <1>1, <1>2, <1>7, <1>9, <2>1, <2>3 DEF Conditional, w, f, last, sorted, to
<1>10. CASE w[last].op = "BrFalse"
  <2>1. edges = <<goes(w[last].target, "False"), goes(last + 1, "True")>>  BY <1>5, <1>10
  <2>2. Len(edges) = 2 /\ edges[1] = goes(w[last].target, "False") /\ edges[2] = goes(last + 1, "True")  BY <2>1
  <2>3. sorted = <<goes(last + 1, "True"), goes(w[last].target, "False")>>  BY <1>4, <1>8, <2>2
  <2> QED  BY <1>1, <1>2, <1>7, <1>10, <2>3 DEF Conditional, w, f, last, sorted, to
<1>11. CASE ~ Conditional(w[last].op)
  <2>1. w[last].op \in {"Branch", "Plain", "Ret", "Abort"}  BY <1>1, <1>2, <1>11 DEF Opcodes, Conditional
  <2>2. Len(edges) # 2  BY <1>5, <2>1
  <2>3. sorted = edges  BY <1>4, <2>2
  <2> QED  BY <1>1, <1>2, <1>5, <1>6, <1>7, <1>11, <2>1, <2>3 DEF w, f, last, sorted, to
<1> QED  BY <1>9, <1>10, <1>11 DEF Conditional

(* canonicalBlockOrder makes one: what is met are blocks, and those that   *)
(* are not come after them.                                                *)
LEMMA MetAreBlocks ==
  ASSUME NEW ids, NEW graph, NEW met, NEW k \in Nat,
         \A b \in ids : LET edges == SortedSuccessors(graph, b)
                        IN  IsFiniteSet(DOMAIN edges) /\ DOMAIN edges \subseteq Int
                            /\ \A j \in DOMAIN edges : edges[j].target \in ids,
         met \in Seq(ids), 1 \in DOMAIN met, met[1] = 0
  PROVE  LET next == MeetSuccessors(graph, met, k)
         IN  next \in Seq(ids) /\ 1 \in DOMAIN next /\ next[1] = 0
<1> DEFINE edges == SortedSuccessors(graph, met[k])
           new == {j \in DOMAIN edges : edges[j].target \notin ToSet(met) \cup {edges[i].target : i \in 1 .. j - 1}}
           n == Cardinality(new)
           more == [j \in 1 .. n |-> edges[Ascending(new)[j]].target]
<1>1. CASE k \notin DOMAIN met  BY <1>1 DEF MeetSuccessors
<1>2. CASE k \in DOMAIN met
  <2>1. met[k] \in ids  BY <1>2, ElementOfSeq, LenProperties
  <2>2. IsFiniteSet(DOMAIN edges) /\ DOMAIN edges \subseteq Int /\ \A j \in DOMAIN edges : edges[j].target \in ids
    BY <2>1
  <2>3. MeetSuccessors(graph, met, k) = met \o more  BY <1>2 DEF MeetSuccessors
  <2>4. new \subseteq DOMAIN edges  OBVIOUS
  <2> HIDE DEF new, edges
  <2>5. IsFiniteSet(new) /\ new \subseteq Int  BY <2>2, <2>4, FS_Subset
  <2>6. n \in Nat  BY <2>5, FS_CardinalityType
  <2>7. \A j \in 1 .. n : Ascending(new)[j] \in DOMAIN edges  BY <2>4, <2>5, AscendingListsAll
  <2> HIDE DEF n
  <2>8. more \in [1 .. n -> ids]  BY <2>2, <2>7
  <2>9. more \in Seq(ids)  BY <2>6, <2>8
  <2> HIDE DEF more
  <2>10. /\ met \o more \in Seq(ids) /\ Len(met \o more) = Len(met) + Len(more)
         /\ \A i \in 1 .. Len(met) : (met \o more)[i] = met[i]
    BY <2>9, ConcatProperties
  <2>11. DOMAIN met = 1 .. Len(met) /\ Len(met) \in Nat /\ Len(more) \in Nat  BY <2>9, LenProperties
  <2>12. 1 \in DOMAIN (met \o more) /\ (met \o more)[1] = 0  BY <2>10, <2>11, LenProperties
  <2> QED  BY <2>3, <2>10, <2>12
<1> QED  BY <1>1, <1>2

(* canonicalBlockOrder, of any graph: each turn adds the blocks that a     *)
(* block leads to and that have none yet, so every block is met in as many *)
(* turns as there are.                                                     *)
LEMMA OrderHasAll ==
  ASSUME NEW n \in Nat, n > 0, NEW graph, DOMAIN graph = 0 .. n - 1,
         \A b \in 0 .. n - 1 : LET edges == SortedSuccessors(graph, b)
                               IN  IsFiniteSet(DOMAIN edges) /\ DOMAIN edges \subseteq Int
                                   /\ \A j \in DOMAIN edges : edges[j].target \in 0 .. n - 1
  PROVE  IsOrder(canonicalBlockOrder(graph), DOMAIN graph)
<1> DEFINE ids == 0 .. n - 1
           Lists == {s \in Seq(ids) : 1 \in DOMAIN s /\ s[1] = 0}
           meet(met, k) == MeetSuccessors(graph, met, k + 1)
           step == [p \in Lists \X (0 .. n - 1) |-> meet(p[1], p[2])]
           Eq(g) == g = [k \in 0 .. n |-> IF k = 0 THEN <<0>> ELSE meet(g[k - 1], k - 1)]
           r == CHOOSE g : Eq(g)
<1>1. \A met \in Lists, k \in 0 .. n - 1 : meet(met, k) \in Lists
  <2> TAKE met \in Lists, k \in 0 .. n - 1
  <2>1. k + 1 \in Nat  OBVIOUS
  <2> QED  BY <2>1, MetAreBlocks
<1>2. <<0>> \in Lists
  <2>1. 0 \in ids  OBVIOUS
  <2> QED  BY <2>1
<1> HIDE DEF Lists, meet
<1>3. step \in [Lists \X (0 .. n - 1) -> Lists]  BY <1>1
<1>4. PICK g : LoopsTo(g, n, Lists, step, <<0>>)
  <2> HIDE DEF step
  <2> QED  BY <1>2, <1>3, LoopToExists
<1>5. g \in [0 .. n -> Lists] /\ g[0] = <<0>> /\ \A k \in 0 .. n - 1 : g[k + 1] = step[<<g[k], k>>]
  BY <1>4 DEF LoopsTo
<1>6. Eq(g)
  <2>1. ASSUME NEW k \in 0 .. n PROVE g[k] = IF k = 0 THEN <<0>> ELSE meet(g[k - 1], k - 1)
    <3>1. CASE k = 0  BY <1>5, <3>1
    <3>2. CASE k # 0
      <4>1. k - 1 \in 0 .. n - 1 /\ k - 1 \in 0 .. n /\ k - 1 + 1 = k  BY <3>2
      <4>2. g[k] = step[<<g[k - 1], k - 1>>] /\ g[k - 1] \in Lists  BY <1>5, <4>1
      <4> QED  BY <3>2, <4>1, <4>2
    <3> QED  BY <3>1, <3>2
  <2> QED  BY <1>5, <2>1
<1>7. canonicalBlockOrder(graph) = r[n] \o Ascending(ids \ ToSet(r[n]))
  <2>1. Cardinality(DOMAIN graph) = n
    <3>1. Cardinality(0 .. n - 1) = n - 1 - 0 + 1  BY FS_Interval
    <3> QED  BY <3>1
  <2> DEFINE size == Cardinality(DOMAIN graph)
             loop == ForUpTo(LAMBDA known, k : MeetSuccessors(graph, known, k + 1), <<0>>, size)
  <2>2. canonicalBlockOrder(graph) = loop \o Ascending(DOMAIN graph \ ToSet(loop))  BY DEF canonicalBlockOrder
  <2> HIDE DEF size
  <2>3. size = n  BY <2>1 DEF size
  <2>4. loop = r[n]  BY <2>3 DEF ForUpTo, meet
  <2> HIDE DEF loop, r
  <2> QED  BY <2>2, <2>4
<1> HIDE DEF Eq
<1>8. Eq(r)  BY <1>6
<1> HIDE DEF r
<1> DEFINE T == {k \in 0 .. n : r[k] \in Lists}
<1>9. 0 \in T  BY <1>2, <1>8 DEF Eq
<1>10. ASSUME NEW k \in 0 .. n - 1, k \in T PROVE k + 1 \in T
  <2> DEFINE next == k + 1
  <2>2. next \in 0 .. n /\ next # 0 /\ next - 1 = k  OBVIOUS
  <2> HIDE DEF next
  <2>3. r[next] = meet(r[next - 1], next - 1)  BY <1>8, <2>2 DEF Eq
  <2>4. meet(r[k], k) \in Lists  BY <1>1, <1>10
  <2> QED  BY <2>2, <2>3, <2>4 DEF next
<1> HIDE DEF T
<1>11. n \in T
  <2>1. 0 .. n \subseteq T  BY <1>9, <1>10, ClosedUpTo
  <2> QED  BY <2>1
<1> DEFINE met == r[n]
           left == ids \ ToSet(met)
           rest == Ascending(left)
<1>12. met \in Seq(ids) /\ 1 \in DOMAIN met /\ met[1] = 0  BY <1>11 DEF T, Lists
<1> HIDE DEF met
<1>13. IsFiniteSet(left) /\ left \subseteq Int /\ left \subseteq ids
  <2>1. IsFiniteSet(ids)  BY FS_Interval
  <2> QED  BY <2>1, FS_Subset
<1> HIDE DEF left
<1>14. /\ Cardinality(left) \in Nat
       /\ \A i \in 1 .. Cardinality(left) : rest[i] \in left
       /\ \A x \in left : Rank(left, x) \in 1 .. Cardinality(left) /\ rest[Rank(left, x)] = x
  BY <1>13, FS_CardinalityType, AscendingListsAll, RankIsAPlace
<1> DEFINE size == Cardinality(left)
<1>15. rest \in Seq(ids) /\ Len(rest) = size
  <2>1. rest \in [1 .. size -> ids]  BY <1>13, <1>14 DEF Ascending
  <2> HIDE DEF rest, size
  <2> QED  BY <1>14, <2>1 DEF size
<1> HIDE DEF rest, ids
<1>16. /\ met \o rest \in Seq(ids) /\ Len(met \o rest) = Len(met) + Len(rest)
       /\ \A i \in 1 .. Len(met) + Len(rest) : (met \o rest)[i] = IF i <= Len(met) THEN met[i] ELSE rest[i - Len(met)]
  BY <1>12, <1>15, ConcatProperties
<1>17. /\ DOMAIN met = 1 .. Len(met) /\ Len(met) \in Nat /\ Len(rest) \in Nat
       /\ DOMAIN (met \o rest) = 1 .. Len(met) + Len(rest)
  BY <1>12, <1>15, <1>16, LenProperties
<1>18. ASSUME NEW b \in ids PROVE \E p \in DOMAIN (met \o rest) : (met \o rest)[p] = b
  <2>1. CASE b \in ToSet(met)
    <3>1. PICK p \in DOMAIN met : met[p] = b  BY <2>1 DEF ToSet
    <3>2. p \in DOMAIN (met \o rest) /\ (met \o rest)[p] = b  BY <1>16, <1>17, <3>1
    <3> QED  BY <3>2
  <2>2. CASE b \notin ToSet(met)
    <3>1. b \in left  BY <2>2 DEF left
    <3> DEFINE q == Rank(left, b)
    <3>2. q \in 1 .. Len(rest) /\ rest[q] = b  BY <1>14, <1>15, <3>1
    <3> HIDE DEF q
    <3> DEFINE p == Len(met) + q
    <3>3. p \in DOMAIN (met \o rest) /\ p \in 1 .. Len(met) + Len(rest) /\ ~ p <= Len(met) /\ p - Len(met) = q
      BY <1>17, <3>2
    <3> HIDE DEF p
    <3>4. (met \o rest)[p] = b  BY <1>16, <3>2, <3>3
    <3> QED  BY <3>3, <3>4
  <2> QED  BY <2>1, <2>2
<1>19. 1 \in DOMAIN (met \o rest) /\ (met \o rest)[1] = 0  BY <1>12, <1>16, <1>17
<1>20. IsOrder(met \o rest, ids)  BY <1>16, <1>18, <1>19 DEF IsOrder
<1> QED  BY <1>7, <1>20 DEF rest, left, met, ids

(* A block leads to two blocks at most, and these are blocks.              *)
LEMMA EdgesAreFew ==
  ASSUME NEW m, NEW d, HasCode(m, d), NEW b \in BlockIds(FlowIn(m, m.functions[d]))
  PROVE  LET edges == SortedSuccessors(GraphIn(m, m.functions[d]), b)
         IN  /\ IsFiniteSet(DOMAIN edges) /\ DOMAIN edges \subseteq Int
             /\ \A j \in DOMAIN edges : edges[j].target \in BlockIds(FlowIn(m, m.functions[d]))
<1> DEFINE w == FlowIn(m, m.functions[d])
           last == LastOf(w, b)
           edges == SortedSuccessors(GraphIn(m, m.functions[d]), b)
           to(answer, kind) == Edge(BlockOf(w, Goes(w, last, answer)), kind)
<1>1. Accepted(w)  BY CodeIsAccepted
<1>2. /\ last \in DOMAIN w /\ w[last].op \in Opcodes
      /\ w[last].op = "Branch" => edges = <<to(TRUE, "Branch")>>
      /\ Conditional(w[last].op) => edges = <<to(TRUE, "True"), to(FALSE, "False")>>
      /\ w[last].op = "Plain" => edges = <<to(TRUE, "Fallthrough")>>
      /\ w[last].op \in {"Ret", "Abort"} => edges = << >>
  BY EdgesSorted
<1>3. w[last].op \notin {"Ret", "Abort"} => \A answer \in BOOLEAN : Goes(w, last, answer) \in Nat
  <2>1. last \in Nat  BY <1>1, <1>2, InstructionsAreNatural
  <2>2. Branches(w[last].op) => w[last].target \in Nat
    BY <1>1, <1>2, InstructionsAreNatural DEF Accepted, CfgRejects, TargetOK
  <2> QED  BY <2>1, <2>2 DEF Goes, Branches
<1>4. w[last].op \notin {"Ret", "Abort"} =>
        \A answer \in BOOLEAN : \A kind : to(answer, kind).target \in BlockIds(w)
  BY <1>1, <1>3, BlockOfIsABlock DEF Edge
<1> HIDE DEF w, last, edges, to
<1> DEFINE one(kind) == DOMAIN edges = {1} /\ edges[1] = to(TRUE, kind)
<1>5. /\ w[last].op = "Branch" => one("Branch")
      /\ Conditional(w[last].op) => DOMAIN edges = {1, 2} /\ edges[1] = to(TRUE, "True") /\ edges[2] = to(FALSE, "False")
      /\ w[last].op = "Plain" => one("Fallthrough")
      /\ w[last].op \in {"Ret", "Abort"} => DOMAIN edges = {}
  BY <1>2, ShortLists
<1>6. IsFiniteSet(DOMAIN edges) /\ DOMAIN edges \subseteq Int
  <2>1. IsFiniteSet({}) /\ IsFiniteSet({1}) /\ IsFiniteSet({1, 2})  BY FS_EmptySet, FS_Singleton, FS_AddElement
  <2>2. DOMAIN edges \in {{}, {1}, {1, 2}}  BY <1>2, <1>5 DEF Opcodes, Conditional
  <2> QED  BY <2>1, <2>2
<1>7. \A j \in DOMAIN edges : edges[j].target \in BlockIds(w)
  <2>1. CASE Conditional(w[last].op)  BY <1>4, <1>5, <2>1 DEF Conditional
  <2>2. CASE w[last].op = "Branch"  BY <1>4, <1>5, <2>2
  <2>3. CASE w[last].op = "Plain"  BY <1>4, <1>5, <2>3
  <2>4. CASE w[last].op \in {"Ret", "Abort"}  BY <1>5, <2>4
  <2> QED  BY <1>2, <2>1, <2>2, <2>3, <2>4 DEF Opcodes, Conditional
<1> QED  BY <1>6, <1>7 DEF w, edges

(* So the order of a graph that was built is one: it starts with block 0   *)
(* and has every block.                                                    *)
LEMMA OrderFits ==
  ASSUME NEW m, NEW d, HasCode(m, d)
  PROVE  IsOrder(OrderIn(m, m.functions[d]), BlockIds(FlowIn(m, m.functions[d])))
<1> DEFINE w == FlowIn(m, m.functions[d])
           g == GraphIn(m, m.functions[d])
           n == Cardinality(Leaders(w))
<1>1. Accepted(w)  BY CodeIsAccepted
<1>2. n \in Nat /\ BlockIds(w) = 0 .. n - 1  BY <1>1, LeadersAreInstructions DEF BlockIds
<1>3. n > 0
  <2>1. BlockOf(w, 0) \in BlockIds(w)  BY <1>1, BlockOfIsABlock
  <2> QED  BY <1>2, <2>1
<1>4. DOMAIN g = 0 .. n - 1  BY <1>2, GraphBlocks
<1>5. \A b \in 0 .. n - 1 : LET edges == SortedSuccessors(g, b)
                            IN  IsFiniteSet(DOMAIN edges) /\ DOMAIN edges \subseteq Int
                                /\ \A j \in DOMAIN edges : edges[j].target \in 0 .. n - 1
  BY <1>2, EdgesAreFew
<1> HIDE DEF g, n, w
<1>6. IsOrder(canonicalBlockOrder(g), DOMAIN g)  BY <1>2, <1>3, <1>4, <1>5, OrderHasAll
<1> QED  BY <1>2, <1>4, <1>6 DEF OrderIn, g, w

(* A block by the name it has in the order.                                *)
LEMMA PositionsFit ==
  ASSUME NEW order, NEW ids, IsOrder(order, ids), NEW b \in ids
  PROVE  Position(order, b) \in DOMAIN order /\ order[Position(order, b)] = b
BY DEF IsOrder, Position

(* Where the last instruction of a block leads, is where its edges in the  *)
(* normal form do: a test that holds, or goes on, first.                   *)
LEMMA EdgesNormal ==
  ASSUME NEW m, NEW d, HasCode(m, d), NEW b \in BlockIds(FlowIn(m, m.functions[d])), NEW order
  PROVE  LET w == FlowIn(m, m.functions[d])
             edges == NormalSuccessors(GraphIn(m, m.functions[d]), order, b)
             last == LastOf(w, b)
             to(kind, answer) == <<kind, Position(order, BlockOf(w, Goes(w, last, answer)))>>
         IN  /\ w[last].op \in Opcodes
             /\ w[last].op = "Branch" => DOMAIN edges = {1} /\ edges[1] = to("Branch", TRUE)
             /\ Conditional(w[last].op) =>
                  DOMAIN edges = {1, 2} /\ edges[1] = to("True", TRUE) /\ edges[2] = to("False", FALSE)
             /\ w[last].op = "Plain" => DOMAIN edges = {1} /\ edges[1] = to("Fallthrough", TRUE)
             /\ w[last].op \in {"Ret", "Abort"} => DOMAIN edges = {}
<1> DEFINE w == FlowIn(m, m.functions[d])
           last == LastOf(w, b)
           sorted == SortedSuccessors(GraphIn(m, m.functions[d]), b)
           edges == NormalSuccessors(GraphIn(m, m.functions[d]), order, b)
           edge(kind, answer) == Edge(BlockOf(w, Goes(w, last, answer)), kind)
           to(kind, answer) == <<kind, Position(order, BlockOf(w, Goes(w, last, answer)))>>
<1>1. /\ last \in DOMAIN w /\ w[last].op \in Opcodes
      /\ w[last].op = "Branch" => sorted = <<edge("Branch", TRUE)>>
      /\ Conditional(w[last].op) => sorted = <<edge("True", TRUE), edge("False", FALSE)>>
      /\ w[last].op = "Plain" => sorted = <<edge("Fallthrough", TRUE)>>
      /\ w[last].op \in {"Ret", "Abort"} => sorted = << >>
  BY EdgesSorted
<1>2. DOMAIN edges = DOMAIN sorted
      /\ \A k \in DOMAIN sorted : edges[k] = <<sorted[k].kind, Position(order, sorted[k].target)>>
  BY DEF NormalSuccessors
<1>3. \A kind, answer : to(kind, answer) = <<edge(kind, answer).kind, Position(order, edge(kind, answer).target)>>
  BY DEF Edge
<1> HIDE DEF w, last, sorted, edges, edge, to
<1>4. /\ w[last].op = "Branch" => DOMAIN sorted = {1} /\ sorted[1] = edge("Branch", TRUE)
      /\ Conditional(w[last].op) => DOMAIN sorted = {1, 2} /\ sorted[1] = edge("True", TRUE) /\ sorted[2] = edge("False", FALSE)
      /\ w[last].op = "Plain" => DOMAIN sorted = {1} /\ sorted[1] = edge("Fallthrough", TRUE)
      /\ w[last].op \in {"Ret", "Abort"} => DOMAIN sorted = {}
  BY <1>1, ShortLists
<1>5. w[last].op = "Branch" => DOMAIN edges = {1} /\ edges[1] = to("Branch", TRUE)  BY <1>2, <1>3, <1>4
<1>6. Conditional(w[last].op) =>
        DOMAIN edges = {1, 2} /\ edges[1] = to("True", TRUE) /\ edges[2] = to("False", FALSE)
  BY <1>2, <1>3, <1>4
<1>7. w[last].op = "Plain" => DOMAIN edges = {1} /\ edges[1] = to("Fallthrough", TRUE)  BY <1>2, <1>3, <1>4
<1>8. w[last].op \in {"Ret", "Abort"} => DOMAIN edges = {}  BY <1>2, <1>4
<1> QED  BY <1>1, <1>5, <1>6, <1>7, <1>8 DEF w, last, edges, to
-----------------------------------------------------------------------------
(* The normal form of a body, block by block.                              *)
LEMMA BodyByBlocks ==
  ASSUME NEW m, NEW d, HasCode(m, d)
  PROVE  LET body == NormalizedBody(m, m.functions[d])
         IN  /\ DOMAIN body = DOMAIN Order(m, d)
             /\ \A p \in DOMAIN Order(m, d) :
                  LET seen == Seen(m, d, Order(m, d)[p])
                  IN  /\ Order(m, d)[p] \in BlockIds(Flow(m, d))
                      /\ body[p].instructions
                           = [k \in 1 .. Cardinality(seen) |-> Called(m, d, Ascending(seen)[k])]
                      /\ body[p].successors = Leading(m, d, Order(m, d)[p])
<1> DEFINE f == m.functions[d]
           graph == GraphIn(m, f)
           order == OrderIn(m, f)
           turns == TurnsIn(m, f)
           body == NormalizedBody(m, f)
<1>1. Coded(f) /\ ~ IsNative(f)  BY CodeIsAccepted DEF HasCode
<1>2. body = [p \in DOMAIN order |-> NormalizedBlock(m, f, graph, order, turns, order[p])]
  <2>1. buildControlFlowGraph(FlowOf(f.code)) = graph  BY <1>1, SameFlow
  <2> HIDE DEF f, graph
  <2> QED  BY <1>1, <2>1 DEF NormalizedBody, OrderIn, TurnsIn, graph
<1>3. IsOrder(order, BlockIds(FlowIn(m, f)))  BY OrderFits
<1> HIDE DEF f, graph, order, turns, body
<1>4. DOMAIN body = DOMAIN order /\ \A p \in DOMAIN order : body[p] = NormalizedBlock(m, f, graph, order, turns, order[p])
  BY <1>2
<1>5. ASSUME NEW p \in DOMAIN order
      PROVE  LET seen == Seen(m, d, order[p])
             IN  /\ order[p] \in BlockIds(FlowIn(m, f))
                 /\ body[p].instructions = [k \in 1 .. Cardinality(seen) |-> Called(m, d, Ascending(seen)[k])]
                 /\ body[p].successors = NormalSuccessors(graph, order, order[p])
  <2> DEFINE b == order[p]
             seen == Seen(m, d, b)
             shown == Shown(f, graph[b])
             name(at) == Normalized(m, f, turns, f.code[at])
  <2>1. b \in BlockIds(FlowIn(m, f))  BY <1>3, ElementOfSeq, LenProperties DEF IsOrder
  <2>2. graph[b].begin = BlockStart(FlowIn(m, f), b) /\ graph[b].end = BlockEnd(FlowIn(m, f), b)
    BY <2>1, GraphBlocks DEF graph, f
  <2>3. shown = Ascending(seen)
    BY <2>2 DEF Shown, Seen, LastOf, Flow, Code, f
  <2>4. body[p].instructions = [k \in DOMAIN shown |-> name(shown[k])]
        /\ body[p].successors = NormalSuccessors(graph, order, b)
    BY <1>4 DEF NormalizedBlock
  <2>5. \A at : name(at) = Called(m, d, at)  BY DEF Called, Code, f, turns
  <2> HIDE DEF seen, shown, name, b
  <2>6. DOMAIN shown = 1 .. Cardinality(seen)  BY <2>3 DEF Ascending
  <2>7. body[p].instructions = [k \in 1 .. Cardinality(seen) |-> Called(m, d, Ascending(seen)[k])]
    BY <2>3, <2>4, <2>5, <2>6
  <2> QED  BY <2>1, <2>4, <2>7 DEF b, seen
<1> QED  BY <1>4, <1>5 DEF f, graph, order, body, Order, Flow, Leading

(* Blocks of twins in one place of the order: as much is seen in both,     *)
(* instruction by instruction under one name, and they lead to such        *)
(* blocks.                                                                 *)
LEMMA BlocksAgree ==
  ASSUME NEW m, NEW d, NEW n, NEW e, Twins(m, d, n, e), NEW p \in DOMAIN Order(m, d)
  PROVE  LET b == Order(m, d)[p]
             c == Order(n, e)[p]
         IN  /\ DOMAIN Order(n, e) = DOMAIN Order(m, d)
             /\ b \in BlockIds(Flow(m, d)) /\ c \in BlockIds(Flow(n, e))
             /\ Cardinality(Seen(n, e, c)) = Cardinality(Seen(m, d, b))
             /\ \A k \in 1 .. Cardinality(Seen(m, d, b)) :
                  Called(m, d, Ascending(Seen(m, d, b))[k]) = Called(n, e, Ascending(Seen(n, e, c))[k])
             /\ Leading(m, d, b) = Leading(n, e, c)
<1> DEFINE body == NormalizedBody(m, m.functions[d])
           other == NormalizedBody(n, n.functions[e])
           b == Order(m, d)[p]
           c == Order(n, e)[p]
           S == Seen(m, d, b)
           T == Seen(n, e, c)
<1>1. /\ DOMAIN body = DOMAIN Order(m, d) /\ b \in BlockIds(Flow(m, d))
      /\ body[p].instructions = [k \in 1 .. Cardinality(S) |-> Called(m, d, Ascending(S)[k])]
      /\ body[p].successors = Leading(m, d, b)
  BY BodyByBlocks DEF Twins
<1>2. body = other  BY DEF Twins
<1>3. DOMAIN other = DOMAIN Order(n, e)  BY BodyByBlocks DEF Twins
<1>4. DOMAIN Order(n, e) = DOMAIN Order(m, d)  BY <1>1, <1>2, <1>3
<1>5. /\ c \in BlockIds(Flow(n, e))
      /\ other[p].instructions = [k \in 1 .. Cardinality(T) |-> Called(n, e, Ascending(T)[k])]
      /\ other[p].successors = Leading(n, e, c)
  BY <1>4, BodyByBlocks DEF Twins
<1>6. IsFiniteSet(S) /\ IsFiniteSet(T)
  <2>1. /\ IsFiniteSet(BlockStart(Flow(m, d), b) .. LastOf(Flow(m, d), b))
        /\ IsFiniteSet(BlockStart(Flow(n, e), c) .. LastOf(Flow(n, e), c))
    <3>1. Accepted(Flow(m, d)) /\ Accepted(Flow(n, e))  BY CodeIsAccepted DEF Twins, Flow
    <3>2. /\ BlockStart(Flow(m, d), b) \in Int /\ LastOf(Flow(m, d), b) \in Int
          /\ BlockStart(Flow(n, e), c) \in Int /\ LastOf(Flow(n, e), c) \in Int
      BY <1>1, <1>5, <3>1, BlocksHaveLeaders, BlocksEndInTheCode, InstructionsAreNatural, LeadersAreInstructions DEF LastOf
    <3> QED  BY <3>2, FS_Interval
  <2> QED  BY <2>1, FS_Subset DEF Seen
<1> HIDE DEF body, other, b, c, S, T
<1>7. Cardinality(S) \in Nat /\ Cardinality(T) \in Nat  BY <1>6, FS_CardinalityType
<1>8. 1 .. Cardinality(S) = 1 .. Cardinality(T)
      /\ \A k \in 1 .. Cardinality(S) : Called(m, d, Ascending(S)[k]) = Called(n, e, Ascending(T)[k])
  <2>1. [k \in 1 .. Cardinality(S) |-> Called(m, d, Ascending(S)[k])]
          = [k \in 1 .. Cardinality(T) |-> Called(n, e, Ascending(T)[k])]
    BY <1>1, <1>2, <1>5
  <2> DEFINE u == [k \in 1 .. Cardinality(S) |-> Called(m, d, Ascending(S)[k])]
             v == [k \in 1 .. Cardinality(T) |-> Called(n, e, Ascending(T)[k])]
  <2>2. DOMAIN u = 1 .. Cardinality(S) /\ DOMAIN v = 1 .. Cardinality(T)
        /\ (\A k \in 1 .. Cardinality(S) : u[k] = Called(m, d, Ascending(S)[k]))
        /\ (\A k \in 1 .. Cardinality(T) : v[k] = Called(n, e, Ascending(T)[k]))
    OBVIOUS
  <2>3. u = v  BY <2>1
  <2> HIDE DEF u, v
  <2> QED  BY <2>2, <2>3
<1>9. Cardinality(S) = Cardinality(T)
  <2> DEFINE x == Cardinality(S)
             y == Cardinality(T)
  <2>1. x \in Nat /\ y \in Nat /\ 1 .. x = 1 .. y  BY <1>7, <1>8
  <2> HIDE DEF x, y
  <2>2. x = y  BY <2>1
  <2> QED  BY <2>2 DEF x, y
<1> QED  BY <1>1, <1>2, <1>4, <1>5, <1>8, <1>9 DEF b, c, S, T

(* Blocks that have one name stand in one place of the order.              *)
LEMMA FacingByPosition ==
  ASSUME NEW m, NEW d, NEW n, NEW e, Twins(m, d, n, e),
         NEW b \in BlockIds(Flow(m, d)), NEW c \in BlockIds(Flow(n, e)),
         Position(Order(m, d), b) = Position(Order(n, e), c)
  PROVE  Facing(m, d, n, e, b, c)
<1>1. IsOrder(Order(m, d), BlockIds(Flow(m, d))) /\ IsOrder(Order(n, e), BlockIds(Flow(n, e)))
  BY OrderFits DEF Twins, Order, Flow
<1>2. Position(Order(m, d), b) \in DOMAIN Order(m, d) /\ Order(m, d)[Position(Order(m, d), b)] = b
  BY <1>1, PositionsFit
<1>3. Order(n, e)[Position(Order(n, e), c)] = c  BY <1>1, PositionsFit
<1> QED  BY <1>2, <1>3 DEF Facing

(* Control stays in the code if it does not end there.                     *)
LEMMA GoesInside ==
  ASSUME NEW c, Accepted(c), NEW at \in DOMAIN c, NEW answer, c[at].op \notin Fallen
  PROVE  /\ Goes(c, at, answer) \in Nat /\ BlockOf(c, Goes(c, at, answer)) \in BlockIds(c)
         /\ ~ Conditional(c[at].op) => Goes(c, at, answer) = Goes(c, at, TRUE)
<1>1. at \in Nat  BY InstructionsAreNatural
<1>2. Branches(c[at].op) => c[at].target \in Nat
  BY InstructionsAreNatural DEF Accepted, CfgRejects, TargetOK
<1>3. Goes(c, at, answer) \in Nat  BY <1>1, <1>2 DEF Goes, Branches
<1>4. ~ Conditional(c[at].op) => Goes(c, at, answer) = Goes(c, at, TRUE)  BY DEF Goes
<1> QED  BY <1>3, <1>4, BlockOfIsABlock

(* The last instructions of such blocks are of one kind, and lead to such  *)
(* blocks.                                                                 *)
LEMMA EndsAgree ==
  ASSUME NEW m, NEW d, NEW n, NEW e, Twins(m, d, n, e), NEW p \in DOMAIN Order(m, d)
  PROVE  EndsLike(m, d, n, e, LastOf(Flow(m, d), Order(m, d)[p]), LastOf(Flow(n, e), Order(n, e)[p]))
<1> DEFINE w == Flow(m, d)
           v == Flow(n, e)
           b == Order(m, d)[p]
           c == Order(n, e)[p]
           k == LastOf(w, b)
           l == LastOf(v, c)
           E == Leading(m, d, b)
           E2 == Leading(n, e, c)
           pos(answer) == Position(Order(m, d), BlockOf(w, Goes(w, k, answer)))
           qos(answer) == Position(Order(n, e), BlockOf(v, Goes(v, l, answer)))
           to(kind, answer) == <<kind, pos(answer)>>
           or(kind, answer) == <<kind, qos(answer)>>
<1>1. b \in BlockIds(w) /\ c \in BlockIds(v) /\ E = Leading(n, e, c)  BY BlocksAgree
<1>2. Accepted(w) /\ Accepted(v) /\ HasCode(m, d) /\ HasCode(n, e)  BY CodeIsAccepted DEF Twins, Flow
<1>3. k \in DOMAIN w /\ l \in DOMAIN v  BY <1>1, <1>2, BlocksEndInTheCode DEF LastOf
<1>4. /\ w[k].op \in Opcodes
      /\ w[k].op = "Branch" => DOMAIN E = {1} /\ E[1] = to("Branch", TRUE)
      /\ Conditional(w[k].op) => DOMAIN E = {1, 2} /\ E[1] = to("True", TRUE) /\ E[2] = to("False", FALSE)
      /\ w[k].op = "Plain" => DOMAIN E = {1} /\ E[1] = to("Fallthrough", TRUE)
      /\ w[k].op \in Fallen => DOMAIN E = {}
  BY <1>1, <1>2, EdgesNormal DEF Flow, Leading, Order, OrderIn, Fallen
<1>5a. /\ v[l].op \in Opcodes
       /\ v[l].op = "Branch" => DOMAIN E2 = {1} /\ E2[1] = or("Branch", TRUE)
       /\ Conditional(v[l].op) => DOMAIN E2 = {1, 2} /\ E2[1] = or("True", TRUE) /\ E2[2] = or("False", FALSE)
       /\ v[l].op = "Plain" => DOMAIN E2 = {1} /\ E2[1] = or("Fallthrough", TRUE)
       /\ v[l].op \in Fallen => DOMAIN E2 = {}
  BY <1>1, <1>2, EdgesNormal DEF Flow, Leading, Order, OrderIn, Fallen
<1>6. \A kind, other, answer : to(kind, answer) = or(other, answer) => kind = other /\ pos(answer) = qos(answer)
  <2> HIDE DEF pos, qos
  <2> QED  OBVIOUS
<1>7. /\ w[k].op \notin Fallen => \A answer : /\ BlockOf(w, Goes(w, k, answer)) \in BlockIds(w)
                                              /\ ~ Conditional(w[k].op) => Goes(w, k, answer) = Goes(w, k, TRUE)
      /\ v[l].op \notin Fallen => \A answer : /\ BlockOf(v, Goes(v, l, answer)) \in BlockIds(v)
                                              /\ ~ Conditional(v[l].op) => Goes(v, l, answer) = Goes(v, l, TRUE)
  BY <1>2, <1>3, GoesInside
<1>8. /\ ~ Conditional(w[k].op) /\ w[k].op \notin Fallen => \A answer : pos(answer) = pos(TRUE)
      /\ ~ Conditional(v[l].op) /\ v[l].op \notin Fallen => \A answer : qos(answer) = qos(TRUE)
  BY <1>7, Zenon
<1> DEFINE same == \A answer \in BOOLEAN : pos(answer) = qos(answer)
           kinds == /\ w[k].op \in Fallen <=> v[l].op \in Fallen
                    /\ w[k].op = "Plain" <=> v[l].op = "Plain"
                    /\ w[k].op = "Branch" <=> v[l].op = "Branch"
                    /\ Conditional(w[k].op) <=> Conditional(v[l].op)
<1>5b. E = E2  BY <1>1
<1> HIDE DEF w, v, b, c, k, l, E, E2, pos, qos, to, or
<1>5. /\ v[l].op \in Opcodes
      /\ v[l].op = "Branch" => DOMAIN E = {1} /\ E[1] = or("Branch", TRUE)
      /\ Conditional(v[l].op) => DOMAIN E = {1, 2} /\ E[1] = or("True", TRUE) /\ E[2] = or("False", FALSE)
      /\ v[l].op = "Plain" => DOMAIN E = {1} /\ E[1] = or("Fallthrough", TRUE)
      /\ v[l].op \in Fallen => DOMAIN E = {}
  BY <1>5a, <1>5b
<1> DEFINE x == w[k].op
           y == v[l].op
<1> HIDE DEF x, y
<1>9. {1} # {} /\ {1, 2} # {} /\ {1} # {1, 2}  OBVIOUS
<1>10. kinds /\ (x \notin Fallen => same)
  <2>1. /\ x = "Branch" => DOMAIN E = {1} /\ E[1] = to("Branch", TRUE)
        /\ Conditional(x) => DOMAIN E = {1, 2} /\ E[1] = to("True", TRUE) /\ E[2] = to("False", FALSE)
        /\ x = "Plain" => DOMAIN E = {1} /\ E[1] = to("Fallthrough", TRUE)
        /\ x \in Fallen => DOMAIN E = {}
        /\ ~ Conditional(x) /\ x \notin Fallen => \A answer : pos(answer) = pos(TRUE)
    BY <1>4, <1>8 DEF x
  <2>2. /\ y = "Branch" => DOMAIN E = {1} /\ E[1] = or("Branch", TRUE)
        /\ Conditional(y) => DOMAIN E = {1, 2} /\ E[1] = or("True", TRUE) /\ E[2] = or("False", FALSE)
        /\ y = "Plain" => DOMAIN E = {1} /\ E[1] = or("Fallthrough", TRUE)
        /\ y \in Fallen => DOMAIN E = {}
        /\ ~ Conditional(y) /\ y \notin Fallen => \A answer : qos(answer) = qos(TRUE)
    BY <1>5, <1>8 DEF y
  <2>3. x \in Opcodes /\ y \in Opcodes  BY <1>4, <1>5 DEF x, y
  <2>4. \A z \in Opcodes : z \in {"Branch", "Plain"} \cup Fallen \/ Conditional(z)  BY DEF Opcodes, Fallen, Conditional
  <2>5. CASE x = "Branch"
    <3>1. y = "Branch"  BY <1>6, <1>9, <2>1, <2>2, <2>3, <2>4, <2>5
    <3>a. to("Branch", TRUE) = or("Branch", TRUE)  BY <2>1, <2>2, <2>5, <3>1
    <3>2. pos(TRUE) = qos(TRUE)  BY <1>6, <3>a
    <3> QED  BY <2>1, <2>2, <2>5, <3>1, <3>2 DEF x, y, Conditional, Fallen
  <2>6. CASE x = "Plain"
    <3>1. y = "Plain"  BY <1>6, <1>9, <2>1, <2>2, <2>3, <2>4, <2>6
    <3>a. to("Fallthrough", TRUE) = or("Fallthrough", TRUE)  BY <2>1, <2>2, <2>6, <3>1
    <3>2. pos(TRUE) = qos(TRUE)  BY <1>6, <3>a
    <3> QED  BY <2>1, <2>2, <2>6, <3>1, <3>2 DEF x, y, Conditional, Fallen
  <2>7. CASE Conditional(x)
    <3>1. Conditional(y)  BY <1>9, <2>1, <2>2, <2>3, <2>4, <2>7
    <3>2. pos(TRUE) = qos(TRUE) /\ pos(FALSE) = qos(FALSE)  BY <1>6, <2>1, <2>2, <2>7, <3>1
    <3> QED  BY <2>7, <3>1, <3>2 DEF x, y, Conditional, Fallen
  <2>8. CASE x \in Fallen
    <3>1. y \in Fallen  BY <1>9, <2>1, <2>2, <2>3, <2>4, <2>8
    <3> QED  BY <2>8, <3>1 DEF x, y, Conditional, Fallen
  <2> QED  BY <2>3, <2>4, <2>5, <2>6, <2>7, <2>8
<1>11. ASSUME x \notin Fallen, NEW answer \in BOOLEAN
       PROVE  Facing(m, d, n, e, BlockOf(w, Goes(w, k, answer)), BlockOf(v, Goes(v, l, answer)))
  <2>1. y \notin Fallen  BY <1>10, <1>11 DEF x, y
  <2>2. BlockOf(w, Goes(w, k, answer)) \in BlockIds(w) /\ BlockOf(v, Goes(v, l, answer)) \in BlockIds(v)
    BY <1>7, <1>11, <2>1 DEF x, y
  <2>3. Position(Order(m, d), BlockOf(w, Goes(w, k, answer))) = Position(Order(n, e), BlockOf(v, Goes(v, l, answer)))
    BY <1>10, <1>11 DEF pos, qos
  <2> QED  BY <2>2, <2>3, FacingByPosition DEF w, v
<1>12. EndsLike(m, d, n, e, k, l)
  BY <1>3, <1>4, <1>5, <1>10, <1>11 DEF EndsLike, w, v, x, y
<1> QED  BY <1>12 DEF k, l, b, c, w, v

(* What of an instruction the blocks are cut by.                           *)
LEMMA FlowOps ==
  ASSUME NEW m, NEW d, HasCode(m, d), NEW at \in DOMAIN Code(m, d)
  PROVE  LET op == Code(m, d)[at].op
             w == Flow(m, d)
         IN  /\ op \in AllOps /\ at \in Nat /\ DOMAIN w = DOMAIN Code(m, d)
             /\ Branches(op) => w[at].op = op /\ w[at].target = Code(m, d)[at].arg
             /\ Branches(w[at].op) => w[at].op = op
             /\ w[at].op \in Fallen <=> op \in {"Ret", "Abort", "AbortMsg"}
             /\ w[at].op = "Plain" <=> op \notin {"Branch", "BrTrue", "BrFalse", "Ret", "Abort", "AbortMsg"}
             /\ op = "Ret" <=> w[at].op = "Ret"
<1> DEFINE f == m.functions[d]
           c == CodeOf(m, f)
           i == c[at]
           flow == FlowIn(m, f)[at]
<1>1. at \in DOMAIN c /\ DOMAIN c = DOMAIN f.code /\ DOMAIN FlowIn(m, f) = DOMAIN f.code /\ Coded(f) /\ Accepted(FlowIn(m, f))
  BY CodeIsAccepted DEF Code
<1>2. i.op = f.code[at].op /\ i.arg = f.code[at].arg /\ f.code[at].op \in AllOps
  <2>1. at \in DOMAIN f.code /\ f.code[at] \in Range(f.code)  BY <1>1 DEF Range
  <2>2. f.code[at].op \in AllOps  BY <1>1, <2>1 DEF Coded
  <2> HIDE DEF f
  <2>3. i.op = f.code[at].op /\ i.arg = f.code[at].arg  BY <1>1, <2>1, CodeInstruction
  <2> QED  BY <2>2, <2>3
<1>3. at \in Nat  BY <1>1, InstructionsAreNatural
<1> HIDE DEF c
<1>4. /\ flow.target = IF i.op \in {"Branch", "BrTrue", "BrFalse"} THEN i.arg ELSE NoTarget
      /\ flow.op = CASE i.op \in Opcodes -> i.op [] i.op = "AbortMsg" -> "Abort" [] OTHER -> "Plain"
  BY <1>1 DEF FlowIn, FlowOf, c
<1> DEFINE op == f.code[at].op
<1>5. op \notin Opcodes \/ op \in {"Plain", "Branch", "BrTrue", "BrFalse", "Ret", "Abort"}  BY DEF Opcodes
<1>6. /\ Branches(op) => flow.op = op /\ flow.target = f.code[at].arg
      /\ Branches(flow.op) => flow.op = op
      /\ flow.op \in Fallen <=> op \in {"Ret", "Abort", "AbortMsg"}
      /\ flow.op = "Plain" <=> op \notin {"Branch", "BrTrue", "BrFalse", "Ret", "Abort", "AbortMsg"}
      /\ op = "Ret" <=> flow.op = "Ret"
  <2> HIDE DEF flow
  <2>1. flow.op = CASE op \in Opcodes -> op [] op = "AbortMsg" -> "Abort" [] OTHER -> "Plain"  BY <1>2, <1>4
  <2>2. op \in {"Branch", "BrTrue", "BrFalse"} => flow.target = f.code[at].arg  BY <1>2, <1>4
  <2> HIDE DEF op
  <2> QED  BY <2>1, <2>2 DEF Opcodes, Branches, Conditional, Fallen
<1> QED  BY <1>1, <1>2, <1>3, <1>6 DEF Code, Flow

(* Code is numbered from 0.                                                *)
LEMMA CodeIsCounted ==
  ASSUME NEW m, NEW d, HasCode(m, d)
  PROVE  LET size == Size(Code(m, d))
         IN  /\ size \in Nat /\ DOMAIN Code(m, d) = 0 .. size - 1 /\ DOMAIN Flow(m, d) = DOMAIN Code(m, d)
             /\ Accepted(Flow(m, d))
<1>1. Coded(m.functions[d]) /\ DOMAIN Flow(m, d) = DOMAIN Code(m, d) /\ Accepted(Flow(m, d))
  BY CodeIsAccepted DEF Flow, Code
<1> QED  BY <1>1, FS_CardinalityType DEF Coded, Size, Code

(* A place at a Nop is as good as the one behind it.                       *)
LEMMA StopsStep ==
  ASSUME NEW m, NEW d, HasCode(m, d), NEW at \in DOMAIN Code(m, d)
  PROVE  /\ Code(m, d)[at].op # "Nop" => \A a : Stops(m, d, at, a) <=> a = at
         /\ Code(m, d)[at].op = "Nop" => \A a : Stops(m, d, at, a) <=> Stops(m, d, at + 1, a)
<1> DEFINE size == Size(Code(m, d))
           nop(k) == Code(m, d)[k].op = "Nop"
<1>1. size \in Nat /\ DOMAIN Code(m, d) = 0 .. size - 1  BY CodeIsCounted
<1>2. \A x, a : Stops(m, d, x, a) <=>
        x \in 0 .. size - 1 /\ a \in 0 .. size - 1 /\ x <= a /\ ~ nop(a) /\ \A k \in x .. a - 1 : nop(k)
  BY <1>1 DEF Stops
<1>3. at \in 0 .. size - 1  BY <1>1
<1> HIDE DEF size, nop
<1>4. ASSUME ~ nop(at), NEW a PROVE Stops(m, d, at, a) <=> a = at
  <2>1. ASSUME Stops(m, d, at, a), a # at PROVE FALSE
    <3>1. a \in 0 .. size - 1 /\ at <= a /\ \A k \in at .. a - 1 : nop(k)  BY <1>2, <2>1
    <3>2. at \in at .. a - 1  BY <1>1, <1>3, <2>1, <3>1
    <3> QED  BY <1>4, <3>1, <3>2
  <2>2. Stops(m, d, at, at)
    <3>1. at <= at /\ at .. at - 1 = {}  BY <1>1, <1>3
    <3> QED  BY <1>2, <1>3, <1>4, <3>1
  <2> QED  BY <2>1, <2>2
<1>5. ASSUME nop(at), NEW a PROVE Stops(m, d, at, a) <=> Stops(m, d, at + 1, a)
  <2>1. ASSUME Stops(m, d, at, a) PROVE Stops(m, d, at + 1, a)
    <3>1. a \in 0 .. size - 1 /\ at <= a /\ ~ nop(a) /\ \A k \in at .. a - 1 : nop(k)  BY <1>2, <2>1
    <3>2. a # at  BY <1>5, <3>1
    <3>3. at + 1 \in 0 .. size - 1 /\ at + 1 <= a /\ at + 1 .. a - 1 \subseteq at .. a - 1
      BY <1>1, <1>3, <3>1, <3>2
    <3> QED  BY <1>2, <3>1, <3>3
  <2>2. ASSUME Stops(m, d, at + 1, a) PROVE Stops(m, d, at, a)
    <3>1. a \in 0 .. size - 1 /\ at + 1 <= a /\ ~ nop(a) /\ \A k \in at + 1 .. a - 1 : nop(k)  BY <1>2, <2>2
    <3>2. at <= a /\ \A k \in at .. a - 1 : k = at \/ k \in at + 1 .. a - 1  BY <1>1, <1>3, <3>1
    <3> QED  BY <1>2, <1>3, <1>5, <3>1, <3>2
  <2> QED  BY <2>1, <2>2
<1> QED  BY <1>4, <1>5 DEF nop

(* A block holds its instructions in order, none but the last of which     *)
(* leads elsewhere, and the one behind it starts a block.                  *)
LEMMA BlocksHold ==
  ASSUME NEW m, NEW d, HasCode(m, d), NEW b \in BlockIds(Flow(m, d))
  PROVE  BlockHolds(m, d, b)
<1> DEFINE w == Flow(m, d)
           begin == BlockStart(w, b)
           last == LastOf(w, b)
           seen == Seen(m, d, b)
           code == Code(m, d)
           size == Size(code)
<1>1. size \in Nat /\ DOMAIN code = 0 .. size - 1 /\ DOMAIN w = DOMAIN code /\ Accepted(w)  BY CodeIsCounted
<1>2. begin \in DOMAIN code /\ begin \in Leaders(w) /\ BlockOf(w, begin) = b
  BY <1>1, BlocksHaveLeaders, LeadersAreInstructions
<1>3. last \in DOMAIN code  BY <1>1, BlocksEndInTheCode DEF LastOf
<1>4. last = BlockEnd(w, b) - 1  BY DEF LastOf
<1>5. begin <= last
  <2>1. begin \in begin .. BlockEnd(w, b) - 1  BY <1>1, <1>2, BlocksPartition
  <2> QED  BY <1>1, <1>3, <1>4, <2>1
<1>6. \A at \in begin .. last : at \in DOMAIN code /\ BlockOf(w, at) = b
  <2> TAKE at \in begin .. last
  <2>1. at \in DOMAIN code  BY <1>1, <1>2, <1>3
  <2> QED  BY <1>1, <1>4, <2>1, BlocksPartition
<1>7. BlockOf(w, last) = b
  <2>1. last \in begin .. last  BY <1>1, <1>2, <1>3, <1>5
  <2> QED  BY <1>6, <2>1
<1>8. seen = {at \in begin .. last : code[at].op \notin LayoutOnly}  BY DEF Seen
<1>9. IsFiniteSet(begin .. last) /\ begin .. last \subseteq Int
  <2>1. begin \in Int /\ last \in Int  BY <1>1, <1>2, <1>3
  <2> QED  BY <2>1, FS_Interval
<1>10. IsFiniteSet(seen) /\ seen \subseteq Int /\ seen \subseteq DOMAIN code
  BY <1>6, <1>8, <1>9, FS_Subset
<1>11. \A at \in begin .. last - 1 : w[at].op = "Plain" /\ (at \notin seen => code[at].op = "Nop")
  <2> TAKE at \in begin .. last - 1
  <2>1. at \in begin .. last /\ at # last  BY <1>1, <1>2, <1>3
  <2>2. at \in DOMAIN code /\ BlockOf(w, at) = b  BY <1>6, <2>1
  <2>3. ~ Terminator(w[at].op)  BY <1>1, <1>4, <2>1, <2>2, TerminatorsEndBlocks
  <2>4. w[at].op = "Plain"  BY <2>3 DEF Terminator
  <2>5. code[at].op \notin {"Branch", "BrTrue", "BrFalse"}  BY <2>2, <2>4, FlowOps
  <2> QED  BY <1>8, <2>1, <2>4, <2>5 DEF LayoutOnly
<1>12. ExitKindOf(w, b) # "FallOff"
  <2>1. \A a \in DOMAIN GraphIn(m, m.functions[d]) : GraphIn(m, m.functions[d])[a].exit # "FallOff"
    BY CodeIsAccepted DEF CodeOK, GraphIn, FlowIn, CodeOf
  <2> QED  BY <2>1, GraphBlocks DEF Flow
<1>13. \A l \in Leaders(w) : l = BlockStart(w, BlockOf(w, l))  BY <1>1, LeaderStartsItsBlock
<1>14. /\ w[last].op = "Plain" => last + 1 \in DOMAIN code
       /\ Conditional(w[last].op) => last + 1 \in DOMAIN code
  BY <1>1, <1>3, <1>12 DEF ExitKindOf, Accepted, CfgRejects, LastOf
<1>15. w[last].op = "Plain" => last + 1 \in Leaders(w)
  <2> SUFFICES ASSUME w[last].op = "Plain", last + 1 \notin Leaders(w) PROVE FALSE  OBVIOUS
  <2>1. last \in Nat /\ last + 1 \in DOMAIN w  BY <1>1, <1>3, <1>14
  <2>2. BlockOf(w, last + 1) = b  BY <1>1, <1>7, <2>1, BlockGoesOn
  <2>3. last + 1 \in begin .. BlockEnd(w, b) - 1  BY <1>1, <2>1, <2>2, BlocksPartition
  <2> QED  BY <1>1, <1>3, <1>4, <2>1, <2>3
<1>16. Conditional(w[last].op) => last + 1 \in Leaders(w)
  BY <1>1, <1>3, <1>14 DEF Leaders, Terminator, Conditional
<1>17. Branches(w[last].op) => w[last].target \in Leaders(w)
  BY <1>1, <1>3 DEF Leaders
<1> QED
  BY <1>2, <1>3, <1>5, <1>7, <1>8, <1>10, <1>11, <1>13, <1>14, <1>15, <1>16, <1>17 DEF BlockHolds
(* A place that k of the numbers of S lie before.                          *)
Behind(S, k, at) == \A i \in 1 .. Cardinality(S) : Ascending(S)[i] < at <=> i <= k

(* From a place in a block on, the next of its instructions that is seen;  *)
(* behind the last of them, the branch at its end or what follows it.      *)
LEMMA RestOfBlock ==
  ASSUME NEW m, NEW d, HasCode(m, d), NEW b \in BlockIds(Flow(m, d)),
         NEW at \in BlockStart(Flow(m, d), b) .. LastOf(Flow(m, d), b) + 1,
         at <= LastOf(Flow(m, d), b) \/ Flow(m, d)[LastOf(Flow(m, d), b)].op = "Plain",
         NEW k \in 0 .. Cardinality(Seen(m, d, b)), Behind(Seen(m, d, b), k, at)
  PROVE  LET w == Flow(m, d)
             last == LastOf(w, b)
             S == Seen(m, d, b)
         IN  /\ k < Cardinality(S) => Stops(m, d, at, Ascending(S)[k + 1])
             /\ k = Cardinality(S) =>
                  \/ Branches(w[last].op) /\ Stops(m, d, at, last)
                  \/ w[last].op = "Plain" /\ \A a : Stops(m, d, last + 1, a) => Stops(m, d, at, a)
<1> DEFINE w == Flow(m, d)
           begin == BlockStart(w, b)
           last == LastOf(w, b)
           S == Seen(m, d, b)
           A == Ascending(S)
           code == Code(m, d)
           size == Size(code)
<1>1. size \in Nat /\ DOMAIN code = 0 .. size - 1  BY CodeIsCounted
<1>2. BlockHolds(m, d, b)  BY BlocksHold
<1>3. /\ begin \in DOMAIN code /\ last \in DOMAIN code /\ begin <= last
      /\ IsFiniteSet(S) /\ S \subseteq Int /\ S \subseteq DOMAIN code
      /\ \A x \in begin .. last - 1 : x \notin S => code[x].op = "Nop"
      /\ \A x \in begin .. last : x \in S <=> code[x].op \notin LayoutOnly
      /\ w[last].op = "Plain" => last + 1 \in DOMAIN code
  BY <1>2 DEF BlockHolds
<1>4. S \subseteq begin .. last  BY DEF Seen
<1>5. begin \in Int /\ last \in Int /\ at \in begin .. last + 1 /\ at \in Int /\ k \in 0 .. Cardinality(S)
      /\ (at <= last \/ w[last].op = "Plain") /\ Behind(S, k, at)
  BY <1>1, <1>3
<1>6. \A i \in 1 .. Cardinality(S) : A[i] \in S /\ A[i] \in Int /\ A[i] \in begin .. last
  <2>1. \A i \in 1 .. Cardinality(S) : A[i] \in S  BY <1>3, AscendingListsAll
  <2> HIDE DEF S, A, begin, last
  <2> QED  BY <1>3, <1>4, <2>1
<1>7. Cardinality(S) \in Nat  BY <1>3, FS_CardinalityType
<1>8. \A x \in S : x < at \/ \E i \in 1 .. Cardinality(S) : i > k /\ x = A[i]
  <2> TAKE x \in S
  <2>1. Rank(S, x) \in 1 .. Cardinality(S) /\ A[Rank(S, x)] = x  BY <1>3, RankIsAPlace, AscendingListsAll
  <2> DEFINE i == Rank(S, x)
  <2>2. i \in 1 .. Cardinality(S) /\ A[i] = x  BY <2>1
  <2> HIDE DEF i, A
  <2>3. A[i] < at <=> i <= k  BY <1>5, <2>2 DEF Behind, A
  <2> QED  BY <1>5, <1>7, <2>2, <2>3
<1>9. at \in DOMAIN code  BY <1>1, <1>3, <1>5
<1>10. ASSUME k < Cardinality(S) PROVE Stops(m, d, at, A[k + 1])
  <2> DEFINE next == k + 1
             x == A[next]
  <2>1. next \in 1 .. Cardinality(S) /\ ~ next <= k /\ next \in Int /\ \A i \in Int : i > k => next <= i
    BY <1>5, <1>7, <1>10
  <2> HIDE DEF next
  <2>2. x \in S /\ x \in begin .. last /\ x \in Int  BY <1>6, <2>1
  <2>3. at <= x
    <3>1. ~ x < at  BY <1>5, <2>1 DEF Behind
    <3> QED  BY <1>5, <2>2, <3>1
  <2>4. code[x].op # "Nop"  BY <1>3, <2>2 DEF LayoutOnly
  <2>5. ASSUME NEW y \in at .. x - 1 PROVE code[y].op = "Nop"
    <3>1. y \in begin .. last - 1 /\ y < x /\ y \in Int /\ ~ y < at  BY <1>5, <2>2
    <3>2. CASE y \in S
      <4>1. PICK i \in 1 .. Cardinality(S) : i > k /\ y = A[i]  BY <1>8, <3>1, <3>2
      <4>2. A[next] <= A[i]  BY <1>3, <2>1, <4>1, AscendingGrows
      <4> QED  BY <2>2, <3>1, <4>1, <4>2
    <3>3. CASE y \notin S  BY <1>3, <3>1, <3>3
    <3> QED  BY <3>2, <3>3
  <2>6. x \in DOMAIN code  BY <1>3, <2>2
  <2>7. Stops(m, d, at, x)  BY <1>9, <2>3, <2>4, <2>5, <2>6 DEF Stops
  <2> QED  BY <2>7 DEF next
<1>11. ASSUME k = Cardinality(S)
       PROVE  \/ Branches(w[last].op) /\ Stops(m, d, at, last)
              \/ w[last].op = "Plain" /\ \A a : Stops(m, d, last + 1, a) => Stops(m, d, at, a)
  <2>1. \A x \in S : x < at  BY <1>7, <1>8, <1>11
  <2>2. \A y \in at .. last - 1 : code[y].op = "Nop"
    <3> TAKE y \in at .. last - 1
    <3>1. y \in begin .. last - 1 /\ y \in Int /\ ~ y < at  BY <1>5
    <3> QED  BY <1>3, <2>1, <3>1
  <2>3. CASE at <= last
    <3>1. last \notin S /\ last \in begin .. last  BY <1>3, <1>5, <2>1, <2>3
    <3>2. code[last].op \in LayoutOnly  BY <1>3, <3>1
    <3>3. CASE code[last].op = "Nop"
      <4>1. w[last].op = "Plain" /\ last + 1 \in DOMAIN code  BY <1>3, <3>3, FlowOps
      <4>2. ASSUME NEW a, Stops(m, d, last + 1, a) PROVE Stops(m, d, at, a)
        <5>1. a \in DOMAIN code /\ last + 1 <= a /\ code[a].op # "Nop" /\ \A y \in last + 1 .. a - 1 : code[y].op = "Nop"
          BY <4>2 DEF Stops
        <5>2. a \in Int /\ at <= a  BY <1>1, <1>5, <2>3, <5>1
        <5>3. \A y \in at .. a - 1 : code[y].op = "Nop"
          <6> TAKE y \in at .. a - 1
          <6>1. y \in at .. last - 1 \/ y = last \/ y \in last + 1 .. a - 1  BY <1>5, <5>2
          <6> QED  BY <2>2, <3>3, <5>1, <6>1
        <5> QED  BY <1>9, <5>1, <5>2, <5>3 DEF Stops
      <4> QED  BY <4>1, <4>2
    <3>4. CASE code[last].op # "Nop"
      <4>1. Branches(code[last].op)  BY <3>2, <3>4 DEF LayoutOnly, Branches, Conditional
      <4>2. Branches(w[last].op)  BY <1>3, <4>1, FlowOps
      <4>3. Stops(m, d, at, last)  BY <1>3, <1>9, <2>2, <2>3, <3>4 DEF Stops
      <4> QED  BY <4>2, <4>3
    <3> QED  BY <3>3, <3>4
  <2>4. CASE ~ at <= last
    <3>1. at = last + 1 /\ w[last].op = "Plain"  BY <1>5, <2>4
    <3> QED  BY <3>1
  <2> QED  BY <2>3, <2>4
<1> QED  BY <1>10, <1>11

(* Behind as many instructions of two such blocks.                         *)
LEMMA PlacesMeet ==
  ASSUME NEW m, NEW d, NEW n, NEW e, Twins(m, d, n, e), NEW p \in DOMAIN Order(m, d),
         NEW b, NEW c, b = Order(m, d)[p], c = Order(n, e)[p],
         NEW x \in BlockStart(Flow(m, d), b) .. LastOf(Flow(m, d), b) + 1,
         x <= LastOf(Flow(m, d), b) \/ Flow(m, d)[LastOf(Flow(m, d), b)].op = "Plain",
         NEW y \in BlockStart(Flow(n, e), c) .. LastOf(Flow(n, e), c) + 1,
         y <= LastOf(Flow(n, e), c) \/ Flow(n, e)[LastOf(Flow(n, e), c)].op = "Plain",
         NEW k \in 0 .. Cardinality(Seen(m, d, b)), Behind(Seen(m, d, b), k, x), Behind(Seen(n, e, c), k, y),
         Flow(m, d)[LastOf(Flow(m, d), b)].op = "Plain" =>
           SamePlace(m, d, n, e, LastOf(Flow(m, d), b) + 1, LastOf(Flow(n, e), c) + 1)
  PROVE  SamePlace(m, d, n, e, x, y)
<1> DEFINE w == Flow(m, d)
           v == Flow(n, e)
           S == Seen(m, d, b)
           T == Seen(n, e, c)
           last == LastOf(w, b)
           end == LastOf(v, c)
<1>1. /\ HasCode(m, d) /\ HasCode(n, e) /\ b \in BlockIds(w) /\ c \in BlockIds(v)
      /\ Cardinality(T) = Cardinality(S)
  BY BlocksAgree DEF Twins
<1>2. /\ k < Cardinality(S) => Stops(m, d, x, Ascending(S)[k + 1])
      /\ k = Cardinality(S) =>
           \/ Branches(w[last].op) /\ Stops(m, d, x, last)
           \/ w[last].op = "Plain" /\ \A a : Stops(m, d, last + 1, a) => Stops(m, d, x, a)
  BY <1>1, RestOfBlock
<1>3. k \in 0 .. Cardinality(T)  BY <1>1
<1>4. /\ k < Cardinality(T) => Stops(n, e, y, Ascending(T)[k + 1])
      /\ k = Cardinality(T) =>
           \/ Branches(v[end].op) /\ Stops(n, e, y, end)
           \/ v[end].op = "Plain" /\ \A a : Stops(n, e, end + 1, a) => Stops(n, e, y, a)
  BY <1>1, <1>3, RestOfBlock
<1>5. IsFiniteSet(S)  BY <1>1, BlocksHold DEF BlockHolds
<1>6. Cardinality(S) \in Nat  BY <1>5, FS_CardinalityType
<1>7. EndsLike(m, d, n, e, last, end)  BY EndsAgree
<1>8. \A a1, a2 : Stops(m, d, x, a1) /\ Stops(n, e, y, a2) /\ Matched(m, d, n, e, a1, a2) =>
                    SamePlace(m, d, n, e, x, y)
  BY DEF SamePlace, Stops
<1>9. CASE k < Cardinality(S)
  <2> DEFINE next == k + 1
  <2>1. next \in 1 .. Cardinality(S)  BY <1>6, <1>9
  <2> HIDE DEF next
  <2>2. Matched(m, d, n, e, Ascending(S)[next], Ascending(T)[next])  BY <2>1 DEF Matched
  <2>3. Stops(m, d, x, Ascending(S)[next]) /\ Stops(n, e, y, Ascending(T)[next])
    BY <1>1, <1>2, <1>4, <1>9 DEF next
  <2> QED  BY <1>8, <2>2, <2>3
<1>10. CASE k = Cardinality(S)
  <2>1. w[last].op = "Plain" <=> v[end].op = "Plain"  BY <1>7 DEF EndsLike
  <2>2. CASE w[last].op = "Plain"
    <3>1. ~ Branches(w[last].op) /\ ~ Branches(v[end].op)  BY <2>1, <2>2 DEF Branches, Conditional
    <3>2. /\ \A a : Stops(m, d, last + 1, a) => Stops(m, d, x, a)
          /\ \A a : Stops(n, e, end + 1, a) => Stops(n, e, y, a)
      BY <1>1, <1>2, <1>4, <1>10, <3>1
    <3>3. SamePlace(m, d, n, e, last + 1, end + 1)  BY <2>2
    <3> HIDE DEF last, end
    <3> QED  BY <3>2, <3>3 DEF SamePlace
  <2>3. CASE w[last].op # "Plain"
    <3>1. Branches(w[last].op) /\ Stops(m, d, x, last)  BY <1>2, <1>10, <2>3
    <3>2. Branches(v[end].op) /\ Stops(n, e, y, end)  BY <1>1, <1>4, <1>10, <2>1, <2>3
    <3>3. Matched(m, d, n, e, last, end)  BY <3>1, <3>2 DEF Matched
    <3> QED  BY <1>8, <3>1, <3>2, <3>3
  <2> QED  BY <2>2, <2>3
<1> QED  BY <1>6, <1>9, <1>10

(* Before all instructions of a block, and behind one of them.             *)
LEMMA BehindStart ==
  ASSUME NEW m, NEW d, HasCode(m, d), NEW b \in BlockIds(Flow(m, d))
  PROVE  LET S == Seen(m, d, b)
             begin == BlockStart(Flow(m, d), b)
             last == LastOf(Flow(m, d), b)
         IN  /\ begin \in begin .. last + 1 /\ begin <= last /\ Behind(S, 0, begin)
             /\ \A k \in 1 .. Cardinality(S) :
                  /\ Ascending(S)[k] \in DOMAIN Code(m, d) /\ Ascending(S)[k] \in begin .. last
                  /\ Ascending(S)[k] + 1 \in begin .. last + 1
                  /\ Behind(S, k, Ascending(S)[k] + 1)
                  /\ Ascending(S)[k] = last \/ Ascending(S)[k] + 1 <= last
<1> DEFINE S == Seen(m, d, b)
           A == Ascending(S)
           begin == BlockStart(Flow(m, d), b)
           last == LastOf(Flow(m, d), b)
           size == Size(Code(m, d))
<1>1. size \in Nat /\ DOMAIN Code(m, d) = 0 .. size - 1  BY CodeIsCounted
<1>2. BlockHolds(m, d, b)  BY BlocksHold
<1>3. /\ begin \in DOMAIN Code(m, d) /\ last \in DOMAIN Code(m, d) /\ begin <= last
      /\ IsFiniteSet(S) /\ S \subseteq Int /\ S \subseteq DOMAIN Code(m, d)
  BY <1>2 DEF BlockHolds
<1>4. S \subseteq begin .. last  BY DEF Seen
<1>5. begin \in Int /\ last \in Int  BY <1>1, <1>3
<1>6. \A i \in 1 .. Cardinality(S) : A[i] \in S  BY <1>3, AscendingListsAll
<1>7. \A i, k \in 1 .. Cardinality(S) : A[i] <= A[k] <=> i <= k  BY <1>3, AscendingGrows
<1>8. Cardinality(S) \in Nat  BY <1>3, FS_CardinalityType
<1> HIDE DEF S, A, begin, last
<1>9. \A i \in 1 .. Cardinality(S) : A[i] \in Int /\ A[i] \in begin .. last /\ A[i] \in DOMAIN Code(m, d)
  BY <1>3, <1>4, <1>6
<1>10. Behind(S, 0, begin)
  <2>1. \A i \in 1 .. Cardinality(S) : ~ A[i] < begin /\ ~ i <= 0  BY <1>5, <1>8, <1>9
  <2> QED  BY <2>1 DEF Behind, A
<1>11. ASSUME NEW k \in 1 .. Cardinality(S)
       PROVE  /\ A[k] + 1 \in begin .. last + 1 /\ Behind(S, k, A[k] + 1) /\ (A[k] = last \/ A[k] + 1 <= last)
  <2>1. A[k] \in Int /\ A[k] \in begin .. last  BY <1>9
  <2>2. ASSUME NEW i \in 1 .. Cardinality(S) PROVE A[i] < A[k] + 1 <=> i <= k
    <3>1. A[i] < A[k] + 1 <=> A[i] <= A[k]  BY <1>9
    <3> QED  BY <1>7, <3>1
  <2>3. Behind(S, k, A[k] + 1)  BY <2>2 DEF Behind, A
  <2> QED  BY <1>5, <2>1, <2>3
<1> QED  BY <1>3, <1>5, <1>9, <1>10, <1>11 DEF S, A, begin, last

(* Where such blocks begin: one that shows nothing falls into a later one. *)
LEMMA StartsMeet ==
  ASSUME NEW m, NEW d, NEW n, NEW e, Twins(m, d, n, e), NEW q \in DOMAIN Order(m, d)
  PROVE  SamePlace(m, d, n, e, BlockStart(Flow(m, d), Order(m, d)[q]), BlockStart(Flow(n, e), Order(n, e)[q]))
<1> DEFINE w == Flow(m, d)
           v == Flow(n, e)
           size == Size(Code(m, d))
           at(p) == BlockStart(w, Order(m, d)[p])
           to(p) == BlockStart(v, Order(n, e)[p])
           Bad == {p \in DOMAIN Order(m, d) : ~ SamePlace(m, d, n, e, at(p), to(p))}
           Left == {size - at(p) : p \in Bad}
<1> SUFFICES ASSUME q \in Bad PROVE FALSE  OBVIOUS
<1>1. HasCode(m, d) /\ HasCode(n, e)  BY DEF Twins
<1>2. size \in Nat /\ DOMAIN Code(m, d) = 0 .. size - 1  BY <1>1, CodeIsCounted
<1>3. \A p \in DOMAIN Order(m, d) : Order(m, d)[p] \in BlockIds(w) /\ Order(n, e)[p] \in BlockIds(v)
  BY BlocksAgree
<1>4. \A p \in DOMAIN Order(m, d) : at(p) \in 0 .. size - 1
  BY <1>1, <1>2, <1>3, BlocksHold DEF BlockHolds
<1> HIDE DEF size, at, to
<1>5. Left \in SUBSET Nat /\ Left # {}  BY <1>2, <1>4
<1>6. PICK x \in Left : \A y \in Left : x <= y
  <2> HIDE DEF Left
  <2> QED  BY <1>5, LeastExists
<1>7. PICK p \in Bad : x = size - at(p)  BY <1>6
<1>8. p \in DOMAIN Order(m, d)  BY <1>7
<1>9. \A r \in DOMAIN Order(m, d) : at(r) > at(p) => r \notin Bad
  <2> SUFFICES ASSUME NEW r \in DOMAIN Order(m, d), at(r) > at(p), r \in Bad PROVE FALSE  OBVIOUS
  <2>1. size - at(r) \in Left  OBVIOUS
  <2>2. size - at(p) <= size - at(r)  BY <1>6, <1>7, <2>1
  <2> QED  BY <1>2, <1>4, <1>8, <2>2
<1> DEFINE b == Order(m, d)[p]
           c == Order(n, e)[p]
           last == LastOf(w, b)
           end == LastOf(v, c)
<1>10. b \in BlockIds(w) /\ c \in BlockIds(v)  BY <1>3, <1>8
<1>11. BlockHolds(m, d, b) /\ BlockHolds(n, e, c)  BY <1>1, <1>10, BlocksHold
<1>12. ASSUME w[last].op = "Plain" PROVE SamePlace(m, d, n, e, last + 1, end + 1)
  <2>1. EndsLike(m, d, n, e, last, end)  BY <1>8, EndsAgree
  <2>2. v[end].op = "Plain" /\ w[last].op \notin Fallen  BY <1>12, <2>1 DEF EndsLike, Fallen
  <2>3. Facing(m, d, n, e, BlockOf(w, Goes(w, last, TRUE)), BlockOf(v, Goes(v, end, TRUE)))
    BY <2>1, <2>2 DEF EndsLike
  <2>4. Goes(w, last, TRUE) = last + 1 /\ Goes(v, end, TRUE) = end + 1
    BY <1>12, <2>2 DEF Goes, Conditional
  <2>5. PICK r \in DOMAIN Order(m, d) : Order(m, d)[r] = BlockOf(w, last + 1) /\ Order(n, e)[r] = BlockOf(v, end + 1)
    BY <2>3, <2>4 DEF Facing
  <2>6. last + 1 = BlockStart(w, BlockOf(w, last + 1)) /\ end + 1 = BlockStart(v, BlockOf(v, end + 1))
    BY <1>11, <1>12, <2>2 DEF BlockHolds
  <2>7. at(r) = last + 1 /\ to(r) = end + 1  BY <2>5, <2>6 DEF at, to
  <2>8. at(p) <= last /\ at(p) \in Int /\ last \in Int  BY <1>2, <1>4, <1>8, <1>11 DEF BlockHolds, at
  <2>9. r \notin Bad  BY <1>9, <2>7, <2>8
  <2> HIDE DEF last, end
  <2> QED  BY <2>7, <2>9
<1>13. /\ at(p) \in at(p) .. last + 1 /\ at(p) <= last /\ Behind(Seen(m, d, b), 0, at(p))
  BY <1>1, <1>10, BehindStart DEF at
<1>14. /\ to(p) \in to(p) .. end + 1 /\ to(p) <= end /\ Behind(Seen(n, e, c), 0, to(p))
  BY <1>1, <1>10, BehindStart DEF to
<1>15. 0 \in 0 .. Cardinality(Seen(m, d, b))
  <2>1. IsFiniteSet(Seen(m, d, b))  BY <1>11 DEF BlockHolds
  <2>2. Cardinality(Seen(m, d, b)) \in Nat  BY <2>1, FS_CardinalityType
  <2> QED  BY <2>2
<1>16. SamePlace(m, d, n, e, at(p), to(p))
  BY <1>8, <1>12, <1>13, <1>14, <1>15, PlacesMeet DEF at, to
<1> QED  BY <1>7, <1>16

(* Places that start blocks which stand in one place answer one another.   *)
LEMMA FacingStart ==
  ASSUME NEW m, NEW d, NEW n, NEW e, Twins(m, d, n, e), NEW x, NEW y,
         Facing(m, d, n, e, BlockOf(Flow(m, d), x), BlockOf(Flow(n, e), y)),
         x = BlockStart(Flow(m, d), BlockOf(Flow(m, d), x)), y = BlockStart(Flow(n, e), BlockOf(Flow(n, e), y))
  PROVE  SamePlace(m, d, n, e, x, y)
<1>1. PICK p \in DOMAIN Order(m, d) :
        Order(m, d)[p] = BlockOf(Flow(m, d), x) /\ Order(n, e)[p] = BlockOf(Flow(n, e), y)
  BY DEF Facing
<1>2. SamePlace(m, d, n, e, BlockStart(Flow(m, d), Order(m, d)[p]), BlockStart(Flow(n, e), Order(n, e)[p]))
  BY StartsMeet
<1> QED  BY <1>1, <1>2

(* So do the places that the ends of such blocks lead to.                  *)
LEMMA EndsMeet ==
  ASSUME NEW m, NEW d, NEW n, NEW e, Twins(m, d, n, e), NEW p \in DOMAIN Order(m, d)
  PROVE  LET w == Flow(m, d)
             v == Flow(n, e)
             last == LastOf(w, Order(m, d)[p])
             end == LastOf(v, Order(n, e)[p])
         IN  w[last].op \notin Fallen => \A answer \in BOOLEAN : SamePlace(m, d, n, e, Goes(w, last, answer), Goes(v, end, answer))
<1> DEFINE w == Flow(m, d)
           v == Flow(n, e)
           b == Order(m, d)[p]
           c == Order(n, e)[p]
           last == LastOf(w, b)
           end == LastOf(v, c)
<1> SUFFICES ASSUME w[last].op \notin Fallen, NEW answer \in BOOLEAN
             PROVE  SamePlace(m, d, n, e, Goes(w, last, answer), Goes(v, end, answer))
  OBVIOUS
<1>1. EndsLike(m, d, n, e, last, end)  BY EndsAgree
<1>2. b \in BlockIds(w) /\ c \in BlockIds(v) /\ HasCode(m, d) /\ HasCode(n, e)  BY BlocksAgree DEF Twins
<1>3. BlockHolds(m, d, b) /\ BlockHolds(n, e, c)  BY <1>2, BlocksHold
<1>4. v[end].op \notin Fallen /\ w[last].op \in Opcodes /\ v[end].op \in Opcodes  BY <1>1 DEF EndsLike
<1>5. Facing(m, d, n, e, BlockOf(w, Goes(w, last, answer)), BlockOf(v, Goes(v, end, answer)))
  BY <1>1 DEF EndsLike
<1>6. Goes(w, last, answer) = BlockStart(w, BlockOf(w, Goes(w, last, answer)))
  <2> HIDE DEF w, last, b
  <2> QED  BY <1>3, <1>4 DEF BlockHolds, Goes, Branches, Conditional, Opcodes, Fallen, w, last, b
<1>7. Goes(v, end, answer) = BlockStart(v, BlockOf(v, Goes(v, end, answer)))
  BY <1>3, <1>4 DEF BlockHolds, Goes, Branches, Conditional, Opcodes, Fallen
<1> HIDE DEF last, end
<1> QED  BY <1>5, <1>6, <1>7, FacingStart

(* Instructions that answer one another go on to places that do.           *)
LEMMA MatchedGoOn ==
  ASSUME NEW m, NEW d, NEW n, NEW e, Twins(m, d, n, e), NEW a1, NEW a2, Matched(m, d, n, e, a1, a2)
  PROVE  GoesOnLike(m, d, n, e, a1, a2)
<1> DEFINE w == Flow(m, d)
           v == Flow(n, e)
<1>1. PICK p \in DOMAIN Order(m, d) :
        \/ \E k \in 1 .. Cardinality(Seen(m, d, Order(m, d)[p])) :
             a1 = Ascending(Seen(m, d, Order(m, d)[p]))[k] /\ a2 = Ascending(Seen(n, e, Order(n, e)[p]))[k]
        \/ /\ a1 = LastOf(w, Order(m, d)[p]) /\ a2 = LastOf(v, Order(n, e)[p])
           /\ Branches(w[a1].op) /\ Branches(v[a2].op)
  BY DEF Matched
<1> DEFINE b == Order(m, d)[p]
           c == Order(n, e)[p]
           last == LastOf(w, b)
           end == LastOf(v, c)
           S == Seen(m, d, b)
           T == Seen(n, e, c)
<1>2. EndsLike(m, d, n, e, last, end)  BY EndsAgree
<1>3. b \in BlockIds(w) /\ c \in BlockIds(v) /\ HasCode(m, d) /\ HasCode(n, e) /\ Cardinality(T) = Cardinality(S)
  BY BlocksAgree DEF Twins
<1>4. BlockHolds(m, d, b) /\ BlockHolds(n, e, c)  BY <1>3, BlocksHold
<1>5. w[last].op \notin Fallen => \A answer \in BOOLEAN : SamePlace(m, d, n, e, Goes(w, last, answer), Goes(v, end, answer))
  BY EndsMeet
<1>6. CASE a1 = last /\ a2 = end /\ Branches(w[a1].op) /\ Branches(v[a2].op)
  <2>1. last \in DOMAIN Code(m, d) /\ end \in DOMAIN Code(n, e)  BY <1>4 DEF BlockHolds
  <2>2. (w[last].op = "Branch" <=> v[end].op = "Branch") /\ (Conditional(w[last].op) <=> Conditional(v[end].op))
    BY <1>2 DEF EndsLike
  <2> QED  BY <1>5, <1>6, <2>1, <2>2 DEF GoesOnLike, Branches
<1>7. ASSUME NEW k \in 1 .. Cardinality(S), a1 = Ascending(S)[k], a2 = Ascending(T)[k]
      PROVE  GoesOnLike(m, d, n, e, a1, a2)
  <2>1. k \in 1 .. Cardinality(T)  BY <1>3
  <2>2. /\ a1 \in DOMAIN Code(m, d) /\ a1 \in BlockStart(w, b) .. last /\ a1 + 1 \in BlockStart(w, b) .. last + 1
        /\ Behind(S, k, a1 + 1) /\ (a1 = last \/ a1 + 1 <= last)
    BY <1>3, <1>7, BehindStart
  <2>3. /\ a2 \in DOMAIN Code(n, e) /\ a2 \in BlockStart(v, c) .. end /\ a2 + 1 \in BlockStart(v, c) .. end + 1
        /\ Behind(T, k, a2 + 1) /\ (a2 = end \/ a2 + 1 <= end)
    BY <1>3, <1>7, <2>1, BehindStart
  <2>4. a1 \in S /\ a2 \in T
    <3>1. IsFiniteSet(S) /\ S \subseteq Int /\ IsFiniteSet(T) /\ T \subseteq Int  BY <1>4 DEF BlockHolds
    <3> QED  BY <1>7, <2>1, <3>1, AscendingListsAll
  <2>5. Code(m, d)[a1].op \notin LayoutOnly /\ Code(n, e)[a2].op \notin LayoutOnly
    BY <2>4 DEF Seen
  <2>6. ~ Branches(w[a1].op) /\ ~ Branches(v[a2].op)
    <3>1. Branches(w[a1].op) => w[a1].op = Code(m, d)[a1].op  BY <1>3, <2>2, FlowOps
    <3>2. Branches(v[a2].op) => v[a2].op = Code(n, e)[a2].op  BY <1>3, <2>3, FlowOps
    <3> QED  BY <2>5, <3>1, <3>2 DEF LayoutOnly, Branches, Conditional
  <2>7. Called(m, d, a1) = Called(n, e, a2)  BY <1>7, BlocksAgree
  <2>8. Code(m, d)[a1].op = Code(n, e)[a2].op
    <3>1. Called(m, d, a1).op = Code(m, d)[a1].op /\ Called(n, e, a2).op = Code(n, e)[a2].op
      BY DEF Called, Normalized
    <3> QED  BY <2>7, <3>1
  <2>9. ASSUME w[a1].op \notin Fallen, NEW answer \in BOOLEAN
        PROVE  SamePlace(m, d, n, e, Goes(w, a1, answer), Goes(v, a2, answer))
    <3>1. w[a1].op \in Opcodes /\ v[a2].op \in Opcodes
      <4>1. w[a1].op \in Opcodes  BY <1>3, <2>2, CodeIsAccepted DEF Code, Flow
      <4>2. v[a2].op \in Opcodes  BY <1>3, <2>3, CodeIsAccepted DEF Code, Flow
      <4> QED  BY <4>1, <4>2
    <3>2. w[a1].op = "Plain"  BY <2>6, <2>9, <3>1 DEF Opcodes, Branches, Conditional, Fallen
    <3>3. v[a2].op = "Plain"
      <4>1. Code(m, d)[a1].op \notin {"Branch", "BrTrue", "BrFalse", "Ret", "Abort", "AbortMsg"}
        BY <1>3, <2>2, <3>2, FlowOps
      <4> QED  BY <1>3, <2>3, <2>8, <4>1, FlowOps
    <3>4. Goes(w, a1, answer) = a1 + 1 /\ Goes(v, a2, answer) = a2 + 1
      BY <3>2, <3>3 DEF Goes, Conditional
    <3>5. w[last].op = "Plain" => SamePlace(m, d, n, e, last + 1, end + 1)
      <4> SUFFICES ASSUME w[last].op = "Plain" PROVE SamePlace(m, d, n, e, last + 1, end + 1)  OBVIOUS
      <4>1. v[end].op = "Plain"  BY <1>2 DEF EndsLike
      <4>2. Goes(w, last, TRUE) = last + 1 /\ Goes(v, end, TRUE) = end + 1  BY <4>1 DEF Goes, Conditional
      <4>3. SamePlace(m, d, n, e, Goes(w, last, TRUE), Goes(v, end, TRUE))  BY <1>5 DEF Fallen
      <4> QED  BY <4>2, <4>3
    <3>6. a1 + 1 <= last \/ w[last].op = "Plain"  BY <2>2, <3>2
    <3>7. a2 + 1 <= end \/ v[end].op = "Plain"  BY <2>3, <3>3
    <3>8. k \in 0 .. Cardinality(S)
      <4>1. IsFiniteSet(S)  BY <1>4 DEF BlockHolds
      <4> QED  BY <4>1, FS_CardinalityType
    <3> DEFINE x == a1 + 1
               y == a2 + 1
    <3>9. /\ x \in BlockStart(w, b) .. last + 1 /\ (x <= last \/ w[last].op = "Plain") /\ Behind(S, k, x)
          /\ y \in BlockStart(v, c) .. end + 1 /\ (y <= end \/ v[end].op = "Plain") /\ Behind(T, k, y)
      BY <2>2, <2>3, <3>6, <3>7
    <3> HIDE DEF x, y
    <3>10. SamePlace(m, d, n, e, x, y)  BY <3>5, <3>8, <3>9, PlacesMeet
    <3> QED  BY <3>4, <3>10 DEF x, y
  <2> QED  BY <2>2, <2>3, <2>6, <2>7, <2>9 DEF GoesOnLike
<1> QED  BY <1>1, <1>6, <1>7
-----------------------------------------------------------------------------
(* The name of a type, from those of its arguments.                        *)
LEMMA NamesUnfold ==
  ASSUME NEW m, NEW t \in Types
  PROVE  typeName(m, t) = NamedFrom(m, t, NamedBelow(m, t))
<1> DEFINE step(u, g) == NamedFrom(m, u, OfArguments(g, u))
           Eq(g, S) == g = [u \in S |-> step(u, g)]
           T == {n \in Nat : n \in 0 .. MaximumTypeDepth => \E g : Eq(g, TypesUpTo[n])}
           r == CHOOSE g : Eq(g, Types)
<1>1. 0 \in T
  <2> DEFINE g == [u \in TypesUpTo[0] |-> u]
  <2>1. \A u \in TypesUpTo[0] : u = step(u, g)  BY TypesByDepth
  <2>2. Eq(g, TypesUpTo[0])  BY <2>1
  <2> HIDE DEF Eq, g
  <2> QED  BY <2>2
<1>2. ASSUME NEW n \in Nat, n \in T PROVE n + 1 \in T
  <2> SUFFICES ASSUME n + 1 \in 0 .. MaximumTypeDepth PROVE \E g : Eq(g, TypesUpTo[n + 1])
    OBVIOUS
  <2>1. n \in 0 .. MaximumTypeDepth - 1 /\ n \in 0 .. MaximumTypeDepth  BY DepthAssumption
  <2>2. PICK g : Eq(g, TypesUpTo[n])  BY <1>2, <2>1
  <2> DEFINE h == [u \in TypesUpTo[n + 1] |-> step(u, g)]
  <2>3. \A u \in TypesUpTo[n] : g[u] = h[u]
    <3> HIDE DEF step
    <3> QED  BY <2>1, <2>2, TypesByDepth
  <2>4. ASSUME NEW u \in TypesUpTo[n + 1] PROVE step(u, g) = step(u, h)
    <3> HIDE DEF h
    <3>1. OfArguments(g, u) = OfArguments(h, u)  BY <2>1, <2>3, SameOfArguments
    <3> QED  BY <3>1
  <2> HIDE DEF step
  <2>5. Eq(h, TypesUpTo[n + 1])  BY <2>4
  <2> HIDE DEF Eq, h
  <2> QED  BY <2>5
<1>3. \E g : Eq(g, Types)
  <2> HIDE DEF Eq
  <2> DEFINE U == T
  <2>1. Nat \subseteq U
    <3> HIDE DEF U
    <3>1. 0 \in U /\ \A n \in Nat : n \in U => n + 1 \in U  BY <1>1, <1>2 DEF U
    <3> QED  BY <3>1, NatClosed
  <2> QED  BY <2>1, DepthAssumption, TypesByDepth
<1>4. Eq(r, Types)
  <2> HIDE DEF Eq
  <2> QED  BY <1>3
<1>5. \A u : typeName(m, u) = r[u]  BY DEF typeName, NamedFrom, OfArguments
<1> HIDE DEF r
<1>6. r[t] = step(t, r)
  <2> HIDE DEF step
  <2> QED  BY <1>4
<1>7. OfArguments(r, t) = NamedBelow(m, t)  BY <1>5 DEF OfArguments, NamedBelow
<1> QED  BY <1>5, <1>6, <1>7

(* The type that is meant when the code runs, from those of its arguments. *)
LEMMA RealUnfold ==
  ASSUME NEW m, NEW types, NEW t \in Types
  PROVE  RunTimeType(m, t, types) = RealFrom(m, t, types, RealBelow(m, t, types))
<1> DEFINE step(u, g) == RealFrom(m, u, types, OfArguments(g, u))
           Eq(g, S) == g = [u \in S |-> step(u, g)]
           T == {n \in Nat : n \in 0 .. MaximumTypeDepth => \E g : Eq(g, TypesUpTo[n])}
           r == CHOOSE g : Eq(g, Types)
<1>1. 0 \in T
  <2> DEFINE g == [u \in TypesUpTo[0] |-> u]
  <2>1. \A u \in TypesUpTo[0] : u = step(u, g)  BY TypesByDepth
  <2>2. Eq(g, TypesUpTo[0])  BY <2>1
  <2> HIDE DEF Eq, g
  <2> QED  BY <2>2
<1>2. ASSUME NEW n \in Nat, n \in T PROVE n + 1 \in T
  <2> SUFFICES ASSUME n + 1 \in 0 .. MaximumTypeDepth PROVE \E g : Eq(g, TypesUpTo[n + 1])
    OBVIOUS
  <2>1. n \in 0 .. MaximumTypeDepth - 1 /\ n \in 0 .. MaximumTypeDepth  BY DepthAssumption
  <2>2. PICK g : Eq(g, TypesUpTo[n])  BY <1>2, <2>1
  <2> DEFINE h == [u \in TypesUpTo[n + 1] |-> step(u, g)]
  <2>3. \A u \in TypesUpTo[n] : g[u] = h[u]
    <3> HIDE DEF step
    <3> QED  BY <2>1, <2>2, TypesByDepth
  <2>4. ASSUME NEW u \in TypesUpTo[n + 1] PROVE step(u, g) = step(u, h)
    <3> HIDE DEF h
    <3>1. OfArguments(g, u) = OfArguments(h, u)  BY <2>1, <2>3, SameOfArguments
    <3> QED  BY <3>1
  <2> HIDE DEF step
  <2>5. Eq(h, TypesUpTo[n + 1])  BY <2>4
  <2> HIDE DEF Eq, h
  <2> QED  BY <2>5
<1>3. \E g : Eq(g, Types)
  <2> HIDE DEF Eq
  <2> DEFINE U == T
  <2>1. Nat \subseteq U
    <3> HIDE DEF U
    <3>1. 0 \in U /\ \A n \in Nat : n \in U => n + 1 \in U  BY <1>1, <1>2 DEF U
    <3> QED  BY <3>1, NatClosed
  <2> QED  BY <2>1, DepthAssumption, TypesByDepth
<1>4. Eq(r, Types)
  <2> HIDE DEF Eq
  <2> QED  BY <1>3
<1>5. \A u : RunTimeType(m, u, types) = r[u]  BY DEF RunTimeType, RealFrom, OfArguments
<1> HIDE DEF r
<1>6. r[t] = step(t, r)
  <2> HIDE DEF step
  <2> QED  BY <1>4
<1>7. OfArguments(r, t) = RealBelow(m, t, types)  BY <1>5 DEF OfArguments, RealBelow
<1> QED  BY <1>5, <1>6, <1>7

(* Types that are called the same are the same when code runs.             *)
LEMMA NamesakesRunAlike ==
  ASSUME NEW m, NEW n, NEW types, NEW t \in Types, NEW u \in Types, typeName(m, t) = typeName(n, u)
  PROVE  RunTimeType(m, t, types) = RunTimeType(n, u, types)
<1> DEFINE P == {x \in Types : \A y \in Types : typeName(m, x) = typeName(n, y) =>
                                 RunTimeType(m, x, types) = RunTimeType(n, y, types)}
<1>1. ASSUME NEW x \in Types, \A k \in DOMAIN x.arguments : x.arguments[k] \in P PROVE x \in P
  <2> SUFFICES ASSUME NEW y \in Types, typeName(m, x) = typeName(n, y)
               PROVE  RunTimeType(m, x, types) = RunTimeType(n, y, types)
    OBVIOUS
  <2> DEFINE name == typeName(m, x)
             a == IF x.kind = "Struct" THEN m.structHandles[x.index].name ELSE x.index
             b == IF y.kind = "Struct" THEN n.structHandles[y.index].name ELSE y.index
  <2>1. name = [kind |-> x.kind, of |-> a, arguments |-> NamedBelow(m, x)]  BY NamesUnfold DEF NamedFrom
  <2>2. name = [kind |-> y.kind, of |-> b, arguments |-> NamedBelow(n, y)]  BY NamesUnfold DEF NamedFrom
  <2> HIDE DEF a, b, name
  <2>3. /\ name.kind = x.kind /\ name.of = a /\ name.arguments = NamedBelow(m, x)
        /\ name.kind = y.kind /\ name.of = b /\ name.arguments = NamedBelow(n, y)
    BY <2>1, <2>2
  <2>4. DOMAIN x.arguments = DOMAIN y.arguments
        /\ \A k \in DOMAIN x.arguments : typeName(m, x.arguments[k]) = typeName(n, y.arguments[k])
    <3>1. NamedBelow(m, x) = NamedBelow(n, y)  BY <2>3
    <3>2. DOMAIN NamedBelow(m, x) = DOMAIN x.arguments /\ DOMAIN NamedBelow(n, y) = DOMAIN y.arguments
          /\ (\A k \in DOMAIN x.arguments : NamedBelow(m, x)[k] = typeName(m, x.arguments[k]))
          /\ (\A k \in DOMAIN y.arguments : NamedBelow(n, y)[k] = typeName(n, y.arguments[k]))
      BY DEF NamedBelow
    <3> QED  BY <3>1, <3>2
  <2>5. \A k \in DOMAIN x.arguments : RunTimeType(m, x.arguments[k], types) = RunTimeType(n, y.arguments[k], types)
    <3>1. \A k \in DOMAIN y.arguments : y.arguments[k] \in Types  BY TypesFit
    <3> QED  BY <1>1, <2>4, <3>1
  <2>6. RealBelow(m, x, types) = RealBelow(n, y, types)  BY <2>4, <2>5 DEF RealBelow
  <2>7. RealFrom(m, x, types, RealBelow(m, x, types)) = RealFrom(n, y, types, RealBelow(n, y, types))
    <3>1. CASE x.kind = "TypeParameter"
      <4>1. y.kind = "TypeParameter" /\ x.index = y.index  BY <2>3, <3>1 DEF a, b
      <4> QED  BY <3>1, <4>1 DEF RealFrom
    <3>2. CASE x.kind # "TypeParameter"  BY <2>3, <2>6, <3>2 DEF RealFrom, name
    <3> QED  BY <3>1, <3>2
  <2> QED  BY <2>7, RealUnfold
<1> HIDE DEF P
<1>2. Types \subseteq P  BY <1>1, TypeInduction
<1> QED  BY <1>2 DEF P

(* Lists of types under one name are as long as one another, and mean the  *)
(* same types when the code runs.                                          *)
LEMMA SignaturesRunAlike ==
  ASSUME NEW m, NEW n, NEW p \in Seq(Types), NEW q \in Seq(Types), SignaturesAlike(m, n, p, q)
  PROVE  /\ DOMAIN p = DOMAIN q /\ Len(p) = Len(q)
         /\ \A types : [k \in DOMAIN p |-> RunTimeType(m, p[k], types)] = [k \in DOMAIN q |-> RunTimeType(n, q[k], types)]
<1> DEFINE s == signatureName(m, p)
           z == signatureName(n, q)
<1>1. DOMAIN s = DOMAIN p /\ DOMAIN z = DOMAIN q
      /\ (\A k \in DOMAIN p : s[k] = typeName(m, p[k])) /\ (\A k \in DOMAIN q : z[k] = typeName(n, q[k]))
  BY DEF signatureName
<1>2. s = z  BY DEF SignaturesAlike
<1> HIDE DEF s, z
<1>3. DOMAIN p = DOMAIN q /\ \A k \in DOMAIN p : typeName(m, p[k]) = typeName(n, q[k])  BY <1>1, <1>2
<1>4. DOMAIN p = 1 .. Len(p) /\ DOMAIN q = 1 .. Len(q) /\ Len(p) \in Nat /\ Len(q) \in Nat  BY LenProperties
<1>5. Len(p) = Len(q)
  <2> DEFINE a == Len(p)
             b == Len(q)
  <2>1. 1 .. a = 1 .. b /\ a \in Nat /\ b \in Nat  BY <1>3, <1>4
  <2> HIDE DEF a, b
  <2>2. a = b  BY <2>1
  <2> QED  BY <2>2 DEF a, b
<1>6. \A k \in DOMAIN p : p[k] \in Types /\ q[k] \in Types  BY <1>3, <1>4, ElementOfSeq
<1>7. \A types : \A k \in DOMAIN p : RunTimeType(m, p[k], types) = RunTimeType(n, q[k], types)
  BY <1>3, <1>6, NamesakesRunAlike
<1> QED  BY <1>3, <1>5, <1>7
-----------------------------------------------------------------------------
(* The fields and the variants of a struct are lists.                      *)
LEMMA DefinitionsAreLists ==
  ASSUME NEW m, Sound(m), NEW d \in DOMAIN m.table.struct
  PROVE  LET definition == m.table.struct[d]
         IN  /\ definition.fields \in Seq(Range(definition.fields)) /\ definition.variants \in Seq(Range(definition.variants))
             /\ \A v \in DOMAIN definition.variants : definition.variants[v].fields \in Seq(Range(definition.variants[v].fields))
             /\ StructsOK(m) /\ definition \in ToSet(m.table.struct)
             /\ definition.handle \in DOMAIN m.structHandles
<1> DEFINE definition == m.table.struct[d]
<1>1. StructsOK(m) /\ StructsLoadable(m)  BY SoundPasses DEF Sound, Loadable
<1>2. definition \in Range(m.table.struct) /\ definition \in ToSet(m.table.struct)  BY DEF Range, ToSet
<1>3. IsList(definition.fields) /\ IsList(definition.variants)
      /\ \A v \in Range(definition.variants) : IsList(v.fields)
  BY <1>1, <1>2 DEF StructsLoadable
<1>4. definition.handle \in DOMAIN m.structHandles  BY <1>1, <1>2 DEF StructsOK, DefinedOnce
<1> QED  BY <1>1, <1>2, <1>3, <1>4 DEF IsList, Range

(* The names of fields are lists too.                                      *)
LEMMA SymbolsAreLists ==
  ASSUME NEW m, Sound(m), NEW d \in DOMAIN m.table.struct
  PROVE  LET definition == m.table.struct[d]
             own == FieldSymbols(m, d, definition.fields, << >>)
         IN  /\ Len(definition.variants) \in Nat /\ DOMAIN definition.variants = 1 .. Len(definition.variants)
             /\ own \in Seq(Range(own)) /\ Len(own) = Len(definition.fields) /\ Len(own) \in Nat
             /\ \A v \in DOMAIN definition.variants :
                  LET symbols == SymbolsOf(m, d, v)
                  IN  symbols \in Seq(Range(symbols)) /\ Len(symbols) = Len(definition.variants[v].fields) /\ Len(symbols) \in Nat
<1> DEFINE definition == m.table.struct[d]
           own == FieldSymbols(m, d, definition.fields, << >>)
<1>1. /\ definition.fields \in Seq(Range(definition.fields)) /\ definition.variants \in Seq(Range(definition.variants))
      /\ \A v \in DOMAIN definition.variants : definition.variants[v].fields \in Seq(Range(definition.variants[v].fields))
  BY DefinitionsAreLists
<1>2. own \in Seq(Range(own)) /\ Len(own) = Len(definition.fields)
  <2>1. own = [k \in DOMAIN definition.fields |-> own[k]]  BY DEF FieldSymbols
  <2> HIDE DEF own
  <2> QED  BY <1>1, <2>1, ListOver
<1>3. ASSUME NEW v \in DOMAIN definition.variants
      PROVE  LET symbols == SymbolsOf(m, d, v)
             IN  symbols \in Seq(Range(symbols)) /\ Len(symbols) = Len(definition.variants[v].fields) /\ Len(symbols) \in Nat
  <2> DEFINE symbols == SymbolsOf(m, d, v)
  <2>1. symbols = [k \in DOMAIN definition.variants[v].fields |-> symbols[k]]  BY DEF SymbolsOf, FieldSymbols
  <2> HIDE DEF symbols
  <2>2. symbols \in Seq(Range(symbols)) /\ Len(symbols) = Len(definition.variants[v].fields)  BY <1>1, <1>3, <2>1, ListOver
  <2>3. Len(symbols) \in Nat  BY <2>2, LenProperties
  <2> QED  BY <2>2, <2>3 DEF symbols
<1>4. Len(own) \in Nat  BY <1>2, LenProperties
<1>5. Len(definition.variants) \in Nat /\ DOMAIN definition.variants = 1 .. Len(definition.variants)  BY <1>1, LenProperties
<1> QED  BY <1>2, <1>3, <1>4, <1>5

(* The names of the fields of variants, joined one variant after the       *)
(* other.                                                                  *)
LEMMA FieldChainExists ==
  ASSUME NEW m, Sound(m), NEW d \in DOMAIN m.table.struct
  PROVE  \E q : FieldChain(m, d, q)
<1> DEFINE definition == m.table.struct[d]
           V == Len(definition.variants)
           own == FieldSymbols(m, d, definition.fields, << >>)
           symbols(v) == SymbolsOf(m, d, v)
           X == Range(own) \cup UNION {Range(symbols(v)) : v \in 1 .. V}
           Eq(g) == g = [k \in 0 .. V |-> IF k = 0 THEN own ELSE g[k - 1] \o symbols(k - 1 + 1)]
           r == CHOOSE g : Eq(g)
           step == [p \in Seq(X) \X (0 .. V - 1) |-> p[1] \o symbols(p[2] + 1)]
<1>1. /\ V \in Nat /\ DOMAIN definition.variants = 1 .. V
      /\ own \in Seq(Range(own))
      /\ \A v \in 1 .. V : symbols(v) \in Seq(Range(symbols(v)))
  BY SymbolsAreLists
<1>2. DefinitionFields(m, d) = r[V]
  BY DEF DefinitionFields, ForUpTo, SymbolsOf, FieldSymbols
<1> HIDE DEF symbols, own, V
<1>3. own \in Seq(X) /\ \A v \in 1 .. V : symbols(v) \in Seq(X)
  <2>1. \A s, Y : s \in Seq(Y) /\ Y \subseteq X => s \in Seq(X)
    <3> HIDE DEF X
    <3> QED  OBVIOUS
  <2>2. Range(own) \subseteq X /\ \A v \in 1 .. V : Range(symbols(v)) \subseteq X  OBVIOUS
  <2> QED  BY <1>1, <2>1, <2>2
<1> HIDE DEF X
<1>4. step \in [Seq(X) \X (0 .. V - 1) -> Seq(X)]
  <2>1. \A k \in 0 .. V - 1 : k + 1 \in 1 .. V  BY <1>1
  <2>2. \A s \in Seq(X), k \in 0 .. V - 1 : s \o symbols(k + 1) \in Seq(X)  BY <1>3, <2>1
  <2> QED  BY <2>2
<1>5. PICK g : LoopsTo(g, V, Seq(X), step, own)
  <2> HIDE DEF step
  <2> QED  BY <1>1, <1>3, <1>4, LoopToExists
<1>6. g \in [0 .. V -> Seq(X)] /\ g[0] = own /\ \A k \in 0 .. V - 1 : g[k + 1] = step[<<g[k], k>>]
  BY <1>5 DEF LoopsTo
<1>7. \A k \in 0 .. V - 1 : g[k + 1] = g[k] \o symbols(k + 1)
  <2> TAKE k \in 0 .. V - 1
  <2>1. k \in 0 .. V  BY <1>1
  <2> QED  BY <1>6, <2>1
<1> HIDE DEF step
<1>8. Eq(g)
  <2>1. ASSUME NEW k \in 0 .. V PROVE g[k] = IF k = 0 THEN own ELSE g[k - 1] \o symbols(k - 1 + 1)
    <3>1. CASE k = 0  BY <1>6, <3>1
    <3>2. CASE k # 0
      <4>1. k - 1 \in 0 .. V - 1 /\ k - 1 + 1 = k  BY <1>1, <3>2
      <4> QED  BY <1>7, <3>2, <4>1
    <3> QED  BY <3>1, <3>2
  <2> QED  BY <1>6, <2>1
<1>9. Eq(r)
  <2> HIDE DEF Eq
  <2> QED  BY <1>8
<1> HIDE DEF r
<1>10. r[0] = own /\ \A k \in 0 .. V - 1 : r[k + 1] = r[k] \o symbols(k + 1)
  <2>1. 0 \in 0 .. V  BY <1>1
  <2>2. r[0] = own  BY <1>9, <2>1
  <2>3. ASSUME NEW k \in 0 .. V - 1 PROVE r[k + 1] = r[k] \o symbols(k + 1)
    <3> DEFINE next == k + 1
    <3>1. next \in 0 .. V /\ next # 0 /\ next - 1 = k  BY <1>1
    <3> HIDE DEF next
    <3>2. r[next] = r[next - 1] \o symbols(next - 1 + 1)  BY <1>9, <3>1
    <3> QED  BY <3>1, <3>2 DEF next
  <2> QED  BY <2>2, <2>3
<1> HIDE DEF Eq
<1> DEFINE T == {k \in 0 .. V : r[k] \in Seq(X)}
<1>11. 0 .. V \subseteq T
  <2>1. 0 \in T  BY <1>1, <1>3, <1>10
  <2>2. ASSUME NEW k \in 0 .. V - 1, k \in T PROVE k + 1 \in T
    <3>1. k + 1 \in 0 .. V /\ k + 1 \in 1 .. V  BY <1>1
    <3>2. r[k + 1] = r[k] \o symbols(k + 1)  BY <1>10
    <3>3. r[k] \o symbols(k + 1) \in Seq(X)  BY <1>3, <2>2, <3>1
    <3> QED  BY <3>1, <3>2, <3>3
  <2> HIDE DEF T
  <2> QED  BY <1>1, <2>1, <2>2, ClosedUpTo
<1>12. \A k \in 0 .. V : r[k] \in Seq(Range(r[k]))
  <2>1. \A s \in Seq(X) : s \in Seq(Range(s))  BY DEF Range
  <2> QED  BY <1>11, <2>1
<1>13. FieldChain(m, d, r)
  BY <1>2, <1>10, <1>12 DEF FieldChain, V, own, symbols
<1> QED  BY <1>13

(* The place of a field among all of its definition.                       *)
LEMMA FieldBases ==
  ASSUME NEW m, Sound(m), NEW d \in DOMAIN m.table.struct, NEW q, FieldChain(m, d, q),
         NEW v \in DOMAIN m.table.struct[d].variants
  PROVE  VariantFieldBase(m.table.struct[d], v) = Len(q[v - 1])
<1> DEFINE definition == m.table.struct[d]
           V == Len(definition.variants)
           n == v - 1
           size(k) == Len(definition.variants[k].fields)
           Eq(g) == g = [k \in 0 .. n |-> IF k = 0 THEN Len(definition.fields) ELSE g[k - 1] + size(k - 1 + 1)]
           r == CHOOSE g : Eq(g)
           g == [k \in 0 .. n |-> Len(q[k])]
<1>1. V \in Nat /\ v \in 1 .. V /\ n \in 0 .. V - 1  BY SymbolsAreLists
<1>2. VariantFieldBase(definition, v) = r[n]  BY DEF VariantFieldBase, ForUpTo
<1>3. q[0] = FieldSymbols(m, d, definition.fields, << >>)
      /\ (\A k \in 0 .. V - 1 : q[k + 1] = q[k] \o SymbolsOf(m, d, k + 1))
      /\ \A k \in 0 .. V : q[k] \in Seq(Range(q[k]))
  BY DEF FieldChain
<1>4. Len(q[0]) = Len(definition.fields)  BY <1>3, SymbolsAreLists
<1>5. ASSUME NEW k \in 0 .. V - 1 PROVE Len(q[k + 1]) = Len(q[k]) + size(k + 1)
  <2>1. k + 1 \in 1 .. V /\ k + 1 \in DOMAIN definition.variants  BY <1>1, SymbolsAreLists
  <2> DEFINE symbols == SymbolsOf(m, d, k + 1)
  <2>2. symbols \in Seq(Range(symbols)) /\ Len(symbols) = size(k + 1)  BY <2>1, SymbolsAreLists
  <2>3. k \in 0 .. V  BY <1>1
  <2>4. q[k + 1] = q[k] \o symbols /\ q[k] \in Seq(Range(q[k]))  BY <1>3, <2>3, Zenon
  <2> HIDE DEF symbols
  <2>5. Joined(q[k], symbols, q[k] \o symbols)  BY <2>2, <2>4, JoinedLists
  <2> QED  BY <2>2, <2>4, <2>5 DEF Joined
<1> HIDE DEF n, size
<1>6. Eq(g)
  <2>1. ASSUME NEW k \in 0 .. n
        PROVE  g[k] = IF k = 0 THEN Len(definition.fields) ELSE g[k - 1] + size(k - 1 + 1)
    <3>1. CASE k = 0  BY <1>4, <3>1
    <3>2. CASE k # 0
      <4>1. k - 1 \in 0 .. V - 1 /\ k - 1 \in 0 .. n /\ k - 1 + 1 = k  BY <1>1, <3>2
      <4>2. Len(q[k - 1 + 1]) = Len(q[k - 1]) + size(k - 1 + 1)  BY <1>5, <4>1
      <4> QED  BY <3>2, <4>1, <4>2
    <3> QED  BY <3>1, <3>2
  <2> QED  BY <2>1
<1> HIDE DEF g
<1>7. Eq(r)
  <2> HIDE DEF Eq
  <2> QED  BY <1>6
<1> HIDE DEF r
<1> DEFINE T == {k \in 0 .. n : r[k] = Len(q[k])}
<1>8. 0 .. n \subseteq T
  <2>1. 0 \in 0 .. n /\ n \in Nat  BY <1>1
  <2>2. 0 \in T  BY <1>4, <1>7, <2>1
  <2>3. ASSUME NEW k \in 0 .. n - 1, k \in T PROVE k + 1 \in T
    <3> DEFINE next == k + 1
    <3>1. next \in 0 .. n /\ next # 0 /\ next - 1 = k /\ k \in 0 .. V - 1  BY <1>1
    <3>2. Len(q[next]) = Len(q[k]) + size(next)  BY <1>5, <3>1
    <3> HIDE DEF next
    <3>3. r[next] = r[next - 1] + size(next - 1 + 1)  BY <1>7, <3>1
    <3>4. next - 1 + 1 = next  BY <3>1
    <3> QED  BY <2>3, <3>1, <3>2, <3>3, <3>4 DEF next
  <2> HIDE DEF T
  <2> QED  BY <2>1, <2>2, <2>3, ClosedUpTo
<1>9. n \in 0 .. n  BY <1>1
<1> QED  BY <1>2, <1>8, <1>9 DEF n

(* The field of a definition, or of one of its variants, under the name    *)
(* that it has among all of them.                                          *)
LEMMA FieldNames ==
  ASSUME NEW m, Sound(m), NEW d \in DOMAIN m.table.struct
  PROVE  LET definition == m.table.struct[d]
             all == DefinitionFields(m, d)
         IN  /\ \A k \in DOMAIN definition.fields :
                  Len(all[k]) = 2 /\ all[k][1] = StructName(m, d) /\ all[k][2] = definition.fields[k].name
             /\ \A v \in DOMAIN definition.variants : \A k \in DOMAIN definition.variants[v].fields :
                  LET name == all[VariantFieldBase(definition, v) + k]
                  IN  /\ Len(name) = 3 /\ name[1] = StructName(m, d) /\ name[2] = definition.variants[v].name
                      /\ name[3] = definition.variants[v].fields[k].name
<1> DEFINE definition == m.table.struct[d]
           V == Len(definition.variants)
<1>1. PICK q : FieldChain(m, d, q)  BY FieldChainExists
<1>2. /\ q[0] = FieldSymbols(m, d, definition.fields, << >>)
      /\ \A k \in 0 .. V - 1 : q[k + 1] = q[k] \o SymbolsOf(m, d, k + 1)
      /\ \A k \in 0 .. V : q[k] \in Seq(Range(q[k]))
      /\ DefinitionFields(m, d) = q[V]
  BY <1>1 DEF FieldChain
<1>3. V \in Nat /\ DOMAIN definition.variants = 1 .. V  BY SymbolsAreLists
<1>4. ASSUME NEW v \in 1 .. V PROVE VariantFieldBase(definition, v) = Len(q[v - 1])
  <2>1. v \in DOMAIN definition.variants  BY <1>3
  <2> QED  BY <1>1, <2>1, FieldBases
<1>5. ASSUME NEW k \in 0 .. V - 1
      PROVE  LET symbols == SymbolsOf(m, d, k + 1)
             IN  /\ Len(q[k]) \in Nat /\ Len(q[k + 1]) = Len(q[k]) + Len(symbols) /\ Len(symbols) \in Nat
                 /\ \A i \in 1 .. Len(q[k]) : q[k + 1][i] = q[k][i]
                 /\ \A i \in 1 .. Len(symbols) : q[k + 1][Len(q[k]) + i] = symbols[i]
  <2> DEFINE symbols == SymbolsOf(m, d, k + 1)
  <2>1. k + 1 \in DOMAIN definition.variants /\ k \in 0 .. V  BY <1>3
  <2>2. symbols \in Seq(Range(symbols))  BY <2>1, SymbolsAreLists
  <2>3. q[k + 1] = q[k] \o symbols /\ q[k] \in Seq(Range(q[k]))  BY <1>2, <2>1, Zenon
  <2> HIDE DEF symbols
  <2>4. Joined(q[k], symbols, q[k] \o symbols)  BY <2>2, <2>3, JoinedLists
  <2> QED  BY <2>3, <2>4, Zenon DEF symbols, Joined
<1> HIDE DEF definition, V
<1> DEFINE Begins(k, l) == Len(q[k]) <= Len(q[l]) /\ \A i \in 1 .. Len(q[k]) : q[l][i] = q[k][i]
<1>6. \A k \in 0 .. V : Len(q[k]) \in Nat  BY <1>2, LenProperties
<1>7. ASSUME NEW k \in 0 .. V PROVE Begins(k, V)
  <2> DEFINE T == {j \in 0 .. V - k : Begins(k, k + j)}
  <2>1. V - k \in Nat  BY <1>3
  <2>2. 0 \in T
    <3>1. k + 0 = k /\ 0 \in 0 .. V - k  BY <2>1
    <3>2. Begins(k, k)  BY <1>6
    <3> QED  BY <3>1, <3>2
  <2>3. ASSUME NEW j \in 0 .. V - k - 1, j \in T PROVE j + 1 \in T
    <3> DEFINE l == k + j
    <3>1. l \in 0 .. V - 1 /\ l \in 0 .. V /\ k + (j + 1) = l + 1 /\ j + 1 \in 0 .. V - k  BY <1>3
    <3> HIDE DEF l
    <3> DEFINE symbols == SymbolsOf(m, d, l + 1)
    <3>2. /\ Len(q[l]) \in Nat /\ Len(q[l + 1]) = Len(q[l]) + Len(symbols) /\ Len(symbols) \in Nat
          /\ \A i \in 1 .. Len(q[l]) : q[l + 1][i] = q[l][i]
      BY <1>5, <3>1
    <3>3. Begins(k, l)  BY <2>3 DEF l
    <3> HIDE DEF symbols
    <3>4. Begins(k, l + 1)
      <4>1. Len(q[k]) <= Len(q[l + 1])  BY <1>6, <3>2, <3>3
      <4>2. \A i \in 1 .. Len(q[k]) : i \in 1 .. Len(q[l])  BY <1>6, <3>2, <3>3
      <4> QED  BY <3>2, <3>3, <4>1, <4>2
    <3> HIDE DEF Begins
    <3> QED  BY <3>1, <3>4
  <2> HIDE DEF T
  <2>4. 0 .. V - k \subseteq T  BY <2>1, <2>2, <2>3, ClosedUpTo
  <2>5. V - k \in 0 .. V - k /\ k + (V - k) = V  BY <1>3, <2>1
  <2> HIDE DEF Begins
  <2> QED  BY <2>4, <2>5 DEF T
<1>8. 0 \in 0 .. V  BY <1>3
<1>9. ASSUME NEW k \in DOMAIN definition.fields
      PROVE  LET name == DefinitionFields(m, d)[k]
             IN  Len(name) = 2 /\ name[1] = StructName(m, d) /\ name[2] = definition.fields[k].name
  <2>1. q[0][k] = <<StructName(m, d)>> \o << >> \o <<definition.fields[k].name>>  BY <1>2 DEF FieldSymbols
  <2>2. k \in 1 .. Len(q[0])
    <3>1. DOMAIN q[0] = DOMAIN definition.fields  BY <1>2 DEF FieldSymbols
    <3>2. DOMAIN q[0] = 1 .. Len(q[0])  BY <1>2, <1>8, LenProperties
    <3> QED  BY <3>1, <3>2
  <2>3. q[V][k] = q[0][k]  BY <1>7, <1>8, <2>2
  <2> QED  BY <1>2, <2>1, <2>3, JoinedNames
<1>10. ASSUME NEW v \in DOMAIN definition.variants, NEW k \in DOMAIN definition.variants[v].fields
       PROVE  LET name == DefinitionFields(m, d)[VariantFieldBase(definition, v) + k]
              IN  /\ Len(name) = 3 /\ name[1] = StructName(m, d) /\ name[2] = definition.variants[v].name
                  /\ name[3] = definition.variants[v].fields[k].name
  <2> DEFINE symbols == SymbolsOf(m, d, v)
             base == Len(q[v - 1])
  <2>1. v \in 1 .. V /\ v \in 0 .. V /\ v - 1 \in 0 .. V - 1 /\ v - 1 + 1 = v  BY <1>3
  <2>2. /\ base \in Nat /\ Len(q[v]) = base + Len(symbols) /\ Len(symbols) \in Nat
        /\ \A i \in 1 .. Len(symbols) : q[v][base + i] = symbols[i]
    <3> DEFINE l == v - 1
    <3>1. l \in 0 .. V - 1 /\ l + 1 = v  BY <2>1
    <3> HIDE DEF l
    <3>2. LET s == SymbolsOf(m, d, l + 1)
          IN  /\ Len(q[l]) \in Nat /\ Len(q[l + 1]) = Len(q[l]) + Len(s) /\ Len(s) \in Nat
              /\ \A i \in 1 .. Len(s) : q[l + 1][Len(q[l]) + i] = s[i]
      BY <1>5, <3>1, Zenon
    <3> QED  BY <3>1, <3>2 DEF l
  <2>3. symbols[k] = <<StructName(m, d)>> \o <<definition.variants[v].name>> \o <<definition.variants[v].fields[k].name>>
    BY DEF SymbolsOf, FieldSymbols, definition
  <2>4. k \in 1 .. Len(symbols)
    <3>1. DOMAIN symbols = DOMAIN definition.variants[v].fields  BY DEF SymbolsOf, FieldSymbols, definition
    <3>2. symbols \in Seq(Range(symbols))  BY SymbolsAreLists DEF definition
    <3> HIDE DEF symbols
    <3>3. DOMAIN symbols = 1 .. Len(symbols)  BY <3>2, LenProperties
    <3> QED  BY <3>1, <3>3
  <2> HIDE DEF symbols, base
  <2>5. base + k \in 1 .. Len(q[v]) /\ q[v][base + k] = symbols[k]  BY <2>2, <2>4
  <2>6. q[V][base + k] = symbols[k]  BY <1>7, <2>1, <2>5
  <2>7. VariantFieldBase(definition, v) = base  BY <1>4, <2>1 DEF base
  <2> DEFINE a == StructName(m, d)
             b == definition.variants[v].name
             c == definition.variants[v].fields[k].name
             t == <<a>> \o <<b>> \o <<c>>
  <2>8. DefinitionFields(m, d)[VariantFieldBase(definition, v) + k] = t  BY <1>2, <2>3, <2>6, <2>7
  <2>9. Len(t) = 3 /\ t[1] = a /\ t[2] = b /\ t[3] = c
    <3> HIDE DEF a, b, c
    <3> QED  BY JoinedNames
  <2> QED  BY <2>8, <2>9
<1> QED  BY <1>9, <1>10 DEF definition
-----------------------------------------------------------------------------
(* Modules are equal both ways.                                            *)
LEMMA EqualBothWays ==
  ASSUME NEW m, NEW n, Equal(m, n) PROVE Equal(n, m)
<1>1. Linked(n, m)
  <2>1. Linked(m, n)  BY DEF Equal
  <2>2. ASSUME NEW h \in Imported(n), NEW g \in Imported(m),
               n.table.function[h].name = m.table.function[g].name
        PROVE  /\ Len(n.table.function[h].parameters) = Len(m.table.function[g].parameters)
               /\ Len(n.table.function[h].returns) = Len(m.table.function[g].returns)
    BY <2>1, <2>2 DEF Linked
  <2>3. ASSUME NEW i \in CodeOfAll(n), NEW j \in CodeOfAll(m), i.op \in OwnArity, i.op = j.op, i.arg = j.arg
        PROVE  i.arity = j.arity
    BY <2>1, <2>3 DEF Linked
  <2> QED  BY <2>2, <2>3 DEF Linked
<1> QED  BY <1>1 DEF Equal

(* Structs of one name are one struct, for what is declared of them.       *)
LEMMA NamesOfStructs ==
  ASSUME NEW m, Sound(m), NEW d \in DOMAIN m.table.struct, NEW e \in DOMAIN m.table.struct,
         StructName(m, d) = StructName(m, e)
  PROVE  d = e
<1> DEFINE hd == m.table.struct[d].handle
           he == m.table.struct[e].handle
           handles == [k \in DOMAIN m.table.struct |-> m.table.struct[k].handle]
<1>1. PoolsOK(m) /\ StructsOK(m)  BY SoundPasses
<1>2. hd \in DOMAIN m.structHandles /\ he \in DOMAIN m.structHandles  BY DefinitionsAreLists
<1>3. NamesOf(m.structHandles)[hd] = NamesOf(m.structHandles)[he]
  BY <1>2 DEF NamesOf, StructName, HandleOf
<1>4. hd = he  BY <1>1, <1>2, <1>3 DEF PoolsOK, Distinct, NamesOf
<1>5. Distinct(handles)  BY <1>1 DEF StructsOK, DefinedOnce
<1>6. handles[d] = handles[e] /\ d \in DOMAIN handles /\ e \in DOMAIN handles  BY <1>4
<1> HIDE DEF handles
<1> QED  BY <1>5, <1>6 DEF Distinct

(* Structs of one name have the same declared of them.                     *)
LEMMA StructsAreEqual ==
  ASSUME NEW m, NEW n, Equal(m, n), NEW d \in DOMAIN m.table.struct, NEW e \in DOMAIN n.table.struct,
         StructName(m, d) = StructName(n, e)
  PROVE  StructValue(m, d) = StructValue(n, e)
<1> DEFINE name == StructName(m, d)
           value == StructValue(m, d)
<1>1. <<"struct", name, value>> \in Interface(n)  BY DEF Interface, Equal
<1> HIDE DEF name, value
<1>2. <<"struct", name, value>> \notin {<<"function", FunctionName(n, g), FunctionValue(n, g)>> : g \in ToSet(n.functions)}
  OBVIOUS
<1>3. PICK x \in DOMAIN n.table.struct : <<"struct", name, value>> = <<"struct", StructName(n, x), StructValue(n, x)>>
  BY <1>1, <1>2 DEF Interface
<1>4. name = StructName(n, x) /\ value = StructValue(n, x)  BY <1>3
<1>5. x = e  BY <1>4, NamesOfStructs DEF name, Equal
<1> QED  BY <1>4, <1>5 DEF value

(* So are functions of one name.                                           *)
LEMMA NamesOfFunctions ==
  ASSUME NEW m, Sound(m), NEW g \in DOMAIN m.table.function, NEW h \in DOMAIN m.table.function,
         m.table.function[g].name = m.table.function[h].name
  PROVE  g = h
<1>1. Distinct(NamesOf(m.table.function))  BY SoundPasses DEF PoolsOK
<1>2. NamesOf(m.table.function)[g] = NamesOf(m.table.function)[h]  BY DEF NamesOf
<1> QED  BY <1>1, <1>2 DEF Distinct, NamesOf

(* Functions that are defined have a handle, and no two of them one.       *)
LEMMA FunctionsHaveHandles ==
  ASSUME NEW m, Sound(m), NEW d \in DOMAIN m.functions
  PROVE  m.functions[d] \in ToSet(m.functions) /\ m.functions[d].handle \in DOMAIN m.table.function
<1>1. DefinedOnce(m.table.function, m.functions)  BY SoundPasses DEF FunctionsOK
<1>2. m.functions[d] \in ToSet(m.functions)  BY DEF ToSet
<1> QED  BY <1>1, <1>2 DEF DefinedOnce

(* A handle defines one function.                                          *)
LEMMA HandlesDefineOne ==
  ASSUME NEW m, Sound(m), NEW d \in DOMAIN m.functions, NEW e \in DOMAIN m.functions,
         m.functions[d].handle = m.functions[e].handle
  PROVE  d = e
<1> DEFINE h == [k \in DOMAIN m.functions |-> m.functions[k].handle]
<1>1. Distinct(h)  BY SoundPasses DEF FunctionsOK, DefinedOnce
<1>2. h[d] = h[e] /\ d \in DOMAIN h /\ e \in DOMAIN h  OBVIOUS
<1> HIDE DEF h
<1> QED  BY <1>1, <1>2 DEF Distinct

(* A function of one has its like in the other, with the same declared of  *)
(* it and, if it has code, the same normal form.                           *)
LEMMA FunctionsAreEqual ==
  ASSUME NEW m, NEW n, Equal(m, n), NEW d \in DOMAIN m.functions, NEW g \in DOMAIN n.table.function,
         FunctionName(m, m.functions[d]) = n.table.function[g].name
  PROVE  \E e \in DOMAIN n.functions :
           /\ n.functions[e].handle = g
           /\ FunctionValue(m, m.functions[d]) = FunctionValue(n, n.functions[e])
           /\ NormalizedBody(m, m.functions[d]) = NormalizedBody(n, n.functions[e])
<1> DEFINE f == m.functions[d]
           name == FunctionName(m, f)
           value == FunctionValue(m, f)
           body == NormalizedBody(m, f)
<1>1. Sound(m) /\ Sound(n) /\ Interface(m) = Interface(n) /\ Bodies(m) = Bodies(n)  BY DEF Equal
<1>2. f \in ToSet(m.functions)  BY DEF ToSet
<1>3. <<"function", name, value>> \in Interface(n) /\ <<name, body>> \in Bodies(n)
  BY <1>1, <1>2 DEF Interface, Bodies
<1> HIDE DEF name, value, body
<1>4. <<"function", name, value>> \notin {<<"struct", StructName(n, x), StructValue(n, x)>> : x \in DOMAIN n.table.struct}
  OBVIOUS
<1>5. PICK v \in ToSet(n.functions) : <<"function", name, value>> = <<"function", FunctionName(n, v), FunctionValue(n, v)>>
  BY <1>3, <1>4 DEF Interface
<1>6. PICK w \in ToSet(n.functions) : <<name, body>> = <<FunctionName(n, w), NormalizedBody(n, w)>>
  BY <1>3 DEF Bodies
<1>7. PICK x \in DOMAIN n.functions : v = n.functions[x]  BY DEF ToSet
<1>8. PICK y \in DOMAIN n.functions : w = n.functions[y]  BY DEF ToSet
<1>9. name = FunctionName(n, v) /\ value = FunctionValue(n, v) /\ name = FunctionName(n, w) /\ body = NormalizedBody(n, w)
  BY <1>5, <1>6
<1>10. v.handle \in DOMAIN n.table.function /\ w.handle \in DOMAIN n.table.function
  BY <1>1, <1>7, <1>8, FunctionsHaveHandles
<1>11. v.handle = g /\ w.handle = g
  <2>1. n.table.function[v.handle].name = n.table.function[g].name
    BY <1>9 DEF FunctionName, name
  <2>2. n.table.function[w.handle].name = n.table.function[g].name
    BY <1>9 DEF FunctionName, name
  <2> QED  BY <1>1, <1>10, <2>1, <2>2, NamesOfFunctions
<1>12. x = y  BY <1>1, <1>7, <1>8, <1>11, HandlesDefineOne
<1> QED  BY <1>7, <1>8, <1>9, <1>11, <1>12 DEF value, body

(* Their normal forms agree.                                               *)
LEMMA CompanionsAreTwins ==
  ASSUME NEW m, NEW d, NEW n, NEW e, Companions(m, d, n, e)
  PROVE  Twins(m, d, n, e) /\ FunctionValue(m, m.functions[d]) = FunctionValue(n, n.functions[e])
<1>1. /\ Equal(m, n) /\ Sound(n) /\ d \in DOMAIN m.functions /\ e \in DOMAIN n.functions
      /\ HasCode(m, d) /\ HasCode(n, e)
  BY DEF Companions, HasCode
<1>2. n.functions[e].handle \in DOMAIN n.table.function  BY <1>1, FunctionsHaveHandles
<1>3. FunctionName(m, m.functions[d]) = n.table.function[n.functions[e].handle].name
  BY DEF Companions, FunctionName
<1>4. PICK x \in DOMAIN n.functions :
        /\ n.functions[x].handle = n.functions[e].handle
        /\ FunctionValue(m, m.functions[d]) = FunctionValue(n, n.functions[x])
        /\ NormalizedBody(m, m.functions[d]) = NormalizedBody(n, n.functions[x])
  BY <1>1, <1>2, <1>3, FunctionsAreEqual
<1>5. x = e  BY <1>1, <1>4, HandlesDefineOne
<1> QED  BY <1>1, <1>4, <1>5 DEF Twins

(* Functions that have the same declared of them take and return as much.  *)
LEMMA ValuesMeasure ==
  ASSUME NEW m, NEW n, Sound(m), Sound(n), NEW d \in DOMAIN m.functions, NEW e \in DOMAIN n.functions,
         FunctionValue(m, m.functions[d]) = FunctionValue(n, n.functions[e])
  PROVE  LET h == m.table.function[m.functions[d].handle]
             g == n.table.function[n.functions[e].handle]
         IN  /\ Len(h.parameters) = Len(g.parameters) /\ Len(h.returns) = Len(g.returns)
             /\ signatureName(m, h.parameters) = signatureName(n, g.parameters)
             /\ IsNative(m.functions[d]) <=> IsNative(n.functions[e])
<1> DEFINE h == m.table.function[m.functions[d].handle]
           g == n.table.function[n.functions[e].handle]
           u == FunctionValue(m, m.functions[d])
           v == FunctionValue(n, n.functions[e])
<1>1. /\ u.native = IsNative(m.functions[d]) /\ v.native = IsNative(n.functions[e])
      /\ u.parameters = signatureName(m, h.parameters) /\ v.parameters = signatureName(n, g.parameters)
      /\ u.returns = signatureName(m, h.returns) /\ v.returns = signatureName(n, g.returns)
  BY DEF FunctionValue
<1>2. h \in Range(m.table.function) /\ g \in Range(n.table.function)  BY FunctionsHaveHandles DEF Range
<1>3. /\ h.parameters \in Seq(Types) /\ h.returns \in Seq(Types)
      /\ g.parameters \in Seq(Types) /\ g.returns \in Seq(Types)
  BY <1>2 DEF Sound, Loadable, FunctionsLoadable
<1>4. u = v  OBVIOUS
<1> HIDE DEF h, g, u, v
<1>5. SignaturesAlike(m, n, h.parameters, g.parameters) /\ SignaturesAlike(m, n, h.returns, g.returns)
  BY <1>1, <1>4 DEF SignaturesAlike
<1>6. Len(h.parameters) = Len(g.parameters) /\ Len(h.returns) = Len(g.returns)  BY <1>3, <1>5, SignaturesRunAlike
<1>7. IsNative(m.functions[d]) <=> IsNative(n.functions[e])  BY <1>1, <1>4 DEF IsNative
<1> QED  BY <1>5, <1>6, <1>7 DEF h, g, SignaturesAlike

(* So do functions of one name, of the modules or of others they are       *)
(* linked against.                                                         *)
LEMMA FunctionsMeasure ==
  ASSUME NEW m, NEW n, Equal(m, n), NEW h \in DOMAIN m.table.function, NEW g \in DOMAIN n.table.function,
         m.table.function[h].name = n.table.function[g].name
  PROVE  /\ Len(m.table.function[h].parameters) = Len(n.table.function[g].parameters)
         /\ Len(m.table.function[h].returns) = Len(n.table.function[g].returns)
<1>1. Sound(m) /\ Sound(n) /\ Linked(m, n)  BY DEF Equal
<1>2. CASE \E d \in DOMAIN m.functions : m.functions[d].handle = h
  <2>1. PICK d \in DOMAIN m.functions : m.functions[d].handle = h  BY <1>2
  <2>2. FunctionName(m, m.functions[d]) = n.table.function[g].name  BY <2>1 DEF FunctionName
  <2>3. PICK e \in DOMAIN n.functions :
          n.functions[e].handle = g /\ FunctionValue(m, m.functions[d]) = FunctionValue(n, n.functions[e])
    BY <2>2, FunctionsAreEqual
  <2> DEFINE x == m.functions[d].handle
             y == n.functions[e].handle
  <2>4. /\ Len(m.table.function[x].parameters) = Len(n.table.function[y].parameters)
        /\ Len(m.table.function[x].returns) = Len(n.table.function[y].returns)
    BY <1>1, <2>3, ValuesMeasure
  <2>5. x = h /\ y = g  BY <2>1, <2>3
  <2> HIDE DEF x, y
  <2> QED  BY <2>4, <2>5
<1>3. CASE \E e \in DOMAIN n.functions : n.functions[e].handle = g
  <2>1. PICK e \in DOMAIN n.functions : n.functions[e].handle = g  BY <1>3
  <2>2. FunctionName(n, n.functions[e]) = m.table.function[h].name  BY <2>1 DEF FunctionName
  <2>3. \E d \in DOMAIN m.functions : m.functions[d].handle = h
    BY <2>2, FunctionsAreEqual, EqualBothWays
  <2> QED  BY <1>2, <2>3
<1>4. CASE ~ (\E d \in DOMAIN m.functions : m.functions[d].handle = h)
           /\ ~ (\E e \in DOMAIN n.functions : n.functions[e].handle = g)
  <2>1. h \in Imported(m) /\ g \in Imported(n)  BY <1>4 DEF Imported, DefinitionsNamed
  <2> QED  BY <1>1, <2>1 DEF Linked
<1> QED  BY <1>2, <1>3, <1>4
-----------------------------------------------------------------------------
(* Fields that have the same declared of them have the same names.         *)
LEMMA ValuesOfFields ==
  ASSUME NEW m, NEW n, NEW a, NEW b, a \in Seq(Range(a)), b \in Seq(Range(b)), FieldValues(m, a) = FieldValues(n, b)
  PROVE  FieldsAlike(a, b)
<1> DEFINE u == FieldValues(m, a)
           v == FieldValues(n, b)
           k1 == Len(a)
           k2 == Len(b)
<1>1. DOMAIN u = DOMAIN a /\ DOMAIN v = DOMAIN b
      /\ (\A k \in DOMAIN a : u[k] = <<a[k].name, typeName(m, a[k].type)>>)
      /\ \A k \in DOMAIN b : v[k] = <<b[k].name, typeName(n, b[k].type)>>
  BY DEF FieldValues
<1>2. u = v  OBVIOUS
<1> HIDE DEF u, v
<1>3. DOMAIN a = DOMAIN b  BY <1>1, <1>2
<1>4. ASSUME NEW k \in DOMAIN a PROVE a[k].name = b[k].name
  <2>1. <<a[k].name, typeName(m, a[k].type)>> = <<b[k].name, typeName(n, b[k].type)>>
    BY <1>1, <1>2, <1>3
  <2> QED  BY <2>1
<1>5. k1 \in Nat /\ k2 \in Nat /\ DOMAIN a = 1 .. k1 /\ DOMAIN b = 1 .. k2  BY LenProperties
<1> HIDE DEF k1, k2
<1>6. k1 = k2
  <2>1. 1 .. k1 = 1 .. k2  BY <1>3, <1>5
  <2>2. (k1 # 0 => k1 \in 1 .. k2) /\ (k2 # 0 => k2 \in 1 .. k1)  BY <1>5, <2>1
  <2> QED  BY <1>5, <2>2
<1> QED  BY <1>3, <1>4, <1>6 DEF FieldsAlike, k1, k2

(* Structs of one name have the same fields and variants.                  *)
LEMMA StructsOfOneName ==
  ASSUME NEW m, NEW n, Equal(m, n), NEW d \in DOMAIN m.table.struct, NEW e \in DOMAIN n.table.struct,
         StructName(m, d) = StructName(n, e)
  PROVE  StructsAlike(m, d, n, e)
<1> DEFINE a == m.table.struct[d]
           b == n.table.struct[e]
           u == StructValue(m, d)
           v == StructValue(n, e)
           own(o, definition) == [k \in DOMAIN definition.variants |->
                                    <<definition.variants[k].name, FieldValues(o, definition.variants[k].fields)>>]
<1>1. u = v  BY StructsAreEqual
<1>2. /\ u.fields = FieldValues(m, a.fields) /\ v.fields = FieldValues(n, b.fields)
      /\ u.variants = own(m, a) /\ v.variants = own(n, b)
  BY DEF StructValue
<1> HIDE DEF u, v
<1>3. FieldValues(m, a.fields) = FieldValues(n, b.fields) /\ own(m, a) = own(n, b)  BY <1>1, <1>2
<1>4. /\ a.fields \in Seq(Range(a.fields)) /\ \A k \in DOMAIN a.variants : a.variants[k].fields \in Seq(Range(a.variants[k].fields))
      /\ b.fields \in Seq(Range(b.fields)) /\ \A k \in DOMAIN b.variants : b.variants[k].fields \in Seq(Range(b.variants[k].fields))
  BY DefinitionsAreLists DEF Equal
<1>5. FieldsAlike(a.fields, b.fields)  BY <1>3, <1>4, ValuesOfFields
<1>6. DOMAIN own(m, a) = DOMAIN a.variants /\ DOMAIN own(n, b) = DOMAIN b.variants  OBVIOUS
<1>7. DOMAIN a.variants = DOMAIN b.variants  BY <1>3, <1>6
<1>8. ASSUME NEW k \in DOMAIN a.variants
      PROVE  a.variants[k].name = b.variants[k].name /\ FieldsAlike(a.variants[k].fields, b.variants[k].fields)
  <2>1. own(m, a)[k] = <<a.variants[k].name, FieldValues(m, a.variants[k].fields)>>  OBVIOUS
  <2>2. own(n, b)[k] = <<b.variants[k].name, FieldValues(n, b.variants[k].fields)>>  BY <1>7
  <2>3. <<a.variants[k].name, FieldValues(m, a.variants[k].fields)>> = <<b.variants[k].name, FieldValues(n, b.variants[k].fields)>>
    BY <1>3, <2>1, <2>2
  <2>4. a.variants[k].name = b.variants[k].name /\ FieldValues(m, a.variants[k].fields) = FieldValues(n, b.variants[k].fields)
    BY <2>3
  <2>5. k \in DOMAIN b.variants  BY <1>7
  <2>6. FieldsAlike(a.variants[k].fields, b.variants[k].fields)  BY <1>4, <2>4, <2>5, ValuesOfFields
  <2> QED  BY <2>4, <2>6
<1> QED  BY <1>5, <1>7, <1>8 DEF StructsAlike

(* The names within a struct differ.                                       *)
LEMMA NamesWithin ==
  ASSUME NEW m, Sound(m), NEW d \in DOMAIN m.table.struct
  PROVE  LET definition == m.table.struct[d]
         IN  /\ \A j, k \in DOMAIN definition.fields : definition.fields[j].name = definition.fields[k].name => j = k
             /\ \A j, k \in DOMAIN definition.variants : definition.variants[j].name = definition.variants[k].name => j = k
             /\ \A v \in DOMAIN definition.variants :
                  LET fields == definition.variants[v].fields
                  IN  \A j, k \in DOMAIN fields : fields[j].name = fields[k].name => j = k
<1> DEFINE definition == m.table.struct[d]
           handle == m.structHandles[definition.handle]
<1>1. StructsOK(m) /\ definition \in ToSet(m.table.struct)  BY DefinitionsAreLists
<1>2. /\ FieldsOK(m, handle, definition.fields) /\ Distinct(NamesOf(definition.variants))
      /\ \A v \in ToSet(definition.variants) : FieldsOK(m, handle, v.fields)
  BY <1>1 DEF StructsOK
<1>3. \A s : Distinct(NamesOf(s)) => \A j, k \in DOMAIN s : s[j].name = s[k].name => j = k
  BY DEF Distinct, NamesOf
<1>4. Distinct(NamesOf(definition.fields))  BY <1>2 DEF FieldsOK
<1>5. \A v \in DOMAIN definition.variants : Distinct(NamesOf(definition.variants[v].fields))
  BY <1>2 DEF FieldsOK, ToSet
<1> HIDE DEF definition
<1> QED  BY <1>2, <1>3, <1>4, <1>5, Zenon DEF definition

(* So a name leads to one field or variant, at the same place in both.     *)
LEMMA FieldFound ==
  ASSUME NEW m, NEW n, Equal(m, n), NEW d \in DOMAIN m.table.struct, NEW e \in DOMAIN n.table.struct,
         NEW k \in DOMAIN m.table.struct[d].fields, NEW l \in DOMAIN n.table.struct[e].fields,
         DefinitionFields(m, d)[k] = DefinitionFields(n, e)[l]
  PROVE  StructName(m, d) = StructName(n, e) /\ k = l
<1> DEFINE a == m.table.struct[d]
           b == n.table.struct[e]
           x == DefinitionFields(m, d)[k]
           y == DefinitionFields(n, e)[l]
<1>1. Sound(m) /\ Sound(n)  BY DEF Equal
<1>2. x[1] = StructName(m, d) /\ x[2] = a.fields[k].name  BY <1>1, FieldNames
<1>3. y[1] = StructName(n, e) /\ y[2] = b.fields[l].name  BY <1>1, FieldNames
<1>4. StructName(m, d) = StructName(n, e) /\ a.fields[k].name = b.fields[l].name  BY <1>2, <1>3
<1>5. FieldsAlike(a.fields, b.fields)  BY <1>4, StructsOfOneName DEF StructsAlike
<1>6. l \in DOMAIN a.fields /\ a.fields[k].name = a.fields[l].name  BY <1>4, <1>5 DEF FieldsAlike
<1> QED  BY <1>1, <1>4, <1>6, NamesWithin

(* A variant of a name is, in structs of one name, one by its number.      *)
LEMMA VariantFound ==
  ASSUME NEW m, NEW n, Equal(m, n), NEW d \in DOMAIN m.table.struct, NEW e \in DOMAIN n.table.struct,
         NEW v \in DOMAIN m.table.struct[d].variants, NEW w \in DOMAIN n.table.struct[e].variants,
         StructName(m, d) = StructName(n, e), m.table.struct[d].variants[v].name = n.table.struct[e].variants[w].name
  PROVE  v = w /\ FieldsAlike(m.table.struct[d].variants[v].fields, n.table.struct[e].variants[w].fields)
<1> DEFINE a == m.table.struct[d].variants
           b == n.table.struct[e].variants
<1>1. DOMAIN a = DOMAIN b /\ \A k \in DOMAIN a : a[k].name = b[k].name /\ FieldsAlike(a[k].fields, b[k].fields)
  BY StructsOfOneName DEF StructsAlike
<1>2. w \in DOMAIN a /\ a[v].name = a[w].name  BY <1>1
<1>3. \A j, k \in DOMAIN a : a[j].name = a[k].name => j = k  BY NamesWithin DEF Equal
<1>4. v = w  BY <1>2, <1>3
<1> QED  BY <1>1, <1>4

(* Fields of variants that have one name are one by their number, of one   *)
(* variant of structs of one name.                                         *)
LEMMA VariantFieldFound ==
  ASSUME NEW m, NEW n, Equal(m, n), NEW d \in DOMAIN m.table.struct, NEW e \in DOMAIN n.table.struct,
         NEW v \in DOMAIN m.table.struct[d].variants, NEW w \in DOMAIN n.table.struct[e].variants,
         NEW k \in DOMAIN m.table.struct[d].variants[v].fields, NEW l \in DOMAIN n.table.struct[e].variants[w].fields,
         DefinitionFields(m, d)[VariantFieldBase(m.table.struct[d], v) + k]
           = DefinitionFields(n, e)[VariantFieldBase(n.table.struct[e], w) + l]
  PROVE  StructName(m, d) = StructName(n, e) /\ v = w /\ k = l
<1> DEFINE a == m.table.struct[d]
           b == n.table.struct[e]
           x == DefinitionFields(m, d)[VariantFieldBase(a, v) + k]
           y == DefinitionFields(n, e)[VariantFieldBase(b, w) + l]
<1>1. Sound(m) /\ Sound(n)  BY DEF Equal
<1>2. x[1] = StructName(m, d) /\ x[2] = a.variants[v].name /\ x[3] = a.variants[v].fields[k].name  BY <1>1, FieldNames
<1>3. y[1] = StructName(n, e) /\ y[2] = b.variants[w].name /\ y[3] = b.variants[w].fields[l].name  BY <1>1, FieldNames
<1>4. x = y  OBVIOUS
<1> HIDE DEF x, y
<1>5. /\ StructName(m, d) = StructName(n, e) /\ a.variants[v].name = b.variants[w].name
      /\ a.variants[v].fields[k].name = b.variants[w].fields[l].name
  BY <1>2, <1>3, <1>4
<1>6. v = w /\ FieldsAlike(a.variants[v].fields, b.variants[w].fields)  BY <1>5, VariantFound
<1> DEFINE fields == a.variants[v].fields
<1>7. l \in DOMAIN fields /\ fields[k].name = fields[l].name  BY <1>5, <1>6 DEF FieldsAlike
<1>8. \A i, j \in DOMAIN fields : fields[i].name = fields[j].name => i = j  BY <1>1, NamesWithin
<1>9. k = l  BY <1>7, <1>8
<1> QED  BY <1>5, <1>6, <1>9
-----------------------------------------------------------------------------
(* Instructions of one normal form: of one opcode, on entries of one name  *)
(* or on locals of one name.                                               *)
LEMMA CalledAlike ==
  ASSUME NEW m, NEW d, NEW n, NEW e, NEW a1, NEW a2, Called(m, d, a1) = Called(n, e, a2)
  PROVE  LET i == Code(m, d)[a1]
             j == Code(n, e)[a2]
         IN  /\ NamedAlike(m, n, i, j)
             /\ i.op \in LocalOps => Local(m, d, i.arg) = Local(n, e, j.arg)
<1> DEFINE i == Code(m, d)[a1]
           j == Code(n, e)[a2]
           s == TurnsIn(m, m.functions[d])
           t == TurnsIn(n, n.functions[e])
           u == Operand(m, m.functions[d], s, i)
           v == Operand(n, n.functions[e], t, j)
           x == Called(m, d, a1)
           y == Called(n, e, a2)
<1>1. x.op = i.op /\ x.generic = i.generic /\ x.operand = u /\ y.op = j.op /\ y.generic = j.generic /\ y.operand = v
  BY DEF Called, Normalized
<1>2. x = y  OBVIOUS
<1> HIDE DEF x, y
<1>3. i.op = j.op /\ u = v  BY <1>1, <1>2
<1> HIDE DEF u, v, i, j
<1>4. i.op \in LocalOps => KindOf(i.op) = "none" /\ Local(m, d, i.arg) = Local(n, e, j.arg)
  <2>1. i.op \in LocalOps => KindOf(i.op) = "none"  BY DEF LocalOps, Locals, KindOf
  <2> DEFINE A == Local(m, d, i.arg)
             B == Local(n, e, j.arg)
             other(o, k) == <<NameOf(o, KindOf(k.op), UseOf(o, k).of), signatureName(o, UseOf(o, k).arguments)>>
                            \o (IF k.op = "PackClosure" THEN <<k.captured>> ELSE << >>)
  <2>2. /\ u = CASE i.op \in LocalOps -> A [] KindOf(i.op) # "none" -> other(m, i) [] OTHER -> <<i.arg>>
        /\ v = CASE j.op \in LocalOps -> B [] KindOf(j.op) # "none" -> other(n, j) [] OTHER -> <<j.arg>>
    BY DEF u, v, Operand, Local
  <2> HIDE DEF A, B, other
  <2>3. i.op \in LocalOps => u = A /\ v = B  BY <1>3, <2>1, <2>2
  <2> QED  BY <1>3, <2>1, <2>3 DEF A, B
<1>5. ASSUME KindOf(i.op) # "none"
      PROVE  /\ NameOf(m, KindOf(i.op), UseOf(m, i).of) = NameOf(n, KindOf(i.op), UseOf(n, j).of)
             /\ SignaturesAlike(m, n, UseOf(m, i).arguments, UseOf(n, j).arguments)
             /\ i.op = "PackClosure" => i.captured = j.captured
  <2> DEFINE a == NameOf(m, KindOf(i.op), UseOf(m, i).of)
             b == signatureName(m, UseOf(m, i).arguments)
             p == NameOf(n, KindOf(j.op), UseOf(n, j).of)
             q == signatureName(n, UseOf(n, j).arguments)
             z == i.captured
             w == j.captured
  <2>1. /\ u = <<a, b>> \o (IF i.op = "PackClosure" THEN <<z>> ELSE << >>)
        /\ v = <<p, q>> \o (IF j.op = "PackClosure" THEN <<w>> ELSE << >>)
    BY <1>3, <1>4, <1>5 DEF u, v, Operand
  <2> HIDE DEF a, b, p, q, z, w
  <2>2. CASE i.op = "PackClosure"
    <3>1. u = <<a, b>> \o <<z>> /\ v = <<p, q>> \o <<w>>  BY <1>3, <2>1, <2>2
    <3>2. u[1] = a /\ u[2] = b /\ u[3] = z  BY <3>1, JoinedNames
    <3>3. v[1] = p /\ v[2] = q /\ v[3] = w  BY <3>1, JoinedNames
    <3>4. a = p /\ b = q /\ z = w  BY <1>3, <3>2, <3>3
    <3> QED  BY <1>3, <3>4 DEF a, b, p, q, z, w, SignaturesAlike
  <2>3. CASE i.op # "PackClosure"
    <3>1. u = <<a, b>> \o << >> /\ v = <<p, q>> \o << >>  BY <1>3, <2>1, <2>3
    <3>2. u[1] = a /\ u[2] = b  BY <3>1, JoinedNames
    <3>3. v[1] = p /\ v[2] = q  BY <3>1, JoinedNames
    <3>4. a = p /\ b = q  BY <1>3, <3>2, <3>3
    <3> QED  BY <1>3, <2>3, <3>4 DEF a, b, p, q, SignaturesAlike
  <2> QED  BY <2>2, <2>3
<1>6. ASSUME KindOf(i.op) = "none", i.op \notin LocalOps PROVE i.arg = j.arg
  <2>1. u = <<i.arg>> /\ v = <<j.arg>>  BY <1>3, <1>6 DEF u, v, Operand
  <2>2. u[1] = i.arg /\ v[1] = j.arg  BY <2>1
  <2> QED  BY <1>3, <2>2
<1> QED  BY <1>3, <1>4, <1>5, <1>6 DEF NamedAlike, i, j

(* What an instruction is used with are types.                             *)
LEMMA ArgumentsAreTypes ==
  ASSUME NEW m, NEW d, HasCode(m, d), NEW at \in DOMAIN Code(m, d)
  PROVE  LET i == Code(m, d)[at]
         IN  /\ UseOf(m, i).arguments \in Seq(Types)
             /\ KindOf(i.op) = "none" => UseOf(m, i).arguments = << >>
<1> DEFINE i == Code(m, d)[at]
           kind == KindOf(i.op)
<1>1. i \in Range(Code(m, d)) /\ Coded(m.functions[d]) /\ InstructionOK(m, m.functions[d], i)
  BY CodeIsAccepted DEF CodeOK, Code, Range
<1>2. i.generic \in BOOLEAN /\ (i.generic => kind # "none")  BY <1>1 DEF Coded, Code
<1> HIDE DEF i
<1>3. CASE ~ i.generic
  <2>1. UseOf(m, i).arguments = << >>  BY <1>3 DEF UseOf, Instance
  <2> QED  BY <2>1 DEF i
<1>4. CASE i.generic
  <2>1. kind \in Kinds  BY <1>2, <1>4 DEF KindOf, Kinds
  <2>2. i.arg \in DOMAIN m.instances[kind]  BY <1>1, <1>2, <1>4 DEF InstructionOK
  <2>3. UseOf(m, i) \in Range(m.instances[kind])  BY <1>4, <2>2 DEF UseOf, Range
  <2>4. UseOf(m, i).arguments \in Seq(Types)  BY <2>1, <2>3 DEF HasCode, Sound, Loadable
  <2> QED  BY <1>2, <1>4, <2>4 DEF i
<1> QED  BY <1>2, <1>3, <1>4

(* They have the same types when they run.                                 *)
LEMMA TypesAlike ==
  ASSUME NEW m, NEW d, NEW n, NEW e, HasCode(m, d), HasCode(n, e),
         NEW a1 \in DOMAIN Code(m, d), NEW a2 \in DOMAIN Code(n, e),
         NamedAlike(m, n, Code(m, d)[a1], Code(n, e)[a2]),
         NEW x, NEW y, x.types = y.types
  PROVE  TypesOf(m, x, Code(m, d)[a1]) = TypesOf(n, y, Code(n, e)[a2])
<1> DEFINE i == Code(m, d)[a1]
           j == Code(n, e)[a2]
           p == UseOf(m, i).arguments
           q == UseOf(n, j).arguments
<1>1. /\ p \in Seq(Types) /\ (KindOf(i.op) = "none" => p = << >>)
      /\ q \in Seq(Types) /\ (KindOf(j.op) = "none" => q = << >>)
  BY ArgumentsAreTypes
<1>2. TypesOf(m, x, i) = [k \in DOMAIN p |-> RunTimeType(m, p[k], x.types)]
      /\ TypesOf(n, y, j) = [k \in DOMAIN q |-> RunTimeType(n, q[k], y.types)]
  BY DEF TypesOf
<1>3. i.op = j.op /\ (KindOf(i.op) # "none" => SignaturesAlike(m, n, p, q))  BY DEF NamedAlike
<1> HIDE DEF p, q, i, j
<1>4. SignaturesAlike(m, n, p, q)
  <2>1. p = << >> /\ q = << >> => SignaturesAlike(m, n, p, q)  BY DEF SignaturesAlike, signatureName
  <2> QED  BY <1>1, <1>3, <2>1
<1>5. [k \in DOMAIN p |-> RunTimeType(m, p[k], x.types)] = [k \in DOMAIN q |-> RunTimeType(n, q[k], x.types)]
  BY <1>1, <1>4, SignaturesRunAlike
<1> QED  BY <1>2, <1>5 DEF i, j

(* The table entries that instructions are on exist.                       *)
LEMMA EntriesExist ==
  ASSUME NEW m, NEW d, HasCode(m, d), NEW at \in DOMAIN Code(m, d)
  PROVE  LET i == Code(m, d)[at]
             entry == EntryOf(m, i)
             structs == m.table.struct
         IN  /\ KindOf(i.op) = "function" => UseOf(m, i).of \in DOMAIN m.table.function
             /\ KindOf(i.op) = "struct" => UseOf(m, i).of \in DOMAIN structs
             /\ KindOf(i.op) = "field" => entry.owner \in DOMAIN structs /\ entry.field \in DOMAIN structs[entry.owner].fields
             /\ KindOf(i.op) = "variant" =>
                  entry.owner \in DOMAIN structs /\ entry.variant \in DOMAIN structs[entry.owner].variants
             /\ KindOf(i.op) = "variantField" =>
                  /\ entry.owner \in DOMAIN structs /\ DOMAIN entry.variants # {}
                  /\ \A v \in ToSet(entry.variants) :
                       v \in DOMAIN structs[entry.owner].variants /\ entry.field \in DOMAIN structs[entry.owner].variants[v].fields
<1> DEFINE i == Code(m, d)[at]
           kind == KindOf(i.op)
           of == UseOf(m, i).of
<1>1. kind # "none" => of \in DOMAIN m.table[kind]  BY UsesExist DEF Code
<1>2. FieldHandlesOK(m)  BY SoundPasses DEF HasCode
<1> HIDE DEF kind, of, i
<1>3. kind # "none" => m.table[kind][of] \in ToSet(m.table[kind])  BY <1>1 DEF ToSet
<1>4. kind = "function" => of \in DOMAIN m.table.function  BY <1>1
<1>5. kind = "struct" => of \in DOMAIN m.table.struct  BY <1>1
<1>6. kind = "field" => m.table[kind][of] \in ToSet(m.table.field)  BY <1>3
<1>7. kind = "variant" => m.table[kind][of] \in ToSet(m.table.variant)  BY <1>3
<1>8. kind = "variantField" => m.table[kind][of] \in ToSet(m.table.variantField)  BY <1>3
<1>9. EntryOf(m, i) = m.table[kind][of]  BY DEF EntryOf, kind, of
<1> DEFINE entry == EntryOf(m, i)
           structs == m.table.struct
<1>10. /\ kind = "field" => entry.owner \in DOMAIN structs /\ entry.field \in DOMAIN structs[entry.owner].fields
       /\ kind = "variant" => entry.owner \in DOMAIN structs /\ entry.variant \in DOMAIN structs[entry.owner].variants
       /\ kind = "variantField" =>
            /\ entry.owner \in DOMAIN structs
            /\ Cardinality({structs[entry.owner].variants[v].fields[entry.field].type : v \in ToSet(entry.variants)}) = 1
            /\ \A v \in ToSet(entry.variants) :
                 v \in DOMAIN structs[entry.owner].variants /\ entry.field \in DOMAIN structs[entry.owner].variants[v].fields
  BY <1>2, <1>6, <1>7, <1>8, <1>9 DEF FieldHandlesOK
<1>11. kind = "variantField" => DOMAIN entry.variants # {}
  <2> SUFFICES ASSUME kind = "variantField", DOMAIN entry.variants = {} PROVE FALSE  OBVIOUS
  <2> HIDE DEF entry
  <2>1. ToSet(entry.variants) = {}  BY DEF ToSet
  <2> DEFINE S == {structs[entry.owner].variants[v].fields[entry.field].type : v \in ToSet(entry.variants)}
  <2>2. S = {}  BY <2>1
  <2>3. kind = "variantField" => Cardinality(S) = 1  BY <1>10
  <2> HIDE DEF S
  <2>4. Cardinality({}) = 0  BY FS_EmptySet
  <2> QED  BY <2>2, <2>3, <2>4
<1> QED  BY <1>4, <1>5, <1>10, <1>11 DEF kind, of, i

(* They work on the same, by name or by number.                            *)
LEMMA WorksAlike ==
  ASSUME NEW m, NEW d, NEW n, NEW e, Equal(m, n), HasCode(m, d), HasCode(n, e),
         NEW a1 \in DOMAIN Code(m, d), NEW a2 \in DOMAIN Code(n, e),
         NamedAlike(m, n, Code(m, d)[a1], Code(n, e)[a2]), Code(m, d)[a1].op \notin LocalOps,
         NEW x, NEW y
  PROVE  WorksOn(m, x, Code(m, d)[a1]) = WorksOn(n, y, Code(n, e)[a2])
<1> DEFINE i == Code(m, d)[a1]
           j == Code(n, e)[a2]
           kind == KindOf(i.op)
           p == UseOf(m, i).of
           q == UseOf(n, j).of
           a == EntryOf(m, i)
           b == EntryOf(n, j)
<1>1. /\ i.op = j.op /\ kind = KindOf(j.op)
      /\ kind # "none" => NameOf(m, kind, p) = NameOf(n, kind, q)
      /\ kind = "none" => i.arg = j.arg
  BY DEF NamedAlike
<1>2. /\ kind = "struct" => p \in DOMAIN m.table.struct /\ q \in DOMAIN n.table.struct
      /\ kind = "field" => /\ a.owner \in DOMAIN m.table.struct /\ a.field \in DOMAIN m.table.struct[a.owner].fields
                           /\ b.owner \in DOMAIN n.table.struct /\ b.field \in DOMAIN n.table.struct[b.owner].fields
      /\ kind = "variant" => /\ a.owner \in DOMAIN m.table.struct /\ a.variant \in DOMAIN m.table.struct[a.owner].variants
                             /\ b.owner \in DOMAIN n.table.struct /\ b.variant \in DOMAIN n.table.struct[b.owner].variants
  BY <1>1, EntriesExist
<1>3. /\ kind = "variantField" => /\ a.owner \in DOMAIN m.table.struct /\ DOMAIN a.variants # {}
                                  /\ b.owner \in DOMAIN n.table.struct
      /\ kind = "variantField" => \A v \in ToSet(a.variants) :
           v \in DOMAIN m.table.struct[a.owner].variants /\ a.field \in DOMAIN m.table.struct[a.owner].variants[v].fields
      /\ kind = "variantField" => \A v \in ToSet(b.variants) :
           v \in DOMAIN n.table.struct[b.owner].variants /\ b.field \in DOMAIN n.table.struct[b.owner].variants[v].fields
  BY <1>1, EntriesExist
<1>4. a = m.table[kind][p] /\ b = n.table[kind][q]  BY <1>1 DEF EntryOf
<1>5. /\ kind = "function" => WorksOn(m, x, i) = <<a.name>> /\ WorksOn(n, y, j) = <<b.name>>
      /\ kind = "struct" => WorksOn(m, x, i) = <<StructName(m, p)>> /\ WorksOn(n, y, j) = <<StructName(n, q)>>
      /\ kind = "field" => /\ WorksOn(m, x, i) = <<StructName(m, a.owner), a.field>>
                           /\ WorksOn(n, y, j) = <<StructName(n, b.owner), b.field>>
      /\ kind = "variant" => /\ WorksOn(m, x, i) = <<StructName(m, a.owner), a.variant>>
                             /\ WorksOn(n, y, j) = <<StructName(n, b.owner), b.variant>>
      /\ kind = "variantField" => /\ WorksOn(m, x, i) = <<StructName(m, a.owner), ToSet(a.variants), a.field>>
                                  /\ WorksOn(n, y, j) = <<StructName(n, b.owner), ToSet(b.variants), b.field>>
      /\ kind = "none" => WorksOn(m, x, i) = <<i.arg>> /\ WorksOn(n, y, j) = <<j.arg>>
  <2>1. kind \in Kinds \cup {"none"}  BY DEF KindOf, Kinds
  <2>2. i.op \notin Locals /\ j.op \notin Locals  BY <1>1 DEF LocalOps
  <2> DEFINE Works(o, u, c, z, w) ==
               CASE z = "function" -> <<w.name>>
                 [] z = "struct" -> <<StructName(o, u)>>
                 [] z = "field" -> <<StructName(o, w.owner), w.field>>
                 [] z = "variant" -> <<StructName(o, w.owner), w.variant>>
                 [] z = "variantField" -> <<StructName(o, w.owner), ToSet(w.variants), w.field>>
                 [] OTHER -> <<c.arg>>
  <2>3. WorksOn(m, x, i) = Works(m, p, i, kind, a)
    <3> HIDE DEF i
    <3> QED  BY <1>4, <2>1, <2>2 DEF WorksOn
  <2>4. WorksOn(n, y, j) = Works(n, q, j, kind, b)
    <3> HIDE DEF i, j
    <3> QED  BY <1>1, <1>4, <2>1, <2>2 DEF WorksOn
  <2> HIDE DEF i, j, kind, p, q, a, b
  <2> QED  BY <2>1, <2>3, <2>4 DEF Kinds
<1> HIDE DEF i, j, kind, p, q, a, b
<1>6. CASE kind = "function"
  <2>1. NameOf(m, kind, p) = a.name /\ NameOf(n, kind, q) = b.name  BY <1>4, <1>6 DEF NameOf
  <2> QED  BY <1>1, <1>5, <1>6, <2>1 DEF i, j
<1>7. CASE kind = "struct"
  <2>1. NameOf(m, kind, p) = StructName(m, p) /\ NameOf(n, kind, q) = StructName(n, q)  BY <1>7 DEF NameOf
  <2> QED  BY <1>1, <1>5, <1>7, <2>1 DEF i, j
<1>8. CASE kind = "field"
  <2>1. NameOf(m, kind, p) = DefinitionFields(m, a.owner)[a.field] /\ NameOf(n, kind, q) = DefinitionFields(n, b.owner)[b.field]
    BY <1>4, <1>8 DEF NameOf
  <2>2. StructName(m, a.owner) = StructName(n, b.owner) /\ a.field = b.field
    BY <1>1, <1>2, <1>8, <2>1, FieldFound
  <2> QED  BY <1>5, <1>8, <2>2 DEF i, j
<1>9. CASE kind = "variant"
  <2>1. /\ NameOf(m, kind, p) = <<StructName(m, a.owner), m.table.struct[a.owner].variants[a.variant].name>>
        /\ NameOf(n, kind, q) = <<StructName(n, b.owner), n.table.struct[b.owner].variants[b.variant].name>>
    BY <1>4, <1>9 DEF NameOf
  <2> DEFINE s == StructName(m, a.owner)
             t == StructName(n, b.owner)
             v == m.table.struct[a.owner].variants[a.variant].name
             w == n.table.struct[b.owner].variants[b.variant].name
  <2>2. s = t /\ v = w
    <3> HIDE DEF s, t, v, w
    <3>1. <<s, v>> = <<t, w>>  BY <1>1, <1>9, <2>1 DEF s, t, v, w
    <3> QED  BY <3>1
  <2>3. a.variant = b.variant
    <3>1. /\ a.owner \in DOMAIN m.table.struct /\ a.variant \in DOMAIN m.table.struct[a.owner].variants
          /\ b.owner \in DOMAIN n.table.struct /\ b.variant \in DOMAIN n.table.struct[b.owner].variants
      BY <1>2, <1>9
    <3>2. ASSUME NEW o \in DOMAIN m.table.struct, NEW u \in DOMAIN n.table.struct,
                 NEW g \in DOMAIN m.table.struct[o].variants, NEW h \in DOMAIN n.table.struct[u].variants,
                 StructName(m, o) = StructName(n, u), m.table.struct[o].variants[g].name = n.table.struct[u].variants[h].name
          PROVE  g = h
      BY <3>2, VariantFound
    <3>3. StructName(m, a.owner) = StructName(n, b.owner)  BY <2>2
    <3>4. m.table.struct[a.owner].variants[a.variant].name = n.table.struct[b.owner].variants[b.variant].name  BY <2>2
    <3> QED  BY <3>1, <3>2, <3>3, <3>4, Zenon
  <2> QED  BY <1>5, <1>9, <2>2, <2>3 DEF i, j
<1>10. CASE kind = "variantField"
  <2> DEFINE u(k) == DefinitionFields(m, a.owner)[VariantFieldBase(m.table.struct[a.owner], a.variants[k]) + a.field]
             v(k) == DefinitionFields(n, b.owner)[VariantFieldBase(n.table.struct[b.owner], b.variants[k]) + b.field]
             U == [k \in DOMAIN a.variants |-> u(k)]
             V == [k \in DOMAIN b.variants |-> v(k)]
  <2>1. NameOf(m, kind, p) = U /\ NameOf(n, kind, q) = V  BY <1>4, <1>10 DEF NameOf
  <2>2. U = V  BY <1>1, <1>10, <2>1
  <2>3. DOMAIN a.variants = DOMAIN b.variants /\ \A k \in DOMAIN a.variants : u(k) = v(k)
    <3>1. DOMAIN U = DOMAIN a.variants /\ DOMAIN V = DOMAIN b.variants  OBVIOUS
    <3>2. (\A k \in DOMAIN a.variants : U[k] = u(k)) /\ \A k \in DOMAIN b.variants : V[k] = v(k)  OBVIOUS
    <3> HIDE DEF U, V, u, v
    <3> QED  BY <2>2, <3>1, <3>2
  <2>4. ASSUME NEW k \in DOMAIN a.variants
        PROVE  StructName(m, a.owner) = StructName(n, b.owner) /\ a.variants[k] = b.variants[k] /\ a.field = b.field
    <3>1. a.variants[k] \in ToSet(a.variants) /\ b.variants[k] \in ToSet(b.variants)  BY <2>3 DEF ToSet
    <3>2. u(k) = v(k)  BY <2>3
    <3> QED  BY <1>3, <1>10, <3>1, <3>2, VariantFieldFound
  <2>5. PICK k \in DOMAIN a.variants : TRUE  BY <1>3, <1>10
  <2>6. ToSet(a.variants) = ToSet(b.variants)  BY <2>3, <2>4 DEF ToSet
  <2> QED  BY <1>5, <1>10, <2>4, <2>5, <2>6 DEF i, j
<1>11. CASE kind = "none"  BY <1>1, <1>5, <1>11 DEF i, j
<1> QED
  <2>1. kind \in Kinds \cup {"none"}  BY DEF KindOf, Kinds, kind
  <2> QED  BY <1>6, <1>7, <1>8, <1>9, <1>10, <1>11, <2>1 DEF Kinds, i, j

(* They take and leave as much.                                            *)
LEMMA EffectsAlike ==
  ASSUME NEW m, NEW d, NEW n, NEW e, Companions(m, d, n, e),
         NEW a1 \in DOMAIN Code(m, d), NEW a2 \in DOMAIN Code(n, e),
         NamedAlike(m, n, Code(m, d)[a1], Code(n, e)[a2])
  PROVE  StackEffect(CodeOf(m, m.functions[d])[a1]) = StackEffect(CodeOf(n, n.functions[e])[a2])
<1> DEFINE f == m.functions[d]
           g == n.functions[e]
           i == Code(m, d)[a1]
           j == Code(n, e)[a2]
           c == CodeOf(m, f)[a1]
           k == CodeOf(n, g)[a2]
           A == TableArity(m, f, i)
           B == TableArity(n, g, j)
           p == UseOf(m, i).of
           q == UseOf(n, j).of
<1>1. Equal(m, n) /\ HasCode(m, d) /\ HasCode(n, e) /\ Sound(m) /\ Sound(n)
      /\ d \in DOMAIN m.functions /\ e \in DOMAIN n.functions
  BY DEF Companions, HasCode
<1>2. Coded(f) /\ Coded(g)  BY <1>1, CodeIsAccepted
<1>3. c.op = i.op /\ c.arity = IF i.op \in OwnArity THEN i.arity ELSE A  BY <1>2, CodeInstruction DEF Code
<1>4. k.op = j.op /\ k.arity = IF j.op \in OwnArity THEN j.arity ELSE B  BY <1>2, CodeInstruction DEF Code
<1>5. /\ i.op = j.op
      /\ KindOf(i.op) # "none" => /\ NameOf(m, KindOf(i.op), p) = NameOf(n, KindOf(i.op), q)
                                  /\ i.op = "PackClosure" => i.captured = j.captured
      /\ KindOf(i.op) = "none" /\ i.op \notin LocalOps => i.arg = j.arg
  BY DEF NamedAlike
<1>6. i.op \in AsTablesSay => c.arity = k.arity
  <2> SUFFICES ASSUME i.op \in AsTablesSay PROVE c.arity = k.arity  OBVIOUS
  <2>1. CASE i.op \in OwnArity
    <3>1. KindOf(i.op) = "none" /\ i.op \notin LocalOps  BY <2>1 DEF OwnArity, KindOf, LocalOps, Locals
    <3>2. i \in CodeOfAll(m) /\ j \in CodeOfAll(n)
      BY <1>1 DEF CodeOfAll, Code, Range
    <3>3. i.arity = j.arity  BY <1>1, <1>5, <2>1, <3>1, <3>2 DEF Equal, Linked
    <3> QED  BY <1>3, <1>4, <1>5, <2>1, <3>3
  <2>2. CASE i.op = "Ret"
    <3>1. A = <<Len(m.table.function[f.handle].returns), 0>> /\ B = <<Len(n.table.function[g.handle].returns), 0>>
      BY <1>5, <2>2 DEF TableArity
    <3>2. FunctionValue(m, f) = FunctionValue(n, g)  BY CompanionsAreTwins
    <3> DEFINE x == Len(m.table.function[f.handle].returns)
               y == Len(n.table.function[g.handle].returns)
    <3>3. x = y  BY <1>1, <3>2, ValuesMeasure
    <3>4. i.op \notin OwnArity  BY <2>2 DEF OwnArity
    <3> HIDE DEF x, y
    <3> QED  BY <1>3, <1>4, <1>5, <3>1, <3>3, <3>4 DEF x, y
  <2>3. CASE i.op \in {"Call", "PackClosure"}
    <3>1. KindOf(i.op) = "function" /\ i.op \notin OwnArity  BY <2>3 DEF KindOf, OwnArity
    <3>2. p \in DOMAIN m.table.function /\ q \in DOMAIN n.table.function  BY <1>1, <1>5, <3>1, EntriesExist
    <3>3. m.table.function[p].name = n.table.function[q].name  BY <1>5, <3>1 DEF NameOf
    <3> DEFINE x == Len(m.table.function[p].parameters)
               y == Len(n.table.function[q].parameters)
               z == Len(m.table.function[p].returns)
               w == Len(n.table.function[q].returns)
    <3>4. x = y /\ z = w  BY <1>1, <3>2, <3>3, FunctionsMeasure
    <3>5. i.op = "Call" => A = <<x, z>> /\ B = <<y, w>>  BY <1>5 DEF TableArity
    <3>6. i.op = "PackClosure" => A = <<Cardinality(i.captured), 1>> /\ B = <<Cardinality(j.captured), 1>>
      BY <1>5 DEF TableArity
    <3> HIDE DEF x, y, z, w
    <3>7. A = B  BY <1>5, <2>3, <3>1, <3>4, <3>5, <3>6
    <3> QED  BY <1>3, <1>4, <1>5, <3>1, <3>7
  <2>4. CASE i.op \in {"Pack", "Unpack"}
    <3>1. KindOf(i.op) = "struct" /\ i.op \notin OwnArity  BY <2>4 DEF KindOf, OwnArity
    <3>2. p \in DOMAIN m.table.struct /\ q \in DOMAIN n.table.struct  BY <1>1, <1>5, <3>1, EntriesExist
    <3>3. StructName(m, p) = StructName(n, q)  BY <1>5, <3>1 DEF NameOf
    <3> DEFINE x == Len(m.table.struct[p].fields)
               y == Len(n.table.struct[q].fields)
    <3>4. x = y  BY <1>1, <3>2, <3>3, StructsOfOneName DEF StructsAlike, FieldsAlike
    <3>5. A = (IF i.op = "Pack" THEN <<x, 1>> ELSE <<1, x>>) /\ B = (IF i.op = "Pack" THEN <<y, 1>> ELSE <<1, y>>)
      BY <1>5, <2>4, <3>1 DEF TableArity, DefinitionOf
    <3> HIDE DEF x, y
    <3> QED  BY <1>3, <1>4, <1>5, <3>1, <3>4, <3>5
  <2>5. CASE i.op \in {"PackVariant", "UnpackVariant"}
    <3>1. KindOf(i.op) = "variant" /\ i.op \notin OwnArity  BY <2>5 DEF KindOf, OwnArity
    <3> DEFINE h == EntryOf(m, i)
               l == EntryOf(n, j)
    <3>2. /\ h.owner \in DOMAIN m.table.struct /\ h.variant \in DOMAIN m.table.struct[h.owner].variants
          /\ l.owner \in DOMAIN n.table.struct /\ l.variant \in DOMAIN n.table.struct[l.owner].variants
      BY <1>1, <1>5, <3>1, EntriesExist
    <3>3. h = m.table.variant[p] /\ l = n.table.variant[q]  BY <1>5, <3>1 DEF EntryOf
    <3> HIDE DEF h, l, i, j
    <3>4. /\ NameOf(m, "variant", p) = <<StructName(m, h.owner), m.table.struct[h.owner].variants[h.variant].name>>
          /\ NameOf(n, "variant", q) = <<StructName(n, l.owner), n.table.struct[l.owner].variants[l.variant].name>>
      BY <3>3 DEF NameOf
    <3> DEFINE s == StructName(m, h.owner)
               t == StructName(n, l.owner)
               u == m.table.struct[h.owner].variants[h.variant].name
               v == n.table.struct[l.owner].variants[l.variant].name
    <3>5. s = t /\ u = v
      <4> HIDE DEF s, t, u, v
      <4>1. <<s, u>> = <<t, v>>  BY <1>5, <3>1, <3>4 DEF s, t, u, v
      <4> QED  BY <4>1
    <3> DEFINE x == Len(m.table.struct[h.owner].variants[h.variant].fields)
               y == Len(n.table.struct[l.owner].variants[l.variant].fields)
    <3>6. x = y
      <4>1. ASSUME NEW o \in DOMAIN m.table.struct, NEW r \in DOMAIN n.table.struct,
                   NEW b \in DOMAIN m.table.struct[o].variants, NEW z \in DOMAIN n.table.struct[r].variants,
                   StructName(m, o) = StructName(n, r), m.table.struct[o].variants[b].name = n.table.struct[r].variants[z].name
            PROVE  Len(m.table.struct[o].variants[b].fields) = Len(n.table.struct[r].variants[z].fields)
        <5>1. FieldsAlike(m.table.struct[o].variants[b].fields, n.table.struct[r].variants[z].fields)
          BY <1>1, <4>1, VariantFound
        <5> QED  BY <5>1 DEF FieldsAlike
      <4>2. StructName(m, h.owner) = StructName(n, l.owner)  BY <3>5
      <4>3. m.table.struct[h.owner].variants[h.variant].name = n.table.struct[l.owner].variants[l.variant].name  BY <3>5
      <4> QED  BY <3>2, <4>1, <4>2, <4>3, Zenon
    <3>7. A = (IF i.op = "PackVariant" THEN <<x, 1>> ELSE <<1, x>>) /\ B = (IF i.op = "PackVariant" THEN <<y, 1>> ELSE <<1, y>>)
      BY <1>5, <2>5, <3>1, <3>3 DEF TableArity, DefinitionOf
    <3> HIDE DEF x, y
    <3> QED  BY <1>3, <1>4, <1>5, <3>1, <3>6, <3>7
  <2> HIDE DEF i
  <2> QED  BY <2>1, <2>2, <2>3, <2>4, <2>5 DEF AsTablesSay, OwnArity
<1> HIDE DEF i, j, c, k
<1>7. CASE i.op \in AsTablesSay
  <2>1. \A r : r.op \in AsTablesSay => StackEffect(r) = r.arity
    BY DEF StackEffect, AsTablesSay, Consumers, Producers, OneForOne, OneForTwo, PairConsumers,
       Loads, Locals, Casts, Borrows, Arithmetic, BitOps, Comparisons
  <2> QED  BY <1>3, <1>4, <1>5, <1>6, <1>7, <2>1 DEF c, k
<1>8. CASE i.op \notin AsTablesSay
  <2>1. StackEffect(c) = StackEffect(k)  BY <1>3, <1>4, <1>5, <1>8 DEF StackEffect
  <2> QED  BY <2>1 DEF c, k
<1> QED  BY <1>7, <1>8

(* An instruction beside what the tables say of it does the same.          *)
LEMMA CodeActs ==
  ASSUME NEW m, NEW d, HasCode(m, d), NEW at \in DOMAIN Code(m, d)
  PROVE  LET i == Code(m, d)[at]
             c == CodeOf(m, m.functions[d])[at]
         IN  /\ c.op = i.op /\ c.arg = i.arg /\ UseOf(m, c) = UseOf(m, i) /\ Entered(m, c) = Entered(m, i)
             /\ \A x : WorksOn(m, x, c) = WorksOn(m, x, i) /\ TypesOf(m, x, c) = TypesOf(m, x, i)
<1> DEFINE i == Code(m, d)[at]
           c == CodeOf(m, m.functions[d])[at]
<1>1. c.op = i.op /\ c.arg = i.arg /\ c.generic = i.generic
  BY CodeIsAccepted, CodeInstruction DEF Code
<1> HIDE DEF i, c
<1>2. UseOf(m, c) = UseOf(m, i)  BY <1>1 DEF UseOf
<1>3. Entered(m, c) = Entered(m, i)  BY <1>1, <1>2 DEF Entered
<1>4. ASSUME NEW x PROVE WorksOn(m, x, c) = WorksOn(m, x, i)  BY <1>1, <1>2 DEF WorksOn
<1>5. ASSUME NEW x PROVE TypesOf(m, x, c) = TypesOf(m, x, i)  BY <1>2 DEF TypesOf
<1> QED  BY <1>1, <1>2, <1>3, <1>4, <1>5 DEF i, c

(* They are so both ways.                                                  *)
LEMMA NamedBothWays ==
  ASSUME NEW m, NEW n, NEW i, NEW j, NamedAlike(m, n, i, j)
  PROVE  NamedAlike(n, m, j, i)
BY DEF NamedAlike, SignaturesAlike

(* Calls that enter a function enter companions.                           *)
LEMMA CallsEnterToo ==
  ASSUME NEW m, NEW d, NEW n, NEW e, Equal(m, n), HasCode(m, d), HasCode(n, e),
         NEW a1 \in DOMAIN Code(m, d), NEW a2 \in DOMAIN Code(n, e),
         NamedAlike(m, n, Code(m, d)[a1], Code(n, e)[a2]),
         NEW x \in Entered(m, Code(m, d)[a1])
  PROVE  /\ Entered(n, Code(n, e)[a2]) # {}
         /\ \A y \in Entered(n, Code(n, e)[a2]) : Companions(m, x, n, y)
<1> DEFINE i == Code(m, d)[a1]
           j == Code(n, e)[a2]
           p == UseOf(m, i).of
           q == UseOf(n, j).of
<1>1. i.op = "Call"  BY DEF Entered
<1>2. x \in DOMAIN m.functions /\ m.functions[x].handle = p /\ ~ IsNative(m.functions[x])
  BY <1>1 DEF Entered, DefinitionsNamed
<1>3. KindOf(i.op) = "function"  BY <1>1 DEF KindOf
<1>4. j.op = "Call" /\ NameOf(m, "function", p) = NameOf(n, "function", q)  BY <1>1, <1>3 DEF NamedAlike
<1>5. p \in DOMAIN m.table.function /\ q \in DOMAIN n.table.function  BY <1>1, <1>3, <1>4, EntriesExist
<1>6. m.table.function[p].name = n.table.function[q].name  BY <1>4 DEF NameOf
<1>7. Entered(n, j) = {y \in DefinitionsNamed(n, q) : ~ IsNative(n.functions[y])}  BY <1>4 DEF Entered
<1> HIDE DEF i, j, p, q
<1>8. FunctionName(m, m.functions[x]) = n.table.function[q].name  BY <1>2, <1>6 DEF FunctionName
<1>9. PICK y \in DOMAIN n.functions : /\ n.functions[y].handle = q
                                      /\ FunctionValue(m, m.functions[x]) = FunctionValue(n, n.functions[y])
  BY <1>2, <1>5, <1>8, FunctionsAreEqual
<1>10. ~ IsNative(n.functions[y])
  <2>1. Sound(m) /\ Sound(n)  BY DEF Equal
  <2> QED  BY <1>2, <1>9, <2>1, ValuesMeasure
<1>11. y \in Entered(n, j)  BY <1>7, <1>9, <1>10 DEF DefinitionsNamed
<1>12. ASSUME NEW z \in Entered(n, j) PROVE Companions(m, x, n, z)
  <2>1. z \in DOMAIN n.functions /\ n.functions[z].handle = q /\ ~ IsNative(n.functions[z])
    BY <1>7 DEF DefinitionsNamed
  <2>2. FunctionName(n, n.functions[z]) = n.table.function[q].name  BY <2>1 DEF FunctionName
  <2> QED  BY <1>2, <1>8, <2>1, <2>2 DEF Companions, HasCode, Equal
<1> QED  BY <1>11, <1>12 DEF j

(* Such calls enter companions, or neither enters a function.              *)
LEMMA CallsAlike ==
  ASSUME NEW m, NEW d, NEW n, NEW e, Companions(m, d, n, e),
         NEW a1 \in DOMAIN Code(m, d), NEW a2 \in DOMAIN Code(n, e),
         NamedAlike(m, n, Code(m, d)[a1], Code(n, e)[a2])
  PROVE  LET x == CodeOf(m, m.functions[d])[a1]
             y == CodeOf(n, n.functions[e])[a2]
         IN  /\ Entered(m, x) = {} <=> Entered(n, y) = {}
             /\ \A v \in Entered(m, x), w \in Entered(n, y) : Companions(m, v, n, w)
<1>1. Equal(m, n) /\ Equal(n, m) /\ HasCode(m, d) /\ HasCode(n, e)  BY EqualBothWays DEF Companions
<1>2. /\ Entered(m, CodeOf(m, m.functions[d])[a1]) = Entered(m, Code(m, d)[a1])
      /\ Entered(n, CodeOf(n, n.functions[e])[a2]) = Entered(n, Code(n, e)[a2])
  BY <1>1, CodeActs
<1>3. \A v \in Entered(m, Code(m, d)[a1]) :
        /\ Entered(n, Code(n, e)[a2]) # {}
        /\ \A w \in Entered(n, Code(n, e)[a2]) : Companions(m, v, n, w)
  BY <1>1, CallsEnterToo
<1>4. \A w \in Entered(n, Code(n, e)[a2]) : Entered(m, Code(m, d)[a1]) # {}
  BY <1>1, CallsEnterToo, NamedBothWays
<1> QED  BY <1>2, <1>3, <1>4
-----------------------------------------------------------------------------
(* Turns of instructions are numbers, and no two of them one.              *)
LEMMA TurnsDiffer ==
  ASSUME NEW m, NEW d, HasCode(m, d)
  PROVE  /\ \A at \in DOMAIN Code(m, d) : TurnOf(m.functions[d], Order(m, d), at) \in Nat
         /\ \A a, b \in DOMAIN Code(m, d) :
              TurnOf(m.functions[d], Order(m, d), a) = TurnOf(m.functions[d], Order(m, d), b) => a = b
<1> DEFINE f == m.functions[d]
           order == Order(m, d)
           size == Size(Code(m, d))
           place(at) == Position(order, BlockOf(Flow(m, d), at))
<1>1. size \in Nat /\ DOMAIN Code(m, d) = 0 .. size - 1 /\ Accepted(Flow(m, d)) /\ DOMAIN Flow(m, d) = DOMAIN Code(m, d)
  BY CodeIsCounted
<1>2. FlowOf(f.code) = Flow(m, d)  BY SameFlow, CodeIsAccepted DEF Flow
<1>3. ASSUME NEW at \in DOMAIN Code(m, d)
      PROVE  place(at) \in Nat /\ TurnOf(f, order, at) = place(at) * size + at
  <2>1. BlockOf(Flow(m, d), at) \in BlockIds(Flow(m, d))
    <3>1. at \in Nat  BY <1>1
    <3> QED  BY <1>1, <3>1, BlockOfIsABlock
  <2>2. IsOrder(order, BlockIds(Flow(m, d)))  BY OrderFits DEF Order, Flow
  <2>3. place(at) \in DOMAIN order  BY <2>1, <2>2, PositionsFit
  <2>4. DOMAIN order = 1 .. Len(order) /\ Len(order) \in Nat  BY <2>2, LenProperties DEF IsOrder
  <2>5. TurnOf(f, order, at) = place(at) * size + at  BY <1>2 DEF TurnOf, Code
  <2> HIDE DEF place
  <2> QED  BY <2>3, <2>4, <2>5
<1> HIDE DEF place, size
<1>4. ASSUME NEW at \in DOMAIN Code(m, d) PROVE TurnOf(f, order, at) \in Nat
  <2> DEFINE u == place(at)
  <2>1. u \in Nat /\ TurnOf(f, order, at) = u * size + at /\ at \in Nat  BY <1>1, <1>3
  <2> HIDE DEF u
  <2> QED  BY <1>1, <2>1
<1>5. ASSUME NEW a \in DOMAIN Code(m, d), NEW b \in DOMAIN Code(m, d), TurnOf(f, order, a) = TurnOf(f, order, b) PROVE a = b
  <2>1. place(a) \in Nat /\ place(b) \in Nat /\ place(a) * size + a = place(b) * size + b  BY <1>3, <1>5
  <2>2. a \in 0 .. size - 1 /\ b \in 0 .. size - 1  BY <1>1
  <2> QED  BY <1>1, <2>1, <2>2, SameTurn
<1> QED  BY <1>4, <1>5

(* The first turns of locals are numbers, and no two of them one.          *)
LEMMA FirstTurnsDiffer ==
  ASSUME NEW m, NEW d, HasCode(m, d)
  PROVE  LET own == OwnLocals(m, m.functions[d])
         IN  /\ IsFiniteSet(own) /\ DOMAIN Turns(m, d) = own
             /\ \A l \in own : Turns(m, d)[l] \in Nat
             /\ \A k, l \in own : Turns(m, d)[k] = Turns(m, d)[l] => k = l
<1> DEFINE f == m.functions[d]
           own == OwnLocals(m, f)
           turn(at) == TurnOf(f, Order(m, d), at)
           T(l) == {turn(at) : at \in OnLocal(f, l)}
<1>1. IsFiniteSet(own)
  <2>1. Len(LocalTypes(m, f)) \in Nat /\ Params(m, d) \in Nat  BY LocalsAreCounted DEF Params
  <2>2. IsFiniteSet(Params(m, d) .. Len(LocalTypes(m, f)) - 1)  BY <2>1, FS_Interval
  <2>3. own \subseteq Params(m, d) .. Len(LocalTypes(m, f)) - 1  BY DEF OwnLocals, Params
  <2> QED  BY <2>2, <2>3, FS_Subset
<1>2. Turns(m, d) = [l \in own |-> Min(T(l))]  BY DEF Turns, TurnsIn, FirstTurns, Order
<1> HIDE DEF turn
<1>3. ASSUME NEW l \in own PROVE \E at \in OnLocal(f, l) : Min(T(l)) = turn(at) /\ turn(at) \in Nat
  <2>1. OnLocal(f, l) # {}  BY DEF OwnLocals
  <2>2. T(l) # {}  BY <2>1
  <2>3. \A at \in OnLocal(f, l) : turn(at) \in Nat  BY TurnsDiffer DEF OnLocal, Code, turn
  <2>4. T(l) \in SUBSET Nat  BY <2>3
  <2> HIDE DEF T
  <2>5. \E x \in T(l) : \A y \in T(l) : x <= y  BY <2>2, <2>4, LeastExists
  <2>6. Min(T(l)) \in T(l)  BY <2>5 DEF Min
  <2> QED  BY <2>3, <2>6 DEF T
<1> HIDE DEF T
<1>4. \A l \in own : Turns(m, d)[l] \in Nat  BY <1>2, <1>3
<1>5. ASSUME NEW k \in own, NEW l \in own, Turns(m, d)[k] = Turns(m, d)[l] PROVE k = l
  <2>1. PICK a \in OnLocal(f, k) : Min(T(k)) = turn(a)  BY <1>3
  <2>2. PICK b \in OnLocal(f, l) : Min(T(l)) = turn(b)  BY <1>3
  <2>3. turn(a) = turn(b)  BY <1>2, <1>5, <2>1, <2>2
  <2>4. a \in DOMAIN Code(m, d) /\ b \in DOMAIN Code(m, d) /\ f.code[a].arg = k /\ f.code[b].arg = l
    BY <2>1, <2>2 DEF OnLocal, Code
  <2>5. a = b  BY <2>3, <2>4, TurnsDiffer DEF turn
  <2> QED  BY <2>4, <2>5
<1>6. DOMAIN Turns(m, d) = own  BY <1>2
<1> HIDE DEF own
<1> QED  BY <1>1, <1>4, <1>5, <1>6 DEF own

(* A name stands for one local only.                                       *)
LEMMA LocalsNamed ==
  ASSUME NEW m, NEW d, HasCode(m, d), NEW k \in Slots(m, d), NEW l \in Slots(m, d), Local(m, d, k) = Local(m, d, l)
  PROVE  k = l
<1> DEFINE f == m.functions[d]
           own == OwnLocals(m, f)
           turns == Turns(m, d)
           before(x) == {z \in DOMAIN turns : turns[z] < turns[x]}
           count(x) == Cardinality(before(x))
           t(x) == typeName(m, LocalTypes(m, f)[x + 1])
           P == Params(m, d)
<1>1. \A x : Local(m, d, x) = IF x < P THEN <<"arg", x, t(x)>> ELSE <<"local", count(x), t(x)>>
  BY DEF Local, LocalName, Turns, Params
<1>2. P \in Nat  BY LocalsAreCounted DEF Params
<1>3. own \subseteq P .. Len(LocalTypes(m, f)) - 1 /\ Len(LocalTypes(m, f)) \in Nat
  BY LocalsAreCounted DEF OwnLocals, Params
<1>4. /\ IsFiniteSet(own) /\ DOMAIN turns = own /\ \A x \in own : turns[x] \in Nat
      /\ \A x, y \in own : turns[x] = turns[y] => x = y
  BY FirstTurnsDiffer
<1>5. k \in (0 .. P - 1) \cup own /\ l \in (0 .. P - 1) \cup own  BY DEF Slots
<1> HIDE DEF t, own, P, f, turns
<1>6. ASSUME NEW x \in own, NEW y \in own, turns[x] < turns[y] PROVE count(x) < count(y)
  <2>1. before(x) \in SUBSET before(y)
    <3>1. ASSUME NEW z \in before(x) PROVE z \in before(y)
      <4>1. turns[z] \in Nat /\ turns[x] \in Nat /\ turns[y] \in Nat /\ turns[z] < turns[x]  BY <1>4
      <4>2. turns[z] < turns[y]  BY <1>6, <4>1
      <4> QED  BY <4>2
    <3> QED  BY <3>1
  <2>2. x \in before(y) /\ x \notin before(x)
    <3>1. turns[x] \in Nat  BY <1>4
    <3> QED  BY <1>4, <1>6, <3>1
  <2>3. before(y) \in SUBSET own  BY <1>4
  <2> HIDE DEF before
  <2>4. IsFiniteSet(before(y))  BY <1>4, <2>3, FS_Subset
  <2>5. IsFiniteSet(before(x)) /\ count(x) <= count(y) /\ count(x) # count(y)
    <3>1. IsFiniteSet(before(x)) /\ Cardinality(before(x)) <= Cardinality(before(y))
          /\ (Cardinality(before(y)) = Cardinality(before(x)) => before(y) = before(x))
      BY <2>1, <2>4, FS_Subset
    <3> QED  BY <2>2, <3>1
  <2>6. count(x) \in Nat /\ count(y) \in Nat  BY <2>4, <2>5, FS_CardinalityType
  <2> HIDE DEF count
  <2> QED  BY <2>5, <2>6
<1>7. ASSUME NEW x \in own, NEW y \in own, count(x) = count(y) PROVE x = y
  <2>1. turns[x] \in Nat /\ turns[y] \in Nat  BY <1>4
  <2>2. IsFiniteSet(before(x)) /\ IsFiniteSet(before(y))
    <3>1. before(x) \in SUBSET own /\ before(y) \in SUBSET own  BY <1>4
    <3> HIDE DEF before
    <3> QED  BY <1>4, <3>1, FS_Subset
  <2>3. count(x) \in Nat /\ count(y) \in Nat  BY <2>2, FS_CardinalityType
  <2> HIDE DEF count
  <2>4. ~ turns[x] < turns[y] /\ ~ turns[y] < turns[x]  BY <1>6, <1>7, <2>3
  <2>5. turns[x] = turns[y]  BY <2>1, <2>4
  <2> QED  BY <1>4, <2>5
<1> HIDE DEF count
<1>8. (k < P <=> k \in 0 .. P - 1) /\ (l < P <=> l \in 0 .. P - 1) /\ (~ k < P => k \in own) /\ (~ l < P => l \in own)
  BY <1>2, <1>3, <1>5
<1>9. CASE k < P /\ l < P
  <2>1. <<"arg", k, t(k)>> = <<"arg", l, t(l)>>  BY <1>1, <1>9
  <2> QED  BY <2>1
<1>10. CASE ~ k < P /\ ~ l < P
  <2>1. <<"local", count(k), t(k)>> = <<"local", count(l), t(l)>>  BY <1>1, <1>10
  <2>2. count(k) = count(l)  BY <2>1
  <2> QED  BY <1>7, <1>8, <1>10, <2>2
<1>11. CASE k < P /\ ~ l < P
  <2>1. <<"arg", k, t(k)>> = <<"local", count(l), t(l)>>  BY <1>1, <1>11
  <2> QED  BY <2>1
<1>12. CASE ~ k < P /\ l < P
  <2>1. <<"local", count(k), t(k)>> = <<"arg", l, t(l)>>  BY <1>1, <1>12
  <2> QED  BY <2>1
<1> QED  BY <1>9, <1>10, <1>11, <1>12
-----------------------------------------------------------------------------
(* It is what the graph says.                                              *)
LEMMA FlowFollows ==
  ASSUME NEW m, NEW d, HasCode(m, d), NEW at \in DOMAIN Code(m, d), NEW answer
  PROVE  Goes(Flow(m, d), at, answer) = Follows(m, d, at, answer)
<1> DEFINE op == Code(m, d)[at].op
           w == Flow(m, d)
<1>1. /\ Branches(op) => w[at].op = op /\ w[at].target = Code(m, d)[at].arg
      /\ Branches(w[at].op) => w[at].op = op
  BY FlowOps
<1> HIDE DEF op, w
<1>2. Branches(op) <=> op \in {"BrTrue", "BrFalse", "Branch"}  BY DEF Branches, Conditional
<1>3. CASE Branches(op)
  <2>1. w[at].op = op /\ w[at].target = Code(m, d)[at].arg  BY <1>1, <1>3
  <2> QED  BY <2>1 DEF Goes, Follows, Conditional, Tests, op, w
<1>4. CASE ~ Branches(op)
  <2>1. ~ Branches(w[at].op)  BY <1>1, <1>4
  <2>2. w[at].op # "Branch" /\ ~ Conditional(w[at].op)  BY <2>1 DEF Branches
  <2>3. Goes(w, at, answer) = at + 1  BY <2>2 DEF Goes
  <2>4. Follows(m, d, at, answer) = at + 1  BY <1>2, <1>4 DEF Follows, Tests, op
  <2> QED  BY <2>3, <2>4 DEF w
<1> QED  BY <1>3, <1>4

(* The locals that instructions are on have names.                         *)
LEMMA UsedLocalsAreNamed ==
  ASSUME NEW m, NEW d, HasCode(m, d), NEW at \in DOMAIN Code(m, d), Code(m, d)[at].op \in LocalOps
  PROVE  Code(m, d)[at].arg \in Slots(m, d) /\ Code(m, d)[at].arg \in DOMAIN Body(m, m.functions[d]).locals
<1> DEFINE f == m.functions[d]
           l == Code(m, d)[at].arg
           n == Len(LocalTypes(m, f))
<1>1. InstructionOK(m, f, f.code[at]) /\ f.code[at].arg \in Nat
  BY CodeIsAccepted DEF CodeOK, Coded, Range, Code
<1>2. l + 1 \in DOMAIN LocalTypes(m, f)  BY <1>1 DEF InstructionOK, LocalOps, Locals, Code
<1>3. l \in Nat  BY <1>1 DEF Code
<1>4. n \in Nat /\ DOMAIN LocalTypes(m, f) = 1 .. n /\ DOMAIN Body(m, f).locals = 0 .. n - 1 /\ Params(m, d) \in 0 .. n
  BY LocalsAreCounted DEF Params
<1>5. OnLocal(f, l) # {}  BY DEF OnLocal, Code
<1> HIDE DEF l, n
<1>6. l \in 0 .. n - 1  BY <1>2, <1>3, <1>4
<1>7. ~ l < Params(m, d) => l \in Params(m, d) .. n - 1  BY <1>4, <1>6
<1>8. l < Params(m, d) => l \in 0 .. Params(m, d) - 1  BY <1>3, <1>4
<1>9. l \in Slots(m, d)  BY <1>5, <1>7, <1>8 DEF Slots, OwnLocals, Params, n
<1> QED  BY <1>4, <1>6, <1>9 DEF l

(* Instructions that answer one another are such.                          *)
LEMMA PartnersGoOn ==
  ASSUME NEW m, NEW d, NEW n, NEW e, Companions(m, d, n, e), NEW a1, NEW a2, Matched(m, d, n, e, a1, a2)
  PROVE  Partners(m, d, n, e, a1, a2)
<1>1. GoesOnLike(m, d, n, e, a1, a2)  BY CompanionsAreTwins, MatchedGoOn
<1>2. a1 \in DOMAIN Code(m, d) /\ a2 \in DOMAIN Code(n, e) /\ HasCode(m, d) /\ HasCode(n, e)
  BY <1>1 DEF GoesOnLike, Companions
<1> DEFINE op == Code(m, d)[a1].op
           q == Code(n, e)[a2].op
           v == Flow(m, d)[a1].op
           w == Flow(n, e)[a2].op
<1>3. /\ (Branches(op) => v = op) /\ (Branches(v) => v = op)
      /\ (v \in Fallen <=> op \in {"Ret", "Abort", "AbortMsg"})
  BY <1>2, FlowOps
<1>4. (Branches(q) => w = q) /\ (Branches(w) => w = q)
  BY <1>2, FlowOps
<1>5. \/ Called(m, d, a1) = Called(n, e, a2) /\ ~ Branches(v)
      \/ v = "Branch" /\ w = "Branch"
      \/ Conditional(v) /\ Conditional(w)
  BY <1>1 DEF GoesOnLike
<1>6. v \notin Fallen => \A answer \in BOOLEAN :
        SamePlace(m, d, n, e, Goes(Flow(m, d), a1, answer), Goes(Flow(n, e), a2, answer))
  BY <1>1 DEF GoesOnLike
<1>7. op \notin {"Ret", "Abort", "AbortMsg"} => \A answer \in BOOLEAN :
        SamePlace(m, d, n, e, Follows(m, d, a1, answer), Follows(n, e, a2, answer))
  <2>1. \A answer : /\ Goes(Flow(m, d), a1, answer) = Follows(m, d, a1, answer)
                    /\ Goes(Flow(n, e), a2, answer) = Follows(n, e, a2, answer)
    BY <1>2, FlowFollows
  <2> QED  BY <1>3, <1>6, <2>1
<1>8. \/ op \notin {"Branch", "BrTrue", "BrFalse"} /\ Called(m, d, a1) = Called(n, e, a2)
      \/ op = "Branch" /\ q = "Branch"
      \/ op \in Tests /\ q \in Tests
  <2> HIDE DEF op, q, v, w
  <2> QED  BY <1>3, <1>4, <1>5 DEF Branches, Conditional, Tests
<1> QED  BY <1>2, <1>7, <1>8 DEF Partners
-----------------------------------------------------------------------------
(* What a silent instruction does to a frame.                              *)
LEMMA SilentParts ==
  ASSUME NEW frame, IsFrame(frame), NEW i
  PROVE  LET x == AfterSilent(frame, i)
         IN  /\ x.function = frame.function /\ x.types = frame.types
             /\ x.pc = IF i.op = "Branch" THEN i.arg ELSE frame.pc + 1
             /\ x.locals = IF i.op = "StLoc" THEN [frame.locals EXCEPT ![i.arg] = Last(frame.stack)] ELSE frame.locals
             /\ i.op \in {"CopyLoc", "MoveLoc"} => x.stack = Append(frame.stack, frame.locals[i.arg])
             /\ i.op = "LdConst" => x.stack = Append(frame.stack, <<"constant", i.arg>>)
             /\ i.op \in {"StLoc", "Pop"} => x.stack = Front(frame.stack)
             /\ i.op \in {"Nop", "Branch"} => x.stack = frame.stack
<1> DEFINE P == IF i.op = "Branch" THEN i.arg ELSE frame.pc + 1
           L == IF i.op = "StLoc" THEN [frame.locals EXCEPT ![i.arg] = Last(frame.stack)] ELSE frame.locals
           K == CASE i.op \in {"CopyLoc", "MoveLoc"} -> Append(frame.stack, frame.locals[i.arg])
                  [] i.op = "LdConst" -> Append(frame.stack, <<"constant", i.arg>>)
                  [] i.op \in {"StLoc", "Pop"} -> Front(frame.stack)
                  [] OTHER -> frame.stack
           x == AfterSilent(frame, i)
<1>1. x = [frame EXCEPT !.pc = P, !.locals = L, !.stack = K]  BY DEF AfterSilent
<1>2. /\ i.op \in {"CopyLoc", "MoveLoc"} => K = Append(frame.stack, frame.locals[i.arg])
      /\ i.op = "LdConst" => K = Append(frame.stack, <<"constant", i.arg>>)
      /\ i.op \in {"StLoc", "Pop"} => K = Front(frame.stack)
      /\ i.op \in {"Nop", "Branch"} => K = frame.stack
  <2> DEFINE a == Append(frame.stack, frame.locals[i.arg])
             b == Append(frame.stack, <<"constant", i.arg>>)
             c == Front(frame.stack)
  <2> HIDE DEF a, b, c
  <2>1. K = CASE i.op \in {"CopyLoc", "MoveLoc"} -> a [] i.op = "LdConst" -> b [] i.op \in {"StLoc", "Pop"} -> c
              [] OTHER -> frame.stack
    BY DEF a, b, c
  <2> HIDE DEF K
  <2>2. /\ i.op \in {"CopyLoc", "MoveLoc"} => K = a
        /\ i.op = "LdConst" => K = b
        /\ i.op \in {"StLoc", "Pop"} => K = c
        /\ i.op \in {"Nop", "Branch"} => K = frame.stack
    BY <2>1
  <2> QED  BY <2>2 DEF a, b, c
<1> HIDE DEF P, L, K, x
<1>3. x.function = frame.function /\ x.types = frame.types /\ x.pc = P /\ x.locals = L /\ x.stack = K
  BY <1>1 DEF IsFrame
<1> QED  BY <1>2, <1>3 DEF P, L, x

(* Locals that have names exist.                                           *)
LEMMA NamedLocalsExist ==
  ASSUME NEW m, NEW d, HasCode(m, d)
  PROVE  Slots(m, d) \subseteq DOMAIN Body(m, m.functions[d]).locals
<1> DEFINE n == Len(LocalTypes(m, m.functions[d]))
<1>1. n \in Nat /\ Params(m, d) \in 0 .. n /\ DOMAIN Body(m, m.functions[d]).locals = 0 .. n - 1
  BY LocalsAreCounted DEF Params
<1>2. OwnLocals(m, m.functions[d]) \subseteq Params(m, d) .. n - 1  BY DEF OwnLocals, Params
<1> HIDE DEF n
<1>3. Params(m, d) .. n - 1 \subseteq 0 .. n - 1 /\ 0 .. Params(m, d) - 1 \subseteq 0 .. n - 1  BY <1>1
<1> QED  BY <1>1, <1>2, <1>3 DEF Slots

(* What a local of one name gets, all of them get.                         *)
LEMMA StoresAlike ==
  ASSUME NEW m, NEW d, NEW n, NEW e, HasCode(m, d), HasCode(n, e), NEW v, NEW w, LocalsAlike(m, d, n, e, v, w),
         Slots(m, d) \subseteq DOMAIN v, Slots(n, e) \subseteq DOMAIN w,
         NEW k \in Slots(m, d), NEW l \in Slots(n, e), Local(m, d, k) = Local(n, e, l), NEW value
  PROVE  LocalsAlike(m, d, n, e, [v EXCEPT ![k] = value], [w EXCEPT ![l] = value])
<1> DEFINE v1 == [v EXCEPT ![k] = value]
           w1 == [w EXCEPT ![l] = value]
<1>1. ASSUME NEW p \in Slots(m, d), NEW q \in Slots(n, e), Local(m, d, p) = Local(n, e, q)
      PROVE  v1[p] = w1[q]
  <2>0. p \in DOMAIN v /\ q \in DOMAIN w  OBVIOUS
  <2>1. p = k <=> q = l  BY <1>1, LocalsNamed
  <2>2. CASE p = k
    <3>1. v1[p] = value /\ w1[q] = value  BY <2>0, <2>1, <2>2
    <3> QED  BY <3>1
  <2>3. CASE p # k
    <3>1. v1[p] = v[p]  BY <2>0, <2>3
    <3>2. w1[q] = w[q]  BY <2>0, <2>1, <2>3
    <3>3. v[p] = w[q]  BY <1>1 DEF LocalsAlike
    <3> QED  BY <3>1, <3>2, <3>3
  <2> QED  BY <2>2, <2>3
<1> HIDE DEF v1, w1
<1>2. LocalsAlike(m, d, n, e, v1, w1)  BY <1>1 DEF LocalsAlike
<1> QED  BY <1>2 DEF v1, w1

(* Where a call is.                                                        *)
LEMMA ReadyPlace ==
  ASSUME NEW m, NEW x, NEW owed, Ready(m, x, owed)
  PROVE  LET d == x.function
             i == Code(m, d)[x.pc]
             c == InstructionAt(m, x)
         IN  /\ HasCode(m, d) /\ IsFrame(x) /\ x.pc \in DOMAIN Code(m, d)
             /\ c = CodeOf(m, m.functions[d])[x.pc] /\ c.op = i.op /\ c.arg = i.arg
             /\ Slots(m, d) \subseteq DOMAIN x.locals
<1>1. HasCode(m, x.function) /\ IsFrame(x) /\ x.pc \in Spots(m, m.functions[x.function])
      /\ DOMAIN x.locals = DOMAIN Body(m, m.functions[x.function]).locals
  BY DEF Ready
<1>2. x.pc \in DOMAIN Code(m, x.function)  BY <1>1 DEF Spots, Code
<1>3. InstructionAt(m, x) = CodeOf(m, m.functions[x.function])[x.pc]  BY DEF InstructionAt, FunctionOf, CodeOf
<1> QED  BY <1>1, <1>2, <1>3, CodeActs, NamedLocalsExist

(* One is silent if the other is, and then they go on to places that       *)
(* answer one another.                                                     *)
LEMMA SilentAlike ==
  ASSUME NEW m, NEW n, NEW x, NEW y, Ready(m, x, 0), Ready(n, y, 0), Met(m, n, x, y)
  PROVE  /\ InstructionAt(m, x).op \in Silent <=> InstructionAt(n, y).op \in Silent
         /\ InstructionAt(m, x).op \in Silent =>
              Paired(m, n, AfterSilent(x, InstructionAt(m, x)), AfterSilent(y, InstructionAt(n, y)))
<1> DEFINE d == x.function
           e == y.function
           i == Code(m, d)[x.pc]
           j == Code(n, e)[y.pc]
           a == InstructionAt(m, x)
           b == InstructionAt(n, y)
           x1 == AfterSilent(x, a)
           y1 == AfterSilent(y, b)
<1>1. /\ HasCode(m, d) /\ IsFrame(x) /\ x.pc \in DOMAIN Code(m, d) /\ a.op = i.op /\ a.arg = i.arg
      /\ Slots(m, d) \subseteq DOMAIN x.locals
  BY ReadyPlace
<1>2. /\ HasCode(n, e) /\ IsFrame(y) /\ y.pc \in DOMAIN Code(n, e) /\ b.op = j.op /\ b.arg = j.arg
      /\ Slots(n, e) \subseteq DOMAIN y.locals
  BY ReadyPlace
<1>3. /\ Companions(m, d, n, e) /\ Matched(m, d, n, e, x.pc, y.pc) /\ x.types = y.types /\ x.stack = y.stack
      /\ LocalsAlike(m, d, n, e, x.locals, y.locals)
  BY DEF Met, FramesAlike
<1>4. Partners(m, d, n, e, x.pc, y.pc)  BY <1>3, PartnersGoOn
<1>5. \/ /\ i.op \notin {"Branch", "BrTrue", "BrFalse"} /\ i.op = j.op
         /\ i.op \notin LocalOps /\ KindOf(i.op) = "none" => i.arg = j.arg
         /\ i.op \in LocalOps => Local(m, d, i.arg) = Local(n, e, j.arg)
      \/ i.op = "Branch" /\ j.op = "Branch"
      \/ i.op \in Tests /\ j.op \in Tests
  <2>1. Called(m, d, x.pc) = Called(n, e, y.pc) =>
          NamedAlike(m, n, i, j) /\ (i.op \in LocalOps => Local(m, d, i.arg) = Local(n, e, j.arg))
    BY CalledAlike
  <2> QED  BY <1>4, <2>1 DEF Partners, NamedAlike
<1>6. i.op \in LocalOps => i.arg \in Slots(m, d)  BY <1>1, UsedLocalsAreNamed
<1>7. j.op \in LocalOps => j.arg \in Slots(n, e)  BY <1>2, UsedLocalsAreNamed
<1>8. /\ x1.function = d /\ x1.types = x.types
      /\ x1.pc = IF a.op = "Branch" THEN a.arg ELSE x.pc + 1
      /\ x1.locals = IF a.op = "StLoc" THEN [x.locals EXCEPT ![a.arg] = Last(x.stack)] ELSE x.locals
      /\ a.op \in {"CopyLoc", "MoveLoc"} => x1.stack = Append(x.stack, x.locals[a.arg])
      /\ a.op = "LdConst" => x1.stack = Append(x.stack, <<"constant", a.arg>>)
      /\ a.op \in {"StLoc", "Pop"} => x1.stack = Front(x.stack)
      /\ a.op \in {"Nop", "Branch"} => x1.stack = x.stack
  BY <1>1, SilentParts
<1>9. /\ y1.function = e /\ y1.types = y.types
      /\ y1.pc = IF b.op = "Branch" THEN b.arg ELSE y.pc + 1
      /\ y1.locals = IF b.op = "StLoc" THEN [y.locals EXCEPT ![b.arg] = Last(y.stack)] ELSE y.locals
      /\ b.op \in {"CopyLoc", "MoveLoc"} => y1.stack = Append(y.stack, y.locals[b.arg])
      /\ b.op = "LdConst" => y1.stack = Append(y.stack, <<"constant", b.arg>>)
      /\ b.op \in {"StLoc", "Pop"} => y1.stack = Front(y.stack)
      /\ b.op \in {"Nop", "Branch"} => y1.stack = y.stack
  BY <1>2, SilentParts
<1>10. i.op \in Silent => \A answer \in BOOLEAN : SamePlace(m, d, n, e, Follows(m, d, x.pc, answer), Follows(n, e, y.pc, answer))
  BY <1>4 DEF Partners, Silent
<1>11. i.op \in Silent => /\ Follows(m, d, x.pc, TRUE) = IF i.op = "Branch" THEN i.arg ELSE x.pc + 1
  BY DEF Follows, Silent, Tests
<1>12. j.op \in Silent => /\ Follows(n, e, y.pc, TRUE) = IF j.op = "Branch" THEN j.arg ELSE y.pc + 1
  BY DEF Follows, Silent, Tests
<1> HIDE DEF i, j, a, b, x1, y1, d, e
<1>13. i.op \in Silent <=> j.op \in Silent  BY <1>5 DEF Silent, Tests
<1>14. ASSUME i.op \in Silent PROVE Paired(m, n, x1, y1)
  <2>1. i.op = j.op /\ j.op \in Silent  BY <1>5, <1>14 DEF Silent, Tests
  <2>2. SamePlace(m, d, n, e, x1.pc, y1.pc)
    <3>1. SamePlace(m, d, n, e, Follows(m, d, x.pc, TRUE), Follows(n, e, y.pc, TRUE))  BY <1>10, <1>14
    <3>2. x1.pc = Follows(m, d, x.pc, TRUE)  BY <1>1, <1>8, <1>11, <1>14
    <3>3. y1.pc = Follows(n, e, y.pc, TRUE)  BY <1>2, <1>9, <1>12, <2>1
    <3> QED  BY <3>1, <3>2, <3>3
  <2>3. i.op \in {"CopyLoc", "MoveLoc", "StLoc"} =>
          /\ i.arg \in Slots(m, d) /\ j.arg \in Slots(n, e) /\ Local(m, d, i.arg) = Local(n, e, j.arg)
    BY <1>5, <1>6, <1>7, <2>1 DEF LocalOps, Locals, Tests
  <2>4. x1.stack = y1.stack
    <3>1. CASE i.op \in {"CopyLoc", "MoveLoc"}
      <4>1. x.locals[i.arg] = y.locals[j.arg]  BY <1>3, <2>3, <3>1 DEF LocalsAlike
      <4> QED  BY <1>1, <1>2, <1>3, <1>8, <1>9, <2>1, <3>1, <4>1
    <3>2. CASE i.op = "LdConst"
      <4>1. i.arg = j.arg  BY <1>5, <3>2 DEF KindOf, LocalOps, Locals, Tests
      <4> QED  BY <1>1, <1>2, <1>3, <1>8, <1>9, <2>1, <3>2, <4>1
    <3>3. CASE i.op \in {"StLoc", "Pop", "Nop", "Branch"}
      BY <1>1, <1>2, <1>3, <1>8, <1>9, <2>1, <3>3
    <3> QED  BY <1>14, <3>1, <3>2, <3>3 DEF Silent
  <2>5. LocalsAlike(m, d, n, e, x1.locals, y1.locals)
    <3>1. CASE i.op = "StLoc"
      <4>1. x1.locals = [x.locals EXCEPT ![i.arg] = Last(x.stack)] /\ y1.locals = [y.locals EXCEPT ![j.arg] = Last(x.stack)]
        BY <1>1, <1>2, <1>3, <1>8, <1>9, <2>1, <3>1
      <4>2. LocalsAlike(m, d, n, e, [x.locals EXCEPT ![i.arg] = Last(x.stack)], [y.locals EXCEPT ![j.arg] = Last(x.stack)])
        BY <1>1, <1>2, <1>3, <2>3, <3>1, StoresAlike
      <4> QED  BY <4>1, <4>2
    <3>2. CASE i.op # "StLoc"
      <4>1. x1.locals = x.locals /\ y1.locals = y.locals  BY <1>1, <1>2, <1>8, <1>9, <2>1, <3>2
      <4> QED  BY <1>3, <4>1
    <3> QED  BY <3>1, <3>2
  <2> QED  BY <1>3, <1>8, <1>9, <2>2, <2>4, <2>5 DEF Paired, FramesAlike
<1> QED  BY <1>1, <1>2, <1>13, <1>14 DEF a, b, x1, y1
-----------------------------------------------------------------------------
(* The frames that a call goes through over silent instructions, one after *)
(* the other.                                                              *)
LEMMA ChainExists ==
  ASSUME NEW m, NEW frame, Ready(m, frame, 0)
  PROVE  \E r : Chain(m, frame, r)
<1> DEFINE d == frame.function
           n == DOMAIN Body(m, m.functions[d]).locals
           X == {x \in [function : {d}, types : {frame.types}, pc : Nat, stack : Seq(Values),
                        locals : [n -> Values \cup {NoValue}]] : Ready(m, x, 0)}
           step == [x \in X |-> GoneOn(m, x)]
<1>1. HasCode(m, d) /\ IsFrame(frame)  BY DEF Ready
<1>2. \A at \in DOMAIN m.functions[d].code : at \in Nat
  BY <1>1, PlaceInBlock
<1>3. \A x : Ready(m, x, 0) /\ x.function = d /\ x.types = frame.types => x \in X
  <2> TAKE x
  <2> HAVE Ready(m, x, 0) /\ x.function = d /\ x.types = frame.types
  <2>1. x.pc \in Nat  BY <1>2 DEF Ready, Spots
  <2>2. x.stack \in Seq(Values) /\ x.locals \in [n -> Values \cup {NoValue}] /\ IsFrame(x)  BY DEF Ready
  <2> HIDE DEF n, d
  <2>3. x \in [function : {d}, types : {frame.types}, pc : Nat, stack : Seq(Values),
               locals : [n -> Values \cup {NoValue}]]
    BY <2>1, <2>2 DEF IsFrame
  <2> QED  BY <2>3
<1>4. \A x \in X : Ready(m, x, 0) /\ x.function = d /\ x.types = frame.types  OBVIOUS
<1>5. frame \in X  BY <1>3
<1> HIDE DEF X
<1>6. ASSUME NEW x \in X PROVE GoneOn(m, x) \in X
  <2>1. Ready(m, x, 0) /\ x.function = d /\ x.types = frame.types  BY <1>4
  <2>2. CASE IsSilent(m, x)
    <3>1. LET y == AfterSilent(x, InstructionAt(m, x)) IN Ready(m, y, 0) /\ y.function = d /\ y.types = frame.types
      BY <2>1, <2>2, SilentIsReady DEF IsSilent
    <3> QED  BY <1>3, <2>2, <3>1 DEF GoneOn
  <2>3. CASE ~ IsSilent(m, x)  BY <2>3 DEF GoneOn
  <2> QED  BY <2>2, <2>3
<1>7. step \in [X -> X] /\ \A x \in X : step[x] = GoneOn(m, x)  BY <1>6
<1> HIDE DEF step
<1>8. PICK r : Iterates(r, X, step, frame)  BY <1>5, <1>7, IterationExists
<1>9. r[0] = frame /\ \A k \in Nat : r[k] \in X /\ r[k + 1] = GoneOn(m, r[k])
  BY <1>7, <1>8 DEF Iterates
<1> QED  BY <1>4, <1>9 DEF Chain

(* The rounds of SettledFrame.                                             *)
LEMMA RoundsExist ==
  ASSUME NEW m, NEW frame, Ready(m, frame, 0), NEW r, Chain(m, frame, r)
  PROVE  \E done : RoundsOf(m, frame, done)
<1> DEFINE X == {r[k] : k \in Nat}
           S == [frame : X, met : SUBSET Nat]
           start == [frame |-> frame, met |-> {}]
           step == [s \in S |-> FrameGoesOn(m, s)]
           Eq(h) == h = [k \in Nat |-> IF k = 0 THEN start ELSE FrameGoesOn(m, h[k - 1])]
           done == CHOOSE h : Eq(h)
           size == Size(Code(m, frame.function))
<1>1. \A k \in Nat : /\ Ready(m, r[k], 0) /\ r[k + 1] \in X /\ r[k].pc \in Nat
                     /\ IsSilent(m, r[k]) => AfterSilent(r[k], InstructionAt(m, r[k])) = r[k + 1]
  <2> TAKE k \in Nat
  <2>1. Ready(m, r[k], 0) /\ r[k + 1] = GoneOn(m, r[k])  BY DEF Chain
  <2>2. r[k].pc \in DOMAIN Code(m, r[k].function) /\ HasCode(m, r[k].function)  BY <2>1, ReadyPlace
  <2>3. r[k].pc \in Nat  BY <2>2, FlowOps
  <2>4. k + 1 \in Nat  OBVIOUS
  <2> QED  BY <2>1, <2>3, <2>4 DEF GoneOn
<1>2. ASSUME NEW s \in S PROVE FrameGoesOn(m, s) \in S
  <2>1. PICK k \in Nat : s.frame = r[k]  OBVIOUS
  <2>2. s.met \in SUBSET Nat /\ s.frame \in X  OBVIOUS
  <2>3. CASE s.frame.pc \in s.met \/ InstructionAt(m, s.frame).op \notin Silent  BY <2>3 DEF FrameGoesOn
  <2>4. CASE s.frame.pc \notin s.met /\ InstructionAt(m, s.frame).op \in Silent
    <3>1. AfterSilent(s.frame, InstructionAt(m, s.frame)) \in X  BY <1>1, <2>1, <2>4 DEF IsSilent
    <3>2. FrameGoesOn(m, s) = [frame |-> AfterSilent(s.frame, InstructionAt(m, s.frame)), met |-> s.met \cup {s.frame.pc}]
      BY <2>4 DEF FrameGoesOn
    <3>3. s.frame.pc \in Nat  BY <1>1, <2>1
    <3> HIDE DEF X
    <3> QED  BY <2>2, <3>1, <3>2, <3>3
  <2> QED  BY <2>3, <2>4
<1>3. start \in S
  <2>1. r[0] = frame /\ 0 \in Nat  BY DEF Chain
  <2> QED  BY <2>1
<1> HIDE DEF X, start, S
<1>4. step \in [S -> S]  BY <1>2
<1> HIDE DEF step
<1>5. PICK f : Iterates(f, S, step, start)  BY <1>3, <1>4, IterationExists
<1>6. Eq(f)
  <2>1. ASSUME NEW k \in Nat PROVE f[k] = IF k = 0 THEN start ELSE FrameGoesOn(m, f[k - 1])
    <3>1. CASE k = 0  BY <1>5, <3>1 DEF Iterates
    <3>2. CASE k # 0
      <4>1. k - 1 \in Nat /\ k - 1 + 1 = k  BY <3>2
      <4>2. f[k] = step[f[k - 1]] /\ f[k - 1] \in S  BY <1>5, <4>1 DEF Iterates
      <4> QED  BY <3>2, <4>2 DEF step
    <3> QED  BY <3>1, <3>2
  <2> QED  BY <1>5, <2>1 DEF Iterates
<1>7. SettledFrame(m, frame) = done[size].frame
  BY DEF SettledFrame, Iterate, start, Code, FunctionOf
<1> HIDE DEF Eq
<1>8. Eq(done)  BY <1>6
<1> HIDE DEF done
<1>9. done[0] = start  BY <1>8 DEF Eq
<1>10. ASSUME NEW k \in Nat PROVE done[k + 1] = FrameGoesOn(m, done[k])
  <2>1. k + 1 \in Nat /\ k + 1 # 0 /\ k + 1 - 1 = k  OBVIOUS
  <2> QED  BY <1>8, <2>1 DEF Eq
<1> QED  BY <1>7, <1>9, <1>10 DEF RoundsOf, start

(* SettledFrame comes to a frame of that chain: at a place that was met    *)
(* before, or at an instruction that is seen.                              *)
LEMMA SettlingComes ==
  ASSUME NEW m, NEW x, Ready(m, x, 0), NEW r, Chain(m, x, r)
  PROVE  \E j \in Nat : SettledFrame(m, x) = r[j] /\ Come(m, r, j)
<1> DEFINE size == Size(Code(m, x.function))
<1>1. PICK done : RoundsOf(m, x, done)  BY RoundsExist
<1>2. size \in Nat /\ DOMAIN Code(m, x.function) = 0 .. size - 1
  BY CodeIsCounted, ReadyPlace
<1>3. \A k \in Nat : r[k].pc \in 0 .. size - 1
  <2> TAKE k \in Nat
  <2>1. Ready(m, r[k], 0) /\ r[k].function = x.function  BY DEF Chain
  <2>2. r[k].pc \in DOMAIN Code(m, r[k].function)  BY <2>1, ReadyPlace
  <2> QED  BY <1>2, <2>1, <2>2
<1>4. SettledFrame(m, x) = done[size].frame  BY <1>1 DEF RoundsOf
<1> HIDE DEF size
<1> DEFINE At(k, j) ==
             /\ done[k] = [frame |-> r[j], met |-> PlacesOf(r, j)]
             /\ \A i \in 0 .. j - 1 : IsSilent(m, r[i])
             /\ IsFiniteSet(PlacesOf(r, j)) /\ Cardinality(PlacesOf(r, j)) = j
             /\ j = k \/ ~ IsSilent(m, r[j]) \/ r[j].pc \in PlacesOf(r, j)
           T == {k \in Nat : \E j \in Nat : At(k, j)}
<1>5. 0 \in T
  <2>1. PlacesOf(r, 0) = {}  BY DEF PlacesOf
  <2>2. done[0] = [frame |-> r[0], met |-> {}]  BY <1>1 DEF RoundsOf, Chain
  <2>3. At(0, 0)
    <3> DEFINE P == PlacesOf(r, 0)
    <3>1. IsFiniteSet(P) /\ Cardinality(P) = 0
      <4>1. P = {}  BY <2>1
      <4> HIDE DEF P
      <4> QED  BY <4>1, FS_EmptySet
    <3>2. \A i \in 0 .. 0 - 1 : IsSilent(m, r[i])  OBVIOUS
    <3> QED  BY <2>1, <2>2, <3>1, <3>2
  <2> HIDE DEF At
  <2> QED  BY <2>3
<1>6. ASSUME NEW k \in Nat, k \in T PROVE k + 1 \in T
  <2>1. PICK j \in Nat : At(k, j)  BY <1>6
  <2>2. done[k + 1] = FrameGoesOn(m, done[k])  BY <1>1 DEF RoundsOf
  <2>3. done[k].frame = r[j] /\ done[k].met = PlacesOf(r, j)  BY <2>1
  <2>4. r[j + 1] = GoneOn(m, r[j])  BY DEF Chain
  <2> DEFINE next == j + 1
  <2>5. next \in Nat /\ next - 1 = j /\ 0 .. next - 1 = (0 .. j - 1) \cup {j}  OBVIOUS
  <2>6. PlacesOf(r, next) = PlacesOf(r, j) \cup {r[j].pc}  BY <2>5 DEF PlacesOf
  <2>7. CASE r[j].pc \in PlacesOf(r, j) \/ ~ IsSilent(m, r[j])
    <3>1. done[k + 1] = done[k]  BY <2>2, <2>3, <2>7 DEF FrameGoesOn, IsSilent
    <3>2. At(k + 1, j)  BY <2>1, <2>7, <3>1
    <3> HIDE DEF At
    <3> QED  BY <3>2
  <2>8. CASE r[j].pc \notin PlacesOf(r, j) /\ IsSilent(m, r[j])
    <3>1. done[k + 1] = [frame |-> AfterSilent(r[j], InstructionAt(m, r[j])), met |-> PlacesOf(r, j) \cup {r[j].pc}]
      BY <2>2, <2>3, <2>8 DEF FrameGoesOn, IsSilent
    <3>2. AfterSilent(r[j], InstructionAt(m, r[j])) = r[next]  BY <2>4, <2>8 DEF GoneOn
    <3>3. done[k + 1] = [frame |-> r[next], met |-> PlacesOf(r, next)]  BY <2>6, <3>1, <3>2
    <3>4. IsFiniteSet(PlacesOf(r, next)) /\ Cardinality(PlacesOf(r, next)) = next
      <4>1. IsFiniteSet(PlacesOf(r, j)) /\ Cardinality(PlacesOf(r, j)) = j  BY <2>1
      <4> QED  BY <2>6, <2>8, <4>1, FS_AddElement
    <3>5. \A i \in 0 .. next - 1 : IsSilent(m, r[i])
      <4>1. \A i \in 0 .. j - 1 : IsSilent(m, r[i])  BY <2>1
      <4> HIDE DEF next
      <4> QED  BY <2>5, <2>8, <4>1
    <3>6. next = k + 1
      <4>1. j = k  BY <2>1, <2>8
      <4> QED  BY <4>1
    <3> HIDE DEF next
    <3>7. At(k + 1, next)  BY <3>3, <3>4, <3>5, <3>6
    <3> HIDE DEF At
    <3> QED  BY <2>5, <3>7
  <2> QED  BY <2>7, <2>8
<1> HIDE DEF T
<1>7. size \in T
  <2>1. Nat \subseteq T  BY <1>5, <1>6, NatClosed
  <2> QED  BY <1>2, <2>1
<1>8. PICK j \in Nat : At(size, j)  BY <1>7 DEF T
<1>9. ~ IsSilent(m, r[j]) \/ r[j].pc \in PlacesOf(r, j)
  <2> SUFFICES ASSUME j = size PROVE r[j].pc \in PlacesOf(r, j)  BY <1>8
  <2> DEFINE P == PlacesOf(r, j)
             A == 0 .. size - 1
  <2>1. P \in SUBSET A
    <3>1. \A i \in 0 .. j - 1 : r[i].pc \in A  BY <1>3
    <3> QED  BY <3>1 DEF PlacesOf
  <2>2. Cardinality(P) = size  BY <1>8
  <2>3. IsFiniteSet(A) /\ Cardinality(A) = size
    <3>1. IsFiniteSet(A) /\ Cardinality(A) = IF 0 > size - 1 THEN 0 ELSE size - 1 - 0 + 1  BY <1>2, FS_Interval
    <3> HIDE DEF A
    <3> QED  BY <1>2, <3>1
  <2> HIDE DEF P, A
  <2>4. P = A  BY <2>1, <2>2, <2>3, FS_Subset
  <2> QED  BY <1>3, <2>4 DEF P, A
<1>10. SettledFrame(m, x) = r[j]
  <2>1. done[size].frame = r[j]  BY <1>8
  <2> QED  BY <1>4, <2>1
<1>11. \A i \in 0 .. j - 1 : IsSilent(m, r[i])  BY <1>8
<1> HIDE DEF At
<1> QED  BY <1>9, <1>10, <1>11 DEF Come

(* What a frame does that has come round it does for ever; one that has    *)
(* come to something that is seen stays there.                             *)
LEMMA SettledOnChain ==
  ASSUME NEW m, NEW x, Ready(m, x, 0), NEW r, Chain(m, x, r), NEW k \in Nat, ~ IsSilent(m, r[k])
  PROVE  SettledFrame(m, x) = r[k]
<1>1. PICK j \in Nat : SettledFrame(m, x) = r[j] /\ Come(m, r, j)  BY SettlingComes
<1>2. (\A i \in 0 .. j - 1 : IsSilent(m, r[i])) /\ (~ IsSilent(m, r[j]) \/ r[j].pc \in PlacesOf(r, j))  BY <1>1 DEF Come
<1>3. \A i \in Nat : /\ Ready(m, r[i], 0) /\ r[i].function = x.function
                     /\ r[i + 1] = GoneOn(m, r[i])
  BY DEF Chain
<1>4. CASE ~ IsSilent(m, r[j])
  <2> DEFINE T == {i \in Nat : r[j + i] = r[j]}
  <2>1. 0 \in T  OBVIOUS
  <2>2. ASSUME NEW i \in Nat, i \in T PROVE i + 1 \in T
    <3>1. j + i \in Nat /\ j + i + 1 = j + (i + 1)  OBVIOUS
    <3>2. r[j + i + 1] = GoneOn(m, r[j + i])  BY <1>3, <3>1
    <3>3. r[j + i] = r[j]  BY <2>2
    <3>4. r[j + (i + 1)] = r[j]  BY <1>4, <3>1, <3>2, <3>3 DEF GoneOn
    <3> QED  BY <3>4
  <2> HIDE DEF T
  <2>3. Nat \subseteq T  BY <2>1, <2>2, NatClosed
  <2>4. k >= j  BY <1>2
  <2>5. k - j \in Nat /\ j + (k - j) = k  BY <2>4
  <2>6. r[j + (k - j)] = r[j]  BY <2>3, <2>5 DEF T
  <2> QED  BY <1>1, <2>5, <2>6
<1>5. CASE r[j].pc \in PlacesOf(r, j)
  <2> DEFINE T == {i \in Nat : r[i].pc \in PlacesOf(r, j)}
  <2>1. \A i, l \in Nat : r[i].pc = r[l].pc =>
          /\ InstructionAt(m, r[i]) = InstructionAt(m, r[l])
          /\ IsSilent(m, r[i]) <=> IsSilent(m, r[l])
          /\ IsSilent(m, r[i]) => r[i + 1].pc = r[l + 1].pc
    <3> TAKE i, l \in Nat
    <3> HAVE r[i].pc = r[l].pc
    <3>1. InstructionAt(m, r[i]) = InstructionAt(m, r[l])  BY <1>3 DEF InstructionAt, FunctionOf
    <3>2. IsSilent(m, r[i]) <=> IsSilent(m, r[l])  BY <3>1 DEF IsSilent
    <3> DEFINE c == InstructionAt(m, r[i])
               next(u) == IF c.op = "Branch" THEN c.arg ELSE u.pc + 1
    <3>3. ASSUME IsSilent(m, r[i]) PROVE r[i + 1].pc = r[l + 1].pc
      <4>1. IsFrame(r[i]) /\ IsFrame(r[l])  BY <1>3 DEF Ready
      <4>2. r[i + 1] = AfterSilent(r[i], c) /\ r[l + 1] = AfterSilent(r[l], c)  BY <1>3, <3>1, <3>2, <3>3 DEF GoneOn
      <4>3. AfterSilent(r[i], c).pc = next(r[i]) /\ AfterSilent(r[l], c).pc = next(r[l])  BY <4>1, SilentParts
      <4> QED  BY <4>2, <4>3
    <3> QED  BY <3>1, <3>2, <3>3
  <2>2. 0 \in T
    <3>1. CASE j = 0  BY <1>5, <3>1
    <3>2. CASE j # 0
      <4>1. 0 \in 0 .. j - 1  BY <3>2
      <4> QED  BY <4>1 DEF PlacesOf
    <3> QED  BY <3>1, <3>2
  <2>3. \A i \in Nat : i \in T => \E l \in 0 .. j - 1 : r[i].pc = r[l].pc  BY DEF PlacesOf
  <2>4. ASSUME NEW i \in Nat, i \in T PROVE IsSilent(m, r[i]) /\ i + 1 \in T
    <3>1. PICK l \in 0 .. j - 1 : r[i].pc = r[l].pc  BY <2>3, <2>4
    <3>2. l \in Nat /\ IsSilent(m, r[l])  BY <1>2
    <3>3. IsSilent(m, r[i]) /\ r[i + 1].pc = r[l + 1].pc  BY <2>1, <3>1, <3>2
    <3>4. r[l + 1].pc \in PlacesOf(r, j)
      <4>1. CASE l + 1 = j  BY <1>5, <4>1
      <4>2. CASE l + 1 # j
        <5>1. l + 1 \in 0 .. j - 1  BY <4>2
        <5> QED  BY <5>1 DEF PlacesOf
      <4> QED  BY <4>1, <4>2
    <3> QED  BY <3>3, <3>4
  <2> HIDE DEF T
  <2>5. Nat \subseteq T  BY <2>2, <2>4, NatClosed
  <2> QED  BY <2>4, <2>5
<1> QED  BY <1>2, <1>4, <1>5
-----------------------------------------------------------------------------
(* All this holds the other way round.                                     *)
LEMMA MatchedBothWays ==
  ASSUME NEW m, NEW d, NEW n, NEW e, Twins(m, d, n, e), NEW a, NEW b, Matched(m, d, n, e, a, b)
  PROVE  Matched(n, e, m, d, b, a)
<1>1. PICK p \in DOMAIN Order(m, d) :
        \/ \E k \in 1 .. Cardinality(Seen(m, d, Order(m, d)[p])) :
             a = Ascending(Seen(m, d, Order(m, d)[p]))[k] /\ b = Ascending(Seen(n, e, Order(n, e)[p]))[k]
        \/ /\ a = LastOf(Flow(m, d), Order(m, d)[p]) /\ b = LastOf(Flow(n, e), Order(n, e)[p])
           /\ Branches(Flow(m, d)[a].op) /\ Branches(Flow(n, e)[b].op)
  BY DEF Matched
<1>2. /\ DOMAIN Order(n, e) = DOMAIN Order(m, d)
      /\ Cardinality(Seen(n, e, Order(n, e)[p])) = Cardinality(Seen(m, d, Order(m, d)[p]))
  BY BlocksAgree
<1>3. p \in DOMAIN Order(n, e)  BY <1>2
<1>4. \/ \E k \in 1 .. Cardinality(Seen(n, e, Order(n, e)[p])) :
           b = Ascending(Seen(n, e, Order(n, e)[p]))[k] /\ a = Ascending(Seen(m, d, Order(m, d)[p]))[k]
      \/ /\ b = LastOf(Flow(n, e), Order(n, e)[p]) /\ a = LastOf(Flow(m, d), Order(m, d)[p])
         /\ Branches(Flow(n, e)[b].op) /\ Branches(Flow(m, d)[a].op)
  BY <1>1, <1>2
<1> QED  BY <1>3, <1>4 DEF Matched

(* Calls answer one another both ways.                                     *)
LEMMA PairedBothWays ==
  ASSUME NEW m, NEW n, NEW x, NEW y, Paired(m, n, x, y)
  PROVE  Paired(n, m, y, x)
<1> DEFINE d == x.function
           e == y.function
<1>1. /\ Companions(m, d, n, e) /\ x.types = y.types /\ LocalsAlike(m, d, n, e, x.locals, y.locals)
      /\ x.stack = y.stack /\ SamePlace(m, d, n, e, x.pc, y.pc)
  BY DEF Paired, FramesAlike
<1> HIDE DEF d, e
<1>2. Companions(n, e, m, d)  BY <1>1, EqualBothWays DEF Companions
<1>3. LocalsAlike(n, e, m, d, y.locals, x.locals)  BY <1>1 DEF LocalsAlike
<1>4. SamePlace(n, e, m, d, y.pc, x.pc)
  <2>1. PICK a \in DOMAIN Code(m, d), b \in DOMAIN Code(n, e) :
          Stops(m, d, x.pc, a) /\ Stops(n, e, y.pc, b) /\ Matched(m, d, n, e, a, b)
    BY <1>1 DEF SamePlace
  <2>2. Matched(n, e, m, d, b, a)  BY <1>1, <2>1, CompanionsAreTwins, MatchedBothWays
  <2> QED  BY <2>1, <2>2 DEF SamePlace
<1> QED  BY <1>1, <1>2, <1>3, <1>4 DEF Paired, FramesAlike, d, e

(* A call that goes over a Nop is still at a place that answers the        *)
(* other's.                                                                *)
LEMMA GapPaired ==
  ASSUME NEW m, NEW n, NEW x, NEW y, Ready(m, x, 0), Paired(m, n, x, y), IsGap(m, x)
  PROVE  Paired(m, n, GoneOn(m, x), y) /\ GoneOn(m, x).pc = x.pc + 1
<1> DEFINE d == x.function
           e == y.function
           i == InstructionAt(m, x)
           u == GoneOn(m, x)
<1>1. HasCode(m, d) /\ IsFrame(x) /\ x.pc \in DOMAIN Code(m, d) /\ i.op = Code(m, d)[x.pc].op  BY ReadyPlace
<1>2. i.op = "Nop"  BY <1>1 DEF IsGap
<1>3. u = AfterSilent(x, i)  BY <1>2 DEF GoneOn, IsSilent, Silent
<1>4. u.function = d /\ u.types = x.types /\ u.pc = x.pc + 1 /\ u.locals = x.locals /\ u.stack = x.stack
  <2> DEFINE v == AfterSilent(x, i)
  <2> HIDE DEF i
  <2>1. /\ v.function = x.function /\ v.types = x.types
        /\ v.pc = IF i.op = "Branch" THEN i.arg ELSE x.pc + 1
        /\ v.locals = IF i.op = "StLoc" THEN [x.locals EXCEPT ![i.arg] = Last(x.stack)] ELSE x.locals
        /\ i.op \in {"Nop", "Branch"} => v.stack = x.stack
    BY <1>1, SilentParts
  <2> HIDE DEF v
  <2>2. u = v  BY <1>3 DEF v
  <2> QED  BY <1>2, <2>1, <2>2
<1> HIDE DEF u
<1>5. /\ Companions(m, d, n, e) /\ x.types = y.types /\ LocalsAlike(m, d, n, e, x.locals, y.locals)
      /\ x.stack = y.stack /\ SamePlace(m, d, n, e, x.pc, y.pc)
  BY DEF Paired, FramesAlike
<1>6. SamePlace(m, d, n, e, x.pc + 1, y.pc)
  <2>1. PICK a \in DOMAIN Code(m, d), b \in DOMAIN Code(n, e) :
          Stops(m, d, x.pc, a) /\ Stops(n, e, y.pc, b) /\ Matched(m, d, n, e, a, b)
    BY <1>5 DEF SamePlace
  <2>2. Code(m, d)[x.pc].op = "Nop" => \A z : Stops(m, d, x.pc, z) <=> Stops(m, d, x.pc + 1, z)
    BY <1>1, StopsStep
  <2>3. Code(m, d)[x.pc].op = "Nop"  BY <1>1, <1>2
  <2>4. Stops(m, d, x.pc + 1, a)  BY <2>1, <2>2, <2>3
  <2> QED  BY <2>1, <2>4 DEF SamePlace
<1>7. Paired(m, n, u, y)  BY <1>4, <1>5, <1>6 DEF Paired, FramesAlike
<1> QED  BY <1>4, <1>7 DEF u

(* Calls that stand at no Nop stand at instructions that answer one        *)
(* another.                                                                *)
LEMMA BothStand ==
  ASSUME NEW m, NEW n, NEW x, NEW y, Ready(m, x, 0), Ready(n, y, 0), Paired(m, n, x, y), ~ IsGap(m, x), ~ IsGap(n, y)
  PROVE  Met(m, n, x, y)
<1> DEFINE d == x.function
           e == y.function
<1>1. HasCode(m, d) /\ x.pc \in DOMAIN Code(m, d) /\ HasCode(n, e) /\ y.pc \in DOMAIN Code(n, e)  BY ReadyPlace
<1>2. FramesAlike(m, n, x, y) /\ x.stack = y.stack /\ SamePlace(m, d, n, e, x.pc, y.pc)  BY DEF Paired
<1>3. PICK a \in DOMAIN Code(m, d), b \in DOMAIN Code(n, e) :
        Stops(m, d, x.pc, a) /\ Stops(n, e, y.pc, b) /\ Matched(m, d, n, e, a, b)
  BY <1>2 DEF SamePlace
<1>4. a = x.pc  BY <1>1, <1>3, StopsStep DEF IsGap
<1>5. b = y.pc  BY <1>1, <1>3, StopsStep DEF IsGap
<1> QED  BY <1>2, <1>3, <1>4, <1>5 DEF Met

(* Behind the gaps on one side is what answers the other.                  *)
LEMMA GapsEnd ==
  ASSUME NEW m, NEW n, NEW x, Ready(m, x, 0), ~ IsGap(m, x),
         NEW y, NEW q, Chain(n, y, q), NEW l \in Nat, Paired(m, n, x, q[l])
  PROVE  \E k \in Nat : Met(m, n, x, q[k])
<1> DEFINE e == y.function
           Far(k, g) == Paired(m, n, x, q[k]) /\ Stops(n, e, q[k].pc, q[k].pc + g)
           T == {g \in Nat : \A k \in Nat : Far(k, g) => \E j \in Nat : Met(m, n, x, q[j])}
<1>1. \A k \in Nat : /\ Ready(n, q[k], 0) /\ q[k].function = e /\ q[k + 1] = GoneOn(n, q[k])
                     /\ q[k].pc \in DOMAIN Code(n, e) /\ q[k].pc \in Nat /\ HasCode(n, e)
  <2> TAKE k \in Nat
  <2>1. Ready(n, q[k], 0) /\ q[k].function = e /\ q[k + 1] = GoneOn(n, q[k])  BY DEF Chain
  <2>2. HasCode(n, e) /\ q[k].pc \in DOMAIN Code(n, e)  BY <2>1, ReadyPlace
  <2>3. q[k].pc \in Nat  BY <2>2, FlowOps
  <2> QED  BY <2>1, <2>2, <2>3
<1> HIDE DEF e
<1>2. 0 \in T
  <2>1. ASSUME NEW k \in Nat, Far(k, 0) PROVE Met(m, n, x, q[k])
    <3>1. Stops(n, e, q[k].pc, q[k].pc)  BY <1>1, <2>1
    <3>2. ~ IsGap(n, q[k])  BY <1>1, <3>1 DEF Stops, IsGap
    <3> QED  BY <1>1, <2>1, <3>2, BothStand
  <2> HIDE DEF Far
  <2> QED  BY <2>1
<1>3. ASSUME NEW g \in Nat, g \in T PROVE g + 1 \in T
  <2>1. ASSUME NEW k \in Nat, Far(k, g + 1) PROVE \E j \in Nat : Met(m, n, x, q[j])
    <3> DEFINE at == q[k].pc
               z == q[k]
    <3>1. Ready(n, z, 0) /\ z.function = e /\ q[k + 1] = GoneOn(n, z) /\ at \in DOMAIN Code(n, e) /\ at \in Nat
          /\ HasCode(n, e)
      BY <1>1
    <3>2. Code(n, e)[at].op # "Nop" => \A b : Stops(n, e, at, b) <=> b = at  BY <3>1, StopsStep
    <3>3. Code(n, e)[at].op = "Nop" => \A b : Stops(n, e, at, b) <=> Stops(n, e, at + 1, b)  BY <3>1, StopsStep
    <3>4. Paired(m, n, x, z) /\ Stops(n, e, at, at + (g + 1))  BY <2>1
    <3> HIDE DEF z
    <3>5. Code(n, e)[at].op = "Nop"
      <4>1. at + (g + 1) # at  BY <3>1
      <4> HIDE DEF at
      <4> QED  BY <3>2, <3>4, <4>1
    <3>6. IsGap(n, z)  BY <3>1, <3>5 DEF IsGap, z
    <3>7. Paired(n, m, z, x)  BY <3>4, PairedBothWays
    <3>8. Paired(n, m, GoneOn(n, z), x) /\ GoneOn(n, z).pc = at + 1  BY <3>1, <3>6, <3>7, GapPaired DEF z
    <3>9. Paired(m, n, x, q[k + 1]) /\ q[k + 1].pc = at + 1  BY <3>1, <3>8, PairedBothWays
    <3>10. Stops(n, e, at + 1, at + 1 + g)
      <4>1. at + (g + 1) = at + 1 + g  BY <3>1
      <4> HIDE DEF at
      <4> QED  BY <3>3, <3>4, <3>5, <4>1
    <3>11. Far(k + 1, g)  BY <3>9, <3>10
    <3>12. k + 1 \in Nat  OBVIOUS
    <3> HIDE DEF Far
    <3> QED  BY <1>3, <3>11, <3>12
  <2> HIDE DEF Far
  <2> QED  BY <2>1
<1>4. PICK b \in DOMAIN Code(n, e) : Stops(n, e, q[l].pc, b)
  <2>1. SamePlace(m, x.function, n, e, x.pc, q[l].pc)  BY <1>1 DEF Paired
  <2> QED  BY <2>1 DEF SamePlace
<1>5. b - q[l].pc \in Nat /\ q[l].pc + (b - q[l].pc) = b
  <2>1. q[l].pc <= b  BY <1>4 DEF Stops
  <2>2. b \in Nat  BY <1>1, FlowOps
  <2> QED  BY <1>1, <2>1, <2>2
<1>6. Far(l, b - q[l].pc)  BY <1>4, <1>5
<1> HIDE DEF T
<1>7. Nat \subseteq T  BY <1>2, <1>3, NatClosed
<1> HIDE DEF Far
<1> QED  BY <1>5, <1>6, <1>7 DEF T

(* If a call comes to something that is seen, its partner comes to what    *)
(* answers that.                                                           *)
LEMMA SettlesToo ==
  ASSUME NEW m, NEW n, NEW x, NEW y, Ready(m, x, 0), Ready(n, y, 0), Paired(m, n, x, y),
         ~ IsSilent(m, SettledFrame(m, x))
  PROVE  Met(m, n, SettledFrame(m, x), SettledFrame(n, y)) /\ ~ IsSilent(n, SettledFrame(n, y))
<1>1. PICK r : Chain(m, x, r)  BY ChainExists
<1>2. PICK q : Chain(n, y, q)  BY ChainExists
<1>3. \A k \in Nat : Ready(m, r[k], 0) /\ r[k].function = x.function /\ r[k + 1] = GoneOn(m, r[k])  BY <1>1 DEF Chain
<1>4. \A k \in Nat : Ready(n, q[k], 0) /\ q[k].function = y.function /\ q[k + 1] = GoneOn(n, q[k])  BY <1>2 DEF Chain
<1>5. ASSUME NEW k \in Nat, NEW l \in Nat, Paired(m, n, r[k], q[l]), ~ IsGap(m, r[k])
      PROVE  \E j \in Nat : Met(m, n, r[k], q[j])
  BY <1>2, <1>3, <1>5, GapsEnd
<1> DEFINE T == {k \in Nat : \E l \in Nat : Paired(m, n, r[k], q[l])}
<1>6. 0 \in T
  <2>1. r[0] = x /\ q[0] = y  BY <1>1, <1>2 DEF Chain
  <2> QED  BY <2>1
<1>7. ASSUME NEW k \in Nat, k \in T PROVE k + 1 \in T
  <2>1. PICK l \in Nat : Paired(m, n, r[k], q[l])  BY <1>7
  <2>2. r[k + 1] = GoneOn(m, r[k]) /\ Ready(m, r[k], 0)  BY <1>3
  <2>3. CASE ~ IsSilent(m, r[k])
    <3>1. r[k + 1] = r[k]  BY <2>2, <2>3 DEF GoneOn
    <3> QED  BY <2>1, <3>1
  <2>4. CASE IsGap(m, r[k])
    <3>1. Paired(m, n, GoneOn(m, r[k]), q[l])  BY <2>1, <2>2, <2>4, GapPaired
    <3> QED  BY <2>2, <3>1
  <2>5. CASE IsSilent(m, r[k]) /\ ~ IsGap(m, r[k])
    <3>1. PICK j \in Nat : Met(m, n, r[k], q[j])  BY <1>5, <2>1, <2>5
    <3>2. q[j + 1] = GoneOn(n, q[j]) /\ Ready(n, q[j], 0) /\ j + 1 \in Nat  BY <1>4
    <3>3. IsSilent(n, q[j]) /\ Paired(m, n, GoneOn(m, r[k]), GoneOn(n, q[j]))
      BY <2>2, <2>5, <3>1, <3>2, SilentAlike DEF IsSilent, GoneOn
    <3> QED  BY <2>2, <3>2, <3>3
  <2> QED  BY <2>3, <2>4, <2>5
<1> HIDE DEF T
<1>8. Nat \subseteq T  BY <1>6, <1>7, NatClosed
<1>9. PICK k \in Nat : SettledFrame(m, x) = r[k]  BY <1>1, SettlingComes
<1>10. PICK l \in Nat : Paired(m, n, r[k], q[l])  BY <1>8 DEF T
<1>11. ~ IsSilent(m, r[k]) /\ ~ IsGap(m, r[k])
  <2>1. Code(m, r[k].function)[r[k].pc].op = InstructionAt(m, r[k]).op  BY <1>3, ReadyPlace
  <2> QED  BY <1>9, <2>1 DEF IsSilent, IsGap, Silent
<1>12. PICK j \in Nat : Met(m, n, r[k], q[j])  BY <1>5, <1>10, <1>11
<1>13. ~ IsSilent(n, q[j])  BY <1>3, <1>4, <1>11, <1>12, SilentAlike DEF IsSilent
<1>14. SettledFrame(n, y) = q[j]  BY <1>2, <1>13, SettledOnChain
<1> QED  BY <1>9, <1>12, <1>13, <1>14

(* So two calls at places that answer one another go on to instructions    *)
(* that do, or both go round silently forever.                             *)
LEMMA SettledAlike ==
  ASSUME NEW m, NEW n, NEW x, NEW y, Ready(m, x, 0), Ready(n, y, 0), Paired(m, n, x, y)
  PROVE  /\ IsSilent(m, SettledFrame(m, x)) <=> IsSilent(n, SettledFrame(n, y))
         /\ ~ IsSilent(m, SettledFrame(m, x)) => Met(m, n, SettledFrame(m, x), SettledFrame(n, y))
<1>1. Paired(n, m, y, x)  BY PairedBothWays
<1>2. ~ IsSilent(m, SettledFrame(m, x)) => Met(m, n, SettledFrame(m, x), SettledFrame(n, y)) /\ ~ IsSilent(n, SettledFrame(n, y))
  BY SettlesToo
<1>3. ~ IsSilent(n, SettledFrame(n, y)) => ~ IsSilent(m, SettledFrame(m, x))
  BY <1>1, SettlesToo
<1> QED  BY <1>2, <1>3
-----------------------------------------------------------------------------
(* Companions are entered alike: at places that answer one another, with   *)
(* the arguments in locals of one name and nothing in the others.          *)
LEMMA EntryMeets ==
  ASSUME NEW m, NEW d, NEW n, NEW e, Twins(m, d, n, e)
  PROVE  SamePlace(m, d, n, e, 0, 0)
<1>1. HasCode(m, d) /\ HasCode(n, e)  BY DEF Twins
<1>2. /\ 1 \in DOMAIN Order(m, d) /\ Order(m, d)[1] = 0 /\ Order(n, e)[1] = 0
  BY <1>1, OrderFits DEF IsOrder, Order
<1>3. ASSUME NEW p, NEW c, HasCode(p, c) PROVE BlockStart(Flow(p, c), 0) = 0
  <2>1. Accepted(Flow(p, c))  BY <1>3, CodeIsAccepted DEF Flow
  <2>2. 0 \in Leaders(Flow(p, c))  BY <2>1, LeadersAreInstructions
  <2> QED  BY <2>1, <2>2, LeaderStartsItsBlock, StartsInFirstBlock
<1>4. BlockStart(Flow(m, d), 0) = 0 /\ BlockStart(Flow(n, e), 0) = 0  BY <1>1, <1>3
<1>5. SamePlace(m, d, n, e, BlockStart(Flow(m, d), Order(m, d)[1]), BlockStart(Flow(n, e), Order(n, e)[1]))
  BY <1>2, StartsMeet
<1> QED  BY <1>2, <1>4, <1>5

(* The parts of a frame that is entered.                                   *)
LEMMA FrameParts ==
  ASSUME NEW m, NEW d, HasCode(m, d), NEW types, NEW arguments
  PROVE  LET x == Frame(m, d, types, arguments)
         IN  /\ x.function = d /\ x.types = types /\ x.pc = 0 /\ x.stack = << >>
             /\ \A l \in Slots(m, d) : x.locals[l] = Entering(arguments, l)
<1> DEFINE n == Len(LocalTypes(m, m.functions[d]))
           L == [l \in 0 .. n - 1 |-> Entering(arguments, l)]
           x == Frame(m, d, types, arguments)
<1>1. x = [function |-> d, types |-> types, pc |-> 0, stack |-> << >>, locals |-> L]
  BY DEF Frame, Entering, NoValue
<1>2. Slots(m, d) \subseteq 0 .. n - 1  BY NamedLocalsExist, LocalsAreCounted
<1> HIDE DEF L, x
<1>3. x.function = d /\ x.types = types /\ x.pc = 0 /\ x.stack = << >> /\ x.locals = L  BY <1>1
<1>4. \A l \in Slots(m, d) : L[l] = Entering(arguments, l)  BY <1>2 DEF L
<1> QED  BY <1>3, <1>4 DEF x

(* Frames that are entered so answer one another.                          *)
LEMMA EntryAlike ==
  ASSUME NEW m, NEW d, NEW n, NEW e, Companions(m, d, n, e), NEW types, NEW arguments,
         Len(arguments) = Params(m, d)
  PROVE  Paired(m, n, Frame(m, d, types, arguments), Frame(n, e, types, arguments))
<1> DEFINE x == Frame(m, d, types, arguments)
           y == Frame(n, e, types, arguments)
<1>1. HasCode(m, d) /\ HasCode(n, e) /\ Twins(m, d, n, e)  BY CompanionsAreTwins DEF Companions
<1>2. /\ x.function = d /\ x.types = types /\ x.pc = 0 /\ x.stack = << >>
      /\ \A k \in Slots(m, d) : x.locals[k] = Entering(arguments, k)
  BY <1>1, FrameParts
<1>3. /\ y.function = e /\ y.types = types /\ y.pc = 0 /\ y.stack = << >>
      /\ \A l \in Slots(n, e) : y.locals[l] = Entering(arguments, l)
  BY <1>1, FrameParts
<1> HIDE DEF x, y
<1>4. Params(m, d) = Params(n, e)
  <2>1. /\ Sound(m) /\ Sound(n) /\ d \in DOMAIN m.functions /\ e \in DOMAIN n.functions
    BY DEF Companions, Equal, HasCode
  <2>2. FunctionValue(m, m.functions[d]) = FunctionValue(n, n.functions[e])  BY CompanionsAreTwins
  <2> QED  BY <2>1, <2>2, ValuesMeasure DEF Params
<1>5. ASSUME NEW k \in Slots(m, d), NEW l \in Slots(n, e), Local(m, d, k) = Local(n, e, l)
      PROVE  Entering(arguments, k) = Entering(arguments, l)
  <2> DEFINE a == LocalName(m, m.functions[d], TurnsIn(m, m.functions[d]), k)
             b == LocalName(n, n.functions[e], TurnsIn(n, n.functions[e]), l)
  <2>1. /\ k < Params(m, d) => a[1] = "arg" /\ a[2] = k
        /\ ~ k < Params(m, d) => a[1] = "local"
    BY DEF LocalName, Params
  <2>2. /\ l < Params(n, e) => b[1] = "arg" /\ b[2] = l
        /\ ~ l < Params(n, e) => b[1] = "local"
    BY DEF LocalName, Params
  <2>3. a = b  BY <1>5 DEF Local
  <2> HIDE DEF a, b
  <2>4. CASE k < Params(m, d)
    <3>1. k = l  BY <2>1, <2>2, <2>3, <2>4
    <3> QED  BY <3>1
  <2>5. CASE ~ k < Params(m, d)
    <3>1. ~ l < Params(n, e)  BY <2>1, <2>2, <2>3, <2>5
    <3> QED  BY <1>4, <2>5, <3>1 DEF Entering
  <2> QED  BY <2>4, <2>5
<1>6. LocalsAlike(m, d, n, e, x.locals, y.locals)
  <2> SUFFICES ASSUME NEW k \in Slots(m, d), NEW l \in Slots(n, e), Local(m, d, k) = Local(n, e, l)
               PROVE  x.locals[k] = y.locals[l]
    BY DEF LocalsAlike
  <2> QED  BY <1>2, <1>3, <1>5
<1>7. SamePlace(m, d, n, e, 0, 0)  BY <1>1, EntryMeets
<1>8. Paired(m, n, x, y)  BY <1>2, <1>3, <1>6, <1>7 DEF Paired, FramesAlike
<1> QED  BY <1>8 DEF x, y
-----------------------------------------------------------------------------
(* Either both have calls or none has.                                     *)
LEMMA EmptyTogether ==
  ASSUME NEW m, NEW n, NEW s, NEW t, Sorted(m, s), Sorted(n, t), Len(s) = Len(t)
  PROVE  s = << >> <=> t = << >>
<1>1. ASSUME NEW p, NEW q, NEW x, NEW y, Sorted(p, x), Sorted(q, y), Len(x) = Len(y), x = << >>, y # << >> PROVE FALSE
  <2>1. Len(y) \in Nat \ {0}  BY <1>1, TopIsReady
  <2>2. Len(x) = 0  BY <1>1
  <2> HIDE DEF Len
  <2> QED  BY <1>1, <2>1, <2>2
<1> QED  BY <1>1

(* Machines whose calls answer one another go on to their next events      *)
(* alike.                                                                  *)
LEMMA SettleKeepsAlike ==
  ASSUME NEW m, NEW n, NEW s, NEW t, Sorted(m, s), Sorted(n, t), MachinesPaired(m, n, s, t)
  PROVE  MachinesAlike(m, n, Settle(m, s), Settle(n, t))
<1>0. Len(s) = Len(t) /\ \A k \in 1 .. Len(s) : Paired(m, n, s[k], t[k])  BY DEF MachinesPaired
<1>1. s = << >> <=> t = << >>  BY <1>0, EmptyTogether
<1>2. CASE s = << >>
  <2>1. Settle(m, s) = << >> /\ Settle(n, t) = << >>  BY <1>1, <1>2 DEF Settle
  <2>2. \A k \in 1 .. Len(<< >>) - 1 : FALSE  OBVIOUS
  <2> QED  BY <2>1, <2>2 DEF MachinesAlike
<1>3. CASE s # << >>
  <2> DEFINE x == Top(s)
             y == Top(t)
             u == SettledFrame(m, x)
             v == SettledFrame(n, y)
             z == WithTop(s, u)
             w == WithTop(t, v)
  <2>1. t # << >>  BY <1>1, <1>3
  <2>2. Settle(m, s) = z /\ Settle(n, t) = w  BY <1>3, <2>1 DEF Settle
  <2>3. Len(s) \in Nat \ {0} /\ x = s[Len(s)] /\ Ready(m, x, 0)  BY <1>3, TopIsReady
  <2>4. y = t[Len(t)] /\ Ready(n, y, 0)  BY <2>1, TopIsReady
  <2>5. IsList(s) /\ IsList(t)  BY DEF Sorted
  <2> HIDE DEF x, y
  <2>6. Paired(m, n, x, y)
    <3>1. Len(s) \in 1 .. Len(s)  BY <2>3
    <3> QED  BY <1>0, <2>3, <2>4, <3>1
  <2>7. TopsAlike(m, n, u, v)  BY <2>3, <2>4, <2>6, SettledAlike DEF TopsAlike
  <2> HIDE DEF u, v
  <2>8. /\ IsList(z) /\ Len(z) = Len(s) /\ z # << >>
        /\ \A k \in 1 .. Len(s) : z[k] = IF k = Len(s) THEN u ELSE s[k]
    BY <1>3, <2>5, TopReplaced
  <2>9. /\ Len(w) = Len(t)
        /\ \A k \in 1 .. Len(t) : w[k] = IF k = Len(t) THEN v ELSE t[k]
    BY <2>1, <2>5, TopReplaced
  <2> HIDE DEF z, w
  <2> DEFINE N == Len(s)
  <2>10. /\ N \in Nat \ {0} /\ Len(z) = N /\ Len(w) = N
         /\ \A k \in 1 .. N : z[k] = (IF k = N THEN u ELSE s[k]) /\ w[k] = (IF k = N THEN v ELSE t[k])
         /\ \A k \in 1 .. N : Paired(m, n, s[k], t[k])
    BY <1>0, <2>3, <2>8, <2>9
  <2>11. Top(z) = z[Len(z)] /\ Top(w) = w[Len(w)]  BY DEF Top, Last
  <2> HIDE DEF N
  <2>12. N \in 1 .. N /\ \A k \in 1 .. N - 1 : k \in 1 .. N /\ k # N  BY <2>10
  <2>13. \A k \in 1 .. N - 1 : Paired(m, n, z[k], w[k])  BY <2>10, <2>12
  <2>14. Top(z) = u /\ Top(w) = v  BY <2>10, <2>11, <2>12
  <2>15. MachinesAlike(m, n, z, w)  BY <2>7, <2>10, <2>13, <2>14 DEF MachinesAlike
  <2> QED  BY <2>2, <2>15
<1> QED  BY <1>2, <1>3

(* Calls that stand at instructions that answer one another do so.         *)
LEMMA MetActAlike ==
  ASSUME NEW m, NEW n, NEW x, NEW y, Ready(m, x, 0), Ready(n, y, 0), Met(m, n, x, y), ~ IsSilent(m, x)
  PROVE  ActAlike(m, n, x, y)
<1> DEFINE d == x.function
           e == y.function
           i == Code(m, d)[x.pc]
           j == Code(n, e)[y.pc]
           a == InstructionAt(m, x)
           b == InstructionAt(n, y)
<1>1. /\ HasCode(m, d) /\ x.pc \in DOMAIN Code(m, d) /\ a = CodeOf(m, m.functions[d])[x.pc]
      /\ a.op = i.op /\ a.arg = i.arg
  BY ReadyPlace
<1>2. /\ HasCode(n, e) /\ y.pc \in DOMAIN Code(n, e) /\ b = CodeOf(n, n.functions[e])[y.pc]
      /\ b.op = j.op /\ b.arg = j.arg
  BY ReadyPlace
<1>3. /\ Companions(m, d, n, e) /\ Equal(m, n) /\ Matched(m, d, n, e, x.pc, y.pc) /\ x.types = y.types
      /\ LocalsAlike(m, d, n, e, x.locals, y.locals)
  BY DEF Met, FramesAlike, Companions
<1>4. Partners(m, d, n, e, x.pc, y.pc)  BY <1>3, PartnersGoOn
<1>5. a.op # "Branch"  BY DEF IsSilent, Silent
<1>6. \/ i.op \notin {"Branch", "BrTrue", "BrFalse"} /\ NamedAlike(m, n, i, j)
         /\ (i.op \in LocalOps => Local(m, d, i.arg) = Local(n, e, j.arg))
      \/ i.op \in Tests /\ j.op \in Tests
  BY <1>1, <1>4, <1>5, CalledAlike DEF Partners
<1>7. i.op \notin Tests => i.op = j.op /\ NamedAlike(m, n, i, j)
                           /\ (i.op \in LocalOps => Local(m, d, i.arg) = Local(n, e, j.arg))
  BY <1>6 DEF NamedAlike
<1>8. i.op \in Tests <=> j.op \in Tests  BY <1>6, <1>7 DEF Tests
<1>9. ASSUME i.op \notin Tests PROVE WorksOn(m, x, a) = WorksOn(n, y, b)
  <2>1. WorksOn(m, x, a) = WorksOn(m, x, i) /\ WorksOn(n, y, b) = WorksOn(n, y, j)
    BY <1>1, <1>2, CodeActs
  <2>2. CASE i.op \notin LocalOps
    <3>1. WorksOn(m, x, i) = WorksOn(n, y, j)  BY <1>1, <1>2, <1>3, <1>7, <1>9, <2>2, WorksAlike
    <3> QED  BY <2>1, <3>1
  <2>3. CASE i.op \in LocalOps
    <3>1. i.arg \in Slots(m, d) /\ j.arg \in Slots(n, e)
      BY <1>1, <1>2, <1>7, <1>9, <2>3, UsedLocalsAreNamed
    <3>2. x.locals[i.arg] = y.locals[j.arg]  BY <1>3, <1>7, <1>9, <2>3, <3>1 DEF LocalsAlike
    <3>3. KindOf(i.op) = "none" /\ KindOf(j.op) = "none" /\ i.op \in Locals /\ j.op \in Locals
      <4>1. i.op = j.op  BY <1>7, <1>9
      <4>2. i.op \notin Silent  BY <1>1 DEF IsSilent
      <4> HIDE DEF i, j
      <4>3. i.op \in {"MutBorrowLoc", "ImmBorrowLoc"}  BY <2>3, <4>2 DEF LocalOps, Locals, Silent
      <4>4. \A op \in {"MutBorrowLoc", "ImmBorrowLoc"} : KindOf(op) = "none" /\ op \in Locals
        BY DEF KindOf, Locals
      <4> QED  BY <4>1, <4>3, <4>4
    <3> HIDE DEF i, j
    <3>4. WorksOn(m, x, i) = <<x.locals[i.arg]>>  BY <3>3 DEF WorksOn
    <3>5. WorksOn(n, y, j) = <<y.locals[j.arg]>>  BY <3>3 DEF WorksOn
    <3> QED  BY <2>1, <3>2, <3>4, <3>5
  <2> QED  BY <2>2, <2>3
<1>10. ASSUME i.op \notin Tests PROVE TypesOf(m, x, a) = TypesOf(n, y, b)
  <2>1. TypesOf(m, x, a) = TypesOf(m, x, i) /\ TypesOf(n, y, b) = TypesOf(n, y, j)
    BY <1>1, <1>2, CodeActs
  <2>2. TypesOf(m, x, i) = TypesOf(n, y, j)  BY <1>1, <1>2, <1>3, <1>7, <1>10, TypesAlike
  <2> QED  BY <2>1, <2>2
<1>11. ASSUME i.op \notin Tests
       PROVE  /\ StackEffect(a) = StackEffect(b)
              /\ Entered(m, a) = {} <=> Entered(n, b) = {}
              /\ \A v \in Entered(m, a), w \in Entered(n, b) : Companions(m, v, n, w)
  <2>1. StackEffect(a) = StackEffect(b)  BY <1>1, <1>2, <1>3, <1>7, <1>11, EffectsAlike
  <2>2. /\ Entered(m, a) = {} <=> Entered(n, b) = {}
        /\ \A v \in Entered(m, a), w \in Entered(n, b) : Companions(m, v, n, w)
    BY <1>1, <1>2, <1>3, <1>7, <1>11, CallsAlike
  <2> QED  BY <2>1, <2>2
<1>12. ASSUME a.op \notin {"Ret", "Abort", "AbortMsg"}, NEW answer \in BOOLEAN
       PROVE  SamePlace(m, d, n, e, Onward(x, a, answer), Onward(y, b, answer))
  <2>1. SamePlace(m, d, n, e, Follows(m, d, x.pc, answer), Follows(n, e, y.pc, answer))
    BY <1>1, <1>4, <1>12 DEF Partners
  <2>2. Follows(m, d, x.pc, answer) = Onward(x, a, answer)
    BY <1>1, <1>5 DEF Follows, Onward
  <2>3. j.op # "Branch"  BY <1>1, <1>5, <1>6 DEF NamedAlike, Tests
  <2>4. Follows(n, e, y.pc, answer) = Onward(y, b, answer)
    BY <1>2, <2>3 DEF Follows, Onward
  <2> QED  BY <2>1, <2>2, <2>4
<1> HIDE DEF d, e, i, j, a, b
<1>13. a.op \notin Tests => /\ a.op = b.op /\ StackEffect(a) = StackEffect(b)
                            /\ WorksOn(m, x, a) = WorksOn(n, y, b) /\ TypesOf(m, x, a) = TypesOf(n, y, b)
                            /\ Entered(m, a) = {} <=> Entered(n, b) = {}
                            /\ \A v \in Entered(m, a), w \in Entered(n, b) : Companions(m, v, n, w)
  BY <1>1, <1>2, <1>7, <1>9, <1>10, <1>11
<1> QED  BY <1>1, <1>2, <1>8, <1>12, <1>13 DEF ActAlike, a, b, d, e

(* The event of a machine, by its calls and what the last of them is at.  *)
LEMMA EventsByCase ==
  ASSUME NEW m, NEW s
  PROVE  LET x == Top(s)
             i == InstructionAt(m, x)
         IN  /\ s = << >> => EventOf(m, s) = <<"end">>
             /\ s # << >> /\ i.op \in Silent => EventOf(m, s) = <<"endless">>
             /\ s # << >> /\ i.op \notin Silent /\ i.op \in Tests => EventOf(m, s) = <<"test", Last(x.stack)>>
             /\ s # << >> /\ i.op \notin Silent /\ i.op \notin Tests =>
                  EventOf(m, s) = <<i.op, WorksOn(m, x, i), TypesOf(m, x, i), Taken(x, StackEffect(i)[1])>>
<1> DEFINE x == Top(s)
           i == InstructionAt(m, x)
           test == <<"test", Last(x.stack)>>
           other == <<i.op, WorksOn(m, x, i), TypesOf(m, x, i), Taken(x, StackEffect(i)[1])>>
<1>1. EventOf(m, s) = IF s = << >> THEN <<"end">>
                      ELSE CASE i.op \in Silent -> <<"endless">> [] i.op \in Tests -> test [] OTHER -> other
  BY DEF EventOf
<1> HIDE DEF test, other, i
<1>2. \A op \in Tests : op \notin Silent  BY DEF Tests, Silent
<1>3. /\ s = << >> => EventOf(m, s) = <<"end">>
      /\ s # << >> /\ i.op \in Silent => EventOf(m, s) = <<"endless">>
      /\ s # << >> /\ i.op \notin Silent /\ i.op \in Tests => EventOf(m, s) = test
      /\ s # << >> /\ i.op \notin Silent /\ i.op \notin Tests => EventOf(m, s) = other
  BY <1>1, <1>2
<1> QED  BY <1>3 DEF test, other, i

(* The next events of machines that are alike are the same.                *)
LEMMA EventsAlike ==
  ASSUME NEW m, NEW n, NEW s, NEW t, Sorted(m, s), Sorted(n, t), MachinesAlike(m, n, s, t)
  PROVE  EventOf(m, s) = EventOf(n, t)
<1> DEFINE x == Top(s)
           y == Top(t)
           a == InstructionAt(m, x)
           b == InstructionAt(n, y)
<1>1. /\ s = << >> <=> t = << >>
      /\ s # << >> => TopsAlike(m, n, x, y)
  BY EmptyTogether DEF MachinesAlike
<1>2. CASE s = << >>  BY <1>1, <1>2, EventsByCase
<1>3. CASE s # << >> /\ IsSilent(m, x)
  <2>1. t # << >> /\ IsSilent(n, y)  BY <1>1, <1>3 DEF TopsAlike
  <2>2. EventOf(m, s) = <<"endless">>  BY <1>3, EventsByCase DEF IsSilent
  <2>3. EventOf(n, t) = <<"endless">>  BY <2>1, EventsByCase DEF IsSilent
  <2> QED  BY <2>2, <2>3
<1>4. CASE s # << >> /\ ~ IsSilent(m, x)
  <2>1. t # << >> /\ ~ IsSilent(n, y) /\ Met(m, n, x, y)  BY <1>1, <1>4 DEF TopsAlike
  <2>2. Ready(m, x, 0) /\ Ready(n, y, 0)  BY <1>4, <2>1, TopIsReady
  <2>3. ActAlike(m, n, x, y)  BY <1>4, <2>1, <2>2, MetActAlike
  <2>4. x.stack = y.stack  BY <2>1 DEF Met
  <2>5. a.op \notin Silent /\ b.op \notin Silent  BY <1>4, <2>1 DEF IsSilent
  <2>6. CASE a.op \in Tests
    <3>1. b.op \in Tests  BY <2>3, <2>6 DEF ActAlike
    <3>2. EventOf(m, s) = <<"test", Last(x.stack)>>  BY <1>4, <2>5, <2>6, EventsByCase
    <3>3. EventOf(n, t) = <<"test", Last(y.stack)>>  BY <2>1, <2>5, <3>1, EventsByCase
    <3> QED  BY <2>4, <3>2, <3>3
  <2>7. CASE a.op \notin Tests
    <3>1. /\ b.op \notin Tests /\ a.op = b.op /\ StackEffect(a) = StackEffect(b)
          /\ WorksOn(m, x, a) = WorksOn(n, y, b) /\ TypesOf(m, x, a) = TypesOf(n, y, b)
      BY <2>3, <2>7 DEF ActAlike
    <3>2. EventOf(m, s) = <<a.op, WorksOn(m, x, a), TypesOf(m, x, a), Taken(x, StackEffect(a)[1])>>
      BY <1>4, <2>5, <2>7, EventsByCase
    <3>3. EventOf(n, t) = <<b.op, WorksOn(n, y, b), TypesOf(n, y, b), Taken(y, StackEffect(b)[1])>>
      BY <2>1, <2>5, <3>1, EventsByCase
    <3>4. Taken(x, StackEffect(a)[1]) = Taken(y, StackEffect(b)[1])  BY <2>4, <3>1 DEF Taken
    <3> QED  BY <3>1, <3>2, <3>3, <3>4
  <2> QED  BY <2>6, <2>7
<1> QED  BY <1>2, <1>3, <1>4

(* What the calls are after it.                                            *)
LEMMA TopsChanged ==
  ASSUME NEW m, NEW n, NEW s, NEW t, IsList(s), IsList(t), s # << >>, t # << >>, Len(s) = Len(t),
         \A k \in 1 .. Len(s) - 1 : Paired(m, n, s[k], t[k]), NEW x, NEW y, Paired(m, n, x, y)
  PROVE  MachinesPaired(m, n, WithTop(s, x), WithTop(t, y))
<1> DEFINE z == WithTop(s, x)
           w == WithTop(t, y)
           N == Len(s)
<1>1. /\ N \in Nat \ {0} /\ Len(z) = N
      /\ \A k \in 1 .. N : z[k] = IF k = N THEN x ELSE s[k]
  BY TopReplaced
<1>2. Len(w) = N /\ \A k \in 1 .. N : w[k] = IF k = N THEN y ELSE t[k]
  BY TopReplaced
<1> HIDE DEF z, w, N
<1>3. \A k \in 1 .. N : k = N \/ k \in 1 .. N - 1  BY <1>1
<1>4. \A k \in 1 .. N - 1 : Paired(m, n, s[k], t[k])  BY DEF N
<1>5. \A k \in 1 .. N : Paired(m, n, z[k], w[k])  BY <1>1, <1>2, <1>3, <1>4
<1> QED  BY <1>1, <1>2, <1>5 DEF MachinesPaired, z, w, N

(* A call that is added to both.                                           *)
LEMMA CallsAdded ==
  ASSUME NEW m, NEW n, NEW s, NEW t, IsList(s), IsList(t), MachinesPaired(m, n, s, t),
         NEW x, NEW y, Paired(m, n, x, y)
  PROVE  MachinesPaired(m, n, Append(s, x), Append(t, y))
<1> DEFINE z == Append(s, x)
           w == Append(t, y)
           N == Len(s)
<1>1. N \in Nat /\ Len(z) = N + 1 /\ z[N + 1] = x /\ \A k \in 1 .. N : z[k] = s[k]
  BY CallAdded
<1>2. Len(t) = N /\ \A k \in 1 .. N : Paired(m, n, s[k], t[k])  BY DEF MachinesPaired
<1>3. Len(w) = N + 1 /\ w[N + 1] = y /\ \A k \in 1 .. N : w[k] = t[k]
  BY <1>2, CallAdded
<1> HIDE DEF z, w, N
<1>4. \A k \in 1 .. N + 1 : k = N + 1 \/ k \in 1 .. N  BY <1>1
<1>5. \A k \in 1 .. N + 1 : Paired(m, n, z[k], w[k])  BY <1>1, <1>2, <1>3, <1>4
<1> QED  BY <1>1, <1>3, <1>5 DEF MachinesPaired, z, w

(* Both go on, with the same on their stacks.                              *)
LEMMA FramesGoOn ==
  ASSUME NEW m, NEW n, NEW x, NEW y, IsFrame(x), IsFrame(y), FramesAlike(m, n, x, y),
         NEW p, NEW q, SamePlace(m, x.function, n, y.function, p, q), NEW stack
  PROVE  Paired(m, n, Changed(x, p, stack), Changed(y, q, stack))
<1> DEFINE z == Changed(x, p, stack)
           w == Changed(y, q, stack)
<1>1. z.function = x.function /\ z.types = x.types /\ z.pc = p /\ z.stack = stack /\ z.locals = x.locals
  BY FrameChanged
<1>2. w.function = y.function /\ w.types = y.types /\ w.pc = q /\ w.stack = stack /\ w.locals = y.locals
  BY FrameChanged
<1> HIDE DEF z, w
<1>3. Paired(m, n, z, w)  BY <1>1, <1>2 DEF Paired, FramesAlike
<1> QED  BY <1>3 DEF z, w

(* A call takes as many operands as the function it enters has parameters. *)
LEMMA CallTakesParameters ==
  ASSUME NEW m, NEW x, Ready(m, x, 0), NEW c \in Entered(m, InstructionAt(m, x))
  PROVE  Len(Taken(x, StackEffect(InstructionAt(m, x))[1])) = Params(m, c)
<1> DEFINE f == m.functions[x.function]
           i == InstructionAt(m, x)
           e == StackEffect(i)
           of == UseOf(m, i).of
<1>1. /\ HasCode(m, x.function) /\ x.pc \in Spots(m, f) /\ x.stack \in Seq(Values)
      /\ Len(x.stack) = HeightAt(m, f, x.pc)
  BY DEF Ready
<1>2. x.pc \in DOMAIN f.code /\ i = CodeOf(m, f)[x.pc]
  BY <1>1 DEF Spots, InstructionAt, FunctionOf, CodeOf
<1>3. Coded(f)  BY <1>1, CodeIsAccepted
<1>4. i.op = "Call" /\ c \in DefinitionsNamed(m, of)  BY DEF Entered
<1>5. /\ i.op = f.code[x.pc].op /\ i.arg = f.code[x.pc].arg /\ i.generic = f.code[x.pc].generic
      /\ i.arity = TableArity(m, f, f.code[x.pc])
  <2>1. {"Ret", "Call"} \cap OwnArity = {}  BY DEF OwnArity
  <2> HIDE DEF f, i
  <2> QED  BY <1>2, <1>3, <1>4, <2>1, CodeInstruction
<1>6. e[1] \in Nat /\ Len(x.stack) >= e[1]  BY <1>1, <1>2, HeightsFit
<1>7. e = <<Len(m.table.function[of].parameters), Len(m.table.function[of].returns)>>
  <2>1. e = TableArity(m, f, f.code[x.pc])  BY <1>4, <1>5, EffectsOfOps
  <2>2. UseOf(m, f.code[x.pc]) = UseOf(m, i)  BY <1>5 DEF UseOf
  <2> HIDE DEF e, f, i
  <2> QED  BY <1>4, <1>5, <2>1, <2>2 DEF TableArity
<1>8. m.functions[c].handle = of  BY <1>4 DEF DefinitionsNamed
<1> HIDE DEF e, f, i, of
<1>9. Len(Taken(x, e[1])) = e[1]  BY <1>1, <1>6, StackIsSplit
<1>10. e[1] = Params(m, c)  BY <1>7, <1>8 DEF Params
<1> QED  BY <1>9, <1>10 DEF e, i

(* A return hands the same over to calls that are alike.                   *)
LEMMA ReturnsAlike ==
  ASSUME NEW m, NEW n, NEW s, NEW t, Sorted(m, s), Sorted(n, t), Len(s) = Len(t), Len(s) > 1,
         \A k \in 1 .. Len(s) - 1 : Paired(m, n, s[k], t[k]), NEW taken
  PROVE  MachinesPaired(m, n, WithTop(Front(s), [Top(Front(s)) EXCEPT !.stack = Top(Front(s)).stack \o taken]),
                              WithTop(Front(t), [Top(Front(t)) EXCEPT !.stack = Top(Front(t)).stack \o taken]))
<1> DEFINE u == Front(s)
           v == Front(t)
           x == Top(u)
           y == Top(v)
           x1 == [x EXCEPT !.stack = x.stack \o taken]
           y1 == [y EXCEPT !.stack = y.stack \o taken]
           N == Len(s)
<1>1. IsList(s) /\ IsList(t)  BY DEF Sorted
<1>2. /\ IsList(u) /\ Len(u) = N - 1 /\ u # << >> /\ N \in Nat /\ IsFrame(x)
      /\ \A k \in 1 .. N - 1 : u[k] = s[k]
  BY <1>1, CallEnded, CallIsLeft DEF Ready
<1>3. /\ IsList(v) /\ Len(v) = N - 1 /\ v # << >> /\ IsFrame(y)
      /\ \A k \in 1 .. N - 1 : v[k] = t[k]
  BY <1>1, CallEnded, CallIsLeft DEF Ready
<1>4. x = u[Len(u)] /\ y = v[Len(v)]  BY DEF Top, Last
<1>5. N > 1 /\ \A k \in 1 .. N - 1 : Paired(m, n, s[k], t[k])  OBVIOUS
<1> HIDE DEF u, v, x, y, N
<1>6. N - 1 \in 1 .. N - 1 /\ \A k \in 1 .. N - 1 - 1 : k \in 1 .. N - 1  BY <1>2, <1>5
<1>7. Paired(m, n, x, y)  BY <1>2, <1>3, <1>4, <1>5, <1>6
<1>8. /\ x1.function = x.function /\ x1.types = x.types /\ x1.pc = x.pc /\ x1.stack = x.stack \o taken
      /\ x1.locals = x.locals
  BY <1>2, StackChanged
<1>9. /\ y1.function = y.function /\ y1.types = y.types /\ y1.pc = y.pc /\ y1.stack = y.stack \o taken
      /\ y1.locals = y.locals
  BY <1>3, StackChanged
<1> HIDE DEF x1, y1
<1>10. Paired(m, n, x1, y1)  BY <1>7, <1>8, <1>9 DEF Paired, FramesAlike
<1>11. \A k \in 1 .. Len(u) - 1 : Paired(m, n, u[k], v[k])  BY <1>2, <1>3, <1>5, <1>6
<1>12. MachinesPaired(m, n, WithTop(u, x1), WithTop(v, y1))
  BY <1>2, <1>3, <1>10, <1>11, TopsChanged
<1> QED  BY <1>12 DEF u, v, x, y, x1, y1

(* Machines without calls.                                                 *)
LEMMA NothingPaired ==
  ASSUME NEW m, NEW n PROVE MachinesPaired(m, n, << >>, << >>)
<1>1. \A k \in 1 .. Len(<< >>) : FALSE  OBVIOUS
<1> QED  BY <1>1 DEF MachinesPaired

(* After the event that they share, machines are at places that answer one *)
(* another: after either outcome of a test, a return, the entry of a       *)
(* function or any other event.                                            *)
LEMMA AfterEventAlike ==
  ASSUME NEW m, NEW n, NEW s, NEW t, Sorted(m, s), Sorted(n, t), MachinesAlike(m, n, s, t), s # << >>,
         ~ IsSilent(m, Top(s)), NEW number, NEW answer \in BOOLEAN
  PROVE  MachinesPaired(m, n, AfterEvent(m, s, number, answer), AfterEvent(n, t, number, answer))
<1> DEFINE x == Top(s)
           y == Top(t)
           a == InstructionAt(m, x)
           b == InstructionAt(n, y)
           c == StackEffect(a)
           d == StackEffect(b)
           after == AfterEvent(m, s, number, answer)
           then == AfterEvent(n, t, number, answer)
           left == WithTop(Front(s), [Top(Front(s)) EXCEPT !.stack = Top(Front(s)).stack \o Taken(x, c[1])])
           gone == WithTop(Front(t), [Top(Front(t)) EXCEPT !.stack = Top(Front(t)).stack \o Taken(y, d[1])])
           results(e) == [k \in 1 .. e[2] |-> <<"event", number, k>>]
           new == Frame(m, CHOOSE v \in Entered(m, a) : TRUE, TypesOf(m, x, a), Taken(x, c[1]))
           other == Frame(n, CHOOSE w \in Entered(n, b) : TRUE, TypesOf(n, y, b), Taken(y, d[1]))
<1>1. /\ a.op \in {"BrTrue", "BrFalse"} => after = AfterTest(s, a, answer)
      /\ a.op \in {"Abort", "AbortMsg"} \/ (a.op = "Ret" /\ Len(s) = 1) => after = << >>
      /\ a.op = "Ret" /\ Len(s) # 1 => after = left
      /\ a.op \notin {"BrTrue", "BrFalse", "Abort", "AbortMsg", "Ret"} =>
           /\ Entered(m, a) = {} => after = Onwards(s, Rest(x, c[1]) \o results(c))
           /\ Entered(m, a) # {} => after = Append(Onwards(s, Rest(x, c[1])), new)
  BY AfterEventByCase
<1>2. /\ b.op \in {"BrTrue", "BrFalse"} => then = AfterTest(t, b, answer)
      /\ b.op \in {"Abort", "AbortMsg"} \/ (b.op = "Ret" /\ Len(t) = 1) => then = << >>
      /\ b.op = "Ret" /\ Len(t) # 1 => then = gone
      /\ b.op \notin {"BrTrue", "BrFalse", "Abort", "AbortMsg", "Ret"} =>
           /\ Entered(n, b) = {} => then = Onwards(t, Rest(y, d[1]) \o results(d))
           /\ Entered(n, b) # {} => then = Append(Onwards(t, Rest(y, d[1])), other)
  BY AfterEventByCase
<1> SUFFICES MachinesPaired(m, n, after, then)  OBVIOUS
<1> HIDE DEF after, then, left, gone, new, other
<1>3. Len(s) = Len(t) /\ \A k \in 1 .. Len(s) - 1 : Paired(m, n, s[k], t[k])  BY DEF MachinesAlike
<1>4. t # << >>  BY <1>3, EmptyTogether
<1>5. Met(m, n, x, y) /\ ~ IsSilent(n, y)  BY DEF MachinesAlike, TopsAlike
<1>6. Ready(m, x, 0) /\ Ready(n, y, 0) /\ Len(s) \in Nat \ {0}  BY <1>4, TopIsReady
<1>7. ActAlike(m, n, x, y)  BY <1>5, <1>6, MetActAlike
<1>8. FramesAlike(m, n, x, y) /\ x.stack = y.stack /\ IsFrame(x) /\ IsFrame(y)  BY <1>5, <1>6 DEF Met, Ready
<1>9. IsList(s) /\ IsList(t)  BY DEF Sorted
<1>10. /\ a.op \in Tests <=> b.op \in Tests
       /\ a.op \notin Tests =>
            /\ a.op = b.op /\ c = d /\ TypesOf(m, x, a) = TypesOf(n, y, b)
            /\ Entered(m, a) = {} <=> Entered(n, b) = {}
            /\ \A v \in Entered(m, a), w \in Entered(n, b) : Companions(m, v, n, w)
       /\ a.op \notin {"Ret", "Abort", "AbortMsg"} =>
            SamePlace(m, x.function, n, y.function, Onward(x, a, answer), Onward(y, b, answer))
  BY <1>7 DEF ActAlike
<1> HIDE DEF x, y, a, b, c, d, results
<1>11. \A e : Taken(x, e) = Taken(y, e) /\ Rest(x, e) = Rest(y, e)  BY <1>8 DEF Taken, Rest
<1>12. ASSUME NEW p, NEW q, SamePlace(m, x.function, n, y.function, p, q), NEW stack
       PROVE  MachinesPaired(m, n, WithTop(s, Changed(x, p, stack)), WithTop(t, Changed(y, q, stack)))
  <2> DEFINE z == Changed(x, p, stack)
             w == Changed(y, q, stack)
  <2>1. Paired(m, n, z, w)  BY <1>8, <1>12, FramesGoOn
  <2> HIDE DEF z, w
  <2>2. MachinesPaired(m, n, WithTop(s, z), WithTop(t, w))  BY <1>3, <1>4, <1>9, <2>1, TopsChanged
  <2> QED  BY <2>2 DEF z, w
<1>13. CASE a.op \in Tests
  <2> DEFINE p == IF answer = (a.op = "BrTrue") THEN a.arg ELSE x.pc + 1
             q == IF answer = (b.op = "BrTrue") THEN b.arg ELSE y.pc + 1
  <2>1. a.op \in {"BrTrue", "BrFalse"} /\ b.op \in {"BrTrue", "BrFalse"}  BY <1>10, <1>13 DEF Tests
  <2>2. after = WithTop(s, Changed(x, p, Front(x.stack)))  BY <1>1, <2>1 DEF AfterTest, x
  <2>3. then = WithTop(t, Changed(y, q, Front(y.stack)))  BY <1>2, <2>1 DEF AfterTest, y
  <2>4. Onward(x, a, answer) = p /\ Onward(y, b, answer) = q  BY <1>10, <1>13 DEF Onward
  <2>5. a.op \notin {"Ret", "Abort", "AbortMsg"}  BY <2>1
  <2> HIDE DEF p, q
  <2>6. SamePlace(m, x.function, n, y.function, p, q)  BY <1>10, <2>4, <2>5
  <2> QED  BY <1>8, <1>12, <2>2, <2>3, <2>6
<1>14. CASE a.op \in {"Abort", "AbortMsg"} \/ (a.op = "Ret" /\ Len(s) = 1)
  <2>1. a.op \notin Tests  BY <1>14 DEF Tests
  <2>2. after = << >> /\ then = << >>  BY <1>1, <1>2, <1>3, <1>10, <1>14, <2>1
  <2> QED  BY <2>2, NothingPaired
<1>15. CASE a.op = "Ret" /\ Len(s) # 1
  <2>1. a.op \notin Tests  BY <1>15 DEF Tests
  <2>2. after = left /\ then = gone  BY <1>1, <1>2, <1>3, <1>10, <1>15, <2>1
  <2>3. Len(s) > 1
    <3> DEFINE k == Len(s)
    <3>1. k \in Nat \ {0} /\ k # 1  BY <1>6, <1>15
    <3> HIDE DEF k
    <3>2. k > 1  BY <3>1
    <3> QED  BY <3>2 DEF k
  <2> DEFINE taken == Taken(x, c[1])
  <2>4. Taken(y, d[1]) = taken  BY <1>10, <1>11, <2>1
  <2> HIDE DEF taken
  <2>5. left = WithTop(Front(s), [Top(Front(s)) EXCEPT !.stack = Top(Front(s)).stack \o taken])
    BY DEF left, taken
  <2>6. gone = WithTop(Front(t), [Top(Front(t)) EXCEPT !.stack = Top(Front(t)).stack \o taken])
    BY <2>4 DEF gone
  <2>7. MachinesPaired(m, n, left, gone)  BY <1>3, <2>3, <2>5, <2>6, ReturnsAlike
  <2> QED  BY <2>2, <2>7
<1>16. CASE a.op \notin {"BrTrue", "BrFalse", "Abort", "AbortMsg", "Ret"}
  <2>1. a.op \notin Tests /\ b.op \notin Tests  BY <1>10, <1>16 DEF Tests
  <2>2. a.op = b.op /\ c = d /\ TypesOf(m, x, a) = TypesOf(n, y, b) /\ (Entered(m, a) = {} <=> Entered(n, b) = {})
    BY <1>10, <2>1
  <2>3. SamePlace(m, x.function, n, y.function, x.pc + 1, y.pc + 1)
    <3>1. Onward(x, a, answer) = x.pc + 1 /\ Onward(y, b, answer) = y.pc + 1  BY <2>1 DEF Onward
    <3> QED  BY <1>10, <1>16, <3>1
  <2>4. ASSUME NEW stack PROVE MachinesPaired(m, n, Onwards(s, stack), Onwards(t, stack))
    BY <1>12, <2>3 DEF Onwards, x, y
  <2>5. CASE Entered(m, a) = {}
    <3>1. after = Onwards(s, Rest(x, c[1]) \o results(c))  BY <1>1, <1>16, <2>5
    <3>2. then = Onwards(t, Rest(y, d[1]) \o results(d))  BY <1>2, <1>16, <2>2, <2>5
    <3>3. Rest(y, d[1]) \o results(d) = Rest(x, c[1]) \o results(c)  BY <1>11, <2>2
    <3> QED  BY <2>4, <3>1, <3>2, <3>3
  <2>6. CASE Entered(m, a) # {}
    <3> DEFINE v == CHOOSE v \in Entered(m, a) : TRUE
               w == CHOOSE w \in Entered(n, b) : TRUE
               types == TypesOf(m, x, a)
               taken == Taken(x, c[1])
               rest == Rest(x, c[1])
    <3>1. after = Append(Onwards(s, rest), Frame(m, v, types, taken))
      BY <1>1, <1>16, <2>6 DEF new
    <3>2. then = Append(Onwards(t, Rest(y, d[1])), Frame(n, w, TypesOf(n, y, b), Taken(y, d[1])))
      BY <1>2, <1>16, <2>2, <2>6 DEF other
    <3>3. v \in Entered(m, a) /\ w \in Entered(n, b)  BY <2>2, <2>6
    <3>4. Rest(y, d[1]) = rest /\ Taken(y, d[1]) = taken /\ TypesOf(n, y, b) = types  BY <1>11, <2>2
    <3>5. Len(taken) = Params(m, v)  BY <1>6, <3>3, CallTakesParameters DEF a, c
    <3> HIDE DEF v, w, types, taken, rest
    <3>6. then = Append(Onwards(t, rest), Frame(n, w, types, taken))  BY <3>2, <3>4
    <3>7. Companions(m, v, n, w)  BY <1>10, <2>1, <3>3
    <3>8. Paired(m, n, Frame(m, v, types, taken), Frame(n, w, types, taken))  BY <3>5, <3>7, EntryAlike
    <3>9. MachinesPaired(m, n, Onwards(s, rest), Onwards(t, rest))  BY <2>4
    <3>10. IsList(Onwards(s, rest)) /\ IsList(Onwards(t, rest))
      BY <1>4, <1>9, TopReplaced DEF Onwards
    <3> QED  BY <3>1, <3>6, <3>8, <3>9, <3>10, CallsAdded
  <2> QED  BY <2>5, <2>6
<1> QED  BY <1>13, <1>14, <1>15, <1>16 DEF Tests
-----------------------------------------------------------------------------
(* Equal modules: the function of a name that has code in one is, by that  *)
(* name, its companion in the other.                                       *)
LEMMA NamesakesAreCompanions ==
  ASSUME NEW m, NEW n, Equal(m, n), NEW e, HasCode(m, e)
  PROVE  Companions(m, e, n, Namesake(n, FunctionName(m, m.functions[e])))
<1> DEFINE f == m.functions[e]
           name == FunctionName(m, f)
           value == FunctionValue(m, f)
           d == Namesake(n, name)
<1>1. Sound(m) /\ Sound(n) /\ Interface(m) = Interface(n) /\ e \in DOMAIN m.functions /\ ~ IsNative(f)
  BY DEF Equal, HasCode
<1>2. <<"function", name, value>> \in Interface(n)  BY <1>1 DEF Interface, ToSet
<1>3. HasCode(n, d)  BY <1>1, EqualModulesHaveCode
<1> HIDE DEF name, value, d
<1>4. <<"function", name, value>>
        \in {<<"function", FunctionName(n, g), FunctionValue(n, g)>> : g \in ToSet(n.functions)}
  <2>1. <<"function", name, value>> \notin {<<"struct", StructName(n, x), StructValue(n, x)>> : x \in DOMAIN n.table.struct}
    OBVIOUS
  <2> QED  BY <1>2, <2>1 DEF Interface
<1>5. PICK g \in ToSet(n.functions) : <<"function", name, value>> = <<"function", FunctionName(n, g), FunctionValue(n, g)>>
  BY <1>4
<1>6. PICK x \in DOMAIN n.functions : g = n.functions[x]  BY DEF ToSet
<1>7. name = FunctionName(n, n.functions[x])  BY <1>5, <1>6
<1>8. d = x  BY <1>1, <1>7, NamedIsIt DEF Namesake, d
<1>9. Companions(m, e, n, d)  BY <1>3, <1>7, <1>8 DEF Companions, name
<1> QED  BY <1>9 DEF d, name

(* Then the two are equal modules.                                         *)
LEMMA AreEqual ==
  ASSUME IInv, RunsAlike, phase \in {"same", "run"} PROVE Equal(job.reference, job.candidate)
<1>1. Linked(job.reference, job.candidate)  BY JobsAssumption DEF IInv, TypeOK
<1> QED  BY <1>1 DEF IInv, CheckedSoFar, RunsAlike, Equal

(* What a comparison finds equal are bodies, too.                          *)
LEMMA CompareKeepsAlike ==
  ASSUME Compare PROVE RunsAlike'
BY DEF Compare, Equivalent, RunsAlike

(* Checks run nothing.                                                     *)
LEMMA CheckKeepsAlike ==
  ASSUME IInv, Check PROVE RunsAlike'
<1> DEFINE passed == Passes(Module[phase], Checks[check])
           last == check = Len(Checks)
<1>1. /\ phase \in Roles
      /\ phase' = CASE ~ passed -> Refusal[phase]
                    [] passed /\ ~ last -> phase
                    [] passed /\ last /\ phase = "reference" -> "candidate"
                    [] OTHER -> "compare"
  BY DEF Check
<1> HIDE DEF passed, last
<1>2. Refusal[phase] \notin {"same", "run"} /\ phase \notin {"same", "run"}
  BY <1>1 DEF Roles, Refusal
<1>3. phase' \notin {"same", "run"}  BY <1>1, <1>2
<1> QED  BY <1>3 DEF RunsAlike

(* A function that is called from outside is entered in both.              *)
LEMMA CallKeepsAlike ==
  ASSUME IInv, RunsAlike, Call PROVE RunsAlike'
<1>1. phase = "same" /\ phase' = "run" /\ job' = job
  BY DEF Call
<1> DEFINE m == job.reference
           n == job.candidate
           handle(f) == m.table.function[f.handle]
           types(f) == [k \in DOMAIN handle(f).typeParameters |-> typeName(m, u64)]
           arguments(f) == [k \in DOMAIN handle(f).parameters |-> <<"argument", k>>]
           entry(r, f) == Namesake(Module[r], handle(f).name)
<1>2. PICK f \in {g \in ToSet(m.functions) : ~ IsNative(g)} :
        machines' = [r \in Roles |-> Settle(Module[r], <<Frame(Module[r], entry(r, f), types(f), arguments(f))>>)]
  BY DEF Call, Namesake
<1>3. PICK e \in DOMAIN m.functions : f = m.functions[e]  BY DEF ToSet
<1>4. Equal(m, n)  BY <1>1, AreEqual
<1>5. HasCode(m, e)  BY <1>2, <1>3, <1>4 DEF HasCode, Equal
<1>6. arguments(f) \in Seq(Values) /\ Len(arguments(f)) = Params(m, e)
  <2> DEFINE p == handle(f).parameters
             size == Len(p)
  <2>1. FunctionsLoadable(m) /\ f.handle \in DOMAIN m.table.function
    BY <1>3, <1>4, <1>5, CodeIsAccepted DEF Sound, Loadable, Equal
  <2>2. p \in Seq(Types)  BY <2>1 DEF FunctionsLoadable, Range
  <2> HIDE DEF p
  <2>3. size \in Nat /\ DOMAIN p = 1 .. size  BY <2>2, LenProperties
  <2> HIDE DEF size
  <2>4. [k \in 1 .. size |-> <<"argument", k>>] \in [1 .. size -> Values]
    <3>1. \A k \in 1 .. size : <<"argument", k>> \in Values  BY <2>3 DEF Values
    <3> QED  BY <3>1
  <2>5. /\ [k \in 1 .. size |-> <<"argument", k>>] \in Seq(Values)
        /\ Len([k \in 1 .. size |-> <<"argument", k>>]) = size
    BY <2>3, <2>4
  <2> QED  BY <1>3, <2>3, <2>5 DEF p, size, Params
<1> DEFINE d == Namesake(n, FunctionName(m, m.functions[e]))
           x == Frame(m, e, types(f), arguments(f))
           y == Frame(n, d, types(f), arguments(f))
<1>7. Companions(m, e, n, d)  BY <1>4, <1>5, NamesakesAreCompanions
<1>8. entry("reference", f) = e /\ entry("candidate", f) = d
  <2>1. Module["reference"] = m /\ Module["candidate"] = n  BY DEF Module
  <2>2. FunctionName(m, m.functions[e]) = handle(f).name  BY <1>3 DEF FunctionName
  <2>3. Sound(m)  BY <1>4 DEF Equal
  <2>4. Namesake(m, FunctionName(m, m.functions[e])) = e  BY <2>3, NamedIsIt DEF Namesake
  <2> HIDE DEF handle, m, n
  <2> QED  BY <2>1, <2>2, <2>4
<1>9. machines'["reference"] = Settle(m, <<x>>) /\ machines'["candidate"] = Settle(n, <<y>>)
  <2>1. Module["reference"] = m /\ Module["candidate"] = n  BY DEF Module
  <2>2. \A r \in Roles : machines'[r] = Settle(Module[r], <<Frame(Module[r], entry(r, f), types(f), arguments(f))>>)
    BY <1>2
  <2>3. "reference" \in Roles /\ "candidate" \in Roles  BY DEF Roles
  <2> HIDE DEF types, arguments, entry, d, m, n
  <2> QED  BY <1>8, <2>1, <2>2, <2>3
<1> HIDE DEF types, arguments, entry, handle, d, m, n
<1>10. Paired(m, n, x, y)  BY <1>6, <1>7, EntryAlike
<1>11. Ready(m, x, 0) /\ Ready(n, y, 0)
  <2>1. Params(n, d) = Params(m, e)
    <3>1. Sound(m) /\ Sound(n) /\ Interface(m) = Interface(n) /\ e \in DOMAIN m.functions /\ ~ IsNative(m.functions[e])
      BY <1>4, <1>5 DEF Equal, HasCode
    <3> QED  BY <3>1, EqualModulesHaveCode DEF Params, d
  <2>2. HasCode(n, d)  BY <1>7 DEF Companions
  <2> QED  BY <1>5, <1>6, <2>1, <2>2, EntryIsReady DEF Params
<1> HIDE DEF x, y
<1>12. ASSUME NEW z PROVE Len(<<z>>) = 1 /\ <<z>>[1] = z /\ IsList(<<z>>)
  <2>1. <<z>> \in Seq({z}) /\ Range(<<z>>) = {z}  BY DEF Range
  <2> QED  BY <2>1 DEF IsList
<1>13. ASSUME NEW p, NEW z, Ready(p, z, 0) PROVE Sorted(p, <<z>>)
  <2>1. \A k \in 1 .. Len(<<z>>) : Ready(p, <<z>>[k], IF k = Len(<<z>>) THEN 0 ELSE Returns(p, <<z>>[k + 1]))
    BY <1>12, <1>13
  <2>2. \A k \in 1 .. Len(<<z>>) - 1 : FALSE  BY <1>12
  <2> QED  BY <1>12, <2>1, <2>2 DEF Sorted
<1>14. MachinesPaired(m, n, <<x>>, <<y>>)
  <2>1. \A k \in 1 .. 1 : k = 1  OBVIOUS
  <2> QED  BY <1>10, <1>12, <2>1 DEF MachinesPaired
<1>15. MachinesAlike(m, n, Settle(m, <<x>>), Settle(n, <<y>>))
  BY <1>11, <1>13, <1>14, SettleKeepsAlike
<1>16. Bodies(m) = Bodies(n)  BY <1>4 DEF Equal
<1>17. MachinesAlike(m, n, machines'["reference"], machines'["candidate"])  BY <1>9, <1>15
<1> QED  BY <1>1, <1>16, <1>17 DEF RunsAlike, m, n

(* An event of both leaves them alike.                                     *)
LEMMA StepKeepsAlike ==
  ASSUME IInv, RunsAlike, Step PROVE RunsAlike'
<1> DEFINE m == job.reference
           n == job.candidate
           s == machines["reference"]
           t == machines["candidate"]
<1>1. phase = "run" /\ phase' = phase /\ job' = job /\ Going("reference") /\ events \in Nat
  BY DEF Step, Roles, IInv, TypeOK
<1>2. PICK answer \in BOOLEAN :
        machines' = [r \in Roles |-> Settle(Module[r], AfterEvent(Module[r], machines[r], events, answer))]
  BY DEF Step
<1>3. Sorted(m, s) /\ Sorted(n, t) /\ MachinesAlike(m, n, s, t) /\ Equal(m, n)
  <2>1. Module["reference"] = m /\ Module["candidate"] = n  BY DEF Module
  <2>2. "reference" \in Roles /\ "candidate" \in Roles  BY DEF Roles
  <2> QED  BY <1>1, <2>1, <2>2, AreEqual DEF IInv, MachinesSorted, RunsAlike
<1>4. EventOf(m, s) \notin {<<"end">>, <<"endless">>}
  <2>1. Event("reference") = EventOf(m, s)  BY DEF Event, Module
  <2> QED  BY <1>1, <2>1 DEF Going
<1>5. s # << >> /\ ~ IsSilent(m, Top(s))
  <2> HIDE DEF m, s
  <2> QED  BY <1>4, EventsByCase DEF IsSilent
<1> DEFINE after == AfterEvent(m, s, events, answer)
           then == AfterEvent(n, t, events, answer)
<1>6. machines'["reference"] = Settle(m, after) /\ machines'["candidate"] = Settle(n, then)
  <2>1. Module["reference"] = m /\ Module["candidate"] = n  BY DEF Module
  <2>2. \A r \in Roles : machines'[r] = Settle(Module[r], AfterEvent(Module[r], machines[r], events, answer))
    BY <1>2
  <2>3. "reference" \in Roles /\ "candidate" \in Roles  BY DEF Roles
  <2> HIDE DEF m, n
  <2> QED  BY <2>1, <2>2, <2>3
<1> HIDE DEF m, n, s, t
<1>7. t # << >> /\ ~ IsSilent(n, Top(t))
  BY <1>3, <1>5, EmptyTogether DEF MachinesAlike, TopsAlike
<1>8. Sorted(m, after) /\ Sorted(n, then)
  BY <1>1, <1>3, <1>5, <1>7, AfterEventIsSorted DEF IsSilent
<1>9. MachinesPaired(m, n, after, then)  BY <1>3, <1>5, AfterEventAlike
<1> HIDE DEF after, then
<1>10. MachinesAlike(m, n, Settle(m, after), Settle(n, then))  BY <1>8, <1>9, SettleKeepsAlike
<1>11. Bodies(m) = Bodies(n)  BY <1>3 DEF Equal
<1>12. MachinesAlike(m, n, machines'["reference"], machines'["candidate"])  BY <1>6, <1>10
<1> QED  BY <1>1, <1>11, <1>12 DEF RunsAlike, m, n

(* body_compare.cpp, module_compare.cpp: modules that count as the same    *)
(* after validation, of any size and linked against the same packages, do  *)
(* the same when a function of them is called: event by event, with the    *)
(* same operands, and with the same outcome of every test.                 *)
THEOREM EqualModulesBehaveAlike ==
  Spec => []EqualModulesRunAlike
<1>1. Init => RunsAlike  BY DEF Init, RunsAlike
<1>2. ASSUME IInv, RunsAlike, [Next]_vars PROVE RunsAlike'
  <2>1. CASE UNCHANGED vars  BY <1>2, <2>1 DEF vars, RunsAlike
  <2> QED  BY <1>2, <2>1, CheckKeepsAlike, CompareKeepsAlike, CallKeepsAlike, StepKeepsAlike DEF Next
<1>3. ASSUME IInv, RunsAlike PROVE EqualModulesRunAlike
  <2> DEFINE m == job.reference
             n == job.candidate
             s == machines["reference"]
             t == machines["candidate"]
  <2> SUFFICES ASSUME phase = "run" PROVE Event("reference") = Event("candidate")
    BY DEF EqualModulesRunAlike
  <2>1. Module["reference"] = m /\ Module["candidate"] = n /\ "reference" \in Roles /\ "candidate" \in Roles
    BY DEF Module, Roles
  <2>2. Sorted(m, s) /\ Sorted(n, t) /\ MachinesAlike(m, n, s, t)
    BY <1>3, <2>1 DEF IInv, MachinesSorted, RunsAlike
  <2> HIDE DEF m, n, s, t
  <2>3. EventOf(m, s) = EventOf(n, t)  BY <2>2, EventsAlike
  <2> QED  BY <2>1, <2>3 DEF Event, s, t
<1> QED  BY <1>1, <1>2, <1>3, StaysSorted, PTL DEF Spec
=============================================================================
