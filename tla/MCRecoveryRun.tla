--------------------------- MODULE MCRecoveryRun ---------------------------
(***************************************************************************)
(* Small functions for RecoveryRun: all well-typed bodies up to a length   *)
(* over some small alphabets, some that use the stack badly, and bodies    *)
(* that combine all ranks of operators.                                    *)
(***************************************************************************)
EXTENDS RecoveryRun

None == -1
NoAtom == -2

(* An instruction with the kinds of what it takes and leaves: u a number,  *)
(* b a truth value, s a struct, c a closure, r a reference.                *)
Make(op, arg, takes, leaves) == [op |-> op, arg |-> arg, takes |-> takes, leaves |-> leaves]
Plain(op, takes, leaves) == Make(op, None, takes, leaves)

Call == Plain("Call", << >>, <<"u">>)
CallTwo == Plain("Call", << >>, <<"u", "u">>)
Test == Make("Call", Predicate, << >>, <<"b">>)
Copy == Make("CopyLoc", 0, << >>, <<"u">>)
Store == Make("StLoc", 0, <<"u">>, << >>)
Drop == Plain("Pop", <<"u">>, << >>)
Add == Plain("Add", <<"u", "u">>, <<"u">>)
Less == Plain("Lt", <<"u", "u">>, <<"b">>)
Both == Plain("And", <<"b", "b">>, <<"b">>)
Either == Plain("Or", <<"b", "b">>, <<"b">>)
Not == Plain("Not", <<"b">>, <<"b">>)
Branching(op, target) == Make(op, target, <<"b">>, << >>)

Effects == {Call, CallTwo, Copy, Store, Drop, Add}
Booleans == {Plain("LdTrue", << >>, <<"b">>), Test, Not, Both, Either}
Numbers == {Test, Call, Copy, Less, Both, Plain("Negate", <<"u">>, <<"u">>)}
Structs == {Copy, Call, Plain("Pack", <<"u", "u">>, <<"s">>), Plain("Unpack", <<"s">>, <<"u", "u">>),
            Plain("PackClosure", <<"u">>, <<"c">>), Plain("CallClosure", <<"c">>, <<"u">>), Store}
References == {Copy, Call, Make("MutBorrowLoc", 0, << >>, <<"r">>), Plain("WriteRef", <<"u", "r">>, << >>),
               Plain("ReadRef", <<"r">>, <<"u">>), Plain("VecPushBack", <<"r", "u">>, << >>)}
Conditions == {Test, Not, Both, Call, Store}

Fits(stack, i) ==
  Len(stack) >= Len(i.takes) /\ SubSeq(stack, Len(stack) - Len(i.takes) + 1, Len(stack)) = i.takes
After(stack, i) == SubSeq(stack, 1, Len(stack) - Len(i.takes)) \o i.leaves

(* Bodies of n instructions, with the stack they leave.                    *)
RECURSIVE Bodies(_, _)
Bodies(alphabet, n) ==
  IF n = 0 THEN {[body |-> << >>, stack |-> << >>]}
  ELSE UNION {{[body |-> Append(p.body, i), stack |-> After(p.stack, i)] :
               i \in {j \in alphabet : Fits(p.stack, j)}} : p \in Bodies(alphabet, n - 1)}

Assemble(body) ==
  [k \in 0 .. Len(body) - 1 |->
     [op |-> body[k + 1].op, arg |-> body[k + 1].arg, arity |-> <<Len(body[k + 1].takes), Len(body[k + 1].leaves)>>]]

Function(body) == [code |-> Assemble(body), runs |-> TRUE]
Returning(p) == Function(Append(p.body, Plain("Ret", p.stack, << >>)))

Straight(alphabet, n, width) ==
  {Returning(p) : p \in {q \in Bodies(alphabet, n) : Len(q.stack) <= width}}

(* A branch on what is left, over a body, to a return or an abort.         *)
Ends == {<<Call, Plain("Ret", <<"u">>, << >>)>>, <<Copy, Plain("Abort", <<"u">>, << >>)>>,
         <<Copy, Call, Plain("AbortMsg", <<"u", "u">>, << >>)>>}
Forked ==
  {Function(p.body \o <<Branching(op, Len(p.body) + 1 + Len(middle))>> \o middle \o end) :
     op \in {"BrTrue", "BrFalse"}, end \in Ends,
     middle \in {<<Plain("Nop", << >>, << >>)>>, <<Call, Store>>} \cup Ends,
     p \in UNION {{q \in Bodies(Conditions, n) : q.stack = <<"b">>} : n \in 1 .. 3}}

(* Once round a loop, and back.                                            *)
Looping ==
  {Function(p.body \o <<Branching("BrFalse", Len(p.body) + 4), Copy, Store, Make("Branch", 0, << >>, << >>),
                        Plain("Ret", << >>, << >>)>>) :
     p \in {q \in Bodies(Conditions, 2) : q.stack = <<"b">>}}

(* Bodies that underflow, or leave something to the next block.            *)
Unbalanced ==
  {Function(<<i, j, Branching("BrTrue", 3), Plain("Ret", << >>, << >>)>>) : i, j \in {Call, Drop, Test, Store}}

(* Three operators of any ranks over four operands, grouped in all ways,   *)
(* with a negation somewhere: only written, not run.                       *)
Operand == Plain("LdU64", << >>, <<"u">>)
Operators == {Plain(op, <<"u", "u">>, <<"u">>) :
                op \in {"Or", "And", "Eq", "BitOr", "Xor", "BitAnd", "Shl", "Sub", "Mul"}}
Unaries == {Plain(op, <<"u">>, <<"u">>) : op \in {"Not", "Negate"}}
Written3 ==
  LET end == Plain("Ret", <<"u">>, << >>)
      unrun(body) == [code |-> Assemble(Append(body, end)), runs |-> FALSE]
      x == Operand
  IN  {unrun(body) : body \in UNION {
        {<<x, x, a, x, b>>, <<x, x, x, b, a>>, <<x, x, a, n, x, b>>, <<x, x, x, b, n, n, a, n>>} :
           a \in Operators, b \in Operators, n \in Unaries}}
      \cup {unrun(body) : body \in UNION {
        {<<x, x, a, x, b, x, a>>, <<x, x, a, x, x, b, a>>, <<x, x, x, x, a, b, a>>, <<x, x, x, a, b, x, a>>} :
           a \in Operators, b \in Operators}}

MCPrograms ==
  UNION {Straight(Effects, n, 2) : n \in 1 .. 5} \cup UNION {Straight(Booleans, n, 1) : n \in 1 .. 5}
  \cup UNION {Straight(Structs, n, 2) : n \in 1 .. 5} \cup UNION {Straight(References, n, 1) : n \in 1 .. 5}
  \cup Straight(Numbers, 6, 1) \cup Forked \cup Looping \cup Unbalanced \cup Written3

(* Eager conjunctions of x: u8 and y: u64, as in x < x && y as u8 < x; the *)
(* cast to u8 aborts where y does not fit.                                 *)
CopyWide == Make("CopyLoc", 1, << >>, <<"w">>)
Cast == Plain("CastU8", <<"w">>, <<"u">>)

EagerPrograms ==
  {Function(<<Copy, Copy, Less>> \o right \o <<Both, Plain("Ret", <<"b">>, << >>)>>) :
     right \in {<<Copy, Copy, Less>>, <<CopyWide, Cast, Copy, Less>>,
                <<CopyWide, Cast, CopyWide, Cast, Less>>}}
=============================================================================
