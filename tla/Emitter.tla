------------------------------- MODULE Emitter -------------------------------
(***************************************************************************)
(* src/move_emitter.cpp: what is written for a function whose control flow *)
(* was structured - that, a dispatcher over its blocks, or nothing.        *)
(*                                                                         *)
(* The dispatcher is a loop over a chain of conditionals on a variable of  *)
(* its own, the state.  "StateIs" tests it and "Transition" assigns it;    *)
(* all else has the regions of the structurer.                             *)
(***************************************************************************)
EXTENDS Structurer

StateIs(b) == Expr("StateIs", b, << >>)

Transition(b) == [region("Transition") EXCEPT !.block = b]

IfElse(condition, arms) == [region("If") EXCEPT !.condition = condition, !.children = arms]

ReachableIds(g) == SetToSortSeq({b \in DOMAIN g.cfg : g.cfg[b].reachable}, <)

(* sourceSemanticsComplete: nothing is left that has no source form.       *)
sourceSemanticsComplete(root) == "GotoFallback" \notin Kinds(root)

(* canRenderTypedDispatcher.  The function is plain if its locals are its  *)
(* parameters, these are scalars, and none is moved.                       *)
canRenderTypedDispatcher(g, plain) ==
  /\ plain
  /\ \A b \in Range(ReachableIds(g)) :
       LET t == g.blocks[b].terminator
           valid(target) == target \in DOMAIN g.cfg /\ g.cfg[target].reachable
       IN  CASE t.kind = "Goto" -> valid(t.true_target)
             [] t.kind = "Conditional" -> Len(t.values) = 1 /\ valid(t.true_target) /\ valid(t.false_target)
             [] t.kind = "Return" -> TRUE
             [] t.kind = "Abort" -> Len(t.values) = 1
             [] OTHER -> FALSE

(* Mutant of emitDispatcherTerminator: the two ways are exchanged, as the   *)
(* negated test of BrFalse would have them.                                *)
ExchangedTransitions(t) ==
  CASE t.kind = "Goto" -> Transition(t.true_target)
    [] t.kind = "Conditional" -> IfElse(t.values[1], <<Transition(t.false_target), Transition(t.true_target)>>)
    [] OTHER -> [region(t.kind) EXCEPT !.values = t.values]

emitDispatcherTerminator(t) ==
  CASE t.kind = "Goto" -> Transition(t.true_target)
    [] t.kind = "Conditional" -> IfElse(t.values[1], <<Transition(t.true_target), Transition(t.false_target)>>)
    [] OTHER -> [region(t.kind) EXCEPT !.values = t.values]

(* The body of a block's arm.                                              *)
DispatcherArm(g, b) ==
  sequence(<<basicBlock(g, b), emitDispatcherTerminator(g.blocks[b].terminator)>>)

(* renderTypedDispatcher: the last block is the arm without a test, unless *)
(* it is also the first.                                                   *)
typedDispatcher(g) ==
  LET order == ReachableIds(g)
      first == IfElse(StateIs(order[1]), <<DispatcherArm(g, order[1])>>)
      chain == FoldRight(LAMBDA b, rest : IfElse(StateIs(b), <<DispatcherArm(g, b), rest>>),
                         Front(order), DispatcherArm(g, Last(order)))
  IN  sequence(<<Transition(0),
                 [region("Loop") EXCEPT !.children = <<IF Len(order) = 1 THEN first ELSE chain>>]>>)
=============================================================================
