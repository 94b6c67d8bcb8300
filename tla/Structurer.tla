---------------------------- MODULE Structurer -----------------------------
(***************************************************************************)
(* src/region.cpp: how the structurer turns a control-flow graph into a    *)
(* tree of regions.                                                        *)
(*                                                                         *)
(* The argument g of most operators is what the Structurer object holds:   *)
(* cfg (ControlFlow), analysis (GraphAnalysis) and blocks, the statements  *)
(* and the terminator that expression recovery made of each block.         *)
(*                                                                         *)
(* One boolean local stands for all of them.  An expression is a literal,  *)
(* a read of the local, an atom - a test or a call that only its run can   *)
(* tell the value of - or built from these by the operators that folding   *)
(* introduces.  Of the discarded values there is the reference whose       *)
(* variant a test has looked at, which the arms of the test drop.          *)
(***************************************************************************)
EXTENDS GraphAnalysis

Expr(op, id, operands) == [op |-> op, id |-> id, operands |-> operands]

Atom(id) == Expr("Atom", id, << >>)
TestVariant(id) == Expr("TestVariant", id, << >>)
CopyLoc == Expr("CopyLoc", None, << >>)
booleanLiteral(value) == Expr(IF value THEN "LdTrue" ELSE "LdFalse", None, << >>)
negatedCondition(e) == Expr("Not", None, <<e>>)
compoundCondition(op, left, right) == Expr(op, None, <<left, right>>)

AssignLocal(e) == [kind |-> "AssignLocal", expression |-> e]
Effect(id) == [kind |-> "Effect", expression |-> Atom(id)]

(* The reference that TestVariant(id) looks at is dropped.                 *)
Discard(id) == [kind |-> "Discard", expression |-> Expr("Tested", id, << >>)]

region(kind) ==
  [kind |-> kind, block |-> None, condition_blocks |-> << >>, statements |-> << >>,
   condition |-> None, values |-> << >>, children |-> << >>,
   defects |-> {}]   \* history only: what went wrong on the way to the region

sequence(children) == [region("Sequence") EXCEPT !.children = children]

Empty(r) == r.kind = "Sequence" /\ r.children = << >>

(* append drops an empty sequence, whatever its place in the parent means. *)
append(children, child) == IF Empty(child) THEN children ELSE Append(children, child)

control(kind) == region(kind)

basicBlock(g, b) ==
  [region("BasicBlock") EXCEPT !.block = b, !.statements = g.blocks[b].statements]

Leaves == {"Break", "Continue", "Return", "Abort", "GotoFallback"}

RECURSIVE endsControl(_)
endsControl(r) ==
  \/ r.kind \in Leaves
  \/ r.kind \in {"Sequence", "Loop"} /\ r.children # << >> /\ endsControl(Last(r.children))
  \/ r.kind = "If" /\ Len(r.children) = 2 /\ \A i \in 1 .. 2 : endsControl(r.children[i])

(* History only: the region may end by leaving a loop of its own.          *)
RECURSIVE EndsInLoop(_)
EndsInLoop(r) ==
  \/ r.kind = "Loop"
  \/ r.kind = "Sequence" /\ r.children # << >> /\ EndsInLoop(Last(r.children))
  \/ r.kind = "If" /\ \E i \in DOMAIN r.children : EndsInLoop(r.children[i])
-----------------------------------------------------------------------------
(* Where the blocks after a loop start.                                    *)
LoopOf(g, header) == CHOOSE l \in g.analysis.natural_loops : l.header = header

LoopHeaders(g) == {l.header : l \in g.analysis.natural_loops}

SyntheticExit(g) == Cardinality(DOMAIN g.cfg)

(* The first postdominator of the header that is outside the loop.         *)
RECURSIVE PostdominatorOutside(_, _, _)
PostdominatorOutside(g, loop, b) ==
  LET next == g.analysis.immediate_postdominator[b] IN
    IF next = None \/ next = SyntheticExit(g) THEN None
    ELSE IF next \notin loop.members THEN next ELSE PostdominatorOutside(g, loop, next)

(* Without one, the deepest block that postdominates every exit of the     *)
(* loop which does not itself leave the function.                          *)
CommonExit(g, loop) ==
  LET exits == {e \in UNION {Targets(g.cfg[m].successors) : m \in loop.members} \ loop.members :
                  g.cfg[e].exit \notin {"Return", "Abort"}}
      common == {c \in DOMAIN g.cfg \ loop.members :
                   \A e \in exits : c \in g.analysis.postdominators[e]}
      depth(c) == Cardinality(g.analysis.postdominators[c])
  IN  IF exits = {} \/ common = {} THEN None
      ELSE CHOOSE c \in common : \A d \in common :
             depth(c) > depth(d) \/ (depth(c) = depth(d) /\ c <= d)

loopFollow(g, loop) ==
  LET first == PostdominatorOutside(g, loop, loop.header)
  IN  IF first # None THEN first ELSE CommonExit(g, loop)

(* Breadth first inside the loop, not through its header: the function of  *)
(* the blocks found to their distances.                                    *)
RECURSIVE Layers(_, _, _, _, _)
Layers(g, loop, found, front, k) ==
  IF front = {} THEN found
  ELSE LET more == found @@ [b \in front |-> k]
           next == UNION {Targets(g.cfg[b].successors) : b \in front}
       IN  Layers(g, loop, more,
                  (next \cap loop.members) \ ({loop.header} \cup DOMAIN more), k + 1)

distancesInside(g, start, loop) ==
  Layers(g, loop, << >>, {start} \cap (loop.members \ {loop.header}), 0)

partialJoin(g, left, right, loop) ==
  LET l == distancesInside(g, left, loop)
      r == distancesInside(g, right, loop)
      both == (DOMAIN l) \cap (DOMAIN r)
  IN  IF both = {} THEN None
      ELSE CHOOSE c \in both : \A d \in both :
             l[c] + r[c] < l[d] + r[d] \/ (l[c] + r[c] = l[d] + r[d] /\ c <= d)
-----------------------------------------------------------------------------
(* The mutual recursion build - branch - preTestedLoop - postTestedLoop.   *)
(* active is the LoopContext or None.  trail holds the arguments of the    *)
(* calls of build under way: a call with arguments on the trail never      *)
(* returns, which the region kind "Endless" stands for.                    *)
RECURSIVE build(_, _, _, _, _, _), buildFrom(_, _, _, _, _, _, _),
          branch(_, _, _, _, _, _), loopRegion(_, _, _, _)

Inside(g, active, b) == b \in LoopOf(g, active.loop).members

(* Where the arms of the conditional block b meet again.                   *)
joinOf(g, b, stop, active) ==
  LET t == g.blocks[b].terminator
      post == g.analysis.immediate_postdominator[b]
      join == IF post = SyntheticExit(g) THEN None ELSE post
  IN  IF active = None THEN join
      ELSE LET loop == LoopOf(g, active.loop)
               meets == /\ stop # None /\ stop \in loop.members
                        /\ stop \in DOMAIN distancesInside(g, t.true_target, loop)
                                      \cup DOMAIN distancesInside(g, t.false_target, loop)
               near == IF meets THEN stop ELSE join
           IN  IF near = None \/ near \in loop.members THEN near
               ELSE LET partial == partialJoin(g, t.true_target, t.false_target, loop)
                    IN  IF partial # None THEN partial ELSE active.follow

(* Mutant of branch: a jump out of the loop to its follow is not a break.  *)
BranchWithoutBreak(g, target, stop, active, path, trail) ==
  IF active # None /\ target = active.loop THEN control("Continue")
  ELSE IF active # None /\ ~Inside(g, active, target) THEN
    IF active.follow = None
    THEN sequence(append(<< >>, build(g, target, None, None, path, trail)))
    ELSE sequence(IF target = active.follow THEN << >>
                  ELSE append(<< >>, build(g, target, active.follow, None, path, trail)))
  ELSE IF target = stop THEN sequence(<< >>)
  ELSE build(g, target, stop, active, path, trail)

(* Mutant of branch: the blocks of a loop are built without their loop.     *)
BranchForgetsLoop(g, target, stop, active, path, trail) ==
  IF active # None /\ target = active.loop THEN control("Continue")
  ELSE IF active # None /\ target = active.follow THEN sequence(<<control("Break")>>)
  ELSE IF target = stop THEN sequence(<< >>)
  ELSE build(g, target, stop, None, path, trail)

branch(g, target, stop, active, path, trail) ==
  IF active # None /\ target = active.loop THEN control("Continue")
  ELSE IF active # None /\ ~Inside(g, active, target) THEN
    IF active.follow = None
    THEN sequence(append(<< >>, build(g, target, None, None, path, trail)))
    ELSE LET out == IF target = active.follow THEN << >>
                    ELSE append(<< >>, build(g, target, active.follow, None, path, trail))
             left == sequence(out)
         IN  IF endsControl(left)
             THEN [left EXCEPT !.defects = IF EndsInLoop(left) THEN {"Break"} ELSE {}]
             ELSE sequence(Append(out, control("Break")))
  ELSE IF target = stop THEN sequence(<< >>)
  ELSE build(g, target, stop, active, path, trail)

build(g, start, stop, active, path, trail) ==
  LET call == <<start, stop, active, path>> IN
    IF call \in trail THEN region("Endless")
    ELSE buildFrom(g, start, stop, active, path, trail \cup {call}, << >>)

(* Mutant of EntersLoop: also from within the loop.                        *)
EntersLoopAgain(g, b, active) == b \in LoopHeaders(g)

EntersLoop(g, b, active) == b \in LoopHeaders(g) /\ (active = None \/ active.loop # b)

(* The loop of build; done are the children appended so far.               *)
buildFrom(g, current, stop, active, path, trail, done) ==
  LET t == g.blocks[current].terminator
      visited == path \cup {current}
      here == Append(done, basicBlock(g, current))
      ending(kind) == sequence(Append(here, [region(kind) EXCEPT !.values = t.values]))
      join == joinOf(g, current, stop, active)
      arms == << branch(g, t.true_target, join, active, visited, trail),
                 branch(g, t.false_target, join, active, visited, trail) >>
      if == [region("If") EXCEPT !.condition = t.values[1],
                                 !.children = SelectSeq(arms, LAMBDA a : ~Empty(a)),
                                 !.defects = IF Empty(arms[1]) /\ ~Empty(arms[2])
                                             THEN {"TrueArm"} ELSE {}]
  IN
  IF current = stop THEN sequence(done)
  ELSE IF ~g.cfg[current].reachable THEN sequence(Append(done, control("GotoFallback")))
  ELSE IF current \in path
       THEN sequence(Append(done, control(IF active # None /\ current = active.loop
                                          THEN "Continue" ELSE "GotoFallback")))
  ELSE IF EntersLoop(g, current, active)
       THEN LET loop == LoopOf(g, current)
                follow == loopFollow(g, loop)
                through == append(done, loopRegion(g, loop, follow, trail))
            IN  IF follow = None THEN sequence(through)
                ELSE buildFrom(g, follow, stop, active, visited, trail, through)
  ELSE CASE t.kind \in {"Return", "Abort"} -> ending(t.kind)
         [] t.kind = "Goto" ->
              IF active # None /\ (t.true_target = active.loop
                                   \/ ~Inside(g, active, t.true_target))
              THEN sequence(append(here, branch(g, t.true_target, stop, active, visited, trail)))
              ELSE buildFrom(g, t.true_target, stop, active, visited, trail, here)
         [] t.kind = "Conditional" ->
              IF join = None \/ join = stop
                 \/ (active # None /\ ~Inside(g, active, join))
              THEN sequence(Append(here, if))
              ELSE buildFrom(g, join, stop, active, visited, trail, Append(here, if))
         [] OTHER -> sequence(Append(here, control("GotoFallback")))

(* preTestedLoop: an empty header that leaves to the follow on one side.   *)
IsPreTested(g, loop, follow) ==
  LET header == g.blocks[loop.header]
      t == header.terminator
  IN  /\ follow # None
      /\ header.statements = << >> /\ t.kind = "Conditional"
      /\ (t.true_target \in loop.members) # (t.false_target \in loop.members)
      /\ follow \in {t.true_target, t.false_target} \ loop.members

(* postTestedLoop: a single latch that repeats on one side and leaves to   *)
(* the follow on the other.                                                *)
IsPostTested(g, loop, follow) ==
  /\ follow # None /\ Cardinality(loop.latches) = 1
  /\ LET t == g.blocks[CHOOSE l \in loop.latches : TRUE].terminator
     IN  /\ t.kind = "Conditional"
         /\ (t.true_target = loop.header) # (t.false_target = loop.header)
         /\ follow = IF t.true_target = loop.header THEN t.false_target ELSE t.true_target

WithoutTrailingContinue(body) ==
  IF body.kind = "Sequence" /\ body.children # << >> /\ Last(body.children).kind = "Continue"
  THEN sequence(Front(body.children)) ELSE body

(* The test that keeps a pre-tested loop going, and the one that ends a    *)
(* post-tested loop.                                                       *)
HeaderTest(top, inside) ==
  IF inside THEN top.values[1] ELSE negatedCondition(top.values[1])

LatchTest(test, header) ==
  IF test.true_target = header THEN negatedCondition(test.values[1]) ELSE test.values[1]

loopRegion(g, loop, follow, trail) ==
  LET h == loop.header
      active == [loop |-> h, follow |-> follow]
      top == g.blocks[h].terminator
      latch == CHOOSE l \in loop.latches : TRUE
      test == g.blocks[latch].terminator
  IN
  IF IsPreTested(g, loop, follow)
  THEN LET inside == top.true_target \in loop.members
           body == build(g, IF inside THEN top.true_target ELSE top.false_target,
                         follow, active, {h}, trail)
       IN  [region("While") EXCEPT
              !.block = h,
              !.condition = HeaderTest(top, inside),
              !.children = append(<<basicBlock(g, h)>>, WithoutTrailingContinue(body))]
  ELSE IF IsPostTested(g, loop, follow)
  THEN [region("PostTestLoop") EXCEPT
          !.block = h,
          !.condition = LatchTest(test, h),
          !.children = Append(append(<< >>, build(g, h, latch, active, {}, trail)),
                              basicBlock(g, latch))]
  ELSE [region("Loop") EXCEPT
          !.block = h,
          !.children = append(<< >>, build(g, h, follow, active, {}, trail))]
-----------------------------------------------------------------------------
(* The four passes over the tree, each bottom up.                          *)
RECURSIVE Regions(_)
Regions(r) == {r} \cup UNION {Regions(r.children[i]) : i \in DOMAIN r.children}

Defects(r) == UNION {x.defects : x \in Regions(r)}

EmptyBlock(r) == r.kind = "BasicBlock" /\ r.statements = << >> /\ r.block # None

BlocksOf(children) == LET empty == SelectSeq(children, EmptyBlock)
                      IN  [i \in DOMAIN empty |-> empty[i].block]

(* The one region with the property among empty blocks, by itself or in a  *)
(* sequence; a sequence of at most one such region.                        *)
Sole(r, Wanted(_)) ==
  LET rest == SelectSeq(r.children, LAMBDA c : ~EmptyBlock(c)) IN
    IF Wanted(r) THEN <<r>>
    ELSE IF r.kind = "Sequence" /\ Len(rest) = 1 /\ Wanted(rest[1]) THEN rest
    ELSE << >>

TwoArmed(r) == r.kind = "If" /\ Len(r.children) = 2

RECURSIVE expressionUsesLocal(_), regionUsesLocal(_)
expressionUsesLocal(e) ==
  e = CopyLoc \/ \E i \in DOMAIN e.operands : expressionUsesLocal(e.operands[i])

(* Mutant of regionUsesLocal: the regions within the region are not searched. *)
UsesLocalHere(r) ==
  \/ r.condition # None /\ expressionUsesLocal(r.condition)
  \/ \E i \in DOMAIN r.statements :
       r.statements[i].kind = "AssignLocal" \/ expressionUsesLocal(r.statements[i].expression)
  \/ \E i \in DOMAIN r.values : expressionUsesLocal(r.values[i])

regionUsesLocal(r) ==
  \/ r.condition # None /\ expressionUsesLocal(r.condition)
  \/ \E i \in DOMAIN r.statements :
       r.statements[i].kind = "AssignLocal" \/ expressionUsesLocal(r.statements[i].expression)
  \/ \E i \in DOMAIN r.values : expressionUsesLocal(r.values[i])
  \/ \E i \in DOMAIN r.children : regionUsesLocal(r.children[i])

(* rewriteReturnedConditionLocal: an arm that does no more than drop the   *)
(* tested reference and return the local returns what the test has made of *)
(* it, and drops nothing.                                                  *)
ReturnsLocal(r) == r.kind = "Return" /\ r.values = <<CopyLoc>>

enumCleanup(r, test) == r.kind = "BasicBlock" /\ r.statements = <<Discard(test.id)>>

(* Mutant of ReturnedAs: both arms return the value of the arm taken when  *)
(* the test holds.                                                         *)
ReturnedAsTrue(arm, value, test) ==
  IF ReturnsLocal(arm) THEN [arm EXCEPT !.values = <<booleanLiteral(TRUE)>>]
  ELSE [arm EXCEPT !.children =
          [i \in DOMAIN @ |-> IF ReturnsLocal(@[i])
                              THEN [@[i] EXCEPT !.values = <<booleanLiteral(TRUE)>>]
                              ELSE @[i]]]

ReturnedAs(arm, value, test) ==
  LET rest == SelectSeq(arm.children, LAMBDA r : ~EmptyBlock(r) /\ ~enumCleanup(r, test))
      rewritten(r) ==
        IF ReturnsLocal(r) THEN [r EXCEPT !.values = <<booleanLiteral(value)>>]
        ELSE IF enumCleanup(r, test) THEN [r EXCEPT !.statements = << >>]
        ELSE r
  IN  IF ReturnsLocal(arm) THEN rewritten(arm)
      ELSE IF arm.kind = "Sequence" /\ Len(rest) = 1 /\ ReturnsLocal(rest[1])
      THEN [arm EXCEPT !.children = [i \in DOMAIN @ |-> rewritten(@[i])]]
      ELSE arm

(* An enum test kept in the local for the test that follows it at once.    *)
EnumTemporary(header, conditional) ==
  /\ header.kind = "BasicBlock" /\ Len(header.statements) = 1
  /\ header.statements[1].kind = "AssignLocal"
  /\ header.statements[1].expression.op = "TestVariant"
  /\ TwoArmed(conditional) /\ conditional.condition = CopyLoc

RECURSIVE foldEnumConditionTemporaries(_), EnumTemporariesFrom(_, _)
EnumTemporariesFrom(children, i) ==
  IF i + 1 > Len(children) THEN children
  ELSE LET header == children[i]
           conditional == children[i + 1]
           test == header.statements[1].expression
           arms == << ReturnedAs(conditional.children[1], TRUE, test),
                      ReturnedAs(conditional.children[2], FALSE, test) >>
           next ==
             IF ~EnumTemporary(header, conditional) THEN children
             ELSE IF \E k \in 1 .. 2 : regionUsesLocal(arms[k])
                  THEN [children EXCEPT ![i + 1].children = arms]
             ELSE [children EXCEPT
                     ![i].statements = << >>,
                     ![i + 1].children = arms,
                     ![i + 1].condition = test]
       IN  EnumTemporariesFrom(next, i + 1)

foldEnumConditionTemporaries(r) ==
  LET folded == [i \in DOMAIN r.children |-> foldEnumConditionTemporaries(r.children[i])]
  IN  [r EXCEPT !.children = IF r.kind = "Sequence" THEN EnumTemporariesFrom(folded, 1)
                             ELSE folded]

nestedConditional(r) == Sole(r, TwoArmed)

NestedBlocks(arm, nested) ==
  (IF arm.kind = "Sequence" THEN BlocksOf(arm.children) ELSE << >>) \o nested.condition_blocks

RECURSIVE Unmarked(_)
Unmarked(r) == [r EXCEPT !.defects = {}, !.children = [i \in DOMAIN @ |-> Unmarked(@[i])]]

sameRegion(left, right) == Unmarked(left) = Unmarked(right)

(* Mutant of compoundStep: the common arm of an and is not compared.       *)
CompoundWithoutCommonArm(r) ==
  LET inTrue == nestedConditional(r.children[1])
  IN  IF inTrue # << >>
      THEN <<[r EXCEPT
                !.defects = Defects(r),
                !.condition = compoundCondition("And", r.condition, inTrue[1].condition),
                !.condition_blocks = @ \o NestedBlocks(r.children[1], inTrue[1]),
                !.children = << inTrue[1].children[1], r.children[2] >>]>>
      ELSE << >>

(* a && b with a common false arm, or a || b with a common true arm.       *)
compoundStep(r) ==
  LET inTrue == nestedConditional(r.children[1])
      inFalse == nestedConditional(r.children[2])
  IN  IF inTrue # << >> /\ sameRegion(r.children[2], inTrue[1].children[2])
      THEN <<[r EXCEPT
                !.defects = Defects(r),
                !.condition = compoundCondition("And", r.condition, inTrue[1].condition),
                !.condition_blocks = @ \o NestedBlocks(r.children[1], inTrue[1]),
                !.children = << inTrue[1].children[1], r.children[2] >>]>>
      ELSE IF inFalse # << >> /\ sameRegion(r.children[1], inFalse[1].children[1])
      THEN <<[r EXCEPT
                !.defects = Defects(r),
                !.condition = compoundCondition("Or", r.condition, inFalse[1].condition),
                !.condition_blocks = @ \o NestedBlocks(r.children[2], inFalse[1]),
                !.children = << r.children[1], inFalse[1].children[2] >>]>>
      ELSE << >>

RECURSIVE foldCompoundConditions(_), Compounded(_)
Compounded(r) ==
  IF ~TwoArmed(r) \/ compoundStep(r) = << >> THEN r ELSE Compounded(compoundStep(r)[1])

foldCompoundConditions(r) ==
  Compounded([r EXCEPT !.children = [i \in DOMAIN @ |-> foldCompoundConditions(@[i])]])

terminalAbort(r) == Sole(r, LAMBDA c : c.kind = "Abort" /\ Len(c.values) = 1)

AssertionOf(r, onTrue) ==
  LET aborting == r.children[IF onTrue THEN 1 ELSE 2]
      continuation == r.children[IF onTrue THEN 2 ELSE 1]
      assertion == [region("Assert") EXCEPT
                      !.defects = Defects(r),
                      !.condition = IF onTrue THEN negatedCondition(r.condition)
                                    ELSE r.condition,
                      !.values = terminalAbort(aborting)[1].values,
                      !.condition_blocks = r.condition_blocks \o BlocksOf(aborting.children)]
  IN  sequence(<<assertion, continuation>>)

(* One arm only aborts, the other does not: an assertion.                  *)
RECURSIVE foldAssertions(_)
foldAssertions(r) ==
  LET f == [r EXCEPT !.children = [i \in DOMAIN @ |-> foldAssertions(@[i])]]
      aborts(i) == terminalAbort(f.children[i]) # << >>
  IN  IF TwoArmed(f) /\ aborts(1) # aborts(2) THEN AssertionOf(f, aborts(1)) ELSE f

terminalReturn(r) == Sole(r, LAMBDA c : c.kind = "Return" /\ c.values # << >>)

(* The assignment of an arm that does nothing else.                        *)
branchAssignment(r) ==
  LET blocks == IF r.kind = "Sequence" THEN r.children ELSE <<r>>
      busy == SelectSeq(blocks, LAMBDA b : b.statements # << >>)
  IN  IF /\ \A i \in DOMAIN blocks : blocks[i].kind = "BasicBlock" /\ blocks[i].block # None
         /\ Len(busy) = 1 /\ Len(busy[1].statements) = 1
         /\ busy[1].statements[1].kind = "AssignLocal"
      THEN busy[1].statements ELSE << >>

(* Mutant of conditionalExpression: or and and are exchanged.              *)
ConditionalExchanged(c, t, f) ==
  CASE t = f -> t
    [] t # f /\ t.op = "LdTrue" -> compoundCondition("And", c, f)
    [] t # f /\ t.op # "LdTrue" /\ f.op = "LdFalse" -> compoundCondition("Or", c, t)
    [] OTHER -> Expr("Conditional", None, <<c, t, f>>)

conditionalExpression(c, t, f) ==
  IF t = f THEN t
  ELSE IF t.op = "LdTrue" /\ f.op = "LdFalse" THEN c
  ELSE IF t.op = "LdFalse" /\ f.op = "LdTrue" THEN negatedCondition(c)
  ELSE IF t.op = "LdTrue" THEN compoundCondition("Or", c, f)
  ELSE IF f.op = "LdFalse" THEN compoundCondition("And", c, t)
  ELSE Expr("Conditional", None, <<c, t, f>>)

CoveredByArms(r) ==
  LET blocks(arm) == IF arm.kind = "Sequence" THEN arm.children ELSE <<arm>>
      covered(arm) ==
        FlattenSeq([i \in DOMAIN blocks(arm) |->
                      (IF blocks(arm)[i].block = None THEN << >> ELSE <<blocks(arm)[i].block>>)
                        \o blocks(arm)[i].condition_blocks])
  IN  r.condition_blocks \o covered(r.children[1]) \o covered(r.children[2])

(* History only: the condition is evaluated for each value that differs,   *)
(* after the values before it.  It is evaluated once and first where one   *)
(* value differs and nothing happens in those before it.                   *)
RECURSIVE Observable(_)
Observable(e) ==
  e.op \in {"Atom", "TestVariant"} \/ \E i \in DOMAIN e.operands : Observable(e.operands[i])

OnceAndFirst(ts, fs) ==
  \E k \in DOMAIN ts : /\ \A i \in DOMAIN ts : ts[i] # fs[i] <=> i = k
                       /\ \A i \in 1 .. k - 1 : ~Observable(ts[i])

FoldDefects(r, ts, fs) ==
  Defects(r) \cup
    IF Observable(r.condition) /\ ~OnceAndFirst(ts, fs) THEN {"Condition"} ELSE {}

RECURSIVE foldConditionalExpressions(_)
foldConditionalExpressions(r) ==
  LET k == [r EXCEPT !.children = [i \in DOMAIN @ |-> foldConditionalExpressions(@[i])]]
      returns == [i \in 1 .. 2 |-> terminalReturn(k.children[i])]
      assigns == [i \in 1 .. 2 |-> branchAssignment(k.children[i])]
      values(i) == returns[i][1].values
  IN
  IF ~TwoArmed(k) THEN k
  ELSE IF returns[1] # << >> /\ returns[2] # << >> /\ Len(values(1)) = Len(values(2))
  THEN [region("Return") EXCEPT
          !.defects = FoldDefects(k, values(1), values(2)),
          !.condition_blocks = CoveredByArms(k),
          !.values = [i \in DOMAIN values(1) |->
                        conditionalExpression(k.condition, values(1)[i], values(2)[i])]]
  ELSE IF assigns[1] # << >> /\ assigns[2] # << >>
  THEN [region("BasicBlock") EXCEPT
          !.defects = FoldDefects(k, <<assigns[1][1].expression>>, <<assigns[2][1].expression>>),
          !.condition_blocks = CoveredByArms(k),
          !.statements = <<AssignLocal(conditionalExpression(k.condition,
                             assigns[1][1].expression, assigns[2][1].expression))>>]
  ELSE k

(* collectCoverage: how often block b is in the tree.                      *)
RECURSIVE Covers(_, _)
Covers(r, b) ==
  Cardinality({i \in DOMAIN r.condition_blocks : r.condition_blocks[i] = b})
    + (IF r.kind = "BasicBlock" /\ r.block = b THEN 1 ELSE 0)
    + FoldLeft(LAMBDA n, child : n + Covers(child, b), 0, r.children)

Kinds(root) == {r.kind : r \in Regions(root)}

structureControlFlow(g) ==
  LET built == build(g, 0, None, None, {}, {})
      root == foldConditionalExpressions(foldAssertions(
                foldCompoundConditions(foldEnumConditionTemporaries(built))))
      reachable == {b \in DOMAIN g.cfg : g.cfg[b].reachable}
      missing == {b \in reachable : Covers(root, b) = 0}
  IN  [root     |-> root,
       returns  |-> "Endless" \notin Kinds(built),
       missing_blocks |-> missing,
       duplicated_blocks |-> {b \in reachable : Covers(root, b) > 1},
       complete |-> /\ reducible(g.analysis) /\ missing = {}
                    /\ "GotoFallback" \notin Kinds(built)]
=============================================================================
