--------------------------- MODULE BehaviorTests ---------------------------
(***************************************************************************)
(* runBehavioralTests (src/round_trip.cpp:983-1014): the same tests are    *)
(* run on the reference package and then on the candidate, each by an      *)
(* attempt of its own, and what the two logs say is compared.  A call that *)
(* looks for modules is a compilation, one attempt alone.                  *)
(***************************************************************************)
EXTENDS CompilerProcess

VARIABLES reference, candidate

behaviorVars == <<vars, reference, candidate>>

(* The attempt that returned, and, to compare with, what was run.          *)
Returned == [attempt |-> result, ran |-> ran, ending |-> ending, printed |-> printed]

BehaviorInit == Init /\ reference = None /\ candidate = None

AttemptStep == Next /\ UNCHANGED <<reference, candidate>>

(* The next attempt has a process and a log of its own.                    *)
StartCandidate ==
  /\ parent = "returned" /\ reference = None /\ ~discover_modules
  /\ reference' = Returned
  /\ parent' = "forking" /\ timed_out' = FALSE /\ status' = None /\ late' = FALSE
  /\ child' = "none" /\ group' = "parent's" /\ ran' = FALSE /\ ending' = None
  /\ helper' = "none" /\ log' = None /\ printed' = <<>> /\ built' = 0
  /\ result' = None
  /\ UNCHANGED <<givenVars, candidate>>

Compare ==
  /\ parent = "returned" /\ reference # None /\ candidate = None
  /\ candidate' = Returned
  /\ UNCHANGED <<vars, reference>>

BehaviorNext == AttemptStep \/ StartCandidate \/ Compare

BehaviorSpec == BehaviorInit /\ [][BehaviorNext]_behaviorVars

(* The parent runs and time passes; the child need not do anything.        *)
FairBehaviorSpec ==
  /\ BehaviorSpec
  /\ WF_behaviorVars(Parent /\ UNCHANGED <<reference, candidate>>)
  /\ WF_behaviorVars(DeadlinePasses /\ UNCHANGED <<reference, candidate>>)
  /\ WF_behaviorVars(StartCandidate \/ Compare)
-----------------------------------------------------------------------------
(* The cases of a log, which has its summary at the end.                   *)
Cases(lines) == [i \in {k \in DOMAIN lines : lines[k] # "Test result"} |-> lines[i]]

(* parseBehavioralTrace.  Abort codes and storage of a failed case belong  *)
(* to its line; there is always a harness.                                 *)
Trace(a) == [cases |-> Cases(a.output),
             summary_seen |-> \E i \in DOMAIN a.output : a.output[i] = "Test result"]

allPassed(trace) ==
  trace.summary_seen /\ DOMAIN trace.cases # {}
    /\ \A i \in DOMAIN trace.cases : trace.cases[i] = "case passed"

(* Mutant of observationsEquivalent: no summary is asked for.              *)
TracesAlike(r, c) == Trace(r) = Trace(c)

observationsEquivalent(r, c) ==
  Trace(r).summary_seen /\ Trace(c).summary_seen /\ Trace(r) = Trace(c)

allObservedOutcomesEquivalent(r, c) ==
  completed(r) /\ completed(c) /\ observationsEquivalent(r, c)
    /\ DOMAIN Trace(r).cases # {}

allCasesPassed(r, c) ==
  succeeded(r) /\ succeeded(c) /\ observationsEquivalent(r, c) /\ allPassed(Trace(r))

(* round_trip.hpp:149-163.  Outcomes that are called equivalent are those  *)
(* of two test runs that came to their own end, with all their cases.      *)
EqualOutcomesAreReal ==
  candidate # None /\ allObservedOutcomesEquivalent(reference.attempt, candidate.attempt) =>
    /\ \A r \in {reference, candidate} : r.ran /\ r.ending.by = "exit"
    /\ Cases(reference.printed) = Cases(candidate.printed)
    /\ allCasesPassed(reference.attempt, candidate.attempt) =>
         \A r \in {reference, candidate} :
           r.ending = Exited(0) /\ "case failed" \notin {r.printed[i] : i \in DOMAIN r.printed}

(* round_trip.cpp:253, 295, 310.  Every call ends, whatever the compiler   *)
(* does, and even if the child is never scheduled.                         *)
ComparisonEnds ==
  <>(parent = "failed" \/ candidate # None \/ (parent = "returned" /\ discover_modules))
=============================================================================
