---------------------------- MODULE CompilerProof ---------------------------
(***************************************************************************)
(* For every limit on the output: an attempt leaves no process behind,     *)
(* succeeds only if the compiler did, tells truncated output from whole    *)
(* output, and tests called equivalent are tests that ran to their end.    *)
(***************************************************************************)
EXTENDS BehaviorTests, TLAPS

(* Where the parent and the child can be at the same time.                 *)
Processes ==
  /\ child = "none" => parent \in {"forking", "failed"}
  /\ parent = "forking" => child = "none"
  /\ child \in {"grouped", "logging", "compiling"} => group = "own"
  /\ Alive => parent \in {"forked", "polling", "checking"}
  /\ Alive /\ parent \in {"polling", "checking"} => group = "own"
  /\ parent \in {"reading", "returned", "failed"} => child \in {"none", "gone"}
  /\ timed_out <=> parent = "reaping" \/ (timed_out /\ parent \in {"reading", "returned", "failed"})
  /\ timed_out => helper # "running"

(* How the child ended, and what the parent learned of it.                 *)
Endings ==
  /\ child \in {"ended", "gone"} => ending \in Statuses
  /\ child = "compiling" => ran
  /\ child \in {"none", "forked", "grouped", "logging"} => ~ran
  /\ ~ran /\ child \in {"ended", "gone"} =>
       ending \in {Exited(126), Exited(127), Signalled(SIGKILL)}
  /\ parent \in {"reading", "returned"} => status = ending /\ status \in Statuses
  /\ timed_out => late
  /\ child \in {"ended", "gone"} /\ ending = Signalled(SIGKILL) => timed_out

SummaryAtEnd(lines) == \A i \in 1 .. Len(lines) : lines[i] = "Test result" => i = Len(lines)

(* The log is what was printed, as far as there was room; nothing follows  *)
(* a summary.                                                              *)
Logged ==
  /\ child = "logging" \/ ran => log # None
  /\ ~ran => printed = <<>>
  /\ log # None => log = First(Room, printed)
  /\ SummaryAtEnd(printed)

Resulted == parent = "returned" => log # None /\ result = Attempt

(* What is known of an attempt that was kept for the comparison.           *)
Kept(r) ==
  /\ r.printed \in Seq(Line)
  /\ SummaryAtEnd(r.printed)
  /\ r.attempt.output = First(MaxOutput, First(Room, r.printed))
  /\ ~r.ran => r.printed = <<>>
  /\ completed(r.attempt) => r.ending.by = "exit"
  /\ succeeded(r.attempt) => r.ending = Exited(0)

Compared ==
  /\ reference # None => Kept(reference)
  /\ candidate # None => reference # None /\ Kept(candidate)

AttemptInv == TypeOK /\ Processes /\ Endings /\ Logged /\ Resulted

IInv == AttemptInv /\ Compared
-----------------------------------------------------------------------------
LEMMA DomainOfSequence ==
  ASSUME NEW S, NEW s \in Seq(S)
  PROVE  Len(s) \in Nat /\ DOMAIN s = 1 .. Len(s)
OBVIOUS

(* What was nowhere in a sequence can only be at its end when it grows.    *)
LEMMA OnlyTheLastIsNew ==
  ASSUME NEW S, NEW s \in Seq(S), NEW x \in S, NEW v, \A i \in 1 .. Len(s) : s[i] # v
  PROVE  \A i \in 1 .. Len(Append(s, x)) : Append(s, x)[i] = v => i = Len(Append(s, x))
OBVIOUS

(* The beginning of a sequence.                                            *)
LEMMA FirstProperties ==
  ASSUME NEW S, NEW s \in Seq(S), NEW n \in Nat
  PROVE  /\ First(n, s) \in Seq(S)
         /\ Len(First(n, s)) <= n /\ Len(First(n, s)) <= Len(s)
         /\ Len(s) <= n => First(n, s) = s
         /\ Len(s) > n => Len(First(n, s)) = n
         /\ \A i \in 1 .. Len(First(n, s)) : First(n, s)[i] = s[i]
BY DEF First

LEMMA FirstOfAppend ==
  ASSUME NEW S, NEW s \in Seq(S), NEW x \in S, NEW n \in Nat
  PROVE  /\ Len(First(n, s)) < n => First(n, Append(s, x)) = Append(First(n, s), x)
         /\ ~(Len(First(n, s)) < n) => First(n, Append(s, x)) = First(n, s)
BY DEF First

LEMMA SeenInFirst ==
  ASSUME NEW S, NEW s \in Seq(S), NEW n \in Nat
  PROVE  \A i \in 1 .. Len(First(n, s)) : i \in 1 .. Len(s) /\ i <= n /\ First(n, s)[i] = s[i]
<1>1. /\ Len(First(n, s)) \in Nat /\ Len(s) \in Nat
      /\ Len(First(n, s)) <= n /\ Len(First(n, s)) <= Len(s)
  BY FirstProperties, DomainOfSequence
<1>2. \A i \in 1 .. Len(First(n, s)) : First(n, s)[i] = s[i]
  BY FirstProperties
<1> QED
  BY <1>1, <1>2
-----------------------------------------------------------------------------
USE DEF vars, parentVars, givenVars, childVars, SettingUp, Alive, Remains,
        Exited, Signalled, SIGKILL, SIGSEGV, SIGXFSZ

(* The parent.                                                             *)
LEMMA ForkStep ==
  ASSUME AttemptInv, Fork
  PROVE  AttemptInv'
<1>1. TypeOK'
  BY DEF AttemptInv, Fork, TypeOK, Statuses
<1>2. Processes'
  BY DEF AttemptInv, Fork, TypeOK, Processes
<1>3. Endings'
  BY DEF AttemptInv, Fork, TypeOK, Processes, Endings, Statuses
<1>4. Logged'
  BY DEF AttemptInv, Fork, TypeOK, Processes, Endings, Logged
<1>5. Resulted'
  BY DEF AttemptInv, Fork, Processes, Resulted, Attempt, Logged
<1> QED
  BY <1>1, <1>2, <1>3, <1>4, <1>5 DEF AttemptInv

LEMMA ForkFailsStep ==
  ASSUME AttemptInv, ForkFails
  PROVE  AttemptInv'
<1>1. TypeOK'
  BY DEF AttemptInv, ForkFails, TypeOK, Statuses
<1>2. Processes'
  BY DEF AttemptInv, ForkFails, TypeOK, Processes
<1>3. Endings'
  BY DEF AttemptInv, ForkFails, TypeOK, Processes, Endings, Statuses
<1>4. Logged'
  BY DEF AttemptInv, ForkFails, TypeOK, Processes, Endings, Logged
<1>5. Resulted'
  BY DEF AttemptInv, ForkFails, Processes, Resulted, Attempt, Logged
<1> QED
  BY <1>1, <1>2, <1>3, <1>4, <1>5 DEF AttemptInv

LEMMA RegroupStep ==
  ASSUME AttemptInv, Regroup
  PROVE  AttemptInv'
<1>1. TypeOK'
  BY DEF AttemptInv, Regroup, TypeOK, Statuses
<1>2. Processes'
  BY DEF AttemptInv, Regroup, TypeOK, Processes
<1>3. Endings'
  BY DEF AttemptInv, Regroup, TypeOK, Processes, Endings, Statuses
<1>4. Logged'
  BY DEF AttemptInv, Regroup, TypeOK, Processes, Endings, Logged
<1>5. Resulted'
  BY DEF AttemptInv, Regroup, Processes, Resulted, Attempt, Logged
<1> QED
  BY <1>1, <1>2, <1>3, <1>4, <1>5 DEF AttemptInv

LEMMA PollRunningStep ==
  ASSUME AttemptInv, PollRunning
  PROVE  AttemptInv'
<1>1. TypeOK'
  BY DEF AttemptInv, PollRunning, TypeOK, Statuses
<1>2. Processes'
  BY DEF AttemptInv, PollRunning, TypeOK, Processes
<1>3. Endings'
  BY DEF AttemptInv, PollRunning, TypeOK, Processes, Endings, Statuses
<1>4. Logged'
  BY DEF AttemptInv, PollRunning, TypeOK, Processes, Endings, Logged
<1>5. Resulted'
  BY DEF AttemptInv, PollRunning, Processes, Resulted, Attempt, Logged
<1> QED
  BY <1>1, <1>2, <1>3, <1>4, <1>5 DEF AttemptInv

LEMMA PollEndedStep ==
  ASSUME AttemptInv, PollEnded
  PROVE  AttemptInv'
<1>1. TypeOK'
  BY DEF AttemptInv, PollEnded, Collect, TypeOK, Statuses, Endings
<1>2. Processes'
  BY DEF AttemptInv, PollEnded, Collect, TypeOK, Processes
<1>3. Endings'
  BY DEF AttemptInv, PollEnded, Collect, TypeOK, Processes, Endings, Statuses
<1>4. Logged'
  BY DEF AttemptInv, PollEnded, Collect, TypeOK, Processes, Endings, Logged
<1>5. Resulted'
  BY DEF AttemptInv, PollEnded, Collect, Processes, Resulted, Attempt, Logged
<1> QED
  BY <1>1, <1>2, <1>3, <1>4, <1>5 DEF AttemptInv

LEMMA PollLostStep ==
  ASSUME AttemptInv, PollLost
  PROVE  AttemptInv'
<1>1. TypeOK'
  BY DEF AttemptInv, PollLost, TypeOK, Statuses
<1>2. Processes'
  BY DEF AttemptInv, PollLost, TypeOK, Processes
<1>3. Endings'
  BY DEF AttemptInv, PollLost, TypeOK, Processes, Endings, Statuses
<1>4. Logged'
  BY DEF AttemptInv, PollLost, TypeOK, Processes, Endings, Logged
<1>5. Resulted'
  BY DEF AttemptInv, PollLost, Processes, Resulted, Attempt, Logged
<1> QED
  BY <1>1, <1>2, <1>3, <1>4, <1>5 DEF AttemptInv

LEMMA SleepStep ==
  ASSUME AttemptInv, Sleep
  PROVE  AttemptInv'
<1>1. TypeOK'
  BY DEF AttemptInv, Sleep, TypeOK, Statuses
<1>2. Processes'
  BY DEF AttemptInv, Sleep, TypeOK, Processes
<1>3. Endings'
  BY DEF AttemptInv, Sleep, TypeOK, Processes, Endings, Statuses
<1>4. Logged'
  BY DEF AttemptInv, Sleep, TypeOK, Processes, Endings, Logged
<1>5. Resulted'
  BY DEF AttemptInv, Sleep, Processes, Resulted, Attempt, Logged
<1> QED
  BY <1>1, <1>2, <1>3, <1>4, <1>5 DEF AttemptInv

LEMMA KillStep ==
  ASSUME AttemptInv, Kill
  PROVE  AttemptInv'
<1>1. TypeOK'
  BY DEF AttemptInv, Kill, TypeOK, Statuses
<1>2. Processes'
  BY DEF AttemptInv, Kill, TypeOK, Processes
<1>3. Endings'
  BY DEF AttemptInv, Kill, TypeOK, Processes, Endings, Statuses
<1>4. Logged'
  BY DEF AttemptInv, Kill, TypeOK, Processes, Endings, Logged
<1>5. Resulted'
  BY DEF AttemptInv, Kill, Processes, Resulted, Attempt, Logged
<1> QED
  BY <1>1, <1>2, <1>3, <1>4, <1>5 DEF AttemptInv

LEMMA ReapEndedStep ==
  ASSUME AttemptInv, ReapEnded
  PROVE  AttemptInv'
<1>1. TypeOK'
  BY DEF AttemptInv, ReapEnded, Collect, TypeOK, Statuses, Endings
<1>2. Processes'
  BY DEF AttemptInv, ReapEnded, Collect, TypeOK, Processes
<1>3. Endings'
  BY DEF AttemptInv, ReapEnded, Collect, TypeOK, Processes, Endings, Statuses
<1>4. Logged'
  BY DEF AttemptInv, ReapEnded, Collect, TypeOK, Processes, Endings, Logged
<1>5. Resulted'
  BY DEF AttemptInv, ReapEnded, Collect, Processes, Resulted, Attempt, Logged
<1> QED
  BY <1>1, <1>2, <1>3, <1>4, <1>5 DEF AttemptInv

LEMMA ReapLostStep ==
  ASSUME AttemptInv, ReapLost
  PROVE  AttemptInv'
<1>1. TypeOK'
  BY DEF AttemptInv, ReapLost, TypeOK, Statuses
<1>2. Processes'
  BY DEF AttemptInv, ReapLost, TypeOK, Processes
<1>3. Endings'
  BY DEF AttemptInv, ReapLost, TypeOK, Processes, Endings, Statuses
<1>4. Logged'
  BY DEF AttemptInv, ReapLost, TypeOK, Processes, Endings, Logged
<1>5. Resulted'
  BY DEF AttemptInv, ReapLost, Processes, Resulted, Attempt, Logged
<1> QED
  BY <1>1, <1>2, <1>3, <1>4, <1>5 DEF AttemptInv

LEMMA ReadLogStep ==
  ASSUME AttemptInv, ReadLog
  PROVE  AttemptInv'
<1>1. TypeOK'
  <2>1. Len(First(MaxOutput, log)) <= MaxOutput
    BY FirstProperties, LimitsAssumption DEF AttemptInv, ReadLog, TypeOK
  <2>2. Attempt.output = First(MaxOutput, log)
    BY DEF Attempt
  <2> QED
    BY <2>1, <2>2 DEF AttemptInv, ReadLog, TypeOK
<1>2. Processes'
  BY DEF AttemptInv, ReadLog, TypeOK, Processes
<1>3. Endings'
  BY DEF AttemptInv, ReadLog, TypeOK, Processes, Endings, Statuses
<1>4. Logged'
  BY DEF AttemptInv, ReadLog, TypeOK, Processes, Endings, Logged
<1>5. Resulted'
  BY DEF AttemptInv, ReadLog, Processes, Resulted, Attempt, Logged
<1> QED
  BY <1>1, <1>2, <1>3, <1>4, <1>5 DEF AttemptInv

LEMMA ReadFailsStep ==
  ASSUME AttemptInv, ReadFails
  PROVE  AttemptInv'
<1>1. TypeOK'
  BY DEF AttemptInv, ReadFails, TypeOK, Statuses
<1>2. Processes'
  BY DEF AttemptInv, ReadFails, TypeOK, Processes
<1>3. Endings'
  BY DEF AttemptInv, ReadFails, TypeOK, Processes, Endings, Statuses
<1>4. Logged'
  BY DEF AttemptInv, ReadFails, TypeOK, Processes, Endings, Logged
<1>5. Resulted'
  BY DEF AttemptInv, ReadFails, Processes, Resulted, Attempt, Logged
<1> QED
  BY <1>1, <1>2, <1>3, <1>4, <1>5 DEF AttemptInv

(* Time.                                                                   *)
LEMMA DeadlinePassesStep ==
  ASSUME AttemptInv, DeadlinePasses
  PROVE  AttemptInv'
<1>1. TypeOK'
  BY DEF AttemptInv, DeadlinePasses, TypeOK, Statuses
<1>2. Processes'
  BY DEF AttemptInv, DeadlinePasses, TypeOK, Processes
<1>3. Endings'
  BY DEF AttemptInv, DeadlinePasses, TypeOK, Processes, Endings, Statuses
<1>4. Logged'
  BY DEF AttemptInv, DeadlinePasses, TypeOK, Processes, Endings, Logged
<1>5. Resulted'
  BY DEF AttemptInv, DeadlinePasses, Processes, Resulted, Attempt, Logged
<1> QED
  BY <1>1, <1>2, <1>3, <1>4, <1>5 DEF AttemptInv

(* The child up to exec.                                                   *)
LEMMA EnterGroupStep ==
  ASSUME AttemptInv, EnterGroup
  PROVE  AttemptInv'
<1>1. TypeOK'
  BY DEF AttemptInv, EnterGroup, TypeOK, Statuses
<1>2. Processes'
  BY DEF AttemptInv, EnterGroup, TypeOK, Processes
<1>3. Endings'
  BY DEF AttemptInv, EnterGroup, TypeOK, Processes, Endings, Statuses
<1>4. Logged'
  BY DEF AttemptInv, EnterGroup, TypeOK, Processes, Endings, Logged
<1>5. Resulted'
  BY DEF AttemptInv, EnterGroup, Processes, Resulted, Attempt, Logged
<1> QED
  BY <1>1, <1>2, <1>3, <1>4, <1>5 DEF AttemptInv

LEMMA OpenLogStep ==
  ASSUME AttemptInv, OpenLog
  PROVE  AttemptInv'
<1>1. TypeOK'
  BY LimitsAssumption DEF AttemptInv, OpenLog, TypeOK, Processes
<1>2. Processes'
  BY DEF AttemptInv, OpenLog, TypeOK, Processes
<1>3. Endings'
  BY DEF AttemptInv, OpenLog, TypeOK, Processes, Endings, Statuses
<1>4. Logged'
  <2>1. <<>> \in Seq(Line) /\ First(Room, <<>>) = <<>>
    BY LimitsAssumption DEF First, Room
  <2> QED
    BY <2>1, NoneAssumption DEF AttemptInv, OpenLog, TypeOK, Endings, Logged
<1>5. Resulted'
  BY DEF AttemptInv, OpenLog, Processes, Resulted, Attempt, Logged
<1> QED
  BY <1>1, <1>2, <1>3, <1>4, <1>5 DEF AttemptInv

LEMMA ExecStep ==
  ASSUME AttemptInv, Exec
  PROVE  AttemptInv'
<1>1. TypeOK'
  BY DEF AttemptInv, Exec, TypeOK, Statuses
<1>2. Processes'
  BY DEF AttemptInv, Exec, TypeOK, Processes
<1>3. Endings'
  BY DEF AttemptInv, Exec, TypeOK, Processes, Endings, Statuses
<1>4. Logged'
  BY DEF AttemptInv, Exec, TypeOK, Processes, Endings, Logged
<1>5. Resulted'
  BY DEF AttemptInv, Exec, Processes, Resulted, Attempt, Logged
<1> QED
  BY <1>1, <1>2, <1>3, <1>4, <1>5 DEF AttemptInv

LEMMA SetUpFailsStep ==
  ASSUME AttemptInv, NEW code \in {126, 127}, SetUpFails(code)
  PROVE  AttemptInv'
<1>1. TypeOK'
  BY DEF AttemptInv, SetUpFails, TypeOK, Statuses
<1>2. Processes'
  BY DEF AttemptInv, SetUpFails, TypeOK, Processes
<1>3. Endings'
  BY DEF AttemptInv, SetUpFails, TypeOK, Processes, Endings, Statuses
<1>4. Logged'
  BY DEF AttemptInv, SetUpFails, TypeOK, Processes, Endings, Logged
<1>5. Resulted'
  BY DEF AttemptInv, SetUpFails, Processes, Resulted, Attempt, Logged
<1> QED
  BY <1>1, <1>2, <1>3, <1>4, <1>5 DEF AttemptInv

(* The compiler.  It has opened the log before it runs.                    *)
LEMMA PrintLineStep ==
  ASSUME AttemptInv, NEW line \in Line, PrintLine(line)
  PROVE  AttemptInv'
<1>1. TypeOK'
  <2>1. printed' \in Seq(Line) /\ parent \in {"forked", "polling", "checking"}
    BY DEF AttemptInv, PrintLine, TypeOK, Processes
  <2>2. log \in Seq(Line) /\ Len(log) <= MaxOutput + 1
    BY DEF AttemptInv, PrintLine, TypeOK, Endings, Logged
  <2>3. (Len(log) < MaxOutput + 1 /\ log' = Append(log, line)) \/ log' = log
    BY DEF PrintLine, Room
  <2>4. log' \in Seq(Line) /\ Len(log') <= MaxOutput + 1
    BY <2>2, <2>3, LimitsAssumption
  <2> QED
    BY <2>1, <2>4 DEF AttemptInv, PrintLine, TypeOK, Statuses
<1>2. Processes'
  BY DEF AttemptInv, PrintLine, TypeOK, Processes
<1>3. Endings'
  BY DEF AttemptInv, PrintLine, TypeOK, Processes, Endings, Statuses
<1>4. Logged'
  <2>1. printed \in Seq(Line) /\ ran
    BY DEF AttemptInv, PrintLine, TypeOK, Endings
  <2>2. log \in Seq(Line) /\ log = First(Room, printed)
    BY <2>1 DEF AttemptInv, TypeOK, Logged
  <2>3. Room \in Nat
    BY LimitsAssumption DEF Room
  <2>4. /\ printed' = Append(printed, line) /\ Unfinished
        /\ Len(log) < Room => log' = Append(log, line)
        /\ ~(Len(log) < Room) => log' = log
        /\ ran' = ran
    BY DEF PrintLine
  <2>5. log' = First(Room, printed')
    BY <2>1, <2>2, <2>3, <2>4, FirstOfAppend
  <2>6. log' \in Seq(Line)
    BY <2>2, <2>4
  <2>7. \A i \in 1 .. Len(printed) : printed[i] # "Test result"
    BY <2>1, <2>4, DomainOfSequence DEF Unfinished
  <2>8. SummaryAtEnd(printed')
    BY <2>1, <2>4, <2>7, OnlyTheLastIsNew DEF SummaryAtEnd
  <2> QED
    BY <2>1, <2>4, <2>5, <2>6, <2>8, NoneAssumption DEF Logged
<1>5. Resulted'
  BY DEF AttemptInv, PrintLine, Processes, Resulted, Attempt, Logged
<1> QED
  BY <1>1, <1>2, <1>3, <1>4, <1>5 DEF AttemptInv

LEMMA BuildStep ==
  ASSUME AttemptInv, Build
  PROVE  AttemptInv'
<1>1. TypeOK'
  BY DEF AttemptInv, Build, TypeOK, Statuses
<1>2. Processes'
  BY DEF AttemptInv, Build, TypeOK, Processes
<1>3. Endings'
  BY DEF AttemptInv, Build, TypeOK, Processes, Endings, Statuses
<1>4. Logged'
  BY DEF AttemptInv, Build, TypeOK, Processes, Endings, Logged
<1>5. Resulted'
  BY DEF AttemptInv, Build, Processes, Resulted, Attempt, Logged
<1> QED
  BY <1>1, <1>2, <1>3, <1>4, <1>5 DEF AttemptInv

LEMMA StartHelperStep ==
  ASSUME AttemptInv, StartHelper
  PROVE  AttemptInv'
<1>1. TypeOK'
  BY DEF AttemptInv, StartHelper, TypeOK, Statuses
<1>2. Processes'
  BY DEF AttemptInv, StartHelper, TypeOK, Processes
<1>3. Endings'
  BY DEF AttemptInv, StartHelper, TypeOK, Processes, Endings, Statuses
<1>4. Logged'
  BY DEF AttemptInv, StartHelper, TypeOK, Processes, Endings, Logged
<1>5. Resulted'
  BY DEF AttemptInv, StartHelper, Processes, Resulted, Attempt, Logged
<1> QED
  BY <1>1, <1>2, <1>3, <1>4, <1>5 DEF AttemptInv

LEMMA EndStep ==
  ASSUME AttemptInv, NEW s \in {Exited(0), Exited(1), Signalled(SIGSEGV)}, End(s)
  PROVE  AttemptInv'
<1>1. TypeOK'
  BY DEF AttemptInv, End, TypeOK, Statuses
<1>2. Processes'
  BY DEF AttemptInv, End, TypeOK, Processes
<1>3. Endings'
  BY DEF AttemptInv, End, TypeOK, Processes, Endings, Statuses
<1>4. Logged'
  BY DEF AttemptInv, End, TypeOK, Processes, Endings, Logged
<1>5. Resulted'
  BY DEF AttemptInv, End, Processes, Resulted, Attempt, Logged
<1> QED
  BY <1>1, <1>2, <1>3, <1>4, <1>5 DEF AttemptInv

LEMMA HelperEndsStep ==
  ASSUME AttemptInv, HelperEnds
  PROVE  AttemptInv'
<1>1. TypeOK'
  BY DEF AttemptInv, HelperEnds, TypeOK, Statuses
<1>2. Processes'
  BY DEF AttemptInv, HelperEnds, TypeOK, Processes
<1>3. Endings'
  BY DEF AttemptInv, HelperEnds, TypeOK, Processes, Endings, Statuses
<1>4. Logged'
  BY DEF AttemptInv, HelperEnds, TypeOK, Processes, Endings, Logged
<1>5. Resulted'
  BY DEF AttemptInv, HelperEnds, Processes, Resulted, Attempt, Logged
<1> QED
  BY <1>1, <1>2, <1>3, <1>4, <1>5 DEF AttemptInv
-----------------------------------------------------------------------------
(* Every step of an attempt, whoever takes it.                             *)
LEMMA AttemptSteps ==
  ASSUME AttemptInv, Next
  PROVE  AttemptInv'
<1>1. CASE Fork
  BY <1>1, ForkStep
<1>2. CASE ForkFails
  BY <1>2, ForkFailsStep
<1>3. CASE Regroup
  BY <1>3, RegroupStep
<1>4. CASE PollRunning
  BY <1>4, PollRunningStep
<1>5. CASE PollEnded
  BY <1>5, PollEndedStep
<1>6. CASE PollLost
  BY <1>6, PollLostStep
<1>7. CASE Sleep
  BY <1>7, SleepStep
<1>8. CASE Kill
  BY <1>8, KillStep
<1>9. CASE ReapEnded
  BY <1>9, ReapEndedStep
<1>10. CASE ReapLost
  BY <1>10, ReapLostStep
<1>11. CASE ReadLog
  BY <1>11, ReadLogStep
<1>12. CASE ReadFails
  BY <1>12, ReadFailsStep
<1>13. CASE DeadlinePasses
  BY <1>13, DeadlinePassesStep
<1>14. CASE EnterGroup
  BY <1>14, EnterGroupStep
<1>15. CASE OpenLog
  BY <1>15, OpenLogStep
<1>16. CASE Exec
  BY <1>16, ExecStep
<1>17. ASSUME NEW code \in {126, 127}, SetUpFails(code) PROVE AttemptInv'
  BY <1>17, SetUpFailsStep
<1>18. ASSUME NEW line \in Line, PrintLine(line) PROVE AttemptInv'
  BY <1>18, PrintLineStep
<1>19. CASE Build
  BY <1>19, BuildStep
<1>20. CASE StartHelper
  BY <1>20, StartHelperStep
<1>21. ASSUME NEW s \in {Exited(0), Exited(1), Signalled(SIGSEGV)}, End(s) PROVE AttemptInv'
  BY <1>21, EndStep
<1>22. CASE HelperEnds
  BY <1>22, HelperEndsStep
<1> QED
  BY <1>1, <1>2, <1>3, <1>4, <1>5, <1>6, <1>7, <1>8, <1>9, <1>10, <1>11, <1>12,
     <1>13, <1>14, <1>15, <1>16, <1>17, <1>18, <1>19, <1>20, <1>21, <1>22 DEF Next, Parent, Child

LEMMA AttemptStutters ==
  ASSUME AttemptInv, UNCHANGED vars
  PROVE  AttemptInv'
<1>1. TypeOK'
  BY DEF AttemptInv, TypeOK
<1>2. Processes' /\ Endings'
  BY DEF AttemptInv, Processes, Endings
<1>3. Logged'
  BY DEF AttemptInv, Logged
<1>4. Resulted'
  BY DEF AttemptInv, Resulted, Attempt
<1> QED
  BY <1>1, <1>2, <1>3, <1>4 DEF AttemptInv

LEMMA AttemptStarts ==
  ASSUME Init
  PROVE  AttemptInv
<1>1. TypeOK
  <2>1. /\ timed_out \in BOOLEAN /\ late \in BOOLEAN /\ ignored \in BOOLEAN
        /\ discover_modules \in BOOLEAN /\ ran \in BOOLEAN
    BY DEF Init
  <2> QED
    BY <2>1 DEF Init, TypeOK
<1>2. Processes /\ Endings /\ Resulted
  BY DEF Init, Processes, Endings, Resulted
<1>3. Logged
  BY DEF Init, Logged, SummaryAtEnd
<1> QED
  BY <1>1, <1>2, <1>3 DEF AttemptInv

(* The attempt that returned keeps what is compared later: its output is   *)
(* the beginning of what was printed, and its exit code is the program's.  *)
LEMMA ReturnedIsKept ==
  ASSUME AttemptInv, parent = "returned"
  PROVE  Kept(Returned)
<1>1. /\ result = Attempt /\ status = ending /\ status \in Statuses
      /\ log = First(Room, printed)
  BY DEF AttemptInv, Endings, Logged, Resulted
<1>2. /\ Attempt.output = First(MaxOutput, log)
      /\ Attempt.exit_code = Decode(status).exit_code
      /\ Attempt.terminated_by_signal = Decode(status).terminated_by_signal
  BY DEF Attempt
<1>3. completed(Attempt) => status.by = "exit"
  BY <1>1, <1>2 DEF completed, Decode, Statuses
<1>4. succeeded(Attempt) => status = Exited(0)
  BY <1>1, <1>2 DEF succeeded, Decode, Statuses
<1>5. /\ printed \in Seq(Line) /\ (~ran => printed = <<>>)
      /\ SummaryAtEnd(printed)
  BY DEF AttemptInv, TypeOK, Logged
<1> QED
  BY <1>1, <1>2, <1>3, <1>4, <1>5 DEF Kept, Returned

(* The invariant holds of whole comparisons.                               *)
THEOREM Inductive == BehaviorSpec => []IInv
<1>1. BehaviorInit => IInv
  BY AttemptStarts DEF BehaviorInit, IInv, Compared
<1>2. IInv /\ [BehaviorNext]_behaviorVars => IInv'
  <2> SUFFICES ASSUME IInv, [BehaviorNext]_behaviorVars
               PROVE  IInv'
    OBVIOUS
  <2>1. AttemptInv /\ Compared
    BY DEF IInv
  <2>2. CASE AttemptStep
    <3>1. AttemptInv'
      BY <2>1, <2>2, AttemptSteps DEF AttemptStep
    <3>2. Compared'
      BY <2>1, <2>2 DEF AttemptStep, Compared, Kept
    <3> QED
      BY <3>1, <3>2 DEF IInv
  <2>3. CASE StartCandidate
    <3>1. AttemptInv'
      <4>1. /\ timed_out' \in BOOLEAN /\ late' \in BOOLEAN /\ ignored' \in BOOLEAN
            /\ discover_modules' \in BOOLEAN /\ ran' \in BOOLEAN
        BY <2>1, <2>3 DEF StartCandidate, AttemptInv, TypeOK
      <4>2. TypeOK'
        BY <4>1, <2>3 DEF StartCandidate, TypeOK
      <4>3. Processes' /\ Endings' /\ Resulted'
        BY <2>1, <2>3 DEF StartCandidate, Processes, Endings, Resulted
      <4>4. Logged'
        BY <2>1, <2>3 DEF StartCandidate, Logged, SummaryAtEnd
      <4> QED
        BY <4>2, <4>3, <4>4 DEF AttemptInv
    <3>2. Kept(reference)'
      BY <2>1, <2>3, ReturnedIsKept DEF StartCandidate, Kept
    <3>3. Compared'
      BY <2>1, <2>3, <3>2 DEF StartCandidate, Compared
    <3> QED
      BY <3>1, <3>3 DEF IInv
  <2>4. CASE Compare
    <3>1. AttemptInv'
      BY <2>1, <2>4, AttemptStutters DEF Compare
    <3>2. Kept(candidate)'
      BY <2>1, <2>4, ReturnedIsKept DEF Compare, Kept
    <3>3. Compared'
      BY <2>1, <2>4, <3>2 DEF Compare, Compared, Kept
    <3> QED
      BY <3>1, <3>3 DEF IInv
  <2>5. CASE UNCHANGED behaviorVars
    <3>1. AttemptInv'
      BY <2>1, <2>5, AttemptStutters DEF behaviorVars
    <3>2. Compared'
      BY <2>1, <2>5 DEF behaviorVars, Compared, Kept
    <3> QED
      BY <3>1, <3>2 DEF IInv
  <2> QED
    BY <2>2, <2>3, <2>4, <2>5 DEF BehaviorNext
<1> QED
  BY <1>1, <1>2, PTL DEF BehaviorSpec

(* Type correctness: the log never outgrows its limit, nor the output what *)
(* is kept of it.                                                          *)
THEOREM TypeCorrect == BehaviorSpec => []TypeOK
<1>1. IInv => TypeOK
  BY DEF IInv, AttemptInv
<1> QED
  BY <1>1, Inductive, PTL

(* round_trip.cpp:297-321.  A call that is over has left no child, and a   *)
(* call that timed out has left nothing of the group running.              *)
THEOREM NothingIsLeftRunning == BehaviorSpec => []NobodyIsLeft
<1>1. IInv => NobodyIsLeft
  BY DEF IInv, AttemptInv, Processes, NobodyIsLeft, Over
<1> QED
  BY <1>1, Inductive, PTL

(* round_trip.cpp:306-339.  A successful attempt is a compiler that ran    *)
(* and exited with 0, and the modules are all that it built; a completed   *)
(* one exited; a reported timeout is one, and a child that was killed for  *)
(* its time is reported as timed out.                                      *)
THEOREM OnlyRealSuccess == BehaviorSpec => []SuccessIsReal
<1>1. ASSUME IInv, parent = "returned"
      PROVE  /\ result = Attempt /\ status = ending /\ status \in Statuses
             /\ child \in {"none", "gone"} /\ child # "none"
  BY <1>1 DEF IInv, AttemptInv, Endings, Resulted, Processes
<1>2. ASSUME IInv, parent = "returned", succeeded(result)
      PROVE  /\ ran /\ ending = Exited(0)
             /\ discover_modules => result.bytecode_modules = built
  <2>1. ending = Exited(0)
    BY <1>1, <1>2, ReturnedIsKept DEF IInv, Kept, Returned
  <2>2. ran
    BY <1>1, <1>2, <2>1 DEF IInv, AttemptInv, TypeOK, Processes, Endings
  <2>3. discover_modules => Attempt.bytecode_modules = built
    BY <1>1, <1>2 DEF Attempt, succeeded
  <2> QED
    BY <1>1, <1>2, <2>1, <2>2, <2>3
<1>3. ASSUME IInv, parent = "returned", completed(result)
      PROVE  ending.by = "exit"
  BY <1>3, ReturnedIsKept DEF IInv, Kept, Returned
<1>4. ASSUME IInv, parent = "returned"
      PROVE  result.timed_out = timed_out
  BY <1>1, <1>4 DEF Attempt
<1>5. ASSUME IInv, parent = "returned"
      PROVE  /\ result.timed_out => late
             /\ ending = Signalled(SIGKILL) => result.timed_out
  BY <1>1, <1>4, <1>5 DEF IInv, AttemptInv, Endings
<1>6. IInv => SuccessIsReal
  BY <1>2, <1>3, <1>5 DEF SuccessIsReal
<1> QED
  BY <1>6, Inductive, PTL

(* round_trip.cpp:264-268, 337.  Output that is not called truncated is    *)
(* all that the compiler tried to print: the log has room for one line     *)
(* more than is kept, so that a loss is always seen.                       *)
THEOREM NoSilentTruncation == BehaviorSpec => []TruncationIsTold
<1>1. ASSUME IInv, parent = "returned", ~result.output_truncated
      PROVE  result.output = printed
  <2>1. /\ result = Attempt /\ log = First(Room, printed)
        /\ printed \in Seq(Line)
    BY <1>1 DEF IInv, AttemptInv, TypeOK, Logged, Resulted
  <2>2. /\ Attempt.output = First(MaxOutput, log)
        /\ Attempt.output_truncated = (Len(log) > MaxOutput)
    BY DEF Attempt
  <2>3. MaxOutput \in Nat /\ Room \in Nat /\ Room = MaxOutput + 1
    BY LimitsAssumption DEF Room
  <2>4. ~(Len(log) > MaxOutput)
    BY <1>1, <2>1, <2>2, Zenon
  <2>5. Len(log) \in Nat
    BY <2>1, <2>3, FirstProperties
  <2>6. Len(log) <= MaxOutput
    BY <2>3, <2>4, <2>5
  <2>7. Len(printed) <= Room
    BY <2>1, <2>3, <2>6, FirstProperties
  <2>8. log = printed
    BY <2>1, <2>3, <2>7, FirstProperties
  <2> QED
    BY <2>1, <2>2, <2>3, <2>6, <2>8, FirstProperties
<1>2. IInv => TruncationIsTold
  BY <1>1 DEF TruncationIsTold
<1> QED
  BY <1>2, Inductive, PTL

(* An output in which the summary is seen is all that was printed: the     *)
(* summary is the last line.                                               *)
LEMMA SummaryIsLast ==
  ASSUME NEW r, Kept(r), Trace(r.attempt).summary_seen
  PROVE  r.attempt.output = r.printed /\ r.ran
<1> DEFINE log1 == First(Room, r.printed)
           output1 == First(MaxOutput, log1)
<1>1. /\ r.printed \in Seq(Line) /\ SummaryAtEnd(r.printed) /\ r.attempt.output = output1
      /\ ~r.ran => r.printed = <<>>
  BY DEF Kept
<1>2. MaxOutput \in Nat /\ Room \in Nat /\ MaxOutput <= Room
  BY LimitsAssumption DEF Room
<1>3. log1 \in Seq(Line) /\ (Len(r.printed) <= Room => log1 = r.printed)
  BY <1>1, <1>2, FirstProperties
<1> HIDE DEF log1
<1>4. output1 \in Seq(Line) /\ (Len(log1) <= MaxOutput => output1 = log1)
  BY <1>2, <1>3, FirstProperties
<1> HIDE DEF output1
<1>5. PICK i \in DOMAIN output1 : output1[i] = "Test result"
  BY <1>1 DEF Trace
<1>6. i \in 1 .. Len(output1)
  BY <1>4, <1>5, DomainOfSequence
<1>7. i \in 1 .. Len(log1) /\ i <= MaxOutput /\ log1[i] = "Test result"
  <2>1. /\ i \in 1 .. Len(First(MaxOutput, log1)) /\ log1 \in Seq(Line) /\ MaxOutput \in Nat
        /\ First(MaxOutput, log1)[i] = "Test result"
    BY <1>2, <1>3, <1>5, <1>6 DEF output1
  <2> QED
    BY ONLY <2>1, SeenInFirst, Zenon
<1>8. i \in 1 .. Len(r.printed) /\ r.printed[i] = "Test result"
  <2>1. /\ i \in 1 .. Len(First(Room, r.printed)) /\ r.printed \in Seq(Line) /\ Room \in Nat
        /\ First(Room, r.printed)[i] = "Test result"
    BY <1>1, <1>2, <1>7 DEF log1
  <2> QED
    BY ONLY <2>1, SeenInFirst, Zenon
<1>9. i = Len(r.printed)
  BY <1>1, <1>8 DEF SummaryAtEnd
<1>10. log1 = r.printed
  <2>1. Len(r.printed) <= MaxOutput /\ Len(r.printed) \in Nat
    BY <1>1, <1>7, <1>9, DomainOfSequence
  <2> QED
    BY <1>2, <1>3, <2>1
<1>11. output1 = r.printed
  BY <1>4, <1>7, <1>9, <1>10
<1>12. r.printed # <<>>
  <2>1. i \in 1 .. Len(r.printed)
    BY <1>8
  <2> QED
    BY <2>1
<1> QED
  BY <1>1, <1>11, <1>12

(* round_trip.hpp:149-163.  Tests whose outcomes are called equivalent ran *)
(* to their own end on both packages and printed the same cases; tests     *)
(* that all passed exited with 0 and printed no failure.                   *)
THEOREM EqualOutcomes == BehaviorSpec => []EqualOutcomesAreReal
<1>1. ASSUME IInv, candidate # None,
             allObservedOutcomesEquivalent(reference.attempt, candidate.attempt)
      PROVE  /\ \A r \in {reference, candidate} : r.ran /\ r.ending.by = "exit"
             /\ Cases(reference.printed) = Cases(candidate.printed)
             /\ allCasesPassed(reference.attempt, candidate.attempt) =>
                  \A r \in {reference, candidate} :
                    /\ r.ending = Exited(0)
                    /\ "case failed" \notin {r.printed[i] : i \in DOMAIN r.printed}
  <2>1. Kept(reference) /\ Kept(candidate)
    BY <1>1 DEF IInv, Compared
  <2>2. /\ completed(reference.attempt) /\ completed(candidate.attempt)
        /\ Trace(reference.attempt).summary_seen /\ Trace(candidate.attempt).summary_seen
        /\ Trace(reference.attempt) = Trace(candidate.attempt)
    BY <1>1 DEF allObservedOutcomesEquivalent, observationsEquivalent
  <2>3. /\ reference.attempt.output = reference.printed /\ reference.ran
        /\ candidate.attempt.output = candidate.printed /\ candidate.ran
    BY <2>1, <2>2, SummaryIsLast
  <2>4. reference.ending.by = "exit" /\ candidate.ending.by = "exit"
    BY <2>1, <2>2 DEF Kept
  <2>5. Trace(reference.attempt).cases = Trace(candidate.attempt).cases
    BY <2>2
  <2>6. Cases(reference.printed) = Cases(candidate.printed)
    BY <2>3, <2>5 DEF Trace
  <2>7. ASSUME allCasesPassed(reference.attempt, candidate.attempt)
        PROVE  \A r \in {reference, candidate} :
                 /\ r.ending = Exited(0)
                 /\ "case failed" \notin {r.printed[i] : i \in DOMAIN r.printed}
    <3>1. reference.ending = Exited(0) /\ candidate.ending = Exited(0)
      BY <2>1, <2>7 DEF allCasesPassed, Kept
    <3>2. \A i \in DOMAIN Cases(reference.printed) :
            Cases(reference.printed)[i] = "case passed"
      BY <2>3, <2>7 DEF allCasesPassed, allPassed, Trace
    <3>3. \A i \in DOMAIN reference.printed : reference.printed[i] # "case failed"
      BY <3>2 DEF Cases
    <3>4. \A i \in DOMAIN candidate.printed : candidate.printed[i] # "case failed"
      BY <2>6, <3>2 DEF Cases
    <3> QED
      BY <3>1, <3>3, <3>4
  <2> QED
    BY <2>3, <2>4, <2>6, <2>7
<1>2. IInv => EqualOutcomesAreReal
  BY <1>1 DEF EqualOutcomesAreReal
<1> QED
  BY <1>2, Inductive, PTL
=============================================================================
