-------------------------- MODULE CompilerProcess --------------------------
(***************************************************************************)
(* invokeAptos (src/round_trip.cpp:228-342): the compiler is run in a      *)
(* child process with a process group of its own, its output goes to a     *)
(* log of limited size, and the parent asks every 10 ms whether it ended   *)
(* until the deadline has passed.                                          *)
(*                                                                         *)
(* Parent and child run concurrently from fork on; the compiler may start  *)
(* a helper, which stays in its group and may outlive it.  A waitpid that  *)
(* a signal interrupts is repeated (302-304, 312-314): nothing changes.    *)
(***************************************************************************)
EXTENDS Naturals, Sequences

CONSTANTS MaxOutput,    \* max_output_bytes, counted in lines
          MaxLines,     \* bound on the lines a compiler prints
          MaxModules,   \* bound on the modules it builds
          None

ASSUME LimitsAssumption == MaxOutput \in Nat \ {0} /\ MaxLines \in Nat /\ MaxModules \in Nat

VARIABLES parent, timed_out, status, late, ignored,
          child, group, ran, ending, helper, log, printed, built,
          result, discover_modules

(* The parent, the time and how it was called; the child and what it does. *)
parentVars == <<parent, timed_out, status, result>>
givenVars == <<ignored, discover_modules>>
childVars == <<child, group, ran, ending, helper, log, printed, built>>
vars == <<parentVars, late, givenVars, childVars>>

Line == {"case passed", "case failed", "Test result"}

(* There is no log yet, which is not an empty log.                         *)
ASSUME NoneAssumption == None \notin Seq(Line)

(* What waitpid tells of a process that ended.                             *)
Exited(code) == [by |-> "exit", code |-> code]
Signalled(signal) == [by |-> "signal", code |-> signal]

SIGKILL == 9
SIGSEGV == 11
SIGXFSZ == 25

Statuses == [by : {"exit", "signal"}, code : {0, 1, 9, 11, 25, 126, 127}]

(* Not yet the compiler: the child is between fork and exec.               *)
SettingUp == child \in {"forked", "grouped", "logging"}
Alive == SettingUp \/ child = "compiling"

(* ignored: this process was started with SIGCHLD ignored; a child that    *)
(* ends then disappears with its status.                                   *)
Init ==
  /\ parent = "forking" /\ timed_out = FALSE /\ status = None /\ late = FALSE
  /\ ignored \in BOOLEAN /\ discover_modules \in BOOLEAN
  /\ child = "none" /\ group = "parent's" /\ ran = FALSE /\ ending = None
  /\ helper = "none" /\ log = None /\ printed = <<>> /\ built = 0
  /\ result = None
-----------------------------------------------------------------------------
Fork ==
  /\ parent = "forking"
  /\ parent' = "forked" /\ child' = "forked"
  /\ UNCHANGED <<timed_out, status, result, late, givenVars,
                 group, ran, ending, helper, log, printed, built>>

ForkFails ==
  /\ parent = "forking"
  /\ parent' = "failed"
  /\ UNCHANGED <<timed_out, status, result, late, givenVars, childVars>>

(* Mutant of Regroup: the child is trusted to do it.                       *)
RegroupByChildOnly ==
  /\ parent = "forked"
  /\ parent' = "polling"
  /\ UNCHANGED <<timed_out, status, result, late, givenVars, childVars>>

(* setpgid by the parent, refused once the child has executed another      *)
(* program or is gone.                                                     *)
Regroup ==
  /\ parent = "forked"
  /\ parent' = "polling"
  /\ group' = IF SettingUp \/ (child = "ended" /\ ~ran) THEN "own" ELSE group
  /\ UNCHANGED <<timed_out, status, result, late, givenVars,
                 child, ran, ending, helper, log, printed, built>>

(* waitpid with WNOHANG.                                                   *)
PollRunning ==
  /\ parent = "polling" /\ Alive
  /\ parent' = "checking"
  /\ UNCHANGED <<timed_out, status, result, late, givenVars, childVars>>

Collect ==
  /\ child = "ended"
  /\ child' = "gone" /\ status' = ending
  /\ parent' = "reading"
  /\ UNCHANGED <<timed_out, result, late, givenVars,
                 group, ran, ending, helper, log, printed, built>>

PollEnded == parent = "polling" /\ Collect

PollLost ==
  /\ parent = "polling" /\ child = "gone"
  /\ parent' = "failed"
  /\ UNCHANGED <<timed_out, status, result, late, givenVars, childVars>>

(* Before the deadline: 10 ms of sleep.                                    *)
Sleep ==
  /\ parent = "checking" /\ ~late
  /\ parent' = "polling"
  /\ UNCHANGED <<timed_out, status, result, late, givenVars, childVars>>

(* What becomes of a child that ends.                                      *)
Remains == IF ignored THEN "gone" ELSE "ended"

(* Mutant of Kill: only the child gets the signal.                         *)
KillChildOnly ==
  /\ parent = "checking" /\ late
  /\ timed_out' = TRUE /\ parent' = "reaping"
  /\ IF Alive THEN child' = Remains /\ ending' = Signalled(SIGKILL) ELSE UNCHANGED <<child, ending>>
  /\ UNCHANGED <<status, result, late, givenVars, group, ran, helper, log, printed, built>>

(* Mutant of Kill: that the time is up is noted only if the child is still *)
(* being set up.                                                           *)
KillUntold ==
  /\ parent = "checking" /\ late
  /\ timed_out' = SettingUp /\ parent' = "reaping"
  /\ IF Alive /\ group = "own" THEN child' = Remains /\ ending' = Signalled(SIGKILL)
     ELSE UNCHANGED <<child, ending>>
  /\ helper' = IF helper = "running" THEN "ended" ELSE helper
  /\ UNCHANGED <<status, result, late, givenVars, group, ran, log, printed, built>>

(* kill(-child, SIGKILL): all that is in the group.                        *)
Kill ==
  /\ parent = "checking" /\ late
  /\ timed_out' = TRUE /\ parent' = "reaping"
  /\ IF Alive /\ group = "own" THEN child' = Remains /\ ending' = Signalled(SIGKILL)
     ELSE UNCHANGED <<child, ending>>
  /\ helper' = IF helper = "running" THEN "ended" ELSE helper
  /\ UNCHANGED <<status, result, late, givenVars, group, ran, log, printed, built>>

(* waitpid without a limit.                                                *)
ReapEnded == parent = "reaping" /\ Collect

ReapLost ==
  /\ parent = "reaping" /\ child = "gone"
  /\ parent' = "failed"
  /\ UNCHANGED <<timed_out, status, result, late, givenVars, childVars>>

(* Mutant of Decode: WEXITSTATUS whatever the status.                      *)
DecodeExitOnly(s) ==
  [exit_code |-> IF s.by = "exit" THEN s.code ELSE 0, terminated_by_signal |-> FALSE]

Decode(s) == [exit_code |-> IF s.by = "exit" THEN s.code ELSE 128 + s.code,
              terminated_by_signal |-> s.by = "signal"]

(* CompilerAttempt::succeeded and completed; an exit code is never below 0 *)
(* once the status was read.                                               *)
succeeded(a) == a.exit_code = 0 /\ ~a.terminated_by_signal /\ ~a.timed_out
completed(a) == ~a.terminated_by_signal /\ ~a.timed_out

First(n, lines) == SubSeq(lines, 1, IF Len(lines) < n THEN Len(lines) ELSE n)

Attempt ==
  LET d == Decode(status)
      a == [exit_code |-> d.exit_code, terminated_by_signal |-> d.terminated_by_signal,
            timed_out |-> timed_out, output |-> First(MaxOutput, log),
            output_truncated |-> Len(log) > MaxOutput, bytecode_modules |-> 0]
  IN  IF succeeded(a) /\ discover_modules THEN [a EXCEPT !.bytecode_modules = built] ELSE a

ReadLog ==
  /\ parent = "reading" /\ log # None
  /\ result' = Attempt
  /\ parent' = "returned"
  /\ UNCHANGED <<timed_out, status, late, givenVars, childVars>>

ReadFails ==
  /\ parent = "reading" /\ log = None
  /\ parent' = "failed"
  /\ UNCHANGED <<timed_out, status, result, late, givenVars, childVars>>

Parent ==
  \/ Fork \/ ForkFails \/ Regroup \/ PollRunning \/ PollEnded \/ PollLost \/ Sleep
  \/ Kill \/ ReapEnded \/ ReapLost \/ ReadLog \/ ReadFails

DeadlinePasses ==
  /\ parent \in {"polling", "checking"} /\ ~late
  /\ late' = TRUE
  /\ UNCHANGED <<parentVars, givenVars, childVars>>
-----------------------------------------------------------------------------
(* The child up to exec.                                                   *)
EnterGroup ==
  /\ child = "forked"
  /\ child' = "grouped" /\ group' = "own"
  /\ UNCHANGED <<parentVars, late, givenVars, ran, ending, helper, log, printed, built>>

OpenLog ==
  /\ child = "grouped"
  /\ child' = "logging" /\ log' = <<>>
  /\ UNCHANGED <<parentVars, late, givenVars, group, ran, ending, helper, printed, built>>

Exec ==
  /\ child = "logging"
  /\ child' = "compiling" /\ ran' = TRUE
  /\ UNCHANGED <<parentVars, late, givenVars, group, ending, helper, log, printed, built>>

(* Some call fails: exit 126, or 127 if there is no such program.          *)
SetUpFails(code) ==
  /\ SettingUp
  /\ code = 127 => child = "logging"
  /\ child' = Remains /\ ending' = Exited(code)
  /\ UNCHANGED <<parentVars, late, givenVars, group, ran, helper, log, printed, built>>

(* Mutant of Room: as much as is kept.                                     *)
RoomForOutput == MaxOutput

(* The compiler.  What it prints goes to the log as long as there is room: *)
(* one line more than is kept.  Test result is the last line of a test.    *)
Room == MaxOutput + 1

Unfinished == \A i \in DOMAIN printed : printed[i] # "Test result"

PrintLine(line) ==
  /\ child = "compiling" /\ Unfinished /\ Len(printed) < MaxLines
  /\ printed' = Append(printed, line)
  /\ IF Len(log) < Room
     THEN log' = Append(log, line) /\ UNCHANGED <<child, ending>>
     ELSE child' = Remains /\ ending' = Signalled(SIGXFSZ) /\ UNCHANGED log
  /\ UNCHANGED <<parentVars, late, givenVars, group, ran, helper, built>>

Build ==
  /\ child = "compiling" /\ built < MaxModules
  /\ built' = built + 1
  /\ UNCHANGED <<parentVars, late, givenVars, child, group, ran, ending, helper, log, printed>>

StartHelper ==
  /\ child = "compiling" /\ helper = "none"
  /\ helper' = "running"
  /\ UNCHANGED <<parentVars, late, givenVars, child, group, ran, ending, log, printed, built>>

End(s) ==
  /\ child = "compiling"
  /\ child' = Remains /\ ending' = s
  /\ UNCHANGED <<parentVars, late, givenVars, group, ran, helper, log, printed, built>>

HelperEnds ==
  /\ helper = "running"
  /\ helper' = "ended"
  /\ UNCHANGED <<parentVars, late, givenVars, child, group, ran, ending, log, printed, built>>

Child ==
  \/ EnterGroup \/ OpenLog \/ Exec \/ (\E code \in {126, 127} : SetUpFails(code))
  \/ (\E line \in Line : PrintLine(line)) \/ Build \/ StartHelper
  \/ (\E s \in {Exited(0), Exited(1), Signalled(SIGSEGV)} : End(s)) \/ HelperEnds

Next == Parent \/ DeadlinePasses \/ Child

Spec == Init /\ [][Next]_vars
-----------------------------------------------------------------------------
Over == parent \in {"returned", "failed"}

TypeOK ==
  /\ parent \in {"forking", "forked", "polling", "checking", "reaping", "reading",
                 "returned", "failed"}
  /\ timed_out \in BOOLEAN /\ late \in BOOLEAN /\ ignored \in BOOLEAN
  /\ discover_modules \in BOOLEAN /\ ran \in BOOLEAN
  /\ child \in {"none", "forked", "grouped", "logging", "compiling", "ended", "gone"}
  /\ group \in {"parent's", "own"}
  /\ status \in Statuses \cup {None} /\ ending \in Statuses \cup {None}
  /\ helper \in {"none", "running", "ended"}
  /\ log = None \/ (log \in Seq(Line) /\ Len(log) <= MaxOutput + 1)
  /\ printed \in Seq(Line) /\ built \in Nat
  /\ parent = "returned" => Len(result.output) <= MaxOutput

(* round_trip.cpp:297-321.  When the call is over the child is gone, and   *)
(* after a timeout so is all that ran in its group.                        *)
NobodyIsLeft ==
  Over => child \in {"none", "gone"} /\ (timed_out => helper # "running")

(* round_trip.cpp:306-339.  An attempt counts as successful only if the    *)
(* compiler itself ran to its end, and the modules found are all that it   *)
(* built; one that counts as completed was not ended by a signal.  What is *)
(* reported as a timeout is one, and a child that was killed for its time, *)
(* which alone ends with SIGKILL, is reported as nothing else.             *)
SuccessIsReal ==
  parent = "returned" =>
    /\ succeeded(result) => /\ ran /\ ending = Exited(0)
                            /\ discover_modules => result.bytecode_modules = built
    /\ completed(result) => ending.by = "exit"
    /\ result.timed_out => late
    /\ ending = Signalled(SIGKILL) => result.timed_out

(* round_trip.cpp:264-268, 337.  Output that is not called truncated is    *)
(* all that the compiler tried to print.                                   *)
TruncationIsTold ==
  parent = "returned" /\ ~result.output_truncated => result.output = printed
=============================================================================
