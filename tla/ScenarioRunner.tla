----------------------------- MODULE ScenarioRunner -----------------------------
(***************************************************************************)
(* `scenario run`: the runner that walks the steps of a scenario file.     *)
(* When every step names one of the two demos they run in-process (v2);    *)
(* otherwise each step is a program of its own (v1), whose stdout and      *)
(* stderr two reader threads copy to the terminal and into one buffer,     *)
(* while the main thread waits, joins them and judges the step.            *)
(*                                                                         *)
(* A program is the script of lines it writes and the exit code it then    *)
(* ends with.  A line matches what its step expects, or is plain, or is    *)
(* not UTF-8.  What is printed, and the dials passed in the environment,   *)
(* are left out, as is an expected text that spans lines.  A pipe is at    *)
(* its end once the program is: a background process of the program's that *)
(* keeps its end of a pipe open for longer is not modelled.                *)
(***************************************************************************)
EXTENDS Naturals, Sequences, FiniteSets

CONSTANTS
    Scenarios,       \* the files that can be loaded: [steps, outcomes]
    PipeCapacity,    \* lines a pipe holds
    None

VARIABLES
    pc,              \* where the main thread is
    scenario, at,    \* what it runs, and the step it is at
    report, verdicts, headline, exit_code,
    child,           \* the step's program: how far it is, and how it ended
    pipes, readers,  \* by stream
    hand,            \* the line a reader has read and not yet appended
    captured         \* Mutex<String>, as lines

vars == <<pc, scenario, at, report, verdicts, headline, exit_code, child, pipes, readers, hand, captured>>

Streams == {"stdout", "stderr"}
Lines == {"plain", "match", "garbled"}
Demos == {"account_layout", "instruction_dispatch"}

\* A step of a file, with what its program will write and how it will end.
Steps == [command : STRING, script : Seq([to : Streams, line : Lines]),
          success : BOOLEAN, expect : BOOLEAN]

\* Scenarios are made of steps, and an empty hand holds no line.
ASSUME PipeAssumption == PipeCapacity \in Nat \ {0}
ASSUME ScenarioAssumption == \A file \in Scenarios : file.steps \in Seq(Steps)
ASSUME NoneAssumption == None \notin Lines

Threads == <<pipes, readers, hand, captured>>

Report(total, passed) ==
    [total |-> total, skipped |-> 0, passed |-> passed, failed |-> 0,
     expectations_verified |-> 0, expectations_failed |-> 0]
NoChild == [status |-> "none", written |-> 0, success |-> FALSE]

Init ==
    /\ pc = "main" /\ scenario \in Scenarios /\ at = 1
    /\ report = Report(0, 0) /\ verdicts = <<>> /\ headline = None /\ exit_code = None
    /\ child = NoChild
    /\ pipes = [s \in Streams |-> <<>>] /\ readers = [s \in Streams |-> "done"]
    /\ hand = [s \in Streams |-> None] /\ captured = <<>>

----------------------------------------------------------------------------
(* The main thread: loading, and the in-process path.                       *)

is_v2_eligible(s) == s.steps # <<>> /\ \A i \in DOMAIN s.steps : s.steps[i].command \in Demos

\* No such file, or not a scenario; or only a listing of the steps is asked for.
RunNothing ==
    /\ pc = "main"
    /\ pc' = "exit"
    /\ exit_code' \in {0, 1}
    /\ UNCHANGED <<scenario, at, report, verdicts, headline, child, Threads>>

\* A check looks at the last result of the demo it is about, and fails
\* without one.  A demo always gives the same result: check.holds.
Passes(check) ==
    \E i \in DOMAIN scenario.steps : scenario.steps[i].command = check.about /\ check.holds

Headline(outcomes) ==
    IF outcomes = {} THEN "unverified"
    ELSE IF \A check \in outcomes : Passes(check) THEN "verified" ELSE "warned"

\* Every step counts as passed before it runs; a failed outcome only shows.
run_embedded_v2 ==
    /\ pc = "main" /\ is_v2_eligible(scenario)
    /\ pc' = "exit"
    /\ report' = Report(Len(scenario.steps), Len(scenario.steps))
    /\ headline' = Headline(scenario.outcomes)
    /\ exit_code' = 0
    /\ UNCHANGED <<scenario, at, verdicts, child, Threads>>

----------------------------------------------------------------------------
(* The main thread: one program after the other.                            *)

run_embedded_v1 ==
    /\ pc = "main" /\ ~is_v2_eligible(scenario)
    /\ pc' = "walk"
    /\ report' = Report(Len(scenario.steps), 0)
    /\ UNCHANGED <<scenario, at, verdicts, headline, exit_code, child, Threads>>

Step == scenario.steps[at]

Judged(verdict, counts) ==
    /\ report' = counts
    /\ verdicts' = Append(verdicts, verdict)
    /\ at' = at + 1
    /\ pc' = "walk"

Informational ==
    /\ pc = "walk" /\ at <= Len(scenario.steps) /\ Step.command = "comment"
    /\ Judged("skipped", [report EXCEPT !.skipped = @ + 1])
    /\ UNCHANGED <<scenario, headline, exit_code, child, Threads>>

\* No such program.  (One in a command for `sh -c` is a program that says so
\* and fails.)
FailedToSpawn ==
    /\ pc = "walk" /\ at <= Len(scenario.steps) /\ Step.command = "absent"
    /\ Judged("failed", [report EXCEPT !.failed = @ + 1])
    /\ UNCHANGED <<scenario, headline, exit_code, child, Threads>>

spawn_with_tee ==
    /\ pc = "walk" /\ at <= Len(scenario.steps) /\ Step.command \notin {"comment", "absent"}
    /\ pc' = "wait"
    /\ child' = [status |-> "running", written |-> 0, success |-> FALSE]
    /\ pipes' = [s \in Streams |-> <<>>]
    /\ readers' = [s \in Streams |-> "reading"]
    /\ hand' = [s \in Streams |-> None]
    /\ captured' = <<>>
    /\ UNCHANGED <<scenario, at, report, verdicts, headline, exit_code>>

Waited ==
    /\ pc = "wait" /\ child.status = "exited"
    /\ pc' = "join_stdout"
    /\ UNCHANGED <<scenario, at, report, verdicts, headline, exit_code, child, Threads>>

JoinStdout ==
    /\ pc = "join_stdout" /\ readers["stdout"] = "done"
    /\ pc' = "join_stderr"
    /\ UNCHANGED <<scenario, at, report, verdicts, headline, exit_code, child, Threads>>

\* (mutant: the second join is forgotten)
NoJoin == readers["stderr"] \in {"reading", "done"}
Joined == readers["stderr"] = "done"
JoinStderr ==
    /\ pc = "join_stderr" /\ Joined
    /\ pc' = "judge"
    /\ UNCHANGED <<scenario, at, report, verdicts, headline, exit_code, child, Threads>>

\* Arc::try_unwrap: nothing, as long as a reader shares the buffer.
Captured == IF \A s \in Streams : readers[s] = "done" THEN captured ELSE <<>>
Found == \E i \in DOMAIN Captured : Captured[i] = "match"

Expected(counts) ==
    IF Found THEN [counts EXCEPT !.expectations_verified = @ + 1]
    ELSE [counts EXCEPT !.expectations_failed = @ + 1]

StepEnded ==
    LET passed == [report EXCEPT !.passed = @ + 1]
    IN /\ pc = "judge"
       /\ \/ child.success /\ ~Step.expect /\ Judged("passed", passed)
          \/ child.success /\ Step.expect
               /\ Judged(IF Found THEN "verified" ELSE "not found", Expected(passed))
          \/ ~child.success /\ Judged("failed", [report EXCEPT !.failed = @ + 1])
       /\ child' = NoChild
       /\ UNCHANGED <<scenario, headline, exit_code, Threads>>

Verdict ==
    /\ pc = "walk" /\ at > Len(scenario.steps)
    /\ pc' = "exit"
    /\ exit_code' = IF report.failed > 0 THEN 1 ELSE 0
    /\ UNCHANGED <<scenario, at, report, verdicts, headline, child, Threads>>

Main ==
    \/ RunNothing \/ run_embedded_v2 \/ run_embedded_v1
    \/ Informational \/ FailedToSpawn \/ spawn_with_tee
    \/ Waited \/ JoinStdout \/ JoinStderr \/ StepEnded \/ Verdict

----------------------------------------------------------------------------
(* The program of the step.                                                 *)

Unfinished == child.status = "running" /\ child.written < Len(Step.script)
Next_line == Step.script[child.written + 1]

\* A full pipe blocks its writer.
Write ==
    LET s == Next_line.to
    IN /\ Unfinished
       /\ readers[s] = "reading" /\ Len(pipes[s]) < PipeCapacity
       /\ pipes' = [pipes EXCEPT ![s] = Append(@, Next_line.line)]
       /\ child' = [child EXCEPT !.written = @ + 1]
       /\ UNCHANGED <<pc, scenario, at, report, verdicts, headline, exit_code, readers, hand, captured>>

\* Nobody reads: SIGPIPE or a failed print ends the program, or it does not mind.
WriteToClosedPipe ==
    /\ Unfinished
    /\ readers[Next_line.to] = "done"
    /\ \/ child' = [child EXCEPT !.written = @ + 1]
       \/ child' = [child EXCEPT !.status = "exited"]
    /\ UNCHANGED <<pc, scenario, at, report, verdicts, headline, exit_code, Threads>>

Exit ==
    /\ child.status = "running" /\ child.written = Len(Step.script)
    /\ child' = [child EXCEPT !.status = "exited", !.success = Step.success]
    /\ UNCHANGED <<pc, scenario, at, report, verdicts, headline, exit_code, Threads>>

Child == Write \/ WriteToClosedPipe \/ Exit

----------------------------------------------------------------------------
(* The readers: reader.lines().map_while(Result::ok), and a push under the  *)
(* lock, which is never held across anything else.                          *)

\* (mutant: one reader after the other)
InTurn(s) == readers[s] = "reading" /\ (s = "stderr" => readers["stdout"] = "done")
Reading(s) == readers[s] = "reading"

\* (mutant: whatever the bytes)
Lossy(line) == line \in Lines
Utf8(line) == line # "garbled"

ReadLine(s) ==
    /\ Reading(s) /\ hand[s] = None /\ pipes[s] # <<>>
    /\ Utf8(Head(pipes[s]))
    /\ hand' = [hand EXCEPT ![s] = Head(pipes[s])]
    /\ pipes' = [pipes EXCEPT ![s] = Tail(@)]
    /\ UNCHANGED <<pc, scenario, at, report, verdicts, headline, exit_code, child, readers, captured>>

\* The first line that is not UTF-8 ends the loop and closes the pipe.
ReadGarbled(s) ==
    /\ Reading(s) /\ hand[s] = None /\ pipes[s] # <<>>
    /\ ~Utf8(Head(pipes[s]))
    /\ readers' = [readers EXCEPT ![s] = "done"]
    /\ pipes' = [pipes EXCEPT ![s] = <<>>]
    /\ UNCHANGED <<pc, scenario, at, report, verdicts, headline, exit_code, child, hand, captured>>

Push(s) ==
    /\ hand[s] # None
    /\ captured' = Append(captured, hand[s])
    /\ hand' = [hand EXCEPT ![s] = None]
    /\ UNCHANGED <<pc, scenario, at, report, verdicts, headline, exit_code, child, pipes, readers>>

EndOfFile(s) ==
    /\ Reading(s) /\ hand[s] = None /\ pipes[s] = <<>>
    /\ child.status # "running"
    /\ readers' = [readers EXCEPT ![s] = "done"]
    /\ UNCHANGED <<pc, scenario, at, report, verdicts, headline, exit_code, child, pipes, hand, captured>>

Reader(s) == ReadLine(s) \/ ReadGarbled(s) \/ Push(s) \/ EndOfFile(s)

----------------------------------------------------------------------------
Terminated == pc = "exit" /\ UNCHANGED vars

Next == Main \/ Child \/ (\E s \in Streams : Reader(s)) \/ Terminated

\* The operating system runs every thread and program that is not blocked;
\* what a program writes has an end.
FairSpec ==
    /\ Init /\ [][Next]_vars
    /\ WF_vars(Main) /\ WF_vars(Child) /\ \A s \in Streams : WF_vars(Reader(s))

----------------------------------------------------------------------------
(* Properties.                                                              *)

\* What the threads share has its type, and a pipe holds no more than it can.
TypeOK ==
    /\ pc \in {"main", "walk", "wait", "join_stdout", "join_stderr", "judge", "exit"}
    /\ at \in 1 .. Len(scenario.steps) + 1
    /\ headline \in {None, "unverified", "verified", "warned"} /\ exit_code \in {None, 0, 1}
    /\ child.status \in {"none", "running", "exited"}
    /\ \A s \in Streams :
            /\ Len(pipes[s]) <= PipeCapacity /\ readers[s] \in {"reading", "done"}
            /\ \A i \in DOMAIN pipes[s] : pipes[s][i] \in Lines
            /\ hand[s] \in {None, "plain", "match"}
    /\ \A i \in DOMAIN captured : captured[i] \in {"plain", "match"}

\* A line no earlier line of its stream kept from being read.
Readable(script, i) ==
    \A j \in 1 .. i : script[j].to = script[i].to => script[j].line # "garbled"

\* A step is judged by all that its program could be read to say, on either
\* stream and up to its last line, however the readers, the program and the
\* main thread interleave; it fails only when the program fails, cannot be
\* found, or loses its reader.  The run has judged every step when it ends, and
\* ends with an error just when a step failed.
WholeOutputJudged ==
    /\ \A i \in DOMAIN verdicts :
        LET step == scenario.steps[i]
            said == \E j \in DOMAIN step.script :
                        step.script[j].line = "match" /\ Readable(step.script, j)
        IN /\ verdicts[i] = "verified" => step.expect /\ step.success /\ said
           /\ verdicts[i] = "not found" => step.expect /\ step.success /\ ~said
           /\ verdicts[i] = "failed" =>
                \/ step.command = "absent"
                \/ ~step.success
                \/ \E j \in DOMAIN step.script : ~Readable(step.script, j)
    /\ pc = "exit" /\ verdicts # <<>> =>
        /\ Len(verdicts) = Len(scenario.steps)
        /\ exit_code = 1 <=> \E i \in DOMAIN verdicts : verdicts[i] = "failed"

\* A run ends: neither a full pipe nor a reader that gave up leaves the
\* program, the readers and the main thread waiting for one another.
RunEnds == <>(pc = "exit")

=============================================================================
