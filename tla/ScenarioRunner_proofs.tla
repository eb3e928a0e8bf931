------------------------- MODULE ScenarioRunner_proofs -------------------------
(***************************************************************************)
(* Proofs about ScenarioRunner for every set of scenarios and every        *)
(* capacity of the pipes: what the threads share keeps its type, a step is *)
(* judged by all that its program could be read to say, every step of a    *)
(* thread leaves less to do, and while the run lasts there is one to take. *)
(***************************************************************************)
EXTENDS ScenarioRunner, TLAPS, SequenceTheorems

----------------------------------------------------------------------------
(* How far a step's output has come.  taken[s] is the last line that the    *)
(* reader of stream s has taken from its pipe, and pos[s] tells which lines *)
(* of the script the pipe holds.                                            *)

\* No line of the stream up to n is garbled.
Clean(script, s, n) == \A j \in 1 .. n : script[j].to = s => script[j].line # "garbled"

\* The lines from m to n are of the other stream.
Silent(script, s, m, n) == \A j \in m .. n : script[j].to # s

\* The pipe holds, in order, the lines of the stream after n, up to w.
Stocked(script, s, n, w, pipe, q) ==
    /\ q \in Seq(Nat) /\ Len(q) = Len(pipe)
    /\ \A i \in 1 .. Len(q) :
            /\ q[i] \in n + 1 .. w
            /\ script[q[i]].to = s /\ script[q[i]].line = pipe[i]
    /\ \A i, k \in 1 .. Len(q) : i < k => q[i] < q[k]
    /\ \A j \in n + 1 .. w : script[j].to = s => \E i \in 1 .. Len(q) : q[i] = j

\* A garbled line of the stream is the first after n.
Cut(script, s, n, w) ==
    \E g \in n + 1 .. w : /\ script[g].to = s /\ script[g].line = "garbled"
                          /\ Silent(script, s, n + 1, g - 1)

\* Stream s while its reader reads, and after it has given up or seen the end.
Fed(script, s, w, ended, pipe, reader, n, q) ==
    /\ n \in 0 .. w /\ Clean(script, s, n)
    /\ reader = "reading" => Stocked(script, s, n, w, pipe, q)
    /\ reader = "done" => Cut(script, s, n, w) \/ (ended /\ Silent(script, s, n + 1, w))

\* A match is among the lines taken just when one was found or is in a hand.
Heard(script, hands, found, taken) ==
    (\E i \in DOMAIN found : found[i] = "match") \/ (\E s \in Streams : hands[s] = "match")
    <=> \E s \in Streams : \E j \in 1 .. taken[s] : script[j].to = s /\ script[j].line = "match"

\* The output of the program of the step, as it is between spawn and verdict.
Flows(script, program, feeds, threads, hands, found, taken, pos) ==
    /\ program.written \in 0 .. Len(script)
    /\ \A s \in Streams : Fed(script, s, program.written, program.status = "exited",
                              feeds[s], threads[s], taken[s], pos[s])
    /\ Heard(script, hands, found, taken)

----------------------------------------------------------------------------
(* The invariant.                                                           *)

Reports == [total : Nat, skipped : Nat, passed : Nat, failed : Nat,
            expectations_verified : Nat, expectations_failed : Nat]
Verdicts == {"skipped", "failed", "passed", "verified", "not found"}
Children == [status : {"none", "running", "exited"}, written : Nat, success : BOOLEAN]

Types ==
    /\ pc \in {"main", "walk", "wait", "join_stdout", "join_stderr", "judge", "exit"}
    /\ scenario.steps \in Seq(Steps)
    /\ at \in 1 .. Len(scenario.steps) + 1
    /\ report \in Reports /\ verdicts \in Seq(Verdicts)
    /\ headline \in {None, "unverified", "verified", "warned"} /\ exit_code \in {None, 0, 1}
    /\ child \in Children
    /\ pipes \in [Streams -> Seq(Lines)] /\ \A s \in Streams : Len(pipes[s]) <= PipeCapacity
    /\ readers \in [Streams -> {"reading", "done"}]
    /\ hand \in [Streams -> {None, "plain", "match"}]
    /\ captured \in Seq({"plain", "match"})

Idle == pc \in {"main", "walk", "exit"}

\* Who runs when.
Control ==
    /\ Idle => child.status = "none" /\ \A s \in Streams : readers[s] = "done"
    /\ pc = "wait" => child.status \in {"running", "exited"}
    /\ pc \in {"join_stdout", "join_stderr", "judge"} => child.status = "exited"
    /\ pc \in {"join_stderr", "judge"} => readers["stdout"] = "done"
    /\ pc = "judge" => readers["stderr"] = "done"
    /\ ~Idle => at <= Len(scenario.steps)
    /\ \A s \in Streams : readers[s] = "done" => hand[s] = None

\* How a program may have ended.
Ended ==
    /\ child.status = "running" => ~child.success
    /\ child.success => Step.success /\ child.written = Len(Step.script)
    /\ child.status = "exited" /\ ~child.success =>
            ~Step.success \/ \E j \in DOMAIN Step.script : ~Readable(Step.script, j)

\* What a verdict says of its step.
Fair(verdict, step) ==
    LET said == \E j \in DOMAIN step.script :
                    step.script[j].line = "match" /\ Readable(step.script, j)
    IN /\ verdict = "verified" => step.expect /\ step.success /\ said
       /\ verdict = "not found" => step.expect /\ step.success /\ ~said
       /\ verdict = "failed" =>
            \/ step.command = "absent"
            \/ ~step.success
            \/ \E j \in DOMAIN step.script : ~Readable(step.script, j)

\* The verdicts so far and the report agree.
Judgement ==
    /\ Len(verdicts) = at - 1
    /\ \A i \in DOMAIN verdicts : Fair(verdicts[i], scenario.steps[i])
    /\ report.failed > 0 <=> \E i \in DOMAIN verdicts : verdicts[i] = "failed"
    /\ pc = "main" => verdicts = <<>>
    /\ pc = "exit" /\ verdicts # <<>> =>
            /\ Len(verdicts) = Len(scenario.steps)
            /\ exit_code = 1 <=> \E i \in DOMAIN verdicts : verdicts[i] = "failed"

IInv ==
    /\ Types /\ Control /\ Judgement
    /\ ~Idle => /\ Ended
                /\ \E taken, pos : Flows(Step.script, child, pipes, readers, hand, captured, taken, pos)

\* A step of a scenario is a step.
LEMMA StepType ==
    ASSUME Types, at <= Len(scenario.steps)
    PROVE  Step \in Steps /\ Len(Step.script) \in Nat
           /\ \A j \in 1 .. Len(Step.script) : Step.script[j] \in [to : Streams, line : Lines]
<1>1. at \in 1 .. Len(scenario.steps) /\ scenario.steps \in Seq(Steps)
    BY DEF Types
<1>2. Step \in Steps
    BY <1>1 DEF Step
<1>3. Step.script \in Seq([to : Streams, line : Lines])
    BY <1>2 DEF Steps
<1> DEFINE script == Step.script
           Written == [to : Streams, line : Lines]
<1> HIDE DEF script, Written
<1>4. Len(script) \in Nat /\ \A j \in 1 .. Len(script) : script[j] \in Written
    <2>1. script \in Seq(Written)
        BY <1>3 DEF script, Written
    <2> QED
        BY <2>1
<1> QED
    BY <1>2, <1>4 DEF script, Written

----------------------------------------------------------------------------
(* One stream.                                                              *)

\* A line is readable just when its reader takes it, once the reader is done
\* and the program has written all of it.
LEMMA ReadableTaken ==
    ASSUME NEW script, NEW s, NEW w \in Nat, w = Len(script), NEW ended, NEW pipe, NEW n, NEW q,
           Fed(script, s, w, ended, pipe, "done", n, q),
           NEW j \in 1 .. w, script[j].to = s
    PROVE  Readable(script, j) <=> j <= n
<1>1. n \in 0 .. w /\ Clean(script, s, n)
    BY DEF Fed
<1>2. ASSUME j <= n PROVE Readable(script, j)
    BY <1>1, <1>2 DEF Clean, Readable
<1>3. ASSUME Readable(script, j), ~ (j <= n) PROVE FALSE
    <2>1. j \in n + 1 .. w
        BY <1>1, <1>3
    <2>2. CASE Cut(script, s, n, w)
        <3>1. PICK g \in n + 1 .. w : /\ script[g].to = s /\ script[g].line = "garbled"
                                      /\ Silent(script, s, n + 1, g - 1)
            BY <2>2 DEF Cut
        <3>2. ~ (j <= g - 1)
            BY <1>1, <2>1, <3>1 DEF Silent
        <3>3. g \in 1 .. j
            BY <1>1, <2>1, <3>1, <3>2
        <3> QED
            BY <1>3, <3>1, <3>3 DEF Readable
    <2>3. CASE Silent(script, s, n + 1, w)
        BY <2>1, <2>3 DEF Silent
    <2> QED
        BY <2>2, <2>3 DEF Fed
<1> QED
    BY <1>1, <1>2, <1>3 DEF Readable

\* A line that is written goes to the end of its pipe.
LEMMA LineWritten ==
    ASSUME NEW script, NEW s, NEW w \in Nat, NEW n, NEW pipe \in Seq(Lines), NEW q,
           Fed(script, s, w, FALSE, pipe, "reading", n, q), script[w + 1].to = s
    PROVE  Fed(script, s, w + 1, FALSE, Append(pipe, script[w + 1].line), "reading",
               n, Append(q, w + 1))
<1> DEFINE q2 == Append(q, w + 1)
           pipe2 == Append(pipe, script[w + 1].line)
<1>1. n \in 0 .. w /\ Clean(script, s, n) /\ Stocked(script, s, n, w, pipe, q)
    BY DEF Fed
<1>2. q \in Seq(Nat) /\ Len(q) \in Nat /\ Len(pipe) = Len(q)
    BY <1>1 DEF Stocked
<1>3. /\ q2 \in Seq(Nat) /\ Len(q2) = Len(q) + 1 /\ Len(pipe2) = Len(q) + 1
      /\ \A i \in 1 .. Len(q) : q2[i] = q[i] /\ pipe2[i] = pipe[i]
      /\ q2[Len(q) + 1] = w + 1 /\ pipe2[Len(q) + 1] = script[w + 1].line
    BY <1>2
<1> HIDE DEF q2, pipe2
<1>4. ASSUME NEW i \in 1 .. Len(q2)
      PROVE  /\ q2[i] \in n + 1 .. w + 1
             /\ script[q2[i]].to = s /\ script[q2[i]].line = pipe2[i]
    <2>1. CASE i \in 1 .. Len(q)
        <3>1. q[i] \in n + 1 .. w /\ script[q[i]].to = s /\ script[q[i]].line = pipe[i]
            BY <1>1, <2>1 DEF Stocked
        <3> QED
            BY <1>1, <1>3, <2>1, <3>1
    <2>2. CASE i = Len(q) + 1
        BY <1>1, <1>3, <2>2
    <2> QED
        BY <1>2, <1>3, <2>1, <2>2
<1>5. ASSUME NEW i \in 1 .. Len(q2), NEW k \in 1 .. Len(q2), i < k PROVE q2[i] < q2[k]
    <2>1. i \in 1 .. Len(q) /\ q2[i] = q[i] /\ q[i] \in n + 1 .. w
        BY <1>1, <1>2, <1>3, <1>5 DEF Stocked
    <2>2. CASE k \in 1 .. Len(q)
        BY <1>1, <1>3, <1>5, <2>1, <2>2 DEF Stocked
    <2>3. CASE k = Len(q) + 1
        BY <1>1, <1>3, <2>1, <2>3
    <2> QED
        BY <1>2, <1>3, <2>2, <2>3
<1>6. ASSUME NEW j \in n + 1 .. w + 1, script[j].to = s PROVE \E i \in 1 .. Len(q2) : q2[i] = j
    <2>1. CASE j = w + 1
        BY <1>2, <1>3, <2>1
    <2>2. CASE j # w + 1
        <3>1. j \in n + 1 .. w
            BY <1>1, <2>2
        <3>2. PICK i \in 1 .. Len(q) : q[i] = j
            BY <1>1, <1>6, <3>1 DEF Stocked
        <3> QED
            BY <1>2, <1>3, <3>2
    <2> QED
        BY <2>1, <2>2
<1>7. Stocked(script, s, n, w + 1, pipe2, q2)
    BY <1>3, <1>4, <1>5, <1>6 DEF Stocked
<1> QED
    BY <1>1, <1>7 DEF Fed, q2, pipe2

\* A line of the other stream changes nothing, nor does one that nobody reads.
LEMMA LinePassed ==
    ASSUME NEW script, NEW s, NEW w \in Nat, NEW n, NEW pipe, NEW q, NEW reader,
           Fed(script, s, w, FALSE, pipe, reader, n, q),
           script[w + 1].to # s \/ reader = "done"
    PROVE  Fed(script, s, w + 1, FALSE, pipe, reader, n, q)
<1>1. n \in 0 .. w + 1 /\ n \in 0 .. w /\ Clean(script, s, n)
    BY DEF Fed
<1>2. ASSUME reader = "reading" PROVE Stocked(script, s, n, w + 1, pipe, q)
    <2>1. Stocked(script, s, n, w, pipe, q) /\ script[w + 1].to # s
        BY <1>2 DEF Fed
    <2>2. \A j \in n + 1 .. w + 1 : j \in n + 1 .. w \/ j = w + 1
        BY <1>1
    <2>3. \A j \in n + 1 .. w : j \in n + 1 .. w + 1
        BY <1>1
    <2> QED
        BY <2>1, <2>2, <2>3 DEF Stocked
<1>3. ASSUME reader = "done" PROVE Cut(script, s, n, w + 1)
    <2>1. PICK g \in n + 1 .. w : /\ script[g].to = s /\ script[g].line = "garbled"
                                  /\ Silent(script, s, n + 1, g - 1)
        BY <1>3 DEF Fed, Cut
    <2>2. g \in n + 1 .. w + 1
        BY <1>1, <2>1
    <2> QED
        BY <2>1, <2>2 DEF Cut
<1> QED
    BY <1>1, <1>2, <1>3 DEF Fed

\* The reader takes the line that is first in the pipe.
LEMMA LineTaken ==
    ASSUME NEW script, NEW s, NEW w \in Nat, NEW n, NEW pipe \in Seq(Lines), NEW q, NEW ended,
           Fed(script, s, w, ended, pipe, "reading", n, q), pipe # <<>>
    PROVE  /\ q[1] \in n + 1 .. w /\ script[q[1]].to = s /\ script[q[1]].line = Head(pipe)
           /\ Silent(script, s, n + 1, q[1] - 1)
           /\ Head(pipe) # "garbled" =>
                    Fed(script, s, w, ended, Tail(pipe), "reading", q[1], Tail(q))
           /\ Head(pipe) = "garbled" => Fed(script, s, w, ended, <<>>, "done", n, q)
<1>1. n \in 0 .. w /\ Clean(script, s, n) /\ Stocked(script, s, n, w, pipe, q)
    BY DEF Fed
<1>2. q \in Seq(Nat) /\ Len(q) \in Nat /\ Len(pipe) = Len(q) /\ Len(q) > 0 /\ q # <<>>
    BY <1>1 DEF Stocked
<1> DEFINE q2 == Tail(q)
           pipe2 == Tail(pipe)
           m == q[1]
<1>3. /\ q2 \in Seq(Nat) /\ Len(q2) = Len(q) - 1 /\ Len(pipe2) = Len(q) - 1
      /\ \A i \in 1 .. Len(q) - 1 : q2[i] = q[i + 1] /\ pipe2[i] = pipe[i + 1]
      /\ Head(pipe) = pipe[1]
    BY <1>2
<1> HIDE DEF q2, pipe2, m
<1>4. m \in n + 1 .. w /\ script[m].to = s /\ script[m].line = Head(pipe)
    <2>1. 1 \in 1 .. Len(q)
        BY <1>2
    <2> QED
        BY <1>1, <1>3, <2>1 DEF Stocked, m
<1>5. \A i \in 1 .. Len(q) : i # 1 => m < q[i]
    BY <1>1, <1>2 DEF Stocked, m
<1>6. ASSUME NEW j \in n + 1 .. w, script[j].to = s, j <= m PROVE j = m
    <2>1. PICK i \in 1 .. Len(q) : q[i] = j
        BY <1>1, <1>6 DEF Stocked
    <2>2. i = 1
        BY <1>1, <1>4, <1>5, <1>6, <2>1
    <2> QED
        BY <2>1, <2>2 DEF m
<1>7. Silent(script, s, n + 1, m - 1)
    <2>1. SUFFICES ASSUME NEW j \in n + 1 .. m - 1, script[j].to = s PROVE FALSE
        BY DEF Silent
    <2>2. j \in n + 1 .. w /\ j <= m /\ j # m
        BY <1>1, <1>4
    <2> QED
        BY <1>6, <2>1, <2>2
<1>8. ASSUME Head(pipe) # "garbled" PROVE Fed(script, s, w, ended, pipe2, "reading", m, q2)
    <2>1. m \in 0 .. w
        BY <1>1, <1>4
    <2>2. ASSUME NEW j \in 1 .. m, script[j].to = s PROVE script[j].line # "garbled"
        <3>1. CASE j <= n
            <4>1. j \in 1 .. n
                BY <1>1, <3>1
            <4> QED
                BY <1>1, <2>2, <4>1 DEF Clean
        <3>2. CASE ~ (j <= n)
            <4>1. j \in n + 1 .. w /\ j <= m
                BY <1>1, <1>4, <3>2
            <4> QED
                BY <1>4, <1>6, <1>8, <2>2, <4>1
        <3> QED
            BY <3>1, <3>2
    <2>3. ASSUME NEW i \in 1 .. Len(q2)
          PROVE  /\ q2[i] \in m + 1 .. w
                 /\ script[q2[i]].to = s /\ script[q2[i]].line = pipe2[i]
        <3>1. i + 1 \in 1 .. Len(q) /\ i + 1 # 1 /\ q2[i] = q[i + 1] /\ pipe2[i] = pipe[i + 1]
            BY <1>2, <1>3
        <3>2. q[i + 1] \in n + 1 .. w /\ script[q[i + 1]].to = s
              /\ script[q[i + 1]].line = pipe[i + 1] /\ m < q[i + 1]
            BY <1>1, <1>5, <3>1 DEF Stocked
        <3> QED
            BY <1>1, <1>4, <3>1, <3>2
    <2>4. ASSUME NEW i \in 1 .. Len(q2), NEW k \in 1 .. Len(q2), i < k PROVE q2[i] < q2[k]
        <3>1. /\ i + 1 \in 1 .. Len(q) /\ k + 1 \in 1 .. Len(q) /\ i + 1 < k + 1
              /\ q2[i] = q[i + 1] /\ q2[k] = q[k + 1]
            BY <1>2, <1>3, <2>4
        <3> QED
            BY <1>1, <3>1 DEF Stocked
    <2>5. ASSUME NEW j \in m + 1 .. w, script[j].to = s PROVE \E i \in 1 .. Len(q2) : q2[i] = j
        <3>1. j \in n + 1 .. w /\ j # m
            BY <1>1, <1>4
        <3>2. PICK i \in 1 .. Len(q) : q[i] = j
            BY <1>1, <2>5, <3>1 DEF Stocked
        <3>3. i # 1
            BY <3>1, <3>2 DEF m
        <3>4. i - 1 \in 1 .. Len(q2) /\ i - 1 \in 1 .. Len(q) - 1 /\ (i - 1) + 1 = i
            BY <1>2, <1>3, <3>3
        <3> QED
            BY <1>3, <3>2, <3>4
    <2>6. Stocked(script, s, m, w, pipe2, q2)
        BY <1>3, <2>3, <2>4, <2>5 DEF Stocked
    <2>7. Clean(script, s, m)
        BY <2>2 DEF Clean
    <2> QED
        BY <2>1, <2>6, <2>7 DEF Fed
<1>9. ASSUME Head(pipe) = "garbled" PROVE Fed(script, s, w, ended, <<>>, "done", n, q)
    <2>1. Cut(script, s, n, w)
        BY <1>4, <1>7, <1>9 DEF Cut
    <2> QED
        BY <1>1, <2>1 DEF Fed
<1> QED
    BY <1>4, <1>7, <1>8, <1>9 DEF m, q2, pipe2

\* A reader that finds the pipe empty and its writer gone has taken all.
LEMMA AllTaken ==
    ASSUME NEW script, NEW s, NEW w \in Nat, NEW n, NEW q,
           Fed(script, s, w, TRUE, <<>>, "reading", n, q)
    PROVE  Fed(script, s, w, TRUE, <<>>, "done", n, q)
<1>1. Stocked(script, s, n, w, <<>>, q) /\ Len(q) = 0
    BY DEF Fed, Stocked
<1>2. Silent(script, s, n + 1, w)
    BY <1>1 DEF Stocked, Silent
<1> QED
    BY <1>2 DEF Fed

----------------------------------------------------------------------------
(* The main thread.                                                         *)

\* A run starts with nothing judged.
LEMMA InitInv == Init => IInv
<1> SUFFICES ASSUME Init PROVE IInv
    OBVIOUS
<1>1. scenario.steps \in Seq(Steps) /\ Len(scenario.steps) \in Nat /\ at = 1
    BY ScenarioAssumption DEF Init
<1>2. Types
    <2>1. PipeCapacity \in Nat
        BY PipeAssumption
    <2>2. report \in Reports /\ child \in Children
        BY DEF Init, Report, Reports, NoChild, Children
    <2>3. \A s \in Streams : pipes[s] = <<>>
        BY DEF Init
    <2> QED
        BY <1>1, <2>1, <2>2, <2>3 DEF Init, Types
<1>3. Control /\ Idle
    BY DEF Init, Control, Idle, NoChild
<1>4. Judgement
    <2>1. verdicts = <<>> /\ report.failed = 0 /\ pc = "main"
        BY DEF Init, Report
    <2> QED
        BY <1>1, <2>1 DEF Judgement
<1> QED
    BY <1>2, <1>3, <1>4 DEF IInv

\* What leaves the main thread alone leaves its judgement alone.
LEMMA MainUntouched ==
    ASSUME UNCHANGED <<pc, scenario, at, report, verdicts, headline, exit_code>>
    PROVE  (Judgement <=> Judgement') /\ (Idle <=> Idle') /\ Step' = Step
BY DEF Judgement, Idle, Step

\* A verdict that is right keeps judgement and report in step.
LEMMA JudgedRight ==
    ASSUME Types, Judgement, NEW verdict \in Verdicts, NEW counts \in Reports,
           Judged(verdict, counts), at <= Len(scenario.steps), scenario' = scenario,
           Fair(verdict, Step),
           counts.failed = IF verdict = "failed" THEN report.failed + 1 ELSE report.failed
    PROVE  /\ Judgement' /\ at' \in 1 .. Len(scenario.steps) + 1
           /\ report' \in Reports /\ verdicts' \in Seq(Verdicts)
<1> DEFINE n == Len(verdicts)
<1>1. /\ verdicts \in Seq(Verdicts) /\ n \in Nat /\ n = at - 1 /\ at \in Nat
      /\ at \in 1 .. Len(scenario.steps) /\ Len(scenario.steps) \in Nat
      /\ report.failed \in Nat
    <2>1. /\ verdicts \in Seq(Verdicts) /\ scenario.steps \in Seq(Steps) /\ report \in Reports
          /\ at \in 1 .. Len(scenario.steps) + 1 /\ Len(verdicts) = at - 1
        BY DEF Types, Judgement
    <2>2. Len(verdicts) \in Nat /\ Len(scenario.steps) \in Nat
        BY <2>1
    <2>3. report.failed \in Nat
        BY <2>1 DEF Reports
    <2> HIDE DEF n
    <2> QED
        BY <2>1, <2>2, <2>3 DEF n
<1>2. /\ verdicts' = Append(verdicts, verdict) /\ at' = at + 1 /\ report' = counts /\ pc' = "walk"
    BY DEF Judged
<1>3. /\ verdicts' \in Seq(Verdicts) /\ Len(verdicts') = n + 1
      /\ \A i \in 1 .. n : verdicts'[i] = verdicts[i]
      /\ verdicts'[n + 1] = verdict
    BY <1>1, <1>2
<1>4. DOMAIN verdicts' = 1 .. n + 1 /\ DOMAIN verdicts = 1 .. n
    BY <1>1, <1>3
<1>5. ASSUME NEW i \in 1 .. n + 1 PROVE Fair(verdicts'[i], scenario.steps[i])
    <2>1. CASE i \in 1 .. n
        BY <1>3, <1>4, <2>1 DEF Judgement
    <2>2. CASE i = n + 1
        BY <1>1, <1>3, <2>2 DEF Step
    <2> QED
        BY <1>1, <2>1, <2>2
<1>6. report'.failed > 0 <=> \E i \in 1 .. n + 1 : verdicts'[i] = "failed"
    <2>1. report.failed > 0 <=> \E i \in 1 .. n : verdicts[i] = "failed"
        BY <1>4 DEF Judgement
    <2>2. (\E i \in 1 .. n + 1 : verdicts'[i] = "failed")
            <=> (\E i \in 1 .. n : verdicts[i] = "failed") \/ verdict = "failed"
        BY <1>1, <1>3
    <2> QED
        BY <1>1, <1>2, <2>1, <2>2
<1> HIDE DEF n
<1>7. Len(verdicts') = at' - 1
    BY <1>1, <1>2, <1>3
<1>8. Judgement'
    <2>1. (\A i \in DOMAIN verdicts : Fair(verdicts[i], scenario.steps[i]))'
        BY <1>4, <1>5 DEF Fair
    <2>2. (report.failed > 0 <=> \E i \in DOMAIN verdicts : verdicts[i] = "failed")'
        BY <1>4, <1>6
    <2>3. pc' # "main" /\ pc' # "exit"
        BY <1>2
    <2> QED
        BY <1>7, <2>1, <2>2, <2>3 DEF Judgement
<1> QED
    BY <1>1, <1>2, <1>3, <1>8

\* The run in-process, the listing, the end: the main thread by itself.
LEMMA MainAlone ==
    ASSUME IInv, RunNothing \/ run_embedded_v2 \/ run_embedded_v1 \/ Verdict
    PROVE  IInv'
<1>1. /\ Types /\ Control /\ Judgement /\ pc \in {"main", "walk"} /\ Idle
    BY DEF IInv, RunNothing, run_embedded_v2, run_embedded_v1, Verdict, Idle
<1>2. /\ UNCHANGED <<scenario, at, verdicts, child, Threads>> /\ pc' \in {"walk", "exit"}
    BY DEF RunNothing, run_embedded_v2, run_embedded_v1, Verdict
<1>3. UNCHANGED <<pipes, readers, hand, captured>>
    BY <1>2 DEF Threads
<1>4. Len(scenario.steps) \in Nat
    BY <1>1 DEF Types
<1>5. /\ report' \in Reports /\ headline' \in {None, "unverified", "verified", "warned"}
      /\ exit_code' \in {None, 0, 1}
    BY <1>1, <1>4 DEF RunNothing, run_embedded_v2, run_embedded_v1, Verdict, Headline, Types,
        Report, Reports
<1>6. Types' /\ Idle'
    BY <1>1, <1>2, <1>3, <1>5 DEF Types, Idle
<1>7. Control'
    BY <1>1, <1>2, <1>3 DEF Control, Idle
<1>8. Judgement'
    <2>1. CASE pc = "main"
        <3>1. verdicts = <<>> /\ verdicts' = <<>>
            BY <1>1, <1>2, <2>1 DEF Judgement
        <3>2. report'.failed = 0 \/ report'.failed = report.failed
            BY <2>1 DEF RunNothing, run_embedded_v2, run_embedded_v1, Verdict, Report
        <3> QED
            BY <1>1, <1>2, <3>1, <3>2 DEF Judgement
    <2>2. CASE pc = "walk"
        <3>1. /\ at > Len(scenario.steps) /\ UNCHANGED report
              /\ exit_code' = IF report.failed > 0 THEN 1 ELSE 0
            BY <2>2 DEF RunNothing, run_embedded_v2, run_embedded_v1, Verdict
        <3>2. Len(verdicts) = Len(scenario.steps)
            <4>1. at \in 1 .. Len(scenario.steps) + 1 /\ Len(verdicts) = at - 1
                BY <1>1 DEF Types, Judgement
            <4> QED
                BY <1>4, <3>1, <4>1
        <3>3. pc' # "main" /\ report' = report /\ verdicts' = verdicts
              /\ at' = at /\ scenario' = scenario
            BY <1>2, <3>1
        <3>4. /\ Len(verdicts) = at - 1
              /\ \A i \in DOMAIN verdicts : Fair(verdicts[i], scenario.steps[i])
              /\ (report.failed > 0 <=> \E i \in DOMAIN verdicts : verdicts[i] = "failed")
            BY <1>1 DEF Judgement
        <3>5. (\A i \in DOMAIN verdicts : Fair(verdicts[i], scenario.steps[i]))'
            BY <3>3, <3>4 DEF Fair
        <3>6. exit_code' = 1 <=> \E i \in DOMAIN verdicts : verdicts[i] = "failed"
            BY <3>1, <3>4
        <3> QED
            BY <3>2, <3>3, <3>4, <3>5, <3>6 DEF Judgement
    <2> QED
        BY <1>1, <2>1, <2>2
<1> QED
    BY <1>6, <1>7, <1>8 DEF IInv

\* Steps without a program.
LEMMA NoProgram ==
    ASSUME IInv, Informational \/ FailedToSpawn
    PROVE  IInv'
<1>1. /\ Types /\ Control /\ Judgement /\ pc = "walk" /\ at <= Len(scenario.steps)
    BY DEF IInv, Informational, FailedToSpawn
<1>2. UNCHANGED <<scenario, headline, exit_code, child, pipes, readers, hand, captured>>
    BY DEF Informational, FailedToSpawn, Threads
<1>3. /\ Judgement' /\ at' \in 1 .. Len(scenario.steps) + 1
      /\ report' \in Reports /\ verdicts' \in Seq(Verdicts)
    <2>1. report \in Reports
        BY <1>1 DEF Types
    <2>2. CASE Informational
        <3> DEFINE counts == [report EXCEPT !.skipped = @ + 1]
        <3>1. counts \in Reports /\ counts.failed = report.failed
            BY <2>1 DEF Reports
        <3>2. Judged("skipped", counts) /\ "skipped" \in Verdicts /\ Fair("skipped", Step)
            BY <2>2 DEF Informational, Verdicts, Fair
        <3> HIDE DEF counts
        <3> QED
            BY <1>1, <1>2, <3>1, <3>2, JudgedRight
    <2>3. CASE FailedToSpawn
        <3> DEFINE counts == [report EXCEPT !.failed = @ + 1]
        <3>1. counts \in Reports /\ counts.failed = report.failed + 1
            BY <2>1 DEF Reports
        <3>2. Judged("failed", counts) /\ "failed" \in Verdicts /\ Fair("failed", Step)
            BY <2>3 DEF FailedToSpawn, Verdicts, Fair
        <3> HIDE DEF counts
        <3> QED
            BY <1>1, <1>2, <3>1, <3>2, JudgedRight
    <2> QED
        BY <2>2, <2>3
<1>4. pc' = "walk"
    BY DEF Informational, FailedToSpawn, Judged
<1>5. Types' /\ Idle'
    BY <1>1, <1>2, <1>3, <1>4 DEF Types, Idle
<1>6. Control'
    BY <1>1, <1>2, <1>4 DEF Control, Idle
<1> QED
    BY <1>3, <1>5, <1>6 DEF IInv

\* A program starts, with empty pipes.
LEMMA SpawnInv ==
    ASSUME IInv, spawn_with_tee
    PROVE  IInv'
<1>1. /\ Types /\ Control /\ Judgement /\ pc = "walk" /\ at <= Len(scenario.steps)
    BY DEF IInv, spawn_with_tee
<1>2. /\ pc' = "wait" /\ child' = [status |-> "running", written |-> 0, success |-> FALSE]
      /\ pipes' = [s \in Streams |-> <<>>] /\ readers' = [s \in Streams |-> "reading"]
      /\ hand' = [s \in Streams |-> None] /\ captured' = <<>>
      /\ UNCHANGED <<scenario, at, report, verdicts, headline, exit_code>>
    BY DEF spawn_with_tee
<1>3. Types'
    <2>1. child' \in Children
        BY <1>2 DEF Children
    <2>2. \A s \in Streams : Len(pipes'[s]) <= PipeCapacity
        BY <1>2, PipeAssumption
    <2> QED
        BY <1>1, <1>2, <2>1, <2>2 DEF Types
<1>4. Control' /\ ~Idle'
    BY <1>1, <1>2 DEF Control, Idle, Streams
<1>5. Judgement'
    BY <1>1, <1>2 DEF Judgement, Fair
<1>6. Ended' /\ Step' = Step
    BY <1>2 DEF Ended, Step
<1>7. Len(Step.script) \in Nat
    BY <1>1, StepType
<1> DEFINE taken == [s \in Streams |-> 0]
           pos == [s \in Streams |-> <<>>]
<1>8. ASSUME NEW s \in Streams
      PROVE  Fed(Step.script, s, 0, FALSE, <<>>, "reading", 0, <<>>)
    <2>1. Stocked(Step.script, s, 0, 0, <<>>, <<>>)
        BY DEF Stocked
    <2> QED
        BY <2>1 DEF Fed, Clean
<1>9. Heard(Step.script, hand', captured', taken)
    <2>1. None # "match"
        BY NoneAssumption DEF Lines
    <2> QED
        BY <1>2, <2>1 DEF Heard
<1>10. Flows(Step.script, child', pipes', readers', hand', captured', taken, pos)
    <2>1. /\ child'.written = 0 /\ child'.status = "running" /\ 0 \in 0 .. Len(Step.script)
          /\ \A s \in Streams : /\ pipes'[s] = <<>> /\ readers'[s] = "reading"
                                /\ taken[s] = 0 /\ pos[s] = <<>>
        BY <1>2, <1>7
    <2> HIDE DEF taken, pos
    <2>2. ASSUME NEW s \in Streams
          PROVE  Fed(Step.script, s, child'.written, child'.status = "exited",
                     pipes'[s], readers'[s], taken[s], pos[s])
        <3>1. (child'.status = "exited") = FALSE
            BY <2>1
        <3> QED
            BY <1>8, <2>1, <3>1
    <2> QED
        BY <1>9, <2>1, <2>2 DEF Flows
<1> HIDE DEF taken, pos
<1> QED
    BY <1>3, <1>4, <1>5, <1>6, <1>10 DEF IInv

\* Waiting and joining.
LEMMA WaitInv ==
    ASSUME IInv, Waited \/ JoinStdout \/ JoinStderr
    PROVE  IInv'
<1>1. /\ Types /\ Control /\ Judgement /\ ~Idle /\ Ended
      /\ \E taken, pos : Flows(Step.script, child, pipes, readers, hand, captured, taken, pos)
    BY DEF IInv, Waited, JoinStdout, JoinStderr, Idle
<1>2. /\ UNCHANGED <<scenario, at, report, verdicts, headline, exit_code, child,
                     pipes, readers, hand, captured>>
      /\ pc' \in {"join_stdout", "join_stderr", "judge"}
    BY DEF Waited, JoinStdout, JoinStderr, Threads
<1>3. Types' /\ ~Idle' /\ Step' = Step
    BY <1>1, <1>2 DEF Types, Idle, Step
<1>4. Control'
    BY <1>1, <1>2 DEF Control, Idle, Waited, JoinStdout, JoinStderr, Joined
<1>5. Judgement'
    BY <1>1, <1>2 DEF Judgement, Fair
<1>6. Ended'
    BY <1>1, <1>2, <1>3 DEF Ended
<1> QED
    BY <1>1, <1>2, <1>3, <1>4, <1>5, <1>6 DEF IInv

\* A match was captured just when the program said one that could be read.
LEMMA FoundIsSaid ==
    ASSUME IInv, pc = "judge", child.success
    PROVE  Found <=> \E j \in DOMAIN Step.script :
                        Step.script[j].line = "match" /\ Readable(Step.script, j)
<1> DEFINE script == Step.script
           w == Len(script)
<1>1. /\ Types /\ Control /\ Ended /\ at <= Len(scenario.steps) /\ child.written = w
      /\ \A s \in Streams : readers[s] = "done" /\ hand[s] = None
    BY DEF IInv, Idle, Control, Ended, Streams
<1>2. PICK taken, pos : Flows(script, child, pipes, readers, hand, captured, taken, pos)
    BY DEF IInv, Idle
<1>3. w \in Nat /\ \A j \in 1 .. w : script[j].to \in Streams
    BY <1>1, StepType
<1>4. DOMAIN script = 1 .. w
    BY <1>1, StepType DEF Steps
<1>5. None # "match"
    BY NoneAssumption DEF Lines
<1> HIDE DEF script
<1>6. ASSUME NEW s \in Streams
      PROVE  /\ taken[s] \in 0 .. w
             /\ \A j \in 1 .. w : script[j].to = s => (Readable(script, j) <=> j <= taken[s])
    <2>1. Fed(script, s, w, child.status = "exited", pipes[s], "done", taken[s], pos[s])
        BY <1>1, <1>2 DEF Flows
    <2>2. taken[s] \in 0 .. w
        BY <2>1 DEF Fed
    <2> HIDE DEF w
    <2>3. w = Len(script)
        BY DEF w
    <2>4. \A j \in 1 .. w : script[j].to = s => (Readable(script, j) <=> j <= taken[s])
        BY <1>3, <2>1, <2>3, ReadableTaken
    <2> QED
        BY <2>2, <2>4
<1>7. Found <=> \E i \in DOMAIN captured : captured[i] = "match"
    BY <1>1 DEF Found, Captured
<1>8. Found <=> \E s \in Streams : \E j \in 1 .. taken[s] : script[j].to = s /\ script[j].line = "match"
    BY <1>1, <1>2, <1>5, <1>7 DEF Flows, Heard
<1> HIDE DEF w
<1>9. ASSUME NEW s \in Streams, NEW j \in 1 .. taken[s], script[j].to = s, script[j].line = "match"
      PROVE  j \in 1 .. w /\ Readable(script, j)
    <2>1. j \in 1 .. w /\ j <= taken[s]
        BY <1>3, <1>6
    <2> QED
        BY <1>6, <1>9, <2>1
<1>10. ASSUME NEW j \in 1 .. w, script[j].line = "match", Readable(script, j)
       PROVE  \E s \in Streams : \E k \in 1 .. taken[s] : script[k].to = s /\ script[k].line = "match"
    <2> DEFINE s == script[j].to
    <2>1. s \in Streams /\ j <= taken[s] /\ taken[s] \in 0 .. w
        BY <1>3, <1>6, <1>10
    <2>2. j \in 1 .. taken[s]
        BY <1>3, <2>1
    <2> QED
        BY <1>10, <2>1, <2>2
<1> QED
    BY <1>4, <1>8, <1>9, <1>10 DEF script

\* The verdict on a program.
LEMMA JudgeInv ==
    ASSUME IInv, StepEnded
    PROVE  IInv'
<1>1. /\ Types /\ Control /\ Judgement /\ Ended /\ pc = "judge" /\ at <= Len(scenario.steps)
      /\ child.status = "exited" /\ \A s \in Streams : readers[s] = "done" /\ hand[s] = None
    BY DEF IInv, StepEnded, Idle, Control, Streams
<1>2. child' = NoChild /\ UNCHANGED <<scenario, headline, exit_code, pipes, readers, hand, captured>>
    BY DEF StepEnded, Threads
<1> DEFINE passed == [report EXCEPT !.passed = @ + 1]
           lost == [report EXCEPT !.failed = @ + 1]
           expected == Expected(passed)
<1>3. report \in Reports /\ Step \in Steps /\ child.success \in BOOLEAN
    BY <1>1, StepType DEF Types, Children
<1>4. /\ passed \in Reports /\ passed.failed = report.failed
      /\ lost \in Reports /\ lost.failed = report.failed + 1
    BY <1>3 DEF Reports
<1>5. expected \in Reports /\ expected.failed = report.failed
    <2> HIDE DEF passed
    <2> QED
        BY <1>4 DEF Expected, Reports
<1>6. \/ child.success /\ ~Step.expect /\ Judged("passed", passed)
      \/ child.success /\ Step.expect /\ Judged(IF Found THEN "verified" ELSE "not found", expected)
      \/ ~child.success /\ Judged("failed", lost)
    BY DEF StepEnded
<1> HIDE DEF passed, lost, expected
<1>7. /\ Judgement' /\ at' \in 1 .. Len(scenario.steps) + 1
      /\ report' \in Reports /\ verdicts' \in Seq(Verdicts)
    <2>1. CASE child.success /\ ~Step.expect /\ Judged("passed", passed)
        <3>1. Fair("passed", Step) /\ "passed" \in Verdicts
            BY DEF Fair, Verdicts
        <3> QED
            BY <1>1, <1>2, <1>4, <2>1, <3>1, JudgedRight
    <2>2. CASE child.success /\ Step.expect /\ Judged(IF Found THEN "verified" ELSE "not found", expected)
        <3> DEFINE verdict == IF Found THEN "verified" ELSE "not found"
        <3>1. Step.success
            BY <1>1, <2>2 DEF Ended
        <3>2. Fair(verdict, Step)
            BY <1>1, <2>2, <3>1, FoundIsSaid DEF Fair
        <3>3. verdict \in Verdicts /\ verdict # "failed" /\ Judged(verdict, expected)
            BY <2>2 DEF Verdicts
        <3> HIDE DEF verdict
        <3> QED
            BY <1>1, <1>2, <1>5, <3>2, <3>3, JudgedRight
    <2>3. CASE ~child.success /\ Judged("failed", lost)
        <3>1. Fair("failed", Step) /\ "failed" \in Verdicts
            BY <1>1, <2>3 DEF Fair, Verdicts, Ended
        <3> QED
            BY <1>1, <1>2, <1>4, <2>3, <3>1, JudgedRight
    <2> QED
        BY <1>6, <2>1, <2>2, <2>3
<1>8. pc' = "walk"
    BY <1>6 DEF Judged
<1>9. Types' /\ Idle'
    <2>1. child' \in Children
        BY <1>2 DEF NoChild, Children
    <2> QED
        BY <1>1, <1>2, <1>7, <1>8, <2>1 DEF Types, Idle
<1>10. Control'
    BY <1>1, <1>2, <1>8 DEF Control, Idle, NoChild
<1> QED
    BY <1>7, <1>9, <1>10 DEF IInv

----------------------------------------------------------------------------
(* The program and the readers.                                             *)

\* A program that runs is waited for, and its output flows.
LEMMA Running ==
    ASSUME IInv, child.status = "running"
    PROVE  /\ Types /\ Control /\ Judgement /\ Ended /\ ~Idle /\ pc = "wait" /\ ~child.success
           /\ child.written \in Nat /\ Len(Step.script) \in Nat
           /\ \A j \in 1 .. Len(Step.script) : Step.script[j] \in [to : Streams, line : Lines]
           /\ \E taken, pos : Flows(Step.script, child, pipes, readers, hand, captured, taken, pos)
<1>1. pc = "wait" /\ ~Idle /\ Types /\ Control /\ Judgement
    BY DEF IInv, Control, Idle, Types
<1>2. /\ Ended /\ ~child.success /\ child.written \in Nat /\ at <= Len(scenario.steps)
      /\ \E taken, pos : Flows(Step.script, child, pipes, readers, hand, captured, taken, pos)
    BY <1>1 DEF IInv, Ended, Types, Children, Control
<1> QED
    BY <1>1, <1>2, StepType

\* A program writes a line into a pipe with room.
LEMMA WriteInv ==
    ASSUME IInv, Write
    PROVE  IInv'
<1> DEFINE script == Step.script
           w == child.written
           line == script[w + 1].line
           t == script[w + 1].to
<1>1. /\ child.status = "running" /\ w < Len(script) /\ readers[t] = "reading"
      /\ Len(pipes[t]) < PipeCapacity
      /\ pipes' = [pipes EXCEPT ![t] = Append(pipes[t], line)]
      /\ child' = [child EXCEPT !.written = w + 1]
      /\ UNCHANGED <<pc, scenario, at, report, verdicts, headline, exit_code, readers, hand, captured>>
    BY DEF Write, Unfinished, Next_line
<1>2. /\ Types /\ Control /\ Judgement /\ Ended /\ ~Idle /\ ~child.success /\ pc = "wait"
      /\ w \in Nat /\ Len(script) \in Nat
      /\ \A j \in 1 .. Len(script) : script[j] \in [to : Streams, line : Lines]
    BY <1>1, Running
<1>3. PICK taken, pos : Flows(script, child, pipes, readers, hand, captured, taken, pos)
    BY <1>1, Running
<1>4. Judgement' /\ ~Idle' /\ Step' = Step
    BY <1>1, <1>2, MainUntouched
<1>5. t \in Streams /\ line \in Lines /\ w + 1 \in 0 .. Len(script)
    <2>1. w + 1 \in 1 .. Len(script)
        BY <1>1, <1>2
    <2>2. script[w + 1] \in [to : Streams, line : Lines]
        BY <1>2, <2>1
    <2> HIDE DEF script, w
    <2> QED
        BY <1>2, <2>1, <2>2
<1>6. /\ child' \in Children /\ child'.written = w + 1 /\ child'.status = "running"
      /\ ~child'.success
    <2>1. child \in Children /\ w + 1 \in Nat
        BY <1>2 DEF Types
    <2> HIDE DEF w
    <2> QED
        BY <1>1, <1>2, <2>1 DEF Children
<1> HIDE DEF script, w, line, t
<1>7. /\ pipes \in [Streams -> Seq(Lines)] /\ \A s \in Streams : Len(pipes[s]) <= PipeCapacity
    BY <1>2 DEF Types
<1>8. Append(pipes[t], line) \in Seq(Lines) /\ Len(Append(pipes[t], line)) <= PipeCapacity
    BY <1>1, <1>5, <1>7, PipeAssumption
<1>9. Types'
    <2>1. pipes' \in [Streams -> Seq(Lines)] /\ \A s \in Streams : Len(pipes'[s]) <= PipeCapacity
        BY <1>1, <1>5, <1>7, <1>8
    <2> QED
        BY <1>1, <1>2, <1>6, <2>1 DEF Types
<1>10. Control'
    BY <1>1, <1>2, <1>6 DEF Control, Idle
<1>11. Ended'
    BY <1>6 DEF Ended
<1> DEFINE pos2 == [pos EXCEPT ![t] = Append(pos[t], w + 1)]
           pos3 == [s \in Streams |-> IF s = t THEN Append(pos[t], w + 1) ELSE pos[s]]
<1>12. Flows(script, child', pipes', readers', hand', captured', taken, pos3)
    <2>1. (child.status = "exited") = FALSE /\ (child'.status = "exited") = FALSE
        BY <1>1, <1>6
    <2>2. ASSUME NEW s \in Streams
          PROVE  Fed(script, s, w + 1, FALSE, pipes'[s], readers'[s], taken[s], pos3[s])
        <3>1. Fed(script, s, w, FALSE, pipes[s], readers[s], taken[s], pos[s])
            BY <1>3, <2>1 DEF Flows, w
        <3>2. CASE s = t
            <4>1. /\ pipes'[s] = Append(pipes[s], script[w + 1].line)
                  /\ pos3[s] = Append(pos[s], w + 1)
                BY <1>1, <1>5, <1>7, <3>2 DEF line
            <4>2. readers[s] = "reading" /\ readers'[s] = "reading" /\ script[w + 1].to = s
                BY <1>1, <3>2 DEF t
            <4>3. pipes[s] \in Seq(Lines)
                BY <1>7
            <4>4. /\ Fed(script, s, w, FALSE, pipes[s], "reading", taken[s], pos[s])
                  /\ w \in Nat
                BY <1>2, <3>1, <4>2 DEF w
            <4> HIDE DEF pos3
            <4>5. Fed(script, s, w + 1, FALSE, Append(pipes[s], script[w + 1].line), "reading",
                      taken[s], Append(pos[s], w + 1))
                BY ONLY <4>2, <4>3, <4>4, LineWritten
            <4> QED
                BY <4>1, <4>2, <4>5
        <3>3. CASE s # t
            <4>1. pipes'[s] = pipes[s] /\ pos3[s] = pos[s] /\ readers'[s] = readers[s]
                BY <1>1, <1>5, <1>7, <3>3
            <4>2. script[w + 1].to # s
                BY <3>3 DEF t
            <4> HIDE DEF pos3
            <4> QED
                BY <1>2, <3>1, <4>1, <4>2, LinePassed DEF w
        <3> QED
            BY <3>2, <3>3
    <2>3. Heard(script, hand', captured', taken)
        BY <1>1, <1>3 DEF Flows, Heard
    <2> HIDE DEF pos3
    <2> QED
        BY <1>5, <1>6, <2>1, <2>2, <2>3 DEF Flows
<1> HIDE DEF pos3
<1>13. \E taken2, pos4 : Flows(script, child', pipes', readers', hand', captured', taken2, pos4)
    BY <1>12
<1> QED
    BY <1>4, <1>9, <1>10, <1>11, <1>13 DEF IInv, script

\* A program writes where nobody reads, and may die of it.
LEMMA ClosedPipeInv ==
    ASSUME IInv, WriteToClosedPipe
    PROVE  IInv'
<1> DEFINE script == Step.script
           w == child.written
           t == script[w + 1].to
<1>1. /\ child.status = "running" /\ w < Len(script) /\ readers[t] = "done"
      /\ \/ child' = [child EXCEPT !.written = w + 1]
         \/ child' = [child EXCEPT !.status = "exited"]
      /\ UNCHANGED <<pc, scenario, at, report, verdicts, headline, exit_code,
                     pipes, readers, hand, captured>>
    BY DEF WriteToClosedPipe, Unfinished, Next_line, Threads
<1>2. /\ Types /\ Control /\ Judgement /\ Ended /\ ~Idle /\ ~child.success /\ pc = "wait"
      /\ w \in Nat /\ Len(script) \in Nat
      /\ \A j \in 1 .. Len(script) : script[j] \in [to : Streams, line : Lines]
    BY <1>1, Running
<1>3. PICK taken, pos : Flows(script, child, pipes, readers, hand, captured, taken, pos)
    BY <1>1, Running
<1>4. Judgement' /\ ~Idle' /\ Step' = Step
    BY <1>1, <1>2, MainUntouched
<1>5. t \in Streams /\ w + 1 \in 0 .. Len(script)
    <2>1. w + 1 \in 1 .. Len(script)
        BY <1>1, <1>2
    <2> QED
        BY <1>2, <2>1
<1>6. /\ child' \in Children /\ ~child'.success
      /\ \/ child'.written = w + 1 /\ child'.status = "running"
         \/ child'.written = w /\ child'.status = "exited"
    <2>1. child \in Children /\ w + 1 \in Nat
        BY <1>2 DEF Types
    <2>2. CASE child' = [child EXCEPT !.written = w + 1]
        BY <1>1, <1>2, <2>1, <2>2 DEF Children
    <2>3. CASE child' = [child EXCEPT !.status = "exited"]
        BY <1>1, <1>2, <2>1, <2>3 DEF Children
    <2> QED
        BY <1>1, <2>2, <2>3
<1>7. Types'
    BY <1>1, <1>2, <1>6 DEF Types
<1>8. Control'
    BY <1>1, <1>2, <1>6 DEF Control, Idle
<1>9. DOMAIN script = 1 .. Len(script)
    <2>1. Step \in Steps
        BY <1>2, StepType DEF Control
    <2> QED
        BY <2>1 DEF Steps
<1> HIDE DEF script, w, t
<1>10. (child.status = "exited") = FALSE
    BY <1>1
<1>11. \A s \in Streams : Fed(script, s, w, FALSE, pipes[s], readers[s], taken[s], pos[s])
    BY <1>3, <1>10 DEF Flows, w
\* Only a garbled line makes a reader leave a program that runs.
<1>12. \E j \in 1 .. Len(script) : ~Readable(script, j)
    <2>1. Cut(script, t, taken[t], w) /\ taken[t] \in 0 .. w
        BY <1>1, <1>5, <1>11 DEF Fed
    <2>2. PICK g \in taken[t] + 1 .. w : script[g].line = "garbled"
        BY <2>1 DEF Cut
    <2>3. g \in 1 .. Len(script) /\ g \in 1 .. g
        BY <1>2, <1>5, <2>1, <2>2 DEF w
    <2> QED
        BY <2>2, <2>3 DEF Readable
<1>13. Ended'
    BY <1>4, <1>6, <1>9, <1>12 DEF Ended, script
<1>14. Flows(script, child', pipes', readers', hand', captured', taken, pos)
    <2>1. Heard(script, hand', captured', taken)
        BY <1>1, <1>3 DEF Flows, Heard
    <2>2. CASE child'.written = w + 1 /\ child'.status = "running"
        <3>1. (child'.status = "exited") = FALSE
            BY <2>2
        <3>2. ASSUME NEW s \in Streams
              PROVE  Fed(script, s, w + 1, FALSE, pipes[s], readers[s], taken[s], pos[s])
            <4>1. script[w + 1].to # s \/ readers[s] = "done"
                BY <1>1 DEF t
            <4>2. w \in Nat
                BY <1>2 DEF w
            <4> QED
                BY <1>11, <4>1, <4>2, LinePassed
        <3> QED
            BY <1>1, <1>5, <2>1, <2>2, <3>1, <3>2 DEF Flows
    <2>3. CASE child'.written = w /\ child'.status = "exited"
        <3>1. \A s \in Streams : Fed(script, s, w, TRUE, pipes[s], readers[s], taken[s], pos[s])
            BY <1>11 DEF Fed
        <3>2. (child'.status = "exited") = TRUE /\ w \in 0 .. Len(script)
            BY <1>3, <2>3 DEF Flows, w
        <3> QED
            BY <1>1, <2>1, <2>3, <3>1, <3>2 DEF Flows
    <2> QED
        BY <1>6, <2>2, <2>3
<1>15. \E taken2, pos2 : Flows(script, child', pipes', readers', hand', captured', taken2, pos2)
    BY <1>14
<1> QED
    BY <1>4, <1>7, <1>8, <1>13, <1>15 DEF IInv, script

\* A program ends.
LEMMA ExitInv ==
    ASSUME IInv, Exit
    PROVE  IInv'
<1> DEFINE script == Step.script
           w == child.written
<1>1. /\ child.status = "running" /\ w = Len(script)
      /\ child' = [child EXCEPT !.status = "exited", !.success = Step.success]
      /\ UNCHANGED <<pc, scenario, at, report, verdicts, headline, exit_code,
                     pipes, readers, hand, captured>>
    BY DEF Exit, Threads
<1>2. /\ Types /\ Control /\ Judgement /\ Ended /\ ~Idle /\ pc = "wait" /\ at <= Len(scenario.steps)
    BY <1>1, Running DEF Control
<1>3. PICK taken, pos : Flows(script, child, pipes, readers, hand, captured, taken, pos)
    BY <1>1, Running
<1>4. Judgement' /\ ~Idle' /\ Step' = Step
    BY <1>1, <1>2, MainUntouched
<1>5. Step.success \in BOOLEAN
    BY <1>2, StepType DEF Steps
<1>6. /\ child' \in Children /\ child'.written = w /\ child'.status = "exited"
      /\ child'.success = Step.success
    BY <1>1, <1>2, <1>5 DEF Types, Children
<1>7. Types'
    BY <1>1, <1>2, <1>6 DEF Types
<1>8. Control'
    BY <1>1, <1>2, <1>6 DEF Control, Idle
<1>9. Ended'
    BY <1>1, <1>4, <1>6 DEF Ended
<1> HIDE DEF script
<1>10. Flows(script, child', pipes', readers', hand', captured', taken, pos)
    <2>1. Heard(script, hand', captured', taken)
        BY <1>1, <1>3 DEF Flows, Heard
    <2>2. \A s \in Streams : Fed(script, s, w, TRUE, pipes[s], readers[s], taken[s], pos[s])
        BY <1>3 DEF Flows, Fed
    <2>3. (child'.status = "exited") = TRUE /\ w \in 0 .. Len(script)
        BY <1>3, <1>6 DEF Flows
    <2> QED
        BY <1>1, <1>6, <2>1, <2>2, <2>3 DEF Flows
<1>11. \E taken2, pos2 : Flows(script, child', pipes', readers', hand', captured', taken2, pos2)
    BY <1>10
<1> QED
    BY <1>4, <1>7, <1>8, <1>9, <1>11 DEF IInv, script

\* A step of a reader that keeps the types, hands over what it holds before it
\* ends and keeps the output flowing keeps the invariant.
LEMMA ReaderStep ==
    ASSUME IInv, NEW s \in Streams, readers[s] = "reading",
           UNCHANGED <<pc, scenario, at, report, verdicts, headline, exit_code, child>>,
           pipes' \in [Streams -> Seq(Lines)], \A t \in Streams : Len(pipes'[t]) <= PipeCapacity,
           readers' \in [Streams -> {"reading", "done"}],
           hand' \in [Streams -> {None, "plain", "match"}],
           captured' \in Seq({"plain", "match"}),
           \A t \in Streams : readers[t] = "done" => readers'[t] = "done",
           \A t \in Streams : readers'[t] = "done" => hand'[t] = None,
           NEW taken, NEW pos,
           Flows(Step.script, child, pipes', readers', hand', captured', taken, pos)
    PROVE  IInv'
<1>1. Types /\ Control /\ Judgement /\ ~Idle /\ Ended
    BY DEF IInv, Control
<1>2. Judgement' /\ ~Idle' /\ Step' = Step
    BY <1>1, MainUntouched
<1>3. Types'
    BY <1>1 DEF Types
<1>4. Control'
    <2>1. "stdout" \in Streams /\ "stderr" \in Streams
        BY DEF Streams
    <2>2. pc' = pc /\ child' = child /\ at' = at /\ scenario' = scenario
        OBVIOUS
    <2> QED
        BY <1>1, <1>2, <2>1, <2>2 DEF Control
<1>5. Ended'
    BY <1>1, <1>2 DEF Ended
<1>6. Flows(Step', child', pipes', readers', hand', captured', taken, pos)
        \/ Flows(Step'.script, child', pipes', readers', hand', captured', taken, pos)
    BY <1>2
<1> QED
    BY <1>1, <1>2, <1>3, <1>4, <1>5 DEF IInv

\* What a reader that reads may count on.
LEMMA ReaderKnows ==
    ASSUME IInv, NEW s \in Streams, readers[s] = "reading" \/ hand[s] # None
    PROVE  /\ readers[s] = "reading" /\ Types /\ Control /\ child.written \in Nat
           /\ child.status # "running" => child.status = "exited"
           /\ \E taken, pos : Flows(Step.script, child, pipes, readers, hand, captured, taken, pos)
<1>1. Types /\ Control /\ readers[s] \in {"reading", "done"}
    BY DEF IInv, Types
<1>2. readers[s] = "reading" /\ ~Idle
    BY <1>1 DEF Control
<1>3. pc \in {"wait", "join_stdout", "join_stderr", "judge"} /\ child \in Children
    BY <1>1, <1>2 DEF Types, Idle
<1> QED
    BY <1>1, <1>2, <1>3 DEF IInv, Control, Children

\* A line goes from the pipe into the reader's hand.
LEMMA ReadLineInv ==
    ASSUME IInv, NEW s \in Streams, ReadLine(s)
    PROVE  IInv'
<1> DEFINE script == Step.script
           w == child.written
           line == Head(pipes[s])
<1>1. /\ readers[s] = "reading" /\ hand[s] = None /\ pipes[s] # <<>> /\ line # "garbled"
      /\ hand' = [hand EXCEPT ![s] = line] /\ pipes' = [pipes EXCEPT ![s] = Tail(pipes[s])]
      /\ UNCHANGED <<pc, scenario, at, report, verdicts, headline, exit_code, child,
                     readers, captured>>
    BY DEF ReadLine, Reading, Utf8
<1>2. Types /\ Control /\ w \in Nat
    BY <1>1, ReaderKnows
<1>3. PICK taken, pos : Flows(script, child, pipes, readers, hand, captured, taken, pos)
    BY <1>1, ReaderKnows
<1>4. /\ pipes \in [Streams -> Seq(Lines)] /\ \A t \in Streams : Len(pipes[t]) <= PipeCapacity
      /\ hand \in [Streams -> {None, "plain", "match"}]
      /\ readers \in [Streams -> {"reading", "done"}] /\ captured \in Seq({"plain", "match"})
    BY <1>2 DEF Types
<1>5. /\ line \in Lines /\ Tail(pipes[s]) \in Seq(Lines) /\ Len(Tail(pipes[s])) <= PipeCapacity
    <2>1. pipes[s] \in Seq(Lines) /\ Len(pipes[s]) \in Nat /\ Len(pipes[s]) > 0
        BY <1>1, <1>4
    <2>2. PipeCapacity \in Nat /\ Len(Tail(pipes[s])) = Len(pipes[s]) - 1
        BY <2>1, PipeAssumption
    <2> QED
        BY <1>4, <2>1, <2>2
<1> DEFINE m == pos[s][1]
           taken2 == [t \in Streams |-> IF t = s THEN m ELSE taken[t]]
           pos2 == [t \in Streams |-> IF t = s THEN Tail(pos[s]) ELSE pos[t]]
           ended == child.status = "exited"
<1> HIDE DEF script, w, line, ended
<1>6. /\ m \in taken[s] + 1 .. w /\ script[m].to = s /\ script[m].line = line
      /\ Silent(script, s, taken[s] + 1, m - 1)
      /\ Fed(script, s, w, ended, Tail(pipes[s]), "reading", m, Tail(pos[s]))
      /\ taken[s] \in 0 .. w
    <2>1. Fed(script, s, w, ended, pipes[s], "reading", taken[s], pos[s])
        BY <1>1, <1>3 DEF Flows, w, ended
    <2>2. pipes[s] \in Seq(Lines) /\ pipes[s] # <<>> /\ Head(pipes[s]) # "garbled" /\ w \in Nat
        BY <1>1, <1>2, <1>4 DEF line
    <2> QED
        BY <2>1, <2>2, LineTaken DEF Fed, line
<1>7. ASSUME NEW t \in Streams
      PROVE  Fed(script, t, w, ended, pipes'[t], readers'[t], taken2[t], pos2[t])
    <2>1. CASE t = s
        <3>1. /\ pipes'[t] = Tail(pipes[s]) /\ readers'[t] = "reading"
              /\ taken2[t] = m /\ pos2[t] = Tail(pos[s])
            BY <1>1, <1>4, <2>1
        <3> HIDE DEF taken2, pos2, m
        <3> QED
            BY <1>6, <2>1, <3>1
    <2>2. CASE t # s
        <3>1. /\ pipes'[t] = pipes[t] /\ readers'[t] = readers[t]
              /\ taken2[t] = taken[t] /\ pos2[t] = pos[t]
            BY <1>1, <1>4, <2>2
        <3> HIDE DEF taken2, pos2, m
        <3> QED
            BY <1>3, <3>1 DEF Flows, w, ended
    <2> QED
        BY <2>1, <2>2
<1>8. taken2[s] = m /\ \A t \in Streams : t # s => taken2[t] = taken[t]
    OBVIOUS
<1> HIDE DEF taken2, pos2, m
<1>9. Heard(script, hand', captured', taken2)
    <2>1. /\ hand'[s] = line /\ hand[s] # "match" /\ captured' = captured
          /\ \A t \in Streams : t # s => hand'[t] = hand[t]
        BY <1>1, <1>4, NoneAssumption DEF Lines
    <2>2. \A j \in 1 .. m : j \in 1 .. taken[s] \/ j \in taken[s] + 1 .. m - 1 \/ j = m
        BY <1>2, <1>6
    <2>3. m \in 1 .. m /\ \A j \in 1 .. taken[s] : j \in 1 .. m
        BY <1>2, <1>6
    <2>4. (\E j \in 1 .. m : script[j].to = s /\ script[j].line = "match")
            <=> line = "match" \/ \E j \in 1 .. taken[s] : script[j].to = s /\ script[j].line = "match"
        BY <1>6, <2>2, <2>3 DEF Silent
    <2>5. (\E t \in Streams : hand'[t] = "match")
            <=> line = "match" \/ \E t \in Streams : hand[t] = "match"
        BY <2>1
    <2>6. (\E t \in Streams : \E j \in 1 .. taken2[t] : script[j].to = t /\ script[j].line = "match")
            <=> line = "match"
                \/ \E t \in Streams : \E j \in 1 .. taken[t] : script[j].to = t /\ script[j].line = "match"
        BY <1>8, <2>4
    <2>7. Heard(script, hand, captured, taken)
        BY <1>3 DEF Flows
    <2> QED
        BY <2>1, <2>5, <2>6, <2>7 DEF Heard
<1>10. Flows(script, child, pipes', readers', hand', captured', taken2, pos2)
    BY <1>3, <1>7, <1>9 DEF Flows, w, ended
<1>11. /\ pipes' \in [Streams -> Seq(Lines)] /\ \A t \in Streams : Len(pipes'[t]) <= PipeCapacity
    BY <1>1, <1>4, <1>5
<1>12. /\ hand' \in [Streams -> {None, "plain", "match"}]
       /\ \A t \in Streams : readers'[t] = "done" => hand'[t] = None
    <2>1. line \in {"plain", "match"}
        BY <1>1, <1>5 DEF Lines
    <2> QED
        BY <1>1, <1>2, <1>4, <2>1 DEF Control
<1> QED
    BY <1>1, <1>4, <1>10, <1>11, <1>12, ReaderStep DEF script

\* A reader gives up, and what the pipe holds is lost.
LEMMA ReadGarbledInv ==
    ASSUME IInv, NEW s \in Streams, ReadGarbled(s)
    PROVE  IInv'
<1> DEFINE script == Step.script
           w == child.written
           ended == child.status = "exited"
<1>1. /\ readers[s] = "reading" /\ hand[s] = None /\ pipes[s] # <<>> /\ Head(pipes[s]) = "garbled"
      /\ readers' = [readers EXCEPT ![s] = "done"] /\ pipes' = [pipes EXCEPT ![s] = <<>>]
      /\ UNCHANGED <<pc, scenario, at, report, verdicts, headline, exit_code, child, hand, captured>>
    BY DEF ReadGarbled, Reading, Utf8
<1>2. Types /\ Control /\ w \in Nat
    BY <1>1, ReaderKnows
<1>3. PICK taken, pos : Flows(script, child, pipes, readers, hand, captured, taken, pos)
    BY <1>1, ReaderKnows
<1>4. /\ pipes \in [Streams -> Seq(Lines)] /\ \A t \in Streams : Len(pipes[t]) <= PipeCapacity
      /\ hand \in [Streams -> {None, "plain", "match"}]
      /\ readers \in [Streams -> {"reading", "done"}] /\ captured \in Seq({"plain", "match"})
    BY <1>2 DEF Types
<1> HIDE DEF script, w, ended
<1>5. Fed(script, s, w, ended, <<>>, "done", taken[s], pos[s])
    <2>1. Fed(script, s, w, ended, pipes[s], "reading", taken[s], pos[s])
        BY <1>1, <1>3 DEF Flows, w, ended
    <2>2. pipes[s] \in Seq(Lines)
        BY <1>4
    <2> QED
        BY <1>1, <1>2, <2>1, <2>2, LineTaken
<1>6. ASSUME NEW t \in Streams
      PROVE  Fed(script, t, w, ended, pipes'[t], readers'[t], taken[t], pos[t])
    <2>1. CASE t = s
        BY <1>1, <1>4, <1>5, <2>1
    <2>2. CASE t # s
        <3>1. pipes'[t] = pipes[t] /\ readers'[t] = readers[t]
            BY <1>1, <1>4, <2>2
        <3> QED
            BY <1>3, <3>1 DEF Flows, w, ended
    <2> QED
        BY <2>1, <2>2
<1>7. Flows(script, child, pipes', readers', hand', captured', taken, pos)
    <2>1. Heard(script, hand', captured', taken)
        BY <1>1, <1>3 DEF Flows, Heard
    <2> QED
        BY <1>3, <1>6, <2>1 DEF Flows, w, ended
<1>8. /\ pipes' \in [Streams -> Seq(Lines)] /\ \A t \in Streams : Len(pipes'[t]) <= PipeCapacity
      /\ readers' \in [Streams -> {"reading", "done"}]
      /\ \A t \in Streams : readers[t] = "done" => readers'[t] = "done"
      /\ \A t \in Streams : readers'[t] = "done" => hand'[t] = None
    BY <1>1, <1>2, <1>4, PipeAssumption DEF Control
<1> QED
    BY <1>1, <1>4, <1>7, <1>8, ReaderStep DEF script

\* A reader appends the line in its hand.
LEMMA PushInv ==
    ASSUME IInv, NEW s \in Streams, Push(s)
    PROVE  IInv'
<1> DEFINE script == Step.script
           line == hand[s]
<1>1. /\ hand[s] # None /\ captured' = Append(captured, line)
      /\ hand' = [hand EXCEPT ![s] = None]
      /\ UNCHANGED <<pc, scenario, at, report, verdicts, headline, exit_code, child, pipes, readers>>
    BY DEF Push
<1>2. readers[s] = "reading" /\ Types /\ Control
    BY <1>1, ReaderKnows
<1>3. PICK taken, pos : Flows(script, child, pipes, readers, hand, captured, taken, pos)
    BY <1>1, ReaderKnows
<1>4. /\ pipes \in [Streams -> Seq(Lines)] /\ \A t \in Streams : Len(pipes[t]) <= PipeCapacity
      /\ hand \in [Streams -> {None, "plain", "match"}]
      /\ readers \in [Streams -> {"reading", "done"}] /\ captured \in Seq({"plain", "match"})
    BY <1>2 DEF Types
<1>5. line \in {"plain", "match"} /\ None # "match"
    BY <1>1, <1>4, NoneAssumption DEF Lines
<1> HIDE DEF script, line
<1>6. Heard(script, hand', captured', taken)
    <2>1. /\ captured' \in Seq({"plain", "match"}) /\ Len(captured') = Len(captured) + 1
          /\ \A i \in 1 .. Len(captured) : captured'[i] = captured[i]
          /\ captured'[Len(captured) + 1] = line /\ Len(captured) \in Nat
        BY <1>1, <1>4, <1>5
    <2>2. DOMAIN captured = 1 .. Len(captured) /\ DOMAIN captured' = 1 .. Len(captured) + 1
        BY <1>4, <2>1
    <2>3. (\E i \in DOMAIN captured' : captured'[i] = "match")
            <=> line = "match" \/ \E i \in DOMAIN captured : captured[i] = "match"
        BY <2>1, <2>2
    <2>4. hand'[s] = None /\ hand[s] = line /\ \A t \in Streams : t # s => hand'[t] = hand[t]
        BY <1>1, <1>4 DEF line
    <2>5. (\E t \in Streams : hand[t] = "match")
            <=> line = "match" \/ \E t \in Streams : hand'[t] = "match"
        BY <1>5, <2>4
    <2>6. Heard(script, hand, captured, taken)
        BY <1>3 DEF Flows
    <2> QED
        BY <2>3, <2>5, <2>6 DEF Heard
<1>7. Flows(script, child, pipes', readers', hand', captured', taken, pos)
    BY <1>1, <1>3, <1>6 DEF Flows
<1>8. /\ hand' \in [Streams -> {None, "plain", "match"}] /\ captured' \in Seq({"plain", "match"})
      /\ \A t \in Streams : readers'[t] = "done" => hand'[t] = None
    BY <1>1, <1>2, <1>4, <1>5 DEF Control
<1> QED
    BY <1>1, <1>2, <1>4, <1>7, <1>8, ReaderStep DEF script

\* A reader sees the end of its stream.
LEMMA EndOfFileInv ==
    ASSUME IInv, NEW s \in Streams, EndOfFile(s)
    PROVE  IInv'
<1> DEFINE script == Step.script
           w == child.written
<1>1. /\ readers[s] = "reading" /\ hand[s] = None /\ pipes[s] = <<>> /\ child.status # "running"
      /\ readers' = [readers EXCEPT ![s] = "done"]
      /\ UNCHANGED <<pc, scenario, at, report, verdicts, headline, exit_code, child,
                     pipes, hand, captured>>
    BY DEF EndOfFile, Reading
<1>2. Types /\ Control /\ w \in Nat /\ child.status = "exited"
    BY <1>1, ReaderKnows
<1>3. PICK taken, pos : Flows(script, child, pipes, readers, hand, captured, taken, pos)
    BY <1>1, ReaderKnows
<1>4. /\ pipes \in [Streams -> Seq(Lines)] /\ \A t \in Streams : Len(pipes[t]) <= PipeCapacity
      /\ hand \in [Streams -> {None, "plain", "match"}]
      /\ readers \in [Streams -> {"reading", "done"}] /\ captured \in Seq({"plain", "match"})
    BY <1>2 DEF Types
<1>5. (child.status = "exited") = TRUE
    BY <1>2
<1> HIDE DEF script, w
<1>6. \A t \in Streams : Fed(script, t, w, TRUE, pipes[t], readers[t], taken[t], pos[t])
    BY <1>3, <1>5 DEF Flows, w
<1>7. Fed(script, s, w, TRUE, pipes[s], "done", taken[s], pos[s])
    BY <1>1, <1>2, <1>6, AllTaken
<1>8. \A t \in Streams : Fed(script, t, w, TRUE, pipes'[t], readers'[t], taken[t], pos[t])
    BY <1>1, <1>4, <1>6, <1>7
<1>9. Flows(script, child, pipes', readers', hand', captured', taken, pos)
    <2>1. Heard(script, hand', captured', taken)
        BY <1>1, <1>3 DEF Flows, Heard
    <2> QED
        BY <1>3, <1>5, <1>8, <2>1 DEF Flows, w
<1>10. /\ readers' \in [Streams -> {"reading", "done"}]
       /\ \A t \in Streams : readers[t] = "done" => readers'[t] = "done"
       /\ \A t \in Streams : readers'[t] = "done" => hand'[t] = None
    BY <1>1, <1>2, <1>4 DEF Control
<1> QED
    BY <1>1, <1>4, <1>9, <1>10, ReaderStep DEF script

----------------------------------------------------------------------------
(* The theorems.                                                            *)

\* Nothing moves when nothing does.
LEMMA StutterInv ==
    ASSUME IInv, UNCHANGED vars
    PROVE  IInv'
<1>1. UNCHANGED <<pc, scenario, at, report, verdicts, headline, exit_code, child,
                  pipes, readers, hand, captured>>
    BY DEF vars
<1>2. Types' /\ Control' /\ Judgement' /\ (Idle' <=> Idle) /\ Step' = Step /\ (Ended' <=> Ended)
    <2>1. Types' /\ Control'
        BY <1>1 DEF IInv, Types, Control, Idle
    <2>2. Judgement' /\ (Idle' <=> Idle) /\ Step' = Step
        BY <1>1, MainUntouched DEF IInv
    <2>3. Ended' <=> Ended
        BY <1>1, <2>2 DEF Ended
    <2> QED
        BY <2>1, <2>2, <2>3
<1> QED
    BY <1>1, <1>2 DEF IInv

\* Every step of the run keeps the invariant.
LEMMA NextInv == IInv /\ [Next]_vars => IInv'
<1> SUFFICES ASSUME IInv, [Next]_vars PROVE IInv'
    OBVIOUS
<1>1. CASE Main
    BY <1>1, MainAlone, NoProgram, SpawnInv, WaitInv, JudgeInv DEF Main
<1>2. CASE Child
    BY <1>2, WriteInv, ClosedPipeInv, ExitInv DEF Child
<1>3. CASE \E s \in Streams : Reader(s)
    BY <1>3, ReadLineInv, ReadGarbledInv, PushInv, EndOfFileInv DEF Reader
<1>4. CASE Terminated \/ UNCHANGED vars
    BY <1>4, StutterInv DEF Terminated
<1> QED
    BY <1>1, <1>2, <1>3, <1>4 DEF Next

\* In every run the report, the verdicts, the pipes and what the readers have
\* taken fit together.
THEOREM RunnerInvariant == FairSpec => []IInv
BY InitInv, NextInv, PTL DEF FairSpec

\* The state of the threads, the pipes and the program keeps its type, for
\* every file of scenarios and every capacity of the pipes.
THEOREM RunnerTypeOK == FairSpec => []TypeOK
<1>1. IInv => TypeOK
    <2> SUFFICES ASSUME IInv PROVE TypeOK
        OBVIOUS
    <2>1. Types
        BY DEF IInv
    <2>2. \A s \in Streams : \A i \in DOMAIN pipes[s] : pipes[s][i] \in Lines
        BY <2>1 DEF Types
    <2>3. \A i \in DOMAIN captured : captured[i] \in {"plain", "match"}
        BY <2>1 DEF Types
    <2> QED
        BY <2>1, <2>2, <2>3 DEF Types, Children, TypeOK
<1> QED
    BY <1>1, RunnerInvariant, PTL

\* However the readers, the program and the main thread interleave, a step is
\* judged by all that its program could be read to say, and the run by all of
\* its steps.
THEOREM RunnerJudgesWholeOutput == FairSpec => []WholeOutputJudged
<1>1. IInv => WholeOutputJudged
    <2> SUFFICES ASSUME Judgement PROVE WholeOutputJudged
        BY DEF IInv
    <2> QED
        BY DEF Judgement, Fair, WholeOutputJudged
<1> QED
    BY <1>1, RunnerInvariant, PTL

----------------------------------------------------------------------------
(* A run has an end: what there is to do gets less with every step, and     *)
(* until the run is over there is always a step to take.                    *)

\* The steps of the file that are not judged, where the main thread is within
\* one, and what is left to write, to read and to append in it: a line in the
\* script counts 3, in a pipe 2, in a hand 1, so that each move of it counts.
StepsLeft == Len(scenario.steps) + 1 - at
Stage ==
    IF pc = "main" THEN 6 ELSE IF pc = "walk" THEN 5 ELSE IF pc = "wait" THEN 4
    ELSE IF pc = "join_stdout" THEN 3 ELSE IF pc = "join_stderr" THEN 2
    ELSE IF pc = "judge" THEN 1 ELSE 0
Load(s) ==
    2 * Len(pipes[s]) + (IF hand[s] = None THEN 0 ELSE 1) + (IF readers[s] = "done" THEN 0 ELSE 1)
Work ==
    3 * (Len(Step.script) - child.written) + (IF child.status = "running" THEN 1 ELSE 0)
        + Load("stdout") + Load("stderr")

\* The three together get less, in the order in which they count.
Less ==
    /\ StepsLeft \in Nat /\ StepsLeft' \in Nat /\ Stage \in 0 .. 6 /\ Stage' \in 0 .. 6
    /\ \/ StepsLeft' < StepsLeft
       \/ StepsLeft' = StepsLeft /\ Stage' < Stage
       \/ /\ StepsLeft' = StepsLeft /\ Stage' = Stage
          /\ Work \in Nat /\ Work' \in Nat /\ Work' < Work

\* The first two measures are numbers, and so is what weighs on a stream.
Measured ==
    /\ StepsLeft \in Nat /\ Stage \in 0 .. 6 /\ at \in Nat /\ Len(scenario.steps) \in Nat
    /\ Load("stdout") \in Nat /\ Load("stderr") \in Nat

\* That is so in every state.
LEMMA MeasureTypes == Types => Measured
<1> SUFFICES ASSUME Types PROVE Measured
    OBVIOUS
<1>1. scenario.steps \in Seq(Steps) /\ at \in 1 .. Len(scenario.steps) + 1
    BY DEF Types
<1>2. Len(scenario.steps) \in Nat /\ at \in Nat
    BY <1>1
<1>3. StepsLeft \in Nat
    BY <1>1, <1>2 DEF StepsLeft
<1>4. Stage \in 0 .. 6
    BY DEF Stage
<1>5. ASSUME NEW s \in Streams PROVE Load(s) \in Nat
    <2>1. pipes[s] \in Seq(Lines)
        BY DEF Types
    <2>2. Len(pipes[s]) \in Nat
        BY <2>1
    <2>3. \A n \in Nat, a, b \in {0, 1} : 2 * n + a + b \in Nat
        OBVIOUS
    <2> QED
        BY <2>2, <2>3, Zenon DEF Load
<1> QED
    BY <1>2, <1>3, <1>4, <1>5 DEF Streams, Measured

\* So is the third, while a program runs or is waited for.
Working ==
    /\ Work \in Nat /\ child.written \in 0 .. Len(Step.script) /\ Len(Step.script) \in Nat
    /\ child.status \in {"none", "running", "exited"}

\* That is so in every state of a run in which there is a program.
LEMMA WorkType == IInv /\ ~ Idle => Working
<1> SUFFICES ASSUME IInv, ~ Idle PROVE Working
    OBVIOUS
<1>1. Types /\ at <= Len(scenario.steps)
    BY DEF IInv, Control
<1>2. Len(Step.script) \in Nat
    BY <1>1, StepType
<1>3. child.written \in 0 .. Len(Step.script)
    BY DEF IInv, Flows
<1>4. Load("stdout") \in Nat /\ Load("stderr") \in Nat
    BY <1>1, MeasureTypes DEF Measured
<1>5. \A n \in Nat : \A w \in 0 .. n, r \in {0, 1}, a, b \in Nat : 3 * (n - w) + r + a + b \in Nat
    OBVIOUS
<1>6. Work \in Nat
    BY <1>2, <1>3, <1>4, <1>5, Zenon DEF Work
<1> QED
    BY <1>1, <1>2, <1>3, <1>6 DEF Types, Children, Working

\* The main thread goes forward within a step, or on to the next.
LEMMA MainLess ==
    ASSUME IInv, IInv', Main
    PROVE  Less
<1>1. Types /\ Types'
    BY DEF IInv
<1>2. /\ StepsLeft \in Nat /\ StepsLeft' \in Nat /\ Stage \in 0 .. 6 /\ Stage' \in 0 .. 6
      /\ at \in Nat /\ Len(scenario.steps) \in Nat
    <2>1. Measured'
        BY <1>1, MeasureTypes, PTL
    <2> QED
        BY <1>1, <2>1, MeasureTypes DEF Measured
<1>3. scenario' = scenario
    BY DEF Main, RunNothing, run_embedded_v2, run_embedded_v1, Informational, FailedToSpawn,
           spawn_with_tee, Waited, JoinStdout, JoinStderr, StepEnded, Verdict
<1>4. CASE at' = at + 1
    <2>1. StepsLeft' = Len(scenario.steps) + 1 - (at + 1)
        BY <1>3, <1>4 DEF StepsLeft
    <2>2. StepsLeft = Len(scenario.steps) + 1 - at
        BY DEF StepsLeft
    <2>3. \A n, m \in Nat : n + 1 - (m + 1) < n + 1 - m
        OBVIOUS
    <2>4. StepsLeft' < StepsLeft
        BY <1>2, <2>1, <2>2, <2>3, Zenon
    <2> QED
        BY <1>2, <2>4 DEF Less
<1>5. CASE at' = at /\ Stage' < Stage
    <2>1. StepsLeft' = StepsLeft
        BY <1>3, <1>5 DEF StepsLeft
    <2> QED
        BY <1>2, <1>5, <2>1 DEF Less
<1>6. CASE RunNothing \/ run_embedded_v2 \/ run_embedded_v1
    <2>1. at' = at /\ pc = "main" /\ pc' \in {"exit", "walk"}
        BY <1>6 DEF RunNothing, run_embedded_v2, run_embedded_v1
    <2>2. Stage' < Stage
        BY <2>1 DEF Stage
    <2> QED
        BY <1>5, <2>1, <2>2
<1>7. CASE Informational \/ FailedToSpawn \/ StepEnded
    <2>1. at' = at + 1
        BY <1>7 DEF Informational, FailedToSpawn, StepEnded, Judged
    <2> QED
        BY <1>4, <2>1
<1>8. CASE spawn_with_tee \/ Waited \/ JoinStdout \/ JoinStderr \/ Verdict
    <2>1. /\ at' = at
          /\ <<pc, pc'>> \in {<<"walk", "wait">>, <<"wait", "join_stdout">>,
                               <<"join_stdout", "join_stderr">>, <<"join_stderr", "judge">>,
                               <<"walk", "exit">>}
        BY <1>8 DEF spawn_with_tee, Waited, JoinStdout, JoinStderr, Verdict
    <2>2. Stage' < Stage
        BY <2>1 DEF Stage
    <2> QED
        BY <1>5, <2>1, <2>2
<1> QED
    BY <1>6, <1>7, <1>8 DEF Main

\* Program and readers do some of the work.
LEMMA ThreadsLess ==
    ASSUME IInv, IInv', Child \/ \E s \in Streams : Reader(s)
    PROVE  Less
<1>1. Types /\ Types' /\ Control
    BY DEF IInv
<1>2. UNCHANGED <<pc, scenario, at>>
    BY DEF Child, Write, WriteToClosedPipe, Exit, Reader, ReadLine, ReadGarbled, Push, EndOfFile
<1>3. ~ Idle
    <2>1. CASE Child
        BY <1>1, <2>1 DEF Child, Write, WriteToClosedPipe, Exit, Unfinished, Control
    <2>2. CASE \E s \in Streams : Reader(s)
        <3>1. PICK s \in Streams : Reader(s)
            BY <2>2
        <3>2. readers[s] = "reading" \/ hand[s] # None
            BY <3>1 DEF Reader, ReadLine, ReadGarbled, Push, EndOfFile, Reading
        <3> QED
            BY <1>1, <3>2 DEF Control
    <2> QED
        BY <2>1, <2>2
<1>4. Step' = Step /\ ~ Idle' /\ StepsLeft' = StepsLeft /\ Stage' = Stage
    BY <1>2, <1>3 DEF Step, Idle, StepsLeft, Stage
<1>5. /\ Work \in Nat /\ Work' \in Nat
      /\ child.written \in 0 .. Len(Step.script) /\ Len(Step.script) \in Nat
      /\ child'.written \in 0 .. Len(Step'.script)
    <2>1. Working'
        BY <1>4, WorkType, PTL
    <2> QED
        BY <1>3, <2>1, WorkType DEF Working
<1>6. /\ Load("stdout") \in Nat /\ Load("stderr") \in Nat
      /\ Load("stdout")' \in Nat /\ Load("stderr")' \in Nat
    <2>1. Measured'
        BY <1>1, MeasureTypes, PTL
    <2> QED
        BY <1>1, <2>1, MeasureTypes DEF Measured
<1>7. /\ pipes \in [Streams -> Seq(Lines)] /\ hand \in [Streams -> {None, "plain", "match"}]
      /\ readers \in [Streams -> {"reading", "done"}]
      /\ child \in Children /\ \A s \in Streams : Len(pipes[s]) \in Nat
    BY <1>1 DEF Types
\* A stream that nothing happens to weighs the same.
<1>8. ASSUME NEW s \in Streams, pipes'[s] = pipes[s], hand'[s] = hand[s], readers'[s] = readers[s]
      PROVE  Load(s)' = Load(s)
    BY <1>8 DEF Load
<1> DEFINE script == 3 * (Len(Step.script) - child.written)
           running == IF child.status = "running" THEN 1 ELSE 0
<1>9. script \in Nat /\ running \in Nat /\ Work = script + running + Load("stdout") + Load("stderr")
      /\ Work' = script' + running' + Load("stdout")' + Load("stderr")'
      /\ script' \in Nat /\ running' \in Nat
    <2>1. running \in Nat /\ running' \in Nat
        OBVIOUS
    <2>2. script' = 3 * (Len(Step.script) - child'.written)
        BY <1>4
    <2>3. \A n \in Nat : \A w \in 0 .. n : 3 * (n - w) \in Nat
        OBVIOUS
    <2>4. script \in Nat /\ script' \in Nat
        BY <1>4, <1>5, <2>2, <2>3, Zenon
    <2>5. Work = script + running + Load("stdout") + Load("stderr")
          /\ Work' = script' + running' + Load("stdout")' + Load("stderr")'
        BY DEF Work
    <2> HIDE DEF script, running
    <2> QED
        BY <2>1, <2>4, <2>5
\* The sum gets less when what the program has to do does, for all that the
\* streams then weigh more by, or when a stream weighs less.
<1>10. \A a, a2, b, b2, c, d \in Nat : a2 + b2 < a + b => a2 + b2 + c + d < a + b + c + d
    OBVIOUS
<1>11. \A a, a2, b, c, d \in Nat :
            a2 = a - 3 => /\ a2 + b + (c + 2) + d < a + b + c + d
                          /\ a2 + b + c + (d + 2) < a + b + c + d
    OBVIOUS
<1>12. \A a, b, c, c2, d, d2 \in Nat :
            c2 <= c /\ d2 <= d /\ (c2 < c \/ d2 < d) => a + b + c2 + d2 < a + b + c + d
    OBVIOUS
<1>13. Work' < Work
    <2>1. CASE WriteToClosedPipe \/ Exit
        <3>1. UNCHANGED <<pipes, readers, hand>>
            BY <2>1 DEF WriteToClosedPipe, Exit, Threads
        <3>2. \A s \in Streams : Load(s)' = Load(s)
            BY <1>8, <3>1
        <3>3. script' + running' < script + running
            <4>1. child.status = "running"
                BY <2>1 DEF WriteToClosedPipe, Exit, Unfinished
            <4>2. \/ child'.written = child.written + 1 /\ child'.status = child.status
                  \/ child'.written = child.written /\ child'.status = "exited"
                BY <1>7, <2>1 DEF WriteToClosedPipe, Exit, Children
            <4> QED
                BY <1>4, <1>5, <4>1, <4>2
        <3> HIDE DEF script, running
        <3>4. Load("stdout")' = Load("stdout") /\ Load("stderr")' = Load("stderr")
            BY <3>2 DEF Streams
        <3> QED
            BY <1>6, <1>9, <1>10, <3>3, <3>4, Zenon
    <2>2. CASE Write
        <3>1. Next_line.to \in Streams /\ Next_line.line \in Lines
            <4>1. child.written + 1 \in 1 .. Len(Step.script)
                BY <1>5, <2>2 DEF Write, Unfinished
            <4>2. Next_line \in [to : Streams, line : Lines]
                BY <1>1, <1>3, <4>1, StepType DEF Next_line, Control
            <4> QED
                BY <4>2
        <3>2. PICK s \in Streams : s = Next_line.to
            BY <3>1
        <3>3. /\ child' = [child EXCEPT !.written = @ + 1]
              /\ pipes' = [pipes EXCEPT ![s] = Append(@, Next_line.line)]
              /\ UNCHANGED <<readers, hand>>
            BY <2>2, <3>2 DEF Write
        <3>4. script' = script - 3 /\ running' = running
            <4>1. child'.written = child.written + 1 /\ child'.status = child.status
                BY <1>7, <3>3 DEF Children
            <4>2. \A n \in Nat : \A w \in 0 .. n : 3 * (n - (w + 1)) = 3 * (n - w) - 3
                OBVIOUS
            <4>3. script' = 3 * (Len(Step.script) - (child.written + 1))
                BY <1>4, <4>1
            <4>4. script' = script - 3
                BY <1>5, <4>2, <4>3, Zenon
            <4> QED
                BY <4>1, <4>4
        <3> HIDE DEF script, running
        <3>5. Len(pipes'[s]) = Len(pipes[s]) + 1 /\ \A t \in Streams \ {s} : pipes'[t] = pipes[t]
            BY <1>7, <3>3, <3>2, <3>1
        <3>6. Load(s)' = Load(s) + 2
            <4>1. \A n \in Nat, a, b \in {0, 1} : 2 * (n + 1) + a + b = 2 * n + a + b + 2
                OBVIOUS
            <4>2. Len(pipes[s]) \in Nat
                BY <1>7, <3>2
            <4> DEFINE H == IF hand[s] = None THEN 0 ELSE 1
                       R == IF readers[s] = "done" THEN 0 ELSE 1
            <4>3. H \in {0, 1} /\ R \in {0, 1} /\ H' = H /\ R' = R
                BY <3>3
            <4>4. Load(s) = 2 * Len(pipes[s]) + H + R /\ Load(s)' = 2 * Len(pipes'[s]) + H' + R'
                BY DEF Load
            <4> HIDE DEF H, R
            <4> QED
                BY <3>5, <4>1, <4>2, <4>3, <4>4, Zenon
        <3>7. \A t \in Streams \ {s} : Load(t)' = Load(t)
            BY <1>8, <3>3, <3>5
        <3>8. \/ Load("stdout")' = Load("stdout") + 2 /\ Load("stderr")' = Load("stderr")
              \/ Load("stdout")' = Load("stdout") /\ Load("stderr")' = Load("stderr") + 2
            BY <3>2, <3>6, <3>7 DEF Streams
        <3> QED
            BY <1>6, <1>9, <1>11, <3>4, <3>8, Zenon
    <2>3. CASE \E s \in Streams : Reader(s)
        <3>1. PICK s \in Streams : Reader(s)
            BY <2>3
        <3>2. child' = child
            BY <3>1 DEF Reader, ReadLine, ReadGarbled, Push, EndOfFile
        <3>3. script' = script /\ running' = running
            BY <1>4, <3>2, Zenon
        <3>4. \A t \in Streams \ {s} :
                    pipes'[t] = pipes[t] /\ hand'[t] = hand[t] /\ readers'[t] = readers[t]
            BY <1>7, <3>1 DEF Reader, ReadLine, ReadGarbled, Push, EndOfFile
        <3>5. Load(s)' < Load(s)
            <4>1. CASE ReadLine(s)
                <5>1. /\ hand[s] = None /\ pipes[s] # <<>> /\ hand'[s] = Head(pipes[s])
                      /\ pipes'[s] = Tail(pipes[s]) /\ readers'[s] = readers[s]
                    BY <1>7, <4>1 DEF ReadLine
                <5>2. Len(pipes'[s]) = Len(pipes[s]) - 1 /\ Len(pipes[s]) \in Nat
                    BY <1>7, <5>1
                <5>3. \A n \in Nat, a, b \in {0, 1} : 2 * (n - 1) + b + a < 2 * n + 0 + a
                    OBVIOUS
                <5> DEFINE H == IF hand[s] = None THEN 0 ELSE 1
                           R == IF readers[s] = "done" THEN 0 ELSE 1
                <5>4. H = 0 /\ H' \in {0, 1} /\ R \in {0, 1} /\ R' = R
                    BY <5>1
                <5>5. Load(s) = 2 * Len(pipes[s]) + H + R /\ Load(s)' = 2 * Len(pipes'[s]) + H' + R'
                    BY DEF Load
                <5> HIDE DEF H, R
                <5> QED
                    BY <5>2, <5>3, <5>4, <5>5, Zenon
            <4>2. CASE ReadGarbled(s)
                <5>1. /\ readers[s] = "reading" /\ readers'[s] = "done" /\ hand'[s] = hand[s]
                      /\ pipes'[s] = <<>>
                    BY <1>7, <4>2 DEF ReadGarbled, Reading
                <5> QED
                    BY <1>7, <5>1 DEF Load
            <4>3. CASE Push(s)
                <5>1. /\ hand[s] # None /\ hand'[s] = None
                      /\ pipes'[s] = pipes[s] /\ readers'[s] = readers[s]
                    BY <1>7, <4>3 DEF Push
                <5> QED
                    BY <1>7, <5>1 DEF Load
            <4>4. CASE EndOfFile(s)
                <5>1. /\ readers[s] = "reading" /\ readers'[s] = "done" /\ hand'[s] = hand[s]
                      /\ pipes'[s] = pipes[s]
                    BY <1>7, <4>4 DEF EndOfFile, Reading
                <5> QED
                    BY <1>7, <5>1 DEF Load
            <4> QED
                BY <3>1, <4>1, <4>2, <4>3, <4>4 DEF Reader
        <3>6. \A t \in Streams \ {s} : Load(t)' = Load(t)
            BY <1>8, <3>4
        <3> HIDE DEF script, running
        <3>7. /\ Load("stdout")' <= Load("stdout") /\ Load("stderr")' <= Load("stderr")
              /\ Load("stdout")' < Load("stdout") \/ Load("stderr")' < Load("stderr")
            BY <1>6, <3>5, <3>6 DEF Streams
        <3> QED
            BY <1>6, <1>9, <1>12, <3>3, <3>7, Zenon
    <2> QED
        BY <2>1, <2>2, <2>3 DEF Child
<1> QED
    BY <1>1, <1>4, <1>5, <1>13, MeasureTypes DEF Less, Measured

\* Nothing runs forever: with every step of the main thread, of the program or of
\* a reader there is less to do, counted in steps, then in stages of a step,
\* then in lines still to be moved.
THEOREM RunWindsDown == FairSpec => [][Less]_vars
<1>1. IInv /\ IInv' /\ [Next]_vars => [Less]_vars
    BY MainLess, ThreadsLess DEF Next, Terminated
<1> QED
    BY <1>1, RunnerInvariant, PTL DEF FairSpec

\* The steps of the main thread that runs a scenario, those of a step's program
\* and those of a reader, each with the values it leaves as a parameter v: an
\* action is the case in which v are the values of the next state.
MainLeaves(pc2, at2, report2, verdicts2, headline2, exit2, child2) ==
    <<pc2, scenario, at2, report2, verdicts2, headline2, exit2, child2,
      pipes, readers, hand, captured>>
JudgedTo(verdict, counts, child2) ==
    MainLeaves("walk", at + 1, counts, Append(verdicts, verdict), headline, exit_code, child2)
StartTo(v) ==
    LET steps == Len(scenario.steps)
    IN \/ /\ pc = "main" /\ is_v2_eligible(scenario)
          /\ v = MainLeaves("exit", at, Report(steps, steps), verdicts,
                            Headline(scenario.outcomes), 0, child)
       \/ /\ pc = "main" /\ ~is_v2_eligible(scenario)
          /\ v = MainLeaves("walk", at, Report(steps, 0), verdicts, headline, exit_code, child)
WalkTo(v) ==
    \/ /\ pc = "walk" /\ at <= Len(scenario.steps) /\ Step.command = "comment"
       /\ v = JudgedTo("skipped", [report EXCEPT !.skipped = @ + 1], child)
    \/ /\ pc = "walk" /\ at <= Len(scenario.steps) /\ Step.command = "absent"
       /\ v = JudgedTo("failed", [report EXCEPT !.failed = @ + 1], child)
    \/ /\ pc = "walk" /\ at <= Len(scenario.steps) /\ Step.command \notin {"comment", "absent"}
       /\ v = <<"wait", scenario, at, report, verdicts, headline, exit_code,
                [status |-> "running", written |-> 0, success |-> FALSE],
                [s \in Streams |-> <<>>], [s \in Streams |-> "reading"],
                [s \in Streams |-> None], <<>>>>
    \/ /\ pc = "walk" /\ at > Len(scenario.steps)
       /\ v = MainLeaves("exit", at, report, verdicts, headline,
                         IF report.failed > 0 THEN 1 ELSE 0, child)
WaitTo(v) ==
    LET to(pc2) == MainLeaves(pc2, at, report, verdicts, headline, exit_code, child)
    IN \/ pc = "wait" /\ child.status = "exited" /\ v = to("join_stdout")
       \/ pc = "join_stdout" /\ readers["stdout"] = "done" /\ v = to("join_stderr")
       \/ pc = "join_stderr" /\ Joined /\ v = to("judge")
JudgeTo(v) ==
    LET passed == [report EXCEPT !.passed = @ + 1]
    IN /\ pc = "judge"
       /\ \/ child.success /\ ~Step.expect /\ v = JudgedTo("passed", passed, NoChild)
          \/ /\ child.success /\ Step.expect
             /\ v = JudgedTo(IF Found THEN "verified" ELSE "not found", Expected(passed), NoChild)
          \/ /\ ~child.success
             /\ v = JudgedTo("failed", [report EXCEPT !.failed = @ + 1], NoChild)
MainTo(v) == StartTo(v) \/ WalkTo(v) \/ WaitTo(v) \/ JudgeTo(v)
Shared(child2, pipes2, readers2, hand2, captured2) ==
    <<pc, scenario, at, report, verdicts, headline, exit_code,
      child2, pipes2, readers2, hand2, captured2>>
ChildTo(v) ==
    LET s == Next_line.to
        written == [child EXCEPT !.written = @ + 1]
    IN \/ /\ Unfinished /\ readers[s] = "reading" /\ Len(pipes[s]) < PipeCapacity
          /\ v = Shared(written, [pipes EXCEPT ![s] = Append(@, Next_line.line)],
                        readers, hand, captured)
       \/ /\ Unfinished /\ readers[s] = "done"
          /\ v \in {Shared(written, pipes, readers, hand, captured),
                    Shared([child EXCEPT !.status = "exited"], pipes, readers, hand, captured)}
       \/ /\ child.status = "running" /\ child.written = Len(Step.script)
          /\ v = Shared([child EXCEPT !.status = "exited", !.success = Step.success],
                        pipes, readers, hand, captured)
ReaderTo(s, v) ==
    LET ready == Reading(s) /\ hand[s] = None
        done == [readers EXCEPT ![s] = "done"]
    IN \/ /\ ready /\ pipes[s] # <<>> /\ Utf8(Head(pipes[s]))
          /\ v = Shared(child, [pipes EXCEPT ![s] = Tail(@)], readers,
                        [hand EXCEPT ![s] = Head(pipes[s])], captured)
       \/ /\ ready /\ pipes[s] # <<>> /\ ~Utf8(Head(pipes[s]))
          /\ v = Shared(child, [pipes EXCEPT ![s] = <<>>], done, hand, captured)
       \/ /\ hand[s] # None
          /\ v = Shared(child, pipes, readers, [hand EXCEPT ![s] = None],
                        Append(captured, hand[s]))
       \/ /\ ready /\ pipes[s] = <<>> /\ child.status # "running"
          /\ v = Shared(child, pipes, done, hand, captured)

\* The actions are those cases.
LEMMA RunnerRelation ==
    /\ MainTo(vars') => Main
    /\ ChildTo(vars') => Child
    /\ \A s \in Streams : ReaderTo(s, vars') => Reader(s)
<1>1. MainTo(vars') => Main
    <2> SUFFICES ASSUME MainTo(vars') PROVE Main
        OBVIOUS
    <2>1. CASE StartTo(vars')
        BY <2>1 DEF StartTo, MainLeaves, vars, Threads, Main, run_embedded_v2, run_embedded_v1
    <2>2. CASE WalkTo(vars')
        BY <2>2 DEF WalkTo, JudgedTo, MainLeaves, vars, Threads, Main, Informational, Judged,
                    FailedToSpawn, spawn_with_tee, Verdict
    <2>3. CASE WaitTo(vars')
        BY <2>3 DEF WaitTo, MainLeaves, vars, Threads, Main, Waited, JoinStdout, JoinStderr
    <2>4. CASE JudgeTo(vars')
        BY <2>4 DEF JudgeTo, JudgedTo, MainLeaves, vars, Threads, Main, StepEnded, Judged
    <2> QED
        BY <2>1, <2>2, <2>3, <2>4 DEF MainTo
<1>2. ChildTo(vars') => Child
    BY DEF ChildTo, Shared, vars, Child, Write, WriteToClosedPipe, Exit, Threads
<1>3. ASSUME NEW s \in Streams, ReaderTo(s, vars') PROVE Reader(s)
    BY <1>3 DEF ReaderTo, Shared, vars, Reader, ReadLine, ReadGarbled, Push, EndOfFile
<1> QED
    BY <1>1, <1>2, <1>3

\* Some thread or program has a step to take.
CanMove == \E v : MainTo(v) \/ ChildTo(v) \/ \E s \in Streams : ReaderTo(s, v)

\* A reader that has not ended can go on, except with an empty pipe while the
\* program still runs.
LEMMA ReaderMoves ==
    ASSUME Types, Control, NEW s \in Streams, readers[s] = "reading",
           pipes[s] # <<>> \/ child.status # "running"
    PROVE  CanMove
<1>1. CASE hand[s] # None
    <2>1. ReaderTo(s, Shared(child, pipes, readers, [hand EXCEPT ![s] = None],
                             Append(captured, hand[s])))
        BY <1>1 DEF ReaderTo
    <2> QED
        BY <2>1, Zenon DEF CanMove
<1>2. CASE hand[s] = None /\ pipes[s] # <<>> /\ Utf8(Head(pipes[s]))
    <2>1. ReaderTo(s, Shared(child, [pipes EXCEPT ![s] = Tail(@)], readers,
                             [hand EXCEPT ![s] = Head(pipes[s])], captured))
        BY <1>2 DEF ReaderTo, Reading
    <2> QED
        BY <2>1, Zenon DEF CanMove
<1>3. CASE hand[s] = None /\ pipes[s] # <<>> /\ ~Utf8(Head(pipes[s]))
    <2>1. ReaderTo(s, Shared(child, [pipes EXCEPT ![s] = <<>>],
                             [readers EXCEPT ![s] = "done"], hand, captured))
        BY <1>3 DEF ReaderTo, Reading
    <2> QED
        BY <2>1, Zenon DEF CanMove
<1>4. CASE hand[s] = None /\ pipes[s] = <<>>
    <2>1. ReaderTo(s, Shared(child, pipes, [readers EXCEPT ![s] = "done"], hand, captured))
        BY <1>4 DEF ReaderTo, Reading
    <2> QED
        BY <2>1, Zenon DEF CanMove
<1> QED
    BY <1>1, <1>2, <1>3, <1>4

\* Until the run is over there is a step to take: neither a full pipe nor a
\* reader that gave up leaves the program, the readers and the main thread
\* waiting for one another.  With RunWindsDown this is what makes a run end.
THEOREM RunNeverStuck == FairSpec => [](pc # "exit" => CanMove)
<1>1. IInv => (pc # "exit" => CanMove)
    <2> SUFFICES ASSUME IInv, pc # "exit" PROVE CanMove
        OBVIOUS
    <2>1. Types /\ Control
        BY DEF IInv
    <2>2. ASSUME NEW v, MainTo(v) PROVE CanMove
        BY <2>2, Zenon DEF CanMove
    <2>3. ASSUME NEW v, ChildTo(v) PROVE CanMove
        BY <2>3, Zenon DEF CanMove
    <2>4. CASE pc = "main"
        <3>1. \E v : MainTo(v)
            BY <2>4 DEF MainTo, StartTo
        <3> QED
            BY <2>2, <3>1
    <2>5. CASE pc = "walk"
        <3>1. at <= Len(scenario.steps) \/ at > Len(scenario.steps)
            BY <2>1, MeasureTypes DEF Measured
        <3>2. \E v : MainTo(v)
            BY <2>5, <3>1 DEF MainTo, WalkTo
        <3> QED
            BY <2>2, <3>2
    <2>6. CASE pc = "wait"
        <3>1. child.status \in {"running", "exited"} /\ ~ Idle /\ at <= Len(scenario.steps)
            BY <2>1, <2>6 DEF Control, Idle
        <3>2. child.written \in 0 .. Len(Step.script) /\ Len(Step.script) \in Nat
            BY <3>1, WorkType DEF Working
        <3>3. CASE child.status = "exited"
            <4>1. \E v : MainTo(v)
                BY <2>6, <3>3 DEF MainTo, WaitTo
            <4> QED
                BY <2>2, <4>1
        <3>4. CASE child.status = "running" /\ child.written = Len(Step.script)
            <4>1. \E v : ChildTo(v)
                BY <3>4 DEF ChildTo
            <4> QED
                BY <2>3, <4>1
        <3>5. CASE child.status = "running" /\ child.written < Len(Step.script)
            <4>1. child.written + 1 \in 1 .. Len(Step.script)
                BY <3>2, <3>5
            <4>2. Next_line.to \in Streams
                BY <2>1, <3>1, <4>1, StepType DEF Next_line
            <4>3. PICK s \in Streams : s = Next_line.to
                BY <4>2
            <4>4. pipes[s] \in Seq(Lines) /\ readers[s] \in {"reading", "done"}
                BY <2>1, <4>3 DEF Types
            <4>5. CASE readers[s] = "done"
                <5>1. \E v : ChildTo(v)
                    BY <3>5, <4>3, <4>5 DEF ChildTo, Unfinished
                <5> QED
                    BY <2>3, <5>1
            <4>6. CASE readers[s] = "reading" /\ Len(pipes[s]) < PipeCapacity
                <5>1. \E v : ChildTo(v)
                    BY <3>5, <4>3, <4>6 DEF ChildTo, Unfinished
                <5> QED
                    BY <2>3, <5>1
            <4>7. CASE readers[s] = "reading" /\ ~(Len(pipes[s]) < PipeCapacity)
                <5>1. pipes[s] # <<>>
                    BY <4>4, <4>7, PipeAssumption
                <5> QED
                    BY <2>1, <4>7, <5>1, ReaderMoves
            <4> QED
                BY <4>4, <4>5, <4>6, <4>7
        <3> QED
            BY <3>1, <3>2, <3>3, <3>4, <3>5
    <2>7. CASE pc \in {"join_stdout", "join_stderr"}
        <3>1. child.status = "exited"
            BY <2>1, <2>7 DEF Control
        <3>2. ASSUME NEW s \in Streams, readers[s] # "done" PROVE CanMove
            <4>1. readers[s] = "reading"
                BY <2>1, <3>2 DEF Types
            <4> QED
                BY <2>1, <3>1, <3>2, <4>1, ReaderMoves
        <3>3. CASE pc = "join_stdout" /\ readers["stdout"] = "done"
            <4>1. \E v : MainTo(v)
                BY <3>3 DEF MainTo, WaitTo
            <4> QED
                BY <2>2, <4>1
        <3>4. CASE pc = "join_stderr" /\ readers["stderr"] = "done"
            <4>1. \E v : MainTo(v)
                BY <3>4 DEF MainTo, WaitTo, Joined
            <4> QED
                BY <2>2, <4>1
        <3> QED
            BY <2>7, <3>2, <3>3, <3>4 DEF Streams
    <2>8. CASE pc = "judge"
        <3>1. \E v : MainTo(v)
            BY <2>1, <2>8 DEF MainTo, JudgeTo, Types, Children
        <3> QED
            BY <2>2, <3>1
    <2> QED
        BY <2>1, <2>4, <2>5, <2>6, <2>7, <2>8 DEF Types
<1> QED
    BY <1>1, RunnerInvariant, PTL

=============================================================================
