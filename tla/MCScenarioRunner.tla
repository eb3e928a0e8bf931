--------------------------- MODULE MCScenarioRunner ---------------------------
(* ScenarioRunner on a small instance: see MCScenarioRunner.cfg. *)
EXTENDS ScenarioRunner

CONSTANT MaxLines     \* of a program

Scripts == UNION {[1 .. n -> [to : Streams, line : Lines]] : n \in 0 .. MaxLines}

Program(command, script, success, expect) ==
    [command |-> command, script |-> script, success |-> success, expect |-> expect]

\* What every program may write, before or after one of the other steps.
Programs == {Program("program", script, success, expect) :
                script \in Scripts, success \in BOOLEAN, expect \in BOOLEAN}
Others == {Program("comment", <<>>, TRUE, FALSE), Program("absent", <<>>, TRUE, TRUE)}
Demo(name) == Program(name, <<[to |-> "stdout", line |-> "match"]>>, TRUE, TRUE)

Outcomes == SUBSET [about : Demos, holds : BOOLEAN]

SmallScenarios ==
    {[steps |-> steps, outcomes |-> {}] :
        steps \in {<<>>} \union {<<p>> : p \in Programs}
                    \union {<<o, p>> : o \in Others, p \in Programs}
                    \union {<<p, Demo("account_layout"), o>> :
                                o \in Others, p \in {q \in Programs : Len(q.script) = 1}}}
    \union {[steps |-> steps, outcomes |-> outcomes] :
        steps \in {<<Demo("account_layout")>>,
                   <<Demo("instruction_dispatch"), Demo("account_layout")>>},
        outcomes \in Outcomes}

=============================================================================
