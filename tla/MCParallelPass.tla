--------------------------- MODULE MCParallelPass ---------------------------
(* Instances of ParallelPass for TLC: modules of up to three short functions. *)
EXTENDS ParallelPass

q0 == [reg |-> "q", idx |-> 0]
q1 == [reg |-> "q", idx |-> 1]
TwoWires == {q0, q1}
TwoThreads == {"thread1", "thread2"}

One(g, w) == Operation(g, FALSE, <<>>, <<>>, <<w>>)
Cx == Operation("x", FALSE, <<>>, <<q0>>, <<q1>>)
Apply(ctrls) == Operation("apply", FALSE, <<>>, ctrls, <<q1>>)

\* One circuit for each pass to rewrite, one for SwitchHX to crash on, and a call of
\* another kernel, plain and controlled.
SomeBodies == {<<Cx>>, <<Cx, Cx>>, <<One("h", q0), One("x", q0)>>, <<One("x", q0), One("x", q0)>>,
               <<Cx, Apply(<<>>)>>, <<Apply(<<q0>>)>>}

Func(entryPoint, qubitArgs, body) ==
    [entryPoint |-> entryPoint, qubitArgs |-> qubitArgs, body |-> body]

Functions(bodies) ==
    {Func(TRUE, TRUE, b) : b \in bodies} \cup {Func(FALSE, TRUE, b) : b \in bodies}
        \cup {Func(FALSE, FALSE, b) : b \in bodies}

\* A rewrite, a pass that may crash, one that uses a freed operation, one that inserts
SomePasses == {"CancellationDoubleCx", "SwitchHX", "ReductionPattern", "ReverseCx"}

AllModules ==
    UNION {[1 .. n -> Functions(SomeBodies) \cup {Func(TRUE, FALSE, <<Cx>>)}] : n \in 0 .. 2}
      \cup [1 .. 3 -> Functions({<<Cx, Cx>>, <<One("h", q0), One("x", q0)>>})]
=============================================================================
