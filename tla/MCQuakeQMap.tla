---------------------------- MODULE MCQuakeQMap ----------------------------
(* Instances of QuakeQMap for TLC: kernels of up to three operations on a line of qubits. *)
EXTENDS QuakeQMap

q(i) == [reg |-> "q", idx |-> i]
r0 == [reg |-> "r", idx |-> 0]
All == [reg |-> "q", idx |-> Whole]
argument == [reg |-> "argument", idx |-> -1]
SomeWires == {q(0), q(1), q(2), r0, All, argument}

Gate(g, cs, ts) == Operation(g, FALSE, <<>>, cs, ts)
Rotation(g, constant, ticks, cs, t) ==
    Operation(g, FALSE, <<[constant |-> constant, ticks |-> ticks]>>, cs, <<t>>)

\* Controlled gates on each pair of qubits, a rotation by 0 and by a full turn, measurements
CoveredOperations ==
    {Gate("x", <<q(0)>>, <<q(2)>>), Gate("z", <<q(1)>>, <<q(0)>>), Gate("h", <<>>, <<q(1)>>),
     Rotation("rx", TRUE, 0, <<>>, q(2)), Rotation("rz", TRUE, 16, <<>>, q(0)),
     Gate("mz", <<>>, <<q(2)>>), Gate("mz", <<>>, <<q(1)>>), Gate("mz", <<>>, <<All>>)}

\* The last one is as many gates as there are qubits: it comes at the end of short kernels.
MeasureAll == {Gate("mz", <<>>, <<All>>)}

\* What is lost, misread or refused
OtherOperations ==
    {Gate("x", <<q(0), q(1)>>, <<q(2)>>), Gate("swap", <<>>, <<q(0), q(1)>>),
     Rotation("ry", TRUE, 4, <<q(0)>>, q(1)), Rotation("rx", FALSE, 0, <<>>, q(2)),
     Gate("h", <<q(0)>>, <<q(1)>>), Operation("s", TRUE, <<>>, <<>>, <<q(0)>>),
     Gate("mz", <<>>, <<argument>>), Gate("h", <<>>, <<argument>>),
     Gate("mz", <<>>, <<q(0), q(1)>>), Gate("mx", <<>>, <<q(1)>>), Gate("reset", <<>>, <<q(1)>>)}

UpTo(n, S) == UNION {[1 .. m -> S] : m \in 0 .. n}
Register(n) == [reg |-> "q", ref |-> FALSE, size |-> n]
Func(prefixed, allocs, ops) ==
    [prefixed |-> prefixed, attribute |-> prefixed, allocs |-> allocs, ops |-> ops]

\* Kernels with fewer qubits than the device
SmallerThanDevice ==
    {Func(TRUE, <<Register(2)>>, ops) :
       ops \in UpTo(2, {Gate("h", <<>>, <<q(0)>>), Gate("x", <<q(1)>>, <<q(0)>>)})}

SmallFunctions ==
    {Func(TRUE, <<Register(3)>>, ops) :
       ops \in UpTo(3, {op \in CoveredOperations : op.gate \in {"x", "mz"}} \ MeasureAll)
                 \cup UpTo(2, CoveredOperations \ MeasureAll) \cup UpTo(1, MeasureAll)
                 \cup {<<op, all>> : op \in {p \in CoveredOperations \ MeasureAll : p.gate \in {"x", "mz"}},
                                    all \in MeasureAll}
                 \cup UpTo(1, OtherOperations)}
    \cup {Func(TRUE, <<Register(3)>>, <<op, Gate("x", <<q(0)>>, <<q(2)>>)>>) : op \in OtherOperations}
    \cup SmallerThanDevice
    \cup {Func(TRUE, <<Register(2), [reg |-> "r", ref |-> TRUE, size |-> 1]>>,
               <<Gate("x", <<q(1)>>, <<r0>>), Gate("mz", <<>>, <<q(2)>>)>>),
          Func(FALSE, <<Register(3)>>, <<Gate("swap", <<>>, <<q(0), q(1)>>)>>)}

\* Three qubits in a line
LineOfThree == {e \in (0 .. 2) \X (0 .. 2) : e[1] - e[2] \in {-1, 1}}
=============================================================================
