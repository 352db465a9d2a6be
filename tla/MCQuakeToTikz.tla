--------------------------- MODULE MCQuakeToTikz ---------------------------
(* Instances of QuakeToTikz for TLC: one short function, or two shorter ones. *)
EXTENDS QuakeToTikz

q(i) == [reg |-> "q", idx |-> i]
r0 == [reg |-> "r", idx |-> 0]
All == [reg |-> "q", idx |-> Whole]
SomeWires == {q(0), q(1), q(2), r0, All}

Gate(g, cs, ts) == Operation(g, FALSE, <<>>, cs, ts)
Angle == [constant |-> TRUE, ticks |-> 4]

\* Controls above and below their targets, swaps in both directions, measurements of a
\* qubit and of the register, a structured if, and a reset
SomeOperations ==
    {Gate("x", <<q(0)>>, <<q(2)>>), Gate("x", <<q(2), q(0)>>, <<q(1)>>),
     Gate("swap", <<>>, <<q(0), q(2)>>), Gate("swap", <<>>, <<q(1), q(0)>>),
     Gate("swap", <<q(2)>>, <<q(0), q(1)>>),
     Operation("rz", FALSE, <<Angle>>, <<>>, <<q(1)>>), Operation("s", TRUE, <<>>, <<>>, <<q(0)>>),
     Gate("mz", <<>>, <<q(0), q(1)>>), Gate("mz", <<>>, <<All>>),
     Gate("cc.if", <<>>, <<q(0)>>), Gate("reset", <<>>, <<q(0)>>)}

Register == <<[reg |-> "q", ref |-> FALSE, size |-> 3]>>

Kernel(prefixed, ops) ==
    [prefixed |-> prefixed, attribute |-> prefixed, allocs |-> Register, ops |-> ops]

\* A gate with operands of one index in two registers
TwoRegisters ==
    [prefixed |-> TRUE, attribute |-> TRUE,
     allocs |-> Register \o <<[reg |-> "r", ref |-> FALSE, size |-> 1]>>,
     ops |-> <<Gate("x", <<q(0)>>, <<r0>>), Gate("x", <<>>, <<q(0)>>)>>]

UpTo(n, S) == UNION {[1 .. m -> S] : m \in 0 .. n}

Kernels(n) == {Kernel(TRUE, ops) : ops \in UpTo(n, SomeOperations)}
OtherFunctions == {Kernel(TRUE, <<Gate("x", <<q(0)>>, <<q(2)>>)>>),
                   Kernel(FALSE, <<Gate("swap", <<>>, <<q(0), q(1)>>)>>)}

ShortModules == {<<a>> : a \in Kernels(2) \cup {TwoRegisters}}
                  \cup {<<a, b>> : a \in Kernels(1), b \in OtherFunctions}
                  \cup {<<b, a>> : a \in Kernels(1), b \in OtherFunctions}
=============================================================================
