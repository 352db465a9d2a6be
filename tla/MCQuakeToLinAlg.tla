-------------------------- MODULE MCQuakeToLinAlg --------------------------
(* Instances of QuakeToLinAlg for TLC: modules of up to two short functions. *)
EXTENDS QuakeToLinAlg

q(i) == [reg |-> "q", idx |-> i]
SomeWires == {q(i) : i \in 0 .. 12}

Angle(t) == <<[constant |-> TRUE, ticks |-> t]>>
Gate(g, cs, ts) == Operation(g, FALSE, <<>>, cs, ts)

\* Gates with and without controls and parameters, among them pairs that differ in one
\* of name, controls, targets and angle; a measurement
SomeOperations ==
    {Gate("h", <<>>, <<q(0)>>), Gate("x", <<>>, <<q(0)>>), Gate("x", <<q(0)>>, <<q(1)>>),
     Gate("x", <<q(1)>>, <<q(0)>>), Gate("swap", <<>>, <<q(0), q(1)>>),
     Operation("rz", FALSE, Angle(4), <<>>, <<q(1)>>), Operation("rz", FALSE, Angle(8), <<>>, <<q(1)>>),
     Gate("swap", <<q(0)>>, <<q(1), q(2)>>), Gate("swap", <<>>, <<q(1), q(2)>>), Gate("mz", <<>>, <<q(0)>>)}

Function_(attribute, n, ops) ==
    [prefixed |-> attribute, attribute |-> attribute,
     allocs |-> <<[reg |-> "q", ref |-> FALSE, size |-> n]>>, ops |-> ops]

UpTo(n, S) == UNION {[1 .. m -> S] : m \in 0 .. n}

\* Kernels of two sizes, and host functions
SomeFunctions ==
    {Function_(TRUE, n, ops) : n \in {3, 4}, ops \in UpTo(2, SomeOperations)}
      \cup {Function_(FALSE, 3, <<>>)}

\* Indices of two digits
WideKernels ==
    {Function_(TRUE, 13, ops) : ops \in [1 .. 2 -> {Gate("x", <<>>, <<q(12)>>), Gate("x", <<q(1)>>, <<q(2)>>),
                                                  Gate("swap", <<>>, <<q(1), q(12)>>)}]}

ShortModules ==
    UpTo(1, SomeFunctions \cup WideKernels)
      \cup {<<a, b>> : a \in SomeFunctions,
                       b \in {Function_(TRUE, 3, ops) : ops \in UpTo(1, SomeOperations)}
                               \cup {Function_(FALSE, 3, <<>>)}}
      \cup {<<a, Function_(FALSE, 3, <<>>), a>> : a \in SomeFunctions}

\* A gate and its adjoint
AdjointModules ==
    {<<Function_(TRUE, 1, <<Operation(g, a, <<>>, <<>>, <<q(0)>>),
                            Operation(g, b, <<>>, <<>>, <<q(0)>>)>>)>> :
       g \in {"s", "t", "h"}, a \in BOOLEAN, b \in BOOLEAN}
=============================================================================
