----------------------------- MODULE MCQuakeDAG -----------------------------
(* Instances of QuakeDAG for TLC: short kernels over one and two registers. *)
EXTENDS QuakeDAG

q0 == [reg |-> "q", idx |-> 0]
q1 == [reg |-> "q", idx |-> 1]
q2 == [reg |-> "q", idx |-> 2]
r0 == [reg |-> "r", idx |-> 0]
arg == [reg |-> "argument", idx |-> -1]
SomeWires == {q0, q1, q2, r0, arg}

Gate(g, cs, ts) == Operation(g, FALSE, <<>>, cs, ts)

\* Gates on one, two and three qubits of a register, and an operation that is no gate
OneRegister == {Gate("h", <<>>, <<q0>>), Gate("x", <<q0>>, <<q1>>), Gate("x", <<q1>>, <<q2>>),
                Gate("z", <<q2>>, <<q0>>), Gate("x", <<q0, q1>>, <<q2>>),
                Gate("swap", <<>>, <<q0, q2>>), Operation("s", TRUE, <<>>, <<>>, <<q1>>),
                Gate("mz", <<>>, <<q0>>)}

\* Operands with equal indices, and one that was not allocated in the kernel
TwoRegisters == {Gate("h", <<>>, <<q0>>), Gate("x", <<q0>>, <<r0>>), Gate("x", <<q1>>, <<r0>>),
                 Gate("y", <<arg>>, <<q0>>)}

\* A gate of the one may come between two of the other in the graph and not in the kernel.
SomeOfTwo == {Gate("h", <<>>, <<q0>>), Gate("x", <<q1>>, <<r0>>)}

Kernel(allocs, ops) ==
    [prefixed |-> TRUE, attribute |-> TRUE, allocs |-> allocs, ops |-> ops]

Alloca(reg, size) == [reg |-> reg, ref |-> FALSE, size |-> size]

SomeGates == {Gate("h", <<>>, <<q0>>), Gate("x", <<q0>>, <<q1>>), Gate("swap", <<>>, <<q0, q2>>),
              Gate("mz", <<>>, <<q0>>)}

UpTo(n, S) == UNION {[1 .. m -> S] : m \in 0 .. n}

SmallKernels ==
    {Kernel(<<Alloca("q", 3)>>, ops) : ops \in UpTo(2, OneRegister) \cup UpTo(3, SomeGates)}
      \cup {Kernel(<<Alloca("q", 2), Alloca("r", 1)>>, ops) :
               ops \in UpTo(2, TwoRegisters) \cup UpTo(3, SomeOfTwo)}
=============================================================================
