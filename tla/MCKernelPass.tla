---------------------------- MODULE MCKernelPass ----------------------------
(* Instances of KernelPass for TLC: which wires, which circuits, which passes. *)
EXTENDS KernelMeaning

q0 == [reg |-> "q", idx |-> 0]
q1 == [reg |-> "q", idx |-> 1]
q2 == [reg |-> "q", idx |-> 2]
TwoWires == {q0, q1}
ThreeWires == {q0, q1, q2}

Const(ticks) == [constant |-> TRUE, ticks |-> ticks]

One(g, w) == Operation(g, FALSE, <<>>, <<>>, <<w>>)
Adjoint(g, w) == Operation(g, TRUE, <<>>, <<>>, <<w>>)
Controlled(g, c, t) == Operation(g, FALSE, <<>>, <<c>>, <<t>>)
Rotation(g, p, w) == Operation(g, FALSE, <<p>>, <<>>, <<w>>)
ControlledRotation(g, p, c, t) == Operation(g, FALSE, <<p>>, <<c>>, <<t>>)

\* Every circuit of at most n operations of a set.
CircuitsOf(ops, n) == UNION {[1 .. k -> ops] : k \in 0 .. n}

Paulis(w) == {One("x", w), One("y", w), One("z", w)}
CliffordGates ==
    Paulis(q0) \cup {One("h", q0), One("s", q0), Adjoint("s", q0),
                     One("x", q1), One("h", q1),
                     Controlled("x", q0, q1), Controlled("x", q1, q0), Controlled("z", q0, q1)}
NonGateOps == {One("mz", q0), One("reset", q1)}

\* All the passes meet gates, measurements and resets.
WalkOps == CliffordGates \cup NonGateOps \cup
    {Rotation("rx", Const(-16), q1), Rotation("rz", Const(0), q0)}
WalkInputs == CircuitsOf(WalkOps, 3)

\* The passes whose rewrites hold whatever gates stand between the gates they
\* rewrite; the last two lines of them may call a method on a null operation.
Sound ==
    {"NormalizeArgAngle", "CancellationNullRotation", "CommuteRxCx", "CommuteXCx", "CommuteZCx",
     "SwitchPauliH", "CxToHCzH", "CzToHCxH", "ReverseCx", "SAdjZToS", "SZToSAdj",
     "HXHToZ", "HZHToX", "SwitchHX", "SwitchHY", "SwitchHZ",
     "SwitchXH", "SwitchYH", "SwitchZH"}
GateOps == CliffordGates \cup
    {Rotation("rx", Const(2), q1), Rotation("rx", Const(-16), q1), Rotation("rz", Const(20), q0)}
GateInputs == CircuitsOf(GateOps, 3)

\* The passes that replace one two-qubit gate, with everything else about.
OneGate == {"CxToHCzH", "CzToHCxH", "ReverseCx"}
OneGateInputs ==
    CircuitsOf({Controlled("x", q0, q1), Controlled("x", q1, q2), Controlled("x", q2, q0),
                Controlled("z", q0, q1), Controlled("z", q2, q1), Controlled("h", q0, q1),
                ControlledRotation("rx", Const(4), q1, q2), One("h", q1), One("t", q0),
                One("mz", q1), One("reset", q0),
                Operation("x", FALSE, <<>>, <<q0, q1>>, <<q2>>),
                Operation("swap", FALSE, <<>>, <<>>, <<q0, q2>>)}, 3)

\* Small sets of circuits on which a pass and what is said of it part ways.
HOnControl == CircuitsOf({Controlled("x", q0, q1), One("h", q0)}, 3)
XAndH == CircuitsOf({One("x", q0), One("h", q0)}, 3)

DoubleCx == {"CancellationDoubleCx"}
Switching == {"SwitchXH"}

-----------------------------------------------------------------------------

\* A run of a pass is a sequence of equivalent rewrites of the circuit, and it ends, be
\* it in a crash.
ImplementsRewriting == Rewriting!Spec

\* A pass that finds its pattern or does not never takes the process down.
NoCrash == status # "crashed"
=============================================================================
