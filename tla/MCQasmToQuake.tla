--------------------------- MODULE MCQasmToQuake ----------------------------
(* Programs for QasmToQuake, and the properties that hold its output against them. *)
EXTENDS QasmToQuake, QasmMeaning

q0 == [reg |-> "q", idx |-> 0]
q1 == [reg |-> "q", idx |-> 1]
r0 == [reg |-> "r", idx |-> 0]
wholeQ == [reg |-> "q", idx |-> None]
ThreeWires == {q0, q1, r0}

Qubit(name, size) == [kind |-> "qubit", name |-> name, size |-> size]
Call(id, params, operands) ==
    [kind |-> "gate", id |-> id, params |-> params, operands |-> operands, mods |-> <<>>]
With(mod, call) == [call EXCEPT !.mods = <<mod>>]
MeasureInto(creg, bit, from) == [kind |-> "measure", creg |-> creg, bit |-> bit, from |-> from]
Barrier == [kind |-> "other"]
Declarations == <<Qubit("q", 2), Qubit("r", 1)>>

\* Operands without repetition; an angle for each parameter.
Operands(n) == {t \in [1 .. n -> ThreeWires] : IsInjective(t)}
Parameters(n) ==
    CASE n = 0 -> {<<>>}
      [] n = 1 -> {<<4>>, <<8>>, <<-4>>}
      [] n = 2 -> {<<4, 8>>, <<-4, 4>>, <<8, -4>>}
      [] n = 3 -> {<<4, 8, -4>>, <<12, -4, 4>>, <<8, 4, 8>>}

CallsOf(ids) ==
    UNION {{Call(id, a, t) : a \in Parameters(Signature[id][1]),
                             t \in Operands(Signature[id][2] + Signature[id][3])} : id \in ids}

\* Every gate of the standard library, alone on every choice of operands.
SingleCalls == {Append(Declarations, call) : call \in CallsOf(DOMAIN Signature)}

\* A few gates one after the other, with measurements behind them.
Pairs ==
    {Declarations \o <<c, Barrier, d>> \o m :
        c \in CallsOf({"h", "dcx"}), d \in CallsOf({"t", "cz"}),
        m \in {<<>>, <<MeasureInto("c", 0, q0)>>,
               <<MeasureInto("c", 1, q0), MeasureInto("d", 0, r0)>>,
               <<MeasureInto("c", 2, q1), MeasureInto("c", 1, q0), MeasureInto("c", 0, q1)>>}}

\* What the front end does not translate, and what is no valid program.
Odd ==
    {Declarations \o <<c>> :
        c \in {With("inv", Call("s", <<>>, <<q0>>)), With("ctrl", Call("x", <<>>, <<q0, q1>>)),
               With("ctrl", Call("cx", <<>>, <<q0, q1, r0>>)), Call("teleport", <<>>, <<q0, q1, r0>>),
               Call("x", <<>>, <<wholeQ>>), MeasureInto("c", None, wholeQ), MeasureInto("c", 0, wholeQ)}}
    \cup {<<>>, <<Qubit("q", None), Call("x", <<>>, <<wholeQ>>)>>,
          <<Qubit("q", None), Qubit("r", 1), Call("x", <<>>, <<wholeQ>>)>>,
          <<Qubit("r", 1), Call("x", <<>>, <<q0>>)>>,
          <<Qubit("r", 1), Call("x", <<>>, <<[reg |-> "r", idx |-> 1]>>)>>}

AllPrograms == SingleCalls \cup Pairs \cup Odd

-----------------------------------------------------------------------------

Calls(prog) == Among(prog, {s \in ToSet(prog) : s.kind = "gate"})

\* Whatever gate calls the loop has behind it, what it inserted does to the qubits what they
\* do, up to a global phase - for gates without modifiers, on single qubits; in a release
\* build, for gates the table has.  The passes' own test of it compares a set of
\* benchmark circuits (tests/testQASMParser.cpp).
GatesFaithful ==
    LET behind == Calls(SubSeq(program, 1, pc - 1))
    IN  /\ status = "gates"
        /\ \A i \in DOMAIN behind :
             Ordinary(behind[i]) /\ (asserts \/ Supported(behind[i]))
        => \E quake \in {QuakeCircuit(ops)}, qasm \in {QasmCircuit(behind)} :
             SameUpToPhase(quake, qasm)
=============================================================================
