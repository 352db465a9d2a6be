---------------------------- MODULE QasmToQuake -----------------------------
(***************************************************************************)
(* The QASM 3 front end: the pass convert-qasm3-to-quake on one function   *)
(* (lib/Passes/CodeGen/QASM3ToQuake.cpp), with the functions it calls      *)
(* (lib/Interfaces/QASMToQuake.cpp) and the gate table (GateTable).        *)
(*                                                                         *)
(* A program is the sequence of statements the parser returns              *)
(* (QasmPrograms).                                                         *)
(*                                                                         *)
(* The builder inserts everything before the return of the function, in    *)
(* the order of the calls; ops is what stands there, without the           *)
(* quake.extract_ref and arith.constant operations (QuakeOps).             *)
(***************************************************************************)
EXTENDS GateTable, QasmPrograms

CONSTANTS Programs,    \* what the input stream may hold when the pass reads it
          Builds       \* are asserts compiled in?  {TRUE}, {FALSE} or both

ASSUME QasmToQuakeAssumption ==
    Builds \subseteq BOOLEAN /\ \A prog \in Programs : IsProgram(prog)

VARIABLES program,           \* the statements parsed from the stream
          asserts,           \* the build that runs
          measureAllQubits,  \* the parameter of the pass
          function,          \* what the pass runs on: "kernel", "declaration" (of a
                             \* kernel, without a body) or "other"
          veqs,              \* the registers allocated, in order: <<name, size>>
          pc,                \* the statement the loop over the program is at
          ops,               \* the operations inserted before the return
          status

vars == <<program, asserts, measureAllQubits, function, veqs, pc, ops, status>>
input == <<program, asserts, measureAllQubits, function>>

-----------------------------------------------------------------------------

Init ==
    /\ program \in Programs
    /\ asserts \in Builds
    /\ measureAllQubits \in BOOLEAN
    /\ function \in {"kernel", "declaration", "other"}
    /\ veqs = <<>>
    /\ pc = 1
    /\ ops = <<>>
    /\ status = "entered"

\* The process ends: by an assertion (a release build goes on as if it held), or by the
\* exception of a map that is asked for a register it does not have.
Abort == status' = "aborted" /\ UNCHANGED <<veqs, pc, ops>>

\* Mutant: a register without a size is allocated too.
AllocateWithoutDesignator(prog) ==
    LET declared == Among(prog, {s \in ToSet(prog) : s.kind = "qubit"})
    IN  [i \in DOMAIN declared |-> <<declared[i].name, declared[i].size>>]

\* The registers that are declared with a constant size.
insertAllocatedQubits(prog) ==
    LET declared == Among(prog, {s \in ToSet(prog) : s.kind = "qubit" /\ s.size # None})
        totalQubits == FoldLeft(LAMBDA n, s : n + s.size, 0, declared)
    IN  IF totalQubits = 0 THEN <<>>
        ELSE [i \in DOMAIN declared |-> <<declared[i].name, declared[i].size>>]

\* A function that is no kernel, or a program that declares no qubits: nothing is done.
\* Of a kernel without a body the pass looks for the return and reads a pointer that
\* was never set.
Allocate ==
    /\ status = "entered"
    /\ LET registers == insertAllocatedQubits(program)
       IN  \/ /\ function = "other" \/ registers = <<>>
              /\ status' = "done"
              /\ veqs' = <<>>
           \/ /\ function = "kernel" /\ registers # <<>>
              /\ status' = "gates"
              /\ veqs' = registers
           \/ /\ function = "declaration" /\ (asserts \/ registers # <<>>)
              /\ status' = "aborted"
              /\ veqs' = <<>>
    /\ UNCHANGED <<input, pc, ops>>

\* The controls of a gate call.  What a ctrl modifier says is stored in a variable
\* that shadows the outer one and is lost, and the other modifiers are not looked at.
ControlsOf(call) == IF isMultiQubitGate(call.id) THEN getNumControls(call.id) ELSE 0

Allocated(name) == \E i \in DOMAIN veqs : veqs[i][1] = name

insertGate ==
    /\ status = "gates"
    /\ pc \in DOMAIN program
    /\ program[pc].kind = "gate"
    /\ LET call == program[pc]
           n == ControlsOf(call)
           params == [i \in DOMAIN call.params |-> createFloatValue(call.params[i])]
           ctrls == SubSeq(call.operands, 1, n)
           tgts == SubSeq(call.operands, n + 1, Len(call.operands))
       IN  IF \/ \E i \in DOMAIN call.operands :
                   (asserts /\ call.operands[i].idx = None) \/ ~ Allocated(call.operands[i].reg)
              \/ asserts /\ ~ AssertsHold(call.id, params, ctrls, tgts)
           THEN Abort
           ELSE /\ ops' = ops \o insertQASMGateIntoQuakeModule(call.id, params, ctrls, tgts)
                /\ pc' = pc + 1
                /\ UNCHANGED <<veqs, status>>
    /\ UNCHANGED input

\* The loop over the program looks at gate calls only.
SkipStatement ==
    /\ status = "gates"
    /\ pc \in DOMAIN program
    /\ program[pc].kind # "gate"
    /\ pc' = pc + 1
    /\ UNCHANGED <<input, veqs, ops, status>>

-----------------------------------------------------------------------------
(* Measurements *)

Measure(wires) == Operation("mz", FALSE, <<>>, <<>>, wires)

\* The pass inserted its last operation.  MLIR verifies the function then: gates have
\* their number of targets, and an index lies in its register.
Targets(gate) == IF gate = "swap" THEN 2 ELSE 1
InRegister(w) == \E i \in DOMAIN veqs : veqs[i][1] = w.reg /\ w.idx \in 0 .. veqs[i][2] - 1
Verified(op) ==
    /\ isOperator(op) => Len(op.tgts) = Targets(op.gate)
    /\ \A w \in ToSet(op.ctrls) \cup ToSet(op.tgts) : InRegister(w)

Finish(measurements) ==
    /\ ops' = ops \o measurements
    /\ status' = IF \A i \in DOMAIN ops' : Verified(ops'[i]) THEN "done" ELSE "rejected"
    /\ UNCHANGED <<veqs, pc>>

\* One measurement for each register, in the order of declaration.
MeasureAll ==
    /\ status = "gates"
    /\ pc \notin DOMAIN program
    /\ measureAllQubits
    /\ Finish([i \in DOMAIN veqs |->
                 Measure([k \in 1 .. veqs[i][2] |-> [reg |-> veqs[i][1], idx |-> k - 1]])])
    /\ UNCHANGED input

\* Mutant: the qubits measured, in the order of the program.
MeasuredQubitsByStatement(prog) ==
    LET assigned == Among(prog, {s \in ToSet(prog) : s.kind = "measure" /\ s.from.idx # None})
    IN  [i \in DOMAIN assigned |-> assigned[i].from]

\* The std::map from the index of a classical bit to the qubit it gets, in the order
\* of the indices: a bit keeps the first qubit it is given, whatever its register.  A
\* qubit without an index is passed over; a bit without one is bit 0 in a release build.
MeasuredQubits(prog) ==
    LET assigned == Among(prog, {s \in ToSet(prog) : s.kind = "measure" /\ s.from.idx # None})
        BitOf(s) == IF s.bit = None THEN 0 ELSE s.bit
        bits == {BitOf(assigned[i]) : i \in DOMAIN assigned}
        FirstWith(b) == SelectInSeq(assigned, LAMBDA s : BitOf(s) = b)
        sorted == CHOOSE s \in [1 .. Cardinality(bits) -> bits] :
                    \A i, j \in DOMAIN s : i < j => s[i] < s[j]
    IN  [i \in DOMAIN sorted |-> assigned[FirstWith(sorted[i])].from]

parseAndInsertMeasurements ==
    /\ status = "gates"
    /\ pc \notin DOMAIN program
    /\ ~ measureAllQubits
    /\ LET measured == MeasuredQubits(program)
       IN  IF \/ asserts /\ \E i \in DOMAIN program :
                             program[i].kind = "measure" /\ program[i].bit = None
              \/ \E i \in DOMAIN measured : ~ Allocated(measured[i].reg)
           THEN Abort
           ELSE Finish([i \in DOMAIN measured |-> Measure(<<measured[i]>>)])
    /\ UNCHANGED input

Next ==
    \/ Allocate
    \/ insertGate
    \/ SkipStatement
    \/ MeasureAll
    \/ parseAndInsertMeasurements

Spec == Init /\ [][Next]_vars /\ WF_vars(Next)

-----------------------------------------------------------------------------

\* Every variable has its type; in particular, what is inserted are operations of Quake.
TypeOK ==
    /\ program \in Programs
    /\ asserts \in Builds
    /\ measureAllQubits \in BOOLEAN
    /\ function \in {"kernel", "declaration", "other"}
    /\ veqs \in Seq(STRING \X Nat)
    /\ pc \in 1 .. Len(program) + 1
    /\ ops \in Seq([gate : Gates \cup {"mz"}, adj : BOOLEAN, params : Seq(Params),
                    ctrls : Seq(Operand), tgts : Seq(Operand)])
    /\ status \in {"entered", "gates", "done", "rejected", "aborted"}

\* A call without modifiers of a gate of the library on single qubits that are there, and
\* one of a gate that the table has
Untranslated ==
    DOMAIN Signature \ (OneOperationGates \cup DOMAIN SequenceArity \cup {"id", "rccx"})
Ordinary(call) ==
    /\ call.mods = <<>>
    /\ call.id \in DOMAIN Signature
    /\ \A i \in DOMAIN call.operands : InRegister(call.operands[i])
Supported(call) == Ordinary(call) /\ call.id \notin Untranslated

\* The pass gives up on a kernel only at a gate that the table does not have, or has only
\* as unsupported: the controls a gate is given by its name are those its entry asserts.
AbortsOnUnsupported ==
    status = "aborted" /\ function = "kernel" /\ pc \in DOMAIN program
      => program[pc].kind = "gate" /\ ~ Supported(program[pc])

\* The measurements of a program come out as mz operations, one for each bit that is assigned,
\* in the order of the bits, if no two have one number (with two classical registers the
\* second bit 0 would be lost); or all qubits are measured, in the order of declaration.
ResultsOfBits ==
    LET statements == {s \in ToSet(program) : s.kind = "measure"}
        Measured == Among(ops, {op \in ToSet(ops) : op.gate = "mz"})
        order == {f \in [DOMAIN Measured -> statements] :
                    \A i, j \in DOMAIN f : i < j => f[i].bit < f[j].bit}
        allQubits == FlattenSeq([i \in DOMAIN veqs |->
                       [k \in 1 .. veqs[i][2] |-> [reg |-> veqs[i][1], idx |-> k - 1]]])
    IN  status = "done" /\ veqs # <<>> =>
          IF measureAllQubits
          THEN FlattenSeq([i \in DOMAIN Measured |-> Measured[i].tgts]) = allQubits
          ELSE (\A s, t \in statements :
                  /\ s.bit # None /\ s.from.idx # None
                  /\ s.bit = t.bit => s = t)
                => /\ Len(Measured) = Cardinality(statements)
                   /\ \E f \in order : \A i \in DOMAIN f : Measured[i].tgts = <<f[i].from>>
=============================================================================
