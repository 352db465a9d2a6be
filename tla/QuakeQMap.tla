----------------------------- MODULE QuakeQMap -----------------------------
(***************************************************************************)
(* The pass quake-to-qmap-pass on one function                             *)
(* (lib/Passes/Transforms/QuakeQMap.cpp).  It loads the kernel into a      *)
(* circuit of the QMAP library, has QMAP map that to a device, clears the  *)
(* function and fills it with the mapped circuit.  QMAP is an external     *)
(* library; it is given here as any placement of the kernel's qubits, any  *)
(* SWAPs that bring the two qubits of a gate together, and any order of    *)
(* the gates that keeps those on one qubit in theirs.                      *)
(***************************************************************************)
EXTENDS Kernels

CONSTANTS Inputs,       \* the functions that may be given
          DeviceQubits, \* how many qubits the device has
          Coupling,     \* the pairs of them a gate can act on
          MaxSwaps,     \* the most SWAPs QMAP inserts before a gate
          Builds        \* may assertions be checked (TRUE), or not (FALSE)?

ASSUME QuakeQMapAssumption ==
    /\ DeviceQubits \in Nat \ {0} /\ MaxSwaps \in Nat
    /\ Coupling \subseteq (0 .. DeviceQubits - 1) \X (0 .. DeviceQubits - 1)
    /\ \A e \in Coupling : e[1] # e[2] /\ <<e[2], e[1]>> \in Coupling
    /\ Builds \subseteq BOOLEAN
    /\ \A f \in Inputs : f \in Function /\ getNumberOfQubits(f) \in 1 .. DeviceQubits

\* What the dialect asks of the operations that are loaded: a rotation has an angle and the
\* others none, a gate has one target, a measurement has targets only.
ASSUME OperandsAssumption ==
    \A f \in Inputs : \A k \in DOMAIN f.ops : LET op == f.ops[k] IN
      /\ op.gate \in {"rx", "ry", "rz"} => Len(op.params) = 1
      /\ op.gate \in {"x", "y", "z", "s", "t", "h"} \cup Measurements => op.params = <<>>
      /\ op.gate \in Gates \ {"swap"} => Len(op.tgts) = 1
      /\ isMeasurement(op) => op.ctrls = <<>> /\ op.tgts # <<>>

VARIABLES input,        \* the function as it was given
          debug,        \* the build
          pc,           \* where in runOnOperation
          next,         \* the operation the walk or the loop meets next
          classical,    \* the count of bits, and the bit of each measured qubit
          qc,           \* the circuit that is loaded
          layout,       \* where QMAP put each qubit at the beginning
          place,        \* where it is now
          unmapped,     \* the gates of the circuit the mapper has left, in their order
          qcMapped,     \* the circuit that is mapped
          circuit       \* the function

vars == <<input, debug, pc, next, classical, qc, layout, place, unmapped, qcMapped, circuit>>

-----------------------------------------------------------------------------
(* Loading: which gates of QMAP an operation becomes, and whether assertions hold *)

QcGate(type, params, ctrls, tgts) ==
    [type |-> type, params |-> params, ctrls |-> ctrls, tgts |-> tgts, bits |-> <<>>]
Measure(qubit, bit) ==
    [type |-> "measure", params |-> <<>>, ctrls |-> <<>>, tgts |-> <<qubit>>, bits |-> <<bit>>]
Barrier == QcGate("barrier", <<>>, <<>>, <<>>)

Loads(assertion, gates) == [assertion |-> assertion, gates |-> gates]

\* The operands behind the parameters
Qubits(op) == getIndicesOfValueRange(op.ctrls \o op.tgts)

\* Mutant: the angle that marks an ill-formed rotation is 0.
loadRotationGatesNonZero(op) ==
    LET angle == extractDoubleArgumentValue(op.params[1])
        qubit == Qubits(op)[1]
    IN  Loads(Len(Qubits(op)) = 1 /\ angle # 0 /\ qubit # -1,
              <<QcGate(op.gate, <<angle>>, <<>>, <<qubit>>)>>)

\* The second operand of two is the qubit: of a controlled rotation it is the control.
loadRotationGatesToQC(op) ==
    LET angle == extractDoubleArgumentValue(op.params[1])
        qubit == Qubits(op)[1]
    IN  Loads(Len(Qubits(op)) = 1 /\ angle # MinusOneRadian /\ qubit # -1,
              <<QcGate(op.gate, <<angle>>, <<>>, <<qubit>>)>>)

\* Mutant: the first of two operands is the target.
loadXYZGatesTargetFirst(op) ==
    LET is == Qubits(op)
    IN  CASE Len(is) = 2 ->
               Loads(-1 \notin Range(is), <<QcGate(op.gate, <<>>, <<is[2]>>, <<is[1]>>)>>)
          [] Len(is) = 1 -> Loads(is[1] # -1, <<QcGate(op.gate, <<>>, <<>>, is)>>)
          [] OTHER -> Loads(TRUE, <<>>)

\* Two operands are a control and a target; of more operands nothing is loaded.
loadXYZGatesToQC(op) ==
    LET is == Qubits(op)
    IN  CASE Len(is) = 2 ->
               Loads(-1 \notin Range(is), <<QcGate(op.gate, <<>>, <<is[1]>>, <<is[2]>>)>>)
          [] Len(is) = 1 -> Loads(is[1] # -1, <<QcGate(op.gate, <<>>, <<>>, is)>>)
          [] OTHER -> Loads(TRUE, <<>>)

\* A controlled gate is not loaded, and an adjoint one is loaded as if it were not.
loadSTHGatesToQC(op) ==
    LET is == Qubits(op)
    IN  IF Len(is) = 1 THEN Loads(is[1] # -1, <<QcGate(op.gate, <<>>, <<>>, is)>>)
        ELSE Loads(TRUE, <<>>)

\* One operand is looked at: a qubit, or a register, for which all qubits of the circuit
\* are measured, behind a barrier and into bits of their own.
loadMeasurementsToQC(op, func, count) ==
    LET w == op.tgts[1]
        n == getNumberOfQubits(func)
    IN  Loads(Len(op.tgts) = 1 /\ w.idx # -1,
              IF IsVeq(w)
              THEN <<Barrier>> \o [i \in 1 .. n |-> Measure(i - 1, count.numBits + i - 1)]
              ELSE <<Measure(w.idx, count.measurements[w.idx])>>)

\* The four loaders one after the other; each looks at other operations.
Loaded(op, func, count) ==
    CASE op.gate \in {"rx", "ry", "rz"} -> loadRotationGatesToQC(op)
      [] op.gate \in {"x", "y", "z"} -> loadXYZGatesToQC(op)
      [] op.gate \in {"s", "t", "h"} -> loadSTHGatesToQC(op)
      [] isMeasurement(op) -> loadMeasurementsToQC(op, func, count)
      [] OTHER -> Loads(TRUE, <<>>)

\* The qubits of a gate
On(g) == Range(g.ctrls) \cup Range(g.tgts)

\* QMAP's circuit throws for a qubit it does not have.
InCircuit(g, func) ==
    On(g) \subseteq 0 .. getNumberOfQubits(func) - 1

-----------------------------------------------------------------------------
(* Mapping and building *)

\* A gate on the qubits where its own are now
OnDevice(g, at) == [g EXCEPT !.ctrls = [k \in DOMAIN g.ctrls |-> at[g.ctrls[k]]],
                             !.tgts = [k \in DOMAIN g.tgts |-> at[g.tgts[k]]]]

Executable(g) == \A a, b \in On(g) : a # b => <<a, b>> \in Coupling

\* May the gate at place k be mapped next?  The gates before it are on other qubits.
\* (Whether QMAP heeds a barrier is left open: the loop that builds skips it.)
IsFree(gates, k) == \A j \in 1 .. k - 1 : On(gates[j]) \cap On(gates[k]) = {}

\* Where the qubits are after a SWAP
Swapped(at, e) == [i \in DOMAIN at |-> CASE at[i] = e[1] -> e[2]
                                         [] at[i] = e[2] -> e[1]
                                         [] OTHER -> at[i]]

\* and after some SWAPs, one after the other
PlacesAfter(at, swaps) ==
    LET places[k \in 0 .. Len(swaps)] ==
          IF k = 0 THEN at ELSE Swapped(places[k - 1], swaps[k])
    IN  places[Len(swaps)]

Swaps == UNION {[1 .. n -> Coupling] : n \in 0 .. MaxSwaps}

\* References into the register the pass allocates
ExtractRefs(is) == [k \in DOMAIN is |-> [reg |-> "mapped", idx |-> is[k]]]

\* Mutant: SWAPs are not converted back.
convertedBackWithoutSwap(g) ==
    CASE g.type \in {"barrier", "swap"} -> <<>>
      [] g.type = "measure" -> <<Operation("mz", FALSE, <<>>, <<>>, ExtractRefs(g.tgts))>>
      [] OTHER -> <<Operation(g.type, FALSE, [k \in DOMAIN g.params |-> createFloatValue(g.params[k])],
                              ExtractRefs(g.ctrls), ExtractRefs(g.tgts))>>

\* What a gate of the mapped circuit becomes: every gate without an adjoint, every
\* measurement in the basis of z.
convertedBack(g) ==
    CASE g.type = "barrier" -> <<>>
      [] g.type = "measure" -> <<Operation("mz", FALSE, <<>>, <<>>, ExtractRefs(g.tgts))>>
      [] OTHER -> <<Operation(g.type, FALSE, [k \in DOMAIN g.params |-> createFloatValue(g.params[k])],
                              ExtractRefs(g.ctrls), ExtractRefs(g.tgts))>>

-----------------------------------------------------------------------------

Init ==
    /\ input \in Inputs
    /\ debug \in Builds
    /\ pc = "begin"
    /\ next = 1
    /\ classical = [numBits |-> 0, measurements |-> <<>>]
    /\ qc = <<>> /\ unmapped = <<>> /\ qcMapped = <<>>
    /\ layout = <<>> /\ place = <<>>
    /\ circuit = input

\* runOnOperation up to the walk; a function that is no kernel is left alone.  The count
\* of bits asserts that what is measured has an index.
Begin ==
    /\ pc = "begin"
    /\ CASE ~ input.prefixed -> pc' = "done" /\ UNCHANGED classical
         [] input.prefixed /\ debug /\ -1 \in {w.idx : w \in Range(MeasuredOperands(circuit))} ->
              pc' = "crashed" /\ UNCHANGED classical
         [] OTHER -> pc' = "load" /\ classical' = getNumberOfClassicalBits(circuit)
    /\ UNCHANGED <<input, debug, next, qc, layout, place, unmapped, qcMapped, circuit>>

\* The callback of the walk
LoadGate ==
    /\ pc = "load"
    /\ next \in DOMAIN circuit.ops
    /\ LET loaded == Loaded(circuit.ops[next], circuit, classical)
       IN  IF /\ debug => loaded.assertion
              /\ \A k \in DOMAIN loaded.gates : InCircuit(loaded.gates[k], circuit)
           THEN /\ qc' = qc \o loaded.gates
                /\ next' = next + 1
                /\ UNCHANGED pc
           ELSE pc' = "crashed" /\ UNCHANGED <<qc, next>>
    /\ UNCHANGED <<input, debug, classical, layout, place, unmapped, qcMapped, circuit>>

\* Mutant: the function is cleared before it is mapped.
PlaceQubitsCleared ==
    /\ pc = "load"
    /\ next = Len(circuit.ops) + 1
    /\ \E at \in [0 .. getNumberOfQubits(circuit) - 1 -> 0 .. DeviceQubits - 1] :
         /\ IsInjective(at)
         /\ layout' = at /\ place' = at
    /\ pc' = "map" /\ unmapped' = qc
    /\ circuit' = [circuit EXCEPT !.ops = <<>>]
    /\ UNCHANGED <<input, debug, next, classical, qc, qcMapped>>

\* The mapper places the qubits, and begins with all gates of the circuit.
PlaceQubits ==
    /\ pc = "load"
    /\ next = Len(circuit.ops) + 1
    /\ \E at \in [0 .. getNumberOfQubits(circuit) - 1 -> 0 .. DeviceQubits - 1] :
         /\ IsInjective(at)
         /\ layout' = at /\ place' = at
    /\ pc' = "map" /\ unmapped' = qc
    /\ UNCHANGED <<input, debug, next, classical, qc, qcMapped, circuit>>

\* The mapper maps one of the gates it may map next, after SWAPs perhaps as long as a gate
\* on two qubits is left.
MapGate ==
    /\ pc = "map"
    /\ \E k \in DOMAIN unmapped, swaps \in Swaps :
         LET at == PlacesAfter(place, swaps)
             gate == OnDevice(unmapped[k], at)
         IN  /\ IsFree(unmapped, k)
             /\ (\A g \in Range(unmapped) : g.ctrls = <<>>) => swaps = <<>>
             /\ Executable(gate)
             /\ place' = at
             /\ unmapped' = RemoveAt(unmapped, k)
             /\ qcMapped' = qcMapped
                  \o [i \in DOMAIN swaps |-> QcGate("swap", <<>>, <<>>, swaps[i])]
                  \o <<gate>>
    /\ UNCHANGED <<input, debug, pc, next, classical, qc, layout, circuit>>

\* Mutant: the old operations stay.
ClearNothing ==
    /\ pc = "map"
    /\ unmapped = <<>>
    /\ circuit' = [circuit EXCEPT
         !.allocs = <<[reg |-> "mapped", ref |-> FALSE, size |-> getNumberOfQubits(circuit)]>>]
    /\ pc' = "build" /\ next' = 1
    /\ UNCHANGED <<input, debug, classical, qc, layout, place, unmapped, qcMapped>>

\* The function is cleared and gets one register, of as many qubits as it had.
Clear ==
    /\ pc = "map"
    /\ unmapped = <<>>
    /\ circuit' = [circuit EXCEPT
         !.allocs = <<[reg |-> "mapped", ref |-> FALSE, size |-> getNumberOfQubits(circuit)]>>,
         !.ops = <<>>]
    /\ pc' = "build" /\ next' = 1
    /\ UNCHANGED <<input, debug, classical, qc, layout, place, unmapped, qcMapped>>

\* One turn of the loop over the mapped circuit
BuildGate ==
    /\ pc = "build"
    /\ next \in DOMAIN qcMapped
    /\ circuit' = [circuit EXCEPT !.ops = @ \o convertedBack(qcMapped[next])]
    /\ next' = next + 1
    /\ UNCHANGED <<input, debug, pc, classical, qc, layout, place, unmapped, qcMapped>>

\* The return is created.
Return ==
    /\ pc = "build"
    /\ next = Len(qcMapped) + 1
    /\ pc' = "done"
    /\ UNCHANGED <<input, debug, next, classical, qc, layout, place, unmapped, qcMapped, circuit>>

Next == Begin \/ LoadGate \/ PlaceQubits \/ MapGate \/ Clear \/ BuildGate \/ Return

\* One thread, straight through
Spec == Init /\ [][Next]_vars /\ WF_vars(Next)

-----------------------------------------------------------------------------

\* The gates of a circuit of QMAP
QcGates == [type : Gates \cup {"barrier", "measure"}, params : Seq(Int),
            ctrls : Seq(Int), tgts : Seq(Int), bits : Seq(Nat)]

\* Every variable has its type; gates are on qubits of the circuit they are in, and the
\* function is the input until it is cleared.
TypeOK ==
    /\ input \in Inputs /\ debug \in Builds
    /\ pc \in {"begin", "load", "map", "build", "done", "crashed"}
    /\ next \in Nat \ {0}
    /\ classical.numBits \in Nat
    /\ qc \in Seq(QcGates) /\ unmapped \in Seq(QcGates) /\ qcMapped \in Seq(QcGates)
    /\ \A k \in DOMAIN qc : InCircuit(qc[k], input)
    /\ \A k \in DOMAIN unmapped : InCircuit(unmapped[k], input)
    /\ \A k \in DOMAIN qcMapped : On(qcMapped[k]) \subseteq 0 .. DeviceQubits - 1
    /\ DOMAIN place = DOMAIN layout
    /\ \A i \in DOMAIN place : {place[i], layout[i]} \subseteq 0 .. DeviceQubits - 1
    /\ pc \in {"begin", "load", "map", "crashed"} => circuit = input

\* What the pass says it covers: a rotation of a qubit by a constant, x, y and z with a
\* control at most, s, t and h without one, and the measurement of a qubit or of all.
\* (That a gate is the adjoint is not loaded; x, y, z and h are their own.)
Covered(op, func) ==
    /\ Range(Qubits(op)) \subseteq (0 .. getNumberOfQubits(func) - 1) \cup {Whole}
    /\ Whole \in Range(Qubits(op)) => op.gate = "mz"
    /\ \/ op.gate \in {"rx", "ry", "rz"} /\ op.ctrls = <<>> /\ ~ op.adj
            /\ extractDoubleArgumentValue(op.params[1]) # MinusOneRadian
       \/ op.gate \in {"x", "y", "z"} /\ Len(op.ctrls) <= 1
       \/ op.gate \in {"s", "t", "h"} /\ op.ctrls = <<>> /\ ~ op.adj
       \/ op.gate = "mz" /\ Len(op.tgts) = 1

IsCovered(func) ==
    Len(func.allocs) = 1 /\ \A k \in DOMAIN func.ops : Covered(func.ops[k], func)

\* An operation with qubits for wires
Bare(op, ctrls, tgts) ==
    [gate |-> op.gate, params |-> getParametersValues(op.params), ctrls |-> ctrls, tgts |-> tgts]

\* What a covered kernel does, operation by operation
Does(func) ==
    FlattenSeq([k \in DOMAIN func.ops |->
        LET op == func.ops[k]
        IN  IF IsVeq(op.tgts[1])
            THEN [i \in 1 .. getNumberOfQubits(func) |-> Bare(op, <<>>, <<i - 1>>)]
            ELSE <<Bare(op, getIndicesOfValueRange(op.ctrls), getIndicesOfValueRange(op.tgts))>>])

\* The same of a mapped function, whose qubits have been moved by the swaps so far (-1
\* for a place where no qubit is)
Back(at, is) ==
    [k \in DOMAIN is |-> IF \E i \in DOMAIN at : at[i] = is[k]
                         THEN CHOOSE i \in DOMAIN at : at[i] = is[k] ELSE -1]
Undo(state, op) ==
    LET c == getIndicesOfValueRange(op.ctrls)
        t == getIndicesOfValueRange(op.tgts)
    IN  IF op.gate = "swap" THEN [state EXCEPT !.at = Swapped(@, t)]
        ELSE [state EXCEPT !.does = Append(@, Bare(op, Back(state.at, c), Back(state.at, t)))]
Undone(at, mapped) ==
    LET states[k \in 0 .. Len(mapped)] ==
          IF k = 0 THEN [at |-> at, does |-> <<>>] ELSE Undo(states[k - 1], mapped[k])
    IN  states[Len(mapped)]
DoesMapped == Undone(layout, circuit.ops).does

\* The operations on a qubit
Bares == [gate : Gates \cup NonGates, params : Seq(Int), ctrls : Seq(Int), tgts : Seq(Int)]
OnQubit(q) == {op \in Bares : q \in On(op)}

\* A covered kernel comes out with all its operations on the qubits they were on,
\* wherever the mapper has put and moved these: what is done to a qubit is done in the
\* order of the kernel, and operations on different qubits may have changed places.
\* (-1 is where no qubit is.)
MappedKeepsKernel ==
    pc = "done" /\ input.prefixed /\ IsCovered(input) =>
      \A q \in -1 .. getNumberOfQubits(input) - 1 :
        Among(DoesMapped, OnQubit(q)) = Among(Does(input), OnQubit(q))

\* What is built can run on the device: a gate on two qubits has a coupled pair, and the
\* qubits are there in the register that was allocated.  (On a device larger than the
\* kernel they need not be: the register has the size of the kernel.)
FitsDevice ==
    pc = "done" /\ input.prefixed =>
      \A k \in DOMAIN circuit.ops :
        LET is == Range(Qubits(circuit.ops[k]))
        IN  /\ \A a, b \in is : a # b => <<a, b>> \in Coupling
            /\ getNumberOfQubits(input) = DeviceQubits =>
                 is \subseteq 0 .. getNumberOfQubits(circuit) - 1

\* Is all that is measured of the one register the function allocates?
MeasuresItsRegister(func) ==
    /\ Len(func.allocs) = 1
    /\ \A w \in Range(MeasuredOperands(func)) :
         w.reg = func.allocs[1].reg /\ (IsVeq(w) \/ w.idx \in 0 .. func.allocs[1].size - 1)

\* Then a qubit measured by itself has a bit below the count, and no two of them share
\* theirs, whatever else is measured before and behind.
MeasurementsHaveBits ==
    pc \notin {"begin", "crashed"} /\ input.prefixed /\ MeasuresItsRegister(input) =>
      \A v, w \in {u \in Range(MeasuredOperands(input)) : ~ IsVeq(u)} :
        /\ classical.measurements[v.idx] \in 0 .. classical.numBits - 1
        /\ v # w => classical.measurements[v.idx] # classical.measurements[w.idx]

\* The pass comes to its end on every covered kernel, in a debug build as well.
CoveredKernelsReturn == IsCovered(input) ~> (pc = "done")
=============================================================================
