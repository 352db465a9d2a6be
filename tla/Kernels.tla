------------------------------ MODULE Kernels ------------------------------
(***************************************************************************)
(* A function with its qubits: what the code generators and the graph of a *)
(* kernel read besides the gates, and the support library's counts of      *)
(* qubits and classical bits                                               *)
(* (lib/Support/CodeGen/Quake/QuakeOperations.cpp).                        *)
(***************************************************************************)
EXTENDS QuakeOps, FiniteSetsExt, SequencesExt

\* A quake.alloca: of one qubit (a !quake.ref) or of a register of size qubits.
Allocas == [reg : STRING, ref : BOOLEAN, size : Nat]

\* The operand of a measurement that is the register itself, a !quake.veq
Whole == -2
IsVeq(w) == w.idx = Whole

Measurements == {"mz", "mx", "my"}
isMeasurement(op) == op.gate \in Measurements

\* What a function is: whether its name has the prefix of the kernels, whether it has
\* the attribute cudaq-kernel, its allocations and its operations.
Function == [prefixed : BOOLEAN, attribute : BOOLEAN,
             allocs : Seq(Allocas), ops : Seq(Op)]

-----------------------------------------------------------------------------

\* Allocations only: the qubits a function is given as arguments do not count.
getNumberOfQubits(func) ==
    MapThenSumSet(LAMBDA i : IF func.allocs[i].ref THEN 1 ELSE func.allocs[i].size,
                  DOMAIN func.allocs)

\* The size of the register an operand is; 0 for a register of unknown size
VeqSize(func, w) ==
    MapThenSumSet(LAMBDA i : IF func.allocs[i].reg = w.reg THEN func.allocs[i].size ELSE 0,
                  DOMAIN func.allocs)

\* What is measured, operand by operand
MeasuredOperands(func) ==
    FlattenSeq([i \in DOMAIN func.ops |->
                  IF isMeasurement(func.ops[i]) THEN func.ops[i].tgts ELSE <<>>])

\* f with the value v at x, which may be new to its domain
Put(f, x, v) == [y \in DOMAIN f \cup {x} |-> IF y = x THEN v ELSE f[y]]

\* Mutant: the size of a register is not added to the count.
CountOperandForRegister(func, count, w) ==
    IF IsVeq(w)
    THEN LET n == count.numBits + VeqSize(func, w)
         IN  [numBits |-> count.numBits,
              measurements |-> [i \in DOMAIN count.measurements \cup 0 .. n - 1 |->
                                  IF i \in 0 .. n - 1 THEN i ELSE count.measurements[i]]]
    ELSE [numBits |-> count.numBits + 1,
          measurements |-> Put(count.measurements,
                               extractIndexFromQuakeExtractRefOp(w), count.numBits)]

\* A qubit takes the next bit; a register adds its size to the count, and then every
\* number below the count becomes the bit of the qubit of that number.
CountOperand(func, count, w) ==
    IF IsVeq(w)
    THEN LET n == count.numBits + VeqSize(func, w)
         IN  [numBits |-> n,
              measurements |-> [i \in DOMAIN count.measurements \cup 0 .. n - 1 |->
                                  IF i \in 0 .. n - 1 THEN i ELSE count.measurements[i]]]
    ELSE [numBits |-> count.numBits + 1,
          measurements |-> Put(count.measurements,
                               extractIndexFromQuakeExtractRefOp(w), count.numBits)]

\* The number of classical bits, and the bit of each measured qubit
getNumberOfClassicalBits(func) ==
    LET measured == MeasuredOperands(func)
        counts[k \in 0 .. Len(measured)] ==
          IF k = 0 THEN [numBits |-> 0, measurements |-> [i \in {} |-> 0]]
          ELSE CountOperand(func, counts[k - 1], measured[k])
    IN  counts[Len(measured)]

\* -1.0 for a parameter that is no constant
getParametersValues(ps) ==
    [i \in DOMAIN ps |-> extractDoubleArgumentValue(ps[i])]
=============================================================================
