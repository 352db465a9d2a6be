--------------------------- MODULE QuakeToLinAlg ---------------------------
(***************************************************************************)
(* The pass convert-quake-to-linalg (lib/Passes/CodeGen/QuakeToLinAlg.cpp, *)
(* lib/Interfaces/InlineGatesToArithLinAlg.cpp): for each kernel of a      *)
(* module a function that multiplies a state vector with one matrix per    *)
(* gate.  The matrices are returned by functions that are declared only,   *)
(* one declaration per name.                                               *)
(*                                                                         *)
(* The numbers are left out, the vector the product begins with (all       *)
(* zeros) among them: a value is known by the multiplication it is the     *)
(* result of.                                                              *)
(***************************************************************************)
EXTENDS Kernels

CONSTANT Modules      \* the modules that may be given: sequences of functions

\* A gate's name says how many parameters it has.
ASSUME QuakeToLinAlgAssumption ==
    \A m \in Modules :
      /\ m \in Seq(Function)
      /\ \A f \in DOMAIN m : Len(m[f].ops) <= MaxOps /\ getNumberOfQubits(m[f]) \in Nat
      /\ \A f, g \in DOMAIN m : \A i \in DOMAIN m[f].ops, j \in DOMAIN m[g].ops :
           m[f].ops[i].gate = m[g].ops[j].gate
             => Len(m[f].ops[i].params) = Len(m[g].ops[j].params)

VARIABLES module,        \* the module as it was given
          present,       \* the functions of it that have not been erased
          inserted,      \* the functions inserted in front of them, the newest first
          func,          \* the function the loop over the module is at
          next,          \* the operation of it the walk meets next, 0 outside a walk
          state,         \* the value that is the state vector, in the function being built
          body,          \* the multiplications of the function built for each kernel
          result,        \* the value it returns
          quakeKernels   \* the kernels that have been converted

vars == <<module, present, inserted, func, next, state, body, result, quakeKernels>>

-----------------------------------------------------------------------------
(* Functions of the module that the pass makes *)

GpuFunction(f) == [kind |-> "gpu", of |-> f]
Declaration(name, parameters, qubits) ==
    [kind |-> "matrix", name |-> name, parameters |-> parameters, qubits |-> qubits]

\* std::to_string of an index of at most two digits
Minus == 10
Digits(i) == IF i < 0 THEN <<Minus, -i>> ELSE IF i < 10 THEN <<i>> ELSE <<i \div 10, i % 10>>
Concatenated(indices) == FlattenSeq([k \in DOMAIN indices |-> Digits(indices[k])])

\* Mutant: controls and targets are written into one list.
FunctionNameFlat(kernel, op) ==
    [gate |-> op.gate, qubits |-> getNumberOfQubits(kernel), control |-> <<>>,
     target |-> Concatenated(getIndicesOfValueRange(op.ctrls \o op.tgts))]

\* Mutant: the number of qubits is no part of the name.
FunctionNameOfGate(kernel, op) ==
    [gate |-> op.gate, qubits |-> 0,
     control |-> Concatenated(getIndicesOfValueRange(op.ctrls)),
     target |-> Concatenated(getIndicesOfValueRange(op.tgts))]

\* The name of a gate's matrix: the indices without separators and without their
\* registers, and nothing of the adjoint.
FunctionName(kernel, op) ==
    [gate |-> op.gate, qubits |-> getNumberOfQubits(kernel),
     control |-> Concatenated(getIndicesOfValueRange(op.ctrls)),
     target |-> Concatenated(getIndicesOfValueRange(op.tgts))]

hasFunc(name) ==
    \E i \in DOMAIN inserted : inserted[i].kind = "matrix" /\ inserted[i].name = name

\* Mutant: a gate gets a declaration whether or not there is one of its name.
inlineFunctionAgain(name, parameters, qubits) ==
    <<Declaration(name, parameters, qubits)>> \o inserted

\* The functions in front after a call of inlineFunction
inlineFunction(name, parameters, qubits) ==
    IF hasFunc(name) THEN inserted
    ELSE <<Declaration(name, parameters, qubits)>> \o inserted

-----------------------------------------------------------------------------

Init ==
    /\ module \in Modules
    /\ present = DOMAIN module
    /\ inserted = <<>>
    /\ func = 1
    /\ next = 0
    /\ state = 0
    /\ body = [f \in DOMAIN module |-> <<>>]
    /\ result = [f \in DOMAIN module |-> 0]
    /\ quakeKernels = <<>>

\* The loop over the module steps over a function that is no kernel.
SkipFunction ==
    /\ next = 0
    /\ func \in DOMAIN module
    /\ ~ module[func].attribute
    /\ func' = func + 1
    /\ UNCHANGED <<module, present, inserted, next, state, body, result, quakeKernels>>

\* Mutant: the value of the state is kept from the kernel before.
BeginKernelWithState ==
    /\ next = 0
    /\ func \in DOMAIN module
    /\ module[func].attribute
    /\ inserted' = <<GpuFunction(func)>> \o inserted
    /\ next' = 1
    /\ UNCHANGED <<module, present, func, state, body, result, quakeKernels>>

\* The function for a kernel goes to the start of the module, where the loop does not
\* meet it, and begins with the initial state.
BeginKernel ==
    /\ next = 0
    /\ func \in DOMAIN module
    /\ module[func].attribute
    /\ inserted' = <<GpuFunction(func)>> \o inserted
    /\ state' = 0
    /\ next' = 1
    /\ UNCHANGED <<module, present, func, body, result, quakeKernels>>

\* convertQuakeToLinAlg on an operation that is no gate: measurements and calls of other
\* kernels leave no trace.
SkipOperation ==
    /\ next # 0
    /\ next \in DOMAIN module[func].ops
    /\ ~ isOperator(module[func].ops[next])
    /\ next' = next + 1
    /\ UNCHANGED <<module, present, inserted, func, state, body, result, quakeKernels>>

\* Mutant: the product always goes on from the initial state.
insertMulNOfInit(matrix, arguments) ==
    /\ body' = [body EXCEPT ![func] =
                  Append(@, [matrix |-> matrix, arguments |-> arguments,
                             vector |-> 0, gate |-> next])]
    /\ state' = Len(body'[func])

\* A multiplication of the state with the matrix a call returns.  (The field gate is not
\* in the program; it records which gate the call was made for.)
insertMulN(matrix, arguments) ==
    /\ body' = [body EXCEPT ![func] =
                  Append(@, [matrix |-> matrix, arguments |-> arguments,
                             vector |-> state, gate |-> next])]
    /\ state' = Len(body'[func])

\* convertQuakeToLinAlg on a gate
ConvertGate ==
    /\ next # 0
    /\ next \in DOMAIN module[func].ops
    /\ LET op == module[func].ops[next]
           name == FunctionName(module[func], op)
       IN  /\ isOperator(op)
           /\ inserted' = inlineFunction(name, Len(op.params), getNumberOfQubits(module[func]))
           /\ insertMulN(name, getParametersValues(op.params))
    /\ next' = next + 1
    /\ UNCHANGED <<module, present, func, result, quakeKernels>>

\* Mutant: the kernel is not noted, and stays.
EndKernelUnnoted ==
    /\ next # 0
    /\ next = Len(module[func].ops) + 1
    /\ result' = [result EXCEPT ![func] = state]
    /\ next' = 0
    /\ func' = func + 1
    /\ UNCHANGED <<module, present, inserted, state, body, quakeKernels>>

\* Mutant: a kernel is erased as soon as it is converted.
EndKernelErased ==
    /\ next # 0
    /\ next = Len(module[func].ops) + 1
    /\ result' = [result EXCEPT ![func] = state]
    /\ quakeKernels' = Append(quakeKernels, func)
    /\ present' = present \ {func}
    /\ next' = 0
    /\ func' = func + 1
    /\ UNCHANGED <<module, inserted, state, body>>

\* The product is returned, and the kernel noted for the end.
EndKernel ==
    /\ next # 0
    /\ next = Len(module[func].ops) + 1
    /\ result' = [result EXCEPT ![func] = state]
    /\ quakeKernels' = Append(quakeKernels, func)
    /\ next' = 0
    /\ func' = func + 1
    /\ UNCHANGED <<module, present, inserted, state, body>>

\* The kernels are erased when all are converted.
Erase ==
    /\ func = Len(module) + 1
    /\ \E i \in DOMAIN quakeKernels : quakeKernels[i] \in present
    /\ present' = present \ Range(quakeKernels)
    /\ UNCHANGED <<module, inserted, func, next, state, body, result, quakeKernels>>

Next == SkipFunction \/ BeginKernel \/ SkipOperation \/ ConvertGate \/ EndKernel \/ Erase

\* One thread runs the pass straight through.
Spec == Init /\ [][Next]_vars /\ WF_vars(Next)

-----------------------------------------------------------------------------

\* The names of the matrices of the module's gates
MatrixNames ==
    UNION {{FunctionName(module[f], module[f].ops[i]) : i \in DOMAIN module[f].ops} :
             f \in DOMAIN module}

Inserted == [kind : {"gpu"}, of : DOMAIN module]
              \cup [kind : {"matrix"}, name : MatrixNames, parameters : Nat, qubits : Nat]

Multiplications == [matrix : MatrixNames, arguments : Seq(Int), vector : Nat, gate : Nat \ {0}]

\* Every variable has its type; a value is used behind the multiplication that makes it.
TypeOK ==
    /\ module \in Modules
    /\ present \subseteq DOMAIN module
    /\ inserted \in Seq(Inserted)
    /\ func \in 1 .. Len(module) + 1
    /\ next \in Nat
    /\ next # 0 => func \in DOMAIN module /\ next <= Len(module[func].ops) + 1
    /\ state \in Nat
    /\ next # 0 => state <= Len(body[func])
    /\ body \in [DOMAIN module -> Seq(Multiplications)]
    /\ \A f \in DOMAIN module : \A i \in DOMAIN body[f] :
         body[f][i].vector < i /\ body[f][i].gate \in DOMAIN module[f].ops
    /\ result \in [DOMAIN module -> Nat]
    /\ quakeKernels \in Seq(DOMAIN module)

\* The gates a value is the product of, from the state vector on
Product(f, value) ==
    LET gates[v \in 0 .. value] ==
          IF v = 0 THEN <<>>
          ELSE Append(gates[body[f][v].vector], body[f][v].gate)
    IN  gates[value]

GatesOf(f) == {i \in DOMAIN module[f].ops : isOperator(module[f].ops[i])}

\* What the function of a converted kernel returns is the initial state multiplied with
\* one matrix for each of its gates, in their order.
ProductOfGates ==
    \A f \in Range(quakeKernels) :
      LET p == Product(f, result[f])
      IN  Range(p) = GatesOf(f) /\ \A i, j \in DOMAIN p : i < j => p[i] < p[j]

Calls == {<<f, i>> : f \in DOMAIN module, i \in 1 .. MaxOps}
IsCall(c) == c[2] \in DOMAIN body[c[1]]
Call(c) == body[c[1]][c[2]]
GateOfCall(c) == module[c[1]].ops[Call(c).gate]

\* Two calls of one name are for gates that do the same to the same qubits: a matrix is
\* shared by the gates it is right for.
OneNameOneMatrix ==
    \A c, d \in Calls :
      IsCall(c) /\ IsCall(d) /\ Call(c).matrix = Call(d).matrix
        => /\ GateOfCall(c).gate = GateOfCall(d).gate
           /\ GateOfCall(c).adj = GateOfCall(d).adj
           /\ GateOfCall(c).ctrls = GateOfCall(d).ctrls
           /\ GateOfCall(c).tgts = GateOfCall(d).tgts

\* No two functions in front have one name, and each call agrees with the declaration of
\* its name in the number of parameters and in the size of the matrix.
CallsMatchDeclarations ==
    /\ \A i, j \in DOMAIN inserted : i # j =>
         \/ inserted[i].kind # inserted[j].kind
         \/ inserted[i].kind = "gpu" /\ inserted[i].of # inserted[j].of
         \/ inserted[i].kind = "matrix" /\ inserted[i].name # inserted[j].name
    /\ \A c \in Calls : IsCall(c) =>
         \E i \in DOMAIN inserted :
           /\ inserted[i].kind = "matrix" /\ inserted[i].name = Call(c).matrix
           /\ inserted[i].parameters = Len(Call(c).arguments)
           /\ inserted[i].qubits = getNumberOfQubits(module[c[1]])

KernelsOfModule == {f \in DOMAIN module : module[f].attribute}

\* No function goes before all kernels are converted, and then all kernels go and nothing
\* else does: a pass that stops half way would leave callers without their callees.
ErasedAtTheEnd ==
    [][present' # present =>
         /\ present' = present \ KernelsOfModule
         /\ \A f \in KernelsOfModule : \E i \in DOMAIN inserted : inserted[i] = GpuFunction(f)]_vars

\* In the end every kernel has been replaced.
Replaced == <>[](present \cap KernelsOfModule = {})
=============================================================================
