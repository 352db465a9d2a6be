------------------------ MODULE QuakeToLinAlgProofs ------------------------
(***************************************************************************)
(* The pass convert-quake-to-linalg, for all modules: each kernel's        *)
(* function returns the product of the matrices of its gates, in their     *)
(* order; each call has one declaration and agrees with it; and the        *)
(* kernels are erased together, when all of them are converted.            *)
(*                                                                         *)
(* Plan: the multiplications of a kernel are a chain, one for each gate    *)
(* met, so the product is read off it.  A declaration was made for a gate  *)
(* of its name, which says how many parameters it has.  Converted are the  *)
(* kernels the loop has passed.                                            *)
(***************************************************************************)
EXTENDS QuakeToLinAlg, PassLemmas

-----------------------------------------------------------------------------
(* The invariant *)

Passed == {f \in KernelsOfModule : f < func}
Begun == {f \in KernelsOfModule : f < func \/ (f = func /\ next # 0)}

\* The kernels noted are those the loop has passed, and nothing goes before its end.
KernelsNoted ==
    /\ Range(quakeKernels) = Passed
    /\ next # 0 => func \in KernelsOfModule
    /\ present # DOMAIN module => func = Len(module) + 1

\* There is a function in front for each kernel begun.
FunctionsInFront ==
    \A f \in DOMAIN module :
      (\E i \in DOMAIN inserted : inserted[i] = GpuFunction(f)) <=> f \in Begun

\* A declaration was made for a gate of a kernel.
IsDeclarationOf(d, f, j) ==
    /\ d.name = FunctionName(module[f], module[f].ops[j])
    /\ d.parameters = Len(module[f].ops[j].params)
    /\ d.qubits = getNumberOfQubits(module[f])

DeclarationsOfGates ==
    \A i \in DOMAIN inserted : inserted[i].kind = "matrix" =>
      \E f \in DOMAIN module : \E j \in DOMAIN module[f].ops :
         IsDeclarationOf(inserted[i], f, j)

\* The multiplications of a function are a chain, for gates in the order of the kernel.
Chained ==
    \A f \in DOMAIN module :
      /\ \A v \in DOMAIN body[f] : /\ body[f][v].vector = v - 1
                                   /\ body[f][v].gate \in GatesOf(f)
      /\ \A v, w \in DOMAIN body[f] : v < w => body[f][v].gate < body[f][w].gate
      /\ f \notin Begun => body[f] = <<>>

\* The chain has a link for each gate met.
GateIsMultiplied(f, i) == \E v \in DOMAIN body[f] : body[f][v].gate = i

EachGateMultiplied ==
    /\ next # 0 => /\ state = Len(body[func])
                   /\ \A v \in DOMAIN body[func] : body[func][v].gate < next
                   /\ \A i \in GatesOf(func) : i < next => GateIsMultiplied(func, i)
    /\ \A f \in Passed : /\ result[f] = Len(body[f])
                         /\ \A i \in GatesOf(f) : GateIsMultiplied(f, i)

IInv ==
    /\ TypeOK
    /\ KernelsNoted
    /\ FunctionsInFront
    /\ DeclarationsOfGates
    /\ CallsMatchDeclarations
    /\ Chained
    /\ EachGateMultiplied

-----------------------------------------------------------------------------
(* The product *)

\* The product of a chain: the recursion has the one solution that lists the gates.
LEMMA ProductOfChain ==
    ASSUME NEW f, NEW n \in Nat, body[f] \in Seq(Multiplications), Len(body[f]) = n,
           \A v \in 1 .. n : body[f][v].vector = v - 1
    PROVE  Product(f, n) = [i \in 1 .. n |-> body[f][i].gate]
<1> DEFINE E(g) == [v \in 0 .. n |->
                      IF v = 0 THEN <<>>
                      ELSE Append(g[body[f][v].vector], body[f][v].gate)]
           G == CHOOSE g : g = E(g)
           L(v) == [i \in 1 .. v |-> body[f][i].gate]
           W == [v \in 0 .. n |-> L(v)]
<1>1. L(0) = <<>>
    OBVIOUS
<1>2. ASSUME NEW v \in 1 .. n PROVE L(v) = Append(L(v - 1), body[f][v].gate)
    <2> DEFINE a == Append(L(v - 1), body[f][v].gate)
    <2>1. \A i \in 1 .. n : body[f][i].gate \in Nat
        <3>1. \A i \in 1 .. n : body[f][i] \in Multiplications
            OBVIOUS
        <3> QED BY <3>1 DEF Multiplications
    <2>2. L(v - 1) \in Seq(Nat) /\ Len(L(v - 1)) = v - 1 /\ v - 1 \in Nat
        BY <2>1
    <2>3. /\ a \in Seq(Nat) /\ Len(a) = v
          /\ \A i \in 1 .. v - 1 : a[i] = L(v - 1)[i]
          /\ a[v] = body[f][v].gate
        BY <2>1, <2>2
    <2>4. L(v) \in Seq(Nat) /\ Len(L(v)) = v /\ \A i \in 1 .. v : L(v)[i] = a[i]
        BY <2>1, <2>3
    <2> HIDE DEF L, a
    <2>5. L(v) = a
        BY <2>3, <2>4
    <2> QED BY <2>5 DEF a
<1>3. W = E(W)
    <2> HIDE DEF L
    <2> SUFFICES ASSUME NEW v \in 0 .. n
                 PROVE  W[v] = IF v = 0 THEN <<>>
                               ELSE Append(W[body[f][v].vector], body[f][v].gate)
        OBVIOUS
    <2>1. CASE v = 0
        BY <1>1, <2>1
    <2>2. CASE v # 0
        <3>1. v \in 1 .. n /\ body[f][v].vector = v - 1 /\ v - 1 \in 0 .. n
            BY <2>2
        <3> QED BY <1>2, <3>1
    <2> QED BY <2>1, <2>2
<1>4. G = E(G)
    <2> HIDE DEF W, E
    <2> QED BY <1>3
<1>5. \A v \in 0 .. n : G[v] = L(v)
    <2> DEFINE Bad == {v \in 0 .. n : G[v] # L(v)}
    <2> SUFFICES ASSUME Bad # {} PROVE FALSE
        OBVIOUS
    <2> HIDE DEF G, L
    <2>1. Bad \in SUBSET Nat
        OBVIOUS
    <2>2. PICK v \in Bad : \A t \in Bad : v <= t
        BY <2>1, FirstExists
    <2>3. v \in 0 .. n /\ G[v] # L(v)
        BY <2>2
    <2>4. G[0] = <<>>
        <3>1. \A g : g = E(g) => g[0] = <<>>
            OBVIOUS
        <3> HIDE DEF E
        <3> QED BY <1>4, <3>1
    <2>5. v \in 1 .. n /\ v - 1 \in 0 .. n
        BY <1>1, <2>3, <2>4
    <2>6. v - 1 \notin Bad
        BY <2>2, <2>5
    <2>7. G[v - 1] = L(v - 1)
        BY <2>5, <2>6
    <2>8. G[v] = Append(G[v - 1], body[f][v].gate)
        <3>1. v \in 0 .. n /\ v # 0 /\ body[f][v].vector = v - 1
            BY <2>5
        <3>2. \A g : g = E(g) => g[v] = Append(g[body[f][v].vector], body[f][v].gate)
            BY <3>1
        <3> HIDE DEF E
        <3> QED BY <1>4, <3>1, <3>2
    <2> QED BY <1>2, <2>3, <2>5, <2>7, <2>8
<1>6. Product(f, n) = G[n]
    BY DEF Product
<1>7. n \in 0 .. n
    OBVIOUS
<1> HIDE DEF G
<1> QED BY <1>5, <1>6, <1>7

-----------------------------------------------------------------------------
(* What no step changes *)

LEMMA ModuleHasType ==
    ASSUME IInv
    PROVE  /\ module \in Seq(Function)
           /\ \A f \in DOMAIN module : /\ module[f].ops \in Seq(Op)
                                      /\ module[f].attribute \in BOOLEAN
                                      /\ getNumberOfQubits(module[f]) \in Nat
           /\ DOMAIN module = 1 .. Len(module) /\ Len(module) \in Nat
<1>1. module \in Modules
    BY DEF IInv, TypeOK
<1>2. module \in Seq(Function) /\ \A f \in DOMAIN module : getNumberOfQubits(module[f]) \in Nat
    BY <1>1, QuakeToLinAlgAssumption
<1>3. \A f \in DOMAIN module : module[f] \in Function
    BY <1>2
<1> QED BY <1>2, <1>3 DEF Function

LEMMA SameModule ==
    ASSUME module' = module
    PROVE  /\ MatrixNames' = MatrixNames /\ Inserted' = Inserted
           /\ Multiplications' = Multiplications
           /\ KernelsOfModule' = KernelsOfModule
           /\ \A f : GatesOf(f)' = GatesOf(f)
<1>1. MatrixNames' = MatrixNames
    BY DEF MatrixNames
<1> QED BY <1>1 DEF Inserted, Multiplications, KernelsOfModule, GatesOf

LEMMA SameFunctions ==
    ASSUME IInv, module' = module, inserted' = inserted, body' = body
    PROVE  DeclarationsOfGates' /\ CallsMatchDeclarations'
<1>1. DeclarationsOfGates'
    BY DEF IInv, DeclarationsOfGates, IsDeclarationOf
<1>2. CallsMatchDeclarations'
    BY DEF IInv, CallsMatchDeclarations, Calls, IsCall, Call
<1> QED BY <1>1, <1>2

-----------------------------------------------------------------------------
(* The steps *)

LEMMA SkipFunctionPreserves ==
    ASSUME IInv, SkipFunction
    PROVE  IInv'
<1>1. /\ module' = module /\ present' = present /\ inserted' = inserted /\ next' = next
      /\ state' = state /\ body' = body /\ result' = result /\ quakeKernels' = quakeKernels
      /\ func' = func + 1 /\ next = 0 /\ func \in DOMAIN module /\ ~ module[func].attribute
    BY DEF SkipFunction
<1>2. func \in Nat /\ func \in 1 .. Len(module) /\ Len(module) \in Nat
    BY <1>1, ModuleHasType
<1>3. /\ MatrixNames' = MatrixNames /\ Inserted' = Inserted
      /\ Multiplications' = Multiplications /\ KernelsOfModule' = KernelsOfModule
      /\ \A f : GatesOf(f)' = GatesOf(f)
    BY <1>1, SameModule
<1>4. KernelsOfModule \subseteq 1 .. Len(module) /\ func \notin KernelsOfModule
    BY <1>1, ModuleHasType DEF KernelsOfModule
<1>5. Passed' = Passed /\ Begun' = Begun
    <2>1. \A f \in KernelsOfModule : f < func + 1 <=> f < func
        BY <1>2, <1>4
    <2> QED BY <1>1, <1>3, <1>4, <2>1 DEF Passed, Begun
<1>6. TypeOK'
    BY <1>1, <1>2, <1>3 DEF IInv, TypeOK
<1>7. DeclarationsOfGates' /\ CallsMatchDeclarations'
    BY <1>1, SameFunctions
<1>8. KernelsNoted'
    BY <1>1, <1>2, <1>5 DEF IInv, KernelsNoted
<1>9. FunctionsInFront'
    BY <1>1, <1>5 DEF IInv, FunctionsInFront
<1>10. Chained'
    BY <1>1, <1>3, <1>5 DEF IInv, Chained
<1>11. EachGateMultiplied'
    BY <1>1, <1>3, <1>5 DEF IInv, EachGateMultiplied, GateIsMultiplied
<1> QED BY <1>6, <1>7, <1>8, <1>9, <1>10, <1>11 DEF IInv

LEMMA BeginKernelPreserves ==
    ASSUME IInv, BeginKernel
    PROVE  IInv'
<1> DEFINE g == GpuFunction(func)
<1>1. /\ module' = module /\ present' = present /\ func' = func /\ body' = body
      /\ result' = result /\ quakeKernels' = quakeKernels
      /\ inserted' = <<g>> \o inserted /\ state' = 0 /\ next' = 1
      /\ next = 0 /\ func \in DOMAIN module /\ module[func].attribute
    BY DEF BeginKernel
<1>2. func \in Nat /\ func \in 1 .. Len(module) /\ Len(module) \in Nat
      /\ module[func].ops \in Seq(Op)
    BY <1>1, ModuleHasType
<1>3. /\ MatrixNames' = MatrixNames /\ Inserted' = Inserted
      /\ Multiplications' = Multiplications /\ KernelsOfModule' = KernelsOfModule
      /\ \A f : GatesOf(f)' = GatesOf(f)
    BY <1>1, SameModule
<1>4. func \in KernelsOfModule /\ KernelsOfModule \subseteq Nat
    BY <1>1, ModuleHasType DEF KernelsOfModule
<1>5. Passed' = Passed /\ Begun' = Begun \cup {func} /\ func \notin Begun
    BY <1>1, <1>2, <1>3, <1>4 DEF Passed, Begun
<1>6. inserted \in Seq(Inserted) /\ g \in Inserted
    BY <1>1 DEF IInv, TypeOK, Inserted, GpuFunction
<1>7. /\ inserted' \in Seq(Inserted)
      /\ 1 \in DOMAIN inserted' /\ inserted'[1] = g
      /\ \A i \in DOMAIN inserted : i + 1 \in DOMAIN inserted' /\ inserted'[i + 1] = inserted[i]
      /\ \A i \in DOMAIN inserted' : i # 1 =>
            i - 1 \in DOMAIN inserted /\ inserted'[i] = inserted[i - 1]
    <2> HIDE DEF g
    <2> QED BY <1>1, <1>6, InFront
<1>8. body[func] = <<>>
    BY <1>1, <1>5 DEF IInv, Chained
<1>9. TypeOK'
    <2>1. Len(module[func].ops) \in Nat /\ Len(body[func]) = 0
        BY <1>2, <1>8
    <2>2. next' \in Nat /\ next' <= Len(module'[func'].ops) + 1 /\ state' \in Nat
          /\ state' <= Len(body'[func'])
        BY <1>1, <2>1
    <2> QED BY <1>1, <1>2, <1>3, <1>7, <2>2 DEF IInv, TypeOK
<1>10. \A i \in DOMAIN inserted : inserted[i] # g
    BY <1>1, <1>5 DEF IInv, FunctionsInFront
<1>11. g.kind = "gpu" /\ g.of = func /\ \A f : GpuFunction(f) = g <=> f = func
    BY DEF GpuFunction
<1>12. KernelsNoted'
    BY <1>1, <1>3, <1>4, <1>5 DEF IInv, KernelsNoted
<1>13. FunctionsInFront'
    <2> SUFFICES ASSUME NEW f \in DOMAIN module
                 PROVE  (\E i \in DOMAIN inserted' : inserted'[i] = GpuFunction(f)) <=> f \in Begun'
        BY <1>1 DEF FunctionsInFront
    <2>1. (\E i \in DOMAIN inserted : inserted[i] = GpuFunction(f)) <=> f \in Begun
        BY DEF IInv, FunctionsInFront
    <2>2. (\E i \in DOMAIN inserted' : inserted'[i] = GpuFunction(f))
            <=> f = func \/ (\E i \in DOMAIN inserted : inserted[i] = GpuFunction(f))
        <3> HIDE DEF g
        <3> QED BY <1>7, <1>11
    <2> QED BY <1>5, <2>1, <2>2
<1>14. DeclarationsOfGates'
    <2> SUFFICES ASSUME NEW i \in DOMAIN inserted', inserted'[i].kind = "matrix"
                 PROVE  \E f \in DOMAIN module : \E j \in DOMAIN module[f].ops :
                           IsDeclarationOf(inserted'[i], f, j)
        BY <1>1 DEF DeclarationsOfGates, IsDeclarationOf
    <2>1. i # 1
        BY <1>7, <1>11
    <2>2. i - 1 \in DOMAIN inserted /\ inserted'[i] = inserted[i - 1]
        BY <1>7, <2>1
    <2> QED BY <2>2 DEF IInv, DeclarationsOfGates
<1>15. CallsMatchDeclarations'
    <2>1. ASSUME NEW i \in DOMAIN inserted', NEW j \in DOMAIN inserted', i # j
          PROVE  \/ inserted'[i].kind # inserted'[j].kind
                 \/ inserted'[i].kind = "gpu" /\ inserted'[i].of # inserted'[j].of
                 \/ inserted'[i].kind = "matrix" /\ inserted'[i].name # inserted'[j].name
        <3>1. \A m \in DOMAIN inserted : inserted[m].kind = "gpu" => inserted[m].of # func
            <4>1. \A m \in DOMAIN inserted : inserted[m] \in Inserted
                BY <1>6
            <4>2. \A x \in Inserted : x.kind = "gpu" /\ x.of = func => x = g
                BY DEF Inserted, GpuFunction
            <4> HIDE DEF g
            <4> QED BY <1>10, <4>1, <4>2
        <3>2. CASE i = 1
            BY <1>7, <1>11, <2>1, <3>1, <3>2
        <3>3. CASE j = 1
            BY <1>7, <1>11, <2>1, <3>1, <3>3
        <3>4. CASE i # 1 /\ j # 1
            <4>1. /\ i - 1 \in DOMAIN inserted /\ inserted'[i] = inserted[i - 1]
                  /\ j - 1 \in DOMAIN inserted /\ inserted'[j] = inserted[j - 1]
                  /\ i - 1 # j - 1
                BY <1>7, <2>1, <3>4
            <4> HIDE DEF g
            <4> QED BY <4>1 DEF IInv, CallsMatchDeclarations
        <3> QED BY <3>2, <3>3, <3>4
    <2>2. ASSUME NEW c \in Calls, IsCall(c)
          PROVE  \E i \in DOMAIN inserted' :
                   /\ inserted'[i].kind = "matrix" /\ inserted'[i].name = Call(c).matrix
                   /\ inserted'[i].parameters = Len(Call(c).arguments)
                   /\ inserted'[i].qubits = getNumberOfQubits(module[c[1]])
        <3>1. PICK i \in DOMAIN inserted :
                   /\ inserted[i].kind = "matrix" /\ inserted[i].name = Call(c).matrix
                   /\ inserted[i].parameters = Len(Call(c).arguments)
                   /\ inserted[i].qubits = getNumberOfQubits(module[c[1]])
            BY <2>2 DEF IInv, CallsMatchDeclarations
        <3>2. i + 1 \in DOMAIN inserted' /\ inserted'[i + 1] = inserted[i]
            BY <1>7, <3>1
        <3> QED BY <3>1, <3>2
    <2>3. Calls' = Calls /\ \A c : IsCall(c)' = IsCall(c) /\ Call(c)' = Call(c)
        BY <1>1 DEF Calls, IsCall, Call
    <2> HIDE DEF g
    <2> QED BY <1>1, <2>1, <2>2, <2>3 DEF CallsMatchDeclarations
<1>16. Chained'
    BY <1>1, <1>3, <1>5 DEF IInv, Chained
<1>17. EachGateMultiplied'
    <2>1. state' = Len(body'[func'])
        BY <1>1, <1>8
    <2>2. \A i \in GatesOf(func) : ~ i < 1
        BY <1>2 DEF GatesOf
    <2>3. \A v \in DOMAIN body'[func'] : body'[func'][v].gate < next'
        BY <1>1, <1>8
    <2>4. \A f \in Passed : /\ result[f] = Len(body[f])
                            /\ \A i \in GatesOf(f) : GateIsMultiplied(f, i)
        BY DEF IInv, EachGateMultiplied
    <2> QED BY <1>1, <1>3, <1>5, <2>1, <2>2, <2>3, <2>4 DEF EachGateMultiplied, GateIsMultiplied
<1> QED BY <1>9, <1>12, <1>13, <1>14, <1>15, <1>16, <1>17 DEF IInv

LEMMA SkipOperationPreserves ==
    ASSUME IInv, SkipOperation
    PROVE  IInv'
<1>1. /\ module' = module /\ present' = present /\ inserted' = inserted /\ func' = func
      /\ state' = state /\ body' = body /\ result' = result /\ quakeKernels' = quakeKernels
      /\ next' = next + 1 /\ next # 0 /\ next \in DOMAIN module[func].ops
      /\ ~ isOperator(module[func].ops[next])
    BY DEF SkipOperation
<1>2. /\ func \in DOMAIN module /\ module[func].ops \in Seq(Op)
      /\ next \in Nat /\ next + 1 # 0 /\ next <= Len(module[func].ops)
    <2>1. func \in DOMAIN module /\ next \in Nat
        BY <1>1 DEF IInv, TypeOK
    <2> QED BY <1>1, <2>1, ModuleHasType
<1>3. /\ MatrixNames' = MatrixNames /\ Inserted' = Inserted
      /\ Multiplications' = Multiplications /\ KernelsOfModule' = KernelsOfModule
      /\ \A f : GatesOf(f)' = GatesOf(f)
    BY <1>1, SameModule
<1>4. Passed' = Passed /\ Begun' = Begun
    BY <1>1, <1>2, <1>3 DEF Passed, Begun
<1>5. TypeOK'
    <2>1. next' \in Nat /\ next' <= Len(module'[func'].ops) + 1
        BY <1>1, <1>2
    <2> QED BY <1>1, <1>2, <1>3, <2>1 DEF IInv, TypeOK
<1>6. DeclarationsOfGates' /\ CallsMatchDeclarations'
    BY <1>1, SameFunctions
<1>7. KernelsNoted' /\ FunctionsInFront' /\ Chained'
    BY <1>1, <1>2, <1>3, <1>4 DEF IInv, KernelsNoted, FunctionsInFront, Chained
<1>8. EachGateMultiplied'
    <2>1. /\ state = Len(body[func])
          /\ \A v \in DOMAIN body[func] : body[func][v].gate < next
          /\ \A i \in GatesOf(func) : i < next => GateIsMultiplied(func, i)
          /\ \A f \in Passed : /\ result[f] = Len(body[f])
                               /\ \A i \in GatesOf(f) : GateIsMultiplied(f, i)
        BY <1>1 DEF IInv, EachGateMultiplied
    <2>2. \A v \in DOMAIN body[func] : body[func][v].gate < next + 1
        <3>1. \A v \in DOMAIN body[func] : body[func][v].gate \in DOMAIN module[func].ops
            BY <1>2 DEF IInv, TypeOK
        <3> QED BY <1>2, <2>1, <3>1
    <2>3. \A i \in GatesOf(func) : i < next + 1 => GateIsMultiplied(func, i)
        <3>1. \A i \in GatesOf(func) : i \in Nat /\ i # next
            BY <1>1, <1>2 DEF GatesOf
        <3> QED BY <1>2, <2>1, <3>1
    <2> QED BY <1>1, <1>3, <1>4, <2>1, <2>2, <2>3 DEF EachGateMultiplied, GateIsMultiplied
<1> QED BY <1>5, <1>6, <1>7, <1>8 DEF IInv

LEMMA EndKernelPreserves ==
    ASSUME IInv, EndKernel
    PROVE  IInv'
<1>1. /\ module' = module /\ present' = present /\ inserted' = inserted /\ func' = func + 1
      /\ state' = state /\ body' = body /\ result' = [result EXCEPT ![func] = state]
      /\ quakeKernels' = Append(quakeKernels, func)
      /\ next' = 0 /\ next # 0 /\ next = Len(module[func].ops) + 1
    BY DEF EndKernel
<1>2. /\ func \in DOMAIN module /\ module[func].ops \in Seq(Op) /\ func \in Nat
      /\ func \in 1 .. Len(module) /\ Len(module) \in Nat
    <2>1. func \in DOMAIN module
        BY <1>1 DEF IInv, TypeOK
    <2> QED BY <2>1, ModuleHasType
<1>3. /\ MatrixNames' = MatrixNames /\ Inserted' = Inserted
      /\ Multiplications' = Multiplications /\ KernelsOfModule' = KernelsOfModule
      /\ \A f : GatesOf(f)' = GatesOf(f)
    BY <1>1, SameModule
<1>4. func \in KernelsOfModule /\ KernelsOfModule \subseteq 1 .. Len(module)
    BY <1>1, ModuleHasType DEF IInv, KernelsNoted, KernelsOfModule
<1>5. Passed' = Passed \cup {func} /\ Begun' = Begun
    <2>1. \A f \in KernelsOfModule : f < func + 1 <=> f < func \/ f = func
        BY <1>2, <1>4
    <2> QED BY <1>1, <1>3, <1>4, <2>1 DEF Passed, Begun
<1>6. state \in Nat /\ state = Len(body[func]) /\ result \in [DOMAIN module -> Nat]
      /\ quakeKernels \in Seq(DOMAIN module)
    BY <1>1 DEF IInv, TypeOK, EachGateMultiplied
<1>7. /\ quakeKernels' \in Seq(DOMAIN module)
      /\ Range(quakeKernels') = Range(quakeKernels) \cup {func}
    <2>1. /\ quakeKernels' \in Seq(DOMAIN module)
          /\ DOMAIN quakeKernels' = DOMAIN quakeKernels \cup {Len(quakeKernels) + 1}
          /\ \A i \in DOMAIN quakeKernels : quakeKernels'[i] = quakeKernels[i]
                                           /\ i <= Len(quakeKernels)
          /\ quakeKernels'[Len(quakeKernels) + 1] = func
        <3>1. func \in DOMAIN module /\ quakeKernels' = Append(quakeKernels, func)
            BY <1>1, <1>2
        <3>2. quakeKernels \in Seq(DOMAIN module)
            BY <1>6
        <3> QED BY <3>1, <3>2, AtTheEnd
    <2> QED BY <2>1 DEF Range
<1>8. TypeOK'
    <2>1. func' \in 1 .. Len(module') + 1
        BY <1>1, <1>2
    <2>2. result' \in [DOMAIN module -> Nat]
        BY <1>1, <1>6
    <2> QED BY <1>1, <1>3, <1>7, <2>1, <2>2 DEF IInv, TypeOK
<1>9. DeclarationsOfGates' /\ CallsMatchDeclarations'
    BY <1>1, SameFunctions
<1>10. KernelsNoted'
    <2>1. present = DOMAIN module
        BY <1>2 DEF IInv, KernelsNoted
    <2> QED BY <1>1, <1>5, <1>7, <2>1 DEF IInv, KernelsNoted
<1>11. FunctionsInFront' /\ Chained'
    BY <1>1, <1>3, <1>5 DEF IInv, FunctionsInFront, Chained
<1>12. EachGateMultiplied'
    <2>1. /\ result'[func] = Len(body[func])
          /\ \A f \in Passed : f # func /\ result'[f] = result[f]
        <3>1. \A f \in Passed : f \in DOMAIN module /\ f # func
            BY <1>2, <1>4 DEF Passed, KernelsOfModule
        <3> QED BY <1>1, <1>2, <1>6, <3>1
    <2>2. \A i \in GatesOf(func) : GateIsMultiplied(func, i)
        <3>1. \A i \in GatesOf(func) : i < next
            BY <1>1, <1>2 DEF GatesOf
        <3> QED BY <1>1, <3>1 DEF IInv, EachGateMultiplied
    <2>3. \A f \in Passed : /\ result[f] = Len(body[f])
                            /\ \A i \in GatesOf(f) : GateIsMultiplied(f, i)
        BY DEF IInv, EachGateMultiplied
    <2> QED BY <1>1, <1>3, <1>5, <2>1, <2>2, <2>3 DEF EachGateMultiplied, GateIsMultiplied
<1> QED BY <1>8, <1>9, <1>10, <1>11, <1>12 DEF IInv

LEMMA ErasePreserves ==
    ASSUME IInv, Erase
    PROVE  IInv'
<1>1. /\ module' = module /\ inserted' = inserted /\ func' = func /\ next' = next
      /\ state' = state /\ body' = body /\ result' = result /\ quakeKernels' = quakeKernels
      /\ present' = present \ Range(quakeKernels) /\ func = Len(module) + 1
    BY DEF Erase
<1>2. /\ MatrixNames' = MatrixNames /\ Inserted' = Inserted
      /\ Multiplications' = Multiplications /\ KernelsOfModule' = KernelsOfModule
      /\ \A f : GatesOf(f)' = GatesOf(f)
    BY <1>1, SameModule
<1>3. Passed' = Passed /\ Begun' = Begun
    BY <1>1, <1>2 DEF Passed, Begun
<1>4. TypeOK'
    BY <1>1, <1>2 DEF IInv, TypeOK
<1>5. DeclarationsOfGates' /\ CallsMatchDeclarations'
    BY <1>1, SameFunctions
<1>6. KernelsNoted' /\ FunctionsInFront' /\ Chained' /\ EachGateMultiplied'
    BY <1>1, <1>2, <1>3
       DEF IInv, KernelsNoted, FunctionsInFront, Chained, EachGateMultiplied, GateIsMultiplied
<1> QED BY <1>4, <1>5, <1>6 DEF IInv

LEMMA ValuesOfParameters ==
    ASSUME NEW ps \in Seq(Params)
    PROVE  getParametersValues(ps) \in Seq(Int) /\ Len(getParametersValues(ps)) = Len(ps)
<1>1. ASSUME NEW p \in Params PROVE extractDoubleArgumentValue(p) \in Int
    BY DEF Params, extractDoubleArgumentValue, AsFloat, FullTurn, MinusOneRadian
<1>2. \A i \in 1 .. Len(ps) : ps[i] \in Params
    OBVIOUS
<1> QED BY <1>1, <1>2 DEF getParametersValues

\* Gates of one name of a matrix take as many parameters as each other.
LEMMA NameGivesParameters ==
    ASSUME IInv, NEW f \in DOMAIN module, NEW i \in DOMAIN module[f].ops,
           NEW g \in DOMAIN module, NEW j \in DOMAIN module[g].ops,
           FunctionName(module[f], module[f].ops[i]) = FunctionName(module[g], module[g].ops[j])
    PROVE  /\ Len(module[f].ops[i].params) = Len(module[g].ops[j].params)
           /\ getNumberOfQubits(module[f]) = getNumberOfQubits(module[g])
<1>1. /\ module[f].ops[i].gate = module[g].ops[j].gate
      /\ getNumberOfQubits(module[f]) = getNumberOfQubits(module[g])
    BY DEF FunctionName
<1>2. module \in Modules
    BY DEF IInv, TypeOK
<1> QED BY <1>1, <1>2, QuakeToLinAlgAssumption

LEMMA ConvertGatePreserves ==
    ASSUME IInv, ConvertGate
    PROVE  IInv'
<1> DEFINE op == module[func].ops[next]
           name == FunctionName(module[func], op)
           n == getNumberOfQubits(module[func])
           d == Declaration(name, Len(op.params), n)
           c == [matrix |-> name, arguments |-> getParametersValues(op.params),
                 vector |-> state, gate |-> next]
           b == body[func]
<1>1. /\ module' = module /\ present' = present /\ func' = func /\ result' = result
      /\ quakeKernels' = quakeKernels /\ next' = next + 1
      /\ next # 0 /\ next \in DOMAIN module[func].ops /\ isOperator(op)
      /\ inserted' = IF hasFunc(name) THEN inserted ELSE <<d>> \o inserted
      /\ body' = [body EXCEPT ![func] = Append(b, c)]
      /\ state' = Len(body'[func])
    BY DEF ConvertGate, inlineFunction, insertMulN
<1>2. /\ func \in DOMAIN module /\ module[func].ops \in Seq(Op)
      /\ next \in Nat \ {0} /\ next + 1 # 0 /\ next <= Len(module[func].ops)
      /\ n \in Nat /\ op \in Op
    <2>1. func \in DOMAIN module /\ next \in Nat
        BY <1>1 DEF IInv, TypeOK
    <2> QED BY <1>1, <2>1, ModuleHasType
<1>3. /\ MatrixNames' = MatrixNames /\ Inserted' = Inserted
      /\ Multiplications' = Multiplications /\ KernelsOfModule' = KernelsOfModule
      /\ \A f : GatesOf(f)' = GatesOf(f)
    BY <1>1, SameModule
<1>4. Passed' = Passed /\ Begun' = Begun /\ func \in Begun /\ func \notin Passed
    <2>1. func \in KernelsOfModule
        BY <1>1 DEF IInv, KernelsNoted
    <2>2. ~ func < func
        BY <1>2, ModuleHasType
    <2> QED BY <1>1, <1>2, <1>3, <2>1, <2>2 DEF Passed, Begun
<1>5. /\ name \in MatrixNames
      /\ getParametersValues(op.params) \in Seq(Int)
      /\ Len(getParametersValues(op.params)) = Len(op.params)
      /\ Len(op.params) \in Nat
    <2>1. op.params \in Seq(Params)
        BY <1>2 DEF Op
    <2>2. name \in MatrixNames
        BY <1>1, <1>2 DEF MatrixNames
    <2> QED BY <2>1, <2>2, ValuesOfParameters
<1>6. state \in Nat /\ state = Len(b) /\ b \in Seq(Multiplications)
      /\ inserted \in Seq(Inserted) /\ body \in [DOMAIN module -> Seq(Multiplications)]
    BY <1>1, <1>2 DEF IInv, TypeOK, EachGateMultiplied
<1>7. c \in Multiplications
    BY <1>2, <1>5, <1>6 DEF Multiplications
<1>8. /\ body'[func] \in Seq(Multiplications)
      /\ Len(body'[func]) = state + 1
      /\ DOMAIN body'[func] = DOMAIN b \cup {state + 1}
      /\ \A v \in DOMAIN b : body'[func][v] = b[v] /\ v <= state /\ v \in Nat
      /\ body'[func][state + 1] = c
      /\ body' \in [DOMAIN module -> Seq(Multiplications)]
      /\ \A f \in DOMAIN module : f # func => body'[f] = body[f]
    <2> DEFINE r == Append(b, c)
    <2>1. body'[func] = r
        BY <1>1, <1>2, <1>6
    <2> HIDE DEF c, b
    <2>2. /\ r \in Seq(Multiplications) /\ Len(r) = Len(b) + 1
          /\ DOMAIN r = DOMAIN b \cup {Len(b) + 1}
          /\ \A v \in DOMAIN b : r[v] = b[v] /\ v <= Len(b)
          /\ r[Len(b) + 1] = c
        BY <1>6, <1>7, AtTheEnd
    <2>3. \A v \in DOMAIN b : v \in Nat
        BY <1>6
    <2> HIDE DEF r
    <2>4. body' \in [DOMAIN module -> Seq(Multiplications)]
        BY <1>1, <1>6, <2>2 DEF r
    <2>5. \A f \in DOMAIN module : f # func => body'[f] = body[f]
        BY <1>1, <1>6
    <2> QED BY <1>6, <2>1, <2>2, <2>3, <2>4, <2>5
<1>9. /\ d \in Inserted /\ d.kind = "matrix" /\ d.name = name
      /\ d.parameters = Len(op.params) /\ d.qubits = n
    BY <1>2, <1>5 DEF Declaration, Inserted
<1>10. \A f : GpuFunction(f) # d
    BY DEF GpuFunction, Declaration
<1> HIDE DEF d
<1>11. ~ hasFunc(name) =>
         /\ inserted' \in Seq(Inserted)
         /\ 1 \in DOMAIN inserted' /\ inserted'[1] = d
         /\ \A i \in DOMAIN inserted : i + 1 \in DOMAIN inserted' /\ inserted'[i + 1] = inserted[i]
         /\ \A i \in DOMAIN inserted' : i # 1 =>
               i - 1 \in DOMAIN inserted /\ inserted'[i] = inserted[i - 1]
    BY <1>1, <1>6, <1>9, InFront
<1>12. hasFunc(name) => inserted' = inserted
    BY <1>1
\* What was in front stays there, and what is new is the declaration.
<1>13. \A i \in DOMAIN inserted : \E j \in DOMAIN inserted' : inserted'[j] = inserted[i]
    BY <1>11, <1>12
<1>14. \A i \in DOMAIN inserted' :
         (\E j \in DOMAIN inserted : inserted'[i] = inserted[j]) \/ inserted'[i] = d
    BY <1>11, <1>12
<1>15. TypeOK'
    <2>1. next' \in Nat /\ next' <= Len(module'[func'].ops) + 1
        BY <1>1, <1>2
    <2>2. state' \in Nat /\ state' <= Len(body'[func'])
        BY <1>1, <1>6, <1>8
    <2>3. inserted' \in Seq(Inserted)
        BY <1>6, <1>11, <1>12
    <2>4. ASSUME NEW f \in DOMAIN module, NEW i \in DOMAIN body'[f]
          PROVE  body'[f][i].vector < i /\ body'[f][i].gate \in DOMAIN module[f].ops
        <3>1. CASE f # func
            BY <1>8, <2>4, <3>1 DEF IInv, TypeOK
        <3>2. CASE f = func /\ i \in DOMAIN b
            BY <1>8, <3>2 DEF IInv, TypeOK
        <3>3. CASE f = func /\ i = state + 1
            BY <1>1, <1>6, <1>8, <3>3
        <3> QED BY <1>8, <3>1, <3>2, <3>3
    <2>5. /\ module \in Modules /\ present \subseteq DOMAIN module
          /\ func \in 1 .. Len(module) + 1 /\ result \in [DOMAIN module -> Nat]
          /\ quakeKernels \in Seq(DOMAIN module)
        BY DEF IInv, TypeOK
    <2> HIDE DEF b, c, op, name, n
    <2> QED BY <1>1, <1>2, <1>3, <1>8, <2>1, <2>2, <2>3, <2>4, <2>5 DEF TypeOK
<1>16. KernelsNoted'
    BY <1>1, <1>2, <1>3, <1>4 DEF IInv, KernelsNoted
<1>17. FunctionsInFront'
    <2> SUFFICES ASSUME NEW f \in DOMAIN module
                 PROVE  (\E i \in DOMAIN inserted' : inserted'[i] = GpuFunction(f)) <=> f \in Begun
        BY <1>1, <1>4 DEF FunctionsInFront
    <2>1. (\E i \in DOMAIN inserted : inserted[i] = GpuFunction(f)) <=> f \in Begun
        BY DEF IInv, FunctionsInFront
    <2>2. (\E i \in DOMAIN inserted : inserted[i] = GpuFunction(f))
            => \E i \in DOMAIN inserted' : inserted'[i] = GpuFunction(f)
        BY <1>13
    <2>3. (\E i \in DOMAIN inserted' : inserted'[i] = GpuFunction(f))
            => \E i \in DOMAIN inserted : inserted[i] = GpuFunction(f)
        BY <1>10, <1>14
    <2> QED BY <2>1, <2>2, <2>3
<1>18. DeclarationsOfGates'
    <2> SUFFICES ASSUME NEW i \in DOMAIN inserted', inserted'[i].kind = "matrix"
                 PROVE  \E f \in DOMAIN module : \E j \in DOMAIN module[f].ops :
                           IsDeclarationOf(inserted'[i], f, j)
        BY <1>1 DEF DeclarationsOfGates, IsDeclarationOf
    <2>1. CASE inserted'[i] = d
        <3>1. IsDeclarationOf(d, func, next)
            BY <1>9 DEF IsDeclarationOf
        <3> QED BY <1>1, <1>2, <2>1, <3>1
    <2>2. CASE \E j \in DOMAIN inserted : inserted'[i] = inserted[j]
        BY <2>2 DEF IInv, DeclarationsOfGates
    <2> QED BY <1>14, <2>1, <2>2
<1>19. CallsMatchDeclarations'
    <2> DEFINE Declared(m, a, k) ==
                 \E i \in DOMAIN inserted' :
                   /\ inserted'[i].kind = "matrix" /\ inserted'[i].name = m
                   /\ inserted'[i].parameters = a /\ inserted'[i].qubits = k
    <2>1. ASSUME NEW i \in DOMAIN inserted', NEW j \in DOMAIN inserted', i # j
          PROVE  \/ inserted'[i].kind # inserted'[j].kind
                 \/ inserted'[i].kind = "gpu" /\ inserted'[i].of # inserted'[j].of
                 \/ inserted'[i].kind = "matrix" /\ inserted'[i].name # inserted'[j].name
        <3>1. CASE hasFunc(name)
            BY <1>12, <2>1, <3>1 DEF IInv, CallsMatchDeclarations
        <3>2. CASE ~ hasFunc(name)
            <4>1. \A m \in DOMAIN inserted : inserted[m].kind = "matrix" => inserted[m].name # name
                BY <3>2 DEF hasFunc
            <4>2. CASE i = 1
                BY <1>9, <1>11, <2>1, <3>2, <4>1, <4>2
            <4>3. CASE j = 1
                BY <1>9, <1>11, <2>1, <3>2, <4>1, <4>3
            <4>4. CASE i # 1 /\ j # 1
                <5>1. /\ i - 1 \in DOMAIN inserted /\ inserted'[i] = inserted[i - 1]
                      /\ j - 1 \in DOMAIN inserted /\ inserted'[j] = inserted[j - 1]
                    BY <1>11, <3>2, <4>4
                <5>2. i - 1 # j - 1
                    <6>1. i \in Int /\ j \in Int
                        BY <1>11, <3>2
                    <6> QED BY <2>1, <6>1
                <5> QED BY <5>1, <5>2 DEF IInv, CallsMatchDeclarations
            <4> QED BY <4>2, <4>3, <4>4
        <3> QED BY <3>1, <3>2
    <2>2. Declared(name, Len(op.params), n)
        <3>1. CASE ~ hasFunc(name)
            BY <1>9, <1>11, <3>1
        <3>2. CASE hasFunc(name)
            <4>1. PICK i \in DOMAIN inserted : inserted[i].kind = "matrix" /\ inserted[i].name = name
                BY <3>2 DEF hasFunc
            <4>2. PICK f \in DOMAIN module : \E j \in DOMAIN module[f].ops :
                     IsDeclarationOf(inserted[i], f, j)
                BY <4>1 DEF IInv, DeclarationsOfGates
            <4>3. PICK j \in DOMAIN module[f].ops : IsDeclarationOf(inserted[i], f, j)
                BY <4>2
            <4>4. FunctionName(module[f], module[f].ops[j]) = FunctionName(module[func], module[func].ops[next])
                BY <4>1, <4>3 DEF IsDeclarationOf
            <4>5. /\ Len(module[f].ops[j].params) = Len(op.params)
                  /\ getNumberOfQubits(module[f]) = n
                BY <1>1, <1>2, <4>4, NameGivesParameters
            <4> QED BY <1>12, <3>2, <4>1, <4>3, <4>5 DEF IsDeclarationOf
        <3> QED BY <3>1, <3>2
    <2>3. ASSUME NEW x \in Calls, IsCall(x)
          PROVE  Declared(Call(x).matrix, Len(Call(x).arguments), getNumberOfQubits(module[x[1]]))
        <3>1. PICK i \in DOMAIN inserted :
                   /\ inserted[i].kind = "matrix" /\ inserted[i].name = Call(x).matrix
                   /\ inserted[i].parameters = Len(Call(x).arguments)
                   /\ inserted[i].qubits = getNumberOfQubits(module[x[1]])
            BY <2>3 DEF IInv, CallsMatchDeclarations
        <3> QED BY <1>13, <3>1
    <2>4. ASSUME NEW x \in Calls, IsCall(x)'
          PROVE  Declared(Call(x)'.matrix, Len(Call(x)'.arguments), getNumberOfQubits(module[x[1]]))
        <3>1. x[1] \in DOMAIN module
            BY DEF Calls
        <3>2. CASE x[1] = func /\ x[2] = state + 1
            BY <1>5, <1>8, <2>2, <3>2 DEF Call
        <3>3. CASE ~ (x[1] = func /\ x[2] = state + 1)
            <4>1. IsCall(x) /\ Call(x)' = Call(x)
                BY <1>8, <2>4, <3>1, <3>3 DEF IsCall, Call
            <4> HIDE DEF Declared
            <4> QED BY <2>3, <4>1
        <3> QED BY <3>2, <3>3
    <2>5. Calls' = Calls
        BY <1>1 DEF Calls
    <2> QED BY <1>1, <2>1, <2>4, <2>5 DEF CallsMatchDeclarations
<1>20. Chained'
    <2>1. next \in GatesOf(func)
        BY <1>1 DEF GatesOf
    <2>2. /\ \A v \in DOMAIN b : b[v].vector = v - 1 /\ b[v].gate \in GatesOf(func)
          /\ \A v, w \in DOMAIN b : v < w => b[v].gate < b[w].gate
          /\ \A v \in DOMAIN b : b[v].gate < next
        BY <1>1, <1>2 DEF IInv, Chained, EachGateMultiplied
    <2>3. c.vector = state /\ c.gate = next
        OBVIOUS
    <2> HIDE DEF c, b
    <2>4. \A v \in DOMAIN body'[func] : /\ body'[func][v].vector = v - 1
                                        /\ body'[func][v].gate \in GatesOf(func)
        BY <1>6, <1>8, <2>1, <2>2, <2>3
    <2>5. \A v, w \in DOMAIN body'[func] : v < w => body'[func][v].gate < body'[func][w].gate
        BY <1>6, <1>8, <2>2, <2>3
    <2>6. \A f \in DOMAIN module : f # func =>
             /\ \A v \in DOMAIN body[f] : body[f][v].vector = v - 1 /\ body[f][v].gate \in GatesOf(f)
             /\ \A v, w \in DOMAIN body[f] : v < w => body[f][v].gate < body[f][w].gate
             /\ f \notin Begun => body[f] = <<>>
        BY DEF IInv, Chained
    <2> QED BY <1>1, <1>3, <1>4, <1>8, <2>4, <2>5, <2>6 DEF Chained
<1>21. EachGateMultiplied'
    <2>1. /\ \A v \in DOMAIN b : b[v].gate < next
          /\ \A i \in GatesOf(func) : i < next => GateIsMultiplied(func, i)
          /\ \A f \in Passed : /\ result[f] = Len(body[f])
                               /\ \A i \in GatesOf(f) : GateIsMultiplied(f, i)
        BY <1>1 DEF IInv, EachGateMultiplied
    <2>2. c.gate = next
        OBVIOUS
    <2>3. \A v \in DOMAIN b : b[v].gate \in Nat
        <3>1. module[func].ops \in Seq(Op)
            BY <1>2
        <3>2. \A i \in DOMAIN module[func].ops : i \in Nat
            BY <3>1
        <3>3. \A v \in DOMAIN b : b[v].gate \in DOMAIN module[func].ops
            BY <1>2 DEF IInv, TypeOK
        <3> HIDE DEF b
        <3> QED BY <3>2, <3>3
    <2>4. \A i \in GatesOf(func) : i \in Nat
        BY <1>2 DEF GatesOf
    <2>5. \A v \in DOMAIN body'[func] : body'[func][v].gate < next + 1
        <3> HIDE DEF c, b
        <3> QED BY <1>2, <1>8, <2>1, <2>2, <2>3
    <2>6. \A i \in GatesOf(func) : i < next + 1 => \E v \in DOMAIN body'[func] : body'[func][v].gate = i
        <3> SUFFICES ASSUME NEW i \in GatesOf(func), i < next + 1
                     PROVE  \E v \in DOMAIN body'[func] : body'[func][v].gate = i
            OBVIOUS
        <3>1. CASE i = next
            <4> HIDE DEF c, b
            <4> QED BY <1>8, <2>2, <3>1
        <3>2. CASE i # next
            <4>1. i < next
                BY <1>2, <2>4, <3>2
            <4>2. PICK v \in DOMAIN b : b[v].gate = i
                BY <2>1, <4>1 DEF GateIsMultiplied
            <4> HIDE DEF c, b
            <4> QED BY <1>8, <4>2
        <3> QED BY <3>1, <3>2
    <2>7. \A f \in Passed : f # func /\ f \in DOMAIN module /\ body'[f] = body[f]
        BY <1>4, <1>8 DEF Passed, KernelsOfModule
    <2> QED BY <1>1, <1>3, <1>4, <2>1, <2>5, <2>6, <2>7 DEF EachGateMultiplied, GateIsMultiplied
<1> QED BY <1>15, <1>16, <1>17, <1>18, <1>19, <1>20, <1>21 DEF IInv

-----------------------------------------------------------------------------

LEMMA InitInvariant == Init => IInv
<1> SUFFICES ASSUME Init PROVE IInv
    OBVIOUS
<1>1. /\ module \in Modules /\ present = DOMAIN module /\ inserted = <<>> /\ func = 1
      /\ next = 0 /\ state = 0 /\ body = [f \in DOMAIN module |-> <<>>]
      /\ result = [f \in DOMAIN module |-> 0] /\ quakeKernels = <<>>
    BY DEF Init
<1>2. module \in Seq(Function)
    BY <1>1, QuakeToLinAlgAssumption
<1>3. TypeOK
    BY <1>1, <1>2 DEF TypeOK
<1>4. Passed = {} /\ Begun = {}
    BY <1>1, <1>2 DEF Passed, Begun, KernelsOfModule
<1>5. KernelsNoted
    BY <1>1, <1>4 DEF KernelsNoted, Range
<1>6. FunctionsInFront
    BY <1>1, <1>4 DEF FunctionsInFront
<1>7. DeclarationsOfGates
    BY <1>1 DEF DeclarationsOfGates
<1>8. CallsMatchDeclarations
    BY <1>1 DEF CallsMatchDeclarations, Calls, IsCall
<1>9. Chained /\ EachGateMultiplied
    BY <1>1, <1>4 DEF Chained, EachGateMultiplied
<1> QED BY <1>3, <1>5, <1>6, <1>7, <1>8, <1>9 DEF IInv

LEMMA StutterPreserves ==
    ASSUME IInv, UNCHANGED vars
    PROVE  IInv'
<1>1. /\ module' = module /\ present' = present /\ inserted' = inserted /\ func' = func
      /\ next' = next /\ state' = state /\ body' = body /\ result' = result
      /\ quakeKernels' = quakeKernels
    BY DEF vars
<1>2. /\ MatrixNames' = MatrixNames /\ Inserted' = Inserted
      /\ Multiplications' = Multiplications /\ KernelsOfModule' = KernelsOfModule
      /\ \A f : GatesOf(f)' = GatesOf(f)
    BY <1>1, SameModule
<1>3. Passed' = Passed /\ Begun' = Begun
    BY <1>1, <1>2 DEF Passed, Begun
<1>4. DeclarationsOfGates' /\ CallsMatchDeclarations'
    BY <1>1, SameFunctions
<1> QED BY <1>1, <1>2, <1>3, <1>4
        DEF IInv, TypeOK, KernelsNoted, FunctionsInFront, Chained, EachGateMultiplied,
            GateIsMultiplied

LEMMA StepInvariant == IInv /\ [Next]_vars => IInv'
<1> SUFFICES ASSUME IInv, [Next]_vars PROVE IInv'
    OBVIOUS
<1>1. CASE SkipFunction
    BY <1>1, SkipFunctionPreserves
<1>2. CASE BeginKernel
    BY <1>2, BeginKernelPreserves
<1>3. CASE SkipOperation
    BY <1>3, SkipOperationPreserves
<1>4. CASE ConvertGate
    BY <1>4, ConvertGatePreserves
<1>5. CASE EndKernel
    BY <1>5, EndKernelPreserves
<1>6. CASE Erase
    BY <1>6, ErasePreserves
<1>7. CASE UNCHANGED vars
    BY <1>7, StutterPreserves
<1> QED BY <1>1, <1>2, <1>3, <1>4, <1>5, <1>6, <1>7 DEF Next

LEMMA Invariance == Spec => []IInv
BY InitInvariant, StepInvariant, PTL DEF Spec

\* Read off the chain: the gates of the product are those of the kernel, in their order.
LEMMA ChainIsProduct == IInv => ProductOfGates
<1> SUFFICES ASSUME IInv, NEW f \in Range(quakeKernels)
             PROVE  LET p == Product(f, result[f])
                    IN  /\ Range(p) = GatesOf(f)
                        /\ \A i, j \in DOMAIN p : i < j => p[i] < p[j]
    BY DEF ProductOfGates
<1> DEFINE b == body[f]
           n == Len(b)
           p == [i \in 1 .. n |-> b[i].gate]
<1>1. f \in Passed /\ f \in DOMAIN module
    BY DEF IInv, KernelsNoted, Passed, KernelsOfModule
<1>2. b \in Seq(Multiplications) /\ n \in Nat /\ DOMAIN b = 1 .. n
    BY <1>1 DEF IInv, TypeOK
<1>3. /\ \A v \in 1 .. n : b[v].vector = v - 1 /\ b[v].gate \in GatesOf(f)
      /\ \A v, w \in 1 .. n : v < w => b[v].gate < b[w].gate
    BY <1>1, <1>2 DEF IInv, Chained
<1>4. /\ result[f] = n
      /\ \A i \in GatesOf(f) : \E v \in 1 .. n : b[v].gate = i
    BY <1>1, <1>2 DEF IInv, EachGateMultiplied, GateIsMultiplied
<1>5. Product(f, n) = p
    BY <1>2, <1>3, ProductOfChain
<1> HIDE DEF b, n
<1>6. Range(p) = GatesOf(f)
    BY <1>3, <1>4 DEF Range
<1>7. \A i, j \in DOMAIN p : i < j => p[i] < p[j]
    BY <1>3
<1> HIDE DEF p
<1> QED BY <1>4, <1>5, <1>6, <1>7

LEMMA StepErases == IInv /\ [Next]_vars /\ present' # present =>
    /\ present' = present \ KernelsOfModule
    /\ \A f \in KernelsOfModule : \E i \in DOMAIN inserted : inserted[i] = GpuFunction(f)
<1> SUFFICES ASSUME IInv, [Next]_vars, present' # present
             PROVE  /\ present' = present \ KernelsOfModule
                    /\ \A f \in KernelsOfModule :
                         \E i \in DOMAIN inserted : inserted[i] = GpuFunction(f)
    OBVIOUS
<1>1. Erase
    BY DEF Next, vars, SkipFunction, BeginKernel, SkipOperation, ConvertGate, EndKernel
<1>2. present' = present \ Range(quakeKernels) /\ func = Len(module) + 1
    BY <1>1 DEF Erase
<1>3. Passed = KernelsOfModule /\ KernelsOfModule \subseteq Begun
    <2>1. \A f \in KernelsOfModule : f < func
        BY <1>2, ModuleHasType DEF KernelsOfModule
    <2> QED BY <2>1 DEF Passed, Begun
<1>4. Range(quakeKernels) = KernelsOfModule
    BY <1>3 DEF IInv, KernelsNoted
<1>5. ASSUME NEW f \in KernelsOfModule
      PROVE  \E i \in DOMAIN inserted : inserted[i] = GpuFunction(f)
    BY <1>3 DEF IInv, FunctionsInFront, KernelsOfModule
<1> QED BY <1>2, <1>4, <1>5

-----------------------------------------------------------------------------
(* Shared matrices *)

\* Modules in which the name of a matrix tells all of its gate: at most ten qubits, told
\* apart by their indices, and no gate next to an adjoint of its name
GatesOfModule(m) == {op \in UNION {Range(m[f].ops) : f \in DOMAIN m} : isOperator(op)}
Operands(op) == Range(op.ctrls) \cup Range(op.tgts)
NamesTellGates(m) ==
    /\ \A op, o \in GatesOfModule(m) : op.gate = o.gate => op.adj = o.adj
    /\ \A op, o \in GatesOfModule(m) : \A w \in Operands(op), v \in Operands(o) :
         w.idx \in 0 .. 9 /\ (w.idx = v.idx => w = v)

\* A multiplication takes the matrix with the name of its gate.
NamedAfterGates ==
    \A f \in DOMAIN module : \A v \in DOMAIN body[f] :
      body[f][v].matrix = FunctionName(module[f], module[f].ops[body[f][v].gate])

LEMMA StepKeepsNames == IInv /\ NamedAfterGates /\ [Next]_vars => NamedAfterGates'
<1> SUFFICES ASSUME IInv, NamedAfterGates, [Next]_vars PROVE NamedAfterGates'
    OBVIOUS
<1>1. CASE ConvertGate
    <2> DEFINE name == FunctionName(module[func], module[func].ops[next])
               c == [matrix |-> name,
                     arguments |-> getParametersValues(module[func].ops[next].params),
                     vector |-> state, gate |-> next]
               b == body[func]
    <2>1. /\ module' = module /\ next # 0 /\ next \in DOMAIN module[func].ops
          /\ body' = [body EXCEPT ![func] = Append(b, c)]
        BY <1>1 DEF ConvertGate, insertMulN
    <2>2. func \in DOMAIN module /\ body \in [DOMAIN module -> Seq(Multiplications)]
        BY <2>1 DEF IInv, TypeOK
    <2>3. b \in Seq(Multiplications)
        BY <2>2
    <2>4. c.matrix = name /\ c.gate = next
        OBVIOUS
    <2>5. /\ body'[func] = Append(b, c)
          /\ \A f \in DOMAIN module : f # func => body'[f] = body[f]
        <3> HIDE DEF b, c
        <3> QED BY <2>1, <2>2
    <2>6. ASSUME NEW v \in DOMAIN body'[func]
          PROVE  body'[func][v].matrix = FunctionName(module[func], module[func].ops[body'[func][v].gate])
        <3>1. (v \in DOMAIN b /\ body'[func][v] = b[v]) \/ body'[func][v] = c
            <4> HIDE DEF b, c
            <4> QED BY <2>3, <2>5, <2>6
        <3>2. CASE v \in DOMAIN b /\ body'[func][v] = b[v]
            BY <2>2, <3>2 DEF NamedAfterGates
        <3>3. CASE body'[func][v] = c
            BY <2>4, <3>3
        <3> QED BY <3>1, <3>2, <3>3
    <2> HIDE DEF b, c, name
    <2> QED BY <2>1, <2>5, <2>6 DEF NamedAfterGates
<1>2. CASE ~ ConvertGate
    <2>1. module' = module /\ body' = body
        BY <1>2 DEF Next, vars, SkipFunction, BeginKernel, SkipOperation, EndKernel, Erase
    <2> QED BY <2>1 DEF NamedAfterGates
<1> QED BY <1>1, <1>2

\* Indices of one digit are read off their concatenation.
LEMMA ConcatenatedDigits ==
    ASSUME NEW ws \in Seq(Wires), \A w \in Range(ws) : w.idx \in 0 .. 9
    PROVE  Concatenated(getIndicesOfValueRange(ws)) = getIndicesOfValueRange(ws)
<1> DEFINE is == getIndicesOfValueRange(ws)
<1>1. is = [i \in DOMAIN ws |-> ws[i].idx] /\ \A i \in DOMAIN ws : ws[i] \in Range(ws)
    BY DEF getIndicesOfValueRange, extractIndexFromQuakeExtractRefOp, Range
<1>2. is \in Seq(0 .. 9)
    BY <1>1
<1> HIDE DEF is
<1>3. \A i \in 0 .. 9 : Digits(i) = <<i>>
    BY DEF Digits
<1>4. \A k \in DOMAIN is : is[k] \in 0 .. 9
    BY <1>2
<1>5. Concatenated(is) = FlattenSeq([k \in DOMAIN is |-> <<is[k]>>])
    <2>1. [k \in DOMAIN is |-> Digits(is[k])] = [k \in DOMAIN is |-> <<is[k]>>]
        BY <1>3, <1>4
    <2> QED BY <2>1 DEF Concatenated
<1>6. FlattenSeq([k \in DOMAIN is |-> <<is[k]>>]) = is
    BY <1>2, FlattenSingles
<1> QED BY <1>5, <1>6 DEF is

LEMMA IndicesTellWires ==
    ASSUME NEW ws \in Seq(Wires), NEW us \in Seq(Wires),
           getIndicesOfValueRange(ws) = getIndicesOfValueRange(us),
           \A w \in Range(ws), u \in Range(us) : w.idx = u.idx => w = u
    PROVE  ws = us
<1>1. Len(ws) = Len(us)
    BY DEF getIndicesOfValueRange
<1>2. ASSUME NEW i \in 1 .. Len(ws) PROVE ws[i] = us[i]
    <2>1. getIndicesOfValueRange(ws)[i] = ws[i].idx /\ getIndicesOfValueRange(us)[i] = us[i].idx
        BY <1>1 DEF getIndicesOfValueRange, extractIndexFromQuakeExtractRefOp
    <2>2. ws[i] \in Range(ws) /\ us[i] \in Range(us)
        BY <1>1 DEF Range
    <2> QED BY <2>1, <2>2
<1> QED BY <1>1, <1>2

LEMMA NamesTellOperands ==
    ASSUME NEW op \in Op, NEW o \in Op, NEW kernel, NEW other,
           \A w \in Operands(op) \cup Operands(o) : w.idx \in 0 .. 9,
           \A w \in Operands(op), v \in Operands(o) : w.idx = v.idx => w = v,
           FunctionName(kernel, op) = FunctionName(other, o)
    PROVE  op.gate = o.gate /\ op.ctrls = o.ctrls /\ op.tgts = o.tgts
<1>1. /\ op.ctrls \in Seq(Wires) /\ op.tgts \in Seq(Wires)
      /\ o.ctrls \in Seq(Wires) /\ o.tgts \in Seq(Wires)
    BY DEF Op
<1>2. /\ op.gate = o.gate
      /\ Concatenated(getIndicesOfValueRange(op.ctrls)) = Concatenated(getIndicesOfValueRange(o.ctrls))
      /\ Concatenated(getIndicesOfValueRange(op.tgts)) = Concatenated(getIndicesOfValueRange(o.tgts))
    BY DEF FunctionName
<1>3. op.ctrls = o.ctrls
    <2>1. /\ Concatenated(getIndicesOfValueRange(op.ctrls)) = getIndicesOfValueRange(op.ctrls)
          /\ Concatenated(getIndicesOfValueRange(o.ctrls)) = getIndicesOfValueRange(o.ctrls)
        BY <1>1, ConcatenatedDigits DEF Operands
    <2>2. getIndicesOfValueRange(op.ctrls) = getIndicesOfValueRange(o.ctrls)
        BY <1>2, <2>1
    <2>3. \A w \in Range(op.ctrls), v \in Range(o.ctrls) : w.idx = v.idx => w = v
        BY DEF Operands
    <2> QED BY <1>1, <2>2, <2>3, IndicesTellWires
<1>4. op.tgts = o.tgts
    <2>1. /\ Concatenated(getIndicesOfValueRange(op.tgts)) = getIndicesOfValueRange(op.tgts)
          /\ Concatenated(getIndicesOfValueRange(o.tgts)) = getIndicesOfValueRange(o.tgts)
        BY <1>1, ConcatenatedDigits DEF Operands
    <2>2. getIndicesOfValueRange(op.tgts) = getIndicesOfValueRange(o.tgts)
        BY <1>2, <2>1
    <2>3. \A w \in Range(op.tgts), v \in Range(o.tgts) : w.idx = v.idx => w = v
        BY DEF Operands
    <2> QED BY <1>1, <2>2, <2>3, IndicesTellWires
<1> QED BY <1>2, <1>3, <1>4

LEMMA NamesGiveMatrices ==
    IInv /\ NamedAfterGates => (NamesTellGates(module) => OneNameOneMatrix)
<1> SUFFICES ASSUME IInv, NamedAfterGates, NamesTellGates(module),
                    NEW c \in Calls, NEW d \in Calls, IsCall(c), IsCall(d),
                    Call(c).matrix = Call(d).matrix
             PROVE  /\ GateOfCall(c).gate = GateOfCall(d).gate
                    /\ GateOfCall(c).adj = GateOfCall(d).adj
                    /\ GateOfCall(c).ctrls = GateOfCall(d).ctrls
                    /\ GateOfCall(c).tgts = GateOfCall(d).tgts
    BY DEF OneNameOneMatrix
<1>1. ASSUME NEW x \in Calls, IsCall(x)
      PROVE  /\ GateOfCall(x) \in GatesOfModule(module) /\ GateOfCall(x) \in Op
             /\ Call(x).matrix = FunctionName(module[x[1]], GateOfCall(x))
    <2>1. x[1] \in DOMAIN module
        BY DEF Calls
    <2>2. x[2] \in DOMAIN body[x[1]]
        BY <1>1 DEF IsCall
    <2>3. Call(x).gate \in GatesOf(x[1])
        BY <2>1, <2>2 DEF IInv, Chained, Call
    <2>4. Call(x).gate \in DOMAIN module[x[1]].ops /\ isOperator(GateOfCall(x))
        BY <2>3 DEF GatesOf, GateOfCall
    <2>5. GateOfCall(x) \in Range(module[x[1]].ops)
        BY <2>4 DEF GateOfCall, Range
    <2>6. GateOfCall(x) \in GatesOfModule(module)
        BY <2>1, <2>4, <2>5 DEF GatesOfModule
    <2>7. GateOfCall(x) \in Op
        BY <2>1, <2>4, ModuleHasType DEF GateOfCall
    <2>8. Call(x).matrix = FunctionName(module[x[1]], GateOfCall(x))
        BY <2>1, <2>2 DEF NamedAfterGates, Call, GateOfCall
    <2> QED BY <2>6, <2>7, <2>8
<1> DEFINE op == GateOfCall(c)
           o == GateOfCall(d)
<1>2. /\ op \in GatesOfModule(module) /\ op \in Op /\ o \in GatesOfModule(module) /\ o \in Op
      /\ FunctionName(module[c[1]], op) = FunctionName(module[d[1]], o)
    BY <1>1
<1> HIDE DEF op, o
<1>3. /\ \A w \in Operands(op) \cup Operands(o) : w.idx \in 0 .. 9
      /\ \A w \in Operands(op), v \in Operands(o) : w.idx = v.idx => w = v
      /\ op.gate = o.gate => op.adj = o.adj
    BY <1>2 DEF NamesTellGates
<1>4. op.gate = o.gate /\ op.ctrls = o.ctrls /\ op.tgts = o.tgts
    BY <1>2, <1>3, NamesTellOperands
<1> QED BY <1>3, <1>4 DEF op, o

-----------------------------------------------------------------------------
(* The theorems *)

\* Every variable has its type, for all modules: a multiplication uses a value made before it.
THEOREM TypeCorrect == Spec => []TypeOK
<1>1. IInv => TypeOK
    BY DEF IInv
<1> QED BY <1>1, Invariance, PTL

\* What the function of a converted kernel returns is the product of the matrices of all
\* gates of the kernel, each once and in their order, for kernels of every length.
THEOREM ProductIsGates == Spec => []ProductOfGates
BY ChainIsProduct, Invariance, PTL

\* Each name is declared once, and each call agrees with its declaration, for all modules
\* in which the name of a gate says how many parameters it has.
THEOREM CallsAreDeclared == Spec => []CallsMatchDeclarations
<1>1. IInv => CallsMatchDeclarations
    BY DEF IInv
<1> QED BY <1>1, Invariance, PTL

\* The kernels are erased together, when there is a function for each, for all modules.
THEOREM KernelsGoTogether == Spec => ErasedAtTheEnd
<1>1. IInv /\ [Next]_vars =>
        [present' # present =>
           /\ present' = present \ KernelsOfModule
           /\ \A f \in KernelsOfModule :
                \E i \in DOMAIN inserted : inserted[i] = GpuFunction(f)]_vars
    BY StepErases
<1> QED BY <1>1, Invariance, PTL DEF Spec, ErasedAtTheEnd

\* Two calls of one name are for gates that do the same to the same qubits, in every module
\* in which the name tells the gate; what it does not tell are adjoints, registers and where
\* one of two indices ends.
THEOREM SharedMatricesAreRight == Spec => [](NamesTellGates(module) => OneNameOneMatrix)
<1>1. Init => NamedAfterGates
    BY DEF Init, NamedAfterGates
<1> QED BY <1>1, Invariance, StepKeepsNames, NamesGiveMatrices, PTL DEF Spec
=============================================================================
