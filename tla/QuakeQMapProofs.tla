-------------------------- MODULE QuakeQMapProofs --------------------------
(***************************************************************************)
(* The pass quake-to-qmap-pass, for kernels of any length, any device and  *)
(* anything QMAP may do: a covered kernel comes out with all its           *)
(* operations on the qubits they were on, what is built fits the device,   *)
(* and qubits that are measured have bits of their own.                    *)
(***************************************************************************)
EXTENDS QuakeQMap, PassLemmas

-----------------------------------------------------------------------------
(* The functions that are given *)

LEMMA InputHasType ==
    ASSUME NEW func \in Inputs
    PROVE  /\ func \in Function /\ func.prefixed \in BOOLEAN
           /\ func.ops \in Seq(Op) /\ func.allocs \in Seq(Allocas)
           /\ getNumberOfQubits(func) \in 1 .. DeviceQubits /\ DeviceQubits \in Nat
BY QuakeQMapAssumption DEF Function

\* Values of the qubits of registers: those of the input, and the one the pass allocates
Refs == [reg : STRING \cup {"mapped"}, idx : Int]

LEMMA WireHasIndex ==
    ASSUME NEW w \in Refs
    PROVE  /\ w.idx \in Int /\ extractIndexFromQuakeExtractRefOp(w) = w.idx
           /\ \A v \in Refs : v.reg = w.reg /\ v.idx = w.idx => v = w
BY DEF Refs, extractIndexFromQuakeExtractRefOp

LEMMA WiresAreRefs == Wires \subseteq Refs
BY QuakeOpsAssumption DEF Refs

LEMMA IndicesOfRefs ==
    ASSUME NEW ws \in Seq(Refs)
    PROVE  /\ getIndicesOfValueRange(ws) \in Seq(Int)
           /\ Len(getIndicesOfValueRange(ws)) = Len(ws)
           /\ DOMAIN getIndicesOfValueRange(ws) = DOMAIN ws
           /\ \A k \in DOMAIN ws : ws[k] \in Refs /\ getIndicesOfValueRange(ws)[k] = ws[k].idx
<1>1. \A k \in DOMAIN ws : ws[k] \in Refs
    OBVIOUS
<1>2. \A k \in DOMAIN ws : extractIndexFromQuakeExtractRefOp(ws[k]) \in Int
    BY <1>1, WireHasIndex
<1> DEFINE is == [i \in DOMAIN ws |-> extractIndexFromQuakeExtractRefOp(ws[i])]
<1>3. is \in Seq(Int) /\ Len(is) = Len(ws) /\ DOMAIN is = DOMAIN ws
    BY <1>2
<1>4. \A k \in DOMAIN ws : is[k] = ws[k].idx
    BY <1>1, WireHasIndex
<1>5. getIndicesOfValueRange(ws) = is
    BY DEF getIndicesOfValueRange
<1> HIDE DEF is
<1> QED BY <1>1, <1>3, <1>4, <1>5

\* The indices of some values and more are theirs and those of the others.
LEMMA IndicesOfConcat ==
    ASSUME NEW a \in Seq(Refs), NEW b \in Seq(Refs)
    PROVE  getIndicesOfValueRange(a \o b) = getIndicesOfValueRange(a) \o getIndicesOfValueRange(b)
<1> DEFINE s == getIndicesOfValueRange(a)
           t == getIndicesOfValueRange(b)
           u == getIndicesOfValueRange(a \o b)
<1>1. a \o b \in Seq(Refs) /\ Len(a \o b) = Len(a) + Len(b)
    BY ConcatProperties
<1>2. u \in Seq(Int) /\ Len(u) = Len(a) + Len(b)
    BY <1>1, IndicesOfRefs
<1>3. s \in Seq(Int) /\ t \in Seq(Int) /\ Len(s) = Len(a) /\ Len(t) = Len(b)
    BY IndicesOfRefs
<1> HIDE DEF s, t, u
<1>4. /\ s \o t \in Seq(Int) /\ Len(s \o t) = Len(a) + Len(b)
      /\ \A i \in 1 .. Len(a) + Len(b) :
           (s \o t)[i] = IF i <= Len(a) THEN s[i] ELSE t[i - Len(a)]
    <2> DEFINE I == Int
    <2>1. s \in Seq(I) /\ t \in Seq(I)
        BY <1>3
    <2> HIDE DEF I
    <2>2. /\ s \o t \in Seq(I) /\ Len(s \o t) = Len(s) + Len(t)
          /\ \A i \in 1 .. Len(s) + Len(t) :
               (s \o t)[i] = IF i <= Len(s) THEN s[i] ELSE t[i - Len(s)]
        BY <2>1, ConcatProperties
    <2> QED BY <1>3, <2>2 DEF I
<1>5. ASSUME NEW i \in 1 .. Len(a) + Len(b) PROVE u[i] = (s \o t)[i]
    <2>1. /\ i \in DOMAIN (a \o b) /\ Len(a) \in Nat /\ Len(b) \in Nat
          /\ (a \o b)[i] = IF i <= Len(a) THEN a[i] ELSE b[i - Len(a)]
        <3>1. Len(a) \in Nat /\ Len(b) \in Nat /\ DOMAIN (a \o b) = 1 .. Len(a \o b)
            BY <1>1
        <3> QED BY <3>1, ConcatProperties
    <2>2. u[i] = (a \o b)[i].idx
        BY <1>1, <2>1, IndicesOfRefs DEF u
    <2>3. (s \o t)[i] = IF i <= Len(a) THEN s[i] ELSE t[i - Len(a)]
        BY <1>4
    <2>4. CASE i <= Len(a)
        <3>1. i \in DOMAIN a
            BY <2>1, <2>4
        <3>2. s[i] = a[i].idx
            BY <3>1, IndicesOfRefs DEF s
        <3> QED BY <2>1, <2>2, <2>3, <2>4, <3>2
    <2>5. CASE ~ (i <= Len(a))
        <3>1. i - Len(a) \in 1 .. Len(b)
            <4>1. \A m, n \in Nat : \A j \in 1 .. m + n : ~ (j <= m) => j - m \in 1 .. n
                OBVIOUS
            <4>2. Len(a) \in Nat /\ Len(b) \in Nat
                BY <2>1
            <4> QED BY <2>5, <4>1, <4>2
        <3>2. i - Len(a) \in DOMAIN b
            BY <3>1
        <3>3. t[i - Len(a)] = b[i - Len(a)].idx
            BY <3>2, IndicesOfRefs DEF t
        <3> QED BY <2>1, <2>2, <2>3, <2>5, <3>3
    <2> QED BY <2>4, <2>5
<1>6. u = s \o t
    BY <1>2, <1>4, <1>5, SeqEqual DEF u
<1> QED BY <1>6 DEF s, t, u

\* An operation of the input: its operands, and what the dialect asks of it
LEMMA OperationOfInput ==
    ASSUME NEW func \in Inputs, NEW k \in DOMAIN func.ops
    PROVE  LET op == func.ops[k]
           IN  /\ op \in Op /\ op.params \in Seq(Params)
               /\ op.ctrls \in Seq(Wires) /\ op.tgts \in Seq(Wires)
               /\ op.gate \in {"rx", "ry", "rz"} => Len(op.params) = 1
               /\ op.gate \in {"x", "y", "z", "s", "t", "h"} \cup Measurements => op.params = <<>>
               /\ op.gate \in Gates \ {"swap"} => Len(op.tgts) = 1
               /\ isMeasurement(op) => op.ctrls = <<>> /\ op.tgts # <<>>
<1>1. func.ops \in Seq(Op)
    BY InputHasType
<1>2. func.ops[k] \in Op
    BY <1>1
<1> QED BY <1>2, OperandsAssumption DEF Op

LEMMA AngleIsNumber ==
    ASSUME NEW p \in Params
    PROVE  /\ extractDoubleArgumentValue(p) \in Int
           /\ createFloatValue(extractDoubleArgumentValue(p)) \in Params
           /\ extractDoubleArgumentValue(createFloatValue(extractDoubleArgumentValue(p)))
                = extractDoubleArgumentValue(p)
<1>1. p.ticks \in Int /\ p.constant \in BOOLEAN
    BY DEF Params
<1>2. \A t \in Int : AsFloat(t) \in Int /\ AsFloat(AsFloat(t)) = AsFloat(t)
    BY DEF AsFloat, FullTurn
<1>3. AsFloat(MinusOneRadian) = MinusOneRadian /\ MinusOneRadian \in Int
    BY DEF AsFloat, FullTurn, MinusOneRadian
<1>4. extractDoubleArgumentValue(p) \in {AsFloat(p.ticks), MinusOneRadian}
    BY <1>1 DEF extractDoubleArgumentValue
<1>5. extractDoubleArgumentValue(p) \in Int
         /\ AsFloat(extractDoubleArgumentValue(p)) = extractDoubleArgumentValue(p)
    BY <1>1, <1>2, <1>3, <1>4
<1>6. \A x \in Int : createFloatValue(x) \in Params
                       /\ extractDoubleArgumentValue(createFloatValue(x)) = AsFloat(x)
    BY DEF createFloatValue, extractDoubleArgumentValue, Params
<1> QED BY <1>5, <1>6

-----------------------------------------------------------------------------
(* How many qubits *)

Chosen(S) == [s \in SUBSET S |-> CHOOSE x \in s : TRUE]

LEMMA ChosenIsElement ==
    ASSUME NEW S, NEW s \in SUBSET S, s # {}
    PROVE  Chosen(S)[s] \in s /\ Chosen(S)[s] = CHOOSE x \in s : TRUE
BY DEF Chosen

\* The size of a register is a number; of the only one it is its own.
LEMMA VeqSizeIsSum ==
    ASSUME NEW func, func.allocs \in Seq(Allocas), NEW w
    PROVE  /\ VeqSize(func, w) \in Nat
           /\ Len(func.allocs) = 1 /\ func.allocs[1].reg = w.reg =>
                VeqSize(func, w) = func.allocs[1].size
<1> DEFINE S == DOMAIN func.allocs
           f == [i \in S |-> IF func.allocs[i].reg = w.reg THEN func.allocs[i].size ELSE 0]
           c == Chosen(S)
           E(g) == [s \in SUBSET S |->
                      IF s = {} THEN 0
                      ELSE LET x == CHOOSE x \in s : TRUE
                           IN  (IF func.allocs[x].reg = w.reg THEN func.allocs[x].size ELSE 0)
                                 + g[s \ {x}]]
           G == CHOOSE g : g = E(g)
<1>1. VeqSize(func, w) = G[S]
    BY DEF VeqSize, MapThenSumSet, MapThenFoldSet
<1>2. \A g : SumsUp(g, S, f, c) <=> \A s \in SUBSET S : g[s] = E(g)[s]
    <2>1. ASSUME NEW g, NEW s \in SUBSET S
          PROVE  E(g)[s] = IF s = {} THEN 0 ELSE f[c[s]] + g[s \ {c[s]}]
        <3>1. CASE s = {}
            BY <3>1
        <3>2. CASE s # {}
            <4> DEFINE x == CHOOSE x \in s : TRUE
            <4>1. c[s] = x /\ x \in S
                BY <3>2, ChosenIsElement
            <4>2. f[x] = IF func.allocs[x].reg = w.reg THEN func.allocs[x].size ELSE 0
                BY <4>1
            <4>3. E(g)[s] = (IF func.allocs[x].reg = w.reg THEN func.allocs[x].size ELSE 0)
                              + g[s \ {x}]
                BY <3>2
            <4> HIDE DEF x, f, c, E
            <4> QED BY <3>2, <4>1, <4>2, <4>3
        <3> QED BY <3>1, <3>2
    <2> HIDE DEF E, f, c, S
    <2> QED BY <2>1 DEF SumsUp
<1>3. IsFiniteSet(S) /\ f \in [S -> Nat] /\ \A s \in SUBSET S : s # {} => c[s] \in s
    <2>1. \A i \in S : func.allocs[i] \in Allocas
        OBVIOUS
    <2>2. \A i \in S : func.allocs[i].size \in Nat
        BY <2>1 DEF Allocas
    <2>3. S = 1 .. Len(func.allocs) /\ 1 \in Int /\ Len(func.allocs) \in Int
        OBVIOUS
    <2>4. IsFiniteSet(1 .. Len(func.allocs))
        BY <2>3, FS_Interval
    <2>5. f \in [S -> Nat]
        BY <2>2
    <2>6. \A s \in SUBSET S : s # {} => c[s] \in s
        <3> HIDE DEF S
        <3> QED BY ChosenIsElement
    <2> QED BY <2>3, <2>4, <2>5, <2>6
<1> HIDE DEF f, c
<1>4. \E g : g = E(g)
    <2>1. PICK g : SumsUp(g, S, f, c)
        BY <1>3, SumExists
    <2> DEFINE W == [s \in SUBSET S |-> g[s]]
    <2>2. SumsUp(W, S, f, c)
        <3>1. \A s \in SUBSET S : W[s] = g[s] /\ s \ {c[s]} \in SUBSET S
            OBVIOUS
        <3> HIDE DEF W
        <3> QED BY <2>1, <3>1 DEF SumsUp
    <2>3. \A s \in SUBSET S : W[s] = E(W)[s]
        BY <1>2, <2>2
    <2>4. W = [s \in SUBSET S |-> W[s]] /\ E(W) = [s \in SUBSET S |-> E(W)[s]]
        OBVIOUS
    <2> HIDE DEF W, E
    <2>5. W = E(W)
        BY <2>3, <2>4
    <2> QED BY <2>5
<1>5. G = E(G)
    <2> HIDE DEF E
    <2> QED BY <1>4
<1> HIDE DEF G, E
<1>6. SumsUp(G, S, f, c)
    BY <1>2, <1>5
<1>7. G[S] \in Nat
    BY <1>3, <1>6, SumIsNatural
<1>8. ASSUME Len(func.allocs) = 1, func.allocs[1].reg = w.reg PROVE G[S] = func.allocs[1].size
    <2>1. S = {1}
        BY <1>8
    <2>2. c[S] = 1 /\ S \ {1} = {} /\ S # {}
        BY <1>3, <2>1
    <2>3. f[1] = func.allocs[1].size
        BY <1>8, <2>1 DEF f
    <2>4. func.allocs[1].size \in Nat
        <3>1. func.allocs[1] \in Allocas
            BY <1>8
        <3> QED BY <3>1 DEF Allocas
    <2>5. G[S] = f[1] + G[{}] /\ G[{}] = 0
        BY <1>6, <2>2 DEF SumsUp
    <2> QED BY <2>3, <2>4, <2>5
<1> QED BY <1>1, <1>7, <1>8

\* A function with one register has its qubits.
LEMMA QubitsOfOneRegister ==
    ASSUME NEW func, NEW n \in Nat, NEW r, func.allocs = <<[reg |-> r, ref |-> FALSE, size |-> n]>>
    PROVE  getNumberOfQubits(func) = n
<1> DEFINE S == DOMAIN func.allocs
           size(x) == IF func.allocs[x].ref THEN 1 ELSE func.allocs[x].size
           E(g) == [s \in SUBSET S |->
                      IF s = {} THEN 0 ELSE LET x == CHOOSE x \in s : TRUE
                                            IN  size(x) + g[s \ {x}]]
           G == CHOOSE g : g = E(g)
           W == [s \in SUBSET S |-> IF s = {} THEN 0 ELSE n]
<1>1. getNumberOfQubits(func) = G[S]
    BY DEF getNumberOfQubits, MapThenSumSet, MapThenFoldSet
<1>2. S = {1} /\ size(1) = n
    OBVIOUS
<1> HIDE DEF S, size
<1>3. ASSUME NEW s \in SUBSET S, s # {}
      PROVE  /\ s = S /\ (CHOOSE x \in s : TRUE) = 1 /\ s \ {1} = {} /\ {} \in SUBSET S
             /\ \A g : E(g)[s] = n + g[{}] /\ E(g)[{}] = 0
    <2>1. s = {1}
        BY <1>2, <1>3
    <2>2. (CHOOSE x \in s : TRUE) \in s
        BY <2>1
    <2>3. (CHOOSE x \in s : TRUE) = 1
        BY <2>1, <2>2
    <2>4. \A g : E(g)[s] = size(CHOOSE x \in s : TRUE) + g[s \ {CHOOSE x \in s : TRUE}]
        BY <1>3
    <2>5. s \ {1} = {} /\ {} \in SUBSET S
        BY <2>1
    <2>6. \A g : E(g)[{}] = 0
        BY <2>5
    <2> HIDE DEF E
    <2> QED BY <1>2, <2>1, <2>3, <2>4, <2>5, <2>6
<1>4. W = E(W)
    <2>1. ASSUME NEW s \in SUBSET S PROVE W[s] = E(W)[s]
        <3>1. CASE s = {}
            BY <3>1
        <3>2. CASE s # {}
            <4>1. W[s] = n /\ W[{}] = 0
                BY <3>2
            <4> HIDE DEF W, E
            <4> QED BY <1>3, <3>2, <4>1
        <3> QED BY <3>1, <3>2
    <2>2. W = [s \in SUBSET S |-> W[s]] /\ E(W) = [s \in SUBSET S |-> E(W)[s]]
        OBVIOUS
    <2> HIDE DEF W, E
    <2> QED BY <2>1, <2>2
<1> HIDE DEF W, E
<1>5. G = E(G)
    BY <1>4
<1> HIDE DEF G
<1>6. S \in SUBSET S /\ S # {}
    BY <1>2
<1>7. E(G)[S] = n + G[{}] /\ E(G)[{}] = 0
    BY <1>3, <1>6
<1> QED BY <1>1, <1>5, <1>7

-----------------------------------------------------------------------------
(* Classical bits *)

Counts == [numBits : Nat, measurements : UNION {[D -> Nat] : D \in SUBSET Int}]

LEMMA MeasuredAreWires ==
    ASSUME NEW func \in Inputs
    PROVE  /\ MeasuredOperands(func) \in Seq(Wires)
           /\ \A k \in DOMAIN func.ops : isMeasurement(func.ops[k]) =>
                Range(func.ops[k].tgts) \subseteq Range(MeasuredOperands(func))
<1> DEFINE SW == Seq(Wires)
           ss == [i \in DOMAIN func.ops |->
                    IF isMeasurement(func.ops[i]) THEN func.ops[i].tgts ELSE <<>>]
<1>1. func.ops \in Seq(Op) /\ \A i \in DOMAIN func.ops : func.ops[i].tgts \in SW
    BY InputHasType, OperationOfInput
<1>2. <<>> \in SW
    OBVIOUS
<1> HIDE DEF SW
<1>3. ss \in Seq(SW)
    BY <1>1, <1>2
<1>4. MeasuredOperands(func) = FlattenSeq(ss)
    BY DEF MeasuredOperands
<1>5. ASSUME NEW k \in DOMAIN func.ops, isMeasurement(func.ops[k]),
             NEW w \in Range(func.ops[k].tgts)
      PROVE  w \in Range(MeasuredOperands(func))
    <2>1. k \in DOMAIN ss /\ w \in Range(ss[k])
        BY <1>5
    <2> HIDE DEF ss
    <2> QED BY <1>3, <1>4, <2>1, FlattenContains DEF SW
<1> HIDE DEF ss
<1> QED BY <1>3, <1>4, <1>5, FlattenIsSeq DEF SW

LEMMA CountHasType ==
    ASSUME NEW func \in Inputs, NEW count \in Counts, NEW w \in Wires
    PROVE  CountOperand(func, count, w) \in Counts
<1>1. PICK D \in SUBSET Int : count.measurements \in [D -> Nat]
    BY DEF Counts
<1>2. count.numBits \in Nat /\ DOMAIN count.measurements = D
    BY <1>1 DEF Counts
<1>3. w.idx \in Int /\ extractIndexFromQuakeExtractRefOp(w) = w.idx
    BY WireHasIndex, WiresAreRefs
<1>4. CASE IsVeq(w)
    <2> DEFINE n == count.numBits + VeqSize(func, w)
               m == [i \in DOMAIN count.measurements \cup 0 .. n - 1 |->
                       IF i \in 0 .. n - 1 THEN i ELSE count.measurements[i]]
    <2>1. n \in Nat
        BY <1>2, VeqSizeIsSum, InputHasType
    <2> HIDE DEF n
    <2>2. m \in [D \cup 0 .. n - 1 -> Nat] /\ D \cup 0 .. n - 1 \in SUBSET Int
        BY <1>1, <1>2, <2>1
    <2>3. CountOperand(func, count, w) = [numBits |-> n, measurements |-> m]
        BY <1>4 DEF CountOperand, n
    <2> HIDE DEF m
    <2>4. m \in UNION {[A -> Nat] : A \in SUBSET Int}
        BY <2>2
    <2> QED BY <2>1, <2>3, <2>4 DEF Counts
<1>5. CASE ~ IsVeq(w)
    <2> DEFINE m == Put(count.measurements, w.idx, count.numBits)
    <2>1. m \in [D \cup {w.idx} -> Nat] /\ D \cup {w.idx} \in SUBSET Int
        BY <1>1, <1>2, <1>3 DEF Put
    <2>2. CountOperand(func, count, w) = [numBits |-> count.numBits + 1, measurements |-> m]
        BY <1>3, <1>5 DEF CountOperand
    <2> HIDE DEF m
    <2>3. m \in UNION {[A -> Nat] : A \in SUBSET Int}
        BY <2>1
    <2> QED BY <1>2, <2>2, <2>3 DEF Counts
<1> QED BY <1>4, <1>5

\* What is counted when so many operands have been
CountsUp(g, func, n) ==
    /\ g[0] = [numBits |-> 0, measurements |-> [i \in {} |-> 0]]
    /\ \A k \in 1 .. n : g[k] = CountOperand(func, g[k - 1], MeasuredOperands(func)[k])

\* The count goes from operand to operand.
LEMMA BitsAreCounted ==
    ASSUME NEW func \in Inputs
    PROVE  LET n == Len(MeasuredOperands(func))
           IN  \E g \in [0 .. n -> Counts] :
                 CountsUp(g, func, n) /\ getNumberOfClassicalBits(func) = g[n]
<1> DEFINE m == MeasuredOperands(func)
           n == Len(m)
           zero == [numBits |-> 0, measurements |-> [i \in {} |-> 0]]
           step == [k \in 1 .. n |-> [c \in Counts |-> CountOperand(func, c, m[k])]]
           E(f) == [k \in 0 .. n |-> IF k = 0 THEN zero ELSE CountOperand(func, f[k - 1], m[k])]
           F == CHOOSE f : f = E(f)
<1>1. n \in Nat /\ \A k \in 1 .. n : m[k] \in Wires
    BY MeasuredAreWires
<1>2. zero \in Counts
    <2>1. [i \in {} |-> 0] \in [{} -> Nat] /\ {} \in SUBSET Int
        OBVIOUS
    <2> QED BY <2>1 DEF Counts
<1>3. getNumberOfClassicalBits(func) = F[n]
    BY DEF getNumberOfClassicalBits
<1> HIDE DEF m, n, zero
<1>4. step \in [1 .. n -> [Counts -> Counts]]
    BY <1>1, CountHasType
<1>5. PICK g \in [0 .. n -> Counts] : Iterates(g, n, zero, step)
    <2> HIDE DEF step
    <2> QED BY <1>1, <1>2, <1>4, IterationExists
<1>6. \A k \in 1 .. n : g[k] = CountOperand(func, g[k - 1], m[k])
    <2>1. \A k \in 1 .. n : k - 1 \in 0 .. n
        BY <1>1
    <2> QED BY <1>5, <2>1 DEF Iterates
<1>7. g[0] = zero
    BY <1>5 DEF Iterates
<1>8. g = E(g)
    <2>1. ASSUME NEW k \in 0 .. n
          PROVE  g[k] = IF k = 0 THEN zero ELSE CountOperand(func, g[k - 1], m[k])
        <3>1. k # 0 => k \in 1 .. n
            BY <1>1
        <3> QED BY <1>6, <1>7, <3>1
    <2>2. g = [k \in 0 .. n |-> g[k]]
        BY <1>5
    <2> QED BY <2>1, <2>2
<1>9. F = E(F)
    <2> HIDE DEF E
    <2> QED BY <1>8
<1> HIDE DEF F
<1>10. GoAlike(g, F, n)
    <2>1. F[0] = zero
        BY <1>1, <1>9
    <2>2. ASSUME NEW k \in 1 .. n, g[k - 1] = F[k - 1] PROVE g[k] = F[k]
        <3>1. k \in 0 .. n /\ k # 0
            BY <1>1
        <3>2. F[k] = CountOperand(func, F[k - 1], m[k])
            BY <1>9, <3>1
        <3> QED BY <1>6, <2>2, <3>2
    <2> QED BY <1>7, <2>1, <2>2 DEF GoAlike
<1>11. Alike(g, F, n) /\ n \in 0 .. n
    BY <1>1, <1>10, SameIteration
<1>12. g[n] = F[n]
    BY <1>11 DEF Alike
<1>13. CountsUp(g, func, n)
    BY <1>6, <1>7 DEF CountsUp, m, zero
<1> QED BY <1>3, <1>12, <1>13 DEF n, m

\* Every qubit that is measured by itself has a bit.
HaveBits(count, func) ==
    /\ count \in Counts
    /\ \A w \in Range(MeasuredOperands(func)) : ~ IsVeq(w) =>
         w.idx \in DOMAIN count.measurements

LEMMA BitsAreKept ==
    ASSUME NEW func, NEW count, NEW w \in Wires
    PROVE  LET after == CountOperand(func, count, w)
           IN  /\ DOMAIN count.measurements \subseteq DOMAIN after.measurements
               /\ ~ IsVeq(w) => w.idx \in DOMAIN after.measurements
<1>1. extractIndexFromQuakeExtractRefOp(w) = w.idx
    BY WireHasIndex, WiresAreRefs
<1>2. CASE IsVeq(w)
    BY <1>2 DEF CountOperand
<1>3. CASE ~ IsVeq(w)
    <2>1. CountOperand(func, count, w).measurements
            = Put(count.measurements, w.idx, count.numBits)
        BY <1>1, <1>3 DEF CountOperand
    <2> QED BY <2>1 DEF Put
<1> QED BY <1>2, <1>3

LEMMA MeasuredHaveBits ==
    ASSUME NEW func \in Inputs
    PROVE  HaveBits(getNumberOfClassicalBits(func), func)
<1> DEFINE m == MeasuredOperands(func)
           n == Len(m)
<1>1. n \in Nat /\ (\A k \in 1 .. n : m[k] \in Wires) /\ Range(m) = {m[k] : k \in 1 .. n}
    BY MeasuredAreWires, RangeEquality
<1>2. PICK g \in [0 .. n -> Counts] : CountsUp(g, func, n) /\ getNumberOfClassicalBits(func) = g[n]
    BY BitsAreCounted
<1> HIDE DEF n
<1> DEFINE Fits(k) == \A j \in 1 .. k : ~ IsVeq(m[j]) => m[j].idx \in DOMAIN g[k].measurements
           S == {k \in 0 .. n : Fits(k)}
<1>3. 0 \in S
    BY <1>1
<1>4. ASSUME NEW k \in 1 .. n, k - 1 \in S PROVE k \in S
    <2>1. g[k] = CountOperand(func, g[k - 1], m[k]) /\ m[k] \in Wires
        BY <1>1, <1>2 DEF CountsUp
    <2>2. ASSUME NEW j \in 1 .. k, ~ IsVeq(m[j]) PROVE m[j].idx \in DOMAIN g[k].measurements
        <3>1. CASE j = k
            BY <2>1, <2>2, <3>1, BitsAreKept
        <3>2. CASE j # k
            <4>1. j \in 1 .. k - 1
                BY <3>2
            <4>2. m[j].idx \in DOMAIN g[k - 1].measurements
                BY <1>4, <2>2, <4>1
            <4> QED BY <2>1, <4>2, BitsAreKept
        <3> QED BY <3>1, <3>2
    <2>3. k \in 0 .. n
        OBVIOUS
    <2> QED BY <2>2, <2>3
<1>5. n \in S
    <2> HIDE DEF S
    <2>1. \A k \in 0 .. n : k \in S
        BY <1>1, <1>3, <1>4, StepByStep
    <2> QED BY <1>1, <2>1
<1>6. g[n] \in Counts
    BY <1>1, <1>2
<1>7. \A w \in Range(m) : ~ IsVeq(w) => w.idx \in DOMAIN g[n].measurements
    BY <1>1, <1>5
<1> QED BY <1>2, <1>6, <1>7 DEF HaveBits

\* The bits given so far are below the count, each to one index; and an index is one of
\* the register or below the count, so that the next register has its bit replaced.
Apart(count, size) ==
    /\ \A i \in DOMAIN count.measurements :
         /\ i \in 0 .. size - 1 \cup 0 .. count.numBits - 1
         /\ count.measurements[i] \in 0 .. count.numBits - 1
    /\ \A i, j \in DOMAIN count.measurements :
         count.measurements[i] = count.measurements[j] => i = j

LEMMA CountKeepsApart ==
    ASSUME NEW func \in Inputs, Len(func.allocs) = 1, NEW count \in Counts, NEW w \in Wires,
           w.reg = func.allocs[1].reg, IsVeq(w) \/ w.idx \in 0 .. func.allocs[1].size - 1,
           Apart(count, func.allocs[1].size)
    PROVE  Apart(CountOperand(func, count, w), func.allocs[1].size)
<1> DEFINE size == func.allocs[1].size
           f == count.measurements
           b == count.numBits
<1>1. size \in Nat
    <2>1. func.allocs[1] \in Allocas
        BY InputHasType
    <2> QED BY <2>1 DEF Allocas
<1>2. b \in Nat /\ DOMAIN f \subseteq Int
    BY DEF Counts
<1>3. /\ \A i \in DOMAIN f : i \in 0 .. size - 1 \cup 0 .. b - 1 /\ f[i] \in 0 .. b - 1
      /\ \A i, j \in DOMAIN f : f[i] = f[j] => i = j
    BY DEF Apart
<1>4. CASE IsVeq(w)
    <2> DEFINE n == b + size
               g == [i \in DOMAIN f \cup 0 .. n - 1 |-> IF i \in 0 .. n - 1 THEN i ELSE f[i]]
    <2>1. CountOperand(func, count, w) = [numBits |-> n, measurements |-> g]
        <3>1. VeqSize(func, w) = size
            BY VeqSizeIsSum, InputHasType
        <3> QED BY <1>4, <3>1 DEF CountOperand
    <2> HIDE DEF size, f, b
    <2>2. DOMAIN f \subseteq 0 .. n - 1 /\ n \in Nat
        BY <1>1, <1>2, <1>3
    <2>3. DOMAIN g = 0 .. n - 1 /\ \A i \in 0 .. n - 1 : g[i] = i
        BY <2>2
    <2> HIDE DEF n, g
    <2>4. Apart([numBits |-> n, measurements |-> g], size)
        BY <2>2, <2>3 DEF Apart
    <2> QED BY <2>1, <2>4 DEF size
<1>5. CASE ~ IsVeq(w)
    <2> DEFINE g == Put(f, w.idx, b)
    <2>1. CountOperand(func, count, w) = [numBits |-> b + 1, measurements |-> g]
        BY <1>5, WireHasIndex, WiresAreRefs DEF CountOperand
    <2>2. w.idx \in 0 .. size - 1
        BY <1>5
    <2> HIDE DEF size, f, b
    <2>3. /\ DOMAIN g = DOMAIN f \cup {w.idx} /\ g[w.idx] = b
          /\ \A i \in DOMAIN f : i # w.idx => g[i] = f[i]
        BY DEF Put
    <2> HIDE DEF g
    <2>4. ASSUME NEW i \in DOMAIN g
          PROVE  i \in 0 .. size - 1 \cup 0 .. b /\ g[i] \in 0 .. b
        <3>1. CASE i = w.idx
            BY <1>2, <2>2, <2>3, <3>1
        <3>2. CASE i # w.idx
            <4>1. i \in DOMAIN f /\ g[i] = f[i]
                BY <2>3, <3>2
            <4>2. i \in 0 .. size - 1 \cup 0 .. b - 1 /\ f[i] \in 0 .. b - 1
                BY <1>3, <4>1
            <4> QED BY <1>2, <4>1, <4>2
        <3> QED BY <3>1, <3>2
    <2>5. ASSUME NEW i \in DOMAIN g, NEW j \in DOMAIN g, g[i] = g[j] PROVE i = j
        <3>1. \A k \in DOMAIN f : f[k] # b
            BY <1>2, <1>3
        <3>2. CASE i = w.idx \/ j = w.idx
            BY <2>3, <2>5, <3>1, <3>2
        <3>3. CASE i # w.idx /\ j # w.idx
            BY <1>3, <2>3, <2>5, <3>3
        <3> QED BY <3>2, <3>3
    <2>6. (b + 1) - 1 = b
        BY <1>2
    <2>7. Apart([numBits |-> b + 1, measurements |-> g], size)
        BY <2>4, <2>5, <2>6 DEF Apart
    <2> QED BY <2>1, <2>7 DEF size
<1> QED BY <1>4, <1>5

LEMMA MeasuredApart ==
    ASSUME NEW func \in Inputs, MeasuresItsRegister(func)
    PROVE  Apart(getNumberOfClassicalBits(func), func.allocs[1].size)
<1> DEFINE m == MeasuredOperands(func)
           n == Len(m)
           size == func.allocs[1].size
<1>1. n \in Nat /\ (\A k \in 1 .. n : m[k] \in Wires) /\ Range(m) = {m[k] : k \in 1 .. n}
    BY MeasuredAreWires, RangeEquality
<1>2. PICK g \in [0 .. n -> Counts] : CountsUp(g, func, n) /\ getNumberOfClassicalBits(func) = g[n]
    BY BitsAreCounted
<1>3. \A k \in 1 .. n : m[k] \in Range(m)
    BY <1>1
<1>4. \A k \in 1 .. n : m[k].reg = func.allocs[1].reg
                          /\ (IsVeq(m[k]) \/ m[k].idx \in 0 .. size - 1)
    BY <1>3 DEF MeasuresItsRegister
<1>5. Len(func.allocs) = 1
    BY DEF MeasuresItsRegister
<1> HIDE DEF n
<1> DEFINE S == {k \in 0 .. n : Apart(g[k], size)}
<1>6. 0 \in S
    <2>1. g[0].measurements = [i \in {} |-> 0]
        BY <1>2 DEF CountsUp
    <2>2. Apart(g[0], size)
        BY <2>1 DEF Apart
    <2> QED BY <1>1, <2>2
<1>7. ASSUME NEW k \in 1 .. n, k - 1 \in S PROVE k \in S
    <2>1. g[k] = CountOperand(func, g[k - 1], m[k]) /\ m[k] \in Wires
        BY <1>1, <1>2 DEF CountsUp
    <2>2. g[k - 1] \in Counts /\ Apart(g[k - 1], size)
        BY <1>2, <1>7
    <2>3. Apart(g[k], size)
        BY <1>4, <1>5, <2>1, <2>2, CountKeepsApart
    <2>4. k \in 0 .. n
        OBVIOUS
    <2> QED BY <2>3, <2>4
<1>8. n \in S
    <2> HIDE DEF S
    <2>1. \A k \in 0 .. n : k \in S
        BY <1>1, <1>6, <1>7, StepByStep
    <2> QED BY <1>1, <2>1
<1> QED BY <1>2, <1>8

-----------------------------------------------------------------------------
(* The gates of a circuit of QMAP *)

LEMMA QcGateHasType ==
    ASSUME NEW type \in Gates \cup {"barrier", "measure"}, NEW params \in Seq(Int),
           NEW ctrls \in Seq(Int), NEW tgts \in Seq(Int), NEW bits \in Seq(Nat)
    PROVE  [type |-> type, params |-> params, ctrls |-> ctrls, tgts |-> tgts, bits |-> bits]
             \in QcGates
BY DEF QcGates

LEMMA QcGateParts ==
    ASSUME NEW g \in QcGates
    PROVE  /\ g.type \in Gates \cup {"barrier", "measure"} /\ g.params \in Seq(Int)
           /\ g.ctrls \in Seq(Int) /\ g.tgts \in Seq(Int) /\ g.bits \in Seq(Nat)
BY DEF QcGates

LEMMA ShortSequences ==
    /\ <<>> \in Seq(Int) /\ <<>> \in Seq(Nat) /\ <<>> \in Seq(QcGates)
    /\ \A i \in Int : <<i>> \in Seq(Int)
    /\ \A b \in Nat : <<b>> \in Seq(Nat)
    /\ \A g \in QcGates : <<g>> \in Seq(QcGates)
OBVIOUS

\* The indices behind the parameters of an operation of the input
LEMMA QubitsOfInput ==
    ASSUME NEW func \in Inputs, NEW k \in DOMAIN func.ops
    PROVE  LET op == func.ops[k]
           IN  /\ Qubits(op) \in Seq(Int)
               /\ Len(Qubits(op)) = Len(op.ctrls) + Len(op.tgts)
               /\ Qubits(op) = getIndicesOfValueRange(op.ctrls) \o getIndicesOfValueRange(op.tgts)
<1> DEFINE op == func.ops[k]
<1>1. op.ctrls \in Seq(Refs) /\ op.tgts \in Seq(Refs)
    BY OperationOfInput, WiresAreRefs
<1> HIDE DEF op
<1>2. op.ctrls \o op.tgts \in Seq(Refs) /\ Len(op.ctrls \o op.tgts) = Len(op.ctrls) + Len(op.tgts)
    BY <1>1, ConcatProperties
<1> QED BY <1>1, <1>2, IndicesOfRefs, IndicesOfConcat DEF Qubits, op

LEMMA LoadedHasType ==
    ASSUME NEW func \in Inputs, NEW k \in DOMAIN func.ops, NEW count, HaveBits(count, func)
    PROVE  Loaded(func.ops[k], func, count).gates \in Seq(QcGates)
<1> DEFINE op == func.ops[k]
           is == Qubits(op)
<1>1. /\ op.gate \in Gates \cup NonGates
      /\ op.gate \in {"rx", "ry", "rz"} => Len(op.params) = 1
      /\ op.params \in Seq(Params) /\ op.tgts \in Seq(Wires)
      /\ op.gate \in Gates \ {"swap"} => Len(op.tgts) = 1
      /\ isMeasurement(op) => op.tgts # <<>>
    BY OperationOfInput DEF Op
<1>2. is \in Seq(Int) /\ Len(is) = Len(op.ctrls) + Len(op.tgts) /\ Len(op.ctrls) \in Nat
    <2>1. op.ctrls \in Seq(Wires)
        BY OperationOfInput
    <2>2. Len(op.ctrls) \in Nat
        BY <2>1
    <2> QED BY <2>2, QubitsOfInput
<1> HIDE DEF is
<1>3. CASE op.gate \in {"rx", "ry", "rz"}
    <2>1. is[1] \in Int /\ extractDoubleArgumentValue(op.params[1]) \in Int
        <3>1. Len(op.tgts) = 1 /\ 1 \in DOMAIN op.params
            BY <1>1, <1>3 DEF Gates
        <3>2. op.params[1] \in Params
            BY <1>1, <3>1
        <3>3. is[1] \in Int
            BY <1>2, <3>1
        <3> QED BY <3>2, <3>3, AngleIsNumber
    <2>2. QcGate(op.gate, <<extractDoubleArgumentValue(op.params[1])>>, <<>>, <<is[1]>>) \in QcGates
        <3>1. op.gate \in Gates \cup {"barrier", "measure"}
            BY <1>3 DEF Gates
        <3> QED BY <2>1, <3>1, QcGateHasType, ShortSequences DEF QcGate
    <2>3. Loaded(op, func, count).gates
            = <<QcGate(op.gate, <<extractDoubleArgumentValue(op.params[1])>>, <<>>, <<is[1]>>)>>
        <3>1. Loaded(op, func, count) = loadRotationGatesToQC(op)
            BY <1>3 DEF Loaded, isMeasurement, Measurements
        <3> QED BY <3>1 DEF loadRotationGatesToQC, Loads, is
    <2> QED BY <2>2, <2>3, ShortSequences
<1>4. CASE op.gate \in {"x", "y", "z", "s", "t", "h"}
    <2>1. op.gate \in Gates \cup {"barrier", "measure"} /\ ~ isMeasurement(op)
        BY <1>4 DEF Gates, isMeasurement, Measurements
    <2>2. QcGate(op.gate, <<>>, <<>>, is) \in QcGates
        BY <1>2, <2>1, QcGateHasType, ShortSequences DEF QcGate
    <2>3. ASSUME Len(is) = 2 PROVE QcGate(op.gate, <<>>, <<is[1]>>, <<is[2]>>) \in QcGates
        <3>1. is \in Seq(Int) /\ 1 \in DOMAIN is /\ 2 \in DOMAIN is
            BY <1>2, <2>3
        <3>2. is[1] \in Int /\ is[2] \in Int
            BY <3>1
        <3> QED BY <2>1, <3>2, QcGateHasType, ShortSequences DEF QcGate
    <2>4. Loaded(op, func, count).gates
            \in {<<>>, <<QcGate(op.gate, <<>>, <<>>, is)>>}
               \cup (IF Len(is) = 2 THEN {<<QcGate(op.gate, <<>>, <<is[1]>>, <<is[2]>>)>>} ELSE {})
        <3>1. CASE op.gate \in {"x", "y", "z"}
            <4>1. Loaded(op, func, count) = loadXYZGatesToQC(op)
                BY <3>1, <2>1 DEF Loaded
            <4>2. CASE Len(is) = 2
                BY <4>1, <4>2 DEF loadXYZGatesToQC, Loads, is
            <4>3. CASE Len(is) = 1
                BY <4>1, <4>3 DEF loadXYZGatesToQC, Loads, is
            <4>4. CASE Len(is) \notin {1, 2}
                BY <4>1, <4>4 DEF loadXYZGatesToQC, Loads, is
            <4> QED BY <4>2, <4>3, <4>4
        <3>2. CASE op.gate \in {"s", "t", "h"}
            <4>1. Loaded(op, func, count) = loadSTHGatesToQC(op)
                BY <3>2, <2>1 DEF Loaded
            <4> QED BY <4>1 DEF loadSTHGatesToQC, Loads, is
        <3> QED BY <1>4, <3>1, <3>2
    <2> QED BY <2>2, <2>3, <2>4, ShortSequences
<1>5. CASE isMeasurement(op)
    <2> DEFINE w == op.tgts[1]
               n == getNumberOfQubits(func)
    <2>1. w \in Wires /\ w \in Range(op.tgts)
        <3>1. 1 \in DOMAIN op.tgts
            BY <1>1, <1>5
        <3> QED BY <1>1, <3>1 DEF Range
    <2>2. w \in Range(MeasuredOperands(func))
        BY <1>5, <2>1, MeasuredAreWires
    <2>3. Loaded(op, func, count) = loadMeasurementsToQC(op, func, count)
        BY <1>5 DEF Loaded, isMeasurement, Measurements
    <2>4. count.numBits \in Nat /\ n \in Nat
        BY InputHasType DEF HaveBits, Counts
    <2>5. CASE IsVeq(w)
        <3> DEFINE ms == [i \in 1 .. n |-> Measure(i - 1, count.numBits + i - 1)]
        <3>1. Loaded(op, func, count).gates = <<Barrier>> \o ms
            <4>1. \E a : loadMeasurementsToQC(op, func, count) = Loads(a, <<Barrier>> \o ms)
                BY <2>5 DEF loadMeasurementsToQC
            <4> HIDE DEF ms
            <4> QED BY <2>3, <4>1 DEF Loads
        <3> HIDE DEF n
        <3>2. ASSUME NEW i \in 1 .. n PROVE Measure(i - 1, count.numBits + i - 1) \in QcGates
            <4>1. i - 1 \in Int /\ count.numBits + i - 1 \in Nat
                BY <2>4
            <4> QED BY <4>1, QcGateHasType, ShortSequences DEF Measure
        <3>3. ms \in Seq(QcGates)
            BY <2>4, <3>2
        <3>4. <<Barrier>> \in Seq(QcGates)
            BY QcGateHasType, ShortSequences DEF Barrier, QcGate
        <3> HIDE DEF ms
        <3> QED BY <3>1, <3>3, <3>4, ConcatIsSeq
    <2>6. CASE ~ IsVeq(w)
        <3>1. Loaded(op, func, count).gates = <<Measure(w.idx, count.measurements[w.idx])>>
            BY <2>3, <2>6 DEF loadMeasurementsToQC, Loads
        <3>2. count.measurements[w.idx] \in Nat
            <4>1. w.idx \in DOMAIN count.measurements
                BY <2>2, <2>6 DEF HaveBits
            <4>2. PICK D \in SUBSET Int : count.measurements \in [D -> Nat]
                BY DEF HaveBits, Counts
            <4> QED BY <4>1, <4>2
        <3>3. w.idx \in Int
            BY <2>1, WireHasIndex, WiresAreRefs
        <3>4. Measure(w.idx, count.measurements[w.idx]) \in QcGates
            BY <3>2, <3>3, QcGateHasType, ShortSequences DEF Measure
        <3> QED BY <3>1, <3>4, ShortSequences
    <2> QED BY <2>5, <2>6
<1>6. CASE ~ isMeasurement(op) /\ op.gate \notin {"rx", "ry", "rz", "x", "y", "z", "s", "t", "h"}
    BY <1>6, ShortSequences DEF Loaded, Loads
<1> QED BY <1>3, <1>4, <1>5, <1>6 DEF op

-----------------------------------------------------------------------------
(* Places and SWAPs *)

Device == 0 .. DeviceQubits - 1

\* Each of some qubits in a place of its own
Placements(A) == {at \in [A -> Device] : \A i, j \in A : at[i] = at[j] => i = j}

LEMMA CoupledPair ==
    ASSUME NEW e \in Coupling
    PROVE  /\ e = <<e[1], e[2]>> /\ e[1] \in Device /\ e[2] \in Device /\ e[1] # e[2]
           /\ e \in Seq(Int) /\ Range(e) = {e[1], e[2]}
           /\ <<e[1], e[2]>> \in Coupling /\ <<e[2], e[1]>> \in Coupling
<1>1. e \in Device \X Device /\ e[1] # e[2] /\ <<e[2], e[1]>> \in Coupling
    BY QuakeQMapAssumption DEF Device
<1>2. e = <<e[1], e[2]>> /\ e[1] \in Device /\ e[2] \in Device
    BY <1>1
<1>3. Device \subseteq Int
    BY DEF Device
<1>4. e \in Seq(Int)
    <2>1. \A a, b \in Int : <<a, b>> \in Seq(Int)
        OBVIOUS
    <2> QED BY <1>2, <1>3, <2>1
<1>5. DOMAIN e = {1, 2}
    BY <1>2
<1> QED BY <1>1, <1>2, <1>4, <1>5 DEF Range

\* After a SWAP the qubits are in places of their own again.
LEMMA SwapKeepsPlaces ==
    ASSUME NEW A, NEW at \in Placements(A), NEW e \in Coupling
    PROVE  Swapped(at, e) \in Placements(A)
<1> DEFINE b == Swapped(at, e)
<1>1. at \in [A -> Device] /\ \A i, j \in A : at[i] = at[j] => i = j
    BY DEF Placements
<1>2. e[1] \in Device /\ e[2] \in Device /\ e[1] # e[2]
    BY CoupledPair
<1>3. ASSUME NEW i \in A
      PROVE  /\ at[i] = e[1] => b[i] = e[2]
             /\ at[i] = e[2] => b[i] = e[1]
             /\ at[i] \notin {e[1], e[2]} => b[i] = at[i]
    <2>1. DOMAIN at = A
        BY <1>1
    <2>2. CASE at[i] = e[1]
        BY <1>2, <2>1, <2>2 DEF Swapped
    <2>3. CASE at[i] = e[2]
        BY <1>2, <2>1, <2>3 DEF Swapped
    <2>4. CASE at[i] \notin {e[1], e[2]}
        BY <2>1, <2>4 DEF Swapped
    <2> QED BY <1>2, <2>2, <2>3, <2>4
<1>4. b = [i \in A |-> b[i]]
    BY <1>1 DEF Swapped
<1> HIDE DEF b
<1>5. \A i \in A : b[i] \in Device
    BY <1>1, <1>2, <1>3
<1>6. ASSUME NEW i \in A, NEW j \in A, b[i] = b[j] PROVE at[i] = at[j]
    BY <1>2, <1>3, <1>6
<1>7. b \in [A -> Device]
    BY <1>4, <1>5
<1> QED BY <1>1, <1>6, <1>7 DEF Placements, b

\* One SWAP after the other
Moves(g, at, swaps, n) ==
    g[0] = at /\ \A k \in 1 .. n : g[k] = Swapped(g[k - 1], swaps[k])

LEMMA PlacesStepByStep ==
    ASSUME NEW A, NEW at \in Placements(A), NEW swaps \in Seq(Coupling)
    PROVE  \E g \in [0 .. Len(swaps) -> Placements(A)] :
             Moves(g, at, swaps, Len(swaps)) /\ PlacesAfter(at, swaps) = g[Len(swaps)]
<1> DEFINE n == Len(swaps)
           step == [k \in 1 .. n |-> [p \in Placements(A) |-> Swapped(p, swaps[k])]]
           E(f) == [k \in 0 .. n |-> IF k = 0 THEN at ELSE Swapped(f[k - 1], swaps[k])]
           F == CHOOSE f : f = E(f)
<1>1. n \in Nat /\ \A k \in 1 .. n : swaps[k] \in Coupling
    OBVIOUS
<1>2. PlacesAfter(at, swaps) = F[n]
    BY DEF PlacesAfter
<1> HIDE DEF n
<1>3. step \in [1 .. n -> [Placements(A) -> Placements(A)]]
    BY <1>1, SwapKeepsPlaces
<1>4. PICK g \in [0 .. n -> Placements(A)] : Iterates(g, n, at, step)
    <2> HIDE DEF step
    <2> QED BY <1>1, <1>3, IterationExists
<1>5. \A k \in 1 .. n : g[k] = Swapped(g[k - 1], swaps[k])
    <2>1. \A k \in 1 .. n : k - 1 \in 0 .. n
        BY <1>1
    <2> QED BY <1>4, <2>1 DEF Iterates
<1>6. g[0] = at
    BY <1>4 DEF Iterates
<1>7. g = E(g)
    <2>1. ASSUME NEW k \in 0 .. n
          PROVE  g[k] = IF k = 0 THEN at ELSE Swapped(g[k - 1], swaps[k])
        <3>1. k # 0 => k \in 1 .. n
            BY <1>1
        <3> QED BY <1>5, <1>6, <3>1
    <2>2. g = [k \in 0 .. n |-> g[k]]
        BY <1>4
    <2> QED BY <2>1, <2>2
<1>8. F = E(F)
    <2> HIDE DEF E
    <2> QED BY <1>7
<1> HIDE DEF F
<1>9. GoAlike(g, F, n)
    <2>1. F[0] = at
        BY <1>1, <1>8
    <2>2. ASSUME NEW k \in 1 .. n, g[k - 1] = F[k - 1] PROVE g[k] = F[k]
        <3>1. k \in 0 .. n /\ k # 0
            BY <1>1
        <3>2. F[k] = Swapped(F[k - 1], swaps[k])
            BY <1>8, <3>1
        <3> QED BY <1>5, <2>2, <3>2
    <2> QED BY <1>6, <2>1, <2>2 DEF GoAlike
<1>10. Alike(g, F, n) /\ n \in 0 .. n
    BY <1>1, <1>9, SameIteration
<1>11. g[n] = F[n]
    BY <1>10 DEF Alike
<1>12. Moves(g, at, swaps, n)
    BY <1>5, <1>6 DEF Moves
<1> QED BY <1>2, <1>11, <1>12 DEF n

LEMMA PlacesAfterNone ==
    ASSUME NEW A, NEW at \in Placements(A)
    PROVE  PlacesAfter(at, <<>>) = at
<1>1. <<>> \in Seq(Coupling) /\ Len(<<>>) = 0
    OBVIOUS
<1>2. PICK g \in [0 .. Len(<<>>) -> Placements(A)] :
        Moves(g, at, <<>>, Len(<<>>)) /\ PlacesAfter(at, <<>>) = g[Len(<<>>)]
    BY <1>1, PlacesStepByStep
<1> QED BY <1>1, <1>2 DEF Moves

LEMMA PlacesAfterOneMore ==
    ASSUME NEW A, NEW at \in Placements(A), NEW swaps \in Seq(Coupling), NEW e \in Coupling
    PROVE  /\ PlacesAfter(at, swaps) \in Placements(A)
           /\ PlacesAfter(at, Append(swaps, e)) = Swapped(PlacesAfter(at, swaps), e)
<1> DEFINE n == Len(swaps)
           more == Append(swaps, e)
<1>1. /\ more \in Seq(Coupling) /\ Len(more) = n + 1 /\ n \in Nat
      /\ more[n + 1] = e /\ \A k \in 1 .. n : more[k] = swaps[k]
    OBVIOUS
<1> HIDE DEF n, more
<1>2. PICK g \in [0 .. n -> Placements(A)] : Moves(g, at, swaps, n) /\ PlacesAfter(at, swaps) = g[n]
    BY PlacesStepByStep DEF n
<1>3. PICK h \in [0 .. n + 1 -> Placements(A)] :
        Moves(h, at, more, n + 1) /\ PlacesAfter(at, more) = h[n + 1]
    <2>1. \E h \in [0 .. Len(more) -> Placements(A)] :
            Moves(h, at, more, Len(more)) /\ PlacesAfter(at, more) = h[Len(more)]
        BY <1>1, PlacesStepByStep
    <2> QED BY <1>1, <2>1
<1>4. GoAlike(g, h, n)
    <2>1. \A k \in 1 .. n : k \in 1 .. n + 1
        BY <1>1
    <2>2. g[0] = h[0]
        BY <1>2, <1>3 DEF Moves
    <2>3. \A k \in 1 .. n : g[k - 1] = h[k - 1] => g[k] = h[k]
        BY <1>1, <1>2, <1>3, <2>1 DEF Moves
    <2> QED BY <2>2, <2>3 DEF GoAlike
<1>5. Alike(g, h, n) /\ n \in 0 .. n
    BY <1>1, <1>4, SameIteration
<1>6. g[n] = h[n] /\ g[n] \in Placements(A)
    BY <1>2, <1>5 DEF Alike
<1>7. h[n + 1] = Swapped(h[n], e)
    <2>1. n + 1 \in 1 .. n + 1 /\ (n + 1) - 1 = n
        BY <1>1
    <2> QED BY <1>1, <1>3, <2>1 DEF Moves
<1> QED BY <1>2, <1>3, <1>6, <1>7 DEF more

\* After all SWAPs the qubits are in places of their own.
LEMMA PlacesAfterSwaps ==
    ASSUME NEW A, NEW at \in Placements(A), NEW swaps \in Seq(Coupling)
    PROVE  PlacesAfter(at, swaps) \in Placements(A)
<1>1. CASE swaps = <<>>
    BY <1>1, PlacesAfterNone
<1>2. CASE swaps # <<>>
    <2>1. Coupling # {}
        BY <1>2
    <2> QED BY <2>1, PlacesAfterOneMore
<1> QED BY <1>1, <1>2

-----------------------------------------------------------------------------
(* The invariant of the types *)

InputQubits == 0 .. getNumberOfQubits(input) - 1

\* A function that is no kernel is left alone.
OnlyKernels == ~ input.prefixed => pc \in {"begin", "done"}

\* The bits are those of the input.
BitsOfInput ==
    input.prefixed /\ pc \notin {"begin", "crashed"} => classical = getNumberOfClassicalBits(input)

\* The mapper has put every qubit in a place of its own, and keeps it so.
QubitsPlaced ==
    input.prefixed /\ pc \in {"map", "build", "done"} =>
      layout \in Placements(InputQubits) /\ place \in Placements(InputQubits)

\* A gate of the mapped circuit acts on a coupled pair.
MappedIsExecutable == \A k \in DOMAIN qcMapped : Executable(qcMapped[k])

IInv == TypeOK /\ OnlyKernels /\ BitsOfInput /\ QubitsPlaced /\ MappedIsExecutable

LEMMA InitHolds == Init => IInv
<1> SUFFICES ASSUME Init PROVE IInv
    OBVIOUS
<1>1. TypeOK
    BY ShortSequences DEF Init, TypeOK
<1>2. OnlyKernels /\ BitsOfInput /\ QubitsPlaced /\ MappedIsExecutable
    BY DEF Init, OnlyKernels, BitsOfInput, QubitsPlaced, MappedIsExecutable
<1> QED BY <1>1, <1>2 DEF IInv

LEMMA BeginHolds == IInv /\ Begin => IInv'
<1> SUFFICES ASSUME IInv, Begin PROVE IInv'
    OBVIOUS
<1> USE DEF IInv
<1>1. input \in Inputs /\ circuit = input /\ pc = "begin" /\ input.prefixed \in BOOLEAN
    BY InputHasType DEF TypeOK, Begin
<1>2. getNumberOfClassicalBits(input).numBits \in Nat
    BY <1>1, MeasuredHaveBits DEF HaveBits, Counts
<1>3. \/ ~ input.prefixed /\ pc' = "done" /\ classical' = classical
      \/ input.prefixed /\ pc' = "crashed" /\ classical' = classical
      \/ input.prefixed /\ pc' = "load" /\ classical' = getNumberOfClassicalBits(input)
    BY <1>1 DEF Begin
<1>4. UNCHANGED <<input, debug, next, qc, layout, place, unmapped, qcMapped, circuit>>
    BY DEF Begin
<1>5. TypeOK'
    BY <1>1, <1>2, <1>3, <1>4 DEF TypeOK, InCircuit, On
<1>6. OnlyKernels' /\ BitsOfInput' /\ QubitsPlaced' /\ MappedIsExecutable'
    BY <1>3, <1>4 DEF OnlyKernels, BitsOfInput, QubitsPlaced, MappedIsExecutable, Executable
<1> QED BY <1>5, <1>6

\* What a step of the walk loads
LEMMA LoadGateLoads ==
    ASSUME IInv, LoadGate
    PROVE  LET loaded == Loaded(input.ops[next], input, classical)
           IN  /\ input \in Inputs /\ circuit = input /\ next \in DOMAIN input.ops
               /\ HaveBits(classical, input) /\ input.prefixed
               /\ loaded.gates \in Seq(QcGates)
               /\ \/ /\ \A k \in DOMAIN loaded.gates : InCircuit(loaded.gates[k], input)
                     /\ qc' = qc \o loaded.gates /\ next' = next + 1 /\ pc' = "load"
                  \/ pc' = "crashed" /\ qc' = qc /\ next' = next
<1>1. /\ input \in Inputs /\ circuit = input /\ next \in DOMAIN input.ops /\ pc = "load"
      /\ input.prefixed
    BY InputHasType DEF IInv, TypeOK, LoadGate, OnlyKernels
<1>2. HaveBits(classical, input)
    BY <1>1, MeasuredHaveBits DEF IInv, BitsOfInput
<1>3. Loaded(input.ops[next], input, classical).gates \in Seq(QcGates)
    BY <1>1, <1>2, LoadedHasType
<1> QED BY <1>1, <1>2, <1>3 DEF LoadGate

LEMMA LoadGateHolds == IInv /\ LoadGate => IInv'
<1> SUFFICES ASSUME IInv, LoadGate PROVE IInv'
    OBVIOUS
<1> DEFINE gates == Loaded(input.ops[next], input, classical).gates
<1>1. /\ input \in Inputs /\ input.prefixed /\ gates \in Seq(QcGates)
      /\ \/ /\ \A k \in DOMAIN gates : InCircuit(gates[k], input)
            /\ qc' = qc \o gates /\ next' = next + 1 /\ pc' = "load"
         \/ pc' = "crashed" /\ qc' = qc /\ next' = next
    BY LoadGateLoads
<1> HIDE DEF gates
<1>2. UNCHANGED <<input, debug, classical, layout, place, unmapped, qcMapped, circuit>> /\ pc = "load"
    BY DEF LoadGate
<1>3. qc \in Seq(QcGates) /\ next \in Nat \ {0} /\ \A k \in DOMAIN qc : InCircuit(qc[k], input)
    BY DEF IInv, TypeOK
<1>4. qc' \in Seq(QcGates) /\ next' \in Nat \ {0} /\ \A k \in DOMAIN qc' : InCircuit(qc'[k], input)
    <2>1. CASE /\ \A k \in DOMAIN gates : InCircuit(gates[k], input)
               /\ qc' = qc \o gates /\ next' = next + 1
        <3>1. qc' \in Seq(QcGates)
            BY <1>1, <1>3, <2>1, ConcatIsSeq
        <3>2. ASSUME NEW k \in DOMAIN qc' PROVE InCircuit(qc'[k], input)
            <4>1. qc'[k] \in Range(qc \o gates)
                BY <2>1 DEF Range
            <4>2. Range(qc \o gates) = Range(qc) \cup Range(gates)
                BY <1>1, <1>3, RangeConcatenation
            <4> QED BY <1>3, <2>1, <4>1, <4>2 DEF Range
        <3> QED BY <1>3, <2>1, <3>1, <3>2
    <2> QED BY <1>1, <1>3, <2>1
<1>5. TypeOK'
    BY <1>1, <1>2, <1>4 DEF IInv, TypeOK, InCircuit, On
<1>6. OnlyKernels' /\ BitsOfInput' /\ QubitsPlaced' /\ MappedIsExecutable'
    BY <1>1, <1>2 DEF IInv, OnlyKernels, BitsOfInput, QubitsPlaced, MappedIsExecutable, Executable
<1> QED BY <1>5, <1>6 DEF IInv

LEMMA PlaceQubitsHolds == IInv /\ PlaceQubits => IInv'
<1> SUFFICES ASSUME IInv, PlaceQubits PROVE IInv'
    OBVIOUS
<1>1. PICK at \in [0 .. getNumberOfQubits(circuit) - 1 -> 0 .. DeviceQubits - 1] :
        IsInjective(at) /\ layout' = at /\ place' = at
    BY DEF PlaceQubits
<1>2. /\ UNCHANGED <<input, debug, next, classical, qc, qcMapped, circuit>> /\ pc = "load"
      /\ pc' = "map" /\ unmapped' = qc /\ circuit = input
    BY DEF IInv, TypeOK, PlaceQubits
<1>3. at \in [InputQubits -> Device]
    BY <1>1, <1>2 DEF InputQubits, Device
<1>4. at \in Placements(InputQubits)
    BY <1>1, <1>3 DEF Placements, IsInjective
<1>5. InputQubits' = InputQubits
    BY <1>2 DEF InputQubits
<1>6. TypeOK'
    BY <1>1, <1>2, <1>3 DEF IInv, TypeOK, InCircuit, On, Device
<1>7. OnlyKernels' /\ BitsOfInput' /\ QubitsPlaced' /\ MappedIsExecutable'
    BY <1>1, <1>2, <1>4, <1>5
       DEF IInv, OnlyKernels, BitsOfInput, QubitsPlaced, MappedIsExecutable, Executable
<1> QED BY <1>6, <1>7 DEF IInv

SwapGates(swaps) == [k \in DOMAIN swaps |-> QcGate("swap", <<>>, <<>>, swaps[k])]

LEMMA GatesOfConcat ==
    \A gates, more \in Seq(QcGates) : Range(gates \o more) = Range(gates) \cup Range(more)
BY RangeConcatenation

LEMMA SwapIsExecutable ==
    ASSUME NEW e \in Coupling
    PROVE  LET g == QcGate("swap", <<>>, <<>>, e)
           IN  g \in QcGates /\ On(g) \subseteq Device /\ Executable(g)
<1> DEFINE g == QcGate("swap", <<>>, <<>>, e)
<1>1. g \in QcGates
    BY CoupledPair, QcGateHasType, ShortSequences DEF QcGate, Gates
<1>2. g.ctrls = <<>> /\ g.tgts = e
    BY DEF QcGate
<1>3. Range(<<>>) = {}
    BY DEF Range
<1> HIDE DEF g
<1>4. On(g) = {e[1], e[2]}
    BY <1>2, <1>3, CoupledPair DEF On
<1>5. On(g) \subseteq Device
    BY <1>4, CoupledPair
<1>6. Executable(g)
    BY <1>4, CoupledPair DEF Executable, On
<1> QED BY <1>1, <1>5, <1>6 DEF g

\* Gates on qubits that are placed become gates on the device.
LEMMA GateOnDevice ==
    ASSUME NEW n \in Nat, NEW g \in QcGates, On(g) \subseteq 0 .. n - 1,
           NEW at \in Placements(0 .. n - 1)
    PROVE  LET d == OnDevice(g, at)
           IN  /\ d \in QcGates /\ On(d) \subseteq Device
               /\ d.type = g.type /\ d.params = g.params /\ d.bits = g.bits
               /\ d.ctrls = [k \in DOMAIN g.ctrls |-> at[g.ctrls[k]]]
               /\ d.tgts = [k \in DOMAIN g.tgts |-> at[g.tgts[k]]]
<1> DEFINE d == OnDevice(g, at)
           c == [k \in DOMAIN g.ctrls |-> at[g.ctrls[k]]]
           t == [k \in DOMAIN g.tgts |-> at[g.tgts[k]]]
<1>1. g.ctrls \in Seq(Int) /\ g.tgts \in Seq(Int)
    BY QcGateParts
<1>2. at \in [0 .. n - 1 -> Device] /\ Device \subseteq Int
    BY DEF Placements, Device
<1>3. (\A k \in DOMAIN g.ctrls : g.ctrls[k] \in 0 .. n - 1)
         /\ \A k \in DOMAIN g.tgts : g.tgts[k] \in 0 .. n - 1
    BY DEF On, Range
<1>4. (\A k \in DOMAIN g.ctrls : c[k] \in Device) /\ \A k \in DOMAIN g.tgts : t[k] \in Device
    BY <1>2, <1>3
<1>5. c \in Seq(Int) /\ t \in Seq(Int)
    <2>1. DOMAIN g.ctrls = 1 .. Len(g.ctrls) /\ Len(g.ctrls) \in Nat
        BY <1>1
    <2>2. DOMAIN g.tgts = 1 .. Len(g.tgts) /\ Len(g.tgts) \in Nat
        BY <1>1
    <2>3. (\A k \in DOMAIN g.ctrls : at[g.ctrls[k]] \in Int)
             /\ \A k \in DOMAIN g.tgts : at[g.tgts[k]] \in Int
        BY <1>2, <1>4
    <2> QED BY <2>1, <2>2, <2>3
<1>6. Range(c) \subseteq Device /\ Range(t) \subseteq Device
    BY <1>4 DEF Range
<1>7. d = [type |-> g.type, params |-> g.params, ctrls |-> c, tgts |-> t, bits |-> g.bits]
    <2>1. d = [g EXCEPT !.ctrls = c, !.tgts = t]
        BY DEF OnDevice
    <2>2. g = [type |-> g.type, params |-> g.params, ctrls |-> g.ctrls, tgts |-> g.tgts,
               bits |-> g.bits]
        BY DEF QcGates
    <2> HIDE DEF c, t, d
    <2> QED BY <2>1, <2>2
<1> HIDE DEF c, t
<1>8. d \in QcGates
    <2>1. g.type \in Gates \cup {"barrier", "measure"} /\ g.params \in Seq(Int)
            /\ g.bits \in Seq(Nat)
        BY QcGateParts
    <2> HIDE DEF d
    <2>2. [type |-> g.type, params |-> g.params, ctrls |-> c, tgts |-> t, bits |-> g.bits]
            \in QcGates
        BY <1>5, <2>1, QcGateHasType
    <2> QED BY <1>7, <2>2
<1>9. On(d) \subseteq Device
    BY <1>6, <1>7 DEF On
<1>10. d.type = g.type /\ d.params = g.params /\ d.bits = g.bits /\ d.ctrls = c /\ d.tgts = t
    BY <1>7
<1> QED BY <1>8, <1>9, <1>10 DEF c, t

\* An element that is taken out of a sequence, and what is before and behind it
LEMMA TakenOut ==
    ASSUME NEW T, NEW s \in Seq(T), NEW k \in DOMAIN s
    PROVE  LET a == First(s, k - 1)
               b == SubSeq(s, k + 1, Len(s))
           IN  /\ a \in Seq(T) /\ b \in Seq(T) /\ s[k] \in T
               /\ s = a \o (<<s[k]>> \o b) /\ RemoveAt(s, k) = a \o b
               /\ RemoveAt(s, k) \in Seq(T)
               /\ Len(a) = k - 1 /\ \A j \in DOMAIN a : j \in 1 .. k - 1 /\ a[j] = s[j]
               /\ Range(RemoveAt(s, k)) \subseteq Range(s)
<1> DEFINE a == First(s, k - 1)
           b == SubSeq(s, k + 1, Len(s))
           r == <<s[k]>> \o b
<1>1. Len(s) \in Nat /\ k \in 1 .. Len(s) /\ s[k] \in T
    OBVIOUS
<1>2. /\ a \in Seq(T) /\ Len(a) = k - 1 /\ \A j \in 1 .. k - 1 : a[j] = s[j] /\ s[j] \in T
      /\ DOMAIN a = 1 .. k - 1
    BY <1>1 DEF First
<1>3. /\ b \in Seq(T) /\ Len(b) = Len(s) - k /\ DOMAIN b = 1 .. Len(s) - k
      /\ \A j \in 1 .. Len(s) - k : b[j] = s[k + j] /\ k + j \in DOMAIN s
    BY <1>1
<1> HIDE DEF a, b
<1>4. /\ r \in Seq(T) /\ Len(r) = Len(s) - k + 1 /\ r[1] = s[k]
      /\ \A j \in 2 .. Len(r) : r[j] = b[j - 1]
    BY <1>1, <1>3
<1> HIDE DEF r
<1>5. /\ a \o r \in Seq(T) /\ Len(a \o r) = Len(s)
      /\ \A j \in 1 .. Len(s) : (a \o r)[j] = IF j <= k - 1 THEN a[j] ELSE r[j - (k - 1)]
    <2>1. /\ a \o r \in Seq(T) /\ Len(a \o r) = Len(a) + Len(r)
          /\ \A j \in 1 .. Len(a) + Len(r) : (a \o r)[j] = IF j <= Len(a) THEN a[j] ELSE r[j - Len(a)]
        BY <1>2, <1>4, ConcatProperties
    <2>2. \A m \in Nat : \A n \in 1 .. m : (n - 1) + (m - n + 1) = m
        OBVIOUS
    <2>3. (k - 1) + (Len(s) - k + 1) = Len(s)
        BY <1>1, <2>2
    <2>4. Len(a) + Len(r) = Len(s)
        BY <1>2, <1>4, <2>3
    <2> QED BY <1>2, <2>1, <2>4
<1>6. ASSUME NEW j \in 1 .. Len(s) PROVE (a \o r)[j] = s[j]
    <2>0. \A m \in Nat : \A n, i \in 1 .. m :
             /\ i <= n - 1 => i \in 1 .. n - 1
             /\ n - (n - 1) = 1 /\ ~ (n <= n - 1)
             /\ i > n => /\ i - (n - 1) \in 2 .. m - n + 1 /\ (i - (n - 1)) - 1 = i - n
                        /\ i - n \in 1 .. m - n /\ n + (i - n) = i /\ ~ (i <= n - 1)
             /\ i <= n - 1 \/ i = n \/ i > n
        OBVIOUS
    <2>1. CASE j <= k - 1
        <3>1. j \in 1 .. k - 1
            BY <1>1, <2>0, <2>1
        <3> QED BY <1>2, <1>5, <2>1, <3>1
    <2>2. CASE j = k
        <3>1. k - (k - 1) = 1 /\ ~ (k <= k - 1)
            BY <1>1, <2>0
        <3> QED BY <1>4, <1>5, <2>2, <3>1
    <2>3. CASE j > k
        <3>1. /\ j - (k - 1) \in 2 .. Len(r) /\ (j - (k - 1)) - 1 = j - k
              /\ j - k \in 1 .. Len(s) - k /\ k + (j - k) = j /\ ~ (j <= k - 1)
            <4>1. /\ j - (k - 1) \in 2 .. Len(s) - k + 1 /\ (j - (k - 1)) - 1 = j - k
                  /\ j - k \in 1 .. Len(s) - k /\ k + (j - k) = j /\ ~ (j <= k - 1)
                BY <1>1, <2>0, <2>3
            <4> QED BY <1>4, <4>1
        <3>2. (a \o r)[j] = r[j - (k - 1)] /\ r[j - (k - 1)] = b[j - k]
            BY <1>4, <1>5, <3>1
        <3>3. b[j - k] = s[j]
            BY <1>3, <3>1
        <3> QED BY <3>2, <3>3
    <2> QED BY <1>1, <2>0, <2>1, <2>2, <2>3
<1>7. s = a \o r
    BY <1>5, <1>6, SeqEqual
<1>8. RemoveAt(s, k) = a \o b
    BY DEF RemoveAt, a, b, First
<1>9. a \o b \in Seq(T) /\ Range(a \o b) = Range(a) \cup Range(b)
    BY <1>2, <1>3, ConcatIsSeq, RangeConcatenation
<1>10. Range(a) \subseteq Range(s) /\ Range(b) \subseteq Range(s)
    <2>1. \A j \in DOMAIN a : j \in DOMAIN s /\ a[j] = s[j]
        BY <1>1, <1>2
    <2> QED BY <1>3, <2>1 DEF Range
<1> QED BY <1>1, <1>2, <1>3, <1>7, <1>8, <1>9, <1>10 DEF a, b, r

\* What the mapper does to a gate, with the SWAPs it chooses
MapsWith(g, swaps) ==
    /\ place' = PlacesAfter(place, swaps)
    /\ place \in Placements(InputQubits) /\ place' \in Placements(InputQubits)
    /\ SwapGates(swaps) \in Seq(QcGates)
    /\ OnDevice(g, place') \in QcGates
    /\ qcMapped' = qcMapped \o SwapGates(swaps) \o <<OnDevice(g, place')>>
    /\ qcMapped \o SwapGates(swaps) \in Seq(QcGates) /\ qcMapped' \in Seq(QcGates)
    /\ \A k \in DOMAIN qcMapped' :
         On(qcMapped'[k]) \subseteq Device /\ Executable(qcMapped'[k])

LEMMA MapGateMaps ==
    ASSUME IInv, MapGate
    PROVE  /\ input \in Inputs /\ input.prefixed
           /\ \E k \in DOMAIN unmapped, swaps \in Seq(Coupling) :
                /\ unmapped[k] \in QcGates /\ On(unmapped[k]) \subseteq InputQubits
                /\ IsFree(unmapped, k) /\ unmapped' = RemoveAt(unmapped, k)
                /\ MapsWith(unmapped[k], swaps)
<1>1. /\ input \in Inputs /\ input.prefixed /\ pc = "map"
      /\ unmapped \in Seq(QcGates) /\ qcMapped \in Seq(QcGates)
    BY InputHasType DEF IInv, TypeOK, MapGate, OnlyKernels
<1>3. place \in Placements(InputQubits)
    BY <1>1 DEF IInv, QubitsPlaced
<1>4. PICK m \in DOMAIN unmapped, swaps \in Swaps :
        LET at == PlacesAfter(place, swaps)
            moved == OnDevice(unmapped[m], at)
        IN  /\ IsFree(unmapped, m)
            /\ Executable(moved) /\ place' = at
            /\ unmapped' = RemoveAt(unmapped, m)
            /\ qcMapped' = qcMapped
                 \o [i \in DOMAIN swaps |-> QcGate("swap", <<>>, <<>>, swaps[i])]
                 \o <<moved>>
    BY DEF MapGate
<1> DEFINE gate == unmapped[m]
<1>2. /\ gate \in QcGates /\ On(gate) \subseteq InputQubits
      /\ IsFree(unmapped, m) /\ unmapped' = RemoveAt(unmapped, m)
    BY <1>1, <1>4 DEF IInv, TypeOK, InCircuit, InputQubits
<1>5. swaps \in Seq(Coupling)
    BY QuakeQMapAssumption, <1>4 DEF Swaps
<1>6. place' \in Placements(InputQubits)
    BY <1>3, <1>4, <1>5, PlacesAfterSwaps
<1> DEFINE ss == SwapGates(swaps)
           d == OnDevice(gate, place')
<1>7. qcMapped' = qcMapped \o ss \o <<d>> /\ Executable(d)
    BY <1>4 DEF SwapGates
<1> HIDE DEF gate
<1>8. d \in QcGates /\ On(d) \subseteq Device
    <2>1. getNumberOfQubits(input) \in Nat
        BY <1>1, InputHasType
    <2> QED BY <1>2, <1>6, <2>1, GateOnDevice DEF InputQubits
<1>9. ss \in Seq(QcGates) /\ \A k \in DOMAIN ss : On(ss[k]) \subseteq Device /\ Executable(ss[k])
    <2>1. DOMAIN swaps = 1 .. Len(swaps) /\ Len(swaps) \in Nat
            /\ \A k \in DOMAIN swaps : swaps[k] \in Coupling
        BY <1>5
    <2>2. ASSUME NEW k \in DOMAIN swaps
          PROVE  LET g == QcGate("swap", <<>>, <<>>, swaps[k])
                 IN  g \in QcGates /\ On(g) \subseteq Device /\ Executable(g)
        BY <2>1, SwapIsExecutable
    <2> DEFINE e(k) == QcGate("swap", <<>>, <<>>, swaps[k])
               es == [k \in DOMAIN swaps |-> e(k)]
    <2>3. \A k \in DOMAIN swaps : es[k] = e(k)
        OBVIOUS
    <2>4. es \in Seq(QcGates) /\ DOMAIN es = DOMAIN swaps
        <3> HIDE DEF e
        <3>1. \A k \in DOMAIN swaps : e(k) \in QcGates
            BY <2>2 DEF e
        <3> QED BY <2>1, <3>1
    <2>5. ss = es
        BY DEF SwapGates
    <2> HIDE DEF e, es, ss
    <2> QED BY <2>2, <2>3, <2>4, <2>5 DEF e
<1> HIDE DEF ss, d
<1>10. qcMapped \o ss \in Seq(QcGates) /\ <<d>> \in Seq(QcGates)
    BY <1>1, <1>8, <1>9, ConcatIsSeq
<1>11. qcMapped' \in Seq(QcGates)
    BY <1>7, <1>10, ConcatIsSeq
<1>12. \A g \in Range(qcMapped) : On(g) \subseteq Device /\ Executable(g)
    BY DEF IInv, TypeOK, MappedIsExecutable, Range, On, Device
<1>13. \A g \in Range(ss) \cup {d} : On(g) \subseteq Device /\ Executable(g)
    BY <1>7, <1>8, <1>9 DEF Range
<1>14. Range(qcMapped') \subseteq Range(qcMapped) \cup Range(ss) \cup {d}
    <2>1. Range(qcMapped') = Range(qcMapped \o ss) \cup Range(<<d>>)
        <3> DEFINE before == qcMapped \o ss
                   last == <<d>>
        <3>1. before \in Seq(QcGates) /\ last \in Seq(QcGates) /\ qcMapped' = before \o last
            BY <1>7, <1>10
        <3> HIDE DEF before, last
        <3>2. Range(before \o last) = Range(before) \cup Range(last)
            BY <3>1, GatesOfConcat
        <3> QED BY <3>1, <3>2 DEF before, last
    <2>2. Range(qcMapped \o ss) = Range(qcMapped) \cup Range(ss)
        BY <1>1, <1>9, GatesOfConcat
    <2>3. Range(<<d>>) = {d}
        BY DEF Range
    <2> QED BY <2>1, <2>2, <2>3
<1>15. \A k \in DOMAIN qcMapped' : On(qcMapped'[k]) \subseteq Device /\ Executable(qcMapped'[k])
    <2>1. \A k \in DOMAIN qcMapped' : qcMapped'[k] \in Range(qcMapped')
        BY DEF Range
    <2> QED BY <1>12, <1>13, <1>14, <2>1
<1>16. place' = PlacesAfter(place, swaps)
    BY <1>4
<1>17. MapsWith(gate, swaps)
    BY <1>3, <1>6, <1>7, <1>8, <1>9, <1>10, <1>11, <1>15, <1>16 DEF MapsWith, ss, d
<1> QED BY <1>1, <1>2, <1>5, <1>17 DEF gate

LEMMA MapGateHolds == IInv /\ MapGate => IInv'
<1> SUFFICES ASSUME IInv, MapGate PROVE IInv'
    OBVIOUS
<1>1. PICK m \in DOMAIN unmapped, swaps \in Seq(Coupling) :
        unmapped' = RemoveAt(unmapped, m) /\ MapsWith(unmapped[m], swaps)
    BY MapGateMaps
<1>2. /\ UNCHANGED <<input, debug, pc, next, classical, qc, layout, circuit>>
      /\ pc = "map" /\ input.prefixed
    BY MapGateMaps DEF MapGate
<1>9. unmapped' \in Seq(QcGates) /\ \A i \in DOMAIN unmapped' : InCircuit(unmapped'[i], input)
    <2>1. unmapped \in Seq(QcGates) /\ \A i \in DOMAIN unmapped : InCircuit(unmapped[i], input)
        BY DEF IInv, TypeOK
    <2>2. unmapped' \in Seq(QcGates) /\ Range(unmapped') \subseteq Range(unmapped)
        BY <1>1, <2>1, TakenOut
    <2> QED BY <2>1, <2>2 DEF Range
<1>3. /\ place \in Placements(InputQubits) /\ place' \in Placements(InputQubits)
      /\ qcMapped' \in Seq(QcGates)
      /\ \A k \in DOMAIN qcMapped' : On(qcMapped'[k]) \subseteq Device /\ Executable(qcMapped'[k])
    BY <1>1 DEF MapsWith
<1>4. DOMAIN place' = DOMAIN place /\ \A i \in DOMAIN place' : place'[i] \in Device
    BY <1>3 DEF Placements
<1>5. InputQubits' = InputQubits
    BY <1>2 DEF InputQubits
<1>6. TypeOK'
    BY <1>2, <1>3, <1>4, <1>9 DEF IInv, TypeOK, InCircuit, On, Device
<1>7. OnlyKernels' /\ BitsOfInput' /\ QubitsPlaced'
    BY <1>2, <1>3, <1>5 DEF IInv, OnlyKernels, BitsOfInput, QubitsPlaced
<1>8. MappedIsExecutable'
    BY <1>3 DEF MappedIsExecutable, Executable
<1> QED BY <1>6, <1>7, <1>8 DEF IInv

LEMMA LastStepsHold == IInv /\ (Clear \/ BuildGate \/ Return \/ UNCHANGED vars) => IInv'
<1> SUFFICES ASSUME IInv, Clear \/ BuildGate \/ Return \/ UNCHANGED vars PROVE IInv'
    OBVIOUS
<1>1. /\ UNCHANGED <<input, debug, classical, qc, layout, place, unmapped, qcMapped>>
      /\ next' \in {1, next, next + 1}
      /\ \/ pc' = pc /\ circuit' = circuit
         \/ pc \in {"map", "build"} /\ pc' \in {"build", "done"}
    BY DEF Clear, BuildGate, Return, vars
<1>2. InputQubits' = InputQubits
    BY <1>1 DEF InputQubits
<1>3. TypeOK'
    BY <1>1 DEF IInv, TypeOK, InCircuit, On
<1>4. OnlyKernels' /\ BitsOfInput' /\ QubitsPlaced' /\ MappedIsExecutable'
    BY <1>1, <1>2
       DEF IInv, OnlyKernels, BitsOfInput, QubitsPlaced, MappedIsExecutable, Executable, TypeOK
<1> QED BY <1>3, <1>4 DEF IInv

LEMMA StepHolds == IInv /\ [Next]_vars => IInv'
BY BeginHolds, LoadGateHolds, PlaceQubitsHolds, MapGateHolds, LastStepsHold DEF Next

LEMMA Invariance == Spec => []IInv
BY InitHolds, StepHolds, PTL DEF Spec

\* Every variable has its type, for any functions, device, coupling and SWAPs.
THEOREM TypesAreKept == Spec => []TypeOK
<1>1. IInv => TypeOK
    BY DEF IInv
<1> QED BY <1>1, Invariance, PTL

\* Every qubit that is measured by itself has a bit of its own.
THEOREM MeasuredQubitsHaveBits == Spec => []MeasurementsHaveBits
<1>1. ASSUME IInv PROVE MeasurementsHaveBits
    <2> SUFFICES ASSUME pc \notin {"begin", "crashed"}, input.prefixed, MeasuresItsRegister(input),
                        NEW v \in Range(MeasuredOperands(input)), ~ IsVeq(v),
                        NEW w \in Range(MeasuredOperands(input)), ~ IsVeq(w)
                 PROVE  /\ classical.measurements[v.idx] \in 0 .. classical.numBits - 1
                        /\ v # w => classical.measurements[v.idx] # classical.measurements[w.idx]
        BY DEF MeasurementsHaveBits
    <2>1. input \in Inputs /\ classical = getNumberOfClassicalBits(input)
        BY <1>1 DEF IInv, TypeOK, BitsOfInput
    <2>2. Apart(classical, input.allocs[1].size)
        BY <2>1, MeasuredApart
    <2>3. v.idx \in DOMAIN classical.measurements /\ w.idx \in DOMAIN classical.measurements
        BY <2>1, MeasuredHaveBits DEF HaveBits
    <2>4. v \in Wires /\ w \in Wires /\ v.reg = w.reg
        <3>1. Range(MeasuredOperands(input)) \subseteq Wires
            BY <2>1, MeasuredAreWires, RangeOfSeq
        <3> QED BY <3>1 DEF MeasuresItsRegister
    <2>5. v # w => v.idx # w.idx
        BY <2>4, WireHasIndex, WiresAreRefs
    <2> QED BY <2>2, <2>3, <2>5 DEF Apart
<1> QED BY <1>1, Invariance, PTL

-----------------------------------------------------------------------------
(* Building *)

\* The controls that are converted back: a measurement has none.
Ctrls(g) == IF g.type = "measure" THEN <<>> ELSE g.ctrls

BuiltOps == [gate : Gates \cup {"mz"}, adj : {FALSE}, params : Seq(Params),
             ctrls : Seq(Refs), tgts : Seq(Refs)]

LEMMA ExtractedRefs ==
    ASSUME NEW is \in Seq(Int)
    PROVE  ExtractRefs(is) \in Seq(Refs) /\ getIndicesOfValueRange(ExtractRefs(is)) = is
<1> DEFINE ws == [k \in DOMAIN is |-> [reg |-> "mapped", idx |-> is[k]]]
<1>1. \A k \in DOMAIN is : is[k] \in Int
    OBVIOUS
<1>2. DOMAIN is = 1 .. Len(is) /\ Len(is) \in Nat
    OBVIOUS
<1>3. \A k \in DOMAIN is : [reg |-> "mapped", idx |-> is[k]] \in Refs
    <2>1. \A i \in Int : [reg |-> "mapped", idx |-> i] \in Refs
        BY DEF Refs
    <2> QED BY <1>1, <2>1
<1>4. ws \in Seq(Refs) /\ DOMAIN ws = DOMAIN is /\ \A k \in DOMAIN is : ws[k].idx = is[k]
    BY <1>2, <1>3
<1>5. ExtractRefs(is) = ws
    BY DEF ExtractRefs
<1> HIDE DEF ws
<1>6. /\ getIndicesOfValueRange(ws) \in Seq(Int) /\ DOMAIN getIndicesOfValueRange(ws) = DOMAIN is
      /\ \A k \in DOMAIN is : getIndicesOfValueRange(ws)[k] = is[k]
    BY <1>4, IndicesOfRefs
<1> DEFINE js == getIndicesOfValueRange(ws)
<1>7. js = is
    <2> HIDE DEF js
    <2>1. js \in Seq(Int) /\ DOMAIN js = DOMAIN is /\ \A k \in DOMAIN is : js[k] = is[k]
        BY <1>6 DEF js
    <2> QED BY <2>1
<1> QED BY <1>4, <1>5, <1>7

\* What a gate becomes: nothing, or an operation on its qubits
LEMMA GateConverted ==
    ASSUME NEW g \in QcGates
    PROVE  /\ g.type = "barrier" => convertedBack(g) = <<>>
           /\ g.type # "barrier" =>
                LET op == convertedBack(g)[1]
                IN  /\ convertedBack(g) = <<op>> /\ op \in BuiltOps
                    /\ op.gate = IF g.type = "measure" THEN "mz" ELSE g.type
                    /\ op.params = IF g.type = "measure" THEN <<>>
                                   ELSE [k \in DOMAIN g.params |-> createFloatValue(g.params[k])]
                    /\ op.ctrls = ExtractRefs(Ctrls(g)) /\ op.tgts = ExtractRefs(g.tgts)
<1>1. /\ g.type \in Gates \cup {"barrier", "measure"} /\ g.params \in Seq(Int)
      /\ g.ctrls \in Seq(Int) /\ g.tgts \in Seq(Int)
    BY QcGateParts
<1>2. CASE g.type = "barrier"
    BY <1>2 DEF convertedBack
<1>3. CASE g.type = "measure"
    <2>1. convertedBack(g) = <<Operation("mz", FALSE, <<>>, <<>>, ExtractRefs(g.tgts))>>
        BY <1>3 DEF convertedBack
    <2>2. ExtractRefs(g.tgts) \in Seq(Refs) /\ <<>> \in Seq(Refs) /\ <<>> \in Seq(Params)
        BY <1>1, ExtractedRefs
    <2>3. ExtractRefs(<<>>) = <<>>
        BY DEF ExtractRefs
    <2>4. Operation("mz", FALSE, <<>>, <<>>, ExtractRefs(g.tgts)) \in BuiltOps
        BY <2>2 DEF Operation, BuiltOps
    <2> QED BY <1>3, <2>1, <2>3, <2>4 DEF Operation, Ctrls
<1>4. CASE g.type \in Gates
    <2> DEFINE ps == [k \in DOMAIN g.params |-> createFloatValue(g.params[k])]
    <2>1. g.type \notin {"barrier", "measure"}
        BY <1>4 DEF Gates
    <2>2. convertedBack(g)
            = <<Operation(g.type, FALSE, ps, ExtractRefs(g.ctrls), ExtractRefs(g.tgts))>>
        BY <2>1 DEF convertedBack
    <2>3. ps \in Seq(Params)
        <3>1. \A k \in DOMAIN g.params : g.params[k] \in Int
            BY <1>1
        <3>2. \A k \in DOMAIN g.params : createFloatValue(g.params[k]) \in Params
            BY <3>1 DEF createFloatValue, Params
        <3>3. DOMAIN g.params = 1 .. Len(g.params) /\ Len(g.params) \in Nat
            BY <1>1
        <3> QED BY <3>2, <3>3
    <2> HIDE DEF ps
    <2>4. ExtractRefs(g.ctrls) \in Seq(Refs) /\ ExtractRefs(g.tgts) \in Seq(Refs)
        BY <1>1, ExtractedRefs
    <2>5. Operation(g.type, FALSE, ps, ExtractRefs(g.ctrls), ExtractRefs(g.tgts)) \in BuiltOps
        BY <1>4, <2>3, <2>4 DEF Operation, BuiltOps
    <2> QED BY <2>1, <2>2, <2>5 DEF Operation, Ctrls, ps
<1> QED BY <1>1, <1>2, <1>3, <1>4

\* The qubits of what a gate becomes are its own.
LEMMA QubitsOfConverted ==
    ASSUME NEW g \in QcGates, NEW op \in Range(convertedBack(g))
    PROVE  Range(Qubits(op)) \subseteq On(g)
<1>1. g.ctrls \in Seq(Int) /\ g.tgts \in Seq(Int) /\ Ctrls(g) \in Seq(Int)
    BY QcGateParts DEF Ctrls
<1>2. g.type # "barrier" /\ op = convertedBack(g)[1]
    <2>1. Range(<<>>) = {}
        BY DEF Range
    <2>2. g.type # "barrier"
        BY <2>1, GateConverted
    <2>3. \A x : Range(<<x>>) = {x}
        BY DEF Range
    <2>4. convertedBack(g) = <<convertedBack(g)[1]>>
        BY <2>2, GateConverted
    <2>5. op \in {convertedBack(g)[1]}
        BY <2>3, <2>4
    <2> QED BY <2>2, <2>5
<1>3. op.ctrls = ExtractRefs(Ctrls(g)) /\ op.tgts = ExtractRefs(g.tgts)
    BY <1>2, GateConverted
<1>4. /\ op.ctrls \in Seq(Refs) /\ getIndicesOfValueRange(op.ctrls) = Ctrls(g)
      /\ op.tgts \in Seq(Refs) /\ getIndicesOfValueRange(op.tgts) = g.tgts
    BY <1>1, <1>3, ExtractedRefs
<1>5. Qubits(op) = Ctrls(g) \o g.tgts
    BY <1>4, IndicesOfConcat DEF Qubits
<1>6. Range(Qubits(op)) = Range(Ctrls(g)) \cup Range(g.tgts)
    <2> DEFINE I == Int
    <2>1. Ctrls(g) \in Seq(I) /\ g.tgts \in Seq(I)
        BY <1>1
    <2> HIDE DEF I
    <2> QED BY <1>5, <2>1, RangeConcatenation
<1>7. Range(Ctrls(g)) \subseteq Range(g.ctrls)
    BY DEF Ctrls, Range
<1> QED BY <1>6, <1>7 DEF On

BackOf == [g \in QcGates |-> convertedBack(g)]

LEMMA BackOfHasType == BackOf \in [QcGates -> Seq(BuiltOps)]
<1>1. ASSUME NEW g \in QcGates PROVE convertedBack(g) \in Seq(BuiltOps)
    <2>1. \A op \in BuiltOps : <<op>> \in Seq(BuiltOps)
        OBVIOUS
    <2>2. <<>> \in Seq(BuiltOps)
        OBVIOUS
    <2> QED BY <2>1, <2>2, GateConverted
<1> QED BY <1>1 DEF BackOf

\* The function is what the gates up to the next one became, in its new register.
BuiltSoFar ==
    input.prefixed /\ pc \in {"build", "done"} =>
      /\ circuit.allocs
           = <<[reg |-> "mapped", ref |-> FALSE, size |-> getNumberOfQubits(input)]>>
      /\ circuit.ops = Joined(BackOf, First(qcMapped, next - 1))
      /\ next \in 1 .. Len(qcMapped) + 1
      /\ pc = "done" => next = Len(qcMapped) + 1

LEMMA BuiltStepHolds == IInv /\ BuiltSoFar /\ [Next]_vars => BuiltSoFar'
<1> SUFFICES ASSUME IInv, BuiltSoFar, [Next]_vars PROVE BuiltSoFar'
    OBVIOUS
<1>1. qcMapped \in Seq(QcGates) /\ input \in Inputs /\ Len(qcMapped) \in Nat
    BY DEF IInv, TypeOK
<1>2. CASE Begin
    <2>1. pc' \in {"crashed", "load"} \/ (pc' = "done" /\ ~ input.prefixed)
        BY <1>2 DEF Begin
    <2>2. input' = input
        BY <1>2 DEF Begin
    <2> QED BY <2>1, <2>2 DEF BuiltSoFar
<1>3. CASE LoadGate \/ PlaceQubits \/ MapGate
    <2>1. pc' \in {"load", "crashed", "map"}
        BY <1>3 DEF LoadGate, PlaceQubits, MapGate
    <2> QED BY <2>1 DEF BuiltSoFar
<1>4. CASE Clear
    <2>1. /\ circuit' = [circuit EXCEPT
               !.allocs = <<[reg |-> "mapped", ref |-> FALSE, size |-> getNumberOfQubits(circuit)]>>,
               !.ops = <<>>]
          /\ next' = 1 /\ UNCHANGED <<input, qcMapped>> /\ circuit = input /\ pc' = "build"
        BY <1>4 DEF Clear, IInv, TypeOK
    <2>2. circuit \in Function
        BY <1>1, <2>1, InputHasType
    <2>3. circuit'.ops = <<>> /\ circuit'.allocs
            = <<[reg |-> "mapped", ref |-> FALSE, size |-> getNumberOfQubits(input)]>>
        BY <2>1, <2>2 DEF Function
    <2>4. First(qcMapped, 1 - 1) = <<>>
        BY <1>1, FirstNone
    <2>5. circuit'.ops = Joined(BackOf, First(qcMapped', next' - 1))
        BY <2>1, <2>3, <2>4, JoinedNone
    <2> QED BY <1>1, <2>1, <2>3, <2>5 DEF BuiltSoFar
<1>5. CASE BuildGate
    <2>1. /\ circuit' = [circuit EXCEPT !.ops = @ \o convertedBack(qcMapped[next])]
          /\ next \in DOMAIN qcMapped /\ next' = next + 1 /\ pc = "build"
          /\ UNCHANGED <<input, pc, qcMapped>>
        BY <1>5 DEF BuildGate
    <2> SUFFICES ASSUME input.prefixed PROVE BuiltSoFar'
        BY <2>1 DEF BuiltSoFar
    <2>2. /\ circuit.allocs
               = <<[reg |-> "mapped", ref |-> FALSE, size |-> getNumberOfQubits(input)]>>
          /\ circuit.ops = Joined(BackOf, First(qcMapped, next - 1))
        BY <2>1 DEF BuiltSoFar
    <2>3. next \in 1 .. Len(qcMapped) /\ (next + 1) - 1 = next /\ next + 1 \in 1 .. Len(qcMapped) + 1
        BY <1>1, <2>1
    <2>4. /\ First(qcMapped, next - 1) \in Seq(QcGates) /\ qcMapped[next] \in QcGates
          /\ First(qcMapped, next) = Append(First(qcMapped, next - 1), qcMapped[next])
        BY <1>1, <2>3, FirstOneMore
    <2>5. Joined(BackOf, First(qcMapped, next)) = circuit.ops \o convertedBack(qcMapped[next])
        <3>1. Joined(BackOf, Append(First(qcMapped, next - 1), qcMapped[next]))
                = Joined(BackOf, First(qcMapped, next - 1)) \o BackOf[qcMapped[next]]
            BY <2>4, BackOfHasType, JoinedOneMore, Zenon
        <3>2. BackOf[qcMapped[next]] = convertedBack(qcMapped[next])
            BY <2>4 DEF BackOf
        <3> QED BY <2>2, <2>4, <3>1, <3>2
    <2>6. circuit'.allocs = circuit.allocs /\ circuit'.ops = circuit.ops \o convertedBack(qcMapped[next])
        BY <2>1
    <2> QED BY <2>1, <2>2, <2>3, <2>5, <2>6 DEF BuiltSoFar
<1>6. CASE Return
    <2>1. /\ UNCHANGED <<input, next, qcMapped, circuit>> /\ pc = "build" /\ pc' = "done"
          /\ next = Len(qcMapped) + 1
        BY <1>6 DEF Return
    <2> QED BY <2>1 DEF BuiltSoFar
<1>7. CASE UNCHANGED vars
    BY <1>7 DEF vars, BuiltSoFar
<1> QED BY <1>2, <1>3, <1>4, <1>5, <1>6, <1>7 DEF Next

LEMMA BuiltInvariance == Spec => []BuiltSoFar
<1>1. Init => BuiltSoFar
    BY DEF Init, BuiltSoFar
<1> QED BY <1>1, BuiltStepHolds, Invariance, PTL DEF Spec

\* Whatever is measured, mapped and moved: the gates that are built are on coupled
\* qubits, and in the register if the device has no more qubits than the kernel.
THEOREM MappedFitsDevice == Spec => []FitsDevice
<1>1. ASSUME IInv, BuiltSoFar PROVE FitsDevice
    <2> SUFFICES ASSUME pc = "done", input.prefixed, NEW k \in DOMAIN circuit.ops
                 PROVE  LET is == Range(Qubits(circuit.ops[k]))
                        IN  /\ \A a, b \in is : a # b => <<a, b>> \in Coupling
                            /\ getNumberOfQubits(input) = DeviceQubits =>
                                 is \subseteq 0 .. getNumberOfQubits(circuit) - 1
        BY DEF FitsDevice
    <2>1. /\ qcMapped \in Seq(QcGates) /\ input \in Inputs
          /\ \A j \in DOMAIN qcMapped : On(qcMapped[j]) \subseteq Device /\ Executable(qcMapped[j])
        BY <1>1 DEF IInv, TypeOK, MappedIsExecutable, On, Device
    <2>2. /\ circuit.allocs
               = <<[reg |-> "mapped", ref |-> FALSE, size |-> getNumberOfQubits(input)]>>
          /\ circuit.ops = Joined(BackOf, qcMapped)
        <3>1. (Len(qcMapped) + 1) - 1 = Len(qcMapped)
            BY <2>1
        <3> QED BY <1>1, <2>1, <3>1, FirstNone DEF BuiltSoFar
    <2>3. circuit.ops[k] \in Range(Joined(BackOf, qcMapped))
        BY <2>2 DEF Range
    <2>4. PICK j \in DOMAIN qcMapped : circuit.ops[k] \in Range(BackOf[qcMapped[j]])
        BY <2>1, <2>3, BackOfHasType, JoinedMembers
    <2>5. qcMapped[j] \in QcGates
        BY <2>1
    <2>6. Range(Qubits(circuit.ops[k])) \subseteq On(qcMapped[j])
        BY <2>4, <2>5, QubitsOfConverted DEF BackOf
    <2>7. \A a, b \in On(qcMapped[j]) : a # b => <<a, b>> \in Coupling
        BY <2>1 DEF Executable, On
    <2>8. getNumberOfQubits(circuit) = getNumberOfQubits(input)
        <3>1. getNumberOfQubits(input) \in Nat
            BY <2>1, InputHasType
        <3> QED BY <2>2, <3>1, QubitsOfOneRegister
    <2> QED BY <2>1, <2>6, <2>7, <2>8 DEF Device
<1> QED BY <1>1, Invariance, BuiltInvariance, PTL

-----------------------------------------------------------------------------
(* What a mapped function does *)

LEMMA ValuesOfParameters ==
    ASSUME NEW ps \in Seq(Params)
    PROVE  getParametersValues(ps) \in Seq(Int)
<1>1. \A k \in DOMAIN ps : ps[k] \in Params
    OBVIOUS
<1>2. \A k \in DOMAIN ps : extractDoubleArgumentValue(ps[k]) \in Int
    BY <1>1, AngleIsNumber
<1>3. DOMAIN ps = 1 .. Len(ps) /\ Len(ps) \in Nat
    OBVIOUS
<1> QED BY <1>2, <1>3 DEF getParametersValues

\* Where the qubits are, and what has been done to them
Moments(A) == [at : Placements(A), does : Seq(Bares)]

\* Operations whose SWAPs are those of the device
UndoableOps == {op \in BuiltOps : op.gate = "swap" => getIndicesOfValueRange(op.tgts) \in Coupling}

LEMMA BackHasType ==
    ASSUME NEW A \in SUBSET Int, NEW at \in Placements(A), NEW is \in Seq(Int)
    PROVE  Back(at, is) \in Seq(Int)
<1>1. DOMAIN at = A
    BY DEF Placements
<1>2. ASSUME NEW k \in DOMAIN is
      PROVE  (IF \E i \in DOMAIN at : at[i] = is[k]
              THEN CHOOSE i \in DOMAIN at : at[i] = is[k] ELSE -1) \in Int
    <2>1. CASE \E i \in DOMAIN at : at[i] = is[k]
        <3>1. (CHOOSE i \in DOMAIN at : at[i] = is[k]) \in DOMAIN at
            BY <2>1
        <3> QED BY <1>1, <2>1, <3>1
    <2>2. CASE ~ \E i \in DOMAIN at : at[i] = is[k]
        BY <2>2
    <2> QED BY <2>1, <2>2
<1>3. DOMAIN is = 1 .. Len(is) /\ Len(is) \in Nat
    OBVIOUS
<1> QED BY <1>2, <1>3 DEF Back

\* What is in its place is found there.
LEMMA BackFromDevice ==
    ASSUME NEW A \in SUBSET Int, NEW at \in Placements(A), NEW is \in Seq(Int), Range(is) \subseteq A
    PROVE  Back(at, [k \in DOMAIN is |-> at[is[k]]]) = is
<1>1. DOMAIN at = A /\ \A i, j \in A : at[i] = at[j] => i = j
    BY DEF Placements
<1> DEFINE js == [k \in DOMAIN is |-> at[is[k]]]
           bs == Back(at, js)
<1>2. ASSUME NEW k \in DOMAIN is PROVE bs[k] = is[k]
    <2>1. is[k] \in A
        BY DEF Range
    <2>2. js[k] = at[is[k]] /\ k \in DOMAIN js
        OBVIOUS
    <2>3. bs[k] = IF \E i \in DOMAIN at : at[i] = js[k]
                  THEN CHOOSE i \in DOMAIN at : at[i] = js[k] ELSE -1
        BY <2>2 DEF Back
    <2> HIDE DEF bs, js
    <2>4. \E i \in DOMAIN at : at[i] = js[k]
        BY <1>1, <2>1, <2>2
    <2>5. bs[k] \in A /\ at[bs[k]] = js[k]
        BY <1>1, <2>3, <2>4
    <2> QED BY <1>1, <2>1, <2>2, <2>5
<1>3. bs = [k \in DOMAIN is |-> bs[k]]
    BY DEF Back
<1> HIDE DEF bs, js
<1>4. bs = is
    BY <1>2, <1>3
<1> QED BY <1>4 DEF bs, js

LEMMA UndoHasType ==
    ASSUME NEW A \in SUBSET Int, NEW s \in Moments(A), NEW op \in UndoableOps
    PROVE  /\ Undo(s, op) \in Moments(A)
           /\ op.gate = "swap" =>
                Undo(s, op) = [at |-> Swapped(s.at, getIndicesOfValueRange(op.tgts)), does |-> s.does]
           /\ op.gate # "swap" =>
                Undo(s, op) = [at |-> s.at,
                               does |-> Append(s.does,
                                          Bare(op, Back(s.at, getIndicesOfValueRange(op.ctrls)),
                                                   Back(s.at, getIndicesOfValueRange(op.tgts))))]
<1> DEFINE c == getIndicesOfValueRange(op.ctrls)
           t == getIndicesOfValueRange(op.tgts)
           new == Bare(op, Back(s.at, c), Back(s.at, t))
<1>1. /\ s.at \in Placements(A) /\ s.does \in Seq(Bares)
      /\ s = [at |-> s.at, does |-> s.does]
    BY DEF Moments
<1>2. /\ op \in BuiltOps /\ op.gate \in Gates \cup NonGates /\ op.params \in Seq(Params)
      /\ op.ctrls \in Seq(Refs) /\ op.tgts \in Seq(Refs)
      /\ op.gate = "swap" => t \in Coupling
    BY DEF UndoableOps, BuiltOps, NonGates
<1>3. c \in Seq(Int) /\ t \in Seq(Int)
    BY <1>2, IndicesOfRefs
<1> HIDE DEF c, t
<1>4. new \in Bares
    <2>1. getParametersValues(op.params) \in Seq(Int)
        BY <1>2, ValuesOfParameters
    <2>2. Back(s.at, c) \in Seq(Int) /\ Back(s.at, t) \in Seq(Int)
        BY <1>1, <1>3, BackHasType
    <2> QED BY <1>2, <2>1, <2>2 DEF Bare, Bares
<1>5. CASE op.gate = "swap"
    <2>1. Undo(s, op) = [at |-> Swapped(s.at, t), does |-> s.does]
        <3>1. Undo(s, op) = [s EXCEPT !.at = Swapped(@, t)]
            BY <1>5 DEF Undo, t
        <3> QED BY <1>1, <3>1
    <2>2. Swapped(s.at, t) \in Placements(A)
        BY <1>1, <1>2, <1>5, SwapKeepsPlaces
    <2> QED BY <1>1, <1>5, <2>1, <2>2 DEF Moments, t
<1>6. CASE op.gate # "swap"
    <2>1. Undo(s, op) = [at |-> s.at, does |-> Append(s.does, new)]
        <3>1. Undo(s, op) = [s EXCEPT !.does = Append(@, new)]
            BY <1>6 DEF Undo, c, t
        <3> HIDE DEF new
        <3> QED BY <1>1, <3>1
    <2>2. Append(s.does, new) \in Seq(Bares)
        <3> HIDE DEF new
        <3> QED BY <1>1, <1>4
    <2> QED BY <1>1, <1>6, <2>1, <2>2 DEF Moments, c, t
<1> QED BY <1>5, <1>6

\* One operation after the other
Undoes(g, at, mapped, n) ==
    g[0] = [at |-> at, does |-> <<>>] /\ \A k \in 1 .. n : g[k] = Undo(g[k - 1], mapped[k])

LEMMA UndoneStepByStep ==
    ASSUME NEW A \in SUBSET Int, NEW at \in Placements(A), NEW mapped \in Seq(UndoableOps)
    PROVE  \E g \in [0 .. Len(mapped) -> Moments(A)] :
             Undoes(g, at, mapped, Len(mapped)) /\ Undone(at, mapped) = g[Len(mapped)]
<1> DEFINE n == Len(mapped)
           start == [at |-> at, does |-> <<>>]
           M == Moments(A)
           step == [k \in 1 .. n |-> [p \in M |-> Undo(p, mapped[k])]]
           E(f) == [k \in 0 .. n |-> IF k = 0 THEN start ELSE Undo(f[k - 1], mapped[k])]
           F == CHOOSE f : f = E(f)
<1>1. n \in Nat /\ \A k \in 1 .. n : mapped[k] \in UndoableOps
    OBVIOUS
<1>2. Undone(at, mapped) = F[n]
    BY DEF Undone
<1>3. start \in M
    BY DEF Moments
<1> HIDE DEF n, start, M
<1>4. step \in [1 .. n -> [M -> M]]
    BY <1>1, UndoHasType DEF M
<1>5. PICK g \in [0 .. n -> M] : Iterates(g, n, start, step)
    <2> HIDE DEF step
    <2> QED BY <1>1, <1>3, <1>4, IterationExists
<1>6. \A k \in 1 .. n : g[k] = Undo(g[k - 1], mapped[k])
    <2>1. \A k \in 1 .. n : k - 1 \in 0 .. n
        BY <1>1
    <2> QED BY <1>5, <2>1 DEF Iterates
<1>7. g[0] = start
    BY <1>5 DEF Iterates
<1>8. g = E(g)
    <2>1. ASSUME NEW k \in 0 .. n
          PROVE  g[k] = IF k = 0 THEN start ELSE Undo(g[k - 1], mapped[k])
        <3>1. k # 0 => k \in 1 .. n
            BY <1>1
        <3> QED BY <1>6, <1>7, <3>1
    <2>2. g = [k \in 0 .. n |-> g[k]]
        BY <1>5
    <2> QED BY <2>1, <2>2
<1>9. F = E(F)
    <2> HIDE DEF E
    <2> QED BY <1>8
<1> HIDE DEF F
<1>10. GoAlike(g, F, n)
    <2>1. F[0] = start
        BY <1>1, <1>9
    <2>2. ASSUME NEW k \in 1 .. n, g[k - 1] = F[k - 1] PROVE g[k] = F[k]
        <3>1. k \in 0 .. n /\ k # 0
            BY <1>1
        <3>2. F[k] = Undo(F[k - 1], mapped[k])
            BY <1>9, <3>1
        <3> QED BY <1>6, <2>2, <3>2
    <2> QED BY <1>7, <2>1, <2>2 DEF GoAlike
<1>11. Alike(g, F, n) /\ n \in 0 .. n
    BY <1>1, <1>10, SameIteration
<1>12. g[n] = F[n]
    BY <1>11 DEF Alike
<1>13. Undoes(g, at, mapped, n)
    BY <1>6, <1>7 DEF Undoes, start
<1> QED BY <1>2, <1>12, <1>13 DEF n, M

LEMMA UndoneNone ==
    ASSUME NEW A \in SUBSET Int, NEW at \in Placements(A)
    PROVE  Undone(at, <<>>) = [at |-> at, does |-> <<>>]
<1>1. <<>> \in Seq(UndoableOps) /\ Len(<<>>) = 0
    OBVIOUS
<1>2. PICK g \in [0 .. Len(<<>>) -> Moments(A)] :
        Undoes(g, at, <<>>, Len(<<>>)) /\ Undone(at, <<>>) = g[Len(<<>>)]
    BY <1>1, UndoneStepByStep
<1> QED BY <1>1, <1>2 DEF Undoes

LEMMA UndoneOneMore ==
    ASSUME NEW A \in SUBSET Int, NEW at \in Placements(A),
           NEW mapped \in Seq(UndoableOps), NEW op \in UndoableOps
    PROVE  /\ Undone(at, mapped) \in Moments(A)
           /\ Undone(at, Append(mapped, op)) = Undo(Undone(at, mapped), op)
<1> DEFINE n == Len(mapped)
           more == Append(mapped, op)
<1>1. /\ more \in Seq(UndoableOps) /\ Len(more) = n + 1 /\ n \in Nat
      /\ more[n + 1] = op /\ \A k \in 1 .. n : more[k] = mapped[k]
    OBVIOUS
<1> HIDE DEF n, more
<1>2. PICK g \in [0 .. n -> Moments(A)] : Undoes(g, at, mapped, n) /\ Undone(at, mapped) = g[n]
    BY UndoneStepByStep DEF n
<1>3. PICK h \in [0 .. n + 1 -> Moments(A)] :
        Undoes(h, at, more, n + 1) /\ Undone(at, more) = h[n + 1]
    <2>1. \E h \in [0 .. Len(more) -> Moments(A)] :
            Undoes(h, at, more, Len(more)) /\ Undone(at, more) = h[Len(more)]
        BY <1>1, UndoneStepByStep
    <2> QED BY <1>1, <2>1
<1>4. GoAlike(g, h, n)
    <2>1. g[0] = h[0]
        BY <1>2, <1>3 DEF Undoes
    <2>2. ASSUME NEW k \in 1 .. n, g[k - 1] = h[k - 1] PROVE g[k] = h[k]
        <3>1. k \in 1 .. n + 1
            BY <1>1
        <3>2. h[k] = Undo(h[k - 1], more[k]) /\ g[k] = Undo(g[k - 1], mapped[k])
            BY <1>2, <1>3, <3>1 DEF Undoes
        <3> QED BY <1>1, <2>2, <3>2
    <2> QED BY <2>1, <2>2 DEF GoAlike
<1>5. Alike(g, h, n) /\ n \in 0 .. n
    BY <1>1, <1>4, SameIteration
<1>6. g[n] = h[n] /\ g[n] \in Moments(A)
    BY <1>2, <1>5 DEF Alike
<1>7. n + 1 \in 1 .. n + 1 /\ (n + 1) - 1 = n
    BY <1>1
<1>8. h[n + 1] = Undo(h[n], op)
    BY <1>1, <1>3, <1>7 DEF Undoes
<1> QED BY <1>2, <1>3, <1>6, <1>8 DEF more

-----------------------------------------------------------------------------
(* Undoing what the mapper does *)

\* What a gate does to its qubits
DoneBy(g) ==
    IF g.type = "barrier" THEN <<>> ELSE <<Bare(convertedBack(g)[1], Ctrls(g), g.tgts)>>
DoneOf == [g \in QcGates |-> DoneBy(g)]

\* Gates whose SWAPs are those of the device
UndoableGates == {g \in QcGates : g.type = "swap" => g.tgts \in Coupling}

UndoneGates(at, gates) == Undone(at, Joined(BackOf, gates))

LEMMA DoneByParts ==
    ASSUME NEW g \in QcGates
    PROVE  /\ g.type = "barrier" => DoneBy(g) = <<>>
           /\ g.type # "barrier" =>
                DoneBy(g) = <<[gate |-> IF g.type = "measure" THEN "mz" ELSE g.type,
                               params |-> IF g.type = "measure" THEN <<>>
                                          ELSE [k \in DOMAIN g.params |-> AsFloat(g.params[k])],
                               ctrls |-> Ctrls(g), tgts |-> g.tgts]>>
           /\ DoneBy(g) \in Seq(Bares)
<1>1. CASE g.type = "barrier"
    <2>1. <<>> \in Seq(Bares)
        OBVIOUS
    <2> QED BY <1>1, <2>1 DEF DoneBy
<1>2. CASE g.type # "barrier"
    <2> DEFINE op == convertedBack(g)[1]
               ps == IF g.type = "measure" THEN <<>>
                     ELSE [k \in DOMAIN g.params |-> AsFloat(g.params[k])]
               b == Bare(op, Ctrls(g), g.tgts)
    <2>1. /\ op \in BuiltOps /\ op.gate = IF g.type = "measure" THEN "mz" ELSE g.type
          /\ op.params = IF g.type = "measure" THEN <<>>
                         ELSE [k \in DOMAIN g.params |-> createFloatValue(g.params[k])]
        BY <1>2, GateConverted
    <2>2. op.params \in Seq(Params) /\ op.gate \in Gates \cup NonGates
        BY <2>1 DEF BuiltOps, NonGates
    <2> HIDE DEF op
    <2>3. \A x : extractDoubleArgumentValue(createFloatValue(x)) = AsFloat(x)
        BY DEF extractDoubleArgumentValue, createFloatValue
    <2>4. getParametersValues(op.params) = ps
        <3>1. CASE g.type = "measure"
            BY <2>1, <3>1 DEF getParametersValues
        <3>2. CASE g.type # "measure"
            BY <2>1, <2>3, <3>2 DEF getParametersValues
        <3> QED BY <3>1, <3>2
    <2>5. ps \in Seq(Int)
        BY <2>2, <2>4, ValuesOfParameters
    <2> HIDE DEF ps
    <2>6. Ctrls(g) \in Seq(Int) /\ g.tgts \in Seq(Int)
        BY QcGateParts DEF Ctrls
    <2>7. b = [gate |-> op.gate, params |-> ps, ctrls |-> Ctrls(g), tgts |-> g.tgts]
        BY <2>4 DEF Bare
    <2>8. b \in Bares
        BY <2>2, <2>5, <2>6, <2>7 DEF Bares
    <2> HIDE DEF b
    <2>9. <<b>> \in Seq(Bares)
        BY <2>8
    <2>10. DoneBy(g) = <<b>>
        BY <1>2 DEF DoneBy, b, op
    <2> QED BY <1>2, <2>1, <2>7, <2>9, <2>10 DEF ps
<1> QED BY <1>1, <1>2

LEMMA DoneOfHasType == DoneOf \in [QcGates -> Seq(Bares)]
BY DoneByParts DEF DoneOf

LEMMA UndoableConverted ==
    ASSUME NEW g \in UndoableGates
    PROVE  convertedBack(g) \in Seq(UndoableOps)
<1>1. g \in QcGates /\ (g.type = "swap" => g.tgts \in Coupling)
    BY DEF UndoableGates
<1>2. CASE g.type = "barrier"
    <2>1. <<>> \in Seq(UndoableOps)
        OBVIOUS
    <2> QED BY <1>1, <1>2, <2>1, GateConverted
<1>3. CASE g.type # "barrier"
    <2> DEFINE op == convertedBack(g)[1]
    <2>1. /\ convertedBack(g) = <<op>> /\ op \in BuiltOps
          /\ op.gate = IF g.type = "measure" THEN "mz" ELSE g.type
          /\ op.tgts = ExtractRefs(g.tgts)
        BY <1>1, <1>3, GateConverted
    <2> HIDE DEF op
    <2>2. g.tgts \in Seq(Int)
        BY <1>1, QcGateParts
    <2>3. getIndicesOfValueRange(op.tgts) = g.tgts
        BY <2>1, <2>2, ExtractedRefs
    <2>4. op.gate = "swap" => g.type = "swap"
        BY <2>1
    <2>5. op \in UndoableOps
        BY <1>1, <2>1, <2>3, <2>4 DEF UndoableOps
    <2>6. <<op>> \in Seq(UndoableOps)
        BY <2>5
    <2> QED BY <2>1, <2>6
<1> QED BY <1>2, <1>3

LEMMA UndoableJoined ==
    ASSUME NEW gates \in Seq(UndoableGates)
    PROVE  /\ Joined(BackOf, gates) \in Seq(UndoableOps)
           /\ \A g \in UndoableGates :
                Joined(BackOf, Append(gates, g)) = Joined(BackOf, gates) \o convertedBack(g)
<1> DEFINE f == [g \in UndoableGates |-> convertedBack(g)]
<1>1. f \in [UndoableGates -> Seq(UndoableOps)]
    BY UndoableConverted
<1>2. \A g \in UndoableGates : g \in QcGates /\ f[g] = BackOf[g] /\ f[g] = convertedBack(g)
    BY DEF UndoableGates, BackOf
<1> HIDE DEF f
<1>3. ASSUME NEW s \in Seq(UndoableGates) PROVE Joined(BackOf, s) = Joined(f, s)
    <2>1. \A k \in DOMAIN s : s[k] \in UndoableGates
        OBVIOUS
    <2>2. [k \in DOMAIN s |-> BackOf[s[k]]] = [k \in DOMAIN s |-> f[s[k]]]
        BY <1>2, <2>1
    <2> QED BY <2>2 DEF Joined, Parts
<1>4. ASSUME NEW g \in UndoableGates
      PROVE  Joined(BackOf, Append(gates, g)) = Joined(BackOf, gates) \o convertedBack(g)
    <2>1. Append(gates, g) \in Seq(UndoableGates)
        OBVIOUS
    <2>2. Joined(f, Append(gates, g)) = Joined(f, gates) \o f[g]
        BY <1>1, JoinedOneMore
    <2> QED BY <1>2, <1>3, <2>1, <2>2
<1>5. Joined(f, gates) \in Seq(UndoableOps)
    BY <1>1, JoinedParts
<1> QED BY <1>3, <1>4, <1>5

\* One gate more
LEMMA UndoneGatesOneMore ==
    ASSUME NEW A \in SUBSET Int, NEW at \in Placements(A), NEW gates \in Seq(UndoableGates),
           NEW g \in UndoableGates
    PROVE  /\ UndoneGates(at, gates) \in Moments(A)
           /\ g.type = "barrier" => UndoneGates(at, Append(gates, g)) = UndoneGates(at, gates)
           /\ g.type # "barrier" =>
                UndoneGates(at, Append(gates, g)) = Undo(UndoneGates(at, gates), convertedBack(g)[1])
<1> DEFINE ops == Joined(BackOf, gates)
           op == convertedBack(g)[1]
<1>1. /\ ops \in Seq(UndoableOps) /\ convertedBack(g) \in Seq(UndoableOps) /\ g \in QcGates
      /\ Joined(BackOf, Append(gates, g)) = ops \o convertedBack(g)
    BY UndoableJoined, UndoableConverted DEF UndoableGates
<1> HIDE DEF ops, op
<1>2. UndoneGates(at, gates) = Undone(at, ops)
      /\ UndoneGates(at, Append(gates, g)) = Undone(at, ops \o convertedBack(g))
    BY <1>1 DEF UndoneGates, ops
<1>3. Undone(at, ops) \in Moments(A)
    <2>1. CASE ops = <<>>
        <3>1. Undone(at, <<>>) = [at |-> at, does |-> <<>>]
            BY UndoneNone
        <3>2. <<>> \in Seq(Bares)
            OBVIOUS
        <3>3. [at |-> at, does |-> <<>>] \in Moments(A)
            BY <3>2 DEF Moments
        <3> QED BY <2>1, <3>1, <3>3
    <2>2. CASE ops # <<>>
        <3>1. \E o : o \in UndoableOps
            BY <1>1, <2>2
        <3> QED BY <1>1, <3>1, UndoneOneMore
    <2> QED BY <2>1, <2>2
<1>4. CASE g.type = "barrier"
    <2>1. convertedBack(g) = <<>>
        BY <1>1, <1>4, GateConverted
    <2>2. ops \o <<>> = ops
        BY <1>1, ConcatEmptySeq
    <2> QED BY <1>2, <1>3, <1>4, <2>1, <2>2
<1>5. CASE g.type # "barrier"
    <2>1. convertedBack(g) = <<op>>
        BY <1>1, <1>5, GateConverted DEF op
    <2>2. op \in UndoableOps
        <3>1. <<op>> \in Seq(UndoableOps)
            BY <1>1, <2>1
        <3> QED BY <3>1
    <2>3. ops \o <<op>> = Append(ops, op)
        BY <1>1, <2>2, AppendIsConcat
    <2>4. Undone(at, Append(ops, op)) = Undo(Undone(at, ops), op)
        BY <1>1, <2>2, UndoneOneMore
    <2> QED BY <1>2, <1>3, <1>5, <2>1, <2>3, <2>4 DEF op
<1> QED BY <1>4, <1>5

LEMMA UndoneGatesNone ==
    ASSUME NEW A \in SUBSET Int, NEW at \in Placements(A)
    PROVE  UndoneGates(at, <<>>) = [at |-> at, does |-> <<>>]
BY UndoneNone, JoinedNone DEF UndoneGates

\* A SWAP moves two qubits and does nothing else.
LEMMA UndoneSwap ==
    ASSUME NEW A \in SUBSET Int, NEW at \in Placements(A), NEW gates \in Seq(UndoableGates),
           NEW e \in Coupling
    PROVE  LET g == QcGate("swap", <<>>, <<>>, e)
               s == UndoneGates(at, gates)
           IN  /\ g \in UndoableGates
               /\ UndoneGates(at, Append(gates, g)) = [at |-> Swapped(s.at, e), does |-> s.does]
<1> DEFINE g == QcGate("swap", <<>>, <<>>, e)
           s == UndoneGates(at, gates)
           op == convertedBack(g)[1]
<1>1. g \in QcGates /\ g.type = "swap" /\ g.tgts = e /\ e \in Seq(Int)
    BY SwapIsExecutable, CoupledPair DEF QcGate
<1> HIDE DEF g
<1>2. g \in UndoableGates
    BY <1>1 DEF UndoableGates
<1>3. convertedBack(g) = <<op>> /\ op.gate = "swap" /\ op.tgts = ExtractRefs(e)
    BY <1>1, GateConverted
<1>4. op \in UndoableOps
    <2> HIDE DEF op
    <2>1. <<op>> \in Seq(UndoableOps)
        BY <1>2, <1>3, UndoableConverted
    <2> QED BY <2>1
<1>5. getIndicesOfValueRange(op.tgts) = e
    BY <1>1, <1>3, ExtractedRefs
<1>6. s \in Moments(A) /\ UndoneGates(at, Append(gates, g)) = Undo(s, op)
    BY <1>1, <1>2, UndoneGatesOneMore
<1> HIDE DEF s, op
<1>7. Undo(s, op) = [at |-> Swapped(s.at, e), does |-> s.does]
    BY <1>3, <1>4, <1>5, <1>6, UndoHasType
<1> QED BY <1>2, <1>6, <1>7 DEF s, g

\* So do some SWAPs.
LEMMA UndoneSwaps ==
    ASSUME NEW A \in SUBSET Int, NEW at \in Placements(A), NEW gates \in Seq(UndoableGates),
           NEW swaps \in Seq(Coupling)
    PROVE  LET s == UndoneGates(at, gates)
           IN  /\ gates \o SwapGates(swaps) \in Seq(UndoableGates)
               /\ UndoneGates(at, gates \o SwapGates(swaps))
                    = [at |-> PlacesAfter(s.at, swaps), does |-> s.does]
<1> DEFINE s == UndoneGates(at, gates)
           Good(w) == /\ gates \o SwapGates(w) \in Seq(UndoableGates)
                      /\ UndoneGates(at, gates \o SwapGates(w))
                           = [at |-> PlacesAfter(s.at, w), does |-> s.does]
           P == {w \in Seq(Coupling) : Good(w)}
<1>1. s \in Moments(A)
    <2>1. Barrier \in UndoableGates
        BY QcGateHasType, ShortSequences DEF Barrier, QcGate, UndoableGates
    <2> QED BY <2>1, UndoneGatesOneMore
<1>2. s.at \in Placements(A) /\ s = [at |-> s.at, does |-> s.does]
    BY <1>1 DEF Moments
<1> HIDE DEF s
<1>3. <<>> \in P
    <2>1. SwapGates(<<>>) = <<>>
        BY DEF SwapGates
    <2>2. gates \o <<>> = gates
        BY ConcatEmptySeq
    <2>3. PlacesAfter(s.at, <<>>) = s.at
        BY <1>2, PlacesAfterNone
    <2>4. <<>> \in Seq(Coupling)
        OBVIOUS
    <2>5. UndoneGates(at, gates) = s
        BY DEF s
    <2>6. Good(<<>>)
        BY <1>2, <2>1, <2>2, <2>3, <2>5
    <2> QED BY <2>4, <2>6
<1>4. ASSUME NEW w \in Seq(Coupling), NEW e \in Coupling, w \in P PROVE Append(w, e) \in P
    <2> DEFINE g == QcGate("swap", <<>>, <<>>, e)
               before == gates \o SwapGates(w)
    <2>1. before \in Seq(UndoableGates)
            /\ UndoneGates(at, before) = [at |-> PlacesAfter(s.at, w), does |-> s.does]
        BY <1>4
    <2>2. /\ g \in UndoableGates
          /\ UndoneGates(at, Append(before, g))
               = [at |-> Swapped(PlacesAfter(s.at, w), e), does |-> s.does]
        <3> HIDE DEF before
        <3>1. LET t == UndoneGates(at, before)
              IN  /\ g \in UndoableGates
                  /\ UndoneGates(at, Append(before, g)) = [at |-> Swapped(t.at, e), does |-> t.does]
            BY <2>1, UndoneSwap
        <3>2. /\ UndoneGates(at, before).at = PlacesAfter(s.at, w)
              /\ UndoneGates(at, before).does = s.does
            BY <2>1
        <3> HIDE DEF g
        <3> QED BY <3>1, <3>2
    <2>3. PlacesAfter(s.at, Append(w, e)) = Swapped(PlacesAfter(s.at, w), e)
        BY <1>2, PlacesAfterOneMore
    <2>4. SwapGates(Append(w, e)) = Append(SwapGates(w), g)
        BY DEF SwapGates
    <2>5. SwapGates(w) \in Seq(UndoableGates)
        <3>1. \A k \in DOMAIN w : w[k] \in Coupling
            OBVIOUS
        <3>2. \A k \in DOMAIN w : QcGate("swap", <<>>, <<>>, w[k]) \in UndoableGates
            BY <3>1, UndoneSwap
        <3>3. DOMAIN w = 1 .. Len(w) /\ Len(w) \in Nat
            OBVIOUS
        <3> QED BY <3>2, <3>3 DEF SwapGates
    <2> HIDE DEF g
    <2>6. gates \o Append(SwapGates(w), g) = Append(before, g)
        <3>1. /\ Append(SwapGates(w), g) = SwapGates(w) \o <<g>> /\ <<g>> \in Seq(UndoableGates)
              /\ Append(before, g) = before \o <<g>>
            BY <2>1, <2>2, <2>5, AppendIsConcat
        <3> QED BY <2>5, <3>1, ConcatAssociative
    <2>7. Append(before, g) \in Seq(UndoableGates) /\ Append(w, e) \in Seq(Coupling)
        BY <2>1, <2>2
    <2> HIDE DEF before
    <2>8. Good(Append(w, e))
        BY <2>2, <2>3, <2>4, <2>6, <2>7
    <2> QED BY <2>7, <2>8
<1>5. Seq(Coupling) \subseteq P
    <2> HIDE DEF P
    <2> QED BY <1>3, <1>4, ByAppending
<1>6. Good(swaps)
    BY <1>5
<1> QED BY <1>6 DEF s

\* A gate on the device does to its qubits what it does without one.
LEMMA UndoneGate ==
    ASSUME NEW n \in Nat, NEW at \in Placements(0 .. n - 1), NEW gates \in Seq(UndoableGates),
           NEW g \in QcGates, On(g) \subseteq 0 .. n - 1, g.type # "swap"
    PROVE  LET s == UndoneGates(at, gates)
               d == OnDevice(g, s.at)
           IN  /\ d \in UndoableGates
               /\ UndoneGates(at, Append(gates, d)) = [at |-> s.at, does |-> s.does \o DoneBy(g)]
<1> DEFINE A == 0 .. n - 1
           s == UndoneGates(at, gates)
           d == OnDevice(g, s.at)
           op == convertedBack(d)[1]
<1>1. A \in SUBSET Int
    OBVIOUS
<1>2. s \in Moments(A)
    <2>1. Barrier \in UndoableGates
        BY QcGateHasType, ShortSequences DEF Barrier, QcGate, UndoableGates
    <2> QED BY <1>1, <2>1, UndoneGatesOneMore
<1>3. s.at \in Placements(A) /\ s.does \in Seq(Bares) /\ s = [at |-> s.at, does |-> s.does]
    BY <1>2 DEF Moments
<1> HIDE DEF s
<1>4. /\ d \in QcGates /\ d.type = g.type /\ d.params = g.params
      /\ d.ctrls = [k \in DOMAIN g.ctrls |-> s.at[g.ctrls[k]]]
      /\ d.tgts = [k \in DOMAIN g.tgts |-> s.at[g.tgts[k]]]
    BY <1>3, GateOnDevice
<1> HIDE DEF d
<1>5. d \in UndoableGates
    BY <1>4 DEF UndoableGates
<1>6. CASE g.type = "barrier"
    <2>1. DoneBy(g) = <<>> /\ s.does \o <<>> = s.does
        BY <1>3, <1>6, ConcatEmptySeq DEF DoneBy
    <2>2. UndoneGates(at, Append(gates, d)) = s
        BY <1>1, <1>4, <1>5, <1>6, UndoneGatesOneMore DEF s
    <2> QED BY <1>3, <1>5, <2>1, <2>2 DEF d, s
<1>7. CASE g.type # "barrier"
    <2> DEFINE b == convertedBack(g)[1]
               was == Bare(b, Ctrls(g), g.tgts)
    <2>1. UndoneGates(at, Append(gates, d)) = Undo(s, op)
        BY <1>1, <1>4, <1>5, <1>7, UndoneGatesOneMore DEF s
    <2>2. /\ convertedBack(d) = <<op>> /\ op.gate = b.gate /\ op.params = b.params
          /\ op.gate # "swap"
          /\ op.ctrls = ExtractRefs(Ctrls(d)) /\ op.tgts = ExtractRefs(d.tgts)
        <3>1. /\ convertedBack(d) = <<op>>
              /\ op.gate = IF d.type = "measure" THEN "mz" ELSE d.type
              /\ op.params = IF d.type = "measure" THEN <<>>
                             ELSE [k \in DOMAIN d.params |-> createFloatValue(d.params[k])]
              /\ op.ctrls = ExtractRefs(Ctrls(d)) /\ op.tgts = ExtractRefs(d.tgts)
            BY <1>4, <1>7, GateConverted
        <3>2. /\ b.gate = IF g.type = "measure" THEN "mz" ELSE g.type
              /\ b.params = IF g.type = "measure" THEN <<>>
                            ELSE [k \in DOMAIN g.params |-> createFloatValue(g.params[k])]
            BY <1>7, GateConverted
        <3> HIDE DEF op, b
        <3> QED BY <1>4, <3>1, <3>2
    <2> HIDE DEF op, b
    <2>3. op \in UndoableOps
        <3>1. <<op>> \in Seq(UndoableOps)
            BY <1>5, <2>2, UndoableConverted
        <3> QED BY <3>1
    <2>4. /\ Ctrls(g) \in Seq(Int) /\ Range(Ctrls(g)) \subseteq A
          /\ g.tgts \in Seq(Int) /\ Range(g.tgts) \subseteq A
          /\ Ctrls(d) \in Seq(Int) /\ d.tgts \in Seq(Int)
          /\ Ctrls(d) = [k \in DOMAIN Ctrls(g) |-> s.at[Ctrls(g)[k]]]
        <3>1. /\ g.ctrls \in Seq(Int) /\ g.tgts \in Seq(Int)
              /\ d.ctrls \in Seq(Int) /\ d.tgts \in Seq(Int)
            BY <1>4, QcGateParts
        <3>2. Range(g.ctrls) \subseteq A /\ Range(g.tgts) \subseteq A
            BY DEF On
        <3> HIDE DEF A
        <3>3. CASE g.type = "measure"
            BY <1>4, <3>1, <3>2, <3>3 DEF Ctrls, Range
        <3>4. CASE g.type # "measure"
            BY <1>4, <3>1, <3>2, <3>4 DEF Ctrls
        <3> QED BY <3>3, <3>4
    <2>5. getIndicesOfValueRange(op.ctrls) = Ctrls(d) /\ getIndicesOfValueRange(op.tgts) = d.tgts
        BY <2>2, <2>4, ExtractedRefs
    <2>6. Back(s.at, Ctrls(d)) = Ctrls(g) /\ Back(s.at, d.tgts) = g.tgts
        <3> HIDE DEF A
        <3>1. Back(s.at, [k \in DOMAIN Ctrls(g) |-> s.at[Ctrls(g)[k]]]) = Ctrls(g)
            BY <1>1, <1>3, <2>4, BackFromDevice
        <3>2. Back(s.at, [k \in DOMAIN g.tgts |-> s.at[g.tgts[k]]]) = g.tgts
            BY <1>1, <1>3, <2>4, BackFromDevice
        <3> QED BY <1>4, <2>4, <3>1, <3>2
    <2>7. Undo(s, op) = [at |-> s.at, does |-> Append(s.does, Bare(op, Ctrls(g), g.tgts))]
        BY <1>1, <1>2, <2>2, <2>3, <2>5, <2>6, UndoHasType
    <2>8. Bare(op, Ctrls(g), g.tgts) = was
        BY <2>2 DEF Bare
    <2>9. DoneBy(g) = <<was>> /\ was \in Bares
        <3>1. DoneBy(g) = <<was>>
            BY <1>7 DEF DoneBy, b
        <3> HIDE DEF was
        <3>2. <<was>> \in Seq(Bares)
            BY <3>1, DoneByParts
        <3> QED BY <3>1, <3>2
    <2> HIDE DEF was
    <2>10. Append(s.does, was) = s.does \o DoneBy(g)
        BY <1>3, <2>9, AppendIsConcat
    <2> QED BY <1>5, <2>1, <2>7, <2>8, <2>10 DEF d, s
<1> QED BY <1>6, <1>7

-----------------------------------------------------------------------------
(* What a covered operation loads *)

DoesBy(func, op) ==
    IF IsVeq(op.tgts[1])
    THEN [i \in 1 .. getNumberOfQubits(func) |-> Bare(op, <<>>, <<i - 1>>)]
    ELSE <<Bare(op, getIndicesOfValueRange(op.ctrls), getIndicesOfValueRange(op.tgts))>>
DoesOf(func) == [op \in Range(func.ops) |-> DoesBy(func, op)]

LEMMA DoesOperationByOperation ==
    ASSUME NEW func
    PROVE  Does(func) = Joined(DoesOf(func), func.ops)
<1>1. ASSUME NEW k \in DOMAIN func.ops
      PROVE  DoesOf(func)[func.ops[k]] = DoesBy(func, func.ops[k])
    BY DEF DoesOf, Range
<1>2. Does(func) = FlattenSeq([k \in DOMAIN func.ops |-> DoesBy(func, func.ops[k])])
    BY DEF Does, DoesBy
<1>3. [k \in DOMAIN func.ops |-> DoesBy(func, func.ops[k])]
        = [k \in DOMAIN func.ops |-> DoesOf(func)[func.ops[k]]]
    BY <1>1
<1> QED BY <1>2, <1>3 DEF Joined, Parts

LEMMA DoesHasType ==
    ASSUME NEW func \in Inputs
    PROVE  DoesOf(func) \in [Range(func.ops) -> Seq(Bares)] /\ func.ops \in Seq(Range(func.ops))
<1>1. ASSUME NEW op \in Range(func.ops) PROVE DoesBy(func, op) \in Seq(Bares)
    <2>1. PICK k \in DOMAIN func.ops : op = func.ops[k]
        BY DEF Range
    <2>2. /\ op.gate \in Gates \cup NonGates /\ op.params \in Seq(Params)
          /\ op.ctrls \in Seq(Refs) /\ op.tgts \in Seq(Refs)
        BY <2>1, OperationOfInput, WiresAreRefs DEF Op
    <2>3. getParametersValues(op.params) \in Seq(Int)
        BY <2>2, ValuesOfParameters
    <2>4. \A c, t \in Seq(Int) : Bare(op, c, t) \in Bares
        BY <2>2, <2>3 DEF Bare, Bares
    <2>5. CASE IsVeq(op.tgts[1])
        <3> DEFINE n == getNumberOfQubits(func)
        <3>1. n \in Nat
            BY InputHasType
        <3> HIDE DEF n
        <3>2. \A i \in 1 .. n : i - 1 \in Int
            BY <3>1
        <3>3. \A i \in 1 .. n : Bare(op, <<>>, <<i - 1>>) \in Bares
            BY <2>4, <3>2, ShortSequences
        <3>4. [i \in 1 .. n |-> Bare(op, <<>>, <<i - 1>>)] \in Seq(Bares)
            BY <3>1, <3>3
        <3> QED BY <2>5, <3>4 DEF DoesBy, n
    <2>6. CASE ~ IsVeq(op.tgts[1])
        <3> DEFINE b == Bare(op, getIndicesOfValueRange(op.ctrls), getIndicesOfValueRange(op.tgts))
        <3>1. b \in Bares
            BY <2>2, <2>4, IndicesOfRefs
        <3>2. DoesBy(func, op) = <<b>>
            BY <2>6 DEF DoesBy
        <3> HIDE DEF b
        <3> QED BY <3>1, <3>2
    <2> QED BY <2>5, <2>6
<1>2. func.ops \in Seq(Op)
    BY InputHasType
<1>3. func.ops \in Seq(Range(func.ops))
    BY <1>2 DEF Range
<1> QED BY <1>1, <1>3 DEF DoesOf

\* Nothing that is loaded is a SWAP.
LEMMA LoadedAreNoSwaps ==
    ASSUME NEW op, NEW func, NEW count, getNumberOfQubits(func) \in Nat
    PROVE  \A k \in DOMAIN Loaded(op, func, count).gates :
             Loaded(op, func, count).gates[k].type # "swap"
<1>1. CASE op.gate \in {"rx", "ry", "rz"}
    <2>1. Loaded(op, func, count) = loadRotationGatesToQC(op)
        BY <1>1 DEF Loaded, isMeasurement, Measurements
    <2> QED BY <1>1, <2>1 DEF loadRotationGatesToQC, Loads, QcGate
<1>2. CASE op.gate \in {"x", "y", "z"}
    <2>1. Loaded(op, func, count) = loadXYZGatesToQC(op)
        BY <1>2 DEF Loaded, isMeasurement, Measurements
    <2>2. CASE Len(Qubits(op)) = 2
        BY <1>2, <2>1, <2>2 DEF loadXYZGatesToQC, Loads, QcGate
    <2>3. CASE Len(Qubits(op)) = 1
        BY <1>2, <2>1, <2>3 DEF loadXYZGatesToQC, Loads, QcGate
    <2>4. CASE Len(Qubits(op)) \notin {1, 2}
        BY <1>2, <2>1, <2>4 DEF loadXYZGatesToQC, Loads, QcGate
    <2> QED BY <2>2, <2>3, <2>4
<1>3. CASE op.gate \in {"s", "t", "h"}
    <2>1. Loaded(op, func, count) = loadSTHGatesToQC(op)
        BY <1>3 DEF Loaded, isMeasurement, Measurements
    <2> QED BY <1>3, <2>1 DEF loadSTHGatesToQC, Loads, QcGate
<1>4. CASE isMeasurement(op)
    <2> DEFINE n == getNumberOfQubits(func)
               ms == [i \in 1 .. n |-> Measure(i - 1, count.numBits + i - 1)]
               one == <<Measure(op.tgts[1].idx, count.measurements[op.tgts[1].idx])>>
    <2>1. Loaded(op, func, count).gates \in {<<Barrier>> \o ms, one}
        <3>1. Loaded(op, func, count) = loadMeasurementsToQC(op, func, count)
            BY <1>4 DEF Loaded, isMeasurement, Measurements
        <3>2. CASE IsVeq(op.tgts[1])
            <4>1. \E a : loadMeasurementsToQC(op, func, count) = Loads(a, <<Barrier>> \o ms)
                BY <3>2 DEF loadMeasurementsToQC
            <4> HIDE DEF ms
            <4> QED BY <3>1, <4>1 DEF Loads
        <3>3. CASE ~ IsVeq(op.tgts[1])
            BY <3>1, <3>3 DEF loadMeasurementsToQC, Loads
        <3> QED BY <3>2, <3>3
    <2>2. \A k \in DOMAIN one : one[k].type # "swap"
        BY DEF Measure
    <2>3. \A k \in DOMAIN (<<Barrier>> \o ms) : (<<Barrier>> \o ms)[k].type # "swap"
        <3> DEFINE T == {g \in {Barrier} \cup Range(ms) : g.type # "swap"}
        <3>1. Barrier \in T
            BY DEF Barrier, QcGate
        <3>2. \A i \in 1 .. n : ms[i] \in T
            BY DEF Measure, Range
        <3>3. n \in Nat /\ ms = [i \in 1 .. n |-> ms[i]]
            OBVIOUS
        <3> HIDE DEF ms, n, T
        <3>4. <<Barrier>> \in Seq(T) /\ ms \in Seq(T)
            BY <3>1, <3>2, <3>3
        <3>5. <<Barrier>> \o ms \in Seq(T)
            BY <3>4, ConcatIsSeq
        <3>6. \A k \in DOMAIN (<<Barrier>> \o ms) : (<<Barrier>> \o ms)[k] \in T
            BY <3>5
        <3> QED BY <3>6 DEF T
    <2> HIDE DEF ms, one
    <2> QED BY <2>1, <2>2, <2>3
<1>5. CASE ~ isMeasurement(op) /\ op.gate \notin {"rx", "ry", "rz", "x", "y", "z", "s", "t", "h"}
    BY <1>5 DEF Loaded, Loads
<1> QED BY <1>1, <1>2, <1>3, <1>4, <1>5

LEMMA DoneOfConcat ==
    ASSUME NEW s \in Seq(QcGates), NEW t \in Seq(QcGates)
    PROVE  Joined(DoneOf, s \o t) = Joined(DoneOf, s) \o Joined(DoneOf, t)
BY DoneOfHasType, JoinedConcat

LEMMA DoneByOne ==
    ASSUME NEW g \in QcGates
    PROVE  Joined(DoneOf, <<g>>) = DoneBy(g)
<1>1. Joined(DoneOf, <<g>>) = DoneOf[g]
    BY DoneOfHasType, JoinedOne
<1> QED BY <1>1 DEF DoneOf

\* The operands of a covered operation that is no measurement
LEMMA CoveredOperands ==
    ASSUME NEW func \in Inputs, NEW k \in DOMAIN func.ops, Covered(func.ops[k], func),
           ~ isMeasurement(func.ops[k])
    PROVE  LET op == func.ops[k]
               c == getIndicesOfValueRange(op.ctrls)
               t == getIndicesOfValueRange(op.tgts)
           IN  /\ op.gate \in {"rx", "ry", "rz", "x", "y", "z", "s", "t", "h"}
               /\ op.gate \notin {"x", "y", "z"} => op.ctrls = <<>>
               /\ Len(c) \in {0, 1} /\ (Len(c) = 0 => c = <<>>) /\ (Len(c) = 1 => c = <<c[1]>>)
               /\ t = <<t[1]>> /\ c \in Seq(Int) /\ t \in Seq(Int) /\ t[1] \in Int
               /\ Len(c) = 1 => c[1] \in Int
               /\ Qubits(op) = IF Len(c) = 0 THEN <<t[1]>> ELSE <<c[1], t[1]>>
               /\ DoesBy(func, op) = <<Bare(op, c, t)>>
<1> DEFINE op == func.ops[k]
           c == getIndicesOfValueRange(op.ctrls)
           t == getIndicesOfValueRange(op.tgts)
<1>1. op.gate \in {"rx", "ry", "rz", "x", "y", "z", "s", "t", "h"}
        /\ (op.gate \notin {"x", "y", "z"} => op.ctrls = <<>>) /\ Len(op.ctrls) \in {0, 1}
    <2>1. op.gate # "mz"
        BY DEF isMeasurement, Measurements
    <2>2. op.ctrls \in Seq(Wires)
        BY OperationOfInput
    <2>3. Len(op.ctrls) \in Nat
        BY <2>2
    <2>4. op.ctrls = <<>> => Len(op.ctrls) = 0
        OBVIOUS
    <2> HIDE DEF op
    <2>5. Covered(op, func)
        BY DEF op
    <2>6. \/ op.gate \in {"rx", "ry", "rz"} /\ op.ctrls = <<>>
          \/ op.gate \in {"x", "y", "z"} /\ Len(op.ctrls) <= 1
          \/ op.gate \in {"s", "t", "h"} /\ op.ctrls = <<>>
          \/ op.gate = "mz"
        BY <2>5 DEF Covered
    <2>7. Len(op.ctrls) <= 1 => Len(op.ctrls) \in {0, 1}
        <3>1. \A l \in Nat : l <= 1 => l \in {0, 1}
            OBVIOUS
        <3> QED BY <2>3, <3>1
    <2> QED BY <2>1, <2>4, <2>6, <2>7
<1>2. Len(op.tgts) = 1 /\ op.ctrls \in Seq(Refs) /\ op.tgts \in Seq(Refs)
    <2>1. op.gate \in Gates \ {"swap"}
        BY <1>1 DEF Gates
    <2> QED BY <2>1, OperationOfInput, WiresAreRefs
<1>3. /\ c \in Seq(Int) /\ Len(c) = Len(op.ctrls) /\ t \in Seq(Int) /\ Len(t) = 1
      /\ Qubits(op) = c \o t /\ t[1] = op.tgts[1].idx
    <2>1. 1 \in DOMAIN op.tgts
        BY <1>2
    <2> HIDE DEF op
    <2> QED BY <1>2, <2>1, IndicesOfRefs, QubitsOfInput DEF op
<1>4. op.gate # "mz" /\ (Whole \in Range(Qubits(op)) => op.gate = "mz")
    <2>1. op.gate # "mz"
        BY <1>1
    <2> HIDE DEF op
    <2>2. Covered(op, func)
        BY DEF op
    <2> QED BY <2>1, <2>2 DEF Covered
<1>5. DoesBy(func, op) = IF IsVeq(op.tgts[1]) THEN DoesBy(func, op) ELSE <<Bare(op, c, t)>>
    BY DEF DoesBy
<1> HIDE DEF op, c, t
<1>6. t = <<t[1]>> /\ t[1] \in Int /\ Len(c) \in {0, 1}
    BY <1>1, <1>2, <1>3
<1>7. CASE Len(c) = 0
    <2>1. c = <<>>
        BY <1>3, <1>7
    <2>2. Qubits(op) = <<t[1]>>
        <3>1. <<>> \o t = t
            <4> DEFINE I == Int
            <4>1. t \in Seq(I)
                BY <1>3
            <4> HIDE DEF I
            <4> QED BY <4>1, ConcatEmptySeq
        <3> QED BY <1>3, <1>6, <2>1, <3>1
    <2>3. t[1] # Whole
        <3>1. Range(<<t[1]>>) = {t[1]}
            BY DEF Range
        <3> QED BY <1>4, <2>2, <3>1
    <2>4. ~ IsVeq(op.tgts[1])
        BY <1>3, <2>3 DEF IsVeq
    <2> QED BY <1>1, <1>3, <1>5, <1>6, <1>7, <2>1, <2>2, <2>4 DEF op, c, t
<1>8. CASE Len(c) = 1
    <2>1. c = <<c[1]>> /\ c[1] \in Int
        BY <1>3, <1>8
    <2>2. Qubits(op) = <<c[1], t[1]>>
        <3>1. \A a, b \in Int : <<a>> \o <<b>> = <<a, b>>
            <4> DEFINE I == Int
            <4> SUFFICES ASSUME NEW a \in I, NEW b \in I PROVE <<a>> \o <<b>> = <<a, b>>
                OBVIOUS
            <4> HIDE DEF I
            <4> QED BY TwoInARow
        <3> QED BY <1>3, <1>6, <2>1, <3>1
    <2>3. t[1] # Whole
        <3>1. Range(<<c[1], t[1]>>) = {c[1], t[1]}
            BY DEF Range
        <3> QED BY <1>4, <2>2, <3>1
    <2>4. ~ IsVeq(op.tgts[1])
        BY <1>3, <2>3 DEF IsVeq
    <2> QED BY <1>1, <1>3, <1>5, <1>6, <1>8, <2>1, <2>2, <2>4 DEF op, c, t
<1> QED BY <1>6, <1>7, <1>8

LEMMA CoveredGateLoads ==
    ASSUME NEW func \in Inputs, NEW k \in DOMAIN func.ops, NEW count,
           Covered(func.ops[k], func), ~ isMeasurement(func.ops[k])
    PROVE  Joined(DoneOf, Loaded(func.ops[k], func, count).gates) = DoesBy(func, func.ops[k])
<1> DEFINE op == func.ops[k]
           c == getIndicesOfValueRange(op.ctrls)
           t == getIndicesOfValueRange(op.tgts)
<1>1. /\ op.gate \in {"rx", "ry", "rz", "x", "y", "z", "s", "t", "h"}
      /\ op.gate \notin {"x", "y", "z"} => op.ctrls = <<>>
      /\ Len(c) \in {0, 1} /\ (Len(c) = 0 => c = <<>>) /\ (Len(c) = 1 => c = <<c[1]>>)
      /\ t = <<t[1]>> /\ c \in Seq(Int) /\ t \in Seq(Int) /\ t[1] \in Int
      /\ Len(c) = 1 => c[1] \in Int
      /\ Qubits(op) = IF Len(c) = 0 THEN <<t[1]>> ELSE <<c[1], t[1]>>
      /\ DoesBy(func, op) = <<Bare(op, c, t)>>
    BY CoveredOperands
<1>2. /\ op.params \in Seq(Params)
      /\ op.gate \in {"rx", "ry", "rz"} => Len(op.params) = 1
      /\ op.gate \in {"x", "y", "z", "s", "t", "h"} => op.params = <<>>
    BY OperationOfInput
<1>3. op.ctrls = <<>> => c = <<>> /\ Len(c) = 0
    BY DEF getIndicesOfValueRange
<1>4. ~ isMeasurement(op) /\ op.gate \in Gates
    BY <1>1 DEF Gates
<1> HIDE DEF op, c, t
<1>5. CASE op.gate \in {"rx", "ry", "rz"}
    <2> DEFINE p == op.params[1]
               angle == extractDoubleArgumentValue(p)
               g == QcGate(op.gate, <<angle>>, <<>>, t)
    <2>1. p \in Params /\ op.params = <<p>>
        BY <1>2, <1>5
    <2>2. angle \in Int /\ AsFloat(angle) = angle
        <3>1. \A x : extractDoubleArgumentValue(createFloatValue(x)) = AsFloat(x)
            BY DEF extractDoubleArgumentValue, createFloatValue
        <3> QED BY <2>1, <3>1, AngleIsNumber
    <2>3. c = <<>> /\ Qubits(op) = t /\ Qubits(op)[1] = t[1]
        BY <1>1, <1>3, <1>5
    <2>4. Loaded(op, func, count).gates = <<g>>
        <3>1. Loaded(op, func, count) = loadRotationGatesToQC(op)
            BY <1>5 DEF Loaded, isMeasurement, Measurements
        <3>2. loadRotationGatesToQC(op).gates
                = <<QcGate(op.gate, <<angle>>, <<>>, <<Qubits(op)[1]>>)>>
            BY DEF loadRotationGatesToQC, Loads
        <3> HIDE DEF angle
        <3> QED BY <1>1, <2>3, <3>1, <3>2
    <2>5. getParametersValues(op.params) = <<angle>>
        <3>1. getParametersValues(<<p>>) = <<extractDoubleArgumentValue(p)>>
            <4> HIDE DEF p
            <4> QED BY DEF getParametersValues
        <3> QED BY <2>1, <3>1
    <2> HIDE DEF angle
    <2>6. g \in QcGates
        BY <1>1, <1>4, <2>2, QcGateHasType, ShortSequences DEF QcGate
    <2>7. /\ g.type = op.gate /\ g.type \notin {"measure", "barrier"} /\ g.params = <<angle>>
          /\ Ctrls(g) = <<>> /\ g.tgts = t
        BY <1>5 DEF QcGate, Ctrls
    <2> HIDE DEF g
    <2>8. [i \in DOMAIN g.params |-> AsFloat(g.params[i])] = <<angle>>
        <3>1. [i \in DOMAIN <<angle>> |-> AsFloat(<<angle>>[i])] = <<AsFloat(angle)>>
            OBVIOUS
        <3> QED BY <2>2, <2>7, <3>1
    <2>9. DoneBy(g) = <<[gate |-> op.gate, params |-> <<angle>>, ctrls |-> <<>>, tgts |-> t]>>
        BY <2>6, <2>7, <2>8, DoneByParts
    <2>10. DoesBy(func, op) = <<[gate |-> op.gate, params |-> <<angle>>, ctrls |-> <<>>, tgts |-> t]>>
        BY <1>1, <2>3, <2>5 DEF Bare
    <2>11. Joined(DoneOf, <<g>>) = DoneBy(g)
        BY <2>6, DoneByOne
    <2> QED BY <2>4, <2>9, <2>10, <2>11 DEF op
<1>6. CASE op.gate \in {"x", "y", "z", "s", "t", "h"}
    <2> DEFINE g == QcGate(op.gate, <<>>, c, t)
    <2>1. Loaded(op, func, count).gates = <<g>>
        <3>1. CASE op.gate \in {"x", "y", "z"}
            <4>1. Loaded(op, func, count) = loadXYZGatesToQC(op)
                BY <3>1 DEF Loaded, isMeasurement, Measurements
            <4>2. CASE Len(c) = 0
                <5>1. Qubits(op) = t /\ Len(Qubits(op)) = 1
                    BY <1>1, <4>2
                <5>2. c = <<>>
                    BY <1>1, <4>2
                <5> QED BY <4>1, <5>1, <5>2 DEF loadXYZGatesToQC, Loads
            <4>3. CASE Len(c) = 1
                <5>1. /\ Len(Qubits(op)) = 2
                      /\ <<Qubits(op)[1]>> = c /\ <<Qubits(op)[2]>> = t
                    BY <1>1, <4>3
                <5> QED BY <4>1, <5>1 DEF loadXYZGatesToQC, Loads
            <4> QED BY <1>1, <4>2, <4>3
        <3>2. CASE op.gate \in {"s", "t", "h"}
            <4>1. Loaded(op, func, count) = loadSTHGatesToQC(op)
                BY <3>2 DEF Loaded, isMeasurement, Measurements
            <4>2. Qubits(op) = t /\ Len(Qubits(op)) = 1 /\ c = <<>>
                BY <1>1, <1>3, <3>2
            <4> QED BY <4>1, <4>2 DEF loadSTHGatesToQC, Loads
        <3> QED BY <1>6, <3>1, <3>2
    <2>2. getParametersValues(op.params) = <<>>
        <3>1. getParametersValues(<<>>) = <<>>
            BY DEF getParametersValues
        <3> QED BY <1>2, <1>6, <3>1
    <2>3. g \in QcGates
        BY <1>1, <1>4, QcGateHasType, ShortSequences DEF QcGate
    <2>4. /\ g.type = op.gate /\ g.type \notin {"measure", "barrier"} /\ g.params = <<>>
          /\ Ctrls(g) = c /\ g.tgts = t
        BY <1>6 DEF QcGate, Ctrls
    <2> HIDE DEF g
    <2>5. [i \in DOMAIN g.params |-> AsFloat(g.params[i])] = <<>>
        BY <2>4
    <2>6. DoneBy(g) = <<[gate |-> op.gate, params |-> <<>>, ctrls |-> c, tgts |-> t]>>
        BY <2>3, <2>4, <2>5, DoneByParts
    <2>7. DoesBy(func, op) = <<[gate |-> op.gate, params |-> <<>>, ctrls |-> c, tgts |-> t]>>
        BY <1>1, <2>2 DEF Bare
    <2>8. Joined(DoneOf, <<g>>) = DoneBy(g)
        BY <2>3, DoneByOne
    <2> QED BY <2>1, <2>6, <2>7, <2>8 DEF op
<1> QED BY <1>1, <1>5, <1>6

LEMMA CoveredMeasurementLoads ==
    ASSUME NEW func \in Inputs, NEW k \in DOMAIN func.ops, NEW count, HaveBits(count, func),
           Covered(func.ops[k], func), isMeasurement(func.ops[k])
    PROVE  Joined(DoneOf, Loaded(func.ops[k], func, count).gates) = DoesBy(func, func.ops[k])
<1> DEFINE op == func.ops[k]
           w == op.tgts[1]
           n == getNumberOfQubits(func)
           gates == Loaded(op, func, count).gates
<1>1. op.gate = "mz" /\ Len(op.tgts) = 1
    <2>1. op.gate \in {"mz", "mx", "my"}
        BY DEF isMeasurement, Measurements
    <2> HIDE DEF op
    <2>2. Covered(op, func)
        BY DEF op
    <2> QED BY <2>1, <2>2 DEF Covered
<1>2. /\ op.ctrls = <<>> /\ op.params = <<>> /\ op.tgts \in Seq(Refs)
      /\ gates \in Seq(QcGates) /\ n \in Nat
    <2>1. op.gate \in {"x", "y", "z", "s", "t", "h"} \cup Measurements
        BY <1>1 DEF Measurements
    <2> QED BY <2>1, OperationOfInput, WiresAreRefs, LoadedHasType, InputHasType
<1>3. isMeasurement(op)
    OBVIOUS
<1> HIDE DEF op
<1>4. getParametersValues(op.params) = <<>> /\ getIndicesOfValueRange(op.ctrls) = <<>>
    BY <1>2 DEF getParametersValues, getIndicesOfValueRange
<1>5. Loaded(op, func, count) = loadMeasurementsToQC(op, func, count)
    BY <1>3 DEF Loaded, isMeasurement, Measurements
<1>6. ASSUME NEW q \in Int, NEW b, Measure(q, b) \in QcGates
      PROVE  DoneBy(Measure(q, b)) = <<Bare(op, <<>>, <<q>>)>>
    <2> DEFINE g == Measure(q, b)
    <2>1. g.type = "measure" /\ Ctrls(g) = <<>> /\ g.tgts = <<q>> /\ g \in QcGates
        BY <1>6 DEF Measure, Ctrls
    <2> HIDE DEF g
    <2>2. DoneBy(g) = <<[gate |-> "mz", params |-> <<>>, ctrls |-> <<>>, tgts |-> <<q>>]>>
        BY <2>1, DoneByParts
    <2> QED BY <1>1, <1>4, <2>2 DEF Bare, g
<1>7. CASE IsVeq(w)
    <2> DEFINE ms == [i \in 1 .. n |-> Measure(i - 1, count.numBits + i - 1)]
               bs == [i \in 1 .. n |-> Bare(op, <<>>, <<i - 1>>)]
    <2>1. gates = <<Barrier>> \o ms
        <3>1. \E a : loadMeasurementsToQC(op, func, count) = Loads(a, <<Barrier>> \o ms)
            BY <1>7 DEF loadMeasurementsToQC
        <3> HIDE DEF ms
        <3> QED BY <1>5, <3>1 DEF Loads
    <2>2. DoesBy(func, op) = bs
        BY <1>7 DEF DoesBy
    <2> HIDE DEF n
    <2>3. ASSUME NEW i \in 1 .. n
          PROVE  ms[i] \in QcGates /\ DoneOf[ms[i]] = <<bs[i]>> /\ bs[i] \in Bares
        <3> DEFINE m == Measure(i - 1, count.numBits + i - 1)
        <3>1. i - 1 \in Int /\ ms[i] = m /\ bs[i] = Bare(op, <<>>, <<i - 1>>)
            BY <1>2
        <3>2. count.numBits + i - 1 \in Nat
            BY <1>2 DEF HaveBits, Counts
        <3>3. m \in QcGates
            BY <3>1, <3>2, QcGateHasType, ShortSequences DEF Measure
        <3>4. DoneBy(m) = <<Bare(op, <<>>, <<i - 1>>)>>
            BY <1>6, <3>1, <3>3
        <3> HIDE DEF m, ms, bs
        <3>5. DoneOf[ms[i]] = <<bs[i]>>
            BY <3>1, <3>3, <3>4 DEF DoneOf
        <3>6. <<bs[i]>> \in Seq(Bares)
            BY <3>1, <3>3, <3>4, DoneByParts
        <3> QED BY <3>1, <3>3, <3>5, <3>6
    <2>4. /\ DOMAIN ms = 1 .. n /\ DOMAIN bs = 1 .. n
          /\ ms = [i \in 1 .. n |-> ms[i]] /\ bs = [i \in 1 .. n |-> bs[i]]
        OBVIOUS
    <2> HIDE DEF ms, bs
    <2>5. ms \in Seq(QcGates) /\ bs \in Seq(Bares)
        <3>1. ms \in [1 .. n -> QcGates]
            BY <2>3, <2>4
        <3>2. bs \in [1 .. n -> Bares]
            BY <2>3, <2>4
        <3>3. \A f : f \in [1 .. n -> QcGates] => f \in Seq(QcGates)
            BY <1>2
        <3>4. \A f : f \in [1 .. n -> Bares] => f \in Seq(Bares)
            BY <1>2
        <3> QED BY <3>1, <3>2, <3>3, <3>4
    <2>6. Barrier \in QcGates /\ DoneBy(Barrier) = <<>>
        <3>1. Barrier \in QcGates /\ Barrier.type = "barrier"
            BY QcGateHasType, ShortSequences DEF Barrier, QcGate
        <3> QED BY <3>1, DoneByParts
    <2>7. Joined(DoneOf, <<Barrier>> \o ms) = Joined(DoneOf, <<Barrier>>) \o Joined(DoneOf, ms)
        <3> DEFINE s == <<Barrier>>
        <3>1. s \in Seq(QcGates)
            BY <2>6
        <3> HIDE DEF s
        <3>2. Joined(DoneOf, s \o ms) = Joined(DoneOf, s) \o Joined(DoneOf, ms)
            BY <2>5, <3>1, DoneOfConcat
        <3> QED BY <3>2 DEF s
    <2>8. Joined(DoneOf, ms) = bs
        <3>1. [i \in DOMAIN ms |-> DoneOf[ms[i]]] = [i \in DOMAIN bs |-> <<bs[i]>>]
            BY <2>3, <2>4
        <3> QED BY <2>5, <3>1, FlattenSingles DEF Joined, Parts
    <2>9. Joined(DoneOf, <<Barrier>>) = <<>>
        BY <2>6, DoneByOne
    <2>10. <<>> \o bs = bs
        BY <2>5, ConcatEmptySeq
    <2> QED BY <2>1, <2>2, <2>7, <2>8, <2>9, <2>10 DEF op
<1>8. CASE ~ IsVeq(w)
    <2> DEFINE m == Measure(w.idx, count.measurements[w.idx])
    <2>1. gates = <<m>>
        BY <1>5, <1>8 DEF loadMeasurementsToQC, Loads
    <2>2. m \in QcGates /\ w.idx \in Int
        <3>1. 1 \in DOMAIN op.tgts
            BY <1>1
        <3>2. w \in Refs
            BY <1>2, <3>1
        <3> HIDE DEF m, gates
        <3>3. <<m>> \in Seq(QcGates)
            BY <1>2, <2>1
        <3> QED BY <3>2, <3>3, WireHasIndex
    <2>3. Joined(DoneOf, <<m>>) = <<Bare(op, <<>>, <<w.idx>>)>>
        BY <1>6, <2>2, DoneByOne
    <2>4. getIndicesOfValueRange(op.tgts) = <<w.idx>>
        <3> DEFINE t == getIndicesOfValueRange(op.tgts)
        <3>1. 1 \in DOMAIN op.tgts
            BY <1>1
        <3>2. t \in Seq(Int) /\ Len(t) = 1 /\ t[1] = w.idx
            BY <1>1, <1>2, <3>1, IndicesOfRefs
        <3> HIDE DEF t
        <3>3. t = <<t[1]>>
            BY <3>2
        <3> QED BY <3>2, <3>3 DEF t
    <2>5. DoesBy(func, op) = <<Bare(op, <<>>, <<w.idx>>)>>
        BY <1>4, <1>8, <2>4 DEF DoesBy
    <2> QED BY <2>1, <2>3, <2>5 DEF op
<1> QED BY <1>7, <1>8

-----------------------------------------------------------------------------
(* Loading and mapping keep what the kernel does *)

\* What has been loaded of a covered kernel does what the kernel does so far.
LoadedSoFar ==
    input.prefixed /\ IsCovered(input) =>
      /\ pc \in {"begin", "load"} =>
           Joined(DoneOf, qc) = Joined(DoesOf(input), First(input.ops, next - 1))
      /\ pc \in {"map", "build", "done"} => Joined(DoneOf, qc) = Does(input)

\* What has been mapped, undone on the way back to the kernel's own qubits, does to each
\* qubit what has been loaded, but for the gates that are left, which come behind; the
\* qubits are found where the mapper has them.
MappedSoFar ==
    /\ \A g \in Range(qc) \cup Range(unmapped) : g.type # "swap"
    /\ qcMapped \in Seq(UndoableGates)
    /\ pc \in {"begin", "load"} => qcMapped = <<>> /\ unmapped = <<>>
    /\ pc = "map" =>
         LET undone == UndoneGates(layout, qcMapped)
         IN  /\ undone \in Moments(InputQubits) /\ undone.at = place
             /\ \A q : Among(undone.does, OnQubit(q)) \o Among(Joined(DoneOf, unmapped), OnQubit(q))
                         = Among(Joined(DoneOf, qc), OnQubit(q))
    /\ input.prefixed /\ pc \in {"build", "done"} =>
         \A q : Among(UndoneGates(layout, qcMapped).does, OnQubit(q))
                  = Among(Joined(DoneOf, qc), OnQubit(q))

LEMMA LoadedInit == Init => LoadedSoFar /\ MappedSoFar
<1> SUFFICES ASSUME Init PROVE LoadedSoFar /\ MappedSoFar
    OBVIOUS
<1>1. pc = "begin" /\ next = 1 /\ qc = <<>> /\ unmapped = <<>> /\ qcMapped = <<>> /\ input \in Inputs
    BY DEF Init
<1>2. First(input.ops, 1 - 1) = <<>>
    BY <1>1, InputHasType, FirstNone
<1>3. Joined(DoneOf, <<>>) = <<>> /\ Joined(DoesOf(input), <<>>) = <<>>
    BY JoinedNone
<1>4. <<>> \in Seq(UndoableGates) /\ Range(<<>>) = {}
    BY DEF Range
<1> QED BY <1>1, <1>2, <1>3, <1>4 DEF LoadedSoFar, MappedSoFar

LEMMA LoadedStepHolds == IInv /\ LoadedSoFar /\ [Next]_vars => LoadedSoFar'
<1> SUFFICES ASSUME IInv, LoadedSoFar, [Next]_vars, (input.prefixed /\ IsCovered(input))'
             PROVE  LoadedSoFar'
    BY DEF LoadedSoFar
<1>1. input' = input /\ input.prefixed /\ IsCovered(input) /\ input \in Inputs
    BY DEF Next, vars, Begin, LoadGate, PlaceQubits, MapGate, Clear, BuildGate, Return, IInv, TypeOK
<1>2. /\ DoesOf(input) \in [Range(input.ops) -> Seq(Bares)]
      /\ input.ops \in Seq(Range(input.ops)) /\ input.ops \in Seq(Op)
    BY <1>1, DoesHasType, InputHasType
<1>3. CASE Begin
    <2>1. pc = "begin" /\ pc' \in {"crashed", "load"} /\ next' = next /\ qc' = qc
        BY <1>1, <1>3 DEF Begin
    <2> QED BY <1>1, <2>1 DEF LoadedSoFar
<1>4. CASE LoadGate
    <2> DEFINE op == input.ops[next]
               gates == Loaded(op, input, classical).gates
    <2>1. /\ next \in DOMAIN input.ops /\ HaveBits(classical, input) /\ gates \in Seq(QcGates)
          /\ \/ qc' = qc \o gates /\ next' = next + 1 /\ pc' = "load"
             \/ pc' = "crashed"
        BY <1>4, LoadGateLoads
    <2>2. CASE pc' = "crashed"
        BY <2>2 DEF LoadedSoFar
    <2>3. CASE qc' = qc \o gates /\ next' = next + 1 /\ pc' = "load"
        <3>1. pc = "load" /\ qc \in Seq(QcGates)
            BY <1>4 DEF LoadGate, IInv, TypeOK
        <3>2. Joined(DoneOf, qc) = Joined(DoesOf(input), First(input.ops, next - 1))
            BY <1>1, <3>1 DEF LoadedSoFar
        <3>3. Covered(op, input)
            BY <1>1, <2>1 DEF IsCovered
        <3>4. Joined(DoneOf, gates) = DoesBy(input, op)
            BY <1>1, <2>1, <3>3, CoveredGateLoads, CoveredMeasurementLoads
        <3>5. op \in Range(input.ops) /\ DoesOf(input)[op] = DoesBy(input, op)
            BY <2>1 DEF Range, DoesOf
        <3>6. /\ First(input.ops, next - 1) \in Seq(Range(input.ops))
              /\ First(input.ops, next) = Append(First(input.ops, next - 1), op)
            <4>1. next \in 1 .. Len(input.ops)
                BY <1>2, <2>1
            <4> QED BY <1>2, <4>1, FirstOneMore
        <3> HIDE DEF op, gates
        <3>7. Joined(DoesOf(input), Append(First(input.ops, next - 1), op))
                = Joined(DoesOf(input), First(input.ops, next - 1)) \o DoesOf(input)[op]
            BY <1>2, <3>5, <3>6, JoinedOneMore
        <3>8. Joined(DoneOf, qc \o gates) = Joined(DoneOf, qc) \o Joined(DoneOf, gates)
            BY <2>1, <3>1, DoneOfConcat
        <3>9. (next + 1) - 1 = next
            BY DEF IInv, TypeOK
        <3> QED BY <1>1, <2>3, <3>2, <3>4, <3>5, <3>6, <3>7, <3>8, <3>9 DEF LoadedSoFar
    <2> QED BY <2>1, <2>2, <2>3
<1>5. CASE PlaceQubits
    <2>1. /\ pc = "load" /\ pc' = "map" /\ qc' = qc /\ circuit = input
          /\ next = Len(input.ops) + 1
        BY <1>5 DEF PlaceQubits, IInv, TypeOK
    <2>2. Joined(DoneOf, qc) = Joined(DoesOf(input), First(input.ops, next - 1))
        BY <1>1, <2>1 DEF LoadedSoFar
    <2>3. next - 1 = Len(input.ops)
        <3>1. Len(input.ops) \in Nat
            BY <1>2
        <3> QED BY <2>1, <3>1
    <2>4. Joined(DoneOf, qc) = Does(input)
        BY <1>2, <2>2, <2>3, FirstNone, DoesOperationByOperation
    <2> QED BY <1>1, <2>1, <2>4 DEF LoadedSoFar
<1>6. CASE MapGate \/ Clear \/ BuildGate \/ Return
    <2>1. /\ pc \in {"map", "build"} /\ pc' \in {"map", "build", "done"} /\ qc' = qc
        BY <1>6 DEF MapGate, Clear, BuildGate, Return
    <2> QED BY <1>1, <2>1 DEF LoadedSoFar
<1>7. CASE UNCHANGED vars
    BY <1>7 DEF vars, LoadedSoFar
<1> QED BY <1>3, <1>4, <1>5, <1>6, <1>7 DEF Next

\* A sequence behind another leaves what both leave.
LEMMA AmongConcat ==
    ASSUME NEW T, NEW S, NEW s \in Seq(T), NEW t \in Seq(T)
    PROVE  Among(s \o t, S) = Among(s, S) \o Among(t, S)
<1> DEFINE P == {r \in Seq(T) : Among(s \o r, S) = Among(s, S) \o Among(r, S)}
<1>1. <<>> \in P
    <2>1. <<>> \in Seq(T) /\ s \o <<>> = s /\ Among(<<>>, S) = <<>>
        BY ConcatEmptySeq, AmongNothing
    <2>2. Among(s, S) \o <<>> = Among(s, S)
        BY AmongIsSeq, ConcatEmptySeq
    <2> QED BY <2>1, <2>2
<1>2. ASSUME NEW r \in Seq(T), NEW x \in T, r \in P PROVE Append(r, x) \in P
    <2> DEFINE a == Among(s, S)
               b == Among(r, S)
    <2>1. /\ Append(r, x) \in Seq(T) /\ s \o r \in Seq(T)
          /\ s \o Append(r, x) = Append(s \o r, x)
        BY AppendBehind
    <2>2. Among(s \o r, S) = a \o b
        BY <1>2
    <2>3. Among(Append(s \o r, x), S) = IF x \in S THEN Append(a \o b, x) ELSE a \o b
        <3> HIDE DEF a, b, P
        <3>1. Among(Append(s \o r, x), S)
                = IF x \in S THEN Append(Among(s \o r, S), x) ELSE Among(s \o r, S)
            BY <2>1, AmongOneMore
        <3> QED BY <2>2, <3>1
    <2>4. Among(Append(r, x), S) = IF x \in S THEN Append(b, x) ELSE b
        BY AmongOneMore
    <2>5. a \in Seq(T) /\ b \in Seq(T)
        BY AmongIsSeq
    <2> HIDE DEF a, b, P
    <2>6. a \o Append(b, x) = Append(a \o b, x)
        BY <2>5, AppendBehind
    <2>7. Among(s \o Append(r, x), S) = a \o Among(Append(r, x), S)
        BY <2>1, <2>3, <2>4, <2>6
    <2> QED BY <2>1, <2>7 DEF P, a
<1> HIDE DEF P
<1>3. Seq(T) \subseteq P
    BY <1>1, <1>2, ByAppending
<1> QED BY <1>3 DEF P

\* What a gate does to a qubit it is not on
LEMMA DoneElsewhere ==
    ASSUME NEW g \in QcGates, NEW q, q \notin On(g), NEW op \in Range(DoneBy(g))
    PROVE  op \in Bares \ OnQubit(q)
<1>1. CASE g.type = "barrier"
    <2>1. DoneBy(g) = <<>>
        BY <1>1, DoneByParts
    <2> QED BY <2>1 DEF Range
<1>2. CASE g.type # "barrier"
    <2>1. DoneBy(g) \in Seq(Bares) /\ Len(DoneBy(g)) = 1
            /\ DoneBy(g)[1].ctrls = Ctrls(g) /\ DoneBy(g)[1].tgts = g.tgts
        BY <1>2, DoneByParts
    <2>2. op = DoneBy(g)[1] /\ op \in Bares
        BY <2>1 DEF Range
    <2>3. Range(Ctrls(g)) \subseteq Range(g.ctrls)
        BY DEF Ctrls, Range
    <2> QED BY <2>1, <2>2, <2>3 DEF OnQubit, On
<1> QED BY <1>1, <1>2

LEMMA AllDoneElsewhere ==
    ASSUME NEW gates \in Seq(QcGates), NEW q, \A k \in DOMAIN gates : q \notin On(gates[k])
    PROVE  Among(Joined(DoneOf, gates), OnQubit(q)) = <<>>
<1> DEFINE ops == Joined(DoneOf, gates)
           T == Bares \ OnQubit(q)
<1>1. ops \in Seq(Bares)
    BY DoneOfHasType, JoinedParts
<1>2. ASSUME NEW op \in Range(ops) PROVE op \in T
    <2>1. PICK k \in DOMAIN gates : op \in Range(DoneOf[gates[k]])
        BY <1>2, DoneOfHasType, JoinedMembers
    <2>2. gates[k] \in QcGates /\ q \notin On(gates[k])
        OBVIOUS
    <2> QED BY <2>1, <2>2, DoneElsewhere DEF DoneOf
<1> HIDE DEF ops, T
<1>3. \A k \in DOMAIN ops : ops[k] \in T
    BY <1>2 DEF Range
<1>4. ops \in Seq(T)
    BY <1>1, <1>3
<1>5. T \cap OnQubit(q) = {}
    BY DEF T
<1> QED BY <1>4, <1>5, AmongOutside DEF ops

\* A gate may come before others that are on other qubits: nothing changes for a qubit.
LEMMA FreeGateFirst ==
    ASSUME NEW gates \in Seq(QcGates), NEW k \in DOMAIN gates, IsFree(gates, k), NEW q
    PROVE  Among(Joined(DoneOf, gates), OnQubit(q))
             = Among(DoneBy(gates[k]), OnQubit(q))
                 \o Among(Joined(DoneOf, RemoveAt(gates, k)), OnQubit(q))
<1> DEFINE a == First(gates, k - 1)
           b == SubSeq(gates, k + 1, Len(gates))
           g == gates[k]
           S == OnQubit(q)
           A == Among(Joined(DoneOf, a), S)
           B == Among(Joined(DoneOf, b), S)
           G == Among(DoneBy(g), S)
<1>1. /\ a \in Seq(QcGates) /\ b \in Seq(QcGates) /\ g \in QcGates
      /\ gates = a \o (<<g>> \o b) /\ RemoveAt(gates, k) = a \o b
      /\ \A j \in DOMAIN a : j \in 1 .. k - 1 /\ a[j] = gates[j]
    BY TakenOut
<1>2. \A j \in DOMAIN a : On(a[j]) \cap On(g) = {}
    BY <1>1 DEF IsFree
<1> HIDE DEF a, b, g
<1>3. /\ <<g>> \in Seq(QcGates) /\ <<g>> \o b \in Seq(QcGates)
      /\ Joined(DoneOf, <<g>>) = DoneBy(g) /\ DoneBy(g) \in Seq(Bares)
      /\ Joined(DoneOf, a) \in Seq(Bares) /\ Joined(DoneOf, b) \in Seq(Bares)
    BY <1>1, ConcatIsSeq, DoneByOne, DoneByParts, DoneOfHasType, JoinedParts, ShortSequences
<1>4. Joined(DoneOf, gates) = Joined(DoneOf, a) \o (DoneBy(g) \o Joined(DoneOf, b))
    BY <1>1, <1>3, DoneOfConcat
<1>5. Joined(DoneOf, RemoveAt(gates, k)) = Joined(DoneOf, a) \o Joined(DoneOf, b)
    BY <1>1, DoneOfConcat
<1> HIDE DEF S
<1>6. Among(Joined(DoneOf, gates), S) = A \o (G \o B)
    <2>1. DoneBy(g) \o Joined(DoneOf, b) \in Seq(Bares)
        BY <1>3, ConcatIsSeq
    <2>2. Among(DoneBy(g) \o Joined(DoneOf, b), S) = G \o B
        BY <1>3, AmongConcat
    <2>3. Among(Joined(DoneOf, a) \o (DoneBy(g) \o Joined(DoneOf, b)), S)
            = A \o Among(DoneBy(g) \o Joined(DoneOf, b), S)
        BY <1>3, <2>1, AmongConcat
    <2> QED BY <1>4, <2>2, <2>3
<1>7. Among(Joined(DoneOf, RemoveAt(gates, k)), S) = A \o B
    BY <1>3, <1>5, AmongConcat
<1>8. A \in Seq(Bares) /\ B \in Seq(Bares) /\ G \in Seq(Bares)
    BY <1>3, AmongIsSeq
<1>9. A = <<>> \/ G = <<>>
    <2>1. CASE q \in On(g)
        <3>1. \A j \in DOMAIN a : q \notin On(a[j])
            BY <1>2, <2>1
        <3> QED BY <1>1, <3>1, AllDoneElsewhere DEF S
    <2>2. CASE q \notin On(g)
        <3>1. \A j \in DOMAIN <<g>> : q \notin On(<<g>>[j])
            BY <2>2
        <3> QED BY <1>3, <3>1, AllDoneElsewhere DEF S
    <2> QED BY <2>1, <2>2
<1> HIDE DEF A, B, G
<1>10. A \o (G \o B) = G \o (A \o B)
    <2>1. A \o B \in Seq(Bares) /\ G \o B \in Seq(Bares)
        BY <1>8, ConcatIsSeq
    <2>2. \A s \in Seq(Bares) : <<>> \o s = s
        BY ConcatEmptySeq
    <2> QED BY <1>8, <1>9, <2>1, <2>2
<1> QED BY <1>6, <1>7, <1>10 DEF S, A, B, G, g

\* The step of the mapper
LEMMA MappedGateHolds ==
    ASSUME IInv, MappedSoFar, MapGate
    PROVE  /\ \A g \in Range(unmapped') : g.type # "swap"
           /\ qcMapped' \in Seq(UndoableGates)
           /\ LET undone == UndoneGates(layout, qcMapped')
              IN  /\ undone \in Moments(InputQubits) /\ undone.at = place'
                  /\ \A q : Among(undone.does, OnQubit(q))
                              \o Among(Joined(DoneOf, unmapped'), OnQubit(q))
                              = Among(Joined(DoneOf, qc), OnQubit(q))
<1> DEFINE n == getNumberOfQubits(input)
<1>1. /\ input \in Inputs /\ input.prefixed /\ pc = "map"
      /\ unmapped \in Seq(QcGates) /\ qc \in Seq(QcGates)
    BY MapGateMaps DEF IInv, TypeOK, MapGate
<1>2. n \in Nat /\ InputQubits = 0 .. n - 1 /\ InputQubits \in SUBSET Int
    <2>1. n \in Nat
        BY <1>1, InputHasType
    <2> QED BY <2>1 DEF InputQubits
<1> HIDE DEF n
<1>3. PICK k \in DOMAIN unmapped, swaps \in Seq(Coupling) :
        /\ unmapped[k] \in QcGates /\ On(unmapped[k]) \subseteq InputQubits
        /\ IsFree(unmapped, k) /\ unmapped' = RemoveAt(unmapped, k)
        /\ MapsWith(unmapped[k], swaps)
    BY MapGateMaps
<1> DEFINE g == unmapped[k]
           does == UndoneGates(layout, qcMapped).does
<1>4. /\ layout \in Placements(InputQubits) /\ place' = PlacesAfter(place, swaps)
      /\ place' \in Placements(InputQubits)
      /\ qcMapped' = qcMapped \o SwapGates(swaps) \o <<OnDevice(g, place')>>
    BY <1>1, <1>3 DEF MapsWith, IInv, QubitsPlaced
<1>5. /\ qcMapped \in Seq(UndoableGates)
      /\ UndoneGates(layout, qcMapped) = [at |-> place, does |-> does] /\ does \in Seq(Bares)
    BY <1>1 DEF MappedSoFar, Moments
<1>6. g.type # "swap" /\ g \in QcGates /\ On(g) \subseteq InputQubits
    BY <1>3 DEF MappedSoFar, Range
<1> HIDE DEF g, does
<1> DEFINE swapped == qcMapped \o SwapGates(swaps)
           d == OnDevice(g, place')
<1>7. /\ swapped \in Seq(UndoableGates)
      /\ UndoneGates(layout, swapped) = [at |-> place', does |-> does]
    <2>1. LET s == UndoneGates(layout, qcMapped)
          IN  /\ swapped \in Seq(UndoableGates)
              /\ UndoneGates(layout, swapped) = [at |-> PlacesAfter(s.at, swaps), does |-> s.does]
        BY <1>2, <1>4, <1>5, UndoneSwaps
    <2>2. UndoneGates(layout, qcMapped).at = place /\ UndoneGates(layout, qcMapped).does = does
        BY <1>5
    <2> HIDE DEF swapped
    <2> QED BY <1>4, <2>1, <2>2
<1> HIDE DEF swapped
<1>8. /\ d \in UndoableGates
      /\ UndoneGates(layout, Append(swapped, d)) = [at |-> place', does |-> does \o DoneBy(g)]
    <2>1. LET s == UndoneGates(layout, swapped)
          IN  /\ OnDevice(g, s.at) \in UndoableGates
              /\ UndoneGates(layout, Append(swapped, OnDevice(g, s.at)))
                   = [at |-> s.at, does |-> s.does \o DoneBy(g)]
        BY <1>2, <1>4, <1>6, <1>7, UndoneGate
    <2>2. UndoneGates(layout, swapped).at = place' /\ UndoneGates(layout, swapped).does = does
        BY <1>7
    <2> QED BY <2>1, <2>2
<1> HIDE DEF d
<1>9. qcMapped' = Append(swapped, d) /\ Append(swapped, d) \in Seq(UndoableGates)
    <2>1. Append(swapped, d) = swapped \o <<d>>
        BY <1>7, <1>8, AppendIsConcat
    <2>2. Append(swapped, d) \in Seq(UndoableGates)
        BY <1>7, <1>8, AppendProperties
    <2> QED BY <1>4, <2>1, <2>2 DEF swapped, d
<1>10. DoneBy(g) \in Seq(Bares) /\ does \o DoneBy(g) \in Seq(Bares)
    BY <1>5, <1>6, DoneByParts, ConcatIsSeq
<1>11. ASSUME NEW q
       PROVE  Among(does \o DoneBy(g), OnQubit(q)) \o Among(Joined(DoneOf, unmapped'), OnQubit(q))
                = Among(Joined(DoneOf, qc), OnQubit(q))
    <2> DEFINE S == OnQubit(q)
               D == Among(does, S)
               G == Among(DoneBy(g), S)
               U == Among(Joined(DoneOf, unmapped'), S)
    <2>1. D \o Among(Joined(DoneOf, unmapped), S) = Among(Joined(DoneOf, qc), S)
        BY <1>1 DEF MappedSoFar, does
    <2>2. Among(Joined(DoneOf, unmapped), S) = G \o U
        BY <1>1, <1>3, FreeGateFirst DEF g
    <2> HIDE DEF S
    <2>3. Among(does \o DoneBy(g), S) = D \o G
        BY <1>5, <1>10, AmongConcat
    <2>4. D \in Seq(Bares) /\ G \in Seq(Bares) /\ U \in Seq(Bares)
        <3>1. unmapped' \in Seq(QcGates)
            BY <1>1, <1>3, TakenOut
        <3>2. Joined(DoneOf, unmapped') \in Seq(Bares)
            BY <3>1, DoneOfHasType, JoinedParts
        <3> QED BY <1>5, <1>10, <3>2, AmongIsSeq
    <2> HIDE DEF D, G, U
    <2>5. D \o (G \o U) = (D \o G) \o U
        BY <2>4, Associative
    <2> QED BY <2>1, <2>2, <2>3, <2>5 DEF S, U
<1>12. [at |-> place', does |-> does \o DoneBy(g)] \in Moments(InputQubits)
    BY <1>4, <1>10 DEF Moments
<1>13. \A h \in Range(unmapped') : h.type # "swap"
    <2>1. Range(unmapped') \subseteq Range(unmapped)
        BY <1>1, <1>3, TakenOut
    <2> QED BY <2>1 DEF MappedSoFar
<1>14. UndoneGates(layout, qcMapped') = [at |-> place', does |-> does \o DoneBy(g)]
    BY <1>8, <1>9
<1> QED BY <1>9, <1>11, <1>12, <1>13, <1>14

LEMMA MappedStepHolds == IInv /\ IInv' /\ MappedSoFar /\ [Next]_vars => MappedSoFar'
<1> SUFFICES ASSUME IInv, IInv', MappedSoFar, [Next]_vars PROVE MappedSoFar'
    OBVIOUS
<1>0. input' = input /\ InputQubits' = InputQubits
    BY DEF Next, vars, Begin, LoadGate, PlaceQubits, MapGate, Clear, BuildGate, Return, InputQubits
<1>1. CASE Begin
    <2>1. /\ UNCHANGED <<input, qc, layout, place, unmapped, qcMapped>> /\ pc = "begin"
          /\ pc' \in {"crashed", "load"} \/ (pc' = "done" /\ ~ input.prefixed)
        BY <1>1 DEF Begin
    <2> QED BY <2>1 DEF MappedSoFar
<1>2. CASE LoadGate
    <2> DEFINE gates == Loaded(input.ops[next], input, classical).gates
    <2>1. /\ input \in Inputs /\ gates \in Seq(QcGates)
          /\ \/ qc' = qc \o gates /\ pc' = "load"
             \/ pc' = "crashed" /\ qc' = qc
        BY <1>2, LoadGateLoads
    <2>2. \A k \in DOMAIN gates : gates[k].type # "swap"
        <3>1. getNumberOfQubits(input) \in Nat
            BY <2>1, InputHasType
        <3> QED BY <3>1, LoadedAreNoSwaps
    <2> HIDE DEF gates
    <2>3. UNCHANGED <<input, layout, place, unmapped, qcMapped>> /\ pc = "load" /\ qc \in Seq(QcGates)
        BY <1>2 DEF LoadGate, IInv, TypeOK
    <2>4. \A g \in Range(qc') : g.type # "swap"
        <3>1. CASE qc' = qc
            BY <3>1 DEF MappedSoFar
        <3>2. CASE qc' = qc \o gates
            <4>1. Range(qc \o gates) = Range(qc) \cup Range(gates)
                BY <2>1, <2>3, RangeConcatenation
            <4>2. \A g \in Range(qc) \cup Range(gates) : g.type # "swap"
                BY <2>2 DEF MappedSoFar, Range
            <4> QED BY <3>2, <4>1, <4>2
        <3> QED BY <2>1, <3>1, <3>2
    <2> QED BY <2>1, <2>3, <2>4 DEF MappedSoFar
<1>3. CASE PlaceQubits
    <2>1. /\ UNCHANGED <<input, qc, qcMapped>> /\ pc = "load" /\ pc' = "map" /\ unmapped' = qc
          /\ place' = layout'
        BY <1>3 DEF PlaceQubits
    <2>2. qcMapped = <<>>
        BY <2>1 DEF MappedSoFar
    <2>3. layout' \in Placements(InputQubits) /\ InputQubits \in SUBSET Int
        <3>1. input'.prefixed
            BY <2>1 DEF IInv, OnlyKernels
        <3>2. getNumberOfQubits(input) \in Nat
            BY InputHasType DEF IInv, TypeOK
        <3> QED BY <1>0, <2>1, <3>1, <3>2 DEF IInv, QubitsPlaced, InputQubits
    <2>4. UndoneGates(layout', <<>>) = [at |-> layout', does |-> <<>>]
        BY <2>3, UndoneGatesNone
    <2>5. [at |-> layout', does |-> <<>>] \in Moments(InputQubits)
        BY <2>3 DEF Moments
    <2>6. ASSUME NEW q
          PROVE  Among(<<>>, OnQubit(q)) \o Among(Joined(DoneOf, qc), OnQubit(q))
                   = Among(Joined(DoneOf, qc), OnQubit(q))
        <3>1. Joined(DoneOf, qc) \in Seq(Bares)
            BY DoneOfHasType, JoinedParts DEF IInv, TypeOK
        <3>2. Among(Joined(DoneOf, qc), OnQubit(q)) \in Seq(Bares)
            BY <3>1, AmongIsSeq
        <3> QED BY <3>2, AmongNothing, ConcatEmptySeq
    <2> QED BY <1>0, <2>1, <2>2, <2>4, <2>5, <2>6 DEF MappedSoFar
<1>4. CASE MapGate
    <2>1. UNCHANGED <<input, pc, qc, layout>> /\ pc = "map"
        BY <1>4 DEF MapGate
    <2> QED BY <1>0, <1>4, <2>1, MappedGateHolds DEF MappedSoFar
<1>5. CASE Clear
    <2>1. /\ UNCHANGED <<input, qc, layout, place, unmapped, qcMapped>> /\ pc = "map" /\ pc' = "build"
          /\ unmapped = <<>>
        BY <1>5 DEF Clear
    <2>2. ASSUME NEW q
          PROVE  Among(UndoneGates(layout, qcMapped).does, OnQubit(q))
                   = Among(Joined(DoneOf, qc), OnQubit(q))
        <3> DEFINE a == Among(UndoneGates(layout, qcMapped).does, OnQubit(q))
        <3>1. a \o Among(<<>>, OnQubit(q)) = Among(Joined(DoneOf, qc), OnQubit(q))
            BY <2>1, JoinedNone DEF MappedSoFar
        <3>2. a \in Seq(Bares)
            BY <2>1, AmongIsSeq DEF MappedSoFar, Moments
        <3> HIDE DEF a
        <3>3. a \o Among(<<>>, OnQubit(q)) = a
            BY <3>2, AmongNothing, ConcatEmptySeq
        <3> QED BY <3>1, <3>3 DEF a
    <2> QED BY <2>1, <2>2 DEF MappedSoFar
<1>6. CASE BuildGate \/ Return
    <2>1. /\ UNCHANGED <<input, qc, layout, place, unmapped, qcMapped>> /\ pc = "build"
          /\ pc' \in {"build", "done"}
        BY <1>6 DEF BuildGate, Return
    <2> QED BY <2>1 DEF MappedSoFar
<1>7. CASE UNCHANGED vars
    BY <1>0, <1>7 DEF vars, MappedSoFar
<1> QED BY <1>1, <1>2, <1>3, <1>4, <1>5, <1>6, <1>7 DEF Next

LEMMA MappedInvariance == Spec => [](LoadedSoFar /\ MappedSoFar)
BY LoadedInit, LoadedStepHolds, MappedStepHolds, Invariance, PTL DEF Spec

\* A covered kernel comes out with all its operations on the qubits they were on, and on
\* each qubit in their order: for kernels of any length, any device, wherever the mapper
\* puts the qubits, whatever SWAPs it takes and whichever gate it maps next.
THEOREM MappingKeepsKernel == Spec => []MappedKeepsKernel
<1>1. ASSUME IInv, BuiltSoFar, LoadedSoFar, MappedSoFar PROVE MappedKeepsKernel
    <2> SUFFICES ASSUME pc = "done", input.prefixed, IsCovered(input), NEW q
                 PROVE  Among(DoesMapped, OnQubit(q)) = Among(Does(input), OnQubit(q))
        BY DEF MappedKeepsKernel
    <2>1. qcMapped \in Seq(QcGates) /\ (Len(qcMapped) + 1) - 1 = Len(qcMapped)
        BY <1>1 DEF IInv, TypeOK
    <2>2. circuit.ops = Joined(BackOf, qcMapped)
        BY <1>1, <2>1, FirstNone DEF BuiltSoFar
    <2>3. DoesMapped = UndoneGates(layout, qcMapped).does
        BY <2>2 DEF DoesMapped, UndoneGates
    <2>4. Among(UndoneGates(layout, qcMapped).does, OnQubit(q))
            = Among(Joined(DoneOf, qc), OnQubit(q))
        BY <1>1 DEF MappedSoFar
    <2>5. Joined(DoneOf, qc) = Does(input)
        BY <1>1 DEF LoadedSoFar
    <2> QED BY <2>3, <2>4, <2>5
<1> QED BY <1>1, Invariance, BuiltInvariance, MappedInvariance, PTL
=============================================================================
