--------------------------- MODULE QuakeDAGProofs ---------------------------
(***************************************************************************)
(* The graph of a kernel is well formed and has no cycle but loops, for    *)
(* all kernels, however many of them are put into one graph.               *)
(*                                                                         *)
(* Plan: every vertex has a rank, 0 for a qubit and the number of the gate *)
(* plus one for a gate; an edge that is no loop leads to a higher rank or  *)
(* to the measurement, which no edge leaves.  A set of vertices then has a *)
(* first one: a gate or qubit of the lowest rank in it, or else the        *)
(* measurement.  The history is what makes it inductive: what is on a      *)
(* qubit has a rank of at most the number of the next gate.                *)
(***************************************************************************)
EXTENDS QuakeDAG, PassLemmas

-----------------------------------------------------------------------------

Rank(n) == IF n.kind = "q" THEN 0 ELSE n.num + 1

\* Edges that are no loops lead to a higher rank, or to the measurement.
EdgesForward ==
    \A e \in edges :
      /\ e.from.kind # "measurement"
      /\ \/ e.to.kind = "measurement"
         \/ e.from = e.to
         \/ Rank(e.from) < Rank(e.to)

\* What is on a qubit is no measurement, and no gate to come.
HistoryBehind ==
    \A q \in DOMAIN qubitsHistory :
      /\ qubitsHistory[q].kind # "measurement"
      /\ Rank(qubitsHistory[q]) <= idx

IInv == TypeOK /\ EdgesForward /\ HistoryBehind

-----------------------------------------------------------------------------
(* Names *)

LEMMA RankIsNatural ==
    ASSUME NEW n \in Names
    PROVE  Rank(n) \in Nat
BY DEF Names, Rank

LEMMA NamesHaveTypes ==
    /\ \A i \in Nat : /\ QubitName(i) \in Names
                      /\ QubitName(i).kind = "q" /\ Rank(QubitName(i)) = 0
    /\ MeasurementName \in Names /\ MeasurementName.kind = "measurement"
    /\ \A g \in Gates, i \in Nat : /\ Name(g, i) \in Names
                                   /\ Name(g, i).kind = g
                                   /\ Rank(Name(g, i)) = i + 1
BY DEF Names, Name, QubitName, MeasurementName, Rank, Gates

LEMMA NewVertexIsVertex == NewVertex \in Vertices
BY DEF NewVertex, Vertices

LEMMA IndicesAreIntegers ==
    ASSUME NEW ws \in Seq(Wires)
    PROVE  getIndicesOfValueRange(ws) \in Seq(Int)
BY QuakeOpsAssumption DEF getIndicesOfValueRange, extractIndexFromQuakeExtractRefOp

LEMMA ParametersAreIntegers ==
    ASSUME NEW ps \in Seq(Params)
    PROVE  getParametersValues(ps) \in Seq(Int)
<1>1. ASSUME NEW p \in Params PROVE extractDoubleArgumentValue(p) \in Int
    BY DEF Params, extractDoubleArgumentValue, AsFloat, FullTurn, MinusOneRadian
<1>2. \A i \in 1 .. Len(ps) : ps[i] \in Params
    OBVIOUS
<1> QED BY <1>1, <1>2 DEF getParametersValues

-----------------------------------------------------------------------------
(* get_or_add_node *)

LEMMA NodesAdded ==
    ASSUME TypeOK, NEW N \in SUBSET Names
    PROVE  LET d == get_or_add_node(N)
           IN  /\ DOMAIN d = DOMAIN dag \cup N
               /\ DOMAIN d \subseteq Names
               /\ \A n \in DOMAIN d : d[n] \in Vertices
BY NewVertexIsVertex DEF TypeOK, get_or_add_node

-----------------------------------------------------------------------------
(* The steps *)

LEMMA BeginPreserves ==
    ASSUME IInv, NEW k \in Inputs, Begin(k)
    PROVE  IInv'
<1> DEFINE N == {QubitName(i) : i \in Qubits(k)}
           d == get_or_add_node(N)
<1>1. getNumberOfQubits(k) \in Nat /\ k.ops \in Seq(Op)
    BY QuakeDAGAssumption
<1>2. Qubits(k) \subseteq Nat
    BY <1>1 DEF Qubits
<1>3. N \subseteq Names
    BY <1>2, NamesHaveTypes
<1>4. /\ DOMAIN d = DOMAIN dag \cup N /\ DOMAIN d \subseteq Names
      /\ \A n \in DOMAIN d : d[n] \in Vertices
    BY <1>3, NodesAdded DEF IInv
<1>5. dag' = [n \in DOMAIN d |-> IF n \in N THEN [d[n] EXCEPT !.isQubit = TRUE] ELSE d[n]]
    BY DEF Begin
<1>6. \A n \in DOMAIN d : [d[n] EXCEPT !.isQubit = TRUE] \in Vertices
    BY <1>4 DEF Vertices
<1> HIDE DEF d
<1>7. /\ DOMAIN dag' = DOMAIN dag \cup N /\ DOMAIN dag' \subseteq Names
      /\ \A n \in DOMAIN dag' : dag'[n] \in Vertices
    BY <1>4, <1>5, <1>6
<1>8. /\ qubitsHistory' = [i \in Qubits(k) |-> QubitName(i)]
      /\ idx' = 0 /\ next' = 1 /\ parses' = parses + 1 /\ kernel' = k /\ edges' = edges
    BY DEF Begin
<1>9. TypeOK'
    <2>1. next' \in 0 .. Len(kernel'.ops) + 1
        BY <1>1, <1>8
    <2>2. \A q \in DOMAIN qubitsHistory' : qubitsHistory'[q] \in DOMAIN dag'
        BY <1>7, <1>8
    <2>3. DOMAIN qubitsHistory' \subseteq Nat
        BY <1>2, <1>8
    <2>4. parses' \in Nat
        BY <1>8 DEF IInv, TypeOK
    <2>5. /\ edges' \subseteq Edges
          /\ \A e \in edges' : e.from \in DOMAIN dag' /\ e.to \in DOMAIN dag'
        BY <1>7, <1>8 DEF IInv, TypeOK
    <2> QED BY <1>7, <1>8, <2>1, <2>2, <2>3, <2>4, <2>5 DEF TypeOK
<1>10. EdgesForward'
    BY <1>8 DEF IInv, EdgesForward
<1>11. HistoryBehind'
    <2>1. \A i \in Qubits(k) : /\ QubitName(i).kind # "measurement"
                               /\ Rank(QubitName(i)) <= 0
        BY <1>2, NamesHaveTypes
    <2> QED BY <1>8, <2>1 DEF HistoryBehind
<1> QED BY <1>9, <1>10, <1>11 DEF IInv

LEMMA SkipPreserves ==
    ASSUME IInv, SkipOperation
    PROVE  IInv'
<1>1. kernel.ops \in Seq(Op)
    BY QuakeDAGAssumption DEF IInv, TypeOK
<1>2. next' \in 0 .. Len(kernel'.ops) + 1
    BY <1>1 DEF SkipOperation
<1> QED BY <1>2 DEF SkipOperation, IInv, TypeOK, EdgesForward, HistoryBehind

LEMMA InsertGatePreserves ==
    ASSUME IInv, InsertGate
    PROVE  IInv'
<1> DEFINE op == kernel.ops[next]
           v == Name(op.gate, idx)
           d == get_or_add_node({v})
           o == Operands(op)
           known == {i \in DOMAIN o : o[i] \in DOMAIN qubitsHistory}
           Source(i) == IF \E j \in 1 .. i - 1 : o[j] = o[i] THEN v ELSE qubitsHistory[o[i]]
           new == {[from |-> Source(i), to |-> v, operand |-> i, parse |-> parses] : i \in known}
<1>1. kernel.ops \in Seq(Op)
    BY QuakeDAGAssumption DEF IInv, TypeOK
<1>2. op \in Op /\ op.gate \in Gates /\ next \in 1 .. Len(kernel.ops)
    BY <1>1 DEF InsertGate, isOperator
<1>3. /\ v \in Names /\ v.kind # "measurement" /\ v.kind # "q" /\ Rank(v) = idx + 1
      /\ idx \in Nat
    <2>1. idx \in Nat
        BY DEF IInv, TypeOK
    <2>2. \A g \in Gates : g # "measurement" /\ g # "q"
        BY DEF Gates
    <2> QED BY <1>2, <2>1, <2>2, NamesHaveTypes
<1>4. o \in Seq(Int)
    BY <1>2, IndicesAreIntegers DEF Operands, Op
<1>5. /\ edges' = edges \cup new
      /\ qubitsHistory' = [q \in DOMAIN qubitsHistory |->
                             IF \E i \in known : o[i] = q THEN v ELSE qubitsHistory[q]]
    BY DEF InsertGate, Connect
<1>6. /\ dag' = [d EXCEPT ![v] = [d[v] EXCEPT !.targets = getIndicesOfValueRange(op.tgts),
                                            !.controls = getIndicesOfValueRange(op.ctrls),
                                            !.arguments = getParametersValues(op.params),
                                            !.isAdj = op.adj]]
      /\ idx' = idx + 1 /\ next' = next + 1 /\ parses' = parses /\ kernel' = kernel
    BY DEF InsertGate
<1>7. /\ DOMAIN d = DOMAIN dag \cup {v} /\ DOMAIN d \subseteq Names
      /\ \A n \in DOMAIN d : d[n] \in Vertices
    BY <1>3, NodesAdded DEF IInv
<1>8. /\ getIndicesOfValueRange(op.tgts) \in Seq(Int)
      /\ getIndicesOfValueRange(op.ctrls) \in Seq(Int)
      /\ getParametersValues(op.params) \in Seq(Int) /\ op.adj \in BOOLEAN
    BY <1>2, IndicesAreIntegers, ParametersAreIntegers DEF Op
<1>9. /\ DOMAIN dag' = DOMAIN dag \cup {v} /\ DOMAIN dag' \subseteq Names
      /\ \A n \in DOMAIN dag' : dag'[n] \in Vertices
    <2>1. d[v] \in Vertices
        BY <1>7
    <2>2. [d[v] EXCEPT !.targets = getIndicesOfValueRange(op.tgts),
                       !.controls = getIndicesOfValueRange(op.ctrls),
                       !.arguments = getParametersValues(op.params),
                       !.isAdj = op.adj] \in Vertices
        BY <1>8, <2>1 DEF Vertices
    <2> HIDE DEF d, v
    <2> QED BY <1>6, <1>7, <2>2
<1>10. \A i \in known : /\ i \in Nat
                        /\ Source(i) \in DOMAIN dag'
                        /\ Source(i).kind # "measurement"
                        /\ Source(i) = v \/ Rank(Source(i)) < Rank(v)
    <2> SUFFICES ASSUME NEW i \in known
                 PROVE  /\ i \in Nat
                        /\ Source(i) \in DOMAIN dag'
                        /\ Source(i).kind # "measurement"
                        /\ Source(i) = v \/ Rank(Source(i)) < Rank(v)
        OBVIOUS
    <2>1. i \in Nat /\ o[i] \in DOMAIN qubitsHistory
        BY <1>4
    <2>2. CASE \E j \in 1 .. i - 1 : o[j] = o[i]
        BY <1>3, <1>9, <2>1, <2>2
    <2>3. CASE ~ \E j \in 1 .. i - 1 : o[j] = o[i]
        <3>1. Source(i) = qubitsHistory[o[i]]
            BY <2>3
        <3>2. /\ qubitsHistory[o[i]] \in DOMAIN dag
              /\ qubitsHistory[o[i]].kind # "measurement"
              /\ Rank(qubitsHistory[o[i]]) <= idx
              /\ Rank(qubitsHistory[o[i]]) \in Nat
            BY <2>1, RankIsNatural DEF IInv, TypeOK, HistoryBehind
        <3> QED BY <1>3, <1>9, <2>1, <3>1, <3>2
    <2> QED BY <2>2, <2>3
<1>11. TypeOK'
    <2>1. next' \in 0 .. Len(kernel'.ops) + 1
        BY <1>1, <1>2, <1>6
    <2>2. \A e \in new : e \in Edges /\ e.from \in DOMAIN dag' /\ e.to \in DOMAIN dag'
        <3> HIDE DEF Source, v, known
        <3> QED BY <1>9, <1>10 DEF Edges, IInv, TypeOK
    <2> HIDE DEF new
    <2>3. /\ edges' \subseteq Edges
          /\ \A e \in edges' : e.from \in DOMAIN dag' /\ e.to \in DOMAIN dag'
        BY <1>5, <1>9, <2>2 DEF IInv, TypeOK
    <2>4. /\ DOMAIN qubitsHistory' \subseteq Nat
          /\ \A q \in DOMAIN qubitsHistory' : qubitsHistory'[q] \in DOMAIN dag'
        <3> HIDE DEF v, known, o
        <3> QED BY <1>5, <1>9 DEF IInv, TypeOK
    <2>5. parses' \in Nat /\ kernel' \in Inputs /\ idx' \in Nat
        BY <1>3, <1>6 DEF IInv, TypeOK
    <2> QED BY <1>9, <2>1, <2>3, <2>4, <2>5 DEF TypeOK
<1>12. EdgesForward'
    <2>1. \A e \in new : /\ e.from.kind # "measurement"
                         /\ e.from = e.to \/ Rank(e.from) < Rank(e.to)
        <3> HIDE DEF Source, v, known
        <3> QED BY <1>10
    <2> HIDE DEF new
    <2> QED BY <1>5, <2>1 DEF IInv, EdgesForward
<1>13. HistoryBehind'
    <2>1. \A q \in DOMAIN qubitsHistory : /\ Rank(qubitsHistory[q]) \in Nat
                                          /\ Rank(qubitsHistory[q]) <= idx
                                          /\ qubitsHistory[q].kind # "measurement"
        BY RankIsNatural DEF IInv, TypeOK, HistoryBehind
    <2> HIDE DEF v, known, o
    <2> QED BY <1>3, <1>5, <1>6, <2>1 DEF HistoryBehind
<1> QED BY <1>11, <1>12, <1>13 DEF IInv

LEMMA InsertMeasurementPreserves ==
    ASSUME IInv, InsertMeasurement
    PROVE  IInv'
<1> DEFINE d == get_or_add_node({MeasurementName})
           new == {[from |-> qubitsHistory[q], to |-> MeasurementName,
                    operand |-> q, parse |-> parses] : q \in DOMAIN qubitsHistory}
<1>1. MeasurementName \in Names /\ MeasurementName.kind = "measurement"
    BY NamesHaveTypes
<1>2. /\ DOMAIN d = DOMAIN dag \cup {MeasurementName} /\ DOMAIN d \subseteq Names
      /\ \A n \in DOMAIN d : d[n] \in Vertices
    BY <1>1, NodesAdded DEF IInv
<1>3. /\ dag' = [d EXCEPT ![MeasurementName] = [d[MeasurementName] EXCEPT !.isMeasurement = TRUE]]
      /\ edges' = edges \cup new
      /\ next' = 0 /\ parses' = parses /\ kernel' = kernel /\ idx' = idx
      /\ qubitsHistory' = qubitsHistory
    BY DEF InsertMeasurement
<1>4. [d[MeasurementName] EXCEPT !.isMeasurement = TRUE] \in Vertices
    BY <1>2 DEF Vertices
<1>5. /\ DOMAIN dag' = DOMAIN dag \cup {MeasurementName} /\ DOMAIN dag' \subseteq Names
      /\ \A n \in DOMAIN dag' : dag'[n] \in Vertices
    <2> HIDE DEF d
    <2> QED BY <1>2, <1>3, <1>4
<1>6. kernel.ops \in Seq(Op)
    BY QuakeDAGAssumption DEF IInv, TypeOK
<1>7. \A e \in new : /\ e \in Edges /\ e.from \in DOMAIN dag' /\ e.to \in DOMAIN dag'
                     /\ e.from.kind # "measurement" /\ e.to.kind = "measurement"
    BY <1>1, <1>5 DEF IInv, TypeOK, HistoryBehind, Edges
<1> HIDE DEF new, d
<1>8. TypeOK'
    <2>1. /\ edges' \subseteq Edges
          /\ \A e \in edges' : e.from \in DOMAIN dag' /\ e.to \in DOMAIN dag'
        BY <1>3, <1>5, <1>7 DEF IInv, TypeOK
    <2>2. next' \in 0 .. Len(kernel'.ops) + 1
        BY <1>3, <1>6
    <2> QED BY <1>3, <1>5, <2>1, <2>2 DEF IInv, TypeOK
<1>9. EdgesForward'
    BY <1>3, <1>7 DEF IInv, EdgesForward
<1>10. HistoryBehind'
    BY <1>3 DEF IInv, HistoryBehind
<1> QED BY <1>8, <1>9, <1>10 DEF IInv

-----------------------------------------------------------------------------

LEMMA InitInvariant == Init => IInv
BY QuakeDAGAssumption DEF Init, IInv, TypeOK, EdgesForward, HistoryBehind

LEMMA StepInvariant == IInv /\ [Next]_vars => IInv'
<1> SUFFICES ASSUME IInv, [Next]_vars PROVE IInv'
    OBVIOUS
<1>1. ASSUME NEW k \in Inputs, Begin(k) PROVE IInv'
    BY <1>1, BeginPreserves
<1>2. CASE SkipOperation
    BY <1>2, SkipPreserves
<1>3. CASE InsertGate
    BY <1>3, InsertGatePreserves
<1>4. CASE InsertMeasurement
    BY <1>4, InsertMeasurementPreserves
<1>5. CASE UNCHANGED vars
    BY <1>5 DEF vars, IInv, TypeOK, EdgesForward, HistoryBehind
<1> QED BY <1>1, <1>2, <1>3, <1>4, <1>5 DEF Next

LEMMA Invariance == Spec => []IInv
BY InitInvariant, StepInvariant, PTL DEF Spec

\* The first vertex of a set: one of the lowest rank if it has a qubit or a gate,
\* and else the measurement.
LEMMA ForwardIsAcyclic == IInv => Acyclic
<1> SUFFICES ASSUME IInv, NEW S \in SUBSET DOMAIN dag, S # {}
             PROVE  \E v \in S : \A e \in edges : e.to = v => e.from = v \/ e.from \notin S
    BY DEF Acyclic
<1> DEFINE G == {n \in S : n.kind # "measurement"}
           R == {Rank(n) : n \in G}
<1>1. \A n \in S : Rank(n) \in Nat
    BY RankIsNatural DEF IInv, TypeOK
<1>2. CASE G # {}
    <2>1. R \in SUBSET Nat /\ R # {}
        BY <1>1, <1>2
    <2>2. PICK r \in R : \A t \in R : r <= t
        BY <2>1, FirstExists
    <2>3. PICK v \in G : r = Rank(v)
        OBVIOUS
    <2>4. ASSUME NEW e \in edges, e.to = v, e.from # v, e.from \in S PROVE FALSE
        <3>1. e.from \in G
            BY <2>4 DEF IInv, EdgesForward
        <3>2. Rank(e.from) < Rank(v)
            BY <2>3, <2>4 DEF IInv, EdgesForward
        <3>3. Rank(v) <= Rank(e.from)
            BY <2>2, <2>3, <3>1
        <3>4. Rank(v) \in Nat /\ Rank(e.from) \in Nat
            BY <1>1, <2>3, <3>1
        <3> QED BY <3>2, <3>3, <3>4
    <2> QED BY <2>3, <2>4
<1>3. CASE G = {}
    BY <1>3 DEF IInv, EdgesForward
<1> QED BY <1>2, <1>3

\* The graph is well formed: an edge and the history name vertices of the graph only.
THEOREM TypeCorrect == Spec => []TypeOK
<1>1. IInv => TypeOK
    BY DEF IInv
<1> QED BY <1>1, Invariance, PTL

\* The graph has no cycle of two or more vertices, whatever kernels are put into it.
THEOREM GraphIsAcyclic == Spec => []Acyclic
BY ForwardIsAcyclic, Invariance, PTL

-----------------------------------------------------------------------------
(***************************************************************************)
(* What the graph says: each gate has its own vertex, the edges of a call  *)
(* are the dependences of its kernel, and a gate is its own predecessor    *)
(* only if two of its operands have one index.  The code knows a qubit by  *)
(* its index, so that is what the invariant says of the edges; what it     *)
(* means for the qubits of one register, and of several, comes from it at  *)
(* the end.                                                                *)
(***************************************************************************)

\* The gates met that have an index among those of their operands, whatever the register
GatesOnIndex(q) == {i \in Met : ActsOnIndex(kernel.ops[i], q)}

\* The last vertex on an index before operation i: that of a gate, or that of the qubit
LastOnIndex(k, q, i) ==
    LET S == {j \in 1 .. i - 1 : ActsOnIndex(k.ops[j], q)}
    IN  IF S = {} THEN QubitName(q) ELSE GateVertex(k, LastOf(S))

GateIndexDependences ==
    UNION {{<<LastOnIndex(kernel, q, i), GateVertex(kernel, i)>> : i \in GatesOnIndex(q)} :
             q \in Qubits(kernel)}
LastIndexDependences ==
    IF next = 0 /\ parses > 0
    THEN {<<LastOnIndex(kernel, q, Len(kernel.ops) + 1), MeasurementName>> : q \in Qubits(kernel)}
    ELSE {}
IndexDependences == GateIndexDependences \cup LastIndexDependences

\* What the code keeps to: the edges of a call go along the indices, from one gate with
\* an index to the next.
EdgesFollowIndices == EdgesOfCall = IndexDependences

\* The number of the next gate is the number of gates met.
GatesCounted == next # 0 => idx = Cardinality(GatesBefore(kernel, next))

\* A walk belongs to a call, and no edge to a later one.
EdgesOfCalls ==
    /\ next # 0 => parses > 0
    /\ \A e \in edges : e.parse <= parses

\* The history is what LastOnIndex makes of the gates met.
HistoryIsLast ==
    next # 0 => /\ DOMAIN qubitsHistory = Qubits(kernel)
                /\ \A q \in Qubits(kernel) : qubitsHistory[q] = LastOnIndex(kernel, q, next)

EInv ==
    /\ IInv
    /\ GatesCounted
    /\ EdgesOfCalls
    /\ OneVertexPerGate
    /\ LoopsOnlyAtSharedIndices
    /\ HistoryIsLast
    /\ EdgesFollowIndices

-----------------------------------------------------------------------------
(* Counting gates *)

GatesAmong(k) == {j \in Nat \ {0} : isOperator(k.ops[j])}

LEMMA GatesBeforeAreCounted ==
    ASSUME NEW k, NEW i \in Nat
    PROVE  Cardinality(GatesBefore(k, i)) = CountBelow(GatesAmong(k), i)
<1>1. GatesBefore(k, i) = Below(GatesAmong(k), i)
    BY DEF GatesBefore, GatesAmong, Below
<1> QED BY <1>1 DEF CountBelow

\* Passing a gate counts one more, passing another operation does not.
LEMMA OneMoreGate ==
    ASSUME NEW k, NEW i \in Nat \ {0}
    PROVE  Cardinality(GatesBefore(k, i + 1)) =
             IF isOperator(k.ops[i]) THEN Cardinality(GatesBefore(k, i)) + 1
                                     ELSE Cardinality(GatesBefore(k, i))
<1>1. CountBelow(GatesAmong(k), i + 1) =
        IF i \in GatesAmong(k) THEN CountBelow(GatesAmong(k), i) + 1
                               ELSE CountBelow(GatesAmong(k), i)
    <2>1. \A j \in GatesAmong(k) : j \in Nat /\ j > 0
        BY DEF GatesAmong
    <2> QED BY <2>1, CountBelowNext
<1>2. i \in GatesAmong(k) <=> isOperator(k.ops[i])
    BY DEF GatesAmong
<1>3. i \in Nat /\ i + 1 \in Nat
    OBVIOUS
<1> QED BY <1>1, <1>2, <1>3, GatesBeforeAreCounted

\* Gates further on have greater numbers.
LEMMA NumbersIncrease ==
    ASSUME NEW k, NEW i \in Nat \ {0}, NEW n \in Nat, i < n, isOperator(k.ops[i])
    PROVE  Cardinality(GatesBefore(k, i)) < Cardinality(GatesBefore(k, n))
<1>1. (\A j \in GatesAmong(k) : j \in Nat /\ j > 0) /\ i \in GatesAmong(k)
    BY DEF GatesAmong
<1>2. CountBelow(GatesAmong(k), i) < CountBelow(GatesAmong(k), n)
    BY <1>1, CountBelowIncreases
<1>3. i \in Nat
    OBVIOUS
<1> QED BY <1>2, <1>3, GatesBeforeAreCounted

-----------------------------------------------------------------------------
(* The last vertex on a qubit *)

LEMMA LastIsGreatest ==
    ASSUME NEW S \in SUBSET Nat, NEW m \in S, \A t \in S : t <= m
    PROVE  LastOf(S) = m
<1>1. \A s \in S : (\A t \in S : t <= s) => s = m
    <2> SUFFICES ASSUME NEW s \in S, \A t \in S : t <= s PROVE s = m
        OBVIOUS
    <2>1. s <= m /\ m <= s /\ s \in Nat /\ m \in Nat
        OBVIOUS
    <2> QED BY <2>1
<1> QED BY <1>1 DEF LastOf

\* Passing an operation changes the last vertex on the qubits it acts on only.
LEMMA LastOnStep ==
    ASSUME NEW k, NEW q, NEW i \in Nat \ {0}
    PROVE  LastOnIndex(k, q, i + 1) = IF ActsOnIndex(k.ops[i], q) THEN GateVertex(k, i)
                                                             ELSE LastOnIndex(k, q, i)
<1> DEFINE S(n) == {j \in 1 .. n - 1 : ActsOnIndex(k.ops[j], q)}
<1>1. CASE ActsOnIndex(k.ops[i], q)
    <2>1. S(i + 1) \in SUBSET Nat /\ i \in S(i + 1) /\ \A t \in S(i + 1) : t <= i
        BY <1>1
    <2>2. LastOf(S(i + 1)) = i
        BY <2>1, LastIsGreatest
    <2> QED BY <1>1, <2>1, <2>2 DEF LastOnIndex
<1>2. CASE ~ ActsOnIndex(k.ops[i], q)
    <2>1. S(i + 1) = S(i)
        BY <1>2
    <2> QED BY <1>2, <2>1 DEF LastOnIndex
<1> QED BY <1>1, <1>2

LEMMA LastOnAtFirst ==
    ASSUME NEW k, NEW q
    PROVE  LastOnIndex(k, q, 1) = QubitName(q)
BY DEF LastOnIndex

\* A gate acts on an index if and only if it is the index of one of its operands.
LEMMA OperandsAct ==
    ASSUME NEW op \in Op, isOperator(op), NEW q
    PROVE  ActsOnIndex(op, q) <=> \E i \in DOMAIN Operands(op) : Operands(op)[i] = q
<1> DEFINE t == getIndicesOfValueRange(op.tgts)
           c == getIndicesOfValueRange(op.ctrls)
<1>1. t \in Seq(Int) /\ c \in Seq(Int)
    BY IndicesAreIntegers DEF Op
<1>2. /\ DOMAIN t = DOMAIN op.tgts
      /\ \A i \in DOMAIN t : t[i] = extractIndexFromQuakeExtractRefOp(op.tgts[i])
      /\ DOMAIN c = DOMAIN op.ctrls
      /\ \A i \in DOMAIN c : c[i] = extractIndexFromQuakeExtractRefOp(op.ctrls[i])
    BY DEF getIndicesOfValueRange
<1>3. ActsOnIndex(op, q) <=> (\E i \in DOMAIN t : t[i] = q) \/ (\E i \in DOMAIN c : c[i] = q)
    BY <1>2 DEF ActsOnIndex
<1> HIDE DEF t, c
<1>4. (\E i \in DOMAIN t : t[i] = q) => \E i \in DOMAIN (t \o c) : (t \o c)[i] = q
    <2> SUFFICES ASSUME NEW i \in DOMAIN t, t[i] = q
                 PROVE  \E j \in DOMAIN (t \o c) : (t \o c)[j] = q
        OBVIOUS
    <2>1. i \in DOMAIN (t \o c) /\ (t \o c)[i] = t[i]
        BY <1>1
    <2> QED BY <2>1
<1>5. (\E i \in DOMAIN c : c[i] = q) => \E i \in DOMAIN (t \o c) : (t \o c)[i] = q
    <2> SUFFICES ASSUME NEW i \in DOMAIN c, c[i] = q
                 PROVE  \E j \in DOMAIN (t \o c) : (t \o c)[j] = q
        OBVIOUS
    <2>1. /\ Len(t) + i \in DOMAIN (t \o c)
          /\ (t \o c)[Len(t) + i] = c[i]
        BY <1>1
    <2> QED BY <2>1
<1>6. (\E i \in DOMAIN (t \o c) : (t \o c)[i] = q)
        => (\E i \in DOMAIN t : t[i] = q) \/ (\E i \in DOMAIN c : c[i] = q)
    <2> SUFFICES ASSUME NEW i \in DOMAIN (t \o c), (t \o c)[i] = q, i \notin DOMAIN t
                 PROVE  \E j \in DOMAIN c : c[j] = q
        BY <1>1
    <2>1. i - Len(t) \in DOMAIN c /\ (t \o c)[i] = c[i - Len(t)]
        BY <1>1
    <2> QED BY <2>1
<1>7. Operands(op) = t \o c
    BY DEF Operands, t, c
<1> QED BY <1>3, <1>4, <1>5, <1>6, <1>7

-----------------------------------------------------------------------------
(* The steps *)

LEMMA OpsOfKernel ==
    ASSUME IInv
    PROVE  kernel.ops \in Seq(Op) /\ next \in Nat /\ parses \in Nat /\ idx \in Nat
BY QuakeDAGAssumption DEF IInv, TypeOK

\* The gates met have numbers below that of the next gate, and are no measurement.
LEMMA GatesMetAreBehind ==
    ASSUME EInv, next # 0, NEW i \in Met, isOperator(kernel.ops[i])
    PROVE  GateVertex(kernel, i).num < idx
<1>1. i \in Nat \ {0} /\ next \in Nat /\ i < next
    BY OpsOfKernel DEF EInv, Met
<1>2. Cardinality(GatesBefore(kernel, i)) < Cardinality(GatesBefore(kernel, next))
    BY <1>1, NumbersIncrease
<1> QED BY <1>2 DEF EInv, GatesCounted, GateVertex, Name

LEMMA BeginKeepsEdges ==
    ASSUME EInv, NEW k \in Inputs, Begin(k)
    PROVE  EInv'
<1>1. IInv'
    BY BeginPreserves DEF EInv
<1>2. /\ kernel' = k /\ next' = 1 /\ parses' = parses + 1 /\ idx' = 0 /\ edges' = edges
      /\ qubitsHistory' = [i \in Qubits(k) |-> QubitName(i)]
    BY DEF Begin
<1>3. Met' = {}
    BY <1>2 DEF Met
<1>4. parses \in Nat /\ \A e \in edges : e.parse \in Nat /\ e.parse <= parses
    BY OpsOfKernel DEF EInv, IInv, TypeOK, Edges, EdgesOfCalls
<1>5. GatesCounted'
    <2>1. GatesBefore(k, 1) = {}
        BY DEF GatesBefore
    <2>2. Cardinality(GatesBefore(k, 1)) = 0
        BY <2>1, FS_EmptySet
    <2> QED BY <1>2, <2>2 DEF GatesCounted
<1>6. EdgesOfCalls'
    BY <1>2, <1>4 DEF EdgesOfCalls
<1>7. OneVertexPerGate' /\ LoopsOnlyAtSharedIndices'
    BY <1>2, <1>3, <1>4 DEF OneVertexPerGate, LoopsOnlyAtSharedIndices
<1>8. HistoryIsLast'
    BY <1>2, LastOnAtFirst DEF HistoryIsLast
<1>9. EdgesFollowIndices'
    <2>1. IndexDependences' = {}
        BY <1>2, <1>3 DEF IndexDependences, GateIndexDependences, LastIndexDependences, GatesOnIndex
    <2>2. {d \in edges' : d.parse = parses' /\ d.from # d.to} = {}
        BY <1>2, <1>4
    <2> QED BY <2>1, <2>2 DEF EdgesFollowIndices, EdgesOfCall
<1> QED BY <1>1, <1>5, <1>6, <1>7, <1>8, <1>9 DEF EInv

LEMMA SkipKeepsEdges ==
    ASSUME EInv, SkipOperation
    PROVE  EInv'
<1>1. IInv'
    BY SkipPreserves DEF EInv
<1>2. /\ kernel' = kernel /\ next' = next + 1 /\ parses' = parses /\ idx' = idx
      /\ edges' = edges /\ qubitsHistory' = qubitsHistory /\ dag' = dag
      /\ ~ isOperator(kernel.ops[next])
    BY DEF SkipOperation
<1>3. next \in Nat \ {0} /\ next \in 1 .. Len(kernel.ops)
    BY OpsOfKernel DEF SkipOperation, EInv
<1>4. Met' = Met \cup {next}
    BY <1>2, <1>3 DEF Met
<1>5. \A q : ~ ActsOnIndex(kernel.ops[next], q)
    BY <1>2 DEF ActsOnIndex
<1>6. GatesCounted'
    BY <1>2, <1>3, OneMoreGate DEF EInv, GatesCounted
<1>7. EdgesOfCalls'
    BY <1>2, <1>3 DEF EInv, EdgesOfCalls
<1>8. OneVertexPerGate'
    BY <1>2, <1>4 DEF EInv, OneVertexPerGate
<1>9. LoopsOnlyAtSharedIndices'
    BY <1>2, <1>4 DEF EInv, LoopsOnlyAtSharedIndices
<1>10. HistoryIsLast'
    BY <1>2, <1>3, <1>5, LastOnStep DEF EInv, HistoryIsLast
<1>11. EdgesFollowIndices'
    <2>1. \A q : GatesOnIndex(q)' = GatesOnIndex(q)
        BY <1>2, <1>4, <1>5 DEF GatesOnIndex
    <2>2. GateIndexDependences' = GateIndexDependences
        BY <1>2, <2>1 DEF GateIndexDependences
    <2>3. LastIndexDependences = {} /\ LastIndexDependences' = {}
        BY <1>2, <1>3 DEF LastIndexDependences
    <2> QED BY <1>2, <2>2, <2>3 DEF EInv, EdgesFollowIndices, EdgesOfCall, IndexDependences
<1> QED BY <1>1, <1>6, <1>7, <1>8, <1>9, <1>10, <1>11 DEF EInv

LEMMA InsertGateKeepsEdges ==
    ASSUME EInv, InsertGate
    PROVE  EInv'
<1> DEFINE op == kernel.ops[next]
           v == Name(op.gate, idx)
           d == get_or_add_node({v})
           o == Operands(op)
           known == {i \in DOMAIN o : o[i] \in DOMAIN qubitsHistory}
           Source(i) == IF \E j \in 1 .. i - 1 : o[j] = o[i] THEN v ELSE qubitsHistory[o[i]]
           new == {[from |-> Source(i), to |-> v, operand |-> i, parse |-> parses] : i \in known}
<1>1. IInv'
    BY InsertGatePreserves DEF EInv
<1>2. /\ next \in Nat \ {0} /\ next \in 1 .. Len(kernel.ops) /\ idx \in Nat /\ parses \in Nat
      /\ op \in Op /\ isOperator(op)
    BY OpsOfKernel DEF InsertGate, EInv
<1>3. /\ edges' = edges \cup new
      /\ qubitsHistory' = [q \in DOMAIN qubitsHistory |->
                             IF \E i \in known : o[i] = q THEN v ELSE qubitsHistory[q]]
    BY DEF InsertGate, Connect
<1>4. /\ dag' = [d EXCEPT ![v] = [d[v] EXCEPT !.targets = getIndicesOfValueRange(op.tgts),
                                            !.controls = getIndicesOfValueRange(op.ctrls),
                                            !.arguments = getParametersValues(op.params),
                                            !.isAdj = op.adj]]
      /\ idx' = idx + 1 /\ next' = next + 1 /\ parses' = parses /\ kernel' = kernel
    BY DEF InsertGate
<1>5. Met' = Met \cup {next} /\ Met = 1 .. next - 1
    BY <1>2, <1>4 DEF Met
<1>6. GateVertex(kernel, next) = v
    BY <1>2 DEF EInv, GatesCounted, GateVertex
<1>7. \A q \in DOMAIN qubitsHistory : qubitsHistory[q] # v
    <2> SUFFICES ASSUME NEW q \in DOMAIN qubitsHistory, qubitsHistory[q] = v PROVE FALSE
        OBVIOUS
    <2>1. Rank(qubitsHistory[q]) <= idx
        BY DEF EInv, IInv, HistoryBehind
    <2>2. Rank(v) = idx + 1
        BY <1>2, NamesHaveTypes DEF isOperator
    <2> QED BY <1>2, <2>1, <2>2
<1>8. DOMAIN qubitsHistory = Qubits(kernel)
      /\ \A q \in Qubits(kernel) : qubitsHistory[q] = LastOnIndex(kernel, q, next)
    BY <1>2 DEF EInv, HistoryIsLast
<1>9. o \in Seq(Int)
    BY <1>2, IndicesAreIntegers DEF Operands, Op
<1>10. \A q : ActsOnIndex(op, q) <=> \E i \in DOMAIN o : o[i] = q
    BY <1>2, OperandsAct
<1>11. GatesCounted'
    BY <1>2, <1>4, OneMoreGate DEF EInv, GatesCounted
<1>12. EdgesOfCalls'
    <2>1. \A e \in new : e.parse = parses
        OBVIOUS
    <2> HIDE DEF new
    <2> QED BY <1>2, <1>3, <1>4, <2>1 DEF EInv, EdgesOfCalls
<1>13. OneVertexPerGate'
    <2>1. /\ v \in DOMAIN dag'
          /\ dag'[v].targets = getIndicesOfValueRange(op.tgts)
          /\ dag'[v].controls = getIndicesOfValueRange(op.ctrls)
          /\ dag'[v].isAdj = op.adj
        <3>1. v \in DOMAIN d
            BY DEF get_or_add_node
        <3>2. d[v] \in Vertices
            <4>1. v \in Names
                BY <1>2, NamesHaveTypes DEF isOperator
            <4> QED BY <3>1, <4>1, NodesAdded DEF EInv, IInv
        <3> HIDE DEF d, v
        <3> QED BY <1>4, <3>1, <3>2 DEF Vertices
    <2>2. \A n \in DOMAIN dag \ {v} : n \in DOMAIN dag' /\ dag'[n] = dag[n]
        <3>1. \A n \in DOMAIN dag : n \in DOMAIN d /\ d[n] = dag[n]
            BY DEF get_or_add_node
        <3> HIDE DEF d, v
        <3> QED BY <1>4, <3>1
    <2>3. \A i \in Met : isOperator(kernel.ops[i]) => GateVertex(kernel, i) # v
        BY <1>2, GatesMetAreBehind DEF Name
    <2> HIDE DEF v, d
    <2> QED BY <1>4, <1>5, <1>6, <2>1, <2>2, <2>3 DEF EInv, OneVertexPerGate
<1>14. LoopsOnlyAtSharedIndices'
    <2>1. ASSUME NEW i \in known, Source(i) = v
          PROVE  \E j, l \in DOMAIN o : j # l /\ o[j] = o[l]
        <3>1. PICK j \in 1 .. i - 1 : o[j] = o[i]
            BY <1>7, <2>1
        <3>2. j \in DOMAIN o /\ i \in DOMAIN o /\ j # i
            BY <1>9, <3>1
        <3> QED BY <3>1, <3>2
    <2>2. ASSUME NEW e \in new, e.from = e.to
          PROVE  /\ isOperator(kernel.ops[next])
                 /\ e.to = GateVertex(kernel, next)
                 /\ \E j, l \in DOMAIN o : j # l /\ o[j] = o[l]
        BY <1>2, <1>6, <2>1, <2>2
    <2> HIDE DEF new
    <2>3. ASSUME NEW e \in edges', e.parse = parses, e.from = e.to
          PROVE  \E i \in Met \cup {next} :
                    /\ isOperator(kernel.ops[i])
                    /\ e.to = GateVertex(kernel, i)
                    /\ \E j, l \in DOMAIN Operands(kernel.ops[i]) :
                         j # l /\ Operands(kernel.ops[i])[j] = Operands(kernel.ops[i])[l]
        <3>1. CASE e \in edges
            BY <2>3, <3>1 DEF EInv, LoopsOnlyAtSharedIndices
        <3>2. CASE e \in new
            BY <2>2, <2>3, <3>2
        <3> QED BY <1>3, <3>1, <3>2
    <2>4. parses' = parses /\ kernel' = kernel /\ Met' = Met \cup {next}
        BY <1>4, <1>5
    <2>5. \A i : GateVertex(kernel, i)' = GateVertex(kernel, i)
        BY <2>4 DEF GateVertex
    <2> HIDE DEF v, d, o, known, op
    <2> QED BY <2>3, <2>4 DEF LoopsOnlyAtSharedIndices
<1>15. HistoryIsLast'
    <2>1. DOMAIN qubitsHistory' = Qubits(kernel')
        BY <1>3, <1>4, <1>8
    <2>2. ASSUME NEW q \in Qubits(kernel)
          PROVE  qubitsHistory'[q] = LastOnIndex(kernel, q, next + 1)
        <3>1. (\E i \in known : o[i] = q) <=> ActsOnIndex(op, q)
            BY <1>8, <1>10
        <3>2. LastOnIndex(kernel, q, next + 1) =
                IF ActsOnIndex(op, q) THEN v ELSE LastOnIndex(kernel, q, next)
            BY <1>2, <1>6, LastOnStep
        <3> HIDE DEF known, v, op, o
        <3> QED BY <1>3, <1>8, <3>1, <3>2
    <2> QED BY <1>4, <2>1, <2>2 DEF HistoryIsLast
<1>16. EdgesFollowIndices'
    <2> DEFINE Pairs(E) == {<<e.from, e.to>> : e \in {f \in E : f.parse = parses /\ f.from # f.to}}
               added == {<<qubitsHistory[q], v>> :
                           q \in {p \in Qubits(kernel) : ActsOnIndex(op, p)}}
    <2>1. Pairs(new) \subseteq added
        <3> SUFFICES ASSUME NEW i \in known, Source(i) # v
                     PROVE  <<Source(i), v>> \in added
            OBVIOUS
        <3>1. Source(i) = qubitsHistory[o[i]]
            OBVIOUS
        <3>2. o[i] \in Qubits(kernel) /\ ActsOnIndex(op, o[i])
            BY <1>8, <1>10
        <3> QED BY <3>1, <3>2
    <2>2. added \subseteq Pairs(new)
        <3> SUFFICES ASSUME NEW q \in Qubits(kernel), ActsOnIndex(op, q)
                     PROVE  <<qubitsHistory[q], v>> \in Pairs(new)
            OBVIOUS
        <3> DEFINE I == {i \in DOMAIN o : o[i] = q}
        <3>1. I \in SUBSET Nat /\ I # {}
            BY <1>9, <1>10
        <3>2. PICK i \in I : \A t \in I : i <= t
            BY <3>1, FirstExists
        <3>3. i \in known /\ o[i] = q /\ i \in Nat
            BY <1>8, <3>1, <3>2
        <3>4. ~ \E j \in 1 .. i - 1 : o[j] = o[i]
            BY <1>9, <3>2, <3>3
        <3>5. Source(i) = qubitsHistory[q] /\ Source(i) # v
            BY <1>7, <1>8, <3>3, <3>4
        <3>6. [from |-> Source(i), to |-> v, operand |-> i, parse |-> parses] \in new
            BY <3>3
        <3> HIDE DEF new, Source, v
        <3> QED BY <3>5, <3>6
    <2>3. Pairs(edges') = Pairs(edges) \cup added
        <3>1. Pairs(new) = added
            BY <2>1, <2>2
        <3> HIDE DEF new, added
        <3> QED BY <1>3, <3>1
    <2>4. GateIndexDependences' = GateIndexDependences \cup added
        <3>1. \A q : GatesOnIndex(q)' = IF ActsOnIndex(op, q) THEN GatesOnIndex(q) \cup {next}
                                         ELSE GatesOnIndex(q)
            BY <1>4, <1>5 DEF GatesOnIndex
        <3>2. added = {<<LastOnIndex(kernel, q, next), GateVertex(kernel, next)>> :
                         q \in {p \in Qubits(kernel) : ActsOnIndex(op, p)}}
            BY <1>6, <1>8
        <3> HIDE DEF added, op
        <3> QED BY <1>4, <3>1, <3>2 DEF GateIndexDependences
    <2>5. LastIndexDependences = {} /\ LastIndexDependences' = {}
        BY <1>2, <1>4 DEF LastIndexDependences
    <2>6. Pairs(edges) = GateIndexDependences
        BY <2>5 DEF EInv, EdgesFollowIndices, EdgesOfCall, IndexDependences
    <2> HIDE DEF added
    <2> QED BY <1>4, <2>3, <2>4, <2>5, <2>6 DEF EdgesFollowIndices, EdgesOfCall, IndexDependences
<1> QED BY <1>1, <1>11, <1>12, <1>13, <1>14, <1>15, <1>16 DEF EInv

LEMMA InsertMeasurementKeepsEdges ==
    ASSUME EInv, InsertMeasurement
    PROVE  EInv'
<1> DEFINE M == MeasurementName
           d == get_or_add_node({M})
           new == {[from |-> qubitsHistory[q], to |-> M,
                    operand |-> q, parse |-> parses] : q \in DOMAIN qubitsHistory}
           n == Len(kernel.ops)
<1>1. IInv'
    BY InsertMeasurementPreserves DEF EInv
<1>2. kernel.ops \in Seq(Op) /\ parses \in Nat /\ next = n + 1 /\ next # 0
    BY OpsOfKernel DEF InsertMeasurement, EInv
<1>3. /\ dag' = [d EXCEPT ![M] = [d[M] EXCEPT !.isMeasurement = TRUE]]
      /\ edges' = edges \cup new
      /\ next' = 0 /\ parses' = parses /\ kernel' = kernel /\ idx' = idx
      /\ qubitsHistory' = qubitsHistory
    BY DEF InsertMeasurement
<1>4. parses > 0
    BY <1>2 DEF EInv, EdgesOfCalls
<1>5. Met' = Met
    BY <1>2, <1>3, <1>4 DEF Met
<1>6. DOMAIN qubitsHistory = Qubits(kernel)
      /\ \A q \in Qubits(kernel) : qubitsHistory[q] = LastOnIndex(kernel, q, n + 1)
    BY <1>2 DEF EInv, HistoryIsLast
<1>7. \A q \in DOMAIN qubitsHistory : qubitsHistory[q] # M
    BY NamesHaveTypes DEF EInv, IInv, HistoryBehind
<1>8. GatesCounted' /\ HistoryIsLast'
    BY <1>3 DEF GatesCounted, HistoryIsLast
<1>9. EdgesOfCalls'
    <2>1. \A e \in new : e.parse = parses
        OBVIOUS
    <2> HIDE DEF new
    <2> QED BY <1>2, <1>3, <2>1 DEF EInv, EdgesOfCalls
<1>10. OneVertexPerGate'
    <2>1. \A i \in Met : isOperator(kernel.ops[i]) => GateVertex(kernel, i) # M
        BY DEF GateVertex, Name, MeasurementName, isOperator, Gates
    <2>2. \A w \in DOMAIN dag \ {M} : w \in DOMAIN dag' /\ dag'[w] = dag[w]
        <3>1. \A w \in DOMAIN dag : w \in DOMAIN d /\ d[w] = dag[w]
            BY DEF get_or_add_node
        <3> HIDE DEF d, M
        <3> QED BY <1>3, <3>1
    <2> HIDE DEF M, d
    <2> QED BY <1>3, <1>5, <2>1, <2>2 DEF EInv, OneVertexPerGate
<1>11. LoopsOnlyAtSharedIndices'
    <2>1. \A e \in new : e.from # e.to
        BY <1>7
    <2> HIDE DEF new
    <2> QED BY <1>3, <1>5, <2>1 DEF EInv, LoopsOnlyAtSharedIndices
<1>12. EdgesFollowIndices'
    <2> DEFINE Pairs(E) == {<<e.from, e.to>> : e \in {f \in E : f.parse = parses /\ f.from # f.to}}
               added == {<<qubitsHistory[q], M>> : q \in Qubits(kernel)}
    <2>1. Pairs(new) = added
        <3>1. \A q \in Qubits(kernel) :
                 [from |-> qubitsHistory[q], to |-> M, operand |-> q, parse |-> parses] \in new
            BY <1>6
        <3>2. added \subseteq Pairs(new)
            <4> SUFFICES ASSUME NEW q \in Qubits(kernel)
                         PROVE  <<qubitsHistory[q], M>> \in Pairs(new)
                OBVIOUS
            <4>1. qubitsHistory[q] # M
                BY <1>6, <1>7
            <4>2. [from |-> qubitsHistory[q], to |-> M, operand |-> q, parse |-> parses] \in new
                BY <3>1
            <4> HIDE DEF new, M
            <4> QED BY <4>1, <4>2
        <3>3. Pairs(new) \subseteq added
            BY <1>6
        <3> QED BY <3>2, <3>3
    <2>2. Pairs(edges') = Pairs(edges) \cup added
        <3> HIDE DEF new, added
        <3> QED BY <1>3, <2>1
    <2>3. GateIndexDependences' = GateIndexDependences
        BY <1>3, <1>5 DEF GateIndexDependences, GatesOnIndex
    <2>4. LastIndexDependences = {}
        BY <1>2 DEF LastIndexDependences
    <2>5. LastIndexDependences' = added
        BY <1>3, <1>4, <1>6 DEF LastIndexDependences
    <2>6. Pairs(edges) = GateIndexDependences
        BY <2>4 DEF EInv, EdgesFollowIndices, EdgesOfCall, IndexDependences
    <2> HIDE DEF added
    <2> QED BY <1>3, <2>2, <2>3, <2>5, <2>6 DEF EdgesFollowIndices, EdgesOfCall, IndexDependences
<1> QED BY <1>1, <1>8, <1>9, <1>10, <1>11, <1>12 DEF EInv

-----------------------------------------------------------------------------

LEMMA EmptyGraph == Init => EInv
<1> SUFFICES ASSUME Init PROVE EInv
    OBVIOUS
<1>1. IInv
    BY InitInvariant
<1>2. next = 0 /\ parses = 0 /\ edges = {}
    BY DEF Init
<1>3. Met = {}
    BY <1>2 DEF Met
<1>4. IndexDependences = {}
    BY <1>2, <1>3 DEF IndexDependences, GateIndexDependences, LastIndexDependences, GatesOnIndex
<1>5. EdgesFollowIndices
    BY <1>2, <1>4 DEF EdgesFollowIndices, EdgesOfCall
<1> QED BY <1>1, <1>2, <1>3, <1>5
        DEF EInv, GatesCounted, EdgesOfCalls, OneVertexPerGate, LoopsOnlyAtSharedIndices,
            HistoryIsLast

LEMMA StepKeepsEdges == EInv /\ [Next]_vars => EInv'
<1> SUFFICES ASSUME EInv, [Next]_vars PROVE EInv'
    OBVIOUS
<1>1. ASSUME NEW k \in Inputs, Begin(k) PROVE EInv'
    BY <1>1, BeginKeepsEdges
<1>2. CASE SkipOperation
    BY <1>2, SkipKeepsEdges
<1>3. CASE InsertGate
    BY <1>3, InsertGateKeepsEdges
<1>4. CASE InsertMeasurement
    BY <1>4, InsertMeasurementKeepsEdges
<1>5. CASE UNCHANGED vars
    <2>1. IInv'
        BY <1>5, StepInvariant DEF EInv
    <2>2. Met' = Met
        BY <1>5 DEF vars, Met
    <2>3. IndexDependences' = IndexDependences
        BY <1>5, <2>2 DEF vars, IndexDependences, GateIndexDependences, LastIndexDependences,
                          GatesOnIndex
    <2> QED BY <1>5, <2>1, <2>2, <2>3
            DEF vars, EInv, GatesCounted, EdgesOfCalls, OneVertexPerGate,
                LoopsOnlyAtSharedIndices, HistoryIsLast, EdgesFollowIndices, EdgesOfCall
<1> QED BY <1>1, <1>2, <1>3, <1>4, <1>5 DEF Next

LEMMA EdgeInvariance == Spec => []EInv
BY EmptyGraph, StepKeepsEdges, PTL DEF Spec

\* No two gates of a kernel share a vertex, and what a kernel before it left in a vertex of
\* the same name is overwritten, for all kernels.
THEOREM GatesHaveVertices == Spec => []OneVertexPerGate
<1>1. EInv => OneVertexPerGate
    BY DEF EInv
<1> QED BY <1>1, EdgeInvariance, PTL

-----------------------------------------------------------------------------
(* From indices to qubits *)

\* The operations met are the first ones.
LEMMA MetIsFirst ==
    ASSUME IInv
    PROVE  /\ Met \in SUBSET (Nat \ {0})
           /\ \A i \in Met : 1 .. i \subseteq Met
           /\ next = 0 /\ parses > 0 => Met = 1 .. Len(kernel.ops)
           /\ Len(kernel.ops) \in Nat
BY OpsOfKernel DEF Met

LEMMA QubitsHaveIndices ==
    ASSUME NEW k, NEW w \in QubitsOf(k)
    PROVE  w.idx \in Qubits(k)
BY DEF QubitsOf

\* A gate on a qubit acts on its index.
LEMMA QubitGivesIndex ==
    ASSUME NEW w, NEW i \in GatesOn(w)
    PROVE  i \in GatesOnIndex(w.idx)
<1>1. /\ i \in Met /\ isOperator(kernel.ops[i])
      /\ \/ \E j \in DOMAIN kernel.ops[i].tgts : kernel.ops[i].tgts[j] = w
         \/ \E j \in DOMAIN kernel.ops[i].ctrls : kernel.ops[i].ctrls[j] = w
    BY DEF GatesOn, Range
<1>2. ActsOnIndex(kernel.ops[i], w.idx)
    BY <1>1 DEF ActsOnIndex, extractIndexFromQuakeExtractRefOp
<1> QED BY <1>1, <1>2 DEF GatesOnIndex

\* The last vertex on a qubit is one that was last on its index.
LEMMA LastWasOnIndex ==
    ASSUME IInv, NEW w, NEW i \in Nat \ {0}
    PROVE  \E m \in 1 .. i : LastOn(w, i) = LastOnIndex(kernel, w.idx, m)
<1> DEFINE S == {j \in GatesOn(w) : j < i}
<1>1. CASE S = {}
    <2>1. LastOn(w, i) = LastOnIndex(kernel, w.idx, 1)
        BY <1>1, LastOnAtFirst DEF LastOn
    <2> QED BY <2>1
<1>2. CASE S # {}
    <2>1. S \in SUBSET (0 .. i)
        BY MetIsFirst DEF GatesOn
    <2>2. PICK m \in S : \A t \in S : t <= m
        BY <1>2, <2>1, LastExists
    <2>3. LastOf(S) = m
        BY <2>1, <2>2, LastIsGreatest
    <2>4. m \in Nat \ {0} /\ m + 1 \in 1 .. i
        BY MetIsFirst DEF GatesOn
    <2>5. ActsOnIndex(kernel.ops[m], w.idx)
        BY QubitGivesIndex DEF GatesOnIndex
    <2>6. LastOnIndex(kernel, w.idx, m + 1) = GateVertex(kernel, m)
        BY <2>4, <2>5, LastOnStep
    <2>7. LastOn(w, i) = GateVertex(kernel, m)
        BY <1>2, <2>3 DEF LastOn
    <2> QED BY <2>4, <2>6, <2>7
<1> QED BY <1>1, <1>2

\* Of one register they are the same.
LEMMA OneRegisterHasQubits ==
    ASSUME IInv, IsOneRegister(kernel)
    PROVE  QubitsOf(kernel) = {[reg |-> kernel.allocs[1].reg, idx |-> q] : q \in Qubits(kernel)}
<1>1. kernel.allocs \in Seq(Allocas) /\ Len(kernel.allocs) = 1
    BY QuakeDAGAssumption DEF IInv, TypeOK, IsOneRegister
<1>2. Range(kernel.allocs) = {kernel.allocs[1]}
    BY <1>1 DEF Range
<1> QED BY <1>2 DEF QubitsOf, IsOneRegister

LEMMA IndexGivesQubit ==
    ASSUME IInv, IsOneRegister(kernel), NEW w \in QubitsOf(kernel)
    PROVE  GatesOn(w) = GatesOnIndex(w.idx)
<1> SUFFICES ASSUME NEW i \in GatesOnIndex(w.idx) PROVE i \in GatesOn(w)
    BY QubitGivesIndex DEF GatesOn, GatesOnIndex
<1>1. i \in Met /\ isOperator(kernel.ops[i])
    BY DEF GatesOnIndex, ActsOnIndex
<1>2. PICK v \in Range(kernel.ops[i].tgts) \cup Range(kernel.ops[i].ctrls) : v.idx = w.idx
    BY DEF GatesOnIndex, ActsOnIndex, extractIndexFromQuakeExtractRefOp, Range
<1>3. i \in DOMAIN kernel.ops
    BY <1>1, OpsOfKernel DEF Met, IInv, TypeOK
<1>4. v \in QubitsOf(kernel)
    BY <1>1, <1>2, <1>3 DEF IsOneRegister
<1>5. v = w
    BY <1>2, <1>4, OneRegisterHasQubits
<1> QED BY <1>1, <1>2, <1>5 DEF GatesOn

LEMMA LastOnIsSame ==
    ASSUME IInv, IsOneRegister(kernel), NEW w \in QubitsOf(kernel),
           NEW i \in Nat \ {0}, 1 .. i - 1 \subseteq Met
    PROVE  LastOn(w, i) = LastOnIndex(kernel, w.idx, i)
<1>1. {j \in GatesOn(w) : j < i} = {j \in 1 .. i - 1 : ActsOnIndex(kernel.ops[j], w.idx)}
    BY MetIsFirst, IndexGivesQubit DEF GatesOnIndex
<1> QED BY <1>1 DEF LastOn, LastOnIndex

LEMMA OneRegisterIsExact ==
    ASSUME IInv, IsOneRegister(kernel)
    PROVE  Dependences = IndexDependences
<1> DEFINE W(q) == [reg |-> kernel.allocs[1].reg, idx |-> q]
           Gates1(w) == {<<LastOn(w, i), GateVertex(kernel, i)>> : i \in GatesOn(w)}
           Gates2(q) == {<<LastOnIndex(kernel, q, i), GateVertex(kernel, i)>> :
                           i \in GatesOnIndex(q)}
<1>1. QubitsOf(kernel) = {W(q) : q \in Qubits(kernel)} /\ \A q : W(q).idx = q
    BY OneRegisterHasQubits
<1>2. ASSUME NEW w \in QubitsOf(kernel) PROVE Gates1(w) = Gates2(w.idx)
    <2>1. GatesOn(w) = GatesOnIndex(w.idx)
        BY IndexGivesQubit
    <2>2. \A i \in GatesOn(w) : i \in Nat \ {0} /\ 1 .. i - 1 \subseteq Met
        BY MetIsFirst DEF GatesOn
    <2>3. \A i \in GatesOn(w) : LastOn(w, i) = LastOnIndex(kernel, w.idx, i)
        BY <2>2, LastOnIsSame
    <2> QED BY <2>1, <2>3
<1> HIDE DEF W, Gates1, Gates2
<1>3. UNION {Gates1(w) : w \in QubitsOf(kernel)} = UNION {Gates2(q) : q \in Qubits(kernel)}
    BY <1>1, <1>2
<1>4. GateDependences = GateIndexDependences
    BY <1>3 DEF GateDependences, GateIndexDependences, Gates1, Gates2
<1>5. LastDependences = LastIndexDependences
    <2>1. CASE ~ (next = 0 /\ parses > 0)
        BY <2>1 DEF LastDependences, LastIndexDependences
    <2>2. CASE next = 0 /\ parses > 0
        <3> DEFINE n == Len(kernel.ops) + 1
        <3>1. n \in Nat \ {0} /\ 1 .. n - 1 \subseteq Met
            BY <2>2, MetIsFirst
        <3> HIDE DEF n
        <3>2. \A w \in QubitsOf(kernel) : LastOn(w, n) = LastOnIndex(kernel, w.idx, n)
            BY <3>1, LastOnIsSame
        <3>3. {<<LastOn(w, n), MeasurementName>> : w \in QubitsOf(kernel)}
                = {<<LastOnIndex(kernel, q, n), MeasurementName>> : q \in Qubits(kernel)}
            BY <1>1, <3>2
        <3> QED BY <2>2, <3>3 DEF LastDependences, LastIndexDependences, n
    <2> QED BY <2>1, <2>2
<1> QED BY <1>4, <1>5 DEF Dependences, IndexDependences

\* A set that no edge leaves and that has a vertex on an index has all that come later.
LEMMA IndexPath ==
    ASSUME EInv, NEW q \in Qubits(kernel), NEW S,
           \A e \in EdgesOfCall : e[1] \in S => e[2] \in S,
           NEW m \in Nat \ {0}, NEW n \in Nat, m <= n, 1 .. n - 1 \subseteq Met,
           LastOnIndex(kernel, q, m) \in S
    PROVE  LastOnIndex(kernel, q, n) \in S
<1> DEFINE T == {k \in Nat : LastOnIndex(kernel, q, m + k) \in S}
<1>1. 0 \in T /\ n - m \in Nat
    OBVIOUS
<1>2. ASSUME NEW k \in 1 .. n - m, k - 1 \in T PROVE k \in T
    <2> DEFINE i == m + (k - 1)
    <2>1. i \in Nat \ {0} /\ i \in 1 .. n - 1 /\ i + 1 = m + k /\ i \in Met /\ k \in Nat
        OBVIOUS
    <2>2. LastOnIndex(kernel, q, i) \in S
        BY <1>2
    <2> HIDE DEF i
    <2>3. CASE ActsOnIndex(kernel.ops[i], q)
        <3>1. <<LastOnIndex(kernel, q, i), GateVertex(kernel, i)>> \in EdgesOfCall
            BY <2>1, <2>3 DEF EInv, EdgesFollowIndices, IndexDependences, GateIndexDependences,
                              GatesOnIndex
        <3>2. LastOnIndex(kernel, q, i + 1) \in S
            BY <2>1, <2>2, <2>3, <3>1, LastOnStep
        <3> QED BY <2>1, <3>2
    <2>4. CASE ~ ActsOnIndex(kernel.ops[i], q)
        <3>1. LastOnIndex(kernel, q, i + 1) \in S
            BY <2>1, <2>2, <2>4, LastOnStep
        <3> QED BY <2>1, <3>1
    <2> QED BY <2>3, <2>4
<1>3. \A k \in 0 .. n - m : k \in T
    <2> HIDE DEF T
    <2> QED BY <1>1, <1>2, StepByStep
<1>4. n - m \in 0 .. n - m /\ m + (n - m) = n
    BY <1>1
<1> QED BY <1>3, <1>4

\* A dependence is a path along the index of its qubit.
LEMMA DependencesAreKept ==
    ASSUME EInv, NEW d \in Dependences
    PROVE  Reaches(d[1], d[2])
<1> SUFFICES ASSUME NEW S, d[1] \in S, \A e \in EdgesOfCall : e[1] \in S => e[2] \in S
             PROVE  d[2] \in S
    BY DEF Reaches
<1>1. IInv
    BY DEF EInv
<1>2. CASE d \in GateDependences
    <2>0. PICK w \in QubitsOf(kernel) :
            d \in {<<LastOn(w, i), GateVertex(kernel, i)>> : i \in GatesOn(w)}
        BY <1>2 DEF GateDependences
    <2>1. PICK i \in GatesOn(w) : d = <<LastOn(w, i), GateVertex(kernel, i)>>
        BY <2>0
    <2>2. i \in Nat \ {0} /\ i \in Met /\ 1 .. (i + 1) - 1 \subseteq Met
        BY <1>1, MetIsFirst DEF GatesOn
    <2>3. PICK m \in 1 .. i : LastOn(w, i) = LastOnIndex(kernel, w.idx, m)
        BY <1>1, <2>2, LastWasOnIndex
    <2>4. m \in Nat \ {0} /\ i + 1 \in Nat /\ m <= i + 1
        BY <2>2
    <2>5. w.idx \in Qubits(kernel) /\ LastOnIndex(kernel, w.idx, m) \in S
        BY <2>1, <2>3, QubitsHaveIndices
    <2>6. LastOnIndex(kernel, w.idx, i + 1) \in S
        BY <2>2, <2>4, <2>5, IndexPath
    <2>7. ActsOnIndex(kernel.ops[i], w.idx)
        BY QubitGivesIndex DEF GatesOnIndex
    <2>8. LastOnIndex(kernel, w.idx, i + 1) = GateVertex(kernel, i)
        BY <2>2, <2>7, LastOnStep
    <2> QED BY <2>1, <2>6, <2>8
<1>3. CASE d \in LastDependences
    <2> DEFINE n == Len(kernel.ops) + 1
    <2>1. next = 0 /\ parses > 0
        BY <1>3 DEF LastDependences
    <2>2. PICK w \in QubitsOf(kernel) : d = <<LastOn(w, n), MeasurementName>>
        BY <1>3, <2>1 DEF LastDependences
    <2>3. n \in Nat \ {0} /\ 1 .. n - 1 \subseteq Met
        BY <1>1, <2>1, MetIsFirst
    <2> HIDE DEF n
    <2>4. PICK m \in 1 .. n : LastOn(w, n) = LastOnIndex(kernel, w.idx, m)
        BY <1>1, <2>3, LastWasOnIndex
    <2>5. m \in Nat \ {0} /\ n \in Nat /\ m <= n
        BY <2>3
    <2>6. w.idx \in Qubits(kernel) /\ LastOnIndex(kernel, w.idx, m) \in S
        BY <2>2, <2>4, QubitsHaveIndices
    <2>7. LastOnIndex(kernel, w.idx, n) \in S
        BY <2>3, <2>5, <2>6, IndexPath
    <2>8. <<LastOnIndex(kernel, w.idx, n), MeasurementName>> \in EdgesOfCall
        BY <2>1, <2>6 DEF EInv, EdgesFollowIndices, IndexDependences, LastIndexDependences, n
    <2> QED BY <2>2, <2>7, <2>8
<1> QED BY <1>2, <1>3 DEF Dependences

\* The edges a call of parse_mlir adds to the graph are the dependences along the qubits of
\* its kernel, no more and no less if the kernel has one register; and of every kernel,
\* with as many registers as it likes, no dependence is lost.
THEOREM GraphIsDependences == Spec => []EdgesAreDependences
<1>1. EInv => EdgesAreDependences
    <2> SUFFICES ASSUME EInv PROVE EdgesAreDependences
        OBVIOUS
    <2>1. IsOneRegister(kernel) => EdgesOfCall = Dependences
        BY OneRegisterIsExact DEF EInv, EdgesFollowIndices
    <2>2. \A d \in Dependences : Reaches(d[1], d[2])
        BY DependencesAreKept
    <2> QED BY <2>1, <2>2 DEF EdgesAreDependences
<1> QED BY <1>1, EdgeInvariance, PTL

\* A gate precedes itself only if two of its operands have one index, for all kernels.
THEOREM LoopsAreSharedIndices == Spec => []LoopsOnlyAtSharedIndices
<1>1. EInv => LoopsOnlyAtSharedIndices
    BY DEF EInv
<1> QED BY <1>1, EdgeInvariance, PTL
=============================================================================
