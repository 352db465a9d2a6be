------------------------------ MODULE QuakeDAG ------------------------------
(***************************************************************************)
(* The dependency graph of a kernel (lib/Support/DAG/QuakeDAG.cpp): one    *)
(* vertex per qubit, one per gate and one for all measurements, and an     *)
(* edge wherever a qubit goes from one to the next, a qubit being known by *)
(* its index without its register.  One graph object may be given several  *)
(* kernels, one call of parse_mlir after the other.                        *)
(*                                                                         *)
(* get_or_add_node keeps one vertex per name, so a vertex is its name.     *)
(* Parallel edges are told apart by the operand and the call that made     *)
(* them, since the graph is a multigraph.                                  *)
(***************************************************************************)
EXTENDS Kernels

CONSTANTS Inputs,      \* the kernels parse_mlir may be given
          MaxParses    \* the most calls of parse_mlir on one graph

ASSUME QuakeDAGAssumption ==
    /\ MaxParses \in Nat
    /\ \A k \in Inputs : /\ k.ops \in Seq(Op) /\ k.allocs \in Seq(Allocas)
                         /\ getNumberOfQubits(k) \in Nat

VARIABLES dag,             \* node_map with the vertices' properties, by name
          edges,           \* the edges between them
          parses,          \* how many calls of parse_mlir have begun
          kernel,          \* the kernel of the current or the last call
          next,            \* the operation the walk meets next, 0 between calls
          idx,             \* the number of the next gate
          qubitsHistory    \* the last vertex on each qubit

vars == <<dag, edges, parses, kernel, next, idx, qubitsHistory>>

-----------------------------------------------------------------------------
(* Names: "q_<n>", "<gate>_<n>" and "measurement" *)

Name(kind, num) == [kind |-> kind, num |-> num]
QubitName(i) == Name("q", i)
MeasurementName == Name("measurement", 0)
Names == [kind : Gates \cup {"q", "measurement"}, num : Nat]

NewVertex == [targets |-> <<>>, controls |-> <<>>, arguments |-> <<>>,
              isAdj |-> FALSE, isQubit |-> FALSE, isMeasurement |-> FALSE]

Vertices == [targets : Seq(Int), controls : Seq(Int), arguments : Seq(Int),
             isAdj : BOOLEAN, isQubit : BOOLEAN, isMeasurement : BOOLEAN]

Edges == [from : Names, to : Names, operand : Nat, parse : Nat]

-----------------------------------------------------------------------------

Init ==
    /\ dag = [n \in {} |-> NewVertex]
    /\ edges = {}
    /\ parses = 0
    /\ kernel \in Inputs
    /\ next = 0
    /\ idx = 0
    /\ qubitsHistory = [i \in {} |-> MeasurementName]

\* The vertices of some names: the one the graph has, or a new one
get_or_add_node(names) ==
    [n \in DOMAIN dag \cup names |-> IF n \in DOMAIN dag THEN dag[n] ELSE NewVertex]

Qubits(k) == 0 .. getNumberOfQubits(k) - 1

\* parse_mlir up to the walk: a vertex for each allocated qubit
Begin(k) ==
    /\ next = 0
    /\ parses < MaxParses
    /\ kernel' = k
    /\ parses' = parses + 1
    /\ LET names == {QubitName(i) : i \in Qubits(k)}
           nodes == get_or_add_node(names)
       IN  dag' = [n \in DOMAIN nodes |->
                     IF n \in names THEN [nodes[n] EXCEPT !.isQubit = TRUE] ELSE nodes[n]]
    /\ qubitsHistory' = [i \in Qubits(k) |-> QubitName(i)]
    /\ idx' = 0
    /\ next' = 1
    /\ UNCHANGED edges

\* The callback of the walk on an operation that is no gate
SkipOperation ==
    /\ next \in DOMAIN kernel.ops
    /\ ~ isOperator(kernel.ops[next])
    /\ next' = next + 1
    /\ UNCHANGED <<dag, edges, parses, kernel, idx, qubitsHistory>>

\* The indices of the operands in the order the edges are inserted: targets first
Operands(op) == getIndicesOfValueRange(op.tgts) \o getIndicesOfValueRange(op.ctrls)

\* Mutant: the controls of a gate leave nothing in the history.
ConnectTargetsOnly(op, v) ==
    LET o == Operands(op)
        known == {i \in DOMAIN o : o[i] \in DOMAIN qubitsHistory}
    IN  /\ edges' = edges \cup {[from |-> qubitsHistory[o[i]], to |-> v,
                                 operand |-> i, parse |-> parses] : i \in known}
        /\ qubitsHistory' = [q \in DOMAIN qubitsHistory |->
                               IF \E i \in 1 .. Len(op.tgts) : o[i] = q
                               THEN v ELSE qubitsHistory[q]]

\* An edge for each operand, from the last vertex on its qubit, which is the gate itself
\* if an earlier operand has the same index.  The assertion on an operand that is no
\* allocated qubit is on a string and never fails: the operand is left out.
Connect(op, v) ==
    LET o == Operands(op)
        known == {i \in DOMAIN o : o[i] \in DOMAIN qubitsHistory}
        Source(i) == IF \E j \in 1 .. i - 1 : o[j] = o[i] THEN v ELSE qubitsHistory[o[i]]
    IN  /\ edges' = edges \cup {[from |-> Source(i), to |-> v,
                                 operand |-> i, parse |-> parses] : i \in known}
        /\ qubitsHistory' = [q \in DOMAIN qubitsHistory |->
                               IF \E i \in known : o[i] = q THEN v ELSE qubitsHistory[q]]

\* Mutant: a gate's name is its kind without its number.
InsertGateByKind ==
    /\ next \in DOMAIN kernel.ops
    /\ isOperator(kernel.ops[next])
    /\ LET op == kernel.ops[next]
           v == Name(op.gate, 0)
           nodes == get_or_add_node({v})
       IN  /\ dag' = [nodes EXCEPT ![v] =
                        [@ EXCEPT !.targets = getIndicesOfValueRange(op.tgts),
                                  !.controls = getIndicesOfValueRange(op.ctrls),
                                  !.arguments = getParametersValues(op.params),
                                  !.isAdj = op.adj]]
           /\ Connect(op, v)
    /\ idx' = idx + 1
    /\ next' = next + 1
    /\ UNCHANGED <<parses, kernel>>

\* The callback of the walk on a gate: its vertex, loaded with its operands, and its edges
InsertGate ==
    /\ next \in DOMAIN kernel.ops
    /\ isOperator(kernel.ops[next])
    /\ LET op == kernel.ops[next]
           v == Name(op.gate, idx)
           nodes == get_or_add_node({v})
       IN  /\ dag' = [nodes EXCEPT ![v] =
                        [@ EXCEPT !.targets = getIndicesOfValueRange(op.tgts),
                                  !.controls = getIndicesOfValueRange(op.ctrls),
                                  !.arguments = getParametersValues(op.params),
                                  !.isAdj = op.adj]]
           /\ Connect(op, v)
    /\ idx' = idx + 1
    /\ next' = next + 1
    /\ UNCHANGED <<parses, kernel>>

\* Mutant: the measurement gets its edges without a vertex of its own.
InsertMeasurementEdges ==
    /\ next = Len(kernel.ops) + 1
    /\ edges' = edges \cup {[from |-> qubitsHistory[q], to |-> MeasurementName,
                             operand |-> q, parse |-> parses] : q \in DOMAIN qubitsHistory}
    /\ next' = 0
    /\ UNCHANGED <<dag, parses, kernel, idx, qubitsHistory>>

\* parse_mlir behind the walk: one vertex for the measurements of all qubits, wherever
\* and whether or not the kernel measures them
InsertMeasurement ==
    /\ next = Len(kernel.ops) + 1
    /\ LET nodes == get_or_add_node({MeasurementName})
       IN  dag' = [nodes EXCEPT ![MeasurementName] = [@ EXCEPT !.isMeasurement = TRUE]]
    /\ edges' = edges \cup {[from |-> qubitsHistory[q], to |-> MeasurementName,
                             operand |-> q, parse |-> parses] : q \in DOMAIN qubitsHistory}
    /\ next' = 0
    /\ UNCHANGED <<parses, kernel, idx, qubitsHistory>>

Next ==
    \/ \E k \in Inputs : Begin(k)
    \/ SkipOperation
    \/ InsertGate
    \/ InsertMeasurement

Spec == Init /\ [][Next]_vars

-----------------------------------------------------------------------------

\* Every variable has its type: the graph has the vertices its edges and the history name.
TypeOK ==
    /\ DOMAIN dag \subseteq Names
    /\ \A n \in DOMAIN dag : dag[n] \in Vertices
    /\ edges \subseteq Edges
    /\ \A e \in edges : e.from \in DOMAIN dag /\ e.to \in DOMAIN dag
    /\ parses \in Nat
    /\ kernel \in Inputs
    /\ next \in 0 .. Len(kernel.ops) + 1
    /\ idx \in Nat
    /\ DOMAIN qubitsHistory \subseteq Nat
    /\ \A q \in DOMAIN qubitsHistory : qubitsHistory[q] \in DOMAIN dag

\* The graph has no cycle of two or more vertices (every set of vertices has a first one),
\* even after several kernels, whose vertices of equal names become one.  Loops are what
\* LoopsOnlyAtSharedIndices is about.
Acyclic ==
    \A S \in SUBSET DOMAIN dag : S # {} =>
      \E v \in S : \A e \in edges : e.to = v => e.from = v \/ e.from \notin S

\* The vertex of operation i, a gate: its number is how many gates are before it.
GatesBefore(k, i) == {j \in 1 .. i - 1 : isOperator(k.ops[j])}
GateVertex(k, i) == Name(k.ops[i].gate, Cardinality(GatesBefore(k, i)))

\* The operations the walk has met
Met == IF next = 0 THEN (IF parses = 0 THEN {} ELSE DOMAIN kernel.ops) ELSE 1 .. next - 1

\* Every gate met has a vertex of its own, with its operands: no two gates of a call
\* share one, and what an earlier call left in it is overwritten.
OneVertexPerGate ==
    \A i \in Met : isOperator(kernel.ops[i]) =>
      LET v == GateVertex(kernel, i)
      IN  /\ v \in DOMAIN dag
          /\ dag[v].targets = getIndicesOfValueRange(kernel.ops[i].tgts)
          /\ dag[v].controls = getIndicesOfValueRange(kernel.ops[i].ctrls)
          /\ dag[v].isAdj = kernel.ops[i].adj

\* The qubits of a kernel, by register and number.  (Of two registers neither has that
\* many; no gate is on the others.)
QubitsOf(k) ==
    {[reg |-> a.reg, idx |-> i] : a \in {b \in Range(k.allocs) : ~ b.ref}, i \in Qubits(k)}

\* The gates met that are on a qubit: on one of that register, not only of that number
GatesOn(w) ==
    {i \in Met : isOperator(kernel.ops[i])
                   /\ w \in Range(kernel.ops[i].tgts) \cup Range(kernel.ops[i].ctrls)}

\* The last vertex on a qubit before operation i: that of a gate, or that of the qubit
LastOn(w, i) ==
    LET S == {j \in GatesOn(w) : j < i}
    IN  IF S = {} THEN QubitName(w.idx) ELSE GateVertex(kernel, LastOf(S))

\* The edges a dependence asks for: from each qubit to the first gate on it, from each
\* gate on it to the next, and, when the call has returned, from the last to the
\* measurement.
GateDependences ==
    UNION {{<<LastOn(w, i), GateVertex(kernel, i)>> : i \in GatesOn(w)} : w \in QubitsOf(kernel)}
LastDependences ==
    IF next = 0 /\ parses > 0
    THEN {<<LastOn(w, Len(kernel.ops) + 1), MeasurementName>> : w \in QubitsOf(kernel)}
    ELSE {}
Dependences == GateDependences \cup LastDependences

\* The edges of the current call, or the last: parallel ones are one, loops are none.
EdgesOfCall == {<<e.from, e.to>> : e \in {d \in edges : d.parse = parses /\ d.from # d.to}}

\* Is there a path of such edges from u to v?  Then one leaves every set of vertices that
\* has u and not v.
Reaches(u, v) ==
    LET V == {e[1] : e \in EdgesOfCall} \cup {e[2] : e \in EdgesOfCall} \cup {u, v}
    IN  \A S \in SUBSET V : u \in S /\ v \notin S =>
          \E e \in EdgesOfCall : e[1] \in S /\ e[2] \notin S

\* Is there one register, and every gate on its qubits?
IsOneRegister(k) ==
    /\ Len(k.allocs) = 1 /\ ~ k.allocs[1].ref
    /\ \A i \in DOMAIN k.ops : isOperator(k.ops[i]) =>
         Range(k.ops[i].tgts) \cup Range(k.ops[i].ctrls) \subseteq QubitsOf(k)

\* Of a kernel with one register, the edges a call adds are the dependences, no more and
\* no less: two gates on one qubit are ordered as in the block, and what has no qubit in
\* common is not.  Of any kernel no dependence is lost, but with two registers there may
\* be more edges than dependences: the graph knows a qubit by its number only and takes
\* qubits of equal numbers for one (h q[0]; x q[1], r[0] gives an edge from h_0 to x_1).
EdgesAreDependences ==
    /\ IsOneRegister(kernel) => EdgesOfCall = Dependences
    /\ \A d \in Dependences : Reaches(d[1], d[2])

\* A loop is made by a gate with two operands of one index only, which takes two registers.
LoopsOnlyAtSharedIndices ==
    \A e \in edges : (e.parse = parses /\ e.from = e.to) =>
      \E i \in Met : /\ isOperator(kernel.ops[i])
                     /\ e.to = GateVertex(kernel, i)
                     /\ \E j, l \in DOMAIN Operands(kernel.ops[i]) :
                          j # l /\ Operands(kernel.ops[i])[j] = Operands(kernel.ops[i])[l]
=============================================================================
