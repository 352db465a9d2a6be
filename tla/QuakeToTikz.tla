---------------------------- MODULE QuakeToTikz ----------------------------
(***************************************************************************)
(* The pass convert-quake-to-tikz (lib/Passes/CodeGen/QuakeToTikz.cpp) on  *)
(* the functions of a module.  A kernel becomes a diagram: a row of cells  *)
(* per qubit, to which each operation adds a column.  It is a pass on      *)
(* functions, so MLIR runs copies of it on several functions in parallel,  *)
(* unless the context has its threads switched off; the copies write to    *)
(* one stream, row by row here.                                            *)
(***************************************************************************)
EXTENDS Kernels

CONSTANTS Modules,        \* the modules that may be given: sequences of functions
          ThreadCounts    \* how many threads MLIR may have

\* Every operand is an allocated qubit, or a register where that is measured; gates have
\* targets, a swap two.
ASSUME QuakeToTikzAssumption ==
    /\ ThreadCounts \subseteq Nat \ {0}
    /\ \A m \in Modules :
         /\ m \in Seq(Function)
         /\ \A f \in DOMAIN m :
              /\ getNumberOfQubits(m[f]) \in Nat
              /\ \A k \in DOMAIN m[f].ops : LET op == m[f].ops[k] IN
                   /\ \A w \in Range(op.ctrls) \cup Range(op.tgts) :
                        \/ w.idx \in 0 .. getNumberOfQubits(m[f]) - 1
                        \/ isMeasurement(op) /\ IsVeq(w)
                   /\ isOperator(op) => op.tgts # <<>>
                   /\ op.gate = "swap" => Len(op.tgts) = 2

\* The operands of one operation are different qubits, which have different indices where
\* there is one register; a register is measured by itself.
ASSUME OneRegisterAssumption ==
    \A m \in Modules : \A f \in DOMAIN m : Len(m[f].allocs) <= 1 =>
      \A k \in DOMAIN m[f].ops : LET op == m[f].ops[k] IN
        /\ \A i, j \in DOMAIN op.tgts : op.tgts[i].idx = op.tgts[j].idx => i = j
        /\ \A i, j \in DOMAIN op.ctrls : op.ctrls[i].idx = op.ctrls[j].idx => i = j
        /\ \A i \in DOMAIN op.tgts : /\ \A j \in DOMAIN op.ctrls : op.ctrls[j].idx # op.tgts[i].idx
                                     /\ IsVeq(op.tgts[i]) => Len(op.tgts) = 1

VARIABLES module,       \* the module
          threads,      \* the threads there are
          curIndex,     \* how many functions the threads have taken
          active,       \* the functions they work on
          next,         \* for each function the operation the walk meets next
          qubitTikz,    \* for each function its rows: a sequence of cells for each qubit
          written,      \* for each function how much of its diagram is in the stream
          outputStream, \* the stream the copies share
          crashed       \* has a null operation been used?

vars == <<module, threads, curIndex, active, next, qubitTikz, written, outputStream, crashed>>

-----------------------------------------------------------------------------
(* Cells *)

Lstick == [cell |-> "lstick"]
Wire == [cell |-> "qw"]
Meter == [cell |-> "meter"]
SwapEnd == [cell |-> "swap end"]
SwapTo(d) == [cell |-> "swap", link |-> d]
Ctrl(d) == [cell |-> "ctrl", link |-> d]
GateCell(op) == [cell |-> "gate", gate |-> op.gate, adj |-> op.adj,
                 parameters |-> getParametersValues(op.params)]

\* n copies of a cell
Times(n, c) == [k \in 1 .. n |-> c]
Count(is, q) == Cardinality({k \in DOMAIN is : is[k] = q})

\* Mutant: only the first operand of a measurement is looked at.
MeterCellsOfFirst(op, q) ==
    LET is == <<extractIndexFromQuakeExtractRefOp(op.tgts[1])>>
        meters == Count(is, q) + (IF IsVeq(op.tgts[1]) THEN 1 ELSE 0)
    IN  IF meters = 0 THEN <<Wire>> ELSE Times(meters, Meter)

\* A register that is measured gets a meter in every row, whatever its size.
MeterCells(op, q) ==
    LET is == getIndicesOfValueRange(op.tgts)
        meters == Count(is, q) + Cardinality({k \in DOMAIN op.tgts : IsVeq(op.tgts[k])})
    IN  IF meters = 0 THEN <<Wire>> ELSE Times(meters, Meter)

\* A swap: a cell for each target and none for a control, which has had no wire either
SwapCells(op, q) ==
    LET t == getIndicesOfValueRange(op.tgts)
    IN  CASE q \in Range(t) -> (IF q = t[1] THEN <<SwapTo(t[2] - t[1])>> ELSE <<>>)
                                 \o (IF q = t[2] THEN <<SwapEnd>> ELSE <<>>)
          [] q \notin Range(t) /\ q \in Range(getIndicesOfValueRange(op.ctrls)) -> <<>>
          [] OTHER -> <<Wire>>

\* Mutant: the controls point the other way.
GateCellsUpsideDown(op, q) ==
    LET t == getIndicesOfValueRange(op.tgts)
        c == getIndicesOfValueRange(op.ctrls)
    IN  IF q \notin Range(t) \cup Range(c) THEN <<Wire>>
        ELSE Times(Count(t, q), GateCell(op)) \o Times(Count(c, q), Ctrl(q - t[1]))

\* Mutant: rows that only a control is on are filled as well.
GateCellsFillControls(op, q) ==
    LET t == getIndicesOfValueRange(op.tgts)
        c == getIndicesOfValueRange(op.ctrls)
    IN  IF q \notin Range(t) THEN <<Wire>> \o Times(Count(c, q), Ctrl(t[1] - q))
        ELSE Times(Count(t, q), GateCell(op)) \o Times(Count(c, q), Ctrl(t[1] - q))

\* Any other gate: a box for each target, and for each control a link to the first one
GateCells(op, q) ==
    LET t == getIndicesOfValueRange(op.tgts)
        c == getIndicesOfValueRange(op.ctrls)
    IN  IF q \notin Range(t) \cup Range(c) THEN <<Wire>>
        ELSE Times(Count(t, q), GateCell(op)) \o Times(Count(c, q), Ctrl(t[1] - q))

\* The cells an operation adds to row q
Cells(op, q) ==
    CASE isMeasurement(op) -> MeterCells(op, q)
      [] op.gate = "swap" -> SwapCells(op, q)
      [] isOperator(op) /\ op.gate # "swap" -> GateCells(op, q)
      [] OTHER -> <<>>                          \* of another dialect

\* quake operations that are neither gate nor measurement: the cast to a gate gives null
IsNullGate(op) == op.gate \in {"reset", "apply"}

-----------------------------------------------------------------------------

\* The rows of a function's diagram, one for each qubit it allocates
Rows(f) == 0 .. getNumberOfQubits(module[f]) - 1

Init ==
    /\ module \in Modules
    /\ threads \in ThreadCounts
    /\ curIndex = 0
    /\ active = {}
    /\ next = [f \in DOMAIN module |-> 1]
    /\ qubitTikz = [f \in DOMAIN module |-> [q \in Rows(f) |-> <<Lstick>>]]
    /\ written = [f \in DOMAIN module |-> 0]
    /\ outputStream = <<>>
    /\ crashed = FALSE

\* Mutant: the name is not looked at.
TakeAny ==
    /\ ~ crashed
    /\ curIndex < Len(module)
    /\ Cardinality(active) < threads
    /\ curIndex' = curIndex + 1
    /\ active' = active \cup {curIndex + 1}
    /\ UNCHANGED <<module, threads, next, qubitTikz, written, outputStream, crashed>>

\* A thread takes the next function, and is done with it at once if the name is not that
\* of a kernel.
Take ==
    /\ ~ crashed
    /\ curIndex < Len(module)
    /\ Cardinality(active) < threads
    /\ curIndex' = curIndex + 1
    /\ active' = IF module[curIndex + 1].prefixed THEN active \cup {curIndex + 1} ELSE active
    /\ UNCHANGED <<module, threads, next, qubitTikz, written, outputStream, crashed>>

\* The callback of the walk over a kernel: a column
dumpQuakeOperationToTikz(f) ==
    /\ ~ crashed
    /\ f \in active
    /\ next[f] \in DOMAIN module[f].ops
    /\ LET op == module[f].ops[next[f]]
       IN  IF IsNullGate(op)
           THEN crashed' = TRUE /\ UNCHANGED <<next, qubitTikz>>
           ELSE /\ qubitTikz' = [qubitTikz EXCEPT ![f] =
                                   [q \in Rows(f) |-> @[q] \o Cells(op, q)]]
                /\ next' = [next EXCEPT ![f] = @ + 1]
                /\ UNCHANGED crashed
    /\ UNCHANGED <<module, threads, curIndex, active, written, outputStream>>

\* The diagram of a function, in the pieces it is written in
Diagram(f) ==
    <<[of |-> f, piece |-> "begin"]>>
      \o [k \in 1 .. getNumberOfQubits(module[f]) |->
            [of |-> f, piece |-> "row", cells |-> qubitTikz[f][k - 1]]]
      \o <<[of |-> f, piece |-> "end"]>>

\* Mutant: the diagram is written without its end.
WriteUnended(f) ==
    /\ ~ crashed
    /\ f \in active
    /\ next[f] = Len(module[f].ops) + 1
    /\ outputStream' = Append(outputStream, Diagram(f)[written[f] + 1])
    /\ written' = [written EXCEPT ![f] = @ + 1]
    /\ active' = IF written'[f] = Len(Diagram(f)) - 1 THEN active \ {f} ELSE active
    /\ UNCHANGED <<module, threads, curIndex, next, qubitTikz, crashed>>

\* runOnOperation behind the walk: the next piece goes into the stream.
Write(f) ==
    /\ ~ crashed
    /\ f \in active
    /\ next[f] = Len(module[f].ops) + 1
    /\ outputStream' = Append(outputStream, Diagram(f)[written[f] + 1])
    /\ written' = [written EXCEPT ![f] = @ + 1]
    /\ active' = IF written'[f] = Len(Diagram(f)) THEN active \ {f} ELSE active
    /\ UNCHANGED <<module, threads, curIndex, next, qubitTikz, crashed>>

Next ==
    \/ Take
    \/ \E f \in DOMAIN module : dumpQuakeOperationToTikz(f) \/ Write(f)

Spec == Init /\ [][Next]_vars

-----------------------------------------------------------------------------

\* What a row and the stream are made of
CellTypes == [cell : {"lstick", "qw", "meter", "swap end"}]
               \cup [cell : {"swap", "ctrl"}, link : Int]
               \cup [cell : {"gate"}, gate : Gates, adj : BOOLEAN, parameters : Seq(Int)]
Pieces == [of : Nat, piece : {"begin", "end"}]
            \cup [of : Nat, piece : {"row"}, cells : Seq(CellTypes)]

\* Every variable has its type; a thread works on kernels only, and no more threads work
\* than there are.
TypeOK ==
    /\ module \in Modules /\ threads \in ThreadCounts
    /\ curIndex \in 0 .. Len(module)
    /\ active \subseteq {f \in 1 .. curIndex : module[f].prefixed}
    /\ Cardinality(active) <= threads
    /\ next \in [DOMAIN module -> Nat] /\ written \in [DOMAIN module -> Nat]
    /\ DOMAIN qubitTikz = DOMAIN module
    /\ \A f \in DOMAIN module : /\ next[f] \in 1 .. Len(module[f].ops) + 1
                                /\ written[f] <= getNumberOfQubits(module[f]) + 2
                                /\ qubitTikz[f] \in [Rows(f) -> Seq(CellTypes)]
    /\ outputStream \in Seq(Pieces)
    /\ crashed \in BOOLEAN

\* What a diagram can show: one register, since a row is an index, and no swap under a
\* control, since the control gets no cell.
IsDrawable(f) ==
    /\ Len(module[f].allocs) <= 1
    /\ \A k \in DOMAIN module[f].ops :
         module[f].ops[k].gate = "swap" => module[f].ops[k].ctrls = <<>>

\* The operations before the k-th that have a column, and those that have one so far
DrawnBefore(f, k) ==
    {j \in 1 .. k - 1 : isOperator(module[f].ops[j]) \/ isMeasurement(module[f].ops[j])}
Drawn(f) == DrawnBefore(f, next[f])

\* The cell of row q in the column of operation k, which is behind the label of the row
\* and the columns before
Cell(f, q, k) == qubitTikz[f][q][Cardinality(DrawnBefore(f, k)) + 2]

\* The rows are equally long whenever an operation has been drawn, one cell for each
\* operation: LaTeX puts cells into columns by counting them.
ColumnsAlign ==
    \A f \in DOMAIN module : IsDrawable(f) =>
      \A q \in Rows(f) : Len(qubitTikz[f][q]) = 1 + Cardinality(Drawn(f))

\* Each link leads to the other end in its column: a control to a box, a swap to a swap end.
LinksMeet ==
    \A f \in DOMAIN module : IsDrawable(f) =>
      \A q \in Rows(f), k \in Drawn(f) :
        /\ Cell(f, q, k).cell = "ctrl" =>
             q + Cell(f, q, k).link \in Rows(f) /\ Cell(f, q + Cell(f, q, k).link, k).cell = "gate"
        /\ Cell(f, q, k).cell = "swap" =>
             q + Cell(f, q, k).link \in Rows(f) /\ Cell(f, q + Cell(f, q, k).link, k) = SwapEnd

\* The rows that have a cell of some kinds in the column of operation k
RowsWith(f, k, kinds) == {q \in Rows(f) : Cell(f, q, k).cell \in kinds}

\* Each operation can be read off its column: its targets, its controls, what it measures.
DiagramShowsKernel ==
    \A f \in DOMAIN module : IsDrawable(f) =>
      \A k \in Drawn(f) :
        LET op == module[f].ops[k]
            targets == Range(getIndicesOfValueRange(op.tgts))
            controls == Range(getIndicesOfValueRange(op.ctrls))
        IN  /\ RowsWith(f, k, {"ctrl"}) = IF isOperator(op) THEN controls ELSE {}
            /\ RowsWith(f, k, {"gate", "swap", "swap end"}) = IF isOperator(op) THEN targets ELSE {}
            /\ RowsWith(f, k, {"meter"}) = IF isOperator(op) THEN {}
                                           ELSE IF Whole \in targets THEN Rows(f) ELSE targets
            /\ \A q \in RowsWith(f, k, {"gate"}) : Cell(f, q, k) = GateCell(op)

KernelsOfModule == {f \in DOMAIN module : module[f].prefixed}

\* The stream holds one whole diagram after the other, the last one perhaps begun, when
\* one thread writes or only one kernel is written.
OneDiagramAfterTheOther ==
    threads = 1 \/ Cardinality(KernelsOfModule) <= 1 =>
      \A k \in DOMAIN outputStream :
        /\ outputStream[k].piece # "begin" => k > 1 /\ outputStream[k - 1].of = outputStream[k].of
        /\ outputStream[k].piece = "begin" => k = 1 \/ outputStream[k - 1].piece = "end"

\* The places of the first k pieces of the stream that are of function f
PiecesOf(f, k) == {j \in DOMAIN outputStream : j <= k /\ outputStream[j].of = f}

\* When the pass has come to its end, each kernel's diagram is in the stream once, piece
\* by piece in its order, and nothing else is, whatever the threads.
EveryKernelOnce ==
    curIndex = Len(module) /\ active = {} =>
      /\ \A k \in DOMAIN outputStream :
           LET f == outputStream[k].of
           IN  /\ f \in KernelsOfModule
               /\ outputStream[k] = Diagram(f)[Cardinality(PiecesOf(f, k))]
      /\ \A f \in KernelsOfModule :
           Cardinality(PiecesOf(f, Len(outputStream))) = Len(Diagram(f))
=============================================================================
