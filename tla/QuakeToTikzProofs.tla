-------------------------- MODULE QuakeToTikzProofs --------------------------
(***************************************************************************)
(* What a diagram shows, for every module and every number of threads: the *)
(* rows stay in columns, each column is that of its operation, and the     *)
(* stream holds the diagram of each kernel once, whole and in order.       *)
(***************************************************************************)
EXTENDS QuakeToTikz, PassLemmas

-----------------------------------------------------------------------------
(* The invariant *)

HasValue(s, q) == \E i \in DOMAIN s : s[i] = q

\* The one cell an operation adds to row q
TheCell(op, q) ==
    LET t == getIndicesOfValueRange(op.tgts)
        c == getIndicesOfValueRange(op.ctrls)
    IN  IF isMeasurement(op)
        THEN IF HasValue(t, q) \/ HasValue(t, Whole) THEN Meter ELSE Wire
        ELSE IF op.gate = "swap"
             THEN IF q = t[1] THEN SwapTo(t[2] - t[1]) ELSE IF q = t[2] THEN SwapEnd ELSE Wire
             ELSE IF HasValue(t, q) THEN GateCell(op)
                  ELSE IF HasValue(c, q) THEN Ctrl(t[1] - q) ELSE Wire

\* Every column is the one of its operation.
ColumnsOfOperations ==
    \A f \in DOMAIN module : IsDrawable(f) =>
      \A q \in Rows(f), k \in Drawn(f) : Cell(f, q, k) = TheCell(module[f].ops[k], q)

\* How far the diagram of each function is: nothing is written before the walk is over.
Progress ==
    \A f \in DOMAIN module :
      /\ written[f] > 0 => /\ next[f] = Len(module[f].ops) + 1
                           /\ module[f].prefixed /\ f <= curIndex
      /\ f \in active => written[f] < getNumberOfQubits(module[f]) + 2
      /\ module[f].prefixed /\ f <= curIndex /\ f \notin active =>
           written[f] = getNumberOfQubits(module[f]) + 2

\* The pieces of each diagram are in the stream in their order, as many as were written.
PiecesInOrder ==
    /\ \A k \in DOMAIN outputStream :
         LET f == outputStream[k].of
         IN  /\ f \in KernelsOfModule /\ written[f] > 0
             /\ outputStream[k] = Diagram(f)[Cardinality(PiecesOf(f, k))]
    /\ \A f \in DOMAIN module : Cardinality(PiecesOf(f, Len(outputStream))) = written[f]

\* With one diagram at a time, the stream ends with an end or with the one begun.
OneAtATime == threads = 1 \/ Cardinality(KernelsOfModule) <= 1

LastPiece ==
    OneAtATime =>
      /\ outputStream # <<>> =>
           \/ outputStream[Len(outputStream)].piece = "end"
           \/ outputStream[Len(outputStream)].of \in active
      /\ \A f \in active : written[f] > 0 =>
           outputStream # <<>> /\ outputStream[Len(outputStream)].of = f

IInv ==
    /\ TypeOK
    /\ ColumnsAlign
    /\ ColumnsOfOperations
    /\ Progress
    /\ PiecesInOrder
    /\ LastPiece
    /\ OneDiagramAfterTheOther

-----------------------------------------------------------------------------
(* Counting and sequences *)

LEMMA OneMoreCell ==
    ASSUME NEW T, NEW s \in Seq(T), NEW x \in T
    PROVE  LET r == s \o <<x>>
           IN  /\ r \in Seq(T)
               /\ Len(r) = Len(s) + 1
               /\ \A i \in 1 .. Len(s) : r[i] = s[i]
               /\ r[Len(s) + 1] = x
OBVIOUS

LEMMA TimesAreCells ==
    ASSUME NEW T, NEW c \in T, NEW n \in Nat
    PROVE  Times(n, c) \in Seq(T)
BY DEF Times

LEMMA TimesOnce ==
    ASSUME NEW c
    PROVE  Times(0, c) = <<>> /\ Times(1, c) = <<c>>
BY DEF Times

LEMMA CountIsNatural ==
    ASSUME NEW s, NEW n \in Nat, DOMAIN s = 1 .. n, NEW q
    PROVE  Count(s, q) \in Nat
<1>1. {k \in DOMAIN s : s[k] = q} \subseteq 1 .. n
    OBVIOUS
<1>2. IsFiniteSet(1 .. n)
    BY FS_Interval
<1>3. IsFiniteSet({k \in DOMAIN s : s[k] = q})
    BY <1>1, <1>2, FS_Subset
<1> QED BY <1>3, FS_CardinalityType DEF Count

\* What is in a sequence without repetitions is in it once.
LEMMA CountOnce ==
    ASSUME NEW s, NEW q, \A i, j \in DOMAIN s : s[i] = s[j] => i = j
    PROVE  Count(s, q) = IF HasValue(s, q) THEN 1 ELSE 0
<1>1. CASE HasValue(s, q)
    <2>1. PICK i \in DOMAIN s : s[i] = q
        BY <1>1 DEF HasValue
    <2>2. {k \in DOMAIN s : s[k] = q} = {i}
        BY <2>1
    <2> QED BY <1>1, <2>2, FS_Singleton DEF Count
<1>2. CASE ~ HasValue(s, q)
    <2>1. {k \in DOMAIN s : s[k] = q} = {}
        BY <1>2 DEF HasValue
    <2> QED BY <1>2, <2>1, FS_EmptySet DEF Count
<1> QED BY <1>1, <1>2

LEMMA RangeHasValue ==
    ASSUME NEW s, NEW q
    PROVE  q \in Range(s) <=> HasValue(s, q)
BY DEF Range, HasValue

-----------------------------------------------------------------------------
(* What the assumptions say of an operation *)

LEMMA Operations ==
    ASSUME module \in Modules, NEW f \in DOMAIN module
    PROVE  /\ DOMAIN module = 1 .. Len(module) /\ Len(module) \in Nat
           /\ module[f].prefixed \in BOOLEAN
           /\ module[f].ops \in Seq(Op)
           /\ getNumberOfQubits(module[f]) \in Nat
<1>1. module \in Seq(Function) /\ getNumberOfQubits(module[f]) \in Nat
    BY QuakeToTikzAssumption
<1>2. module[f] \in Function
    BY <1>1
<1> QED BY <1>1, <1>2 DEF Function

\* The gates, the measurements and the rest are told apart by their names.
LEMMA Kinds ==
    ASSUME NEW op \in Op
    PROVE  /\ op.tgts \in Seq(Wires) /\ op.ctrls \in Seq(Wires)
           /\ op.params \in Seq(Params) /\ op.adj \in BOOLEAN
           /\ isOperator(op) => op.gate \in Gates /\ ~ isMeasurement(op)
           /\ op.gate = "swap" => isOperator(op)
BY DEF Op, isOperator, isMeasurement, Measurements, Gates, NonGates

LEMMA Indices ==
    ASSUME NEW ws \in Seq(Wires)
    PROVE  /\ getIndicesOfValueRange(ws) \in Seq(Int)
           /\ Len(getIndicesOfValueRange(ws)) = Len(ws)
           /\ DOMAIN getIndicesOfValueRange(ws) = 1 .. Len(ws)
           /\ DOMAIN ws = 1 .. Len(ws) /\ Len(ws) \in Nat
           /\ \A i \in 1 .. Len(ws) : getIndicesOfValueRange(ws)[i] = ws[i].idx
<1>1. \A i \in 1 .. Len(ws) : ws[i].idx \in Int
    BY QuakeOpsAssumption
<1> QED BY <1>1 DEF getIndicesOfValueRange, extractIndexFromQuakeExtractRefOp

LEMMA AngleValues ==
    ASSUME NEW ps \in Seq(Params)
    PROVE  getParametersValues(ps) \in Seq(Int)
<1>1. ASSUME NEW p \in Params PROVE extractDoubleArgumentValue(p) \in Int
    <2>1. p.constant \in BOOLEAN /\ p.ticks \in Int
        BY DEF Params
    <2> QED BY <2>1 DEF extractDoubleArgumentValue, AsFloat, MinusOneRadian, FullTurn
<1>2. \A i \in 1 .. Len(ps) : extractDoubleArgumentValue(ps[i]) \in Int
    BY <1>1
<1> QED BY <1>2 DEF getParametersValues

\* The operands of an operation: what the assumptions ask of each
LEMMA Operands ==
    ASSUME module \in Modules, NEW f \in DOMAIN module, NEW k \in DOMAIN module[f].ops
    PROVE  LET op == module[f].ops[k]
               t == getIndicesOfValueRange(op.tgts)
               c == getIndicesOfValueRange(op.ctrls)
           IN  /\ op \in Op
               /\ \A i \in DOMAIN t : t[i] \in Rows(f) \/ (isMeasurement(op) /\ t[i] = Whole)
               /\ isOperator(op) => /\ Len(t) > 0 /\ \A i \in DOMAIN t : t[i] \in Rows(f)
                                    /\ \A i \in DOMAIN c : c[i] \in Rows(f)
               /\ op.gate = "swap" => Len(t) = 2
<1> DEFINE op == module[f].ops[k]
           t == getIndicesOfValueRange(op.tgts)
           c == getIndicesOfValueRange(op.ctrls)
<1>1. op \in Op
    BY Operations
<1>2. /\ \A w \in Range(op.ctrls) \cup Range(op.tgts) :
           w.idx \in Rows(f) \/ (isMeasurement(op) /\ IsVeq(w))
      /\ isOperator(op) => op.tgts # <<>>
      /\ op.gate = "swap" => Len(op.tgts) = 2
    BY QuakeToTikzAssumption DEF Rows
<1>3. op.tgts \in Seq(Wires) /\ op.ctrls \in Seq(Wires)
    BY <1>1, Kinds
<1>4. \A i \in 1 .. Len(op.tgts) : op.tgts[i] \in Range(op.tgts)
    BY <1>3 DEF Range
<1>5. \A i \in 1 .. Len(op.ctrls) : op.ctrls[i] \in Range(op.ctrls)
    BY <1>3 DEF Range
<1>6. isOperator(op) => ~ isMeasurement(op)
    BY <1>1, Kinds
<1>7. isOperator(op) => Len(op.tgts) > 0
    BY <1>2, <1>3
<1>8. /\ DOMAIN t = 1 .. Len(op.tgts) /\ Len(t) = Len(op.tgts)
      /\ \A i \in DOMAIN t : t[i] = op.tgts[i].idx
    BY <1>3, Indices
<1>9. /\ DOMAIN c = 1 .. Len(op.ctrls)
      /\ \A i \in DOMAIN c : c[i] = op.ctrls[i].idx
    BY <1>3, Indices
<1> HIDE DEF op, t, c
<1>10. \A i \in DOMAIN t : t[i] \in Rows(f) \/ (isMeasurement(op) /\ t[i] = Whole)
    BY <1>2, <1>4, <1>8 DEF IsVeq
<1>11. isOperator(op) => \A i \in DOMAIN c : c[i] \in Rows(f)
    BY <1>2, <1>5, <1>6, <1>9
<1> QED BY <1>1, <1>2, <1>6, <1>7, <1>8, <1>10, <1>11 DEF op, t, c

\* In a function that can be drawn the operands have different indices.
LEMMA DistinctOperands ==
    ASSUME module \in Modules, NEW f \in DOMAIN module, NEW k \in DOMAIN module[f].ops,
           IsDrawable(f)
    PROVE  LET op == module[f].ops[k]
               t == getIndicesOfValueRange(op.tgts)
               c == getIndicesOfValueRange(op.ctrls)
           IN  /\ \A i, j \in DOMAIN t : t[i] = t[j] => i = j
               /\ \A i, j \in DOMAIN c : c[i] = c[j] => i = j
               /\ \A i \in DOMAIN t : /\ \A j \in DOMAIN c : c[j] # t[i]
                                      /\ t[i] = Whole => Len(t) = 1
               /\ op.gate = "swap" => DOMAIN c = {}
<1> DEFINE op == module[f].ops[k]
           t == getIndicesOfValueRange(op.tgts)
           c == getIndicesOfValueRange(op.ctrls)
<1>1. op.tgts \in Seq(Wires) /\ op.ctrls \in Seq(Wires)
    BY Operands, Kinds
<1>2. /\ \A i, j \in DOMAIN op.tgts : op.tgts[i].idx = op.tgts[j].idx => i = j
      /\ \A i, j \in DOMAIN op.ctrls : op.ctrls[i].idx = op.ctrls[j].idx => i = j
      /\ \A i \in DOMAIN op.tgts : /\ \A j \in DOMAIN op.ctrls : op.ctrls[j].idx # op.tgts[i].idx
                                   /\ op.tgts[i].idx = Whole => Len(op.tgts) = 1
    BY OneRegisterAssumption DEF IsDrawable, IsVeq
<1>3. op.gate = "swap" => op.ctrls = <<>>
    BY DEF IsDrawable
<1>4. /\ DOMAIN t = 1 .. Len(op.tgts) /\ Len(t) = Len(op.tgts)
      /\ DOMAIN op.tgts = 1 .. Len(op.tgts)
      /\ \A i \in DOMAIN t : t[i] = op.tgts[i].idx
    BY <1>1, Indices
<1>5. /\ DOMAIN c = 1 .. Len(op.ctrls) /\ DOMAIN op.ctrls = 1 .. Len(op.ctrls)
      /\ \A i \in DOMAIN c : c[i] = op.ctrls[i].idx
      /\ c \in Seq(Int) /\ Len(c) = Len(op.ctrls)
    BY <1>1, Indices
<1>6. op.gate = "swap" => DOMAIN c = {}
    BY <1>3, <1>5
<1>7. /\ \A i, j \in DOMAIN t : t[i] = t[j] => i = j
      /\ \A i, j \in DOMAIN c : c[i] = c[j] => i = j
    <2> HIDE DEF op, t, c
    <2> QED BY <1>2, <1>4, <1>5
<1>8. \A i \in DOMAIN t : /\ \A j \in DOMAIN c : c[j] # t[i]
                          /\ t[i] = Whole => Len(t) = 1
    <2> HIDE DEF op, t, c
    <2> QED BY <1>2, <1>4, <1>5
<1> QED BY <1>6, <1>7, <1>8

-----------------------------------------------------------------------------
(* The cells of an operation *)

LEMMA CellsHaveTypes ==
    ASSUME NEW op \in Op, NEW d \in Int
    PROVE  /\ Wire \in CellTypes /\ Meter \in CellTypes /\ SwapEnd \in CellTypes
           /\ Lstick \in CellTypes
           /\ SwapTo(d) \in CellTypes /\ Ctrl(d) \in CellTypes
           /\ isOperator(op) => GateCell(op) \in CellTypes
<1>1. Wire \in CellTypes /\ Meter \in CellTypes /\ SwapEnd \in CellTypes /\ Lstick \in CellTypes
    BY DEF CellTypes, Wire, Meter, SwapEnd, Lstick
<1>2. SwapTo(d) \in CellTypes /\ Ctrl(d) \in CellTypes
    BY DEF CellTypes, SwapTo, Ctrl
<1>3. ASSUME isOperator(op) PROVE GateCell(op) \in CellTypes
    <2>1. op.gate \in Gates /\ op.adj \in BOOLEAN /\ getParametersValues(op.params) \in Seq(Int)
        BY <1>3, Kinds, AngleValues
    <2> QED BY <2>1 DEF CellTypes, GateCell
<1> QED BY <1>1, <1>2, <1>3

\* What is no gate and no measurement adds nothing.
LEMMA OthersAddNothing ==
    ASSUME NEW op \in Op, NEW q, ~ isOperator(op), ~ isMeasurement(op)
    PROVE  Cells(op, q) = <<>>
<1>1. op.gate # "swap"
    BY Kinds
<1> QED BY <1>1 DEF Cells

\* In any function, two registers or not, an operation adds cells to a row.
LEMMA CellsAreCells ==
    ASSUME module \in Modules, NEW f \in DOMAIN module, NEW k \in DOMAIN module[f].ops,
           NEW op, op = module[f].ops[k], NEW q \in Rows(f)
    PROVE  Cells(op, q) \in Seq(CellTypes)
<1> DEFINE t == getIndicesOfValueRange(op.tgts)
           c == getIndicesOfValueRange(op.ctrls)
<1>1. op \in Op /\ q \in Int
    BY Operands, Operations DEF Rows
<1>2. op.tgts \in Seq(Wires) /\ op.ctrls \in Seq(Wires)
    BY <1>1, Kinds
<1>3. /\ t \in Seq(Int) /\ DOMAIN t = 1 .. Len(op.tgts) /\ Len(op.tgts) \in Nat
      /\ c \in Seq(Int) /\ DOMAIN c = 1 .. Len(op.ctrls) /\ Len(op.ctrls) \in Nat
    BY <1>2, Indices
<1>4. Count(t, q) \in Nat /\ Count(c, q) \in Nat
    BY <1>3, CountIsNatural
<1>5. <<>> \in Seq(CellTypes) /\ <<Wire>> \in Seq(CellTypes)
    BY <1>1, CellsHaveTypes
<1>6. CASE isMeasurement(op)
    <2> DEFINE meters == Count(t, q) + Cardinality({j \in DOMAIN op.tgts : IsVeq(op.tgts[j])})
    <2>1. {j \in DOMAIN op.tgts : IsVeq(op.tgts[j])} \subseteq 1 .. Len(op.tgts)
        BY <1>2
    <2>2. IsFiniteSet(1 .. Len(op.tgts))
        <3>1. Len(op.tgts) \in Int /\ 1 \in Int
            BY <1>2
        <3> QED BY <3>1, FS_Interval
    <2>3. IsFiniteSet({j \in DOMAIN op.tgts : IsVeq(op.tgts[j])})
        BY <2>1, <2>2, FS_Subset
    <2>4. meters \in Nat
        BY <1>4, <2>3, FS_CardinalityType
    <2>5. Times(meters, Meter) \in Seq(CellTypes)
        <3>1. Meter \in CellTypes
            BY <1>1, CellsHaveTypes
        <3>2. \A n \in Nat : Times(n, Meter) \in Seq(CellTypes)
            BY <3>1, TimesAreCells
        <3> QED BY <2>4, <3>2
    <2>6. Cells(op, q) = MeterCells(op, q)
        BY <1>1, <1>6, Kinds DEF Cells
    <2>7. MeterCells(op, q) \in {Times(meters, Meter), <<Wire>>}
        BY DEF MeterCells
    <2> HIDE DEF meters
    <2> QED BY <1>5, <2>5, <2>6, <2>7
<1>7. CASE ~ isMeasurement(op) /\ op.gate = "swap"
    <2>1. Len(t) = 2
        BY <1>7, Operands
    <2>2. t[1] \in Int /\ t[2] \in Int
        BY <1>3, <2>1
    <2>3. SwapTo(t[2] - t[1]) \in CellTypes /\ SwapEnd \in CellTypes
        BY <1>1, <2>2, CellsHaveTypes
    <2> DEFINE a == IF q = t[1] THEN <<SwapTo(t[2] - t[1])>> ELSE <<>>
               b == IF q = t[2] THEN <<SwapEnd>> ELSE <<>>
    <2>4. a \in Seq(CellTypes) /\ b \in Seq(CellTypes)
        BY <2>3
    <2>5. a \o b \in Seq(CellTypes)
        <3> HIDE DEF a, b
        <3> QED BY <2>4
    <2>6. Cells(op, q) = SwapCells(op, q)
        BY <1>7 DEF Cells
    <2>7. SwapCells(op, q) \in {a \o b, <<>>, <<Wire>>}
        BY DEF SwapCells
    <2> HIDE DEF a, b
    <2> QED BY <1>5, <2>5, <2>6, <2>7
<1>8. CASE ~ isMeasurement(op) /\ op.gate # "swap" /\ isOperator(op)
    <2>1. Len(t) > 0
        BY <1>8, Operands
    <2>2. t[1] \in Int
        BY <1>3, <2>1
    <2>3. GateCell(op) \in CellTypes /\ Ctrl(t[1] - q) \in CellTypes
        BY <1>1, <1>8, <2>2, CellsHaveTypes
    <2> DEFINE a == Times(Count(t, q), GateCell(op))
               b == Times(Count(c, q), Ctrl(t[1] - q))
    <2>4. a \in Seq(CellTypes) /\ b \in Seq(CellTypes)
        BY <1>4, <2>3, TimesAreCells
    <2>5. a \o b \in Seq(CellTypes)
        <3> HIDE DEF a, b
        <3> QED BY <2>4
    <2>6. Cells(op, q) = GateCells(op, q)
        BY <1>8 DEF Cells
    <2>7. GateCells(op, q) \in {a \o b, <<Wire>>}
        BY DEF GateCells
    <2> HIDE DEF a, b
    <2> QED BY <1>5, <2>5, <2>6, <2>7
<1>9. CASE ~ isMeasurement(op) /\ op.gate # "swap" /\ ~ isOperator(op)
    BY <1>5, <1>9 DEF Cells
<1> QED BY <1>6, <1>7, <1>8, <1>9

\* In a function that can be drawn an operation adds one cell to each row.
LEMMA CellsAreTheCell ==
    ASSUME module \in Modules, NEW f \in DOMAIN module, NEW k \in DOMAIN module[f].ops,
           IsDrawable(f), NEW op, op = module[f].ops[k], NEW q \in Rows(f),
           isOperator(op) \/ isMeasurement(op)
    PROVE  Cells(op, q) = <<TheCell(op, q)>> /\ TheCell(op, q) \in CellTypes
<1> DEFINE t == getIndicesOfValueRange(op.tgts)
           c == getIndicesOfValueRange(op.ctrls)
<1>1. op \in Op /\ q \in Nat
    BY Operands, Operations DEF Rows
<1>2. op.tgts \in Seq(Wires) /\ op.ctrls \in Seq(Wires)
    BY <1>1, Kinds
<1>3. /\ t \in Seq(Int) /\ DOMAIN t = 1 .. Len(t) /\ Len(t) = Len(op.tgts) /\ Len(t) \in Nat
      /\ DOMAIN op.tgts = DOMAIN t
      /\ \A i \in DOMAIN t : t[i] = op.tgts[i].idx /\ t[i] \in Int
      /\ c \in Seq(Int)
    <2>1. t \in Seq(Int) => \A i \in DOMAIN t : t[i] \in Int
        <3> HIDE DEF t
        <3> QED OBVIOUS
    <2> QED BY <1>2, <2>1, Indices
<1>4. /\ \A i, j \in DOMAIN t : t[i] = t[j] => i = j
      /\ \A i, j \in DOMAIN c : c[i] = c[j] => i = j
      /\ \A i \in DOMAIN t : /\ \A j \in DOMAIN c : c[j] # t[i]
                             /\ t[i] = Whole => Len(t) = 1
      /\ op.gate = "swap" => DOMAIN c = {}
    <2>1. \A i, j \in DOMAIN t : t[i] = t[j] => i = j
        BY DistinctOperands
    <2>2. \A i, j \in DOMAIN c : c[i] = c[j] => i = j
        BY DistinctOperands
    <2>3. /\ \A i \in DOMAIN t : /\ \A j \in DOMAIN c : c[j] # t[i]
                                 /\ t[i] = Whole => Len(t) = 1
          /\ op.gate = "swap" => DOMAIN c = {}
        BY DistinctOperands
    <2> QED BY <2>1, <2>2, <2>3
<1>5. /\ Count(t, q) = IF HasValue(t, q) THEN 1 ELSE 0
      /\ Count(c, q) = IF HasValue(c, q) THEN 1 ELSE 0
      /\ ~ (HasValue(t, q) /\ HasValue(c, q))
    <2> HIDE DEF t, c
    <2>1. Count(t, q) = IF HasValue(t, q) THEN 1 ELSE 0
        BY <1>4, CountOnce
    <2>2. Count(c, q) = IF HasValue(c, q) THEN 1 ELSE 0
        BY <1>4, CountOnce
    <2> QED BY <1>4, <2>1, <2>2 DEF HasValue
<1>6. (q \in Range(t) <=> HasValue(t, q)) /\ (q \in Range(c) <=> HasValue(c, q))
    BY RangeHasValue
<1>7. isOperator(op) => t[1] \in Int /\ GateCell(op) \in CellTypes /\ ~ isMeasurement(op)
    <2>1. isOperator(op) => Len(t) > 0
        BY Operands
    <2>2. isOperator(op) => t[1] \in Int
        <3> HIDE DEF t
        <3> QED BY <1>3, <2>1
    <2>3. isOperator(op) => GateCell(op) \in CellTypes
        BY <1>1, CellsHaveTypes
    <2> QED BY <1>1, <2>2, <2>3, Kinds
<1>8. CASE isMeasurement(op)
    <2> DEFINE whole == {j \in DOMAIN op.tgts : IsVeq(op.tgts[j])}
               meters == Count(t, q) + Cardinality(whole)
    <2>1. Cells(op, q) = MeterCells(op, q)
        BY <1>1, <1>8, Kinds DEF Cells
    <2>2. MeterCells(op, q) = IF meters = 0 THEN <<Wire>> ELSE Times(meters, Meter)
        BY DEF MeterCells
    <2>3. Cardinality(whole) = IF HasValue(t, Whole) THEN 1 ELSE 0
        <3>1. whole = {j \in DOMAIN t : t[j] = Whole}
            BY <1>3 DEF IsVeq
        <3>2. Cardinality(whole) = Count(t, Whole)
            BY <3>1 DEF Count
        <3> HIDE DEF t, whole
        <3> QED BY <1>4, <3>2, CountOnce
    <2>4. ~ (HasValue(t, q) /\ HasValue(t, Whole))
        <3> SUFFICES ASSUME NEW i \in DOMAIN t, t[i] = q, NEW j \in DOMAIN t, t[j] = Whole
                     PROVE  FALSE
            BY DEF HasValue
        <3>1. Len(t) = 1
            BY <1>4
        <3> HIDE DEF t
        <3>2. i = j
            BY <1>3, <3>1
        <3> QED BY <1>1, <3>2 DEF Whole
    <2>5. meters = IF HasValue(t, q) \/ HasValue(t, Whole) THEN 1 ELSE 0
        <3> HIDE DEF t, whole
        <3> QED BY <1>5, <2>3, <2>4
    <2>6. MeterCells(op, q) = IF HasValue(t, q) \/ HasValue(t, Whole) THEN <<Meter>> ELSE <<Wire>>
        <3> HIDE DEF meters, t
        <3> QED BY <2>2, <2>5, TimesOnce
    <2>7. TheCell(op, q) = IF HasValue(t, q) \/ HasValue(t, Whole) THEN Meter ELSE Wire
        BY <1>8 DEF TheCell
    <2> HIDE DEF t
    <2> QED BY <1>1, <2>1, <2>6, <2>7, CellsHaveTypes
<1>9. CASE op.gate = "swap"
    <2>1. isOperator(op) /\ ~ isMeasurement(op)
        BY <1>1, <1>9, Kinds
    <2>2. Len(t) = 2 /\ t[1] \in Int /\ t[2] \in Int /\ t[1] # t[2]
        <3>1. Len(t) = 2
            BY <1>9, Operands
        <3>2. \A i, j \in DOMAIN t : t[i] = t[j] => i = j
            BY <1>4
        <3> HIDE DEF t
        <3>3. 1 \in DOMAIN t /\ 2 \in DOMAIN t
            BY <1>3, <3>1
        <3>4. t[1] # t[2]
            BY <3>2, <3>3
        <3> QED BY <1>3, <3>1, <3>3, <3>4
    <2>3. HasValue(t, q) <=> q = t[1] \/ q = t[2]
        <3> HIDE DEF t
        <3> QED BY <1>3, <2>2 DEF HasValue
    <2>4. ~ HasValue(c, q)
        BY <1>4, <1>9 DEF HasValue
    <2>5. Cells(op, q) = SwapCells(op, q)
        BY <1>9, <2>1 DEF Cells
    <2>6. SwapCells(op, q) =
            CASE q \in Range(t) -> (IF q = t[1] THEN <<SwapTo(t[2] - t[1])>> ELSE <<>>)
                                     \o (IF q = t[2] THEN <<SwapEnd>> ELSE <<>>)
              [] q \notin Range(t) /\ q \in Range(c) -> <<>>
              [] OTHER -> <<Wire>>
        BY DEF SwapCells
    <2>7. TheCell(op, q) =
            IF q = t[1] THEN SwapTo(t[2] - t[1]) ELSE IF q = t[2] THEN SwapEnd ELSE Wire
        BY <1>9, <2>1 DEF TheCell
    <2>8. SwapTo(t[2] - t[1]) \in CellTypes /\ SwapEnd \in CellTypes /\ Wire \in CellTypes
        BY <1>1, <2>2, CellsHaveTypes
    <2>9. \A x \in CellTypes : <<x>> \o <<>> = <<x>> /\ <<>> \o <<x>> = <<x>>
        OBVIOUS
    <2> HIDE DEF t, c
    <2>10. SwapCells(op, q) =
             IF q = t[1] THEN <<SwapTo(t[2] - t[1])>> ELSE IF q = t[2] THEN <<SwapEnd>> ELSE <<Wire>>
        BY <1>6, <2>2, <2>3, <2>4, <2>6, <2>8, <2>9
    <2> QED BY <2>5, <2>7, <2>8, <2>10
<1>10. CASE isOperator(op) /\ op.gate # "swap"
    <2>1. ~ isMeasurement(op)
        BY <1>7, <1>10
    <2>2. Cells(op, q) = GateCells(op, q)
        BY <1>10, <2>1 DEF Cells
    <2>3. GateCells(op, q) =
            IF q \notin Range(t) \cup Range(c) THEN <<Wire>>
            ELSE Times(Count(t, q), GateCell(op)) \o Times(Count(c, q), Ctrl(t[1] - q))
        BY DEF GateCells
    <2>4. TheCell(op, q) = IF HasValue(t, q) THEN GateCell(op)
                           ELSE IF HasValue(c, q) THEN Ctrl(t[1] - q) ELSE Wire
        BY <1>10, <2>1 DEF TheCell
    <2>5. t[1] \in Int /\ GateCell(op) \in CellTypes
        BY <1>7, <1>10
    <2>6. Ctrl(t[1] - q) \in CellTypes /\ Wire \in CellTypes
        BY <1>1, <2>5, CellsHaveTypes
    <2>7. \A x \in CellTypes : <<x>> \o <<>> = <<x>> /\ <<>> \o <<x>> = <<x>>
        OBVIOUS
    <2> HIDE DEF t, c
    <2>8. /\ Times(Count(t, q), GateCell(op)) = IF HasValue(t, q) THEN <<GateCell(op)>> ELSE <<>>
          /\ Times(Count(c, q), Ctrl(t[1] - q)) = IF HasValue(c, q) THEN <<Ctrl(t[1] - q)>> ELSE <<>>
        BY <1>5, TimesOnce
    <2>9. GateCells(op, q) = IF HasValue(t, q) THEN <<GateCell(op)>>
                             ELSE IF HasValue(c, q) THEN <<Ctrl(t[1] - q)>> ELSE <<Wire>>
        BY <1>5, <1>6, <2>3, <2>5, <2>6, <2>7, <2>8
    <2> QED BY <2>2, <2>4, <2>5, <2>6, <2>9
<1> QED BY <1>8, <1>9, <1>10

-----------------------------------------------------------------------------
(* Columns *)

IsDrawn(op) == isOperator(op) \/ isMeasurement(op)
DrawnOf(f) == {j \in Nat \ {0} : IsDrawn(module[f].ops[j])}

LEMMA DrawnIsBelow ==
    ASSUME NEW f, NEW k \in Nat
    PROVE  DrawnBefore(f, k) = Below(DrawnOf(f), k)
BY DEF DrawnBefore, DrawnOf, IsDrawn, Below

\* Passing an operation that is drawn counts a column more; the columns of the operations
\* before it are before its own.
LEMMA OneMoreColumn ==
    ASSUME NEW f, NEW k \in Nat \ {0}
    PROVE  /\ Cardinality(DrawnBefore(f, k)) \in Nat
           /\ IsDrawn(module[f].ops[k]) =>
                /\ DrawnBefore(f, k + 1) = DrawnBefore(f, k) \cup {k}
                /\ Cardinality(DrawnBefore(f, k + 1)) = Cardinality(DrawnBefore(f, k)) + 1
           /\ ~ IsDrawn(module[f].ops[k]) => DrawnBefore(f, k + 1) = DrawnBefore(f, k)
           /\ \A j \in DrawnBefore(f, k) :
                /\ j \in Nat /\ Cardinality(DrawnBefore(f, j)) \in Nat
                /\ Cardinality(DrawnBefore(f, j)) < Cardinality(DrawnBefore(f, k))
<1> DEFINE S == DrawnOf(f)
<1>1. \A j \in S : j \in Nat /\ j > 0
    BY DEF DrawnOf
<1>2. k \in S <=> IsDrawn(module[f].ops[k])
    BY DEF DrawnOf
<1>3. \A j \in Nat : Cardinality(DrawnBefore(f, j)) = CountBelow(S, j) /\ CountBelow(S, j) \in Nat
    BY <1>1, DrawnIsBelow, CountBelowIsNatural DEF CountBelow
<1>4. CountBelow(S, k + 1) = IF k \in S THEN CountBelow(S, k) + 1 ELSE CountBelow(S, k)
    <2> HIDE DEF S
    <2> QED BY <1>1, CountBelowNext
<1>5. ASSUME NEW j \in DrawnBefore(f, k)
      PROVE  /\ j \in Nat /\ Cardinality(DrawnBefore(f, j)) \in Nat
             /\ Cardinality(DrawnBefore(f, j)) < Cardinality(DrawnBefore(f, k))
    <2>1. j \in S /\ j \in Nat /\ j < k
        BY DrawnIsBelow DEF Below, DrawnOf
    <2>2. CountBelow(S, j) < CountBelow(S, k)
        <3> HIDE DEF S
        <3> QED BY <1>1, <2>1, CountBelowIncreases
    <2> QED BY <1>3, <2>1, <2>2
<1>6. DrawnBefore(f, k + 1) = IF IsDrawn(module[f].ops[k]) THEN DrawnBefore(f, k) \cup {k}
                                                            ELSE DrawnBefore(f, k)
    BY DEF DrawnBefore, IsDrawn
<1> HIDE DEF S
<1> QED BY <1>2, <1>3, <1>4, <1>5, <1>6

-----------------------------------------------------------------------------
(* The pieces of a diagram *)

LEMMA DiagramShape ==
    ASSUME module \in Modules, NEW f \in DOMAIN module, qubitTikz[f] \in [Rows(f) -> Seq(CellTypes)]
    PROVE  LET n == getNumberOfQubits(module[f])
               d == Diagram(f)
           IN  /\ d \in Seq(Pieces) /\ Len(d) = n + 2
               /\ \A i \in 1 .. n + 2 : /\ d[i].of = f
                                        /\ d[i].piece = "begin" <=> i = 1
                                        /\ d[i].piece = "end" <=> i = n + 2
<1> DEFINE n == getNumberOfQubits(module[f])
           first == [of |-> f, piece |-> "begin"]
           row(k) == [of |-> f, piece |-> "row", cells |-> qubitTikz[f][k - 1]]
           rows == [k \in 1 .. n |-> row(k)]
           last == [of |-> f, piece |-> "end"]
           a == <<first>> \o rows
<1>1. n \in Nat /\ f \in Nat
    BY Operations
<1>2. first \in Pieces /\ last \in Pieces
    BY <1>1 DEF Pieces
<1>3. \A k \in 1 .. n : row(k) \in Pieces
    <2> SUFFICES ASSUME NEW k \in 1 .. n PROVE row(k) \in Pieces
        OBVIOUS
    <2>1. k - 1 \in Rows(f)
        BY <1>1 DEF Rows
    <2>2. qubitTikz[f][k - 1] \in Seq(CellTypes)
        BY <2>1
    <2> QED BY <1>1, <2>2 DEF Pieces
<1>4. rows \in Seq(Pieces) /\ Len(rows) = n /\ \A k \in 1 .. n : rows[k] = row(k)
    <2> HIDE DEF row, n
    <2> QED BY <1>1, <1>3
<1>5. /\ a \in Seq(Pieces) /\ Len(a) = n + 1 /\ a[1] = first
      /\ \A k \in 1 .. n + 1 : k # 1 => a[k] = rows[k - 1]
    <2> HIDE DEF rows, first, n
    <2>1. /\ a \in Seq(Pieces) /\ 1 \in DOMAIN a /\ a[1] = first /\ Len(a) = Len(rows) + 1
          /\ \A i \in DOMAIN a : i # 1 => i - 1 \in DOMAIN rows /\ a[i] = rows[i - 1]
        <3>1. rows \in Seq(Pieces) /\ first \in Pieces
            BY <1>2, <1>4
        <3> QED BY <3>1, InFront
    <2> HIDE DEF a
    <2>2. DOMAIN a = 1 .. n + 1 /\ Len(a) = n + 1
        BY <1>1, <1>4, <2>1
    <2> QED BY <2>1, <2>2
<1>6. /\ a \o <<last>> \in Seq(Pieces) /\ Len(a \o <<last>>) = n + 2
      /\ \A k \in 1 .. n + 1 : (a \o <<last>>)[k] = a[k]
      /\ (a \o <<last>>)[n + 2] = last
    <2> HIDE DEF a, last, n
    <2> QED BY <1>1, <1>2, <1>5
<1>7. Diagram(f) = a \o <<last>>
    BY DEF Diagram
<1>8. /\ first.of = f /\ first.piece = "begin" /\ last.of = f /\ last.piece = "end"
      /\ \A k : row(k).of = f /\ row(k).piece = "row"
    OBVIOUS
<1>9. ASSUME NEW i \in 1 .. n + 2
      PROVE  /\ Diagram(f)[i].of = f
             /\ Diagram(f)[i].piece = "begin" <=> i = 1
             /\ Diagram(f)[i].piece = "end" <=> i = n + 2
    <2> HIDE DEF a, first, last, row, rows, n
    <2>1. CASE i = 1
        BY <1>1, <1>5, <1>6, <1>7, <1>8, <2>1
    <2>2. CASE i = n + 2
        BY <1>1, <1>6, <1>7, <1>8, <2>2
    <2>3. CASE i # 1 /\ i # n + 2
        <3>1. i \in 1 .. n + 1 /\ i - 1 \in 1 .. n
            BY <1>1, <2>3
        <3>2. Diagram(f)[i] = row(i - 1)
            BY <1>4, <1>5, <1>6, <1>7, <2>3, <3>1
        <3> QED BY <1>8, <2>3, <3>2
    <2> QED BY <2>1, <2>2, <2>3
<1> HIDE DEF a, first, last, row, rows
<1> QED BY <1>6, <1>7, <1>9

-----------------------------------------------------------------------------
(* The first state *)

LEMMA InitInvariant == Init => IInv
<1> SUFFICES ASSUME Init PROVE IInv
    OBVIOUS
<1>1. /\ module \in Modules /\ threads \in ThreadCounts /\ curIndex = 0 /\ active = {}
      /\ next = [f \in DOMAIN module |-> 1]
      /\ qubitTikz = [f \in DOMAIN module |-> [q \in Rows(f) |-> <<Lstick>>]]
      /\ written = [f \in DOMAIN module |-> 0]
      /\ outputStream = <<>> /\ crashed = FALSE
    BY DEF Init
<1>2. threads \in Nat \ {0}
    BY <1>1, QuakeToTikzAssumption
<1>3. ASSUME NEW f \in DOMAIN module
      PROVE  /\ f \in Nat \ {0} /\ Len(module) \in Nat
             /\ getNumberOfQubits(module[f]) \in Nat /\ Len(module[f].ops) \in Nat
    BY <1>1, Operations
<1>4. Lstick \in CellTypes
    BY DEF CellTypes, Lstick
<1>5. TypeOK
    <2>1. Cardinality(active) = 0
        BY <1>1, FS_EmptySet
    <2>2. Len(module) \in Nat
        BY <1>1, QuakeToTikzAssumption
    <2>3. \A f \in DOMAIN module : qubitTikz[f] \in [Rows(f) -> Seq(CellTypes)]
        <3>1. <<Lstick>> \in Seq(CellTypes)
            BY <1>4
        <3>2. \A f : [q \in Rows(f) |-> <<Lstick>>] \in [Rows(f) -> Seq(CellTypes)]
            BY <3>1
        <3> QED BY <1>1, <3>2
    <2>4. outputStream \in Seq(Pieces)
        BY <1>1
    <2>5. /\ next \in [DOMAIN module -> Nat] /\ written \in [DOMAIN module -> Nat]
          /\ DOMAIN qubitTikz = DOMAIN module
        BY <1>1
    <2>6. \A f \in DOMAIN module : /\ next[f] \in 1 .. Len(module[f].ops) + 1
                                   /\ written[f] <= getNumberOfQubits(module[f]) + 2
        BY <1>1, <1>3
    <2>7. curIndex \in 0 .. Len(module) /\ Cardinality(active) <= threads
        BY <1>1, <1>2, <2>1, <2>2
    <2>8. active \subseteq {f \in 1 .. curIndex : module[f].prefixed} /\ crashed \in BOOLEAN
        BY <1>1
    <2> QED BY <1>1, <2>3, <2>4, <2>5, <2>6, <2>7, <2>8 DEF TypeOK
<1>6. ASSUME NEW f \in DOMAIN module PROVE Drawn(f) = {}
    BY <1>1 DEF Drawn, DrawnBefore
<1>7. ColumnsAlign
    <2> SUFFICES ASSUME NEW f \in DOMAIN module, NEW q \in Rows(f)
                 PROVE  Len(qubitTikz[f][q]) = 1 + Cardinality(Drawn(f))
        BY DEF ColumnsAlign
    <2>1. qubitTikz[f][q] = <<Lstick>>
        BY <1>1
    <2>2. Cardinality(Drawn(f)) = 0
        BY <1>6, FS_EmptySet
    <2> QED BY <2>1, <2>2
<1>8. ColumnsOfOperations
    BY <1>6 DEF ColumnsOfOperations
<1>9. Progress
    BY <1>1, <1>3 DEF Progress
<1>10. PiecesInOrder
    <2>1. DOMAIN outputStream = {}
        BY <1>1
    <2>2. \A f : PiecesOf(f, Len(outputStream)) = {}
        BY <2>1 DEF PiecesOf
    <2>3. \A f \in DOMAIN module : Cardinality(PiecesOf(f, Len(outputStream))) = written[f]
        BY <1>1, <2>2, FS_EmptySet
    <2> QED BY <2>1, <2>3 DEF PiecesInOrder
<1>11. LastPiece /\ OneDiagramAfterTheOther
    BY <1>1 DEF LastPiece, OneDiagramAfterTheOther
<1> QED BY <1>5, <1>7, <1>8, <1>9, <1>10, <1>11 DEF IInv

-----------------------------------------------------------------------------
(* The steps *)

\* The facts a step starts from
LEMMA Typed ==
    ASSUME IInv
    PROVE  /\ module \in Modules /\ threads \in Nat \ {0}
           /\ Len(module) \in Nat /\ DOMAIN module = 1 .. Len(module)
           /\ curIndex \in 0 .. Len(module)
           /\ active \subseteq 1 .. curIndex /\ IsFiniteSet(active)
           /\ \A f \in active : f \in DOMAIN module /\ module[f].prefixed
           /\ \A f \in DOMAIN module :
                /\ getNumberOfQubits(module[f]) \in Nat /\ module[f].ops \in Seq(Op)
                /\ module[f].prefixed \in BOOLEAN
                /\ next[f] \in Nat \ {0} /\ written[f] \in Nat
                /\ qubitTikz[f] \in [Rows(f) -> Seq(CellTypes)]
           /\ outputStream \in Seq(Pieces) /\ Len(outputStream) \in Nat
           /\ DOMAIN outputStream = 1 .. Len(outputStream)
<1>1. TypeOK
    BY DEF IInv
<1>2. module \in Modules /\ threads \in Nat \ {0}
    BY <1>1, QuakeToTikzAssumption DEF TypeOK
<1>3. Len(module) \in Nat /\ DOMAIN module = 1 .. Len(module)
    BY <1>2, QuakeToTikzAssumption
<1>4. curIndex \in 0 .. Len(module) /\ active \subseteq 1 .. curIndex
    BY <1>1 DEF TypeOK
<1>5. IsFiniteSet(active)
    <2>1. IsFiniteSet(1 .. curIndex)
        BY <1>3, <1>4, FS_Interval
    <2> QED BY <1>4, <2>1, FS_Subset
<1>6. \A f \in active : f \in DOMAIN module /\ module[f].prefixed
    <2>1. \A f \in active : module[f].prefixed
        BY <1>1 DEF TypeOK
    <2> QED BY <1>3, <1>4, <2>1
<1>7. ASSUME NEW f \in DOMAIN module
      PROVE  /\ getNumberOfQubits(module[f]) \in Nat /\ module[f].ops \in Seq(Op)
             /\ module[f].prefixed \in BOOLEAN
             /\ next[f] \in Nat \ {0} /\ written[f] \in Nat
             /\ qubitTikz[f] \in [Rows(f) -> Seq(CellTypes)]
    <2>1. /\ getNumberOfQubits(module[f]) \in Nat /\ module[f].ops \in Seq(Op)
          /\ module[f].prefixed \in BOOLEAN
        BY <1>2, Operations
    <2>2. /\ next[f] \in 1 .. Len(module[f].ops) + 1 /\ written[f] \in Nat
          /\ qubitTikz[f] \in [Rows(f) -> Seq(CellTypes)]
        BY <1>1 DEF TypeOK
    <2> QED BY <2>1, <2>2
<1>8. outputStream \in Seq(Pieces)
    BY <1>1 DEF TypeOK
<1>9. Len(outputStream) \in Nat /\ DOMAIN outputStream = 1 .. Len(outputStream)
    BY <1>8
<1> QED BY <1>2, <1>3, <1>4, <1>5, <1>6, <1>7, <1>8, <1>9

\* What the columns say holds on as long as no column is added.
LEMMA SameColumns ==
    ASSUME IInv, module' = module, next' = next, qubitTikz' = qubitTikz
    PROVE  /\ ColumnsAlign' /\ ColumnsOfOperations'
           /\ \A f : Rows(f)' = Rows(f) /\ Diagram(f)' = Diagram(f)
           /\ KernelsOfModule' = KernelsOfModule
<1>1. \A f : Rows(f)' = Rows(f) /\ IsDrawable(f)' = IsDrawable(f) /\ Drawn(f)' = Drawn(f)
    BY DEF Rows, IsDrawable, Drawn, DrawnBefore
<1>2. \A f : Diagram(f)' = Diagram(f)
    BY DEF Diagram
<1>3. KernelsOfModule' = KernelsOfModule
    BY DEF KernelsOfModule
<1>4. \A f, q, k : Cell(f, q, k)' = Cell(f, q, k)
    BY DEF Cell, DrawnBefore
<1>5. ColumnsAlign'
    BY <1>1 DEF IInv, ColumnsAlign
<1>6. ColumnsOfOperations'
    BY <1>1, <1>4 DEF IInv, ColumnsOfOperations
<1> QED BY <1>1, <1>2, <1>3, <1>5, <1>6

LEMMA TakePreserves ==
    ASSUME IInv, Take
    PROVE  IInv'
<1> DEFINE g == curIndex + 1
<1>1. /\ module' = module /\ threads' = threads /\ next' = next /\ qubitTikz' = qubitTikz
      /\ written' = written /\ outputStream' = outputStream /\ crashed' = crashed
      /\ curIndex' = g /\ curIndex < Len(module) /\ Cardinality(active) < threads
      /\ active' = IF module[g].prefixed THEN active \cup {g} ELSE active
    BY DEF Take
<1>2. /\ g \in DOMAIN module /\ g \notin active /\ g \in Nat
      /\ active \subseteq active' /\ active' \subseteq active \cup {g}
    BY <1>1, Typed
<1>3. TypeOK'
    <2>1. Cardinality(active') <= threads'
        <3>1. Cardinality(active) \in Nat /\ Cardinality(active \cup {g}) = Cardinality(active) + 1
            BY <1>2, Typed, FS_AddElement, FS_CardinalityType
        <3> QED BY <1>1, <3>1, Typed
    <2>2. active' \subseteq {f \in 1 .. curIndex' : module'[f].prefixed}
        BY <1>1, <1>2, Typed
    <2>3. curIndex' \in 0 .. Len(module')
        BY <1>1, Typed
    <2>4. \A f : Rows(f)' = Rows(f)
        BY <1>1, SameColumns
    <2> QED BY <1>1, <2>1, <2>2, <2>3, <2>4 DEF IInv, TypeOK
<1>4. written[g] = 0
    <2>1. ~ g <= curIndex
        BY Typed
    <2>2. ~ written[g] > 0
        BY <1>2, <2>1 DEF IInv, Progress
    <2> QED BY <1>2, <2>2, Typed
<1>5. Progress'
    <2> SUFFICES ASSUME NEW f \in DOMAIN module
                 PROVE  /\ written[f] > 0 => /\ next[f] = Len(module[f].ops) + 1
                                             /\ module[f].prefixed /\ f <= g
                        /\ f \in active' => written[f] < getNumberOfQubits(module[f]) + 2
                        /\ module[f].prefixed /\ f <= g /\ f \notin active' =>
                             written[f] = getNumberOfQubits(module[f]) + 2
        BY <1>1 DEF Progress
    <2>1. /\ written[f] > 0 => /\ next[f] = Len(module[f].ops) + 1
                               /\ module[f].prefixed /\ f <= curIndex
          /\ f \in active => written[f] < getNumberOfQubits(module[f]) + 2
          /\ module[f].prefixed /\ f <= curIndex /\ f \notin active =>
               written[f] = getNumberOfQubits(module[f]) + 2
        BY DEF IInv, Progress
    <2>2. f \in Nat /\ curIndex \in Nat /\ getNumberOfQubits(module[f]) \in Nat
        BY Typed
    <2>3. CASE f = g
        BY <1>1, <1>4, <2>2, <2>3
    <2>4. CASE f # g
        BY <1>1, <1>2, <2>1, <2>2, <2>4
    <2> QED BY <2>3, <2>4
<1>6. ColumnsAlign' /\ ColumnsOfOperations'
    BY <1>1, SameColumns
<1>7. PiecesInOrder'
    <2>1. \A f, k : PiecesOf(f, k)' = PiecesOf(f, k)
        BY <1>1 DEF PiecesOf
    <2>2. (\A f : Diagram(f)' = Diagram(f)) /\ KernelsOfModule' = KernelsOfModule
        BY <1>1, SameColumns
    <2> QED BY <1>1, <2>1, <2>2 DEF IInv, PiecesInOrder
<1>8. LastPiece'
    <2>1. OneAtATime' <=> OneAtATime
        BY <1>1, SameColumns DEF OneAtATime
    <2>2. \A f \in active' : written[f] > 0 => f \in active
        BY <1>2, <1>4
    <2> QED BY <1>1, <1>2, <2>1, <2>2 DEF IInv, LastPiece
<1>9. OneDiagramAfterTheOther'
    BY <1>1, SameColumns DEF IInv, OneDiagramAfterTheOther
<1> QED BY <1>3, <1>5, <1>6, <1>7, <1>8, <1>9 DEF IInv

\* A column is added, behind the others, and nothing of the function was written yet.
LEMMA ColumnAdded ==
    ASSUME IInv, NEW f \in DOMAIN module, dumpQuakeOperationToTikz(f),
           ~ IsNullGate(module[f].ops[next[f]])
    PROVE  IInv'
<1> DEFINE n == next[f]
           op == module[f].ops[n]
           row == [q \in Rows(f) |-> qubitTikz[f][q] \o Cells(op, q)]
<1>1. /\ module' = module /\ threads' = threads /\ curIndex' = curIndex /\ active' = active
      /\ written' = written /\ outputStream' = outputStream /\ crashed' = crashed
      /\ next' = [next EXCEPT ![f] = n + 1]
      /\ qubitTikz' = [qubitTikz EXCEPT ![f] = row]
      /\ f \in active /\ n \in DOMAIN module[f].ops
    BY DEF dumpQuakeOperationToTikz
<1>2. /\ n \in Nat \ {0} /\ n + 1 \in Nat /\ module[f].ops \in Seq(Op)
      /\ n \in 1 .. Len(module[f].ops) /\ op \in Op
      /\ qubitTikz[f] \in [Rows(f) -> Seq(CellTypes)]
    <2>1. module[f].ops \in Seq(Op) /\ qubitTikz[f] \in [Rows(f) -> Seq(CellTypes)]
        BY Typed
    <2>2. n \in 1 .. Len(module[f].ops) /\ op \in Op
        BY <1>1, <2>1
    <2> HIDE DEF n, op
    <2> QED BY <2>1, <2>2
<1>3. /\ next' \in [DOMAIN module -> Nat] /\ next'[f] = n + 1
      /\ \A g \in DOMAIN module : g # f => next'[g] = next[g]
    BY <1>1, <1>2 DEF IInv, TypeOK
<1>4. /\ DOMAIN qubitTikz' = DOMAIN module
      /\ qubitTikz'[f] = row
      /\ \A g \in DOMAIN module : g # f => qubitTikz'[g] = qubitTikz[g]
    BY <1>1 DEF IInv, TypeOK
<1>5. \A g : Rows(g)' = Rows(g) /\ IsDrawable(g)' = IsDrawable(g)
    BY <1>1 DEF Rows, IsDrawable
<1>6. \A g, k : DrawnBefore(g, k)' = DrawnBefore(g, k)
    BY <1>1 DEF DrawnBefore
<1>7. ASSUME NEW q \in Rows(f)
      PROVE  /\ qubitTikz[f][q] \in Seq(CellTypes) /\ Cells(op, q) \in Seq(CellTypes)
             /\ row[q] = qubitTikz[f][q] \o Cells(op, q)
             /\ row[q] \in Seq(CellTypes)
    <2>1. Cells(op, q) \in Seq(CellTypes)
        BY <1>1, Typed, CellsAreCells
    <2>2. qubitTikz[f][q] \in Seq(CellTypes)
        BY <1>2
    <2> HIDE DEF op
    <2> QED BY <2>1, <2>2
<1>8. TypeOK'
    <2>1. row \in [Rows(f) -> Seq(CellTypes)]
        BY <1>7
    <2> HIDE DEF row
    <2>2. \A g \in DOMAIN module : qubitTikz'[g] \in [Rows(g) -> Seq(CellTypes)]
        BY <1>4, <2>1 DEF IInv, TypeOK
    <2>3. ASSUME NEW g \in DOMAIN module PROVE next'[g] \in 1 .. Len(module[g].ops) + 1
        <3>1. next[g] \in 1 .. Len(module[g].ops) + 1
            BY DEF IInv, TypeOK
        <3> HIDE DEF n
        <3>2. n + 1 \in 1 .. Len(module[f].ops) + 1
            BY <1>2
        <3> QED BY <1>3, <3>1, <3>2
    <2> HIDE DEF op, n
    <2> QED BY <1>1, <1>3, <1>4, <1>5, <2>2, <2>3 DEF IInv, TypeOK
<1>9. written[f] = 0
    <2>1. ~ written[f] > 0
        BY <1>2 DEF IInv, Progress
    <2> QED BY <2>1, Typed
<1>10. Progress'
    <2> SUFFICES ASSUME NEW g \in DOMAIN module
                 PROVE  /\ written[g] > 0 => /\ next'[g] = Len(module[g].ops) + 1
                                             /\ module[g].prefixed /\ g <= curIndex
                        /\ g \in active => written[g] < getNumberOfQubits(module[g]) + 2
                        /\ module[g].prefixed /\ g <= curIndex /\ g \notin active =>
                             written[g] = getNumberOfQubits(module[g]) + 2
        BY <1>1 DEF Progress
    <2>1. CASE g = f
        BY <1>9, <2>1 DEF IInv, Progress
    <2>2. CASE g # f
        BY <1>3, <2>2 DEF IInv, Progress
    <2> QED BY <2>1, <2>2
<1>11. \A g \in DOMAIN module : g # f => Diagram(g)' = Diagram(g)
    BY <1>1, <1>4 DEF Diagram
<1>12. KernelsOfModule' = KernelsOfModule
    BY <1>1 DEF KernelsOfModule
<1>13. PiecesInOrder'
    <2>1. \A g, k : PiecesOf(g, k)' = PiecesOf(g, k)
        BY <1>1 DEF PiecesOf
    <2>2. ASSUME NEW k \in DOMAIN outputStream, NEW g, g = outputStream[k].of
          PROVE  /\ g \in KernelsOfModule /\ written[g] > 0
                 /\ outputStream[k] = Diagram(g)'[Cardinality(PiecesOf(g, k))]
        <3>1. /\ g \in KernelsOfModule /\ written[g] > 0
              /\ outputStream[k] = Diagram(g)[Cardinality(PiecesOf(g, k))]
            BY <2>2 DEF IInv, PiecesInOrder
        <3>2. g # f /\ g \in DOMAIN module
            BY <1>9, <3>1 DEF KernelsOfModule
        <3> QED BY <1>11, <3>1, <3>2
    <2>3. \A g \in DOMAIN module : Cardinality(PiecesOf(g, Len(outputStream))) = written[g]
        BY DEF IInv, PiecesInOrder
    <2> QED BY <1>1, <1>12, <2>1, <2>2, <2>3 DEF PiecesInOrder
<1>14. LastPiece'
    BY <1>1, <1>12 DEF IInv, LastPiece, OneAtATime
<1>15. OneDiagramAfterTheOther'
    BY <1>1, <1>12 DEF IInv, OneDiagramAfterTheOther
<1>16. \A g \in DOMAIN module : g # f => Drawn(g)' = Drawn(g)
    BY <1>3, <1>6 DEF Drawn
<1>17. Drawn(f)' = DrawnBefore(f, n + 1) /\ Drawn(f) = DrawnBefore(f, n)
    BY <1>3, <1>6 DEF Drawn
\* The row of a function that can be drawn: one cell more for an operation that is drawn
<1>18. ASSUME IsDrawable(f), NEW q \in Rows(f)
       PROVE  /\ Len(row[q]) = 1 + Cardinality(DrawnBefore(f, n + 1))
              /\ \A k \in DrawnBefore(f, n + 1) :
                   row[q][Cardinality(DrawnBefore(f, k)) + 2] = TheCell(module[f].ops[k], q)
    <2> DEFINE c == Cardinality(DrawnBefore(f, n))
               old == qubitTikz[f][q]
    <2>1. /\ c \in Nat /\ old \in Seq(CellTypes) /\ Len(old) = 1 + c
          /\ \A k \in DrawnBefore(f, n) : /\ k \in Nat /\ Cardinality(DrawnBefore(f, k)) \in Nat
                                          /\ Cardinality(DrawnBefore(f, k)) < c
        BY <1>2, <1>7, <1>17, <1>18, OneMoreColumn DEF IInv, ColumnsAlign
    <2>2. \A k \in DrawnBefore(f, n) :
             old[Cardinality(DrawnBefore(f, k)) + 2] = TheCell(module[f].ops[k], q)
        BY <1>17, <1>18 DEF IInv, ColumnsOfOperations, Cell
    <2>3. CASE IsDrawn(op)
        <3>1. Cells(op, q) = <<TheCell(op, q)>> /\ TheCell(op, q) \in CellTypes
            BY <1>1, <1>18, <2>3, Typed, CellsAreTheCell DEF IsDrawn
        <3>2. /\ DrawnBefore(f, n + 1) = DrawnBefore(f, n) \cup {n}
              /\ Cardinality(DrawnBefore(f, n + 1)) = c + 1
            BY <1>2, <2>3, OneMoreColumn
        <3>3. row[q] = old \o <<TheCell(op, q)>>
            BY <1>7, <3>1
        <3> HIDE DEF row, old, c
        <3>4. /\ Len(row[q]) = Len(old) + 1
              /\ \A i \in 1 .. Len(old) : row[q][i] = old[i]
              /\ row[q][Len(old) + 1] = TheCell(op, q)
            BY <2>1, <3>1, <3>3, OneMoreCell
        <3>5. Len(row[q]) = 1 + Cardinality(DrawnBefore(f, n + 1))
            BY <2>1, <3>2, <3>4
        <3>6. ASSUME NEW k \in DrawnBefore(f, n)
              PROVE  row[q][Cardinality(DrawnBefore(f, k)) + 2] = TheCell(module[f].ops[k], q)
            <4>1. Cardinality(DrawnBefore(f, k)) + 2 \in 1 .. Len(old)
                BY <2>1
            <4> QED BY <2>2, <3>4, <4>1
        <3>7. row[q][Cardinality(DrawnBefore(f, n)) + 2] = TheCell(op, q)
            BY <2>1, <3>4 DEF c
        <3> QED BY <3>2, <3>5, <3>6, <3>7
    <2>4. CASE ~ IsDrawn(op)
        <3>1. Cells(op, q) = <<>>
            BY <1>2, <2>4, OthersAddNothing DEF IsDrawn
        <3>2. DrawnBefore(f, n + 1) = DrawnBefore(f, n)
            BY <1>2, <2>4, OneMoreColumn
        <3>3. row[q] = old
            <4>1. row[q] = old \o <<>>
                BY <1>7, <3>1
            <4> HIDE DEF row, old
            <4> QED BY <2>1, <4>1
        <3> HIDE DEF row, old
        <3> QED BY <2>1, <2>2, <3>2, <3>3
    <2> QED BY <2>3, <2>4
<1>19. ColumnsAlign'
    <2> SUFFICES ASSUME NEW g \in DOMAIN module, IsDrawable(g), NEW q \in Rows(g)
                 PROVE  Len(qubitTikz'[g][q]) = 1 + Cardinality(Drawn(g)')
        BY <1>1, <1>5 DEF ColumnsAlign
    <2> HIDE DEF row, n
    <2>1. CASE g = f
        BY <1>4, <1>17, <1>18, <2>1
    <2>2. CASE g # f
        BY <1>4, <1>16, <2>2 DEF IInv, ColumnsAlign
    <2> QED BY <2>1, <2>2
<1>20. ColumnsOfOperations'
    <2> HIDE DEF row, n
    <2>1. ASSUME NEW g \in DOMAIN module, IsDrawable(g), NEW q \in Rows(g), NEW k \in Drawn(g)'
          PROVE  Cell(g, q, k)' = TheCell(module[g].ops[k], q)
        <3>1. Cell(g, q, k)' = qubitTikz'[g][q][Cardinality(DrawnBefore(g, k)) + 2]
            BY <1>6 DEF Cell
        <3>2. CASE g = f
            BY <1>4, <1>17, <1>18, <2>1, <3>1, <3>2
        <3>3. CASE g # f
            BY <1>4, <1>16, <2>1, <3>1, <3>3 DEF IInv, ColumnsOfOperations, Cell
        <3> QED BY <3>2, <3>3
    <2> QED BY <1>1, <1>5, <2>1 DEF ColumnsOfOperations
<1> HIDE DEF row, op, n
<1> QED BY <1>8, <1>10, <1>13, <1>14, <1>15, <1>19, <1>20 DEF IInv

\* A null operation stops everything and changes nothing else.
LEMMA CrashPreserves ==
    ASSUME IInv, UNCHANGED <<module, threads, curIndex, active, next, qubitTikz, written, outputStream>>,
           crashed' \in BOOLEAN
    PROVE  IInv'
<1>1. /\ \A f : Rows(f)' = Rows(f) /\ Diagram(f)' = Diagram(f)
      /\ KernelsOfModule' = KernelsOfModule /\ ColumnsAlign' /\ ColumnsOfOperations'
    BY SameColumns
<1>2. TypeOK'
    BY <1>1 DEF IInv, TypeOK
<1>3. Progress'
    BY DEF IInv, Progress
<1>4. PiecesInOrder'
    <2>1. \A f, k : PiecesOf(f, k)' = PiecesOf(f, k)
        BY DEF PiecesOf
    <2> QED BY <1>1, <2>1 DEF IInv, PiecesInOrder
<1>5. LastPiece' /\ OneDiagramAfterTheOther'
    BY <1>1 DEF IInv, LastPiece, OneAtATime, OneDiagramAfterTheOther
<1> QED BY <1>1, <1>2, <1>3, <1>4, <1>5 DEF IInv

LEMMA WritePreserves ==
    ASSUME IInv, NEW f \in DOMAIN module, Write(f)
    PROVE  IInv'
<1> DEFINE w == written[f] + 1
           n == getNumberOfQubits(module[f])
           p == Diagram(f)[w]
           len == Len(outputStream)
<1>1. /\ module' = module /\ threads' = threads /\ curIndex' = curIndex
      /\ next' = next /\ qubitTikz' = qubitTikz /\ crashed' = crashed
      /\ f \in active /\ next[f] = Len(module[f].ops) + 1
      /\ outputStream' = Append(outputStream, p)
      /\ written' = [written EXCEPT ![f] = w]
      /\ active' = IF written'[f] = Len(Diagram(f)) THEN active \ {f} ELSE active
    BY DEF Write
<1>2. written[f] < n + 2 /\ written[f] \in Nat /\ n \in Nat
    BY <1>1, Typed DEF IInv, Progress
<1>3. /\ w \in 1 .. n + 2 /\ Len(Diagram(f)) = n + 2
      /\ p \in Pieces /\ p.of = f
      /\ p.piece = "begin" <=> w = 1
      /\ p.piece = "end" <=> w = n + 2
    <2>1. Diagram(f) \in Seq(Pieces) /\ Len(Diagram(f)) = n + 2
        BY Typed, DiagramShape
    <2>2. \A i \in 1 .. n + 2 : /\ Diagram(f)[i].of = f
                                /\ Diagram(f)[i].piece = "begin" <=> i = 1
                                /\ Diagram(f)[i].piece = "end" <=> i = n + 2
        BY Typed, DiagramShape
    <2>3. w \in 1 .. n + 2
        BY <1>2
    <2> HIDE DEF w, n
    <2> QED BY <2>1, <2>2, <2>3
<1>4. /\ written' \in [DOMAIN module -> Nat] /\ written'[f] = w /\ w \in Nat /\ w > 0
      /\ \A g \in DOMAIN module : g # f => written'[g] = written[g]
    BY <1>1, <1>2 DEF IInv, TypeOK
<1>5. active' = IF w = n + 2 THEN active \ {f} ELSE active
    BY <1>1, <1>3, <1>4
<1>6. /\ len \in Nat /\ DOMAIN outputStream = 1 .. len
      /\ outputStream' \in Seq(Pieces)
      /\ Len(outputStream') = len + 1 /\ DOMAIN outputStream' = DOMAIN outputStream \cup {len + 1}
      /\ \A i \in DOMAIN outputStream : outputStream'[i] = outputStream[i] /\ i <= len
      /\ outputStream'[len + 1] = p
    <2>1. /\ outputStream \in Seq(Pieces) /\ len \in Nat /\ DOMAIN outputStream = 1 .. len
        BY Typed
    <2>2. p \in Pieces /\ outputStream' = Append(outputStream, p)
        BY <1>1, <1>3
    <2> HIDE DEF p
    <2>3. /\ outputStream' \in Seq(Pieces)
          /\ Len(outputStream') = len + 1 /\ DOMAIN outputStream' = DOMAIN outputStream \cup {len + 1}
          /\ \A i \in DOMAIN outputStream : outputStream'[i] = outputStream[i] /\ i <= len
          /\ outputStream'[len + 1] = p
        BY <2>1, <2>2, AtTheEnd
    <2> QED BY <2>1, <2>3
<1>7. /\ \A g : Rows(g)' = Rows(g) /\ Diagram(g)' = Diagram(g)
      /\ KernelsOfModule' = KernelsOfModule /\ ColumnsAlign' /\ ColumnsOfOperations'
    BY <1>1, SameColumns
<1>8. /\ module[f].prefixed /\ f \in KernelsOfModule /\ f <= curIndex
      /\ \A g \in active : g \in DOMAIN module
      /\ \A g \in DOMAIN module : getNumberOfQubits(module[g]) \in Nat
    BY <1>1, Typed DEF KernelsOfModule
<1>9. TypeOK'
    <2>1. Cardinality(active') <= threads'
        <3>1. Cardinality(active \ {f}) <= Cardinality(active) /\ Cardinality(active) \in Nat
              /\ Cardinality(active \ {f}) \in Nat
            <4>1. IsFiniteSet(active) /\ active \ {f} \subseteq active
                BY Typed
            <4> QED BY <4>1, FS_Subset, FS_CardinalityType
        <3>2. Cardinality(active) <= threads /\ threads \in Nat
            BY Typed DEF IInv, TypeOK
        <3> QED BY <1>1, <1>5, <3>1, <3>2
    <2>2. active' \subseteq {g \in 1 .. curIndex' : module'[g].prefixed}
        BY <1>1, <1>5 DEF IInv, TypeOK
    <2>3. \A g \in DOMAIN module : written'[g] <= getNumberOfQubits(module[g]) + 2
        <3>1. w <= n + 2
            BY <1>2
        <3>2. \A g \in DOMAIN module : written[g] <= getNumberOfQubits(module[g]) + 2
            BY DEF IInv, TypeOK
        <3>3. \A g \in DOMAIN module : g = f => written'[g] <= getNumberOfQubits(module[g]) + 2
            <4> HIDE DEF w
            <4> QED BY <1>4, <3>1
        <3> HIDE DEF w, n
        <3> QED BY <1>4, <3>2, <3>3
    <2>4. \A g \in DOMAIN module : /\ next'[g] \in 1 .. Len(module[g].ops) + 1
                                   /\ qubitTikz'[g] \in [Rows(g)' -> Seq(CellTypes)]
        BY <1>1, <1>7 DEF IInv, TypeOK
    <2>5. /\ module' \in Modules /\ threads' \in ThreadCounts /\ curIndex' \in 0 .. Len(module')
          /\ next' \in [DOMAIN module' -> Nat] /\ DOMAIN qubitTikz' = DOMAIN module'
          /\ crashed' \in BOOLEAN
        BY <1>1 DEF IInv, TypeOK
    <2> HIDE DEF w, n, p, len
    <2> QED BY <1>1, <1>4, <1>6, <2>1, <2>2, <2>3, <2>4, <2>5 DEF TypeOK
<1>10. Progress'
    <2> SUFFICES ASSUME NEW g \in DOMAIN module
                 PROVE  /\ written'[g] > 0 => /\ next[g] = Len(module[g].ops) + 1
                                              /\ module[g].prefixed /\ g <= curIndex
                        /\ g \in active' => written'[g] < getNumberOfQubits(module[g]) + 2
                        /\ module[g].prefixed /\ g <= curIndex /\ g \notin active' =>
                             written'[g] = getNumberOfQubits(module[g]) + 2
        BY <1>1 DEF Progress
    <2> HIDE DEF w
    <2>1. CASE g = f
        BY <1>1, <1>2, <1>3, <1>4, <1>5, <1>8, <2>1
    <2>2. CASE g # f
        BY <1>4, <1>5, <2>2 DEF IInv, Progress
    <2> QED BY <2>1, <2>2
\* The pieces there were stay, and the new one is the next of its diagram.
<1>11. ASSUME NEW g, NEW k \in Nat, k <= len
       PROVE  PiecesOf(g, k)' = PiecesOf(g, k)
    <2>1. PiecesOf(g, k)' = {j \in DOMAIN outputStream' : j <= k /\ outputStream'[j].of = g}
        BY DEF PiecesOf
    <2>2. PiecesOf(g, k) = {j \in DOMAIN outputStream : j <= k /\ outputStream[j].of = g}
        BY DEF PiecesOf
    <2>3. ~ len + 1 <= k
        BY <1>6, <1>11
    <2> HIDE DEF len, p
    <2>4. \A j \in DOMAIN outputStream' : j <= k => j \in DOMAIN outputStream
        BY <1>6, <2>3
    <2>5. \A j \in DOMAIN outputStream :
            j \in DOMAIN outputStream' /\ outputStream'[j] = outputStream[j]
        BY <1>6
    <2> QED BY <2>1, <2>2, <2>4, <2>5
<1>12. ASSUME NEW g, NEW k \in Nat, k = len + 1
       PROVE  PiecesOf(g, k)' = IF g = f THEN PiecesOf(g, len) \cup {k} ELSE PiecesOf(g, len)
    <2>1. PiecesOf(g, k)' = {j \in DOMAIN outputStream' : j <= k /\ outputStream'[j].of = g}
        BY DEF PiecesOf
    <2>2. PiecesOf(g, len) = {j \in DOMAIN outputStream : j <= len /\ outputStream[j].of = g}
        BY DEF PiecesOf
    <2> HIDE DEF len, p
    <2>3. \A j \in DOMAIN outputStream : j <= len /\ j <= k
        BY <1>6, <1>12
    <2>4. \A j : j \in DOMAIN outputStream' <=> j \in DOMAIN outputStream \/ j = k
        BY <1>6, <1>12
    <2>5. k \notin DOMAIN outputStream /\ k <= k /\ outputStream'[k].of = f
        BY <1>3, <1>6, <1>12
    <2>6. \A j \in DOMAIN outputStream : outputStream'[j] = outputStream[j]
        BY <1>6
    <2>7. \A j : j \in PiecesOf(g, k)' <=> j \in PiecesOf(g, len) \/ (j = k /\ g = f)
        BY <2>1, <2>2, <2>3, <2>4, <2>5, <2>6
    <2>8. CASE g = f
        BY <2>7, <2>8
    <2>9. CASE g # f
        BY <2>7, <2>9
    <2> QED BY <2>8, <2>9
<1>13. \A g \in DOMAIN module : /\ Cardinality(PiecesOf(g, len)) = written[g]
                                /\ IsFiniteSet(PiecesOf(g, len)) /\ len + 1 \notin PiecesOf(g, len)
    <2> SUFFICES ASSUME NEW g \in DOMAIN module
                 PROVE  /\ Cardinality(PiecesOf(g, len)) = written[g]
                        /\ IsFiniteSet(PiecesOf(g, len)) /\ len + 1 \notin PiecesOf(g, len)
        OBVIOUS
    <2>1. Cardinality(PiecesOf(g, len)) = written[g]
        BY DEF IInv, PiecesInOrder
    <2>2. PiecesOf(g, len) \subseteq 1 .. len
        BY <1>6 DEF PiecesOf
    <2>3. IsFiniteSet(1 .. len)
        <3>1. len \in Int /\ 1 \in Int
            BY <1>6
        <3> HIDE DEF len
        <3> QED BY <3>1, FS_Interval
    <2>4. IsFiniteSet(PiecesOf(g, len))
        BY <2>2, <2>3, FS_Subset
    <2>5. len + 1 \notin 1 .. len
        BY <1>6
    <2> QED BY <2>1, <2>2, <2>4, <2>5
<1>14. ASSUME NEW g \in DOMAIN module, NEW k \in Nat, k = len + 1
       PROVE  Cardinality(PiecesOf(g, k)') = written'[g]
    <2>1. Cardinality(PiecesOf(f, len) \cup {k}) = Cardinality(PiecesOf(f, len)) + 1
        BY <1>13, <1>14, FS_AddElement
    <2> HIDE DEF len
    <2>2. CASE g = f
        BY <1>4, <1>12, <1>13, <1>14, <2>1, <2>2
    <2>3. CASE g # f
        BY <1>4, <1>12, <1>13, <1>14, <2>3
    <2> QED BY <2>2, <2>3
<1>15. PiecesInOrder'
    <2>1. ASSUME NEW k \in DOMAIN outputStream', NEW g, g = outputStream'[k].of
          PROVE  /\ g \in KernelsOfModule /\ written'[g] > 0
                 /\ outputStream'[k] = Diagram(g)[Cardinality(PiecesOf(g, k)')]
        <3>1. CASE k \in DOMAIN outputStream
            <4>1. g = outputStream[k].of /\ k \in Nat /\ k <= len
                BY <1>6, <2>1, <3>1
            <4>2. /\ g \in KernelsOfModule /\ written[g] > 0
                  /\ outputStream[k] = Diagram(g)[Cardinality(PiecesOf(g, k))]
                BY <3>1, <4>1 DEF IInv, PiecesInOrder
            <4>3. g \in DOMAIN module
                BY <4>2 DEF KernelsOfModule
            <4>4. PiecesOf(g, k)' = PiecesOf(g, k)
                BY <1>11, <4>1
            <4>5. written'[g] > 0
                BY <1>4, <4>2, <4>3
            <4> HIDE DEF p, len, w
            <4> QED BY <1>6, <3>1, <4>2, <4>4, <4>5
        <3>2. CASE k = len + 1
            <4>1. outputStream'[k] = p /\ k \in Nat
                BY <1>6, <3>2
            <4>2. g = f
                BY <1>3, <2>1, <4>1
            <4>3. Cardinality(PiecesOf(g, k)') = w
                BY <1>4, <1>14, <3>2, <4>1, <4>2
            <4> QED BY <1>4, <1>8, <4>1, <4>2, <4>3
        <3> QED BY <1>6, <3>1, <3>2
    <2>2. ASSUME NEW k \in Nat, k = Len(outputStream')
          PROVE  \A g \in DOMAIN module : Cardinality(PiecesOf(g, k)') = written'[g]
        BY <1>6, <1>14, <2>2
    <2>3. Len(outputStream') \in Nat
        BY <1>6
    <2> HIDE DEF p, len, w
    <2> QED BY <1>1, <1>7, <2>1, <2>2, <2>3 DEF PiecesInOrder
\* One diagram at a time: this function is the only one a thread works on.
<1>16. OneAtATime => active = {f}
    <2> SUFFICES ASSUME OneAtATime, NEW g \in active, g # f PROVE FALSE
        BY <1>1
    <2>1. /\ IsFiniteSet({f, g}) /\ Cardinality({f, g}) = 2
        <3>1. IsFiniteSet({f}) /\ Cardinality({f}) = 1
            BY FS_Singleton
        <3>2. {f, g} = {f} \cup {g} /\ g \notin {f}
            OBVIOUS
        <3> QED BY <3>1, <3>2, FS_AddElement
    <2>2. IsFiniteSet(active) /\ {f, g} \subseteq active
        BY <1>1, Typed
    <2>3. 2 <= Cardinality(active) /\ Cardinality(active) \in Nat
        BY <2>1, <2>2, FS_Subset, FS_CardinalityType
    <2>4. IsFiniteSet(KernelsOfModule) /\ active \subseteq KernelsOfModule
        <3>1. KernelsOfModule \subseteq 1 .. Len(module) /\ Len(module) \in Nat
            BY Typed DEF KernelsOfModule
        <3>2. IsFiniteSet(1 .. Len(module))
            BY <3>1, FS_Interval
        <3>3. active \subseteq KernelsOfModule
            BY Typed DEF KernelsOfModule
        <3> QED BY <3>1, <3>2, <3>3, FS_Subset
    <2>5. 2 <= Cardinality(KernelsOfModule)
        <3>1. Cardinality(active) <= Cardinality(KernelsOfModule)
              /\ Cardinality(KernelsOfModule) \in Nat
            BY <2>4, FS_Subset, FS_CardinalityType
        <3> QED BY <2>3, <3>1
    <2>6. Cardinality(KernelsOfModule) \in Nat
        BY <2>4, FS_CardinalityType
    <2>7. Cardinality(active) <= threads
        BY DEF IInv, TypeOK
    <2> QED BY <2>3, <2>5, <2>6, <2>7 DEF OneAtATime
<1>17. OneAtATime' <=> OneAtATime
    BY <1>1, <1>7 DEF OneAtATime
<1>18. outputStream = <<>> <=> len = 0
    BY Typed
<1>19. OneDiagramAfterTheOther'
    <2> SUFFICES ASSUME OneAtATime, NEW k \in DOMAIN outputStream'
                 PROVE  /\ outputStream'[k].piece # "begin" =>
                             k > 1 /\ outputStream'[k - 1].of = outputStream'[k].of
                        /\ outputStream'[k].piece = "begin" =>
                             k = 1 \/ outputStream'[k - 1].piece = "end"
        BY <1>17 DEF OneDiagramAfterTheOther, OneAtATime
    <2>1. CASE k \in DOMAIN outputStream
        <3>1. /\ outputStream[k].piece # "begin" =>
                   k > 1 /\ outputStream[k - 1].of = outputStream[k].of
              /\ outputStream[k].piece = "begin" =>
                   k = 1 \/ outputStream[k - 1].piece = "end"
            BY <2>1 DEF IInv, OneDiagramAfterTheOther, OneAtATime
        <3>2. k > 1 => k - 1 \in DOMAIN outputStream
            BY <1>6, <2>1
        <3>3. k \in Nat /\ k >= 1
            BY <1>6, <2>1
        <3> HIDE DEF p, len
        <3> QED BY <1>6, <2>1, <3>1, <3>2, <3>3
    <2>2. CASE k = len + 1
        <3>1. /\ outputStream # <<>> => outputStream[len].piece = "end" \/ outputStream[len].of = f
              /\ written[f] > 0 => outputStream # <<>> /\ outputStream[len].of = f
            BY <1>1, <1>16 DEF IInv, LastPiece
        <3>2. len # 0 => len \in DOMAIN outputStream /\ outputStream'[len] = outputStream[len]
            BY <1>6
        <3>3. len # 0 /\ outputStream[len].of = f => written[f] > 0
            BY <3>2 DEF IInv, PiecesInOrder
        <3>4. w = 1 <=> ~ written[f] > 0
            BY <1>2
        <3>5. outputStream'[k] = p /\ k - 1 = len /\ (k > 1 <=> len # 0) /\ (k = 1 <=> len = 0)
            BY <1>6, <2>2
        <3> HIDE DEF p, len, w
        <3> QED BY <1>3, <1>18, <3>1, <3>2, <3>3, <3>4, <3>5
    <2> QED BY <1>6, <2>1, <2>2
<1>20. LastPiece'
    <2> SUFFICES ASSUME OneAtATime
                 PROVE  /\ outputStream'[Len(outputStream')].piece = "end"
                             \/ outputStream'[Len(outputStream')].of \in active'
                        /\ \A g \in active' : outputStream' # <<>>
                                              /\ outputStream'[Len(outputStream')].of = g
        BY <1>17 DEF LastPiece
    <2>1. outputStream' # <<>> /\ outputStream'[Len(outputStream')] = p
        BY <1>6
    <2> HIDE DEF p, w, n
    <2> QED BY <1>3, <1>5, <1>16, <2>1
<1> HIDE DEF p, w, n, len
<1> QED BY <1>7, <1>9, <1>10, <1>15, <1>19, <1>20 DEF IInv

LEMMA StepPreserves == IInv /\ [Next]_vars => IInv'
<1> SUFFICES ASSUME IInv, [Next]_vars PROVE IInv'
    OBVIOUS
<1>1. CASE Take
    BY <1>1, TakePreserves
<1>2. ASSUME NEW f \in DOMAIN module, dumpQuakeOperationToTikz(f) PROVE IInv'
    <2>1. CASE IsNullGate(module[f].ops[next[f]])
        <3>1. /\ UNCHANGED <<module, threads, curIndex, active, next, qubitTikz, written, outputStream>>
              /\ crashed' = TRUE
            BY <1>2, <2>1 DEF dumpQuakeOperationToTikz
        <3> QED BY <3>1, CrashPreserves
    <2>2. CASE ~ IsNullGate(module[f].ops[next[f]])
        BY <1>2, <2>2, ColumnAdded
    <2> QED BY <2>1, <2>2
<1>3. ASSUME NEW f \in DOMAIN module, Write(f) PROVE IInv'
    BY <1>3, WritePreserves
<1>4. CASE UNCHANGED vars
    <2>1. crashed' \in BOOLEAN
        BY <1>4 DEF vars, IInv, TypeOK
    <2> QED BY <1>4, <2>1, CrashPreserves DEF vars
<1> QED BY <1>1, <1>2, <1>3, <1>4 DEF Next

LEMMA Invariance == Spec => []IInv
BY InitInvariant, StepPreserves, PTL DEF Spec
-----------------------------------------------------------------------------
(* What a column shows *)

\* The kind of a cell says what its row is to the operation.
LEMMA KindsOfCells ==
    ASSUME NEW op, NEW q
    PROVE  LET t == getIndicesOfValueRange(op.tgts)
               c == getIndicesOfValueRange(op.ctrls)
               kind == TheCell(op, q).cell
               boxed == ~ isMeasurement(op) /\ op.gate # "swap"
               swapped == ~ isMeasurement(op) /\ op.gate = "swap"
           IN  /\ kind = "ctrl" <=> boxed /\ HasValue(c, q) /\ ~ HasValue(t, q)
               /\ kind = "gate" <=> boxed /\ HasValue(t, q)
               /\ kind = "swap" <=> swapped /\ q = t[1]
               /\ kind = "swap end" <=> swapped /\ q = t[2] /\ q # t[1]
               /\ kind = "meter" <=> isMeasurement(op) /\ (HasValue(t, q) \/ HasValue(t, Whole))
<1> DEFINE t == getIndicesOfValueRange(op.tgts)
           c == getIndicesOfValueRange(op.ctrls)
<1>1. /\ Wire.cell = "qw" /\ Meter.cell = "meter" /\ SwapEnd.cell = "swap end"
      /\ GateCell(op).cell = "gate"
      /\ \A d : SwapTo(d).cell = "swap" /\ Ctrl(d).cell = "ctrl"
    BY DEF Wire, Meter, SwapEnd, GateCell, SwapTo, Ctrl
<1>2. CASE isMeasurement(op)
    <2>1. TheCell(op, q) = IF HasValue(t, q) \/ HasValue(t, Whole) THEN Meter ELSE Wire
        BY <1>2 DEF TheCell
    <2> HIDE DEF t, c
    <2>2. /\ TheCell(op, q).cell \in {"meter", "qw"}
          /\ TheCell(op, q).cell = "meter" <=> HasValue(t, q) \/ HasValue(t, Whole)
        BY <1>1, <2>1
    <2> QED BY <1>2, <2>2 DEF t, c
<1>3. CASE ~ isMeasurement(op) /\ op.gate = "swap"
    <2>1. TheCell(op, q) = IF q = t[1] THEN SwapTo(t[2] - t[1])
                           ELSE IF q = t[2] THEN SwapEnd ELSE Wire
        BY <1>3 DEF TheCell
    <2> HIDE DEF t, c
    <2>2. /\ TheCell(op, q).cell \in {"swap", "swap end", "qw"}
          /\ TheCell(op, q).cell = "swap" <=> q = t[1]
          /\ TheCell(op, q).cell = "swap end" <=> q = t[2] /\ q # t[1]
        BY <1>1, <2>1
    <2> QED BY <1>3, <2>2 DEF t, c
<1>4. CASE ~ isMeasurement(op) /\ op.gate # "swap"
    <2>1. TheCell(op, q) = IF HasValue(t, q) THEN GateCell(op)
                           ELSE IF HasValue(c, q) THEN Ctrl(t[1] - q) ELSE Wire
        BY <1>4 DEF TheCell
    <2> HIDE DEF t, c
    <2>2. /\ TheCell(op, q).cell \in {"gate", "ctrl", "qw"}
          /\ TheCell(op, q).cell = "gate" <=> HasValue(t, q)
          /\ TheCell(op, q).cell = "ctrl" <=> HasValue(c, q) /\ ~ HasValue(t, q)
        BY <1>1, <2>1
    <2> QED BY <1>4, <2>2 DEF t, c
<1> QED BY <1>2, <1>3, <1>4

\* A control leads to the row of the first target, a swap to the row of the second.
LEMMA LinksOfOperation ==
    ASSUME module \in Modules, NEW f \in DOMAIN module, NEW k \in DOMAIN module[f].ops,
           IsDrawable(f), NEW q \in Rows(f),
           isOperator(module[f].ops[k]) \/ isMeasurement(module[f].ops[k])
    PROVE  LET op == module[f].ops[k]
               cell == TheCell(op, q)
           IN  /\ cell.cell = "ctrl" => /\ q + cell.link \in Rows(f)
                                        /\ TheCell(op, q + cell.link).cell = "gate"
               /\ cell.cell = "swap" => /\ q + cell.link \in Rows(f)
                                        /\ TheCell(op, q + cell.link) = SwapEnd
<1> DEFINE op == module[f].ops[k]
           t == getIndicesOfValueRange(op.tgts)
           c == getIndicesOfValueRange(op.ctrls)
           cell == TheCell(op, q)
<1>1. op \in Op /\ q \in Int /\ getNumberOfQubits(module[f]) \in Nat
    BY Operands, Operations DEF Rows
<1>2. /\ isOperator(op) => Len(t) > 0 /\ \A i \in DOMAIN t : t[i] \in Rows(f)
      /\ op.gate = "swap" => Len(t) = 2 /\ isOperator(op)
      /\ DOMAIN t = 1 .. Len(t) /\ Len(t) \in Nat
      /\ isOperator(op) => ~ isMeasurement(op)
    BY <1>1, Operands, Kinds, Indices
<1>3. \A i, j \in DOMAIN t : t[i] = t[j] => i = j
    BY DistinctOperands
<1>4. ASSUME cell.cell = "ctrl"
      PROVE  q + cell.link \in Rows(f) /\ TheCell(op, q + cell.link).cell = "gate"
    <2>1. /\ ~ isMeasurement(op) /\ op.gate # "swap"
          /\ HasValue(c, q) /\ ~ HasValue(t, q)
        BY <1>4, KindsOfCells
    <2>2. cell = Ctrl(t[1] - q)
        BY <2>1 DEF TheCell
    <2>3. 1 \in DOMAIN t /\ t[1] \in Rows(f) /\ t[1] \in Int
        <3> HIDE DEF t, c, op, cell
        <3> QED BY <1>1, <1>2, <2>1 DEF Rows, op
    <2>4. q + cell.link = t[1]
        <3> HIDE DEF t, c, op, cell
        <3> QED BY <1>1, <2>2, <2>3 DEF Ctrl
    <2>5. HasValue(t, t[1])
        BY <2>3 DEF HasValue
    <2>6. TheCell(op, t[1]).cell = "gate"
        BY <2>1, <2>5, KindsOfCells
    <2> HIDE DEF t, c, op, cell
    <2> QED BY <2>3, <2>4, <2>6
<1>5. ASSUME cell.cell = "swap"
      PROVE  q + cell.link \in Rows(f) /\ TheCell(op, q + cell.link) = SwapEnd
    <2>1. ~ isMeasurement(op) /\ op.gate = "swap" /\ q = t[1]
        BY <1>5, KindsOfCells
    <2>2. cell = SwapTo(t[2] - t[1])
        BY <2>1 DEF TheCell
    <2>3. t[2] \in Rows(f) /\ t[2] \in Int /\ t[2] # t[1]
        <3> HIDE DEF t, c, op, cell
        <3> QED BY <1>1, <1>2, <1>3, <2>1 DEF Rows
    <2>4. q + cell.link = t[2]
        <3> HIDE DEF t, c, op, cell
        <3> QED BY <1>1, <2>1, <2>2, <2>3 DEF SwapTo
    <2>5. TheCell(op, t[2]) = SwapEnd
        BY <2>1, <2>3 DEF TheCell
    <2> HIDE DEF t, c, op, cell
    <2> QED BY <2>3, <2>4, <2>5
<1> QED BY <1>4, <1>5

\* The rows with a control, an end of a gate or a meter are those of the operands.
LEMMA RowsOfOperation ==
    ASSUME module \in Modules, NEW f \in DOMAIN module, NEW k \in DOMAIN module[f].ops,
           IsDrawable(f), NEW q \in Rows(f),
           isOperator(module[f].ops[k]) \/ isMeasurement(module[f].ops[k])
    PROVE  LET op == module[f].ops[k]
               t == getIndicesOfValueRange(op.tgts)
               c == getIndicesOfValueRange(op.ctrls)
               kind == TheCell(op, q).cell
           IN  /\ kind = "ctrl" <=> isOperator(op) /\ HasValue(c, q)
               /\ kind \in {"gate", "swap", "swap end"} <=> isOperator(op) /\ HasValue(t, q)
               /\ kind = "meter" <=> ~ isOperator(op) /\ (HasValue(t, q) \/ HasValue(t, Whole))
               /\ kind = "gate" => TheCell(op, q) = GateCell(op)
<1> DEFINE op == module[f].ops[k]
           t == getIndicesOfValueRange(op.tgts)
           c == getIndicesOfValueRange(op.ctrls)
           kind == TheCell(op, q).cell
<1>1. op \in Op
    BY Operands
<1>2. /\ op.gate = "swap" => Len(t) = 2 /\ isOperator(op) /\ DOMAIN c = {}
      /\ DOMAIN t = 1 .. Len(t)
      /\ isOperator(op) <=> ~ isMeasurement(op)
    BY <1>1, Operands, DistinctOperands, Kinds, Indices
<1>3. /\ op.gate = "swap" => ~ HasValue(c, q)
      /\ op.gate = "swap" => (HasValue(t, q) <=> q = t[1] \/ q = t[2])
    <2> HIDE DEF t, c, op
    <2>1. op.gate = "swap" => DOMAIN t = {1, 2}
        BY <1>2
    <2> QED BY <1>2, <2>1 DEF HasValue
<1>4. ~ (HasValue(t, q) /\ HasValue(c, q))
    <2>1. \A i \in DOMAIN t : \A j \in DOMAIN c : c[j] # t[i]
        BY DistinctOperands
    <2> HIDE DEF t, c, op
    <2> QED BY <2>1 DEF HasValue
<1>5. /\ kind = "ctrl" <=> ~ isMeasurement(op) /\ op.gate # "swap" /\ HasValue(c, q) /\ ~ HasValue(t, q)
      /\ kind = "gate" <=> ~ isMeasurement(op) /\ op.gate # "swap" /\ HasValue(t, q)
      /\ kind = "swap" <=> ~ isMeasurement(op) /\ op.gate = "swap" /\ q = t[1]
      /\ kind = "swap end" <=> ~ isMeasurement(op) /\ op.gate = "swap" /\ q = t[2] /\ q # t[1]
      /\ kind = "meter" <=> isMeasurement(op) /\ (HasValue(t, q) \/ HasValue(t, Whole))
    BY KindsOfCells
<1>6. kind = "gate" => TheCell(op, q) = GateCell(op)
    BY <1>5 DEF TheCell
<1> HIDE DEF op, t, c, kind
<1>7. kind = "ctrl" <=> isOperator(op) /\ HasValue(c, q)
    BY <1>2, <1>3, <1>4, <1>5
<1>8. kind \in {"gate", "swap", "swap end"} <=> isOperator(op) /\ HasValue(t, q)
    BY <1>2, <1>3, <1>5
<1>9. kind = "meter" <=> ~ isOperator(op) /\ (HasValue(t, q) \/ HasValue(t, Whole))
    BY <1>2, <1>5
<1> QED BY <1>6, <1>7, <1>8, <1>9 DEF op, t, c, kind

\* The column of an operation that has been drawn is its own.
LEMMA DrawnColumns ==
    ASSUME IInv, NEW f \in DOMAIN module, IsDrawable(f), NEW k \in Drawn(f)
    PROVE  /\ module \in Modules /\ k \in DOMAIN module[f].ops
           /\ isOperator(module[f].ops[k]) \/ isMeasurement(module[f].ops[k])
           /\ \A q \in Rows(f) : Cell(f, q, k) = TheCell(module[f].ops[k], q)
<1>1. next[f] \in 1 .. Len(module[f].ops) + 1 /\ module[f].ops \in Seq(Op)
    BY Typed DEF IInv, TypeOK
<1>2. k \in 1 .. next[f] - 1
    BY DEF Drawn, DrawnBefore
<1>3. k \in DOMAIN module[f].ops
    BY <1>1, <1>2
<1>4. \A q \in Rows(f) : Cell(f, q, k) = TheCell(module[f].ops[k], q)
    BY DEF IInv, ColumnsOfOperations
<1> QED BY <1>3, <1>4, Typed DEF Drawn, DrawnBefore

LEMMA LinksFollow == IInv => LinksMeet
<1> SUFFICES ASSUME IInv, NEW f \in DOMAIN module, IsDrawable(f),
                    NEW q \in Rows(f), NEW k \in Drawn(f)
             PROVE  /\ Cell(f, q, k).cell = "ctrl" =>
                         /\ q + Cell(f, q, k).link \in Rows(f)
                         /\ Cell(f, q + Cell(f, q, k).link, k).cell = "gate"
                    /\ Cell(f, q, k).cell = "swap" =>
                         /\ q + Cell(f, q, k).link \in Rows(f)
                         /\ Cell(f, q + Cell(f, q, k).link, k) = SwapEnd
    BY DEF LinksMeet
<1> DEFINE op == module[f].ops[k]
           d == q + Cell(f, q, k).link
<1>1. /\ module \in Modules /\ k \in DOMAIN module[f].ops
      /\ isOperator(op) \/ isMeasurement(op)
      /\ \A r \in Rows(f) : Cell(f, r, k) = TheCell(op, r)
    BY DrawnColumns
<1>2. /\ TheCell(op, q).cell = "ctrl" => /\ q + TheCell(op, q).link \in Rows(f)
                                         /\ TheCell(op, q + TheCell(op, q).link).cell = "gate"
      /\ TheCell(op, q).cell = "swap" => /\ q + TheCell(op, q).link \in Rows(f)
                                         /\ TheCell(op, q + TheCell(op, q).link) = SwapEnd
    BY <1>1, LinksOfOperation
<1>3. Cell(f, q, k) = TheCell(op, q) /\ (d \in Rows(f) => Cell(f, d, k) = TheCell(op, d))
    BY <1>1
<1> HIDE DEF op
<1> QED BY <1>2, <1>3

LEMMA ColumnsFollow == IInv => DiagramShowsKernel
<1> SUFFICES ASSUME IInv, NEW f \in DOMAIN module, IsDrawable(f), NEW k \in Drawn(f)
             PROVE  LET op == module[f].ops[k]
                        targets == Range(getIndicesOfValueRange(op.tgts))
                        controls == Range(getIndicesOfValueRange(op.ctrls))
                    IN  /\ RowsWith(f, k, {"ctrl"}) = IF isOperator(op) THEN controls ELSE {}
                        /\ RowsWith(f, k, {"gate", "swap", "swap end"}) =
                             IF isOperator(op) THEN targets ELSE {}
                        /\ RowsWith(f, k, {"meter"}) = IF isOperator(op) THEN {}
                                                       ELSE IF Whole \in targets THEN Rows(f)
                                                       ELSE targets
                        /\ \A q \in RowsWith(f, k, {"gate"}) : Cell(f, q, k) = GateCell(op)
    BY DEF DiagramShowsKernel
<1> DEFINE op == module[f].ops[k]
           t == getIndicesOfValueRange(op.tgts)
           c == getIndicesOfValueRange(op.ctrls)
<1>1. /\ module \in Modules /\ k \in DOMAIN module[f].ops
      /\ isOperator(op) \/ isMeasurement(op)
      /\ \A q \in Rows(f) : Cell(f, q, k) = TheCell(op, q)
    BY DrawnColumns
<1>2. \A q \in Rows(f) :
        /\ Cell(f, q, k).cell = "ctrl" <=> isOperator(op) /\ HasValue(c, q)
        /\ Cell(f, q, k).cell \in {"gate", "swap", "swap end"} <=> isOperator(op) /\ HasValue(t, q)
        /\ Cell(f, q, k).cell = "meter" <=>
             ~ isOperator(op) /\ (HasValue(t, q) \/ HasValue(t, Whole))
        /\ Cell(f, q, k).cell = "gate" => Cell(f, q, k) = GateCell(op)
    <2> SUFFICES ASSUME NEW q \in Rows(f)
                 PROVE  /\ Cell(f, q, k).cell = "ctrl" <=> isOperator(op) /\ HasValue(c, q)
                        /\ Cell(f, q, k).cell \in {"gate", "swap", "swap end"} <=>
                             isOperator(op) /\ HasValue(t, q)
                        /\ Cell(f, q, k).cell = "meter" <=>
                             ~ isOperator(op) /\ (HasValue(t, q) \/ HasValue(t, Whole))
                        /\ Cell(f, q, k).cell = "gate" => Cell(f, q, k) = GateCell(op)
        OBVIOUS
    <2>1. /\ TheCell(op, q).cell = "ctrl" <=> isOperator(op) /\ HasValue(c, q)
          /\ TheCell(op, q).cell \in {"gate", "swap", "swap end"} <=>
               isOperator(op) /\ HasValue(t, q)
          /\ TheCell(op, q).cell = "meter" <=>
               ~ isOperator(op) /\ (HasValue(t, q) \/ HasValue(t, Whole))
          /\ TheCell(op, q).cell = "gate" => TheCell(op, q) = GateCell(op)
        BY <1>1, RowsOfOperation
    <2>2. Cell(f, q, k) = TheCell(op, q)
        BY <1>1
    <2> HIDE DEF op, t, c
    <2> QED BY <2>1, <2>2
<1>3. /\ isOperator(op) => /\ \A q : HasValue(c, q) => q \in Rows(f)
                           /\ \A q : HasValue(t, q) => q \in Rows(f)
      /\ \A q : HasValue(t, q) => q \in Rows(f) \/ q = Whole
    BY <1>1, Operands DEF HasValue
<1>4. \A q : (q \in Range(t) <=> HasValue(t, q)) /\ (q \in Range(c) <=> HasValue(c, q))
    BY RangeHasValue
<1> HIDE DEF op, t, c
<1>5. RowsWith(f, k, {"ctrl"}) = IF isOperator(op) THEN Range(c) ELSE {}
    BY <1>2, <1>3, <1>4 DEF RowsWith
<1>6. RowsWith(f, k, {"gate", "swap", "swap end"}) = IF isOperator(op) THEN Range(t) ELSE {}
    BY <1>2, <1>3, <1>4 DEF RowsWith
<1>7. RowsWith(f, k, {"meter"}) = IF isOperator(op) THEN {}
                                  ELSE IF Whole \in Range(t) THEN Rows(f) ELSE Range(t)
    <2>1. \A q : q \in RowsWith(f, k, {"meter"}) <=>
                   q \in Rows(f) /\ ~ isOperator(op) /\ (q \in Range(t) \/ Whole \in Range(t))
        BY <1>2, <1>4 DEF RowsWith
    <2>2. CASE isOperator(op)
        BY <2>1, <2>2
    <2>3. CASE ~ isOperator(op) /\ Whole \in Range(t)
        BY <2>1, <2>3
    <2>4. CASE ~ isOperator(op) /\ Whole \notin Range(t)
        BY <1>3, <1>4, <2>1, <2>4
    <2> QED BY <2>2, <2>3, <2>4
<1>8. \A q \in RowsWith(f, k, {"gate"}) : Cell(f, q, k) = GateCell(op)
    BY <1>2 DEF RowsWith
<1> QED BY <1>5, <1>6, <1>7, <1>8 DEF op, t, c

LEMMA KernelsAreWritten == IInv => EveryKernelOnce
<1> SUFFICES ASSUME IInv, curIndex = Len(module), active = {}
             PROVE  /\ \A k \in DOMAIN outputStream :
                         LET f == outputStream[k].of
                         IN  /\ f \in KernelsOfModule
                             /\ outputStream[k] = Diagram(f)[Cardinality(PiecesOf(f, k))]
                    /\ \A f \in KernelsOfModule :
                         Cardinality(PiecesOf(f, Len(outputStream))) = Len(Diagram(f))
    BY DEF EveryKernelOnce
<1>1. PiecesInOrder
    BY DEF IInv
<1>2. ASSUME NEW f \in KernelsOfModule
      PROVE  Cardinality(PiecesOf(f, Len(outputStream))) = Len(Diagram(f))
    <2>1. f \in DOMAIN module /\ module[f].prefixed /\ f <= curIndex
        BY Typed DEF KernelsOfModule
    <2>2. written[f] = getNumberOfQubits(module[f]) + 2
        BY <2>1 DEF IInv, Progress
    <2>3. Len(Diagram(f)) = getNumberOfQubits(module[f]) + 2
        BY <2>1, Typed, DiagramShape
    <2>4. Cardinality(PiecesOf(f, Len(outputStream))) = written[f]
        BY <1>1, <2>1 DEF PiecesInOrder
    <2> QED BY <2>2, <2>3, <2>4
<1> QED BY <1>1, <1>2 DEF PiecesInOrder

-----------------------------------------------------------------------------
(* Theorems *)

\* Every variable has its type, for all modules and threads: only kernels are worked on,
\* by no more threads than there are.
THEOREM TypeCorrect == Spec => []TypeOK
<1>1. IInv => TypeOK
    BY DEF IInv
<1> QED BY <1>1, Invariance, PTL

\* The rows of a diagram stay equally long, one cell for each operation, for kernels of
\* every length that have one register and no swap under a control.
THEOREM ColumnsStayAligned == Spec => []ColumnsAlign
<1>1. IInv => ColumnsAlign
    BY DEF IInv
<1> QED BY <1>1, Invariance, PTL

\* In every such diagram a control is linked to a box, and a swap to its other end.
THEOREM LinksLeadToTheirEnds == Spec => []LinksMeet
BY LinksFollow, Invariance, PTL

\* In every such diagram each operation can be read off its column: no operand is missing,
\* and none is in the column of another operation.
THEOREM ColumnsShowOperations == Spec => []DiagramShowsKernel
BY ColumnsFollow, Invariance, PTL

\* The stream holds one diagram after the other, for all modules, with one thread or one
\* kernel.
THEOREM DiagramsFollow == Spec => []OneDiagramAfterTheOther
<1>1. IInv => OneDiagramAfterTheOther
    BY DEF IInv
<1> QED BY <1>1, Invariance, PTL

\* At the end each kernel's diagram is in the stream once, its pieces in their order,
\* however many threads there are.
THEOREM KernelsAreDrawnOnce == Spec => []EveryKernelOnce
BY KernelsAreWritten, Invariance, PTL
=============================================================================
