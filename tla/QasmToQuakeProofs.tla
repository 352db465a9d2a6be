-------------------------- MODULE QasmToQuakeProofs -------------------------
(***************************************************************************)
(* What the QASM 3 front end guarantees, for every set of programs the     *)
(* parser may return.  In the order of the sections: the gate table; gate  *)
(* calls; registers and measurements; the steps of the pass; results.      *)
(***************************************************************************)
EXTENDS QasmToQuake, PassLemmas

(* The gate table *)

\* What an entry inserts: operations of Quake on operands of the program, no measurements.
Insertion == [gate : Gates, adj : BOOLEAN, params : Seq(Params),
              ctrls : Seq(Operand), tgts : Seq(Operand)]

LEMMA OperationInserted ==
    ASSUME NEW g \in Gates, NEW adj \in BOOLEAN, NEW p \in Seq(Params),
           NEW c \in Seq(Operand), NEW t \in Seq(Operand)
    PROVE  Operation(g, adj, p, c, t) \in Insertion
BY DEF Operation, Insertion

LEMMA GateInserted ==
    ASSUME NEW g \in Gates, NEW c \in Seq(Operand), NEW t \in Seq(Operand)
    PROVE  Gate(g, c, t) \in Insertion
<1>1. <<>> \in Seq(Params)
    OBVIOUS
<1> QED BY <1>1, OperationInserted DEF Gate

LEMMA RotateInserted ==
    ASSUME NEW g \in Gates, NEW p \in Params, NEW c \in Seq(Operand), NEW t \in Seq(Operand)
    PROVE  Rotate(g, p, c, t) \in Insertion
<1>1. <<p>> \in Seq(Params)
    OBVIOUS
<1> QED BY <1>1, OperationInserted DEF Rotate

LEMMA AngleIsParameter ==
    ASSUME NEW ticks \in Int
    PROVE  createFloatValue(ticks) \in Params
BY DEF createFloatValue, Params

LEMMA TurnInserted ==
    ASSUME NEW g \in Gates, NEW ticks \in Int, NEW c \in Seq(Operand), NEW t \in Seq(Operand)
    PROVE  Turn(g, ticks, c, t) \in Insertion
BY AngleIsParameter, RotateInserted DEF Turn

LEMMA ParameterHasAngle ==
    ASSUME NEW p \in Params
    PROVE  extractDoubleArgumentValue(p) \in Int
BY DEF extractDoubleArgumentValue, AsFloat, FullTurn, MinusOneRadian, Params

\* The gates of the six parts of the table
LEMMA EntryNames ==
    /\ DOMAIN PlainGates = {"x", "y", "z", "h", "ch", "s", "sdg", "t", "tdg"}
    /\ DOMAIN RotationGates = {"rx", "rz", "ry", "crx", "cry", "p", "phase"}
    /\ DOMAIN ControlledGates = {"cx", "CX", "ccx", "cy", "cz", "swap"}
    /\ DOMAIN U1Gates = {"u1", "cu1"}
    /\ DOMAIN U3Gates = {"u3", "cu3"}
    /\ DOMAIN SwapGates = {"cswap"}
BY DEF PlainGates, RotationGates, ControlledGates, U1Gates, U3Gates, SwapGates

\* No gate is in two of them.
LEMMA OneEntry ==
    /\ \A gate \in DOMAIN PlainGates : OneOperation(gate) = PlainGates[gate]
    /\ \A gate \in DOMAIN RotationGates : OneOperation(gate) = RotationGates[gate]
    /\ \A gate \in DOMAIN ControlledGates : OneOperation(gate) = ControlledGates[gate]
    /\ \A gate \in DOMAIN U1Gates : OneOperation(gate) = U1Gates[gate]
    /\ \A gate \in DOMAIN U3Gates : OneOperation(gate) = U3Gates[gate]
    /\ \A gate \in DOMAIN SwapGates : OneOperation(gate) = SwapGates[gate]
BY EntryNames DEF OneOperation

LEMMA OperationsOfGates ==
    /\ \A gate \in OneOperationGates : OneOperation(gate).op \in Gates
    /\ {"x", "h", "z", "rx", "ry", "rz", "r1", "u3"} \subseteq Gates
<1>1. \A gate \in DOMAIN PlainGates : PlainGates[gate].op \in Gates
    BY DEF PlainGates, Creates, Gates
<1>2. \A gate \in DOMAIN RotationGates : RotationGates[gate].op \in Gates
    BY DEF RotationGates, Creates, Gates
<1>3. \A gate \in DOMAIN ControlledGates : ControlledGates[gate].op \in Gates
    BY DEF ControlledGates, Creates, Gates
<1>4. \A gate \in DOMAIN U1Gates : U1Gates[gate].op \in Gates
    BY DEF U1Gates, Creates, Gates
<1>5. \A gate \in DOMAIN U3Gates : U3Gates[gate].op \in Gates
    BY DEF U3Gates, Creates, Gates
<1>6. \A gate \in DOMAIN SwapGates : SwapGates[gate].op \in Gates
    BY DEF SwapGates, Creates, Gates
<1>7. {"x", "h", "z", "rx", "ry", "rz", "r1", "u3"} \subseteq Gates
    BY DEF Gates
<1> QED BY <1>1, <1>2, <1>3, <1>4, <1>5, <1>6, <1>7, OneEntry DEF OneOperationGates

\* The entries that make a sequence, on one target ...
LEMMA OneTargetSequences ==
    ASSUME NEW p \in Seq(Params), NEW c \in Seq(Operand), NEW t \in Seq(Operand)
    PROVE  /\ sx(c, t) \in Seq(Insertion) /\ sxdg(c, t) \in Seq(Insertion)
           /\ Len(p) >= 3 => U(p, c, t) \in Seq(Insertion)
           /\ Len(p) >= 2 => u2(p, c, t) \in Seq(Insertion)
           /\ Len(p) >= 1 => ControlledPhase(p, c, t) \in Seq(Insertion)
<1>1. /\ \A i \in 1 .. Len(p) : p[i] \in Params
      /\ PI_2 \in Int /\ - PI_2 \in Int
      /\ <<>> \in Seq(Operand)
    BY DEF PI_2
<1>2. {"x", "rx", "ry", "rz"} \subseteq Gates
    BY OperationsOfGates
<1>3. sx(c, t) \in Seq(Insertion) /\ sxdg(c, t) \in Seq(Insertion)
    <2>1. Turn("rx", PI_2, c, t) \in Insertion /\ Turn("rx", - PI_2, c, t) \in Insertion
        BY <1>1, <1>2, TurnInserted
    <2> QED BY <2>1 DEF sx, sxdg
<1>4. ASSUME Len(p) >= 3 PROVE U(p, c, t) \in Seq(Insertion)
    <2>1. p[1] \in Params /\ p[2] \in Params /\ p[3] \in Params
        BY <1>1, <1>4
    <2>2. /\ Rotate("rz", p[3], c, t) \in Insertion /\ Rotate("ry", p[1], c, t) \in Insertion
          /\ Rotate("rz", p[2], c, t) \in Insertion
        BY <1>2, <2>1, RotateInserted
    <2> QED BY <2>2 DEF U
<1>5. ASSUME Len(p) >= 2 PROVE u2(p, c, t) \in Seq(Insertion)
    <2>1. p[1] \in Params /\ p[2] \in Params
        BY <1>1, <1>5
    <2>2. /\ Rotate("rz", p[2], c, t) \in Insertion /\ Turn("ry", PI_2, c, t) \in Insertion
          /\ Rotate("rz", p[1], c, t) \in Insertion
        BY <1>1, <1>2, <2>1, RotateInserted, TurnInserted
    <2> QED BY <2>2 DEF u2
<1>6. ASSUME Len(p) >= 1 PROVE ControlledPhase(p, c, t) \in Seq(Insertion)
    <2> DEFINE angle == extractDoubleArgumentValue(p[1])
    <2>1. angle \in Int
        BY <1>1, <1>6, ParameterHasAngle
    <2> HIDE DEF angle
    <2>2. angle \div 2 \in Int /\ (- angle) \div 2 \in Int
        BY <2>1
    <2>3. /\ Turn("rz", angle \div 2, <<>>, c) \in Insertion
          /\ Turn("rz", (- angle) \div 2, <<>>, t) \in Insertion
          /\ Turn("rz", angle \div 2, <<>>, t) \in Insertion
          /\ Gate("x", c, t) \in Insertion
        BY <1>1, <1>2, <2>2, TurnInserted, GateInserted
    <2> QED BY <2>3 DEF ControlledPhase, angle
<1> QED BY <1>3, <1>4, <1>5, <1>6

\* ... and on two or three.
LEMMA TwoTargetSequences ==
    ASSUME NEW p \in Seq(Params), NEW c \in Seq(Operand), NEW t \in Seq(Operand), Len(t) >= 2
    PROVE  /\ iswap(c, t) \in Seq(Insertion) /\ iswapdg(c, t) \in Seq(Insertion)
           /\ dcx(c, t) \in Seq(Insertion)
           /\ Len(p) >= 1 => /\ rxx(p, c, t) \in Seq(Insertion) /\ ryy(p, c, t) \in Seq(Insertion)
                             /\ rzz(p, c, t) \in Seq(Insertion) /\ rzx(p, c, t) \in Seq(Insertion)
<1>1. /\ {"x", "h", "z", "ry", "rz", "r1", "u3"} \subseteq Gates
      /\ <<t[1]>> \in Seq(Operand) /\ <<t[2]>> \in Seq(Operand) /\ <<>> \in Seq(Operand)
    BY OperationsOfGates
<1>2. \A g \in {"x", "h", "z"} : \A d \in {<<>>, c, <<t[1]>>, <<t[2]>>}, u \in {<<t[1]>>, <<t[2]>>} :
        Gate(g, d, u) \in Insertion
    BY <1>1, GateInserted
<1>3. iswap(c, t) \in Seq(Insertion) /\ iswapdg(c, t) \in Seq(Insertion) /\ dcx(c, t) \in Seq(Insertion)
    BY <1>2 DEF iswap, iswapdg, dcx
<1>4. ASSUME Len(p) >= 1
      PROVE  /\ ryy(p, c, t) \in Seq(Insertion) /\ rzz(p, c, t) \in Seq(Insertion)
             /\ rzx(p, c, t) \in Seq(Insertion)
    <2>1. p[1] \in Params
        BY <1>4
    <2>2. /\ Rotate("rz", p[1], c, <<t[1]>>) \in Insertion
          /\ Rotate("rz", p[1], c, <<t[2]>>) \in Insertion
          /\ Rotate("r1", p[1], c, <<t[2]>>) \in Insertion
        BY <1>1, <2>1, RotateInserted
    <2> QED BY <1>2, <2>2 DEF ryy, rzz, rzx
<1>5. ASSUME Len(p) >= 1 PROVE rxx(p, c, t) \in Seq(Insertion)
    <2> DEFINE angle == extractDoubleArgumentValue(p[1])
               first == Operation("u3", FALSE,
                          <<createFloatValue(PI_2), p[1], createFloatValue(0)>>, c, <<t[1]>>)
    <2>1. p[1] \in Params
        BY <1>5
    <2>2. angle \in Int
        BY <2>1, ParameterHasAngle
    <2>3. first \in Insertion
        <3>1. createFloatValue(PI_2) \in Params /\ createFloatValue(0) \in Params
            BY AngleIsParameter DEF PI_2
        <3>2. <<createFloatValue(PI_2), p[1], createFloatValue(0)>> \in Seq(Params)
            BY <2>1, <3>1
        <3> QED BY <1>1, <3>2, OperationInserted
    <2> HIDE DEF angle, first
    <2>4. - angle \in Int /\ PI - angle \in Int /\ PI_2 \in Int /\ - PI \in Int
        BY <2>2 DEF PI, PI_2
    <2>5. /\ Turn("r1", - angle, c, <<t[2]>>) \in Insertion
          /\ Turn("rz", PI - angle, c, <<t[1]>>) \in Insertion
          /\ Turn("ry", PI_2, c, <<t[1]>>) \in Insertion
          /\ Turn("rz", - PI, c, <<t[1]>>) \in Insertion
        BY <1>1, <2>4, TurnInserted
    <2> DEFINE hadamard == Gate("h", c, <<t[2]>>)
               cx == Gate("x", <<t[1]>>, <<t[2]>>)
               a == Turn("r1", - angle, c, <<t[2]>>)
               b == Turn("rz", PI - angle, c, <<t[1]>>)
               d == Turn("ry", PI_2, c, <<t[1]>>)
               e == Turn("rz", - PI, c, <<t[1]>>)
    <2>6. hadamard \in Insertion /\ cx \in Insertion
        BY <1>2
    <2>7. rxx(p, c, t) = <<first, hadamard, cx, a, cx, b, d, e, hadamard>>
        BY DEF rxx, angle, first
    <2> HIDE DEF hadamard, cx, a, b, d, e
    <2>8. <<first, hadamard, cx, a, cx, b, d, e, hadamard>> \in Seq(Insertion)
        BY <2>3, <2>5, <2>6 DEF a, b, d, e
    <2> QED BY <2>7, <2>8
<1> QED BY <1>3, <1>4, <1>5

LEMMA EchoedCrossResonance ==
    ASSUME NEW c \in Seq(Operand), NEW t \in Seq(Operand), Len(t) >= 2
    PROVE  ecr(c, t) \in Seq(Insertion)
<1> DEFINE a == rzx(<<createFloatValue(PI_4)>>, c, t)
           b == <<Turn("rx", PI, c, <<t[1]>>)>>
           d == rzx(<<createFloatValue(- PI_4)>>, c, t)
<1>1. PI_4 \in Int /\ - PI_4 \in Int /\ PI \in Int
    BY DEF PI_4, PI
<1>2. /\ <<createFloatValue(PI_4)>> \in Seq(Params) /\ <<createFloatValue(- PI_4)>> \in Seq(Params)
      /\ Len(<<createFloatValue(PI_4)>>) >= 1 /\ Len(<<createFloatValue(- PI_4)>>) >= 1
    BY <1>1, AngleIsParameter
<1>3. a \in Seq(Insertion) /\ d \in Seq(Insertion)
    BY <1>2, TwoTargetSequences
<1>4. b \in Seq(Insertion)
    <2>1. "rx" \in Gates /\ <<t[1]>> \in Seq(Operand)
        BY OperationsOfGates
    <2>2. Turn("rx", PI, c, <<t[1]>>) \in Insertion
        BY <1>1, <2>1, TurnInserted
    <2> QED BY <2>2
<1>5. ecr(c, t) = a \o b \o d
    BY DEF ecr
<1> HIDE DEF a, b, d
<1> QED BY <1>3, <1>4, <1>5, ConcatIsSeq

LEMMA RelativePhaseToffoli ==
    ASSUME NEW c \in Seq(Operand), NEW t \in Seq(Operand), Len(t) >= 3
    PROVE  rccx(c, t) \in Seq(Insertion)
<1> DEFINE On2(g, ticks) == Turn(g, ticks, c, <<t[3]>>)
           Hadamard == <<On2("rz", PI), On2("ry", PI_2), On2("rz", 0)>>
           CX(i) == Gate("x", <<t[i]>>, <<t[3]>>)
           middle == <<On2("r1", PI_4), CX(2), On2("r1", - PI_4), CX(1),
                       On2("r1", PI_4), CX(2), On2("r1", - PI_4)>>
<1>1. /\ {"x", "ry", "rz", "r1"} \subseteq Gates
      /\ <<t[1]>> \in Seq(Operand) /\ <<t[2]>> \in Seq(Operand) /\ <<t[3]>> \in Seq(Operand)
    BY OperationsOfGates
<1>2. PI \in Int /\ PI_2 \in Int /\ PI_4 \in Int /\ - PI_4 \in Int /\ 0 \in Int
    BY DEF PI, PI_2, PI_4
<1>3. /\ On2("rz", PI) \in Insertion /\ On2("ry", PI_2) \in Insertion /\ On2("rz", 0) \in Insertion
      /\ On2("r1", PI_4) \in Insertion /\ On2("r1", - PI_4) \in Insertion
      /\ CX(1) \in Insertion /\ CX(2) \in Insertion
    BY <1>1, <1>2, TurnInserted, GateInserted
<1>4. rccx(c, t) = Hadamard \o middle \o Hadamard
    BY DEF rccx
<1> HIDE DEF On2, CX
<1>5. Hadamard \in Seq(Insertion) /\ middle \in Seq(Insertion)
    BY <1>3
<1> HIDE DEF Hadamard, middle
<1> QED BY <1>4, <1>5, ConcatIsSeq

\* Has a call the parameters and the targets that the entry takes by their number?
Supplied(gate, p, t) ==
    /\ gate \in {"U", "u"} => Len(p) >= 3
    /\ gate = "u2" => Len(p) >= 2
    /\ gate \in {"cp", "cphase", "rxx", "ryy", "rzz", "rzx"} => Len(p) >= 1
    /\ gate \in {"iswap", "iswapdg", "rxx", "ryy", "rzz", "rzx", "dcx", "ecr"} => Len(t) >= 2
    /\ gate = "rccx" => Len(t) >= 3

\* Then the entry inserts operations of Quake.
LEMMA EntryInserts ==
    ASSUME NEW gate, NEW p \in Seq(Params), NEW c \in Seq(Operand), NEW t \in Seq(Operand),
           Supplied(gate, p, t)
    PROVE  insertQASMGateIntoQuakeModule(gate, p, c, t) \in Seq(Insertion)
<1> DEFINE Sequences == {"U", "u", "u2", "sx", "sxdg", "cp", "cphase", "rccx", "iswap", "iswapdg",
                         "rxx", "ryy", "rzz", "rzx", "dcx", "ecr"}
<1>0. OneOperationGates \cap Sequences = {}
    BY EntryNames DEF OneOperationGates
<1>1. CASE gate \in OneOperationGates
    <2> DEFINE op == Operation(OneOperation(gate).op, IsAdjoint(gate), p, c, t)
    <2>1. insertQASMGateIntoQuakeModule(gate, p, c, t) = <<op>>
        <3>1. gate \notin Sequences
            BY <1>0, <1>1
        <3> HIDE DEF op
        <3> QED BY <1>1, <3>1 DEF insertQASMGateIntoQuakeModule, op
    <2>2. OneOperation(gate).op \in Gates /\ IsAdjoint(gate) \in BOOLEAN
        BY <1>1, OperationsOfGates DEF IsAdjoint
    <2>3. op \in Insertion
        BY <2>2, OperationInserted
    <2> HIDE DEF op
    <2> QED BY <2>1, <2>3
<1>2. CASE gate \notin OneOperationGates /\ gate \in Sequences
    <2>1. CASE gate \in {"U", "u"}
        BY <1>2, <2>1, OneTargetSequences DEF Supplied, insertQASMGateIntoQuakeModule
    <2>2. CASE gate = "u2"
        BY <1>2, <2>2, OneTargetSequences DEF Supplied, insertQASMGateIntoQuakeModule
    <2>3. CASE gate = "sx"
        BY <1>2, <2>3, OneTargetSequences DEF Supplied, insertQASMGateIntoQuakeModule
    <2>4. CASE gate = "sxdg"
        BY <1>2, <2>4, OneTargetSequences DEF Supplied, insertQASMGateIntoQuakeModule
    <2>5. CASE gate \in {"cp", "cphase"}
        BY <1>2, <2>5, OneTargetSequences DEF Supplied, insertQASMGateIntoQuakeModule
    <2>6. CASE gate = "rccx"
        BY <1>2, <2>6, RelativePhaseToffoli DEF Supplied, insertQASMGateIntoQuakeModule
    <2>7. CASE gate = "iswap"
        BY <1>2, <2>7, TwoTargetSequences DEF Supplied, insertQASMGateIntoQuakeModule
    <2>8. CASE gate = "iswapdg"
        BY <1>2, <2>8, TwoTargetSequences DEF Supplied, insertQASMGateIntoQuakeModule
    <2>9. CASE gate = "rxx"
        BY <1>2, <2>9, TwoTargetSequences DEF Supplied, insertQASMGateIntoQuakeModule
    <2>10. CASE gate = "ryy"
        BY <1>2, <2>10, TwoTargetSequences DEF Supplied, insertQASMGateIntoQuakeModule
    <2>11. CASE gate = "rzz"
        BY <1>2, <2>11, TwoTargetSequences DEF Supplied, insertQASMGateIntoQuakeModule
    <2>12. CASE gate = "rzx"
        BY <1>2, <2>12, TwoTargetSequences DEF Supplied, insertQASMGateIntoQuakeModule
    <2>13. CASE gate = "dcx"
        BY <1>2, <2>13, TwoTargetSequences DEF Supplied, insertQASMGateIntoQuakeModule
    <2>14. CASE gate = "ecr"
        BY <1>2, <2>14, EchoedCrossResonance DEF Supplied, insertQASMGateIntoQuakeModule
    <2> QED BY <1>2, <2>1, <2>2, <2>3, <2>4, <2>5, <2>6, <2>7, <2>8, <2>9, <2>10, <2>11,
               <2>12, <2>13, <2>14
<1>3. CASE gate \notin OneOperationGates /\ gate \notin Sequences
    <2>1. insertQASMGateIntoQuakeModule(gate, p, c, t) = <<>>
        BY <1>3 DEF insertQASMGateIntoQuakeModule
    <2> QED BY <2>1
<1> QED BY <1>1, <1>2, <1>3

\* The numbers of parameters, controls and targets of two gates agree.
Agree(a, b) == /\ a \in Nat \X Nat \X Nat /\ b \in Nat \X Nat \X Nat
               /\ a[1] = b[1] /\ a[2] = b[2] /\ a[3] = b[3]

LEMMA AgreeIsEqual == \A a, b : Agree(a, b) => a = b
BY DEF Agree

\* An entry asserts what the standard library says of its gate.
LEMMA EntryArities ==
    /\ \A gate \in OneOperationGates : Agree(OneOperation(gate).arity, Signature[gate])
    /\ \A gate \in DOMAIN SequenceArity : Agree(SequenceArity[gate], Signature[gate])
<1>1. \A gate \in DOMAIN PlainGates : Agree(PlainGates[gate].arity, Signature[gate])
    BY DEF PlainGates, Creates, Signature, Agree
<1>2. \A gate \in DOMAIN RotationGates : Agree(RotationGates[gate].arity, Signature[gate])
    BY DEF RotationGates, Creates, Signature, Agree
<1>3. \A gate \in DOMAIN ControlledGates : Agree(ControlledGates[gate].arity, Signature[gate])
    BY DEF ControlledGates, Creates, Signature, Agree
<1>4. \A gate \in DOMAIN U1Gates : Agree(U1Gates[gate].arity, Signature[gate])
    BY DEF U1Gates, Creates, Signature, Agree
<1>5. \A gate \in DOMAIN U3Gates : Agree(U3Gates[gate].arity, Signature[gate])
    BY DEF U3Gates, Creates, Signature, Agree
<1>6. \A gate \in DOMAIN SwapGates : Agree(SwapGates[gate].arity, Signature[gate])
    BY DEF SwapGates, Creates, Signature, Agree
<1>7. \A gate \in DOMAIN SequenceArity : Agree(SequenceArity[gate], Signature[gate])
    BY DEF SequenceArity, Signature, Agree
<1> QED BY <1>1, <1>2, <1>3, <1>4, <1>5, <1>6, <1>7, OneEntry DEF OneOperationGates

LEMMA SequenceNames ==
    DOMAIN SequenceArity = {"U", "u", "u2", "sx", "sxdg", "cp", "cphase", "rxx", "rzz", "rzx",
                            "dcx", "ecr"}
BY DEF SequenceArity

\* The controls a gate has by its name
ImplicitControls(gate) == IF isMultiQubitGate(gate) THEN getNumControls(gate) ELSE 0

\* The two lists of names agree with each other and, for the gates of the table, with the
\* standard library.
LEMMA ControlsAgree ==
    /\ \A gate : ImplicitControls(gate) \in 0 .. 2
    /\ \A gate : ImplicitControls(gate) # 0 =>
                   gate \in DOMAIN Signature /\ ImplicitControls(gate) = Signature[gate][2]
    /\ \A gate \in OneOperationGates \cup DOMAIN SequenceArity \cup {"id", "rccx"} :
         ImplicitControls(gate) = Signature[gate][2]
<1>1. \A gate : ImplicitControls(gate) \in 0 .. 2
    BY DEF ImplicitControls, getNumControls
<1>2. \A gate : ImplicitControls(gate) # 0 =>
                  gate \in {"cx", "cy", "cz", "ch", "ccx", "cswap", "crx", "cry", "cp",
                            "cphase", "CX", "cu1", "cu3"}
    BY DEF ImplicitControls, isMultiQubitGate
<1>3. \A gate \in {"cx", "cy", "cz", "ch", "ccx", "cswap", "crx", "cry", "cp",
                   "cphase", "CX", "cu1", "cu3"} :
        gate \in DOMAIN Signature /\ ImplicitControls(gate) = Signature[gate][2]
    BY DEF Signature, ImplicitControls, isMultiQubitGate, getNumControls
<1>4. \A gate \in DOMAIN PlainGates \cup DOMAIN RotationGates \cup DOMAIN ControlledGates :
        ImplicitControls(gate) = Signature[gate][2]
    BY EntryNames DEF Signature, isMultiQubitGate, getNumControls, ImplicitControls
<1>5. \A gate \in DOMAIN U1Gates \cup DOMAIN U3Gates \cup DOMAIN SwapGates :
        ImplicitControls(gate) = Signature[gate][2]
    BY EntryNames DEF Signature, isMultiQubitGate, getNumControls, ImplicitControls
<1>6. \A gate \in DOMAIN SequenceArity \cup {"id", "rccx"} :
        ImplicitControls(gate) = Signature[gate][2]
    BY SequenceNames DEF Signature, isMultiQubitGate, getNumControls, ImplicitControls
<1> QED BY <1>1, <1>2, <1>3, <1>4, <1>5, <1>6 DEF OneOperationGates

LEMMA SignatureIsNatural ==
    \A gate \in DOMAIN Signature : Signature[gate] \in Nat \X Nat \X Nat
BY DEF Signature

-----------------------------------------------------------------------------
(* Gate calls *)

GateCall == {s \in Statement : s.kind = "gate"}

LEMMA GateCallFields ==
    ASSUME NEW call \in GateCall
    PROVE  /\ call.params \in Seq(Int) /\ call.operands \in Seq(Operand)
           /\ Len(call.params) \in Nat /\ Len(call.operands) \in Nat
BY DEF GateCall, Statement

\* Does a call have the parameters and the qubits of its gate (IsProgram)?
Called(call) ==
    call.id \in DOMAIN Signature \cup {"iswapdg"} =>
      LET arity == Signature[IF call.id = "iswapdg" THEN "iswap" ELSE call.id]
          n == Len(call.operands)
      IN  /\ Len(call.params) = arity[1]
          /\ n >= arity[2] + arity[3]
          /\ call.mods = <<>> => n = arity[2] + arity[3]

LEMMA CallOfProgram ==
    ASSUME NEW prog, IsProgram(prog), NEW i \in DOMAIN prog, prog[i].kind = "gate"
    PROVE  prog[i] \in GateCall /\ Called(prog[i])
<1>1. prog[i] \in GateCall
    BY DEF IsProgram, GateCall
<1>2. Called(prog[i])
    BY DEF IsProgram, Called
<1> QED BY <1>1, <1>2

\* What insertGate makes of a call
ParamsOf(call) == [i \in DOMAIN call.params |-> createFloatValue(call.params[i])]
CtrlsOf(call) == SubSeq(call.operands, 1, ImplicitControls(call.id))
TgtsOf(call) == SubSeq(call.operands, ImplicitControls(call.id) + 1, Len(call.operands))

\* A call has as many qubits as its gate has controls.
LEMMA OperandsSuffice ==
    ASSUME NEW call \in GateCall, Called(call)
    PROVE  ImplicitControls(call.id) \in 0 .. Len(call.operands)
<1> DEFINE n == Len(call.operands)
           k == ImplicitControls(call.id)
<1>1. n \in Nat /\ k \in 0 .. 2
    BY GateCallFields, ControlsAgree
<1>2. CASE k = 0
    BY <1>1, <1>2
<1>3. CASE k # 0
    <2>1. call.id \in DOMAIN Signature /\ k = Signature[call.id][2]
        BY <1>3, ControlsAgree
    <2>2. "iswapdg" \notin DOMAIN Signature
        BY DEF Signature
    <2>3. Signature[call.id] \in Nat \X Nat \X Nat
        BY <2>1, SignatureIsNatural
    <2>4. n >= Signature[call.id][2] + Signature[call.id][3]
        BY <2>1, <2>2 DEF Called
    <2>5. k \in 0 .. n
        <3> HIDE DEF n, k
        <3> QED BY <1>1, <2>1, <2>3, <2>4
    <2> QED BY <2>5
<1> QED BY <1>2, <1>3

LEMMA OperandsOfCall ==
    ASSUME NEW call \in GateCall, Called(call)
    PROVE  /\ ParamsOf(call) \in Seq(Params) /\ Len(ParamsOf(call)) = Len(call.params)
           /\ CtrlsOf(call) \in Seq(Operand) /\ Len(CtrlsOf(call)) = ImplicitControls(call.id)
           /\ TgtsOf(call) \in Seq(Operand)
           /\ Len(TgtsOf(call)) = Len(call.operands) - ImplicitControls(call.id)
<1> DEFINE n == Len(call.operands)
           k == ImplicitControls(call.id)
           operands == call.operands
           params == call.params
<1>1. k \in 0 .. n /\ n \in Nat /\ operands \in Seq(Operand) /\ params \in Seq(Int)
    BY OperandsSuffice, GateCallFields
<1>2. ParamsOf(call) \in Seq(Params) /\ Len(ParamsOf(call)) = Len(params)
    <2>1. \A i \in DOMAIN params : createFloatValue(params[i]) \in Params
        BY <1>1, AngleIsParameter
    <2> HIDE DEF params
    <2>2. [i \in DOMAIN params |-> createFloatValue(params[i])] \in Seq(Params)
        BY <1>1, <2>1
    <2>3. Len([i \in DOMAIN params |-> createFloatValue(params[i])]) = Len(params)
        BY <1>1
    <2> QED BY <2>2, <2>3 DEF ParamsOf, params
<1>3. CtrlsOf(call) \in Seq(Operand) /\ Len(CtrlsOf(call)) = k
    <2>1. \A i \in 1 .. k : operands[i] \in Operand
        BY <1>1
    <2> HIDE DEF operands, k
    <2>2. SubSeq(operands, 1, k) \in Seq(Operand) /\ Len(SubSeq(operands, 1, k)) = k
        BY <1>1, <2>1, SubSeqProperties
    <2> QED BY <2>2 DEF CtrlsOf, operands, k
<1>4. TgtsOf(call) \in Seq(Operand) /\ Len(TgtsOf(call)) = n - k
    <2>1. \A i \in k + 1 .. n : operands[i] \in Operand
        BY <1>1
    <2> HIDE DEF operands, k, n
    <2>2. /\ SubSeq(operands, k + 1, n) \in Seq(Operand)
          /\ Len(SubSeq(operands, k + 1, n)) = n - k
        BY <1>1, <2>1, SubSeqProperties
    <2> QED BY <2>2 DEF TgtsOf, operands, k, n
<1> QED BY <1>2, <1>3, <1>4

LEMMA CallIsSupplied ==
    ASSUME NEW call \in GateCall, Called(call)
    PROVE  Supplied(call.id, ParamsOf(call), TgtsOf(call))
<1> DEFINE n == Len(call.operands)
           k == ImplicitControls(call.id)
<1>1. /\ Len(ParamsOf(call)) = Len(call.params) /\ Len(TgtsOf(call)) = n - k
      /\ n \in Nat /\ k \in 0 .. 2 /\ Len(call.params) \in Nat
    BY OperandsOfCall, GateCallFields, ControlsAgree
<1>2. call.id \in {"U", "u", "u2", "rccx", "rxx", "ryy", "rzz", "rzx", "dcx", "ecr", "iswap",
                   "iswapdg"} => k = 0
    BY DEF ImplicitControls, isMultiQubitGate
<1>3. \A gate \in DOMAIN Signature : call.id = gate =>
        Len(call.params) = Signature[gate][1] /\ n >= Signature[gate][2] + Signature[gate][3]
    <2>1. "iswapdg" \notin DOMAIN Signature
        BY DEF Signature
    <2> QED BY <2>1 DEF Called
<1>4. /\ {"U", "u", "u2", "cp", "cphase", "rxx", "ryy", "rzz", "rzx", "iswap", "dcx", "ecr", "rccx"}
           \subseteq DOMAIN Signature
      /\ \A gate \in {"U", "u"} : Signature[gate][1] = 3
      /\ Signature["u2"][1] = 2
      /\ \A gate \in {"cp", "cphase", "rxx", "ryy", "rzz", "rzx"} : Signature[gate][1] = 1
      /\ \A gate \in {"iswap", "rxx", "ryy", "rzz", "rzx", "dcx", "ecr"} :
           Signature[gate][2] = 0 /\ Signature[gate][3] = 2
      /\ Signature["rccx"][2] = 0 /\ Signature["rccx"][3] = 3
    BY DEF Signature
<1>5. call.id = "iswapdg" => n >= 2
    BY DEF Called, Signature
<1>6. call.id \in {"U", "u"} => Len(ParamsOf(call)) >= 3
    BY <1>1, <1>3, <1>4
<1>7. call.id = "u2" => Len(ParamsOf(call)) >= 2
    BY <1>1, <1>3, <1>4
<1>8. call.id \in {"cp", "cphase", "rxx", "ryy", "rzz", "rzx"} => Len(ParamsOf(call)) >= 1
    BY <1>1, <1>3, <1>4
<1> HIDE DEF n, k
<1>9. call.id \in {"iswap", "iswapdg", "rxx", "ryy", "rzz", "rzx", "dcx", "ecr"} =>
        Len(TgtsOf(call)) >= 2
    BY <1>1, <1>2, <1>3, <1>4, <1>5
<1>10. call.id = "rccx" => Len(TgtsOf(call)) >= 3
    BY <1>1, <1>2, <1>3, <1>4
<1> QED BY <1>6, <1>7, <1>8, <1>9, <1>10 DEF Supplied

\* The asserts of an entry that the table has do not fail.
LEMMA AssertsOfSupported ==
    ASSUME NEW call \in GateCall, Called(call), Supported(call)
    PROVE  AssertsHold(call.id, ParamsOf(call), CtrlsOf(call), TgtsOf(call))
<1> DEFINE n == Len(call.operands)
           k == ImplicitControls(call.id)
           arity == <<Len(ParamsOf(call)), Len(CtrlsOf(call)), Len(TgtsOf(call))>>
           sig == Signature[call.id]
<1>1. /\ call.id \in DOMAIN Signature /\ call.mods = <<>>
      /\ call.id \in OneOperationGates \cup DOMAIN SequenceArity \cup {"id", "rccx"}
    BY DEF Supported, Ordinary, Untranslated
<1>2. sig \in Nat \X Nat \X Nat /\ k = sig[2]
    BY <1>1, SignatureIsNatural, ControlsAgree
<1>3. Len(call.params) = sig[1] /\ n = sig[2] + sig[3]
    <2>1. "iswapdg" \notin DOMAIN Signature
        BY DEF Signature
    <2> QED BY <1>1, <2>1 DEF Called
<1>4. /\ Len(ParamsOf(call)) = Len(call.params) /\ Len(CtrlsOf(call)) = k
      /\ Len(TgtsOf(call)) = n - k
    BY OperandsOfCall
<1>5. Agree(arity, sig)
    <2> HIDE DEF sig, n, k
    <2> QED BY <1>2, <1>3, <1>4 DEF Agree
<1>6. arity = sig
    BY <1>5, AgreeIsEqual
<1>7. CASE call.id \in {"id", "rccx"}
    BY <1>7 DEF AssertsHold
<1>8. CASE call.id \in OneOperationGates
    <2>1. OneOperation(call.id).arity = sig
        BY <1>8, EntryArities, AgreeIsEqual
    <2> HIDE DEF sig
    <2> QED BY <1>6, <1>8, <2>1 DEF AssertsHold
<1>9. CASE call.id \in DOMAIN SequenceArity
    <2>1. SequenceArity[call.id] = sig
        BY <1>9, EntryArities, AgreeIsEqual
    <2> HIDE DEF sig
    <2> QED BY <1>6, <1>9, <2>1 DEF AssertsHold
<1> QED BY <1>1, <1>7, <1>8, <1>9

-----------------------------------------------------------------------------
(* Registers and measurements *)

LEMMA RegistersTyped ==
    ASSUME NEW prog, IsProgram(prog)
    PROVE  insertAllocatedQubits(prog) \in Seq(STRING \X Nat)
<1> DEFINE sized == {s \in ToSet(prog) : s.kind = "qubit" /\ s.size # None}
           declared == Among(prog, sized)
           registers == [i \in DOMAIN declared |-> <<declared[i].name, declared[i].size>>]
<1>1. declared \in Seq(Statement \cap sized)
    BY AmongMembers DEF IsProgram
<1>2. \A s \in Statement \cap sized : s.name \in STRING /\ s.size \in Nat
    BY DEF Statement, None
<1>3. registers \in Seq(STRING \X Nat)
    <2> DEFINE D == Statement \cap sized
    <2>1. declared \in Seq(D) /\ \A s \in D : s.name \in STRING /\ s.size \in Nat
        BY <1>1, <1>2
    <2> HIDE DEF D, declared
    <2> QED BY <2>1
<1>4. <<>> \in Seq(STRING \X Nat)
    OBVIOUS
<1>5. insertAllocatedQubits(prog) \in {registers, <<>>}
    BY DEF insertAllocatedQubits
<1> HIDE DEF registers
<1> QED BY <1>3, <1>4, <1>5

\* Numbers that are counted have a largest.
LEMMA NumbersBounded ==
    ASSUME NEW n \in Nat, NEW f \in [1 .. n -> Nat]
    PROVE  \E m \in Nat : \A i \in 1 .. n : f[i] <= m
<1> DEFINE S == {k \in 0 .. n : \E m \in Nat : \A i \in 1 .. k : f[i] <= m}
<1>1. 0 \in S
    <2>1. \A i \in 1 .. 0 : f[i] <= 0
        OBVIOUS
    <2> QED BY <2>1
<1>2. ASSUME NEW k \in 1 .. n, k - 1 \in S PROVE k \in S
    <2>1. PICK m \in Nat : \A i \in 1 .. k - 1 : f[i] <= m
        BY <1>2
    <2>2. f[k] \in Nat
        OBVIOUS
    <2>3. \A i \in 1 .. k : f[i] <= m + f[k]
        <3> SUFFICES ASSUME NEW i \in 1 .. k PROVE f[i] <= m + f[k]
            OBVIOUS
        <3>1. CASE i = k
            BY <2>2, <3>1
        <3>2. CASE i # k
            <4>1. i \in 1 .. k - 1 /\ f[i] \in Nat
                BY <3>2
            <4> QED BY <2>1, <2>2, <4>1
        <3> QED BY <3>1, <3>2
    <2>4. m + f[k] \in Nat
        BY <2>2
    <2> QED BY <2>3, <2>4, SMTT(30)
<1> HIDE DEF S
<1>3. n \in S
    <2>1. \A k \in 0 .. n : k \in S
        BY <1>1, <1>2, StepByStep
    <2> QED BY <2>1
<1> QED BY <1>3 DEF S

\* The members of a set of numbers in increasing order
InOrder(s, B) ==
    /\ s \in [1 .. Cardinality(B) -> B]
    /\ \A i, j \in DOMAIN s : i < j => s[i] < s[j]

\* A set of numbers has such an order: the std::map can be gone through.
LEMMA OrderExists ==
    ASSUME NEW m \in Nat, NEW B \in SUBSET Nat, \A b \in B : b < m
    PROVE  Cardinality(B) \in Nat /\ IsFiniteSet(B) /\ \E s : InOrder(s, B)
<1> DEFINE Ordered(C) == Cardinality(C) \in Nat /\ IsFiniteSet(C) /\ \E s : InOrder(s, C)
           Under(k) == {b \in B : b < k}
           S == {k \in 0 .. m : Ordered(Under(k))}
<1>1. 0 \in S
    <2>1. Under(0) = {}
        <3>1. \A b \in B : b \in Nat /\ ~ (b < 0)
            OBVIOUS
        <3> QED BY <3>1
    <2>2. Cardinality({}) = 0 /\ IsFiniteSet({})
        BY FS_EmptySet
    <2>3. InOrder(<<>>, {})
        BY <2>2 DEF InOrder
    <2>4. Ordered({})
        BY <2>2, <2>3
    <2> HIDE DEF Under, Ordered
    <2> QED BY <2>1, <2>4
<1>2. ASSUME NEW k \in 1 .. m, k - 1 \in S PROVE k \in S
    <2> DEFINE C == Under(k - 1)
               n == Cardinality(C)
    <2>0. \A b \in B : b < k <=> b < k - 1 \/ b = k - 1
        OBVIOUS
    <2>1. n \in Nat /\ IsFiniteSet(C)
        BY <1>2
    <2>2. PICK s : InOrder(s, C)
        BY <1>2
    <2>3. CASE k - 1 \in B
        <3> DEFINE t == [i \in 1 .. n + 1 |-> IF i = n + 1 THEN k - 1 ELSE s[i]]
                   D == C \cup {k - 1}
        <3>1. Under(k) = D
            BY <2>0, <2>3
        <3>2. k - 1 \notin C /\ \A b \in C : b < k - 1 /\ b \in Nat
            OBVIOUS
        <3>3. IsFiniteSet(D) /\ Cardinality(D) = n + 1
            BY <2>1, <3>2, FS_AddElement
        <3>4. s \in [1 .. n -> C] /\ \A i, j \in 1 .. n : i < j => s[i] < s[j]
            BY <2>2 DEF InOrder
        <3> HIDE DEF C, n
        <3>5. t \in [1 .. n + 1 -> D]
            <4> SUFFICES ASSUME NEW i \in 1 .. n + 1 PROVE t[i] \in D
                OBVIOUS
            <4>1. CASE i = n + 1
                BY <4>1
            <4>2. CASE i # n + 1
                <5>1. i \in 1 .. n /\ t[i] = s[i]
                    BY <2>1, <4>2
                <5> QED BY <3>4, <5>1
            <4> QED BY <4>1, <4>2
        <3>6. ASSUME NEW i \in 1 .. n + 1, NEW j \in 1 .. n + 1, i < j PROVE t[i] < t[j]
            <4>1. i \in 1 .. n /\ t[i] = s[i] /\ s[i] \in C
                BY <2>1, <3>4, <3>6
            <4>2. CASE j = n + 1
                BY <3>2, <4>1, <4>2
            <4>3. CASE j # n + 1
                <5>1. j \in 1 .. n /\ t[j] = s[j]
                    BY <2>1, <4>3
                <5> QED BY <3>4, <3>6, <4>1, <5>1
            <4> QED BY <4>2, <4>3
        <3> HIDE DEF t
        <3>7. InOrder(t, D)
            BY <3>3, <3>5, <3>6 DEF InOrder
        <3>8. Ordered(Under(k))
            <4> HIDE DEF Under, D
            <4> QED BY <2>1, <3>1, <3>3, <3>7
        <3> QED BY <3>8
    <2>4. CASE k - 1 \notin B
        <3>1. Under(k) = Under(k - 1)
            BY <2>0, <2>4
        <3>2. Ordered(Under(k - 1))
            BY <1>2
        <3> HIDE DEF Ordered, Under
        <3> QED BY <3>1, <3>2
    <2> QED BY <2>3, <2>4
<1>3. Under(m) = B
    OBVIOUS
<1> HIDE DEF S
<1>4. m \in S
    <2>1. \A k \in 0 .. m : k \in S
        BY <1>1, <1>2, StepByStep
    <2> QED BY <2>1
<1>5. Ordered(B)
    <2> HIDE DEF Ordered, Under
    <2> QED BY <1>3, <1>4 DEF S
<1> QED BY <1>5

Measurement == {s \in Statement : s.kind = "measure" /\ s.from.idx # None}

LEMMA MeasurementFields ==
    ASSUME NEW s \in Measurement
    PROVE  s.bit \in Nat \cup {None} /\ s.from \in Operand
BY DEF Measurement, Statement

\* The names of MeasuredQubits
Assigned(prog) == Among(prog, {s \in ToSet(prog) : s.kind = "measure" /\ s.from.idx # None})
BitOf(s) == IF s.bit = None THEN 0 ELSE s.bit
Bits(prog) == {BitOf(Assigned(prog)[i]) : i \in DOMAIN Assigned(prog)}

LEMMA AssignedTyped ==
    ASSUME NEW prog, IsProgram(prog)
    PROVE  /\ Assigned(prog) \in Seq(Measurement)
           /\ ToSet(Assigned(prog)) = ToSet(prog) \cap Measurement
<1> DEFINE A == {s \in ToSet(prog) : s.kind = "measure" /\ s.from.idx # None}
<1>1. prog \in Seq(Statement)
    BY DEF IsProgram
<1>2. Statement \cap A \subseteq Measurement
    BY DEF Measurement
<1>3. ToSet(prog) \cap A = ToSet(prog) \cap Measurement
    BY <1>1 DEF Measurement, ToSet
<1>4. Among(prog, A) \in Seq(Statement \cap A) /\ ToSet(Among(prog, A)) = ToSet(prog) \cap A
    BY <1>1, AmongMembers, AmongContains
<1> HIDE DEF A
<1>5. Among(prog, A) \in Seq(Measurement)
    BY <1>2, <1>4, SeqMonotonic
<1> QED BY <1>3, <1>4, <1>5 DEF Assigned, A

LEMMA BitsAreOrdered ==
    ASSUME NEW prog, IsProgram(prog)
    PROVE  /\ Cardinality(Bits(prog)) \in Nat /\ IsFiniteSet(Bits(prog))
           /\ \E s : InOrder(s, Bits(prog))
<1> DEFINE a == Assigned(prog)
           n == Len(a)
           f == [i \in 1 .. n |-> BitOf(a[i])]
<1>1. n \in Nat /\ DOMAIN a = 1 .. n /\ \A i \in 1 .. n : a[i] \in Measurement
    BY AssignedTyped
<1>2. \A s \in Measurement : BitOf(s) \in Nat
    BY MeasurementFields DEF BitOf, None
<1>3. f \in [1 .. n -> Nat] /\ Bits(prog) = {f[i] : i \in 1 .. n}
    <2> HIDE DEF a, n
    <2>1. Bits(prog) = {BitOf(a[i]) : i \in 1 .. n}
        BY <1>1 DEF Bits, a
    <2> QED BY <1>1, <1>2, <2>1
<1> HIDE DEF a, n, f
<1>4. PICK m \in Nat : \A i \in 1 .. n : f[i] <= m
    BY <1>1, <1>3, NumbersBounded
<1>5. m + 1 \in Nat /\ Bits(prog) \in SUBSET Nat /\ \A b \in Bits(prog) : b < m + 1
    BY <1>3, <1>4
<1> QED BY <1>5, OrderExists

\* The measurements carried out: each bit with one of its statements, in the order of the bits
Carried(f, prog) ==
    /\ f \in [1 .. Cardinality(Bits(prog)) -> ToSet(prog) \cap Measurement]
    /\ \A i, j \in DOMAIN f : i < j => BitOf(f[i]) < BitOf(f[j])
    /\ MeasuredQubits(prog) = [i \in 1 .. Cardinality(Bits(prog)) |-> f[i].from]

LEMMA MeasuredQubitsAre ==
    ASSUME NEW prog, IsProgram(prog)
    PROVE  \E f : Carried(f, prog)
<1> DEFINE a == Assigned(prog)
           bits == Bits(prog)
           n == Cardinality(bits)
           FirstWith(b) == SelectInSeq(a, LAMBDA s : BitOf(s) = b)
           sorted == CHOOSE s \in [1 .. n -> bits] : \A i, j \in DOMAIN s : i < j => s[i] < s[j]
           f == [i \in 1 .. n |-> a[FirstWith(sorted[i])]]
<1>1. n \in Nat /\ sorted \in [1 .. n -> bits] /\ \A i, j \in 1 .. n : i < j => sorted[i] < sorted[j]
    <2>1. n \in Nat /\ \E s \in [1 .. n -> bits] : \A i, j \in DOMAIN s : i < j => s[i] < s[j]
        BY BitsAreOrdered DEF InOrder
    <2>2. sorted \in [1 .. n -> bits] /\ \A i, j \in DOMAIN sorted : i < j => sorted[i] < sorted[j]
        <3> HIDE DEF n, bits
        <3> QED BY <2>1
    <2> QED BY <2>1, <2>2
<1>2. a \in Seq(Measurement) /\ ToSet(a) = ToSet(prog) \cap Measurement
    BY AssignedTyped
<1>3. bits = {BitOf(a[i]) : i \in DOMAIN a}
    BY DEF Bits
<1> HIDE DEF a
<1>4. ASSUME NEW b \in bits
      PROVE  FirstWith(b) \in DOMAIN a /\ BitOf(a[FirstWith(b)]) = b
    <2> DEFINE I == {i \in 1 .. Len(a) : BitOf(a[i]) = b}
    <2>1. I # {} /\ I \in SUBSET Nat
        BY <1>2, <1>3
    <2>2. FirstWith(b) = Min(I)
        BY <2>1 DEF SelectInSeq
    <2>3. Min(I) \in I
        <3>1. \E i \in I : \A j \in I : i <= j
            <4> HIDE DEF I
            <4> QED BY <2>1, FirstExists
        <3> HIDE DEF I
        <3> QED BY <3>1 DEF Min
    <2> HIDE DEF FirstWith
    <2> QED BY <1>2, <2>2, <2>3
<1>5. MeasuredQubits(prog) = [i \in DOMAIN sorted |-> a[FirstWith(sorted[i])].from]
    BY DEF MeasuredQubits, a, Assigned, Bits, BitOf
<1> HIDE DEF FirstWith, sorted, n, bits
<1>6. \A i \in 1 .. n : f[i] \in ToSet(prog) \cap Measurement /\ BitOf(f[i]) = sorted[i]
    BY <1>1, <1>2, <1>4 DEF ToSet
<1>7. MeasuredQubits(prog) = [i \in 1 .. n |-> f[i].from]
    BY <1>1, <1>5
<1>8. f \in [1 .. n -> ToSet(prog) \cap Measurement]
    BY <1>6
<1>9. \A i, j \in 1 .. n : i < j => BitOf(f[i]) < BitOf(f[j])
    BY <1>1, <1>6
<1> HIDE DEF f
<1>10. Carried(f, prog)
    BY <1>7, <1>8, <1>9 DEF Carried, n, bits
<1> QED BY <1>10

-----------------------------------------------------------------------------
(* The steps of the pass *)

AnyOperation == [gate : Gates \cup {"mz"}, adj : BOOLEAN, params : Seq(Params),
                 ctrls : Seq(Operand), tgts : Seq(Operand)]
Measuring == {op \in AnyOperation : op.gate = "mz"}

\* What the two ends of the pass insert
RegisterMeasurements ==
    [i \in DOMAIN veqs |->
       Measure([k \in 1 .. veqs[i][2] |-> [reg |-> veqs[i][1], idx |-> k - 1]])]
BitMeasurements ==
    [i \in DOMAIN MeasuredQubits(program) |-> Measure(<<MeasuredQubits(program)[i]>>)]
Measurements == IF measureAllQubits THEN RegisterMeasurements ELSE BitMeasurements

LEMMA OperationsApart ==
    /\ Insertion \subseteq AnyOperation
    /\ Measuring \subseteq AnyOperation
    /\ Insertion \cap Measuring = {}
<1>1. "mz" \notin Gates
    BY DEF Gates
<1> QED BY <1>1 DEF Insertion, AnyOperation, Measuring

LEMMA MeasureTyped ==
    ASSUME NEW wires \in Seq(Operand)
    PROVE  Measure(wires) \in Measuring /\ Measure(wires).tgts = wires
<1>1. <<>> \in Seq(Params) /\ <<>> \in Seq(Operand)
    OBVIOUS
<1> QED BY <1>1 DEF Measure, Operation, Measuring, AnyOperation

\* The wires of a register
LEMMA RegisterWires ==
    ASSUME NEW r \in STRING \X Nat
    PROVE  [k \in 1 .. r[2] |-> [reg |-> r[1], idx |-> k - 1]] \in Seq(Operand)
<1>1. r[2] \in Nat /\ r[1] \in STRING
    OBVIOUS
<1>2. \A k \in 1 .. r[2] : [reg |-> r[1], idx |-> k - 1] \in Operand
    BY <1>1 DEF Operand
<1> QED BY <1>1, <1>2

LEMMA MeasurementsTyped ==
    ASSUME TypeOK
    PROVE  Measurements \in Seq(Measuring)
<1>1. IsProgram(program) /\ veqs \in Seq(STRING \X Nat)
    BY QasmToQuakeAssumption DEF TypeOK
<1>2. RegisterMeasurements \in Seq(Measuring)
    <2> DEFINE wires == [i \in DOMAIN veqs |->
                           [k \in 1 .. veqs[i][2] |-> [reg |-> veqs[i][1], idx |-> k - 1]]]
    <2>1. \A i \in DOMAIN veqs : wires[i] \in Seq(Operand)
        <3> SUFFICES ASSUME NEW i \in DOMAIN veqs PROVE wires[i] \in Seq(Operand)
            OBVIOUS
        <3>1. veqs[i] \in STRING \X Nat
            BY <1>1
        <3> QED BY <3>1, RegisterWires
    <2>2. \A i \in DOMAIN veqs : Measure(wires[i]) \in Measuring
        BY <2>1, MeasureTyped
    <2>3. RegisterMeasurements = [i \in DOMAIN veqs |-> Measure(wires[i])]
        BY DEF RegisterMeasurements
    <2> HIDE DEF wires
    <2>4. Len(veqs) \in Nat /\ DOMAIN veqs = 1 .. Len(veqs)
        BY <1>1
    <2> QED BY <2>2, <2>3, <2>4
<1>3. BitMeasurements \in Seq(Measuring)
    <2> DEFINE n == Cardinality(Bits(program))
               m == MeasuredQubits(program)
    <2>1. PICK f : Carried(f, program)
        BY <1>1, MeasuredQubitsAre
    <2>2. n \in Nat
        BY <1>1, BitsAreOrdered
    <2>3. DOMAIN m = 1 .. n /\ \A i \in 1 .. n : m[i] \in Operand
        BY <2>1, MeasurementFields DEF Carried
    <2> HIDE DEF n, m
    <2>4. \A i \in 1 .. n : Measure(<<m[i]>>) \in Measuring
        <3> SUFFICES ASSUME NEW i \in 1 .. n PROVE Measure(<<m[i]>>) \in Measuring
            OBVIOUS
        <3>1. <<m[i]>> \in Seq(Operand)
            BY <2>3
        <3> QED BY <3>1, MeasureTyped
    <2>5. BitMeasurements = [i \in 1 .. n |-> Measure(<<m[i]>>)]
        BY <2>3 DEF BitMeasurements, m
    <2> QED BY <2>2, <2>4, <2>5
<1> QED BY <1>2, <1>3 DEF Measurements

\* insertGate on a call, and what each action does to ops
LEMMA InsertGateDoes ==
    ASSUME insertGate
    PROVE  LET call == program[pc]
           IN  /\ status = "gates" /\ pc \in DOMAIN program /\ call.kind = "gate"
               /\ \/ /\ \/ \E i \in DOMAIN call.operands :
                             (asserts /\ call.operands[i].idx = None)
                               \/ ~ Allocated(call.operands[i].reg)
                        \/ ~ AssertsHold(call.id, ParamsOf(call), CtrlsOf(call), TgtsOf(call))
                     /\ Abort
                  \/ /\ ops' = ops \o insertQASMGateIntoQuakeModule(call.id, ParamsOf(call),
                                        CtrlsOf(call), TgtsOf(call))
                     /\ pc' = pc + 1
                     /\ UNCHANGED <<veqs, status>>
               /\ UNCHANGED input
BY DEF insertGate, ParamsOf, CtrlsOf, TgtsOf, ControlsOf, ImplicitControls

LEMMA EndDoes ==
    ASSUME MeasureAll \/ parseAndInsertMeasurements
    PROVE  /\ status = "gates" /\ pc \notin DOMAIN program
           /\ Abort \/ Finish(Measurements)
           /\ UNCHANGED input
<1>1. CASE MeasureAll
    BY <1>1 DEF MeasureAll, Measurements, RegisterMeasurements
<1>2. CASE parseAndInsertMeasurements
    BY <1>2 DEF parseAndInsertMeasurements, Measurements, BitMeasurements
<1> QED BY <1>1, <1>2

\* What holds in every state: the operations inserted before the end are no measurements,
\* and at the end those of the measurements stand behind them.
MeasurementsBehind ==
    /\ status \in {"entered", "gates"} => ops \in Seq(Insertion)
    /\ status = "done" /\ veqs # <<>> =>
         \E g \in Seq(Insertion) : ops = g \o Measurements

IInv == TypeOK /\ AbortsOnUnsupported /\ MeasurementsBehind

LEMMA InitIInv == ASSUME Init PROVE IInv
<1>1. TypeOK
    <2>1. program \in Programs /\ IsProgram(program)
        BY QasmToQuakeAssumption DEF Init
    <2>2. 1 \in 1 .. Len(program) + 1
        <3>1. Len(program) \in Nat
            BY <2>1 DEF IsProgram
        <3> QED BY <3>1
    <2> QED BY <2>1, <2>2 DEF Init, TypeOK
<1>2. AbortsOnUnsupported /\ MeasurementsBehind
    BY DEF Init, AbortsOnUnsupported, MeasurementsBehind
<1> QED BY <1>1, <1>2 DEF IInv

\* Without the types of ops, what a step has to leave in place
LEMMA SameInput ==
    ASSUME TypeOK, UNCHANGED input
    PROVE  /\ program' = program /\ asserts' = asserts /\ measureAllQubits' = measureAllQubits
           /\ function' = function
           /\ program' \in Programs /\ asserts' \in Builds /\ measureAllQubits' \in BOOLEAN
           /\ function' \in {"kernel", "declaration", "other"}
BY DEF TypeOK, input

LEMMA AllocateIInv == ASSUME IInv, Allocate PROVE IInv'
<1>1. /\ UNCHANGED input /\ UNCHANGED <<pc, ops>> /\ status = "entered"
      /\ veqs' \in {<<>>, insertAllocatedQubits(program)}
      /\ status' \in {"done", "gates", "aborted"}
      /\ status' = "aborted" => function # "kernel"
      /\ status' = "done" => veqs' = <<>>
    BY DEF Allocate
<1>2. TypeOK /\ IsProgram(program)
    BY QasmToQuakeAssumption DEF IInv, TypeOK
<1>3. TypeOK'
    <2>1. veqs' \in Seq(STRING \X Nat)
        <3>1. <<>> \in Seq(STRING \X Nat) /\ insertAllocatedQubits(program) \in Seq(STRING \X Nat)
            BY <1>2, RegistersTyped
        <3> QED BY <1>1, <3>1
    <2> QED BY <1>1, <1>2, <2>1, SameInput DEF TypeOK
<1>4. AbortsOnUnsupported'
    BY <1>1, <1>2, SameInput DEF AbortsOnUnsupported
<1>5. MeasurementsBehind'
    BY <1>1 DEF MeasurementsBehind, IInv
<1> QED BY <1>3, <1>4, <1>5 DEF IInv

LEMMA InsertGateIInv == ASSUME IInv, insertGate PROVE IInv'
<1> DEFINE call == program[pc]
           inserted == insertQASMGateIntoQuakeModule(call.id, ParamsOf(call), CtrlsOf(call), TgtsOf(call))
<1>1. TypeOK /\ IsProgram(program) /\ AbortsOnUnsupported /\ MeasurementsBehind
    BY QasmToQuakeAssumption DEF IInv, TypeOK
<1>2. /\ status = "gates" /\ pc \in DOMAIN program /\ call.kind = "gate"
      /\ UNCHANGED input
    BY InsertGateDoes
<1>3. call \in GateCall /\ Called(call)
    BY <1>1, <1>2, CallOfProgram
<1>4. inserted \in Seq(Insertion) /\ ops \in Seq(Insertion)
    <2>1. Supplied(call.id, ParamsOf(call), TgtsOf(call))
        BY <1>3, CallIsSupplied
    <2>2. ParamsOf(call) \in Seq(Params) /\ CtrlsOf(call) \in Seq(Operand) /\ TgtsOf(call) \in Seq(Operand)
        BY <1>3, OperandsOfCall
    <2>3. inserted \in Seq(Insertion)
        BY <2>1, <2>2, EntryInserts
    <2> QED BY <1>1, <1>2, <2>3 DEF MeasurementsBehind
<1>5. CASE /\ \/ \E i \in DOMAIN call.operands :
                   (asserts /\ call.operands[i].idx = None) \/ ~ Allocated(call.operands[i].reg)
              \/ ~ AssertsHold(call.id, ParamsOf(call), CtrlsOf(call), TgtsOf(call))
           /\ Abort
    <2>1. ~ Supported(call)
        <3> SUFFICES ASSUME Supported(call) PROVE FALSE
            OBVIOUS
        <3>1. AssertsHold(call.id, ParamsOf(call), CtrlsOf(call), TgtsOf(call))
            BY <1>3, AssertsOfSupported
        <3>2. PICK i \in DOMAIN call.operands :
                (asserts /\ call.operands[i].idx = None) \/ ~ Allocated(call.operands[i].reg)
            BY <1>5, <3>1
        <3>3. InRegister(call.operands[i])
            BY DEF Supported, Ordinary
        <3>4. PICK j \in DOMAIN veqs :
                veqs[j][1] = call.operands[i].reg /\ call.operands[i].idx \in 0 .. veqs[j][2] - 1
            BY <3>3 DEF InRegister
        <3>5. Allocated(call.operands[i].reg) /\ call.operands[i].idx # None
            BY <3>4 DEF Allocated, None
        <3> QED BY <3>2, <3>5
    <2>2. status' = "aborted" /\ UNCHANGED <<veqs, pc, ops>>
        BY <1>5 DEF Abort
    <2>3. TypeOK'
        BY <1>1, <1>2, <2>2, SameInput DEF TypeOK
    <2>4. AbortsOnUnsupported'
        <3>1. program' = program /\ pc' = pc /\ veqs' = veqs
            BY <1>1, <1>2, <2>2, SameInput
        <3> QED BY <1>2, <2>1, <3>1 DEF AbortsOnUnsupported, Supported, Ordinary, InRegister
    <2>5. MeasurementsBehind'
        BY <2>2 DEF MeasurementsBehind
    <2> QED BY <2>3, <2>4, <2>5 DEF IInv
<1>6. CASE ops' = ops \o inserted /\ pc' = pc + 1 /\ UNCHANGED <<veqs, status>>
    <2> HIDE DEF inserted, call
    <2>1. ops' \in Seq(Insertion)
        BY <1>4, <1>6, ConcatIsSeq
    <2>2. pc' \in 1 .. Len(program) + 1
        <3>1. Len(program) \in Nat /\ pc \in 1 .. Len(program)
            BY <1>1, <1>2 DEF IsProgram
        <3> QED BY <1>6, <3>1
    <2>3. ops' \in Seq(AnyOperation)
        BY <2>1, OperationsApart, SeqMonotonic
    <2>4. TypeOK'
        BY <1>1, <1>2, <1>6, <2>2, <2>3, SameInput DEF TypeOK, AnyOperation
    <2>5. AbortsOnUnsupported' /\ MeasurementsBehind'
        BY <1>2, <1>6, <2>1 DEF AbortsOnUnsupported, MeasurementsBehind
    <2> QED BY <2>4, <2>5 DEF IInv
<1>7. \/ /\ \/ \E i \in DOMAIN call.operands :
                 (asserts /\ call.operands[i].idx = None) \/ ~ Allocated(call.operands[i].reg)
            \/ ~ AssertsHold(call.id, ParamsOf(call), CtrlsOf(call), TgtsOf(call))
         /\ Abort
      \/ ops' = ops \o inserted /\ pc' = pc + 1 /\ UNCHANGED <<veqs, status>>
    BY InsertGateDoes
<1> QED BY <1>5, <1>6, <1>7

LEMMA SkipIInv == ASSUME IInv, SkipStatement PROVE IInv'
<1>1. TypeOK /\ IsProgram(program)
    BY QasmToQuakeAssumption DEF IInv, TypeOK
<1>2. /\ status = "gates" /\ pc \in DOMAIN program /\ pc' = pc + 1
      /\ UNCHANGED input /\ UNCHANGED <<veqs, ops, status>>
    BY DEF SkipStatement, input
<1>3. pc' \in 1 .. Len(program) + 1
    <2>1. Len(program) \in Nat /\ pc \in 1 .. Len(program)
        BY <1>1, <1>2 DEF IsProgram
    <2> QED BY <1>2, <2>1
<1>4. TypeOK'
    BY <1>1, <1>2, <1>3, SameInput DEF TypeOK
<1>5. AbortsOnUnsupported' /\ MeasurementsBehind'
    BY <1>2 DEF AbortsOnUnsupported, MeasurementsBehind, IInv
<1> QED BY <1>4, <1>5 DEF IInv

LEMMA EndIInv == ASSUME IInv, MeasureAll \/ parseAndInsertMeasurements PROVE IInv'
<1>1. TypeOK /\ MeasurementsBehind
    BY DEF IInv
<1>2. /\ status = "gates" /\ pc \notin DOMAIN program /\ UNCHANGED input
      /\ Abort \/ Finish(Measurements)
    BY EndDoes
<1>3. ops \in Seq(Insertion) /\ Measurements \in Seq(Measuring)
    BY <1>1, <1>2, MeasurementsTyped DEF MeasurementsBehind
<1>4. CASE Abort
    <2>1. status' = "aborted" /\ UNCHANGED <<veqs, pc, ops>>
        BY <1>4 DEF Abort
    <2>2. TypeOK'
        BY <1>1, <1>2, <2>1, SameInput DEF TypeOK
    <2>3. AbortsOnUnsupported'
        BY <1>1, <1>2, <2>1, SameInput DEF AbortsOnUnsupported
    <2>4. MeasurementsBehind'
        BY <2>1 DEF MeasurementsBehind
    <2> QED BY <2>2, <2>3, <2>4 DEF IInv
<1>5. CASE Finish(Measurements)
    <2>1. ops' = ops \o Measurements /\ status' \in {"done", "rejected"} /\ UNCHANGED <<veqs, pc>>
        BY <1>5 DEF Finish
    <2>2. Measurements' = Measurements
        <3>1. veqs' = veqs /\ program' = program /\ measureAllQubits' = measureAllQubits
            BY <1>1, <1>2, <2>1, SameInput
        <3> QED BY <3>1 DEF Measurements, RegisterMeasurements, BitMeasurements
    <2> DEFINE m == Measurements
    <2> HIDE DEF m
    <2>3. ops' \in Seq(AnyOperation)
        <3>1. ops \in Seq(AnyOperation) /\ m \in Seq(AnyOperation)
            BY <1>3, OperationsApart, SeqMonotonic DEF m
        <3>2. ops' = ops \o m
            BY <2>1 DEF m
        <3> QED BY <3>1, <3>2, ConcatIsSeq
    <2>4. TypeOK'
        BY <1>1, <1>2, <2>1, <2>3, SameInput DEF TypeOK, AnyOperation
    <2>5. AbortsOnUnsupported'
        BY <2>1 DEF AbortsOnUnsupported
    <2>6. MeasurementsBehind'
        <3>1. ops' = ops \o Measurements'
            BY <2>1, <2>2
        <3> QED BY <1>3, <2>1, <3>1 DEF MeasurementsBehind
    <2> QED BY <2>4, <2>5, <2>6 DEF IInv
<1> QED BY <1>2, <1>4, <1>5

LEMMA StepIInv == IInv /\ [Next]_vars => IInv'
<1> SUFFICES ASSUME IInv, [Next]_vars PROVE IInv'
    OBVIOUS
<1>1. CASE Allocate
    BY <1>1, AllocateIInv
<1>2. CASE insertGate
    BY <1>2, InsertGateIInv
<1>3. CASE SkipStatement
    BY <1>3, SkipIInv
<1>4. CASE MeasureAll \/ parseAndInsertMeasurements
    BY <1>4, EndIInv
<1>5. CASE UNCHANGED vars
    BY <1>5 DEF vars, IInv, TypeOK, AbortsOnUnsupported, Supported, Ordinary, InRegister,
                MeasurementsBehind, Measurements, RegisterMeasurements, BitMeasurements
<1> QED BY <1>1, <1>2, <1>3, <1>4, <1>5 DEF Next

LEMMA Invariance == Spec => []IInv
<1>1. Init => IInv
    BY InitIInv
<1> QED BY <1>1, StepIInv, PTL DEF Spec

-----------------------------------------------------------------------------
(* Results *)

\* The operations of the measurements are those that stand behind the others.
LEMMA MeasuredAre ==
    ASSUME IInv, status = "done", veqs # <<>>
    PROVE  Among(ops, {op \in ToSet(ops) : op.gate = "mz"}) = Measurements
<1> DEFINE S == {op \in ToSet(ops) : op.gate = "mz"}
           m == Measurements
<1>1. TypeOK /\ m \in Seq(Measuring)
    BY MeasurementsTyped DEF IInv
<1>2. PICK g \in Seq(Insertion) : ops = g \o m
    BY DEF IInv, MeasurementsBehind
<1> HIDE DEF m
<1>3. g \in Seq(AnyOperation) /\ m \in Seq(AnyOperation)
    BY <1>1, OperationsApart, SeqMonotonic
<1>4. Insertion \cap S = {}
    BY OperationsApart DEF Measuring, AnyOperation, Insertion
<1>5. m \in Seq(S)
    <2>1. \A i \in 1 .. Len(m) : m[i] \in S
        <3> SUFFICES ASSUME NEW i \in 1 .. Len(m) PROVE m[i] \in S
            OBVIOUS
        <3>1. m[i] \in Measuring
            BY <1>1
        <3>2. Len(g) \in Nat /\ Len(m) \in Nat
            BY <1>2, <1>1
        <3>3. Len(ops) = Len(g) + Len(m) /\ ops \in Seq(AnyOperation)
            BY <1>2, <1>3, ConcatProperties
        <3>4. ops[Len(g) + i] = m[i]
            <4>1. Len(g) + i \in 1 .. Len(g) + Len(m)
                BY <3>2
            <4>2. (g \o m)[Len(g) + i] =
                    IF Len(g) + i <= Len(g) THEN g[Len(g) + i] ELSE m[Len(g) + i - Len(g)]
                BY <1>3, <4>1, ConcatProperties
            <4>3. ~ (Len(g) + i <= Len(g)) /\ Len(g) + i - Len(g) = i
                BY <3>2
            <4> QED BY <1>2, <4>2, <4>3
        <3>5. m[i] \in ToSet(ops)
            <4>1. Len(g) + i \in DOMAIN ops
                BY <3>2, <3>3
            <4> QED BY <3>4, <4>1 DEF ToSet
        <3> QED BY <3>1, <3>5 DEF Measuring
    <2> HIDE DEF S
    <2>2. m \in [1 .. Len(m) -> S] /\ Len(m) \in Nat
        BY <1>3, <2>1
    <2> QED BY <2>2
<1> HIDE DEF S
<1>6. Among(g \o m, S) = Among(g, S) \o m
    BY <1>3, <1>5, AmongInside
<1>7. Among(g, S) = <<>>
    BY <1>2, <1>4, AmongOutside
<1>8. <<>> \o m = m
    BY <1>3, ConcatEmptySeq
<1>9. Among(ops, S) = m
    BY <1>2, <1>6, <1>7, <1>8
<1> QED BY <1>9 DEF S, m

\* As many bits as measurements, if each has a bit of its own
LEMMA OneBitEach ==
    ASSUME NEW prog, IsProgram(prog), NEW M, M = ToSet(prog) \cap Measurement,
           \A s, t \in M : BitOf(s) = BitOf(t) => s = t
    PROVE  Cardinality(M) = Cardinality(Bits(prog))
<1> DEFINE B == Bits(prog)
           f == [s \in M |-> BitOf(s)]
<1>1. B = {BitOf(s) : s \in M}
    BY AssignedTyped DEF Bits, ToSet
<1>2. f \in Injection(M, B) /\ f \in Surjection(M, B)
    <2> HIDE DEF B
    <2> QED BY <1>1 DEF Injection, IsInjective, Surjection
<1>3. IsFiniteSet(B)
    BY BitsAreOrdered
<1> HIDE DEF f, B
<1>4. Cardinality(M) = Cardinality(B)
    BY <1>2, <1>3, FS_Injection
<1> QED BY <1>4 DEF B

LEMMA ResultsFollow == IInv => ResultsOfBits
<1> SUFFICES ASSUME IInv, status = "done", veqs # <<>> PROVE ResultsOfBits
    BY DEF ResultsOfBits
<1> DEFINE statements == {s \in ToSet(program) : s.kind = "measure"}
           Measured == Among(ops, {op \in ToSet(ops) : op.gate = "mz"})
           order == {f \in [DOMAIN Measured -> statements] :
                       \A i, j \in DOMAIN f : i < j => f[i].bit < f[j].bit}
           allQubits == FlattenSeq([i \in DOMAIN veqs |->
                          [k \in 1 .. veqs[i][2] |-> [reg |-> veqs[i][1], idx |-> k - 1]]])
<1>1. Measured = Measurements
    BY MeasuredAre
<1>2. IsProgram(program) /\ veqs \in Seq(STRING \X Nat) /\ measureAllQubits \in BOOLEAN
    BY QasmToQuakeAssumption DEF IInv, TypeOK
<1> HIDE DEF Measured
<1>3. ASSUME measureAllQubits
      PROVE  FlattenSeq([i \in DOMAIN Measured |-> Measured[i].tgts]) = allQubits
    <2> DEFINE wires == [i \in DOMAIN veqs |->
                           [k \in 1 .. veqs[i][2] |-> [reg |-> veqs[i][1], idx |-> k - 1]]]
    <2>1. Measured = [i \in DOMAIN veqs |-> Measure(wires[i])]
        BY <1>1, <1>3 DEF Measurements, RegisterMeasurements
    <2>2. \A i \in DOMAIN veqs : Measure(wires[i]).tgts = wires[i]
        BY DEF Measure, Operation
    <2>3. wires = [i \in DOMAIN veqs |-> wires[i]]
        OBVIOUS
    <2> HIDE DEF wires
    <2>4. [i \in DOMAIN Measured |-> Measured[i].tgts] = wires
        BY <2>1, <2>2, <2>3
    <2> QED BY <2>4 DEF wires
<1>4. ASSUME ~ measureAllQubits,
             \A s, t \in statements :
               s.bit # None /\ s.from.idx # None /\ (s.bit = t.bit => s = t)
      PROVE  /\ Len(Measured) = Cardinality(statements)
             /\ \E f \in order : \A i \in DOMAIN f : Measured[i].tgts = <<f[i].from>>
    <2> DEFINE n == Cardinality(Bits(program))
    <2>1. statements = ToSet(program) \cap Measurement
        BY <1>2, <1>4 DEF Measurement, ToSet, IsProgram
    <2>2. \A s \in statements : BitOf(s) = s.bit
        BY <1>4 DEF BitOf
    <2>3. Cardinality(statements) = n
        <3>1. \A s, t \in statements : BitOf(s) = BitOf(t) => s = t
            BY <1>4, <2>2
        <3> HIDE DEF statements
        <3> QED BY <1>2, <2>1, <3>1, OneBitEach
    <2>4. n \in Nat
        BY <1>2, BitsAreOrdered
    <2>5. PICK f : Carried(f, program)
        BY <1>2, MeasuredQubitsAre
    <2> HIDE DEF n, statements
    <2>6. /\ f \in [1 .. n -> statements]
          /\ \A i, j \in 1 .. n : i < j => f[i].bit < f[j].bit
        BY <2>1, <2>2, <2>5 DEF Carried, n
    <2>7. Measured = [i \in 1 .. n |-> Measure(<<f[i].from>>)]
        BY <1>1, <1>4, <2>5 DEF Measurements, BitMeasurements, Carried, n
    <2>8. Len(Measured) = n /\ DOMAIN Measured = 1 .. n
        BY <2>4, <2>7
    <2>9. \A i \in 1 .. n : Measured[i].tgts = <<f[i].from>>
        BY <2>7 DEF Measure, Operation
    <2>10. f \in order /\ DOMAIN f = 1 .. n
        BY <2>6, <2>8
    <2> HIDE DEF order
    <2> QED BY <2>3, <2>8, <2>9, <2>10
<1> HIDE DEF allQubits
<1>5. measureAllQubits \/ ~ measureAllQubits
    BY <1>2
<1> QED BY <1>3, <1>4, <1>5 DEF ResultsOfBits, Measured, allQubits

-----------------------------------------------------------------------------
(* Theorems *)

\* Every variable has its type, for all programs that call the gates of the standard
\* library with their parameters: what the table inserts are operations of Quake, also in a
\* build without asserts, and none is made of an operand or a parameter that is not there.
THEOREM TypeCorrect == Spec => []TypeOK
<1>1. IInv => TypeOK
    BY DEF IInv
<1> QED BY <1>1, Invariance, PTL

\* A kernel is given up only at a gate the table does not have: for every gate of the standard
\* library the two lists of implicit controls and the asserts of the entry agree.
THEOREM GivesUpOnUnsupported == Spec => []AbortsOnUnsupported
<1>1. IInv => AbortsOnUnsupported
    BY DEF IInv
<1> QED BY <1>1, Invariance, PTL

\* The measurements of a program come out once each, in the order of the bits, for programs
\* and registers of every size.
THEOREM ResultsInOrder == Spec => []ResultsOfBits
BY ResultsFollow, Invariance, PTL
=============================================================================
