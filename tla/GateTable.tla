----------------------------- MODULE GateTable ------------------------------
(***************************************************************************)
(* The gate table of the QASM 3 front end (lib/Interfaces/GatesMap.cpp)    *)
(* and the table of implicit controls next to it (QASMToQuake.cpp): which  *)
(* Quake operations a QASM gate becomes.                                   *)
(*                                                                         *)
(* p, c and t are the parameters, control wires and target wires of a      *)
(* call.  Angles are in ticks (QuakeOps); pi is 8 of them.                 *)
(***************************************************************************)
EXTENDS QuakeOps

PI == 8
PI_2 == 4
PI_4 == 2

\* An operation without parameters, and one with a single angle.
Gate(g, c, t) == Operation(g, FALSE, <<>>, c, t)
Rotate(g, p, c, t) == Operation(g, FALSE, <<p>>, c, t)
Turn(g, ticks, c, t) == Rotate(g, createFloatValue(ticks), c, t)

-----------------------------------------------------------------------------
(* Entries that create one operation on the operands as they come *)

\* The operation created, and the numbers of parameters, controls and targets asserted.
Creates(op, params, ctrls, tgts) == [op |-> op, arity |-> <<params, ctrls, tgts>>]

PlainGates ==
    [x |-> Creates("x", 0, 0, 1), y |-> Creates("y", 0, 0, 1), z |-> Creates("z", 0, 0, 1),
     h |-> Creates("h", 0, 0, 1), ch |-> Creates("h", 0, 1, 1), s |-> Creates("s", 0, 0, 1),
     sdg |-> Creates("s", 0, 0, 1), t |-> Creates("t", 0, 0, 1), tdg |-> Creates("t", 0, 0, 1)]

RotationGates ==
    [rx |-> Creates("rx", 1, 0, 1), rz |-> Creates("rz", 1, 0, 1), ry |-> Creates("ry", 1, 0, 1),
     crx |-> Creates("rx", 1, 1, 1), cry |-> Creates("ry", 1, 1, 1),
     p |-> Creates("rz", 1, 0, 1), phase |-> Creates("rz", 1, 0, 1)]

ControlledGates ==
    [cx |-> Creates("x", 0, 1, 1), CX |-> Creates("x", 0, 1, 1), ccx |-> Creates("x", 0, 2, 1),
     cy |-> Creates("y", 0, 1, 1), cz |-> Creates("z", 0, 1, 1), swap |-> Creates("swap", 0, 0, 2)]

U1Gates == [u1 |-> Creates("r1", 1, 0, 1), cu1 |-> Creates("r1", 1, 1, 1)]
U3Gates == [u3 |-> Creates("u3", 3, 0, 1), cu3 |-> Creates("u3", 3, 1, 1)]
SwapGates == [cswap |-> Creates("swap", 0, 1, 2)]

OneOperationGates ==
    DOMAIN PlainGates \cup DOMAIN RotationGates \cup DOMAIN ControlledGates
      \cup DOMAIN U1Gates \cup DOMAIN U3Gates \cup DOMAIN SwapGates

OneOperation(gate) ==
    CASE gate \in DOMAIN PlainGates      -> PlainGates[gate]
      [] gate \in DOMAIN RotationGates   -> RotationGates[gate]
      [] gate \in DOMAIN ControlledGates -> ControlledGates[gate]
      [] gate \in DOMAIN U1Gates         -> U1Gates[gate]
      [] gate \in DOMAIN U3Gates         -> U3Gates[gate]
      [] gate \in DOMAIN SwapGates       -> SwapGates[gate]

\* insertGate takes a gate with "dg" in its name for an adjoint.
IsAdjoint(gate) == gate \in {"sdg", "tdg", "sxdg", "iswapdg"}

-----------------------------------------------------------------------------
(* Entries that create a sequence *)

sx(c, t) == <<Turn("rx", PI_2, c, t)>>
sxdg(c, t) == <<Turn("rx", - PI_2, c, t)>>

U(p, c, t) == <<Rotate("rz", p[3], c, t), Rotate("ry", p[1], c, t), Rotate("rz", p[2], c, t)>>

u2(p, c, t) == <<Rotate("rz", p[2], c, t), Turn("ry", PI_2, c, t), Rotate("rz", p[1], c, t)>>

\* Mutant: the last rotation falls on the control.
ControlledPhaseOnControl(p, c, t) ==
    LET angle == extractDoubleArgumentValue(p[1])
    IN  <<Turn("rz", angle \div 2, <<>>, c), Gate("x", c, t),
          Turn("rz", (- angle) \div 2, <<>>, t), Gate("x", c, t),
          Turn("rz", angle \div 2, <<>>, c)>>

\* cp and cphase
ControlledPhase(p, c, t) ==
    LET angle == extractDoubleArgumentValue(p[1])
    IN  <<Turn("rz", angle \div 2, <<>>, c), Gate("x", c, t),
          Turn("rz", (- angle) \div 2, <<>>, t), Gate("x", c, t),
          Turn("rz", angle \div 2, <<>>, t)>>

rccx(c, t) ==
    LET On2(g, ticks) == Turn(g, ticks, c, <<t[3]>>)
        Hadamard == <<On2("rz", PI), On2("ry", PI_2), On2("rz", 0)>>     \* u2(0, pi)
        CX(i) == Gate("x", <<t[i]>>, <<t[3]>>)
    IN  Hadamard \o
        <<On2("r1", PI_4), CX(2), On2("r1", - PI_4), CX(1),
          On2("r1", PI_4), CX(2), On2("r1", - PI_4)>> \o
        Hadamard

\* Release builds only: both entries begin with assert(false).
iswap(c, t) == <<Gate("h", c, <<t[2]>>), Gate("x", <<t[1]>>, <<t[2]>>), Gate("h", c, <<t[2]>>)>>
iswapdg(c, t) ==
    <<Gate("h", <<>>, <<t[2]>>), Gate("x", <<t[1]>>, <<t[2]>>), Gate("h", <<>>, <<t[2]>>),
      Gate("z", <<t[1]>>, <<t[2]>>), Gate("h", <<>>, <<t[2]>>)>>

rxx(p, c, t) ==
    LET angle == extractDoubleArgumentValue(p[1])
        cx == Gate("x", <<t[1]>>, <<t[2]>>)
    IN  <<Operation("u3", FALSE, <<createFloatValue(PI_2), p[1], createFloatValue(0)>>, c, <<t[1]>>),
          Gate("h", c, <<t[2]>>),
          cx, Turn("r1", - angle, c, <<t[2]>>), cx,
          Turn("rz", PI - angle, c, <<t[1]>>), Turn("ry", PI_2, c, <<t[1]>>),
          Turn("rz", - PI, c, <<t[1]>>),
          Gate("h", c, <<t[2]>>)>>

\* Release builds only, as iswap.
ryy(p, c, t) ==
    LET cx == Gate("x", <<t[1]>>, <<t[2]>>)
    IN  <<Gate("h", c, <<t[2]>>), cx, Rotate("rz", p[1], c, <<t[1]>>), cx, Gate("h", c, <<t[2]>>)>>

rzz(p, c, t) ==
    LET cx == Gate("x", <<t[1]>>, <<t[2]>>)
    IN  <<cx, Rotate("r1", p[1], c, <<t[2]>>), cx>>

rzx(p, c, t) ==
    LET cx == Gate("x", <<t[1]>>, <<t[2]>>)
    IN  <<Gate("h", c, <<t[2]>>), cx, Rotate("rz", p[1], c, <<t[2]>>), cx, Gate("h", c, <<t[2]>>)>>

dcx(c, t) == <<Gate("x", <<t[1]>>, <<t[2]>>), Gate("x", <<t[2]>>, <<t[1]>>)>>

ecr(c, t) ==
    rzx(<<createFloatValue(PI_4)>>, c, t) \o
    <<Turn("rx", PI, c, <<t[1]>>)>> \o
    rzx(<<createFloatValue(- PI_4)>>, c, t)

-----------------------------------------------------------------------------
(* The table as a whole *)

\* The number of parameters, controls and targets each entry asserts.
SequenceArity ==
    [U |-> <<3, 0, 1>>, u |-> <<3, 0, 1>>, u2 |-> <<2, 0, 1>>, sx |-> <<0, 0, 1>>,
     sxdg |-> <<0, 0, 1>>, cp |-> <<1, 1, 1>>, cphase |-> <<1, 1, 1>>,
     rxx |-> <<1, 0, 2>>, rzz |-> <<1, 0, 2>>, rzx |-> <<1, 0, 2>>,
     dcx |-> <<0, 0, 2>>, ecr |-> <<0, 0, 2>>]

\* Mutant: the targets are counted with the controls.
AssertsHoldOnOperands(gate, p, c, t) ==
    LET arity == <<Len(p), Len(c), Len(c) + Len(t)>>
    IN  \/ gate \in {"id", "rccx"}
        \/ gate \in OneOperationGates /\ OneOperation(gate).arity = arity
        \/ gate \in DOMAIN SequenceArity /\ SequenceArity[gate] = arity

\* Do the asserts of the entry hold?  Those of gphase, xx_minus_yy, xx_plus_yy, teleport,
\* iswap, iswapdg and ryy never do, nor does the one for a gate that is not in the table.
AssertsHold(gate, p, c, t) ==
    LET arity == <<Len(p), Len(c), Len(t)>>
    IN  \/ gate \in {"id", "rccx"}
        \/ gate \in OneOperationGates /\ OneOperation(gate).arity = arity
        \/ gate \in DOMAIN SequenceArity /\ SequenceArity[gate] = arity

\* What the entry creates once its asserts are passed, or compiled out.
insertQASMGateIntoQuakeModule(gate, p, c, t) ==
    CASE gate \in OneOperationGates ->
           <<Operation(OneOperation(gate).op, IsAdjoint(gate), p, c, t)>>
      [] gate \in {"U", "u"}       -> U(p, c, t)
      [] gate = "u2"               -> u2(p, c, t)
      [] gate = "sx"               -> sx(c, t)
      [] gate = "sxdg"             -> sxdg(c, t)
      [] gate \in {"cp", "cphase"} -> ControlledPhase(p, c, t)
      [] gate = "rccx"             -> rccx(c, t)
      [] gate = "iswap"            -> iswap(c, t)
      [] gate = "iswapdg"          -> iswapdg(c, t)
      [] gate = "rxx"              -> rxx(p, c, t)
      [] gate = "ryy"              -> ryy(p, c, t)
      [] gate = "rzz"              -> rzz(p, c, t)
      [] gate = "rzx"              -> rzx(p, c, t)
      [] gate = "dcx"              -> dcx(c, t)
      [] gate = "ecr"              -> ecr(c, t)
      [] OTHER                     -> <<>>      \* id, gphase, ..., an unknown gate

-----------------------------------------------------------------------------
(* Controls that a gate has by its name *)

isMultiQubitGate(gate) ==
    gate \in {"cx", "cy", "cz", "ch", "ccx", "cswap", "crx", "cry", "cp",
              "cphase", "CX", "cu1", "cu3"}

getNumControls(gate) ==
    IF gate = "ccx" THEN 2
    ELSE IF gate \in {"cx", "CX", "cy", "crx", "cry", "cp", "cphase", "cz", "cu1", "cu3", "ch",
                      "cswap"} THEN 1
    ELSE 0
=============================================================================
