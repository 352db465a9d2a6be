---------------------------- MODULE QasmPrograms ----------------------------
(***************************************************************************)
(* Programs of QASM 3 as the parser returns them (the parser is a library  *)
(* outside this repository), and the gates of the standard library.        *)
(*                                                                         *)
(* None stands for an index or a size that is not there or is no constant. *)
(* The arguments of a gate are angles already: evaluateExpression is       *)
(* floating-point arithmetic.                                              *)
(***************************************************************************)
EXTENDS Integers, Sequences, SequencesExt

None == -1
Operand == [reg : STRING, idx : Nat \cup {None}]

\* qreg name[size] and qubit name; gate calls; creg[bit] = measure from; and declarations
\* of bits, barriers and the rest
Statement ==
    [kind : {"qubit"}, name : STRING, size : Nat \cup {None}]
      \cup [kind : {"gate"}, id : STRING, params : Seq(Int), operands : Seq(Operand),
            mods : Seq(STRING)]
      \cup [kind : {"measure"}, creg : STRING, bit : Nat \cup {None}, from : Operand]
      \cup [kind : {"other"}]

\* The number of parameters, controls and targets of each gate of the standard library
Signature ==
    [x |-> <<0,0,1>>, y |-> <<0,0,1>>, z |-> <<0,0,1>>, h |-> <<0,0,1>>, s |-> <<0,0,1>>,
     sdg |-> <<0,0,1>>, t |-> <<0,0,1>>, tdg |-> <<0,0,1>>, sx |-> <<0,0,1>>,
     sxdg |-> <<0,0,1>>, id |-> <<0,0,1>>, rx |-> <<1,0,1>>, ry |-> <<1,0,1>>,
     rz |-> <<1,0,1>>, p |-> <<1,0,1>>, phase |-> <<1,0,1>>, u1 |-> <<1,0,1>>,
     u2 |-> <<2,0,1>>, u3 |-> <<3,0,1>>, u |-> <<3,0,1>>, U |-> <<3,0,1>>,
     cx |-> <<0,1,1>>, CX |-> <<0,1,1>>, cy |-> <<0,1,1>>, cz |-> <<0,1,1>>,
     ch |-> <<0,1,1>>, crx |-> <<1,1,1>>, cry |-> <<1,1,1>>, crz |-> <<1,1,1>>,
     cp |-> <<1,1,1>>, cphase |-> <<1,1,1>>, cu1 |-> <<1,1,1>>, cu3 |-> <<3,1,1>>,
     ccx |-> <<0,2,1>>, cswap |-> <<0,1,2>>, swap |-> <<0,0,2>>, rccx |-> <<0,0,3>>,
     iswap |-> <<0,0,2>>, dcx |-> <<0,0,2>>, ecr |-> <<0,0,2>>,
     rxx |-> <<1,0,2>>, ryy |-> <<1,0,2>>, rzz |-> <<1,0,2>>, rzx |-> <<1,0,2>>]

\* A program calls a gate with its parameters, and on as many qubits as it has or, when a
\* modifier adds some, on more.
IsProgram(prog) ==
    /\ prog \in Seq(Statement)
    /\ \A i \in DOMAIN prog :
         prog[i].kind = "gate" /\ prog[i].id \in DOMAIN Signature \cup {"iswapdg"} =>
           LET arity == Signature[IF prog[i].id = "iswapdg" THEN "iswap" ELSE prog[i].id]
               n == Len(prog[i].operands)
           IN  /\ Len(prog[i].params) = arity[1]
               /\ n >= arity[2] + arity[3]
               /\ prog[i].mods = <<>> => n = arity[2] + arity[3]
=============================================================================
