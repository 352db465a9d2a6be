------------------------------ MODULE QuakeOps ------------------------------
(***************************************************************************)
(* The Quake operations of one basic block, as the passes of this          *)
(* repository see them, and the queries the support library offers on a    *)
(* block (lib/Support/CodeGen/Quake/QuakeOperations.cpp).                  *)
(*                                                                         *)
(* A block is a doubly linked list in MLIR.  Every pass of the repository  *)
(* inserts only directly behind the operation it was called with, so a     *)
(* block is kept here as an array of places: operation number i of the     *)
(* input owns place i * Width, and the Width - 1 places behind it receive  *)
(* what a pass inserts after it.  An erased (or never used) place holds    *)
(* NoOp; the linked list is the array without its NoOp places.             *)
(*                                                                         *)
(* Left out: the operations that only define operands (quake.alloca,       *)
(* quake.extract_ref, arith.constant), which no pass tests for.  An        *)
(* operand is given by what they define: a wire [reg, idx] for a           *)
(* !quake.ref, [constant, ticks] for an angle.                             *)
(***************************************************************************)
EXTENDS Integers, Sequences, FiniteSets

CONSTANTS Wires,      \* the !quake.ref values: records [reg, idx]
          MaxOps      \* the most operations an input block has

ASSUME QuakeOpsAssumption ==
    /\ MaxOps \in Nat \ {0}
    /\ Wires \subseteq [reg : STRING, idx : Int]

(***************************************************************************)
(* Gates implement quake::OperatorInterface; the other operations touch    *)
(* qubits without implementing it (measurements, reset, quake.apply, a     *)
(* cc.if whose region uses the wire).                                      *)
(***************************************************************************)
Gates == {"x", "y", "z", "h", "s", "t", "r1", "rx", "ry", "rz", "u3", "swap"}
NonGates == {"mz", "mx", "my", "reset", "apply", "cc.if"}

\* An angle: an arith.constant of so many ticks (see Angles below), or any other
\* f64 value.
Params == [constant : BOOLEAN, ticks : Int]

Op == [gate : Gates \cup NonGates, adj : BOOLEAN,
       params : Seq(Params), ctrls : Seq(Wires), tgts : Seq(Wires)]

NoOp == [gate |-> "none", adj |-> FALSE,
         params |-> <<>>, ctrls |-> <<>>, tgts |-> <<>>]

isOperator(op) == op.gate \in Gates

\* The elements of a sequence that are in a set, in their order
Among(s, S) ==
    LET among[k \in 0 .. Len(s)] ==
          IF k = 0 THEN <<>>
          ELSE IF s[k] \in S THEN Append(among[k - 1], s[k]) ELSE among[k - 1]
    IN  among[Len(s)]

Operation(gate, adj, params, ctrls, tgts) ==
    [gate |-> gate, adj |-> adj, params |-> params, ctrls |-> ctrls, tgts |-> tgts]

-----------------------------------------------------------------------------
(* Places *)

\* One place for an operation of the input and five behind it: the longest
\* replacement a pass inserts is the one of ReverseCx.
Width == 6

Places == Width .. (MaxOps * Width + Width - 1)
IsHome(s) == s % Width = 0
NoPlace == 0        \* the null Operation* and the end() iterator

Block == [Places -> Op \cup {NoOp}]

Occupied(blk) == {s \in Places : blk[s] # NoOp}

\* The last and the first place of a set of places, NoPlace if there is none.
LastOf(S) == IF S = {} THEN NoPlace ELSE CHOOSE s \in S : \A t \in S : t <= s
FirstOf(S) == IF S = {} THEN NoPlace ELSE CHOOSE s \in S : \A t \in S : s <= t

\* Operation::getNextNode
getNextNode(blk, s) == FirstOf({t \in Occupied(blk) : t > s})

-----------------------------------------------------------------------------
(* Queries of the support library *)

\* The rawIndex of the extract_ref that defines the wire, -1 if the wire is not
\* defined by one: the veq the index points into does not take part.
extractIndexFromQuakeExtractRefOp(w) == w.idx

getIndicesOfValueRange(ws) ==
    [i \in DOMAIN ws |-> extractIndexFromQuakeExtractRefOp(ws[i])]

\* Is the index among the targets or the controls of a gate?
ActsOnIndex(op, i) ==
    /\ isOperator(op)
    /\ \/ \E k \in DOMAIN op.tgts : extractIndexFromQuakeExtractRefOp(op.tgts[k]) = i
       \/ \E k \in DOMAIN op.ctrls : extractIndexFromQuakeExtractRefOp(op.ctrls[k]) = i

\* The nearest gate before place s with the index of w among its operands;
\* operations that are no gates are stepped over.
getPreviousOperationOnTarget(blk, s, w) ==
    LastOf({t \in Places :
              t < s /\ ActsOnIndex(blk[t], extractIndexFromQuakeExtractRefOp(w))})

getNextOperationOnTarget(blk, s, w) ==
    FirstOf({t \in Places :
              t > s /\ ActsOnIndex(blk[t], extractIndexFromQuakeExtractRefOp(w))})

-----------------------------------------------------------------------------
(***************************************************************************)
(* Angles.  A tick is a sixteenth of a full turn: 4 ticks are pi/2.  The   *)
(* library reads a constant through a cast to float, which pushes every    *)
(* non-zero multiple of 2*pi by 1e-7 away from zero; one tick stands for   *)
(* that residue.  Angles that are 2 modulo 4 ticks stand for an angle that *)
(* is no multiple of pi/2.                                                 *)
(***************************************************************************)
FullTurn == 16
MinusOneRadian == -2

AsFloat(ticks) ==
    IF ticks % FullTurn # 0 \/ ticks = 0 THEN ticks
    ELSE IF ticks > 0 THEN ticks + 1 ELSE ticks - 1

\* -1.0 for an operand that is no arith.constant
extractDoubleArgumentValue(p) ==
    IF p.constant THEN AsFloat(p.ticks) ELSE MinusOneRadian

createFloatValue(ticks) == [constant |-> TRUE, ticks |-> ticks]
=============================================================================
