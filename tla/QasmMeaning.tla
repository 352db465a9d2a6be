---------------------------- MODULE QasmMeaning -----------------------------
(***************************************************************************)
(* What the gates of the QASM standard library and those of Quake do, as   *)
(* matrices; a reference to hold the gate table against, it models no      *)
(* code.                                                                   *)
(*                                                                         *)
(* Entries of the matrices are in Z[w], w = exp(i pi/4), as the four       *)
(* coefficients of 1, w, w^2, w^3; a matrix comes with the number of       *)
(* factors 1/sqrt(2) that belong in front of it.  A basis state is the     *)
(* set of the wires that are 1.  Angles are in ticks of pi/8: a phase is   *)
(* exact for an even number of ticks, a rotation for a multiple of four.   *)
(***************************************************************************)
EXTENDS QuakeOps, QasmPrograms

Zero == <<0, 0, 0, 0>>
Omega(k) ==
    [i \in 1 .. 4 |-> IF i # (k % 4) + 1 THEN 0 ELSE IF k % 8 < 4 THEN 1 ELSE -1]
Add(a, b) == <<a[1] + b[1], a[2] + b[2], a[3] + b[3], a[4] + b[4]>>
Mul(a, b) ==
    <<a[1]*b[1] - a[2]*b[4] - a[3]*b[3] - a[4]*b[2],
      a[1]*b[2] + a[2]*b[1] - a[3]*b[4] - a[4]*b[3],
      a[1]*b[3] + a[2]*b[2] + a[3]*b[1] - a[4]*b[4],
      a[1]*b[4] + a[2]*b[3] + a[3]*b[2] + a[4]*b[1]>>
Root2ToThe(n) ==
    LET half == 2^(n \div 2)
    IN  IF n % 2 = 0 THEN <<half, 0, 0, 0>> ELSE <<0, half, 0, - half>>
Root2 == Root2ToThe(1)

\* sqrt(2) times the cosine and the sine of k * pi/4.
Cos(k) == <<Root2, Omega(0), Zero, Omega(4), Mul(Omega(4), Root2), Omega(4), Zero, Omega(0)>>[(k % 8) + 1]
Sin(k) == Cos(k - 2)

\* An operator on some wires: |b> becomes the sum over F of amp[F][b] |b with F flipped>.
Xor(A, B) == (A \ B) \cup (B \ A)
Local(on, scale, amp) == [on |-> on, scale |-> scale, amp |-> amp]

OneWire(w, scale, m00, m01, m10, m11) ==
    Local({w}, scale,
          [F \in SUBSET {w} |-> [b \in SUBSET {w} |->
             IF F = {} THEN (IF b = {} THEN m00 ELSE m11) ELSE (IF b = {} THEN m10 ELSE m01)]])

\* Basis states are permuted by pi and get the phase w^phase.
Monomial(on, pi, phase) ==
    Local(on, 0, [F \in SUBSET on |-> [b \in SUBSET on |->
                    IF Xor(b, pi[b]) = F THEN Omega(phase[b]) ELSE Zero]])
Permutation(on, pi) == Monomial(on, pi, [b \in SUBSET on |-> 0])

\* A Pauli operator axes (a function from wires), and exp(-i angle/2 axes).
Flips(axes) == {w \in DOMAIN axes : axes[w] \in {"x", "y"}}
PauliPhase(axes, b) ==
    LET OfWire(w) == CASE axes[w] = "x" -> 0
                       [] axes[w] = "y" -> IF w \in b THEN 6 ELSE 2
                       [] axes[w] = "z" -> IF w \in b THEN 4 ELSE 0
    IN  FoldSet(LAMBDA w, sum : OfWire(w) + sum, 0, DOMAIN axes)
Rotation(axes, ticks) ==
    Local(DOMAIN axes, 1,
          [F \in SUBSET DOMAIN axes |-> [b \in SUBSET DOMAIN axes |->
             Add(IF F = {} THEN Cos(ticks \div 4) ELSE Zero,
                 IF F = Flips(axes)
                 THEN Mul(Omega(6 + PauliPhase(axes, b)), Sin(ticks \div 4)) ELSE Zero)]])
On1(w, axis) == [v \in {w} |-> axis]
On2(v, vAxis, w, wAxis) == [u \in {v, w} |-> IF u = v THEN vAxis ELSE wAxis]

Pauli(w, axis) ==
    Local({w}, 0, [F \in SUBSET {w} |-> [b \in SUBSET {w} |->
      IF F = Flips(On1(w, axis)) THEN Omega(PauliPhase(On1(w, axis), b)) ELSE Zero]])
Hadamard(w) == OneWire(w, 1, Omega(0), Omega(0), Omega(0), Omega(4))
Phase(w, ticks) == OneWire(w, 0, Omega(0), Zero, Zero, Omega(ticks \div 2))
Universal(w, theta, phi, lambda) ==
    OneWire(w, 1, Cos(theta \div 4), Mul(Omega(4 + lambda \div 2), Sin(theta \div 4)),
            Mul(Omega(phi \div 2), Sin(theta \div 4)),
            Mul(Omega((phi + lambda) \div 2), Cos(theta \div 4)))
Exchange(v, w) ==
    Permutation({v, w}, [b \in SUBSET {v, w} |-> IF Cardinality(b) = 1 THEN {v, w} \ b ELSE b])
Nothing(w) == Phase(w, 0)

-----------------------------------------------------------------------------
(* The gates of the QASM standard library *)

\* The gate on its targets t, its controls aside.
OnTargets(gate, a, t) ==
    CASE gate \in {"x", "cx", "CX", "ccx"} -> Pauli(t[1], "x")
      [] gate \in {"y", "cy"}   -> Pauli(t[1], "y")
      [] gate \in {"z", "cz"}   -> Pauli(t[1], "z")
      [] gate \in {"h", "ch"}   -> Hadamard(t[1])
      [] gate = "s"             -> Phase(t[1], 4)
      [] gate = "sdg"           -> Phase(t[1], -4)
      [] gate = "t"             -> Phase(t[1], 2)
      [] gate = "tdg"           -> Phase(t[1], -2)
      [] gate = "sx"            -> OneWire(t[1], 1, Omega(1), Omega(7), Omega(7), Omega(1))
      [] gate = "sxdg"          -> OneWire(t[1], 1, Omega(7), Omega(1), Omega(1), Omega(7))
      [] gate = "id"            -> Nothing(t[1])
      [] gate \in {"rx", "crx"} -> Rotation(On1(t[1], "x"), a[1])
      [] gate \in {"ry", "cry"} -> Rotation(On1(t[1], "y"), a[1])
      [] gate \in {"rz", "crz"} -> Rotation(On1(t[1], "z"), a[1])
      [] gate \in {"p", "phase", "u1", "cu1", "cp", "cphase"} -> Phase(t[1], a[1])
      [] gate = "u2"            -> Universal(t[1], 4, a[1], a[2])
      [] gate \in {"u3", "cu3", "u", "U"} -> Universal(t[1], a[1], a[2], a[3])
      [] gate \in {"swap", "cswap"} -> Exchange(t[1], t[2])
      [] gate = "rxx"           -> Rotation(On2(t[1], "x", t[2], "x"), a[1])
      [] gate = "ryy"           -> Rotation(On2(t[1], "y", t[2], "y"), a[1])
      [] gate = "rzz"           -> Rotation(On2(t[1], "z", t[2], "z"), a[1])
      [] gate = "rzx"           -> Rotation(On2(t[1], "z", t[2], "x"), a[1])
      [] gate = "iswap"         ->
           Monomial({t[1], t[2]},
                    [b \in SUBSET {t[1], t[2]} |-> IF Cardinality(b) = 1 THEN {t[1], t[2]} \ b ELSE b],
                    [b \in SUBSET {t[1], t[2]} |-> IF Cardinality(b) = 1 THEN 2 ELSE 0])
      [] gate = "dcx"           ->
           Permutation({t[1], t[2]},
                       [b \in SUBSET {t[1], t[2]} |->
                          (IF t[2] \in b THEN {t[1]} ELSE {}) \cup
                          (IF Cardinality(b) = 1 THEN {t[2]} ELSE {})])
      [] gate = "ecr"           ->      \* (X on the first - Y on the first, X on the second)
           Local({t[1], t[2]}, 1,
                 [F \in SUBSET {t[1], t[2]} |-> [b \in SUBSET {t[1], t[2]} |->
                    IF F = {t[1]} THEN Omega(0)
                    ELSE IF F = {t[1], t[2]}
                    THEN Omega(4 + PauliPhase(On2(t[1], "y", t[2], "x"), b)) ELSE Zero]])
      [] gate = "rccx"          ->      \* ccx up to the phases of |101>, |110> and |111>
           Monomial(ToSet(t),
                    [b \in SUBSET ToSet(t) |->
                       IF {t[1], t[2]} \subseteq b THEN Xor(b, {t[3]}) ELSE b],
                    [b \in SUBSET ToSet(t) |->
                       CASE b = {t[1], t[2]} -> 2 [] b = ToSet(t) -> 6
                         [] b = {t[1], t[3]} -> 4 [] OTHER -> 0])

\* A gate of Quake on its targets.  An rz that is not controlled is taken for the phase
\* gate it equals up to a global phase; the gate table controls none.
OfQuake(op) ==
    LET t == op.tgts[1]
        sign == IF op.adj THEN -1 ELSE 1
        Angle(i) == sign * op.params[i].ticks
    IN  CASE op.gate \in {"x", "y", "z"} -> Pauli(t, op.gate)
          [] op.gate = "h"    -> Hadamard(t)
          [] op.gate = "s"    -> Phase(t, sign * 4)
          [] op.gate = "t"    -> Phase(t, sign * 2)
          [] op.gate = "rx"   -> Rotation(On1(t, "x"), Angle(1))
          [] op.gate = "ry"   -> Rotation(On1(t, "y"), Angle(1))
          [] op.gate \in {"rz", "r1"} -> Phase(t, Angle(1))
          [] op.gate = "u3"   -> Universal(t, Angle(1), Angle(2), Angle(3))
          [] op.gate = "swap" -> Exchange(t, op.tgts[2])

-----------------------------------------------------------------------------
(* Circuits *)

\* A matrix is given by its entries <<from, to>>, each of them computed once.
Entries == (SUBSET Wires) \X (SUBSET Wires)
Matrix(Entry(_)) == FoldSet(LAMBDA e, m : (e :> Entry(e)) @@ m, <<>>, Entries)

Identity ==
    [scale |-> 0,
     at |-> Matrix(LAMBDA e : IF e[1] = e[2] THEN Omega(0) ELSE Zero)]

\* The circuit followed by an operator that is controlled by some wires.
Then(m, ctrls, local) ==
    LET Amp(F, b) == IF ctrls \subseteq b THEN local.amp[F][b \cap local.on]
                     ELSE IF F = {} THEN Root2ToThe(local.scale) ELSE Zero
        New(e) == FoldSet(LAMBDA F, sum : Add(Mul(Amp(F, Xor(e[2], F)), m.at[<<e[1], Xor(e[2], F)>>]), sum),
                          Zero, SUBSET local.on)
    IN  [scale |-> m.scale + local.scale,
         at |-> Matrix(New)]

\* Equal up to a global phase that is a multiple of pi/4.
SameUpToPhase(m, n) ==
    \E k \in 0 .. 7 : \A e \in Entries :
      Mul(m.at[e], Root2ToThe(n.scale))
        = Mul(Omega(k), Mul(n.at[e], Root2ToThe(m.scale)))

QuakeCircuit(ops) ==
    FoldLeft(LAMBDA m, op : Then(m, ToSet(op.ctrls), OfQuake(op)), Identity, ops)

QasmCircuit(calls) ==
    LET Ctrls(call) == SubSeq(call.operands, 1, Signature[call.id][2])
        Tgts(call) == SubSeq(call.operands, Signature[call.id][2] + 1, Len(call.operands))
    IN  FoldLeft(LAMBDA m, call : Then(m, ToSet(Ctrls(call)),
                                       OnTargets(call.id, call.params, Tgts(call))),
                 Identity, calls)
=============================================================================
