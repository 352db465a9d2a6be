--------------------------- MODULE CircuitMeaning ---------------------------
(***************************************************************************)
(* What a circuit does, as a reference to hold the rewrites against; it    *)
(* models no code.                                                         *)
(*                                                                         *)
(* The Clifford gates x, y, z, h, s, swap and singly controlled x, y, z    *)
(* are carried by the images of the Pauli operators under them             *)
(* (Heisenberg's picture).  Every other operation is an event: its kind,   *)
(* its angle, and the images, at the place where it stands, of the Pauli   *)
(* operators it depends on; events all of whose operators commute may      *)
(* trade places.  Two circuits with the same final images and the same     *)
(* events up to such trades are the same operation, up to a global phase.  *)
(* The converse does not hold for every circuit (two events may cancel),   *)
(* so a counterexample is read before it is believed.                      *)
(***************************************************************************)
EXTENDS QuakeOps, SequencesExt

\* The Pauli operator i^phase * X^x * Z^z, with x and z sets of wires.
Pauli(phase, x, z) == [phase |-> phase, x |-> x, z |-> z]
XOn(w) == Pauli(0, {w}, {})
ZOn(w) == Pauli(0, {}, {w})

Xor(A, B) == (A \ B) \cup (B \ A)

Times(p, q) ==
    Pauli((p.phase + q.phase + 2 * Cardinality(p.z \cap q.x)) % 4,
          Xor(p.x, q.x), Xor(p.z, q.z))
Phased(k, p) == [p EXCEPT !.phase = (@ + k) % 4]

\* The images of X and Z on every wire; of Y = i X Z from them.
Identity == [w \in Wires |-> [x |-> XOn(w), z |-> ZOn(w)]]
YImage(img) == Phased(1, Times(img.x, img.z))
ImageOf(img, axis) ==
    IF axis = "x" THEN img.x ELSE IF axis = "z" THEN img.z ELSE YImage(img)

\* A Pauli gate on w: the other two axes change sign.
AfterPauli(axis, img) ==
    [x |-> IF axis = "x" THEN img.x ELSE Phased(2, img.x),
     z |-> IF axis = "z" THEN img.z ELSE Phased(2, img.z)]

\* A Pauli gate on t controlled by c: what anticommutes with the gate on one side
\* picks up the gate's Pauli of the other side.
AfterControlledPauli(axis, images, c, t) ==
    LET P == ImageOf(images[t], axis)
        Z == images[c].z
    IN  [images EXCEPT
           ![c] = [x |-> Times(@.x, P), z |-> @.z],
           ![t] = [x |-> IF axis = "x" THEN @.x ELSE Times(Z, @.x),
                   z |-> IF axis = "z" THEN @.z ELSE Times(Z, @.z)]]

Axis == [x |-> "x", y |-> "y", z |-> "z", rx |-> "x", ry |-> "y", rz |-> "z",
         t |-> "z", r1 |-> "z", mx |-> "x", my |-> "y", mz |-> "z"]

\* Angle of a rotation in quarter turns, the float residue rounded off.  A full
\* turn is minus the identity: a phase nobody sees unless the gate is controlled.
QuarterTurns(op) ==
    LET signed == IF op.adj THEN - op.params[1].ticks ELSE op.params[1].ticks
    IN  ((signed + 1) \div 4) % (IF op.ctrls = <<>> THEN 4 ELSE 8)

Angle(op) ==
    IF op.params = <<>> THEN <<op.adj>>
    ELSE IF op.params[1].constant /\ op.params[1].ticks % 4 # 2 THEN <<QuarterTurns(op)>>
    ELSE <<op.adj, op.params[1]>>

ControlImages(images, op) == {images[op.ctrls[k]].z : k \in DOMAIN op.ctrls}

Event(images, op) ==
    [gate |-> op.gate, angle |-> Angle(op), ctrls |-> ControlImages(images, op),
     on |-> IF op.gate \in DOMAIN Axis
            THEN [k \in DOMAIN op.tgts |-> <<ImageOf(images[op.tgts[k]], Axis[op.gate])>>]
            ELSE [k \in DOMAIN op.tgts |->
                    <<images[op.tgts[k]].x, images[op.tgts[k]].z>>]]

PaulisOf(e) == e.ctrls \cup UNION {{e.on[k][i] : i \in DOMAIN e.on[k]} : k \in DOMAIN e.on}
Commute(p, q) == (Cardinality(p.x \cap q.z) + Cardinality(p.z \cap q.x)) % 2 = 0
Independent(e, f) == \A p \in PaulisOf(e), q \in PaulisOf(f) : Commute(p, q)

\* Two sequences of events differ in the order of independent events only: they agree
\* on every pair of events that are not (and on every single event).
SameEvents(es, fs) ==
    es = fs \/ \A e, f \in ToSet(es) \cup ToSet(fs) :
      e = f \/ ~ Independent(e, f) => Among(es, {e, f}) = Among(fs, {e, f})

IsPauliGate(op) == op.gate \in {"x", "y", "z"}
NullRotation(op) == op.gate \in {"rx", "ry", "rz"} /\ Angle(op) = <<0>>

Apply(meaning, op) ==
    LET images == meaning.images
        t == op.tgts[1]
        Moved(new) == [meaning EXCEPT !.images = new]
    IN  CASE IsPauliGate(op) /\ Len(op.ctrls) = 0 ->
                 Moved([images EXCEPT ![t] = AfterPauli(op.gate, @)])
          [] IsPauliGate(op) /\ Len(op.ctrls) = 1 ->
                 Moved(AfterControlledPauli(op.gate, images, op.ctrls[1], t))
          [] op.gate = "h" /\ op.ctrls = <<>> ->
                 Moved([images EXCEPT ![t] = [x |-> @.z, z |-> @.x]])
          [] op.gate = "s" /\ op.ctrls = <<>> ->
                 Moved([images EXCEPT
                          ![t] = [x |-> Phased(IF op.adj THEN 0 ELSE 2, YImage(@)), z |-> @.z]])
          [] op.gate = "swap" /\ op.ctrls = <<>> ->
                 Moved([images EXCEPT ![t] = images[op.tgts[2]], ![op.tgts[2]] = images[t]])
          [] NullRotation(op) -> meaning
          [] OTHER -> [meaning EXCEPT !.events = Append(@, Event(images, op))]

SameMeaning(m, n) == m.images = n.images /\ SameEvents(m.events, n.events)

Meaning(circuit) == FoldLeft(Apply, [images |-> Identity, events |-> <<>>], circuit)

\* The operations of a block in the order of its places.
Circuit(blk) ==
    Among([i \in 1 .. (MaxOps * Width) |-> blk[i + Width - 1]], Op)
=============================================================================
