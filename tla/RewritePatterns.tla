--------------------------- MODULE RewritePatterns ---------------------------
(***************************************************************************)
(* What one call of a pass's callback does to a block.  Each operator      *)
(* below is given the block and the place of the operation the walk is at  *)
(* and returns what the callback erases, what it inserts directly behind   *)
(* that operation, and whether it touched memory it must not touch:        *)
(*   "null"   a method is called on the null result of a failed dyn_cast;  *)
(*   "freed"  the callback goes on using the operation it just erased.     *)
(***************************************************************************)
EXTENDS QuakeOps

Rewrite(erase, insert) == [erase |-> erase, insert |-> insert, fault |-> "none"]
NoRewrite == Rewrite({}, <<>>)
NullDereference == [erase |-> {}, insert |-> <<>>, fault |-> "null"]

\* dyn_cast to the gate's class, and the operand counts
IsGate(op, gate, nCtrls, nTgts) ==
    op.gate = gate /\ Len(op.ctrls) = nCtrls /\ Len(op.tgts) = nTgts

Occurrences(seq, v) == Cardinality({i \in DOMAIN seq : seq[i] = v})

\* The two index lists are equal once both are sorted.
SameIndices(ws, vs) ==
    /\ Len(ws) = Len(vs)
    /\ LET is == getIndicesOfValueRange(ws)
           js == getIndicesOfValueRange(vs)
       IN  \A k \in DOMAIN is : Occurrences(is, is[k]) = Occurrences(js, is[k])

\* A gate of another class on the operands of op
Retyped(op, gate) == [op EXCEPT !.gate = gate]

-----------------------------------------------------------------------------
(* Support/Transforms: the rewrite templates the passes share *)

\* Mutant: the partner is looked for behind the current gate.
CancellationForward(blk, cur, T1, T2, nCtrlsOp1, nTgtsOp1, nCtrlsOp2, nTgtsOp2) ==
    LET current == blk[cur]
        partner == getNextOperationOnTarget(blk, cur, current.tgts[1])
    IN  IF /\ IsGate(current, T2, nCtrlsOp2, nTgtsOp2)
           /\ partner # NoPlace
           /\ IsGate(blk[partner], T1, nCtrlsOp1, nTgtsOp1)
           /\ SameIndices(current.ctrls, blk[partner].ctrls)
           /\ SameIndices(current.tgts, blk[partner].tgts)
        THEN Rewrite({cur, partner}, <<>>)
        ELSE NoRewrite

patternCancellation(blk, cur, T1, T2, nCtrlsOp1, nTgtsOp1, nCtrlsOp2, nTgtsOp2) ==
    LET current == blk[cur]
        prev == getPreviousOperationOnTarget(blk, cur, current.tgts[1])
    IN  IF /\ IsGate(current, T2, nCtrlsOp2, nTgtsOp2)
           /\ prev # NoPlace
           /\ IsGate(blk[prev], T1, nCtrlsOp1, nTgtsOp1)
           /\ SameIndices(current.ctrls, blk[prev].ctrls)
           /\ SameIndices(current.tgts, blk[prev].tgts)
        THEN Rewrite({cur, prev}, <<>>)
        ELSE NoRewrite

\* The previous gate is re-created behind the current one, which is re-created too.
commuteOperation(blk, cur, T1, T2, nCtrlsOp1, nTgtsOp1, nCtrlsOp2, nTgtsOp2) ==
    LET current == blk[cur]
        prev == getPreviousOperationOnTarget(blk, cur, current.tgts[1])
    IN  IF /\ IsGate(current, T2, nCtrlsOp2, nTgtsOp2)
           /\ prev # NoPlace
           /\ IsGate(blk[prev], T1, nCtrlsOp1, nTgtsOp1)
           /\ blk[prev].tgts[1].idx = current.tgts[1].idx
        THEN Rewrite({cur, prev}, <<current, blk[prev]>>)
        ELSE NoRewrite

\* The dyn_cast of the previous gate to T1 is not tested before it is used.
patternSwitch(blk, cur, T1, T2, T3, T4) ==
    LET current == blk[cur]
        prev == getPreviousOperationOnTarget(blk, cur, current.tgts[1])
    IN  IF ~ IsGate(current, T2, 0, 1) \/ prev = NoPlace THEN NoRewrite
        ELSE IF blk[prev].gate # T1 THEN NullDereference
        ELSE IF ~ IsGate(blk[prev], T1, 0, 1) THEN NoRewrite
        ELSE Rewrite({cur, prev}, <<Retyped(current, T3), Retyped(blk[prev], T4)>>)

-----------------------------------------------------------------------------
(* lib/Passes/Transforms *)

\* Eight cancellations tried one after the other on the same Operation*; the
\* one that matches erases it, and only the last has no successor that reads it.
ReductionCalls ==
    << <<"x", 1>>, <<"x", 0>>, <<"y", 1>>, <<"y", 0>>,
       <<"z", 1>>, <<"z", 0>>, <<"h", 1>>, <<"h", 0>> >>

ReductionPattern(blk, cur) ==
    LET call(k) == patternCancellation(blk, cur, ReductionCalls[k][1], ReductionCalls[k][1],
                                       ReductionCalls[k][2], 1, ReductionCalls[k][2], 1)
        hit == FirstOf({k \in DOMAIN ReductionCalls : call(k) # NoRewrite})
    IN  IF hit = NoPlace THEN NoRewrite
        ELSE [call(hit) EXCEPT !.fault = IF hit < Len(ReductionCalls) THEN "freed" ELSE @]

\* A cx is moved behind the z on its control: only the cx is re-created.
commuteCNotZ(blk, cur) ==
    LET current == blk[cur]
        prev == getPreviousOperationOnTarget(blk, cur, current.tgts[1])
    IN  IF /\ IsGate(current, "z", 0, 1)
           /\ prev # NoPlace
           /\ IsGate(blk[prev], "x", 1, 1)
           /\ current.tgts[1].idx = blk[prev].ctrls[1].idx
        THEN Rewrite({prev}, <<blk[prev]>>)
        ELSE NoRewrite

\* Mutant: the z is looked for on the target of the cx.
CommuteZOnTarget(blk, cur) ==
    LET current == blk[cur]
        prev == getPreviousOperationOnTarget(blk, cur, current.tgts[1])
    IN  IF /\ IsGate(current, "x", 1, 1)
           /\ prev # NoPlace
           /\ IsGate(blk[prev], "z", 0, 1)
        THEN Rewrite({prev}, <<blk[prev]>>)
        ELSE NoRewrite

\* A z on the control of the cx is moved behind it: only the z is re-created.
commuteZCNot(blk, cur) ==
    LET current == blk[cur]
        prev == getPreviousOperationOnTarget(blk, cur, current.ctrls[1])
    IN  IF /\ IsGate(current, "x", 1, 1)
           /\ prev # NoPlace
           /\ IsGate(blk[prev], "z", 0, 1)
           /\ blk[prev].tgts[1].idx = current.ctrls[1].idx
        THEN Rewrite({prev}, <<blk[prev]>>)
        ELSE NoRewrite

\* h, middle, h on one wire becomes result; the dyn_cast of the first h is not
\* tested before it is used.
ReplaceHPauliH(blk, cur, middle, result) ==
    LET current == blk[cur]
        prev == getPreviousOperationOnTarget(blk, cur, current.tgts[1])
        prevPrev == getPreviousOperationOnTarget(blk, prev, current.tgts[1])
    IN  IF \/ ~ IsGate(current, "h", 0, 1)
           \/ prev = NoPlace
           \/ ~ IsGate(blk[prev], middle, 0, 1)
           \/ prevPrev = NoPlace
        THEN NoRewrite
        ELSE IF blk[prevPrev].gate # "h" THEN NullDereference
        ELSE IF ~ IsGate(blk[prevPrev], "h", 0, 1) THEN NoRewrite
        ELSE Rewrite({cur, prev, prevPrev},
                     <<Operation(result, FALSE, <<>>, current.ctrls, current.tgts)>>)

ReplaceHXHToZ(blk, cur) == ReplaceHPauliH(blk, cur, "x", "z")
ReplaceHZHToX(blk, cur) == ReplaceHPauliH(blk, cur, "z", "x")

\* The Pauli gate that h turns a Pauli gate into
ThroughH == [x |-> "z", y |-> "y", z |-> "x"]

SwitchPauliHOperation(blk, cur) ==
    LET current == blk[cur]
        prev == getPreviousOperationOnTarget(blk, cur, current.tgts[1])
    IN  IF /\ IsGate(current, "h", 0, 1)
           /\ prev # NoPlace
           /\ blk[prev].gate \in DOMAIN ThroughH
           /\ IsGate(blk[prev], blk[prev].gate, 0, 1)
        THEN Rewrite({prev}, <<Retyped(blk[prev], ThroughH[blk[prev].gate])>>)
        ELSE NoRewrite

Rotations == {"rx", "ry", "rz"}

\* fmod(angle, 2*pi) == 0
checkDoublePiMultiplies(ticks) == ticks % FullTurn = 0

\* Mutant: the test for a rotation is forgotten.
NullAngleCancellation(blk, cur) ==
    IF \A i \in DOMAIN blk[cur].params :
         checkDoublePiMultiplies(extractDoubleArgumentValue(blk[cur].params[i]))
    THEN Rewrite({cur}, <<>>)
    ELSE NoRewrite

nullRotationCancellation(blk, cur) ==
    IF /\ blk[cur].gate \in Rotations
       /\ \A i \in DOMAIN blk[cur].params :
            LET param == extractDoubleArgumentValue(blk[cur].params[i])
            IN  checkDoublePiMultiplies(param) \/ param = 0
    THEN Rewrite({cur}, <<>>)
    ELSE NoRewrite

\* Mutant: fmod(angle, 2*pi), which keeps the sign of the angle.
RemainderAngle(p) ==
    LET angle == extractDoubleArgumentValue(p)
    IN  createFloatValue(IF angle < 0 THEN - ((- angle) % FullTurn) ELSE angle % FullTurn)

\* angle - floor(angle / 2*pi) * 2*pi
NormalizedAngle(p) == createFloatValue(extractDoubleArgumentValue(p) % FullTurn)

normalizeAngleOfRotations(blk, cur) ==
    LET current == blk[cur]
    IN  IF current.gate \in Rotations
        THEN Rewrite({cur},
                     <<[current EXCEPT !.params =
                          [i \in DOMAIN current.params |-> NormalizedAngle(current.params[i])]]>>)
        ELSE NoRewrite

-----------------------------------------------------------------------------
(* lib/Passes/Decompositions *)

Plain(gate, ctrls, tgts) == Operation(gate, FALSE, <<>>, ctrls, tgts)

\* The cz is created with the operands of the cx exchanged.
CxToHCzHPattern(blk, cur) ==
    LET ctrls == blk[cur].ctrls
        tgts == blk[cur].tgts
    IN  IF IsGate(blk[cur], "x", 1, 1)
        THEN Rewrite({cur}, <<Plain("h", <<>>, tgts), Plain("z", tgts, ctrls),
                              Plain("h", <<>>, tgts)>>)
        ELSE NoRewrite

ReplaceCzToHCxH(blk, cur) ==
    LET ctrls == blk[cur].ctrls
        tgts == blk[cur].tgts
    IN  IF IsGate(blk[cur], "z", 1, 1)
        THEN Rewrite({cur}, <<Plain("h", <<>>, tgts), Plain("x", ctrls, tgts),
                              Plain("h", <<>>, tgts)>>)
        ELSE NoRewrite

\* Mutant: the last h on the control is forgotten.
ReverseWithoutLastH(blk, cur) ==
    LET ctrls == blk[cur].ctrls
        tgts == blk[cur].tgts
    IN  IF IsGate(blk[cur], "x", 1, 1)
        THEN Rewrite({cur}, <<Plain("h", <<>>, tgts), Plain("h", <<>>, ctrls),
                              Plain("x", tgts, ctrls), Plain("h", <<>>, tgts)>>)
        ELSE NoRewrite

ReverseCNot(blk, cur) ==
    LET ctrls == blk[cur].ctrls
        tgts == blk[cur].tgts
    IN  IF IsGate(blk[cur], "x", 1, 1)
        THEN Rewrite({cur}, <<Plain("h", <<>>, tgts), Plain("h", <<>>, ctrls),
                              Plain("x", tgts, ctrls),
                              Plain("h", <<>>, tgts), Plain("h", <<>>, ctrls)>>)
        ELSE NoRewrite

\* Mutant: the adjointness of the s is not tested.
ReplaceAnySZ(blk, cur, adj) ==
    LET current == blk[cur]
        prev == getPreviousOperationOnTarget(blk, cur, current.tgts[1])
    IN  IF /\ IsGate(current, "z", 0, 1)
           /\ prev # NoPlace
           /\ IsGate(blk[prev], "s", 0, 1)
        THEN Rewrite({cur, prev}, <<[blk[prev] EXCEPT !.adj = ~ adj]>>)
        ELSE NoRewrite

\* s (of the given adjointness) then z on a wire is the other s, put after the z.
ReplaceSZ(blk, cur, adj) ==
    LET current == blk[cur]
        prev == getPreviousOperationOnTarget(blk, cur, current.tgts[1])
    IN  IF /\ IsGate(current, "z", 0, 1)
           /\ prev # NoPlace
           /\ IsGate(blk[prev], "s", 0, 1)
           /\ blk[prev].adj = adj
        THEN Rewrite({cur, prev}, <<[blk[prev] EXCEPT !.adj = ~ adj]>>)
        ELSE NoRewrite

ReplaceSZToSAdj(blk, cur) == ReplaceSZ(blk, cur, FALSE)
ReplaceSAdjZToS(blk, cur) == ReplaceSZ(blk, cur, TRUE)

-----------------------------------------------------------------------------
(* The passes: what operationsOnQuantumKernel does with each operation. *)

CancellationDoubleCx(blk, cur) == patternCancellation(blk, cur, "x", "x", 1, 1, 1, 1)
CommuteCxRx(blk, cur) == commuteOperation(blk, cur, "x", "rx", 1, 1, 0, 1)
CommuteCxX(blk, cur) == commuteOperation(blk, cur, "x", "x", 1, 1, 0, 1)
CommuteRxCx(blk, cur) == commuteOperation(blk, cur, "rx", "x", 0, 1, 1, 1)
CommuteXCx(blk, cur) == commuteOperation(blk, cur, "x", "x", 0, 1, 1, 1)
SwitchHX(blk, cur) == patternSwitch(blk, cur, "h", "x", "z", "h")
SwitchHY(blk, cur) == patternSwitch(blk, cur, "h", "y", "y", "h")
SwitchHZ(blk, cur) == patternSwitch(blk, cur, "h", "z", "x", "h")
SwitchXH(blk, cur) == patternSwitch(blk, cur, "x", "h", "h", "z")
SwitchYH(blk, cur) == patternSwitch(blk, cur, "y", "h", "h", "y")
SwitchZH(blk, cur) == patternSwitch(blk, cur, "z", "h", "h", "x")

PassNames ==
    {"CancellationDoubleCx", "ReductionPattern", "CancellationNullRotation",
     "NormalizeArgAngle", "CommuteCxRx", "CommuteCxX", "CommuteCxZ", "CommuteRxCx",
     "CommuteXCx", "CommuteZCx", "HXHToZ", "HZHToX", "SwitchHX", "SwitchHY",
     "SwitchHZ", "SwitchXH", "SwitchYH", "SwitchZH", "SwitchPauliH",
     "CxToHCzH", "CzToHCxH", "ReverseCx", "SAdjZToS", "SZToSAdj"}

Callback(p, blk, cur) ==
    CASE p = "CancellationDoubleCx" -> CancellationDoubleCx(blk, cur)
      [] p = "ReductionPattern" -> ReductionPattern(blk, cur)
      [] p = "CancellationNullRotation" -> nullRotationCancellation(blk, cur)
      [] p = "NormalizeArgAngle" -> normalizeAngleOfRotations(blk, cur)
      [] p = "CommuteCxRx" -> CommuteCxRx(blk, cur)
      [] p = "CommuteCxX" -> CommuteCxX(blk, cur)
      [] p = "CommuteCxZ" -> commuteCNotZ(blk, cur)
      [] p = "CommuteRxCx" -> CommuteRxCx(blk, cur)
      [] p = "CommuteXCx" -> CommuteXCx(blk, cur)
      [] p = "CommuteZCx" -> commuteZCNot(blk, cur)
      [] p = "HXHToZ" -> ReplaceHXHToZ(blk, cur)
      [] p = "HZHToX" -> ReplaceHZHToX(blk, cur)
      [] p = "SwitchHX" -> SwitchHX(blk, cur)
      [] p = "SwitchHY" -> SwitchHY(blk, cur)
      [] p = "SwitchHZ" -> SwitchHZ(blk, cur)
      [] p = "SwitchXH" -> SwitchXH(blk, cur)
      [] p = "SwitchYH" -> SwitchYH(blk, cur)
      [] p = "SwitchZH" -> SwitchZH(blk, cur)
      [] p = "SwitchPauliH" -> SwitchPauliHOperation(blk, cur)
      [] p = "CxToHCzH" -> CxToHCzHPattern(blk, cur)
      [] p = "CzToHCxH" -> ReplaceCzToHCxH(blk, cur)
      [] p = "ReverseCx" -> ReverseCNot(blk, cur)
      [] p = "SAdjZToS" -> ReplaceSAdjZToS(blk, cur)
      [] p = "SZToSAdj" -> ReplaceSZToSAdj(blk, cur)

-----------------------------------------------------------------------------
(* Carrying a rewrite out *)

\* The block that holds a circuit: operation i at its home place.
Load(c) ==
    [s \in Places |-> IF IsHome(s) /\ s \div Width <= Len(c) THEN c[s \div Width] ELSE NoOp]

\* Mutant: an erased operation loses its name but keeps its place.
RewrittenWithTombstones(b, cur, r) ==
    [s \in Places |->
       IF s > cur /\ s <= cur + Len(r.insert) THEN r.insert[s - cur]
       ELSE IF s \in r.erase THEN [b[s] EXCEPT !.gate = "none"] ELSE b[s]]

\* The block after rewrite r at place cur.
Rewritten(b, cur, r) ==
    [s \in Places |->
       IF s > cur /\ s <= cur + Len(r.insert) THEN r.insert[s - cur]
       ELSE IF s \in r.erase THEN NoOp ELSE b[s]]

\* Calling a method on a null operation ends the process.  What reading a freed
\* operation does is undefined: as a rule the memory still holds the old data and
\* no later test matches, but the process may as well crash.
Outcomes(fault) ==
    IF fault = "null" THEN {"crashed"}
    ELSE IF fault = "freed" THEN {"running", "crashed"} ELSE {"running"}
=============================================================================
