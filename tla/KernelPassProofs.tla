-------------------------- MODULE KernelPassProofs --------------------------
(***************************************************************************)
(* The walk of a pass over a kernel, for circuits of every length, every   *)
(* set of wires and every pass: types, the validity of the saved iterator, *)
(* that the walk meets the input and nothing else, that no pass touches an *)
(* operation that is no gate, that one run of ten of the passes is enough, *)
(* that nineteen of the passes keep what the kernel does, and that all of  *)
(* them do where nothing stands between the gates they rewrite.  What one  *)
(* callback does to the block is PassLemmas.                               *)
(***************************************************************************)
EXTENDS KernelMeaning, PassLemmas

-----------------------------------------------------------------------------

\* RestUntouched is what makes the other parts inductive: the next operation is one of
\* the input, so it is at a home place, and what is inserted behind the current
\* operation cannot reach it.
IInv == TypeOK /\ IteratorValid /\ RestUntouched /\ NonGatesUntouched

\* The parts about the block are those of the walk over any block.
LEMMA PartsOfInvariant ==
    /\ IInv => MeetsInput(input, blk, next)
    /\ TypeOK /\ MeetsInput(input, blk, next) => IInv
BY DEF IInv, TypeOK, MeetsInput, IteratorValid, RestUntouched, NonGatesUntouched

LEMMA InitInvariant == Init => IInv
<1> SUFFICES ASSUME Init PROVE IInv
    OBVIOUS
<1>1. MeetsInput(input, blk, next)
    BY KernelPassAssumption, FirstNode DEF Init
<1>2. TypeOK
    BY <1>1 DEF Init, TypeOK, MeetsInput
<1> QED BY <1>1, <1>2, PartsOfInvariant

LEMMA StepInvariant == IInv /\ [Next]_vars => IInv'
<1> SUFFICES ASSUME IInv, [Next]_vars PROVE IInv'
    OBVIOUS
<1>1. CASE Visit
    <2> DEFINE r == Callback(pass, blk, next)
    <2>1. /\ input \in Seq(Op) /\ Len(input) <= MaxOps
          /\ pass \in PassNames /\ blk \in Block /\ next \in Places
        BY <1>1, KernelPassAssumption DEF Visit, IInv, TypeOK
    <2>2. WellFormed(blk, next, r)
        BY <2>1, CallbackWellFormed
    <2>3. MeetsInput(input, blk, next) /\ next # NoPlace
        BY <1>1, PartsOfInvariant DEF Visit
    <2> HIDE DEF r
    <2>4. MeetsInput(input, Rewritten(blk, next, r), getNextNode(blk, next))
        BY <2>1, <2>2, <2>3, RewrittenMeetsInput
    <2>5. MeetsInput(input, blk, next)'
        BY <1>1, <2>4 DEF Visit, r
    <2>6. TypeOK'
        BY <1>1, <2>5 DEF IInv, TypeOK, Visit, Outcomes, MeetsInput
    <2> QED BY <2>5, <2>6 DEF IInv, TypeOK, MeetsInput, IteratorValid, RestUntouched, NonGatesUntouched
<1>2. CASE VisitFuncOp
    BY <1>2 DEF VisitFuncOp, IInv, TypeOK, IteratorValid, RestUntouched, NonGatesUntouched
<1>3. CASE UNCHANGED vars
    BY <1>3 DEF vars, IInv, TypeOK, IteratorValid, RestUntouched, NonGatesUntouched
<1> QED BY <1>1, <1>2, <1>3 DEF Next

LEMMA Invariance == Spec => []IInv
BY InitInvariant, StepInvariant, PTL DEF Spec

-----------------------------------------------------------------------------
(* One run is enough *)

\* What the walk has met of a block
Behind(b, n) == {s \in Occupied(b) : n = NoPlace \/ s < n}

NothingLeftBehind ==
    /\ status = "done" => next = NoPlace
    /\ status # "crashed" /\ pass \in OneRun
         => \A s \in Behind(blk, next) : LeavesAlone(pass, blk, s)

\* The iterator skips nothing.
LEMMA NothingSkipped ==
    ASSUME NEW b \in Block, NEW s \in Places \cup {NoPlace}, NEW t \in Occupied(b), t > s
    PROVE  getNextNode(b, s) # NoPlace /\ getNextNode(b, s) <= t
<1> DEFINE S == {u \in Occupied(b) : u > s}
<1>1. S \in SUBSET Places /\ t \in S
    BY DEF Occupied
<1>2. FirstOf(S) \in S /\ FirstOf(S) <= t
    BY <1>1, FirstOfIsFirst
<1> QED BY <1>1, <1>2, PlacesAreNaturals DEF getNextNode

\* The previous operation is the nearest one.
LEMMA PreviousIsNearest ==
    ASSUME NEW b, NEW s, NEW w
    PROVE  LET p == getPreviousOperationOnTarget(b, s, w)
           IN  /\ p # NoPlace => p \in Places /\ p < s /\ ActsOnIndex(b[p], w.idx)
               /\ \A t \in Places : t < s /\ ActsOnIndex(b[t], w.idx) => p # NoPlace /\ t <= p
<1> DEFINE S == {t \in Places : t < s /\ ActsOnIndex(b[t], w.idx)}
<1>1. S \in SUBSET Places
    OBVIOUS
<1>2. getPreviousOperationOnTarget(b, s, w) = LastOf(S)
    BY DEF getPreviousOperationOnTarget, extractIndexFromQuakeExtractRefOp
<1> HIDE DEF S
<1>3. /\ S = {} => LastOf(S) = NoPlace
      /\ S # {} => LastOf(S) \in S /\ \A t \in S : t <= LastOf(S)
    BY <1>1, LastOfIsLast
<1>4. \A t \in S : t # NoPlace
    BY <1>1, PlacesAreNaturals
<1> QED BY <1>2, <1>3, <1>4 DEF S

\* A gate with one target and no controls is on one wire.
OnlyOn(op, i) == \A j : ActsOnIndex(op, j) => j = i

LEMMA GateOnOneWire ==
    ASSUME NEW b \in Block, NEW s \in Places, NEW g \in Gates, IsGate(b[s], g, 0, 1)
    PROVE  /\ b[s] \in Op
           /\ ActsOnIndex(b[s], b[s].tgts[1].idx)
           /\ OnlyOn(b[s], b[s].tgts[1].idx)
<1>1. b[s] \in Op
    BY GateIsOp DEF IsGate
<1>2. b[s].tgts \in Seq(Wires) /\ b[s].ctrls \in Seq(Wires)
    BY <1>1 DEF Op
<1>3. DOMAIN b[s].tgts = {1} /\ DOMAIN b[s].ctrls = {}
    BY <1>2 DEF IsGate
<1> QED BY <1>1, <1>3 DEF IsGate, ActsOnIndex, OnlyOn, isOperator, extractIndexFromQuakeExtractRefOp

\* A rewrite that erases all there is on a wire from some place on up to the current one,
\* and nothing that is on another wire too.
SweepsWire(b, cur, r) ==
    /\ cur \in r.erase
    /\ \E i : /\ \A e \in r.erase : OnlyOn(b[e], i)
              /\ \A e \in r.erase, t \in Places :
                   e <= t /\ t <= cur /\ ActsOnIndex(b[t], i) => t \in r.erase

\* From u on back, the blocks b and c are the same to the lookups on w.
SameLookups(b, c, s, w) ==
    \A u \in Places \cup {NoPlace} : u <= s =>
      LET p == getPreviousOperationOnTarget(b, u, w)
      IN  /\ getPreviousOperationOnTarget(c, u, w) = p
          /\ p # NoPlace => c[p] = b[p]

\* What a rewrite leaves where it was
LEMMA RewrittenBehind ==
    ASSUME NEW b \in Block, NEW cur \in Places, NEW r, NEW s \in Places, s <= cur
    PROVE  Rewritten(b, cur, r)[s] = IF s \in r.erase THEN NoOp ELSE b[s]
<1>1. ~ s > cur
    BY PlacesAreNaturals
<1> QED BY <1>1 DEF Rewritten

\* Such a rewrite takes nothing away that a lookup from an operation it keeps would find.
LEMMA LookupsKept ==
    ASSUME NEW b \in Block, NEW cur \in Places, NEW r, SweepsWire(b, cur, r),
           \A e \in r.erase : e \in Places /\ e <= cur,
           NEW s \in Places, s < cur, s \notin r.erase, NEW w, ActsOnIndex(b[s], w.idx)
    PROVE  SameLookups(b, Rewritten(b, cur, r), s, w)
<1> DEFINE c == Rewritten(b, cur, r)
<1>1. PICK i : /\ \A e \in r.erase : OnlyOn(b[e], i)
               /\ \A e \in r.erase, t \in Places :
                    e <= t /\ t <= cur /\ ActsOnIndex(b[t], i) => t \in r.erase
    BY DEF SweepsWire
<1>2. \A t \in Places : t < s => (ActsOnIndex(c[t], w.idx) <=> ActsOnIndex(b[t], w.idx))
                              /\ (ActsOnIndex(b[t], w.idx) => c[t] = b[t])
    <2> SUFFICES ASSUME NEW t \in Places, t < s
                 PROVE  /\ ActsOnIndex(c[t], w.idx) <=> ActsOnIndex(b[t], w.idx)
                        /\ ActsOnIndex(b[t], w.idx) => c[t] = b[t]
        OBVIOUS
    <2>1. t <= cur /\ t <= s /\ s <= cur
        BY EarlierPlaces
    <2>2. CASE t \notin r.erase
        BY <2>1, <2>2, RewrittenBehind
    <2>3. CASE t \in r.erase
        <3>1. ~ ActsOnIndex(b[t], w.idx)
            <4> SUFFICES ASSUME ActsOnIndex(b[t], w.idx) PROVE FALSE
                OBVIOUS
            <4>1. w.idx = i
                BY <1>1, <2>3 DEF OnlyOn
            <4> QED BY <1>1, <2>1, <2>3, <4>1
        <3>2. c[t] = NoOp
            BY <2>1, <2>3, RewrittenBehind
        <3>3. ~ ActsOnIndex(NoOp, w.idx)
            BY DEF ActsOnIndex, isOperator, NoOp, Gates
        <3> QED BY <3>1, <3>2, <3>3
    <2> QED BY <2>2, <2>3
<1> HIDE DEF c
<1> SUFFICES ASSUME NEW u \in Places \cup {NoPlace}, u <= s
             PROVE  LET p == getPreviousOperationOnTarget(b, u, w)
                    IN  /\ getPreviousOperationOnTarget(c, u, w) = p
                        /\ p # NoPlace => c[p] = b[p]
    BY DEF SameLookups, c
<1>3. \A t \in Places : t < u => t < s
    BY PlacesAreNaturals DEF NoPlace
<1>4. {t \in Places : t < u /\ ActsOnIndex(c[t], w.idx)} = {t \in Places : t < u /\ ActsOnIndex(b[t], w.idx)}
    BY <1>2, <1>3
<1>5. getPreviousOperationOnTarget(c, u, w) = getPreviousOperationOnTarget(b, u, w)
    BY <1>4 DEF getPreviousOperationOnTarget, extractIndexFromQuakeExtractRefOp
<1>6. getPreviousOperationOnTarget(b, u, w) # NoPlace
        => c[getPreviousOperationOnTarget(b, u, w)] = b[getPreviousOperationOnTarget(b, u, w)]
    BY <1>2, <1>3, PreviousIsNearest
<1> QED BY <1>5, <1>6

\* The templates that look back: what they say of a kept operation depends on the block
\* through those lookups only, and what they erase is a sweep of the wire.
LEMMA TemplatesKept ==
    ASSUME NEW b \in Block, NEW c, NEW s \in Places, c[s] = b[s],
           \A g \in Gates : IsGate(b[s], g, 0, 1) => SameLookups(b, c, s, b[s].tgts[1])
    PROVE  /\ \A adj \in BOOLEAN : ReplaceSZ(b, s, adj) = NoRewrite => ReplaceSZ(c, s, adj) = NoRewrite
           /\ \A m, g : ReplaceHPauliH(b, s, m, g) = NoRewrite => ReplaceHPauliH(c, s, m, g) = NoRewrite
           /\ \A T2 \in Gates : \A T1, T3, T4 :
                patternSwitch(b, s, T1, T2, T3, T4) = NoRewrite
                  => patternSwitch(c, s, T1, T2, T3, T4) = NoRewrite
<1> DEFINE w == b[s].tgts[1]
           prev == getPreviousOperationOnTarget(b, s, w)
           prevPrev == getPreviousOperationOnTarget(b, prev, w)
<1>1. SUFFICES ASSUME NEW T \in Gates, IsGate(b[s], T, 0, 1), SameLookups(b, c, s, w)
               PROVE  /\ \A adj \in BOOLEAN : ReplaceSZ(c, s, adj) = ReplaceSZ(b, s, adj)
                      /\ \A m, g : ReplaceHPauliH(c, s, m, g) = ReplaceHPauliH(b, s, m, g)
                      /\ \A T1, T3, T4 :
                           patternSwitch(c, s, T1, T, T3, T4) = patternSwitch(b, s, T1, T, T3, T4)
    <2>1. "z" \in Gates /\ "h" \in Gates
        BY DEF Gates
    <2>2. ASSUME ~ IsGate(b[s], "z", 0, 1) PROVE \A adj \in BOOLEAN : ReplaceSZ(c, s, adj) = NoRewrite
        BY <2>2 DEF ReplaceSZ
    <2>3. ASSUME ~ IsGate(b[s], "h", 0, 1) PROVE \A m, g : ReplaceHPauliH(c, s, m, g) = NoRewrite
        BY <2>3 DEF ReplaceHPauliH
    <2>4. ASSUME NEW T2, ~ IsGate(b[s], T2, 0, 1)
          PROVE  \A T1, T3, T4 : patternSwitch(c, s, T1, T2, T3, T4) = NoRewrite
        BY <2>4 DEF patternSwitch
    <2> HIDE DEF w
    <2> QED BY <1>1, <2>1, <2>2, <2>3, <2>4 DEF w
<1>2. /\ getPreviousOperationOnTarget(c, s, w) = prev
      /\ prev # NoPlace => c[prev] = b[prev]
    BY <1>1, EarlierPlaces DEF SameLookups
<1>3. /\ prev # NoPlace => prev \in Places /\ prev <= s
      /\ prev # NoPlace => getPreviousOperationOnTarget(c, prev, w) = prevPrev
      /\ prev # NoPlace /\ prevPrev # NoPlace => c[prevPrev] = b[prevPrev]
    <2>1. prev # NoPlace => prev \in Places /\ prev <= s
        BY PreviousIsNearest, EarlierPlaces
    <2> HIDE DEF prev
    <2> QED BY <1>1, <2>1 DEF SameLookups
<1> HIDE DEF prev, prevPrev
<1>4. ASSUME NEW adj \in BOOLEAN PROVE ReplaceSZ(c, s, adj) = ReplaceSZ(b, s, adj)
    BY <1>2 DEF ReplaceSZ, prev
<1>5. ASSUME NEW m, NEW g PROVE ReplaceHPauliH(c, s, m, g) = ReplaceHPauliH(b, s, m, g)
    BY <1>2, <1>3 DEF ReplaceHPauliH, prev, prevPrev
<1>6. ASSUME NEW T1, NEW T3, NEW T4
      PROVE  patternSwitch(c, s, T1, T, T3, T4) = patternSwitch(b, s, T1, T, T3, T4)
    BY <1>2 DEF patternSwitch, prev
<1> QED BY <1>4, <1>5, <1>6

LEMMA TwoSwept ==
    ASSUME NEW b \in Block, NEW cur \in Places, NEW T2 \in Gates, IsGate(b[cur], T2, 0, 1),
           NEW prev, prev = getPreviousOperationOnTarget(b, cur, b[cur].tgts[1]), prev # NoPlace,
           NEW T1 \in Gates, IsGate(b[prev], T1, 0, 1),
           NEW r, r.erase = {cur, prev}
    PROVE  SweepsWire(b, cur, r)
<1> DEFINE i == b[cur].tgts[1].idx
<1>1. ActsOnIndex(b[cur], i) /\ OnlyOn(b[cur], i)
    BY GateOnOneWire
<1>2. /\ prev \in Places /\ prev < cur /\ ActsOnIndex(b[prev], i)
      /\ \A t \in Places : t < cur /\ ActsOnIndex(b[t], i) => t <= prev
    BY PreviousIsNearest
<1>3. OnlyOn(b[prev], i)
    <2>1. OnlyOn(b[prev], b[prev].tgts[1].idx)
        BY <1>2, GateOnOneWire
    <2>2. b[prev].tgts[1].idx = i
        BY <1>2, <2>1 DEF OnlyOn
    <2> QED BY <2>1, <2>2
<1> HIDE DEF i
<1>4. \A e \in {cur, prev}, t \in Places : e <= t /\ t <= cur /\ ActsOnIndex(b[t], i) => t \in {cur, prev}
    <2> SUFFICES ASSUME NEW e \in {cur, prev}, NEW t \in Places, e <= t, t <= cur, t # cur, ActsOnIndex(b[t], i)
                 PROVE  t = prev
        OBVIOUS
    <2>1. t \in Nat /\ prev \in Nat /\ cur \in Nat
        BY <1>2, PlacesAreNaturals
    <2>2. t < cur /\ prev <= t
        BY <1>2, <2>1
    <2>3. t <= prev
        BY <1>2, <2>2
    <2> QED BY <2>1, <2>2, <2>3
<1> QED BY <1>1, <1>3, <1>4 DEF SweepsWire

LEMMA ThreeSwept ==
    ASSUME NEW b \in Block, NEW cur \in Places, NEW T \in Gates, IsGate(b[cur], T, 0, 1),
           NEW prev, prev = getPreviousOperationOnTarget(b, cur, b[cur].tgts[1]), prev # NoPlace,
           NEW T1 \in Gates, IsGate(b[prev], T1, 0, 1),
           NEW prevPrev, prevPrev = getPreviousOperationOnTarget(b, prev, b[cur].tgts[1]),
           prevPrev # NoPlace,
           NEW T2 \in Gates, IsGate(b[prevPrev], T2, 0, 1),
           NEW r, r.erase = {cur, prev, prevPrev}
    PROVE  SweepsWire(b, cur, r)
<1> DEFINE i == b[cur].tgts[1].idx
<1>1. ActsOnIndex(b[cur], i) /\ OnlyOn(b[cur], i)
    BY GateOnOneWire
<1>2. /\ prev \in Places /\ prev < cur /\ ActsOnIndex(b[prev], i)
      /\ \A t \in Places : t < cur /\ ActsOnIndex(b[t], i) => t <= prev
    BY PreviousIsNearest
<1>3. /\ prevPrev \in Places /\ prevPrev < prev /\ ActsOnIndex(b[prevPrev], i)
      /\ \A t \in Places : t < prev /\ ActsOnIndex(b[t], i) => t <= prevPrev
    BY PreviousIsNearest
<1>4. ASSUME NEW s \in Places, NEW g \in Gates, IsGate(b[s], g, 0, 1), ActsOnIndex(b[s], i)
      PROVE  OnlyOn(b[s], i)
    <2>1. OnlyOn(b[s], b[s].tgts[1].idx)
        BY <1>4, GateOnOneWire
    <2>2. b[s].tgts[1].idx = i
        BY <1>4, <2>1 DEF OnlyOn
    <2> QED BY <2>1, <2>2
<1> HIDE DEF i
<1>5. OnlyOn(b[prev], i) /\ OnlyOn(b[prevPrev], i)
    BY <1>2, <1>3, <1>4
<1>6. \A e \in {cur, prev, prevPrev}, t \in Places :
         e <= t /\ t <= cur /\ ActsOnIndex(b[t], i) => t \in {cur, prev, prevPrev}
    <2> SUFFICES ASSUME NEW e \in {cur, prev, prevPrev}, NEW t \in Places, e <= t, t <= cur,
                        t # cur, t # prev, ActsOnIndex(b[t], i)
                 PROVE  t = prevPrev
        OBVIOUS
    <2>1. t \in Nat /\ prev \in Nat /\ cur \in Nat /\ prevPrev \in Nat
        BY <1>2, <1>3, PlacesAreNaturals
    <2>2. t < cur /\ prevPrev <= t
        BY <1>2, <1>3, <2>1
    <2>3. t <= prev
        BY <1>2, <2>2
    <2>4. t < prev
        BY <2>1, <2>3
    <2>5. t <= prevPrev
        BY <1>3, <2>4
    <2> QED BY <2>1, <2>2, <2>5
<1> QED BY <1>1, <1>5, <1>6 DEF SweepsWire

\* The callbacks of these passes
LEMMA CallbackOfOneRun ==
    ASSUME NEW b, NEW s
    PROVE  /\ Callback("CxToHCzH", b, s) = CxToHCzHPattern(b, s)
           /\ Callback("CzToHCxH", b, s) = ReplaceCzToHCxH(b, s)
           /\ Callback("CancellationNullRotation", b, s) = nullRotationCancellation(b, s)
           /\ Callback("NormalizeArgAngle", b, s) = normalizeAngleOfRotations(b, s)
           /\ Callback("SAdjZToS", b, s) = ReplaceSZ(b, s, TRUE)
           /\ Callback("SZToSAdj", b, s) = ReplaceSZ(b, s, FALSE)
           /\ Callback("HXHToZ", b, s) = ReplaceHPauliH(b, s, "x", "z")
           /\ Callback("HZHToX", b, s) = ReplaceHPauliH(b, s, "z", "x")
           /\ Callback("SwitchHX", b, s) = patternSwitch(b, s, "h", "x", "z", "h")
           /\ Callback("SwitchHZ", b, s) = patternSwitch(b, s, "h", "z", "x", "h")
BY DEF Callback, ReplaceSAdjZToS, ReplaceSZToSAdj, ReplaceHXHToZ, ReplaceHZHToX, SwitchHX, SwitchHZ

\* Those of them that look at the current gate only, and those that look back
LooksBack == {"SAdjZToS", "SZToSAdj", "HXHToZ", "HZHToX", "SwitchHX", "SwitchHZ"}
Looks == {"CxToHCzH", "CzToHCxH", "CancellationNullRotation", "NormalizeArgAngle"}

LEMMA OneRunSplits == OneRun = LooksBack \cup Looks
BY DEF OneRun, LooksBack, Looks

LEMMA LocalKept ==
    ASSUME NEW p \in Looks, NEW b, NEW c, NEW s, c[s] = b[s], LeavesAlone(p, b, s)
    PROVE  LeavesAlone(p, c, s)
<1>0. \A e, i : Rewrite({e}, i) # NoRewrite
    BY DEF Rewrite, NoRewrite
<1>1. CASE p = "CxToHCzH"
    <2>1. Callback(p, b, s) = CxToHCzHPattern(b, s) /\ Callback(p, c, s) = CxToHCzHPattern(c, s)
        BY <1>1, CallbackOfOneRun
    <2>2. CxToHCzHPattern(b, s) = NoRewrite
        BY <1>1, <2>1 DEF LeavesAlone
    <2>3. ~ IsGate(b[s], "x", 1, 1)
        BY <1>0, <2>2 DEF CxToHCzHPattern
    <2>4. CxToHCzHPattern(c, s) = NoRewrite
        BY <2>3 DEF CxToHCzHPattern
    <2> QED BY <1>1, <2>1, <2>4 DEF LeavesAlone
<1>2. CASE p = "CzToHCxH"
    <2>1. Callback(p, b, s) = ReplaceCzToHCxH(b, s) /\ Callback(p, c, s) = ReplaceCzToHCxH(c, s)
        BY <1>2, CallbackOfOneRun
    <2>2. ReplaceCzToHCxH(b, s) = NoRewrite
        BY <1>2, <2>1 DEF LeavesAlone
    <2>3. ~ IsGate(b[s], "z", 1, 1)
        BY <1>0, <2>2 DEF ReplaceCzToHCxH
    <2>4. ReplaceCzToHCxH(c, s) = NoRewrite
        BY <2>3 DEF ReplaceCzToHCxH
    <2> QED BY <1>2, <2>1, <2>4 DEF LeavesAlone
<1>3. CASE p = "CancellationNullRotation"
    <2> DEFINE Null(op) == /\ op.gate \in Rotations
                           /\ \A i \in DOMAIN op.params :
                                LET param == extractDoubleArgumentValue(op.params[i])
                                IN  checkDoublePiMultiplies(param) \/ param = 0
    <2>1. \A d : nullRotationCancellation(d, s) = IF Null(d[s]) THEN Rewrite({s}, <<>>) ELSE NoRewrite
        BY DEF nullRotationCancellation
    <2>2. /\ Callback(p, b, s) = nullRotationCancellation(b, s)
          /\ Callback(p, c, s) = nullRotationCancellation(c, s)
        BY <1>3, CallbackOfOneRun
    <2> HIDE DEF Null
    <2>3. nullRotationCancellation(b, s) = NoRewrite
        BY <1>3, <2>2 DEF LeavesAlone
    <2>4. ~ Null(b[s])
        BY <1>0, <2>1, <2>3
    <2>5. nullRotationCancellation(c, s) = NoRewrite
        BY <2>1, <2>4
    <2> QED BY <1>3, <2>2, <2>5 DEF LeavesAlone
<1>4. CASE p = "NormalizeArgAngle"
    BY <1>4 DEF LeavesAlone
<1> QED BY <1>1, <1>2, <1>3, <1>4 DEF Looks

\* What a normalised angle is
LEMMA AngleIsNormal ==
    ASSUME NEW a \in Params
    PROVE  NormalizedAngle(a).ticks \in 0 .. FullTurn - 1
BY DEF NormalizedAngle, createFloatValue, extractDoubleArgumentValue, AsFloat, Params,
       FullTurn, MinusOneRadian

\* The shape of a rewrite of these passes: nothing, a crash, or the current gate goes, and
\* what is inserted is none of the gates the pass looks for.
Finishes(p, b, cur, r) ==
    \/ r = NoRewrite /\ LeavesAlone(p, b, cur)
    \/ r.fault = "null"
    \/ /\ cur \in r.erase
       /\ p \in LooksBack => SweepsWire(b, cur, r)
       /\ \A k \in 1 .. Len(r.insert) : \A d, s : d[s] = r.insert[k] => LeavesAlone(p, d, s)

LEMMA LooksFinish ==
    ASSUME NEW b \in Block, NEW cur \in Places, NEW p \in Looks
    PROVE  Finishes(p, b, cur, Callback(p, b, cur))
<1>1. p \notin LooksBack
    BY DEF Looks, LooksBack
<1>2. \A E, i : Rewrite(E, i).erase = E /\ Rewrite(E, i).insert = i
    BY DEF Rewrite
<1>3. CASE p = "CxToHCzH"
    <2> DEFINE cs == b[cur].ctrls
               ts == b[cur].tgts
               new == <<Plain("h", <<>>, ts), Plain("z", ts, cs), Plain("h", <<>>, ts)>>
    <2>1. \A k \in 1 .. Len(new) : new[k].gate # "x"
        BY DEF Plain, Operation
    <2>2. \A d, s : d[s].gate # "x" => LeavesAlone(p, d, s)
        BY <1>3, CallbackOfOneRun DEF LeavesAlone, CxToHCzHPattern, IsGate
    <2>3. Callback(p, b, cur) = IF IsGate(b[cur], "x", 1, 1) THEN Rewrite({cur}, new) ELSE NoRewrite
        BY <1>3, CallbackOfOneRun DEF CxToHCzHPattern
    <2> HIDE DEF new
    <2>4. ~ IsGate(b[cur], "x", 1, 1) => LeavesAlone(p, b, cur)
        BY <1>3, <2>3 DEF LeavesAlone
    <2> QED BY <1>1, <1>2, <2>1, <2>2, <2>3, <2>4 DEF Finishes
<1>4. CASE p = "CzToHCxH"
    <2> DEFINE cs == b[cur].ctrls
               ts == b[cur].tgts
               new == <<Plain("h", <<>>, ts), Plain("x", cs, ts), Plain("h", <<>>, ts)>>
    <2>1. \A k \in 1 .. Len(new) : new[k].gate # "z"
        BY DEF Plain, Operation
    <2>2. \A d, s : d[s].gate # "z" => LeavesAlone(p, d, s)
        BY <1>4, CallbackOfOneRun DEF LeavesAlone, ReplaceCzToHCxH, IsGate
    <2>3. Callback(p, b, cur) = IF IsGate(b[cur], "z", 1, 1) THEN Rewrite({cur}, new) ELSE NoRewrite
        BY <1>4, CallbackOfOneRun DEF ReplaceCzToHCxH
    <2> HIDE DEF new
    <2>4. ~ IsGate(b[cur], "z", 1, 1) => LeavesAlone(p, b, cur)
        BY <1>4, <2>3 DEF LeavesAlone
    <2> QED BY <1>1, <1>2, <2>1, <2>2, <2>3, <2>4 DEF Finishes
<1>5. CASE p = "CancellationNullRotation"
    <2>1. Callback(p, b, cur) \in {Rewrite({cur}, <<>>), NoRewrite}
        BY <1>5, CallbackOfOneRun DEF nullRotationCancellation
    <2>2. Callback(p, b, cur) = NoRewrite => LeavesAlone(p, b, cur)
        BY <1>5 DEF LeavesAlone
    <2> QED BY <1>1, <1>2, <2>1, <2>2 DEF Finishes
<1>6. CASE p = "NormalizeArgAngle"
    <2> DEFINE old == b[cur].params
               params == [i \in DOMAIN old |-> NormalizedAngle(old[i])]
               new == [b[cur] EXCEPT !.params = params]
    <2>1. Callback(p, b, cur) = IF b[cur].gate \in Rotations THEN Rewrite({cur}, <<new>>) ELSE NoRewrite
        BY <1>6, CallbackOfOneRun DEF normalizeAngleOfRotations
    <2>2. CASE b[cur].gate \in Rotations
        <3>1. b[cur] \in Op
            BY <2>2, GateIsOp DEF Rotations, Gates
        <3>2. \A i \in DOMAIN old : params[i].ticks \in 0 .. FullTurn - 1
            <4>1. old \in Seq(Params)
                BY <3>1 DEF Op
            <4>2. \A i \in DOMAIN old : old[i] \in Params
                BY <4>1
            <4> HIDE DEF old
            <4> QED BY <4>2, AngleIsNormal
        <3>3. new.params = params
            BY <3>1 DEF Op
        <3>4. IsNormalized(new)
            <4> HIDE DEF new
            <4> QED BY <3>2, <3>3 DEF IsNormalized
        <3> HIDE DEF new
        <3>5. \A k \in 1 .. Len(<<new>>) : \A d, s : d[s] = <<new>>[k] => LeavesAlone(p, d, s)
            BY <1>6, <3>4 DEF LeavesAlone
        <3> QED BY <1>1, <1>2, <2>1, <2>2, <3>5 DEF Finishes
    <2>3. CASE b[cur].gate \notin Rotations
        BY <1>6, <2>1, <2>3 DEF Finishes, LeavesAlone, IsNormalized
    <2> QED BY <2>2, <2>3
<1> QED BY <1>3, <1>4, <1>5, <1>6 DEF Looks

LEMMA LooksBackFinishes ==
    ASSUME NEW b \in Block, NEW cur \in Places, NEW p \in LooksBack
    PROVE  Finishes(p, b, cur, Callback(p, b, cur))
<1> DEFINE w == b[cur].tgts[1]
           prev == getPreviousOperationOnTarget(b, cur, w)
           prevPrev == getPreviousOperationOnTarget(b, prev, w)
           r == Callback(p, b, cur)
<1>1. \A E, i : Rewrite(E, i).erase = E /\ Rewrite(E, i).insert = i
    BY DEF Rewrite
<1>2. {"x", "z", "h", "s"} \subseteq Gates /\ NullDereference.fault = "null"
    BY DEF Gates, NullDereference
<1>3. p # "NormalizeArgAngle"
    BY DEF LooksBack
<1>4. r = NoRewrite => Finishes(p, b, cur, r)
    BY <1>3 DEF Finishes, LeavesAlone
<1>5. r = NullDereference => Finishes(p, b, cur, r)
    BY <1>2 DEF Finishes
<1>6. CASE p \in {"SAdjZToS", "SZToSAdj"}
    <2>1. PICK adj \in BOOLEAN : \A d, s : Callback(p, d, s) = ReplaceSZ(d, s, adj)
        BY <1>6, CallbackOfOneRun
    <2> DEFINE new == [b[prev] EXCEPT !.adj = ~ adj]
    <2>2. CASE /\ IsGate(b[cur], "z", 0, 1)
               /\ prev # NoPlace
               /\ IsGate(b[prev], "s", 0, 1)
               /\ b[prev].adj = adj
        <3>1. r = Rewrite({cur, prev}, <<new>>)
            BY <2>1, <2>2 DEF ReplaceSZ
        <3>2. b[prev] \in Op
            BY <1>2, <2>2, PreviousIsNearest, GateOnOneWire
        <3>3. new.gate = "s"
            BY <2>2, <3>2 DEF IsGate, Op
        <3>4. \A d, s : d[s].gate = "s" => LeavesAlone(p, d, s)
            BY <1>3, <2>1 DEF LeavesAlone, ReplaceSZ, IsGate
        <3>5. SweepsWire(b, cur, r)
            <4> HIDE DEF prev, new, r
            <4>1. r.erase = {cur, prev}
                BY <1>1, <3>1
            <4> QED BY <1>2, <2>2, <4>1, TwoSwept DEF prev
        <3> HIDE DEF new, r
        <3>6. \A k \in 1 .. Len(r.insert) : r.insert[k] = new
            BY <1>1, <3>1
        <3>7. \A k \in 1 .. Len(r.insert) : \A d, s : d[s] = r.insert[k] => LeavesAlone(p, d, s)
            BY <3>3, <3>4, <3>6
        <3> QED BY <3>5, <3>7 DEF Finishes, SweepsWire, r
    <2>3. CASE ~ (/\ IsGate(b[cur], "z", 0, 1)
                  /\ prev # NoPlace
                  /\ IsGate(b[prev], "s", 0, 1)
                  /\ b[prev].adj = adj)
        <3>1. r = NoRewrite
            BY <2>1, <2>3 DEF ReplaceSZ
        <3> QED BY <1>4, <3>1
    <2> QED BY <2>2, <2>3
<1>7. CASE p \in {"HXHToZ", "HZHToX"}
    <2>1. PICK m \in {"x", "z"}, g \in {"x", "z"} : \A d, s : Callback(p, d, s) = ReplaceHPauliH(d, s, m, g)
        BY <1>7, CallbackOfOneRun
    <2> DEFINE new == Operation(g, FALSE, <<>>, b[cur].ctrls, b[cur].tgts)
    <2>2. CASE /\ IsGate(b[cur], "h", 0, 1)
               /\ prev # NoPlace
               /\ IsGate(b[prev], m, 0, 1)
               /\ prevPrev # NoPlace
               /\ IsGate(b[prevPrev], "h", 0, 1)
        <3>1. r = Rewrite({cur, prev, prevPrev}, <<new>>)
            BY <2>1, <2>2 DEF ReplaceHPauliH, IsGate
        <3>2. new.gate = g /\ g # "h" /\ m \in Gates
            BY <1>2 DEF Operation
        <3>3. \A d, s : d[s].gate # "h" => LeavesAlone(p, d, s)
            BY <1>3, <2>1 DEF LeavesAlone, ReplaceHPauliH, IsGate
        <3>4. SweepsWire(b, cur, r)
            <4> HIDE DEF prev, prevPrev, new, r
            <4>1. r.erase = {cur, prev, prevPrev}
                BY <1>1, <3>1
            <4> QED BY <1>2, <2>2, <3>2, <4>1, ThreeSwept DEF prev, prevPrev
        <3> HIDE DEF new, r
        <3>5. \A k \in 1 .. Len(r.insert) : r.insert[k] = new
            BY <1>1, <3>1
        <3>6. \A k \in 1 .. Len(r.insert) : \A d, s : d[s] = r.insert[k] => LeavesAlone(p, d, s)
            BY <3>2, <3>3, <3>5
        <3> QED BY <3>4, <3>6 DEF Finishes, SweepsWire, r
    <2>3. CASE ~ (/\ IsGate(b[cur], "h", 0, 1)
                  /\ prev # NoPlace
                  /\ IsGate(b[prev], m, 0, 1)
                  /\ prevPrev # NoPlace
                  /\ IsGate(b[prevPrev], "h", 0, 1))
        <3>1. r = NoRewrite \/ r = NullDereference
            BY <2>1, <2>3 DEF ReplaceHPauliH
        <3> QED BY <1>4, <1>5, <3>1
    <2> QED BY <2>2, <2>3
<1>8. CASE p \in {"SwitchHX", "SwitchHZ"}
    <2>1. PICK T2 \in {"x", "z"}, T3 \in {"x", "z"} :
             T2 # T3 /\ \A d, s : Callback(p, d, s) = patternSwitch(d, s, "h", T2, T3, "h")
        BY <1>8, CallbackOfOneRun
    <2> DEFINE new == Retyped(b[cur], T3)
               old == Retyped(b[prev], "h")
    <2>2. CASE /\ IsGate(b[cur], T2, 0, 1)
               /\ prev # NoPlace
               /\ IsGate(b[prev], "h", 0, 1)
        <3>1. r = Rewrite({cur, prev}, <<new, old>>)
            BY <2>1, <2>2 DEF patternSwitch, IsGate
        <3>2. T2 \in Gates /\ T3 \in Gates /\ T2 # "h"
            BY <1>2
        <3>3. b[prev] \in Op /\ b[cur] \in Op
            BY <1>2, <2>2, <3>2, PreviousIsNearest, GateOnOneWire
        <3>4. new.gate # T2 /\ old.gate # T2
            BY <1>2, <2>1, <3>2, <3>3, RetypedIsOp
        <3>5. \A d, s : d[s].gate # T2 => LeavesAlone(p, d, s)
            BY <1>3, <2>1 DEF LeavesAlone, patternSwitch, IsGate
        <3>6. SweepsWire(b, cur, r)
            <4> HIDE DEF prev, new, old, r
            <4>1. r.erase = {cur, prev}
                BY <1>1, <3>1
            <4> QED BY <1>2, <2>2, <3>2, <4>1, TwoSwept DEF prev
        <3> HIDE DEF new, old, r
        <3>7. \A k \in 1 .. Len(r.insert) : r.insert[k] \in {new, old}
            BY <1>1, <3>1
        <3>8. \A k \in 1 .. Len(r.insert) : \A d, s : d[s] = r.insert[k] => LeavesAlone(p, d, s)
            BY <3>4, <3>5, <3>7
        <3> QED BY <3>6, <3>8 DEF Finishes, SweepsWire, r
    <2>3. CASE ~ (/\ IsGate(b[cur], T2, 0, 1)
                  /\ prev # NoPlace
                  /\ IsGate(b[prev], "h", 0, 1))
        <3>1. r = NoRewrite \/ r = NullDereference
            BY <2>1, <2>3 DEF patternSwitch
        <3> QED BY <1>4, <1>5, <3>1
    <2> QED BY <2>2, <2>3
<1> QED BY <1>6, <1>7, <1>8 DEF LooksBack

\* What such a pass has left alone it goes on leaving alone.
LEMMA LeftAlone ==
    ASSUME NEW b \in Block, NEW cur \in Places, NEW p \in OneRun, NEW r,
           \A e \in r.erase : e \in Places /\ e <= cur,
           p \in LooksBack => SweepsWire(b, cur, r),
           NEW s \in Places, s < cur, s \notin r.erase, LeavesAlone(p, b, s)
    PROVE  LeavesAlone(p, Rewritten(b, cur, r), s)
<1> DEFINE c == Rewritten(b, cur, r)
<1>1. c[s] = b[s]
    BY EarlierPlaces, RewrittenBehind
<1>2. CASE p \in Looks
    <2> HIDE DEF c
    <2> QED BY <1>1, <1>2, LocalKept DEF c
<1>3. CASE p \in LooksBack
    <2>1. ASSUME NEW g \in Gates, IsGate(b[s], g, 0, 1)
          PROVE  SameLookups(b, c, s, b[s].tgts[1])
        <3>1. ActsOnIndex(b[s], b[s].tgts[1].idx)
            BY <2>1, GateOnOneWire
        <3> QED BY <1>3, <3>1, LookupsKept
    <2> HIDE DEF c
    <2>2. /\ \A adj \in BOOLEAN : ReplaceSZ(b, s, adj) = NoRewrite => ReplaceSZ(c, s, adj) = NoRewrite
          /\ \A m, g : ReplaceHPauliH(b, s, m, g) = NoRewrite => ReplaceHPauliH(c, s, m, g) = NoRewrite
          /\ \A T2 \in Gates : \A T1, T3, T4 :
               patternSwitch(b, s, T1, T2, T3, T4) = NoRewrite
                 => patternSwitch(c, s, T1, T2, T3, T4) = NoRewrite
        BY <1>1, <2>1, TemplatesKept
    <2>3. "x" \in Gates /\ "z" \in Gates /\ p # "NormalizeArgAngle"
        BY <1>3 DEF Gates, LooksBack
    <2>4. Callback(p, b, s) = NoRewrite
        BY <2>3 DEF LeavesAlone
    <2>5. Callback(p, c, s) = NoRewrite
        <3>1. CASE p \in {"SAdjZToS", "SZToSAdj"}
            <4>1. PICK adj \in BOOLEAN : \A d : Callback(p, d, s) = ReplaceSZ(d, s, adj)
                BY <3>1, CallbackOfOneRun
            <4> QED BY <2>2, <2>4, <4>1
        <3>2. CASE p \in {"HXHToZ", "HZHToX"}
            <4>1. PICK m \in {"x", "z"}, g \in {"x", "z"} :
                     \A d : Callback(p, d, s) = ReplaceHPauliH(d, s, m, g)
                BY <3>2, CallbackOfOneRun
            <4> QED BY <2>2, <2>4, <4>1
        <3>3. CASE p \in {"SwitchHX", "SwitchHZ"}
            <4>1. PICK T2 \in {"x", "z"}, T3 \in {"x", "z"} :
                     \A d : Callback(p, d, s) = patternSwitch(d, s, "h", T2, T3, "h")
                BY <3>3, CallbackOfOneRun
            <4> QED BY <2>2, <2>3, <2>4, <4>1
        <3> QED BY <1>3, <3>1, <3>2, <3>3 DEF LooksBack
    <2> QED BY <2>3, <2>5 DEF LeavesAlone, c
<1> QED BY <1>2, <1>3, OneRunSplits

\* One call of the callback leaves nothing to do behind the iterator.
LEMMA StepFinishes ==
    ASSUME NEW b \in Block, NEW cur \in Places, NEW p \in OneRun,
           Callback(p, b, cur).fault # "null",
           \A s \in Behind(b, cur) : LeavesAlone(p, b, s)
    PROVE  \A s \in Behind(Rewritten(b, cur, Callback(p, b, cur)), getNextNode(b, cur)) :
             LeavesAlone(p, Rewritten(b, cur, Callback(p, b, cur)), s)
<1> DEFINE r == Callback(p, b, cur)
           c == Rewritten(b, cur, r)
           after == getNextNode(b, cur)
<1>1. p \in PassNames
    BY DEF OneRun, PassNames
<1>2. /\ \A e \in r.erase : e \in Places /\ e <= cur
      /\ Len(r.insert) \in 0 .. 5
    BY <1>1, CallbackWellFormed DEF WellFormed
<1>3. Finishes(p, b, cur, r) /\ r.fault # "null"
    BY LooksFinish, LooksBackFinishes, OneRunSplits
<1>4. cur \in Nat /\ \A s \in Places : s \in Nat
    BY PlacesAreNaturals
<1>5. \A t \in Places : b[t] # NoOp /\ t > cur => after # NoPlace /\ after <= t
    BY NothingSkipped DEF Occupied
<1>6. \A s \in Places : s < cur /\ b[s] # NoOp => LeavesAlone(p, b, s)
    BY DEF Behind, Occupied
<1>7. ASSUME NEW s \in Places PROVE c[s] = IF s > cur /\ s <= cur + Len(r.insert) THEN r.insert[s - cur]
                                          ELSE IF s \in r.erase THEN NoOp ELSE b[s]
    BY DEF Rewritten
<1>8. after # NoPlace => after \in Nat
    BY <1>4, NextNode
<1> SUFFICES ASSUME NEW s \in Behind(c, after) PROVE LeavesAlone(p, c, s)
    OBVIOUS
<1>9. s \in Places /\ s \in Nat /\ c[s] # NoOp /\ (after = NoPlace \/ s < after)
    BY <1>4 DEF Behind, Occupied
<1> HIDE DEF after
<1>10. ASSUME b[s] # NoOp PROVE ~ s > cur
    <2> HIDE DEF c, r
    <2> SUFFICES ASSUME s > cur PROVE FALSE
        OBVIOUS
    <2>1. after # NoPlace /\ after <= s
        BY <1>5, <1>9, <1>10
    <2>2. after \in Nat /\ s \in Nat /\ s < after
        BY <1>8, <1>9, <2>1
    <2> QED BY <2>1, <2>2
<1>11. CASE r = NoRewrite /\ LeavesAlone(p, b, cur)
    <2>1. r.erase = {} /\ Len(r.insert) = 0
        BY <1>11 DEF NoRewrite, Rewrite
    <2>2. \A t \in Places : c[t] = b[t]
        <3> SUFFICES ASSUME NEW t \in Places PROVE c[t] = b[t]
            OBVIOUS
        <3> HIDE DEF r
        <3>1. ~ (t > cur /\ t <= cur + Len(r.insert))
            <4>1. t \in Nat /\ cur \in Nat /\ Len(r.insert) = 0
                BY <1>4, <2>1
            <4> QED BY <4>1
        <3> QED BY <2>1, <3>1 DEF Rewritten
    <2>3. c = b
        <3>1. b = [t \in Places |-> b[t]]
            BY DEF Block
        <3>2. c = [t \in Places |-> c[t]]
            BY DEF Rewritten
        <3> HIDE DEF c
        <3> QED BY <2>2, <3>1, <3>2
    <2> HIDE DEF c, r
    <2>4. ~ s > cur
        BY <1>9, <1>10, <2>3
    <2>5. s = cur \/ s < cur
        BY <1>4, <1>9, <2>4
    <2> QED BY <1>6, <1>9, <1>11, <2>3, <2>5
<1>12. CASE /\ cur \in r.erase
            /\ p \in LooksBack => SweepsWire(b, cur, r)
            /\ \A k \in 1 .. Len(r.insert) : \A d, t : d[t] = r.insert[k] => LeavesAlone(p, d, t)
    <2> HIDE DEF r
    <2>1. CASE s > cur /\ s <= cur + Len(r.insert)
        <3>1. s - cur \in 1 .. Len(r.insert)
            BY <1>2, <1>4, <1>9, <2>1
        <3>2. c[s] = r.insert[s - cur]
            BY <1>9, <2>1 DEF Rewritten
        <3> HIDE DEF c
        <3> QED BY <1>12, <3>1, <3>2
    <2>2. CASE ~ (s > cur /\ s <= cur + Len(r.insert))
        <3>1. s \notin r.erase /\ c[s] = b[s]
            BY <1>9, <2>2 DEF Rewritten
        <3>2. ~ s > cur
            BY <1>9, <1>10, <3>1
        <3>3. s < cur
            BY <1>4, <1>9, <1>12, <3>1, <3>2
        <3>4. LeavesAlone(p, b, s)
            BY <1>6, <1>9, <3>1, <3>3
        <3> QED BY <1>2, <1>9, <1>12, <3>1, <3>3, <3>4, LeftAlone
    <2> QED BY <2>1, <2>2
<1> QED BY <1>3, <1>11, <1>12 DEF Finishes

LEMMA InitNothingLeft == Init => NothingLeftBehind
<1> SUFFICES ASSUME Init PROVE NothingLeftBehind
    OBVIOUS
<1> DEFINE b == Load(input)
<1>1. /\ b \in Block /\ blk = b /\ next = getNextNode(b, NoPlace) /\ status = "running"
    BY KernelPassAssumption, LoadIsBlock DEF Init
<1>2. \A t \in Occupied(b) : t > NoPlace
    BY PlacesAreNaturals DEF Occupied, NoPlace
<1> HIDE DEF b
<1>3. ASSUME NEW t \in Behind(b, next) PROVE FALSE
    <2>1. t \in Occupied(b) /\ t \in Nat /\ (next = NoPlace \/ t < next)
        BY PlacesAreNaturals DEF Behind, Occupied
    <2>2. next # NoPlace /\ next <= t
        BY <1>1, <1>2, <2>1, NothingSkipped
    <2>3. next \in Nat
        BY <1>1, <2>2, NextNode, PlacesAreNaturals
    <2> QED BY <2>1, <2>2, <2>3
<1> QED BY <1>1, <1>3 DEF NothingLeftBehind

LEMMA StepLeavesNothing == IInv /\ NothingLeftBehind /\ [Next]_vars => NothingLeftBehind'
<1> SUFFICES ASSUME IInv, NothingLeftBehind, [Next]_vars PROVE NothingLeftBehind'
    OBVIOUS
<1>1. CASE Visit
    <2> DEFINE r == Callback(pass, blk, next)
    <2>1. /\ status = "running" /\ next \in Places /\ blk \in Block
          /\ blk' = Rewritten(blk, next, r) /\ next' = getNextNode(blk, next)
          /\ status' \in Outcomes(r.fault) /\ pass' = pass
        BY <1>1 DEF Visit, IInv, TypeOK
    <2>2. status' # "done"
        BY <2>1 DEF Outcomes
    <2>3. ASSUME status' # "crashed", pass \in OneRun
          PROVE  \A s \in Behind(blk', next') : LeavesAlone(pass, blk', s)
        <3>1. r.fault # "null"
            BY <2>1, <2>3 DEF Outcomes
        <3>2. \A s \in Behind(blk, next) : LeavesAlone(pass, blk, s)
            BY <2>1, <2>3 DEF NothingLeftBehind
        <3> QED BY <2>1, <2>3, <3>1, <3>2, StepFinishes
    <2> HIDE DEF r
    <2> QED BY <2>1, <2>2, <2>3 DEF NothingLeftBehind
<1>2. CASE VisitFuncOp
    BY <1>2 DEF VisitFuncOp, NothingLeftBehind
<1>3. CASE UNCHANGED vars
    BY <1>3 DEF vars, NothingLeftBehind
<1> QED BY <1>1, <1>2, <1>3 DEF Next
-----------------------------------------------------------------------------
(* Pauli operators: which of them commute *)

FiniteWires == {A \in SUBSET Wires : IsFiniteSet(A)}
PauliOperators == [phase : 0 .. 3, x : FiniteWires, z : FiniteWires]

\* 0 where two of them commute, 1 where they anticommute
Parity(p, q) == (Cardinality(p.x \cap q.z) + Cardinality(p.z \cap q.x)) % 2

LEMMA FiniteParts ==
    ASSUME NEW A \in FiniteWires, NEW C
    PROVE  IsFiniteSet(A \cap C) /\ Cardinality(A \cap C) \in Nat
<1>1. IsFiniteSet(A \cap C)
    BY FS_Subset DEF FiniteWires
<1> QED BY <1>1, FS_CardinalityType

\* A set is as large as what it has in common with another one and what it has not.
LEMMA TwoParts ==
    ASSUME NEW U, NEW V, IsFiniteSet(U)
    PROVE  /\ Cardinality(U) \in Nat /\ Cardinality(U \ V) \in Nat /\ Cardinality(U \cap V) \in Nat
           /\ Cardinality(U) = Cardinality(U \ V) + Cardinality(U \cap V)
           /\ IsFiniteSet(U \ V)
<1>1. IsFiniteSet(U \ V) /\ IsFiniteSet(U \cap V)
    BY FS_Subset
<1>2. Cardinality(U \ V) = Cardinality(U) - Cardinality(U \cap V)
    BY FS_Difference
<1> QED BY <1>1, <1>2, FS_CardinalityType

LEMMA XorParity ==
    ASSUME NEW A \in FiniteWires, NEW B \in FiniteWires, NEW C
    PROVE  /\ Xor(A, B) \in FiniteWires
           /\ Cardinality(Xor(A, B) \cap C) % 2
                = (Cardinality(A \cap C) + Cardinality(B \cap C)) % 2
<1> DEFINE U == A \cap C
           V == B \cap C
<1>1. IsFiniteSet(U) /\ IsFiniteSet(V)
    BY FiniteParts
<1>2. Xor(A, B) \in FiniteWires
    <2>1. IsFiniteSet(A \ B) /\ IsFiniteSet(B \ A)
        BY FS_Subset DEF FiniteWires
    <2>2. IsFiniteSet(Xor(A, B))
        BY <2>1, FS_Union DEF Xor
    <2> QED BY <2>2 DEF Xor, FiniteWires
<1>3. Xor(A, B) \cap C = (U \ V) \cup (V \ U)
    BY DEF Xor
<1>4. U \cap V = V \cap U /\ (U \ V) \cap (V \ U) = {}
    OBVIOUS
<1> HIDE DEF U, V
<1>5. Cardinality((U \ V) \cup (V \ U)) = Cardinality(U \ V) + Cardinality(V \ U)
    <2>1. /\ IsFiniteSet(U \ V) /\ IsFiniteSet(V \ U)
          /\ Cardinality(U \ V) \in Nat /\ Cardinality(V \ U) \in Nat
        BY <1>1, TwoParts
    <2>2. Cardinality((U \ V) \cup (V \ U))
            = Cardinality(U \ V) + Cardinality(V \ U) - Cardinality((U \ V) \cap (V \ U))
        BY <2>1, FS_Union
    <2>3. Cardinality((U \ V) \cap (V \ U)) = 0
        BY <1>4, FS_EmptySet
    <2> QED BY <2>1, <2>2, <2>3
<1>6. \A u, v, w \in Nat : (u + v) % 2 = ((u + w) + (v + w)) % 2
    OBVIOUS
<1>7. Cardinality((U \ V) \cup (V \ U)) % 2 = (Cardinality(U) + Cardinality(V)) % 2
    <2> DEFINE u == Cardinality(U \ V)
               v == Cardinality(V \ U)
               w == Cardinality(U \cap V)
    <2>1. u \in Nat /\ w \in Nat /\ Cardinality(U) = u + w
        BY <1>1, TwoParts
    <2>2. v \in Nat /\ Cardinality(V) = v + w
        <3>1. v \in Nat /\ Cardinality(V) = v + Cardinality(V \cap U)
            BY <1>1, TwoParts
        <3> QED BY <1>4, <3>1
    <2>3. Cardinality((U \ V) \cup (V \ U)) = u + v
        BY <1>5
    <2> HIDE DEF u, v, w
    <2> QED BY <1>6, <2>1, <2>2, <2>3
<1> QED BY <1>2, <1>3, <1>7 DEF U, V

LEMMA ParityIsBit ==
    ASSUME NEW p \in PauliOperators, NEW q \in PauliOperators
    PROVE  /\ Parity(p, q) \in {0, 1} /\ Parity(p, q) = Parity(q, p) /\ Parity(p, p) = 0
           /\ \A k \in Nat : Parity(Phased(k, p), q) = Parity(p, q) /\ Phased(k, p) \in PauliOperators
<1>1. p.x \in FiniteWires /\ p.z \in FiniteWires /\ q.x \in FiniteWires /\ q.z \in FiniteWires
      /\ p.phase \in 0 .. 3
    BY DEF PauliOperators
<1>2. /\ Cardinality(p.x \cap q.z) \in Nat /\ Cardinality(p.z \cap q.x) \in Nat
      /\ Cardinality(p.x \cap p.z) \in Nat
    BY <1>1, FiniteParts
<1>3. p.x \cap q.z = q.z \cap p.x /\ p.z \cap q.x = q.x \cap p.z /\ p.x \cap p.z = p.z \cap p.x
    OBVIOUS
<1>4. Parity(p, p) = 0
    <2>1. \A u \in Nat : (u + u) % 2 = 0
        OBVIOUS
    <2> QED BY <1>2, <1>3, <2>1 DEF Parity
<1>5. Parity(p, q) \in {0, 1} /\ Parity(p, q) = Parity(q, p)
    <2>1. \A u, v \in Nat : (u + v) % 2 \in {0, 1} /\ (u + v) % 2 = (v + u) % 2
        OBVIOUS
    <2> QED BY <1>2, <1>3, <2>1 DEF Parity
<1>6. ASSUME NEW k \in Nat PROVE Parity(Phased(k, p), q) = Parity(p, q) /\ Phased(k, p) \in PauliOperators
    <2>1. (p.phase + k) % 4 \in 0 .. 3
        BY <1>1
    <2> QED BY <1>1, <2>1 DEF Phased, Parity, PauliOperators
<1> QED BY <1>4, <1>5, <1>6

\* The product, and which operators it commutes with
LEMMA ProductParity ==
    ASSUME NEW p \in PauliOperators, NEW q \in PauliOperators, NEW r \in PauliOperators
    PROVE  /\ Times(p, q) \in PauliOperators
           /\ Parity(Times(p, q), r) = (Parity(p, r) + Parity(q, r)) % 2
           /\ Parity(r, Times(p, q)) = (Parity(p, r) + Parity(q, r)) % 2
           /\ Parity(p, q) = 0 => Times(p, q) = Times(q, p)
<1>1. /\ p.x \in FiniteWires /\ p.z \in FiniteWires /\ q.x \in FiniteWires /\ q.z \in FiniteWires
      /\ r.x \in FiniteWires /\ r.z \in FiniteWires /\ p.phase \in 0 .. 3 /\ q.phase \in 0 .. 3
    BY DEF PauliOperators
<1>2. Times(p, q) \in PauliOperators
    <2>1. Xor(p.x, q.x) \in FiniteWires /\ Xor(p.z, q.z) \in FiniteWires
        BY <1>1, XorParity
    <2>2. Cardinality(p.z \cap q.x) \in Nat
        BY <1>1, FiniteParts
    <2>3. (p.phase + q.phase + 2 * Cardinality(p.z \cap q.x)) % 4 \in 0 .. 3
        BY <1>1, <2>2
    <2> QED BY <2>1, <2>3 DEF Times, Pauli, PauliOperators
<1>3. /\ Xor(p.x, q.x) \in FiniteWires
      /\ Cardinality(Xor(p.x, q.x) \cap r.z) % 2
           = (Cardinality(p.x \cap r.z) + Cardinality(q.x \cap r.z)) % 2
    <2>1. p.x \in FiniteWires /\ q.x \in FiniteWires
        BY <1>1
    <2> QED BY <2>1, XorParity, ZenonT(30)
<1>4. /\ Xor(p.z, q.z) \in FiniteWires
      /\ Cardinality(Xor(p.z, q.z) \cap r.x) % 2
           = (Cardinality(p.z \cap r.x) + Cardinality(q.z \cap r.x)) % 2
    <2>1. p.z \in FiniteWires /\ q.z \in FiniteWires
        BY <1>1
    <2> QED BY <2>1, XorParity, ZenonT(30)
<1>5. Parity(Times(p, q), r) = (Parity(p, r) + Parity(q, r)) % 2
    <2> DEFINE a == Cardinality(p.x \cap r.z)
               b == Cardinality(q.x \cap r.z)
               c == Cardinality(p.z \cap r.x)
               d == Cardinality(q.z \cap r.x)
               u == Cardinality(Xor(p.x, q.x) \cap r.z)
               v == Cardinality(Xor(p.z, q.z) \cap r.x)
    <2>1. /\ a \in Nat /\ b \in Nat /\ c \in Nat /\ d \in Nat /\ u \in Nat /\ v \in Nat
          /\ u % 2 = (a + b) % 2 /\ v % 2 = (c + d) % 2
        <3>1. Xor(p.x, q.x) \in FiniteWires /\ u % 2 = (a + b) % 2
            BY <1>3, <1>4
        <3>2. Xor(p.z, q.z) \in FiniteWires /\ v % 2 = (c + d) % 2
            BY <1>3, <1>4
        <3>3. a \in Nat /\ b \in Nat /\ c \in Nat /\ d \in Nat
            BY <1>1, FiniteParts
        <3>4. u \in Nat /\ v \in Nat
            BY <3>1, <3>2, FiniteParts
        <3> HIDE DEF a, b, c, d, u, v
        <3> QED BY <3>1, <3>2, <3>3, <3>4
    <2>2. Parity(Times(p, q), r) = (u + v) % 2 /\ Parity(p, r) = (a + c) % 2 /\ Parity(q, r) = (b + d) % 2
        BY DEF Parity, Times, Pauli
    <2> HIDE DEF a, b, c, d, u, v
    <2>3. (u + v) % 2 = (((a + c) % 2) + ((b + d) % 2)) % 2
        <3>1. \A m, n \in Nat : m % 2 \in {0, 1} /\ (m + n) % 2 = ((m % 2) + (n % 2)) % 2
            OBVIOUS
        <3>2. /\ (u + v) % 2 = ((u % 2) + (v % 2)) % 2
              /\ (a + b) % 2 = ((a % 2) + (b % 2)) % 2 /\ (c + d) % 2 = ((c % 2) + (d % 2)) % 2
              /\ (a + c) % 2 = ((a % 2) + (c % 2)) % 2 /\ (b + d) % 2 = ((b % 2) + (d % 2)) % 2
              /\ a % 2 \in {0, 1} /\ b % 2 \in {0, 1} /\ c % 2 \in {0, 1} /\ d % 2 \in {0, 1}
            BY <2>1, <3>1
        <3> DEFINE a2 == a % 2
                   b2 == b % 2
                   c2 == c % 2
                   d2 == d % 2
        <3>3. (((a2 + b2) % 2) + ((c2 + d2) % 2)) % 2 = (((a2 + c2) % 2) + ((b2 + d2) % 2)) % 2
            <4>1. a2 \in {0, 1} /\ b2 \in {0, 1} /\ c2 \in {0, 1} /\ d2 \in {0, 1}
                BY <3>2
            <4> HIDE DEF a2, b2, c2, d2
            <4> QED BY <4>1
        <3>4. /\ (u + v) % 2 = (((a2 + b2) % 2) + ((c2 + d2) % 2)) % 2
              /\ (a + c) % 2 = (a2 + c2) % 2 /\ (b + d) % 2 = (b2 + d2) % 2
            BY <2>1, <3>2
        <3> HIDE DEF a2, b2, c2, d2
        <3> QED BY <3>3, <3>4
    <2> QED BY <2>2, <2>3
<1>6. Parity(r, Times(p, q)) = Parity(Times(p, q), r)
    BY <1>2, ParityIsBit
<1>7. ASSUME Parity(p, q) = 0 PROVE Times(p, q) = Times(q, p)
    <2> DEFINE a == Cardinality(p.x \cap q.z)
               b == Cardinality(p.z \cap q.x)
    <2>1. a \in Nat /\ b \in Nat /\ (a + b) % 2 = 0
        BY <1>1, <1>7, FiniteParts DEF Parity
    <2>2. q.z \cap p.x = p.x \cap q.z
        OBVIOUS
    <2>3. /\ Times(p, q) = Pauli((p.phase + q.phase + 2 * b) % 4, Xor(p.x, q.x), Xor(p.z, q.z))
          /\ Times(q, p) = Pauli((q.phase + p.phase + 2 * a) % 4, Xor(q.x, p.x), Xor(q.z, p.z))
        BY <2>2 DEF Times
    <2>4. Xor(p.x, q.x) = Xor(q.x, p.x) /\ Xor(p.z, q.z) = Xor(q.z, p.z)
        BY DEF Xor
    <2> HIDE DEF a, b
    <2> DEFINE k == (b - a) \div 2
               s == p.phase + q.phase
    <2>5. b = a + 2 * k /\ k \in Int /\ s \in Int /\ s = q.phase + p.phase
        BY <1>1, <2>1
    <2> HIDE DEF k, s
    <2>6. (s + 2 * b) % 4 = (s + 2 * a) % 4
        <3>1. \A x, y \in Int : (x + 4 * y) % 4 = x % 4
            OBVIOUS
        <3>2. s + 2 * b = (s + 2 * a) + 4 * k /\ s + 2 * a \in Int
            BY <2>1, <2>5
        <3> QED BY <2>5, <3>1, <3>2
    <2> QED BY <2>3, <2>4, <2>5, <2>6 DEF s
<1> QED BY <1>2, <1>5, <1>6, <1>7

-----------------------------------------------------------------------------
(* Pauli operators that are their own inverses *)

One == Pauli(0, {}, {})
IsOwnInverse(p) == (p.phase + Cardinality(p.z \cap p.x)) % 2 = 0
Observables == {p \in PauliOperators : IsOwnInverse(p)}

\* Even and odd
LEMMA Evenness ==
    /\ \A m, n \in Nat : (m + n) % 2 = ((m % 2) + (n % 2)) % 2
    /\ \A m \in Nat : m % 2 \in {0, 1} /\ (m % 4) % 2 = m % 2 /\ (m % 4) \in Nat
    /\ \A m, n \in Nat : (m + 2 * n) % 2 = m % 2
    /\ \A m, n, k \in Nat : m % 2 = n % 2 => (k + 2 * m) % 4 = (k + 2 * n) % 4
    /\ \A m, n \in Nat : ((m % 4) + n) % 4 = (m + n) % 4 /\ (n + (m % 4)) % 4 = (m + n) % 4
<1>1. \A m, n \in Nat : (m + n) % 2 = ((m % 2) + (n % 2)) % 2
    OBVIOUS
<1>2. \A m \in Nat : m % 2 \in {0, 1} /\ (m % 4) % 2 = m % 2 /\ (m % 4) \in Nat
    OBVIOUS
<1>3. \A m, n \in Nat : (m + 2 * n) % 2 = m % 2
    OBVIOUS
<1>4. ASSUME NEW m \in Nat, NEW n \in Nat, NEW k \in Nat, m % 2 = n % 2
      PROVE  (k + 2 * m) % 4 = (k + 2 * n) % 4
    <2> DEFINE j == (m - n) \div 2
    <2>1. m = n + 2 * j /\ j \in Int
        BY <1>4
    <2> HIDE DEF j
    <2>2. \A x, y \in Int : (x + 4 * y) % 4 = x % 4
        OBVIOUS
    <2>3. k + 2 * m = (k + 2 * n) + 4 * j /\ k + 2 * n \in Int
        BY <2>1
    <2> QED BY <2>1, <2>2, <2>3
<1>5. \A m, n \in Nat : ((m % 4) + n) % 4 = (m + n) % 4 /\ (n + (m % 4)) % 4 = (m + n) % 4
    OBVIOUS
<1> QED BY <1>1, <1>2, <1>3, <1>4, <1>5

LEMMA PartsOfPauli ==
    ASSUME NEW p \in PauliOperators
    PROVE  /\ p.phase \in 0 .. 3 /\ p.phase \in Nat /\ p.x \in FiniteWires /\ p.z \in FiniteWires
           /\ p = Pauli(p.phase, p.x, p.z)
BY DEF PauliOperators, Pauli

\* What two sets of wires have in common with a third one
Common(A, B) == Cardinality(A \cap B)

LEMMA CommonParts ==
    ASSUME NEW A \in FiniteWires, NEW B \in FiniteWires, NEW C \in FiniteWires
    PROVE  /\ Xor(A, B) \in FiniteWires /\ Common(A, C) \in Nat
           /\ Common(A, C) = Common(C, A)
           /\ Common(Xor(A, B), C) % 2 = (Common(A, C) + Common(B, C)) % 2
           /\ Common(C, Xor(A, B)) % 2 = (Common(C, A) + Common(C, B)) % 2
<1>1. \A D, E : D \cap E = E \cap D
    OBVIOUS
<1>2. \A D, E : Common(D, E) = Common(E, D)
    BY <1>1 DEF Common
<1>3. Common(A, C) \in Nat
    BY FiniteParts DEF Common
<1>4. /\ Xor(A, B) \in FiniteWires
      /\ Common(Xor(A, B), C) % 2 = (Common(A, C) + Common(B, C)) % 2
    <2>1. /\ Xor(A, B) \in FiniteWires
          /\ Cardinality(Xor(A, B) \cap C) % 2 = (Cardinality(A \cap C) + Cardinality(B \cap C)) % 2
        BY XorParity, ZenonT(60)
    <2> QED BY <2>1 DEF Common
<1> QED BY <1>2, <1>3, <1>4

LEMMA SquareIsOne ==
    ASSUME NEW p \in Observables
    PROVE  p \in PauliOperators /\ Times(p, p) = One
<1>1. p \in PauliOperators /\ (p.phase + Common(p.z, p.x)) % 2 = 0
    BY DEF Observables, IsOwnInverse, Common
<1>2. p.phase \in Nat /\ p.x \in FiniteWires /\ p.z \in FiniteWires
    BY <1>1, PartsOfPauli
<1>3. Common(p.z, p.x) \in Nat
    BY <1>2, CommonParts
<1>4. (p.phase + p.phase + 2 * Common(p.z, p.x)) % 4 = 0
    <2> DEFINE n == p.phase
               k == Common(p.z, p.x)
    <2>1. n \in Nat /\ k \in Nat /\ (n + k) % 2 = 0
        BY <1>1, <1>2, <1>3
    <2> HIDE DEF n, k
    <2>2. (n + n + 2 * k) % 4 = 0
        BY <2>1
    <2> QED BY <2>2 DEF n, k
<1>5. Xor(p.x, p.x) = {} /\ Xor(p.z, p.z) = {}
    BY DEF Xor
<1> QED BY <1>1, <1>4, <1>5 DEF Times, One, Common

LEMMA TimesOne ==
    ASSUME NEW p \in PauliOperators
    PROVE  Times(p, One) = p /\ Times(One, p) = p
<1>1. p.phase \in 0 .. 3 /\ p = Pauli(p.phase, p.x, p.z)
    BY PartsOfPauli
<1>2. One.phase = 0 /\ One.x = {} /\ One.z = {}
    BY DEF One, Pauli
<1>3. \A A : Xor(A, {}) = A /\ Xor({}, A) = A /\ A \cap {} = {} /\ {} \cap A = {}
    BY DEF Xor
<1>4. Cardinality({}) = 0
    BY FS_EmptySet
<1>5. (p.phase + 0 + 2 * 0) % 4 = p.phase /\ (0 + p.phase + 2 * 0) % 4 = p.phase
    BY <1>1
<1>6. Times(p, One) = Pauli(p.phase, p.x, p.z)
    BY <1>2, <1>3, <1>4, <1>5 DEF Times
<1>7. Times(One, p) = Pauli(p.phase, p.x, p.z)
    BY <1>2, <1>3, <1>4, <1>5 DEF Times
<1> QED BY <1>1, <1>6, <1>7

LEMMA TimesIsAssociative ==
    ASSUME NEW p \in PauliOperators, NEW q \in PauliOperators, NEW r \in PauliOperators
    PROVE  Times(Times(p, q), r) = Times(p, Times(q, r))
<1> DEFINE a == Common(p.z, q.x)
           b == Common(Xor(p.z, q.z), r.x)
           c == Common(q.z, r.x)
           d == Common(p.z, Xor(q.x, r.x))
           e == Common(p.z, r.x)
<1>1. /\ p.phase \in Nat /\ p.x \in FiniteWires /\ p.z \in FiniteWires
      /\ q.phase \in Nat /\ q.x \in FiniteWires /\ q.z \in FiniteWires
      /\ r.phase \in Nat /\ r.x \in FiniteWires /\ r.z \in FiniteWires
    BY PartsOfPauli
<1>2. /\ b % 2 = (e + c) % 2 /\ d % 2 = (a + e) % 2
      /\ Xor(p.z, q.z) \in FiniteWires /\ Xor(q.x, r.x) \in FiniteWires
      /\ a \in Nat /\ c \in Nat /\ e \in Nat
    <2>1. b % 2 = (e + c) % 2 /\ Xor(p.z, q.z) \in FiniteWires /\ e \in Nat
        <3> DEFINE A == p.z
                   B == q.z
                   C == r.x
        <3>1. A \in FiniteWires /\ B \in FiniteWires /\ C \in FiniteWires
            BY <1>1
        <3> HIDE DEF A, B, C
        <3>2. /\ Common(Xor(A, B), C) % 2 = (Common(A, C) + Common(B, C)) % 2
              /\ Xor(A, B) \in FiniteWires /\ Common(A, C) \in Nat
            BY <3>1, CommonParts
        <3> QED BY <3>2 DEF A, B, C
    <2>2. d % 2 = (a + e) % 2 /\ Xor(q.x, r.x) \in FiniteWires
        <3> DEFINE A == q.x
                   B == r.x
                   C == p.z
        <3>1. A \in FiniteWires /\ B \in FiniteWires /\ C \in FiniteWires
            BY <1>1
        <3> HIDE DEF A, B, C
        <3>2. /\ Common(C, Xor(A, B)) % 2 = (Common(C, A) + Common(C, B)) % 2
              /\ Xor(A, B) \in FiniteWires
            BY <3>1, CommonParts
        <3> QED BY <3>2 DEF A, B, C
    <2>3. a \in Nat /\ c \in Nat
        <3>1. p.z \in FiniteWires /\ q.x \in FiniteWires /\ q.z \in FiniteWires /\ r.x \in FiniteWires
            BY <1>1
        <3>2. \A A, C \in FiniteWires : Common(A, C) \in Nat
            BY CommonParts
        <3> QED BY <3>1, <3>2
    <2> QED BY <2>1, <2>2, <2>3
<1>3. b \in Nat /\ d \in Nat
    <2> DEFINE U == Xor(p.z, q.z)
               V == Xor(q.x, r.x)
    <2>1. U \in FiniteWires /\ V \in FiniteWires
        BY <1>2
    <2> HIDE DEF U, V
    <2>2. Common(U, r.x) \in Nat /\ Common(p.z, V) \in Nat
        BY <1>1, <2>1, CommonParts
    <2> QED BY <2>2 DEF U, V
<1>4. \A A, B, C : Xor(Xor(A, B), C) = Xor(A, Xor(B, C))
    BY DEF Xor
<1>5. Times(Times(p, q), r)
        = Pauli((((p.phase + q.phase + 2 * a) % 4) + r.phase + 2 * b) % 4,
                Xor(Xor(p.x, q.x), r.x), Xor(Xor(p.z, q.z), r.z))
    BY DEF Times, Pauli, Common
<1>6. Times(p, Times(q, r))
        = Pauli((p.phase + ((q.phase + r.phase + 2 * c) % 4) + 2 * d) % 4,
                Xor(p.x, Xor(q.x, r.x)), Xor(p.z, Xor(q.z, r.z)))
    BY DEF Times, Pauli, Common
<1>7. (((p.phase + q.phase + 2 * a) % 4) + r.phase + 2 * b) % 4
        = (p.phase + ((q.phase + r.phase + 2 * c) % 4) + 2 * d) % 4
    <2> DEFINE i == p.phase
               j == q.phase
               k == r.phase
    <2>1. i \in Nat /\ j \in Nat /\ k \in Nat
        BY <1>1
    <2> HIDE DEF a, b, c, d, e, i, j, k
    <2>2. (a + b) % 2 = (c + d) % 2
        BY <1>2, <1>3
    <2>3. /\ i + j + 2 * a \in Nat /\ k + 2 * b \in Nat /\ j + k + 2 * c \in Nat /\ i + 2 * d \in Nat
          /\ i + j + k \in Nat /\ a + b \in Nat /\ c + d \in Nat
        BY <1>2, <1>3, <2>1
    <2>4. /\ (((i + j + 2 * a) % 4) + (k + 2 * b)) % 4 = ((i + j + 2 * a) + (k + 2 * b)) % 4
          /\ ((i + 2 * d) + ((j + k + 2 * c) % 4)) % 4 = ((j + k + 2 * c) + (i + 2 * d)) % 4
        BY <2>3, Evenness
    <2>5. ((i + j + k) + 2 * (a + b)) % 4 = ((i + j + k) + 2 * (c + d)) % 4
        BY <2>2, <2>3, Evenness
    <2>6. /\ (i + j + 2 * a) + (k + 2 * b) = (i + j + k) + 2 * (a + b)
          /\ (j + k + 2 * c) + (i + 2 * d) = (i + j + k) + 2 * (c + d)
        BY <1>2, <1>3, <2>1
    <2>7. (((i + j + 2 * a) % 4) + (k + 2 * b)) % 4 = ((i + 2 * d) + ((j + k + 2 * c) % 4)) % 4
        BY <2>4, <2>5, <2>6
    <2> DEFINE y == (i + j + 2 * a) % 4
               v == (j + k + 2 * c) % 4
    <2>8. y \in Int /\ v \in Int
        BY <2>3
    <2>9. (y + (k + 2 * b)) % 4 = ((i + 2 * d) + v) % 4
        BY <2>7
    <2> HIDE DEF y, v
    <2>10. y + k + 2 * b = y + (k + 2 * b) /\ i + v + 2 * d = (i + 2 * d) + v
        BY <1>2, <1>3, <2>1, <2>8
    <2>11. (y + k + 2 * b) % 4 = (i + v + 2 * d) % 4
        BY <2>9, <2>10
    <2> QED BY <2>11 DEF y, v, i, j, k
<1> HIDE DEF a, b, c, d
<1> QED BY <1>4, <1>5, <1>6, <1>7

\* The products that are their own inverses again
LEMMA ObservableProduct ==
    ASSUME NEW p \in Observables, NEW q \in Observables
    PROVE  /\ Parity(p, q) = 0 => Times(p, q) \in Observables
           /\ Parity(p, q) = 1 => Phased(1, Times(p, q)) \in Observables
<1> DEFINE t == Times(p, q)
           a == Common(p.z, p.x)
           b == Common(q.z, q.x)
           c == Common(p.x, q.z)
           d == Common(p.z, q.x)
           u == Common(t.z, t.x)
<1>1. /\ p \in PauliOperators /\ (p.phase + a) % 2 = 0
      /\ q \in PauliOperators /\ (q.phase + b) % 2 = 0
    BY DEF Observables, IsOwnInverse, Common
<1>2. /\ p.phase \in Nat /\ p.x \in FiniteWires /\ p.z \in FiniteWires
      /\ q.phase \in Nat /\ q.x \in FiniteWires /\ q.z \in FiniteWires
    BY <1>1, PartsOfPauli
<1>3. /\ t.phase = (p.phase + q.phase + 2 * d) % 4
      /\ t.x = Xor(p.x, q.x) /\ t.z = Xor(p.z, q.z) /\ t \in PauliOperators
    BY <1>1, ProductParity DEF Times, Pauli, Common
<1>4. Parity(p, q) = (c + d) % 2
    BY DEF Parity, Common
<1> HIDE DEF t
<1>5. a \in Nat /\ b \in Nat /\ c \in Nat /\ d \in Nat
    BY <1>2, CommonParts
<1>6. t.z \in FiniteWires /\ t.x \in FiniteWires
    BY <1>3, PartsOfPauli
<1>7. u \in Nat
    BY <1>6, CommonParts
<1>8. u % 2 = (Common(p.z, t.x) + Common(q.z, t.x)) % 2
    <2> DEFINE V == t.x
    <2>1. V \in FiniteWires
        BY <1>6
    <2> HIDE DEF V
    <2>2. Common(Xor(p.z, q.z), V) % 2 = (Common(p.z, V) + Common(q.z, V)) % 2
        BY <1>2, <2>1, CommonParts
    <2> QED BY <1>3, <2>2 DEF V
<1>9. Common(p.z, t.x) % 2 = (a + d) % 2 /\ Common(q.z, t.x) % 2 = (c + b) % 2
    <2>1. /\ Common(p.z, Xor(p.x, q.x)) % 2 = (Common(p.z, p.x) + Common(p.z, q.x)) % 2
          /\ Common(q.z, Xor(p.x, q.x)) % 2 = (Common(q.z, p.x) + Common(q.z, q.x)) % 2
          /\ Common(q.z, p.x) = Common(p.x, q.z)
        BY <1>2, CommonParts
    <2> QED BY <1>3, <2>1
<1>10. Common(p.z, t.x) \in Nat /\ Common(q.z, t.x) \in Nat
    BY <1>2, <1>6, CommonParts
<1>11. u % 2 = (a + b + c + d) % 2
    <2> DEFINE f == Common(p.z, t.x)
               g == Common(q.z, t.x)
    <2>1. f \in Nat /\ g \in Nat /\ u % 2 = (f + g) % 2 /\ f % 2 = (a + d) % 2 /\ g % 2 = (c + b) % 2
        BY <1>8, <1>9, <1>10
    <2> HIDE DEF f, g, a, b, c, d, u
    <2> QED BY <1>5, <1>7, <2>1
<1>12. t.phase \in Nat /\ t.phase % 2 = (p.phase + q.phase) % 2
    <2> DEFINE i == p.phase
               j == q.phase
    <2>1. i \in Nat /\ j \in Nat /\ t.phase = (i + j + 2 * d) % 4
        BY <1>2, <1>3
    <2> HIDE DEF i, j, d
    <2>2. t.phase \in Nat /\ t.phase % 2 = (i + j) % 2
        BY <1>5, <2>1
    <2> QED BY <2>2 DEF i, j
<1>13. (t.phase + u) % 2 = (c + d) % 2
    <2> DEFINE i == p.phase
               j == q.phase
               k == t.phase
    <2>1. /\ i \in Nat /\ j \in Nat /\ k \in Nat /\ k % 2 = (i + j) % 2
          /\ (i + a) % 2 = 0 /\ (j + b) % 2 = 0
        BY <1>1, <1>2, <1>12
    <2> HIDE DEF i, j, k, a, b, c, d, u
    <2>2. (k + u) % 2 = (c + d) % 2
        BY <1>5, <1>7, <1>11, <2>1
    <2> QED BY <2>2 DEF k
<1>14. ASSUME Parity(p, q) = 0 PROVE t \in Observables
    <2>1. (t.phase + u) % 2 = 0
        BY <1>4, <1>13, <1>14
    <2> QED BY <1>3, <2>1 DEF Observables, IsOwnInverse, Common
<1>15. ASSUME Parity(p, q) = 1 PROVE Phased(1, t) \in Observables
    <2> DEFINE s == Phased(1, t)
    <2>1. s \in PauliOperators
        BY <1>3, ParityIsBit
    <2>2. s.phase = (t.phase + 1) % 4 /\ s.x = t.x /\ s.z = t.z
        BY <1>3 DEF Phased, PauliOperators
    <2> HIDE DEF s
    <2>3. (t.phase + u) % 2 = 1
        BY <1>4, <1>13, <1>15
    <2>4. (s.phase + u) % 2 = 0
        <3> DEFINE k == t.phase
        <3>1. k \in Nat /\ (k + u) % 2 = 1 /\ s.phase = (k + 1) % 4
            BY <1>12, <2>2, <2>3
        <3> HIDE DEF k, u
        <3> QED BY <1>7, <3>1
    <2> QED BY <2>1, <2>2, <2>4 DEF Observables, IsOwnInverse, Common, s
<1> QED BY <1>14, <1>15 DEF t

LEMMA OppositeIsObservable ==
    ASSUME NEW p \in Observables, NEW k \in {0, 2}
    PROVE  Phased(k, p) \in Observables
<1> DEFINE s == Phased(k, p)
           u == Common(p.z, p.x)
<1>1. p \in PauliOperators /\ (p.phase + u) % 2 = 0
    BY DEF Observables, IsOwnInverse, Common
<1>2. p.phase \in Nat /\ p.x \in FiniteWires /\ p.z \in FiniteWires /\ s \in PauliOperators
    BY <1>1, PartsOfPauli, ParityIsBit
<1>3. s.phase = (p.phase + k) % 4 /\ s.x = p.x /\ s.z = p.z
    BY <1>1 DEF Phased, PauliOperators
<1>4. u \in Nat
    BY <1>2, CommonParts
<1> HIDE DEF s
<1>5. (s.phase + u) % 2 = 0
    <2> DEFINE n == p.phase
    <2>1. n \in Nat /\ (n + u) % 2 = 0 /\ s.phase = (n + k) % 4
        BY <1>1, <1>2, <1>3
    <2> HIDE DEF n, u
    <2> QED BY <1>4, <2>1
<1> QED BY <1>2, <1>3, <1>5 DEF Observables, IsOwnInverse, Common, s

-----------------------------------------------------------------------------
(* The images of the Pauli operators under a circuit: those of one wire anticommute, those *)
(* of different wires commute, and each is its own inverse.                                 *)

Pairs == [x : Observables, z : Observables]

LEMMA PartsOfPair ==
    ASSUME NEW i \in Pairs
    PROVE  /\ i.x \in Observables /\ i.z \in Observables /\ i = [x |-> i.x, z |-> i.z]
           /\ i.x \in PauliOperators /\ i.z \in PauliOperators
BY DEF Pairs, Observables

Apart(i, j) ==
    Parity(i.x, j.x) = 0 /\ Parity(i.x, j.z) = 0 /\ Parity(i.z, j.x) = 0 /\ Parity(i.z, j.z) = 0

Images ==
    {images \in [Wires -> Pairs] :
       \A v \in Wires : /\ Parity(images[v].x, images[v].z) = 1
                        /\ \A w \in Wires \ {v} : Apart(images[v], images[w])}

LEMMA ApartIsSymmetric ==
    ASSUME NEW i \in Pairs, NEW j \in Pairs, Apart(i, j)
    PROVE  Apart(j, i)
<1>1. /\ i.x \in PauliOperators /\ i.z \in PauliOperators
      /\ j.x \in PauliOperators /\ j.z \in PauliOperators
    BY PartsOfPair
<1> QED BY <1>1, ParityIsBit DEF Apart

LEMMA ImagesOfWire ==
    ASSUME NEW images \in Images, NEW t \in Wires
    PROVE  /\ images \in [Wires -> Pairs] /\ images[t] \in Pairs
           /\ images[t].x \in PauliOperators /\ images[t].z \in PauliOperators
           /\ images[t].x \in Observables /\ images[t].z \in Observables
           /\ Parity(images[t].x, images[t].z) = 1 /\ Parity(images[t].z, images[t].x) = 1
           /\ \A w \in Wires : w # t => Apart(images[t], images[w]) /\ Apart(images[w], images[t])
<1>1. images \in [Wires -> Pairs] /\ images[t] \in Pairs
    BY DEF Images
<1>2. /\ images[t].x \in PauliOperators /\ images[t].z \in PauliOperators
      /\ images[t].x \in Observables /\ images[t].z \in Observables
    BY <1>1, PartsOfPair
<1>3. Parity(images[t].x, images[t].z) = 1
    BY DEF Images
<1>4. Parity(images[t].z, images[t].x) = 1
    BY <1>2, <1>3, ParityIsBit
<1>5. ASSUME NEW w \in Wires, w # t PROVE Apart(images[t], images[w]) /\ Apart(images[w], images[t])
    BY <1>5 DEF Images
<1> QED BY <1>1, <1>2, <1>3, <1>4, <1>5

\* What commutes with the old operators of a wire commutes with the new ones.
Within(new, old) ==
    \A r \in PauliOperators :
      Parity(old.x, r) = 0 /\ Parity(old.z, r) = 0 => Parity(new.x, r) = 0 /\ Parity(new.z, r) = 0

LEMMA OneWireChanges ==
    ASSUME NEW images \in Images, NEW t \in Wires, NEW new \in Pairs,
           Parity(new.x, new.z) = 1, Within(new, images[t])
    PROVE  [images EXCEPT ![t] = new] \in Images
<1> DEFINE moved == [images EXCEPT ![t] = new]
<1>1. moved \in [Wires -> Pairs] /\ moved[t] = new /\ \A w \in Wires : w # t => moved[w] = images[w]
    BY ImagesOfWire
<1>2. ASSUME NEW w \in Wires, w # t PROVE Apart(new, images[w]) /\ Apart(images[w], new)
    <2>1. Apart(images[t], images[w])
        BY <1>2, ImagesOfWire
    <2>2. images[w] \in Pairs /\ images[w].x \in PauliOperators /\ images[w].z \in PauliOperators
        BY ImagesOfWire
    <2>3. Apart(new, images[w])
        BY <2>1, <2>2 DEF Within, Apart
    <2> QED BY <2>2, <2>3, ApartIsSymmetric
<1> HIDE DEF moved
<1>3. ASSUME NEW v \in Wires
      PROVE  /\ Parity(moved[v].x, moved[v].z) = 1
             /\ \A w \in Wires \ {v} : Apart(moved[v], moved[w])
    <2>1. CASE v = t
        BY <1>1, <1>2, <2>1
    <2>2. CASE v # t
        <3>1. moved[v] = images[v] /\ Parity(images[v].x, images[v].z) = 1
            BY <1>1, <2>2, ImagesOfWire
        <3>2. ASSUME NEW w \in Wires \ {v} PROVE Apart(moved[v], moved[w])
            <4>1. CASE w = t
                BY <1>1, <1>2, <2>2, <3>1, <4>1
            <4>2. CASE w # t
                <5>1. Apart(images[v], images[w])
                    BY ImagesOfWire
                <5> QED BY <1>1, <3>1, <4>2, <5>1
            <4> QED BY <4>1, <4>2
        <3> QED BY <3>1, <3>2
    <2> QED BY <2>1, <2>2
<1>4. moved \in Images
    BY <1>1, <1>3 DEF Images
<1> QED BY <1>4 DEF moved

\* The operator Y of a wire
LEMMA YImageIsPauli ==
    ASSUME NEW images \in Images, NEW t \in Wires
    PROVE  LET Y == YImage(images[t])
           IN  /\ Y \in PauliOperators /\ Y \in Observables
               /\ Parity(Y, images[t].x) = 1 /\ Parity(Y, images[t].z) = 1
               /\ \A r \in PauliOperators :
                    Parity(images[t].x, r) = 0 /\ Parity(images[t].z, r) = 0 => Parity(Y, r) = 0
<1> DEFINE x == images[t].x
           z == images[t].z
           p == Times(x, z)
<1>1. x \in PauliOperators /\ z \in PauliOperators /\ Parity(x, z) = 1 /\ Parity(z, x) = 1
    BY ImagesOfWire
<1>2. YImage(images[t]) = Phased(1, p) /\ Phased(1, p) \in Observables
    <2>1. x \in Observables /\ z \in Observables
        BY ImagesOfWire
    <2> HIDE DEF x, z
    <2>2. Phased(1, p) \in Observables
        BY <1>1, <2>1, ObservableProduct
    <2> QED BY <2>2 DEF YImage, x, z
<1> HIDE DEF x, z
<1>3. p \in PauliOperators /\ \A r \in PauliOperators : Parity(p, r) = (Parity(x, r) + Parity(z, r)) % 2
    BY <1>1, ProductParity
<1> HIDE DEF p
<1>4. /\ Phased(1, p) \in PauliOperators
      /\ \A r \in PauliOperators : Parity(Phased(1, p), r) = (Parity(x, r) + Parity(z, r)) % 2
    BY <1>3, ParityIsBit
<1>5. Parity(x, x) = 0 /\ Parity(z, z) = 0
    BY <1>1, ParityIsBit
<1> QED BY <1>1, <1>2, <1>4, <1>5 DEF x, z

\* The same for two wires
WithinBoth(new, old1, old2) ==
    \A r \in Pairs : Apart(old1, r) /\ Apart(old2, r) => Apart(new, r)

LEMMA TwoWiresChange ==
    ASSUME NEW images \in Images, NEW c \in Wires, NEW t \in Wires, c # t,
           NEW i \in Pairs, NEW j \in Pairs, Parity(i.x, i.z) = 1, Parity(j.x, j.z) = 1, Apart(i, j),
           WithinBoth(i, images[c], images[t]), WithinBoth(j, images[c], images[t])
    PROVE  [images EXCEPT ![c] = i, ![t] = j] \in Images
<1> DEFINE moved == [images EXCEPT ![c] = i, ![t] = j]
<1>1. /\ moved \in [Wires -> Pairs] /\ moved[c] = i /\ moved[t] = j
      /\ \A w \in Wires : w # c /\ w # t => moved[w] = images[w]
    BY ImagesOfWire
<1>2. Apart(j, i)
    BY ApartIsSymmetric
<1>3. ASSUME NEW w \in Wires, w # c, w # t
      PROVE  Apart(i, images[w]) /\ Apart(images[w], i) /\ Apart(j, images[w]) /\ Apart(images[w], j)
    <2>1. images[w] \in Pairs /\ Apart(images[c], images[w]) /\ Apart(images[t], images[w])
        BY <1>3, ImagesOfWire
    <2>2. Apart(i, images[w]) /\ Apart(j, images[w])
        BY <2>1 DEF WithinBoth
    <2> QED BY <2>1, <2>2, ApartIsSymmetric
<1> HIDE DEF moved
<1>4. ASSUME NEW v \in Wires
      PROVE  /\ Parity(moved[v].x, moved[v].z) = 1
             /\ \A w \in Wires \ {v} : Apart(moved[v], moved[w])
    <2>1. CASE v = c
        <3>1. ASSUME NEW w \in Wires \ {v} PROVE Apart(i, moved[w])
            <4>1. CASE w = t
                BY <1>1, <4>1
            <4>2. CASE w # t
                BY <1>1, <1>3, <2>1, <4>2
            <4> QED BY <4>1, <4>2
        <3> QED BY <1>1, <2>1, <3>1
    <2>2. CASE v = t
        <3>1. ASSUME NEW w \in Wires \ {v} PROVE Apart(j, moved[w])
            <4>1. CASE w = c
                BY <1>1, <1>2, <4>1
            <4>2. CASE w # c
                BY <1>1, <1>3, <2>2, <4>2
            <4> QED BY <4>1, <4>2
        <3> QED BY <1>1, <2>2, <3>1
    <2>3. CASE v # c /\ v # t
        <3>1. moved[v] = images[v] /\ Parity(images[v].x, images[v].z) = 1
            BY <1>1, <2>3, ImagesOfWire
        <3>2. ASSUME NEW w \in Wires \ {v} PROVE Apart(moved[v], moved[w])
            <4>1. CASE w = c \/ w = t
                BY <1>1, <1>3, <2>3, <3>1, <4>1
            <4>2. CASE w # c /\ w # t
                <5>1. Apart(images[v], images[w])
                    BY ImagesOfWire
                <5> QED BY <1>1, <3>1, <4>2, <5>1
            <4> QED BY <4>1, <4>2
        <3> QED BY <3>1, <3>2
    <2> QED BY <2>1, <2>2, <2>3
<1>5. moved \in Images
    BY <1>1, <1>4 DEF Images
<1> QED BY <1>5 DEF moved

\* A gate P on t that c controls: the operators of t that anticommute with P pick up the Z of
\* c, and the X of c picks up P.
LEMMA ControlledChange ==
    ASSUME NEW images \in Images, NEW c \in Wires, NEW t \in Wires, c # t,
           NEW P \in Observables,
           \A r \in PauliOperators :
             Parity(images[t].x, r) = 0 /\ Parity(images[t].z, r) = 0 => Parity(P, r) = 0
    PROVE  [images EXCEPT
              ![c] = [x |-> Times(images[c].x, P), z |-> images[c].z],
              ![t] = [x |-> IF Parity(P, images[t].x) = 0 THEN images[t].x
                            ELSE Times(images[c].z, images[t].x),
                      z |-> IF Parity(P, images[t].z) = 0 THEN images[t].z
                            ELSE Times(images[c].z, images[t].z)]] \in Images
<1> DEFINE X == images[c].x
           Z == images[c].z
           x == images[t].x
           z == images[t].z
           q == Times(X, P)
           xx == IF Parity(P, x) = 0 THEN x ELSE Times(Z, x)
           zz == IF Parity(P, z) = 0 THEN z ELSE Times(Z, z)
           i == [x |-> q, z |-> Z]
           j == [x |-> xx, z |-> zz]
<1>0. X \in Observables /\ Z \in Observables /\ x \in Observables /\ z \in Observables
    BY ImagesOfWire
<1>1. /\ X \in PauliOperators /\ Z \in PauliOperators /\ x \in PauliOperators /\ z \in PauliOperators
      /\ P \in PauliOperators
      /\ Parity(X, Z) = 1 /\ Parity(Z, X) = 1 /\ Parity(x, z) = 1 /\ Parity(z, x) = 1
    BY ImagesOfWire, SquareIsOne
<1>2. /\ Parity(X, x) = 0 /\ Parity(X, z) = 0 /\ Parity(Z, x) = 0 /\ Parity(Z, z) = 0
      /\ Parity(x, X) = 0 /\ Parity(x, Z) = 0 /\ Parity(z, X) = 0 /\ Parity(z, Z) = 0
    BY ImagesOfWire DEF Apart
<1>3. \A r \in PauliOperators : Parity(x, r) = 0 /\ Parity(z, r) = 0 => Parity(P, r) = 0
    OBVIOUS
<1>4. images[c] = [x |-> X, z |-> Z] /\ images[t] = [x |-> x, z |-> z]
    BY ImagesOfWire, PartsOfPair
<1> HIDE DEF X, Z, x, z
<1>5. /\ Parity(P, X) = 0 /\ Parity(P, Z) = 0 /\ Parity(X, P) = 0 /\ Parity(Z, P) = 0
      /\ Parity(P, P) = 0 /\ Parity(x, x) = 0 /\ Parity(z, z) = 0 /\ Parity(Z, Z) = 0
      /\ Parity(X, X) = 0
      /\ Parity(P, x) \in {0, 1} /\ Parity(P, z) \in {0, 1}
      /\ Parity(x, P) = Parity(P, x) /\ Parity(z, P) = Parity(P, z)
    BY <1>1, <1>2, <1>3, ParityIsBit
<1>6. /\ q \in PauliOperators
      /\ \A r \in PauliOperators : Parity(q, r) = (Parity(X, r) + Parity(P, r)) % 2
    BY <1>1, ProductParity
<1>7. /\ xx \in PauliOperators
      /\ \A r \in PauliOperators :
           Parity(xx, r) = IF Parity(P, x) = 0 THEN Parity(x, r) ELSE (Parity(Z, r) + Parity(x, r)) % 2
    <2>1. /\ Times(Z, x) \in PauliOperators
          /\ \A r \in PauliOperators : Parity(Times(Z, x), r) = (Parity(Z, r) + Parity(x, r)) % 2
        BY <1>1, ProductParity
    <2> QED BY <1>1, <2>1
<1>8. /\ zz \in PauliOperators
      /\ \A r \in PauliOperators :
           Parity(zz, r) = IF Parity(P, z) = 0 THEN Parity(z, r) ELSE (Parity(Z, r) + Parity(z, r)) % 2
    <2>1. /\ Times(Z, z) \in PauliOperators
          /\ \A r \in PauliOperators : Parity(Times(Z, z), r) = (Parity(Z, r) + Parity(z, r)) % 2
        BY <1>1, ProductParity
    <2> QED BY <1>1, <2>1
<1>9. i \in Pairs /\ j \in Pairs
    <2>1. /\ Times(X, P) \in Observables /\ Times(Z, x) \in Observables /\ Times(Z, z) \in Observables
        BY <1>0, <1>2, <1>5, ObservableProduct
    <2>2. q \in Observables /\ xx \in Observables /\ zz \in Observables
        BY <1>0, <2>1
    <2> HIDE DEF q, xx, zz
    <2> QED BY <1>0, <2>2 DEF Pairs
<1> HIDE DEF q, xx, zz
<1>10. Parity(q, Z) = 1
    BY <1>1, <1>5, <1>6
<1>11. Parity(xx, zz) = 1
    <2>1. Parity(zz, x) = 1 /\ Parity(zz, Z) = 0
        BY <1>1, <1>2, <1>5, <1>8
    <2>2. Parity(x, zz) = 1 /\ Parity(Z, zz) = 0
        BY <1>1, <1>8, <2>1, ParityIsBit
    <2> QED BY <1>7, <1>8, <2>2
<1>12. Parity(xx, q) = 0 /\ Parity(xx, Z) = 0 /\ Parity(zz, q) = 0 /\ Parity(zz, Z) = 0
    <2>1. Parity(q, x) = Parity(P, x) /\ Parity(q, z) = Parity(P, z)
        BY <1>1, <1>2, <1>5, <1>6
    <2>2. Parity(x, q) = Parity(P, x) /\ Parity(z, q) = Parity(P, z) /\ Parity(Z, q) = 1
        BY <1>1, <1>6, <1>10, <2>1, ParityIsBit
    <2>3. Parity(xx, q) = 0 /\ Parity(zz, q) = 0
        BY <1>5, <1>6, <1>7, <1>8, <2>2
    <2> QED BY <1>1, <1>2, <1>5, <1>7, <1>8, <2>3
<1>13. Apart(i, j)
    <2>1. Parity(q, xx) = 0 /\ Parity(Z, xx) = 0 /\ Parity(q, zz) = 0 /\ Parity(Z, zz) = 0
        BY <1>1, <1>6, <1>7, <1>8, <1>12, ParityIsBit
    <2> QED BY <2>1 DEF Apart
<1>14. ASSUME NEW r \in Pairs, Apart(images[c], r), Apart(images[t], r)
       PROVE  Apart(i, r) /\ Apart(j, r)
    <2>1. r.x \in PauliOperators /\ r.z \in PauliOperators
        BY PartsOfPair
    <2>2. /\ Parity(X, r.x) = 0 /\ Parity(X, r.z) = 0 /\ Parity(Z, r.x) = 0 /\ Parity(Z, r.z) = 0
          /\ Parity(x, r.x) = 0 /\ Parity(x, r.z) = 0 /\ Parity(z, r.x) = 0 /\ Parity(z, r.z) = 0
        BY <1>4, <1>14 DEF Apart
    <2>3. Parity(P, r.x) = 0 /\ Parity(P, r.z) = 0
        BY <1>3, <2>1, <2>2
    <2>4. Parity(q, r.x) = 0 /\ Parity(q, r.z) = 0
        BY <1>6, <2>1, <2>2, <2>3
    <2>5. Parity(xx, r.x) = 0 /\ Parity(xx, r.z) = 0 /\ Parity(zz, r.x) = 0 /\ Parity(zz, r.z) = 0
        BY <1>7, <1>8, <2>1, <2>2
    <2> QED BY <2>2, <2>4, <2>5 DEF Apart
<1>15. WithinBoth(i, images[c], images[t]) /\ WithinBoth(j, images[c], images[t])
    <2> HIDE DEF i, j
    <2> QED BY <1>14 DEF WithinBoth
<1>16. Parity(i.x, i.z) = 1 /\ Parity(j.x, j.z) = 1
    BY <1>10, <1>11
<1> HIDE DEF i, j
<1>17. [images EXCEPT ![c] = i, ![t] = j] \in Images
    BY <1>9, <1>13, <1>15, <1>16, TwoWiresChange
<1> QED BY <1>17 DEF i, j, q, xx, zz, X, Z, x, z
-----------------------------------------------------------------------------
(* What each operation does to the meaning *)

\* Operations as the dialect has them: with a target, a swap with two, on no wire twice, and
\* a rotation with one angle.
ProperOps ==
    {op \in Op :
       /\ op.tgts # <<>>
       /\ op.gate = "swap" => Len(op.tgts) = 2
       /\ op.gate \in Rotations => Len(op.params) = 1
       /\ \A j, k \in DOMAIN op.tgts : op.tgts[j] = op.tgts[k] => j = k
       /\ \A j \in DOMAIN op.ctrls, k \in DOMAIN op.tgts : op.ctrls[j] # op.tgts[k]}

Events == {Event(images, op) : images \in Images, op \in ProperOps}
Meanings == [images : Images, events : Seq(Events)]

Meant(images, events) == [images |-> images, events |-> events]

LEMMA MeaningParts ==
    ASSUME NEW m \in Meanings
    PROVE  /\ m.images \in Images /\ m = Meant(m.images, m.events)
           /\ \A new : [m EXCEPT !.images = new] = Meant(new, m.events)
           /\ \A new : [m EXCEPT !.events = new] = Meant(m.images, new)
           /\ \A new \in Images : Meant(new, m.events) \in Meanings
BY DEF Meanings, Meant

LEMMA ProperTargets ==
    ASSUME NEW op \in ProperOps
    PROVE  /\ op \in Op /\ op.tgts \in Seq(Wires) /\ op.ctrls \in Seq(Wires)
           /\ op.tgts[1] \in Wires
           /\ Len(op.ctrls) = 0 <=> op.ctrls = <<>>
           /\ Len(op.ctrls) = 1 => op.ctrls[1] \in Wires /\ op.ctrls[1] # op.tgts[1]
           /\ op.gate = "swap" => op.tgts[2] \in Wires /\ op.tgts[1] # op.tgts[2]
<1>1. op \in Op /\ op.tgts \in Seq(Wires) /\ op.ctrls \in Seq(Wires) /\ op.tgts # <<>>
    BY DEF ProperOps, Op
<1>2. 1 \in DOMAIN op.tgts /\ op.tgts[1] \in Wires
    BY <1>1
<1>3. Len(op.ctrls) = 0 <=> op.ctrls = <<>>
    BY <1>1
<1>4. ASSUME Len(op.ctrls) = 1 PROVE op.ctrls[1] \in Wires /\ op.ctrls[1] # op.tgts[1]
    <2>1. 1 \in DOMAIN op.ctrls
        BY <1>1, <1>4
    <2> QED BY <1>1, <1>2, <2>1 DEF ProperOps
<1>5. ASSUME op.gate = "swap" PROVE op.tgts[2] \in Wires /\ op.tgts[1] # op.tgts[2]
    <2>1. 2 \in DOMAIN op.tgts
        BY <1>1, <1>5 DEF ProperOps
    <2> QED BY <1>1, <1>2, <2>1 DEF ProperOps
<1> QED BY <1>1, <1>2, <1>3, <1>4, <1>5

\* Case by case
LEMMA ApplyPauli ==
    ASSUME NEW m \in Meanings, NEW op \in ProperOps, IsPauliGate(op), op.ctrls = <<>>
    PROVE  LET t == op.tgts[1]
           IN  Apply(m, op) = Meant([m.images EXCEPT ![t] = AfterPauli(op.gate, m.images[t])], m.events)
<1>1. Len(op.ctrls) = 0 /\ Len(op.ctrls) # 1
    BY ProperTargets
<1> QED BY <1>1, MeaningParts DEF Apply, IsPauliGate, NullRotation

LEMMA ApplyControlledPauli ==
    ASSUME NEW m \in Meanings, NEW op \in ProperOps, IsPauliGate(op), Len(op.ctrls) = 1
    PROVE  Apply(m, op) =
             Meant(AfterControlledPauli(op.gate, m.images, op.ctrls[1], op.tgts[1]), m.events)
<1>1. Len(op.ctrls) # 0
    OBVIOUS
<1> QED BY <1>1, MeaningParts DEF Apply, IsPauliGate, NullRotation

LEMMA ApplyH ==
    ASSUME NEW m \in Meanings, NEW op \in ProperOps, op.gate = "h", op.ctrls = <<>>
    PROVE  LET t == op.tgts[1]
           IN  Apply(m, op) =
                 Meant([m.images EXCEPT ![t] = [x |-> m.images[t].z, z |-> m.images[t].x]], m.events)
BY MeaningParts DEF Apply, IsPauliGate, NullRotation

LEMMA ApplyS ==
    ASSUME NEW m \in Meanings, NEW op \in ProperOps, op.gate = "s", op.ctrls = <<>>
    PROVE  LET t == op.tgts[1]
           IN  Apply(m, op) =
                 Meant([m.images EXCEPT
                          ![t] = [x |-> Phased(IF op.adj THEN 0 ELSE 2, YImage(m.images[t])),
                                  z |-> m.images[t].z]], m.events)
<1>1. ~ IsPauliGate(op) /\ ~ NullRotation(op)
    BY DEF IsPauliGate, NullRotation
<1> QED BY <1>1, MeaningParts DEF Apply

LEMMA ApplySwap ==
    ASSUME NEW m \in Meanings, NEW op \in ProperOps, op.gate = "swap", op.ctrls = <<>>
    PROVE  LET t == op.tgts[1]
               u == op.tgts[2]
           IN  Apply(m, op) =
                 Meant([m.images EXCEPT ![t] = m.images[u], ![u] = m.images[t]], m.events)
BY MeaningParts DEF Apply, IsPauliGate, NullRotation

LEMMA ApplyNull ==
    ASSUME NEW m \in Meanings, NEW op \in ProperOps, NullRotation(op)
    PROVE  Apply(m, op) = m
<1>1. op.gate \in {"rx", "ry", "rz"}
    BY DEF NullRotation
<1> QED BY <1>1 DEF Apply, IsPauliGate, NullRotation

\* The gates that move the images
Moves(op) ==
    \/ IsPauliGate(op) /\ Len(op.ctrls) \in {0, 1}
    \/ op.gate \in {"h", "s", "swap"} /\ op.ctrls = <<>>

LEMMA ApplyEvent ==
    ASSUME NEW m \in Meanings, NEW op \in ProperOps, ~ Moves(op), ~ NullRotation(op)
    PROVE  Apply(m, op) = Meant(m.images, Append(m.events, Event(m.images, op)))
BY MeaningParts DEF Apply, Moves

LEMMA PauliChange ==
    ASSUME NEW images \in Images, NEW t \in Wires, NEW axis \in {"x", "y", "z"}
    PROVE  [images EXCEPT ![t] = AfterPauli(axis, images[t])] \in Images
<1> DEFINE i == images[t]
           new == AfterPauli(axis, i)
<1>1. /\ i \in Pairs /\ i.x \in PauliOperators /\ i.z \in PauliOperators /\ Parity(i.x, i.z) = 1
      /\ i.x \in Observables /\ i.z \in Observables
    BY ImagesOfWire
<1> HIDE DEF i
<1>2. /\ Phased(2, i.x) \in PauliOperators /\ Phased(2, i.z) \in PauliOperators
      /\ \A r \in PauliOperators : /\ Parity(Phased(2, i.x), r) = Parity(i.x, r)
                                   /\ Parity(Phased(2, i.z), r) = Parity(i.z, r)
    BY <1>1, ParityIsBit
<1>3. \A r \in PauliOperators : /\ Parity(r, Phased(2, i.x)) = Parity(r, i.x)
                                /\ Parity(r, Phased(2, i.z)) = Parity(r, i.z)
    BY <1>1, <1>2, ParityIsBit
<1>4. new \in Pairs
    <2>1. Phased(2, i.x) \in Observables /\ Phased(2, i.z) \in Observables
        BY <1>1, OppositeIsObservable
    <2> QED BY <1>1, <2>1 DEF AfterPauli, Pairs
<1>5. Parity(new.x, new.z) = 1
    BY <1>1, <1>2, <1>3 DEF AfterPauli
<1>6. Within(new, i)
    BY <1>2 DEF Within, AfterPauli
<1> HIDE DEF new
<1> QED BY <1>4, <1>5, <1>6, OneWireChanges DEF new, i

LEMMA HChange ==
    ASSUME NEW images \in Images, NEW t \in Wires
    PROVE  [images EXCEPT ![t] = [x |-> images[t].z, z |-> images[t].x]] \in Images
<1> DEFINE new == [x |-> images[t].z, z |-> images[t].x]
<1>1. new \in Pairs /\ Parity(new.x, new.z) = 1
    BY ImagesOfWire DEF Pairs
<1>2. Within(new, images[t])
    BY DEF Within
<1> QED BY <1>1, <1>2, OneWireChanges

LEMMA SChange ==
    ASSUME NEW images \in Images, NEW t \in Wires, NEW k \in {0, 2}
    PROVE  [images EXCEPT ![t] = [x |-> Phased(k, YImage(images[t])), z |-> images[t].z]] \in Images
<1> DEFINE Y == YImage(images[t])
           new == [x |-> Phased(k, Y), z |-> images[t].z]
<1>1. /\ Y \in PauliOperators /\ Parity(Y, images[t].z) = 1 /\ images[t].z \in PauliOperators
      /\ Y \in Observables /\ images[t].z \in Observables
      /\ \A r \in PauliOperators :
           Parity(images[t].x, r) = 0 /\ Parity(images[t].z, r) = 0 => Parity(Y, r) = 0
    BY YImageIsPauli, ImagesOfWire
<1> HIDE DEF Y
<1>2. Phased(k, Y) \in PauliOperators /\ \A r \in PauliOperators : Parity(Phased(k, Y), r) = Parity(Y, r)
    BY <1>1, ParityIsBit
<1>3. new \in Pairs /\ Parity(new.x, new.z) = 1
    <2>1. Phased(k, Y) \in Observables
        BY <1>1, OppositeIsObservable
    <2> QED BY <1>1, <1>2, <2>1 DEF Pairs
<1>4. Within(new, images[t])
    BY <1>1, <1>2 DEF Within
<1> HIDE DEF new
<1> QED BY <1>3, <1>4, OneWireChanges DEF new, Y

LEMMA SwapChange ==
    ASSUME NEW images \in Images, NEW t \in Wires, NEW u \in Wires, t # u
    PROVE  [images EXCEPT ![t] = images[u], ![u] = images[t]] \in Images
<1> DEFINE i == images[u]
           j == images[t]
<1>1. /\ i \in Pairs /\ j \in Pairs /\ Parity(i.x, i.z) = 1 /\ Parity(j.x, j.z) = 1 /\ Apart(i, j)
    BY ImagesOfWire
<1>2. WithinBoth(i, j, i) /\ WithinBoth(j, j, i)
    BY DEF WithinBoth
<1> QED BY <1>1, <1>2, TwoWiresChange

\* The operator the gate is about: what anticommutes with it changes.
LEMMA AxisImage ==
    ASSUME NEW images \in Images, NEW t \in Wires, NEW axis \in {"x", "y", "z"}
    PROVE  LET P == ImageOf(images[t], axis)
           IN  /\ P \in PauliOperators /\ P \in Observables
               /\ Parity(P, images[t].x) = (IF axis = "x" THEN 0 ELSE 1)
               /\ Parity(P, images[t].z) = (IF axis = "z" THEN 0 ELSE 1)
               /\ \A r \in PauliOperators :
                    Parity(images[t].x, r) = 0 /\ Parity(images[t].z, r) = 0 => Parity(P, r) = 0
<1>1. /\ images[t].x \in PauliOperators /\ images[t].z \in PauliOperators
      /\ images[t].x \in Observables /\ images[t].z \in Observables
      /\ Parity(images[t].x, images[t].z) = 1 /\ Parity(images[t].z, images[t].x) = 1
      /\ Parity(images[t].x, images[t].x) = 0 /\ Parity(images[t].z, images[t].z) = 0
    BY ImagesOfWire, ParityIsBit
<1>2. CASE axis = "x"
    BY <1>1, <1>2 DEF ImageOf
<1>3. CASE axis = "z"
    BY <1>1, <1>3 DEF ImageOf
<1>4. CASE axis = "y"
    <2>1. ImageOf(images[t], axis) = YImage(images[t])
        BY <1>4 DEF ImageOf
    <2> QED BY <1>4, <2>1, YImageIsPauli
<1> QED BY <1>2, <1>3, <1>4

\* The definition with everything spelt out
LEMMA ControlledPauliChanges ==
    ASSUME NEW images \in Images, NEW c \in Wires, NEW t \in Wires, c # t, NEW axis
    PROVE  AfterControlledPauli(axis, images, c, t) =
             [images EXCEPT
                ![c] = [x |-> Times(images[c].x, ImageOf(images[t], axis)), z |-> images[c].z],
                ![t] = [x |-> IF axis = "x" THEN images[t].x ELSE Times(images[c].z, images[t].x),
                        z |-> IF axis = "z" THEN images[t].z ELSE Times(images[c].z, images[t].z)]]
<1>1. images \in [Wires -> Pairs] /\ images[c] \in Pairs
    BY ImagesOfWire
<1> QED BY <1>1 DEF AfterControlledPauli

LEMMA ControlledPauliChange ==
    ASSUME NEW images \in Images, NEW c \in Wires, NEW t \in Wires, c # t, NEW axis \in {"x", "y", "z"}
    PROVE  AfterControlledPauli(axis, images, c, t) \in Images
<1> DEFINE P == ImageOf(images[t], axis)
           xx == IF Parity(P, images[t].x) = 0 THEN images[t].x ELSE Times(images[c].z, images[t].x)
           zz == IF Parity(P, images[t].z) = 0 THEN images[t].z ELSE Times(images[c].z, images[t].z)
<1>1. /\ P \in Observables
      /\ Parity(P, images[t].x) = (IF axis = "x" THEN 0 ELSE 1)
      /\ Parity(P, images[t].z) = (IF axis = "z" THEN 0 ELSE 1)
      /\ \A r \in PauliOperators :
           Parity(images[t].x, r) = 0 /\ Parity(images[t].z, r) = 0 => Parity(P, r) = 0
    BY AxisImage
<1>2. /\ xx = IF axis = "x" THEN images[t].x ELSE Times(images[c].z, images[t].x)
      /\ zz = IF axis = "z" THEN images[t].z ELSE Times(images[c].z, images[t].z)
    <2> HIDE DEF P
    <2> QED BY <1>1
<1>3. [images EXCEPT ![c] = [x |-> Times(images[c].x, P), z |-> images[c].z],
                     ![t] = [x |-> xx, z |-> zz]] \in Images
    <2> HIDE DEF P
    <2> QED BY <1>1, ControlledChange
<1> HIDE DEF xx, zz
<1>4. AfterControlledPauli(axis, images, c, t) =
        [images EXCEPT ![c] = [x |-> Times(images[c].x, P), z |-> images[c].z],
                       ![t] = [x |-> xx, z |-> zz]]
    BY <1>2, ControlledPauliChanges
<1> QED BY <1>3, <1>4

\* Operations turn meanings into meanings.
LEMMA ApplyIsMeaning ==
    ASSUME NEW m \in Meanings, NEW op \in ProperOps
    PROVE  Apply(m, op) \in Meanings
<1> DEFINE t == op.tgts[1]
<1>1. m.images \in Images /\ \A new \in Images : Meant(new, m.events) \in Meanings
    BY MeaningParts
<1>2. /\ t \in Wires
      /\ Len(op.ctrls) = 0 <=> op.ctrls = <<>>
      /\ Len(op.ctrls) = 1 => op.ctrls[1] \in Wires /\ op.ctrls[1] # t
      /\ op.gate = "swap" => op.tgts[2] \in Wires /\ t # op.tgts[2]
    BY ProperTargets
<1>3. CASE IsPauliGate(op) /\ op.ctrls = <<>>
    <2>1. op.gate \in {"x", "y", "z"}
        BY <1>3 DEF IsPauliGate
    <2> QED BY <1>1, <1>2, <1>3, <2>1, ApplyPauli, PauliChange
<1>4. CASE IsPauliGate(op) /\ Len(op.ctrls) = 1
    <2>1. op.gate \in {"x", "y", "z"}
        BY <1>4 DEF IsPauliGate
    <2> QED BY <1>1, <1>2, <1>4, <2>1, ApplyControlledPauli, ControlledPauliChange
<1>5. CASE op.gate = "h" /\ op.ctrls = <<>>
    BY <1>1, <1>2, <1>5, ApplyH, HChange
<1>6. CASE op.gate = "s" /\ op.ctrls = <<>>
    <2> DEFINE k == IF op.adj THEN 0 ELSE 2
    <2>1. k \in {0, 2}
        OBVIOUS
    <2>2. Apply(m, op) = Meant([m.images EXCEPT
                          ![t] = [x |-> Phased(k, YImage(m.images[t])), z |-> m.images[t].z]], m.events)
        BY <1>6, ApplyS
    <2> HIDE DEF k
    <2> QED BY <1>1, <1>2, <2>1, <2>2, SChange
<1>7. CASE op.gate = "swap" /\ op.ctrls = <<>>
    BY <1>1, <1>2, <1>7, ApplySwap, SwapChange
<1>8. CASE NullRotation(op)
    BY <1>8, ApplyNull
<1>9. CASE ~ Moves(op) /\ ~ NullRotation(op)
    <2>1. Apply(m, op) = Meant(m.images, Append(m.events, Event(m.images, op)))
        BY <1>9, ApplyEvent
    <2>2. Event(m.images, op) \in Events /\ m.events \in Seq(Events)
        BY <1>1 DEF Events, Meanings
    <2>3. Append(m.events, Event(m.images, op)) \in Seq(Events)
        BY <2>2
    <2> QED BY <1>1, <2>1, <2>3 DEF Meanings, Meant
<1>10. Moves(op) => \/ IsPauliGate(op) /\ op.ctrls = <<>>
                    \/ IsPauliGate(op) /\ Len(op.ctrls) = 1
                    \/ op.gate \in {"h", "s", "swap"} /\ op.ctrls = <<>>
    BY <1>2 DEF Moves
<1> QED BY <1>3, <1>4, <1>5, <1>6, <1>7, <1>8, <1>9, <1>10

Start == Meant(Identity, <<>>)

LEMMA StartIsMeaning == Start \in Meanings
<1>1. \A w \in Wires : XOn(w) \in Observables /\ ZOn(w) \in Observables
    <2>1. \A w \in Wires : IsFiniteSet({w}) /\ {w} \in FiniteWires
        BY FS_Singleton DEF FiniteWires
    <2>2. {} \in FiniteWires
        BY FS_EmptySet DEF FiniteWires
    <2>3. \A w : Cardinality({} \cap {w}) = 0 /\ Cardinality({w} \cap {}) = 0
        <3>1. \A w : {} \cap {w} = {} /\ {w} \cap {} = {}
            OBVIOUS
        <3> QED BY <3>1, FS_EmptySet
    <2>4. \A w \in Wires : XOn(w) \in PauliOperators /\ ZOn(w) \in PauliOperators
        BY <2>1, <2>2 DEF XOn, ZOn, Pauli, PauliOperators
    <2>5. (0 + 0) % 2 = 0
        OBVIOUS
    <2>6. \A w : IsOwnInverse(XOn(w)) /\ IsOwnInverse(ZOn(w))
        BY <2>3, <2>5 DEF XOn, ZOn, Pauli, IsOwnInverse
    <2> QED BY <2>4, <2>6 DEF Observables
<1>2. \A A : Cardinality(A \cap {}) = 0 /\ Cardinality({} \cap A) = 0
    <2>1. \A A : A \cap {} = {} /\ {} \cap A = {}
        OBVIOUS
    <2> QED BY <2>1, FS_EmptySet
<1>3. ASSUME NEW v \in Wires, NEW w \in Wires
      PROVE  /\ Parity(XOn(v), XOn(w)) = 0 /\ Parity(ZOn(v), ZOn(w)) = 0
             /\ v = w => Parity(XOn(v), ZOn(w)) = 1
             /\ v # w => Parity(XOn(v), ZOn(w)) = 0 /\ Parity(ZOn(v), XOn(w)) = 0
    <2>1. 0 % 2 = 0 /\ 1 % 2 = 1
        OBVIOUS
    <2>2. v = w => Cardinality({v} \cap {w}) = 1
        <3>1. {v} \cap {v} = {v}
            OBVIOUS
        <3> QED BY <3>1, FS_Singleton
    <2>3. v # w => Cardinality({v} \cap {w}) = 0
        <3>1. v # w => {v} \cap {w} = {}
            OBVIOUS
        <3> QED BY <3>1, FS_EmptySet
    <2> QED BY <1>2, <2>1, <2>2, <2>3 DEF Parity, XOn, ZOn, Pauli
<1>4. Identity \in Images
    <2>1. Identity \in [Wires -> Pairs]
        BY <1>1 DEF Identity, Pairs
    <2>2. \A v \in Wires : Identity[v].x = XOn(v) /\ Identity[v].z = ZOn(v)
        BY DEF Identity
    <2> QED BY <1>3, <2>1, <2>2 DEF Images, Apart
<1> QED BY <1>4 DEF Start, Meant, Meanings

-----------------------------------------------------------------------------
(* Meanings that differ in the order of independent events only *)

SameOrder(es, fs) ==
    \A e, f : e = f \/ ~ Independent(e, f) => Among(es, {e, f}) = Among(fs, {e, f})

Same(m, n) == m.images = n.images /\ SameOrder(m.events, n.events)

LEMMA SameIsEquivalence ==
    /\ \A m : Same(m, m)
    /\ \A m, n : Same(m, n) => Same(n, m) /\ SameMeaning(m, n)
    /\ \A k, m, n : Same(k, m) /\ Same(m, n) => Same(k, n)
<1>1. \A m : Same(m, m)
    BY DEF Same, SameOrder
<1>2. ASSUME NEW m, NEW n, Same(m, n) PROVE Same(n, m) /\ SameMeaning(m, n)
    BY <1>2 DEF Same, SameOrder, SameMeaning, SameEvents
<1>3. ASSUME NEW k, NEW m, NEW n, Same(k, m), Same(m, n) PROVE Same(k, n)
    <2>1. k.images = n.images
        BY <1>3 DEF Same
    <2>2. SameOrder(k.events, n.events)
        BY <1>3 DEF Same, SameOrder
    <2> QED BY <2>1, <2>2 DEF Same
<1> QED BY <1>1, <1>2, <1>3

LEMMA OneMoreEvent ==
    ASSUME NEW es \in Seq(Events), NEW fs \in Seq(Events), SameOrder(es, fs), NEW g \in Events
    PROVE  SameOrder(Append(es, g), Append(fs, g))
<1> SUFFICES ASSUME NEW e, NEW f, e = f \/ ~ Independent(e, f)
             PROVE  Among(Append(es, g), {e, f}) = Among(Append(fs, g), {e, f})
    BY DEF SameOrder
<1> DEFINE S == {e, f}
<1>1. Among(es, S) = Among(fs, S)
    BY DEF SameOrder
<1> HIDE DEF S
<1>2. /\ Among(Append(es, g), S) = IF g \in S THEN Append(Among(es, S), g) ELSE Among(es, S)
      /\ Among(Append(fs, g), S) = IF g \in S THEN Append(Among(fs, S), g) ELSE Among(fs, S)
    BY AmongOneMore
<1>3. Among(Append(es, g), S) = Among(Append(fs, g), S)
    BY <1>1, <1>2
<1> QED BY <1>3 DEF S

LEMMA TwoEventsTrade ==
    ASSUME NEW es \in Seq(Events), NEW g \in Events, NEW h \in Events,
           Independent(g, h), Independent(h, g)
    PROVE  SameOrder(Append(Append(es, g), h), Append(Append(es, h), g))
<1> SUFFICES ASSUME NEW e, NEW f, e = f \/ ~ Independent(e, f)
             PROVE  Among(Append(Append(es, g), h), {e, f}) = Among(Append(Append(es, h), g), {e, f})
    BY DEF SameOrder
<1> DEFINE S == {e, f}
<1>1. g \in S /\ h \in S => g = h
    BY DEF S
<1> HIDE DEF S
<1>2. Append(es, g) \in Seq(Events) /\ Append(es, h) \in Seq(Events)
    OBVIOUS
<1>3. /\ Among(Append(es, g), S) = IF g \in S THEN Append(Among(es, S), g) ELSE Among(es, S)
      /\ Among(Append(es, h), S) = IF h \in S THEN Append(Among(es, S), h) ELSE Among(es, S)
    BY AmongOneMore
<1>4. /\ Among(Append(Append(es, g), h), S)
           = IF h \in S THEN Append(Among(Append(es, g), S), h) ELSE Among(Append(es, g), S)
      /\ Among(Append(Append(es, h), g), S)
           = IF g \in S THEN Append(Among(Append(es, h), S), g) ELSE Among(Append(es, h), S)
    BY <1>2, AmongOneMore
<1>5. Among(Append(Append(es, g), h), S) = Among(Append(Append(es, h), g), S)
    <2> DEFINE A == Among(es, S)
    <2> HIDE DEF A
    <2>1. CASE g \in S /\ h \in S
        <3>1. g = h
            BY <1>1, <2>1
        <3> QED BY <3>1
    <2>2. CASE g \in S /\ h \notin S
        BY <1>3, <1>4, <2>2
    <2>3. CASE g \notin S /\ h \in S
        BY <1>3, <1>4, <2>3
    <2>4. CASE g \notin S /\ h \notin S
        BY <1>3, <1>4, <2>4
    <2> QED BY <2>1, <2>2, <2>3, <2>4
<1> QED BY <1>5 DEF S

\* The gates that are no events make the same of the same images.
LEMMA GatesOnImages ==
    ASSUME NEW m \in Meanings, NEW n \in Meanings, m.images = n.images,
           NEW op \in ProperOps, Moves(op) \/ NullRotation(op)
    PROVE  /\ Apply(m, op).images = Apply(n, op).images
           /\ Apply(m, op).events = m.events /\ Apply(n, op).events = n.events
<1> DEFINE t == op.tgts[1]
<1>1. \A i, e : Meant(i, e).images = i /\ Meant(i, e).events = e
    BY DEF Meant
<1>2. Len(op.ctrls) = 0 <=> op.ctrls = <<>>
    BY ProperTargets
<1>3. CASE IsPauliGate(op) /\ op.ctrls = <<>>
    <2>1. /\ Apply(m, op) = Meant([m.images EXCEPT ![t] = AfterPauli(op.gate, m.images[t])], m.events)
          /\ Apply(n, op) = Meant([n.images EXCEPT ![t] = AfterPauli(op.gate, n.images[t])], n.events)
        BY <1>3, ApplyPauli
    <2> QED BY <1>1, <2>1
<1>4. CASE IsPauliGate(op) /\ Len(op.ctrls) = 1
    <2>1. Apply(m, op) = Meant(AfterControlledPauli(op.gate, m.images, op.ctrls[1], t), m.events)
        BY <1>4, ApplyControlledPauli
    <2>2. Apply(n, op) = Meant(AfterControlledPauli(op.gate, n.images, op.ctrls[1], t), n.events)
        BY <1>4, ApplyControlledPauli
    <2> QED BY <1>1, <2>1, <2>2
<1>5. CASE op.gate = "h" /\ op.ctrls = <<>>
    <2>1. /\ Apply(m, op) = Meant([m.images EXCEPT ![t] = [x |-> m.images[t].z, z |-> m.images[t].x]], m.events)
          /\ Apply(n, op) = Meant([n.images EXCEPT ![t] = [x |-> n.images[t].z, z |-> n.images[t].x]], n.events)
        BY <1>5, ApplyH
    <2> QED BY <1>1, <2>1
<1>6. CASE op.gate = "s" /\ op.ctrls = <<>>
    <2> DEFINE New(i) == [x |-> Phased(IF op.adj THEN 0 ELSE 2, YImage(i)), z |-> i.z]
    <2>1. /\ Apply(m, op) = Meant([m.images EXCEPT ![t] = New(m.images[t])], m.events)
          /\ Apply(n, op) = Meant([n.images EXCEPT ![t] = New(n.images[t])], n.events)
        BY <1>6, ApplyS
    <2> HIDE DEF New
    <2> QED BY <1>1, <2>1
<1>7. CASE op.gate = "swap" /\ op.ctrls = <<>>
    <2>1. /\ Apply(m, op) = Meant([m.images EXCEPT ![t] = m.images[op.tgts[2]], ![op.tgts[2]] = m.images[t]], m.events)
          /\ Apply(n, op) = Meant([n.images EXCEPT ![t] = n.images[op.tgts[2]], ![op.tgts[2]] = n.images[t]], n.events)
        BY <1>7, ApplySwap
    <2> QED BY <1>1, <2>1
<1>8. CASE NullRotation(op)
    BY <1>8, ApplyNull
<1> QED BY <1>2, <1>3, <1>4, <1>5, <1>6, <1>7, <1>8 DEF Moves

\* Whatever follows, meanings that are the same stay the same.
LEMMA SameApply ==
    ASSUME NEW m \in Meanings, NEW n \in Meanings, Same(m, n), NEW op \in ProperOps
    PROVE  Same(Apply(m, op), Apply(n, op))
<1>1. m.images = n.images /\ SameOrder(m.events, n.events)
    BY DEF Same
<1>2. CASE Moves(op) \/ NullRotation(op)
    <2>1. /\ Apply(m, op).images = Apply(n, op).images
          /\ Apply(m, op).events = m.events /\ Apply(n, op).events = n.events
        BY <1>1, <1>2, GatesOnImages
    <2> QED BY <1>1, <2>1 DEF Same
<1>3. CASE ~ Moves(op) /\ ~ NullRotation(op)
    <2> DEFINE e == Event(m.images, op)
    <2>1. /\ Apply(m, op) = Meant(m.images, Append(m.events, e))
          /\ Apply(n, op) = Meant(n.images, Append(n.events, e))
        BY <1>1, <1>3, ApplyEvent
    <2>2. e \in Events /\ m.events \in Seq(Events) /\ n.events \in Seq(Events)
        BY DEF Events, Meanings
    <2> HIDE DEF e
    <2>3. SameOrder(Append(m.events, e), Append(n.events, e))
        BY <1>1, <2>2, OneMoreEvent
    <2> QED BY <1>1, <2>1, <2>3 DEF Same, Meant
<1> QED BY <1>2, <1>3
-----------------------------------------------------------------------------
(* The meaning of a circuit, operation by operation *)

\* A function that follows the meaning through the circuit
Follows(g, c) == g[0] = Start /\ \A k \in 1 .. Len(c) : g[k] = Apply(g[k - 1], c[k])

LEMMA GreatestOfSubset ==
    ASSUME NEW n \in Nat, NEW s \in SUBSET (1 .. n), s # {}
    PROVE  Max(s) \in s /\ \A t \in s : Max(s) >= t
<1>1. \E x \in s : \A y \in s : x >= y
    <2>1. s \in SUBSET (0 .. n) /\ s # {}
        OBVIOUS
    <2>2. \E x \in s : \A y \in s : y <= x
        BY <2>1, LastExists
    <2>3. \A x, y \in s : y <= x => x >= y
        BY <2>1
    <2> QED BY <2>2, <2>3
<1> QED BY <1>1 DEF Max

LEMMA GreatestOfInterval ==
    ASSUME NEW n \in Nat, NEW k \in 1 .. n
    PROVE  Max(1 .. k) = k /\ (1 .. k) \ {k} = 1 .. k - 1 /\ 1 .. k \in SUBSET (1 .. n) /\ 1 .. k # {}
<1>1. 1 .. k \in SUBSET (1 .. n) /\ k \in 1 .. k /\ 1 .. k # {}
    OBVIOUS
<1>2. Max(1 .. k) \in 1 .. k /\ \A t \in 1 .. k : Max(1 .. k) >= t
    BY <1>1, GreatestOfSubset
<1>3. Max(1 .. k) = k
    <2> DEFINE x == Max(1 .. k)
    <2> HIDE DEF x
    <2>1. x \in 1 .. k /\ x >= k
        BY <1>1, <1>2 DEF x
    <2>2. x = k
        BY <2>1
    <2> QED BY <2>2 DEF x
<1> QED BY <1>1, <1>3

LEMMA MeaningStepByStep ==
    ASSUME NEW c \in Seq(ProperOps)
    PROVE  \E g \in [0 .. Len(c) -> Meanings] : Follows(g, c) /\ Meaning(c) = g[Len(c)]
<1> DEFINE n == Len(c)
           S == DOMAIN c
           E(g) == [s \in SUBSET S |->
                      IF s = {} THEN [images |-> Identity, events |-> <<>>]
                      ELSE LET x == Max(s) IN Apply(g[s \ {x}], c[x])]
           G == CHOOSE g : g = E(g)
           last == [s \in SUBSET S |-> Max(s)]
           step == [k \in S |-> [m \in Meanings |-> Apply(m, c[k])]]
<1>1. Meaning(c) = G[S]
    BY DEF Meaning, FoldLeft, MapThenFoldSet
<1>2. S = 1 .. n /\ n \in Nat /\ \A k \in S : c[k] \in ProperOps
    OBVIOUS
<1>3. IsFiniteSet(S)
    BY <1>2, FS_Interval
<1>4. step \in [S -> [Meanings -> Meanings]]
    BY <1>2, ApplyIsMeaning
<1>5. \A k \in S, m \in Meanings : step[k][m] = Apply(m, c[k])
    OBVIOUS
<1>6. \A s \in SUBSET S : s # {} => last[s] \in s /\ last[s] = Max(s) /\ Max(s) \in S
    <2>1. \A s \in SUBSET S : s # {} => Max(s) \in s
        BY <1>2, GreatestOfSubset
    <2> QED BY <2>1
<1> HIDE DEF step, last, n
<1>7. \E g : g = E(g)
    <2>1. PICK g \in [SUBSET S -> Meanings] : FoldsUp(g, S, Start, step, last)
        BY <1>3, <1>4, <1>6, StartIsMeaning, FoldExists
    <2>2. ASSUME NEW s \in SUBSET S PROVE g[s] = E(g)[s]
        <3>1. CASE s = {}
            BY <2>1, <3>1 DEF FoldsUp, Start, Meant
        <3>2. CASE s # {}
            <4>1. last[s] = Max(s) /\ Max(s) \in S /\ s \ {Max(s)} \in SUBSET S
                BY <1>6, <3>2
            <4>2. g[s] = step[Max(s)][g[s \ {Max(s)}]]
                BY <2>1, <3>2, <4>1 DEF FoldsUp
            <4>3. g[s \ {Max(s)}] \in Meanings
                BY <2>1, <4>1
            <4>4. g[s] = Apply(g[s \ {Max(s)}], c[Max(s)])
                BY <1>5, <4>1, <4>2, <4>3
            <4> QED BY <3>2, <4>4
        <3> QED BY <3>1, <3>2
    <2>3. g = [s \in SUBSET S |-> g[s]] /\ E(g) = [s \in SUBSET S |-> E(g)[s]]
        BY <2>1
    <2> HIDE DEF E
    <2>4. g = E(g)
        BY <2>2, <2>3
    <2> QED BY <2>4
<1>8. G = E(G)
    <2> HIDE DEF E
    <2> QED BY <1>7
<1>9. /\ G[{}] = Start
      /\ \A s \in SUBSET S : s # {} => G[s] = Apply(G[s \ {Max(s)}], c[Max(s)])
    <2>1. /\ E(G)[{}] = Start
          /\ \A s \in SUBSET S : s # {} => E(G)[s] = Apply(G[s \ {Max(s)}], c[Max(s)])
        <3> HIDE DEF G
        <3> QED BY DEF Start, Meant
    <2> HIDE DEF G, E
    <2> QED BY <1>8, <2>1
<1> HIDE DEF G, E
<1> DEFINE h == [k \in 0 .. n |-> G[1 .. k]]
<1>10. h[0] = Start
    <2>1. 1 .. 0 = {} /\ 0 \in 0 .. n
        BY <1>2
    <2> QED BY <1>9, <2>1
<1>11. ASSUME NEW k \in 1 .. n PROVE h[k] = Apply(h[k - 1], c[k])
    <2>1. /\ Max(1 .. k) = k /\ (1 .. k) \ {k} = 1 .. k - 1
          /\ 1 .. k \in SUBSET S /\ 1 .. k # {}
        BY <1>2, GreatestOfInterval
    <2>2. k \in 0 .. n /\ k - 1 \in 0 .. n
        BY <1>2
    <2> QED BY <1>9, <2>1, <2>2
<1>12. \A k \in 0 .. n : h[k] \in Meanings
    <2> DEFINE K == {k \in 0 .. n : h[k] \in Meanings}
    <2> HIDE DEF h
    <2>1. 0 \in K
        BY <1>2, <1>10, StartIsMeaning
    <2>2. ASSUME NEW k \in 1 .. n, k - 1 \in K PROVE k \in K
        <3>1. k \in 0 .. n /\ c[k] \in ProperOps
            BY <1>2
        <3> QED BY <1>11, <2>2, <3>1, ApplyIsMeaning
    <2> HIDE DEF K
    <2>3. \A k \in 0 .. n : k \in K
        BY <1>2, <2>1, <2>2, StepByStep
    <2> QED BY <2>3 DEF K
<1>13. h[n] = G[S]
    BY <1>2
<1>14. h \in [0 .. n -> Meanings]
    <2>1. h = [k \in 0 .. n |-> h[k]]
        OBVIOUS
    <2> HIDE DEF h
    <2> QED BY <1>12, <2>1
<1>15. Follows(h, c)
    <2> HIDE DEF h
    <2> QED BY <1>10, <1>11 DEF Follows, n
<1> HIDE DEF h
<1> QED BY <1>1, <1>13, <1>14, <1>15 DEF n

LEMMA MeaningNone == Meaning(<<>>) = Start
<1>1. <<>> \in Seq(ProperOps) /\ Len(<<>>) = 0
    OBVIOUS
<1> DEFINE none == <<>>
<1> HIDE DEF none
<1>2. none \in Seq(ProperOps) /\ Len(none) = 0
    BY <1>1 DEF none
<1>3. Meaning(none) = Start
    BY <1>2, MeaningStepByStep DEF Follows
<1> QED BY <1>3 DEF none

LEMMA MeaningOneMore ==
    ASSUME NEW c \in Seq(ProperOps), NEW op \in ProperOps
    PROVE  Meaning(Append(c, op)) = Apply(Meaning(c), op)
<1> DEFINE n == Len(c)
           d == Append(c, op)
<1>1. /\ d \in Seq(ProperOps) /\ Len(d) = n + 1 /\ n \in Nat
      /\ d[n + 1] = op /\ \A k \in 1 .. n : d[k] = c[k]
    OBVIOUS
<1> HIDE DEF n, d
<1>2. PICK g \in [0 .. n -> Meanings] : Follows(g, c) /\ Meaning(c) = g[n]
    BY MeaningStepByStep DEF n
<1>3. PICK h \in [0 .. n + 1 -> Meanings] : Follows(h, d) /\ Meaning(d) = h[n + 1]
    <2>1. \E h \in [0 .. Len(d) -> Meanings] : Follows(h, d) /\ Meaning(d) = h[Len(d)]
        BY <1>1, MeaningStepByStep
    <2> QED BY <1>1, <2>1
<1>4. GoAlike(g, h, n)
    <2>1. g[0] = h[0]
        BY <1>2, <1>3 DEF Follows
    <2>2. ASSUME NEW k \in 1 .. n, g[k - 1] = h[k - 1] PROVE g[k] = h[k]
        <3>1. k \in 1 .. n + 1 /\ d[k] = c[k]
            BY <1>1
        <3>2. g[k] = Apply(g[k - 1], c[k])
            BY <1>2 DEF Follows, n
        <3>3. h[k] = Apply(h[k - 1], d[k])
            BY <1>1, <1>3, <3>1 DEF Follows
        <3> QED BY <2>2, <3>1, <3>2, <3>3
    <2> QED BY <2>1, <2>2 DEF GoAlike
<1>5. g[n] = h[n]
    <2>1. Alike(g, h, n)
        BY <1>1, <1>4, SameIteration
    <2> QED BY <1>1, <2>1, OneUp DEF Alike
<1>6. h[n + 1] = Apply(h[n], op)
    <2>1. n + 1 \in 1 .. n + 1 /\ (n + 1) - 1 = n
        BY <1>1, OneUp
    <2> QED BY <1>1, <1>3, <2>1 DEF Follows
<1> QED BY <1>2, <1>3, <1>5, <1>6 DEF d

-----------------------------------------------------------------------------
(* The meaning of a block, place by place *)

ProperBlock == [Places -> ProperOps \cup {NoOp}]
BeforeFirst == Width - 1
LastPlace == MaxOps * Width + Width - 1

\* An empty place does nothing.
After(m, op) == IF op = NoOp THEN m ELSE Apply(m, op)

Runs(g, b) ==
    /\ g \in [BeforeFirst .. LastPlace -> Meanings]
    /\ g[BeforeFirst] = Start
    /\ \A s \in Places : g[s] = After(g[s - 1], b[s])

LEMMA AllPlaces ==
    /\ BeforeFirst \in Nat /\ LastPlace \in Nat /\ BeforeFirst = 5 /\ LastPlace >= 11
    /\ Places = BeforeFirst + 1 .. LastPlace
    /\ MaxOps * Width \in Nat /\ LastPlace = (MaxOps * Width) + 5
BY QuakeOpsAssumption DEF Places, BeforeFirst, LastPlace, Width

LEMMA NoOpIsNoOp == NoOp \notin Op /\ NoOp \notin ProperOps
<1>1. NoOp \notin Op
    <2>1. NoOp.gate = "none"
        BY DEF NoOp
    <2>2. "none" \notin Gates \cup NonGates
        BY DEF Gates, NonGates
    <2>3. \A op \in Op : op.gate \in Gates \cup NonGates
        BY DEF Op
    <2> QED BY <2>1, <2>2, <2>3
<1> QED BY <1>1 DEF ProperOps

\* From one number to a later one
LEMMA FromTo ==
    ASSUME NEW lo \in Nat, NEW hi \in Nat, NEW S, lo \in S,
           \A s \in lo + 1 .. hi : s - 1 \in S => s \in S
    PROVE  \A s \in lo .. hi : s \in S
<1> SUFFICES ASSUME lo <= hi PROVE \A s \in lo .. hi : s \in S
    OBVIOUS
<1> DEFINE n == hi - lo
           T == {k \in 0 .. n : lo + k \in S}
<1>1. n \in Nat /\ 0 \in T
    OBVIOUS
<1>2. ASSUME NEW k \in 1 .. n, k - 1 \in T PROVE k \in T
    <2>1. lo + k \in lo + 1 .. hi /\ (lo + k) - 1 = lo + (k - 1) /\ k \in 0 .. n
        OBVIOUS
    <2>2. lo + (k - 1) \in S
        BY <1>2
    <2> QED BY <2>1, <2>2
<1>3. \A k \in 0 .. n : k \in T
    <2> HIDE DEF T, n
    <2> QED BY <1>1, <1>2, StepByStep
<1>4. ASSUME NEW s \in lo .. hi PROVE s \in S
    <2>1. s - lo \in 0 .. n /\ lo + (s - lo) = s
        OBVIOUS
    <2> QED BY <1>3, <2>1
<1> QED BY <1>4

LEMMA MeaningIsMeaning ==
    ASSUME NEW c \in Seq(ProperOps)
    PROVE  Meaning(c) \in Meanings
<1>1. PICK g \in [0 .. Len(c) -> Meanings] : Meaning(c) = g[Len(c)]
    BY MeaningStepByStep
<1>2. Len(c) \in 0 .. Len(c)
    OBVIOUS
<1> QED BY <1>1, <1>2

\* The sequence of the operations goes through the places.
Gathers(f, b) ==
    /\ f \in [BeforeFirst .. LastPlace -> Seq(Op)]
    /\ f[BeforeFirst] = <<>>
    /\ \A s \in Places : f[s] = IF b[s] \in Op THEN Append(f[s - 1], b[s]) ELSE f[s - 1]

LEMMA CircuitPlaceByPlace ==
    ASSUME NEW b \in Block
    PROVE  \E f : Gathers(f, b) /\ Circuit(b) = f[LastPlace]
<1> DEFINE N == MaxOps * Width
           T == Op \cup {NoOp}
           q == [i \in 1 .. N |-> b[i + Width - 1]]
<1>1. N \in Nat
    BY AllPlaces
<1>2. \A i \in 1 .. N : i + 5 \in Places /\ q[i] = b[i + 5] /\ q[i] \in T
    BY <1>1, AllPlaces DEF Block, Width
<1>3. q \in Seq(T) /\ Len(q) = N
    BY <1>1, <1>2
<1> HIDE DEF T
<1>4. PICK g \in [0 .. N -> Seq(T)] : Selects(g, N, q, Op) /\ Among(q, Op) = g[N]
    <2> HIDE DEF q, N
    <2>1. \E g \in [0 .. Len(q) -> Seq(T)] : Selects(g, Len(q), q, Op) /\ Among(q, Op) = g[Len(q)]
        BY <1>3, AmongStepByStep
    <2> QED BY <1>3, <2>1
<1>5. \A k \in 0 .. N : g[k] \in Seq(Op)
    <2> DEFINE K == {k \in 0 .. N : g[k] \in Seq(Op)}
    <2> HIDE DEF q, N
    <2>1. 0 \in K
        BY <1>1, <1>4 DEF Selects
    <2>2. ASSUME NEW k \in 1 .. N, k - 1 \in K PROVE k \in K
        <3>1. g[k] = IF q[k] \in Op THEN Append(g[k - 1], q[k]) ELSE g[k - 1]
            BY <1>4 DEF Selects
        <3>2. \A r \in Seq(Op), x \in Op : Append(r, x) \in Seq(Op)
            OBVIOUS
        <3>3. k \in 0 .. N
            BY <1>1
        <3> QED BY <2>2, <3>1, <3>2, <3>3
    <2> HIDE DEF K
    <2>3. \A k \in 0 .. N : k \in K
        BY <1>1, <2>1, <2>2, StepByStep
    <2> QED BY <2>3 DEF K
<1> DEFINE f == [s \in BeforeFirst .. LastPlace |-> g[s - 5]]
<1>6. \A s \in BeforeFirst .. LastPlace : s - 5 \in 0 .. N /\ f[s] = g[s - 5]
    BY <1>1, AllPlaces
<1>7. f \in [BeforeFirst .. LastPlace -> Seq(Op)]
    BY <1>5, <1>6
<1>8. f[BeforeFirst] = <<>>
    <2>1. BeforeFirst \in BeforeFirst .. LastPlace /\ BeforeFirst - 5 = 0
        BY AllPlaces
    <2>2. g[0] = <<>>
        BY <1>4 DEF Selects
    <2> QED BY <1>6, <2>1, <2>2
<1>9. ASSUME NEW s \in Places
      PROVE  f[s] = IF b[s] \in Op THEN Append(f[s - 1], b[s]) ELSE f[s - 1]
    <2>1. /\ s - 5 \in 1 .. N /\ (s - 5) + 5 = s /\ (s - 1) - 5 = (s - 5) - 1
          /\ s \in BeforeFirst .. LastPlace /\ s - 1 \in BeforeFirst .. LastPlace
        BY <1>1, AllPlaces
    <2>2. q[s - 5] = b[s]
        BY <1>2, <2>1
    <2>3. g[s - 5] = IF q[s - 5] \in Op THEN Append(g[(s - 5) - 1], q[s - 5]) ELSE g[(s - 5) - 1]
        <3> HIDE DEF q
        <3> QED BY <1>4, <2>1 DEF Selects
    <2>4. f[s] = g[s - 5] /\ f[s - 1] = g[(s - 5) - 1]
        BY <1>6, <2>1
    <2> HIDE DEF f, q
    <2> QED BY <2>2, <2>3, <2>4
<1>10. f[LastPlace] = g[N]
    <2>1. LastPlace \in BeforeFirst .. LastPlace /\ LastPlace - 5 = N
        BY <1>1, AllPlaces
    <2> QED BY <1>6, <2>1
<1>11. Circuit(b) = g[N]
    BY <1>4 DEF Circuit
<1> HIDE DEF f
<1>12. Gathers(f, b)
    BY <1>7, <1>8, <1>9 DEF Gathers
<1> QED BY <1>10, <1>11, <1>12

LEMMA RunOfBlock ==
    ASSUME NEW b \in ProperBlock
    PROVE  /\ Circuit(b) \in Seq(ProperOps)
           /\ \E g : Runs(g, b) /\ Meaning(Circuit(b)) = g[LastPlace]
<1>1. b \in Block
    BY DEF ProperBlock, Block, ProperOps
<1>2. PICK f : Gathers(f, b) /\ Circuit(b) = f[LastPlace]
    BY <1>1, CircuitPlaceByPlace
<1>3. \A s \in BeforeFirst .. LastPlace : f[s] \in Seq(ProperOps)
    <2> DEFINE K == {s \in BeforeFirst .. LastPlace : f[s] \in Seq(ProperOps)}
    <2>1. BeforeFirst \in K
        BY <1>2, AllPlaces, SMTT(30) DEF Gathers
    <2>2. ASSUME NEW s \in BeforeFirst + 1 .. LastPlace, s - 1 \in K PROVE s \in K
        <3>1. s \in Places /\ s \in BeforeFirst .. LastPlace
            BY AllPlaces
        <3>2. f[s] = IF b[s] \in Op THEN Append(f[s - 1], b[s]) ELSE f[s - 1]
            BY <1>2, <3>1 DEF Gathers
        <3>3. b[s] \in Op => b[s] \in ProperOps
            BY <3>1, NoOpIsNoOp DEF ProperBlock
        <3>4. \A r \in Seq(ProperOps), x \in ProperOps : Append(r, x) \in Seq(ProperOps)
            OBVIOUS
        <3> QED BY <2>2, <3>1, <3>2, <3>3, <3>4
    <2> HIDE DEF K
    <2>3. \A s \in BeforeFirst .. LastPlace : s \in K
        <3>1. BeforeFirst \in Nat /\ LastPlace \in Nat
            BY AllPlaces
        <3> QED BY <2>1, <2>2, <3>1, FromTo
    <2> QED BY <2>3 DEF K
<1> DEFINE g == [s \in BeforeFirst .. LastPlace |-> Meaning(f[s])]
<1>4. g \in [BeforeFirst .. LastPlace -> Meanings]
    BY <1>3, MeaningIsMeaning
<1>5. \A s \in BeforeFirst .. LastPlace : g[s] = Meaning(f[s])
    OBVIOUS
<1>6. BeforeFirst \in BeforeFirst .. LastPlace /\ LastPlace \in BeforeFirst .. LastPlace
    BY AllPlaces
<1> HIDE DEF g
<1>7. g[BeforeFirst] = Start
    BY <1>2, <1>5, <1>6, MeaningNone DEF Gathers
<1>8. ASSUME NEW s \in Places PROVE g[s] = After(g[s - 1], b[s])
    <2>1. s \in BeforeFirst .. LastPlace /\ s - 1 \in BeforeFirst .. LastPlace
        BY AllPlaces
    <2>2. f[s] = IF b[s] \in Op THEN Append(f[s - 1], b[s]) ELSE f[s - 1]
        BY <1>2 DEF Gathers
    <2>3. g[s] = Meaning(f[s]) /\ g[s - 1] = Meaning(f[s - 1])
        BY <1>5, <2>1
    <2>4. CASE b[s] = NoOp
        BY <2>2, <2>3, <2>4, NoOpIsNoOp DEF After
    <2>5. CASE b[s] # NoOp
        <3>1. b[s] \in ProperOps /\ b[s] \in Op
            BY <2>5 DEF ProperBlock, ProperOps
        <3>2. f[s - 1] \in Seq(ProperOps)
            BY <1>3, <2>1
        <3>3. Meaning(Append(f[s - 1], b[s])) = Apply(Meaning(f[s - 1]), b[s])
            BY <3>1, <3>2, MeaningOneMore
        <3> QED BY <2>2, <2>3, <2>5, <3>1, <3>3 DEF After
    <2> QED BY <2>4, <2>5
<1>9. Runs(g, b)
    BY <1>4, <1>7, <1>8 DEF Runs
<1>10. Meaning(Circuit(b)) = g[LastPlace] /\ Circuit(b) \in Seq(ProperOps)
    BY <1>2, <1>3, <1>5, <1>6
<1> QED BY <1>9, <1>10

\* A circuit that is loaded is read back.
LEMMA LoadedCircuit ==
    ASSUME NEW c \in Seq(Op), Len(c) <= MaxOps
    PROVE  Circuit(Load(c)) = c
<1> DEFINE b == Load(c)
           n == Len(c)
           Read(s) == IF s \div 6 <= n THEN s \div 6 ELSE n
<1>1. b \in Block /\ n \in Nat /\ n <= MaxOps /\ MaxOps \in Nat
    BY LoadIsBlock, QuakeOpsAssumption
<1>2. \A s \in Places :
        b[s] = IF s % 6 = 0 /\ s \div 6 <= n THEN c[s \div 6] ELSE NoOp
    BY DEF Load, IsHome, Width
<1> HIDE DEF b
<1>3. PICK f : Gathers(f, b) /\ Circuit(b) = f[LastPlace]
    BY <1>1, CircuitPlaceByPlace
<1> DEFINE K == {s \in BeforeFirst .. LastPlace : f[s] = First(c, Read(s))}
<1> HIDE DEF n
<1>4. BeforeFirst \in K
    <2>1. BeforeFirst \in BeforeFirst .. LastPlace /\ BeforeFirst \div 6 = 0
        BY AllPlaces
    <2>2. Read(BeforeFirst) = 0
        BY <1>1, <2>1
    <2>3. f[BeforeFirst] = <<>>
        BY <1>3 DEF Gathers
    <2>4. First(c, 0) = <<>>
        BY FirstNone
    <2> HIDE DEF Read
    <2> QED BY <2>1, <2>2, <2>3, <2>4
<1>5. ASSUME NEW s \in BeforeFirst + 1 .. LastPlace, s - 1 \in K PROVE s \in K
    <2>1. s \in Places /\ s \in BeforeFirst .. LastPlace /\ s \in Nat /\ s >= 6
        BY AllPlaces
    <2>2. f[s] = IF b[s] \in Op THEN Append(f[s - 1], b[s]) ELSE f[s - 1]
        BY <1>3, <2>1 DEF Gathers
    <2>3. f[s - 1] = First(c, Read(s - 1))
        BY <1>5
    <2>4. CASE s % 6 = 0 /\ s \div 6 <= n
        <3>1. s \div 6 \in 1 .. n /\ Read(s) = s \div 6 /\ Read(s - 1) = (s \div 6) - 1
            <4>1. (s - 1) \div 6 = (s \div 6) - 1 /\ s \div 6 \in Nat /\ s \div 6 >= 1
                BY <2>1, <2>4
            <4> QED BY <1>1, <2>4, <4>1
        <3>2. b[s] = c[s \div 6] /\ c[s \div 6] \in Op
            BY <1>2, <2>1, <2>4, <3>1 DEF n
        <3>3. First(c, s \div 6) = Append(First(c, (s \div 6) - 1), c[s \div 6])
            BY <3>1, FirstOneMore DEF n
        <3> HIDE DEF Read
        <3> QED BY <2>1, <2>2, <2>3, <3>1, <3>2, <3>3
    <2>5. CASE ~ (s % 6 = 0 /\ s \div 6 <= n)
        <3>1. Read(s) = Read(s - 1)
            <4>1. CASE s % 6 # 0
                <5>1. (s - 1) \div 6 = s \div 6
                    BY <2>1, <4>1
                <5> QED BY <5>1
            <4>2. CASE s % 6 = 0
                <5>1. (s - 1) \div 6 = (s \div 6) - 1 /\ s \div 6 \in Nat
                    BY <2>1, <4>2
                <5>2. ~ (s \div 6 <= n)
                    BY <2>5, <4>2
                <5> QED BY <1>1, <5>1, <5>2
            <4> QED BY <4>1, <4>2
        <3>2. b[s] = NoOp
            BY <1>2, <2>1, <2>5
        <3> HIDE DEF Read
        <3> QED BY <2>1, <2>2, <2>3, <3>1, <3>2, NoOpIsNoOp
    <2> QED BY <2>4, <2>5
<1> HIDE DEF K
<1>6. \A s \in BeforeFirst .. LastPlace : s \in K
    <2>1. BeforeFirst \in Nat /\ LastPlace \in Nat
        BY AllPlaces
    <2> QED BY <1>4, <1>5, <2>1, FromTo
<1>7. LastPlace \in BeforeFirst .. LastPlace /\ LastPlace \div 6 = MaxOps
    <2>1. LastPlace = 6 * MaxOps + 5
        BY <1>1 DEF LastPlace, Width
    <2> QED BY <1>1, <2>1, AllPlaces
<1>8. Read(LastPlace) = n
    BY <1>1, <1>7
<1>9. f[LastPlace] = First(c, n)
    BY <1>6, <1>7, <1>8 DEF K
<1> QED BY <1>3, <1>9, FirstNone DEF n, b

LEMMA LoadIsProper ==
    ASSUME NEW c \in Seq(ProperOps), Len(c) <= MaxOps
    PROVE  c \in Seq(Op) /\ Load(c) \in ProperBlock
<1>1. c \in Seq(Op)
    <2>1. \A k \in 1 .. Len(c) : c[k] \in Op
        BY DEF ProperOps
    <2>2. c = [k \in 1 .. Len(c) |-> c[k]] /\ Len(c) \in Nat
        OBVIOUS
    <2> QED BY <2>1, <2>2
<1>2. \A s \in Places : Load(c)[s] \in ProperOps \cup {NoOp}
    <2> TAKE s \in Places
    <2>1. s \in Int /\ s >= 6
        BY QuakeOpsAssumption DEF Places, Width
    <2>2. s \div Width <= Len(c) => s \div Width \in 1 .. Len(c)
        BY <2>1 DEF Width
    <2> QED BY <2>2 DEF Load
<1>3. Load(c) \in ProperBlock
    BY <1>2 DEF Load, ProperBlock
<1> QED BY <1>1, <1>3
-----------------------------------------------------------------------------
(* Two blocks that differ in some places *)

\* Where two runs meet they stay together as long as the blocks are the same.
LEMMA RunsTogether ==
    ASSUME NEW f, NEW g, NEW a, NEW b, Runs(f, a), Runs(g, b),
           NEW lo \in BeforeFirst .. LastPlace, NEW hi \in BeforeFirst .. LastPlace,
           f[lo] = g[lo], \A s \in Places : lo < s /\ s <= hi => a[s] = b[s]
    PROVE  \A s \in lo .. hi : f[s] = g[s]
<1> DEFINE S == {s \in lo .. hi : f[s] = g[s]}
<1> SUFFICES ASSUME lo <= hi PROVE \A s \in lo .. hi : s \in S
    <2>1. lo \in Nat /\ hi \in Nat
        BY AllPlaces
    <2> QED BY <2>1
<1>1. lo \in Nat /\ hi \in Nat
    BY AllPlaces
<1>2. lo \in S
    BY <1>1
<1>3. ASSUME NEW s \in lo + 1 .. hi, s - 1 \in S PROVE s \in S
    <2>1. s \in Places /\ lo < s /\ s <= hi /\ s \in lo .. hi
        BY <1>1, AllPlaces
    <2>2. f[s] = After(f[s - 1], a[s]) /\ g[s] = After(g[s - 1], b[s])
        BY <2>1 DEF Runs
    <2> QED BY <1>3, <2>1, <2>2
<1> HIDE DEF S
<1> QED BY <1>1, <1>2, <1>3, FromTo

\* Where two runs are the same but for the order of independent events, they stay so.
LEMMA RunsStaySame ==
    ASSUME NEW f, NEW g, NEW a, NEW b, Runs(f, a), Runs(g, b), NEW lo \in BeforeFirst .. LastPlace,
           Same(f[lo], g[lo]), \A s \in Places : lo < s => a[s] \in ProperOps \cup {NoOp} /\ a[s] = b[s]
    PROVE  \A s \in lo .. LastPlace : Same(f[s], g[s])
<1> DEFINE S == {s \in lo .. LastPlace : Same(f[s], g[s])}
<1>1. lo \in Nat /\ LastPlace \in Nat /\ lo <= LastPlace
    BY AllPlaces
<1>2. lo \in S
    BY <1>1
<1>3. ASSUME NEW s \in lo + 1 .. LastPlace, s - 1 \in S PROVE s \in S
    <2>1. s \in Places /\ lo < s /\ s \in lo .. LastPlace /\ s - 1 \in BeforeFirst .. LastPlace
        BY <1>1, AllPlaces
    <2>2. /\ f[s] = After(f[s - 1], a[s]) /\ g[s] = After(g[s - 1], a[s])
          /\ f[s - 1] \in Meanings /\ g[s - 1] \in Meanings
        BY <2>1 DEF Runs
    <2>3. Same(f[s - 1], g[s - 1])
        BY <1>3
    <2>4. CASE a[s] = NoOp
        BY <2>1, <2>2, <2>3, <2>4 DEF After
    <2>5. CASE a[s] # NoOp
        <3>1. a[s] \in ProperOps
            BY <2>1, <2>5
        <3>2. Same(Apply(f[s - 1], a[s]), Apply(g[s - 1], a[s]))
            BY <2>2, <2>3, <3>1, SameApply
        <3> QED BY <2>1, <2>2, <2>5, <3>2 DEF After
    <2> QED BY <2>4, <2>5
<1> HIDE DEF S
<1>4. \A s \in lo .. LastPlace : s \in S
    BY <1>1, <1>2, <1>3, FromTo
<1> QED BY <1>4 DEF S

\* Blocks that differ only between two places, where they do the same, mean the same.
LEMMA WindowRewritten ==
    ASSUME NEW a \in ProperBlock, NEW b \in ProperBlock,
           NEW lo \in BeforeFirst .. LastPlace, NEW hi \in BeforeFirst .. LastPlace, lo <= hi,
           \A s \in Places : s <= lo \/ s > hi => a[s] = b[s],
           \A f, g : Runs(f, a) /\ Runs(g, b) /\ f[lo] = g[lo] => Same(f[hi], g[hi])
    PROVE  Same(Meaning(Circuit(a)), Meaning(Circuit(b)))
<1>1. PICK f : Runs(f, a) /\ Meaning(Circuit(a)) = f[LastPlace]
    BY RunOfBlock
<1>2. PICK g : Runs(g, b) /\ Meaning(Circuit(b)) = g[LastPlace]
    BY RunOfBlock
<1>3. BeforeFirst \in BeforeFirst .. LastPlace /\ LastPlace \in BeforeFirst .. LastPlace
    BY AllPlaces
<1>4. lo \in Nat /\ hi \in Nat /\ BeforeFirst \in Nat /\ LastPlace \in Nat
      /\ \A s \in Places : s \in Nat
    BY AllPlaces
<1>5. f[lo] = g[lo]
    <2>1. f[BeforeFirst] = g[BeforeFirst]
        BY <1>1, <1>2 DEF Runs
    <2>2. \A s \in Places : BeforeFirst < s /\ s <= lo => a[s] = b[s]
        OBVIOUS
    <2>3. \A s \in BeforeFirst .. lo : f[s] = g[s]
        BY <1>1, <1>2, <1>3, <2>1, <2>2, RunsTogether
    <2> QED BY <1>4, <2>3
<1>6. Same(f[hi], g[hi])
    BY <1>1, <1>2, <1>5
<1>7. Same(f[LastPlace], g[LastPlace])
    <2>1. \A s \in Places : hi < s => a[s] \in ProperOps \cup {NoOp} /\ a[s] = b[s]
        <3>1. \A s \in Places : hi < s => s > hi
            BY <1>4
        <3> QED BY <3>1 DEF ProperBlock
    <2>2. \A s \in hi .. LastPlace : Same(f[s], g[s])
        BY <1>1, <1>2, <1>6, <2>1, RunsStaySame
    <2> QED BY <1>4, <2>2
<1> QED BY <1>1, <1>2, <1>7

-----------------------------------------------------------------------------
(* The effect of a gate, wire by wire *)

\* Only the wires of W see a difference.
OnlyWires(m, n, W) == n.events = m.events /\ \A w \in Wires \ W : n.images[w] = m.images[w]

LEMMA EqualMeanings ==
    ASSUME NEW m \in Meanings, NEW n \in Meanings, m.events = n.events,
           \A w \in Wires : m.images[w].x = n.images[w].x /\ m.images[w].z = n.images[w].z
    PROVE  m = n
<1>1. /\ m = Meant(m.images, m.events) /\ n = Meant(n.images, n.events)
      /\ m.images \in Images /\ n.images \in Images
    BY MeaningParts
<1>2. m.images \in [Wires -> Pairs] /\ n.images \in [Wires -> Pairs]
    BY <1>1 DEF Images
<1>3. ASSUME NEW w \in Wires PROVE m.images[w] = n.images[w]
    <2>1. m.images[w] \in Pairs /\ n.images[w] \in Pairs
        BY <1>2
    <2> QED BY <2>1 DEF Pairs
<1>4. m.images = n.images
    BY <1>2, <1>3
<1> QED BY <1>1, <1>4

\* op is a gate g on t, controlled by c
OnWire(op, g, t) == op \in ProperOps /\ op.gate = g /\ op.ctrls = <<>> /\ op.tgts[1] = t
OnWires(op, g, c, t) ==
    op \in ProperOps /\ op.gate = g /\ Len(op.ctrls) = 1 /\ op.ctrls[1] = c /\ op.tgts[1] = t

PauliStep(g, m, n, t) ==
    /\ n \in Meanings /\ OnlyWires(m, n, {t}) /\ t \in Wires
    /\ n.images[t].x = (IF g = "x" THEN m.images[t].x ELSE Phased(2, m.images[t].x))
    /\ n.images[t].z = (IF g = "z" THEN m.images[t].z ELSE Phased(2, m.images[t].z))

LEMMA EffectOfPauli ==
    ASSUME NEW m \in Meanings, NEW t, NEW g \in {"x", "y", "z"}, NEW op, OnWire(op, g, t)
    PROVE  PauliStep(g, m, Apply(m, op), t)
<1> DEFINE n == Apply(m, op)
<1>1. n \in Meanings /\ t \in Wires /\ m.images \in [Wires -> Pairs]
    BY ApplyIsMeaning, ProperTargets, MeaningParts, ImagesOfWire DEF OnWire
<1>2. n = Meant([m.images EXCEPT ![t] = AfterPauli(g, m.images[t])], m.events)
    <2>1. op \in ProperOps /\ IsPauliGate(op) /\ op.ctrls = <<>> /\ op.gate = g /\ op.tgts[1] = t
        BY DEF OnWire, IsPauliGate
    <2> QED BY <2>1, ApplyPauli
<1> HIDE DEF n
<1>3. n.events = m.events /\ n.images = [m.images EXCEPT ![t] = AfterPauli(g, m.images[t])]
    BY <1>2 DEF Meant
<1>4. n.images[t] = AfterPauli(g, m.images[t]) /\ \A w \in Wires \ {t} : n.images[w] = m.images[w]
    BY <1>1, <1>3
<1>5. PauliStep(g, m, n, t)
    BY <1>1, <1>3, <1>4 DEF OnlyWires, AfterPauli, PauliStep
<1> QED BY <1>5 DEF n

HStep(m, n, t) ==
    /\ n \in Meanings /\ OnlyWires(m, n, {t}) /\ t \in Wires
    /\ n.images[t].x = m.images[t].z
    /\ n.images[t].z = m.images[t].x

LEMMA EffectOfH ==
    ASSUME NEW m \in Meanings, NEW t, NEW op, OnWire(op, "h", t)
    PROVE  HStep(m, Apply(m, op), t)
<1> DEFINE n == Apply(m, op)
<1>1. n \in Meanings /\ t \in Wires /\ m.images \in [Wires -> Pairs]
    BY ApplyIsMeaning, ProperTargets, MeaningParts, ImagesOfWire DEF OnWire
<1>2. n = Meant([m.images EXCEPT ![t] = [x |-> m.images[t].z, z |-> m.images[t].x]], m.events)
    BY ApplyH DEF OnWire
<1> HIDE DEF n
<1>3. /\ n.events = m.events
      /\ n.images = [m.images EXCEPT ![t] = [x |-> m.images[t].z, z |-> m.images[t].x]]
    BY <1>2 DEF Meant
<1>4. HStep(m, n, t)
    BY <1>1, <1>3 DEF OnlyWires, HStep
<1> QED BY <1>4 DEF n

SStep(adj, m, n, t) ==
    /\ n \in Meanings /\ OnlyWires(m, n, {t}) /\ t \in Wires
    /\ n.images[t].x = Phased(IF adj THEN 0 ELSE 2, YImage(m.images[t]))
    /\ n.images[t].z = m.images[t].z

LEMMA EffectOfS ==
    ASSUME NEW m \in Meanings, NEW t, NEW op, OnWire(op, "s", t)
    PROVE  SStep(op.adj, m, Apply(m, op), t)
<1> DEFINE n == Apply(m, op)
<1>1. n \in Meanings /\ t \in Wires /\ m.images \in [Wires -> Pairs]
    BY ApplyIsMeaning, ProperTargets, MeaningParts, ImagesOfWire DEF OnWire
<1> DEFINE p == Phased(IF op.adj THEN 0 ELSE 2, YImage(m.images[t]))
<1>2. n = Meant([m.images EXCEPT ![t] = [x |-> p, z |-> m.images[t].z]], m.events)
    BY ApplyS DEF OnWire
<1> HIDE DEF p, n
<1>3. n.events = m.events /\ n.images = [m.images EXCEPT ![t] = [x |-> p, z |-> m.images[t].z]]
    BY <1>2 DEF Meant
<1>4. n.images[t].x = p /\ n.images[t].z = m.images[t].z /\ OnlyWires(m, n, {t})
    BY <1>1, <1>3 DEF OnlyWires
<1>5. SStep(op.adj, m, n, t)
    BY <1>1, <1>4 DEF p, SStep
<1> QED BY <1>5 DEF n

ControlledStep(g, m, n, c, t) ==
    /\ n \in Meanings /\ OnlyWires(m, n, {c, t}) /\ c \in Wires /\ t \in Wires /\ c # t
    /\ n.images[c].x = Times(m.images[c].x, ImageOf(m.images[t], g))
    /\ n.images[c].z = m.images[c].z
    /\ n.images[t].x = (IF g = "x" THEN m.images[t].x ELSE Times(m.images[c].z, m.images[t].x))
    /\ n.images[t].z = (IF g = "z" THEN m.images[t].z ELSE Times(m.images[c].z, m.images[t].z))

LEMMA EffectOfControlledPauli ==
    ASSUME NEW m \in Meanings, NEW c, NEW t, NEW g \in {"x", "y", "z"}, NEW op, OnWires(op, g, c, t)
    PROVE  ControlledStep(g, m, Apply(m, op), c, t)
<1> DEFINE n == Apply(m, op)
<1>1. /\ n \in Meanings /\ t \in Wires /\ c \in Wires /\ c # t
      /\ m.images \in Images /\ m.images \in [Wires -> Pairs]
    BY ApplyIsMeaning, ProperTargets, MeaningParts, ImagesOfWire DEF OnWires
<1>2. n = Meant(AfterControlledPauli(g, m.images, c, t), m.events)
    <2>1. /\ op \in ProperOps /\ IsPauliGate(op) /\ Len(op.ctrls) = 1 /\ op.gate = g
          /\ op.ctrls[1] = c /\ op.tgts[1] = t
        BY DEF OnWires, IsPauliGate
    <2> QED BY <2>1, ApplyControlledPauli
<1> DEFINE i == m.images
           p == Times(i[c].x, ImageOf(i[t], g))
           xx == IF g = "x" THEN i[t].x ELSE Times(i[c].z, i[t].x)
           zz == IF g = "z" THEN i[t].z ELSE Times(i[c].z, i[t].z)
<1>3. AfterControlledPauli(g, i, c, t) =
        [i EXCEPT ![c] = [x |-> p, z |-> i[c].z], ![t] = [x |-> xx, z |-> zz]]
    BY <1>1, ControlledPauliChanges
<1> HIDE DEF p, xx, zz, n
<1>4. /\ n.events = m.events
      /\ n.images = [i EXCEPT ![c] = [x |-> p, z |-> i[c].z], ![t] = [x |-> xx, z |-> zz]]
    BY <1>2, <1>3 DEF Meant
<1>5. /\ n.images[c].x = p /\ n.images[c].z = i[c].z /\ n.images[t].x = xx /\ n.images[t].z = zz
      /\ OnlyWires(m, n, {c, t})
    BY <1>1, <1>4 DEF OnlyWires
<1>6. ControlledStep(g, m, n, c, t)
    BY <1>1, <1>5 DEF p, xx, zz, ControlledStep
<1> QED BY <1>6 DEF n

\* The images of different wires commute.
LEMMA ImagesCommute ==
    ASSUME NEW m \in Meanings, NEW c \in Wires, NEW t \in Wires, c # t
    PROVE  /\ Times(m.images[c].x, m.images[t].x) = Times(m.images[t].x, m.images[c].x)
           /\ Times(m.images[c].z, m.images[t].z) = Times(m.images[t].z, m.images[c].z)
<1>1. /\ m.images \in Images /\ Apart(m.images[c], m.images[t])
      /\ m.images[c].x \in PauliOperators /\ m.images[c].z \in PauliOperators
      /\ m.images[t].x \in PauliOperators /\ m.images[t].z \in PauliOperators
    BY MeaningParts, ImagesOfWire
<1> QED BY <1>1, ProductParity DEF Apart

-----------------------------------------------------------------------------
(* Equal circuits of a few gates *)

LEMMA CxIsHCzH ==
    ASSUME NEW m \in Meanings, NEW c, NEW t,
           NEW cx, OnWires(cx, "x", c, t), NEW cz, OnWires(cz, "z", t, c),
           NEW h, OnWire(h, "h", t), NEW k, OnWire(k, "h", t)
    PROVE  Apply(m, cx) = Apply(Apply(Apply(m, h), cz), k)
<1> DEFINE n == Apply(m, cx)
           m1 == Apply(m, h)
           m2 == Apply(m1, cz)
           m3 == Apply(m2, k)
<1>1. ControlledStep("x", m, n, c, t)
    BY EffectOfControlledPauli
<1>2. HStep(m, m1, t)
    BY EffectOfH
<1>3. m1 \in Meanings
    BY <1>2 DEF HStep
<1> HIDE DEF n, m1
<1>4. ControlledStep("z", m1, m2, t, c)
    BY <1>3, EffectOfControlledPauli
<1>5. m2 \in Meanings
    BY <1>4 DEF ControlledStep
<1> HIDE DEF m2
<1>6. HStep(m2, m3, t)
    BY <1>5, EffectOfH
<1> HIDE DEF m3
<1>7. c \in Wires /\ t \in Wires /\ c # t /\ n \in Meanings /\ m3 \in Meanings
    BY <1>1, <1>6 DEF ControlledStep, HStep
<1>8. /\ Times(m.images[c].x, m.images[t].x) = Times(m.images[t].x, m.images[c].x)
      /\ Times(m.images[c].z, m.images[t].z) = Times(m.images[t].z, m.images[c].z)
    BY <1>7, ImagesCommute
<1>9. n.events = m3.events
    BY <1>1, <1>2, <1>4, <1>6 DEF OnlyWires, HStep, ControlledStep
<1>10. ASSUME NEW w \in Wires
       PROVE  n.images[w].x = m3.images[w].x /\ n.images[w].z = m3.images[w].z
    <2>1. m1.images[c] = m.images[c] /\ m3.images[c] = m2.images[c]
        BY <1>2, <1>6, <1>7 DEF OnlyWires, HStep
    <2>2. CASE w = c
        BY <1>1, <1>2, <1>4, <1>8, <2>1, <2>2 DEF HStep, ControlledStep, ImageOf
    <2>3. CASE w = t
        BY <1>1, <1>2, <1>4, <1>6, <1>8, <2>1, <2>3 DEF HStep, ControlledStep, ImageOf
    <2>4. CASE w # c /\ w # t
        BY <1>1, <1>2, <1>4, <1>6, <2>4 DEF HStep, ControlledStep, OnlyWires
    <2> QED BY <2>2, <2>3, <2>4
<1>11. n = m3
    BY <1>7, <1>9, <1>10, EqualMeanings
<1> QED BY <1>11 DEF n, m3, m2, m1

LEMMA CzIsHCxH ==
    ASSUME NEW m \in Meanings, NEW c, NEW t,
           NEW cz, OnWires(cz, "z", c, t), NEW cx, OnWires(cx, "x", c, t),
           NEW h, OnWire(h, "h", t), NEW k, OnWire(k, "h", t)
    PROVE  Apply(m, cz) = Apply(Apply(Apply(m, h), cx), k)
<1> DEFINE n == Apply(m, cz)
           m1 == Apply(m, h)
           m2 == Apply(m1, cx)
           m3 == Apply(m2, k)
<1>1. ControlledStep("z", m, n, c, t)
    BY EffectOfControlledPauli
<1>2. HStep(m, m1, t)
    BY EffectOfH
<1>3. m1 \in Meanings
    BY <1>2 DEF HStep
<1> HIDE DEF n, m1
<1>4. ControlledStep("x", m1, m2, c, t)
    BY <1>3, EffectOfControlledPauli
<1>5. m2 \in Meanings
    BY <1>4 DEF ControlledStep
<1> HIDE DEF m2
<1>6. HStep(m2, m3, t)
    BY <1>5, EffectOfH
<1> HIDE DEF m3
<1>7. c \in Wires /\ t \in Wires /\ c # t /\ n \in Meanings /\ m3 \in Meanings
    BY <1>1, <1>6 DEF ControlledStep, HStep
<1>8. n.events = m3.events
    BY <1>1, <1>2, <1>4, <1>6 DEF OnlyWires, HStep, ControlledStep
<1>9. ASSUME NEW w \in Wires
      PROVE  n.images[w].x = m3.images[w].x /\ n.images[w].z = m3.images[w].z
    <2>1. m1.images[c] = m.images[c] /\ m3.images[c] = m2.images[c]
        BY <1>2, <1>6, <1>7 DEF OnlyWires, HStep
    <2>2. CASE w = c
        BY <1>1, <1>2, <1>4, <2>1, <2>2 DEF HStep, ControlledStep, ImageOf
    <2>3. CASE w = t
        BY <1>1, <1>2, <1>4, <1>6, <2>1, <2>3 DEF HStep, ControlledStep, ImageOf
    <2>4. CASE w # c /\ w # t
        BY <1>1, <1>2, <1>4, <1>6, <2>4 DEF HStep, ControlledStep, OnlyWires
    <2> QED BY <2>2, <2>3, <2>4
<1>10. n = m3
    BY <1>7, <1>8, <1>9, EqualMeanings
<1> QED BY <1>10 DEF n, m3, m2, m1

\* Two h on the two wires, before and after
HHStep(m, n, c, t) ==
    /\ n \in Meanings /\ n.events = m.events
    /\ n.images[c].x = m.images[c].z /\ n.images[c].z = m.images[c].x
    /\ n.images[t].x = m.images[t].z /\ n.images[t].z = m.images[t].x
    /\ \A w \in Wires : w # c /\ w # t => n.images[w] = m.images[w]

LEMMA EffectOfHH ==
    ASSUME NEW m \in Meanings, NEW c \in Wires, NEW t \in Wires, c # t,
           NEW h, OnWire(h, "h", t), NEW k, OnWire(k, "h", c)
    PROVE  HHStep(m, Apply(Apply(m, h), k), c, t)
<1> DEFINE m1 == Apply(m, h)
           m2 == Apply(m1, k)
<1>1. HStep(m, m1, t)
    BY EffectOfH
<1>2. m1 \in Meanings
    BY <1>1 DEF HStep
<1> HIDE DEF m1
<1>3. HStep(m1, m2, c)
    BY <1>2, EffectOfH
<1> HIDE DEF m2
<1>4. m1.images[c] = m.images[c] /\ m2.images[t] = m1.images[t]
    BY <1>1, <1>3 DEF OnlyWires, HStep
<1>5. HHStep(m, m2, c, t)
    BY <1>1, <1>3, <1>4 DEF OnlyWires, HStep, HHStep
<1> QED BY <1>5 DEF m1, m2

LEMMA CxIsReversed ==
    ASSUME NEW m \in Meanings, NEW c, NEW t,
           NEW cx, OnWires(cx, "x", c, t), NEW xc, OnWires(xc, "x", t, c),
           NEW h1, OnWire(h1, "h", t), NEW h2, OnWire(h2, "h", c),
           NEW h3, OnWire(h3, "h", t), NEW h4, OnWire(h4, "h", c)
    PROVE  Apply(m, cx) = Apply(Apply(Apply(Apply(Apply(m, h1), h2), xc), h3), h4)
<1> DEFINE n == Apply(m, cx)
           m2 == Apply(Apply(m, h1), h2)
           m3 == Apply(m2, xc)
           m5 == Apply(Apply(m3, h3), h4)
<1>1. ControlledStep("x", m, n, c, t)
    BY EffectOfControlledPauli
<1>2. c \in Wires /\ t \in Wires /\ c # t /\ n \in Meanings
    BY <1>1 DEF ControlledStep
<1> HIDE DEF n
<1>3. HHStep(m, m2, c, t)
    BY <1>2, EffectOfHH
<1>4. m2 \in Meanings
    BY <1>3 DEF HHStep
<1> HIDE DEF m2
<1>5. ControlledStep("x", m2, m3, t, c)
    BY <1>4, EffectOfControlledPauli
<1>6. m3 \in Meanings
    BY <1>5 DEF ControlledStep
<1> HIDE DEF m3
<1>7. HHStep(m3, m5, c, t)
    BY <1>2, <1>6, EffectOfHH
<1> HIDE DEF m5
<1>8. /\ Times(m.images[c].x, m.images[t].x) = Times(m.images[t].x, m.images[c].x)
      /\ Times(m.images[c].z, m.images[t].z) = Times(m.images[t].z, m.images[c].z)
    BY <1>2, ImagesCommute
<1>9. n.events = m5.events /\ m5 \in Meanings
    BY <1>1, <1>3, <1>5, <1>7 DEF OnlyWires, HHStep, ControlledStep
<1>10. ASSUME NEW w \in Wires
       PROVE  n.images[w].x = m5.images[w].x /\ n.images[w].z = m5.images[w].z
    <2>1. CASE w = c
        BY <1>1, <1>3, <1>5, <1>7, <1>8, <2>1 DEF HHStep, ControlledStep, ImageOf
    <2>2. CASE w = t
        BY <1>1, <1>3, <1>5, <1>7, <1>8, <2>2 DEF HHStep, ControlledStep, ImageOf
    <2>3. CASE w # c /\ w # t
        BY <1>1, <1>3, <1>5, <1>7, <2>3 DEF HHStep, ControlledStep, OnlyWires
    <2> QED BY <2>1, <2>2, <2>3
<1>11. n = m5
    BY <1>2, <1>9, <1>10, EqualMeanings
<1> QED BY <1>11 DEF n, m5, m3, m2

\* Signs
LEMMA Signs ==
    ASSUME NEW p \in PauliOperators, NEW q \in PauliOperators
    PROVE  /\ Phased(2, p) \in PauliOperators
           /\ Phased(2, Phased(2, p)) = p /\ Phased(0, p) = p
           /\ Times(Phased(2, p), q) = Phased(2, Times(p, q))
           /\ Times(p, Phased(2, q)) = Phased(2, Times(p, q))
<1>1. p.phase \in 0 .. 3 /\ q.phase \in 0 .. 3 /\ Cardinality(p.z \cap q.x) \in Nat
    <2>1. p.z \in FiniteWires /\ p.phase \in 0 .. 3 /\ q.phase \in 0 .. 3
        BY DEF PauliOperators
    <2> QED BY <2>1, FiniteParts
<1>2. \A k, i : \A a, b : /\ Phased(k, Pauli(i, a, b)) = Pauli((i + k) % 4, a, b)
                          /\ Pauli(i, a, b).phase = i
                          /\ Pauli(i, a, b).x = a /\ Pauli(i, a, b).z = b
    BY DEF Phased, Pauli
<1>3. p = Pauli(p.phase, p.x, p.z) /\ q = Pauli(q.phase, q.x, q.z)
    BY DEF Pauli, PauliOperators
<1> DEFINE i == p.phase
           j == q.phase
           n == 2 * Cardinality(p.z \cap q.x)
           a == Xor(p.x, q.x)
           b == Xor(p.z, q.z)
           pp == Phased(2, p)
           qq == Phased(2, q)
<1>4. i \in 0 .. 3 /\ j \in 0 .. 3 /\ n \in Nat
    BY <1>1
<1>5. pp = Pauli((i + 2) % 4, p.x, p.z) /\ qq = Pauli((j + 2) % 4, q.x, q.z)
    BY <1>2, <1>3
<1>6. pp.phase = (i + 2) % 4 /\ pp.x = p.x /\ pp.z = p.z
    <2> HIDE DEF pp, i
    <2> QED BY <1>2, <1>5
<1>7. qq.phase = (j + 2) % 4 /\ qq.x = q.x /\ qq.z = q.z
    <2> HIDE DEF qq, j
    <2> QED BY <1>2, <1>5
<1>8. Times(p, q) = Pauli((i + j + n) % 4, a, b)
    BY DEF Times
<1>9. Times(pp, q) = Pauli((((i + 2) % 4) + j + n) % 4, a, b)
    <2> HIDE DEF pp
    <2> QED BY <1>6 DEF Times
<1>10. Times(p, qq) = Pauli((i + ((j + 2) % 4) + n) % 4, a, b)
    <2> HIDE DEF qq
    <2> QED BY <1>7 DEF Times
<1>11. Phased(2, Times(p, q)) = Pauli((((i + j + n) % 4) + 2) % 4, a, b)
    BY <1>2, <1>8
<1>12. Phased(2, pp) = Pauli((((i + 2) % 4) + 2) % 4, p.x, p.z)
    BY <1>2, <1>5
<1>13. Phased(0, p) = Pauli((i + 0) % 4, p.x, p.z)
    BY <1>2, <1>3
<1>14. p = Pauli(i, p.x, p.z)
    BY <1>3
<1>15. pp \in PauliOperators
    BY ParityIsBit
<1> HIDE DEF i, j, n, a, b, pp, qq
<1>16. /\ (((i + j + n) % 4) + 2) % 4 = (((i + 2) % 4) + j + n) % 4
       /\ (((i + j + n) % 4) + 2) % 4 = (i + ((j + 2) % 4) + n) % 4
       /\ (((i + 2) % 4) + 2) % 4 = i /\ (i + 0) % 4 = i
    BY <1>4
<1>17. /\ pp \in PauliOperators /\ Phased(2, pp) = p /\ Phased(0, p) = p
       /\ Times(pp, q) = Phased(2, Times(p, q)) /\ Times(p, qq) = Phased(2, Times(p, q))
    BY <1>9, <1>10, <1>11, <1>12, <1>13, <1>14, <1>15, <1>16
<1> QED BY <1>17 DEF pp, qq

LEMMA ImagesArePaulis ==
    ASSUME NEW m \in Meanings, NEW t \in Wires
    PROVE  m.images[t].x \in PauliOperators /\ m.images[t].z \in PauliOperators
BY MeaningParts, ImagesOfWire

\* A Pauli gate goes through h and becomes the other one.
LEMMA PauliThroughH ==
    ASSUME NEW m \in Meanings, NEW t, NEW g \in {"x", "y", "z"},
           NEW p, OnWire(p, g, t), NEW q, OnWire(q, ThroughH[g], t),
           NEW h, OnWire(h, "h", t), NEW k, OnWire(k, "h", t)
    PROVE  Apply(Apply(m, p), h) = Apply(Apply(m, k), q)
<1> DEFINE m1 == Apply(m, p)
           m2 == Apply(m1, h)
           n1 == Apply(m, k)
           n2 == Apply(n1, q)
<1>1. PauliStep(g, m, m1, t) /\ HStep(m, n1, t)
    BY EffectOfPauli, EffectOfH
<1>2. m1 \in Meanings /\ n1 \in Meanings
    BY <1>1 DEF PauliStep, HStep
<1>3. ThroughH[g] \in {"x", "y", "z"}
    BY DEF ThroughH
<1> HIDE DEF m1, n1
<1>4. HStep(m1, m2, t)
    BY <1>2, EffectOfH
<1>5. PauliStep(ThroughH[g], n1, n2, t)
    BY <1>2, <1>3, EffectOfPauli
<1> HIDE DEF m2, n2
<1>6. m2 \in Meanings /\ n2 \in Meanings /\ m2.events = n2.events
    BY <1>1, <1>4, <1>5 DEF PauliStep, HStep, OnlyWires
<1>7. ASSUME NEW w \in Wires
      PROVE  m2.images[w].x = n2.images[w].x /\ m2.images[w].z = n2.images[w].z
    <2>1. CASE w = t
        <3>1. CASE g = "x"
            BY <1>1, <1>4, <1>5, <2>1, <3>1 DEF PauliStep, HStep, ThroughH
        <3>2. CASE g = "y"
            BY <1>1, <1>4, <1>5, <2>1, <3>2 DEF PauliStep, HStep, ThroughH
        <3>3. CASE g = "z"
            BY <1>1, <1>4, <1>5, <2>1, <3>3 DEF PauliStep, HStep, ThroughH
        <3> QED BY <3>1, <3>2, <3>3
    <2>2. CASE w # t
        BY <1>1, <1>4, <1>5, <2>2 DEF PauliStep, HStep, OnlyWires
    <2> QED BY <2>1, <2>2
<1>8. m2 = n2
    BY <1>6, <1>7, EqualMeanings
<1> QED BY <1>8 DEF m1, m2, n1, n2

LEMMA HTwice ==
    ASSUME NEW m \in Meanings, NEW t, NEW h, OnWire(h, "h", t), NEW k, OnWire(k, "h", t)
    PROVE  Apply(Apply(m, h), k) = m
<1> DEFINE m1 == Apply(m, h)
           m2 == Apply(m1, k)
<1>1. HStep(m, m1, t)
    BY EffectOfH
<1>2. m1 \in Meanings
    BY <1>1 DEF HStep
<1> HIDE DEF m1
<1>3. HStep(m1, m2, t)
    BY <1>2, EffectOfH
<1> HIDE DEF m2
<1>4. m2 \in Meanings /\ m2.events = m.events
    BY <1>1, <1>3 DEF HStep, OnlyWires
<1>5. ASSUME NEW w \in Wires
      PROVE  m2.images[w].x = m.images[w].x /\ m2.images[w].z = m.images[w].z
    BY <1>1, <1>3 DEF HStep, OnlyWires
<1>6. m2 = m
    BY <1>4, <1>5, EqualMeanings
<1> QED BY <1>6 DEF m1, m2
-----------------------------------------------------------------------------
(* A rewrite at a place *)

\* What is inserted k places behind the current operation
Slot(r, k) == IF k <= Len(r.insert) THEN r.insert[k] ELSE NoOp

AfterFive(m, a, b, c, d, e) == After(After(After(After(After(m, a), b), c), d), e)
AfterInserted(m, r) ==
    AfterFive(m, Slot(r, 1), Slot(r, 2), Slot(r, 3), Slot(r, 4), Slot(r, 5))

\* The block without the operations of E
Without(b, E) == [s \in Places |-> IF s \in E THEN NoOp ELSE b[s]]

\* The current operation stands at a home place with nothing behind it.
AtHome(b, cur) ==
    /\ b \in ProperBlock /\ cur \in Places /\ b[cur] # NoOp
    /\ \A k \in 1 .. 5 : cur + k \in Places /\ b[cur + k] = NoOp

\* A rewrite inserts at most five proper operations and erases at earlier places.
ProperRewrite(b, cur, r) ==
    /\ \A s \in r.erase : s \in Places /\ s <= cur
    /\ Len(r.insert) \in 0 .. 5
    /\ \A k \in 1 .. Len(r.insert) : r.insert[k] \in ProperOps

LEMMA NextFive ==
    ASSUME NEW b, NEW cur, AtHome(b, cur)
    PROVE  /\ cur \in Nat /\ cur >= 6 /\ cur + 5 <= LastPlace
           /\ cur - 1 \in BeforeFirst .. LastPlace /\ cur + 5 \in BeforeFirst .. LastPlace
           /\ cur + 1 \in Places /\ cur + 2 \in Places /\ cur + 3 \in Places
           /\ cur + 4 \in Places /\ cur + 5 \in Places
           /\ \A s \in Places : s \in Nat /\ s >= 6
<1>1. cur \in Places /\ 5 \in 1 .. 5 /\ \A k \in 1 .. 5 : cur + k \in Places
    BY DEF AtHome
<1>2. cur \in Nat /\ cur >= 6 /\ \A s \in Places : s \in Nat /\ s >= 6 /\ s <= LastPlace
    BY <1>1, AllPlaces
<1>3. cur + 5 <= LastPlace
    BY <1>1, <1>2
<1> QED BY <1>1, <1>2, <1>3, AllPlaces

LEMMA FiveMore ==
    ASSUME NEW b, NEW cur, NEW a, AtHome(a, cur), NEW g, Runs(g, b)
    PROVE  g[cur + 5] = AfterFive(After(g[cur - 1], b[cur]),
                                  b[cur + 1], b[cur + 2], b[cur + 3], b[cur + 4], b[cur + 5])
<1>1. \A s \in Places : g[s] = After(g[s - 1], b[s])
    BY DEF Runs
<1>2. /\ cur \in Places /\ cur + 1 \in Places /\ cur + 2 \in Places /\ cur + 3 \in Places
      /\ cur + 4 \in Places /\ cur + 5 \in Places /\ cur \in Nat
    BY NextFive DEF AtHome
<1>3. /\ (cur + 1) - 1 = cur /\ (cur + 2) - 1 = cur + 1 /\ (cur + 3) - 1 = cur + 2
      /\ (cur + 4) - 1 = cur + 3 /\ (cur + 5) - 1 = cur + 4
    BY <1>2
<1>4. /\ g[cur] = After(g[cur - 1], b[cur]) /\ g[cur + 1] = After(g[cur], b[cur + 1])
      /\ g[cur + 2] = After(g[cur + 1], b[cur + 2]) /\ g[cur + 3] = After(g[cur + 2], b[cur + 3])
      /\ g[cur + 4] = After(g[cur + 3], b[cur + 4]) /\ g[cur + 5] = After(g[cur + 4], b[cur + 5])
    BY <1>1, <1>2, <1>3
<1> QED BY <1>4 DEF AfterFive

\* What a rewrite leaves at each place
LEMMA RewrittenPlaces ==
    ASSUME NEW b, NEW cur, AtHome(b, cur), NEW r, ProperRewrite(b, cur, r)
    PROVE  LET c == Rewritten(b, cur, r)
           IN  /\ c \in ProperBlock
               /\ \A k \in 1 .. 5 : c[cur + k] = Slot(r, k)
               /\ \A s \in Places : s <= cur => c[s] = Without(b, r.erase)[s]
               /\ \A s \in Places : s > cur + 5 => c[s] = b[s]
<1> DEFINE n == Len(r.insert)
           c == Rewritten(b, cur, r)
<1>1. /\ n \in 0 .. 5 /\ \A s \in r.erase : s \in Places /\ s <= cur
      /\ \A k \in 1 .. n : r.insert[k] \in ProperOps
    BY DEF ProperRewrite
<1>2. cur \in Nat /\ \A s \in Places : s \in Nat
    BY NextFive
<1>3. \A s \in Places : c[s] = IF s > cur /\ s <= cur + n THEN r.insert[s - cur]
                               ELSE IF s \in r.erase THEN NoOp ELSE b[s]
    BY DEF Rewritten
<1>4. c = [s \in Places |-> c[s]]
    BY DEF Rewritten
<1> HIDE DEF c, n
<1>5. n \in Nat /\ n <= 5
    BY <1>1
<1>6. ASSUME NEW s \in Places PROVE c[s] \in ProperOps \cup {NoOp}
    <2>1. CASE s > cur /\ s <= cur + n
        <3>1. s - cur \in 1 .. n
            BY <1>2, <1>5, <2>1
        <3> QED BY <1>1, <1>3, <2>1, <3>1
    <2>2. CASE ~ (s > cur /\ s <= cur + n)
        BY <1>3, <2>2 DEF AtHome, ProperBlock
    <2> QED BY <2>1, <2>2
<1>7. c \in ProperBlock
    BY <1>4, <1>6 DEF ProperBlock
<1>8. ASSUME NEW k \in 1 .. 5 PROVE c[cur + k] = Slot(r, k)
    <2>1. cur + k \in Places /\ b[cur + k] = NoOp
        BY DEF AtHome
    <2>2. (cur + k > cur /\ cur + k <= cur + n) <=> k <= n
        BY <1>2, <1>5
    <2>3. (cur + k) - cur = k
        BY <1>2
    <2> QED BY <1>3, <2>1, <2>2, <2>3 DEF Slot, n
<1>9. ASSUME NEW s \in Places, s <= cur PROVE c[s] = Without(b, r.erase)[s]
    <2>1. ~ s > cur
        BY <1>2, <1>9
    <2> QED BY <1>3, <2>1 DEF Without
<1>10. ASSUME NEW s \in Places, s > cur + 5 PROVE c[s] = b[s]
    <2>1. ~ s <= cur + n /\ ~ s <= cur
        BY <1>2, <1>5, <1>10
    <2>2. s \notin r.erase
        BY <1>1, <2>1
    <2> QED BY <1>3, <2>1, <2>2
<1>11. /\ c \in ProperBlock
       /\ \A k \in 1 .. 5 : c[cur + k] = Slot(r, k)
       /\ \A s \in Places : s <= cur => c[s] = Without(b, r.erase)[s]
       /\ \A s \in Places : s > cur + 5 => c[s] = b[s]
    BY <1>7, <1>8, <1>9, <1>10
<1> QED BY <1>11 DEF c

\* A rewrite keeps the meaning if what it leaves and inserts does what the operations up
\* to the current one did.
LEMMA RewriteKeepsMeaning ==
    ASSUME NEW b, NEW cur, AtHome(b, cur), NEW r, ProperRewrite(b, cur, r),
           \A g, f : Runs(g, b) /\ Runs(f, Without(b, r.erase \ {cur})) =>
             Same(AfterInserted(IF cur \in r.erase THEN f[cur - 1] ELSE Apply(f[cur - 1], b[cur]), r),
                  Apply(g[cur - 1], b[cur]))
    PROVE  /\ Rewritten(b, cur, r) \in ProperBlock
           /\ Same(Meaning(Circuit(Rewritten(b, cur, r))), Meaning(Circuit(b)))
<1> DEFINE c == Rewritten(b, cur, r)
           e == Without(b, r.erase \ {cur})
<1>1. /\ c \in ProperBlock
      /\ \A k \in 1 .. 5 : c[cur + k] = Slot(r, k)
      /\ \A s \in Places : s <= cur => c[s] = Without(b, r.erase)[s]
      /\ \A s \in Places : s > cur + 5 => c[s] = b[s]
    BY RewrittenPlaces
<1>2. b \in ProperBlock /\ cur \in Places /\ b[cur] # NoOp
      /\ \A k \in 1 .. 5 : b[cur + k] = NoOp
    BY DEF AtHome
<1>3. e \in ProperBlock
    BY <1>2 DEF Without, ProperBlock
<1>4. /\ cur \in Nat /\ cur >= 6 /\ cur - 1 \in BeforeFirst .. LastPlace
      /\ cur + 5 \in BeforeFirst .. LastPlace /\ \A s \in Places : s \in Nat /\ s >= 6
      /\ BeforeFirst = 5 /\ BeforeFirst \in BeforeFirst .. LastPlace
    <2>1. BeforeFirst = 5 /\ LastPlace \in Nat /\ LastPlace >= 11
        BY AllPlaces
    <2> QED BY <2>1, NextFive
<1>5. \A s \in Places : s < cur => c[s] = e[s]
    <2> TAKE s \in Places
    <2> HAVE s < cur
    <2>1. s <= cur /\ s # cur
        BY <1>4
    <2> HIDE DEF c
    <2> QED BY <1>1, <2>1 DEF Without
<1>6. c[cur] = IF cur \in r.erase THEN NoOp ELSE b[cur]
    <2>1. cur <= cur
        BY <1>4
    <2> HIDE DEF c
    <2> QED BY <1>1, <1>2, <2>1 DEF Without
<1> HIDE DEF c, e
<1>7. ASSUME NEW f, NEW g, Runs(f, c), Runs(g, b) PROVE Same(f[cur + 5], g[cur + 5])
    <2>1. PICK h : Runs(h, e)
        BY <1>3, RunOfBlock
    <2>2. f[cur - 1] = h[cur - 1]
        <3>1. f[BeforeFirst] = h[BeforeFirst]
            BY <1>7, <2>1 DEF Runs
        <3>2. \A s \in Places : BeforeFirst < s /\ s <= cur - 1 => c[s] = e[s]
            <4>1. \A s \in Places : s <= cur - 1 => s < cur
                BY <1>4
            <4> QED BY <1>5, <4>1
        <3>3. \A s \in BeforeFirst .. cur - 1 : f[s] = h[s]
            BY <1>4, <1>7, <2>1, <3>1, <3>2, RunsTogether
        <3>4. cur - 1 \in BeforeFirst .. cur - 1
            BY <1>4
        <3> QED BY <3>3, <3>4
    <2>3. g[cur + 5] = Apply(g[cur - 1], b[cur])
        <3>1. g[cur + 5] = AfterFive(After(g[cur - 1], b[cur]),
                             b[cur + 1], b[cur + 2], b[cur + 3], b[cur + 4], b[cur + 5])
            BY <1>7, FiveMore
        <3>2. /\ b[cur + 1] = NoOp /\ b[cur + 2] = NoOp /\ b[cur + 3] = NoOp
              /\ b[cur + 4] = NoOp /\ b[cur + 5] = NoOp
            BY <1>2
        <3> QED BY <1>2, <3>1, <3>2 DEF AfterFive, After
    <2>4. f[cur + 5] = AfterInserted(After(f[cur - 1], c[cur]), r)
        <3>1. f[cur + 5] = AfterFive(After(f[cur - 1], c[cur]),
                             c[cur + 1], c[cur + 2], c[cur + 3], c[cur + 4], c[cur + 5])
            BY <1>7, FiveMore
        <3>2. /\ c[cur + 1] = Slot(r, 1) /\ c[cur + 2] = Slot(r, 2) /\ c[cur + 3] = Slot(r, 3)
              /\ c[cur + 4] = Slot(r, 4) /\ c[cur + 5] = Slot(r, 5)
            BY <1>1
        <3> QED BY <3>1, <3>2 DEF AfterInserted
    <2>5. After(f[cur - 1], c[cur])
            = IF cur \in r.erase THEN f[cur - 1] ELSE Apply(f[cur - 1], b[cur])
        BY <1>2, <1>6 DEF After
    <2>6. Same(AfterInserted(IF cur \in r.erase THEN h[cur - 1] ELSE Apply(h[cur - 1], b[cur]), r),
               Apply(g[cur - 1], b[cur]))
        BY <1>7, <2>1 DEF e
    <2> QED BY <2>2, <2>3, <2>4, <2>5, <2>6
<1>8. Same(Meaning(Circuit(c)), Meaning(Circuit(b)))
    <2>1. \A s \in Places : s <= BeforeFirst \/ s > cur + 5 => c[s] = b[s]
        <3>1. \A s \in Places : ~ s <= BeforeFirst
            BY <1>4
        <3> QED BY <1>1, <3>1 DEF c
    <2>2. \A f, g : Runs(f, c) /\ Runs(g, b) /\ f[BeforeFirst] = g[BeforeFirst]
                      => Same(f[cur + 5], g[cur + 5])
        BY <1>7
    <2>3. BeforeFirst <= cur + 5 /\ c \in ProperBlock
        BY <1>1, <1>4 DEF c
    <2> QED BY <1>2, <1>4, <2>1, <2>2, <2>3, WindowRewritten
<1> QED BY <1>1, <1>8 DEF c

KeepsMeaning(b, cur, r) ==
    /\ Rewritten(b, cur, r) \in ProperBlock
    /\ Same(Meaning(Circuit(Rewritten(b, cur, r))), Meaning(Circuit(b)))

LEMMA NoRewriteKeeps ==
    ASSUME NEW b \in ProperBlock, NEW cur \in Places, NEW r, r.erase = {}, r.insert = <<>>
    PROVE  KeepsMeaning(b, cur, r)
<1>1. Len(r.insert) = 0 /\ cur \in Nat /\ \A s \in Places : s \in Nat
    BY PlacesAreNaturals
<1>2. \A s \in Places : ~ (s > cur /\ s <= cur + 0)
    BY <1>1
<1>3. Rewritten(b, cur, r) = [s \in Places |-> b[s]]
    BY <1>1, <1>2 DEF Rewritten
<1>4. Rewritten(b, cur, r) = b
    BY <1>3 DEF ProperBlock
<1> QED BY <1>4, SameIsEquivalence DEF KeepsMeaning

-----------------------------------------------------------------------------
(* The passes that replace one gate *)

LEMMA OneGateReplaced ==
    ASSUME NEW b, NEW cur, AtHome(b, cur), NEW r, ProperRewrite(b, cur, r), r.erase = {cur},
           \A m \in Meanings : AfterInserted(m, r) = Apply(m, b[cur])
    PROVE  KeepsMeaning(b, cur, r)
<1>1. r.erase \ {cur} = {} /\ b \in ProperBlock
    BY DEF AtHome
<1>2. Without(b, r.erase \ {cur}) = b
    BY <1>1 DEF Without, ProperBlock
<1>3. /\ BeforeFirst \in BeforeFirst .. LastPlace /\ cur - 1 \in BeforeFirst .. LastPlace
      /\ cur - 1 \in BeforeFirst .. cur - 1
    <2>1. BeforeFirst = 5 /\ LastPlace \in Nat /\ LastPlace >= 11
        BY AllPlaces
    <2>2. cur - 1 \in BeforeFirst .. LastPlace
        BY NextFive
    <2> QED BY <2>1, <2>2
<1>4. ASSUME NEW g, NEW f, Runs(g, b), Runs(f, b)
      PROVE  AfterInserted(f[cur - 1], r) = Apply(g[cur - 1], b[cur])
    <2>1. f[BeforeFirst] = g[BeforeFirst] /\ g[cur - 1] \in Meanings
        BY <1>3, <1>4 DEF Runs
    <2>2. \A s \in BeforeFirst .. cur - 1 : f[s] = g[s]
        BY <1>3, <1>4, <2>1, RunsTogether
    <2> QED BY <1>3, <2>1, <2>2
<1>5. \A g, f : Runs(g, b) /\ Runs(f, Without(b, r.erase \ {cur})) =>
             Same(AfterInserted(IF cur \in r.erase THEN f[cur - 1] ELSE Apply(f[cur - 1], b[cur]), r),
                  Apply(g[cur - 1], b[cur]))
    BY <1>2, <1>4, SameIsEquivalence
<1>6. /\ Rewritten(b, cur, r) \in ProperBlock
      /\ Same(Meaning(Circuit(Rewritten(b, cur, r))), Meaning(Circuit(b)))
    BY <1>5, RewriteKeepsMeaning
<1> QED BY <1>6 DEF KeepsMeaning

\* What the current operation is
LEMMA CurrentIsProper ==
    ASSUME NEW b, NEW cur, AtHome(b, cur)
    PROVE  b \in Block /\ b \in ProperBlock /\ cur \in Places /\ b[cur] \in ProperOps /\ cur <= cur
<1>1. b \in ProperBlock /\ cur \in Places /\ b[cur] # NoOp /\ cur \in Nat
    BY PlacesAreNaturals DEF AtHome
<1>2. b \in Block
    BY <1>1 DEF ProperBlock, Block, ProperOps
<1> QED BY <1>1, <1>2 DEF ProperBlock

LEMMA ProperPlain ==
    ASSUME NEW op \in ProperOps, NEW g \in Gates, IsGate(op, g, 1, 1)
    PROVE  LET c == op.ctrls[1]
               t == op.tgts[1]
           IN  /\ OnWire(Plain("h", <<>>, op.tgts), "h", t)
               /\ OnWire(Plain("h", <<>>, op.ctrls), "h", c)
               /\ \A k \in {"x", "z"} : /\ OnWires(Plain(k, op.ctrls, op.tgts), k, c, t)
                                        /\ OnWires(Plain(k, op.tgts, op.ctrls), k, t, c)
<1>1. /\ op.ctrls \in Seq(Wires) /\ op.tgts \in Seq(Wires) /\ Len(op.ctrls) = 1 /\ Len(op.tgts) = 1
      /\ op.ctrls[1] # op.tgts[1]
    BY ProperTargets DEF IsGate
<1>2. ASSUME NEW k \in {"x", "z", "h"}, NEW cs \in Seq(Wires), NEW ts \in Seq(Wires),
             Len(ts) = 1, Len(cs) \in {0, 1}, Len(cs) = 1 => cs[1] # ts[1]
      PROVE  Plain(k, cs, ts) \in ProperOps
    <2> DEFINE o == Plain(k, cs, ts)
    <2>1. o \in Op /\ o.gate = k /\ o.tgts = ts /\ o.ctrls = cs
        <3>1. k \in Gates
            BY DEF Gates
        <3> QED BY <3>1, PlainIsOp DEF Plain, Operation
    <2> HIDE DEF o
    <2>2. ts # <<>> /\ DOMAIN ts = {1}
        BY <1>2
    <2>3. \A j \in DOMAIN cs : j = 1 /\ Len(cs) = 1
        BY <1>2
    <2>4. k \notin Rotations /\ k # "swap"
        BY DEF Rotations
    <2>5. o \in ProperOps
        BY <1>2, <2>1, <2>2, <2>3, <2>4 DEF ProperOps
    <2> QED BY <2>5 DEF o
<1>3. /\ Plain("h", <<>>, op.tgts) \in ProperOps /\ Plain("h", <<>>, op.ctrls) \in ProperOps
      /\ \A k \in {"x", "z"} : Plain(k, op.ctrls, op.tgts) \in ProperOps
                               /\ Plain(k, op.tgts, op.ctrls) \in ProperOps
    <2>1. op.ctrls[1] # op.tgts[1] /\ op.tgts[1] # op.ctrls[1]
        BY <1>1
    <2>2. Plain("h", <<>>, op.tgts) \in ProperOps /\ Plain("h", <<>>, op.ctrls) \in ProperOps
        <3> DEFINE none == <<>>
        <3>1. none \in Seq(Wires) /\ Len(none) = 0
            OBVIOUS
        <3> HIDE DEF none
        <3>2. Len(none) \in {0, 1} /\ ~ Len(none) = 1
            BY <3>1
        <3>3. Plain("h", none, op.tgts) \in ProperOps
            BY <1>1, <1>2, <3>1, <3>2
        <3>4. Plain("h", none, op.ctrls) \in ProperOps
            BY <1>1, <1>2, <3>1, <3>2
        <3> QED BY <3>3, <3>4 DEF none
    <2>3. ASSUME NEW k \in {"x", "z"}
          PROVE  Plain(k, op.ctrls, op.tgts) \in ProperOps /\ Plain(k, op.tgts, op.ctrls) \in ProperOps
        BY <1>1, <1>2, <2>1
    <2> QED BY <2>2, <2>3
<1> QED BY <1>1, <1>3 DEF OnWire, OnWires, Plain, Operation

LEMMA GateOnWires ==
    ASSUME NEW op \in ProperOps, NEW g, IsGate(op, g, 1, 1)
    PROVE  OnWires(op, g, op.ctrls[1], op.tgts[1])
BY DEF OnWires, IsGate

\* What is inserted, operation by operation
LEMMA SlotsOfThree ==
    ASSUME NEW E, NEW o1 \in ProperOps, NEW o2 \in ProperOps, NEW o3 \in ProperOps
    PROVE  LET r == Rewrite(E, <<o1, o2, o3>>)
           IN  /\ Len(r.insert) = 3 /\ \A k \in 1 .. 3 : r.insert[k] \in ProperOps
               /\ \A m : AfterInserted(m, r) = Apply(Apply(Apply(m, o1), o2), o3)
<1> DEFINE q == <<o1, o2, o3>>
           r == Rewrite(E, q)
           s == r.insert
<1>1. /\ Len(s) = 3 /\ s[1] = o1 /\ s[2] = o2 /\ s[3] = o3
    BY DEF Rewrite
<1> HIDE DEF s
<1>2. /\ Slot(r, 1) = o1 /\ Slot(r, 2) = o2 /\ Slot(r, 3) = o3
      /\ Slot(r, 4) = NoOp /\ Slot(r, 5) = NoOp
    BY <1>1 DEF Slot, s
<1>3. o1 # NoOp /\ o2 # NoOp /\ o3 # NoOp
    BY NoOpIsNoOp
<1>4. \A m : AfterInserted(m, r) = Apply(Apply(Apply(m, o1), o2), o3)
    BY <1>2, <1>3 DEF AfterInserted, AfterFive, After
<1>5. \A k \in 1 .. 3 : r.insert[k] \in ProperOps
    BY <1>1 DEF s
<1> QED BY <1>1, <1>4, <1>5 DEF s

LEMMA SlotsOfFive ==
    ASSUME NEW E, NEW o1 \in ProperOps, NEW o2 \in ProperOps, NEW o3 \in ProperOps,
           NEW o4 \in ProperOps, NEW o5 \in ProperOps
    PROVE  LET r == Rewrite(E, <<o1, o2, o3, o4, o5>>)
           IN  /\ Len(r.insert) = 5 /\ \A k \in 1 .. 5 : r.insert[k] \in ProperOps
               /\ \A m : AfterInserted(m, r) = Apply(Apply(Apply(Apply(Apply(m, o1), o2), o3), o4), o5)
<1> DEFINE q == <<o1, o2, o3, o4, o5>>
           r == Rewrite(E, q)
           s == r.insert
<1>1. /\ Len(s) = 5 /\ s[1] = o1 /\ s[2] = o2 /\ s[3] = o3 /\ s[4] = o4 /\ s[5] = o5
    BY DEF Rewrite
<1> HIDE DEF s
<1>2. /\ Slot(r, 1) = o1 /\ Slot(r, 2) = o2 /\ Slot(r, 3) = o3
      /\ Slot(r, 4) = o4 /\ Slot(r, 5) = o5
    BY <1>1 DEF Slot, s
<1>3. o1 # NoOp /\ o2 # NoOp /\ o3 # NoOp /\ o4 # NoOp /\ o5 # NoOp
    BY NoOpIsNoOp
<1>4. \A m : AfterInserted(m, r) = Apply(Apply(Apply(Apply(Apply(m, o1), o2), o3), o4), o5)
    BY <1>2, <1>3 DEF AfterInserted, AfterFive, After
<1>5. \A k \in 1 .. 5 : r.insert[k] \in ProperOps
    BY <1>1 DEF s
<1> QED BY <1>1, <1>4, <1>5 DEF s

LEMMA SlotsOfTwo ==
    ASSUME NEW E, NEW o1 \in ProperOps, NEW o2 \in ProperOps
    PROVE  LET r == Rewrite(E, <<o1, o2>>)
           IN  /\ Len(r.insert) = 2 /\ \A k \in 1 .. 2 : r.insert[k] \in ProperOps
               /\ \A m : AfterInserted(m, r) = Apply(Apply(m, o1), o2)
<1> DEFINE q == <<o1, o2>>
           r == Rewrite(E, q)
           s == r.insert
<1>1. /\ Len(s) = 2 /\ s[1] = o1 /\ s[2] = o2
    BY DEF Rewrite
<1> HIDE DEF s
<1>2. /\ Slot(r, 1) = o1 /\ Slot(r, 2) = o2 /\ Slot(r, 3) = NoOp
      /\ Slot(r, 4) = NoOp /\ Slot(r, 5) = NoOp
    BY <1>1 DEF Slot, s
<1>3. o1 # NoOp /\ o2 # NoOp
    BY NoOpIsNoOp
<1>4. \A m : AfterInserted(m, r) = Apply(Apply(m, o1), o2)
    BY <1>2, <1>3 DEF AfterInserted, AfterFive, After
<1>5. \A k \in 1 .. 2 : r.insert[k] \in ProperOps
    BY <1>1 DEF s
<1> QED BY <1>1, <1>4, <1>5 DEF s

LEMMA SlotsOfOne ==
    ASSUME NEW E, NEW o1 \in ProperOps
    PROVE  LET r == Rewrite(E, <<o1>>)
           IN  /\ Len(r.insert) = 1 /\ \A k \in 1 .. 1 : r.insert[k] \in ProperOps
               /\ \A m : AfterInserted(m, r) = Apply(m, o1)
<1> DEFINE q == <<o1>>
           r == Rewrite(E, q)
           s == r.insert
<1>1. /\ Len(s) = 1 /\ s[1] = o1
    BY DEF Rewrite
<1> HIDE DEF s
<1>2. /\ Slot(r, 1) = o1 /\ Slot(r, 2) = NoOp /\ Slot(r, 3) = NoOp
      /\ Slot(r, 4) = NoOp /\ Slot(r, 5) = NoOp
    BY <1>1 DEF Slot, s
<1>3. o1 # NoOp
    BY NoOpIsNoOp
<1>4. \A m : AfterInserted(m, r) = Apply(m, o1)
    BY <1>2, <1>3 DEF AfterInserted, AfterFive, After
<1>5. \A k \in 1 .. 1 : r.insert[k] \in ProperOps
    BY <1>1 DEF s
<1> QED BY <1>1, <1>4, <1>5 DEF s

LEMMA DecompositionsKeepMeaning ==
    ASSUME NEW b, NEW cur, AtHome(b, cur)
    PROVE  /\ KeepsMeaning(b, cur, CxToHCzHPattern(b, cur))
           /\ KeepsMeaning(b, cur, ReplaceCzToHCxH(b, cur))
           /\ KeepsMeaning(b, cur, ReverseCNot(b, cur))
<1> DEFINE op == b[cur]
           c == op.ctrls[1]
           t == op.tgts[1]
           hT == Plain("h", <<>>, op.tgts)
           hC == Plain("h", <<>>, op.ctrls)
<1>1. b \in ProperBlock /\ cur \in Places /\ op \in ProperOps /\ cur <= cur
    BY CurrentIsProper
<1>2. KeepsMeaning(b, cur, NoRewrite)
    BY <1>1, NoRewriteKeeps DEF NoRewrite, Rewrite
<1>3. \A i : Rewrite({cur}, i).erase = {cur}
    BY DEF Rewrite
<1>4. ASSUME NEW g \in Gates, IsGate(op, g, 1, 1)
      PROVE  /\ OnWires(op, g, c, t) /\ OnWire(hT, "h", t) /\ OnWire(hC, "h", c)
             /\ \A k \in {"x", "z"} : /\ OnWires(Plain(k, op.ctrls, op.tgts), k, c, t)
                                      /\ OnWires(Plain(k, op.tgts, op.ctrls), k, t, c)
    BY <1>1, <1>4, ProperPlain, GateOnWires
<1>5. "x" \in Gates /\ "z" \in Gates
    BY DEF Gates
<1> HIDE DEF hT, hC, c, t
<1>6. ASSUME IsGate(op, "x", 1, 1)
      PROVE  KeepsMeaning(b, cur, Rewrite({cur}, <<hT, Plain("z", op.tgts, op.ctrls), hT>>))
    <2> DEFINE z == Plain("z", op.tgts, op.ctrls)
               r == Rewrite({cur}, <<hT, z, hT>>)
    <2>1. OnWires(op, "x", c, t) /\ OnWire(hT, "h", t) /\ OnWires(z, "z", t, c)
        BY <1>4, <1>5, <1>6
    <2>2. hT \in ProperOps /\ z \in ProperOps
        BY <2>1 DEF OnWire, OnWires
    <2> HIDE DEF op, z
    <2>3. /\ Len(r.insert) = 3 /\ \A k \in 1 .. 3 : r.insert[k] \in ProperOps
          /\ \A m : AfterInserted(m, r) = Apply(Apply(Apply(m, hT), z), hT)
        BY <2>2, SlotsOfThree
    <2>4. r.erase = {cur}
        BY <1>3
    <2> HIDE DEF r
    <2>5. ProperRewrite(b, cur, r)
        BY <1>1, <2>3, <2>4 DEF ProperRewrite
    <2>6. \A m \in Meanings : AfterInserted(m, r) = Apply(m, op)
        BY <2>1, <2>3, CxIsHCzH
    <2>7. KeepsMeaning(b, cur, r)
        BY <2>4, <2>5, <2>6, OneGateReplaced DEF op
    <2> QED BY <2>7 DEF r, z
<1>7. ASSUME IsGate(op, "z", 1, 1)
      PROVE  KeepsMeaning(b, cur, Rewrite({cur}, <<hT, Plain("x", op.ctrls, op.tgts), hT>>))
    <2> DEFINE x == Plain("x", op.ctrls, op.tgts)
               r == Rewrite({cur}, <<hT, x, hT>>)
    <2>1. OnWires(op, "z", c, t) /\ OnWire(hT, "h", t) /\ OnWires(x, "x", c, t)
        BY <1>4, <1>5, <1>7
    <2>2. hT \in ProperOps /\ x \in ProperOps
        BY <2>1 DEF OnWire, OnWires
    <2> HIDE DEF op, x
    <2>3. /\ Len(r.insert) = 3 /\ \A k \in 1 .. 3 : r.insert[k] \in ProperOps
          /\ \A m : AfterInserted(m, r) = Apply(Apply(Apply(m, hT), x), hT)
        BY <2>2, SlotsOfThree
    <2>4. r.erase = {cur}
        BY <1>3
    <2> HIDE DEF r
    <2>5. ProperRewrite(b, cur, r)
        BY <1>1, <2>3, <2>4 DEF ProperRewrite
    <2>6. \A m \in Meanings : AfterInserted(m, r) = Apply(m, op)
        BY <2>1, <2>3, CzIsHCxH
    <2>7. KeepsMeaning(b, cur, r)
        BY <2>4, <2>5, <2>6, OneGateReplaced DEF op
    <2> QED BY <2>7 DEF r, x
<1>8. ASSUME IsGate(op, "x", 1, 1)
      PROVE  KeepsMeaning(b, cur,
               Rewrite({cur}, <<hT, hC, Plain("x", op.tgts, op.ctrls), hT, hC>>))
    <2> DEFINE x == Plain("x", op.tgts, op.ctrls)
               r == Rewrite({cur}, <<hT, hC, x, hT, hC>>)
    <2>1. /\ OnWires(op, "x", c, t) /\ OnWire(hT, "h", t) /\ OnWire(hC, "h", c)
          /\ OnWires(x, "x", t, c)
        BY <1>4, <1>5, <1>8
    <2>2. hT \in ProperOps /\ hC \in ProperOps /\ x \in ProperOps
        BY <2>1 DEF OnWire, OnWires
    <2> HIDE DEF op, x
    <2>3. /\ Len(r.insert) = 5 /\ \A k \in 1 .. 5 : r.insert[k] \in ProperOps
          /\ \A m : AfterInserted(m, r) = Apply(Apply(Apply(Apply(Apply(m, hT), hC), x), hT), hC)
        BY <2>2, SlotsOfFive
    <2>4. r.erase = {cur}
        BY <1>3
    <2> HIDE DEF r
    <2>5. ProperRewrite(b, cur, r)
        BY <1>1, <2>3, <2>4 DEF ProperRewrite
    <2>6. \A m \in Meanings : AfterInserted(m, r) = Apply(m, op)
        BY <2>1, <2>3, CxIsReversed
    <2>7. KeepsMeaning(b, cur, r)
        BY <2>4, <2>5, <2>6, OneGateReplaced DEF op
    <2> QED BY <2>7 DEF r, x
<1> QED BY <1>2, <1>6, <1>7, <1>8
        DEF CxToHCzHPattern, ReplaceCzToHCxH, ReverseCNot, hT, hC

\* Angles that keep their meaning when they are brought into one turn: those of a gate
\* without controls (there a full turn is a phase nobody sees) that are constants and
\* either multiples of a quarter turn or in the range already.
AngleIsKept(op) ==
    op.gate \in Rotations =>
      /\ op.ctrls = <<>> /\ op.params[1].constant
      /\ op.params[1].ticks % 4 # 2 \/ op.params[1].ticks \in 0 .. FullTurn - 1

\* The one angle of a rotation
LEMMA AngleOfRotation ==
    ASSUME NEW op \in ProperOps, op.gate \in Rotations
    PROVE  /\ op.params \in Seq(Params) /\ DOMAIN op.params = {1} /\ op.params # <<>>
           /\ op.params[1] \in Params /\ op.params[1].ticks \in Int /\ op.adj \in BOOLEAN
<1>1. op \in Op /\ Len(op.params) = 1
    BY DEF ProperOps
<1>2. op.params \in Seq(Params) /\ op.adj \in BOOLEAN
    BY <1>1 DEF Op
<1>3. DOMAIN op.params = {1} /\ op.params[1] \in Params /\ op.params # <<>>
    BY <1>1, <1>2, SMTT(30)
<1> QED BY <1>2, <1>3 DEF Params

LEMMA NullAngle ==
    ASSUME NEW op \in ProperOps, op.gate \in Rotations,
           NEW angle, angle = extractDoubleArgumentValue(op.params[1]),
           checkDoublePiMultiplies(angle) \/ angle = 0
    PROVE  NullRotation(op)
<1>1. op.params[1] \in Params /\ op.params[1].ticks \in Int /\ op.params # <<>> /\ op.adj \in BOOLEAN
    BY AngleOfRotation
<1>2. op.params[1].constant /\ op.params[1].ticks = 0
    BY <1>1 DEF extractDoubleArgumentValue, checkDoublePiMultiplies, AsFloat, FullTurn,
                MinusOneRadian, Params
<1>3. QuarterTurns(op) = 0
    <2> DEFINE t == op.params[1].ticks
    <2>1. (IF op.adj THEN - t ELSE t) = 0
        <3>1. t = 0
            BY <1>2
        <3>2. \A k \in Int : - k = 0 - k
            OBVIOUS
        <3>3. 0 - 0 = 0
            OBVIOUS
        <3> QED BY <1>1, <3>1, <3>2, <3>3, Zenon
    <2>2. ((0 + 1) \div 4) % 4 = 0 /\ ((0 + 1) \div 4) % 8 = 0
        OBVIOUS
    <2> QED BY <2>1, <2>2 DEF QuarterTurns
<1>4. Angle(op) = <<0>>
    <2>1. op.params[1].ticks % 4 # 2
        BY <1>2
    <2> QED BY <1>1, <1>2, <1>3, <2>1 DEF Angle
<1> QED BY <1>4 DEF NullRotation, Rotations

LEMMA NullRotationKeepsMeaning ==
    ASSUME NEW b, NEW cur, AtHome(b, cur)
    PROVE  KeepsMeaning(b, cur, nullRotationCancellation(b, cur))
<1> DEFINE op == b[cur]
           r == Rewrite({cur}, <<>>)
<1>1. b \in ProperBlock /\ cur \in Places /\ op \in ProperOps /\ cur <= cur
    BY CurrentIsProper
<1>2. KeepsMeaning(b, cur, NoRewrite)
    BY <1>1, NoRewriteKeeps DEF NoRewrite, Rewrite
<1>3. ASSUME op.gate \in Rotations,
             \A i \in DOMAIN op.params :
               LET param == extractDoubleArgumentValue(op.params[i])
               IN  checkDoublePiMultiplies(param) \/ param = 0
      PROVE  KeepsMeaning(b, cur, r)
    <2>1. 1 \in DOMAIN op.params
        BY <1>1, <1>3, AngleOfRotation
    <2>2. NullRotation(op)
        <3> HIDE DEF op
        <3> QED BY <1>1, <1>3, <2>1, NullAngle
    <2>3. r.erase = {cur} /\ Len(r.insert) = 0 /\ r.insert = <<>>
        BY DEF Rewrite
    <2> HIDE DEF r
    <2>4. ProperRewrite(b, cur, r)
        BY <1>1, <2>3 DEF ProperRewrite
    <2>5. \A m : AfterInserted(m, r) = m
        <3>1. \A k \in 1 .. 5 : Slot(r, k) = NoOp
            BY <2>3 DEF Slot
        <3> QED BY <3>1 DEF AfterInserted, AfterFive, After
    <2>6. \A m \in Meanings : AfterInserted(m, r) = Apply(m, op)
        BY <1>1, <2>2, <2>5, ApplyNull
    <2> QED BY <2>3, <2>4, <2>6, OneGateReplaced
<1> QED BY <1>2, <1>3 DEF nullRotationCancellation

\* Two gates with the same angle do the same.
LEMMA SameAngle ==
    ASSUME NEW op \in ProperOps, op.gate \in Rotations, NEW new \in ProperOps,
           new.gate = op.gate, new.ctrls = op.ctrls, new.tgts = op.tgts, Angle(new) = Angle(op),
           NEW m \in Meanings
    PROVE  Apply(m, new) = Apply(m, op)
<1>1. ~ Moves(op) /\ ~ Moves(new) /\ (NullRotation(new) <=> NullRotation(op))
    BY DEF Moves, IsPauliGate, Rotations, NullRotation
<1>2. Event(m.images, new) = Event(m.images, op)
    BY DEF Event, ControlImages
<1> QED BY <1>1, <1>2, ApplyEvent, ApplyNull

\* The quarter turns of an angle and of the angle in one turn
LEMMA QuartersOfNormal ==
    ASSUME NEW t \in Int
    PROVE  LET u == AsFloat(t) % FullTurn
           IN  /\ u \in 0 .. 15
               /\ ((u + 1) \div 4) % 4 = ((t + 1) \div 4) % 4
               /\ ((- u + 1) \div 4) % 4 = ((- t + 1) \div 4) % 4
               /\ t % 4 # 2 => u % 4 # 2
               /\ t \in 0 .. 15 => u = t
<1> DEFINE k == t \div 16
           v == t % 16
<1>1. k \in Int /\ v \in 0 .. 15 /\ t = 16 * k + v
    OBVIOUS
<1> HIDE DEF k, v
<1>2. /\ ((t + 1) \div 4) = 4 * k + ((v + 1) \div 4)
      /\ ((- t + 1) \div 4) = ((- v + 1) \div 4) - (4 * k)
      /\ t % 4 = v % 4
    BY <1>1
<1>3. /\ (4 * k + ((v + 1) \div 4)) % 4 = ((v + 1) \div 4) % 4
      /\ (((- v + 1) \div 4) - (4 * k)) % 4 = ((- v + 1) \div 4) % 4
    BY <1>1
<1>4. CASE v # 0
    <2>1. t % 16 # 0
        BY <1>4 DEF v
    <2>2. AsFloat(t) % FullTurn = v
        BY <2>1 DEF AsFloat, FullTurn, v
    <2>3. t \in 0 .. 15 => v = t
        BY DEF v
    <2> QED BY <1>1, <1>2, <1>3, <2>2, <2>3
<1>5. CASE v = 0
    <2>1. t % 16 = 0
        BY <1>5 DEF v
    <2>2. CASE t = 0
        BY <2>2 DEF AsFloat, FullTurn
    <2>3. CASE t > 0
        <3>1. AsFloat(t) % FullTurn = 1
            BY <2>1, <2>3 DEF AsFloat, FullTurn
        <3>2. t \notin 0 .. 15
            BY <2>1, <2>3
        <3> QED BY <1>2, <1>3, <1>5, <3>1, <3>2
    <2>4. CASE t < 0
        <3>1. AsFloat(t) % FullTurn = 15
            BY <2>1, <2>4 DEF AsFloat, FullTurn
        <3> QED BY <1>2, <1>3, <1>5, <2>4, <3>1
    <2> QED BY <2>2, <2>3, <2>4
<1> QED BY <1>1, <1>4, <1>5

\* An operation on the wires of a proper one
LEMMA SameShape ==
    ASSUME NEW op \in ProperOps, NEW new \in Op, new.ctrls = op.ctrls, new.tgts = op.tgts,
           new.gate = "swap" => op.gate = "swap", new.gate \in Rotations => Len(new.params) = 1
    PROVE  new \in ProperOps
BY DEF ProperOps

LEMMA NormalizedIsKept ==
    ASSUME NEW op \in ProperOps, op.gate \in Rotations, AngleIsKept(op),
           NEW new, new = [op EXCEPT !.params =
                             [i \in DOMAIN op.params |-> NormalizedAngle(op.params[i])]]
    PROVE  /\ new \in ProperOps /\ new.gate = op.gate /\ new.ctrls = op.ctrls
           /\ new.tgts = op.tgts /\ Angle(new) = Angle(op)
<1> DEFINE a == op.params[1]
           n == NormalizedAngle(a)
           ps == [i \in {1} |-> n]
           t == a.ticks
           u == AsFloat(t) % FullTurn
<1>1. /\ DOMAIN op.params = {1} /\ op.params # <<>> /\ a \in Params /\ t \in Int
      /\ op.adj \in BOOLEAN /\ op \in Op
    BY AngleOfRotation DEF ProperOps
<1>2. op.ctrls = <<>> /\ a.constant /\ (t % 4 # 2 \/ t \in 0 .. 15)
    BY DEF AngleIsKept, FullTurn
<1>3. n = [constant |-> TRUE, ticks |-> u]
    BY <1>2 DEF NormalizedAngle, extractDoubleArgumentValue, createFloatValue
<1>4. /\ u \in 0 .. 15
      /\ ((u + 1) \div 4) % 4 = ((t + 1) \div 4) % 4
      /\ ((- u + 1) \div 4) % 4 = ((- t + 1) \div 4) % 4
      /\ t % 4 # 2 => u % 4 # 2
      /\ t \in 0 .. 15 => u = t
    BY <1>1, QuartersOfNormal
<1>5. [i \in DOMAIN op.params |-> NormalizedAngle(op.params[i])] = ps
    BY <1>1
<1> HIDE DEF u
<1>6. n \in Params /\ n.constant /\ n.ticks = u
    BY <1>3, <1>4 DEF Params
<1> HIDE DEF n
<1>7. ps \in Seq(Params) /\ Len(ps) = 1 /\ ps[1] = n /\ ps # <<>>
    <2>1. ps \in [1 .. 1 -> Params] /\ 1 \in 1 .. 1
        BY <1>6
    <2> HIDE DEF ps, n
    <2>2. \A p \in [1 .. 1 -> Params] : p \in Seq(Params) /\ Len(p) = 1
        OBVIOUS
    <2>3. ps \in Seq(Params) /\ Len(ps) = 1
        BY <2>1, <2>2
    <2>4. ps # <<>>
        BY <2>3, SMTT(30)
    <2> QED BY <2>3, <2>4 DEF ps
<1> HIDE DEF ps, a
<1>8. /\ new \in Op /\ new.params = ps /\ new.gate = op.gate /\ new.ctrls = op.ctrls
      /\ new.tgts = op.tgts /\ new.adj = op.adj
    BY <1>1, <1>5, <1>7 DEF Op
<1>9. new \in ProperOps
    BY <1>7, <1>8, SameShape
<1>10. QuarterTurns(new) = QuarterTurns(op)
    <2>1. QuarterTurns(op) = (((IF op.adj THEN - t ELSE t) + 1) \div 4) % 4
        BY <1>2 DEF QuarterTurns, a
    <2>2. QuarterTurns(new) = (((IF op.adj THEN - u ELSE u) + 1) \div 4) % 4
        BY <1>2, <1>6, <1>7, <1>8 DEF QuarterTurns
    <2> HIDE DEF t
    <2> QED BY <1>1, <1>4, <2>1, <2>2
<1>11. Angle(new) = Angle(op)
    <2>1. CASE t % 4 # 2
        <3>1. Angle(op) = <<QuarterTurns(op)>>
            BY <1>1, <1>2, <2>1 DEF Angle, a
        <3>2. Angle(new) = <<QuarterTurns(new)>>
            BY <1>4, <1>6, <1>7, <1>8, <2>1 DEF Angle
        <3> QED BY <1>10, <3>1, <3>2
    <2>2. CASE t % 4 = 2
        <3>1. u = t
            BY <1>2, <1>4, <2>2
        <3>2. n = a
            BY <1>1, <1>2, <1>3, <3>1 DEF Params
        <3>3. Angle(op) = <<op.adj, a>>
            BY <1>1, <2>2 DEF Angle, a
        <3>4. Angle(new) = <<op.adj, n>>
            BY <1>6, <1>7, <1>8, <2>2, <3>1 DEF Angle
        <3> QED BY <3>2, <3>3, <3>4
    <2> QED BY <2>1, <2>2
<1> QED BY <1>8, <1>9, <1>11

LEMMA NormalizedKeepsMeaning ==
    ASSUME NEW b, NEW cur, AtHome(b, cur), AngleIsKept(b[cur])
    PROVE  KeepsMeaning(b, cur, normalizeAngleOfRotations(b, cur))
<1> DEFINE op == b[cur]
           new == [op EXCEPT !.params = [i \in DOMAIN op.params |-> NormalizedAngle(op.params[i])]]
           r == Rewrite({cur}, <<new>>)
<1>1. b \in ProperBlock /\ cur \in Places /\ op \in ProperOps /\ cur <= cur
    BY CurrentIsProper
<1>2. KeepsMeaning(b, cur, NoRewrite)
    BY <1>1, NoRewriteKeeps DEF NoRewrite, Rewrite
<1>3. ASSUME op.gate \in Rotations PROVE KeepsMeaning(b, cur, r)
    <2>1. /\ new \in ProperOps /\ new.gate = op.gate /\ new.ctrls = op.ctrls
          /\ new.tgts = op.tgts /\ Angle(new) = Angle(op)
        BY <1>1, <1>3, NormalizedIsKept
    <2> HIDE DEF new
    <2>2. /\ Len(r.insert) = 1 /\ \A k \in 1 .. 1 : r.insert[k] \in ProperOps
          /\ \A m : AfterInserted(m, r) = Apply(m, new)
        BY <2>1, SlotsOfOne
    <2>3. r.erase = {cur}
        BY DEF Rewrite
    <2> HIDE DEF r
    <2>4. ProperRewrite(b, cur, r)
        BY <1>1, <2>2, <2>3 DEF ProperRewrite
    <2>5. \A m \in Meanings : AfterInserted(m, r) = Apply(m, op)
        BY <1>1, <1>3, <2>1, <2>2, SameAngle
    <2> QED BY <2>3, <2>4, <2>5, OneGateReplaced
<1> QED BY <1>2, <1>3 DEF normalizeAngleOfRotations
-----------------------------------------------------------------------------
(* Two gates in a row *)

LEMMA SThenZ ==
    ASSUME NEW m \in Meanings, NEW t, NEW s, OnWire(s, "s", t), NEW z, OnWire(z, "z", t),
           NEW a, OnWire(a, "s", t), a.adj = (~ s.adj), s.adj \in BOOLEAN
    PROVE  Apply(Apply(m, s), z) = Apply(m, a)
<1> DEFINE m1 == Apply(m, s)
           m2 == Apply(m1, z)
           n == Apply(m, a)
<1>1. SStep(s.adj, m, m1, t) /\ SStep(a.adj, m, n, t)
    BY EffectOfS
<1>2. m1 \in Meanings /\ n \in Meanings /\ t \in Wires
    BY <1>1 DEF SStep
<1> HIDE DEF m1, n
<1>3. PauliStep("z", m1, m2, t)
    BY <1>2, EffectOfPauli
<1> HIDE DEF m2
<1>4. YImage(m.images[t]) \in PauliOperators
    BY <1>2, MeaningParts, ImagesOfWire, YImageIsPauli
<1> DEFINE y == YImage(m.images[t])
<1> HIDE DEF y
<1>5. Phased(2, Phased(2, y)) = y /\ Phased(0, y) = y
    BY <1>4, Signs DEF y
<1>6. m1.images[t].x = Phased(IF s.adj THEN 0 ELSE 2, y) /\ n.images[t].x = Phased(IF a.adj THEN 0 ELSE 2, y)
      /\ m1.images[t].z = m.images[t].z /\ n.images[t].z = m.images[t].z
    BY <1>1 DEF SStep, y
<1>7. m2.images[t].x = Phased(2, m1.images[t].x) /\ m2.images[t].z = m1.images[t].z
    BY <1>3 DEF PauliStep
<1>8. m2.images[t].x = n.images[t].x
    <2>1. CASE s.adj
        BY <1>5, <1>6, <1>7, <2>1
    <2>2. CASE ~ s.adj
        BY <1>5, <1>6, <1>7, <2>2
    <2> QED BY <2>1, <2>2
<1>9. m2 \in Meanings /\ m2.events = n.events
    BY <1>1, <1>3 DEF SStep, PauliStep, OnlyWires
<1>10. ASSUME NEW w \in Wires
       PROVE  m2.images[w].x = n.images[w].x /\ m2.images[w].z = n.images[w].z
    <2>1. CASE w = t
        BY <1>6, <1>7, <1>8, <2>1
    <2>2. CASE w # t
        BY <1>1, <1>3, <2>2 DEF SStep, PauliStep, OnlyWires
    <2> QED BY <2>1, <2>2
<1>11. m2 = n
    BY <1>2, <1>9, <1>10, EqualMeanings
<1> QED BY <1>11 DEF m2, m1, n

\* A z on the control of a cx and an x on its target go through.
LEMMA ThroughCx ==
    ASSUME NEW m \in Meanings, NEW c, NEW t, NEW cx, OnWires(cx, "x", c, t),
           NEW g \in {"x", "z"}, NEW p, OnWire(p, g, IF g = "z" THEN c ELSE t)
    PROVE  Apply(Apply(m, p), cx) = Apply(Apply(m, cx), p)
<1> DEFINE w0 == IF g = "z" THEN c ELSE t
           m1 == Apply(m, p)
           m2 == Apply(m1, cx)
           n1 == Apply(m, cx)
           n2 == Apply(n1, p)
<1>1. PauliStep(g, m, m1, w0) /\ ControlledStep("x", m, n1, c, t)
    BY EffectOfPauli, EffectOfControlledPauli
<1>2. m1 \in Meanings /\ n1 \in Meanings /\ c \in Wires /\ t \in Wires /\ c # t
    BY <1>1 DEF PauliStep, ControlledStep
<1> HIDE DEF m1, n1
<1>3. ControlledStep("x", m1, m2, c, t)
    BY <1>2, EffectOfControlledPauli
<1>4. PauliStep(g, n1, n2, w0)
    BY <1>2, EffectOfPauli
<1> HIDE DEF m2, n2
<1> DEFINE i == m.images
<1>5. /\ i[c].x \in PauliOperators /\ i[c].z \in PauliOperators
      /\ i[t].x \in PauliOperators /\ i[t].z \in PauliOperators
    BY <1>2, ImagesArePaulis
<1>6. /\ Times(Phased(2, i[c].x), i[t].x) = Phased(2, Times(i[c].x, i[t].x))
      /\ Times(i[c].z, Phased(2, i[t].z)) = Phased(2, Times(i[c].z, i[t].z))
    <2> HIDE DEF i
    <2> QED BY <1>5, Signs
<1>7. m2 \in Meanings /\ n2 \in Meanings /\ m2.events = n2.events
    BY <1>1, <1>3, <1>4 DEF PauliStep, ControlledStep, OnlyWires
<1>8. ASSUME NEW w \in Wires
      PROVE  m2.images[w].x = n2.images[w].x /\ m2.images[w].z = n2.images[w].z
    <2>1. CASE g = "z"
        <3>1. m1.images[t] = m.images[t] /\ n2.images[t] = n1.images[t]
            BY <1>1, <1>2, <1>4, <2>1 DEF PauliStep, OnlyWires
        <3>2. CASE w = c
            BY <1>1, <1>3, <1>4, <1>6, <2>1, <3>1, <3>2 DEF PauliStep, ControlledStep, ImageOf
        <3>3. CASE w = t
            BY <1>1, <1>3, <1>4, <1>6, <2>1, <3>1, <3>3 DEF PauliStep, ControlledStep, ImageOf
        <3>4. CASE w # c /\ w # t
            BY <1>1, <1>3, <1>4, <2>1, <3>4 DEF PauliStep, ControlledStep, OnlyWires
        <3> QED BY <3>2, <3>3, <3>4
    <2>2. CASE g = "x"
        <3>1. m1.images[c] = m.images[c] /\ n2.images[c] = n1.images[c]
            BY <1>1, <1>2, <1>4, <2>2 DEF PauliStep, OnlyWires
        <3>2. CASE w = c
            BY <1>1, <1>3, <1>4, <1>6, <2>2, <3>1, <3>2 DEF PauliStep, ControlledStep, ImageOf
        <3>3. CASE w = t
            BY <1>1, <1>3, <1>4, <1>6, <2>2, <3>1, <3>3 DEF PauliStep, ControlledStep, ImageOf
        <3>4. CASE w # c /\ w # t
            BY <1>1, <1>3, <1>4, <2>2, <3>4 DEF PauliStep, ControlledStep, OnlyWires
        <3> QED BY <3>2, <3>3, <3>4
    <2> QED BY <2>1, <2>2
<1>9. m2 = n2
    BY <1>7, <1>8, EqualMeanings
<1> QED BY <1>9 DEF m1, m2, n1, n2

LEMMA PauliBetweenH ==
    ASSUME NEW m \in Meanings, NEW t, NEW g \in {"x", "y", "z"},
           NEW h, OnWire(h, "h", t), NEW p, OnWire(p, g, t), NEW k, OnWire(k, "h", t),
           NEW q, OnWire(q, ThroughH[g], t)
    PROVE  Apply(Apply(Apply(m, h), p), k) = Apply(m, q)
<1> DEFINE m1 == Apply(m, h)
<1>1. m1 \in Meanings
    BY ApplyIsMeaning DEF OnWire
<1>2. Apply(m1, h) = m
    BY HTwice
<1> HIDE DEF m1
<1>3. Apply(Apply(m1, p), k) = Apply(Apply(m1, h), q)
    BY <1>1, PauliThroughH
<1> QED BY <1>2, <1>3 DEF m1

-----------------------------------------------------------------------------
(* Operations on different wires *)

Off(op, W) == WiresOf(op) \cap W = {}

\* An operation that is not on some wires neither sees nor changes them.
OffStep(m, n, mm, nn, W) ==
    OnlyWires(mm, nn, W) /\ \A w \in W : mm.images[w] = m.images[w] /\ nn.images[w] = n.images[w]

LEMMA Operands ==
    ASSUME NEW op \in ProperOps, NEW W, Off(op, W)
    PROVE  /\ op.tgts[1] \in Wires \ W
           /\ Len(op.ctrls) = 1 => op.ctrls[1] \in Wires \ W /\ op.ctrls[1] # op.tgts[1]
           /\ op.gate = "swap" => op.tgts[2] \in Wires \ W /\ op.tgts[1] # op.tgts[2]
           /\ \A k \in DOMAIN op.tgts : op.tgts[k] \in Wires \ W
           /\ \A k \in DOMAIN op.ctrls : op.ctrls[k] \in Wires \ W
<1>1. /\ op.tgts \in Seq(Wires) /\ op.ctrls \in Seq(Wires) /\ op.tgts # <<>>
      /\ op.gate = "swap" => Len(op.tgts) = 2
    BY ProperTargets DEF ProperOps
<1>2. /\ \A k \in DOMAIN op.tgts : op.tgts[k] \in Wires
      /\ \A k \in DOMAIN op.ctrls : op.ctrls[k] \in Wires
    BY <1>1
<1>3. /\ Len(op.ctrls) = 1 => op.ctrls[1] # op.tgts[1]
      /\ op.gate = "swap" => op.tgts[1] # op.tgts[2]
    BY ProperTargets
<1>4. 1 \in DOMAIN op.tgts
    BY <1>1
<1>5. Len(op.ctrls) = 1 => 1 \in DOMAIN op.ctrls
    BY <1>1
<1>6. op.gate = "swap" => 2 \in DOMAIN op.tgts
    BY <1>1
<1> QED BY <1>2, <1>3, <1>4, <1>5, <1>6 DEF Off, WiresOf

\* Two changes of the images on wires outside W
LEMMA OffImages ==
    ASSUME NEW m \in Meanings, NEW n \in Meanings, NEW W \in SUBSET Wires, OnlyWires(m, n, W),
           NEW mm, NEW nn, mm.events = m.events, nn.events = n.events,
           NEW V \in SUBSET (Wires \ W),
           \A v \in V : nn.images[v] = mm.images[v],
           \A v \in Wires \ V : mm.images[v] = m.images[v] /\ nn.images[v] = n.images[v]
    PROVE  OffStep(m, n, mm, nn, W)
<1>1. nn.events = mm.events /\ \A w \in W : w \in Wires \ V
    BY DEF OnlyWires
<1>2. ASSUME NEW v \in Wires \ W PROVE nn.images[v] = mm.images[v]
    <2>1. n.images[v] = m.images[v]
        BY DEF OnlyWires
    <2>2. CASE v \in V
        BY <2>2
    <2>3. CASE v \notin V
        BY <2>1, <2>3
    <2> QED BY <2>2, <2>3
<1> QED BY <1>1, <1>2 DEF OffStep, OnlyWires

\* A change of one image
LEMMA OffOne ==
    ASSUME NEW m \in Meanings, NEW n \in Meanings, NEW W \in SUBSET Wires, OnlyWires(m, n, W),
           NEW t \in Wires \ W, NEW i
    PROVE  OffStep(m, n, Meant([m.images EXCEPT ![t] = i], m.events),
                         Meant([n.images EXCEPT ![t] = i], n.events), W)
<1> DEFINE mm == Meant([m.images EXCEPT ![t] = i], m.events)
           nn == Meant([n.images EXCEPT ![t] = i], n.events)
<1>1. m.images \in [Wires -> Pairs] /\ n.images \in [Wires -> Pairs]
    BY MeaningParts DEF Images
<1>2. /\ mm.events = m.events /\ mm.images = [m.images EXCEPT ![t] = i]
      /\ nn.events = n.events /\ nn.images = [n.images EXCEPT ![t] = i]
    BY DEF Meant
<1> HIDE DEF mm, nn
<1>3. /\ \A v \in {t} : nn.images[v] = mm.images[v]
      /\ \A v \in Wires \ {t} : mm.images[v] = m.images[v] /\ nn.images[v] = n.images[v]
    BY <1>1, <1>2
<1> DEFINE V == {t}
<1>4. V \in SUBSET (Wires \ W)
    OBVIOUS
<1>5. /\ \A v \in V : nn.images[v] = mm.images[v]
      /\ \A v \in Wires \ V : mm.images[v] = m.images[v] /\ nn.images[v] = n.images[v]
    BY <1>3
<1> HIDE DEF V
<1>6. mm.events = m.events /\ nn.events = n.events
    BY <1>2
<1>7. OffStep(m, n, mm, nn, W)
    BY <1>4, <1>5, <1>6, OffImages
<1> QED BY <1>7 DEF mm, nn

\* A change of two images
LEMMA OffTwo ==
    ASSUME NEW m \in Meanings, NEW n \in Meanings, NEW W \in SUBSET Wires, OnlyWires(m, n, W),
           NEW t \in Wires \ W, NEW u \in Wires \ W, t # u, NEW i, NEW j
    PROVE  OffStep(m, n, Meant([m.images EXCEPT ![t] = i, ![u] = j], m.events),
                         Meant([n.images EXCEPT ![t] = i, ![u] = j], n.events), W)
<1> DEFINE mm == Meant([m.images EXCEPT ![t] = i, ![u] = j], m.events)
           nn == Meant([n.images EXCEPT ![t] = i, ![u] = j], n.events)
<1>1. m.images \in [Wires -> Pairs] /\ n.images \in [Wires -> Pairs]
    BY MeaningParts DEF Images
<1>2. /\ mm.events = m.events /\ mm.images = [m.images EXCEPT ![t] = i, ![u] = j]
      /\ nn.events = n.events /\ nn.images = [n.images EXCEPT ![t] = i, ![u] = j]
    BY DEF Meant
<1> HIDE DEF mm, nn
<1>3. /\ \A v \in {t, u} : nn.images[v] = mm.images[v]
      /\ \A v \in Wires \ {t, u} : mm.images[v] = m.images[v] /\ nn.images[v] = n.images[v]
    BY <1>1, <1>2
<1> DEFINE V == {t, u}
<1>4. V \in SUBSET (Wires \ W)
    OBVIOUS
<1>5. /\ \A v \in V : nn.images[v] = mm.images[v]
      /\ \A v \in Wires \ V : mm.images[v] = m.images[v] /\ nn.images[v] = n.images[v]
    BY <1>3
<1> HIDE DEF V
<1>6. mm.events = m.events /\ nn.events = n.events
    BY <1>2
<1>7. OffStep(m, n, mm, nn, W)
    BY <1>4, <1>5, <1>6, OffImages
<1> QED BY <1>7 DEF mm, nn

\* The event of an operation depends on the images of its operands.
LEMMA OffEvent ==
    ASSUME NEW m \in Meanings, NEW n \in Meanings, NEW W \in SUBSET Wires, OnlyWires(m, n, W),
           NEW op \in ProperOps, Off(op, W)
    PROVE  OffStep(m, n, Meant(m.images, Append(m.events, Event(m.images, op))),
                         Meant(n.images, Append(n.events, Event(n.images, op))), W)
<1>1. \A v \in Wires \ W : n.images[v] = m.images[v]
    BY DEF OnlyWires
<1>2. /\ \A k \in DOMAIN op.tgts : n.images[op.tgts[k]] = m.images[op.tgts[k]]
      /\ \A k \in DOMAIN op.ctrls : n.images[op.ctrls[k]] = m.images[op.ctrls[k]]
    BY <1>1, Operands
<1>3. ControlImages(n.images, op) = ControlImages(m.images, op)
    BY <1>2 DEF ControlImages
<1>4. Event(n.images, op) = Event(m.images, op)
    BY <1>2, <1>3 DEF Event
<1>5. n.events = m.events
    BY DEF OnlyWires
<1> QED BY <1>1, <1>4, <1>5 DEF OffStep, OnlyWires, Meant

LEMMA OffWireStep ==
    ASSUME NEW m \in Meanings, NEW n \in Meanings, NEW W \in SUBSET Wires, OnlyWires(m, n, W),
           NEW op \in ProperOps, Off(op, W)
    PROVE  OffStep(m, n, Apply(m, op), Apply(n, op), W)
<1> DEFINE t == op.tgts[1]
           u == op.tgts[2]
           c == op.ctrls[1]
<1>1. \A v \in Wires \ W : n.images[v] = m.images[v]
    BY DEF OnlyWires
<1>2. /\ t \in Wires \ W
      /\ Len(op.ctrls) = 1 => c \in Wires \ W /\ c # t
      /\ op.gate = "swap" => u \in Wires \ W /\ t # u
    BY Operands
<1>3. CASE IsPauliGate(op) /\ op.ctrls = <<>>
    <2>1. /\ Apply(m, op) = Meant([m.images EXCEPT ![t] = AfterPauli(op.gate, m.images[t])], m.events)
          /\ Apply(n, op) = Meant([n.images EXCEPT ![t] = AfterPauli(op.gate, n.images[t])], n.events)
        BY <1>3, ApplyPauli
    <2>2. n.images[t] = m.images[t]
        BY <1>1, <1>2
    <2> HIDE DEF t
    <2> QED BY <1>2, <2>1, <2>2, OffOne
<1>4. CASE IsPauliGate(op) /\ Len(op.ctrls) = 1
    <2> DEFINE g == op.gate
               Ctl(i) == [x |-> Times(i[c].x, ImageOf(i[t], g)), z |-> i[c].z]
               Tgt(i) == [x |-> IF g = "x" THEN i[t].x ELSE Times(i[c].z, i[t].x),
                          z |-> IF g = "z" THEN i[t].z ELSE Times(i[c].z, i[t].z)]
    <2>1. /\ Apply(m, op) = Meant(AfterControlledPauli(g, m.images, c, t), m.events)
          /\ Apply(n, op) = Meant(AfterControlledPauli(g, n.images, c, t), n.events)
        BY <1>4, ApplyControlledPauli
    <2>2. \A i \in Images : AfterControlledPauli(g, i, c, t)
                             = [i EXCEPT ![c] = Ctl(i), ![t] = Tgt(i)]
        BY <1>2, <1>4, ControlledPauliChanges
    <2>3. Ctl(n.images) = Ctl(m.images) /\ Tgt(n.images) = Tgt(m.images)
        BY <1>1, <1>2, <1>4
    <2> HIDE DEF Ctl, Tgt, c, t
    <2>4. m.images \in Images /\ n.images \in Images
        BY MeaningParts
    <2>5. /\ Apply(m, op) = Meant([m.images EXCEPT ![c] = Ctl(m.images), ![t] = Tgt(m.images)], m.events)
          /\ Apply(n, op) = Meant([n.images EXCEPT ![c] = Ctl(m.images), ![t] = Tgt(m.images)], n.events)
        BY <2>1, <2>2, <2>3, <2>4
    <2> QED BY <1>2, <1>4, <2>5, OffTwo, SMTT(30)
<1>5. CASE op.gate = "h" /\ op.ctrls = <<>>
    <2>1. /\ Apply(m, op) = Meant([m.images EXCEPT ![t] = [x |-> m.images[t].z, z |-> m.images[t].x]], m.events)
          /\ Apply(n, op) = Meant([n.images EXCEPT ![t] = [x |-> n.images[t].z, z |-> n.images[t].x]], n.events)
        BY <1>5, ApplyH
    <2>2. n.images[t] = m.images[t]
        BY <1>1, <1>2
    <2> HIDE DEF t
    <2> QED BY <1>2, <2>1, <2>2, OffOne
<1>6. CASE op.gate = "s" /\ op.ctrls = <<>>
    <2> DEFINE New(i) == [x |-> Phased(IF op.adj THEN 0 ELSE 2, YImage(i)), z |-> i.z]
    <2>1. /\ Apply(m, op) = Meant([m.images EXCEPT ![t] = New(m.images[t])], m.events)
          /\ Apply(n, op) = Meant([n.images EXCEPT ![t] = New(n.images[t])], n.events)
        BY <1>6, ApplyS
    <2>2. n.images[t] = m.images[t]
        BY <1>1, <1>2
    <2> HIDE DEF t, New
    <2> QED BY <1>2, <2>1, <2>2, OffOne
<1>7. CASE op.gate = "swap" /\ op.ctrls = <<>>
    <2>1. /\ Apply(m, op) = Meant([m.images EXCEPT ![t] = m.images[u], ![u] = m.images[t]], m.events)
          /\ Apply(n, op) = Meant([n.images EXCEPT ![t] = n.images[u], ![u] = n.images[t]], n.events)
        BY <1>7, ApplySwap
    <2>2. n.images[t] = m.images[t] /\ n.images[u] = m.images[u]
        BY <1>1, <1>2, <1>7
    <2> HIDE DEF t, u
    <2> QED BY <1>2, <1>7, <2>1, <2>2, OffTwo, SMTT(30)
<1>8. CASE NullRotation(op)
    <2>1. Apply(m, op) = m /\ Apply(n, op) = n
        BY <1>8, ApplyNull
    <2> QED BY <2>1 DEF OffStep
<1>9. CASE ~ Moves(op) /\ ~ NullRotation(op)
    BY <1>9, ApplyEvent, OffEvent
<1>10. Len(op.ctrls) \in {0, 1} /\ Len(op.ctrls) # 1 => op.ctrls = <<>>
    BY ProperTargets
<1> QED BY <1>3, <1>4, <1>5, <1>6, <1>7, <1>8, <1>9, <1>10 DEF Moves

-----------------------------------------------------------------------------
(* Gates that trade places with what is on other wires *)

\* Gate o changes the images of the wires W only, and to what depends on those only.
Confined(o, W) ==
    /\ o \in ProperOps /\ W \in SUBSET Wires
    /\ \A m \in Meanings : OnlyWires(m, Apply(m, o), W)
    /\ \A m, n \in Meanings : (\A w \in W : m.images[w] = n.images[w]) =>
         \A w \in W : /\ Apply(m, o).images[w].x = Apply(n, o).images[w].x
                      /\ Apply(m, o).images[w].z = Apply(n, o).images[w].z

\* It makes no difference whether gate o is in front of or behind what is on other wires.
Trades(o, W) ==
    /\ o \in ProperOps
    /\ \A m \in Meanings, op \in ProperOps :
         Off(op, W) => Same(Apply(Apply(m, o), op), Apply(Apply(m, op), o))

LEMMA ConfinedTrades ==
    ASSUME NEW o, NEW W, Confined(o, W)
    PROVE  Trades(o, W)
<1>1. o \in ProperOps /\ W \in SUBSET Wires
    BY DEF Confined
<1>2. ASSUME NEW m \in Meanings, NEW op \in ProperOps, Off(op, W)
      PROVE  Apply(Apply(m, o), op) = Apply(Apply(m, op), o)
    <2> DEFINE n == Apply(m, o)
               nn == Apply(n, op)
               mm == Apply(m, op)
               oo == Apply(mm, o)
    <2>1. n \in Meanings /\ mm \in Meanings /\ OnlyWires(m, n, W)
        BY <1>1, ApplyIsMeaning DEF Confined
    <2> HIDE DEF n
    <2>2. nn \in Meanings /\ OffStep(m, n, mm, nn, W)
        BY <1>1, <1>2, <2>1, ApplyIsMeaning, OffWireStep
    <2> HIDE DEF mm
    <2>3. oo \in Meanings /\ OnlyWires(mm, oo, W)
        BY <1>1, <2>1, ApplyIsMeaning DEF Confined
    <2>4. /\ OnlyWires(mm, nn, W)
          /\ \A w \in W : mm.images[w] = m.images[w] /\ nn.images[w] = n.images[w]
        BY <2>2 DEF OffStep
    <2>5. \A w \in W : n.images[w].x = oo.images[w].x /\ n.images[w].z = oo.images[w].z
        BY <2>1, <2>4 DEF Confined, n
    <2> HIDE DEF nn, oo
    <2>6. nn.events = oo.events
        BY <2>3, <2>4 DEF OnlyWires
    <2>7. ASSUME NEW v \in Wires
          PROVE  nn.images[v].x = oo.images[v].x /\ nn.images[v].z = oo.images[v].z
        <3>1. CASE v \in W
            BY <2>4, <2>5, <3>1
        <3>2. CASE v \notin W
            BY <2>3, <2>4, <3>2 DEF OnlyWires
        <3> QED BY <3>1, <3>2
    <2>8. nn = oo
        BY <2>2, <2>3, <2>6, <2>7, EqualMeanings
    <2> QED BY <2>8 DEF n, nn, mm, oo
<1> QED BY <1>1, <1>2, SameIsEquivalence DEF Trades

\* The Clifford gates on one wire
OneWireGates == {"x", "y", "z", "h", "s"}

LEMMA OneWireTrades ==
    ASSUME NEW g \in OneWireGates, NEW o, NEW w, OnWire(o, g, w)
    PROVE  Trades(o, {w})
<1> DEFINE W == {w}
<1>1. o \in ProperOps /\ w \in Wires
    BY ProperTargets DEF OnWire
<1>2. W \in SUBSET Wires
    BY <1>1
<1>3. ASSUME NEW m \in Meanings, NEW n \in Meanings, m.images[w] = n.images[w]
      PROVE  /\ OnlyWires(m, Apply(m, o), {w})
             /\ Apply(m, o).images[w].x = Apply(n, o).images[w].x
             /\ Apply(m, o).images[w].z = Apply(n, o).images[w].z
    <2> DEFINE mm == Apply(m, o)
               nn == Apply(n, o)
    <2>1. CASE g \in {"x", "y", "z"}
        <3>1. PauliStep(g, m, mm, w) /\ PauliStep(g, n, nn, w)
            BY <2>1, EffectOfPauli
        <3> HIDE DEF mm, nn
        <3>2. OnlyWires(m, mm, {w}) /\ mm.images[w].x = nn.images[w].x /\ mm.images[w].z = nn.images[w].z
            BY <1>3, <3>1 DEF PauliStep
        <3> QED BY <3>2 DEF mm, nn
    <2>2. CASE g = "h"
        <3>1. HStep(m, mm, w) /\ HStep(n, nn, w)
            BY <2>2, EffectOfH
        <3> HIDE DEF mm, nn
        <3>2. OnlyWires(m, mm, {w}) /\ mm.images[w].x = nn.images[w].x /\ mm.images[w].z = nn.images[w].z
            BY <1>3, <3>1 DEF HStep
        <3> QED BY <3>2 DEF mm, nn
    <2>3. CASE g = "s"
        <3>1. SStep(o.adj, m, mm, w) /\ SStep(o.adj, n, nn, w)
            BY <2>3, EffectOfS
        <3> HIDE DEF mm, nn
        <3>2. OnlyWires(m, mm, {w}) /\ mm.images[w].x = nn.images[w].x /\ mm.images[w].z = nn.images[w].z
            BY <1>3, <3>1 DEF SStep
        <3> QED BY <3>2 DEF mm, nn
    <2> QED BY <2>1, <2>2, <2>3 DEF OneWireGates
<1>4. ASSUME NEW m \in Meanings PROVE OnlyWires(m, Apply(m, o), W)
    BY <1>3
<1>5. ASSUME NEW m \in Meanings, NEW n \in Meanings, \A v \in W : m.images[v] = n.images[v]
      PROVE  \A v \in W : /\ Apply(m, o).images[v].x = Apply(n, o).images[v].x
                          /\ Apply(m, o).images[v].z = Apply(n, o).images[v].z
    BY <1>3, <1>5
<1> HIDE DEF W
<1>6. Confined(o, W)
    BY <1>1, <1>2, <1>4, <1>5 DEF Confined
<1>7. Trades(o, W)
    BY <1>6, ConfinedTrades
<1> QED BY <1>7 DEF W

LEMMA ControlledTrades ==
    ASSUME NEW g \in {"x", "y", "z"}, NEW o, NEW c, NEW t, OnWires(o, g, c, t)
    PROVE  Trades(o, {c, t})
<1> DEFINE W == {c, t}
<1>1. o \in ProperOps /\ c \in Wires /\ t \in Wires
    BY ProperTargets DEF OnWires
<1>2. W \in SUBSET Wires
    BY <1>1
<1>3. ASSUME NEW m \in Meanings PROVE ControlledStep(g, m, Apply(m, o), c, t)
    BY EffectOfControlledPauli
<1>4. ASSUME NEW m \in Meanings PROVE OnlyWires(m, Apply(m, o), W)
    BY <1>3 DEF ControlledStep
<1>5. ASSUME NEW m \in Meanings, NEW n \in Meanings, \A v \in W : m.images[v] = n.images[v]
      PROVE  \A v \in W : /\ Apply(m, o).images[v].x = Apply(n, o).images[v].x
                          /\ Apply(m, o).images[v].z = Apply(n, o).images[v].z
    <2> DEFINE mm == Apply(m, o)
               nn == Apply(n, o)
    <2>1. ControlledStep(g, m, mm, c, t) /\ ControlledStep(g, n, nn, c, t)
        BY <1>3
    <2>2. m.images[c] = n.images[c] /\ m.images[t] = n.images[t]
        BY <1>5
    <2> HIDE DEF mm, nn
    <2>3. /\ mm.images[c].x = nn.images[c].x /\ mm.images[c].z = nn.images[c].z
          /\ mm.images[t].x = nn.images[t].x /\ mm.images[t].z = nn.images[t].z
        BY <2>1, <2>2 DEF ControlledStep
    <2> QED BY <2>3 DEF mm, nn
<1> HIDE DEF W
<1>6. Confined(o, W)
    BY <1>1, <1>2, <1>4, <1>5 DEF Confined
<1>7. Trades(o, W)
    BY <1>6, ConfinedTrades
<1> QED BY <1>7 DEF W

\* What an event depends on: operators of the wires of the operation
Operators(images, w) == {ImageOf(images[w], axis) : axis \in {"x", "y", "z"}}

LEMMA OperatorsOfEvent ==
    ASSUME NEW images, NEW op \in ProperOps, NEW p \in PaulisOf(Event(images, op))
    PROVE  \E w \in WiresOf(op) : p \in Operators(images, w)
<1> DEFINE e == Event(images, op)
<1>1. /\ \A w : images[w].x \in Operators(images, w) /\ images[w].z \in Operators(images, w)
      /\ \A w : \A g \in DOMAIN Axis : ImageOf(images[w], Axis[g]) \in Operators(images, w)
    <2>1. \A g \in DOMAIN Axis : Axis[g] \in {"x", "y", "z"}
        BY DEF Axis
    <2>2. \A w : ImageOf(images[w], "x") = images[w].x /\ ImageOf(images[w], "z") = images[w].z
        BY DEF ImageOf
    <2> QED BY <2>1, <2>2 DEF Operators
<1>2. CASE p \in e.ctrls
    <2>1. PICK k \in DOMAIN op.ctrls : p = images[op.ctrls[k]].z
        BY <1>2 DEF Event, ControlImages
    <2>2. op.ctrls[k] \in WiresOf(op)
        BY DEF WiresOf
    <2> QED BY <1>1, <2>1, <2>2
<1>3. CASE \E k \in DOMAIN e.on : \E i \in DOMAIN e.on[k] : p = e.on[k][i]
    <2>1. PICK k \in DOMAIN e.on : \E i \in DOMAIN e.on[k] : p = e.on[k][i]
        BY <1>3
    <2>2. k \in DOMAIN op.tgts
        BY DEF Event
    <2> DEFINE w == op.tgts[k]
    <2>3. w \in WiresOf(op)
        BY <2>2 DEF WiresOf
    <2>4. CASE op.gate \in DOMAIN Axis
        <3>1. e.on[k] = <<ImageOf(images[w], Axis[op.gate])>>
            BY <2>2, <2>4 DEF Event
        <3>2. p = ImageOf(images[w], Axis[op.gate])
            BY <2>1, <3>1
        <3> QED BY <1>1, <2>3, <2>4, <3>2
    <2>5. CASE op.gate \notin DOMAIN Axis
        <3>1. e.on[k] = <<images[w].x, images[w].z>>
            BY <2>2, <2>5 DEF Event
        <3>2. p = images[w].x \/ p = images[w].z
            BY <2>1, <3>1
        <3> QED BY <1>1, <2>3, <3>2
    <2> QED BY <2>4, <2>5
<1> QED BY <1>2, <1>3 DEF PaulisOf

\* The operators of different wires commute.
LEMMA OperatorsCommute ==
    ASSUME NEW images \in Images, NEW v \in Wires, NEW w \in Wires, v # w,
           NEW p \in Operators(images, v), NEW q \in Operators(images, w)
    PROVE  Commute(p, q)
<1>1. PICK a \in {"x", "y", "z"} : p = ImageOf(images[v], a)
    BY DEF Operators
<1>2. PICK b \in {"x", "y", "z"} : q = ImageOf(images[w], b)
    BY DEF Operators
<1>3. /\ p \in PauliOperators
      /\ \A r \in PauliOperators :
           Parity(images[v].x, r) = 0 /\ Parity(images[v].z, r) = 0 => Parity(p, r) = 0
    BY <1>1, AxisImage
<1>4. /\ q \in PauliOperators
      /\ \A r \in PauliOperators :
           Parity(images[w].x, r) = 0 /\ Parity(images[w].z, r) = 0 => Parity(q, r) = 0
    BY <1>2, AxisImage
<1>5. /\ images[v].x \in PauliOperators /\ images[v].z \in PauliOperators
      /\ Apart(images[w], images[v])
    BY ImagesOfWire
<1>6. Parity(q, images[v].x) = 0 /\ Parity(q, images[v].z) = 0
    BY <1>4, <1>5 DEF Apart
<1>7. Parity(images[v].x, q) = 0 /\ Parity(images[v].z, q) = 0
    BY <1>4, <1>5, <1>6, ParityIsBit
<1>8. Parity(p, q) = 0
    BY <1>3, <1>4, <1>7
<1> QED BY <1>8 DEF Parity, Commute

LEMMA EventsIndependent ==
    ASSUME NEW images \in Images, NEW o \in ProperOps, NEW op \in ProperOps,
           WiresOf(o) \cap WiresOf(op) = {}
    PROVE  Independent(Event(images, o), Event(images, op))
<1> SUFFICES ASSUME NEW p \in PaulisOf(Event(images, o)), NEW q \in PaulisOf(Event(images, op))
             PROVE  Commute(p, q)
    BY DEF Independent
<1>1. PICK v \in WiresOf(o) : p \in Operators(images, v)
    BY OperatorsOfEvent
<1>2. PICK w \in WiresOf(op) : q \in Operators(images, w)
    BY OperatorsOfEvent
<1>3. v \in Wires /\ w \in Wires /\ v # w
    <2>1. /\ o.tgts \in Seq(Wires) /\ o.ctrls \in Seq(Wires)
          /\ op.tgts \in Seq(Wires) /\ op.ctrls \in Seq(Wires)
        BY ProperTargets
    <2>2. WiresOf(o) \subseteq Wires /\ WiresOf(op) \subseteq Wires
        BY <2>1 DEF WiresOf
    <2> QED BY <2>2
<1> QED BY <1>1, <1>2, <1>3, OperatorsCommute

\* An operation off the wires of another one leaves its event as it is.
LEMMA SameEvent ==
    ASSUME NEW m \in Meanings, NEW o \in ProperOps, NEW op \in ProperOps,
           WiresOf(o) \cap WiresOf(op) = {}
    PROVE  Event(Apply(m, op).images, o) = Event(m.images, o)
<1> DEFINE W == WiresOf(o)
           mm == Apply(m, op)
<1>1. W \in SUBSET Wires
    <2>1. o.tgts \in Seq(Wires) /\ o.ctrls \in Seq(Wires)
        BY ProperTargets
    <2> QED BY <2>1 DEF WiresOf
<1>2. Off(op, W)
    BY DEF Off
<1>3. /\ \A k \in DOMAIN o.tgts : o.tgts[k] \in W
      /\ \A k \in DOMAIN o.ctrls : o.ctrls[k] \in W
    BY DEF WiresOf
<1> HIDE DEF W
<1>4. OnlyWires(m, m, W)
    BY DEF OnlyWires
<1>5. OffStep(m, m, mm, mm, W)
    BY <1>1, <1>2, <1>4, OffWireStep
<1> HIDE DEF mm
<1>6. \A w \in W : mm.images[w] = m.images[w]
    BY <1>5 DEF OffStep
<1>7. ControlImages(mm.images, o) = ControlImages(m.images, o)
    BY <1>3, <1>6 DEF ControlImages
<1>8. Event(mm.images, o) = Event(m.images, o)
    BY <1>3, <1>6, <1>7 DEF Event
<1> QED BY <1>8 DEF mm

LEMMA EventTrades ==
    ASSUME NEW o \in ProperOps, ~ Moves(o), NEW W, WiresOf(o) \subseteq W
    PROVE  Trades(o, W)
<1> SUFFICES ASSUME NEW m \in Meanings, NEW op \in ProperOps, Off(op, W)
             PROVE  Same(Apply(Apply(m, o), op), Apply(Apply(m, op), o))
    BY DEF Trades
<1> DEFINE n == Apply(m, o)
           mm == Apply(m, op)
<1>1. n \in Meanings /\ mm \in Meanings /\ m.images \in Images
    BY ApplyIsMeaning, MeaningParts
<1>2. WiresOf(o) \cap WiresOf(op) = {} /\ WiresOf(op) \cap WiresOf(o) = {}
    BY DEF Off
<1>3. CASE NullRotation(o)
    <2>1. n = m
        BY <1>3, ApplyNull
    <2>2. Apply(mm, o) = mm
        <3> HIDE DEF mm
        <3> QED BY <1>1, <1>3, ApplyNull
    <2> QED BY <2>1, <2>2, SameIsEquivalence
<1>4. CASE ~ NullRotation(o)
    <2> DEFINE E == Event(m.images, o)
               F == Event(m.images, op)
    <2>1. n = Meant(m.images, Append(m.events, E))
        BY <1>4, ApplyEvent
    <2>2. Apply(mm, o) = Meant(mm.images, Append(mm.events, E))
        <3>1. Event(mm.images, o) = E
            BY <1>2, SameEvent
        <3> HIDE DEF mm, E
        <3> QED BY <1>1, <1>4, <3>1, ApplyEvent
    <2>3. n.images = m.images /\ n.events = Append(m.events, E)
        BY <2>1 DEF Meant
    <2>4. CASE Moves(op) \/ NullRotation(op)
        <3>1. Apply(n, op).images = mm.images /\ Apply(n, op).events = n.events /\ mm.events = m.events
            <4> HIDE DEF n, E, F
            <4> QED BY <1>1, <2>3, <2>4, GatesOnImages
        <3> DEFINE k == Apply(n, op)
                   l == Apply(mm, o)
        <3>2. k.images = l.images /\ k.events = l.events
            <4> HIDE DEF n, mm, E, F
            <4> QED BY <2>2, <2>3, <3>1 DEF Meant
        <3> HIDE DEF k, l
        <3>3. Same(k, l)
            BY <3>2 DEF Same, SameOrder
        <3> QED BY <3>3 DEF k, l
    <2>5. CASE ~ Moves(op) /\ ~ NullRotation(op)
        <3>1. mm = Meant(m.images, Append(m.events, F))
            BY <2>5, ApplyEvent
        <3>2. Apply(n, op) = Meant(m.images, Append(Append(m.events, E), F))
            <4> HIDE DEF n, E
            <4>1. Apply(n, op) = Meant(n.images, Append(n.events, F))
                BY <1>1, <2>3, <2>5, ApplyEvent
            <4> HIDE DEF F
            <4> QED BY <2>3, <4>1
        <3>3. Apply(mm, o) = Meant(m.images, Append(Append(m.events, F), E))
            <4>1. mm.images = m.images /\ mm.events = Append(m.events, F)
                BY <3>1 DEF Meant
            <4> HIDE DEF mm, E, F
            <4> QED BY <2>2, <4>1
        <3>4. Independent(E, F) /\ Independent(F, E)
            BY <1>1, <1>2, EventsIndependent
        <3>5. E \in Events /\ F \in Events /\ m.events \in Seq(Events)
            BY <1>1 DEF Events, Meanings
        <3> HIDE DEF E, F, n, mm
        <3>6. SameOrder(Append(Append(m.events, E), F), Append(Append(m.events, F), E))
            BY <3>4, <3>5, TwoEventsTrade
        <3> QED BY <3>2, <3>3, <3>6 DEF Same, Meant, n, mm
    <2> QED BY <2>4, <2>5
<1> QED BY <1>3, <1>4
-----------------------------------------------------------------------------
(* Gathering an earlier gate in front of the current operation *)

\* Nothing is on the wires W between two places.
Clear(b, e, cur, W) == \A t \in Places : e < t /\ t < cur => b[t] = NoOp \/ Off(b[t], W)

LEMMA WithoutIsProper ==
    ASSUME NEW b \in ProperBlock, NEW E
    PROVE  Without(b, E) \in ProperBlock
BY DEF Without, ProperBlock

\* A gate that has nothing behind it on its wires may as well stand last.
LEMMA Gather ==
    ASSUME NEW b \in ProperBlock, NEW cur \in Places, NEW e \in Places, e < cur, NEW W,
           Trades(b[e], W), Clear(b, e, cur, W),
           NEW g, Runs(g, b), NEW f, Runs(f, Without(b, {e}))
    PROVE  /\ Same(g[cur - 1], Apply(f[cur - 1], b[e]))
           /\ g[cur - 1] \in Meanings /\ f[cur - 1] \in Meanings
<1> DEFINE o == b[e]
           c == Without(b, {e})
           S == {s \in e .. cur - 1 : Same(g[s], Apply(f[s], o))}
<1>1. /\ \A s \in Places : c[s] = IF s = e THEN NoOp ELSE b[s]
      /\ c[e] = NoOp /\ c \in ProperBlock
    BY WithoutIsProper DEF Without
<1>2. /\ BeforeFirst = 5 /\ LastPlace \in Nat /\ LastPlace >= 11
      /\ \A s \in Places : s \in Nat /\ s >= 6 /\ s <= LastPlace
      /\ \A s \in Nat : s >= 6 /\ s <= LastPlace => s \in Places
    BY AllPlaces
<1>3. o \in ProperOps /\ o # NoOp
    BY NoOpIsNoOp DEF Trades
<1> HIDE DEF c, o
<1>4. /\ \A s \in Places : f[s] = After(f[s - 1], c[s]) /\ g[s] = After(g[s - 1], b[s])
      /\ \A s \in BeforeFirst .. LastPlace : f[s] \in Meanings /\ g[s] \in Meanings
      /\ f[BeforeFirst] = g[BeforeFirst]
    BY DEF Runs, c
<1>5. /\ e \in Nat /\ cur \in Nat /\ e - 1 \in BeforeFirst .. LastPlace
      /\ BeforeFirst \in BeforeFirst .. LastPlace /\ e - 1 \in BeforeFirst .. e - 1
      /\ cur - 1 \in Nat /\ cur - 1 \in e .. cur - 1 /\ e \in e .. cur - 1
      /\ cur - 1 \in BeforeFirst .. LastPlace
    BY <1>2
<1>6. f[e - 1] = g[e - 1]
    <2>1. \A s \in Places : BeforeFirst < s /\ s <= e - 1 => c[s] = b[s]
        <3>1. \A s \in Places : s <= e - 1 => s # e
            BY <1>2
        <3> QED BY <1>1, <3>1
    <2>2. \A s \in BeforeFirst .. e - 1 : f[s] = g[s]
        <3>1. Runs(f, c)
            BY DEF c
        <3> QED BY <1>4, <1>5, <2>1, <3>1, RunsTogether
    <2> QED BY <1>5, <2>2
<1>7. e \in S
    <2>1. g[e] = Apply(f[e], o)
        BY <1>1, <1>3, <1>4, <1>5, <1>6 DEF After, o
    <2> QED BY <1>5, <2>1, SameIsEquivalence
<1>8. ASSUME NEW s \in e + 1 .. cur - 1, s - 1 \in S PROVE s \in S
    <2>1. s \in Places /\ s - 1 \in BeforeFirst .. LastPlace /\ e < s /\ s < cur /\ s # e
          /\ s \in e .. cur - 1
        BY <1>2, <1>5
    <2>2. f[s - 1] \in Meanings /\ g[s - 1] \in Meanings /\ Same(g[s - 1], Apply(f[s - 1], o))
        BY <1>4, <1>8, <2>1
    <2>3. f[s] = After(f[s - 1], b[s]) /\ g[s] = After(g[s - 1], b[s])
        BY <1>1, <1>4, <2>1
    <2>4. CASE b[s] = NoOp
        BY <2>1, <2>2, <2>3, <2>4 DEF After
    <2>5. CASE b[s] # NoOp
        <3>1. b[s] \in ProperOps /\ Off(b[s], W)
            BY <2>1, <2>5 DEF Clear, ProperBlock
        <3> DEFINE k == f[s - 1]
                   l == g[s - 1]
                   op == b[s]
        <3>2. k \in Meanings /\ l \in Meanings /\ Same(l, Apply(k, o)) /\ op \in ProperOps /\ Off(op, W)
            BY <2>2, <3>1
        <3>3. f[s] = Apply(k, op) /\ g[s] = Apply(l, op)
            BY <2>3, <2>5 DEF After
        <3> HIDE DEF k, l, op
        <3>4. Same(Apply(Apply(k, o), op), Apply(Apply(k, op), o))
            BY <3>2 DEF Trades, o
        <3>5. Same(Apply(l, op), Apply(Apply(k, o), op))
            BY <1>3, <3>2, ApplyIsMeaning, SameApply
        <3>6. Same(Apply(l, op), Apply(Apply(k, op), o))
            BY <3>4, <3>5, SameIsEquivalence
        <3> QED BY <2>1, <3>3, <3>6
    <2> QED BY <2>4, <2>5
<1>9. \A s \in e .. cur - 1 : s \in S
    <2> HIDE DEF S
    <2> QED BY <1>5, <1>7, <1>8, FromTo
<1> QED BY <1>4, <1>5, <1>9 DEF o

\* Two gates on the same wires with nothing in between or behind
LEMMA GatherTwo ==
    ASSUME NEW b \in ProperBlock, NEW cur \in Places, NEW e \in Places, NEW d \in Places,
           d < e, e < cur, NEW W,
           Trades(b[e], W), Trades(b[d], W), Clear(b, e, cur, W), Clear(b, d, e, W),
           NEW g, Runs(g, b), NEW f, Runs(f, Without(b, {e, d}))
    PROVE  /\ Same(g[cur - 1], Apply(Apply(f[cur - 1], b[d]), b[e]))
           /\ g[cur - 1] \in Meanings /\ f[cur - 1] \in Meanings
<1> DEFINE c == Without(b, {e})
<1>1. /\ c \in ProperBlock
      /\ \A s \in Places : c[s] = IF s = e THEN NoOp ELSE b[s]
    BY WithoutIsProper DEF Without
<1>2. Without(c, {d}) = Without(b, {e, d})
    BY DEF Without
<1>3. \A s \in Places : s \in Nat
    BY PlacesAreNaturals
<1> HIDE DEF c
<1>4. c[d] = b[d] /\ d < cur /\ b[d] \in ProperOps /\ b[e] \in ProperOps
    BY <1>1, <1>3 DEF Trades
<1>5. Clear(c, d, cur, W)
    <2> SUFFICES ASSUME NEW t \in Places, d < t, t < cur PROVE c[t] = NoOp \/ Off(c[t], W)
        BY DEF Clear
    <2>1. t < e \/ t = e \/ e < t
        BY <1>3
    <2> QED BY <1>1, <2>1 DEF Clear
<1>6. PICK h : Runs(h, c)
    BY <1>1, RunOfBlock
<1>7. Same(g[cur - 1], Apply(h[cur - 1], b[e])) /\ g[cur - 1] \in Meanings
    <2>1. Runs(h, Without(b, {e}))
        BY <1>6 DEF c
    <2> QED BY <2>1, Gather
<1>8. /\ Same(h[cur - 1], Apply(f[cur - 1], b[d]))
      /\ h[cur - 1] \in Meanings /\ f[cur - 1] \in Meanings
    <2>1. Runs(f, Without(c, {d})) /\ Trades(c[d], W)
        BY <1>2, <1>4
    <2>2. /\ Same(h[cur - 1], Apply(f[cur - 1], c[d]))
          /\ h[cur - 1] \in Meanings /\ f[cur - 1] \in Meanings
        BY <1>1, <1>4, <1>5, <1>6, <2>1, Gather
    <2> QED BY <1>4, <2>2
<1>9. Same(Apply(h[cur - 1], b[e]), Apply(Apply(f[cur - 1], b[d]), b[e]))
    BY <1>4, <1>8, ApplyIsMeaning, SameApply
<1> QED BY <1>7, <1>8, <1>9, SameIsEquivalence
-----------------------------------------------------------------------------
(* More gates in a row *)

\* A rotation about the axis x of the target of a cx goes through, whatever its angle.
LEMMA RotationThroughCx ==
    ASSUME NEW m \in Meanings, NEW c, NEW t, NEW cx, OnWires(cx, "x", c, t),
           NEW rx, OnWire(rx, "rx", t), WiresOf(rx) = {t}
    PROVE  Apply(Apply(m, rx), cx) = Apply(Apply(m, cx), rx)
<1> DEFINE n == Apply(m, rx)
           mm == Apply(m, cx)
           k == Apply(n, cx)
           l == Apply(mm, rx)
<1>1. rx \in ProperOps /\ cx \in ProperOps /\ rx.gate = "rx" /\ rx.ctrls = <<>>
    BY DEF OnWire, OnWires
<1>2. n \in Meanings /\ mm \in Meanings
    BY <1>1, ApplyIsMeaning
<1>3. k \in Meanings /\ l \in Meanings
    <2> HIDE DEF n, mm
    <2> QED BY <1>1, <1>2, ApplyIsMeaning
<1>4. CASE NullRotation(rx)
    <2>1. n = m /\ l = mm
        <3>1. n = m
            BY <1>1, <1>4, ApplyNull
        <3> HIDE DEF mm
        <3>2. l = mm
            BY <1>1, <1>2, <1>4, ApplyNull
        <3> QED BY <3>1, <3>2
    <2> QED BY <2>1
<1>5. CASE ~ NullRotation(rx)
    <2> DEFINE E == Event(m.images, rx)
    <2>1. ~ Moves(rx) /\ Moves(cx)
        <3>1. IsPauliGate(cx) /\ Len(cx.ctrls) = 1
            BY DEF OnWires, IsPauliGate
        <3> QED BY <1>1, <3>1 DEF Moves, IsPauliGate
    <2>2. Event(mm.images, rx) = E
        <3>1. ControlledStep("x", m, mm, c, t)
            BY EffectOfControlledPauli
        <3> HIDE DEF mm
        <3>2. ImageOf(mm.images[t], "x") = ImageOf(m.images[t], "x")
            BY <3>1 DEF ControlledStep, ImageOf
        <3>3. \A j \in DOMAIN rx.tgts : rx.tgts[j] = t
            BY DEF WiresOf
        <3>4. \A j : j \notin DOMAIN rx.ctrls
            BY <1>1
        <3>5. ControlImages(mm.images, rx) = ControlImages(m.images, rx)
            BY <3>4 DEF ControlImages
        <3>6. Axis[rx.gate] = "x" /\ rx.gate \in DOMAIN Axis
            BY <1>1 DEF Axis
        <3> QED BY <3>2, <3>3, <3>5, <3>6 DEF Event
    <2>3. n = Meant(m.images, Append(m.events, E))
        BY <1>1, <1>5, <2>1, ApplyEvent
    <2>4. l = Meant(mm.images, Append(mm.events, E))
        <3> HIDE DEF mm, E
        <3> QED BY <1>1, <1>2, <1>5, <2>1, <2>2, ApplyEvent
    <2>5. n.images = m.images /\ n.events = Append(m.events, E)
        BY <2>3 DEF Meant
    <2>6. k.images = mm.images /\ k.events = n.events /\ mm.events = m.events
        <3> HIDE DEF n, E
        <3> QED BY <1>1, <1>2, <2>1, <2>5, GatesOnImages
    <2>7. k.images = l.images /\ k.events = l.events
        <3> HIDE DEF n, mm, k, l, E
        <3> QED BY <2>4, <2>5, <2>6 DEF Meant
    <2>8. k = l
        <3> HIDE DEF k, l
        <3> QED BY <1>3, <2>7, EqualMeanings
    <2> QED BY <2>8
<1>6. k = l
    BY <1>4, <1>5
<1> QED BY <1>6 DEF n, mm, k, l

\* A Pauli gate twice
LEMMA PauliTwice ==
    ASSUME NEW m \in Meanings, NEW t, NEW g \in {"x", "y", "z"},
           NEW p, OnWire(p, g, t), NEW q, OnWire(q, g, t)
    PROVE  Apply(Apply(m, p), q) = m
<1> DEFINE m1 == Apply(m, p)
           m2 == Apply(m1, q)
<1>1. PauliStep(g, m, m1, t)
    BY EffectOfPauli
<1>2. m1 \in Meanings /\ t \in Wires
    BY <1>1 DEF PauliStep
<1> HIDE DEF m1
<1>3. PauliStep(g, m1, m2, t)
    BY <1>2, EffectOfPauli
<1> HIDE DEF m2
<1>4. m2 \in Meanings /\ m2.events = m.events
    BY <1>1, <1>3 DEF PauliStep, OnlyWires
<1>5. Phased(2, Phased(2, m.images[t].x)) = m.images[t].x /\ Phased(2, Phased(2, m.images[t].z)) = m.images[t].z
    BY <1>2, ImagesArePaulis, Signs
<1>6. ASSUME NEW w \in Wires
      PROVE  m2.images[w].x = m.images[w].x /\ m2.images[w].z = m.images[w].z
    <2>1. CASE w = t
        BY <1>1, <1>3, <1>5, <2>1 DEF PauliStep
    <2>2. CASE w # t
        BY <1>1, <1>3, <2>2 DEF PauliStep, OnlyWires
    <2> QED BY <2>1, <2>2
<1>7. m2 = m
    BY <1>4, <1>6, EqualMeanings
<1> QED BY <1>7 DEF m1, m2

\* Z applied on the left twice is gone; so it is from a product if it commutes with x.
LEMMA GoneTwice ==
    ASSUME NEW Z \in Observables, NEW x \in PauliOperators, NEW z \in PauliOperators,
           Parity(x, Z) = 0
    PROVE  /\ Times(Z, Times(Z, x)) = x
           /\ Times(Times(x, Z), Z) = x
           /\ Times(Times(Z, x), Times(Z, z)) = Times(x, z)
<1>1. Z \in PauliOperators /\ Times(Z, Z) = One
    BY SquareIsOne
<1>2. Times(Z, x) = Times(x, Z) /\ Times(Z, z) \in PauliOperators
    BY <1>1, ProductParity, ZenonT(30)
<1>3. \A q \in PauliOperators : Times(Z, Times(Z, q)) = q
    <2> TAKE q \in PauliOperators
    <2>1. Times(Z, Times(Z, q)) = Times(Times(Z, Z), q)
        BY <1>1, TimesIsAssociative
    <2> QED BY <1>1, <2>1, TimesOne
<1>4. Times(Times(x, Z), Z) = x
    <2>1. Times(Times(x, Z), Z) = Times(x, Times(Z, Z))
        BY <1>1, TimesIsAssociative
    <2> QED BY <1>1, <2>1, TimesOne
<1>5. Times(Times(Z, x), Times(Z, z)) = Times(x, z)
    <2>1. Times(Times(x, Z), Times(Z, z)) = Times(x, Times(Z, Times(Z, z)))
        BY <1>1, <1>2, TimesIsAssociative
    <2> QED BY <1>2, <1>3, <2>1
<1> QED BY <1>3, <1>4, <1>5

LEMMA ControlledTwice ==
    ASSUME NEW m \in Meanings, NEW c, NEW t, NEW g \in {"x", "y", "z"},
           NEW p, OnWires(p, g, c, t), NEW q, OnWires(q, g, c, t)
    PROVE  Apply(Apply(m, p), q) = m
<1> DEFINE m1 == Apply(m, p)
           m2 == Apply(m1, q)
           X == m.images[c].x
           Z == m.images[c].z
           x == m.images[t].x
           z == m.images[t].z
           P == ImageOf(m.images[t], g)
           P1 == ImageOf(m1.images[t], g)
<1>1. ControlledStep(g, m, m1, c, t)
    BY EffectOfControlledPauli
<1>2. m1 \in Meanings /\ c \in Wires /\ t \in Wires /\ c # t
    BY <1>1 DEF ControlledStep
<1>3. /\ m.images \in Images /\ Z \in Observables
      /\ X \in PauliOperators /\ x \in PauliOperators /\ z \in PauliOperators
      /\ Parity(x, Z) = 0 /\ Parity(z, Z) = 0
    <2>1. m.images \in Images
        BY MeaningParts
    <2> QED BY <1>2, <2>1, ImagesOfWire DEF Apart
<1>4. P \in Observables /\ P \in PauliOperators
    BY <1>2, <1>3, AxisImage
<1> HIDE DEF m1
<1>5. ControlledStep(g, m1, m2, c, t)
    BY <1>2, EffectOfControlledPauli
<1> HIDE DEF m2
<1>6. P1 = P
    <2>1. CASE g = "x"
        BY <1>1, <2>1 DEF ControlledStep, ImageOf
    <2>2. CASE g = "z"
        BY <1>1, <2>2 DEF ControlledStep, ImageOf
    <2>3. CASE g = "y"
        <3>1. m1.images[t].x = Times(Z, x) /\ m1.images[t].z = Times(Z, z)
            BY <1>1, <2>3 DEF ControlledStep
        <3>2. Times(Times(Z, x), Times(Z, z)) = Times(x, z)
            <4> HIDE DEF Z, x, z
            <4> QED BY <1>3, GoneTwice
        <3>3. P = Phased(1, Times(x, z)) /\ P1 = Phased(1, Times(m1.images[t].x, m1.images[t].z))
            BY <2>3 DEF ImageOf, YImage
        <3> QED BY <3>1, <3>2, <3>3
    <2> QED BY <2>1, <2>2, <2>3
<1>7. m2.images[c].x = X /\ m2.images[c].z = Z
    <2>1. m2.images[c].x = Times(Times(X, P), P) /\ m2.images[c].z = Z
        BY <1>1, <1>5, <1>6 DEF ControlledStep
    <2>2. Times(Times(X, P), P) = X
        <3> HIDE DEF X, P
        <3>1. Times(Times(X, P), P) = Times(X, Times(P, P))
            BY <1>3, <1>4, TimesIsAssociative
        <3> QED BY <1>3, <1>4, <3>1, SquareIsOne, TimesOne
    <2> QED BY <2>1, <2>2
<1>8. m2.images[t].x = x /\ m2.images[t].z = z
    <2>1. Times(Z, Times(Z, x)) = x /\ Times(Z, Times(Z, z)) = z
        <3> HIDE DEF Z, x, z
        <3> QED BY <1>3, GoneTwice
    <2>2. /\ m2.images[t].x = (IF g = "x" THEN m1.images[t].x ELSE Times(m1.images[c].z, m1.images[t].x))
          /\ m2.images[t].z = (IF g = "z" THEN m1.images[t].z ELSE Times(m1.images[c].z, m1.images[t].z))
        BY <1>5 DEF ControlledStep
    <2>3. /\ m1.images[t].x = (IF g = "x" THEN x ELSE Times(Z, x))
          /\ m1.images[t].z = (IF g = "z" THEN z ELSE Times(Z, z))
          /\ m1.images[c].z = Z
        BY <1>1 DEF ControlledStep
    <2> HIDE DEF Z, x, z
    <2> QED BY <2>1, <2>2, <2>3
<1>9. m2 \in Meanings /\ m2.events = m.events
    BY <1>1, <1>5 DEF ControlledStep, OnlyWires
<1>10. ASSUME NEW w \in Wires
       PROVE  m2.images[w].x = m.images[w].x /\ m2.images[w].z = m.images[w].z
    <2>1. CASE w = c
        BY <1>7, <2>1
    <2>2. CASE w = t
        BY <1>8, <2>2
    <2>3. CASE w # c /\ w # t
        BY <1>1, <1>5, <2>3 DEF ControlledStep, OnlyWires
    <2> QED BY <2>1, <2>2, <2>3
<1>11. m2 = m
    BY <1>9, <1>10, EqualMeanings
<1> QED BY <1>11 DEF m1, m2
-----------------------------------------------------------------------------
(* The passes that look back along a wire *)

\* The wires have different indices: the qubits of one register.
OneRegister == \A v, w \in Wires : v.idx = w.idx => v = w

\* Nothing but gates: the lookups step over every other operation.
GatesOnly(b) == \A s \in Places : b[s] # NoOp => b[s].gate \in Gates

\* Nothing stands between the operations at the places E and the current one on any of
\* the wires of the former.
Parted(b, cur, E) ==
    \A s \in E : \A t \in Occupied(b) \ E :
      s < t /\ t < cur => WiresOf(b[s]) \cap WiresOf(b[t]) = {}

\* What erases the operations at the places E may look past nothing.
Unhindered(b, cur, E) == GatesOnly(b) \/ Parted(b, cur, E)

\* The gate a lookup finds stands on the wire, with no gate on the wire behind it.
Found(b, cur, w, p) ==
    /\ p \in Places /\ p < cur /\ p # cur /\ b[p] \in ProperOps /\ w \in WiresOf(b[p])
    /\ \A t \in Places : p < t /\ t < cur /\ b[t].gate \in Gates => w \notin WiresOf(b[t])
    /\ \A g \in Gates : IsGate(b[p], g, 0, 1) => OnWire(b[p], g, w)

LEMMA WiresOfGate ==
    ASSUME NEW op \in ProperOps, NEW g
    PROVE  /\ IsGate(op, g, 0, 1) => WiresOf(op) = {op.tgts[1]} /\ op.ctrls = <<>> /\ op.tgts[1] \in Wires
           /\ IsGate(op, g, 1, 1) => /\ WiresOf(op) = {op.ctrls[1], op.tgts[1]}
                                     /\ op.ctrls[1] \in Wires /\ op.tgts[1] \in Wires
<1>1. /\ op.tgts \in Seq(Wires) /\ op.ctrls \in Seq(Wires) /\ op.tgts[1] \in Wires
      /\ Len(op.ctrls) = 0 <=> op.ctrls = <<>>
      /\ Len(op.ctrls) = 1 => op.ctrls[1] \in Wires
    BY ProperTargets
<1>2. ASSUME IsGate(op, g, 0, 1) PROVE WiresOf(op) = {op.tgts[1]} /\ op.ctrls = <<>>
    <2>1. DOMAIN op.tgts = {1} /\ DOMAIN op.ctrls = {} /\ op.ctrls = <<>>
        BY <1>1, <1>2 DEF IsGate
    <2>2. \A v : v \in WiresOf(op) <=> v = op.tgts[1]
        BY <2>1 DEF WiresOf
    <2> QED BY <2>1, <2>2
<1>3. ASSUME IsGate(op, g, 1, 1) PROVE WiresOf(op) = {op.ctrls[1], op.tgts[1]} /\ op.ctrls[1] \in Wires
    <2>1. DOMAIN op.tgts = {1} /\ DOMAIN op.ctrls = {1} /\ op.ctrls[1] \in Wires
        BY <1>1, <1>3 DEF IsGate
    <2>2. \A v : v \in WiresOf(op) <=> v = op.ctrls[1] \/ v = op.tgts[1]
        BY <2>1 DEF WiresOf
    <2> QED BY <2>1, <2>2
<1> QED BY <1>1, <1>2, <1>3

LEMMA FoundOnWire ==
    ASSUME OneRegister, NEW b \in ProperBlock, NEW cur \in Places, NEW w \in Wires,
           NEW p, p = getPreviousOperationOnTarget(b, cur, w), p # NoPlace
    PROVE  Found(b, cur, w, p)
<1>1. /\ p \in Places /\ p < cur /\ ActsOnIndex(b[p], w.idx)
      /\ \A t \in Places : t < cur /\ ActsOnIndex(b[t], w.idx) => t <= p
    BY PreviousIsNearest
<1>2. p \in Nat /\ cur \in Nat /\ \A s \in Places : s \in Nat
    BY <1>1, PlacesAreNaturals
<1>3. b[p] \in ProperOps
    <2>1. ~ ActsOnIndex(NoOp, w.idx)
        BY DEF ActsOnIndex, isOperator, NoOp, Gates
    <2> QED BY <1>1, <2>1 DEF ProperBlock
<1>4. w \in WiresOf(b[p])
    <2>1. \E v \in WiresOf(b[p]) : v.idx = w.idx
        BY <1>1 DEF ActsOnIndex, WiresOf, extractIndexFromQuakeExtractRefOp
    <2>2. WiresOf(b[p]) \subseteq Wires
        <3>1. b[p].tgts \in Seq(Wires) /\ b[p].ctrls \in Seq(Wires)
            BY <1>3, ProperTargets
        <3> QED BY <3>1 DEF WiresOf
    <2> QED BY <2>1, <2>2 DEF OneRegister
<1>5. ASSUME NEW t \in Places, p < t, t < cur, b[t].gate \in Gates PROVE w \notin WiresOf(b[t])
    <2>1. ~ t <= p
        BY <1>2, <1>5
    <2>2. ~ ActsOnIndex(b[t], w.idx)
        BY <1>1, <1>5, <2>1
    <2> QED BY <1>5, <2>2 DEF WiresOf, ActsOnIndex, isOperator, extractIndexFromQuakeExtractRefOp
<1>6. ASSUME NEW g \in Gates, IsGate(b[p], g, 0, 1) PROVE OnWire(b[p], g, w)
    <2>1. b[p].tgts[1] = w /\ b[p].ctrls = <<>>
        BY <1>3, <1>4, <1>6, WiresOfGate
    <2> QED BY <1>3, <1>6, <2>1 DEF OnWire, IsGate
<1> QED BY <1>1, <1>2, <1>3, <1>4, <1>5, <1>6 DEF Found

\* Between the gate found and where the lookup started nothing is on the wire.
LEMMA FoundClear ==
    ASSUME NEW b \in ProperBlock, NEW top \in Places, NEW E, Unhindered(b, top, E),
           NEW cur \in Places, cur <= top, NEW w, NEW p \in E, Found(b, cur, w, p),
           \A t \in E : t <= p \/ cur <= t
    PROVE  Clear(b, p, cur, {w})
<1> SUFFICES ASSUME NEW t \in Places, p < t, t < cur, b[t] # NoOp PROVE w \notin WiresOf(b[t])
    BY DEF Clear, Off
<1>1. p \in Nat /\ cur \in Nat /\ top \in Nat /\ t \in Nat
    BY PlacesAreNaturals DEF Found
<1>2. CASE GatesOnly(b)
    BY <1>2 DEF GatesOnly, Found
<1>3. CASE Parted(b, top, E)
    <2>1. t \in Occupied(b) \ E /\ t < top
        BY <1>1 DEF Occupied
    <2>2. WiresOf(b[p]) \cap WiresOf(b[t]) = {}
        BY <1>3, <2>1 DEF Parted
    <2> QED BY <2>2 DEF Found
<1> QED BY <1>2, <1>3 DEF Unhindered

\* Nor is anything on its other wires, if the places are parted.
LEMMA PartedClear ==
    ASSUME NEW b, NEW cur \in Places, NEW E, Parted(b, cur, E), NEW p \in Places, E \ {cur} = {p}
    PROVE  Clear(b, p, cur, WiresOf(b[p]))
<1> SUFFICES ASSUME NEW t \in Places, p < t, t < cur, b[t] # NoOp
             PROVE  WiresOf(b[t]) \cap WiresOf(b[p]) = {}
    BY DEF Clear, Off
<1>1. p \in Nat /\ cur \in Nat /\ t \in Nat
    BY PlacesAreNaturals
<1>2. t \in Occupied(b) \ E /\ p \in E
    <2>1. t # p /\ t # cur
        BY <1>1
    <2> QED BY <2>1 DEF Occupied
<1>3. WiresOf(b[p]) \cap WiresOf(b[t]) = {}
    BY <1>2 DEF Parted
<1> QED BY <1>3

LEMMA OneGathered ==
    ASSUME NEW b, NEW cur, AtHome(b, cur), NEW p \in Places, p < cur, NEW W,
           Trades(b[p], W), Clear(b, p, cur, W),
           NEW r, ProperRewrite(b, cur, r), r.erase \ {cur} = {p},
           \A m \in Meanings : AfterInserted(IF cur \in r.erase THEN m ELSE Apply(m, b[cur]), r)
                                 = Apply(Apply(m, b[p]), b[cur])
    PROVE  KeepsMeaning(b, cur, r)
<1>1. b \in ProperBlock /\ cur \in Places /\ b[cur] \in ProperOps /\ b[p] \in ProperOps
    BY CurrentIsProper DEF Trades
<1>2. ASSUME NEW h, NEW f, Runs(h, b), Runs(f, Without(b, r.erase \ {cur}))
      PROVE  Same(AfterInserted(IF cur \in r.erase THEN f[cur - 1] ELSE Apply(f[cur - 1], b[cur]), r),
                  Apply(h[cur - 1], b[cur]))
    <2> DEFINE k == f[cur - 1]
               l == h[cur - 1]
    <2>1. Runs(f, Without(b, {p}))
        BY <1>2
    <2>2. Same(l, Apply(k, b[p])) /\ l \in Meanings /\ k \in Meanings
        BY <1>1, <1>2, <2>1, Gather
    <2> HIDE DEF k, l
    <2>3. Same(Apply(l, b[cur]), Apply(Apply(k, b[p]), b[cur]))
        BY <1>1, <2>2, ApplyIsMeaning, SameApply
    <2>4. Same(Apply(Apply(k, b[p]), b[cur]), Apply(l, b[cur]))
        BY <2>3, SameIsEquivalence
    <2>5. AfterInserted(IF cur \in r.erase THEN k ELSE Apply(k, b[cur]), r)
            = Apply(Apply(k, b[p]), b[cur])
        BY <2>2
    <2>6. Same(AfterInserted(IF cur \in r.erase THEN k ELSE Apply(k, b[cur]), r), Apply(l, b[cur]))
        BY <2>4, <2>5
    <2> QED BY <2>6 DEF k, l
<1>3. /\ Rewritten(b, cur, r) \in ProperBlock
      /\ Same(Meaning(Circuit(Rewritten(b, cur, r))), Meaning(Circuit(b)))
    BY <1>2, RewriteKeepsMeaning
<1> QED BY <1>3 DEF KeepsMeaning

\* A gate found on a wire and put elsewhere on it
LEMMA OneFound ==
    ASSUME NEW b, NEW cur, AtHome(b, cur), NEW w \in Wires, NEW p, Found(b, cur, w, p),
           Trades(b[p], {w}),
           NEW r, ProperRewrite(b, cur, r), r.erase \ {cur} = {p}, Unhindered(b, cur, r.erase),
           \A m \in Meanings : AfterInserted(IF cur \in r.erase THEN m ELSE Apply(m, b[cur]), r)
                                 = Apply(Apply(m, b[p]), b[cur])
    PROVE  KeepsMeaning(b, cur, r)
<1>1. b \in ProperBlock /\ cur \in Places /\ cur <= cur
    BY CurrentIsProper
<1>2. p \in Places /\ p < cur /\ p \in r.erase
    BY DEF Found
<1>3. \A t \in r.erase : t <= p \/ cur <= t
    <2>1. \A t \in r.erase : t = p \/ t = cur
        OBVIOUS
    <2>2. p <= p /\ cur <= cur
        BY <1>1, <1>2, PlacesAreNaturals
    <2> QED BY <2>1, <2>2
<1> DEFINE W == {w}
<1>4. Clear(b, p, cur, W) /\ Trades(b[p], W)
    BY <1>1, <1>2, <1>3, FoundClear
<1> HIDE DEF W
<1> QED BY <1>2, <1>4, OneGathered

\* Two of them
LEMMA TwoFound ==
    ASSUME NEW b, NEW cur, AtHome(b, cur), NEW w \in Wires,
           NEW p, Found(b, cur, w, p), NEW pp, Found(b, p, w, pp),
           Trades(b[p], {w}), Trades(b[pp], {w}),
           NEW r, ProperRewrite(b, cur, r), r.erase = {cur, p, pp}, Unhindered(b, cur, r.erase),
           \A m \in Meanings : AfterInserted(m, r) = Apply(Apply(Apply(m, b[pp]), b[p]), b[cur])
    PROVE  KeepsMeaning(b, cur, r)
<1>1. b \in ProperBlock /\ cur \in Places /\ b[cur] \in ProperOps /\ cur <= cur
      /\ b[p] \in ProperOps /\ b[pp] \in ProperOps
    BY CurrentIsProper DEF Trades
<1>2. p \in Places /\ p < cur /\ pp \in Places /\ pp < p
    BY DEF Found
<1>3. /\ cur \in Nat /\ p \in Nat /\ pp \in Nat /\ p <= cur
      /\ p # cur /\ pp # cur
    BY <1>1, <1>2, PlacesAreNaturals
<1> DEFINE W == {w}
<1>4. Clear(b, p, cur, W)
    <2>1. p \in r.erase /\ \A t \in r.erase : t <= p \/ cur <= t
        BY <1>2, <1>3
    <2> QED BY <1>1, <1>2, <2>1, FoundClear
<1>5. Clear(b, pp, p, W)
    <2>1. pp \in r.erase /\ \A t \in r.erase : t <= pp \/ p <= t
        BY <1>2, <1>3
    <2> QED BY <1>1, <1>2, <1>3, <2>1, FoundClear
<1>6. Trades(b[p], W) /\ Trades(b[pp], W)
    OBVIOUS
<1> HIDE DEF W
<1>7. r.erase \ {cur} = {p, pp} /\ cur \in r.erase
    BY <1>3
<1>8. ASSUME NEW h, NEW f, Runs(h, b), Runs(f, Without(b, r.erase \ {cur}))
      PROVE  Same(AfterInserted(IF cur \in r.erase THEN f[cur - 1] ELSE Apply(f[cur - 1], b[cur]), r),
                  Apply(h[cur - 1], b[cur]))
    <2> DEFINE k == f[cur - 1]
               l == h[cur - 1]
    <2>1. Runs(f, Without(b, {p, pp}))
        BY <1>7, <1>8
    <2>2. Same(l, Apply(Apply(k, b[pp]), b[p])) /\ l \in Meanings /\ k \in Meanings
        BY <1>1, <1>2, <1>4, <1>5, <1>6, <1>8, <2>1, GatherTwo
    <2> HIDE DEF k, l
    <2>3. Same(Apply(l, b[cur]), Apply(Apply(Apply(k, b[pp]), b[p]), b[cur]))
        BY <1>1, <2>2, ApplyIsMeaning, SameApply
    <2>4. Same(Apply(Apply(Apply(k, b[pp]), b[p]), b[cur]), Apply(l, b[cur]))
        BY <2>3, SameIsEquivalence
    <2>5. AfterInserted(k, r) = Apply(Apply(Apply(k, b[pp]), b[p]), b[cur])
        BY <2>2
    <2>6. Same(AfterInserted(IF cur \in r.erase THEN k ELSE Apply(k, b[cur]), r), Apply(l, b[cur]))
        BY <1>7, <2>4, <2>5
    <2> QED BY <2>6 DEF k, l
<1>9. /\ Rewritten(b, cur, r) \in ProperBlock
      /\ Same(Meaning(Circuit(Rewritten(b, cur, r))), Meaning(Circuit(b)))
    BY <1>8, RewriteKeepsMeaning
<1> QED BY <1>9 DEF KeepsMeaning
\* The current gate on its wire
LEMMA CurrentOnWire ==
    ASSUME NEW b, NEW cur, AtHome(b, cur), NEW g \in Gates, IsGate(b[cur], g, 0, 1)
    PROVE  b[cur].tgts[1] \in Wires /\ OnWire(b[cur], g, b[cur].tgts[1])
<1>1. b[cur] \in ProperOps
    BY CurrentIsProper
<1> QED BY <1>1, ProperTargets DEF OnWire, IsGate

\* A gate of another class on the wire
LEMMA RetypedOnWire ==
    ASSUME NEW op, NEW g, NEW w, OnWire(op, g, w), NEW k \in OneWireGates
    PROVE  OnWire(Retyped(op, k), k, w)
<1> DEFINE new == Retyped(op, k)
<1>1. op \in ProperOps /\ op \in Op /\ op.ctrls = <<>> /\ op.tgts[1] = w
    BY DEF OnWire, ProperOps
<1>2. k \in Gates /\ k # "swap" /\ k \notin Rotations
    BY DEF OneWireGates, Gates, Rotations
<1>3. new \in Op /\ new.gate = k /\ new.ctrls = op.ctrls /\ new.tgts = op.tgts
    BY <1>1, <1>2 DEF Retyped, Op
<1> HIDE DEF new
<1>4. new \in ProperOps
    BY <1>1, <1>2, <1>3, SameShape
<1> QED BY <1>1, <1>3, <1>4 DEF OnWire, new

\* Gates T1, T2 in a row do what T3, T4 do.
SameInARow(T1, T2, T3, T4) ==
    \A m \in Meanings : \A w, o1, o2, o3, o4 :
      OnWire(o1, T1, w) /\ OnWire(o2, T2, w) /\ OnWire(o3, T3, w) /\ OnWire(o4, T4, w)
        => Apply(Apply(m, o3), o4) = Apply(Apply(m, o1), o2)

LEMMA SwitchKeepsMeaning ==
    ASSUME OneRegister, NEW b, NEW cur, AtHome(b, cur),
           NEW T1 \in OneWireGates, NEW T2 \in OneWireGates,
           NEW T3 \in OneWireGates, NEW T4 \in OneWireGates, SameInARow(T1, T2, T3, T4),
           Unhindered(b, cur, patternSwitch(b, cur, T1, T2, T3, T4).erase)
    PROVE  KeepsMeaning(b, cur, patternSwitch(b, cur, T1, T2, T3, T4))
<1> DEFINE op == b[cur]
           w == op.tgts[1]
           prev == getPreviousOperationOnTarget(b, cur, w)
           new == Retyped(op, T3)
           old == Retyped(b[prev], T4)
           r == Rewrite({cur, prev}, <<new, old>>)
<1>1. b \in ProperBlock /\ cur \in Places /\ op \in ProperOps /\ cur <= cur
    BY CurrentIsProper
<1>2. KeepsMeaning(b, cur, NoRewrite) /\ KeepsMeaning(b, cur, NullDereference)
    BY <1>1, NoRewriteKeeps DEF NoRewrite, Rewrite, NullDereference
<1>3. T1 \in Gates /\ T2 \in Gates
    BY DEF OneWireGates, Gates
<1>4. ASSUME IsGate(op, T2, 0, 1), prev # NoPlace, IsGate(b[prev], T1, 0, 1), Unhindered(b, cur, r.erase)
      PROVE  KeepsMeaning(b, cur, r)
    <2>1. w \in Wires /\ OnWire(op, T2, w)
        BY <1>3, <1>4, CurrentOnWire
    <2> HIDE DEF w
    <2>2. Found(b, cur, w, prev)
        BY <1>1, <1>4, <2>1, FoundOnWire
    <2> HIDE DEF prev
    <2>3. /\ OnWire(b[prev], T1, w) /\ prev \in Places /\ prev <= cur /\ prev # cur
        BY <1>1, <1>3, <1>4, <2>2, EarlierPlaces DEF Found
    <2>4. OnWire(new, T3, w) /\ OnWire(old, T4, w)
        BY <2>1, <2>3, RetypedOnWire
    <2> HIDE DEF new, old
    <2>5. new \in ProperOps /\ old \in ProperOps
        BY <2>4 DEF OnWire
    <2>6. /\ Len(r.insert) = 2 /\ \A k \in 1 .. 2 : r.insert[k] \in ProperOps
          /\ \A m : AfterInserted(m, r) = Apply(Apply(m, new), old)
        BY <2>5, SlotsOfTwo
    <2>7. r.erase = {cur, prev}
        BY DEF Rewrite
    <2> HIDE DEF r
    <2>8. ProperRewrite(b, cur, r) /\ r.erase \ {cur} = {prev} /\ cur \in r.erase
        BY <1>1, <2>3, <2>6, <2>7 DEF ProperRewrite
    <2>9. \A m \in Meanings : AfterInserted(m, r) = Apply(Apply(m, b[prev]), op)
        BY <2>1, <2>3, <2>4, <2>6 DEF SameInARow
    <2>10. \A m \in Meanings : AfterInserted(IF cur \in r.erase THEN m ELSE Apply(m, b[cur]), r)
                                 = Apply(Apply(m, b[prev]), b[cur])
        BY <2>8, <2>9
    <2> HIDE DEF op
    <2>11. Trades(b[prev], {w})
        BY <2>3, OneWireTrades
    <2> QED BY <1>4, <2>1, <2>2, <2>8, <2>10, <2>11, OneFound
<1>5. patternSwitch(b, cur, T1, T2, T3, T4) \in {NoRewrite, NullDereference}
      \/ /\ IsGate(op, T2, 0, 1) /\ prev # NoPlace /\ IsGate(b[prev], T1, 0, 1)
         /\ patternSwitch(b, cur, T1, T2, T3, T4) = r
    BY DEF patternSwitch
<1> QED BY <1>2, <1>4, <1>5

LEMMA SwitchesAreSame ==
    /\ SameInARow("h", "x", "z", "h") /\ SameInARow("h", "y", "y", "h")
    /\ SameInARow("h", "z", "x", "h") /\ SameInARow("x", "h", "h", "z")
    /\ SameInARow("y", "h", "h", "y") /\ SameInARow("z", "h", "h", "x")
<1>1. ThroughH["x"] = "z" /\ ThroughH["y"] = "y" /\ ThroughH["z"] = "x"
    BY DEF ThroughH
<1>2. ASSUME NEW g \in {"x", "y", "z"}
      PROVE  SameInARow(g, "h", "h", ThroughH[g]) /\ SameInARow("h", ThroughH[g], g, "h")
    <2> SUFFICES ASSUME NEW m \in Meanings, NEW w, NEW p, OnWire(p, g, w),
                        NEW q, OnWire(q, ThroughH[g], w), NEW h, OnWire(h, "h", w),
                        NEW k, OnWire(k, "h", w)
                 PROVE  Apply(Apply(m, p), h) = Apply(Apply(m, k), q)
        BY DEF SameInARow
    <2> QED BY PauliThroughH
<1> QED BY <1>1, <1>2

LEMMA SwitchPauliHKeepsMeaning ==
    ASSUME OneRegister, NEW b, NEW cur, AtHome(b, cur), Unhindered(b, cur, SwitchPauliHOperation(b, cur).erase)
    PROVE  KeepsMeaning(b, cur, SwitchPauliHOperation(b, cur))
<1> DEFINE op == b[cur]
           w == op.tgts[1]
           prev == getPreviousOperationOnTarget(b, cur, w)
           g == b[prev].gate
           new == Retyped(b[prev], ThroughH[g])
           r == Rewrite({prev}, <<new>>)
<1>1. b \in ProperBlock /\ cur \in Places /\ op \in ProperOps /\ cur <= cur
    BY CurrentIsProper
<1>2. KeepsMeaning(b, cur, NoRewrite)
    BY <1>1, NoRewriteKeeps DEF NoRewrite, Rewrite
<1>3. "h" \in Gates /\ {"x", "y", "z"} \subseteq Gates
    BY DEF Gates
<1>4. ASSUME IsGate(op, "h", 0, 1), prev # NoPlace, g \in {"x", "y", "z"}, IsGate(b[prev], g, 0, 1),
             Unhindered(b, cur, r.erase)
      PROVE  KeepsMeaning(b, cur, r)
    <2>1. w \in Wires /\ OnWire(op, "h", w)
        BY <1>3, <1>4, CurrentOnWire
    <2> HIDE DEF w
    <2>2. Found(b, cur, w, prev)
        BY <1>1, <1>4, <2>1, FoundOnWire
    <2> HIDE DEF prev
    <2>3. /\ OnWire(b[prev], g, w) /\ prev \in Places /\ prev <= cur /\ prev # cur
        BY <1>1, <1>3, <1>4, <2>2, EarlierPlaces DEF Found
    <2>4. ThroughH[g] \in OneWireGates /\ g \in OneWireGates
        BY <1>4 DEF ThroughH, OneWireGates
    <2> HIDE DEF g
    <2>5. OnWire(new, ThroughH[g], w)
        BY <2>3, <2>4, RetypedOnWire
    <2> HIDE DEF new
    <2>6. new \in ProperOps
        BY <2>5 DEF OnWire
    <2>7. /\ Len(r.insert) = 1 /\ \A k \in 1 .. 1 : r.insert[k] \in ProperOps
          /\ \A m : AfterInserted(m, r) = Apply(m, new)
        BY <2>6, SlotsOfOne
    <2>8. r.erase = {prev}
        BY DEF Rewrite
    <2> HIDE DEF r
    <2>9. ProperRewrite(b, cur, r) /\ r.erase \ {cur} = {prev} /\ cur \notin r.erase
        BY <1>1, <2>3, <2>7, <2>8 DEF ProperRewrite
    <2>10. \A m \in Meanings : Apply(Apply(m, op), new) = Apply(Apply(m, b[prev]), op)
        BY <1>4, <2>1, <2>3, <2>5, PauliThroughH
    <2>11. \A m \in Meanings : AfterInserted(IF cur \in r.erase THEN m ELSE Apply(m, b[cur]), r)
                                 = Apply(Apply(m, b[prev]), b[cur])
        BY <2>7, <2>9, <2>10
    <2> HIDE DEF op
    <2>12. Trades(b[prev], {w})
        BY <2>3, <2>4, OneWireTrades
    <2> QED BY <1>4, <2>1, <2>2, <2>9, <2>11, <2>12, OneFound
<1>5. SwitchPauliHOperation(b, cur) = NoRewrite
      \/ /\ IsGate(op, "h", 0, 1) /\ prev # NoPlace /\ g \in {"x", "y", "z"} /\ IsGate(b[prev], g, 0, 1)
         /\ SwitchPauliHOperation(b, cur) = r
    BY DEF SwitchPauliHOperation, ThroughH
<1> QED BY <1>2, <1>4, <1>5

LEMMA SZKeepsMeaning ==
    ASSUME OneRegister, NEW b, NEW cur, AtHome(b, cur), NEW adj \in BOOLEAN,
           Unhindered(b, cur, ReplaceSZ(b, cur, adj).erase)
    PROVE  KeepsMeaning(b, cur, ReplaceSZ(b, cur, adj))
<1> DEFINE op == b[cur]
           w == op.tgts[1]
           prev == getPreviousOperationOnTarget(b, cur, w)
           new == [b[prev] EXCEPT !.adj = ~ adj]
           r == Rewrite({cur, prev}, <<new>>)
<1>1. b \in ProperBlock /\ cur \in Places /\ op \in ProperOps /\ cur <= cur
    BY CurrentIsProper
<1>2. KeepsMeaning(b, cur, NoRewrite)
    BY <1>1, NoRewriteKeeps DEF NoRewrite, Rewrite
<1>3. "s" \in Gates /\ "z" \in Gates /\ "s" \in OneWireGates
    BY DEF Gates, OneWireGates
<1>4. ASSUME IsGate(op, "z", 0, 1), prev # NoPlace, IsGate(b[prev], "s", 0, 1), b[prev].adj = adj,
             Unhindered(b, cur, r.erase)
      PROVE  KeepsMeaning(b, cur, r)
    <2>1. w \in Wires /\ OnWire(op, "z", w)
        BY <1>3, <1>4, CurrentOnWire
    <2> HIDE DEF w
    <2>2. Found(b, cur, w, prev)
        BY <1>1, <1>4, <2>1, FoundOnWire
    <2> HIDE DEF prev
    <2>3. /\ OnWire(b[prev], "s", w) /\ prev \in Places /\ prev <= cur /\ prev # cur
        BY <1>1, <1>3, <1>4, <2>2, EarlierPlaces DEF Found
    <2>4. OnWire(new, "s", w) /\ new.adj = (~ b[prev].adj)
        <3> DEFINE p == b[prev]
        <3>1. p \in ProperOps /\ p \in Op /\ p.gate = "s" /\ p.ctrls = <<>> /\ p.tgts[1] = w /\ p.adj = adj
            BY <1>4, <2>3 DEF OnWire, ProperOps
        <3> HIDE DEF p
        <3>2. "s" # "swap" /\ "s" \notin Rotations
            BY DEF Rotations
        <3>3. new \in Op /\ new.gate = "s" /\ new.ctrls = p.ctrls /\ new.tgts = p.tgts /\ new.adj = (~ adj)
            BY <3>1 DEF Op, p
        <3> HIDE DEF new
        <3>4. new \in ProperOps
            BY <3>1, <3>2, <3>3, SameShape
        <3> QED BY <3>1, <3>3, <3>4 DEF OnWire, p
    <2> HIDE DEF new
    <2>5. new \in ProperOps
        BY <2>4 DEF OnWire
    <2>6. /\ Len(r.insert) = 1 /\ \A k \in 1 .. 1 : r.insert[k] \in ProperOps
          /\ \A m : AfterInserted(m, r) = Apply(m, new)
        BY <2>5, SlotsOfOne
    <2>7. r.erase = {cur, prev}
        BY DEF Rewrite
    <2> HIDE DEF r
    <2>8. ProperRewrite(b, cur, r) /\ r.erase \ {cur} = {prev} /\ cur \in r.erase
        BY <1>1, <2>3, <2>6, <2>7 DEF ProperRewrite
    <2>9. \A m \in Meanings : Apply(m, new) = Apply(Apply(m, b[prev]), op)
        <3>1. b[prev].adj \in BOOLEAN
            BY <1>4
        <3> QED BY <2>1, <2>3, <2>4, <3>1, SThenZ
    <2>10. \A m \in Meanings : AfterInserted(IF cur \in r.erase THEN m ELSE Apply(m, b[cur]), r)
                                 = Apply(Apply(m, b[prev]), b[cur])
        BY <2>6, <2>8, <2>9
    <2> HIDE DEF op
    <2>11. Trades(b[prev], {w})
        BY <1>3, <2>3, OneWireTrades
    <2> QED BY <1>4, <2>1, <2>2, <2>8, <2>10, <2>11, OneFound
<1>5. ReplaceSZ(b, cur, adj) = NoRewrite
      \/ /\ IsGate(op, "z", 0, 1) /\ prev # NoPlace /\ IsGate(b[prev], "s", 0, 1) /\ b[prev].adj = adj
         /\ ReplaceSZ(b, cur, adj) = r
    BY DEF ReplaceSZ
<1> QED BY <1>2, <1>4, <1>5

LEMMA HPauliHKeepsMeaning ==
    ASSUME OneRegister, NEW b, NEW cur, AtHome(b, cur),
           NEW g \in {"x", "z"}, NEW k, k = ThroughH[g],
           Unhindered(b, cur, ReplaceHPauliH(b, cur, g, k).erase)
    PROVE  KeepsMeaning(b, cur, ReplaceHPauliH(b, cur, g, k))
<1> DEFINE op == b[cur]
           w == op.tgts[1]
           prev == getPreviousOperationOnTarget(b, cur, w)
           prevPrev == getPreviousOperationOnTarget(b, prev, w)
           new == Operation(k, FALSE, <<>>, op.ctrls, op.tgts)
           r == Rewrite({cur, prev, prevPrev}, <<new>>)
<1>1. b \in ProperBlock /\ cur \in Places /\ op \in ProperOps /\ cur <= cur
    BY CurrentIsProper
<1>2. KeepsMeaning(b, cur, NoRewrite) /\ KeepsMeaning(b, cur, NullDereference)
    BY <1>1, NoRewriteKeeps DEF NoRewrite, Rewrite, NullDereference
<1>3. "h" \in Gates /\ g \in Gates /\ k \in {"x", "z"} /\ k \in Gates
      /\ g \in OneWireGates /\ "h" \in OneWireGates
    BY DEF Gates, OneWireGates, ThroughH
<1>4. ASSUME IsGate(op, "h", 0, 1), prev # NoPlace, IsGate(b[prev], g, 0, 1),
             prevPrev # NoPlace, IsGate(b[prevPrev], "h", 0, 1),
             Unhindered(b, cur, r.erase)
      PROVE  KeepsMeaning(b, cur, r)
    <2>1. w \in Wires /\ OnWire(op, "h", w)
        BY <1>3, <1>4, CurrentOnWire
    <2>2. OnWire(new, k, w)
        <3>1. op \in Op /\ op.ctrls = <<>> /\ op.tgts[1] = w
            BY <2>1 DEF OnWire, ProperOps
        <3>2. op.ctrls \in Seq(Wires) /\ op.tgts \in Seq(Wires)
            BY <1>1, ProperTargets
        <3>3. new \in Op
            BY <1>3, <3>2, PlainIsOp DEF Plain
        <3>4. /\ new.gate = k /\ new.ctrls = op.ctrls /\ new.tgts = op.tgts
              /\ k # "swap" /\ k \notin Rotations
            BY <1>3 DEF Operation, Rotations
        <3> HIDE DEF new, op, w
        <3>5. new \in ProperOps
            BY <1>1, <3>3, <3>4, SameShape
        <3> QED BY <3>1, <3>4, <3>5 DEF OnWire
    <2> HIDE DEF w, new
    <2>3. Found(b, cur, w, prev)
        BY <1>1, <1>4, <2>1, FoundOnWire
    <2>4. prev \in Places
        BY <2>3 DEF Found
    <2>5. Found(b, prev, w, prevPrev)
        BY <1>1, <1>4, <2>1, <2>4, FoundOnWire
    <2> HIDE DEF prev, prevPrev
    <2>6. /\ OnWire(b[prev], g, w) /\ OnWire(b[prevPrev], "h", w)
          /\ prev <= cur /\ prevPrev \in Places /\ prevPrev <= cur
        <3>1. prev < cur /\ prevPrev < prev /\ prevPrev \in Places
            BY <2>3, <2>5 DEF Found
        <3>2. prev <= cur /\ prevPrev <= cur
            BY <1>1, <2>4, <3>1, PlacesAreNaturals
        <3> QED BY <1>3, <1>4, <2>3, <2>5, <3>1, <3>2 DEF Found
    <2>7. new \in ProperOps
        BY <2>2 DEF OnWire
    <2>8. /\ Len(r.insert) = 1 /\ \A j \in 1 .. 1 : r.insert[j] \in ProperOps
          /\ \A m : AfterInserted(m, r) = Apply(m, new)
        BY <2>7, SlotsOfOne
    <2>9. r.erase = {cur, prev, prevPrev}
        BY DEF Rewrite
    <2> HIDE DEF r
    <2>10. ProperRewrite(b, cur, r)
        BY <1>1, <2>4, <2>6, <2>8, <2>9 DEF ProperRewrite
    <2>11. \A m \in Meanings : AfterInserted(m, r)
                                 = Apply(Apply(Apply(m, b[prevPrev]), b[prev]), op)
        <3>1. OnWire(new, ThroughH[g], w) /\ g \in {"x", "y", "z"}
            BY <2>2
        <3> QED BY <2>1, <2>6, <2>8, <3>1, PauliBetweenH
    <2>12. \A m \in Meanings : AfterInserted(m, r)
                                 = Apply(Apply(Apply(m, b[prevPrev]), b[prev]), b[cur])
        BY <2>11
    <2> HIDE DEF op
    <2>13. Trades(b[prev], {w}) /\ Trades(b[prevPrev], {w})
        BY <1>3, <2>6, OneWireTrades
    <2> QED BY <1>4, <2>1, <2>3, <2>5, <2>9, <2>10, <2>12, <2>13, TwoFound
<1>5. ReplaceHPauliH(b, cur, g, k) \in {NoRewrite, NullDereference}
      \/ /\ IsGate(op, "h", 0, 1) /\ prev # NoPlace /\ IsGate(b[prev], g, 0, 1)
         /\ prevPrev # NoPlace /\ IsGate(b[prevPrev], "h", 0, 1)
         /\ ReplaceHPauliH(b, cur, g, k) = r
    BY DEF ReplaceHPauliH
<1> QED BY <1>2, <1>4, <1>5

LEMMA XCxKeepsMeaning ==
    ASSUME OneRegister, NEW b, NEW cur, AtHome(b, cur), Unhindered(b, cur, CommuteXCx(b, cur).erase)
    PROVE  KeepsMeaning(b, cur, CommuteXCx(b, cur))
<1> DEFINE op == b[cur]
           c == op.ctrls[1]
           w == op.tgts[1]
           prev == getPreviousOperationOnTarget(b, cur, w)
           old == b[prev]
           r == Rewrite({cur, prev}, <<op, old>>)
<1>1. b \in ProperBlock /\ cur \in Places /\ op \in ProperOps /\ cur <= cur
    BY CurrentIsProper
<1>2. KeepsMeaning(b, cur, NoRewrite)
    BY <1>1, NoRewriteKeeps DEF NoRewrite, Rewrite
<1>3. "x" \in Gates /\ "x" \in OneWireGates
    BY DEF Gates, OneWireGates
<1>4. ASSUME IsGate(op, "x", 1, 1), prev # NoPlace, IsGate(b[prev], "x", 0, 1), Unhindered(b, cur, r.erase)
      PROVE  KeepsMeaning(b, cur, r)
    <2>1. w \in Wires /\ OnWires(op, "x", c, w)
        BY <1>1, <1>4, ProperTargets, GateOnWires
    <2> HIDE DEF w, c
    <2>2. Found(b, cur, w, prev)
        BY <1>1, <1>4, <2>1, FoundOnWire
    <2> HIDE DEF prev
    <2>3. /\ OnWire(b[prev], "x", w) /\ prev \in Places /\ prev <= cur /\ prev # cur
        BY <1>1, <1>3, <1>4, <2>2, EarlierPlaces DEF Found
    <2>4. old \in ProperOps
        BY <2>3 DEF OnWire
    <2> HIDE DEF op, old
    <2>5. /\ Len(r.insert) = 2 /\ \A k \in 1 .. 2 : r.insert[k] \in ProperOps
          /\ \A m : AfterInserted(m, r) = Apply(Apply(m, op), old)
        BY <1>1, <2>4, SlotsOfTwo
    <2>6. r.erase = {cur, prev}
        BY DEF Rewrite
    <2> HIDE DEF r
    <2>7. ProperRewrite(b, cur, r) /\ r.erase \ {cur} = {prev} /\ cur \in r.erase
        BY <1>1, <2>3, <2>5, <2>6 DEF ProperRewrite
    <2>8. \A m \in Meanings : Apply(Apply(m, old), op) = Apply(Apply(m, op), old)
        <3>1. OnWire(old, "x", IF "x" = "z" THEN c ELSE w)
            BY <2>3 DEF old
        <3> QED BY <2>1, <3>1, ThroughCx
    <2>9. \A m \in Meanings : AfterInserted(IF cur \in r.erase THEN m ELSE Apply(m, b[cur]), r)
                                 = Apply(Apply(m, b[prev]), b[cur])
        BY <2>5, <2>7, <2>8 DEF op, old
    <2>10. Trades(b[prev], {w})
        BY <1>3, <2>3, OneWireTrades
    <2> QED BY <1>4, <2>1, <2>2, <2>7, <2>9, <2>10, OneFound
<1>5. CommuteXCx(b, cur) = NoRewrite
      \/ /\ IsGate(op, "x", 1, 1) /\ prev # NoPlace /\ IsGate(b[prev], "x", 0, 1)
         /\ CommuteXCx(b, cur) = r
    BY DEF CommuteXCx, commuteOperation
<1> QED BY <1>2, <1>4, <1>5

LEMMA ZCxKeepsMeaning ==
    ASSUME OneRegister, NEW b, NEW cur, AtHome(b, cur), Unhindered(b, cur, commuteZCNot(b, cur).erase)
    PROVE  KeepsMeaning(b, cur, commuteZCNot(b, cur))
<1> DEFINE op == b[cur]
           c == op.ctrls[1]
           t == op.tgts[1]
           prev == getPreviousOperationOnTarget(b, cur, c)
           old == b[prev]
           r == Rewrite({prev}, <<old>>)
<1>1. b \in ProperBlock /\ cur \in Places /\ op \in ProperOps /\ cur <= cur
    BY CurrentIsProper
<1>2. KeepsMeaning(b, cur, NoRewrite)
    BY <1>1, NoRewriteKeeps DEF NoRewrite, Rewrite
<1>3. "z" \in Gates /\ "z" \in OneWireGates
    BY DEF Gates, OneWireGates
<1>4. ASSUME IsGate(op, "x", 1, 1), prev # NoPlace, IsGate(b[prev], "z", 0, 1), Unhindered(b, cur, r.erase)
      PROVE  KeepsMeaning(b, cur, r)
    <2>1. c \in Wires /\ OnWires(op, "x", c, t)
        BY <1>1, <1>4, ProperTargets, GateOnWires DEF IsGate
    <2> HIDE DEF t, c
    <2>2. Found(b, cur, c, prev)
        BY <1>1, <1>4, <2>1, FoundOnWire
    <2> HIDE DEF prev
    <2>3. /\ OnWire(b[prev], "z", c) /\ prev \in Places /\ prev <= cur /\ prev # cur
        BY <1>1, <1>3, <1>4, <2>2, EarlierPlaces DEF Found
    <2>4. old \in ProperOps
        BY <2>3 DEF OnWire
    <2> HIDE DEF op, old
    <2>5. /\ Len(r.insert) = 1 /\ \A k \in 1 .. 1 : r.insert[k] \in ProperOps
          /\ \A m : AfterInserted(m, r) = Apply(m, old)
        BY <2>4, SlotsOfOne
    <2>6. r.erase = {prev}
        BY DEF Rewrite
    <2> HIDE DEF r
    <2>7. ProperRewrite(b, cur, r) /\ r.erase \ {cur} = {prev} /\ cur \notin r.erase
        BY <1>1, <2>3, <2>5, <2>6 DEF ProperRewrite
    <2>8. \A m \in Meanings : Apply(Apply(m, old), op) = Apply(Apply(m, op), old)
        <3>1. OnWire(old, "z", IF "z" = "z" THEN c ELSE t)
            BY <2>3 DEF old
        <3> QED BY <2>1, <3>1, ThroughCx
    <2>9. \A m \in Meanings : AfterInserted(IF cur \in r.erase THEN m ELSE Apply(m, b[cur]), r)
                                 = Apply(Apply(m, b[prev]), b[cur])
        BY <2>5, <2>7, <2>8 DEF op, old
    <2>10. Trades(b[prev], {c})
        BY <1>3, <2>3, OneWireTrades
    <2> QED BY <1>4, <2>1, <2>2, <2>7, <2>9, <2>10, OneFound
<1>5. commuteZCNot(b, cur) = NoRewrite
      \/ /\ IsGate(op, "x", 1, 1) /\ prev # NoPlace /\ IsGate(b[prev], "z", 0, 1)
         /\ commuteZCNot(b, cur) = r
    BY DEF commuteZCNot
<1> QED BY <1>2, <1>4, <1>5

-----------------------------------------------------------------------------
(* The passes that look back for a gate on two wires *)

LEMMA EarlierPlace ==
    ASSUME NEW cur \in Places, NEW p \in Places, p < cur
    PROVE  p <= cur /\ p # cur
BY PlacesAreNaturals

\* The current gate and an earlier one that commute trade places.
LEMMA CommutedKeepsMeaning ==
    ASSUME NEW b, NEW cur, AtHome(b, cur), NEW p \in Places, p < cur, NEW W,
           Trades(b[p], W), Clear(b, p, cur, W),
           \A m \in Meanings : Apply(Apply(m, b[cur]), b[p]) = Apply(Apply(m, b[p]), b[cur])
    PROVE  /\ KeepsMeaning(b, cur, Rewrite({cur, p}, <<b[cur], b[p]>>))
           /\ KeepsMeaning(b, cur, Rewrite({p}, <<b[p]>>))
<1> DEFINE op == b[cur]
           old == b[p]
           q == Rewrite({cur, p}, <<op, old>>)
           r == Rewrite({p}, <<old>>)
<1>1. cur \in Places /\ op \in ProperOps /\ old \in ProperOps /\ cur <= cur /\ p <= cur /\ p # cur
    <2>1. cur \in Places /\ op \in ProperOps /\ cur <= cur
        BY CurrentIsProper
    <2> QED BY <2>1, EarlierPlace DEF Trades
<1>2. \A m \in Meanings : Apply(Apply(m, op), old) = Apply(Apply(m, old), op)
    OBVIOUS
<1> HIDE DEF op, old
<1>3. KeepsMeaning(b, cur, q)
    <2>1. /\ Len(q.insert) = 2 /\ \A k \in 1 .. 2 : q.insert[k] \in ProperOps
          /\ \A m : AfterInserted(m, q) = Apply(Apply(m, op), old)
        BY <1>1, SlotsOfTwo
    <2>2. q.erase = {cur, p}
        BY DEF Rewrite
    <2> HIDE DEF q
    <2>3. ProperRewrite(b, cur, q) /\ q.erase \ {cur} = {p} /\ cur \in q.erase
        BY <1>1, <2>1, <2>2 DEF ProperRewrite
    <2>4. \A m \in Meanings : AfterInserted(IF cur \in q.erase THEN m ELSE Apply(m, b[cur]), q)
                                = Apply(Apply(m, b[p]), b[cur])
        BY <1>2, <2>1, <2>3 DEF op, old
    <2> QED BY <2>3, <2>4, OneGathered
<1>4. KeepsMeaning(b, cur, r)
    <2>1. /\ Len(r.insert) = 1 /\ \A k \in 1 .. 1 : r.insert[k] \in ProperOps
          /\ \A m : AfterInserted(m, r) = Apply(m, old)
        BY <1>1, SlotsOfOne
    <2>2. r.erase = {p}
        BY DEF Rewrite
    <2> HIDE DEF r
    <2>3. ProperRewrite(b, cur, r) /\ r.erase \ {cur} = {p} /\ cur \notin r.erase
        BY <1>1, <2>1, <2>2 DEF ProperRewrite
    <2>4. \A m \in Meanings : AfterInserted(IF cur \in r.erase THEN m ELSE Apply(m, b[cur]), r)
                                = Apply(Apply(m, b[p]), b[cur])
        BY <1>2, <2>1, <2>3 DEF op, old
    <2> QED BY <2>3, <2>4, OneGathered
<1> QED BY <1>3, <1>4 DEF op, old

\* The current gate and an earlier one that undo each other vanish.
LEMMA CancelledKeepsMeaning ==
    ASSUME NEW b, NEW cur, AtHome(b, cur), NEW p \in Places, p < cur, NEW W,
           Trades(b[p], W), Clear(b, p, cur, W),
           \A m \in Meanings : Apply(Apply(m, b[p]), b[cur]) = m
    PROVE  KeepsMeaning(b, cur, Rewrite({cur, p}, <<>>))
<1> DEFINE r == Rewrite({cur, p}, <<>>)
<1>1. cur \in Places /\ cur <= cur /\ p <= cur /\ p # cur
    <2>1. cur \in Places /\ cur <= cur
        BY CurrentIsProper
    <2> QED BY <2>1, EarlierPlace
<1>2. r.erase = {cur, p} /\ r.insert = <<>>
    BY DEF Rewrite
<1> HIDE DEF r
<1>3. Len(r.insert) = 0
    BY <1>2
<1>4. ProperRewrite(b, cur, r) /\ r.erase \ {cur} = {p} /\ cur \in r.erase
    BY <1>1, <1>2, <1>3 DEF ProperRewrite
<1>5. \A m : AfterInserted(m, r) = m
    BY <1>3 DEF AfterInserted, AfterFive, After, Slot
<1>6. \A m \in Meanings : AfterInserted(IF cur \in r.erase THEN m ELSE Apply(m, b[cur]), r)
                            = Apply(Apply(m, b[p]), b[cur])
    BY <1>4, <1>5
<1> QED BY <1>4, <1>6, OneGathered DEF r

\* The controlled gate a lookup finds, with nothing behind it on its wires
LEMMA ControlledNeighbour ==
    ASSUME OneRegister, NEW b, NEW cur, AtHome(b, cur), NEW w \in Wires,
           NEW p, p = getPreviousOperationOnTarget(b, cur, w), p # NoPlace,
           NEW g \in {"x", "y", "z"}, IsGate(b[p], g, 1, 1),
           NEW E, E \ {cur} = {p}, Parted(b, cur, E)
    PROVE  /\ p \in Places /\ p < cur
           /\ b[p].ctrls[1] \in Wires /\ b[p].tgts[1] \in Wires
           /\ OnWires(b[p], g, b[p].ctrls[1], b[p].tgts[1])
           /\ Trades(b[p], WiresOf(b[p])) /\ Clear(b, p, cur, WiresOf(b[p]))
<1>1. b \in ProperBlock /\ cur \in Places
    BY CurrentIsProper
<1>2. Found(b, cur, w, p)
    BY <1>1, FoundOnWire
<1>3. p \in Places /\ p < cur /\ b[p] \in ProperOps
    BY <1>2 DEF Found
<1>4. /\ b[p].ctrls[1] \in Wires /\ b[p].tgts[1] \in Wires
      /\ WiresOf(b[p]) = {b[p].ctrls[1], b[p].tgts[1]}
    BY <1>3, WiresOfGate
<1>5. OnWires(b[p], g, b[p].ctrls[1], b[p].tgts[1])
    BY <1>3, GateOnWires
<1>6. Trades(b[p], WiresOf(b[p]))
    BY <1>4, <1>5, ControlledTrades
<1>7. Clear(b, p, cur, WiresOf(b[p]))
    BY <1>1, <1>3, PartedClear
<1> QED BY <1>3, <1>4, <1>5, <1>6, <1>7

\* The gate on one wire a lookup finds, with nothing behind it on the wire
LEMMA OneWireNeighbour ==
    ASSUME OneRegister, NEW b, NEW cur, AtHome(b, cur), NEW w \in Wires,
           NEW p, p = getPreviousOperationOnTarget(b, cur, w), p # NoPlace,
           NEW g \in Gates, IsGate(b[p], g, 0, 1),
           NEW E, E \ {cur} = {p}, Unhindered(b, cur, E)
    PROVE  /\ p \in Places /\ p < cur /\ OnWire(b[p], g, w)
           /\ WiresOf(b[p]) = {w} /\ Clear(b, p, cur, {w})
<1>1. b \in ProperBlock /\ cur \in Places /\ cur <= cur
    BY CurrentIsProper
<1>2. Found(b, cur, w, p)
    BY <1>1, FoundOnWire
<1>3. p \in Places /\ p < cur /\ b[p] \in ProperOps /\ OnWire(b[p], g, w)
    BY <1>2 DEF Found
<1>4. WiresOf(b[p]) = {w}
    <2>1. b[p].tgts[1] = w
        BY <1>3 DEF OnWire
    <2> QED BY <1>3, <2>1, WiresOfGate
<1>5. p \in E /\ \A t \in E : t <= p \/ cur <= t
    <2>1. \A t \in E : t = p \/ t = cur
        OBVIOUS
    <2>2. p <= p /\ cur <= cur /\ p \in E
        BY <1>1, <1>3, PlacesAreNaturals
    <2> QED BY <2>1, <2>2
<1>6. Clear(b, p, cur, {w})
    BY <1>1, <1>2, <1>5, FoundClear
<1> QED BY <1>3, <1>4, <1>6

\* A rotation about the axis x of the target of a cx is moved behind it.
LEMMA RxCxKeepsMeaning ==
    ASSUME OneRegister, NEW b, NEW cur, AtHome(b, cur), Unhindered(b, cur, CommuteRxCx(b, cur).erase)
    PROVE  KeepsMeaning(b, cur, CommuteRxCx(b, cur))
<1> DEFINE op == b[cur]
           c == op.ctrls[1]
           w == op.tgts[1]
           prev == getPreviousOperationOnTarget(b, cur, w)
           r == Rewrite({cur, prev}, <<b[cur], b[prev]>>)
<1>1. b \in ProperBlock /\ cur \in Places /\ op \in ProperOps
    BY CurrentIsProper
<1>2. KeepsMeaning(b, cur, NoRewrite)
    BY <1>1, NoRewriteKeeps DEF NoRewrite, Rewrite
<1>3. ASSUME IsGate(op, "x", 1, 1), prev # NoPlace, IsGate(b[prev], "rx", 0, 1), Unhindered(b, cur, r.erase)
      PROVE  KeepsMeaning(b, cur, r)
    <2>1. w \in Wires /\ OnWires(op, "x", c, w)
        BY <1>1, <1>3, ProperTargets, GateOnWires
    <2> HIDE DEF w, c
    <2>2. prev \in Places => r.erase \ {cur} = {prev} \/ prev = cur
        BY DEF Rewrite
    <2>3. prev \in Places /\ prev < cur /\ b[prev] \in ProperOps
        <3>1. Found(b, cur, w, prev)
            BY <1>1, <1>3, <2>1, FoundOnWire
        <3> QED BY <3>1 DEF Found
    <2> DEFINE E == r.erase
    <2>4. E \ {cur} = {prev}
        BY <1>1, <2>2, <2>3, EarlierPlace
    <2>5. Unhindered(b, cur, E) /\ "rx" \in Gates
        BY <1>3 DEF Gates
    <2> HIDE DEF E, prev, op
    <2>6. /\ OnWire(b[prev], "rx", w)
          /\ WiresOf(b[prev]) = {w} /\ Clear(b, prev, cur, {w})
        <3>1. prev = getPreviousOperationOnTarget(b, cur, w)
            BY DEF prev
        <3>2. prev # NoPlace /\ IsGate(b[prev], "rx", 0, 1)
            BY <1>3
        <3> QED BY <2>1, <2>4, <2>5, <3>1, <3>2, OneWireNeighbour
    <2>7. ~ Moves(b[prev])
        BY <2>6 DEF Moves, OnWire, IsPauliGate
    <2> DEFINE W == {w}
    <2>8. Trades(b[prev], W) /\ Clear(b, prev, cur, W)
        BY <2>3, <2>6, <2>7, EventTrades
    <2> HIDE DEF W
    <2>9. \A m \in Meanings : Apply(Apply(m, b[cur]), b[prev]) = Apply(Apply(m, b[prev]), b[cur])
        BY <2>1, <2>6, RotationThroughCx DEF op
    <2> QED BY <2>3, <2>8, <2>9, CommutedKeepsMeaning
<1>4. CommuteRxCx(b, cur) = NoRewrite
      \/ /\ IsGate(op, "x", 1, 1) /\ prev # NoPlace /\ IsGate(b[prev], "rx", 0, 1)
         /\ CommuteRxCx(b, cur) = r
    BY DEF CommuteRxCx, commuteOperation
<1> QED BY <1>2, <1>3, <1>4

\* A cx is moved behind an rx or x on its target.
LEMMA CxKeepsMeaning ==
    ASSUME OneRegister, NEW b, NEW cur, AtHome(b, cur), NEW g \in {"x", "rx"},
           Parted(b, cur, commuteOperation(b, cur, "x", g, 1, 1, 0, 1).erase)
    PROVE  KeepsMeaning(b, cur, commuteOperation(b, cur, "x", g, 1, 1, 0, 1))
<1> DEFINE op == b[cur]
           w == op.tgts[1]
           prev == getPreviousOperationOnTarget(b, cur, w)
           c == b[prev].ctrls[1]
           t == b[prev].tgts[1]
           r == Rewrite({cur, prev}, <<b[cur], b[prev]>>)
<1>1. b \in ProperBlock /\ cur \in Places /\ op \in ProperOps /\ g \in Gates
    BY CurrentIsProper DEF Gates
<1>2. KeepsMeaning(b, cur, NoRewrite)
    BY <1>1, NoRewriteKeeps DEF NoRewrite, Rewrite
<1>3. ASSUME IsGate(op, g, 0, 1), prev # NoPlace, IsGate(b[prev], "x", 1, 1), t.idx = w.idx,
             Parted(b, cur, r.erase)
      PROVE  KeepsMeaning(b, cur, r)
    <2>1. w \in Wires /\ OnWire(op, g, w) /\ WiresOf(op) = {w}
        BY <1>1, <1>3, CurrentOnWire, WiresOfGate
    <2>2. prev \in Places /\ prev < cur
        <3>1. Found(b, cur, w, prev)
            BY <1>1, <1>3, <2>1, FoundOnWire
        <3> QED BY <3>1 DEF Found
    <2> DEFINE E == r.erase
    <2>3. E \ {cur} = {prev}
        BY <1>1, <2>2, EarlierPlace DEF Rewrite
    <2>4. Parted(b, cur, E)
        BY <1>3
    <2> HIDE DEF E, prev, w
    <2>5. /\ c \in Wires /\ t \in Wires /\ OnWires(b[prev], "x", c, t)
          /\ Trades(b[prev], WiresOf(b[prev])) /\ Clear(b, prev, cur, WiresOf(b[prev]))
        BY <1>3, <2>1, <2>3, <2>4, ControlledNeighbour DEF prev
    <2>6. t = w
        BY <1>3, <2>1, <2>5 DEF OneRegister
    <2> HIDE DEF c, t, op
    <2>7. \A m \in Meanings : Apply(Apply(m, b[cur]), b[prev]) = Apply(Apply(m, b[prev]), b[cur])
        <3>1. OnWire(b[cur], g, t) /\ WiresOf(b[cur]) = {t}
            BY <2>1, <2>6 DEF op
        <3>2. CASE g = "x"
            <4>1. OnWire(b[cur], "x", IF "x" = "z" THEN c ELSE t)
                BY <3>1, <3>2
            <4> QED BY <2>5, <4>1, ThroughCx
        <3>3. CASE g = "rx"
            BY <2>5, <3>1, <3>3, RotationThroughCx
        <3> QED BY <3>2, <3>3
    <2> QED BY <2>2, <2>5, <2>7, CommutedKeepsMeaning
<1>4. commuteOperation(b, cur, "x", g, 1, 1, 0, 1) = NoRewrite
      \/ /\ IsGate(op, g, 0, 1) /\ prev # NoPlace /\ IsGate(b[prev], "x", 1, 1) /\ t.idx = w.idx
         /\ commuteOperation(b, cur, "x", g, 1, 1, 0, 1) = r
    BY DEF commuteOperation
<1> QED BY <1>2, <1>3, <1>4

\* A cx is moved behind a z on its control.
LEMMA CxZKeepsMeaning ==
    ASSUME OneRegister, NEW b, NEW cur, AtHome(b, cur), Parted(b, cur, commuteCNotZ(b, cur).erase)
    PROVE  KeepsMeaning(b, cur, commuteCNotZ(b, cur))
<1> DEFINE op == b[cur]
           w == op.tgts[1]
           prev == getPreviousOperationOnTarget(b, cur, w)
           c == b[prev].ctrls[1]
           t == b[prev].tgts[1]
           r == Rewrite({prev}, <<b[prev]>>)
<1>1. b \in ProperBlock /\ cur \in Places /\ op \in ProperOps /\ "z" \in Gates
    BY CurrentIsProper DEF Gates
<1>2. KeepsMeaning(b, cur, NoRewrite)
    BY <1>1, NoRewriteKeeps DEF NoRewrite, Rewrite
<1>3. ASSUME IsGate(op, "z", 0, 1), prev # NoPlace, IsGate(b[prev], "x", 1, 1), w.idx = c.idx,
             Parted(b, cur, r.erase)
      PROVE  KeepsMeaning(b, cur, r)
    <2>1. w \in Wires /\ OnWire(op, "z", w)
        BY <1>1, <1>3, CurrentOnWire
    <2>2. prev \in Places /\ prev < cur
        <3>1. Found(b, cur, w, prev)
            BY <1>1, <1>3, <2>1, FoundOnWire
        <3> QED BY <3>1 DEF Found
    <2> DEFINE E == r.erase
    <2>3. E \ {cur} = {prev}
        BY <1>1, <2>2, EarlierPlace DEF Rewrite
    <2>4. Parted(b, cur, E)
        BY <1>3
    <2> HIDE DEF E, prev, w
    <2>5. /\ c \in Wires /\ t \in Wires /\ OnWires(b[prev], "x", c, t)
          /\ Trades(b[prev], WiresOf(b[prev])) /\ Clear(b, prev, cur, WiresOf(b[prev]))
        BY <1>3, <2>1, <2>3, <2>4, ControlledNeighbour DEF prev
    <2>6. w = c
        BY <1>3, <2>1, <2>5 DEF OneRegister
    <2> HIDE DEF c, t, op
    <2>7. \A m \in Meanings : Apply(Apply(m, b[cur]), b[prev]) = Apply(Apply(m, b[prev]), b[cur])
        <3>1. OnWire(b[cur], "z", IF "z" = "z" THEN c ELSE t)
            BY <2>1, <2>6 DEF op
        <3> QED BY <2>5, <3>1, ThroughCx
    <2> QED BY <2>2, <2>5, <2>7, CommutedKeepsMeaning
<1>4. commuteCNotZ(b, cur) = NoRewrite
      \/ /\ IsGate(op, "z", 0, 1) /\ prev # NoPlace /\ IsGate(b[prev], "x", 1, 1) /\ w.idx = c.idx
         /\ commuteCNotZ(b, cur) = r
    BY DEF commuteCNotZ
<1> QED BY <1>2, <1>3, <1>4

\* Of one register, lists of one wire with the same index are the same.
LEMMA SameWire ==
    ASSUME OneRegister, NEW ws \in Seq(Wires), NEW vs \in Seq(Wires),
           Len(ws) = 1, Len(vs) = 1, SameIndices(ws, vs)
    PROVE  ws[1] = vs[1]
<1>1. DOMAIN ws = {1} /\ DOMAIN vs = {1} /\ ws[1] \in Wires /\ vs[1] \in Wires
    OBVIOUS
<1> DEFINE is == getIndicesOfValueRange(ws)
           js == getIndicesOfValueRange(vs)
<1>2. /\ DOMAIN is = {1} /\ is[1] = ws[1].idx
      /\ DOMAIN js = {1} /\ js[1] = vs[1].idx
    BY <1>1 DEF getIndicesOfValueRange, extractIndexFromQuakeExtractRefOp
<1>3. Occurrences(is, is[1]) = Occurrences(js, is[1])
    BY <1>2 DEF SameIndices
<1> HIDE DEF is, js
<1>4. Occurrences(is, is[1]) = 1
    <2>1. {i \in DOMAIN is : is[i] = is[1]} = {1}
        BY <1>2
    <2> QED BY <2>1, FS_Singleton DEF Occurrences
<1>5. ASSUME js[1] # is[1] PROVE Occurrences(js, is[1]) = 0
    <2>1. {i \in DOMAIN js : js[i] = is[1]} = {}
        BY <1>2, <1>5
    <2> QED BY <2>1, FS_EmptySet DEF Occurrences
<1>6. js[1] = is[1]
    BY <1>3, <1>4, <1>5
<1> QED BY <1>1, <1>2, <1>6 DEF OneRegister

\* Two gates of the same class on the same wires, one behind the other, vanish.  A
\* controlled h is the exception: it is none of the gates the reference multiplies out.
LEMMA CancellationKeepsMeaning ==
    ASSUME OneRegister, NEW b, NEW cur, AtHome(b, cur),
           NEW g \in {"x", "y", "z", "h"}, NEW n \in {0, 1}, g = "h" => n = 0 \/ ~ IsGate(b[cur], "h", 1, 1),
           Parted(b, cur, patternCancellation(b, cur, g, g, n, 1, n, 1).erase)
    PROVE  KeepsMeaning(b, cur, patternCancellation(b, cur, g, g, n, 1, n, 1))
<1> DEFINE op == b[cur]
           w == op.tgts[1]
           prev == getPreviousOperationOnTarget(b, cur, w)
           old == b[prev]
           r == Rewrite({cur, prev}, <<>>)
<1>1. b \in ProperBlock /\ cur \in Places /\ op \in ProperOps /\ g \in Gates
    BY CurrentIsProper DEF Gates
<1>2. KeepsMeaning(b, cur, NoRewrite)
    BY <1>1, NoRewriteKeeps DEF NoRewrite, Rewrite
<1>3. ASSUME IsGate(op, g, n, 1), prev # NoPlace, IsGate(old, g, n, 1),
             SameIndices(op.ctrls, old.ctrls), SameIndices(op.tgts, old.tgts),
             Parted(b, cur, r.erase)
      PROVE  KeepsMeaning(b, cur, r)
    <2>1. /\ op.tgts \in Seq(Wires) /\ op.ctrls \in Seq(Wires) /\ w \in Wires
          /\ Len(op.tgts) = 1 /\ Len(old.tgts) = 1 /\ Len(op.ctrls) = n /\ Len(old.ctrls) = n
        BY <1>1, <1>3, ProperTargets DEF IsGate
    <2>2. prev \in Places /\ prev < cur /\ old \in ProperOps
        <3>1. Found(b, cur, w, prev)
            BY <1>1, <1>3, <2>1, FoundOnWire
        <3> QED BY <3>1 DEF Found
    <2>3. old.tgts \in Seq(Wires) /\ old.ctrls \in Seq(Wires)
        BY <2>2, ProperTargets
    <2>4. old.tgts[1] = w /\ (n = 1 => old.ctrls[1] = op.ctrls[1])
        <3> HIDE DEF old, prev, w
        <3>1. op.tgts[1] = old.tgts[1]
            BY <1>3, <2>1, <2>3, SameWire
        <3>2. ASSUME n = 1 PROVE op.ctrls[1] = old.ctrls[1]
            BY <1>3, <2>1, <2>3, <3>2, SameWire
        <3> QED BY <3>1, <3>2 DEF w
    <2> DEFINE E == r.erase
    <2>5. E \ {cur} = {prev}
        BY <1>1, <2>2, EarlierPlace DEF Rewrite
    <2>6. Parted(b, cur, E) /\ Unhindered(b, cur, E)
        BY <1>3 DEF Unhindered
    <2> HIDE DEF E, prev, w, r
    <2>7. CASE n = 1
        <3> DEFINE c == op.ctrls[1]
        <3>1. g \in {"x", "y", "z"} /\ IsGate(old, g, 1, 1) /\ IsGate(op, g, 1, 1)
            BY <1>3, <2>7
        <3>2. /\ OnWires(old, g, old.ctrls[1], old.tgts[1])
              /\ Trades(old, WiresOf(old)) /\ Clear(b, prev, cur, WiresOf(old))
            BY <1>3, <2>1, <2>5, <2>6, <3>1, ControlledNeighbour DEF prev
        <3>3. OnWires(op, g, c, w) /\ OnWires(old, g, c, w)
            BY <1>1, <2>4, <2>7, <3>1, <3>2, GateOnWires DEF w
        <3> HIDE DEF c, op, old
        <3>4. \A m \in Meanings : Apply(Apply(m, old), op) = m
            BY <3>1, <3>3, ControlledTwice
        <3> QED BY <2>2, <3>2, <3>4, CancelledKeepsMeaning DEF op, old, r
    <2>8. CASE n = 0
        <3>1. OnWire(op, g, w) /\ IsGate(old, g, 0, 1)
            BY <1>1, <1>3, <2>8, CurrentOnWire DEF w
        <3>2. OnWire(old, g, w) /\ Clear(b, prev, cur, {w})
            BY <1>1, <1>3, <2>1, <2>5, <2>6, <3>1, OneWireNeighbour DEF prev
        <3>3. Trades(old, {w})
            BY <3>2, OneWireTrades DEF OneWireGates
        <3> HIDE DEF op, old
        <3> DEFINE W == {w}
        <3>4. Trades(old, W) /\ Clear(b, prev, cur, W)
            BY <3>2, <3>3
        <3> HIDE DEF W
        <3>5. \A m \in Meanings : Apply(Apply(m, old), op) = m
            BY <3>1, <3>2, PauliTwice, HTwice
        <3> QED BY <2>2, <3>4, <3>5, CancelledKeepsMeaning DEF op, old, r
    <2> QED BY <2>7, <2>8
<1>4. patternCancellation(b, cur, g, g, n, 1, n, 1) = NoRewrite
      \/ /\ IsGate(op, g, n, 1) /\ prev # NoPlace /\ IsGate(old, g, n, 1)
         /\ SameIndices(op.ctrls, old.ctrls) /\ SameIndices(op.tgts, old.tgts)
         /\ patternCancellation(b, cur, g, g, n, 1, n, 1) = r
    BY DEF patternCancellation
<1> QED BY <1>2, <1>3, <1>4

\* The eight cancellations tried one after the other: what was erased is read again, and
\* the process may crash, but what the block does is the same.
LEMMA ReductionKeepsMeaning ==
    ASSUME OneRegister, NEW b, NEW cur, AtHome(b, cur), ~ IsGate(b[cur], "h", 1, 1),
           Parted(b, cur, ReductionPattern(b, cur).erase)
    PROVE  KeepsMeaning(b, cur, ReductionPattern(b, cur))
<1> DEFINE call(k) == patternCancellation(b, cur, ReductionCalls[k][1], ReductionCalls[k][1],
                                          ReductionCalls[k][2], 1, ReductionCalls[k][2], 1)
           hits == {k \in DOMAIN ReductionCalls : call(k) # NoRewrite}
           hit == FirstOf(hits)
           r == ReductionPattern(b, cur)
<1>1. b \in ProperBlock /\ cur \in Places
    BY CurrentIsProper
<1>2. CASE hit = NoPlace
    <2>1. r = NoRewrite
        BY <1>2 DEF ReductionPattern
    <2> HIDE DEF r
    <2>2. r.erase = {} /\ r.insert = <<>>
        BY <2>1 DEF NoRewrite, Rewrite
    <2> QED BY <1>1, <2>2, NoRewriteKeeps DEF r
<1>3. CASE hit # NoPlace
    <2>1. hit \in 1 .. 8
        <3>1. hits \in SUBSET (1 .. 8)
            BY DEF ReductionCalls
        <3>2. hits # {} => \E s \in hits : \A t \in hits : s <= t
            BY <3>1, FirstExists
        <3> QED BY <1>3, <3>1, <3>2 DEF FirstOf
    <2> HIDE DEF hit
    <2>2. ReductionCalls[hit][1] \in {"x", "y", "z", "h"} /\ ReductionCalls[hit][2] \in {0, 1}
        BY <2>1 DEF ReductionCalls
    <2>3. r.erase = call(hit).erase /\ r.insert = call(hit).insert
        <3>1. DOMAIN call(hit) = {"erase", "insert", "fault"}
            BY DEF patternCancellation, NoRewrite, Rewrite
        <3>2. r = [call(hit) EXCEPT !.fault = IF hit < Len(ReductionCalls) THEN "freed" ELSE @]
            BY <1>3 DEF ReductionPattern, hit
        <3> HIDE DEF call, r
        <3> QED BY <3>1, <3>2
    <2> HIDE DEF r
    <2>4. KeepsMeaning(b, cur, call(hit))
        <3> DEFINE g == ReductionCalls[hit][1]
                   n == ReductionCalls[hit][2]
        <3>1. g \in {"x", "y", "z", "h"} /\ n \in {0, 1}
            BY <2>2
        <3>2. Parted(b, cur, patternCancellation(b, cur, g, g, n, 1, n, 1).erase)
            BY <2>3 DEF r
        <3> HIDE DEF g, n
        <3>3. KeepsMeaning(b, cur, patternCancellation(b, cur, g, g, n, 1, n, 1))
            BY <3>1, <3>2, CancellationKeepsMeaning
        <3> QED BY <3>3 DEF g, n
    <2> HIDE DEF call
    <2>5. Rewritten(b, cur, r) = Rewritten(b, cur, call(hit))
        BY <2>3 DEF Rewritten
    <2> QED BY <2>4, <2>5 DEF KeepsMeaning, r
<1> QED BY <1>2, <1>3

-----------------------------------------------------------------------------
(* The block stays well-formed whatever stands in the way of a rewrite *)

InsertsProper(r) == \A k \in 1 .. Len(r.insert) : r.insert[k] \in ProperOps

LEMMA NothingInserted ==
    /\ InsertsProper(NoRewrite) /\ InsertsProper(NullDereference)
    /\ \A E : InsertsProper(Rewrite(E, <<>>))
BY DEF InsertsProper, NoRewrite, NullDereference, Rewrite

LEMMA ProperInserted ==
    ASSUME NEW E, NEW o1 \in ProperOps, NEW o2 \in ProperOps
    PROVE  InsertsProper(Rewrite(E, <<o1>>)) /\ InsertsProper(Rewrite(E, <<o1, o2>>))
BY DEF InsertsProper, Rewrite

\* What a lookup finds is well-formed, and stays so as another gate on its wires.
LEMMA FoundIsProper ==
    ASSUME NEW b \in ProperBlock, NEW cur, NEW w,
           NEW p, p = getPreviousOperationOnTarget(b, cur, w), p # NoPlace
    PROVE  b[p] \in ProperOps
<1>1. b \in Block
    BY DEF ProperBlock, Block, ProperOps
<1>2. p \in Places /\ b[p].gate \in Gates
    BY <1>1, PreviousOperation
<1>3. NoOp.gate \notin Gates
    BY DEF NoOp, Gates
<1> QED BY <1>2, <1>3 DEF ProperBlock

LEMMA RetypedIsProper ==
    ASSUME NEW op \in ProperOps, NEW g \in OneWireGates
    PROVE  Retyped(op, g) \in ProperOps
<1> DEFINE new == Retyped(op, g)
<1>1. op \in Op /\ g \in Gates /\ g # "swap" /\ g \notin Rotations
    BY DEF ProperOps, OneWireGates, Gates, Rotations
<1>2. new \in Op /\ new.gate = g /\ new.ctrls = op.ctrls /\ new.tgts = op.tgts
    BY <1>1 DEF Retyped, Op
<1> HIDE DEF new
<1>3. new \in ProperOps
    BY <1>1, <1>2, SameShape
<1> QED BY <1>3 DEF new

LEMMA TemplatesInsertProper ==
    ASSUME NEW b, NEW cur, AtHome(b, cur)
    PROVE  /\ \A T1, T2, c1, t1, c2, t2 :
                /\ InsertsProper(patternCancellation(b, cur, T1, T2, c1, t1, c2, t2))
                /\ InsertsProper(commuteOperation(b, cur, T1, T2, c1, t1, c2, t2))
           /\ \A T1, T2 : \A T3, T4 \in OneWireGates : InsertsProper(patternSwitch(b, cur, T1, T2, T3, T4))
           /\ InsertsProper(commuteCNotZ(b, cur)) /\ InsertsProper(commuteZCNot(b, cur))
           /\ InsertsProper(SwitchPauliHOperation(b, cur))
<1> DEFINE prev(w) == getPreviousOperationOnTarget(b, cur, w)
<1>1. b \in ProperBlock /\ b[cur] \in ProperOps
    BY CurrentIsProper
<1>2. ASSUME NEW w, prev(w) # NoPlace
      PROVE  /\ b[prev(w)] \in ProperOps
             /\ \A g \in OneWireGates : Retyped(b[prev(w)], g) \in ProperOps
    BY <1>1, <1>2, FoundIsProper, RetypedIsProper
<1>3. ASSUME NEW T1, NEW T2, NEW c1, NEW t1, NEW c2, NEW t2
      PROVE  /\ InsertsProper(patternCancellation(b, cur, T1, T2, c1, t1, c2, t2))
             /\ InsertsProper(commuteOperation(b, cur, T1, T2, c1, t1, c2, t2))
    BY <1>1, <1>2, NothingInserted, ProperInserted DEF patternCancellation, commuteOperation
<1>4. ASSUME NEW T1, NEW T2, NEW T3 \in OneWireGates, NEW T4 \in OneWireGates
      PROVE  InsertsProper(patternSwitch(b, cur, T1, T2, T3, T4))
    <2>1. Retyped(b[cur], T3) \in ProperOps
        BY <1>1, RetypedIsProper
    <2> QED BY <1>2, <2>1, NothingInserted, ProperInserted DEF patternSwitch
<1>5. InsertsProper(commuteCNotZ(b, cur)) /\ InsertsProper(commuteZCNot(b, cur))
    BY <1>2, NothingInserted, ProperInserted DEF commuteCNotZ, commuteZCNot
<1>6. InsertsProper(SwitchPauliHOperation(b, cur))
    <2>1. \A g \in DOMAIN ThroughH : ThroughH[g] \in OneWireGates
        BY DEF ThroughH, OneWireGates
    <2> QED BY <1>2, <2>1, NothingInserted, ProperInserted DEF SwitchPauliHOperation
<1> QED BY <1>3, <1>4, <1>5, <1>6

LEMMA ReplacementsInsertProper ==
    ASSUME NEW b, NEW cur, AtHome(b, cur)
    PROVE  /\ \A m : \A g \in {"x", "z"} : InsertsProper(ReplaceHPauliH(b, cur, m, g))
           /\ \A adj \in BOOLEAN : InsertsProper(ReplaceSZ(b, cur, adj))
           /\ InsertsProper(ReductionPattern(b, cur))
<1> DEFINE op == b[cur]
           prev == getPreviousOperationOnTarget(b, cur, op.tgts[1])
<1>1. b \in ProperBlock /\ op \in ProperOps
    BY CurrentIsProper
<1>2. ASSUME NEW m, NEW g \in {"x", "z"} PROVE InsertsProper(ReplaceHPauliH(b, cur, m, g))
    <2> DEFINE new == Operation(g, FALSE, <<>>, op.ctrls, op.tgts)
    <2>1. op.ctrls \in Seq(Wires) /\ op.tgts \in Seq(Wires) /\ g \in Gates /\ g # "swap" /\ g \notin Rotations
        BY <1>1, ProperTargets DEF Gates, Rotations
    <2>2. new \in Op /\ new.ctrls = op.ctrls /\ new.tgts = op.tgts /\ new.gate = g
        BY <2>1, PlainIsOp DEF Plain, Operation
    <2> HIDE DEF new, op
    <2>3. new \in ProperOps
        BY <1>1, <2>1, <2>2, SameShape
    <2>4. \A E : InsertsProper(Rewrite(E, <<new>>))
        BY <2>3, ProperInserted
    <2> QED BY <2>4, NothingInserted DEF ReplaceHPauliH, new, op
<1>3. ASSUME NEW adj \in BOOLEAN PROVE InsertsProper(ReplaceSZ(b, cur, adj))
    <2> DEFINE new == [b[prev] EXCEPT !.adj = ~ adj]
    <2>1. ASSUME prev # NoPlace, IsGate(b[prev], "s", 0, 1) PROVE new \in ProperOps
        <3>1. b[prev] \in ProperOps /\ b[prev] \in Op
            BY <1>1, <2>1, FoundIsProper DEF ProperOps
        <3> DEFINE old == b[prev]
        <3> HIDE DEF prev, op
        <3>2. new \in Op /\ new.ctrls = old.ctrls /\ new.tgts = old.tgts /\ new.gate = "s"
            BY <2>1, <3>1 DEF Op, IsGate
        <3> HIDE DEF new, old
        <3>3. "s" # "swap" /\ "s" \notin Rotations
            BY DEF Rotations
        <3> QED BY <3>1, <3>2, <3>3, SameShape DEF old
    <2> QED BY <2>1, NothingInserted, ProperInserted DEF ReplaceSZ
<1>4. InsertsProper(ReductionPattern(b, cur))
    <2> DEFINE r == ReductionPattern(b, cur)
               call(k) == patternCancellation(b, cur, ReductionCalls[k][1], ReductionCalls[k][1],
                                              ReductionCalls[k][2], 1, ReductionCalls[k][2], 1)
    <2>1. r.insert = <<>>
        <3>1. \A k : call(k).insert = <<>> /\ DOMAIN call(k) = {"erase", "insert", "fault"}
            BY DEF patternCancellation, NoRewrite, Rewrite
        <3> QED BY <3>1 DEF ReductionPattern, NoRewrite, Rewrite
    <2> HIDE DEF r
    <2> QED BY <2>1 DEF InsertsProper, r
<1> QED BY <1>2, <1>3, <1>4

-----------------------------------------------------------------------------
(* Every sound pass *)

\* The passes that look at one gate only
LocalPasses == {"CancellationNullRotation", "NormalizeArgAngle", "CxToHCzH", "CzToHCxH", "ReverseCx"}

\* The passes that erase gates on one wire only: they keep what a lookup steps over.
OneWirePasses ==
    {"CommuteRxCx", "CommuteXCx", "CommuteZCx", "HXHToZ", "HZHToX", "SwitchHX", "SwitchHY",
     "SwitchHZ", "SwitchXH", "SwitchYH", "SwitchZH", "SwitchPauliH", "SAdjZToS", "SZToSAdj"}

\* The passes that erase a gate on two wires, found on one of them
TwoWirePasses ==
    {"CommuteCxRx", "CommuteCxX", "CommuteCxZ", "CancellationDoubleCx", "ReductionPattern"}

LEMMA LocalPassesKeepMeaning ==
    ASSUME NEW p \in LocalPasses, NEW b, NEW cur, AtHome(b, cur),
           p = "NormalizeArgAngle" => AngleIsKept(b[cur])
    PROVE  KeepsMeaning(b, cur, Callback(p, b, cur))
<1>1. CASE p = "CancellationNullRotation"
    BY <1>1, NullRotationKeepsMeaning DEF Callback
<1>2. CASE p = "NormalizeArgAngle"
    BY <1>2, NormalizedKeepsMeaning DEF Callback
<1>3. CASE p \in {"CxToHCzH", "CzToHCxH", "ReverseCx"}
    BY <1>3, DecompositionsKeepMeaning DEF Callback
<1> QED BY <1>1, <1>2, <1>3 DEF LocalPasses

LEMMA OneWirePassesKeepMeaning ==
    ASSUME OneRegister, NEW p \in OneWirePasses, NEW b, NEW cur, AtHome(b, cur),
           Unhindered(b, cur, Callback(p, b, cur).erase)
    PROVE  KeepsMeaning(b, cur, Callback(p, b, cur))
<1> DEFINE r == Callback(p, b, cur)
           Free(q) == Unhindered(b, cur, q.erase)
<1>1. Free(r) /\ {"x", "y", "z", "h"} \subseteq OneWireGates
    BY DEF OneWireGates
<1>2. ASSUME NEW T1 \in OneWireGates, NEW T2 \in OneWireGates,
             NEW T3 \in OneWireGates, NEW T4 \in OneWireGates, SameInARow(T1, T2, T3, T4),
             r = patternSwitch(b, cur, T1, T2, T3, T4)
      PROVE  KeepsMeaning(b, cur, r)
    <2>1. Free(patternSwitch(b, cur, T1, T2, T3, T4))
        BY <1>1, <1>2
    <2> QED BY <1>2, <2>1, SwitchKeepsMeaning
<1>3. CASE p \in {"SwitchHX", "SwitchHY", "SwitchHZ", "SwitchXH", "SwitchYH", "SwitchZH"}
    <2>1. \/ r = patternSwitch(b, cur, "h", "x", "z", "h")
          \/ r = patternSwitch(b, cur, "h", "y", "y", "h")
          \/ r = patternSwitch(b, cur, "h", "z", "x", "h")
          \/ r = patternSwitch(b, cur, "x", "h", "h", "z")
          \/ r = patternSwitch(b, cur, "y", "h", "h", "y")
          \/ r = patternSwitch(b, cur, "z", "h", "h", "x")
        BY <1>3 DEF Callback, SwitchHX, SwitchHY, SwitchHZ, SwitchXH, SwitchYH, SwitchZH
    <2> HIDE DEF r
    <2>2. KeepsMeaning(b, cur, r)
        BY <1>1, <1>2, <2>1, SwitchesAreSame
    <2> QED BY <2>2 DEF r
<1>4. CASE p \in {"HXHToZ", "HZHToX"}
    <2>1. \/ r = ReplaceHPauliH(b, cur, "x", "z")
          \/ r = ReplaceHPauliH(b, cur, "z", "x")
        BY <1>4 DEF Callback, ReplaceHXHToZ, ReplaceHZHToX
    <2>2. ThroughH["x"] = "z" /\ ThroughH["z"] = "x"
        BY DEF ThroughH
    <2> HIDE DEF r
    <2>3. KeepsMeaning(b, cur, r)
        BY <1>1, <2>1, <2>2, HPauliHKeepsMeaning
    <2> QED BY <2>3 DEF r
<1>5. CASE p \in {"SAdjZToS", "SZToSAdj"}
    <2>1. \E adj \in BOOLEAN : r = ReplaceSZ(b, cur, adj)
        BY <1>5 DEF Callback, ReplaceSAdjZToS, ReplaceSZToSAdj
    <2> HIDE DEF r
    <2>2. KeepsMeaning(b, cur, r)
        BY <1>1, <2>1, SZKeepsMeaning
    <2> QED BY <2>2 DEF r
<1>6. CASE p \in {"SwitchPauliH", "CommuteRxCx", "CommuteXCx", "CommuteZCx"}
    <2>1. r \in {SwitchPauliHOperation(b, cur), CommuteRxCx(b, cur), CommuteXCx(b, cur), commuteZCNot(b, cur)}
        BY <1>6 DEF Callback
    <2> HIDE DEF r
    <2>2. KeepsMeaning(b, cur, r)
        BY <1>1, <2>1, SwitchPauliHKeepsMeaning, RxCxKeepsMeaning, XCxKeepsMeaning, ZCxKeepsMeaning
    <2> QED BY <2>2 DEF r
<1> QED BY <1>3, <1>4, <1>5, <1>6 DEF OneWirePasses

LEMMA TwoWirePassesKeepMeaning ==
    ASSUME OneRegister, NEW p \in TwoWirePasses, NEW b, NEW cur, AtHome(b, cur),
           p = "ReductionPattern" => ~ IsGate(b[cur], "h", 1, 1),
           Parted(b, cur, Callback(p, b, cur).erase)
    PROVE  KeepsMeaning(b, cur, Callback(p, b, cur))
<1> DEFINE r == Callback(p, b, cur)
<1>1. Parted(b, cur, r.erase)
    OBVIOUS
<1>2. CASE p = "ReductionPattern"
    <2>1. r = ReductionPattern(b, cur)
        BY <1>2 DEF Callback
    <2> HIDE DEF r
    <2>2. KeepsMeaning(b, cur, r)
        BY <1>1, <1>2, <2>1, ReductionKeepsMeaning
    <2> QED BY <2>2 DEF r
<1>3. CASE p = "CancellationDoubleCx"
    <2>1. r = patternCancellation(b, cur, "x", "x", 1, 1, 1, 1)
        BY <1>3 DEF Callback, CancellationDoubleCx
    <2> HIDE DEF r
    <2>2. "x" \in {"x", "y", "z", "h"} /\ 1 \in {0, 1} /\ "x" # "h"
        OBVIOUS
    <2>3. KeepsMeaning(b, cur, r)
        BY <1>1, <2>1, <2>2, CancellationKeepsMeaning
    <2> QED BY <2>3 DEF r
<1>4. CASE p \in {"CommuteCxRx", "CommuteCxX"}
    <2>1. \E g \in {"x", "rx"} : r = commuteOperation(b, cur, "x", g, 1, 1, 0, 1)
        BY <1>4 DEF Callback, CommuteCxRx, CommuteCxX
    <2> HIDE DEF r
    <2>2. KeepsMeaning(b, cur, r)
        BY <1>1, <2>1, CxKeepsMeaning
    <2> QED BY <2>2 DEF r
<1>5. CASE p = "CommuteCxZ"
    <2>1. r = commuteCNotZ(b, cur)
        BY <1>5 DEF Callback
    <2> HIDE DEF r
    <2>2. KeepsMeaning(b, cur, r)
        BY <1>1, <2>1, CxZKeepsMeaning
    <2> QED BY <2>2 DEF r
<1> QED BY <1>2, <1>3, <1>4, <1>5 DEF TwoWirePasses

\* Every pass leaves a well-formed block, whatever stands in the way of its rewrite.
LEMMA BlockStaysProper ==
    ASSUME NEW p \in PassNames, NEW b, NEW cur, AtHome(b, cur),
           p = "NormalizeArgAngle" => AngleIsKept(b[cur])
    PROVE  Rewritten(b, cur, Callback(p, b, cur)) \in ProperBlock
<1> DEFINE r == Callback(p, b, cur)
<1>1. b \in Block /\ cur \in Places
    BY CurrentIsProper
<1>2. CASE p \in LocalPasses
    <2>1. KeepsMeaning(b, cur, r)
        BY <1>2, LocalPassesKeepMeaning
    <2> QED BY <2>1 DEF KeepsMeaning
<1>3. CASE p \notin LocalPasses
    <2>1. WellFormed(b, cur, r)
        BY <1>1, CallbackWellFormed
    <2>2. InsertsProper(r)
        <3>1. CASE p \in {"SwitchHX", "SwitchHY", "SwitchHZ", "SwitchXH", "SwitchYH", "SwitchZH"}
            <4>1. {"x", "y", "z", "h"} \subseteq OneWireGates
                BY DEF OneWireGates
            <4> QED BY <3>1, <4>1, TemplatesInsertProper
                    DEF Callback, SwitchHX, SwitchHY, SwitchHZ, SwitchXH, SwitchYH, SwitchZH
        <3>2. CASE p \in {"CommuteCxRx", "CommuteCxX", "CommuteRxCx", "CommuteXCx", "CancellationDoubleCx"}
            BY <3>2, TemplatesInsertProper
               DEF Callback, CommuteCxRx, CommuteCxX, CommuteRxCx, CommuteXCx, CancellationDoubleCx
        <3>3. CASE p \in {"CommuteCxZ", "CommuteZCx", "SwitchPauliH"}
            BY <3>3, TemplatesInsertProper DEF Callback
        <3>4. CASE p \in {"HXHToZ", "HZHToX", "SAdjZToS", "SZToSAdj", "ReductionPattern"}
            BY <3>4, ReplacementsInsertProper
               DEF Callback, ReplaceHXHToZ, ReplaceHZHToX, ReplaceSAdjZToS, ReplaceSZToSAdj
        <3> QED BY <1>3, <3>1, <3>2, <3>3, <3>4 DEF PassNames, LocalPasses
    <2> HIDE DEF r
    <2>3. ProperRewrite(b, cur, r)
        BY <2>1, <2>2 DEF ProperRewrite, WellFormed, InsertsProper
    <2> QED BY <2>3, RewrittenPlaces DEF r
<1> QED BY <1>2, <1>3

-----------------------------------------------------------------------------
(* The walk *)

\* What the run of a pass must be given to keep the meaning.  A pass that looks back sees
\* no operation that is no gate, and takes two wires of the same index for one.
Covered ==
    /\ input \in Seq(ProperOps)
    /\ \/ /\ pass \in LocalPasses
          /\ pass = "NormalizeArgAngle" => \A k \in 1 .. Len(input) : AngleIsKept(input[k])
       \/ /\ pass \in OneWirePasses
          /\ OneRegister
          /\ \A k \in 1 .. Len(input) : input[k].gate \in Gates

\* The block is well-formed, and does what the input did.
MeaningKept ==
    Covered => blk \in ProperBlock /\ Same(Meaning(Circuit(blk)), Meaning(input))

LEMMA LoadedPlaces ==
    ASSUME NEW c \in Seq(Op), NEW s \in Places, Load(c)[s] # NoOp
    PROVE  IsHome(s) /\ s \div Width \in 1 .. Len(c) /\ Load(c)[s] = c[s \div Width]
<1>1. s \in Int /\ s >= 6
    BY QuakeOpsAssumption DEF Places, Width
<1>2. IsHome(s) /\ s \div Width <= Len(c) /\ Load(c)[s] = c[s \div Width]
    BY DEF Load
<1>3. s \div Width \in Int /\ s \div Width >= 1
    BY <1>1 DEF Width
<1> QED BY <1>2, <1>3

\* The walk calls a callback at home places, on operations of the input.
LEMMA NextAtHome ==
    ASSUME NEW c \in Seq(Op), Len(c) <= MaxOps, NEW b \in ProperBlock, NEW n, n # NoPlace,
           MeetsInput(c, b, n)
    PROVE  /\ AtHome(b, n)
           /\ n \div Width \in 1 .. Len(c) /\ b[n] = c[n \div Width]
<1>1. /\ n \in Places /\ b[n] # NoOp /\ b[n] = Load(c)[n]
      /\ \A s \in Places : s >= n => b[s] = Load(c)[s]
    <2>1. /\ n \in Places /\ b[n] # NoOp /\ \A s \in Places : s >= n => b[s] = Load(c)[s]
        BY DEF MeetsInput
    <2>2. n >= n
        BY <2>1, PlacesAreNaturals
    <2> QED BY <2>1, <2>2
<1>2. IsHome(n) /\ n \div Width \in 1 .. Len(c) /\ b[n] = c[n \div Width]
    BY <1>1, LoadedPlaces
<1>3. ASSUME NEW k \in 1 .. 5 PROVE n + k \in Places /\ b[n + k] = NoOp
    <2>1. n \in Nat /\ n % 6 = 0
        BY <1>1, <1>2, PlacesAreNaturals DEF IsHome, Width
    <2>2. n + k \in Places
        BY <1>1, <2>1, QuakeOpsAssumption DEF Places, Width
    <2>3. n + k >= n /\ n + k > n /\ n + k <= n + 5
        BY <2>1
    <2>4. ~ IsHome(n + k)
        BY <1>1, <1>2, <2>2, <2>3, InsertedIsNoHome
    <2> QED BY <1>1, <2>2, <2>3, <2>4, LoadIsBlock
<1> QED BY <1>1, <1>2, <1>3 DEF AtHome

\* Of a circuit of gates the walk makes blocks of gates.
LEMMA StillGatesOnly ==
    ASSUME NEW c \in Seq(Op), NEW b, NEW n, MeetsInput(c, b, n),
           \A k \in 1 .. Len(c) : c[k].gate \in Gates
    PROVE  GatesOnly(b)
<1> SUFFICES ASSUME NEW s \in Places, b[s] # NoOp PROVE b[s].gate \in Gates
    BY DEF GatesOnly
<1>1. /\ b[s] \in Op
      /\ {b[s].gate, Load(c)[s].gate} \cap NonGates # {} => b[s] = Load(c)[s]
    BY DEF MeetsInput, Block
<1>2. b[s].gate \in Gates \cup NonGates
    BY <1>1 DEF Op
<1>3. CASE b[s].gate \in NonGates
    <2>1. b[s] = Load(c)[s]
        BY <1>1, <1>3
    <2> QED BY <2>1, LoadedPlaces
<1> QED BY <1>2, <1>3

\* What ends a process changes nothing.
LEMMA NullChangesNothing ==
    ASSUME NEW p \in LocalPasses \cup OneWirePasses, NEW b, NEW cur
    PROVE  \/ Callback(p, b, cur).fault = "none"
           \/ Callback(p, b, cur) = NullDereference
<1>1. /\ \A E, i : Rewrite(E, i).fault = "none"
      /\ NoRewrite.fault = "none"
    BY DEF Rewrite, NoRewrite
<1>2. ASSUME NEW T1, NEW T2, NEW T3, NEW T4
      PROVE  patternSwitch(b, cur, T1, T2, T3, T4).fault = "none"
             \/ patternSwitch(b, cur, T1, T2, T3, T4) = NullDereference
    BY <1>1 DEF patternSwitch
<1>3. ASSUME NEW g, NEW k
      PROVE  ReplaceHPauliH(b, cur, g, k).fault = "none" \/ ReplaceHPauliH(b, cur, g, k) = NullDereference
    BY <1>1 DEF ReplaceHPauliH
<1>4. ASSUME NEW adj PROVE ReplaceSZ(b, cur, adj).fault = "none"
    BY <1>1 DEF ReplaceSZ
<1>5. /\ CommuteXCx(b, cur).fault = "none" /\ commuteZCNot(b, cur).fault = "none"
      /\ CommuteRxCx(b, cur).fault = "none"
      /\ SwitchPauliHOperation(b, cur).fault = "none"
    BY <1>1 DEF CommuteXCx, CommuteRxCx, commuteOperation, commuteZCNot, SwitchPauliHOperation
<1>6. /\ nullRotationCancellation(b, cur).fault = "none"
      /\ normalizeAngleOfRotations(b, cur).fault = "none"
      /\ CxToHCzHPattern(b, cur).fault = "none" /\ ReplaceCzToHCxH(b, cur).fault = "none"
      /\ ReverseCNot(b, cur).fault = "none"
    BY <1>1 DEF nullRotationCancellation, normalizeAngleOfRotations, CxToHCzHPattern,
                ReplaceCzToHCxH, ReverseCNot
<1>7. CASE p \in LocalPasses
    BY <1>6, <1>7 DEF LocalPasses, Callback
<1>8. CASE p \in {"SwitchHX", "SwitchHY", "SwitchHZ", "SwitchXH", "SwitchYH", "SwitchZH"}
    BY <1>2, <1>8 DEF Callback, SwitchHX, SwitchHY, SwitchHZ, SwitchXH, SwitchYH, SwitchZH
<1>9. CASE p \in {"HXHToZ", "HZHToX", "SAdjZToS", "SZToSAdj"}
    BY <1>3, <1>4, <1>9 DEF Callback, ReplaceHXHToZ, ReplaceHZHToX, ReplaceSAdjZToS, ReplaceSZToSAdj
<1>10. CASE p \in {"CommuteRxCx", "CommuteXCx", "CommuteZCx", "SwitchPauliH"}
    BY <1>5, <1>10 DEF Callback
<1> QED BY <1>7, <1>8, <1>9, <1>10 DEF OneWirePasses

LEMMA InitMeaningKept == Init => MeaningKept
<1> SUFFICES ASSUME Init, Covered PROVE blk \in ProperBlock /\ Same(Meaning(Circuit(blk)), Meaning(input))
    BY DEF MeaningKept
<1>1. input \in Seq(ProperOps) /\ Len(input) <= MaxOps /\ blk = Load(input)
    BY KernelPassAssumption DEF Init, Covered
<1>2. Load(input) \in ProperBlock /\ input \in Seq(Op)
    BY <1>1, LoadIsProper
<1>3. Circuit(Load(input)) = input
    BY <1>1, <1>2, LoadedCircuit
<1> QED BY <1>1, <1>2, <1>3, SameIsEquivalence

\* A visit keeps the meaning of the block; if it ends the process it keeps the block.
LEMMA VisitKeepsMeaning ==
    ASSUME IInv, MeaningKept, Covered, Visit
    PROVE  /\ blk' \in ProperBlock
           /\ Same(Meaning(Circuit(blk')), Meaning(Circuit(blk)))
           /\ status' = "running" \/ (status' = "crashed" /\ blk' = blk)
<1> DEFINE r == Callback(pass, blk, next)
<1>1. /\ next # NoPlace /\ status = "running"
      /\ blk' = Rewritten(blk, next, r) /\ status' \in Outcomes(r.fault)
    BY DEF Visit
<1>2. /\ blk \in ProperBlock /\ input \in Seq(ProperOps) /\ input \in Seq(Op) /\ Len(input) <= MaxOps
      /\ MeetsInput(input, blk, next)
    BY PartsOfInvariant, KernelPassAssumption DEF MeaningKept, Covered, IInv, TypeOK
<1>3. /\ AtHome(blk, next)
      /\ next \div Width \in 1 .. Len(input) /\ blk[next] = input[next \div Width]
    BY <1>1, <1>2, NextAtHome
<1>4. KeepsMeaning(blk, next, r)
    <2>1. CASE /\ pass \in LocalPasses
               /\ pass = "NormalizeArgAngle" => \A k \in 1 .. Len(input) : AngleIsKept(input[k])
        <3>1. pass = "NormalizeArgAngle" => AngleIsKept(blk[next])
            BY <1>3, <2>1
        <3> QED BY <1>3, <2>1, <3>1, LocalPassesKeepMeaning
    <2>2. CASE /\ pass \in OneWirePasses
               /\ OneRegister
               /\ \A k \in 1 .. Len(input) : input[k].gate \in Gates
        <3>1. GatesOnly(blk)
            BY <1>2, <2>2, StillGatesOnly
        <3>2. Unhindered(blk, next, r.erase)
            BY <3>1 DEF Unhindered
        <3> QED BY <1>3, <2>2, <3>2, OneWirePassesKeepMeaning
    <2> QED BY <2>1, <2>2 DEF Covered
<1>5. r.fault = "none" \/ r = NullDereference
    BY NullChangesNothing DEF Covered
<1>6. ASSUME r = NullDereference PROVE Rewritten(blk, next, r) = blk
    <2>1. r.erase = {} /\ Len(r.insert) = 0
        BY <1>6 DEF NullDereference
    <2>2. next \in Nat /\ \A s \in Places : s \in Nat
        BY <1>3, PlacesAreNaturals DEF AtHome
    <2>3. \A s \in Places : ~ (s > next /\ s <= next + 0)
        BY <2>2
    <2> HIDE DEF r
    <2> QED BY <1>2, <2>1, <2>3 DEF Rewritten, ProperBlock
<1> HIDE DEF r
<1>7. status' = "running" \/ (status' = "crashed" /\ blk' = blk)
    BY <1>1, <1>5, <1>6 DEF Outcomes, NullDereference
<1> QED BY <1>1, <1>4, <1>7 DEF KeepsMeaning

LEMMA StepMeaningKept == IInv /\ MeaningKept /\ [Next]_vars => MeaningKept'
<1> SUFFICES ASSUME IInv, MeaningKept, [Next]_vars PROVE MeaningKept'
    OBVIOUS
<1>1. CASE Visit
    <2>1. input' = input /\ pass' = pass
        BY <1>1 DEF Visit
    <2>2. Covered' = Covered
        BY <2>1 DEF Covered
    <2> SUFFICES ASSUME Covered
                 PROVE  blk' \in ProperBlock /\ Same(Meaning(Circuit(blk')), Meaning(input))
        BY <2>1, <2>2 DEF MeaningKept
    <2>3. Same(Meaning(Circuit(blk)), Meaning(input))
        BY DEF MeaningKept
    <2> QED BY <1>1, <2>3, VisitKeepsMeaning, SameIsEquivalence
<1>2. CASE VisitFuncOp
    BY <1>2 DEF VisitFuncOp, MeaningKept, Covered
<1>3. CASE UNCHANGED vars
    BY <1>3 DEF vars, MeaningKept, Covered
<1> QED BY <1>1, <1>2, <1>3 DEF Next

LEMMA CoveredKeepsMeaning == Spec => [](IInv /\ MeaningKept)
BY InitInvariant, StepInvariant, InitMeaningKept, StepMeaningKept, PTL DEF Spec

-----------------------------------------------------------------------------
(* Rewrites of what stands side by side *)

\* What the run of a pass must be given for its rewrites to be judged: wires that the
\* lookups tell apart, and none of the gates the reference takes for something else.
Understood ==
    /\ OneRegister
    /\ input \in Seq(ProperOps)
    /\ pass = "NormalizeArgAngle" => \A k \in 1 .. Len(input) : AngleIsKept(input[k])
    /\ pass = "ReductionPattern" => \A k \in 1 .. Len(input) : ~ IsGate(input[k], "h", 1, 1)

ProperlyUnderstood == Understood /\ blk \in ProperBlock

\* What the walk finds at the saved iterator
LEMMA UnderstoodVisit ==
    ASSUME IInv, ProperlyUnderstood, Visit
    PROVE  /\ AtHome(blk, next) /\ pass \in PassNames
           /\ pass = "NormalizeArgAngle" => AngleIsKept(blk[next])
           /\ pass = "ReductionPattern" => ~ IsGate(blk[next], "h", 1, 1)
<1>1. /\ blk \in ProperBlock /\ input \in Seq(Op) /\ Len(input) <= MaxOps /\ pass \in PassNames
      /\ MeetsInput(input, blk, next) /\ next # NoPlace
    BY PartsOfInvariant, KernelPassAssumption DEF ProperlyUnderstood, IInv, TypeOK, Visit
<1>2. /\ AtHome(blk, next)
      /\ next \div Width \in 1 .. Len(input) /\ blk[next] = input[next \div Width]
    BY <1>1, NextAtHome
<1> QED BY <1>1, <1>2 DEF ProperlyUnderstood, Understood

LEMMA InitUnderstood == Init /\ Understood => ProperlyUnderstood
<1> SUFFICES ASSUME Init, Understood PROVE blk \in ProperBlock
    BY DEF ProperlyUnderstood
<1>1. input \in Seq(ProperOps) /\ Len(input) <= MaxOps /\ blk = Load(input)
    BY KernelPassAssumption DEF Init, Understood
<1> QED BY <1>1, LoadIsProper

LEMMA StepUnderstood == IInv /\ ProperlyUnderstood /\ [Next]_vars => ProperlyUnderstood'
<1> SUFFICES ASSUME IInv, ProperlyUnderstood, [Next]_vars PROVE ProperlyUnderstood'
    OBVIOUS
<1>1. CASE Visit
    <2>1. blk' = Rewritten(blk, next, Callback(pass, blk, next)) /\ input' = input /\ pass' = pass
        BY <1>1 DEF Visit
    <2>2. blk' \in ProperBlock
        BY <1>1, <2>1, UnderstoodVisit, BlockStaysProper
    <2> QED BY <2>1, <2>2 DEF ProperlyUnderstood, Understood
<1>2. CASE VisitFuncOp
    BY <1>2 DEF VisitFuncOp, ProperlyUnderstood, Understood
<1>3. CASE UNCHANGED vars
    BY <1>3 DEF vars, ProperlyUnderstood, Understood
<1> QED BY <1>1, <1>2, <1>3 DEF Next

\* If nothing stands between what a visit changes, nothing does between what it erases.
LEMMA AdjacentIsParted ==
    ASSUME AtHome(blk, next), NEW r, WellFormed(blk, next, r), blk' = Rewritten(blk, next, r), Adjacent
    PROVE  Parted(blk, next, r.erase)
<1>1. /\ next \in Nat /\ next \in Places /\ \A s \in Places : s \in Nat
      /\ \A k \in 1 .. 5 : blk[next + k] = NoOp
    BY PlacesAreNaturals DEF AtHome
<1>2. \A s \in r.erase : s \in Places /\ s <= next /\ blk[s] # NoOp
    <2>1. NoOp.gate \notin Gates
        BY DEF NoOp, Gates
    <2> QED BY <2>1 DEF WellFormed
<1>3. Len(r.insert) \in 0 .. 5
    BY DEF WellFormed
<1>4. ASSUME NEW s \in r.erase PROVE s \in Changed
    <2>1. s \in Places /\ ~ s > next /\ blk[s] # NoOp
        <3>1. s \in Places /\ s <= next /\ blk[s] # NoOp
            BY <1>2
        <3> QED BY <1>1, <3>1
    <2>2. Rewritten(blk, next, r)[s] = NoOp
        BY <2>1 DEF Rewritten
    <2>3. blk'[s] = NoOp
        BY <2>2
    <2> QED BY <2>1, <2>3 DEF Changed
<1>5. ASSUME NEW t \in Occupied(blk), t < next, t \notin r.erase PROVE t \notin Changed
    <2>1. t \in Places /\ ~ t > next
        BY <1>1, <1>5 DEF Occupied
    <2>2. Rewritten(blk, next, r)[t] = blk[t]
        BY <1>5, <2>1 DEF Rewritten
    <2>3. blk'[t] = blk[t]
        BY <2>2
    <2> QED BY <2>3 DEF Changed
<1> SUFFICES ASSUME NEW s \in r.erase, NEW t \in Occupied(blk) \ r.erase, s < t, t < next
             PROVE  WiresOf(blk[s]) \cap WiresOf(blk[t]) = {}
    BY DEF Parted
<1>6. s \in Changed /\ t \in Occupied(blk) \ Changed
    BY <1>4, <1>5
<1> QED BY <1>6 DEF Adjacent

LEMMA AdjacentVisit ==
    ASSUME IInv, ProperlyUnderstood, Visit, Adjacent
    PROVE  SameMeaning(Meaning(Circuit(blk')), Meaning(Circuit(blk)))
<1> DEFINE r == Callback(pass, blk, next)
<1>1. /\ AtHome(blk, next) /\ pass \in PassNames
      /\ pass = "NormalizeArgAngle" => AngleIsKept(blk[next])
      /\ pass = "ReductionPattern" => ~ IsGate(blk[next], "h", 1, 1)
    BY UnderstoodVisit
<1>2. blk' = Rewritten(blk, next, r) /\ OneRegister
    BY DEF Visit, ProperlyUnderstood, Understood
<1>3. blk \in Block /\ next \in Places
    BY <1>1, CurrentIsProper
<1>4. WellFormed(blk, next, r)
    BY <1>1, <1>3, CallbackWellFormed
<1>5. Parted(blk, next, r.erase)
    <2> HIDE DEF r
    <2> QED BY <1>1, <1>2, <1>4, AdjacentIsParted
<1>6. KeepsMeaning(blk, next, r)
    <2>1. CASE pass \in LocalPasses
        BY <1>1, <2>1, LocalPassesKeepMeaning
    <2>2. CASE pass \in OneWirePasses
        <3>1. Unhindered(blk, next, r.erase)
            BY <1>5 DEF Unhindered
        <3> QED BY <1>1, <1>2, <2>2, <3>1, OneWirePassesKeepMeaning
    <2>3. CASE pass \in TwoWirePasses
        BY <1>1, <1>2, <1>5, <2>3, TwoWirePassesKeepMeaning
    <2> QED BY <1>1, <2>1, <2>2, <2>3 DEF PassNames, LocalPasses, OneWirePasses, TwoWirePasses
<1> HIDE DEF r
<1> QED BY <1>2, <1>6, SameIsEquivalence DEF KeepsMeaning

-----------------------------------------------------------------------------
(* The theorems *)

\* Every variable keeps its type, whatever the pass and the kernel.
THEOREM TypeCorrect == Spec => []TypeOK
<1>1. IInv => TypeOK
    BY DEF IInv
<1> QED BY <1>1, Invariance, PTL

\* The walk never goes on from an operation that a callback erased.
THEOREM IteratorStaysValid == Spec => []IteratorValid
<1>1. IInv => IteratorValid
    BY DEF IInv
<1> QED BY <1>1, Invariance, PTL

\* The walk meets the operations of the input and no others: no pass rewrites what it
\* has inserted itself.
THEOREM WalkMeetsTheInput == Spec => []RestUntouched
<1>1. IInv => RestUntouched
    BY DEF IInv
<1> QED BY <1>1, Invariance, PTL

\* No pass erases, moves or creates a measurement, a reset, or any other operation
\* that is no gate.
THEOREM MeasurementsStay == Spec => []NonGatesUntouched
<1>1. IInv => NonGatesUntouched
    BY DEF IInv
<1> QED BY <1>1, Invariance, PTL

\* Ten of the passes have done all there is to do after one run, for circuits of every length:
\* what they erase on a wire hides nothing from what they have passed, and what they insert
\* is not what they look for.
THEOREM OneRunIsEnough == Spec => []OneRunSuffices
<1>1. NothingLeftBehind => OneRunSuffices
    BY DEF NothingLeftBehind, OneRunSuffices, Behind
<1> QED BY <1>1, Invariance, InitNothingLeft, StepLeavesNothing, PTL DEF Spec

\* Nineteen of the passes never change what a kernel does, whatever its length and its
\* wires: five of them on every kernel, fourteen on the kernels of one register that are
\* all gates.
THEOREM PassesKeepMeaning == Spec => [](Covered => MeaningPreserved)
<1>1. MeaningKept => (Covered => MeaningPreserved)
    BY SameIsEquivalence DEF MeaningKept, MeaningPreserved
<1> QED BY <1>1, CoveredKeepsMeaning, PTL

\* Such a run is a sequence of equivalent rewrites of the circuit it was given, and it
\* stops with the circuit it has, be it in a crash (EquivalentRewriting, without fairness).
THEOREM PassesRewriteEquivalently ==
    Spec => /\ Covered => Rewriting!Init
            /\ [][Covered => Rewriting!Rewrite \/ Rewriting!Finish]_<<Circuit(blk), status # "running">>
<1>1. Init /\ Covered => Rewriting!Init
    <2> SUFFICES ASSUME Init, Covered PROVE Rewriting!Init
        OBVIOUS
    <2>1. input \in Seq(Op) /\ Len(input) <= MaxOps /\ input \in Inputs /\ blk = Load(input)
          /\ status = "running"
        BY KernelPassAssumption DEF Init
    <2>2. Circuit(blk) = input
        BY <2>1, LoadedCircuit
    <2> QED BY <2>1, <2>2 DEF Rewriting!Init
<1>2. IInv /\ MeaningKept /\ [Next]_vars
        => [Covered => Rewriting!Rewrite \/ Rewriting!Finish]_<<Circuit(blk), status # "running">>
    <2> SUFFICES ASSUME IInv, MeaningKept, [Next]_vars, Covered
                 PROVE  \/ Rewriting!Rewrite \/ Rewriting!Finish
                        \/ UNCHANGED <<Circuit(blk), status # "running">>
        OBVIOUS
    <2>1. CASE Visit
        <3>1. /\ Same(Meaning(Circuit(blk')), Meaning(Circuit(blk))) /\ status = "running"
              /\ status' = "running" \/ (status' = "crashed" /\ blk' = blk)
            BY <2>1, VisitKeepsMeaning DEF Visit
        <3>2. SameCircuit(Circuit(blk), Circuit(blk'))
            BY <3>1, SameIsEquivalence DEF SameCircuit
        <3>3. CASE status' = "running"
            BY <3>1, <3>2, <3>3 DEF Rewriting!Rewrite
        <3>4. CASE status' = "crashed" /\ blk' = blk
            BY <3>1, <3>4 DEF Rewriting!Finish
        <3> QED BY <3>1, <3>3, <3>4
    <2>2. CASE VisitFuncOp
        BY <2>2 DEF VisitFuncOp, Rewriting!Finish
    <2>3. CASE UNCHANGED vars
        BY <2>3 DEF vars
    <2> QED BY <2>1, <2>2, <2>3 DEF Next
<1> QED BY <1>1, <1>2, CoveredKeepsMeaning, PTL DEF Spec

\* All the passes do what they promise to gates that stand side by side: a rewrite with
\* nothing between the gates it changes, on any of their wires, keeps the meaning of the
\* block, for kernels of every length, with measurements, resets, gates of more wires and
\* rotations about.  It takes the wires of one register, and of ReductionPattern kernels
\* without controlled h and of NormalizeArgAngle the angles the reference can read.
THEOREM AdjacentRewritesKeepMeaning == Spec /\ Understood => AdjacentRewritesSound
<1>1. IInv /\ ProperlyUnderstood /\ [Next]_vars
        => [next # NoPlace /\ Adjacent
              => SameMeaning(Meaning(Circuit(blk')), Meaning(Circuit(blk)))]_vars
    <2> SUFFICES ASSUME IInv, ProperlyUnderstood, [Next]_vars, next # NoPlace, Adjacent, ~ UNCHANGED vars
                 PROVE  SameMeaning(Meaning(Circuit(blk')), Meaning(Circuit(blk)))
        OBVIOUS
    <2>1. Visit
        BY DEF Next, VisitFuncOp
    <2> QED BY <2>1, AdjacentVisit
<1> QED BY <1>1, InitInvariant, StepInvariant, InitUnderstood, StepUnderstood, PTL
        DEF Spec, AdjacentRewritesSound
=============================================================================
