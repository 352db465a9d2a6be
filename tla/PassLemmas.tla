----------------------------- MODULE PassLemmas -----------------------------
(***************************************************************************)
(* What the proofs share.                                                  *)
(*                                                                         *)
(* First, facts about data: least elements of sets of naturals, counting   *)
(* the elements below a number, functions that are defined step by step,   *)
(* sums over finite sets, and sequences, those of sequences among them.    *)
(*                                                                         *)
(* Then, what one call of a callback does to a block, for every pass,      *)
(* every set of wires and circuits of every length.  A rewrite is well     *)
(* formed when it erases gates that are not ahead of the walk and inserts  *)
(* at most five gates.  Each callback returns a well-formed rewrite (one   *)
(* lemma per callback); carrying out a well-formed rewrite keeps the walk  *)
(* on the input (one lemma).                                               *)
(***************************************************************************)
EXTENDS RewritePatterns, FiniteSetsExt, SequencesExt, TLAPS,
        WellFoundedInduction, FiniteSetTheorems, SequenceTheorems

\* A non-empty set of naturals has a least element.
LEMMA FirstExists ==
    ASSUME NEW S \in SUBSET Nat, S # {}
    PROVE  \E s \in S : \A t \in S : s <= t
<1>1. \E s \in S : \A t \in S : ~ (<<t, s>> \in OpToRel(<, Nat))
    BY NatLessThanWellFounded, WFMin, Zenon
<1>2. PICK s \in S : \A t \in S : ~ (<<t, s>> \in OpToRel(<, Nat))
    BY <1>1
<1>3. ASSUME NEW t \in S PROVE s <= t
    <2>1. t \in Nat /\ s \in Nat
        OBVIOUS
    <2>2. ~ (t < s)
        BY <1>2, <2>1 DEF OpToRel
    <2> QED BY <2>1, <2>2
<1> QED BY <1>3

-----------------------------------------------------------------------------

\* The elements of a set below a number, and how many they are
Below(S, n) == {j \in S : j < n}
CountBelow(S, n) == Cardinality(Below(S, n))

LEMMA CountBelowIsNatural ==
    ASSUME NEW S, \A j \in S : j \in Nat /\ j > 0, NEW n \in Nat
    PROVE  IsFiniteSet(Below(S, n)) /\ CountBelow(S, n) \in Nat
<1>1. IsFiniteSet(1 .. n - 1)
    BY FS_Interval
<1>2. Below(S, n) \subseteq 1 .. n - 1
    BY DEF Below
<1>3. IsFiniteSet(Below(S, n))
    BY <1>1, <1>2, FS_Subset
<1> QED BY <1>3, FS_CardinalityType DEF CountBelow

\* Passing an element counts one more, passing another number does not.
LEMMA CountBelowNext ==
    ASSUME NEW S, \A j \in S : j \in Nat /\ j > 0, NEW n \in Nat
    PROVE  CountBelow(S, n + 1) = IF n \in S THEN CountBelow(S, n) + 1 ELSE CountBelow(S, n)
<1>1. IsFiniteSet(Below(S, n)) /\ n \notin Below(S, n)
    BY CountBelowIsNatural DEF Below
<1>2. CASE n \in S
    <2>1. Below(S, n + 1) = Below(S, n) \cup {n}
        <3>1. \A j \in S : j < n + 1 <=> (j < n \/ j = n)
            OBVIOUS
        <3>2. n < n + 1
            OBVIOUS
        <3> QED BY <1>2, <3>1, <3>2 DEF Below
    <2>2. Cardinality(Below(S, n) \cup {n}) = Cardinality(Below(S, n)) + 1
        BY <1>1, FS_AddElement
    <2> QED BY <1>2, <2>1, <2>2 DEF CountBelow
<1>3. CASE n \notin S
    <2>1. Below(S, n + 1) = Below(S, n)
        BY <1>3 DEF Below
    <2> QED BY <1>3, <2>1 DEF CountBelow
<1> QED BY <1>2, <1>3

\* Elements further on have more elements below them.
LEMMA CountBelowIncreases ==
    ASSUME NEW S, \A j \in S : j \in Nat /\ j > 0, NEW i \in S, NEW n \in Nat, i < n
    PROVE  CountBelow(S, i) < CountBelow(S, n)
<1>1. /\ IsFiniteSet(Below(S, n)) /\ CountBelow(S, n) \in Nat
      /\ i \in Nat /\ CountBelow(S, i) \in Nat
    BY CountBelowIsNatural
<1>2. Below(S, i + 1) \subseteq Below(S, n)
    <2>1. \A j \in S : j < i + 1 => j < n
        BY <1>1
    <2> QED BY <2>1 DEF Below
<1>3. CountBelow(S, i + 1) = CountBelow(S, i) + 1
    BY <1>1, CountBelowNext
<1>4. CountBelow(S, i + 1) <= CountBelow(S, n)
    BY <1>1, <1>2, FS_Subset DEF CountBelow
<1> QED BY <1>1, <1>3, <1>4

-----------------------------------------------------------------------------
(* Sequences *)

LEMMA InFront ==
    ASSUME NEW T, NEW s \in Seq(T), NEW x \in T
    PROVE  LET r == <<x>> \o s
           IN  /\ r \in Seq(T)
               /\ 1 \in DOMAIN r /\ r[1] = x /\ Len(r) = Len(s) + 1
               /\ \A i \in DOMAIN s : i + 1 \in DOMAIN r /\ r[i + 1] = s[i]
               /\ \A i \in DOMAIN r : i # 1 => i - 1 \in DOMAIN s /\ r[i] = s[i - 1]
OBVIOUS

LEMMA AtTheEnd ==
    ASSUME NEW T, NEW s \in Seq(T), NEW x \in T
    PROVE  LET r == Append(s, x)
           IN  /\ r \in Seq(T)
               /\ Len(r) = Len(s) + 1 /\ DOMAIN r = DOMAIN s \cup {Len(s) + 1}
               /\ \A i \in DOMAIN s : r[i] = s[i] /\ i <= Len(s)
               /\ r[Len(s) + 1] = x
OBVIOUS

LEMMA TwoInARow ==
    ASSUME NEW T, NEW a \in T, NEW b \in T
    PROVE  <<a>> \o <<b>> = <<a, b>>
<1> DEFINE s == <<a>>
           t == <<b>>
           r == s \o t
<1>1. s \in Seq(T) /\ Len(s) = 1 /\ s[1] = a /\ t \in Seq(T) /\ Len(t) = 1 /\ t[1] = b
    OBVIOUS
<1> HIDE DEF s, t
<1>2. r \in Seq(T) /\ Len(r) = 2 /\ r[1] = a /\ r[2] = b
    <2>1. r \in Seq(T) /\ Len(r) = Len(s) + Len(t)
        BY <1>1, ConcatProperties
    <2>2. \A i \in 1 .. Len(s) + Len(t) : r[i] = IF i <= Len(s) THEN s[i] ELSE t[i - Len(s)]
        BY <1>1, ConcatProperties
    <2> HIDE DEF r
    <2> QED BY <1>1, <2>1, <2>2
<1> HIDE DEF r
<1>3. r = <<r[1], r[2]>>
    BY <1>2
<1> QED BY <1>2, <1>3 DEF r, s, t

-----------------------------------------------------------------------------
(* Step by step *)

\* What holds of 0 and, if of the number before, of each number up to n
LEMMA StepByStep ==
    ASSUME NEW n \in Nat, NEW S, 0 \in S, \A k \in 1 .. n : k - 1 \in S => k \in S
    PROVE  \A k \in 0 .. n : k \in S
<1> DEFINE Bad == {k \in 0 .. n : k \notin S}
<1> SUFFICES ASSUME Bad # {} PROVE FALSE
    OBVIOUS
<1>1. Bad \in SUBSET Nat
    OBVIOUS
<1>2. PICK k \in Bad : \A j \in Bad : k <= j
    BY <1>1, FirstExists
<1>3. k \in 1 .. n /\ k - 1 \in 0 .. n
    BY <1>2
<1>4. k - 1 \in S
    BY <1>2, <1>3
<1> QED BY <1>2, <1>3, <1>4

\* A function that has a value at 0 and goes on to n by a step from each value to the next
Iterates(g, n, base, step) == g[0] = base /\ \A k \in 1 .. n : g[k] = step[k][g[k - 1]]

\* There is one.
LEMMA IterationExists ==
    ASSUME NEW T, NEW n \in Nat, NEW base \in T, NEW step \in [1 .. n -> [T -> T]]
    PROVE  \E g \in [0 .. n -> T] : Iterates(g, n, base, step)
<1> DEFINE Good(g, m) == g[0] = base /\ \A k \in 1 .. m : g[k] = step[k][g[k - 1]]
           S == {m \in 0 .. n : \E g \in [0 .. m -> T] : Good(g, m)}
<1>1. 0 \in S
    <2> DEFINE g == [k \in 0 .. 0 |-> base]
    <2>1. g \in [0 .. 0 -> T] /\ Good(g, 0)
        OBVIOUS
    <2> HIDE DEF g, Good
    <2> QED BY <2>1
<1>2. ASSUME NEW m \in 1 .. n, m - 1 \in S PROVE m \in S
    <2>1. PICK g \in [0 .. m - 1 -> T] : Good(g, m - 1)
        BY <1>2
    <2> DEFINE h == [k \in 0 .. m |-> IF k = m THEN step[m][g[m - 1]] ELSE g[k]]
    <2>2. g[m - 1] \in T
        BY <2>1
    <2>3. step[m][g[m - 1]] \in T
        BY <2>2
    <2>4. h \in [0 .. m -> T]
        BY <2>1, <2>3
    <2>5. h[0] = base
        BY <2>1
    <2>6. ASSUME NEW k \in 1 .. m PROVE h[k] = step[k][h[k - 1]]
        <3>1. h[k - 1] = g[k - 1]
            OBVIOUS
        <3>2. CASE k = m
            BY <3>1, <3>2
        <3>3. CASE k # m
            <4>1. k \in 1 .. m - 1 /\ h[k] = g[k]
                BY <3>3
            <4> QED BY <2>1, <3>1, <4>1
        <3> QED BY <3>2, <3>3
    <2>7. Good(h, m)
        BY <2>5, <2>6
    <2> HIDE DEF h, Good
    <2> QED BY <2>4, <2>7
<1> HIDE DEF S
<1>3. n \in S
    <2>1. \A k \in 0 .. n : k \in S
        BY <1>1, <1>2, StepByStep
    <2> QED BY <2>1
<1> QED BY <1>3 DEF S, Iterates

\* Two functions that begin alike and go on alike ...
GoAlike(g, h, n) == g[0] = h[0] /\ \A k \in 1 .. n : g[k - 1] = h[k - 1] => g[k] = h[k]
Alike(g, h, n) == \A k \in 0 .. n : g[k] = h[k]

\* ... are alike.
LEMMA SameIteration ==
    ASSUME NEW n \in Nat, NEW g, NEW h, GoAlike(g, h, n)
    PROVE  Alike(g, h, n)
<1> DEFINE S == {k \in 0 .. n : g[k] = h[k]}
<1>1. 0 \in S
    BY DEF GoAlike
<1>2. \A k \in 1 .. n : k - 1 \in S => k \in S
    BY DEF GoAlike
<1> HIDE DEF S
<1>3. \A k \in 0 .. n : k \in S
    BY <1>1, <1>2, StepByStep
<1> QED BY <1>3 DEF S, Alike

-----------------------------------------------------------------------------
(* A sequence of sequences, one behind the other *)

LEMMA ConcatIsSeq ==
    ASSUME NEW T, NEW s \in Seq(T), NEW t \in Seq(T)
    PROVE  s \o t \in Seq(T)
OBVIOUS

\* What is put together from the first to the last of n sequences
Joins(g, n, ss) == g[0] = <<>> /\ \A k \in 1 .. n : g[k] = g[k - 1] \o ss[k]

\* FlattenSeq puts them together so.
LEMMA FlattenStepByStep ==
    ASSUME NEW T, NEW ss \in Seq(Seq(T))
    PROVE  \E g \in [0 .. Len(ss) -> Seq(T)] :
             Joins(g, Len(ss), ss) /\ FlattenSeq(ss) = g[Len(ss)]
<1> DEFINE n == Len(ss)
           step == [k \in 1 .. n |-> [s \in Seq(T) |-> s \o ss[k]]]
           E(f) == [i \in 1 .. n |-> IF i = 1 THEN ss[i] ELSE f[i - 1] \o ss[i]]
           F == CHOOSE f : f = E(f)
<1>1. n \in Nat /\ <<>> \in Seq(T) /\ \A k \in 1 .. n : ss[k] \in Seq(T)
    OBVIOUS
<1>2. step \in [1 .. n -> [Seq(T) -> Seq(T)]]
    BY <1>1, ConcatIsSeq
<1> HIDE DEF n
<1>3. PICK g \in [0 .. n -> Seq(T)] : g[0] = <<>> /\ \A k \in 1 .. n : g[k] = step[k][g[k - 1]]
    <2> DEFINE S == Seq(T)
    <2>1. <<>> \in S /\ step \in [1 .. n -> [S -> S]]
        BY <1>1, <1>2
    <2> HIDE DEF step, S
    <2>2. \E g \in [0 .. n -> S] : Iterates(g, n, <<>>, step)
        BY <1>1, <2>1, IterationExists
    <2> QED BY <2>2 DEF S, Iterates
<1>4. ASSUME NEW k \in 1 .. n PROVE g[k] = g[k - 1] \o ss[k]
    <2>1. k - 1 \in 0 .. n /\ g[k - 1] \in Seq(T)
        BY <1>1, <1>3
    <2> QED BY <1>3, <2>1
<1>5. CASE n = 0
    <2>1. FlattenSeq(ss) = <<>>
        BY <1>5 DEF FlattenSeq, n
    <2> QED BY <1>3, <1>4, <1>5, <2>1 DEF n, Joins
<1>6. CASE n # 0
    <2> DEFINE W == [i \in 1 .. n |-> g[i]]
    <2>1. ASSUME NEW i \in 1 .. n
          PROVE  W[i] = IF i = 1 THEN ss[i] ELSE W[i - 1] \o ss[i]
        <3>1. CASE i = 1
            <4>1. g[1] = <<>> \o ss[1]
                <5>1. 1 \in 1 .. n /\ 1 - 1 = 0
                    BY <3>1
                <5>2. g[1] = g[1 - 1] \o ss[1]
                    BY <1>4, <5>1
                <5> QED BY <1>3, <5>1, <5>2
            <4> QED BY <1>1, <3>1, <4>1
        <3>2. CASE i # 1
            <4>1. i - 1 \in 1 .. n
                BY <1>1, <3>2
            <4> QED BY <1>4, <3>2, <4>1
        <3> QED BY <3>1, <3>2
    <2>2. W = E(W)
        <3>1. E(W) = [i \in 1 .. n |-> W[i]]
            <4> HIDE DEF W
            <4> QED BY <2>1
        <3> QED BY <3>1
    <2>3. F = E(F)
        <3> HIDE DEF W, E
        <3> QED BY <2>2
    <2>4. \A i \in 1 .. n : F[i] = IF i = 1 THEN ss[i] ELSE F[i - 1] \o ss[i]
        <3>1. \A f : f = E(f) => \A i \in 1 .. n : f[i] = IF i = 1 THEN ss[i] ELSE f[i - 1] \o ss[i]
            OBVIOUS
        <3> HIDE DEF F, E
        <3> QED BY <2>3, <3>1
    <2> HIDE DEF F
    <2> DEFINE G == [k \in 0 .. n |-> IF k = 0 THEN <<>> ELSE F[k]]
    <2>5. ASSUME NEW k \in 1 .. n, g[k - 1] = G[k - 1] PROVE g[k] = G[k]
        <3>1. CASE k = 1
            <4>1. g[1] = <<>> \o ss[1] /\ G[1] = ss[1]
                <5>1. 1 \in 1 .. n /\ 1 \in 0 .. n /\ 1 - 1 = 0
                    BY <3>1
                <5>2. g[1] = g[1 - 1] \o ss[1]
                    BY <1>4, <5>1
                <5>3. F[1] = ss[1]
                    BY <2>4, <5>1
                <5>4. G[1] = F[1]
                    BY <5>1
                <5>5. g[0] = <<>>
                    BY <1>3 DEF Iterates
                <5> HIDE DEF F, G
                <5> QED BY <5>1, <5>2, <5>3, <5>4, <5>5
            <4> QED BY <1>1, <3>1, <4>1
        <3>2. CASE k # 1
            <4>1. k - 1 \in 1 .. n /\ G[k - 1] = F[k - 1] /\ G[k] = F[k]
                BY <1>1, <3>2
            <4>2. F[k] = F[k - 1] \o ss[k]
                BY <2>4, <3>2
            <4>3. g[k] = g[k - 1] \o ss[k]
                BY <1>4
            <4> QED BY <2>5, <4>1, <4>2, <4>3
        <3> QED BY <3>1, <3>2
    <2>6. g[0] = G[0] /\ n \in 0 .. n
        BY <1>1, <1>3
    <2>7. G[n] = F[n]
        BY <1>1, <1>6
    <2>8. g[n] = G[n]
        <3> HIDE DEF G
        <3>1. \A k \in 1 .. n : g[k - 1] = G[k - 1] => g[k] = G[k]
            BY <2>5
        <3>2. GoAlike(g, G, n)
            BY <2>6, <3>1 DEF GoAlike
        <3>3. Alike(g, G, n)
            BY <1>1, <3>2, SameIteration
        <3> QED BY <2>6, <3>3 DEF Alike
    <2>9. FlattenSeq(ss) = F[n]
        BY <1>6 DEF FlattenSeq, F, n
    <2> QED BY <1>3, <1>4, <2>7, <2>8, <2>9 DEF n, Joins
<1> QED BY <1>5, <1>6

LEMMA OneUp ==
    ASSUME NEW n \in Nat
    PROVE  n \in 0 .. n /\ n + 1 \in 1 .. n + 1 /\ (n + 1) - 1 = n
OBVIOUS

\* One more sequence comes behind the others.
LEMMA FlattenAppend ==
    ASSUME NEW T, NEW ss \in Seq(Seq(T)), NEW s \in Seq(T)
    PROVE  /\ FlattenSeq(ss) \in Seq(T)
           /\ FlattenSeq(Append(ss, s)) = FlattenSeq(ss) \o s
<1> DEFINE n == Len(ss)
           tt == Append(ss, s)
<1>1. /\ tt \in Seq(Seq(T)) /\ Len(tt) = n + 1 /\ n \in Nat
      /\ tt[n + 1] = s /\ \A k \in 1 .. n : tt[k] = ss[k]
    OBVIOUS
<1> HIDE DEF n, tt
<1>2. PICK g \in [0 .. n -> Seq(T)] : Joins(g, n, ss) /\ FlattenSeq(ss) = g[n]
    BY FlattenStepByStep DEF n
<1>3. PICK h \in [0 .. n + 1 -> Seq(T)] : Joins(h, n + 1, tt) /\ FlattenSeq(tt) = h[n + 1]
    <2>1. \E h \in [0 .. Len(tt) -> Seq(T)] : Joins(h, Len(tt), tt) /\ FlattenSeq(tt) = h[Len(tt)]
        BY <1>1, FlattenStepByStep
    <2> QED BY <1>1, <2>1
<1>4. \A k \in 1 .. n : g[k - 1] = h[k - 1] => g[k] = h[k]
    <2>1. \A k \in 1 .. n : k \in 1 .. n + 1
        BY <1>1
    <2> QED BY <1>1, <1>2, <1>3, <2>1 DEF Joins
<1>5. \A k \in 0 .. n : g[k] = h[k]
    <2>1. g[0] = h[0]
        BY <1>2, <1>3 DEF Joins
    <2>2. GoAlike(g, h, n)
        BY <1>4, <2>1 DEF GoAlike
    <2>3. Alike(g, h, n)
        BY <1>1, <2>2, SameIteration
    <2> QED BY <2>3 DEF Alike
<1>6. n \in 0 .. n /\ n + 1 \in 1 .. n + 1 /\ (n + 1) - 1 = n
    BY <1>1, OneUp, Zenon
<1>7. h[n + 1] = h[n] \o s
    BY <1>1, <1>3, <1>6 DEF Joins
<1> QED BY <1>2, <1>3, <1>5, <1>6, <1>7 DEF tt

\* What holds of the empty sequence, and of a sequence with one more element if it holds
\* of the sequence, holds of all.
LEMMA ByAppending ==
    ASSUME NEW T, NEW P, <<>> \in P, \A s \in Seq(T) : \A x \in T : s \in P => Append(s, x) \in P
    PROVE  Seq(T) \subseteq P
<1> SUFFICES ASSUME NEW s \in Seq(T) PROVE s \in P
    OBVIOUS
<1> DEFINE n == Len(s)
           Prefix(k) == SubSeq(s, 1, k)
           S == {k \in 0 .. n : Prefix(k) \in P}
<1>1. n \in Nat
    OBVIOUS
<1>2. 0 \in S
    <2>1. Prefix(0) = <<>>
        BY SubSeqEmpty
    <2> HIDE DEF Prefix
    <2> QED BY <1>1, <2>1
<1>3. ASSUME NEW k \in 1 .. n, k - 1 \in S PROVE k \in S
    <2>1. Prefix(k) = Prefix(k - 1) \o <<s[k]>>
        BY SubSeqRecursiveSecond
    <2>2. Prefix(k - 1) \in Seq(T) /\ s[k] \in T
        OBVIOUS
    <2> HIDE DEF Prefix
    <2>3. Prefix(k) = Append(Prefix(k - 1), s[k])
        BY <2>1, <2>2, AppendIsConcat
    <2>4. Prefix(k - 1) \in P
        BY <1>3
    <2>5. Append(Prefix(k - 1), s[k]) \in P
        BY <2>2, <2>4
    <2>6. Prefix(k) \in P /\ k \in 0 .. n
        BY <2>3, <2>5
    <2> QED BY <2>6
<1>4. n \in S
    <2> HIDE DEF S, n
    <2>1. \A k \in 0 .. n : k \in S
        BY <1>1, <1>2, <1>3, StepByStep
    <2> QED BY <1>1, <2>1
<1>5. Prefix(n) = s
    BY SubSeqFull
<1> QED BY <1>4, <1>5

LEMMA Associative ==
    ASSUME NEW T
    PROVE  \A a, b, c \in Seq(T) : (a \o b) \o c = a \o (b \o c)
BY ConcatAssociative

LEMMA FlattenNothing == FlattenSeq(<<>>) = <<>>
BY DEF FlattenSeq

LEMMA FlattenIsSeq ==
    ASSUME NEW T, NEW ss \in Seq(Seq(T))
    PROVE  FlattenSeq(ss) \in Seq(T)
<1>1. <<>> \in Seq(T)
    OBVIOUS
<1> QED BY <1>1, FlattenAppend

\* One after the other, and then these one after the other, is the same as all.
LEMMA FlattenConcat ==
    ASSUME NEW T, NEW ss \in Seq(Seq(T)), NEW tt \in Seq(Seq(T))
    PROVE  FlattenSeq(ss \o tt) = FlattenSeq(ss) \o FlattenSeq(tt)
<1> DEFINE ST == Seq(T)
           P == {uu \in Seq(ST) : FlattenSeq(ss \o uu) = FlattenSeq(ss) \o FlattenSeq(uu)}
<1>1. <<>> \in P
    <2>1. ss \o <<>> = ss
        BY ConcatEmptySeq
    <2>2. FlattenSeq(ss) \o <<>> = FlattenSeq(ss)
        BY FlattenIsSeq, ConcatEmptySeq
    <2>3. <<>> \in Seq(ST)
        OBVIOUS
    <2> HIDE DEF ST
    <2> QED BY <2>1, <2>2, <2>3, FlattenNothing
<1>2. ASSUME NEW uu \in Seq(ST), NEW s \in ST, uu \in P PROVE Append(uu, s) \in P
    <2>1. Append(uu, s) \in Seq(ST) /\ ss \o uu \in Seq(ST)
        BY ConcatIsSeq, AppendProperties
    <2>2. ss \o Append(uu, s) = Append(ss \o uu, s)
        <3> HIDE DEF ST
        <3>1. ss \in Seq(ST) /\ <<s>> \in Seq(ST)
            BY DEF ST
        <3>2. Append(uu, s) = uu \o <<s>> /\ Append(ss \o uu, s) = (ss \o uu) \o <<s>>
            BY <2>1, AppendIsConcat
        <3> QED BY <3>1, <3>2, ConcatAssociative
    <2>3. FlattenSeq(Append(ss \o uu, s)) = FlattenSeq(ss \o uu) \o s
        BY <2>1, FlattenAppend
    <2>4. FlattenSeq(Append(uu, s)) = FlattenSeq(uu) \o s
        BY FlattenAppend
    <2>5. FlattenSeq(ss) \in ST /\ FlattenSeq(uu) \in ST
        BY FlattenIsSeq
    <2>6. (FlattenSeq(ss) \o FlattenSeq(uu)) \o s = FlattenSeq(ss) \o (FlattenSeq(uu) \o s)
        <3> HIDE DEF P
        <3> DEFINE a == FlattenSeq(ss)
                   b == FlattenSeq(uu)
        <3>1. a \in Seq(T) /\ b \in Seq(T) /\ s \in Seq(T)
            BY <2>5
        <3> HIDE DEF a, b, P, ST
        <3>2. \A d, e, g \in Seq(T) : (d \o e) \o g = d \o (e \o g)
            BY Associative, SMTT(60)
        <3>3. (a \o b) \o s = a \o (b \o s)
            BY <3>1, <3>2
        <3> QED BY <3>3 DEF a, b
    <2>7. FlattenSeq(ss \o uu) = FlattenSeq(ss) \o FlattenSeq(uu)
        BY <1>2
    <2> HIDE DEF ST
    <2> QED BY <2>1, <2>2, <2>3, <2>4, <2>6, <2>7
<1>3. Seq(ST) \subseteq P
    <2> HIDE DEF ST, P
    <2>1. \A uu \in Seq(ST) : \A s \in ST : uu \in P => Append(uu, s) \in P
        BY <1>2
    <2> QED BY <1>1, <2>1, ByAppending
<1> QED BY <1>3

\* Sequences of one element each
LEMMA FlattenSingles ==
    ASSUME NEW T, NEW s \in Seq(T)
    PROVE  FlattenSeq([k \in DOMAIN s |-> <<s[k]>>]) = s
<1> DEFINE Singles(t) == [k \in DOMAIN t |-> <<t[k]>>]
           P == {t \in Seq(T) : FlattenSeq(Singles(t)) = t}
<1>1. <<>> \in P
    <2>1. Singles(<<>>) = <<>>
        OBVIOUS
    <2> HIDE DEF Singles
    <2> QED BY <2>1, FlattenNothing
<1>2. ASSUME NEW t \in Seq(T), NEW x \in T, t \in P PROVE Append(t, x) \in P
    <2>1. Append(t, x) \in Seq(T) /\ Append(t, x) = t \o <<x>>
        BY AppendProperties, AppendIsConcat
    <2>2. Singles(t) \in Seq(Seq(T)) /\ <<x>> \in Seq(T)
        <3> DEFINE ST == Seq(T)
        <3>1. \A k \in DOMAIN t : <<t[k]>> \in ST
            OBVIOUS
        <3>2. <<x>> \in ST
            OBVIOUS
        <3> HIDE DEF ST
        <3>3. Singles(t) \in Seq(ST)
            BY <3>1
        <3> QED BY <3>2, <3>3 DEF ST
    <2>3. Singles(Append(t, x)) = Append(Singles(t), <<x>>)
        OBVIOUS
    <2> HIDE DEF Singles
    <2>4. FlattenSeq(Append(Singles(t), <<x>>)) = FlattenSeq(Singles(t)) \o <<x>>
        BY <2>2, FlattenAppend
    <2> QED BY <1>2, <2>1, <2>3, <2>4
<1>3. Seq(T) \subseteq P
    <2> HIDE DEF P
    <2> QED BY <1>1, <1>2, ByAppending
<1> QED BY <1>3

\* An element of the whole is one of a part.
LEMMA FlattenMembers ==
    ASSUME NEW T, NEW ss \in Seq(Seq(T)), NEW x \in Range(FlattenSeq(ss))
    PROVE  \E k \in DOMAIN ss : x \in Range(ss[k])
<1> DEFINE ST == Seq(T)
           In(uu, y) == \E k \in DOMAIN uu : y \in Range(uu[k])
           P == {uu \in Seq(ST) : \A y \in Range(FlattenSeq(uu)) : In(uu, y)}
<1>1. <<>> \in P
    <2>1. Range(<<>>) = {}
        BY DEF Range
    <2> QED BY <2>1, FlattenNothing
<1>2. ASSUME NEW uu \in Seq(ST), NEW s \in ST, uu \in P PROVE Append(uu, s) \in P
    <2> DEFINE vv == Append(uu, s)
    <2>1. FlattenSeq(vv) = FlattenSeq(uu) \o s /\ FlattenSeq(uu) \in ST
        BY FlattenAppend, FlattenIsSeq
    <2>2. Range(FlattenSeq(uu) \o s) = Range(FlattenSeq(uu)) \cup Range(s)
        BY <2>1, RangeConcatenation
    <2>3. /\ vv \in Seq(ST) /\ DOMAIN uu \subseteq DOMAIN vv /\ Len(uu) + 1 \in DOMAIN vv
          /\ vv[Len(uu) + 1] = s /\ \A k \in DOMAIN uu : vv[k] = uu[k]
        <3> HIDE DEF ST
        <3> QED OBVIOUS
    <2>4. ASSUME NEW y \in Range(FlattenSeq(vv)) PROVE In(vv, y)
        <3>1. CASE y \in Range(FlattenSeq(uu))
            <4>1. PICK k \in DOMAIN uu : y \in Range(uu[k])
                BY <1>2, <3>1
            <4> QED BY <2>3, <4>1
        <3>2. CASE y \in Range(s)
            BY <2>3, <3>2
        <3> QED BY <2>1, <2>2, <3>1, <3>2
    <2> QED BY <2>3, <2>4
<1>3. Seq(ST) \subseteq P
    <2> HIDE DEF ST, P
    <2> QED BY <1>1, <1>2, ByAppending
<1> QED BY <1>3

\* And the other way round
LEMMA FlattenContains ==
    ASSUME NEW T, NEW ss \in Seq(Seq(T)), NEW k \in DOMAIN ss, NEW x \in Range(ss[k])
    PROVE  x \in Range(FlattenSeq(ss))
<1> DEFINE ST == Seq(T)
           All(uu) == \A j \in DOMAIN uu : Range(uu[j]) \subseteq Range(FlattenSeq(uu))
           P == {uu \in Seq(ST) : All(uu)}
<1>1. <<>> \in P
    OBVIOUS
<1>2. ASSUME NEW uu \in Seq(ST), NEW s \in ST, uu \in P PROVE Append(uu, s) \in P
    <2> DEFINE vv == Append(uu, s)
    <2>1. FlattenSeq(vv) = FlattenSeq(uu) \o s /\ FlattenSeq(uu) \in ST
        BY FlattenAppend, FlattenIsSeq
    <2>2. Range(FlattenSeq(uu) \o s) = Range(FlattenSeq(uu)) \cup Range(s)
        BY <2>1, RangeConcatenation
    <2>3. /\ vv \in Seq(ST) /\ DOMAIN vv = DOMAIN uu \cup {Len(uu) + 1}
          /\ vv[Len(uu) + 1] = s /\ \A j \in DOMAIN uu : vv[j] = uu[j]
        <3> HIDE DEF ST
        <3> QED OBVIOUS
    <2>4. \A j \in DOMAIN uu : Range(uu[j]) \subseteq Range(FlattenSeq(uu))
        BY <1>2
    <2> HIDE DEF vv, ST
    <2>5. All(vv)
        BY <2>1, <2>2, <2>3, <2>4
    <2> QED BY <2>3, <2>5 DEF vv
<1>3. Seq(ST) \subseteq P
    <2> HIDE DEF ST, P
    <2> QED BY <1>1, <1>2, ByAppending
<1> QED BY <1>3

-----------------------------------------------------------------------------
(* A value for every subset of a finite set, by a step from what is left of a subset without  *)
(* the element c of it; the sum of f over the subsets                                         *)

FoldsUp(g, S, base, step, c) ==
    \A s \in SUBSET S : g[s] = IF s = {} THEN base ELSE step[c[s]][g[s \ {c[s]}]]

SumsUp(g, S, f, c) ==
    \A s \in SUBSET S : g[s] = IF s = {} THEN 0 ELSE f[c[s]] + g[s \ {c[s]}]

\* How many elements the subsets have
LEMMA SubsetCardinality ==
    ASSUME NEW S, IsFiniteSet(S), NEW s \in SUBSET S
    PROVE  /\ IsFiniteSet(s) /\ Cardinality(s) \in 0 .. Cardinality(S) /\ Cardinality(S) \in Nat
           /\ Cardinality(s) = 0 <=> s = {}
           /\ \A x \in s : Cardinality(s \ {x}) = Cardinality(s) - 1
<1>1. IsFiniteSet(s) /\ Cardinality(s) <= Cardinality(S)
    BY FS_Subset
<1>2. Cardinality(s) \in Nat /\ Cardinality(S) \in Nat
    BY <1>1, FS_CardinalityType
<1>3. Cardinality(s) = 0 <=> s = {}
    BY <1>1, FS_EmptySet
<1>4. \A x \in s : Cardinality(s \ {x}) = Cardinality(s) - 1
    BY <1>1, FS_RemoveElement
<1> QED BY <1>1, <1>2, <1>3, <1>4

\* There is one of the first kind ...
LEMMA FoldExists ==
    ASSUME NEW T, NEW S, IsFiniteSet(S), NEW base \in T, NEW step \in [S -> [T -> T]],
           NEW c, \A s \in SUBSET S : s # {} => c[s] \in s
    PROVE  \E g \in [SUBSET S -> T] : FoldsUp(g, S, base, step, c)
<1> DEFINE n == Cardinality(S)
           Small(m) == {s \in SUBSET S : Cardinality(s) <= m}
           Folds(g, m) == /\ g \in [Small(m) -> T]
                          /\ \A s \in Small(m) :
                               g[s] = IF s = {} THEN base ELSE step[c[s]][g[s \ {c[s]}]]
           M == {m \in 0 .. n : \E g : Folds(g, m)}
<1>1. n \in Nat
    BY FS_CardinalityType
<1>2. 0 \in M
    <2> DEFINE g == [s \in Small(0) |-> base]
    <2>1. ASSUME NEW s \in Small(0) PROVE s = {}
        <3>1. Cardinality(s) = 0
            BY SubsetCardinality
        <3> QED BY <3>1, SubsetCardinality
    <2>2. Folds(g, 0)
        BY <2>1
    <2> HIDE DEF g, Folds
    <2> QED BY <1>1, <2>2
<1>3. ASSUME NEW m \in 1 .. n, m - 1 \in M PROVE m \in M
    <2>1. PICK g : Folds(g, m - 1)
        BY <1>3
    <2> DEFINE h == [s \in Small(m) |-> IF s = {} THEN base ELSE step[c[s]][g[s \ {c[s]}]]]
    <2>2. ASSUME NEW s \in Small(m), s # {}
          PROVE  c[s] \in s /\ s \ {c[s]} \in Small(m - 1) /\ s \ {c[s]} \in Small(m)
        <3>1. c[s] \in s
            BY <2>2
        <3>2. Cardinality(s \ {c[s]}) = Cardinality(s) - 1 /\ Cardinality(s) \in Nat
            BY <3>1, SubsetCardinality
        <3> QED BY <3>1, <3>2
    <2>3. ASSUME NEW s \in Small(m) PROVE h[s] \in T
        <3>1. CASE s = {}
            BY <3>1
        <3>2. CASE s # {}
            <4>1. g[s \ {c[s]}] \in T
                BY <2>1, <2>2, <3>2
            <4>2. step[c[s]] \in [T -> T]
                BY <2>2, <3>2
            <4> QED BY <3>2, <4>1, <4>2
        <3> QED BY <3>1, <3>2
    <2>4. ASSUME NEW s \in Small(m - 1) PROVE s \in Small(m) /\ h[s] = g[s]
        <3>1. s \in Small(m)
            BY SubsetCardinality
        <3>2. g[s] = IF s = {} THEN base ELSE step[c[s]][g[s \ {c[s]}]]
            BY <2>1
        <3> QED BY <3>1, <3>2
    <2>5. ASSUME NEW s \in Small(m)
          PROVE  h[s] = IF s = {} THEN base ELSE step[c[s]][h[s \ {c[s]}]]
        <3>1. CASE s = {}
            BY <3>1
        <3>2. CASE s # {}
            <4>1. h[s \ {c[s]}] = g[s \ {c[s]}]
                BY <2>2, <2>4, <3>2
            <4>2. h[s] = step[c[s]][g[s \ {c[s]}]]
                BY <3>2
            <4> HIDE DEF h
            <4> QED BY <3>2, <4>1, <4>2
        <3> QED BY <3>1, <3>2
    <2>6. h \in [Small(m) -> T]
        <3>1. h = [s \in Small(m) |-> h[s]]
            OBVIOUS
        <3> HIDE DEF h, Small
        <3> QED BY <2>3, <3>1
    <2>7. Folds(h, m)
        <3> HIDE DEF h, Small
        <3> QED BY <2>5, <2>6
    <2> HIDE DEF h, Folds
    <2> QED BY <1>1, <2>7
<1>4. n \in M
    <2> HIDE DEF M, n
    <2>1. \A m \in 0 .. n : m \in M
        BY <1>1, <1>2, <1>3, StepByStep
    <2> QED BY <1>1, <2>1
<1>5. PICK g : Folds(g, n)
    BY <1>4
<1>6. Small(n) = SUBSET S
    BY SubsetCardinality
<1> HIDE DEF Small
<1>7. g \in [SUBSET S -> T] /\ FoldsUp(g, S, base, step, c)
    BY <1>5, <1>6 DEF FoldsUp
<1> QED BY <1>7

\* ... and so there is one of the second.
LEMMA SumExists ==
    ASSUME NEW S, IsFiniteSet(S), NEW f \in [S -> Nat],
           NEW c, \A s \in SUBSET S : s # {} => c[s] \in s
    PROVE  \E g : SumsUp(g, S, f, c)
<1> DEFINE step == [x \in S |-> [k \in Nat |-> f[x] + k]]
<1>1. step \in [S -> [Nat -> Nat]]
    <2>1. \A x \in S : \A k \in Nat : f[x] + k \in Nat
        <3>1. \A x \in S : f[x] \in Nat
            OBVIOUS
        <3> QED BY <3>1
    <2> QED BY <2>1
<1>2. \A x \in S : \A k \in Nat : step[x][k] = f[x] + k
    OBVIOUS
<1> HIDE DEF step
<1>3. 0 \in Nat
    OBVIOUS
<1> DEFINE N == Nat
<1>4. PICK g \in [SUBSET S -> N] : FoldsUp(g, S, 0, step, c)
    <2>1. 0 \in N /\ step \in [S -> [N -> N]]
        BY <1>1, <1>3
    <2> HIDE DEF N
    <2> QED BY <2>1, FoldExists
<1>5. ASSUME NEW s \in SUBSET S, s # {} PROVE step[c[s]][g[s \ {c[s]}]] = f[c[s]] + g[s \ {c[s]}]
    <2>1. c[s] \in S /\ s \ {c[s]} \in SUBSET S
        BY <1>5
    <2>2. g[s \ {c[s]}] \in Nat
        BY <1>4, <2>1
    <2> QED BY <1>2, <2>1, <2>2
<1>6. SumsUp(g, S, f, c)
    <2> HIDE DEF N
    <2> QED BY <1>4, <1>5 DEF FoldsUp, SumsUp
<1> QED BY <1>6

\* A sum of naturals is a natural.
LEMMA SumIsNatural ==
    ASSUME NEW S, IsFiniteSet(S), NEW f \in [S -> Nat],
           NEW c, \A s \in SUBSET S : s # {} => c[s] \in s,
           NEW g, SumsUp(g, S, f, c)
    PROVE  g[S] \in Nat
<1> DEFINE n == Cardinality(S)
           M == {m \in 0 .. n : \A s \in SUBSET S : Cardinality(s) = m => g[s] \in Nat}
<1>1. n \in Nat
    BY FS_CardinalityType
<1>2. 0 \in M
    <2>1. \A s \in SUBSET S : Cardinality(s) = 0 => g[s] = 0
        BY SubsetCardinality DEF SumsUp
    <2> QED BY <1>1, <2>1
<1>3. ASSUME NEW m \in 1 .. n, m - 1 \in M PROVE m \in M
    <2>1. ASSUME NEW s \in SUBSET S, Cardinality(s) = m PROVE g[s] \in Nat
        <3>1. s # {} /\ c[s] \in s
            BY <2>1, SubsetCardinality
        <3>2. Cardinality(s \ {c[s]}) = m - 1 /\ s \ {c[s]} \in SUBSET S
            BY <2>1, <3>1, SubsetCardinality
        <3>3. g[s \ {c[s]}] \in Nat /\ f[c[s]] \in Nat
            BY <1>3, <3>1, <3>2
        <3>4. g[s] = f[c[s]] + g[s \ {c[s]}]
            BY <3>1 DEF SumsUp
        <3> QED BY <3>3, <3>4
    <2> QED BY <1>1, <2>1
<1>4. n \in M
    <2> HIDE DEF M, n
    <2>1. \A m \in 0 .. n : m \in M
        BY <1>1, <1>2, <1>3, StepByStep
    <2> QED BY <1>1, <2>1
<1> QED BY <1>4

-----------------------------------------------------------------------------
(* Sequences from the elements of a sequence, one after the other *)

Parts(f, s) == [k \in DOMAIN s |-> f[s[k]]]
Joined(f, s) == FlattenSeq(Parts(f, s))

LEMMA JoinedNone ==
    ASSUME NEW f
    PROVE  Joined(f, <<>>) = <<>>
<1>1. Parts(f, <<>>) = <<>>
    BY DEF Parts
<1> QED BY <1>1, FlattenNothing DEF Joined

LEMMA JoinedParts ==
    ASSUME NEW S, NEW T, NEW f \in [S -> Seq(T)], NEW s \in Seq(S)
    PROVE  Parts(f, s) \in Seq(Seq(T)) /\ Joined(f, s) \in Seq(T)
<1> DEFINE ST == Seq(T)
           ss == Parts(f, s)
<1>1. \A k \in DOMAIN s : s[k] \in S
    OBVIOUS
<1> HIDE DEF ST
<1>2. f \in [S -> ST]
    BY DEF ST
<1>3. \A k \in DOMAIN s : f[s[k]] \in ST
    BY <1>1, <1>2
<1>4. ss \in Seq(ST)
    <2>1. DOMAIN s = 1 .. Len(s) /\ Len(s) \in Nat
        OBVIOUS
    <2> QED BY <1>3, <2>1 DEF Parts
<1> HIDE DEF ss
<1> QED BY <1>4, FlattenIsSeq DEF Joined, ST, ss

\* One element more gives its sequence more.
LEMMA JoinedOneMore ==
    ASSUME NEW S, NEW T, NEW f \in [S -> Seq(T)], NEW s \in Seq(S), NEW x \in S
    PROVE  Joined(f, Append(s, x)) = Joined(f, s) \o f[x]
<1> DEFINE ss == Parts(f, s)
           tt == Parts(f, Append(s, x))
<1>1. ss \in Seq(Seq(T)) /\ f[x] \in Seq(T)
    <2>1. ss \in Seq(Seq(T))
        BY JoinedParts
    <2>2. f[x] \in Seq(T)
        OBVIOUS
    <2> QED BY <2>1, <2>2
<1>2. tt = Append(ss, f[x])
    BY DEF Parts
<1> HIDE DEF ss, tt
<1>3. FlattenSeq(tt) = FlattenSeq(ss) \o f[x]
    BY <1>1, <1>2, FlattenAppend
<1> QED BY <1>3 DEF Joined, ss, tt

LEMMA JoinedOne ==
    ASSUME NEW S, NEW T, NEW f \in [S -> Seq(T)], NEW x \in S
    PROVE  Joined(f, <<x>>) = f[x]
<1>1. <<>> \in Seq(S) /\ Append(<<>>, x) = <<x>> /\ f[x] \in Seq(T)
    OBVIOUS
<1>2. Joined(f, <<x>>) = <<>> \o f[x]
    BY <1>1, JoinedNone, JoinedOneMore
<1> QED BY <1>1, <1>2, ConcatEmptySeq

LEMMA JoinedConcat ==
    ASSUME NEW S, NEW T, NEW f \in [S -> Seq(T)], NEW s \in Seq(S), NEW t \in Seq(S)
    PROVE  Joined(f, s \o t) = Joined(f, s) \o Joined(f, t)
<1> DEFINE P == {u \in Seq(S) : Joined(f, s \o u) = Joined(f, s) \o Joined(f, u)}
<1>1. <<>> \in P
    <2>1. <<>> \in Seq(S) /\ s \o <<>> = s /\ Joined(f, s) \o <<>> = Joined(f, s)
        BY JoinedParts, ConcatEmptySeq
    <2> QED BY <2>1, JoinedNone
<1>2. ASSUME NEW u \in Seq(S), NEW x \in S, u \in P PROVE Append(u, x) \in P
    <2>1. /\ Append(u, x) \in Seq(S) /\ s \o u \in Seq(S) /\ f[x] \in Seq(T)
          /\ Append(u, x) = u \o <<x>> /\ Append(s \o u, x) = (s \o u) \o <<x>>
          /\ <<x>> \in Seq(S)
        <3>1. Append(u, x) \in Seq(S) /\ Append(u, x) = u \o <<x>> /\ <<x>> \in Seq(S)
            BY AppendProperties, AppendIsConcat
        <3>2. s \o u \in Seq(S)
            BY ConcatIsSeq
        <3>3. Append(s \o u, x) = (s \o u) \o <<x>>
            BY <3>2, AppendIsConcat
        <3> QED BY <3>1, <3>2, <3>3
    <2>2. s \o Append(u, x) = Append(s \o u, x)
        BY <2>1, ConcatAssociative
    <2>3. Joined(f, Append(s \o u, x)) = Joined(f, s \o u) \o f[x]
        BY <2>1, JoinedOneMore
    <2>4. Joined(f, Append(u, x)) = Joined(f, u) \o f[x]
        BY JoinedOneMore
    <2>5. Joined(f, s \o u) = Joined(f, s) \o Joined(f, u)
        BY <1>2
    <2>6. (Joined(f, s) \o Joined(f, u)) \o f[x] = Joined(f, s) \o (Joined(f, u) \o f[x])
        <3> DEFINE a == Joined(f, s)
                   b == Joined(f, u)
                   c == f[x]
        <3>1. a \in Seq(T) /\ b \in Seq(T) /\ c \in Seq(T)
            BY <2>1, JoinedParts
        <3>2. \A d, e, g \in Seq(T) : (d \o e) \o g = d \o (e \o g)
            BY Associative, SMTT(60)
        <3> HIDE DEF a, b, c, P
        <3>3. (a \o b) \o c = a \o (b \o c)
            BY <3>1, <3>2
        <3> QED BY <3>3 DEF a, b, c
    <2> QED BY <2>1, <2>2, <2>3, <2>4, <2>5, <2>6
<1>3. Seq(S) \subseteq P
    <2> HIDE DEF P
    <2> QED BY <1>1, <1>2, ByAppending
<1> QED BY <1>3

\* What is joined is of an element.
LEMMA JoinedMembers ==
    ASSUME NEW S, NEW T, NEW f \in [S -> Seq(T)], NEW s \in Seq(S), NEW y \in Range(Joined(f, s))
    PROVE  \E k \in DOMAIN s : y \in Range(f[s[k]])
<1> DEFINE ss == Parts(f, s)
<1>1. ss \in Seq(Seq(T)) /\ Joined(f, s) = FlattenSeq(ss)
    BY JoinedParts DEF Joined
<1>2. \A k \in DOMAIN ss : k \in DOMAIN s /\ ss[k] = f[s[k]]
    BY DEF Parts
<1> HIDE DEF ss
<1>3. PICK k \in DOMAIN ss : y \in Range(ss[k])
    BY <1>1, FlattenMembers
<1> QED BY <1>2, <1>3

\* The first elements of a sequence
First(s, k) == SubSeq(s, 1, k)

LEMMA FirstOneMore ==
    ASSUME NEW S, NEW s \in Seq(S), NEW k \in 1 .. Len(s)
    PROVE  /\ First(s, k - 1) \in Seq(S) /\ s[k] \in S
           /\ First(s, k) = Append(First(s, k - 1), s[k])
<1>1. First(s, k) = First(s, k - 1) \o <<s[k]>>
    BY SubSeqRecursiveSecond DEF First
<1>2. First(s, k - 1) \in Seq(S) /\ s[k] \in S
    BY DEF First
<1> QED BY <1>1, <1>2, AppendIsConcat

LEMMA FirstNone ==
    ASSUME NEW S, NEW s \in Seq(S)
    PROVE  First(s, 0) = <<>> /\ First(s, Len(s)) = s
BY SubSeqEmpty, SubSeqFull DEF First

-----------------------------------------------------------------------------
(* The elements of a sequence that are in a set *)

\* The definition goes through the sequence from the left.
Selects(g, n, s, S) ==
    /\ g[0] = <<>>
    /\ \A k \in 1 .. n : g[k] = IF s[k] \in S THEN Append(g[k - 1], s[k]) ELSE g[k - 1]

LEMMA AmongStepByStep ==
    ASSUME NEW T, NEW s \in Seq(T), NEW S
    PROVE  \E g \in [0 .. Len(s) -> Seq(T)] :
             Selects(g, Len(s), s, S) /\ Among(s, S) = g[Len(s)]
<1> DEFINE n == Len(s)
           step == [k \in 1 .. n |-> [r \in Seq(T) |-> IF s[k] \in S THEN Append(r, s[k]) ELSE r]]
           E(f) == [k \in 0 .. n |-> IF k = 0 THEN <<>>
                                     ELSE IF s[k] \in S THEN Append(f[k - 1], s[k]) ELSE f[k - 1]]
           A == CHOOSE f : f = E(f)
<1>1. n \in Nat /\ <<>> \in Seq(T) /\ \A k \in 1 .. n : s[k] \in T
    OBVIOUS
<1>2. step \in [1 .. n -> [Seq(T) -> Seq(T)]]
    <2>1. \A x \in T, r \in Seq(T) : Append(r, x) \in Seq(T)
        OBVIOUS
    <2> QED BY <1>1, <2>1
<1> HIDE DEF n
<1>3. PICK g \in [0 .. n -> Seq(T)] : g[0] = <<>> /\ \A k \in 1 .. n : g[k] = step[k][g[k - 1]]
    <2> DEFINE R == Seq(T)
    <2>1. <<>> \in R /\ step \in [1 .. n -> [R -> R]]
        BY <1>1, <1>2
    <2> HIDE DEF step, R
    <2>2. \E g \in [0 .. n -> R] : Iterates(g, n, <<>>, step)
        BY <1>1, <2>1, IterationExists
    <2> QED BY <2>2 DEF R, Iterates
<1>4. ASSUME NEW k \in 1 .. n
      PROVE  g[k] = IF s[k] \in S THEN Append(g[k - 1], s[k]) ELSE g[k - 1]
    <2>1. k - 1 \in 0 .. n /\ g[k - 1] \in Seq(T)
        BY <1>1, <1>3
    <2> QED BY <1>3, <2>1
<1> DEFINE Value(f, k) == IF k = 0 THEN <<>>
                          ELSE IF s[k] \in S THEN Append(f[k - 1], s[k]) ELSE f[k - 1]
<1>5. g = E(g)
    <2>1. ASSUME NEW k \in 0 .. n PROVE g[k] = Value(g, k)
        <3>1. CASE k = 0
            BY <1>3, <3>1
        <3>2. CASE k # 0
            <4>1. k \in 1 .. n
                BY <1>1, <3>2
            <4> QED BY <1>4, <3>2, <4>1
        <3> QED BY <3>1, <3>2
    <2>2. E(g) = [k \in 0 .. n |-> Value(g, k)]
        OBVIOUS
    <2> HIDE DEF E, Value
    <2> QED BY <1>3, <2>1, <2>2
<1>6. A = E(A)
    <2> HIDE DEF E
    <2> QED BY <1>5
<1>7. Selects(A, n, s, S)
    <2>1. \A k \in 0 .. n : A[k] = Value(A, k)
        <3>1. E(A) = [k \in 0 .. n |-> Value(A, k)]
            <4> HIDE DEF A
            <4> QED OBVIOUS
        <3> HIDE DEF A, E, Value
        <3> QED BY <1>6, <3>1
    <2> HIDE DEF A
    <2>2. A[0] = <<>>
        <3>1. 0 \in 0 .. n
            BY <1>1
        <3> QED BY <2>1, <3>1
    <2>3. ASSUME NEW k \in 1 .. n
          PROVE  A[k] = IF s[k] \in S THEN Append(A[k - 1], s[k]) ELSE A[k - 1]
        <3>1. k \in 0 .. n /\ k # 0
            BY <1>1
        <3> QED BY <2>1, <3>1
    <2> QED BY <2>2, <2>3 DEF Selects
<1>8. Alike(g, A, n)
    <2> HIDE DEF A
    <2>1. GoAlike(g, A, n)
        BY <1>3, <1>4, <1>7 DEF GoAlike, Selects
    <2> QED BY <1>1, <2>1, SameIteration
<1>9. Among(s, S) = A[n]
    BY DEF Among, n
<1>10. Selects(g, n, s, S)
    BY <1>3, <1>4 DEF Selects
<1> HIDE DEF A
<1>11. Among(s, S) = g[n]
    <2>1. n \in 0 .. n
        BY <1>1
    <2> QED BY <1>8, <1>9, <2>1 DEF Alike
<1> QED BY <1>10, <1>11 DEF n

LEMMA AmongNothing == \A S : Among(<<>>, S) = <<>>
<1> TAKE S
<1> DEFINE none == <<>>
<1>1. none \in Seq({}) /\ Len(none) = 0
    OBVIOUS
<1> HIDE DEF none
<1>2. \E g \in [0 .. Len(none) -> Seq({})] :
        Selects(g, Len(none), none, S) /\ Among(none, S) = g[Len(none)]
    BY <1>1, AmongStepByStep
<1>3. Among(none, S) = <<>>
    BY <1>1, <1>2 DEF Selects
<1> QED BY <1>3 DEF none

LEMMA AmongIsSeq ==
    ASSUME NEW T, NEW s \in Seq(T), NEW S
    PROVE  Among(s, S) \in Seq(T)
<1>1. PICK g \in [0 .. Len(s) -> Seq(T)] : Among(s, S) = g[Len(s)]
    BY AmongStepByStep
<1>2. Len(s) \in 0 .. Len(s)
    OBVIOUS
<1> QED BY <1>1, <1>2

LEMMA AmongOneMore ==
    ASSUME NEW T, NEW s \in Seq(T), NEW x \in T, NEW S
    PROVE  Among(Append(s, x), S) = IF x \in S THEN Append(Among(s, S), x) ELSE Among(s, S)
<1> DEFINE n == Len(s)
           t == Append(s, x)
<1>1. /\ t \in Seq(T) /\ Len(t) = n + 1 /\ n \in Nat
      /\ t[n + 1] = x /\ \A k \in 1 .. n : t[k] = s[k]
    OBVIOUS
<1> HIDE DEF n, t
<1>2. PICK g \in [0 .. n -> Seq(T)] : Selects(g, n, s, S) /\ Among(s, S) = g[n]
    BY AmongStepByStep DEF n
<1>3. PICK h \in [0 .. n + 1 -> Seq(T)] : Selects(h, n + 1, t, S) /\ Among(t, S) = h[n + 1]
    <2>1. \E h \in [0 .. Len(t) -> Seq(T)] : Selects(h, Len(t), t, S) /\ Among(t, S) = h[Len(t)]
        BY <1>1, AmongStepByStep
    <2> QED BY <1>1, <2>1
<1>4. GoAlike(g, h, n)
    <2>1. \A k \in 1 .. n : k \in 1 .. n + 1
        BY <1>1
    <2> QED BY <1>1, <1>2, <1>3, <2>1 DEF Selects, GoAlike
<1>5. n \in 0 .. n /\ n + 1 \in 1 .. n + 1 /\ (n + 1) - 1 = n
    BY <1>1, OneUp, Zenon
<1>6. g[n] = h[n]
    <2>1. Alike(g, h, n)
        BY <1>1, <1>4, SameIteration
    <2> QED BY <1>5, <2>1 DEF Alike
<1>7. h[n + 1] = IF x \in S THEN Append(h[n], x) ELSE h[n]
    BY <1>1, <1>3, <1>5 DEF Selects
<1> QED BY <1>2, <1>3, <1>6, <1>7 DEF t

\* All of them are in the set.
LEMMA AmongMembers ==
    ASSUME NEW T, NEW s \in Seq(T), NEW S
    PROVE  Among(s, S) \in Seq(T \cap S)
<1> DEFINE U2 == T \cap S
           P == {r \in Seq(T) : Among(r, S) \in Seq(U2)}
<1>1. <<>> \in P
    <2>1. <<>> \in Seq(T) /\ <<>> \in Seq(U2)
        OBVIOUS
    <2>2. Among(<<>>, S) = <<>>
        BY AmongNothing
    <2> HIDE DEF U2
    <2> QED BY <2>1, <2>2
<1>2. ASSUME NEW r \in Seq(T), NEW x \in T, r \in P PROVE Append(r, x) \in P
    <2>1. Among(Append(r, x), S) = IF x \in S THEN Append(Among(r, S), x) ELSE Among(r, S)
        BY AmongOneMore
    <2>2. Append(r, x) \in Seq(T)
        OBVIOUS
    <2>3. x \in S => x \in U2
        OBVIOUS
    <2> HIDE DEF U2
    <2>4. Among(r, S) \in Seq(U2)
        BY <1>2
    <2>5. x \in S => Append(Among(r, S), x) \in Seq(U2)
        BY <2>3, <2>4
    <2> QED BY <2>1, <2>2, <2>4, <2>5
<1> HIDE DEF P
<1>3. Seq(T) \subseteq P
    BY <1>1, <1>2, ByAppending
<1> QED BY <1>3 DEF P

\* Elements outside the set leave nothing ...
LEMMA AmongOutside ==
    ASSUME NEW T, NEW S, T \cap S = {}, NEW s \in Seq(T)
    PROVE  Among(s, S) = <<>>
<1>1. Among(s, S) \in Seq({})
    BY AmongMembers
<1> QED BY <1>1

LEMMA AppendBehind ==
    ASSUME NEW T, NEW x \in T
    PROVE  \A r, s \in Seq(T) :
             r \o Append(s, x) = Append(r \o s, x) /\ r \o s \in Seq(T)
OBVIOUS

\* ... and elements of it come through, behind what the ones before leave.
LEMMA AmongInside ==
    ASSUME NEW T, NEW S, NEW s \in Seq(T), NEW t \in Seq(T), t \in Seq(S)
    PROVE  Among(s \o t, S) = Among(s, S) \o t
<1> DEFINE I == T \cap S
           P == {r \in Seq(I) : Among(s \o r, S) = Among(s, S) \o r}
<1>1. Among(s, S) \in Seq(T)
    BY AmongIsSeq
<1>2. <<>> \in P
    <2>1. s \o <<>> = s /\ Among(s, S) \o <<>> = Among(s, S)
        BY <1>1, ConcatEmptySeq
    <2>2. <<>> \in Seq(I)
        OBVIOUS
    <2> HIDE DEF I
    <2> QED BY <2>1, <2>2
<1>3. ASSUME NEW r \in Seq(I), NEW x \in I, r \in P PROVE Append(r, x) \in P
    <2>1. r \in Seq(T) /\ x \in T /\ x \in S /\ Append(r, x) \in Seq(I)
        OBVIOUS
    <2>2. s \o Append(r, x) = Append(s \o r, x) /\ s \o r \in Seq(T)
        BY <2>1, AppendBehind
    <2> DEFINE a == Among(s, S)
    <2>3. Among(Append(s \o r, x), S) = Append(Among(s \o r, S), x)
        BY <2>1, <2>2, AmongOneMore
    <2>4. Among(s \o r, S) = a \o r
        BY <1>3
    <2> HIDE DEF a
    <2>5. a \o Append(r, x) = Append(a \o r, x)
        <3>1. a \in Seq(T)
            BY <1>1 DEF a
        <3> HIDE DEF P, I
        <3>2. \A q \in Seq(T) : q \o Append(r, x) = Append(q \o r, x)
            BY <2>1, AppendBehind
        <3> QED BY <3>1, <3>2
    <2> QED BY <2>1, <2>2, <2>3, <2>4, <2>5 DEF a
<1> HIDE DEF P
<1>4. Seq(I) \subseteq P
    <2> HIDE DEF I
    <2> QED BY <1>2, <1>3, ByAppending
<1>5. t \in Seq(I)
    OBVIOUS
<1> QED BY <1>4, <1>5 DEF P

\* Every element of the sequence that is in the set is among them.
LEMMA AmongContains ==
    ASSUME NEW T, NEW S, NEW s \in Seq(T)
    PROVE  ToSet(Among(s, S)) = ToSet(s) \cap S
<1> DEFINE P == {r \in Seq(T) : ToSet(Among(r, S)) = ToSet(r) \cap S}
<1>1. <<>> \in P
    BY AmongNothing DEF ToSet
<1>2. ASSUME NEW r \in Seq(T), NEW x \in T, r \in P PROVE Append(r, x) \in P
    <2>1. Among(Append(r, x), S) = IF x \in S THEN Append(Among(r, S), x) ELSE Among(r, S)
        BY AmongOneMore
    <2>2. \A q \in Seq(T) : ToSet(Append(q, x)) = ToSet(q) \cup {x}
        <3> TAKE q \in Seq(T)
        <3> DEFINE e == Append(q, x)
        <3>1. /\ DOMAIN e = DOMAIN q \cup {Len(q) + 1} /\ e[Len(q) + 1] = x
              /\ \A i \in DOMAIN q : e[i] = q[i]
            BY AtTheEnd
        <3> HIDE DEF e
        <3>2. ToSet(e) = ToSet(q) \cup {x}
            BY <3>1 DEF ToSet
        <3> QED BY <3>2 DEF e
    <2>3. Among(r, S) \in Seq(T)
        BY AmongIsSeq
    <2>4. ToSet(Among(r, S)) = ToSet(r) \cap S
        BY <1>2
    <2>5. Append(r, x) \in Seq(T)
        OBVIOUS
    <2> HIDE DEF P
    <2>6. ToSet(Among(Append(r, x), S)) = ToSet(Append(r, x)) \cap S
        <3>1. CASE x \in S
            <4>1. ToSet(Append(Among(r, S), x)) = ToSet(Among(r, S)) \cup {x}
                BY <2>2, <2>3
            <4>2. ToSet(Append(r, x)) = ToSet(r) \cup {x}
                BY <2>2
            <4> QED BY <2>1, <2>4, <3>1, <4>1, <4>2
        <3>2. CASE x \notin S
            <4>2. ToSet(Append(r, x)) = ToSet(r) \cup {x}
                BY <2>2
            <4> QED BY <2>1, <2>4, <3>2, <4>2
        <3> QED BY <3>1, <3>2
    <2> QED BY <2>5, <2>6 DEF P
<1> HIDE DEF P
<1>3. Seq(T) \subseteq P
    BY <1>1, <1>2, ByAppending
<1> QED BY <1>3 DEF P

-----------------------------------------------------------------------------
(* Places *)

\* A non-empty set of places has a last element, and a first (FirstExists): what the lookups
\* of QuakeOperations.cpp return exists.
LEMMA LastExists ==
    ASSUME NEW m \in Nat, NEW S \in SUBSET (0 .. m), S # {}
    PROVE  \E s \in S : \A t \in S : t <= s
<1> DEFINE M == {m - s : s \in S}
<1>1. M \in SUBSET Nat /\ M # {}
    <2>1. ASSUME NEW s \in S PROVE m - s \in Nat
        OBVIOUS
    <2>2. PICK s \in S : TRUE
        OBVIOUS
    <2>3. m - s \in M
        OBVIOUS
    <2> QED BY <2>1, <2>3
<1>2. PICK d \in M : \A e \in M : d <= e
    BY <1>1, FirstExists
<1>3. PICK s \in S : d = m - s
    OBVIOUS
<1>4. ASSUME NEW t \in S PROVE t <= s
    <2>1. m - s <= m - t
        BY <1>2, <1>3
    <2> QED BY <2>1
<1> QED BY <1>4

LEMMA PlacesAreNaturals ==
    /\ MaxOps * Width + Width - 1 \in Nat
    /\ Places \subseteq 0 .. (MaxOps * Width + Width - 1)
    /\ Places \subseteq Nat \ {0}
    /\ NoPlace \notin Places
BY QuakeOpsAssumption DEF Places, Width, NoPlace

LEMMA EarlierPlaces ==
    /\ \A s \in Places : s <= s
    /\ \A s, t \in Places : s < t => s <= t
    /\ \A s, t, u \in Places : s < t /\ t < u => s <= u
<1>1. \A s \in Places : s \in Nat
    BY PlacesAreNaturals
<1> QED BY <1>1

LEMMA FirstOfIsFirst ==
    ASSUME NEW S \in SUBSET Places
    PROVE  /\ S = {} => FirstOf(S) = NoPlace
           /\ S # {} => FirstOf(S) \in S /\ \A t \in S : FirstOf(S) <= t
<1>1. S # {} => \E s \in S : \A t \in S : s <= t
    BY FirstExists, PlacesAreNaturals
<1> QED BY <1>1 DEF FirstOf

LEMMA LastOfIsLast ==
    ASSUME NEW S \in SUBSET Places
    PROVE  /\ S = {} => LastOf(S) = NoPlace
           /\ S # {} => LastOf(S) \in S /\ \A t \in S : t <= LastOf(S)
<1>1. S # {} => \E s \in S : \A t \in S : t <= s
    BY LastExists, PlacesAreNaturals
<1> QED BY <1>1 DEF LastOf

\* getNextNode: the end, or an occupied place further on with none in between.
LEMMA NextNode ==
    ASSUME NEW b \in Block, NEW s \in Places \cup {NoPlace}
    PROVE  LET n == getNextNode(b, s)
           IN  n # NoPlace => n \in Places /\ n > s /\ b[n] # NoOp
<1>1. {t \in Occupied(b) : t > s} \in SUBSET Places
    BY DEF Occupied
<1> QED BY <1>1, FirstOfIsFirst DEF getNextNode, Occupied

\* getPreviousOperationOnTarget: nothing, or a gate at an earlier place.
LEMMA PreviousOperation ==
    ASSUME NEW b \in Block, NEW s, NEW w
    PROVE  LET p == getPreviousOperationOnTarget(b, s, w)
           IN  p # NoPlace => p \in Places /\ p < s /\ b[p] \in Op /\ b[p].gate \in Gates
<1> DEFINE S == {t \in Places :
                   t < s /\ ActsOnIndex(b[t], extractIndexFromQuakeExtractRefOp(w))}
<1>1. S \in SUBSET Places
    OBVIOUS
<1>2. ASSUME NEW t \in S PROVE t \in Places /\ t < s /\ b[t] \in Op /\ b[t].gate \in Gates
    BY DEF Block, ActsOnIndex, isOperator, NoOp, Gates
<1> QED BY <1>1, <1>2, LastOfIsLast DEF getPreviousOperationOnTarget

-----------------------------------------------------------------------------
(* Rewrites *)

\* What every callback owes the walk: it erases only gates that are not ahead of the
\* current place, and inserts at most five operations, all of them gates.
WellFormed(b, cur, r) ==
    /\ \A s \in r.erase : s \in Places /\ s <= cur /\ b[s].gate \in Gates
    /\ Len(r.insert) \in 0 .. 5
    /\ \A k \in 1 .. Len(r.insert) : r.insert[k] \in Op /\ r.insert[k].gate \in Gates
    /\ r.fault \in {"none", "null", "freed"}

LEMMA NothingIsWellFormed ==
    ASSUME NEW b, NEW cur
    PROVE  WellFormed(b, cur, NoRewrite) /\ WellFormed(b, cur, NullDereference)
BY DEF WellFormed, NoRewrite, NullDereference, Rewrite

LEMMA GateIsOp ==
    ASSUME NEW b \in Block, NEW s \in Places, b[s].gate \in Gates
    PROVE  b[s] \in Op
BY DEF Block, NoOp, Gates

LEMMA OneInserted ==
    ASSUME NEW b, NEW cur, NEW E, NEW op \in Op, op.gate \in Gates,
           \A s \in E : s \in Places /\ s <= cur /\ b[s].gate \in Gates
    PROVE  WellFormed(b, cur, Rewrite(E, <<op>>))
BY DEF WellFormed, Rewrite

LEMMA TwoInserted ==
    ASSUME NEW b, NEW cur, NEW E, NEW op1 \in Op, NEW op2 \in Op,
           op1.gate \in Gates, op2.gate \in Gates,
           \A s \in E : s \in Places /\ s <= cur /\ b[s].gate \in Gates
    PROVE  WellFormed(b, cur, Rewrite(E, <<op1, op2>>))
BY DEF WellFormed, Rewrite

LEMMA RetypedIsOp ==
    ASSUME NEW op \in Op, NEW g \in Gates
    PROVE  Retyped(op, g) \in Op /\ Retyped(op, g).gate = g
BY DEF Op, Retyped

LEMMA PlainIsOp ==
    ASSUME NEW g \in Gates, NEW cs \in Seq(Wires), NEW ts \in Seq(Wires)
    PROVE  Plain(g, cs, ts) \in Op /\ Plain(g, cs, ts).gate = g
BY DEF Op, Plain, Operation

\* The templates of Support/Transforms and the callbacks, one after the other.
LEMMA CancellationWellFormed ==
    ASSUME NEW b \in Block, NEW cur \in Places, NEW T1, NEW T2 \in Gates,
           NEW c1, NEW t1, NEW c2, NEW t2
    PROVE  WellFormed(b, cur, patternCancellation(b, cur, T1, T2, c1, t1, c2, t2))
<1> DEFINE prev == getPreviousOperationOnTarget(b, cur, b[cur].tgts[1])
<1>1. IsGate(b[cur], T2, c2, t2) /\ prev # NoPlace
        => WellFormed(b, cur, Rewrite({cur, prev}, <<>>))
    BY PreviousOperation, PlacesAreNaturals DEF WellFormed, Rewrite, IsGate
<1> QED BY <1>1, NothingIsWellFormed DEF patternCancellation

LEMMA CommuteWellFormed ==
    ASSUME NEW b \in Block, NEW cur \in Places, NEW T1, NEW T2 \in Gates,
           NEW c1, NEW t1, NEW c2, NEW t2
    PROVE  WellFormed(b, cur, commuteOperation(b, cur, T1, T2, c1, t1, c2, t2))
<1> DEFINE prev == getPreviousOperationOnTarget(b, cur, b[cur].tgts[1])
<1>1. ASSUME IsGate(b[cur], T2, c2, t2), prev # NoPlace
      PROVE  WellFormed(b, cur, Rewrite({cur, prev}, <<b[cur], b[prev]>>))
    <2>1. b[cur].gate \in Gates /\ b[cur] \in Op
        BY <1>1, GateIsOp DEF IsGate
    <2>2. prev \in Places /\ prev < cur /\ b[prev] \in Op /\ b[prev].gate \in Gates
        BY <1>1, PreviousOperation
    <2>3. \A s \in {cur, prev} : s \in Places /\ s <= cur /\ b[s].gate \in Gates
        BY <2>1, <2>2, EarlierPlaces
    <2> QED BY <2>1, <2>2, <2>3, TwoInserted
<1> QED BY <1>1, NothingIsWellFormed DEF commuteOperation

LEMMA SwitchWellFormed ==
    ASSUME NEW b \in Block, NEW cur \in Places,
           NEW T1, NEW T2 \in Gates, NEW T3 \in Gates, NEW T4 \in Gates
    PROVE  WellFormed(b, cur, patternSwitch(b, cur, T1, T2, T3, T4))
<1> DEFINE prev == getPreviousOperationOnTarget(b, cur, b[cur].tgts[1])
<1>1. ASSUME IsGate(b[cur], T2, 0, 1), prev # NoPlace
      PROVE  WellFormed(b, cur,
                        Rewrite({cur, prev}, <<Retyped(b[cur], T3), Retyped(b[prev], T4)>>))
    <2>1. b[cur].gate \in Gates /\ b[cur] \in Op
        BY <1>1, GateIsOp DEF IsGate
    <2>2. prev \in Places /\ prev < cur /\ b[prev] \in Op /\ b[prev].gate \in Gates
        BY <1>1, PreviousOperation
    <2>3. \A s \in {cur, prev} : s \in Places /\ s <= cur /\ b[s].gate \in Gates
        BY <2>1, <2>2, EarlierPlaces
    <2>4. /\ Retyped(b[cur], T3) \in Op /\ Retyped(b[cur], T3).gate \in Gates
          /\ Retyped(b[prev], T4) \in Op /\ Retyped(b[prev], T4).gate \in Gates
        BY <2>1, <2>2, RetypedIsOp
    <2> QED BY <2>3, <2>4, TwoInserted
<1> QED BY <1>1, NothingIsWellFormed DEF patternSwitch


LEMMA ReductionWellFormed ==
    ASSUME NEW b \in Block, NEW cur \in Places
    PROVE  WellFormed(b, cur, ReductionPattern(b, cur))
<1> DEFINE call(k) == patternCancellation(b, cur, ReductionCalls[k][1], ReductionCalls[k][1],
                                          ReductionCalls[k][2], 1, ReductionCalls[k][2], 1)
           hits == {k \in DOMAIN ReductionCalls : call(k) # NoRewrite}
           hit == FirstOf(hits)
<1>1. hits \in SUBSET (1 .. 8)
    BY DEF ReductionCalls
<1>2. \A k \in 1 .. 8 : ReductionCalls[k][1] \in Gates
    BY DEF ReductionCalls, Gates
<1>3. \A k \in 1 .. 8 : WellFormed(b, cur, call(k))
    BY <1>2, CancellationWellFormed
<1>4. hit # NoPlace => hit \in 1 .. 8
    <2>1. hits # {} => \E s \in hits : \A t \in hits : s <= t
        BY <1>1, FirstExists
    <2> QED BY <1>1, <2>1 DEF FirstOf
<1>5. ASSUME NEW k \in 1 .. 8, NEW f \in {"none", "null", "freed"}
      PROVE  WellFormed(b, cur, [call(k) EXCEPT !.fault = f])
    <2>1. /\ DOMAIN call(k) = {"erase", "insert", "fault"}
          /\ call(k).fault \in {"none", "null", "freed"}
        BY DEF patternCancellation, NoRewrite, Rewrite
    <2>2. /\ [call(k) EXCEPT !.fault = f].erase = call(k).erase
          /\ [call(k) EXCEPT !.fault = f].insert = call(k).insert
          /\ [call(k) EXCEPT !.fault = f].fault = f
        BY <2>1
    <2> QED BY <1>3, <2>2 DEF WellFormed
<1>6. \A k \in 1 .. 8 : call(k).fault \in {"none", "null", "freed"}
    BY <1>3 DEF WellFormed
<1> QED BY <1>4, <1>5, <1>6, NothingIsWellFormed DEF ReductionPattern

LEMMA CommuteZWellFormed ==
    ASSUME NEW b \in Block, NEW cur \in Places
    PROVE  /\ WellFormed(b, cur, commuteCNotZ(b, cur))
           /\ WellFormed(b, cur, commuteZCNot(b, cur))
<1>1. ASSUME NEW w,
             getPreviousOperationOnTarget(b, cur, w) # NoPlace
      PROVE  LET prev == getPreviousOperationOnTarget(b, cur, w)
             IN  WellFormed(b, cur, Rewrite({prev}, <<b[prev]>>))
    <2> DEFINE prev == getPreviousOperationOnTarget(b, cur, w)
    <2>1. prev \in Places /\ prev < cur /\ b[prev] \in Op /\ b[prev].gate \in Gates
        BY <1>1, PreviousOperation
    <2>2. \A s \in {prev} : s \in Places /\ s <= cur /\ b[s].gate \in Gates
        BY <2>1, EarlierPlaces
    <2> QED BY <2>1, <2>2, OneInserted
<1> QED BY <1>1, NothingIsWellFormed DEF commuteCNotZ, commuteZCNot

LEMMA HPauliHWellFormed ==
    ASSUME NEW b \in Block, NEW cur \in Places, NEW m, NEW g \in Gates
    PROVE  WellFormed(b, cur, ReplaceHPauliH(b, cur, m, g))
<1> DEFINE w == b[cur].tgts[1]
           prev == getPreviousOperationOnTarget(b, cur, w)
           prevPrev == getPreviousOperationOnTarget(b, prev, w)
           new == Operation(g, FALSE, <<>>, b[cur].ctrls, b[cur].tgts)
<1>1. ASSUME IsGate(b[cur], "h", 0, 1), prev # NoPlace, prevPrev # NoPlace
      PROVE  WellFormed(b, cur, Rewrite({cur, prev, prevPrev}, <<new>>))
    <2>1. b[cur].gate \in Gates /\ b[cur] \in Op
        BY <1>1, GateIsOp DEF IsGate, Gates
    <2>2. prev \in Places /\ prev < cur /\ b[prev].gate \in Gates
        BY <1>1, PreviousOperation
    <2>3. prevPrev \in Places /\ prevPrev < prev /\ b[prevPrev].gate \in Gates
        BY <1>1, PreviousOperation
    <2>4. prevPrev <= cur /\ prev <= cur /\ cur <= cur
        BY <2>2, <2>3, EarlierPlaces
    <2>5. \A s \in {cur, prev, prevPrev} : s \in Places /\ s <= cur /\ b[s].gate \in Gates
        BY <2>1, <2>2, <2>3, <2>4
    <2>6. new \in Op /\ new.gate \in Gates
        BY <2>1 DEF Op, Operation
    <2> QED BY <2>5, <2>6, OneInserted
<1> QED BY <1>1, NothingIsWellFormed DEF ReplaceHPauliH

LEMMA SwitchPauliHWellFormed ==
    ASSUME NEW b \in Block, NEW cur \in Places
    PROVE  WellFormed(b, cur, SwitchPauliHOperation(b, cur))
<1> DEFINE prev == getPreviousOperationOnTarget(b, cur, b[cur].tgts[1])
           new == Retyped(b[prev], ThroughH[b[prev].gate])
<1>1. ASSUME prev # NoPlace, b[prev].gate \in DOMAIN ThroughH
      PROVE  WellFormed(b, cur, Rewrite({prev}, <<new>>))
    <2>1. prev \in Places /\ prev < cur /\ b[prev] \in Op /\ b[prev].gate \in Gates
        BY <1>1, PreviousOperation
    <2>2. \A s \in {prev} : s \in Places /\ s <= cur /\ b[s].gate \in Gates
        BY <2>1, EarlierPlaces
    <2>3. ThroughH[b[prev].gate] \in Gates
        BY <1>1 DEF ThroughH, Gates
    <2>4. new \in Op /\ new.gate \in Gates
        BY <2>1, <2>3, RetypedIsOp
    <2> QED BY <2>2, <2>4, OneInserted
<1> QED BY <1>1, NothingIsWellFormed DEF SwitchPauliHOperation

LEMMA NullRotationWellFormed ==
    ASSUME NEW b \in Block, NEW cur \in Places
    PROVE  WellFormed(b, cur, nullRotationCancellation(b, cur))
<1>1. b[cur].gate \in Rotations => WellFormed(b, cur, Rewrite({cur}, <<>>))
    BY PlacesAreNaturals DEF WellFormed, Rewrite, Rotations, Gates
<1> QED BY <1>1, NothingIsWellFormed DEF nullRotationCancellation

LEMMA NormalizeWellFormed ==
    ASSUME NEW b \in Block, NEW cur \in Places
    PROVE  WellFormed(b, cur, normalizeAngleOfRotations(b, cur))
<1> DEFINE old == b[cur].params
           params == [i \in DOMAIN old |-> NormalizedAngle(old[i])]
           new == [b[cur] EXCEPT !.params = params]
<1>1. ASSUME b[cur].gate \in Rotations
      PROVE  WellFormed(b, cur, Rewrite({cur}, <<new>>))
    <2>1. b[cur].gate \in Gates
        BY <1>1 DEF Rotations, Gates
    <2>2. b[cur] \in Op
        BY <2>1, GateIsOp
    <2>3. \A p \in Params : NormalizedAngle(p) \in Params
        BY DEF NormalizedAngle, createFloatValue, extractDoubleArgumentValue, AsFloat,
               Params, FullTurn, MinusOneRadian
    <2>4. params \in Seq(Params)
        <3>1. old \in Seq(Params)
            BY <2>2 DEF Op
        <3>2. PICK n \in Nat : old \in [1 .. n -> Params]
            BY <3>1
        <3>3. params \in [1 .. n -> Params]
            BY <3>2, <2>3
        <3> QED BY <3>3
    <2>5. new \in Op /\ new.gate = b[cur].gate
        BY <2>2, <2>4 DEF Op
    <2>6. \A s \in {cur} : s \in Places /\ s <= cur /\ b[s].gate \in Gates
        BY <2>1, EarlierPlaces
    <2> QED BY <2>1, <2>5, <2>6, OneInserted
<1> QED BY <1>1, NothingIsWellFormed DEF normalizeAngleOfRotations

LEMMA ReplaceSZWellFormed ==
    ASSUME NEW b \in Block, NEW cur \in Places, NEW adj \in BOOLEAN
    PROVE  WellFormed(b, cur, ReplaceSZ(b, cur, adj))
<1> DEFINE prev == getPreviousOperationOnTarget(b, cur, b[cur].tgts[1])
           new == [b[prev] EXCEPT !.adj = ~ adj]
<1>1. ASSUME IsGate(b[cur], "z", 0, 1), prev # NoPlace
      PROVE  WellFormed(b, cur, Rewrite({cur, prev}, <<new>>))
    <2>1. b[cur].gate \in Gates
        BY <1>1 DEF IsGate, Gates
    <2>2. prev \in Places /\ prev < cur /\ b[prev] \in Op /\ b[prev].gate \in Gates
        BY <1>1, PreviousOperation
    <2>3. \A s \in {cur, prev} : s \in Places /\ s <= cur /\ b[s].gate \in Gates
        BY <2>1, <2>2, EarlierPlaces
    <2>4. new \in Op /\ new.gate \in Gates
        BY <2>2 DEF Op
    <2> QED BY <2>3, <2>4, OneInserted
<1> QED BY <1>1, NothingIsWellFormed DEF ReplaceSZ

\* The decompositions of one two-qubit gate (lib/Passes/Decompositions).
LEMMA DecompositionsWellFormed ==
    ASSUME NEW b \in Block, NEW cur \in Places
    PROVE  /\ WellFormed(b, cur, CxToHCzHPattern(b, cur))
           /\ WellFormed(b, cur, ReplaceCzToHCxH(b, cur))
           /\ WellFormed(b, cur, ReverseCNot(b, cur))
<1> DEFINE cs == b[cur].ctrls
           ts == b[cur].tgts
<1>1. ASSUME b[cur].gate \in Gates
      PROVE  /\ WellFormed(b, cur, Rewrite({cur},
                   <<Plain("h", <<>>, ts), Plain("z", ts, cs), Plain("h", <<>>, ts)>>))
             /\ WellFormed(b, cur, Rewrite({cur},
                   <<Plain("h", <<>>, ts), Plain("x", cs, ts), Plain("h", <<>>, ts)>>))
             /\ WellFormed(b, cur, Rewrite({cur},
                   <<Plain("h", <<>>, ts), Plain("h", <<>>, cs), Plain("x", ts, cs),
                     Plain("h", <<>>, ts), Plain("h", <<>>, cs)>>))
    <2>1. cs \in Seq(Wires) /\ ts \in Seq(Wires) /\ <<>> \in Seq(Wires)
        BY <1>1, GateIsOp DEF Op
    <2>2. \A s \in {cur} : s \in Places /\ s <= cur /\ b[s].gate \in Gates
        BY <1>1, EarlierPlaces
    <2>3. "h" \in Gates /\ "x" \in Gates /\ "z" \in Gates
        BY DEF Gates
    <2>4. \A g \in Gates, us \in Seq(Wires), vs \in Seq(Wires) :
             Plain(g, us, vs) \in Op /\ Plain(g, us, vs).gate \in Gates
        BY PlainIsOp
    <2>5. /\ Plain("h", <<>>, ts) \in Op /\ Plain("h", <<>>, ts).gate \in Gates
          /\ Plain("h", <<>>, cs) \in Op /\ Plain("h", <<>>, cs).gate \in Gates
          /\ Plain("z", ts, cs) \in Op /\ Plain("z", ts, cs).gate \in Gates
          /\ Plain("x", cs, ts) \in Op /\ Plain("x", cs, ts).gate \in Gates
          /\ Plain("x", ts, cs) \in Op /\ Plain("x", ts, cs).gate \in Gates
        BY <2>1, <2>3, <2>4
    <2> QED BY <2>2, <2>5 DEF WellFormed, Rewrite
<1>2. \A g : IsGate(b[cur], g, 1, 1) => b[cur].gate = g
    BY DEF IsGate
<1>3. "x" \in Gates /\ "z" \in Gates
    BY DEF Gates
<1> QED BY <1>1, <1>2, <1>3, NothingIsWellFormed
       DEF CxToHCzHPattern, ReplaceCzToHCxH, ReverseCNot

LEMMA CallbackWellFormed ==
    ASSUME NEW b \in Block, NEW cur \in Places, NEW p \in PassNames
    PROVE  WellFormed(b, cur, Callback(p, b, cur))
<1>1. {"x", "y", "z", "h", "s", "rx"} \subseteq Gates
    BY DEF Gates
<1>2. CASE p \in {"CancellationDoubleCx", "ReductionPattern"}
    BY <1>1, <1>2, CancellationWellFormed, ReductionWellFormed DEF Callback, CancellationDoubleCx
<1>3. CASE p \in {"CancellationNullRotation", "NormalizeArgAngle"}
    BY <1>3, NullRotationWellFormed, NormalizeWellFormed DEF Callback
<1>4. CASE p \in {"CommuteCxRx", "CommuteCxX", "CommuteRxCx", "CommuteXCx"}
    BY <1>1, <1>4, CommuteWellFormed
       DEF Callback, CommuteCxRx, CommuteCxX, CommuteRxCx, CommuteXCx
<1>5. CASE p \in {"CommuteCxZ", "CommuteZCx"}
    BY <1>5, CommuteZWellFormed DEF Callback
<1>6. CASE p \in {"HXHToZ", "HZHToX"}
    BY <1>1, <1>6, HPauliHWellFormed DEF Callback, ReplaceHXHToZ, ReplaceHZHToX
<1>7. CASE p \in {"SwitchHX", "SwitchHY", "SwitchHZ"}
    BY <1>1, <1>7, SwitchWellFormed DEF Callback, SwitchHX, SwitchHY, SwitchHZ
<1>8. CASE p \in {"SwitchXH", "SwitchYH", "SwitchZH"}
    BY <1>1, <1>8, SwitchWellFormed DEF Callback, SwitchXH, SwitchYH, SwitchZH
<1>9. CASE p = "SwitchPauliH"
    BY <1>9, SwitchPauliHWellFormed DEF Callback
<1>10. CASE p \in {"CxToHCzH", "CzToHCxH", "ReverseCx"}
    BY <1>10, DecompositionsWellFormed DEF Callback
<1>11. CASE p \in {"SAdjZToS", "SZToSAdj"}
    BY <1>11, ReplaceSZWellFormed DEF Callback, ReplaceSAdjZToS, ReplaceSZToSAdj
<1> QED BY <1>2, <1>3, <1>4, <1>5, <1>6, <1>7, <1>8, <1>9, <1>10, <1>11 DEF PassNames

-----------------------------------------------------------------------------
(* The block and the walk *)

\* What holds between the circuit c a block was loaded with, the block b and the iterator
\* n a walk over it has saved: the iterator points at an operation of the block; from it
\* on the block is the circuit; what is no gate is where it was.
MeetsInput(c, b, n) ==
    /\ b \in Block
    /\ n \in Places \cup {NoPlace}
    /\ n # NoPlace => b[n] # NoOp
    /\ n # NoPlace => \A s \in Places : s >= n => b[s] = Load(c)[s]
    /\ \A s \in Places :
         {b[s].gate, Load(c)[s].gate} \cap NonGates # {} => b[s] = Load(c)[s]

LEMMA LoadIsBlock ==
    ASSUME NEW c \in Seq(Op), Len(c) <= MaxOps
    PROVE  /\ Load(c) \in Block
           /\ \A s \in Places : Load(c)[s] # NoOp => IsHome(s)
<1>2. ASSUME NEW s \in Places, IsHome(s), s \div Width <= Len(c)
      PROVE  c[s \div Width] \in Op
    <2>1. s \in Int /\ s >= 6
        BY QuakeOpsAssumption DEF Places, Width
    <2>2. s \div Width \in 1 .. Len(c)
        BY <1>2, <2>1 DEF Width
    <2> QED BY <2>2
<1>3. Load(c) \in Block
    BY <1>2 DEF Load, Block
<1>4. \A s \in Places : Load(c)[s] # NoOp => IsHome(s)
    BY DEF Load
<1> QED BY <1>3, <1>4

\* The walk begins on the circuit.
LEMMA FirstNode ==
    ASSUME NEW c \in Seq(Op), Len(c) <= MaxOps
    PROVE  MeetsInput(c, Load(c), getNextNode(Load(c), NoPlace))
<1>1. Load(c) \in Block
    BY LoadIsBlock
<1> DEFINE n == getNextNode(Load(c), NoPlace)
<1>2. n # NoPlace => n \in Places /\ Load(c)[n] # NoOp
    BY <1>1, NextNode
<1> HIDE DEF n
<1>3. MeetsInput(c, Load(c), n)
    BY <1>1, <1>2 DEF MeetsInput
<1> QED BY <1>3 DEF n

\* Behind the place of the current operation only the five places up to the next
\* operation of the input are written.
LEMMA InsertedBeforeNext ==
    ASSUME NEW cur \in Places, IsHome(cur), NEW n \in Places, IsHome(n), n > cur
    PROVE  /\ n > cur + 5
           /\ \A k \in 1 .. 5 : cur + k \in Places /\ ~ IsHome(cur + k)
<1>1. cur \in Nat /\ n \in Nat /\ cur % 6 = 0 /\ n % 6 = 0
    BY PlacesAreNaturals DEF IsHome, Width
<1>2. n > cur + 5
    BY <1>1
<1>3. \A k \in 1 .. 5 : (cur + k) % 6 # 0
    BY <1>1
<1>4. \A k \in 1 .. 5 : cur + k \in Places
    BY <1>1, <1>2, QuakeOpsAssumption DEF Places, Width
<1> QED BY <1>2, <1>3, <1>4 DEF IsHome, Width

LEMMA InsertedIsNoHome ==
    ASSUME NEW cur \in Places, IsHome(cur), NEW s \in Places, s > cur, s <= cur + 5
    PROVE  ~ IsHome(s)
<1>1. cur \in Nat /\ s \in Nat /\ cur % 6 = 0
    BY PlacesAreNaturals DEF IsHome, Width
<1>2. s % 6 # 0
    BY <1>1
<1> QED BY <1>2 DEF IsHome, Width

\* A step of the walk with a well-formed rewrite stays on the input.
LEMMA RewrittenMeetsInput ==
    ASSUME NEW c \in Seq(Op), Len(c) <= MaxOps, NEW b, NEW next, next # NoPlace,
           MeetsInput(c, b, next),
           NEW r, WellFormed(b, next, r)
    PROVE  MeetsInput(c, Rewritten(b, next, r), getNextNode(b, next))
<1> DEFINE n == Len(r.insert)
           old == Load(c)
           new == Rewritten(b, next, r)
           after == getNextNode(b, next)
<1>1. /\ next \in Places /\ next \in Nat /\ IsHome(next) /\ b \in Block /\ old \in Block
    BY LoadIsBlock, PlacesAreNaturals DEF MeetsInput
<1>2. /\ \A s \in r.erase : s \in Places /\ s <= next /\ b[s].gate \in Gates
      /\ n \in 0 .. 5
      /\ \A k \in 1 .. n : r.insert[k] \in Op /\ r.insert[k].gate \in Gates
    BY <1>1 DEF WellFormed
<1>3. \A s \in Places : s \in Nat
    BY PlacesAreNaturals
<1>4. \A s \in Places :
        \/ /\ s > next /\ s <= next + n /\ new[s] \in Op /\ new[s].gate \in Gates
        \/ /\ ~ (s > next /\ s <= next + n)
           /\ s \in r.erase
           /\ new[s] = NoOp
        \/ /\ ~ (s > next /\ s <= next + n)
           /\ s \notin r.erase
           /\ new[s] = b[s]
    <2> TAKE s \in Places
    <2>1. CASE s > next /\ s <= next + n
        <3>1. s - next \in 1 .. n
            <4>1. s \in Nat /\ next \in Nat
                BY <1>1, <1>3
            <4>2. n \in Nat
                BY <1>2
            <4> HIDE DEF n
            <4> QED BY <2>1, <4>1, <4>2
        <3>2. new[s] = r.insert[s - next]
            BY <2>1 DEF Rewritten
        <3> QED BY <1>2, <2>1, <3>1, <3>2
    <2>2. CASE ~ (s > next /\ s <= next + n)
        BY <2>2 DEF Rewritten
    <2> QED BY <2>1, <2>2
<1>5. new \in Block
    <2>1. new = [s \in Places |-> new[s]]
        BY DEF Rewritten
    <2>2. \A s \in Places : new[s] \in Op \cup {NoOp}
        BY <1>1, <1>4 DEF Block
    <2> QED BY <2>1, <2>2 DEF Block
<1>6. after # NoPlace => /\ after \in Places /\ after > next /\ b[after] # NoOp
                         /\ old[after] = b[after] /\ IsHome(after) /\ after > next + 5
    <2>2. after # NoPlace => after \in Places /\ after > next /\ b[after] # NoOp
        BY <1>1, NextNode
    <2>3. after # NoPlace => old[after] = b[after]
        <3>2. ASSUME after # NoPlace PROVE after >= next
            <4>1. next \in Nat /\ after \in Nat /\ after > next
                BY <1>1, <1>3, <2>2, <3>2
            <4> HIDE DEF after
            <4> QED BY <4>1
        <3> QED BY <2>2, <3>2 DEF MeetsInput
    <2>4. after # NoPlace => IsHome(after)
        BY <2>2, <2>3, LoadIsBlock
    <2> HIDE DEF after
    <2> QED BY <1>1, <2>2, <2>3, <2>4, InsertedBeforeNext
<1>8. \A s \in Places : s > next + 5 => new[s] = b[s]
    <2> SUFFICES ASSUME NEW s \in Places, s > next + 5
                 PROVE  new[s] = b[s]
        OBVIOUS
    <2>1. ~ (s <= next + n) /\ ~ (s <= next)
        <3>1. s \in Nat /\ next \in Nat
            BY <1>1, <1>3
        <3>2. n \in 0 .. 5
            BY <1>2
        <3> HIDE DEF n
        <3>3. n \in Nat /\ n <= 5
            BY <3>2
        <3> QED BY <3>1, <3>3
    <2> QED BY <1>2, <1>4, <2>1
<1>9. after # NoPlace => new[after] # NoOp
    BY <1>6, <1>8
<1>10. ASSUME after # NoPlace, NEW s \in Places, s >= after
       PROVE  new[s] = old[s]
    <2>1. s > next + 5 /\ s >= next
        <3>1. s \in Nat /\ next \in Nat /\ after \in Nat /\ after > next + 5
            BY <1>1, <1>3, <1>6, <1>10
        <3> HIDE DEF after
        <3> QED BY <1>10, <3>1
    <2>2. b[s] = old[s]
        BY <1>1, <2>1 DEF MeetsInput
    <2> QED BY <1>8, <2>1, <2>2
<1>11. ASSUME NEW s \in Places, {new[s].gate, old[s].gate} \cap NonGates # {}
       PROVE  new[s] = old[s]
    <2>1. CASE s > next /\ s <= next + n /\ new[s] \in Op /\ new[s].gate \in Gates
        <3>1. s <= next + 5
            <4>1. s \in Nat /\ next \in Nat
                BY <1>1, <1>3
            <4>2. n \in 0 .. 5
                BY <1>2
            <4> HIDE DEF n
            <4>3. n \in Nat /\ n <= 5
                BY <4>2
            <4> QED BY <2>1, <4>1, <4>3
        <3>2. ~ IsHome(s)
            BY <1>1, <2>1, <3>1, InsertedIsNoHome
        <3>3. old[s].gate = "none"
            BY <3>2, LoadIsBlock DEF NoOp
        <3> QED BY <1>11, <2>1, <3>3 DEF Gates, NonGates
    <2>2. CASE s \in r.erase /\ new[s] = NoOp
        <3>1. old[s].gate \in NonGates
            BY <1>11, <2>2 DEF NoOp, NonGates
        <3>2. b[s] = old[s]
            BY <3>1 DEF MeetsInput
        <3> QED BY <1>2, <2>2, <3>1, <3>2 DEF Gates, NonGates
    <2>3. CASE new[s] = b[s]
        BY <1>11, <2>3 DEF MeetsInput
    <2> QED BY <1>4, <2>1, <2>2, <2>3
<1> HIDE DEF new, after, old
<1>12. after \in Places \cup {NoPlace}
    BY <1>6
<1>13. MeetsInput(c, new, after)
    BY <1>5, <1>9, <1>10, <1>11, <1>12 DEF MeetsInput, old
<1> QED BY <1>13 DEF new, after
=============================================================================
