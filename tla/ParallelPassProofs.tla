------------------------- MODULE ParallelPassProofs -------------------------
(***************************************************************************)
(* A pass over a module, for every number of functions and of threads:     *)
(* every kernel is walked by one thread at a time and once, its walk meets *)
(* the body of that kernel and nothing else, in the steps of KernelPass,   *)
(* and when runOnOperation returns either every kernel has been walked to  *)
(* its end or nothing has been touched.                                    *)
(***************************************************************************)
EXTENDS ParallelPass, PassLemmas, FiniteSetTheorems

-----------------------------------------------------------------------------
(* The invariant *)

\* Every walk is on the body of its function.
WalksMeetTheirInput ==
    \A f \in DOMAIN module : MeetsInput(module[f].body, walk[f].blk, walk[f].next)

\* The list of the kernels: each once, no other function, none missing.
KernelsListed ==
    /\ \A i, j \in 1 .. Len(kernels) : kernels[i] = kernels[j] => i = j
    /\ \A i \in 1 .. Len(kernels) : IsQuantumKernel(module[kernels[i]])
    /\ phase \in {"process", "done", "crashed"} =>
         \A f \in DOMAIN module :
           IsQuantumKernel(module[f]) => \E i \in 1 .. Len(kernels) : kernels[i] = f
    /\ phase \in {"collect", "failed"} => kernels = <<>>

\* What a thread works on is of the part of the list that has been handed out.
ClaimsHandedOut ==
    \A t \in Threads : claimed[t] # 0 => \E i \in 1 .. curIndex : kernels[i] = claimed[t]

\* What has not been handed out is as it was.
RestAsGiven ==
    \A f \in DOMAIN module : (\A i \in 1 .. curIndex : kernels[i] # f) =>
      walk[f].blk = Load(module[f].body)

\* What has been handed out and is held by no thread is done.
ReleasedIsDone ==
    \A i \in 1 .. curIndex : (\A t \in Threads : claimed[t] # kernels[i]) =>
      walk[kernels[i]].status = "done" /\ walk[kernels[i]].next = NoPlace

\* The threads are waited for.
JoinedIsIdle ==
    phase = "done" => curIndex = Len(kernels) /\ \A t \in Threads : claimed[t] = 0

IInv ==
    /\ TypeOK
    /\ WalksMeetTheirInput
    /\ KernelsListed
    /\ ClaimsHandedOut
    /\ OneWalkPerKernel
    /\ RestAsGiven
    /\ ReleasedIsDone
    /\ JoinedIsIdle

-----------------------------------------------------------------------------
(* Lemmas *)

\* The list getQuakeKernels returns enumerates the set it is made of.
LEMMA InOrderEnumerates ==
    ASSUME NEW K, IsFiniteSet(K), \A f \in K : f \in Nat, NEW s \in InOrder(K)
    PROVE  /\ s \in Seq(K)
           /\ \A i, j \in 1 .. Len(s) : s[i] = s[j] => i = j
           /\ \A f \in K : \E i \in 1 .. Len(s) : s[i] = f
<1>1. Cardinality(K) \in Nat
    BY FS_CardinalityType
<1> DEFINE k == Cardinality(K)
<1>2. s \in [1 .. k -> K] /\ k \in Nat
    BY <1>1 DEF InOrder
<1>3. /\ \A f \in K : \E i \in DOMAIN s : s[i] = f
      /\ \A i, j \in DOMAIN s : i < j => s[i] < s[j]
    BY DEF InOrder
<1> HIDE DEF k
<1>4. s \in Seq(K) /\ Len(s) = k /\ DOMAIN s = 1 .. k
    BY <1>2
<1>5. ASSUME NEW i \in 1 .. k, NEW j \in 1 .. k, s[i] = s[j]
      PROVE  i = j
    <2>1. s[i] \in Nat /\ s[j] \in Nat
        BY <1>2, <1>5
    <2>2. i < j => s[i] < s[j]
        BY <1>3, <1>4
    <2>3. j < i => s[j] < s[i]
        BY <1>3, <1>4
    <2> QED BY <1>2, <1>5, <2>1, <2>2, <2>3
<1> QED BY <1>3, <1>4, <1>5

\* What the assumption says of the functions of a module.
LEMMA FunctionsOfModule ==
    ASSUME NEW m \in Modules
    PROVE  /\ Len(m) \in Nat /\ DOMAIN m = 1 .. Len(m) /\ 0 \notin DOMAIN m
           /\ \A f \in DOMAIN m : m[f].body \in Seq(Op) /\ Len(m[f].body) <= MaxOps
<1>1. m \in Seq(FuncOp)
    BY ParallelPassAssumption
<1>2. Len(m) \in Nat /\ DOMAIN m = 1 .. Len(m) /\ 0 \notin DOMAIN m
    BY <1>1
<1>3. ASSUME NEW f \in DOMAIN m
      PROVE  m[f].body \in Seq(Op) /\ Len(m[f].body) <= MaxOps
    <2>1. m[f] \in FuncOp
        BY <1>1
    <2>2. m[f].body \in {c \in Seq(Op) : Len(c) <= MaxOps}
        BY <2>1 DEF FuncOp
    <2> QED BY <2>2
<1> QED BY <1>2, <1>3

\* getQuakeKernels: the quantum kernels of the module, each once and none missing.
LEMMA KernelsFound ==
    ASSUME NEW m \in Modules, NEW found \in getQuakeKernels(m)
    PROVE  LET s == found.kernels
           IN  /\ s \in Seq(DOMAIN m) /\ Len(s) \in Nat
               /\ \A i, j \in 1 .. Len(s) : s[i] = s[j] => i = j
               /\ \A i \in 1 .. Len(s) : IsQuantumKernel(m[s[i]])
               /\ \A f \in DOMAIN m :
                    IsQuantumKernel(m[f]) => \E i \in 1 .. Len(s) : s[i] = f
<1>0. PICK K : K = {f \in DOMAIN m : IsQuantumKernel(m[f])}
    OBVIOUS
<1>1. PICK s \in InOrder(K) :
        found = [kernels |-> s, interrupted |-> \E f \in DOMAIN m : HasControlledApply(m[f])]
    BY <1>0, Zenon DEF getQuakeKernels
<1>2. found.kernels = s
    BY <1>1
<1>3. Len(m) \in Nat /\ DOMAIN m = 1 .. Len(m)
    BY FunctionsOfModule
<1>4. IsFiniteSet(K) /\ \A f \in K : f \in Nat
    <2>1. IsFiniteSet(1 .. Len(m))
        BY <1>3, FS_Interval
    <2>2. K \in SUBSET (1 .. Len(m))
        BY <1>0, <1>3
    <2>3. IsFiniteSet(K)
        BY <2>1, <2>2, FS_Subset
    <2> QED BY <1>3, <2>2, <2>3
<1>5. /\ s \in Seq(K)
      /\ \A i, j \in 1 .. Len(s) : s[i] = s[j] => i = j
      /\ \A f \in K : \E i \in 1 .. Len(s) : s[i] = f
    BY <1>1, <1>4, InOrderEnumerates
<1>6. Len(s) \in Nat /\ \A i \in 1 .. Len(s) : s[i] \in K
    BY <1>5
<1>7. \A f \in K : f \in DOMAIN m /\ IsQuantumKernel(m[f])
    BY <1>0
<1>8. \A f \in DOMAIN m : IsQuantumKernel(m[f]) => f \in K
    BY <1>0
<1>9. s \in Seq(DOMAIN m)
    BY <1>5, <1>6, <1>7
<1> QED BY <1>2, <1>5, <1>6, <1>7, <1>8, <1>9

\* A walk that is about to begin.
LEMMA FirstVisitMeetsInput ==
    ASSUME NEW c \in Seq(Op), Len(c) <= MaxOps
    PROVE  LET w == FirstVisit(Load(c))
           IN  /\ w.blk = Load(c)
               /\ MeetsInput(c, w.blk, w.next)
               /\ w \in [blk : Block, next : Places \cup {NoPlace},
                          status : {"running", "done", "crashed"}]
<1>1. MeetsInput(c, Load(c), getNextNode(Load(c), NoPlace))
    BY FirstNode
<1> QED BY <1>1 DEF FirstVisit, MeetsInput

LEMMA OutcomesOfVisit ==
    ASSUME NEW fault, NEW status \in Outcomes(fault)
    PROVE  status \in {"running", "crashed"}
BY DEF Outcomes

LEMMA InitInvariant == Init => IInv
<1> SUFFICES ASSUME Init PROVE IInv
    OBVIOUS
<1>1. module \in Modules
    BY DEF Init
<1>2. ASSUME NEW f \in DOMAIN module
      PROVE  /\ walk[f] = FirstVisit(Load(module[f].body))
             /\ walk[f].blk = Load(module[f].body)
             /\ MeetsInput(module[f].body, walk[f].blk, walk[f].next)
             /\ walk[f] \in [blk : Block, next : Places \cup {NoPlace},
                             status : {"running", "done", "crashed"}]
    <2>1. walk[f] = FirstVisit(Load(module[f].body))
        BY DEF Init
    <2>2. module[f].body \in Seq(Op) /\ Len(module[f].body) <= MaxOps
        BY <1>1, FunctionsOfModule
    <2> QED BY <2>1, <2>2, FirstVisitMeetsInput
<1>3. WalksMeetTheirInput
    BY <1>2 DEF WalksMeetTheirInput
<1>4. TypeOK
    BY <1>2 DEF Init, TypeOK
<1> QED BY <1>2, <1>3, <1>4
        DEF Init, IInv, KernelsListed, ClaimsHandedOut, OneWalkPerKernel, RestAsGiven,
            ReleasedIsDone, JoinedIsIdle

-----------------------------------------------------------------------------
(* The steps *)

LEMMA CollectKeeps == IInv /\ Collect => IInv'
<1> SUFFICES ASSUME IInv, Collect PROVE IInv'
    OBVIOUS
<1>1. /\ phase = "collect" /\ kernels = <<>> /\ curIndex = 0
      /\ \A t \in Threads : claimed[t] = 0
    BY DEF Collect, IInv, TypeOK, KernelsListed, ClaimsHandedOut
<1>2. PICK found \in getQuakeKernels(module) :
        IF found.interrupted
        THEN phase' = "failed" /\ UNCHANGED kernels
        ELSE /\ kernels' = found.kernels
             /\ phase' = IF found.kernels = <<>> THEN "done" ELSE "process"
    BY DEF Collect
<1>3. UNCHANGED <<module, pass, curIndex, claimed, walk>>
    BY DEF Collect
<1>4. /\ found.kernels \in Seq(DOMAIN module) /\ Len(found.kernels) \in Nat
      /\ \A i, j \in 1 .. Len(found.kernels) :
           found.kernels[i] = found.kernels[j] => i = j
      /\ \A i \in 1 .. Len(found.kernels) : IsQuantumKernel(module[found.kernels[i]])
      /\ \A f \in DOMAIN module : IsQuantumKernel(module[f]) =>
           \E i \in 1 .. Len(found.kernels) : found.kernels[i] = f
    BY <1>2, KernelsFound DEF IInv, TypeOK
<1>5. CASE phase' = "failed" /\ UNCHANGED kernels
    BY <1>1, <1>3, <1>5
    DEF IInv, TypeOK, WalksMeetTheirInput, KernelsListed, ClaimsHandedOut,
        OneWalkPerKernel, RestAsGiven, ReleasedIsDone, JoinedIsIdle
<1>6. CASE /\ kernels' = found.kernels
           /\ phase' = IF found.kernels = <<>> THEN "done" ELSE "process"
    <2>1. kernels' \in Seq(DOMAIN module) /\ Len(kernels') \in Nat
        BY <1>4, <1>6
    <2>2. TypeOK'
        BY <1>1, <1>3, <1>6, <2>1 DEF IInv, TypeOK
    <2>3. KernelsListed'
        BY <1>3, <1>4, <1>6 DEF KernelsListed
    <2>4. JoinedIsIdle'
        BY <1>1, <1>3, <1>6 DEF JoinedIsIdle
    <2> QED BY <1>1, <1>3, <2>2, <2>3, <2>4
        DEF IInv, WalksMeetTheirInput, ClaimsHandedOut, OneWalkPerKernel, RestAsGiven,
            ReleasedIsDone
<1> QED BY <1>2, <1>5, <1>6

LEMMA ClaimKeeps == ASSUME NEW t \in Threads, IInv, Claim(t) PROVE IInv'
<1> DEFINE n == curIndex + 1
           f == kernels[n]
<1>1. /\ claimed[t] = 0
      /\ claimed' = [claimed EXCEPT ![t] = f]
      /\ walk' = [walk EXCEPT ![f] = FirstVisit(@.blk)]
      /\ curIndex' = n
      /\ phase = "process"
      /\ UNCHANGED <<module, pass, phase, kernels>>
    BY DEF Claim
<1>2. /\ curIndex \in Nat /\ Len(kernels) \in Nat
      /\ n \in 1 .. Len(kernels) /\ f \in DOMAIN module
      /\ curIndex' \in 0 .. Len(kernels)
      /\ \A i \in 1 .. n : i \in 1 .. curIndex \/ i = n
      /\ \A i \in 1 .. curIndex : i \in 1 .. Len(kernels) /\ i # n /\ i \in 1 .. n
    BY <1>1 DEF Claim, IInv, TypeOK
<1>3. f # 0
    BY <1>2, FunctionsOfModule DEF IInv, TypeOK
<1>4. \A i \in 1 .. curIndex : kernels[i] # f
    BY <1>2 DEF IInv, KernelsListed
<1>5. \A u \in Threads : claimed[u] # f
    BY <1>3, <1>4 DEF IInv, ClaimsHandedOut
<1>6. walk[f].blk = Load(module[f].body)
    BY <1>2, <1>4 DEF IInv, RestAsGiven
<1>7. /\ walk'[f] = FirstVisit(Load(module[f].body))
      /\ \A g \in DOMAIN module : g # f => walk'[g] = walk[g]
    BY <1>1, <1>2, <1>6 DEF IInv, TypeOK
<1>8. /\ walk'[f].blk = Load(module[f].body)
      /\ MeetsInput(module[f].body, walk'[f].blk, walk'[f].next)
      /\ walk'[f] \in [blk : Block, next : Places \cup {NoPlace},
                       status : {"running", "done", "crashed"}]
      /\ walk'[f].status = "running"
    <2>1. module[f].body \in Seq(Op) /\ Len(module[f].body) <= MaxOps
        BY <1>2, FunctionsOfModule DEF IInv, TypeOK
    <2>2. walk'[f].status = "running"
        BY <1>7 DEF FirstVisit
    <2> QED BY <1>7, <2>1, <2>2, FirstVisitMeetsInput
<1> HIDE DEF n, f
<1>9. TypeOK'
    <2>1. walk' \in [DOMAIN module -> [blk : Block, next : Places \cup {NoPlace},
                                       status : {"running", "done", "crashed"}]]
        BY <1>1, <1>2, <1>8 DEF IInv, TypeOK
    <2>2. claimed' \in [Threads -> DOMAIN module \cup {0}]
        BY <1>1, <1>2 DEF IInv, TypeOK
    <2> QED BY <1>1, <1>2, <2>1, <2>2 DEF IInv, TypeOK
<1>10. WalksMeetTheirInput'
    BY <1>1, <1>7, <1>8 DEF IInv, WalksMeetTheirInput
<1>11. KernelsListed'
    BY <1>1 DEF IInv, KernelsListed
<1>12. ClaimsHandedOut'
    BY <1>1, <1>2 DEF IInv, TypeOK, ClaimsHandedOut, f
<1>13. OneWalkPerKernel'
    BY <1>1, <1>5, <1>7, <1>8 DEF IInv, TypeOK, OneWalkPerKernel
<1>14. RestAsGiven'
    BY <1>1, <1>2, <1>7, <1>8 DEF IInv, RestAsGiven, f
<1>15. ReleasedIsDone'
    <2> SUFFICES ASSUME NEW i \in 1 .. n, \A u \in Threads : claimed'[u] # kernels[i]
                 PROVE  walk'[kernels[i]].status = "done" /\ walk'[kernels[i]].next = NoPlace
        BY <1>1 DEF ReleasedIsDone
    <2>1. i \in 1 .. curIndex
        BY <1>1, <1>2 DEF IInv, TypeOK, f
    <2>2. kernels[i] # f /\ kernels[i] \in DOMAIN module
        BY <1>2, <1>4, <2>1 DEF IInv, TypeOK
    <2>3. \A u \in Threads : claimed[u] # kernels[i]
        BY <1>1, <1>3, <2>2, FunctionsOfModule DEF IInv, TypeOK
    <2> QED BY <1>7, <2>1, <2>2, <2>3 DEF IInv, ReleasedIsDone
<1>16. JoinedIsIdle'
    BY <1>1 DEF JoinedIsIdle
<1> QED BY <1>9, <1>10, <1>11, <1>12, <1>13, <1>14, <1>15, <1>16 DEF IInv

LEMMA VisitKeeps == ASSUME NEW t \in Threads, IInv, Visit(t) PROVE IInv'
<1> DEFINE f == claimed[t]
<1>1. PICK k \in {walk[f]} :
        /\ k.next # NoPlace
        /\ \E r \in {Callback(pass, k.blk, k.next)} :
             \E status \in Outcomes(r.fault) :
               /\ walk' = [walk EXCEPT ![f] = [blk |-> Rewritten(k.blk, k.next, r),
                                              next |-> getNextNode(k.blk, k.next),
                                              status |-> status]]
               /\ phase' = IF status = "crashed" THEN "crashed" ELSE phase
    BY DEF Visit
<1> DEFINE c == module[f].body
           b == k.blk
           r == Callback(pass, b, k.next)
<1>2. PICK status \in Outcomes(r.fault) :
        /\ walk' = [walk EXCEPT ![f] = [blk |-> Rewritten(b, k.next, r),
                                       next |-> getNextNode(b, k.next),
                                       status |-> status]]
        /\ phase' = IF status = "crashed" THEN "crashed" ELSE phase
    BY <1>1
<1>3. /\ f \in DOMAIN module /\ f # 0
      /\ phase = "process" /\ phase' \in {"process", "crashed"}
      /\ UNCHANGED <<module, pass, kernels, curIndex, claimed>>
    BY <1>2 DEF Visit, IInv, TypeOK
<1>4. /\ b \in Block /\ k.next \in Places /\ pass \in PassNames
      /\ MeetsInput(c, b, k.next)
      /\ c \in Seq(Op) /\ Len(c) <= MaxOps
    <2>1. pass \in PassNames
        BY ParallelPassAssumption DEF IInv, TypeOK
    <2>2. MeetsInput(c, b, k.next)
        BY <1>1, <1>3 DEF IInv, WalksMeetTheirInput
    <2>3. c \in Seq(Op) /\ Len(c) <= MaxOps
        BY <1>3, FunctionsOfModule DEF IInv, TypeOK
    <2> QED BY <1>1, <2>1, <2>2, <2>3 DEF MeetsInput
<1>5. MeetsInput(c, Rewritten(b, k.next, r), getNextNode(b, k.next))
    <2>1. WellFormed(b, k.next, r)
        BY <1>4, CallbackWellFormed
    <2> HIDE DEF r, b, c
    <2> QED BY <1>1, <1>4, <2>1, RewrittenMeetsInput
<1>6. status \in {"running", "crashed"}
    BY OutcomesOfVisit
<1>7. /\ walk'[f].blk = Rewritten(b, k.next, r)
      /\ walk'[f].next = getNextNode(b, k.next)
      /\ walk'[f].status = status
      /\ \A g \in DOMAIN module : g # f => walk'[g] = walk[g]
    BY <1>2, <1>3 DEF IInv, TypeOK
<1>8. MeetsInput(c, walk'[f].blk, walk'[f].next)
    BY <1>5, <1>7
<1> HIDE DEF r, b, c
<1>9. TypeOK'
    <2>1. Rewritten(b, k.next, r) \in Block /\ getNextNode(b, k.next) \in Places \cup {NoPlace}
        BY <1>5 DEF MeetsInput
    <2>2. walk' \in [DOMAIN module -> [blk : Block, next : Places \cup {NoPlace},
                                       status : {"running", "done", "crashed"}]]
        BY <1>2, <1>3, <1>6, <2>1 DEF IInv, TypeOK
    <2> QED BY <1>3, <2>2 DEF IInv, TypeOK
<1>10. WalksMeetTheirInput'
    BY <1>3, <1>7, <1>8 DEF IInv, WalksMeetTheirInput, c
<1>11. KernelsListed'
    BY <1>3 DEF IInv, KernelsListed
<1>12. ClaimsHandedOut'
    BY <1>3 DEF IInv, ClaimsHandedOut
<1>13. OneWalkPerKernel'
    BY <1>3, <1>6, <1>7 DEF IInv, TypeOK, OneWalkPerKernel
<1>14. RestAsGiven'
    BY <1>3, <1>7 DEF IInv, RestAsGiven, ClaimsHandedOut
<1>15. ReleasedIsDone'
    <2> SUFFICES ASSUME NEW i \in 1 .. curIndex, \A u \in Threads : claimed[u] # kernels[i]
                 PROVE  walk'[kernels[i]].status = "done" /\ walk'[kernels[i]].next = NoPlace
        BY <1>3 DEF ReleasedIsDone
    <2>1. kernels[i] # f /\ kernels[i] \in DOMAIN module
        BY DEF IInv, TypeOK
    <2> QED BY <1>7, <2>1 DEF IInv, ReleasedIsDone
<1>16. JoinedIsIdle'
    BY <1>3 DEF JoinedIsIdle
<1> QED BY <1>9, <1>10, <1>11, <1>12, <1>13, <1>14, <1>15, <1>16 DEF IInv

LEMMA VisitFuncOpKeeps == ASSUME NEW t \in Threads, IInv, VisitFuncOp(t) PROVE IInv'
<1> DEFINE f == claimed[t]
<1>1. /\ phase = "process" /\ f # 0 /\ walk[f].next = NoPlace
      /\ walk' = [walk EXCEPT ![f].status = "done"]
      /\ claimed' = [claimed EXCEPT ![t] = 0]
      /\ UNCHANGED <<module, pass, phase, kernels, curIndex>>
    BY DEF VisitFuncOp
<1>2. f \in DOMAIN module
    BY <1>1 DEF IInv, TypeOK
<1>3. /\ walk'[f].blk = walk[f].blk /\ walk'[f].next = NoPlace
      /\ walk'[f].status = "done"
      /\ \A g \in DOMAIN module : g # f => walk'[g] = walk[g]
    BY <1>1, <1>2 DEF IInv, TypeOK
<1>4. claimed'[t] = 0 /\ \A u \in Threads \ {t} : claimed'[u] = claimed[u]
    BY <1>1 DEF IInv, TypeOK
<1>5. TypeOK'
    <2>1. walk' \in [DOMAIN module -> [blk : Block, next : Places \cup {NoPlace},
                                       status : {"running", "done", "crashed"}]]
        BY <1>1, <1>2 DEF IInv, TypeOK
    <2>2. claimed' \in [Threads -> DOMAIN module \cup {0}]
        BY <1>1 DEF IInv, TypeOK
    <2> QED BY <1>1, <2>1, <2>2 DEF IInv, TypeOK
<1>6. WalksMeetTheirInput'
    BY <1>1, <1>2, <1>3 DEF IInv, WalksMeetTheirInput
<1>7. KernelsListed'
    BY <1>1 DEF IInv, KernelsListed
<1>8. ClaimsHandedOut'
    BY <1>1, <1>4 DEF IInv, ClaimsHandedOut
<1>9. OneWalkPerKernel'
    <2> SUFFICES ASSUME NEW u \in Threads, claimed'[u] # 0
                 PROVE  /\ walk'[claimed'[u]].status # "done"
                        /\ \A v \in Threads \ {u} : claimed'[v] # claimed'[u]
        BY DEF OneWalkPerKernel
    <2>1. u # t /\ claimed'[u] = claimed[u] /\ claimed[u] # f /\ claimed[u] \in DOMAIN module
        BY <1>1, <1>4 DEF IInv, TypeOK, OneWalkPerKernel
    <2> QED BY <1>3, <1>4, <2>1 DEF IInv, OneWalkPerKernel
<1>10. RestAsGiven'
    BY <1>1, <1>3 DEF IInv, RestAsGiven
<1>11. ReleasedIsDone'
    <2> SUFFICES ASSUME NEW i \in 1 .. curIndex, \A u \in Threads : claimed'[u] # kernels[i]
                 PROVE  walk'[kernels[i]].status = "done" /\ walk'[kernels[i]].next = NoPlace
        BY <1>1 DEF ReleasedIsDone
    <2>1. kernels[i] \in DOMAIN module
        BY DEF IInv, TypeOK
    <2>2. CASE kernels[i] = f
        BY <1>3, <2>2
    <2>3. CASE kernels[i] # f
        <3>1. \A u \in Threads : claimed[u] # kernels[i]
            BY <1>4, <2>3
        <3> QED BY <1>3, <2>1, <2>3, <3>1 DEF IInv, ReleasedIsDone
    <2> QED BY <2>2, <2>3
<1>12. JoinedIsIdle'
    BY <1>1 DEF JoinedIsIdle
<1> QED BY <1>5, <1>6, <1>7, <1>8, <1>9, <1>10, <1>11, <1>12 DEF IInv

LEMMA StepInvariant == IInv /\ [Next]_vars => IInv'
<1> SUFFICES ASSUME IInv, [Next]_vars PROVE IInv'
    OBVIOUS
<1>1. CASE Collect
    BY <1>1, CollectKeeps
<1>2. CASE \E t \in Threads : Claim(t)
    BY <1>2, ClaimKeeps
<1>3. CASE \E t \in Threads : Visit(t)
    BY <1>3, VisitKeeps
<1>4. CASE \E t \in Threads : VisitFuncOp(t)
    BY <1>4, VisitFuncOpKeeps
<1>5. CASE Join
    BY <1>5 DEF Join, IInv, TypeOK, WalksMeetTheirInput, KernelsListed, ClaimsHandedOut,
                OneWalkPerKernel, RestAsGiven, ReleasedIsDone, JoinedIsIdle
<1>6. CASE UNCHANGED vars
    BY <1>6 DEF vars, IInv, TypeOK, WalksMeetTheirInput, KernelsListed, ClaimsHandedOut,
                OneWalkPerKernel, RestAsGiven, ReleasedIsDone, JoinedIsIdle
<1> QED BY <1>1, <1>2, <1>3, <1>4, <1>5, <1>6 DEF Next

LEMMA Invariance == Spec => []IInv
BY InitInvariant, StepInvariant, PTL DEF Spec

-----------------------------------------------------------------------------
(* Every kernel takes the steps of KernelPass *)

\* The callback of a pass is the same for every kernel: the definitions of the instance
\* are those of the module.
LEMMA CallbackOfKernel ==
    ASSUME NEW f, NEW p, NEW b, NEW s
    PROVE  Kernel(f)!Callback(p, b, s) = Callback(p, b, s)
<1>1. /\ Kernel(f)!CancellationDoubleCx(b, s) = CancellationDoubleCx(b, s)
      /\ Kernel(f)!ReductionPattern(b, s) = ReductionPattern(b, s)
    BY Zenon DEF ActsOnIndex, Kernel!ActsOnIndex, CancellationDoubleCx,
        Kernel!CancellationDoubleCx, FirstOf, Kernel!FirstOf, Gates, Kernel!Gates, IsGate,
        Kernel!IsGate, LastOf, Kernel!LastOf, NoPlace, Kernel!NoPlace, NoRewrite,
        Kernel!NoRewrite, Occurrences, Kernel!Occurrences, Places, Kernel!Places,
        ReductionCalls, Kernel!ReductionCalls, ReductionPattern, Kernel!ReductionPattern,
        Rewrite, Kernel!Rewrite, SameIndices, Kernel!SameIndices, Width, Kernel!Width,
        extractIndexFromQuakeExtractRefOp, Kernel!extractIndexFromQuakeExtractRefOp,
        getIndicesOfValueRange, Kernel!getIndicesOfValueRange, getPreviousOperationOnTarget,
        Kernel!getPreviousOperationOnTarget, isOperator, Kernel!isOperator,
        patternCancellation, Kernel!patternCancellation, Cardinality, Kernel!Cardinality
<1>2. /\ Kernel(f)!CommuteCxRx(b, s) = CommuteCxRx(b, s)
      /\ Kernel(f)!CommuteCxX(b, s) = CommuteCxX(b, s)
      /\ Kernel(f)!CommuteRxCx(b, s) = CommuteRxCx(b, s)
      /\ Kernel(f)!CommuteXCx(b, s) = CommuteXCx(b, s)
    BY Zenon DEF ActsOnIndex, Kernel!ActsOnIndex, CommuteCxRx, Kernel!CommuteCxRx,
        CommuteCxX, Kernel!CommuteCxX, CommuteRxCx, Kernel!CommuteRxCx, CommuteXCx,
        Kernel!CommuteXCx, Gates, Kernel!Gates, IsGate, Kernel!IsGate, LastOf,
        Kernel!LastOf, NoPlace, Kernel!NoPlace, NoRewrite, Kernel!NoRewrite, Places,
        Kernel!Places, Rewrite, Kernel!Rewrite, Width, Kernel!Width, commuteOperation,
        Kernel!commuteOperation, extractIndexFromQuakeExtractRefOp,
        Kernel!extractIndexFromQuakeExtractRefOp, getPreviousOperationOnTarget,
        Kernel!getPreviousOperationOnTarget, isOperator, Kernel!isOperator
<1>3. /\ Kernel(f)!SwitchHX(b, s) = SwitchHX(b, s)
      /\ Kernel(f)!SwitchHY(b, s) = SwitchHY(b, s)
      /\ Kernel(f)!SwitchHZ(b, s) = SwitchHZ(b, s)
      /\ Kernel(f)!SwitchXH(b, s) = SwitchXH(b, s)
      /\ Kernel(f)!SwitchYH(b, s) = SwitchYH(b, s)
      /\ Kernel(f)!SwitchZH(b, s) = SwitchZH(b, s)
    BY Zenon DEF ActsOnIndex, Kernel!ActsOnIndex, Gates, Kernel!Gates, IsGate,
        Kernel!IsGate, LastOf, Kernel!LastOf, NoPlace, Kernel!NoPlace, NoRewrite,
        Kernel!NoRewrite, NullDereference, Kernel!NullDereference, Places, Kernel!Places,
        Retyped, Kernel!Retyped, Rewrite, Kernel!Rewrite, SwitchHX, Kernel!SwitchHX,
        SwitchHY, Kernel!SwitchHY, SwitchHZ, Kernel!SwitchHZ, SwitchXH, Kernel!SwitchXH,
        SwitchYH, Kernel!SwitchYH, SwitchZH, Kernel!SwitchZH, Width, Kernel!Width,
        extractIndexFromQuakeExtractRefOp, Kernel!extractIndexFromQuakeExtractRefOp,
        getPreviousOperationOnTarget, Kernel!getPreviousOperationOnTarget, isOperator,
        Kernel!isOperator, patternSwitch, Kernel!patternSwitch
<1>4. /\ Kernel(f)!commuteCNotZ(b, s) = commuteCNotZ(b, s)
      /\ Kernel(f)!commuteZCNot(b, s) = commuteZCNot(b, s)
      /\ Kernel(f)!SwitchPauliHOperation(b, s) = SwitchPauliHOperation(b, s)
    BY Zenon DEF ActsOnIndex, Kernel!ActsOnIndex, Gates, Kernel!Gates, IsGate,
        Kernel!IsGate, LastOf, Kernel!LastOf, NoPlace, Kernel!NoPlace, NoRewrite,
        Kernel!NoRewrite, Places, Kernel!Places, Retyped, Kernel!Retyped, Rewrite,
        Kernel!Rewrite, SwitchPauliHOperation, Kernel!SwitchPauliHOperation, ThroughH,
        Kernel!ThroughH, Width, Kernel!Width, commuteCNotZ, Kernel!commuteCNotZ,
        commuteZCNot, Kernel!commuteZCNot, extractIndexFromQuakeExtractRefOp,
        Kernel!extractIndexFromQuakeExtractRefOp, getPreviousOperationOnTarget,
        Kernel!getPreviousOperationOnTarget, isOperator, Kernel!isOperator
<1>5. /\ Kernel(f)!ReplaceHXHToZ(b, s) = ReplaceHXHToZ(b, s)
      /\ Kernel(f)!ReplaceHZHToX(b, s) = ReplaceHZHToX(b, s)
      /\ Kernel(f)!ReplaceSZToSAdj(b, s) = ReplaceSZToSAdj(b, s)
      /\ Kernel(f)!ReplaceSAdjZToS(b, s) = ReplaceSAdjZToS(b, s)
    BY Zenon DEF ActsOnIndex, Kernel!ActsOnIndex, Gates, Kernel!Gates, IsGate,
        Kernel!IsGate, LastOf, Kernel!LastOf, NoPlace, Kernel!NoPlace, NoRewrite,
        Kernel!NoRewrite, NullDereference, Kernel!NullDereference, Operation,
        Kernel!Operation, Places, Kernel!Places, ReplaceHPauliH, Kernel!ReplaceHPauliH,
        ReplaceHXHToZ, Kernel!ReplaceHXHToZ, ReplaceHZHToX, Kernel!ReplaceHZHToX,
        ReplaceSAdjZToS, Kernel!ReplaceSAdjZToS, ReplaceSZ, Kernel!ReplaceSZ,
        ReplaceSZToSAdj, Kernel!ReplaceSZToSAdj, Rewrite, Kernel!Rewrite, Width,
        Kernel!Width, extractIndexFromQuakeExtractRefOp,
        Kernel!extractIndexFromQuakeExtractRefOp, getPreviousOperationOnTarget,
        Kernel!getPreviousOperationOnTarget, isOperator, Kernel!isOperator
<1>6. /\ Kernel(f)!nullRotationCancellation(b, s) = nullRotationCancellation(b, s)
      /\ Kernel(f)!normalizeAngleOfRotations(b, s) = normalizeAngleOfRotations(b, s)
    BY Zenon DEF AsFloat, Kernel!AsFloat, FullTurn, Kernel!FullTurn, MinusOneRadian,
        Kernel!MinusOneRadian, NoRewrite, Kernel!NoRewrite, NormalizedAngle,
        Kernel!NormalizedAngle, Rewrite, Kernel!Rewrite, Rotations, Kernel!Rotations,
        checkDoublePiMultiplies, Kernel!checkDoublePiMultiplies, createFloatValue,
        Kernel!createFloatValue, extractDoubleArgumentValue,
        Kernel!extractDoubleArgumentValue, normalizeAngleOfRotations,
        Kernel!normalizeAngleOfRotations, nullRotationCancellation,
        Kernel!nullRotationCancellation
<1>7. /\ Kernel(f)!CxToHCzHPattern(b, s) = CxToHCzHPattern(b, s)
      /\ Kernel(f)!ReplaceCzToHCxH(b, s) = ReplaceCzToHCxH(b, s)
      /\ Kernel(f)!ReverseCNot(b, s) = ReverseCNot(b, s)
    BY Zenon DEF CxToHCzHPattern, Kernel!CxToHCzHPattern, IsGate, Kernel!IsGate,
        NoRewrite, Kernel!NoRewrite, Operation, Kernel!Operation, Plain, Kernel!Plain,
        ReplaceCzToHCxH, Kernel!ReplaceCzToHCxH, ReverseCNot, Kernel!ReverseCNot, Rewrite,
        Kernel!Rewrite
<1> QED BY <1>1, <1>2, <1>3, <1>4, <1>5, <1>6, <1>7, Zenon DEF Callback, Kernel!Callback

\* So are the walk's own.
LEMMA BlockOfKernel ==
    ASSUME NEW f
    PROVE  /\ \A b, s : Kernel(f)!getNextNode(b, s) = getNextNode(b, s)
           /\ \A b, s, r : Kernel(f)!Rewritten(b, s, r) = Rewritten(b, s, r)
           /\ \A c : Kernel(f)!Load(c) = Load(c)
           /\ \A x : Kernel(f)!Outcomes(x) = Outcomes(x)
           /\ Kernel(f)!NoPlace = NoPlace
BY Zenon DEF FirstOf, Kernel!FirstOf, IsHome, Kernel!IsHome, Load, Kernel!Load, NoOp,
    Kernel!NoOp, NoPlace, Kernel!NoPlace, Occupied, Kernel!Occupied, Outcomes,
    Kernel!Outcomes, Places, Kernel!Places, Rewritten, Kernel!Rewritten, Width,
    Kernel!Width, getNextNode, Kernel!getNextNode

\* The walk over a function that no thread has been given is at its start, and the
\* process ends with the first walk that crashes.
WalksBegin ==
    \A f \in DOMAIN module : (\A i \in 1 .. curIndex : kernels[i] # f) =>
      walk[f] = FirstVisit(Load(module[f].body))
NoneCrashed ==
    phase \in {"collect", "process"} => \A f \in DOMAIN module : walk[f].status # "crashed"

AInv == IInv /\ WalksBegin /\ NoneCrashed

\* What a step does to the walk of a function: nothing, or what KernelPass does.
KernelStep(f) == [Kernel(f)!Next]_<<walk[f].blk, walk[f].next, walk[f].status>>

\* A visit of the walk over a function is the visit of KernelPass.
LEMMA VisitOfKernel ==
    ASSUME NEW f, NEW status \in Outcomes(Callback(pass, walk[f].blk, walk[f].next).fault),
           walk[f].status = "running", walk[f].next # NoPlace,
           walk[f]' = [blk |-> Rewritten(walk[f].blk, walk[f].next,
                                         Callback(pass, walk[f].blk, walk[f].next)),
                       next |-> getNextNode(walk[f].blk, walk[f].next),
                       status |-> status],
           UNCHANGED <<module, pass>>
    PROVE  KernelStep(f)
<1> DEFINE b == walk[f].blk
           n == walk[f].next
           r == Callback(pass, b, n)
<1>1. Kernel(f)!Callback(pass, b, n) = r
    BY CallbackOfKernel
<1>2. /\ Kernel(f)!NoPlace = NoPlace
      /\ Kernel(f)!Rewritten(b, n, r) = Rewritten(b, n, r)
      /\ Kernel(f)!getNextNode(b, n) = getNextNode(b, n)
      /\ Kernel(f)!Outcomes(r.fault) = Outcomes(r.fault)
    BY BlockOfKernel
<1>3. /\ walk[f].blk' = Rewritten(b, n, r)
      /\ walk[f].next' = getNextNode(b, n)
      /\ walk[f].status' = status
    OBVIOUS
<1>4. UNCHANGED <<module[f].body, pass>>
    OBVIOUS
<1> HIDE DEF r
<1>5. Kernel(f)!Visit
    BY <1>1, <1>2, <1>3, <1>4, Zenon DEF Kernel!Visit, r
<1> QED BY <1>5 DEF KernelStep, Kernel!Next

LEMMA VisitFuncOpOfKernel ==
    ASSUME NEW f, walk[f].status = "running", walk[f].next = NoPlace,
           walk[f].status' = "done", UNCHANGED <<walk[f].blk, walk[f].next, module, pass>>
    PROVE  KernelStep(f)
<1>1. Kernel(f)!NoPlace = NoPlace
    BY BlockOfKernel
<1>2. UNCHANGED module[f].body
    OBVIOUS
<1>3. Kernel(f)!VisitFuncOp
    BY <1>1, <1>2 DEF Kernel!VisitFuncOp
<1> QED BY <1>3 DEF KernelStep, Kernel!Next

LEMMA WalksAtTheStart ==
    Init => WalksBegin /\ NoneCrashed /\ \A f \in DOMAIN module : Kernel(f)!Init
<1> SUFFICES ASSUME Init
             PROVE  WalksBegin /\ NoneCrashed /\ \A f \in DOMAIN module : Kernel(f)!Init
    OBVIOUS
<1>1. ASSUME NEW f \in DOMAIN module
      PROVE  /\ walk[f] = FirstVisit(Load(module[f].body))
             /\ walk[f].blk = Load(module[f].body)
             /\ walk[f].next = getNextNode(Load(module[f].body), NoPlace)
             /\ walk[f].status = "running"
    BY DEF Init, FirstVisit
<1>2. ASSUME NEW f \in DOMAIN module
      PROVE  Kernel(f)!Init
    <2>1. module[f].body \in Bodies
        BY DEF Init, Bodies
    <2>2. /\ Kernel(f)!NoPlace = NoPlace
          /\ Kernel(f)!Load(module[f].body) = Load(module[f].body)
          /\ Kernel(f)!getNextNode(Load(module[f].body), NoPlace)
               = getNextNode(Load(module[f].body), NoPlace)
        BY BlockOfKernel
    <2>3. pass \in Passes
        BY DEF Init
    <2> QED BY <1>1, <2>1, <2>2, <2>3 DEF Kernel!Init
<1> QED BY <1>1, <1>2 DEF WalksBegin, NoneCrashed

\* What a step changes: the walk of one function, to the next state of KernelPass.
LEMMA StepsOfKernels ==
    AInv /\ [Next]_vars => \A f \in DOMAIN module : KernelStep(f)
<1> SUFFICES ASSUME AInv, [Next]_vars, NEW f \in DOMAIN module
             PROVE  KernelStep(f)
    OBVIOUS
<1>1. ASSUME walk'[f] = walk[f] PROVE KernelStep(f)
    BY <1>1 DEF KernelStep
<1>2. CASE Collect \/ Join \/ UNCHANGED vars
    BY <1>1, <1>2 DEF Collect, Join, vars
<1>3. ASSUME NEW t \in Threads, Claim(t) PROVE KernelStep(f)
    <2>1. /\ walk' = [walk EXCEPT ![kernels[curIndex + 1]] = FirstVisit(@.blk)]
          /\ curIndex \in Nat /\ curIndex + 1 \in 1 .. Len(kernels)
        BY <1>3 DEF Claim, AInv, IInv, TypeOK
    <2>2. CASE f = kernels[curIndex + 1]
        <3>1. \A i \in 1 .. curIndex : kernels[i] # f
            BY <2>1, <2>2 DEF AInv, IInv, TypeOK, KernelsListed
        <3>2. walk[f] = FirstVisit(Load(module[f].body))
            BY <3>1 DEF AInv, WalksBegin
        <3>3. walk'[f] = FirstVisit(walk[f].blk)
            BY <2>1, <2>2 DEF AInv, IInv, TypeOK
        <3>4. walk[f].blk = Load(module[f].body)
            BY <3>2 DEF FirstVisit
        <3> QED BY <1>1, <3>2, <3>3, <3>4
    <2>3. CASE f # kernels[curIndex + 1]
        BY <1>1, <2>1, <2>3 DEF AInv, IInv, TypeOK
    <2> QED BY <2>2, <2>3
<1>4. ASSUME NEW t \in Threads, Visit(t) PROVE KernelStep(f)
    <2>1. CASE f = claimed[t]
        <3>1. walk[f].status = "running"
            BY <1>4, <2>1 DEF Visit, AInv, IInv, TypeOK, OneWalkPerKernel, NoneCrashed
        <3>2. PICK status \in Outcomes(Callback(pass, walk[f].blk, walk[f].next).fault) :
                walk' = [walk EXCEPT ![f] =
                           [blk |-> Rewritten(walk[f].blk, walk[f].next,
                                              Callback(pass, walk[f].blk, walk[f].next)),
                            next |-> getNextNode(walk[f].blk, walk[f].next),
                            status |-> status]]
            BY <1>4, <2>1 DEF Visit
        <3>3. walk[f].next # NoPlace /\ UNCHANGED <<module, pass>>
            BY <1>4, <2>1 DEF Visit
        <3>4. walk'[f] = [blk |-> Rewritten(walk[f].blk, walk[f].next,
                                            Callback(pass, walk[f].blk, walk[f].next)),
                          next |-> getNextNode(walk[f].blk, walk[f].next),
                          status |-> status]
            BY <3>2 DEF AInv, IInv, TypeOK
        <3> QED BY <3>1, <3>3, <3>4, VisitOfKernel
    <2>2. CASE f # claimed[t]
        BY <1>1, <1>4, <2>2 DEF Visit, AInv, IInv, TypeOK
    <2> QED BY <2>1, <2>2
<1>5. ASSUME NEW t \in Threads, VisitFuncOp(t) PROVE KernelStep(f)
    <2>1. CASE f = claimed[t]
        <3>1. walk[f].status = "running"
            BY <1>5, <2>1 DEF VisitFuncOp, AInv, IInv, TypeOK, OneWalkPerKernel, NoneCrashed
        <3>2. /\ walk[f].next = NoPlace /\ UNCHANGED <<module, pass>>
              /\ walk'[f] = [walk[f] EXCEPT !.status = "done"]
            BY <1>5, <2>1 DEF VisitFuncOp, AInv, IInv, TypeOK
        <3>3. walk'[f].status = "done" /\ walk'[f].blk = walk[f].blk /\ walk'[f].next = walk[f].next
            BY <3>2 DEF AInv, IInv, TypeOK
        <3> QED BY <3>1, <3>2, <3>3, VisitFuncOpOfKernel
    <2>2. CASE f # claimed[t]
        BY <1>1, <1>5, <2>2 DEF VisitFuncOp, AInv, IInv, TypeOK
    <2> QED BY <2>1, <2>2
<1> QED BY <1>2, <1>3, <1>4, <1>5 DEF Next

\* The walks that have not begun, and that none has crashed, are kept.
LEMMA WalksKept == AInv /\ [Next]_vars => WalksBegin' /\ NoneCrashed'
<1> SUFFICES ASSUME AInv, [Next]_vars PROVE WalksBegin' /\ NoneCrashed'
    OBVIOUS
<1>1. CASE Collect
    <2>1. curIndex = 0 /\ UNCHANGED <<module, curIndex, walk>> /\ phase = "collect"
        BY <1>1 DEF Collect, AInv, IInv, TypeOK, KernelsListed
    <2> QED BY <2>1 DEF AInv, WalksBegin, NoneCrashed
<1>2. CASE Join \/ UNCHANGED vars
    BY <1>2 DEF Join, vars, AInv, WalksBegin, NoneCrashed
<1>3. ASSUME NEW t \in Threads, Claim(t) PROVE WalksBegin' /\ NoneCrashed'
    <2>1. /\ walk' = [walk EXCEPT ![kernels[curIndex + 1]] = FirstVisit(@.blk)]
          /\ curIndex \in Nat /\ curIndex' = curIndex + 1
          /\ phase = "process" /\ UNCHANGED <<module, phase, kernels>>
        BY <1>3 DEF Claim, AInv, IInv, TypeOK
    <2>2. FirstVisit(walk[kernels[curIndex + 1]].blk).status = "running"
        BY DEF FirstVisit
    <2>3. ASSUME NEW f \in DOMAIN module
          PROVE  /\ walk'[f] = walk[f] \/ f = kernels[curIndex + 1]
                 /\ walk'[f].status # "crashed"
        BY <2>1, <2>2 DEF AInv, IInv, TypeOK, NoneCrashed
    <2>4. ASSUME NEW f \in DOMAIN module, \A i \in 1 .. curIndex' : kernels[i] # f
          PROVE  walk'[f] = FirstVisit(Load(module[f].body))
        <3>1. f # kernels[curIndex + 1] /\ \A i \in 1 .. curIndex : kernels[i] # f
            BY <2>1, <2>4
        <3> QED BY <2>3, <3>1 DEF AInv, WalksBegin
    <2> QED BY <2>1, <2>3, <2>4 DEF WalksBegin, NoneCrashed
<1>4. ASSUME NEW t \in Threads, Visit(t) \/ VisitFuncOp(t) PROVE WalksBegin' /\ NoneCrashed'
    <2>1. /\ phase = "process" /\ UNCHANGED <<module, kernels, curIndex>>
          /\ \A f \in DOMAIN module : f # claimed[t] => walk'[f] = walk[f]
          /\ claimed[t] # 0
        BY <1>4 DEF Visit, VisitFuncOp, AInv, IInv, TypeOK
    <2>2. \E i \in 1 .. curIndex : kernels[i] = claimed[t]
        BY <2>1 DEF AInv, IInv, ClaimsHandedOut
    <2>3. WalksBegin'
        BY <2>1, <2>2 DEF AInv, WalksBegin
    <2>4. phase' = "process" => walk'[claimed[t]].status # "crashed"
        <3>1. CASE VisitFuncOp(t)
            BY <2>1, <3>1 DEF VisitFuncOp, AInv, IInv, TypeOK
        <3>2. CASE Visit(t)
            <4>1. PICK k, r, status :
                    /\ walk' = [walk EXCEPT ![claimed[t]] = [blk |-> Rewritten(k.blk, k.next, r),
                                                             next |-> getNextNode(k.blk, k.next),
                                                             status |-> status]]
                    /\ phase' = IF status = "crashed" THEN "crashed" ELSE phase
                BY <3>2 DEF Visit
            <4>2. claimed[t] \in DOMAIN module
                BY <2>1 DEF AInv, IInv, TypeOK
            <4>3. walk'[claimed[t]].status = status
                BY <4>1, <4>2 DEF AInv, IInv, TypeOK
            <4> QED BY <4>1, <4>3
        <3> QED BY <1>4, <3>1, <3>2
    <2>5. phase' \in {"process", "crashed"}
        BY <1>4, <2>1 DEF Visit, VisitFuncOp
    <2>6. NoneCrashed'
        BY <2>1, <2>4, <2>5 DEF AInv, NoneCrashed
    <2> QED BY <2>3, <2>6
<1> QED BY <1>1, <1>2, <1>3, <1>4 DEF Next

-----------------------------------------------------------------------------
(* Theorems *)

\* Every variable keeps its type: runOnOperation turns every module into a module of
\* well-formed blocks, whatever the pass and however the threads take turns.
THEOREM TypeCorrect == Spec => []TypeOK
<1>1. IInv => TypeOK
    BY DEF IInv
<1> QED BY <1>1, Invariance, PTL

\* The threads of parallelForEach never walk one kernel together, nor a kernel that has
\* been walked before.
THEOREM OneWalk == Spec => []OneWalkPerKernel
<1>1. IInv => OneWalkPerKernel
    BY DEF IInv
<1> QED BY <1>1, Invariance, PTL

\* In every function the walk meets the operations of the body and no others, and
\* leaves alone what is no gate, whatever the other threads do in the meantime.
THEOREM WalksMeetTheInput == Spec => []WalksMeetTheirInput
<1>1. IInv => WalksMeetTheirInput
    BY DEF IInv
<1> QED BY <1>1, Invariance, PTL

\* When runOnOperation returns, it has walked every kernel to its end and touched
\* nothing else; if it failed, it has touched nothing.
THEOREM AllOrNothing == Spec => []WholeModuleOrNothing
<1>1. IInv => WholeModuleOrNothing
    <2> SUFFICES ASSUME IInv PROVE WholeModuleOrNothing
        OBVIOUS
    <2>1. 0 \notin DOMAIN module
        BY FunctionsOfModule DEF IInv, TypeOK
    <2>2. ASSUME phase = "done", NEW f \in DOMAIN module, IsQuantumKernel(module[f])
          PROVE  walk[f].status = "done" /\ walk[f].next = NoPlace
        <3>1. PICK i \in 1 .. Len(kernels) : kernels[i] = f
            BY <2>2 DEF IInv, KernelsListed
        <3>2. i \in 1 .. curIndex /\ \A t \in Threads : claimed[t] # kernels[i]
            BY <2>1, <2>2, <3>1 DEF IInv, JoinedIsIdle
        <3> QED BY <3>1, <3>2 DEF IInv, ReleasedIsDone
    <2>3. ASSUME NEW f \in DOMAIN module, phase = "failed" \/ ~ IsQuantumKernel(module[f])
          PROVE  walk[f].blk = Load(module[f].body)
        <3>1. \A i \in 1 .. curIndex : kernels[i] # f
            BY <2>3 DEF IInv, TypeOK, KernelsListed
        <3> QED BY <3>1 DEF IInv, RestAsGiven
    <2> QED BY <2>2, <2>3 DEF WholeModuleOrNothing
<1> QED BY <1>1, Invariance, PTL

\* Whatever the threads do, the walk over each function is a behavior of KernelPass: what
\* is proved of a pass over a kernel holds of every kernel of a module.
THEOREM KernelsAreWalkedAlone == Spec => KernelsWalkedAlone
<1>1. Init => AInv /\ \A f \in DOMAIN module : Kernel(f)!Init
    BY InitInvariant, WalksAtTheStart DEF AInv
<1>2. AInv /\ [Next]_vars => AInv'
    BY StepInvariant, WalksKept DEF AInv
<1>3. AInv /\ [Next]_vars
        => [\A f \in DOMAIN module :
              [Kernel(f)!Next]_<<walk[f].blk, walk[f].next, walk[f].status>>]_vars
    BY StepsOfKernels DEF KernelStep
<1> QED BY <1>1, <1>2, <1>3, PTL DEF Spec, KernelsWalkedAlone
=============================================================================
