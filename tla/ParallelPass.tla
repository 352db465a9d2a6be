---------------------------- MODULE ParallelPass ----------------------------
(***************************************************************************)
(* A pass over a module (include/Passes/BaseMQSSPass.hpp): the quantum     *)
(* kernels among the functions of the module are collected, and each is    *)
(* handed to a thread that walks it (KernelPass).  The thread pool is the  *)
(* one of MLIR's parallelForEach: every thread fetches the next index of   *)
(* the list of kernels from an atomic counter until the list is used up.   *)
(***************************************************************************)
EXTENDS RewritePatterns

CONSTANTS Modules,    \* the modules that may be given to the pass: sequences of FuncOps
          Passes,     \* the passes that may be run
          Threads     \* the threads of the pool

\* A function: whether it is an entry point, whether it has a quantum reference or
\* register among its arguments, and the operations of its body
FuncOp == [entryPoint : BOOLEAN, qubitArgs : BOOLEAN,
           body : {c \in Seq(Op) : Len(c) <= MaxOps}]

ASSUME ParallelPassAssumption ==
    /\ Passes \subseteq PassNames
    /\ Threads # {}
    /\ \A m \in Modules : m \in Seq(FuncOp)

VARIABLES module,     \* the module as it was given to the pass
          pass,       \* the pass that is run
          phase,      \* "collect", "process", "done", "failed" or "crashed"
          kernels,    \* the functions collected, a sequence of indices of module
          curIndex,   \* how many of them the threads have claimed
          claimed,    \* for each thread the function it works on, 0 for none
          walk        \* for each function its block and the walk over it

vars == <<module, pass, phase, kernels, curIndex, claimed, walk>>

-----------------------------------------------------------------------------

\* The walk over a function that is about to begin
FirstVisit(b) == [blk |-> b, next |-> getNextNode(b, NoPlace), status |-> "running"]

Init ==
    /\ module \in Modules
    /\ pass \in Passes
    /\ phase = "collect"
    /\ kernels = <<>>
    /\ curIndex = 0
    /\ claimed = [t \in Threads |-> 0]
    /\ walk = [f \in DOMAIN module |-> FirstVisit(Load(module[f].body))]

\* An entry point, or a function with a quantum reference or register as an argument
IsQuantumKernel(func) == func.entryPoint \/ func.qubitArgs

HasControlledApply(func) ==
    \E k \in DOMAIN func.body : func.body[k].gate = "apply" /\ func.body[k].ctrls # <<>>

\* The elements of K in increasing order (one sequence: there is one such enumeration)
InOrder(K) ==
    {s \in [1 .. Cardinality(K) -> K] :
        /\ \A f \in K : \E i \in DOMAIN s : s[i] = f
        /\ \A i, j \in DOMAIN s : i < j => s[i] < s[j]}

\* Mutant: a function is collected for its attribute and once more for its arguments.
CollectTwice(m) ==
    {[kernels |-> entries \o others,
      interrupted |-> \E f \in DOMAIN m : HasControlledApply(m[f])] :
        entries \in InOrder({f \in DOMAIN m : m[f].entryPoint}),
        others \in InOrder({f \in DOMAIN m : m[f].qubitArgs})}

\* Mutant: every function is collected.
CollectAll(m) ==
    {[kernels |-> s, interrupted |-> \E f \in DOMAIN m : HasControlledApply(m[f])] :
        s \in InOrder(DOMAIN m)}

\* What the walk over the module finds: it meets the operations of a function before
\* the function itself, and stops at a controlled quake.apply wherever it stands.
getQuakeKernels(m) ==
    {[kernels |-> s, interrupted |-> \E f \in DOMAIN m : HasControlledApply(m[f])] :
        s \in InOrder({f \in DOMAIN m : IsQuantumKernel(m[f])})}

\* runOnOperation up to the call of parallelForEach
Collect ==
    /\ phase = "collect"
    /\ \E found \in getQuakeKernels(module) :
         IF found.interrupted
         THEN phase' = "failed" /\ UNCHANGED kernels
         ELSE /\ kernels' = found.kernels
              /\ phase' = IF found.kernels = <<>> THEN "done" ELSE "process"
    /\ UNCHANGED <<module, pass, curIndex, claimed, walk>>

\* A thread without work fetches the next index and begins to walk that kernel.
Claim(t) ==
    /\ phase = "process"
    /\ claimed[t] = 0
    /\ curIndex < Len(kernels)
    /\ LET f == kernels[curIndex + 1]
       IN  /\ claimed' = [claimed EXCEPT ![t] = f]
           /\ walk' = [walk EXCEPT ![f] = FirstVisit(@.blk)]
    /\ curIndex' = curIndex + 1
    /\ UNCHANGED <<module, pass, phase, kernels>>

\* Mutant: the following operation is fetched after the callback.
VisitThenFetch(t) ==
    /\ phase = "process"
    /\ claimed[t] # 0
    /\ LET k == walk[claimed[t]]
           r == Callback(pass, k.blk, k.next)
           b == Rewritten(k.blk, k.next, r)
       IN  /\ k.next # NoPlace
           /\ \E status \in Outcomes(r.fault) :
                /\ walk' = [walk EXCEPT ![claimed[t]] =
                              [blk |-> b, next |-> getNextNode(b, k.next), status |-> status]]
                /\ phase' = IF status = "crashed" THEN "crashed" ELSE phase
    /\ UNCHANGED <<module, pass, kernels, curIndex, claimed>>

\* A thread calls the callback on the next operation of its kernel.  A crash ends the
\* process, with the other threads in the middle of their kernels.  (Bound by \E, the
\* rewrite is evaluated once.)
Visit(t) ==
    /\ phase = "process"
    /\ claimed[t] # 0
    /\ \E k \in {walk[claimed[t]]} :
         /\ k.next # NoPlace
         /\ \E r \in {Callback(pass, k.blk, k.next)} :
              \E status \in Outcomes(r.fault) :
                /\ walk' = [walk EXCEPT ![claimed[t]] =
                              [blk |-> Rewritten(k.blk, k.next, r),
                               next |-> getNextNode(k.blk, k.next),
                               status |-> status]]
                /\ phase' = IF status = "crashed" THEN "crashed" ELSE phase
    /\ UNCHANGED <<module, pass, kernels, curIndex, claimed>>

\* Mutant: the thread keeps the kernel it is done with.
VisitFuncOpWithoutRelease(t) ==
    /\ phase = "process"
    /\ claimed[t] # 0
    /\ walk[claimed[t]].next = NoPlace
    /\ walk' = [walk EXCEPT ![claimed[t]].status = "done"]
    /\ UNCHANGED <<module, pass, phase, kernels, curIndex, claimed>>

\* The last call of a walk, on the FuncOp: operationsOnQuantumKernel returns.
VisitFuncOp(t) ==
    /\ phase = "process"
    /\ claimed[t] # 0
    /\ walk[claimed[t]].next = NoPlace
    /\ walk' = [walk EXCEPT ![claimed[t]].status = "done"]
    /\ claimed' = [claimed EXCEPT ![t] = 0]
    /\ UNCHANGED <<module, pass, phase, kernels, curIndex>>

\* parallelForEach waits for all its threads.
Join ==
    /\ phase = "process"
    /\ curIndex = Len(kernels)
    /\ \A t \in Threads : claimed[t] = 0
    /\ phase' = "done"
    /\ UNCHANGED <<module, pass, kernels, curIndex, claimed, walk>>

Next ==
    \/ Collect
    \/ \E t \in Threads : Claim(t) \/ Visit(t) \/ VisitFuncOp(t)
    \/ Join

\* The threads of the pool do not wait for one another, so one that can go on does.
Spec == Init /\ [][Next]_vars /\ WF_vars(Next)

-----------------------------------------------------------------------------

\* Every variable has its type.
TypeOK ==
    /\ module \in Modules
    /\ pass \in Passes
    /\ phase \in {"collect", "process", "done", "failed", "crashed"}
    /\ kernels \in Seq(DOMAIN module)
    /\ curIndex \in 0 .. Len(kernels)
    /\ claimed \in [Threads -> DOMAIN module \cup {0}]
    /\ walk \in [DOMAIN module -> [blk : Block, next : Places \cup {NoPlace},
                                   status : {"running", "done", "crashed"}]]

\* No two threads walk one kernel, and none walks a kernel that is done: two walks
\* would erase operations under each other.
OneWalkPerKernel ==
    \A t \in Threads : claimed[t] # 0 =>
      /\ walk[claimed[t]].status # "done"
      /\ \A u \in Threads \ {t} : claimed[u] # claimed[t]

\* When runOnOperation has returned, every kernel has been walked to its end; what is
\* no kernel is as it was, and so is everything if the pass has failed.
WholeModuleOrNothing ==
    /\ phase = "done" => \A f \in DOMAIN module :
         IsQuantumKernel(module[f]) => walk[f].status = "done" /\ walk[f].next = NoPlace
    /\ \A f \in DOMAIN module :
         phase = "failed" \/ ~ IsQuantumKernel(module[f])
           => walk[f].blk = Load(module[f].body)

\* The circuits a thread may be given
Bodies == UNION {{m[f].body : f \in DOMAIN m} : m \in Modules}

\* What a walk over function f does, seen alone
Kernel(f) == INSTANCE KernelPass
    WITH Inputs <- Bodies, input <- module[f].body,
         blk <- walk[f].blk, next <- walk[f].next, status <- walk[f].status

\* Whatever the threads do, each function sees exactly the steps of one KernelPass: what
\* holds of a pass over a kernel holds of every kernel of a module.
KernelsWalkedAlone ==
    /\ \A f \in DOMAIN module : Kernel(f)!Init
    /\ [][\A f \in DOMAIN module :
            [Kernel(f)!Next]_<<walk[f].blk, walk[f].next, walk[f].status>>]_vars

\* runOnOperation returns, whatever the pass and the module, unless the process crashes.
Returns == <>(phase \in {"done", "failed", "crashed"})
=============================================================================
