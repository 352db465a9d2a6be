----------------------------- MODULE KernelPass -----------------------------
(***************************************************************************)
(* One transformation pass over the body of one quantum kernel:            *)
(*                                                                         *)
(*     kernel.walk([&](Operation *op) { callback(op); })                   *)
(*                                                                         *)
(* The walk of MLIR visits the operations of a block front to back.  It    *)
(* fetches the iterator of the following operation before it calls the     *)
(* callback, so the callback may erase the operation it was given; what it *)
(* inserts behind that operation is not visited, and if it erased the      *)
(* following operation the walk would go on from freed memory.  Last, the  *)
(* callback is called on the FuncOp itself, where none of the passes does  *)
(* anything.                                                               *)
(*                                                                         *)
(* A step is one call of the callback (RewritePatterns!Callback).          *)
(***************************************************************************)
EXTENDS RewritePatterns

CONSTANTS Inputs,     \* the circuits that may be given to the pass
          Passes      \* the passes that may be run

ASSUME KernelPassAssumption ==
    /\ Passes \subseteq PassNames
    /\ \A c \in Inputs : c \in Seq(Op) /\ Len(c) <= MaxOps

VARIABLES input,      \* the circuit as it was given to the pass
          pass,       \* the pass that is run
          blk,        \* the block of the kernel
          next,       \* the iterator the walk has saved
          status      \* "running", "done" or "crashed"

vars == <<input, pass, blk, next, status>>

-----------------------------------------------------------------------------

Init ==
    /\ input \in Inputs
    /\ pass \in Passes
    /\ blk = Load(input)
    /\ next = getNextNode(Load(input), NoPlace)
    /\ status = "running"

\* Mutant: the following operation is fetched after the callback.
VisitThenFetch ==
    /\ status = "running"
    /\ next # NoPlace
    /\ LET r == Callback(pass, blk, next)
       IN  /\ blk' = Rewritten(blk, next, r)
           /\ next' = getNextNode(blk', next)
           /\ status' \in Outcomes(r.fault)
    /\ UNCHANGED <<input, pass>>

\* Mutant: the walk does not move on.
VisitWithoutAdvance ==
    /\ status = "running"
    /\ next # NoPlace
    /\ LET r == Callback(pass, blk, next)
       IN  /\ blk' = Rewritten(blk, next, r)
           /\ status' \in Outcomes(r.fault)
    /\ UNCHANGED <<input, pass, next>>

\* The walk saves the following operation, then calls the callback of the pass.
Visit ==
    /\ status = "running"
    /\ next # NoPlace
    /\ LET r == Callback(pass, blk, next)
       IN  /\ blk' = Rewritten(blk, next, r)
           /\ next' = getNextNode(blk, next)
           /\ status' \in Outcomes(r.fault)
    /\ UNCHANGED <<input, pass>>

\* The block is exhausted; the callback on the FuncOp does nothing.
VisitFuncOp ==
    /\ status = "running"
    /\ next = NoPlace
    /\ status' = "done"
    /\ UNCHANGED <<input, pass, blk, next>>

Next == Visit \/ VisitFuncOp

\* The thread that runs the pass is never blocked: it goes on until it is done.
Spec == Init /\ [][Next]_vars /\ WF_vars(Next)

-----------------------------------------------------------------------------
(* Properties of the walk *)

\* Every variable has its type.
TypeOK ==
    /\ input \in Inputs
    /\ pass \in Passes
    /\ blk \in Block
    /\ next \in Places \cup {NoPlace}
    /\ status \in {"running", "done", "crashed"}

\* The iterator the walk has saved points at an operation that is still in the
\* block: no callback erases what the walk goes on from (early_inc_range).
IteratorValid == next # NoPlace => blk[next] # NoOp

\* From the saved iterator on the block is still the input: the walk meets every
\* operation of the input that no callback erased, and never one that a callback
\* inserted (ReverseCx would otherwise reverse its own cx again).
RestUntouched == next # NoPlace => \A s \in Places : s >= next => blk[s] = Load(input)[s]

\* Measurements, resets and every other operation that is no gate stay where they
\* are: no pass erases, moves or creates one.
NonGatesUntouched ==
    \A s \in Places :
      {blk[s].gate, Load(input)[s].gate} \cap NonGates # {} => blk[s] = Load(input)[s]

\* The passes that finish what they set out to do in one run.  The others do not: of two x
\* before an h the switch of x and h moves one, and what CancellationDoubleCx erases may
\* bring two cx together that the walk has passed.
OneRun == {"CxToHCzH", "CzToHCxH", "SAdjZToS", "SZToSAdj", "HXHToZ", "HZHToX", "SwitchHX",
           "SwitchHZ", "CancellationNullRotation", "NormalizeArgAngle"}

\* NormalizeArgAngle replaces every rotation; done are those with an angle of less than a turn.
IsNormalized(op) ==
    op.gate \in Rotations => \A i \in DOMAIN op.params : op.params[i].ticks \in 0 .. FullTurn - 1

\* Does pass p find nothing to do at place s of the block b?
LeavesAlone(p, b, s) ==
    IF p = "NormalizeArgAngle" THEN IsNormalized(b[s]) ELSE Callback(p, b, s) = NoRewrite

\* A second run of such a pass finds nothing to do: no pattern is left over by the
\* order in which the walk meets the gates.
OneRunSuffices ==
    status = "done" /\ pass \in OneRun => \A s \in Occupied(blk) : LeavesAlone(pass, blk, s)

\* Every run of a pass ends, and with every operation visited unless it crashed.
Termination == <>(status = "crashed" \/ (status = "done" /\ next = NoPlace))
=============================================================================
