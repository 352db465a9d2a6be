--------------------------- MODULE KernelMeaning ---------------------------
(***************************************************************************)
(* What the walk of a pass (KernelPass) keeps of the kernel: what it does  *)
(* to the qubits (CircuitMeaning), and so what a pass promises             *)
(* (EquivalentRewriting).                                                  *)
(***************************************************************************)
EXTENDS KernelPass, CircuitMeaning

\* At every point of the walk the block does to the qubits, and measures of them,
\* what the input did: the passes are verified like this in tests/testMQSS-QCEC.cpp,
\* on one circuit each.
MeaningPreserved ==
    status # "crashed" => SameMeaning(Meaning(Circuit(blk)), Meaning(input))

\* The operations the visit of place next changed that were there before it.
Changed == {s \in Places : blk[s] # NoOp /\ blk'[s] # blk[s]}
WiresOf(op) == {op.tgts[k] : k \in DOMAIN op.tgts} \cup {op.ctrls[k] : k \in DOMAIN op.ctrls}

\* Nothing stands between the operations of Changed and the current one on any of the
\* wires of the former.
Adjacent ==
    \A s \in Changed : \A t \in Occupied(blk) \ Changed :
      s < t /\ t < next => WiresOf(blk[s]) \cap WiresOf(blk[t]) = {}

\* When nothing stands between the operations a callback rewrites, on any of their
\* wires, the rewrite preserves the meaning of the block - with measurements, resets
\* and adjoint gates about, and for the passes that are not sound without.
AdjacentRewritesSound ==
    [][next # NoPlace /\ Adjacent
         => SameMeaning(Meaning(Circuit(blk')), Meaning(Circuit(blk)))]_vars

SameCircuit(c, d) == SameMeaning(Meaning(c), Meaning(d))

Rewriting == INSTANCE EquivalentRewriting
    WITH Circuits <- Inputs, Equivalent <- SameCircuit,
         circuit <- Circuit(blk), finished <- (status # "running")
=============================================================================
