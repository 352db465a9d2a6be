------------------------ MODULE EquivalentRewriting ------------------------
(***************************************************************************)
(* What a pass promises of a kernel, without saying how: it replaces the   *)
(* circuit by equivalent circuits and stops.  The README of the repository *)
(* has it that a pass modifies or optimizes the representation, and        *)
(* tests/testMQSS-QCEC.cpp that the result is equivalent to the input.     *)
(***************************************************************************)
CONSTANTS Circuits,             \* the circuits a pass may be given
          Equivalent(_, _)      \* do two circuits do the same?

VARIABLES circuit, finished

Init == circuit \in Circuits /\ finished = FALSE

Rewrite ==
    /\ finished = FALSE
    /\ Equivalent(circuit, circuit')
    /\ UNCHANGED finished

Finish ==
    /\ finished = FALSE
    /\ finished' = TRUE
    /\ UNCHANGED circuit

Spec == Init /\ [][Rewrite \/ Finish]_<<circuit, finished>> /\ WF_finished(Finish)
=============================================================================
