SPECIFICATION Spec
CONSTANTS
    Wires <- TwoWires
    MaxOps = 3
    Inputs <- WalkInputs
    Passes <- PassNames
INVARIANTS TypeOK IteratorValid RestUntouched NonGatesUntouched OneRunSuffices
PROPERTY AdjacentRewritesSound
CHECK_DEADLOCK FALSE
