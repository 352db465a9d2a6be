SPECIFICATION Spec
CONSTANTS
    Wires <- TwoWires
    MaxOps = 3
    Inputs <- XAndH
    Passes <- Switching
INVARIANT NoCrash
CHECK_DEADLOCK FALSE
