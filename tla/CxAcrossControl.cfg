SPECIFICATION Spec
CONSTANTS
    Wires <- TwoWires
    MaxOps = 3
    Inputs <- HOnControl
    Passes <- DoubleCx
INVARIANT MeaningPreserved
CHECK_DEADLOCK FALSE
