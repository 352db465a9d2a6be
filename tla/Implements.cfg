SPECIFICATION Spec
CONSTANTS
    Wires <- TwoWires
    MaxOps = 3
    Inputs <- GateInputs
    Passes <- Sound
PROPERTIES ImplementsRewriting
CHECK_DEADLOCK FALSE
