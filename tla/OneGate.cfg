SPECIFICATION Spec
CONSTANTS
    Wires <- ThreeWires
    MaxOps = 3
    Inputs <- OneGateInputs
    Passes <- OneGate
INVARIANT MeaningPreserved
PROPERTY Termination
CHECK_DEADLOCK FALSE
