SPECIFICATION Spec
CONSTANTS
    Wires <- SomeWires
    MaxOps = 2
    Modules <- AdjointModules
INVARIANT OneNameOneMatrix
CHECK_DEADLOCK FALSE
