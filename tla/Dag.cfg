SPECIFICATION Spec
CONSTANTS
    Wires <- SomeWires
    MaxOps = 3
    Inputs <- SmallKernels
    MaxParses = 2
INVARIANTS TypeOK Acyclic OneVertexPerGate EdgesAreDependences LoopsOnlyAtSharedIndices
CHECK_DEADLOCK FALSE
