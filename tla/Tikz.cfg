SPECIFICATION Spec
CONSTANTS
    Wires <- SomeWires
    MaxOps = 2
    Modules <- ShortModules
    ThreadCounts = {1, 2}
INVARIANTS TypeOK ColumnsAlign LinksMeet DiagramShowsKernel OneDiagramAfterTheOther EveryKernelOnce
CHECK_DEADLOCK FALSE
