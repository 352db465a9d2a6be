SPECIFICATION Spec
CONSTANTS
    Wires <- SomeWires
    MaxOps = 3
    Inputs <- SmallFunctions
    DeviceQubits = 3
    Coupling <- LineOfThree
    MaxSwaps = 1
    Builds = {TRUE, FALSE}
INVARIANTS TypeOK MappedKeepsKernel FitsDevice MeasurementsHaveBits
PROPERTIES CoveredKernelsReturn
CHECK_DEADLOCK FALSE
