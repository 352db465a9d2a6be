SPECIFICATION Spec
CONSTANTS
    Wires <- TwoWires
    MaxOps = 2
    Modules <- AllModules
    Passes <- SomePasses
    Threads <- TwoThreads
INVARIANTS TypeOK OneWalkPerKernel WholeModuleOrNothing
PROPERTIES KernelsWalkedAlone Returns
CHECK_DEADLOCK FALSE
