SPECIFICATION Spec
CONSTANTS
    Wires <- SomeWires
    MaxOps = 2
    Modules <- ShortModules
INVARIANTS TypeOK ProductOfGates OneNameOneMatrix CallsMatchDeclarations
PROPERTIES ErasedAtTheEnd Replaced
CHECK_DEADLOCK FALSE
