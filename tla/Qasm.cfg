CONSTANTS
  Wires <- ThreeWires
  MaxOps = 1
  Programs <- AllPrograms
  Builds = {TRUE, FALSE}
SPECIFICATION Spec
INVARIANTS TypeOK GatesFaithful AbortsOnUnsupported ResultsOfBits
CHECK_DEADLOCK FALSE
