SPECIFICATION Spec
CONSTANTS
    Node = {n1, n2}
    MaxConverges = 4
    MaxFaults = 1
SYMMETRY Symmetry
INVARIANTS ConvergedRegisters NothingTwice
PROPERTIES SettledIsStable OrphanedCredentialsStay
CHECK_DEADLOCK FALSE
