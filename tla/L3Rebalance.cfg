SPECIFICATION Spec
CONSTANTS
    Agent = {a1, a2, a3, a4}
    Router = {r1, r2, r3, r4, r5}
    NoAgent = NoAgent
    NoRouter = NoRouter
    MaxFlips = 0
    MaxFaults = 1
SYMMETRY Symmetry
INVARIANTS
    TypeOK
    UnhostedIsExplained
PROPERTIES
    PairsEndLevel
    NeverUphill
CHECK_DEADLOCK FALSE
