SPECIFICATION Spec
CONSTANTS
    Agent = {a1, a2, a3}
    Router = {r1, r2, r3}
    NoAgent = NoAgent
    NoRouter = NoRouter
    MaxFlips = 0
    MaxFaults = 0
PROPERTIES
    AsCloseAsPossible
CHECK_DEADLOCK FALSE
