SPECIFICATION Spec
CONSTANTS
    Agent = {a1, a2, a3}
    Router = {r1, r2}
    NoAgent = NoAgent
    NoRouter = NoRouter
    Tool = {t1, t2}
    MaxFlips = 2
    MaxFaults = 1
    TakeoverDelay = 1
    MaxRuns = 2
SYMMETRY Symmetry
INVARIANTS
    UnhostedIsExplained
    RecoveryIsNoticed
PROPERTIES
    LostStaysLost
    FinishedRunEvacuates
    StepsAreBounded
CHECK_DEADLOCK FALSE
