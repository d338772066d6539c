SPECIFICATION Spec
CONSTANTS
    Host = {h1, h2}
    MaxRuns = 4
    MaxFaults = 2
PROPERTIES
    SecondNeedsARace
    
    CleanRunDelivers
    
SYMMETRY Symmetry
CHECK_DEADLOCK FALSE
