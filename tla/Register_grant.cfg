SPECIFICATION Spec
CONSTANTS
    Node = {n1}
    MaxConverges = 1
    MaxFaults = 1
INVARIANT GrantClaimIsTrue
CHECK_DEADLOCK FALSE
