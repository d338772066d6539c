SPECIFICATION DhcpSpec
CONSTANTS
    DhcpAgent = {d1, d2}
    Network = {n1, n2, n3}
    Tool = {t1, t2}
    MaxRuns = 2
    MaxAddFaults = 1
PROPERTIES
    FinishedRunReplicates
CHECK_DEADLOCK FALSE
