SPECIFICATION FairSpec
CONSTANTS
    n1 = n1
    n2 = n2
    n3 = n3
    Node = {n1, n2, n3}
    InitHost = n1
    MaxFaults = 2
INVARIANTS
    ClustersAreCounted
    DatabaseSurvives
PROPERTIES
    OutageIsForGood
    InstallSettles
CHECK_DEADLOCK FALSE
