SPECIFICATION InstallFairSpec
CONSTANTS
    n1 = n1
    n2 = n2
    Node <- MCNode
    Commands <- MCCommands
    MaxRuns = 2
    OptionSets <- MCOptionSets
    MaxVersion = 2
    MaxStarts = 2
INVARIANTS
    WaveBarrier
    OverlapNeedsBrokenRun
    RolesAndEnvironmentAgree
PROPERTIES
    ImplementsWaveOrder
    FailureIsNoticed
    ReturnIsPolled
    EveryRunEnds
CHECK_DEADLOCK FALSE
