SPECIFICATION FairSpec
CONSTANTS
    Pid = {p1, p2, p3}
    NoFile = NoFile
    Empty = Empty
    ShutdownTimeout = 2
    MaxShells = 1
INVARIANTS
    OneDaemon
    AbsenceIsTrue
PROPERTIES
    LostIsLost
    StopEnds
