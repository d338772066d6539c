SPECIFICATION FairSpec
CONSTANTS
    Resource <- MCResource
    Type <- MCType
    HasVip <- MCHasVip
    Within <- MCWithin
    Mysql <- MCMysql
    RunList <- MCRunList
    MaxInterruptions = 5
INVARIANTS EndedMeansConfigured
PROPERTIES StopsAreForGood OnlyHalfClonedBlocks
