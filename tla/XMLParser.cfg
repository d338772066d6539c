SPECIFICATION ParserSpec
CONSTANTS
    Blank = ""
    Host = {"n1", "n2"}
    SetName = {"set1", "set2"}
    Role = {"r1", "r2"}
    HostLists <- MCHostLists
    Orders <- MCOrders
    SetTexts <- MCSetTexts
    x = x
    y = y
    quote = quote
    comma = comma
    Part <- MCPart
    Mark <- MCMark
    KeyPairs <- MCKeyPairs
    Templates <- MCTemplates
INVARIANTS
    WavesAreTheSets
    EnvironmentIsFilledIn
