SPECIFICATION Spec
CONSTANTS
    NULL = NULL
    Clients = {c1, c2}
    Offers <- Pairs
    Paths <- MCPaths
    Loaded <- MCLoaded
    Strays <- MCStrays
    IsDir <- EndsInSlash
    MaxCalls = 2
    MaxFails = 1
INVARIANTS SearchExclusive OverlapIsAtomic
PROPERTIES CallAnswered
CHECK_DEADLOCK FALSE
