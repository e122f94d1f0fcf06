CONSTANTS
    Doc <- Docs
    Tree <- Trees
    OlirRows <- Olir
    CisRows <- CisMap
    CuratedRows <- Curated
    Supersedes <- Hops
    Concurrent = FALSE
    MaxGen = 2
    MaxFails = 1
    NULL = NULL
SPECIFICATION FairSpec
INVARIANTS TypeOK FreshMeansBuilt ResolvedRight
PROPERTY EdgesSettle
CHECK_DEADLOCK FALSE
