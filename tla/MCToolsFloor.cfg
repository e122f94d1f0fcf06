CONSTANTS
    Doc <- MCDoc
    Tree <- MCTree
    Listed <- MCListed
    Models = {"stored", "older"}
    Model = "stored"
    Relations <- MCRelations
    Mapping <- MCMapping
    Rebuilt <- MCRebuilt
    Servers <- MCFloorServers
    MaxJobs = 1
    Queries <- MCQueries
    Lookups <- MCLookups
    Scheme <- MCScheme
    ArmLimit = 4
    CitationLimit = 2
    RRFK = 20
    NonCurrentCap = 3
    NULL = NULL
SPECIFICATION Spec
INVARIANT FloorSeesAllHits
