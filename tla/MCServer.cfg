CONSTANTS
    Req = {1, 2}
    Addr <- MCAddr
    Edge = "edge"
    Hops = 1
    Burst <- MCBurst
    Rate <- MCRate
    TTL = 2
    Stall = 1
    Configs <- MCConfigs
    Kinds <- MCKinds
    MaxStatements = 2
    NULL = NULL
SPECIFICATION FairSpec
INVARIANTS TypeOK FullNeedsCredential GuessesCharged
PROPERTIES LimitsKept PublicRequestsEnd ShutdownEnds
CHECK_DEADLOCK FALSE
