CONSTANTS
    Client = {c1, u1}
    CimdClient = {u1}
    StaticClient = {}
    Code = {k1, k2}
    Family = {f1, f2}
    Access = {a1, a2}
    Refresh = {r1, r2}
    Binding = {b1}
    NULL = NULL
    CodeTTL = 1
    TokenIdleTTL = 2
    ClientIdleTTL = 1
    MaxClients = 1
    MaxNow = 4
SPECIFICATION FairSpec
PROPERTIES KeepsPromise ExpiredRowsGo
CHECK_DEADLOCK FALSE
