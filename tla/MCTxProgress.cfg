CONSTANTS
    Client = {c1}
    CimdClient = {}
    StaticClient = {c1}
    Code = {k1}
    Family = {f1}
    Access = {a1, a2}
    Refresh = {r1, r2}
    Binding = {b1}
    NULL = NULL
    CodeTTL = 1
    TokenIdleTTL = 1
    ClientIdleTTL = 1
    MetadataTTL = 1
    MaxClients = 1
    MaxTxAge = 1
    MaxNow = 1
    Worker = {w1, w2}
    Evictor = {e1}
SPECIFICATION TxFairSpec
PROPERTY EveryTransactionEnds
CHECK_DEADLOCK FALSE
