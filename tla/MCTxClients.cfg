CONSTANTS
    Client = {c1, c2, u1}
    CimdClient = {u1}
    StaticClient = {}
    Code = {k1}
    Family = {f1}
    Access = {a1}
    Refresh = {r1}
    Binding = {b1}
    NULL = NULL
    CodeTTL = 1
    TokenIdleTTL = 2
    ClientIdleTTL = 1
    MetadataTTL = 1
    MaxClients = 1
    MaxTxAge = 1
    MaxNow = 3
    Worker = {w1, w2}
    Evictor = {e1}
SPECIFICATION TxSpec
SYMMETRY Symmetry
INVARIANTS ReferentialIntegrity ClientCap
PROPERTIES GrantKeepsClient GoodCodeKept
CHECK_DEADLOCK FALSE
