CONSTANTS
    Client = {c1}
    CimdClient = {}
    StaticClient = {c1}
    Code = {k1}
    Family = {f1, f2}
    Access = {a1, a2}
    Refresh = {r1, r2}
    Binding = {b1, b2}
    NULL = NULL
    CodeTTL = 1
    TokenIdleTTL = 2
    ClientIdleTTL = 1
    MetadataTTL = 1
    MaxClients = 1
    MaxTxAge = 1
    MaxNow = 3
    Worker = {w1, w2}
    Evictor = {e1}
SPECIFICATION TxSpec
SYMMETRY Symmetry
INVARIANTS TxTypeOK SessionCover IdleWindow RequestsNeverDeadlock
PROPERTIES NeverShortened TxKeepsPromise
CHECK_DEADLOCK FALSE
