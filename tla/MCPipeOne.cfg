CONSTANTS
    f1 = f1
    f2 = f2
    d1 = d1
    d2 = d2
    x = x
    y = y
    File = {f1}
    Content = {x, y}
    Held <- Anything
    Doc = {d1}
    DocOf <- OneDoc
    FormatOf <- OneFormat
    RoleOf <- MainRoles
    VersionOf <- OneVersion
    Commands <- EveryCommand
    NULL = NULL
    Unreadable = Unreadable
    Unhashed = Unhashed
SPECIFICATION FairSpec
INVARIANTS TypeOK StageOrder NormalizedServed
PROPERTY Recovers
CHECK_DEADLOCK FALSE
