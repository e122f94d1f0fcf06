CONSTANTS
    f1 = f1
    f2 = f2
    d1 = d1
    d2 = d2
    x = x
    y = y
    File = {f1, f2}
    Content = {x, y}
    Held <- TwoNames
    Doc = {d1}
    DocOf <- OneDoc
    FormatOf <- OneFormat
    RoleOf <- MainRoles
    VersionOf <- OneVersion
    Commands <- MainCommands
    NULL = NULL
    Unreadable = Unreadable
    Unhashed = Unhashed
SPECIFICATION Spec
INVARIANT CompleteMeansServed
CHECK_DEADLOCK FALSE
