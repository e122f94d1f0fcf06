CONSTANTS
    f1 = f1
    f2 = f2
    d1 = d1
    d2 = d2
    x = x
    y = y
    File = {f1, f2}
    Content = {x}
    Held <- TurnUnreadable
    Doc = {d1, d2}
    DocOf <- SiblingDocs
    FormatOf <- OneFormat
    RoleOf <- SiblingRoles
    VersionOf <- OneVersion
    Commands <- MainCommands
    NULL = NULL
    Unreadable = Unreadable
    Unhashed = Unhashed
SPECIFICATION FairSpec
INVARIANT HolesShow
PROPERTY Recovers
CHECK_DEADLOCK FALSE
