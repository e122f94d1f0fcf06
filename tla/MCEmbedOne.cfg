CONSTANTS
    Proc = {1}
    File = {f1, f2, f3}
    VersionOf <- TwoVersions
    ControlsOf <- SmallFiles
    Engines <- Either
    MinBatch = 2
    MaxPollFailures = 1
    MaxPolls = 1
    MaxId = 9
    MaxRev = 0
    MaxStarts = 2
    NULL = NULL
SPECIFICATION FairSpec
INVARIANT HolesWait
PROPERTY WaitsEnd
CHECK_DEADLOCK FALSE
