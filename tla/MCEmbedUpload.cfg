CONSTANTS
    Proc = {1}
    File = {f1, f2}
    VersionOf <- OneVersion
    ControlsOf <- SmallFiles
    Engines <- Either
    MinBatch = 2
    MaxPollFailures = 1
    MaxPolls = 1
    MaxId = 4
    MaxRev = 0
    MaxStarts = 1
    NULL = NULL
SPECIFICATION Spec
INVARIANT CreatedIsTried
CHECK_DEADLOCK FALSE
