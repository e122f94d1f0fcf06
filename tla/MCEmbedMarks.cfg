CONSTANTS
    Proc = {1}
    File = {f1, f2}
    VersionOf <- OneVersion
    ControlsOf <- SmallFiles
    Engines <- Either
    MinBatch = 3
    MaxPollFailures = 1
    MaxPolls = 1
    MaxId = 6
    MaxRev = 0
    MaxStarts = 2
    NULL = NULL
SPECIFICATION Spec
INVARIANT MarkedComplete
CHECK_DEADLOCK FALSE
