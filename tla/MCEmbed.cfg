CONSTANTS
    Proc = {1, 2}
    File = {f1}
    VersionOf <- OneVersion
    ControlsOf <- TwoControls
    Engines <- Configured
    MinBatch = 2
    MaxPollFailures = 1
    MaxPolls = 1
    MaxId = 3
    MaxRev = 1
    MaxStarts = 1
    NULL = NULL
SPECIFICATION Spec
INVARIANTS TypeOK VectorOfText SparseKnowsText ArtifactsTried
CHECK_DEADLOCK FALSE
