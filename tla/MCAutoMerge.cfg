SPECIFICATION FairSpec
CONSTANTS
    Jobs = {j1, j2}
    Branches = {b1, b2}
    MaxPulls = 1
INVARIANTS
    CompletedIsDone
    UnreportedOnlyIfNamed
    MergedIsSettled
PROPERTIES
    JobReportsBack
CHECK_DEADLOCK FALSE
