SPECIFICATION FairSpec
CONSTANTS
    j1 = j1
    j2 = j2
    Jobs = {j1, j2}
    Overlap = FALSE
INVARIANTS
    InProgressIsBacked
    RunningIsRecorded
PROPERTIES
    IncidentDispatchIsExclusive
    CompletedStands
    InProgressEnds
