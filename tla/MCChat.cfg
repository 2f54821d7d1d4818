SPECIFICATION Spec
CONSTANTS
    q1 = q1
    q2 = q2
    h1 = h1
    r1 = r1
    Requests <- MCRequests
    Results <- MCResults
    Readers <- MCReaders
    MaxEvents = 1
SYMMETRY Symmetry
CONSTRAINT Apart
INVARIANTS
    LoneStreamIsExact
    TranscriptIsKept
    PlanIsLatest
    BusyIsReal
    WorkersMatchPlan
