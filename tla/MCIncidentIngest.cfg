SPECIFICATION Spec
CONSTANTS
    Fingerprints = {f1, f2}
    Failing = {f1}
    Writers = {loop, t1}
    Loop = loop
    NewCount = 2
    NewWindow = 1
    RegCount = 2
    RegWindow = 2
    Grace = 0
    Verify = 2
    MaxTime = 3
    MaxLog = 3
    MaxOther = 1
    MaxEvents = 2
INVARIANTS
    RecordsAreSeen
    TriagedIsRepeated
    WakesOnlyAwake
    VerdictsAreKept
PROPERTIES
    RegressedIsRecent
    RepeatsAreFaults
    ImplementsTable
CHECK_DEADLOCK FALSE
