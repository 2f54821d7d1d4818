CONSTANTS
    f1 = f1
    f2 = f2
    Fingerprints = {f1, f2}
    MaxWorkers = 0
SPECIFICATION WatcherSpec
PROPERTIES
    ApprovedIsTakenUp
