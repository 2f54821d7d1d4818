CONSTANTS
    f1 = f1
    f2 = f2
    Fingerprints = {f1, f2}
    MaxWorkers = 1
SPECIFICATION Spec
PROPERTIES
    DeploysOnlyApproved
