CONSTANTS
    f1 = f1
    f2 = f2
    Fingerprints = {f1, f2}
    MaxWorkers = 1
SYMMETRY Symmetry
SPECIFICATION Spec
INVARIANTS
    MergedIsBeingDeployed

    
    
