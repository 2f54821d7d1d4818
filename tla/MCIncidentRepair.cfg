CONSTANTS
    f1 = f1
    f2 = f2
    Fingerprints = {f1}
    MaxWorkers = 2
SPECIFICATION DeliveredSpec
PROPERTIES
    TriagedIsDispatched
    CompletedRepairIsReviewed
