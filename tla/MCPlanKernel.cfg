CONSTANTS
    j1 = j1
    j2 = j2
    Jobs = {j1, j2}
    MaxSteps = 3
    MaxBatch = 2
    MaxTasks = 3
    Titles = {"repository", "one", "two"}
    Markers = {"repository"}
    Paths = {"x", "y"}
    BatchLimit = 2
    MaxPlan = 3
SYMMETRY Symmetry
SPECIFICATION Spec
INVARIANTS
    IdsUnique
    OutcomeIsOwn
    PlansAreValid
