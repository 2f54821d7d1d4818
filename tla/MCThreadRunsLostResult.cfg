CONSTANTS
    j1 = j1
    j2 = j2
    Jobs = {j1, j2}
    Overlap = TRUE
SYMMETRY Symmetry
SPECIFICATION ChatSpec
INVARIANTS
    InProgressIsBacked
