CONSTANTS
    NULL = NULL
    Paths = {a, b}
    Sizes = {small, large}
    MaxTime = 2
    MaxEdits = 3
SYMMETRY PathSymmetry
SPECIFICATION Spec
INVARIANTS
    TypeOK
    SyncedIsCurrentOrDetected
PROPERTIES
    RunCatchesUp
