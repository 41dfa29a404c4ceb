CONSTANTS
    Requests = {r1, r2, r3}
    UPLOAD = UPLOAD
    SWEEP = SWEEP
SPECIFICATION Spec
INVARIANTS
    TypeOK
    ReadyHasContent
PROPERTIES
    NothingLeftBehind
    ProcessingEnds
