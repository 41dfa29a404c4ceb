CONSTANTS
    NULL = NULL
    Streams = {s1, s2}
    Cancels = {c1}
    Deletes = {d1}
SPECIFICATION Spec
INVARIANTS
    TypeOK
    CompletedHasModel
    EventAgreesWithRow
PROPERTIES
    WorkSpec
    ExecutionSettles
