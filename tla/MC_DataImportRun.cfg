CONSTANTS
    NULL = NULL
    DELETE = DELETE
    Tables = {t1, t2}
    MaxRequests = 2
    AtOnce = 2
SPECIFICATION Spec
INVARIANTS
    TypeOK
    ReadyIsBacked
    NoStrayConnection
    RunSettles
PROPERTIES
    ModelsSurvive
    WorkSpecs
