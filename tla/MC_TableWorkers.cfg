CONSTANTS
    NumTables <- MCNumTables
    RawConcurrency <- MCRawConcurrency
    NaN = NaN
SPECIFICATION Spec
INVARIANTS
    TypeOK
    AtMostConcurrency
    NoIdleSlot
PROPERTIES
    StageReturns
    SettlementSpec
