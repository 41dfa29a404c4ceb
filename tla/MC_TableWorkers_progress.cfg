CONSTANTS
    NumTables <- MCNumTables
    RawConcurrency <- MCRawConcurrency
    NaN = NaN
SPECIFICATION Spec
PROPERTIES
    StoredCountGrows
