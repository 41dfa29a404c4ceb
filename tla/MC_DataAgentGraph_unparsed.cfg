CONSTANTS
    NULL = NULL
    Datasets <- MCDatasets
    Plans <- MCPlans
    RelevantDatasets <- MCRelevantDatasets
    MaxSteps = 2
    MaxRevisions = 3
    MaxClarifications = 3
    RecursionLimit = 25
SPECIFICATION Spec
INVARIANTS
    UnparsedPlanFallsBack
