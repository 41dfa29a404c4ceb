CONSTANTS
    NULL = NULL
    Streams = {s1, s2}
    MaxMessages = 3
    MaxClarifications = 1
    HistoryWindow = 3
SPECIFICATION Spec
INVARIANTS
    TypeOK
    EventAgreesWithRow
    ClarificationsBounded
    CapturedAfterFollowUp
PROPERTIES
    AnswersAreKept
    WorkSpecs
    MessageSettles
