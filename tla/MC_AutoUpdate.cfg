SPECIFICATION Spec
CONSTANTS
    Last = 2
    MaxAttempts = 3
INVARIANTS
    TypeOK
    AttemptsAreBounded
    ZeroMeansUpdated
    SessionIsAnswered
PROPERTIES
    AttemptsAreSpaced
    BinaryIsNeverLost
CHECK_DEADLOCK FALSE
