SPECIFICATION CommandSpec
CONSTANTS
    BatchSize = 1
    MaxItems = 2
    MaxMappings = 2
    MaxConnections = 2
    DefaultKinds <- MCKinds
INVARIANTS
    CommandTypeOK
    VerdictIsEarned
    DenialReachesTheCaller
    ErrorAndStatusAgree
PROPERTIES
    PassEnds
CHECK_DEADLOCK FALSE
