SPECIFICATION Spec
CONSTANTS
    BatchSize = 2
    MaxItems = 5
INVARIANTS
    TypeOK
    CompleteSnapshotIsWhole
    ZeroRowsHideNothingRead
    CleanRunLandedEveryRow
    BatchesAccountedFor
PROPERTIES
    ImplementsPublication
CHECK_DEADLOCK FALSE
