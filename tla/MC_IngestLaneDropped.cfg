SPECIFICATION Spec
CONSTANTS
    BatchSize = 2
    MaxItems = 5
INVARIANTS
    DroppedVouchersAreNamed
CHECK_DEADLOCK FALSE
