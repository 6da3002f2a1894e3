SPECIFICATION Spec
CONSTANTS
    MaxAmount = 2
    MaxLegs = 2
    MaxBills = 3
INVARIANT NothingNegativeGoesOut
CHECK_DEADLOCK FALSE
