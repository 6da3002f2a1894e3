SPECIFICATION Spec
CONSTANTS
    Launches <- MCLaunches
    Timers <- MCTimers
    MaxRetries = 2
INVARIANTS
    TypeOK
    RunningCountExact
    RetryChainsAreLines
    LateTickIsLast
    TicksOfAFiringTakeTurns
PROPERTIES
    StopReturns
    FailedTickIsRetried
CHECK_DEADLOCK FALSE
