SPECIFICATION Spec
CONSTANTS
    Launches <- MCLaunches
    Timers <- MCTimers
    MaxRetries = 2
INVARIANTS
    StopWaitsForEveryTick
CHECK_DEADLOCK FALSE
