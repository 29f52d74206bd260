SPECIFICATION Spec
CONSTANTS
    TaskTimeout = 3
    Grace = 2
    MaxAttempts = 2
    AttemptTimeouts <- MCTimeouts
    CompactionGrace = 1
    MaxPauses = 1
    MaxTime = 5
    Lag = 1
INVARIANTS WatchdogBehindAttempt HoldIsAccounted AbortIsBounded BudgetKept
PROPERTIES GraceIsFinal IdleMeansIdle StopsOnlyItsOwn
CHECK_DEADLOCK FALSE
