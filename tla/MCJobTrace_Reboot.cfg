CONSTANTS
    Tasks <- MCTasks
    PERIODS_S <- MCPeriods
    MaxTime = 5
    MaxAborted = 0
    MaxReboots = 1
    MaxGarbage = 0

SPECIFICATION Spec

INVARIANT ResponseNonNegative
