CONSTANTS
    Tasks <- MCTasks
    PERIODS_S <- MCPeriods
    MaxTime = 4
    MaxAborted = 1
    MaxReboots = 1
    MaxGarbage = 1

SPECIFICATION Spec

INVARIANT TypeOK
INVARIANT ReleaseErrorIsAbortedPeriods
