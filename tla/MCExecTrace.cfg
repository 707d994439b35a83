CONSTANTS
    NotDrawn = NotDrawn
    Tasks <- MCTasks
    MaxTime = 4
    MaxJobs = 2
    MaxSwitches = 3
    Touching = FALSE

SPECIFICATION Spec

INVARIANT TypeOK
INVARIANT PlotIsExact
