CONSTANTS
    NotDrawn = NotDrawn
    Tasks <- MCTasks
    MaxTime = 3
    MaxJobs = 2
    MaxSwitches = 3
    Touching = TRUE

SPECIFICATION Spec

INVARIANT PlotIsExact
