SPECIFICATION Spec
CONSTANTS
    oldSpan = oldSpan newSpan = newSpan log = log metric = metric
    Rows = {oldSpan, newSpan, log, metric}
    Commits <- MCCommits
    TableOf <- MCTable
    Stamp <- MCStamp
    Window = 1
    Cap = 2
    EmptyPages = 1
    Batch = 1
    MaxNow = 5
    MaxErrors = 1
    Endless = FALSE
INVARIANTS
    AgeSweepComplete
    OverCapWipesAll
PROPERTIES
    DeletedForCause
    SweepRunsDown
    SweepEnds
    ExpiredRowsGo
