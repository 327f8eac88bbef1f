SPECIFICATION Spec
CONSTANTS
    oldSpan = oldSpan newSpan = newSpan log = log metric = metric
    Rows = {oldSpan, newSpan, log, metric}
    Commits <- MCCommits
    TableOf <- MCTable
    Stamp <- MCStamp
    Window = 0
    Cap = 3
    EmptyPages = 1
    Batch = 1
    MaxNow = 3
    MaxErrors = 0
    Endless = TRUE
PROPERTY
    SweepEnds
