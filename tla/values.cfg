SPECIFICATION Spec
CONSTANTS
    Requests <- AllRequests
    Universe <- SomeKstats
    Datasets <- ZfsTree
    Pids <- Processes
    Sizes = {1095, 1100}
    MaxHappen = 2
    MaxChurn = 1
    MaxReads = 3
INVARIANTS
    Exact
    Fits
CHECK_DEADLOCK FALSE
