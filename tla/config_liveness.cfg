SPECIFICATION LiveSpec
CONSTANTS
    Global = Global
    Stash = Stash
    None = None
    Custs = {}
    MaxId = 1
    Aggrs = {a1}
    Hosts = {h1}
    PropVals = {p}
    AggMax = 2
    UserMax = 1
    Metadata = {TRUE}
    StashErrs = FALSE
    MaxRequests = 3
    MaxEarly = 0
    MaxTimeouts = 1
    MaxRejects = 0
    MaxCrashes = 1
    MaxRestarts = 1
PROPERTIES
    AggrConverges
    InstrConverges
    RequestsAnswered
CHECK_DEADLOCK FALSE
