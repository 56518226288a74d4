SPECIFICATION Spec
CONSTANTS
    Global = Global
    Stash = Stash
    None = None
    Custs = {c}
    MaxId = 1
    Aggrs = {a1}
    Hosts = {h1}
    PropVals = {p}
    AggMax = 2
    UserMax = 1
    Metadata = {TRUE}
    StashErrs = FALSE
    MaxRequests = 2
    MaxEarly = 0
    MaxTimeouts = 1
    MaxRejects = 1
    MaxCrashes = 0
    MaxRestarts = 1
INVARIANTS
    DeadOnlyDisables
    BeliefSound
    CustomerScoped
PROPERTIES
    DeadLeavesClean
CHECK_DEADLOCK FALSE
