SPECIFICATION Spec
CONSTANTS
    Global = Global
    Stash = Stash
    None = None
    Custs = {}
    MaxId = 2
    Aggrs = {a1}
    Hosts = {}
    PropVals = {p}
    AggMax = 2
    UserMax = 1
    Metadata = {TRUE}
    StashErrs = FALSE
    MaxRequests = 2
    MaxEarly = 1
    MaxTimeouts = 1
    MaxRejects = 0
    MaxCrashes = 1
    MaxRestarts = 0
INVARIANTS
    TypeOK
    Durable
    NoResurrection
    NinstsExact
PROPERTIES
    NoIdReuse
CHECK_DEADLOCK FALSE
